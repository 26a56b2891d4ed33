------------------------- MODULE MCContractChanges -------------------------
(***************************************************************************)
(* ContractChanges for TLC: model values for addresses, slots and values.  *)
(***************************************************************************)
EXTENDS ContractChanges

CONSTANTS a1, s1, s2, w0, w1, w2, b0, b1, code1, usdc
=============================================================================
