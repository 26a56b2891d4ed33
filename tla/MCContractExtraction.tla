------------------------ MODULE MCContractExtraction -----------------------
(***************************************************************************)
(* ContractExtraction for TLC: a contract of interest and another account. *)
(***************************************************************************)
EXTENDS ContractExtraction

CONSTANTS vault, other, s1, w0, w1, w2, code1
=============================================================================
