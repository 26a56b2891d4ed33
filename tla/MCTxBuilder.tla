---------------------------- MODULE MCTxBuilder ----------------------------
(***************************************************************************)
(* TxBuilder for TLC: one component with a pause flag and a marker, one    *)
(* contract with one slot, one token, one entry point.                     *)
(***************************************************************************)
EXTENDS TxBuilder, TLC

CONSTANTS c1, paused, marker, v0, v1, a1, s1, w0, w1, b0, b1, usdc, d1, d2, e1

(* Nothing tells the two descriptions of the component apart.              *)
DescriptionSymmetry == Permutations({d1, d2})
=============================================================================
