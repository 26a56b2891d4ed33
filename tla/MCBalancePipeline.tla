------------------------- MODULE MCBalancePipeline -------------------------
(***************************************************************************)
(* BalancePipeline for TLC: two pools that hold WETH, and everybody else.  *)
(***************************************************************************)
EXTENDS BalancePipeline

CONSTANTS pool1, pool2, weth

Pools == Permutations({pool1, pool2})
=============================================================================
