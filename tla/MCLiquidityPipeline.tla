------------------------ MODULE MCLiquidityPipeline ------------------------
(***************************************************************************)
(* LiquidityPipeline for TLC: two adjacent ranges, which share a tick.     *)
(***************************************************************************)
EXTENDS LiquidityPipeline

CONSTANTS pool1

Adjacent == {<<1, 2>>, <<2, 3>>}
=============================================================================
