-------------------------- MODULE MCEntityChanges --------------------------
(***************************************************************************)
(* EntityChanges for TLC: model values for components, names and values.   *)
(***************************************************************************)
EXTENDS EntityChanges

CONSTANTS c1, tick, paused, marker, v0, v1
=============================================================================
