---------------------------- MODULE StateMirror ----------------------------
(***************************************************************************)
(* What every indexing component of the SDK promises to the consumer of    *)
(* its output.  source is the state of the protocol on chain; mirror is    *)
(* the state that the consumer reaches by applying the messages emitted so *)
(* far.  The source moves freely.  The mirror moves only when a message is *)
(* emitted, and then it becomes the whole of the source: no change is      *)
(* lost, none is invented, none is half applied.                           *)
(***************************************************************************)
VARIABLES source, mirror

Init == mirror = source

(* The protocol changes; nothing is emitted yet.                           *)
Move == UNCHANGED mirror

(* The changes accumulated since the last message are emitted and applied. *)
Publish ==
    /\ mirror' = source
    /\ UNCHANGED source

Next == Move \/ Publish

Spec == Init /\ [][Next]_<<source, mirror>>
=============================================================================
