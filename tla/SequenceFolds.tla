---------------------------- MODULE SequenceFolds ---------------------------
(***************************************************************************)
(* The few operators of SequencesExt that the integrations use, as         *)
(* recursive functions.  SequencesExt would bring the operators of Bags    *)
(* and of TLC into every instance of an integration; the proofs about      *)
(* MCIntegrations, which has one instance of each, take twice as long then. *)
(***************************************************************************)
EXTENDS Integers, Sequences

Last(seq) == seq[Len(seq)]
Front(seq) == SubSeq(seq, 1, Len(seq) - 1)

FoldLeft(Op(_, _), base, seq) ==
    LET folded[n \in 0..Len(seq)] ==
            IF n = 0 THEN base ELSE Op(folded[n - 1], seq[n])
    IN  folded[Len(seq)]

FlattenSeq(seqs) == FoldLeft(LAMBDA whole, seq : whole \o seq, <<>>, seqs)
=============================================================================
