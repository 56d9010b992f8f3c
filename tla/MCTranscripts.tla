--------------------------- MODULE MCTranscripts ---------------------------
(* Instances of Transcripts for TLC.                                       *)
EXTENDS Transcripts, TLC

\* Requests are interchangeable.
Symmetry == Permutations(Ack) \cup Permutations(Get)
=============================================================================
