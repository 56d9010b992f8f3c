---------------------------- MODULE MCRetention ----------------------------
(* Instances of Retention for TLC.                                         *)
EXTENDS Retention, TLC

CONSTANTS Ages, Sizes   \* of the files that are there at first

MCFirstFile == {File(m, s) : m \in Ages, s \in Sizes}

\* Names of files and runs are interchangeable.
Symmetry == Permutations(Path) \cup Permutations(Run)
=============================================================================
