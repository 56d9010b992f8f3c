----------------------------- MODULE MCJobQueue -----------------------------
(* Small instances of JobQueue for TLC. *)
EXTENDS JobQueue, TLC

MCPipelineError == {[code |-> "NO_AUDIO", retryable |-> FALSE]}
Symmetry == Permutations(Job) \cup Permutations(Worker)
WorkerSymmetry == Permutations(Worker)
=============================================================================
