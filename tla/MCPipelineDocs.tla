--------------------------- MODULE MCPipelineDocs ---------------------------
(* What documents of the repository say of runs that overlap and the code  *)
(* does not do: TLC finds a behaviour for each.                            *)
EXTENDS MCPipeline

\* HLD-001 section 5.2 (line 151): "All races the codebase has are already
\* safe under LTS_WORKER_COUNT > 1".  The current run of a job, failed by no
\* tool and no gateway, gives the whole text although an older run is still
\* under way, when leases expire only after ffmpeg is done.
OverlapIsSafe ==
    faults = 0 /\ ~late =>
        \A r \in Run : pc[r] \in Told /\ Heard(r) /\ ~excused[r]
            => outcome[r] = Success("whole")

\* api/schemas.py:78 "transcript: full transcript text when status == done".
\* The text of a DONE job is whole when leases expire only after ffmpeg is
\* done.
DoneTranscriptWhole ==
    faults = 0 /\ ~late /\ phase = "done" => transcript = "whole"
=============================================================================
