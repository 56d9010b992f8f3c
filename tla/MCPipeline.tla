----------------------------- MODULE MCPipeline -----------------------------
(* Instances of Pipeline for TLC.                                          *)
EXTENDS Pipeline

\* In the order of sorted(): {job_id}.m4a, {job_id}.wav, {job_id}.webm.
MCWav   == 2
MCMedia == {1, 3}
=============================================================================
