--------------------------- MODULE MCJobQueueDocs ---------------------------
(* What HLD-001 says of the queue and the code does not do.                *)
EXTENDS MCJobQueue

\* HLD-001 section 12 (line 500): a full disk under the transcript's write
\* marks the job failed.  A running worker never ends an iteration while its
\* job is still PROCESSING under its lease.
WriteErrorIsHandled ==
    [][\A w \in Worker :
          pc[w] = "running" /\ OwnsLease(w) /\ up' /\ pc'[w] = "idle" =>
              rows'[ctx[w].job].status \in {"queued", "failed", "done"}]_vars
=============================================================================
