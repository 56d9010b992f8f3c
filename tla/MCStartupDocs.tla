--------------------------- MODULE MCStartupDocs ---------------------------
(* What documents of the repository say of starting the service and the    *)
(* code does not do.                                                       *)
EXTENDS Startup

\* HLD-001 section 5.2 (line 161), of two processes that both call
\* store.init(): "Safe? YES ... Each ALTER is a no-op once the column exists".
\* No ALTER of init raises.
InitIsSafeForTwo ==
    \A p \in Process, c \in Added : lost[p][c] = 0
=============================================================================
