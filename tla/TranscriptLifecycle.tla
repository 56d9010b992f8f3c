------------------------ MODULE TranscriptLifecycle ------------------------
(***************************************************************************)
(* What the service promises of one job's transcript, without handlers,    *)
(* statements and failures.                                                *)
(*                                                                         *)
(* An acknowledgement takes effect at one moment: of all clients that ask, *)
(* however often, one is the first.  After that moment, and never before,  *)
(* the transcript moves from results/ to trash/ and the row follows it.  A *)
(* client is told that it moved only while file and row are there.  The    *)
(* service itself never loses the transcript of a finished job.            *)
(***************************************************************************)
EXTENDS Naturals

CONSTANT Client   \* those who acknowledge the job

VARIABLES
    status,   \* open, done or failed
    row,      \* where the row says that the transcript is
    acked,    \* has the job been acknowledged?
    copies,   \* the places that hold the transcript
    verdict,  \* what each client's last request has come to
    moved     \* was it told that the transcript is in trash/?

vars == <<status, row, acked, copies, verdict, moved>>

Init ==
    /\ status = "open" /\ row = "none" /\ acked = FALSE /\ copies = {}
    /\ verdict = [c \in Client |-> "none"]
    /\ moved = [c \in Client |-> FALSE]

\* A run of the pipeline writes the text, also one that ended too late.
Write ==
    /\ copies' = copies \cup {"results"}
    /\ UNCHANGED <<status, row, acked, verdict, moved>>

Finish ==
    /\ status = "open" /\ "results" \in copies
    /\ status' = "done" /\ row' = "results"
    /\ UNCHANGED <<acked, copies, verdict, moved>>

Fail ==
    /\ status = "open" /\ status' = "failed"
    /\ UNCHANGED <<row, acked, copies, verdict, moved>>

Ask(c) ==
    /\ status = "done"
    /\ verdict' = [verdict EXCEPT ![c] = "asked"]
    /\ moved' = [moved EXCEPT ![c] = FALSE]
    /\ UNCHANGED <<status, row, acked, copies>>

\* The moment of an acknowledgement.
Decide(c) ==
    /\ verdict[c] = "asked"
    /\ verdict' = [verdict EXCEPT ![c] = IF acked THEN "again" ELSE "first"]
    /\ acked' = TRUE
    /\ UNCHANGED <<status, row, copies, moved>>

Confirm(c) ==
    /\ verdict[c] \in {"first", "again"}
    /\ row = "trash" /\ "trash" \in copies
    /\ moved' = [moved EXCEPT ![c] = TRUE]
    /\ UNCHANGED <<status, row, acked, copies, verdict>>

\* Requests are refused or lost, whatever they had come to.
Lose(S) ==
    /\ verdict' = [c \in Client |-> IF c \in S THEN "none" ELSE verdict[c]]
    /\ moved' = [c \in Client |-> c \notin S /\ moved[c]]
    /\ UNCHANGED <<status, row, acked, copies>>

\* The file moves, in one step, over one that is there already.
Move ==
    /\ acked /\ "results" \in copies /\ copies' = {"trash"}
    /\ UNCHANGED <<status, row, acked, verdict, moved>>

Follow ==
    /\ acked /\ row' = "trash"
    /\ UNCHANGED <<status, acked, copies, verdict, moved>>

\* Others delete a file of a finished job.
Remove(place) ==
    /\ status = "done" /\ copies' = copies \ {place}
    /\ UNCHANGED <<status, row, acked, verdict, moved>>

Next ==
    \/ Write \/ Finish \/ Fail \/ Move \/ Follow
    \/ \E c \in Client : Ask(c) \/ Decide(c) \/ Confirm(c)
    \/ \E S \in SUBSET Client : Lose(S)
    \/ \E place \in {"results", "trash"} : Remove(place)

Spec == Init /\ [][Next]_vars
=============================================================================
