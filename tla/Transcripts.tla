---------------------------- MODULE Transcripts ----------------------------
(***************************************************************************)
(* The life of one job's transcript after the pipeline: the file that the  *)
(* worker writes to results/, the acknowledgement that moves it to trash/  *)
(* (api/jobs.py ack_job, queue/transcripts.py move_to_trash), the two GET  *)
(* handlers that read it, and what removes it: lts-trash-cleanup and the   *)
(* operator.                                                               *)
(*                                                                         *)
(* The row and the file change in separate steps.  Handlers of one event   *)
(* loop interleave at each await, so a step is one statement of the store  *)
(* or the code between two awaits; move_to_trash is synchronous and is one *)
(* step with the test before it.  Files of other processes come and go at  *)
(* any step.  Every statement is WHERE job_id = and every file is named    *)
(* after its job: jobs do not interfere, and one is modelled.              *)
(***************************************************************************)
EXTENDS Naturals, FiniteSets

\* A definition whose name extends that of the one after it is a variant with
\* a plausible bug: the properties are also checked to fail for the variants.

CONSTANTS
    Ack,               \* POST /jobs/{id}/ack requests in flight at a time
    Get,               \* GET requests in flight at a time
    MaxFaults,         \* bound: failed calls and crashes
    MaxInterventions,  \* bound: files removed or relocated by others
    MaxStaleWrites     \* bound: writes by runs that lost their lease

ASSUME BoundAssumption ==
    MaxFaults \in Nat /\ MaxInterventions \in Nat /\ MaxStaleWrites \in Nat

VARIABLES
    status,         \* the job: "open" until it is "done" or "failed"
    path,           \* transcript_path
    ackedAt,        \* acked_at: 0 is NULL, a later time is a larger number
    files,          \* the places that hold the transcript
    parts,          \* those of them that hold only a part of a text
    ack,            \* the acknowledgements: local variables and last answer
    get,            \* the GET requests: local variables and last answer
    faults,         \* failed calls and crashes so far
    interventions,  \* removed and relocated files so far
    staleWrites     \* writes after DONE so far

rowVars   == <<status, path, ackedAt>>
countVars == <<faults, interventions, staleWrites>>
vars == <<status, path, ackedAt, files, parts, ack, get, faults,
          interventions, staleWrites>>

Place == {"results", "trash"}

\* An acknowledgement's place in ack_job:
\*   idle        not running; code and moved are its last answer
\*   marking     about to execute mark_acked's UPDATE
\*   reading     mark_acked's UPDATE is committed, its get() is not
\*   moving      about to test and move the file
\*   updating    about to update_transcript_path
\*   refreshing  about to get() the row again
\*   responding  about to observe the file and answer
AckLabel == {"idle", "marking", "reading", "moving", "updating", "refreshing",
             "responding"}

\* Answers; 0 is none yet.
AckCode == {0, 200, 409, 500, 503}

AckRecord == [pc : AckLabel,
              path : Place \cup {"none"},  \* job.transcript_path
              newly : BOOLEAN,             \* newly_acked
              calm : BOOLEAN,              \* history, see Findable
              code : AckCode,
              moved : BOOLEAN]             \* transcript_moved
NoAck == [pc |-> "idle", path |-> "none", newly |-> FALSE, calm |-> FALSE,
          code |-> 0, moved |-> FALSE]

\* A GET's place in get_job or get_result: about to test that the file of the
\* row it read exists, or about to read it.
GetLabel == {"idle", "checking", "opening"}
Endpoint == {"job", "result"}
GetCode  == {0, 200, 404, 410, 500}

GetRecord == [pc : GetLabel, endpoint : Endpoint,
              path : Place \cup {"none"},
              confirmed : BOOLEAN,         \* history, see GetStart
              code : GetCode,
              served : {"none", "part", "whole"}]  \* the text in the answer
NoGet == [pc |-> "idle", endpoint |-> "job", path |-> "none",
          confirmed |-> FALSE, code |-> 0, served |-> "none"]

\* Could an acknowledgement that starts now find the file?  ack_job looks at
\* the path of the row, which an update under way may change, and in trash/.
Findable ==
    \/ "trash" \in files
    \/ path \in files /\ \A r \in Ack : ack[r].pc # "updating"

\* A history variable of an acknowledgement: it started with a file to be
\* found, and since then nothing outside the handlers failed or touched it.
Disturb == ack' = [r \in Ack |-> [ack[r] EXCEPT !.calm = FALSE]]

-----------------------------------------------------------------------------
Init ==
    /\ status = "open" /\ path = "none" /\ ackedAt = 0
    /\ files = {} /\ parts = {}
    /\ ack = [r \in Ack |-> NoAck]
    /\ get = [g \in Get |-> NoGet]
    /\ faults = 0 /\ interventions = 0 /\ staleWrites = 0

(* The worker                                                              *)

\* write_text truncates the file and then writes it.  It blocks the event
\* loop, so only reads in threads can overlap it: any of them may get a part.
Reading == {g \in Get : get[g].pc = "opening" /\ get[g].path = "results"}
TearReads ==
    \E torn \in SUBSET Reading :
        get' = [g \in Get |->
                  IF g \in torn
                  THEN [get[g] EXCEPT !.pc = "idle", !.code = 200,
                                      !.served = "part"]
                  ELSE get[g]]

\* A run of the pipeline writes results/{job_id}.md.
WriteTranscript ==
    /\ status = "open"
    /\ files' = files \cup {"results"} /\ parts' = parts \ {"results"}
    /\ UNCHANGED <<rowVars, ack, get, countVars>>

\* So does a run that lost its lease, when another run has ended the job.
StaleWrite ==
    /\ status # "open" /\ staleWrites < MaxStaleWrites
    /\ staleWrites' = staleWrites + 1
    /\ files' = files \cup {"results"} /\ parts' = parts \ {"results"}
    /\ TearReads
    /\ UNCHANGED <<rowVars, ack, faults, interventions>>

\* A write of either kind fails after the truncation, or the process ends in
\* it: the file stays as it was left.
WriteBreaks ==
    /\ faults < MaxFaults /\ faults' = faults + 1
    /\ files' = files \cup {"results"} /\ parts' = parts \cup {"results"}
    /\ TearReads
    /\ UNCHANGED <<rowVars, ack, interventions, staleWrites>>

\* JobStore.mark_done, whose guard lets one run through (JobQueue).
FinishJobAgain ==
    /\ status # "failed" /\ "results" \in files
    /\ status' = "done" /\ path' = "results"
    /\ UNCHANGED <<ackedAt, files, parts, ack, get, countVars>>
FinishJob ==
    /\ status = "open" /\ "results" \in files
    /\ status' = "done" /\ path' = "results"
    /\ UNCHANGED <<ackedAt, files, parts, ack, get, countVars>>

\* JobStore.mark_failed
FailJob ==
    /\ status = "open" /\ status' = "failed"
    /\ UNCHANGED <<path, ackedAt, files, parts, ack, get, countVars>>

-----------------------------------------------------------------------------
(* POST /jobs/{id}/ack                                                     *)

AckGoes(r, label) == ack' = [ack EXCEPT ![r].pc = label]
AckAnswers(r, code, moved) ==
    ack' = [ack EXCEPT ![r].pc = "idle", ![r].code = code, ![r].moved = moved]

\* The pre-flight get().  A job that is not DONE is refused.
AckStart(r) ==
    /\ ack[r].pc = "idle"
    /\ \/ /\ status = "done"
          /\ ack' = [ack EXCEPT
                       ![r] = [NoAck EXCEPT !.pc = "marking",
                                            !.calm = Findable]]
       \/ /\ status # "done"
          /\ ack' = [ack EXCEPT ![r] = [NoAck EXCEPT !.code = 409]]
    /\ UNCHANGED <<rowVars, files, parts, get, countVars>>

\* The UPDATE of mark_acked; its rowcount tells the first acknowledgement.
MarkAckedAgain(r) ==
    /\ ack[r].pc = "marking"
    /\ ackedAt' = ackedAt + 1
    /\ ack' = [ack EXCEPT ![r].newly = (ackedAt = 0), ![r].pc = "reading"]
    /\ UNCHANGED <<status, path, files, parts, get, countVars>>
MarkAckedUncommitted(r) ==
    /\ ack[r].pc = "marking"
    /\ ack' = [ack EXCEPT ![r].newly = (ackedAt = 0), ![r].pc = "reading"]
    /\ UNCHANGED <<rowVars, files, parts, get, countVars>>
MarkAckedUncounted(r) ==
    /\ ack[r].pc = "marking"
    /\ ackedAt' = IF ackedAt = 0 THEN 1 ELSE ackedAt
    /\ ack' = [ack EXCEPT ![r].newly = TRUE, ![r].pc = "reading"]
    /\ UNCHANGED <<status, path, files, parts, get, countVars>>
MarkAcked(r) ==
    /\ ack[r].pc = "marking"
    /\ ackedAt' = IF status = "done" /\ ackedAt = 0 THEN 1 ELSE ackedAt
    /\ ack' = [ack EXCEPT ![r].newly = (ackedAt = 0), ![r].pc = "reading"]
    /\ UNCHANGED <<status, path, files, parts, get, countVars>>

\* The get() at the end of mark_acked.
ReadAcked(r) ==
    /\ ack[r].pc = "reading"
    /\ ack' = [ack EXCEPT ![r].path = path, ![r].pc = "moving"]
    /\ UNCHANGED <<rowVars, files, parts, get, countVars>>

\* currently_in_trash and transcript_moved_now, of the row that was read.
InTrashSomewhere(r) == "trash" \in files
InTrash(r) == ack[r].path = "trash" /\ "trash" \in files

\* The file that move_to_trash renames, and the one it discovers when the
\* source is gone.
Source(r) == ack[r].path \in files
CanonicalNeverSought(r) == FALSE
Canonical(r) == ack[r].path = "results" /\ "trash" \in files

\* The file is there already: no move, and the answer at once.
MoveNotNeeded(r) ==
    /\ ack[r].pc = "moving" /\ InTrash(r)
    /\ AckAnswers(r, 200, TRUE)
    /\ UNCHANGED <<rowVars, files, parts, get, countVars>>

\* move_to_trash renames the source, over a file of that name if there is one.
MoveDroppingFile(r) ==
    /\ ack[r].pc = "moving" /\ ~InTrash(r) /\ Source(r)
    /\ files' = files \ {"results"} /\ parts' = parts \ {"results"}
    /\ AckGoes(r, "updating")
    /\ UNCHANGED <<rowVars, get, countVars>>
Move(r) ==
    /\ ack[r].pc = "moving" /\ ~InTrash(r) /\ Source(r)
    /\ files' = (files \ {"results"}) \cup {"trash"}
    /\ parts' = IF "results" \in parts THEN {"trash"} ELSE {}
    /\ AckGoes(r, "updating")
    /\ UNCHANGED <<rowVars, get, countVars>>

\* The source is gone but its name is in trash/: the row will be healed.
MoveHeals(r) ==
    /\ ack[r].pc = "moving" /\ ~InTrash(r) /\ ~Source(r) /\ Canonical(r)
    /\ AckGoes(r, "updating")
    /\ UNCHANGED <<rowVars, files, parts, get, countVars>>

\* Neither is there: the answer at once.
MoveFindsNothing(r) ==
    /\ ack[r].pc = "moving" /\ ~InTrash(r) /\ ~Source(r) /\ ~Canonical(r)
    /\ AckAnswers(r, 200, FALSE)
    /\ UNCHANGED <<rowVars, files, parts, get, countVars>>

\* JobStore.update_transcript_path, unconditional
UpdatePathOnlyFirst(r) ==
    /\ ack[r].pc = "updating"
    /\ path' = IF ack[r].newly THEN "trash" ELSE path
    /\ AckGoes(r, "refreshing")
    /\ UNCHANGED <<status, ackedAt, files, parts, get, countVars>>
UpdatePath(r) ==
    /\ ack[r].pc = "updating"
    /\ path' = "trash"
    /\ AckGoes(r, "refreshing")
    /\ UNCHANGED <<status, ackedAt, files, parts, get, countVars>>

\* The get() that refreshes the row.
Refresh(r) ==
    /\ ack[r].pc = "refreshing"
    /\ ack' = [ack EXCEPT ![r].path = path, ![r].pc = "responding"]
    /\ UNCHANGED <<rowVars, files, parts, get, countVars>>

\* The final observation, and the answer.
RespondUnobserved(r) ==
    /\ ack[r].pc = "responding"
    /\ AckAnswers(r, 200, ack[r].path = "trash")
    /\ UNCHANGED <<rowVars, files, parts, get, countVars>>
Respond(r) ==
    /\ ack[r].pc = "responding"
    /\ AckAnswers(r, 200, InTrash(r))
    /\ UNCHANGED <<rowVars, files, parts, get, countVars>>

AckStep(r) ==
    \/ MarkAcked(r)
    \/ ReadAcked(r)
    \/ MoveNotNeeded(r)
    \/ Move(r)
    \/ MoveHeals(r)
    \/ MoveFindsNothing(r)
    \/ UpdatePath(r)
    \/ Refresh(r)
    \/ Respond(r)

-----------------------------------------------------------------------------
(* What fails                                                              *)

\* A step of the handler of r fails: every running request may be affected.
Fault(r, code) ==
    /\ faults < MaxFaults /\ faults' = faults + 1
    /\ ack' = [ack EXCEPT ![r].pc = "idle", ![r].code = code,
                          ![r].moved = FALSE, ![r].calm = FALSE]
    /\ UNCHANGED <<rowVars, files, parts, get, interventions, staleWrites>>

\* A statement of the store raises: 503.
DatabaseFails(r) ==
    /\ ack[r].pc \in {"marking", "reading", "updating", "refreshing"}
    /\ Fault(r, 503)

\* The rename raises OSError: the answer at once, the file not in trash/.
MoveFails(r) ==
    /\ ack[r].pc = "moving" /\ ~InTrash(r) /\ Source(r)
    /\ Fault(r, 200)

\* trash/ is gone and cannot be created.  Nothing catches the OSError of that
\* mkdir: the framework answers 500.
MkdirFails(r) ==
    /\ ack[r].pc = "moving" /\ "trash" \notin files
    /\ Fault(r, 500)

\* The process ends, and with it every request.
Crash ==
    /\ faults < MaxFaults /\ faults' = faults + 1
    /\ \E r \in Ack : ack[r].pc # "idle"
    /\ ack' = [r \in Ack |-> IF ack[r].pc = "idle" THEN ack[r] ELSE NoAck]
    /\ get' = [g \in Get |-> IF get[g].pc = "idle" THEN get[g] ELSE NoGet]
    /\ UNCHANGED <<rowVars, files, parts, interventions, staleWrites>>

\* The operator deletes a transcript, or lts-trash-cleanup unlinks it.
Remove(place) ==
    /\ status = "done" /\ place \in files
    /\ interventions < MaxInterventions
    /\ interventions' = interventions + 1
    /\ files' = files \ {place} /\ parts' = parts \ {place}
    /\ Disturb
    /\ UNCHANGED <<rowVars, get, faults, staleWrites>>

\* The operator drags an acknowledged file that was not moved to trash/.
Drag ==
    /\ ackedAt # 0 /\ "results" \in files
    /\ interventions < MaxInterventions
    /\ interventions' = interventions + 1
    /\ files' = {"trash"}
    /\ parts' = IF "results" \in parts THEN {"trash"} ELSE {}
    /\ Disturb
    /\ UNCHANGED <<rowVars, get, faults, staleWrites>>

-----------------------------------------------------------------------------
(* GET /jobs/{id} and GET /jobs/{id}/result                                *)

GetAnswers(g, code, served) ==
    get' = [get EXCEPT ![g].pc = "idle", ![g].code = code,
                       ![g].served = served]

\* The row is read; a job that is not DONE has no transcript.  The history
\* variable says whether a client knew by then that the transcript has moved.
Confirmed == \E r \in Ack : ack[r].moved
GetStartAtResults(g, endpoint) ==
    /\ get[g].pc = "idle" /\ status = "done"
    /\ get' = [get EXCEPT ![g] =
                 [NoGet EXCEPT !.endpoint = endpoint, !.pc = "checking",
                               !.path = "results", !.confirmed = Confirmed]]
    /\ UNCHANGED <<rowVars, files, parts, ack, countVars>>
GetStartUnchecked(g, endpoint) ==
    /\ get[g].pc = "idle"
    /\ get' = [get EXCEPT ![g] =
                 [NoGet EXCEPT !.endpoint = endpoint, !.pc = "checking",
                               !.path = path, !.confirmed = Confirmed]]
    /\ UNCHANGED <<rowVars, files, parts, ack, countVars>>
GetStart(g, endpoint) ==
    /\ get[g].pc = "idle"
    /\ LET started == [NoGet EXCEPT !.endpoint = endpoint]
           refusal == CASE endpoint = "job"   -> 200
                        [] status = "failed"  -> 410
                        [] OTHER              -> 404
       IN get' = [get EXCEPT ![g] =
                    IF status = "done"
                    THEN [started EXCEPT !.pc = "checking", !.path = path,
                                         !.confirmed = Confirmed]
                    ELSE [started EXCEPT !.code = refusal]]
    /\ UNCHANGED <<rowVars, files, parts, ack, countVars>>

\* path.exists(): without the file get_job leaves the transcript out and
\* get_result answers 500.
GetCheck(g) ==
    /\ get[g].pc = "checking"
    /\ \/ /\ get[g].path \in files
          /\ get' = [get EXCEPT ![g].pc = "opening"]
       \/ /\ get[g].path \notin files
          /\ GetAnswers(g, IF get[g].endpoint = "job" THEN 200 ELSE 500,
                        "none")
    /\ UNCHANGED <<rowVars, files, parts, ack, countVars>>

\* The file is read, in a thread or by the response; when it has gone since
\* the test the error is not caught.
GetOpen(g) ==
    /\ get[g].pc = "opening"
    /\ \/ /\ get[g].path \in files
          /\ GetAnswers(g, 200, IF get[g].path \in parts THEN "part"
                                                         ELSE "whole")
       \/ /\ get[g].path \notin files
          /\ GetAnswers(g, 500, "none")
    /\ UNCHANGED <<rowVars, files, parts, ack, countVars>>

-----------------------------------------------------------------------------
Next ==
    \/ WriteTranscript \/ StaleWrite \/ WriteBreaks
    \/ FinishJob \/ FailJob
    \/ \E r \in Ack :
          \/ AckStart(r) \/ AckStep(r)
          \/ DatabaseFails(r) \/ MoveFails(r) \/ MkdirFails(r)
    \/ \E g \in Get :
          \/ \E endpoint \in Endpoint : GetStart(g, endpoint)
          \/ GetCheck(g)
          \/ GetOpen(g)
    \/ \E place \in Place : Remove(place)
    \/ Drag
    \/ Crash

Spec == Init /\ [][Next]_vars

-----------------------------------------------------------------------------
(* Properties                                                              *)

\* Every variable has its type, and the branches for a DONE job without a
\* transcript_path are never taken: a handler past the row has a path.
TypeOK ==
    /\ status \in {"open", "done", "failed"}
    /\ path \in Place \cup {"none"}
    /\ ackedAt \in Nat
    /\ files \subseteq Place /\ parts \subseteq files
    /\ ack \in [Ack -> AckRecord]
    /\ get \in [Get -> GetRecord]
    /\ \A r \in Ack : ack[r].pc \notin {"idle", "marking", "reading"} =>
          ack[r].path # "none"
    /\ \A g \in Get : get[g].pc # "idle" => get[g].path # "none"
    /\ faults \in 0..MaxFaults
    /\ interventions \in 0..MaxInterventions
    /\ staleWrites \in 0..MaxStaleWrites

\* acked_at is the time of the first acknowledgement for ever: no retry, no
\* concurrent acknowledgement and no stale worker changes it.
AckedAtIsKept == [][ackedAt # 0 => ackedAt' = ackedAt]_vars

\* Of concurrent and repeated acknowledgements at most one is told that it was
\* the first (already_acked = false).
OneFirstAck ==
    \A r, s \in Ack : ack[r].newly /\ ack[s].newly => r = s

\* Nothing is in trash/, where lts-trash-cleanup deletes it, before the client
\* has acknowledged it.
TrashIsAcked == "trash" \in files => ackedAt # 0

\* An acknowledgement that answered transcript_moved = true has left the row
\* at the file's new place, whatever other acknowledgements, failures and
\* stale workers do before and after.
MovedMeansRowFollows == \A r \in Ack : ack[r].moved => path = "trash"

\* The path of the row never goes back to results/: no late mark_done and no
\* acknowledgement that read the row earlier undoes a move.
PathNeverGoesBack == [][path = "trash" => path' = "trash"]_vars

\* An acknowledgement that nothing disturbed answers that the file is in
\* trash/, concurrent ones included: one retry heals what an earlier failure
\* left half done.
UndisturbedAckConverges ==
    \A r \in Ack : ack[r].calm /\ ack[r].code = 200 => ack[r].moved

\* No step of the service loses the transcript of a DONE job: between results/
\* and trash/ it is always somewhere, until somebody else removes it.
TranscriptIsKept == status = "done" /\ interventions = 0 => files # {}

\* Without failures and interventions the row points to the file, but for the
\* time between an acknowledgement's move and its update of the path.
RowFindsFile ==
    status = "done" /\ faults = 0 /\ interventions = 0
    => path \in files \/ \E r \in Ack : ack[r].pc = "updating"

\* Once a client was told that the transcript has moved, every GET that
\* starts later serves it until somebody else removes it, whatever other
\* acknowledgements, stale runs and failures do meanwhile; and unless a write
\* was cut short it serves all of it: no read is torn by a late write any more.
ConfirmedIsServed ==
    interventions = 0 =>
        \A g \in Get : get[g].confirmed /\ get[g].code # 0 =>
            /\ get[g].served # "none"
            /\ faults = 0 => get[g].served = "whole"
-----------------------------------------------------------------------------
(* What a client is promised: TranscriptLifecycle, with the handlers       *)
(* hidden.  An acknowledgement takes effect with mark_acked's UPDATE.      *)

Verdict(r) ==
    IF ack[r].pc = "marking" THEN "asked"
    ELSE IF ack[r].pc = "idle" /\ ack[r].code # 200 THEN "none"
    ELSE IF ack[r].newly THEN "first" ELSE "again"

Lifecycle == INSTANCE TranscriptLifecycle
    WITH Client  <- Ack,
         row     <- path,
         acked   <- ackedAt # 0,
         copies  <- files,
         verdict <- [r \in Ack |-> Verdict(r)],
         moved   <- [r \in Ack |-> ack[r].moved]

\* However requests interleave, fail and are retried, acknowledging is atomic:
\* ever is one client the first, nothing moves before it, and who is told
\* that the transcript moved was told when file and row were in trash/.
ImplementsLifecycle == Lifecycle!Spec
=============================================================================
