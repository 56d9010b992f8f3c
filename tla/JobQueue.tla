------------------------------ MODULE JobQueue ------------------------------
(***************************************************************************)
(* The job queue: the `jobs` table of queue/store.py, the claim loops and  *)
(* the reclaim loop of worker.py, and the error counter of metrics.py.     *)
(*                                                                         *)
(* One process runs Worker claim loops, one reclaim loop and the HTTP      *)
(* handlers in one event loop.  Every JobStore method opens a connection   *)
(* of its own and is one committed statement, so a step of this model is   *)
(* the code between two awaits: one statement, and the Python that runs    *)
(* before the next one.  Anything may happen between two steps: another    *)
(* worker, the reclaim loop, the expiry of a lease, the end of the         *)
(* process.                                                                *)
(*                                                                         *)
(* Time is left out; what the code compares with `now` becomes an event:   *)
(* LeaseExpires (lease_expires_at < now) and RetryDue (next_retry_at <=    *)
(* now).  The backoff is one constant, so retry times are in the order in  *)
(* which they were computed and a counter stands for them.                 *)
(***************************************************************************)
EXTENDS Naturals, FiniteSets

\* A definition whose name extends that of the one after it (FreshTokenReused,
\* FreshToken) is a variant with a plausible bug: the properties below are
\* also checked to fail for the variants.

CONSTANTS
    Job,              \* job ids a client may submit
    Worker,           \* claim loops of one process (Settings.worker_count)
    NoJob,            \* the job of a worker that has none
    MaxAttempts,      \* Settings.max_attempts
    PipelineError,    \* the JobErrors that typed PipelineErrors carry
    ErrorRateCounter, \* was a counter passed to the Worker?
    MaxClaims,        \* bound: no held lease expires at this attempt or later
    MaxFaults         \* bound: crashes and failed database calls

NoError          == [code |-> "NONE", retryable |-> FALSE]
MaxAttemptsError == [code |-> "MAX_ATTEMPTS", retryable |-> FALSE]
TransientError   == [code |-> "PIPELINE_TRANSIENT", retryable |-> TRUE]

ASSUME JobAssumption == NoJob \notin Job /\ IsFiniteSet(Job)
ASSUME BoundAssumption ==
    /\ MaxAttempts \in Nat /\ MaxClaims \in Nat /\ MaxFaults \in Nat
ASSUME CounterAssumption == ErrorRateCounter \in BOOLEAN
ASSUME PipelineErrorAssumption ==
    /\ PipelineError \subseteq [code : STRING, retryable : BOOLEAN]
    /\ \A e \in PipelineError : e.code \notin {"NONE", "MAX_ATTEMPTS"}

JobError  == PipelineError \cup {TransientError, MaxAttemptsError}
ErrorCode == {e.code : e \in JobError}

VARIABLES
    rows,        \* the jobs table, one row per job id
    file,        \* what results/{job_id}.md holds, see Broken
    pc,          \* where each claim loop stands in process_one
    ctx,         \* the local variables of that process_one
    retryClock,  \* retry times computed so far
    retryDue,    \* retry times up to this one have arrived
    errorCounts, \* ErrorRateCounter: increments since the last tick
    up,          \* is the process running?
    faults       \* crashes and failed database calls so far

storeVars == <<rows, file>>
clockVars == <<retryClock, retryDue>>
procVars  == <<up, faults>>
vars == <<rows, file, pc, ctx, retryClock, retryDue, errorCounts, up, faults>>

-----------------------------------------------------------------------------
(* The jobs table                                                          *)

Leased   == {"claimed", "processing"}
Terminal == {"done", "failed"}
Status   == {"absent", "queued"} \cup Leased \cup Terminal

NoToken == 0        \* lease_token IS NULL
NoRetry == 0        \* next_retry_at IS NULL

Row == [status : Status, attempt : Nat, leaseToken : Nat,
        leaseExpired : BOOLEAN,  \* lease_expires_at < now
        nextRetryAt : Nat, createdAt : Nat,
        error : JobError \cup {NoError}]

NoRow == [status |-> "absent", attempt |-> 0, leaseToken |-> NoToken,
          leaseExpired |-> FALSE, nextRetryAt |-> NoRetry, createdAt |-> 0,
          error |-> NoError]

Submitted == {j \in Job : rows[j].status # "absent"}

\* A random token never repeats: the attempt a claim starts identifies it.
FreshTokenReused(j) == 1
FreshToken(j) == rows[j].attempt + 1

\* The row that claim() leaves behind.
LeasedRow(j) ==
    [rows[j] EXCEPT !.status = "claimed", !.leaseToken = FreshToken(j),
                    !.leaseExpired = FALSE, !.attempt = @ + 1]

\* The row that ends a lease with the given status.
ReleasedRowKeepingLease(j, s) == [rows[j] EXCEPT !.status = s]
ReleasedRow(j, s) ==
    [rows[j] EXCEPT !.status = s, !.leaseToken = NoToken,
                    !.leaseExpired = FALSE]

\* The WHERE clause of claim(), and its ORDER BY: a NULL next_retry_at sorts
\* first, then next_retry_at, then created_at.
Eligible(j) ==
    rows[j].status = "queued" /\ rows[j].nextRetryAt <= retryDue

Before(j, k) ==
    \/ rows[j].nextRetryAt < rows[k].nextRetryAt
    \/ /\ rows[j].nextRetryAt = rows[k].nextRetryAt
       /\ rows[j].createdAt < rows[k].createdAt

IsNext(j) ==
    /\ Eligible(j)
    /\ \A k \in Job \ {j} : Eligible(k) => Before(j, k)

\* The WHERE clause of reclaim_expired().
ExpiredClaimed(j) == rows[j].status = "claimed" /\ rows[j].leaseExpired
Expired(j) == rows[j].status \in Leased /\ rows[j].leaseExpired

-----------------------------------------------------------------------------
(* The claim loops                                                         *)

\* A worker's place in process_one:
\*   idle       between two iterations
\*   claimed    claim()'s UPDATE is committed, its get() is not
\*   exceeded   about to mark_failed with MAX_ATTEMPTS
\*   starting   about to mark_processing
\*   running    in pipeline.transcribe, or about to write the transcript
\*   saved      about to mark_done
\*   deferring  about to defer_retry
\*   failing    about to mark_failed with the pipeline's error
InFlight == {"running", "saved", "deferring", "failing"}
Holding  == {"exceeded", "starting"} \cup InFlight
Label    == {"idle", "claimed"} \cup Holding

Context == [job : Job \cup {NoJob}, token : Nat, attempt : Nat,
            error : JobError \cup {NoError}, retryAt : Nat]
NoContext == [job |-> NoJob, token |-> NoToken, attempt |-> 0,
              error |-> NoError, retryAt |-> NoRetry]

\* The WHERE clause of mark_failed and of defer_retry.
OwnsLeaseUnchecked(w) == rows[ctx[w].job].status # "absent"
OwnsLease(w) ==
    /\ rows[ctx[w].job].status \in Leased
    /\ rows[ctx[w].job].leaseToken = ctx[w].token

\* The WHERE clause of mark_processing.
CanStartTwice(w) ==
    /\ rows[ctx[w].job].status \in Leased
    /\ rows[ctx[w].job].leaseToken = ctx[w].token
CanStart(w) ==
    /\ rows[ctx[w].job].status = "claimed"
    /\ rows[ctx[w].job].leaseToken = ctx[w].token

\* The WHERE clause of mark_done.
CanFinishUnleased(w) == rows[ctx[w].job].status = "processing"
CanFinish(w) ==
    /\ rows[ctx[w].job].status = "processing"
    /\ rows[ctx[w].job].leaseToken = ctx[w].token

\* The test of process_one, and that of _handle_pipeline_failure.
ExceedsAttemptsByOne(n) == n > MaxAttempts + 1
ExceedsAttempts(n) == n > MaxAttempts
CanRetryFewer(e, n) == e.retryable /\ n + 1 < MaxAttempts
CanRetry(e, n) == e.retryable /\ n < MaxAttempts

GoIdleForgetting(w) ==
    /\ ctx' = [ctx EXCEPT ![w] = NoContext]
    /\ UNCHANGED pc
GoIdle(w) ==
    /\ pc'  = [pc EXCEPT ![w] = "idle"]
    /\ ctx' = [ctx EXCEPT ![w] = NoContext]

GoTo(w, label) ==
    /\ pc' = [pc EXCEPT ![w] = label]
    /\ UNCHANGED ctx

\* error_rate_counter.increment(code)
Count(code) ==
    errorCounts' = IF ErrorRateCounter
                   THEN [errorCounts EXCEPT ![code] = @ + 1]
                   ELSE errorCounts

-----------------------------------------------------------------------------
Init ==
    /\ rows = [j \in Job |-> NoRow]
    /\ file = [j \in Job |-> "none"]
    /\ pc  = [w \in Worker |-> "idle"]
    /\ ctx = [w \in Worker |-> NoContext]
    /\ retryClock = 0 /\ retryDue = 0
    /\ errorCounts = [c \in ErrorCode |-> 0]
    /\ up = TRUE /\ faults = 0

\* JobStore.submit
Submit(j) ==
    /\ up /\ rows[j].status = "absent"
    /\ rows' = [rows EXCEPT ![j].status = "queued",
                            ![j].createdAt = Cardinality(Submitted) + 1]
    /\ UNCHANGED <<file, pc, ctx, clockVars, errorCounts, procVars>>

\* JobStore.claim, its UPDATE ... RETURNING job_id
Claim(w) ==
    /\ up /\ pc[w] = "idle"
    /\ \E j \in Job :
          /\ IsNext(j)
          /\ rows' = [rows EXCEPT ![j] = LeasedRow(j)]
          /\ ctx' = [ctx EXCEPT ![w].job = j]
    /\ pc' = [pc EXCEPT ![w] = "claimed"]
    /\ UNCHANGED <<file, clockVars, errorCounts, procVars>>

\* claim() finds no eligible row: the loop sleeps and polls again.
PollIdle(w) ==
    /\ up /\ pc[w] = "idle"
    /\ \A j \in Job : ~Eligible(j)
    /\ UNCHANGED vars

\* claim()'s second connection reads the row as it is by then.  With no lease
\* on it the assert in process_one ends the iteration.
LoadJob(w) ==
    /\ up /\ pc[w] = "claimed"
    /\ LET row == rows[ctx[w].job]
           loaded == [ctx[w] EXCEPT !.token = row.leaseToken,
                                    !.attempt = row.attempt]
       IN \/ /\ row.leaseToken = NoToken
             /\ GoIdle(w)
          \/ /\ row.leaseToken # NoToken /\ ~ExceedsAttempts(row.attempt)
             /\ pc'  = [pc EXCEPT ![w] = "starting"]
             /\ ctx' = [ctx EXCEPT ![w] = loaded]
          \/ /\ row.leaseToken # NoToken /\ ExceedsAttempts(row.attempt)
             /\ pc'  = [pc EXCEPT ![w] = "exceeded"]
             /\ ctx' = [ctx EXCEPT
                          ![w] = [loaded EXCEPT !.error = MaxAttemptsError]]
    /\ UNCHANGED <<storeVars, clockVars, errorCounts, procVars>>

\* JobStore.mark_processing; a lost claim ends the iteration.
MarkProcessing(w) ==
    /\ up /\ pc[w] = "starting"
    /\ \/ /\ CanStart(w)
          /\ rows' = [rows EXCEPT ![ctx[w].job].status = "processing"]
          /\ GoTo(w, "running")
       \/ /\ ~CanStart(w)
          /\ GoIdle(w)
          /\ UNCHANGED rows
    /\ UNCHANGED <<file, clockVars, errorCounts, procVars>>

\* The pipeline returns and the transcript is written.
PipelineSucceeds(w) ==
    /\ up /\ pc[w] = "running"
    /\ file' = [file EXCEPT ![ctx[w].job] = "whole"]
    /\ GoTo(w, "saved")
    /\ UNCHANGED <<rows, clockVars, errorCounts, procVars>>

\* What a write that is cut short leaves: opening the file for writing
\* truncates it.  Whether the run still had its lease tells the two apart.
Broken(w) == IF OwnsLease(w) THEN "partial" ELSE "clobbered"

\* write_text raises OSError, which no handler of process_one catches: the
\* claim loop logs it and the row keeps its lease.
WriteFailsSwallowed(w) ==
    /\ up /\ pc[w] = "running"
    /\ GoTo(w, "saved")
    /\ UNCHANGED <<storeVars, clockVars, errorCounts, procVars>>
WriteFails(w) ==
    /\ up /\ pc[w] = "running"
    /\ \/ file' = [file EXCEPT ![ctx[w].job] = Broken(w)]
       \/ UNCHANGED file
    /\ GoIdle(w)
    /\ UNCHANGED <<rows, clockVars, errorCounts, procVars>>

\* The pipeline raises: _error_from_exception, then the decision of
\* _handle_pipeline_failure.  The retry time is computed here, before the
\* call that stores it.
PipelineRaises(w, e) ==
    /\ up /\ pc[w] = "running"
    /\ \/ /\ CanRetry(e, ctx[w].attempt)
          /\ retryClock' = retryClock + 1
          /\ pc' = [pc EXCEPT ![w] = "deferring"]
          /\ ctx' = [ctx EXCEPT ![w].error = e, ![w].retryAt = retryClock + 1]
       \/ /\ ~CanRetry(e, ctx[w].attempt)
          /\ pc' = [pc EXCEPT ![w] = "failing"]
          /\ ctx' = [ctx EXCEPT ![w].error = e]
          /\ UNCHANGED retryClock
    /\ UNCHANGED <<storeVars, retryDue, errorCounts, procVars>>

\* JobStore.mark_done
MarkDone(w) ==
    /\ up /\ pc[w] = "saved"
    /\ rows' = IF CanFinish(w)
               THEN [rows EXCEPT ![ctx[w].job] =
                                    ReleasedRow(ctx[w].job, "done")]
               ELSE rows
    /\ GoIdle(w)
    /\ UNCHANGED <<file, clockVars, errorCounts, procVars>>

\* JobStore.defer_retry; when it is rejected the worker goes on to
\* mark_failed.
DeferRetry(w) ==
    /\ up /\ pc[w] = "deferring"
    /\ \/ /\ OwnsLease(w)
          /\ rows' = [rows EXCEPT ![ctx[w].job] =
                        [ReleasedRow(ctx[w].job, "queued")
                            EXCEPT !.nextRetryAt = ctx[w].retryAt]]
          /\ GoIdle(w)
       \/ /\ ~OwnsLease(w)
          /\ GoTo(w, "failing")
          /\ UNCHANGED rows
    /\ UNCHANGED <<file, clockVars, errorCounts, procVars>>

\* JobStore.mark_failed.  The counter is incremented whatever it returned.
MarkFailed(w) ==
    /\ up /\ pc[w] \in {"exceeded", "failing"}
    /\ rows' = IF OwnsLease(w)
               THEN [rows EXCEPT ![ctx[w].job] =
                        [ReleasedRow(ctx[w].job, "failed")
                            EXCEPT !.error = ctx[w].error]]
               ELSE rows
    /\ Count(ctx[w].error.code)
    /\ GoIdle(w)
    /\ UNCHANGED <<file, clockVars, procVars>>

\* A database call raises (busy past its timeout, disk full): the claim loop
\* logs the exception and starts a new iteration; the row is as it was.
DatabaseFails(w) ==
    /\ up /\ pc[w] \notin {"idle", "running"}
    /\ faults < MaxFaults
    /\ faults' = faults + 1
    /\ GoIdle(w)
    /\ UNCHANGED <<storeVars, clockVars, errorCounts, up>>

-----------------------------------------------------------------------------
(* The other loops, time, and the process                                  *)

\* JobStore.reclaim_expired, one pass of the reclaim loop
ReclaimRefunding ==
    /\ up
    /\ \E j \in Job : Expired(j)
    /\ rows' = [j \in Job |->
                  IF Expired(j)
                  THEN [ReleasedRow(j, "queued") EXCEPT !.attempt = @ - 1]
                  ELSE rows[j]]
    /\ UNCHANGED <<file, pc, ctx, clockVars, errorCounts, procVars>>
Reclaim ==
    /\ up
    /\ \E j \in Job : Expired(j)
    /\ rows' = [j \in Job |-> IF Expired(j) THEN ReleasedRow(j, "queued")
                                            ELSE rows[j]]
    /\ UNCHANGED <<file, pc, ctx, clockVars, errorCounts, procVars>>

\* The 60-second tick: log the counts and reset them.
ErrorRateTick ==
    /\ up /\ ErrorRateCounter
    /\ \E c \in ErrorCode : errorCounts[c] > 0
    /\ errorCounts' = [c \in ErrorCode |-> 0]
    /\ UNCHANGED <<storeVars, pc, ctx, clockVars, procVars>>

Held(j) == \E w \in Worker : pc[w] # "idle" /\ ctx[w].job = j

\* lease_expires_at passes, whether or not a worker still runs the job: no
\* worker renews its lease.
LeaseExpires(j) ==
    /\ rows[j].status \in Leased /\ ~rows[j].leaseExpired
    /\ rows[j].attempt < MaxClaims \/ ~Held(j)
    /\ rows' = [rows EXCEPT ![j].leaseExpired = TRUE]
    /\ UNCHANGED <<file, pc, ctx, clockVars, errorCounts, procVars>>

\* The next retry time arrives.
RetryDue ==
    /\ retryDue < retryClock
    /\ retryDue' = retryDue + 1
    /\ UNCHANGED <<storeVars, pc, ctx, retryClock, errorCounts, procVars>>

\* The process ends: killed, or stopped, which cancels every task.  A
\* transcript that was being written is left incomplete.
Crash ==
    /\ up /\ faults < MaxFaults
    /\ up' = FALSE /\ faults' = faults + 1
    /\ \/ UNCHANGED file
       \/ \E w \in Worker : /\ pc[w] = "running"
                            /\ file' = [file EXCEPT ![ctx[w].job] = Broken(w)]
    /\ pc'  = [w \in Worker |-> "idle"]
    /\ ctx' = [w \in Worker |-> NoContext]
    /\ errorCounts' = [c \in ErrorCode |-> 0]
    /\ UNCHANGED <<rows, clockVars>>

\* launchd starts it again: nothing is recovered but what the table holds.
Restart ==
    /\ ~up
    /\ up' = TRUE
    /\ UNCHANGED <<storeVars, pc, ctx, clockVars, errorCounts, faults>>

-----------------------------------------------------------------------------
PipelineEnds(w) ==
    \/ PipelineSucceeds(w)
    \/ WriteFails(w)
    \/ \E e \in PipelineError \cup {TransientError} : PipelineRaises(w, e)

WorkerStep(w) ==
    \/ Claim(w)
    \/ LoadJob(w)
    \/ MarkProcessing(w)
    \/ PipelineEnds(w)
    \/ MarkDone(w)
    \/ DeferRetry(w)
    \/ MarkFailed(w)

Next ==
    \/ \E j \in Job : Submit(j) \/ LeaseExpires(j)
    \/ \E w \in Worker : WorkerStep(w) \/ PollIdle(w) \/ DatabaseFails(w)
    \/ Reclaim
    \/ ErrorRateTick
    \/ RetryDue
    \/ Crash
    \/ Restart

Spec == Init /\ [][Next]_vars

\* Every worker step is short or bounded by the stages' timeouts, the reclaim
\* loop runs every 30 seconds, time passes, and launchd restarts the process.
\* Nothing is assumed of clients, crashes and failing calls.
Fairness ==
    /\ \A w \in Worker : WF_vars(WorkerStep(w))
    /\ \A j \in Job : WF_vars(LeaseExpires(j))
    /\ WF_vars(Reclaim)
    /\ WF_vars(RetryDue)
    /\ WF_vars(Restart)

FairSpec == Spec /\ Fairness

-----------------------------------------------------------------------------
(* Properties                                                              *)

\* Every variable has its type.
TypeOK ==
    /\ rows \in [Job -> Row]
    /\ file \in [Job -> {"none", "partial", "clobbered", "whole"}]
    /\ pc \in [Worker -> Label]
    /\ ctx \in [Worker -> Context]
    /\ \A w \in Worker : pc[w] # "idle" => ctx[w].job \in Job
    /\ retryClock \in Nat /\ retryDue \in Nat
    /\ errorCounts \in [ErrorCode -> Nat]
    /\ up \in BOOLEAN /\ faults \in Nat

\* A row carries a token exactly while it is leased, and it is the token of
\* its latest claim: every UPDATE that leaves CLAIMED or PROCESSING, in
\* whichever order they happen, clears the lease, and none that enters them
\* keeps an old one.
LeaseMatchesStatus ==
    \A j \in Job :
        /\ rows[j].leaseToken =
              IF rows[j].status \in Leased THEN rows[j].attempt ELSE NoToken
        /\ rows[j].leaseExpired => rows[j].status \in Leased

\* A lease starts at most one run of the pipeline.  Two workers may hold the
\* same token (claim() reads it back after its UPDATE), and two may run the
\* same job (a lease expires under a slow run), but never two runs on one
\* lease.
RunsHaveDistinctLeases ==
    \A v, w \in Worker :
        /\ v # w
        /\ pc[v] \in InFlight /\ pc[w] \in InFlight
        /\ ctx[v].job = ctx[w].job
        => ctx[v].token # ctx[w].token

\* No run of the pipeline starts after max_attempts of them, whatever
\* crashes, false reclaims and retries did to the row: a job costs a bounded
\* number of gateway calls.
WithinBudget ==
    /\ \A w \in Worker : pc[w] \in InFlight =>
          ctx[w].attempt <= MaxAttempts /\ ctx[w].token = ctx[w].attempt
    /\ \A j \in Job :
          rows[j].status = "processing" => rows[j].attempt <= MaxAttempts

\* A DONE job has a transcript that the run which finished it wrote whole, or
\* that a run without a lease has written since: what a failed write or a
\* crash under the lease left of it is never taken for the transcript, and
\* only a run that lost its lease can still damage it.
OnlyStaleRunsDamage ==
    \A j \in Job : rows[j].status = "done" => file[j] \in {"whole", "clobbered"}

\* A job fails only for a cause of HLD-001 section 10: an error that is not
\* retryable, a retryable one on the last attempt, or a claim past it.
FailedForACause ==
    \A j \in Job : rows[j].status = "failed" =>
        /\ rows[j].error # NoError
        /\ rows[j].error.retryable => rows[j].attempt = MaxAttempts
        /\ rows[j].error = MaxAttemptsError => rows[j].attempt > MaxAttempts

\* Once a worker has lost its lease it cannot change the row any more: no
\* later claim, by itself or by another worker, gives the token back.  So the
\* mark_failed to which a rejected defer_retry falls through is rejected too.
LostLeaseStaysLost ==
    [][\A w \in Worker :
          /\ pc[w] \in Holding /\ ~OwnsLease(w)
          /\ pc'[w] \in Holding
          => ~OwnsLease(w)']_vars

\* DONE and FAILED are final: no late call of a stale worker, no reclaim and
\* no retry changes the row of a finished job.
TerminalIsFinal ==
    [][\A j \in Job : rows[j].status \in Terminal => rows'[j] = rows[j]]_vars

\* How far a row has come within its attempt: FAILED and DONE come last, and
\* a row that is queued waits for the claim that opens the next attempt.
Stage(row) ==
    CASE row.status = "absent"     -> 0
      [] row.status = "claimed"    -> IF row.leaseExpired THEN 2 ELSE 1
      [] row.status = "processing" -> IF row.leaseExpired THEN 4 ELSE 3
      [] row.status = "queued"     -> 5
      [] row.status \in Terminal   -> 6

Precedes(old, new) ==
    \/ old.attempt < new.attempt
    \/ old.attempt = new.attempt /\ Stage(old) < Stage(new)

\* A row never returns to a state it was in: the order of submit, the claims,
\* starts, expiries, reclaims, retries and ends of a job takes it forward
\* through its attempts, and through the stages of each.  So a WHERE clause
\* that has read a status and a token cannot take a later state for the one
\* it knew, a lease starts one run in its whole life, and with WithinBudget a
\* job starts at most max_attempts runs.
RowsOnlyAdvance ==
    [][\A j \in Job : rows'[j] # rows[j] => Precedes(rows[j], rows'[j])]_vars

\* Every job that is submitted reaches DONE or FAILED, whatever a finite
\* number of crashes and failed database calls does.
EveryJobSettles ==
    \A j \in Job : rows[j].status = "queued" ~> rows[j].status \in Terminal
-----------------------------------------------------------------------------
(* What the queue promises: JobLifecycle, with the workers hidden.         *)

Phase(j) == CASE rows[j].status = "claimed"    -> "leased"
              [] rows[j].status = "processing" -> "running"
              [] OTHER                         -> rows[j].status

Flights(j) ==
    {ctx[w].token : w \in {v \in Worker : pc[v] \in InFlight /\ ctx[v].job = j}}

Lifecycle == INSTANCE JobLifecycle
    WITH phase    <- [j \in Job |-> Phase(j)],
         attempts <- [j \in Job |-> rows[j].attempt],
         flights  <- [j \in Job |-> Flights(j)]

\* Workers, tokens, stale reports, reclaims and crashes implement the life of
\* a job: only the run of the current lease is heard, every lease starts at
\* most one run, and a retry needs an attempt left.
ImplementsLifecycle == Lifecycle!Spec

-----------------------------------------------------------------------------
(* What Transcripts takes from the queue of a job: its runs write the      *)
(* text, also late, and one mark_done or mark_failed ends it.              *)

Outcome(j) == IF rows[j].status \in Terminal THEN rows[j].status ELSE "open"

Transcript(j) == INSTANCE TranscriptLifecycle
    WITH Client  <- {},
         status  <- Outcome(j),
         row     <- IF Outcome(j) = "done" THEN "results" ELSE "none",
         acked   <- FALSE,
         copies  <- IF file[j] = "none" THEN {} ELSE {"results"},
         verdict <- [c \in {} |-> "none"],
         moved   <- [c \in {} |-> FALSE]
=============================================================================
