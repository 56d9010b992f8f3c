--------------------------- MODULE JobQueueProofs ---------------------------
(***************************************************************************)
(* Proofs about JobQueue, for any number of jobs, workers, attempts,       *)
(* crashes and lost leases.                                                *)
(***************************************************************************)
EXTENDS JobQueue, FiniteSetTheorems, WellFoundedInduction, TLAPS

(* The definitions an action is built from. *)
USE DEF NoToken, NoRetry, Leased, Terminal

LEMMA ErrorCodes ==
    /\ MaxAttemptsError \in JobError
    /\ TransientError \in JobError
    /\ \A e \in JobError : e.code \in ErrorCode
    /\ NoError \notin JobError
  <1>1. MaxAttemptsError \in JobError /\ TransientError \in JobError
    BY DEF JobError
  <1>2. \A e \in JobError : e.code \in ErrorCode
    BY DEF ErrorCode
  <1>3. \A e \in JobError : e.code # "NONE"
    BY PipelineErrorAssumption DEF JobError, MaxAttemptsError, TransientError
  <1>4. NoError.code = "NONE"
    BY DEF NoError
  <1> QED BY <1>1, <1>2, <1>3, <1>4

-----------------------------------------------------------------------------
(* Type correctness                                                        *)

LEMMA RowUpdates ==
    ASSUME TypeOK, NEW j \in Job
    PROVE  /\ rows[j] \in Row
           /\ LeasedRow(j) \in Row
           /\ \A s \in Status : ReleasedRow(j, s) \in Row
  <1>1. rows[j] \in Row
    BY DEF TypeOK
  <1>2. FreshToken(j) \in Nat /\ rows[j].attempt + 1 \in Nat
    BY <1>1 DEF FreshToken, Row
  <1>3. LeasedRow(j) \in Row
    BY <1>1, <1>2 DEF LeasedRow, Row, Status
  <1>4. ASSUME NEW s \in Status PROVE ReleasedRow(j, s) \in Row
    BY <1>1 DEF ReleasedRow, Row
  <1> QED BY <1>1, <1>3, <1>4

LEMMA CountType ==
    ASSUME TypeOK, NEW code, Count(code)
    PROVE  errorCounts' \in [ErrorCode -> Nat]
  <1>1. errorCounts \in [ErrorCode -> Nat]
    BY DEF TypeOK
  <1>2. CASE code \in ErrorCode
    BY <1>1, <1>2 DEF Count
  <1>3. CASE code \notin ErrorCode
    BY <1>1, <1>3 DEF Count
  <1> QED BY <1>2, <1>3

LEMMA InitType == Init => TypeOK
  BY ErrorCodes DEF Init, TypeOK, NoRow, Row, Status, NoContext, Context, Label

LEMMA NextType == TypeOK /\ [Next]_vars => TypeOK'
  <1> SUFFICES ASSUME TypeOK, [Next]_vars PROVE TypeOK'
    OBVIOUS
  <1> USE DEF TypeOK
  <1>1. ASSUME NEW j \in Job, Submit(j) PROVE TypeOK'
    <2>1. IsFiniteSet(Submitted)
      BY JobAssumption, FS_Subset DEF Submitted
    <2>2. Cardinality(Submitted) + 1 \in Nat
      BY <2>1, FS_CardinalityType
    <2>3. [rows[j] EXCEPT !.status = "queued",
                          !.createdAt = Cardinality(Submitted) + 1] \in Row
      <3>1. rows[j] \in Row /\ "queued" \in Status
        BY DEF Status
      <3>2. ASSUME NEW row \in Row, NEW st \in Status, NEW n \in Nat
            PROVE  [row EXCEPT !.status = st, !.createdAt = n] \in Row
        BY DEF Row
      <3> QED BY <2>2, <3>1, <3>2
    <2>4. rows' \in [Job -> Row]
      BY <1>1, <2>3 DEF Submit
    <2>5. UNCHANGED <<file, pc, ctx, retryClock, retryDue, errorCounts, up,
                      faults>>
      BY <1>1 DEF Submit, clockVars, procVars
    <2> QED BY <2>4, <2>5
  <1>2. ASSUME NEW j \in Job, LeaseExpires(j) PROVE TypeOK'
    <2>1. rows[j] \in Row /\ [rows[j] EXCEPT !.leaseExpired = TRUE] \in Row
      <3>1. ASSUME NEW row \in Row
            PROVE  [row EXCEPT !.leaseExpired = TRUE] \in Row
        BY DEF Row
      <3>2. rows[j] \in Row
        OBVIOUS
      <3> QED BY <3>1, <3>2
    <2>2. rows' \in [Job -> Row]
      BY <1>2, <2>1 DEF LeaseExpires
    <2> QED BY <1>2, <2>2 DEF LeaseExpires, clockVars, procVars
  <1>3. ASSUME NEW w \in Worker, Claim(w) PROVE TypeOK'
    <2>1. PICK j \in Job : /\ rows' = [rows EXCEPT ![j] = LeasedRow(j)]
                           /\ ctx' = [ctx EXCEPT ![w].job = j]
      BY <1>3 DEF Claim
    <2>2. [ctx[w] EXCEPT !.job = j] \in Context
      BY DEF Context
    <2> QED BY <1>3, <2>1, <2>2, RowUpdates
            DEF Claim, Label, clockVars, procVars
  <1>4. ASSUME NEW w \in Worker, LoadJob(w) PROVE TypeOK'
    <2> DEFINE loaded == [ctx[w] EXCEPT !.token = rows[ctx[w].job].leaseToken,
                                        !.attempt = rows[ctx[w].job].attempt]
    <2>1. ctx[w].job \in Job
      BY <1>4 DEF LoadJob
    <2>2. loaded \in Context /\ loaded.job = ctx[w].job
      <3>1. ASSUME NEW c \in Context, NEW token \in Nat, NEW attempt \in Nat
            PROVE  /\ [c EXCEPT !.token = token, !.attempt = attempt] \in Context
                   /\ [c EXCEPT !.token = token, !.attempt = attempt].job = c.job
        BY DEF Context
      <3>2. rows[ctx[w].job] \in Row
        BY <2>1
      <3>3. rows[ctx[w].job].leaseToken \in Nat /\ rows[ctx[w].job].attempt \in Nat
        BY <3>2 DEF Row
      <3>4. ctx[w] \in Context
        OBVIOUS
      <3> HIDE DEF TypeOK
      <3> QED BY <3>1, <3>3, <3>4
    <2>3. /\ [loaded EXCEPT !.error = MaxAttemptsError] \in Context
          /\ [loaded EXCEPT !.error = MaxAttemptsError].job = ctx[w].job
      BY <2>2, ErrorCodes DEF Context
    <2>4. NoContext \in Context
      BY DEF NoContext, Context
    <2>5. UNCHANGED <<rows, file, retryClock, retryDue, errorCounts, up,
                      faults>>
      BY <1>4 DEF LoadJob, storeVars, clockVars, procVars
    <2>6. PICK label \in {"idle", "starting", "exceeded"}, c \in Context :
             /\ pc' = [pc EXCEPT ![w] = label] /\ ctx' = [ctx EXCEPT ![w] = c]
             /\ label # "idle" => c.job \in Job
      <3> HIDE DEF TypeOK, loaded
      <3>1. \/ GoIdle(w)
            \/ /\ pc' = [pc EXCEPT ![w] = "starting"]
               /\ ctx' = [ctx EXCEPT ![w] = loaded]
            \/ /\ pc' = [pc EXCEPT ![w] = "exceeded"]
               /\ ctx' = [ctx EXCEPT
                            ![w] = [loaded EXCEPT !.error = MaxAttemptsError]]
        BY <1>4 DEF LoadJob, loaded
      <3>2. CASE GoIdle(w)
        BY <2>4, <3>2 DEF GoIdle
      <3> QED BY <2>1, <2>2, <2>3, <3>1, <3>2
    <2>7. pc' \in [Worker -> Label] /\ ctx' \in [Worker -> Context]
      BY <2>6 DEF Label, Holding
    <2>8. \A v \in Worker : pc'[v] # "idle" => ctx'[v].job \in Job
      BY <2>6
    <2> QED BY <2>5, <2>7, <2>8
  <1>5. ASSUME NEW w \in Worker, MarkProcessing(w) PROVE TypeOK'
    <2>1. NoContext \in Context
      BY DEF NoContext, Context
    <2>2. ctx[w].job \in Job
      BY <1>5 DEF MarkProcessing
    <2>3. CASE CanStart(w)
      <3>1. [rows[ctx[w].job] EXCEPT !.status = "processing"] \in Row
        <4>1. rows[ctx[w].job] \in Row
          BY <2>2
        <4> HIDE DEF TypeOK
        <4> QED BY <4>1 DEF Row, Status
      <3>2. rows' = [rows EXCEPT ![ctx[w].job].status = "processing"]
            /\ pc' = [pc EXCEPT ![w] = "running"] /\ UNCHANGED ctx
        BY <1>5, <2>3 DEF MarkProcessing, GoTo
      <3>3. rows' \in [Job -> Row]
        BY <2>2, <3>1, <3>2
      <3>4. pc' \in [Worker -> Label]
        BY <3>2 DEF Label, Holding, InFlight
      <3> QED BY <1>5, <3>2, <3>3, <3>4
              DEF MarkProcessing, clockVars, procVars
    <2>4. CASE ~CanStart(w)
      BY <1>5, <2>1, <2>4 DEF MarkProcessing, GoIdle, Label, clockVars, procVars
    <2> QED BY <2>3, <2>4
  <1>6. ASSUME NEW w \in Worker, PipelineSucceeds(w) PROVE TypeOK'
    BY <1>6 DEF PipelineSucceeds, GoTo, Label, Holding, InFlight, clockVars,
                procVars
  <1>7. ASSUME NEW w \in Worker, WriteFails(w) PROVE TypeOK'
    <2>1. NoContext \in Context /\ Broken(w) \in {"partial", "clobbered"}
      BY DEF NoContext, Context, Broken
    <2> QED BY <1>7, <2>1 DEF WriteFails, GoIdle, Label, clockVars, procVars
  <1>8. ASSUME NEW w \in Worker, NEW e \in PipelineError \cup {TransientError},
               PipelineRaises(w, e)
        PROVE TypeOK'
    <2>1. e \in JobError
      BY DEF JobError
    <2>2. ctx[w] \in Context /\ ctx[w].job \in Job /\ retryClock + 1 \in Nat
      BY <1>8 DEF PipelineRaises
    <2>3. /\ [ctx[w] EXCEPT !.error = e, !.retryAt = retryClock + 1] \in Context
          /\ [ctx[w] EXCEPT !.error = e] \in Context
      BY <2>1, <2>2 DEF Context
    <2>4. CASE CanRetry(e, ctx[w].attempt)
      <3>1. /\ retryClock' = retryClock + 1
            /\ pc' = [pc EXCEPT ![w] = "deferring"]
            /\ ctx' = [ctx EXCEPT ![w].error = e, ![w].retryAt = retryClock + 1]
        BY <1>8, <2>4 DEF PipelineRaises
      <3>2. ctx' \in [Worker -> Context]
        BY <2>3, <3>1
      <3>3. pc' \in [Worker -> Label]
        BY <3>1 DEF Label, Holding, InFlight
      <3>4. \A v \in Worker : pc'[v] # "idle" => ctx'[v].job \in Job
        BY <2>2, <3>1 DEF Context
      <3> QED BY <1>8, <2>2, <3>1, <3>2, <3>3, <3>4
              DEF PipelineRaises, storeVars, procVars
    <2>5. CASE ~CanRetry(e, ctx[w].attempt)
      <3>1. /\ UNCHANGED retryClock
            /\ pc' = [pc EXCEPT ![w] = "failing"]
            /\ ctx' = [ctx EXCEPT ![w].error = e]
        BY <1>8, <2>5 DEF PipelineRaises
      <3>2. ctx' \in [Worker -> Context]
        BY <2>3, <3>1
      <3>3. pc' \in [Worker -> Label]
        BY <3>1 DEF Label, Holding, InFlight
      <3>4. \A v \in Worker : pc'[v] # "idle" => ctx'[v].job \in Job
        BY <2>2, <3>1 DEF Context
      <3> QED BY <1>8, <3>1, <3>2, <3>3, <3>4
              DEF PipelineRaises, storeVars, procVars
    <2> QED BY <2>4, <2>5
  <1>9. ASSUME NEW w \in Worker, MarkDone(w) PROVE TypeOK'
    <2>1. NoContext \in Context /\ "done" \in Status
      BY DEF NoContext, Context, Status
    <2>2. ctx[w].job \in Job
      BY <1>9 DEF MarkDone
    <2> QED BY <1>9, <2>1, <2>2, RowUpdates
            DEF MarkDone, GoIdle, Label, clockVars, procVars
  <1>10. ASSUME NEW w \in Worker, DeferRetry(w) PROVE TypeOK'
    <2>1. NoContext \in Context /\ "queued" \in Status
      BY DEF NoContext, Context, Status
    <2>2. ctx[w].job \in Job
      BY <1>10 DEF DeferRetry
    <2> DEFINE row == ReleasedRow(ctx[w].job, "queued")
    <2>3. row \in Row /\ ctx[w].retryAt \in Nat
      BY <2>1, <2>2, RowUpdates DEF Context
    <2> HIDE DEF row
    <2>4. [row EXCEPT !.nextRetryAt = ctx[w].retryAt] \in Row
      BY <2>3 DEF Row
    <2> QED BY <1>10, <2>1, <2>2, <2>4
            DEF row, DeferRetry, GoIdle, GoTo, Label, Holding, InFlight, clockVars,
                procVars
  <1>11. ASSUME NEW w \in Worker, MarkFailed(w) PROVE TypeOK'
    <2>1. NoContext \in Context /\ "failed" \in Status
      BY DEF NoContext, Context, Status
    <2>2. ctx[w].job \in Job
      BY <1>11 DEF MarkFailed
    <2> DEFINE row == ReleasedRow(ctx[w].job, "failed")
    <2>3. row \in Row /\ ctx[w].error \in JobError \cup {NoError}
      BY <2>1, <2>2, RowUpdates DEF Context
    <2> HIDE DEF row
    <2>4. [row EXCEPT !.error = ctx[w].error] \in Row
      BY <2>3 DEF Row
    <2>5. errorCounts' \in [ErrorCode -> Nat]
      BY <1>11, CountType DEF MarkFailed
    <2> QED BY <1>11, <2>1, <2>2, <2>4, <2>5
            DEF row, MarkFailed, GoIdle, Label, clockVars, procVars
  <1>12. ASSUME NEW w \in Worker, DatabaseFails(w) PROVE TypeOK'
    <2>1. NoContext \in Context
      BY DEF NoContext, Context
    <2> QED BY <1>12, <2>1
            DEF DatabaseFails, GoIdle, Label, storeVars, clockVars
  <1>13. CASE Reclaim
    <2>1. "queued" \in Status
      BY DEF Status
    <2> QED BY <1>13, <2>1, RowUpdates DEF Reclaim, clockVars, procVars
  <1>14. CASE ErrorRateTick
    BY <1>14 DEF ErrorRateTick, storeVars, clockVars, procVars
  <1>15. CASE RetryDue
    BY <1>15 DEF RetryDue, storeVars, procVars
  <1>16. CASE Crash
    <2>1. NoContext \in Context
      BY DEF NoContext, Context
    <2>2. file' \in [Job -> {"none", "partial", "clobbered", "whole"}]
      <3>1. file \in [Job -> {"none", "partial", "clobbered", "whole"}]
        OBVIOUS
      <3>2. ASSUME NEW w \in Worker, NEW s \in {"partial", "clobbered"},
                   file' = [file EXCEPT ![ctx[w].job] = s]
            PROVE  file' \in [Job -> {"none", "partial", "clobbered", "whole"}]
        BY <3>1, <3>2
      <3>3. \/ file' = file
            \/ \E w \in Worker : file' = [file EXCEPT ![ctx[w].job] = Broken(w)]
        BY <1>16 DEF Crash
      <3>4. \A w \in Worker : Broken(w) \in {"partial", "clobbered"}
        BY DEF Broken
      <3> QED BY <3>1, <3>2, <3>3, <3>4
    <2>3. pc' \in [Worker -> Label] /\ ctx' \in [Worker -> Context]
      BY <1>16, <2>1 DEF Crash, Label
    <2>4. \A w \in Worker : pc'[w] = "idle"
      BY <1>16 DEF Crash
    <2>5. errorCounts' \in [ErrorCode -> Nat]
      BY <1>16 DEF Crash
    <2>6. UNCHANGED <<rows, retryClock, retryDue>>
      BY <1>16 DEF Crash, clockVars
    <2>7. up' \in BOOLEAN
      BY <1>16, Zenon DEF Crash
    <2>8. faults' \in Nat
      BY <1>16 DEF Crash
    <2> QED BY <2>2, <2>3, <2>4, <2>5, <2>6, <2>7, <2>8
  <1>17. CASE Restart
    BY <1>17 DEF Restart, storeVars, clockVars
  <1>18. CASE UNCHANGED vars
    BY <1>18 DEF vars
  <1> QED
    BY <1>1, <1>2, <1>3, <1>4, <1>5, <1>6, <1>7, <1>8, <1>9, <1>10, <1>11,
       <1>12, <1>13, <1>14, <1>15, <1>16, <1>17, <1>18
       DEF Next, WorkerStep, PipelineEnds, PollIdle

\* Every variable of the store, the workers and the process has its type in
\* every reachable state.
THEOREM TypeCorrect == Spec => []TypeOK
  <1>1. Init => TypeOK
    BY InitType
  <1>2. TypeOK /\ [Next]_vars => TypeOK'
    BY NextType
  <1> QED BY <1>1, <1>2, PTL DEF Spec
-----------------------------------------------------------------------------
(* What a step does to the rows and to the workers                         *)

\* The rows a step may write, one disjunct per kind of UPDATE.
Submits(j) ==
    /\ rows[j].status = "absent"
    /\ rows'[j].status = "queued" /\ rows'[j].leaseToken = rows[j].leaseToken
    /\ rows'[j].leaseExpired = rows[j].leaseExpired
    /\ rows'[j].attempt = rows[j].attempt /\ rows'[j].error = rows[j].error
    /\ rows'[j].createdAt = Cardinality(Submitted) + 1
    /\ \A k \in Job \ {j} : rows'[k] = rows[k]
Leases(j) ==
    /\ rows[j].status = "queued"
    /\ rows'[j].status = "claimed" /\ rows'[j].leaseToken = rows[j].attempt + 1
    /\ rows'[j].leaseExpired = FALSE
    /\ rows'[j].attempt = rows[j].attempt + 1 /\ rows'[j].error = rows[j].error
    /\ rows'[j].createdAt = rows[j].createdAt
Starts(j) ==
    /\ rows[j].status = "claimed" /\ rows'[j].status = "processing"
    /\ rows'[j].leaseToken = rows[j].leaseToken
    /\ rows'[j].leaseExpired = rows[j].leaseExpired
    /\ rows'[j].attempt = rows[j].attempt /\ rows'[j].error = rows[j].error
    /\ rows'[j].createdAt = rows[j].createdAt
    /\ \E w \in Worker : /\ pc[w] = "starting" /\ pc'[w] = "running"
                         /\ ctx[w].job = j /\ ctx[w].token = rows[j].leaseToken
Releases(j) ==
    /\ rows[j].status \in Leased /\ rows'[j].status \in {"queued"} \cup Terminal
    /\ rows'[j].leaseToken = NoToken /\ rows'[j].leaseExpired = FALSE
    /\ rows'[j].attempt = rows[j].attempt
    /\ rows'[j].createdAt = rows[j].createdAt
    /\ rows'[j].status # "failed" => rows'[j].error = rows[j].error
    /\ rows'[j].status = "done" =>
          \E w \in Worker : /\ pc[w] = "saved" /\ ctx[w].job = j
                            /\ ctx[w].token = rows[j].leaseToken
    /\ rows'[j].status = "failed" =>
          \E w \in Worker : /\ pc[w] \in {"exceeded", "failing"}
                            /\ ctx[w].job = j
                            /\ OwnsLease(w) /\ rows'[j].error = ctx[w].error
Expires(j) ==
    /\ rows[j].status \in Leased /\ rows'[j].status = rows[j].status
    /\ rows[j].leaseExpired = FALSE /\ rows'[j].leaseExpired = TRUE
    /\ rows'[j].leaseToken = rows[j].leaseToken
    /\ rows'[j].attempt = rows[j].attempt /\ rows'[j].error = rows[j].error
    /\ rows'[j].createdAt = rows[j].createdAt

RowStep(j) ==
    \/ rows'[j] = rows[j]
    \/ Submits(j) \/ Leases(j) \/ Starts(j) \/ Releases(j) \/ Expires(j)

\* Every step writes every row in one of these ways, or not at all.
LEMMA RowSteps ==
    ASSUME TypeOK, [Next]_vars, NEW j \in Job
    PROVE  RowStep(j)
  <1> USE DEF RowStep
  <1>0. \A k \in Job : rows[k] \in Row
    BY DEF TypeOK
  <1>a. rows \in [Job -> Row]
    BY DEF TypeOK
  <1>1. ASSUME NEW k \in Job, Submit(k) PROVE RowStep(j)
    <2>1. k # j => rows'[j] = rows[j]
      BY <1>1, <1>a DEF Submit
    <2>2. k = j => Submits(j)
      BY <1>1, <1>0, <1>a DEF Submit, Row, Submits
    <2> QED BY <2>1, <2>2
  <1>2. ASSUME NEW k \in Job, LeaseExpires(k) PROVE RowStep(j)
    <2>1. k # j => rows'[j] = rows[j]
      BY <1>2, <1>a DEF LeaseExpires
    <2>2. k = j => Expires(j)
      BY <1>2, <1>0, <1>a DEF LeaseExpires, Row, Expires
    <2> QED BY <2>1, <2>2
  <1>3. ASSUME NEW w \in Worker, Claim(w) PROVE RowStep(j)
    <2>1. PICK k \in Job : IsNext(k) /\ rows' = [rows EXCEPT ![k] = LeasedRow(k)]
      BY <1>3 DEF Claim
    <2>2. k # j => rows'[j] = rows[j]
      BY <2>1, <1>a
    <2>3. k = j => Leases(j)
      BY <2>1, <1>0, <1>a
         DEF IsNext, Eligible, LeasedRow, FreshToken, Row, Leases
    <2> QED BY <2>2, <2>3
  <1>4. ASSUME NEW w \in Worker, LoadJob(w) PROVE RowStep(j)
    BY <1>4 DEF LoadJob, storeVars
  <1>5. ASSUME NEW w \in Worker, MarkProcessing(w) PROVE RowStep(j)
    <2>1. CASE CanStart(w) /\ ctx[w].job = j /\ rows' # rows
      <3>1. pc'[w] = "running"
        BY <1>5, <2>1 DEF MarkProcessing, GoTo, TypeOK
      <3>2. rows' = [rows EXCEPT ![j].status = "processing"]
        BY <1>5, <2>1 DEF MarkProcessing
      <3> QED BY <1>5, <2>1, <3>1, <3>2, <1>0, <1>a
              DEF MarkProcessing, CanStart, Row, Starts
    <2>2. CASE ctx[w].job # j \/ rows' = rows
      BY <1>5, <2>2, <1>a DEF MarkProcessing
    <2> QED BY <1>5, <2>1, <2>2 DEF MarkProcessing
  <1>6. ASSUME NEW w \in Worker, PipelineSucceeds(w) PROVE RowStep(j)
    BY <1>6 DEF PipelineSucceeds
  <1>7. ASSUME NEW w \in Worker, WriteFails(w) PROVE RowStep(j)
    BY <1>7 DEF WriteFails
  <1>8. ASSUME NEW w \in Worker, NEW e \in PipelineError \cup {TransientError},
               PipelineRaises(w, e)
        PROVE RowStep(j)
    BY <1>8 DEF PipelineRaises, storeVars
  <1>9. ASSUME NEW w \in Worker, MarkDone(w) PROVE RowStep(j)
    <2>1. CASE CanFinish(w) /\ ctx[w].job = j
      <3>1. rows'[j] = ReleasedRow(j, "done")
        BY <1>9, <2>1, <1>a DEF MarkDone
      <3> QED BY <1>9, <2>1, <3>1, <1>0
              DEF MarkDone, CanFinish, ReleasedRow, Row, Releases
    <2>2. CASE ~CanFinish(w) \/ ctx[w].job # j
      BY <1>9, <2>2, <1>a DEF MarkDone
    <2> QED BY <2>1, <2>2
  <1>10. ASSUME NEW w \in Worker, DeferRetry(w) PROVE RowStep(j)
    <2>1. CASE OwnsLease(w) /\ ctx[w].job = j
      <3>1. rows'[j] = [ReleasedRow(j, "queued")
                          EXCEPT !.nextRetryAt = ctx[w].retryAt]
        BY <1>10, <2>1, <1>a DEF DeferRetry
      <3>2. ReleasedRow(j, "queued") \in Row
        BY RowUpdates DEF Status
      <3> QED BY <1>10, <2>1, <3>1, <3>2, <1>0
              DEF OwnsLease, ReleasedRow, Row, Releases
    <2>2. CASE ~OwnsLease(w) \/ ctx[w].job # j
      BY <1>10, <2>2, <1>a DEF DeferRetry
    <2> QED BY <2>1, <2>2
  <1>11. ASSUME NEW w \in Worker, MarkFailed(w) PROVE RowStep(j)
    <2>1. CASE OwnsLease(w) /\ ctx[w].job = j
      <3>1. rows'[j] = [ReleasedRow(j, "failed") EXCEPT !.error = ctx[w].error]
        BY <1>11, <2>1, <1>a DEF MarkFailed
      <3>2. ReleasedRow(j, "failed") \in Row
        BY RowUpdates DEF Status
      <3>3. rows[j].status \in Leased /\ pc[w] \in {"exceeded", "failing"}
        BY <1>11, <2>1 DEF OwnsLease, MarkFailed
      <3> QED BY <2>1, <3>1, <3>2, <3>3, <1>0 DEF ReleasedRow, Row, Releases
    <2>2. CASE ~OwnsLease(w) \/ ctx[w].job # j
      BY <1>11, <2>2, <1>a DEF MarkFailed
    <2> QED BY <2>1, <2>2
  <1>12. ASSUME NEW w \in Worker, DatabaseFails(w) PROVE RowStep(j)
    BY <1>12 DEF DatabaseFails, storeVars
  <1>13. CASE Reclaim
    <2>1. Expired(j) => rows'[j] = ReleasedRow(j, "queued")
      BY <1>13 DEF Reclaim
    <2>2. ~Expired(j) => rows'[j] = rows[j]
      BY <1>13 DEF Reclaim
    <2> QED BY <2>1, <2>2, <1>0 DEF Expired, ReleasedRow, Row, Releases
  <1>14. CASE ErrorRateTick
    BY <1>14 DEF ErrorRateTick, storeVars
  <1>15. CASE RetryDue
    BY <1>15 DEF RetryDue, storeVars
  <1>16. CASE Crash
    BY <1>16 DEF Crash
  <1>17. CASE Restart
    BY <1>17 DEF Restart, storeVars
  <1>18. CASE UNCHANGED vars
    BY <1>18 DEF vars
  <1> QED
    BY <1>1, <1>2, <1>3, <1>4, <1>5, <1>6, <1>7, <1>8, <1>9, <1>10, <1>11,
       <1>12, <1>13, <1>14, <1>15, <1>16, <1>17, <1>18
       DEF Next, WorkerStep, PipelineEnds, PollIdle
\* The steps a worker may take while it holds a job.
Stays(w) == pc'[w] = pc[w] /\ ctx'[w] = ctx[w]
Leaves(w) == pc'[w] = "idle" /\ ctx'[w] = NoContext
Claims(w) ==
    /\ pc[w] = "idle" /\ pc'[w] = "claimed"
    /\ ctx'[w].retryAt = ctx[w].retryAt
Loads(w) ==
    /\ pc[w] = "claimed" /\ pc'[w] \in {"starting", "exceeded"}
    /\ UNCHANGED rows
    /\ ctx'[w].job = ctx[w].job
    /\ ctx'[w].token = rows[ctx[w].job].leaseToken
    /\ ctx'[w].token # NoToken
    /\ ctx'[w].attempt = rows[ctx[w].job].attempt
    /\ ctx'[w].retryAt = ctx[w].retryAt
    /\ pc'[w] = "starting" => ctx'[w].attempt <= MaxAttempts
    /\ pc'[w] = "exceeded" => /\ ctx'[w].attempt > MaxAttempts
                              /\ ctx'[w].error = MaxAttemptsError
Begins(w) ==
    /\ pc[w] = "starting" /\ pc'[w] = "running" /\ CanStart(w)
    /\ ctx'[w] = ctx[w]
    /\ rows'[ctx[w].job].status = "processing"
    /\ \A v \in Worker \ {w} : Stays(v)
Saves(w) ==
    /\ pc[w] = "running" /\ pc'[w] = "saved" /\ ctx'[w] = ctx[w]
    /\ file'[ctx[w].job] = "whole" /\ UNCHANGED rows
Decides(w) ==
    /\ pc[w] = "running" /\ pc'[w] \in {"deferring", "failing"}
    /\ UNCHANGED rows
    /\ ctx'[w].job = ctx[w].job /\ ctx'[w].token = ctx[w].token
    /\ ctx'[w].attempt = ctx[w].attempt
    /\ ctx'[w].error \in PipelineError \cup {TransientError}
    /\ pc'[w] = "failing" <=> ~CanRetry(ctx'[w].error, ctx[w].attempt)
    /\ pc'[w] = "failing" => ctx'[w].retryAt = ctx[w].retryAt
    /\ pc'[w] = "deferring" => ctx'[w].retryAt # NoRetry
IsRejected(w) ==
    /\ pc[w] = "deferring" /\ pc'[w] = "failing" /\ ctx'[w] = ctx[w]
    /\ ~OwnsLease(w) /\ UNCHANGED rows

WorkerMove(w) ==
    \/ Stays(w) \/ Leaves(w) \/ Claims(w) \/ Loads(w) \/ Begins(w)
    \/ Saves(w) \/ Decides(w) \/ IsRejected(w)

\* Every step moves every worker in one of these ways.
LEMMA WorkerMoves ==
    ASSUME TypeOK, [Next]_vars, NEW w \in Worker
    PROVE  WorkerMove(w)
  <1> USE DEF WorkerMove
  <1>0. /\ pc \in [Worker -> Label] /\ ctx \in [Worker -> Context]
        /\ \A v \in Worker : ctx[v] \in Context
    BY DEF TypeOK
  <1>1. ASSUME NEW k \in Job, Submit(k) \/ LeaseExpires(k) PROVE WorkerMove(w)
    BY <1>1 DEF Submit, LeaseExpires, Stays
  <1>3. ASSUME NEW v \in Worker, Claim(v) PROVE WorkerMove(w)
    <2>1. PICK k \in Job : ctx' = [ctx EXCEPT ![v].job = k]
      BY <1>3 DEF Claim
    <2>2. pc[v] = "idle" /\ pc' = [pc EXCEPT ![v] = "claimed"]
      BY <1>3 DEF Claim
    <2>3. CASE v = w
      <3>1. ctx'[w] = [ctx[w] EXCEPT !.job = k]
        BY <2>1, <2>3, <1>0
      <3> QED BY <2>2, <2>3, <3>1, <1>0 DEF Claims, Context
    <2>4. CASE v # w
      BY <2>1, <2>2, <2>4, <1>0 DEF Stays
    <2> QED BY <2>3, <2>4
  <1>4. ASSUME NEW v \in Worker, LoadJob(v) PROVE WorkerMove(w)
    <2>1. CASE v # w
      BY <1>4, <2>1, <1>0 DEF LoadJob, GoIdle, Stays
    <2>2. CASE v = w
      <3>1. rows' = rows /\ pc[w] = "claimed"
        BY <1>4, <2>2 DEF LoadJob, storeVars
      <3>2. ctx[w].job \in Job
        BY <3>1 DEF TypeOK
      <3>3. rows[ctx[w].job] \in Row
        BY <3>2, RowUpdates
      <3> DEFINE row == rows[ctx[w].job]
                 loaded == [ctx[w] EXCEPT !.token = row.leaseToken,
                                          !.attempt = row.attempt]
      <3>4. CASE GoIdle(w)
        BY <3>4, <1>0 DEF GoIdle, Leaves
      <3>5. CASE /\ row.leaseToken # NoToken /\ ~ExceedsAttempts(row.attempt)
                 /\ pc'  = [pc EXCEPT ![w] = "starting"]
                 /\ ctx' = [ctx EXCEPT ![w] = loaded]
        <4>1. ctx'[w] = loaded /\ pc'[w] = "starting"
          BY <3>5, <1>0
        <4>2. row.attempt <= MaxAttempts
          BY <3>3, <3>5, BoundAssumption DEF ExceedsAttempts, Row
        <4> QED BY <3>1, <3>5, <4>1, <4>2, <1>0 DEF Loads, Context
      <3>6. CASE /\ row.leaseToken # NoToken /\ ExceedsAttempts(row.attempt)
                 /\ pc'  = [pc EXCEPT ![w] = "exceeded"]
                 /\ ctx' = [ctx EXCEPT
                              ![w] = [loaded EXCEPT !.error = MaxAttemptsError]]
        <4>1. /\ ctx'[w] = [loaded EXCEPT !.error = MaxAttemptsError]
              /\ pc'[w] = "exceeded"
          BY <3>6, <1>0
        <4> QED BY <3>1, <3>6, <4>1, <1>0 DEF Loads, Context, ExceedsAttempts
      <3> QED BY <1>4, <2>2, <3>4, <3>5, <3>6 DEF LoadJob
    <2> QED BY <2>1, <2>2
  <1>5. ASSUME NEW v \in Worker, MarkProcessing(v) PROVE WorkerMove(w)
    <2>1. CASE CanStart(v) /\ GoTo(v, "running") /\
               rows' = [rows EXCEPT ![ctx[v].job].status = "processing"]
      <3>1. ctx' = ctx /\ pc' = [pc EXCEPT ![v] = "running"]
        BY <2>1 DEF GoTo
      <3>2. CASE v # w
        BY <3>1, <3>2, <1>0 DEF Stays
      <3>3. CASE v = w
        <4>1. pc[w] = "starting" /\ ctx[w].job \in Job
          BY <1>5, <3>3 DEF MarkProcessing, TypeOK
        <4>2. rows'[ctx[w].job].status = "processing"
          BY <2>1, <3>3, <4>1 DEF TypeOK, Row
        <4>3. \A u \in Worker \ {w} : Stays(u)
          BY <3>1, <3>3, <1>0 DEF Stays
        <4> QED BY <2>1, <3>1, <3>3, <4>1, <4>2, <4>3, <1>0 DEF Begins
      <3> QED BY <3>2, <3>3
    <2>2. CASE GoIdle(v)
      BY <2>2, <1>0 DEF GoIdle, Leaves, Stays
    <2> QED BY <1>5, <2>1, <2>2 DEF MarkProcessing
  <1>6. ASSUME NEW v \in Worker, PipelineSucceeds(v) PROVE WorkerMove(w)
    <2>1. /\ ctx' = ctx /\ pc' = [pc EXCEPT ![v] = "saved"] /\ rows' = rows
          /\ pc[v] = "running" /\ file' = [file EXCEPT ![ctx[v].job] = "whole"]
      BY <1>6 DEF PipelineSucceeds, GoTo
    <2>2. CASE v # w
      BY <2>1, <2>2, <1>0 DEF Stays
    <2>3. CASE v = w
      <3>1. ctx[w].job \in Job
        BY <2>1, <2>3 DEF TypeOK
      <3>2. file'[ctx[w].job] = "whole"
        BY <2>1, <2>3, <3>1 DEF TypeOK
      <3> QED BY <2>1, <2>3, <3>2, <1>0 DEF Saves
    <2> QED BY <2>2, <2>3
  <1>7. ASSUME NEW v \in Worker, WriteFails(v) PROVE WorkerMove(w)
    BY <1>7, <1>0 DEF WriteFails, GoIdle, Leaves, Stays
  <1>8. ASSUME NEW v \in Worker, NEW e \in PipelineError \cup {TransientError},
               PipelineRaises(v, e)
        PROVE WorkerMove(w)
    <2>1. CASE v # w
      BY <1>8, <2>1, <1>0 DEF PipelineRaises, Stays
    <2>2. CASE v = w
      <3>1. pc[w] = "running" /\ rows' = rows
        BY <1>8, <2>2 DEF PipelineRaises, storeVars
      <3>2. CASE CanRetry(e, ctx[w].attempt)
        <4>1. /\ pc' = [pc EXCEPT ![w] = "deferring"]
              /\ ctx' = [ctx EXCEPT ![w].error = e, ![w].retryAt = retryClock + 1]
          BY <1>8, <2>2, <3>2 DEF PipelineRaises
        <4>2. ctx'[w] = [ctx[w] EXCEPT !.error = e, !.retryAt = retryClock + 1]
          BY <4>1, <1>0
        <4>3. retryClock + 1 # NoRetry
          BY DEF TypeOK
        <4> QED BY <3>1, <3>2, <4>1, <4>2, <4>3, <1>0 DEF Decides, Context
      <3>3. CASE ~CanRetry(e, ctx[w].attempt)
        <4>1. /\ pc' = [pc EXCEPT ![w] = "failing"]
              /\ ctx' = [ctx EXCEPT ![w].error = e]
          BY <1>8, <2>2, <3>3 DEF PipelineRaises
        <4>2. ctx'[w] = [ctx[w] EXCEPT !.error = e]
          BY <4>1, <1>0
        <4> QED BY <3>1, <3>3, <4>1, <4>2, <1>0 DEF Decides, Context
      <3> QED BY <3>2, <3>3
    <2> QED BY <2>1, <2>2
  <1>9. ASSUME NEW v \in Worker,
               MarkDone(v) \/ MarkFailed(v) \/ DatabaseFails(v)
        PROVE WorkerMove(w)
    <2>1. GoIdle(v)
      BY <1>9 DEF MarkDone, MarkFailed, DatabaseFails
    <2> QED BY <2>1, <1>0 DEF GoIdle, Leaves, Stays
  <1>10. ASSUME NEW v \in Worker, DeferRetry(v) PROVE WorkerMove(w)
    <2>1. CASE GoIdle(v)
      BY <2>1, <1>0 DEF GoIdle, Leaves, Stays
    <2>2. CASE ~OwnsLease(v) /\ GoTo(v, "failing") /\ rows' = rows
      BY <1>10, <2>2, <1>0 DEF DeferRetry, GoTo, Stays, IsRejected
    <2> QED BY <1>10, <2>1, <2>2 DEF DeferRetry
  <1>13. CASE Reclaim
    BY <1>13 DEF Reclaim, Stays
  <1>14. CASE ErrorRateTick
    BY <1>14 DEF ErrorRateTick, Stays
  <1>15. CASE RetryDue
    BY <1>15 DEF RetryDue, Stays
  <1>16. CASE Crash
    BY <1>16 DEF Crash, Leaves
  <1>17. CASE Restart
    BY <1>17 DEF Restart, Stays
  <1>18. CASE UNCHANGED vars
    BY <1>18 DEF vars, Stays
  <1> QED
    BY <1>1, <1>3, <1>4, <1>5, <1>6, <1>7, <1>8, <1>9, <1>10,
       <1>13, <1>14, <1>15, <1>16, <1>17, <1>18
       DEF Next, WorkerStep, PipelineEnds, PollIdle
\* Only a running run writes a text, and only one under its lease a partial one.
WritesText(w, s) ==
    /\ pc[w] = "running" /\ file' = [file EXCEPT ![ctx[w].job] = s]
    /\ s = "partial" => OwnsLease(w)

LEMMA FileSteps ==
    ASSUME [Next]_vars
    PROVE  \/ UNCHANGED file
           \/ \E w \in Worker :
                 \E s \in {"partial", "clobbered", "whole"} : WritesText(w, s)
  <1>1. ASSUME NEW w \in Worker, pc[w] = "running",
               file' = [file EXCEPT ![ctx[w].job] = Broken(w)]
        PROVE  \E s \in {"partial", "clobbered", "whole"} : WritesText(w, s)
    <2>1. CASE OwnsLease(w)
      <3>1. WritesText(w, "partial")
        BY <1>1, <2>1 DEF Broken, WritesText
      <3> QED BY <3>1
    <2>2. CASE ~OwnsLease(w)
      <3>1. WritesText(w, "clobbered")
        BY <1>1, <2>2 DEF Broken, WritesText
      <3> QED BY <3>1
    <2> QED BY <2>1, <2>2
  <1>2. ASSUME NEW w \in Worker, PipelineSucceeds(w)
        PROVE  \E s \in {"partial", "clobbered", "whole"} : WritesText(w, s)
    <2>1. WritesText(w, "whole")
      BY <1>2 DEF PipelineSucceeds, WritesText
    <2> QED BY <2>1
  <1>3. \/ UNCHANGED file
        \/ \E w \in Worker :
              \/ PipelineSucceeds(w)
              \/ /\ pc[w] = "running"
                 /\ file' = [file EXCEPT ![ctx[w].job] = Broken(w)]
    BY DEF Next, Submit, LeaseExpires, WorkerStep, Claim, LoadJob, MarkProcessing,
           PipelineEnds, PipelineSucceeds, WriteFails, PipelineRaises, MarkDone,
           DeferRetry, MarkFailed, PollIdle, DatabaseFails, Reclaim,
           ErrorRateTick, RetryDue, Crash, Restart, vars, storeVars
  <1> QED BY <1>1, <1>2, <1>3

\* A transcript file, once there, stays.
LEMMA FilesStay ==
    ASSUME TypeOK, [Next]_vars, NEW j \in Job, file[j] # "none"
    PROVE  file'[j] # "none"
  <1>1. ASSUME NEW k \in Job, NEW s \in {"partial", "clobbered", "whole"},
               file' = [file EXCEPT ![k] = s]
        PROVE  file'[j] # "none"
    BY <1>1 DEF TypeOK
  <1>2. \A w \in Worker : pc[w] = "running" => ctx[w].job \in Job
    BY DEF TypeOK
  <1> QED BY <1>1, <1>2, FileSteps DEF WritesText

-----------------------------------------------------------------------------
(* The inductive invariant                                                 *)

\* A worker that holds a job knows a token that has been issued for it.
TokensAreIssued ==
    \A w \in Worker : pc[w] \in Holding =>
        /\ ctx[w].token = ctx[w].attempt /\ ctx[w].token # NoToken
        /\ ctx[w].token <= rows[ctx[w].job].attempt

\* The attempt check comes before a run and is not taken back.
AttemptsAreChecked ==
    /\ \A w \in Worker :
          /\ pc[w] \in {"starting"} \cup InFlight => ctx[w].attempt <= MaxAttempts
          /\ pc[w] = "exceeded" => /\ ctx[w].attempt > MaxAttempts
                                   /\ ctx[w].error = MaxAttemptsError
    /\ \A j \in Job :
          rows[j].status = "processing" => rows[j].attempt <= MaxAttempts

\* A lease whose run has started is past CLAIMED: no second run starts on it.
StartedLeaseIsProcessing ==
    \A w \in Worker :
        pc[w] \in InFlight /\ ctx[w].token = rows[ctx[w].job].leaseToken
        => rows[ctx[w].job].status = "processing"

\* What a worker that is deferring or failing its job has decided.
DecisionIsKept(w) ==
    /\ pc[w] \notin {"deferring", "failing"} => ctx[w].retryAt = NoRetry
    /\ pc[w] = "deferring" => /\ ctx[w].retryAt # NoRetry
                              /\ CanRetry(ctx[w].error, ctx[w].attempt)
    /\ pc[w] \in {"deferring", "failing"} =>
          ctx[w].error \in PipelineError \cup {TransientError}
    /\ pc[w] = "failing" /\ ctx[w].retryAt = NoRetry =>
          ~CanRetry(ctx[w].error, ctx[w].attempt)
DecisionsAreKept == \A w \in Worker : DecisionIsKept(w)

\* The mark_failed after a rejected defer_retry is rejected as well.
RejectedDeferHasNoLease ==
    \A w \in Worker :
        pc[w] = "failing" /\ ctx[w].retryAt # NoRetry => ~OwnsLease(w)

\* A run about to mark_done wrote its text, and while it has its lease no other
\* run of the job has one.
Undamaged(j) == file[j] \in {"whole", "clobbered"}
SavedIsUndamaged ==
    \A w \in Worker : pc[w] = "saved" /\ OwnsLease(w) => Undamaged(ctx[w].job)

IInv ==
    /\ TypeOK /\ LeaseMatchesStatus
    /\ TokensAreIssued /\ AttemptsAreChecked
    /\ StartedLeaseIsProcessing /\ RunsHaveDistinctLeases
    /\ DecisionsAreKept /\ RejectedDeferHasNoLease
    /\ SavedIsUndamaged /\ OnlyStaleRunsDamage
    /\ FailedForACause

\* A worker without its lease does not get it back: no row is given a token
\* that was issued before.
LEMMA LostLease ==
    ASSUME IInv, [Next]_vars, NEW w \in Worker,
           pc[w] \in Holding, pc'[w] \in Holding, ~OwnsLease(w)
    PROVE  ~OwnsLease(w)'
  <1>1. TypeOK
    BY DEF IInv
  <1>2. WorkerMove(w)
    BY <1>1, WorkerMoves
  <1>3. ctx'[w].job = ctx[w].job /\ ctx'[w].token = ctx[w].token
    BY <1>2 DEF WorkerMove, Stays, Leaves, Claims, Loads, Begins,
          Saves, Decides, IsRejected, Holding, InFlight
  <1> DEFINE j == ctx[w].job
  <1>4. j \in Job /\ ctx[w] \in Context
    BY <1>1 DEF TypeOK, Holding, InFlight
  <1>5. ctx[w].token # NoToken /\ ctx[w].token <= rows[j].attempt
    BY DEF IInv, TokensAreIssued
  <1>6. rows[j] \in Row /\ RowStep(j)
    BY <1>1, <1>4, RowSteps, RowUpdates
  <1>7. rows[j].status \notin Leased \/ rows[j].leaseToken # ctx[w].token
    BY DEF OwnsLease
  <1>8. rows'[j].status \notin Leased \/ rows'[j].leaseToken # ctx[w].token
    <2> HIDE DEF j
    <2>1. ctx[w].token \in Nat /\ rows[j].attempt \in Nat
      BY <1>4, <1>6 DEF Row, Context
    <2>2. CASE rows'[j] = rows[j]
      BY <1>7, <2>2
    <2>3. CASE Submits(j) \/ Releases(j)
      BY <2>3 DEF Submits, Releases
    <2>4. CASE Leases(j)
      BY <1>5, <2>1, <2>4 DEF Leases
    <2>5. CASE Starts(j) \/ Expires(j)
      BY <1>7, <2>5 DEF Starts, Expires
    <2> QED BY <1>6, <2>2, <2>3, <2>4, <2>5 DEF RowStep
  <1> QED BY <1>3, <1>8 DEF OwnsLease

\* What a run under its lease has written, and what a finished job has, is
\* damaged only by a run without a lease.
LEMMA DamageIsStale ==
    ASSUME IInv, [Next]_vars, NEW j \in Job, Undamaged(j),
           \A v \in Worker :
              pc[v] = "running" /\ ctx[v].job = j => ~OwnsLease(v)
    PROVE  Undamaged(j)'
  <1>1. file \in [Job -> {"none", "partial", "clobbered", "whole"}]
    BY DEF IInv, TypeOK
  <1>2. ASSUME NEW v \in Worker, NEW s \in {"partial", "clobbered", "whole"},
               WritesText(v, s)
        PROVE  Undamaged(j)'
    <2>1. ctx[v].job = j => s # "partial"
      BY <1>2 DEF WritesText
    <2>2. file' = [file EXCEPT ![ctx[v].job] = s]
      BY <1>2 DEF WritesText
    <2>3. CASE ctx[v].job = j
      BY <1>1, <1>2, <2>1, <2>2, <2>3 DEF Undamaged
    <2>4. CASE ctx[v].job # j
      BY <1>1, <2>2, <2>4 DEF Undamaged
    <2> QED BY <2>3, <2>4
  <1>3. UNCHANGED file => Undamaged(j)'
    BY DEF Undamaged
  <1> QED BY <1>2, <1>3, FileSteps

LEMMA InitIInv == Init => IInv
  <1> SUFFICES ASSUME Init PROVE IInv
    OBVIOUS
  <1>1. TypeOK
    BY InitType
  <1>2. \A w \in Worker : pc[w] = "idle" /\ ctx[w] = NoContext
    BY DEF Init
  <1>3. \A j \in Job : rows[j] = NoRow
    BY DEF Init
  <1>4. LeaseMatchesStatus /\ OnlyStaleRunsDamage /\ FailedForACause
    BY <1>3 DEF NoRow, LeaseMatchesStatus, OnlyStaleRunsDamage, FailedForACause
  <1>5. AttemptsAreChecked
    BY <1>2, <1>3 DEF NoRow, AttemptsAreChecked, InFlight
  <1>6. TokensAreIssued /\ StartedLeaseIsProcessing /\ RunsHaveDistinctLeases
    BY <1>2 DEF TokensAreIssued, StartedLeaseIsProcessing,
                RunsHaveDistinctLeases, Holding, InFlight
  <1>7. DecisionsAreKept /\ RejectedDeferHasNoLease /\ SavedIsUndamaged
    BY <1>2 DEF DecisionsAreKept, DecisionIsKept, RejectedDeferHasNoLease,
                SavedIsUndamaged, NoContext
  <1> QED BY <1>1, <1>4, <1>5, <1>6, <1>7 DEF IInv

LEMMA NextIInv == IInv /\ [Next]_vars => IInv'
  <1> SUFFICES ASSUME IInv, [Next]_vars PROVE IInv'
    OBVIOUS
  <1>1. TypeOK /\ TypeOK'
    BY NextType DEF IInv
  <1>2. \A j \in Job : RowStep(j)
    BY <1>1, RowSteps
  <1>3. \A w \in Worker : WorkerMove(w)
    BY <1>1, WorkerMoves
  <1>4. /\ \A j \in Job : rows[j] \in Row /\ rows'[j] \in Row
        /\ \A w \in Worker : ctx[w] \in Context /\ ctx'[w] \in Context
        /\ \A w \in Worker : pc[w] # "idle" => ctx[w].job \in Job
        /\ \A w \in Worker : pc'[w] # "idle" => ctx'[w].job \in Job
    BY <1>1 DEF TypeOK
  <1>5. LeaseMatchesStatus'
    <2> SUFFICES ASSUME NEW j \in Job
                 PROVE  /\ rows'[j].leaseToken =
                              IF rows'[j].status \in Leased
                              THEN rows'[j].attempt ELSE NoToken
                        /\ rows'[j].leaseExpired => rows'[j].status \in Leased
      BY DEF LeaseMatchesStatus
    <2>1. RowStep(j) /\ rows[j] \in Row /\ rows'[j] \in Row
      BY <1>2, <1>4
    <2>2. /\ rows[j].leaseToken =
                IF rows[j].status \in Leased THEN rows[j].attempt ELSE NoToken
          /\ rows[j].leaseExpired => rows[j].status \in Leased
      BY DEF IInv, LeaseMatchesStatus
    <2> QED BY <2>1, <2>2
            DEF RowStep, Submits, Leases, Starts, Releases, Expires, Row, Status
  <1>6. \A j \in Job : rows'[j].attempt >= rows[j].attempt
    BY <1>2, <1>4 DEF RowStep, Submits, Leases, Starts, Releases, Expires, Row
  <1>7. TokensAreIssued'
    <2> SUFFICES ASSUME NEW w \in Worker, pc'[w] \in Holding
                 PROVE  /\ ctx'[w].token = ctx'[w].attempt
                        /\ ctx'[w].token # NoToken
                        /\ ctx'[w].token <= rows'[ctx'[w].job].attempt
      BY DEF TokensAreIssued
    <2>1. CASE pc[w] \in Holding
      <3>1. /\ ctx'[w].job = ctx[w].job /\ ctx'[w].token = ctx[w].token
            /\ ctx'[w].attempt = ctx[w].attempt
        BY <1>3, <2>1 DEF WorkerMove, Stays, Leaves, Claims, Loads, Begins,
              Saves, Decides, IsRejected, Holding, InFlight
      <3>2. ctx[w].job \in Job
        BY <1>4, <2>1 DEF Holding, InFlight
      <3> QED BY <1>4, <1>6, <2>1, <3>1, <3>2 DEF IInv, TokensAreIssued, Row, Context
    <2>2. CASE pc[w] \notin Holding
      <3>1. Loads(w)
        BY <1>3, <2>2 DEF WorkerMove, Stays, Leaves, Claims, Begins,
              Saves, Decides, IsRejected, Holding, InFlight
      <3>2. ctx[w].job \in Job
        BY <1>4, <3>1 DEF Loads
      <3>3. rows[ctx[w].job].leaseToken = rows[ctx[w].job].attempt
        BY <3>1, <3>2 DEF IInv, LeaseMatchesStatus, Loads
      <3> QED BY <1>4, <3>1, <3>2, <3>3 DEF Loads, Row
    <2> QED BY <2>1, <2>2
  <1>8. AttemptsAreChecked'
    <2>1. ASSUME NEW w \in Worker, pc'[w] \in {"starting"} \cup InFlight
          PROVE  ctx'[w].attempt <= MaxAttempts
      BY <1>3, <2>1 DEF WorkerMove, Stays, Leaves, Claims, Loads, Begins,
            Saves, Decides, IsRejected, InFlight, IInv, AttemptsAreChecked
    <2>2. ASSUME NEW w \in Worker, pc'[w] = "exceeded"
          PROVE  ctx'[w].attempt > MaxAttempts /\ ctx'[w].error = MaxAttemptsError
      BY <1>3, <2>2 DEF WorkerMove, Stays, Leaves, Claims, Loads, Begins,
            Saves, Decides, IsRejected, IInv, AttemptsAreChecked
    <2>3. ASSUME NEW j \in Job, rows'[j].status = "processing"
          PROVE  rows'[j].attempt <= MaxAttempts
      <3>1. CASE Starts(j)
        <4>1. PICK w \in Worker : /\ pc[w] = "starting" /\ ctx[w].job = j
                                  /\ ctx[w].token = rows[j].leaseToken
          BY <3>1 DEF Starts
        <4>2. ctx[w].token = ctx[w].attempt /\ ctx[w].attempt <= MaxAttempts
          BY <4>1 DEF IInv, TokensAreIssued, AttemptsAreChecked, Holding
        <4>3. rows[j].leaseToken = rows[j].attempt
          BY <3>1 DEF Starts, IInv, LeaseMatchesStatus
        <4> QED BY <3>1, <4>1, <4>2, <4>3 DEF Starts
      <3>2. CASE ~Starts(j)
        BY <1>2, <2>3, <3>2 DEF RowStep, Submits, Leases, Releases, Expires,
              IInv, AttemptsAreChecked
      <3> QED BY <3>1, <3>2
    <2> QED BY <2>1, <2>2, <2>3 DEF AttemptsAreChecked
  <1>9. StartedLeaseIsProcessing'
    <2> SUFFICES ASSUME NEW w \in Worker, pc'[w] \in InFlight,
                        ctx'[w].token = rows'[ctx'[w].job].leaseToken
                 PROVE  rows'[ctx'[w].job].status = "processing"
      BY DEF StartedLeaseIsProcessing
    <2>1. CASE Begins(w)
      BY <2>1 DEF Begins
    <2>2. CASE ~Begins(w)
      <3>1. /\ pc[w] \in InFlight /\ ctx'[w].job = ctx[w].job
            /\ ctx'[w].token = ctx[w].token
        BY <1>3, <2>2 DEF WorkerMove, Stays, Leaves, Claims, Loads,
              Saves, Decides, IsRejected, InFlight
      <3> DEFINE j == ctx[w].job
      <3>2. j \in Job
        BY <1>4, <3>1 DEF InFlight
      <3>3. ctx[w].token # NoToken /\ ctx[w].token <= rows[j].attempt
        BY <3>1 DEF IInv, TokensAreIssued, Holding
      <3>4. rows[j] \in Row /\ ctx[w] \in Context /\ RowStep(j)
        BY <1>2, <1>4, <3>2
      <3>5. ~Leases(j)
        BY <3>1, <3>3, <3>4 DEF Leases, Row, Context
      <3>6. ~Releases(j)
        BY <3>1, <3>3 DEF Releases
      <3>7. ctx[w].token = rows[j].leaseToken =>
               rows[j].status = "processing"
        BY <3>1 DEF IInv, StartedLeaseIsProcessing
      <3> QED BY <3>1, <3>4, <3>5, <3>6, <3>7
              DEF RowStep, Submits, Starts, Expires
    <2> QED BY <2>1, <2>2
  <1>10. RunsHaveDistinctLeases'
    <2> SUFFICES ASSUME NEW v \in Worker, NEW w \in Worker, v # w,
                        pc'[v] \in InFlight, pc'[w] \in InFlight,
                        ctx'[v].job = ctx'[w].job
                 PROVE  ctx'[v].token # ctx'[w].token
      BY DEF RunsHaveDistinctLeases
    <2>1. ASSUME NEW u \in Worker, pc'[u] \in InFlight
          PROVE  \/ Begins(u)
                 \/ /\ pc[u] \in InFlight /\ ctx'[u].job = ctx[u].job
                    /\ ctx'[u].token = ctx[u].token
      BY <1>3, <2>1 DEF WorkerMove, Stays, Leaves, Claims, Loads,
            Saves, Decides, IsRejected, InFlight
    <2>2. ASSUME NEW u \in Worker, NEW x \in Worker, u # x, Begins(u),
                 pc'[x] \in InFlight, ctx'[u].job = ctx'[x].job
          PROVE  ctx'[u].token # ctx'[x].token
      <3>1. pc[x] \in InFlight /\ ctx'[x] = ctx[x] /\ ctx'[u] = ctx[u]
        BY <2>2 DEF Begins, Stays
      <3>2. /\ rows[ctx[u].job].status = "claimed"
            /\ rows[ctx[u].job].leaseToken = ctx[u].token
        BY <2>2 DEF Begins, CanStart
      <3> QED BY <2>2, <3>1, <3>2 DEF IInv, StartedLeaseIsProcessing
    <2>3. CASE ~Begins(v) /\ ~Begins(w)
      BY <2>1, <2>3 DEF IInv, RunsHaveDistinctLeases
    <2> QED BY <2>2, <2>3
  <1>11. DecisionsAreKept'
    <2> SUFFICES ASSUME NEW w \in Worker
                 PROVE  DecisionIsKept(w)'
      BY DEF DecisionsAreKept
    <2>1. DecisionIsKept(w)
      BY DEF IInv, DecisionsAreKept
    <2>2. CASE Stays(w)
      BY <2>1, <2>2 DEF DecisionIsKept, Stays
    <2>3. CASE Leaves(w)
      BY <2>3 DEF DecisionIsKept, Leaves, NoContext
    <2>4. CASE Claims(w) \/ Loads(w) \/ Begins(w) \/ Saves(w)
      BY <2>1, <2>4 DEF DecisionIsKept, Claims, Loads, Begins, Saves
    <2>5. CASE Decides(w)
      BY <2>1, <2>5 DEF DecisionIsKept, Decides
    <2>6. CASE IsRejected(w)
      BY <2>1, <2>6 DEF DecisionIsKept, IsRejected
    <2> QED BY <1>3, <2>2, <2>3, <2>4, <2>5, <2>6 DEF WorkerMove
  <1>12. RejectedDeferHasNoLease'
    <2> SUFFICES ASSUME NEW w \in Worker,
                        pc'[w] = "failing", ctx'[w].retryAt # NoRetry
                 PROVE  ~OwnsLease(w)'
      BY DEF RejectedDeferHasNoLease
    <2>1. pc[w] \in Holding
      BY <1>3 DEF WorkerMove, Stays, Leaves, Claims, Loads, Begins, Saves,
            Decides, IsRejected, Holding, InFlight
    <2>2. ~OwnsLease(w)
      <3>1. CASE Stays(w)
        BY <3>1 DEF Stays, IInv, RejectedDeferHasNoLease
      <3>2. CASE Decides(w)
        BY <3>2 DEF Decides, IInv, DecisionsAreKept, DecisionIsKept
      <3>3. CASE IsRejected(w)
        BY <3>3 DEF IsRejected
      <3> QED BY <1>3, <3>1, <3>2, <3>3 DEF WorkerMove, Leaves, Claims, Loads,
                 Begins, Saves
    <2> QED BY LostLease, <2>1, <2>2 DEF Holding, InFlight
  <1>13. SavedIsUndamaged'
    <2> SUFFICES ASSUME NEW w \in Worker, pc'[w] = "saved", OwnsLease(w)'
                 PROVE  file'[ctx'[w].job] \in {"whole", "clobbered"}
      BY DEF SavedIsUndamaged, Undamaged
    <2>1. CASE Saves(w)
      BY <2>1 DEF Saves
    <2>2. CASE ~Saves(w)
      <3>1. pc[w] = "saved" /\ ctx'[w] = ctx[w]
        BY <1>3, <2>2 DEF WorkerMove, Stays, Leaves, Claims, Loads, Begins,
              Decides, IsRejected
      <3>2. OwnsLease(w)
        BY <3>1, LostLease DEF Holding, InFlight
      <3>3. ctx[w].job \in Job /\ Undamaged(ctx[w].job)
        BY <1>4, <3>1, <3>2 DEF IInv, SavedIsUndamaged
      <3>4. ASSUME NEW v \in Worker, pc[v] = "running",
                   ctx[v].job = ctx[w].job
            PROVE  ~OwnsLease(v)
        <4>1. ctx[v].token # ctx[w].token
          BY <3>1, <3>4 DEF IInv, RunsHaveDistinctLeases, InFlight
        <4> QED BY <3>2, <3>4, <4>1 DEF OwnsLease
      <3>5. \A j \in Job : j = ctx[w].job => Undamaged(j)'
        BY <3>3, <3>4, DamageIsStale
      <3>6. \A j \in Job : j = ctx[w].job => file'[j] \in {"whole", "clobbered"}
        BY <3>5 DEF Undamaged
      <3> QED BY <3>1, <3>3, <3>6
    <2> QED BY <2>1, <2>2
  <1>14. OnlyStaleRunsDamage'
    <2> SUFFICES ASSUME NEW j \in Job, rows'[j].status = "done"
                 PROVE  Undamaged(j)'
      BY DEF OnlyStaleRunsDamage, Undamaged
    <2>1. CASE rows[j].status = "done"
      <3>1. Undamaged(j)
        BY <2>1 DEF IInv, OnlyStaleRunsDamage, Undamaged
      <3>2. \A v \in Worker : ctx[v].job = j => ~OwnsLease(v)
        BY <2>1 DEF OwnsLease, Leased
      <3> QED BY <3>1, <3>2, DamageIsStale
    <2>2. CASE rows[j].status # "done"
      <3>1. Releases(j)
        BY <1>2, <2>2 DEF RowStep, Submits, Leases, Starts, Expires
      <3>2. PICK w \in Worker : /\ pc[w] = "saved" /\ ctx[w].job = j
                                /\ ctx[w].token = rows[j].leaseToken
        BY <3>1 DEF Releases
      <3>3. OwnsLease(w)
        BY <3>1, <3>2 DEF Releases, OwnsLease
      <3>4. Undamaged(j)
        BY <3>2, <3>3 DEF IInv, SavedIsUndamaged
      <3>5. ASSUME NEW v \in Worker, pc[v] = "running", ctx[v].job = j
            PROVE  ~OwnsLease(v)
        <4>1. ctx[v].token # ctx[w].token
          BY <3>2, <3>5 DEF IInv, RunsHaveDistinctLeases, InFlight
        <4> QED BY <3>2, <3>5, <4>1 DEF OwnsLease
      <3> QED BY <3>4, <3>5, DamageIsStale
    <2> QED BY <2>1, <2>2
  <1>15. FailedForACause'
    <2> SUFFICES ASSUME NEW j \in Job, rows'[j].status = "failed"
                 PROVE  /\ rows'[j].error # NoError
                        /\ rows'[j].error.retryable =>
                              rows'[j].attempt = MaxAttempts
                        /\ rows'[j].error = MaxAttemptsError =>
                              rows'[j].attempt > MaxAttempts
      BY DEF FailedForACause
    <2>1. CASE rows[j].status = "failed"
      <3>1. rows'[j].error = rows[j].error /\ rows'[j].attempt = rows[j].attempt
        BY <1>2, <2>1 DEF RowStep, Submits, Leases, Starts, Releases, Expires
      <3> QED BY <2>1, <3>1 DEF IInv, FailedForACause
    <2>2. CASE rows[j].status # "failed"
      <3>1. Releases(j)
        BY <1>2, <2>2 DEF RowStep, Submits, Leases, Starts, Expires
      <3>2. PICK w \in Worker : /\ pc[w] \in {"exceeded", "failing"}
                                /\ ctx[w].job = j
                                /\ OwnsLease(w) /\ rows'[j].error = ctx[w].error
        BY <3>1 DEF Releases
      <3>3. ctx[w].attempt = rows[j].attempt /\ rows'[j].attempt = rows[j].attempt
        BY <3>1, <3>2 DEF OwnsLease, Releases, IInv, TokensAreIssued,
              LeaseMatchesStatus, Holding, InFlight
      <3>4. CASE pc[w] = "exceeded"
        BY <3>2, <3>3, <3>4, ErrorCodes
           DEF IInv, AttemptsAreChecked, MaxAttemptsError
      <3>5. CASE pc[w] = "failing"
        <4>1. ctx[w].retryAt = NoRetry
          BY <3>2, <3>5 DEF IInv, RejectedDeferHasNoLease
        <4>2. ~CanRetry(ctx[w].error, ctx[w].attempt)
          BY <3>5, <4>1 DEF IInv, DecisionsAreKept, DecisionIsKept
        <4>3. ctx[w].attempt <= MaxAttempts /\ ctx[w].attempt \in Nat
          BY <1>4, <3>5 DEF IInv, AttemptsAreChecked, InFlight, Context
        <4>4. ctx[w].error \in PipelineError \cup {TransientError}
          BY <3>5 DEF IInv, DecisionsAreKept, DecisionIsKept
        <4>5. ctx[w].error # NoError /\ ctx[w].error # MaxAttemptsError
          BY <4>4, PipelineErrorAssumption
             DEF NoError, MaxAttemptsError, TransientError
        <4> QED BY <3>2, <3>3, <4>2, <4>3, <4>5, BoundAssumption DEF CanRetry
      <3> QED BY <3>2, <3>4, <3>5
    <2> QED BY <2>1, <2>2
  <1> QED
    BY <1>1, <1>5, <1>7, <1>8, <1>9, <1>10, <1>11, <1>12, <1>13, <1>14, <1>15
       DEF IInv
LEMMA Invariance == Spec => []IInv
  <1>1. Init => IInv
    BY InitIInv
  <1>2. IInv /\ [Next]_vars => IInv'
    BY NextIInv
  <1> QED BY <1>1, <1>2, PTL DEF Spec

-----------------------------------------------------------------------------
(* Theorems                                                                *)

\* However leases expire under slow workers and claims read their row back
\* late, two runs of the pipeline never hold the same lease.
THEOREM DistinctLeases == Spec => []RunsHaveDistinctLeases
  <1>1. IInv => RunsHaveDistinctLeases
    BY DEF IInv
  <1> QED BY <1>1, Invariance, PTL

\* The row's token and its status never disagree.
THEOREM LeaseIsConsistent == Spec => []LeaseMatchesStatus
  <1>1. IInv => LeaseMatchesStatus
    BY DEF IInv
  <1> QED BY <1>1, Invariance, PTL

\* No run of the pipeline starts on an attempt beyond max_attempts.
THEOREM BudgetIsKept == Spec => []WithinBudget
  <1>1. IInv => WithinBudget
    BY DEF IInv, WithinBudget, AttemptsAreChecked, TokensAreIssued, Holding
  <1> QED BY <1>1, Invariance, PTL

\* A job is failed only by an error that may not be retried, by one on the
\* last attempt, or by a claim beyond it.
THEOREM FailuresHaveACause == Spec => []FailedForACause
  <1>1. IInv => FailedForACause
    BY DEF IInv
  <1> QED BY <1>1, Invariance, PTL

\* What a failed write or a crash leaves under a lease is never the transcript
\* of a DONE job: only a run that lost its lease can damage that.
THEOREM DoneIsUndamaged == Spec => []OnlyStaleRunsDamage
  <1>1. IInv => OnlyStaleRunsDamage
    BY DEF IInv
  <1> QED BY <1>1, Invariance, PTL

\* No step changes the row of a DONE or FAILED job.
THEOREM FinalRows == Spec => TerminalIsFinal
  <1>1. ASSUME IInv, [Next]_vars
        PROVE  \A j \in Job : rows[j].status \in Terminal => rows'[j] = rows[j]
    <2>1. \A j \in Job : RowStep(j)
      BY <1>1, RowSteps DEF IInv
    <2> QED BY <2>1 DEF RowStep, Submits, Leases, Starts, Releases, Expires
  <1>2. IInv /\ [Next]_vars =>
          [\A j \in Job : rows[j].status \in Terminal => rows'[j] = rows[j]]_vars
    BY <1>1
  <1> QED BY <1>2, Invariance, PTL DEF Spec, TerminalIsFinal

\* Whatever a step writes into a row takes it forward: to the next attempt, or
\* to a later stage of the same one.
LEMMA RowAdvances ==
    ASSUME IInv, [Next]_vars, NEW j \in Job, rows'[j] # rows[j]
    PROVE  Precedes(rows[j], rows'[j])
  <1>1. RowStep(j) /\ rows[j].attempt \in Nat /\ rows[j].leaseExpired \in BOOLEAN
    BY RowSteps DEF IInv, TypeOK, Row
  <1>2. CASE Submits(j)
    BY <1>1, <1>2 DEF Submits, Precedes, Stage
  <1>3. CASE Leases(j)
    BY <1>1, <1>3 DEF Leases, Precedes
  <1>4. CASE Starts(j)
    BY <1>1, <1>4 DEF Starts, Precedes, Stage
  <1>5. CASE Releases(j)
    <2>1. Stage(rows[j]) \in 1..4 /\ Stage(rows'[j]) \in 5..6
      BY <1>1, <1>5 DEF Releases, Stage, Leased, Terminal
    <2> QED BY <1>5, <2>1 DEF Releases, Precedes
  <1>6. CASE Expires(j)
    BY <1>1, <1>6 DEF Expires, Precedes, Stage, Leased
  <1> QED BY <1>1, <1>2, <1>3, <1>4, <1>5, <1>6 DEF RowStep

\* No row is ever again in a state that it has left.
THEOREM RowsAdvance == Spec => RowsOnlyAdvance
  <1>1. IInv /\ [Next]_vars =>
          [\A j \in Job : rows'[j] # rows[j] =>
              Precedes(rows[j], rows'[j])]_vars
    BY RowAdvances
  <1> QED BY <1>1, Invariance, PTL DEF Spec, RowsOnlyAdvance

\* A worker that has lost its lease never gets it back.
THEOREM LostLeases == Spec => LostLeaseStaysLost
  <1>1. IInv /\ [Next]_vars =>
          [\A w \in Worker :
              /\ pc[w] \in Holding /\ ~OwnsLease(w)
              /\ pc'[w] \in Holding
              => ~OwnsLease(w)']_vars
    BY LostLease
  <1> QED BY <1>1, Invariance, PTL DEF Spec, LostLeaseStaysLost

-----------------------------------------------------------------------------
(* What a poll finds                                                       *)

\* Jobs are created one after the other: no two have the same time.
SubmissionsAreOrdered ==
    \A j \in Submitted :
        /\ rows[j].createdAt \in 1..Cardinality(Submitted)
        /\ \A k \in Submitted \ {j} : rows[k].createdAt # rows[j].createdAt

\* A poll never passes over a waiting job, and has no choice: when some job is
\* eligible there is exactly one that claim() returns.  Submissions commit one
\* after the other; two that the clock puts in the same microsecond are the
\* one case in which ORDER BY leaves the choice to SQLite.
OneIsNext ==
    (\E j \in Job : Eligible(j)) =>
        \E j \in Job : \A k \in Job : IsNext(k) <=> k = j

LEMMA SubmittedFinite ==
    /\ IsFiniteSet(Submitted) /\ Submitted \subseteq Job
    /\ Cardinality(Submitted) \in Nat
  <1>1. Submitted \subseteq Job
    BY DEF Submitted
  <1>2. IsFiniteSet(Submitted)
    BY <1>1, JobAssumption, FS_Subset
  <1> QED BY <1>1, <1>2, FS_CardinalityType

LEMMA OrderIsKept ==
    ASSUME TypeOK, SubmissionsAreOrdered, [Next]_vars
    PROVE  SubmissionsAreOrdered'
  <1> DEFINE n == Cardinality(Submitted)
  <1>1. IsFiniteSet(Submitted) /\ n \in Nat
    BY SubmittedFinite
  <1>2. \A j \in Job : RowStep(j)
    BY RowSteps
  <1>3. ASSUME NEW j \in Job, Submits(j) PROVE SubmissionsAreOrdered'
    <2>1. j \notin Submitted /\ Submitted' = Submitted \cup {j}
      BY <1>3 DEF Submits, Submitted
    <2>2. Cardinality(Submitted') = n + 1
      BY <1>1, <2>1, FS_AddElement
    <2>3. /\ rows'[j].createdAt = n + 1
          /\ \A k \in Submitted : rows'[k].createdAt = rows[k].createdAt
      BY <1>3, <2>1 DEF Submits, Submitted
    <2>4. \A k \in Submitted : rows[k].createdAt \in 1..n
      BY DEF SubmissionsAreOrdered
    <2> HIDE DEF n
    <2>5. ASSUME NEW k \in Submitted'
          PROVE  /\ rows'[k].createdAt \in 1..(n + 1)
                 /\ \A l \in Submitted' \ {k} :
                       rows'[l].createdAt # rows'[k].createdAt
      <3>1. CASE k = j
        BY <1>1, <2>1, <2>3, <2>4, <3>1
      <3>2. CASE k # j
        <4>1. k \in Submitted /\ rows'[k].createdAt \in 1..n
          BY <2>1, <2>3, <2>4, <2>5, <3>2
        <4>2. \A l \in Submitted \ {k} :
                 rows'[l].createdAt # rows'[k].createdAt
          BY <2>3, <4>1 DEF SubmissionsAreOrdered
        <4>3. rows'[j].createdAt # rows'[k].createdAt
          BY <1>1, <2>3, <4>1
        <4> QED BY <1>1, <2>1, <4>1, <4>2, <4>3
      <3> QED BY <3>1, <3>2
    <2> QED BY <2>2, <2>5 DEF SubmissionsAreOrdered
  <1>4. CASE \A j \in Job : ~Submits(j)
    <2>1. \A j \in Job : /\ rows'[j].createdAt = rows[j].createdAt
                         /\ rows'[j].status = "absent"
                              <=> rows[j].status = "absent"
      BY <1>2, <1>4 DEF RowStep, Leases, Starts, Releases, Expires
    <2>2. Submitted' = Submitted
      BY <2>1 DEF Submitted
    <2>3. \A j \in Submitted : rows'[j].createdAt = rows[j].createdAt
      BY <2>1 DEF Submitted
    <2> QED BY <2>2, <2>3 DEF SubmissionsAreOrdered
  <1> QED BY <1>3, <1>4

\* Of some numbers one is the least.
LEMMA LeastNumber ==
    ASSUME NEW S \in SUBSET Nat, S # {}
    PROVE  \E x \in S : \A y \in S : x <= y
  <1>1. PICK x \in S : \A y \in S : ~(<<y, x>> \in OpToRel(<, Nat))
    BY NatLessThanWellFounded, WFMin
  <1>2. ASSUME NEW y \in S PROVE x <= y
    <2>1. x \in Nat /\ y \in Nat
      OBVIOUS
    <2>2. y < x => <<y, x>> \in OpToRel(<, Nat)
      BY <2>1 DEF OpToRel
    <2>3. ~(y < x)
      BY <1>1, <2>2
    <2> QED BY <2>1, <2>3
  <1> QED BY <1>2

\* Times of creation break every tie between retry times, so the eligible jobs
\* have a first one.
LEMMA OrderGivesNext ==
    ASSUME TypeOK, SubmissionsAreOrdered
    PROVE  OneIsNext
  <1> SUFFICES ASSUME NEW i \in Job, Eligible(i)
               PROVE  \E j \in Job : \A k \in Job : IsNext(k) <=> k = j
    BY DEF OneIsNext
  <1> DEFINE waiting == {j \in Job : Eligible(j)}
             soonest == {rows[j].nextRetryAt : j \in waiting}
  <1>1. \A j \in Job : rows[j].nextRetryAt \in Nat /\ rows[j].createdAt \in Nat
    BY DEF TypeOK, Row
  <1>2. PICK t \in soonest : \A u \in soonest : t <= u
    BY <1>1, LeastNumber
  <1> DEFINE first == {j \in waiting : rows[j].nextRetryAt = t}
             oldest == {rows[j].createdAt : j \in first}
  <1>3. PICK c \in oldest : \A d \in oldest : c <= d
    <2>1. first # {} /\ oldest \in SUBSET Nat
      BY <1>1
    <2> HIDE DEF first
    <2>2. oldest # {}
      BY <2>1
    <2> QED BY <2>1, <2>2, LeastNumber
  <1>4. PICK j \in first : rows[j].createdAt = c
    BY <1>3
  <1>5. ASSUME NEW k \in waiting, k # j
        PROVE  Before(j, k) /\ ~Before(k, j)
    <2>1. rows[j].nextRetryAt = t /\ t <= rows[k].nextRetryAt
      BY <1>2, <1>4
    <2>2. rows[j].createdAt # rows[k].createdAt
      <3>1. j \in Submitted /\ k \in Submitted
        BY <1>4 DEF Eligible, Submitted
      <3> QED BY <1>5, <3>1 DEF SubmissionsAreOrdered
    <2>3. rows[k].nextRetryAt = t => rows[j].createdAt <= rows[k].createdAt
      BY <1>3, <1>4
    <2>4. /\ rows[j].nextRetryAt \in Nat /\ rows[k].nextRetryAt \in Nat
          /\ rows[j].createdAt \in Nat /\ rows[k].createdAt \in Nat
      BY <1>1, <1>4
    <2> QED BY <2>1, <2>2, <2>3, <2>4 DEF Before
  <1>6. j \in Job /\ Eligible(j) /\ \A k \in Job : Eligible(k) <=> k \in waiting
    BY <1>4
  <1> HIDE DEF waiting
  <1> QED BY <1>5, <1>6 DEF IsNext

\* Whenever some job may be claimed the next poll takes one, and the order of
\* the claim leaves no doubt which.
THEOREM PollFindsJob == Spec => []OneIsNext
  <1>1. Init => SubmissionsAreOrdered
    BY DEF Init, NoRow, Submitted, SubmissionsAreOrdered
  <1>2. TypeOK /\ SubmissionsAreOrdered /\ [Next]_vars => SubmissionsAreOrdered'
    BY OrderIsKept
  <1>3. TypeOK /\ SubmissionsAreOrdered => OneIsNext
    BY OrderGivesNext
  <1> QED BY <1>1, <1>2, <1>3, TypeCorrect, PTL DEF Spec
=============================================================================
