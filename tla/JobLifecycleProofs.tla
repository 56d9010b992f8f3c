------------------------- MODULE JobLifecycleProofs -------------------------
(***************************************************************************)
(* JobQueue implements JobLifecycle: every step of the store, the workers, *)
(* the reclaim loop and the process is a step in the life of the jobs, or  *)
(* changes nothing of it.                                                  *)
(***************************************************************************)
EXTENDS JobQueueProofs

Phases   == [j \in Job |-> Phase(j)]
Attempts == [j \in Job |-> rows[j].attempt]
FlightsF == [j \in Job |-> Flights(j)]

USE DEF NoToken, NoRetry, Leased, Terminal

-----------------------------------------------------------------------------
(* What a step does to the runs in flight                                  *)

\* Nothing, when no worker enters or leaves a run.
LEMMA FlightsKept ==
    ASSUME \A w \in Worker :
              /\ pc'[w] \in InFlight <=> pc[w] \in InFlight
              /\ pc[w] \in InFlight => /\ ctx'[w].job = ctx[w].job
                                       /\ ctx'[w].token = ctx[w].token
    PROVE  FlightsF' = FlightsF
  <1>1. ASSUME NEW j \in Job PROVE Flights(j)' = Flights(j)
    <2>1. ASSUME NEW t PROVE t \in Flights(j)' <=> t \in Flights(j)
      BY DEF Flights
    <2> QED BY <2>1 DEF Flights
  <1> QED BY <1>1 DEF FlightsF

\* The run of a worker that goes idle ends, and no other: no other run holds
\* its token.
LEMMA FlightEnds ==
    ASSUME IInv, NEW w \in Worker, GoIdle(w), NEW j \in Job
    PROVE  Flights(j)' = IF pc[w] \in InFlight /\ ctx[w].job = j
                         THEN Flights(j) \ {ctx[w].token} ELSE Flights(j)
  <1>1. /\ pc'[w] = "idle"
        /\ \A v \in Worker \ {w} : pc'[v] = pc[v] /\ ctx'[v] = ctx[v]
    BY DEF GoIdle, IInv, TypeOK
  <1>2. ASSUME NEW t
        PROVE  t \in Flights(j)' <=>
                 \E v \in Worker \ {w} : /\ pc[v] \in InFlight
                                         /\ ctx[v].job = j /\ ctx[v].token = t
    BY <1>1 DEF Flights, InFlight
  <1>a. ASSUME NEW t
        PROVE  t \in Flights(j) <=>
                 \E v \in Worker : /\ pc[v] \in InFlight
                                   /\ ctx[v].job = j /\ ctx[v].token = t
    BY DEF Flights
  <1>3. CASE pc[w] \in InFlight /\ ctx[w].job = j
    <2>1. \A v \in Worker \ {w} : pc[v] \in InFlight /\ ctx[v].job = j
                                  => ctx[v].token # ctx[w].token
      BY <1>3 DEF IInv, RunsHaveDistinctLeases
    <2>2. ASSUME NEW t
          PROVE  t \in Flights(j)' <=> t \in Flights(j) \ {ctx[w].token}
      <3>1. CASE t = ctx[w].token
        BY <1>2, <2>1, <3>1
      <3>2. CASE t # ctx[w].token
        BY <1>2, <1>a, <3>2
      <3> QED BY <3>1, <3>2
    <2> QED BY <1>3, <2>2 DEF Flights
  <1>4. CASE ~(pc[w] \in InFlight /\ ctx[w].job = j)
    <2>1. ASSUME NEW t PROVE t \in Flights(j)' <=> t \in Flights(j)
      <3>1. \A v \in Worker : pc[v] \in InFlight /\ ctx[v].job = j
                              => v \in Worker \ {w}
        BY <1>4
      <3> QED BY <1>2, <1>a, <3>1
    <2> QED BY <1>4, <2>1 DEF Flights
  <1> QED BY <1>3, <1>4
\* Phase, as an operator on the status.
PhaseOf(st) == CASE st = "claimed"    -> "leased"
                 [] st = "processing" -> "running"
                 [] OTHER             -> st

\* The step writes one row.
Writes(k, row) == rows' = [rows EXCEPT ![k] = row]

\* The only phase that changes is that of job k.
LEMMA PhaseChange ==
    ASSUME TypeOK, NEW k \in Job, NEW row \in Row,
           Writes(k, row),
           NEW p, PhaseOf(row.status) = p
    PROVE  /\ Phases' = [Phases EXCEPT ![k] = p]
           /\ Attempts' = [Attempts EXCEPT ![k] = row.attempt]
           /\ row.attempt = rows[k].attempt => Attempts' = Attempts
  <1>1. rows'[k] = row /\ \A j \in Job \ {k} : rows'[j] = rows[j]
    BY DEF TypeOK, Writes
  <1>2. Phases' = [Phases EXCEPT ![k] = p]
    <2>1. /\ Phase(k)' = p
          /\ \A j \in Job \ {k} : Phase(j)' = Phase(j)
      BY <1>1 DEF Phase, PhaseOf
    <2> QED BY <2>1 DEF Phases
  <1>3. Attempts' = [Attempts EXCEPT ![k] = row.attempt]
    <2>1. \A j \in Job : rows'[j].attempt =
              IF j = k THEN row.attempt ELSE rows[j].attempt
      BY <1>1
    <2> QED BY <2>1 DEF Attempts
  <1>4. row.attempt = rows[k].attempt => Attempts' = Attempts
    BY <1>1 DEF Attempts
  <1> QED BY <1>2, <1>3, <1>4

\* The rows the store writes, field by field.
LEMMA RowFields ==
    ASSUME TypeOK, NEW j \in Job
    PROVE  /\ LeasedRow(j) \in Row /\ LeasedRow(j).status = "claimed"
           /\ LeasedRow(j).attempt = rows[j].attempt + 1
           /\ \A st \in Status : /\ ReleasedRow(j, st) \in Row
                                  /\ ReleasedRow(j, st).status = st
                                  /\ ReleasedRow(j, st).attempt = rows[j].attempt
  <1>1. rows[j] \in Row
    BY RowUpdates
  <1>2. LeasedRow(j).status = "claimed" /\ LeasedRow(j).attempt = rows[j].attempt + 1
    BY <1>1 DEF LeasedRow, Row
  <1>3. ASSUME NEW st \in Status
        PROVE  /\ ReleasedRow(j, st).status = st
               /\ ReleasedRow(j, st).attempt = rows[j].attempt
    BY <1>1 DEF ReleasedRow, Row
  <1> QED BY <1>2, <1>3, RowUpdates

LEMMA NothingChanges ==
    ASSUME rows' = rows
    PROVE  Phases' = Phases /\ Attempts' = Attempts
  BY DEF Phases, Attempts, Phase

\* The run of worker w ends unheard.
LEMMA Unheard ==
    ASSUME IInv, NEW w \in Worker, GoIdle(w), rows' = rows
    PROVE  Lifecycle!Abandon
  <1>1. \A j \in Job : Flights(j)' \subseteq Flights(j)
    BY FlightEnds
  <1>2. Phases' = Phases /\ Attempts' = Attempts
    BY NothingChanges
  <1> QED BY <1>1, <1>2 DEF Lifecycle!Abandon, Phases, Attempts

\* The run of worker w reports, and ends the lease it owns.
LEMMA Heard ==
    ASSUME IInv, NEW w \in Worker, GoIdle(w), pc[w] \in InFlight, OwnsLease(w),
           NEW p \in {"queued", "done", "failed"}, NEW row \in Row,
           row.status = p, row.attempt = rows[ctx[w].job].attempt,
           rows' = [rows EXCEPT ![ctx[w].job] = row]
    PROVE  Lifecycle!Report(ctx[w].job, p)
  <1> DEFINE k == ctx[w].job
  <1>1. TypeOK /\ k \in Job
    BY DEF IInv, TypeOK, InFlight
  <1>2. ctx[w].token = rows[k].attempt /\ rows[k].status = "processing"
    BY <1>1 DEF OwnsLease, IInv, LeaseMatchesStatus, StartedLeaseIsProcessing
  <1>3. Phases[k] = "running" /\ Attempts[k] \in FlightsF[k]
    BY <1>1, <1>2 DEF Phases, Phase, Attempts, FlightsF, Flights
  <1>4. PhaseOf(row.status) = p
    BY DEF PhaseOf
  <1>a. Writes(k, row)
    BY DEF Writes
  <1>5. Phases' = [Phases EXCEPT ![k] = p] /\ Attempts' = Attempts
    BY <1>1, <1>4, <1>a, PhaseChange
  <1>6. FlightsF' = [FlightsF EXCEPT ![k] = @ \ {Attempts[k]}]
    <2>1. \A j \in Job : Flights(j)' = IF j = k THEN Flights(j) \ {rows[k].attempt}
                                                ELSE Flights(j)
      BY <1>2, FlightEnds
    <2> QED BY <1>1, <2>1 DEF FlightsF, Attempts
  <1> QED BY <1>3, <1>5, <1>6
          DEF Lifecycle!Report, Phases, Attempts, FlightsF

-----------------------------------------------------------------------------
(* Every step is a step of the lifecycle                                   *)

LEMMA InitLifecycle == Init => Lifecycle!Init
  <1> SUFFICES ASSUME Init PROVE Lifecycle!Init
    OBVIOUS
  <1>1. \A j \in Job : Phase(j) = "absent" /\ rows[j].attempt = 0
    BY DEF Init, NoRow, Phase
  <1>2. \A j \in Job : Flights(j) = {}
    BY DEF Init, Flights, InFlight
  <1> QED BY <1>1, <1>2 DEF Lifecycle!Init

LEMMA NextLifecycle ==
    IInv /\ [Next]_vars => [Lifecycle!Next]_(Lifecycle!vars)
  <1> SUFFICES ASSUME IInv, [Next]_vars
               PROVE  \/ Lifecycle!Next
                      \/ /\ Phases' = Phases /\ Attempts' = Attempts
                         /\ FlightsF' = FlightsF
    BY DEF Lifecycle!vars, Phases, Attempts, FlightsF
  <1> DEFINE Goal == \/ Lifecycle!Next
                     \/ /\ Phases' = Phases /\ Attempts' = Attempts
                        /\ FlightsF' = FlightsF
  <1>0. /\ TypeOK /\ TypeOK'
        /\ rows \in [Job -> Row] /\ \A j \in Job : rows[j] \in Row
        /\ pc \in [Worker -> Label] /\ ctx \in [Worker -> Context]
        /\ \A w \in Worker : pc[w] # "idle" => ctx[w].job \in Job
        /\ \A w \in Worker : ctx[w] \in Context
    BY NextType DEF IInv, TypeOK
  <1>1. ASSUME NEW j \in Job, Submit(j) PROVE Goal
    <2> DEFINE row == [rows[j] EXCEPT !.status = "queued",
                                      !.createdAt = Cardinality(Submitted) + 1]
    <2>1. rows' = [rows EXCEPT ![j] = row] /\ rows[j].status = "absent"
      BY <1>1 DEF Submit
    <2>2. rows'[j] = row
      BY <1>0, <2>1
    <2>3. row \in Row /\ row.status = "queued" /\ row.attempt = rows[j].attempt
      BY <1>0, <2>2 DEF TypeOK, Row
    <2> HIDE DEF row
    <2>4. Phases[j] = "absent"
      BY <2>1 DEF Phases, Phase
    <2>5. /\ Phases' = [Phases EXCEPT ![j] = "queued"]
          /\ Attempts' = Attempts
      <3>1. PhaseOf(row.status) = "queued"
        BY <2>3 DEF PhaseOf
      <3>2. Writes(j, row)
        BY <2>1 DEF Writes
      <3> QED BY <1>0, <2>3, <3>1, <3>2, PhaseChange
    <2>6. FlightsF' = FlightsF
      BY <1>1, FlightsKept DEF Submit
    <2>7. Lifecycle!Submit(j)
      BY <2>4, <2>5, <2>6 DEF Lifecycle!Submit, Phases, Attempts, FlightsF
    <2> QED BY <2>7 DEF Lifecycle!Next
  <1>2. ASSUME NEW j \in Job, LeaseExpires(j) PROVE Goal
    <2>1. /\ rows' = [rows EXCEPT ![j].leaseExpired = TRUE]
          /\ UNCHANGED <<pc, ctx>>
      BY <1>2 DEF LeaseExpires
    <2>2. \A k \in Job : /\ rows'[k].status = rows[k].status
                         /\ rows'[k].attempt = rows[k].attempt
      BY <1>0, <2>1 DEF Row
    <2>3. Phases' = Phases /\ Attempts' = Attempts
      BY <2>2 DEF Phases, Attempts, Phase
    <2> QED BY <2>1, <2>3, FlightsKept
  <1>3. ASSUME NEW w \in Worker, Claim(w) PROVE Goal
    <2>1. PICK j \in Job : /\ IsNext(j) /\ rows' = [rows EXCEPT ![j] = LeasedRow(j)]
                           /\ ctx' = [ctx EXCEPT ![w].job = j]
      BY <1>3 DEF Claim
    <2>2. pc[w] = "idle" /\ pc' = [pc EXCEPT ![w] = "claimed"]
      BY <1>3 DEF Claim
    <2>3. /\ LeasedRow(j) \in Row /\ LeasedRow(j).status = "claimed"
          /\ LeasedRow(j).attempt = rows[j].attempt + 1
      BY <1>0, RowFields
    <2>4. Phases[j] = "queued"
      BY <2>1 DEF IsNext, Eligible, Phases, Phase
    <2>5. PhaseOf(LeasedRow(j).status) = "leased"
      BY <2>3 DEF PhaseOf
    <2>6. /\ Phases' = [Phases EXCEPT ![j] = "leased"]
          /\ Attempts' = [Attempts EXCEPT ![j] = @ + 1]
      <3>1. Writes(j, LeasedRow(j))
        BY <2>1 DEF Writes
      <3>2. Phases' = [Phases EXCEPT ![j] = "leased"]
        BY <1>0, <2>3, <2>5, <3>1, PhaseChange
      <3>3. Attempts' = [Attempts EXCEPT ![j] = rows[j].attempt + 1]
        BY <1>0, <2>3, <2>5, <3>1, PhaseChange
      <3> QED BY <3>2, <3>3 DEF Attempts
    <2>7. FlightsF' = FlightsF
      BY <1>0, <2>1, <2>2, FlightsKept DEF InFlight
    <2>8. Lifecycle!Lease(j)
      BY <2>4, <2>6, <2>7 DEF Lifecycle!Lease, Phases, Attempts, FlightsF
    <2> QED BY <2>8 DEF Lifecycle!Next
  <1>4. ASSUME NEW w \in Worker, LoadJob(w) PROVE Goal
    <2>1. /\ rows' = rows /\ pc[w] = "claimed"
          /\ \E l \in {"idle", "starting", "exceeded"} : pc' = [pc EXCEPT ![w] = l]
          /\ \E c : ctx' = [ctx EXCEPT ![w] = c]
      BY <1>4 DEF LoadJob, GoIdle, storeVars
    <2>2. FlightsF' = FlightsF
      BY <1>0, <2>1, FlightsKept DEF InFlight
    <2> QED BY <2>1, <2>2, NothingChanges
  <1>5. ASSUME NEW w \in Worker, MarkProcessing(w) PROVE Goal
    <2> DEFINE k == ctx[w].job
    <2>1. pc[w] = "starting" /\ k \in Job
      BY <1>0, <1>5 DEF MarkProcessing
    <2>2. CASE CanStart(w) /\ GoTo(w, "running") /\
               rows' = [rows EXCEPT ![k].status = "processing"]
      <3> DEFINE row == [rows[k] EXCEPT !.status = "processing"]
      <3>1. /\ row \in Row /\ row.status = "processing"
            /\ row.attempt = rows[k].attempt
        BY <1>0, <2>1 DEF Row, Status
      <3>a. rows' = [rows EXCEPT ![k] = row]
        BY <2>2
      <3> HIDE DEF row
      <3>2. /\ Phases' = [Phases EXCEPT ![k] = "running"]
            /\ Attempts' = Attempts
        <4>1. PhaseOf(row.status) = "running"
          BY <3>1 DEF PhaseOf
        <4>2. Writes(k, row)
          BY <3>a DEF Writes
        <4> QED BY <1>0, <2>1, <3>1, <4>1, <4>2, PhaseChange
      <3>3. Phases[k] = "leased" /\ ctx[w].token = rows[k].attempt
        BY <2>1, <2>2 DEF CanStart, Phases, Phase, IInv, LeaseMatchesStatus
      <3>4. rows[k].attempt <= MaxAttempts
        BY <2>1, <3>3
           DEF IInv, AttemptsAreChecked, TokensAreIssued, Holding
      <3>5. ctx' = ctx /\ pc' = [pc EXCEPT ![w] = "running"]
        BY <2>2 DEF GoTo
      <3>6. ASSUME NEW j \in Job
            PROVE  Flights(j)' = IF j = k THEN Flights(j) \cup {rows[k].attempt}
                                          ELSE Flights(j)
        <4>1. ASSUME NEW t
              PROVE  t \in Flights(j)' <=>
                        t \in Flights(j) \/ (j = k /\ t = rows[k].attempt)
          BY <1>0, <2>1, <3>3, <3>5 DEF Flights, InFlight
        <4> QED BY <4>1 DEF Flights
      <3>7. FlightsF' = [FlightsF EXCEPT ![k] = @ \cup {Attempts[k]}]
        BY <2>1, <3>6 DEF FlightsF, Attempts
      <3>8. Lifecycle!Launch(k)
        BY <2>1, <3>2, <3>3, <3>4, <3>7
           DEF Lifecycle!Launch, Phases, Attempts, FlightsF
      <3> QED BY <2>1, <3>8 DEF Lifecycle!Next
    <2>3. CASE GoIdle(w) /\ rows' = rows
      BY <2>3, Unheard DEF Lifecycle!Next
    <2> QED BY <1>5, <2>2, <2>3 DEF MarkProcessing
  <1>6. ASSUME NEW w \in Worker, PipelineSucceeds(w) PROVE Goal
    <2>1. /\ rows' = rows /\ ctx' = ctx /\ pc' = [pc EXCEPT ![w] = "saved"]
          /\ pc[w] = "running"
      BY <1>6 DEF PipelineSucceeds, GoTo
    <2> QED BY <1>0, <2>1, FlightsKept, NothingChanges DEF InFlight
  <1>7. ASSUME NEW w \in Worker, WriteFails(w) \/ DatabaseFails(w) PROVE Goal
    <2>1. GoIdle(w) /\ rows' = rows
      BY <1>7 DEF WriteFails, DatabaseFails, storeVars
    <2> QED BY <2>1, Unheard DEF Lifecycle!Next
  <1>8. ASSUME NEW w \in Worker, NEW e \in PipelineError \cup {TransientError},
               PipelineRaises(w, e)
        PROVE Goal
    <2>1. /\ rows' = rows /\ pc[w] = "running"
          /\ \E l \in {"deferring", "failing"} : pc' = [pc EXCEPT ![w] = l]
      BY <1>8 DEF PipelineRaises, storeVars
    <2>2. /\ \A v \in Worker \ {w} : ctx'[v] = ctx[v]
          /\ ctx'[w].job = ctx[w].job /\ ctx'[w].token = ctx[w].token
      <3>1. CASE ctx' = [ctx EXCEPT ![w].error = e]
        BY <1>0, <3>1 DEF Context
      <3>2. CASE ctx' = [ctx EXCEPT ![w].error = e, ![w].retryAt = retryClock + 1]
        BY <1>0, <3>2 DEF Context
      <3> QED BY <1>8, <3>1, <3>2 DEF PipelineRaises
    <2>3. FlightsF' = FlightsF
      BY <1>0, <2>1, <2>2, FlightsKept DEF InFlight
    <2> QED BY <2>1, <2>3, NothingChanges
  <1>9. ASSUME NEW w \in Worker, MarkDone(w) PROVE Goal
    <2> DEFINE k == ctx[w].job
    <2>1. pc[w] \in InFlight /\ GoIdle(w) /\ k \in Job
      BY <1>0, <1>9 DEF MarkDone, InFlight
    <2>2. CASE CanFinish(w)
      <3>1. /\ ReleasedRow(k, "done") \in Row
            /\ ReleasedRow(k, "done").status = "done"
            /\ ReleasedRow(k, "done").attempt = rows[k].attempt
        BY <1>0, <2>1, RowFields DEF Status
      <3>2. OwnsLease(w) /\ rows' = [rows EXCEPT ![k] = ReleasedRow(k, "done")]
        BY <1>9, <2>2 DEF MarkDone, CanFinish, OwnsLease
      <3>3. Lifecycle!Report(k, "done")
        BY <2>1, <3>1, <3>2, Heard
      <3> QED BY <2>1, <3>3 DEF Lifecycle!Next, Lifecycle!Succeed
    <2>3. CASE ~CanFinish(w)
      BY <1>9, <2>1, <2>3, Unheard DEF MarkDone, Lifecycle!Next
    <2> QED BY <2>2, <2>3
  <1>10. ASSUME NEW w \in Worker, DeferRetry(w) PROVE Goal
    <2> DEFINE k == ctx[w].job
    <2>1. pc[w] = "deferring" /\ pc[w] \in InFlight /\ k \in Job
      BY <1>0, <1>10 DEF DeferRetry, InFlight
    <2>2. CASE OwnsLease(w)
      <3> DEFINE released == ReleasedRow(k, "queued")
                 row == [released EXCEPT !.nextRetryAt = ctx[w].retryAt]
      <3>1. /\ released \in Row /\ released.status = "queued"
            /\ released.attempt = rows[k].attempt
        BY <1>0, <2>1, RowFields DEF Status
      <3>2. rows' = [rows EXCEPT ![k] = row] /\ GoIdle(w)
        BY <1>10, <2>2 DEF DeferRetry
      <3> HIDE DEF released
      <3>3. /\ row \in Row /\ row.status = "queued"
            /\ row.attempt = rows[k].attempt
        BY <1>0, <3>1 DEF Row, Context
      <3> HIDE DEF row
      <3>4. Lifecycle!Report(k, "queued")
        BY <2>1, <2>2, <3>2, <3>3, Heard
      <3>5. rows[k].attempt < MaxAttempts
        BY <2>1, <2>2 DEF IInv, DecisionsAreKept, DecisionIsKept, CanRetry,
              OwnsLease, LeaseMatchesStatus, TokensAreIssued, Holding
      <3>6. Lifecycle!Retry(k)
        BY <2>1, <3>4, <3>5 DEF Lifecycle!Retry
      <3> QED BY <2>1, <3>6 DEF Lifecycle!Next
    <2>3. CASE ~OwnsLease(w)
      <3>1. /\ rows' = rows /\ ctx' = ctx
            /\ pc' = [pc EXCEPT ![w] = "failing"]
        BY <1>10, <2>3 DEF DeferRetry, GoTo
      <3> QED BY <1>0, <2>1, <3>1, FlightsKept, NothingChanges DEF InFlight
    <2> QED BY <2>2, <2>3
  <1>11. ASSUME NEW w \in Worker, MarkFailed(w) PROVE Goal
    <2> DEFINE k == ctx[w].job
               released == ReleasedRow(k, "failed")
               row == [released EXCEPT !.error = ctx[w].error]
    <2>1. pc[w] \in {"exceeded", "failing"} /\ GoIdle(w) /\ k \in Job
      BY <1>0, <1>11 DEF MarkFailed
    <2>2. CASE ~OwnsLease(w)
      BY <1>11, <2>1, <2>2, Unheard DEF MarkFailed, Lifecycle!Next
    <2>3. CASE OwnsLease(w)
      <3>1. /\ released \in Row /\ released.status = "failed"
            /\ released.attempt = rows[k].attempt
        BY <1>0, <2>1, RowFields DEF Status
      <3>2. rows' = [rows EXCEPT ![k] = row]
        BY <1>11, <2>3 DEF MarkFailed
      <3> HIDE DEF released
      <3>3. /\ row \in Row /\ row.status = "failed"
            /\ row.attempt = rows[k].attempt
        BY <1>0, <3>1 DEF Row, Context
      <3> HIDE DEF row
      <3>4. CASE pc[w] = "failing"
        <4>1. Lifecycle!Report(k, "failed")
          BY <2>1, <2>3, <3>2, <3>3, <3>4, Heard DEF InFlight
        <4> QED BY <2>1, <4>1 DEF Lifecycle!Next, Lifecycle!Fail
      <3>5. CASE pc[w] = "exceeded"
        <4>1. rows[k].attempt > MaxAttempts
          BY <2>1, <2>3, <3>5 DEF IInv, AttemptsAreChecked, TokensAreIssued,
                OwnsLease, LeaseMatchesStatus, Holding
        <4>2. rows[k].status = "claimed"
          BY <1>0, <2>1, <2>3, <4>1, BoundAssumption
             DEF OwnsLease, IInv, AttemptsAreChecked, Row
        <4>3. Phases[k] = "leased"
          BY <2>1, <4>2 DEF Phases, Phase
        <4>4. /\ Phases' = [Phases EXCEPT ![k] = "failed"]
              /\ Attempts' = Attempts
          <5>1. PhaseOf(row.status) = "failed"
            BY <3>3 DEF PhaseOf
          <5>2. Writes(k, row)
            BY <3>2 DEF Writes
          <5> QED BY <1>0, <2>1, <3>3, <5>1, <5>2, PhaseChange
        <4>5. FlightsF' = FlightsF
          BY <2>1, <3>5, FlightEnds DEF FlightsF, InFlight
        <4>6. Lifecycle!GiveUp(k)
          BY <2>1, <4>1, <4>3, <4>4, <4>5
             DEF Lifecycle!GiveUp, Phases, Attempts, FlightsF
        <4> QED BY <2>1, <4>6 DEF Lifecycle!Next
      <3> QED BY <2>1, <3>4, <3>5
    <2> QED BY <2>2, <2>3
  <1>13. CASE Reclaim
    <2> DEFINE S == {j \in Job : Expired(j)}
    <2>1. /\ UNCHANGED <<pc, ctx>>
          /\ rows' = [j \in Job |-> IF Expired(j) THEN ReleasedRow(j, "queued")
                                                  ELSE rows[j]]
      BY <1>13 DEF Reclaim
    <2>2. FlightsF' = FlightsF
      BY <2>1, FlightsKept
    <2>3. \A j \in Job : /\ ReleasedRow(j, "queued").status = "queued"
                         /\ ReleasedRow(j, "queued").attempt = rows[j].attempt
      BY <1>0 DEF ReleasedRow, Row
    <2>a. \A j \in Job : /\ Expired(j) => rows'[j] = ReleasedRow(j, "queued")
                         /\ ~Expired(j) => rows'[j] = rows[j]
      BY <2>1
    <2>4. /\ Phases' = [j \in Job |-> IF j \in S THEN "queued" ELSE Phases[j]]
          /\ Attempts' = Attempts
      BY <2>a, <2>3 DEF Phases, Attempts, Phase
    <2>5. \A j \in S : Phases[j] \in {"leased", "running"}
      BY DEF Expired, Phases, Phase
    <2>6. Lifecycle!Expire(S)
      BY <2>2, <2>4, <2>5 DEF Lifecycle!Expire, Phases, Attempts, FlightsF
    <2> QED BY <2>6 DEF Lifecycle!Next
  <1>14. CASE ErrorRateTick
    BY <1>14, FlightsKept, NothingChanges DEF ErrorRateTick, storeVars
  <1>15. CASE RetryDue
    BY <1>15, FlightsKept, NothingChanges DEF RetryDue, storeVars
  <1>16. CASE Crash
    <2>1. rows' = rows /\ \A w \in Worker : pc'[w] = "idle"
      BY <1>16 DEF Crash
    <2>2. \A j \in Job : Flights(j)' = {}
      BY <2>1 DEF Flights, InFlight
    <2>3. Phases' = Phases /\ Attempts' = Attempts
      BY <2>1, NothingChanges
    <2>4. Lifecycle!Abandon
      BY <2>2, <2>3 DEF Lifecycle!Abandon, Phases, Attempts
    <2> QED BY <2>4 DEF Lifecycle!Next
  <1>17. CASE Restart
    BY <1>17, FlightsKept, NothingChanges DEF Restart, storeVars
  <1>18. CASE UNCHANGED vars
    BY <1>18, FlightsKept, NothingChanges DEF vars
  <1> QED
    BY <1>1, <1>2, <1>3, <1>4, <1>5, <1>6, <1>7, <1>8, <1>9, <1>10, <1>11,
       <1>13, <1>14, <1>15, <1>16, <1>17, <1>18
       DEF Next, WorkerStep, PipelineEnds, PollIdle

\* The queue keeps the promise of JobLifecycle: whatever expires, crashes or
\* reports late, only the run of the current lease is heard, a lease starts at
\* most one run, and no run starts past max_attempts.
THEOREM Refinement == Spec => ImplementsLifecycle
  <1>1. Init => Lifecycle!Init
    BY InitLifecycle
  <1>2. IInv /\ [Next]_vars => [Lifecycle!Next]_(Lifecycle!vars)
    BY NextLifecycle
  <1> QED BY <1>1, <1>2, Invariance, PTL
          DEF Spec, ImplementsLifecycle, Lifecycle!Spec

-----------------------------------------------------------------------------
(* JobQueue implements the worker's part of TranscriptLifecycle            *)

\* No step writes both the row and the file of a job.
LEMMA RowOrFile == [Next]_vars => rows' = rows \/ file' = file
  BY DEF Next, vars, Submit, LeaseExpires, WorkerStep, Claim, LoadJob,
         MarkProcessing, PipelineEnds, PipelineSucceeds, WriteFails,
         PipelineRaises, MarkDone, DeferRetry, MarkFailed, PollIdle,
         DatabaseFails, Reclaim, ErrorRateTick, RetryDue, Crash, Restart,
         storeVars

LEMMA InitTranscript ==
    ASSUME Init, NEW j \in Job
    PROVE  Transcript(j)!Init
  <1>1. Outcome(j) = "open" /\ file[j] = "none"
    BY DEF Init, NoRow, Outcome
  <1> QED BY <1>1 DEF Transcript!Init

LEMMA NextTranscript ==
    ASSUME IInv, IInv', [Next]_vars, NEW j \in Job
    PROVE  Transcript(j)!Next \/ UNCHANGED Transcript(j)!vars
  <1>1. TypeOK /\ rows[j].status \in Status
    BY DEF IInv, TypeOK, Row
  <1>2. CASE file' = file /\ Outcome(j)' = Outcome(j)
    BY <1>2 DEF Transcript!vars
  <1>3. CASE file' = file /\ Outcome(j)' # Outcome(j)
    <2>1. Releases(j) /\ Outcome(j) = "open" /\ Outcome(j)' \in Terminal
      BY <1>1, <1>3, RowSteps
         DEF RowStep, Submits, Leases, Starts, Releases, Expires, Outcome
    <2>2. CASE Outcome(j)' = "done"
      <3>1. file[j] # "none"
        BY <1>3, <2>2 DEF IInv, OnlyStaleRunsDamage, Outcome
      <3>2. Transcript(j)!Finish
        BY <1>3, <2>1, <2>2, <3>1 DEF Transcript!Finish
      <3> QED BY <3>2 DEF Transcript!Next
    <2>3. CASE Outcome(j)' = "failed"
      <3>1. Transcript(j)!Fail
        BY <1>3, <2>1, <2>3 DEF Transcript!Fail
      <3> QED BY <3>1 DEF Transcript!Next
    <2> QED BY <2>1, <2>2, <2>3
  <1>4. CASE rows' = rows
    <2>1. Outcome(j)' = Outcome(j)
      BY <1>4 DEF Outcome
    <2>2. CASE file[j] = "none" /\ file'[j] # "none"
      <3>1. Transcript(j)!Write
        BY <2>1, <2>2 DEF Transcript!Write
      <3> QED BY <3>1 DEF Transcript!Next
    <2>3. CASE ~(file[j] = "none" /\ file'[j] # "none")
      <3>1. file'[j] = "none" <=> file[j] = "none"
        BY <1>1, <2>3, FilesStay
      <3> QED BY <2>1, <3>1 DEF Transcript!vars
    <2> QED BY <2>2, <2>3
  <1> QED BY <1>2, <1>3, <1>4, RowOrFile

\* Of each of its jobs the queue does to the clients what TranscriptLifecycle
\* lets a worker do, and what Transcripts assumes of one: the text is written
\* at any time, also by a run that lost its lease (worker.py:207); the job
\* becomes DONE once, with the text there; and neither DONE nor FAILED is
\* undone, whichever workers, leases, reclaims and crashes there are.
THEOREM TranscriptRefinement ==
    ASSUME NEW j \in Job
    PROVE  Spec => Transcript(j)!Spec
  <1>1. Init => Transcript(j)!Init
    BY InitTranscript
  <1>2. IInv /\ IInv' /\ [Next]_vars
        => [Transcript(j)!Next]_(Transcript(j)!vars)
    BY NextTranscript
  <1> QED BY <1>1, <1>2, Invariance, PTL DEF Spec, Transcript!Spec
=============================================================================
