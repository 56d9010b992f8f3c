---------------------------- MODULE JobLifecycle ----------------------------
(***************************************************************************)
(* What the queue promises of a job, without workers, tokens and clocks.   *)
(*                                                                         *)
(* A job is leased again and again until it is done or failed.  A lease    *)
(* may end without a word (its holder died, or was slow), and the run it   *)
(* started may outlive it: `flights` holds the runs that may still report. *)
(* Only the run of the current lease is listened to, the pipeline starts   *)
(* at most once per lease and never past MaxAttempts leases, and a         *)
(* finished job stays as it is.                                            *)
(***************************************************************************)
EXTENDS Naturals

CONSTANTS Job, MaxAttempts

VARIABLES
    phase,     \* absent, queued, leased, running, done or failed
    attempts,  \* leases granted so far
    flights    \* the attempts whose pipeline run has not reported yet

vars == <<phase, attempts, flights>>

Init ==
    /\ phase    = [j \in Job |-> "absent"]
    /\ attempts = [j \in Job |-> 0]
    /\ flights  = [j \in Job |-> {}]

\* The run of the current lease reports, and the job moves to phase p.
Report(j, p) ==
    /\ phase[j] = "running" /\ attempts[j] \in flights[j]
    /\ phase'   = [phase EXCEPT ![j] = p]
    /\ flights' = [flights EXCEPT ![j] = @ \ {attempts[j]}]
    /\ UNCHANGED attempts

Submit(j) ==
    /\ phase[j] = "absent"
    /\ phase' = [phase EXCEPT ![j] = "queued"]
    /\ UNCHANGED <<attempts, flights>>

Lease(j) ==
    /\ phase[j] = "queued"
    /\ phase'    = [phase EXCEPT ![j] = "leased"]
    /\ attempts' = [attempts EXCEPT ![j] = @ + 1]
    /\ UNCHANGED flights

Launch(j) ==
    /\ phase[j] = "leased" /\ attempts[j] <= MaxAttempts
    /\ phase'   = [phase EXCEPT ![j] = "running"]
    /\ flights' = [flights EXCEPT ![j] = @ \cup {attempts[j]}]
    /\ UNCHANGED attempts

Succeed(j) == Report(j, "done")
Fail(j)    == Report(j, "failed")
Retry(j)   == attempts[j] < MaxAttempts /\ Report(j, "queued")

\* Too many leases ended without a word.
GiveUp(j) ==
    /\ phase[j] = "leased" /\ attempts[j] > MaxAttempts
    /\ phase' = [phase EXCEPT ![j] = "failed"]
    /\ UNCHANGED <<attempts, flights>>

\* Leases end without a word.
Expire(S) ==
    /\ \A j \in S : phase[j] \in {"leased", "running"}
    /\ phase' = [j \in Job |-> IF j \in S THEN "queued" ELSE phase[j]]
    /\ UNCHANGED <<attempts, flights>>

\* Runs end without being heard.
Abandon ==
    /\ \A j \in Job : flights'[j] \subseteq flights[j]
    /\ DOMAIN flights' = Job
    /\ UNCHANGED <<phase, attempts>>

Next ==
    \/ \E j \in Job :
          \/ Submit(j) \/ Lease(j) \/ Launch(j)
          \/ Succeed(j) \/ Fail(j) \/ Retry(j) \/ GiveUp(j)
    \/ \E S \in SUBSET Job : Expire(S)
    \/ Abandon

Spec == Init /\ [][Next]_vars
=============================================================================
