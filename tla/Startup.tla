------------------------------- MODULE Startup -------------------------------
(***************************************************************************)
(* From launchd to a service that answers: the readiness probe, the schema *)
(* migration of JobStore.init, the claim loops and the HTTP server, and    *)
(* their end (app.py, queue/store.py, the launchd plist).                  *)
(*                                                                         *)
(* Processes meet in two places: the database they migrate and the port    *)
(* they bind.  launchd keeps one process alive; an operator may run others *)
(* by hand, and an old process may still be running.  A step is one        *)
(* statement of SQLite, each committed by itself (DDL opens no             *)
(* transaction), or one call that may fail.                                *)
(***************************************************************************)
EXTENDS Naturals

\* A definition whose name extends that of the one after it is a variant with
\* a plausible bug: the properties are also checked to fail for the variants.

CONSTANTS
    Process,   \* processes that may run the service
    Daemon,    \* the one that launchd starts again whenever it ends
    MaxFaults  \* bound: kills, and database calls that raise

ASSUME ProcessAssumption == Daemon \in Process
ASSUME BoundAssumption == MaxFaults \in Nat

\* The columns that were added to the table later, in the order in which init
\* adds them: next_retry_at, then acked_at.
NextRetryAt == 1
AckedAt     == 2
Added       == {NextRetryAt, AckedAt}

VARIABLES
    table,    \* does the table `jobs` exist?
    columns,  \* those of Added that it has
    gateway,  \* does the STT gateway answer GET /models?
    pc,       \* where each process stands in main
    todo,     \* columns that init is going to add
    lost,     \* history: ALTERs of a process that raised, per column
    faults    \* kills and failed calls so far

dbVars == <<table, columns>>
vars == <<table, columns, gateway, pc, todo, lost, faults>>

\* A process's place in main and _run:
\*   down        not running
\*   probing     in _startup_probe
\*   creating    about to CREATE TABLE IF NOT EXISTS
\*   inspecting  about to read PRAGMA table_info
\*   altering    about to add the next column, or done with init
\*   starting    the claim loops run and the server is about to bind
\*   serving     the server answers
\*   stopping    the finally clause stops the claim loops
Label == {"down", "probing", "creating", "inspecting", "altering",
          "starting", "serving", "stopping"}

\* The claim loops run.
Running == {p \in Process : pc[p] \in {"starting", "serving", "stopping"}}
Serving == {p \in Process : pc[p] = "serving"}

GoTo(p, label) == pc' = [pc EXCEPT ![p] = label]

-----------------------------------------------------------------------------
\* The database is new, or of a version that had fewer columns.
Init ==
    /\ \/ table = FALSE /\ columns = {}
       \/ table = TRUE /\ columns \in {{}, {NextRetryAt}, Added}
    /\ gateway \in BOOLEAN
    /\ pc = [p \in Process |-> "down"]
    /\ todo = [p \in Process |-> {}]
    /\ lost = [p \in Process |-> [c \in Added |-> 0]]
    /\ faults = 0

\* launchd starts its process whenever it has ended, whatever its exit code:
\* KeepAlive is true.  An operator starts others.
Start(p) ==
    /\ pc[p] = "down"
    /\ GoTo(p, "probing")
    /\ UNCHANGED <<dbVars, gateway, todo, lost, faults>>

\* The engine is ready, or the process exits with 78 before it has touched
\* the database.
Probe(p) ==
    /\ pc[p] = "probing"
    /\ GoTo(p, IF gateway THEN "creating" ELSE "down")
    /\ UNCHANGED <<dbVars, gateway, todo, lost, faults>>

\* CREATE TABLE IF NOT EXISTS: a new table has all columns.
CreateTable(p) ==
    /\ pc[p] = "creating"
    /\ table' = TRUE
    /\ columns' = IF table THEN columns ELSE Added
    /\ GoTo(p, "inspecting")
    /\ UNCHANGED <<gateway, todo, lost, faults>>

\* PRAGMA table_info.  What follows acts on these columns.
MissingUnchecked == Added
MissingButLast == (Added \ columns) \ {AckedAt}
Missing == Added \ columns
InspectColumns(p) ==
    /\ pc[p] = "inspecting"
    /\ todo' = [todo EXCEPT ![p] = Missing]
    /\ GoTo(p, "altering")
    /\ UNCHANGED <<dbVars, gateway, lost, faults>>

\* ALTER TABLE ADD COLUMN, which raises if the table has the column by now:
\* init is not repeated, and the process exits.
AddColumn(p, c) ==
    /\ pc[p] = "altering"
    /\ c \in todo[p] /\ \A d \in todo[p] : c <= d
    /\ \/ /\ c \notin columns
          /\ columns' = columns \cup {c}
          /\ todo' = [todo EXCEPT ![p] = @ \ {c}]
          /\ UNCHANGED <<pc, lost>>
       \/ /\ c \in columns
          /\ todo' = [todo EXCEPT ![p] = {}]
          /\ lost' = [lost EXCEPT ![p][c] = @ + 1]
          /\ GoTo(p, "down")
          /\ UNCHANGED columns
    /\ UNCHANGED <<table, gateway, faults>>

\* init returns; the claim loops are started before the server.
StartLoopsEarly(p) ==
    /\ pc[p] = "altering"
    /\ GoTo(p, "starting")
    /\ UNCHANGED <<dbVars, gateway, todo, lost, faults>>
StartLoops(p) ==
    /\ pc[p] = "altering" /\ todo[p] = {}
    /\ GoTo(p, "starting")
    /\ UNCHANGED <<dbVars, gateway, todo, lost, faults>>

\* The server binds the port, or exits because another one has it.
Bind(p) ==
    /\ pc[p] = "starting"
    /\ GoTo(p, IF Serving = {} THEN "serving" ELSE "stopping")
    /\ UNCHANGED <<dbVars, gateway, todo, lost, faults>>

\* SIGTERM or SIGINT: the server shuts down and raises the signal once more.
\* A SIGTERM then ends the process, and a SIGINT reaches the finally clause.
Terminate(p) ==
    /\ pc[p] = "serving"
    /\ \E label \in {"stopping", "down"} : GoTo(p, label)
    /\ UNCHANGED <<dbVars, gateway, todo, lost, faults>>

\* The loops have been cancelled and awaited, and the process exits.
ExitUncancelled(p) == pc[p] = "stopping" /\ UNCHANGED vars
Exit(p) ==
    /\ pc[p] = "stopping"
    /\ GoTo(p, "down")
    /\ UNCHANGED <<dbVars, gateway, todo, lost, faults>>

\* The process is killed, or a database call of init raises (busy, disk).
Dies(p) ==
    /\ pc[p] # "down" /\ faults < MaxFaults
    /\ faults' = faults + 1
    /\ GoTo(p, "down")
    /\ todo' = [todo EXCEPT ![p] = {}]
    /\ UNCHANGED <<dbVars, gateway, lost>>

GatewayChanges ==
    /\ gateway' = ~gateway
    /\ UNCHANGED <<dbVars, pc, todo, lost, faults>>

\* What a process does by itself once it has been started.
Proceed(p) ==
    \/ Probe(p)
    \/ CreateTable(p)
    \/ InspectColumns(p)
    \/ \E c \in Added : AddColumn(p, c)
    \/ StartLoops(p)
    \/ Bind(p)
    \/ Exit(p)

Next ==
    \/ \E p \in Process : Start(p) \/ Proceed(p) \/ Terminate(p) \/ Dies(p)
    \/ GatewayChanges

Spec == Init /\ [][Next]_vars

\* Every step of a process is bounded by a timeout or short, and launchd
\* restarts its own.  Nothing is assumed of operators and of the gateway.
Fairness ==
    /\ \A p \in Process : WF_vars(Proceed(p))
    /\ WF_vars(Start(Daemon))

FairSpec == Spec /\ Fairness

-----------------------------------------------------------------------------
(* Properties                                                              *)

\* Every variable has its type.
TypeOK ==
    /\ table \in BOOLEAN /\ columns \subseteq Added /\ gateway \in BOOLEAN
    /\ pc \in [Process -> Label]
    /\ todo \in [Process -> SUBSET Added]
    /\ \A p \in Process : pc[p] # "altering" => todo[p] = {}
    /\ lost \in [Process -> [Added -> Nat]]
    /\ faults \in Nat

\* Where claim loops run the table has all its columns, although each ALTER
\* is committed by itself: whoever else migrates the same database, and
\* whoever was killed between two of its ALTERs.
RunningHasSchema == Running # {} => table /\ columns = Added

\* A process loses the race for a column at most once: the start that follows
\* sees the column.  Losing a race costs a restart and never the service.
NoRaceLostTwice ==
    \A p \in Process, c \in Added : lost[p][c] <= 1

\* If the gateway answers from some time on, the service answers again and
\* again, whatever the database looked like at first, whoever else migrates
\* it or takes the port, and after any finite number of kills.  The restarts
\* that JobQueue assumes do come.
ServiceComesBack == <>[]gateway => []<>(Serving # {})
=============================================================================
