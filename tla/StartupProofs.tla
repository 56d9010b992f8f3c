--------------------------- MODULE StartupProofs ---------------------------
(***************************************************************************)
(* Proofs about Startup, for any number of processes and of faults.        *)
(***************************************************************************)
EXTENDS Startup, TLAPS

USE DEF NextRetryAt, AckedAt, Added

\* Past CREATE TABLE there is a table.
CreatedTable ==
    \A p \in Process : pc[p] \notin {"down", "probing", "creating"} => table

\* A process that has read the columns knows all that are still missing,
\* though others may have added some of them since.
TodoCoversMissing ==
    \A p \in Process : pc[p] = "altering" => Added \subseteq columns \cup todo[p]

\* Who has lost the race for a column once never wants to add it again.
LosersKnowBetter ==
    \A p \in Process, c \in Added :
        \/ lost[p][c] = 0
        \/ lost[p][c] = 1 /\ c \in columns /\ c \notin todo[p]

IInv ==
    /\ TypeOK
    /\ CreatedTable
    /\ TodoCoversMissing
    /\ RunningHasSchema
    /\ LosersKnowBetter

LEMMA InitIInv == Init => IInv
  <1> SUFFICES ASSUME Init PROVE IInv
    OBVIOUS
  <1>1. TypeOK
    BY DEF Init, TypeOK, Label
  <1>2. Running = {}
    BY DEF Init, Running
  <1> QED BY <1>1, <1>2 DEF IInv, Init, CreatedTable, TodoCoversMissing,
                            RunningHasSchema, LosersKnowBetter

-----------------------------------------------------------------------------
(* What the steps have in common                                           *)

\* A process moves to a label.
LEMMA Moves ==
    ASSUME TypeOK, NEW p \in Process, NEW l \in Label, GoTo(p, l)
    PROVE  /\ pc' \in [Process -> Label] /\ pc'[p] = l
           /\ \A q \in Process \ {p} : pc'[q] = pc[q]
  BY DEF TypeOK, GoTo

\* The database only grows.
LEMMA SchemaGrows ==
    TypeOK /\ [Next]_vars =>
        /\ table => table'
        /\ columns \subseteq columns' /\ columns' \subseteq Added
  <1> SUFFICES ASSUME TypeOK, [Next]_vars
               PROVE  /\ table => table'
                      /\ columns \subseteq columns' /\ columns' \subseteq Added
    OBVIOUS
  <1>1. ASSUME NEW p \in Process, CreateTable(p)
        PROVE  table' /\ columns \subseteq columns' /\ columns' \subseteq Added
    BY <1>1 DEF CreateTable, TypeOK
  <1>2. ASSUME NEW p \in Process, NEW c \in Added, AddColumn(p, c)
        PROVE  /\ table' = table
               /\ columns \subseteq columns' /\ columns' \subseteq Added
    BY <1>2 DEF AddColumn, TypeOK
  <1>3. ASSUME NEW p \in Process,
               Start(p) \/ Probe(p) \/ InspectColumns(p) \/ StartLoops(p)
               \/ Bind(p) \/ Terminate(p) \/ Exit(p) \/ Dies(p)
        PROVE  table' = table /\ columns' = columns
    BY <1>3 DEF Start, Probe, InspectColumns, StartLoops, Bind, Terminate, Exit,
                Dies, dbVars
  <1>4. CASE GatewayChanges \/ UNCHANGED vars
    BY <1>4 DEF GatewayChanges, vars, dbVars, TypeOK
  <1> QED BY <1>1, <1>2, <1>3, <1>4 DEF Next, Proceed, TypeOK

\* One process acts at a time: the others keep their place, what they mean to
\* add and what they have lost.
ActsAlone(p) ==
    /\ pc' \in [Process -> Label]
    /\ todo' \in [Process -> SUBSET Added]
    /\ lost' \in [Process -> [Added -> Nat]]
    /\ \A q \in Process \ {p} : /\ pc'[q] = pc[q] /\ todo'[q] = todo[q]
                                /\ lost'[q] = lost[q]

\* What process p does, as far as the schema goes.
SchemaStep(p) ==
    \/ /\ pc'[p] \in {"down", "probing", "creating"}
       /\ todo'[p] = {} /\ lost'[p] = lost[p]
    \/ /\ pc'[p] = "inspecting" /\ table'
       /\ todo'[p] = {} /\ lost'[p] = lost[p]
    \/ /\ pc[p] = "inspecting" /\ pc'[p] = "altering"
       /\ todo'[p] = Added \ columns /\ lost'[p] = lost[p]
    \/ /\ pc[p] = "altering" /\ pc'[p] = "altering" /\ lost'[p] = lost[p]
       /\ \E c \in todo[p] : todo'[p] = todo[p] \ {c} /\ c \in columns'
    \/ /\ pc[p] = "altering" /\ pc'[p] = "down" /\ todo'[p] = {}
       /\ \E c \in todo[p] \cap columns :
             lost'[p] = [lost[p] EXCEPT ![c] = @ + 1]
    \/ /\ pc[p] = "altering" /\ todo[p] = {}
       /\ pc'[p] = "starting" /\ todo'[p] = {} /\ lost'[p] = lost[p]
    \/ /\ p \in Running /\ pc'[p] \in {"serving", "stopping"}
       /\ todo'[p] = {} /\ lost'[p] = lost[p]

LEMMA Steps ==
    ASSUME TypeOK, NEW p \in Process, Start(p) \/ Proceed(p) \/ Terminate(p) \/ Dies(p)
    PROVE  ActsAlone(p) /\ SchemaStep(p)
  <1> USE DEF TypeOK, ActsAlone, SchemaStep
  <1>l. Label = {"down", "probing", "creating", "inspecting", "altering",
                 "starting", "serving", "stopping"}
    BY DEF Label
  <1>1. CASE Start(p)
    BY <1>1, <1>l, Moves DEF Start
  <1>2. CASE Probe(p)
    BY <1>2, <1>l, Moves DEF Probe
  <1>3. CASE CreateTable(p)
    BY <1>3, <1>l, Moves DEF CreateTable
  <1>4. CASE InspectColumns(p)
    BY <1>4, <1>l, Moves DEF InspectColumns, Missing
  <1>5. ASSUME NEW c \in Added, AddColumn(p, c)
        PROVE  ActsAlone(p) /\ SchemaStep(p)
    <2>1. CASE c \notin columns
      BY <1>5, <2>1 DEF AddColumn
    <2>2. CASE c \in columns
      <3>1. /\ pc[p] = "altering" /\ c \in todo[p] /\ GoTo(p, "down")
            /\ todo' = [todo EXCEPT ![p] = {}]
            /\ lost' = [lost EXCEPT ![p][c] = @ + 1]
        BY <1>5, <2>2 DEF AddColumn
      <3> DEFINE row == [lost[p] EXCEPT ![c] = @ + 1]
      <3>2. row \in [Added -> Nat] /\ lost' = [lost EXCEPT ![p] = row]
        BY <3>1
      <3> HIDE DEF row
      <3>a. /\ lost' \in [Process -> [Added -> Nat]]
            /\ lost'[p] = row
            /\ \A q \in Process \ {p} : lost'[q] = lost[q]
        BY <3>2
      <3>3. /\ lost' \in [Process -> [Added -> Nat]]
            /\ lost'[p] = [lost[p] EXCEPT ![c] = @ + 1]
            /\ \A q \in Process \ {p} : lost'[q] = lost[q]
        BY <3>a DEF row
      <3>4. ActsAlone(p)
        BY <1>l, <3>1, <3>3, Moves
      <3>5. pc'[p] = "down" /\ todo'[p] = {}
        BY <1>l, <3>1, Moves
      <3> QED BY <2>2, <3>1, <3>3, <3>4, <3>5
    <2> QED BY <2>1, <2>2
  <1>6. CASE StartLoops(p)
    BY <1>6, <1>l, Moves DEF StartLoops
  <1>7. CASE Bind(p)
    BY <1>7, <1>l, Moves DEF Bind, Running
  <1>8. CASE Terminate(p)
    <2>1. PICK label \in {"stopping", "down"} : GoTo(p, label)
      BY <1>8 DEF Terminate
    <2> QED BY <1>8, <1>l, <2>1, Moves DEF Terminate, Running
  <1>9. CASE Exit(p)
    BY <1>9, <1>l, Moves DEF Exit
  <1>10. CASE Dies(p)
    BY <1>10, <1>l, Moves DEF Dies
  <1> QED BY <1>1, <1>2, <1>3, <1>4, <1>5, <1>6, <1>7, <1>8, <1>9, <1>10
          DEF Proceed

-----------------------------------------------------------------------------
(* The invariant                                                           *)

LEMMA NextType == TypeOK /\ [Next]_vars => TypeOK'
  <1> SUFFICES ASSUME TypeOK, [Next]_vars PROVE TypeOK'
    OBVIOUS
  <1>1. columns' \subseteq Added
    BY SchemaGrows
  <1>2. table' \in BOOLEAN /\ gateway' \in BOOLEAN /\ faults' \in Nat
    <2>1. ASSUME NEW p \in Process, Dies(p)
          PROVE  faults' \in Nat /\ UNCHANGED <<table, gateway>>
      BY <2>1 DEF Dies, TypeOK, dbVars
    <2>2. ASSUME NEW p \in Process,
                 Start(p) \/ Probe(p) \/ InspectColumns(p) \/ StartLoops(p)
                 \/ Bind(p) \/ Terminate(p) \/ Exit(p)
          PROVE  UNCHANGED <<table, gateway, faults>>
      BY <2>2 DEF Start, Probe, InspectColumns, StartLoops, Bind, Terminate,
                  Exit, dbVars
    <2>3. ASSUME NEW p \in Process, CreateTable(p)
          PROVE  table' = TRUE /\ UNCHANGED <<gateway, faults>>
      BY <2>3 DEF CreateTable
    <2>4. ASSUME NEW p \in Process, NEW c \in Added, AddColumn(p, c)
          PROVE  UNCHANGED <<table, gateway, faults>>
      BY <2>4 DEF AddColumn
    <2>5. CASE GatewayChanges \/ UNCHANGED vars
      BY <2>5 DEF GatewayChanges, dbVars, vars, TypeOK
    <2>6. UNCHANGED <<table, gateway>> => table' \in BOOLEAN /\ gateway' \in BOOLEAN
      BY DEF TypeOK
    <2>7. TRUE \in BOOLEAN /\ gateway \in BOOLEAN /\ faults \in Nat
      BY DEF TypeOK
    <2>8. ASSUME NEW p \in Process, Proceed(p)
          PROVE  table' \in BOOLEAN /\ gateway' \in BOOLEAN /\ faults' \in Nat
      BY <2>2, <2>3, <2>4, <2>6, <2>7, <2>8, Zenon DEF Proceed
    <2> QED BY <2>1, <2>2, <2>5, <2>6, <2>7, <2>8, Zenon DEF Next
  <1>3. ASSUME NEW p \in Process,
               Start(p) \/ Proceed(p) \/ Terminate(p) \/ Dies(p)
        PROVE  TypeOK'
    <2>1. /\ pc' \in [Process -> Label]
          /\ todo' \in [Process -> SUBSET Added]
          /\ lost' \in [Process -> [Added -> Nat]]
      BY <1>3, Steps DEF ActsAlone
    <2>2. \A q \in Process : pc'[q] # "altering" => todo'[q] = {}
      BY <1>3, Steps DEF ActsAlone, SchemaStep, TypeOK
    <2> QED BY <1>1, <1>2, <2>1, <2>2 DEF TypeOK
  <1>4. CASE GatewayChanges \/ UNCHANGED vars
    BY <1>1, <1>2, <1>4 DEF GatewayChanges, vars, TypeOK
  <1> QED BY <1>3, <1>4 DEF Next

LEMMA NextIInv == IInv /\ [Next]_vars => IInv'
  <1> SUFFICES ASSUME IInv, [Next]_vars PROVE IInv'
    OBVIOUS
  <1>0. /\ TypeOK /\ TypeOK'
        /\ table => table'
        /\ columns \subseteq columns' /\ columns' \subseteq Added
    BY NextType, SchemaGrows DEF IInv
  <1>1. ASSUME NEW p \in Process,
               Start(p) \/ Proceed(p) \/ Terminate(p) \/ Dies(p)
        PROVE  IInv'
    <2>1. ActsAlone(p) /\ SchemaStep(p)
      BY <1>0, <1>1, Steps
    <2>2. CreatedTable'
      BY <1>0, <2>1
         DEF IInv, CreatedTable, ActsAlone, SchemaStep, Running
    <2>3. TodoCoversMissing'
      BY <1>0, <2>1 DEF IInv, TodoCoversMissing, ActsAlone, SchemaStep
    <2>4. RunningHasSchema'
      <3>1. Running # {} => table /\ columns = Added
        BY DEF IInv, RunningHasSchema
      <3>2. CASE Running # {}
        BY <1>0, <3>1, <3>2 DEF RunningHasSchema
      <3>3. CASE Running = {}
        <4>1. ASSUME Running' # {} PROVE table' /\ columns' = Added
          <5>1. pc[p] = "altering" /\ todo[p] = {}
            BY <2>1, <3>3, <4>1 DEF ActsAlone, SchemaStep, Running
          <5>2. table /\ Added \subseteq columns
            BY <5>1 DEF IInv, CreatedTable, TodoCoversMissing
          <5> QED BY <1>0, <5>2
        <4> QED BY <4>1 DEF RunningHasSchema
      <3> QED BY <3>2, <3>3
    <2>5. LosersKnowBetter'
      <3> SUFFICES ASSUME NEW q \in Process, NEW d \in Added
                   PROVE  \/ lost'[q][d] = 0
                          \/ /\ lost'[q][d] = 1
                             /\ d \in columns' /\ d \notin todo'[q]
        BY DEF LosersKnowBetter
      <3>1. \/ lost[q][d] = 0
            \/ lost[q][d] = 1 /\ d \in columns /\ d \notin todo[q]
        BY DEF IInv, LosersKnowBetter
      <3>2. CASE q # p
        BY <1>0, <2>1, <3>1, <3>2 DEF ActsAlone
      <3>3. CASE q = p /\ \E c \in todo[p] \cap columns :
                             lost'[p] = [lost[p] EXCEPT ![c] = @ + 1]
                 /\ todo'[p] = {}
        BY <1>0, <3>1, <3>3 DEF TypeOK
      <3>4. CASE q = p /\ lost'[p] = lost[p]
                 /\ (todo'[p] \subseteq todo[p] \/ todo'[p] = Added \ columns)
        BY <1>0, <3>1, <3>4
      <3> QED BY <2>1, <3>2, <3>3, <3>4 DEF SchemaStep
    <2> QED BY <1>0, <2>2, <2>3, <2>4, <2>5 DEF IInv
  <1>2. CASE GatewayChanges \/ UNCHANGED vars
    <2>1. UNCHANGED <<table, columns, pc, todo, lost>>
      BY <1>2 DEF GatewayChanges, vars, dbVars
    <2> QED BY <1>0, <2>1 DEF IInv, CreatedTable, TodoCoversMissing,
                 RunningHasSchema, Running, LosersKnowBetter
  <1> QED BY <1>1, <1>2 DEF Next

LEMMA Invariance == Spec => []IInv
  BY InitIInv, NextIInv, PTL DEF Spec

\* Every variable keeps its type; a process means to add columns only between
\* reading them and the end of init.
THEOREM TypeCorrect == Spec => []TypeOK
  <1>1. IInv => TypeOK
    BY DEF IInv
  <1> QED BY <1>1, Invariance, PTL

\* Any number of processes that migrate one database, killed anywhere, start
\* their claim loops on a complete schema only.
THEOREM SchemaIsComplete == Spec => []RunningHasSchema
  <1>1. IInv => RunningHasSchema
    BY DEF IInv
  <1> QED BY <1>1, Invariance, PTL

\* No process loses the race for a column twice.
THEOREM RaceIsLostOnce == Spec => []NoRaceLostTwice
  <1>1. IInv => NoRaceLostTwice
    BY DEF IInv, LosersKnowBetter, NoRaceLostTwice
  <1> QED BY <1>1, Invariance, PTL
=============================================================================
