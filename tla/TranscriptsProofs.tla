------------------------- MODULE TranscriptsProofs -------------------------
(***************************************************************************)
(* Proofs about Transcripts, for any number of acknowledgements and GET    *)
(* requests at a time, and any number of failures, stale writes and files  *)
(* removed by others.                                                      *)
(***************************************************************************)
EXTENDS Transcripts, TLAPS

-----------------------------------------------------------------------------
(* What a step does to the files, to the row and to one request            *)

Keeps ==
    /\ files \subseteq files' /\ interventions' = interventions
    /\ "trash" \in files' => "trash" \in files

Moves ==
    /\ files' = (files \ {"results"}) \cup {"trash"}
    /\ interventions' = interventions
    /\ ackedAt' = ackedAt /\ path' = path /\ status' = status
    /\ \E r \in Ack : ack[r].pc = "moving" /\ ack'[r].pc = "updating"

Disturbs ==
    /\ interventions' = interventions + 1
    /\ "trash" \in files' => "trash" \in files \/ ackedAt # 0
    /\ ackedAt' = ackedAt /\ path' = path /\ status' = status
    /\ \A r \in Ack : ~ack'[r].calm

FilesStep == Keeps \/ Moves \/ Disturbs

Finishes ==
    /\ status = "open" /\ status' \in {"done", "failed"}
    /\ path' = IF status' = "done" THEN "results" ELSE path
    /\ status' = "done" => "results" \in files
    /\ files' = files /\ ackedAt' = ackedAt /\ ack' = ack

Acknowledges ==
    /\ \E r \in Ack : ack[r].pc = "marking"
    /\ ackedAt = 0 /\ ackedAt' = 1
    /\ status' = status /\ path' = path /\ files' = files

Follows ==
    /\ \E r \in Ack : ack[r].pc = "updating"
    /\ path' = "trash"
    /\ status' = status /\ ackedAt' = ackedAt /\ files' = files

RowStep == UNCHANGED rowVars \/ Finishes \/ Acknowledges \/ Follows

AckRests(r) ==
    /\ ack'[r].pc = ack[r].pc /\ ack'[r].path = ack[r].path
    /\ ack'[r].newly = ack[r].newly /\ ack'[r].code = ack[r].code
    /\ ack'[r].moved = ack[r].moved
    /\ ack'[r].calm => ack[r].calm

AckQuits(r) ==
    /\ ack'[r].pc = "idle" /\ ~ack'[r].calm /\ ~ack'[r].moved
    /\ ack'[r].newly => ack[r].newly
    /\ ack'[r].path \in {ack[r].path, "none"}
    /\ faults' # 0 /\ UNCHANGED <<rowVars, files, interventions>>

AckMove(r) == AckRests(r) \/ AckQuits(r) \/ AckStart(r) \/ AckStep(r)

GetRests(g) ==
    /\ get'[g].pc = get[g].pc /\ get'[g].path = get[g].path
    /\ get'[g].code = get[g].code /\ get'[g].served = get[g].served
    /\ get'[g].confirmed = get[g].confirmed

GetTorn(g) ==
    /\ g \in Reading
    /\ get'[g] = [get[g] EXCEPT !.pc = "idle", !.code = 200, !.served = "part"]

GetMove(g) ==
    \/ GetRests(g) \/ GetTorn(g)
    \/ get'[g] = NoGet
    \/ \E endpoint \in Endpoint : GetStart(g, endpoint)
    \/ GetCheck(g)
    \/ GetOpen(g)

-----------------------------------------------------------------------------
(* The inductive invariant                                                 *)

\* A job has a transcript_path exactly when it is DONE.
DoneHasPath == path # "none" <=> status = "done"

\* What an acknowledgement knows of the row is old but not wrong: from each
\* place in ack_job on, the row has what the steps before put there.
AckFits(r) ==
    /\ ack[r].pc # "idle" =>
          status = "done" /\ ack[r].code = 0 /\ ~ack[r].moved
    /\ ack[r].pc \notin {"idle", "marking"} => ackedAt # 0
    /\ ack[r].newly => ackedAt # 0
    /\ ack[r].path = "trash" => path = "trash"
    /\ ack[r].pc \in {"refreshing", "responding"} => path = "trash"
    /\ ack[r].pc = "responding" => ack[r].path = "trash"
    /\ ack[r].moved => path = "trash"
    /\ ack[r].pc = "updating" /\ interventions = 0 => "trash" \in files

\* An undisturbed acknowledgement has the file where it will look for it.
CalmAckFinds(r) ==
    ack[r].calm =>
        /\ ack[r].pc \in {"marking", "reading"} => Findable
        /\ ack[r].pc = "moving" =>
              "trash" \in files \/ (ack[r].path = "results" /\ "results" \in files)
        /\ ack[r].pc \in {"updating", "refreshing", "responding"} =>
              "trash" \in files
        /\ ack[r].code = 200 => ack[r].moved

\* Who starts to read after the answer that the file has moved reads it in
\* trash/, where no run writes.
GetFits(g) ==
    /\ get[g].pc # "idle" => status = "done" /\ get[g].code = 0
    /\ get[g].path = "trash" => path = "trash"
    /\ get[g].confirmed /\ get[g].pc # "idle" => get[g].path = "trash"
    /\ interventions = 0 /\ get[g].confirmed /\ get[g].code # 0 =>
          /\ get[g].served # "none"
          /\ faults = 0 => get[g].served = "whole"

\* Nothing in the service takes away a file to which the row has been moved.
FollowedFileStays ==
    path = "trash" /\ interventions = 0 => "trash" \in files

\* Only a write that was cut short leaves a part of a text.
NoParts == faults = 0 => parts = {}

IInv ==
    /\ TypeOK /\ DoneHasPath
    /\ OneFirstAck /\ TrashIsAcked /\ TranscriptIsKept /\ RowFindsFile
    /\ FollowedFileStays /\ NoParts
    /\ \A r \in Ack : AckFits(r) /\ CalmAckFinds(r)
    /\ \A g \in Get : GetFits(g)

-----------------------------------------------------------------------------
(* Type correctness                                                        *)

LEMMA AckValues ==
    /\ "idle" \in AckLabel /\ "marking" \in AckLabel /\ "reading" \in AckLabel
    /\ "moving" \in AckLabel /\ "updating" \in AckLabel
    /\ "refreshing" \in AckLabel /\ "responding" \in AckLabel
    /\ 200 \in AckCode /\ 409 \in AckCode /\ 500 \in AckCode /\ 503 \in AckCode
  BY DEF AckLabel, AckCode

LEMMA Records ==
    /\ NoAck \in AckRecord /\ NoGet \in GetRecord
    /\ \A code \in AckCode : [NoAck EXCEPT !.code = code] \in AckRecord
    /\ [NoAck EXCEPT !.code = 409] \in AckRecord
    /\ \A g \in GetRecord :
          [g EXCEPT !.pc = "idle", !.code = 200, !.served = "part"] \in GetRecord
  <1>1. NoAck \in AckRecord
    BY DEF NoAck, AckRecord, AckLabel, AckCode, Place
  <1>2. NoGet \in GetRecord
    BY DEF NoGet, GetRecord, GetLabel, Endpoint, GetCode, Place
  <1>3. ASSUME NEW g \in GetRecord
        PROVE  [g EXCEPT !.pc = "idle", !.code = 200, !.served = "part"]
                  \in GetRecord
    <2>1. ASSUME NEW label \in GetLabel, NEW code \in GetCode
          PROVE  [g EXCEPT !.pc = label, !.code = code, !.served = "part"]
                    \in GetRecord
      BY DEF GetRecord
    <2>2. "idle" \in GetLabel /\ 200 \in GetCode
      BY DEF GetLabel, GetCode
    <2> QED BY <2>1, <2>2, Zenon
  <1>4. ASSUME NEW code \in AckCode
        PROVE  [NoAck EXCEPT !.code = code] \in AckRecord
    BY <1>1 DEF AckRecord
  <1>5. [NoAck EXCEPT !.code = 409] \in AckRecord
    BY <1>4, AckValues
  <1> QED BY <1>1, <1>2, <1>3, <1>4, <1>5, Zenon

\* A step that only moves a handler on keeps its record's type.
LEMMA AckGoesType ==
    \A a \in AckRecord, label \in AckLabel : [a EXCEPT !.pc = label] \in AckRecord
  <1>1. ASSUME NEW a \in AckRecord, NEW label \in AckLabel
        PROVE  [a EXCEPT !.pc = label] \in AckRecord
    BY DEF AckRecord
  <1> QED BY <1>1

\* The same, for the steps that also assign to other fields.
LEMMA AckAssigns ==
    ASSUME NEW a \in AckRecord
    PROVE  /\ \A b \in BOOLEAN :
                 [a EXCEPT !.newly = b, !.pc = "reading"] \in AckRecord
           /\ \A place \in Place \cup {"none"} :
                 /\ [a EXCEPT !.path = place, !.pc = "moving"] \in AckRecord
                 /\ [a EXCEPT !.path = place, !.pc = "responding"] \in AckRecord
           /\ \A b \in BOOLEAN :
                 [a EXCEPT !.pc = "idle", !.code = 200, !.moved = b] \in AckRecord
  <1>1. ASSUME NEW b \in BOOLEAN
        PROVE  [a EXCEPT !.newly = b, !.pc = "reading"] \in AckRecord
    BY DEF AckRecord, AckLabel
  <1>2. ASSUME NEW place \in Place \cup {"none"}
        PROVE  /\ [a EXCEPT !.path = place, !.pc = "moving"] \in AckRecord
               /\ [a EXCEPT !.path = place, !.pc = "responding"] \in AckRecord
    <2>1. [a EXCEPT !.path = place, !.pc = "moving"] \in AckRecord
      BY DEF AckRecord, AckLabel
    <2>2. [a EXCEPT !.path = place, !.pc = "responding"] \in AckRecord
      BY DEF AckRecord, AckLabel
    <2> QED BY <2>1, <2>2
  <1>3. ASSUME NEW b \in BOOLEAN
        PROVE  [a EXCEPT !.pc = "idle", !.code = 200, !.moved = b] \in AckRecord
    <2>1. ASSUME NEW label \in AckLabel, NEW code \in AckCode
          PROVE  [a EXCEPT !.pc = label, !.code = code, !.moved = b] \in AckRecord
      BY DEF AckRecord
    <2>2. "idle" \in AckLabel /\ 200 \in AckCode
      BY AckValues
    <2> QED BY <2>1, <2>2, Zenon
  <1> QED BY <1>1, <1>2, <1>3

LEMMA InitType == Init => TypeOK
  <1> SUFFICES ASSUME Init PROVE TypeOK
    OBVIOUS
  <1>1. ack \in [Ack -> AckRecord] /\ get \in [Get -> GetRecord]
    BY Records DEF Init
  <1>2. /\ \A r \in Ack : ack[r].pc = "idle"
        /\ \A g \in Get : get[g].pc = "idle"
    BY DEF Init, NoAck, NoGet
  <1> QED BY <1>1, <1>2, BoundAssumption DEF Init, TypeOK

LEMMA WorkerType ==
    ASSUME TypeOK,
           WriteTranscript \/ StaleWrite \/ WriteBreaks \/ FinishJob \/ FailJob
    PROVE  TypeOK'
  <1>0. ASSUME TearReads
        PROVE  /\ get' \in [Get -> GetRecord]
               /\ \A g \in Get : get'[g].pc # "idle" => get'[g].path # "none"
    <2>1. \A g \in Get : get[g] \in GetRecord
      BY DEF TypeOK
    <2>0. PICK torn \in SUBSET Reading :
             get' = [g \in Get |->
                       IF g \in torn
                       THEN [get[g] EXCEPT !.pc = "idle", !.code = 200,
                                           !.served = "part"]
                       ELSE get[g]]
      BY <1>0 DEF TearReads
    <2>2. /\ get' = [g \in Get |-> get'[g]]
          /\ \A g \in Get : GetTorn(g) \/ get'[g] = get[g]
      BY <2>0 DEF GetTorn
    <2>3. ASSUME NEW g \in Get, GetTorn(g)
          PROVE  get'[g] \in GetRecord /\ get'[g].pc = "idle"
      <3>1. get'[g] \in GetRecord
        <4>1. get[g] \in GetRecord
          BY <2>1
        <4>2. [get[g] EXCEPT !.pc = "idle", !.code = 200, !.served = "part"]
                 \in GetRecord
          BY <4>1, Records, Zenon
        <4> QED BY <4>2, <2>3, Zenon DEF GetTorn
      <3>2. get'[g].pc = "idle"
        BY <2>1, <2>3 DEF GetTorn, GetRecord
      <3> QED BY <3>1, <3>2
    <2>4. get' \in [Get -> GetRecord]
      BY <2>1, <2>2, <2>3
    <2>5. \A g \in Get : get'[g].pc # "idle" => get'[g].path # "none"
      BY <2>2, <2>3 DEF TypeOK
    <2> QED BY <2>4, <2>5
  <1>1. CASE WriteTranscript
    BY <1>1 DEF TypeOK, WriteTranscript, Place, rowVars, countVars
  <1>2. CASE StaleWrite
    <2>1. staleWrites' \in 0..MaxStaleWrites
      BY <1>2, BoundAssumption DEF TypeOK, StaleWrite
    <2>2. TearReads /\ files' \subseteq Place /\ parts' \subseteq files'
      BY <1>2 DEF TypeOK, StaleWrite, Place
    <2> QED BY <1>0, <1>2, <2>1, <2>2 DEF TypeOK, StaleWrite, rowVars
  <1>5. CASE WriteBreaks
    <2>1. faults' \in 0..MaxFaults
      BY <1>5, BoundAssumption DEF TypeOK, WriteBreaks
    <2>2. TearReads /\ files' \subseteq Place /\ parts' \subseteq files'
      BY <1>5 DEF TypeOK, WriteBreaks, Place
    <2> QED BY <1>0, <1>5, <2>1, <2>2 DEF TypeOK, WriteBreaks, rowVars
  <1>3. CASE FinishJob
    BY <1>3 DEF TypeOK, FinishJob, Place, countVars
  <1>4. CASE FailJob
    BY <1>4 DEF TypeOK, FailJob, countVars
  <1> QED BY <1>1, <1>2, <1>3, <1>4, <1>5

\* A step that gives one acknowledgement a record and otherwise touches only
\* the row's path and time keeps the types.
LEMMA AckChangeType ==
    ASSUME TypeOK, NEW r \in Ack, NEW a \in AckRecord,
           ack' = [ack EXCEPT ![r] = a],
           a.pc \notin {"idle", "marking", "reading"} => a.path # "none",
           path' \in Place \cup {"none"}, ackedAt' \in Nat,
           UNCHANGED <<status, files, parts, get, countVars>>
    PROVE  TypeOK'
  <1>1. ack' \in [Ack -> AckRecord]
    BY DEF TypeOK
  <1>2. \A s \in Ack : ack'[s] = IF s = r THEN a ELSE ack[s]
    BY DEF TypeOK
  <1>3. \A s \in Ack : ack'[s].pc \notin {"idle", "marking", "reading"} =>
           ack'[s].path # "none"
    BY <1>2 DEF TypeOK
  <1> QED BY <1>1, <1>3 DEF TypeOK, countVars

LEMMA AckStepType ==
    ASSUME TypeOK, DoneHasPath, NEW r \in Ack, AckFits(r),
           AckStart(r) \/ AckStep(r)
    PROVE  TypeOK'
  <1>1. /\ ack \in [Ack -> AckRecord] /\ ack[r] \in AckRecord
        /\ get \in [Get -> GetRecord] /\ path \in Place \cup {"none"}
    BY DEF TypeOK
  <1>2. CASE AckStart(r)
    <2> Findable \in BOOLEAN
      BY DEF Findable
    <2> NoAck \in AckRecord
      BY Records
    <2> \A b \in BOOLEAN :
           [NoAck EXCEPT !.pc = "marking", !.calm = b] \in AckRecord
      <3>1. ASSUME NEW a \in AckRecord, NEW b \in BOOLEAN
            PROVE  [a EXCEPT !.pc = "marking", !.calm = b] \in AckRecord
        BY DEF AckRecord, AckLabel
      <3>2. NoAck \in AckRecord
        BY Records
      <3> QED BY <3>1, <3>2
    <2> [NoAck EXCEPT !.code = 409] \in AckRecord
      BY Records, Zenon
    <2>1. /\ [NoAck EXCEPT !.pc = "marking", !.calm = Findable] \in AckRecord
          /\ [NoAck EXCEPT !.code = 409] \in AckRecord
      BY Zenon
    <2>2. /\ [NoAck EXCEPT !.pc = "marking", !.calm = Findable].pc = "marking"
          /\ [NoAck EXCEPT !.code = 409].pc = "idle"
      BY DEF NoAck
    <2>3. PICK a \in AckRecord :
             ack' = [ack EXCEPT ![r] = a] /\ a.pc \in {"idle", "marking"}
      <3>1. \/ ack' = [ack EXCEPT ![r] = [NoAck EXCEPT !.pc = "marking",
                                                      !.calm = Findable]]
            \/ ack' = [ack EXCEPT ![r] = [NoAck EXCEPT !.code = 409]]
        BY <1>2, Zenon DEF AckStart
      <3>2. ASSUME NEW a \in AckRecord, a.pc \in {"idle", "marking"},
                   ack' = [ack EXCEPT ![r] = a]
            PROVE  \E b \in AckRecord : /\ ack' = [ack EXCEPT ![r] = b]
                                        /\ b.pc \in {"idle", "marking"}
        BY <3>2, Zenon
      <3>3. /\ [NoAck EXCEPT !.pc = "marking", !.calm = Findable].pc
                   \in {"idle", "marking"}
            /\ [NoAck EXCEPT !.code = 409].pc \in {"idle", "marking"}
        BY <2>2
      <3> DEFINE marking == [NoAck EXCEPT !.pc = "marking", !.calm = Findable]
                 refused == [NoAck EXCEPT !.code = 409]
      <3>4. /\ marking \in AckRecord /\ marking.pc \in {"idle", "marking"}
            /\ refused \in AckRecord /\ refused.pc \in {"idle", "marking"}
            /\ ack' = [ack EXCEPT ![r] = marking]
                 \/ ack' = [ack EXCEPT ![r] = refused]
        BY <2>1, <3>1, <3>3, Zenon
      <3> HIDE DEF marking, refused
      <3> QED BY <3>2, <3>4, Zenon
    <2>4. UNCHANGED <<status, path, ackedAt, files, parts, get, countVars>>
      BY <1>2 DEF AckStart, rowVars
    <2>5. ackedAt' \in Nat
      BY <2>4 DEF TypeOK
    <2> QED BY <1>1, <2>3, <2>4, <2>5, AckChangeType
  <1>3. CASE MarkAcked(r)
    <2>1. [ack[r] EXCEPT !.newly = (ackedAt = 0), !.pc = "reading"] \in AckRecord
      <3>1. \A b \in BOOLEAN :
               [ack[r] EXCEPT !.newly = b, !.pc = "reading"] \in AckRecord
        BY <1>1, AckAssigns
      <3> QED BY <3>1, (ackedAt = 0) \in BOOLEAN, Zenon
    <2>2. PICK a \in AckRecord :
             ack' = [ack EXCEPT ![r] = a] /\ a.pc = "reading"
      <3>1. [ack[r] EXCEPT !.newly = (ackedAt = 0), !.pc = "reading"].pc
              = "reading"
        BY <1>1 DEF AckRecord
      <3>2. ack' = [ack EXCEPT ![r] = [ack[r] EXCEPT !.newly = (ackedAt = 0),
                                                     !.pc = "reading"]]
        BY <1>1, <1>3 DEF MarkAcked
      <3> QED BY <2>1, <3>1, <3>2, Zenon
    <2>3. ackedAt' \in Nat /\ path' \in Place \cup {"none"}
      BY <1>3 DEF MarkAcked, TypeOK
    <2>4. UNCHANGED <<status, files, parts, get, countVars>>
      BY <1>3 DEF MarkAcked
    <2> QED BY <2>2, <2>3, <2>4, AckChangeType
  <1>4. CASE ReadAcked(r)
    <2>1. [ack[r] EXCEPT !.path = path, !.pc = "moving"] \in AckRecord
      BY <1>1, AckAssigns
    <2>2. path # "none"
      BY <1>4 DEF ReadAcked, AckFits, DoneHasPath
    <2>3. PICK a \in AckRecord : ack' = [ack EXCEPT ![r] = a] /\ a.path = path
      <3>1. [ack[r] EXCEPT !.path = path, !.pc = "moving"].path = path
        BY <1>1 DEF AckRecord
      <3> QED BY <1>4, <2>1, <3>1 DEF ReadAcked
    <2>4. UNCHANGED <<status, path, ackedAt, files, parts, get, countVars>>
      BY <1>4 DEF ReadAcked, rowVars
    <2>5. ackedAt' \in Nat
      BY <2>4 DEF TypeOK
    <2> QED BY <1>1, <2>2, <2>3, <2>4, <2>5, AckChangeType
  <1>5. CASE MoveNotNeeded(r) \/ MoveFindsNothing(r) \/ Respond(r)
    <2>1. PICK m \in BOOLEAN : AckAnswers(r, 200, m)
      BY <1>5 DEF MoveNotNeeded, MoveFindsNothing, Respond, InTrash
    <2>2. [ack[r] EXCEPT !.pc = "idle", !.code = 200, !.moved = m] \in AckRecord
      <3>1. \A b \in BOOLEAN :
               [ack[r] EXCEPT !.pc = "idle", !.code = 200, !.moved = b]
                  \in AckRecord
        BY <1>1, AckAssigns
      <3> QED BY <3>1
    <2>3. UNCHANGED <<rowVars, files, parts, get, countVars>>
      BY <1>5 DEF MoveNotNeeded, MoveFindsNothing, Respond
    <2>4. PICK a \in AckRecord : ack' = [ack EXCEPT ![r] = a] /\ a.pc = "idle"
      <3>1. [ack[r] EXCEPT !.pc = "idle", !.code = 200, !.moved = m].pc = "idle"
        BY <1>1 DEF AckRecord
      <3>2. ack' = [ack EXCEPT ![r] = [ack[r] EXCEPT !.pc = "idle",
                                        !.code = 200, !.moved = m]]
        BY <1>1, <2>1 DEF AckAnswers
      <3> QED BY <2>2, <3>1, <3>2, Zenon
    <2>5. UNCHANGED <<status, path, ackedAt, files, parts, get, countVars>>
      BY <2>3 DEF rowVars
    <2>6. ackedAt' \in Nat
      BY <2>5 DEF TypeOK
    <2> QED BY <1>1, <2>4, <2>5, <2>6, AckChangeType
  <1>6. CASE Move(r)
    <2>1. [ack[r] EXCEPT !.pc = "updating"] \in AckRecord
      BY <1>1, AckGoesType, AckValues, Zenon
    <2>2. ack' \in [Ack -> AckRecord] /\ get' \in [Get -> GetRecord]
      BY <1>1, <1>6, <2>1, Records DEF Move, AckGoes
    <2>3. files' \subseteq Place /\ parts' \subseteq files'
      BY <1>6 DEF Move, TypeOK, Place
    <2>4. \A s \in Ack : ack'[s].pc \notin {"idle", "marking", "reading"} =>
             ack'[s].path # "none"
      BY <1>1, <1>6 DEF Move, AckGoes, TypeOK, AckRecord
    <2>5. \A g \in Get : get'[g].pc # "idle" => get'[g].path # "none"
      BY <1>1, <1>6 DEF Move, TypeOK, GetRecord
    <2> QED BY <1>6, <2>2, <2>3, <2>4, <2>5 DEF Move, TypeOK, rowVars, countVars
  <1>7. CASE MoveHeals(r) \/ UpdatePath(r)
    <2>1. PICK label \in AckLabel :
             ack[r].pc \in {"moving", "updating"} /\ AckGoes(r, label)
      BY <1>7, AckValues DEF MoveHeals, UpdatePath
    <2>2. [ack[r] EXCEPT !.pc = label] \in AckRecord
      BY <1>1, <2>1, AckGoesType, Zenon
    <2>3. /\ path' \in Place \cup {"none"}
          /\ UNCHANGED <<status, ackedAt, files, parts, get, countVars>>
      BY <1>1, <1>7 DEF MoveHeals, UpdatePath, Place, rowVars
    <2>4. PICK a \in AckRecord :
             ack' = [ack EXCEPT ![r] = a] /\ a.path = ack[r].path
      <3>1. [ack[r] EXCEPT !.pc = label].path = ack[r].path
        BY <1>1 DEF AckRecord
      <3> QED BY <2>1, <2>2, <3>1 DEF AckGoes
    <2>5. ack[r].path # "none" /\ ackedAt' \in Nat
      BY <2>1, <2>3 DEF TypeOK
    <2> QED BY <2>3, <2>4, <2>5, AckChangeType
  <1>8. CASE Refresh(r)
    <2>1. [ack[r] EXCEPT !.path = path, !.pc = "responding"] \in AckRecord
      BY <1>1, AckAssigns
    <2>2. path # "none"
      BY <1>8 DEF Refresh, AckFits
    <2>3. PICK a \in AckRecord : ack' = [ack EXCEPT ![r] = a] /\ a.path = path
      <3>1. [ack[r] EXCEPT !.path = path, !.pc = "responding"].path = path
        BY <1>1 DEF AckRecord
      <3> QED BY <1>8, <2>1, <3>1 DEF Refresh
    <2>4. UNCHANGED <<status, path, ackedAt, files, parts, get, countVars>>
      BY <1>8 DEF Refresh, rowVars
    <2>5. ackedAt' \in Nat
      BY <2>4 DEF TypeOK
    <2> QED BY <1>1, <2>2, <2>3, <2>4, <2>5, AckChangeType
  <1> QED BY <1>2, <1>3, <1>4, <1>5, <1>6, <1>7, <1>8 DEF AckStep

LEMMA FaultType ==
    ASSUME TypeOK,
           \/ \E r \in Ack : DatabaseFails(r) \/ MoveFails(r) \/ MkdirFails(r)
           \/ Crash
    PROVE  TypeOK'
  <1>1. /\ ack \in [Ack -> AckRecord] /\ get \in [Get -> GetRecord]
        /\ faults \in 0..MaxFaults
    BY DEF TypeOK
  <1>2. ASSUME NEW r \in Ack, NEW code \in AckCode, Fault(r, code) PROVE TypeOK'
    <2>1. [ack[r] EXCEPT !.pc = "idle", !.code = code, !.moved = FALSE,
                         !.calm = FALSE] \in AckRecord
      <3>1. "idle" \in AckLabel /\ code \in AckCode /\ ack[r] \in AckRecord
        BY <1>1, <1>2, AckValues
      <3> QED BY <3>1 DEF AckRecord
    <2>2. faults' \in 0..MaxFaults
      BY <1>1, <1>2, BoundAssumption DEF Fault
    <2> QED BY <1>1, <1>2, <2>1, <2>2 DEF Fault, TypeOK, rowVars
  <1>3. CASE Crash
    <2>1. faults' \in 0..MaxFaults
      BY <1>1, <1>3, BoundAssumption DEF Crash
    <2>2. ack' \in [Ack -> AckRecord] /\ get' \in [Get -> GetRecord]
      BY <1>1, <1>3, Records DEF Crash
    <2>3. /\ \A r \in Ack : ack'[r].pc = "idle"
          /\ \A g \in Get : get'[g].pc = "idle"
      BY <1>1, <1>3 DEF Crash, NoAck, NoGet
    <2> QED BY <1>3, <2>1, <2>2, <2>3 DEF Crash, TypeOK, rowVars
  <1> QED BY <1>2, <1>3, AckValues DEF DatabaseFails, MoveFails, MkdirFails

LEMMA InterventionType ==
    ASSUME TypeOK, Drag \/ \E place \in Place : Remove(place)
    PROVE  TypeOK'
  <1>1. /\ ack \in [Ack -> AckRecord] /\ get \in [Get -> GetRecord]
        /\ interventions \in 0..MaxInterventions /\ Disturb
        /\ interventions < MaxInterventions
        /\ interventions' = interventions + 1
        /\ UNCHANGED <<rowVars, get, faults, staleWrites>>
    BY DEF TypeOK, Drag, Remove
  <1>2. ack' \in [Ack -> AckRecord]
    <2>1. \A a \in AckRecord : [a EXCEPT !.calm = FALSE] \in AckRecord
      BY DEF AckRecord
    <2> QED BY <1>1, <2>1 DEF Disturb
  <1>3. \A r \in Ack : ack'[r].pc = ack[r].pc /\ ack'[r].path = ack[r].path
    BY <1>1 DEF Disturb, AckRecord
  <1>4. interventions' \in 0..MaxInterventions
    BY <1>1, BoundAssumption
  <1>5. files' \subseteq Place /\ parts' \subseteq files'
    BY DEF Drag, Remove, Place, TypeOK
  <1> QED BY <1>1, <1>2, <1>3, <1>4, <1>5 DEF TypeOK, rowVars

LEMMA GetValues ==
    /\ "idle" \in GetLabel /\ "checking" \in GetLabel /\ "opening" \in GetLabel
    /\ 0 \in GetCode /\ 200 \in GetCode /\ 404 \in GetCode /\ 410 \in GetCode
    /\ 500 \in GetCode
  BY DEF GetLabel, GetCode

\* How a GET changes its record.
GetResult(g, a) ==
    /\ a \in GetRecord /\ (a.pc # "idle" => a.path # "none")
    /\ get' = [h \in Get |-> get'[h]]
    /\ get'[g] = a /\ \A h \in Get \ {g} : get'[h] = get[h]

LEMMA Answered ==
    ASSUME NEW g \in Get, get \in [Get -> GetRecord], NEW code \in GetCode,
           NEW b \in {"none", "part", "whole"}, GetAnswers(g, code, b)
    PROVE  \E a : GetResult(g, a)
  <1>1. get' = [h \in Get |-> get'[h]]
    BY DEF GetAnswers
  <1>2. \A h \in Get \ {g} : get'[h] = get[h]
    BY DEF GetAnswers
  <1>3. get'[g] = [get[g] EXCEPT !.pc = "idle", !.code = code, !.served = b]
    BY DEF GetAnswers
  <1>4. get[g] \in GetRecord
    OBVIOUS
  <1>5. get'[g].pc = "idle" /\ get'[g] \in GetRecord
    BY <1>3, <1>4 DEF GetRecord, GetLabel
  <1> QED BY <1>1, <1>2, <1>5 DEF GetResult

LEMMA GetResults ==
    ASSUME TypeOK, DoneHasPath, NEW g \in Get, NEW endpoint \in Endpoint,
           GetStart(g, endpoint) \/ GetCheck(g) \/ GetOpen(g)
    PROVE  \E a : GetResult(g, a)
  <1>0. get \in [Get -> GetRecord]
    BY DEF TypeOK
  <1>1. get[g] \in GetRecord /\ path \in Place \cup {"none"}
    BY DEF TypeOK
  <1>2. CASE GetStart(g, endpoint)
    <2> DEFINE started == [NoGet EXCEPT !.endpoint = endpoint]
    <2>1. started \in GetRecord
      BY Records DEF GetRecord
    <2>2. started.pc = "idle"
      BY DEF NoGet
    <2>3. CASE status = "done"
      <3> DEFINE new(b) == [started EXCEPT !.pc = "checking", !.path = path,
                                           !.confirmed = b]
      <3>1. get' = [get EXCEPT ![g] = new(Confirmed)]
        BY <1>2, <2>3 DEF GetStart
      <3> HIDE DEF started
      <3>2. path # "none" /\ Confirmed \in BOOLEAN
        BY <2>3 DEF DoneHasPath, Confirmed
      <3>3. "checking" \in GetLabel
        BY GetValues
      <3>4. ASSUME NEW b \in BOOLEAN
            PROVE  new(b) \in GetRecord /\ new(b).path = path
        <4>1. new(b) \in GetRecord
          BY <1>1, <2>1, <3>3 DEF GetRecord
        <4>2. new(b).path = path
          BY <2>1 DEF GetRecord
        <4> QED BY <4>1, <4>2
      <3>5. new(Confirmed) \in GetRecord /\ new(Confirmed).path = path
        BY <3>2, <3>4, Zenon
      <3> HIDE DEF new
      <3> QED BY <1>0, <3>1, <3>2, <3>5 DEF GetResult
    <2>4. CASE status # "done"
      <3> DEFINE refusal == CASE endpoint = "job"   -> 200
                              [] status = "failed"  -> 410
                              [] OTHER              -> 404
                 new == [started EXCEPT !.code = refusal]
      <3>1. get' = [get EXCEPT ![g] = new]
        BY <1>2, <2>4 DEF GetStart
      <3> HIDE DEF started
      <3>2. refusal \in GetCode
        BY GetValues
      <3> HIDE DEF refusal
      <3>3. new \in GetRecord
        BY <2>1, <3>2 DEF GetRecord
      <3>4. new.pc = "idle"
        BY <2>1, <2>2 DEF GetRecord
      <3> HIDE DEF new
      <3> QED BY <1>0, <3>1, <3>3, <3>4 DEF GetResult
    <2> QED BY <2>3, <2>4
  <1>3. CASE GetCheck(g) \/ GetOpen(g)
    <2>1. /\ get[g].path # "none"
          /\ \/ get' = [get EXCEPT ![g].pc = "opening"]
             \/ GetAnswers(g, 200, "none") \/ GetAnswers(g, 500, "none")
             \/ GetAnswers(g, 200, "part") \/ GetAnswers(g, 200, "whole")
      <3>1. get[g].path # "none"
        BY <1>3 DEF GetCheck, GetOpen, TypeOK
      <3>2. CASE GetCheck(g)
        <4>1. CASE get[g].endpoint = "job"
          BY <3>1, <3>2, <4>1 DEF GetCheck
        <4>2. CASE get[g].endpoint # "job"
          BY <3>1, <3>2, <4>2 DEF GetCheck
        <4> QED BY <4>1, <4>2
      <3>3. CASE GetOpen(g)
        <4>1. CASE get[g].path \in parts
          BY <3>1, <3>3, <4>1 DEF GetOpen
        <4>2. CASE get[g].path \notin parts
          BY <3>1, <3>3, <4>2 DEF GetOpen
        <4> QED BY <4>1, <4>2
      <3> QED BY <1>3, <3>2, <3>3
    <2>2. CASE get' = [get EXCEPT ![g].pc = "opening"]
      <3> DEFINE new == [get[g] EXCEPT !.pc = "opening"]
      <3>1. new \in GetRecord
        BY <1>1, GetValues DEF GetRecord
      <3>2. new.path # "none"
        BY <1>1, <2>1 DEF GetRecord
      <3>3. get' = [get EXCEPT ![g] = new]
        BY <2>2
      <3> HIDE DEF new
      <3> QED BY <1>0, <3>1, <3>2, <3>3 DEF GetResult
    <2>3. CASE \/ GetAnswers(g, 200, "none") \/ GetAnswers(g, 500, "none")
               \/ GetAnswers(g, 200, "part") \/ GetAnswers(g, 200, "whole")
      BY <1>0, <2>3, Answered, GetValues
    <2> QED BY <2>1, <2>2, <2>3
  <1> QED BY <1>2, <1>3

LEMMA GetStepType ==
    ASSUME TypeOK, DoneHasPath, NEW g \in Get, NEW endpoint \in Endpoint,
           GetStart(g, endpoint) \/ GetCheck(g) \/ GetOpen(g)
    PROVE  TypeOK'
  <1>1. UNCHANGED <<rowVars, files, parts, ack, countVars>>
    BY DEF GetStart, GetCheck, GetOpen
  <1>2. PICK a : GetResult(g, a)
    BY GetResults
  <1> QED BY <1>1, <1>2 DEF GetResult, TypeOK, rowVars, countVars

LEMMA NextType == IInv /\ [Next]_vars => TypeOK'
  <1> SUFFICES ASSUME IInv, [Next]_vars PROVE TypeOK'
    OBVIOUS
  <1>1. TypeOK /\ DoneHasPath /\ \A r \in Ack : AckFits(r)
    BY DEF IInv
  <1>2. CASE UNCHANGED vars
    BY <1>1, <1>2 DEF TypeOK, vars
  <1>3. CASE \/ WriteTranscript \/ StaleWrite \/ WriteBreaks
             \/ FinishJob \/ FailJob
    BY <1>1, <1>3, WorkerType
  <1>4. ASSUME NEW r \in Ack, AckStart(r) \/ AckStep(r) PROVE TypeOK'
    BY <1>1, <1>4, AckStepType
  <1>5. CASE \/ \E r \in Ack : DatabaseFails(r) \/ MoveFails(r) \/ MkdirFails(r)
             \/ Crash
    BY <1>1, <1>5, FaultType
  <1>6. ASSUME NEW g \in Get, NEW endpoint \in Endpoint,
               GetStart(g, endpoint) \/ GetCheck(g) \/ GetOpen(g)
        PROVE  TypeOK'
    BY <1>1, <1>6, GetStepType
  <1>7. CASE Drag \/ \E place \in Place : Remove(place)
    BY <1>1, <1>7, InterventionType
  <1>8. Endpoint # {}
    BY DEF Endpoint
  <1> QED BY <1>2, <1>3, <1>4, <1>5, <1>6, <1>7, <1>8 DEF Next

-----------------------------------------------------------------------------
(* Every step is one of those described above                              *)

LEMMA FilesSteps == TypeOK /\ [Next]_vars => FilesStep
  <1> SUFFICES ASSUME TypeOK, [Next]_vars PROVE FilesStep
    OBVIOUS
  <1>0. /\ ack \in [Ack -> AckRecord] /\ get \in [Get -> GetRecord]
        /\ files \subseteq Place /\ interventions \in Nat
    BY DEF TypeOK
  <1>1. CASE UNCHANGED <<files, interventions>>
    BY <1>1 DEF FilesStep, Keeps
  <1>2. CASE WriteTranscript \/ StaleWrite \/ WriteBreaks
    BY <1>2 DEF WriteTranscript, StaleWrite, WriteBreaks, countVars, FilesStep,
                Keeps
  <1>3. ASSUME NEW r \in Ack, Move(r) PROVE FilesStep
    <2>1. ack'[r].pc = "updating"
      BY <1>0, <1>3 DEF Move, AckGoes, AckRecord
    <2> QED BY <1>3, <2>1 DEF Move, rowVars, countVars, FilesStep, Moves
  <1>4. CASE Drag \/ \E place \in Place : Remove(place)
    <2>1. \A r \in Ack : ~ack'[r].calm
      BY <1>0, <1>4 DEF Drag, Remove, Disturb, AckRecord
    <2> QED BY <1>4, <2>1 DEF Drag, Remove, rowVars, FilesStep, Disturbs
  <1>5. CASE FinishJob \/ FailJob \/ Crash
    BY <1>1, <1>5 DEF FinishJob, FailJob, Crash, countVars
  <1>6. ASSUME NEW r \in Ack,
               \/ AckStart(r) \/ AckStep(r)
               \/ DatabaseFails(r) \/ MoveFails(r) \/ MkdirFails(r)
        PROVE  FilesStep
    BY <1>1, <1>3, <1>6
       DEF AckStart, AckStep, MarkAcked, ReadAcked, MoveNotNeeded, MoveHeals,
           MoveFindsNothing, UpdatePath, Refresh, Respond, DatabaseFails,
           MoveFails, MkdirFails, Fault, countVars
  <1>7. ASSUME NEW g \in Get, NEW endpoint \in Endpoint,
               GetStart(g, endpoint) \/ GetCheck(g) \/ GetOpen(g)
        PROVE  FilesStep
    BY <1>1, <1>7 DEF GetStart, GetCheck, GetOpen, countVars
  <1>8. CASE UNCHANGED vars
    BY <1>1, <1>8 DEF vars
  <1>9. Endpoint # {}
    BY DEF Endpoint
  <1> QED BY <1>2, <1>4, <1>5, <1>6, <1>7, <1>8, <1>9 DEF Next

LEMMA RowSteps == [Next]_vars => RowStep
  <1> SUFFICES ASSUME [Next]_vars PROVE RowStep
    OBVIOUS
  <1>1. CASE UNCHANGED rowVars
    BY <1>1 DEF RowStep
  <1>2. CASE WriteTranscript \/ StaleWrite \/ WriteBreaks \/ Drag
             \/ (\E place \in Place : Remove(place)) \/ Crash
    BY <1>1, <1>2
       DEF WriteTranscript, StaleWrite, WriteBreaks, Drag, Remove, Crash
  <1>3. CASE FinishJob \/ FailJob
    BY <1>3 DEF FinishJob, FailJob, RowStep, Finishes
  <1>4. ASSUME NEW r \in Ack,
               \/ AckStart(r) \/ AckStep(r)
               \/ DatabaseFails(r) \/ MoveFails(r) \/ MkdirFails(r)
        PROVE  RowStep
    <2>1. CASE MarkAcked(r)
      BY <2>1 DEF MarkAcked, RowStep, Acknowledges, rowVars
    <2>2. CASE UpdatePath(r)
      BY <2>2 DEF UpdatePath, RowStep, Follows
    <2> QED BY <1>1, <1>4, <2>1, <2>2
         DEF AckStart, AckStep, ReadAcked, MoveNotNeeded, Move, MoveHeals,
             MoveFindsNothing, Refresh, Respond, DatabaseFails,
             MoveFails, MkdirFails, Fault
  <1>5. ASSUME NEW g \in Get, NEW endpoint \in Endpoint,
               GetStart(g, endpoint) \/ GetCheck(g) \/ GetOpen(g)
        PROVE  RowStep
    BY <1>1, <1>5 DEF GetStart, GetCheck, GetOpen
  <1>6. CASE UNCHANGED vars
    BY <1>1, <1>6 DEF vars, rowVars
  <1>7. Endpoint # {}
    BY DEF Endpoint
  <1> QED BY <1>2, <1>3, <1>4, <1>5, <1>6, <1>7 DEF Next

LEMMA AckMoves == TypeOK /\ [Next]_vars => \A r \in Ack : AckMove(r)
  <1> SUFFICES ASSUME TypeOK, [Next]_vars, NEW r \in Ack PROVE AckMove(r)
    OBVIOUS
  <1>0. ack \in [Ack -> AckRecord] /\ faults \in Nat
    BY DEF TypeOK
  <1>1. CASE ack'[r] = ack[r]
    BY <1>1 DEF AckMove, AckRests
  <1>2. CASE \/ WriteTranscript \/ StaleWrite \/ WriteBreaks
             \/ FinishJob \/ FailJob
    BY <1>1, <1>2
       DEF WriteTranscript, StaleWrite, WriteBreaks, FinishJob, FailJob
  <1>3. CASE Drag \/ \E place \in Place : Remove(place)
    BY <1>0, <1>3 DEF Drag, Remove, Disturb, AckMove, AckRests, AckRecord
  <1>4. CASE Crash
    <2>1. ack'[r] = ack[r] \/ ack'[r] = NoAck
      BY <1>4 DEF Crash
    <2>2. CASE ack'[r] = NoAck
      BY <1>0, <1>4, <2>2 DEF Crash, NoAck, AckMove, AckQuits
    <2> QED BY <1>1, <2>1, <2>2
  <1>5. ASSUME NEW s \in Ack, AckStart(s) \/ AckStep(s) PROVE AckMove(r)
    <2>1. CASE s = r
      BY <1>5, <2>1 DEF AckMove
    <2>2. CASE s # r
      <3>1. ack'[r] = ack[r]
        BY <1>0, <1>5, <2>2
           DEF AckStart, AckStep, MarkAcked, ReadAcked, MoveNotNeeded, Move,
               MoveHeals, MoveFindsNothing, UpdatePath, Refresh, Respond,
               AckGoes, AckAnswers
      <3> QED BY <1>1, <3>1
    <2> QED BY <2>1, <2>2
  <1>6. ASSUME NEW s \in Ack, NEW code \in AckCode, Fault(s, code)
        PROVE  AckMove(r)
    <2>1. CASE s = r
      BY <1>0, <1>6, <2>1 DEF Fault, AckRecord, AckMove, AckQuits
    <2>2. CASE s # r
      BY <1>0, <1>1, <1>6, <2>2 DEF Fault
    <2> QED BY <2>1, <2>2
  <1>7. ASSUME NEW s \in Ack, DatabaseFails(s) \/ MoveFails(s) \/ MkdirFails(s)
        PROVE  AckMove(r)
    BY <1>6, <1>7, AckValues DEF DatabaseFails, MoveFails, MkdirFails
  <1>8. ASSUME NEW g \in Get, NEW endpoint \in Endpoint,
               GetStart(g, endpoint) \/ GetCheck(g) \/ GetOpen(g)
        PROVE  AckMove(r)
    BY <1>1, <1>8 DEF GetStart, GetCheck, GetOpen
  <1>9. CASE UNCHANGED vars
    BY <1>1, <1>9 DEF vars
  <1>10. Endpoint # {}
    BY DEF Endpoint
  <1> QED BY <1>2, <1>3, <1>4, <1>5, <1>7, <1>8, <1>9, <1>10 DEF Next

LEMMA GetMoves == TypeOK /\ [Next]_vars => \A g \in Get : GetMove(g)
  <1> SUFFICES ASSUME TypeOK, [Next]_vars, NEW g \in Get PROVE GetMove(g)
    OBVIOUS
  <1>0. get \in [Get -> GetRecord]
    BY DEF TypeOK
  <1>1. CASE get'[g] = get[g]
    BY <1>1 DEF GetMove, GetRests
  <1>2. CASE WriteTranscript \/ FinishJob \/ FailJob \/ Drag
             \/ \E place \in Place : Remove(place)
    BY <1>1, <1>2 DEF WriteTranscript, FinishJob, FailJob, Drag, Remove
  <1>3. CASE StaleWrite \/ WriteBreaks
    BY <1>1, <1>3
       DEF StaleWrite, WriteBreaks, TearReads, Reading, GetMove, GetTorn
  <1>4. CASE Crash
    BY <1>1, <1>4 DEF Crash, GetMove
  <1>6. ASSUME NEW r \in Ack,
               \/ AckStart(r) \/ AckStep(r)
               \/ DatabaseFails(r) \/ MoveFails(r) \/ MkdirFails(r)
        PROVE  GetMove(g)
    BY <1>1, <1>6
       DEF AckStart, AckStep, MarkAcked, ReadAcked, MoveNotNeeded, Move,
           MoveHeals, MoveFindsNothing, UpdatePath, Refresh, Respond, DatabaseFails,
           MoveFails, MkdirFails, Fault
  <1>7. ASSUME NEW h \in Get, NEW endpoint \in Endpoint,
               GetStart(h, endpoint) \/ GetCheck(h) \/ GetOpen(h)
        PROVE  GetMove(g)
    <2>1. CASE h = g
      BY <1>7, <2>1 DEF GetMove
    <2>2. CASE h # g
      <3>1. get'[g] = get[g]
        BY <1>0, <1>7, <2>2 DEF GetStart, GetCheck, GetOpen, GetAnswers
      <3> QED BY <1>1, <3>1
    <2> QED BY <2>1, <2>2
  <1>8. CASE UNCHANGED vars
    BY <1>1, <1>8 DEF vars
  <1>9. Endpoint # {}
    BY DEF Endpoint
  <1> QED BY <1>2, <1>3, <1>4, <1>6, <1>7, <1>8, <1>9 DEF Next

\* What each step of an acknowledgement leaves in its record.
Shows(r, label, place, code) ==
    /\ ack'[r].pc = label /\ ack'[r].path = place /\ ack'[r].code = code
Proceeds(r, label, place) ==
    /\ Shows(r, label, place, ack[r].code)
    /\ ack'[r].moved = ack[r].moved /\ ack'[r].calm = ack[r].calm
Answers(r) ==
    /\ Shows(r, "idle", ack[r].path, 200)
    /\ ack'[r].newly = ack[r].newly /\ ack'[r].calm = ack[r].calm

LEMMA AckEffects ==
    ASSUME TypeOK, NEW r \in Ack
    PROVE  /\ AckStart(r) =>
                 /\ ~ack'[r].newly /\ ~ack'[r].moved
                 /\ \/ /\ status = "done" /\ Shows(r, "marking", "none", 0)
                       /\ ack'[r].calm => Findable
                    \/ Shows(r, "idle", "none", 409) /\ ~ack'[r].calm
           /\ MarkAcked(r) =>
                 /\ Proceeds(r, "reading", ack[r].path)
                 /\ ack'[r].newly <=> ackedAt = 0
           /\ ReadAcked(r) =>
                 Proceeds(r, "moving", path) /\ ack'[r].newly = ack[r].newly
           /\ MoveNotNeeded(r) => Answers(r) /\ ack'[r].moved
           /\ Move(r) =>
                 /\ Proceeds(r, "updating", ack[r].path)
                 /\ ack'[r].newly = ack[r].newly
           /\ MoveHeals(r) =>
                 /\ Proceeds(r, "updating", ack[r].path)
                 /\ ack'[r].newly = ack[r].newly
           /\ MoveFindsNothing(r) => Answers(r) /\ ~ack'[r].moved
           /\ UpdatePath(r) =>
                 /\ Proceeds(r, "refreshing", ack[r].path)
                 /\ ack'[r].newly = ack[r].newly
           /\ Refresh(r) =>
                 Proceeds(r, "responding", path) /\ ack'[r].newly = ack[r].newly
           /\ Respond(r) => Answers(r) /\ (ack'[r].moved <=> InTrash(r))
  <1>0. ack \in [Ack -> AckRecord] /\ ack[r] \in AckRecord
    BY DEF TypeOK
  <1> USE <1>0 DEF AckRecord, Shows, Proceeds, Answers
  <1>1. ASSUME AckStart(r)
        PROVE  /\ ~ack'[r].newly /\ ~ack'[r].moved
               /\ \/ /\ status = "done" /\ Shows(r, "marking", "none", 0)
                     /\ ack'[r].calm => Findable
                  \/ Shows(r, "idle", "none", 409) /\ ~ack'[r].calm
    <2> DEFINE new(b) == [NoAck EXCEPT !.pc = "marking", !.calm = b]
    <2>1. \/ status = "done" /\ ack'[r] = new(Findable)
          \/ ack'[r] = [NoAck EXCEPT !.code = 409]
      BY <1>1 DEF AckStart
    <2>2. \A b : /\ new(b).pc = "marking" /\ new(b).path = "none"
                 /\ new(b).code = 0 /\ new(b).calm = b
                 /\ new(b).newly = FALSE /\ new(b).moved = FALSE
      BY DEF NoAck
    <2> HIDE DEF new
    <2>3. CASE status = "done" /\ ack'[r] = new(Findable)
      <3>1. /\ new(Findable).pc = "marking" /\ new(Findable).path = "none"
            /\ new(Findable).code = 0
            /\ new(Findable).newly = FALSE /\ new(Findable).moved = FALSE
        BY <2>2
      <3>2. new(Findable).calm = Findable
        BY <2>2, Zenon
      <3>3. ack'[r].calm = Findable
        BY <2>3, <3>2, Zenon
      <3>4. ack'[r].calm => Findable
        BY <3>3, Zenon
      <3> QED BY <2>3, <3>1, <3>4 DEF Shows
    <2>4. CASE ack'[r] = [NoAck EXCEPT !.code = 409]
      BY <2>4 DEF NoAck
    <2> QED BY <2>1, <2>3, <2>4
  <1>2. ASSUME MarkAcked(r)
        PROVE  /\ Proceeds(r, "reading", ack[r].path)
               /\ ack'[r].newly <=> ackedAt = 0
    BY <1>2 DEF MarkAcked
  <1>3. ASSUME ReadAcked(r)
        PROVE  Proceeds(r, "moving", path) /\ ack'[r].newly = ack[r].newly
    BY <1>3 DEF ReadAcked
  <1>4. ASSUME MoveNotNeeded(r) PROVE Answers(r) /\ ack'[r].moved
    BY <1>4 DEF MoveNotNeeded, AckAnswers
  <1>5. ASSUME Move(r) \/ MoveHeals(r)
        PROVE  /\ Proceeds(r, "updating", ack[r].path)
               /\ ack'[r].newly = ack[r].newly
    BY <1>5 DEF Move, MoveHeals, AckGoes
  <1>6. ASSUME MoveFindsNothing(r) PROVE Answers(r) /\ ~ack'[r].moved
    BY <1>6 DEF MoveFindsNothing, AckAnswers
  <1>7. ASSUME UpdatePath(r)
        PROVE  /\ Proceeds(r, "refreshing", ack[r].path)
               /\ ack'[r].newly = ack[r].newly
    BY <1>7 DEF UpdatePath, AckGoes
  <1>8. ASSUME Refresh(r)
        PROVE  Proceeds(r, "responding", path) /\ ack'[r].newly = ack[r].newly
    BY <1>8 DEF Refresh
  <1>9. ASSUME Respond(r)
        PROVE  Answers(r) /\ (ack'[r].moved <=> InTrash(r))
    BY <1>9 DEF Respond, AckAnswers
  <1> HIDE DEF AckRecord, Shows, Proceeds, Answers
  <1> QED BY <1>1, <1>2, <1>3, <1>4, <1>5, <1>6, <1>7, <1>8, <1>9, Zenon

-----------------------------------------------------------------------------
(* The invariant is inductive                                              *)

LEMMA InitIInv == Init => IInv
  <1> SUFFICES ASSUME Init PROVE IInv
    OBVIOUS
  <1>1. TypeOK
    BY InitType
  <1>2. /\ \A r \in Ack : ack[r] = NoAck
        /\ \A g \in Get : get[g] = NoGet
    BY DEF Init
  <1>3. \A r \in Ack : AckFits(r) /\ CalmAckFinds(r)
    BY <1>2 DEF AckFits, CalmAckFinds, NoAck
  <1>4. \A g \in Get : GetFits(g)
    BY <1>2 DEF GetFits, NoGet
  <1>5. OneFirstAck
    BY <1>2 DEF OneFirstAck, NoAck
  <1>6. /\ DoneHasPath /\ TrashIsAcked /\ TranscriptIsKept /\ RowFindsFile
        /\ FollowedFileStays /\ NoParts
    BY DEF Init, DoneHasPath, TrashIsAcked, TranscriptIsKept, RowFindsFile,
           FollowedFileStays, NoParts
  <1> QED BY <1>1, <1>3, <1>4, <1>5, <1>6 DEF IInv

\* What the row has reached stays.
LEMMA RowOnlyGrows ==
    ASSUME IInv, RowStep
    PROVE  /\ status = "done" => status' = "done"
           /\ ackedAt # 0 => ackedAt' = ackedAt
           /\ path = "trash" => path' = "trash"
           /\ DoneHasPath'
  <1> USE DEF IInv, DoneHasPath
  <1>1. CASE UNCHANGED rowVars
    BY <1>1 DEF rowVars
  <1>2. CASE Finishes
    BY <1>2 DEF Finishes
  <1>3. CASE Acknowledges
    BY <1>3 DEF Acknowledges
  <1>4. CASE Follows
    BY <1>4 DEF Follows, AckFits
  <1> QED BY <1>1, <1>2, <1>3, <1>4 DEF RowStep

\* Only the operator and lts-trash-cleanup take a file out of trash/.
LEMMA TrashStays ==
    ASSUME FilesStep, ~Disturbs, "trash" \in files
    PROVE  "trash" \in files'
  BY DEF FilesStep, Keeps, Moves

\* A file that an acknowledgement would find stays so.
LEMMA FindableStays ==
    ASSUME IInv, FilesStep, RowStep, \A s \in Ack : AckMove(s),
           ~Disturbs, Findable
    PROVE  Findable'
  <1>1. CASE "trash" \in files
    BY <1>1, TrashStays DEF Findable
  <1>2. CASE Moves
    BY <1>2 DEF Moves, Findable
  <1>3. CASE "trash" \notin files /\ Keeps
    <2>1. path \in files /\ \A s \in Ack : ack[s].pc # "updating"
      BY <1>3 DEF Findable
    <2>2. path # "none" /\ status = "done"
      BY <2>1 DEF IInv, TypeOK, Place, DoneHasPath
    <2>3. path' = path
      BY <2>1, <2>2 DEF RowStep, rowVars, Finishes, Acknowledges, Follows
    <2>4. path' \in files'
      BY <1>3, <2>1, <2>3 DEF Keeps
    <2>5. ASSUME NEW s \in Ack PROVE ack'[s].pc # "updating"
      <3>1. ack[s].pc # "updating"
        BY <2>1
      <3>2. ~Move(s) /\ ~MoveHeals(s)
        BY <1>3 DEF Keeps, Move, MoveHeals, Canonical
      <3>3. CASE AckRests(s) \/ AckQuits(s)
        BY <3>1, <3>3 DEF AckRests, AckQuits
      <3>4. CASE AckStart(s) \/ AckStep(s)
        BY <3>1, <3>2, <3>4, AckEffects
           DEF IInv, AckStep, UpdatePath, Shows, Proceeds, Answers
      <3> QED BY <3>3, <3>4 DEF AckMove
    <2> QED BY <2>4, <2>5 DEF Findable
  <1> QED BY <1>1, <1>2, <1>3 DEF FilesStep

LEMMA AckFitsStays ==
    ASSUME IInv, FilesStep, RowStep, NEW r \in Ack, AckMove(r)
    PROVE  AckFits(r)'
  <1>1. TypeOK /\ AckFits(r) /\ DoneHasPath /\ ack[r] \in AckRecord
    BY DEF IInv, TypeOK
  <1>2. /\ status = "done" => status' = "done"
        /\ ackedAt # 0 => ackedAt' # 0
        /\ path = "trash" => path' = "trash"
    BY RowOnlyGrows
  <1>3. interventions' = 0 => interventions = 0 /\ ~Disturbs
    BY <1>1 DEF FilesStep, Keeps, Moves, Disturbs, TypeOK
  <1>4. interventions' = 0 /\ "trash" \in files => "trash" \in files'
    BY <1>3, TrashStays
  <1>5. CASE AckRests(r) \/ AckQuits(r)
    BY <1>1, <1>2, <1>3, <1>4, <1>5 DEF AckFits, AckRests, AckQuits
  <1>6. CASE AckStart(r)
    <2>1. /\ \/ Shows(r, "marking", "none", 0) /\ status = "done"
             \/ Shows(r, "idle", "none", 409)
          /\ ~ack'[r].newly /\ ~ack'[r].moved
      BY <1>1, <1>6, AckEffects
    <2> QED BY <1>2, <2>1 DEF AckFits, Shows
  <1>7. CASE MarkAcked(r)
    <2>1. Proceeds(r, "reading", ack[r].path)
      BY <1>1, <1>7, AckEffects
    <2>2. status = "done" /\ ackedAt' # 0 /\ ack[r].code = 0 /\ ~ack[r].moved
      BY <1>1, <1>7 DEF MarkAcked, AckFits
    <2> QED BY <1>1, <1>2, <2>1, <2>2 DEF AckFits, Proceeds, Shows
  <1>8. CASE ReadAcked(r)
    <2>1. Proceeds(r, "moving", path) /\ ack'[r].newly = ack[r].newly
      BY <1>1, <1>8, AckEffects
    <2> QED BY <1>1, <1>2, <1>8, <2>1 DEF ReadAcked, AckFits, Proceeds, Shows
  <1>9. CASE MoveNotNeeded(r) \/ MoveFindsNothing(r) \/ Respond(r)
    <2>1. /\ Answers(r)
          /\ ack'[r].moved => InTrash(r)
      BY <1>1, <1>9, AckEffects DEF MoveNotNeeded
    <2>2. ack[r].pc # "idle" /\ ack[r].pc # "marking"
      BY <1>9 DEF MoveNotNeeded, MoveFindsNothing, Respond
    <2> QED BY <1>1, <1>2, <2>1, <2>2 DEF AckFits, Answers, Shows, InTrash
  <1>10. CASE Move(r) \/ MoveHeals(r)
    <2>1. Proceeds(r, "updating", ack[r].path) /\ ack'[r].newly = ack[r].newly
      BY <1>1, <1>10, AckEffects
    <2>2. ack[r].pc = "moving" /\ "trash" \in files'
      BY <1>10 DEF Move, MoveHeals, Canonical
    <2> QED BY <1>1, <1>2, <2>1, <2>2 DEF AckFits, Proceeds, Shows
  <1>11. CASE UpdatePath(r)
    <2>1. Proceeds(r, "refreshing", ack[r].path) /\ ack'[r].newly = ack[r].newly
      BY <1>1, <1>11, AckEffects
    <2>2. ack[r].pc = "updating" /\ path' = "trash"
      BY <1>11 DEF UpdatePath
    <2> QED BY <1>1, <1>2, <2>1, <2>2 DEF AckFits, Proceeds, Shows
  <1>12. CASE Refresh(r)
    <2>1. Proceeds(r, "responding", path) /\ ack'[r].newly = ack[r].newly
      BY <1>1, <1>12, AckEffects
    <2>2. ack[r].pc = "refreshing"
      BY <1>12 DEF Refresh
    <2> QED BY <1>1, <1>2, <2>1, <2>2 DEF AckFits, Proceeds, Shows
  <1> QED BY <1>5, <1>6, <1>7, <1>8, <1>9, <1>10, <1>11, <1>12
          DEF AckMove, AckStep

LEMMA CalmAckFindsStays ==
    ASSUME IInv, FilesStep, RowStep, \A s \in Ack : AckMove(s), NEW r \in Ack
    PROVE  CalmAckFinds(r)'
  <1> SUFFICES ASSUME ack'[r].calm
               PROVE  /\ ack'[r].pc \in {"marking", "reading"} => Findable'
                      /\ ack'[r].pc = "moving" =>
                            \/ "trash" \in files'
                            \/ ack'[r].path = "results" /\ "results" \in files'
                      /\ ack'[r].pc \in {"updating", "refreshing", "responding"}
                            => "trash" \in files'
                      /\ ack'[r].code = 200 => ack'[r].moved
    BY DEF CalmAckFinds
  <1>1. TypeOK /\ AckFits(r) /\ CalmAckFinds(r) /\ DoneHasPath
    BY DEF IInv
  <1>2. ~Disturbs
    BY DEF Disturbs
  <1>3. /\ "trash" \in files => "trash" \in files'
        /\ "results" \in files => "results" \in files' \/ "trash" \in files'
        /\ Findable => Findable'
    BY <1>2, TrashStays, FindableStays DEF FilesStep, Keeps, Moves
  <1>4. CASE AckRests(r)
    BY <1>1, <1>3, <1>4 DEF AckRests, CalmAckFinds
  <1>5. CASE AckQuits(r)
    BY <1>5 DEF AckQuits
  <1>6. CASE AckStart(r)
    <2>1. Shows(r, "marking", "none", 0) /\ Findable
      BY <1>1, <1>6, AckEffects
    <2> QED BY <1>3, <2>1 DEF Shows
  <1>7. CASE MarkAcked(r)
    <2>1. Proceeds(r, "reading", ack[r].path) /\ ack[r].pc = "marking"
      BY <1>1, <1>7, AckEffects DEF MarkAcked
    <2> QED BY <1>1, <1>3, <2>1 DEF CalmAckFinds, AckFits, Proceeds, Shows
  <1>8. CASE ReadAcked(r)
    <2>1. Proceeds(r, "moving", path) /\ ack[r].pc = "reading"
      BY <1>1, <1>8, AckEffects DEF ReadAcked
    <2>2. "trash" \in files \/ (path = "results" /\ "results" \in files)
      BY <1>1, <2>1 DEF CalmAckFinds, Findable, TypeOK, Place, Proceeds
    <2>3. files' = files /\ ack[r].code = 0
      BY <1>1, <1>8, <2>1 DEF ReadAcked, AckFits
    <2> QED BY <2>1, <2>2, <2>3 DEF Proceeds, Shows
  <1>9. CASE MoveNotNeeded(r)
    <2>1. Answers(r) /\ ack'[r].moved
      BY <1>1, <1>9, AckEffects
    <2> QED BY <2>1 DEF Answers, Shows
  <1>10. CASE Move(r) \/ MoveHeals(r)
    <2>1. Proceeds(r, "updating", ack[r].path)
      BY <1>1, <1>10, AckEffects
    <2>2. ack[r].pc = "moving" /\ "trash" \in files'
      BY <1>10 DEF Move, MoveHeals, Canonical
    <2> QED BY <1>1, <2>1, <2>2 DEF AckFits, Proceeds, Shows
  <1>11. CASE MoveFindsNothing(r)
    <2>1. ack[r].calm
      BY <1>1, <1>11, AckEffects DEF Answers
    <2>2. /\ ack[r].pc = "moving" /\ ~Source(r) /\ ~Canonical(r) /\ ~InTrash(r)
      BY <1>11 DEF MoveFindsNothing
    <2>3. "trash" \in files /\ ack[r].path \notin files
          /\ ack[r].path # "results" /\ ack[r].path # "trash"
      BY <1>1, <2>1, <2>2 DEF CalmAckFinds, Source, Canonical, InTrash
    <2>4. ack[r].path \in Place
      BY <1>1, <2>2 DEF TypeOK, AckRecord
    <2> QED BY <2>3, <2>4 DEF Place
  <1>12. CASE UpdatePath(r)
    <2>1. Proceeds(r, "refreshing", ack[r].path) /\ ack[r].pc = "updating"
      BY <1>1, <1>12, AckEffects DEF UpdatePath
    <2> QED BY <1>1, <1>3, <2>1 DEF CalmAckFinds, AckFits, Proceeds, Shows
  <1>13. CASE Refresh(r)
    <2>1. Proceeds(r, "responding", path) /\ ack[r].pc = "refreshing"
      BY <1>1, <1>13, AckEffects DEF Refresh
    <2> QED BY <1>1, <1>3, <2>1 DEF CalmAckFinds, AckFits, Proceeds, Shows
  <1>14. CASE Respond(r)
    <2>1. Answers(r) /\ (ack'[r].moved <=> InTrash(r)) /\ ack[r].pc = "responding"
      BY <1>1, <1>14, AckEffects DEF Respond
    <2>2. InTrash(r)
      BY <1>1, <2>1 DEF CalmAckFinds, AckFits, Answers, InTrash
    <2> QED BY <2>1, <2>2 DEF Answers, Shows
  <1> QED BY <1>4, <1>5, <1>6, <1>7, <1>8, <1>9, <1>10, <1>11, <1>12, <1>13,
             <1>14 DEF AckMove, AckStep

\* Failures are counted, and without them no text is cut short.
LEMMA FaultsStay ==
    TypeOK /\ [Next]_vars /\ faults' = 0 =>
        faults = 0 /\ (parts = {} => parts' = {})
  <1> SUFFICES ASSUME TypeOK, [Next]_vars
               PROVE  /\ faults' \in {faults, faults + 1}
                      /\ faults' = faults /\ parts = {} => parts' = {}
    BY DEF TypeOK
  <1>0. faults \in Nat
    BY DEF TypeOK
  <1>1. CASE WriteTranscript \/ StaleWrite \/ FinishJob \/ FailJob
    BY <1>1 DEF WriteTranscript, StaleWrite, FinishJob, FailJob, countVars
  <1>2. CASE Crash \/ Drag \/ \E place \in Place : Remove(place)
    BY <1>2 DEF Crash, Drag, Remove
  <1>3. ASSUME NEW r \in Ack, AckStart(r) \/ AckStep(r)
        PROVE  faults' = faults /\ (parts = {} => parts' = {})
    BY <1>3
       DEF AckStart, AckStep, MarkAcked, ReadAcked, MoveNotNeeded, Move,
           MoveHeals, MoveFindsNothing, UpdatePath, Refresh, Respond, countVars
  <1>4. ASSUME NEW r \in Ack, DatabaseFails(r) \/ MoveFails(r) \/ MkdirFails(r)
        PROVE  faults' = faults + 1
    BY <1>4 DEF DatabaseFails, MoveFails, MkdirFails, Fault
  <1>5. ASSUME NEW g \in Get, NEW endpoint \in Endpoint,
               GetStart(g, endpoint) \/ GetCheck(g) \/ GetOpen(g)
        PROVE  faults' = faults /\ parts' = parts
    BY <1>5 DEF GetStart, GetCheck, GetOpen, countVars
  <1>6. CASE UNCHANGED vars
    BY <1>6 DEF vars
  <1>7. CASE WriteBreaks
    BY <1>7 DEF WriteBreaks
  <1>8. Endpoint # {}
    BY DEF Endpoint
  <1>9. faults' = faults + 1 => faults' # faults
    BY <1>0
  <1> QED BY <1>1, <1>2, <1>3, <1>4, <1>5, <1>6, <1>7, <1>8, <1>9 DEF Next

LEMMA FollowedFileStaysStays ==
    ASSUME IInv, FilesStep, RowStep
    PROVE  FollowedFileStays'
  <1> SUFFICES ASSUME path' = "trash", interventions' = 0
               PROVE  "trash" \in files'
    BY DEF FollowedFileStays
  <1>1. interventions = 0 /\ ~Disturbs
    BY DEF IInv, TypeOK, FilesStep, Keeps, Moves, Disturbs
  <1>2. CASE path = "trash"
    BY <1>1, <1>2, TrashStays DEF IInv, FollowedFileStays
  <1>3. CASE path # "trash"
    <2>1. Follows
      BY <1>3 DEF RowStep, rowVars, Finishes, Acknowledges
    <2> QED BY <1>1, <2>1 DEF Follows, IInv, AckFits
  <1> QED BY <1>2, <1>3

LEMMA GetFitsStays ==
    ASSUME IInv, [Next]_vars, FilesStep, RowStep, NEW g \in Get, GetMove(g)
    PROVE  GetFits(g)'
  <1>1. /\ get \in [Get -> GetRecord] /\ get[g] \in GetRecord /\ GetFits(g)
        /\ status = "done" => status' = "done"
        /\ path = "trash" => path' = "trash"
    BY RowOnlyGrows DEF IInv, TypeOK
  <1>2. /\ interventions' = 0 => interventions = 0
        /\ faults' = 0 => faults = 0
    BY FaultsStay DEF IInv, TypeOK, FilesStep, Keeps, Moves, Disturbs
  <1>3. CASE GetRests(g)
    BY <1>1, <1>2, <1>3 DEF GetRests, GetFits
  <1>4. CASE get'[g] = NoGet
    BY <1>4 DEF NoGet, GetFits
\* A torn read was one of results/: the reader was not told of a move.
  <1>5. CASE GetTorn(g)
    <2>1. get[g].pc = "opening" /\ get[g].path = "results"
      BY <1>5 DEF GetTorn, Reading
    <2>2. ~get[g].confirmed
      BY <1>1, <2>1 DEF GetFits
    <2>3. /\ get'[g].pc = "idle" /\ get'[g].path = "results"
          /\ get'[g].confirmed = get[g].confirmed
      BY <1>1, <1>5, <2>1 DEF GetTorn, GetRecord
    <2> QED BY <2>2, <2>3 DEF GetFits
  <1>6. ASSUME NEW endpoint \in Endpoint, GetStart(g, endpoint)
        PROVE  GetFits(g)'
    <2> DEFINE started == [NoGet EXCEPT !.endpoint = endpoint]
               refusal == CASE endpoint = "job"   -> 200
                            [] status = "failed"  -> 410
                            [] OTHER              -> 404
               new(b) == [started EXCEPT !.pc = "checking", !.path = path,
                                         !.confirmed = b]
    <2>2. CASE status = "done"
      <3>1. get'[g] = new(Confirmed)
        BY <1>1, <1>6, <2>2 DEF GetStart
      <3>2. \A b : /\ new(b).pc = "checking" /\ new(b).path = path
                   /\ new(b).code = 0 /\ new(b).confirmed = b
        BY DEF NoGet
      <3> HIDE DEF new
      <3>3. get'[g].confirmed = Confirmed
        BY <3>1, <3>2, Zenon
      <3>4. Confirmed => path = "trash"
        BY DEF Confirmed, IInv, AckFits
      <3>5. get'[g].confirmed => path = "trash"
        BY <3>3, <3>4, Zenon
      <3>6. /\ get'[g].pc = "checking" /\ get'[g].path = path
            /\ get'[g].code = 0
        BY <3>1, <3>2
      <3> QED BY <1>1, <2>2, <3>5, <3>6 DEF GetFits
    <2>3. CASE status # "done"
      <3>1. get'[g] = [started EXCEPT !.code = refusal]
        BY <1>1, <1>6, <2>3 DEF GetStart
      <3> HIDE DEF refusal
      <3>2. get'[g].pc = "idle" /\ ~get'[g].confirmed /\ get'[g].path = "none"
        BY <3>1 DEF NoGet
      <3> QED BY <3>2 DEF GetFits
    <2> QED BY <2>2, <2>3
  <1>7. CASE GetCheck(g) \/ GetOpen(g)
    <2>1. /\ get[g].pc # "idle" /\ status = "done" /\ get[g].code = 0
          /\ UNCHANGED <<rowVars, files, parts, countVars>>
      BY <1>1, <1>7 DEF GetCheck, GetOpen, GetFits
\* What the row said is true for ever, and the file is where it points.
    <2>2. get[g].confirmed /\ interventions = 0 =>
             /\ get[g].path \in files
             /\ faults = 0 => get[g].path \notin parts
      BY <1>1, <2>1 DEF GetFits, IInv, FollowedFileStays, NoParts
    <2>3. CASE GetCheck(g) /\ get[g].path \in files
      <3>1. get' = [get EXCEPT ![g].pc = "opening"]
        BY <2>3 DEF GetCheck
      <3>2. /\ get'[g].path = get[g].path /\ get'[g].code = get[g].code
            /\ get'[g].confirmed = get[g].confirmed
            /\ get'[g].pc = "opening"
        BY <1>1, <3>1 DEF GetRecord
      <3> QED BY <1>1, <2>1, <3>2 DEF GetFits
    <2>4. ASSUME NEW code, NEW text, GetAnswers(g, code, text),
                 \/ get[g].path \notin files
                 \/ text # "none" /\ (text = "whole" \/ get[g].path \in parts)
          PROVE  GetFits(g)'
      <3>1. /\ get'[g].pc = "idle" /\ get'[g].path = get[g].path
            /\ get'[g].confirmed = get[g].confirmed
            /\ get'[g].served = text
        BY <1>1, <2>4 DEF GetAnswers, GetRecord
      <3>2. interventions' = interventions /\ faults' = faults
        BY <2>1 DEF countVars
      <3> QED BY <1>1, <2>2, <2>4, <3>1, <3>2 DEF GetFits
    <2>5. CASE get[g].path \notin files
      <3>1. PICK code : GetAnswers(g, code, "none")
        BY <1>7, <2>5 DEF GetCheck, GetOpen
      <3> QED BY <2>4, <2>5, <3>1
    <2>6. CASE GetOpen(g) /\ get[g].path \in files
      <3>1. GetAnswers(g, 200, IF get[g].path \in parts THEN "part"
                                                        ELSE "whole")
        BY <2>6 DEF GetOpen
      <3>2. CASE get[g].path \in parts
        BY <2>4, <3>1, <3>2
      <3>3. CASE get[g].path \notin parts
        BY <2>4, <3>1, <3>3
      <3> QED BY <3>2, <3>3
    <2> QED BY <1>7, <2>3, <2>5, <2>6
  <1> QED BY <1>3, <1>4, <1>5, <1>6, <1>7 DEF GetMove

\* Only the UPDATE that sets acked_at makes an acknowledgement the first.
LEMMA NewlyAcked ==
    ASSUME TypeOK, NEW r \in Ack, AckMove(r), ack'[r].newly, ~ack[r].newly
    PROVE  MarkAcked(r) /\ ackedAt = 0
  <1>1. CASE AckRests(r) \/ AckQuits(r)
    BY <1>1 DEF AckRests, AckQuits
  <1>2. CASE AckStart(r)
    BY <1>2, AckEffects
  <1>3. CASE AckStep(r)
    <2>1. ~ReadAcked(r) /\ ~MoveNotNeeded(r) /\ ~Move(r) /\ ~MoveHeals(r)
      BY AckEffects DEF Answers
    <2>2. ~MoveFindsNothing(r) /\ ~UpdatePath(r) /\ ~Refresh(r) /\ ~Respond(r)
      BY AckEffects DEF Answers
    <2>3. MarkAcked(r)
      BY <1>3, <2>1, <2>2 DEF AckStep
    <2> QED BY <2>3, AckEffects
  <1> QED BY <1>1, <1>2, <1>3 DEF AckMove

LEMMA OneFirstAckStays ==
    ASSUME IInv, \A s \in Ack : AckMove(s)
    PROVE  OneFirstAck'
  <1> SUFFICES ASSUME NEW r \in Ack, NEW s \in Ack,
                      ack'[r].newly, ack'[s].newly, r # s
               PROVE  FALSE
    BY DEF OneFirstAck
  <1>1. /\ TypeOK /\ ack \in [Ack -> AckRecord]
        /\ ~(ack[r].newly /\ ack[s].newly)
        /\ \A q \in Ack : ack[q].newly => ackedAt # 0
    BY DEF IInv, TypeOK, OneFirstAck, AckFits
  <1>2. ASSUME NEW p \in Ack, NEW q \in Ack, p # q, MarkAcked(p), ackedAt = 0
        PROVE  ~ack'[q].newly
    <2>1. ack'[q] = ack[q]
      BY <1>1, <1>2 DEF MarkAcked
    <2> QED BY <1>1, <1>2, <2>1
  <1>3. CASE ~ack[r].newly
    BY <1>1, <1>2, <1>3, NewlyAcked
  <1>4. CASE ~ack[s].newly
    BY <1>1, <1>2, <1>4, NewlyAcked
  <1> QED BY <1>1, <1>3, <1>4

LEMMA FilesHoldTranscript ==
    ASSUME IInv, TypeOK', FilesStep, RowStep, \A r \in Ack : AckMove(r)
    PROVE  TrashIsAcked' /\ TranscriptIsKept'
  <1>1. interventions \in Nat /\ TrashIsAcked /\ TranscriptIsKept
    BY DEF IInv, TypeOK
  <1>2. ackedAt # 0 => ackedAt' # 0
    BY RowOnlyGrows
  <1>3. Moves => ackedAt # 0
    BY DEF Moves, IInv, AckFits
  <1>4. TrashIsAcked'
    BY <1>1, <1>2, <1>3 DEF TrashIsAcked, FilesStep, Keeps, Disturbs
  <1>5. ASSUME status' = "done", interventions' = 0 PROVE files' # {}
    <2>1. ~Disturbs /\ interventions = 0
      BY <1>1, <1>5 DEF FilesStep, Disturbs, Keeps, Moves
    <2>2. CASE status = "done"
      BY <1>1, <2>1, <2>2 DEF TranscriptIsKept, FilesStep, Keeps, Moves
    <2>3. CASE status # "done"
      BY <1>5, <2>3
         DEF RowStep, rowVars, Finishes, Acknowledges, Follows
    <2> QED BY <2>2, <2>3
  <1> QED BY <1>4, <1>5 DEF TranscriptIsKept

\* Without a failure an acknowledgement that moved the file updates the row.
LEMMA UpdatingStays ==
    ASSUME IInv, NEW r \in Ack, AckMove(r), ack[r].pc = "updating",
           faults' = 0
    PROVE  ack'[r].pc = "updating" \/ UpdatePath(r)
  BY DEF AckMove, AckRests, AckQuits, AckStart, AckStep, MarkAcked, ReadAcked,
         MoveNotNeeded, Move, MoveHeals, MoveFindsNothing, Refresh, Respond

LEMMA RowFindsFileStays ==
    ASSUME IInv, [Next]_vars, FilesStep, RowStep, \A r \in Ack : AckMove(r)
    PROVE  RowFindsFile'
  <1> SUFFICES ASSUME status' = "done", faults' = 0, interventions' = 0
               PROVE  \/ path' \in files'
                      \/ \E r \in Ack : ack'[r].pc = "updating"
    BY DEF RowFindsFile
  <1>1. /\ faults = 0 /\ interventions = 0 /\ ~Disturbs
        /\ status = "done" =>
              path \in files \/ \E r \in Ack : ack[r].pc = "updating"
    BY FaultsStay
       DEF IInv, TypeOK, RowFindsFile, FilesStep, Keeps, Moves, Disturbs
  <1>2. \A r \in Ack : ack[r].pc = "updating" => "trash" \in files
    BY <1>1 DEF IInv, AckFits
  <1>3. CASE Finishes
    BY <1>3 DEF Finishes
  <1>4. CASE Follows
    BY <1>2, <1>4 DEF Follows
  <1>5. CASE UNCHANGED rowVars \/ Acknowledges
    <2>1. status = "done" /\ path' = path
      BY <1>5 DEF rowVars, Acknowledges
    <2>2. CASE path \in files
      BY <1>1, <2>1, <2>2 DEF FilesStep, Keeps, Moves
    <2>3. ASSUME NEW r \in Ack, ack[r].pc = "updating"
          PROVE  path' \in files' \/ ack'[r].pc = "updating"
      <3>1. "trash" \in files'
        BY <1>1, <1>2, <2>3, TrashStays
      <3> QED BY <2>3, <3>1, UpdatingStays DEF UpdatePath
    <2> QED BY <1>1, <2>1, <2>2, <2>3
  <1> QED BY <1>3, <1>4, <1>5 DEF RowStep

LEMMA NextIInv == IInv /\ [Next]_vars => IInv'
  <1> SUFFICES ASSUME IInv, [Next]_vars PROVE IInv'
    OBVIOUS
  <1>1. /\ TypeOK' /\ FilesStep /\ RowStep
        /\ \A r \in Ack : AckMove(r)
        /\ \A g \in Get : GetMove(g)
    BY NextType, FilesSteps, RowSteps, AckMoves, GetMoves DEF IInv
  <1>2. DoneHasPath'
    BY <1>1, RowOnlyGrows
  <1>3. \A r \in Ack : AckFits(r)' /\ CalmAckFinds(r)'
    BY <1>1, AckFitsStays, CalmAckFindsStays
  <1>4. \A g \in Get : GetFits(g)'
    BY <1>1, GetFitsStays
  <1>6. FollowedFileStays' /\ NoParts'
    BY <1>1, FollowedFileStaysStays, FaultsStay DEF IInv, NoParts
  <1>5. OneFirstAck' /\ TrashIsAcked' /\ TranscriptIsKept' /\ RowFindsFile'
    BY <1>1, OneFirstAckStays, FilesHoldTranscript, RowFindsFileStays
  <1> QED BY <1>1, <1>2, <1>3, <1>4, <1>5, <1>6 DEF IInv

LEMMA Invariance == Spec => []IInv
  BY InitIInv, NextIInv, PTL DEF Spec

-----------------------------------------------------------------------------
(* The theorems                                                            *)

\* The variables keep their types, and a handler past the row has a path:
\* ack_job's branches for a DONE job without transcript_path are dead.
THEOREM TypeCorrect == Spec => []TypeOK
  <1>1. IInv => TypeOK
    BY DEF IInv
  <1> QED BY <1>1, Invariance, PTL

\* However many acknowledgements run, retry or crash, one at most is told that
\* it was the first (mark_acked's rowcount).
THEOREM FirstAckIsOne == Spec => []OneFirstAck
  <1>1. IInv => OneFirstAck
    BY DEF IInv
  <1> QED BY <1>1, Invariance, PTL

\* acked_at is never changed once it is set.
THEOREM AckedAtStays == Spec => AckedAtIsKept
  <1>1. IInv /\ [Next]_vars => [ackedAt # 0 => ackedAt' = ackedAt]_vars
    BY RowSteps, RowOnlyGrows
  <1> QED BY <1>1, Invariance, PTL DEF Spec, AckedAtIsKept

\* No transcript reaches trash/ before the client has acknowledged it.
THEOREM TrashAfterAck == Spec => []TrashIsAcked
  <1>1. IInv => TrashIsAcked
    BY DEF IInv
  <1> QED BY <1>1, Invariance, PTL

\* After an answer transcript_moved = true the row points to trash/ for ever.
THEOREM MovedRowFollows == Spec => []MovedMeansRowFollows
  <1>1. IInv => MovedMeansRowFollows
    BY DEF IInv, MovedMeansRowFollows, AckFits
  <1> QED BY <1>1, Invariance, PTL

\* No late mark_done and no slow acknowledgement takes the path of the row back
\* to results/.
THEOREM PathStaysInTrash == Spec => PathNeverGoesBack
  <1>1. IInv /\ [Next]_vars => [path = "trash" => path' = "trash"]_vars
    BY RowSteps, RowOnlyGrows
  <1> QED BY <1>1, Invariance, PTL DEF Spec, PathNeverGoesBack

\* An acknowledgement that nothing disturbs finds the file and moves it,
\* whatever failed before it started and whichever others run with it.
THEOREM AckConverges == Spec => []UndisturbedAckConverges
  <1>1. IInv => UndisturbedAckConverges
    BY DEF IInv, UndisturbedAckConverges, CalmAckFinds
  <1> QED BY <1>1, Invariance, PTL

\* The service itself never loses the transcript of a DONE job.
THEOREM TranscriptKept == Spec => []TranscriptIsKept
  <1>1. IInv => TranscriptIsKept
    BY DEF IInv
  <1> QED BY <1>1, Invariance, PTL

\* Without failures and interventions the row names a place that holds the
\* file, but between an acknowledgement's move and its update.
THEOREM RowFollowsFile == Spec => []RowFindsFile
  <1>1. IInv => RowFindsFile
    BY DEF IInv
  <1> QED BY <1>1, Invariance, PTL

\* After an answer transcript_moved = true each GET that starts finds the
\* transcript, and all of it unless a write was cut short: whatever late runs
\* still write and other acknowledgements still move, until others remove it.
THEOREM ConfirmedServed == Spec => []ConfirmedIsServed
  <1>1. IInv => ConfirmedIsServed
    BY DEF IInv, ConfirmedIsServed, GetFits
  <1> QED BY <1>1, Invariance, PTL

-----------------------------------------------------------------------------
(* Transcripts implements TranscriptLifecycle                              *)

Verdicts == [r \in Ack |-> Verdict(r)]
Told     == [r \in Ack |-> ack[r].moved]

\* A step of one handler leaves what the others came to.
LEMMA OthersRest ==
    ASSUME TypeOK, NEW r \in Ack,
           \/ AckStart(r) \/ AckStep(r)
           \/ DatabaseFails(r) \/ MoveFails(r) \/ MkdirFails(r)
    PROVE  \A s \in Ack \ {r} : ack'[s] = ack[s]
  <1>1. ack \in [Ack -> AckRecord]
    BY DEF TypeOK
  <1>2. ASSUME NEW x, ack' = [ack EXCEPT ![r] = x]
        PROVE  \A s \in Ack \ {r} : ack'[s] = ack[s]
    BY <1>1, <1>2
  <1>3. AckStart(r) => \E x : ack' = [ack EXCEPT ![r] = x]
    BY DEF AckStart
  <1>4. AckStep(r) => \E x : ack' = [ack EXCEPT ![r] = x]
    <2>1. MarkAcked(r) \/ ReadAcked(r) \/ Refresh(r)
          => \E x : ack' = [ack EXCEPT ![r] = x]
      BY DEF MarkAcked, ReadAcked, Refresh
    <2>2. Move(r) \/ MoveHeals(r) \/ UpdatePath(r)
          => \E x : ack' = [ack EXCEPT ![r] = x]
      BY DEF Move, MoveHeals, UpdatePath, AckGoes
    <2>3. MoveNotNeeded(r) \/ MoveFindsNothing(r) \/ Respond(r)
          => \E x : ack' = [ack EXCEPT ![r] = x]
      BY DEF MoveNotNeeded, MoveFindsNothing, Respond, AckAnswers
    <2> QED BY <2>1, <2>2, <2>3 DEF AckStep
  <1>5. DatabaseFails(r) \/ MoveFails(r) \/ MkdirFails(r)
        => \E x : ack' = [ack EXCEPT ![r] = x]
    BY DEF DatabaseFails, MoveFails, MkdirFails, Fault
  <1> QED BY <1>2, <1>3, <1>4, <1>5

LEMMA OneVerdict ==
    ASSUME NEW r \in Ack, \A s \in Ack \ {r} : ack'[s] = ack[s]
    PROVE  /\ Verdicts' = [Verdicts EXCEPT ![r] = Verdict(r)']
           /\ Told' = [Told EXCEPT ![r] = ack'[r].moved]
  <1>1. \A s \in Ack \ {r} : Verdict(s)' = Verdict(s)
    BY DEF Verdict
  <1> QED BY <1>1 DEF Verdicts, Told

\* Nothing is seen of a step that changes no verdict and no answer.
LEMMA Unseen ==
    ASSUME \A r \in Ack : Verdict(r)' = Verdict(r)
                          /\ ack'[r].moved = ack[r].moved
    PROVE  Verdicts' = Verdicts /\ Told' = Told
  BY DEF Verdicts, Told

LEMMA InitTranscriptLifecycle == Init => Lifecycle!Init
  <1> SUFFICES ASSUME Init PROVE Lifecycle!Init
    OBVIOUS
  <1>1. \A r \in Ack : ack[r] = NoAck
    BY DEF Init
  <1>2. \A r \in Ack : Verdict(r) = "none" /\ ack[r].moved = FALSE
    BY <1>1 DEF Verdict, NoAck
  <1>3. status = "open" /\ path = "none" /\ ~(ackedAt # 0) /\ files = {}
    BY DEF Init
  <1> QED BY <1>2, <1>3 DEF Lifecycle!Init

\* Requests that come to nothing, together.
LEMMA Losing ==
    ASSUME NEW S \in SUBSET Ack, UNCHANGED <<status, path, ackedAt, files>>,
           \A r \in Ack :
              /\ ack[r].moved \in BOOLEAN
              /\ Verdict(r)' = IF r \in S THEN "none" ELSE Verdict(r)
              /\ ack'[r].moved = IF r \in S THEN FALSE ELSE ack[r].moved
    PROVE  Lifecycle!Next
  <1>1. Verdicts' = [r \in Ack |-> IF r \in S THEN "none" ELSE Verdicts[r]]
    BY DEF Verdicts
  <1>2. Told' = [r \in Ack |-> IF r \in S THEN FALSE ELSE Told[r]]
    BY DEF Told
  <1>3. \A r \in Ack : (IF r \in S THEN FALSE ELSE Told[r])
                          = (r \notin S /\ Told[r])
    BY DEF Told
  <1>4. Told' = [r \in Ack |-> r \notin S /\ Told[r]]
    BY <1>2, <1>3
  <1>5. Lifecycle!Lose(S)
    BY <1>1, <1>4 DEF Lifecycle!Lose, Verdicts, Told
  <1> QED BY <1>5 DEF Lifecycle!Next

\* What a place of the handler has come to, before and after a step.
LEMMA VerdictIs ==
    ASSUME NEW r \in Ack
    PROVE  /\ ack[r].pc = "marking" => Verdict(r) = "asked"
           /\ ack[r].pc \notin {"idle", "marking"} =>
                 Verdict(r) = IF ack[r].newly THEN "first" ELSE "again"
  BY DEF Verdict

LEMMA VerdictBecomes ==
    ASSUME NEW r \in Ack
    PROVE  /\ ack'[r].pc = "marking" => Verdict(r)' = "asked"
           /\ ack'[r].pc \notin {"idle", "marking"} =>
                 Verdict(r)' = IF ack'[r].newly THEN "first" ELSE "again"
  BY DEF Verdict

\* The steps of ack_job.  mark_acked's UPDATE is the moment of the
\* acknowledgement; the answer is true to what it observes.
LEMMA AckLifecycle ==
    ASSUME IInv, IInv', NEW r \in Ack, AckStart(r) \/ AckStep(r)
    PROVE  Lifecycle!Next \/ UNCHANGED Lifecycle!vars
  <1> DEFINE Stays == UNCHANGED <<status, path, ackedAt, files>>
  <1>1. /\ TypeOK /\ AckFits(r) /\ ack[r] \in AckRecord
        /\ ack'[r].moved \in BOOLEAN /\ ack[r].moved \in BOOLEAN
        /\ ack[r].newly \in BOOLEAN /\ ack'[r].newly \in BOOLEAN
        /\ ackedAt \in Nat /\ files \subseteq Place
    <2>1. TypeOK /\ AckFits(r) /\ TypeOK'
      BY DEF IInv
    <2>2. ack[r] \in AckRecord /\ ack'[r] \in AckRecord
          /\ ackedAt \in Nat /\ files \subseteq Place
      BY <2>1 DEF TypeOK
    <2> QED BY <2>1, <2>2 DEF AckRecord
  <1>2. \A s \in Ack \ {r} : ack'[s] = ack[s]
    BY <1>1, OthersRest
  <1>3. /\ Verdicts' = [Verdicts EXCEPT ![r] = Verdict(r)']
        /\ Told' = [Told EXCEPT ![r] = ack'[r].moved]
    BY <1>2, OneVerdict
  <1>4. /\ Verdicts[r] = Verdict(r) /\ Told[r] = ack[r].moved
        /\ DOMAIN Verdicts = Ack /\ DOMAIN Told = Ack
    BY DEF Verdicts, Told
  <1>5. Verdict(r)' = Verdict(r) => Verdicts' = Verdicts
    BY <1>3, <1>4 DEF Verdicts
  <1>6. ack'[r].moved = ack[r].moved => Told' = Told
    BY <1>3, <1>4 DEF Told
  <1>7. ASSUME Stays, Verdict(r)' = Verdict(r), ack'[r].moved = ack[r].moved
        PROVE  UNCHANGED Lifecycle!vars
    BY <1>5, <1>6, <1>7 DEF Lifecycle!vars, Verdicts, Told
  <1>8. CASE AckStart(r)
    <2>1. Stays
      BY <1>8 DEF AckStart, rowVars
    <2>2. ack'[r].moved = FALSE
      BY <1>1, <1>8, AckEffects
    <2>3. CASE status = "done" /\ ack'[r].pc = "marking"
      <3>1. Verdict(r)' = "asked"
        BY <2>3, VerdictBecomes
      <3>2. Lifecycle!Ask(r)
        BY <1>3, <2>1, <2>2, <2>3, <3>1 DEF Lifecycle!Ask, Verdicts, Told
      <3> QED BY <3>2 DEF Lifecycle!Next
    <2>4. CASE Shows(r, "idle", "none", 409)
      <3>1. Verdict(r)' = "none"
        BY <2>4 DEF Verdict, Shows
      <3>2. \A s \in Ack \ {r} : Verdict(s)' = Verdict(s)
        BY <1>2 DEF Verdict
      <3>3. \A s \in Ack :
               /\ Verdict(s)' = IF s \in {r} THEN "none" ELSE Verdict(s)
               /\ ack'[s].moved = IF s \in {r} THEN FALSE ELSE ack[s].moved
        BY <1>2, <2>2, <3>1, <3>2
      <3>4. \A s \in Ack : ack[s].moved \in BOOLEAN
        BY <1>1 DEF TypeOK, AckRecord
      <3> QED BY <2>1, <3>3, <3>4, Losing
    <2> QED BY <1>1, <1>8, <2>3, <2>4, AckEffects DEF Shows
  <1>9. CASE MarkAcked(r)
    <2>1. /\ Proceeds(r, "reading", ack[r].path)
          /\ ack'[r].newly <=> ackedAt = 0
      BY <1>1, <1>9, AckEffects
    <2>2. /\ ack[r].pc = "marking" /\ status = "done"
          /\ UNCHANGED <<status, path, files>>
          /\ ackedAt' = IF ackedAt = 0 THEN 1 ELSE ackedAt
      BY <1>1, <1>9 DEF MarkAcked, AckFits
    <2>3. Verdict(r) = "asked"
          /\ Verdict(r)' = IF ackedAt # 0 THEN "again" ELSE "first"
      <3>1. Verdict(r) = "asked"
        BY <2>2, VerdictIs
      <3>2. ack'[r].pc \notin {"idle", "marking"}
        BY <2>1 DEF Proceeds, Shows
      <3>3. Verdict(r)' = IF ack'[r].newly THEN "first" ELSE "again"
        BY <3>2, VerdictBecomes
      <3> QED BY <2>1, <3>1, <3>3
    <2>4. Told' = Told
      BY <1>6, <2>1 DEF Proceeds
    <2>5. (ackedAt # 0)' = TRUE
      BY <1>1, <2>2
    <2>6. Lifecycle!Decide(r)
      BY <1>3, <1>4, <2>2, <2>3, <2>4, <2>5
         DEF Lifecycle!Decide, Verdicts, Told
    <2> QED BY <2>6 DEF Lifecycle!Next
\* A request in progress keeps its verdict, and until it answers its silence.
  <1>10. ASSUME ack[r].pc \notin {"idle", "marking"},
                ack'[r].newly = ack[r].newly,
                \/ ack'[r].pc \notin {"idle", "marking"}
                \/ ack'[r].pc = "idle" /\ ack'[r].code = 200
         PROVE  /\ Verdict(r)' = Verdict(r)
                /\ Verdict(r) \in {"first", "again"}
                /\ ack[r].moved = FALSE
    BY <1>1, <1>10 DEF Verdict, AckFits
  <1>11. CASE ReadAcked(r) \/ Refresh(r) \/ MoveHeals(r)
    <2>1. /\ ack'[r].pc \in {"moving", "responding", "updating"}
          /\ ack'[r].moved = ack[r].moved /\ ack'[r].newly = ack[r].newly
      BY <1>1, <1>11, AckEffects DEF Proceeds, Shows
    <2>2. Stays /\ ack[r].pc \notin {"idle", "marking"}
      BY <1>11 DEF ReadAcked, Refresh, MoveHeals, rowVars
    <2> QED BY <1>7, <1>10, <2>1, <2>2
  <1>12. CASE MoveNotNeeded(r) \/ MoveFindsNothing(r) \/ Respond(r)
    <2>1. Answers(r) /\ (ack'[r].moved = TRUE => InTrash(r))
      BY <1>1, <1>12, AckEffects DEF MoveNotNeeded
    <2>2. Stays /\ ack[r].pc \notin {"idle", "marking"}
      BY <1>12 DEF MoveNotNeeded, MoveFindsNothing, Respond, rowVars
    <2>3. /\ Verdict(r)' = Verdict(r) /\ Verdict(r) \in {"first", "again"}
          /\ ack[r].moved = FALSE
      BY <1>10, <2>1, <2>2 DEF Answers, Shows
    <2>4. CASE ack'[r].moved = FALSE
      BY <1>7, <2>2, <2>3, <2>4
    <2>5. CASE ack'[r].moved = TRUE
      <3>1. path = "trash" /\ "trash" \in files
        BY <1>1, <2>1, <2>5 DEF InTrash, AckFits
      <3>2. Lifecycle!Confirm(r)
        BY <1>3, <1>4, <1>5, <2>2, <2>3, <2>5, <3>1
           DEF Lifecycle!Confirm, Verdicts, Told
      <3> QED BY <3>2 DEF Lifecycle!Next
    <2> QED BY <1>1, <2>4, <2>5
  <1>13. CASE Move(r)
    <2>1. Proceeds(r, "updating", ack[r].path) /\ ack'[r].newly = ack[r].newly
      BY <1>1, <1>13, AckEffects
    <2>2. /\ ack[r].pc = "moving" /\ UNCHANGED rowVars
          /\ files' = (files \ {"results"}) \cup {"trash"}
          /\ ~InTrash(r) /\ Source(r)
      BY <1>13 DEF Move
    <2>3. "results" \in files /\ files' = {"trash"} /\ ackedAt # 0
      BY <1>1, <2>2 DEF InTrash, Source, Place, AckFits
    <2>4. Verdicts' = Verdicts /\ Told' = Told
      BY <1>5, <1>6, <1>10, <2>1, <2>2 DEF Proceeds, Shows
    <2>5. Lifecycle!Move
      BY <2>2, <2>3, <2>4 DEF Lifecycle!Move, Verdicts, Told, rowVars
    <2> QED BY <2>5 DEF Lifecycle!Next
  <1>14. CASE UpdatePath(r)
    <2>1. Proceeds(r, "refreshing", ack[r].path) /\ ack'[r].newly = ack[r].newly
      BY <1>1, <1>14, AckEffects
    <2>2. /\ ack[r].pc = "updating" /\ path' = "trash"
          /\ UNCHANGED <<status, ackedAt, files>>
      BY <1>14 DEF UpdatePath
    <2>3. Verdicts' = Verdicts /\ Told' = Told
      BY <1>5, <1>6, <1>10, <2>1, <2>2 DEF Proceeds, Shows
    <2>4. ackedAt # 0
      BY <1>1, <2>2 DEF AckFits
    <2>5. Lifecycle!Follow
      BY <2>2, <2>3, <2>4 DEF Lifecycle!Follow, Verdicts, Told
    <2> QED BY <2>5 DEF Lifecycle!Next
  <1> QED BY <1>8, <1>9, <1>11, <1>12, <1>13, <1>14 DEF AckStep

\* A failed request has come to nothing, but for one whose move failed: its
\* answer is that the transcript did not move.
LEMMA FaultLifecycle ==
    ASSUME IInv, NEW r \in Ack,
           DatabaseFails(r) \/ MoveFails(r) \/ MkdirFails(r)
    PROVE  Lifecycle!Next \/ UNCHANGED Lifecycle!vars
  <1>1. /\ TypeOK /\ AckFits(r) /\ ack[r] \in AckRecord
        /\ \A s \in Ack : ack[s].moved \in BOOLEAN
    BY DEF IInv, TypeOK, AckRecord
  <1>2. \A s \in Ack \ {r} : ack'[s] = ack[s]
    BY <1>1, OthersRest
  <1>4. UNCHANGED <<status, path, ackedAt, files>>
    BY DEF DatabaseFails, MoveFails, MkdirFails, Fault, rowVars
  <1>5. ack[r] \in AckRecord /\ ack \in [Ack -> AckRecord]
    BY <1>1 DEF TypeOK
  <1>6. CASE DatabaseFails(r) \/ MkdirFails(r)
    <2>1. ack'[r].pc = "idle" /\ ack'[r].code # 200 /\ ack'[r].moved = FALSE
      <3>1. CASE DatabaseFails(r)
        BY <1>5, <3>1 DEF DatabaseFails, Fault, AckRecord
      <3>2. CASE MkdirFails(r)
        BY <1>5, <3>2 DEF MkdirFails, Fault, AckRecord
      <3> QED BY <1>6, <3>1, <3>2
    <2>2. Verdict(r)' = "none"
      BY <2>1 DEF Verdict
    <2>3. \A s \in Ack \ {r} : Verdict(s)' = Verdict(s)
      BY <1>2 DEF Verdict
    <2>4. \A s \in Ack :
             /\ Verdict(s)' = IF s \in {r} THEN "none" ELSE Verdict(s)
             /\ ack'[s].moved = IF s \in {r} THEN FALSE ELSE ack[s].moved
      BY <1>2, <2>1, <2>2, <2>3
    <2> QED BY <1>1, <1>4, <2>4, Losing
  <1>7. CASE MoveFails(r)
    <2>1. /\ ack'[r].pc = "idle" /\ ack'[r].code = 200
          /\ ack'[r].moved = FALSE /\ ack'[r].newly = ack[r].newly
      BY <1>5, <1>7 DEF MoveFails, Fault, AckRecord
    <2>2. ack[r].pc = "moving" /\ ack[r].moved = FALSE
      BY <1>1, <1>7 DEF MoveFails, AckFits
    <2>3. Verdict(r)' = Verdict(r)
      BY <2>1, <2>2 DEF Verdict
    <2>4. ASSUME NEW s \in Ack
          PROVE  Verdict(s)' = Verdict(s) /\ ack'[s].moved = ack[s].moved
      <3>1. CASE s = r
        BY <2>1, <2>2, <2>3, <3>1
      <3>2. CASE s # r
        BY <1>2, <3>2 DEF Verdict
      <3> QED BY <3>1, <3>2
    <2>5. Verdicts' = Verdicts /\ Told' = Told
      BY <2>4, Unseen
    <2> QED BY <1>4, <2>5 DEF Lifecycle!vars, Verdicts, Told
  <1> QED BY <1>6, <1>7

\* A crash loses the requests that were in progress, and no answer.
LEMMA CrashLifecycle ==
    ASSUME TypeOK, Crash
    PROVE  Lifecycle!Next
  <1>1. PICK S \in SUBSET Ack : S = {r \in Ack : ack[r].pc # "idle"}
    OBVIOUS
  <1>2. ASSUME NEW r \in Ack
        PROVE  /\ r \in S => ack'[r] = NoAck
               /\ r \notin S => ack'[r] = ack[r]
    BY <1>1 DEF Crash
  <1>3. \A r \in Ack : ack[r].moved \in BOOLEAN
    BY DEF TypeOK, AckRecord
  <1>4. ASSUME NEW r \in Ack
        PROVE  /\ Verdict(r)' = IF r \in S THEN "none" ELSE Verdict(r)
               /\ ack'[r].moved = IF r \in S THEN FALSE ELSE ack[r].moved
    <2>1. CASE r \in S
      <3>1. ack'[r].pc = "idle" /\ ack'[r].code = 0 /\ ack'[r].moved = FALSE
        BY <1>2, <2>1 DEF NoAck
      <3>2. Verdict(r)' = "none"
        BY <3>1 DEF Verdict
      <3> QED BY <2>1, <3>1, <3>2
    <2>2. CASE r \notin S
      BY <1>2, <2>2 DEF Verdict
    <2> QED BY <2>1, <2>2
  <1>5. UNCHANGED <<status, path, ackedAt, files>>
    BY DEF Crash, rowVars
  <1> QED BY <1>3, <1>4, <1>5, Losing

\* The worker, and those who touch the files from outside.  They change no
\* verdict and no answer.
LEMMA WorldLifecycle ==
    ASSUME TypeOK,
           \/ WriteTranscript \/ StaleWrite \/ WriteBreaks
           \/ FinishJob \/ FailJob
           \/ \E place \in Place : Remove(place)
           \/ Drag
    PROVE  Lifecycle!Next
  <1>1. \A r \in Ack : /\ ack'[r].pc = ack[r].pc /\ ack'[r].code = ack[r].code
                       /\ ack'[r].newly = ack[r].newly
                       /\ ack'[r].moved = ack[r].moved
    <2>1. ack' = ack
          \/ ack' = [r \in Ack |-> [ack[r] EXCEPT !.calm = FALSE]]
      BY DEF WriteTranscript, StaleWrite, WriteBreaks, FinishJob, FailJob,
             Remove, Drag, Disturb
    <2>2. \A r \in Ack : ack[r] \in AckRecord
      BY DEF TypeOK
    <2> QED BY <2>1, <2>2 DEF AckRecord
  <1>2. \A r \in Ack : Verdict(r)' = Verdict(r)
    BY <1>1 DEF Verdict
  <1>3. Verdicts' = Verdicts /\ Told' = Told
    BY <1>1, <1>2, Unseen
  <1>4. CASE WriteTranscript \/ StaleWrite \/ WriteBreaks
    <2>1. Lifecycle!Write
      BY <1>3, <1>4
         DEF Lifecycle!Write, Verdicts, Told, WriteTranscript, StaleWrite,
             WriteBreaks, rowVars
    <2> QED BY <2>1 DEF Lifecycle!Next
  <1>5. CASE FinishJob
    <2>1. Lifecycle!Finish
      BY <1>3, <1>5 DEF Lifecycle!Finish, Verdicts, Told, FinishJob
    <2> QED BY <2>1 DEF Lifecycle!Next
  <1>6. CASE FailJob
    <2>1. Lifecycle!Fail
      BY <1>3, <1>6 DEF Lifecycle!Fail, Verdicts, Told, FailJob
    <2> QED BY <2>1 DEF Lifecycle!Next
  <1>7. ASSUME NEW place \in Place, Remove(place)
        PROVE  Lifecycle!Next
    <2>1. Lifecycle!Remove(place)
      BY <1>3, <1>7 DEF Lifecycle!Remove, Verdicts, Told, Remove, rowVars
    <2> QED BY <2>1 DEF Lifecycle!Next, Place
  <1>8. CASE Drag
    <2>1. Lifecycle!Move
      BY <1>3, <1>8 DEF Lifecycle!Move, Verdicts, Told, Drag, rowVars
    <2> QED BY <2>1 DEF Lifecycle!Next
  <1> QED BY <1>4, <1>5, <1>6, <1>7, <1>8

\* A GET shows the client a text and changes nothing of it.
LEMMA GetLifecycle ==
    ASSUME NEW g \in Get,
           \/ \E endpoint \in Endpoint : GetStart(g, endpoint)
           \/ GetCheck(g) \/ GetOpen(g)
    PROVE  UNCHANGED Lifecycle!vars
  <1>1. UNCHANGED <<status, path, ackedAt, files, ack>>
    BY DEF GetStart, GetCheck, GetOpen, rowVars
  <1> QED BY <1>1, Unseen DEF Lifecycle!vars, Verdict, Verdicts, Told

LEMMA NextTranscriptLifecycle ==
    IInv /\ IInv' /\ [Next]_vars => [Lifecycle!Next]_(Lifecycle!vars)
  <1> SUFFICES ASSUME IInv, IInv', [Next]_vars
               PROVE  Lifecycle!Next \/ UNCHANGED Lifecycle!vars
    OBVIOUS
  <1>1. TypeOK
    BY DEF IInv
  <1>2. ASSUME NEW r \in Ack,
               \/ AckStart(r) \/ AckStep(r)
               \/ DatabaseFails(r) \/ MoveFails(r) \/ MkdirFails(r)
        PROVE  Lifecycle!Next \/ UNCHANGED Lifecycle!vars
    BY <1>2, AckLifecycle, FaultLifecycle
  <1>3. ASSUME NEW g \in Get,
               \/ \E endpoint \in Endpoint : GetStart(g, endpoint)
               \/ GetCheck(g) \/ GetOpen(g)
        PROVE  UNCHANGED Lifecycle!vars
    BY <1>3, GetLifecycle
  <1>4. CASE UNCHANGED vars
    <2>1. UNCHANGED <<status, path, ackedAt, files, ack>>
      BY <1>4 DEF vars, rowVars
    <2> QED BY <2>1, Unseen DEF Lifecycle!vars, Verdict, Verdicts, Told
  <1> QED BY <1>1, <1>2, <1>3, <1>4, WorldLifecycle, CrashLifecycle DEF Next

\* However acknowledgements of a job interleave, fail and are sent again, each
\* is atomic to the clients: ack_job takes effect at the UPDATE of mark_acked,
\* one client is told that it was the first, no file is in trash/ and no row
\* points there before that, and transcript_moved = true is the answer only
\* while the file is in trash/ and the row says so.  The pipeline's late
\* writes, a crash and the failures of the handler do not change this.
THEOREM Refinement == Spec => ImplementsLifecycle
  <1>1. Init => Lifecycle!Init
    BY InitTranscriptLifecycle
  <1>2. IInv /\ IInv' /\ [Next]_vars => [Lifecycle!Next]_(Lifecycle!vars)
    BY NextTranscriptLifecycle
  <1> QED BY <1>1, <1>2, Invariance, PTL
          DEF Spec, ImplementsLifecycle, Lifecycle!Spec
=============================================================================
