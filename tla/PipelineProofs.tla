--------------------------- MODULE PipelineProofs ---------------------------
(***************************************************************************)
(* Proofs about Pipeline, for any number of attempts, workers, expired     *)
(* leases and faults, and any names of the files.                          *)
(***************************************************************************)
EXTENDS Pipeline, TLAPS

USE DEF NoFile, File

-----------------------------------------------------------------------------
(* The inductive invariant                                                 *)

\* A lease is counted, and its run has not been started before Launch.
FreshRunsAreIdle ==
    /\ phase = "leased" => attempts >= 1
    /\ \A r \in Run :
          attempts < r \/ (phase = "leased" /\ attempts = r) => pc[r] = "idle"

\* Only a run whose tool is at work has a file open: the media for yt-dlp,
\* the WAV for ffmpeg.
ToolsWrite ==
    \A r \in Run :
        \/ writes[r] = NoFile
        \/ pc[r] = "downloading" /\ writes[r] \in Media
        \/ pc[r] = "encoding" /\ writes[r] = Wav

\* A run without suspicion is alone.
UnsuspectedIsAlone ==
    \A r \in Run : pc[r] # "idle" /\ ~suspect[r] => Active = {r}

\* The cache holds the file n with content c, and nothing else.
Holds(n, c) == n \in Media /\ cache = [f \in File |-> IF f = n THEN c ELSE "none"]

\* What an undisturbed run knows of its files at each label.
Undisturbed(r) ==
    /\ pc[r] = "fetching"    => Present = {}
    /\ pc[r] = "downloading" => Holds(writes[r], "part")
    /\ pc[r] = "downloaded"  => \E m \in Media : Holds(m, "whole")
    /\ pc[r] = "converting"  => Holds(input[r], "whole")
    /\ pc[r] = "encoding"    => /\ writes[r] = Wav /\ cache[Wav] = "part"
                                /\ got[r] = "whole"
    /\ pc[r] \in {"converted", "listing", "reading"} => cache[Wav] = "whole"
    /\ pc[r] = "posting" => got[r] = "whole"
    /\ pc[r] \in Told => outcome[r] = Success("whole")

UndisturbedRunsAreRight ==
    \A r \in Run :
        pc[r] # "idle" /\ ~suspect[r] /\ ~excused[r] => Undisturbed(r)

\* No fault and no lease that expired before ffmpeg was done.
Timely == faults = 0 /\ ~late

\* Then only the current run is in the stages that write files, ...
OnlyCurrentIsEarly ==
    Timely => \A r \in Run : pc[r] \in Early => Heard(r)

\* ... a file that is not whole is being written, ...
PartsAreWritten ==
    Timely => \A n \in File :
                 /\ cache[n] # "mixed"
                 /\ cache[n] = "part" => \E r \in Run : writes[r] = n

\* ... and ffmpeg and the current run read what is whole.
CurrentReadsWhole ==
    Timely => \A r \in Run :
                 /\ pc[r] = "encoding" => got[r] = "whole"
                 /\ pc[r] = "posting" /\ Heard(r) => got[r] = "whole"

IInv ==
    /\ TypeOK
    /\ FreshRunsAreIdle
    /\ ToolsWrite
    /\ CacheIsSwept
    /\ UnsuspectedIsAlone
    /\ UndisturbedRunsAreRight
    /\ OnlyCurrentIsEarly
    /\ PartsAreWritten
    /\ CurrentReadsWhole
    /\ TimelyOverlapKeepsText

-----------------------------------------------------------------------------
(* Type correctness                                                        *)

LEMMA Names ==
    /\ NoFile \notin File
    /\ Wav \in File /\ Wav \notin Media /\ Media \subseteq File
    /\ \A n \in File : n \in Nat
  BY NameAssumption

LEMMA Outcomes ==
    /\ NoOutcome \in Outcome
    /\ \A c \in Content : Success(c) \in Outcome /\ Success(c).text = c
    /\ NoMedia \in Outcome /\ NoMedia.text = "none"
    /\ ConditioningError \in Outcome /\ ConditioningError.text = "none"
    /\ TransientError \in Outcome /\ TransientError.text = "none"
    /\ \A o \in FetchErrors \cup ListErrors \cup PostErrors :
          o \in Outcome /\ o.text = "none"
  <1>t. TRUE \in BOOLEAN /\ FALSE \in BOOLEAN
    OBVIOUS
  <1>1. ASSUME NEW code \in Code, NEW b \in BOOLEAN
        PROVE  Failure(code, b) \in Outcome /\ Failure(code, b).text = "none"
    BY DEF Failure, Outcome, Content
  <1>s. /\ "FETCH_FAILED" \in Code /\ "STT_GATEWAY_UNAVAILABLE" \in Code
        /\ "STT_BAD_REQUEST" \in Code /\ "MODEL_NOT_PULLED" \in Code
        /\ "AUDIO_CONDITIONING_FAILED" \in Code
        /\ "PIPELINE_TRANSIENT" \in Code /\ "NONE" \in Code
    BY DEF Code
  <1>2. ASSUME NEW c \in Content
        PROVE  Success(c) \in Outcome /\ Success(c).text = c
    <2>1. \A b \in BOOLEAN :
             /\ [code |-> "NONE", retryable |-> b, text |-> c] \in Outcome
             /\ [code |-> "NONE", retryable |-> b, text |-> c].text = c
      BY <1>s DEF Outcome
    <2> QED BY <1>t, <2>1, Zenon DEF Success
  <1>3. \A s : FetchError(s) \in Outcome /\ FetchError(s).text = "none"
    <2> TAKE s
    <2>1. ("network" \in s /\ "permanent" \notin s) \in BOOLEAN
      OBVIOUS
    <2> QED BY <1>1, <1>s, <2>1, Zenon DEF FetchError
  <1>4. \A a : GatewayError(a) \in Outcome /\ GatewayError(a).text = "none"
    BY <1>1, <1>s, <1>t, Zenon DEF GatewayError
  <1>5. NoMedia \in Outcome /\ NoMedia.text = "none"
    BY <1>1, <1>s, <1>t, Zenon DEF NoMedia
  <1>6. FetchTimeout \in Outcome /\ FetchTimeout.text = "none"
    BY <1>1, <1>s, <1>t, Zenon DEF FetchTimeout
  <1>7. ModelNotPulled \in Outcome /\ ModelNotPulled.text = "none"
    BY <1>1, <1>s, <1>t, Zenon DEF ModelNotPulled
  <1>8. ConditioningError \in Outcome /\ ConditioningError.text = "none"
    BY <1>1, <1>s, <1>t, Zenon DEF ConditioningError
  <1>9. TransientError \in Outcome /\ TransientError.text = "none"
    BY <1>1, <1>s, <1>t, Zenon DEF TransientError
  <1>10. NoOutcome \in Outcome
    BY <1>2 DEF NoOutcome, Content
  <1>11. ASSUME NEW o \in FetchErrors \cup ListErrors \cup PostErrors
         PROVE  o \in Outcome /\ o.text = "none"
    <2>1. CASE o \in FetchErrors
      BY <1>3, <1>6, <2>1 DEF FetchErrors
    <2>2. CASE o \in ListErrors
      BY <1>4, <1>7, <2>2 DEF ListErrors
    <2>3. CASE o \in PostErrors
      BY <1>4, <1>9, <2>3 DEF PostErrors
    <2> QED BY <1>11, <2>1, <2>2, <2>3
  <1> QED BY <1>2, <1>5, <1>8, <1>9, <1>10, <1>11

LEMMA InitType == Init => TypeOK
  <1> SUFFICES ASSUME Init PROVE TypeOK
    OBVIOUS
  <1>1. suspect \in [Run -> BOOLEAN] /\ excused \in [Run -> BOOLEAN]
    BY DEF Init
  <1>2. outcome \in [Run -> Outcome]
    BY Outcomes DEF Init
  <1>3. pc \in [Run -> Label] /\ cache \in [File -> Content]
        /\ got \in [Run -> Content] /\ transcript \in Content
    BY DEF Init, Label, Content
  <1> QED BY <1>1, <1>2, <1>3 DEF Init, TypeOK

LEMMA FinishType ==
    ASSUME TypeOK, NEW r \in Run, NEW o \in Outcome, Finish(r, o),
           excused' \in [Run -> BOOLEAN]
    PROVE  TypeOK'
  <1>1. PICK kept \in SUBSET JobFiles :
          /\ \/ faults' = faults
             \/ faults' = faults + 1
          /\ dirty' = (kept # {})
          /\ cache' = [n \in File |-> IF n \in JobFiles \ kept THEN "none"
                                                               ELSE cache[n]]
          /\ writes' = [s \in Run |->
                          IF s = r \/ writes[s] \in JobFiles \ kept
                          THEN NoFile ELSE writes[s]]
    BY DEF Finish
  <1>2. cache' \in [File -> Content]
    BY <1>1 DEF TypeOK, Content
  <1>3. writes' \in [Run -> File \cup {NoFile}] /\ faults' \in Nat
    BY <1>1 DEF TypeOK
  <1>4. dirty' \in BOOLEAN
    BY <1>1
  <1>5. /\ pc' = [pc EXCEPT ![r] = "ended"]
        /\ input' = [input EXCEPT ![r] = NoFile]
        /\ got' = [got EXCEPT ![r] = "none"]
        /\ outcome' = [outcome EXCEPT ![r] = o]
        /\ UNCHANGED <<jobVars, suspect, late>>
    BY DEF Finish
  <1>6. pc' \in [Run -> Label]
    BY <1>5 DEF TypeOK, Label, Told
  <1>7. outcome' \in [Run -> Outcome]
    BY <1>5 DEF TypeOK
  <1>8. input' \in [Run -> File \cup {NoFile}] /\ got' \in [Run -> Content]
    BY <1>5 DEF TypeOK, Content
  <1> QED BY <1>2, <1>3, <1>4, <1>5, <1>6, <1>7, <1>8 DEF TypeOK, jobVars

LEMMA EndsType ==
    ASSUME TypeOK, NEW r \in Run, NEW o \in Outcome, Ends(r, o)
    PROVE  TypeOK'
  BY FinishType DEF Ends, TypeOK

LEMMA FailsType ==
    ASSUME TypeOK, NEW r \in Run, NEW o \in Outcome, FailsItself(r, o)
    PROVE  TypeOK'
  BY FinishType DEF FailsItself, TypeOK

\* The types of the steps that follow one run through its stages.
LEMMA RunStepType ==
    ASSUME TypeOK, NEW r \in Run, RunStep(r)
    PROVE  TypeOK'
  <1> USE Names DEF TypeOK, jobVars, runVars, historyVars
  <1>l. \A l \in Label : [pc EXCEPT ![r] = l] \in [Run -> Label]
    OBVIOUS
  <1>c. \A c \in Content, n \in File :
           /\ [cache EXCEPT ![n] = c] \in [File -> Content]
           /\ [got EXCEPT ![r] = c] \in [Run -> Content]
    OBVIOUS
  <1>o. \A c \in Content : Opened(Wav, c) \in Content
                           /\ \A n \in File : Opened(n, c) \in Content
    BY DEF Opened, Content
  <1>1. CASE DownloadStarts(r)
    <2>1. PICK m \in Media :
            /\ cache' = [cache EXCEPT
                 ![m] = Opened(m, IF @ = "none" THEN "part" ELSE @)]
            /\ writes' = [writes EXCEPT ![r] = m]
      BY <1>1 DEF DownloadStarts
    <2>2. cache' \in [File -> Content]
      BY <1>c, <1>o, <2>1 DEF Content
    <2> QED BY <1>1, <1>l, <2>1, <2>2 DEF DownloadStarts, Label, Early
  <1>2. CASE DownloadEnds(r) \/ EncodeEnds(r)
    <2>1. cache' \in [File -> Content]
      BY <1>2 DEF DownloadEnds, EncodeEnds, Closed, Content
    <2> QED BY <1>2, <1>l, <2>1 DEF DownloadEnds, EncodeEnds, Label, Early
  <1>3. CASE DownloadsNothing(r)
    BY <1>3, <1>l DEF DownloadsNothing, Label, Early
  <1>4. CASE \E o : Ends(r, o) /\ o \in Outcome
    BY <1>4, EndsType
  <1>5. CASE \E o : FailsItself(r, o) /\ o \in Outcome
    BY <1>5, FailsType
  <1>6. CASE FindMedia(r)
    BY <1>6, <1>4, <1>l, Outcomes
       DEF FindMedia, TakesFirstFile, Label, Early, Present
  <1>7. CASE EncodeStarts(r)
    <2>1. cache' \in [File -> Content] /\ got' \in [Run -> Content]
      BY <1>7, <1>c, <1>o DEF EncodeStarts, Content, Present
    <2> QED BY <1>7, <1>l, <2>1 DEF EncodeStarts, Label, Early
  <1>8. CASE FindWav(r) \/ ListModels(r)
    BY <1>8, <1>4, <1>l, Outcomes
       DEF FindWav, ListModels, Label, Stage3
  <1>9. CASE ReadAudio(r)
    <2>1. CASE Ends(r, TransientError)
      BY <1>4, <2>1, Outcomes
    <2>2. CASE Wav \in Present /\ UNCHANGED <<jobVars, cache, writes, input,
                                              outcome, historyVars>>
      <3>1. got' \in [Run -> Content] /\ cache[Wav] \in Content
        BY <1>9, <2>2, <1>c DEF ReadAudio, Ends
      <3> QED BY <1>9, <1>l, <2>2, <3>1 DEF ReadAudio, Label, Stage3
    <2> QED BY <1>9, <2>1, <2>2 DEF ReadAudio
  <1>10. CASE Transcribed(r)
    BY <1>10, <1>4, Outcomes DEF Transcribed
  <1>11. CASE FetchFails(r) \/ ListModelsFails(r) \/ PostFails(r)
              \/ ConditionFails(r) \/ StartFails(r)
    BY <1>11, <1>5, Outcomes
       DEF FetchFails, ListModelsFails, PostFails, ConditionFails, StartFails
  <1>12. CASE InputRejected(r)
    BY <1>12, <1>4, Outcomes DEF InputRejected
  <1>13. CASE Save(r)
    BY <1>13, <1>l DEF Save, Label, Told, Outcome
  <1>14. CASE Report(r)
    BY <1>14, <1>l, Outcomes DEF Report, Label, NextPhase, Heard
  <1> QED BY <1>1, <1>2, <1>3, <1>6, <1>7, <1>8, <1>9, <1>10, <1>11, <1>12,
             <1>13, <1>14 DEF RunStep

LEMMA GoneType ==
    ASSUME TypeOK, AllGone, cache' \in [File -> Content]
    PROVE  TypeOK'
  BY Outcomes DEF AllGone, TypeOK, jobVars, Label, Content

LEMMA LeaseStepType ==
    ASSUME TypeOK, FreshRunsAreIdle, LeaseStep
    PROVE  TypeOK'
  <1> USE DEF TypeOK, jobVars, runVars, historyVars
  <1>1. CASE Submit \/ Lease \/ GiveUp
    BY <1>1 DEF Submit, Lease, GiveUp
  <1>2. CASE Launch
    <2>1. attempts \in Run /\ attempts' \in Run
      BY <1>2, BoundAssumption
         DEF Launch, FreshRunsAreIdle, WithinAttempts, Run
    <2>2. pc' \in [Run -> Label]
      BY <1>2 DEF Launch, Label, Early
    <2>3. suspect' \in [Run -> BOOLEAN]
      BY <1>2 DEF Launch
    <2> QED BY <1>2, <2>1, <2>2, <2>3 DEF Launch
  <1>3. CASE Expire
    BY <1>3 DEF Expire
  <1> QED BY <1>1, <1>2, <1>3 DEF LeaseStep

LEMMA NextType == TypeOK /\ FreshRunsAreIdle /\ [Next]_vars => TypeOK'
  <1> SUFFICES ASSUME TypeOK, FreshRunsAreIdle, [Next]_vars PROVE TypeOK'
    OBVIOUS
  <1>1. CASE Crash
    BY <1>1, GoneType DEF Crash, TypeOK
  <1>2. CASE Stop
    BY <1>2, GoneType DEF Stop, Content
  <1>3. CASE UNCHANGED vars
    BY <1>3 DEF vars, TypeOK
  <1> QED BY <1>1, <1>2, <1>3, RunStepType, LeaseStepType DEF Next

-----------------------------------------------------------------------------
(* What a step does, in the terms of the invariant                         *)

\* A step of run r leaves the other runs where they are.
OnlyMoves(r) ==
    /\ pc[r] # "idle"
    /\ UNCHANGED <<attempts, suspect, late>>
    /\ \A s \in Run \ {r} : /\ pc'[s] = pc[s] /\ got'[s] = got[s]
                            /\ input'[s] = input[s] /\ outcome'[s] = outcome[s]
                            /\ excused'[s] = excused[s]
    /\ excused[r] => excused'[r]

\* A run misses a file, or has one that is not whole.
Stumbles(r) ==
    \/ pc[r] = "downloaded" /\ Present = {}
    \/ pc[r] = "converting" /\ input[r] \notin Present \ {Wav}
    \/ pc[r] = "encoding" /\ got[r] # "whole"
    \/ pc[r] \in {"converted", "reading"} /\ Wav \notin Present

\* A run ends without a text, or with the one of what it posted.
EndsAs(r, o) ==
    /\ o \in Outcome
    /\ \/ FailsItself(r, o) /\ o.text = "none"
       \/ Ends(r, o) /\ o.text = "none" /\ Stumbles(r)
       \/ Ends(r, o) /\ o = Success(got[r]) /\ pc[r] = "posting"

\* A run goes on without touching a file.
GoesOn(r) ==
    /\ OnlyMoves(r)
    /\ UNCHANGED <<phase, transcript, cache, writes, outcome, excused, dirty,
                   faults>>
    /\ \/ /\ pc[r] = "downloaded" /\ pc'[r] = "converting"
          /\ input'[r] \in Present /\ \A m \in Present : input'[r] <= m
          /\ got'[r] = got[r]
       \/ pc[r] = "converted" /\ pc'[r] = "listing" /\ got'[r] = got[r]
       \/ pc[r] = "listing" /\ pc'[r] = "reading" /\ got'[r] = got[r]
       \/ /\ pc[r] = "reading" /\ pc'[r] = "posting"
          /\ Wav \in Present /\ got'[r] = cache[Wav]

LEMMA FinishEffect ==
    ASSUME TypeOK, NEW r \in Run, NEW o, Finish(r, o)
    PROVE  /\ ~dirty' => Present' = {}
           /\ faults' = 0 => faults = 0 /\ Present' = {}
           /\ pc'[r] = "ended" /\ outcome'[r] = o
           /\ writes'[r] = NoFile
           /\ \A s \in Run : writes'[s] \in {writes[s], NoFile}
           /\ UNCHANGED <<phase, attempts, transcript, suspect, late>>
           /\ \A s \in Run \ {r} : /\ pc'[s] = pc[s] /\ got'[s] = got[s]
                                   /\ input'[s] = input[s]
                                   /\ outcome'[s] = outcome[s]
  <1>1. PICK kept \in SUBSET JobFiles :
          /\ \/ kept = {} /\ faults' = faults
             \/ faults' = faults + 1
          /\ dirty' = (kept # {})
          /\ cache' = [n \in File |-> IF n \in JobFiles \ kept THEN "none"
                                                               ELSE cache[n]]
          /\ writes' = [s \in Run |->
                          IF s = r \/ writes[s] \in JobFiles \ kept
                          THEN NoFile ELSE writes[s]]
    BY DEF Finish
  <1>2. kept = {} => Present' = {}
    BY <1>1 DEF Present, JobFiles
  <1>3. ~dirty' => kept = {}
    BY <1>1
  <1>4. faults' = 0 => faults = 0 /\ kept = {}
    BY <1>1 DEF TypeOK
  <1>5. writes'[r] = NoFile /\ \A s \in Run : writes'[s] \in {writes[s], NoFile}
    BY <1>1
  <1>6. /\ pc'[r] = "ended" /\ outcome'[r] = o
        /\ \A s \in Run \ {r} : /\ pc'[s] = pc[s] /\ got'[s] = got[s]
                                /\ input'[s] = input[s]
                                /\ outcome'[s] = outcome[s]
    BY DEF Finish, TypeOK
  <1>7. UNCHANGED <<phase, attempts, transcript, suspect, late>>
    BY DEF Finish, jobVars
  <1> QED BY <1>2, <1>3, <1>4, <1>5, <1>6, <1>7

LEMMA RunCases ==
    ASSUME TypeOK, NEW r \in Run, RunStep(r)
    PROVE  \/ DownloadStarts(r) \/ DownloadEnds(r) \/ DownloadsNothing(r)
           \/ EncodeStarts(r) \/ EncodeEnds(r)
           \/ GoesOn(r)
           \/ r \in Working /\ \E o : EndsAs(r, o)
           \/ Save(r) \/ Report(r)
  <1> USE DEF jobVars, historyVars, runVars, TypeOK
  <1>1. CASE FetchFails(r) \/ ListModelsFails(r) \/ PostFails(r)
             \/ ConditionFails(r) \/ StartFails(r)
    <2>1. PICK o \in Outcome : FailsItself(r, o) /\ o.text = "none"
      BY <1>1, Outcomes
         DEF FetchFails, ListModelsFails, PostFails, ConditionFails, StartFails
    <2>2. r \in Working
      BY <1>1 DEF FetchFails, ListModelsFails, PostFails, ConditionFails,
                  StartFails, Working, Early, Stage3
    <2> QED BY <2>1, <2>2 DEF EndsAs
  <1>2. CASE FindMedia(r)
    <2>1. CASE Present = {}
      <3>1. pc[r] = "downloaded" /\ Ends(r, NoMedia)
        BY <1>2, <2>1 DEF FindMedia, TakesFirstFile
      <3> QED BY <2>1, <3>1, Outcomes DEF EndsAs, Stumbles, Working, Early
    <2>2. CASE Present # {}
      BY <1>2, <2>2 DEF FindMedia, TakesFirstFile, GoesOn, OnlyMoves
    <2> QED BY <2>1, <2>2
  <1>3. CASE InputRejected(r)
    BY <1>3, Outcomes DEF InputRejected, EndsAs, Stumbles, Working, Early
  <1>4. CASE FindWav(r)
    <2>1. CASE Wav \notin Present
      <3>1. pc[r] = "converted" /\ Ends(r, ConditioningError)
        BY <1>4, <2>1 DEF FindWav
      <3> QED BY <2>1, <3>1, Outcomes DEF EndsAs, Stumbles, Working, Early
    <2>2. CASE Wav \in Present
      BY <1>4, <2>2 DEF FindWav, GoesOn, OnlyMoves
    <2> QED BY <2>1, <2>2
  <1>5. CASE ListModels(r)
    BY <1>5 DEF ListModels, GoesOn, OnlyMoves
  <1>6. CASE ReadAudio(r)
    <2>1. CASE Wav \notin Present
      <3>1. pc[r] = "reading" /\ Ends(r, TransientError)
        BY <1>6, <2>1 DEF ReadAudio
      <3> QED BY <2>1, <3>1, Outcomes DEF EndsAs, Stumbles, Working, Stage3
    <2>2. CASE Wav \in Present
      BY <1>6, <2>2 DEF ReadAudio, GoesOn, OnlyMoves
    <2> QED BY <2>1, <2>2
  <1>7. CASE Transcribed(r)
    BY <1>7, Outcomes DEF Transcribed, EndsAs, Working, Stage3
  <1> QED BY <1>1, <1>2, <1>3, <1>4, <1>5, <1>6, <1>7 DEF RunStep

LEMMA EndsMoves ==
    ASSUME TypeOK, NEW r \in Run, r \in Working, NEW o, EndsAs(r, o)
    PROVE  OnlyMoves(r) /\ Finish(r, o)
  <1>1. Finish(r, o)
    BY DEF EndsAs, Ends, FailsItself
  <1>2. \A s \in Run \ {r} : excused'[s] = excused[s]
    BY DEF EndsAs, Ends, FailsItself, TypeOK
  <1>3. excused[r] => excused'[r]
    BY DEF EndsAs, Ends, FailsItself, TypeOK
  <1> QED BY <1>1, <1>2, <1>3, FinishEffect
          DEF OnlyMoves, Working, Early, Stage3

LEMMA RunMoves ==
    ASSUME TypeOK, NEW r \in Run, RunStep(r)
    PROVE  OnlyMoves(r)
  <1> USE DEF jobVars, historyVars, runVars, TypeOK, OnlyMoves
  <1>1. CASE DownloadStarts(r) \/ DownloadEnds(r) \/ DownloadsNothing(r)
    BY <1>1 DEF DownloadStarts, DownloadEnds, DownloadsNothing
  <1>2. CASE EncodeStarts(r) \/ EncodeEnds(r)
    BY <1>2 DEF EncodeStarts, EncodeEnds
  <1>3. CASE r \in Working /\ \E o : EndsAs(r, o)
    BY <1>3, EndsMoves
  <1>4. CASE Save(r) \/ Report(r)
    BY <1>4 DEF Save, Report
  <1> QED BY <1>1, <1>2, <1>3, <1>4, RunCases DEF GoesOn

\* The steps of the leases but Launch touch nothing that a run knows.
LEMMA LeaseKeeps ==
    ASSUME TypeOK, Submit \/ Lease \/ GiveUp \/ Expire
    PROVE  /\ UNCHANGED <<transcript, cache, pc, writes, input, got, outcome>>
           /\ UNCHANGED <<suspect, excused, dirty, faults>>
           /\ late => late'
           /\ attempts' >= attempts
  BY DEF Submit, Lease, GiveUp, Expire, runVars, historyVars, TypeOK

\* What a run reports, the job leaves the current lease with.
LEMMA ReportPhase ==
    ASSUME TypeOK, NEW r \in Run, RunStep(r)
    PROVE  /\ phase' = phase \/ (Report(r) /\ Heard(r) /\ phase' = NextPhase(outcome[r]))
           /\ phase' \in {"leased", "running"} => phase' = phase
  <1>1. CASE DownloadStarts(r) \/ DownloadEnds(r) \/ DownloadsNothing(r)
             \/ EncodeStarts(r) \/ EncodeEnds(r) \/ Save(r)
    BY <1>1 DEF DownloadStarts, DownloadEnds, DownloadsNothing, EncodeStarts,
                EncodeEnds, Save, jobVars
  <1>2. CASE GoesOn(r)
    BY <1>2 DEF GoesOn
  <1>3. CASE r \in Working /\ \E o : EndsAs(r, o)
    BY <1>3, EndsMoves, FinishEffect
  <1>4. CASE Report(r)
    BY <1>4 DEF Report, NextPhase
  <1> QED BY <1>1, <1>2, <1>3, <1>4, RunCases

-----------------------------------------------------------------------------
(* The parts of the invariant that hold in any case                        *)

LEMMA InitIInv == Init => IInv
  <1> SUFFICES ASSUME Init PROVE IInv
    OBVIOUS
  <1>1. Present = {}
    BY DEF Init, Present
  <1>2. \A r \in Run : pc[r] = "idle"
    BY DEF Init
  <1>3. FreshRunsAreIdle /\ UnsuspectedIsAlone /\ UndisturbedRunsAreRight
    BY <1>2 DEF Init, FreshRunsAreIdle, UnsuspectedIsAlone,
                UndisturbedRunsAreRight
  <1>4. ToolsWrite /\ CacheIsSwept
    BY <1>1 DEF Init, ToolsWrite, CacheIsSwept
  <1>5. OnlyCurrentIsEarly /\ CurrentReadsWhole /\ TimelyOverlapKeepsText
    BY <1>2 DEF OnlyCurrentIsEarly, CurrentReadsWhole, TimelyOverlapKeepsText,
                Early, Told
  <1>6. PartsAreWritten
    BY DEF Init, PartsAreWritten
  <1> QED BY <1>3, <1>4, <1>5, <1>6, InitType DEF IInv

LEMMA FreshRunsStay ==
    TypeOK /\ FreshRunsAreIdle /\ [Next]_vars => FreshRunsAreIdle'
  <1> SUFFICES ASSUME TypeOK, FreshRunsAreIdle, [Next]_vars
               PROVE  FreshRunsAreIdle'
    OBVIOUS
  <1> USE DEF FreshRunsAreIdle
  <1>1. CASE Submit \/ Lease \/ GiveUp \/ Expire
    <2>1. pc' = pc
      BY <1>1, LeaseKeeps
    <2>2. CASE Lease
      BY <2>1, <2>2, BoundAssumption DEF Lease, TypeOK, Run
    <2>3. CASE Submit \/ GiveUp \/ Expire
      <3>1. attempts' = attempts /\ phase' # "leased"
        BY <2>3 DEF Submit, GiveUp, Expire
      <3> QED BY <2>1, <3>1
    <2> QED BY <1>1, <2>2, <2>3
  <1>2. CASE Launch
    BY <1>2, BoundAssumption DEF Launch, TypeOK, Run
  <1>3. ASSUME NEW r \in Run, RunStep(r) PROVE FreshRunsAreIdle'
    BY <1>3, RunMoves, ReportPhase DEF OnlyMoves, TypeOK
  <1>4. CASE Crash \/ Stop
    BY <1>4 DEF Crash, Stop, AllGone, jobVars
  <1>5. CASE UNCHANGED vars
    BY <1>5 DEF vars
  <1> QED BY <1>1, <1>2, <1>3, <1>4, <1>5 DEF Next, LeaseStep

LEMMA ToolsWriteStays ==
    TypeOK /\ FreshRunsAreIdle /\ ToolsWrite /\ [Next]_vars => ToolsWrite'
  <1> SUFFICES ASSUME TypeOK, FreshRunsAreIdle, ToolsWrite, [Next]_vars
               PROVE  ToolsWrite'
    OBVIOUS
  <1> USE DEF ToolsWrite
  <1>1. CASE Submit \/ Lease \/ GiveUp \/ Expire
    BY <1>1, LeaseKeeps
  <1>2. CASE Launch
    BY <1>2 DEF Launch, FreshRunsAreIdle, TypeOK
  <1>3. ASSUME NEW r \in Run, RunStep(r) PROVE ToolsWrite'
    <2>1. CASE DownloadStarts(r)
      BY <2>1 DEF DownloadStarts, TypeOK
    <2>2. CASE DownloadEnds(r)
      BY <2>2 DEF DownloadEnds, TypeOK
    <2>3. CASE DownloadsNothing(r)
      BY <2>3 DEF DownloadsNothing, TypeOK
    <2>4. CASE EncodeStarts(r)
      BY <2>4 DEF EncodeStarts, TypeOK
    <2>5. CASE EncodeEnds(r)
      BY <2>5 DEF EncodeEnds, TypeOK
    <2>6. CASE GoesOn(r)
      BY <2>6 DEF GoesOn, OnlyMoves
    <2>7. CASE r \in Working /\ \E o : EndsAs(r, o)
      BY <2>7, EndsMoves, FinishEffect
    <2>8. CASE Save(r) \/ Report(r)
      BY <2>8 DEF Save, Report, TypeOK
    <2> QED BY <1>3, <2>1, <2>2, <2>3, <2>4, <2>5, <2>6, <2>7, <2>8, RunCases
  <1>4. CASE Crash \/ Stop
    BY <1>4 DEF Crash, Stop, AllGone
  <1>5. CASE UNCHANGED vars
    BY <1>5 DEF vars
  <1> QED BY <1>1, <1>2, <1>3, <1>4, <1>5 DEF Next, LeaseStep

LEMMA CacheStaysSwept ==
    TypeOK /\ FreshRunsAreIdle /\ CacheIsSwept /\ [Next]_vars => CacheIsSwept'
  <1> SUFFICES ASSUME TypeOK, FreshRunsAreIdle, CacheIsSwept, [Next]_vars
               PROVE  CacheIsSwept'
    OBVIOUS
  <1> USE DEF CacheIsSwept
  <1>w. \A r \in Run : pc'[r] \in Early \cup Stage3 => Working' # {}
    BY DEF Working
  <1>1. CASE Submit \/ Lease \/ GiveUp \/ Expire
    BY <1>1, LeaseKeeps DEF Working, Present
  <1>2. CASE Launch
    <2>1. attempts \in Run /\ pc'[attempts] = "fetching"
      BY <1>2, BoundAssumption
         DEF Launch, FreshRunsAreIdle, TypeOK, WithinAttempts, Run
    <2> QED BY <1>w, <2>1 DEF Early
  <1>3. ASSUME NEW r \in Run, RunStep(r) PROVE CacheIsSwept'
    <2>1. CASE DownloadStarts(r) \/ DownloadEnds(r) \/ DownloadsNothing(r)
               \/ EncodeStarts(r) \/ EncodeEnds(r)
      <3>1. pc'[r] \in Early
        BY <2>1 DEF DownloadStarts, DownloadEnds, DownloadsNothing,
                    EncodeStarts, EncodeEnds, Early, TypeOK
      <3> QED BY <1>w, <3>1
    <2>2. CASE GoesOn(r)
      BY <1>w, <2>2 DEF GoesOn, Early, Stage3
    <2>3. CASE r \in Working /\ \E o : EndsAs(r, o)
      BY <2>3, EndsMoves, FinishEffect
    <2>4. CASE Save(r) \/ Report(r)
      <3>1. /\ pc[r] \in Told /\ pc'[r] \notin Early \cup Stage3
            /\ \A s \in Run \ {r} : pc'[s] = pc[s]
            /\ UNCHANGED <<cache, dirty>>
        BY <2>4 DEF Save, Report, TypeOK, Told, Early, Stage3, historyVars
      <3>2. Working' = Working
        BY <3>1 DEF Working, Told, Early, Stage3
      <3> QED BY <3>1, <3>2 DEF Present
    <2> QED BY <1>3, <2>1, <2>2, <2>3, <2>4, RunCases
  <1>4. CASE Crash \/ Stop
    <2>1. CASE Working # {} \/ dirty
      BY <1>4, <2>1 DEF Crash, Stop, AllGone
    <2>2. CASE Working = {} /\ ~dirty
      <3>1. Present = {} /\ UNCHANGED cache
        BY <1>4, <2>2 DEF Crash, Stop
      <3> QED BY <3>1 DEF Present
    <2> QED BY <2>1, <2>2
  <1>5. CASE UNCHANGED vars
    BY <1>5 DEF vars, Working, Present
  <1> QED BY <1>1, <1>2, <1>3, <1>4, <1>5 DEF Next, LeaseStep

LEMMA UnsuspectedStaysAlone ==
    TypeOK /\ FreshRunsAreIdle /\ UnsuspectedIsAlone /\ [Next]_vars
        => UnsuspectedIsAlone'
  <1> SUFFICES ASSUME TypeOK, FreshRunsAreIdle, UnsuspectedIsAlone, [Next]_vars,
                      NEW s \in Run, pc'[s] # "idle", ~suspect'[s]
               PROVE  Active' = {s}
    BY DEF UnsuspectedIsAlone
  <1> USE DEF UnsuspectedIsAlone, Active
  <1>1. CASE Submit \/ Lease \/ GiveUp \/ Expire
    BY <1>1, LeaseKeeps
  <1>2. CASE Launch
    <2>1. /\ pc' = [pc EXCEPT ![attempts] = "fetching"]
          /\ ~suspect[s] /\ s \notin Active
          /\ s = attempts => Active = {}
      BY <1>2 DEF Launch
    <2>2. s = attempts /\ Active = {}
      BY <2>1 DEF TypeOK
    <2> QED BY <2>1, <2>2 DEF TypeOK
  <1>3. ASSUME NEW r \in Run, RunStep(r) PROVE Active' = {s}
    BY <1>3, RunMoves DEF OnlyMoves
  <1>4. CASE Crash \/ Stop
    BY <1>4 DEF Crash, Stop, AllGone
  <1>5. CASE UNCHANGED vars
    BY <1>5 DEF vars
  <1> QED BY <1>1, <1>2, <1>3, <1>4, <1>5 DEF Next, LeaseStep

-----------------------------------------------------------------------------
(* An undisturbed run                                                      *)

\* It alone writes files.
LEMMA AloneWrites ==
    ASSUME TypeOK, ToolsWrite, NEW r \in Run, Active = {r}
    PROVE  /\ \A s \in Run \ {r} : pc[s] = "idle" /\ writes[s] = NoFile
           /\ pc[r] \notin {"downloading", "encoding"} =>
                 \A n \in File : \A c : Opened(n, c) = c
  <1>1. \A s \in Run \ {r} : pc[s] = "idle"
    BY DEF Active
  <1>2. \A s \in Run \ {r} : writes[s] = NoFile
    BY <1>1 DEF ToolsWrite
  <1>3. pc[r] \notin {"downloading", "encoding"} => \A n \in File : Writers(n) = {}
    BY <1>2, Names DEF ToolsWrite, Writers
  <1> QED BY <1>1, <1>2, <1>3 DEF Opened

LEMMA UndisturbedStep ==
    ASSUME IInv, NEW r \in Run, RunStep(r), Active = {r}, Undisturbed(r),
           ~excused'[r], pc'[r] # "idle"
    PROVE  Undisturbed(r)'
  <1> USE Names DEF Undisturbed
  <1>0. TypeOK /\ ToolsWrite
    BY DEF IInv
  <1>1. CASE DownloadStarts(r)
    <2>1. PICK m \in Media :
            /\ cache' = [cache EXCEPT
                 ![m] = Opened(m, IF @ = "none" THEN "part" ELSE @)]
            /\ writes' = [writes EXCEPT ![r] = m]
      BY <1>1 DEF DownloadStarts
    <2>2. \A n \in File : cache[n] = "none"
      BY <1>1 DEF DownloadStarts, Present
    <2>3. Opened(m, "part") = "part"
      BY <1>0, <1>1, AloneWrites DEF DownloadStarts
    <2>4. cache' = [f \in File |-> IF f = m THEN "part" ELSE "none"]
      BY <1>0, <2>1, <2>2, <2>3 DEF TypeOK
    <2>5. pc'[r] = "downloading" /\ writes'[r] = m
      BY <1>0, <1>1, <2>1 DEF DownloadStarts, TypeOK
    <2>6. Holds(writes[r], "part")'
      BY <2>4, <2>5 DEF Holds
    <2> QED BY <2>5, <2>6 DEF Told
  <1>2. CASE DownloadEnds(r)
    <2>1. PICK m \in Media :
            /\ writes[r] = m
            /\ cache = [f \in File |-> IF f = m THEN "part" ELSE "none"]
      BY <1>2 DEF DownloadEnds, Holds
    <2>2. cache' = [f \in File |-> IF f = m THEN "whole" ELSE "none"]
      BY <1>2, <2>1 DEF DownloadEnds, Closed
    <2>3. pc'[r] = "downloaded"
      BY <1>0, <1>2 DEF DownloadEnds, TypeOK
    <2>5. \E n \in Media : Holds(n, "whole")'
      BY <2>2 DEF Holds
    <2> QED BY <2>3, <2>5 DEF Told
  <1>3. CASE DownloadsNothing(r)
    BY <1>0, <1>3 DEF DownloadsNothing, TypeOK
  <1>4. CASE EncodeStarts(r)
    <2>1. cache[input[r]] = "whole"
      BY <1>4 DEF EncodeStarts, Holds
    <2>2. Opened(Wav, "part") = "part"
      BY <1>0, <1>4, AloneWrites DEF EncodeStarts
    <2>3. /\ pc'[r] = "encoding" /\ writes'[r] = Wav
          /\ cache'[Wav] = "part" /\ got'[r] = "whole"
      BY <1>0, <1>4, <2>1, <2>2 DEF EncodeStarts, TypeOK
    <2> QED BY <2>3 DEF Told
  <1>5. CASE EncodeEnds(r)
    <2>1. pc'[r] = "converted" /\ cache'[Wav] = "whole"
      BY <1>0, <1>5 DEF EncodeEnds, Closed, TypeOK
    <2> QED BY <2>1 DEF Told
  <1>6. CASE GoesOn(r)
    <2>1. CASE pc[r] = "downloaded"
      <3>1. PICK m \in Media :
              cache = [f \in File |-> IF f = m THEN "whole" ELSE "none"]
        BY <2>1 DEF Holds
      <3>2. Present = {m}
        BY <3>1 DEF Present
      <3>3. input'[r] = m /\ pc'[r] = "converting" /\ cache' = cache
        BY <1>6, <2>1, <3>2 DEF GoesOn
      <3>4. Holds(input[r], "whole")'
        BY <3>1, <3>3 DEF Holds
      <3> QED BY <3>3, <3>4 DEF Told
    <2>2. CASE pc[r] # "downloaded"
      BY <1>6, <2>2 DEF GoesOn, Told
    <2> QED BY <2>1, <2>2
  <1>7. ASSUME NEW o, EndsAs(r, o), r \in Working PROVE Undisturbed(r)'
    <2>1. pc'[r] = "ended" /\ outcome'[r] = o
      BY <1>0, <1>7, EndsMoves, FinishEffect
    <2>2. ~FailsItself(r, o)
      BY <1>0 DEF FailsItself, TypeOK
    <2>3. CASE pc[r] = "posting" /\ o = Success(got[r])
      BY <2>1, <2>3 DEF Told
    <2>4. CASE Stumbles(r)
      BY <1>0, <2>4 DEF Stumbles, Holds, Present
    <2> QED BY <1>7, <2>2, <2>3, <2>4 DEF EndsAs
  <1>8. CASE Save(r)
    BY <1>0, <1>8 DEF Save, TypeOK, Told
  <1>9. CASE Report(r)
    BY <1>0, <1>9 DEF Report, TypeOK
  <1> QED BY <1>0, <1>1, <1>2, <1>3, <1>4, <1>5, <1>6, <1>7, <1>8, <1>9, RunCases

LEMMA UndisturbedStays == IInv /\ [Next]_vars => UndisturbedRunsAreRight'
  <1> SUFFICES ASSUME IInv, [Next]_vars, NEW s \in Run,
                      pc'[s] # "idle", ~suspect'[s], ~excused'[s]
               PROVE  Undisturbed(s)'
    BY DEF UndisturbedRunsAreRight
  <1>0. TypeOK /\ UnsuspectedIsAlone /\ UndisturbedRunsAreRight
    BY DEF IInv
  <1>1. CASE Submit \/ Lease \/ GiveUp \/ Expire
    <2>1. /\ UNCHANGED <<cache, pc, writes, input, got, outcome>>
          /\ UNCHANGED <<suspect, excused>>
      BY <1>0, <1>1, LeaseKeeps
    <2>2. Undisturbed(s)
      BY <1>0, <2>1 DEF UndisturbedRunsAreRight
    <2> QED BY <2>1, <2>2 DEF Undisturbed, Present, Holds
  <1>2. CASE Launch
    <2>1. /\ pc' = [pc EXCEPT ![attempts] = "fetching"]
          /\ s \notin Active /\ cache' = cache
          /\ s = attempts => ~dirty /\ Active = {}
      BY <1>2 DEF Launch
    <2>2. s = attempts /\ pc'[s] = "fetching" /\ Active = {} /\ ~dirty
      BY <1>0, <2>1 DEF TypeOK, Active
    <2>3. Working = {}
      BY <2>2 DEF Active, Working, Early, Stage3
    <2>4. Present' = {}
      BY <2>1, <2>2, <2>3 DEF IInv, CacheIsSwept, Present
    <2> QED BY <2>2, <2>4 DEF Undisturbed, Told
  <1>3. ASSUME NEW r \in Run, RunStep(r) PROVE Undisturbed(s)'
    <2>1. OnlyMoves(r)
      BY <1>0, <1>3, RunMoves
    <2>2. pc[s] # "idle" /\ ~suspect[s] /\ ~excused[s]
      BY <2>1 DEF OnlyMoves
    <2>3. Active = {s} /\ Undisturbed(s)
      BY <1>0, <2>2 DEF UnsuspectedIsAlone, UndisturbedRunsAreRight
    <2>4. r = s
      BY <2>1, <2>3 DEF OnlyMoves, Active
    <2> QED BY <1>3, <2>3, <2>4, UndisturbedStep
  <1>4. CASE Crash \/ Stop
    BY <1>4 DEF Crash, Stop, AllGone
  <1>5. CASE UNCHANGED vars
    BY <1>0, <1>5 DEF vars, UndisturbedRunsAreRight, Undisturbed, Present, Holds
  <1> QED BY <1>1, <1>2, <1>3, <1>4, <1>5 DEF Next, LeaseStep

-----------------------------------------------------------------------------
(* Overlapping runs, while leases expire after ffmpeg                      *)

LEMMA TimelyBefore == TypeOK /\ [Next]_vars /\ Timely' => Timely
  <1> SUFFICES ASSUME TypeOK, [Next]_vars, Timely' PROVE Timely
    OBVIOUS
  <1> USE DEF Timely
  <1>1. CASE LeaseStep
    BY <1>1, LeaseKeeps DEF LeaseStep, Launch
  <1>2. ASSUME NEW r \in Run, RunStep(r) PROVE Timely
    <2>1. late = FALSE
      BY <1>2, RunMoves DEF OnlyMoves, TypeOK
    <2>2. faults = 0
      <3>1. CASE r \in Working /\ \E o : EndsAs(r, o)
        BY <3>1, EndsMoves, FinishEffect
      <3>2. CASE GoesOn(r)
        BY <3>2 DEF GoesOn
      <3>3. CASE DownloadStarts(r) \/ DownloadEnds(r) \/ DownloadsNothing(r)
                 \/ EncodeStarts(r) \/ EncodeEnds(r) \/ Save(r) \/ Report(r)
        BY <3>3 DEF DownloadStarts, DownloadEnds, DownloadsNothing,
                    EncodeStarts, EncodeEnds, Save, Report, historyVars
      <3> QED BY <1>2, <3>1, <3>2, <3>3, RunCases
    <2> QED BY <2>1, <2>2
  <1>3. CASE Crash \/ Stop
    BY <1>3 DEF Crash, Stop, AllGone, TypeOK
  <1>4. CASE UNCHANGED vars
    BY <1>4 DEF vars
  <1> QED BY <1>1, <1>2, <1>3, <1>4 DEF Next

\* A run enters an early stage from an early stage, and reports at most as it
\* goes idle.
LEMMA EarlyBefore ==
    ASSUME TypeOK, NEW r \in Run, RunStep(r)
    PROVE  /\ pc'[r] \in Early => pc[r] \in Early
           /\ pc'[r] # "idle" => phase' = phase
           /\ phase' # phase => Heard(r)
  <1>1. CASE DownloadStarts(r) \/ DownloadEnds(r) \/ DownloadsNothing(r)
             \/ EncodeStarts(r) \/ EncodeEnds(r)
    BY <1>1 DEF DownloadStarts, DownloadEnds, DownloadsNothing, EncodeStarts,
                EncodeEnds, Early, jobVars
  <1>2. CASE GoesOn(r)
    BY <1>2 DEF GoesOn, Early
  <1>3. CASE r \in Working /\ \E o : EndsAs(r, o)
    BY <1>3, EndsMoves, FinishEffect DEF Early
  <1>4. CASE Save(r)
    BY <1>4 DEF Save, Early, TypeOK
  <1>5. CASE Report(r)
    BY <1>5 DEF Report, Early, TypeOK
  <1> QED BY <1>1, <1>2, <1>3, <1>4, <1>5, RunCases

LEMMA OnlyCurrentStaysEarly == IInv /\ [Next]_vars => OnlyCurrentIsEarly'
  <1> SUFFICES ASSUME IInv, [Next]_vars, Timely',
                      NEW s \in Run, pc'[s] \in Early
               PROVE  Heard(s)'
    BY DEF OnlyCurrentIsEarly
  <1>0. /\ TypeOK /\ Timely
        /\ \A r \in Run : pc[r] \in Early => Heard(r)
    BY TimelyBefore DEF IInv, OnlyCurrentIsEarly
  <1> USE DEF Heard
  <1>1. CASE Submit \/ Lease \/ GiveUp
    BY <1>0, <1>1 DEF Submit, Lease, GiveUp, runVars
  <1>2. CASE Expire
    BY <1>0, <1>2 DEF Expire, runVars, Timely
  <1>3. CASE Launch
    BY <1>0, <1>3 DEF Launch, TypeOK
  <1>4. ASSUME NEW r \in Run, RunStep(r) PROVE Heard(s)'
    <2>1. attempts' = attempts
      BY <1>0, <1>4, RunMoves DEF OnlyMoves
    <2>2. CASE r = s
      BY <1>0, <1>4, <2>1, <2>2, EarlyBefore DEF Early
    <2>3. CASE r # s
      BY <1>0, <1>4, <2>1, <2>3, RunMoves, EarlyBefore DEF OnlyMoves
    <2> QED BY <2>2, <2>3
  <1>5. CASE Crash \/ Stop
    BY <1>5 DEF Crash, Stop, AllGone, Early
  <1>6. CASE UNCHANGED vars
    BY <1>0, <1>6 DEF vars
  <1> QED BY <1>1, <1>2, <1>3, <1>4, <1>5, <1>6 DEF Next, LeaseStep

\* Then only the current run has a file open.
LEMMA CurrentWrites ==
    ASSUME IInv, Timely
    PROVE  /\ \A r \in Run : writes[r] # NoFile => Heard(r)
           /\ \A r, s \in Run : writes[r] # NoFile /\ Heard(s) => r = s
           /\ \A r \in Run : pc[r] \in {"fetching", "converting"} =>
                 \A s \in Run : writes[s] = NoFile
  <1>1. \A r \in Run : writes[r] # NoFile => pc[r] \in Early /\ Heard(r)
    BY DEF IInv, ToolsWrite, OnlyCurrentIsEarly, Early
  <1>2. \A r, s \in Run : writes[r] # NoFile /\ Heard(s) => r = s
    BY <1>1 DEF Heard
  <1>3. ASSUME NEW r \in Run, pc[r] \in {"fetching", "converting"}, NEW s \in Run
        PROVE  writes[s] = NoFile
    <2>1. Heard(r) /\ writes[r] = NoFile
      BY <1>3 DEF IInv, ToolsWrite, OnlyCurrentIsEarly, Early
    <2> QED BY <1>2, <2>1
  <1> QED BY <1>1, <1>2, <1>3

LEMMA PartsStayWritten == IInv /\ [Next]_vars => PartsAreWritten'
  <1> SUFFICES ASSUME IInv, [Next]_vars, Timely', NEW n \in File
               PROVE  /\ cache'[n] # "mixed"
                      /\ cache'[n] = "part" => \E r \in Run : writes'[r] = n
    BY DEF PartsAreWritten
  <1> USE Names
  <1>0. /\ TypeOK /\ Timely /\ CurrentReadsWhole
        /\ cache[n] # "mixed"
        /\ cache[n] = "part" => \E r \in Run : writes[r] = n
    BY TimelyBefore DEF IInv, PartsAreWritten
  <1>1. CASE LeaseStep
    BY <1>0, <1>1, LeaseKeeps DEF LeaseStep, Launch
  <1>2. ASSUME NEW r \in Run, RunStep(r)
        PROVE  /\ cache'[n] # "mixed"
               /\ cache'[n] = "part" => \E s \in Run : writes'[s] = n
    <2>1. CASE DownloadStarts(r) \/ EncodeStarts(r)
      <3>1. \A s \in Run : writes[s] = NoFile
        BY <1>0, <2>1, CurrentWrites DEF DownloadStarts, EncodeStarts
      <3>2. \A f \in File : \A c : Opened(f, c) = c
        BY <3>1 DEF Opened, Writers
      <3>3. cache[n] # "part"
        BY <1>0, <3>1
      <3>4. CASE DownloadStarts(r)
        <4>1. PICK m \in Media :
                /\ cache' = [cache EXCEPT
                     ![m] = Opened(m, IF @ = "none" THEN "part" ELSE @)]
                /\ writes' = [writes EXCEPT ![r] = m]
          BY <3>4 DEF DownloadStarts
        <4>2. writes'[r] = m
          BY <1>0, <4>1 DEF TypeOK
        <4>3. cache'[m] = IF cache[m] = "none" THEN "part" ELSE cache[m]
          BY <1>0, <3>2, <4>1 DEF TypeOK
        <4>4. n # m => cache'[n] = cache[n]
          BY <1>0, <4>1 DEF TypeOK
        <4> QED BY <1>0, <3>3, <4>2, <4>3, <4>4
      <3>5. CASE EncodeStarts(r)
        <4>1. writes'[r] = Wav /\ cache'[Wav] = "part"
              /\ (n # Wav => cache'[n] = cache[n])
          BY <1>0, <3>2, <3>5 DEF EncodeStarts, TypeOK
        <4> QED BY <1>0, <3>3, <4>1
      <3> QED BY <2>1, <3>4, <3>5
    <2>2. CASE DownloadEnds(r) \/ EncodeEnds(r)
      <3>1. PICK c : /\ c = "whole" /\ cache' = Closed(r, c)
                     /\ writes' = [writes EXCEPT ![r] = NoFile]
        BY <1>0, <2>2 DEF DownloadEnds, EncodeEnds, CurrentReadsWhole
      <3>2. \A s \in Run \ {r} : writes'[s] = writes[s]
        BY <1>0, <3>1 DEF TypeOK
      <3>3. cache'[n] = IF n = writes[r] THEN "whole" ELSE cache[n]
        BY <1>0, <3>1 DEF Closed
      <3> QED BY <1>0, <3>2, <3>3
    <2>3. CASE GoesOn(r) \/ DownloadsNothing(r) \/ Save(r) \/ Report(r)
      <3>1. cache' = cache /\ writes' = writes
        BY <2>3 DEF GoesOn, DownloadsNothing, Save, Report
      <3> QED BY <1>0, <3>1
    <2>4. CASE r \in Working /\ \E o : EndsAs(r, o)
      <3>1. Present' = {}
        BY <1>0, <2>4, EndsMoves, FinishEffect DEF Timely
      <3>2. cache'[n] = "none"
        BY <3>1 DEF Present
      <3> QED BY <3>2
    <2> QED BY <1>0, <1>2, <2>1, <2>2, <2>3, <2>4, RunCases
  <1>3. CASE Crash \/ Stop
    BY <1>0, <1>3 DEF Crash, Stop, AllGone, Timely, TypeOK
  <1>4. CASE UNCHANGED vars
    BY <1>0, <1>4 DEF vars
  <1> QED BY <1>1, <1>2, <1>3, <1>4 DEF Next

LEMMA CurrentStaysWhole == IInv /\ [Next]_vars => CurrentReadsWhole'
  <1> SUFFICES ASSUME IInv, [Next]_vars, Timely', NEW s \in Run
               PROVE  /\ pc'[s] = "encoding" => got'[s] = "whole"
                      /\ pc'[s] = "posting" /\ Heard(s)' => got'[s] = "whole"
    BY DEF CurrentReadsWhole
  <1> DEFINE Goal == /\ pc'[s] = "encoding" => got'[s] = "whole"
                     /\ pc'[s] = "posting" /\ Heard(s)' => got'[s] = "whole"
  <1>0. /\ TypeOK /\ Timely
        /\ pc[s] = "encoding" => got[s] = "whole"
        /\ pc[s] = "posting" /\ Heard(s) => got[s] = "whole"
    BY TimelyBefore DEF IInv, CurrentReadsWhole
  <1>1. CASE Submit \/ Lease \/ GiveUp \/ Expire
    <2>1. pc' = pc /\ got' = got
      BY <1>0, <1>1, LeaseKeeps
    <2>2. ~Heard(s)'
      BY <1>1 DEF Submit, Lease, GiveUp, Expire, Heard
    <2> QED BY <1>0, <2>1, <2>2
  <1>2. CASE Launch
    <2>1. pc' = [pc EXCEPT ![attempts] = "fetching"] /\ got' = got
          /\ attempts' = attempts
      BY <1>2 DEF Launch
    <2> QED BY <1>0, <2>1 DEF Heard, TypeOK
  <1>3. ASSUME NEW r \in Run, RunStep(r) PROVE Goal
    <2>1. /\ attempts' = attempts
          /\ pc'[r] # "idle" => phase' = phase
          /\ phase' # phase => Heard(r)
          /\ r # s => pc'[s] = pc[s] /\ got'[s] = got[s]
      BY <1>0, <1>3, RunMoves, EarlyBefore DEF OnlyMoves
    <2>2. CASE r # s
      <3>1. Heard(s)' => Heard(s)
        BY <1>0, <2>1, <2>2 DEF Heard
      <3> QED BY <1>0, <2>1, <2>2, <3>1
    <2>3. CASE r = s /\ EncodeStarts(r)
      <3>1. \A q \in Run : writes[q] = NoFile
        BY <1>0, <2>3, CurrentWrites DEF EncodeStarts
      <3>2. input[r] \in File /\ cache[input[r]] # "none"
            /\ got'[r] = cache[input[r]] /\ pc'[r] = "encoding"
        BY <1>0, <2>3 DEF EncodeStarts, Present, TypeOK
      <3>3. cache[input[r]] = "whole"
        BY <1>0, <3>1, <3>2, Names DEF IInv, PartsAreWritten, TypeOK, Content
      <3> QED BY <2>3, <3>2, <3>3
    <2>4. CASE r = s /\ GoesOn(r)
      <3>1. CASE pc'[r] = "posting" /\ Heard(r)'
        <4>1. pc[r] = "reading" /\ Heard(r) /\ got'[r] = cache[Wav]
              /\ Wav \in Present
          BY <2>1, <2>4, <3>1 DEF GoesOn, Heard
        <4>2. \A q \in Run : writes[q] = NoFile
          BY <1>0, <4>1, CurrentWrites DEF IInv, ToolsWrite
        <4>3. cache[Wav] = "whole"
          BY <1>0, <4>1, <4>2, Names
             DEF IInv, PartsAreWritten, TypeOK, Content, Present
        <4> QED BY <2>4, <4>1, <4>3, <3>1
      <3>2. CASE ~(pc'[r] = "posting" /\ Heard(r)')
        BY <2>4, <3>2 DEF GoesOn
      <3> QED BY <3>1, <3>2
    <2>5. CASE r = s /\ (DownloadStarts(r) \/ DownloadEnds(r)
                           \/ DownloadsNothing(r) \/ EncodeEnds(r))
      BY <1>0, <2>5 DEF DownloadStarts, DownloadEnds, DownloadsNothing,
                        EncodeEnds, TypeOK
    <2>6. CASE r = s /\ (Save(r) \/ Report(r))
      BY <1>0, <2>6 DEF Save, Report, TypeOK
    <2>7. CASE r = s /\ r \in Working /\ \E o : EndsAs(r, o)
      BY <1>0, <2>7, EndsMoves, FinishEffect
    <2> QED BY <1>0, <1>3, <2>2, <2>3, <2>4, <2>5, <2>6, <2>7, RunCases
  <1>4. CASE Crash \/ Stop
    BY <1>4 DEF Crash, Stop, AllGone
  <1>5. CASE UNCHANGED vars
    BY <1>0, <1>5 DEF vars, Heard
  <1> QED BY <1>1, <1>2, <1>3, <1>4, <1>5 DEF Next, LeaseStep

LEMMA TimelyTextStays == IInv /\ [Next]_vars => TimelyOverlapKeepsText'
  <1> SUFFICES ASSUME IInv, [Next]_vars, Timely',
                      NEW s \in Run, pc'[s] \in Told, Heard(s)'
               PROVE  outcome'[s].text \in {"none", "whole"}
    BY DEF TimelyOverlapKeepsText, Timely
  <1>0. /\ TypeOK /\ Timely
        /\ pc[s] \in Told /\ Heard(s) => outcome[s].text \in {"none", "whole"}
    BY TimelyBefore DEF IInv, TimelyOverlapKeepsText, Timely
  <1>1. CASE Submit \/ Lease \/ GiveUp \/ Expire
    BY <1>1 DEF Submit, Lease, GiveUp, Expire, Heard
  <1>2. CASE Launch
    <2>1. pc' = [pc EXCEPT ![attempts] = "fetching"] /\ attempts' = attempts
      BY <1>2 DEF Launch
    <2> QED BY <1>0, <2>1 DEF Heard, TypeOK, Told
  <1>3. ASSUME NEW r \in Run, RunStep(r)
        PROVE  outcome'[s].text \in {"none", "whole"}
    <2>1. /\ attempts' = attempts
          /\ pc'[r] # "idle" => phase' = phase
          /\ phase' # phase => Heard(r)
          /\ r # s => pc'[s] = pc[s] /\ outcome'[s] = outcome[s]
      BY <1>0, <1>3, RunMoves, EarlyBefore DEF OnlyMoves
    <2>2. CASE r # s
      BY <1>0, <2>1, <2>2 DEF Heard
    <2>3. CASE r = s
      <3>1. Heard(s)
        BY <2>1, <2>3 DEF Heard, Told
      <3>2. CASE r \in Working /\ \E o : EndsAs(r, o)
        <4>1. PICK o : EndsAs(r, o) /\ outcome'[s] = o
          BY <1>0, <2>3, <3>2, EndsMoves, FinishEffect
        <4>2. CASE o.text = "none"
          BY <4>1, <4>2
        <4>3. CASE o = Success(got[r]) /\ pc[r] = "posting"
          <5>1. got[r] = "whole"
            BY <1>0, <2>3, <3>1, <4>3 DEF IInv, CurrentReadsWhole
          <5>2. o.text = "whole"
            BY <4>3, <5>1 DEF Success
          <5> QED BY <4>1, <5>2
        <4> QED BY <4>1, <4>2, <4>3 DEF EndsAs
      <3>3. CASE Save(r)
        BY <1>0, <2>3, <3>1, <3>3 DEF Save, Told
      <3>4. CASE Report(r) \/ GoesOn(r)
        BY <1>0, <2>3, <3>4 DEF Report, GoesOn, TypeOK, Told
      <3>5. CASE DownloadStarts(r) \/ DownloadEnds(r) \/ DownloadsNothing(r)
                 \/ EncodeStarts(r) \/ EncodeEnds(r)
        BY <1>0, <2>3, <3>5
           DEF DownloadStarts, DownloadEnds, DownloadsNothing, EncodeStarts,
               EncodeEnds, TypeOK, Told
      <3> QED BY <1>0, <1>3, <3>2, <3>3, <3>4, <3>5, RunCases
    <2> QED BY <2>2, <2>3
  <1>4. CASE Crash \/ Stop
    BY <1>4 DEF Crash, Stop, AllGone, Told
  <1>5. CASE UNCHANGED vars
    BY <1>0, <1>5 DEF vars, Heard
  <1> QED BY <1>1, <1>2, <1>3, <1>4, <1>5 DEF Next, LeaseStep

-----------------------------------------------------------------------------
(* The theorems                                                            *)

LEMMA NextIInv == IInv /\ [Next]_vars => IInv'
  <1> SUFFICES ASSUME IInv, [Next]_vars PROVE IInv'
    OBVIOUS
  <1>1. TypeOK' /\ FreshRunsAreIdle' /\ ToolsWrite' /\ CacheIsSwept'
        /\ UnsuspectedIsAlone'
    BY NextType, FreshRunsStay, ToolsWriteStays, CacheStaysSwept,
       UnsuspectedStaysAlone DEF IInv
  <1> QED BY <1>1, UndisturbedStays, OnlyCurrentStaysEarly, PartsStayWritten,
             CurrentStaysWhole, TimelyTextStays DEF IInv

LEMMA Invariance == Spec => []IInv
  BY InitIInv, NextIInv, PTL DEF Spec

\* Every variable keeps its type; a run that is started is within the budget.
THEOREM TypeCorrect == Spec => []TypeOK
  <1>1. IInv => TypeOK
    BY DEF IInv
  <1> QED BY <1>1, Invariance, PTL

\* Whatever the overlaps, the last run to leave its stages leaves no file of
\* the job, until the process ends under a run or a file cannot be removed.
THEOREM CacheSwept == Spec => []CacheIsSwept
  <1>1. IInv => CacheIsSwept
    BY DEF IInv
  <1> QED BY <1>1, Invariance, PTL

\* A run that met nobody and nothing, and that no tool and no gateway failed,
\* gives the whole text, whatever happened to the runs before it.
THEOREM UndisturbedSucceeds == Spec => []UndisturbedRunSucceeds
  <1>1. IInv => UndisturbedRunSucceeds
    BY DEF IInv, UndisturbedRunsAreRight, Undisturbed, UndisturbedRunSucceeds,
           Told
  <1> QED BY <1>1, Invariance, PTL

\* While leases expire only after ffmpeg, the current run never hands on a
\* text of a file that another run is writing.
THEOREM TimelyOverlap == Spec => []TimelyOverlapKeepsText
  <1>1. IInv => TimelyOverlapKeepsText
    BY DEF IInv
  <1> QED BY <1>1, Invariance, PTL

-----------------------------------------------------------------------------
(* Pipeline implements JobLifecycle                                        *)

One(x) == [j \in {TheJob} |-> x]

LEMMA OneUpdates ==
    /\ \A x : One(x)[TheJob] = x
    /\ \A x, y : [One(x) EXCEPT ![TheJob] = y] = One(y)
  BY DEF One

\* Every step of a run but its report keeps it in flight, and with it the
\* others.
LEMMA ActiveKept ==
    ASSUME TypeOK, NEW r \in Run, RunStep(r), ~Report(r)
    PROVE  Active' = Active /\ phase' = phase /\ attempts' = attempts
  <1>1. pc'[r] # "idle"
    <2>1. CASE DownloadStarts(r) \/ DownloadEnds(r) \/ DownloadsNothing(r)
               \/ EncodeStarts(r) \/ EncodeEnds(r) \/ Save(r)
      BY <2>1 DEF DownloadStarts, DownloadEnds, DownloadsNothing,
                  EncodeStarts, EncodeEnds, Save, TypeOK
    <2>2. CASE GoesOn(r)
      BY <2>2 DEF GoesOn
    <2>3. CASE r \in Working /\ \E o : EndsAs(r, o)
      BY <2>3, EndsMoves, FinishEffect
    <2> QED BY <2>1, <2>2, <2>3, RunCases
  <1> QED BY <1>1, RunMoves, EarlyBefore DEF OnlyMoves, Active

LEMMA InitLifecycle == Init => Lifecycle!Init
  <1> SUFFICES ASSUME Init PROVE Lifecycle!Init
    OBVIOUS
  <1>1. Active = {} /\ phase = "absent" /\ attempts = 0
    BY DEF Init, Active
  <1> QED BY <1>1 DEF Lifecycle!Init

LEMMA NextLifecycle ==
    IInv /\ [Next]_vars => [Lifecycle!Next]_(Lifecycle!vars)
  <1> SUFFICES ASSUME IInv, [Next]_vars
               PROVE  \/ Lifecycle!Next
                      \/ /\ phase' = phase /\ attempts' = attempts
                         /\ Active' = Active
    BY DEF Lifecycle!vars
  <1>0. TypeOK
    BY DEF IInv
  <1>t. TheJob \in {TheJob}
    OBVIOUS
  <1> USE OneUpdates DEF One
  <1>1. CASE Submit
    <2>1. /\ phase = "absent" /\ phase' = "queued"
          /\ attempts' = attempts /\ Active' = Active
      BY <1>1 DEF Submit, runVars, Active
    <2>2. Lifecycle!Submit(TheJob)
      BY <2>1 DEF Lifecycle!Submit
    <2> QED BY <1>t, <2>2 DEF Lifecycle!Next
  <1>2. CASE Lease
    <2>1. /\ phase = "queued" /\ phase' = "leased"
          /\ attempts' = attempts + 1 /\ Active' = Active
      BY <1>2 DEF Lease, runVars, Active
    <2>2. Lifecycle!Lease(TheJob)
      BY <2>1 DEF Lifecycle!Lease
    <2> QED BY <1>t, <2>2 DEF Lifecycle!Next
  <1>3. CASE Launch
    <2>1. /\ phase = "leased" /\ phase' = "running" /\ attempts <= MaxAttempts
          /\ attempts' = attempts
          /\ pc' = [pc EXCEPT ![attempts] = "fetching"]
      BY <1>3 DEF Launch, WithinAttempts
    <2>2. attempts \in Run
      BY <1>0, <2>1, BoundAssumption DEF IInv, FreshRunsAreIdle, TypeOK, Run
    <2>3. Active' = Active \cup {attempts}
      BY <1>0, <2>1, <2>2 DEF Active, TypeOK
    <2>4. Lifecycle!Launch(TheJob)
      BY <2>1, <2>3 DEF Lifecycle!Launch
    <2> QED BY <1>t, <2>4 DEF Lifecycle!Next
  <1>4. CASE GiveUp
    <2>1. /\ phase = "leased" /\ phase' = "failed" /\ attempts > MaxAttempts
          /\ attempts' = attempts /\ Active' = Active
      BY <1>0, <1>4, BoundAssumption
         DEF GiveUp, WithinAttempts, runVars, Active, TypeOK
    <2>2. Lifecycle!GiveUp(TheJob)
      BY <2>1 DEF Lifecycle!GiveUp
    <2> QED BY <1>t, <2>2 DEF Lifecycle!Next
  <1>5. CASE Expire
    <2>1. /\ phase \in {"leased", "running"} /\ phase' = "queued"
          /\ attempts' = attempts /\ Active' = Active
      BY <1>5 DEF Expire, runVars, Active
    <2>2. Lifecycle!Expire({TheJob})
      BY <2>1 DEF Lifecycle!Expire
    <2>3. {TheJob} \in SUBSET {TheJob}
      OBVIOUS
    <2> QED BY <2>2, <2>3 DEF Lifecycle!Next
  <1>6. ASSUME NEW r \in Run, Report(r) PROVE Lifecycle!Next
    <2>1. /\ pc[r] \in Told /\ pc'= [pc EXCEPT ![r] = "idle"]
          /\ attempts' = attempts
      BY <1>6 DEF Report, Told
    <2>2. r \in Active /\ Active' = Active \ {r}
      BY <1>0, <2>1 DEF Active, Told, TypeOK
    <2>3. CASE Heard(r)
      <3>1. phase = "running" /\ attempts = r /\ phase' = NextPhase(outcome[r])
        BY <1>6, <2>3 DEF Report, Heard
      <3>2. Lifecycle!Report(TheJob, NextPhase(outcome[r]))
        BY <2>1, <2>2, <3>1 DEF Lifecycle!Report
      <3>3. \/ NextPhase(outcome[r]) \in {"done", "failed"}
            \/ NextPhase(outcome[r]) = "queued" /\ attempts < MaxAttempts
        BY DEF NextPhase
      <3>4. \/ Lifecycle!Succeed(TheJob) \/ Lifecycle!Fail(TheJob)
            \/ Lifecycle!Retry(TheJob)
        BY <3>2, <3>3
           DEF Lifecycle!Succeed, Lifecycle!Fail, Lifecycle!Retry
      <3> QED BY <1>t, <3>4 DEF Lifecycle!Next
    <2>4. CASE ~Heard(r)
      <3>1. phase' = phase
        BY <1>6, <2>4 DEF Report
      <3>2. Lifecycle!Abandon
        BY <2>1, <2>2, <3>1 DEF Lifecycle!Abandon
      <3> QED BY <3>2 DEF Lifecycle!Next
    <2> QED BY <2>3, <2>4
  <1>7. ASSUME NEW r \in Run, RunStep(r), ~Report(r)
        PROVE  phase' = phase /\ attempts' = attempts /\ Active' = Active
    BY <1>0, <1>7, ActiveKept
  <1>8. CASE Crash \/ Stop
    <2>1. /\ phase' = phase /\ attempts' = attempts
          /\ pc' = [r \in Run |-> "idle"]
      BY <1>8 DEF Crash, Stop, AllGone, jobVars
    <2>2. Active' = {}
      BY <2>1 DEF Active
    <2>3. Lifecycle!Abandon
      BY <2>1, <2>2 DEF Lifecycle!Abandon
    <2> QED BY <2>3 DEF Lifecycle!Next
  <1>9. CASE UNCHANGED vars
    BY <1>9 DEF vars, Active
  <1> QED BY <1>1, <1>2, <1>3, <1>4, <1>5, <1>6, <1>7, <1>8, <1>9
          DEF Next, LeaseStep

\* Runs of one job that take and delete each other's files still keep the
\* promise of JobLifecycle: only the current one is heard, once.
THEOREM Refinement == Spec => ImplementsLifecycle
  <1>1. Init => Lifecycle!Init
    BY InitLifecycle
  <1>2. IInv /\ [Next]_vars => [Lifecycle!Next]_(Lifecycle!vars)
    BY NextLifecycle
  <1> QED BY <1>1, <1>2, Invariance, PTL
          DEF Spec, ImplementsLifecycle, Lifecycle!Spec

-----------------------------------------------------------------------------
(* Runs of a job write its transcript as TranscriptLifecycle lets them     *)

\* A run that is about to mark_done has written its text.
SavedHasText == \A r \in Run : pc[r] = "saved" => transcript # "none"

\* Only the worker's write touches the transcript.
LEMMA TextKept ==
    ASSUME TypeOK, NEW r \in Run, RunStep(r), ~Save(r)
    PROVE  /\ transcript' = transcript
           /\ pc'[r] # "saved"
  <1>1. CASE DownloadStarts(r) \/ DownloadEnds(r) \/ DownloadsNothing(r)
             \/ EncodeStarts(r) \/ EncodeEnds(r)
    BY <1>1 DEF DownloadStarts, DownloadEnds, DownloadsNothing, EncodeStarts,
                EncodeEnds, jobVars, TypeOK
  <1>2. CASE GoesOn(r)
    BY <1>2 DEF GoesOn
  <1>3. CASE r \in Working /\ \E o : EndsAs(r, o)
    BY <1>3, EndsMoves, FinishEffect
  <1>4. CASE Report(r)
    BY <1>4 DEF Report, TypeOK
  <1> QED BY <1>1, <1>2, <1>3, <1>4, RunCases

\* What a Save leaves behind.
LEMMA SaveEffect ==
    ASSUME NEW r \in Run, Save(r)
    PROVE  transcript' # "none" /\ phase' = phase
  BY DEF Save

LEMMA SavedStays ==
    ASSUME TypeOK, SavedHasText, [Next]_vars
    PROVE  SavedHasText'
  <1>1. CASE Submit \/ Lease \/ GiveUp \/ Expire
    BY <1>1, LeaseKeeps DEF SavedHasText
  <1>2. CASE Launch
    BY <1>2 DEF Launch, SavedHasText, TypeOK
  <1>3. ASSUME NEW r \in Run, RunStep(r) PROVE SavedHasText'
    <2>1. CASE Save(r)
      BY <2>1, SaveEffect DEF SavedHasText
    <2>2. CASE ~Save(r)
      <3>1. \A s \in Run \ {r} : pc'[s] = pc[s]
        BY <1>3, RunMoves DEF OnlyMoves
      <3>2. transcript' = transcript /\ pc'[r] # "saved"
        BY <1>3, <2>2, TextKept
      <3> QED BY <3>1, <3>2 DEF SavedHasText
    <2> QED BY <2>1, <2>2
  <1>4. CASE Crash \/ Stop
    BY <1>4 DEF Crash, Stop, AllGone, SavedHasText
  <1>5. CASE UNCHANGED vars
    BY <1>5 DEF vars, SavedHasText
  <1> QED BY <1>1, <1>2, <1>3, <1>4, <1>5 DEF Next, LeaseStep

LEMMA InitTranscript == Init => Transcript!Init
  <1> SUFFICES ASSUME Init PROVE Transcript!Init
    OBVIOUS
  <1>1. phase = "absent" /\ TranscriptPlaces = {}
    BY DEF Init, TranscriptPlaces
  <1> QED BY <1>1 DEF Transcript!Init

LEMMA NextTranscript ==
    ASSUME TypeOK, SavedHasText, [Next]_vars
    PROVE  Transcript!Next \/ UNCHANGED Transcript!vars
  <1>1. ASSUME transcript' = transcript, phase \notin {"done", "failed"},
               phase' \notin {"done", "failed"}
        PROVE  UNCHANGED Transcript!vars
    BY <1>1 DEF Transcript!vars, TranscriptPlaces
  <1>2. ASSUME transcript' = transcript, phase' = phase
        PROVE  UNCHANGED Transcript!vars
    BY <1>2 DEF Transcript!vars, TranscriptPlaces
  <1>3. ASSUME transcript' = transcript, phase \notin {"done", "failed"},
               phase' = "failed"
        PROVE  Transcript!Next
    <2>1. TranscriptPlaces' = TranscriptPlaces
      BY <1>3 DEF TranscriptPlaces
    <2>2. Transcript!Fail
      BY <1>3, <2>1 DEF Transcript!Fail
    <2> QED BY <2>2 DEF Transcript!Next
  <1>4. ASSUME transcript' = transcript, phase \notin {"done", "failed"},
               phase' = "done", transcript # "none"
        PROVE  Transcript!Next
    <2>1. TranscriptPlaces' = TranscriptPlaces /\ "results" \in TranscriptPlaces
      BY <1>4 DEF TranscriptPlaces
    <2>2. Transcript!Finish
      BY <1>4, <2>1 DEF Transcript!Finish
    <2> QED BY <2>2 DEF Transcript!Next
  <1>5. ASSUME transcript' # "none", phase' = phase
        PROVE  Transcript!Next
    <2>1. TranscriptPlaces' = TranscriptPlaces \cup {"results"}
      BY <1>5 DEF TranscriptPlaces
    <2>2. Transcript!Write
      BY <1>5, <2>1 DEF Transcript!Write
    <2> QED BY <2>2 DEF Transcript!Next
  <1>6. CASE Submit \/ Lease \/ Expire \/ Launch
    <2>1. /\ transcript' = transcript
          /\ phase \notin {"done", "failed"} /\ phase' \notin {"done", "failed"}
      BY <1>6 DEF Submit, Lease, Expire, Launch
    <2> QED BY <1>1, <2>1
  <1>7. CASE GiveUp
    BY <1>3, <1>7 DEF GiveUp
  <1>8. ASSUME NEW r \in Run, RunStep(r)
        PROVE  Transcript!Next \/ UNCHANGED Transcript!vars
    <2>1. CASE Save(r)
      BY <1>5, <2>1, SaveEffect
    <2>2. CASE Report(r) /\ Heard(r)
      <3>1. /\ phase = "running" /\ phase' = NextPhase(outcome[r])
            /\ transcript' = transcript
            /\ outcome[r].text # "none" => pc[r] = "saved"
        BY <2>2 DEF Report, Heard
      <3>2. CASE phase' = "done"
        <4>1. transcript # "none"
          BY <3>1, <3>2 DEF NextPhase, SavedHasText
        <4> QED BY <1>4, <3>1, <3>2, <4>1
      <3>3. CASE phase' = "failed"
        BY <1>3, <3>1, <3>3
      <3>4. CASE phase' = "queued"
        BY <1>1, <3>1, <3>4
      <3> QED BY <3>1, <3>2, <3>3, <3>4 DEF NextPhase
    <2>3. CASE ~Save(r) /\ ~(Report(r) /\ Heard(r))
      <3>1. transcript' = transcript /\ phase' = phase
        BY <1>8, <2>3, TextKept, ReportPhase
      <3> QED BY <1>2, <3>1
    <2> QED BY <2>1, <2>2, <2>3
  <1>9. CASE Crash \/ Stop \/ UNCHANGED vars
    <2>1. transcript' = transcript /\ phase' = phase
      BY <1>9 DEF Crash, Stop, AllGone, jobVars, vars
    <2> QED BY <1>2, <2>1
  <1> QED BY <1>6, <1>7, <1>8, <1>9 DEF Next, LeaseStep

\* However its runs overlap and fail, and whenever the process ends, a job is
\* DONE only after a text was written, and what a late run does to the text is
\* one more write: what Transcripts assumes of a worker.
THEOREM TranscriptRefinement == Spec => Transcript!Spec
  <1>1. Init => SavedHasText
    BY DEF Init, SavedHasText
  <1>2. IInv /\ SavedHasText /\ [Next]_vars => SavedHasText'
    BY SavedStays DEF IInv
  <1>3. Init => Transcript!Init
    BY InitTranscript
  <1>4. IInv /\ SavedHasText /\ [Next]_vars
        => [Transcript!Next]_(Transcript!vars)
    BY NextTranscript DEF IInv
  <1> QED BY <1>1, <1>2, <1>3, <1>4, Invariance, PTL
          DEF Spec, Transcript!Spec
=============================================================================
