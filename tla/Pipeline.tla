------------------------------ MODULE Pipeline ------------------------------
(***************************************************************************)
(* The runs of one job through yt-dlp, ffmpeg and the Whisper gateway      *)
(* (pipeline/stages.py, pipeline/whisper_pipeline.py,                      *)
(* stt/litellm_whisper.py).                                                *)
(*                                                                         *)
(* All files of a job are named audio-cache/{job_id}.*, whichever attempt  *)
(* writes them, and jobs do not share names: one job is modelled.  Its     *)
(* runs share files when a lease expires under a slow run and another      *)
(* worker starts the next one, and when a run finds what an earlier one    *)
(* left behind.  The leases are those of JobLifecycle; a run is known by   *)
(* the attempt that started it.                                            *)
(*                                                                         *)
(* A step is the code between two awaits, or what a tool does to a file.   *)
(* The content of a file is whether it is all there: "part" while a tool   *)
(* writes it or after the tool was stopped, "mixed" when two tools wrote   *)
(* it at once, "whole" otherwise.                                          *)
(***************************************************************************)
EXTENDS Naturals, FiniteSets

\* A definition whose name extends that of the one after it is a variant with
\* a plausible bug: the properties are also checked to fail for the variants.

CONSTANTS
    Media,       \* names {job_id}.{ext} that yt-dlp may choose
    Wav,         \* the name {job_id}.wav
    MaxAttempts, \* Settings.max_attempts
    WorkerCount, \* Settings.worker_count
    MaxLeases,   \* bound: no lease expires under a live holder from here on
    MaxFaults    \* bound: ends of the process, and cleanups that fail

\* A name is its place in the order of sorted(), from 1 up.
ASSUME NameAssumption == Media \subseteq Nat \ {0} /\ Wav \in Nat \ ({0} \cup Media)
ASSUME BoundAssumption ==
    /\ MaxAttempts \in Nat /\ WorkerCount \in Nat
    /\ MaxLeases \in Nat /\ MaxFaults \in Nat

File   == Media \cup {Wav}
NoFile == 0
Run    == 1..MaxAttempts
Content == {"none", "part", "mixed", "whole"}

VARIABLES
    phase,     \* the job, as in JobLifecycle
    attempts,  \* leases granted so far
    cache,     \* the content of each file; "none": there is no such file
    pc,        \* where each run stands
    writes,    \* the file that the run's tool is writing
    input,     \* raw_path
    got,       \* the content that the run has read
    outcome,   \* how the run ended
    transcript,\* the content of results/{job_id}.md
    suspect,   \* history: other runs or leftovers may have met this run
    excused,   \* history: a tool or the gateway has failed this run
    dirty,     \* history: files may be left that no cleanup has followed
    late,      \* history: a lease expired under a run in stage 1 or 2
    faults     \* ends of the process and failed cleanups so far

jobVars     == <<phase, attempts, transcript>>
runVars     == <<pc, writes, input, got, outcome>>
historyVars == <<suspect, excused, dirty, late, faults>>
vars == <<phase, attempts, cache, pc, writes, input, got, outcome,
          transcript, suspect, excused, dirty, late, faults>>

\* A run's place in transcribe:
\*   fetching     yt-dlp has been started and has no file yet
\*   downloading  yt-dlp writes the media
\*   downloaded   yt-dlp has exited; the files are about to be listed
\*   converting   ffmpeg has been started and has opened nothing yet
\*   encoding     ffmpeg writes the WAV
\*   converted    ffmpeg has exited; the WAV is about to be looked for
\*   listing      GET /models
\*   reading      about to read the WAV
\*   posting      POST /audio/transcriptions
\*   ended        transcribe has returned or raised
\*   saved        the worker has written the text and is about to mark_done
Early   == {"fetching", "downloading", "downloaded",
            "converting", "encoding", "converted"}
Stage3  == {"listing", "reading", "posting"}
Told    == {"ended", "saved"}
Label   == {"idle"} \cup Early \cup Stage3 \cup Told

Active  == {r \in Run : pc[r] # "idle"}
Working == {r \in Run : pc[r] \in Early \cup Stage3}
Present == {n \in File : cache[n] # "none"}

-----------------------------------------------------------------------------
(* Outcomes                                                                *)

Code == {"NONE", "FETCH_FAILED", "AUDIO_CONDITIONING_FAILED",
         "STT_GATEWAY_UNAVAILABLE", "STT_BAD_REQUEST", "MODEL_NOT_PULLED",
         "PIPELINE_TRANSIENT"}
Outcome == [code : Code, retryable : BOOLEAN, text : Content]
Success(content) == [code |-> "NONE", retryable |-> FALSE, text |-> content]
Failure(code, retryable) ==
    [code |-> code, retryable |-> retryable, text |-> "none"]
NoOutcome == Success("none")

\* yt-dlp's exit with an error: its stderr may hold markers of both lists,
\* and the permanent ones are looked for first.
FetchError(markers) ==
    Failure("FETCH_FAILED", "network" \in markers /\ "permanent" \notin markers)
FetchTimeout == Failure("FETCH_FAILED", TRUE)
NoMedia      == Failure("FETCH_FAILED", FALSE)

ConditioningError == Failure("AUDIO_CONDITIONING_FAILED", FALSE)

\* The answers of the gateway that are not what was asked for.
BadResponse == {"unreachable", "5xx", "4xx", "malformed"}
GatewayError(response) ==
    IF response \in {"unreachable", "5xx"}
    THEN Failure("STT_GATEWAY_UNAVAILABLE", TRUE)
    ELSE Failure("STT_BAD_REQUEST", FALSE)
ModelNotPulled == Failure("MODEL_NOT_PULLED", FALSE)

\* What the worker makes of an exception that is no PipelineError.
TransientError == Failure("PIPELINE_TRANSIENT", TRUE)

FetchErrors == {FetchTimeout} \cup
               {FetchError(s) : s \in SUBSET {"network", "permanent"}}
ListErrors  == {ModelNotPulled} \cup {GatewayError(a) : a \in BadResponse}

\* JSON that is not an object makes payload.get raise an AttributeError.
PostErrors == {TransientError} \cup {GatewayError(a) : a \in BadResponse}

-----------------------------------------------------------------------------
Init ==
    /\ phase = "absent" /\ attempts = 0 /\ transcript = "none"
    /\ cache   = [n \in File |-> "none"]
    /\ pc      = [r \in Run |-> "idle"]
    /\ writes  = [r \in Run |-> NoFile]
    /\ input   = [r \in Run |-> NoFile]
    /\ got     = [r \in Run |-> "none"]
    /\ outcome = [r \in Run |-> NoOutcome]
    /\ suspect = [r \in Run |-> FALSE]
    /\ excused = [r \in Run |-> FALSE]
    /\ dirty = FALSE /\ late = FALSE /\ faults = 0

-----------------------------------------------------------------------------
(* Leases (JobLifecycle)                                                   *)

Submit ==
    /\ phase = "absent" /\ phase' = "queued"
    /\ UNCHANGED <<attempts, transcript, cache, runVars, historyVars>>

\* A worker that is free claims the job.
Lease ==
    /\ phase = "queued" /\ Cardinality(Active) < WorkerCount
    /\ phase' = "leased" /\ attempts' = attempts + 1
    /\ UNCHANGED <<transcript, cache, runVars, historyVars>>

\* mark_processing succeeds and transcribe starts yt-dlp.
WithinAttemptsByOne == attempts <= MaxAttempts + 1
WithinAttempts == attempts <= MaxAttempts
Launch ==
    /\ phase = "leased" /\ WithinAttempts
    /\ phase' = "running"
    /\ pc' = [pc EXCEPT ![attempts] = "fetching"]
    /\ suspect' = [r \in Run |->
                     \/ suspect[r]
                     \/ r \in Active
                     \/ r = attempts /\ (dirty \/ Active # {})]
    /\ UNCHANGED <<attempts, transcript, cache, writes, input, got, outcome,
                   excused, dirty, late, faults>>

\* The claim was one too many: MAX_ATTEMPTS.
GiveUp ==
    /\ phase = "leased" /\ ~WithinAttempts
    /\ phase' = "failed"
    /\ UNCHANGED <<attempts, transcript, cache, runVars, historyVars>>

\* The lease expires and is reclaimed, whether or not its run is alive.
Expire ==
    /\ phase \in {"leased", "running"}
    /\ \/ attempts < MaxLeases
       \/ phase = "running" /\ attempts \notin Active
    /\ phase' = "queued"
    /\ late' = (late \/ \E r \in Run : r = attempts /\ pc[r] \in Early)
    /\ UNCHANGED <<attempts, transcript, cache, runVars,
                   suspect, excused, dirty, faults>>

-----------------------------------------------------------------------------
(* The end of a run                                                        *)

\* The files that cleanup_job_files looks for.
JobFilesButWav == Present \ {Wav}
JobFilesButMedia == Present \ Media
JobFiles == Present

\* transcribe returns or raises.  On the way its finally clause removes every
\* file of the job; one that cannot be removed is logged and stays.  A tool
\* of another run goes on writing a file that has lost its name.
Finish(r, o) ==
    /\ \E kept \in SUBSET JobFiles :
          /\ \/ kept = {} /\ faults' = faults
             \/ kept # {} /\ faults < MaxFaults /\ faults' = faults + 1
          /\ dirty' = (kept # {})
          /\ cache' = [n \in File |-> IF n \in JobFiles \ kept THEN "none"
                                                               ELSE cache[n]]
          /\ writes' = [s \in Run |->
                          IF s = r \/ writes[s] \in JobFiles \ kept
                          THEN NoFile ELSE writes[s]]
    /\ pc' = [pc EXCEPT ![r] = "ended"]
    /\ input' = [input EXCEPT ![r] = NoFile]
    /\ got' = [got EXCEPT ![r] = "none"]
    /\ outcome' = [outcome EXCEPT ![r] = o]
    /\ UNCHANGED <<jobVars, suspect, late>>

\* Finish because a tool or the gateway failed.
FailsItself(r, o) ==
    /\ Finish(r, o)
    /\ excused' = [excused EXCEPT ![r] = TRUE]

\* Finish for any other reason.
Ends(r, o) == Finish(r, o) /\ UNCHANGED excused

\* The worker writes the text, whether or not its lease is still its own.
Save(r) ==
    /\ pc[r] = "ended" /\ outcome[r].text # "none"
    /\ transcript' = outcome[r].text
    /\ pc' = [pc EXCEPT ![r] = "saved"]
    /\ UNCHANGED <<phase, attempts, cache, writes, input, got, outcome,
                   historyVars>>

\* mark_done, defer_retry or mark_failed: only the run of the current lease
\* is heard.
HeardUnleased(r) == phase = "running"
Heard(r) == phase = "running" /\ attempts = r
NextPhase(o) ==
    IF o.text # "none" THEN "done"
    ELSE IF o.retryable /\ attempts < MaxAttempts THEN "queued"
    ELSE "failed"
Report(r) ==
    /\ \/ pc[r] = "saved"
       \/ pc[r] = "ended" /\ outcome[r].text = "none"
    /\ pc' = [pc EXCEPT ![r] = "idle"]
    /\ phase' = IF Heard(r) THEN NextPhase(outcome[r]) ELSE phase
    /\ outcome' = [outcome EXCEPT ![r] = NoOutcome]
    /\ UNCHANGED <<attempts, transcript, cache, writes, input, got,
                   historyVars>>

-----------------------------------------------------------------------------
(* Stage 1: yt-dlp (external) and what fetch_media makes of it             *)

Writers(n) == {r \in Run : writes[r] = n}

\* A tool opens a file for writing.  Another tool that has it open makes a
\* mixture of both.
Opened(n, content) == IF Writers(n) # {} THEN "mixed" ELSE content

\* A tool that exits has written all of its file, if the file still has its
\* name and nobody else wrote it.
Closed(r, content) ==
    [n \in File |-> IF n = writes[r] /\ cache[n] # "mixed" THEN content
                                                           ELSE cache[n]]

\* yt-dlp chooses a format and opens {job_id}.{ext}.  With --no-part that is
\* the final name, and a file that is already there is resumed.
DownloadStarts(r) ==
    /\ pc[r] = "fetching"
    /\ \E m \in Media :
          /\ cache' = [cache EXCEPT
                         ![m] = Opened(m, IF @ = "none" THEN "part" ELSE @)]
          /\ writes' = [writes EXCEPT ![r] = m]
    /\ pc' = [pc EXCEPT ![r] = "downloading"]
    /\ UNCHANGED <<jobVars, input, got, outcome, historyVars>>

DownloadEnds(r) ==
    /\ pc[r] = "downloading"
    /\ cache' = Closed(r, "whole")
    /\ writes' = [writes EXCEPT ![r] = NoFile]
    /\ pc' = [pc EXCEPT ![r] = "downloaded"]
    /\ UNCHANGED <<jobVars, input, got, outcome, historyVars>>

\* yt-dlp exits 0 without a file.
DownloadsNothing(r) ==
    /\ pc[r] = "fetching"
    /\ pc' = [pc EXCEPT ![r] = "downloaded"]
    /\ excused' = [excused EXCEPT ![r] = TRUE]
    /\ UNCHANGED <<jobVars, cache, writes, input, got, outcome,
                   suspect, dirty, late, faults>>

\* yt-dlp is missing, exits with an error, or is killed at its timeout.
FetchFails(r) ==
    /\ pc[r] \in {"fetching", "downloading"}
    /\ \E o \in FetchErrors : FailsItself(r, o)

\* The cache directory cannot be made or the tool cannot be started, by an
\* OSError other than that of a missing binary.
StartFails(r) ==
    /\ pc[r] \in {"fetching", "converting"}
    /\ FailsItself(r, TransientError)

\* The files of the job are listed, and the first in sorted order is taken
\* for the media that yt-dlp wrote.
TakesFirstFile(r) ==
    \/ /\ Present = {}
       /\ Ends(r, NoMedia)
    \/ /\ \E n \in Present :
             /\ \A m \in Present : n <= m
             /\ input' = [input EXCEPT ![r] = n]
       /\ pc' = [pc EXCEPT ![r] = "converting"]
       /\ UNCHANGED <<jobVars, cache, writes, got, outcome, historyVars>>
FindMediaEarly(r) == pc[r] \in {"downloading", "downloaded"} /\ TakesFirstFile(r)
FindMedia(r) == pc[r] = "downloaded" /\ TakesFirstFile(r)

-----------------------------------------------------------------------------
(* Stage 2: ffmpeg (external) and what condition_audio makes of it         *)

\* ffmpeg opens its input and truncates the WAV.
EncodeStarts(r) ==
    /\ pc[r] = "converting"
    /\ input[r] \in Present \ {Wav}
    /\ got' = [got EXCEPT ![r] = cache[input[r]]]
    /\ cache' = [cache EXCEPT ![Wav] = Opened(Wav, "part")]
    /\ writes' = [writes EXCEPT ![r] = Wav]
    /\ pc' = [pc EXCEPT ![r] = "encoding"]
    /\ UNCHANGED <<jobVars, input, outcome, historyVars>>

EncodeEnds(r) ==
    /\ pc[r] = "encoding"
    /\ cache' = Closed(r, got[r])
    /\ writes' = [writes EXCEPT ![r] = NoFile]
    /\ pc' = [pc EXCEPT ![r] = "converted"]
    /\ UNCHANGED <<jobVars, input, got, outcome, historyVars>>

\* ffmpeg refuses its input: it has been removed, it is the output itself, or
\* it is damaged.
InputRejected(r) ==
    /\ \/ pc[r] = "converting" /\ input[r] \notin Present \ {Wav}
       \/ pc[r] = "encoding" /\ got[r] # "whole"
    /\ Ends(r, ConditioningError)

\* ffmpeg is missing, exits with an error, or is killed at its timeout.
ConditionFails(r) ==
    /\ pc[r] \in {"converting", "encoding"}
    /\ FailsItself(r, ConditioningError)

\* ffmpeg has exited 0: is there a WAV?
FindWav(r) ==
    /\ pc[r] = "converted"
    /\ \/ /\ Wav \notin Present
          /\ Ends(r, ConditioningError)
       \/ /\ Wav \in Present
          /\ pc' = [pc EXCEPT ![r] = "listing"]
          /\ UNCHANGED <<jobVars, cache, writes, input, got, outcome,
                         historyVars>>

-----------------------------------------------------------------------------
(* Stage 3: LiteLLMWhisperSTT.transcribe                                   *)

\* GET /models lists the model.
ListModels(r) ==
    /\ pc[r] = "listing"
    /\ pc' = [pc EXCEPT ![r] = "reading"]
    /\ UNCHANGED <<jobVars, cache, writes, input, got, outcome, historyVars>>

ListModelsFails(r) ==
    /\ pc[r] = "listing"
    /\ \E o \in ListErrors : FailsItself(r, o)

ReadAudio(r) ==
    /\ pc[r] = "reading"
    /\ \/ /\ Wav \notin Present
          /\ Ends(r, TransientError)
       \/ /\ Wav \in Present
          /\ got' = [got EXCEPT ![r] = cache[Wav]]
          /\ pc' = [pc EXCEPT ![r] = "posting"]
          /\ UNCHANGED <<jobVars, cache, writes, input, outcome, historyVars>>

\* The gateway answers with the text of what it was sent.
Transcribed(r) ==
    /\ pc[r] = "posting"
    /\ Ends(r, Success(got[r]))

PostFails(r) ==
    /\ pc[r] = "posting"
    /\ \E o \in PostErrors : FailsItself(r, o)

-----------------------------------------------------------------------------
(* The process                                                             *)

\* Every run and its tools are gone.
AllGone ==
    /\ Active # {} /\ faults < MaxFaults
    /\ faults' = faults + 1
    /\ pc' = [r \in Run |-> "idle"]
    /\ writes' = [r \in Run |-> NoFile]
    /\ input' = [r \in Run |-> NoFile]
    /\ got' = [r \in Run |-> "none"]
    /\ outcome' = [r \in Run |-> NoOutcome]
    /\ dirty' = (dirty \/ Working # {})
    /\ UNCHANGED <<jobVars, suspect, excused, late>>

\* The process is killed, and its tools with it.
Crash == AllGone /\ UNCHANGED cache

\* The process is stopped.  Cancelling a run in its stages cleans up but does
\* not stop its tool, which may still open a new file before it is killed.
Stop ==
    /\ Working # {} /\ AllGone
    /\ \E left \in SUBSET
             ( {m \in Media : \E r \in Run : pc[r] = "fetching"}
               \cup {n \in {Wav} : \E r \in Run : pc[r] = "converting"} ) :
          cache' = [n \in File |-> IF n \in left THEN "part" ELSE "none"]

-----------------------------------------------------------------------------
LeaseStep == Submit \/ Lease \/ Launch \/ GiveUp \/ Expire

RunStep(r) ==
    \/ DownloadStarts(r)
    \/ DownloadEnds(r)
    \/ DownloadsNothing(r)
    \/ FetchFails(r)
    \/ StartFails(r)
    \/ FindMedia(r)
    \/ EncodeStarts(r)
    \/ EncodeEnds(r)
    \/ InputRejected(r)
    \/ ConditionFails(r)
    \/ FindWav(r)
    \/ ListModels(r)
    \/ ListModelsFails(r)
    \/ ReadAudio(r)
    \/ Transcribed(r)
    \/ PostFails(r)
    \/ Save(r)
    \/ Report(r)

Next ==
    \/ LeaseStep
    \/ \E r \in Run : RunStep(r)
    \/ Crash
    \/ Stop

Spec == Init /\ [][Next]_vars

-----------------------------------------------------------------------------
(* Properties                                                              *)

\* Every variable has its type, and only a run within the budget is current.
TypeOK ==
    /\ phase \in {"absent", "queued", "leased", "running", "done", "failed"}
    /\ attempts \in Nat
    /\ phase = "running" => attempts \in Run
    /\ cache \in [File -> Content] /\ transcript \in Content
    /\ pc \in [Run -> Label]
    /\ writes \in [Run -> File \cup {NoFile}]
    /\ input \in [Run -> File \cup {NoFile}]
    /\ got \in [Run -> Content]
    /\ outcome \in [Run -> Outcome]
    /\ suspect \in [Run -> BOOLEAN] /\ excused \in [Run -> BOOLEAN]
    /\ dirty \in BOOLEAN /\ late \in BOOLEAN /\ faults \in Nat

\* When no run is in its stages the cache holds nothing of the job, however
\* runs overlapped and whichever of them cleaned up under the others, unless
\* the process ended under a run or a file could not be removed since.
CacheIsSwept == Working = {} /\ ~dirty => Present = {}

\* A run that met neither other runs nor leftovers, and that no tool and no
\* gateway failed, gives the whole text: the retries of a job do not depend
\* on what its earlier attempts did, since each cleans up after itself.
UndisturbedRunSucceeds ==
    \A r \in Run :
        pc[r] \in Told /\ ~suspect[r] /\ ~excused[r]
            => outcome[r] = Success("whole")

\* Runs that overlap damage each other's files, but while every run is past
\* ffmpeg before its lease expires (420 of 600 seconds at most) a text that
\* is reported is whole: the current run may lose its files and fail, and
\* never reads a file that another one is writing.
TimelyOverlapKeepsText ==
    faults = 0 /\ ~late =>
        \A r \in Run : pc[r] \in Told /\ Heard(r)
            => outcome[r].text \in {"none", "whole"}

-----------------------------------------------------------------------------
\* The job as JobLifecycle sees it; a run is in flight until it is reported.
TheJob == 0
Lifecycle == INSTANCE JobLifecycle
    WITH Job      <- {TheJob},
         phase    <- [j \in {TheJob} |-> phase],
         attempts <- [j \in {TheJob} |-> attempts],
         flights  <- [j \in {TheJob} |-> Active]

\* Runs that share files still implement the life of a job: only the current
\* one is heard, and never twice.
ImplementsLifecycle == Lifecycle!Spec
-----------------------------------------------------------------------------
\* What Transcripts takes from the runs of a job: a text is written when one
\* has ended, also late and over another's, and a job is DONE with a text.
TranscriptPlaces == IF transcript = "none" THEN {} ELSE {"results"}

Transcript == INSTANCE TranscriptLifecycle
    WITH Client  <- {},
         status  <- IF phase \in {"done", "failed"} THEN phase ELSE "open",
         row     <- IF phase = "done" THEN "results" ELSE "none",
         acked   <- FALSE,
         copies  <- TranscriptPlaces,
         verdict <- [c \in {} |-> "none"],
         moved   <- [c \in {} |-> FALSE]
=============================================================================
