# Verification of the local transcription service

TLA+ models, TLC runs and TLAPS proofs for the service under
`src/local_transcription_service` (paths below are relative to it; "HLD" is
`docs/hld/HLD-001-local-transcription-service.md`).

## 1. The system

One Python process accepts YouTube URLs over HTTP, keeps them as jobs in an
SQLite table, and turns each into a Markdown transcript with yt-dlp, ffmpeg
and a Whisper gateway.  A browser extension polls, downloads and acknowledges
the transcript; a second, independent process deletes old acknowledged files.

| Component | State it keeps | Operations | Hard behaviour |
|---|---|---|---|
| Job store (`queue/store.py`) | the `jobs` table: status, attempt, lease token and expiry, next retry time, error, transcript path, acked_at | submit, claim, mark_processing, mark_done, mark_failed, defer_retry, reclaim_expired, mark_acked, update_transcript_path, init | each method is one committed statement on its own connection; claim is two |
| Worker (`worker.py`) | 1..64 claim loops, one reclaim loop, local copy of a claimed job | process_one, reclaim_once, failure decision | an await between any two statements; leases are never renewed; crash and cancellation |
| Error counter (`metrics.py`) | failures per code since the last tick | increment, tick | counts what the store may have rejected; lost at a crash |
| Transcript mover (`queue/transcripts.py`) and ack (`api/jobs.py`) | `results/` and `trash/`, transcript_path, acked_at | submit, get, result, ack, move_to_trash | file and row change in separate steps; retries heal a half-done ack |
| Retention (`retention.py`) | nothing; a walk of `trash/` | select_for_deletion, run_cleanup, CLI | another process deletes or acks while it runs; sizes and times are read before they are used |
| Pipeline (`pipeline/`, `stt/`) | `audio-cache/{job_id}.*` | fetch, condition, transcribe, cleanup | two runs of one job share file names; leftovers of a crash; timeouts of the stages against the lease |
| Health (`api/health.py`) | nothing | readiness checks | pure reads |
| Startup (`app.py`, `config.py`, launchd) | exit codes | probe, init, serve, stop | restarts; the schema migration of two processes |

How they interact: the HTTP handlers and the workers share the table and the
`results/` directory and run in one event loop, so they interleave at awaits;
the retention process shares only `trash/`; the pipeline shares `audio-cache/`
between runs; launchd restarts the process.

What makes each part correct:

- **Queue.**  A lease starts at most one run, a lost lease is lost for good, a
  finished job never changes, a job uses at most `max_attempts` runs, fails
  only for a documented cause, and every submitted job reaches DONE or FAILED.
- **Transcripts.**  A DONE job's text is somewhere until somebody else removes
  it; it reaches `trash/` only after an acknowledgement; the row and the file
  come together again by retrying; once a client has been told that it moved,
  whoever asks later gets it whole; acked_at and the first acknowledgement are
  told once.
- **Retention.**  What a cleanup leaves obeys the policy, but for files that its
  own failed calls or a late arrival kept from it; nothing is deleted without
  need even when cleanups overlap, and every deletion is counted once.
- **Pipeline.**  Every run removes the files of its job, so a retry does not
  depend on what earlier attempts did; runs that overlap may destroy each
  other's files but must not turn a damaged file into the job's text.
- **Startup.**  Where claim loops run the schema is complete, whoever migrates
  the database at the same time; the service comes back when the gateway does.

## 2. Modules

| Module | What it is | Code |
|---|---|---|
| `JobQueue` | detailed specification of the store, the claim loops, the reclaim loop and the error counter | `queue/store.py`, `worker.py`, `metrics.py`, `models.py` |
| `JobLifecycle` | abstract specification: what the queue promises of a job | the same |
| `JobQueueProofs`, `JobLifecycleProofs` | theorems about `JobQueue`, and that it implements `JobLifecycle`, and of each transcript the worker's part of `TranscriptLifecycle` | |
| `MCJobQueue`, `MCJobQueueDocs` | instances for TLC; a documented claim the code does not keep | |
| `Pipeline` | the runs of one job through yt-dlp, ffmpeg and the gateway, and the files they share | `pipeline/stages.py`, `pipeline/whisper_pipeline.py`, `stt/litellm_whisper.py` |
| `PipelineProofs` | theorems about `Pipeline`, and that it implements `JobLifecycle` and the worker's part of `TranscriptLifecycle` | |
| `MCPipeline`, `MCPipelineDocs` | instances for TLC; documented claims | |
| `Startup` | the probe, the schema migration, the claim loops and the port, for several processes | `app.py`, `queue/store.py` 38-107, the launchd plist |
| `StartupProofs`, `MCStartupDocs` | theorems about `Startup`; a documented claim | |
| `Transcripts` | results/, trash/, the row's path and acked_at; POST ack, GET job, GET result | `api/jobs.py`, `queue/transcripts.py`, `queue/store.py` |
| `TranscriptLifecycle` | abstract specification: what clients are promised of one transcript | the same |
| `TranscriptsProofs` | theorems about `Transcripts`, and that it implements `TranscriptLifecycle` | |
| `MCTranscripts` | instances for TLC | |
| `RetentionPolicy` | what `select_for_deletion` selects, as sets | `retention.py` 93-161 |
| `RetentionLoop` | the two loops of that function, iteration by iteration | `retention.py` 120-161 |
| `Retention` | runs of `lts-trash-cleanup` | `retention.py` 192-540 |
| `RetentionPolicyProofs` | lemmas about sums over finite sets; what `SelectForDeletion` promises | |
| `RetentionLoopProofs`, `RetentionProofs` | theorems about `RetentionLoop` and about `Retention` | |
| `MCRetentionLoop`, `MCRetention` | instances for TLC | |

`Retention` and `RetentionLoop` extend `RetentionPolicy`: the first uses the
selection as one step, the second shows that the loops compute it.  `JobQueue`
and `Pipeline` instantiate `JobLifecycle` under refinement mappings: what the
queue assumes of a run (it ends, with a text or an error, and may outlive its
lease) and what a run assumes of the queue (it is heard at most once, and only
while its lease is current) meet there.  `Startup` justifies what `JobQueue`
assumes of restarts.  `Transcripts` implements `TranscriptLifecycle`.  It takes
from `JobQueue` only that one `mark_done` gets through, with the text there, and
that stale runs may still write; that the queue behaves so is a theorem, since
it too implements `TranscriptLifecycle` for each job (`Transcript(j)` in
`JobQueue`, without clients).  `Pipeline` implements it too (`Transcript`), with its
overlapping runs as the writers.  `Retention` takes from `Transcripts` only that
files arrive in `trash/`.

**Conventions.**  A definition whose name extends that of the definition after
it (`CanStartTwice`, `CanStart`) is not part of the model: it is the same
operator with a plausible bug, and the properties are checked to fail when it
takes the other's place.  The constants `Max...` are bounds of the model and
not of the program; `MaxAttempts`, `TTL` and `MaxBytes` are settings.

### 2.1 JobQueue

One process runs all loops in one event loop, and each store method opens its
own connection and executes one statement, so a step is one statement and the
Python up to the next await.  `claim` has two (the UPDATE, then `get` on a
second connection) and is `Claim` followed by `LoadJob`.

| State | Code |
|---|---|
| `rows` | the `jobs` table.  Tokens are random and never repeat: a claim's attempt number stands for its token (0 is NULL).  `leaseExpired` is `lease_expires_at < now`. |
| `file` | `results/{job_id}.md`: none, whole, or what a write that failed or was cut short left (`Broken`): partial when the run still had its lease, clobbered when it had lost it |
| `pc`, `ctx` | where a claim loop stands in `process_one`, and its local `job` and error |
| `retryClock`, `retryDue` | retry times in the order they were computed, and how many have arrived; the backoff is constant |
| `errorCounts` | `ErrorRateCounter._counts` |
| `up`, `faults` | whether the process runs; crashes and failed calls so far |

`PollIdle` is the poll that finds nothing; `PipelineSucceeds` includes the
write of the transcript, `WriteFails` is that write raising OSError (outside
the `try`), `PipelineRaises` is `_error_from_exception` with the decision of
`_handle_pipeline_failure`; `DatabaseFails` is an exception of a store method,
which ends the iteration.  `LeaseExpires` and `RetryDue` are the passing of
time.  `Crash` covers a kill and a clean stop alike: the stop cancels the
tasks, whose `finally` blocks change nothing in the table.

Not modelled in it: the `transcript_path` column (see `Transcripts`), job
metadata, and the length of time.

### 2.2 Transcripts

All statements are `WHERE job_id =` and all files are named after their job, so
one job is modelled.  `path` is the transcript_path, `files` the places that
hold a file of that name, `parts` those whose file holds only a part of a text,
`ack` and `get` the requests in flight with their local variables and last
answers.  The steps of an acknowledgement are its
awaits: the pre-flight `get`, the UPDATE and the `get` of `mark_acked`, the
test and `move_to_trash` (synchronous, one step), `update_transcript_path`, the
`get` that refreshes the row, the final observation with the answer.
`Remove` is the retention process or the operator, `Drag` the operator who
moves an acknowledged file by hand.

`write_text` truncates the file and then writes it, without an await: no step of
the event loop falls between, but a GET that opens or reads the file in a thread
(`api/jobs.py:102,174`) may.  So each late write (`StaleWrite`, `WriteBreaks`) may
tear any of the reads in progress (`TearReads`), and a write that fails or is
ended by a crash leaves a part (`WriteBreaks`).

`calm` is a history variable of an acknowledgement: it started with a file to be
found, and nothing outside the handlers failed or touched the file since.
`confirmed` is one of a GET: some client had been told `transcript_moved = true`
before it started.  A GET that overlaps an acknowledgement may find nothing, or
answer 500, and one that overlaps a late write may be given a part of the text;
the model lets both happen, and `ConfirmedIsServed` says when they end: all
late writes go to `results/`, where no GET that starts after the confirmation
looks.

`TranscriptLifecycle` hides the handlers: an acknowledgement is one `Decide`
between `Ask` and the answer, the file's `Move` and the row's `Follow` come
after it, `Confirm` tells a client that the transcript moved, and `Lose` is a
request that comes to nothing.  Under the refinement mapping `MarkAcked` (the
UPDATE of `mark_acked`) is `Decide`, the rename `Move`, `UpdatePath` `Follow`, and
an answer with `transcript_moved = true` `Confirm`, which is allowed only while
the file is in `trash/` and the row says so: `ack_job`'s docstring
(`api/jobs.py:207-209`) calls `transcript_moved` the state observed at the time
of the answer.  A refused, failed or crashed request is `Lose`; every other step
of a handler is invisible.

### 2.3 Retention

A step is one file-system call, awaited in a thread, and the code up to the
next: the listing, each stat, the selection, each unlink, the report.  The
listing includes the `exists` and `is_dir` tests of the directory before it (and
`StartWithoutDir` the `mkdir` of a missing one), and the stat of a child its
`is_dir`: what happens between them has the outcome of having happened before
or after.  The time is read before the
listing (`Start` takes one that is past).  `first`, `balance` and `missed` are
history variables; `missed` holds the files that a run could not stat or unlink,
or that arrived after its listing.  `RetentionPolicy` states the selection
without loops: a file is taken for the cap when the older survivors do not make
enough room.  Subdirectories, symbolic links, argument parsing and the log
format are left out.

### 2.4 Pipeline

All files of a job are `audio-cache/{job_id}.*`, whichever attempt writes them,
and jobs do not share names, so one job is modelled; a run is known by the
attempt that started it.

| State | Code |
|---|---|
| `phase`, `attempts` | the row, as in `JobLifecycle`; the lease of attempt `a` is current while `attempts = a` and the job is running |
| `cache` | the files of the job: for each name whether all of it is there (`whole`), a part, or a mixture of what two tools wrote at once |
| `pc` | where each run stands in `transcribe`, from the start of yt-dlp to the worker's report |
| `writes` | the file a run's tool has open for writing |
| `input` | `raw_path` |
| `got` | what ffmpeg has read of its input, then what `read_bytes` returned |
| `outcome` | the returned text, or code and retryable of the error |
| `transcript` | `results/{job_id}.md` |

A name is its place in the order of `sorted()`, so an `.m4a` comes before the
`.wav` and a `.webm` after it.  `DownloadStarts` to `FindMedia` are
`fetch_media`: yt-dlp opens `{job_id}.{ext}` under its final name (`--no-part`)
and resumes a file it finds; the first file in sorted order is then taken for
the media.  `EncodeStarts` to `FindWav` are `condition_audio`, `ListModels` to
`PostFails` are `LiteLLMWhisperSTT.transcribe`.  `Finish` is the `finally`
clause: `cleanup_job_files` removes every file of the job in one step (it is
synchronous), those of other runs too, and a tool goes on writing a file that
has lost its name.  `Save` and `Report` are what the worker does then.  Errors
carry the code and the `retryable` flag of the source; `FetchError` takes the
markers found in stderr.  `StartFails` is a tool, or the directory, that raises an
OSError other than the ones the code expects, and an answer of the gateway that
is JSON but no object raises AttributeError: `_error_from_exception` makes
PIPELINE_TRANSIENT, which is retryable, of both.

`Crash` ends all runs and their tools and leaves the files.  Either may come
while a run is only ended or saved, before its report.  `Stop` cancels the
runs: each cleans up, but `_run_subprocess` kills its tool only on a timeout,
so a tool that has not opened its file yet may still do so before it dies with
the process.

Assumptions: yt-dlp choosing the same extension means the same format, so a
resumed file is not a mixture; a gateway answers with the text of what it was
sent; tools end with the process; the `.ytdl` files of fragmented downloads and
the failure of the transcript's write (see `JobQueue`) are left out.

The history variable `late` records that a lease expired under a run in stage 1
or 2.  With the default settings this cannot happen on an awake host: the
stages take 300 + 120 seconds at most (`stages.py:57,61`) and a lease lasts 600
(`config.py`).  In stage 3 it can: its two calls to the gateway
may take 300 seconds each, and more, since the time-out is one of each read.  `suspect`, `excused` and `dirty`
record that a run may have met other runs or leftovers, that a tool or the
gateway failed it, and that files may be left which no cleanup has followed.

### 2.5 Startup

| State | Code |
|---|---|
| `table`, `columns` | the `jobs` table and which of the two later columns it has |
| `gateway` | whether `GET /models` lists the model within 5 seconds |
| `pc` | where each process stands in `main` and `_run` |
| `todo` | the columns that `init` found missing and is going to add |
| `lost` | history: how often an ALTER of a process raised, per column |

Each statement of `init` is a step, since DDL is committed by itself: CREATE
TABLE, PRAGMA table_info, each ALTER.  A process ends with 78 when the probe
fails, with an exception when an ALTER raises, and with 1 when the port is
taken (`Bind`, after the claim loops were started); launchd starts its own again
in every case, since `KeepAlive` is `true`.  After SIGTERM (`Terminate`) the
`finally` that stops the workers may run or not, since uvicorn raises the signal
again when it has shut down.  Other processes are an operator's,
or an old one that has not ended.  Settings that do not parse end the process
before any of this and are left out.

## 3. What TLC checks

| Run | Instance | Question |
|---|---|---|
| `queue_safety` | 2 jobs, 2 workers, max_attempts 2, 3 lossy attempts, 1 fault, counter on | do leases, budgets and final states hold, and is JobLifecycle implemented? |
| `queue_settles` | 2 jobs, 2 workers, lost leases, 1 fault | is a job starved by another, by retries, by lost leases or by a crash? |
| `docs_WriteErrorIsHandled` | 1 job, 1 worker | violated, see 5 |
| `transcript_ack` | 2 acknowledgements, 1 GET, 2 faults (broken writes among them), 1 intervention, 1 stale write | do row and file come together again, is nothing lost, is a confirmed transcript served, and is TranscriptLifecycle implemented? |
| `retention_loops` | every list of up to 3 files, 3 ages, 3 sizes, 3 clocks | do the loops compute the selection, and what does it promise? |
| `retention_overlap` | 3 files, 2 runs, clock moves | do overlapping runs delete more than the policy asks for? |
| `retention_races` | 2 files, 2 runs, 1 fault, 1 arrival, 1 removal | are deletions counted once when everybody interferes, and what does a run leave? |
| `pipeline_runs` | 3 attempts, 2 workers, 4 leases, an extension before and one after `.wav`, 1 fault | what can a run rely on when another one uses its files, after a crash, and after a failed cleanup? |
| `docs_OverlapIsSafe` | 2 attempts, 2 workers, no fault | violated, see 5 |
| `docs_DoneTranscriptWhole` | the same | violated, see 5 |
| `startup` | 3 processes, every database, 1 fault | is the schema complete where loops run, and does the service come back? |
| `docs_InitIsSafeForTwo` | 2 processes, no fault | violated, see 5 |

**Queue properties.**  `LeaseMatchesStatus` (token and status agree),
`RunsHaveDistinctLeases` (two workers may read the same token back from a
claim, and two runs of a job may overlap, but never on one lease),
`WithinBudget`, `OnlyStaleRunsDamage` (the transcript of a DONE job was written
whole by the run that ended it, or written since by a run without a lease: what
a failed write or a crash leaves under a lease is never taken for it),
`FailedForACause` (HLD section 10), `LostLeaseStaysLost` (the `mark_failed` after a
rejected `defer_retry` included), `TerminalIsFinal`,
`RowsOnlyAdvance` (a row never takes a value twice, so no statement mistakes a
later state for the one its caller has read, and with `WithinBudget` a job starts
at most `max_attempts` runs), `ImplementsLifecycle`, `EveryJobSettles`.

**Transcript properties.**  `OneFirstAck`, `AckedAtIsKept`, `TrashIsAcked`,
`MovedMeansRowFollows`, `PathNeverGoesBack`, `UndisturbedAckConverges` (a retry
heals a half-done acknowledgement), `TranscriptIsKept`, `RowFindsFile`,
`ConfirmedIsServed` (a GET that starts after a client was told that the transcript
moved serves it, whatever other acknowledgements, stale runs and failures do, and
serves all of it unless a write was cut short), `ImplementsLifecycle`
(acknowledging is atomic).

**Retention properties.**  `LoopsSelect`, `SelectionIsOldestFirst`,
`KeptFits`, `NoNeedlessDeletion`; `RunConverges` (what a run that ends with exit
code 0 leaves obeys the policy but for the files in `missed`: a failing call
costs its own file and no other, and neither another run nor the operator can
make a run leave too much), `DeletionsAreCredited`,
`OverlappingRunsDoNotOverdelete`.

**Pipeline properties.**  `CacheIsSwept` (when no run is in its stages no file of
the job is left, whichever run cleaned up under which), `UndisturbedRunSucceeds`
(a run that met no other run and no leftovers, and that nothing failed, gives
the whole text: retries are independent of earlier attempts),
`TimelyOverlapKeepsText` (overlapping runs cost each other their files, but
while leases expire only in stage 3 no damaged text is reported),
`ImplementsLifecycle`.

**Startup properties.**  `RunningHasSchema`, `NoRaceLostTwice` (a lost race costs
one restart per column and never a loop of restarts), `ServiceComesBack`.

**Bounds.**  Two workers are enough for every pair of runs that the leases must
keep apart, three leases on one job let a run be stale by two claims and the
budget of two be exceeded by one.  `MaxClaims` bounds only the expiry of a
lease whose holder is still there (a false reclaim); the lease of a dead holder
always expires, so no run is stuck by the bound.  Faults are bounded because
nothing can be promised under endless ones; one is enough, since each leaves
only a row behind, and the next is met in the same state.  For the pipeline two
workers let two runs share files, the third attempt meets what both left and
the fourth lease is one too many; `MaxLeases` bounds false reclaims as above.
For the start three processes let two strangers disturb the daemon in turn.  For
transcripts two acknowledgements meet in every pair of steps, two faults break
an acknowledgement and its retry (or cut short a write before it and one after),
and one intervention or stale write falls into each gap.  For retention two runs overlap in every way, three files give
an oldest, a boundary and a youngest one, with ties and different sizes; the
run with failures has two files, since the interesting interference is on one
file.  Stale state is always one step old, so a third actor adds nothing that
a second round of the same one does not.

**Symmetry** (jobs and workers, requests, files and runs) is used in safety
runs only.

**Deadlock** is checked but in the retention and pipeline runs: a cleanup ends,
and so does a job.

**Fairness** (`FairSpec`, liveness runs only).  Weak fairness of `WorkerStep`:
each worker step is short or bounded by the timeouts of the stages.  Of
`LeaseExpires` and `RetryDue`: time passes.  Of `Reclaim`: `_reclaim_loop` runs
every 30 seconds.  Of `Restart`: launchd's KeepAlive
(`scripts/launchd/local.local-transcription-service.plist:29`), as long as the
gateway that the start-up probe asks for comes back.  None of `Submit`,
`PipelineSucceeds`, crashes or failing calls: a pipeline that always raises, or
whose write always fails, still ends the job by its budget.  In `Startup` weak
fairness of each process's own steps (each is bounded by a timeout or short)
and of launchd's restart; none of the operator's starts, of signals, of kills
or of the gateway, which `ServiceComesBack` asks to stay up from some time on.

## 4. What is proved

**Queue.**  `tlapm` checks every step; the assumptions are those declared with the
constants (finite `Job`, natural bounds, typed pipeline errors whose codes are
not the two reserved ones).  The results hold for any number of jobs, workers,
attempts, claims and faults.

The properties are not inductive by themselves.  `IInv` of `JobQueueProofs`
adds what the code relies on without saying so:

- `TokensAreIssued`: a worker never holds a token newer than the row's last
  claim.  With `LeaseMatchesStatus` this gives `LostLeaseStaysLost`: when the
  row's token is no longer the worker's, every later one is larger.
- `AttemptsAreChecked`: past the test of `process_one`, attempt and token agree
  and are within the budget.
- `StartedLeaseIsProcessing`: a run that still owns the lease has a row in
  PROCESSING; with `CanStart` only one worker passes from CLAIMED, which is
  `RunsHaveDistinctLeases`.
- `DecisionsAreKept`: a worker about to defer or fail carries the error and the
  attempt its decision was made for; this gives `FailedForACause`.
- `SavedIsUndamaged`: while a worker about to `mark_done` owns its lease, the file
  is whole or damaged by a stale run, since no other run of the job has a lease.

Theorems: `TypeCorrect`, `LeaseIsConsistent`, `DistinctLeases`, `BudgetIsKept`,
`DoneIsUndamaged`, `FailuresHaveACause`, `LostLeases`,
`FinalRows`, `RowsAdvance` (from the lemma `RowAdvances` over the things that a
step can do to a row), `PollFindsJob`, and in `JobLifecycleProofs` `Refinement`: `Spec` implements
`JobLifecycle`.  Its argument is one lemma per action, which names the step of
the life cycle it is: a report is heard exactly when `CanFinish` or
`OwnsLease` holds, and every other end of a run is `Abandon`.
`TranscriptRefinement`, in the same module, says that for each job `Spec` also
implements `TranscriptLifecycle`, from `OnlyStaleRunsDamage` and the lemmas that
classify what a step does to a row (`RowSteps`) and to a file (`FilesStay`).  No
listed run checks it: TLC does not take a parameterised instance as a property.

`PollFindsJob` justifies the shape of `Claim` and `PollIdle`.  `Claim` takes the job
that `ORDER BY` puts first and `PollIdle` needs that none is due; were there a state
with a due job but no first one, the model would stop polling where the code
goes on, and every safety theorem would say less than it seems to.  Creation
times are distinct (`SubmissionsAreOrdered`, an invariant), so the order is total,
and a least element exists since the natural numbers are well-founded; hence
there is exactly one first job.  (Creation times have microseconds in
the code, `store.py:503-509`; two equal ones would leave the choice to SQLite.)

**Transcripts.**  The theorems of `TranscriptsProofs` hold for any number of
concurrent acknowledgements and GETs and any number of failures, crashes, stale
writes and interventions.  Its `IInv` joins the properties with

- `DoneHasPath`: the row has a path exactly when it is DONE;
- `AckFits`: an acknowledgement that has read the row knows something old but
  not wrong.  Past `mark_acked` the job is acknowledged, a handler that read
  `trash` reads a path that never goes back, and one about to update the path
  has the file in `trash/` unless somebody removed it.  This gives
  `MovedMeansRowFollows` and is what `OneFirstAck` and `RowFindsFile` rest on;
- `CalmAckFinds`: where an undisturbed acknowledgement will look there is a file,
  at every label, which ends in `UndisturbedAckConverges`;
- `FollowedFileStays`: a row that says `trash` keeps its file there, since only
  somebody outside takes files out of `trash/`; `NoParts`: only a write that was
  cut short leaves a part of a text;
- `GetFits`: a GET that started after the confirmation reads in `trash/`, where no
  late write can tear its read; with the two before it this gives
  `ConfirmedIsServed`.

The proof first classifies every action three times, by what it does to the
files (`FilesStep`: it only adds, it moves, or somebody outside interferes), to
the row (`RowStep`: it finishes, acknowledges or follows a move), and to one
request (`AckMove`, `GetMove`); each part of `IInv` is then shown from these
classes and not action by action.  `RowOnlyGrows` also gives the two action
properties.  Theorems: `TypeCorrect`, `FirstAckIsOne`, `AckedAtStays`,
`TrashAfterAck`, `MovedRowFollows`, `PathStaysInTrash`, `AckConverges`,
`TranscriptKept`, `RowFollowsFile`, `ConfirmedServed`, and `Refinement`: `Spec` implements
`TranscriptLifecycle`.  Its argument is one lemma per actor.  Most of it is in
`AckFits`: a handler that moves or updates is past `mark_acked`, so `Move` and
`Follow` come after `Decide`; one that is about to answer has read a path that
never goes back, so what it observes of the file is enough for `Confirm`; and a
request in progress has not been told anything, so losing or starting one
takes nothing back.

**Pipeline.**  The theorems of `PipelineProofs` hold for any number of attempts,
workers, leases, extensions and faults.  `IInv` joins the properties with

- `FreshRunsAreIdle`: runs beyond `attempts` have not started, so a launch does
  not overwrite one;
- `ToolsWrite`, `PartsAreWritten`: what each place in the code says about the
  file its tool has open, and that a file that is not whole has such a tool or
  a leftover to blame;
- `UnsuspectedIsAlone`: while a run is unsuspected no other run is active and
  every file in the cache is its own, which with `UndisturbedRunsAreRight`
  (what such a run has read so far is whole) gives `UndisturbedRunSucceeds`;
- `OnlyCurrentIsEarly`: without late expiries only the current run is in stage 1
  or 2, so no two tools write at once, and no file is a mixture;
- `CurrentReadsWhole`: what the current run has read is whole, since a file that
  another run's cleanup removes is gone and not damaged; this gives
  `TimelyOverlapKeepsText`.

Theorems: `TypeCorrect`, `CacheSwept`, `UndisturbedSucceeds`, `TimelyOverlap`, and
`Refinement`: a launch is the `Start` of the life cycle and a report of the
current run its end, whatever the files hold.  `TranscriptRefinement`: the runs
of a job also do to its transcript only what `TranscriptLifecycle` lets a worker
do; it needs that a run about to report a text has saved one (`SavedHasText`)
and that no step removes it (`TextKept`).  So the queue, the pipeline and the
handlers, each proved against the same abstract specification, agree on what
they take from each other: late writes by stale runs, and one DONE with a text
there.

**Startup.**  `StartupProofs` holds for any number of processes and faults.
`RunningHasSchema` rests on `TodoCoversMissing` (a process about to ALTER has on
its list every column that is missing now: columns are only added) and
`CreatedTable`; `NoRaceLostTwice` on `LosersKnowBetter` (a column that was lost
once is in the table, and never again on the loser's list).  Theorems:
`TypeCorrect`, `SchemaIsComplete`, `RaceIsLostOnce`.

**Retention.**  The theorems hold for any list of files of any age and size,
any limits, and any number of runs, failures, arrivals and removals.  Sizes are
summed by the fold `MapThenSumSet`; `RetentionPolicyProofs` shows what the proofs
need of it (the sum over a set is that over a part and the rest, an injection
that keeps the values bounds it, ...).  Where one would do induction it takes a
smallest set that is a counterexample, which exists since the strict subset
ordering of a finite set is well-founded.  `SelectionFits` shows of any list that what
`SelectForDeletion` keeps fits the cap: the oldest file that the size pass leaves
has all older ones taken.

`RetentionLoopProofs` shows first that `sorted` has a result (`OrderExists`: each
file goes to the place that the number of older files gives, and ties are kept
in the order of the walk) and that it holds each file once (`OrderedIsAll`: an
ordered list is an injection).  Its `IInv` says where each loop stands: all
lists are ordered (`ListsOK`); the first loop has dealt with files that are
older than all that it has yet to walk (`TtlPassIs`); the second has taken such
files, `freed` is their sum, and each was taken because the older ones did not
make enough room (`SizePassIs`).  When the second loop stops, every file left has
all that were taken before it, so none of them is in `OverCap`.  Theorems:
`LoopsCompute`, `OldestFirst`, `KeptAlwaysFits`, `NothingNeedless`.

The `IInv` of `RetentionProofs` joins the properties with

- `Counted`, `SelectionIsThePolicys`, `EntriesAreDistinct`: what a run counts,
  which selection it acts on, and that its walk lists no file twice;
- `RunsSee`: a run that may yet report, or has, knows every file that is there
  and that it has not missed, as it is; so what is there in the end are missed
  files and files it kept, which with `SelectionFits` gives `RunConverges`;
- `FirstIsSeen`: if no file arrives, every list holds files that were there at
  first and times that are past.  So a file that a run deletes was expired, or
  did not fit the cap with the younger files of the run's list, and these are
  among the younger ones that were there at first, whoever deleted some since:
  `OverlappingRunsDoNotOverdelete`.

Theorems: `SelectionFits`, `TypeCorrect`, `Credited`, `Converges`,
`NoOverdeletion`.

**Only model-checked.**  Liveness (`EveryJobSettles`, `ServiceComesBack`), because temporal
reasoning about fairness is out of the prover's reach.  Every other property of
a passing run is a theorem.

## 5. Where documents and code differ

Each has a run in which TLC finds the behaviour.

- **A failed write is not handled** (`WriteErrorIsHandled`).  HLD:500 says that
  a full disk fails the job with PIPELINE_TRANSIENT.  The write at
  `worker.py:205-207` is outside the `try`: the row stays PROCESSING until its
  lease expires.
- **Overlapping runs are not safe** (`OverlapIsSafe`).  HLD:151 calls all races
  safe with several workers.  The cleanup of a run whose lease has expired
  (`stages.py:324`) removes the files of the job's current run, which then fails
  for good with FETCH_FAILED or AUDIO_CONDITIONING_FAILED.
- **A DONE transcript may not be the full text** (`DoneTranscriptWhole`).
  `schemas.py:78` promises it.  A stale run that still waits for `GET /models`
  reads the WAV that the current run's ffmpeg is writing, and `worker.py:207`
  writes its text over the current run's before `mark_done` rejects it.
- **An ALTER of a second process raises** (`InitIsSafeForTwo`).  HLD:161 calls it
  a no-op.  The columns are read before the ALTERs (`store.py:101-106`), so the
  slower of two processes gets "duplicate column name" and exits.

Others, met while reading the code and visible in the models without a run of
their own:

- `store.py:153`, `worker.py:164`: a claim may return a job without a lease, when
  the lease is reclaimed between `claim`'s two connections.
- `worker.py:346-349`: a rejected `defer_retry` falls through to `mark_failed` "so
  the job doesn't get stuck in PROCESSING" and logs "marking failed".  That
  `mark_failed` never takes effect (`LostLeaseStaysLost`): it asks for the same
  lease, which no later claim gives back.  Nor is it needed: the reclaim has
  taken the row out of PROCESSING, or another run has it by now.
- `metrics.py:43-45`, `worker.py:320-321`, "only terminal failures count": the one
  thing the fall-through does is to increment the counter (`worker.py:366`), for a
  job that has not failed.  So does every other `mark_failed` that is rejected.
- `api/jobs.py:138`: GET /result answers 500 although the transcript exists,
  between an acknowledgement's rename and its update of the row.
- `api/jobs.py:102,174`: the text is read in a thread while `worker.py:207` may
  truncate and write the same file: a GET that overlaps the late write of a
  stale run, or follows one that was cut short, answers 200 with a part of it.
- HLD:611, `retention.py:112-113`: the unlink loop follows the order of the
  directory and not of age.
- `worker.py:205-207`: a stale run whose write fails leaves a truncated file under
  a DONE row.
- `base.py:42-44` calls AUDIO_CONDITIONING_FAILED a fault of the host: after a
  crash in stage 2 or 3 the leftover `{job_id}.wav` may sort before the media of
  the retry, is taken for it (`stages.py:227-234`), and ffmpeg refuses to write
  its own input; the job is FAILED and not retried.
- HLD:469: the raw media is removed with the WAV at the end of the run and not
  after the conversion.
- `app.py:231-233`, HLD:803: exit 78 is not the end, since the plist's
  `KeepAlive` is `true` (line 29-30) and not a `Crashed` dictionary.
- HLD:399-404: a job may end with MAX_ATTEMPTS without any run having failed,
  when its leases expire.
- `store.py:3-4` "single-flight processing": no worker renews its lease, so two
  runs of one job overlap when one outlives it.
- `store.py:162-163`: a fresh job is claimed before a deferred one even if it
  was submitted later.
- `models.py:20-25`: CLAIMED to FAILED (`worker.py:166-175`) is not listed.
- `api/jobs.py:231-233`: the `mkdir` at `transcripts.py:80` is not caught and
  gives 500.
- `queue/transcripts.py:13-15`: a missing source is reported as not moved.
- `retention.py:172-174`: `kept` counts selected files in a dry run and after a
  failed unlink.
- HLD:634-636: a missing `trash/` exits 0, one that is not a directory 2, a run
  with failed stats or unlinks 0.

## 6. Not modelled

| Part | Why |
|---|---|
| Health and readiness (`api/health.py`) | reads of a moment; each check is independent, bounded by a timeout, and changes nothing (`ping_writable` commits an empty transaction) |
| Authentication, request validation (`auth.py`, `api/schemas.py`) | pure functions of one request |
| Settings (`config.py`) | parsing and range checks; their results are the constants of the models |
| Logging (`logging.py`) | formatting |
| The write failing inside `Pipeline` | in `JobQueue` (`WriteFails`), where the row is what matters, and in `Transcripts` (`WriteBreaks`), where the reader is |
| Time | only the order of events; the one place where lengths matter is the history variable `late` of `Pipeline` |
| An endless flow of submissions | finitely many jobs are modelled; `ORDER BY` starves a deferred job under an endless flow |
