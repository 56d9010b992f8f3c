----------------------------- MODULE Retention -----------------------------
(***************************************************************************)
(* lts-trash-cleanup (retention.py): processes that delete from trash/ what *)
(* the policy selects.  launchd starts one every day and an operator may   *)
(* start others; the service and the operator change the directory         *)
(* meanwhile.                                                              *)
(*                                                                         *)
(* Every call of a run on the file system is awaited in a thread, so a     *)
(* step is one call and the code up to the next: another process may act   *)
(* between the walk of the directory, the stat of each file, and the       *)
(* unlink of each file.  Subdirectories, which the walk skips, and         *)
(* symbolic links are left out.                                            *)
(***************************************************************************)
EXTENDS RetentionPolicy

\* A definition whose name extends that of the one after it is a variant with
\* a plausible bug: the properties are also checked to fail for the variants.

CONSTANTS
    Path,         \* names of files in trash/
    Run,          \* runs of the command
    FirstFile,    \* files that may be there at first
    Now,          \* times of the clock
    MaxFaults,    \* bound: failing calls and killed runs
    MaxArrivals,  \* bound: files that the service moves to trash/
    MaxRemovals   \* bound: files that the operator deletes

\* stat gives non-negative sizes, and no file is older than the epoch.
ASSUME FileAssumption ==
    /\ IsFiniteSet(Path)
    /\ FirstFile \subseteq [mtime : Nat, size : Nat, there : {TRUE}]
ASSUME RunAssumption == IsFiniteSet(Run) /\ Now \subseteq Nat
ASSUME BoundAssumption ==
    MaxFaults \in Nat /\ MaxArrivals \in Nat /\ MaxRemovals \in Nat

VARIABLES
    dir,       \* what the path of trash/ is: "missing", "file" or "dir"
    trash,     \* its files
    clock,     \* time.time()
    run,       \* the local variables of each run, and its report
    faults,    \* failing calls and killed runs so far
    arrivals,  \* files moved to trash/ so far
    removals,  \* files deleted by the operator so far
    first,     \* history: the files at first
    balance    \* history: files put into trash/ less those others took out

countVars == <<faults, arrivals, removals>>
historyVars == <<first, balance>>
vars == <<dir, trash, clock, run, faults, arrivals, removals, first, balance>>

NoFile == [mtime |-> 0, size |-> 0, there |-> FALSE]
File(mtime, size) == [mtime |-> mtime, size |-> size, there |-> TRUE]
IsFile(f) == f.there

Present == {p \in Path : IsFile(trash[p])}

\* A run's place in amain:
\*   idle       not started
\*   walking    between the walk of the directory and the last stat
\*   unlinking  between two unlinks
\*   reporting  about to report
\*   ended      the process has exited with `exit`
\*   killed     the process was killed
RunRecord == [pc : {"idle", "walking", "unlinking", "reporting", "ended",
                    "killed"},
              dryRun : BOOLEAN,
              now : Now \cup {0},            \* current_now
              children : SUBSET Path,        \* left of the walk
              entries : Seq(TrashEntry(Path)),
              selected : SUBSET Nat,         \* indices of the selection
              pending : SUBSET Nat,          \* those not yet unlinked
              deleted : Nat, alreadyGone : Nat, kept : Nat,
              missed : SUBSET Path,          \* history, see Start
              exit : -1..2]
NotStarted == [pc |-> "idle", dryRun |-> FALSE, now |-> 0, children |-> {},
               entries |-> <<>>, selected |-> {}, pending |-> {},
               deleted |-> 0, alreadyGone |-> 0, kept |-> 0,
               missed |-> {}, exit |-> -1]

Init ==
    /\ dir \in {"missing", "file", "dir"}
    /\ trash \in IF dir = "dir" THEN [Path -> FirstFile \cup {NoFile}]
                                ELSE {[p \in Path |-> NoFile]}
    /\ clock \in {n \in Now : \A m \in Now : n <= m}
    /\ run = [c \in Run |-> NotStarted]
    /\ faults = 0 /\ arrivals = 0 /\ removals = 0
    /\ first = trash /\ balance = Cardinality(Present)

-----------------------------------------------------------------------------
(* One run                                                                 *)

Ends(c, code) == run' = [run EXCEPT ![c].pc = "ended", ![c].exit = code]

\* An environment variable that is not a number or is negative: exit 1.
StartMisconfigured(c) ==
    /\ run[c].pc = "idle"
    /\ Ends(c, 1)
    /\ UNCHANGED <<dir, trash, clock, countVars, historyVars>>

\* A missing directory is created and the run reports that it did nothing.
StartWithoutDir(c) ==
    /\ run[c].pc = "idle" /\ dir = "missing"
    /\ dir' = "dir"
    /\ Ends(c, 0)
    /\ UNCHANGED <<trash, clock, countVars, historyVars>>

\* NotADirectoryError, mapped to exit 2.
StartNotADir(c) ==
    /\ run[c].pc = "idle" /\ dir = "file"
    /\ Ends(c, 2)
    /\ UNCHANGED <<dir, trash, clock, countVars, historyVars>>

\* The time is read, and some calls later the directory is listed.  The
\* history variable `missed` has the files for which a call of this run fails
\* and those that arrive later.
Start(c) ==
    /\ run[c].pc = "idle" /\ dir = "dir"
    /\ \E dryRun \in BOOLEAN, now \in Now :
          /\ now <= clock
          /\ run' = [run EXCEPT
                       ![c] = [NotStarted EXCEPT !.pc = "walking",
                                                 !.dryRun = dryRun,
                                                 !.now = now,
                                                 !.children = Present]]
    /\ UNCHANGED <<dir, trash, clock, countVars, historyVars>>

\* The directory cannot be listed: exit 2.
ListFails(c) ==
    /\ run[c].pc = "idle" /\ dir = "dir"
    /\ faults < MaxFaults /\ faults' = faults + 1
    /\ Ends(c, 2)
    /\ UNCHANGED <<dir, trash, clock, arrivals, removals, historyVars>>

\* is_dir and stat of one child; one that has gone meanwhile is skipped.
Stat(c, p) ==
    /\ run[c].pc = "walking" /\ p \in run[c].children
    /\ run' = [run EXCEPT
                 ![c].children = @ \ {p},
                 ![c].entries =
                    IF IsFile(trash[p])
                    THEN Append(@, [path |-> p, mtime |-> trash[p].mtime,
                                    size |-> trash[p].size])
                    ELSE @]
    /\ UNCHANGED <<dir, trash, clock, countVars, historyVars>>

\* A stat that fails is logged, and the child is skipped.
StatFails(c, p) ==
    /\ run[c].pc = "walking" /\ p \in run[c].children
    /\ faults < MaxFaults /\ faults' = faults + 1
    /\ run' = [run EXCEPT ![c].children = @ \ {p},
                          ![c].missed = @ \cup {p}]
    /\ UNCHANGED <<dir, trash, clock, arrivals, removals, historyVars>>

\* The policy selects; a dry run reports at once.
Select(c) ==
    /\ run[c].pc = "walking" /\ run[c].children = {}
    /\ LET selection == SelectForDeletion(run[c].entries, run[c].now)
       IN run' = [run EXCEPT
                    ![c].selected = selection,
                    ![c].pending = IF run[c].dryRun THEN {} ELSE selection,
                    ![c].pc = IF run[c].dryRun THEN "reporting"
                                               ELSE "unlinking"]
    /\ UNCHANGED <<dir, trash, clock, countVars, historyVars>>

\* The loop over the entries reaches its next selected one: the list is in
\* the order of the walk.
NextPending(c) == Min(run[c].pending)
Target(c) == run[c].entries[NextPending(c)]

\* The unlink of a file, and that of a file that has gone.
UnlinkAllowingMissing(c) ==
    /\ run[c].pc = "unlinking" /\ run[c].pending # {}
    /\ trash' = [trash EXCEPT ![Target(c).path] = NoFile]
    /\ run' = [run EXCEPT ![c].pending = @ \ {NextPending(c)},
                          ![c].deleted = @ + 1]
    /\ UNCHANGED <<dir, clock, countVars, historyVars>>
Unlink(c) ==
    /\ run[c].pc = "unlinking" /\ run[c].pending # {}
    /\ \/ /\ IsFile(trash[Target(c).path])
          /\ trash' = [trash EXCEPT ![Target(c).path] = NoFile]
          /\ run' = [run EXCEPT ![c].pending = @ \ {NextPending(c)},
                                ![c].deleted = @ + 1]
       \/ /\ ~IsFile(trash[Target(c).path])
          /\ run' = [run EXCEPT ![c].pending = @ \ {NextPending(c)},
                                ![c].alreadyGone = @ + 1]
          /\ UNCHANGED trash
    /\ UNCHANGED <<dir, clock, countVars, historyVars>>

\* An unlink that fails is logged, and the loop goes on.
UnlinkFailsForAll(c) ==
    /\ run[c].pc = "unlinking" /\ run[c].pending # {}
    /\ faults < MaxFaults /\ faults' = faults + 1
    /\ run' = [run EXCEPT ![c].pending = {},
                          ![c].missed = @ \cup {Target(c).path}]
    /\ UNCHANGED <<dir, trash, clock, arrivals, removals, historyVars>>
UnlinkFails(c) ==
    /\ run[c].pc = "unlinking" /\ run[c].pending # {}
    /\ faults < MaxFaults /\ faults' = faults + 1
    /\ run' = [run EXCEPT ![c].pending = @ \ {NextPending(c)},
                          ![c].missed = @ \cup {Target(c).path}]
    /\ UNCHANGED <<dir, trash, clock, arrivals, removals, historyVars>>

\* The report, and exit 0.
ReportSubtractingSelected(c) ==
    /\ \/ run[c].pc = "reporting"
       \/ run[c].pc = "unlinking" /\ run[c].pending = {}
    /\ run' = [run EXCEPT ![c].pc = "ended", ![c].exit = 0,
                          ![c].kept = Len(run[c].entries)
                                         - Cardinality(run[c].selected)
                                         - run[c].alreadyGone]
    /\ UNCHANGED <<dir, trash, clock, countVars, historyVars>>
Report(c) ==
    /\ \/ run[c].pc = "reporting"
       \/ run[c].pc = "unlinking" /\ run[c].pending = {}
    /\ run' = [run EXCEPT ![c].pc = "ended", ![c].exit = 0,
                          ![c].kept = Len(run[c].entries) - run[c].deleted
                                         - run[c].alreadyGone]
    /\ UNCHANGED <<dir, trash, clock, countVars, historyVars>>

\* The process is killed.
Killed(c) ==
    /\ run[c].pc \in {"walking", "unlinking"}
    /\ faults < MaxFaults /\ faults' = faults + 1
    /\ run' = [run EXCEPT ![c].pc = "killed"]
    /\ UNCHANGED <<dir, trash, clock, arrivals, removals, historyVars>>

RunStep(c) ==
    \/ StartMisconfigured(c)
    \/ StartWithoutDir(c)
    \/ StartNotADir(c)
    \/ Start(c)
    \/ \E p \in Path : Stat(c, p)
    \/ Select(c)
    \/ Unlink(c)
    \/ Report(c)

-----------------------------------------------------------------------------
(* What changes the directory meanwhile                                    *)

\* The service moves a transcript to trash/ (Transcripts!Move), over a file of
\* that name if there is one.  A rename keeps the time of the last write.
Arrive(p, f) ==
    /\ dir = "dir" /\ f.mtime <= clock
    /\ arrivals < MaxArrivals /\ arrivals' = arrivals + 1
    /\ trash' = [trash EXCEPT ![p] = f]
    /\ balance' = IF p \in Present THEN balance ELSE balance + 1
    /\ run' = [c \in Run |->
                 IF run[c].pc = "idle" THEN run[c]
                                       ELSE [run[c] EXCEPT !.missed = @ \cup {p}]]
    /\ UNCHANGED <<dir, clock, faults, removals, first>>

\* The operator deletes a file.
Removed(p) ==
    /\ p \in Present
    /\ removals < MaxRemovals /\ removals' = removals + 1
    /\ trash' = [trash EXCEPT ![p] = NoFile]
    /\ balance' = balance - 1
    /\ UNCHANGED <<dir, clock, run, faults, arrivals, first>>

Tick ==
    /\ clock + 1 \in Now /\ clock' = clock + 1
    /\ UNCHANGED <<dir, trash, run, countVars, historyVars>>

Next ==
    \/ \E c \in Run :
          \/ RunStep(c)
          \/ ListFails(c) \/ UnlinkFails(c) \/ Killed(c)
          \/ \E p \in Path : StatFails(c, p)
    \/ \E p \in Path :
          \/ Removed(p)
          \/ \E f \in FirstFile : Arrive(p, f)
    \/ Tick

Spec == Init /\ [][Next]_vars

-----------------------------------------------------------------------------
(* Properties                                                              *)

\* Every variable has its type.
TypeOK ==
    /\ dir \in {"missing", "file", "dir"}
    /\ trash \in [Path -> FirstFile \cup {NoFile}]
    /\ dir # "dir" => Present = {}
    /\ clock \in Now
    /\ run \in [Run -> RunRecord]
    /\ \A c \in Run :
          /\ run[c].pending \subseteq run[c].selected
          /\ run[c].selected \subseteq DOMAIN run[c].entries
    /\ faults \in 0..MaxFaults /\ arrivals \in 0..MaxArrivals
    /\ removals \in 0..MaxRemovals
    /\ first \in [Path -> FirstFile \cup {NoFile}] /\ balance \in Int

\* Every file that left trash/ without the operator is counted as deleted by
\* exactly one run, however runs overlap.
DeletionsAreCredited ==
    MapThenSumSet(LAMBDA c : run[c].deleted, Run)
        = balance - Cardinality(Present)

\* A run leaves what the policy allows: nothing past its time to live, and no
\* more bytes than the cap.  Other runs and the operator may delete at the
\* same time, and a stat or an unlink that fails costs no more than its own
\* file: the rest is as if that file were not there.  Files that arrive after
\* the listing are left to the next run.
TrashBytes(S) == MapThenSumSet(LAMBDA p : trash[p].size, S)
Converged(now, S) ==
    /\ TrashBytes(S) <= MaxBytes
    /\ \A p \in S : trash[p].mtime >= now - TTL
RunConverges ==
    \A c \in Run :
        run[c].exit = 0 /\ ~run[c].dryRun
        => Converged(run[c].now, Present \ run[c].missed)

\* Runs that overlap do not delete more than the policy asks for: a file that
\* is gone was past its time to live, or did not fit the cap together with
\* those at least as young, although each run counts files against the cap that
\* another has selected or has begun to delete.
AtLeastAsYoung(p) ==
    {q \in Path : IsFile(first[q]) /\ first[q].mtime >= first[p].mtime}
OverlappingRunsDoNotOverdelete ==
    arrivals = 0 /\ removals = 0 =>
        \A p \in Path :
            IsFile(first[p]) /\ ~IsFile(trash[p]) =>
                \/ first[p].mtime < clock - TTL
                \/ MapThenSumSet(LAMBDA q : first[q].size, AtLeastAsYoung(p))
                      > MaxBytes
=============================================================================
