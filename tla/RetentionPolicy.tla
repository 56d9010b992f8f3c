-------------------------- MODULE RetentionPolicy --------------------------
(***************************************************************************)
(* What RetentionPolicy.select_for_deletion of retention.py selects from   *)
(* the files of trash/: every file past its time to live, then the oldest  *)
(* of the others until the rest fit the size cap.  RetentionLoop walks the *)
(* lists the way the code does and is checked to select the same.          *)
(***************************************************************************)
EXTENDS Integers, Sequences, FiniteSetsExt

CONSTANTS
    TTL,       \* ttl_days, in the units of the clock
    MaxBytes   \* max_bytes

\* RetentionPolicy.__post_init__ rejects negative values.
ASSUME PolicyAssumption == TTL \in Nat /\ MaxBytes \in Nat

\* `files` is the list of TrashEntry that the walk of the directory built.
TrashEntry(Path) == [path : Path, mtime : Nat, size : Nat]

\* The sort by mtime is stable: files of one age keep the order of the walk.
Older(files, i, j) ==
    \/ files[i].mtime < files[j].mtime
    \/ files[i].mtime = files[j].mtime /\ i < j

Bytes(files, S) == MapThenSumSet(LAMBDA i : files[i].size, S)

ExpiredFiles(files, now) ==
    {i \in DOMAIN files : files[i].mtime < now - TTL}

\* The pass for the size cap takes a file while the older ones it has taken
\* do not make enough room.
OverCapNewest(files, S) ==
    {i \in S : Bytes(files, {j \in S : Older(files, i, j)})
                  < Bytes(files, S) - MaxBytes}
OverCap(files, S) ==
    {i \in S : Bytes(files, {j \in S : Older(files, j, i)})
                  < Bytes(files, S) - MaxBytes}

SelectForDeletion(files, now) ==
    LET expired == ExpiredFiles(files, now)
    IN expired \cup OverCap(files, DOMAIN files \ expired)
=============================================================================
