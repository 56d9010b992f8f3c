--------------------------- MODULE RetentionLoop ---------------------------
(***************************************************************************)
(* The two loops of RetentionPolicy.select_for_deletion, one iteration a   *)
(* step, over any list of files.  The function has no side effect; what is *)
(* of interest is that its accumulators arrive at RetentionPolicy's        *)
(* SelectForDeletion, and what that selection promises.                    *)
(***************************************************************************)
EXTENDS RetentionPolicy, SequencesExt

CONSTANTS
    Now,       \* times at which the policy is evaluated
    Name,      \* paths of files
    FileList   \* lists of TrashEntry it is given

ASSUME ArgumentAssumption ==
    Now \subseteq Int /\ FileList \subseteq Seq(TrashEntry(Name))

VARIABLES
    files,        \* the argument
    now,          \* the argument
    pass,         \* the loop that runs: "ttl", then "size", then "done"
    todo,         \* what is left of the list that the loop walks
    ttlSelected,  \* ttl_selected
    survivors,    \* survivors
    sizeSelected, \* size_selected
    freed         \* freed

vars == <<files, now, pass, todo, ttlSelected, survivors, sizeSelected, freed>>

\* Lists hold the indices of files in the order of the walk.
Size(list) == Bytes(files, Range(list))

\* sorted(files, key=mtime)
SortedAsWalked(S) ==
    CHOOSE list \in [1..Cardinality(S) -> S] :
        \A k, l \in DOMAIN list : k < l => list[k] < list[l]
Sorted(S) ==
    CHOOSE list \in [1..Cardinality(S) -> S] :
        \A k, l \in DOMAIN list : k < l => Older(files, list[k], list[l])

Init ==
    /\ files \in FileList /\ now \in Now
    /\ pass = "ttl" /\ todo = Sorted(DOMAIN files)
    /\ ttlSelected = <<>> /\ survivors = <<>> /\ sizeSelected = <<>>
    /\ freed = 0

\* An iteration of the first loop.
TtlPass ==
    /\ pass = "ttl" /\ todo # <<>>
    /\ todo' = Tail(todo)
    /\ IF files[Head(todo)].mtime < now - TTL
       THEN /\ ttlSelected' = Append(ttlSelected, Head(todo))
            /\ UNCHANGED survivors
       ELSE /\ survivors' = Append(survivors, Head(todo))
            /\ UNCHANGED ttlSelected
    /\ UNCHANGED <<files, now, pass, sizeSelected, freed>>

\* Nothing survived, or the survivors fit: no second loop.
SkipSizePass ==
    /\ pass = "ttl" /\ todo = <<>>
    /\ survivors = <<>> \/ Size(survivors) <= MaxBytes
    /\ pass' = "done"
    /\ UNCHANGED <<files, now, todo, ttlSelected, survivors, sizeSelected,
                   freed>>

StartSizePass ==
    /\ pass = "ttl" /\ todo = <<>>
    /\ survivors # <<>> /\ Size(survivors) > MaxBytes
    /\ pass' = "size" /\ todo' = Sorted(Range(survivors))
    /\ UNCHANGED <<files, now, ttlSelected, survivors, sizeSelected, freed>>

TargetHalved == (Size(survivors) - MaxBytes) \div 2
TargetWithExpired == Size(ttlSelected) + Size(survivors) - MaxBytes
Target == Size(survivors) - MaxBytes

\* An iteration of the second loop.
SizePassUnsummed ==
    /\ pass = "size" /\ todo # <<>> /\ freed < Target
    /\ todo' = Tail(todo)
    /\ sizeSelected' = Append(sizeSelected, Head(todo))
    /\ freed' = files[Head(todo)].size
    /\ UNCHANGED <<files, now, pass, ttlSelected, survivors>>
SizePass ==
    /\ pass = "size" /\ todo # <<>> /\ freed < Target
    /\ todo' = Tail(todo)
    /\ sizeSelected' = Append(sizeSelected, Head(todo))
    /\ freed' = freed + files[Head(todo)].size
    /\ UNCHANGED <<files, now, pass, ttlSelected, survivors>>

\* The break, or the end of the list.
EndSizePass ==
    /\ pass = "size" /\ (todo = <<>> \/ freed >= Target)
    /\ pass' = "done"
    /\ UNCHANGED <<files, now, todo, ttlSelected, survivors, sizeSelected,
                   freed>>

Next == TtlPass \/ SkipSizePass \/ StartSizePass \/ SizePass \/ EndSizePass

Spec == Init /\ [][Next]_vars

-----------------------------------------------------------------------------
(* Properties                                                              *)

Selection == ttlSelected \o sizeSelected
Kept == DOMAIN files \ Range(Selection)

\* The loops select what SelectForDeletion says.
LoopsSelect ==
    pass = "done" => Range(Selection) = SelectForDeletion(files, now)

\* The combined list is oldest first, with each file once: the comment on the
\* concatenation of the two passes.
SelectionIsOldestFirst ==
    \A k, l \in DOMAIN Selection :
        k < l => Older(files, Selection[k], Selection[l])

\* What is kept fits the cap, and nothing kept is past its time to live.
KeptFits ==
    pass = "done" =>
        /\ Bytes(files, Kept) <= MaxBytes
        /\ \A i \in Kept : files[i].mtime >= now - TTL

\* Nothing is deleted for the cap without need: without the last file that
\* was taken the rest would not fit.
NoNeedlessDeletion ==
    pass = "done" /\ sizeSelected # <<>> =>
        Bytes(files, Kept \cup {Last(sizeSelected)}) > MaxBytes
=============================================================================
