-------------------------- MODULE RetentionProofs --------------------------
(* Theorems about Retention: overlapping runs of lts-trash-cleanup.        *)
EXTENDS Retention, RetentionPolicyProofs

-----------------------------------------------------------------------------
(* The inductive invariant                                                 *)

\* A run counts no more files than it has selected, and nothing before it
\* unlinks; only a run that has ended has an exit code.
CountedIn(r) ==
    /\ r.deleted + r.alreadyGone + Cardinality(r.pending)
          <= Cardinality(r.selected)
    /\ r.pc = "idle" => r = NotStarted
    /\ r.pc = "walking" =>
          r.deleted = 0 /\ r.alreadyGone = 0 /\ r.selected = {}
    /\ r.pc # "ended" => r.exit = -1
Counted == \A c \in Run : CountedIn(run[c])

\* A run acts on the policy's selection, and so has one that reported.
SelectedIn(r) ==
    r.pc \in {"unlinking", "reporting"} \/ (r.pc = "ended" /\ r.exit = 0)
    => r.selected = SelectForDeletion(r.entries, r.now)
SelectionIsThePolicys == \A c \in Run : SelectedIn(run[c])

\* The walk lists each file once.
DistinctIn(r) ==
    /\ \A i \in DOMAIN r.entries : r.entries[i].path \notin r.children
    /\ \A i, j \in DOMAIN r.entries :
          r.entries[i].path = r.entries[j].path => i = j
EntriesAreDistinct == \A c \in Run : DistinctIn(run[c])

\* A run that may report, or has reported, knows every file that is there and
\* that it has not missed: it has yet to stat it, or has the right entry for
\* it and keeps it or is about to unlink it.
MayReport(r) == r.pc \in {"walking", "unlinking", "reporting"} \/ r.exit = 0
Shows(e, p, f) == e.path = p /\ e.mtime = f.mtime /\ e.size = f.size
SeesAllIn(r, files) ==
    MayReport(r) =>
        /\ r.pc \in {"walking", "unlinking", "reporting", "ended"}
        /\ r.pc \in {"reporting", "ended"} => r.pending = {}
        /\ \A p \in Path : IsFile(files[p]) =>
              \/ p \in r.missed
              \/ r.pc = "walking" /\ p \in r.children
              \/ \E i \in DOMAIN r.entries :
                    /\ Shows(r.entries[i], p, files[p])
                    /\ \/ r.dryRun
                       \/ i \notin r.selected
                       \/ i \in r.pending
RunsSee == \A c \in Run : SeesAllIn(run[c], trash)

\* If no file arrives, what is there and what the runs have listed are files
\* that were there at first.
ListsFirst(r) ==
    \A i \in DOMAIN r.entries :
        /\ IsFile(first[r.entries[i].path])
        /\ r.entries[i].mtime = first[r.entries[i].path].mtime
        /\ r.entries[i].size = first[r.entries[i].path].size
FirstIsSeen ==
    arrivals = 0 =>
        /\ \A p \in Path : trash[p] \in {first[p], NoFile}
        /\ \A c \in Run : run[c].now <= clock /\ ListsFirst(run[c])

IInv ==
    /\ TypeOK
    /\ Counted
    /\ SelectionIsThePolicys
    /\ EntriesAreDistinct
    /\ RunsSee
    /\ FirstIsSeen
    /\ DeletionsAreCredited
    /\ OverlappingRunsDoNotOverdelete

-----------------------------------------------------------------------------
(* Lemmas                                                                  *)

LEMMA MinIsIn ==
    ASSUME NEW S \in SUBSET Nat, S # {}
    PROVE  Min(S) \in S
<1>1. PICK x \in S : \A y \in S : ~(<<y, x>> \in OpToRel(<, Nat))
  BY NatLessThanWellFounded, WFMin
<1>2. \A y \in S : x <= y
  <2> SUFFICES ASSUME NEW y \in S PROVE x <= y OBVIOUS
  <2>1. x \in Nat /\ y \in Nat OBVIOUS
  <2>2. y < x => <<y, x>> \in OpToRel(<, Nat) BY <2>1 DEF OpToRel
  <2>3. ~(y < x) BY <1>1, <2>2
  <2> QED BY <2>1, <2>3
<1> QED BY <1>2 DEF Min

\* A file is one of the first ones or has the values they may have.
LEMMA FileFacts ==
    ASSUME NEW f \in FirstFile \cup {NoFile}
    PROVE  /\ f.mtime \in Nat /\ f.size \in Nat /\ f.there \in BOOLEAN
           /\ IsFile(f) <=> f # NoFile
<1>1. CASE f \in FirstFile
  <2>1. f.mtime \in Nat /\ f.size \in Nat /\ f.there = TRUE
    BY <1>1, FileAssumption
  <2>2. NoFile.there = FALSE BY DEF NoFile
  <2>3. f # NoFile BY <2>1, <2>2
  <2> QED BY <2>1, <2>3 DEF IsFile
<1>2. CASE f = NoFile BY <1>2 DEF IsFile, NoFile
<1> QED BY <1>1, <1>2

-----------------------------------------------------------------------------
(* Types                                                                   *)

\* The initial states.
LEMMA InitLocal == Init => TypeOK /\ Counted /\ SelectionIsThePolicys
                           /\ EntriesAreDistinct
<1> SUFFICES ASSUME Init
             PROVE  TypeOK /\ Counted /\ SelectionIsThePolicys
                    /\ EntriesAreDistinct
  OBVIOUS
<1>1. NotStarted \in RunRecord
  <2>1. <<>> \in Seq(TrashEntry(Path)) OBVIOUS
  <2> QED BY <2>1 DEF NotStarted, RunRecord
<1>2. /\ run \in [Run -> RunRecord]
      /\ \A c \in Run : run[c] = NotStarted
  BY <1>1 DEF Init
<1>3. trash \in [Path -> FirstFile \cup {NoFile}] /\ first = trash
      /\ (dir # "dir" => trash = [p \in Path |-> NoFile])
  BY DEF Init
<1>4. dir # "dir" => Present = {} BY <1>3 DEF Present, IsFile, NoFile
<1>5. IsFiniteSet(Present) BY FileAssumption, FS_Subset,
                             Present \in SUBSET Path DEF Present
<1>6. balance \in Int BY <1>5, FS_CardinalityType DEF Init
<1>7. clock \in Now /\ dir \in {"missing", "file", "dir"} BY DEF Init
<1>8. TypeOK
  <2>1. \A c \in Run : /\ run[c].pending \subseteq run[c].selected
                       /\ run[c].selected \subseteq DOMAIN run[c].entries
    BY <1>2 DEF NotStarted
  <2>2. faults = 0 /\ arrivals = 0 /\ removals = 0 BY DEF Init
  <2> QED BY <1>2, <1>3, <1>4, <1>6, <1>7, <2>1, <2>2, BoundAssumption
      DEF TypeOK
<1>9. CountedIn(NotStarted)
  BY FS_EmptySet DEF CountedIn, NotStarted
<1>10. SelectedIn(NotStarted) /\ DistinctIn(NotStarted)
  BY DEF SelectedIn, DistinctIn, NotStarted
<1> QED BY <1>2, <1>8, <1>9, <1>10
    DEF Counted, SelectionIsThePolicys, EntriesAreDistinct

-----------------------------------------------------------------------------
(* What holds of each run alone                                            *)

\* A record that a run may become.
GoodRun(r) ==
    /\ r \in RunRecord
    /\ r.pending \subseteq r.selected /\ r.selected \subseteq DOMAIN r.entries
    /\ CountedIn(r) /\ SelectedIn(r) /\ DistinctIn(r)

RunsAreGood == run \in [Run -> RunRecord] /\ \A c \in Run : GoodRun(run[c])

LEMMA OneRun ==
    ASSUME RunsAreGood, NEW c \in Run, NEW r, GoodRun(r),
           run' = [run EXCEPT ![c] = r]
    PROVE  RunsAreGood'
<1>1. r \in RunRecord BY DEF GoodRun
<1>2. run' \in [Run -> RunRecord] BY <1>1 DEF RunsAreGood
<1>3. \A d \in Run : run'[d] = IF d = c THEN r ELSE run[d]
  BY DEF RunsAreGood
<1>4. \A d \in Run : GoodRun(run'[d])
  BY <1>3 DEF RunsAreGood
<1> QED BY <1>2, <1>4 DEF RunsAreGood

\* The fields of a good run.
LEMMA GoodFacts ==
    ASSUME NEW r, GoodRun(r)
    PROVE  /\ r.pc \in {"idle", "walking", "unlinking", "reporting", "ended",
                        "killed"}
           /\ r.dryRun \in BOOLEAN /\ r.missed \subseteq Path
           /\ r.children \subseteq Path /\ r.entries \in Seq(TrashEntry(Path))
           /\ r.pending \subseteq Nat /\ r.selected \subseteq Nat
           /\ r.deleted \in Nat /\ r.alreadyGone \in Nat /\ r.kept \in Nat
           /\ IsFiniteSet(r.pending) /\ IsFiniteSet(r.selected)
           /\ Cardinality(r.pending) \in Nat /\ Cardinality(r.selected) \in Nat
           /\ Len(r.entries) \in Nat
           /\ Cardinality(r.selected) <= Len(r.entries)
<1>1. /\ r.entries \in Seq(TrashEntry(Path))
      /\ r.selected \in SUBSET DOMAIN r.entries
      /\ r.pending \in SUBSET DOMAIN r.entries
      /\ r.deleted \in Nat /\ r.alreadyGone \in Nat /\ r.kept \in Nat
  BY DEF GoodRun, RunRecord
<1>2. DOMAIN r.entries = 1..Len(r.entries) /\ Len(r.entries) \in Nat BY <1>1
<1>3. IsFiniteSet(DOMAIN r.entries)
      /\ Cardinality(DOMAIN r.entries) = Len(r.entries)
  BY <1>2, FS_Interval
<1>4. IsFiniteSet(r.selected) /\ IsFiniteSet(r.pending)
      /\ Cardinality(r.selected) <= Len(r.entries)
  BY <1>1, <1>3, FS_Subset
<1>5. Cardinality(r.selected) \in Nat /\ Cardinality(r.pending) \in Nat
  BY <1>4, FS_CardinalityType
<1>6. r.pc \in {"idle", "walking", "unlinking", "reporting", "ended", "killed"}
      /\ r.dryRun \in BOOLEAN /\ r.missed \subseteq Path
      /\ r.children \subseteq Path
      /\ r.pending \subseteq Nat /\ r.selected \subseteq Nat
  BY DEF GoodRun, RunRecord
<1> QED BY <1>1, <1>2, <1>4, <1>5, <1>6

LEMMA EndsGood ==
    ASSUME RunsAreGood, NEW c \in Run, run[c].pc = "idle", NEW code \in 0..2,
           Ends(c, code)
    PROVE  RunsAreGood'
<1> DEFINE r == [run[c] EXCEPT !.pc = "ended", !.exit = code]
<1>1. GoodRun(run[c]) /\ run \in [Run -> RunRecord] BY DEF RunsAreGood
<1>2. run' = [run EXCEPT ![c] = r] BY <1>1 DEF Ends
<1>3. run[c] = NotStarted BY <1>1 DEF GoodRun, CountedIn
<1>4. r = [NotStarted EXCEPT !.pc = "ended", !.exit = code] BY <1>3
<1> HIDE DEF r
<1>5. r \in RunRecord
  <2>1. <<>> \in Seq(TrashEntry(Path)) OBVIOUS
  <2>2. code \in -1..2 OBVIOUS
  <2> QED BY <1>4, <2>1, <2>2 DEF NotStarted, RunRecord
<1>6. CountedIn(r) BY <1>4, FS_EmptySet DEF CountedIn, NotStarted
<1>7. /\ r.entries = <<>> /\ r.selected = {} /\ r.pending = {}
      /\ DOMAIN r.entries = {}
  BY <1>4 DEF NotStarted
<1>a. SelectForDeletion(r.entries, r.now) = {} BY <1>7, SelectionIsInList
<1>b. SelectedIn(r) /\ DistinctIn(r) /\ r.pending \subseteq r.selected
      /\ r.selected \subseteq DOMAIN r.entries
  BY <1>7, <1>a DEF SelectedIn, DistinctIn
<1>8. GoodRun(r) BY <1>5, <1>6, <1>b DEF GoodRun
<1> QED BY <1>2, <1>8, OneRun

LEMMA StartGood ==
    ASSUME RunsAreGood, clock \in Now, NEW c \in Run, Start(c)
    PROVE  RunsAreGood'
<1>1. PICK dryRun \in BOOLEAN, now \in Now :
        /\ now <= clock
        /\ run' = [run EXCEPT
                     ![c] = [NotStarted EXCEPT !.pc = "walking",
                                               !.dryRun = dryRun,
                                               !.now = now,
                                               !.children = Present]]
  BY DEF Start
<1> DEFINE r == [NotStarted EXCEPT !.pc = "walking", !.dryRun = dryRun,
                                   !.now = now, !.children = Present]
<1>2. r \in RunRecord
  <2>1. Present \subseteq Path BY DEF Present
  <2>2. <<>> \in Seq(TrashEntry(Path)) OBVIOUS
  <2>3. NotStarted \in RunRecord BY <2>2 DEF NotStarted, RunRecord
  <2>4. now \in Now \cup {0} OBVIOUS
  <2> QED BY <2>1, <2>3, <2>4 DEF RunRecord
<1>3. CountedIn(r) BY FS_EmptySet DEF CountedIn, NotStarted
<1>4. SelectedIn(r) /\ DistinctIn(r) /\ r.pending \subseteq r.selected
      /\ r.selected \subseteq DOMAIN r.entries
  BY DEF SelectedIn, DistinctIn, NotStarted
<1>5. GoodRun(r) BY <1>2, <1>3, <1>4 DEF GoodRun
<1> HIDE DEF r
<1>6. run' = [run EXCEPT ![c] = r] BY <1>1 DEF r
<1> QED BY <1>5, <1>6, OneRun

LEMMA StatGood ==
    ASSUME RunsAreGood, trash \in [Path -> FirstFile \cup {NoFile}],
           NEW c \in Run, NEW p \in Path, Stat(c, p)
    PROVE  RunsAreGood'
<1> DEFINE q == run[c]
           e == [path |-> p, mtime |-> trash[p].mtime,
                 size |-> trash[p].size]
           es == IF IsFile(trash[p]) THEN Append(q.entries, e) ELSE q.entries
           r == [q EXCEPT !.children = q.children \ {p}, !.entries = es]
<1>1. GoodRun(q) /\ q \in RunRecord /\ run \in [Run -> RunRecord]
  BY DEF RunsAreGood, GoodRun
<1>2. run' = [run EXCEPT ![c] = r] BY <1>1 DEF Stat
<1>3. q.pc = "walking" /\ p \in q.children BY DEF Stat
<1>4. e \in TrashEntry(Path)
  <2>1. trash[p].mtime \in Nat /\ trash[p].size \in Nat BY FileFacts
  <2> QED BY <2>1 DEF TrashEntry
<1> HIDE DEF e
<1>5. q.entries \in Seq(TrashEntry(Path)) BY <1>1 DEF RunRecord
<1>6. /\ es \in Seq(TrashEntry(Path))
      /\ DOMAIN q.entries \subseteq DOMAIN es
      /\ \A i \in DOMAIN es :
            \/ i \in DOMAIN q.entries /\ es[i] = q.entries[i]
            \/ i = Len(q.entries) + 1 /\ es[i] = e
  BY <1>4, <1>5
<1>7. e.path = p BY DEF e
<1> HIDE DEF es
<1>8. r \in RunRecord BY <1>1, <1>6 DEF RunRecord
<1>9. /\ r.pc = "walking" /\ r.entries = es /\ r.children = q.children \ {p}
      /\ r.pending = q.pending /\ r.selected = q.selected
      /\ r.deleted = q.deleted /\ r.alreadyGone = q.alreadyGone
      /\ r.exit = q.exit
  BY <1>1, <1>3 DEF RunRecord
<1>10. DistinctIn(q) /\ CountedIn(q) /\ q.pending \subseteq q.selected
       /\ q.selected \subseteq DOMAIN q.entries
  BY <1>1 DEF GoodRun
<1> HIDE DEF q, r
<1>11. DistinctIn(r)
  <2>1. \A i \in DOMAIN es : es[i].path \notin q.children \ {p}
    BY <1>6, <1>7, <1>10 DEF DistinctIn
  <2>2. \A i, j \in DOMAIN es : es[i].path = es[j].path => i = j
    BY <1>3, <1>6, <1>7, <1>10 DEF DistinctIn
  <2> QED BY <1>9, <2>1, <2>2 DEF DistinctIn
<1>12. CountedIn(r) BY <1>3, <1>9, <1>10 DEF CountedIn
<1>13. SelectedIn(r) BY <1>9 DEF SelectedIn
<1>14. GoodRun(r) BY <1>6, <1>8, <1>9, <1>10, <1>11, <1>12, <1>13 DEF GoodRun
<1> QED BY <1>2, <1>14, OneRun

LEMMA StatFailsGood ==
    ASSUME RunsAreGood, NEW c \in Run, NEW p \in Path, StatFails(c, p)
    PROVE  RunsAreGood'
<1> DEFINE q == run[c]
           r == [q EXCEPT !.children = q.children \ {p},
                          !.missed = q.missed \cup {p}]
<1>1. GoodRun(q) /\ q \in RunRecord /\ run \in [Run -> RunRecord]
  BY DEF RunsAreGood, GoodRun
<1>2. run' = [run EXCEPT ![c] = r] BY <1>1 DEF StatFails
<1>3. q.pc = "walking" BY DEF StatFails
<1>4. r \in RunRecord BY <1>1 DEF RunRecord
<1>5. /\ r.pc = "walking" /\ r.entries = q.entries
      /\ r.children = q.children \ {p}
      /\ r.pending = q.pending /\ r.selected = q.selected
      /\ r.deleted = q.deleted /\ r.alreadyGone = q.alreadyGone
      /\ r.exit = q.exit
  BY <1>1, <1>3 DEF RunRecord
<1>6. DistinctIn(q) /\ CountedIn(q) /\ q.pending \subseteq q.selected
      /\ q.selected \subseteq DOMAIN q.entries
  BY <1>1 DEF GoodRun
<1> HIDE DEF q, r
<1>7. DistinctIn(r) /\ SelectedIn(r)
  BY <1>5, <1>6 DEF DistinctIn, SelectedIn
<1>8. CountedIn(r) BY <1>3, <1>5, <1>6 DEF CountedIn
<1>9. GoodRun(r) BY <1>4, <1>5, <1>6, <1>7, <1>8 DEF GoodRun
<1> QED BY <1>2, <1>9, OneRun

LEMMA SelectGood ==
    ASSUME RunsAreGood, NEW c \in Run, Select(c)
    PROVE  RunsAreGood'
<1> DEFINE q == run[c]
           sel == SelectForDeletion(q.entries, q.now)
           pend == IF q.dryRun THEN {} ELSE sel
           next == IF q.dryRun THEN "reporting" ELSE "unlinking"
           r == [q EXCEPT !.selected = sel, !.pending = pend, !.pc = next]
<1>1. GoodRun(q) /\ q \in RunRecord /\ run \in [Run -> RunRecord]
  BY DEF RunsAreGood, GoodRun
<1>2. run' = [run EXCEPT ![c] = r] BY <1>1 DEF Select
<1>3. q.pc = "walking" BY DEF Select
<1>4. sel \subseteq DOMAIN q.entries BY SelectionIsInList
<1>5. DOMAIN q.entries \subseteq Nat /\ IsFiniteSet(DOMAIN q.entries)
  BY <1>1, ListFacts DEF RunRecord
<1>6. pend \subseteq sel /\ next \in {"reporting", "unlinking"}
      /\ IsFiniteSet(sel)
  BY <1>4, <1>5, FS_Subset
<1>7. Cardinality(pend) \in Nat /\ Cardinality(sel) \in Nat
      /\ Cardinality(pend) <= Cardinality(sel)
  BY <1>6, FS_Subset, FS_CardinalityType
<1> HIDE DEF pend, next
<1>8. r \in RunRecord
  <2>1. sel \in SUBSET Nat /\ pend \in SUBSET Nat BY <1>4, <1>5, <1>6
  <2> HIDE DEF sel
  <2> QED BY <1>1, <1>6, <2>1 DEF RunRecord
<1>9. /\ r.pc \in {"reporting", "unlinking"} /\ r.entries = q.entries
      /\ r.children = q.children /\ r.now = q.now
      /\ r.pending = pend /\ r.selected = sel
      /\ r.deleted = q.deleted /\ r.alreadyGone = q.alreadyGone
      /\ r.exit = q.exit
  BY <1>1, <1>6 DEF RunRecord
<1>10. DistinctIn(q) /\ CountedIn(q)
  BY <1>1 DEF GoodRun
<1> HIDE DEF r
<1>11. DistinctIn(r) BY <1>9, <1>10 DEF DistinctIn
<1>12. SelectedIn(r) BY <1>9 DEF SelectedIn
<1> HIDE DEF q, sel
<1>13. CountedIn(r) BY <1>3, <1>7, <1>9, <1>10 DEF CountedIn
<1>14. GoodRun(r) BY <1>4, <1>6, <1>8, <1>9, <1>11, <1>12, <1>13 DEF GoodRun
<1> QED BY <1>2, <1>14, OneRun

\* One entry is dealt with: it is counted, or its unlink failed.
LEMMA DealtWithGood ==
    ASSUME RunsAreGood, NEW c \in Run,
           run[c].pc = "unlinking", run[c].pending # {},
           NEW r, r \in RunRecord,
           r.pc = "unlinking", r.entries = run[c].entries,
           r.children = run[c].children, r.now = run[c].now,
           r.pending = run[c].pending \ {NextPending(c)},
           r.selected = run[c].selected, r.exit = run[c].exit,
           r.deleted + r.alreadyGone <= run[c].deleted + run[c].alreadyGone + 1
    PROVE  GoodRun(r)
<1> DEFINE q == run[c]
<1>1. GoodRun(q) /\ q \in RunRecord
  BY DEF RunsAreGood, GoodRun
<1>2. /\ q.pending \subseteq Nat /\ q.selected \subseteq Nat
      /\ IsFiniteSet(q.pending) /\ Cardinality(q.pending) \in Nat
      /\ Cardinality(q.selected) \in Nat
      /\ q.deleted \in Nat /\ q.alreadyGone \in Nat
  BY <1>1, GoodFacts
<1>3. NextPending(c) \in q.pending BY <1>2, MinIsIn DEF NextPending
<1>4. Cardinality(r.pending) = Cardinality(q.pending) - 1
  <2>1. r.pending = q.pending \ {NextPending(c)}
    OBVIOUS
  <2> HIDE DEF q
  <2> QED BY <1>2, <1>3, <2>1, FS_RemoveElement
<1>5. /\ DistinctIn(q) /\ CountedIn(q) /\ SelectedIn(q)
      /\ q.pending \subseteq q.selected
      /\ q.selected \subseteq DOMAIN q.entries
  BY <1>1 DEF GoodRun
<1>6. DistinctIn(r) /\ SelectedIn(r)
  BY <1>5 DEF DistinctIn, SelectedIn
<1>7. CountedIn(r)
  <2>1. q.deleted + q.alreadyGone + Cardinality(q.pending)
          <= Cardinality(q.selected) BY <1>5 DEF CountedIn
  <2>2. r.deleted \in Nat /\ r.alreadyGone \in Nat BY DEF RunRecord
  <2>3. r.deleted + r.alreadyGone + Cardinality(r.pending)
          <= Cardinality(q.selected)
    <3> HIDE DEF q
    <3>1. r.deleted + r.alreadyGone <= q.deleted + q.alreadyGone + 1
      BY DEF q
    <3> QED BY <1>2, <1>4, <2>1, <2>2, <3>1
  <2>4. r.exit = -1 BY <1>5 DEF CountedIn
  <2> QED BY <2>3, <2>4 DEF CountedIn
<1> QED BY <1>5, <1>6, <1>7 DEF GoodRun

LEMMA UnlinkGood ==
    ASSUME RunsAreGood, NEW c \in Run, Unlink(c)
    PROVE  RunsAreGood'
<1> DEFINE q == run[c]
           i == NextPending(c)
           pend == q.pending \ {i}
           r1 == [q EXCEPT !.pending = pend, !.deleted = q.deleted + 1]
           r2 == [q EXCEPT !.pending = pend, !.alreadyGone = q.alreadyGone + 1]
<1>1. q \in RunRecord /\ run \in [Run -> RunRecord]
  BY DEF RunsAreGood
<1>2. q.pc = "unlinking" /\ q.pending # {} BY DEF Unlink
<1>3. run' = [run EXCEPT ![c] = r1] \/ run' = [run EXCEPT ![c] = r2]
  BY <1>1 DEF Unlink
<1>4. q.deleted \in Nat /\ q.alreadyGone \in Nat
      /\ pend \in SUBSET Nat BY <1>1 DEF RunRecord
<1>5. r1 \in RunRecord /\ r2 \in RunRecord
  <2>1. q.deleted + 1 \in Nat /\ q.alreadyGone + 1 \in Nat BY <1>4
  <2> HIDE DEF q, pend
  <2>2. r1 \in RunRecord BY <1>1, <1>4, <2>1 DEF RunRecord
  <2>3. r2 \in RunRecord BY <1>1, <1>4, <2>1 DEF RunRecord
  <2> QED BY <2>2, <2>3
<1>6. /\ r1.pc = "unlinking" /\ r1.entries = q.entries
      /\ r1.children = q.children /\ r1.now = q.now
      /\ r1.pending = pend /\ r1.selected = q.selected
      /\ r1.deleted = q.deleted + 1 /\ r1.alreadyGone = q.alreadyGone
      /\ r1.exit = q.exit
  BY <1>1, <1>2 DEF RunRecord
<1>7. /\ r2.pc = "unlinking" /\ r2.entries = q.entries
      /\ r2.children = q.children /\ r2.now = q.now
      /\ r2.pending = pend /\ r2.selected = q.selected
      /\ r2.deleted = q.deleted /\ r2.alreadyGone = q.alreadyGone + 1
      /\ r2.exit = q.exit
  BY <1>1, <1>2 DEF RunRecord
<1> HIDE DEF r1, r2
<1>8. GoodRun(r1) BY <1>2, <1>4, <1>5, <1>6, DealtWithGood
<1>9. GoodRun(r2) BY <1>2, <1>4, <1>5, <1>7, DealtWithGood
<1> QED BY <1>3, <1>8, <1>9, OneRun

LEMMA UnlinkFailsGood ==
    ASSUME RunsAreGood, NEW c \in Run, UnlinkFails(c)
    PROVE  RunsAreGood'
<1> DEFINE q == run[c]
           i == NextPending(c)
           pend == q.pending \ {i}
           path == Target(c).path
           r == [q EXCEPT !.pending = pend, !.missed = q.missed \cup {path}]
<1>1. q \in RunRecord /\ run \in [Run -> RunRecord]
  BY DEF RunsAreGood
<1>2. q.pc = "unlinking" /\ q.pending # {} BY DEF UnlinkFails
<1>3. run' = [run EXCEPT ![c] = r] BY <1>1 DEF UnlinkFails
<1>4. q.deleted \in Nat /\ q.alreadyGone \in Nat
      /\ pend \in SUBSET Nat BY <1>1 DEF RunRecord
<1>a. path \in Path
  <2>1. /\ q.pending \subseteq DOMAIN q.entries /\ q.pending \subseteq Nat
        /\ q.entries \in Seq(TrashEntry(Path))
    BY DEF RunsAreGood, GoodRun, RunRecord
  <2>2. i \in q.pending BY <1>2, <2>1, MinIsIn DEF NextPending
  <2>3. q.entries[i] \in TrashEntry(Path) BY <2>1, <2>2
  <2> QED BY <2>3 DEF Target, TrashEntry
<1> HIDE DEF path
<1>5. r \in RunRecord
  <2>1. q.missed \cup {path} \in SUBSET Path BY <1>1, <1>a DEF RunRecord
  <2> QED BY <1>1, <1>4, <2>1 DEF RunRecord
<1>6. /\ r.pc = "unlinking" /\ r.entries = q.entries
      /\ r.children = q.children /\ r.now = q.now
      /\ r.pending = pend /\ r.selected = q.selected
      /\ r.deleted = q.deleted /\ r.alreadyGone = q.alreadyGone
      /\ r.exit = q.exit
  BY <1>1, <1>2 DEF RunRecord
<1> HIDE DEF r
<1>7. GoodRun(r) BY <1>2, <1>4, <1>5, <1>6, DealtWithGood
<1> QED BY <1>3, <1>7, OneRun

LEMMA ReportGood ==
    ASSUME RunsAreGood, NEW c \in Run, Report(c)
    PROVE  RunsAreGood'
<1> DEFINE q == run[c]
           k == Len(q.entries) - q.deleted - q.alreadyGone
           r == [q EXCEPT !.pc = "ended", !.exit = 0, !.kept = k]
<1>1. GoodRun(q) /\ q \in RunRecord /\ run \in [Run -> RunRecord]
  BY DEF RunsAreGood, GoodRun
<1>2. run' = [run EXCEPT ![c] = r] BY <1>1 DEF Report
<1>3. q.pc \in {"reporting", "unlinking"} BY DEF Report
<1>4. /\ DistinctIn(q) /\ CountedIn(q) /\ SelectedIn(q)
      /\ q.pending \subseteq q.selected
      /\ q.selected \subseteq DOMAIN q.entries
  BY <1>1 DEF GoodRun
<1>5. k \in Nat
  <2>1. /\ q.deleted \in Nat /\ q.alreadyGone \in Nat
        /\ Cardinality(q.pending) \in Nat /\ Cardinality(q.selected) \in Nat
        /\ Len(q.entries) \in Nat
        /\ Cardinality(q.selected) <= Len(q.entries)
    BY <1>1, GoodFacts
  <2>2. q.deleted + q.alreadyGone + Cardinality(q.pending)
          <= Cardinality(q.selected)
    BY <1>4 DEF CountedIn
  <2> HIDE DEF q
  <2> QED BY <2>1, <2>2
<1> HIDE DEF k
<1>6. /\ r.pc = "ended" /\ r.entries = q.entries
      /\ r.children = q.children /\ r.now = q.now
      /\ r.pending = q.pending /\ r.selected = q.selected
      /\ r.deleted = q.deleted /\ r.alreadyGone = q.alreadyGone
      /\ r.exit = 0
  BY <1>1 DEF RunRecord
<1>7. r \in RunRecord
  <2>1. 0 \in -1..2 OBVIOUS
  <2> HIDE DEF q
  <2> QED BY <1>1, <1>5, <2>1 DEF RunRecord
<1> HIDE DEF q, r
<1>8. DistinctIn(r) BY <1>4, <1>6 DEF DistinctIn
<1>9. SelectedIn(r) BY <1>3, <1>4, <1>6 DEF SelectedIn
<1>10. CountedIn(r) BY <1>4, <1>6 DEF CountedIn
<1>11. GoodRun(r) BY <1>4, <1>6, <1>7, <1>8, <1>9, <1>10 DEF GoodRun
<1> QED BY <1>2, <1>11, OneRun

LEMMA KilledGood ==
    ASSUME RunsAreGood, NEW c \in Run, Killed(c)
    PROVE  RunsAreGood'
<1> DEFINE q == run[c]
           r == [q EXCEPT !.pc = "killed"]
<1>1. GoodRun(q) /\ q \in RunRecord /\ run \in [Run -> RunRecord]
  BY DEF RunsAreGood, GoodRun
<1>2. run' = [run EXCEPT ![c] = r] BY <1>1 DEF Killed
<1>3. q.pc \in {"walking", "unlinking"} BY DEF Killed
<1>4. /\ DistinctIn(q) /\ CountedIn(q)
      /\ q.pending \subseteq q.selected
      /\ q.selected \subseteq DOMAIN q.entries
  BY <1>1 DEF GoodRun
<1>5. /\ r.pc = "killed" /\ r.entries = q.entries
      /\ r.children = q.children
      /\ r.pending = q.pending /\ r.selected = q.selected
      /\ r.deleted = q.deleted /\ r.alreadyGone = q.alreadyGone
      /\ r.exit = q.exit
  BY <1>1 DEF RunRecord
<1>6. r \in RunRecord BY <1>1 DEF RunRecord
<1> HIDE DEF q, r
<1>7. DistinctIn(r) /\ SelectedIn(r)
  BY <1>4, <1>5 DEF DistinctIn, SelectedIn
<1>8. CountedIn(r) BY <1>3, <1>4, <1>5 DEF CountedIn
<1>9. GoodRun(r) BY <1>4, <1>5, <1>6, <1>7, <1>8 DEF GoodRun
<1> QED BY <1>2, <1>9, OneRun

LEMMA ArriveGood ==
    ASSUME RunsAreGood, NEW p \in Path, NEW f, Arrive(p, f)
    PROVE  RunsAreGood'
<1>1. run' = [c \in Run |->
                IF run[c].pc = "idle"
                THEN run[c]
                ELSE [run[c] EXCEPT !.missed = run[c].missed \cup {p}]]
  BY DEF Arrive
<1>2. SUFFICES ASSUME NEW c \in Run PROVE GoodRun(run'[c])
  BY <1>1 DEF RunsAreGood, GoodRun
<1> DEFINE q == run[c]
           r == [q EXCEPT !.missed = q.missed \cup {p}]
<1>3. GoodRun(q) /\ q \in RunRecord
  BY DEF RunsAreGood, GoodRun
<1>4. CASE q.pc = "idle" BY <1>1, <1>3, <1>4
<1>5. CASE q.pc # "idle"
  <2>1. /\ DistinctIn(q) /\ CountedIn(q) /\ SelectedIn(q)
        /\ q.pending \subseteq q.selected
        /\ q.selected \subseteq DOMAIN q.entries
    BY <1>3 DEF GoodRun
  <2>2. /\ r.pc = q.pc /\ r.entries = q.entries
        /\ r.children = q.children /\ r.now = q.now
        /\ r.pending = q.pending /\ r.selected = q.selected
        /\ r.deleted = q.deleted /\ r.alreadyGone = q.alreadyGone
        /\ r.exit = q.exit
    BY <1>3 DEF RunRecord
  <2>3. r \in RunRecord BY <1>3 DEF RunRecord
  <2>4. run'[c] = r BY <1>1, <1>5
  <2> HIDE DEF q, r
  <2>5. DistinctIn(r) /\ SelectedIn(r)
    BY <2>1, <2>2 DEF DistinctIn, SelectedIn
  <2>6. CountedIn(r) BY <1>5, <2>1, <2>2 DEF CountedIn
  <2>7. GoodRun(r) BY <2>1, <2>2, <2>3, <2>5, <2>6 DEF GoodRun
  <2> QED BY <2>4, <2>7
<1> QED BY <1>4, <1>5

LEMMA RunsStayGood ==
    ASSUME TypeOK, RunsAreGood, [Next]_vars
    PROVE  RunsAreGood'
<1>1. clock \in Now /\ trash \in [Path -> FirstFile \cup {NoFile}]
  BY DEF TypeOK
<1>2. ASSUME NEW c \in Run, RunStep(c) PROVE RunsAreGood'
  <2>1. CASE StartMisconfigured(c)
    BY <2>1, EndsGood, 1 \in 0..2 DEF StartMisconfigured
  <2>2. CASE StartWithoutDir(c)
    BY <2>2, EndsGood, 0 \in 0..2 DEF StartWithoutDir
  <2>3. CASE StartNotADir(c) BY <2>3, EndsGood, 2 \in 0..2 DEF StartNotADir
  <2>4. CASE Start(c) BY <1>1, <2>4, StartGood
  <2>5. ASSUME NEW p \in Path, Stat(c, p) PROVE RunsAreGood'
    BY <1>1, <2>5, StatGood
  <2>6. CASE Select(c) BY <2>6, SelectGood
  <2>7. CASE Unlink(c) BY <2>7, UnlinkGood
  <2>8. CASE Report(c) BY <2>8, ReportGood
  <2> QED BY <1>2, <2>1, <2>2, <2>3, <2>4, <2>5, <2>6, <2>7, <2>8 DEF RunStep
<1>3. ASSUME NEW c \in Run,
             \/ ListFails(c) \/ UnlinkFails(c) \/ Killed(c)
             \/ \E p \in Path : StatFails(c, p)
      PROVE  RunsAreGood'
  <2>1. CASE ListFails(c) BY <2>1, EndsGood, 2 \in 0..2 DEF ListFails
  <2>2. CASE UnlinkFails(c) BY <2>2, UnlinkFailsGood
  <2>3. CASE Killed(c) BY <2>3, KilledGood
  <2>4. CASE \E p \in Path : StatFails(c, p) BY <2>4, StatFailsGood
  <2> QED BY <1>3, <2>1, <2>2, <2>3, <2>4
<1>4. ASSUME NEW p \in Path, NEW f \in FirstFile, Arrive(p, f)
      PROVE  RunsAreGood'
  BY <1>4, ArriveGood
<1>5. ASSUME run' = run PROVE RunsAreGood' BY <1>5 DEF RunsAreGood
<1>6. ASSUME NEW p \in Path, Removed(p) PROVE RunsAreGood'
  BY <1>5, <1>6 DEF Removed
<1>7. CASE Tick BY <1>5, <1>7 DEF Tick
<1>8. CASE UNCHANGED vars BY <1>5, <1>8 DEF vars
<1> QED BY <1>2, <1>3, <1>4, <1>6, <1>7, <1>8 DEF Next

-----------------------------------------------------------------------------
(* The directory                                                           *)

\* What TypeOK says of everything but the runs.
WorldOK ==
    /\ dir \in {"missing", "file", "dir"}
    /\ trash \in [Path -> FirstFile \cup {NoFile}]
    /\ dir # "dir" => Present = {}
    /\ clock \in Now
    /\ faults \in 0..MaxFaults /\ arrivals \in 0..MaxArrivals
    /\ removals \in 0..MaxRemovals
    /\ first \in [Path -> FirstFile \cup {NoFile}] /\ balance \in Int

LEMMA TypeParts == TypeOK /\ Counted /\ SelectionIsThePolicys
                     /\ EntriesAreDistinct <=> WorldOK /\ RunsAreGood
  BY DEF WorldOK, RunsAreGood, TypeOK, GoodRun, Counted,
         SelectionIsThePolicys, EntriesAreDistinct

\* A file leaves trash/.
LEMMA Leaves ==
    ASSUME WorldOK, NEW p \in Path, trash' = [trash EXCEPT ![p] = NoFile]
    PROVE  /\ trash' \in [Path -> FirstFile \cup {NoFile}]
           /\ Present' = Present \ {p}
<1>1. trash' \in [Path -> FirstFile \cup {NoFile}] BY DEF WorldOK
<1>2. \A q \in Path : trash'[q] = IF q = p THEN NoFile ELSE trash[q]
  BY DEF WorldOK
<1>3. ~IsFile(NoFile) BY DEF IsFile, NoFile
<1> QED BY <1>1, <1>2, <1>3 DEF Present

\* A file comes.
LEMMA Comes ==
    ASSUME WorldOK, NEW p \in Path, NEW f \in FirstFile,
           trash' = [trash EXCEPT ![p] = f]
    PROVE  /\ trash' \in [Path -> FirstFile \cup {NoFile}]
           /\ Present' = Present \cup {p}
<1>1. trash' \in [Path -> FirstFile \cup {NoFile}] BY DEF WorldOK
<1>2. \A q \in Path : trash'[q] = IF q = p THEN f ELSE trash[q]
  BY DEF WorldOK
<1>3. IsFile(f) BY FileAssumption DEF IsFile
<1> QED BY <1>1, <1>2, <1>3 DEF Present

LEMMA WorldStaysOK ==
    ASSUME WorldOK, RunsAreGood, [Next]_vars
    PROVE  WorldOK'
<1>1. ASSUME UNCHANGED <<trash, clock, first, balance, arrivals, removals>>,
             dir' = dir \/ dir' = "dir",
             faults' = faults \/ (faults < MaxFaults /\ faults' = faults + 1)
      PROVE  WorldOK'
  <2>1. Present' = Present BY <1>1 DEF Present
  <2>2. faults' \in 0..MaxFaults BY <1>1, BoundAssumption DEF WorldOK
  <2> QED BY <1>1, <2>1, <2>2 DEF WorldOK
<1>2. ASSUME NEW c \in Run, RunStep(c) PROVE WorldOK'
  <2>1. CASE StartMisconfigured(c)
    BY <1>1, <2>1 DEF StartMisconfigured, countVars, historyVars
  <2>2. CASE StartWithoutDir(c)
    BY <1>1, <2>2 DEF StartWithoutDir, countVars, historyVars
  <2>3. CASE StartNotADir(c)
    BY <1>1, <2>3 DEF StartNotADir, countVars, historyVars
  <2>4. CASE Start(c) BY <1>1, <2>4 DEF Start, countVars, historyVars
  <2>5. ASSUME NEW p \in Path, Stat(c, p) PROVE WorldOK'
    BY <1>1, <2>5 DEF Stat, countVars, historyVars
  <2>6. CASE Select(c) BY <1>1, <2>6 DEF Select, countVars, historyVars
  <2>7. CASE Unlink(c)
    <3>1. CASE UNCHANGED trash
      BY <1>1, <2>7, <3>1 DEF Unlink, countVars, historyVars
    <3>2. CASE trash' = [trash EXCEPT ![Target(c).path] = NoFile]
      <4>1. Target(c).path \in Path
        <5>1. run[c].pending # {} BY <2>7 DEF Unlink
        <5>2. GoodRun(run[c]) BY DEF RunsAreGood
        <5>3. run[c].pending \subseteq Nat BY <5>2, GoodFacts
        <5>4. NextPending(c) \in run[c].pending
          BY <5>1, <5>3, MinIsIn DEF NextPending
        <5>5. NextPending(c) \in DOMAIN run[c].entries
              /\ run[c].entries \in Seq(TrashEntry(Path))
          BY <5>2, <5>4 DEF GoodRun, RunRecord
        <5>6. run[c].entries[NextPending(c)] \in TrashEntry(Path) BY <5>5
        <5> QED BY <5>6 DEF Target, TrashEntry
      <4>2. trash' \in [Path -> FirstFile \cup {NoFile}]
            /\ Present' = Present \ {Target(c).path}
        BY <3>2, <4>1, Leaves
      <4>3. UNCHANGED <<dir, clock, faults, arrivals, removals, first, balance>>
        BY <2>7 DEF Unlink, countVars, historyVars
      <4> QED BY <4>2, <4>3 DEF WorldOK
    <3> QED BY <2>7, <3>1, <3>2 DEF Unlink
  <2>8. CASE Report(c) BY <1>1, <2>8 DEF Report, countVars, historyVars
  <2> QED BY <1>2, <2>1, <2>2, <2>3, <2>4, <2>5, <2>6, <2>7, <2>8 DEF RunStep
<1>3. ASSUME NEW c \in Run,
             \/ ListFails(c) \/ UnlinkFails(c) \/ Killed(c)
             \/ \E p \in Path : StatFails(c, p)
      PROVE  WorldOK'
  BY <1>1, <1>3 DEF ListFails, UnlinkFails, Killed, StatFails, historyVars
<1>4. ASSUME NEW p \in Path, NEW f \in FirstFile, Arrive(p, f)
      PROVE  WorldOK'
  <2>1. trash' \in [Path -> FirstFile \cup {NoFile}]
        /\ Present' = Present \cup {p}
    BY <1>4, Comes DEF Arrive
  <2>2. dir = "dir" /\ UNCHANGED <<dir, clock, faults, removals, first>>
    BY <1>4 DEF Arrive
  <2>3. arrivals' \in 0..MaxArrivals
    BY <1>4, BoundAssumption DEF WorldOK, Arrive
  <2>4. balance' \in Int BY <1>4 DEF WorldOK, Arrive
  <2> QED BY <2>1, <2>2, <2>3, <2>4 DEF WorldOK
<1>5. ASSUME NEW p \in Path, Removed(p) PROVE WorldOK'
  <2>1. trash' \in [Path -> FirstFile \cup {NoFile}]
        /\ Present' = Present \ {p}
    BY <1>5, Leaves DEF Removed
  <2>2. UNCHANGED <<dir, clock, faults, arrivals, first>>
    BY <1>5 DEF Removed
  <2>3. removals' \in 0..MaxRemovals
    BY <1>5, BoundAssumption DEF WorldOK, Removed
  <2>4. balance' \in Int BY <1>5 DEF WorldOK, Removed
  <2> QED BY <2>1, <2>2, <2>3, <2>4 DEF WorldOK
<1>6. CASE Tick
  <2>1. clock' \in Now /\ UNCHANGED <<dir, trash, countVars, historyVars>>
    BY <1>6 DEF Tick
  <2>2. Present' = Present BY <2>1 DEF Present
  <2> QED BY <2>1, <2>2 DEF WorldOK, countVars, historyVars
<1>7. CASE UNCHANGED vars
  BY <1>1, <1>7 DEF vars
<1> QED BY <1>2, <1>3, <1>4, <1>5, <1>6, <1>7 DEF Next

-----------------------------------------------------------------------------
(* Credit for deletions                                                    *)

Credit(r) == MapThenSumSet(LAMBDA c : r[c].deleted, Run)
Deleted(r) == [c \in Run |-> r[c].deleted]

LEMMA CreditIsSum == ASSUME NEW r PROVE Credit(r) = Sum(Deleted(r), Run)
<1> DEFINE it == CHOOSE iter :
             iter = [s \in SUBSET Run |->
                       IF s = {} THEN 0
                       ELSE r[First(s)].deleted + iter[s \ {First(s)}]]
<1>1. Credit(r) = it[Run]
  BY DEF Credit, MapThenSumSet, MapThenFoldSet, First
<1>2. \A iter : IsSum(iter, Deleted(r), Run)
                  <=> iter = [s \in SUBSET Run |->
                        IF s = {} THEN 0
                        ELSE r[First(s)].deleted + iter[s \ {First(s)}]]
  <2>1. \A s \in SUBSET Run :
           s # {} => Deleted(r)[First(s)] = r[First(s)].deleted
    BY FirstIsIn DEF Deleted
  <2> QED BY <2>1 DEF IsSum
<1>3. \E iter : IsSum(iter, Deleted(r), Run) BY RunAssumption, IsSumExists
<1>4. IsSum(it, Deleted(r), Run) BY <1>2, <1>3
<1> HIDE DEF it
<1> QED BY <1>1, <1>4, RunAssumption, SumIs

LEMMA CreditNow ==
    DeletionsAreCredited <=> Credit(run) = balance - Cardinality(Present)
  BY DEF DeletionsAreCredited, Credit, MapThenSumSet, MapThenFoldSet

LEMMA CreditNext ==
    DeletionsAreCredited' <=> Credit(run') = balance' - Cardinality(Present')
  BY DEF DeletionsAreCredited, Credit, MapThenSumSet, MapThenFoldSet

\* No run counts a deletion.
LEMMA CreditStays ==
    ASSUME RunsAreGood, RunsAreGood',
           \A c \in Run : run'[c].deleted = run[c].deleted
    PROVE  Credit(run') = Credit(run)
<1>1. \A c \in Run : Deleted(run')[c] = Deleted(run)[c] BY DEF Deleted
<1>2. Sum(Deleted(run'), Run) = Sum(Deleted(run), Run)
  BY <1>1, RunAssumption, SumSame
<1> QED BY <1>2, CreditIsSum

\* Run c counts one.
LEMMA CreditGrows ==
    ASSUME RunsAreGood, RunsAreGood', NEW c \in Run,
           run'[c].deleted = run[c].deleted + 1,
           \A d \in Run \ {c} : run'[d].deleted = run[d].deleted
    PROVE  Credit(run') = Credit(run) + 1
<1> DEFINE f == Deleted(run)
           g == Deleted(run')
<1>1. \A d \in Run : f[d] \in Nat /\ g[d] \in Nat
  <2>1. \A d \in Run : run[d] \in RunRecord /\ run'[d] \in RunRecord
    BY DEF RunsAreGood
  <2> QED BY <2>1 DEF Deleted, RunRecord
<1>2. g[c] = f[c] + 1 /\ \A d \in Run \ {c} : f[d] = g[d] BY DEF Deleted
<1>3. Credit(run) = Sum(f, Run) /\ Credit(run') = Sum(g, Run)
  BY CreditIsSum
<1> HIDE DEF f, g
<1>4. \A d \in Run : f[d] \in Int /\ g[d] \in Int BY <1>1
<1>5. Sum(g, Run) = Sum(f, Run) + g[c] - f[c]
  BY <1>2, <1>4, RunAssumption, SumUpdate
<1>6. Sum(f, Run) \in Int BY <1>4, RunAssumption, SumType
<1> QED BY <1>2, <1>3, <1>4, <1>5, <1>6

\* A run's deletions change when it unlinks only.
LEMMA OnlyUnlinkCounts ==
    ASSUME RunsAreGood, [Next]_vars, ~ \E c \in Run : Unlink(c)
    PROVE  \A d \in Run : run'[d].deleted = run[d].deleted
<1>1. /\ run \in [Run -> RunRecord]
      /\ \A d \in Run : run[d].pc = "idle" => run[d].deleted = 0
  BY DEF RunsAreGood, GoodRun, CountedIn, NotStarted
<1>2. ASSUME NEW c \in Run, RunStep(c)
      PROVE  \A d \in Run : run'[d].deleted = run[d].deleted
  <2>1. CASE StartMisconfigured(c)
    BY <1>1, <2>1 DEF StartMisconfigured, Ends, RunRecord
  <2>2. CASE StartWithoutDir(c)
    BY <1>1, <2>2 DEF StartWithoutDir, Ends, RunRecord
  <2>3. CASE StartNotADir(c) BY <1>1, <2>3 DEF StartNotADir, Ends, RunRecord
  <2>4. CASE Start(c)
    <3>1. run[c].deleted = 0 BY <1>1, <2>4 DEF Start
    <3>2. PICK dryRun \in BOOLEAN, now \in Now :
            /\ now <= clock
            /\ run' = [run EXCEPT
                         ![c] = [NotStarted EXCEPT !.pc = "walking",
                                                   !.dryRun = dryRun,
                                                   !.now = now,
                                                   !.children = Present]]
      BY <2>4 DEF Start
    <3>3. run'[c].deleted = 0 BY <1>1, <3>2 DEF NotStarted
    <3> QED BY <1>1, <3>1, <3>2, <3>3
  <2>5. ASSUME NEW p \in Path, Stat(c, p)
        PROVE  \A d \in Run : run'[d].deleted = run[d].deleted
    BY <1>1, <2>5 DEF Stat, RunRecord
  <2>6. CASE Select(c) BY <1>1, <2>6 DEF Select, RunRecord
  <2>7. CASE Report(c) BY <1>1, <2>7 DEF Report, RunRecord
  <2> QED BY <1>2, <2>1, <2>2, <2>3, <2>4, <2>5, <2>6, <2>7 DEF RunStep
<1>3. ASSUME NEW c \in Run,
             \/ ListFails(c) \/ UnlinkFails(c) \/ Killed(c)
             \/ \E p \in Path : StatFails(c, p)
      PROVE  \A d \in Run : run'[d].deleted = run[d].deleted
  <2>1. CASE ListFails(c) BY <1>1, <2>1 DEF ListFails, Ends, RunRecord
  <2>2. CASE UnlinkFails(c) BY <1>1, <2>2 DEF UnlinkFails, RunRecord
  <2>3. CASE Killed(c) BY <1>1, <2>3 DEF Killed, RunRecord
  <2>4. ASSUME NEW p \in Path, StatFails(c, p)
        PROVE  \A d \in Run : run'[d].deleted = run[d].deleted
    BY <1>1, <2>4 DEF StatFails, RunRecord
  <2> QED BY <1>3, <2>1, <2>2, <2>3, <2>4
<1>4. ASSUME NEW p \in Path, NEW f \in FirstFile, Arrive(p, f)
      PROVE  \A d \in Run : run'[d].deleted = run[d].deleted
  BY <1>1, <1>4 DEF Arrive, RunRecord
<1>5. ASSUME NEW p \in Path, Removed(p)
      PROVE  \A d \in Run : run'[d].deleted = run[d].deleted
  BY <1>5 DEF Removed
<1>6. CASE Tick BY <1>6 DEF Tick
<1>7. CASE UNCHANGED vars BY <1>7 DEF vars
<1> QED BY <1>2, <1>3, <1>4, <1>5, <1>6, <1>7 DEF Next

\* What an unlink does.
LEMMA UnlinkFacts ==
    ASSUME WorldOK, RunsAreGood, NEW c \in Run, Unlink(c)
    PROVE  LET i == NextPending(c)
               p == Target(c).path
           IN  /\ i \in run[c].pending /\ i \in run[c].selected
               /\ i \in DOMAIN run[c].entries
               /\ Target(c) = run[c].entries[i] /\ p \in Path
               /\ run[c].pc = "unlinking"
               /\ run'[c].pending = run[c].pending \ {i}
               /\ UNCHANGED <<dir, clock, faults, arrivals, removals, first,
                              balance>>
               /\ \A d \in Run \ {c} : run'[d] = run[d]
               /\ \A x \in Path : trash'[x] = IF x = p THEN NoFile ELSE trash[x]
               /\ \/ /\ p \in Present /\ Present' = Present \ {p}
                     /\ run'[c].deleted = run[c].deleted + 1
                  \/ /\ p \notin Present /\ Present' = Present
                     /\ run'[c].deleted = run[c].deleted
<1> DEFINE i == NextPending(c)
           p == Target(c).path
<1>1. GoodRun(run[c]) /\ run \in [Run -> RunRecord] BY DEF RunsAreGood
<1>2. run[c].pc = "unlinking" /\ run[c].pending # {} BY DEF Unlink
<1>3. run[c].pending \subseteq Nat BY <1>1, GoodFacts
<1>4. i \in run[c].pending BY <1>2, <1>3, MinIsIn DEF NextPending
<1>5. i \in run[c].selected /\ i \in DOMAIN run[c].entries
      /\ run[c].entries \in Seq(TrashEntry(Path))
  BY <1>1, <1>4 DEF GoodRun, RunRecord
<1>6. Target(c) = run[c].entries[i] BY DEF Target
<1>7. p \in Path
  <2>1. run[c].entries[i] \in TrashEntry(Path) BY <1>5
  <2> QED BY <1>6, <2>1 DEF TrashEntry
<1>8. UNCHANGED <<dir, clock, faults, arrivals, removals, first, balance>>
  BY DEF Unlink, countVars, historyVars
<1>9. run'[c].pending = run[c].pending \ {i}
      /\ \A d \in Run \ {c} : run'[d] = run[d]
  <2> HIDE DEF i
  <2> QED BY <1>1 DEF Unlink, RunRecord, i
<1>10. CASE IsFile(trash[p])
  <2>1. p \in Present BY <1>7, <1>10 DEF Present
  <2>2. trash' = [trash EXCEPT ![p] = NoFile] BY <1>10 DEF Unlink
  <2>3. Present' = Present \ {p} BY <1>7, <2>2, Leaves
  <2>4. run'[c].deleted = run[c].deleted + 1
    BY <1>1, <1>10 DEF Unlink, RunRecord
  <2>5. \A x \in Path : trash'[x] = IF x = p THEN NoFile ELSE trash[x]
    BY <1>7, <2>2 DEF WorldOK
  <2> QED BY <1>2, <1>4, <1>5, <1>6, <1>7, <1>8, <1>9, <2>1, <2>3, <2>4, <2>5
<1>11. CASE ~IsFile(trash[p])
  <2>1. p \notin Present BY <1>11 DEF Present
  <2>2. trash' = trash BY <1>11 DEF Unlink
  <2>3. Present' = Present BY <2>2 DEF Present
  <2>4. run'[c].deleted = run[c].deleted
    BY <1>1, <1>11 DEF Unlink, RunRecord
  <2>5. trash[p] = NoFile
    BY <1>7, <1>11, FileFacts DEF WorldOK
  <2> QED BY <1>2, <1>4, <1>5, <1>6, <1>7, <1>8, <1>9, <2>1, <2>2, <2>3, <2>4,
             <2>5
<1> QED BY <1>10, <1>11

\* Other steps of runs leave the files alone.
LEMMA OnlyUnlinkDeletes ==
    ASSUME NEW c \in Run, RunStep(c), ~Unlink(c)
    PROVE  UNCHANGED <<trash, clock, faults, arrivals, removals, first,
                       balance>>
  BY DEF RunStep, StartMisconfigured, StartWithoutDir, StartNotADir, Start,
         Stat, Select, Report, countVars, historyVars

LEMMA FailuresDeleteNothing ==
    ASSUME NEW c \in Run,
           \/ ListFails(c) \/ UnlinkFails(c) \/ Killed(c)
           \/ \E p \in Path : StatFails(c, p)
    PROVE  UNCHANGED <<dir, trash, clock, arrivals, removals, first, balance>>
  BY DEF ListFails, UnlinkFails, Killed, StatFails, historyVars

LEMMA CreditStep ==
    ASSUME WorldOK, RunsAreGood, RunsAreGood', DeletionsAreCredited,
           [Next]_vars
    PROVE  DeletionsAreCredited'
<1>1. IsFiniteSet(Present)
  BY FileAssumption, FS_Subset, Present \in SUBSET Path DEF Present
<1>2. Cardinality(Present) \in Nat /\ balance \in Int
  BY <1>1, FS_CardinalityType DEF WorldOK
<1>3. Credit(run) = balance - Cardinality(Present) BY CreditNow
<1>4. ASSUME NEW c \in Run, Unlink(c)
      PROVE  DeletionsAreCredited'
  <2> DEFINE p == Target(c).path
  <2>1. balance' = balance /\ \A d \in Run \ {c} : run'[d] = run[d]
    BY <1>4, UnlinkFacts
  <2>2. \/ /\ p \in Present /\ Present' = Present \ {p}
           /\ run'[c].deleted = run[c].deleted + 1
        \/ /\ p \notin Present /\ Present' = Present
           /\ run'[c].deleted = run[c].deleted
    BY <1>4, UnlinkFacts
  <2> HIDE DEF p
  <2>3. ASSUME p \in Present, Present' = Present \ {p},
               run'[c].deleted = run[c].deleted + 1
        PROVE  DeletionsAreCredited'
    <3>1. Credit(run') = Credit(run) + 1 BY <2>1, <2>3, CreditGrows
    <3>2. Cardinality(Present') = Cardinality(Present) - 1
      BY <1>1, <2>3, FS_RemoveElement
    <3> QED BY <1>2, <1>3, <2>1, <3>1, <3>2, CreditNext
  <2>4. ASSUME Present' = Present, run'[c].deleted = run[c].deleted
        PROVE  DeletionsAreCredited'
    <3>1. \A d \in Run : run'[d].deleted = run[d].deleted BY <2>1, <2>4
    <3>2. Credit(run') = Credit(run) BY <3>1, CreditStays
    <3> QED BY <1>3, <2>1, <2>4, <3>2, CreditNext
  <2> QED BY <2>2, <2>3, <2>4
<1>5. ASSUME ~ \E c \in Run : Unlink(c) PROVE DeletionsAreCredited'
  <2>1. Credit(run') = Credit(run) BY <1>5, OnlyUnlinkCounts, CreditStays
  <2>2. ASSUME trash' = trash, balance' = balance
        PROVE  DeletionsAreCredited'
    <3>1. Present' = Present BY <2>2 DEF Present
    <3> QED BY <1>3, <2>1, <2>2, <3>1, CreditNext
  <2>3. ASSUME NEW c \in Run, RunStep(c) PROVE DeletionsAreCredited'
    <3>1. trash' = trash /\ balance' = balance
      BY <1>5, <2>3, OnlyUnlinkDeletes
    <3> QED BY <2>2, <3>1
  <2>4. ASSUME NEW c \in Run,
               \/ ListFails(c) \/ UnlinkFails(c) \/ Killed(c)
               \/ \E p \in Path : StatFails(c, p)
        PROVE  DeletionsAreCredited'
    <3>1. trash' = trash /\ balance' = balance
      BY <2>4, FailuresDeleteNothing
    <3> QED BY <2>2, <3>1
  <2>5. ASSUME NEW p \in Path, NEW f \in FirstFile, Arrive(p, f)
        PROVE  DeletionsAreCredited'
    <3>1. Present' = Present \cup {p}
          /\ balance' = IF p \in Present THEN balance ELSE balance + 1
      BY <2>5, Comes DEF Arrive
    <3>2. CASE p \in Present
      <4>1. Present' = Present BY <3>1, <3>2
      <4> QED BY <1>3, <2>1, <3>1, <3>2, <4>1, CreditNext
    <3>3. CASE p \notin Present
      <4>1. Cardinality(Present') = Cardinality(Present) + 1
        BY <1>1, <3>1, <3>3, FS_AddElement
      <4> QED BY <1>2, <1>3, <2>1, <3>1, <3>3, <4>1, CreditNext
    <3> QED BY <3>2, <3>3
  <2>6. ASSUME NEW p \in Path, Removed(p) PROVE DeletionsAreCredited'
    <3>1. p \in Present /\ Present' = Present \ {p} /\ balance' = balance - 1
      BY <2>6, Leaves DEF Removed
    <3>2. Cardinality(Present') = Cardinality(Present) - 1
      BY <1>1, <3>1, FS_RemoveElement
    <3> QED BY <1>2, <1>3, <2>1, <3>1, <3>2, CreditNext
  <2>7. CASE Tick BY <2>2, <2>7 DEF Tick, historyVars
  <2>8. CASE UNCHANGED vars BY <2>2, <2>8 DEF vars
  <2> QED BY <2>3, <2>4, <2>5, <2>6, <2>7, <2>8 DEF Next
<1> QED BY <1>4, <1>5

LEMMA CreditInit == Init => DeletionsAreCredited
<1> SUFFICES ASSUME Init PROVE DeletionsAreCredited OBVIOUS
<1>1. IsFiniteSet(Present)
  BY FileAssumption, FS_Subset, Present \in SUBSET Path DEF Present
<1>2. Cardinality(Present) \in Nat BY <1>1, FS_CardinalityType
<1>3. balance = Cardinality(Present) /\ run = [c \in Run |-> NotStarted]
  BY DEF Init
<1> DEFINE zero == Deleted(run)
<1>4. \A c \in Run : zero[c] = 0 BY <1>3 DEF Deleted, NotStarted
<1>5. Credit(run) = Sum(zero, Run) BY CreditIsSum
<1> HIDE DEF zero
<1>6. Sum(zero, Run) = 0 BY <1>4, RunAssumption, SumZero
<1> QED BY <1>2, <1>3, <1>5, <1>6, CreditNow

-----------------------------------------------------------------------------
(* What a run knows                                                        *)

\* Files that leave do not matter to a run.
LEMMA SeesFewer ==
    ASSUME NEW r, NEW files, NEW after, SeesAllIn(r, files),
           \A p \in Path : IsFile(after[p]) => after[p] = files[p]
    PROVE  SeesAllIn(r, after)
  BY DEF SeesAllIn, Shows

\* Step of one run that leaves the files alone.
LEMMA OneRunSees ==
    ASSUME RunsSee, NEW c \in Run, NEW r, run' = [run EXCEPT ![c] = r],
           run \in [Run -> RunRecord], trash' = trash, SeesAllIn(r, trash)
    PROVE  RunsSee'
<1>1. \A d \in Run : run'[d] = IF d = c THEN r ELSE run[d] OBVIOUS
<1> QED BY <1>1 DEF RunsSee

\* A run that will not report need not see anything.
LEMMA Silent == ASSUME NEW r, ~MayReport(r), NEW files
                   PROVE  SeesAllIn(r, files)
  BY DEF SeesAllIn

LEMMA StartSees ==
    ASSUME RunsAreGood, RunsSee, NEW c \in Run, Start(c)
    PROVE  RunsSee'
<1>1. PICK dryRun \in BOOLEAN, now \in Now :
        /\ now <= clock
        /\ run' = [run EXCEPT
                     ![c] = [NotStarted EXCEPT !.pc = "walking",
                                               !.dryRun = dryRun,
                                               !.now = now,
                                               !.children = Present]]
  BY DEF Start
<1> DEFINE r == [NotStarted EXCEPT !.pc = "walking", !.dryRun = dryRun,
                                   !.now = now, !.children = Present]
<1>2. r.pc = "walking" /\ r.children = Present BY DEF NotStarted
<1> HIDE DEF r
<1>3. SeesAllIn(r, trash) BY <1>2 DEF SeesAllIn, Present
<1>4. run' = [run EXCEPT ![c] = r] BY <1>1 DEF r
<1>5. trash' = trash /\ run \in [Run -> RunRecord] BY DEF Start, RunsAreGood
<1> QED BY <1>3, <1>4, <1>5, OneRunSees

LEMMA StatSees ==
    ASSUME RunsAreGood, RunsSee, NEW c \in Run, NEW p \in Path, Stat(c, p)
    PROVE  RunsSee'
<1> DEFINE q == run[c]
           e == [path |-> p, mtime |-> trash[p].mtime,
                 size |-> trash[p].size]
           es == IF IsFile(trash[p]) THEN Append(q.entries, e) ELSE q.entries
           r == [q EXCEPT !.children = q.children \ {p}, !.entries = es]
<1>1. GoodRun(q) /\ q \in RunRecord /\ run \in [Run -> RunRecord]
  BY DEF RunsAreGood, GoodRun
<1>2. run' = [run EXCEPT ![c] = r] /\ trash' = trash BY <1>1 DEF Stat
<1>3. q.pc = "walking" /\ p \in q.children BY DEF Stat
<1>4. Shows(e, p, trash[p]) BY DEF Shows
<1> HIDE DEF e
<1>5. q.entries \in Seq(TrashEntry(Path)) BY <1>1 DEF RunRecord
<1>6. IsFile(trash[p]) =>
         Len(q.entries) + 1 \in DOMAIN es /\ es[Len(q.entries) + 1] = e
  BY <1>5
<1>7. \A i \in DOMAIN q.entries : i \in DOMAIN es /\ es[i] = q.entries[i]
  BY <1>5
<1>8. /\ r.pc = "walking" /\ r.entries = es /\ r.children = q.children \ {p}
      /\ r.pending = q.pending /\ r.selected = q.selected
      /\ r.missed = q.missed /\ r.exit = q.exit /\ r.dryRun = q.dryRun
  BY <1>1, <1>3 DEF RunRecord
<1>9. q.selected = {} BY <1>1, <1>3 DEF GoodRun, CountedIn
<1>10. SeesAllIn(q, trash) BY DEF RunsSee
<1>11. ASSUME NEW x \in Path, IsFile(trash[x])
       PROVE  \/ x \in q.missed
              \/ x \in r.children
              \/ \E i \in DOMAIN es : Shows(es[i], x, trash[x])
  <2>1. CASE x = p BY <1>4, <1>6, <1>11, <2>1
  <2>2. CASE x \in q.missed \/ (x # p /\ x \in q.children) BY <1>8, <2>2
  <2>3. CASE x \notin q.missed /\ x # p /\ x \notin q.children
    <3>1. PICK i \in DOMAIN q.entries : Shows(q.entries[i], x, trash[x])
      BY <1>3, <1>10, <1>11, <2>3 DEF SeesAllIn, MayReport
    <3> HIDE DEF es, q
    <3> QED BY <1>7, <3>1
  <2> QED BY <2>1, <2>2, <2>3
<1> HIDE DEF es, q, r
<1>12. SeesAllIn(r, trash)
  <2> SUFFICES ASSUME NEW x \in Path, IsFile(trash[x])
               PROVE  \/ x \in r.missed
                      \/ x \in r.children
                      \/ \E i \in DOMAIN r.entries :
                            /\ Shows(r.entries[i], x, trash[x])
                            /\ i \notin r.selected
    BY <1>8 DEF SeesAllIn
  <2> QED BY <1>8, <1>9, <1>11
<1> QED BY <1>1, <1>2, <1>12, OneRunSees

LEMMA SelectSees ==
    ASSUME RunsAreGood, RunsSee, NEW c \in Run, Select(c)
    PROVE  RunsSee'
<1> DEFINE q == run[c]
           sel == SelectForDeletion(q.entries, q.now)
           pend == IF q.dryRun THEN {} ELSE sel
           next == IF q.dryRun THEN "reporting" ELSE "unlinking"
           r == [q EXCEPT !.selected = sel, !.pending = pend, !.pc = next]
<1>1. q \in RunRecord /\ run \in [Run -> RunRecord] BY DEF RunsAreGood
<1>2. run' = [run EXCEPT ![c] = r] /\ trash' = trash BY <1>1 DEF Select
<1>3. q.pc = "walking" /\ q.children = {} BY DEF Select
<1>4. SeesAllIn(q, trash) BY DEF RunsSee
<1>5. /\ next \in {"reporting", "unlinking"}
      /\ next = "reporting" => pend = {}
      /\ ~q.dryRun => pend = sel
  OBVIOUS
<1> HIDE DEF next, sel, pend
<1>6. /\ r.pc = next /\ r.entries = q.entries
      /\ r.missed = q.missed /\ r.exit = q.exit /\ r.dryRun = q.dryRun
      /\ r.pending = pend /\ r.selected = sel
  BY <1>1 DEF RunRecord
<1> HIDE DEF q, r
<1>7. SeesAllIn(r, trash) BY <1>3, <1>4, <1>5, <1>6 DEF SeesAllIn, MayReport
<1> QED BY <1>1, <1>2, <1>7, OneRunSees

LEMMA ReportSees ==
    ASSUME RunsAreGood, RunsSee, NEW c \in Run, Report(c)
    PROVE  RunsSee'
<1> DEFINE q == run[c]
           k == Len(q.entries) - q.deleted - q.alreadyGone
           r == [q EXCEPT !.pc = "ended", !.exit = 0, !.kept = k]
<1>1. q \in RunRecord /\ run \in [Run -> RunRecord] BY DEF RunsAreGood
<1>2. run' = [run EXCEPT ![c] = r] /\ trash' = trash BY <1>1 DEF Report
<1>3. q.pc = "reporting" \/ (q.pc = "unlinking" /\ q.pending = {})
  BY DEF Report
<1>4. SeesAllIn(q, trash) BY DEF RunsSee
<1> HIDE DEF k
<1>5. /\ r.pc = "ended" /\ r.entries = q.entries
      /\ r.missed = q.missed /\ r.dryRun = q.dryRun
      /\ r.pending = q.pending /\ r.selected = q.selected
  BY <1>1 DEF RunRecord
<1> HIDE DEF q, r
<1>6. SeesAllIn(r, trash) BY <1>3, <1>4, <1>5 DEF SeesAllIn, MayReport
<1> QED BY <1>1, <1>2, <1>6, OneRunSees

LEMMA UnlinkSees ==
    ASSUME WorldOK, RunsAreGood, RunsSee, NEW c \in Run, Unlink(c)
    PROVE  RunsSee'
<1> DEFINE q == run[c]
           r == run'[c]
           i == NextPending(c)
           p == Target(c).path
<1>1. /\ i \in DOMAIN q.entries /\ q.entries[i].path = p
      /\ r.pending = q.pending \ {i} /\ q.pc = "unlinking"
      /\ \A d \in Run \ {c} : run'[d] = run[d]
      /\ \A x \in Path : trash'[x] = IF x = p THEN NoFile ELSE trash[x]
  BY UnlinkFacts
<1>2. ~IsFile(NoFile) BY DEF IsFile, NoFile
<1>3. \A d \in Run \ {c} : SeesAllIn(run'[d], trash')
  <2>1. \A x \in Path : IsFile(trash'[x]) => trash'[x] = trash[x]
    BY <1>1, <1>2
  <2> TAKE d \in Run \ {c}
  <2>2. SeesAllIn(run[d], trash) BY DEF RunsSee
  <2> QED BY <1>1, <2>1, <2>2, SeesFewer
<1>4. q \in RunRecord /\ run \in [Run -> RunRecord] BY DEF RunsAreGood
<1>5. /\ r.pc = q.pc /\ r.entries = q.entries
      /\ r.missed = q.missed /\ r.exit = q.exit /\ r.dryRun = q.dryRun
      /\ r.selected = q.selected
  BY <1>4 DEF Unlink, RunRecord
<1>6. SeesAllIn(q, trash) BY DEF RunsSee
<1> HIDE DEF q, r, i, p
<1>7. SeesAllIn(r, trash')
  <2> SUFFICES ASSUME NEW x \in Path, IsFile(trash'[x]), x \notin r.missed
               PROVE  \E j \in DOMAIN r.entries :
                         /\ Shows(r.entries[j], x, trash'[x])
                         /\ r.dryRun \/ j \notin r.selected \/ j \in r.pending
    BY <1>1, <1>5 DEF SeesAllIn
  <2>1. x # p /\ trash'[x] = trash[x] BY <1>1, <1>2
  <2>2. PICK j \in DOMAIN q.entries :
           /\ Shows(q.entries[j], x, trash[x])
           /\ q.dryRun \/ j \notin q.selected \/ j \in q.pending
    BY <1>1, <1>5, <1>6, <2>1 DEF SeesAllIn, MayReport
  <2>3. j # i BY <1>1, <2>1, <2>2 DEF Shows
  <2> QED BY <1>1, <1>5, <2>1, <2>2, <2>3
<1>8. SeesAllIn(run'[c], trash') BY <1>7 DEF r
<1> QED BY <1>3, <1>8 DEF RunsSee

\* A stat that fails, and an unlink that fails, are no more than a file missed.
LEMMA StatFailsSees ==
    ASSUME RunsAreGood, RunsSee, NEW c \in Run, NEW p \in Path, StatFails(c, p)
    PROVE  RunsSee'
<1> DEFINE q == run[c]
           r == [q EXCEPT !.children = q.children \ {p},
                          !.missed = q.missed \cup {p}]
<1>1. q \in RunRecord /\ run \in [Run -> RunRecord] BY DEF RunsAreGood
<1>2. run' = [run EXCEPT ![c] = r] /\ trash' = trash BY <1>1 DEF StatFails
<1>3. q.pc = "walking" BY DEF StatFails
<1>4. SeesAllIn(q, trash) BY DEF RunsSee
<1>5. /\ r.pc = q.pc /\ r.entries = q.entries /\ r.dryRun = q.dryRun
      /\ r.children = q.children \ {p} /\ r.missed = q.missed \cup {p}
      /\ r.pending = q.pending /\ r.selected = q.selected
  BY <1>1 DEF RunRecord
<1> HIDE DEF q, r
<1>6. SeesAllIn(r, trash) BY <1>3, <1>4, <1>5 DEF SeesAllIn, MayReport
<1> QED BY <1>1, <1>2, <1>6, OneRunSees

LEMMA UnlinkFailsSees ==
    ASSUME RunsAreGood, RunsSee, NEW c \in Run, UnlinkFails(c)
    PROVE  RunsSee'
<1> DEFINE q == run[c]
           i == NextPending(c)
           p == Target(c).path
           r == [q EXCEPT !.pending = q.pending \ {i},
                          !.missed = q.missed \cup {p}]
<1>1. q \in RunRecord /\ run \in [Run -> RunRecord] BY DEF RunsAreGood
<1>2. run' = [run EXCEPT ![c] = r] /\ trash' = trash BY <1>1 DEF UnlinkFails
<1>3. q.pc = "unlinking" /\ p = q.entries[i].path
  BY DEF UnlinkFails, Target
<1>4. SeesAllIn(q, trash) BY DEF RunsSee
<1> HIDE DEF i, p
<1>5. /\ r.pc = q.pc /\ r.entries = q.entries /\ r.dryRun = q.dryRun
      /\ r.missed = q.missed \cup {p}
      /\ r.pending = q.pending \ {i} /\ r.selected = q.selected
  BY <1>1 DEF RunRecord
<1> HIDE DEF q, r
<1>6. SeesAllIn(r, trash)
  <2> SUFFICES ASSUME NEW x \in Path, IsFile(trash[x]), x \notin r.missed
               PROVE  \E j \in DOMAIN r.entries :
                         /\ Shows(r.entries[j], x, trash[x])
                         /\ r.dryRun \/ j \notin r.selected \/ j \in r.pending
    BY <1>3, <1>5 DEF SeesAllIn
  <2>1. x # p BY <1>5
  <2>2. PICK j \in DOMAIN q.entries :
           /\ Shows(q.entries[j], x, trash[x])
           /\ q.dryRun \/ j \notin q.selected \/ j \in q.pending
    BY <1>3, <1>4, <1>5 DEF SeesAllIn, MayReport
  <2>3. j # i BY <1>3, <2>1, <2>2 DEF Shows
  <2> QED BY <1>5, <2>2, <2>3
<1> QED BY <1>1, <1>2, <1>6, OneRunSees

\* A file that arrives is missed by all runs that have listed the directory.
LEMMA ArriveSees ==
    ASSUME WorldOK, RunsAreGood, RunsSee, NEW p \in Path, NEW f, Arrive(p, f)
    PROVE  RunsSee'
<1>1. /\ trash' = [trash EXCEPT ![p] = f]
      /\ run' = [c \in Run |->
                   IF run[c].pc = "idle"
                   THEN run[c]
                   ELSE [run[c] EXCEPT !.missed = run[c].missed \cup {p}]]
  BY DEF Arrive
<1>2. SUFFICES ASSUME NEW c \in Run PROVE SeesAllIn(run'[c], trash')
  BY DEF RunsSee
<1> DEFINE q == run[c]
           r == [q EXCEPT !.missed = q.missed \cup {p}]
<1>3. q \in RunRecord /\ CountedIn(q) /\ SeesAllIn(q, trash)
  BY DEF RunsAreGood, GoodRun, RunsSee
<1>4. CASE q.pc = "idle"
  <2>1. ~MayReport(q) BY <1>3, <1>4 DEF MayReport, CountedIn
  <2> QED BY <1>1, <1>4, <2>1, Silent
<1>5. CASE q.pc # "idle"
  <2>1. /\ r.pc = q.pc /\ r.entries = q.entries /\ r.dryRun = q.dryRun
        /\ r.children = q.children /\ r.missed = q.missed \cup {p}
        /\ r.pending = q.pending /\ r.selected = q.selected
        /\ r.exit = q.exit
    BY <1>3 DEF RunRecord
  <2>2. run'[c] = r BY <1>1, <1>5
  <2>3. \A x \in Path \ {p} : trash'[x] = trash[x] BY <1>1 DEF WorldOK
  <2> HIDE DEF q, r
  <2>4. SeesAllIn(r, trash') BY <1>3, <2>1, <2>3 DEF SeesAllIn, MayReport
  <2> QED BY <2>2, <2>4
<1> QED BY <1>4, <1>5

LEMMA SeesStep ==
    ASSUME WorldOK, RunsAreGood, RunsSee, [Next]_vars
    PROVE  RunsSee'
<1>1. run \in [Run -> RunRecord] BY DEF RunsAreGood
<1>2. ASSUME NEW c \in Run, NEW code, run[c].pc = "idle", Ends(c, code),
             code \in {1, 2} \/ Present = {}, trash' = trash
      PROVE  RunsSee'
  <2> DEFINE r == [run[c] EXCEPT !.pc = "ended", !.exit = code]
  <2>1. run' = [run EXCEPT ![c] = r] BY <1>1, <1>2 DEF Ends
  <2>2. run[c] = NotStarted BY <1>2 DEF RunsAreGood, GoodRun, CountedIn
  <2>3. r.pc = "ended" /\ r.exit = code /\ r.pending = {}
    BY <2>2 DEF NotStarted
  <2> HIDE DEF r
  <2>4. CASE code \in {1, 2}
    <3>1. ~MayReport(r) BY <2>3, <2>4 DEF MayReport
    <3> QED BY <1>1, <1>2, <2>1, <3>1, Silent, OneRunSees
  <2>5. CASE Present = {}
    <3>1. SeesAllIn(r, trash) BY <2>3, <2>5 DEF SeesAllIn, Present
    <3> QED BY <1>1, <1>2, <2>1, <3>1, OneRunSees
  <2> QED BY <1>2, <2>4, <2>5
<1>3. ASSUME NEW c \in Run, RunStep(c) PROVE RunsSee'
  <2>1. CASE StartMisconfigured(c) BY <1>2, <2>1 DEF StartMisconfigured
  <2>2. CASE StartWithoutDir(c)
    BY <1>2, <2>2 DEF StartWithoutDir, WorldOK
  <2>3. CASE StartNotADir(c) BY <1>2, <2>3 DEF StartNotADir
  <2>4. CASE Start(c) BY <2>4, StartSees
  <2>5. ASSUME NEW p \in Path, Stat(c, p) PROVE RunsSee'
    BY <2>5, StatSees
  <2>6. CASE Select(c) BY <2>6, SelectSees
  <2>7. CASE Unlink(c) BY <2>7, UnlinkSees
  <2>8. CASE Report(c) BY <2>8, ReportSees
  <2> QED BY <1>3, <2>1, <2>2, <2>3, <2>4, <2>5, <2>6, <2>7, <2>8 DEF RunStep
<1>4. ASSUME NEW c \in Run,
             \/ ListFails(c) \/ UnlinkFails(c) \/ Killed(c)
             \/ \E p \in Path : StatFails(c, p)
      PROVE  RunsSee'
  <2>1. CASE ListFails(c) BY <1>2, <2>1 DEF ListFails
  <2>2. CASE UnlinkFails(c) BY <2>2, UnlinkFailsSees
  <2>3. CASE Killed(c)
    <3>1. /\ ~MayReport(run'[c]) /\ trash' = trash
          /\ \A d \in Run \ {c} : run'[d] = run[d]
      BY <1>1, <2>3
         DEF Killed, MayReport, RunRecord, RunsAreGood, GoodRun, CountedIn
    <3>2. SeesAllIn(run'[c], trash') BY <3>1, Silent
    <3> QED BY <3>1, <3>2 DEF RunsSee
  <2>4. ASSUME NEW p \in Path, StatFails(c, p) PROVE RunsSee'
    BY <2>4, StatFailsSees
  <2> QED BY <1>4, <2>1, <2>2, <2>3, <2>4
<1>5. ASSUME NEW p \in Path, NEW f \in FirstFile, Arrive(p, f)
      PROVE  RunsSee'
  BY <1>5, ArriveSees
<1>6. ASSUME run' = run,
             \A p \in Path : IsFile(trash'[p]) => trash'[p] = trash[p]
      PROVE  RunsSee'
  BY <1>6, SeesFewer DEF RunsSee
<1>7. ASSUME NEW p \in Path, Removed(p) PROVE RunsSee'
  <2>1. run' = run /\ trash' = [trash EXCEPT ![p] = NoFile]
    BY <1>7 DEF Removed
  <2>2. ~IsFile(NoFile) BY DEF IsFile, NoFile
  <2>3. \A x \in Path : IsFile(trash'[x]) => trash'[x] = trash[x]
    BY <2>1, <2>2 DEF WorldOK
  <2> QED BY <1>6, <2>1, <2>3
<1>8. CASE Tick BY <1>6, <1>8 DEF Tick
<1>9. CASE UNCHANGED vars BY <1>6, <1>9 DEF vars
<1> QED BY <1>3, <1>4, <1>5, <1>7, <1>8, <1>9 DEF Next

-----------------------------------------------------------------------------
(* The files that were there at first                                      *)

\* Step of one run that does not touch the files.
LEMMA OneRunSeen ==
    ASSUME WorldOK, RunsAreGood, FirstIsSeen, NEW c \in Run,
           UNCHANGED <<trash, clock, first, arrivals>>,
           \A d \in Run \ {c} : run'[d] = run[d],
           arrivals = 0 /\ FirstIsSeen =>
              run'[c].now <= clock /\ ListsFirst(run'[c])
    PROVE  FirstIsSeen'
<1>1. SUFFICES ASSUME arrivals = 0
               PROVE  /\ \A p \in Path : trash[p] \in {first[p], NoFile}
                      /\ \A d \in Run :
                            run'[d].now <= clock /\ ListsFirst(run'[d])
  BY DEF FirstIsSeen, ListsFirst
<1> QED BY <1>1 DEF FirstIsSeen

LEMMA SeenStep ==
    ASSUME WorldOK, RunsAreGood, FirstIsSeen, [Next]_vars
    PROVE  FirstIsSeen'
<1>1. run \in [Run -> RunRecord] BY DEF RunsAreGood
<1>2. clock \in Nat BY RunAssumption DEF WorldOK
\* Most steps leave the list and the time of a run alone.
<1>3. ASSUME NEW c \in Run, UNCHANGED <<trash, clock, first, arrivals>>,
             \A d \in Run \ {c} : run'[d] = run[d],
             run'[c].now = run[c].now, run'[c].entries = run[c].entries
      PROVE  FirstIsSeen'
  <2>1. arrivals = 0 => run'[c].now <= clock /\ ListsFirst(run'[c])
    BY <1>3 DEF FirstIsSeen, ListsFirst
  <2> QED BY <1>3, <2>1, OneRunSeen
<1>4. ASSUME NEW c \in Run, RunStep(c) PROVE FirstIsSeen'
  <2>1. CASE StartMisconfigured(c)
    BY <1>1, <1>3, <2>1
       DEF StartMisconfigured, Ends, RunRecord, countVars, historyVars
  <2>2. CASE StartWithoutDir(c)
    BY <1>1, <1>3, <2>2
       DEF StartWithoutDir, Ends, RunRecord, countVars, historyVars
  <2>3. CASE StartNotADir(c)
    BY <1>1, <1>3, <2>3
       DEF StartNotADir, Ends, RunRecord, countVars, historyVars
  <2>4. CASE Start(c)
    <3>1. PICK dryRun \in BOOLEAN, now \in Now :
            /\ now <= clock
            /\ run' = [run EXCEPT
                         ![c] = [NotStarted EXCEPT !.pc = "walking",
                                                   !.dryRun = dryRun,
                                                   !.now = now,
                                                   !.children = Present]]
      BY <2>4 DEF Start
    <3>2. run'[c].now = now /\ now <= clock /\ run'[c].entries = <<>>
          /\ \A d \in Run \ {c} : run'[d] = run[d]
      BY <1>1, <3>1 DEF NotStarted
    <3>3. UNCHANGED <<trash, clock, first, arrivals>>
      BY <2>4 DEF Start, countVars, historyVars
    <3>4. run'[c].now <= clock /\ ListsFirst(run'[c])
      BY <1>2, <3>2 DEF ListsFirst
    <3> QED BY <3>2, <3>3, <3>4, OneRunSeen
  <2>5. ASSUME NEW p \in Path, Stat(c, p) PROVE FirstIsSeen'
    <3> DEFINE q == run[c]
               e == [path |-> p, mtime |-> trash[p].mtime,
                     size |-> trash[p].size]
    <3>1. /\ UNCHANGED <<trash, clock, first, arrivals>>
          /\ \A d \in Run \ {c} : run'[d] = run[d]
          /\ run'[c].now = q.now
          /\ run'[c].entries =
                IF IsFile(trash[p]) THEN Append(q.entries, e) ELSE q.entries
      BY <1>1, <2>5 DEF Stat, RunRecord, countVars, historyVars
    <3>2. q.entries \in Seq(TrashEntry(Path)) BY <1>1 DEF RunRecord
    <3>3. e.path = p /\ e.mtime = trash[p].mtime /\ e.size = trash[p].size
      OBVIOUS
    <3> HIDE DEF e
    <3>4. \A i \in DOMAIN run'[c].entries :
             \/ i \in DOMAIN q.entries /\ run'[c].entries[i] = q.entries[i]
             \/ IsFile(trash[p]) /\ run'[c].entries[i] = e
      BY <3>1, <3>2
    <3>5. ASSUME arrivals = 0
          PROVE  run'[c].now <= clock /\ ListsFirst(run'[c])
      <4>1. IsFile(trash[p]) => trash[p] = first[p]
        <5>1. ~IsFile(NoFile) BY DEF IsFile, NoFile
        <5> QED BY <3>5, <5>1 DEF FirstIsSeen
      <4>2. q.now <= clock /\ ListsFirst(q) BY <3>5 DEF FirstIsSeen
      <4>3. ListsFirst(run'[c])
        <5> SUFFICES ASSUME NEW i \in DOMAIN run'[c].entries
                     PROVE  LET x == run'[c].entries[i]
                            IN  /\ IsFile(first[x.path])
                                /\ x.mtime = first[x.path].mtime
                                /\ x.size = first[x.path].size
          BY DEF ListsFirst
        <5>1. CASE i \in DOMAIN q.entries
                   /\ run'[c].entries[i] = q.entries[i]
          BY <4>2, <5>1 DEF ListsFirst
        <5>2. CASE IsFile(trash[p]) /\ run'[c].entries[i] = e
          BY <3>3, <4>1, <5>2
        <5> QED BY <3>4, <5>1, <5>2
      <4> QED BY <3>1, <4>2, <4>3
    <3> QED BY <3>1, <3>5, OneRunSeen
  <2>6. CASE Select(c)
    BY <1>1, <1>3, <2>6 DEF Select, RunRecord, countVars, historyVars
  <2>7. CASE Unlink(c)
    <3>1. /\ UNCHANGED <<clock, first, arrivals>>
          /\ \A d \in Run \ {c} : run'[d] = run[d]
          /\ \A x \in Path : trash'[x] \in {trash[x], NoFile}
      BY <2>7, UnlinkFacts
    <3>2. run'[c].now = run[c].now /\ run'[c].entries = run[c].entries
      BY <1>1, <2>7 DEF Unlink, RunRecord
    <3>3. SUFFICES ASSUME arrivals = 0
                   PROVE  /\ \A p \in Path : trash'[p] \in {first[p], NoFile}
                          /\ \A d \in Run :
                                run'[d].now <= clock /\ ListsFirst(run'[d])
      BY <3>1 DEF FirstIsSeen, ListsFirst
    <3>4. \A p \in Path : trash'[p] \in {first[p], NoFile}
      BY <3>1, <3>3 DEF FirstIsSeen
    <3>5. \A d \in Run : run'[d].now <= clock /\ ListsFirst(run'[d])
      BY <3>1, <3>2, <3>3 DEF FirstIsSeen, ListsFirst
    <3> QED BY <3>4, <3>5
  <2>8. CASE Report(c)
    BY <1>1, <1>3, <2>8 DEF Report, RunRecord, countVars, historyVars
  <2> QED BY <1>4, <2>1, <2>2, <2>3, <2>4, <2>5, <2>6, <2>7, <2>8 DEF RunStep
<1>5. ASSUME NEW c \in Run,
             \/ ListFails(c) \/ UnlinkFails(c) \/ Killed(c)
             \/ \E p \in Path : StatFails(c, p)
      PROVE  FirstIsSeen'
  <2>1. CASE ListFails(c)
    BY <1>1, <1>3, <2>1 DEF ListFails, Ends, RunRecord, historyVars
  <2>2. CASE UnlinkFails(c)
    BY <1>1, <1>3, <2>2 DEF UnlinkFails, RunRecord, historyVars
  <2>3. CASE Killed(c)
    BY <1>1, <1>3, <2>3 DEF Killed, RunRecord, historyVars
  <2>4. ASSUME NEW p \in Path, StatFails(c, p) PROVE FirstIsSeen'
    BY <1>1, <1>3, <2>4 DEF StatFails, RunRecord, historyVars
  <2> QED BY <1>5, <2>1, <2>2, <2>3, <2>4
<1>6. ASSUME NEW p \in Path, NEW f \in FirstFile, Arrive(p, f)
      PROVE  FirstIsSeen'
  <2>1. arrivals \in Nat BY BoundAssumption DEF WorldOK
  <2>2. arrivals' # 0 BY <1>6, <2>1 DEF Arrive
  <2> QED BY <2>2 DEF FirstIsSeen
<1>7. ASSUME UNCHANGED <<run, first, arrivals>>, clock <= clock',
             clock' \in Nat,
             \A x \in Path : trash'[x] \in {trash[x], NoFile}
      PROVE  FirstIsSeen'
  <2>1. \A d \in Run : run[d].now \in Nat
    <3> TAKE d \in Run
    <3>1. run[d].now \in Now \/ run[d].now = 0 BY <1>1 DEF RunRecord
    <3>2. Now \subseteq Nat /\ 0 \in Nat BY RunAssumption
    <3> QED BY ONLY <3>1, <3>2
  <2>2. \A d \in Run : run[d].now <= clock => run[d].now <= clock'
    BY <1>2, <1>7, <2>1
  <2> QED BY <1>7, <2>2 DEF FirstIsSeen, ListsFirst
<1>8. ASSUME NEW p \in Path, Removed(p) PROVE FirstIsSeen'
  <2>1. UNCHANGED <<run, first, arrivals, clock>>
        /\ \A x \in Path : trash'[x] \in {trash[x], NoFile}
    BY <1>8 DEF Removed, WorldOK
  <2> QED BY <1>2, <1>7, <2>1
<1>9. CASE Tick
  <2>1. clock' = clock + 1
        /\ UNCHANGED <<run, trash, first, arrivals>>
    BY <1>9 DEF Tick, countVars, historyVars
  <2> QED BY <1>2, <1>7, <2>1
<1>10. CASE UNCHANGED vars BY <1>2, <1>7, <1>10 DEF vars
<1> QED BY <1>4, <1>5, <1>6, <1>8, <1>9, <1>10 DEF Next

-----------------------------------------------------------------------------
(* What a run deletes                                                      *)

FileBytes(files, S) == MapThenSumSet(LAMBDA p : files[p].size, S)
FileSizes(files) == [p \in Path |-> files[p].size]

LEMMA FileBytesIsSum ==
    ASSUME NEW files, NEW S \in SUBSET Path
    PROVE  FileBytes(files, S) = Sum(FileSizes(files), S)
<1> DEFINE it == CHOOSE iter :
             iter = [s \in SUBSET S |->
                       IF s = {} THEN 0
                       ELSE files[First(s)].size + iter[s \ {First(s)}]]
<1>1. FileBytes(files, S) = it[S]
  BY DEF FileBytes, MapThenSumSet, MapThenFoldSet, First
<1>2. \A iter : IsSum(iter, FileSizes(files), S)
                  <=> iter = [s \in SUBSET S |->
                        IF s = {} THEN 0
                        ELSE files[First(s)].size + iter[s \ {First(s)}]]
  <2>1. \A s \in SUBSET S :
           s # {} => FileSizes(files)[First(s)] = files[First(s)].size
    BY FirstIsIn DEF FileSizes
  <2> QED BY <2>1 DEF IsSum
<1>3. IsFiniteSet(S) BY FileAssumption, FS_Subset
<1>4. \E iter : IsSum(iter, FileSizes(files), S) BY <1>3, IsSumExists
<1>5. IsSum(it, FileSizes(files), S) BY <1>2, <1>4
<1> HIDE DEF it
<1> QED BY <1>1, <1>3, <1>5, SumIs

\* Why a file that was there at first may be gone.
Asked(p) ==
    \/ first[p].mtime < clock - TTL
    \/ FileBytes(first, AtLeastAsYoung(p)) > MaxBytes

LEMMA SelectedIsAsked ==
    ASSUME WorldOK, RunsAreGood, FirstIsSeen, arrivals = 0,
           NEW c \in Run, run[c].pc = "unlinking",
           NEW i \in run[c].selected
    PROVE  Asked(run[c].entries[i].path)
<1> DEFINE r == run[c]
           p == r.entries[i].path
<1>1. r \in RunRecord /\ GoodRun(r) BY DEF RunsAreGood, GoodRun
<1>2. /\ r.entries \in Seq(TrashEntry(Path)) /\ i \in DOMAIN r.entries
      /\ DistinctIn(r) /\ r.selected = SelectForDeletion(r.entries, r.now)
  BY <1>1 DEF GoodRun, RunRecord, SelectedIn
<1>3. r.now <= clock /\ ListsFirst(r) BY DEF FirstIsSeen
<1>4. /\ clock \in Nat /\ r.now \in Nat
  <2>1. r.now \in Now \/ r.now = 0 BY <1>1 DEF RunRecord
  <2>2. clock \in Now BY DEF WorldOK
  <2>3. Now \subseteq Nat /\ 0 \in Nat BY RunAssumption
  <2> QED BY ONLY <2>1, <2>2, <2>3
<1>5. \A j \in DOMAIN r.entries :
         /\ r.entries[j].path \in Path /\ r.entries[j].mtime \in Nat
         /\ r.entries[j].size \in Nat
  <2> TAKE j \in DOMAIN r.entries
  <2>1. r.entries[j] \in TrashEntry(Path) BY <1>2
  <2> QED BY <2>1 DEF TrashEntry
<1>6. \A j \in DOMAIN r.entries :
         LET x == first[r.entries[j].path]
         IN  IsFile(x) /\ r.entries[j].mtime = x.mtime
             /\ r.entries[j].size = x.size
  BY <1>3 DEF ListsFirst
<1>7. first[p].mtime = r.entries[i].mtime BY <1>2, <1>6
<1> DEFINE expired == ExpiredFiles(r.entries, r.now)
           S == DOMAIN r.entries \ expired
<1>8. i \in expired \/ i \in OverCap(r.entries, S)
  BY <1>2 DEF SelectForDeletion
<1>9. CASE i \in expired
  <2>1. r.entries[i].mtime < r.now - TTL BY <1>9 DEF ExpiredFiles
  <2>2. r.entries[i].mtime \in Nat BY <1>2, <1>5
  <2> HIDE DEF r
  <2>3. r.entries[i].mtime < clock - TTL
    BY <1>3, <1>4, <2>1, <2>2, PolicyAssumption
  <2>4. first[p].mtime < clock - TTL BY <1>7, <2>3
  <2> QED BY <2>4 DEF Asked, r
<1>10. ASSUME i \in OverCap(r.entries, S) PROVE Asked(p)
  <2>1. PICK T \in SUBSET S :
           /\ \A j \in T : r.entries[j].mtime >= r.entries[i].mtime
           /\ Sum(Sizes(r.entries), T) > MaxBytes
    <3>1. S \in SUBSET DOMAIN r.entries OBVIOUS
    <3> HIDE DEF S, r
    <3> QED BY <1>2, <1>10, <3>1, OverCapNeeds
  <2> DEFINE young == AtLeastAsYoung(p)
             f == Sizes(r.entries)
             g == FileSizes(first)
             h == [j \in T |-> r.entries[j].path]
  <2>2. T \in SUBSET DOMAIN r.entries OBVIOUS
  <2>3. young \in SUBSET Path BY DEF AtLeastAsYoung
  <2>4. IsFiniteSet(young) BY <2>3, FileAssumption, FS_Subset
  <2>5. IsFiniteSet(T) BY <1>2, <2>2, ListFacts, FS_Subset
  <2>6. \A x \in Path : g[x] = first[x].size /\ g[x] \in Nat
    <3> TAKE x \in Path
    <3>1. first[x] \in FirstFile \cup {NoFile} BY DEF WorldOK
    <3> QED BY <3>1, FileFacts DEF FileSizes
  <2>7. \A j \in T : h[j] \in young /\ f[j] = g[h[j]]
    <3> TAKE j \in T
    <3>1. h[j] = r.entries[j].path /\ h[j] \in Path BY <1>5, <2>2
    <3>2. IsFile(first[h[j]]) /\ first[h[j]].mtime >= first[p].mtime
      BY <1>6, <1>7, <2>1, <2>2, <3>1
    <3>3. f[j] = r.entries[j].size BY <2>2 DEF Sizes
    <3>4. r.entries[j].size = first[h[j]].size BY <1>6, <2>2, <3>1
    <3> QED BY <2>6, <3>1, <3>2, <3>3, <3>4 DEF AtLeastAsYoung
  <2>8. \A j, k \in T : h[j] = h[k] => j = k
    BY <1>2, <2>2 DEF DistinctIn
  <2>9. \A x \in young : g[x] \in Nat BY <2>3, <2>6
  <2>10. FileBytes(first, young) = Sum(g, young) BY <2>3, FileBytesIsSum
  <2>11. Sum(f, T) > MaxBytes BY <2>1
  <2> HIDE DEF young, f, g, h
  <2>12. Sum(f, T) <= Sum(g, young)
    BY <2>4, <2>5, <2>7, <2>8, <2>9, SumInjection
  <2>13. Sum(f, T) \in Nat /\ Sum(g, young) \in Nat
    <3>1. \A j \in T : f[j] \in Nat BY <2>7, <2>9
    <3> QED BY <2>4, <2>5, <2>9, <3>1, SumType
  <2>14. FileBytes(first, young) > MaxBytes
    BY <2>10, <2>11, <2>12, <2>13, PolicyAssumption
  <2> QED BY <2>14 DEF Asked, young
<1> QED BY <1>8, <1>9, <1>10

NoneUnasked ==
    arrivals = 0 /\ removals = 0 =>
        \A p \in Path : IsFile(first[p]) /\ ~IsFile(trash[p]) => Asked(p)

LEMMA NoneUnaskedIsIt == OverlappingRunsDoNotOverdelete <=> NoneUnasked
  BY DEF OverlappingRunsDoNotOverdelete, NoneUnasked, Asked, FileBytes,
         MapThenSumSet, MapThenFoldSet

LEMMA NoneUnaskedStep ==
    ASSUME WorldOK, RunsAreGood, FirstIsSeen, NoneUnasked, [Next]_vars
    PROVE  NoneUnasked'
<1>1. ASSUME UNCHANGED <<arrivals, removals, first, clock>>,
             \A p \in Path : IsFile(first[p]) /\ ~IsFile(trash'[p])
                => ~IsFile(trash[p]) \/ (arrivals = 0 => Asked(p))
      PROVE  NoneUnasked'
  <2>1. \A p \in Path : Asked(p)' <=> Asked(p)
    BY <1>1 DEF Asked, FileBytes, AtLeastAsYoung, MapThenSumSet, MapThenFoldSet
  <2> QED BY <1>1, <2>1 DEF NoneUnasked
<1>2. ASSUME NEW c \in Run, RunStep(c) PROVE NoneUnasked'
  <2>1. CASE Unlink(c)
    <3> DEFINE p == Target(c).path
               i == NextPending(c)
    <3>1. /\ UNCHANGED <<arrivals, removals, first, clock>>
          /\ \A x \in Path : trash'[x] = IF x = p THEN NoFile ELSE trash[x]
          /\ i \in run[c].selected /\ p = run[c].entries[i].path
          /\ run[c].pc = "unlinking"
      BY <2>1, UnlinkFacts
    <3>2. arrivals = 0 => Asked(p) BY <3>1, SelectedIsAsked
    <3> HIDE DEF p, i
    <3> QED BY <1>1, <3>1, <3>2
  <2>2. ASSUME ~Unlink(c) PROVE NoneUnasked'
    BY <1>1, <1>2, <2>2, OnlyUnlinkDeletes
  <2> QED BY <2>1, <2>2
<1>3. ASSUME NEW c \in Run,
             \/ ListFails(c) \/ UnlinkFails(c) \/ Killed(c)
             \/ \E p \in Path : StatFails(c, p)
      PROVE  NoneUnasked'
  BY <1>1, <1>3, FailuresDeleteNothing
<1>4. arrivals \in Nat /\ removals \in Nat BY BoundAssumption DEF WorldOK
<1>5. ASSUME NEW p \in Path, NEW f \in FirstFile, Arrive(p, f)
      PROVE  NoneUnasked'
  <2>1. arrivals' # 0 BY <1>4, <1>5 DEF Arrive
  <2> QED BY <2>1 DEF NoneUnasked
<1>6. ASSUME NEW p \in Path, Removed(p) PROVE NoneUnasked'
  <2>1. removals' # 0 BY <1>4, <1>6 DEF Removed
  <2> QED BY <2>1 DEF NoneUnasked
<1>7. CASE Tick
  <2>1. clock' = clock + 1 /\ clock \in Nat
        /\ UNCHANGED <<trash, first, arrivals, removals>>
    BY <1>7, RunAssumption DEF Tick, WorldOK, countVars, historyVars
  <2>2. \A p \in Path : Asked(p) => Asked(p)'
    <3> TAKE p \in Path
    <3>1. first[p].mtime \in Nat
      <4>1. first[p] \in FirstFile \cup {NoFile} BY DEF WorldOK
      <4> QED BY <4>1, FileFacts
    <3>2. FileBytes(first, AtLeastAsYoung(p))'
            = FileBytes(first, AtLeastAsYoung(p))
      BY <2>1 DEF FileBytes, AtLeastAsYoung, MapThenSumSet, MapThenFoldSet
    <3>3. first[p].mtime < clock - TTL => first'[p].mtime < clock' - TTL
      BY <2>1, <3>1, PolicyAssumption
    <3> QED BY <3>2, <3>3 DEF Asked
  <2> QED BY <2>1, <2>2 DEF NoneUnasked
<1>8. CASE UNCHANGED vars BY <1>1, <1>8 DEF vars
<1> QED BY <1>2, <1>3, <1>5, <1>6, <1>7, <1>8 DEF Next

-----------------------------------------------------------------------------
(* What a run leaves                                                       *)

LEMMA RunLeaves ==
    ASSUME WorldOK, RunsAreGood, RunsSee,
           NEW c \in Run, run[c].exit = 0, ~run[c].dryRun,
           NEW rest, rest = Present \ run[c].missed
    PROVE  /\ FileBytes(trash, rest) <= MaxBytes
           /\ \A p \in rest : trash[p].mtime >= run[c].now - TTL
<1> DEFINE r == run[c]
           files == r.entries
           kept == DOMAIN files \ SelectForDeletion(files, r.now)
<1>1. r \in RunRecord /\ GoodRun(r) BY DEF RunsAreGood, GoodRun
<1>2. r.pc = "ended" BY <1>1 DEF GoodRun, CountedIn
<1>3. /\ files \in Seq(TrashEntry(Path))
      /\ r.selected = SelectForDeletion(files, r.now)
  BY <1>1, <1>2 DEF GoodRun, RunRecord, SelectedIn
<1>4. r.now \in Int
  <2>1. r.now \in Now \/ r.now = 0 BY <1>1 DEF RunRecord
  <2>2. Now \subseteq Nat /\ 0 \in Nat BY RunAssumption
  <2>3. r.now \in Nat BY ONLY <2>1, <2>2
  <2> QED BY <2>3
<1>5. /\ Bytes(files, kept) <= MaxBytes
      /\ \A i \in kept : files[i].mtime >= r.now - TTL
  BY <1>3, <1>4, SelectionFits
<1>6. r.pending = {} /\ SeesAllIn(r, trash)
  BY <1>2 DEF RunsSee, SeesAllIn, MayReport
<1>7. \A p \in rest : \E i \in kept : Shows(files[i], p, trash[p])
  BY <1>2, <1>3, <1>6 DEF SeesAllIn, MayReport, Present
<1>8. /\ IsFiniteSet(DOMAIN files)
      /\ \A i \in DOMAIN files :
            Sizes(files)[i] = files[i].size /\ Sizes(files)[i] \in Nat
  BY <1>3, ListFacts
<1>9. kept \in SUBSET DOMAIN files OBVIOUS
<1>10. IsFiniteSet(kept) BY <1>8, <1>9, FS_Subset
<1>11. Bytes(files, kept) = Sum(Sizes(files), kept)
  BY <1>9, <1>10, BytesIsSum
<1>12. IsFiniteSet(rest) /\ rest \in SUBSET Path
  BY FileAssumption, FS_Subset, rest \in SUBSET Path DEF Present
<1>13. FileBytes(trash, rest) = Sum(FileSizes(trash), rest)
  BY <1>12, FileBytesIsSum
<1> DEFINE f == FileSizes(trash)
           g == Sizes(files)
           h == [p \in rest |->
                   CHOOSE i \in kept : Shows(files[i], p, trash[p])]
<1>14. \A p \in rest : h[p] \in kept /\ Shows(files[h[p]], p, trash[p])
  <2> HIDE DEF kept, files
  <2> QED BY <1>7
<1>15. \A p \in rest : f[p] = trash[p].size BY <1>12 DEF FileSizes
<1> HIDE DEF h, f, g, kept, files, r
<1>16. \A p \in rest : h[p] \in kept /\ f[p] = g[h[p]]
  BY <1>8, <1>9, <1>14, <1>15 DEF Shows, g
<1>17. \A p, q \in rest : h[p] = h[q] => p = q BY <1>14 DEF Shows
<1>18. \A i \in kept : g[i] \in Nat BY <1>8, <1>9 DEF g
<1>19. Sum(f, rest) <= Sum(g, kept)
  BY <1>10, <1>12, <1>16, <1>17, <1>18, SumInjection
<1>20. Sum(f, rest) \in Nat /\ Sum(g, kept) \in Nat
  <2>1. \A p \in rest : f[p] \in Nat BY <1>16, <1>18
  <2> QED BY <1>10, <1>12, <1>18, <2>1, SumType
<1>21. Sum(g, kept) <= MaxBytes BY <1>5, <1>11 DEF g
<1>22. FileBytes(trash, rest) <= MaxBytes
  BY <1>13, <1>19, <1>20, <1>21, PolicyAssumption DEF f
<1>23. \A p \in rest : trash[p].mtime >= r.now - TTL
  BY <1>5, <1>14 DEF Shows
<1> QED BY <1>22, <1>23 DEF r

LEMMA RunConvergesHolds ==
    ASSUME WorldOK, RunsAreGood, RunsSee
    PROVE  RunConverges
<1> SUFFICES ASSUME NEW c \in Run,
                    run[c].exit = 0, ~run[c].dryRun
             PROVE  Converged(run[c].now, Present \ run[c].missed)
  BY DEF RunConverges
<1>1. /\ FileBytes(trash, Present \ run[c].missed) <= MaxBytes
      /\ \A p \in Present \ run[c].missed : trash[p].mtime >= run[c].now - TTL
  BY RunLeaves
<1> QED BY <1>1 DEF Converged, TrashBytes, FileBytes, MapThenSumSet,
                    MapThenFoldSet

-----------------------------------------------------------------------------
(* The theorems                                                            *)

LEMMA InitIInv == Init => IInv
<1> SUFFICES ASSUME Init PROVE IInv OBVIOUS
<1>1. TypeOK /\ Counted /\ SelectionIsThePolicys /\ EntriesAreDistinct
  BY InitLocal
<1>2. DeletionsAreCredited BY CreditInit
<1>3. first = trash /\ \A c \in Run : run[c] = NotStarted BY DEF Init
<1>4. RunsSee BY <1>3, Silent DEF RunsSee, NotStarted, MayReport
<1>5. FirstIsSeen
  <2>1. clock \in Now /\ Now \subseteq Nat BY RunAssumption DEF TypeOK, Init
  <2>2. 0 <= clock BY <2>1
  <2> QED BY <1>3, <2>2 DEF FirstIsSeen, ListsFirst, NotStarted
<1>6. OverlappingRunsDoNotOverdelete
  BY <1>3, NoneUnaskedIsIt DEF NoneUnasked
<1> QED BY <1>1, <1>2, <1>4, <1>5, <1>6 DEF IInv

LEMMA IInvStep == IInv /\ [Next]_vars => IInv'
<1> SUFFICES ASSUME IInv, [Next]_vars PROVE IInv' OBVIOUS
<1>1. WorldOK /\ RunsAreGood BY TypeParts DEF IInv
<1>2. WorldOK' BY <1>1, WorldStaysOK
<1>3. RunsAreGood' BY <1>1, RunsStayGood, TypeParts
<1>4. (TypeOK /\ Counted /\ SelectionIsThePolicys /\ EntriesAreDistinct)'
  BY <1>2, <1>3
     DEF WorldOK, RunsAreGood, TypeOK, GoodRun, Counted,
         SelectionIsThePolicys, EntriesAreDistinct, Present
<1>5. RunsSee' BY <1>1, SeesStep DEF IInv
<1>6. FirstIsSeen' BY <1>1, SeenStep DEF IInv
<1>7. DeletionsAreCredited' BY <1>1, <1>3, CreditStep DEF IInv
<1>8. NoneUnasked' BY <1>1, NoneUnaskedIsIt, NoneUnaskedStep DEF IInv
<1>9. OverlappingRunsDoNotOverdelete'
  BY <1>8 DEF OverlappingRunsDoNotOverdelete, NoneUnasked, Asked, FileBytes,
              MapThenSumSet, MapThenFoldSet
<1> QED BY <1>4, <1>5, <1>6, <1>7, <1>9 DEF IInv

LEMMA Invariance == Spec => []IInv
<1> QED BY InitIInv, IInvStep, PTL DEF Spec

\* Every variable has its type; so the report of a run never counts more
\* files deleted or gone than the walk listed (`kept` is not negative).
THEOREM TypeCorrect == Spec => []TypeOK
<1>1. IInv => TypeOK BY DEF IInv
<1> QED BY <1>1, Invariance, PTL

\* The `deleted` of the reports of amain add up to the files that left trash/
\* without the operator, however many runs overlap.
THEOREM Credited == Spec => []DeletionsAreCredited
<1>1. IInv => DeletionsAreCredited BY DEF IInv
<1> QED BY <1>1, Invariance, PTL

\* When a run of amain reports, what it has not missed of trash/ holds nothing
\* past its time to live and fits the cap, whatever the other runs and the
\* operator delete meanwhile and whichever of its own calls failed.
THEOREM Converges == Spec => []RunConverges
<1>1. IInv => RunConverges BY RunConvergesHolds, TypeParts DEF IInv
<1> QED BY <1>1, Invariance, PTL

\* Runs that overlap delete only what the policy asks for of the files that
\* were there at first, for any number of runs, although each selects from a
\* list that the others make stale.
THEOREM NoOverdeletion == Spec => []OverlappingRunsDoNotOverdelete
<1>1. IInv => OverlappingRunsDoNotOverdelete BY DEF IInv
<1> QED BY <1>1, Invariance, PTL
=============================================================================
