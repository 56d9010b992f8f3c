------------------------ MODULE RetentionLoopProofs ------------------------
(***************************************************************************)
(* Theorems about RetentionLoop: for any list of files, any time and any   *)
(* limits the loops of select_for_deletion compute SelectForDeletion.      *)
(***************************************************************************)
EXTENDS RetentionLoop, RetentionPolicyProofs, SequenceTheorems

-----------------------------------------------------------------------------
(* The inductive invariant                                                 *)

Expired == ExpiredFiles(files, now)
Fresh == DOMAIN files \ Expired

Before(S, T) == \A i \in S, j \in T : Older(files, i, j)
Ordered(list) ==
    \A k, l \in DOMAIN list : k < l => Older(files, list[k], list[l])
OlderThan(i) == {j \in Fresh : Older(files, j, i)}

\* Every list of the function is oldest first.
ListsOK ==
    /\ files \in FileList /\ now \in Now
    /\ pass \in {"ttl", "size", "done"}
    /\ freed \in Nat
    /\ \A list \in {todo, ttlSelected, survivors, sizeSelected} :
          list \in Seq(DOMAIN files) /\ Ordered(list)

\* The first loop has dealt with the oldest files and put each on its list.
TtlPassIs ==
    pass = "ttl" =>
        /\ Range(ttlSelected) \subseteq Expired
        /\ Range(survivors) \subseteq Fresh
        /\ Range(ttlSelected) \cup Range(survivors) \cup Range(todo)
              = DOMAIN files
        /\ Before(Range(ttlSelected) \cup Range(survivors), Range(todo))
        /\ sizeSelected = <<>> /\ freed = 0

TtlPassWas ==
    pass # "ttl" => Range(ttlSelected) = Expired /\ Range(survivors) = Fresh

\* The second loop has taken the oldest survivors, each of them because those
\* before it did not make enough room.
SizePassIs ==
    pass = "size" =>
        /\ Range(sizeSelected) \cup Range(todo) = Fresh
        /\ Before(Range(sizeSelected), Range(todo))
        /\ freed = Bytes(files, Range(sizeSelected))
        /\ \A i \in Range(sizeSelected) : Bytes(files, OlderThan(i)) < Target

SizePassWas ==
    pass = "done" => Range(sizeSelected) = OverCap(files, Fresh)

IInv == ListsOK /\ TtlPassIs /\ TtlPassWas /\ SizePassIs /\ SizePassWas

-----------------------------------------------------------------------------
(* The order of the files                                                  *)

\* Older is a strict total order on the files of a list.
LEMMA OlderIsOrder ==
    ASSUME NEW list \in Seq(TrashEntry(Name))
    PROVE  /\ \A i \in DOMAIN list : ~Older(list, i, i)
           /\ \A i, j, k \in DOMAIN list :
                 Older(list, i, j) /\ Older(list, j, k) => Older(list, i, k)
           /\ \A i, j \in DOMAIN list :
                 i # j => Older(list, i, j) \/ Older(list, j, i)
<1>1. \A i \in DOMAIN list : i \in Nat /\ list[i].mtime \in Nat BY ListFacts
<1> QED BY <1>1 DEF Older

\* An ordered list that has as many places as S has files holds all of S.
LEMMA OrderedIsAll ==
    ASSUME NEW S \in SUBSET DOMAIN files, IsFiniteSet(S),
           files \in Seq(TrashEntry(Name)),
           NEW list \in [1..Cardinality(S) -> S], Ordered(list)
    PROVE  Range(list) = S
<1>1. Cardinality(S) \in Nat BY FS_CardinalityType
<1>2. ASSUME NEW k \in 1..Cardinality(S), NEW l \in 1..Cardinality(S),
             list[k] = list[l]
      PROVE  k = l
  <2>1. ~Older(files, list[k], list[k]) BY OlderIsOrder
  <2>2. ~(k < l) /\ ~(l < k) BY <1>2, <2>1 DEF Ordered
  <2>3. k \in Int /\ l \in Int OBVIOUS
  <2> QED BY <2>2, <2>3
<1>3. list \in Injection(1..Cardinality(S), S)
  BY <1>2 DEF Injection, IsInjective
<1>4. Cardinality(1..Cardinality(S)) = Cardinality(S) BY <1>1, FS_Interval
<1>5. list \in Surjection(1..Cardinality(S), S) BY <1>3, <1>4, FS_Injection
<1> QED BY <1>5 DEF Surjection, Range

\* The files of S can be put in order: each at the place that the number of
\* the older ones gives.
LEMMA OrderExists ==
    ASSUME NEW S \in SUBSET DOMAIN files, IsFiniteSet(S),
           files \in Seq(TrashEntry(Name))
    PROVE  \E list \in [1..Cardinality(S) -> S] : Ordered(list)
<1> DEFINE N == Cardinality(S)
           older(i) == {j \in S : Older(files, j, i)}
           rank == [i \in S |-> Cardinality(older(i)) + 1]
<1>1. N \in Nat BY FS_CardinalityType
<1>2. \A i \in S : older(i) \in SUBSET S /\ older(i) # S
  BY OlderIsOrder
<1>3. \A T \in SUBSET S : IsFiniteSet(T) /\ Cardinality(T) \in Nat
                          /\ Cardinality(T) <= N
                          /\ (Cardinality(T) = N => T = S)
  BY FS_Subset, FS_CardinalityType
<1>4. \A i \in S : rank[i] \in 1..N
  <2> SUFFICES ASSUME NEW i \in S PROVE rank[i] \in 1..N OBVIOUS
  <2>1. rank[i] = Cardinality(older(i)) + 1 OBVIOUS
  <2>2. /\ Cardinality(older(i)) \in Nat /\ Cardinality(older(i)) <= N
        /\ Cardinality(older(i)) # N
    BY <1>2, <1>3
  <2> HIDE DEF older, rank, N
  <2> QED BY <1>1, <2>1, <2>2
<1>5. ASSUME NEW i \in S, NEW j \in S, Older(files, i, j)
      PROVE  rank[i] < rank[j]
  <2>1. older(i) \subseteq older(j) BY <1>5, OlderIsOrder
  <2>2. i \in older(j) /\ i \notin older(i) BY <1>5, OlderIsOrder
  <2>3. IsFiniteSet(older(j)) /\ older(j) \in SUBSET S BY <1>3
  <2>4. rank[i] = Cardinality(older(i)) + 1
        /\ rank[j] = Cardinality(older(j)) + 1
    OBVIOUS
  <2> HIDE DEF older, rank
  <2>5. older(i) \in SUBSET older(j) /\ older(i) # older(j) BY <2>1, <2>2
  <2>6. Cardinality(older(i)) <= Cardinality(older(j))
        /\ Cardinality(older(i)) # Cardinality(older(j))
    BY <2>3, <2>5, FS_Subset
  <2>7. Cardinality(older(i)) \in Nat /\ Cardinality(older(j)) \in Nat
    BY <2>3, <2>5, FS_Subset, FS_CardinalityType
  <2> QED BY <2>4, <2>6, <2>7
<1>6. rank \in [S -> 1..N]
  <2>1. rank = [i \in S |-> rank[i]] OBVIOUS
  <2> HIDE DEF rank, N
  <2> QED BY <1>4, <2>1
<1>7. \A i \in S : rank[i] \in Int
  <2> HIDE DEF rank
  <2> QED BY <1>4
<1> HIDE DEF rank
<1>8. rank \in Injection(S, 1..N)
  <2>1. \A i, j \in S : rank[i] = rank[j] => i = j
    BY <1>5, <1>7, OlderIsOrder
  <2> HIDE DEF N
  <2> QED BY <1>6, <2>1 DEF Injection, IsInjective
<1>9. rank \in Surjection(S, 1..N)
  <2>1. IsFiniteSet(1..N) /\ Cardinality(1..N) = N BY <1>1, FS_Interval
  <2> QED BY <1>8, <2>1, FS_Injection
<1> HIDE DEF N
<1> DEFINE at == [k \in 1..N |-> CHOOSE i \in S : rank[i] = k]
<1>10. \A k \in 1..N : at[k] \in S /\ rank[at[k]] = k
  BY <1>9 DEF Surjection
<1>11. at \in [1..N -> S]
  <2>1. at = [k \in 1..N |-> at[k]] OBVIOUS
  <2> HIDE DEF at
  <2> QED BY <1>10, <2>1
<1> HIDE DEF at
<1>12. Ordered(at)
  <2> SUFFICES ASSUME NEW k \in 1..N, NEW l \in 1..N, k < l
               PROVE  Older(files, at[k], at[l])
    BY <1>11 DEF Ordered
  <2>1. at[k] # at[l] BY <1>10
  <2>2. ~Older(files, at[l], at[k]) BY <1>5, <1>10
  <2>3. at[k] \in DOMAIN files /\ at[l] \in DOMAIN files BY <1>10
  <2> QED BY <2>1, <2>2, <2>3, OlderIsOrder
<1> QED BY <1>11, <1>12 DEF N

\* What sorted(files, key=mtime) gives.
LEMMA SortedIs ==
    ASSUME NEW S \in SUBSET DOMAIN files, files \in Seq(TrashEntry(Name))
    PROVE  /\ Sorted(S) \in Seq(DOMAIN files)
           /\ Ordered(Sorted(S))
           /\ Range(Sorted(S)) = S
<1>1. IsFiniteSet(S) BY ListFacts, FS_Subset
<1>2. \E list \in [1..Cardinality(S) -> S] : Ordered(list) BY <1>1, OrderExists
<1>3. Sorted(S) \in [1..Cardinality(S) -> S] /\ Ordered(Sorted(S))
  BY <1>2 DEF Sorted, Ordered
<1>4. Cardinality(S) \in Nat BY <1>1, FS_CardinalityType
<1>5. Sorted(S) \in Seq(S)
  <2> DEFINE n == Cardinality(S)
  <2>1. n \in Nat /\ Sorted(S) \in [1..n -> S] BY <1>3, <1>4
  <2> HIDE DEF n
  <2> QED BY <2>1, SeqDef
<1>6. Sorted(S) \in Seq(DOMAIN files) BY <1>5, SeqMonotonic
<1> QED BY <1>1, <1>3, <1>6, OrderedIsAll

-----------------------------------------------------------------------------
(* Lists that the loops take from and add to                               *)

LEMMA TakeFirst ==
    ASSUME NEW D, NEW list \in Seq(D), list # <<>>, Ordered(list)
    PROVE  /\ Head(list) \in Range(list) /\ Range(list) \subseteq D
           /\ Tail(list) \in Seq(D) /\ Ordered(Tail(list))
           /\ Range(list) = {Head(list)} \cup Range(Tail(list))
           /\ Before({Head(list)}, Range(Tail(list)))
<1>1. DOMAIN list = 1..Len(list) /\ Len(list) \in Nat \ {0}
      /\ \A k \in 1..Len(list) : list[k] \in D
  OBVIOUS
<1>2. /\ Tail(list) \in Seq(D)
      /\ DOMAIN Tail(list) = 1..(Len(list) - 1)
      /\ \A k \in 1..(Len(list) - 1) : Tail(list)[k] = list[k + 1]
      /\ Head(list) = list[1]
  OBVIOUS
<1>3. Ordered(Tail(list)) BY <1>1, <1>2 DEF Ordered
<1>4. Before({Head(list)}, Range(Tail(list)))
  BY <1>1, <1>2 DEF Ordered, Before, Range
<1>5. ASSUME NEW k \in DOMAIN list
      PROVE  list[k] \in {Head(list)} \cup Range(Tail(list))
  <2>1. k = 1 \/ k - 1 \in 1..(Len(list) - 1) BY <1>1
  <2>2. k = (k - 1) + 1 BY <1>1
  <2> QED BY <1>2, <2>1, <2>2 DEF Range
<1>6. Head(list) \in Range(list) /\ Range(list) \subseteq D
  BY <1>1, <1>2 DEF Range
<1>7. Range(Tail(list)) \subseteq Range(list)
  BY <1>1, <1>2 DEF Range
<1> QED BY <1>2, <1>3, <1>4, <1>5, <1>6, <1>7 DEF Range

LEMMA AddLast ==
    ASSUME NEW D, NEW list \in Seq(D), NEW e \in D, Ordered(list),
           Before(Range(list), {e})
    PROVE  /\ Append(list, e) \in Seq(D) /\ Ordered(Append(list, e))
           /\ Range(Append(list, e)) = Range(list) \cup {e}
<1> DEFINE new == Append(list, e)
<1>1. DOMAIN list = 1..Len(list) /\ Len(list) \in Nat OBVIOUS
<1>2. /\ new \in Seq(D) /\ DOMAIN new = 1..(Len(list) + 1)
      /\ \A k \in 1..Len(list) : new[k] = list[k]
      /\ new[Len(list) + 1] = e
  OBVIOUS
<1> HIDE DEF new
<1>3. Ordered(new) BY <1>1, <1>2 DEF Ordered, Before, Range
<1>4. Range(new) = Range(list) \cup {e} BY <1>1, <1>2 DEF Range
<1> QED BY <1>2, <1>3, <1>4 DEF new

LEMMA Joined ==
    ASSUME NEW D, NEW first \in Seq(D), NEW second \in Seq(D)
    PROVE  /\ Range(first \o second) = Range(first) \cup Range(second)
           /\ Ordered(first) /\ Ordered(second)
              /\ Before(Range(first), Range(second))
                 => Ordered(first \o second)
<1> DEFINE both == first \o second
<1>1. /\ DOMAIN first = 1..Len(first) /\ Len(first) \in Nat
      /\ DOMAIN second = 1..Len(second) /\ Len(second) \in Nat
      /\ DOMAIN both = 1..(Len(first) + Len(second))
  OBVIOUS
<1>2. /\ \A k \in DOMAIN first : k \in DOMAIN both /\ both[k] = first[k]
      /\ \A k \in DOMAIN second : /\ Len(first) + k \in DOMAIN both
                                  /\ both[Len(first) + k] = second[k]
  BY <1>1
<1>3. \A k \in DOMAIN both :
         \/ k \in DOMAIN first
         \/ k - Len(first) \in DOMAIN second
            /\ k = Len(first) + (k - Len(first))
  BY <1>1
<1> HIDE DEF both
<1>4. \A k \in DOMAIN both :
         \/ k \in DOMAIN first /\ both[k] = first[k]
         \/ k - Len(first) \in DOMAIN second
            /\ both[k] = second[k - Len(first)]
  BY <1>2, <1>3
<1>5. Range(both) = Range(first) \cup Range(second)
  BY <1>2, <1>4 DEF Range
<1>6. ASSUME Ordered(first), Ordered(second),
             Before(Range(first), Range(second))
      PROVE  Ordered(both)
  <2> SUFFICES ASSUME NEW k \in DOMAIN both, NEW l \in DOMAIN both, k < l
               PROVE  Older(files, both[k], both[l])
    BY DEF Ordered
  <2>1. CASE k \in DOMAIN first /\ l \in DOMAIN first
    BY <1>2, <1>6, <2>1 DEF Ordered
  <2>2. CASE k \in DOMAIN first /\ l \notin DOMAIN first
    BY <1>2, <1>4, <1>6, <2>2 DEF Before, Range
  <2>3. CASE k \notin DOMAIN first
    <3>1. l \notin DOMAIN first BY <1>1, <2>3
    <3>2. k - Len(first) < l - Len(first) BY <1>1
    <3>3. /\ k - Len(first) \in DOMAIN second
          /\ both[k] = second[k - Len(first)]
          /\ l - Len(first) \in DOMAIN second
          /\ both[l] = second[l - Len(first)]
      BY <1>4, <2>3, <3>1
    <3> QED BY <1>6, <3>2, <3>3 DEF Ordered
  <2> QED BY <2>1, <2>2, <2>3
<1> QED BY <1>5, <1>6 DEF both

\* Nothing is older than itself, so what was dealt with is not met again.
LEMMA BeforeIsApart ==
    ASSUME files \in Seq(TrashEntry(Name)), NEW S, NEW T,
           S \subseteq DOMAIN files, Before(S, T)
    PROVE  S \cap T = {}
  BY OlderIsOrder DEF Before

\* Bytes of files.
LEMMA BytesFacts ==
    ASSUME files \in Seq(TrashEntry(Name)), NEW S \in SUBSET DOMAIN files
    PROVE  /\ Bytes(files, S) \in Nat
           /\ Bytes(files, {}) = 0
           /\ \A T \in SUBSET S :
                 Bytes(files, S) = Bytes(files, T) + Bytes(files, S \ T)
           /\ \A i \in DOMAIN files \ S :
                 Bytes(files, S \cup {i}) = Bytes(files, S) + files[i].size
<1> DEFINE D == DOMAIN files
           f == Sizes(files)
<1>1. IsFiniteSet(D) /\ \A i \in D : f[i] \in Nat /\ f[i] = files[i].size
  BY ListFacts
<1>2. \A T \in SUBSET D : IsFiniteSet(T) /\ Bytes(files, T) = Sum(f, T)
  BY <1>1, FS_Subset, BytesIsSum
<1> HIDE DEF f
<1>3. Bytes(files, {}) = 0
  <2>1. {} \in SUBSET D OBVIOUS
  <2> QED BY <1>2, <2>1, SumEmpty
<1>4. \A T \in SUBSET D : Sum(f, T) \in Nat BY <1>1, <1>2, SumType
<1>5. ASSUME NEW T \in SUBSET S
      PROVE  Bytes(files, S) = Bytes(files, T) + Bytes(files, S \ T)
  <2>1. IsFiniteSet(S) /\ \A x \in S : f[x] \in Int BY <1>1, <1>2
  <2>2. Sum(f, S) = Sum(f, T) + Sum(f, S \ T) BY <2>1, SumSplit
  <2> QED BY <1>2, <2>2
<1>6. ASSUME NEW i \in D \ S
      PROVE  Bytes(files, S \cup {i}) = Bytes(files, S) + files[i].size
  <2> DEFINE U == S \cup {i}
  <2>1. U \in SUBSET D /\ i \in U /\ U \ {i} = S OBVIOUS
  <2> HIDE DEF U
  <2>2. IsFiniteSet(U) /\ \A x \in U : f[x] \in Int BY <1>1, <1>2, <2>1
  <2>3. Sum(f, U) = f[i] + Sum(f, U \ {i}) BY <2>1, <2>2, SumRemove
  <2>4. Sum(f, U) = f[i] + Sum(f, S) BY <2>1, <2>3
  <2>5. f[i] \in Nat /\ f[i] = files[i].size /\ Sum(f, S) \in Nat
    BY <1>1, <1>4
  <2>6. Bytes(files, U) = Sum(f, U) /\ Bytes(files, S) = Sum(f, S)
    BY <1>2, <2>1
  <2> QED BY <2>4, <2>5, <2>6 DEF U
<1>7. Bytes(files, S) \in Nat BY <1>2, <1>4
<1> QED BY <1>3, <1>5, <1>6, <1>7

-----------------------------------------------------------------------------
(* The invariant is inductive                                              *)

\* The assumption on the arguments, for those of the run.
LEMMA Arguments ==
    ASSUME files \in FileList, now \in Now
    PROVE  /\ files \in Seq(TrashEntry(Name)) /\ now \in Int
           /\ \A i \in DOMAIN files :
                 files[i].mtime \in Nat /\ files[i].size \in Nat
<1>1. files \in Seq(TrashEntry(Name)) /\ now \in Int BY ArgumentAssumption
<1> QED BY <1>1, ListFacts

LEMMA EmptyList ==
    /\ \A D : <<>> \in Seq(D)
    /\ Range(<<>>) = {}
    /\ Ordered(<<>>)
  BY DEF Range, Ordered

LEMMA InitIInv == Init => IInv
<1> SUFFICES ASSUME Init PROVE IInv OBVIOUS
<1>1. /\ files \in FileList /\ now \in Now
      /\ pass = "ttl" /\ todo = Sorted(DOMAIN files)
      /\ ttlSelected = <<>> /\ survivors = <<>> /\ sizeSelected = <<>>
      /\ freed = 0
  BY DEF Init
<1>2. /\ todo \in Seq(DOMAIN files) /\ Ordered(todo)
      /\ Range(todo) = DOMAIN files
  BY <1>1, Arguments, SortedIs
<1>3. ListsOK BY <1>1, <1>2, EmptyList DEF ListsOK
<1>4. TtlPassIs BY <1>1, <1>2, EmptyList DEF TtlPassIs, Before
<1>5. TtlPassWas /\ SizePassIs /\ SizePassWas
  BY <1>1 DEF TtlPassWas, SizePassIs, SizePassWas
<1> QED BY <1>3, <1>4, <1>5 DEF IInv

LEMMA TtlPassStep == IInv /\ TtlPass => IInv'
<1> SUFFICES ASSUME IInv, TtlPass PROVE IInv' OBVIOUS
<1> DEFINE i == Head(todo)
<1>1. /\ pass = "ttl" /\ todo # <<>> /\ todo' = Tail(todo)
      /\ files' = files /\ now' = now /\ pass' = pass
      /\ sizeSelected' = sizeSelected /\ freed' = freed
  BY DEF TtlPass
<1>2. ListsOK /\ TtlPassIs BY DEF IInv
<1>3. /\ files \in Seq(TrashEntry(Name)) /\ now \in Int
      /\ \A j \in DOMAIN files : files[j].mtime \in Nat
  BY <1>2, Arguments DEF ListsOK
<1>4. \A list \in {todo, ttlSelected, survivors, sizeSelected} :
         list \in Seq(DOMAIN files) /\ Ordered(list)
  BY <1>2 DEF ListsOK
<1>5. /\ i \in Range(todo) /\ i \in DOMAIN files
      /\ Tail(todo) \in Seq(DOMAIN files) /\ Ordered(Tail(todo))
      /\ Range(todo) = {i} \cup Range(Tail(todo))
      /\ Before({i}, Range(Tail(todo)))
  <2>1. todo \in Seq(DOMAIN files) /\ Ordered(todo) BY <1>4
  <2> QED BY <1>1, <2>1, TakeFirst
<1>6. /\ Range(ttlSelected) \subseteq Expired
      /\ Range(survivors) \subseteq Fresh
      /\ Range(ttlSelected) \cup Range(survivors) \cup Range(todo)
            = DOMAIN files
      /\ Before(Range(ttlSelected) \cup Range(survivors), Range(todo))
      /\ sizeSelected = <<>> /\ freed = 0
  BY <1>1, <1>2 DEF TtlPassIs
<1>7. /\ Expired' = Expired /\ Fresh' = Fresh
      /\ \A list : Ordered(list) <=> Ordered(list)'
      /\ \A S, T : Before(S, T) <=> Before(S, T)'
  BY <1>1 DEF Expired, Fresh, Ordered, Before
<1>8. Before(Range(ttlSelected), {i}) /\ Before(Range(survivors), {i})
  BY <1>5, <1>6 DEF Before
<1>9. Before(Range(ttlSelected) \cup Range(survivors) \cup {i},
             Range(Tail(todo)))
  BY <1>5, <1>6 DEF Before
<1> DEFINE Taken == /\ Range(ttlSelected') \subseteq Expired
                    /\ Range(survivors') \subseteq Fresh
                    /\ Range(ttlSelected') \cup Range(survivors')
                          = Range(ttlSelected) \cup Range(survivors) \cup {i}
                    /\ ttlSelected' \in Seq(DOMAIN files)
                    /\ survivors' \in Seq(DOMAIN files)
                    /\ Ordered(ttlSelected') /\ Ordered(survivors')
<1>10. ASSUME files[i].mtime < now - TTL PROVE Taken
  <2>1. ttlSelected' = Append(ttlSelected, i) /\ survivors' = survivors
    BY <1>10 DEF TtlPass
  <2>2. i \in Expired BY <1>5, <1>10 DEF Expired, ExpiredFiles
  <2>3. /\ ttlSelected' \in Seq(DOMAIN files) /\ Ordered(ttlSelected')
        /\ Range(ttlSelected') = Range(ttlSelected) \cup {i}
    <3>1. ttlSelected \in Seq(DOMAIN files) /\ Ordered(ttlSelected) BY <1>4
    <3> HIDE DEF i
    <3> QED BY <1>5, <1>8, <2>1, <3>1, AddLast
  <2> QED BY <1>4, <1>6, <2>1, <2>2, <2>3
<1>11. ASSUME ~(files[i].mtime < now - TTL) PROVE Taken
  <2>1. ttlSelected' = ttlSelected /\ survivors' = Append(survivors, i)
    BY <1>11 DEF TtlPass
  <2>2. i \in Fresh BY <1>5, <1>11 DEF Fresh, Expired, ExpiredFiles
  <2>3. /\ survivors' \in Seq(DOMAIN files) /\ Ordered(survivors')
        /\ Range(survivors') = Range(survivors) \cup {i}
    <3>1. survivors \in Seq(DOMAIN files) /\ Ordered(survivors) BY <1>4
    <3> HIDE DEF i
    <3> QED BY <1>5, <1>8, <2>1, <3>1, AddLast
  <2> QED BY <1>4, <1>6, <2>1, <2>2, <2>3
<1>12. Taken BY <1>10, <1>11
<1> HIDE DEF i
<1>13. ListsOK'
  <2>1. \A list \in {Tail(todo), ttlSelected', survivors', sizeSelected} :
           list \in Seq(DOMAIN files) /\ Ordered(list)
    BY <1>4, <1>5, <1>12
  <2>2. \A list \in {todo', ttlSelected', survivors', sizeSelected'} :
           list \in Seq(DOMAIN files') /\ Ordered(list)'
    BY <1>1, <1>7, <2>1
  <2>3. /\ files' \in FileList /\ now' \in Now
        /\ pass' \in {"ttl", "size", "done"} /\ freed' \in Nat
    BY <1>1, <1>2 DEF ListsOK
  <2> QED BY <2>2, <2>3 DEF ListsOK, Ordered
<1>14. TtlPassIs'
  <2>1. Range(ttlSelected') \cup Range(survivors') \cup Range(Tail(todo))
           = DOMAIN files
    BY <1>5, <1>6, <1>12
  <2>2. Before(Range(ttlSelected') \cup Range(survivors'), Range(Tail(todo)))
    BY <1>9, <1>12
  <2> QED BY <1>1, <1>6, <1>7, <1>12, <2>1, <2>2 DEF TtlPassIs
<1>15. TtlPassWas' /\ SizePassIs' /\ SizePassWas'
  BY <1>1 DEF TtlPassWas, SizePassIs, SizePassWas
<1> QED BY <1>13, <1>14, <1>15 DEF IInv

\* When the first loop ends its two lists are the expired files and the rest.
LEMMA TtlPassEnds ==
    ASSUME IInv, pass = "ttl", todo = <<>>
    PROVE  Range(ttlSelected) = Expired /\ Range(survivors) = Fresh
<1>1. /\ Range(ttlSelected) \subseteq Expired
      /\ Range(survivors) \subseteq Fresh
      /\ Range(ttlSelected) \cup Range(survivors) \cup Range(todo)
            = DOMAIN files
  BY DEF IInv, TtlPassIs
<1>2. Expired \subseteq DOMAIN files BY DEF Expired, ExpiredFiles
<1> QED BY <1>1, <1>2, EmptyList DEF Fresh

\* The bytes older than a file are no fewer than none and no more than all.
LEMMA OlderBytes ==
    ASSUME files \in Seq(TrashEntry(Name)), NEW i
    PROVE  /\ Bytes(files, OlderThan(i)) \in Nat
           /\ Bytes(files, Fresh) \in Nat
           /\ OverCap(files, Fresh)
                = {j \in Fresh : Bytes(files, OlderThan(j))
                                    < Bytes(files, Fresh) - MaxBytes}
<1>1. OlderThan(i) \in SUBSET DOMAIN files /\ Fresh \in SUBSET DOMAIN files
  BY DEF OlderThan, Fresh
<1> QED BY <1>1, BytesFacts DEF OverCap, OlderThan

LEMMA SkipSizePassStep == IInv /\ SkipSizePass => IInv'
<1> SUFFICES ASSUME IInv, SkipSizePass PROVE IInv' OBVIOUS
<1>1. /\ pass = "ttl" /\ todo = <<>> /\ pass' = "done"
      /\ survivors = <<>> \/ Size(survivors) <= MaxBytes
      /\ files' = files /\ now' = now /\ todo' = todo
      /\ ttlSelected' = ttlSelected /\ survivors' = survivors
      /\ sizeSelected' = sizeSelected /\ freed' = freed
  BY DEF SkipSizePass
<1>2. ListsOK /\ sizeSelected = <<>> BY <1>1 DEF IInv, TtlPassIs
<1>3. files \in Seq(TrashEntry(Name)) BY <1>2, Arguments DEF ListsOK
<1>4. Range(ttlSelected) = Expired /\ Range(survivors) = Fresh
  BY <1>1, TtlPassEnds
<1>5. ListsOK' BY <1>1, <1>2 DEF ListsOK, Ordered
<1>6. OverCap(files, Fresh) = {}
  <2> SUFFICES ASSUME NEW j \in OverCap(files, Fresh) PROVE FALSE OBVIOUS
  <2>1. j \in Fresh
        /\ Bytes(files, OlderThan(j)) < Bytes(files, Fresh) - MaxBytes
        /\ Bytes(files, OlderThan(j)) \in Nat /\ Bytes(files, Fresh) \in Nat
    BY <1>3, OlderBytes
  <2>2. Bytes(files, Fresh) <= MaxBytes
    BY <1>1, <1>4, <2>1, EmptyList DEF Size
  <2> QED BY <2>1, <2>2, PolicyAssumption
<1>7. TtlPassIs' /\ SizePassIs' BY <1>1 DEF TtlPassIs, SizePassIs
<1>8. Expired' = Expired /\ Fresh' = Fresh BY <1>1 DEF Expired, Fresh
<1>9. TtlPassWas' /\ SizePassWas'
  BY <1>1, <1>2, <1>4, <1>6, <1>8, EmptyList DEF TtlPassWas, SizePassWas
<1> QED BY <1>5, <1>7, <1>9 DEF IInv

LEMMA StartSizePassStep == IInv /\ StartSizePass => IInv'
<1> SUFFICES ASSUME IInv, StartSizePass PROVE IInv' OBVIOUS
<1>1. /\ pass = "ttl" /\ todo = <<>> /\ pass' = "size"
      /\ todo' = Sorted(Range(survivors))
      /\ files' = files /\ now' = now
      /\ ttlSelected' = ttlSelected /\ survivors' = survivors
      /\ sizeSelected' = sizeSelected /\ freed' = freed
  BY DEF StartSizePass
<1>2. ListsOK /\ sizeSelected = <<>> /\ freed = 0
  BY <1>1 DEF IInv, TtlPassIs
<1>3. files \in Seq(TrashEntry(Name)) BY <1>2, Arguments DEF ListsOK
<1>4. Range(ttlSelected) = Expired /\ Range(survivors) = Fresh
  BY <1>1, TtlPassEnds
<1>5. /\ todo' \in Seq(DOMAIN files) /\ Ordered(todo')
      /\ Range(todo') = Fresh
  <2>1. Fresh \in SUBSET DOMAIN files BY DEF Fresh
  <2> QED BY <1>1, <1>3, <1>4, <2>1, SortedIs
<1>6. ListsOK'
  <2>1. \A list \in {todo', ttlSelected, survivors, sizeSelected} :
           list \in Seq(DOMAIN files) /\ Ordered(list)
    BY <1>2, <1>5 DEF ListsOK
  <2>2. /\ files \in FileList /\ now \in Now /\ freed \in Nat
    BY <1>2 DEF ListsOK
  <2> QED BY <1>1, <2>1, <2>2 DEF ListsOK, Ordered
<1>7. Expired' = Expired /\ Fresh' = Fresh BY <1>1 DEF Expired, Fresh
<1>8. Bytes(files, {}) = 0
  <2>1. {} \in SUBSET DOMAIN files OBVIOUS
  <2> QED BY <1>3, <2>1, BytesFacts
<1>9. SizePassIs'
  BY <1>1, <1>2, <1>5, <1>7, <1>8, EmptyList DEF SizePassIs, Before
<1>10. TtlPassIs' /\ SizePassWas' BY <1>1 DEF TtlPassIs, SizePassWas
<1>11. TtlPassWas' BY <1>1, <1>4, <1>7 DEF TtlPassWas
<1> QED BY <1>6, <1>9, <1>10, <1>11 DEF IInv

LEMMA SizePassStep == IInv /\ SizePass => IInv'
<1> SUFFICES ASSUME IInv, SizePass PROVE IInv' OBVIOUS
<1> DEFINE i == Head(todo)
           taken == Range(sizeSelected)
<1>1. /\ pass = "size" /\ todo # <<>> /\ freed < Target
      /\ todo' = Tail(todo) /\ sizeSelected' = Append(sizeSelected, i)
      /\ freed' = freed + files[i].size
      /\ files' = files /\ now' = now /\ pass' = pass
      /\ ttlSelected' = ttlSelected /\ survivors' = survivors
  BY DEF SizePass
<1>2. ListsOK /\ TtlPassWas BY DEF IInv
<1>3. files \in Seq(TrashEntry(Name)) BY <1>2, Arguments DEF ListsOK
<1>4. \A list \in {todo, ttlSelected, survivors, sizeSelected} :
         list \in Seq(DOMAIN files) /\ Ordered(list)
  BY <1>2 DEF ListsOK
<1>5. /\ i \in Range(todo) /\ i \in DOMAIN files
      /\ Tail(todo) \in Seq(DOMAIN files) /\ Ordered(Tail(todo))
      /\ Range(todo) = {i} \cup Range(Tail(todo))
      /\ Before({i}, Range(Tail(todo)))
  <2>1. todo \in Seq(DOMAIN files) /\ Ordered(todo) BY <1>4
  <2> QED BY <1>1, <2>1, TakeFirst
<1>6. /\ taken \cup Range(todo) = Fresh
      /\ Before(taken, Range(todo))
      /\ freed = Bytes(files, taken)
      /\ \A j \in taken : Bytes(files, OlderThan(j)) < Target
  BY <1>1 DEF IInv, SizePassIs
<1>7. taken \subseteq DOMAIN files /\ Range(todo) \subseteq DOMAIN files
  BY <1>6 DEF Fresh
<1>8. i \notin taken
  BY <1>3, <1>5, <1>6, <1>7, BeforeIsApart
<1> HIDE DEF i
<1>9. /\ sizeSelected' \in Seq(DOMAIN files) /\ Ordered(sizeSelected')
      /\ Range(sizeSelected') = taken \cup {i}
  <2>1. Before(taken, {i}) BY <1>5, <1>6 DEF Before
  <2>2. sizeSelected \in Seq(DOMAIN files) /\ Ordered(sizeSelected) BY <1>4
  <2> QED BY <1>1, <1>5, <2>1, <2>2, AddLast
<1> HIDE DEF taken
\* The files older than the next one are those that were taken.
<1>10. OlderThan(i) = taken
  <2>1. \A j \in taken : Older(files, j, i) BY <1>5, <1>6 DEF Before
  <2>2. \A j \in Range(todo) : ~Older(files, j, i)
    <3> SUFFICES ASSUME NEW j \in Range(todo), Older(files, j, i)
                 PROVE  FALSE
      OBVIOUS
    <3>1. j = i \/ Older(files, i, j) BY <1>5 DEF Before
    <3> QED BY <1>3, <1>5, <1>7, <3>1, OlderIsOrder
  <2> QED BY <1>6, <2>1, <2>2 DEF OlderThan
<1>11. /\ Bytes(files, taken \cup {i}) = freed + files[i].size
       /\ freed + files[i].size \in Nat
  <2>1. taken \in SUBSET DOMAIN files /\ i \in DOMAIN files \ taken
    BY <1>5, <1>7, <1>8
  <2>2. Bytes(files, taken \cup {i}) = Bytes(files, taken) + files[i].size
        /\ Bytes(files, taken) \in Nat
    BY <1>3, <2>1, BytesFacts
  <2>3. files[i].size \in Nat BY <1>2, <1>5, Arguments DEF ListsOK
  <2> QED BY <1>6, <2>2, <2>3
<1>12. ListsOK'
  <2>1. \A list \in {todo', ttlSelected', survivors', sizeSelected'} :
           list \in Seq(DOMAIN files) /\ Ordered(list)
    BY <1>1, <1>4, <1>5, <1>9
  <2>2. files \in FileList /\ now \in Now BY <1>2 DEF ListsOK
  <2> QED BY <1>1, <1>11, <2>1, <2>2 DEF ListsOK, Ordered
<1>13. /\ Expired' = Expired /\ Fresh' = Fresh /\ Target' = Target
       /\ \A j : OlderThan(j)' = OlderThan(j)
  BY <1>1 DEF Expired, Fresh, Target, Size, OlderThan
<1>14. SizePassIs'
  <2>1. (taken \cup {i}) \cup Range(Tail(todo)) = Fresh BY <1>5, <1>6
  <2>2. Before(taken \cup {i}, Range(Tail(todo)))
    BY <1>5, <1>6 DEF Before
  <2>3. \A j \in taken \cup {i} : Bytes(files, OlderThan(j)) < Target
    BY <1>1, <1>6, <1>10
  <2> QED BY <1>1, <1>9, <1>11, <1>13, <2>1, <2>2, <2>3
          DEF SizePassIs, Before
<1>15. TtlPassIs' /\ SizePassWas' BY <1>1 DEF TtlPassIs, SizePassWas
<1>16. TtlPassWas' BY <1>1, <1>2, <1>13 DEF TtlPassWas
<1> QED BY <1>12, <1>14, <1>15, <1>16 DEF IInv

LEMMA EndSizePassStep == IInv /\ EndSizePass => IInv'
<1> SUFFICES ASSUME IInv, EndSizePass PROVE IInv' OBVIOUS
<1> DEFINE taken == Range(sizeSelected)
<1>1. /\ pass = "size" /\ pass' = "done"
      /\ todo = <<>> \/ freed >= Target
      /\ files' = files /\ now' = now /\ todo' = todo
      /\ ttlSelected' = ttlSelected /\ survivors' = survivors
      /\ sizeSelected' = sizeSelected /\ freed' = freed
  BY DEF EndSizePass
<1>2. ListsOK /\ Range(ttlSelected) = Expired /\ Range(survivors) = Fresh
  BY <1>1 DEF IInv, TtlPassWas
<1>3. files \in Seq(TrashEntry(Name)) BY <1>2, Arguments DEF ListsOK
<1>4. /\ taken \cup Range(todo) = Fresh
      /\ Before(taken, Range(todo))
      /\ freed = Bytes(files, taken)
      /\ \A j \in taken : Bytes(files, OlderThan(j)) < Target
  BY <1>1 DEF IInv, SizePassIs
<1>5. Target = Bytes(files, Fresh) - MaxBytes BY <1>2 DEF Target, Size
<1>6. \A j \in taken : j \in OverCap(files, Fresh)
  BY <1>3, <1>4, <1>5, OlderBytes
\* A file that was not taken has all that were before it.
<1>7. ASSUME NEW j \in Range(todo) PROVE j \notin OverCap(files, Fresh)
  <2>1. freed >= Target BY <1>1, <1>7, EmptyList
  <2>2. taken \in SUBSET OlderThan(j) BY <1>4, <1>7 DEF Before, OlderThan
  <2>3. OlderThan(j) \in SUBSET DOMAIN files BY DEF OlderThan, Fresh
  <2>4. Bytes(files, OlderThan(j))
           = Bytes(files, taken) + Bytes(files, OlderThan(j) \ taken)
    BY <1>3, <2>2, <2>3, BytesFacts
  <2>5. Bytes(files, taken) \in Nat
        /\ Bytes(files, OlderThan(j) \ taken) \in Nat
    <3>1. taken \in SUBSET DOMAIN files
          /\ OlderThan(j) \ taken \in SUBSET DOMAIN files
      BY <2>2, <2>3
    <3> QED BY <1>3, <3>1, BytesFacts
  <2>6. Bytes(files, Fresh) \in Nat BY <1>3, OlderBytes
  <2>7. ~(Bytes(files, OlderThan(j)) < Bytes(files, Fresh) - MaxBytes)
    <3> HIDE DEF taken
    <3> QED BY <1>4, <1>5, <2>1, <2>4, <2>5, <2>6, PolicyAssumption
  <2> QED BY <1>3, <2>7, OlderBytes
<1>8. taken = OverCap(files, Fresh)
  <2>1. OverCap(files, Fresh) \subseteq Fresh BY DEF OverCap
  <2> QED BY <1>4, <1>6, <1>7, <2>1
<1>9. ListsOK' BY <1>1, <1>2 DEF ListsOK, Ordered
<1>10. Expired' = Expired /\ Fresh' = Fresh BY <1>1 DEF Expired, Fresh
<1>11. TtlPassWas' /\ SizePassWas'
  BY <1>1, <1>2, <1>8, <1>10 DEF TtlPassWas, SizePassWas
<1>12. TtlPassIs' /\ SizePassIs' BY <1>1 DEF TtlPassIs, SizePassIs
<1> QED BY <1>9, <1>11, <1>12 DEF IInv

LEMMA IInvStep == IInv /\ [Next]_vars => IInv'
<1>1. IInv /\ UNCHANGED vars => IInv'
  BY DEF vars, IInv, ListsOK, TtlPassIs, TtlPassWas, SizePassIs, SizePassWas,
         Expired, Fresh, Ordered, Before, OlderThan, Target, Size
<1> QED BY <1>1, TtlPassStep, SkipSizePassStep, StartSizePassStep,
           SizePassStep, EndSizePassStep DEF Next

LEMMA Invariance == Spec => []IInv
<1> QED BY InitIInv, IInvStep, PTL DEF Spec

-----------------------------------------------------------------------------
(* Theorems                                                                *)

\* What the loops return holds the files on their two lists.
LEMMA SelectionFacts ==
    ASSUME IInv
    PROVE  /\ files \in Seq(TrashEntry(Name)) /\ now \in Int
           /\ Range(Selection) = Range(ttlSelected) \cup Range(sizeSelected)
           /\ Range(ttlSelected) \subseteq Expired
           /\ Range(sizeSelected) \subseteq Fresh
           /\ Ordered(ttlSelected) /\ Ordered(sizeSelected)
           /\ ttlSelected \in Seq(DOMAIN files)
           /\ sizeSelected \in Seq(DOMAIN files)
           /\ pass = "done" => Range(Selection)
                                 = Expired \cup OverCap(files, Fresh)
<1>1. ListsOK BY DEF IInv
<1>2. files \in Seq(TrashEntry(Name)) /\ now \in Int
  BY <1>1, Arguments DEF ListsOK
<1>3. /\ Ordered(ttlSelected) /\ Ordered(sizeSelected)
      /\ ttlSelected \in Seq(DOMAIN files)
      /\ sizeSelected \in Seq(DOMAIN files)
  BY <1>1 DEF ListsOK
<1>4. Range(Selection) = Range(ttlSelected) \cup Range(sizeSelected)
  BY <1>3, Joined DEF Selection
<1>5. Range(ttlSelected) \subseteq Expired
  BY DEF IInv, TtlPassIs, TtlPassWas
<1>6. Range(sizeSelected) \subseteq Fresh
  <2>1. pass = "ttl" => sizeSelected = <<>> BY DEF IInv, TtlPassIs
  <2>2. pass = "size" => Range(sizeSelected) \subseteq Fresh
    BY DEF IInv, SizePassIs
  <2>3. pass = "done" => Range(sizeSelected) \subseteq Fresh
    BY DEF IInv, SizePassWas, OverCap
  <2> QED BY <1>1, <2>1, <2>2, <2>3, EmptyList DEF ListsOK
<1>7. pass = "done" => Range(Selection) = Expired \cup OverCap(files, Fresh)
  BY <1>4 DEF IInv, TtlPassWas, SizePassWas
<1> QED BY <1>2, <1>3, <1>4, <1>5, <1>6, <1>7

\* The loops of select_for_deletion, with their lists, the running sum and
\* the early return, return the files that SelectForDeletion says.
THEOREM LoopsCompute == Spec => []LoopsSelect
<1>1. IInv => LoopsSelect
  BY SelectionFacts DEF LoopsSelect, SelectForDeletion, Expired, Fresh
<1> QED BY <1>1, Invariance, PTL

\* ttl_selected + size_selected is oldest first without a third sort, as the
\* comment on the concatenation says: expired files are older than survivors.
THEOREM OldestFirst == Spec => []SelectionIsOldestFirst
<1>1. ASSUME IInv PROVE SelectionIsOldestFirst
  <2>1. Before(Expired, Fresh)
    <3>1. \A i \in DOMAIN files : files[i].mtime \in Nat
      BY <1>1, SelectionFacts, ListFacts
    <3>2. now \in Int BY <1>1, SelectionFacts
    <3> QED BY <3>1, <3>2, PolicyAssumption
            DEF Before, Expired, Fresh, ExpiredFiles, Older
  <2>2. Before(Range(ttlSelected), Range(sizeSelected))
    BY <1>1, <2>1, SelectionFacts DEF Before
  <2>3. Ordered(Selection) BY <1>1, <2>2, SelectionFacts, Joined DEF Selection
  <2> QED BY <2>3 DEF Ordered, SelectionIsOldestFirst
<1> QED BY <1>1, Invariance, PTL

\* What select_for_deletion does not return fits max_bytes, and none of it is
\* past its time to live.
THEOREM KeptAlwaysFits == Spec => []KeptFits
<1>1. ASSUME IInv, pass = "done"
      PROVE  /\ Bytes(files, Kept) <= MaxBytes
             /\ \A i \in Kept : files[i].mtime >= now - TTL
  <2>1. Kept = DOMAIN files \ SelectForDeletion(files, now)
    BY <1>1, SelectionFacts DEF Kept, SelectForDeletion, Expired, Fresh
  <2>2. files \in Seq(TrashEntry(Name)) /\ now \in Int
    BY <1>1, SelectionFacts
  <2> QED BY <2>1, <2>2, SelectionFits
<1>2. IInv => KeptFits BY <1>1 DEF KeptFits
<1> QED BY <1>2, Invariance, PTL

\* The second loop stops as soon as it may: without the last file that it took
\* what is kept would exceed max_bytes.
THEOREM NothingNeedless == Spec => []NoNeedlessDeletion
<1>1. ASSUME IInv, pass = "done", sizeSelected # <<>>
      PROVE  Bytes(files, Kept \cup {Last(sizeSelected)}) > MaxBytes
  <2> DEFINE l == Last(sizeSelected)
             taken == Range(sizeSelected)
  <2>1. /\ files \in Seq(TrashEntry(Name))
        /\ sizeSelected \in Seq(DOMAIN files) /\ Ordered(sizeSelected)
        /\ Range(Selection) = Expired \cup OverCap(files, Fresh)
    BY <1>1, SelectionFacts
  <2>2. taken = OverCap(files, Fresh) BY <1>1 DEF IInv, SizePassWas
  <2>3. /\ DOMAIN sizeSelected = 1..Len(sizeSelected)
        /\ Len(sizeSelected) \in Nat \ {0}
    BY <1>1, <2>1
  <2>4. l \in taken BY <2>3 DEF Last, Range
  <2>5. ASSUME NEW j \in taken PROVE j = l \/ Older(files, j, l)
    <3>1. PICK i \in 1..Len(sizeSelected) : sizeSelected[i] = j
      BY <2>3, <2>5 DEF Range
    <3>2. CASE i = Len(sizeSelected)
      BY <3>1, <3>2 DEF Last
    <3>3. CASE i # Len(sizeSelected)
      <4>1. i < Len(sizeSelected) /\ Len(sizeSelected) \in 1..Len(sizeSelected)
        <5>1. ASSUME NEW n \in Nat \ {0}, NEW k \in 1..n, k # n
              PROVE  k < n /\ n \in 1..n
          BY <5>1
        <5>2. Len(sizeSelected) \in Nat \ {0}
          BY <2>3
        <5> QED BY <3>3, <5>1, <5>2, Zenon
      <4>2. Older(files, sizeSelected[i], sizeSelected[Len(sizeSelected)])
        BY <2>1, <2>3, <3>1, <4>1 DEF Ordered
      <4> QED BY <3>1, <4>2 DEF Last
    <3> QED BY <3>2, <3>3
  <2> HIDE DEF l, taken
  <2>6. /\ l \in Fresh
        /\ Bytes(files, OlderThan(l)) < Bytes(files, Fresh) - MaxBytes
    BY <2>1, <2>2, <2>4, OlderBytes
\* All that is older than the last file was taken, so what would be left with
\* it is all but the older ones.
  <2>7. OlderThan(l) \subseteq taken
    <3> SUFFICES ASSUME NEW j \in OlderThan(l) PROVE j \in taken OBVIOUS
    <3>1. j \in Fresh /\ Older(files, j, l) BY DEF OlderThan
    <3>2. OlderThan(j) \in SUBSET OlderThan(l)
      BY <2>1, <2>6, <3>1, OlderIsOrder DEF OlderThan, Fresh
    <3>3. OlderThan(l) \in SUBSET DOMAIN files
          /\ OlderThan(l) \ OlderThan(j) \in SUBSET DOMAIN files
      BY DEF OlderThan, Fresh
    <3>4. Bytes(files, OlderThan(l))
             = Bytes(files, OlderThan(j))
                 + Bytes(files, OlderThan(l) \ OlderThan(j))
      BY <2>1, <3>2, <3>3, BytesFacts
    <3>5. /\ Bytes(files, OlderThan(j)) \in Nat
          /\ Bytes(files, OlderThan(l) \ OlderThan(j)) \in Nat
          /\ Bytes(files, Fresh) \in Nat
      BY <2>1, <3>3, BytesFacts, OlderBytes
    <3>6. Bytes(files, OlderThan(j)) < Bytes(files, Fresh) - MaxBytes
      BY <2>6, <3>4, <3>5, PolicyAssumption
    <3> QED BY <2>1, <2>2, <3>1, <3>6, OlderBytes
  <2>8. Kept \cup {l} = Fresh \ OlderThan(l)
    <3>1. l \notin OlderThan(l)
      BY <2>1, <2>6, OlderIsOrder DEF OlderThan, Fresh
    <3>2. Kept = Fresh \ taken BY <2>1, <2>2 DEF Kept, Fresh
    <3>3. taken = OlderThan(l) \cup {l}
      <4>1. taken \subseteq Fresh BY <2>2 DEF OverCap
      <4> QED BY <2>4, <2>5, <2>7, <4>1 DEF OlderThan
    <3> QED BY <2>6, <3>1, <3>2, <3>3
  <2>9. Bytes(files, Fresh)
           = Bytes(files, OlderThan(l)) + Bytes(files, Fresh \ OlderThan(l))
    <3>1. Fresh \in SUBSET DOMAIN files BY DEF Fresh
    <3>2. OlderThan(l) \in SUBSET Fresh BY DEF OlderThan
    <3> QED BY <2>1, <3>1, <3>2, BytesFacts
  <2>10. /\ Bytes(files, OlderThan(l)) \in Nat /\ Bytes(files, Fresh) \in Nat
         /\ Bytes(files, Fresh \ OlderThan(l)) \in Nat
    <3>1. Fresh \ OlderThan(l) \in SUBSET DOMAIN files BY DEF Fresh
    <3> QED BY <2>1, <3>1, BytesFacts, OlderBytes
  <2>11. Bytes(files, Fresh \ OlderThan(l)) > MaxBytes
    BY <2>6, <2>9, <2>10, PolicyAssumption
  <2> QED BY <2>8, <2>11 DEF l
<1>2. IInv => NoNeedlessDeletion BY <1>1 DEF NoNeedlessDeletion
<1> QED BY <1>2, Invariance, PTL
=============================================================================
