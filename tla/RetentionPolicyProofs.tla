----------------------- MODULE RetentionPolicyProofs ------------------------
(***************************************************************************)
(* Lemmas about sums over finite sets, MapThenSumSet for functions, and    *)
(* what they show of the policy: of the files that select_for_deletion     *)
(* takes and of those it leaves.                                           *)
(***************************************************************************)
EXTENDS RetentionPolicy, FiniteSetTheorems, TLAPS

Sum(f, S) == MapThenSumSet(LAMBDA x : f[x], S)

\* The function that MapThenFoldSet defines by recursion over subsets.
First(s) == CHOOSE x \in s : TRUE
IsSum(iter, f, S) ==
    iter = [s \in SUBSET S |-> IF s = {} THEN 0
                               ELSE f[First(s)] + iter[s \ {First(s)}]]

-----------------------------------------------------------------------------
(* Induction over the subsets of a finite set, by a minimal counterexample *)

LEMMA MinimalSubset ==
    ASSUME NEW S, IsFiniteSet(S), NEW B \in SUBSET SUBSET S, B # {}
    PROVE  \E m \in B : \A y \in B : y \subseteq m => y = m
<1>1. IsWellFoundedOn(StrictSubsetOrdering(S), SUBSET S)
  BY FS_StrictSubsetOrderingWellFounded, FS_FiniteSubsetsOfFinite
<1>2. PICK m \in B : \A y \in B : ~(<<y, m>> \in StrictSubsetOrdering(S))
  BY <1>1, WFMin
<1>3. ASSUME NEW y \in B, y \subseteq m, y # m PROVE FALSE
  <2>1. <<y, m>> \in (SUBSET S) \X (SUBSET S) OBVIOUS
  <2>2. <<y, m>> \in StrictSubsetOrdering(S)
    BY <2>1, <1>3 DEF StrictSubsetOrdering
  <2> QED BY <2>2, <1>2
<1> QED BY <1>3

LEMMA FirstIsIn == ASSUME NEW s, s # {} PROVE First(s) \in s
  BY DEF First

\* Two functions so defined agree where both are.
LEMMA IsSumUnique ==
    ASSUME NEW S, IsFiniteSet(S), NEW T, S \subseteq T, NEW f, NEW g, NEW h,
           IsSum(g, f, S), IsSum(h, f, T)
    PROVE  \A s \in SUBSET S : g[s] = h[s]
<1> DEFINE B == {s \in SUBSET S : g[s] # h[s]}
<1> SUFFICES ASSUME B # {} PROVE FALSE OBVIOUS
<1>1. PICK m \in B : \A y \in B : y \subseteq m => y = m
  <2>1. B \in SUBSET SUBSET S OBVIOUS
  <2> HIDE DEF B
  <2> QED BY <2>1, MinimalSubset
<1>2. m \in SUBSET S /\ m \in SUBSET T OBVIOUS
<1>3. CASE m = {}
  BY <1>2, <1>3 DEF IsSum
<1>4. CASE m # {}
  <2> DEFINE c == First(m)
  <2>1. c \in m BY <1>4, FirstIsIn
  <2> HIDE DEF c
  <2>2. g[m \ {c}] = h[m \ {c}]
    <3>1. m \ {c} \subseteq m /\ m \ {c} # m BY <2>1
    <3>2. m \ {c} \notin B BY <3>1, <1>1
    <3> QED BY <3>2, <1>2
  <2>3. g[m] = f[c] + g[m \ {c}] BY <1>2, <1>4 DEF IsSum, c
  <2>4. h[m] = f[c] + h[m \ {c}] BY <1>2, <1>4 DEF IsSum, c
  <2> QED BY <2>2, <2>3, <2>4
<1> QED BY <1>3, <1>4

\* There is one.
LEMMA IsSumExists ==
    ASSUME NEW S, IsFiniteSet(S), NEW f
    PROVE  \E iter : IsSum(iter, f, S)
<1> DEFINE Has(T) == \E iter : IsSum(iter, f, T)
           B == {T \in SUBSET S : ~Has(T)}
<1> SUFFICES ASSUME B # {} PROVE FALSE OBVIOUS
<1>1. PICK m \in B : \A y \in B : y \subseteq m => y = m
  <2>1. B \in SUBSET SUBSET S OBVIOUS
  <2> HIDE DEF B
  <2> QED BY <2>1, MinimalSubset
<1>2. m \in SUBSET S /\ ~Has(m) OBVIOUS
<1>3. \A T \in SUBSET m : T # m => Has(T) BY <1>1, <1>2
<1>4. \A T \in SUBSET m : IsFiniteSet(T) BY <1>2, FS_Subset
<1> DEFINE The(T) == CHOOSE iter : IsSum(iter, f, T)
<1>5. \A T \in SUBSET m : T # m => IsSum(The(T), f, T) BY <1>3
<1> HIDE DEF Has, B, The
<1> DEFINE Val(s) == IF s = {} THEN 0
                     ELSE f[First(s)] + The(s \ {First(s)})[s \ {First(s)}]
           iter == [s \in SUBSET m |-> Val(s)]
\* A strict subset has the value that its own function gives.
<1>6. ASSUME NEW T \in SUBSET m, T # m PROVE The(T)[T] = Val(T)
  <2>1. IsSum(The(T), f, T) BY <1>5, <1>6
  <2>2. CASE T = {} BY <2>1, <2>2 DEF IsSum
  <2>3. CASE T # {}
    <3> DEFINE c == First(T)
               U == T \ {c}
    <3>1. c \in T BY <2>3, FirstIsIn
    <3>2. The(T)[T] = f[c] + The(T)[U] BY <2>1, <2>3 DEF IsSum
    <3> HIDE DEF c
    <3>3. U \in SUBSET m /\ U # m /\ U \subseteq T BY <3>1
    <3>4. IsSum(The(U), f, U) BY <3>3, <1>5
    <3>5. IsFiniteSet(U) BY <3>3, <1>4
    <3> HIDE DEF U
    <3>6. \A s \in SUBSET U : The(U)[s] = The(T)[s]
      BY <2>1, <3>3, <3>4, <3>5, IsSumUnique
    <3>7. The(U)[U] = The(T)[U] BY <3>6
    <3> QED BY <3>2, <3>7, <2>3 DEF c, U
  <2> QED BY <2>2, <2>3
<1>7. IsSum(iter, f, m)
  <2>1. ASSUME NEW s \in SUBSET m, s # {}
        PROVE  iter[s] = f[First(s)] + iter[s \ {First(s)}]
    <3>1. First(s) \in s BY <2>1, FirstIsIn
    <3>2. s \ {First(s)} \in SUBSET m /\ s \ {First(s)} # m BY <3>1
    <3>3. iter[s \ {First(s)}] = Val(s \ {First(s)}) BY <3>2
    <3>4. Val(s \ {First(s)}) = The(s \ {First(s)})[s \ {First(s)}]
      BY <3>2, <1>6
    <3>5. iter[s] = f[First(s)] + The(s \ {First(s)})[s \ {First(s)}]
      BY <2>1
    <3> HIDE DEF iter, Val
    <3> QED BY <3>3, <3>4, <3>5
  <2>2. {} \in SUBSET m => iter[{}] = 0 OBVIOUS
  <2>3. iter = [s \in SUBSET m |-> iter[s]] OBVIOUS
  <2> HIDE DEF iter, Val
  <2>4. \A s \in SUBSET m : iter[s] = IF s = {} THEN 0
                               ELSE f[First(s)] + iter[s \ {First(s)}]
    BY <2>1, <2>2
  <2> QED BY <2>3, <2>4 DEF IsSum
<1> QED BY <1>7, <1>2 DEF Has

\* MapThenSumSet is the value of any such function.
LEMMA SumIs ==
    ASSUME NEW S, IsFiniteSet(S), NEW f, NEW iter, IsSum(iter, f, S),
           NEW T \in SUBSET S
    PROVE  iter[T] = Sum(f, T)
<1> DEFINE it == CHOOSE g : IsSum(g, f, T)
<1>1. IsFiniteSet(T) BY FS_Subset
<1>2. IsSum(it, f, T) BY <1>1, IsSumExists
<1>3. Sum(f, T) = it[T] BY DEF Sum, MapThenSumSet, MapThenFoldSet, IsSum, First
<1> HIDE DEF it
<1> QED BY <1>1, <1>2, <1>3, IsSumUnique

-----------------------------------------------------------------------------
(* Sums                                                                    *)

LEMMA SumEmpty == ASSUME NEW f PROVE Sum(f, {}) = 0
<1>1. IsFiniteSet({}) BY FS_EmptySet
<1>2. PICK iter : IsSum(iter, f, {}) BY <1>1, IsSumExists
<1>3. iter[{}] = 0 BY <1>2 DEF IsSum
<1>4. iter[{}] = Sum(f, {}) BY <1>1, <1>2, SumIs
<1> QED BY <1>3, <1>4

LEMMA SumFirst ==
    ASSUME NEW S, IsFiniteSet(S), S # {}, NEW f
    PROVE  /\ First(S) \in S
           /\ Sum(f, S) = f[First(S)] + Sum(f, S \ {First(S)})
<1>1. PICK iter : IsSum(iter, f, S) BY IsSumExists
<1>2. iter[S] = f[First(S)] + iter[S \ {First(S)}] BY <1>1 DEF IsSum
<1>3. iter[S] = Sum(f, S) BY <1>1, SumIs
<1>4. iter[S \ {First(S)}] = Sum(f, S \ {First(S)}) BY <1>1, SumIs
<1> QED BY <1>2, <1>3, <1>4, FirstIsIn

\* Sums of integers are integers, those of naturals naturals.
LEMMA SumType ==
    ASSUME NEW S, IsFiniteSet(S), NEW f, NEW N, N = Int \/ N = Nat,
           \A x \in S : f[x] \in N
    PROVE  Sum(f, S) \in N
<1> DEFINE B == {T \in SUBSET S : Sum(f, T) \notin N}
<1> SUFFICES ASSUME B # {} PROVE FALSE OBVIOUS
<1>1. PICK m \in B : \A y \in B : y \subseteq m => y = m
  <2>1. B \in SUBSET SUBSET S OBVIOUS
  <2> HIDE DEF B
  <2> QED BY <2>1, MinimalSubset
<1>2. m \in SUBSET S /\ Sum(f, m) \notin N OBVIOUS
<1>3. m # {} BY <1>2, SumEmpty
<1> DEFINE c == First(m)
<1>4. IsFiniteSet(m) BY <1>2, FS_Subset
<1>5. c \in m /\ Sum(f, m) = f[c] + Sum(f, m \ {c}) BY <1>3, <1>4, SumFirst
<1> HIDE DEF c
<1>6. Sum(f, m \ {c}) \in N
  <2>1. m \ {c} \in SUBSET S /\ m \ {c} \subseteq m /\ m \ {c} # m BY <1>2, <1>5
  <2> QED BY <2>1, <1>1
<1>7. f[c] \in N BY <1>2, <1>5
<1> QED BY <1>2, <1>5, <1>6, <1>7

\* The order in which the elements are taken does not matter.
LEMMA SumRemove ==
    ASSUME NEW S, IsFiniteSet(S), NEW f, \A x \in S : f[x] \in Int, NEW e \in S
    PROVE  Sum(f, S) = f[e] + Sum(f, S \ {e})
<1> DEFINE Ok(T) == \A x \in T : Sum(f, T) = f[x] + Sum(f, T \ {x})
           B == {T \in SUBSET S : ~Ok(T)}
<1>1. SUFFICES ASSUME B # {} PROVE FALSE
  <2>1. B = {} => Ok(S) OBVIOUS
  <2> QED BY <2>1
<1>2. PICK m \in B : \A y \in B : y \subseteq m => y = m
  <2>1. B \in SUBSET SUBSET S OBVIOUS
  <2> HIDE DEF B
  <2> QED BY <1>1, <2>1, MinimalSubset
<1>3. m \in SUBSET S /\ ~Ok(m) OBVIOUS
<1>4. \A T \in SUBSET S : T \subseteq m /\ T # m => Ok(T) BY <1>2
<1>5. PICK x \in m : Sum(f, m) # f[x] + Sum(f, m \ {x}) BY <1>3
<1> HIDE DEF B
<1> DEFINE c == First(m)
<1>6. \A T \in SUBSET m : IsFiniteSet(T) BY <1>3, FS_Subset
<1>7. c \in m /\ Sum(f, m) = f[c] + Sum(f, m \ {c}) BY <1>5, <1>6, SumFirst
<1> HIDE DEF c
<1>8. c # x BY <1>5, <1>7
<1>9. Sum(f, m \ {c}) = f[x] + Sum(f, (m \ {c}) \ {x})
  <2>1. Ok(m \ {c}) BY <1>3, <1>4, <1>7
  <2> QED BY <2>1, <1>8
<1> DEFINE rest == Sum(f, (m \ {c}) \ {x})
<1>10. Sum(f, m \ {x}) = f[c] + rest
  <2>1. Ok(m \ {x}) BY <1>3, <1>4
  <2>2. (m \ {c}) \ {x} = (m \ {x}) \ {c} OBVIOUS
  <2>3. Sum(f, m \ {x}) = f[c] + Sum(f, (m \ {x}) \ {c})
    BY <2>1, <1>7, <1>8
  <2> QED BY <2>2, <2>3, Zenon
<1>11. rest \in Int
  <2>1. IsFiniteSet((m \ {c}) \ {x}) BY <1>6
  <2> QED BY <2>1, <1>3, SumType
<1>12. f[c] \in Int /\ f[x] \in Int BY <1>3, <1>7
<1>13. Sum(f, m) = f[c] + (f[x] + rest) BY <1>7, <1>9
<1>14. Sum(f, m) # f[x] + (f[c] + rest) BY <1>5, <1>10
<1> HIDE DEF rest
<1> QED BY <1>11, <1>12, <1>13, <1>14

\* The sum depends on the values on the set only.
LEMMA SumSame ==
    ASSUME NEW S, IsFiniteSet(S), NEW f, NEW g, \A x \in S : f[x] = g[x]
    PROVE  Sum(f, S) = Sum(g, S)
<1>1. PICK iter : IsSum(iter, f, S) BY IsSumExists
<1>2. IsSum(iter, g, S)
  <2>1. \A s \in SUBSET S : s # {} => f[First(s)] = g[First(s)] BY FirstIsIn
  <2> QED BY <1>1, <2>1 DEF IsSum
<1> QED BY <1>1, <1>2, SumIs

LEMMA SumZero ==
    ASSUME NEW S, IsFiniteSet(S), NEW f, \A x \in S : f[x] = 0
    PROVE  Sum(f, S) = 0
<1> DEFINE B == {T \in SUBSET S : Sum(f, T) # 0}
<1>1. \A T \in SUBSET S : IsFiniteSet(T) BY FS_Subset
<1>2. B = {}
  <2> SUFFICES ASSUME B # {} PROVE FALSE OBVIOUS
  <2>1. PICK m \in B : \A y \in B : y \subseteq m => y = m
    <3>1. B \in SUBSET SUBSET S OBVIOUS
    <3> HIDE DEF B
    <3> QED BY <3>1, MinimalSubset
  <2>2. m \in SUBSET S /\ Sum(f, m) # 0 OBVIOUS
  <2>3. m # {} BY <2>2, SumEmpty
  <2>4. First(m) \in m /\ Sum(f, m) = f[First(m)] + Sum(f, m \ {First(m)})
    BY <1>1, <2>2, <2>3, SumFirst
  <2>5. Sum(f, m \ {First(m)}) = 0
    <3>1. m \ {First(m)} \subseteq m /\ m \ {First(m)} # m BY <2>4
    <3>2. m \ {First(m)} \notin B BY <2>1, <3>1
    <3> QED BY <2>2, <3>2
  <2>6. f[First(m)] = 0 BY <2>2, <2>4
  <2> QED BY <2>2, <2>4, <2>5, <2>6
<1> QED BY <1>2

\* One value changes.
LEMMA SumUpdate ==
    ASSUME NEW S, IsFiniteSet(S), NEW f, NEW g, NEW e \in S,
           \A x \in S : f[x] \in Int /\ g[x] \in Int,
           \A x \in S \ {e} : f[x] = g[x]
    PROVE  Sum(g, S) = Sum(f, S) + g[e] - f[e]
<1>1. IsFiniteSet(S \ {e}) BY FS_RemoveElement
<1>2. Sum(f, S \ {e}) = Sum(g, S \ {e}) BY <1>1, SumSame
<1>3. Sum(f, S) = f[e] + Sum(f, S \ {e}) BY SumRemove
<1>4. Sum(g, S) = g[e] + Sum(g, S \ {e}) BY SumRemove
<1>5. Sum(f, S \ {e}) \in Int BY <1>1, SumType
<1> QED BY <1>2, <1>3, <1>4, <1>5

\* The sum over the parts of a set.
LEMMA SumSplit ==
    ASSUME NEW S, IsFiniteSet(S), NEW f, \A x \in S : f[x] \in Int,
           NEW T \in SUBSET S
    PROVE  Sum(f, S) = Sum(f, T) + Sum(f, S \ T)
<1> DEFINE Ok(U) == Sum(f, U \cup (S \ T)) = Sum(f, U) + Sum(f, S \ T)
           B == {U \in SUBSET T : ~Ok(U)}
<1>1. SUFFICES ASSUME B # {} PROVE FALSE
  <2>1. B = {} => Ok(T) OBVIOUS
  <2>2. T \cup (S \ T) = S OBVIOUS
  <2> QED BY <2>1, <2>2
<1>2. IsFiniteSet(T) BY FS_Subset
<1>3. PICK m \in B : \A y \in B : y \subseteq m => y = m
  <2>1. B \in SUBSET SUBSET T OBVIOUS
  <2> HIDE DEF B
  <2> QED BY <1>1, <1>2, <2>1, MinimalSubset
<1>4. m \in SUBSET T /\ ~Ok(m) OBVIOUS
<1>5. \A U \in SUBSET m : U # m => Ok(U) BY <1>3
<1> HIDE DEF B
<1>6. \A U \in SUBSET S : IsFiniteSet(U) /\ Sum(f, U) \in Int
  BY FS_Subset, SumType
<1>7. CASE m = {}
  <2>1. Sum(f, m) = 0 BY <1>7, SumEmpty
  <2>2. m \cup (S \ T) = S \ T BY <1>7
  <2>3. Sum(f, S \ T) \in Int BY <1>6
  <2>4. Sum(f, m \cup (S \ T)) = Sum(f, S \ T) BY <2>2
  <2> QED BY <1>4, <2>1, <2>3, <2>4
<1>8. CASE m # {}
  <2>1. PICK x \in m : TRUE BY <1>8
  <2>2. x \in S /\ x \notin S \ T BY <1>4
  <2> DEFINE V == m \cup (S \ T)
  <2>3. Ok(m \ {x}) BY <1>5
  <2>4. V \ {x} = (m \ {x}) \cup (S \ T) BY <2>2
  <2>5. V \in SUBSET S /\ x \in V BY <1>4
  <2> HIDE DEF V
  <2>6. Sum(f, V) = f[x] + Sum(f, V \ {x}) BY <1>6, <2>5, SumRemove
  <2>7. Sum(f, m) = f[x] + Sum(f, m \ {x}) BY <1>4, <1>6, SumRemove
  <2>8. Sum(f, V \ {x}) = Sum(f, m \ {x}) + Sum(f, S \ T)
    BY <2>3, <2>4
  <2>9. f[x] \in Int /\ Sum(f, m \ {x}) \in Int /\ Sum(f, S \ T) \in Int
    BY <1>4, <1>6, <2>2
  <2>10. Sum(f, V) = Sum(f, m) + Sum(f, S \ T)
    BY <2>6, <2>7, <2>8, <2>9
  <2> QED BY <1>4, <2>10 DEF V
<1> QED BY <1>7, <1>8

\* A part of a set of naturals has no greater sum.
LEMMA SumMonotone ==
    ASSUME NEW S, IsFiniteSet(S), NEW f, \A x \in S : f[x] \in Nat,
           NEW T \in SUBSET S
    PROVE  Sum(f, T) <= Sum(f, S)
<1>1. Sum(f, S) = Sum(f, T) + Sum(f, S \ T) BY SumSplit
<1>2. IsFiniteSet(T) /\ IsFiniteSet(S \ T) BY FS_Subset
<1>3. Sum(f, T) \in Nat /\ Sum(f, S \ T) \in Nat BY <1>2, SumType
<1> QED BY <1>1, <1>3

\* An injection that keeps the values bounds the sum over its domain.
LEMMA SumInjection ==
    ASSUME NEW S, IsFiniteSet(S), NEW T, IsFiniteSet(T), NEW f, NEW g, NEW h,
           \A x \in T : g[x] \in Nat,
           \A x \in S : h[x] \in T /\ f[x] = g[h[x]],
           \A x, y \in S : h[x] = h[y] => x = y
    PROVE  Sum(f, S) <= Sum(g, T)
<1> DEFINE Img(U) == {h[x] : x \in U}
           Ok(U) == Sum(f, U) = Sum(g, Img(U))
           B == {U \in SUBSET S : ~Ok(U)}
<1>1. \A U \in SUBSET S : IsFiniteSet(U) BY FS_Subset
<1>2. \A U \in SUBSET S : Img(U) \in SUBSET T OBVIOUS
<1>3. \A U \in SUBSET T : IsFiniteSet(U) BY FS_Subset
<1>4. B = {}
  <2> SUFFICES ASSUME B # {} PROVE FALSE OBVIOUS
  <2>1. PICK m \in B : \A y \in B : y \subseteq m => y = m
    <3>1. B \in SUBSET SUBSET S OBVIOUS
    <3> HIDE DEF B
    <3> QED BY <3>1, MinimalSubset
  <2>2. m \in SUBSET S /\ ~Ok(m) OBVIOUS
  <2>3. \A U \in SUBSET m : U # m => Ok(U) BY <2>1
  <2> HIDE DEF B
  <2>4. CASE m = {}
    <3>1. Img(m) = {} BY <2>4
    <3>2. Sum(f, m) = 0 BY <2>4, SumEmpty
    <3>3. Sum(g, Img(m)) = 0 BY <3>1, SumEmpty
    <3> QED BY <2>2, <3>2, <3>3
  <2>5. CASE m # {}
    <3>1. PICK e \in m : TRUE BY <2>5
    <3>2. Ok(m \ {e}) BY <2>3
    <3>3. Img(m \ {e}) = Img(m) \ {h[e]} BY <2>2
    <3>4. h[e] \in Img(m) /\ Img(m) \in SUBSET T BY <1>2, <2>2
    <3>5. Sum(g, Img(m)) = g[h[e]] + Sum(g, Img(m) \ {h[e]})
      <4>1. \A x \in Img(m) : g[x] \in Int BY <3>4
      <4>2. IsFiniteSet(Img(m)) BY <3>4, <1>3
      <4> HIDE DEF Img
      <4> QED BY <4>1, <4>2, <3>4, SumRemove
    <3>6. Sum(f, m) = f[e] + Sum(f, m \ {e})
      <4>1. \A x \in m : f[x] \in Int BY <2>2
      <4> QED BY <4>1, <1>1, <2>2, SumRemove
    <3>7. f[e] = g[h[e]] BY <2>2
    <3>8. Sum(f, m \ {e}) = Sum(g, Img(m) \ {h[e]}) BY <3>2, <3>3
    <3>9. Sum(f, m) = Sum(g, Img(m)) BY <3>5, <3>6, <3>7, <3>8
    <3> QED BY <2>2, <3>9
  <2> QED BY <2>4, <2>5
<1>5. Sum(f, S) = Sum(g, Img(S)) BY <1>4
<1>6. Sum(g, Img(S)) <= Sum(g, T) BY <1>2, SumMonotone
<1> QED BY <1>5, <1>6

-----------------------------------------------------------------------------
(* The policy                                                              *)

Sizes(files) == [i \in DOMAIN files |-> files[i].size]

LEMMA BytesIsSum ==
    ASSUME NEW files, NEW S \in SUBSET DOMAIN files, IsFiniteSet(S)
    PROVE  Bytes(files, S) = Sum(Sizes(files), S)
<1> DEFINE it == CHOOSE iter :
             iter = [s \in SUBSET S |->
                       IF s = {} THEN 0
                       ELSE files[First(s)].size + iter[s \ {First(s)}]]
<1>1. Bytes(files, S) = it[S]
  BY DEF Bytes, MapThenSumSet, MapThenFoldSet, First
<1>2. \A iter : IsSum(iter, Sizes(files), S)
                  <=> iter = [s \in SUBSET S |->
                        IF s = {} THEN 0
                        ELSE files[First(s)].size + iter[s \ {First(s)}]]
  <2>1. \A s \in SUBSET S :
           s # {} => Sizes(files)[First(s)] = files[First(s)].size
    BY FirstIsIn DEF Sizes
  <2> QED BY <2>1 DEF IsSum
<1>3. \E iter : IsSum(iter, Sizes(files), S) BY IsSumExists
<1>4. IsSum(it, Sizes(files), S) BY <1>2, <1>3
<1> HIDE DEF it
<1> QED BY <1>1, <1>4, SumIs

\* What is known of a list of files.
LEMMA ListFacts ==
    ASSUME NEW Names, NEW files \in Seq(TrashEntry(Names))
    PROVE  /\ IsFiniteSet(DOMAIN files)
           /\ DOMAIN files \subseteq Nat
           /\ \A i \in DOMAIN files :
                 files[i].mtime \in Nat /\ files[i].size \in Nat
           /\ \A i \in DOMAIN files :
                 Sizes(files)[i] = files[i].size /\ Sizes(files)[i] \in Nat
<1>1. DOMAIN files = 1..Len(files) /\ Len(files) \in Nat OBVIOUS
<1>2. \A i \in DOMAIN files : files[i] \in TrashEntry(Names) OBVIOUS
<1>3. IsFiniteSet(DOMAIN files) BY <1>1, FS_Interval
<1> QED BY <1>1, <1>2, <1>3 DEF TrashEntry, Sizes

\* OverCap takes enough: what it leaves of S fits the cap.
LEMMA OverCapFits ==
    ASSUME NEW Names, NEW files \in Seq(TrashEntry(Names)),
           NEW S \in SUBSET DOMAIN files
    PROVE  Bytes(files, S \ OverCap(files, S)) <= MaxBytes
<1> DEFINE f == Sizes(files)
           OlderIn(i) == {j \in S : Older(files, j, i)}
           taken == OverCap(files, S)
<1>1. /\ IsFiniteSet(S) /\ S \subseteq Nat
      /\ \A i \in S : files[i].mtime \in Nat
      /\ \A i \in S : f[i] \in Nat
  BY ListFacts, FS_Subset
<1>2. \A T \in SUBSET S : IsFiniteSet(T) /\ Bytes(files, T) = Sum(f, T)
  BY <1>1, FS_Subset, BytesIsSum
<1> HIDE DEF f
<1>3. \A T \in SUBSET S : Sum(f, T) \in Nat BY <1>1, <1>2, SumType
<1>4. \A i \in S : OlderIn(i) \in SUBSET S OBVIOUS
<1>5. taken = {i \in S : Sum(f, OlderIn(i)) < Sum(f, S) - MaxBytes}
  BY <1>2, <1>4 DEF OverCap
<1> HIDE DEF taken
<1>6. taken \in SUBSET S BY <1>5
<1>7. Sum(f, S) = Sum(f, taken) + Sum(f, S \ taken)
  BY <1>1, <1>6, SumSplit
<1>8. S \ taken = {} => Bytes(files, S \ taken) <= MaxBytes
  <2>1. {} \in SUBSET S OBVIOUS
  <2>2. Bytes(files, {}) = Sum(f, {}) BY <2>1, <1>2
  <2>3. Sum(f, {}) = 0 BY SumEmpty
  <2>4. Bytes(files, {}) <= MaxBytes BY <2>2, <2>3, PolicyAssumption
  <2> QED BY <2>4
<1>9. ASSUME S \ taken # {} PROVE Bytes(files, S \ taken) <= MaxBytes
  <2> DEFINE Fam == {OlderIn(i) : i \in S \ taken}
  <2>1. PICK m \in Fam : \A y \in Fam : y \subseteq m => y = m
    <3>1. Fam \in SUBSET SUBSET S /\ Fam # {} BY <1>9
    <3> HIDE DEF Fam
    <3> QED BY <3>1, <1>1, MinimalSubset
  <2>2. PICK k \in S \ taken : m = OlderIn(k) OBVIOUS
  \* The oldest file that is left: all older ones are taken.
  <2>3. OlderIn(k) \subseteq taken
    <3> SUFFICES ASSUME NEW j \in OlderIn(k), j \notin taken PROVE FALSE
      OBVIOUS
    <3>1. j \in S /\ Older(files, j, k) OBVIOUS
    <3>2. OlderIn(j) \in Fam BY <3>1
    <3>3. OlderIn(j) \subseteq OlderIn(k)
      BY <1>1, <3>1 DEF Older
    <3>4. j \notin OlderIn(j) BY <1>1, <3>1 DEF Older
    <3> QED BY <2>1, <2>2, <3>2, <3>3, <3>4
  <2>4. ~(Sum(f, OlderIn(k)) < Sum(f, S) - MaxBytes) BY <1>5
  <2>5. Sum(f, OlderIn(k)) <= Sum(f, taken)
    <3>1. IsFiniteSet(taken) /\ \A i \in taken : f[i] \in Nat
      BY <1>1, <1>2, <1>6
    <3> HIDE DEF OlderIn
    <3> QED BY <2>3, <3>1, SumMonotone
  <2>6. /\ Sum(f, OlderIn(k)) \in Nat /\ Sum(f, S) \in Nat
        /\ Sum(f, taken) \in Nat /\ Sum(f, S \ taken) \in Nat
    BY <1>3, <1>4, <1>6
  <2>7. Sum(f, S \ taken) <= MaxBytes
    <3> HIDE DEF OlderIn
    <3> QED BY <1>7, <2>4, <2>5, <2>6, PolicyAssumption
  <2>8. Bytes(files, S \ taken) = Sum(f, S \ taken) BY <1>2
  <2> QED BY <2>7, <2>8
<1> QED BY <1>8, <1>9 DEF taken

\* What OverCap takes does not fit the cap with the files at least as young.
LEMMA OverCapNeeds ==
    ASSUME NEW Names, NEW files \in Seq(TrashEntry(Names)),
           NEW S \in SUBSET DOMAIN files, NEW i \in OverCap(files, S)
    PROVE  \E T \in SUBSET S :
              /\ \A j \in T : files[j].mtime >= files[i].mtime
              /\ Sum(Sizes(files), T) > MaxBytes
<1> DEFINE f == Sizes(files)
           older == {j \in S : Older(files, j, i)}
<1>1. /\ IsFiniteSet(S) /\ S \subseteq Nat
      /\ \A j \in S : files[j].mtime \in Nat
      /\ \A j \in S : f[j] \in Nat
  BY ListFacts, FS_Subset
<1>2. \A T \in SUBSET S : IsFiniteSet(T) /\ Bytes(files, T) = Sum(f, T)
  BY <1>1, FS_Subset, BytesIsSum
<1> HIDE DEF f
<1>3. \A T \in SUBSET S : Sum(f, T) \in Nat BY <1>1, <1>2, SumType
<1>4. i \in S /\ Bytes(files, older) < Bytes(files, S) - MaxBytes
  BY DEF OverCap
<1>5. \A j \in S \ older : files[j].mtime >= files[i].mtime
  BY <1>1, <1>4 DEF Older
<1>6. older \in SUBSET S OBVIOUS
<1> HIDE DEF older
<1>7. Sum(f, S) = Sum(f, older) + Sum(f, S \ older)
  BY <1>1, <1>6, SumSplit
<1>8. Sum(f, older) < Sum(f, S) - MaxBytes BY <1>2, <1>4, <1>6
<1>9. Sum(f, S \ older) > MaxBytes
  <2>1. /\ Sum(f, S) \in Nat /\ Sum(f, older) \in Nat
        /\ Sum(f, S \ older) \in Nat
    BY <1>3, <1>6
  <2> QED BY <1>7, <1>8, <2>1, PolicyAssumption
<1>10. S \ older \in SUBSET S OBVIOUS
<1> QED BY <1>5, <1>9, <1>10 DEF f

LEMMA SelectionIsInList ==
    ASSUME NEW files, NEW now
    PROVE  SelectForDeletion(files, now) \subseteq DOMAIN files
  BY DEF SelectForDeletion, ExpiredFiles, OverCap

\* What select_for_deletion leaves: nothing past its time to live, and no
\* more bytes than the cap.  The tests of retention.py check examples of it.
THEOREM SelectionFits ==
    ASSUME NEW Names, NEW files \in Seq(TrashEntry(Names)), NEW now \in Int
    PROVE  LET kept == DOMAIN files \ SelectForDeletion(files, now)
           IN  /\ Bytes(files, kept) <= MaxBytes
               /\ \A i \in kept : files[i].mtime >= now - TTL
<1> DEFINE expired == ExpiredFiles(files, now)
           S == DOMAIN files \ expired
           kept == DOMAIN files \ SelectForDeletion(files, now)
<1>1. kept = S \ OverCap(files, S) BY DEF SelectForDeletion
<1>2. Bytes(files, kept) <= MaxBytes BY <1>1, OverCapFits
<1>3. \A i \in S : files[i].mtime >= now - TTL
  BY ListFacts, PolicyAssumption DEF ExpiredFiles
<1> QED BY <1>1, <1>2, <1>3
=============================================================================
