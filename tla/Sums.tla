-------------------------------- MODULE Sums --------------------------------
(***************************************************************************)
(* What Min and MapThenSumSet of the community modules compute: facts      *)
(* about least members and about sums over finite sets, proved from the    *)
(* definitions.                                                            *)
(***************************************************************************)
EXTENDS Integers, FiniteSets, FiniteSetsExt, FiniteSetTheorems, TLAPS

Pick(s) == CHOOSE x \in s : TRUE

\* it adds up f over the subsets of S the way MapThenFoldSet does.
Adds(it, f, S) == it = [s \in SUBSET S |-> IF s = {} THEN 0 ELSE f[Pick(s)] + it[s \ {Pick(s)}]]

\* A set of numbers that is not empty has a least member.
LEMMA LeastMember ==
    ASSUME NEW S \in SUBSET Nat, S # {} PROVE \E x \in S : \A y \in S : x <= y
<1>1. IsWellFoundedOn(OpToRel(<, Nat), Nat)
    BY NatLessThanWellFounded
<1>2. PICK x \in S : \A y \in S : <<y, x>> \notin OpToRel(<, Nat)
    BY <1>1, WFMin
<1>3. \A y \in S : y < x => <<y, x>> \in OpToRel(<, Nat)
    BY DEF OpToRel
<1>4. \A y \in S : ~(y < x)
    BY <1>2, <1>3, Zenon
<1>5. x \in Nat /\ \A y \in S : y \in Nat
    OBVIOUS
<1>6. \A y \in S : x <= y
    BY <1>4, <1>5, SMT
<1> QED
    BY <1>6

\* A set of finite subsets that is not empty has a smallest member.
LEMMA Smallest ==
    ASSUME NEW S, IsFiniteSet(S), NEW bad \in SUBSET (SUBSET S), bad # {}
    PROVE  \E s \in bad : \A t \in SUBSET s : t # s => t \notin bad
<1>1. FiniteSubsetsOf(S) = SUBSET S
    BY FS_FiniteSubsetsOfFinite
<1>2. \E x \in bad : \A y \in bad : <<y, x>> \notin StrictSubsetOrdering(S)
    BY <1>1, FS_StrictSubsetOrderingWellFounded, WFMin
<1> QED
    BY <1>2 DEF StrictSubsetOrdering

LEMMA PickIn == ASSUME NEW s, s # {} PROVE Pick(s) \in s
<1> QED
    BY DEF Pick

LEMMA AddsUnfolds ==
    ASSUME NEW S, NEW f, NEW it, Adds(it, f, S)
    PROVE  \A s \in SUBSET S : it[s] = IF s = {} THEN 0 ELSE f[Pick(s)] + it[s \ {Pick(s)}]
<1> QED
    BY DEF Adds

LEMMA AddsUnique ==
    ASSUME NEW S, IsFiniteSet(S), NEW f, NEW it, NEW T, NEW jt, Adds(it, f, S), Adds(jt, f, T), S \subseteq T
    PROVE  it[S] = jt[S]
<1> DEFINE bad == {s \in SUBSET S : it[s] # jt[s]}
<1> SUFFICES bad = {}
    OBVIOUS
<1>1. bad \in SUBSET (SUBSET S)
    OBVIOUS
<1>2. ASSUME NEW s \in SUBSET S, \A t \in SUBSET s : t # s => t \notin bad PROVE s \notin bad
  <2>1. it[s] = (IF s = {} THEN 0 ELSE f[Pick(s)] + it[s \ {Pick(s)}])
    BY AddsUnfolds
  <2>2. \A t \in SUBSET T : jt[t] = (IF t = {} THEN 0 ELSE f[Pick(t)] + jt[t \ {Pick(t)}])
    BY AddsUnfolds
  <2>3. jt[s] = (IF s = {} THEN 0 ELSE f[Pick(s)] + jt[s \ {Pick(s)}])
    BY <2>2
  <2>4. s # {} => it[s \ {Pick(s)}] = jt[s \ {Pick(s)}]
    BY <1>2, PickIn
  <2> QED
    BY <2>1, <2>3, <2>4
<1> HIDE DEF bad
<1>3. bad # {} => \E s \in bad : \A t \in SUBSET s : t # s => t \notin bad
    BY <1>1, Smallest
<1> QED
    BY <1>1, <1>2, <1>3

LEMMA AddsExist ==
    ASSUME NEW S, IsFiniteSet(S), NEW f
    PROVE  \E it : Adds(it, f, S)
<1> DEFINE bad == {s \in SUBSET S : ~ \E it : Adds(it, f, s)}
<1> SUFFICES bad = {}
    OBVIOUS
<1>1. bad \in SUBSET (SUBSET S)
    OBVIOUS
<1>2. ASSUME NEW s \in SUBSET S, \A t \in SUBSET s : t # s => t \notin bad PROVE s \notin bad
  <2> DEFINE Of(t) == CHOOSE it : Adds(it, f, t)
             below == [t \in SUBSET s |-> Of(t)[t]]
             sum == [t \in SUBSET s |-> IF t = {} THEN 0 ELSE f[Pick(t)] + below[t \ {Pick(t)}]]
  <2>1. ASSUME NEW t \in SUBSET s, t # s PROVE Adds(Of(t), f, t)
    <3>1. \E it : Adds(it, f, t)
      BY <1>2, <2>1
    <3> QED
      BY <3>1
  <2> HIDE DEF Of
  <2>2. ASSUME NEW t \in SUBSET s, t # s PROVE below[t] = sum[t]
    <3>1. Of(t)[t] = IF t = {} THEN 0 ELSE f[Pick(t)] + Of(t)[t \ {Pick(t)}]
      BY <2>1, <2>2, AddsUnfolds
    <3>2. CASE t = {}
      BY <3>1, <3>2
    <3>3. CASE t # {}
      <4> DEFINE u == t \ {Pick(t)}
      <4>1. u \in SUBSET s /\ u # s /\ u \subseteq t /\ IsFiniteSet(u)
        BY <2>2, <3>3, PickIn, FS_Subset
      <4>2. Of(u)[u] = Of(t)[u]
        BY <2>1, <2>2, <4>1, AddsUnique
      <4> QED
        BY <3>1, <3>3, <4>1, <4>2
    <3> QED
      BY <3>2, <3>3
  <2>3. \A t \in SUBSET s : t # {} => below[t \ {Pick(t)}] = sum[t \ {Pick(t)}]
    BY <2>2, PickIn
  <2>4. \A t \in SUBSET s : sum[t] = IF t = {} THEN 0 ELSE f[Pick(t)] + sum[t \ {Pick(t)}]
    BY <2>3
  <2>5. sum = [t \in SUBSET s |-> sum[t]]
    OBVIOUS
  <2> HIDE DEF sum
  <2>6. sum = [t \in SUBSET s |-> IF t = {} THEN 0 ELSE f[Pick(t)] + sum[t \ {Pick(t)}]]
    BY <2>4, <2>5
  <2> QED
    BY <2>6 DEF Adds
<1> HIDE DEF bad
<1>3. bad # {} => \E s \in bad : \A t \in SUBSET s : t # s => t \notin bad
    BY <1>1, Smallest
<1> QED
    BY <1>1, <1>2, <1>3

Total(f, S) == (CHOOSE it : Adds(it, f, S))[S]

LEMMA TotalIs ==
    ASSUME NEW S, IsFiniteSet(S), NEW f, NEW it, Adds(it, f, S)
    PROVE  \A T \in SUBSET S : it[T] = Total(f, T)
<1> SUFFICES ASSUME NEW T \in SUBSET S PROVE it[T] = Total(f, T)
    OBVIOUS
<1>1. IsFiniteSet(T)
    BY FS_Subset
<1>2. \E jt : Adds(jt, f, T)
    BY <1>1, AddsExist
<1>3. PICK jt : jt = CHOOSE x : Adds(x, f, T)
    OBVIOUS
<1>4. Adds(jt, f, T)
    BY <1>2, <1>3
<1>5. jt[T] = it[T]
    BY <1>1, <1>4, AddsUnique
<1> QED
    BY <1>3, <1>5 DEF Total

LEMMA TotalPicks ==
    ASSUME NEW S, IsFiniteSet(S), NEW f
    PROVE  Total(f, S) = IF S = {} THEN 0 ELSE f[Pick(S)] + Total(f, S \ {Pick(S)})
<1>1. PICK it : Adds(it, f, S)
    BY AddsExist
<1>2. it[S] = IF S = {} THEN 0 ELSE f[Pick(S)] + it[S \ {Pick(S)}]
    BY <1>1, AddsUnfolds
<1>3. it[S] = Total(f, S) /\ it[S \ {Pick(S)}] = Total(f, S \ {Pick(S)})
    BY <1>1, TotalIs
<1> QED
    BY <1>2, <1>3

LEMMA TotalEmpty == ASSUME NEW f PROVE Total(f, {}) = 0
<1> QED
    BY FS_EmptySet, TotalPicks

\* The library's operator, applied to an operator that agrees with a function.
LEMMA MapThenSumSetIsTotal ==
    ASSUME NEW S, IsFiniteSet(S), NEW f
    PROVE  MapThenSumSet(LAMBDA x : f[x], S) = Total(f, S)
<1>1. PICK it : Adds(it, f, S)
    BY AddsExist
<1> DEFINE fold == CHOOSE iter : iter = [s \in SUBSET S |-> IF s = {} THEN 0 ELSE f[CHOOSE x \in s : TRUE] + iter[s \ {CHOOSE x \in s : TRUE}]]
<1>2. MapThenSumSet(LAMBDA x : f[x], S) = fold[S]
    BY DEF MapThenSumSet, MapThenFoldSet
<1>3. Adds(fold, f, S)
    BY <1>1 DEF Adds, Pick
<1> QED
    BY <1>2, <1>3, TotalIs

LEMMA TotalType ==
    ASSUME NEW S, IsFiniteSet(S), NEW f, \A x \in S : f[x] \in Int
    PROVE  Total(f, S) \in Int
<1> DEFINE bad == {s \in SUBSET S : Total(f, s) \notin Int}
<1> SUFFICES bad = {}
    OBVIOUS
<1>1. bad \in SUBSET (SUBSET S)
    OBVIOUS
<1>2. ASSUME NEW s \in SUBSET S, \A t \in SUBSET s : t # s => t \notin bad PROVE s \notin bad
  <2>1. Total(f, s) = IF s = {} THEN 0 ELSE f[Pick(s)] + Total(f, s \ {Pick(s)})
    BY FS_Subset, TotalPicks
  <2>2. s # {} => Total(f, s \ {Pick(s)}) \in Int /\ f[Pick(s)] \in Int
    BY <1>2, PickIn
  <2> QED
    BY <2>1, <2>2
<1> HIDE DEF bad
<1>3. bad # {} => \E s \in bad : \A t \in SUBSET s : t # s => t \notin bad
    BY <1>1, Smallest
<1> QED
    BY <1>1, <1>2, <1>3

LEMMA TotalRemove ==
    ASSUME NEW S, IsFiniteSet(S), NEW f, \A x \in S : f[x] \in Int
    PROVE  \A x \in S : Total(f, S) = f[x] + Total(f, S \ {x})
<1> DEFINE bad == {s \in SUBSET S : \E x \in s : Total(f, s) # f[x] + Total(f, s \ {x})}
<1> SUFFICES bad = {}
    OBVIOUS
<1>1. bad \in SUBSET (SUBSET S)
    OBVIOUS
<1>2. ASSUME NEW s \in SUBSET S, \A t \in SUBSET s : t # s => t \notin bad PROVE s \notin bad
  <2> SUFFICES ASSUME NEW x \in s PROVE Total(f, s) = f[x] + Total(f, s \ {x})
    OBVIOUS
  <2>1. PICK p \in s : p = Pick(s)
    BY PickIn
  <2>2. Total(f, s) = f[p] + Total(f, s \ {p})
    BY <2>1, FS_Subset, TotalPicks
  <2>3. CASE x = p
    BY <2>2, <2>3
  <2>4. CASE x # p
    <3>1. Total(f, s \ {p}) = f[x] + Total(f, (s \ {p}) \ {x})
      <4>1. s \ {p} \in SUBSET s /\ s \ {p} # s /\ x \in s \ {p}
        BY <2>4
      <4> QED
        BY <1>2, <4>1
    <3>2. Total(f, s \ {x}) = f[p] + Total(f, (s \ {x}) \ {p})
      <4>1. s \ {x} \in SUBSET s /\ s \ {x} # s /\ p \in s \ {x}
        BY <2>4
      <4> QED
        BY <1>2, <4>1
    <3>3. (s \ {p}) \ {x} = (s \ {x}) \ {p}
      OBVIOUS
    <3>4. Total(f, (s \ {x}) \ {p}) \in Int
      <4>1. (s \ {x}) \ {p} \in SUBSET S
        OBVIOUS
      <4> QED
        BY <4>1, FS_Subset, TotalType
    <3>5. PICK rest \in Int : rest = Total(f, (s \ {x}) \ {p})
      BY <3>4
    <3>6. Total(f, s) = f[p] + (f[x] + rest) /\ Total(f, s \ {x}) = f[p] + rest
      BY <2>2, <3>1, <3>2, <3>3, <3>5
    <3>7. f[p] \in Int /\ f[x] \in Int
      OBVIOUS
    <3> QED
      BY <3>5, <3>6, <3>7
  <2> QED
    BY <2>3, <2>4
<1> HIDE DEF bad
<1>3. bad # {} => \E s \in bad : \A t \in SUBSET s : t # s => t \notin bad
    BY <1>1, Smallest
<1> QED
    BY <1>1, <1>2, <1>3

LEMMA TotalAdd ==
    ASSUME NEW S, IsFiniteSet(S), NEW f, NEW x, x \notin S, \A y \in S \cup {x} : f[y] \in Int
    PROVE  Total(f, S \cup {x}) = f[x] + Total(f, S)
<1>1. IsFiniteSet(S \cup {x})
    BY FS_AddElement
<1>2. (S \cup {x}) \ {x} = S
    OBVIOUS
<1>3. \A y \in S \cup {x} : Total(f, S \cup {x}) = f[y] + Total(f, (S \cup {x}) \ {y})
    BY <1>1, TotalRemove
<1> QED
    BY <1>2, <1>3

LEMMA TotalSame ==
    ASSUME NEW S, IsFiniteSet(S), NEW f, NEW g, \A x \in S : f[x] = g[x]
    PROVE  Total(f, S) = Total(g, S)
<1> DEFINE bad == {s \in SUBSET S : Total(f, s) # Total(g, s)}
<1> SUFFICES bad = {}
    OBVIOUS
<1>1. bad \in SUBSET (SUBSET S)
    OBVIOUS
<1>2. ASSUME NEW s \in SUBSET S, \A t \in SUBSET s : t # s => t \notin bad PROVE s \notin bad
  <2>1. /\ Total(f, s) = IF s = {} THEN 0 ELSE f[Pick(s)] + Total(f, s \ {Pick(s)})
        /\ Total(g, s) = IF s = {} THEN 0 ELSE g[Pick(s)] + Total(g, s \ {Pick(s)})
    BY FS_Subset, TotalPicks
  <2>2. s # {} => Total(f, s \ {Pick(s)}) = Total(g, s \ {Pick(s)}) /\ f[Pick(s)] = g[Pick(s)]
    BY <1>2, PickIn
  <2> QED
    BY <2>1, <2>2
<1> HIDE DEF bad
<1>3. bad # {} => \E s \in bad : \A t \in SUBSET s : t # s => t \notin bad
    BY <1>1, Smallest
<1> QED
    BY <1>1, <1>2, <1>3

\* A sum over part of a set is at most the sum of larger numbers over the whole.
LEMMA TotalMonotone ==
    ASSUME NEW S, IsFiniteSet(S), NEW f, NEW g, NEW T \in SUBSET S,
           \A x \in S : f[x] \in Int /\ g[x] \in Nat, \A x \in T : f[x] <= g[x]
    PROVE  Total(f, T) <= Total(g, S)
<1> DEFINE bad == {s \in SUBSET S : ~(Total(f, T \cap s) <= Total(g, s))}
<1> SUFFICES bad = {}
  <2>1. S \notin bad => Total(f, T \cap S) <= Total(g, S)
    OBVIOUS
  <2>2. T \cap S = T
    OBVIOUS
  <2> QED
    BY <2>1, <2>2
<1>1. bad \in SUBSET (SUBSET S)
    OBVIOUS
<1>2. ASSUME NEW s \in SUBSET S, \A t \in SUBSET s : t # s => t \notin bad PROVE s \notin bad
  <2>0. IsFiniteSet(s) /\ IsFiniteSet(T \cap s)
    BY FS_Subset
  <2>1. CASE s = {}
    <3>1. T \cap s = {}
      BY <2>1
    <3>2. Total(f, T \cap s) = 0 /\ Total(g, s) = 0
      BY <2>0, <2>1, <3>1, TotalPicks
    <3> QED
      BY <3>2
  <2>2. CASE s # {}
    <3>1. PICK x \in s : TRUE
      BY <2>2
    <3>2. PICK rest : rest = s \ {x}
      OBVIOUS
    <3>3. Total(f, T \cap rest) <= Total(g, rest)
      BY <1>2, <3>1, <3>2
    <3>4. Total(g, s) = g[x] + Total(g, rest)
      BY <2>0, <3>1, <3>2, TotalRemove
    <3>5. Total(f, T \cap s) = IF x \in T THEN f[x] + Total(f, T \cap rest) ELSE Total(f, T \cap rest)
      <4>1. CASE x \in T
        <5>1. (T \cap s) \ {x} = T \cap rest /\ x \in T \cap s
          BY <3>1, <3>2, <4>1
        <5>2. \A y \in T \cap s : f[y] \in Int
          OBVIOUS
        <5>3. Total(f, T \cap s) = f[x] + Total(f, (T \cap s) \ {x})
          BY <2>0, <5>1, <5>2, TotalRemove
        <5> QED
          BY <4>1, <5>1, <5>3
      <4>2. CASE x \notin T
        BY <3>2, <4>2
      <4> QED
        BY <4>1, <4>2
    <3>6. Total(f, T \cap rest) \in Int /\ Total(g, rest) \in Int
      <4>1. rest \in SUBSET s /\ T \cap rest \in SUBSET s
        BY <3>2
      <4>2. IsFiniteSet(rest) /\ IsFiniteSet(T \cap rest)
        BY <2>0, <4>1, FS_Subset
      <4>3. (\A y \in T \cap rest : f[y] \in Int) /\ (\A y \in rest : g[y] \in Int)
        BY <4>1
      <4> QED
        BY <4>2, <4>3, TotalType
    <3>7. g[x] \in Nat /\ f[x] \in Int /\ (x \in T => f[x] <= g[x])
      BY <3>1
    <3> QED
      BY <3>3, <3>4, <3>5, <3>6, <3>7
  <2> QED
    BY <2>1, <2>2
<1> HIDE DEF bad
<1>3. bad # {} => \E s \in bad : \A t \in SUBSET s : t # s => t \notin bad
    BY <1>1, Smallest
<1> QED
    BY <1>1, <1>2, <1>3

\* Numbering a set apart from the sum: what of[x] is worth for every x of S, when of
\* takes no two members of S to the same place.
LEMMA TotalImage ==
    ASSUME NEW S, IsFiniteSet(S), NEW R, IsFiniteSet(R), NEW h, \A y \in R : h[y] \in Nat,
           NEW of, \A x \in S : of[x] \in R, \A x, y \in S : of[x] = of[y] => x = y,
           NEW f, \A x \in S : f[x] = h[of[x]]
    PROVE  Total(f, S) <= Total(h, R)
<1> DEFINE bad == {s \in SUBSET S : Total(f, s) # Total(h, {of[x] : x \in s})}
<1>1. bad \in SUBSET (SUBSET S)
    OBVIOUS
<1>2. ASSUME NEW s \in SUBSET S, \A t \in SUBSET s : t # s => t \notin bad PROVE s \notin bad
  <2>1. IsFiniteSet(s)
    BY FS_Subset
  <2>2. CASE s = {}
    BY <2>2, TotalEmpty
  <2>3. CASE s # {}
    <3>1. PICK x \in s : TRUE
      BY <2>3
    <3>2. PICK rest \in SUBSET s : rest = s \ {x}
      OBVIOUS
    <3>3. PICK places \in SUBSET R : places = {of[y] : y \in rest}
      <4>1. \A y \in rest : of[y] \in R
        OBVIOUS
      <4>2. {of[y] : y \in rest} \in SUBSET R
        BY <4>1
      <4> QED
        BY <4>2
    <3>4. Total(f, rest) = Total(h, places)
      BY <1>2, <3>1, <3>2, <3>3
    <3>5. Total(f, s) = f[x] + Total(f, rest)
      BY <2>1, <3>1, <3>2, TotalRemove
    <3>6. of[x] \in R /\ of[x] \notin places /\ {of[y] : y \in s} = places \cup {of[x]}
      BY <3>1, <3>2, <3>3
    <3>7. IsFiniteSet(places) /\ \A y \in places \cup {of[x]} : h[y] \in Int
      BY <3>6, FS_Subset
    <3>8. Total(h, places \cup {of[x]}) = h[of[x]] + Total(h, places)
      BY <3>6, <3>7, TotalAdd
    <3> QED
      BY <3>1, <3>4, <3>5, <3>6, <3>8
  <2> QED
    BY <2>2, <2>3
<1>3. bad = {}
  <2> HIDE DEF bad
  <2>1. bad # {} => \E s \in bad : \A t \in SUBSET s : t # s => t \notin bad
    BY <1>1, Smallest
  <2> QED
    BY <1>1, <1>2, <2>1
<1>4. PICK image \in SUBSET R : image = {of[x] : x \in S}
    OBVIOUS
<1>5. Total(f, S) = Total(h, image)
    BY <1>3, <1>4
<1>6. Total(h, image) <= Total(h, R)
    BY TotalMonotone
<1> QED
    BY <1>5, <1>6

LEMMA TotalNat ==
    ASSUME NEW S, IsFiniteSet(S), NEW f, \A x \in S : f[x] \in Nat
    PROVE  Total(f, S) \in Nat
<1>1. {} \in SUBSET S /\ Total(f, {}) = 0
    BY TotalEmpty
<1>2. Total(f, {}) <= Total(f, S)
    BY <1>1, TotalMonotone
<1>3. Total(f, S) \in Int
    BY TotalType
<1> QED
    BY <1>1, <1>2, <1>3

\* A sum over a set is that over a part and that over the rest.
LEMMA TotalSplit ==
    ASSUME NEW S, IsFiniteSet(S), NEW f, \A x \in S : f[x] \in Int, NEW A \in SUBSET S
    PROVE  Total(f, S) = Total(f, A) + Total(f, S \ A)
<1> DEFINE bad == {s \in SUBSET S : Total(f, s) # Total(f, A \cap s) + Total(f, s \ A)}
<1>1. bad \in SUBSET (SUBSET S)
    OBVIOUS
<1>2. ASSUME NEW s \in SUBSET S, \A t \in SUBSET s : t # s => t \notin bad PROVE s \notin bad
  <2>1. IsFiniteSet(s) /\ IsFiniteSet(A \cap s) /\ IsFiniteSet(s \ A)
    BY FS_Subset
  <2>2. CASE s = {}
    <3>1. A \cap s = {} /\ s \ A = {}
      BY <2>2
    <3> QED
      BY <2>2, <3>1, TotalEmpty
  <2>3. CASE s # {}
    <3>1. PICK x \in s : TRUE
      BY <2>3
    <3>2. PICK rest \in SUBSET s : rest = s \ {x}
      OBVIOUS
    <3>3. Total(f, rest) = Total(f, A \cap rest) + Total(f, rest \ A)
      BY <1>2, <3>1, <3>2
    <3>4. PICK a \in Int, b \in Int, k \in Int : a = Total(f, A \cap rest) /\ b = Total(f, rest \ A) /\ k = f[x]
      <4>1. IsFiniteSet(A \cap rest) /\ IsFiniteSet(rest \ A)
        BY <2>1, FS_Subset
      <4>2. (\A y \in A \cap rest : f[y] \in Int) /\ (\A y \in rest \ A : f[y] \in Int)
        OBVIOUS
      <4> QED
        BY <4>1, <4>2, TotalType
    <3>5. Total(f, s) = k + (a + b)
      <4>1. Total(f, s) = f[x] + Total(f, rest)
        BY <2>1, <3>1, <3>2, TotalRemove
      <4> QED
        BY <3>3, <3>4, <4>1
    <3>6. CASE x \in A
      <4>1. s \ A = rest \ A /\ (A \cap s) \ {x} = A \cap rest /\ x \in A \cap s
        BY <3>1, <3>2, <3>6
      <4>2. \A y \in A \cap s : f[y] \in Int
        OBVIOUS
      <4>3. Total(f, A \cap s) = k + a
        <5>1. Total(f, A \cap s) = f[x] + Total(f, (A \cap s) \ {x})
          BY <2>1, <4>1, <4>2, TotalRemove
        <5> QED
          BY <3>4, <4>1, <5>1
      <4>4. Total(f, s \ A) = b
        BY <3>4, <4>1
      <4> QED
        BY <3>4, <3>5, <4>3, <4>4
    <3>7. CASE x \notin A
      <4>1. A \cap s = A \cap rest /\ (s \ A) \ {x} = rest \ A /\ x \in s \ A
        BY <3>1, <3>2, <3>7
      <4>2. \A y \in s \ A : f[y] \in Int
        OBVIOUS
      <4>3. Total(f, s \ A) = k + b
        <5>1. Total(f, s \ A) = f[x] + Total(f, (s \ A) \ {x})
          BY <2>1, <4>1, <4>2, TotalRemove
        <5> QED
          BY <3>4, <4>1, <5>1
      <4>4. Total(f, A \cap s) = a
        BY <3>4, <4>1
      <4> QED
        BY <3>4, <3>5, <4>3, <4>4
    <3> QED
      BY <3>6, <3>7
  <2> QED
    BY <2>2, <2>3
<1>3. S \notin bad
  <2> HIDE DEF bad
  <2>1. bad # {} => \E s \in bad : \A t \in SUBSET s : t # s => t \notin bad
    BY <1>1, Smallest
  <2> QED
    BY <1>1, <1>2, <2>1
<1>4. A \cap S = A
    OBVIOUS
<1> QED
    BY <1>3, <1>4

LEMMA TotalPlus ==
    ASSUME NEW S, IsFiniteSet(S), NEW f, NEW g, NEW h, \A x \in S : g[x] \in Int /\ h[x] \in Int,
           \A x \in S : f[x] = g[x] + h[x]
    PROVE  Total(f, S) = Total(g, S) + Total(h, S)
<1> DEFINE bad == {s \in SUBSET S : Total(f, s) # Total(g, s) + Total(h, s)}
<1>1. bad \in SUBSET (SUBSET S)
    OBVIOUS
<1>2. ASSUME NEW s \in SUBSET S, \A t \in SUBSET s : t # s => t \notin bad PROVE s \notin bad
  <2>1. IsFiniteSet(s)
    BY FS_Subset
  <2>2. CASE s = {}
    BY <2>2, TotalEmpty
  <2>3. CASE s # {}
    <3>1. PICK x \in s : TRUE
      BY <2>3
    <3>2. PICK rest \in SUBSET s : rest = s \ {x}
      OBVIOUS
    <3>3. Total(f, rest) = Total(g, rest) + Total(h, rest)
      BY <1>2, <3>1, <3>2
    <3>4. (\A y \in s : f[y] \in Int) /\ (\A y \in s : g[y] \in Int) /\ (\A y \in s : h[y] \in Int)
      OBVIOUS
    <3>5. Total(f, s) = f[x] + Total(f, rest)
      BY <2>1, <3>1, <3>2, <3>4, TotalRemove
    <3>6. Total(g, s) = g[x] + Total(g, rest)
      BY <2>1, <3>1, <3>2, <3>4, TotalRemove
    <3>7. Total(h, s) = h[x] + Total(h, rest)
      BY <2>1, <3>1, <3>2, <3>4, TotalRemove
    <3>8. Total(g, rest) \in Int /\ Total(h, rest) \in Int
      BY <2>1, <3>4, FS_Subset, TotalType
    <3> QED
      BY <3>1, <3>3, <3>5, <3>6, <3>7, <3>8
  <2> QED
    BY <2>2, <2>3
<1>3. S \notin bad
  <2> HIDE DEF bad
  <2>1. bad # {} => \E s \in bad : \A t \in SUBSET s : t # s => t \notin bad
    BY <1>1, Smallest
  <2> QED
    BY <1>1, <1>2, <2>1
<1> QED
    BY <1>3

\* One summand grows by at most d, no other one grows.
LEMMA TotalRaised ==
    ASSUME NEW S, IsFiniteSet(S), NEW f, NEW g, \A x \in S : f[x] \in Nat /\ g[x] \in Nat,
           NEW x \in S, NEW d \in Nat, f[x] <= g[x] + d, \A y \in S \ {x} : f[y] <= g[y]
    PROVE  Total(f, S) <= Total(g, S) + d
<1>1. (\A y \in S : f[y] \in Int) /\ (\A y \in S : g[y] \in Int)
    OBVIOUS
<1>2. Total(f, S) = f[x] + Total(f, S \ {x})
    BY <1>1, TotalRemove
<1>3. Total(g, S) = g[x] + Total(g, S \ {x})
    BY <1>1, TotalRemove
<1>4. IsFiniteSet(S \ {x}) /\ S \ {x} \in SUBSET (S \ {x})
    BY FS_Subset
<1>5. \A y \in S \ {x} : f[y] \in Int /\ g[y] \in Nat
    OBVIOUS
<1>6. Total(f, S \ {x}) <= Total(g, S \ {x})
    BY <1>4, <1>5, TotalMonotone
<1>7. Total(f, S \ {x}) \in Int /\ Total(g, S \ {x}) \in Int
    BY <1>1, <1>4, TotalType
<1> QED
    BY <1>2, <1>3, <1>6, <1>7

\* Summands of A take over at most what their mates outside A, which go to zero, had.
LEMMA TotalMoved ==
    ASSUME NEW S, IsFiniteSet(S), NEW f, NEW g, \A x \in S : f[x] \in Nat /\ g[x] \in Nat,
           NEW A \in SUBSET S, NEW mate, \A a \in A : mate[a] \in S \ A,
           \A a, b \in A : mate[a] = mate[b] => a = b,
           \A a \in A : f[a] <= g[a] + g[mate[a]] /\ f[mate[a]] = 0,
           \A x \in S \ A : f[x] <= g[x]
    PROVE  Total(f, S) <= Total(g, S)
<1>1. PICK M \in SUBSET (S \ A) : M = {mate[a] : a \in A}
  <2>1. {mate[a] : a \in A} \in SUBSET (S \ A)
    OBVIOUS
  <2> QED
    BY <2>1
<1>2. PICK R \in SUBSET (S \ A) : R = (S \ A) \ M
    OBVIOUS
<1>3. IsFiniteSet(A) /\ IsFiniteSet(S \ A) /\ IsFiniteSet(M) /\ IsFiniteSet(R)
    BY <1>1, <1>2, FS_Subset
<1>4. (\A x \in S : f[x] \in Int) /\ (\A x \in S : g[x] \in Int)
    OBVIOUS
<1>5. PICK gain : gain = [a \in A |-> g[mate[a]]]
    OBVIOUS
<1>6. PICK raised : raised = [a \in A |-> g[a] + gain[a]]
    OBVIOUS
<1>7. \A a \in A : gain[a] \in Nat /\ gain[a] = g[mate[a]] /\ raised[a] = g[a] + gain[a]
    BY <1>5, <1>6
<1>8. Total(gain, A) <= Total(g, M)
  <2>1. (\A y \in M : g[y] \in Nat) /\ (\A a \in A : mate[a] \in M)
    BY <1>1
  <2>2. \A a \in A : gain[a] = g[mate[a]]
    BY <1>7
  <2> QED
    BY <1>3, <2>1, <2>2, TotalImage
<1>9. Total(raised, A) = Total(g, A) + Total(gain, A)
    BY <1>3, <1>4, <1>7, TotalPlus
<1>10. Total(f, A) <= Total(raised, A)
  <2>1. \A a \in A : f[a] \in Int /\ raised[a] \in Nat
    BY <1>7
  <2>2. A \in SUBSET A /\ \A a \in A : f[a] <= raised[a]
    BY <1>7
  <2> QED
    BY <1>3, <2>1, <2>2, TotalMonotone
<1>11. Total(f, R) <= Total(g, R)
  <2>1. R \in SUBSET R /\ (\A x \in R : f[x] \in Int /\ g[x] \in Nat) /\ \A x \in R : f[x] <= g[x]
    BY <1>2
  <2> QED
    BY <1>3, <2>1, TotalMonotone
<1>12. Total(f, M) <= 0
  <2>1. PICK none : none = [x \in M |-> 0]
    OBVIOUS
  <2>2. M \in SUBSET M /\ (\A x \in M : f[x] \in Int /\ none[x] \in Nat) /\ \A x \in M : f[x] <= none[x]
    BY <1>1, <2>1
  <2>3. Total(f, M) <= Total(none, M)
    BY <1>3, <2>2, TotalMonotone
  <2>4. \A x \in M : none[x] \in Int /\ none[x] = none[x] + none[x]
    BY <2>1
  <2>5. Total(none, M) = Total(none, M) + Total(none, M)
    BY <1>3, <2>4, TotalPlus
  <2>6. PICK zero \in Int : zero = Total(none, M)
    BY <1>3, <2>4, TotalType
  <2>7. zero = zero + zero
    BY <2>5, <2>6, Zenon
  <2>8. zero = 0
    BY <2>7
  <2> QED
    BY <2>3, <2>6, <2>8
<1>13. /\ Total(f, S) = Total(f, A) + Total(f, S \ A)
       /\ Total(g, S) = Total(g, A) + Total(g, S \ A)
    BY <1>4, TotalSplit
<1>14. /\ Total(f, S \ A) = Total(f, M) + Total(f, R)
       /\ Total(g, S \ A) = Total(g, M) + Total(g, R)
  <2>1. (\A x \in S \ A : f[x] \in Int) /\ (\A x \in S \ A : g[x] \in Int)
    OBVIOUS
  <2> QED
    BY <1>1, <1>2, <1>3, <2>1, TotalSplit
<1>15. \A T \in {A, M, R} : Total(f, T) \in Int /\ Total(g, T) \in Int
  <2>1. \A T \in {A, M, R} : IsFiniteSet(T) /\ (\A x \in T : f[x] \in Int) /\ (\A x \in T : g[x] \in Int)
    BY <1>1, <1>2, <1>3, <1>4
  <2> QED
    BY <2>1, TotalType
<1>16. Total(gain, A) \in Int
    BY <1>3, <1>7, TotalType
<1> QED
    BY <1>8, <1>9, <1>10, <1>11, <1>12, <1>13, <1>14, <1>15, <1>16

LEMMA Adding ==
    ASSUME NEW a \in Int, NEW b \in Int, NEW k \in Int
    PROVE  (a + b) * k = a * k + b * k
<1> QED
    OBVIOUS

LEMMA LinearStep ==
    ASSUME NEW units \in Nat, NEW price \in Int, NEW slack \in Nat, NEW a \in Int, NEW b \in Int, NEW c \in Int,
           NEW x \in Int, NEW y \in Int,
           a * units <= b * price + c * slack, x * units <= y * price + slack
    PROVE  (x + a) * units <= (y + b) * price + (c + 1) * slack
<1>1. PICK au \in Int, bp \in Int, cs \in Int, xu \in Int, yp \in Int :
        au = a * units /\ bp = b * price /\ cs = c * slack /\ xu = x * units /\ yp = y * price
    OBVIOUS
<1>2. (x + a) * units = xu + au /\ (y + b) * price = yp + bp /\ (c + 1) * slack = cs + slack
    BY <1>1, Adding
<1>3. au <= bp + cs /\ xu <= yp + slack
    BY <1>1
<1> QED
    BY <1>1, <1>2, <1>3

\* A bound that each summand keeps, added up.
LEMMA TotalLinear ==
    ASSUME NEW S, IsFiniteSet(S), NEW units \in Nat, NEW price \in Int, NEW slack \in Nat,
           NEW f, NEW q, \A x \in S : f[x] \in Int /\ q[x] \in Int,
           \A x \in S : f[x] * units <= q[x] * price + slack
    PROVE  Total(f, S) * units <= Total(q, S) * price + Cardinality(S) * slack
<1> DEFINE bad == {s \in SUBSET S : ~(Total(f, s) * units <= Total(q, s) * price + Cardinality(s) * slack)}
<1>1. bad \in SUBSET (SUBSET S)
    OBVIOUS
<1>2. ASSUME NEW s \in SUBSET S, \A t \in SUBSET s : t # s => t \notin bad PROVE s \notin bad
  <2>1. IsFiniteSet(s)
    BY FS_Subset
  <2>2. CASE s = {}
    <3>1. Total(f, s) = 0 /\ Total(q, s) = 0 /\ Cardinality(s) = 0
      BY <2>2, TotalEmpty, FS_EmptySet
    <3>2. 0 * units <= 0 * price + 0 * slack
      OBVIOUS
    <3> QED
      BY <3>1, <3>2
  <2>3. CASE s # {}
    <3>1. PICK x \in s : TRUE
      BY <2>3
    <3>2. PICK rest \in SUBSET s : rest = s \ {x}
      OBVIOUS
    <3>3. IsFiniteSet(rest) /\ (\A y \in rest : f[y] \in Int) /\ (\A y \in rest : q[y] \in Int)
      BY <2>1, FS_Subset
    <3>4. PICK a \in Int, b \in Int, c \in Int : a = Total(f, rest) /\ b = Total(q, rest) /\ c = Cardinality(rest)
      <4>1. Total(f, rest) \in Int
        BY <3>3, TotalType
      <4>2. Total(q, rest) \in Int
        BY <3>3, TotalType
      <4>3. Cardinality(rest) \in Int
        BY <3>3, FS_CardinalityType
      <4> QED
        BY <4>1, <4>2, <4>3
    <3>5. PICK fx \in Int, qx \in Int : fx = f[x] /\ qx = q[x] /\ fx * units <= qx * price + slack
      OBVIOUS
    <3>6. a * units <= b * price + c * slack
      BY <1>2, <3>1, <3>2, <3>4
    <3>7. Total(f, s) = fx + a
      <4>1. Total(f, s) = f[x] + Total(f, rest)
        BY <2>1, <3>1, <3>2, TotalRemove
      <4> QED
        BY <3>4, <3>5, <4>1, Zenon
    <3>8. Total(q, s) = qx + b
      <4>1. Total(q, s) = q[x] + Total(q, rest)
        BY <2>1, <3>1, <3>2, TotalRemove
      <4> QED
        BY <3>4, <3>5, <4>1, Zenon
    <3>9. Cardinality(s) = c + 1
      <4>1. Cardinality(rest) = Cardinality(s) - 1 /\ Cardinality(s) \in Nat
        BY <2>1, <3>1, <3>2, FS_RemoveElement, FS_CardinalityType
      <4> QED
        BY <3>4, <4>1
    <3>10. (fx + a) * units <= (qx + b) * price + (c + 1) * slack
      BY <3>5, <3>6, LinearStep
    <3> QED
      BY <3>7, <3>8, <3>9, <3>10
  <2> QED
    BY <2>2, <2>3
<1>3. bad = {}
  <2> HIDE DEF bad
  <2>1. bad # {} => \E s \in bad : \A t \in SUBSET s : t # s => t \notin bad
    BY <1>1, Smallest
  <2> QED
    BY <1>1, <1>2, <2>1
<1>4. S \notin bad
    BY <1>3
<1> QED
    BY <1>4

\* Equal summands.
LEMMA TotalConst ==
    ASSUME NEW S, IsFiniteSet(S), NEW d \in Int, NEW f, \A x \in S : f[x] = d
    PROVE  Total(f, S) = Cardinality(S) * d
<1> DEFINE bad == {s \in SUBSET S : Total(f, s) # Cardinality(s) * d}
<1>1. bad \in SUBSET (SUBSET S)
    OBVIOUS
<1>2. ASSUME NEW s \in SUBSET S, \A t \in SUBSET s : t # s => t \notin bad PROVE s \notin bad
  <2>1. IsFiniteSet(s) /\ \A x \in s : f[x] \in Int
    BY FS_Subset
  <2>2. CASE s = {}
    BY <2>2, TotalEmpty, FS_EmptySet
  <2>3. CASE s # {}
    <3>1. PICK x \in s : TRUE
      BY <2>3
    <3>2. PICK rest \in SUBSET s : rest = s \ {x}
      OBVIOUS
    <3>3. PICK c \in Int : c = Cardinality(rest)
      BY <2>1, FS_Subset, FS_CardinalityType
    <3>4. Cardinality(s) = c + 1
      <4>1. Cardinality(rest) = Cardinality(s) - 1 /\ Cardinality(s) \in Nat
        BY <2>1, <3>1, <3>2, FS_RemoveElement, FS_CardinalityType
      <4> QED
        BY <3>3, <4>1
    <3>5. Total(f, rest) = c * d
      BY <1>2, <3>1, <3>2, <3>3
    <3>6. Total(f, s) = d + c * d
      BY <2>1, <3>1, <3>2, <3>5, TotalRemove
    <3>7. (c + 1) * d = c * d + 1 * d /\ c * d \in Int
      BY Adding
    <3> QED
      BY <3>4, <3>6, <3>7
  <2> QED
    BY <2>2, <2>3
<1>3. bad = {}
  <2> HIDE DEF bad
  <2>1. bad # {} => \E s \in bad : \A t \in SUBSET s : t # s => t \notin bad
    BY <1>1, Smallest
  <2> QED
    BY <1>1, <1>2, <2>1
<1>4. S \notin bad
    BY <1>3
<1> QED
    BY <1>4

\* No summand that is natural exceeds the sum.
LEMMA AtMostTotal ==
    ASSUME NEW S, IsFiniteSet(S), NEW f, \A x \in S : f[x] \in Nat
    PROVE  \A x \in S : f[x] <= Total(f, S)
<1> SUFFICES ASSUME NEW x \in S PROVE f[x] <= Total(f, S)
    OBVIOUS
<1>1. Total(f, S) = f[x] + Total(f, S \ {x})
    BY TotalRemove
<1>2. IsFiniteSet(S \ {x}) /\ \A y \in S \ {x} : f[y] \in Nat
    BY FS_Subset
<1>3. Total(f, S \ {x}) \in Nat
    BY <1>2, TotalNat
<1> QED
    BY <1>1, <1>3

\* Integer quotients: what `floor(d * a / b)` is for d up to b, and a factor that cancels.
LEMMA Quotient ==
    ASSUME NEW a \in Nat, NEW b \in Nat \ {0}
    PROVE  a \div b \in Nat /\ (a \div b) * b <= a
<1> QED
    OBVIOUS

LEMMA QuotientUpTo ==
    ASSUME NEW a \in Nat, NEW b \in Nat \ {0}, NEW d \in Nat, d <= b
    PROVE  d * a \in Nat /\ (d * a) \div b \in 0..a /\ ((d * a) \div b) * b <= a * d
<1>1. PICK p \in Nat : p = d * a /\ p = a * d
    OBVIOUS
<1>2. PICK q \in Nat : q = p \div b /\ q * b <= p
    BY Quotient
<1>3. p <= b * a
    BY <1>1
<1>4. q <= a
  <2>1. CASE q >= a + 1
    <3>1. q * b >= (a + 1) * b
      BY <2>1
    <3>2. (a + 1) * b = b * a + b
      OBVIOUS
    <3>3. PICK u \in Int, v \in Int : u = q * b /\ v = b * a
      OBVIOUS
    <3> QED
      BY <1>2, <1>3, <3>1, <3>2, <3>3
  <2> QED
    BY <2>1
<1> QED
    BY <1>1, <1>2, <1>4

LEMMA Cancels ==
    ASSUME NEW a \in Nat, NEW b \in Nat, NEW k \in Nat, k # 0, a * k <= k * b
    PROVE  a <= b
<1>1. CASE a >= b + 1
  <2>1. a * k >= (b + 1) * k
    BY <1>1
  <2>2. (b + 1) * k = k * b + k
    OBVIOUS
  <2>3. PICK u \in Int, v \in Int : u = a * k /\ v = k * b
    OBVIOUS
  <2> QED
    BY <2>1, <2>2, <2>3
<1> QED
    BY <1>1

\* A bounded set of numbers that is not empty has a greatest member.
LEMMA GreatestMember ==
    ASSUME NEW S \in SUBSET Nat, S # {}, NEW n \in Nat, \A y \in S : y <= n PROVE \E x \in S : \A y \in S : x >= y
<1>1. PICK U \in SUBSET Nat : U = {m \in Nat : \A y \in S : y <= m}
    OBVIOUS
<1>2. U # {}
    BY <1>1
<1>3. PICK top \in U : \A m \in U : top <= m
    BY <1>2, LeastMember
<1>4. top \in Nat /\ \A y \in S : y \in Nat /\ y <= top
    BY <1>1
<1>5. CASE top \in S
    BY <1>4, <1>5
<1>6. CASE top \notin S
  <2>1. \A y \in S : y < top
    BY <1>4, <1>6
  <2>2. PICK low \in S : low \in Nat /\ low < top
    BY <1>4, <2>1
  <2>3. PICK below \in Nat : below = top - 1
    BY <1>4, <2>2
  <2>4. \A y \in S : y <= below
    BY <1>4, <2>1, <2>3
  <2>5. below \in U
    BY <1>1, <2>4
  <2> QED
    BY <1>3, <1>4, <2>3, <2>5
<1> QED
    BY <1>5, <1>6

\* The members below a given one are those below the greatest of them, and it.
LEMMA NextSmaller ==
    ASSUME NEW S \in SUBSET Nat, NEW v \in S, NEW below \in SUBSET S, below = {w \in S : w < v}, below # {}
    PROVE  \E u \in below : {w \in S : w < u} = below \ {u}
<1>1. below \in SUBSET Nat /\ v \in Nat /\ \A y \in below : y <= v
  <2>1. below \in SUBSET Nat /\ v \in Nat
    OBVIOUS
  <2>2. ASSUME NEW y \in below PROVE y <= v
    <3>1. y < v /\ y \in Nat
      OBVIOUS
    <3> QED
      BY <2>1, <3>1
  <2> QED
    BY <2>1, <2>2
<1>2. PICK u \in below : \A y \in below : u >= y
    BY <1>1, GreatestMember
<1>3. ASSUME NEW w \in S PROVE w < u <=> w \in below \ {u}
  <2>1. w \in Nat /\ u \in Nat /\ u < v
    BY <1>1
  <2>2. w \in below => u >= w
    BY <1>2
  <2>3. (w < u => w < v /\ w # u) /\ (u >= w /\ w # u => w < u)
    BY <1>1, <2>1
  <2> QED
    BY <2>2, <2>3
<1> QED
    BY <1>3

\* How many members of a finite set of numbers are smaller: every rank below one that some
\* member has is that of another.
LEMMA RanksDense ==
    ASSUME NEW S \in SUBSET Nat, IsFiniteSet(S), NEW rank, \A v \in S : rank[v] = Cardinality({w \in S : w < v})
    PROVE  /\ \A v \in S : rank[v] \in Nat /\ rank[v] < Cardinality(S)
           /\ \A v \in S, k \in Nat : k < rank[v] => \E u \in S : rank[u] = k
<1>1. ASSUME NEW v \in S PROVE rank[v] \in Nat /\ rank[v] < Cardinality(S)
  <2>1. PICK below \in SUBSET (S \ {v}) : below = {w \in S : w < v}
    <3>1. {w \in S : w < v} \in SUBSET (S \ {v})
      OBVIOUS
    <3> QED
      BY <3>1
  <2>2. Cardinality(S) \in Nat /\ IsFiniteSet(S \ {v}) /\ Cardinality(S \ {v}) = Cardinality(S) - 1
    BY FS_RemoveElement, FS_CardinalityType
  <2>3. Cardinality(below) \in Nat /\ Cardinality(below) <= Cardinality(S \ {v})
    BY <2>2, FS_Subset, FS_CardinalityType
  <2> QED
    BY <2>1, <2>2, <2>3
<1>2. ASSUME NEW v \in S, rank[v] # 0 PROVE \E u \in S : rank[u] = rank[v] - 1
  <2>1. PICK below \in SUBSET S : below = {w \in S : w < v}
    OBVIOUS
  <2>2. IsFiniteSet(below) /\ below # {}
    <3>1. Cardinality(below) # 0
      BY <1>2, <2>1
    <3> QED
      BY <3>1, FS_Subset, FS_EmptySet
  <2>3. PICK u \in below : {w \in S : w < u} = below \ {u}
    BY <2>1, <2>2, NextSmaller
  <2>4. Cardinality(below \ {u}) = Cardinality(below) - 1
    BY <2>2, FS_RemoveElement
  <2>5. rank[u] = Cardinality(below) - 1 /\ u \in S
    BY <2>1, <2>3, <2>4
  <2> QED
    BY <2>1, <2>5
<1>3. ASSUME NEW v \in S, NEW k \in Nat, k < rank[v] PROVE \E u \in S : rank[u] = k
  <2> SUFFICES ASSUME \A u \in S : rank[u] # k PROVE FALSE
    OBVIOUS
  <2>1. PICK over \in SUBSET Nat : over = {j \in Nat : j > k /\ \E u \in S : rank[u] = j}
    OBVIOUS
  <2>2. rank[v] \in over
    BY <1>1, <1>3, <2>1
  <2>3. PICK j \in over : \A i \in over : j <= i
    BY <2>2, LeastMember
  <2>4. PICK u \in S : rank[u] = j /\ j \in Nat /\ j > k
    BY <2>1
  <2>5. PICK w \in S : rank[w] = j - 1
    BY <1>2, <2>4
  <2>6. rank[w] \in Nat /\ rank[w] > k
    BY <1>1, <2>4, <2>5
  <2>7. rank[w] \in over
    BY <2>1, <2>6
  <2> QED
    BY <2>3, <2>4, <2>5, <2>7
<1> QED
    BY <1>1, <1>3
=============================================================================
