------------------------------ MODULE PlanProofs ------------------------------
(***************************************************************************)
(* Proofs about PlanChecks, for any book, any prices and any plan the model  *)
(* may answer with.                                                        *)
(*                                                                         *)
(* Every check is a fold over a list of the plan.  A fold is unfolded into   *)
(* its steps once (FoldExists, WalkExists), and each check then has an       *)
(* invariant of its own loop: the puts kept and the room left add up to the  *)
(* room there was (Secures), the calls kept stay within an account's free    *)
(* lots (Covered), what a stock comes to is counted trade by trade (Within). *)
(* The later checks only move options about, which trade nothing             *)
(* (SameTrades), so what an earlier check made true stays true.              *)
(***************************************************************************)
EXTENDS MCPlanning, FiniteSetTheorems, WellFoundedInduction, TLAPS

-----------------------------------------------------------------------------
(* A set of numbers has a least one.                                        *)
LEMMA LeastNumber ==
    ASSUME NEW S \in SUBSET Nat, S # {}
    PROVE  \E n \in S : \A m \in S : n <= m
<1> DEFINE R == OpToRel(<, Nat)
<1>1. IsWellFoundedOn(R, Nat)
  BY NatLessThanWellFounded, Zenon
<1> HIDE DEF R
<1>2. PICK n \in S : \A m \in S : ~(<<m, n>> \in R)
  BY <1>1, WFMin
<1>3. \A m \in S : ~(m < n)
  BY <1>2 DEF R, OpToRel
<1>4. QED BY <1>3

(* What holds at the start and goes on from each number to the next holds     *)
(* up to the end.                                                           *)
LEMMA CountUp ==
    ASSUME NEW n \in Nat, NEW S, 0 \in S, \A k \in 0..n : k < n /\ k \in S => k + 1 \in S
    PROVE  \A k \in 0..n : k \in S
<1> DEFINE Bad == {k \in 0..n : k \notin S}
<1>1. SUFFICES ASSUME Bad # {} PROVE FALSE
  OBVIOUS
<1>2. Bad \in SUBSET Nat
  OBVIOUS
<1>3. PICK k \in Bad : \A m \in Bad : k <= m
  BY <1>1, <1>2, LeastNumber
<1>4. k \in 1..n /\ k - 1 \in 0..n /\ k - 1 \in S
  BY <1>3
<1>5. QED BY <1>3, <1>4

(* The largest of some of the first numbers.                                *)
LEMMA LargestOfSome ==
    ASSUME NEW n \in Nat, NEW T \in SUBSET (1..n), T # {}
    PROVE  Max(T) \in T /\ \A x \in T : x <= Max(T)
<1> DEFINE S == {n - x : x \in T}
<1>0. \A x \in T : x \in 1..n
  OBVIOUS
<1>1. \A k \in S : k \in Nat
  BY <1>0
<1>2. S # {}
  OBVIOUS
<1>3. PICK m \in S : \A k \in S : m <= k
  <2> HIDE DEF S
  <2>1. S \in SUBSET Nat
    BY <1>1
  <2>2. QED BY <1>2, <2>1, LeastNumber
<1>4. PICK z \in T : m = n - z
  OBVIOUS
<1>5. \A x \in T : n - x \in S
  OBVIOUS
<1>6. \A x \in T : z >= x
  <2>1. ASSUME NEW x \in T PROVE z >= x
    <3>1. n - z <= n - x
      BY <1>3, <1>4, <1>5
    <3>2. x \in 1..n /\ z \in 1..n
      OBVIOUS
    <3> QED BY <3>1, <3>2
  <2>2. QED BY <2>1
<1>7. \E x \in T : \A y \in T : x >= y
  BY <1>6
<1>8. Max(T) \in T /\ \A y \in T : Max(T) >= y
  <2> HIDE DEF S
  <2>1. QED BY <1>7 DEF Max
<1>9. QED BY <1>0, <1>8

(* Of all of the first numbers it is the last.                              *)
LEMMA LargestOfAll == ASSUME NEW k \in Nat, k > 0 PROVE Max(1..k) = k /\ (1..k) \ {k} = 1..(k - 1)
BY DEF Max

IsFold(g, n, V, base, step) ==
    /\ g \in [SUBSET (1..n) -> V]
    /\ g[{}] = base
    /\ \A T \in SUBSET (1..n) : T # {} => g[T] = step[<<Max(T), g[T \ {Max(T)}]>>]

(* A fold exists: whatever its steps do with what they have so far.           *)
LEMMA FoldExists ==
    ASSUME NEW n \in Nat, NEW V, NEW base \in V, NEW step \in [(1..n) \X V -> V]
    PROVE  \E g : IsFold(g, n, V, base, step)
<1> DEFINE Fold(g, k) == /\ g[{}] = base
                         /\ \A T \in SUBSET (1..k) : T # {} => g[T] = step[<<Max(T), g[T \ {Max(T)}]>>]
           S == {k \in 0..n : \E g \in [SUBSET (1..k) -> V] : Fold(g, k)}
<1>1. 0 \in S
  <2>1. [T \in SUBSET (1..0) |-> base] \in [SUBSET (1..0) -> V]
    OBVIOUS
  <2>2. {} \in SUBSET (1..0) /\ \A T \in SUBSET (1..0) : T = {}
    OBVIOUS
  <2>3. Fold([T \in SUBSET (1..0) |-> base], 0)
    BY <2>2
  <2> HIDE DEF Fold
  <2>4. \E g \in [SUBSET (1..0) -> V] : Fold(g, 0)
    BY <2>1, <2>3
  <2>5. 0 \in 0..n
    OBVIOUS
  <2>6. QED BY <2>4, <2>5
<1>2. ASSUME NEW k \in 0..n, k < n, k \in S PROVE k + 1 \in S
  <2>1. PICK g \in [SUBSET (1..k) -> V] : Fold(g, k)
    BY <1>2
  <2> DEFINE h == [T \in SUBSET (1..(k + 1)) |-> IF k + 1 \in T THEN step[<<k + 1, g[T \ {k + 1}]>>] ELSE g[T]]
  <2>2. ASSUME NEW T \in SUBSET (1..(k + 1)) PROVE T \ {k + 1} \in SUBSET (1..k)
    OBVIOUS
  <2>3. h \in [SUBSET (1..(k + 1)) -> V]
    <3>1. ASSUME NEW T \in SUBSET (1..(k + 1)) PROVE h[T] \in V
      <4>1. CASE k + 1 \in T
        <5>1. k + 1 \in 1..n /\ g[T \ {k + 1}] \in V
          BY <1>2, <2>2
        <5>2. QED BY <4>1, <5>1
      <4>2. CASE k + 1 \notin T
        <5>1. T \in SUBSET (1..k)
          BY <4>2
        <5>2. QED BY <4>2, <5>1
      <4>3. QED BY <4>1, <4>2
    <3>2. QED BY <3>1
  <2>4. h[{}] = base
    BY <2>1
  <2>5. ASSUME NEW T \in SUBSET (1..(k + 1)), T # {} PROVE h[T] = step[<<Max(T), h[T \ {Max(T)}]>>]
    <3>1. CASE k + 1 \in T
      <4>0. k + 1 \in Nat
        OBVIOUS
      <4>1. Max(T) \in T /\ \A x \in T : x <= Max(T)
        <5> DEFINE m == k + 1
        <5>1. m \in Nat /\ T \in SUBSET (1..m)
          BY <4>0
        <5> HIDE DEF m
        <5>2. QED BY <2>5, <5>1, LargestOfSome
      <4>2. Max(T) = k + 1
        <5>1. Max(T) \in 1..(k + 1)
          BY <4>1
        <5>2. k + 1 <= Max(T)
          BY <3>1, <4>1
        <5>3. QED BY <4>0, <5>1, <5>2
      <4>3. h[T \ {k + 1}] = g[T \ {k + 1}]
        BY <2>2
      <4>4. QED BY <3>1, <4>2, <4>3
    <3>2. CASE k + 1 \notin T
      <4>0. \A x \in T : x \in 1..k
        BY <3>2
      <4>1. T \in SUBSET (1..k) /\ T \ {Max(T)} \in SUBSET (1..k) /\ k + 1 \notin T \ {Max(T)}
        BY <3>2, <4>0
      <4>2. h[T] = g[T] /\ h[T \ {Max(T)}] = g[T \ {Max(T)}]
        BY <3>2, <4>1
      <4>3. g[T] = step[<<Max(T), g[T \ {Max(T)}]>>]
        BY <2>1, <2>5, <4>1
      <4>4. QED BY <4>2, <4>3
    <3>3. QED BY <3>1, <3>2
  <2> HIDE DEF h
  <2>6. k + 1 \in 0..n
    BY <1>2
  <2>7. QED BY <2>3, <2>4, <2>5, <2>6
<1>3. n \in S
  <2> HIDE DEF S
  <2>1. \A k \in 0..n : k < n /\ k \in S => k + 1 \in S
    BY <1>2
  <2>2. \A k \in 0..n : k \in S
    BY <1>1, <2>1, CountUp
  <2>3. QED BY <2>2
<1>4. QED BY <1>3 DEF IsFold


(* What a fold of the community modules unfolds to: a function on the sets of  *)
(* positions that takes out the last one.                                    *)
IsWalk(h, s, base, step) ==
    h = [T \in SUBSET DOMAIN s |-> IF T = {} THEN base ELSE step[<<h[T \ {Max(T)}], s[Max(T)]>>]]
IsPath(f, s, base, step, V) ==
    /\ f[0] = base
    /\ \A k \in 1..Len(s) : f[k] = step[<<f[k - 1], s[k]>>]
    /\ \A k \in 0..Len(s) : f[k] \in V

(* A walk exists: a function on the positions that steps from each to the next.*)
LEMMA WalkExists ==
    ASSUME NEW V, NEW X, NEW base \in V, NEW s \in Seq(X), NEW step \in [V \X X -> V]
    PROVE  \E h : IsWalk(h, s, base, step) /\ \A T \in SUBSET DOMAIN s : h[T] \in V
<1> DEFINE n == Len(s)
           next == [e \in (1..n) \X V |-> step[<<e[2], s[e[1]]>>]]
<1>0. n \in Nat /\ DOMAIN s = 1..n /\ \A k \in 1..n : s[k] \in X
  OBVIOUS
<1> HIDE DEF n
<1>1. next \in [(1..n) \X V -> V]
  <2>1. \A e \in (1..n) \X V : <<e[2], s[e[1]]>> \in V \X X
    BY <1>0
  <2>2. \A e \in (1..n) \X V : step[<<e[2], s[e[1]]>>] \in V
    BY <2>1
  <2>3. QED BY <2>2
<1>2. PICK h : IsFold(h, n, V, base, next)
  <2> HIDE DEF next
  <2>1. QED BY <1>0, <1>1, FoldExists
<1>3. ASSUME NEW T \in SUBSET (1..n), T # {} PROVE h[T] = step[<<h[T \ {Max(T)}], s[Max(T)]>>]
  <2>1. Max(T) \in 1..n
    BY <1>0, <1>3, LargestOfSome
  <2>2. <<Max(T), h[T \ {Max(T)}]>> \in (1..n) \X V
    BY <1>2, <2>1 DEF IsFold
  <2>3. QED BY <1>2, <1>3, <2>2 DEF IsFold
<1>4. h \in [SUBSET DOMAIN s -> V] /\ h[{}] = base
  BY <1>0, <1>2 DEF IsFold
<1>5. h = [T \in SUBSET DOMAIN s |-> IF T = {} THEN base ELSE step[<<h[T \ {Max(T)}], s[Max(T)]>>]]
  <2>1. \A T \in SUBSET DOMAIN s : h[T] = IF T = {} THEN base ELSE step[<<h[T \ {Max(T)}], s[Max(T)]>>]
    BY <1>0, <1>3, <1>4
  <2>2. h = [T \in SUBSET DOMAIN s |-> h[T]]
    BY <1>4
  <2>3. QED BY <2>1, <2>2
<1>6. IsWalk(h, s, base, step)
  BY <1>5 DEF IsWalk
<1>7. QED BY <1>4, <1>6

(* The fold of a list is a path through its members, from the first.        *)
LEMMA WalkSteps ==
    ASSUME NEW V, NEW X, NEW base \in V, NEW s \in Seq(X), NEW step, NEW h,
           \A v \in V, x \in X : step[<<v, x>>] \in V, IsWalk(h, s, base, step)
    PROVE  \E f : IsPath(f, s, base, step, V) /\ h[DOMAIN s] = f[Len(s)]
<1> DEFINE n == Len(s)
           f == [k \in 0..n |-> h[1..k]]
<1>0. n \in Nat /\ DOMAIN s = 1..n /\ \A k \in 1..n : s[k] \in X
  OBVIOUS
<1> HIDE DEF n
<1>1. f[0] = base
  BY <1>0 DEF IsWalk
<1>2. ASSUME NEW k \in 1..n PROVE f[k] = step[<<f[k - 1], s[k]>>]
  <2>1. 1..k \in SUBSET DOMAIN s /\ 1..k # {}
    <3>1. k \in 1..k /\ \A i \in 1..k : i \in 1..n
      BY <1>0
    <3>2. QED BY <1>0, <3>1
  <2>2. Max(1..k) = k /\ (1..k) \ {k} = 1..(k - 1)
    BY LargestOfAll
  <2>3. h[1..k] = step[<<h[(1..k) \ {k}], s[k]>>]
    BY <2>1, <2>2 DEF IsWalk
  <2>4. k \in 0..n /\ k - 1 \in 0..n
    BY <1>0
  <2>5. QED BY <2>2, <2>3, <2>4
<1>3. f[n] = h[DOMAIN s]
  BY <1>0
<1> HIDE DEF f
<1>4. \A k \in 0..n : f[k] \in V
  <2> DEFINE Typed == {k \in 0..n : f[k] \in V}
  <2>1. 0 \in Typed
    BY <1>0, <1>1
  <2>2. ASSUME NEW k \in 0..n, k < n, k \in Typed PROVE k + 1 \in Typed
    <3>1. k + 1 \in 1..n /\ k + 1 \in 0..n /\ (k + 1) - 1 = k
      BY <1>0, <2>2
    <3>2. f[k + 1] = step[<<f[k], s[k + 1]>>]
      BY <1>2, <3>1
    <3>3. f[k] \in V /\ s[k + 1] \in X
      BY <1>0, <2>2, <3>1
    <3>4. QED BY <3>1, <3>2, <3>3
  <2> HIDE DEF Typed
  <2>3. \A k \in 0..n : k < n /\ k \in Typed => k + 1 \in Typed
    BY <2>2
  <2>4. \A k \in 0..n : k \in Typed
    BY <1>0, <2>1, <2>3, CountUp
  <2>5. QED BY <2>4 DEF Typed
<1>5. QED BY <1>1, <1>2, <1>3, <1>4 DEF IsPath, n

-----------------------------------------------------------------------------
(* A sum as the community modules define it: a function on the subsets that  *)
(* takes out one member after the other.                                    *)
One(s) == CHOOSE x \in s : TRUE
IsSum(g, w, S) == g = [s \in SUBSET S |-> IF s = {} THEN 0 ELSE w[One(s)] + g[s \ {One(s)}]]
SumOf(w, S) == SumFunctionOnSet(w, S)

(* SumOf is the value of one such function at the whole set.                *)
LEMMA SumChosen == ASSUME NEW w, NEW S, \E g : IsSum(g, w, S) PROVE \E g : IsSum(g, w, S) /\ SumOf(w, S) = g[S]
BY DEF SumOf, IsSum, One, SumFunctionOnSet, FoldFunctionOnSet, MapThenFoldSet
LEMMA SumUnfolds == ASSUME NEW w, NEW S, NEW g, IsSum(g, w, S), NEW s \in SUBSET S
   PROVE g[s] = IF s = {} THEN 0 ELSE w[One(s)] + g[s \ {One(s)}]
BY DEF IsSum

(* A fact that holds of a finite set when it holds of the smaller ones: the    *)
(* least set without it has none.                                           *)
LEMMA SmallestSet ==
    ASSUME NEW F, NEW S \in F, \A s \in F : IsFiniteSet(s)
    PROVE  \E s \in F : \A u \in F : Cardinality(s) <= Cardinality(u)
<1> DEFINE N == {Cardinality(s) : s \in F}
<1>1. N \in SUBSET Nat /\ N # {}
  BY FS_CardinalityType
<1>2. PICK n \in N : \A m \in N : n <= m
  BY <1>1, LeastNumber
<1>3. QED BY <1>2

LEMMA OneOfIt == ASSUME NEW s, s # {} PROVE One(s) \in s
BY DEF One

LEMMA OneLess ==
    ASSUME NEW s, IsFiniteSet(s), NEW x \in s
    PROVE  IsFiniteSet(s \ {x}) /\ Cardinality(s \ {x}) < Cardinality(s)
<1>1. IsFiniteSet(s \ {x}) /\ Cardinality(s \ {x}) = Cardinality(s) - 1
  BY FS_RemoveElement
<1>2. Cardinality(s) \in Nat
  BY FS_CardinalityType
<1>3. QED BY <1>1, <1>2

(* Sums over two sets agree where both are defined.                           *)
LEMMA SumsAgree ==
    ASSUME NEW w, NEW S, NEW T, NEW g, NEW h, IsFiniteSet(S), IsSum(g, w, S), IsSum(h, w, T),
           NEW s \in SUBSET (S \cap T)
    PROVE  g[s] = h[s]
<1> DEFINE F == {u \in SUBSET (S \cap T) : g[u] # h[u]}
<1>1. SUFFICES ASSUME F # {} PROVE FALSE
  OBVIOUS
<1>2. \A u \in F : IsFiniteSet(u)
  BY FS_Subset
<1>3. PICK u \in F : \A v \in F : Cardinality(u) <= Cardinality(v)
  <2> HIDE DEF F
  <2>1. PICK v \in F : TRUE
    BY <1>1
  <2>2. QED BY <1>2, <2>1, SmallestSet
<1>4. u \in SUBSET S /\ u \in SUBSET T /\ IsFiniteSet(u) /\ g[u] # h[u]
  BY <1>2
<1>5. ASSUME u = {} PROVE FALSE
  <2>1. g[u] = 0 /\ h[u] = 0
    BY <1>4, <1>5, SumUnfolds
  <2>2. QED BY <1>4, <2>1
<1>6. g[u \ {One(u)}] = h[u \ {One(u)}]
  <2>1. IsFiniteSet(u \ {One(u)}) /\ Cardinality(u \ {One(u)}) < Cardinality(u)
    BY <1>4, <1>5, OneOfIt, OneLess
  <2>2. u \ {One(u)} \notin F
    BY <1>3, <1>4, <2>1, FS_CardinalityType
  <2>3. QED BY <1>4, <2>2
<1>7. QED BY <1>4, <1>5, <1>6, SumUnfolds

(* There is such a function on every finite set.                            *)
LEMMA SumExists == ASSUME NEW w, NEW S, IsFiniteSet(S) PROVE \E g : IsSum(g, w, S)
<1> DEFINE F == {u \in SUBSET S : ~\E g : IsSum(g, w, u)}
<1>1. SUFFICES ASSUME F # {} PROVE FALSE
  OBVIOUS
<1>2. \A u \in F : IsFiniteSet(u)
  BY FS_Subset
<1>3. PICK u \in F : \A v \in F : Cardinality(u) <= Cardinality(v)
  <2> HIDE DEF F
  <2>1. PICK v \in F : TRUE
    BY <1>1
  <2>2. QED BY <1>2, <2>1, SmallestSet
<1>4. u \in SUBSET S /\ IsFiniteSet(u) /\ ~\E g : IsSum(g, w, u)
  BY <1>2
<1>5. \A v \in SUBSET u : v # u => \E g : IsSum(g, w, v)
  <2>1. SUFFICES ASSUME NEW v \in SUBSET u, v # u PROVE v \notin F
    BY <1>4
  <2>2. Cardinality(v) < Cardinality(u)
    <3>1. Cardinality(v) <= Cardinality(u) /\ (Cardinality(v) = Cardinality(u) => v = u) /\ Cardinality(v) \in Nat
      BY <1>4, FS_Subset, FS_CardinalityType
    <3>2. Cardinality(u) \in Nat
      BY <1>4, FS_CardinalityType
    <3>3. QED BY <2>1, <3>1, <3>2
  <2>3. Cardinality(v) \in Nat /\ Cardinality(u) \in Nat
    BY <1>4, FS_Subset, FS_CardinalityType
  <2>4. QED BY <1>3, <2>2, <2>3
<1> HIDE DEF F
<1> DEFINE The(v) == CHOOSE g : IsSum(g, w, v)
           g == [s \in SUBSET u |-> IF s = {} THEN 0 ELSE w[One(s)] + The(s \ {One(s)})[s \ {One(s)}]]
<1>6. \A v \in SUBSET u : v # u => IsSum(The(v), w, v)
  BY <1>5
<1>7. \A s \in SUBSET u : s # {} => g[s \ {One(s)}] = The(s \ {One(s)})[s \ {One(s)}]
  <2>1. SUFFICES ASSUME NEW s \in SUBSET u, s # {} PROVE g[s \ {One(s)}] = The(s \ {One(s)})[s \ {One(s)}]
    OBVIOUS
  <2> DEFINE v == s \ {One(s)}
  <2>2. v \in SUBSET u /\ v # u /\ IsSum(The(v), w, v) /\ IsFiniteSet(v)
    BY <1>4, <1>6, <2>1, OneOfIt, FS_Subset
  <2> HIDE DEF v, The
  <2>3. CASE v = {}
    <3>1. The(v)[v] = 0
      BY <2>2, <2>3, SumUnfolds
    <3>2. g[v] = 0
      BY <2>2, <2>3
    <3>3. QED BY <3>1, <3>2 DEF v
  <2>4. CASE v # {}
    <3> DEFINE r == v \ {One(v)}
    <3>1. r \in SUBSET v /\ r \in SUBSET u /\ r # u /\ IsSum(The(r), w, r)
      BY <1>6, <2>2, <2>4, OneOfIt
    <3>2. The(v)[v] = w[One(v)] + The(v)[r]
      BY <2>2, <2>4, SumUnfolds
    <3>3. The(v)[r] = The(r)[r]
      <4> HIDE DEF r
      <4>1. r \in SUBSET (v \cap r)
        BY <3>1
      <4>2. QED BY <2>2, <3>1, <4>1, SumsAgree
    <3>4. g[v] = w[One(v)] + The(r)[r]
      BY <2>2, <2>4
    <3>5. QED BY <3>2, <3>3, <3>4 DEF v
  <2>5. QED BY <2>3, <2>4
<1>8. IsSum(g, w, u)
  <2>1. \A s \in SUBSET u : g[s] = IF s = {} THEN 0 ELSE w[One(s)] + g[s \ {One(s)}]
    <3>1. SUFFICES ASSUME NEW s \in SUBSET u PROVE g[s] = IF s = {} THEN 0 ELSE w[One(s)] + g[s \ {One(s)}]
      OBVIOUS
    <3>2. g[s] = IF s = {} THEN 0 ELSE w[One(s)] + The(s \ {One(s)})[s \ {One(s)}]
      <4> HIDE DEF The
      <4>1. QED OBVIOUS
    <3> HIDE DEF g, The
    <3>3. QED BY <1>7, <3>2
  <2>2. g = [s \in SUBSET u |-> g[s]]
    OBVIOUS
  <2>3. QED
    <3> HIDE DEF g
    <3>1. QED BY <2>1, <2>2 DEF IsSum
<1>9. QED BY <1>4, <1>8

LEMMA SumStep ==
    ASSUME NEW w, NEW S, IsFiniteSet(S)
    PROVE  SumOf(w, S) = IF S = {} THEN 0 ELSE w[One(S)] + SumOf(w, S \ {One(S)})
<1>1. PICK g : IsSum(g, w, S) /\ SumOf(w, S) = g[S]
  BY SumExists, SumChosen
<1>2. g[S] = IF S = {} THEN 0 ELSE w[One(S)] + g[S \ {One(S)}]
  BY <1>1, SumUnfolds
<1> DEFINE R == S \ {One(S)}
<1>3. PICK h : IsSum(h, w, R) /\ SumOf(w, R) = h[R]
  <2>1. IsFiniteSet(R)
    BY FS_Subset
  <2>2. QED BY <2>1, SumExists, SumChosen
<1>4. R \in SUBSET (S \cap R)
  OBVIOUS
<1> HIDE DEF R
<1>5. g[R] = h[R]
  BY <1>1, <1>3, <1>4, SumsAgree
<1>6. QED BY <1>1, <1>2, <1>3, <1>5 DEF R

(* A sum of numbers is one, and equal weights have equal sums.                *)
LEMMA SumIsANumber ==
    ASSUME NEW w, NEW S, IsFiniteSet(S), \A x \in S : w[x] \in Int
    PROVE  SumOf(w, S) \in Int
<1> DEFINE F == {u \in SUBSET S : SumOf(w, u) \notin Int}
<1>1. SUFFICES ASSUME F # {} PROVE FALSE
  OBVIOUS
<1>2. \A u \in F : IsFiniteSet(u)
  BY FS_Subset
<1>3. PICK u \in F : \A v \in F : Cardinality(u) <= Cardinality(v)
  <2> HIDE DEF F
  <2>1. PICK v \in F : TRUE
    BY <1>1
  <2>2. QED BY <1>2, <2>1, SmallestSet
<1>4. u \in SUBSET S /\ IsFiniteSet(u) /\ SumOf(w, u) \notin Int
  BY <1>2
<1>5. SumOf(w, u) = IF u = {} THEN 0 ELSE w[One(u)] + SumOf(w, u \ {One(u)})
  BY <1>4, SumStep
<1>6. u # {}
  BY <1>4, <1>5
<1>7. One(u) \in u /\ IsFiniteSet(u \ {One(u)}) /\ Cardinality(u \ {One(u)}) < Cardinality(u)
  BY <1>4, <1>6, OneOfIt, OneLess
<1>8. u \ {One(u)} \notin F
  BY <1>3, <1>4, <1>7, FS_CardinalityType
<1>9. SumOf(w, u \ {One(u)}) \in Int
  BY <1>4, <1>8
<1>10. w[One(u)] \in Int
  BY <1>4, <1>7
<1> HIDE DEF F
<1>11. QED BY <1>4, <1>5, <1>6, <1>9, <1>10

(* Equal weights have equal sums.                                           *)
LEMMA SumsAreEqual ==
    ASSUME NEW w, NEW v, NEW S, IsFiniteSet(S), \A x \in S : w[x] = v[x]
    PROVE  SumOf(w, S) = SumOf(v, S)
<1> DEFINE F == {u \in SUBSET S : SumOf(w, u) # SumOf(v, u)}
<1>1. SUFFICES ASSUME F # {} PROVE FALSE
  OBVIOUS
<1>2. \A u \in F : IsFiniteSet(u)
  BY FS_Subset
<1>3. PICK u \in F : \A t \in F : Cardinality(u) <= Cardinality(t)
  <2> HIDE DEF F
  <2>1. PICK t \in F : TRUE
    BY <1>1
  <2>2. QED BY <1>2, <2>1, SmallestSet
<1>4. u \in SUBSET S /\ IsFiniteSet(u) /\ SumOf(w, u) # SumOf(v, u)
  BY <1>2
<1>5. /\ SumOf(w, u) = IF u = {} THEN 0 ELSE w[One(u)] + SumOf(w, u \ {One(u)})
      /\ SumOf(v, u) = IF u = {} THEN 0 ELSE v[One(u)] + SumOf(v, u \ {One(u)})
  BY <1>4, SumStep
<1>6. u # {}
  BY <1>4, <1>5
<1>7. One(u) \in u /\ IsFiniteSet(u \ {One(u)}) /\ Cardinality(u \ {One(u)}) < Cardinality(u)
  BY <1>4, <1>6, OneOfIt, OneLess
<1>8. u \ {One(u)} \notin F
  BY <1>3, <1>4, <1>7, FS_CardinalityType
<1>9. SumOf(w, u \ {One(u)}) = SumOf(v, u \ {One(u)})
  BY <1>4, <1>8
<1>10. w[One(u)] = v[One(u)]
  BY <1>4, <1>7
<1> HIDE DEF F
<1>11. QED BY <1>4, <1>5, <1>6, <1>9, <1>10

(* Any member may be taken out first.                                        *)
LEMMA SumTakesOut ==
    ASSUME NEW w, NEW S, IsFiniteSet(S), \A x \in S : w[x] \in Int, NEW z \in S
    PROVE  SumOf(w, S) = w[z] + SumOf(w, S \ {z})
<1> DEFINE F == {u \in SUBSET S : \E x \in u : SumOf(w, u) # w[x] + SumOf(w, u \ {x})}
<1>1. SUFFICES ASSUME F # {} PROVE FALSE
  OBVIOUS
<1>2. \A u \in F : IsFiniteSet(u)
  BY FS_Subset
<1>3. PICK u \in F : \A t \in F : Cardinality(u) <= Cardinality(t)
  <2> HIDE DEF F
  <2>1. PICK t \in F : TRUE
    BY <1>1
  <2>2. QED BY <1>2, <2>1, SmallestSet
<1>4. u \in SUBSET S /\ IsFiniteSet(u)
  BY <1>2
<1>5. PICK x \in u : SumOf(w, u) # w[x] + SumOf(w, u \ {x})
  OBVIOUS
<1> DEFINE c == One(u)
<1>6. c \in u /\ SumOf(w, u) = w[c] + SumOf(w, u \ {c})
  BY <1>4, <1>5, OneOfIt, SumStep
<1> HIDE DEF c
<1>7. c # x
  BY <1>5, <1>6
<1>8. \A y \in u : \A z1 \in u \ {y} : SumOf(w, u \ {y}) = w[z1] + SumOf(w, (u \ {y}) \ {z1})
  <2>1. SUFFICES ASSUME NEW y \in u PROVE u \ {y} \notin F
    BY <1>4
  <2>2. Cardinality(u \ {y}) < Cardinality(u) /\ Cardinality(u) \in Nat /\ Cardinality(u \ {y}) \in Nat
    BY <1>4, OneLess, FS_CardinalityType
  <2>3. QED BY <1>3, <2>2
<1> DEFINE r == SumOf(w, (u \ {c}) \ {x})
<1>9. SumOf(w, u \ {c}) = w[x] + r
  BY <1>5, <1>6, <1>7, <1>8
<1>10. (u \ {c}) \ {x} = (u \ {x}) \ {c}
  OBVIOUS
<1>11. SumOf(w, u \ {x}) = w[c] + r
  BY <1>5, <1>6, <1>7, <1>8, <1>10
<1>12. r \in Int
  <2>1. IsFiniteSet((u \ {c}) \ {x}) /\ \A y \in (u \ {c}) \ {x} : w[y] \in Int
    BY <1>4, FS_Subset
  <2>2. QED BY <2>1, SumIsANumber
<1>13. w[c] \in Int /\ w[x] \in Int
  BY <1>4, <1>6
<1> HIDE DEF F, r
<1>14. QED BY ONLY <1>5, <1>6, <1>9, <1>11, <1>12, <1>13

(* A sum of counts is a count.                                              *)
LEMMA SumIsACount ==
    ASSUME NEW w, NEW S, IsFiniteSet(S), \A x \in S : w[x] \in Nat
    PROVE  SumOf(w, S) \in Nat
<1> DEFINE F == {u \in SUBSET S : SumOf(w, u) \notin Nat}
<1>1. SUFFICES ASSUME F # {} PROVE FALSE
  OBVIOUS
<1>2. \A u \in F : IsFiniteSet(u)
  BY FS_Subset
<1>3. PICK u \in F : \A v \in F : Cardinality(u) <= Cardinality(v)
  <2> HIDE DEF F
  <2>1. PICK v \in F : TRUE
    BY <1>1
  <2>2. QED BY <1>2, <2>1, SmallestSet
<1>4. u \in SUBSET S /\ IsFiniteSet(u) /\ SumOf(w, u) \notin Nat
  BY <1>2
<1>5. SumOf(w, u) = IF u = {} THEN 0 ELSE w[One(u)] + SumOf(w, u \ {One(u)})
  BY <1>4, SumStep
<1>6. u # {}
  BY <1>4, <1>5
<1>7. One(u) \in u /\ IsFiniteSet(u \ {One(u)}) /\ Cardinality(u \ {One(u)}) < Cardinality(u)
  BY <1>4, <1>6, OneOfIt, OneLess
<1>8. u \ {One(u)} \notin F
  BY <1>3, <1>4, <1>7, FS_CardinalityType
<1>9. SumOf(w, u \ {One(u)}) \in Nat
  BY <1>4, <1>8
<1>10. w[One(u)] \in Nat
  BY <1>4, <1>7
<1> HIDE DEF F
<1>11. QED BY <1>4, <1>5, <1>6, <1>9, <1>10

(* The sum of sums, member by member.                                       *)
LEMMA SumsAddUp ==
    ASSUME NEW w, NEW v, NEW r, NEW S, IsFiniteSet(S),
           \A x \in S : w[x] \in Int /\ v[x] \in Int /\ r[x] = w[x] + v[x]
    PROVE  SumOf(r, S) = SumOf(w, S) + SumOf(v, S)
<1> DEFINE F == {u \in SUBSET S : SumOf(r, u) # SumOf(w, u) + SumOf(v, u)}
<1>1. SUFFICES ASSUME F # {} PROVE FALSE
  OBVIOUS
<1>2. \A u \in F : IsFiniteSet(u)
  BY FS_Subset
<1>3. PICK u \in F : \A t \in F : Cardinality(u) <= Cardinality(t)
  <2> HIDE DEF F
  <2>1. PICK t \in F : TRUE
    BY <1>1
  <2>2. QED BY <1>2, <2>1, SmallestSet
<1>4. u \in SUBSET S /\ IsFiniteSet(u) /\ SumOf(r, u) # SumOf(w, u) + SumOf(v, u)
  BY <1>2
<1>5. /\ SumOf(w, u) = IF u = {} THEN 0 ELSE w[One(u)] + SumOf(w, u \ {One(u)})
      /\ SumOf(v, u) = IF u = {} THEN 0 ELSE v[One(u)] + SumOf(v, u \ {One(u)})
      /\ SumOf(r, u) = IF u = {} THEN 0 ELSE r[One(u)] + SumOf(r, u \ {One(u)})
  BY <1>4, SumStep
<1>6. u # {}
  BY <1>4, <1>5
<1>7. One(u) \in u /\ IsFiniteSet(u \ {One(u)}) /\ Cardinality(u \ {One(u)}) < Cardinality(u)
  BY <1>4, <1>6, OneOfIt, OneLess
<1>8. u \ {One(u)} \notin F
  BY <1>3, <1>4, <1>7, FS_CardinalityType
<1>9. SumOf(r, u \ {One(u)}) = SumOf(w, u \ {One(u)}) + SumOf(v, u \ {One(u)})
  BY <1>4, <1>8
<1>10. w[One(u)] \in Int /\ v[One(u)] \in Int /\ r[One(u)] = w[One(u)] + v[One(u)]
  BY <1>4, <1>7
<1>11. SumOf(w, u \ {One(u)}) \in Int /\ SumOf(v, u \ {One(u)}) \in Int
  <2>1. \A x \in u \ {One(u)} : w[x] \in Int /\ v[x] \in Int
    BY <1>4
  <2>2. QED BY <1>7, <2>1, SumIsANumber
<1> HIDE DEF F
<1>12. QED BY <1>4, <1>5, <1>6, <1>9, <1>10, <1>11

(* A function's total is the sum of its values.                             *)
LEMMA TotalForm == ASSUME NEW f PROVE Total(f) = SumOf(f, DOMAIN f)
BY DEF Total, SumFunction, SumOf

-----------------------------------------------------------------------------
(* What a list's members are worth, each by its own value.                  *)
Worth(s, v) == SumFunction([i \in DOMAIN s |-> v[s[i]]])
Prefix(s, k) == [i \in 1..k |-> s[i]]

(* A list is worth the sum over its positions.                              *)
LEMMA WorthForm ==
    ASSUME NEW X, NEW s \in Seq(X), NEW v
    PROVE  /\ Worth(s, v) = SumOf([i \in 1..Len(s) |-> v[s[i]]], 1..Len(s))
           /\ Len(s) \in Nat /\ DOMAIN s = 1..Len(s) /\ IsFiniteSet(1..Len(s))
           /\ \A i \in 1..Len(s) : s[i] \in X
<1>1. Len(s) \in Nat /\ DOMAIN s = 1..Len(s) /\ \A i \in 1..Len(s) : s[i] \in X
  OBVIOUS
<1> DEFINE g == [i \in 1..Len(s) |-> v[s[i]]]
<1>2. Worth(s, v) = SumFunction(g)
  BY <1>1 DEF Worth
<1>3. DOMAIN g = 1..Len(s)
  OBVIOUS
<1> HIDE DEF g
<1>4. SumFunction(g) = SumOf(g, 1..Len(s))
  BY <1>3 DEF SumFunction, SumOf
<1>5. IsFiniteSet(1..Len(s))
  BY <1>1, FS_Interval
<1>6. QED BY <1>1, <1>2, <1>4, <1>5 DEF g

(* Of members worth a count, a list is worth a count.                       *)
LEMMA WorthIsACount ==
    ASSUME NEW X, NEW s \in Seq(X), NEW v, \A x \in X : v[x] \in Nat
    PROVE  Worth(s, v) \in Nat
<1> DEFINE g == [i \in 1..Len(s) |-> v[s[i]]]
<1>1. \A i \in 1..Len(s) : g[i] \in Nat
  BY WorthForm
<1>2. Worth(s, v) = SumOf(g, 1..Len(s)) /\ IsFiniteSet(1..Len(s))
  BY WorthForm
<1> HIDE DEF g
<1>3. QED BY <1>1, <1>2, SumIsACount

(* An empty list is worth nothing.                                          *)
LEMMA WorthOfNothing == ASSUME NEW v PROVE Worth(<<>>, v) = 0
<1> DEFINE g == [i \in DOMAIN <<>> |-> v[<<>>[i]]]
<1>1. Worth(<<>>, v) = SumFunction(g)
  BY DEF Worth
<1>2. DOMAIN g = {}
  OBVIOUS
<1> HIDE DEF g
<1>3. SumFunction(g) = SumOf(g, {})
  BY <1>2 DEF SumFunction, SumOf
<1>4. IsFiniteSet({})
  BY FS_EmptySet
<1>5. QED BY <1>1, <1>3, <1>4, SumStep

(* One more member adds its own worth.                                      *)
LEMMA WorthOfMore ==
    ASSUME NEW X, NEW s \in Seq(X), NEW x \in X, NEW v, \A y \in X : v[y] \in Nat
    PROVE  Worth(Append(s, x), v) = Worth(s, v) + v[x]
<1> DEFINE n == Len(s)
           r == Append(s, x)
           g == [i \in 1..n |-> v[s[i]]]
           h == [i \in 1..(n + 1) |-> v[r[i]]]
<1>0. n \in Nat /\ \A i \in 1..n : s[i] \in X
  OBVIOUS
<1>1. r \in Seq(X) /\ Len(r) = n + 1 /\ r[n + 1] = x /\ \A i \in 1..n : r[i] = s[i]
  OBVIOUS
<1>2. Worth(s, v) = SumOf(g, 1..n) /\ IsFiniteSet(1..n)
  BY WorthForm
<1>3. Worth(r, v) = SumOf(h, 1..(n + 1)) /\ IsFiniteSet(1..(n + 1))
  <2> HIDE DEF r
  <2>1. Worth(r, v) = SumOf([i \in 1..Len(r) |-> v[r[i]]], 1..Len(r)) /\ IsFiniteSet(1..Len(r))
    BY <1>1, WorthForm
  <2>2. QED BY <1>1, <2>1
<1> HIDE DEF n, r
<1>4. /\ \A i \in 1..(n + 1) : h[i] \in Int
      /\ \A i \in 1..n : g[i] = h[i]
      /\ h[n + 1] = v[x] /\ n + 1 \in 1..(n + 1) /\ (1..(n + 1)) \ {n + 1} = 1..n
  <2>1. \A i \in 1..(n + 1) : r[i] \in X
    BY <1>0, <1>1
  <2>2. n + 1 \in 1..(n + 1) /\ (1..(n + 1)) \ {n + 1} = 1..n /\ \A i \in 1..n : i \in 1..(n + 1)
    BY <1>0
  <2>3. QED BY <1>1, <2>1, <2>2
<1> HIDE DEF g, h
<1>5. SumOf(h, 1..(n + 1)) = h[n + 1] + SumOf(h, (1..(n + 1)) \ {n + 1})
  BY <1>3, <1>4, SumTakesOut
<1>6. SumOf(h, 1..n) = SumOf(g, 1..n)
  BY <1>2, <1>4, SumsAreEqual
<1>7. SumOf(g, 1..n) \in Nat
  <2>1. Worth(s, v) \in Nat
    BY WorthIsACount
  <2>2. QED BY <1>2, <2>1
<1>8. v[x] \in Nat
  OBVIOUS
<1>9. Worth(r, v) = v[x] + SumOf(g, 1..n)
  BY <1>3, <1>4, <1>5, <1>6
<1>10. Worth(r, v) = Worth(s, v) + v[x]
  BY <1>2, <1>7, <1>8, <1>9
<1>11. QED BY <1>10 DEF r

(* A list's beginnings grow by a member at a time, up to the list.          *)
LEMMA PrefixForm ==
    ASSUME NEW X, NEW s \in Seq(X)
    PROVE  /\ Prefix(s, 0) = <<>> /\ Prefix(s, Len(s)) = s
           /\ \A k \in 0..Len(s) : Prefix(s, k) \in Seq(X)
           /\ \A k \in 1..Len(s) : Prefix(s, k) = Append(Prefix(s, k - 1), s[k])
BY DEF Prefix

-----------------------------------------------------------------------------
(* Only, step by step.                                                      *)
Passed(out, x, set) == IF x \in set THEN Append(out, x) ELSE out
OnlyFold(base, s, set) == FoldLeft(LAMBDA out, x : IF x \in set THEN Append(out, x) ELSE out, base, s)

LEMMA LastIsIn == ASSUME NEW X, NEW s \in Seq(X), NEW T \in SUBSET DOMAIN s, T # {} PROVE s[Max(T)] \in X
<1>1. Len(s) \in Nat /\ DOMAIN s = 1..Len(s) /\ \A k \in 1..Len(s) : s[k] \in X
  OBVIOUS
<1>2. Max(T) \in 1..Len(s)
  BY <1>1, LargestOfSome
<1>3. QED BY <1>1, <1>2

OnlySteps(f, Y, set, base, s) ==
    /\ f[0] = base
    /\ \A k \in 1..Len(s) : f[k] = Passed(f[k - 1], s[k], set)
    /\ \A k \in 0..Len(s) : f[k] \in Seq(Y)
    /\ OnlyFold(base, s, set) = f[Len(s)]
(* Only is such a chain of lists.                                           *)
LEMMA OnlyUnfolds ==
    ASSUME NEW Y, NEW set, NEW base \in Seq(Y), NEW s \in Seq(Y)
    PROVE  \E f : OnlySteps(f, Y, set, base, s)
<1> DEFINE V == Seq(Y)
           X == Y
           step == [e \in V \X X |-> Passed(e[1], e[2], set)]
<1>1. \A v \in V, x \in X : Passed(v, x, set) \in V
  BY DEF Passed
<1> HIDE DEF V, X
<1>2. PICK g : IsWalk(g, s, base, step) /\ \A T \in SUBSET DOMAIN s : g[T] \in V
  <2>1. step \in [V \X X -> V] /\ base \in V /\ s \in Seq(X)
    BY <1>1 DEF V, X
  <2> HIDE DEF step
  <2>2. QED BY <2>1, WalkExists
<1>3. g = [T \in SUBSET DOMAIN s |-> IF T = {} THEN base ELSE Passed(g[T \ {Max(T)}], s[Max(T)], set)]
  <2>1. ASSUME NEW T \in SUBSET DOMAIN s, T # {} PROVE g[T] = Passed(g[T \ {Max(T)}], s[Max(T)], set)
    <3>1. <<g[T \ {Max(T)}], s[Max(T)]>> \in V \X X
      BY <1>2, <2>1, LastIsIn DEF X
    <3>2. QED BY <1>2, <2>1, <3>1 DEF IsWalk
  <2>2. QED BY <1>2, <2>1 DEF IsWalk
<1>4. \E h : /\ h = [T \in SUBSET DOMAIN s |-> IF T = {} THEN base ELSE Passed(h[T \ {Max(T)}], s[Max(T)], set)]
             /\ OnlyFold(base, s, set) = h[DOMAIN s]
  BY <1>3 DEF OnlyFold, Passed, FoldLeft, MapThenFoldSet
<1>5. PICK h : /\ h = [T \in SUBSET DOMAIN s |-> IF T = {} THEN base ELSE Passed(h[T \ {Max(T)}], s[Max(T)], set)]
               /\ OnlyFold(base, s, set) = h[DOMAIN s]
  BY <1>4
<1> DEFINE W == V \cup {h[T] : T \in SUBSET DOMAIN s}
           next == [e \in W \X X |-> Passed(e[1], e[2], set)]
<1>6. IsWalk(h, s, base, next)
  <2>1. ASSUME NEW T \in SUBSET DOMAIN s, T # {} PROVE h[T] = next[<<h[T \ {Max(T)}], s[Max(T)]>>]
    <3>1. <<h[T \ {Max(T)}], s[Max(T)]>> \in W \X X
      BY <2>1, LastIsIn DEF X
    <3>2. QED BY <1>5, <2>1, <3>1
  <2> HIDE DEF next
  <2>2. QED BY <1>5, <2>1 DEF IsWalk
<1>7. \A v \in V, x \in X : next[<<v, x>>] = Passed(v, x, set)
  OBVIOUS
<1>8. PICK f : IsPath(f, s, base, next, V) /\ h[DOMAIN s] = f[Len(s)]
  <2> HIDE DEF next, step, W
  <2>1. \A v \in V, x \in X : next[<<v, x>>] \in V
    BY <1>1, <1>7
  <2>2. base \in V /\ s \in Seq(X)
    BY DEF V, X
  <2>3. QED BY ONLY <1>6, <2>1, <2>2, WalkSteps
<1>9. ASSUME NEW k \in 1..Len(s) PROVE f[k] = Passed(f[k - 1], s[k], set)
  <2>1. f[k - 1] \in V /\ s[k] \in X
    BY <1>8 DEF IsPath, X
  <2> HIDE DEF next
  <2>2. QED BY <1>7, <1>8, <2>1 DEF IsPath
<1>10. OnlySteps(f, Y, set, base, s)
  BY <1>5, <1>8, <1>9 DEF IsPath, V, OnlySteps
<1>11. QED BY <1>10

-----------------------------------------------------------------------------
(* The book's numbers.                                                       *)
LEMMA TotalIsACount == ASSUME NEW S, IsFiniteSet(S), NEW f \in [S -> Nat] PROVE Total(f) \in Nat
<1>1. \A x \in S : f[x] \in Nat
  OBVIOUS
<1>2. Total(f) = SumOf(f, S)
  BY TotalForm
<1>3. QED BY <1>1, <1>2, SumIsACount

(* What BookAssumption says, number by number.                              *)
LEMMA BookFacts ==
    /\ IsFiniteSet(Tickers) /\ IsFiniteSet(Accounts) /\ IsFiniteSet(OptionAccounts) /\ OptionAccounts \subseteq Accounts
    /\ \A t \in Tickers, a \in Accounts :
          Units[t][a] \in Nat /\ OpenCalls[t][a] \in Nat /\ OpenPuts[t][a] \in Nat /\ 100 * OpenCalls[t][a] <= Units[t][a]
    /\ \A t \in Tickers : Units[t] \in [Accounts -> Nat] /\ OpenCalls[t] \in [Accounts -> Nat]
    /\ \A t \in Tickers : Price[t] \in Nat /\ Price[t] > 0 /\ Strike[t] \in Nat /\ Strike[t] > 0
    /\ \A a \in Accounts : Cash[a] \in Nat
    /\ Cash \in [Accounts -> Nat]
    /\ MaxPosition \in Nat /\ MaxPerPut \in Nat /\ MaxPuts \in Nat /\ MaxPuts <= 100
    /\ Nowhere \notin Accounts /\ OptionAccounts # {}
<1>1. IsFiniteSet(OptionAccounts)
  BY BookAssumption, FS_Subset
<1>2. QED BY <1>1, BookAssumption

(* Shares held are a count, and so are the dollars of an action.            *)
LEMMA HeldIsACount == ASSUME NEW t \in Tickers PROVE Held(t) \in Nat
BY BookFacts, TotalIsACount DEF Held

LEMMA CountProduct == ASSUME NEW a \in Nat, NEW b \in Nat PROVE a * b \in Nat
OBVIOUS

LEMMA DollarsAreACount == ASSUME NEW a \in Action PROVE Dollars(a) \in Nat
<1>1. a.n \in Nat /\ a.ticker \in Tickers
  BY DEF Action
<1>2. Held(a.ticker) \in Nat /\ Price[a.ticker] \in Nat
  BY <1>1, HeldIsACount, BookFacts
<1>3. a.n * Price[a.ticker] \in Nat /\ Held(a.ticker) * Price[a.ticker] \in Nat
  BY <1>1, <1>2, CountProduct
<1>4. QED BY <1>1, <1>3 DEF Dollars

(* A quotient times its divisor is no more than what was divided.           *)
LEMMA Halves == ASSUME NEW a \in Nat, NEW b \in Nat, b > 0
                PROVE  a \div b \in Nat /\ (a \div b) * b <= a /\ a \div b <= a
OBVIOUS

(* An account has room for calls only while its shares back them.           *)
LEMMA CallRoomForm ==
    ASSUME NEW t \in Tickers, NEW acct \in Accounts
    PROVE  CallRoom(t, acct) \in Nat /\ (CallRoom(t, acct) > 0 => 100 * CallRoom(t, acct) <= Units[t][acct] - 100 * OnCalls(t, acct))
<1> DEFINE free == Units[t][acct] - 100 * OnCalls(t, acct)
<1>1. free \in Int
  BY BookFacts DEF OnCalls
<1>2. CallRoom(t, acct) = IF acct \in OptionAccounts /\ Units[t][acct] >= 100 /\ free >= 100 THEN free \div 100 ELSE 0
  BY DEF CallRoom
<1> HIDE DEF free
<1>3. free >= 100 => free \div 100 \in Nat /\ 100 * (free \div 100) <= free
  BY <1>1
<1>4. CallRoom(t, acct) \in Nat /\ (CallRoom(t, acct) > 0 => 100 * CallRoom(t, acct) <= free)
  BY <1>2, <1>3
<1>5. QED BY <1>4 DEF free

-----------------------------------------------------------------------------
(* The folds of the checks, step by step.  Each is a chain of lists or books,  *)
(* from what it starts with to what the plan is left with.                   *)
CallsFold(base, s) == FoldLeft(LAMBDA writes, a : Rebuilt(writes, a, SamePair), base, s)
PutsFold(base, s) == FoldLeft(LAMBDA writes, a : Rebuilt(writes, a, SameTicker), base, s)

(* A rebuilt write is a write.                                              *)
LEMMA RebuiltTypes ==
    ASSUME NEW v \in Seq(OptionWrite), NEW x \in Action
    PROVE  Rebuilt(v, x, SamePair) \in Seq(OptionWrite) /\ Rebuilt(v, x, SameTicker) \in Seq(OptionWrite)
<1>1. Write(x) \in OptionWrite
  BY DEF Write, Action, OptionWrite
<1>2. Append(v, Write(x)) \in Seq(OptionWrite)
  BY <1>1
<1>3. QED BY <1>2 DEF Rebuilt

CallsSteps(f, base, s) ==
    /\ f[0] = base
    /\ \A k \in 1..Len(s) : f[k] = Rebuilt(f[k - 1], s[k], SamePair)
    /\ \A k \in 0..Len(s) : f[k] \in Seq(OptionWrite)
    /\ CallsFold(base, s) = f[Len(s)]
LEMMA CallsUnfold ==
    ASSUME NEW base \in Seq(OptionWrite), NEW s \in Seq(Action)
    PROVE  \E f : CallsSteps(f, base, s)
<1> DEFINE V == Seq(OptionWrite)
           X == Action
           step == [e \in V \X X |-> Rebuilt(e[1], e[2], SamePair)]
<1>1. \A v \in V, x \in X : Rebuilt(v, x, SamePair) \in V
  BY RebuiltTypes
<1> HIDE DEF V, X
<1>2. PICK g : IsWalk(g, s, base, step) /\ \A T \in SUBSET DOMAIN s : g[T] \in V
  <2>1. step \in [V \X X -> V] /\ base \in V /\ s \in Seq(X)
    BY <1>1 DEF V, X
  <2> HIDE DEF step
  <2>2. QED BY <2>1, WalkExists
<1>3. g = [T \in SUBSET DOMAIN s |-> IF T = {} THEN base ELSE Rebuilt(g[T \ {Max(T)}], s[Max(T)], SamePair)]
  <2>1. ASSUME NEW T \in SUBSET DOMAIN s, T # {} PROVE g[T] = Rebuilt(g[T \ {Max(T)}], s[Max(T)], SamePair)
    <3>1. <<g[T \ {Max(T)}], s[Max(T)]>> \in V \X X
      BY <1>2, <2>1, LastIsIn DEF X
    <3>2. QED BY <1>2, <2>1, <3>1 DEF IsWalk
  <2>2. QED BY <1>2, <2>1 DEF IsWalk
<1>4. \E h : /\ h = [T \in SUBSET DOMAIN s |-> IF T = {} THEN base ELSE Rebuilt(h[T \ {Max(T)}], s[Max(T)], SamePair)]
             /\ CallsFold(base, s) = h[DOMAIN s]
  BY <1>3 DEF CallsFold, FoldLeft, MapThenFoldSet
<1>5. PICK h : /\ h = [T \in SUBSET DOMAIN s |-> IF T = {} THEN base ELSE Rebuilt(h[T \ {Max(T)}], s[Max(T)], SamePair)]
               /\ CallsFold(base, s) = h[DOMAIN s]
  BY <1>4
<1> DEFINE W == V \cup {h[T] : T \in SUBSET DOMAIN s}
           next == [e \in W \X X |-> Rebuilt(e[1], e[2], SamePair)]
<1>6. IsWalk(h, s, base, next)
  <2>1. ASSUME NEW T \in SUBSET DOMAIN s, T # {} PROVE h[T] = next[<<h[T \ {Max(T)}], s[Max(T)]>>]
    <3>1. <<h[T \ {Max(T)}], s[Max(T)]>> \in W \X X
      BY <2>1, LastIsIn DEF X
    <3>2. QED BY <1>5, <2>1, <3>1
  <2> HIDE DEF next
  <2>2. QED BY <1>5, <2>1 DEF IsWalk
<1>7. \A v \in V, x \in X : next[<<v, x>>] = Rebuilt(v, x, SamePair)
  OBVIOUS
<1>8. PICK f : IsPath(f, s, base, next, V) /\ h[DOMAIN s] = f[Len(s)]
  <2> HIDE DEF next, step, W
  <2>1. \A v \in V, x \in X : next[<<v, x>>] \in V
    BY <1>1, <1>7
  <2>2. base \in V /\ s \in Seq(X)
    BY DEF V, X
  <2>3. QED BY ONLY <1>6, <2>1, <2>2, WalkSteps
<1>9. ASSUME NEW k \in 1..Len(s) PROVE f[k] = Rebuilt(f[k - 1], s[k], SamePair)
  <2>1. f[k - 1] \in V /\ s[k] \in X
    BY <1>8 DEF IsPath, X
  <2> HIDE DEF next
  <2>2. QED BY <1>7, <1>8, <2>1 DEF IsPath
<1>10. CallsSteps(f, base, s)
  BY <1>5, <1>8, <1>9 DEF IsPath, V, CallsSteps
<1>11. QED BY <1>10

PutsSteps(f, base, s) ==
    /\ f[0] = base
    /\ \A k \in 1..Len(s) : f[k] = Rebuilt(f[k - 1], s[k], SameTicker)
    /\ \A k \in 0..Len(s) : f[k] \in Seq(OptionWrite)
    /\ PutsFold(base, s) = f[Len(s)]
LEMMA PutsUnfold ==
    ASSUME NEW base \in Seq(OptionWrite), NEW s \in Seq(Action)
    PROVE  \E f : PutsSteps(f, base, s)
<1> DEFINE V == Seq(OptionWrite)
           X == Action
           step == [e \in V \X X |-> Rebuilt(e[1], e[2], SameTicker)]
<1>1. \A v \in V, x \in X : Rebuilt(v, x, SameTicker) \in V
  BY RebuiltTypes
<1> HIDE DEF V, X
<1>2. PICK g : IsWalk(g, s, base, step) /\ \A T \in SUBSET DOMAIN s : g[T] \in V
  <2>1. step \in [V \X X -> V] /\ base \in V /\ s \in Seq(X)
    BY <1>1 DEF V, X
  <2> HIDE DEF step
  <2>2. QED BY <2>1, WalkExists
<1>3. g = [T \in SUBSET DOMAIN s |-> IF T = {} THEN base ELSE Rebuilt(g[T \ {Max(T)}], s[Max(T)], SameTicker)]
  <2>1. ASSUME NEW T \in SUBSET DOMAIN s, T # {} PROVE g[T] = Rebuilt(g[T \ {Max(T)}], s[Max(T)], SameTicker)
    <3>1. <<g[T \ {Max(T)}], s[Max(T)]>> \in V \X X
      BY <1>2, <2>1, LastIsIn DEF X
    <3>2. QED BY <1>2, <2>1, <3>1 DEF IsWalk
  <2>2. QED BY <1>2, <2>1 DEF IsWalk
<1>4. \E h : /\ h = [T \in SUBSET DOMAIN s |-> IF T = {} THEN base ELSE Rebuilt(h[T \ {Max(T)}], s[Max(T)], SameTicker)]
             /\ PutsFold(base, s) = h[DOMAIN s]
  BY <1>3 DEF PutsFold, FoldLeft, MapThenFoldSet
<1>5. PICK h : /\ h = [T \in SUBSET DOMAIN s |-> IF T = {} THEN base ELSE Rebuilt(h[T \ {Max(T)}], s[Max(T)], SameTicker)]
               /\ PutsFold(base, s) = h[DOMAIN s]
  BY <1>4
<1> DEFINE W == V \cup {h[T] : T \in SUBSET DOMAIN s}
           next == [e \in W \X X |-> Rebuilt(e[1], e[2], SameTicker)]
<1>6. IsWalk(h, s, base, next)
  <2>1. ASSUME NEW T \in SUBSET DOMAIN s, T # {} PROVE h[T] = next[<<h[T \ {Max(T)}], s[Max(T)]>>]
    <3>1. <<h[T \ {Max(T)}], s[Max(T)]>> \in W \X X
      BY <2>1, LastIsIn DEF X
    <3>2. QED BY <1>5, <2>1, <3>1
  <2> HIDE DEF next
  <2>2. QED BY <1>5, <2>1 DEF IsWalk
<1>7. \A v \in V, x \in X : next[<<v, x>>] = Rebuilt(v, x, SameTicker)
  OBVIOUS
<1>8. PICK f : IsPath(f, s, base, next, V) /\ h[DOMAIN s] = f[Len(s)]
  <2> HIDE DEF next, step, W
  <2>1. \A v \in V, x \in X : next[<<v, x>>] \in V
    BY <1>1, <1>7
  <2>2. base \in V /\ s \in Seq(X)
    BY DEF V, X
  <2>3. QED BY ONLY <1>6, <2>1, <2>2, WalkSteps
<1>9. ASSUME NEW k \in 1..Len(s) PROVE f[k] = Rebuilt(f[k - 1], s[k], SameTicker)
  <2>1. f[k - 1] \in V /\ s[k] \in X
    BY <1>8 DEF IsPath, X
  <2> HIDE DEF next
  <2>2. QED BY <1>7, <1>8, <2>1 DEF IsPath
<1>10. PutsSteps(f, base, s)
  BY <1>5, <1>8, <1>9 DEF IsPath, V, PutsSteps
<1>11. QED BY <1>10

(* The calls that are kept.                                                  *)
KeptCall(p, kept, w) == IF KeepsCall(p, kept, w) THEN Append(kept, Cut(w, CallRoom(w.ticker, w.account))) ELSE kept
KeptCalls(p, base, s) == FoldLeft(LAMBDA kept, w : KeptCall(p, kept, w), base, s)

(* A write that is cut is no more than it was and than the room.            *)
LEMMA CutForm ==
    ASSUME NEW w \in OptionWrite, NEW spare \in Nat
    PROVE  /\ Cut(w, spare) \in OptionWrite /\ Cut(w, spare).n <= spare /\ Cut(w, spare).n <= w.n
           /\ Cut(w, spare).ticker = w.ticker /\ Cut(w, spare).account = w.account /\ Cut(w, spare).strike = w.strike
BY DEF Cut, OptionWrite

(* A step over the calls is kept within its types.                          *)
LEMMA KeptCallTypes ==
    ASSUME NEW p, NEW v \in Seq(OptionWrite), NEW x \in OptionWrite
    PROVE  KeptCall(p, v, x) \in Seq(OptionWrite)
<1>1. CASE KeepsCall(p, v, x)
  <2>1. x.ticker \in Tickers /\ x.account \in Accounts
    BY <1>1 DEF KeepsCall, OptionWrite
  <2>2. CallRoom(x.ticker, x.account) \in Nat
    BY <2>1, CallRoomForm
  <2>3. Cut(x, CallRoom(x.ticker, x.account)) \in OptionWrite
    BY <2>2, CutForm
  <2>4. QED BY <1>1, <2>3 DEF KeptCall
<1>2. CASE ~KeepsCall(p, v, x)
  BY <1>2 DEF KeptCall
<1>3. QED BY <1>1, <1>2

KeptCallsSteps(f, p, base, s) ==
    /\ f[0] = base
    /\ \A k \in 1..Len(s) : f[k] = KeptCall(p, f[k - 1], s[k])
    /\ \A k \in 0..Len(s) : f[k] \in Seq(OptionWrite)
    /\ KeptCalls(p, base, s) = f[Len(s)]
LEMMA KeptCallsUnfold ==
    ASSUME NEW p, NEW base \in Seq(OptionWrite), NEW s \in Seq(OptionWrite)
    PROVE  \E f : KeptCallsSteps(f, p, base, s)
<1> DEFINE V == Seq(OptionWrite)
           X == OptionWrite
           step == [e \in V \X X |-> KeptCall(p, e[1], e[2])]
<1>1. \A v \in V, x \in X : KeptCall(p, v, x) \in V
  BY KeptCallTypes
<1> HIDE DEF V, X
<1>2. PICK g : IsWalk(g, s, base, step) /\ \A T \in SUBSET DOMAIN s : g[T] \in V
  <2>1. step \in [V \X X -> V] /\ base \in V /\ s \in Seq(X)
    BY <1>1 DEF V, X
  <2> HIDE DEF step
  <2>2. QED BY <2>1, WalkExists
<1>3. g = [T \in SUBSET DOMAIN s |-> IF T = {} THEN base ELSE KeptCall(p, g[T \ {Max(T)}], s[Max(T)])]
  <2>1. ASSUME NEW T \in SUBSET DOMAIN s, T # {} PROVE g[T] = KeptCall(p, g[T \ {Max(T)}], s[Max(T)])
    <3>1. <<g[T \ {Max(T)}], s[Max(T)]>> \in V \X X
      BY <1>2, <2>1, LastIsIn DEF X
    <3>2. QED BY <1>2, <2>1, <3>1 DEF IsWalk
  <2>2. QED BY <1>2, <2>1 DEF IsWalk
<1>4. \E h : /\ h = [T \in SUBSET DOMAIN s |-> IF T = {} THEN base ELSE KeptCall(p, h[T \ {Max(T)}], s[Max(T)])]
             /\ KeptCalls(p, base, s) = h[DOMAIN s]
  BY <1>3 DEF KeptCalls, FoldLeft, MapThenFoldSet
<1>5. PICK h : /\ h = [T \in SUBSET DOMAIN s |-> IF T = {} THEN base ELSE KeptCall(p, h[T \ {Max(T)}], s[Max(T)])]
               /\ KeptCalls(p, base, s) = h[DOMAIN s]
  BY <1>4
<1> DEFINE W == V \cup {h[T] : T \in SUBSET DOMAIN s}
           next == [e \in W \X X |-> KeptCall(p, e[1], e[2])]
<1>6. IsWalk(h, s, base, next)
  <2>1. ASSUME NEW T \in SUBSET DOMAIN s, T # {} PROVE h[T] = next[<<h[T \ {Max(T)}], s[Max(T)]>>]
    <3>1. <<h[T \ {Max(T)}], s[Max(T)]>> \in W \X X
      BY <2>1, LastIsIn DEF X
    <3>2. QED BY <1>5, <2>1, <3>1
  <2> HIDE DEF next
  <2>2. QED BY <1>5, <2>1 DEF IsWalk
<1>7. \A v \in V, x \in X : next[<<v, x>>] = KeptCall(p, v, x)
  OBVIOUS
<1>8. PICK f : IsPath(f, s, base, next, V) /\ h[DOMAIN s] = f[Len(s)]
  <2> HIDE DEF next, step, W
  <2>1. \A v \in V, x \in X : next[<<v, x>>] \in V
    BY <1>1, <1>7
  <2>2. base \in V /\ s \in Seq(X)
    BY DEF V, X
  <2>3. QED BY ONLY <1>6, <2>1, <2>2, WalkSteps
<1>9. ASSUME NEW k \in 1..Len(s) PROVE f[k] = KeptCall(p, f[k - 1], s[k])
  <2>1. f[k - 1] \in V /\ s[k] \in X
    BY <1>8 DEF IsPath, X
  <2> HIDE DEF next
  <2>2. QED BY <1>7, <1>8, <2>1 DEF IsPath
<1>10. KeptCallsSteps(f, p, base, s)
  BY <1>5, <1>8, <1>9 DEF IsPath, V, KeptCallsSteps
<1>11. QED BY <1>10

(* The cap's book: what each stock comes to, and what is left of the plan.     *)
Caps == [worth : [Tickers -> Nat], out : Seq(Action), told : SUBSET Tickers]
CapFold(base, s) == FoldLeft(Capped, base, s)

(* The book and the cap are counts.                                         *)
LEMMA LimitIsACount == Book \in Nat /\ Limit \in Nat
<1> DEFINE f == [t \in Tickers |-> Held(t) * Price[t]]
<1>1. f \in [Tickers -> Nat]
  <2>1. ASSUME NEW t \in Tickers PROVE Held(t) * Price[t] \in Nat
    <3>1. Held(t) \in Nat /\ Price[t] \in Nat
      BY HeldIsACount, BookFacts
    <3>2. QED BY <3>1, CountProduct
  <2>2. QED BY <2>1
<1>2. Total(f) \in Nat /\ Total(Cash) \in Nat
  <2> HIDE DEF f
  <2>1. QED BY <1>1, BookFacts, TotalIsACount
<1>3. Book = Total(f) + Total(Cash)
  BY DEF Book
<1> HIDE DEF f
<1>4. Book \in Nat
  BY <1>2, <1>3
<1>5. Book * MaxPosition \in Nat
  BY <1>4, BookFacts, CountProduct
<1>6. QED BY <1>4, <1>5, Halves DEF Limit

RoomFor(now) == (AtLeastZero(Limit - now) \div 100) * 100

(* What is bought with the room left stays within the cap.                  *)
LEMMA RoomForForm ==
    ASSUME NEW now \in Nat
    PROVE  RoomFor(now) \in Nat /\ (RoomFor(now) >= 100 => now + RoomFor(now) <= Limit)
<1> DEFINE z == AtLeastZero(Limit - now)
<1>1. z \in Nat /\ (z > 0 => now + z = Limit)
  BY LimitIsACount DEF AtLeastZero
<1>2. RoomFor(now) = (z \div 100) * 100
  BY DEF RoomFor
<1> HIDE DEF z
<1>3. (z \div 100) * 100 \in Nat /\ (z \div 100) * 100 <= z
  BY <1>1
<1>4. QED BY <1>1, <1>2, <1>3, LimitIsACount

LEMMA AtLeastZeroForm == ASSUME NEW n \in Int PROVE AtLeastZero(n) \in Nat /\ AtLeastZero(n) >= n /\ (n >= 0 => AtLeastZero(n) = n) /\ (n <= 0 => AtLeastZero(n) = 0)
BY DEF AtLeastZero

(* What the cap does with an action, by kinds: it counts a sale, lets a buy    *)
(* through, drops it, trims it, or passes on what it cannot read.             *)
CapBook(worth, out, told1) == [worth |-> worth, out |-> out, told |-> told1]
Trimmed(a, spare) == [a EXCEPT !.size = "dollars", !.n = spare]
Worths(v, t, m) == [v.worth EXCEPT ![t] = m]

Sells(v, a) ==
    /\ a.do \in Sales /\ Sized(a)
    /\ Capped(v, a) = CapBook(Worths(v, a.ticker, AtLeastZero(v.worth[a.ticker] - Dollars(a))), Append(v.out, a), v.told)
Passes(v, a) ==
    /\ a.do \in Buys /\ Sized(a) /\ Fits(v.worth[a.ticker], a)
    /\ Capped(v, a) = CapBook(Worths(v, a.ticker, v.worth[a.ticker] + Dollars(a)), Append(v.out, a), v.told)
Drops(v, a) ==
    /\ a.do \in Buys /\ Sized(a) /\ ~Fits(v.worth[a.ticker], a)
    /\ Capped(v, a) = CapBook(v.worth, v.out, v.told \cup {a.ticker})
Trims(v, a) ==
    LET spare == RoomFor(v.worth[a.ticker])
    IN /\ a.do \in Buys /\ Sized(a) /\ ~Fits(v.worth[a.ticker], a) /\ spare >= 100
       /\ Capped(v, a) = CapBook(Worths(v, a.ticker, v.worth[a.ticker] + spare), Append(v.out, Trimmed(a, spare)),
                                 v.told \cup {a.ticker})
Doubts(v, a) ==
    a.do \in Buys /\ ~Sized(a) /\ Capped(v, a) = CapBook(v.worth, Append(v.out, a), v.told \cup {a.ticker})
Skips(v, a) ==
    a.do \notin Buys /\ ~(a.do \in Sales /\ Sized(a)) /\ Capped(v, a) = CapBook(v.worth, Append(v.out, a), v.told)

Noted(v, d) == [v EXCEPT !.told = d]
Put(v, o) == [v EXCEPT !.out = o]
Weighed(v, t, m) == [v EXCEPT !.worth[t] = m]

LEMMA OneUpdate ==
    ASSUME NEW w, NEW o, NEW d, NEW x, NEW v, v = CapBook(w, o, d)
    PROVE  Noted(v, x) = CapBook(w, o, x) /\ Put(v, x) = CapBook(w, x, d) /\ v.worth = w
BY DEF CapBook, Noted, Put

LEMMA BookUpdates ==
    ASSUME NEW v \in Caps, NEW t, NEW m, NEW o, NEW d
    PROVE  /\ Put(Weighed(v, t, m), o) = CapBook(Worths(v, t, m), o, v.told)
           /\ Noted(v, d) = CapBook(v.worth, v.out, d)
           /\ Put(Noted(Weighed(v, t, m), d), o) = CapBook(Worths(v, t, m), o, d)
           /\ Put(Noted(v, d), o) = CapBook(v.worth, o, d)
           /\ Put(v, o) = CapBook(v.worth, o, v.told)
<1>1. v = CapBook(v.worth, v.out, v.told)
  BY DEF Caps, CapBook
<1>2. Weighed(v, t, m) = [v EXCEPT !.worth = Worths(v, t, m)]
  BY DEF Worths, Weighed
<1>3. Weighed(v, t, m) = CapBook(Worths(v, t, m), v.out, v.told)
  <2> DEFINE x == Worths(v, t, m)
  <2> HIDE DEF x
  <2>1. Weighed(v, t, m) = [v EXCEPT !.worth = x]
    BY <1>2 DEF x
  <2>2. [v EXCEPT !.worth = x] = [worth |-> x, out |-> v.out, told |-> v.told]
    BY DEF Caps
  <2>3. QED BY <2>1, <2>2 DEF x, CapBook
<1>4. QED BY <1>1, <1>3, OneUpdate

(* What the cap does with an action is one of six things.                   *)
LEMMA CappedForm ==
    ASSUME NEW v \in Caps, NEW a \in Action
    PROVE  Sells(v, a) \/ Passes(v, a) \/ Drops(v, a) \/ Trims(v, a) \/ Doubts(v, a) \/ Skips(v, a)
<1> DEFINE now == v.worth[a.ticker]
           z == RoomFor(now)
           sale == [v EXCEPT !.worth[a.ticker] = AtLeastZero(@ - Dollars(a)), !.out = Append(@, a)]
           buy == [v EXCEPT !.worth[a.ticker] = @ + Dollars(a), !.out = Append(@, a)]
           drop == [v EXCEPT !.told = @ \cup {a.ticker}]
           trim == [v EXCEPT !.worth[a.ticker] = @ + z, !.told = @ \cup {a.ticker}, !.out = Append(@, Trimmed(a, z))]
           ask == [v EXCEPT !.told = @ \cup {a.ticker}, !.out = Append(@, a)]
           other == [v EXCEPT !.out = Append(@, a)]
           S == a.do \in Sales
           B == a.do \in Buys
           Z == Sized(a)
           F == Fits(now, a)
<1>1. a.ticker \in Tickers /\ v = [worth |-> v.worth, out |-> v.out, told |-> v.told] /\ v.worth \in [Tickers -> Nat] /\ now \in Nat
  BY DEF Caps, Action
<1>2. z \in Nat
  <2> HIDE DEF now
  <2>1. QED BY <1>1, RoomForForm
<1>3. Capped(v, a) =
        CASE S /\ Z -> sale [] B /\ Z /\ F -> buy [] B /\ Z /\ ~F /\ z < 100 -> drop
          [] B /\ Z /\ ~F /\ z >= 100 -> trim [] B /\ ~Z -> ask [] OTHER -> other
  BY DEF Capped, RoomFor, Trimmed
<1>4. S => ~B
  BY DEF Sales, Buys
<1>5. /\ sale = CapBook(Worths(v, a.ticker, AtLeastZero(now - Dollars(a))), Append(v.out, a), v.told)
      /\ buy = CapBook(Worths(v, a.ticker, now + Dollars(a)), Append(v.out, a), v.told)
      /\ drop = CapBook(v.worth, v.out, v.told \cup {a.ticker})
      /\ trim = CapBook(Worths(v, a.ticker, now + z), Append(v.out, Trimmed(a, z)), v.told \cup {a.ticker})
      /\ ask = CapBook(v.worth, Append(v.out, a), v.told \cup {a.ticker})
      /\ other = CapBook(v.worth, Append(v.out, a), v.told)
  <2> DEFINE o == Append(v.out, a)
             d == v.told \cup {a.ticker}
             t == a.ticker
             less == AtLeastZero(now - Dollars(a))
             more == now + Dollars(a)
             most == now + z
             p == Append(v.out, Trimmed(a, z))
  <2>1. /\ sale = [v EXCEPT !.worth[t] = less, !.out = o]
        /\ buy = [v EXCEPT !.worth[t] = more, !.out = o]
        /\ trim = [v EXCEPT !.worth[t] = most, !.told = d, !.out = p]
    OBVIOUS
  <2>2. drop = [v EXCEPT !.told = d] /\ ask = [v EXCEPT !.told = d, !.out = o] /\ other = [v EXCEPT !.out = o]
    OBVIOUS
  <2> HIDE DEF z, o, d, t, less, more, most, p, sale, buy, drop, trim, ask, other
  <2>3. sale = Put(Weighed(v, t, less), o)
    BY <2>1 DEF Put, Weighed
  <2>4. buy = Put(Weighed(v, t, more), o)
    BY <2>1 DEF Put, Weighed
  <2>5. trim = Put(Noted(Weighed(v, t, most), d), p)
    BY <2>1 DEF Put, Weighed, Noted
  <2>6. drop = Noted(v, d) /\ ask = Put(Noted(v, d), o) /\ other = Put(v, o)
    BY <2>2 DEF Put, Noted
  <2>7. /\ sale = CapBook(Worths(v, t, less), o, v.told) /\ buy = CapBook(Worths(v, t, more), o, v.told)
        /\ trim = CapBook(Worths(v, t, most), p, d)
    BY <2>3, <2>4, <2>5, BookUpdates
  <2>8. drop = CapBook(v.worth, v.out, d) /\ ask = CapBook(v.worth, o, d) /\ other = CapBook(v.worth, o, v.told)
    BY <2>6, BookUpdates
  <2>9. QED BY <2>7, <2>8 DEF o, d, t, less, more, most, p
<1> HIDE DEF sale, buy, drop, trim, ask, other, S, B, Z, F, z
<1>6. z < 100 \/ z >= 100
  BY <1>2
<1>7. ~(z < 100 /\ z >= 100)
  BY <1>2
<1>8. \/ S /\ Z /\ Capped(v, a) = sale
      \/ B /\ Z /\ F /\ Capped(v, a) = buy
      \/ B /\ Z /\ ~F /\ Capped(v, a) = drop
      \/ B /\ Z /\ ~F /\ z >= 100 /\ Capped(v, a) = trim
      \/ B /\ ~Z /\ Capped(v, a) = ask
      \/ ~B /\ ~(S /\ Z) /\ Capped(v, a) = other
  BY <1>3, <1>4, <1>6, <1>7
<1>9. S /\ Z /\ Capped(v, a) = sale => Sells(v, a)
  BY <1>5 DEF Sells, S, Z
<1>10. B /\ Z /\ F /\ Capped(v, a) = buy => Passes(v, a)
  BY <1>5 DEF Passes, B, Z, F
<1>11. B /\ Z /\ ~F /\ Capped(v, a) = drop => Drops(v, a)
  BY <1>5 DEF Drops, B, Z, F
<1>12. B /\ Z /\ ~F /\ z >= 100 /\ Capped(v, a) = trim => Trims(v, a)
  BY <1>5 DEF Trims, B, Z, F, z
<1>13. B /\ ~Z /\ Capped(v, a) = ask => Doubts(v, a)
  BY <1>5 DEF Doubts, B, Z
<1>14. ~B /\ ~(S /\ Z) /\ Capped(v, a) = other => Skips(v, a)
  BY <1>5 DEF Skips, B, S, Z
<1>15. QED BY <1>8, <1>9, <1>10, <1>11, <1>12, <1>13, <1>14

(* The cap keeps its book a book.                                           *)
LEMMA CappedTypes == ASSUME NEW v \in Caps, NEW x \in Action PROVE Capped(v, x) \in Caps
<1> DEFINE now == v.worth[x.ticker]
           spare == RoomFor(now)
<1>1. x.ticker \in Tickers /\ v.worth \in [Tickers -> Nat] /\ v.out \in Seq(Action) /\ v.told \in SUBSET Tickers /\ now \in Nat
  BY DEF Caps, Action
<1>2. spare \in Nat /\ Dollars(x) \in Nat /\ AtLeastZero(now - Dollars(x)) \in Nat
  <2> HIDE DEF now
  <2>1. RoomFor(now) \in Nat
    BY <1>1, RoomForForm
  <2>2. Dollars(x) \in Nat
    BY DollarsAreACount
  <2>3. now - Dollars(x) \in Int
    BY <1>1, <2>2
  <2>4. QED BY <2>1, <2>2, <2>3, AtLeastZeroForm
<1> HIDE DEF spare
<1>3. Trimmed(x, spare) \in Action
  BY <1>2 DEF Trimmed, Action
<1>4. now + Dollars(x) \in Nat /\ now + spare \in Nat
  BY <1>1, <1>2
<1>5. Append(v.out, x) \in Seq(Action) /\ Append(v.out, Trimmed(x, spare)) \in Seq(Action) /\ v.told \cup {x.ticker} \in SUBSET Tickers
  BY <1>1, <1>3
<1>6. \A m \in Nat : Worths(v, x.ticker, m) \in [Tickers -> Nat]
  BY <1>1 DEF Worths
<1>7. \A w \in [Tickers -> Nat], o \in Seq(Action), t \in SUBSET Tickers : CapBook(w, o, t) \in Caps
  BY DEF CapBook, Caps
<1>8. CASE Sells(v, x)
  <2> DEFINE m == AtLeastZero(now - Dollars(x))
  <2>1. Capped(v, x) = CapBook(Worths(v, x.ticker, m), Append(v.out, x), v.told) /\ m \in Nat
    BY <1>2, <1>8 DEF Sells
  <2> HIDE DEF m
  <2>2. QED BY <1>1, <1>5, <1>6, <1>7, <2>1
<1>9. CASE Passes(v, x)
  <2> DEFINE m == now + Dollars(x)
  <2>1. Capped(v, x) = CapBook(Worths(v, x.ticker, m), Append(v.out, x), v.told) /\ m \in Nat
    BY <1>4, <1>9 DEF Passes
  <2> HIDE DEF m
  <2>2. QED BY <1>1, <1>5, <1>6, <1>7, <2>1
<1>10. CASE Drops(v, x)
  BY <1>1, <1>5, <1>7, <1>10 DEF Drops
<1>11. CASE Trims(v, x)
  <2>1. Capped(v, x) = CapBook(Worths(v, x.ticker, now + spare), Append(v.out, Trimmed(x, spare)), v.told \cup {x.ticker})
    BY <1>11 DEF Trims, spare
  <2>2. QED BY <1>4, <1>5, <1>6, <1>7, <2>1
<1>12. CASE Doubts(v, x)
  BY <1>1, <1>5, <1>7, <1>12 DEF Doubts
<1>13. CASE Skips(v, x)
  BY <1>1, <1>5, <1>7, <1>13 DEF Skips
<1>14. QED BY <1>8, <1>9, <1>10, <1>11, <1>12, <1>13, CappedForm

CapSteps(f, base, s) ==
    /\ f[0] = base
    /\ \A k \in 1..Len(s) : f[k] = Capped(f[k - 1], s[k])
    /\ \A k \in 0..Len(s) : f[k] \in Caps
    /\ CapFold(base, s) = f[Len(s)]
(* The cap is a chain of such books.                                        *)
LEMMA CapUnfolds ==
    ASSUME NEW base \in Caps, NEW s \in Seq(Action)
    PROVE  \E f : CapSteps(f, base, s)
<1> DEFINE V == Caps
           X == Action
           step == [e \in V \X X |-> Capped(e[1], e[2])]
<1>1. \A v \in V, x \in X : Capped(v, x) \in V
  BY CappedTypes
<1> HIDE DEF V, X
<1>2. PICK g : IsWalk(g, s, base, step) /\ \A T \in SUBSET DOMAIN s : g[T] \in V
  <2>1. step \in [V \X X -> V] /\ base \in V /\ s \in Seq(X)
    BY <1>1 DEF V, X
  <2> HIDE DEF step
  <2>2. QED BY <2>1, WalkExists
<1>3. g = [T \in SUBSET DOMAIN s |-> IF T = {} THEN base ELSE Capped(g[T \ {Max(T)}], s[Max(T)])]
  <2>1. ASSUME NEW T \in SUBSET DOMAIN s, T # {} PROVE g[T] = Capped(g[T \ {Max(T)}], s[Max(T)])
    <3>1. <<g[T \ {Max(T)}], s[Max(T)]>> \in V \X X
      BY <1>2, <2>1, LastIsIn DEF X
    <3>2. QED BY <1>2, <2>1, <3>1 DEF IsWalk
  <2>2. QED BY <1>2, <2>1 DEF IsWalk
<1>4. \E h : /\ h = [T \in SUBSET DOMAIN s |-> IF T = {} THEN base ELSE Capped(h[T \ {Max(T)}], s[Max(T)])]
             /\ CapFold(base, s) = h[DOMAIN s]
  BY <1>3 DEF CapFold, FoldLeft, MapThenFoldSet
<1>5. PICK h : /\ h = [T \in SUBSET DOMAIN s |-> IF T = {} THEN base ELSE Capped(h[T \ {Max(T)}], s[Max(T)])]
               /\ CapFold(base, s) = h[DOMAIN s]
  BY <1>4
<1> DEFINE W == V \cup {h[T] : T \in SUBSET DOMAIN s}
           next == [e \in W \X X |-> Capped(e[1], e[2])]
<1>6. IsWalk(h, s, base, next)
  <2>1. ASSUME NEW T \in SUBSET DOMAIN s, T # {} PROVE h[T] = next[<<h[T \ {Max(T)}], s[Max(T)]>>]
    <3>1. <<h[T \ {Max(T)}], s[Max(T)]>> \in W \X X
      BY <2>1, LastIsIn DEF X
    <3>2. QED BY <1>5, <2>1, <3>1
  <2> HIDE DEF next
  <2>2. QED BY <1>5, <2>1 DEF IsWalk
<1>7. \A v \in V, x \in X : next[<<v, x>>] = Capped(v, x)
  OBVIOUS
<1>8. PICK f : IsPath(f, s, base, next, V) /\ h[DOMAIN s] = f[Len(s)]
  <2> HIDE DEF next, step, W
  <2>1. \A v \in V, x \in X : next[<<v, x>>] \in V
    BY <1>1, <1>7
  <2>2. base \in V /\ s \in Seq(X)
    BY DEF V, X
  <2>3. QED BY ONLY <1>6, <2>1, <2>2, WalkSteps
<1>9. ASSUME NEW k \in 1..Len(s) PROVE f[k] = Capped(f[k - 1], s[k])
  <2>1. f[k - 1] \in V /\ s[k] \in X
    BY <1>8 DEF IsPath, X
  <2> HIDE DEF next
  <2>2. QED BY <1>7, <1>8, <2>1 DEF IsPath
<1>10. CapSteps(f, base, s)
  BY <1>5, <1>8, <1>9 DEF IsPath, V, CapSteps
<1>11. QED BY <1>10

-----------------------------------------------------------------------------
(* The smallest of three, the largest of a function's values.                *)
LEMMA LeastOfThree ==
    ASSUME NEW a \in Nat, NEW b \in Nat, NEW c \in Nat
    PROVE  Min({a, b, c}) \in Nat /\ Min({a, b, c}) <= a /\ Min({a, b, c}) <= b /\ Min({a, b, c}) <= c
<1>1. \E x \in {a, b, c} : \A y \in {a, b, c} : x <= y
  OBVIOUS
<1>2. Min({a, b, c}) \in {a, b, c} /\ \A y \in {a, b, c} : Min({a, b, c}) <= y
  <2> DEFINE S == {a, b, c}
  <2>1. \E x \in S : \A y \in S : x <= y
    BY <1>1
  <2> HIDE DEF S
  <2>2. Min(S) \in S /\ \A y \in S : Min(S) <= y
    BY <2>1 DEF Min
  <2>3. QED BY <2>2 DEF S
<1>3. QED BY <1>2

LEMMA LeastOfTwo ==
    ASSUME NEW a \in Nat, NEW b \in Nat
    PROVE  Min({a, b}) \in Nat /\ Min({a, b}) <= a /\ Min({a, b}) <= b
<1>1. {a, b} = {a, b, b}
  OBVIOUS
<1>2. QED BY <1>1, LeastOfThree

(* A member of a sum of counts is no more than the sum.                     *)
LEMMA MemberOfSum ==
    ASSUME NEW w, NEW S, IsFiniteSet(S), \A x \in S : w[x] \in Nat, NEW z \in S
    PROVE  w[z] <= SumOf(w, S)
<1>1. SumOf(w, S) = w[z] + SumOf(w, S \ {z})
  BY SumTakesOut
<1>2. IsFiniteSet(S \ {z}) /\ \A x \in S \ {z} : w[x] \in Nat
  BY FS_Subset
<1>3. SumOf(w, S \ {z}) \in Nat /\ w[z] \in Nat
  BY <1>2, SumIsACount
<1>4. QED BY <1>1, <1>3

(* Some account has the most room.                                          *)
LEMMA MostRoom ==
    ASSUME NEW S, S # {}, IsFiniteSet(S), NEW spare \in [S -> Nat]
    PROVE  \E a \in S : \A o \in S : spare[o] <= spare[a]
<1> DEFINE all == SumOf(spare, S)
           N == {all - spare[a] : a \in S}
<1>1. \A a \in S : spare[a] \in Nat /\ spare[a] <= all
  BY MemberOfSum
<1>2. all \in Nat
  BY <1>1, SumIsACount
<1> HIDE DEF all
<1>3. \A k \in N : k \in Nat
  BY <1>1, <1>2
<1>4. N # {}
  OBVIOUS
<1>5. PICK m \in N : \A k \in N : m <= k
  <2> HIDE DEF N
  <2>1. N \in SUBSET Nat
    BY <1>3
  <2>2. QED BY <1>4, <2>1, LeastNumber
<1>6. PICK a \in S : m = all - spare[a]
  OBVIOUS
<1>7. \A o \in S : spare[o] <= spare[a]
  <2>1. SUFFICES ASSUME NEW o \in S PROVE spare[o] <= spare[a]
    OBVIOUS
  <2>2. all - spare[a] <= all - spare[o]
    BY <1>5, <1>6
  <2>3. spare[a] \in Nat /\ spare[o] \in Nat
    BY <1>1
  <2>4. QED BY ONLY <1>2, <2>2, <2>3
<1>8. QED BY <1>7

-----------------------------------------------------------------------------
(* The cash for puts.                                                        *)
LEMMA RoomIsACount ==
    ASSUME NEW acct \in Accounts
    PROVE  /\ OnPuts(acct) \in Nat /\ OnPuts(acct) <= Cash[acct] /\ Room(acct) = Cash[acct] - OnPuts(acct)
           /\ Room(acct) \in Nat
<1> DEFINE f == [t \in Tickers |-> OpenPuts[t][acct]]
<1>1. f \in [Tickers -> Nat] /\ IsFiniteSet(Tickers)
  BY BookFacts
<1>2. Total(f) <= Cash[acct] /\ Cash[acct] \in Nat
  BY BookAssumption DEF Total
<1>3. OnPuts(acct) = IF "puts" \in read THEN Total(f) ELSE 0
  BY DEF OnPuts
<1> HIDE DEF f
<1>4. Total(f) \in Nat
  BY <1>1, TotalIsACount
<1>5. OnPuts(acct) \in Nat /\ OnPuts(acct) <= Cash[acct]
  BY <1>2, <1>3, <1>4
<1>6. QED BY <1>2, <1>5 DEF Room, AtLeastZero

(* So are the budget and the most for one put.                              *)
LEMMA BudgetIsACount == Budget \in Nat /\ MostForOne \in Nat
<1> DEFINE f == [acct \in OptionAccounts |-> Room(acct)]
<1>1. f \in [OptionAccounts -> Nat]
  <2>1. \A acct \in OptionAccounts : Room(acct) \in Nat
    BY BookFacts, RoomIsACount
  <2>2. QED BY <2>1
<1>2. PICK b \in OptionAccounts : \A o \in OptionAccounts : f[o] <= f[b]
  <2> HIDE DEF f
  <2>1. QED BY <1>1, BookFacts, MostRoom
<1>3. Budget \in Nat
  <2>1. Budget = Total(f)
    BY DEF Budget
  <2> HIDE DEF f
  <2>2. QED BY <1>1, <2>1, BookFacts, TotalIsACount
<1> DEFINE S == {Room(acct) : acct \in OptionAccounts}
<1>4. Max(S) \in Nat
  <2>1. Room(b) \in S /\ \A y \in S : Room(b) >= y
    <3>1. \A o \in OptionAccounts : f[o] = Room(o) /\ f[o] \in Nat
      BY <1>1
    <3>2. \A o \in OptionAccounts : Room(b) >= Room(o)
      BY <1>2, <3>1
    <3>3. QED BY <3>2
  <2>2. S \subseteq Nat
    BY BookFacts, RoomIsACount
  <2> HIDE DEF S
  <2>3. \E x \in S : \A y \in S : x >= y
    BY <2>1
  <2>4. Max(S) \in S
    BY <2>3 DEF Max
  <2>5. QED BY <2>2, <2>4
<1>5. (Budget * MaxPerPut) \div 100 \in Nat /\ (Budget * MaxPuts) \div 100 \in Nat
  <2>1. Budget * MaxPerPut \in Nat /\ Budget * MaxPuts \in Nat
    BY <1>3, BookFacts, CountProduct
  <2>2. QED BY <2>1, Halves
<1>6. MostForOne = Min({(Budget * MaxPerPut) \div 100, (Budget * MaxPuts) \div 100, Max(S)})
  BY DEF MostForOne
<1> HIDE DEF S
<1>7. QED BY <1>3, <1>4, <1>5, <1>6, LeastOfThree

-----------------------------------------------------------------------------
(* The puts that are kept: each is paid for from what is left in all and in    *)
(* its account.                                                              *)
Purse == [kept : Seq(OptionWrite), left : Nat, room : [OptionAccounts -> Nat]]
Paid(acc, x) ==
    [kept |-> Append(acc.kept, x), left |-> acc.left - Collateral(x),
     room |-> [acc.room EXCEPT ![x.account] = @ - Collateral(x)]]
TakesPut(acc, w, p, x) ==
    /\ x \in OptionWrite /\ x.ticker = w.ticker /\ x.n <= w.n /\ x.account \in OptionAccounts
    /\ Collateral(x) <= acc.left /\ Collateral(x) <= acc.room[x.account]
    /\ \E a \in ToSet(p.actions) : a.do = "SELL_PUT" /\ a.ticker = w.ticker
    /\ w.ticker \notin TickersOf(acc.kept)

(* A put's collateral is a count.                                           *)
LEMMA CollateralIsACount == ASSUME NEW w \in OptionWrite PROVE Collateral(w) \in Nat
<1>1. w.n \in Nat /\ Strike[w.ticker] \in Nat
  BY BookFacts DEF OptionWrite
<1>2. w.n * Strike[w.ticker] \in Nat
  BY <1>1, CountProduct
<1>3. w.n * Strike[w.ticker] * 100 \in Nat
  BY <1>2
<1>4. QED BY <1>3 DEF Collateral

(* As many contracts as fit need no more cash than there is.                *)
LEMMA WhatFits ==
    ASSUME NEW cash \in Nat, NEW strike \in Nat, strike > 0, NEW n \in Nat, n <= cash \div (strike * 100)
    PROVE  n * strike * 100 <= cash
<1> DEFINE d == strike * 100
           q == cash \div d
<1>1. d \in Nat /\ d > 0
  OBVIOUS
<1>2. q \in Nat /\ q * d <= cash
  <2> HIDE DEF d
  <2>1. QED BY <1>1, Halves
<1>3. n * d <= q * d
  <2>1. n <= q
    OBVIOUS
  <2> HIDE DEF d, q
  <2>2. QED BY <1>1, <1>2, <2>1
<1>4. n * strike * 100 = n * d
  OBVIOUS
<1>5. n * d \in Nat /\ q * d \in Nat
  <2> HIDE DEF d, q
  <2>1. QED BY <1>1, <1>2, CountProduct
<1> HIDE DEF d, q
<1>6. QED BY <1>2, <1>3, <1>4, <1>5

(* A put is placed in an account that may write options.                    *)
LEMMA PlacedForm ==
    ASSUME NEW spare \in [OptionAccounts -> Nat], NEW w \in OptionWrite
    PROVE  /\ Placed(spare, w) \in OptionWrite /\ Placed(spare, w).account \in OptionAccounts
           /\ Placed(spare, w).ticker = w.ticker /\ Placed(spare, w).n = w.n
<1> DEFINE roomiest == CHOOSE acct \in OptionAccounts : \A other \in OptionAccounts : spare[other] <= spare[acct]
           acct == IF w.account \in OptionAccounts /\ spare[w.account] >= Strike[w.ticker] * 100 THEN w.account ELSE roomiest
<1>1. roomiest \in OptionAccounts
  <2>1. \E a \in OptionAccounts : \A o \in OptionAccounts : spare[o] <= spare[a]
    BY BookFacts, MostRoom
  <2>2. QED BY <2>1
<1>2. acct \in OptionAccounts /\ acct \in Accounts
  <2> HIDE DEF roomiest
  <2>1. QED BY <1>1, BookFacts
<1>3. Placed(spare, w) = [w EXCEPT !.account = acct]
  BY DEF Placed
<1> HIDE DEF acct
<1>4. QED BY <1>2, <1>3 DEF OptionWrite

(* A put is dropped, or kept at a size that what is left can pay for.       *)
LEMMA KeptPutForm ==
    ASSUME NEW p, NEW acc \in Purse, NEW w \in OptionWrite
    PROVE  KeptPut(acc, w, p) = acc \/ \E x \in OptionWrite : TakesPut(acc, w, p, x) /\ KeptPut(acc, w, p) = Paid(acc, x)
<1> DEFINE put == Placed(acc.room, w)
           most == Min({MostForOne, acc.left, acc.room[put.account]})
           fits == Cut(put, most \div (Strike[w.ticker] * 100))
           ok == /\ Candidate(w.ticker) /\ w.strike = "good"
                 /\ \E a \in ToSet(p.actions) : a.do = "SELL_PUT" /\ a.ticker = w.ticker
                 /\ w.ticker \notin TickersOf(acc.kept)
                 /\ fits.n > 0
<1>1. acc.left \in Nat /\ acc.room \in [OptionAccounts -> Nat] /\ w.ticker \in Tickers
  BY DEF Purse, OptionWrite
<1>2. put \in OptionWrite /\ put.account \in OptionAccounts /\ put.ticker = w.ticker /\ put.n = w.n
  BY <1>1, PlacedForm
<1> HIDE DEF put
<1>3. most \in Nat /\ most <= acc.left /\ most <= acc.room[put.account]
  <2>1. acc.room[put.account] \in Nat
    BY <1>1, <1>2
  <2>2. QED BY <1>1, <2>1, BudgetIsACount, LeastOfThree
<1> HIDE DEF most
<1>4. Strike[w.ticker] \in Nat /\ Strike[w.ticker] > 0
  BY <1>1, BookFacts
<1>5. most \div (Strike[w.ticker] * 100) \in Nat
  <2> DEFINE d == Strike[w.ticker] * 100
  <2>1. d \in Nat /\ d > 0
    BY <1>4
  <2> HIDE DEF d
  <2>2. most \div d \in Nat
    BY <1>3, <2>1, Halves
  <2>3. QED BY <2>2 DEF d
<1>6. /\ fits \in OptionWrite /\ fits.n <= most \div (Strike[w.ticker] * 100) /\ fits.n <= w.n
      /\ fits.ticker = w.ticker /\ fits.account = put.account
  BY <1>2, <1>5, CutForm
<1>7. KeptPut(acc, w, p) =
        IF ok THEN [kept |-> Append(acc.kept, fits), left |-> acc.left - Collateral(fits),
                    room |-> [acc.room EXCEPT ![put.account] = @ - Collateral(fits)]]
        ELSE acc
  BY DEF KeptPut, put, most
<1> HIDE DEF fits
<1>8. Collateral(fits) <= most /\ Collateral(fits) \in Nat
  <2>1. fits.n \in Nat
    BY <1>6 DEF OptionWrite
  <2>2. fits.n * Strike[w.ticker] * 100 <= most
    BY <1>3, <1>4, <1>6, <2>1, WhatFits
  <2>3. Collateral(fits) = fits.n * Strike[w.ticker] * 100
    BY <1>6 DEF Collateral
  <2>4. QED BY <1>6, <2>2, <2>3, CollateralIsACount
<1>9. CASE ok
  <2>1. KeptPut(acc, w, p) = Paid(acc, fits)
    BY <1>6, <1>7, <1>9 DEF Paid
  <2>2. Collateral(fits) <= acc.left /\ Collateral(fits) <= acc.room[fits.account]
    <3>1. acc.room[put.account] \in Nat
      BY <1>1, <1>2
    <3>2. QED BY <1>1, <1>3, <1>6, <1>8, <3>1
  <2>3. TakesPut(acc, w, p, fits)
    BY <1>2, <1>6, <1>9, <2>2 DEF TakesPut
  <2>4. QED BY <1>6, <2>1, <2>3
<1>10. CASE ~ok
  BY <1>7, <1>10
<1>11. QED BY <1>9, <1>10

(* Paying for one leaves counts.                                            *)
LEMMA PaidTypes ==
    ASSUME NEW p, NEW acc \in Purse, NEW w, NEW x \in OptionWrite, TakesPut(acc, w, p, x)
    PROVE  Paid(acc, x) \in Purse
<1>1. acc.kept \in Seq(OptionWrite) /\ acc.left \in Nat /\ acc.room \in [OptionAccounts -> Nat]
  BY DEF Purse
<1>2. x.account \in OptionAccounts /\ Collateral(x) <= acc.left /\ Collateral(x) <= acc.room[x.account] /\ Collateral(x) \in Nat
  BY CollateralIsACount DEF TakesPut
<1>3. acc.left - Collateral(x) \in Nat /\ acc.room[x.account] - Collateral(x) \in Nat
  BY <1>1, <1>2
<1> DEFINE m == acc.room[x.account] - Collateral(x)
<1>4. Paid(acc, x) = [kept |-> Append(acc.kept, x), left |-> acc.left - Collateral(x), room |-> [acc.room EXCEPT ![x.account] = m]]
  BY DEF Paid
<1>5. m \in Nat
  BY <1>3
<1> HIDE DEF m
<1>6. [acc.room EXCEPT ![x.account] = m] \in [OptionAccounts -> Nat]
  <2> DEFINE c == x.account
             r == acc.room
  <2>1. r \in [OptionAccounts -> Nat]
    BY <1>1
  <2> HIDE DEF c, r
  <2>2. [r EXCEPT ![c] = m] \in [OptionAccounts -> Nat]
    BY <1>5, <2>1
  <2>3. QED BY <2>2 DEF c, r
<1>7. Append(acc.kept, x) \in Seq(OptionWrite)
  BY <1>1
<1>8. QED BY <1>7, <1>3, <1>4, <1>6 DEF Purse

(* A step over the puts keeps its purse a purse.                            *)
LEMMA KeptPutTypes == ASSUME NEW p, NEW v \in Purse, NEW x \in OptionWrite PROVE KeptPut(v, x, p) \in Purse
BY KeptPutForm, PaidTypes

PutFold(p, base, s) == FoldLeft(LAMBDA acc, w : KeptPut(acc, w, p), base, s)

KeptPutsSteps(f, p, base, s) ==
    /\ f[0] = base
    /\ \A k \in 1..Len(s) : f[k] = KeptPut(f[k - 1], s[k], p)
    /\ \A k \in 0..Len(s) : f[k] \in Purse
    /\ PutFold(p, base, s) = f[Len(s)]
LEMMA KeptPutsUnfold ==
    ASSUME NEW p, NEW base \in Purse, NEW s \in Seq(OptionWrite)
    PROVE  \E f : KeptPutsSteps(f, p, base, s)
<1> DEFINE V == Purse
           X == OptionWrite
           step == [e \in V \X X |-> KeptPut(e[1], e[2], p)]
<1>1. \A v \in V, x \in X : KeptPut(v, x, p) \in V
  BY KeptPutTypes
<1> HIDE DEF V, X
<1>2. PICK g : IsWalk(g, s, base, step) /\ \A T \in SUBSET DOMAIN s : g[T] \in V
  <2>1. step \in [V \X X -> V] /\ base \in V /\ s \in Seq(X)
    BY <1>1 DEF V, X
  <2> HIDE DEF step
  <2>2. QED BY <2>1, WalkExists
<1>3. g = [T \in SUBSET DOMAIN s |-> IF T = {} THEN base ELSE KeptPut(g[T \ {Max(T)}], s[Max(T)], p)]
  <2>1. ASSUME NEW T \in SUBSET DOMAIN s, T # {} PROVE g[T] = KeptPut(g[T \ {Max(T)}], s[Max(T)], p)
    <3>1. <<g[T \ {Max(T)}], s[Max(T)]>> \in V \X X
      BY <1>2, <2>1, LastIsIn DEF X
    <3>2. QED BY <1>2, <2>1, <3>1 DEF IsWalk
  <2>2. QED BY <1>2, <2>1 DEF IsWalk
<1>4. \E h : /\ h = [T \in SUBSET DOMAIN s |-> IF T = {} THEN base ELSE KeptPut(h[T \ {Max(T)}], s[Max(T)], p)]
             /\ PutFold(p, base, s) = h[DOMAIN s]
  BY <1>3 DEF PutFold, FoldLeft, MapThenFoldSet
<1>5. PICK h : /\ h = [T \in SUBSET DOMAIN s |-> IF T = {} THEN base ELSE KeptPut(h[T \ {Max(T)}], s[Max(T)], p)]
               /\ PutFold(p, base, s) = h[DOMAIN s]
  BY <1>4
<1> DEFINE W == V \cup {h[T] : T \in SUBSET DOMAIN s}
           next == [e \in W \X X |-> KeptPut(e[1], e[2], p)]
<1>6. IsWalk(h, s, base, next)
  <2>1. ASSUME NEW T \in SUBSET DOMAIN s, T # {} PROVE h[T] = next[<<h[T \ {Max(T)}], s[Max(T)]>>]
    <3>1. <<h[T \ {Max(T)}], s[Max(T)]>> \in W \X X
      BY <2>1, LastIsIn DEF X
    <3>2. QED BY <1>5, <2>1, <3>1
  <2> HIDE DEF next
  <2>2. QED BY <1>5, <2>1 DEF IsWalk
<1>7. \A v \in V, x \in X : next[<<v, x>>] = KeptPut(v, x, p)
  OBVIOUS
<1>8. PICK f : IsPath(f, s, base, next, V) /\ h[DOMAIN s] = f[Len(s)]
  <2> HIDE DEF next, step, W
  <2>1. \A v \in V, x \in X : next[<<v, x>>] \in V
    BY <1>1, <1>7
  <2>2. base \in V /\ s \in Seq(X)
    BY DEF V, X
  <2>3. QED BY ONLY <1>6, <2>1, <2>2, WalkSteps
<1>9. ASSUME NEW k \in 1..Len(s) PROVE f[k] = KeptPut(f[k - 1], s[k], p)
  <2>1. f[k - 1] \in V /\ s[k] \in X
    BY <1>8 DEF IsPath, X
  <2> HIDE DEF next
  <2>2. QED BY <1>7, <1>8, <2>1 DEF IsPath
<1>10. KeptPutsSteps(f, p, base, s)
  BY <1>5, <1>8, <1>9 DEF IsPath, V, KeptPutsSteps
<1>11. QED BY <1>10

-----------------------------------------------------------------------------
(* The table of actions, written from the puts that are kept.                 *)
ReconFold(kept, base, s) == FoldLeft(LAMBDA out, a : Reconciled(kept, out, a), base, s)
DrawnOn(kept, a, w) == [a EXCEPT !.size = "contracts", !.n = w.n, !.account = w.account]
SoldIn(out, t) == \E b \in ToSet(out) : b.do = "SELL_PUT" /\ b.ticker = t

(* An action is passed on, dropped, or rewritten from the put that is kept. *)
LEMMA ReconciledForm ==
    ASSUME NEW kept \in Seq(OptionWrite), NEW out \in Seq(Action), NEW a \in Action
    PROVE  \/ a.do # "SELL_PUT" /\ Reconciled(kept, out, a) = Append(out, a)
           \/ a.do = "SELL_PUT" /\ (a.ticker \notin TickersOf(kept) \/ SoldIn(out, a.ticker)) /\ Reconciled(kept, out, a) = out
           \/ /\ a.do = "SELL_PUT" /\ a.ticker \in TickersOf(kept) /\ ~SoldIn(out, a.ticker)
              /\ \E w \in ToSet(kept) :
                    /\ w \in OptionWrite /\ w.ticker = a.ticker /\ DrawnOn(kept, a, w) \in Action
                    /\ Reconciled(kept, out, a) = Append(out, DrawnOn(kept, a, w))
<1> DEFINE put == CHOOSE w \in ToSet(kept) : w.ticker = a.ticker
           sale == a.do = "SELL_PUT"
           lost == a.ticker \notin TickersOf(kept)
           again == SoldIn(out, a.ticker)
           all == Append(out, a)
           drawn == Append(out, DrawnOn(kept, a, put))
<1>1. Reconciled(kept, out, a) = CASE ~sale -> all [] sale /\ (lost \/ again) -> out [] OTHER -> drawn
  BY DEF Reconciled, SoldIn, DrawnOn
<1>2. ToSet(kept) = {kept[i] : i \in DOMAIN kept} /\ TickersOf(kept) = {kept[i].ticker : i \in DOMAIN kept}
  BY DEF ToSet, TickersOf
<1>3. ~lost => put \in ToSet(kept) /\ put.ticker = a.ticker
  <2>1. ~lost => \E w \in ToSet(kept) : w.ticker = a.ticker
    BY <1>2
  <2>2. QED BY <2>1
<1>4. \A w \in ToSet(kept) : w \in OptionWrite
  BY <1>2
<1>5. ~lost => DrawnOn(kept, a, put) \in Action
  <2>1. SUFFICES ASSUME ~lost PROVE DrawnOn(kept, a, put) \in Action
    OBVIOUS
  <2>2. put \in OptionWrite
    BY <1>3, <1>4, <2>1
  <2> HIDE DEF put
  <2>3. put.n \in Nat /\ put.account \in Accounts \cup {Nowhere}
    BY <2>2 DEF OptionWrite
  <2>4. QED BY <2>3 DEF DrawnOn, Action
<1> HIDE DEF put, sale, again, lost, all, drawn
<1>6. \/ ~sale /\ Reconciled(kept, out, a) = all
      \/ sale /\ (lost \/ again) /\ Reconciled(kept, out, a) = out
      \/ sale /\ ~lost /\ ~again /\ Reconciled(kept, out, a) = drawn
  BY <1>1
<1>7. CASE ~sale /\ Reconciled(kept, out, a) = all
  BY <1>7 DEF sale, all
<1>8. CASE sale /\ (lost \/ again) /\ Reconciled(kept, out, a) = out
  BY <1>8 DEF sale, lost, again
<1>9. CASE sale /\ ~lost /\ ~again /\ Reconciled(kept, out, a) = drawn
  <2>1. put \in ToSet(kept) /\ put \in OptionWrite /\ put.ticker = a.ticker /\ DrawnOn(kept, a, put) \in Action
    BY <1>3, <1>4, <1>5, <1>9
  <2>2. a.do = "SELL_PUT" /\ a.ticker \in TickersOf(kept) /\ ~SoldIn(out, a.ticker)
    BY <1>9 DEF sale, lost, again
  <2>3. Reconciled(kept, out, a) = Append(out, DrawnOn(kept, a, put))
    BY <1>9 DEF drawn
  <2>4. QED BY <2>1, <2>2, <2>3
<1>10. QED BY <1>6, <1>7, <1>8, <1>9

(* The table stays a list of actions.                                       *)
LEMMA ReconciledTypes ==
    ASSUME NEW kept \in Seq(OptionWrite), NEW v \in Seq(Action), NEW x \in Action
    PROVE  Reconciled(kept, v, x) \in Seq(Action)
<1>1. \A a \in Action : Append(v, a) \in Seq(Action)
  OBVIOUS
<1>2. QED BY <1>1, ReconciledForm

ReconciledSteps(f, kept, base, s) ==
    /\ f[0] = base
    /\ \A k \in 1..Len(s) : f[k] = Reconciled(kept, f[k - 1], s[k])
    /\ \A k \in 0..Len(s) : f[k] \in Seq(Action)
    /\ ReconFold(kept, base, s) = f[Len(s)]
LEMMA ReconciledUnfolds ==
    ASSUME NEW kept \in Seq(OptionWrite), NEW base \in Seq(Action), NEW s \in Seq(Action)
    PROVE  \E f : ReconciledSteps(f, kept, base, s)
<1> DEFINE V == Seq(Action)
           X == Action
           step == [e \in V \X X |-> Reconciled(kept, e[1], e[2])]
<1>1. \A v \in V, x \in X : Reconciled(kept, v, x) \in V
  BY ReconciledTypes
<1> HIDE DEF V, X
<1>2. PICK g : IsWalk(g, s, base, step) /\ \A T \in SUBSET DOMAIN s : g[T] \in V
  <2>1. step \in [V \X X -> V] /\ base \in V /\ s \in Seq(X)
    BY <1>1 DEF V, X
  <2> HIDE DEF step
  <2>2. QED BY <2>1, WalkExists
<1>3. g = [T \in SUBSET DOMAIN s |-> IF T = {} THEN base ELSE Reconciled(kept, g[T \ {Max(T)}], s[Max(T)])]
  <2>1. ASSUME NEW T \in SUBSET DOMAIN s, T # {} PROVE g[T] = Reconciled(kept, g[T \ {Max(T)}], s[Max(T)])
    <3>1. <<g[T \ {Max(T)}], s[Max(T)]>> \in V \X X
      BY <1>2, <2>1, LastIsIn DEF X
    <3>2. QED BY <1>2, <2>1, <3>1 DEF IsWalk
  <2>2. QED BY <1>2, <2>1 DEF IsWalk
<1>4. \E h : /\ h = [T \in SUBSET DOMAIN s |-> IF T = {} THEN base ELSE Reconciled(kept, h[T \ {Max(T)}], s[Max(T)])]
             /\ ReconFold(kept, base, s) = h[DOMAIN s]
  BY <1>3 DEF ReconFold, FoldLeft, MapThenFoldSet
<1>5. PICK h : /\ h = [T \in SUBSET DOMAIN s |-> IF T = {} THEN base ELSE Reconciled(kept, h[T \ {Max(T)}], s[Max(T)])]
               /\ ReconFold(kept, base, s) = h[DOMAIN s]
  BY <1>4
<1> DEFINE W == V \cup {h[T] : T \in SUBSET DOMAIN s}
           next == [e \in W \X X |-> Reconciled(kept, e[1], e[2])]
<1>6. IsWalk(h, s, base, next)
  <2>1. ASSUME NEW T \in SUBSET DOMAIN s, T # {} PROVE h[T] = next[<<h[T \ {Max(T)}], s[Max(T)]>>]
    <3>1. <<h[T \ {Max(T)}], s[Max(T)]>> \in W \X X
      BY <2>1, LastIsIn DEF X
    <3>2. QED BY <1>5, <2>1, <3>1
  <2> HIDE DEF next
  <2>2. QED BY <1>5, <2>1 DEF IsWalk
<1>7. \A v \in V, x \in X : next[<<v, x>>] = Reconciled(kept, v, x)
  OBVIOUS
<1>8. PICK f : IsPath(f, s, base, next, V) /\ h[DOMAIN s] = f[Len(s)]
  <2> HIDE DEF next, step, W
  <2>1. \A v \in V, x \in X : next[<<v, x>>] \in V
    BY <1>1, <1>7
  <2>2. base \in V /\ s \in Seq(X)
    BY DEF V, X
  <2>3. QED BY ONLY <1>6, <2>1, <2>2, WalkSteps
<1>9. ASSUME NEW k \in 1..Len(s) PROVE f[k] = Reconciled(kept, f[k - 1], s[k])
  <2>1. f[k - 1] \in V /\ s[k] \in X
    BY <1>8 DEF IsPath, X
  <2> HIDE DEF next
  <2>2. QED BY <1>7, <1>8, <2>1 DEF IsPath
<1>10. ReconciledSteps(f, kept, base, s)
  BY <1>5, <1>8, <1>9 DEF IsPath, V, ReconciledSteps
<1>11. QED BY <1>10

-----------------------------------------------------------------------------
(* What a stock comes to once its trades are done.                            *)
Amount == Nat
Final(t, base, s) == FoldLeft(LAMBDA worth, a : Traded(t, worth, a), base, s)

(* A trade takes off what it sells, adds what it buys, and else does nothing.*)
LEMMA TradedForm ==
    ASSUME NEW t, NEW v \in Nat, NEW x \in Action
    PROVE  /\ Traded(t, v, x) \in Nat
           /\ x.ticker = t /\ x.do \in Sales /\ Sized(x) => Traded(t, v, x) = AtLeastZero(v - Dollars(x))
           /\ x.ticker = t /\ x.do \in Buys /\ Sized(x) => Traded(t, v, x) = v + Dollars(x)
           /\ x.ticker # t \/ ~Sized(x) \/ x.do \notin Sales \cup Buys => Traded(t, v, x) = v
<1> DEFINE mine == x.ticker = t
           S == x.do \in Sales
           B == x.do \in Buys
           Z == Sized(x)
           less == AtLeastZero(v - Dollars(x))
           more == v + Dollars(x)
<1>1. Traded(t, v, x) = CASE mine /\ S /\ Z -> less [] mine /\ B /\ Z -> more [] OTHER -> v
  BY DEF Traded
<1>2. S => ~B
  BY DEF Sales, Buys
<1>3. less \in Nat /\ more \in Nat
  <2>1. Dollars(x) \in Nat
    BY DollarsAreACount
  <2>2. v - Dollars(x) \in Int
    BY <2>1
  <2>3. QED BY <2>1, <2>2, AtLeastZeroForm
<1> HIDE DEF mine, S, B, Z, less, more
<1>4. /\ mine /\ S /\ Z => Traded(t, v, x) = less
      /\ mine /\ B /\ Z => Traded(t, v, x) = more
      /\ ~mine \/ ~Z \/ (~S /\ ~B) => Traded(t, v, x) = v
  BY <1>1, <1>2
<1>5. Traded(t, v, x) \in Nat
  BY <1>3, <1>4
<1>6. QED BY <1>4, <1>5 DEF mine, S, B, Z, less, more

FinalSteps(f, t, base, s) ==
    /\ f[0] = base
    /\ \A k \in 1..Len(s) : f[k] = Traded(t, f[k - 1], s[k])
    /\ \A k \in 0..Len(s) : f[k] \in Amount
    /\ Final(t, base, s) = f[Len(s)]
(* What a stock comes to is such a chain of counts.                         *)
LEMMA FinalUnfolds ==
    ASSUME NEW t, NEW base \in Amount, NEW s \in Seq(Action)
    PROVE  \E f : FinalSteps(f, t, base, s)
<1> DEFINE V == Amount
           X == Action
           step == [e \in V \X X |-> Traded(t, e[1], e[2])]
<1>1. \A v \in V, x \in X : Traded(t, v, x) \in V
  BY TradedForm DEF Amount
<1> HIDE DEF V, X
<1>2. PICK g : IsWalk(g, s, base, step) /\ \A T \in SUBSET DOMAIN s : g[T] \in V
  <2>1. step \in [V \X X -> V] /\ base \in V /\ s \in Seq(X)
    BY <1>1 DEF V, X
  <2> HIDE DEF step
  <2>2. QED BY <2>1, WalkExists
<1>3. g = [T \in SUBSET DOMAIN s |-> IF T = {} THEN base ELSE Traded(t, g[T \ {Max(T)}], s[Max(T)])]
  <2>1. ASSUME NEW T \in SUBSET DOMAIN s, T # {} PROVE g[T] = Traded(t, g[T \ {Max(T)}], s[Max(T)])
    <3>1. <<g[T \ {Max(T)}], s[Max(T)]>> \in V \X X
      BY <1>2, <2>1, LastIsIn DEF X
    <3>2. QED BY <1>2, <2>1, <3>1 DEF IsWalk
  <2>2. QED BY <1>2, <2>1 DEF IsWalk
<1>4. \E h : /\ h = [T \in SUBSET DOMAIN s |-> IF T = {} THEN base ELSE Traded(t, h[T \ {Max(T)}], s[Max(T)])]
             /\ Final(t, base, s) = h[DOMAIN s]
  BY <1>3 DEF Final, FoldLeft, MapThenFoldSet
<1>5. PICK h : /\ h = [T \in SUBSET DOMAIN s |-> IF T = {} THEN base ELSE Traded(t, h[T \ {Max(T)}], s[Max(T)])]
               /\ Final(t, base, s) = h[DOMAIN s]
  BY <1>4
<1> DEFINE W == V \cup {h[T] : T \in SUBSET DOMAIN s}
           next == [e \in W \X X |-> Traded(t, e[1], e[2])]
<1>6. IsWalk(h, s, base, next)
  <2>1. ASSUME NEW T \in SUBSET DOMAIN s, T # {} PROVE h[T] = next[<<h[T \ {Max(T)}], s[Max(T)]>>]
    <3>1. <<h[T \ {Max(T)}], s[Max(T)]>> \in W \X X
      BY <2>1, LastIsIn DEF X
    <3>2. QED BY <1>5, <2>1, <3>1
  <2> HIDE DEF next
  <2>2. QED BY <1>5, <2>1 DEF IsWalk
<1>7. \A v \in V, x \in X : next[<<v, x>>] = Traded(t, v, x)
  OBVIOUS
<1>8. PICK f : IsPath(f, s, base, next, V) /\ h[DOMAIN s] = f[Len(s)]
  <2> HIDE DEF next, step, W
  <2>1. \A v \in V, x \in X : next[<<v, x>>] \in V
    BY <1>1, <1>7
  <2>2. base \in V /\ s \in Seq(X)
    BY DEF V, X
  <2>3. QED BY ONLY <1>6, <2>1, <2>2, WalkSteps
<1>9. ASSUME NEW k \in 1..Len(s) PROVE f[k] = Traded(t, f[k - 1], s[k])
  <2>1. f[k - 1] \in V /\ s[k] \in X
    BY <1>8 DEF IsPath, X
  <2> HIDE DEF next
  <2>2. QED BY <1>7, <1>8, <2>1 DEF IsPath
<1>10. FinalSteps(f, t, base, s)
  BY <1>5, <1>8, <1>9 DEF IsPath, V, FinalSteps
<1>11. QED BY <1>10

-----------------------------------------------------------------------------
(* Lists and their members.                                                  *)
LEMMA NextOne ==
    ASSUME NEW n \in Nat, NEW k \in 0..n, k < n
    PROVE  k + 1 \in 1..n /\ k + 1 \in 0..n /\ (k + 1) - 1 = k /\ n \in 0..n /\ 0 \in 0..n
OBVIOUS

(* A list's members, and one more.                                          *)
LEMMA MembersForm ==
    ASSUME NEW X, NEW s \in Seq(X), NEW x \in X
    PROVE  /\ ToSet(<<>>) = {} /\ ToSet(Append(s, x)) = ToSet(s) \cup {x} /\ ToSet(s) \subseteq X
           /\ (s = <<>> <=> ToSet(s) = {})
<1>1. ToSet(<<>>) = {}
  BY DEF ToSet
<1>2. ToSet(Append(s, x)) = ToSet(s) \cup {x}
  <2> DEFINE r == Append(s, x)
             n == Len(s)
  <2>1. n \in Nat /\ DOMAIN r = 1..(n + 1) /\ DOMAIN s = 1..n /\ r[n + 1] = x /\ \A i \in 1..n : r[i] = s[i]
    OBVIOUS
  <2> HIDE DEF r, n
  <2>2. 1..(n + 1) = (1..n) \cup {n + 1}
    BY <2>1
  <2>3. {r[i] : i \in DOMAIN r} = {s[i] : i \in DOMAIN s} \cup {x}
    BY <2>1, <2>2
  <2>4. QED BY <2>3 DEF ToSet, r
<1>3. ToSet(s) \subseteq X
  BY DEF ToSet
<1>4. s = <<>> <=> ToSet(s) = {}
  <2>1. s # <<>> => 1 \in DOMAIN s
    OBVIOUS
  <2>2. QED BY <1>1, <2>1 DEF ToSet
<1>5. QED BY <1>1, <1>2, <1>3, <1>4

LEMMA NoMembers == ToSet(<<>>) = {} /\ TickersOf(<<>>) = {}
BY DEF ToSet, TickersOf

(* A list's tickers are those of its members.                               *)
LEMMA TickersForm == ASSUME NEW s PROVE TickersOf(s) = {w.ticker : w \in ToSet(s)}
BY DEF TickersOf, ToSet

(* Only's members are those of the list that are in the set.                *)
LEMMA OnlyForm ==
    ASSUME NEW X, NEW s \in Seq(X), NEW set
    PROVE  Only(s, set) \in Seq(X) /\ ToSet(Only(s, set)) = ToSet(s) \cap set
<1> DEFINE n == Len(s)
<1>0. n \in Nat /\ <<>> \in Seq(X) /\ \A k \in 1..n : s[k] \in X
  OBVIOUS
<1>1. PICK f : OnlySteps(f, X, set, <<>>, s)
  BY <1>0, OnlyUnfolds
<1>2. /\ f[0] = <<>> /\ \A k \in 1..n : f[k] = Passed(f[k - 1], s[k], set)
      /\ \A k \in 0..n : f[k] \in Seq(X)
      /\ Only(s, set) = f[n]
  BY <1>1 DEF Only, OnlyFold, OnlySteps
<1>3. /\ Prefix(s, 0) = <<>> /\ Prefix(s, n) = s
      /\ \A k \in 0..n : Prefix(s, k) \in Seq(X)
      /\ \A k \in 1..n : Prefix(s, k) = Append(Prefix(s, k - 1), s[k])
  BY PrefixForm
<1> DEFINE S == {k \in 0..n : ToSet(f[k]) = ToSet(Prefix(s, k)) \cap set}
<1>4. 0 \in S
  BY <1>0, <1>2, <1>3, NoMembers
<1>5. ASSUME NEW k \in 0..n, k < n, k \in S PROVE k + 1 \in S
  <2>1. k + 1 \in 1..n /\ k + 1 \in 0..n /\ (k + 1) - 1 = k
    BY <1>0, <1>5, NextOne
  <2> DEFINE x == s[k + 1]
             pre == Prefix(s, k)
             out == f[k]
  <2>2. x \in X /\ pre \in Seq(X) /\ out \in Seq(X) /\ ToSet(out) = ToSet(pre) \cap set
    BY <1>0, <1>2, <1>3, <1>5, <2>1
  <2>3. Prefix(s, k + 1) = Append(pre, x) /\ f[k + 1] = Passed(out, x, set)
    BY <1>2, <1>3, <2>1
  <2> HIDE DEF x, pre, out
  <2>4. ToSet(Append(pre, x)) = ToSet(pre) \cup {x} /\ ToSet(Append(out, x)) = ToSet(out) \cup {x}
    BY <2>2, MembersForm
  <2>5. ToSet(f[k + 1]) = ToSet(Prefix(s, k + 1)) \cap set
    BY <2>2, <2>3, <2>4 DEF Passed
  <2>6. QED BY <2>1, <2>5
<1> HIDE DEF S
<1>6. \A k \in 0..n : k \in S
  BY <1>0, <1>4, <1>5, CountUp
<1>7. n \in S /\ n \in 0..n
  BY <1>0, <1>6
<1>8. QED BY <1>2, <1>3, <1>7 DEF S

(* A plan's actions of some kinds.                                          *)
LEMMA OfForm ==
    ASSUME NEW p, p.actions \in Seq(Action), NEW kinds
    PROVE  Of(p, kinds) \in Seq(Action) /\ ToSet(Of(p, kinds)) = {a \in ToSet(p.actions) : a.do \in kinds}
<1> DEFINE s == p.actions
           set == {a \in ToSet(s) : a.do \in kinds}
<1>1. Only(s, set) \in Seq(Action) /\ ToSet(Only(s, set)) = ToSet(s) \cap set
  <2>1. s \in Seq(Action)
    OBVIOUS
  <2> HIDE DEF s, set
  <2>2. QED BY <2>1, OnlyForm
<1>2. QED BY <1>1 DEF Of

-----------------------------------------------------------------------------
(* What a list of trades leaves a stock at, trade by trade.                   *)
LEMMA FinalOfNone == ASSUME NEW t, NEW base \in Amount PROVE Final(t, base, <<>>) = base
<1>1. <<>> \in Seq(Action) /\ Len(<<>>) = 0
  OBVIOUS
<1>2. PICK f : FinalSteps(f, t, base, <<>>)
  BY <1>1, FinalUnfolds
<1>3. QED BY <1>1, <1>2 DEF FinalSteps

(* What a stock comes to is a count.                                        *)
LEMMA FinalIsACount == ASSUME NEW t, NEW base \in Amount, NEW s \in Seq(Action) PROVE Final(t, base, s) \in Nat
<1>1. PICK f : FinalSteps(f, t, base, s)
  BY FinalUnfolds
<1>2. Len(s) \in 0..Len(s)
  OBVIOUS
<1>3. QED BY <1>1, <1>2 DEF FinalSteps, Amount

(* One more trade is done last.                                             *)
LEMMA FinalOfMore ==
    ASSUME NEW t, NEW base \in Amount, NEW s \in Seq(Action), NEW x \in Action
    PROVE  Final(t, base, Append(s, x)) = Traded(t, Final(t, base, s), x)
<1> DEFINE n == Len(s)
           r == Append(s, x)
<1>0. n \in Nat /\ r \in Seq(Action) /\ Len(r) = n + 1 /\ r[n + 1] = x /\ \A k \in 1..n : r[k] = s[k]
  OBVIOUS
<1>1. PICK f : FinalSteps(f, t, base, s)
  BY FinalUnfolds
<1> HIDE DEF r
<1>2. PICK g : FinalSteps(g, t, base, r)
  BY <1>0, FinalUnfolds
<1> DEFINE S == {k \in 0..n : f[k] = g[k]}
<1>3. 0 \in S
  BY <1>0, <1>1, <1>2 DEF FinalSteps
<1>4. ASSUME NEW k \in 0..n, k < n, k \in S PROVE k + 1 \in S
  <2>1. k + 1 \in 1..n /\ k + 1 \in 0..n /\ (k + 1) - 1 = k
    BY <1>0, <1>4, NextOne
  <2>2. k + 1 \in 1..Len(r) /\ r[k + 1] = s[k + 1] /\ f[k] = g[k]
    BY <1>0, <1>4, <2>1
  <2>3. f[k + 1] = Traded(t, f[k], s[k + 1]) /\ g[k + 1] = Traded(t, g[k], r[k + 1])
    BY <1>1, <1>2, <2>1, <2>2 DEF FinalSteps
  <2>4. QED BY <2>1, <2>2, <2>3
<1> HIDE DEF S
<1>5. \A k \in 0..n : k \in S
  BY <1>0, <1>3, <1>4, CountUp
<1>6. f[n] = g[n]
  BY <1>0, <1>1, <1>5 DEF S
<1>7. n + 1 \in 1..Len(r) /\ (n + 1) - 1 = n
  BY <1>0
<1>8. g[n + 1] = Traded(t, g[n], x)
  BY <1>0, <1>2, <1>7 DEF FinalSteps
<1>9. QED BY <1>0, <1>1, <1>2, <1>6, <1>8 DEF r, FinalSteps

(* A list whose trades are those of another: only its options differ.          *)
Idle(a) == a.do \in {"SELL_PUT", "WRITE_CALL"}
SameTrades(f, s) ==
    /\ f[0] = <<>>
    /\ \A k \in 1..Len(s) :
          \/ f[k] = f[k - 1] /\ Idle(s[k])
          \/ \E b \in Action : f[k] = Append(f[k - 1], b) /\ (b = s[k] \/ (Idle(s[k]) /\ Idle(b)))
    /\ \A k \in 0..Len(s) : f[k] \in Seq(Action)

(* An option trades no stock.                                               *)
LEMMA IdleTrades == ASSUME NEW t, NEW v \in Nat, NEW a \in Action, Idle(a) PROVE Traded(t, v, a) = v
<1>1. a.do \notin Sales \cup Buys
  BY DEF Idle, Sales, Buys
<1>2. QED BY <1>1, TradedForm

(* A stock comes to the same by the same trades.                            *)
LEMMA SameFinal ==
    ASSUME NEW s \in Seq(Action), NEW f, SameTrades(f, s), NEW t, NEW base \in Amount
    PROVE  Final(t, base, f[Len(s)]) = Final(t, base, s)
<1> DEFINE n == Len(s)
           S == {k \in 0..n : Final(t, base, f[k]) = Final(t, base, Prefix(s, k))}
<1>0. n \in Nat /\ \A k \in 1..n : s[k] \in Action
  OBVIOUS
<1>1. /\ Prefix(s, 0) = <<>> /\ Prefix(s, n) = s
      /\ \A k \in 0..n : Prefix(s, k) \in Seq(Action)
      /\ \A k \in 1..n : Prefix(s, k) = Append(Prefix(s, k - 1), s[k])
  BY PrefixForm
<1>2. 0 \in S
  BY <1>0, <1>1, FinalOfNone DEF SameTrades
<1>3. ASSUME NEW k \in 0..n, k < n, k \in S PROVE k + 1 \in S
  <2>1. k + 1 \in 1..n /\ k + 1 \in 0..n /\ (k + 1) - 1 = k
    BY <1>0, <1>3, NextOne
  <2> DEFINE x == s[k + 1]
             pre == Prefix(s, k)
             out == f[k]
  <2>2. x \in Action /\ pre \in Seq(Action) /\ out \in Seq(Action) /\ Final(t, base, out) = Final(t, base, pre)
    BY <1>0, <1>1, <1>3, <2>1 DEF SameTrades
  <2>3. Prefix(s, k + 1) = Append(pre, x)
    BY <1>1, <2>1
  <2>4. (f[k + 1] = out /\ Idle(x)) \/ \E b \in Action : f[k + 1] = Append(out, b) /\ (b = x \/ (Idle(x) /\ Idle(b)))
    BY <2>1 DEF SameTrades
  <2> HIDE DEF x, pre, out
  <2>5. Final(t, base, Append(pre, x)) = Traded(t, Final(t, base, pre), x) /\ Final(t, base, pre) \in Nat
    BY <2>2, FinalOfMore, FinalIsACount
  <2>6. Final(t, base, f[k + 1]) = Final(t, base, Append(pre, x))
    <3>1. CASE f[k + 1] = out /\ Idle(x)
      BY <2>2, <2>5, <3>1, IdleTrades
    <3>2. CASE \E b \in Action : f[k + 1] = Append(out, b) /\ (b = x \/ (Idle(x) /\ Idle(b)))
      <4>1. PICK b \in Action : f[k + 1] = Append(out, b) /\ (b = x \/ (Idle(x) /\ Idle(b)))
        BY <3>2
      <4>2. Final(t, base, Append(out, b)) = Traded(t, Final(t, base, out), b)
        BY <2>2, FinalOfMore
      <4>3. CASE b = x
        BY <2>2, <2>5, <4>1, <4>2, <4>3
      <4>4. CASE Idle(x) /\ Idle(b)
        <5>1. Traded(t, Final(t, base, pre), x) = Final(t, base, pre) /\ Traded(t, Final(t, base, pre), b) = Final(t, base, pre)
          BY <2>2, <2>5, <4>4, IdleTrades
        <5>2. QED BY <2>2, <2>5, <4>1, <4>2, <5>1
      <4>5. QED BY <4>1, <4>3, <4>4
    <3>3. QED BY <2>4, <3>1, <3>2
  <2>7. QED BY <2>1, <2>3, <2>6
<1> HIDE DEF S
<1>4. \A k \in 0..n : k \in S
  BY <1>0, <1>2, <1>3, CountUp
<1>5. n \in S
  BY <1>0, <1>4
<1>6. QED BY <1>1, <1>5 DEF S

(* What options count for nothing in is worth the same by the same trades.  *)
LEMMA SameWorth ==
    ASSUME NEW s \in Seq(Action), NEW f, SameTrades(f, s), NEW v,
           \A a \in Action : v[a] \in Nat /\ (Idle(a) => v[a] = 0)
    PROVE  Worth(f[Len(s)], v) = Worth(s, v)
<1> DEFINE n == Len(s)
           S == {k \in 0..n : Worth(f[k], v) = Worth(Prefix(s, k), v)}
<1>0. n \in Nat /\ \A k \in 1..n : s[k] \in Action
  OBVIOUS
<1>1. /\ Prefix(s, 0) = <<>> /\ Prefix(s, n) = s
      /\ \A k \in 0..n : Prefix(s, k) \in Seq(Action)
      /\ \A k \in 1..n : Prefix(s, k) = Append(Prefix(s, k - 1), s[k])
  BY PrefixForm
<1>2. 0 \in S
  BY <1>0, <1>1 DEF SameTrades
<1>3. ASSUME NEW k \in 0..n, k < n, k \in S PROVE k + 1 \in S
  <2>1. k + 1 \in 1..n /\ k + 1 \in 0..n /\ (k + 1) - 1 = k
    BY <1>0, <1>3, NextOne
  <2> DEFINE x == s[k + 1]
             pre == Prefix(s, k)
             out == f[k]
  <2>2. x \in Action /\ pre \in Seq(Action) /\ out \in Seq(Action) /\ Worth(out, v) = Worth(pre, v)
    BY <1>0, <1>1, <1>3, <2>1 DEF SameTrades
  <2>3. Prefix(s, k + 1) = Append(pre, x)
    BY <1>1, <2>1
  <2>4. (f[k + 1] = out /\ Idle(x)) \/ \E b \in Action : f[k + 1] = Append(out, b) /\ (b = x \/ (Idle(x) /\ Idle(b)))
    BY <2>1 DEF SameTrades
  <2> HIDE DEF x, pre, out
  <2>5. Worth(Append(pre, x), v) = Worth(pre, v) + v[x] /\ Worth(pre, v) \in Nat
    BY <2>2, WorthOfMore, WorthIsACount
  <2>6. Worth(f[k + 1], v) = Worth(Append(pre, x), v)
    <3>1. CASE f[k + 1] = out /\ Idle(x)
      BY <2>2, <2>5, <3>1
    <3>2. CASE \E b \in Action : f[k + 1] = Append(out, b) /\ (b = x \/ (Idle(x) /\ Idle(b)))
      <4>1. PICK b \in Action : f[k + 1] = Append(out, b) /\ (b = x \/ (Idle(x) /\ Idle(b)))
        BY <3>2
      <4>2. Worth(Append(out, b), v) = Worth(out, v) + v[b]
        BY <2>2, WorthOfMore
      <4>3. v[b] = v[x]
        BY <2>2, <4>1
      <4>4. QED BY <2>2, <2>5, <4>1, <4>2, <4>3
    <3>3. QED BY <2>4, <3>1, <3>2
  <2>7. QED BY <2>1, <2>3, <2>6
<1> HIDE DEF S
<1>4. \A k \in 0..n : k \in S
  BY <1>0, <1>2, <1>3, CountUp
<1>5. n \in S
  BY <1>0, <1>4
<1>6. QED BY <1>1, <1>5 DEF S

(* The same trades have the same members but for the options.               *)
LEMMA SameTraders ==
    ASSUME NEW s \in Seq(Action), NEW f, SameTrades(f, s), NEW a \in Action, ~Idle(a)
    PROVE  a \in ToSet(f[Len(s)]) <=> a \in ToSet(s)
<1> DEFINE n == Len(s)
           S == {k \in 0..n : a \in ToSet(f[k]) <=> a \in ToSet(Prefix(s, k))}
<1>0. n \in Nat /\ \A k \in 1..n : s[k] \in Action
  OBVIOUS
<1>1. /\ Prefix(s, 0) = <<>> /\ Prefix(s, n) = s
      /\ \A k \in 0..n : Prefix(s, k) \in Seq(Action)
      /\ \A k \in 1..n : Prefix(s, k) = Append(Prefix(s, k - 1), s[k])
  BY PrefixForm
<1>2. 0 \in S
  BY <1>0, <1>1 DEF SameTrades
<1>3. ASSUME NEW k \in 0..n, k < n, k \in S PROVE k + 1 \in S
  <2>1. k + 1 \in 1..n /\ k + 1 \in 0..n /\ (k + 1) - 1 = k
    BY <1>0, <1>3, NextOne
  <2> DEFINE x == s[k + 1]
             pre == Prefix(s, k)
             out == f[k]
  <2>2. x \in Action /\ pre \in Seq(Action) /\ out \in Seq(Action) /\ (a \in ToSet(out) <=> a \in ToSet(pre))
    BY <1>0, <1>1, <1>3, <2>1 DEF SameTrades
  <2>3. Prefix(s, k + 1) = Append(pre, x)
    BY <1>1, <2>1
  <2>4. (f[k + 1] = out /\ Idle(x)) \/ \E b \in Action : f[k + 1] = Append(out, b) /\ (b = x \/ (Idle(x) /\ Idle(b)))
    BY <2>1 DEF SameTrades
  <2> HIDE DEF x, pre, out
  <2>5. ToSet(Append(pre, x)) = ToSet(pre) \cup {x} /\ \A b \in Action : ToSet(Append(out, b)) = ToSet(out) \cup {b}
    BY <2>2, MembersForm
  <2>6. a \in ToSet(f[k + 1]) <=> a \in ToSet(Append(pre, x))
    <3>1. CASE f[k + 1] = out /\ Idle(x)
      <4>1. a # x
        BY <3>1
      <4>2. QED BY <2>2, <2>5, <3>1, <4>1
    <3>2. CASE \E b \in Action : f[k + 1] = Append(out, b) /\ (b = x \/ (Idle(x) /\ Idle(b)))
      <4>1. PICK b \in Action : f[k + 1] = Append(out, b) /\ (b = x \/ (Idle(x) /\ Idle(b)))
        BY <3>2
      <4>2. ToSet(f[k + 1]) = ToSet(out) \cup {b}
        BY <2>5, <4>1
      <4>3. a = x <=> a = b
        BY <4>1
      <4>4. QED BY <2>2, <2>5, <4>2, <4>3
    <3>3. QED BY <2>4, <3>1, <3>2
  <2>7. QED BY <2>1, <2>3, <2>6
<1> HIDE DEF S
<1>4. \A k \in 0..n : k \in S
  BY <1>0, <1>2, <1>3, CountUp
<1>5. n \in S
  BY <1>0, <1>4
<1>6. QED BY <1>1, <1>5 DEF S

-----------------------------------------------------------------------------
(* The sums of the plan, as what its lists are worth.                         *)
SpentIn(where) == [a \in Action |-> IF a.do \in Buys /\ Sized(a) /\ a.account \in where THEN Dollars(a) ELSE 0]
Earned == [a \in Action |-> IF a.do \in Sales /\ Sized(a) THEN Dollars(a) ELSE 0]
SecuredIn(accts) == [w \in OptionWrite |-> IF w.account \in accts THEN Collateral(w) ELSE 0]
WrittenOn(t, acct) == [w \in OptionWrite |-> IF w.ticker = t /\ w.account = acct THEN w.n ELSE 0]

(* All of them are counts, and options neither spend nor earn.              *)
LEMMA WeightsAreCounts ==
    /\ \A where : \A a \in Action : SpentIn(where)[a] \in Nat /\ (Idle(a) => SpentIn(where)[a] = 0)
    /\ \A a \in Action : Earned[a] \in Nat /\ (Idle(a) => Earned[a] = 0)
    /\ \A accts : \A w \in OptionWrite : SecuredIn(accts)[w] \in Nat
    /\ \A t, acct : \A w \in OptionWrite : WrittenOn(t, acct)[w] \in Nat
<1>1. \A a \in Action : Dollars(a) \in Nat
  BY DollarsAreACount
<1>2. \A a \in Action : Idle(a) => a.do \notin Sales \cup Buys
  BY DEF Idle, Sales, Buys
<1>3. \A w \in OptionWrite : Collateral(w) \in Nat
  BY CollateralIsACount
<1>4. \A w \in OptionWrite : w.n \in Nat
  BY DEF OptionWrite
<1>5. \A where : \A a \in Action : SpentIn(where)[a] \in Nat /\ (Idle(a) => SpentIn(where)[a] = 0)
  BY <1>1, <1>2 DEF SpentIn
<1>6. \A a \in Action : Earned[a] \in Nat /\ (Idle(a) => Earned[a] = 0)
  BY <1>1, <1>2 DEF Earned
<1>7. \A accts : \A w \in OptionWrite : SecuredIn(accts)[w] \in Nat
  BY <1>3 DEF SecuredIn
<1>8. \A t, acct : \A w \in OptionWrite : WrittenOn(t, acct)[w] \in Nat
  BY <1>4 DEF WrittenOn
<1>9. QED BY <1>5, <1>6, <1>7, <1>8

(* What a plan buys, sells, holds and writes is what its lists are worth.   *)
LEMMA BoughtForm ==
    ASSUME NEW p, p.actions \in Seq(Action), NEW where
    PROVE  Bought(p, where) = Worth(p.actions, SpentIn(where)) /\ Bought(p, where) \in Nat
<1> DEFINE s == p.actions
           f == [i \in DOMAIN s |-> IF s[i].do \in Buys /\ Sized(s[i]) /\ s[i].account \in where THEN Dollars(s[i]) ELSE 0]
           g == [i \in DOMAIN s |-> SpentIn(where)[s[i]]]
<1>1. \A i \in DOMAIN s : s[i] \in Action
  OBVIOUS
<1>2. f = g
  BY <1>1 DEF SpentIn
<1>3. Bought(p, where) = SumFunction(f)
  BY DEF Bought, SumOver
<1>4. Worth(s, SpentIn(where)) = SumFunction(g)
  BY DEF Worth
<1>5. Worth(s, SpentIn(where)) \in Nat
  <2> DEFINE v == SpentIn(where)
  <2>1. \A a \in Action : v[a] \in Nat
    BY WeightsAreCounts
  <2>2. s \in Seq(Action)
    OBVIOUS
  <2> HIDE DEF v, s
  <2>3. Worth(s, v) \in Nat
    BY <2>1, <2>2, WorthIsACount
  <2>4. QED BY <2>3 DEF v
<1> HIDE DEF f, g
<1>6. QED BY <1>2, <1>3, <1>4, <1>5

LEMMA SoldForm ==
    ASSUME NEW p, p.actions \in Seq(Action)
    PROVE  Sold(p) = Worth(p.actions, Earned) /\ Sold(p) \in Nat
<1> DEFINE s == p.actions
           f == [i \in DOMAIN s |-> IF s[i].do \in Sales /\ Sized(s[i]) THEN Dollars(s[i]) ELSE 0]
           g == [i \in DOMAIN s |-> Earned[s[i]]]
<1>1. \A i \in DOMAIN s : s[i] \in Action
  OBVIOUS
<1>2. f = g
  BY <1>1 DEF Earned
<1>3. Sold(p) = SumFunction(f)
  BY DEF Sold, SumOver
<1>4. Worth(s, Earned) = SumFunction(g)
  BY DEF Worth
<1>5. Worth(s, Earned) \in Nat
  <2>1. s \in Seq(Action)
    OBVIOUS
  <2> HIDE DEF s
  <2>2. QED BY <2>1, WeightsAreCounts, WorthIsACount
<1> HIDE DEF f, g
<1>6. QED BY <1>2, <1>3, <1>4, <1>5

LEMMA CollateralForm ==
    ASSUME NEW p, p.puts \in Seq(OptionWrite), NEW accts
    PROVE  NewCollateral(p, accts) = Worth(p.puts, SecuredIn(accts)) /\ NewCollateral(p, accts) \in Nat
<1> DEFINE s == p.puts
           f == [i \in DOMAIN s |-> IF s[i].account \in accts THEN Collateral(s[i]) ELSE 0]
           g == [i \in DOMAIN s |-> SecuredIn(accts)[s[i]]]
<1>1. \A i \in DOMAIN s : s[i] \in OptionWrite
  OBVIOUS
<1>2. f = g
  BY <1>1 DEF SecuredIn
<1>3. NewCollateral(p, accts) = SumFunction(f)
  BY DEF NewCollateral, SumOver
<1>4. Worth(s, SecuredIn(accts)) = SumFunction(g)
  BY DEF Worth
<1>5. Worth(s, SecuredIn(accts)) \in Nat
  <2> DEFINE v == SecuredIn(accts)
  <2>1. \A a \in OptionWrite : v[a] \in Nat
    BY WeightsAreCounts
  <2>2. s \in Seq(OptionWrite)
    OBVIOUS
  <2> HIDE DEF v, s
  <2>3. Worth(s, v) \in Nat
    BY <2>1, <2>2, WorthIsACount
  <2>4. QED BY <2>3 DEF v
<1> HIDE DEF f, g
<1>6. QED BY <1>2, <1>3, <1>4, <1>5

LEMMA NewCallsForm ==
    ASSUME NEW p, p.calls \in Seq(OptionWrite), NEW t, NEW acct
    PROVE  NewCalls(p, t, acct) = Worth(p.calls, WrittenOn(t, acct)) /\ NewCalls(p, t, acct) \in Nat
<1> DEFINE s == p.calls
           f == [i \in DOMAIN s |-> IF s[i].ticker = t /\ s[i].account = acct THEN s[i].n ELSE 0]
           g == [i \in DOMAIN s |-> WrittenOn(t, acct)[s[i]]]
<1>1. \A i \in DOMAIN s : s[i] \in OptionWrite
  OBVIOUS
<1>2. f = g
  BY <1>1 DEF WrittenOn
<1>3. NewCalls(p, t, acct) = SumFunction(f)
  BY DEF NewCalls, SumOver
<1>4. Worth(s, WrittenOn(t, acct)) = SumFunction(g)
  BY DEF Worth
<1>5. Worth(s, WrittenOn(t, acct)) \in Nat
  <2> DEFINE v == WrittenOn(t, acct)
  <2>1. \A a \in OptionWrite : v[a] \in Nat
    BY WeightsAreCounts
  <2>2. s \in Seq(OptionWrite)
    OBVIOUS
  <2> HIDE DEF v, s
  <2>3. Worth(s, v) \in Nat
    BY <2>1, <2>2, WorthIsACount
  <2>4. QED BY <2>3 DEF v
<1> HIDE DEF f, g
<1>6. QED BY <1>2, <1>3, <1>4, <1>5

-----------------------------------------------------------------------------
(* Buys scaled to what there is to spend.                                     *)
LEMMA ProceedsAreACount == ASSUME NEW a \in Action PROVE Proceeds(a) \in Nat
<1>1. a.n \in Nat /\ a.ticker \in Tickers
  BY DEF Action
<1>2. Held(a.ticker) \in Nat /\ Price[a.ticker] \in Nat
  BY <1>1, HeldIsACount, BookFacts
<1>3. Shares(a) \in Int
  BY <1>1, <1>2 DEF Shares
<1> DEFINE m == IF Shares(a) < Held(a.ticker) THEN Shares(a) ELSE Held(a.ticker)
<1>4. ReadsAsShares(a) => m \in Nat
  BY <1>2, <1>3 DEF ReadsAsShares
<1>5. Proceeds(a) = IF ReadsAsShares(a) THEN m * Price[a.ticker] ELSE IF a.size = "dollars" THEN a.n ELSE 0
  BY DEF Proceeds
<1> HIDE DEF m
<1>6. m \in Nat => m * Price[a.ticker] \in Nat
  BY <1>2, CountProduct
<1>7. QED BY <1>1, <1>4, <1>5, <1>6

(* What an account's buys ask for and what it has to spend are counts.      *)
LEMMA WantedIsACount == ASSUME NEW p, p.actions \in Seq(Action), NEW acct PROVE Wanted(p, acct) \in Nat
<1> DEFINE s == p.actions
           v == [a \in Action |-> IF InGroup(acct, a) THEN a.n ELSE 0]
           f == [i \in DOMAIN s |-> IF InGroup(acct, s[i]) THEN s[i].n ELSE 0]
           g == [i \in DOMAIN s |-> v[s[i]]]
<1>1. s \in Seq(Action) /\ \A i \in DOMAIN s : s[i] \in Action
  OBVIOUS
<1>2. f = g
  BY <1>1
<1>3. Wanted(p, acct) = SumFunction(f)
  BY DEF Wanted, SumOver
<1>4. Worth(s, v) = SumFunction(g)
  BY DEF Worth
<1>5. \A a \in Action : v[a] \in Nat
  BY DEF Action
<1> HIDE DEF f, g, v, s
<1>6. Worth(s, v) \in Nat
  BY <1>1, <1>5, WorthIsACount
<1>7. QED BY <1>2, <1>3, <1>4, <1>6

LEMMA ToSpendIsACount ==
    ASSUME NEW p, p.actions \in Seq(Action), NEW acct \in Accounts \cup {Nowhere}
    PROVE  ToSpend(p, acct) \in Nat
<1> DEFINE s == p.actions
           base == IF acct = Nowhere THEN Total(Cash) ELSE Cash[acct]
           v == [a \in Action |-> IF a.do \in Sales /\ a.account \in {acct, Nowhere} THEN Proceeds(a) ELSE 0]
           f == [i \in DOMAIN s |-> IF s[i].do \in Sales /\ s[i].account \in {acct, Nowhere} THEN Proceeds(s[i]) ELSE 0]
           g == [i \in DOMAIN s |-> v[s[i]]]
<1>1. s \in Seq(Action) /\ \A i \in DOMAIN s : s[i] \in Action
  OBVIOUS
<1>2. f = g
  BY <1>1
<1>3. ToSpend(p, acct) = base + SumFunction(f)
  BY DEF ToSpend, SumOver
<1>4. Worth(s, v) = SumFunction(g)
  BY DEF Worth
<1>5. \A a \in Action : v[a] \in Nat
  BY ProceedsAreACount
<1>6. base \in Nat
  <2>1. Total(Cash) \in Nat
    BY BookFacts, TotalIsACount
  <2>2. QED BY <2>1, BookFacts
<1> HIDE DEF f, g, v, s, base
<1>7. Worth(s, v) \in Nat
  BY <1>1, <1>5, WorthIsACount
<1>8. QED BY <1>2, <1>3, <1>4, <1>6, <1>7

(* A share of what was asked, in whole hundreds, is no more than was asked. *)
LEMMA ScalesDown ==
    ASSUME NEW n \in Nat, NEW cash \in Nat, NEW wanted \in Nat, wanted > cash + 1
    PROVE  (((n * cash) \div (wanted * 100)) * 100) \in Nat /\ ((n * cash) \div (wanted * 100)) * 100 <= n
<1> DEFINE d == wanted * 100
           q == (n * cash) \div d
<1>1. n * cash \in Nat /\ n * wanted \in Nat /\ d \in Nat /\ d > 0
  BY CountProduct
<1>2. q \in Nat /\ q * d <= n * cash
  <2> DEFINE m == n * cash
  <2>1. m \in Nat
    BY <1>1
  <2> HIDE DEF d, m
  <2>2. m \div d \in Nat /\ (m \div d) * d <= m
    BY <1>1, <2>1, Halves
  <2>3. QED BY <2>2 DEF m
<1> HIDE DEF q
<1>3. n * cash <= n * wanted
  OBVIOUS
<1>4. q * d = (q * 100) * wanted
  BY <1>2
<1> DEFINE m == q * 100
<1>5. m \in Nat /\ m * wanted <= n * wanted
  <2>1. q * d \in Nat /\ m * wanted = q * d
    BY <1>1, <1>2, <1>4, CountProduct
  <2>2. QED BY <1>1, <1>2, <1>3, <2>1
<1> HIDE DEF m
<1>6. m <= n
  <2>1. SUFFICES ASSUME m > n PROVE FALSE
    BY <1>5
  <2>2. PICK k \in Nat : m = n + 1 + k
    <3>1. m - n - 1 \in Nat /\ m = n + 1 + (m - n - 1)
      BY <1>5, <2>1
    <3>2. QED BY <3>1
  <2>3. m * wanted = n * wanted + wanted + k * wanted
    BY <2>2
  <2>4. k * wanted \in Nat
    BY CountProduct
  <2>5. QED BY <1>1, <1>5, <2>3, <2>4
<1>7. QED BY <1>5, <1>6 DEF m, q, d

(* A buy that is scaled is still that buy, for no more; others stay.        *)
LEMMA ScaledForm ==
    ASSUME NEW p, p.actions \in Seq(Action), NEW a \in Action
    PROVE  /\ Scaled(p, a) \in Action /\ NoMoreThan(Scaled(p, a), a)
           /\ (~Unfunded(p, a) => Scaled(p, a) = a) /\ Scaled(p, a).account = a.account
<1>1. a.n \in Nat /\ a.account \in Accounts \cup {Nowhere}
  BY DEF Action
<1>2. CASE Unfunded(p, a)
  <2> DEFINE m == ((a.n * ToSpend(p, a.account)) \div (Wanted(p, a.account) * 100)) * 100
  <2>1. Wanted(p, a.account) \in Nat /\ ToSpend(p, a.account) \in Nat /\ Wanted(p, a.account) > ToSpend(p, a.account) + 1
    BY <1>1, <1>2, WantedIsACount, ToSpendIsACount DEF Unfunded
  <2>2. m \in Nat /\ m <= a.n
    <3> DEFINE n == a.n
               w == Wanted(p, a.account)
               c == ToSpend(p, a.account)
    <3>1. n \in Nat /\ w \in Nat /\ c \in Nat /\ w > c + 1
      BY <1>1, <2>1
    <3> HIDE DEF n, w, c
    <3>2. ((n * c) \div (w * 100)) * 100 \in Nat /\ ((n * c) \div (w * 100)) * 100 <= n
      BY <3>1, ScalesDown
    <3>3. QED BY <3>2 DEF n, w, c
  <2>3. Scaled(p, a) = [a EXCEPT !.n = m]
    BY <1>2 DEF Scaled
  <2> HIDE DEF m
  <2>4. QED BY <1>2, <2>2, <2>3 DEF Action, NoMoreThan
<1>3. CASE ~Unfunded(p, a)
  <2>1. Scaled(p, a) = a
    BY <1>3 DEF Scaled
  <2>2. NoMoreThan(a, a)
    BY <1>1 DEF NoMoreThan
  <2>3. QED BY <2>1, <2>2
<1>4. QED BY <1>2, <1>3

(* Resizing a plan drops or shrinks unfunded buys and touches nothing else. *)
LEMMA ResizedForm ==
    ASSUME NEW p \in RebalancePlan
    PROVE  /\ Resized(p) \in RebalancePlan /\ Resized(p).calls = p.calls /\ Resized(p).puts = p.puts
           /\ \A a \in ToSet(Resized(p).actions) : \E b \in ToSet(p.actions) : NoMoreThan(a, b)
           /\ \A a \in ToSet(p.actions) : a \in ToSet(Resized(p).actions) \/ Unfunded(p, a)
<1> DEFINE s == p.actions
           set == {a \in ToSet(s) : Unfunded(p, a) => Scaled(p, a).n >= 100}
           worthIt == Only(s, set)
           r == [i \in DOMAIN worthIt |-> Scaled(p, worthIt[i])]
<1>1. s \in Seq(Action) /\ p.calls \in Seq(OptionWrite) /\ p.puts \in Seq(OptionWrite)
  BY DEF RebalancePlan
<1>2. Resized(p) = [p EXCEPT !.actions = r]
  BY DEF Resized
<1>3. worthIt \in Seq(Action) /\ ToSet(worthIt) = ToSet(s) \cap set
  <2> HIDE DEF s, set
  <2>1. QED BY <1>1, OnlyForm
<1>4. \A a \in Action : /\ Scaled(p, a) \in Action /\ NoMoreThan(Scaled(p, a), a) /\ (~Unfunded(p, a) => Scaled(p, a) = a)
  BY <1>1, ScaledForm
<1>5. ToSet(s) \subseteq Action
  BY <1>1 DEF ToSet
<1> HIDE DEF worthIt
<1>6. r \in Seq(Action) /\ ToSet(r) = {Scaled(p, a) : a \in ToSet(worthIt)}
  <2>1. DOMAIN worthIt = 1..Len(worthIt) /\ Len(worthIt) \in Nat /\ \A i \in DOMAIN worthIt : worthIt[i] \in Action
    BY <1>3
  <2>2. r \in Seq(Action)
    BY <1>4, <2>1
  <2>3. QED BY <2>2 DEF ToSet
<1> HIDE DEF r
<1>7. Resized(p) \in RebalancePlan /\ Resized(p).actions = r /\ Resized(p).calls = p.calls /\ Resized(p).puts = p.puts
  BY <1>1, <1>2, <1>6 DEF RebalancePlan
<1>8. \A a \in ToSet(r) : \E b \in ToSet(s) : NoMoreThan(a, b)
  BY <1>3, <1>4, <1>5, <1>6
<1>9. \A a \in ToSet(s) : a \in ToSet(r) \/ Unfunded(p, a)
  <2>1. SUFFICES ASSUME NEW a \in ToSet(s), ~Unfunded(p, a) PROVE a \in ToSet(r)
    OBVIOUS
  <2>2. a \in ToSet(worthIt) /\ Scaled(p, a) = a
    BY <1>3, <1>4, <1>5, <2>1
  <2>3. QED BY <1>6, <2>2
<1>10. QED BY <1>7, <1>8, <1>9

-----------------------------------------------------------------------------
(* A write that is left out is added, one that is there stays.                *)
LEMMA RebuiltKeeps ==
    ASSUME NEW v \in Seq(OptionWrite), NEW x \in Action
    PROVE  ToSet(v) \subseteq ToSet(Rebuilt(v, x, SamePair)) /\ ToSet(v) \subseteq ToSet(Rebuilt(v, x, SameTicker))
<1>1. Write(x) \in OptionWrite
  BY DEF Write, Action, OptionWrite
<1>2. ToSet(Append(v, Write(x))) = ToSet(v) \cup {Write(x)}
  BY <1>1, MembersForm
<1>3. QED BY <1>2 DEF Rebuilt

(* The writes a plan's checks look at hold all it lists, for calls ...      *)
LEMMA CallsOfForm ==
    ASSUME NEW p \in RebalancePlan
    PROVE  CallsOf(p) \in Seq(OptionWrite) /\ ToSet(p.calls) \subseteq ToSet(CallsOf(p))
<1> DEFINE base == p.calls
           s == Of(p, {"WRITE_CALL"})
           n == Len(s)
<1>1. base \in Seq(OptionWrite) /\ p.actions \in Seq(Action)
  BY DEF RebalancePlan
<1>2. s \in Seq(Action)
  BY <1>1, OfForm
<1>3. CallsOf(p) = CallsFold(base, s)
  BY DEF CallsOf, CallsFold
<1> HIDE DEF base, s
<1>4. n \in Nat /\ \A k \in 1..n : s[k] \in Action
  BY <1>2
<1>5. PICK f : CallsSteps(f, base, s)
  BY <1>1, <1>2, CallsUnfold
<1>6. /\ f[0] = base /\ \A k \in 1..n : f[k] = Rebuilt(f[k - 1], s[k], SamePair)
      /\ \A k \in 0..n : f[k] \in Seq(OptionWrite)
      /\ CallsFold(base, s) = f[n]
  BY <1>5 DEF CallsSteps
<1> DEFINE S == {k \in 0..n : ToSet(base) \subseteq ToSet(f[k])}
<1>7. 0 \in S
  BY <1>4, <1>6
<1>8. ASSUME NEW k \in 0..n, k < n, k \in S PROVE k + 1 \in S
  <2>1. k + 1 \in 1..n /\ k + 1 \in 0..n /\ (k + 1) - 1 = k
    BY <1>4, <1>8, NextOne
  <2>2. f[k + 1] = Rebuilt(f[k], s[k + 1], SamePair) /\ f[k] \in Seq(OptionWrite) /\ s[k + 1] \in Action
    BY <1>4, <1>6, <2>1
  <2>3. ToSet(f[k]) \subseteq ToSet(f[k + 1])
    BY <2>2, RebuiltKeeps
  <2>4. QED BY <1>8, <2>1, <2>3
<1> HIDE DEF S, n
<1>9. \A k \in 0..n : k \in S
  BY <1>4, <1>7, <1>8, CountUp
<1>10. n \in S /\ n \in 0..n
  BY <1>4, <1>9
<1>11. QED BY <1>3, <1>6, <1>10 DEF S, base

(* ... and for puts.                                                        *)
LEMMA PutsOfForm ==
    ASSUME NEW p \in RebalancePlan
    PROVE  PutsOf(p) \in Seq(OptionWrite) /\ ToSet(p.puts) \subseteq ToSet(PutsOf(p))
<1> DEFINE base == p.puts
           s == Of(p, {"SELL_PUT"})
           n == Len(s)
<1>1. base \in Seq(OptionWrite) /\ p.actions \in Seq(Action)
  BY DEF RebalancePlan
<1>2. s \in Seq(Action)
  BY <1>1, OfForm
<1>3. PutsOf(p) = PutsFold(base, s)
  BY DEF PutsOf, PutsFold
<1> HIDE DEF base, s
<1>4. n \in Nat /\ \A k \in 1..n : s[k] \in Action
  BY <1>2
<1>5. PICK f : PutsSteps(f, base, s)
  BY <1>1, <1>2, PutsUnfold
<1>6. /\ f[0] = base /\ \A k \in 1..n : f[k] = Rebuilt(f[k - 1], s[k], SameTicker)
      /\ \A k \in 0..n : f[k] \in Seq(OptionWrite)
      /\ PutsFold(base, s) = f[n]
  BY <1>5 DEF PutsSteps
<1> DEFINE S == {k \in 0..n : ToSet(base) \subseteq ToSet(f[k])}
<1>7. 0 \in S
  BY <1>4, <1>6
<1>8. ASSUME NEW k \in 0..n, k < n, k \in S PROVE k + 1 \in S
  <2>1. k + 1 \in 1..n /\ k + 1 \in 0..n /\ (k + 1) - 1 = k
    BY <1>4, <1>8, NextOne
  <2>2. f[k + 1] = Rebuilt(f[k], s[k + 1], SameTicker) /\ f[k] \in Seq(OptionWrite) /\ s[k + 1] \in Action
    BY <1>4, <1>6, <2>1
  <2>3. ToSet(f[k]) \subseteq ToSet(f[k + 1])
    BY <2>2, RebuiltKeeps
  <2>4. QED BY <1>8, <2>1, <2>3
<1> HIDE DEF S, n
<1>9. \A k \in 0..n : k \in S
  BY <1>4, <1>7, <1>8, CountUp
<1>10. n \in S /\ n \in 0..n
  BY <1>4, <1>9
<1>11. QED BY <1>3, <1>6, <1>10 DEF S, base

-----------------------------------------------------------------------------
(* The calls that are kept find their shares: one write of a stock and an      *)
(* account, for no more than there is room for.                              *)
Covered(kept) ==
    \A t \in Tickers, acct \in Accounts :
        /\ Worth(kept, WrittenOn(t, acct)) <= CallRoom(t, acct)
        /\ (\A w \in ToSet(kept) : ~(w.ticker = t /\ w.account = acct)) => Worth(kept, WrittenOn(t, acct)) = 0

(* A step over the calls keeps them covered.                                *)
LEMMA KeptCallCovers ==
    ASSUME NEW p, NEW kept \in Seq(OptionWrite), NEW w \in OptionWrite, Covered(kept)
    PROVE  Covered(KeptCall(p, kept, w))
<1>1. CASE ~KeepsCall(p, kept, w)
  BY <1>1 DEF KeptCall
<1>2. CASE KeepsCall(p, kept, w)
  <2> DEFINE x == Cut(w, CallRoom(w.ticker, w.account))
             r == Append(kept, x)
  <2>1. w.ticker \in Tickers /\ w.account \in Accounts /\ \A k \in ToSet(kept) : ~(k.ticker = w.ticker /\ k.account = w.account)
    BY <1>2 DEF KeepsCall, SamePair, OptionWrite
  <2>2. CallRoom(w.ticker, w.account) \in Nat
    BY <2>1, CallRoomForm
  <2>3. x \in OptionWrite /\ x.n <= CallRoom(w.ticker, w.account) /\ x.ticker = w.ticker /\ x.account = w.account
    BY <2>2, CutForm
  <2>4. KeptCall(p, kept, w) = r
    BY <1>2 DEF KeptCall
  <2> HIDE DEF x
  <2>5. ToSet(r) = ToSet(kept) \cup {x}
    BY <2>3, MembersForm
  <2> HIDE DEF r
  <2>6. ASSUME NEW t \in Tickers, NEW acct \in Accounts
        PROVE  /\ Worth(r, WrittenOn(t, acct)) <= CallRoom(t, acct)
               /\ (\A k \in ToSet(r) : ~(k.ticker = t /\ k.account = acct)) => Worth(r, WrittenOn(t, acct)) = 0
    <3> DEFINE v == WrittenOn(t, acct)
               sum == Worth(kept, v)
    <3>1. v[x] = IF x.ticker = t /\ x.account = acct THEN x.n ELSE 0
      BY <2>3 DEF WrittenOn
    <3>2. \A y \in OptionWrite : v[y] \in Nat
      BY WeightsAreCounts
    <3>3. /\ sum <= CallRoom(t, acct)
          /\ (\A k \in ToSet(kept) : ~(k.ticker = t /\ k.account = acct)) => sum = 0
      BY DEF Covered
    <3> HIDE DEF v
    <3>4. Worth(r, v) = sum + v[x] /\ sum \in Nat /\ v[x] \in Nat
      BY <2>3, <3>2, WorthOfMore, WorthIsACount DEF r
    <3> HIDE DEF sum
    <3>5. CASE t = w.ticker /\ acct = w.account
      <4>1. sum = 0 /\ v[x] = x.n
        BY <2>1, <2>3, <3>1, <3>3, <3>5
      <4>2. Worth(r, v) = x.n
        BY <3>4, <4>1
      <4>3. ~\A k \in ToSet(r) : ~(k.ticker = t /\ k.account = acct)
        BY <2>3, <2>5, <3>5
      <4>4. QED BY <2>3, <3>5, <4>2, <4>3 DEF v
    <3>6. CASE ~(t = w.ticker /\ acct = w.account)
      <4>1. v[x] = 0
        BY <2>3, <3>1, <3>6
      <4>2. Worth(r, v) = sum
        BY <3>4, <4>1
      <4>3. QED BY <2>5, <3>3, <4>2 DEF v
    <3>7. QED BY <3>5, <3>6
  <2>7. QED BY <2>4, <2>6 DEF Covered
<1>3. QED BY <1>1, <1>2

(* So the calls that are left are.                                          *)
LEMMA ValidCallsForm ==
    ASSUME NEW p \in RebalancePlan
    PROVE  ValidCalls(p) \in Seq(OptionWrite) /\ Covered(ValidCalls(p))
<1> DEFINE s == CallsOf(p)
           n == Len(s)
<1>1. s \in Seq(OptionWrite) /\ <<>> \in Seq(OptionWrite)
  BY CallsOfForm
<1>2. ValidCalls(p) = KeptCalls(p, <<>>, s)
  BY DEF ValidCalls, KeptCalls, KeptCall
<1> HIDE DEF s
<1>3. n \in Nat /\ \A k \in 1..n : s[k] \in OptionWrite
  BY <1>1
<1>4. PICK f : KeptCallsSteps(f, p, <<>>, s)
  BY <1>1, KeptCallsUnfold
<1>5. /\ f[0] = <<>> /\ \A k \in 1..n : f[k] = KeptCall(p, f[k - 1], s[k])
      /\ \A k \in 0..n : f[k] \in Seq(OptionWrite)
      /\ KeptCalls(p, <<>>, s) = f[n]
  BY <1>4 DEF KeptCallsSteps
<1> DEFINE S == {k \in 0..n : Covered(f[k])}
<1>6. 0 \in S
  <2>1. Covered(<<>>)
    <3>1. \A t \in Tickers, acct \in Accounts : Worth(<<>>, WrittenOn(t, acct)) = 0
      BY WorthOfNothing
    <3>2. \A t \in Tickers, acct \in Accounts : 0 <= CallRoom(t, acct)
      BY CallRoomForm
    <3>3. QED BY <3>1, <3>2 DEF Covered
  <2>2. QED BY <1>3, <1>5, <2>1
<1>7. ASSUME NEW k \in 0..n, k < n, k \in S PROVE k + 1 \in S
  <2>1. k + 1 \in 1..n /\ k + 1 \in 0..n /\ (k + 1) - 1 = k
    BY <1>3, <1>7, NextOne
  <2>2. f[k + 1] = KeptCall(p, f[k], s[k + 1]) /\ f[k] \in Seq(OptionWrite) /\ s[k + 1] \in OptionWrite /\ Covered(f[k])
    BY <1>3, <1>5, <1>7, <2>1
  <2>3. Covered(f[k + 1])
    BY <2>2, KeptCallCovers
  <2>4. QED BY <2>1, <2>3
<1> HIDE DEF S, n
<1>8. \A k \in 0..n : k \in S
  BY <1>3, <1>6, <1>7, CountUp
<1>9. n \in S /\ n \in 0..n
  BY <1>3, <1>8
<1>10. QED BY <1>2, <1>5, <1>9 DEF S

-----------------------------------------------------------------------------
(* What the cap lets through is counted at what it is worth, and what it does  *)
(* not let through as it is, is told.                                        *)
Counts(v, x, c, b) ==
    /\ b \in Action /\ c.out = Append(v.out, b) /\ NoMoreThan(b, x) /\ (b = x \/ x.ticker \in c.told)
    /\ \A t \in Tickers : c.worth[t] = Traded(t, v.worth[t], b)
    /\ b.do \in Buys /\ Sized(b) => c.worth[b.ticker] <= Limit + 1
LeavesOut(v, x, c) == c.out = v.out /\ c.worth = v.worth /\ x.ticker \in c.told

LEMMA BookParts ==
    ASSUME NEW c, NEW w, NEW o, NEW d, c = CapBook(w, o, d)
    PROVE  c.worth = w /\ c.out = o /\ c.told = d
BY DEF CapBook

LEMMA InDollars == ASSUME NEW a, a.size = "dollars" PROVE Sized(a) /\ Dollars(a) = a.n
BY DEF Sized, Dollars, ReadsAsWhole

LEMMA WorthsForm ==
    ASSUME NEW v \in Caps, NEW t \in Tickers, NEW m
    PROVE  Worths(v, t, m)[t] = m /\ \A u \in Tickers : u # t => Worths(v, t, m)[u] = v.worth[u]
BY DEF Worths, Caps

LEMMA OtherTrades ==
    ASSUME NEW t, NEW v \in Nat, NEW b \in Action, b.ticker # t \/ ~Sized(b) \/ b.do \notin Sales \cup Buys
    PROVE  Traded(t, v, b) = v
BY TradedForm

(* Whatever the cap makes of an action, its book counts it or tells of it.  *)
LEMMA CapCounts ==
    ASSUME NEW v \in Caps, NEW x \in Action
    PROVE  /\ LeavesOut(v, x, Capped(v, x)) \/ \E b \in Action : Counts(v, x, Capped(v, x), b)
           /\ v.told \subseteq Capped(v, x).told
<1> DEFINE c == Capped(v, x)
           now == v.worth[x.ticker]
           spare == RoomFor(now)
<1>1. x.ticker \in Tickers /\ now \in Nat /\ x.n \in Nat /\ \A t \in Tickers : v.worth[t] \in Nat
  BY DEF Caps, Action
<1>2. spare \in Nat /\ (spare >= 100 => now + spare <= Limit)
  <2> HIDE DEF now
  <2>1. QED BY <1>1, RoomForForm
<1>3. Dollars(x) \in Nat /\ Limit \in Nat
  BY DollarsAreACount, LimitIsACount
<1>4. NoMoreThan(x, x)
  BY <1>1 DEF NoMoreThan
<1>5. CASE Sells(v, x)
  <2> DEFINE m == AtLeastZero(now - Dollars(x))
  <2>0. x.do \in Sales /\ Sized(x) /\ Capped(v, x) = CapBook(Worths(v, x.ticker, m), Append(v.out, x), v.told)
    BY <1>5 DEF Sells
  <2>1. x.do \in Sales /\ Sized(x) /\ c.worth = Worths(v, x.ticker, m) /\ c.out = Append(v.out, x) /\ c.told = v.told
    <3> DEFINE w == Worths(v, x.ticker, m)
               o == Append(v.out, x)
               d == v.told
    <3>1. c = CapBook(w, o, d)
      BY <2>0
    <3> HIDE DEF c, w, o, d
    <3>2. c.worth = w /\ c.out = o /\ c.told = d
      BY <3>1, BookParts
    <3>3. QED BY <2>0, <3>2 DEF w, o, d
  <2>2. Traded(x.ticker, now, x) = m
    BY <1>1, <2>1, TradedForm
  <2>3. x.do \notin Buys
    BY <2>1 DEF Sales, Buys
  <2> HIDE DEF c, m
  <2>4. ASSUME NEW t \in Tickers PROVE c.worth[t] = Traded(t, v.worth[t], x)
    <3>1. CASE t = x.ticker
      BY <1>1, <2>1, <2>2, <3>1, WorthsForm
    <3>2. CASE t # x.ticker
      <4>1. c.worth[t] = v.worth[t]
        BY <1>1, <2>1, <3>2, WorthsForm
      <4>2. QED BY <1>1, <3>2, <4>1, OtherTrades
    <3>3. QED BY <3>1, <3>2
  <2>5. Counts(v, x, c, x)
    BY <1>4, <2>1, <2>3, <2>4 DEF Counts
  <2>6. QED BY <2>1, <2>5 DEF c
<1>6. CASE Passes(v, x)
  <2> DEFINE m == now + Dollars(x)
  <2>0. x.do \in Buys /\ Sized(x) /\ Capped(v, x) = CapBook(Worths(v, x.ticker, m), Append(v.out, x), v.told) /\ m <= Limit + 1
    BY <1>6 DEF Passes, Fits
  <2>1. x.do \in Buys /\ Sized(x) /\ c.worth = Worths(v, x.ticker, m) /\ c.out = Append(v.out, x) /\ c.told = v.told /\ m <= Limit + 1
    <3> DEFINE w == Worths(v, x.ticker, m)
               o == Append(v.out, x)
               d == v.told
    <3>1. c = CapBook(w, o, d)
      BY <2>0
    <3> HIDE DEF c, w, o, d
    <3>2. c.worth = w /\ c.out = o /\ c.told = d
      BY <3>1, BookParts
    <3>3. QED BY <2>0, <3>2 DEF w, o, d
  <2>2. Traded(x.ticker, now, x) = m
    BY <1>1, <2>1, TradedForm
  <2> HIDE DEF c, m
  <2>4. ASSUME NEW t \in Tickers PROVE c.worth[t] = Traded(t, v.worth[t], x)
    <3>1. CASE t = x.ticker
      BY <1>1, <2>1, <2>2, <3>1, WorthsForm
    <3>2. CASE t # x.ticker
      <4>1. c.worth[t] = v.worth[t]
        BY <1>1, <2>1, <3>2, WorthsForm
      <4>2. QED BY <1>1, <3>2, <4>1, OtherTrades
    <3>3. QED BY <3>1, <3>2
  <2>5. c.worth[x.ticker] <= Limit + 1
    BY <1>1, <2>1, WorthsForm
  <2>6. Counts(v, x, c, x)
    BY <1>4, <2>1, <2>4, <2>5 DEF Counts
  <2>7. QED BY <2>1, <2>6 DEF c
<1>7. CASE Drops(v, x)
  <2>0. Capped(v, x) = CapBook(v.worth, v.out, v.told \cup {x.ticker})
    BY <1>7 DEF Drops
  <2>1. c.worth = v.worth /\ c.out = v.out /\ c.told = v.told \cup {x.ticker}
    BY <2>0, BookParts
  <2>2. QED BY <2>1 DEF LeavesOut
<1>8. CASE Trims(v, x)
  <2> DEFINE m == now + spare
             b == Trimmed(x, spare)
  <2>0. x.do \in Buys /\ Sized(x) /\ ~Fits(now, x) /\ spare >= 100 /\ Capped(v, x) = CapBook(Worths(v, x.ticker, m), Append(v.out, b), v.told \cup {x.ticker})
    BY <1>8 DEF Trims
  <2>1. x.do \in Buys /\ Sized(x) /\ ~Fits(now, x) /\ spare >= 100 /\ c.worth = Worths(v, x.ticker, m) /\ c.out = Append(v.out, b) /\ c.told = v.told \cup {x.ticker}
    <3> DEFINE w == Worths(v, x.ticker, m)
               o == Append(v.out, b)
               d == v.told \cup {x.ticker}
    <3>1. c = CapBook(w, o, d)
      BY <2>0
    <3> HIDE DEF c, w, o, d
    <3>2. c.worth = w /\ c.out = o /\ c.told = d
      BY <3>1, BookParts
    <3>3. QED BY <2>0, <3>2 DEF w, o, d
  <2>2. b \in Action /\ b.ticker = x.ticker /\ b.do = x.do /\ b.size = "dollars" /\ b.n = spare
    <3> HIDE DEF spare
    <3>1. QED BY <1>2 DEF Trimmed, Action
  <2>3. Sized(b) /\ Dollars(b) = spare
    <3> HIDE DEF b, spare
    <3>1. QED BY <2>2, InDollars
  <2>4. x.size = "dollars" => spare <= x.n
    <3>1. SUFFICES ASSUME x.size = "dollars" PROVE spare <= x.n
      OBVIOUS
    <3>2. Dollars(x) = x.n
      BY <3>1, InDollars
    <3>3. ~(now + x.n <= Limit + 1)
      BY <2>1, <3>2 DEF Fits
    <3> HIDE DEF now, spare
    <3>4. QED BY <1>1, <1>2, <1>3, <2>1, <3>3
  <2>5. NoMoreThan(b, x)
    <3> HIDE DEF b, spare
    <3>1. QED BY <2>2, <2>4 DEF NoMoreThan
  <2>6. m <= Limit + 1 /\ m \in Nat
    <3> HIDE DEF now, spare
    <3>1. QED BY <1>1, <1>2, <1>3, <2>1
  <2> HIDE DEF b
  <2>7. Traded(x.ticker, now, b) = m
    <3>1. Traded(x.ticker, now, b) = now + Dollars(b)
      BY <1>1, <2>1, <2>2, <2>3, TradedForm
    <3>2. QED BY <2>3, <3>1
  <2> HIDE DEF c, m, spare
  <2>8. ASSUME NEW t \in Tickers PROVE c.worth[t] = Traded(t, v.worth[t], b)
    <3>1. CASE t = x.ticker
      BY <1>1, <2>1, <2>7, <3>1, WorthsForm
    <3>2. CASE t # x.ticker
      <4>1. c.worth[t] = v.worth[t]
        BY <1>1, <2>1, <3>2, WorthsForm
      <4>2. QED BY <1>1, <2>2, <3>2, <4>1, OtherTrades
    <3>3. QED BY <3>1, <3>2
  <2>9. c.worth[b.ticker] <= Limit + 1
    BY <1>1, <2>1, <2>2, <2>6, WorthsForm
  <2>10. Counts(v, x, c, b)
    BY <2>1, <2>2, <2>5, <2>8, <2>9 DEF Counts
  <2>11. QED BY <2>1, <2>2, <2>10 DEF c
<1>9. CASE Doubts(v, x)
  <2>0. x.do \in Buys /\ ~Sized(x) /\ Capped(v, x) = CapBook(v.worth, Append(v.out, x), v.told \cup {x.ticker})
    BY <1>9 DEF Doubts
  <2>1. x.do \in Buys /\ ~Sized(x) /\ c.worth = v.worth /\ c.out = Append(v.out, x) /\ c.told = v.told \cup {x.ticker}
    <3> DEFINE w == v.worth
               o == Append(v.out, x)
               d == v.told \cup {x.ticker}
    <3>1. c = CapBook(w, o, d)
      BY <2>0
    <3> HIDE DEF c, w, o, d
    <3>2. c.worth = w /\ c.out = o /\ c.told = d
      BY <3>1, BookParts
    <3>3. QED BY <2>0, <3>2 DEF w, o, d
  <2> HIDE DEF c
  <2>2. \A t \in Tickers : c.worth[t] = Traded(t, v.worth[t], x)
    BY <1>1, <2>1, OtherTrades
  <2>3. Counts(v, x, c, x)
    BY <1>4, <2>1, <2>2 DEF Counts
  <2>4. QED BY <2>1, <2>3 DEF c
<1>10. CASE Skips(v, x)
  <2>0. x.do \notin Buys /\ ~(x.do \in Sales /\ Sized(x)) /\ Capped(v, x) = CapBook(v.worth, Append(v.out, x), v.told)
    BY <1>10 DEF Skips
  <2>1. x.do \notin Buys /\ ~(x.do \in Sales /\ Sized(x)) /\ c.worth = v.worth /\ c.out = Append(v.out, x) /\ c.told = v.told
    <3> DEFINE w == v.worth
               o == Append(v.out, x)
               d == v.told
    <3>1. c = CapBook(w, o, d)
      BY <2>0
    <3> HIDE DEF c, w, o, d
    <3>2. c.worth = w /\ c.out = o /\ c.told = d
      BY <3>1, BookParts
    <3>3. QED BY <2>0, <3>2 DEF w, o, d
  <2>2. ~Sized(x) \/ x.do \notin Sales \cup Buys
    BY <2>1
  <2> HIDE DEF c
  <2>3. \A t \in Tickers : c.worth[t] = Traded(t, v.worth[t], x)
    BY <1>1, <2>1, <2>2, OtherTrades
  <2>4. Counts(v, x, c, x)
    BY <1>4, <2>1, <2>3 DEF Counts
  <2>5. QED BY <2>1, <2>4 DEF c
<1>11. QED BY <1>5, <1>6, <1>7, <1>8, <1>9, <1>10, CappedForm

(* What a stock is worth before the plan, and the book true to what is let through.*)
AtFirst == [t \in Tickers |-> Held(t) * Price[t]]
BuysOf(s, t) == \E a \in ToSet(s) : a.do \in Buys /\ Sized(a) /\ a.ticker = t
Within(v) ==
    \A t \in Tickers : Final(t, AtFirst[t], v.out) = v.worth[t] /\ (BuysOf(v.out, t) => v.worth[t] <= Limit + 1)

LEMMA AtFirstForm == AtFirst \in [Tickers -> Nat] /\ \A t \in Tickers : AtFirst[t] \in Amount /\ AtFirst[t] = Held(t) * Price[t]
<1>1. \A t \in Tickers : Held(t) * Price[t] \in Nat
  BY HeldIsACount, BookFacts, CountProduct
<1>2. QED BY <1>1 DEF AtFirst, Amount

(* A step of the cap keeps its book true and what is bought within the cap. *)
LEMMA CappedWithin == ASSUME NEW v \in Caps, NEW x \in Action, Within(v) PROVE Within(Capped(v, x))
<1> DEFINE c == Capped(v, x)
<1>0. v.out \in Seq(Action) /\ \A t \in Tickers : v.worth[t] \in Nat
  BY DEF Caps
<1>1. CASE LeavesOut(v, x, c)
  BY <1>1 DEF LeavesOut, Within
<1>2. ASSUME NEW b \in Action, Counts(v, x, c, b) PROVE Within(c)
  <2> HIDE DEF c
  <2>1. /\ c.out = Append(v.out, b)
        /\ \A t \in Tickers : c.worth[t] = Traded(t, v.worth[t], b)
        /\ b.do \in Buys /\ Sized(b) => c.worth[b.ticker] <= Limit + 1
    BY <1>2 DEF Counts
  <2>2. ToSet(c.out) = ToSet(v.out) \cup {b}
    BY <1>0, <2>1, MembersForm
  <2>3. ASSUME NEW t \in Tickers
        PROVE Final(t, AtFirst[t], c.out) = c.worth[t] /\ (BuysOf(c.out, t) => c.worth[t] <= Limit + 1)
    <3>1. Final(t, AtFirst[t], v.out) = v.worth[t] /\ (BuysOf(v.out, t) => v.worth[t] <= Limit + 1)
      BY DEF Within
    <3>2. Final(t, AtFirst[t], c.out) = c.worth[t]
      <4> DEFINE base == AtFirst[t]
                 o == v.out
      <4>1. base \in Amount /\ o \in Seq(Action)
        BY <1>0, AtFirstForm
      <4>2. Final(t, base, o) = v.worth[t]
        BY <3>1
      <4> HIDE DEF base, o
      <4>3. Final(t, base, Append(o, b)) = Traded(t, Final(t, base, o), b)
        BY <4>1, FinalOfMore
      <4>4. QED BY <2>1, <4>2, <4>3 DEF base, o
    <3>3. ASSUME BuysOf(c.out, t) PROVE c.worth[t] <= Limit + 1
      <4>1. CASE b.do \in Buys /\ Sized(b) /\ b.ticker = t
        BY <2>1, <4>1
      <4>2. CASE ~(b.do \in Buys /\ Sized(b) /\ b.ticker = t)
        <5>1. BuysOf(v.out, t)
          BY <2>2, <3>3, <4>2 DEF BuysOf
        <5>2. v.worth[t] <= Limit + 1 /\ v.worth[t] \in Nat /\ Limit \in Nat
          BY <1>0, <3>1, <5>1, LimitIsACount
        <5>3. CASE b.ticker = t /\ b.do \in Sales /\ Sized(b)
          <6>1. c.worth[t] = AtLeastZero(v.worth[t] - Dollars(b)) /\ Dollars(b) \in Nat
            BY <2>1, <5>2, <5>3, TradedForm, DollarsAreACount
          <6> DEFINE w == v.worth[t]
                     d == Dollars(b)
          <6>2. w \in Nat /\ d \in Nat /\ w <= Limit + 1 /\ c.worth[t] = AtLeastZero(w - d)
            BY <5>2, <6>1
          <6> HIDE DEF w, d
          <6>3. AtLeastZero(w - d) <= Limit + 1
            BY <5>2, <6>2 DEF AtLeastZero
          <6>4. QED BY <6>2, <6>3
        <5>4. CASE ~(b.ticker = t /\ b.do \in Sales /\ Sized(b))
          <6>1. b.ticker # t \/ ~Sized(b) \/ b.do \notin Sales \cup Buys
            BY <4>2, <5>4
          <6>2. c.worth[t] = v.worth[t]
            BY <2>1, <5>2, <6>1, OtherTrades
          <6>3. QED BY <5>2, <6>2
        <5>5. QED BY <5>3, <5>4
      <4>3. QED BY <4>1, <4>2
    <3>4. QED BY <3>2, <3>3
  <2>4. QED BY <2>3 DEF Within
<1>3. QED BY <1>1, <1>2, CapCounts

CapOf(s) == CapFold([worth |-> AtFirst, out |-> <<>>, told |-> {}], s)
(* So the capped plan is: each of its actions was asked for, or more was.   *)
LEMMA CapForm ==
    ASSUME NEW s \in Seq(Action)
    PROVE  /\ CapOf(s) \in Caps /\ Within(CapOf(s))
           /\ \A a \in ToSet(s) : a \in ToSet(CapOf(s).out) \/ a.ticker \in CapOf(s).told
           /\ \A a \in ToSet(CapOf(s).out) : \E b \in ToSet(s) : NoMoreThan(a, b)
<1> DEFINE base == [worth |-> AtFirst, out |-> <<>>, told |-> {}]
           n == Len(s)
<1>1. base \in Caps
  BY AtFirstForm DEF Caps
<1>2. Within(base)
  <2>1. ASSUME NEW t \in Tickers PROVE Final(t, AtFirst[t], <<>>) = AtFirst[t] /\ ~BuysOf(<<>>, t)
    <3> DEFINE b == AtFirst[t]
    <3>1. b \in Amount
      BY AtFirstForm
    <3> HIDE DEF b
    <3>2. Final(t, b, <<>>) = b
      BY <3>1, FinalOfNone
    <3>3. QED BY <3>2, NoMembers DEF b, BuysOf
  <2>2. base.out = <<>> /\ base.worth = AtFirst
    OBVIOUS
  <2> HIDE DEF base
  <2>3. QED BY <2>1, <2>2 DEF Within
<1>3. base.out = <<>>
  OBVIOUS
<1>4. CapOf(s) = CapFold(base, s)
  BY DEF CapOf
<1> HIDE DEF base
<1>5. PICK f : CapSteps(f, base, s)
  BY <1>1, CapUnfolds
<1>6. /\ f[0] = base /\ \A k \in 1..n : f[k] = Capped(f[k - 1], s[k])
      /\ \A k \in 0..n : f[k] \in Caps
      /\ CapFold(base, s) = f[n]
  BY <1>5 DEF CapSteps
<1>7. /\ Prefix(s, 0) = <<>> /\ Prefix(s, n) = s
      /\ \A k \in 0..n : Prefix(s, k) \in Seq(Action)
      /\ \A k \in 1..n : Prefix(s, k) = Append(Prefix(s, k - 1), s[k])
  BY PrefixForm
<1>8. n \in Nat /\ \A k \in 1..n : s[k] \in Action
  OBVIOUS
<1> DEFINE Told(k) == \A a \in ToSet(Prefix(s, k)) : a \in ToSet(f[k].out) \/ a.ticker \in f[k].told
           Less(k) == \A a \in ToSet(f[k].out) : \E b \in ToSet(Prefix(s, k)) : NoMoreThan(a, b)
           S == {k \in 0..n : Within(f[k]) /\ Told(k) /\ Less(k)}
<1>9. 0 \in S
  BY <1>2, <1>3, <1>6, <1>7, <1>8, NoMembers
<1>10. ASSUME NEW k \in 0..n, k < n, k \in S PROVE k + 1 \in S
  <2>1. k + 1 \in 1..n /\ k + 1 \in 0..n /\ (k + 1) - 1 = k
    BY <1>8, <1>10, NextOne
  <2> DEFINE x == s[k + 1]
             pre == Prefix(s, k)
             v == f[k]
             c == f[k + 1]
  <2>2. x \in Action /\ pre \in Seq(Action) /\ v \in Caps /\ c = Capped(v, x) /\ Prefix(s, k + 1) = Append(pre, x)
    BY <1>6, <1>7, <1>8, <2>1
  <2>3. /\ Within(v)
        /\ \A a \in ToSet(pre) : a \in ToSet(v.out) \/ a.ticker \in v.told
        /\ \A a \in ToSet(v.out) : \E b \in ToSet(pre) : NoMoreThan(a, b)
    BY <1>10
  <2> DEFINE next == Prefix(s, k + 1)
  <2>4. next = Append(pre, x)
    BY <2>2
  <2> HIDE DEF x, pre, v, c, next
  <2>5. ToSet(next) = ToSet(pre) \cup {x}
    BY <2>2, <2>4, MembersForm
  <2>6. Within(c)
    BY <2>2, <2>3, CappedWithin
  <2>7. v.told \subseteq c.told /\ (LeavesOut(v, x, c) \/ \E b \in Action : Counts(v, x, c, b))
    BY <2>2, CapCounts
  <2>8. v.out \in Seq(Action)
    BY <2>2 DEF Caps
  <2>9. /\ \A a \in ToSet(next) : a \in ToSet(c.out) \/ a.ticker \in c.told
        /\ \A a \in ToSet(c.out) : \E b \in ToSet(next) : NoMoreThan(a, b)
    <3>1. CASE LeavesOut(v, x, c)
      <4>1. c.out = v.out /\ x.ticker \in c.told
        BY <3>1 DEF LeavesOut
      <4>2. QED BY <2>3, <2>5, <2>7, <4>1
    <3>2. ASSUME NEW b \in Action, Counts(v, x, c, b)
          PROVE  /\ \A a \in ToSet(next) : a \in ToSet(c.out) \/ a.ticker \in c.told
                 /\ \A a \in ToSet(c.out) : \E y \in ToSet(next) : NoMoreThan(a, y)
      <4>1. c.out = Append(v.out, b) /\ NoMoreThan(b, x) /\ (b = x \/ x.ticker \in c.told)
        BY <3>2 DEF Counts
      <4>2. ToSet(c.out) = ToSet(v.out) \cup {b}
        BY <2>8, <4>1, MembersForm
      <4>3. ASSUME NEW a \in ToSet(next) PROVE a \in ToSet(c.out) \/ a.ticker \in c.told
        BY <2>3, <2>5, <2>7, <4>1, <4>2
      <4>4. ASSUME NEW a \in ToSet(c.out) PROVE \E y \in ToSet(next) : NoMoreThan(a, y)
        BY <2>3, <2>5, <4>1, <4>2
      <4>5. QED BY <4>3, <4>4
    <3>3. QED BY <2>7, <3>1, <3>2
  <2>10. QED BY <2>1, <2>6, <2>9 DEF c, next
<1> HIDE DEF S
<1>11. \A k \in 0..n : k \in S
  BY <1>8, <1>9, <1>10, CountUp
<1>12. n \in S /\ n \in 0..n
  BY <1>8, <1>11
<1>13. /\ CapOf(s) \in Caps /\ CapOf(s) = f[n]
  BY <1>4, <1>6, <1>12
<1>14. Within(f[n]) /\ Told(n) /\ Less(n)
  BY <1>12 DEF S
<1>15. QED BY <1>7, <1>13, <1>14

-----------------------------------------------------------------------------
(* Lists with one entry a ticker.                                            *)
AreApart(s) == \A i, j \in DOMAIN s : s[i].ticker = s[j].ticker => i = j

(* A ticker that is not there may be added.                                 *)
LEMMA ApartGrows ==
    ASSUME NEW X, NEW s \in Seq(X), AreApart(s), NEW x, x.ticker \notin TickersOf(s)
    PROVE  AreApart(Append(s, x))
<1> DEFINE n == Len(s)
           r == Append(s, x)
<1>1. n \in Nat /\ DOMAIN s = 1..n /\ DOMAIN r = 1..(n + 1) /\ r[n + 1] = x /\ \A i \in 1..n : r[i] = s[i]
  OBVIOUS
<1>2. \A i \in 1..n : s[i].ticker # x.ticker
  BY <1>1 DEF TickersOf
<1>3. \A i \in 1..(n + 1) : i \in 1..n \/ i = n + 1
  BY <1>1
<1> HIDE DEF n, r
<1>4. ASSUME NEW i \in 1..(n + 1), NEW j \in 1..(n + 1), r[i].ticker = r[j].ticker PROVE i = j
  <2>1. CASE i \in 1..n /\ j \in 1..n
    BY <1>1, <1>4, <2>1 DEF AreApart
  <2>2. CASE i = n + 1 /\ j \in 1..n
    BY <1>1, <1>2, <1>4, <2>2
  <2>3. CASE i \in 1..n /\ j = n + 1
    BY <1>1, <1>2, <1>4, <2>3
  <2>4. CASE i = n + 1 /\ j = n + 1
    BY <2>4
  <2>5. QED BY <1>3, <2>1, <2>2, <2>3, <2>4
<1>5. AreApart(r)
  BY <1>1, <1>4 DEF AreApart
<1>6. QED BY <1>5 DEF r

(* Such a list is as long as it has tickers.                                *)
LEMMA ApartLength ==
    ASSUME NEW X, NEW s \in Seq(X), AreApart(s)
    PROVE  Cardinality(TickersOf(s)) = Len(s)
<1> DEFINE n == Len(s)
           T == TickersOf(s)
           f == [i \in 1..n |-> s[i].ticker]
<1>1. n \in Nat /\ DOMAIN s = 1..n
  OBVIOUS
<1>2. T = {f[i] : i \in 1..n}
  BY <1>1 DEF TickersOf
<1>3. f \in Bijection(1..n, T)
  <2>1. f \in [1..n -> T]
    BY <1>2
  <2>2. \A i, j \in 1..n : f[i] = f[j] => i = j
    BY <1>1 DEF AreApart
  <2> HIDE DEF f, T, n
  <2>3. \A t \in T : \E i \in 1..n : f[i] = t
    BY <1>2
  <2>4. f \in Injection(1..n, T)
    BY <2>1, <2>2 DEF Injection, IsInjective
  <2>5. f \in Surjection(1..n, T)
    BY <2>1, <2>3 DEF Surjection
  <2>6. QED BY <2>4, <2>5 DEF Bijection
<1> HIDE DEF f, T, n
<1>4. IsFiniteSet(1..n) /\ Cardinality(1..n) = n
  BY <1>1, FS_Interval
<1>5. ExistsBijection(1..n, T)
  BY <1>3 DEF ExistsBijection
<1>6. Cardinality(T) = Cardinality(1..n)
  BY <1>4, <1>5, FS_Bijection
<1>7. QED BY <1>4, <1>6 DEF T, n

-----------------------------------------------------------------------------
(* The puts that are kept are paid for out of what there was.                 *)
AtHand(p) ==
    [kept |-> <<>>, left |-> (LeftInAll(p) * MaxPuts) \div 100, room |-> [acct \in OptionAccounts |-> LeftIn(p, acct)]]
Secures(v, p, s) ==
    /\ v.left + Worth(v.kept, SecuredIn(Accounts)) = AtHand(p).left
    /\ \A a \in OptionAccounts : v.room[a] + Worth(v.kept, SecuredIn({a})) = AtHand(p).room[a]
    /\ \A a \in Accounts \ OptionAccounts : Worth(v.kept, SecuredIn({a})) = 0
    /\ AreApart(v.kept)
    /\ \A w \in ToSet(v.kept) :
          /\ \E a \in ToSet(p.actions) : a.do = "SELL_PUT" /\ a.ticker = w.ticker
          /\ \E u \in ToSet(s) : u.ticker = w.ticker /\ w.n <= u.n

(* What is left is what there was, less what is bought, or nothing.         *)
LEMMA LeftIsACount ==
    ASSUME NEW p \in RebalancePlan
    PROVE  /\ LeftInAll(p) \in Nat /\ \A a \in OptionAccounts : LeftIn(p, a) \in Nat
           /\ LeftInAll(p) > 0 => LeftInAll(p) = Budget + Sold(p) - Bought(p, Accounts \cup {Nowhere})
           /\ \A a \in OptionAccounts : LeftIn(p, a) > 0 => LeftIn(p, a) <= Room(a) - Bought(p, {a})
<1>1. p.actions \in Seq(Action)
  BY DEF RebalancePlan
<1>2. Sold(p) \in Nat /\ Budget \in Nat /\ \A where : Bought(p, where) \in Nat
  BY <1>1, SoldForm, BoughtForm, BudgetIsACount
<1>3. LeftInAll(p) \in Nat /\ (LeftInAll(p) > 0 => LeftInAll(p) = Budget + Sold(p) - Bought(p, Accounts \cup {Nowhere}))
  <2> DEFINE m == Budget + Sold(p) - Bought(p, Accounts \cup {Nowhere})
  <2>1. m \in Int
    BY <1>2
  <2>2. LeftInAll(p) = AtLeastZero(m)
    BY DEF LeftInAll
  <2> HIDE DEF m
  <2>3. AtLeastZero(m) \in Nat /\ (AtLeastZero(m) > 0 => AtLeastZero(m) = m)
    BY <2>1 DEF AtLeastZero
  <2>4. QED BY <2>2, <2>3 DEF m
<1>4. ASSUME NEW a \in OptionAccounts
      PROVE  LeftIn(p, a) \in Nat /\ (LeftIn(p, a) > 0 => LeftIn(p, a) <= Room(a) - Bought(p, {a}))
  <2> DEFINE m == Room(a) - Bought(p, {a})
             all == LeftInAll(p)
  <2>1. m \in Int /\ all \in Nat
    BY <1>2, <1>3, BookFacts, RoomIsACount
  <2>2. LeftIn(p, a) = Min({AtLeastZero(m), all})
    BY DEF LeftIn
  <2> HIDE DEF m, all
  <2>3. AtLeastZero(m) \in Nat /\ (AtLeastZero(m) > 0 => AtLeastZero(m) = m)
    BY <2>1 DEF AtLeastZero
  <2>4. LeftIn(p, a) \in Nat /\ LeftIn(p, a) <= AtLeastZero(m)
    BY <2>1, <2>2, <2>3, LeastOfTwo
  <2>5. LeftIn(p, a) > 0 => LeftIn(p, a) <= m
    BY <2>1, <2>3, <2>4
  <2>6. QED BY <2>4, <2>5 DEF m
<1>5. QED BY <1>3, <1>4

(* The purse before any put.                                                *)
LEMMA AtHandForm ==
    ASSUME NEW p \in RebalancePlan
    PROVE  /\ AtHand(p) \in Purse /\ AtHand(p).kept = <<>> /\ AtHand(p).left <= LeftInAll(p)
           /\ \A a \in OptionAccounts : AtHand(p).room[a] = LeftIn(p, a)
<1> DEFINE all == LeftInAll(p)
           l == (all * MaxPuts) \div 100
           r == [acct \in OptionAccounts |-> LeftIn(p, acct)]
<1>1. all \in Nat /\ MaxPuts \in Nat /\ MaxPuts <= 100
  BY LeftIsACount, BookFacts
<1>2. r \in [OptionAccounts -> Nat]
  BY LeftIsACount
<1>3. AtHand(p) = [kept |-> <<>>, left |-> l, room |-> r]
  BY DEF AtHand
<1> HIDE DEF all, r
<1>4. l \in Nat /\ l <= all
  <2> DEFINE m == all * MaxPuts
  <2>1. m \in Nat /\ m <= all * 100
    <3>1. PICK d \in Nat : MaxPuts + d = 100
      <4>1. 100 - MaxPuts \in Nat /\ MaxPuts + (100 - MaxPuts) = 100
        BY <1>1
      <4>2. QED BY <4>1
    <3>2. all * MaxPuts \in Nat /\ all * d \in Nat
      BY <1>1, CountProduct
    <3>3. all * 100 = all * MaxPuts + all * d
      BY <1>1, <3>1
    <3>4. QED BY <3>2, <3>3
  <2> HIDE DEF m
  <2>2. m \div 100 \in Nat /\ m \div 100 <= all
    BY <1>1, <2>1
  <2>3. QED BY <2>2 DEF m
<1> HIDE DEF l
<1>5. AtHand(p) \in Purse /\ AtHand(p).kept = <<>> /\ AtHand(p).left = l /\ AtHand(p).room = r
  BY <1>2, <1>3, <1>4 DEF Purse
<1>6. QED BY <1>4, <1>5 DEF all, r

(* Paying for a put that fits keeps the purse adding up.                    *)
LEMMA PaidSecures ==
    ASSUME NEW p \in RebalancePlan, NEW s \in Seq(OptionWrite), NEW v \in Purse, Secures(v, p, s),
           NEW w \in ToSet(s), NEW x \in OptionWrite, TakesPut(v, w, p, x)
    PROVE  Secures(Paid(v, x), p, s)
<1> DEFINE c == Paid(v, x)
           m == Collateral(x)
           kept == v.kept
           r == Append(kept, x)
<1>1. kept \in Seq(OptionWrite) /\ v.left \in Nat /\ v.room \in [OptionAccounts -> Nat]
  BY DEF Purse
<1>2. x.ticker = w.ticker /\ x.n <= w.n /\ x.account \in OptionAccounts /\ x.account \in Accounts
  BY BookFacts DEF TakesPut
<1>3. m \in Nat /\ m <= v.left /\ m <= v.room[x.account]
  BY CollateralIsACount DEF TakesPut
<1>4. c.kept = r /\ c.left = v.left - m /\ c.room = [v.room EXCEPT ![x.account] = @ - m]
  BY DEF Paid
<1> HIDE DEF c, m
<1>5. \A accts : /\ Worth(r, SecuredIn(accts)) = Worth(kept, SecuredIn(accts)) + SecuredIn(accts)[x]
                 /\ Worth(kept, SecuredIn(accts)) \in Nat
                 /\ SecuredIn(accts)[x] = IF x.account \in accts THEN m ELSE 0
  <2>1. SUFFICES ASSUME NEW accts
                 PROVE  /\ Worth(r, SecuredIn(accts)) = Worth(kept, SecuredIn(accts)) + SecuredIn(accts)[x]
                        /\ Worth(kept, SecuredIn(accts)) \in Nat
                        /\ SecuredIn(accts)[x] = IF x.account \in accts THEN m ELSE 0
    OBVIOUS
  <2> DEFINE g == SecuredIn(accts)
  <2>2. \A y \in OptionWrite : g[y] \in Nat
    BY WeightsAreCounts
  <2>3. g[x] = IF x.account \in accts THEN m ELSE 0
    BY DEF SecuredIn, m
  <2> HIDE DEF g, kept
  <2>4. Worth(Append(kept, x), g) = Worth(kept, g) + g[x] /\ Worth(kept, g) \in Nat
    BY <1>1, <2>2, WorthOfMore, WorthIsACount
  <2>5. QED BY <2>3, <2>4 DEF g
<1>6. ToSet(r) = ToSet(kept) \cup {x}
  BY <1>1, MembersForm
<1>7. AreApart(r)
  <2>1. x.ticker \notin TickersOf(kept) /\ AreApart(kept)
    BY <1>2 DEF TakesPut, Secures
  <2> HIDE DEF kept
  <2>2. QED BY <1>1, <2>1, ApartGrows
<1> HIDE DEF r
<1>8. c.left + Worth(c.kept, SecuredIn(Accounts)) = AtHand(p).left
  <2>1. Worth(r, SecuredIn(Accounts)) = Worth(kept, SecuredIn(Accounts)) + m /\ Worth(kept, SecuredIn(Accounts)) \in Nat
    BY <1>2, <1>5
  <2>2. v.left + Worth(kept, SecuredIn(Accounts)) = AtHand(p).left
    BY DEF Secures
  <2> DEFINE old == Worth(kept, SecuredIn(Accounts))
  <2> HIDE DEF old
  <2>3. old \in Nat /\ Worth(r, SecuredIn(Accounts)) = old + m /\ v.left + old = AtHand(p).left
    BY <2>1, <2>2 DEF old
  <2>4. (v.left - m) + (old + m) = v.left + old
    BY <1>1, <1>3, <2>3
  <2>5. QED BY <1>4, <2>3, <2>4
<1>9. ASSUME NEW a \in OptionAccounts PROVE c.room[a] + Worth(c.kept, SecuredIn({a})) = AtHand(p).room[a]
  <2> DEFINE old == Worth(kept, SecuredIn({a}))
             had == v.room[a]
  <2>1. had + old = AtHand(p).room[a] /\ had \in Nat /\ old \in Nat
    BY <1>1, <1>5 DEF Secures
  <2>2. CASE a = x.account
    <3>1. Worth(r, SecuredIn({a})) = old + m /\ c.room[a] = had - m
      BY <1>1, <1>4, <1>5, <2>2
    <3> HIDE DEF old, had
    <3>2. (had - m) + (old + m) = had + old
      BY <1>3, <2>1
    <3>3. QED BY <1>4, <2>1, <3>1, <3>2
  <2>3. CASE a # x.account
    <3>1. Worth(r, SecuredIn({a})) = old + SecuredIn({a})[x] /\ SecuredIn({a})[x] = 0
      BY <1>5, <2>3
    <3>2. c.room[a] = had
      BY <1>1, <1>4, <2>3
    <3> HIDE DEF old, had
    <3>3. Worth(r, SecuredIn({a})) = old
      BY <2>1, <3>1
    <3>4. QED BY <1>4, <2>1, <3>2, <3>3
  <2>4. QED BY <2>2, <2>3
<1>10. ASSUME NEW a \in Accounts \ OptionAccounts PROVE Worth(c.kept, SecuredIn({a})) = 0
  <2>1. Worth(kept, SecuredIn({a})) = 0
    BY DEF Secures
  <2>2. SecuredIn({a})[x] = 0
    BY <1>2, <1>5
  <2>3. Worth(r, SecuredIn({a})) = 0
    BY <1>5, <2>1, <2>2
  <2>4. QED BY <1>4, <2>3
<1>11. ASSUME NEW y \in ToSet(c.kept)
       PROVE  /\ \E a \in ToSet(p.actions) : a.do = "SELL_PUT" /\ a.ticker = y.ticker
              /\ \E u \in ToSet(s) : u.ticker = y.ticker /\ y.n <= u.n
  <2>1. CASE y = x
    <3>1. \E a \in ToSet(p.actions) : a.do = "SELL_PUT" /\ a.ticker = x.ticker
      BY <1>2 DEF TakesPut
    <3>2. QED BY <1>2, <2>1, <3>1
  <2>2. CASE y \in ToSet(kept)
    BY <2>2 DEF Secures
  <2>3. QED BY <1>4, <1>6, <2>1, <2>2
<1>12. AreApart(c.kept)
  BY <1>4, <1>7
<1>13. Secures(c, p, s)
  BY <1>8, <1>9, <1>10, <1>11, <1>12 DEF Secures
<1>14. QED BY <1>13 DEF c

(* So it does when all puts are looked at.                                  *)
LEMMA ValidPutsForm ==
    ASSUME NEW p \in RebalancePlan
    PROVE  \E v \in Purse : ValidPuts(p) = v.kept /\ Secures(v, p, PutsOf(p))
<1> DEFINE s == PutsOf(p)
           base == AtHand(p)
           n == Len(s)
<1>1. s \in Seq(OptionWrite)
  BY PutsOfForm
<1>2. base \in Purse /\ base.kept = <<>>
  BY AtHandForm
<1>3. ValidPuts(p) = PutFold(p, base, s).kept
  BY DEF ValidPuts, PutFold, AtHand
<1>4. Secures(base, p, s)
  <2>1. \A accts : Worth(<<>>, SecuredIn(accts)) = 0
    BY WorthOfNothing
  <2>2. base.left \in Nat /\ \A a \in OptionAccounts : base.room[a] \in Nat
    BY <1>2 DEF Purse
  <2>3. AreApart(<<>>)
    BY DEF AreApart
  <2>4. /\ base.left + Worth(base.kept, SecuredIn(Accounts)) = base.left
        /\ \A a \in OptionAccounts : base.room[a] + Worth(base.kept, SecuredIn({a})) = base.room[a]
        /\ \A a \in Accounts \ OptionAccounts : Worth(base.kept, SecuredIn({a})) = 0
    <3> HIDE DEF base
    <3>1. QED BY <1>2, <2>1, <2>2
  <2>5. AreApart(base.kept) /\ ToSet(base.kept) = {}
    <3> HIDE DEF base
    <3>1. QED BY <1>2, <2>3, NoMembers
  <2> DEFINE v == base
  <2>6. v.left = AtHand(p).left /\ v.room = AtHand(p).room
    OBVIOUS
  <2>7. QED BY <2>4, <2>5, <2>6 DEF Secures
<1> HIDE DEF s, base
<1>5. n \in Nat /\ \A k \in 1..n : s[k] \in OptionWrite /\ s[k] \in ToSet(s)
  BY <1>1 DEF ToSet
<1>6. PICK f : KeptPutsSteps(f, p, base, s)
  BY <1>1, <1>2, KeptPutsUnfold
<1>7. /\ f[0] = base /\ \A k \in 1..n : f[k] = KeptPut(f[k - 1], s[k], p)
      /\ \A k \in 0..n : f[k] \in Purse
      /\ PutFold(p, base, s) = f[n]
  BY <1>6 DEF KeptPutsSteps
<1> DEFINE S == {k \in 0..n : Secures(f[k], p, s)}
<1>8. 0 \in S
  BY <1>4, <1>5, <1>7
<1>9. ASSUME NEW k \in 0..n, k < n, k \in S PROVE k + 1 \in S
  <2>1. k + 1 \in 1..n /\ k + 1 \in 0..n /\ (k + 1) - 1 = k
    BY <1>5, <1>9, NextOne
  <2> DEFINE v == f[k]
             w == s[k + 1]
  <2>2. v \in Purse /\ w \in OptionWrite /\ w \in ToSet(s) /\ Secures(v, p, s) /\ f[k + 1] = KeptPut(v, w, p)
    BY <1>5, <1>7, <1>9, <2>1
  <2> HIDE DEF v, w
  <2>3. KeptPut(v, w, p) = v \/ \E x \in OptionWrite : TakesPut(v, w, p, x) /\ KeptPut(v, w, p) = Paid(v, x)
    BY <2>2, KeptPutForm
  <2>4. \A x \in OptionWrite : TakesPut(v, w, p, x) => Secures(Paid(v, x), p, s)
    BY <1>1, <2>2, PaidSecures
  <2>5. Secures(f[k + 1], p, s)
    BY <2>2, <2>3, <2>4
  <2>6. QED BY <2>1, <2>5
<1> HIDE DEF S, n
<1>10. \A k \in 0..n : k \in S
  BY <1>5, <1>8, <1>9, CountUp
<1>11. n \in S /\ n \in 0..n
  BY <1>5, <1>10
<1>12. f[n] \in Purse /\ Secures(f[n], p, s) /\ ValidPuts(p) = f[n].kept
  BY <1>3, <1>7, <1>11 DEF S
<1>13. QED BY <1>12 DEF s

-----------------------------------------------------------------------------
(* The table of actions after the puts: one SELL_PUT a kept put, everything    *)
(* else as it was.                                                           *)
OneEach(s) == \A i, j \in DOMAIN s : s[i].do = "SELL_PUT" /\ s[j].do = "SELL_PUT" /\ s[i].ticker = s[j].ticker => i = j
Tells(out, kept, pre) ==
    /\ \A b \in ToSet(out) :
          b.do = "SELL_PUT" => \E w \in ToSet(kept) : w.ticker = b.ticker /\ w.n = b.n /\ w.account = b.account
    /\ \A a \in ToSet(pre) : a.do = "SELL_PUT" /\ a.ticker \in TickersOf(kept) => SoldIn(out, a.ticker)
    /\ \A a : a.do # "SELL_PUT" => (a \in ToSet(out) <=> a \in ToSet(pre))
    /\ OneEach(out)

(* One more that is no second SELL_PUT.                                     *)
LEMMA OneEachGrows ==
    ASSUME NEW X, NEW s \in Seq(X), OneEach(s), NEW x, x.do # "SELL_PUT" \/ ~SoldIn(s, x.ticker)
    PROVE  OneEach(Append(s, x))
<1> DEFINE n == Len(s)
           r == Append(s, x)
<1>1. n \in Nat /\ DOMAIN s = 1..n /\ DOMAIN r = 1..(n + 1) /\ r[n + 1] = x /\ \A i \in 1..n : r[i] = s[i]
  OBVIOUS
<1>2. \A i \in 1..n : s[i].do = "SELL_PUT" /\ x.do = "SELL_PUT" => s[i].ticker # x.ticker
  BY <1>1 DEF SoldIn, ToSet
<1>3. \A i \in 1..(n + 1) : i \in 1..n \/ i = n + 1
  BY <1>1
<1> HIDE DEF n, r
<1>4. ASSUME NEW i \in 1..(n + 1), NEW j \in 1..(n + 1), r[i].do = "SELL_PUT", r[j].do = "SELL_PUT",
             r[i].ticker = r[j].ticker
      PROVE  i = j
  <2>1. CASE i \in 1..n /\ j \in 1..n
    BY <1>1, <1>4, <2>1 DEF OneEach
  <2>2. CASE i = n + 1 /\ j \in 1..n
    BY <1>1, <1>2, <1>4, <2>2
  <2>3. CASE i \in 1..n /\ j = n + 1
    BY <1>1, <1>2, <1>4, <2>3
  <2>4. CASE i = n + 1 /\ j = n + 1
    BY <2>4
  <2>5. QED BY <1>3, <2>1, <2>2, <2>3, <2>4
<1>5. OneEach(r)
  BY <1>1, <1>4 DEF OneEach
<1>6. QED BY <1>5 DEF r

(* A step of the table: it tells the puts kept so far, and trades as before.*)
LEMMA ReconciledTells ==
    ASSUME NEW kept \in Seq(OptionWrite), NEW out \in Seq(Action), NEW pre \in Seq(Action), Tells(out, kept, pre),
           NEW x \in Action
    PROVE  /\ Tells(Reconciled(kept, out, x), kept, Append(pre, x))
           /\ \/ Reconciled(kept, out, x) = out /\ Idle(x)
              \/ \E b \in Action : /\ Reconciled(kept, out, x) = Append(out, b)
                                   /\ (b = x \/ (Idle(x) /\ Idle(b)))
<1> DEFINE r == Reconciled(kept, out, x)
           next == Append(pre, x)
<1>1. ToSet(next) = ToSet(pre) \cup {x} /\ \A b \in Action : ToSet(Append(out, b)) = ToSet(out) \cup {b}
  BY MembersForm
<1>2. /\ \A b \in ToSet(out) :
            b.do = "SELL_PUT" => \E w \in ToSet(kept) : w.ticker = b.ticker /\ w.n = b.n /\ w.account = b.account
      /\ \A a \in ToSet(pre) : a.do = "SELL_PUT" /\ a.ticker \in TickersOf(kept) => SoldIn(out, a.ticker)
      /\ \A a : a.do # "SELL_PUT" => (a \in ToSet(out) <=> a \in ToSet(pre))
      /\ OneEach(out)
  BY DEF Tells
<1> HIDE DEF next
<1>3. CASE x.do # "SELL_PUT" /\ r = Append(out, x)
  <2> HIDE DEF r
  <2>1. ToSet(r) = ToSet(out) \cup {x}
    BY <1>1, <1>3
  <2>2. OneEach(r)
    BY <1>2, <1>3, OneEachGrows
  <2>3. \A t : SoldIn(out, t) => SoldIn(r, t)
    BY <2>1 DEF SoldIn
  <2>4. \A b \in ToSet(r) :
            b.do = "SELL_PUT" => \E w \in ToSet(kept) : w.ticker = b.ticker /\ w.n = b.n /\ w.account = b.account
    BY <1>2, <1>3, <2>1
  <2>5. \A a \in ToSet(next) : a.do = "SELL_PUT" /\ a.ticker \in TickersOf(kept) => SoldIn(r, a.ticker)
    BY <1>1, <1>2, <1>3, <2>3
  <2>6. \A a : a.do # "SELL_PUT" => (a \in ToSet(r) <=> a \in ToSet(next))
    BY <1>1, <1>2, <1>3, <2>1
  <2>7. Tells(r, kept, next)
    BY <2>2, <2>4, <2>5, <2>6 DEF Tells
  <2>8. QED BY <1>3, <2>7 DEF r, next
<1>4. CASE x.do = "SELL_PUT" /\ (x.ticker \notin TickersOf(kept) \/ SoldIn(out, x.ticker)) /\ r = out
  <2> HIDE DEF r
  <2>1. \A a \in ToSet(next) : a.do = "SELL_PUT" /\ a.ticker \in TickersOf(kept) => SoldIn(r, a.ticker)
    BY <1>1, <1>2, <1>4
  <2>2. \A a : a.do # "SELL_PUT" => (a \in ToSet(r) <=> a \in ToSet(next))
    BY <1>1, <1>2, <1>4
  <2>3. Tells(r, kept, next)
    BY <1>2, <1>4, <2>1, <2>2 DEF Tells
  <2>4. Idle(x)
    BY <1>4 DEF Idle
  <2>5. QED BY <1>4, <2>3, <2>4 DEF r, next
<1>5. ASSUME x.do = "SELL_PUT", x.ticker \in TickersOf(kept), ~SoldIn(out, x.ticker),
             NEW w \in ToSet(kept), w \in OptionWrite, w.ticker = x.ticker, DrawnOn(kept, x, w) \in Action,
             r = Append(out, DrawnOn(kept, x, w))
      PROVE  Tells(r, kept, next) /\ \E b \in Action : r = Append(out, b) /\ (b = x \/ (Idle(x) /\ Idle(b)))
  <2> DEFINE b == DrawnOn(kept, x, w)
  <2>1. b.do = "SELL_PUT" /\ b.ticker = x.ticker /\ b.n = w.n /\ b.account = w.account /\ b \in Action
    BY <1>5 DEF DrawnOn, Action
  <2>2. r = Append(out, b)
    BY <1>5
  <2> HIDE DEF b, r
  <2>3. ToSet(r) = ToSet(out) \cup {b}
    BY <1>1, <2>1, <2>2
  <2>4. OneEach(r)
    BY <1>2, <1>5, <2>1, <2>2, OneEachGrows
  <2>5. SoldIn(r, x.ticker) /\ \A t : SoldIn(out, t) => SoldIn(r, t)
    BY <2>1, <2>3 DEF SoldIn
  <2>6. \A y \in ToSet(r) :
            y.do = "SELL_PUT" => \E u \in ToSet(kept) : u.ticker = y.ticker /\ u.n = y.n /\ u.account = y.account
    BY <1>2, <1>5, <2>1, <2>3
  <2>7. \A a \in ToSet(next) : a.do = "SELL_PUT" /\ a.ticker \in TickersOf(kept) => SoldIn(r, a.ticker)
    BY <1>1, <1>2, <2>5
  <2>8. \A a : a.do # "SELL_PUT" => (a \in ToSet(r) <=> a \in ToSet(next))
    BY <1>1, <1>2, <1>5, <2>1, <2>3
  <2>9. Tells(r, kept, next)
    BY <2>4, <2>6, <2>7, <2>8 DEF Tells
  <2>10. Idle(x) /\ Idle(b)
    BY <1>5, <2>1 DEF Idle
  <2>11. QED BY <2>1, <2>2, <2>9, <2>10
<1> HIDE DEF r
<1>6. \/ x.do # "SELL_PUT" /\ r = Append(out, x)
      \/ x.do = "SELL_PUT" /\ (x.ticker \notin TickersOf(kept) \/ SoldIn(out, x.ticker)) /\ r = out
      \/ /\ x.do = "SELL_PUT" /\ x.ticker \in TickersOf(kept) /\ ~SoldIn(out, x.ticker)
         /\ \E w \in ToSet(kept) :
               /\ w \in OptionWrite /\ w.ticker = x.ticker /\ DrawnOn(kept, x, w) \in Action
               /\ r = Append(out, DrawnOn(kept, x, w))
  BY ReconciledForm DEF r
<1>7. CASE /\ x.do = "SELL_PUT" /\ x.ticker \in TickersOf(kept) /\ ~SoldIn(out, x.ticker)
           /\ \E w \in ToSet(kept) :
                 /\ w \in OptionWrite /\ w.ticker = x.ticker /\ DrawnOn(kept, x, w) \in Action
                 /\ r = Append(out, DrawnOn(kept, x, w))
  <2>1. Tells(r, kept, next) /\ \E b \in Action : r = Append(out, b) /\ (b = x \/ (Idle(x) /\ Idle(b)))
    BY <1>5, <1>7
  <2>2. QED BY <2>1 DEF r, next
<1>8. QED BY <1>3, <1>4, <1>6, <1>7

Table(p, kept) == ReconFold(kept, <<>>, p.actions)
(* So does the whole table.                                                 *)
LEMMA TableForm ==
    ASSUME NEW p \in RebalancePlan, NEW kept \in Seq(OptionWrite)
    PROVE  /\ Table(p, kept) \in Seq(Action) /\ Tells(Table(p, kept), kept, p.actions)
           /\ \E f : SameTrades(f, p.actions) /\ Table(p, kept) = f[Len(p.actions)]
<1> DEFINE s == p.actions
           n == Len(s)
<1>1. s \in Seq(Action) /\ <<>> \in Seq(Action)
  BY DEF RebalancePlan
<1>2. Table(p, kept) = ReconFold(kept, <<>>, s)
  BY DEF Table
<1> HIDE DEF s
<1>3. n \in Nat /\ \A k \in 1..n : s[k] \in Action
  BY <1>1
<1>4. PICK f : ReconciledSteps(f, kept, <<>>, s)
  BY <1>1, ReconciledUnfolds
<1>5. /\ f[0] = <<>> /\ \A k \in 1..n : f[k] = Reconciled(kept, f[k - 1], s[k])
      /\ \A k \in 0..n : f[k] \in Seq(Action)
      /\ ReconFold(kept, <<>>, s) = f[n]
  BY <1>4 DEF ReconciledSteps
<1>6. /\ Prefix(s, 0) = <<>> /\ Prefix(s, n) = s
      /\ \A k \in 0..n : Prefix(s, k) \in Seq(Action)
      /\ \A k \in 1..n : Prefix(s, k) = Append(Prefix(s, k - 1), s[k])
  BY <1>1, PrefixForm
<1> DEFINE S == {k \in 0..n : Tells(f[k], kept, Prefix(s, k))}
<1>7. 0 \in S
  <2>1. Tells(<<>>, kept, <<>>)
    <3>1. OneEach(<<>>)
      BY DEF OneEach
    <3>2. QED BY <3>1, NoMembers DEF Tells
  <2>2. QED BY <1>3, <1>5, <1>6, <2>1
<1>8. ASSUME NEW k \in 0..n, k < n, k \in S PROVE k + 1 \in S
  <2>1. k + 1 \in 1..n /\ k + 1 \in 0..n /\ (k + 1) - 1 = k
    BY <1>3, <1>8, NextOne
  <2> DEFINE x == s[k + 1]
             pre == Prefix(s, k)
             out == f[k]
  <2>2. x \in Action /\ pre \in Seq(Action) /\ out \in Seq(Action) /\ Tells(out, kept, pre)
    BY <1>3, <1>5, <1>6, <1>8, <2>1
  <2>3. Prefix(s, k + 1) = Append(pre, x) /\ f[k + 1] = Reconciled(kept, out, x)
    BY <1>5, <1>6, <2>1
  <2> HIDE DEF x, pre, out
  <2>4. Tells(Reconciled(kept, out, x), kept, Append(pre, x))
    BY <2>2, ReconciledTells
  <2>5. QED BY <2>1, <2>3, <2>4
<1>9. \A k \in 0..n : k \in S
  <2> HIDE DEF S, n
  <2>1. QED BY <1>3, <1>7, <1>8, CountUp
<1>10. n \in S /\ n \in 0..n
  BY <1>3, <1>9
<1>11. SameTrades(f, s)
  <2>1. ASSUME NEW k \in 1..n
        PROVE  \/ f[k] = f[k - 1] /\ Idle(s[k])
               \/ \E b \in Action : f[k] = Append(f[k - 1], b) /\ (b = s[k] \/ (Idle(s[k]) /\ Idle(b)))
    <3> DEFINE x == s[k]
               pre == Prefix(s, k - 1)
               out == f[k - 1]
    <3>1. k - 1 \in 0..n
      BY <1>3
    <3>2. x \in Action /\ pre \in Seq(Action) /\ out \in Seq(Action) /\ Tells(out, kept, pre) /\ f[k] = Reconciled(kept, out, x)
      BY <1>3, <1>5, <1>6, <1>9, <3>1
    <3> HIDE DEF x, pre, out
    <3>3. \/ Reconciled(kept, out, x) = out /\ Idle(x)
          \/ \E b \in Action : Reconciled(kept, out, x) = Append(out, b) /\ (b = x \/ (Idle(x) /\ Idle(b)))
      BY <3>2, ReconciledTells
    <3>4. QED BY <3>2, <3>3 DEF x, out
  <2>2. QED BY <1>5, <2>1 DEF SameTrades
<1>12. Tells(f[n], kept, s) /\ f[n] \in Seq(Action)
  BY <1>5, <1>6, <1>10
<1>13. QED BY <1>2, <1>5, <1>11, <1>12 DEF s

(* Taking options off the table leaves its trades.                            *)
LEMMA OnlyTrades ==
    ASSUME NEW s \in Seq(Action), NEW set, \A a \in ToSet(s) : Idle(a) \/ a \in set
    PROVE  \E f : SameTrades(f, s) /\ Only(s, set) = f[Len(s)]
<1> DEFINE n == Len(s)
<1>1. n \in Nat /\ <<>> \in Seq(Action) /\ \A k \in 1..n : s[k] \in Action /\ s[k] \in ToSet(s)
  BY DEF ToSet
<1>2. PICK f : OnlySteps(f, Action, set, <<>>, s)
  BY <1>1, OnlyUnfolds
<1>3. /\ f[0] = <<>> /\ \A k \in 1..n : f[k] = Passed(f[k - 1], s[k], set)
      /\ \A k \in 0..n : f[k] \in Seq(Action)
      /\ Only(s, set) = f[n]
  BY <1>2 DEF OnlySteps, Only, OnlyFold
<1>4. ASSUME NEW k \in 1..n
      PROVE  \/ f[k] = f[k - 1] /\ Idle(s[k])
             \/ \E b \in Action : f[k] = Append(f[k - 1], b) /\ (b = s[k] \/ (Idle(s[k]) /\ Idle(b)))
  <2>1. CASE s[k] \in set
    BY <1>1, <1>3, <2>1 DEF Passed
  <2>2. CASE s[k] \notin set
    BY <1>1, <1>3, <2>2 DEF Passed
  <2>3. QED BY <2>1, <2>2
<1>5. SameTrades(f, s)
  BY <1>3, <1>4 DEF SameTrades
<1>6. QED BY <1>3, <1>5

(* One SELL_PUT a ticker: taken out, they are apart.                        *)
LEMMA OnlyApart ==
    ASSUME NEW s \in Seq(Action), OneEach(s), NEW set, \A a \in set : a.do = "SELL_PUT"
    PROVE  AreApart(Only(s, set))
<1> DEFINE n == Len(s)
<1>1. n \in Nat /\ DOMAIN s = 1..n /\ <<>> \in Seq(Action) /\ \A k \in 1..n : s[k] \in Action
  OBVIOUS
<1>2. PICK f : OnlySteps(f, Action, set, <<>>, s)
  BY <1>1, OnlyUnfolds
<1>3. /\ f[0] = <<>> /\ \A k \in 1..n : f[k] = Passed(f[k - 1], s[k], set)
      /\ \A k \in 0..n : f[k] \in Seq(Action)
      /\ Only(s, set) = f[n]
  BY <1>2 DEF OnlySteps, Only, OnlyFold
<1> DEFINE S == {k \in 0..n : AreApart(f[k]) /\ \A y \in ToSet(f[k]) : y \in set /\ \E i \in 1..k : y = s[i]}
<1>4. 0 \in S
  <2>1. AreApart(<<>>)
    BY DEF AreApart
  <2>2. QED BY <1>1, <1>3, <2>1, NoMembers
<1>5. ASSUME NEW k \in 0..n, k < n, k \in S PROVE k + 1 \in S
  <2>1. k + 1 \in 1..n /\ k + 1 \in 0..n /\ (k + 1) - 1 = k
    BY <1>1, <1>5, NextOne
  <2> DEFINE x == s[k + 1]
             out == f[k]
  <2>2. x \in Action /\ out \in Seq(Action) /\ f[k + 1] = Passed(out, x, set)
    BY <1>1, <1>3, <2>1
  <2>3. AreApart(out) /\ \A y \in ToSet(out) : y \in set /\ \E i \in 1..k : y = s[i]
    BY <1>5
  <2>4. \A i \in 1..k : i \in 1..n /\ i \in 1..(k + 1) /\ i # k + 1
    BY <1>1, <1>5
  <2>5. x \in set => x.ticker \notin TickersOf(out)
    <3>1. SUFFICES ASSUME x \in set, x.ticker \in TickersOf(out) PROVE FALSE
      OBVIOUS
    <3>2. PICK y \in ToSet(out) : y.ticker = x.ticker
      <4> HIDE DEF x, out
      <4>1. QED BY <3>1, TickersForm
    <3>3. PICK i \in 1..k : y = s[i]
      BY <2>3
    <3>4. y.do = "SELL_PUT" /\ x.do = "SELL_PUT"
      BY <2>3, <3>1
    <3>5. i = k + 1
      BY <1>1, <2>1, <2>4, <3>2, <3>3, <3>4 DEF OneEach
    <3>6. QED BY <2>4, <3>5
  <2> DEFINE next == f[k + 1]
  <2>6. CASE x \in set
    <3> HIDE DEF out
    <3>1. next = Append(out, x)
      BY <2>2, <2>6 DEF Passed
    <3>2. k + 1 \in 1..(k + 1)
      BY <1>1, <2>1
    <3> HIDE DEF next
    <3>3. AreApart(next) /\ ToSet(next) = ToSet(out) \cup {x}
      <4> HIDE DEF x
      <4>1. QED BY <2>2, <2>3, <2>5, <2>6, <3>1, ApartGrows, MembersForm
    <3>4. \A y \in ToSet(next) : y \in set /\ \E i \in 1..(k + 1) : y = s[i]
      BY <2>3, <2>4, <2>6, <3>2, <3>3
    <3>5. QED BY <2>1, <3>3, <3>4 DEF next
  <2>7. CASE x \notin set
    <3>1. next = out
      BY <2>2, <2>7 DEF Passed
    <3> HIDE DEF next
    <3>2. \A y \in ToSet(next) : y \in set /\ \E i \in 1..(k + 1) : y = s[i]
      BY <2>3, <2>4, <3>1
    <3>3. QED BY <2>1, <2>3, <3>1, <3>2 DEF next
  <2>8. QED BY <2>6, <2>7
<1>6. \A k \in 0..n : k \in S
  <2> HIDE DEF S, n
  <2>1. QED BY <1>1, <1>4, <1>5, CountUp
<1>7. n \in S
  BY <1>1, <1>6
<1>8. QED BY <1>3, <1>7

-----------------------------------------------------------------------------
(* What each check makes of the plan.                                        *)
LEMMA PlanParts ==
    ASSUME NEW p \in RebalancePlan
    PROVE  /\ p.actions \in Seq(Action) /\ p.calls \in Seq(OptionWrite) /\ p.puts \in Seq(OptionWrite)
           /\ ToSet(p.actions) \subseteq Action /\ ToSet(p.calls) \subseteq OptionWrite /\ ToSet(p.puts) \subseteq OptionWrite
<1>1. p.actions \in Seq(Action) /\ p.calls \in Seq(OptionWrite) /\ p.puts \in Seq(OptionWrite)
  BY DEF RebalancePlan
<1>2. QED BY <1>1 DEF ToSet

LEMMA NamesAreTickers ==
    /\ \A a \in Action : a.ticker \in Tickers
    /\ \A w \in OptionWrite : w.ticker \in Tickers
BY DEF Action, OptionWrite

LEMMA PlanWith ==
    ASSUME NEW p \in RebalancePlan, NEW s \in Seq(Action)
    PROVE  /\ [p EXCEPT !.actions = s] \in RebalancePlan
           /\ [p EXCEPT !.actions = s].actions = s
           /\ [p EXCEPT !.actions = s].calls = p.calls /\ [p EXCEPT !.actions = s].puts = p.puts
BY DEF RebalancePlan

(* CheckSales drops or shrinks actions and tells which.                     *)
LEMMA SalesStep ==
    ASSUME PlanTypeOK, CheckSales
    PROVE  /\ plan' \in RebalancePlan /\ plan'.calls = plan.calls /\ plan'.puts = plan.puts /\ told' \subseteq Tickers
           /\ \A a \in ToSet(plan'.actions) : \E b \in ToSet(plan.actions) : NoMoreThan(a, b)
           /\ \A a \in ToSet(plan.actions) : a \in ToSet(plan'.actions) \/ a.ticker \in told'
<1> DEFINE s == plan.actions
           free == {a \in ToSet(s) : ~Naked(a)}
           kept == [plan EXCEPT !.actions = Only(s, free)]
           naked == {b \in ToSet(s) : Naked(b)}
           gone == {a.ticker : a \in naked}
           doubts == {a.ticker : a \in {b \in ToSet(s) : Doubtful(b)}}
<1>1. plan \in RebalancePlan /\ s \in Seq(Action) /\ ToSet(s) \subseteq Action
  BY PlanParts DEF PlanTypeOK
<1>2. \/ gone = {} /\ plan' = plan /\ told' = doubts
      \/ plan' = Resized(kept) /\ told' = gone \cup Changed(kept) \cup doubts
  BY DEF CheckSales
<1>3. gone \subseteq Tickers /\ doubts \subseteq Tickers
  BY <1>1, NamesAreTickers
<1>4. \A a \in Action : NoMoreThan(a, a)
  BY DEF NoMoreThan, Action
<1>5. CASE gone = {} /\ plan' = plan /\ told' = doubts
  <2> HIDE DEF doubts, gone
  <2>1. QED BY <1>1, <1>3, <1>4, <1>5
<1>6. CASE plan' = Resized(kept) /\ told' = gone \cup Changed(kept) \cup doubts
  <2>1. Only(s, free) \in Seq(Action) /\ ToSet(Only(s, free)) = ToSet(s) \cap free
    <3> HIDE DEF s, free
    <3>1. QED BY <1>1, OnlyForm
  <2> DEFINE o == Only(s, free)
  <2>2. kept \in RebalancePlan /\ kept.actions = o /\ kept.calls = plan.calls /\ kept.puts = plan.puts
    <3> HIDE DEF free
    <3>1. o \in Seq(Action) /\ plan \in RebalancePlan
      BY <1>1, <2>1
    <3> HIDE DEF o
    <3>2. kept = [plan EXCEPT !.actions = o]
      BY DEF o
    <3>3. QED BY <3>1, <3>2, PlanWith
  <2>3. ToSet(o) \subseteq ToSet(s) /\ \A a \in ToSet(s) : a \in ToSet(o) \/ a.ticker \in gone
    BY <2>1
  <2>4. ToSet(o) \subseteq Action
    BY <1>1, <2>3
  <2> HIDE DEF o, kept, gone, doubts
  <2>5. /\ Resized(kept) \in RebalancePlan /\ Resized(kept).calls = plan.calls /\ Resized(kept).puts = plan.puts
        /\ \A a \in ToSet(Resized(kept).actions) : \E b \in ToSet(o) : NoMoreThan(a, b)
        /\ \A a \in ToSet(o) : a \in ToSet(Resized(kept).actions) \/ Unfunded(kept, a)
    BY <2>2, ResizedForm
  <2>6. \A a \in ToSet(o) : Unfunded(kept, a) => a.ticker \in Changed(kept)
    BY <2>2 DEF Changed
  <2>7. Changed(kept) \subseteq Tickers
    BY <2>2, <2>4, NamesAreTickers DEF Changed
  <2>8. QED BY <1>3, <1>6, <2>3, <2>5, <2>6, <2>7
<1>7. QED BY <1>2, <1>5, <1>6

(* CapPositions hands on what the cap let through.                          *)
LEMMA CapStep ==
    ASSUME PlanTypeOK, CapPositions
    PROVE  /\ plan' \in RebalancePlan /\ plan'.calls = plan.calls /\ plan'.puts = plan.puts
           /\ plan'.actions = CapOf(plan.actions).out
           /\ told' \subseteq Tickers /\ told' = told \cup CapOf(plan.actions).told
<1> DEFINE s == plan.actions
           c == CapOf(s)
<1>1. plan \in RebalancePlan /\ s \in Seq(Action) /\ told \subseteq Tickers
  BY PlanParts DEF PlanTypeOK
<1>2. c \in Caps
  <2> HIDE DEF s
  <2>1. QED BY <1>1, CapForm
<1>3. c = FoldLeft(Capped, [worth |-> [t \in Tickers |-> Held(t) * Price[t]], out |-> <<>>, told |-> {}], s)
  BY DEF CapOf, CapFold, AtFirst
<1>4. plan' = [plan EXCEPT !.actions = c.out] /\ told' = told \cup c.told
  BY <1>3 DEF CapPositions
<1> HIDE DEF c
<1>5. c.out \in Seq(Action) /\ c.told \subseteq Tickers
  BY <1>2 DEF Caps
<1> DEFINE o == c.out
<1>6. o \in Seq(Action) /\ plan' = [plan EXCEPT !.actions = o]
  BY <1>4, <1>5
<1> HIDE DEF o
<1>7. plan' \in RebalancePlan /\ plan'.actions = o /\ plan'.calls = plan.calls /\ plan'.puts = plan.puts
  BY <1>1, <1>6, PlanWith
<1>8. QED BY <1>1, <1>4, <1>5, <1>7 DEF o, c

(* CheckCalls takes calls off the plan and its table, and tells which.      *)
LEMMA CallsStep ==
    ASSUME PlanTypeOK, CheckCalls
    PROVE  /\ plan' \in RebalancePlan /\ plan'.calls = ValidCalls(plan) /\ plan'.puts = plan.puts
           /\ told \subseteq told' /\ told' \subseteq Tickers
           /\ \E set : /\ plan'.actions = Only(plan.actions, set) /\ set \subseteq ToSet(plan.actions)
                       /\ \A a \in ToSet(plan.actions) : Idle(a) \/ a \in set
           /\ \A a \in ToSet(plan.actions) : a \in ToSet(plan'.actions) \/ a.ticker \in told'
           /\ \A w \in ToSet(plan.calls) : w \in ToSet(plan'.calls) \/ w.ticker \in told'
<1> DEFINE s == plan.actions
           kept == ValidCalls(plan)
           set == {a \in ToSet(s) : a.do = "WRITE_CALL" => a.ticker \in TickersOf(kept)}
           o == Only(s, set)
           lost == {v \in ToSet(CallsOf(plan)) : v \notin ToSet(kept)}
           out1 == {w.ticker : w \in lost}
           out2 == {a.ticker : a \in ToSet(s) \ ToSet(o)}
<1>1. plan \in RebalancePlan /\ s \in Seq(Action) /\ ToSet(s) \subseteq Action /\ told \subseteq Tickers
  BY PlanParts DEF PlanTypeOK
<1>2. kept \in Seq(OptionWrite) /\ CallsOf(plan) \in Seq(OptionWrite) /\ ToSet(plan.calls) \subseteq ToSet(CallsOf(plan))
  BY <1>1, ValidCallsForm, CallsOfForm
<1>3. ToSet(CallsOf(plan)) \subseteq OptionWrite
  BY <1>2 DEF ToSet
<1>4. plan' = [plan EXCEPT !.calls = kept, !.actions = o] /\ told' = told \cup out1 \cup out2
  BY DEF CheckCalls
<1>5. set \subseteq ToSet(s) /\ \A a \in ToSet(s) : Idle(a) \/ a \in set
  BY DEF Idle
<1> HIDE DEF set, kept
<1>6. o \in Seq(Action) /\ ToSet(o) \subseteq ToSet(s)
  <2> HIDE DEF s
  <2>1. QED BY <1>1, OnlyForm
<1>7. out1 \subseteq Tickers /\ out2 \subseteq Tickers
  BY <1>1, <1>3, NamesAreTickers
<1>8. \A a \in ToSet(s) : a \in ToSet(o) \/ a.ticker \in out2
  OBVIOUS
<1>9. \A w \in ToSet(plan.calls) : w \in ToSet(kept) \/ w.ticker \in out1
  BY <1>2
<1>10. plan' \in RebalancePlan /\ plan'.calls = kept /\ plan'.actions = o /\ plan'.puts = plan.puts
  <2> HIDE DEF o
  <2>1. QED BY <1>1, <1>2, <1>4, <1>6 DEF RebalancePlan
<1>11. told \subseteq told' /\ told' \subseteq Tickers /\ out1 \subseteq told' /\ out2 \subseteq told'
  <2> HIDE DEF out1, out2
  <2>1. QED BY <1>1, <1>4, <1>7
<1> HIDE DEF out1, out2
<1>12. \E u : plan'.actions = Only(s, u) /\ u \subseteq ToSet(s) /\ \A a \in ToSet(s) : Idle(a) \/ a \in u
  BY <1>5, <1>10
<1> HIDE DEF o
<1>13. QED BY <1>8, <1>9, <1>10, <1>11, <1>12 DEF kept

(* CheckPuts hands on the puts that are kept and their table.               *)
LEMMA PutsStep ==
    ASSUME PlanTypeOK, CheckPuts
    PROVE  /\ plan' \in RebalancePlan /\ plan'.calls = plan.calls /\ plan'.puts = ValidPuts(plan)
           /\ plan'.actions = Table(plan, ValidPuts(plan))
           /\ ValidPuts(plan) \in Seq(OptionWrite)
           /\ told \subseteq told' /\ told' \subseteq Tickers /\ ChangedPuts(plan, ValidPuts(plan)) \subseteq told'
           /\ TickersOf(Of(plan, {"SELL_PUT"})) \ TickersOf(ValidPuts(plan)) \subseteq told'
<1> DEFINE kept == ValidPuts(plan)
           o == Table(plan, kept)
           out1 == ChangedPuts(plan, kept)
           out2 == TickersOf(Of(plan, {"SELL_PUT"}))
<1>1. plan \in RebalancePlan /\ plan.actions \in Seq(Action) /\ ToSet(plan.actions) \subseteq Action /\ told \subseteq Tickers
  BY PlanParts DEF PlanTypeOK
<1>2. PICK v \in Purse : ValidPuts(plan) = v.kept /\ Secures(v, plan, PutsOf(plan))
  BY <1>1, ValidPutsForm
<1>3. kept \in Seq(OptionWrite)
  BY <1>2 DEF Purse
<1>4. plan' = [plan EXCEPT !.puts = kept, !.actions = o] /\ told' = told \cup out1 \cup (out2 \ TickersOf(kept))
  BY DEF CheckPuts, Table, ReconFold
<1> HIDE DEF kept
<1>5. o \in Seq(Action)
  BY <1>1, <1>3, TableForm
<1>6. out1 \subseteq Tickers
  <2>1. PutsOf(plan) \in Seq(OptionWrite)
    BY <1>1, PutsOfForm
  <2>2. ToSet(PutsOf(plan)) \subseteq OptionWrite
    BY <2>1 DEF ToSet
  <2>3. QED BY <2>2, NamesAreTickers DEF ChangedPuts
<1>7. out2 \subseteq Tickers
  <2>1. ToSet(Of(plan, {"SELL_PUT"})) \subseteq Action
    BY <1>1, OfForm
  <2>2. QED BY <2>1, NamesAreTickers, TickersForm
<1> HIDE DEF o, out1, out2
<1>8. plan' \in RebalancePlan /\ plan'.calls = plan.calls /\ plan'.puts = kept /\ plan'.actions = o
  BY <1>1, <1>3, <1>4, <1>5 DEF RebalancePlan
<1>9. QED BY <1>1, <1>3, <1>4, <1>6, <1>7, <1>8 DEF kept, o, out1, out2

(* PutCheckDies takes every put off, and tells which.                       *)
LEMMA DieStep ==
    ASSUME PlanTypeOK, PutCheckDies
    PROVE  /\ plan' \in RebalancePlan /\ plan'.calls = plan.calls /\ plan'.puts = <<>>
           /\ plan'.actions = Only(plan.actions, {a \in ToSet(plan.actions) : a.do # "SELL_PUT"})
           /\ ToSet(plan'.actions) = {a \in ToSet(plan.actions) : a.do # "SELL_PUT"}
           /\ told \subseteq told' /\ told' \subseteq Tickers /\ TickersOf(plan.puts) \subseteq told'
           /\ TickersOf(Of(plan, {"SELL_PUT"})) \subseteq told'
<1> DEFINE s == plan.actions
           set == {a \in ToSet(s) : a.do # "SELL_PUT"}
           o == Only(s, set)
           out1 == TickersOf(plan.puts)
           out2 == TickersOf(Of(plan, {"SELL_PUT"}))
<1>1. plan \in RebalancePlan /\ s \in Seq(Action) /\ ToSet(s) \subseteq Action /\ told \subseteq Tickers
  BY PlanParts DEF PlanTypeOK
<1>2. plan' = [plan EXCEPT !.puts = <<>>, !.actions = o] /\ told' = told \cup out1 \cup out2
  BY DEF PutCheckDies
<1>3. o \in Seq(Action) /\ ToSet(o) = ToSet(s) \cap set
  <2> HIDE DEF s, set
  <2>1. QED BY <1>1, OnlyForm
<1>4. ToSet(o) = set
  BY <1>3
<1>5. out1 \subseteq Tickers
  BY <1>1, PlanParts, NamesAreTickers, TickersForm
<1>6. out2 \subseteq Tickers
  <2>1. ToSet(Of(plan, {"SELL_PUT"})) \subseteq Action
    BY <1>1, OfForm
  <2>2. QED BY <2>1, NamesAreTickers, TickersForm
<1> HIDE DEF o, out1, out2
<1>7. plan' \in RebalancePlan /\ plan'.calls = plan.calls /\ plan'.puts = <<>> /\ plan'.actions = o
  <2> DEFINE none == <<>>
  <2>1. none \in Seq(OptionWrite) /\ o \in Seq(Action) /\ plan' = [plan EXCEPT !.puts = none, !.actions = o]
    BY <1>2, <1>3
  <2> HIDE DEF none, s, set
  <2>2. plan' \in RebalancePlan /\ plan'.calls = plan.calls /\ plan'.puts = none /\ plan'.actions = o
    BY <1>1, <2>1 DEF RebalancePlan
  <2>3. QED BY <2>2 DEF none
<1>8. QED BY <1>1, <1>2, <1>4, <1>5, <1>6, <1>7 DEF o, out1, out2

-----------------------------------------------------------------------------
(* Every step leaves a plan.                                                *)
LEMMA PlanTypes == ASSUME PlanTypeOK, [PlanNext]_planVars PROVE PlanTypeOK'
<1>1. plan \in RebalancePlan /\ asked \in RebalancePlan /\ told \subseteq Tickers /\ crashed \subseteq {"calls", "puts"}
      /\ read \subseteq {"obligations", "calls", "puts"}
  BY DEF PlanTypeOK
<1>2. CASE FetchOptions
  BY <1>2 DEF FetchOptions, PlanTypeOK
<1>3. CASE ReceivePlan
  BY <1>3, ProposalsAssumption DEF ReceivePlan, PlanTypeOK
<1>4. CASE LosePlan
  BY <1>4 DEF LosePlan, PlanTypeOK
<1>5. CASE CheckSales
  <2>1. plan' \in RebalancePlan /\ told' \subseteq Tickers
    BY <1>5, SalesStep
  <2>2. checked' = "sales" /\ read' = read /\ asked' = asked /\ crashed' = crashed
    BY <1>5 DEF CheckSales
  <2>3. QED BY <1>1, <2>1, <2>2 DEF PlanTypeOK
<1>6. CASE CapPositions
  <2>1. plan' \in RebalancePlan /\ told' \subseteq Tickers
    BY <1>6, CapStep
  <2>2. checked' = "capped" /\ read' = read /\ asked' = asked /\ crashed' = crashed
    BY <1>6 DEF CapPositions
  <2>3. QED BY <1>1, <2>1, <2>2 DEF PlanTypeOK
<1>7. CASE CheckCalls
  <2>1. plan' \in RebalancePlan /\ told' \subseteq Tickers
    BY <1>7, CallsStep
  <2>2. checked' = "calls" /\ read' = read /\ asked' = asked /\ crashed' = crashed
    BY <1>7 DEF CheckCalls
  <2>3. QED BY <1>1, <2>1, <2>2 DEF PlanTypeOK
<1>8. CASE CallCheckDies
  BY <1>8 DEF CallCheckDies, PlanTypeOK
<1>9. CASE CheckPuts
  <2>1. plan' \in RebalancePlan /\ told' \subseteq Tickers
    BY <1>9, PutsStep
  <2>2. checked' = "puts" /\ read' = read /\ asked' = asked /\ crashed' = crashed
    BY <1>9 DEF CheckPuts
  <2>3. QED BY <1>1, <2>1, <2>2 DEF PlanTypeOK
<1>10. CASE PutCheckDies
  <2>1. plan' \in RebalancePlan /\ told' \subseteq Tickers
    BY <1>10, DieStep
  <2>2. checked' = "puts" /\ read' = read /\ asked' = asked /\ crashed' = crashed \cup {"puts"}
    BY <1>10 DEF PutCheckDies
  <2>3. QED BY <1>1, <2>1, <2>2 DEF PlanTypeOK
<1>11. CASE CheckCore
  <2>1. Core # Nowhere => Core \in Tickers
    BY BookAssumption
  <2>2. told' \subseteq Tickers
    BY <1>1, <1>11, <2>1 DEF CheckCore
  <2>3. checked' = "done" /\ read' = read /\ asked' = asked /\ crashed' = crashed /\ plan' = plan
    BY <1>11 DEF CheckCore
  <2>4. QED BY <1>1, <2>2, <2>3 DEF PlanTypeOK
<1>12. CASE UNCHANGED planVars
  BY <1>12 DEF planVars, PlanTypeOK
<1>13. QED BY <1>2, <1>3, <1>4, <1>5, <1>6, <1>7, <1>8, <1>9, <1>10, <1>11, <1>12 DEF PlanNext

LEMMA PlanStarts == ASSUME PlanInit PROVE PlanTypeOK
<1> DEFINE noActions == <<>>
           noWrites == <<>>
<1>1. noActions \in Seq(Action) /\ noWrites \in Seq(OptionWrite)
  OBVIOUS
<1>2. NoPlan = [actions |-> noActions, calls |-> noWrites, puts |-> noWrites]
  BY DEF NoPlan
<1> HIDE DEF noActions, noWrites
<1>3. NoPlan \in RebalancePlan
  BY <1>1, <1>2 DEF RebalancePlan
<1>4. QED BY <1>3 DEF PlanInit, PlanTypeOK

(* The plan is a RebalancePlan after every check, and what is told are tickers*)
(* (PlanTypeOK, over all of step_rebalance).                                *)
THEOREM PlanTypesHold == PlanSpec => []PlanTypeOK
<1>1. PlanInit => PlanTypeOK
  BY PlanStarts
<1>2. PlanTypeOK /\ [PlanNext]_planVars => PlanTypeOK'
  BY PlanTypes
<1>3. QED BY <1>1, <1>2, PTL DEF PlanSpec

-----------------------------------------------------------------------------
(* A check only takes away.                                                  *)
TakesAway ==
    /\ \A a \in ToSet(plan'.actions) : a.do = "SELL_PUT" \/ \E b \in ToSet(plan.actions) : NoMoreThan(a, b)
    /\ \A w \in ToSet(plan'.puts) : \E v \in ToSet(PutsOf(plan)) : v.ticker = w.ticker /\ w.n <= v.n

LEMMA SelfIsNoMore == (\A a \in Action : NoMoreThan(a, a)) /\ (\A w \in OptionWrite : w.n <= w.n)
BY DEF NoMoreThan, Action, OptionWrite

(* Each step of the checks only takes away.                                 *)
LEMMA EachTakesAway == ASSUME PlanTypeOK, [PlanNext]_planVars, checked # "asking" PROVE TakesAway
<1>1. /\ plan \in RebalancePlan /\ ToSet(plan.actions) \subseteq Action /\ ToSet(plan.puts) \subseteq OptionWrite
      /\ plan.actions \in Seq(Action)
  BY PlanParts DEF PlanTypeOK
<1>2. ToSet(plan.puts) \subseteq ToSet(PutsOf(plan))
  BY <1>1, PutsOfForm
<1>3. \A w \in ToSet(plan.puts) : \E v \in ToSet(PutsOf(plan)) : v.ticker = w.ticker /\ w.n <= v.n
  BY <1>1, <1>2, SelfIsNoMore
<1>4. \A a \in ToSet(plan.actions) : \E b \in ToSet(plan.actions) : NoMoreThan(a, b)
  BY <1>1, SelfIsNoMore
<1>5. CASE plan' = plan
  BY <1>3, <1>4, <1>5 DEF TakesAway
<1>6. CASE CheckSales
  <2>1. plan'.puts = plan.puts /\ \A a \in ToSet(plan'.actions) : \E b \in ToSet(plan.actions) : NoMoreThan(a, b)
    BY <1>6, SalesStep
  <2>2. QED BY <1>3, <2>1 DEF TakesAway
<1>7. CASE CapPositions
  <2>1. plan'.puts = plan.puts /\ plan'.actions = CapOf(plan.actions).out
    BY <1>7, CapStep
  <2>2. \A a \in ToSet(CapOf(plan.actions).out) : \E b \in ToSet(plan.actions) : NoMoreThan(a, b)
    BY <1>1, CapForm
  <2>3. QED BY <1>3, <2>1, <2>2 DEF TakesAway
<1>8. CASE CheckCalls
  <2>1. plan'.puts = plan.puts
    BY <1>8, CallsStep
  <2>2. PICK set : plan'.actions = Only(plan.actions, set)
    BY <1>8, CallsStep
  <2>3. ToSet(plan'.actions) \subseteq ToSet(plan.actions)
    BY <1>1, <2>2, OnlyForm
  <2>4. QED BY <1>3, <1>4, <2>1, <2>3 DEF TakesAway
<1>9. CASE CheckPuts
  <2> DEFINE kept == ValidPuts(plan)
  <2>1. plan'.puts = kept /\ plan'.actions = Table(plan, kept) /\ kept \in Seq(OptionWrite)
    BY <1>9, PutsStep
  <2>2. PICK v \in Purse : kept = v.kept /\ Secures(v, plan, PutsOf(plan))
    BY <1>1, ValidPutsForm
  <2> HIDE DEF kept
  <2>3. \A w \in ToSet(kept) : \E u \in ToSet(PutsOf(plan)) : u.ticker = w.ticker /\ w.n <= u.n
    BY <2>2 DEF Secures
  <2>4. Tells(Table(plan, kept), kept, plan.actions)
    BY <1>1, <2>1, TableForm
  <2>5. \A a \in ToSet(Table(plan, kept)) : a.do = "SELL_PUT" \/ a \in ToSet(plan.actions)
    BY <2>4 DEF Tells
  <2>6. QED BY <1>4, <2>1, <2>3, <2>5 DEF TakesAway
<1>10. CASE PutCheckDies
  <2>1. plan'.puts = <<>> /\ ToSet(plan'.actions) \subseteq ToSet(plan.actions)
    BY <1>10, DieStep
  <2>2. ToSet(plan'.puts) = {}
    BY <2>1, NoMembers
  <2>3. QED BY <1>4, <2>1, <2>2 DEF TakesAway
<1>11. FetchOptions \/ LosePlan \/ CallCheckDies \/ CheckCore \/ UNCHANGED planVars => plan' = plan
  BY DEF FetchOptions, LosePlan, CallCheckDies, CheckCore, planVars
<1>12. ~ReceivePlan
  BY DEF ReceivePlan
<1>13. QED BY <1>5, <1>6, <1>7, <1>8, <1>9, <1>10, <1>11, <1>12 DEF PlanNext

(* A check only takes away: no action, share, dollar or contract is there after*)
(* it that was not there before (ChecksOnlyTakeAway, validate_sales to      *)
(* _reconcile_put_actions).                                                 *)
THEOREM ChecksTakeAway == PlanSpec => ChecksOnlyTakeAway
<1>1. PlanTypeOK /\ [PlanNext]_planVars => [checked # "asking" => TakesAway]_planVars
  BY EachTakesAway
<1>2. ChecksOnlyTakeAway <=> [][checked # "asking" => TakesAway]_planVars
  BY DEF ChecksOnlyTakeAway, TakesAway
<1>3. QED BY <1>1, <1>2, PlanTypesHold, PTL DEF PlanSpec

-----------------------------------------------------------------------------
(* Buys within the cap.                                                      *)
CapHolds(s) == \A t \in Tickers : BuysOf(s, t) => Final(t, AtFirst[t], s) <= Limit + 1

(* Moving options about leaves it so.                                       *)
LEMMA CapSurvives ==
    ASSUME NEW s \in Seq(Action), NEW f, SameTrades(f, s), CapHolds(s)
    PROVE  CapHolds(f[Len(s)])
<1> DEFINE r == f[Len(s)]
<1>1. SUFFICES ASSUME NEW t \in Tickers, BuysOf(r, t) PROVE Final(t, AtFirst[t], r) <= Limit + 1
  BY DEF CapHolds
<1>2. Final(t, AtFirst[t], r) = Final(t, AtFirst[t], s)
  <2> DEFINE base == AtFirst[t]
  <2>1. base \in Amount
    BY AtFirstForm
  <2> HIDE DEF base
  <2>2. Final(t, base, f[Len(s)]) = Final(t, base, s)
    BY <2>1, SameFinal
  <2>3. QED BY <2>2 DEF base
<1>3. BuysOf(s, t)
  <2>1. r \in Seq(Action)
    <3>1. Len(s) \in 0..Len(s)
      OBVIOUS
    <3>2. QED BY <3>1 DEF SameTrades
  <2>2. PICK a \in ToSet(r) : a.do \in Buys /\ Sized(a) /\ a.ticker = t
    BY <1>1 DEF BuysOf
  <2>3. a \in Action
    BY <2>1, <2>2 DEF ToSet
  <2>4. ~Idle(a)
    BY <2>2 DEF Idle, Buys
  <2>5. a \in ToSet(s)
    BY <2>2, <2>3, <2>4, SameTraders
  <2>6. QED BY <2>2, <2>5 DEF BuysOf
<1>4. QED BY <1>2, <1>3 DEF CapHolds

(* The cap makes it so.                                                     *)
LEMMA CapCaps == ASSUME NEW s \in Seq(Action) PROVE CapHolds(CapOf(s).out)
BY CapForm DEF CapHolds, Within

-----------------------------------------------------------------------------
(* Calls covered.                                                            *)
CallsFit(p) ==
    \A t \in Tickers, acct \in Accounts :
        NewCalls(p, t, acct) > 0 => 100 * (NewCalls(p, t, acct) + OpenCalls[t][acct]) <= Units[t][acct]

(* What is kept and the calls already open fit the shares, when those were read.*)
LEMMA CallsFitTheRest ==
    ASSUME NEW p \in RebalancePlan, NEW q, q.calls = ValidCalls(p), "calls" \in read
    PROVE  CallsFit(q)
<1>1. SUFFICES ASSUME NEW t \in Tickers, NEW acct \in Accounts, NewCalls(q, t, acct) > 0
               PROVE  100 * (NewCalls(q, t, acct) + OpenCalls[t][acct]) <= Units[t][acct]
  BY DEF CallsFit
<1>2. ValidCalls(p) \in Seq(OptionWrite) /\ Covered(ValidCalls(p))
  BY ValidCallsForm
<1>3. NewCalls(q, t, acct) = Worth(ValidCalls(p), WrittenOn(t, acct)) /\ NewCalls(q, t, acct) \in Nat
  BY <1>2, NewCallsForm
<1>4. NewCalls(q, t, acct) <= CallRoom(t, acct)
  BY <1>2, <1>3 DEF Covered
<1>5. OnCalls(t, acct) = OpenCalls[t][acct]
  BY DEF OnCalls
<1>6. CallRoom(t, acct) \in Nat /\ (CallRoom(t, acct) > 0 => 100 * CallRoom(t, acct) <= Units[t][acct] - 100 * OnCalls(t, acct))
  BY CallRoomForm
<1>7. Units[t][acct] \in Nat /\ OpenCalls[t][acct] \in Nat
  BY BookFacts
<1> DEFINE m == NewCalls(q, t, acct)
           r == CallRoom(t, acct)
           u == Units[t][acct]
           o == OpenCalls[t][acct]
<1>8. m \in Nat /\ m > 0 /\ m <= r /\ r \in Nat /\ (r > 0 => 100 * r <= u - 100 * o) /\ u \in Nat /\ o \in Nat
  BY <1>1, <1>3, <1>4, <1>5, <1>6, <1>7
<1> HIDE DEF m, r, u, o
<1>9. 100 * (m + o) <= u
  BY <1>8
<1>10. QED BY <1>9 DEF m, u, o

-----------------------------------------------------------------------------
(* Puts secured.                                                             *)
OpenIn(acct) == Total([t \in Tickers |-> OpenPuts[t][acct]])
PutsFit(p) ==
    /\ \A acct \in Accounts :
          NewCollateral(p, {acct}) > 0 => NewCollateral(p, {acct}) + OpenIn(acct) + Bought(p, {acct}) <= Cash[acct]
    /\ NewCollateral(p, Accounts) > 0 =>
          NewCollateral(p, Accounts) + Total([acct \in OptionAccounts |-> OpenIn(acct)]) + Bought(p, Accounts \cup {Nowhere})
          <= Total([acct \in OptionAccounts |-> Cash[acct]]) + Sold(p)

LEMMA OpenForm == ASSUME NEW acct \in Accounts, "puts" \in read PROVE OnPuts(acct) = OpenIn(acct)
BY DEF OnPuts, OpenIn

(* The accounts' cash is the budget and what open puts hold.                *)
LEMMA BudgetForm ==
    ASSUME "puts" \in read
    PROVE  /\ Total([acct \in OptionAccounts |-> Cash[acct]]) = Budget + Total([acct \in OptionAccounts |-> OpenIn(acct)])
           /\ Total([acct \in OptionAccounts |-> Cash[acct]]) \in Nat
           /\ Total([acct \in OptionAccounts |-> OpenIn(acct)]) \in Nat
<1> DEFINE c == [acct \in OptionAccounts |-> Cash[acct]]
           o == [acct \in OptionAccounts |-> OpenIn(acct)]
           r == [acct \in OptionAccounts |-> Room(acct)]
<1>1. ASSUME NEW a \in OptionAccounts
      PROVE  c[a] \in Nat /\ o[a] \in Nat /\ r[a] \in Nat /\ c[a] = r[a] + o[a]
  <2>1. a \in Accounts
    BY BookFacts
  <2>2. OnPuts(a) \in Nat /\ OnPuts(a) <= Cash[a] /\ Room(a) = Cash[a] - OnPuts(a) /\ Room(a) \in Nat /\ OnPuts(a) = OpenIn(a)
    BY <2>1, RoomIsACount, OpenForm
  <2>3. Cash[a] \in Nat
    BY <2>1, BookFacts
  <2>4. QED BY <2>2, <2>3
<1>2. DOMAIN c = OptionAccounts /\ DOMAIN o = OptionAccounts /\ DOMAIN r = OptionAccounts
  OBVIOUS
<1>3. Budget = Total(r)
  BY DEF Budget
<1> HIDE DEF c, o, r
<1>4. Total(c) = SumOf(c, OptionAccounts) /\ Total(o) = SumOf(o, OptionAccounts) /\ Total(r) = SumOf(r, OptionAccounts)
  BY <1>2, TotalForm
<1>5. IsFiniteSet(OptionAccounts)
  BY BookFacts
<1>6. \A x \in OptionAccounts : r[x] \in Int /\ o[x] \in Int /\ c[x] = r[x] + o[x]
  BY <1>1
<1>7. SumOf(c, OptionAccounts) = SumOf(r, OptionAccounts) + SumOf(o, OptionAccounts)
  BY <1>5, <1>6, SumsAddUp
<1>8. SumOf(c, OptionAccounts) \in Nat /\ SumOf(o, OptionAccounts) \in Nat
  BY <1>1, <1>5, SumIsACount
<1>9. QED BY <1>3, <1>4, <1>7, <1>8 DEF c, o

(* What is kept, with the open puts and the buys, fits the cash.            *)
LEMMA PutsFitTheCash ==
    ASSUME NEW p \in RebalancePlan, NEW q \in RebalancePlan, "puts" \in read,
           q.puts = ValidPuts(p), q.actions = Table(p, ValidPuts(p))
    PROVE  PutsFit(q)
<1> DEFINE kept == ValidPuts(p)
<1>1. PICK v \in Purse : kept = v.kept /\ Secures(v, p, PutsOf(p))
  BY ValidPutsForm
<1>2. /\ v.kept \in Seq(OptionWrite) /\ v.left \in Nat /\ \A a \in OptionAccounts : v.room[a] \in Nat
  BY DEF Purse
<1>3. /\ v.left + Worth(kept, SecuredIn(Accounts)) = AtHand(p).left
      /\ \A a \in OptionAccounts : v.room[a] + Worth(kept, SecuredIn({a})) = AtHand(p).room[a]
      /\ \A a \in Accounts \ OptionAccounts : Worth(kept, SecuredIn({a})) = 0
  BY <1>1 DEF Secures
<1>4. /\ AtHand(p).left <= LeftInAll(p)
      /\ \A a \in OptionAccounts : AtHand(p).room[a] = LeftIn(p, a)
  BY AtHandForm
<1>5. /\ LeftInAll(p) \in Nat /\ \A a \in OptionAccounts : LeftIn(p, a) \in Nat
      /\ LeftInAll(p) > 0 => LeftInAll(p) = Budget + Sold(p) - Bought(p, Accounts \cup {Nowhere})
      /\ \A a \in OptionAccounts : LeftIn(p, a) > 0 => LeftIn(p, a) <= Room(a) - Bought(p, {a})
  BY LeftIsACount
<1>6. p.actions \in Seq(Action) /\ q.actions \in Seq(Action) /\ q.puts \in Seq(OptionWrite)
  BY PlanParts
<1>7. kept \in Seq(OptionWrite)
  BY <1>1, <1>2
<1>8. q.puts = kept /\ q.actions = Table(p, kept)
  OBVIOUS
<1> HIDE DEF kept
<1>9. PICK f : SameTrades(f, p.actions) /\ q.actions = f[Len(p.actions)]
  BY <1>7, <1>8, TableForm
<1>10. Sold(q) = Sold(p) /\ Sold(p) \in Nat
  <2>1. Worth(q.actions, Earned) = Worth(p.actions, Earned)
    BY <1>6, <1>9, SameWorth, WeightsAreCounts
  <2>2. QED BY <1>6, <2>1, SoldForm
<1>11. ASSUME NEW where PROVE Bought(q, where) = Bought(p, where) /\ Bought(p, where) \in Nat
  <2> DEFINE w == SpentIn(where)
  <2>1. \A a \in Action : w[a] \in Nat /\ (Idle(a) => w[a] = 0)
    BY WeightsAreCounts
  <2> HIDE DEF w
  <2>2. Worth(q.actions, w) = Worth(p.actions, w)
    BY <1>6, <1>9, <2>1, SameWorth
  <2>3. QED BY <1>6, <2>2, BoughtForm DEF w
<1>12. ASSUME NEW accts
       PROVE  NewCollateral(q, accts) = Worth(kept, SecuredIn(accts)) /\ NewCollateral(q, accts) \in Nat
  BY <1>6, <1>8, CollateralForm
<1>13. ASSUME NEW acct \in Accounts, NewCollateral(q, {acct}) > 0
       PROVE  NewCollateral(q, {acct}) + OpenIn(acct) + Bought(q, {acct}) <= Cash[acct]
  <2> DEFINE m == NewCollateral(q, {acct})
             b == Bought(q, {acct})
  <2>1. m = Worth(kept, SecuredIn({acct})) /\ m \in Nat /\ b = Bought(p, {acct}) /\ b \in Nat
    BY <1>11, <1>12
  <2>2. acct \in OptionAccounts
    BY <1>3, <1>13, <2>1
  <2>3. v.room[acct] + m = LeftIn(p, acct)
    BY <1>3, <1>4, <2>1, <2>2
  <2>4. m <= LeftIn(p, acct) /\ LeftIn(p, acct) > 0
    <3> DEFINE x == v.room[acct]
               y == LeftIn(p, acct)
    <3>1. x \in Nat /\ y \in Nat /\ x + m = y /\ m > 0 /\ m \in Nat
      BY <1>2, <1>5, <1>13, <2>1, <2>2, <2>3
    <3> HIDE DEF x, y, m
    <3>2. m <= y /\ y > 0
      BY <3>1
    <3>3. QED BY <3>2 DEF y
  <2>5. LeftIn(p, acct) <= Room(acct) - b
    BY <1>5, <2>1, <2>2, <2>4
  <2>6. Room(acct) = Cash[acct] - OpenIn(acct) /\ OpenIn(acct) \in Nat /\ Cash[acct] \in Nat
    BY RoomIsACount, OpenForm, BookFacts
  <2> DEFINE l == LeftIn(p, acct)
             c == Cash[acct]
             o == OpenIn(acct)
  <2>7. m \in Nat /\ b \in Nat /\ l \in Nat /\ c \in Nat /\ o \in Nat /\ m <= l /\ l <= (c - o) - b
    BY <1>5, <2>1, <2>2, <2>4, <2>5, <2>6
  <2> HIDE DEF m, b, l, c, o
  <2>8. m + o + b <= c
    BY <2>7
  <2>9. QED BY <2>8 DEF m, b, c, o
<1>14. ASSUME NewCollateral(q, Accounts) > 0
       PROVE  NewCollateral(q, Accounts) + Total([acct \in OptionAccounts |-> OpenIn(acct)]) + Bought(q, Accounts \cup {Nowhere})
              <= Total([acct \in OptionAccounts |-> Cash[acct]]) + Sold(q)
  <2> DEFINE m == NewCollateral(q, Accounts)
             b == Bought(q, Accounts \cup {Nowhere})
             l == LeftInAll(p)
             h == AtHand(p).left
             x == v.left
             c == Total([acct \in OptionAccounts |-> Cash[acct]])
             o == Total([acct \in OptionAccounts |-> OpenIn(acct)])
             s == Sold(q)
             u == Budget
  <2>1. m \in Nat /\ m > 0 /\ x \in Nat /\ x + m = h
    BY <1>2, <1>3, <1>12, <1>14
  <2>2. h <= l /\ l \in Nat
    BY <1>4, <1>5
  <2>3. b = Bought(p, Accounts \cup {Nowhere}) /\ b \in Nat
    BY <1>11
  <2>4. s = Sold(p) /\ s \in Nat
    BY <1>10
  <2>5. l > 0 => l = u + s - b
    BY <1>5, <2>3, <2>4
  <2>6. c = u + o /\ c \in Nat /\ o \in Nat
    BY BudgetForm
  <2>7. u \in Nat
    BY BudgetIsACount
  <2> HIDE DEF m, b, l, h, x, c, o, s, u
  <2>8. m + o + b <= c + s
    BY <2>1, <2>2, <2>3, <2>4, <2>5, <2>6, <2>7
  <2>9. QED BY <2>8 DEF m, b, c, o, s
<1>15. QED BY <1>13, <1>14 DEF PutsFit

(* No puts hold no cash.                                                    *)
LEMMA NoPutsFit == ASSUME NEW q \in RebalancePlan, q.puts = <<>> PROVE PutsFit(q)
<1>1. ASSUME NEW accts PROVE NewCollateral(q, accts) = 0
  BY CollateralForm, WorthOfNothing, PlanParts
<1>2. QED BY <1>1 DEF PutsFit

-----------------------------------------------------------------------------
(* What each check makes true of the plan, from there on: the inductive invariant.*)
Backed ==
    /\ checked \in {"capped", "calls", "puts", "done"} => CapHolds(plan.actions)
    /\ checked \in {"calls", "puts", "done"} /\ "calls" \in read /\ "calls" \notin crashed => CallsFit(plan)
    /\ checked \in {"puts", "done"} /\ "puts" \in read => PutsFit(plan)

LEMMA OnlyKeepsCap ==
    ASSUME NEW s \in Seq(Action), NEW set, \A a \in ToSet(s) : Idle(a) \/ a \in set, CapHolds(s)
    PROVE  CapHolds(Only(s, set))
<1>1. PICK f : SameTrades(f, s) /\ Only(s, set) = f[Len(s)]
  BY OnlyTrades
<1>2. QED BY <1>1, CapSurvives

LEMMA CallsFitStill == ASSUME NEW p, NEW q, q.calls = p.calls, CallsFit(p) PROVE CallsFit(q)
<1>1. \A t, acct : NewCalls(q, t, acct) = NewCalls(p, t, acct)
  BY DEF NewCalls, SumOver
<1>2. QED BY <1>1 DEF CallsFit

(* Every step keeps it.                                                     *)
LEMMA StaysBacked == ASSUME PlanTypeOK, Backed, [PlanNext]_planVars PROVE Backed'
<1>1. plan \in RebalancePlan /\ plan.actions \in Seq(Action)
  BY PlanParts DEF PlanTypeOK
<1>2. CASE FetchOptions \/ ReceivePlan \/ LosePlan \/ CheckSales
  <2>1. checked' \in {"asking", "asked", "lost", "sales"}
    BY <1>2 DEF FetchOptions, ReceivePlan, LosePlan, CheckSales
  <2>2. QED BY <2>1 DEF Backed
<1>3. CASE CapPositions
  <2>1. checked' = "capped" /\ plan'.actions = CapOf(plan.actions).out
    BY <1>3, CapStep DEF CapPositions
  <2>2. CapHolds(plan'.actions)
    BY <1>1, <2>1, CapCaps
  <2>3. QED BY <2>1, <2>2 DEF Backed
<1>4. CASE CheckCalls
  <2>1. checked = "capped" /\ checked' = "calls" /\ read' = read /\ crashed' = crashed
    BY <1>4 DEF CheckCalls
  <2>2. plan'.calls = ValidCalls(plan)
    BY <1>4, CallsStep
  <2>3. PICK set : plan'.actions = Only(plan.actions, set) /\ \A a \in ToSet(plan.actions) : Idle(a) \/ a \in set
    BY <1>4, CallsStep
  <2>4. CapHolds(plan'.actions)
    <3>1. CapHolds(plan.actions)
      BY <2>1 DEF Backed
    <3>2. QED BY <1>1, <2>3, <3>1, OnlyKeepsCap
  <2>5. "calls" \in read => CallsFit(plan')
    BY <1>1, <2>2, CallsFitTheRest
  <2>6. QED BY <2>1, <2>4, <2>5 DEF Backed
<1>5. CASE CallCheckDies
  <2>1. checked = "capped" /\ checked' = "calls" /\ crashed' = crashed \cup {"calls"} /\ plan' = plan /\ read' = read
    BY <1>5 DEF CallCheckDies
  <2>2. QED BY <2>1 DEF Backed
<1>6. CASE CheckPuts
  <2>1. checked = "calls" /\ checked' = "puts" /\ read' = read /\ crashed' = crashed
    BY <1>6 DEF CheckPuts
  <2> DEFINE kept == ValidPuts(plan)
  <2>2. /\ plan' \in RebalancePlan /\ plan'.calls = plan.calls /\ plan'.puts = kept
        /\ plan'.actions = Table(plan, kept) /\ kept \in Seq(OptionWrite)
    BY <1>6, PutsStep
  <2>3. CapHolds(plan'.actions)
    <3>1. CapHolds(plan.actions)
      BY <2>1 DEF Backed
    <3> HIDE DEF kept
    <3>2. PICK f : SameTrades(f, plan.actions) /\ Table(plan, kept) = f[Len(plan.actions)]
      BY <1>1, <2>2, TableForm
    <3>3. QED BY <1>1, <2>2, <3>1, <3>2, CapSurvives
  <2>4. "puts" \in read => PutsFit(plan')
    BY <1>1, <2>2, PutsFitTheCash
  <2>5. CallsFit(plan) => CallsFit(plan')
    BY <2>2, CallsFitStill
  <2>6. QED BY <2>1, <2>3, <2>4, <2>5 DEF Backed
<1>7. CASE PutCheckDies
  <2>1. checked = "calls" /\ checked' = "puts" /\ read' = read /\ crashed' = crashed \cup {"puts"}
    BY <1>7 DEF PutCheckDies
  <2> DEFINE set == {a \in ToSet(plan.actions) : a.do # "SELL_PUT"}
  <2>2. plan' \in RebalancePlan /\ plan'.calls = plan.calls /\ plan'.puts = <<>> /\ plan'.actions = Only(plan.actions, set)
    BY <1>7, DieStep
  <2>3. CapHolds(plan'.actions)
    <3>1. CapHolds(plan.actions)
      BY <2>1 DEF Backed
    <3>2. \A a \in ToSet(plan.actions) : Idle(a) \/ a \in set
      BY DEF Idle
    <3> HIDE DEF set
    <3>3. QED BY <1>1, <2>2, <3>1, <3>2, OnlyKeepsCap
  <2>4. PutsFit(plan')
    BY <2>2, NoPutsFit
  <2>5. CallsFit(plan) => CallsFit(plan')
    BY <2>2, CallsFitStill
  <2>6. QED BY <2>1, <2>3, <2>4, <2>5 DEF Backed
<1>8. CASE CheckCore
  <2>1. checked = "puts" /\ checked' = "done" /\ read' = read /\ crashed' = crashed /\ plan' = plan
    BY <1>8 DEF CheckCore
  <2>2. QED BY <2>1 DEF Backed
<1>9. CASE UNCHANGED planVars
  BY <1>9 DEF planVars, Backed
<1>10. QED BY <1>2, <1>3, <1>4, <1>5, <1>6, <1>7, <1>8, <1>9 DEF PlanNext

(* It is what OrdersAreBacked says.                                         *)
LEMMA BackedMeans == ASSUME PlanTypeOK, Backed PROVE OrdersAreBacked
<1>1. BuysWithinCap
  <2>1. \A t \in Tickers : AtFirst[t] = Held(t) * Price[t]
    BY AtFirstForm
  <2>2. SUFFICES ASSUME checked \in {"capped", "calls", "puts", "done"}, NEW t \in Tickers,
                        \E a \in ToSet(plan.actions) : a.do \in Buys /\ Sized(a) /\ a.ticker = t
                 PROVE  FoldLeft(LAMBDA worth, a : Traded(t, worth, a), Held(t) * Price[t], plan.actions) <= Limit + 1
    BY DEF BuysWithinCap
  <2>3. Final(t, AtFirst[t], plan.actions) <= Limit + 1
    BY <2>2 DEF Backed, CapHolds, BuysOf
  <2>4. QED BY <2>1, <2>3 DEF Final
<1>2. CallsAreCovered
  BY DEF Backed, CallsAreCovered, CallsFit, AfterPuts
<1>3. PutsAreSecured
  <2>1. SUFFICES ASSUME AfterPuts, "puts" \in read
                 PROVE  /\ \A acct \in Accounts : NewCollateral(plan, {acct}) > 0 =>
                              NewCollateral(plan, {acct}) + OnPuts(acct) + Bought(plan, {acct}) <= Cash[acct]
                        /\ NewCollateral(plan, Accounts) > 0 =>
                              NewCollateral(plan, Accounts) + Total([acct \in OptionAccounts |-> OnPuts(acct)])
                                  + Bought(plan, Accounts \cup {Nowhere})
                              <= Total([acct \in OptionAccounts |-> Cash[acct]]) + Sold(plan)
    BY DEF PutsAreSecured
  <2>2. PutsFit(plan)
    BY <2>1 DEF Backed, AfterPuts
  <2>3. \A acct \in Accounts : OnPuts(acct) = OpenIn(acct)
    BY <2>1, OpenForm
  <2>4. [acct \in OptionAccounts |-> OnPuts(acct)] = [acct \in OptionAccounts |-> OpenIn(acct)]
    BY <2>3, BookFacts
  <2>5. QED BY <2>2, <2>3, <2>4 DEF PutsFit
<1>4. QED BY <1>1, <1>2, <1>3 DEF OrdersAreBacked

(* The orders are backed: puts by the cash of their account and of all accounts,*)
(* calls by the shares of their account, and buys stay within the cap, whichever*)
(* of the broker's answers was missing and whichever check died             *)
(* (OrdersAreBacked, step_rebalance).                                       *)
THEOREM OrdersStayBacked == PlanSpec => []OrdersAreBacked
<1>1. PlanInit => Backed
  BY DEF PlanInit, Backed
<1>2. PlanTypeOK /\ Backed /\ [PlanNext]_planVars => Backed'
  BY StaysBacked
<1>3. PlanTypeOK /\ Backed => OrdersAreBacked
  BY BackedMeans
<1>4. QED BY <1>1, <1>2, <1>3, PlanTypesHold, PTL DEF PlanSpec

-----------------------------------------------------------------------------
(* The report.                                                               *)
Matched(p) ==
    LET sold == Of(p, {"SELL_PUT"})
    IN /\ Len(sold) = Len(p.puts)
       /\ \A a \in ToSet(sold) : \E w \in ToSet(p.puts) : w.ticker = a.ticker /\ w.n = a.n /\ w.account = a.account

(* After CheckPuts the table and the puts agree: both have one entry a ticker,*)
(* and the same tickers.                                                    *)
LEMMA TableMatches ==
    ASSUME NEW p \in RebalancePlan, NEW q \in RebalancePlan,
           q.puts = ValidPuts(p), q.actions = Table(p, ValidPuts(p))
    PROVE  Matched(q)
<1> DEFINE kept == ValidPuts(p)
           set == {a \in ToSet(q.actions) : a.do \in {"SELL_PUT"}}
           sold == Of(q, {"SELL_PUT"})
<1>1. PICK v \in Purse : kept = v.kept /\ Secures(v, p, PutsOf(p))
  BY ValidPutsForm
<1>2. kept \in Seq(OptionWrite)
  BY <1>1 DEF Purse
<1>3. q.actions \in Seq(Action) /\ q.actions = Table(p, kept) /\ q.puts = kept
  BY PlanParts
<1> HIDE DEF kept
<1>4. AreApart(kept) /\ \A w \in ToSet(kept) : \E a \in ToSet(p.actions) : a.do = "SELL_PUT" /\ a.ticker = w.ticker
  BY <1>1 DEF Secures
<1>5. Tells(q.actions, kept, p.actions)
  BY <1>2, <1>3, TableForm
<1>6. /\ \A b \in ToSet(q.actions) :
            b.do = "SELL_PUT" => \E w \in ToSet(kept) : w.ticker = b.ticker /\ w.n = b.n /\ w.account = b.account
      /\ \A a \in ToSet(p.actions) : a.do = "SELL_PUT" /\ a.ticker \in TickersOf(kept) => SoldIn(q.actions, a.ticker)
      /\ OneEach(q.actions)
  BY <1>5 DEF Tells
<1>7. sold \in Seq(Action) /\ ToSet(sold) = set
  BY <1>3, OfForm
<1>8. AreApart(sold)
  <2>1. sold = Only(q.actions, set)
    BY DEF Of
  <2>2. \A a \in set : a.do = "SELL_PUT"
    OBVIOUS
  <2> HIDE DEF set, sold
  <2>3. QED BY <1>3, <1>6, <2>1, <2>2, OnlyApart
<1> HIDE DEF sold
<1>9. TickersOf(sold) = TickersOf(kept)
  <2>1. ASSUME NEW t \in TickersOf(sold) PROVE t \in TickersOf(kept)
    <3>1. PICK b \in set : b.ticker = t
      BY <1>7, <2>1, TickersForm
    <3>2. PICK w \in ToSet(kept) : w.ticker = t
      BY <1>6, <3>1
    <3>3. QED BY <3>2, TickersForm
  <2>2. ASSUME NEW t \in TickersOf(kept) PROVE t \in TickersOf(sold)
    <3>1. PICK w \in ToSet(kept) : w.ticker = t
      BY <2>2, TickersForm
    <3>2. PICK a \in ToSet(p.actions) : a.do = "SELL_PUT" /\ a.ticker = t
      BY <1>4, <3>1
    <3>3. SoldIn(q.actions, t)
      BY <1>6, <2>2, <3>2
    <3>4. PICK b \in ToSet(q.actions) : b.do = "SELL_PUT" /\ b.ticker = t
      BY <3>3 DEF SoldIn
    <3>5. b \in ToSet(sold)
      BY <1>7, <3>4
    <3>6. QED BY <3>4, <3>5, TickersForm
  <2>3. QED BY <2>1, <2>2
<1>10. Len(sold) = Len(kept)
  <2>1. Cardinality(TickersOf(sold)) = Len(sold)
    BY <1>7, <1>8, ApartLength
  <2>2. Cardinality(TickersOf(kept)) = Len(kept)
    BY <1>2, <1>4, ApartLength
  <2>3. QED BY <1>9, <2>1, <2>2
<1>11. \A a \in ToSet(sold) : \E w \in ToSet(kept) : w.ticker = a.ticker /\ w.n = a.n /\ w.account = a.account
  BY <1>6, <1>7
<1>12. QED BY <1>3, <1>10, <1>11 DEF Matched, sold

(* So do an empty list of puts and a table without any.                     *)
LEMMA NothingMatches ==
    ASSUME NEW q \in RebalancePlan, q.puts = <<>>, \A a \in ToSet(q.actions) : a.do # "SELL_PUT"
    PROVE  Matched(q)
<1> DEFINE sold == Of(q, {"SELL_PUT"})
<1>1. sold \in Seq(Action) /\ ToSet(sold) = {}
  BY OfForm, PlanParts
<1> HIDE DEF sold
<1>2. 1 \notin DOMAIN sold
  BY <1>1 DEF ToSet
<1>3. Len(sold) = 0 /\ Len(q.puts) = 0
  BY <1>1, <1>2
<1>4. QED BY <1>1, <1>3 DEF Matched, sold

(* The report's invariant: what was asked for is in the plan or told, at every*)
(* stage, and the table matches the puts once they were looked at.          *)
Reported ==
    /\ checked \in {"holdings", "asking", "asked"} => asked = plan
    /\ checked \in {"puts", "done"} => Matched(plan)
    /\ \A a \in ToSet(asked.actions) :
          \/ a \in ToSet(plan.actions) \/ a.ticker \in told
          \/ checked \in {"puts", "done"} /\ a.do = "SELL_PUT" /\ a.ticker \in TickersOf(plan.puts)
    /\ \A w \in ToSet(asked.calls) : w \in ToSet(plan.calls) \/ w.ticker \in told
    /\ \A w \in ToSet(asked.puts) : w.ticker \in told \/ \E k \in ToSet(plan.puts) : k.ticker = w.ticker /\ k.n = w.n

ActionsTold(p, out) == \A a \in ToSet(asked.actions) : a \in ToSet(p.actions) \/ a.ticker \in out
CallsTold(p, out) == \A w \in ToSet(asked.calls) : w \in ToSet(p.calls) \/ w.ticker \in out
PutsTold(p, out) == \A w \in ToSet(asked.puts) : w.ticker \in out \/ \E k \in ToSet(p.puts) : k.ticker = w.ticker /\ k.n = w.n

LEMMA ReportedBefore ==
    ASSUME Reported, checked \notin {"puts", "done"}
    PROVE  ActionsTold(plan, told) /\ CallsTold(plan, told) /\ PutsTold(plan, told)
BY DEF Reported, ActionsTold, CallsTold, PutsTold

LEMMA ReportedAfter ==
    ASSUME asked' = asked, checked' \notin {"holdings", "asking", "asked"}, checked' \in {"puts", "done"} => Matched(plan'),
           \A a \in ToSet(asked.actions) :
               \/ a \in ToSet(plan'.actions) \/ a.ticker \in told'
               \/ checked' \in {"puts", "done"} /\ a.do = "SELL_PUT" /\ a.ticker \in TickersOf(plan'.puts),
           \A w \in ToSet(asked.calls) : w \in ToSet(plan'.calls) \/ w.ticker \in told',
           \A w \in ToSet(asked.puts) : w.ticker \in told' \/ \E k \in ToSet(plan'.puts) : k.ticker = w.ticker /\ k.n = w.n
    PROVE  Reported'
BY DEF Reported

(* Every step keeps it.                                                     *)
LEMMA StaysReported == ASSUME PlanTypeOK, Reported, [PlanNext]_planVars PROVE Reported'
<1>1. plan \in RebalancePlan /\ plan.actions \in Seq(Action) /\ asked \in RebalancePlan
  BY PlanParts DEF PlanTypeOK
<1>2. CASE FetchOptions
  <2>1. checked = "holdings" /\ checked' = "asking" /\ asked' = asked /\ plan' = plan /\ told' = told
    BY <1>2 DEF FetchOptions
  <2>2. QED BY <2>1 DEF Reported
<1>3. CASE ReceivePlan
  <2>1. checked' = "asked" /\ asked' = plan' /\ told' = told /\ plan' \in Proposals
    BY <1>3 DEF ReceivePlan
  <2>2. QED BY <2>1 DEF Reported
<1>4. CASE LosePlan
  <2>1. checked = "asking" /\ checked' = "lost" /\ asked' = asked /\ plan' = plan /\ told' = told
    BY <1>4 DEF LosePlan
  <2>2. QED BY <2>1 DEF Reported
<1>5. CASE CheckSales
  <2>1. checked = "asked" /\ checked' = "sales" /\ asked' = asked
    BY <1>5 DEF CheckSales
  <2>2. asked = plan
    BY <2>1 DEF Reported
  <2>3. /\ plan'.calls = plan.calls /\ plan'.puts = plan.puts
        /\ \A a \in ToSet(plan.actions) : a \in ToSet(plan'.actions) \/ a.ticker \in told'
    BY <1>5, SalesStep
  <2>4. QED BY <2>1, <2>2, <2>3, ReportedAfter
<1>6. CASE CapPositions
  <2>1. checked = "sales" /\ checked' = "capped" /\ asked' = asked
    BY <1>6 DEF CapPositions
  <2>2. /\ plan'.calls = plan.calls /\ plan'.puts = plan.puts /\ plan'.actions = CapOf(plan.actions).out
        /\ told' = told \cup CapOf(plan.actions).told
    BY <1>6, CapStep
  <2>3. \A a \in ToSet(plan.actions) : a \in ToSet(CapOf(plan.actions).out) \/ a.ticker \in CapOf(plan.actions).told
    BY <1>1, CapForm
  <2>4. ActionsTold(plan, told) /\ CallsTold(plan, told) /\ PutsTold(plan, told)
    BY <2>1, ReportedBefore
  <2>5. QED BY <2>1, <2>2, <2>3, <2>4, ReportedAfter DEF ActionsTold, CallsTold, PutsTold
<1>7. CASE CheckCalls
  <2>1. checked = "capped" /\ checked' = "calls" /\ asked' = asked
    BY <1>7 DEF CheckCalls
  <2>2. /\ plan'.puts = plan.puts /\ told \subseteq told'
        /\ \A a \in ToSet(plan.actions) : a \in ToSet(plan'.actions) \/ a.ticker \in told'
        /\ \A w \in ToSet(plan.calls) : w \in ToSet(plan'.calls) \/ w.ticker \in told'
    BY <1>7, CallsStep
  <2>3. ActionsTold(plan, told) /\ CallsTold(plan, told) /\ PutsTold(plan, told)
    BY <2>1, ReportedBefore
  <2>4. QED BY <2>1, <2>2, <2>3, ReportedAfter DEF ActionsTold, CallsTold, PutsTold
<1>8. CASE CallCheckDies
  <2>1. checked = "capped" /\ checked' = "calls" /\ asked' = asked /\ plan' = plan /\ told' = told
    BY <1>8 DEF CallCheckDies
  <2>2. QED BY <2>1 DEF Reported
<1>9. CASE CheckPuts
  <2>1. checked = "calls" /\ checked' = "puts" /\ asked' = asked
    BY <1>9 DEF CheckPuts
  <2> DEFINE kept == ValidPuts(plan)
             table == Table(plan, kept)
             sold == Of(plan, {"SELL_PUT"})
  <2>2. /\ plan' \in RebalancePlan /\ plan'.calls = plan.calls /\ plan'.puts = kept /\ plan'.actions = table
        /\ kept \in Seq(OptionWrite) /\ told \subseteq told' /\ ChangedPuts(plan, kept) \subseteq told'
        /\ TickersOf(sold) \ TickersOf(kept) \subseteq told'
    BY <1>9, PutsStep
  <2>3. ActionsTold(plan, told) /\ CallsTold(plan, told) /\ PutsTold(plan, told)
    BY <2>1, ReportedBefore
  <2>4. Matched(plan')
    BY <1>1, <2>2, TableMatches
  <2> HIDE DEF kept
  <2>5. Tells(table, kept, plan.actions)
    BY <1>1, <2>2, TableForm
  <2>6. \A a \in ToSet(plan.actions) : a.do # "SELL_PUT" => a \in ToSet(table)
    BY <2>5 DEF Tells
  <2>7. \A a \in ToSet(plan.actions) : a.do = "SELL_PUT" => a.ticker \in TickersOf(sold)
    <3>1. ToSet(sold) = {a \in ToSet(plan.actions) : a.do \in {"SELL_PUT"}}
      BY <1>1, OfForm
    <3> HIDE DEF sold
    <3>2. QED BY <3>1, TickersForm
  <2> HIDE DEF table, sold
  <2>8. \A a \in ToSet(asked.actions) :
            a \in ToSet(table) \/ a.ticker \in told' \/ (a.do = "SELL_PUT" /\ a.ticker \in TickersOf(kept))
    BY <2>2, <2>3, <2>6, <2>7 DEF ActionsTold
  <2>9. \A w \in ToSet(asked.puts) : w.ticker \in told' \/ \E k \in ToSet(kept) : k.ticker = w.ticker /\ k.n = w.n
    <3>1. ToSet(plan.puts) \subseteq ToSet(PutsOf(plan))
      BY <1>1, PutsOfForm
    <3>2. \A u \in ToSet(plan.puts) : u.ticker \in told' \/ \E k \in ToSet(kept) : k.ticker = u.ticker /\ k.n = u.n
      BY <2>2, <3>1 DEF ChangedPuts
    <3>3. SUFFICES ASSUME NEW w \in ToSet(asked.puts), w.ticker \notin told'
                   PROVE  \E k \in ToSet(kept) : k.ticker = w.ticker /\ k.n = w.n
      OBVIOUS
    <3>4. PICK u \in ToSet(plan.puts) : u.ticker = w.ticker /\ u.n = w.n
      BY <2>2, <2>3, <3>3 DEF PutsTold
    <3>5. QED BY <3>2, <3>3, <3>4
  <2>10. \A w \in ToSet(asked.calls) : w \in ToSet(plan'.calls) \/ w.ticker \in told'
    BY <2>2, <2>3 DEF CallsTold
  <2>11. QED BY <2>1, <2>2, <2>4, <2>8, <2>9, <2>10, ReportedAfter
<1>10. CASE PutCheckDies
  <2>1. checked = "calls" /\ checked' = "puts" /\ asked' = asked
    BY <1>10 DEF PutCheckDies
  <2> DEFINE sold == Of(plan, {"SELL_PUT"})
  <2>2. /\ plan' \in RebalancePlan /\ plan'.calls = plan.calls /\ plan'.puts = <<>>
        /\ ToSet(plan'.actions) = {a \in ToSet(plan.actions) : a.do # "SELL_PUT"}
        /\ told \subseteq told' /\ TickersOf(plan.puts) \subseteq told' /\ TickersOf(sold) \subseteq told'
    BY <1>10, DieStep
  <2>3. ActionsTold(plan, told) /\ CallsTold(plan, told) /\ PutsTold(plan, told)
    BY <2>1, ReportedBefore
  <2>4. Matched(plan')
    BY <2>2, NothingMatches
  <2>5. \A a \in ToSet(plan.actions) : a.do = "SELL_PUT" => a.ticker \in TickersOf(sold)
    <3>1. ToSet(sold) = {a \in ToSet(plan.actions) : a.do \in {"SELL_PUT"}}
      BY <1>1, OfForm
    <3> HIDE DEF sold
    <3>2. QED BY <3>1, TickersForm
  <2> HIDE DEF sold
  <2>6. \A a \in ToSet(asked.actions) : a \in ToSet(plan'.actions) \/ a.ticker \in told'
    BY <2>2, <2>3, <2>5 DEF ActionsTold
  <2>7. \A u \in ToSet(plan.puts) : u.ticker \in told'
    BY <2>2, TickersForm
  <2>8. \A w \in ToSet(asked.puts) : w.ticker \in told'
    BY <2>2, <2>3, <2>7 DEF PutsTold
  <2>9. \A w \in ToSet(asked.calls) : w \in ToSet(plan'.calls) \/ w.ticker \in told'
    BY <2>2, <2>3 DEF CallsTold
  <2>10. QED BY <2>1, <2>4, <2>6, <2>8, <2>9, ReportedAfter
<1>11. CASE CheckCore
  <2>1. checked = "puts" /\ checked' = "done" /\ asked' = asked /\ plan' = plan
    BY <1>11 DEF CheckCore
  <2>2. told \subseteq told'
    BY <1>11 DEF CheckCore
  <2>3. Matched(plan')
    BY <2>1 DEF Reported
  <2>4. QED BY <2>1, <2>2, <2>3, ReportedAfter DEF Reported
<1>12. CASE UNCHANGED planVars
  BY <1>12 DEF planVars, Reported
<1>13. QED BY <1>2, <1>3, <1>4, <1>5, <1>6, <1>7, <1>8, <1>9, <1>10, <1>11, <1>12 DEF PlanNext

LEMMA ReportStarts == ASSUME PlanInit PROVE Reported
<1>1. asked = plan /\ checked = "holdings" /\ asked.actions = <<>> /\ asked.calls = <<>> /\ asked.puts = <<>>
  BY DEF PlanInit, NoPlan
<1>2. QED BY <1>1, NoMembers DEF Reported

(* The report is of the plan that is left: table and puts agree, and whatever was*)
(* asked for and is gone or smaller is told (ReportIsOfThePlan, step_rebalance).*)
THEOREM ReportStaysTrue == PlanSpec => []ReportIsOfThePlan
<1>1. PlanInit => Reported
  BY ReportStarts
<1>2. PlanTypeOK /\ Reported /\ [PlanNext]_planVars => Reported'
  BY StaysReported
<1>3. Reported => ReportIsOfThePlan
  BY DEF Reported, ReportIsOfThePlan, PutsMatchActions, ChangesAreTold, Matched, AfterPuts
<1>4. QED BY <1>1, <1>2, <1>3, PlanTypesHold, PTL DEF PlanSpec

=============================================================================
