---------------------------- MODULE SpendingProofs ---------------------------
(***************************************************************************)
(* Proofs about the three guards of what is spent on models: the cap of a  *)
(* run (RunBudget), the daily cap (OpenRouterCap) and the choice of hosts  *)
(* (HostGuard), for any threads, clients, caps, prices, days and hosts.    *)
(*                                                                         *)
(* Both caps need sums over the calls in flight.  Where only a bound is    *)
(* wanted, the inductive invariants say that additive measures exist:      *)
(* functions on the sets of threads that grow by a thread's weight when    *)
(* the thread is added.  Their values on the whole set are the sums.  That *)
(* what is held back is exact is about the sums themselves: the last part  *)
(* proves that the community modules' sum of a finite set may take out any *)
(* member first, by the least set it would fail on instead of induction.   *)
(***************************************************************************)
EXTENDS MCSpending, FiniteSetTheorems, WellFoundedInduction, TLAPS

-----------------------------------------------------------------------------
(* The cap of a run.                                                       *)
Additive(S, f, w) ==
    /\ f \in [SUBSET S -> Nat]
    /\ f[{}] = 0
    /\ \A T \in SUBSET S : \A x \in S \ T : f[T \cup {x}] = f[T] + w[x]

\* What each thread holds back, has recorded, and may still record.
Held == [t \in Threads |-> IF pc[t] \in InFlight THEN est[t] ELSE 0]
Room == [t \in Threads |-> IF pc[t] \in InFlight
                           THEN MaxResponses * est[t] - got[t] ELSE 0]

LockOK == \A t \in Threads : pc[t] = "deciding" <=> lock = t

CallOK ==
    \A t \in Threads :
        /\ pc[t] \notin InFlight => got[t] = 0 /\ answers[t] = 0
        /\ answers[t] <= MaxResponses
        /\ got[t] <= answers[t] * est[t]

\* The three sums: g of what is held, r of what the calls in flight have
\* recorded, h of what they may still record.
Books(g, r, h) ==
    /\ Additive(Threads, g, Held)
    /\ Additive(Threads, r, got)
    /\ Additive(Threads, h, Room)
    /\ pending = g[Threads]
    /\ h[Threads] = MaxResponses * g[Threads] - r[Threads]
    /\ spent + h[Threads] <= MaxResponses * Cap
    /\ \A t \in Threads : pc[t] = "deciding" => spent - r[Threads] <= seen[t]

-----------------------------------------------------------------------------
(* A measure follows when one thread's weight changes: its value on every   *)
(* set with that thread moves by the difference.                            *)
LEMMA MeasureFollows ==
    ASSUME NEW S, NEW f, NEW w \in [S -> Nat], NEW v \in [S -> Nat],
           NEW t \in S, \A x \in S \ {t} : v[x] = w[x],
           Additive(S, f, w)
    PROVE  \E k : Additive(S, k, v) /\ k[S] = f[S] + v[t] - w[t]
<1> DEFINE k == [T \in SUBSET S |-> IF t \in T THEN f[T] + v[t] - w[t] ELSE f[T]]
<1>1. \A T \in SUBSET S : t \in T => f[T] = f[T \ {t}] + w[t]
  <2>1. ASSUME NEW T \in SUBSET S, t \in T
        PROVE  f[T] = f[T \ {t}] + w[t]
    <3>1. T \ {t} \in SUBSET S /\ t \in S \ (T \ {t}) /\ (T \ {t}) \cup {t} = T
      BY <2>1
    <3>2. QED BY <3>1 DEF Additive
  <2>2. QED BY <2>1
<1>2. k \in [SUBSET S -> Nat]
  <2>1. ASSUME NEW T \in SUBSET S
        PROVE  (IF t \in T THEN f[T] + v[t] - w[t] ELSE f[T]) \in Nat
    <3>1. f[T] \in Nat /\ f[T \ {t}] \in Nat /\ w[t] \in Nat /\ v[t] \in Nat
      BY T \ {t} \in SUBSET S DEF Additive
    <3>2. CASE t \in T
      BY <1>1, <3>1, <3>2
    <3>3. CASE t \notin T
      BY <3>1, <3>3
    <3>4. QED BY <3>2, <3>3
  <2>2. QED BY <2>1
<1>3. k[{}] = 0
  BY DEF Additive
<1>4. ASSUME NEW T \in SUBSET S, NEW x \in S \ T
      PROVE  k[T \cup {x}] = k[T] + v[x]
  <2>1. T \cup {x} \in SUBSET S /\ f[T \cup {x}] = f[T] + w[x] /\ f[T] \in Nat
    BY DEF Additive
  <2>2. CASE x = t
    BY <2>1, <2>2
  <2>3. CASE x # t
    BY <2>1, <2>3
  <2>4. QED BY <2>2, <2>3
<1>5. k[S] = f[S] + v[t] - w[t]
  OBVIOUS
<1> HIDE DEF k
<1>6. QED BY <1>2, <1>3, <1>4, <1>5 DEF Additive

(* Arithmetic of one more response: what a call has recorded stays within   *)
(* one estimate per response.                                               *)
LEMMA OneMoreResponse ==
    ASSUME NEW e \in Nat, NEW n \in Nat, NEW g \in Nat, NEW c \in 0..e,
           NEW m \in Nat, n < m, g <= n * e
    PROVE  g + c <= (n + 1) * e /\ (n + 1) * e <= m * e
<1>1. (n + 1) * e = n * e + e
  OBVIOUS
<1>2. n + 1 <= m
  OBVIOUS
<1>3. \E d \in Nat : m = (n + 1) + d
  <2>1. m - (n + 1) \in Nat /\ m = (n + 1) + (m - (n + 1))
    BY <1>2
  <2>2. QED BY <2>1
<1>4. PICK d \in Nat : m = (n + 1) + d
  BY <1>3
<1>5. m * e = (n + 1) * e + d * e
  BY <1>4
<1>6. d * e \in Nat
  OBVIOUS
<1>7. QED BY <1>1, <1>5, <1>6

(* Arithmetic of an admission: a total that fits under the cap with s       *)
(* already seen fits under m caps when every hold may cost m estimates.     *)
LEMMA AdmissionFits ==
    ASSUME NEW s \in Nat, NEW g \in Nat, NEW e \in Nat, NEW m \in Nat \ {0},
           NEW cap \in Nat, s + g + e <= cap
    PROVE  s + m * (g + e) <= m * cap
<1>1. PICK d \in Nat : cap = (s + g + e) + d
  <2>1. cap - (s + g + e) \in Nat /\ cap = (s + g + e) + (cap - (s + g + e))
    OBVIOUS
  <2>2. QED BY <2>1
<1>2. m * cap = m * s + m * (g + e) + m * d
  BY <1>1
<1>3. m * d \in Nat
  OBVIOUS
<1>4. PICK j \in Nat : m = 1 + j
  <2>1. m - 1 \in Nat /\ m = 1 + (m - 1)
    OBVIOUS
  <2>2. QED BY <2>1
<1>5. m * s = s + j * s /\ j * s \in Nat
  BY <1>4
<1>6. QED BY <1>2, <1>3, <1>5

-----------------------------------------------------------------------------
(* Every step keeps the types.                                              *)
LEMMA TypeStep == TypeOK /\ [Next]_vars => TypeOK'
<1> USE EstimatesAssumption, NoThreadAssumption
<1> SUFFICES ASSUME TypeOK, [Next]_vars PROVE TypeOK'
  OBVIOUS
<1> USE DEF TypeOK, InFlight
<1>1. ASSUME NEW t \in Threads, NEW e \in Estimates, Call(t, e) PROVE TypeOK'
  BY <1>1 DEF Call
<1>2. ASSUME NEW t \in Threads, ReadTotal(t) PROVE TypeOK'
  BY <1>2 DEF ReadTotal
<1>3. ASSUME NEW t \in Threads, Refuse(t) PROVE TypeOK'
  BY <1>3 DEF Refuse
<1>4. ASSUME NEW t \in Threads, Admit(t) PROVE TypeOK'
  BY <1>4 DEF Admit
<1>5. ASSUME NEW t \in Threads, NEW c \in 0..est[t], NEW next \in InFlight,
             Respond(t, c, next)
      PROVE TypeOK'
  <2>1. c \in Nat /\ spent + c \in Nat /\ got[t] + c \in Nat
    OBVIOUS
  <2>2. QED BY <1>5, <2>1 DEF Respond
<1>6. ASSUME NEW t \in Threads, NEW next \in InFlight, ProviderError(t, next)
      PROVE TypeOK'
  BY <1>6 DEF ProviderError
<1>7. ASSUME NEW t \in Threads, NEW e \in Estimates, Release(t, e) PROVE TypeOK'
  BY <1>7 DEF Release
<1>8. ASSUME NEW t \in Threads, GiveUp(t) PROVE TypeOK'
  BY <1>8 DEF GiveUp
<1>9. CASE UNCHANGED vars
  BY <1>9 DEF vars
<1>10. QED
  BY <1>1, <1>2, <1>3, <1>4, <1>5, <1>6, <1>7, <1>8, <1>9 DEF Next, ResponseCosts

(* Type correctness: in particular the reservation total and the ledger    *)
(* never leave their ranges, whatever the calls do.                        *)
THEOREM TypeCorrect == Spec => []TypeOK
<1>1. Init => TypeOK
  BY NoThreadAssumption DEF Init, TypeOK, InFlight
<1>2. QED BY <1>1, TypeStep, PTL DEF Spec

-----------------------------------------------------------------------------
(* The lock and each call's own account, without the sums.                 *)
Local == TypeOK /\ LockOK /\ CallOK

LEMMA LocalInit == Init => Local
BY NoThreadAssumption, ResponsesAssumption
   DEF Init, Local, TypeOK, LockOK, CallOK, InFlight

LEMMA LocalStep == Local /\ [Next]_vars => Local'
<1> SUFFICES ASSUME Local, [Next]_vars PROVE Local'
  OBVIOUS
<1> USE EstimatesAssumption, NoThreadAssumption, ResponsesAssumption
<1> USE DEF Local, LockOK, CallOK, InFlight
<1>0. TypeOK'
  <2>1. TypeOK /\ [Next]_vars
    OBVIOUS
  <2>2. QED BY <2>1, TypeStep
<1> USE <1>0
<1>1. ASSUME NEW t \in Threads, NEW e \in Estimates, Call(t, e)
      PROVE LockOK' /\ CallOK'
  <2>1. 0 * e = 0 /\ e \in Nat
    OBVIOUS
  <2>2. \A u \in Threads \ {t} : est'[u] = est[u] /\ pc'[u] = pc[u]
    BY <1>1 DEF Call, TypeOK
  <2>3. est'[t] = e /\ pc'[t] = "ready" /\ pc[t] = "idle"
    BY <1>1 DEF Call, TypeOK
  <2>4. got' = got /\ answers' = answers /\ lock' = lock
    BY <1>1 DEF Call
  <2>5. got[t] = 0 /\ answers[t] = 0
    BY <2>3
  <2>6. QED BY <2>1, <2>2, <2>3, <2>4, <2>5
<1>2. ASSUME NEW t \in Threads, ReadTotal(t) PROVE LockOK' /\ CallOK'
  BY <1>2 DEF ReadTotal, TypeOK
<1>3. ASSUME NEW t \in Threads, Refuse(t) PROVE LockOK' /\ CallOK'
  BY <1>3 DEF Refuse, TypeOK
<1>4. ASSUME NEW t \in Threads, Admit(t) PROVE LockOK' /\ CallOK'
  BY <1>4 DEF Admit, TypeOK
<1>5. ASSUME NEW t \in Threads, NEW c \in 0..est[t], NEW next \in InFlight,
             Respond(t, c, next)
      PROVE LockOK' /\ CallOK'
  <2>1. got[t] \in Nat /\ answers[t] \in Nat /\ est[t] \in Nat
    BY DEF TypeOK
  <2>2. answers[t] < MaxResponses /\ got[t] <= answers[t] * est[t]
    BY <1>5 DEF Respond
  <2>3. got[t] + c <= (answers[t] + 1) * est[t]
    BY <2>1, <2>2, OneMoreResponse
  <2>4. got'[t] = got[t] + c /\ answers'[t] = answers[t] + 1
    BY <1>5 DEF Respond, TypeOK
  <2>5. \A u \in Threads \ {t} : got'[u] = got[u] /\ answers'[u] = answers[u]
    BY <1>5 DEF Respond, TypeOK
  <2>6. est' = est /\ lock' = lock
    BY <1>5 DEF Respond
  <2>7. pc'[t] \in InFlight /\ pc[t] = "running"
    BY <1>5 DEF Respond, TypeOK
  <2>8. \A u \in Threads \ {t} : pc'[u] = pc[u]
    BY <1>5 DEF Respond, TypeOK
  <2>9. LockOK'
    BY <2>6, <2>7, <2>8
  <2>10. CallOK'
    BY <2>1, <2>2, <2>3, <2>4, <2>5, <2>6, <2>7, <2>8
  <2>11. QED BY <2>9, <2>10
<1>6. ASSUME NEW t \in Threads, NEW next \in InFlight, ProviderError(t, next)
      PROVE LockOK' /\ CallOK'
  BY <1>6 DEF ProviderError, TypeOK
<1>7. ASSUME NEW t \in Threads, NEW e \in Estimates, Release(t, e)
      PROVE LockOK' /\ CallOK'
  <2>1. e \in Nat
    BY EstimatesAssumption
  <2>2. got'[t] = 0 /\ answers'[t] = 0 /\ est'[t] \in Nat /\ 0 * est'[t] = 0
    BY <1>0, <1>7, <2>1 DEF Release, TypeOK
  <2>3. pc'[t] \in {"ready", "idle"} /\ pc[t] \in {"closing", "outage"} /\ lock' = lock
    BY <1>7 DEF Release, TypeOK
  <2>4. \A u \in Threads \ {t} : /\ got'[u] = got[u] /\ answers'[u] = answers[u]
                                 /\ est'[u] = est[u] /\ pc'[u] = pc[u]
    BY <1>7 DEF Release, TypeOK
  <2>5. QED BY <2>2, <2>3, <2>4
<1>8. ASSUME NEW t \in Threads, GiveUp(t) PROVE LockOK' /\ CallOK'
  <2>1. got'[t] = 0 /\ answers'[t] = 0 /\ est'[t] = 0 /\ 0 * 0 = 0
    BY <1>8 DEF GiveUp, TypeOK
  <2>2. pc'[t] = "idle" /\ pc[t] = "refused" /\ lock' = lock
    BY <1>8 DEF GiveUp, TypeOK
  <2>3. \A u \in Threads \ {t} : /\ got'[u] = got[u] /\ answers'[u] = answers[u]
                                 /\ est'[u] = est[u] /\ pc'[u] = pc[u]
    BY <1>8 DEF GiveUp, TypeOK
  <2>4. QED BY <2>1, <2>2, <2>3
<1>9. CASE UNCHANGED vars
  BY <1>9 DEF vars
<1> HIDE DEF LockOK, CallOK
<1>10. QED
  BY <1>0, <1>1, <1>2, <1>3, <1>4, <1>5, <1>6, <1>7, <1>8, <1>9 DEF Next, ResponseCosts

-----------------------------------------------------------------------------
(* The sums.  A step that moves no weight keeps all three measures.        *)
LEMMA BooksStay ==
    ASSUME NEW g, NEW r, NEW h, Books(g, r, h), LockOK', CallOK', TypeOK,
           Held' = Held, Room' = Room, got' = got,
           pending' = pending, spent' = spent,
           \A t \in Threads : pc'[t] = "deciding" =>
               \/ pc[t] = "deciding" /\ seen'[t] = seen[t]
               \/ seen'[t] = spent
    PROVE  Books(g, r, h)'
<1>1. r[Threads] \in Nat /\ spent \in Nat
  BY Threads \in SUBSET Threads DEF Books, Additive, TypeOK
<1>2. \A t \in Threads : pc'[t] = "deciding" => spent' - r[Threads] <= seen'[t]
  BY <1>1 DEF Books
<1>3. QED BY <1>2 DEF Books, Additive

(* What a call holds, has recorded and may still record are amounts: a     *)
(* call never records more than its room.                                  *)
Weighed == /\ Held \in [Threads -> Nat]
           /\ got \in [Threads -> Nat]
           /\ Room \in [Threads -> Nat]

LEMMA WeightTypes == Local => Weighed
<1> SUFFICES ASSUME Local PROVE Weighed
  OBVIOUS
<1>1. ASSUME NEW t \in Threads
      PROVE  /\ (IF pc[t] \in InFlight THEN est[t] ELSE 0) \in Nat
             /\ (IF pc[t] \in InFlight THEN MaxResponses * est[t] - got[t] ELSE 0) \in Nat
  <2>1. /\ est[t] \in Nat /\ got[t] \in Nat /\ answers[t] \in Nat
        /\ got[t] <= answers[t] * est[t] /\ answers[t] <= MaxResponses
    BY DEF Local, TypeOK, CallOK
  <2>2. MaxResponses \in Nat
    BY ResponsesAssumption
  <2>3. PICK d \in Nat : MaxResponses = answers[t] + d
    <3>1. MaxResponses - answers[t] \in Nat /\ MaxResponses = answers[t] + (MaxResponses - answers[t])
      BY <2>1, <2>2
    <3>2. QED BY <3>1
  <2>4. MaxResponses * est[t] = answers[t] * est[t] + d * est[t] /\ d * est[t] \in Nat
    BY <2>1, <2>3
  <2>5. MaxResponses * est[t] \in Nat /\ answers[t] * est[t] \in Nat
    BY <2>1, <2>2
  <2>6. QED BY <2>1, <2>4, <2>5
<1>2. QED BY <1>1 DEF Weighed, Held, Room, Local, TypeOK

LEMMA WeightTypesNext == Local' => Weighed'
BY WeightTypes, PTL

BooksExist == \E g, r, h : Books(g, r, h)

\* The inductive invariant.
IInv == Local /\ BooksExist

LEMMA BooksInit == Init => BooksExist
<1> SUFFICES ASSUME Init PROVE BooksExist
  OBVIOUS
<1> DEFINE z == [T \in SUBSET Threads |-> 0]
<1>1. /\ Held = [t \in Threads |-> 0] /\ Room = [t \in Threads |-> 0]
      /\ got = [t \in Threads |-> 0] /\ pending = 0 /\ spent = 0
      /\ \A t \in Threads : pc[t] = "idle"
  BY DEF Init, Held, Room, InFlight
<1>2. \A w : w = [t \in Threads |-> 0] => Additive(Threads, z, w)
  BY DEF Additive
<1>3. z[Threads] = 0
  OBVIOUS
<1> HIDE DEF z
<1>4. MaxResponses * 0 = 0 /\ MaxResponses * Cap \in Nat
  BY ResponsesAssumption, CapAssumption
<1>5. Books(z, z, z)
  BY <1>1, <1>2, <1>3, <1>4 DEF Books
<1>6. QED BY <1>5 DEF BooksExist

LEMMA BooksStep == Local /\ BooksExist /\ [Next]_vars => BooksExist'
<1> SUFFICES ASSUME Local, BooksExist, [Next]_vars PROVE BooksExist'
  OBVIOUS
<1>0. Local'
  BY LocalStep
<1>t. TypeOK /\ LockOK /\ CallOK /\ TypeOK' /\ LockOK' /\ CallOK'
  BY <1>0 DEF Local
<1>w. /\ Held \in [Threads -> Nat] /\ got \in [Threads -> Nat] /\ Room \in [Threads -> Nat]
      /\ Held' \in [Threads -> Nat] /\ got' \in [Threads -> Nat] /\ Room' \in [Threads -> Nat]
  BY <1>0, WeightTypes, WeightTypesNext DEF Weighed
<1> PICK g, r, h : Books(g, r, h)
  BY DEF BooksExist
<1>n. /\ g[Threads] \in Nat /\ r[Threads] \in Nat /\ h[Threads] \in Nat
      /\ spent \in Nat /\ pending \in Int
      /\ MaxResponses \in Nat \ {0} /\ Cap \in Nat /\ MaxResponses * Cap \in Nat
  BY <1>t, ResponsesAssumption, CapAssumption, Threads \in SUBSET Threads
     DEF Books, Additive, TypeOK
<1>1. ASSUME NEW t \in Threads, NEW e \in Estimates, Call(t, e) PROVE BooksExist'
  <2>1. Held' = Held /\ Room' = Room
    BY <1>1, <1>t DEF Call, Held, Room, InFlight, TypeOK
  <2>2. \A u \in Threads : pc'[u] = "deciding" => pc[u] = "deciding" /\ seen'[u] = seen[u]
    BY <1>1, <1>t DEF Call, TypeOK
  <2>3. Books(g, r, h)'
    BY <1>1, <1>t, <2>1, <2>2, BooksStay DEF Call
  <2>4. QED BY <2>3 DEF BooksExist
<1>2. ASSUME NEW t \in Threads, ReadTotal(t) PROVE BooksExist'
  <2>1. Held' = Held /\ Room' = Room
    BY <1>2, <1>t DEF ReadTotal, Held, Room, InFlight, TypeOK
  <2>2. \A u \in Threads : pc'[u] = "deciding" =>
            (pc[u] = "deciding" /\ seen'[u] = seen[u]) \/ seen'[u] = spent
    BY <1>2, <1>t DEF ReadTotal, TypeOK
  <2>3. Books(g, r, h)'
    BY <1>2, <1>t, <2>1, <2>2, BooksStay DEF ReadTotal
  <2>4. QED BY <2>3 DEF BooksExist
<1>3. ASSUME NEW t \in Threads, Refuse(t) PROVE BooksExist'
  <2>1. Held' = Held /\ Room' = Room
    BY <1>3, <1>t DEF Refuse, Held, Room, InFlight, TypeOK
  <2>2. \A u \in Threads : pc'[u] = "deciding" => pc[u] = "deciding" /\ seen'[u] = seen[u]
    BY <1>3, <1>t DEF Refuse, TypeOK
  <2>3. Books(g, r, h)'
    BY <1>3, <1>t, <2>1, <2>2, BooksStay DEF Refuse
  <2>4. QED BY <2>3 DEF BooksExist
<1>4. ASSUME NEW t \in Threads, Admit(t) PROVE BooksExist'
  <2> DEFINE e == est[t]
  <2>1. e \in Nat /\ seen[t] \in Nat /\ got[t] = 0 /\ pc[t] = "deciding"
    BY <1>4, <1>t DEF Admit, TypeOK, CallOK, InFlight
  <2>2. seen[t] + pending + e <= Cap
    BY <1>4, <2>1, <1>n DEF Admit, WouldPassCap
  <2>3. /\ Held[t] = 0 /\ Held'[t] = e /\ \A u \in Threads \ {t} : Held'[u] = Held[u]
        /\ Room[t] = 0 /\ Room'[t] = MaxResponses * e
        /\ \A u \in Threads \ {t} : Room'[u] = Room[u]
    <3>1. MaxResponses * e - 0 = MaxResponses * e
      BY <2>1, <1>n
    <3>2. pc' = [pc EXCEPT ![t] = "running"] /\ est' = est /\ got' = got
      BY <1>4 DEF Admit
    <3>3. QED BY <3>1, <3>2, <2>1, <1>t DEF Held, Room, InFlight, TypeOK
  <2>4. PICK g2 : Additive(Threads, g2, Held') /\ g2[Threads] = g[Threads] + e
    <3>1. Additive(Threads, g, Held)
      BY DEF Books
    <3>2. \E k : Additive(Threads, k, Held') /\ k[Threads] = g[Threads] + Held'[t] - Held[t]
      <4>1. PICK w, v : w = Held /\ v = Held'
        OBVIOUS
      <4>2. /\ w \in [Threads -> Nat] /\ v \in [Threads -> Nat] /\ Additive(Threads, g, w)
            /\ \A u \in Threads \ {t} : v[u] = w[u]
        BY <4>1, <3>1, <1>w, <2>3
      <4>3. \E k : Additive(Threads, k, v) /\ k[Threads] = g[Threads] + v[t] - w[t]
        BY ONLY <4>2, MeasureFollows, t \in Threads
      <4>4. QED BY <4>1, <4>3
    <3>3. QED BY <3>2, <2>3, <2>1, <1>n
  <2>5. PICK h2 : Additive(Threads, h2, Room') /\ h2[Threads] = h[Threads] + MaxResponses * e
    <3>1. Additive(Threads, h, Room)
      BY DEF Books
    <3>2. \E k : Additive(Threads, k, Room') /\ k[Threads] = h[Threads] + Room'[t] - Room[t]
      <4>1. PICK w, v : w = Room /\ v = Room'
        OBVIOUS
      <4>2. /\ w \in [Threads -> Nat] /\ v \in [Threads -> Nat] /\ Additive(Threads, h, w)
            /\ \A u \in Threads \ {t} : v[u] = w[u]
        BY <4>1, <3>1, <1>w, <2>3
      <4>3. \E k : Additive(Threads, k, v) /\ k[Threads] = h[Threads] + v[t] - w[t]
        BY ONLY <4>2, MeasureFollows, t \in Threads
      <4>4. QED BY <4>1, <4>3
    <3>3. MaxResponses * e \in Nat
      BY <2>1, <1>n
    <3>4. QED BY <3>2, <3>3, <2>3, <1>n
  <2>6. /\ got' = got /\ spent' = spent /\ pending' = pending + e /\ seen' = seen
        /\ \A u \in Threads : pc'[u] = "deciding" => pc[u] = "deciding"
    BY <1>4, <1>t DEF Admit, TypeOK
  <2>7. /\ pending = g[Threads] /\ h[Threads] = MaxResponses * g[Threads] - r[Threads]
        /\ spent - r[Threads] <= seen[t]
        /\ \A u \in Threads : pc[u] = "deciding" => spent - r[Threads] <= seen[u]
    BY <2>1 DEF Books
  <2>8. MaxResponses * (g[Threads] + e) = MaxResponses * g[Threads] + MaxResponses * e
    BY <2>1, <1>n
  <2>9. h2[Threads] = MaxResponses * g2[Threads] - r[Threads]
    <3>1. MaxResponses * e \in Nat /\ MaxResponses * g[Threads] \in Nat
      BY <2>1, <1>n
    <3>2. QED BY <3>1, <2>4, <2>5, <2>7, <2>8, <1>n
  <2>10. spent + h2[Threads] <= MaxResponses * Cap
    <3>1. seen[t] + MaxResponses * (g[Threads] + e) <= MaxResponses * Cap
      BY <2>1, <2>2, <2>7, <1>n, AdmissionFits
    <3>2. spent + h2[Threads] <= seen[t] + MaxResponses * g2[Threads]
      <4>1. MaxResponses * g2[Threads] \in Nat
        BY <2>4, <2>1, <1>n
      <4>2. QED BY <4>1, <2>9, <2>7, <2>1, <1>n
    <3>3. seen[t] + MaxResponses * g2[Threads] \in Int /\ h2[Threads] \in Int
      BY <2>1, <2>4, <2>5, <1>n
    <3>4. QED BY <3>1, <3>2, <3>3, <2>4, <1>n
  <2>11. Books(g2, r, h2)'
    <3>1. Additive(Threads, r, got)'
      BY <2>6 DEF Books, Additive
    <3>2. QED BY <3>1, <2>4, <2>5, <2>6, <2>7, <2>9, <2>10 DEF Books, Additive
  <2>12. QED BY <2>11 DEF BooksExist
<1>5. ASSUME NEW t \in Threads, NEW c \in 0..est[t], NEW next \in InFlight,
             Respond(t, c, next)
      PROVE BooksExist'
  <2>1. /\ pc[t] = "running" /\ pc'[t] \in InFlight /\ c \in Nat
        /\ got'[t] = got[t] + c /\ est' = est /\ pending' = pending /\ seen' = seen
        /\ spent' = spent + c
        /\ \A u \in Threads \ {t} : pc'[u] = pc[u] /\ got'[u] = got[u]
    BY <1>5, <1>t DEF Respond, TypeOK
  <2>2. got[t] \in Nat /\ est[t] \in Nat /\ MaxResponses * est[t] \in Nat
    BY <1>t, <1>n DEF TypeOK
  <2>3. /\ Held' = Held
        /\ Room'[t] = Room[t] - c /\ \A u \in Threads \ {t} : Room'[u] = Room[u]
    <3>1. Room[t] = MaxResponses * est[t] - got[t]
      BY <2>1 DEF Room, InFlight
    <3>2. Room'[t] = MaxResponses * est[t] - (got[t] + c)
      BY <2>1 DEF Room
    <3>3. Room'[t] = Room[t] - c
      BY <3>1, <3>2, <2>1, <2>2
    <3>4. Held' = Held /\ \A u \in Threads \ {t} : Room'[u] = Room[u]
      BY <2>1 DEF Held, Room, InFlight
    <3>5. QED BY <3>3, <3>4
  <2>4. PICK h2 : Additive(Threads, h2, Room') /\ h2[Threads] = h[Threads] - c
    <3>1. Additive(Threads, h, Room)
      BY DEF Books
    <3>2. \E k : Additive(Threads, k, Room') /\ k[Threads] = h[Threads] + Room'[t] - Room[t]
      <4>1. PICK w, v : w = Room /\ v = Room'
        OBVIOUS
      <4>2. /\ w \in [Threads -> Nat] /\ v \in [Threads -> Nat] /\ Additive(Threads, h, w)
            /\ \A u \in Threads \ {t} : v[u] = w[u]
        BY <4>1, <3>1, <1>w, <2>3
      <4>3. \E k : Additive(Threads, k, v) /\ k[Threads] = h[Threads] + v[t] - w[t]
        BY ONLY <4>2, MeasureFollows, t \in Threads
      <4>4. QED BY <4>1, <4>3
    <3>3. Room[t] \in Nat
      BY <1>w
    <3>4. QED BY <3>2, <3>3, <2>1, <2>3, <1>n
  <2>5. PICK r2 : Additive(Threads, r2, got') /\ r2[Threads] = r[Threads] + c
    <3>1. Additive(Threads, r, got)
      BY DEF Books
    <3>2. \E k : Additive(Threads, k, got') /\ k[Threads] = r[Threads] + got'[t] - got[t]
      <4>1. PICK w, v : w = got /\ v = got'
        OBVIOUS
      <4>2. /\ w \in [Threads -> Nat] /\ v \in [Threads -> Nat] /\ Additive(Threads, r, w)
            /\ \A u \in Threads \ {t} : v[u] = w[u]
        BY <4>1, <3>1, <1>w, <2>1
      <4>3. \E k : Additive(Threads, k, v) /\ k[Threads] = r[Threads] + v[t] - w[t]
        BY ONLY <4>2, MeasureFollows, t \in Threads
      <4>4. QED BY <4>1, <4>3
    <3>3. QED BY <3>2, <2>1, <2>2, <1>n
  <2>6. /\ pending = g[Threads] /\ h[Threads] = MaxResponses * g[Threads] - r[Threads]
        /\ spent + h[Threads] <= MaxResponses * Cap
        /\ \A u \in Threads : pc[u] = "deciding" => spent - r[Threads] <= seen[u]
    BY DEF Books
  <2>7. \A u \in Threads : pc'[u] = "deciding" => pc[u] = "deciding"
    BY <2>1 DEF InFlight
  <2>8. h2[Threads] = MaxResponses * g[Threads] - r2[Threads]
    <3>1. MaxResponses * g[Threads] \in Nat
      BY <1>n
    <3>2. QED BY <3>1, <2>1, <2>4, <2>5, <2>6, <1>n
  <2>9. spent' + h2[Threads] = spent + h[Threads] /\ spent' - r2[Threads] = spent - r[Threads]
    BY <2>1, <2>4, <2>5, <1>n
  <2>10. Books(g, r2, h2)'
    <3>1. Additive(Threads, g, Held)'
      BY <2>3 DEF Books, Additive
    <3>2. QED BY <3>1, <2>1, <2>4, <2>5, <2>6, <2>7, <2>8, <2>9 DEF Books, Additive
  <2>11. QED BY <2>10 DEF BooksExist
<1>6. ASSUME NEW t \in Threads, NEW next \in InFlight, ProviderError(t, next)
      PROVE BooksExist'
  <2>1. Held' = Held /\ Room' = Room
    BY <1>6, <1>t DEF ProviderError, Held, Room, InFlight, TypeOK
  <2>2. \A u \in Threads : pc'[u] = "deciding" => pc[u] = "deciding" /\ seen'[u] = seen[u]
    BY <1>6, <1>t DEF ProviderError, TypeOK, InFlight
  <2>3. Books(g, r, h)'
    BY <1>6, <1>t, <2>1, <2>2, BooksStay DEF ProviderError
  <2>4. QED BY <2>3 DEF BooksExist
<1>7. ASSUME NEW t \in Threads, NEW e \in Estimates, Release(t, e) PROVE BooksExist'
  <2> DEFINE x == est[t]
  <2> DEFINE y == got[t]
  <2>1. x \in Nat /\ y \in Nat /\ MaxResponses * x \in Nat /\ pc[t] \in {"closing", "outage"}
    BY <1>7, <1>t, <1>n DEF Release, TypeOK
  <2>2. /\ pc'[t] \in {"ready", "idle"} /\ lock = NoThread /\ lock' = lock
        /\ got'[t] = 0 /\ pending' = pending - x /\ spent' = spent /\ seen' = seen
        /\ \A u \in Threads \ {t} : pc'[u] = pc[u] /\ est'[u] = est[u] /\ got'[u] = got[u]
    BY <1>7, <1>t DEF Release, TypeOK
  <2>3. /\ Held[t] = x /\ Held'[t] = 0 /\ \A u \in Threads \ {t} : Held'[u] = Held[u]
        /\ Room[t] = MaxResponses * x - y /\ Room'[t] = 0
        /\ \A u \in Threads \ {t} : Room'[u] = Room[u]
    BY <2>1, <2>2 DEF Held, Room, InFlight
  <2>4. PICK g2 : Additive(Threads, g2, Held') /\ g2[Threads] = g[Threads] - x
    <3>1. Additive(Threads, g, Held)
      BY DEF Books
    <3>2. \E k : Additive(Threads, k, Held') /\ k[Threads] = g[Threads] + Held'[t] - Held[t]
      <4>1. PICK w, v : w = Held /\ v = Held'
        OBVIOUS
      <4>2. /\ w \in [Threads -> Nat] /\ v \in [Threads -> Nat] /\ Additive(Threads, g, w)
            /\ \A u \in Threads \ {t} : v[u] = w[u]
        BY <4>1, <3>1, <1>w, <2>3
      <4>3. \E k : Additive(Threads, k, v) /\ k[Threads] = g[Threads] + v[t] - w[t]
        BY ONLY <4>2, MeasureFollows, t \in Threads
      <4>4. QED BY <4>1, <4>3
    <3>3. QED BY <3>2, <2>3, <2>1, <1>n
  <2>5. PICK h2 : /\ Additive(Threads, h2, Room')
                  /\ h2[Threads] = h[Threads] - (MaxResponses * x - y)
    <3>1. Additive(Threads, h, Room)
      BY DEF Books
    <3>2. \E k : Additive(Threads, k, Room') /\ k[Threads] = h[Threads] + Room'[t] - Room[t]
      <4>1. PICK w, v : w = Room /\ v = Room'
        OBVIOUS
      <4>2. /\ w \in [Threads -> Nat] /\ v \in [Threads -> Nat] /\ Additive(Threads, h, w)
            /\ \A u \in Threads \ {t} : v[u] = w[u]
        BY <4>1, <3>1, <1>w, <2>3
      <4>3. \E k : Additive(Threads, k, v) /\ k[Threads] = h[Threads] + v[t] - w[t]
        BY ONLY <4>2, MeasureFollows, t \in Threads
      <4>4. QED BY <4>1, <4>3
    <3>3. QED BY <3>2, <2>1, <2>3, <1>n
  <2>6. PICK r2 : Additive(Threads, r2, got') /\ r2[Threads] = r[Threads] - y
    <3>1. Additive(Threads, r, got)
      BY DEF Books
    <3>2. \E k : Additive(Threads, k, got') /\ k[Threads] = r[Threads] + got'[t] - got[t]
      <4>1. PICK w, v : w = got /\ v = got'
        OBVIOUS
      <4>2. /\ w \in [Threads -> Nat] /\ v \in [Threads -> Nat] /\ Additive(Threads, r, w)
            /\ \A u \in Threads \ {t} : v[u] = w[u]
        BY <4>1, <3>1, <1>w, <2>2
      <4>3. \E k : Additive(Threads, k, v) /\ k[Threads] = r[Threads] + v[t] - w[t]
        BY ONLY <4>2, MeasureFollows, t \in Threads
      <4>4. QED BY <4>1, <4>3
    <3>3. QED BY <3>2, <2>1, <2>2, <1>n
  <2>7. \A u \in Threads : pc'[u] # "deciding"
    BY <1>t, <2>2, NoThreadAssumption DEF LockOK
  <2>8. /\ pending = g[Threads] /\ h[Threads] = MaxResponses * g[Threads] - r[Threads]
        /\ spent + h[Threads] <= MaxResponses * Cap
    BY DEF Books
  <2>9. h2[Threads] = MaxResponses * g2[Threads] - r2[Threads]
    <3>1. MaxResponses * (g[Threads] - x) = MaxResponses * g[Threads] - MaxResponses * x
      BY <2>1, <1>n
    <3>2. MaxResponses * g[Threads] \in Nat
      BY <1>n
    <3>3. QED BY <3>1, <3>2, <2>1, <2>4, <2>5, <2>6, <2>8, <1>n
  <2>10. spent + h2[Threads] <= MaxResponses * Cap
    <3>1. MaxResponses * x - y \in Nat
      BY <1>w, <2>3
    <3>2. QED BY <3>1, <2>1, <2>5, <2>8, <1>n
  <2>11. Books(g2, r2, h2)'
    BY <2>2, <2>4, <2>5, <2>6, <2>7, <2>8, <2>9, <2>10 DEF Books, Additive
  <2>12. QED BY <2>11 DEF BooksExist
<1>8. ASSUME NEW t \in Threads, GiveUp(t) PROVE BooksExist'
  <2>1. Held' = Held /\ Room' = Room
    BY <1>8, <1>t DEF GiveUp, Held, Room, InFlight, TypeOK
  <2>2. \A u \in Threads : pc'[u] = "deciding" => pc[u] = "deciding" /\ seen'[u] = seen[u]
    BY <1>8, <1>t DEF GiveUp, TypeOK
  <2>3. Books(g, r, h)'
    BY <1>8, <1>t, <2>1, <2>2, BooksStay DEF GiveUp
  <2>4. QED BY <2>3 DEF BooksExist
<1>9. CASE UNCHANGED vars
  <2>1. Held' = Held /\ Room' = Room
    BY <1>9 DEF vars, Held, Room
  <2>2. Books(g, r, h)'
    BY <1>9, <1>t, <2>1, BooksStay DEF vars
  <2>3. QED BY <2>2 DEF BooksExist
<1>10. QED
  BY <1>1, <1>2, <1>3, <1>4, <1>5, <1>6, <1>7, <1>8, <1>9 DEF Next, ResponseCosts

-----------------------------------------------------------------------------
(* The overshoot bound, for every number of threads: whatever order calls  *)
(* are admitted, answered, failed over and returned in, a run costs at most *)
(* the cap once per response a call may take.                              *)
THEOREM BoundedOvershoot == Spec => []OvershootBounded
<1>1. Init => IInv
  BY LocalInit, BooksInit DEF IInv
<1>2. IInv /\ [Next]_vars => IInv'
  BY LocalStep, BooksStep DEF IInv
<1>3. IInv => OvershootBounded
  <2> SUFFICES ASSUME Local, BooksExist PROVE OvershootBounded
    BY DEF IInv
  <2> PICK g, r, h : Books(g, r, h)
    BY DEF BooksExist
  <2>1. h[Threads] \in Nat /\ spent \in Nat /\ spent + h[Threads] <= MaxResponses * Cap
    BY Threads \in SUBSET Threads DEF Books, Additive, Local, TypeOK
  <2>2. MaxResponses * Cap \in Nat
    BY ResponsesAssumption, CapAssumption
  <2>3. QED BY <2>1, <2>2 DEF OvershootBounded
<1>4. QED BY <1>1, <1>2, <1>3, PTL DEF Spec

-----------------------------------------------------------------------------
(* The daily cap: a call that has read the day's spend weighs on the day   *)
(* until it is recorded.  Of all such calls at once the last to read the   *)
(* table still fits under the cap by itself, and each of the others weighs *)
(* at most one worst case.                                                 *)

\* f is the sum of the weights w over sets of threads.
Sums(f, w) ==
    /\ f \in [SUBSET Callers -> Nat]
    /\ f[{}] = 0
    /\ \A T \in SUBSET Callers : \A t \in Callers \ T : f[T \cup {t}] = f[T] + w[t]

Weights == [Callers -> Nat]

\* What a thread's call holds in its client's _pending.
HeldToday == [t \in Callers |-> IF stage[t] \in {"calling", "answered", "failed"} THEN worst[t] ELSE 0]

\* What it may still add to the day: also while it decides, if the table it
\* read leaves room for it, and until its bill is recorded.
Exposed ==
    [t \in Callers |->
        IF \/ stage[t] \in {"calling", "answered", "unrecorded"}
           \/ stage[t] = "deciding" /\ spentThen[t] + worst[t] <= DailyCap
        THEN worst[t] ELSE 0]

Of(c) == {t \in Callers : Owner[t] = c}
Without(T, c) == T \ Of(c)
Bound == DailyCap + (Cardinality(Callers) - 1) * MaxEstimate

\* A call in flight fits under the cap, and its bill under its estimate.
CallsOK ==
    \A t \in Callers :
        /\ worst[t] <= MaxEstimate
        /\ stage[t] \in {"calling", "answered", "failed", "unrecorded"} => worst[t] <= DailyCap
        /\ bill[t] <= worst[t]
        /\ stage[t] = "idle" => bill[t] = 0

\* The two sums: g of what is held, p of what may still be added.
DayBooks(g, p) ==
    /\ Sums(g, HeldToday) /\ Sums(p, Exposed)
    /\ \A c \in Clients : reserved[c] = g[Of(c)]
    /\ spend[day] + p[Callers] <= Bound

\* No day is past the bound, and a day to come has no spend.
DaysOK == \A d \in 1..Days : (d < day => spend[d] <= Bound) /\ (d > day => spend[d] = 0)

DayBooksExist == \E g, p : DayBooks(g, p)

CapInv == DayTypeOK /\ CallsOK /\ DaysOK /\ DayBooksExist

-----------------------------------------------------------------------------
(* Every set of numbers that is not empty has a least one.                 *)
LEMMA LeastNumber ==
    ASSUME NEW S \in SUBSET Nat, S # {}
    PROVE  \E n \in S : \A m \in S : n <= m
<1> DEFINE R == OpToRel(<, Nat)
<1>1. IsWellFoundedOn(R, Nat)
  BY NatLessThanWellFounded, Zenon
<1> HIDE DEF R
<1>2. PICK n \in S : \A m \in S : ~(<<m, n>> \in R)
  BY <1>1, WFMin
<1>3. \A m \in S : ~(m < n)
  BY <1>2 DEF R, OpToRel
<1>4. QED BY <1>3

LEMMA CapConstants ==
    /\ Owner \in [Callers -> Clients] /\ NoCaller \notin Callers
    /\ IsFiniteSet(Callers) /\ Callers # {} /\ Cardinality(Callers) \in Nat
    /\ Cardinality(Callers) >= 1
    /\ DailyCap \in Nat /\ WorstCosts \subseteq Nat /\ Days \in Nat \ {0} /\ MaxKills \in Nat
    /\ MaxEstimate \in Nat /\ \A e \in WorstCosts : e <= MaxEstimate
<1>1. MaxEstimate \in WorstCosts /\ \A e \in WorstCosts : e <= MaxEstimate
  BY DailyAssumption DEF MaxEstimate
<1>2. Cardinality(Callers) \in Nat /\ Cardinality(Callers) # 0
  BY FS_CardinalityType, FS_EmptySet, DailyAssumption
<1>3. QED BY <1>1, <1>2, DailyAssumption

(* Adding one thread's weight.                                             *)
LEMMA SumOfOneMore ==
    ASSUME NEW f, NEW w \in Weights, Sums(f, w), NEW T \in SUBSET Callers, NEW t \in T
    PROVE  f[T] = f[T \ {t}] + w[t] /\ f[T \ {t}] \in Nat /\ f[T] \in Nat /\ w[t] \in Nat
<1>1. T \ {t} \in SUBSET Callers /\ t \in Callers \ (T \ {t}) /\ (T \ {t}) \cup {t} = T
  OBVIOUS
<1>2. QED BY <1>1 DEF Sums, Weights

(* Greater weights have the greater sums: over a least set on which they   *)
(* had not, one thread fewer would do as well.                             *)
LEMMA SumsCompare ==
    ASSUME IsFiniteSet(Callers),
           NEW f, NEW w \in Weights, Sums(f, w),
           NEW k, NEW v \in Weights, Sums(k, v),
           \A t \in Callers : v[t] <= w[t]
    PROVE  \A T \in SUBSET Callers : k[T] <= f[T]
<1> DEFINE Bad == {T \in SUBSET Callers : ~(k[T] <= f[T])}
<1> DEFINE Sizes == {Cardinality(T) : T \in Bad}
<1>1. \A T \in SUBSET Callers : IsFiniteSet(T) /\ Cardinality(T) \in Nat
  BY FS_Subset, FS_CardinalityType
<1>2. SUFFICES ASSUME Bad # {} PROVE FALSE
  OBVIOUS
<1>3. Sizes \in SUBSET Nat /\ Sizes # {}
  BY <1>1, <1>2
<1>4. PICK n \in Sizes : \A m \in Sizes : n <= m
  BY <1>3, LeastNumber
<1>5. PICK T \in Bad : n = Cardinality(T)
  BY <1>4
<1>6. T # {}
  <2>1. k[{}] = 0 /\ f[{}] = 0
    BY DEF Sums
  <2>2. ~(k[T] <= f[T])
    OBVIOUS
  <2>3. QED BY <2>1, <2>2
<1>7. PICK t \in T : TRUE
  BY <1>6
<1>8. Cardinality(T \ {t}) = Cardinality(T) - 1 /\ T \ {t} \in SUBSET Callers
  BY <1>1, <1>7, FS_RemoveElement
<1>9. T \ {t} \notin Bad
  <2>1. SUFFICES ASSUME T \ {t} \in Bad PROVE FALSE
    OBVIOUS
  <2>2. Cardinality(T \ {t}) \in Sizes
    BY <2>1
  <2>3. n <= Cardinality(T \ {t}) /\ Cardinality(T) \in Nat
    BY <1>1, <1>4, <2>2
  <2>4. QED BY <1>5, <1>8, <2>3
<1>10. k[T \ {t}] <= f[T \ {t}]
  BY <1>8, <1>9
<1>11. /\ f[T] = f[T \ {t}] + w[t] /\ f[T \ {t}] \in Nat /\ w[t] \in Nat
  BY <1>7, SumOfOneMore
<1>12. k[T] = k[T \ {t}] + v[t] /\ k[T \ {t}] \in Nat /\ v[t] \in Nat
  BY <1>7, SumOfOneMore
<1>13. v[t] <= w[t]
  BY <1>7
<1>14. k[T] <= f[T]
  BY <1>10, <1>11, <1>12, <1>13
<1>15. QED BY <1>14

(* Weights of at most m sum to at most m for each thread.                   *)
LEMMA SumIsBounded ==
    ASSUME IsFiniteSet(Callers), NEW f, NEW w \in Weights, Sums(f, w),
           NEW m \in Nat, \A t \in Callers : w[t] <= m
    PROVE  \A T \in SUBSET Callers : f[T] <= Cardinality(T) * m
<1> DEFINE v == [t \in Callers |-> m]
<1> DEFINE k == [T \in SUBSET Callers |-> Cardinality(T) * m]
<1>1. \A T \in SUBSET Callers : IsFiniteSet(T) /\ Cardinality(T) \in Nat
  BY FS_Subset, FS_CardinalityType
<1>2. k \in [SUBSET Callers -> Nat]
  BY <1>1
<1>3. k[{}] = 0
  BY FS_EmptySet
<1>4. ASSUME NEW T \in SUBSET Callers, NEW t \in Callers \ T
      PROVE  k[T \cup {t}] = k[T] + v[t]
  <2>1. Cardinality(T \cup {t}) = Cardinality(T) + 1 /\ T \cup {t} \in SUBSET Callers
    BY <1>1, FS_AddElement
  <2>2. Cardinality(T) \in Nat
    BY <1>1
  <2>3. (Cardinality(T) + 1) * m = Cardinality(T) * m + m
    BY <2>2
  <2>4. QED BY <2>1, <2>3
<1>5. Sums(k, v) /\ v \in Weights
  BY <1>2, <1>3, <1>4 DEF Sums, Weights
<1>6. \A t \in Callers : w[t] <= v[t]
  OBVIOUS
<1> HIDE DEF v, k
<1>7. \A T \in SUBSET Callers : f[T] <= k[T]
  BY <1>5, <1>6, SumsCompare
<1>8. QED BY <1>7 DEF k

(* The sum follows when one thread's weight changes ...                     *)
LEMMA SumFollows ==
    ASSUME NEW f, NEW w \in Weights, Sums(f, w), NEW v \in Weights,
           NEW t \in Callers, \A u \in Callers \ {t} : v[u] = w[u]
    PROVE  \E k : /\ Sums(k, v)
                  /\ \A T \in SUBSET Callers : k[T] = IF t \in T THEN f[T] - w[t] + v[t] ELSE f[T]
<1>0. \A T \in SUBSET Callers : t \in T =>
        f[T] = f[T \ {t}] + w[t] /\ f[T \ {t}] \in Nat /\ w[t] \in Nat
  BY SumOfOneMore
<1> DEFINE k == [T \in SUBSET Callers |-> IF t \in T THEN f[T \ {t}] + v[t] ELSE f[T]]
<1>1. k \in [SUBSET Callers -> Nat]
  <2>1. \A T \in SUBSET Callers : f[T] \in Nat /\ f[T \ {t}] \in Nat /\ v[t] \in Nat
    BY DEF Sums, Weights
  <2>2. ASSUME NEW T \in SUBSET Callers
        PROVE  (IF t \in T THEN f[T \ {t}] + v[t] ELSE f[T]) \in Nat
    <3>1. PICK a, b, c : a = f[T] /\ b = f[T \ {t}] /\ c = v[t]
      OBVIOUS
    <3>2. a \in Nat /\ b \in Nat /\ c \in Nat
      BY <2>1, <3>1
    <3>3. b + c \in Nat
      BY ONLY <3>2
    <3>4. QED BY <3>1, <3>2, <3>3
  <2>3. QED BY ONLY <2>2
<1>2. k[{}] = 0
  BY DEF Sums
<1>3. ASSUME NEW T \in SUBSET Callers, NEW x \in Callers \ T
      PROVE  k[T \cup {x}] = k[T] + v[x]
  <2>1. CASE x = t
    <3>1. (T \cup {x}) \ {t} = T /\ T \cup {x} \in SUBSET Callers /\ t \notin T /\ t \in T \cup {x}
      BY <2>1
    <3>2. QED BY <2>1, <3>1
  <2>2. CASE x # t /\ t \in T
    <3>1. (T \cup {x}) \ {t} = (T \ {t}) \cup {x} /\ T \cup {x} \in SUBSET Callers
      BY <2>2
    <3>2. f[(T \ {t}) \cup {x}] = f[T \ {t}] + w[x] /\ f[T \ {t}] \in Nat /\ v[x] = w[x]
      BY <2>2 DEF Sums
    <3>3. v[t] \in Nat /\ w[x] \in Nat
      BY DEF Weights
    <3>4. k[T \cup {x}] = f[T \ {t}] + w[x] + v[t] /\ k[T] = f[T \ {t}] + v[t]
      BY <2>2, <3>1, <3>2
    <3>5. QED BY <3>2, <3>3, <3>4
  <2>3. CASE x # t /\ t \notin T
    <3>1. T \cup {x} \in SUBSET Callers /\ t \notin T \cup {x} /\ v[x] = w[x]
      BY <2>3
    <3>2. QED BY <2>3, <3>1 DEF Sums
  <2>4. QED BY <2>1, <2>2, <2>3
<1>4. \A T \in SUBSET Callers : k[T] = IF t \in T THEN f[T] - w[t] + v[t] ELSE f[T]
  <2>1. ASSUME NEW T \in SUBSET Callers, t \in T
        PROVE  k[T] = f[T] - w[t] + v[t]
    <3>1. f[T] = f[T \ {t}] + w[t] /\ f[T \ {t}] \in Nat /\ w[t] \in Nat
      BY <2>1, <1>0
    <3>2. v[t] \in Nat
      BY DEF Weights
    <3>3. k[T] = f[T \ {t}] + v[t]
      BY <2>1
    <3>4. QED BY <3>1, <3>2, <3>3
  <2>2. QED BY <2>1
<1> HIDE DEF k
<1>5. Sums(k, v)
  BY <1>1, <1>2, <1>3 DEF Sums
<1>6. QED BY <1>4, <1>5

(* ... and when a client's threads lose theirs.                             *)
LEMMA SumForgets ==
    ASSUME NEW f, NEW w \in Weights, Sums(f, w), NEW c, NEW v \in Weights,
           \A t \in Of(c) : v[t] = 0, \A t \in Callers \ Of(c) : v[t] = w[t]
    PROVE  \E k : Sums(k, v) /\ \A T \in SUBSET Callers : k[T] = f[Without(T, c)]
<1> DEFINE k == [T \in SUBSET Callers |-> f[T \ Of(c)]]
<1>1. k \in [SUBSET Callers -> Nat]
  BY DEF Sums
<1>2. k[{}] = 0
  <2>1. {} \ Of(c) = {} /\ {} \in SUBSET Callers
    OBVIOUS
  <2>2. QED BY <2>1 DEF Sums
<1>3. ASSUME NEW T \in SUBSET Callers, NEW x \in Callers \ T
      PROVE  k[T \cup {x}] = k[T] + v[x]
  <2>0. k[T \cup {x}] = f[(T \cup {x}) \ Of(c)] /\ k[T] = f[T \ Of(c)] /\ f[T \ Of(c)] \in Nat
    BY DEF Sums
  <2>1. CASE x \in Of(c)
    <3>1. (T \cup {x}) \ Of(c) = T \ Of(c) /\ v[x] = 0
      BY <2>1
    <3>2. k[T \cup {x}] = f[T \ Of(c)]
      BY <2>0, <3>1
    <3>3. QED BY <2>0, <3>1, <3>2
  <2>2. CASE x \notin Of(c)
    <3>1. (T \cup {x}) \ Of(c) = (T \ Of(c)) \cup {x} /\ x \in Callers \ (T \ Of(c)) /\ v[x] = w[x]
      BY <2>2
    <3>2. f[(T \ Of(c)) \cup {x}] = f[T \ Of(c)] + w[x]
      BY <3>1 DEF Sums
    <3>3. QED BY <2>0, <3>1, <3>2
  <2>3. QED BY <2>1, <2>2
<1>4. \A T \in SUBSET Callers : k[T] = f[T \ Of(c)]
  OBVIOUS
<1> HIDE DEF k
<1>5. QED BY <1>1, <1>2, <1>3, <1>4 DEF Sums, Without

-----------------------------------------------------------------------------
LEMMA CapTypeStep == ASSUME DayTypeOK, [DayNext]_dayVars PROVE DayTypeOK'
<1>0. /\ Owner \in [Callers -> Clients] /\ DailyCap \in Nat /\ WorstCosts \subseteq Nat /\ Days \in Nat
      /\ MaxKills \in Nat
  BY CapConstants
<1> USE DEF DayTypeOK
<1>1. ASSUME NEW t \in Callers, NEW e \in WorstCosts, Complete(t, e) PROVE DayTypeOK'
  BY <1>0, <1>1 DEF Complete, Goto
<1>2. ASSUME NEW t \in Callers, ReadSpend(t) PROVE DayTypeOK'
  BY <1>0, <1>2 DEF ReadSpend, Goto
<1>3. ASSUME NEW t \in Callers, RefuseCall(t) PROVE DayTypeOK'
  BY <1>0, <1>3 DEF RefuseCall, Goto
<1>4. ASSUME NEW t \in Callers, Reserve(t) PROVE DayTypeOK'
  BY <1>0, <1>4 DEF Reserve, Goto
<1>5. ASSUME NEW t \in Callers, NEW cost \in 0..worst[t], Answer(t, cost) PROVE DayTypeOK'
  BY <1>0, <1>5 DEF Answer, Goto
<1>6. ASSUME NEW t \in Callers, Fail(t) PROVE DayTypeOK'
  BY <1>0, <1>6 DEF Fail, Goto
<1>7. ASSUME NEW t \in Callers, ReleaseCall(t) PROVE DayTypeOK'
  <2>1. reserved' \in [Clients -> Int]
    BY <1>0, <1>7 DEF ReleaseCall
  <2>2. /\ stage' \in [Callers -> {"idle", "reserving", "deciding", "refused",
                              "calling", "answered", "failed", "unrecorded"}]
        /\ worst' \in [Callers -> Nat] /\ bill' \in [Callers -> Nat]
    <3>1. CASE stage[t] = "answered"
      BY <1>7, <3>1 DEF ReleaseCall, Goto
    <3>2. CASE stage[t] # "answered"
      <4>1. /\ stage' = [stage EXCEPT ![t] = "idle"] /\ worst' = [worst EXCEPT ![t] = 0]
            /\ bill' = [bill EXCEPT ![t] = 0]
        BY <1>7, <3>2 DEF ReleaseCall, Goto, Done
      <4>2. QED BY <4>1
    <3>3. QED BY <3>1, <3>2
  <2>3. QED BY <1>7, <2>1, <2>2 DEF ReleaseCall
<1>8. ASSUME NEW t \in Callers, Record(t) PROVE DayTypeOK'
  <2>1. spend' \in [1..Days -> Nat]
    BY <1>8 DEF Record
  <2>2. /\ stage' = [stage EXCEPT ![t] = "idle"] /\ worst' = [worst EXCEPT ![t] = 0]
        /\ bill' = [bill EXCEPT ![t] = 0]
    BY <1>8 DEF Record, Goto, Done
  <2>3. QED BY <1>8, <2>1, <2>2 DEF Record
<1>9. ASSUME NEW t \in Callers, LeaveRefused(t) PROVE DayTypeOK'
  BY <1>0, <1>9 DEF LeaveRefused, Goto, Done
<1>10. CASE Midnight
  BY <1>0, <1>10 DEF Midnight
<1>11. ASSUME NEW c \in Clients, Kill(c) PROVE DayTypeOK'
  BY <1>0, <1>11 DEF Kill
<1>12. CASE UNCHANGED dayVars
  BY <1>12 DEF dayVars
<1> HIDE DEF DayTypeOK
<1>13. QED
  BY <1>1, <1>2, <1>3, <1>4, <1>5, <1>6, <1>7, <1>8, <1>9, <1>10, <1>11, <1>12 DEF DayNext

(* A call in flight was let through under the cap by what it had read.      *)
LEMMA CallsStep ==
    ASSUME DayTypeOK, CallsOK, [DayNext]_dayVars, \A c \in Clients : reserved[c] >= 0
    PROVE  CallsOK'
<1>0. /\ Owner \in [Callers -> Clients] /\ DailyCap \in Nat /\ WorstCosts \subseteq Nat
      /\ MaxEstimate \in Nat /\ \A e \in WorstCosts : e <= MaxEstimate
  BY CapConstants
<1>t. /\ stage \in [Callers -> {"idle", "reserving", "deciding", "refused",
                            "calling", "answered", "failed", "unrecorded"}]
      /\ worst \in [Callers -> Nat] /\ spentThen \in [Callers -> Nat]
      /\ bill \in [Callers -> Nat] /\ reserved \in [Clients -> Int]
  BY DEF DayTypeOK
<1> USE DEF CallsOK
<1>1. ASSUME NEW t \in Callers, NEW e \in WorstCosts, Complete(t, e) PROVE CallsOK'
  <2>1. bill' = bill /\ stage' = [stage EXCEPT ![t] = "reserving"] /\ worst' = [worst EXCEPT ![t] = e] /\ stage[t] = "idle"
    BY <1>1 DEF Complete, Goto
  <2>2. bill[t] = 0
    BY <2>1
  <2>3. QED BY <1>0, <1>t, <2>1, <2>2
<1>2. ASSUME NEW t \in Callers, ReadSpend(t) PROVE CallsOK'
  BY <1>0, <1>t, <1>2 DEF ReadSpend, Goto
<1>3. ASSUME NEW t \in Callers, RefuseCall(t) PROVE CallsOK'
  BY <1>0, <1>t, <1>3 DEF RefuseCall, Goto
<1>4. ASSUME NEW t \in Callers, Reserve(t) PROVE CallsOK'
  <2>1. worst' = worst /\ bill' = bill /\ stage' = [stage EXCEPT ![t] = "calling"]
    BY <1>4 DEF Reserve, Goto
  <2>2. spentThen[t] + reserved[Owner[t]] + worst[t] <= DailyCap /\ reserved[Owner[t]] >= 0
    BY <1>0, <1>t, <1>4 DEF Reserve, PastTheCap
  <2>3. worst[t] <= DailyCap
    BY <1>0, <1>t, <2>2
  <2>4. QED BY <1>t, <2>1, <2>3
<1>5. ASSUME NEW t \in Callers, NEW cost \in 0..worst[t], Answer(t, cost) PROVE CallsOK'
  BY <1>0, <1>t, <1>5 DEF Answer, Goto
<1>6. ASSUME NEW t \in Callers, Fail(t) PROVE CallsOK'
  BY <1>0, <1>t, <1>6 DEF Fail, Goto
<1>7. ASSUME NEW t \in Callers, ReleaseCall(t) PROVE CallsOK'
  BY <1>0, <1>t, <1>7 DEF ReleaseCall, Goto, Done
<1>8. ASSUME NEW t \in Callers, Record(t) PROVE CallsOK'
  BY <1>0, <1>t, <1>8 DEF Record, Goto, Done
<1>9. ASSUME NEW t \in Callers, LeaveRefused(t) PROVE CallsOK'
  BY <1>0, <1>t, <1>9 DEF LeaveRefused, Goto, Done
<1>10. CASE Midnight
  BY <1>10 DEF Midnight
<1>11. ASSUME NEW c \in Clients, Kill(c) PROVE CallsOK'
  BY <1>0, <1>t, <1>11 DEF Kill
<1>12. CASE UNCHANGED dayVars
  BY <1>12 DEF dayVars
<1> HIDE DEF CallsOK
<1>13. QED
  BY <1>1, <1>2, <1>3, <1>4, <1>5, <1>6, <1>7, <1>8, <1>9, <1>10, <1>11, <1>12 DEF DayNext

-----------------------------------------------------------------------------
LEMMA DayWeightTypes ==
    ASSUME DayTypeOK, CallsOK
    PROVE  /\ HeldToday \in Weights /\ Exposed \in Weights
           /\ \A t \in Callers : Exposed[t] <= worst[t]
<1>1. \A t \in Callers : worst[t] \in Nat
  BY DEF DayTypeOK
<1>2. QED BY <1>1 DEF HeldToday, Exposed, Weights

(* What the other threads may add is bounded by one worst case each.        *)
LEMMA OthersAreBounded ==
    ASSUME DayTypeOK, CallsOK, NEW p, Sums(p, Exposed), NEW t \in Callers
    PROVE  /\ p[Callers] - Exposed[t] <= (Cardinality(Callers) - 1) * MaxEstimate
           /\ p[Callers] \in Nat /\ Exposed[t] \in Nat
           /\ (Cardinality(Callers) - 1) * MaxEstimate \in Nat
<1>1. Exposed \in Weights /\ \A u \in Callers : Exposed[u] <= MaxEstimate /\ worst[u] \in Nat
  <2>1. \A u \in Callers : worst[u] <= MaxEstimate /\ worst[u] \in Nat /\ Exposed[u] \in Nat /\ Exposed[u] <= worst[u]
    BY DayWeightTypes DEF CallsOK, DayTypeOK, Weights
  <2>2. MaxEstimate \in Nat
    BY CapConstants
  <2>3. QED BY <2>1, <2>2, DayWeightTypes
<1>2. MaxEstimate \in Nat /\ IsFiniteSet(Callers) /\ Cardinality(Callers) \in Nat /\ Cardinality(Callers) >= 1
  BY CapConstants
<1>3. \A T \in SUBSET Callers : p[T] <= Cardinality(T) * MaxEstimate
  BY <1>1, <1>2, SumIsBounded
<1>4. Cardinality(Callers \ {t}) = Cardinality(Callers) - 1
  BY <1>2, FS_RemoveElement
<1>5. p[Callers \ {t}] <= (Cardinality(Callers) - 1) * MaxEstimate
  BY <1>3, <1>4, Callers \ {t} \in SUBSET Callers
<1>6. /\ p[Callers] = p[Callers \ {t}] + Exposed[t]
      /\ p[Callers \ {t}] \in Nat /\ p[Callers] \in Nat /\ Exposed[t] \in Nat
  <2>1. \A S \in SUBSET Callers : t \notin S /\ S \cup {t} = Callers =>
            p[Callers] = p[S] + Exposed[t] /\ p[S] \in Nat
    BY DEF Sums
  <2>2. /\ Callers \ {t} \in SUBSET Callers /\ t \notin Callers \ {t}
        /\ (Callers \ {t}) \cup {t} = Callers
    OBVIOUS
  <2>3. Exposed[t] \in Nat
    BY <1>1 DEF Weights
  <2>4. QED BY <2>1, <2>2, <2>3
<1>7. (Cardinality(Callers) - 1) * MaxEstimate \in Nat
  <2>1. Cardinality(Callers) - 1 \in Nat
    BY <1>2
  <2>2. \A n \in Nat : n * MaxEstimate \in Nat
    BY <1>2
  <2>3. QED BY <2>1, <2>2
<1>8. QED BY <1>5, <1>6, <1>7

(* A step of one thread keeps the books when its client's _pending follows  *)
(* what it holds, and either what it was weighed for turns into spend, or   *)
(* it fits under the cap with the spend it has just read.                   *)
LEMMA BooksFollow ==
    ASSUME DayTypeOK, CallsOK, DayTypeOK', CallsOK', DayBooksExist, NEW t \in Callers,
           \A u \in Callers \ {t} : HeldToday'[u] = HeldToday[u] /\ Exposed'[u] = Exposed[u],
           \A c \in Clients : reserved'[c] = IF c = Owner[t] THEN reserved[c] - HeldToday[t] + HeldToday'[t] ELSE reserved[c],
           \/ spend'[day'] + Exposed'[t] <= spend[day] + Exposed[t]
           \/ spend'[day'] + Exposed'[t] <= DailyCap
    PROVE  DayBooksExist'
<1>1. PICK g, p : DayBooks(g, p)
  BY DEF DayBooksExist
<1>2. HeldToday \in Weights /\ Exposed \in Weights
  BY DayWeightTypes
<1>3. HeldToday' \in Weights /\ Exposed' \in Weights
  <2>1. (HeldToday \in Weights /\ Exposed \in Weights)'
    BY DayWeightTypes, PTL
  <2>2. QED BY <2>1 DEF Weights
<1>4. \E k : /\ Sums(k, HeldToday')
             /\ \A T \in SUBSET Callers : k[T] = IF t \in T THEN g[T] - HeldToday[t] + HeldToday'[t] ELSE g[T]
  <2>1. PICK w, v : w = HeldToday /\ v = HeldToday'
    OBVIOUS
  <2>2. w \in Weights /\ v \in Weights /\ Sums(g, w) /\ \A u \in Callers \ {t} : v[u] = w[u]
    BY <1>1, <1>2, <1>3, <2>1 DEF DayBooks
  <2>3. \E k : /\ Sums(k, v)
               /\ \A T \in SUBSET Callers : k[T] = IF t \in T THEN g[T] - w[t] + v[t] ELSE g[T]
    BY ONLY <2>2, SumFollows, t \in Callers
  <2>4. QED BY <2>1, <2>3
<1>5. \E k : /\ Sums(k, Exposed')
             /\ \A T \in SUBSET Callers : k[T] = IF t \in T THEN p[T] - Exposed[t] + Exposed'[t] ELSE p[T]
  <2>1. PICK w, v : w = Exposed /\ v = Exposed'
    OBVIOUS
  <2>2. w \in Weights /\ v \in Weights /\ Sums(p, w) /\ \A u \in Callers \ {t} : v[u] = w[u]
    BY <1>1, <1>2, <1>3, <2>1 DEF DayBooks
  <2>3. \E k : /\ Sums(k, v)
               /\ \A T \in SUBSET Callers : k[T] = IF t \in T THEN p[T] - w[t] + v[t] ELSE p[T]
    BY ONLY <2>2, SumFollows, t \in Callers
  <2>4. QED BY <2>1, <2>3
<1>6. PICK g2 : /\ Sums(g2, HeldToday')
                /\ \A T \in SUBSET Callers : g2[T] = IF t \in T THEN g[T] - HeldToday[t] + HeldToday'[t] ELSE g[T]
  BY <1>4
<1>7. PICK p2 : /\ Sums(p2, Exposed')
                /\ \A T \in SUBSET Callers : p2[T] = IF t \in T THEN p[T] - Exposed[t] + Exposed'[t] ELSE p[T]
  BY <1>5
<1>8. \A c \in Clients : reserved'[c] = g2[Of(c)]
  <2>1. ASSUME NEW c \in Clients PROVE reserved'[c] = g2[Of(c)]
    <3>1. Of(c) \in SUBSET Callers /\ (t \in Of(c) <=> c = Owner[t]) /\ reserved[c] = g[Of(c)]
      BY <1>1 DEF Of, DayBooks
    <3>2. QED BY <1>6, <3>1
  <2>2. QED BY <2>1
<1>9. p2[Callers] = p[Callers] - Exposed[t] + Exposed'[t]
  BY <1>7, Callers \in SUBSET Callers
<1>10. spend'[day'] + p2[Callers] <= Bound
  <2>1. Sums(p, Exposed) /\ spend[day] + p[Callers] <= Bound
    BY <1>1 DEF DayBooks
  <2>2. /\ p[Callers] - Exposed[t] <= (Cardinality(Callers) - 1) * MaxEstimate
        /\ p[Callers] \in Nat /\ Exposed[t] \in Nat
        /\ (Cardinality(Callers) - 1) * MaxEstimate \in Nat
    BY <2>1, OthersAreBounded
  <2>3. spend[day] \in Nat /\ spend'[day'] \in Nat /\ Exposed'[t] \in Nat /\ DailyCap \in Nat
    BY <1>3, CapConstants DEF DayTypeOK, Weights
  <2>4. Bound \in Nat
    BY <2>2, <2>3 DEF Bound
  <2>5. CASE spend'[day'] + Exposed'[t] <= spend[day] + Exposed[t]
    BY <1>9, <2>1, <2>2, <2>3, <2>4, <2>5
  <2>6. CASE spend'[day'] + Exposed'[t] <= DailyCap
    BY <1>9, <2>2, <2>3, <2>6 DEF Bound
  <2>7. QED BY <2>5, <2>6
<1>11. (DayBooks(g2, p2))'
  BY <1>6, <1>7, <1>8, <1>10 DEF DayBooks, Sums, Of, Bound
<1>12. QED BY <1>11 DEF DayBooksExist


LEMMA PendingIsHeld == ASSUME DayBooksExist PROVE \A c \in Clients : reserved[c] >= 0
<1>1. PICK g, p : DayBooks(g, p)
  BY DEF DayBooksExist
<1>2. \A c \in Clients : reserved[c] = g[Of(c)] /\ Of(c) \in SUBSET Callers
  BY <1>1 DEF DayBooks, Of
<1>3. g \in [SUBSET Callers -> Nat]
  BY <1>1 DEF DayBooks, Sums
<1>4. QED BY <1>2, <1>3

LEMMA BooksStart == ASSUME DayInit PROVE DayBooksExist
<1> DEFINE z == [T \in SUBSET Callers |-> 0]
<1>1. HeldToday = [t \in Callers |-> 0] /\ Exposed = [t \in Callers |-> 0]
  BY DEF DayInit, HeldToday, Exposed
<1>2. \A w : w = [t \in Callers |-> 0] => Sums(z, w)
  BY DEF Sums
<1>3. \A T \in SUBSET Callers : z[T] = 0
  OBVIOUS
<1> HIDE DEF z
<1>4. \A c \in Clients : reserved[c] = z[Of(c)]
  BY <1>3 DEF DayInit, Of
<1>5. spend[day] = 0 /\ z[Callers] = 0
  BY <1>3, CapConstants DEF DayInit
<1>6. 0 <= Bound
  <2>1. /\ DailyCap \in Nat /\ Cardinality(Callers) - 1 \in Nat /\ MaxEstimate \in Nat
    BY CapConstants
  <2>2. \A n, m \in Nat : n * m \in Nat
    OBVIOUS
  <2>3. (Cardinality(Callers) - 1) * MaxEstimate \in Nat
    BY <2>1, <2>2
  <2>4. QED BY <2>1, <2>3 DEF Bound
<1>7. DayBooks(z, z)
  BY <1>1, <1>2, <1>4, <1>5, <1>6 DEF DayBooks
<1>8. QED BY <1>7 DEF DayBooksExist

(* The process of a client dies: what it held and had not recorded is gone. *)
LEMMA BooksKill ==
    ASSUME DayTypeOK, CallsOK, DayTypeOK', CallsOK', DayBooksExist, NEW c \in Clients, Kill(c)
    PROVE  DayBooksExist'
<1>1. PICK g, p : DayBooks(g, p)
  BY DEF DayBooksExist
<1>2. HeldToday \in Weights /\ Exposed \in Weights
  BY DayWeightTypes
<1>3. HeldToday' \in Weights /\ Exposed' \in Weights
  <2>1. (HeldToday \in Weights /\ Exposed \in Weights)'
    BY DayWeightTypes, PTL
  <2>2. QED BY <2>1 DEF Weights
<1>4. /\ \A t \in Callers : stage'[t] = IF t \in Of(c) THEN "idle" ELSE stage[t]
      /\ \A t \in Callers : worst'[t] = IF t \in Of(c) THEN 0 ELSE worst[t]
      /\ \A t \in Callers : spentThen'[t] = IF t \in Of(c) THEN 0 ELSE spentThen[t]
      /\ reserved' = [reserved EXCEPT ![c] = 0] /\ spend' = spend /\ day' = day
      /\ Of(c) \in SUBSET Callers
  BY DEF Kill, Of
<1>5. /\ \A t \in Callers : HeldToday'[t] = IF t \in Of(c) THEN 0 ELSE HeldToday[t]
      /\ \A t \in Callers : Exposed'[t] = IF t \in Of(c) THEN 0 ELSE Exposed[t]
  BY <1>4 DEF HeldToday, Exposed
<1>6. \E k : Sums(k, HeldToday') /\ \A T \in SUBSET Callers : k[T] = g[Without(T, c)]
  <2>1. PICK w, v : w = HeldToday /\ v = HeldToday'
    OBVIOUS
  <2>2. /\ w \in Weights /\ v \in Weights /\ Sums(g, w)
        /\ \A t \in Of(c) : v[t] = 0
        /\ \A t \in Callers \ Of(c) : v[t] = w[t]
    BY <1>1, <1>2, <1>3, <1>4, <1>5, <2>1 DEF DayBooks
  <2>3. \E k : Sums(k, v) /\ \A T \in SUBSET Callers : k[T] = g[Without(T, c)]
    BY ONLY <2>2, SumForgets
  <2>4. QED BY <2>1, <2>3
<1>7. \E k : Sums(k, Exposed') /\ k[Callers] <= p[Callers]
  <2>1. PICK w, v : w = Exposed /\ v = Exposed'
    OBVIOUS
  <2>2. /\ w \in Weights /\ v \in Weights /\ Sums(p, w)
        /\ \A t \in Of(c) : v[t] = 0
        /\ \A t \in Callers \ Of(c) : v[t] = w[t]
    BY <1>1, <1>2, <1>3, <1>4, <1>5, <2>1 DEF DayBooks
  <2>3. \E k : Sums(k, v) /\ \A T \in SUBSET Callers : k[T] = p[Without(T, c)]
    BY ONLY <2>2, SumForgets
  <2>4. PICK k : Sums(k, v)
    BY <2>3
  <2>5. \A t \in Callers : v[t] <= w[t]
    BY <2>2 DEF Weights
  <2>6. IsFiniteSet(Callers)
    BY CapConstants
  <2>7. \A T \in SUBSET Callers : k[T] <= p[T]
    BY ONLY <2>2, <2>4, <2>5, <2>6, SumsCompare
  <2>8. QED BY <2>1, <2>4, <2>7
<1>8. PICK g2 : Sums(g2, HeldToday') /\ \A T \in SUBSET Callers : g2[T] = g[Without(T, c)]
  BY <1>6
<1>9. PICK p2 : Sums(p2, Exposed') /\ p2[Callers] <= p[Callers]
  BY <1>7
<1>10. \A x \in Clients : reserved'[x] = g2[Of(x)]
  <2>1. ASSUME NEW x \in Clients PROVE reserved'[x] = g2[Of(x)]
    <3>1. Of(x) \in SUBSET Callers /\ g2[Of(x)] = g[Of(x) \ Of(c)]
      BY <1>8 DEF Of, Without
    <3>2. reserved \in [Clients -> Int] /\ reserved[x] = g[Of(x)] /\ g[{}] = 0
      BY <1>1 DEF DayTypeOK, DayBooks, Sums
    <3>3. CASE x = c
      <4>1. Of(x) \ Of(c) = {}
        BY <3>3
      <4>2. QED BY <1>4, <3>1, <3>2, <3>3, <4>1
    <3>4. CASE x # c
      <4>1. Of(x) \ Of(c) = Of(x)
        BY <3>4 DEF Of
      <4>2. QED BY <1>4, <3>1, <3>2, <3>4, <4>1
    <3>5. QED BY <3>3, <3>4
  <2>2. QED BY <2>1
<1>11. spend'[day'] + p2[Callers] <= Bound
  <2>1. spend[day] + p[Callers] <= Bound /\ p[Callers] \in Nat /\ p2[Callers] \in Nat
    BY <1>1, <1>9, Callers \in SUBSET Callers DEF DayBooks, Sums
  <2>2. spend[day] \in Nat
    BY DEF DayTypeOK
  <2>3. Bound \in Int
    <3>1. DailyCap \in Int /\ Cardinality(Callers) - 1 \in Int /\ MaxEstimate \in Int
      BY CapConstants
    <3>2. \A n, m \in Int : n * m \in Int
      OBVIOUS
    <3>3. (Cardinality(Callers) - 1) * MaxEstimate \in Int
      BY <3>1, <3>2
    <3>4. QED BY <3>1, <3>3 DEF Bound
  <2>4. QED BY <1>4, <1>9, <2>1, <2>2, <2>3
<1>12. (DayBooks(g2, p2))'
  BY <1>8, <1>9, <1>10, <1>11 DEF DayBooks, Sums, Of, Bound
<1>13. QED BY <1>12 DEF DayBooksExist

(* Midnight: the new day has no spend yet, and of the calls still open one  *)
(* fits under the cap by itself.                                           *)
LEMMA BooksMidnight ==
    ASSUME DayTypeOK, CallsOK, DaysOK, DayBooksExist, Midnight
    PROVE  DayBooksExist'
<1>1. PICK g, p : DayBooks(g, p)
  BY DEF DayBooksExist
<1>2. PICK t \in Callers : TRUE
  BY CapConstants
<1>3. Exposed[t] \in Nat /\ Exposed[t] <= DailyCap /\ DailyCap \in Nat
  <2>1. worst[t] \in Nat /\ DailyCap \in Nat /\ spentThen[t] \in Nat
    BY CapConstants DEF DayTypeOK
  <2>2. stage[t] \in {"calling", "answered", "failed", "unrecorded"} => worst[t] <= DailyCap
    BY DEF CallsOK
  <2>3. QED BY <2>1, <2>2 DEF Exposed
<1>4. /\ p[Callers] - Exposed[t] <= (Cardinality(Callers) - 1) * MaxEstimate
      /\ p[Callers] \in Nat /\ (Cardinality(Callers) - 1) * MaxEstimate \in Nat
  BY <1>1, OthersAreBounded DEF DayBooks
<1>5. spend[day + 1] = 0
  <2>1. day \in 1..Days /\ day < Days /\ Days \in Nat
    BY CapConstants DEF Midnight, DayTypeOK
  <2>2. day + 1 \in 1..Days /\ day + 1 > day
    BY <2>1
  <2>3. QED BY <2>2 DEF DaysOK
<1>6. 0 + p[Callers] <= Bound
  BY <1>3, <1>4 DEF Bound
<1>7. HeldToday' = HeldToday /\ Exposed' = Exposed /\ reserved' = reserved /\ spend' = spend /\ day' = day + 1
  BY DEF Midnight, HeldToday, Exposed
<1>8. (DayBooks(g, p))'
  BY <1>1, <1>5, <1>6, <1>7 DEF DayBooks, Sums, Of, Bound
<1>9. QED BY <1>8 DEF DayBooksExist


LEMMA DayBooksStep ==
    ASSUME DayTypeOK, CallsOK, DaysOK, DayTypeOK', CallsOK', DayBooksExist, [DayNext]_dayVars
    PROVE  DayBooksExist'
<1>0. /\ Owner \in [Callers -> Clients] /\ DailyCap \in Nat /\ WorstCosts \subseteq Nat
  BY CapConstants
<1>t. /\ stage \in [Callers -> {"idle", "reserving", "deciding", "refused",
                            "calling", "answered", "failed", "unrecorded"}]
      /\ worst \in [Callers -> Nat] /\ spentThen \in [Callers -> Nat] /\ bill \in [Callers -> Nat]
      /\ reserved \in [Clients -> Int] /\ spend \in [1..Days -> Nat] /\ day \in 1..Days
  BY DEF DayTypeOK
<1>w. /\ \A t \in Callers : HeldToday[t] \in Nat /\ Exposed[t] \in Nat
      /\ spend[day] \in Nat
  BY <1>t, DayWeightTypes DEF Weights
<1>p. \A c \in Clients : reserved[c] >= 0
  BY PendingIsHeld
\* Where one thread's call moves.
<1>m. ASSUME NEW t \in Callers,
             \A u \in Callers \ {t} : stage'[u] = stage[u] /\ worst'[u] = worst[u] /\ spentThen'[u] = spentThen[u],
             \A c \in Clients : reserved'[c] = IF c = Owner[t] THEN reserved[c] - HeldToday[t] + HeldToday'[t] ELSE reserved[c],
             \/ spend'[day'] + Exposed'[t] <= spend[day] + Exposed[t]
             \/ spend'[day'] + Exposed'[t] <= DailyCap
      PROVE  DayBooksExist'
  <2>1. \A u \in Callers \ {t} : HeldToday'[u] = HeldToday[u] /\ Exposed'[u] = Exposed[u]
    BY <1>m DEF HeldToday, Exposed
  <2>2. QED BY <1>m, <2>1, BooksFollow
\* Where its client's reservation stays, too.
<1>k. ASSUME NEW t \in Callers, reserved' = reserved, HeldToday'[t] = HeldToday[t]
      PROVE  \A c \in Clients : reserved'[c] = IF c = Owner[t] THEN reserved[c] - HeldToday[t] + HeldToday'[t] ELSE reserved[c]
  BY <1>k, <1>t, <1>w
<1>1. ASSUME NEW t \in Callers, NEW e \in WorstCosts, Complete(t, e) PROVE DayBooksExist'
  <2>1. /\ stage' = [stage EXCEPT ![t] = "reserving"] /\ worst' = [worst EXCEPT ![t] = e] /\ stage[t] = "idle"
        /\ spentThen' = spentThen /\ reserved' = reserved /\ spend' = spend /\ day' = day
    BY <1>1 DEF Complete, Goto
  <2>2. HeldToday[t] = 0 /\ HeldToday'[t] = 0 /\ Exposed[t] = 0 /\ Exposed'[t] = 0
    BY <1>t, <2>1 DEF HeldToday, Exposed
  <2>3. \A u \in Callers \ {t} : stage'[u] = stage[u] /\ worst'[u] = worst[u] /\ spentThen'[u] = spentThen[u]
    BY <1>t, <2>1
  <2>4. spend'[day'] + Exposed'[t] <= spend[day] + Exposed[t]
    BY <2>1, <2>2, <1>w
  <2>5. QED BY <1>m, <1>k, <2>1, <2>2, <2>3, <2>4
<1>2. ASSUME NEW t \in Callers, ReadSpend(t) PROVE DayBooksExist'
  <2>1. /\ stage' = [stage EXCEPT ![t] = "deciding"] /\ spentThen' = [spentThen EXCEPT ![t] = spend[day]] /\ stage[t] = "reserving"
        /\ worst' = worst /\ reserved' = reserved /\ spend' = spend /\ day' = day
    BY <1>2 DEF ReadSpend, Goto
  <2>2. /\ HeldToday[t] = 0 /\ HeldToday'[t] = 0 /\ Exposed[t] = 0
        /\ Exposed'[t] = IF spend[day] + worst[t] <= DailyCap THEN worst[t] ELSE 0
    BY <1>t, <2>1 DEF HeldToday, Exposed
  <2>3. \A u \in Callers \ {t} : stage'[u] = stage[u] /\ worst'[u] = worst[u] /\ spentThen'[u] = spentThen[u]
    BY <1>t, <2>1
  <2>4. \/ spend'[day'] + Exposed'[t] <= spend[day] + Exposed[t]
        \/ spend'[day'] + Exposed'[t] <= DailyCap
    BY <2>1, <2>2, <1>w
  <2>5. QED BY <1>m, <1>k, <2>1, <2>2, <2>3, <2>4
<1>3. ASSUME NEW t \in Callers, RefuseCall(t) PROVE DayBooksExist'
  <2>1. /\ stage' = [stage EXCEPT ![t] = "refused"] /\ spentThen' = [spentThen EXCEPT ![t] = 0] /\ stage[t] = "deciding"
        /\ worst' = worst /\ reserved' = reserved /\ spend' = spend /\ day' = day
    BY <1>3 DEF RefuseCall, Goto
  <2>2. HeldToday[t] = 0 /\ HeldToday'[t] = 0 /\ Exposed'[t] = 0
    BY <1>t, <2>1 DEF HeldToday, Exposed
  <2>3. \A u \in Callers \ {t} : stage'[u] = stage[u] /\ worst'[u] = worst[u] /\ spentThen'[u] = spentThen[u]
    BY <1>t, <2>1
  <2>4. spend'[day'] + Exposed'[t] <= spend[day] + Exposed[t]
    BY <2>1, <2>2, <1>w
  <2>5. QED BY <1>m, <1>k, <2>1, <2>2, <2>3, <2>4
<1>4. ASSUME NEW t \in Callers, Reserve(t) PROVE DayBooksExist'
  <2>1. /\ stage' = [stage EXCEPT ![t] = "calling"] /\ spentThen' = [spentThen EXCEPT ![t] = 0] /\ stage[t] = "deciding"
        /\ worst' = worst /\ reserved' = [reserved EXCEPT ![Owner[t]] = @ + worst[t]] /\ spend' = spend /\ day' = day
    BY <1>4 DEF Reserve, Goto
  <2>2. spentThen[t] + worst[t] <= DailyCap
    <3>1. spentThen[t] + reserved[Owner[t]] + worst[t] <= DailyCap /\ reserved[Owner[t]] >= 0 /\ reserved[Owner[t]] \in Int
      BY <1>0, <1>t, <1>4, <1>p DEF Reserve, PastTheCap
    <3>2. QED BY <1>0, <1>t, <3>1
  <2>3. HeldToday[t] = 0 /\ HeldToday'[t] = worst[t] /\ Exposed[t] = worst[t] /\ Exposed'[t] = worst[t]
    BY <1>t, <2>1, <2>2 DEF HeldToday, Exposed
  <2>4. \A u \in Callers \ {t} : stage'[u] = stage[u] /\ worst'[u] = worst[u] /\ spentThen'[u] = spentThen[u]
    BY <1>t, <2>1
  <2>5. \A c \in Clients : reserved'[c] = IF c = Owner[t] THEN reserved[c] - HeldToday[t] + HeldToday'[t] ELSE reserved[c]
    BY <1>0, <1>t, <2>1, <2>3
  <2>6. spend'[day'] + Exposed'[t] <= spend[day] + Exposed[t]
    BY <2>1, <2>3, <1>w
  <2>7. QED BY <1>m, <2>4, <2>5, <2>6
<1>5. ASSUME NEW t \in Callers, NEW cost \in 0..worst[t], Answer(t, cost) PROVE DayBooksExist'
  <2>1. /\ stage' = [stage EXCEPT ![t] = "answered"] /\ stage[t] = "calling" /\ spentThen' = spentThen
        /\ worst' = worst /\ reserved' = reserved /\ spend' = spend /\ day' = day
    BY <1>5 DEF Answer, Goto
  <2>2. HeldToday'[t] = HeldToday[t] /\ Exposed'[t] = Exposed[t]
    BY <1>t, <2>1 DEF HeldToday, Exposed
  <2>3. \A u \in Callers \ {t} : stage'[u] = stage[u] /\ worst'[u] = worst[u] /\ spentThen'[u] = spentThen[u]
    BY <1>t, <2>1
  <2>4. spend'[day'] + Exposed'[t] <= spend[day] + Exposed[t]
    BY <2>1, <2>2, <1>w
  <2>5. QED BY <1>m, <1>k, <2>1, <2>2, <2>3, <2>4
<1>6. ASSUME NEW t \in Callers, Fail(t) PROVE DayBooksExist'
  <2>1. /\ stage' = [stage EXCEPT ![t] = "failed"] /\ stage[t] = "calling" /\ spentThen' = spentThen
        /\ worst' = worst /\ reserved' = reserved /\ spend' = spend /\ day' = day
    BY <1>6 DEF Fail, Goto
  <2>2. HeldToday'[t] = HeldToday[t] /\ Exposed'[t] = 0
    BY <1>t, <2>1 DEF HeldToday, Exposed
  <2>3. \A u \in Callers \ {t} : stage'[u] = stage[u] /\ worst'[u] = worst[u] /\ spentThen'[u] = spentThen[u]
    BY <1>t, <2>1
  <2>4. spend'[day'] + Exposed'[t] <= spend[day] + Exposed[t]
    BY <2>1, <2>2, <1>w
  <2>5. QED BY <1>m, <1>k, <2>1, <2>2, <2>3, <2>4
<1>7. ASSUME NEW t \in Callers, ReleaseCall(t) PROVE DayBooksExist'
  <2>1. /\ stage[t] \in {"answered", "failed"} /\ spentThen' = spentThen
        /\ reserved' = [reserved EXCEPT ![Owner[t]] = @ - worst[t]] /\ spend' = spend /\ day' = day
    BY <1>7 DEF ReleaseCall
  <2>2. /\ \A u \in Callers \ {t} : stage'[u] = stage[u] /\ worst'[u] = worst[u] /\ spentThen'[u] = spentThen[u]
        /\ HeldToday[t] = worst[t] /\ HeldToday'[t] = 0 /\ Exposed'[t] <= Exposed[t]
    <3>1. CASE stage[t] = "answered"
      <4>1. stage' = [stage EXCEPT ![t] = "unrecorded"] /\ worst' = worst
        BY <1>7, <3>1 DEF ReleaseCall, Goto
      <4>2. QED BY <1>t, <2>1, <3>1, <4>1 DEF HeldToday, Exposed
    <3>2. CASE stage[t] = "failed"
      <4>1. stage' = [stage EXCEPT ![t] = "idle"] /\ worst' = [worst EXCEPT ![t] = 0]
        BY <1>7, <3>2 DEF ReleaseCall, Goto, Done
      <4>2. QED BY <1>t, <2>1, <3>2, <4>1 DEF HeldToday, Exposed
    <3>3. QED BY <2>1, <3>1, <3>2
  <2>3. \A c \in Clients : reserved'[c] = IF c = Owner[t] THEN reserved[c] - HeldToday[t] + HeldToday'[t] ELSE reserved[c]
    BY <1>0, <1>t, <2>1, <2>2
  <2>4. spend'[day'] + Exposed'[t] <= spend[day] + Exposed[t]
    <3>1. Exposed'[t] \in Nat
      <4>1. (Exposed \in Weights)'
        BY DayWeightTypes, PTL
      <4>2. QED BY <4>1 DEF Weights
    <3>2. QED BY <2>1, <2>2, <1>w, <3>1
  <2>5. QED BY <1>m, <2>2, <2>3, <2>4
<1>8. ASSUME NEW t \in Callers, Record(t) PROVE DayBooksExist'
  <2>1. /\ stage' = [stage EXCEPT ![t] = "idle"] /\ worst' = [worst EXCEPT ![t] = 0] /\ stage[t] = "unrecorded"
        /\ spentThen' = spentThen /\ reserved' = reserved /\ day' = day
        /\ spend' = [spend EXCEPT ![day] = @ + bill[t]] \/ spend' = spend
    BY <1>8 DEF Record, Goto, Done
  <2>2. HeldToday[t] = 0 /\ HeldToday'[t] = 0 /\ Exposed[t] = worst[t] /\ Exposed'[t] = 0
    BY <1>t, <2>1 DEF HeldToday, Exposed
  <2>3. \A u \in Callers \ {t} : stage'[u] = stage[u] /\ worst'[u] = worst[u] /\ spentThen'[u] = spentThen[u]
    BY <1>t, <2>1
  <2>4. spend'[day'] <= spend[day] + worst[t]
    <3>1. bill[t] <= worst[t] /\ bill[t] \in Nat /\ worst[t] \in Nat
      BY <1>t DEF CallsOK
    <3>2. spend'[day] = spend[day] + bill[t] \/ spend'[day] = spend[day]
      BY <1>t, <2>1
    <3>3. QED BY <1>w, <2>1, <3>1, <3>2
  <2>5. spend'[day'] + Exposed'[t] <= spend[day] + Exposed[t]
    <3>1. spend'[day'] \in Nat
      BY DEF DayTypeOK
    <3>2. QED BY <2>2, <2>4, <1>w, <3>1
  <2>6. QED BY <1>m, <1>k, <2>1, <2>2, <2>3, <2>5
<1>9. ASSUME NEW t \in Callers, LeaveRefused(t) PROVE DayBooksExist'
  <2>1. /\ stage' = [stage EXCEPT ![t] = "idle"] /\ worst' = [worst EXCEPT ![t] = 0] /\ stage[t] = "refused"
        /\ spentThen' = spentThen /\ reserved' = reserved /\ spend' = spend /\ day' = day
    BY <1>9 DEF LeaveRefused, Goto, Done
  <2>2. HeldToday[t] = 0 /\ HeldToday'[t] = 0 /\ Exposed[t] = 0 /\ Exposed'[t] = 0
    BY <1>t, <2>1 DEF HeldToday, Exposed
  <2>3. \A u \in Callers \ {t} : stage'[u] = stage[u] /\ worst'[u] = worst[u] /\ spentThen'[u] = spentThen[u]
    BY <1>t, <2>1
  <2>4. spend'[day'] + Exposed'[t] <= spend[day] + Exposed[t]
    BY <2>1, <2>2, <1>w
  <2>5. QED BY <1>m, <1>k, <2>1, <2>2, <2>3, <2>4
<1>10. CASE Midnight
  BY <1>10, BooksMidnight
<1>11. ASSUME NEW c \in Clients, Kill(c) PROVE DayBooksExist'
  BY <1>11, BooksKill
<1>12. CASE UNCHANGED dayVars
  <2>1. PICK g, p : DayBooks(g, p)
    BY DEF DayBooksExist
  <2>2. HeldToday' = HeldToday /\ Exposed' = Exposed /\ reserved' = reserved /\ spend' = spend /\ day' = day
    BY <1>12 DEF dayVars, HeldToday, Exposed
  <2>3. (DayBooks(g, p))'
    BY <2>1, <2>2 DEF DayBooks, Sums, Of, Bound
  <2>4. QED BY <2>3 DEF DayBooksExist
<1>13. QED
  BY <1>1, <1>2, <1>3, <1>4, <1>5, <1>6, <1>7, <1>8, <1>9, <1>10, <1>11, <1>12 DEF DayNext

LEMMA BoundIsANumber == Bound \in Nat
<1>1. /\ DailyCap \in Nat /\ Cardinality(Callers) - 1 \in Nat /\ MaxEstimate \in Nat
  BY CapConstants
<1>2. \A n, m \in Nat : n * m \in Nat
  OBVIOUS
<1>3. (Cardinality(Callers) - 1) * MaxEstimate \in Nat
  BY <1>1, <1>2
<1>4. QED BY <1>1, <1>3 DEF Bound

LEMMA TodayIsBounded ==
    ASSUME DayTypeOK, DayBooksExist
    PROVE  spend[day] \in Nat /\ spend[day] <= Bound
<1>1. PICK g, p : DayBooks(g, p)
  BY DEF DayBooksExist
<1>2. p[Callers] \in Nat
  BY <1>1, Callers \in SUBSET Callers DEF DayBooks, Sums
<1>3. spend[day] \in Nat /\ Bound \in Nat
  BY BoundIsANumber DEF DayTypeOK
<1>4. QED BY <1>1, <1>2, <1>3 DEF DayBooks

LEMMA DaysStep ==
    ASSUME DayTypeOK, DaysOK, DayBooksExist, [DayNext]_dayVars
    PROVE  DaysOK'
<1>1. spend \in [1..Days -> Nat] /\ day \in 1..Days /\ Days \in Nat
  BY CapConstants DEF DayTypeOK
<1>2. CASE Midnight
  <2>1. spend' = spend /\ day' = day + 1
    BY <1>2 DEF Midnight
  <2>2. spend[day] <= Bound
    BY TodayIsBounded
  <2>3. \A d \in 1..Days : (d < day + 1 => d < day \/ d = day) /\ (d > day + 1 => d > day)
    BY <1>1
  <2>4. QED BY <2>1, <2>2, <2>3 DEF DaysOK, Bound
<1>3. CASE /\ day' = day
           /\ \A d \in 1..Days : d # day => spend'[d] = spend[d]
  <2>1. \A d \in 1..Days : (d < day \/ d > day) => d # day
    BY <1>1
  <2>2. QED BY <1>3, <2>1 DEF DaysOK, Bound
<1>4. ASSUME NEW t \in Callers, Record(t) PROVE DaysOK'
  BY <1>1, <1>3, <1>4 DEF Record
<1>5. ASSUME UNCHANGED <<spend, day>> PROVE DaysOK'
  BY <1>5, <1>3
<1>6. QED
  BY <1>2, <1>4, <1>5 DEF DayNext, dayVars, Complete, ReadSpend, RefuseCall, Reserve, Answer, Fail, ReleaseCall, LeaveRefused, Kill

(* However many clients, processes and threads share a day, whatever order   *)
(* their calls read, reserve, answer, fail, release and record in, and       *)
(* whatever is killed, no day's recorded spend passes the cap by more than   *)
(* one worst case for every thread but one.                                  *)
THEOREM OvershootIsBounded == DaySpec => []DailyOvershootIsBounded
<1> USE DEF CapInv
<1>1. DayInit => CapInv
  <2> SUFFICES ASSUME DayInit PROVE CapInv
    OBVIOUS
  <2>1. /\ Days \in Nat \ {0} /\ MaxKills \in Nat /\ DailyCap \in Nat /\ MaxEstimate \in Nat
    BY CapConstants
  <2>2. DayTypeOK /\ CallsOK /\ DaysOK
    BY <2>1 DEF DayInit, DayTypeOK, CallsOK, DaysOK
  <2>3. QED BY <2>2, BooksStart
<1>2. CapInv /\ [DayNext]_dayVars => CapInv'
  <2> SUFFICES ASSUME CapInv, [DayNext]_dayVars PROVE CapInv'
    OBVIOUS
  <2>1. DayTypeOK'
    BY CapTypeStep
  <2>2. CallsOK'
    BY CallsStep, PendingIsHeld
  <2>3. DaysOK'
    BY DaysStep
  <2>4. DayBooksExist'
    BY <2>1, <2>2, DayBooksStep
  <2>5. QED BY <2>1, <2>2, <2>3, <2>4
<1>3. CapInv => DailyOvershootIsBounded
  <2> SUFFICES ASSUME CapInv, NEW d \in 1..Days PROVE spend[d] <= Bound
    BY DEF DailyOvershootIsBounded, Bound
  <2>1. day \in 1..Days /\ spend[d] \in Nat /\ Days \in Nat
    BY CapConstants DEF DayTypeOK
  <2>2. CASE d < day
    BY <2>2 DEF DaysOK
  <2>3. CASE d = day
    BY <2>3, TodayIsBounded
  <2>4. CASE d > day
    BY <2>4, BoundIsANumber DEF DaysOK
  <2>5. QED BY <2>1, <2>2, <2>3, <2>4
<1> HIDE DEF CapInv
<1>4. QED BY <1>1, <1>2, <1>3, PTL DEF DaySpec

-----------------------------------------------------------------------------
(* The hosts.  What is stored tells each host's last check for as long as a *)
(* check counts, so a client made in that time leaves out a host that       *)
(* failed it; and the weekly run adds what it finds to its own client.      *)
HostTypes ==
    /\ today \in Nat
    /\ checks \subseteq [day : Nat, host : Hosts, detail : {"ok", "unavailable", "failed"}]
    /\ IsFiniteSet(replies)
    /\ clients \in [Runners -> [open : BOOLEAN, day : Nat, excluded : SUBSET Hosts, blind : BOOLEAN]]
    /\ history \in [Hosts -> [passed : BOOLEAN, on : Nat]]

\* A host has one check a day, and its last one is the history's.
ChecksOK ==
    /\ \A x \in checks : x.day <= history[x.host].on
    /\ \A x, y \in checks : x.day = y.day /\ x.host = y.host => x = y
    /\ \A h \in Hosts : history[h].on <= today

IsLast(x, h) == x.host = h /\ x.day = history[h].on /\ (x.detail = "ok" <=> history[h].passed)

\* No check of a host outlives its last one, and a failure stays for as long
\* as it counts.
HistoryOK ==
    \A h \in Hosts :
        (\/ \E x \in checks : x.host = h
         \/ ~history[h].passed /\ today <= history[h].on + CHECK_VALID_DAYS) =>
            \E x \in checks : IsLast(x, h)

ClientsOK == \A c \in Runners : clients[c].day <= today

HostInv == HostTypes /\ ChecksOK /\ HistoryOK /\ ClientsOK /\ FailedHostIsLeftOut

LEMMA LatestIsTheLast ==
    ASSUME HostTypes, ChecksOK, HistoryOK, NEW h \in Hosts
    PROVE  /\ \A x \in LatestOf(h) : x.detail = "ok" <=> history[h].passed
           /\ ~history[h].passed /\ today <= history[h].on + CHECK_VALID_DAYS => LatestOf(h) # {}
<1>0. CHECK_VALID_DAYS \in Nat /\ today \in Nat
  BY HostAssumption DEF HostTypes
<1>1. \A x \in checks : x.day \in Nat /\ x.host \in Hosts
  BY DEF HostTypes
<1>2. history[h].on \in Nat
  BY DEF HostTypes
<1>3. ASSUME NEW x \in LatestOf(h) PROVE x.detail = "ok" <=> history[h].passed
  <2>1. x \in checks /\ x.host = h /\ x.day >= today - CHECK_VALID_DAYS
    BY DEF LatestOf, Valid
  <2>2. PICK y \in checks : IsLast(y, h)
    BY <2>1 DEF HistoryOK
  <2>3. y.host = h /\ y.day = history[h].on
    BY <2>2 DEF IsLast
  <2>4. x.day <= y.day
    BY <2>1, <2>3 DEF ChecksOK
  <2>5. y.day >= today - CHECK_VALID_DAYS
    BY <1>0, <1>1, <2>1, <2>2, <2>4
  <2>6. y.day <= x.day
    BY <2>2, <2>3, <2>5 DEF LatestOf, Valid
  <2>7. x.day = y.day
    BY <1>1, <2>1, <2>4, <2>6
  <2>8. x = y
    BY <2>1, <2>3, <2>7 DEF ChecksOK
  <2>9. QED BY <2>2, <2>8 DEF IsLast
<1>4. ASSUME ~history[h].passed, today <= history[h].on + CHECK_VALID_DAYS PROVE LatestOf(h) # {}
  <2>1. PICK y \in checks : IsLast(y, h)
    BY <1>4 DEF HistoryOK
  <2>2. y.host = h /\ y.day = history[h].on
    BY <2>1 DEF IsLast
  <2>3. y.day >= today - CHECK_VALID_DAYS
    BY <1>0, <1>2, <1>4, <2>2
  <2>4. \A x \in checks : x.host = h => x.day <= y.day
    BY <2>2 DEF ChecksOK
  <2>5. y \in LatestOf(h)
    BY <2>2, <2>3, <2>4 DEF LatestOf, Valid
  <2>6. QED BY <2>5
<1>5. QED BY <1>3, <1>4

LEMMA FailureIsFound ==
    ASSUME HostTypes, ChecksOK, HistoryOK, NEW h \in Hosts
    PROVE  /\ history[h].passed => h \notin LatestFailures
           /\ ~history[h].passed /\ today <= history[h].on + CHECK_VALID_DAYS => h \in LatestFailures
BY LatestIsTheLast DEF LatestFailures

(* The doctor tells what clients are made with.                             *)
LEMMA PassedHostsAreBack == ASSUME HostTypes, ChecksOK, HistoryOK PROVE PassedHostIsBack
<1>1. ASSUME NEW h \in Hosts, history[h].passed, Poor(RepliesOf(h)) = {} PROVE h \notin excluded_hosts
  <2>1. h \notin LatestFailures
    BY <1>1, FailureIsFound
  <2>2. IsFiniteSet(RepliesOf(h))
    <3>1. RepliesOf(h) \subseteq replies
      BY DEF RepliesOf
    <3>2. QED BY <3>1, FS_Subset DEF HostTypes
  <2>3. Cardinality(RepliesOf(h)) \in Nat /\ Cardinality(Poor(RepliesOf(h))) = 0
    BY <1>1, <2>2, FS_CardinalityType, FS_EmptySet
  <2>4. ~(10 * Cardinality(Poor(RepliesOf(h))) > Cardinality(RepliesOf(h)))
    BY <2>3
  <2>5. ~host_quality(h)
    BY <2>4 DEF host_quality
  <2>6. QED BY <2>1, <2>5 DEF excluded_hosts
<1>2. unavailable_hosts \subseteq LatestFailures
  <2>1. ASSUME NEW h \in Hosts, NEW c \in LatestOf(h), c.detail = "unavailable" PROVE h \in LatestFailures
    <3>1. c.detail # "ok"
      BY <2>1
    <3>2. QED BY <3>1 DEF LatestFailures
  <2>2. QED BY <2>1 DEF unavailable_hosts
<1>3. LatestFailures \subseteq Hosts /\ unavailable_hosts \subseteq Hosts
  BY DEF LatestFailures, unavailable_hosts
<1> DEFINE doctor == openrouter_host_problems
<1>4. /\ doctor.problem <=> Hosts \subseteq excluded_hosts
      /\ doctor.skipped = (LatestFailures \ unavailable_hosts) \cup {h \in Hosts : host_quality(h)}
      /\ doctor.gone = unavailable_hosts
  BY DEF openrouter_host_problems
<1>5. doctor.skipped \cup doctor.gone = excluded_hosts /\ excluded_hosts \subseteq Hosts
  BY <1>2, <1>3, <1>4 DEF excluded_hosts
<1>6. doctor.problem <=> doctor.skipped \cup doctor.gone = Hosts
  BY <1>4, <1>5
<1>7. doctor.problem => \A h \in Hosts : ~history[h].passed \/ Poor(RepliesOf(h)) # {}
  BY <1>1, <1>4
<1> HIDE DEF doctor
<1>8. QED BY <1>1, <1>6, <1>7 DEF PassedHostIsBack, doctor

-----------------------------------------------------------------------------
LEMMA HostStart == ASSUME HostInit PROVE HostInv
<1>1. /\ today = 0 /\ checks = {} /\ replies = {}
      /\ clients = [c \in Runners |-> Shut]
      /\ history = [h \in Hosts |-> [passed |-> TRUE, on |-> 0]]
  BY DEF HostInit
<1>2. HostTypes
  BY <1>1, FS_EmptySet DEF HostTypes, Shut
<1>3. ChecksOK /\ HistoryOK /\ ClientsOK /\ FailedHostIsLeftOut
  BY <1>1 DEF ChecksOK, HistoryOK, ClientsOK, FailedHostIsLeftOut, Shut
<1>4. QED BY <1>2, <1>3 DEF HostInv

(* Where neither the checks nor the day change.                             *)
LEMMA HostsStand ==
    ASSUME HostInv, UNCHANGED <<today, checks, history>>
    PROVE  ChecksOK' /\ HistoryOK'
BY DEF HostInv, ChecksOK, HistoryOK, IsLast

LEMMA InvClientMade ==
    ASSUME HostInv, NEW c \in Runners, NEW blind \in BOOLEAN, client_from_settings(c, blind)
    PROVE  HostInv'
<1>1. /\ UNCHANGED <<today, checks, history, replies>>
      /\ clients' = [clients EXCEPT ![c] = [open |-> TRUE, day |-> today, blind |-> blind,
                                            excluded |-> IF blind THEN {} ELSE excluded_hosts]]
  BY DEF client_from_settings
<1>2. excluded_hosts \subseteq Hosts
  BY DEF excluded_hosts, LatestFailures
<1>3. HostTypes'
  BY <1>1, <1>2 DEF HostInv, HostTypes
<1>4. ChecksOK' /\ HistoryOK'
  BY <1>1, HostsStand
<1>5. ClientsOK'
  BY <1>1 DEF HostInv, HostTypes, ClientsOK
<1>6. FailedHostIsLeftOut'
  <2>1. ASSUME NEW d \in Runners, NEW h \in Hosts,
               clients'[d].open, ~clients'[d].blind, ~history[h].passed,
               clients'[d].day >= history[h].on, clients'[d].day <= history[h].on + CHECK_VALID_DAYS
        PROVE  h \in clients'[d].excluded \/ (d = "nightly" /\ clients'[d].day = history[h].on)
    <3>1. CASE d = c
      <4>1. clients'[d].day = today /\ clients'[d].excluded = excluded_hosts
        BY <1>1, <2>1, <3>1 DEF HostInv, HostTypes
      <4>2. h \in LatestFailures
        BY <2>1, <4>1, FailureIsFound DEF HostInv
      <4>3. QED BY <4>1, <4>2 DEF excluded_hosts
    <3>2. CASE d # c
      <4>1. clients'[d] = clients[d]
        BY <1>1, <3>2 DEF HostInv, HostTypes
      <4>2. QED BY <2>1, <4>1 DEF HostInv, FailedHostIsLeftOut, allowed_hosts
    <3>3. QED BY <3>1, <3>2
  <2>2. history' = history
    BY <1>1
  <2>3. QED BY <2>1, <2>2 DEF FailedHostIsLeftOut, allowed_hosts
<1>7. QED BY <1>3, <1>4, <1>5, <1>6 DEF HostInv

LEMMA InvShut ==
    ASSUME HostInv, NEW c \in Runners, UNCHANGED <<today, checks, history>>,
           clients' = [clients EXCEPT ![c] = Shut], IsFiniteSet(replies')
    PROVE  HostInv'
<1>1. HostTypes'
  BY DEF HostInv, HostTypes, Shut
<1>2. ChecksOK' /\ HistoryOK'
  BY HostsStand
<1>3. ClientsOK' /\ FailedHostIsLeftOut'
  BY DEF HostInv, HostTypes, ClientsOK, FailedHostIsLeftOut, Shut, allowed_hosts
<1>4. QED BY <1>1, <1>2, <1>3 DEF HostInv

LEMMA InvCanaries == ASSUME HostInv, run_canaries PROVE HostInv'
<1>1. /\ today' = today /\ replies' = replies
      /\ \A x \in checks : x.day # today
      /\ checks' = checks \cup {Checked(h) : h \in Hosts}
      /\ clients' = [clients EXCEPT !["weekly"].excluded = @ \cup {h \in Hosts : canary_problems(h) # "ok"}]
      /\ history' = [h \in Hosts |-> [passed |-> canary_problems(h) = "ok", on |-> today]]
  BY DEF run_canaries
<1>2. \A h \in Hosts : canary_problems(h) \in {"ok", "unavailable", "failed"}
  BY DEF canary_problems
<1>3. \A h \in Hosts : /\ Checked(h) \in [day : Nat, host : Hosts, detail : {"ok", "unavailable", "failed"}]
                       /\ Checked(h).day = today /\ Checked(h).host = h /\ Checked(h).detail = canary_problems(h)
  BY <1>2 DEF Checked, HostInv, HostTypes
<1>4. \A h \in Hosts : history'[h].on = today /\ (history'[h].passed <=> canary_problems(h) = "ok")
  BY <1>1
<1>5. "weekly" \in Runners
  BY DEF Runners
<1>6. /\ clients'["weekly"].excluded = clients["weekly"].excluded \cup {h \in Hosts : canary_problems(h) # "ok"}
      /\ \A c \in Runners : clients'[c].day = clients[c].day /\ clients'[c].open = clients[c].open
      /\ \A c \in Runners : c # "weekly" => clients'[c] = clients[c]
  BY <1>1, <1>5 DEF HostInv, HostTypes
<1>7. HostTypes'
  <2>1. checks' \subseteq [day : Nat, host : Hosts, detail : {"ok", "unavailable", "failed"}]
    BY <1>1, <1>3 DEF HostInv, HostTypes
  <2>2. clients' \in [Runners -> [open : BOOLEAN, day : Nat, excluded : SUBSET Hosts, blind : BOOLEAN]]
    BY <1>1, <1>5 DEF HostInv, HostTypes
  <2>3. history' \in [Hosts -> [passed : BOOLEAN, on : Nat]]
    BY <1>1 DEF HostInv, HostTypes
  <2>4. QED BY <1>1, <2>1, <2>2, <2>3 DEF HostInv, HostTypes
<1>8. ChecksOK'
  <2>1. \A x \in checks : x.day <= today /\ x.day \in Nat /\ x.host \in Hosts /\ today \in Nat
    <3>1. ASSUME NEW x \in checks PROVE x.day <= today /\ x.day \in Nat /\ x.host \in Hosts
      <4>1. x.day \in Nat /\ x.host \in Hosts
        BY DEF HostInv, HostTypes
      <4>2. x.day <= history[x.host].on /\ history[x.host].on <= today
        BY <4>1 DEF HostInv, ChecksOK
      <4>3. history[x.host].on \in Nat /\ today \in Nat
        BY <4>1 DEF HostInv, HostTypes
      <4>4. QED BY <4>1, <4>2, <4>3
    <3>2. QED BY <3>1 DEF HostInv, HostTypes
  <2>2. \A x \in checks' : x.day <= history'[x.host].on
    <3>1. ASSUME NEW x \in checks' PROVE x.day <= history'[x.host].on
      <4>1. CASE x \in checks
        BY <1>4, <2>1, <4>1
      <4>2. ASSUME NEW h \in Hosts, x = Checked(h) PROVE x.day <= history'[x.host].on
        <5>1. today \in Nat
          BY DEF HostInv, HostTypes
        <5>2. QED BY <1>3, <1>4, <4>2, <5>1
      <4>3. QED BY <1>1, <4>1, <4>2
    <3>2. QED BY <3>1
  <2>3. \A x, y \in checks' : x.day = y.day /\ x.host = y.host => x = y
    <3>1. ASSUME NEW x \in checks', NEW y \in checks', x.day = y.day, x.host = y.host PROVE x = y
      <4>1. CASE x \in checks /\ y \in checks
        BY <3>1, <4>1 DEF HostInv, ChecksOK
      <4>2. CASE x \notin checks
        <5>1. PICK h \in Hosts : x = Checked(h)
          BY <1>1, <4>2
        <5>2. x.day = today /\ x.host = h
          BY <1>3, <5>1
        <5>3. PICK k \in Hosts : y = Checked(k)
          BY <1>1, <3>1, <5>2
        <5>4. QED BY <1>3, <3>1, <5>1, <5>2, <5>3
      <4>3. CASE y \notin checks
        <5>1. PICK h \in Hosts : y = Checked(h)
          BY <1>1, <4>3
        <5>2. y.day = today /\ y.host = h
          BY <1>3, <5>1
        <5>3. PICK k \in Hosts : x = Checked(k)
          BY <1>1, <3>1, <5>2
        <5>4. QED BY <1>3, <3>1, <5>1, <5>2, <5>3
      <4>4. QED BY <4>1, <4>2, <4>3
    <3>2. QED BY <3>1
  <2>4. \A h \in Hosts : history'[h].on <= today'
    <3>1. today \in Nat
      BY DEF HostInv, HostTypes
    <3>2. QED BY <1>1, <1>4, <3>1
  <2>5. QED BY <2>2, <2>3, <2>4 DEF ChecksOK
<1>9. HistoryOK'
  <2>1. ASSUME NEW h \in Hosts PROVE \E x \in checks' : (IsLast(x, h))'
    <3>1. Checked(h) \in checks'
      BY <1>1
    <3>2. \A x : x = Checked(h) => (IsLast(x, h))'
      BY <1>3, <1>4 DEF IsLast
    <3>3. QED BY <3>1, <3>2
  <2>2. QED BY <2>1 DEF HistoryOK
<1>10. ClientsOK'
  BY <1>1, <1>6 DEF HostInv, ClientsOK
<1>11. FailedHostIsLeftOut'
  <2>1. ASSUME NEW c \in Runners, NEW h \in Hosts, ~history'[h].passed, clients'[c].day >= history'[h].on
        PROVE  h \in clients'[c].excluded \/ (c = "nightly" /\ clients'[c].day = history'[h].on)
    <3>1. CASE c = "weekly"
      BY <1>4, <1>6, <2>1, <3>1
    <3>2. CASE c = "nightly"
      <4>1. clients'[c].day = clients[c].day /\ history'[h].on = today
        BY <1>4, <1>6
      <4>2. clients[c].day <= today /\ clients[c].day \in Nat /\ today \in Nat
        BY DEF HostInv, ClientsOK, HostTypes
      <4>3. QED BY <2>1, <3>2, <4>1, <4>2
    <3>3. QED BY <3>1, <3>2 DEF Runners
  <2>2. QED BY <2>1 DEF FailedHostIsLeftOut, allowed_hosts
<1>12. QED BY <1>7, <1>8, <1>9, <1>10, <1>11 DEF HostInv

LEMMA InvNextDay == ASSUME HostInv, NextDayOfHosts PROVE HostInv'
<1>1. /\ today' = today + 1 /\ clients' = clients /\ history' = history
      /\ checks' = {c \in checks : c.day >= today' - CHECK_VALID_DAYS}
      /\ replies' = {r \in replies : r.day >= today' - QUALITY_DAYS}
  BY DEF NextDayOfHosts
<1>c. \A x : x \in checks' <=> x \in checks /\ x.day >= (today + 1) - CHECK_VALID_DAYS
  BY <1>1
<1>2. today \in Nat /\ CHECK_VALID_DAYS \in Nat /\ checks' \subseteq checks /\ replies' \subseteq replies
  BY <1>1, HostAssumption DEF HostInv, HostTypes
<1>3. HostTypes'
  <2>1. IsFiniteSet(replies')
    BY <1>2, FS_Subset DEF HostInv, HostTypes
  <2>2. QED BY <1>1, <1>2, <2>1 DEF HostInv, HostTypes
<1>4. \A h \in Hosts : history[h].on \in Nat /\ history[h].on <= today
  BY DEF HostInv, HostTypes, ChecksOK
<1>5. ChecksOK'
  BY <1>1, <1>2, <1>4 DEF HostInv, ChecksOK
<1>6. HistoryOK'
  <2>1. ASSUME NEW h \in Hosts,
               \/ \E x \in checks' : x.host = h
               \/ ~history[h].passed /\ today + 1 <= history[h].on + CHECK_VALID_DAYS
        PROVE  \E x \in checks' : IsLast(x, h)
    <3>1. \/ \E x \in checks : x.host = h
          \/ ~history[h].passed /\ today <= history[h].on + CHECK_VALID_DAYS
      BY <1>2, <1>4, <2>1
    <3>2. PICK x \in checks : IsLast(x, h)
      BY <3>1 DEF HostInv, HistoryOK
    <3>3. x.day = history[h].on
      BY <3>2 DEF IsLast
    <3>4. history[h].on >= (today + 1) - CHECK_VALID_DAYS
      <4>1. ASSUME NEW y \in checks', y.host = h PROVE history[h].on >= (today + 1) - CHECK_VALID_DAYS
        <5>1. y \in checks /\ y.day >= (today + 1) - CHECK_VALID_DAYS
          BY <1>c
        <5>2. y.day <= history[h].on /\ y.day \in Nat
          BY <4>1, <5>1 DEF HostInv, HostTypes, ChecksOK
        <5>3. QED BY <1>2, <1>4, <5>1, <5>2
      <4>2. QED BY <1>2, <1>4, <2>1, <4>1
    <3>5. x \in checks'
      BY <1>c, <3>3, <3>4
    <3>6. QED BY <3>2, <3>5
  <2>2. QED BY <1>1, <2>1 DEF HistoryOK, IsLast
<1>7. ClientsOK'
  <2>1. \A c \in Runners : clients[c].day \in Nat /\ clients[c].day <= today
    BY DEF HostInv, HostTypes, ClientsOK
  <2>2. QED BY <1>1, <1>2, <2>1 DEF ClientsOK
<1>8. FailedHostIsLeftOut'
  BY <1>1 DEF HostInv, FailedHostIsLeftOut, allowed_hosts
<1>9. QED BY <1>3, <1>5, <1>6, <1>7, <1>8 DEF HostInv

LEMMA InvHostsStep == ASSUME HostInv, [HostNext]_hostVars PROVE HostInv'
<1>1. ASSUME NEW c \in Runners, read_filings(c) PROVE HostInv'
  <2>1. /\ UNCHANGED <<today, checks, history>> /\ clients' = [clients EXCEPT ![c] = Shut]
        /\ replies' = replies \cup {[day |-> today, host |-> h, fine |-> condition[h] = "good", by |-> c] :
                                      h \in {x \in allowed_hosts(c) : condition[x] \in {"good", "masking"}}}
    BY <1>1 DEF read_filings
  <2> DEFINE H == {x \in allowed_hosts(c) : condition[x] \in {"good", "masking"}}
  <2> DEFINE row(h) == [day |-> today, host |-> h, fine |-> condition[h] = "good", by |-> c]
  <2>2. IsFiniteSet(H)
    <3>1. H \subseteq Hosts
      BY DEF allowed_hosts
    <3>2. QED BY <3>1, HostAssumption, FS_Subset
  <2>3. IsFiniteSet({row(h) : h \in H})
    <3> DEFINE rows == {row(h) : h \in H}
    <3> DEFINE f == [h \in H |-> row(h)]
    <3> HIDE DEF H
    <3>1. f \in Surjection(H, rows)
      BY DEF Surjection
    <3> HIDE DEF rows, f
    <3>2. IsFiniteSet(rows)
      BY <2>2, <3>1, FS_Surjection
    <3>3. QED BY <3>2 DEF rows
  <2>4. IsFiniteSet(replies')
    <3>1. replies' = replies \cup {row(h) : h \in H}
      BY <2>1
    <3> HIDE DEF row, H
    <3>2. QED BY <2>3, <3>1, FS_Union DEF HostInv, HostTypes
  <2>5. QED BY <2>1, <2>4, InvShut
<1>2. CASE CapEndsTheCheck
  <2>1. UNCHANGED <<today, checks, history, replies>> /\ clients' = [clients EXCEPT !["weekly"] = Shut]
    BY <1>2 DEF CapEndsTheCheck
  <2>2. "weekly" \in Runners /\ IsFiniteSet(replies')
    BY <2>1 DEF Runners, HostInv, HostTypes
  <2>3. QED BY <2>1, <2>2, InvShut
<1>3. ASSUME UNCHANGED <<today, checks, replies, clients, history>> PROVE HostInv'
  BY <1>3 DEF HostInv, HostTypes, ChecksOK, HistoryOK, ClientsOK, FailedHostIsLeftOut, IsLast, allowed_hosts
<1>4. ASSUME NEW h \in Hosts, NEW now \in Conditions, HostChanges(h, now) PROVE HostInv'
  BY <1>3, <1>4 DEF HostChanges
<1>5. CASE UNCHANGED hostVars
  BY <1>3, <1>5 DEF hostVars
<1>6. QED
  BY <1>1, <1>2, <1>4, <1>5, InvClientMade, InvCanaries, InvNextDay DEF HostNext

(* For any hosts and days, whatever becomes of them and whichever runs are    *)
(* open at once or over midnight: a host that failed its last check is left   *)
(* out for as long as the check counts, and one that passed and read well is  *)
(* used again, and the doctor says so.                                        *)
THEOREM FailedHostsAreLeftOut == HostSpec => []HostsAreGuarded
<1>1. HostInit => HostInv
  BY HostStart
<1>2. HostInv /\ [HostNext]_hostVars => HostInv'
  BY InvHostsStep
<1>3. HostInv => HostsAreGuarded
  BY PassedHostsAreBack DEF HostInv, HostsAreGuarded
<1>4. QED BY <1>1, <1>2, <1>3, PTL DEF HostSpec

-----------------------------------------------------------------------------
(* A sum as the community modules define it: a function on the subsets that  *)
(* takes out one member after the other.                                    *)
One(s) == CHOOSE x \in s : TRUE
IsSum(g, w, S) == g = [s \in SUBSET S |-> IF s = {} THEN 0 ELSE w[One(s)] + g[s \ {One(s)}]]
SumOf(w, S) == MapThenSumSet(LAMBDA x : w[x], S)

LEMMA SumChosen == ASSUME NEW w, NEW S, \E g : IsSum(g, w, S) PROVE \E g : IsSum(g, w, S) /\ SumOf(w, S) = g[S]
BY DEF SumOf, IsSum, One, MapThenSumSet, MapThenFoldSet
LEMMA SumUnfolds == ASSUME NEW w, NEW S, NEW g, IsSum(g, w, S), NEW s \in SUBSET S
   PROVE g[s] = IF s = {} THEN 0 ELSE w[One(s)] + g[s \ {One(s)}]
BY DEF IsSum

(* A fact that holds of a finite set when it holds of the smaller ones: the    *)
(* least set without it has none.                                           *)
LEMMA SmallestSet ==
    ASSUME NEW F, NEW S \in F, \A s \in F : IsFiniteSet(s)
    PROVE  \E s \in F : \A u \in F : Cardinality(s) <= Cardinality(u)
<1> DEFINE N == {Cardinality(s) : s \in F}
<1>1. N \in SUBSET Nat /\ N # {}
  BY FS_CardinalityType
<1>2. PICK n \in N : \A m \in N : n <= m
  BY <1>1, LeastNumber
<1>3. QED BY <1>2

LEMMA OneOfIt == ASSUME NEW s, s # {} PROVE One(s) \in s
BY DEF One

LEMMA OneLess ==
    ASSUME NEW s, IsFiniteSet(s), NEW x \in s
    PROVE  IsFiniteSet(s \ {x}) /\ Cardinality(s \ {x}) < Cardinality(s)
<1>1. IsFiniteSet(s \ {x}) /\ Cardinality(s \ {x}) = Cardinality(s) - 1
  BY FS_RemoveElement
<1>2. Cardinality(s) \in Nat
  BY FS_CardinalityType
<1>3. QED BY <1>1, <1>2

(* Sums over two sets agree where both are defined.                           *)
LEMMA SumsAgree ==
    ASSUME NEW w, NEW S, NEW T, NEW g, NEW h, IsFiniteSet(S), IsSum(g, w, S), IsSum(h, w, T),
           NEW s \in SUBSET (S \cap T)
    PROVE  g[s] = h[s]
<1> DEFINE F == {u \in SUBSET (S \cap T) : g[u] # h[u]}
<1>1. SUFFICES ASSUME F # {} PROVE FALSE
  OBVIOUS
<1>2. \A u \in F : IsFiniteSet(u)
  BY FS_Subset
<1>3. PICK u \in F : \A v \in F : Cardinality(u) <= Cardinality(v)
  <2> HIDE DEF F
  <2>1. PICK v \in F : TRUE
    BY <1>1
  <2>2. QED BY <1>2, <2>1, SmallestSet
<1>4. u \in SUBSET S /\ u \in SUBSET T /\ IsFiniteSet(u) /\ g[u] # h[u]
  BY <1>2
<1>5. ASSUME u = {} PROVE FALSE
  <2>1. g[u] = 0 /\ h[u] = 0
    BY <1>4, <1>5, SumUnfolds
  <2>2. QED BY <1>4, <2>1
<1>6. g[u \ {One(u)}] = h[u \ {One(u)}]
  <2>1. IsFiniteSet(u \ {One(u)}) /\ Cardinality(u \ {One(u)}) < Cardinality(u)
    BY <1>4, <1>5, OneOfIt, OneLess
  <2>2. u \ {One(u)} \notin F
    BY <1>3, <1>4, <2>1, FS_CardinalityType
  <2>3. QED BY <1>4, <2>2
<1>7. QED BY <1>4, <1>5, <1>6, SumUnfolds

LEMMA SumExists == ASSUME NEW w, NEW S, IsFiniteSet(S) PROVE \E g : IsSum(g, w, S)
<1> DEFINE F == {u \in SUBSET S : ~\E g : IsSum(g, w, u)}
<1>1. SUFFICES ASSUME F # {} PROVE FALSE
  OBVIOUS
<1>2. \A u \in F : IsFiniteSet(u)
  BY FS_Subset
<1>3. PICK u \in F : \A v \in F : Cardinality(u) <= Cardinality(v)
  <2> HIDE DEF F
  <2>1. PICK v \in F : TRUE
    BY <1>1
  <2>2. QED BY <1>2, <2>1, SmallestSet
<1>4. u \in SUBSET S /\ IsFiniteSet(u) /\ ~\E g : IsSum(g, w, u)
  BY <1>2
<1>5. \A v \in SUBSET u : v # u => \E g : IsSum(g, w, v)
  <2>1. SUFFICES ASSUME NEW v \in SUBSET u, v # u PROVE v \notin F
    BY <1>4
  <2>2. Cardinality(v) < Cardinality(u)
    <3>1. Cardinality(v) <= Cardinality(u) /\ (Cardinality(v) = Cardinality(u) => v = u) /\ Cardinality(v) \in Nat
      BY <1>4, FS_Subset, FS_CardinalityType
    <3>2. Cardinality(u) \in Nat
      BY <1>4, FS_CardinalityType
    <3>3. QED BY <2>1, <3>1, <3>2
  <2>3. Cardinality(v) \in Nat /\ Cardinality(u) \in Nat
    BY <1>4, FS_Subset, FS_CardinalityType
  <2>4. QED BY <1>3, <2>2, <2>3
<1> HIDE DEF F
<1> DEFINE The(v) == CHOOSE g : IsSum(g, w, v)
           g == [s \in SUBSET u |-> IF s = {} THEN 0 ELSE w[One(s)] + The(s \ {One(s)})[s \ {One(s)}]]
<1>6. \A v \in SUBSET u : v # u => IsSum(The(v), w, v)
  BY <1>5
<1>7. \A s \in SUBSET u : s # {} => g[s \ {One(s)}] = The(s \ {One(s)})[s \ {One(s)}]
  <2>1. SUFFICES ASSUME NEW s \in SUBSET u, s # {} PROVE g[s \ {One(s)}] = The(s \ {One(s)})[s \ {One(s)}]
    OBVIOUS
  <2> DEFINE v == s \ {One(s)}
  <2>2. v \in SUBSET u /\ v # u /\ IsSum(The(v), w, v) /\ IsFiniteSet(v)
    BY <1>4, <1>6, <2>1, OneOfIt, FS_Subset
  <2> HIDE DEF v, The
  <2>3. CASE v = {}
    <3>1. The(v)[v] = 0
      BY <2>2, <2>3, SumUnfolds
    <3>2. g[v] = 0
      BY <2>2, <2>3
    <3>3. QED BY <3>1, <3>2 DEF v
  <2>4. CASE v # {}
    <3> DEFINE r == v \ {One(v)}
    <3>1. r \in SUBSET v /\ r \in SUBSET u /\ r # u /\ IsSum(The(r), w, r)
      BY <1>6, <2>2, <2>4, OneOfIt
    <3>2. The(v)[v] = w[One(v)] + The(v)[r]
      BY <2>2, <2>4, SumUnfolds
    <3>3. The(v)[r] = The(r)[r]
      <4> HIDE DEF r
      <4>1. r \in SUBSET (v \cap r)
        BY <3>1
      <4>2. QED BY <2>2, <3>1, <4>1, SumsAgree
    <3>4. g[v] = w[One(v)] + The(r)[r]
      BY <2>2, <2>4
    <3>5. QED BY <3>2, <3>3, <3>4 DEF v
  <2>5. QED BY <2>3, <2>4
<1>8. IsSum(g, w, u)
  <2>1. \A s \in SUBSET u : g[s] = IF s = {} THEN 0 ELSE w[One(s)] + g[s \ {One(s)}]
    <3>1. SUFFICES ASSUME NEW s \in SUBSET u PROVE g[s] = IF s = {} THEN 0 ELSE w[One(s)] + g[s \ {One(s)}]
      OBVIOUS
    <3>2. g[s] = IF s = {} THEN 0 ELSE w[One(s)] + The(s \ {One(s)})[s \ {One(s)}]
      <4> HIDE DEF The
      <4>1. QED OBVIOUS
    <3> HIDE DEF g, The
    <3>3. QED BY <1>7, <3>2
  <2>2. g = [s \in SUBSET u |-> g[s]]
    OBVIOUS
  <2>3. QED
    <3> HIDE DEF g
    <3>1. QED BY <2>1, <2>2 DEF IsSum
<1>9. QED BY <1>4, <1>8

LEMMA SumStep ==
    ASSUME NEW w, NEW S, IsFiniteSet(S)
    PROVE  SumOf(w, S) = IF S = {} THEN 0 ELSE w[One(S)] + SumOf(w, S \ {One(S)})
<1>1. PICK g : IsSum(g, w, S) /\ SumOf(w, S) = g[S]
  BY SumExists, SumChosen
<1>2. g[S] = IF S = {} THEN 0 ELSE w[One(S)] + g[S \ {One(S)}]
  BY <1>1, SumUnfolds
<1> DEFINE R == S \ {One(S)}
<1>3. PICK h : IsSum(h, w, R) /\ SumOf(w, R) = h[R]
  <2>1. IsFiniteSet(R)
    BY FS_Subset
  <2>2. QED BY <2>1, SumExists, SumChosen
<1>4. R \in SUBSET (S \cap R)
  OBVIOUS
<1> HIDE DEF R
<1>5. g[R] = h[R]
  BY <1>1, <1>3, <1>4, SumsAgree
<1>6. QED BY <1>1, <1>2, <1>3, <1>5 DEF R

(* A sum of numbers is one, and equal weights have equal sums.                *)
LEMMA SumIsANumber ==
    ASSUME NEW w, NEW S, IsFiniteSet(S), \A x \in S : w[x] \in Int
    PROVE  SumOf(w, S) \in Int
<1> DEFINE F == {u \in SUBSET S : SumOf(w, u) \notin Int}
<1>1. SUFFICES ASSUME F # {} PROVE FALSE
  OBVIOUS
<1>2. \A u \in F : IsFiniteSet(u)
  BY FS_Subset
<1>3. PICK u \in F : \A v \in F : Cardinality(u) <= Cardinality(v)
  <2> HIDE DEF F
  <2>1. PICK v \in F : TRUE
    BY <1>1
  <2>2. QED BY <1>2, <2>1, SmallestSet
<1>4. u \in SUBSET S /\ IsFiniteSet(u) /\ SumOf(w, u) \notin Int
  BY <1>2
<1>5. SumOf(w, u) = IF u = {} THEN 0 ELSE w[One(u)] + SumOf(w, u \ {One(u)})
  BY <1>4, SumStep
<1>6. u # {}
  BY <1>4, <1>5
<1>7. One(u) \in u /\ IsFiniteSet(u \ {One(u)}) /\ Cardinality(u \ {One(u)}) < Cardinality(u)
  BY <1>4, <1>6, OneOfIt, OneLess
<1>8. u \ {One(u)} \notin F
  BY <1>3, <1>4, <1>7, FS_CardinalityType
<1>9. SumOf(w, u \ {One(u)}) \in Int
  BY <1>4, <1>8
<1>10. w[One(u)] \in Int
  BY <1>4, <1>7
<1> HIDE DEF F
<1>11. QED BY <1>4, <1>5, <1>6, <1>9, <1>10

LEMMA SumsAreEqual ==
    ASSUME NEW w, NEW v, NEW S, IsFiniteSet(S), \A x \in S : w[x] = v[x]
    PROVE  SumOf(w, S) = SumOf(v, S)
<1> DEFINE F == {u \in SUBSET S : SumOf(w, u) # SumOf(v, u)}
<1>1. SUFFICES ASSUME F # {} PROVE FALSE
  OBVIOUS
<1>2. \A u \in F : IsFiniteSet(u)
  BY FS_Subset
<1>3. PICK u \in F : \A t \in F : Cardinality(u) <= Cardinality(t)
  <2> HIDE DEF F
  <2>1. PICK t \in F : TRUE
    BY <1>1
  <2>2. QED BY <1>2, <2>1, SmallestSet
<1>4. u \in SUBSET S /\ IsFiniteSet(u) /\ SumOf(w, u) # SumOf(v, u)
  BY <1>2
<1>5. /\ SumOf(w, u) = IF u = {} THEN 0 ELSE w[One(u)] + SumOf(w, u \ {One(u)})
      /\ SumOf(v, u) = IF u = {} THEN 0 ELSE v[One(u)] + SumOf(v, u \ {One(u)})
  BY <1>4, SumStep
<1>6. u # {}
  BY <1>4, <1>5
<1>7. One(u) \in u /\ IsFiniteSet(u \ {One(u)}) /\ Cardinality(u \ {One(u)}) < Cardinality(u)
  BY <1>4, <1>6, OneOfIt, OneLess
<1>8. u \ {One(u)} \notin F
  BY <1>3, <1>4, <1>7, FS_CardinalityType
<1>9. SumOf(w, u \ {One(u)}) = SumOf(v, u \ {One(u)})
  BY <1>4, <1>8
<1>10. w[One(u)] = v[One(u)]
  BY <1>4, <1>7
<1> HIDE DEF F
<1>11. QED BY <1>4, <1>5, <1>6, <1>9, <1>10

(* Any member may be taken out first.                                        *)
LEMMA SumTakesOut ==
    ASSUME NEW w, NEW S, IsFiniteSet(S), \A x \in S : w[x] \in Int, NEW z \in S
    PROVE  SumOf(w, S) = w[z] + SumOf(w, S \ {z})
<1> DEFINE F == {u \in SUBSET S : \E x \in u : SumOf(w, u) # w[x] + SumOf(w, u \ {x})}
<1>1. SUFFICES ASSUME F # {} PROVE FALSE
  OBVIOUS
<1>2. \A u \in F : IsFiniteSet(u)
  BY FS_Subset
<1>3. PICK u \in F : \A t \in F : Cardinality(u) <= Cardinality(t)
  <2> HIDE DEF F
  <2>1. PICK t \in F : TRUE
    BY <1>1
  <2>2. QED BY <1>2, <2>1, SmallestSet
<1>4. u \in SUBSET S /\ IsFiniteSet(u)
  BY <1>2
<1>5. PICK x \in u : SumOf(w, u) # w[x] + SumOf(w, u \ {x})
  OBVIOUS
<1> DEFINE c == One(u)
<1>6. c \in u /\ SumOf(w, u) = w[c] + SumOf(w, u \ {c})
  BY <1>4, <1>5, OneOfIt, SumStep
<1> HIDE DEF c
<1>7. c # x
  BY <1>5, <1>6
<1>8. \A y \in u : \A z1 \in u \ {y} : SumOf(w, u \ {y}) = w[z1] + SumOf(w, (u \ {y}) \ {z1})
  <2>1. SUFFICES ASSUME NEW y \in u PROVE u \ {y} \notin F
    BY <1>4
  <2>2. Cardinality(u \ {y}) < Cardinality(u) /\ Cardinality(u) \in Nat /\ Cardinality(u \ {y}) \in Nat
    BY <1>4, OneLess, FS_CardinalityType
  <2>3. QED BY <1>3, <2>2
<1> DEFINE r == SumOf(w, (u \ {c}) \ {x})
<1>9. SumOf(w, u \ {c}) = w[x] + r
  BY <1>5, <1>6, <1>7, <1>8
<1>10. (u \ {c}) \ {x} = (u \ {x}) \ {c}
  OBVIOUS
<1>11. SumOf(w, u \ {x}) = w[c] + r
  BY <1>5, <1>6, <1>7, <1>8, <1>10
<1>12. r \in Int
  <2>1. IsFiniteSet((u \ {c}) \ {x}) /\ \A y \in (u \ {c}) \ {x} : w[y] \in Int
    BY <1>4, FS_Subset
  <2>2. QED BY <2>1, SumIsANumber
<1>13. w[c] \in Int /\ w[x] \in Int
  BY <1>4, <1>6
<1> HIDE DEF F, r
<1>14. QED BY ONLY <1>5, <1>6, <1>9, <1>11, <1>12, <1>13

-----------------------------------------------------------------------------
(* What is held back is the sum of the estimates in flight.  A finite number  *)
(* of calls is in flight at a time, of however many threads.                *)
PendingIsExact == PendingIsInFlight /\ IsFiniteSet(Running)

LEMMA PendingForm ==
    /\ PendingIsInFlight <=> pending = SumOf(est, Running)
    /\ PendingIsInFlight' <=> pending' = SumOf(est', Running')
<1>1. PendingIsInFlight <=> pending = SumOf(est, Running)
  BY DEF PendingIsInFlight, SumOf
<1>2. PendingIsInFlight' <=> pending' = SumOf(est', Running')
  BY DEF PendingIsInFlight, SumOf, MapThenSumSet, MapThenFoldSet
<1>3. QED BY <1>1, <1>2

LEMMA PendingStart == ASSUME Init PROVE PendingIsExact
<1>1. Running = {} /\ IsFiniteSet(Running)
  BY FS_EmptySet DEF Init, Running, InFlight
<1>2. SumOf(est, Running) = 0
  BY <1>1, SumStep
<1>3. QED BY <1>1, <1>2, PendingForm DEF PendingIsExact, Init

(* Nothing that is in flight changes.                                        *)
LEMMA PendingStays ==
    ASSUME PendingIsExact, Running' = Running, \A t \in Running : est'[t] = est[t], pending' = pending
    PROVE  PendingIsExact'
<1>1. SumOf(est', Running) = SumOf(est, Running)
  BY SumsAreEqual DEF PendingIsExact
<1>2. QED BY <1>1, PendingForm DEF PendingIsExact

LEMMA PendingGrows ==
    ASSUME TypeOK, PendingIsExact, NEW t \in Threads \ Running, Running' = Running \cup {t}, est' = est,
           pending' = pending + est[t]
    PROVE  PendingIsExact'
<1>1. IsFiniteSet(Running \cup {t}) /\ (Running \cup {t}) \ {t} = Running
  BY FS_AddElement DEF PendingIsExact
<1>2. \A x \in Running \cup {t} : est[x] \in Int
  BY DEF TypeOK, Running
<1>3. SumOf(est, Running \cup {t}) = est[t] + SumOf(est, Running)
  <2>1. t \in Running \cup {t}
    OBVIOUS
  <2>2. QED BY <1>1, <1>2, <2>1, SumTakesOut
<1>4. est[t] \in Int /\ pending \in Int
  BY <1>2 DEF TypeOK
<1>5. QED BY <1>1, <1>3, <1>4, PendingForm DEF PendingIsExact

LEMMA PendingShrinks ==
    ASSUME TypeOK, PendingIsExact, NEW t \in Running, Running' = Running \ {t},
           \A x \in Running \ {t} : est'[x] = est[x], pending' = pending - est[t]
    PROVE  PendingIsExact'
<1>1. IsFiniteSet(Running) /\ IsFiniteSet(Running \ {t})
  BY FS_Subset DEF PendingIsExact
<1>2. \A x \in Running : est[x] \in Int
  BY DEF TypeOK, Running
<1>3. SumOf(est, Running) = est[t] + SumOf(est, Running \ {t})
  BY <1>1, <1>2, SumTakesOut
<1>4. SumOf(est', Running \ {t}) = SumOf(est, Running \ {t})
  BY <1>1, SumsAreEqual
<1>5. est[t] \in Int /\ pending \in Int /\ SumOf(est, Running \ {t}) \in Int
  BY <1>1, <1>2, SumIsANumber DEF TypeOK
<1>6. pending = SumOf(est, Running)
  BY PendingForm DEF PendingIsExact
<1>7. pending' = SumOf(est', Running')
  BY <1>3, <1>4, <1>5, <1>6
<1>8. QED BY <1>1, <1>7, PendingForm DEF PendingIsExact

LEMMA PendingStep == ASSUME TypeOK, PendingIsExact, [Next]_vars PROVE PendingIsExact'
<1> USE DEF TypeOK, InFlight
<1>1. ASSUME NEW t \in Threads, NEW e \in Estimates, Call(t, e) PROVE PendingIsExact'
  <2>1. Running' = Running /\ t \notin Running /\ pending' = pending /\ \A x \in Threads \ {t} : est'[x] = est[x]
    BY <1>1 DEF Call, Running
  <2>2. QED BY <2>1, PendingStays DEF Running
<1>2. ASSUME NEW t \in Threads, ReadTotal(t) \/ Refuse(t) PROVE PendingIsExact'
  <2>1. Running' = Running /\ pending' = pending /\ est' = est
    BY <1>2 DEF ReadTotal, Refuse, Running
  <2>2. QED BY <2>1, PendingStays
<1>3. ASSUME NEW t \in Threads, Admit(t) PROVE PendingIsExact'
  <2>1. Running' = Running \cup {t} /\ t \notin Running /\ est' = est /\ pending' = pending + est[t]
    BY <1>3 DEF Admit, Running
  <2>2. QED BY <2>1, PendingGrows
<1>4. ASSUME NEW t \in Threads, NEW c \in ResponseCosts(t), NEW next \in InFlight, Respond(t, c, next) PROVE PendingIsExact'
  <2>1. Running' = Running /\ pending' = pending /\ est' = est
    BY <1>4 DEF Respond, Running
  <2>2. QED BY <2>1, PendingStays
<1>5. ASSUME NEW t \in Threads, NEW next \in InFlight, ProviderError(t, next) PROVE PendingIsExact'
  <2>1. Running' = Running /\ pending' = pending /\ est' = est
    BY <1>5 DEF ProviderError, Running
  <2>2. QED BY <2>1, PendingStays
<1>6. ASSUME NEW t \in Threads, NEW e \in Estimates, Release(t, e) PROVE PendingIsExact'
  <2>1. t \in Running /\ Running' = Running \ {t} /\ pending' = pending - est[t]
    BY <1>6 DEF Release, Running
  <2>2. \A x \in Threads \ {t} : est'[x] = est[x]
    BY <1>6 DEF Release
  <2>3. \A x \in Running \ {t} : est'[x] = est[x]
    BY <2>2 DEF Running
  <2>4. QED BY <2>1, <2>3, PendingShrinks
<1>7. ASSUME NEW t \in Threads, GiveUp(t) PROVE PendingIsExact'
  <2>1. Running' = Running /\ t \notin Running /\ pending' = pending /\ \A x \in Threads \ {t} : est'[x] = est[x]
    BY <1>7 DEF GiveUp, Running
  <2>2. QED BY <2>1, PendingStays DEF Running
<1>8. CASE UNCHANGED vars
  <2>1. Running' = Running /\ pending' = pending /\ est' = est
    BY <1>8 DEF vars, Running
  <2>2. QED BY <2>1, PendingStays
<1> HIDE DEF TypeOK, InFlight
<1>9. QED BY <1>1, <1>2, <1>3, <1>4, <1>5, <1>6, <1>7, <1>8 DEF Next

-----------------------------------------------------------------------------
(* The same of each client of the day: a kill empties what it takes.         *)
ClientIsExact(c) == reserved[c] = SumOf(worst, Reserved(c))

LEMMA ClientForm ==
    /\ ReservedIsInFlight <=> \A c \in Clients : ClientIsExact(c)
    /\ ReservedIsInFlight' <=> \A c \in Clients : ClientIsExact(c)'
<1>1. ReservedIsInFlight <=> \A c \in Clients : ClientIsExact(c)
  BY DEF ReservedIsInFlight, ClientIsExact, SumOf, MapThenSumSet, MapThenFoldSet
<1>2. ReservedIsInFlight' <=> \A c \in Clients : ClientIsExact(c)'
  BY DEF ReservedIsInFlight, ClientIsExact, SumOf, MapThenSumSet, MapThenFoldSet
<1>3. QED BY <1>1, <1>2

LEMMA ReservedIsFinite == ASSUME NEW c PROVE IsFiniteSet(Reserved(c)) /\ IsFiniteSet(Reserved(c)')
<1>1. Reserved(c) \subseteq Callers /\ Reserved(c)' \subseteq Callers
  BY DEF Reserved
<1>2. QED BY <1>1, FS_Subset, DailyAssumption

LEMMA ClientStart == ASSUME DayInit PROVE ReservedIsInFlight
<1>1. SUFFICES ASSUME NEW c \in Clients PROVE ClientIsExact(c)
  BY ClientForm
<1>2. Reserved(c) = {} /\ reserved[c] = 0
  BY DEF DayInit, Reserved
<1>3. SumOf(worst, Reserved(c)) = 0
  BY <1>2, ReservedIsFinite, SumStep
<1>4. QED BY <1>2, <1>3 DEF ClientIsExact

LEMMA ClientStays ==
    ASSUME NEW c, ClientIsExact(c), Reserved(c)' = Reserved(c), \A t \in Reserved(c) : worst'[t] = worst[t],
           reserved'[c] = reserved[c]
    PROVE  ClientIsExact(c)'
<1>1. SumOf(worst', Reserved(c)) = SumOf(worst, Reserved(c))
  BY SumsAreEqual, ReservedIsFinite
<1>2. QED BY <1>1 DEF ClientIsExact

LEMMA ClientGrows ==
    ASSUME DayTypeOK, NEW c \in Clients, ClientIsExact(c), NEW t \in Callers \ Reserved(c),
           Reserved(c)' = Reserved(c) \cup {t}, worst' = worst, reserved'[c] = reserved[c] + worst[t]
    PROVE  ClientIsExact(c)'
<1>1. IsFiniteSet(Reserved(c) \cup {t}) /\ (Reserved(c) \cup {t}) \ {t} = Reserved(c)
  BY ReservedIsFinite
<1>2. \A x \in Reserved(c) \cup {t} : worst[x] \in Int
  BY DEF DayTypeOK, Reserved
<1>3. SumOf(worst, Reserved(c) \cup {t}) = worst[t] + SumOf(worst, Reserved(c))
  <2>1. t \in Reserved(c) \cup {t}
    OBVIOUS
  <2>2. QED BY <1>1, <1>2, <2>1, SumTakesOut
<1>4. worst[t] \in Int /\ reserved[c] \in Int
  BY <1>2 DEF DayTypeOK
<1>5. QED BY <1>3, <1>4 DEF ClientIsExact

LEMMA ClientShrinks ==
    ASSUME DayTypeOK, NEW c \in Clients, ClientIsExact(c), NEW t \in Reserved(c),
           Reserved(c)' = Reserved(c) \ {t}, \A x \in Reserved(c) \ {t} : worst'[x] = worst[x],
           reserved'[c] = reserved[c] - worst[t]
    PROVE  ClientIsExact(c)'
<1>1. IsFiniteSet(Reserved(c)) /\ IsFiniteSet(Reserved(c) \ {t})
  BY ReservedIsFinite, FS_Subset
<1>2. \A x \in Reserved(c) : worst[x] \in Int
  BY DEF DayTypeOK, Reserved
<1>3. SumOf(worst, Reserved(c)) = worst[t] + SumOf(worst, Reserved(c) \ {t})
  BY <1>1, <1>2, SumTakesOut
<1>4. SumOf(worst', Reserved(c) \ {t}) = SumOf(worst, Reserved(c) \ {t})
  BY <1>1, SumsAreEqual
<1>5. worst[t] \in Int /\ SumOf(worst, Reserved(c) \ {t}) \in Int
  BY <1>1, <1>2, SumIsANumber
<1>6. QED BY <1>3, <1>4, <1>5 DEF ClientIsExact

LEMMA ClientsStep == ASSUME DayTypeOK, ReservedIsInFlight, [DayNext]_dayVars PROVE ReservedIsInFlight'
<1>0. SUFFICES ASSUME NEW c \in Clients PROVE ClientIsExact(c)'
  BY ClientForm
<1>a. ClientIsExact(c)
  BY ClientForm
<1>1. ASSUME NEW t \in Callers, NEW e \in WorstCosts, Complete(t, e) PROVE ClientIsExact(c)'
  <2>1. Reserved(c)' = Reserved(c) /\ t \notin Reserved(c) /\ reserved' = reserved /\ \A x \in Callers \ {t} : worst'[x] = worst[x]
    BY <1>1 DEF Complete, Reserved, Goto, DayTypeOK
  <2>2. QED BY <1>a, <2>1, ClientStays DEF Reserved
<1>2. ASSUME NEW t \in Callers, ReadSpend(t) \/ RefuseCall(t) PROVE ClientIsExact(c)'
  <2>1. Reserved(c)' = Reserved(c) /\ reserved' = reserved /\ worst' = worst
    BY <1>2 DEF ReadSpend, RefuseCall, Reserved, Goto, DayTypeOK
  <2>2. QED BY <1>a, <2>1, ClientStays
<1>3. ASSUME NEW t \in Callers, Reserve(t) PROVE ClientIsExact(c)'
  <2>1. CASE Owner[t] = c
    <3>1. Reserved(c)' = Reserved(c) \cup {t} /\ t \notin Reserved(c) /\ worst' = worst /\ reserved'[c] = reserved[c] + worst[t]
      BY <1>3, <2>1 DEF Reserve, Reserved, Goto, DayTypeOK
    <3>2. QED BY <1>a, <3>1, ClientGrows
  <2>2. CASE Owner[t] # c
    <3>1. Reserved(c)' = Reserved(c) /\ worst' = worst /\ reserved'[c] = reserved[c]
      BY <1>3, <2>2 DEF Reserve, Reserved, Goto, DayTypeOK
    <3>2. QED BY <1>a, <3>1, ClientStays
  <2>3. QED BY <2>1, <2>2
<1>4. ASSUME NEW t \in Callers, NEW cost \in 0..worst[t], Answer(t, cost) PROVE ClientIsExact(c)'
  <2>1. Reserved(c)' = Reserved(c) /\ reserved' = reserved /\ worst' = worst
    BY <1>4 DEF Answer, Reserved, Goto, DayTypeOK
  <2>2. QED BY <1>a, <2>1, ClientStays
<1>5. ASSUME NEW t \in Callers, Fail(t) PROVE ClientIsExact(c)'
  <2>1. Reserved(c)' = Reserved(c) /\ reserved' = reserved /\ worst' = worst
    BY <1>5 DEF Fail, Reserved, Goto, DayTypeOK
  <2>2. QED BY <1>a, <2>1, ClientStays
<1>6. ASSUME NEW t \in Callers, ReleaseCall(t) PROVE ClientIsExact(c)'
  <2>1. \A x \in Callers \ {t} : worst'[x] = worst[x]
    BY <1>6 DEF ReleaseCall, Done, DayTypeOK
  <2>2. stage'[t] \in {"unrecorded", "idle"} /\ \A x \in Callers \ {t} : stage'[x] = stage[x]
    BY <1>6 DEF ReleaseCall, Done, Goto, DayTypeOK
  <2>3. CASE Owner[t] = c
    <3>1. t \in Reserved(c) /\ Reserved(c)' = Reserved(c) \ {t}
      BY <1>6, <2>2, <2>3 DEF ReleaseCall, Reserved
    <3>2. reserved'[c] = reserved[c] - worst[t]
      BY <1>6, <2>3 DEF ReleaseCall, DayTypeOK
    <3>3. \A x \in Reserved(c) \ {t} : worst'[x] = worst[x]
      BY <2>1 DEF Reserved
    <3>4. QED BY <1>a, <3>1, <3>2, <3>3, ClientShrinks
  <2>4. CASE Owner[t] # c
    <3>1. t \notin Reserved(c) /\ Reserved(c)' = Reserved(c)
      BY <2>2, <2>4 DEF Reserved
    <3>2. reserved'[c] = reserved[c]
      BY <1>6, <2>4 DEF ReleaseCall, DayTypeOK
    <3>3. \A x \in Reserved(c) : worst'[x] = worst[x]
      BY <2>1, <3>1 DEF Reserved
    <3>4. QED BY <1>a, <3>1, <3>2, <3>3, ClientStays
  <2>5. QED BY <2>3, <2>4
<1>7. ASSUME NEW t \in Callers, Record(t) \/ LeaveRefused(t) PROVE ClientIsExact(c)'
  <2>1. \A x \in Callers \ {t} : worst'[x] = worst[x]
    BY <1>7 DEF Record, LeaveRefused, Done, DayTypeOK
  <2>2. stage[t] \in {"unrecorded", "refused"} /\ stage'[t] = "idle" /\ \A x \in Callers \ {t} : stage'[x] = stage[x]
    BY <1>7 DEF Record, LeaveRefused, Done, Goto, DayTypeOK
  <2>3. t \notin Reserved(c) /\ Reserved(c)' = Reserved(c) /\ reserved' = reserved
    BY <1>7, <2>2 DEF Reserved, Record, LeaveRefused
  <2>4. \A x \in Reserved(c) : worst'[x] = worst[x]
    BY <2>1, <2>3 DEF Reserved
  <2>5. QED BY <1>a, <2>3, <2>4, ClientStays
<1>8. CASE Midnight \/ UNCHANGED dayVars
  <2>1. Reserved(c)' = Reserved(c) /\ reserved' = reserved /\ worst' = worst
    BY <1>8 DEF Midnight, Reserved, dayVars
  <2>2. QED BY <1>a, <2>1, ClientStays
<1>9. ASSUME NEW k \in Clients, Kill(k) PROVE ClientIsExact(c)'
  <2>1. CASE k = c
    <3>1. Reserved(c)' = {} /\ reserved'[c] = 0
      BY <1>9, <2>1 DEF Kill, Reserved, DayTypeOK
    <3>2. SumOf(worst', {}) = 0
      BY FS_EmptySet, SumStep
    <3>3. QED BY <3>1, <3>2 DEF ClientIsExact
  <2>2. CASE k # c
    <3>1. /\ \A t \in Callers : Owner[t] = c => stage'[t] = stage[t] /\ worst'[t] = worst[t]
          /\ reserved'[c] = reserved[c]
      BY <1>9, <2>2 DEF Kill, DayTypeOK
    <3>2. Reserved(c)' = Reserved(c)
      BY <3>1 DEF Reserved
    <3>3. \A t \in Reserved(c) : worst'[t] = worst[t]
      BY <3>1 DEF Reserved
    <3>4. QED BY <1>a, <3>1, <3>2, <3>3, ClientStays
  <2>3. QED BY <2>1, <2>2
<1>10. QED BY <1>1, <1>2, <1>3, <1>4, <1>5, <1>6, <1>7, <1>8, <1>9 DEF DayNext

(* What is held back for open calls is exactly what they may cost, in a run   *)
(* and in each client of the day, also after refusals, failures and kills:    *)
(* it neither leaks nor is given back twice (usage.Budget.hold,               *)
(* openrouter.OpenRouter.complete).                                          *)
THEOREM NothingLeaks == CapSpec => []ReservationsAreExact
<1> DEFINE Inv == TypeOK /\ DayTypeOK /\ PendingIsExact /\ ReservedIsInFlight
<1>1. Caps => Inv
  <2>1. Init => TypeOK
    BY NoThreadAssumption DEF Init, TypeOK, InFlight
  <2>2. DayInit => DayTypeOK
    BY DailyAssumption DEF DayInit, DayTypeOK
  <2>3. QED BY <2>1, <2>2, PendingStart, ClientStart DEF Caps
<1>2. Inv /\ [Calls]_<<which, vars, dayVars, hostVars>> => Inv'
  <2>1. SUFFICES ASSUME Inv, [Calls]_<<which, vars, dayVars, hostVars>> PROVE Inv'
    OBVIOUS
  <2>2. [Next]_vars /\ [DayNext]_dayVars
    BY <2>1 DEF Calls
  <2>3. TypeOK' /\ DayTypeOK'
    BY <2>1, <2>2, TypeStep, CapTypeStep
  <2>4. PendingIsExact' /\ ReservedIsInFlight'
    BY <2>1, <2>2, PendingStep, ClientsStep
  <2>5. QED BY <2>3, <2>4
<1>3. Inv => ReservationsAreExact
  BY DEF ReservationsAreExact, PendingIsExact
<1>4. QED BY <1>1, <1>2, <1>3, PTL DEF CapSpec
==============================================================================
