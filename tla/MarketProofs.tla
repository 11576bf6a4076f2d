---------------------------- MODULE MarketProofs ------------------------------
(***************************************************************************)
(* Proofs about BarStore, for any readers, processes and times: it           *)
(* implements BarService, and it spares a run what it has; and about         *)
(* FetchCache: its answers are current and none that holds is lost; and about *)
(* HttpClient, for any threads, requests, policy and limit: its calls are    *)
(* spaced and its waits bounded.                                             *)
(*                                                                         *)
(* Everything kept - in the file, in a process's memory, in a reader's hands *)
(* - is a stretch of one edition, from a day no later than the one it is     *)
(* kept under.  An extension stays one because the overlap it is compared on *)
(* holds a final bar of the stored history: a rescaled one would differ.     *)
(*                                                                         *)
(* A fetched answer's turn comes in time because the names no newer than it, *)
(* and the shares of the nights since it was fetched, are never more than    *)
(* all names: each night takes its share from the oldest.                    *)
(*                                                                         *)
(* Calls are spaced because whoever holds the rate lock sleeps at least as   *)
(* long as the interval still has to run, and nobody else can stamp a call   *)
(* meanwhile.                                                                *)
(*                                                                         *)
(* And about YfGateway, for any number of threads and calls, every rate and   *)
(* every cooldown: slots are apart because whoever sleeps towards one is at    *)
(* least the ceiling's interval before the next slot; a cooldown leaks no more *)
(* than the semaphore's places because a request sent during it was asleep     *)
(* towards an earlier slot when it began, and such sleepers only get fewer.   *)
(*                                                                         *)
(* And about the price model's data: AsFiled's rows are of what anyone could  *)
(* read by their day; TrainingSet's models are tested on rows whose labels     *)
(* begin after those they learned from have closed; RatioCache keeps no date   *)
(* as asked for what a lost chunk left out, and leaves the quota's reserve.   *)
(***************************************************************************)
EXTENDS BarStore, FetchCache, HttpClient, YfGateway, AsFiled, TrainingSet, RatioCache,
        FiniteSetTheorems, TLAPS

Bar == [adj : Nat, final : BOOLEAN]
Histories == UNION {[S -> Bar] : S \in SUBSET Nat}
Files == [from : Nat, at : Nat, bars : Histories]
Tasks == [start : Nat, from : Nat, stored : Files \cup {None}, got : Histories \cup {NoBars}, keep : Nat]

Typed ==
    /\ clock \in Nat /\ adj \in Nat
    /\ editions \subseteq [day : Nat, closed : BOOLEAN, adj : Nat]
    /\ file \in Files \cup {None}
    /\ bars \in [Processes -> Files \cup {None}]
    /\ at \in [Readers -> {"idle"} \cup Syncing]
    /\ task \in [Readers -> Tasks]

EditionsOK == Edition \in editions /\ \A e \in editions : e.day <= Today

Nothing0 == [d \in {} |-> 0]
IsHistory(f) == \E e \in editions : \E first \in 0..e.day : f = Service!Stretch(e, first)
HistoryFrom(f, n) == \E e \in editions : \E first \in 0..e.day : first <= n /\ f = Service!Stretch(e, first)

\* A file, and what a reader has seen of it.
Kept(s) == s # None => HistoryFrom(s.bars, s.from)
MemoryOK == \A p \in Processes : bars[p] # None => bars[p].bars = Nothing0 \/ IsHistory(bars[p].bars)

CallOK(r) ==
    /\ at[r] # "idle" => task[r].from <= task[r].start /\ task[r].start <= Today
    /\ at[r] \in {"delta", "whole", "save"} => Kept(task[r].stored)
    /\ at[r] = "delta" => task[r].stored # None /\ task[r].stored.from <= task[r].from
    /\ at[r] = "save" => /\ HistoryFrom(task[r].got, task[r].keep)
                         /\ task[r].keep <= task[r].from
                         /\ task[r].stored # None => task[r].keep <= task[r].stored.from

AloneInProcess ==
    \A r, s \in Readers \ Batch :
        ProcessOf[r] = ProcessOf[s] /\ at[r] # "idle" /\ at[s] # "idle" => r = s
NotInMemory == \A r \in Readers \ Batch : at[r] # "idle" => ~InMemory(r, task[r].from)

Inv ==
    /\ Typed /\ EditionsOK /\ Kept(file) /\ MemoryOK
    /\ \A r \in Readers : CallOK(r)
    /\ given = NoBars \/ IsHistory(given)
    /\ AloneInProcess /\ NotInMemory


-----------------------------------------------------------------------------
(* Time, and the ends of an interval.                                       *)
LEMMA Bounds ==
    /\ TICKER_CACHE_TTL \in Nat /\ OVERLAP_DAYS \in Nat /\ OVERLAP_DAYS > 0
    /\ BARS_MIN_DAYS \in Nat /\ StaleDays \in Nat
    /\ ProcessOf \in [Readers -> Processes]
BY BarAssumption

LEMMA EndsOfRange ==
    ASSUME NEW a \in Nat, NEW b \in Nat, a <= b
    PROVE  Min(a..b) = a /\ Max(a..b) = b
<1>1. a \in a..b /\ b \in a..b /\ \A x \in a..b : a <= x /\ x <= b
  OBVIOUS
<1>2. \A x \in a..b : (\A y \in a..b : x <= y) => x = a
  BY <1>1
<1>3. \A x \in a..b : (\A y \in a..b : x >= y) => x = b
  BY <1>1
<1>4. QED BY <1>1, <1>2, <1>3 DEF Min, Max

LEMMA DayNumber == (clock \in Nat => Today \in Nat) /\ (clock' \in Nat => Today' \in Nat)
<1>1. \A n \in Nat : n \div 2 \in Nat
  OBVIOUS
<1>2. QED BY <1>1 DEF Today

LEMMA DayPasses == clock \in Nat /\ clock' = clock + 1 => Today <= Today'
BY DEF Today

(* A stretch is a function on its days.                                      *)
LEMMA StretchForm ==
    ASSUME Typed, NEW e \in editions, NEW first \in 0..e.day
    PROVE  /\ Service!Stretch(e, first) \in Histories
           /\ DOMAIN Service!Stretch(e, first) = first..e.day
           /\ \A d \in first..e.day : Service!Stretch(e, first)[d] = [adj |-> e.adj, final |-> d < e.day \/ e.closed]
           /\ Min(DOMAIN Service!Stretch(e, first)) = first
           /\ Max(DOMAIN Service!Stretch(e, first)) = e.day
<1>1. e.day \in Nat /\ e.adj \in Nat /\ e.closed \in BOOLEAN /\ first \in Nat /\ first <= e.day
  BY DEF Typed
<1>2. \A d \in first..e.day : [adj |-> e.adj, final |-> d < e.day \/ e.closed] \in Bar
  BY <1>1 DEF Bar
<1>3. first..e.day \in SUBSET Nat
  BY <1>1
<1>4. Service!Stretch(e, first) \in [first..e.day -> Bar]
  BY <1>2 DEF Service!Stretch
<1>5. Service!Stretch(e, first) \in Histories
  BY <1>3, <1>4 DEF Histories
<1>6. DOMAIN Service!Stretch(e, first) = first..e.day
  BY DEF Service!Stretch
<1>7. QED BY <1>1, <1>5, <1>6, EndsOfRange DEF Service!Stretch


(* What is cut from a stretch is one of the same edition, or nothing.        *)
LEMMA CutStretch ==
    ASSUME Typed, NEW e \in editions, NEW first \in 0..e.day, NEW n \in Nat
    PROVE  LET f == Service!Stretch(e, first) IN
           /\ n > e.day => Trim(f, n) = Nothing0
           /\ n <= first => Trim(f, n) = f
           /\ first <= n /\ n <= e.day => Trim(f, n) = Service!Stretch(e, n)
<1> DEFINE f == Service!Stretch(e, first)
<1>1. e.day \in Nat /\ first \in Nat /\ first <= e.day
  BY DEF Typed
<1>2. DOMAIN f = first..e.day /\ \A d \in first..e.day : f[d] = [adj |-> e.adj, final |-> d < e.day \/ e.closed]
  BY StretchForm
<1>3. CASE n > e.day
  <2>1. {x \in DOMAIN f : x >= n} = {}
    BY <1>1, <1>2, <1>3
  <2>2. QED BY <1>1, <1>3, <2>1 DEF Trim, Nothing0
<1>4. CASE n <= first
  <2>1. {x \in DOMAIN f : x >= n} = DOMAIN f
    BY <1>1, <1>2, <1>4
  <2>2. Trim(f, n) = [d \in DOMAIN f |-> f[d]]
    BY <2>1 DEF Trim
  <2>3. f = [d \in DOMAIN f |-> f[d]]
    BY DEF Service!Stretch
  <2>4. Trim(f, n) = f
    BY <2>2, <2>3
  <2>5. n = first \/ ~(first <= n)
    BY <1>1, <1>4
  <2>6. QED BY <1>1, <1>4, <2>4, <2>5
<1>5. CASE first <= n /\ n <= e.day
  <2>1. {x \in DOMAIN f : x >= n} = n..e.day
    BY <1>1, <1>2, <1>5
  <2>2. Trim(f, n) = [d \in n..e.day |-> f[d]]
    BY <2>1 DEF Trim
  <2>3. \A d \in n..e.day : d \in first..e.day
    BY <1>1, <1>5
  <2>4. Trim(f, n) = [d \in n..e.day |-> [adj |-> e.adj, final |-> d < e.day \/ e.closed]]
    BY <1>2, <2>2, <2>3
  <2>5. Trim(f, n) = Service!Stretch(e, n)
    BY <2>4 DEF Service!Stretch
  <2>6. n <= first => n = first
    BY <1>1, <1>5
  <2>7. QED BY <1>1, <1>5, <2>5, <2>6
<1>6. QED BY <1>1, <1>3, <1>4, <1>5

(* A held history is one or nothing.                                        *)
Held(f) == f = Nothing0 \/ IsHistory(f)

LEMMA HeldForm ==
    ASSUME Typed, NEW f, Held(f)
    PROVE  f \in Histories
<1>1. Nothing0 \in [{} -> Bar]
  BY DEF Nothing0
<1>2. Nothing0 \in Histories
  BY <1>1 DEF Histories
<1>3. QED BY <1>2, StretchForm DEF Held, IsHistory

LEMMA CutHeld ==
    ASSUME Typed, NEW f, Held(f), NEW n \in Nat
    PROVE  Held(Trim(f, n))
<1>1. CASE f = Nothing0
  <2>1. {x \in DOMAIN Nothing0 : x >= n} = {}
    BY DEF Nothing0
  <2>2. QED BY <1>1, <2>1 DEF Trim, Nothing0, Held
<1>2. CASE IsHistory(f)
  <2>1. PICK e \in editions : \E first \in 0..e.day : f = Service!Stretch(e, first)
    BY <1>2 DEF IsHistory
  <2>2. PICK first \in 0..e.day : f = Service!Stretch(e, first)
    BY <2>1
  <2>3. e.day \in Nat /\ first \in Nat
    BY DEF Typed
  <2>4. CASE n > e.day
    BY <2>2, <2>4, CutStretch DEF Held
  <2>5. CASE n <= first
    BY <1>2, <2>2, <2>5, CutStretch DEF Held
  <2>6. CASE first <= n /\ n <= e.day
    <3>1. Trim(f, n) = Service!Stretch(e, n) /\ n \in 0..e.day
      BY <2>2, <2>3, <2>6, CutStretch
    <3>2. QED BY <3>1 DEF Held, IsHistory
  <2>7. QED BY <2>3, <2>4, <2>5, <2>6
<1>3. QED BY <1>1, <1>2 DEF Held

LEMMA SliceIsHistory ==
    ASSUME Typed, NEW f, Held(f), NEW n \in Nat
    PROVE  Slice(f, n) = NoBars \/ IsHistory(Slice(f, n))
<1>1. Held(Trim(f, n))
  BY CutHeld
<1>2. QED BY <1>1 DEF Slice, Held, Nothing0

(* Where a history goes back far enough, the cut one begins on the day.      *)
LEMMA SliceBegins ==
    ASSUME Typed, NEW m \in Nat, NEW n \in Nat, NEW s \in Nat, m <= n, n <= s,
           NEW f, HistoryFrom(f, m), Slice(Trim(f, n), s) # NoBars
    PROVE  First(Slice(Trim(f, n), s)) = s
<1>1. PICK e \in editions : \E first \in 0..e.day : first <= m /\ f = Service!Stretch(e, first)
  BY DEF HistoryFrom
<1>2. PICK first \in 0..e.day : first <= m /\ f = Service!Stretch(e, first)
  BY <1>1
<1>3. e.day \in Nat /\ first \in Nat /\ first <= n
  BY <1>2 DEF Typed
<1>4. CASE n > e.day
  <2>1. Trim(f, n) = Nothing0
    BY <1>2, <1>4, CutStretch
  <2>2. {x \in DOMAIN Nothing0 : x >= s} = {}
    BY DEF Nothing0
  <2>3. Trim(Nothing0, s) = Nothing0
    BY <2>2 DEF Trim, Nothing0
  <2>4. QED BY <2>1, <2>3 DEF Slice, Nothing0
<1>5. CASE n <= e.day
  <2>1. Trim(f, n) = Service!Stretch(e, n) /\ n \in 0..e.day
    BY <1>2, <1>3, <1>5, CutStretch
  <2>2. CASE s > e.day
    <3>1. Trim(Trim(f, n), s) = Nothing0
      BY <2>1, <2>2, CutStretch
    <3>2. QED BY <3>1 DEF Slice, Nothing0
  <2>3. CASE s <= e.day
    <3>1. Trim(Trim(f, n), s) = Service!Stretch(e, s) /\ s \in 0..e.day
      BY <1>3, <2>1, <2>3, CutStretch
    <3>2. Slice(Trim(f, n), s) = Service!Stretch(e, s)
      BY <3>1 DEF Slice, Nothing0
    <3>3. QED BY <3>1, <3>2, StretchForm DEF First
  <2>4. QED BY <1>3, <2>2, <2>3
<1>6. QED BY <1>3, <1>4, <1>5


-----------------------------------------------------------------------------
(* A download is the end of the edition of its moment.                       *)
LEMMA DownloadIsTheEdition ==
    ASSUME Typed, EditionsOK, NEW n \in Int, n <= Today
    PROVE  /\ AtLeastZero(n) \in 0..Edition.day /\ Edition.day = Today /\ Edition \in editions
           /\ Yahoo(n) = Service!Stretch(Edition, AtLeastZero(n))
<1>1. Today \in Nat
  BY DayNumber DEF Typed
<1>2. AtLeastZero(n) \in 0..Today
  BY <1>1 DEF AtLeastZero
<1>3. Edition.day = Today /\ Edition.closed = Closed /\ Edition.adj = adj
  BY DEF Edition
<1>4. Yahoo(n) = Service!Stretch(Edition, AtLeastZero(n))
  BY <1>3 DEF Yahoo, Service!Stretch
<1>5. QED BY <1>2, <1>3, <1>4 DEF EditionsOK

(* Topped up with bars that do not differ on its final days, a history is one *)
(* of today's edition that goes back at least as far.                       *)
LEMMA ExtensionIsHistory ==
    ASSUME Typed, EditionsOK, NEW m \in Nat, NEW f, HistoryFrom(f, m),
           ~NeedsFullRefetch(f, Yahoo(OverlapStart(f)))
    PROVE  HistoryFrom(Extend(f, Yahoo(OverlapStart(f))), m)
<1>1. PICK e \in editions : \E first \in 0..e.day : first <= m /\ f = Service!Stretch(e, first)
  BY DEF HistoryFrom
<1>2. PICK first \in 0..e.day : first <= m /\ f = Service!Stretch(e, first)
  BY <1>1
<1>3. /\ e.day \in Nat /\ e.adj \in Nat /\ e.closed \in BOOLEAN /\ first \in Nat /\ first <= e.day
      /\ Today \in Nat /\ e.day <= Today /\ adj \in Nat
  BY DayNumber DEF Typed, EditionsOK
<1> DEFINE since == OverlapStart(f)
           delta == Yahoo(since)
           o == AtLeastZero(since)
<1>4. LastDay(f) = e.day /\ since = e.day - OVERLAP_DAYS
  BY <1>2, StretchForm DEF LastDay, OverlapStart
<1>5. since \in Int /\ since <= Today /\ since < e.day
  BY <1>3, <1>4, Bounds
<1>6. /\ o \in 0..Edition.day /\ Edition.day = Today /\ Edition \in editions
      /\ delta = Service!Stretch(Edition, o)
  BY <1>5, DownloadIsTheEdition
<1>7. DOMAIN delta = o..Today /\ First(delta) = o /\ o \in Nat /\ o <= Today
  BY <1>3, <1>6, StretchForm DEF First
<1>8. \A d \in o..Today : delta[d] = [adj |-> adj, final |-> d < Today \/ Closed]
  BY <1>6, StretchForm DEF Edition
<1>9. DOMAIN f = first..e.day /\ \A d \in first..e.day : f[d] = [adj |-> e.adj, final |-> d < e.day \/ e.closed]
  BY <1>2, StretchForm
<1>10. Extend(f, delta) = [d \in {x \in DOMAIN f : x < o} \cup DOMAIN delta |-> IF d \in DOMAIN delta THEN delta[d] ELSE f[d]]
  BY <1>7 DEF Extend
<1> HIDE DEF since, delta, o
<1>11. CASE o <= first
  <2>1. {x \in DOMAIN f : x < o} = {}
    BY <1>3, <1>7, <1>9, <1>11
  <2>2. Extend(f, delta) = [d \in DOMAIN delta |-> delta[d]]
    BY <1>10, <2>1
  <2>3. Extend(f, delta) = Service!Stretch(Edition, o)
    BY <1>6, <2>2 DEF Service!Stretch
  <2>4. o <= m
    BY <1>2, <1>3, <1>7, <1>11
  <2>5. QED BY <1>6, <2>3, <2>4 DEF HistoryFrom, delta, since
<1>12. CASE first < o
  <2>1. o = since /\ o < e.day
    BY <1>5, <1>7, <1>12, <1>3 DEF o, AtLeastZero
  <2>2. o \in DOMAIN delta /\ o \in DOMAIN f /\ o < LastDay(f)
    BY <1>3, <1>4, <1>7, <1>9, <1>12, <2>1
  <2>3. delta[o] = f[o]
    BY <2>2 DEF NeedsFullRefetch, delta, since
  <2>4. e.adj = adj
    <3>1. delta[o].adj = adj
      BY <1>7, <1>8
    <3>2. f[o].adj = e.adj
      <4>1. o \in first..e.day
        BY <1>9, <2>2
      <4>2. f[o] = [adj |-> e.adj, final |-> o < e.day \/ e.closed]
        BY <1>9, <4>1
      <4>3. QED BY <4>2
    <3>3. QED BY <2>3, <3>1, <3>2
  <2>5. \A d \in first..o - 1 : f[d] = [adj |-> adj, final |-> TRUE]
    <3>1. ASSUME NEW d \in first..o - 1
          PROVE  d \in first..e.day /\ d < e.day
      BY <1>3, <1>7, <2>1
    <3>2. \A d \in first..o - 1 : f[d] = [adj |-> e.adj, final |-> d < e.day \/ e.closed] /\ d < e.day
      BY <1>9, <3>1
    <3>3. QED BY <2>4, <3>2
  <2>6. {x \in DOMAIN f : x < o} \cup DOMAIN delta = first..Today
    BY <1>3, <1>7, <1>9, <1>12, <2>1
  <2>7. ASSUME NEW d \in first..Today
        PROVE  (IF d \in DOMAIN delta THEN delta[d] ELSE f[d]) = [adj |-> adj, final |-> d < Today \/ Closed]
    <3>1. CASE d \in o..Today
      BY <1>7, <1>8, <3>1
    <3>2. CASE d \notin o..Today
      <4>1. d \in first..o - 1 /\ d < Today
        BY <1>3, <1>7, <3>2
      <4>2. f[d] = [adj |-> adj, final |-> TRUE]
        BY <2>5, <4>1
      <4>3. (d < Today \/ Closed) = TRUE
        BY <4>1
      <4>4. QED BY <1>7, <3>2, <4>2, <4>3
    <3>3. QED BY <3>1, <3>2
  <2>8. Extend(f, delta) = [d \in first..Today |-> [adj |-> adj, final |-> d < Today \/ Closed]]
    BY <1>10, <2>6, <2>7
  <2>9. Extend(f, delta) = Service!Stretch(Edition, first)
    BY <2>8 DEF Service!Stretch, Edition
  <2>10. first \in 0..Edition.day
    BY <1>3, <1>6, <1>7, <1>12
  <2>11. QED BY <1>2, <1>6, <2>9, <2>10 DEF HistoryFrom, delta, since
<1>13. QED BY <1>3, <1>7, <1>11, <1>12


-----------------------------------------------------------------------------
(* Editions are only added.                                                *)
LEMMA HistoriesLast ==
    ASSUME editions \subseteq editions'
    PROVE  /\ \A f : IsHistory(f) => IsHistory(f)'
           /\ \A f : Held(f) => Held(f)'
           /\ \A f, n : HistoryFrom(f, n) => HistoryFrom(f, n)'
BY DEF IsHistory, HistoryFrom, Held, Service!Stretch


(* A reader's call ends: with a history of what it has, or with nothing.      *)
LEMMA CallEnds ==
    ASSUME Inv, NEW r \in Readers, NEW g, Give(r, g), g = NoBars \/ IsHistory(g),
           UNCHANGED <<clock, adj, editions>>,
           file' \in Files \cup {None}, Kept(file)',
           \/ UNCHANGED bars
           \/ \E f : /\ r \notin Batch /\ at[r] # "idle" /\ Held(f)
                     /\ bars' = [bars EXCEPT ![ProcessOf[r]] = [from |-> task[r].from, at |-> clock, bars |-> f]]
    PROVE  Inv'
<1>1. Typed /\ ProcessOf \in [Readers -> Processes]
  BY Bounds DEF Inv
<1>2. /\ at' = [at EXCEPT ![r] = "idle"] /\ task' = [task EXCEPT ![r] = NoTask]
      /\ given' = g /\ clock' = clock /\ adj' = adj /\ editions' = editions
  BY DEF Give
<1>3. \A f : Held(f) => [from |-> task[r].from, at |-> clock, bars |-> f] \in Files
  <2>1. task[r].from \in Nat /\ clock \in Nat
    BY <1>1 DEF Typed, Tasks
  <2>2. QED BY <1>1, <2>1, HeldForm DEF Files
<1>4. bars' \in [Processes -> Files \cup {None}]
  <2>1. CASE UNCHANGED bars
    BY <1>1, <2>1 DEF Typed
  <2>2. CASE ~UNCHANGED bars
    <3>1. PICK f : /\ Held(f)
                   /\ bars' = [bars EXCEPT ![ProcessOf[r]] = [from |-> task[r].from, at |-> clock, bars |-> f]]
      BY <2>2
    <3>2. [from |-> task[r].from, at |-> clock, bars |-> f] \in Files
      BY <1>3, <3>1
    <3>3. QED BY <1>1, <3>1, <3>2 DEF Typed
  <2>3. QED BY <2>1, <2>2
<1>5. NoTask \in Tasks
  BY DEF NoTask, Tasks
<1>6. Typed'
  BY <1>1, <1>2, <1>4, <1>5 DEF Typed
<1>7. EditionsOK'
  BY <1>2 DEF Inv, EditionsOK, Edition, Today, Closed
<1>10. MemoryOK'
  <2>1. CASE UNCHANGED bars
    BY <1>2, <2>1 DEF Inv, MemoryOK, IsHistory
  <2>2. CASE ~UNCHANGED bars
    <3>1. PICK f : /\ Held(f)
                   /\ bars' = [bars EXCEPT ![ProcessOf[r]] = [from |-> task[r].from, at |-> clock, bars |-> f]]
      BY <2>2
    <3>2. ASSUME NEW p \in Processes, bars'[p] # None
          PROVE  (bars[p].bars = Nothing0 \/ IsHistory(bars[p].bars))'
      <4>1. CASE p = ProcessOf[r]
        <5>1. bars'[p].bars = f
          BY <1>1, <3>1, <4>1 DEF Typed
        <5>2. QED BY <1>2, <3>1, <5>1 DEF Held, IsHistory
      <4>2. CASE p # ProcessOf[r]
        <5>1. bars'[p] = bars[p]
          BY <1>1, <3>1, <4>2 DEF Typed
        <5>2. QED BY <1>2, <3>2, <5>1 DEF Inv, MemoryOK, IsHistory
      <4>3. QED BY <4>1, <4>2
    <3>3. QED BY <3>2 DEF MemoryOK
  <2>3. QED BY <2>1, <2>2
<1>11. ASSUME NEW s \in Readers PROVE CallOK(s)'
  <2>1. CASE s = r
    <3>1. at'[s] = "idle"
      BY <1>1, <1>2, <2>1 DEF Typed
    <3>2. QED BY <3>1 DEF CallOK
  <2>2. CASE s # r
    <3>1. at'[s] = at[s] /\ task'[s] = task[s]
      BY <1>1, <1>2, <2>2 DEF Typed
    <3>2. CallOK(s)
      BY DEF Inv
    <3>3. QED BY <1>2, <3>1, <3>2 DEF CallOK, Kept, HistoryFrom, Today
  <2>3. QED BY <2>1, <2>2
<1>12. AloneInProcess'
  BY <1>1, <1>2 DEF Inv, AloneInProcess, Typed
<1>13. NotInMemory'
  <2>1. SUFFICES ASSUME NEW s \in Readers \ Batch, at'[s] # "idle" PROVE ~InMemory(s, task[s].from)'
    BY DEF NotInMemory
  <2>2. s # r /\ at[s] # "idle" /\ task'[s] = task[s]
    BY <1>1, <1>2, <2>1 DEF Typed
  <2>3. bars'[ProcessOf[s]] = bars[ProcessOf[s]]
    <3>1. r \notin Batch /\ at[r] # "idle" => ProcessOf[r] # ProcessOf[s]
      BY <2>2 DEF Inv, AloneInProcess
    <3>2. QED BY <1>1, <3>1 DEF Typed
  <2>4. ~InMemory(s, task[s].from)
    BY <2>2 DEF Inv, NotInMemory
  <2>5. QED BY <1>2, <2>2, <2>3, <2>4 DEF InMemory, Fresh
<1>14. given' = NoBars \/ IsHistory(given)'
  BY <1>2 DEF IsHistory
<1>15. QED BY <1>6, <1>7, <1>10, <1>11, <1>12, <1>13, <1>14 DEF Inv


(* Time passes, and Yahoo publishes: what is kept stays what it is.          *)
LEMMA InvPasses == Inv /\ Passes => Inv'
<1> SUFFICES ASSUME Inv, Passes PROVE Inv'
  OBVIOUS
<1>1. /\ clock' = clock + 1 /\ editions' = editions \cup {Edition'}
      /\ file' = file /\ bars' = bars /\ at' = at /\ task' = task /\ given' = given
      /\ \A r \in Readers : at[r] # "save"
  BY DEF Passes
<1>2. Typed /\ clock \in Nat /\ adj' \in Nat /\ Today \in Nat /\ Today <= Today' /\ Today' \in Nat
  <2>1. Typed /\ clock \in Nat /\ adj \in Nat /\ clock' \in Nat
    BY <1>1 DEF Inv, Typed
  <2>2. adj' \in Nat
    BY <2>1 DEF Passes
  <2>3. Today \in Nat /\ Today' \in Nat
    BY <2>1, DayNumber
  <2>4. QED BY <1>1, <2>1, <2>2, <2>3, DayPasses
<1>3. Typed'
  <2>1. Edition' \in [day : Nat, closed : BOOLEAN, adj : Nat]
    BY <1>2 DEF Edition, Closed
  <2>2. QED BY <1>1, <1>2, <2>1 DEF Typed
<1>4. EditionsOK'
  <2>1. Edition' \in editions' /\ Edition'.day = Today'
    BY <1>1 DEF Edition
  <2>2. \A e \in editions : e.day \in Nat /\ e.day <= Today
    BY <1>2 DEF Inv, EditionsOK, Typed
  <2>3. \A e \in editions' : e.day <= Today'
    BY <1>1, <1>2, <2>1, <2>2
  <2>4. QED BY <2>1, <2>3 DEF EditionsOK
<1>5. editions \subseteq editions'
  BY <1>1
<1>6. \A f : IsHistory(f) => \E e \in editions' : \E first \in 0..e.day : f = Service!Stretch(e, first)
  BY <1>5 DEF IsHistory
<1>7. \A f, n : HistoryFrom(f, n) =>
                \E e \in editions' : \E first \in 0..e.day : first <= n /\ f = Service!Stretch(e, first)
  BY <1>5 DEF HistoryFrom
<1>8. Kept(file)'
  BY <1>1, <1>7 DEF Inv, Kept, HistoryFrom
<1>9. MemoryOK'
  BY <1>1, <1>6 DEF Inv, MemoryOK, IsHistory
<1>10. ASSUME NEW r \in Readers PROVE CallOK(r)'
  <2>1. CallOK(r) /\ task[r] \in Tasks
    BY DEF Inv, Typed
  <2>2. at[r] \in {"delta", "whole", "save"} => Kept(task[r].stored)'
    BY <1>1, <1>7, <2>1 DEF CallOK, Kept, HistoryFrom
  <2>3. at[r] # "idle" => task[r].start <= Today'
    BY <1>2, <2>1 DEF CallOK, Tasks
  <2>4. QED BY <1>1, <2>1, <2>2, <2>3 DEF CallOK, Kept
<1>11. (given = NoBars \/ IsHistory(given))'
  BY <1>1, <1>6 DEF Inv, IsHistory
<1>12. AloneInProcess'
  BY <1>1 DEF Inv, AloneInProcess
<1>13. NotInMemory'
  <2>1. SUFFICES ASSUME NEW r \in Readers \ Batch, at[r] # "idle", InMemory(r, task[r].from)' PROVE InMemory(r, task[r].from)
    BY <1>1 DEF Inv, NotInMemory
  <2>2. ProcessOf[r] \in Processes
    BY Bounds
  <2>3. bars[ProcessOf[r]] # None /\ bars[ProcessOf[r]].at \in Nat
    BY <1>1, <1>2, <2>1, <2>2 DEF InMemory, Fresh, Typed, Files
  <2>4. clock' - bars[ProcessOf[r]].at < TICKER_CACHE_TTL /\ bars[ProcessOf[r]].from <= task[r].from
    BY <1>1, <2>1 DEF InMemory, Fresh
  <2>5. clock - bars[ProcessOf[r]].at < TICKER_CACHE_TTL
    BY <1>1, <1>2, <2>3, <2>4, Bounds
  <2>6. QED BY <2>3, <2>4, <2>5 DEF InMemory, Fresh
<1>14. QED BY <1>3, <1>4, <1>8, <1>9, <1>10, <1>11, <1>12, <1>13 DEF Inv

(* A reader starts: what it asks back to is no later than its day, and its    *)
(* process does not have it.                                               *)
LEMMA InvAsk == ASSUME Inv, NEW r \in Readers, Ask(r) PROVE Inv'
<1>1. PICK since \in {0, Today} :
          IF r \notin Batch /\ InMemory(r, since)
          THEN Give(r, Slice(bars[ProcessOf[r]].bars, since))
          ELSE /\ task' = [task EXCEPT ![r] = [NoTask EXCEPT
                             !.start = since,
                             !.from = IF r \in Batch THEN since ELSE AtLeastZero(Earlier(since, Today - BARS_MIN_DAYS))]]
               /\ at' = [at EXCEPT ![r] = "load"]
               /\ UNCHANGED given
  BY DEF Ask
<1>2. /\ at[r] = "idle" /\ (r \notin Batch => ~Locked(r))
      /\ UNCHANGED <<clock, adj, editions, file, bars>>
  BY DEF Ask
<1>3. Typed /\ Today \in Nat /\ since \in Nat /\ since <= Today /\ ProcessOf[r] \in Processes
  BY DayNumber, Bounds DEF Inv, Typed
<1>4. CASE r \notin Batch /\ InMemory(r, since)
  <2>1. Held(bars[ProcessOf[r]].bars)
    BY <1>3, <1>4 DEF Inv, MemoryOK, InMemory, Fresh, Held
  <2>2. Give(r, Slice(bars[ProcessOf[r]].bars, since))
    BY <1>1, <1>4
  <2>3. Slice(bars[ProcessOf[r]].bars, since) = NoBars \/ IsHistory(Slice(bars[ProcessOf[r]].bars, since))
    BY <1>3, <2>1, SliceIsHistory
  <2>4. file' \in Files \cup {None} /\ Kept(file)'
    BY <1>2 DEF Inv, Typed, Kept, HistoryFrom
  <2>5. UNCHANGED <<clock, adj, editions>> /\ UNCHANGED bars
    BY <1>2
  <2>6. QED BY <2>2, <2>3, <2>4, <2>5, CallEnds
<1>5. CASE ~(r \notin Batch /\ InMemory(r, since))
  <2> DEFINE from == IF r \in Batch THEN since ELSE AtLeastZero(Earlier(since, Today - BARS_MIN_DAYS))
             new == [NoTask EXCEPT !.start = since, !.from = from]
  <2>1. task' = [task EXCEPT ![r] = new] /\ at' = [at EXCEPT ![r] = "load"] /\ given' = given
    BY <1>1, <1>5
  <2>2. from \in Nat /\ from <= since
    BY <1>3, Bounds DEF AtLeastZero, Earlier
  <2> HIDE DEF from
  <2>3. new.start = since /\ new.from = from
    BY DEF NoTask
  <2>4. new \in Tasks
    <3>1. NoTask \in Tasks
      BY DEF NoTask, Tasks
    <3>2. QED BY <1>3, <2>2, <3>1 DEF Tasks
  <2> HIDE DEF new
  <2>5. /\ at'[r] = "load" /\ task'[r] = new
        /\ \A s \in Readers \ {r} : at'[s] = at[s] /\ task'[s] = task[s]
    BY <1>3, <2>1 DEF Typed
  <2>6. Typed'
    BY <1>2, <1>3, <2>1, <2>4 DEF Typed, Syncing
  <2>7. EditionsOK' /\ Kept(file)' /\ MemoryOK' /\ (given = NoBars \/ IsHistory(given))'
    BY <1>2, <2>1 DEF Inv, EditionsOK, Kept, MemoryOK, IsHistory, HistoryFrom, Edition, Today, Closed
  <2>8. ASSUME NEW s \in Readers PROVE CallOK(s)'
    <3>1. CASE s = r
      <4>1. task'[r].from = from /\ task'[r].start = since
        BY <2>3, <2>5
      <4>2. QED BY <1>2, <1>3, <2>2, <2>5, <3>1, <4>1 DEF CallOK, Today
    <3>2. CASE s # r
      <4>1. CallOK(s) /\ at'[s] = at[s] /\ task'[s] = task[s]
        BY <2>5, <3>2 DEF Inv
      <4>2. QED BY <1>2, <4>1 DEF CallOK, Kept, HistoryFrom, Today
    <3>3. QED BY <3>1, <3>2
  <2>9. AloneInProcess'
    <3>1. \A s \in Readers \ Batch : r \notin Batch /\ ProcessOf[s] = ProcessOf[r] => at[s] = "idle"
      BY <1>2, <1>3 DEF Locked, Typed
    <3>2. QED BY <2>5, <3>1 DEF Inv, AloneInProcess
  <2>10. NotInMemory'
    <3>1. SUFFICES ASSUME NEW s \in Readers \ Batch, at'[s] # "idle" PROVE ~InMemory(s, task[s].from)'
      BY DEF NotInMemory
    <3>2. CASE s = r
      <4>1. ~InMemory(r, since) /\ task'[r].from = from
        BY <1>5, <2>3, <2>5, <3>2
      <4>2. bars[ProcessOf[r]] # None => bars[ProcessOf[r]].from \in Nat
        BY <1>3 DEF Typed, Files
      <4>3. ~InMemory(r, from)
        BY <1>3, <2>2, <4>1, <4>2 DEF InMemory, Fresh
      <4>4. QED BY <1>2, <3>2, <4>1, <4>3 DEF InMemory, Fresh
    <3>3. CASE s # r
      <4>1. ~InMemory(s, task[s].from) /\ task'[s] = task[s]
        BY <2>5, <3>1, <3>3 DEF Inv, NotInMemory
      <4>2. QED BY <1>2, <4>1 DEF InMemory, Fresh
    <3>4. QED BY <3>2, <3>3
  <2>11. QED BY <2>6, <2>7, <2>8, <2>9, <2>10 DEF Inv
<1>6. QED BY <1>4, <1>5


(* A call goes on: it knows more, and asks for the same.                     *)
LEMMA CallGoesOn ==
    ASSUME Inv, NEW r \in Readers, at[r] # "idle", NEW label \in {"delta", "whole", "save"}, NEW x \in Tasks,
           at' = [at EXCEPT ![r] = label], task' = [task EXCEPT ![r] = x],
           UNCHANGED <<clock, adj, editions, file, bars, given>>,
           x.from = task[r].from, x.start = task[r].start, Kept(x.stored),
           label = "delta" => x.stored # None /\ x.stored.from <= x.from,
           label = "save" => /\ HistoryFrom(x.got, x.keep) /\ x.keep <= x.from
                             /\ x.stored # None => x.keep <= x.stored.from
    PROVE  Inv'
<1>1. Typed
  BY DEF Inv
<1>2. /\ at'[r] = label /\ task'[r] = x
      /\ \A s \in Readers \ {r} : at'[s] = at[s] /\ task'[s] = task[s]
  BY <1>1 DEF Typed
<1>3. Typed'
  BY <1>1 DEF Typed, Syncing
<1>4. EditionsOK' /\ Kept(file)' /\ MemoryOK' /\ (given = NoBars \/ IsHistory(given))'
  BY DEF Inv, EditionsOK, Kept, MemoryOK, IsHistory, HistoryFrom, Edition, Today, Closed
<1>5. ASSUME NEW s \in Readers PROVE CallOK(s)'
  <2>1. CallOK(s)
    BY DEF Inv
  <2>2. CASE s = r
    BY <1>2, <2>1, <2>2 DEF CallOK, Kept, HistoryFrom, Today
  <2>3. CASE s # r
    BY <1>2, <2>1, <2>3 DEF CallOK, Kept, HistoryFrom, Today
  <2>4. QED BY <2>2, <2>3
<1>6. AloneInProcess'
  BY <1>2 DEF Inv, AloneInProcess
<1>7. NotInMemory'
  BY <1>2 DEF Inv, NotInMemory, InMemory, Fresh
<1>8. QED BY <1>3, <1>4, <1>5, <1>6, <1>7 DEF Inv

(* What Return gives is a history when what is returned is one.              *)
LEMMA ReturnEnds ==
    ASSUME Inv, NEW r \in Readers, at[r] # "idle", NEW f, Held(f), Return(r, f),
           UNCHANGED <<clock, adj, editions>>, file' \in Files \cup {None}, Kept(file)'
    PROVE  Inv'
<1>1. Typed /\ task[r].start \in Nat
  BY DEF Inv, Typed, Tasks
<1>2. Give(r, Slice(f, task[r].start))
  BY DEF Return
<1>3. Slice(f, task[r].start) = NoBars \/ IsHistory(Slice(f, task[r].start))
  BY <1>1, SliceIsHistory
<1>4. \/ UNCHANGED bars
      \/ /\ r \notin Batch /\ at[r] # "idle" /\ Held(f)
         /\ bars' = [bars EXCEPT ![ProcessOf[r]] = [from |-> task[r].from, at |-> clock, bars |-> f]]
  BY DEF Return
<1>5. QED BY <1>2, <1>3, <1>4, CallEnds

LEMMA KeptIsHeld ==
    ASSUME Typed, NEW s, Kept(s), s # None, NEW n \in Nat
    PROVE  Held(s.bars) /\ Held(Trim(s.bars, n))
<1>1. HistoryFrom(s.bars, s.from)
  BY DEF Kept
<1>2. Held(s.bars)
  BY <1>1 DEF HistoryFrom, Held, IsHistory
<1>3. QED BY <1>2, CutHeld

LEMMA InvLoad == ASSUME Inv, NEW r \in Readers, Load(r) PROVE Inv'
<1>1. /\ at[r] = "load" /\ UNCHANGED <<clock, adj, editions, file>>
      /\ Typed /\ Kept(file) /\ file \in Files \cup {None} /\ task[r] \in Tasks
  BY DEF Load, Inv, Typed
<1>2. task[r].from \in Nat
  BY <1>1 DEF Tasks
<1>3. CASE Usable(r) /\ IsCurrent(file)
  <2>1. Return(r, Trim(file.bars, task[r].from)) /\ file # None
    BY <1>3 DEF Load, Usable
  <2>2. Held(Trim(file.bars, task[r].from))
    BY <1>1, <1>2, <2>1, KeptIsHeld
  <2>3. file' \in Files \cup {None} /\ Kept(file)'
    BY <1>1 DEF Kept, HistoryFrom
  <2>4. UNCHANGED <<clock, adj, editions>> /\ at[r] # "idle"
    BY <1>1
  <2>5. QED BY <2>1, <2>2, <2>3, <2>4, ReturnEnds
<1>4. CASE ~(Usable(r) /\ IsCurrent(file))
  <2> DEFINE x == [task[r] EXCEPT !.stored = file, !.keep = task[r].from]
             label == IF Usable(r) /\ (r \in Batch => OverlapStart(file.bars) >= Today - StaleDays) THEN "delta" ELSE "whole"
  <2>1. at' = [at EXCEPT ![r] = label] /\ UNCHANGED <<bars, given>>
    BY <1>4 DEF Load
  <2>2. task' = [task EXCEPT ![r] = x]
    BY <1>1, <1>4 DEF Load, Typed
  <2>3. x.from = task[r].from /\ x.start = task[r].start /\ x.stored = file
    BY <1>1 DEF Tasks
  <2>4. x \in Tasks
    BY <1>1, <1>2 DEF Tasks
  <2>5. label = "delta" => file # None /\ file.from <= task[r].from
    BY DEF Usable
  <2>6. label \in {"delta", "whole"}
    OBVIOUS
  <2> HIDE DEF x, label
  <2>7. QED BY <1>1, <2>1, <2>2, <2>3, <2>4, <2>5, <2>6, CallGoesOn
<1>5. QED BY <1>3, <1>4


LEMMA InvDelta == ASSUME Inv, NEW r \in Readers, Delta(r) PROVE Inv'
<1> DEFINE stored == task[r].stored
           delta == Yahoo(OverlapStart(stored.bars))
<1>1. /\ at[r] = "delta" /\ UNCHANGED <<clock, adj, editions, file>>
      /\ Typed /\ EditionsOK /\ task[r] \in Tasks
  BY DEF Delta, Inv, Typed
<1>2. Kept(file)' /\ file' \in Files \cup {None}
  BY <1>1 DEF Inv, Typed, Kept, HistoryFrom
<1>3. /\ stored # None /\ Kept(stored) /\ stored.from <= task[r].from
      /\ stored \in Files \cup {None} /\ task[r].from \in Nat
  BY <1>1 DEF Inv, CallOK, Tasks
<1>4. HistoryFrom(stored.bars, stored.from) /\ stored \in Files /\ stored.from \in Nat
  BY <1>3 DEF Kept, Files
<1>5. CASE NeedsFullRefetch(stored.bars, delta) /\ at' = [at EXCEPT ![r] = "whole"] /\ UNCHANGED <<task, bars, given>>
  <2>1. task' = [task EXCEPT ![r] = task[r]]
    BY <1>1, <1>5 DEF Typed
  <2>2. at' = [at EXCEPT ![r] = "whole"] /\ UNCHANGED <<bars, given>>
    BY <1>5
  <2>3. Kept(task[r].stored) /\ at[r] # "idle"
    BY <1>1, <1>3
  <2>4. QED BY <1>1, <2>1, <2>2, <2>3, CallGoesOn
<1>6. CASE /\ ~NeedsFullRefetch(stored.bars, delta)
           /\ task' = [task EXCEPT ![r].got = Extend(stored.bars, delta), ![r].keep = stored.from]
           /\ at' = [at EXCEPT ![r] = "save"] /\ UNCHANGED <<bars, given>>
  <2> DEFINE got == Extend(stored.bars, delta)
             x == [task[r] EXCEPT !.got = got, !.keep = stored.from]
  <2>1. HistoryFrom(got, stored.from)
    BY <1>1, <1>4, <1>6, ExtensionIsHistory
  <2>2. got \in Histories
    BY <1>1, <2>1, HeldForm DEF HistoryFrom, Held, IsHistory
  <2> HIDE DEF got
  <2>3. task' = [task EXCEPT ![r] = x]
    BY <1>1, <1>6 DEF Typed, got
  <2>4. x.from = task[r].from /\ x.start = task[r].start /\ x.stored = stored /\ x.got = got /\ x.keep = stored.from
    BY <1>1 DEF Tasks
  <2>5. x \in Tasks
    BY <1>1, <1>4, <2>2 DEF Tasks
  <2>6. /\ Kept(x.stored) /\ HistoryFrom(x.got, x.keep) /\ x.keep <= x.from
        /\ x.stored # None => x.keep <= x.stored.from
    BY <1>3, <1>4, <2>1, <2>4
  <2>7. at' = [at EXCEPT ![r] = "save"] /\ UNCHANGED <<bars, given>> /\ at[r] # "idle"
    BY <1>1, <1>6
  <2> HIDE DEF x, stored, delta
  <2>8. QED BY <1>1, <2>3, <2>4, <2>5, <2>6, <2>7, CallGoesOn
<1>7. CASE Return(r, Trim(stored.bars, task[r].from))
  <2>1. Held(Trim(stored.bars, task[r].from)) /\ at[r] # "idle"
    BY <1>1, <1>3, KeptIsHeld
  <2>2. QED BY <1>1, <1>2, <1>7, <2>1, ReturnEnds
<1>8. QED BY <1>5, <1>6, <1>7 DEF Delta

LEMMA InvWhole == ASSUME Inv, NEW r \in Readers, Whole(r) PROVE Inv'
<1> DEFINE stored == task[r].stored
<1>1. /\ at[r] = "whole" /\ UNCHANGED <<clock, adj, editions, file>>
      /\ Typed /\ EditionsOK /\ task[r] \in Tasks /\ Today \in Nat
  BY DayNumber DEF Whole, Inv, Typed
<1>2. Kept(file)' /\ file' \in Files \cup {None}
  BY <1>1 DEF Inv, Typed, Kept, HistoryFrom
<1>3. /\ Kept(stored) /\ stored \in Files \cup {None} /\ task[r].from \in Nat /\ task[r].start \in Nat
      /\ task[r].from <= task[r].start /\ task[r].start <= Today
  BY <1>1 DEF Inv, CallOK, Tasks
<1>4. CASE /\ task' = [task EXCEPT ![r].got = Yahoo(Coverage(r)), ![r].keep = Coverage(r)]
           /\ at' = [at EXCEPT ![r] = "save"] /\ UNCHANGED <<bars, given>>
  <2> DEFINE n == Coverage(r)
             got == Yahoo(n)
             x == [task[r] EXCEPT !.got = got, !.keep = n]
  <2>1. stored # None => stored.from \in Nat
    BY <1>3 DEF Files
  <2>2. n \in Nat /\ n <= task[r].from /\ (stored # None => n <= stored.from)
    BY <1>3, <2>1 DEF Coverage
  <2> HIDE DEF n
  <2>3. n <= Today /\ n \in Int /\ AtLeastZero(n) = n
    BY <1>1, <1>3, <2>2 DEF AtLeastZero
  <2>4. n \in 0..Edition.day /\ Edition \in editions /\ got = Service!Stretch(Edition, n)
    BY <1>1, <2>3, DownloadIsTheEdition
  <2>5. HistoryFrom(got, n)
    BY <2>2, <2>4 DEF HistoryFrom
  <2>6. got \in Histories
    BY <1>1, <2>5, HeldForm DEF HistoryFrom, Held, IsHistory
  <2> HIDE DEF got
  <2>7. task' = [task EXCEPT ![r] = x]
    BY <1>1, <1>4 DEF Typed, got, n
  <2>8. x.from = task[r].from /\ x.start = task[r].start /\ x.stored = stored /\ x.got = got /\ x.keep = n
    BY <1>1 DEF Tasks
  <2>9. x \in Tasks
    BY <1>1, <2>2, <2>6 DEF Tasks
  <2>10. /\ Kept(x.stored) /\ HistoryFrom(x.got, x.keep) /\ x.keep <= x.from
         /\ x.stored # None => x.keep <= x.stored.from
    BY <1>3, <2>2, <2>5, <2>8
  <2>11. at' = [at EXCEPT ![r] = "save"] /\ UNCHANGED <<bars, given>> /\ at[r] # "idle"
    BY <1>1, <1>4
  <2> HIDE DEF x, stored
  <2>12. QED BY <1>1, <2>7, <2>8, <2>9, <2>10, <2>11, CallGoesOn
<1>5. CASE stored # None /\ Return(r, Trim(stored.bars, task[r].from))
  <2>1. Held(Trim(stored.bars, task[r].from)) /\ at[r] # "idle"
    BY <1>1, <1>3, <1>5, KeptIsHeld
  <2>2. QED BY <1>1, <1>2, <1>5, <2>1, ReturnEnds
<1>6. CASE ReturnNothing(r)
  BY <1>1, <1>2, <1>6, CallEnds DEF ReturnNothing
<1>7. QED BY <1>4, <1>5, <1>6 DEF Whole

LEMMA InvSave == ASSUME Inv, NEW r \in Readers, Save(r) PROVE Inv'
<1>1. /\ at[r] = "save" /\ UNCHANGED <<clock, adj, editions>>
      /\ file' = [from |-> task[r].keep, at |-> clock, bars |-> task[r].got]
      /\ Return(r, Trim(task[r].got, task[r].from))
      /\ Typed /\ task[r] \in Tasks
  BY DEF Save, Inv, Typed
<1>2. HistoryFrom(task[r].got, task[r].keep) /\ task[r].from \in Nat /\ task[r].keep \in Nat /\ clock \in Nat
  BY <1>1 DEF Inv, CallOK, Tasks, Typed
<1>3. Held(task[r].got)
  BY <1>2 DEF HistoryFrom, Held, IsHistory
<1>4. Held(Trim(task[r].got, task[r].from)) /\ task[r].got \in Histories
  BY <1>1, <1>2, <1>3, CutHeld, HeldForm
<1>5. file' \in Files \cup {None}
  BY <1>1, <1>2, <1>4 DEF Files
<1>6. Kept(file)'
  BY <1>1, <1>2 DEF Kept, HistoryFrom
<1>7. at[r] # "idle"
  BY <1>1
<1>8. QED BY <1>1, <1>4, <1>5, <1>6, <1>7, ReturnEnds


-----------------------------------------------------------------------------
LEMMA InvInit == BarInit => Inv
<1> SUFFICES ASSUME BarInit PROVE Inv
  OBVIOUS
<1>1. /\ clock = 0 /\ adj = 0 /\ editions = {Edition} /\ file = None /\ bars = [p \in Processes |-> None]
      /\ at = [r \in Readers |-> "idle"] /\ task = [r \in Readers |-> NoTask] /\ given = NoBars
  BY DEF BarInit
<1>2. Today = 0 /\ Closed \in BOOLEAN
  BY <1>1 DEF Today, Closed
<1>3. Edition \in [day : Nat, closed : BOOLEAN, adj : Nat] /\ Edition.day = Today
  BY <1>1, <1>2 DEF Edition
<1>4. NoTask \in Tasks
  BY DEF NoTask, Tasks
<1>5. Typed
  BY <1>1, <1>3, <1>4 DEF Typed
<1>6. EditionsOK
  BY <1>1, <1>2, <1>3 DEF EditionsOK
<1>7. Kept(file) /\ MemoryOK /\ AloneInProcess /\ NotInMemory /\ \A r \in Readers : CallOK(r)
  BY <1>1 DEF Kept, MemoryOK, AloneInProcess, NotInMemory, CallOK
<1>8. QED BY <1>1, <1>5, <1>6, <1>7 DEF Inv

LEMMA InvStep == Inv /\ [BarNext]_barVars => Inv'
<1> SUFFICES ASSUME Inv, [BarNext]_barVars PROVE Inv'
  OBVIOUS
<1>1. ASSUME NEW r \in Readers, Ask(r) \/ Load(r) \/ Delta(r) \/ Whole(r) \/ Save(r) PROVE Inv'
  BY <1>1, InvAsk, InvLoad, InvDelta, InvWhole, InvSave
<1>2. CASE UNCHANGED barVars
  BY <1>2 DEF barVars, Inv, Typed, EditionsOK, Kept, MemoryOK, CallOK, AloneInProcess, NotInMemory,
              IsHistory, HistoryFrom, InMemory, Fresh, Edition, Today, Closed
<1>3. QED BY <1>1, <1>2, InvPasses DEF BarNext

(* Only time and Yahoo make an edition.                                      *)
LEMMA ReadersPublishNothing ==
    ASSUME NEW r \in Readers, Ask(r) \/ Load(r) \/ Delta(r) \/ Whole(r) \/ Save(r)
    PROVE  UNCHANGED editions
BY DEF Ask, Load, Delta, Whole, Save

(* Every step is one of the service's, or changes nothing it shows: whatever  *)
(* readers, processes, adjustments and failures do to the file, an answer is *)
(* a stretch of one edition (bar_store, _synced_bars, daily_bars_many).      *)
THEOREM OneEditionIsServed == BarSpec => IsOneEdition
<1>1. BarInit => Service!ServiceInit
  <2> SUFFICES ASSUME BarInit PROVE Service!ServiceInit
    OBVIOUS
  <2>1. clock = 0 /\ adj = 0 /\ editions = {Edition} /\ given = NoBars
    BY DEF BarInit
  <2>2. Today = 0 /\ Closed = FALSE
    BY <2>1 DEF Today, Closed
  <2>3. Edition = [day |-> 0, closed |-> FALSE, adj |-> 0]
    BY <2>1, <2>2 DEF Edition
  <2>4. QED BY <2>1, <2>3 DEF Service!ServiceInit
<1>2. Inv /\ Inv' /\ [BarNext]_barVars => [Service!ServiceNext]_<<editions, given>>
  <2> SUFFICES ASSUME Inv, Inv', [BarNext]_barVars PROVE [Service!ServiceNext]_<<editions, given>>
    OBVIOUS
  <2>1. CASE Passes
    <3>1. editions' = editions \cup {Edition'} /\ UNCHANGED given /\ Edition' \in editions'
      BY <2>1 DEF Passes
    <3>2. QED BY <3>1 DEF Service!ServiceNext, Service!Publish
  <2>2. ASSUME NEW r \in Readers, Ask(r) \/ Load(r) \/ Delta(r) \/ Whole(r) \/ Save(r)
        PROVE  Service!ServiceNext
    <3>1. editions' = editions
      BY <2>2, ReadersPublishNothing
    <3>2. given' = NoBars \/ IsHistory(given)'
      BY DEF Inv
    <3>3. QED BY <3>1, <3>2 DEF Service!ServiceNext, Service!Answer, IsHistory
  <2>3. CASE UNCHANGED barVars
    BY <2>3 DEF barVars
  <2>4. QED BY <2>1, <2>2, <2>3 DEF BarNext
<1>3. QED BY <1>1, <1>2, InvInit, InvStep, PTL DEF BarSpec, IsOneEdition, Service!ServiceSpec

(* A reader that ends its call takes nothing, or what its day asks for.       *)
LEMMA EndedCallCovers ==
    ASSUME Inv, [BarNext]_barVars, NEW r \in Readers,
           at[r] # "idle", at'[r] = "idle", given' # NoBars, ProcessOf[r] \notin failed'
    PROVE  First(given') = task[r].start
<1>1. Typed /\ task[r] \in Tasks
  BY DEF Inv, Typed
<1>2. ASSUME NEW s \in Readers, Ask(s) \/ Load(s) \/ Delta(s) \/ Whole(s) \/ Save(s) PROVE s = r
  BY <1>1, <1>2 DEF Typed, Ask, Load, Delta, Whole, Save, Return, ReturnNothing, Give
<1>3. ~Passes /\ ~UNCHANGED barVars
  BY DEF Passes, barVars
<1>4. Load(r) \/ Delta(r) \/ Whole(r) \/ Save(r)
  BY <1>2, <1>3 DEF BarNext, Ask
<1>5. /\ task[r].from \in Nat /\ task[r].start \in Nat /\ task[r].keep \in Nat
      /\ task[r].from <= task[r].start
  BY <1>1 DEF Inv, CallOK, Tasks
<1>6. CASE Load(r)
  <2>1. Usable(r) /\ given' = Slice(Trim(file.bars, task[r].from), task[r].start)
    BY <1>1, <1>6 DEF Load, Return, Give, Typed
  <2>2. file.from <= task[r].from /\ file.from \in Nat /\ HistoryFrom(file.bars, file.from)
    BY <1>1, <2>1 DEF Usable, Inv, Kept, Typed, Files
  <2>3. QED BY <1>1, <1>5, <2>1, <2>2, SliceBegins
<1>7. CASE Save(r)
  <2>1. given' = Slice(Trim(task[r].got, task[r].from), task[r].start) /\ at[r] = "save"
    BY <1>7 DEF Save, Return, Give
  <2>2. HistoryFrom(task[r].got, task[r].keep) /\ task[r].keep <= task[r].from
    BY <2>1 DEF Inv, CallOK
  <2>3. QED BY <1>1, <1>5, <2>1, <2>2, SliceBegins
<1>8. CASE Delta(r) \/ Whole(r)
  <2>1. ~Lost(r)
    BY DEF Lost
  <2>2. at'[r] # "idle"
    BY <1>1, <1>8, <2>1 DEF Delta, Whole, Typed
  <2>3. QED BY <2>2
<1>9. QED BY <1>4, <1>6, <1>7, <1>8

(* A run's bars are downloaded once, a history goes back to the day asked for *)
(* unless a download failed, and a file keeps its reach (_bars_for,          *)
(* _full_fetch, daily_bars_many).                                          *)
THEOREM BarsAreKept == BarSpec => BarsServeTheRun
<1>1. Inv => OneDownloadARun
  BY DEF Inv, NotInMemory, OneDownloadARun
<1>2. Inv /\ [BarNext]_barVars =>
        \A r \in Readers :
           at[r] # "idle" /\ at'[r] = "idle" /\ given' # NoBars /\ ProcessOf[r] \notin failed' =>
              First(given') = task[r].start
  BY EndedCallCovers
<1>3. Inv /\ [BarNext]_barVars =>
        \A r \in Readers :
           at[r] = "save" /\ file' # file /\ file # None /\ at'[r] = "idle" /\ task[r].stored = file
              => file'.from <= file.from
  <2> SUFFICES ASSUME Inv, [BarNext]_barVars, NEW r \in Readers,
                      at[r] = "save", file' # file, file # None, at'[r] = "idle", task[r].stored = file
               PROVE  file'.from <= file.from
    OBVIOUS
  <2>1. task[r].keep <= file.from
    BY DEF Inv, CallOK
  <2>2. \A s \in Readers : Save(s) => s = r
    BY DEF Inv, Typed, Save, Return, Give
  <2>3. Save(r)
    BY <2>2 DEF BarNext, Passes, Ask, Load, Delta, Whole, barVars
  <2>4. file'.from = task[r].keep
    BY <2>3 DEF Save
  <2>5. QED BY <2>1, <2>4
<1>4. QED
  BY <1>1, <1>2, <1>3, InvInit, InvStep, PTL DEF BarSpec, BarsServeTheRun, AskedIsCovered, FileKeepsItsReach

-----------------------------------------------------------------------------
FetchedAnswer == [at : Nat, next : Nat]
FetchedAnswers == [Names -> FetchedAnswer \cup {Nothing}]
Doings == [step : {"idle", "fetch", "merge", "write"}, at : Nat, cached : FetchedAnswers, refresh : SUBSET Names, got : SUBSET Names]

WellDated(c) ==
    \A n \in Names : c[n] # Nothing =>
        /\ c[n].at <= tick /\ c[n].at \div 2 <= c[n].next
        /\ \A d \in Reports[n] : c[n].at \div 2 <= d => c[n].next <= d
AllFresh(c) == \A n \in Names : c[n] # Nothing => IsFresh(c[n])
RunOK(r) ==
    doing[r].step # "idle" =>
        /\ doing[r].at = tick
        /\ AllFresh(doing[r].cached) /\ WellDated(doing[r].cached)
        /\ r = NightlyRun => IsNight /\ renewed
Atomic == ~raced => \A r \in Runs : doing[r].step = "write" => doing[r].cached = Unexpired

\* The names no newer than n, and those a run will have fetched when it writes.
NoNewer(n) == {x \in Names : cache[x] # Nothing /\ cache[x].at <= cache[n].at}
ToFetch(r) == IF doing[r].step = "fetch" THEN {n \in Names : doing[r].cached[n] = Nothing \/ n \in doing[r].refresh} ELSE doing[r].got
LastDone == IF renewed /\ doing[NightlyRun].step = "idle" THEN tick ELSE tick - 1
Smooth == failures = 0 /\ ~raced
Turns ==
    Smooth => \A n \in Names : cache[n] # Nothing =>
        Cardinality(NoNewer(n)) + Nightly * Cardinality(NightsIn(cache[n].at + 1, LastDone)) <= Cardinality(Names)
InTurn ==
    Smooth /\ doing[NightlyRun].step # "idle" =>
      /\ doing[NightlyRun].refresh \subseteq ToFetch(NightlyRun)
      /\ \A n \in Names \ ToFetch(NightlyRun) : cache[n] # Nothing /\ cache[n].at < tick =>
          Cardinality(NoNewer(n) \ doing[NightlyRun].refresh) + Nightly
             + Nightly * Cardinality(NightsIn(cache[n].at + 1, tick - 1)) <= Cardinality(Names)
RenewedOnlyAtNight == renewed => IsNight
FetchTyped ==
    /\ tick \in 0..2 * LastNight /\ cache \in FetchedAnswers /\ doing \in [Runs -> Doings]
    /\ renewed \in BOOLEAN /\ raced \in BOOLEAN /\ failures \in Nat
    /\ served \in [at : Nat, answers : FetchedAnswers]
FetchInv ==
    /\ FetchTyped /\ WellDated(cache) /\ (\A r \in Runs : RunOK(r)) /\ Atomic
    /\ RenewedOnlyAtNight

-----------------------------------------------------------------------------
LEMMA FetchFacts ==
    /\ FETCH_CACHE_DAYS \in Nat /\ Nightly \in Nat /\ LastNight \in Nat /\ MaxErrors \in Nat
    /\ WeekDays \in Nat /\ WeekDays > 0 /\ NightlyRun \in Runs /\ Reports \in [Names -> SUBSET Nat]
    /\ IsFiniteSet(Names) /\ Nothing \notin FetchedAnswer
BY FetchAssumption DEF FetchedAnswer

LEMMA LeastNumber ==
    ASSUME NEW S \in SUBSET Nat, S # {}
    PROVE  \E n \in S : \A m \in S : n <= m
<1> DEFINE R == OpToRel(<, Nat)
<1>1. IsWellFoundedOn(R, Nat)
  BY NatLessThanWellFounded, Zenon
<1> HIDE DEF R
<1>2. PICK n \in S : \A m \in S : ~(<<m, n>> \in R)
  BY <1>1, WFMin
<1>3. \A m \in S : ~(m < n)
  BY <1>2 DEF R, OpToRel
<1>4. QED BY <1>3

LEMMA HalfDays ==
    ASSUME NEW t \in Nat
    PROVE  /\ t \div 2 \in Nat /\ 2 * (t \div 2) <= t /\ t <= 2 * (t \div 2) + 1
           /\ \A u \in Nat : u <= t => u \div 2 <= t \div 2
           /\ \A l \in Nat : t <= 2 * l => t \div 2 <= l
  OBVIOUS

(* The next report is the first from today on.                               *)
LEMMA NextReportForm ==
    ASSUME NEW n \in Names, tick \in 0..2 * LastNight
    PROVE  /\ NextReport(n) \in Nat /\ Day <= NextReport(n)
           /\ \A d \in Reports[n] : Day <= d => NextReport(n) <= d
<1> DEFINE S == {d \in Reports[n] : d >= Day} \cup {Never}
<1>1. tick \in Nat /\ Day \in Nat /\ Day <= LastNight /\ Never \in Nat /\ Day <= Never
  BY FetchFacts, HalfDays DEF Day, Never
<1>2. Reports[n] \subseteq Nat
  BY FetchFacts
<1>3. S \in SUBSET Nat /\ S # {} /\ \A d \in S : Day <= d
  BY <1>1, <1>2
<1>4. NextReport(n) = Min(S)
  BY DEF NextReport
<1> HIDE DEF S
<1>5. PICK m \in S : \A d \in S : m <= d
  BY <1>3, LeastNumber
<1>6. Min(S) \in S /\ \A d \in S : Min(S) <= d
  BY <1>5 DEF Min
<1>7. \A d \in Reports[n] : Day <= d => d \in S
  BY <1>1, <1>2 DEF S
<1>8. QED BY <1>3, <1>4, <1>6, <1>7

-----------------------------------------------------------------------------
(* Of any answers there is an oldest share.                                  *)
LEMMA OldestForm ==
    ASSUME NEW c \in FetchedAnswers, NEW b \in Nat, \A n \in Names : c[n] # Nothing => c[n].at <= b
    PROVE  /\ Oldest(c) \subseteq Cached(c)
           /\ Cardinality(Oldest(c)) = (IF Cardinality(Cached(c)) < Nightly THEN Cardinality(Cached(c)) ELSE Nightly)
           /\ \A n \in Oldest(c), m \in Cached(c) \ Oldest(c) : c[n].at <= c[m].at
<1> DEFINE C == Cached(c)
           k == IF Cardinality(C) < Nightly THEN Cardinality(C) ELSE Nightly
           Lower(s) == \A n \in s, m \in C \ s : c[n].at <= c[m].at
           F == {s \in SUBSET C : Cardinality(s) >= k /\ Lower(s)}
           Sizes == {Cardinality(s) : s \in F}
<1>1. C \in SUBSET Names /\ IsFiniteSet(C) /\ \A s \in SUBSET C : IsFiniteSet(s) /\ Cardinality(s) \in Nat
  BY FetchFacts, FS_Subset, FS_CardinalityType DEF Cached
<1>2. k \in Nat /\ k <= Cardinality(C)
  BY <1>1, FetchFacts
<1>3. \A n \in C : c[n] # Nothing /\ c[n].at \in Nat /\ c[n].at <= b
  BY DEF Cached, FetchedAnswers, FetchedAnswer
<1>4. Oldest(c) = CHOOSE s \in SUBSET C : Cardinality(s) = k /\ Lower(s)
  BY DEF Oldest
<1> HIDE DEF C, k
<1>5. C \in F
  BY <1>1, <1>2
<1>6. Sizes \in SUBSET Nat /\ Sizes # {}
  BY <1>1, <1>5
<1>7. PICK s \in F : \A u \in F : Cardinality(s) <= Cardinality(u)
  <2>1. PICK z \in Sizes : \A y \in Sizes : z <= y
    BY <1>6, LeastNumber
  <2>2. QED BY <2>1
<1>8. Cardinality(s) = k
  <2>1. SUFFICES ASSUME Cardinality(s) # k PROVE FALSE
    OBVIOUS
  <2>2. Cardinality(s) > k /\ s # {} /\ s \in SUBSET C
    BY <1>1, <1>2, <2>1, FS_EmptySet
  <2> DEFINE Ages == {b - c[n].at : n \in s}
  <2>3. Ages \in SUBSET Nat /\ Ages # {}
    BY <1>3, <2>2
  <2>4. PICK x \in s : \A n \in s : c[n].at <= c[x].at
    <3>1. PICK z \in Ages : \A y \in Ages : z <= y
      BY <2>3, LeastNumber
    <3>2. PICK x \in s : z = b - c[x].at
      BY <3>1
    <3>3. \A n \in s : b - c[x].at <= b - c[n].at
      BY <3>1, <3>2
    <3>4. \A n \in s : c[n].at \in Nat
      BY <1>3, <2>2
    <3>5. QED BY <3>3, <3>4
  <2> DEFINE u == s \ {x}
  <2>5. Cardinality(u) = Cardinality(s) - 1
    BY <1>1, <2>2, FS_RemoveElement
  <2>6. Lower(u)
    BY <2>2, <2>4
  <2>7. u \in F
    BY <1>1, <1>2, <2>2, <2>5, <2>6
  <2>8. QED BY <1>1, <1>7, <2>2, <2>5, <2>7
<1>9. \E v \in SUBSET C : Cardinality(v) = k /\ Lower(v)
  BY <1>7, <1>8
<1>10. Oldest(c) \in SUBSET C /\ Cardinality(Oldest(c)) = k /\ Lower(Oldest(c))
  BY <1>4, <1>9
<1>11. QED BY <1>10 DEF C, k

-----------------------------------------------------------------------------
LEMMA UnexpiredForm ==
    ASSUME FetchTyped, WellDated(cache)
    PROVE  /\ Unexpired \in FetchedAnswers /\ WellDated(Unexpired)
           /\ \A n \in Names : Unexpired[n] # Nothing => Unexpired[n] = cache[n] /\ IsFresh(Unexpired[n])
           /\ \A n \in Names : cache[n] # Nothing /\ IsFresh(cache[n]) => Unexpired[n] = cache[n]
<1>1. \A n \in Names : cache[n] \in FetchedAnswer \cup {Nothing}
  BY DEF FetchTyped, FetchedAnswers
<1>2. \A n \in Names : Unexpired[n] = IF cache[n] # Nothing /\ IsFresh(cache[n]) THEN cache[n] ELSE Nothing
  BY DEF Unexpired
<1>3. Unexpired \in FetchedAnswers
  BY <1>1 DEF Unexpired, FetchedAnswers
<1>4. \A n \in Names : Unexpired[n] # Nothing => Unexpired[n] = cache[n] /\ IsFresh(Unexpired[n])
  BY <1>2
<1>5. WellDated(Unexpired)
  BY <1>4 DEF WellDated
<1>6. QED BY <1>2, <1>3, <1>4, <1>5

LEMMA IdleForm == Idle \in Doings /\ Idle.step = "idle"
BY DEF Idle, Doings, FetchedAnswers

LEMMA InvFetchInit == FetchInit => FetchInv
<1> SUFFICES ASSUME FetchInit PROVE FetchInv
  OBVIOUS
<1> USE FetchFacts
<1>1. Idle \in Doings /\ Idle.step = "idle"
  BY IdleForm
<1>2. FetchTyped
  <2>1. [n \in Names |-> Nothing] \in FetchedAnswers
    BY DEF FetchedAnswers
  <2>2. doing \in [Runs -> Doings]
    BY <1>1 DEF FetchInit
  <2>3. cache \in FetchedAnswers /\ served \in [at : Nat, answers : FetchedAnswers]
    BY <2>1 DEF FetchInit
  <2>4. tick \in 0..2 * LastNight /\ failures \in Nat
    BY DEF FetchInit
  <2>5. renewed \in BOOLEAN /\ raced \in BOOLEAN
    BY Zenon DEF FetchInit
  <2>6. QED BY <2>2, <2>3, <2>4, <2>5 DEF FetchTyped
<1>3. \A r \in Runs : doing[r].step = "idle"
  BY <1>1 DEF FetchInit
<1>4. WellDated(cache) /\ (\A r \in Runs : RunOK(r)) /\ Atomic /\ RenewedOnlyAtNight
  BY <1>3 DEF FetchInit, WellDated, RunOK, Atomic, RenewedOnlyAtNight
<1>5. QED BY <1>2, <1>4 DEF FetchInv

(* Runs other than the one that moves are as they were.                      *)
LEMMA OthersStand ==
    ASSUME FetchInv, NEW r \in Runs, NEW d, doing' = [doing EXCEPT ![r] = d], tick' = tick, renewed' \in {renewed, TRUE}
    PROVE  /\ \A s \in Runs \ {r} : RunOK(s)'
           /\ doing'[r] = d /\ \A s \in Runs \ {r} : doing'[s] = doing[s]
           /\ d \in Doings => doing' \in [Runs -> Doings]
<1>1. doing \in [Runs -> Doings]
  BY DEF FetchInv, FetchTyped
<1>2. doing'[r] = d /\ \A s \in Runs \ {r} : doing'[s] = doing[s]
  BY <1>1
<1>3. \A s \in Runs \ {r} : RunOK(s)'
  <2> SUFFICES ASSUME NEW s \in Runs \ {r} PROVE RunOK(s)'
    OBVIOUS
  <2>1. RunOK(s) /\ doing'[s] = doing[s]
    BY <1>2 DEF FetchInv
  <2>2. Day' = Day
    BY DEF Day
  <2>3. (IsNight => IsNight') /\ (renewed => renewed')
    <3>1. IsNight => IsNight'
      BY Zenon DEF IsNight
    <3>2. renewed => renewed'
      OBVIOUS
    <3>3. QED BY <3>1, <3>2
  <2>4. \A c : (WellDated(c) => WellDated(c)') /\ (AllFresh(c) => AllFresh(c)')
    <3>1. \A c : WellDated(c) => WellDated(c)'
      BY DEF WellDated
    <3>2. \A c : AllFresh(c) => AllFresh(c)'
      BY <2>2 DEF AllFresh, IsFresh, ReportedSinceFetch
    <3>3. QED BY <3>1, <3>2
  <2>5. QED BY <2>1, <2>3, <2>4 DEF RunOK
<1>4. QED BY <1>1, <1>2, <1>3

LEMMA InvBegin == ASSUME FetchInv, NEW r \in Runs, Begin(r) PROVE FetchInv'
<1> USE FetchFacts
<1>1. PICK d \in Doings : /\ doing' = [doing EXCEPT ![r] = d] /\ d.step = "fetch" /\ d.at = tick
                          /\ d.cached \in {Unexpired, [n \in Names |-> Nothing]}
  <2>0. Idle \in Doings
    BY IdleForm
  <2>1. Unexpired \in FetchedAnswers /\ [n \in Names |-> Nothing] \in FetchedAnswers
    BY UnexpiredForm DEF FetchInv, FetchedAnswers
  <2>2. \A n \in Names : Unexpired[n] # Nothing => Unexpired[n].at <= tick
    BY UnexpiredForm DEF FetchInv, WellDated
  <2>3. tick \in Nat
    BY DEF FetchInv, FetchTyped
  <2>4. Oldest(Unexpired) \subseteq Names
    BY <2>1, <2>2, <2>3, OldestForm DEF Cached
  <2>5. CASE doing' = [doing EXCEPT ![r] = [Idle EXCEPT !.step = "fetch", !.at = tick, !.cached = Unexpired,
                      !.refresh = IF r = NightlyRun THEN Oldest(Unexpired) ELSE {}]]
    <3> DEFINE f == IF r = NightlyRun THEN Oldest(Unexpired) ELSE {}
               d == [Idle EXCEPT !.step = "fetch", !.at = tick, !.cached = Unexpired, !.refresh = f]
    <3>1. d.step = "fetch" /\ d.at = tick /\ d.cached = Unexpired
      BY DEF Idle
    <3>2. f \subseteq Names
      BY <2>4
    <3> HIDE DEF f
    <3>3. d \in Doings
      BY <2>0, <2>1, <2>3, <3>2 DEF Doings
    <3>4. doing' = [doing EXCEPT ![r] = d]
      BY <2>5 DEF f
    <3> HIDE DEF d
    <3>5. QED BY <3>1, <3>3, <3>4
  <2>6. CASE doing' = [doing EXCEPT ![r] = [Idle EXCEPT !.step = "fetch", !.at = tick]]
    <3> DEFINE d == [Idle EXCEPT !.step = "fetch", !.at = tick]
    <3>1. d.step = "fetch" /\ d.at = tick /\ d.cached = [n \in Names |-> Nothing]
      BY DEF Idle
    <3>2. d \in Doings
      BY <2>0, <2>1, <2>3 DEF Doings
    <3>3. doing' = [doing EXCEPT ![r] = d]
      BY <2>6
    <3> HIDE DEF d
    <3>4. QED BY <3>1, <3>2, <3>3
  <2>7. QED BY <2>5, <2>6 DEF Begin
<1>2. tick' = tick /\ cache' = cache /\ raced' = raced /\ served' = served /\ renewed' = (renewed \/ r = NightlyRun)
  BY DEF Begin
<1>3. (r = NightlyRun => IsNight) /\ failures' \in Nat
  BY DEF Begin, FetchInv, FetchTyped
<1>4. /\ \A s \in Runs \ {r} : RunOK(s)'
      /\ doing'[r] = d /\ (\A s \in Runs \ {r} : doing'[s] = doing[s]) /\ doing' \in [Runs -> Doings]
  <2>1. renewed' \in {renewed, TRUE} /\ tick' = tick
    BY <1>2 DEF FetchInv, FetchTyped
  <2>2. QED BY <1>1, <2>1, OthersStand
<1>5. FetchTyped'
  BY <1>2, <1>3, <1>4 DEF FetchInv, FetchTyped
<1>6. RunOK(r)'
  <2>1. /\ WellDated(d.cached) /\ \A n \in Names : d.cached[n] # Nothing => IsFresh(d.cached[n])
    BY <1>1, UnexpiredForm DEF FetchInv, WellDated
  <2>2. r = NightlyRun => IsNight /\ renewed'
    BY <1>2, <1>3
  <2>3. QED BY <1>1, <1>2, <1>4, <2>1, <2>2 DEF RunOK, AllFresh, IsFresh, ReportedSinceFetch, Day, WellDated, IsNight
<1>7. Atomic'
  BY <1>1, <1>2, <1>4 DEF FetchInv, Atomic, Unexpired, IsFresh, ReportedSinceFetch, Day
<1>8. WellDated(cache)' /\ RenewedOnlyAtNight'
  BY <1>2, <1>3 DEF FetchInv, WellDated, RenewedOnlyAtNight, IsNight
<1>9. QED BY <1>4, <1>5, <1>6, <1>7, <1>8 DEF FetchInv

LEMMA InvFetch == ASSUME FetchInv, NEW r \in Runs, Fetch(r) PROVE FetchInv'
<1> USE FetchFacts
<1> DEFINE c == doing[r]
           todo == {n \in Names : c.cached[n] = Nothing \/ n \in c.refresh}
<1>1. c \in Doings /\ c.step = "fetch" /\ tick \in 0..2 * LastNight
  BY DEF Fetch, FetchInv, FetchTyped
<1>2. PICK got \in SUBSET todo :
        /\ failures' = IF got = todo THEN failures ELSE failures + 1
        /\ served' = [at |-> c.at, answers |-> [n \in Names |->
                             IF n \in got THEN [at |-> c.at, next |-> NextReport(n)] ELSE c.cached[n]]]
        /\ doing' = [doing EXCEPT ![r] = IF got = {} THEN Idle ELSE [c EXCEPT !.step = "merge", !.got = got]]
  <2>1. \E got \in {todo} \cup (IF failures < MaxErrors THEN {todo \ {n} : n \in todo} ELSE {}) :
             /\ failures' = IF got = todo THEN failures ELSE failures + 1
             /\ served' = [at |-> c.at, answers |-> [n \in Names |->
                             IF n \in got THEN [at |-> c.at, next |-> NextReport(n)] ELSE c.cached[n]]]
             /\ doing' = [doing EXCEPT ![r] = IF got = {} THEN Idle ELSE [c EXCEPT !.step = "merge", !.got = got]]
    BY DEF Fetch
  <2>2. ({todo} \cup (IF failures < MaxErrors THEN {todo \ {n} : n \in todo} ELSE {})) \subseteq SUBSET todo
    OBVIOUS
  <2> HIDE DEF c, todo
  <2>3. QED BY <2>1, <2>2
<1>3. tick' = tick /\ cache' = cache /\ raced' = raced /\ renewed' = renewed
  BY DEF Fetch
<1> DEFINE d == IF got = {} THEN Idle ELSE [c EXCEPT !.step = "merge", !.got = got]
<1>4. d \in Doings /\ (got # {} => d.at = c.at /\ d.cached = c.cached) /\ d.step \in {"idle", "merge"} /\ (d.step = "idle" <=> got = {})
  <2>1. CASE got = {}
    BY <2>1 DEF Idle, Doings, FetchedAnswers
  <2>2. CASE got # {}
    BY <1>1, <2>2 DEF Doings
  <2>3. QED BY <2>1, <2>2
<1>5. doing' = [doing EXCEPT ![r] = d]
  BY <1>2
<1> HIDE DEF d
<1>6. /\ \A s \in Runs \ {r} : RunOK(s)'
      /\ doing'[r] = d /\ (\A s \in Runs \ {r} : doing'[s] = doing[s]) /\ doing' \in [Runs -> Doings]
  BY <1>3, <1>4, <1>5, OthersStand
<1>7. served' \in [at : Nat, answers : FetchedAnswers]
  <2>1. \A n \in Names : NextReport(n) \in Nat
    BY <1>1, NextReportForm
  <2>2. c.at \in Nat /\ c.cached \in FetchedAnswers
    BY <1>1 DEF Doings
  <2>3. [n \in Names |-> IF n \in got THEN [at |-> c.at, next |-> NextReport(n)] ELSE c.cached[n]] \in FetchedAnswers
    BY <2>1, <2>2 DEF FetchedAnswers, FetchedAnswer
  <2>4. QED BY <1>2, <2>2, <2>3
<1>8. FetchTyped'
  BY <1>2, <1>3, <1>6, <1>7 DEF FetchInv, FetchTyped
<1>9. RunOK(r)'
  <2>1. RunOK(r)
    BY DEF FetchInv
  <2>2. CASE got = {}
    BY <1>4, <1>6, <2>2 DEF RunOK
  <2>3. CASE got # {}
    BY <1>1, <1>3, <1>4, <1>6, <2>1, <2>3 DEF RunOK, AllFresh, IsFresh, ReportedSinceFetch, Day, WellDated, IsNight
  <2>4. QED BY <2>2, <2>3
<1>10. Atomic'
  BY <1>3, <1>4, <1>6 DEF FetchInv, Atomic, Unexpired, IsFresh, ReportedSinceFetch, Day
<1>11. WellDated(cache)' /\ RenewedOnlyAtNight'
  BY <1>3 DEF FetchInv, WellDated, RenewedOnlyAtNight, IsNight
<1>12. QED BY <1>6, <1>8, <1>9, <1>10, <1>11 DEF FetchInv

LEMMA InvReread == ASSUME FetchInv, NEW r \in Runs, Reread(r) PROVE FetchInv'
<1> USE FetchFacts
<1> DEFINE c == doing[r]
<1>1. c \in Doings /\ c.step = "merge" /\ RunOK(r)
  BY DEF Reread, FetchInv, FetchTyped
<1>2. /\ tick' = tick /\ cache' = cache /\ raced' = raced /\ renewed' = renewed /\ served' = served
      /\ failures' \in Nat
  BY DEF Reread, FetchInv, FetchTyped
<1>3. PICK d \in Doings : /\ doing' = [doing EXCEPT ![r] = d] /\ d.step \in {"idle", "write"}
                          /\ d.step = "write" => d.at = c.at /\ d.cached = Unexpired
  <2>1. Unexpired \in FetchedAnswers
    BY UnexpiredForm DEF FetchInv
  <2>2. CASE doing' = [doing EXCEPT ![r] = [@ EXCEPT !.step = "write", !.cached = Unexpired]]
    <3> DEFINE d == [c EXCEPT !.step = "write", !.cached = Unexpired]
    <3>1. d \in Doings /\ d.step = "write" /\ d.at = c.at /\ d.cached = Unexpired
      BY <1>1, <2>1 DEF Doings
    <3>2. doing' = [doing EXCEPT ![r] = d]
      BY <2>2
    <3> HIDE DEF d
    <3>3. QED BY <3>1, <3>2
  <2>3. CASE doing' = [doing EXCEPT ![r] = Idle]
    BY <2>3, IdleForm
  <2>4. QED BY <2>2, <2>3 DEF Reread, Unreadable
<1>4. /\ \A s \in Runs \ {r} : RunOK(s)'
      /\ doing'[r] = d /\ (\A s \in Runs \ {r} : doing'[s] = doing[s]) /\ doing' \in [Runs -> Doings]
  BY <1>2, <1>3, OthersStand
<1>5. FetchTyped'
  BY <1>2, <1>4 DEF FetchInv, FetchTyped
<1>6. RunOK(r)'
  <2>1. WellDated(Unexpired) /\ AllFresh(Unexpired)
    BY UnexpiredForm DEF FetchInv, AllFresh
  <2>2. QED BY <1>1, <1>2, <1>3, <1>4, <2>1 DEF RunOK, AllFresh, IsFresh, ReportedSinceFetch, Day, WellDated, IsNight
<1>7. Atomic'
  BY <1>2, <1>3, <1>4 DEF FetchInv, Atomic, Unexpired, IsFresh, ReportedSinceFetch, Day
<1>8. WellDated(cache)' /\ RenewedOnlyAtNight'
  BY <1>2 DEF FetchInv, WellDated, RenewedOnlyAtNight, IsNight
<1>9. QED BY <1>4, <1>5, <1>6, <1>7, <1>8 DEF FetchInv

(* What a write makes of each name's answer.                                 *)
LEMMA WriteForm ==
    ASSUME FetchInv, NEW r \in Runs, Write(r)
    PROVE  /\ tick' = tick /\ tick \in 0..2 * LastNight /\ doing[r].got \subseteq Names
           /\ \A n \in doing[r].got : /\ cache'[n] \in FetchedAnswer /\ cache'[n].at = tick
                                      /\ Day <= cache'[n].next
                                      /\ \A d \in Reports[n] : Day <= d => cache'[n].next <= d
           /\ \A n \in Names \ doing[r].got : cache'[n] = doing[r].cached[n]
           /\ cache' \in FetchedAnswers
<1>1. doing[r] \in Doings /\ doing[r].step = "write" /\ RunOK(r) /\ tick \in 0..2 * LastNight
  BY DEF Write, FetchInv, FetchTyped
<1>2. doing[r].at = tick /\ doing[r].cached \in FetchedAnswers /\ doing[r].got \subseteq Names /\ tick \in Nat
  BY <1>1, FetchFacts DEF RunOK, Doings
<1>3. cache' = [n \in Names |-> IF n \in doing[r].got THEN [at |-> tick, next |-> NextReport(n)] ELSE doing[r].cached[n]]
  BY <1>2 DEF Write
<1>4. \A n \in Names : NextReport(n) \in Nat /\ Day <= NextReport(n) /\ \A d \in Reports[n] : Day <= d => NextReport(n) <= d
  BY <1>1, NextReportForm
<1>5. \A n \in doing[r].got : cache'[n] = [at |-> tick, next |-> NextReport(n)]
  BY <1>2, <1>3
<1>6. \A n \in doing[r].got : cache'[n] \in FetchedAnswer /\ cache'[n].at = tick /\ cache'[n].next = NextReport(n)
  <2>1. SUFFICES ASSUME NEW n \in doing[r].got
        PROVE  cache'[n] \in FetchedAnswer /\ cache'[n].at = tick /\ cache'[n].next = NextReport(n)
    OBVIOUS
  <2>2. NextReport(n) \in Nat /\ tick \in Nat /\ cache'[n] = [at |-> tick, next |-> NextReport(n)]
    BY <1>2, <1>4, <1>5
  <2>3. QED BY ONLY <2>2 DEF FetchedAnswer
<1>7. \A n \in Names \ doing[r].got : cache'[n] = doing[r].cached[n] /\ cache'[n] \in FetchedAnswer \cup {Nothing}
  BY <1>2, <1>3 DEF FetchedAnswers
<1>8. cache' \in FetchedAnswers
  BY <1>3, <1>6, <1>7 DEF FetchedAnswers
<1>9. tick' = tick
  BY DEF Write
<1>10. QED BY <1>1, <1>2, <1>4, <1>6, <1>7, <1>8, <1>9

LEMMA InvWrite == ASSUME FetchInv, NEW r \in Runs, Write(r) PROVE FetchInv'
<1> USE FetchFacts
<1>1. doing[r] \in Doings /\ doing[r].step = "write" /\ RunOK(r)
  BY DEF Write, FetchInv, FetchTyped
<1>2. /\ tick' = tick /\ renewed' = renewed /\ served' = served /\ failures' = failures
      /\ doing' = [doing EXCEPT ![r] = Idle]
      /\ raced' = (raced \/ \E s \in Runs \ {r} : doing[s].step = "write")
  BY DEF Write
<1>3. /\ \A s \in Runs \ {r} : RunOK(s)'
      /\ doing'[r] = Idle /\ (\A s \in Runs \ {r} : doing'[s] = doing[s]) /\ doing' \in [Runs -> Doings]
  BY <1>2, IdleForm, OthersStand
<1>4. raced' \in BOOLEAN
  BY <1>2, Zenon DEF FetchInv, FetchTyped
<1>5. FetchTyped'
  BY <1>2, <1>3, <1>4, WriteForm DEF FetchInv, FetchTyped
<1>6. RunOK(r)'
  BY <1>3, IdleForm DEF RunOK
<1>7. Atomic'
  <2>1. SUFFICES ASSUME ~raced' PROVE \A s \in Runs : doing'[s].step # "write"
    BY DEF Atomic
  <2>2. QED BY <1>2, <1>3, <2>1, IdleForm
<1>8. WellDated(cache)'
  <2>1. SUFFICES ASSUME NEW n \in Names, cache'[n] # Nothing
        PROVE  /\ cache'[n].at <= tick /\ cache'[n].at \div 2 <= cache'[n].next
               /\ \A d \in Reports[n] : cache'[n].at \div 2 <= d => cache'[n].next <= d
    BY <1>2 DEF WellDated
  <2>2. CASE n \in doing[r].got
    BY <2>2, WriteForm DEF Day
  <2>3. CASE n \notin doing[r].got
    BY <1>1, <2>1, <2>3, WriteForm DEF RunOK, WellDated
  <2>4. QED BY <2>2, <2>3
<1>9. RenewedOnlyAtNight'
  BY <1>2, Zenon DEF FetchInv, RenewedOnlyAtNight, IsNight
<1>10. QED BY <1>3, <1>5, <1>6, <1>7, <1>8, <1>9 DEF FetchInv

LEMMA InvFetchTick == ASSUME FetchInv, FetchTick PROVE FetchInv'
<1> USE FetchFacts
<1>1. /\ tick' = tick + 1 /\ ~renewed' /\ renewed' = FALSE /\ cache' = cache /\ doing' = doing /\ failures' = failures
      /\ raced' = raced /\ served' = served /\ Day < LastNight /\ \A r \in Runs : doing[r].step = "idle"
  BY DEF FetchTick
<1>2. tick' \in 0..2 * LastNight
  BY <1>1, HalfDays DEF FetchInv, FetchTyped, Day
<1>3. renewed' \in BOOLEAN
  BY <1>1, Zenon
<1>4. FetchTyped'
  BY <1>1, <1>2, <1>3 DEF FetchInv, FetchTyped
<1>5. (\A r \in Runs : RunOK(r))' /\ Atomic' /\ RenewedOnlyAtNight'
  BY <1>1 DEF RunOK, Atomic, RenewedOnlyAtNight
<1>6. WellDated(cache)'
  <2>1. \A n \in Names : cache[n] # Nothing => cache[n].at \in Nat
    BY DEF FetchInv, FetchTyped, FetchedAnswers, FetchedAnswer
  <2>2. tick \in Nat
    BY DEF FetchInv, FetchTyped
  <2>3. QED BY <1>1, <2>1, <2>2 DEF FetchInv, WellDated
<1>7. QED BY <1>4, <1>5, <1>6 DEF FetchInv

LEMMA FetchInvStep == FetchInv /\ [FetchNext]_fetchVars => FetchInv'
<1> SUFFICES ASSUME FetchInv, [FetchNext]_fetchVars PROVE FetchInv'
  OBVIOUS
<1>1. CASE FetchTick
  BY <1>1, InvFetchTick
<1>2. ASSUME NEW r \in Runs, Begin(r) \/ Fetch(r) \/ Reread(r) \/ Write(r) PROVE FetchInv'
  BY <1>2, InvBegin, InvFetch, InvReread, InvWrite
<1>3. CASE UNCHANGED fetchVars
  <2>1. FetchTyped'
    BY <1>3 DEF FetchInv, FetchTyped, fetchVars
  <2>2. WellDated(cache)' /\ (\A r \in Runs : RunOK(r))'
    BY <1>3 DEF FetchInv, fetchVars, RunOK, AllFresh, IsFresh, ReportedSinceFetch, Day, WellDated, IsNight
  <2>3. Atomic'
    BY <1>3 DEF FetchInv, fetchVars, Atomic, Unexpired, IsFresh, ReportedSinceFetch, Day
  <2>4. RenewedOnlyAtNight'
    BY <1>3 DEF FetchInv, fetchVars, RenewedOnlyAtNight, IsNight
  <2>5. QED BY <2>1, <2>2, <2>3, <2>4 DEF FetchInv
<1>4. QED BY <1>1, <1>2, <1>3 DEF FetchNext

-----------------------------------------------------------------------------
(* What is served was fetched this half day, or holds on it.                 *)
LEMMA ServedByFetch == ASSUME FetchInv, NEW r \in Runs, Fetch(r) PROVE NoAnswerOutlivesAReport'
<1> USE FetchFacts
<1> DEFINE c == doing[r]
<1>1. c \in Doings /\ c.step = "fetch" /\ RunOK(r) /\ tick \in Nat
  BY DEF Fetch, FetchInv, FetchTyped
<1>2. PICK got : served' = [at |-> c.at, answers |-> [n \in Names |->
                             IF n \in got THEN [at |-> c.at, next |-> NextReport(n)] ELSE c.cached[n]]]
  BY DEF Fetch
<1>3. c.at = tick /\ c.cached \in FetchedAnswers /\ WellDated(c.cached) /\ AllFresh(c.cached)
  BY <1>1 DEF RunOK, Doings
<1>4. SUFFICES ASSUME NEW n \in Names, served'.answers[n] # Nothing
      PROVE  /\ served'.at - served'.answers[n].at <= 2 * FETCH_CACHE_DAYS
             /\ \A d \in Reports[n] : ~(served'.answers[n].at \div 2 <= d /\ d < served'.at \div 2)
  BY DEF NoAnswerOutlivesAReport
<1>5. served'.at = tick
  BY <1>2, <1>3
<1>6. CASE n \in got
  <2>1. served'.answers[n].at = tick
    BY <1>2, <1>3, <1>6
  <2>2. QED BY <1>1, <1>5, <2>1, HalfDays
<1>7. CASE n \notin got
  <2>1. served'.answers[n] = c.cached[n] /\ c.cached[n] # Nothing
    BY <1>2, <1>4, <1>7
  <2> DEFINE e == c.cached[n]
  <2>2. e.at \in Nat /\ e.next \in Nat
    BY <1>3, <2>1 DEF FetchedAnswers, FetchedAnswer
  <2>3. /\ e.at \div 2 <= e.next /\ (\A d \in Reports[n] : e.at \div 2 <= d => e.next <= d)
        /\ e.at >= tick - 2 * FETCH_CACHE_DAYS /\ ~(e.at \div 2 <= e.next /\ e.next < tick \div 2)
    BY <1>3, <2>1 DEF WellDated, AllFresh, IsFresh, ReportedSinceFetch, Day
  <2>4. tick \div 2 \in Nat /\ e.at \div 2 \in Nat /\ Reports[n] \subseteq Nat
    BY <1>1, <2>2, HalfDays
  <2> HIDE DEF c, e
  <2>5. tick \div 2 <= e.next
    BY <2>2, <2>3, <2>4
  <2>6. \A d \in Reports[n] : ~(e.at \div 2 <= d /\ d < tick \div 2)
    BY <2>2, <2>3, <2>4, <2>5
  <2>7. tick - e.at <= 2 * FETCH_CACHE_DAYS
    BY <1>1, <2>2, <2>3
  <2>8. served'.answers[n] = e
    BY <2>1 DEF e, c
  <2>9. QED BY <1>5, <2>6, <2>7, <2>8
<1>8. QED BY <1>6, <1>7

LEMMA ServedStep == FetchInv /\ NoAnswerOutlivesAReport /\ [FetchNext]_fetchVars => NoAnswerOutlivesAReport'
<1> SUFFICES ASSUME FetchInv, NoAnswerOutlivesAReport, [FetchNext]_fetchVars PROVE NoAnswerOutlivesAReport'
  OBVIOUS
<1>1. CASE UNCHANGED served
  BY <1>1 DEF NoAnswerOutlivesAReport
<1>2. ASSUME NEW r \in Runs, Fetch(r) PROVE NoAnswerOutlivesAReport'
  BY <1>2, ServedByFetch
<1>3. QED BY <1>1, <1>2 DEF FetchNext, fetchVars, FetchTick, Begin, Reread, Write

LEMMA NothingDroppedStep ==
    ASSUME FetchInv, [FetchNext]_fetchVars
    PROVE  \A n \in Names : cache[n] # Nothing /\ IsFresh(cache[n]) /\ cache'[n] = Nothing => raced
<1>1. CASE cache' = cache
  BY <1>1
<1>2. ASSUME NEW r \in Runs, Write(r), NEW n \in Names, cache[n] # Nothing, IsFresh(cache[n]), cache'[n] = Nothing, ~raced
      PROVE  FALSE
  <2>1. n \notin doing[r].got /\ cache'[n] = doing[r].cached[n]
    BY <1>2, WriteForm, FetchFacts
  <2>2. doing[r].cached = Unexpired
    BY <1>2 DEF FetchInv, Atomic, Write
  <2>3. Unexpired[n] = cache[n]
    BY <1>2, UnexpiredForm DEF FetchInv
  <2>4. QED BY <1>2, <2>1, <2>2, <2>3
<1>3. QED BY <1>1, <1>2 DEF FetchNext, fetchVars, FetchTick, Begin, Fetch, Reread

-----------------------------------------------------------------------------
(* The nights of a stretch, and one more.                                    *)
LEMMA NightsCount ==
    ASSUME NEW a \in Nat, NEW b \in Int
    PROVE  /\ Cardinality(NightsIn(a, b)) \in Nat
           /\ a > b => Cardinality(NightsIn(a, b)) = 0
           /\ Cardinality(NightsIn(a, b)) <= Cardinality(NightsIn(a, b + 1))
           /\ Cardinality(NightsIn(a, b + 1)) <= Cardinality(NightsIn(a, b)) + 1
           /\ b + 1 \notin NightsIn(b + 1, b + 1) => Cardinality(NightsIn(a, b + 1)) = Cardinality(NightsIn(a, b))
<1> DEFINE A == NightsIn(a, b)
           B == NightsIn(a, b + 1)
<1>1. A \subseteq a..b /\ B \subseteq a..b + 1 /\ A \subseteq B /\ B \subseteq A \cup {b + 1}
  BY DEF NightsIn
<1>2. b + 1 \notin NightsIn(b + 1, b + 1) => b + 1 \notin B
  BY DEF NightsIn
<1>3. IsFiniteSet(a..b) /\ IsFiniteSet(a..b + 1)
  BY FS_Interval
<1>4. IsFiniteSet(A) /\ IsFiniteSet(B)
  BY <1>1, <1>3, FS_Subset
<1>5. a > b => A = {}
  BY <1>1
<1> HIDE DEF A, B
<1>6. Cardinality(A) \in Nat /\ Cardinality(B) \in Nat /\ Cardinality(A) <= Cardinality(B)
  BY <1>1, <1>4, FS_CardinalityType, FS_Subset
<1>7. IsFiniteSet(A \cup {b + 1}) /\ Cardinality(A \cup {b + 1}) <= Cardinality(A) + 1
  <2>1. IsFiniteSet(A \cup {b + 1}) /\ Cardinality(A \cup {b + 1}) = IF b + 1 \in A THEN Cardinality(A) ELSE Cardinality(A) + 1
    BY <1>4, FS_AddElement
  <2>2. QED BY <1>6, <2>1
<1>8. Cardinality(B) <= Cardinality(A) + 1
  <2>1. Cardinality(B) <= Cardinality(A \cup {b + 1}) /\ Cardinality(A \cup {b + 1}) \in Nat
    BY <1>1, <1>7, FS_Subset, FS_CardinalityType
  <2>2. QED BY <1>6, <1>7, <2>1
<1>9. b + 1 \notin B => B = A
  BY <1>1
<1>10. a > b => Cardinality(A) = 0
  BY <1>5, FS_EmptySet
<1>11. QED BY <1>2, <1>6, <1>8, <1>9, <1>10 DEF A, B

LEMMA ToNameSets ==
    ASSUME NEW S \in SUBSET Names
    PROVE  IsFiniteSet(S) /\ Cardinality(S) \in Nat /\ Cardinality(S) <= Cardinality(Names) /\ Cardinality(Names) \in Nat
BY FetchFacts, FS_Subset, FS_CardinalityType

(* The count of a turn leaves room for its name.                             *)
LEMMA TurnHolds ==
    ASSUME NEW m \in Nat, NEW k \in Nat, NEW c \in Nat, NEW d \in Nat, NEW s \in Nat, NEW t \in Nat, NEW n \in Nat,
           s + m * c <= n, t <= s, d <= c
    PROVE  t + m * d <= n
<1>1. m * d <= m * c
  <2>1. PICK e \in Nat : c = d + e
    BY d <= c
  <2>2. m * c = m * d + m * e /\ m * e \in Nat /\ m * d \in Nat
    BY <2>1
  <2>3. QED BY <2>2
<1>2. m * c \in Nat /\ m * d \in Nat
  OBVIOUS
<1> DEFINE x == m * c
           y == m * d
<1> HIDE DEF x, y
<1>3. x \in Nat /\ y \in Nat /\ y <= x /\ s + x <= n
  BY <1>1, <1>2 DEF x, y
<1>4. t + y <= n
  BY ONLY <1>3, s \in Nat, t \in Nat, n \in Nat, t <= s
<1>5. QED BY <1>4 DEF y

FetchTurns == FetchInv /\ Turns /\ InTurn

LEMMA TurnsInit == FetchInit => Turns /\ InTurn
<1> SUFFICES ASSUME FetchInit PROVE Turns /\ InTurn
  OBVIOUS
<1>1. \A n \in Names : cache[n] = Nothing
  BY DEF FetchInit
<1>2. doing[NightlyRun].step = "idle"
  BY FetchFacts, IdleForm DEF FetchInit
<1>3. QED BY <1>1, <1>2 DEF Turns, InTurn

(* Nothing is counted of the names that are not cached, and a name no newer    *)
(* than another is a name.                                                  *)
LEMMA NoNewerForm == ASSUME NEW n PROVE NoNewer(n) \in SUBSET Names
BY DEF NoNewer

LEMMA TurnsTick == ASSUME FetchTurns, FetchTick PROVE Turns' /\ InTurn'
<1> USE FetchFacts
<1>1. /\ tick' = tick + 1 /\ renewed' = FALSE /\ cache' = cache /\ doing' = doing /\ failures' = failures
      /\ raced' = raced /\ (\A r \in Runs : doing[r].step = "idle") /\ (IsNight => renewed)
  BY DEF FetchTick
<1>2. tick \in Nat
  BY DEF FetchTurns, FetchInv, FetchTyped
<1>3. LastDone' = tick
  BY <1>1, <1>2 DEF LastDone
<1>4. LastDone = tick \/ (LastDone = tick - 1 /\ ~IsNight)
  BY <1>1 DEF LastDone
<1>5. ASSUME Smooth, NEW n \in Names, cache[n] # Nothing
      PROVE  Cardinality(NightsIn(cache[n].at + 1, tick)) = Cardinality(NightsIn(cache[n].at + 1, LastDone))
  <2>1. cache[n].at + 1 \in Nat /\ tick - 1 \in Int /\ (tick - 1) + 1 = tick
    BY <1>2, <1>5 DEF FetchTurns, FetchInv, FetchTyped, FetchedAnswers, FetchedAnswer
  <2>2. CASE LastDone = tick
    BY <2>2
  <2>3. CASE LastDone = tick - 1 /\ ~IsNight
    <3>1. tick \notin NightsIn(tick, tick)
      BY <2>3 DEF IsNight
    <3>2. QED BY <2>1, <2>3, <3>1, NightsCount
  <2>4. QED BY <1>4, <2>2, <2>3
<1>6. Turns'
  <2>1. SUFFICES ASSUME Smooth', NEW n \in Names, cache'[n] # Nothing
        PROVE  Cardinality(NoNewer(n)') + Nightly * Cardinality(NightsIn(cache'[n].at + 1, LastDone')) <= Cardinality(Names)
    BY DEF Turns
  <2>2. Smooth /\ cache[n] # Nothing
    BY <1>1, <2>1 DEF Smooth
  <2>3. NoNewer(n)' = NoNewer(n)
    BY <1>1 DEF NoNewer
  <2>4. QED BY <1>1, <1>3, <1>5, <2>2, <2>3 DEF FetchTurns, Turns
<1>7. InTurn'
  BY <1>1 DEF InTurn
<1>8. QED BY <1>6, <1>7

(* A name fetched this half day has its whole turn before it.                *)
LEMMA NewestTurn ==
    ASSUME NEW S \in SUBSET Names, NEW t \in Nat, NEW l \in {t - 1, t}
    PROVE  Cardinality(S) + Nightly * Cardinality(NightsIn(t + 1, l)) <= Cardinality(Names)
<1>1. Cardinality(NightsIn(t + 1, l)) = 0
  BY NightsCount
<1>2. Cardinality(S) \in Nat /\ Cardinality(S) <= Cardinality(Names) /\ Cardinality(Names) \in Nat /\ Nightly * 0 = 0
  BY ToNameSets, FetchFacts
<1>3. QED BY <1>1, <1>2

(* A night's share takes its place in the count of nights.                    *)
LEMMA NightCounts ==
    ASSUME NEW S \in SUBSET Names, NEW T \in SUBSET S, NEW a \in Nat, NEW t \in Nat,
           Cardinality(S) + Nightly + Nightly * Cardinality(NightsIn(a, t - 1)) <= Cardinality(Names)
    PROVE  Cardinality(T) + Nightly * Cardinality(NightsIn(a, t)) <= Cardinality(Names)
<1> DEFINE c == Cardinality(NightsIn(a, t - 1))
           d == Cardinality(NightsIn(a, t))
<1>1. c \in Nat /\ d \in Nat /\ d <= c + 1
  <2>1. t - 1 \in Int /\ (t - 1) + 1 = t
    OBVIOUS
  <2>2. QED BY <2>1, NightsCount
<1>2. IsFiniteSet(S) /\ Cardinality(S) \in Nat /\ Cardinality(Names) \in Nat
  BY ToNameSets
<1>3. Cardinality(T) \in Nat /\ Cardinality(T) <= Cardinality(S)
  BY <1>2, FS_Subset, FS_CardinalityType
<1> HIDE DEF c, d
<1>4. Nightly \in Nat
  BY FetchFacts
<1>5. Cardinality(S) + Nightly * (c + 1) <= Cardinality(Names)
  <2>1. Nightly * (c + 1) = Nightly + Nightly * c
    BY <1>1, <1>4
  <2>2. Cardinality(S) + Nightly + Nightly * c <= Cardinality(Names) /\ Nightly * c \in Nat
    BY <1>1, <1>4 DEF c
  <2>3. QED BY <1>2, <1>4, <2>1, <2>2
<1>6. c + 1 \in Nat
  BY <1>1
<1>7. Cardinality(T) + Nightly * d <= Cardinality(Names)
  BY <1>1, <1>2, <1>3, <1>4, <1>5, <1>6, TurnHolds
<1>8. QED BY <1>7 DEF d

LEMMA SmallerTurn ==
    ASSUME NEW S \in SUBSET Names, NEW T \in SUBSET S, NEW x \in Nat, NEW k \in Nat,
           Cardinality(S) + k + Nightly * x <= Cardinality(Names)
    PROVE  Cardinality(T) + k + Nightly * x <= Cardinality(Names)
<1>1. IsFiniteSet(S) /\ Cardinality(S) \in Nat /\ Cardinality(Names) \in Nat
  BY ToNameSets
<1>2. Cardinality(T) \in Nat /\ Cardinality(T) <= Cardinality(S)
  BY <1>1, FS_Subset, FS_CardinalityType
<1>3. Nightly * x \in Nat
  BY FetchFacts
<1> DEFINE y == Nightly * x
<1> HIDE DEF y
<1>4. Cardinality(T) + k + y <= Cardinality(Names)
  BY <1>1, <1>2, <1>3 DEF y
<1>5. QED BY <1>4 DEF y

LEMMA AgeForm ==
    ASSUME FetchInv, NEW n \in Names, cache[n] # Nothing
    PROVE  cache[n].at \in Nat /\ cache[n].at + 1 \in Nat /\ cache[n].at <= tick /\ tick \in Nat
<1>1. cache[n].at \in Nat /\ tick \in Nat
  BY DEF FetchInv, FetchTyped, FetchedAnswers, FetchedAnswer
<1>2. cache[n].at <= tick
  BY DEF FetchInv, WellDated
<1>3. QED BY <1>1, <1>2

(* What stays as it is in every step that leaves the file and the night's run. *)
LEMMA TurnsStand ==
    ASSUME FetchTurns, cache' = cache, tick' = tick, doing'[NightlyRun] = doing[NightlyRun], renewed' = renewed, Smooth' => Smooth
    PROVE  Turns' /\ InTurn'
<1>1. LastDone' = LastDone /\ ToFetch(NightlyRun)' = ToFetch(NightlyRun) /\ \A n \in Names : NoNewer(n)' = NoNewer(n)
  BY DEF LastDone, ToFetch, NoNewer
<1>2. Turns'
  BY <1>1 DEF FetchTurns, Turns
<1>3. InTurn'
  BY <1>1 DEF FetchTurns, InTurn
<1>4. QED BY <1>2, <1>3

LEMMA TurnsReread == ASSUME FetchTurns, NEW r \in Runs, Reread(r) PROVE Turns' /\ InTurn'
<1>1. cache' = cache /\ tick' = tick /\ renewed' = renewed /\ raced' = raced /\ failures \in Nat /\ doing \in [Runs -> Doings]
  BY DEF Reread, FetchTurns, FetchInv, FetchTyped
<1>2. Smooth' => Smooth
  BY <1>1 DEF Reread, Smooth
<1>3. CASE r # NightlyRun
  <2>1. doing'[NightlyRun] = doing[NightlyRun]
    BY <1>1, <1>3, FetchFacts DEF Reread, Unreadable
  <2>2. QED BY <1>1, <1>2, <2>1, TurnsStand
<1>4. CASE r = NightlyRun /\ ~Smooth'
  BY <1>4 DEF Turns, InTurn
<1>5. CASE r = NightlyRun /\ Smooth'
  <2>1. doing' = [doing EXCEPT ![r] = [@ EXCEPT !.step = "write", !.cached = Unexpired]] /\ doing[r].step = "merge"
    BY <1>1, <1>5 DEF Reread, Smooth
  <2>2. doing[r] \in Doings
    BY <1>1
  <2>3. doing'[r].step = "write" /\ doing'[r].got = doing[r].got /\ doing'[r].refresh = doing[r].refresh
    BY <1>1, <2>1, <2>2 DEF Doings
  <2>4. LastDone' = LastDone /\ ToFetch(r)' = ToFetch(r) /\ \A n \in Names : NoNewer(n)' = NoNewer(n)
    BY <1>1, <1>5, <2>1, <2>3 DEF LastDone, ToFetch, NoNewer
  <2>5. Turns'
    BY <1>1, <1>2, <2>4 DEF FetchTurns, Turns
  <2>6. InTurn'
    BY <1>1, <1>2, <1>5, <2>1, <2>3, <2>4 DEF FetchTurns, InTurn
  <2>7. QED BY <2>5, <2>6
<1>6. QED BY <1>3, <1>4, <1>5

LEMMA TurnsFetch == ASSUME FetchTurns, NEW r \in Runs, Fetch(r) PROVE Turns' /\ InTurn'
<1> DEFINE todo == {n \in Names : doing[r].cached[n] = Nothing \/ n \in doing[r].refresh}
<1>1. cache' = cache /\ tick' = tick /\ renewed' = renewed /\ raced' = raced /\ failures \in Nat /\ doing \in [Runs -> Doings] /\ doing[r].step = "fetch"
  BY DEF Fetch, FetchTurns, FetchInv, FetchTyped
<1>2. PICK got : /\ failures' = IF got = todo THEN failures ELSE failures + 1
                 /\ doing' = [doing EXCEPT ![r] = IF got = {} THEN Idle ELSE [doing[r] EXCEPT !.step = "merge", !.got = got]]
  BY DEF Fetch
<1>3. todo = ToFetch(r)
  BY <1>1 DEF ToFetch
<1> HIDE DEF todo
<1>4. Smooth' => Smooth /\ got = todo
  BY <1>1, <1>2 DEF Smooth
<1>5. CASE r # NightlyRun
  <2>1. doing'[NightlyRun] = doing[NightlyRun]
    BY <1>1, <1>2, <1>5, FetchFacts
  <2>2. QED BY <1>1, <1>4, <2>1, TurnsStand
<1>6. CASE r = NightlyRun /\ ~Smooth'
  BY <1>6 DEF Turns, InTurn
<1>7. CASE r = NightlyRun /\ Smooth' /\ got # {}
  <2>1. doing[r] \in Doings
    BY <1>1
  <2>2. doing'[r].step = "merge" /\ doing'[r].got = got /\ doing'[r].refresh = doing[r].refresh
    BY <1>1, <1>2, <1>7, <2>1 DEF Doings
  <2>3. LastDone' = LastDone /\ ToFetch(r)' = ToFetch(r) /\ \A n \in Names : NoNewer(n)' = NoNewer(n)
    BY <1>1, <1>3, <1>4, <1>7, <2>2 DEF LastDone, ToFetch, NoNewer
  <2>4. Turns'
    BY <1>1, <1>4, <1>7, <2>3 DEF FetchTurns, Turns
  <2>5. InTurn'
    BY <1>1, <1>4, <1>7, <2>2, <2>3 DEF FetchTurns, InTurn
  <2>6. QED BY <2>4, <2>5
<1>8. CASE r = NightlyRun /\ Smooth' /\ got = {}
  <2>1. doing'[r] = Idle
    BY <1>1, <1>2, <1>8
  <2>2. InTurn'
    BY <1>8, <2>1, IdleForm DEF InTurn
  <2>3. renewed
    BY <1>1, <1>8 DEF FetchTurns, FetchInv, RunOK
  <2>4. LastDone' = tick
    BY <1>1, <1>8, <2>1, <2>3, IdleForm DEF LastDone
  <2>5. doing[r].refresh \subseteq ToFetch(r) /\ ToFetch(r) = {}
    BY <1>1, <1>3, <1>4, <1>8 DEF FetchTurns, InTurn
  <2>6. Turns'
    <3>1. SUFFICES ASSUME NEW n \in Names, cache[n] # Nothing
          PROVE  Cardinality(NoNewer(n)) + Nightly * Cardinality(NightsIn(cache[n].at + 1, tick)) <= Cardinality(Names)
      BY <1>1, <2>4 DEF Turns, NoNewer
    <3>2. NoNewer(n) \in SUBSET Names /\ cache[n].at + 1 \in Nat /\ tick \in Nat /\ cache[n].at <= tick /\ cache[n].at \in Nat
      BY <3>1, AgeForm, NoNewerForm DEF FetchTurns
    <3>3. CASE cache[n].at = tick
      BY <3>2, <3>3, NewestTurn
    <3>4. CASE cache[n].at < tick
      <4>1. Cardinality(NoNewer(n) \ doing[r].refresh) + Nightly
             + Nightly * Cardinality(NightsIn(cache[n].at + 1, tick - 1)) <= Cardinality(Names)
        BY <1>1, <1>4, <1>8, <2>5, <3>1, <3>4 DEF FetchTurns, InTurn
      <4>2. NoNewer(n) \ doing[r].refresh = NoNewer(n)
        BY <2>5
      <4>3. QED BY <3>2, <4>1, <4>2, NightCounts
    <3>5. QED BY <3>2, <3>3, <3>4
  <2>7. QED BY <2>2, <2>6
<1>9. QED BY <1>5, <1>6, <1>7, <1>8

(* The night's run begins with the share whose turn it is.                   *)
LEMMA TurnsBegin == ASSUME FetchTurns, NEW r \in Runs, Begin(r) PROVE Turns' /\ InTurn'
<1>1. /\ cache' = cache /\ tick' = tick /\ raced' = raced /\ failures \in Nat /\ doing \in [Runs -> Doings]
      /\ doing[r].step = "idle" /\ renewed' = (renewed \/ r = NightlyRun) /\ renewed \in BOOLEAN
  BY DEF Begin, FetchTurns, FetchInv, FetchTyped
<1>2. Smooth' => Smooth
  BY <1>1 DEF Begin, Smooth
<1>3. CASE r # NightlyRun
  <2>1. doing'[NightlyRun] = doing[NightlyRun] /\ renewed' = renewed
    BY <1>1, <1>3, FetchFacts DEF Begin
  <2>2. QED BY <1>1, <1>2, <2>1, TurnsStand
<1>4. CASE r = NightlyRun /\ ~Smooth'
  BY <1>4 DEF Turns, InTurn
<1>5. CASE r = NightlyRun /\ Smooth'
  <2> DEFINE O == Oldest(Unexpired)
             d == [Idle EXCEPT !.step = "fetch", !.at = tick, !.cached = Unexpired, !.refresh = O]
  <2>1. doing' = [doing EXCEPT ![r] = d] /\ ~renewed
    BY <1>1, <1>5 DEF Begin, Smooth
  <2>2. d.step = "fetch" /\ d.cached = Unexpired /\ d.refresh = O
    BY DEF Idle
  <2> HIDE DEF d
  <2>3. doing'[r] = d
    BY <1>1, <2>1
  <2>4. LastDone' = tick - 1 /\ LastDone = tick - 1
    BY <1>1, <1>5, <2>1, <2>2, <2>3 DEF LastDone
  <2>5. Turns'
    <3>1. \A n \in Names : NoNewer(n)' = NoNewer(n)
      BY <1>1 DEF NoNewer
    <3>2. QED BY <1>1, <1>2, <1>5, <2>4, <3>1 DEF FetchTurns, Turns
  <2>6. /\ O \subseteq Cached(Unexpired)
        /\ Cardinality(O) = (IF Cardinality(Cached(Unexpired)) < Nightly THEN Cardinality(Cached(Unexpired)) ELSE Nightly)
        /\ \A n \in O, m \in Cached(Unexpired) \ O : Unexpired[n].at <= Unexpired[m].at
    <3>1. Unexpired \in FetchedAnswers /\ WellDated(Unexpired)
      BY UnexpiredForm DEF FetchTurns, FetchInv
    <3>2. tick \in Nat /\ \A n \in Names : Unexpired[n] # Nothing => Unexpired[n].at <= tick
      BY <3>1 DEF WellDated, FetchTurns, FetchInv, FetchTyped
    <3>3. QED BY <3>1, <3>2, OldestForm
  <2> HIDE DEF O
  <2>7. ToFetch(r)' = {n \in Names : Unexpired[n] = Nothing \/ n \in O}
    BY <2>2, <2>3 DEF ToFetch
  <2>8. O \subseteq ToFetch(r)'
    BY <2>6, <2>7 DEF Cached
  <2>9. ASSUME NEW n \in Names \ ToFetch(r)', cache[n] # Nothing
        PROVE  Cardinality(NoNewer(n) \ O) + Nightly + Nightly * Cardinality(NightsIn(cache[n].at + 1, tick - 1)) <= Cardinality(Names)
    <3>1. n \in Cached(Unexpired) \ O /\ Unexpired[n] = cache[n]
      BY <2>7, <2>9, UnexpiredForm DEF Cached, FetchTurns, FetchInv
    <3>2. Cached(Unexpired) \in SUBSET Names
      BY DEF Cached
    <3>3. IsFiniteSet(Cached(Unexpired)) /\ IsFiniteSet(O) /\ Cardinality(O) \in Nat
      BY <2>6, <3>2, ToNameSets
    <3>4. Cardinality(O) # Cardinality(Cached(Unexpired))
      BY <2>6, <3>1, <3>3, FS_Subset
    <3>5. Cardinality(O) = Nightly
      BY <2>6, <3>4
    <3>6. O \subseteq NoNewer(n)
      <4>1. SUFFICES ASSUME NEW x \in O PROVE x \in NoNewer(n)
        OBVIOUS
      <4>2. x \in Names /\ Unexpired[x] # Nothing /\ Unexpired[x].at <= Unexpired[n].at
        BY <2>6, <3>1 DEF Cached
      <4>3. Unexpired[x] = cache[x]
        BY <4>2, UnexpiredForm DEF FetchTurns, FetchInv
      <4>4. QED BY <3>1, <4>2, <4>3 DEF NoNewer
    <3>7. Cardinality(NoNewer(n) \ O) = Cardinality(NoNewer(n)) - Nightly
      <4>1. IsFiniteSet(NoNewer(n)) /\ NoNewer(n) \cap O = O
        BY <3>6, NoNewerForm, ToNameSets
      <4>2. Cardinality(NoNewer(n) \ O) = Cardinality(NoNewer(n)) - Cardinality(NoNewer(n) \cap O)
        BY <4>1, FS_Difference
      <4>3. QED BY <3>5, <4>1, <4>2
    <3>8. Cardinality(NoNewer(n)) + Nightly * Cardinality(NightsIn(cache[n].at + 1, tick - 1)) <= Cardinality(Names)
      BY <1>2, <1>5, <2>4, <2>9 DEF FetchTurns, Turns
    <3>9. Cardinality(NoNewer(n)) \in Nat /\ Nightly \in Nat
      BY NoNewerForm, ToNameSets, FetchFacts
    <3>10. QED BY <3>7, <3>8, <3>9
  <2>10. InTurn'
    <3>1. \A n \in Names : NoNewer(n)' = NoNewer(n)
      BY <1>1 DEF NoNewer
    <3>2. doing'[NightlyRun].refresh = O
      BY <1>5, <2>2, <2>3
    <3>3. ToFetch(NightlyRun)' = ToFetch(r)'
      BY <1>5
    <3>4. QED BY <1>1, <2>8, <2>9, <3>1, <3>2, <3>3 DEF InTurn
  <2>11. QED BY <2>5, <2>10
<1>6. QED BY <1>3, <1>4, <1>5

(* A write that does not race takes names out of the turns before an older one. *)
LEMMA WriteShrinks ==
    ASSUME FetchInv, NEW r \in Runs, Write(r), ~raced, NEW n \in Names, cache'[n] # Nothing, cache'[n].at # tick
    PROVE  /\ n \notin doing[r].got /\ cache'[n] = cache[n]
           /\ NoNewer(n)' \subseteq NoNewer(n) \ doing[r].got
<1>1. doing[r].cached = Unexpired
  BY DEF FetchInv, Atomic, Write
<1>2. \A x \in Names \ doing[r].got : cache'[x] # Nothing => cache'[x] = cache[x]
  BY <1>1, WriteForm, UnexpiredForm DEF FetchInv
<1>3. \A x \in doing[r].got : cache'[x].at = tick
  BY WriteForm
<1>4. n \notin doing[r].got
  BY <1>3
<1>5. cache'[n] = cache[n]
  BY <1>2, <1>4
<1>6. cache'[n].at < tick /\ tick \in Nat /\ cache'[n].at \in Nat
  BY <1>5, AgeForm
<1>7. NoNewer(n)' \subseteq NoNewer(n) \ doing[r].got
  <2>1. SUFFICES ASSUME NEW x \in Names, cache'[x] # Nothing, cache'[x].at <= cache'[n].at
        PROVE  x \in NoNewer(n) \ doing[r].got
    BY DEF NoNewer
  <2>2. x \notin doing[r].got
    BY <1>3, <1>6, <2>1
  <2>3. cache'[x] = cache[x]
    BY <1>2, <2>1, <2>2
  <2>4. QED BY <1>5, <2>1, <2>2, <2>3 DEF NoNewer
<1>8. QED BY <1>4, <1>5, <1>7

LEMMA TurnsWrite == ASSUME FetchTurns, NEW r \in Runs, Write(r) PROVE Turns' /\ InTurn'
<1> USE FetchFacts
<1>1. /\ tick' = tick /\ renewed' = renewed /\ failures' = failures /\ doing' = [doing EXCEPT ![r] = Idle]
      /\ (~raced' => ~raced) /\ doing \in [Runs -> Doings] /\ doing[r].step = "write" /\ FetchInv /\ tick \in Nat
  BY DEF Write, FetchTurns, FetchInv, FetchTyped
<1>2. Smooth' => Smooth /\ ~raced
  BY <1>1 DEF Smooth
<1>3. doing'[r].step = "idle" /\ \A s \in Runs \ {r} : doing'[s] = doing[s]
  BY <1>1, IdleForm
<1>4. LastDone' \in {tick - 1, tick}
  BY <1>1 DEF LastDone
<1>5. Turns'
  <2>1. SUFFICES ASSUME Smooth', NEW n \in Names, cache'[n] # Nothing
        PROVE  Cardinality(NoNewer(n)') + Nightly * Cardinality(NightsIn(cache'[n].at + 1, LastDone')) <= Cardinality(Names)
    BY DEF Turns
  <2>2. NoNewer(n)' \in SUBSET Names
    BY DEF NoNewer
  <2>3. CASE cache'[n].at = tick
    BY <1>1, <1>4, <2>2, <2>3, NewestTurn
  <2>4. CASE cache'[n].at # tick
    <3>1. /\ n \notin doing[r].got /\ cache'[n] = cache[n] /\ cache[n] # Nothing
          /\ NoNewer(n)' \subseteq NoNewer(n) \ doing[r].got
      BY <1>1, <1>2, <2>1, <2>4, WriteShrinks
    <3>2. cache[n].at \in Nat /\ cache[n].at + 1 \in Nat /\ cache[n].at <= tick
      BY <1>1, <3>1, AgeForm
    <3>3. NoNewer(n) \in SUBSET Names
      BY NoNewerForm
    <3>4. CASE r # NightlyRun
      <4>1. LastDone' = LastDone
        BY <1>1, <1>3, <3>4 DEF LastDone
      <4>2. Cardinality(NoNewer(n)) + Nightly * Cardinality(NightsIn(cache[n].at + 1, LastDone)) <= Cardinality(Names)
        BY <1>2, <2>1, <3>1 DEF FetchTurns, Turns
      <4>3. LastDone \in Int
        BY <1>1 DEF LastDone
      <4>4. Cardinality(NightsIn(cache[n].at + 1, LastDone)) \in Nat
        BY <3>2, <4>3, NightsCount
      <4>5. NoNewer(n)' \in SUBSET NoNewer(n) /\ 0 \in Nat
        BY <3>1
      <4> DEFINE x == Cardinality(NightsIn(cache[n].at + 1, LastDone))
                 T == NoNewer(n)'
                 S == NoNewer(n)
      <4>6. S \in SUBSET Names /\ T \in SUBSET S /\ x \in Nat /\ Cardinality(S) + 0 + Nightly * x <= Cardinality(Names)
        <5>1. Cardinality(S) \in Nat
          BY <3>3, ToNameSets
        <5>2. QED BY <3>3, <4>2, <4>4, <4>5, <5>1
      <4>7. LastDone' = LastDone /\ cache'[n] = cache[n]
        BY <3>1, <4>1
      <4> HIDE DEF x, T, S
      <4>8. Cardinality(T) + 0 + Nightly * x <= Cardinality(Names) /\ Cardinality(T) \in Nat
        <5>1. Cardinality(T) + 0 + Nightly * x <= Cardinality(Names)
          BY <4>6, SmallerTurn
        <5>2. T \in SUBSET Names
          BY <4>6
        <5>3. QED BY <5>1, <5>2, ToNameSets
      <4>9. Cardinality(T) + Nightly * x <= Cardinality(Names)
        BY <4>8
      <4>10. QED BY <4>7, <4>9 DEF x, T
    <3>5. CASE r = NightlyRun
      <4>1. renewed
        BY <1>1, <3>5 DEF FetchInv, RunOK
      <4>2. LastDone' = tick
        BY <1>1, <1>3, <3>5, <4>1 DEF LastDone
      <4>3. ToFetch(r) = doing[r].got
        BY <1>1 DEF ToFetch
      <4>4. cache[n].at < tick
        BY <1>1, <2>4, <3>1, <3>2
      <4>5. /\ doing[r].refresh \subseteq doing[r].got
            /\ Cardinality(NoNewer(n) \ doing[r].refresh) + Nightly
             + Nightly * Cardinality(NightsIn(cache[n].at + 1, tick - 1)) <= Cardinality(Names)
        BY <1>1, <1>2, <2>1, <3>1, <3>5, <4>3, <4>4 DEF FetchTurns, InTurn
      <4>6. NoNewer(n) \ doing[r].refresh \in SUBSET Names /\ NoNewer(n)' \in SUBSET (NoNewer(n) \ doing[r].refresh)
        BY <3>1, <3>3, <4>5
      <4>7. Cardinality(NoNewer(n)') + Nightly * Cardinality(NightsIn(cache[n].at + 1, tick)) <= Cardinality(Names)
        BY <1>1, <3>2, <4>5, <4>6, NightCounts
      <4>8. QED BY <3>1, <4>2, <4>7
    <3>6. QED BY <3>4, <3>5
  <2>5. QED BY <2>3, <2>4
<1>6. InTurn'
  <2>1. CASE r = NightlyRun
    BY <1>3, <2>1 DEF InTurn
  <2>2. CASE r # NightlyRun
    <3>1. doing'[NightlyRun] = doing[NightlyRun] /\ ToFetch(NightlyRun)' = ToFetch(NightlyRun)
      BY <1>3, <2>2 DEF ToFetch
    <3>2. SUFFICES ASSUME Smooth', doing[NightlyRun].step # "idle"
          PROVE /\ doing[NightlyRun].refresh \subseteq ToFetch(NightlyRun)
                /\ \A n \in Names \ ToFetch(NightlyRun) : cache'[n] # Nothing /\ cache'[n].at < tick =>
                     Cardinality(NoNewer(n)' \ doing[NightlyRun].refresh) + Nightly
                        + Nightly * Cardinality(NightsIn(cache'[n].at + 1, tick - 1)) <= Cardinality(Names)
      BY <1>1, <3>1 DEF InTurn
    <3>3. doing[NightlyRun].refresh \subseteq ToFetch(NightlyRun)
      BY <1>2, <3>2 DEF FetchTurns, InTurn
    <3>4. ASSUME NEW n \in Names \ ToFetch(NightlyRun), cache'[n] # Nothing, cache'[n].at < tick
          PROVE  Cardinality(NoNewer(n)' \ doing[NightlyRun].refresh) + Nightly
                        + Nightly * Cardinality(NightsIn(cache'[n].at + 1, tick - 1)) <= Cardinality(Names)
      <4>1. cache'[n].at # tick
        BY <1>1, <3>4, WriteForm DEF FetchedAnswers, FetchedAnswer
      <4>2. /\ cache'[n] = cache[n] /\ NoNewer(n)' \subseteq NoNewer(n)
        BY <1>1, <1>2, <3>2, <3>4, <4>1, WriteShrinks
      <4> DEFINE S == NoNewer(n) \ doing[NightlyRun].refresh
                 T == NoNewer(n)' \ doing[NightlyRun].refresh
                 x == Cardinality(NightsIn(cache[n].at + 1, tick - 1))
      <4>3. S \in SUBSET Names /\ T \in SUBSET S
        BY <4>2, NoNewerForm
      <4>4. Cardinality(S) + Nightly + Nightly * x <= Cardinality(Names)
        BY <1>2, <3>2, <3>4, <4>2 DEF FetchTurns, InTurn
      <4>5. x \in Nat /\ Nightly \in Nat
        <5>1. cache[n].at + 1 \in Nat
          BY <1>1, <3>4, <4>2, AgeForm
        <5>2. tick - 1 \in Int
          BY <1>1
        <5>3. QED BY <5>1, <5>2, NightsCount
      <4> HIDE DEF S, T, x
      <4>6. Cardinality(T) + Nightly + Nightly * x <= Cardinality(Names)
        BY <4>3, <4>4, <4>5, SmallerTurn
      <4>7. QED BY <4>2, <4>6 DEF T, x
    <3>5. QED BY <3>3, <3>4
  <2>3. QED BY <2>1, <2>2
<1>7. QED BY <1>5, <1>6

LEMMA FetchTurnsStep == FetchTurns /\ [FetchNext]_fetchVars => FetchTurns'
<1> SUFFICES ASSUME FetchTurns, [FetchNext]_fetchVars PROVE FetchTurns'
  OBVIOUS
<1>1. FetchInv'
  BY FetchInvStep DEF FetchTurns
<1>2. CASE FetchTick
  BY <1>1, <1>2, TurnsTick DEF FetchTurns
<1>3. ASSUME NEW r \in Runs, Begin(r) \/ Fetch(r) \/ Reread(r) \/ Write(r) PROVE FetchTurns'
  BY <1>1, <1>3, TurnsBegin, TurnsFetch, TurnsReread, TurnsWrite DEF FetchTurns
<1>4. CASE UNCHANGED fetchVars
  <2>1. Turns' /\ InTurn'
    BY <1>4, TurnsStand DEF fetchVars, Smooth
  <2>2. QED BY <1>1, <2>1 DEF FetchTurns
<1>5. QED BY <1>2, <1>3, <1>4 DEF FetchNext

(* An answer's turn comes before its days are over.                          *)
LEMMA RenewedTick == ASSUME FetchTurns, RenewedInTime, FetchTick PROVE RenewedInTime'
<1> USE FetchFacts
<1>1. SUFFICES ASSUME Smooth, NEW n \in Names, cache[n] # Nothing, tick + 1 - cache[n].at > 2 * FETCH_CACHE_DAYS PROVE FALSE
  <2>1. tick' = tick + 1 /\ cache' = cache /\ raced' = raced /\ failures' = failures
    BY DEF FetchTick
  <2>2. tick \in Nat /\ \A n \in Names : cache[n] # Nothing => cache[n].at \in Nat
    BY DEF FetchTurns, FetchInv, FetchTyped, FetchedAnswers, FetchedAnswer
  <2>3. QED BY <1>1, <2>1, <2>2 DEF RenewedInTime, Smooth
<1>2. /\ tick \in 0..2 * LastNight /\ tick \in Nat /\ cache[n].at \in Nat /\ cache[n].at <= tick /\ cache[n].at + 1 \in Nat
  BY <1>1, AgeForm DEF FetchTurns, FetchInv, FetchTyped
<1>3. tick - cache[n].at <= 2 * FETCH_CACHE_DAYS
  BY <1>1 DEF RenewedInTime, Smooth
<1>4. tick = cache[n].at + 2 * FETCH_CACHE_DAYS
  BY <1>1, <1>2, <1>3
<1>5. tick < 2 * LastNight
  BY <1>2, HalfDays DEF FetchTick, Day
<1>6. cache[n].at \in 0..2 * LastNight
  BY <1>2
<1> DEFINE c == Cardinality(NightsIn(cache[n].at + 1, tick))
<1>7. Nightly * c >= Cardinality(Names)
  BY <1>4, <1>5, <1>6, SharesAssumption
<1>8. Turns' /\ Smooth' /\ LastDone' = tick /\ cache'[n] # Nothing /\ cache' = cache /\ NoNewer(n)' = NoNewer(n)
  <2>1. Turns'
    BY TurnsTick
  <2>2. tick' = tick + 1 /\ renewed' = FALSE /\ cache' = cache /\ raced' = raced /\ failures' = failures
    BY DEF FetchTick
  <2>3. Smooth'
    BY <1>1, <2>2 DEF Smooth
  <2>4. LastDone' = tick' - 1
    BY <2>2 DEF LastDone
  <2>5. LastDone' = tick
    BY <2>2, <2>4, <1>2
  <2>6. NoNewer(n)' = NoNewer(n)
    BY <2>2 DEF NoNewer
  <2>7. cache'[n] # Nothing
    BY <1>1, <2>2
  <2>8. QED BY <2>1, <2>2, <2>3, <2>5, <2>6, <2>7
<1>9. Cardinality(NoNewer(n)) + Nightly * c <= Cardinality(Names)
  BY <1>8 DEF Turns
<1>10. n \in NoNewer(n) /\ IsFiniteSet(NoNewer(n)) /\ Cardinality(NoNewer(n)) \in Nat /\ Cardinality(Names) \in Nat
  <2>1. n \in NoNewer(n)
    BY <1>1, <1>2 DEF NoNewer
  <2>2. QED BY <2>1, NoNewerForm, ToNameSets
<1>11. Cardinality(NoNewer(n)) > 0
  BY <1>10, FS_EmptySet
<1>12. c \in Nat /\ Nightly * c \in Nat
  <2>1. tick \in Int /\ cache[n].at + 1 \in Int
    BY <1>2
  <2>2. c \in Nat
    BY <2>1, <1>2, NightsCount
  <2>3. Nightly \in Nat
    BY FetchFacts
  <2> HIDE DEF c
  <2>4. QED BY <2>2, <2>3
<1> HIDE DEF c
<1>13. QED BY <1>7, <1>9, <1>10, <1>11, <1>12

LEMMA RenewedStep == ASSUME FetchTurns, RenewedInTime, [FetchNext]_fetchVars PROVE RenewedInTime'
<1>1. CASE FetchTick
  BY <1>1, RenewedTick
<1>2. ASSUME NEW r \in Runs, Write(r) PROVE RenewedInTime'
  <2>1. SUFFICES ASSUME Smooth', NEW n \in Names, cache'[n] # Nothing PROVE tick - cache'[n].at <= 2 * FETCH_CACHE_DAYS
    BY <1>2 DEF RenewedInTime, Smooth, Write
  <2>2. Smooth
    BY <1>2, <2>1 DEF Smooth, Write
  <2>3. FETCH_CACHE_DAYS \in Nat /\ tick \in Nat
    BY FetchFacts DEF FetchTurns, FetchInv, FetchTyped
  <2>4. CASE cache'[n].at = tick
    BY <2>3, <2>4
  <2>5. CASE cache'[n].at # tick
    <3>1. cache'[n] = cache[n]
      BY <1>2, <2>1, <2>2, <2>5, WriteShrinks DEF FetchTurns, Smooth
    <3>2. QED BY <2>1, <2>2, <3>1 DEF RenewedInTime, Smooth
  <2>6. QED BY <2>4, <2>5
<1>3. ASSUME cache' = cache, tick' = tick, Smooth' => Smooth PROVE RenewedInTime'
  BY <1>3 DEF RenewedInTime, Smooth
<1>4. ASSUME NEW r \in Runs, Begin(r) \/ Fetch(r) \/ Reread(r) PROVE cache' = cache /\ tick' = tick /\ (Smooth' => Smooth)
  <2>1. failures \in Nat
    BY DEF FetchTurns, FetchInv, FetchTyped
  <2>2. cache' = cache /\ tick' = tick /\ raced' = raced
    BY <1>4 DEF Begin, Fetch, Reread
  <2>3. failures' = failures \/ failures' = failures + 1
    <3>1. CASE Fetch(r)
      BY <3>1 DEF Fetch
    <3>2. CASE Begin(r) \/ Reread(r)
      BY <3>2 DEF Begin, Reread
    <3>3. QED BY <1>4, <3>1, <3>2
  <2>4. QED BY <2>1, <2>2, <2>3 DEF Smooth
<1>5. CASE UNCHANGED fetchVars
  BY <1>3, <1>5 DEF fetchVars, Smooth
<1>6. QED BY <1>1, <1>2, <1>3, <1>4, <1>5 DEF FetchNext

(* The cache of fetched answers, for any names, runs, reports and failures:    *)
(* no answer is served past its company's report or its days; while nothing   *)
(* fails and no writes overlap none gets that old, as the nightly shares go    *)
(* round in time; and none that holds is lost but to two writers             *)
(* (fetch_cache.fetch_many, oldest; earnings_watch.warm_screen_cache).       *)
THEOREM NoAnswerIsStale == FetchSpec => CacheIsHonest
<1>1. FetchInit => FetchTurns /\ AnswersAreCurrent
  <2>1. FetchInit => FetchTurns
    BY InvFetchInit, TurnsInit DEF FetchTurns
  <2>2. FetchInit => NoAnswerOutlivesAReport
    BY DEF FetchInit, NoAnswerOutlivesAReport
  <2>3. FetchInit => RenewedInTime
    BY DEF FetchInit, RenewedInTime
  <2>4. QED BY <2>1, <2>2, <2>3 DEF AnswersAreCurrent
<1>2. FetchTurns /\ AnswersAreCurrent /\ [FetchNext]_fetchVars => (FetchTurns /\ AnswersAreCurrent)'
  <2>1. SUFFICES ASSUME FetchTurns, AnswersAreCurrent, [FetchNext]_fetchVars PROVE FetchTurns' /\ AnswersAreCurrent'
    OBVIOUS
  <2>2. QED BY <2>1, FetchTurnsStep, ServedStep, RenewedStep DEF FetchTurns, AnswersAreCurrent
<1>3. FetchTurns /\ [FetchNext]_fetchVars =>
        [\A n \in Names : cache[n] # Nothing /\ IsFresh(cache[n]) /\ cache'[n] = Nothing => raced]_fetchVars
  <2>1. SUFFICES ASSUME FetchTurns, [FetchNext]_fetchVars
        PROVE  \A n \in Names : cache[n] # Nothing /\ IsFresh(cache[n]) /\ cache'[n] = Nothing => raced
    OBVIOUS
  <2>2. FetchInv
    BY <2>1 DEF FetchTurns
  <2>3. QED BY <2>1, <2>2, NothingDroppedStep
<1>4. QED BY <1>1, <1>2, <1>3, PTL DEF FetchSpec, CacheIsHonest, NothingFreshIsDropped

-----------------------------------------------------------------------------
(* The HTTP client.                                                          *)
\* The thread that spaces its call is the one that holds the lock.
LockOK == \A t \in Threads : pc[t] = "spacing" <=> lock = t

\* It sleeps until the interval since the last call is over.
SpacingOK == \A t \in Threads : pc[t] = "spacing" => sleep[t] + lastCall >= MinInterval

ClientInv == TypeOK /\ LockOK /\ SpacingOK

-----------------------------------------------------------------------------
(* The policy's numbers, one by one.                                       *)
LEMMA Policy ==
    /\ MaxAttempts \in Nat /\ MaxAttempts > 0
    /\ InitialBackoff \in Nat /\ MaxBackoff \in Nat /\ InitialBackoff <= MaxBackoff
    /\ Multiplier \in Nat /\ Multiplier > 0
    /\ JitterPart \in Nat /\ JitterPart > 0
    /\ MinInterval \in Nat /\ Calls \in Nat
    /\ RetryAfters \subseteq Nat
BY PolicyAssumption

(* A product of counts is a count.                                         *)
LEMMA Product == ASSUME NEW a \in Nat, NEW b \in Nat PROVE a * b \in Nat
OBVIOUS

(* Division by a positive number is monotone.                              *)
LEMMA DivMonotone ==
    ASSUME NEW a \in Nat, NEW b \in Nat, a <= b, NEW j \in Nat, j > 0
    PROVE  a \div j \in Nat /\ a \div j <= b \div j
OBVIOUS

(* No pause is longer than the largest backoff and its jitter.             *)
LEMMA PausesAreBounded ==
    ASSUME NEW a \in Answers, NEW b \in 0..MaxBackoff, NEW w \in PausesAfter(a, b)
    PROVE  w \in Nat /\ w <= MaxBackoff + MaxBackoff \div JitterPart
<1>1. b \div JitterPart \in Nat /\ b \div JitterPart <= MaxBackoff \div JitterPart
  BY DivMonotone, Policy
<1>2. \A v \in Jittered(b) : v \in Nat /\ v <= MaxBackoff + MaxBackoff \div JitterPart
  <2> DEFINE d == b \div JitterPart
             m == MaxBackoff \div JitterPart
  <2>1. d \in Nat /\ m \in Nat /\ d <= m
    BY <1>1, DivMonotone, Policy
  <2>2. Jittered(b) = b .. (b + d)
    BY DEF Jittered
  <2> HIDE DEF d, m
  <2>3. \A v \in b .. (b + d) : v \in Nat /\ v <= MaxBackoff + m
    BY <2>1, Policy
  <2>4. QED BY <2>2, <2>3 DEF m
<1>3. MaxBackoff \div JitterPart \in Nat
  BY DivMonotone, Policy
<1>4. w \in Jittered(b) \/ \E v \in Nat : w = Least(v, MaxBackoff)
  BY <1>2, Policy DEF PausesAfter
<1>5. CASE \E v \in Nat : w = Least(v, MaxBackoff)
  BY <1>3, <1>5, Policy DEF Least
<1>6. QED BY <1>2, <1>4, <1>5

(* The backoff grows up to its cap.                                        *)
LEMMA BackoffIsCapped ==
    ASSUME NEW b \in 0..MaxBackoff
    PROVE  NextBackoff(b) \in 0..MaxBackoff
<1>1. b * Multiplier \in Nat
  BY Product, Policy
<1>2. QED BY <1>1, Policy DEF NextBackoff, Least

LEMMA ClientInvInit == Init => ClientInv
BY Policy, NoThreadAssumption DEF Init, ClientInv, TypeOK, LockOK, SpacingOK, Answers

(* A thread's step between the lock's sections: nobody's place in them      *)
(* changes, and no thread inside them sleeps less.                         *)
LEMMA ClientInvOutside ==
    ASSUME ClientInv, TypeOK', NEW t \in Threads, UNCHANGED <<lock, lastCall>>,
           pc[t] # "spacing", NEW label, pc' = [pc EXCEPT ![t] = label], label # "spacing",
           \A u \in Threads : u # t => sleep'[u] = sleep[u]
    PROVE  ClientInv'
BY DEF ClientInv, TypeOK, LockOK, SpacingOK

LEMMA ClientInvRequest == ASSUME ClientInv, NEW t \in Threads, Request(t) PROVE ClientInv'
<1>1. TypeOK'
  BY Policy DEF ClientInv, TypeOK, Request, Goto
<1>2. QED BY <1>1, ClientInvOutside DEF Request, Goto

LEMMA ClientInvEnter == ASSUME ClientInv, NEW t \in Threads, Enter(t) PROVE ClientInv'
<1>1. TypeOK'
  BY Policy DEF ClientInv, TypeOK, Enter, Goto
<1>2. LockOK'
  BY NoThreadAssumption DEF ClientInv, TypeOK, LockOK, Enter, Goto
<1>3. SpacingOK'
  BY Policy, NoThreadAssumption DEF ClientInv, TypeOK, LockOK, SpacingOK, Enter, Goto
<1>4. QED BY <1>1, <1>2, <1>3 DEF ClientInv

LEMMA ClientInvSend == ASSUME ClientInv, NEW t \in Threads, Send(t) PROVE ClientInv'
<1>1. TypeOK'
  BY Policy DEF ClientInv, TypeOK, Send, Goto
<1>2. LockOK' /\ \A u \in Threads : pc'[u] # "spacing"
  BY NoThreadAssumption DEF ClientInv, TypeOK, LockOK, Send, Goto
<1>3. QED BY <1>1, <1>2 DEF ClientInv, SpacingOK

LEMMA ClientInvAnswer == ASSUME ClientInv, NEW t \in Threads, NEW a \in Answers, Answer(t, a) PROVE ClientInv'
<1>1. TypeOK'
  BY Policy DEF ClientInv, TypeOK, Answer, Goto
<1>2. QED BY <1>1, ClientInvOutside DEF Answer, Goto

LEMMA ClientInvFinish == ASSUME ClientInv, NEW t \in Threads, Finish(t) PROVE ClientInv'
<1>1. TypeOK'
  BY Policy DEF ClientInv, TypeOK, Finish, Goto
<1>2. QED BY <1>1, ClientInvOutside DEF Finish, Goto

LEMMA ClientInvRetry == ASSUME ClientInv, NEW t \in Threads, Retry(t) PROVE ClientInv'
<1>1. PICK w \in PausesAfter(answer[t], backoff[t]) : sleep' = [sleep EXCEPT ![t] = w]
  BY DEF Retry
<1>2. w \in Nat
  BY PausesAreBounded DEF ClientInv, TypeOK
<1>3. NextBackoff(backoff[t]) \in 0..MaxBackoff
  BY BackoffIsCapped DEF ClientInv, TypeOK
<1>4. TypeOK'
  BY <1>1, <1>2, <1>3, Policy DEF ClientInv, TypeOK, Retry, Goto
<1>5. \A u \in Threads : u # t => sleep'[u] = sleep[u]
  BY <1>1 DEF ClientInv, TypeOK
<1>6. QED BY <1>4, <1>5, ClientInvOutside DEF Retry, Goto

(* While the clock runs, the interval since the last call grows by what the *)
(* sleep shrinks.                                                          *)
LEMMA ClientInvTick == ASSUME ClientInv, Tick PROVE ClientInv'
<1>1. TypeOK'
  BY Policy DEF ClientInv, TypeOK, Tick, Least
<1>2. LockOK'
  BY DEF ClientInv, LockOK, Tick
<1>3. SpacingOK'
  BY Policy DEF ClientInv, TypeOK, SpacingOK, Tick, Least
<1>4. QED BY <1>1, <1>2, <1>3 DEF ClientInv

LEMMA ClientInvStep == ClientInv /\ [Next]_vars => ClientInv'
<1> SUFFICES ASSUME ClientInv, [Next]_vars PROVE ClientInv'
  OBVIOUS
<1>1. ASSUME NEW t \in Threads, Step(t) PROVE ClientInv'
  BY <1>1, ClientInvRequest, ClientInvEnter, ClientInvSend, ClientInvAnswer, ClientInvFinish, ClientInvRetry DEF Step
<1>2. CASE UNCHANGED vars
  BY <1>2 DEF ClientInv, TypeOK, LockOK, SpacingOK, vars
<1>3. QED BY <1>1, <1>2, ClientInvTick DEF Next

(* The threads, the clock and the waits are what they are meant to be, for  *)
(* every retry policy (HttpClient.request, RetryPolicy).                   *)
THEOREM ClientTypes == Spec => []TypeOK
<1>1. ClientInv => TypeOK
  BY DEF ClientInv
<1>2. QED BY ClientInvInit, ClientInvStep, <1>1, PTL DEF Spec

(* No two calls of the client are stamped closer together than the rate    *)
(* limit allows, however many threads share it and whatever the server     *)
(* answers (HttpClient._throttle).                                         *)
THEOREM AttemptsAreSpaced == Spec => CallsAreSpaced
<1>1. ClientInv => \A t \in Threads : Send(t) => lastCall >= MinInterval
  BY Policy DEF ClientInv, TypeOK, SpacingOK, Send
<1>2. QED BY ClientInvInit, ClientInvStep, <1>1, PTL DEF Spec, CallsAreSpaced

(* A longer sleep than the interval or the largest jittered backoff starts  *)
(* nowhere.                                                                *)
LEMMA SleepsStayBounded == SleepIsBounded /\ ClientInv /\ [Next]_vars => SleepIsBounded'
<1> DEFINE most == MaxBackoff + MaxBackoff \div JitterPart
<1> SUFFICES ASSUME SleepIsBounded, ClientInv, [Next]_vars, NEW u \in Threads
             PROVE  sleep'[u] <= MinInterval \/ sleep'[u] <= most
  BY DEF SleepIsBounded
<1>1. \A t \in Threads : sleep[t] \in Nat /\ (sleep[t] <= MinInterval \/ sleep[t] <= most)
  BY DEF SleepIsBounded, ClientInv, TypeOK
<1>2. most \in Nat
  BY DivMonotone, Policy
<1> HIDE DEF most
<1>3. ASSUME NEW t \in Threads, Retry(t) PROVE sleep'[u] = sleep[u] \/ sleep'[u] <= most
  <2>1. PICK w \in PausesAfter(answer[t], backoff[t]) : sleep' = [sleep EXCEPT ![t] = w]
    BY <1>3 DEF Retry
  <2>2. w <= most
    BY PausesAreBounded DEF ClientInv, TypeOK, most
  <2>3. QED BY <2>1, <2>2 DEF ClientInv, TypeOK
<1>4. ASSUME NEW t \in Threads, Enter(t) PROVE sleep'[u] = sleep[u] \/ sleep'[u] <= MinInterval
  BY <1>4, Policy DEF ClientInv, TypeOK, Enter
<1>5. ASSUME NEW t \in Threads, Step(t), ~Retry(t), ~Enter(t) PROVE sleep'[u] = sleep[u]
  BY <1>5 DEF Step, Request, Send, Answer, Finish
<1>6. CASE Tick
  BY <1>1, <1>2, <1>6, Policy DEF Tick
<1>7. CASE UNCHANGED vars
  BY <1>1, <1>7 DEF vars
<1>8. QED BY <1>1, <1>3, <1>4, <1>5, <1>6, <1>7 DEF Next

(* No thread sleeps longer than the interval or the largest jittered        *)
(* backoff, whatever Retry-After a server sends (HttpClient.request's waits, *)
(* RetryPolicy.max_backoff).                                               *)
THEOREM WaitsAreBounded == Spec => []SleepIsBounded
<1>1. ASSUME Init, NEW t \in Threads PROVE sleep[t] <= MinInterval
  <2>1. sleep[t] = 0 /\ MinInterval \in Nat
    BY <1>1, Policy DEF Init
  <2>2. QED BY <2>1
<1>2. Init => SleepIsBounded
  BY <1>1 DEF SleepIsBounded
<1>3. QED BY <1>2, ClientInvInit, ClientInvStep, SleepsStayBounded, PTL DEF Spec

-----------------------------------------------------------------------------
\* The interval of the ceiling rate.
CeilingInterval == Minute \div MaxRate

\* What the pacer and the threads' waits are.  (That a cooldown is not
\* negative plays no part.)
PacerTypeOK ==
    /\ rate \in MinRate..MaxRate
    /\ slotIn \in Nat /\ coolIn \in Int
    /\ limits \in Nat /\ leaked \in Nat
    /\ phaseOf \in [Callers -> {"idle", "waiting", "pacing", "sent", "limited", "dropped"}]
    /\ trial \in [Callers -> Nat]
    /\ asleep \in [Callers -> Nat]

\* The semaphore's places.
SemaphoreOK == IsFiniteSet(InSemaphore) /\ Cardinality(InSemaphore) <= MaxConcurrency

\* Whoever still sleeps towards a slot leaves an interval before the next.
NextSlotIsApart == \A t \in Pacing : asleep[t] > 0 => asleep[t] + CeilingInterval <= slotIn

\* Threads whose slot comes before the end of the cooldown: it was handed
\* out before the cooldown began.
Early == {t \in Pacing : asleep[t] < coolIn}

\* They and what has leaked are no more than the semaphore had places.
LeakOK == coolIn > 0 => leaked + Cardinality(Early) <= MaxConcurrency

PacerInv == PacerTypeOK /\ SemaphoreOK /\ NextSlotIsApart /\ SlotsAreApart /\ LeakOK

-----------------------------------------------------------------------------
(* The pacer's numbers, one by one.                                        *)
LEMMA Counts ==
    /\ MaxConcurrency \in Nat /\ MaxConcurrency > 0
    /\ Minute \in Nat /\ Minute > 0
    /\ MinRate \in Nat /\ MinRate > 0 /\ MaxRate \in Nat /\ MinRate <= MaxRate
    /\ RecoveryStep \in Nat /\ RecoveryAfter \in Nat
    /\ BaseCooldown \in Nat /\ MaxCooldown \in Nat /\ MaxCooldown > 0
    /\ Jitter \in Nat /\ Pause \in Nat
BY CountsAssumption, RateAssumption

(* A quotient is a count, and smaller the larger the divisor.              *)
LEMMA Quotient ==
    ASSUME NEW m \in Nat, NEW a \in Nat, a > 0
    PROVE  m \div a \in Nat
OBVIOUS

LEMMA QuotientShrinks ==
    ASSUME NEW m \in Nat, NEW a \in Nat, NEW b \in Nat, 0 < a, a <= b
    PROVE  m \div b <= m \div a
OBVIOUS

LEMMA ProductIsACount == ASSUME NEW a \in Nat, NEW b \in Nat PROVE a * b \in Nat
OBVIOUS

(* At no rate are slots closer than at the ceiling.                        *)
LEMMA IntervalIsApart ==
    ASSUME rate \in MinRate..MaxRate
    PROVE  Interval \in Nat /\ CeilingInterval \in Nat /\ CeilingInterval <= Interval
<1>1. rate \in Nat /\ rate > 0 /\ rate <= MaxRate
  BY Counts
<1>2. QED BY <1>1, Counts, Quotient, QuotientShrinks DEF Interval, CeilingInterval

(* A rate that halves or recovers stays between the floor and the ceiling.  *)
LEMMA RatesStay ==
    ASSUME NEW r \in MinRate..MaxRate
    PROVE  Halved(r) \in MinRate..MaxRate /\ Lesser(MaxRate, r + RecoveryStep) \in MinRate..MaxRate
BY Counts DEF Halved, Greatest, Lesser

(* A cooldown is a time.                                                   *)
LEMMA CooldownIsATime ==
    ASSUME NEW n \in Nat, NEW extra \in 0..Jitter
    PROVE  Lesser(BaseCooldown * 2 ^ n, MaxCooldown) + extra \in Int
<1>1. 2 ^ n \in Int
  OBVIOUS
<1>2. BaseCooldown * 2 ^ n \in Int
  BY <1>1, Counts
<1>3. QED BY <1>2, Counts DEF Lesser

(* The early threads have places in the semaphore.                         *)
LEMMA EarlyHavePlaces ==
    ASSUME SemaphoreOK
    PROVE  /\ IsFiniteSet(Early) /\ Cardinality(Early) \in Nat
           /\ Cardinality(Early) <= Cardinality(InSemaphore) /\ Cardinality(InSemaphore) \in Nat
<1>1. Early \subseteq InSemaphore
  BY DEF Early, Pacing, InSemaphore
<1>2. QED BY <1>1, FS_Subset, FS_CardinalityType DEF SemaphoreOK

-----------------------------------------------------------------------------
LEMMA PacerInvInit == GatewayInit => PacerInv
<1> SUFFICES ASSUME GatewayInit PROVE PacerInv
  OBVIOUS
<1>1. InSemaphore = {} /\ Pacing = {} /\ Early = {}
  BY DEF GatewayInit, InSemaphore, Pacing, Early
<1>2. PacerTypeOK
  BY Counts DEF GatewayInit, PacerTypeOK
<1>3. SemaphoreOK
  BY <1>1, FS_EmptySet, Counts DEF SemaphoreOK
<1>4. NextSlotIsApart /\ SlotsAreApart
  BY <1>1 DEF NextSlotIsApart, SlotsAreApart
<1>5. LeakOK
  BY DEF LeakOK, GatewayInit
<1>6. QED BY <1>2, <1>3, <1>4, <1>5 DEF PacerInv

(* Nobody enters the semaphore or starts towards a slot, and the pacer's    *)
(* times stand: whoever sleeps towards a slot is as far from it as before. *)
LEMMA InvLeaves ==
    ASSUME PacerInv, PacerTypeOK', InSemaphore' \subseteq InSemaphore, Pacing' \subseteq Pacing,
           \A t \in Pacing' : asleep'[t] = asleep[t],
           UNCHANGED <<slotIn, coolIn, leaked>>
    PROVE  PacerInv'
<1>1. SemaphoreOK'
  BY FS_Subset, FS_CardinalityType, Counts DEF PacerInv, SemaphoreOK
<1>2. NextSlotIsApart' /\ SlotsAreApart'
  BY DEF PacerInv, NextSlotIsApart, SlotsAreApart, CeilingInterval
<1>3. Early' \subseteq Early
  BY DEF Early
<1>4. Cardinality(Early') <= Cardinality(Early) /\ Cardinality(Early') \in Nat
  BY <1>3, EarlyHavePlaces, FS_Subset, FS_CardinalityType DEF PacerInv
<1>5. LeakOK'
  BY <1>4, EarlyHavePlaces, Counts DEF PacerInv, LeakOK, PacerTypeOK
<1>6. QED BY <1>1, <1>2, <1>5 DEF PacerInv

LEMMA InvStart == ASSUME PacerInv, NEW t \in Callers, NEW s \in Symbols, Start(t, s) PROVE PacerInv'
<1>1. PacerTypeOK'
  BY DEF PacerInv, PacerTypeOK, Start, GoTo, pacer
<1>2. InSemaphore' \subseteq InSemaphore /\ Pacing' \subseteq Pacing
  BY DEF PacerInv, PacerTypeOK, Start, GoTo, InSemaphore, Pacing
<1>3. QED BY <1>1, <1>2, InvLeaves DEF Start, pacer, PacerInv, PacerTypeOK

LEMMA InvAcquire == ASSUME PacerInv, NEW t \in Callers, Acquire(t) PROVE PacerInv'
<1> DEFINE turn == Greatest(slotIn, coolIn)
<1>1. turn \in Nat /\ turn >= slotIn /\ turn >= coolIn
  BY DEF PacerInv, PacerTypeOK, Greatest
<1>2. /\ phaseOf[t] = "waiting" /\ phaseOf' = [phaseOf EXCEPT ![t] = "pacing"]
      /\ Cardinality(InSemaphore) < MaxConcurrency
      /\ slotIn' = turn + Interval /\ asleep' = [asleep EXCEPT ![t] = turn]
      /\ UNCHANGED <<rate, coolIn, limits, trial, leaked>>
  BY DEF Acquire, GoTo
<1> HIDE DEF turn
<1>3. Interval \in Nat /\ CeilingInterval \in Nat /\ CeilingInterval <= Interval
  BY IntervalIsApart DEF PacerInv, PacerTypeOK
<1>4. PacerTypeOK'
  BY <1>1, <1>2, <1>3 DEF PacerInv, PacerTypeOK
<1>5. InSemaphore' = InSemaphore \cup {t} /\ Pacing' = Pacing \cup {t} /\ t \notin Pacing
      /\ t \notin InSemaphore
  BY <1>2 DEF InSemaphore, Pacing, PacerInv, PacerTypeOK
<1>6. SemaphoreOK'
  <2>1. IsFiniteSet(InSemaphore) /\ Cardinality(InSemaphore) \in Nat
    BY FS_CardinalityType DEF PacerInv, SemaphoreOK
  <2>2. IsFiniteSet(InSemaphore') /\ Cardinality(InSemaphore') = Cardinality(InSemaphore) + 1
    BY <2>1, <1>5, FS_AddElement
  <2>3. QED BY <2>1, <2>2, <1>2, Counts DEF SemaphoreOK
<1>7. asleep'[t] = turn /\ \A u \in Pacing : asleep'[u] = asleep[u] /\ asleep[u] \in Nat
  BY <1>2, <1>5 DEF Pacing, PacerInv, PacerTypeOK
<1>8. NextSlotIsApart'
  <2>1. \A u \in Pacing' : asleep'[u] > 0 => asleep'[u] + CeilingInterval <= turn + Interval
    BY <1>1, <1>3, <1>5, <1>7 DEF PacerInv, NextSlotIsApart, PacerTypeOK
  <2>2. QED BY <2>1, <1>2 DEF NextSlotIsApart, CeilingInterval
<1>9. SlotsAreApart'
  <2>1. \A u \in Pacing : asleep[u] > 0 => turn - asleep[u] >= CeilingInterval
    BY <1>1, <1>3, <1>7 DEF PacerInv, NextSlotIsApart, PacerTypeOK
  <2>2. QED BY <2>1, <1>5, <1>7 DEF PacerInv, SlotsAreApart, CeilingInterval
<1>10. Early' = Early
  BY <1>1, <1>2, <1>5, <1>7 DEF Early, PacerInv, PacerTypeOK
<1>11. LeakOK'
  BY <1>2, <1>10 DEF PacerInv, LeakOK
<1>12. QED BY <1>4, <1>6, <1>8, <1>9, <1>11 DEF PacerInv

LEMMA InvSend == ASSUME PacerInv, NEW t \in Callers, SendRequest(t) PROVE PacerInv'
<1>1. /\ phaseOf[t] = "pacing" /\ asleep[t] = 0 /\ phaseOf' = [phaseOf EXCEPT ![t] = "sent"]
      /\ leaked' = IF coolIn > 0 THEN leaked + 1 ELSE leaked
      /\ UNCHANGED <<rate, slotIn, coolIn, limits, trial, asleep>>
  BY DEF SendRequest, GoTo, pacer
<1>2. PacerTypeOK'
  BY <1>1 DEF PacerInv, PacerTypeOK
<1>3. InSemaphore' = InSemaphore /\ Pacing' = Pacing \ {t}
  BY <1>1 DEF InSemaphore, Pacing, PacerInv, PacerTypeOK
<1>4. SemaphoreOK' /\ NextSlotIsApart' /\ SlotsAreApart'
  BY <1>1, <1>3 DEF PacerInv, SemaphoreOK, NextSlotIsApart, SlotsAreApart, CeilingInterval
<1>5. LeakOK'
  <2> SUFFICES ASSUME coolIn > 0 PROVE leaked + 1 + Cardinality(Early') <= MaxConcurrency
    BY <1>1 DEF LeakOK
  <2>1. t \in Early /\ Early' = Early \ {t}
    BY <1>1, <1>3 DEF Early, Pacing
  <2>2. Cardinality(Early') = Cardinality(Early) - 1 /\ Cardinality(Early) \in Nat
    BY <2>1, EarlyHavePlaces, FS_RemoveElement DEF PacerInv
  <2>3. QED BY <2>2, Counts DEF PacerInv, LeakOK, PacerTypeOK
<1>6. QED BY <1>2, <1>4, <1>5 DEF PacerInv

(* A call that returns gives its place back.                               *)
LEMMA InvReturn ==
    ASSUME PacerInv, NEW t \in Callers, phaseOf[t] = "sent", ReturnFrom(t), UNCHANGED <<slotIn, coolIn>>,
           rate' \in MinRate..MaxRate, limits' \in Nat
    PROVE  PacerInv'
<1>1. PacerTypeOK'
  BY DEF PacerInv, PacerTypeOK, ReturnFrom, GoTo
<1>2. InSemaphore' \subseteq InSemaphore /\ Pacing' \subseteq Pacing
  BY DEF PacerInv, PacerTypeOK, ReturnFrom, GoTo, InSemaphore, Pacing
<1>3. QED BY <1>1, <1>2, InvLeaves DEF ReturnFrom

LEMMA InvSucceed == ASSUME PacerInv, NEW t \in Callers, Succeed(t) PROVE PacerInv'
<1>1. rate' \in MinRate..MaxRate
  BY RatesStay DEF Succeed, PacerInv, PacerTypeOK
<1>2. QED BY <1>1, InvReturn DEF Succeed

LEMMA InvFail == ASSUME PacerInv, NEW t \in Callers, Fail(t) PROVE PacerInv'
BY InvReturn DEF Fail, pacer, PacerInv, PacerTypeOK

LEMMA InvRetry == ASSUME PacerInv, NEW t \in Callers, Refused(t) PROVE PacerInv'
<1>1. PacerTypeOK'
  BY DEF PacerInv, PacerTypeOK, Refused, GoTo, pacer
<1>2. InSemaphore' \subseteq InSemaphore /\ Pacing' \subseteq Pacing
  BY DEF PacerInv, PacerTypeOK, Refused, GoTo, InSemaphore, Pacing
<1>3. QED BY <1>1, <1>2, InvLeaves DEF Refused, pacer, PacerInv, PacerTypeOK

LEMMA InvBackOff == ASSUME PacerInv, NEW t \in Callers, BackOff(t) PROVE PacerInv'
<1>1. trial[t] \in Nat /\ Pause * trial[t] \in Nat
  BY ProductIsACount, Counts DEF PacerInv, PacerTypeOK
<1>2. PacerTypeOK'
  BY <1>1 DEF PacerInv, PacerTypeOK, BackOff, NextAttempt, GoTo, pacer
<1>3. InSemaphore' \subseteq InSemaphore /\ Pacing' \subseteq Pacing /\ t \notin Pacing'
  BY DEF PacerInv, PacerTypeOK, BackOff, NextAttempt, GoTo, InSemaphore, Pacing
<1>4. \A u \in Pacing' : asleep'[u] = asleep[u]
  BY <1>3 DEF BackOff, PacerInv, PacerTypeOK, Pacing
<1>5. QED BY <1>2, <1>3, <1>4, InvLeaves DEF BackOff, pacer

(* A rate limit: either a cooldown runs, or one begins with nothing leaked. *)
LEMMA InvPenalize ==
    ASSUME PacerInv, NEW t \in Callers, NEW extra \in 0..Jitter, Penalize(t, extra)
    PROVE  PacerInv'
<1>1. /\ phaseOf[t] = "limited" /\ phaseOf' = [phaseOf EXCEPT ![t] = "waiting"] /\ UNCHANGED asleep
      /\ trial' = [trial EXCEPT ![t] = @ + 1]
  BY DEF Penalize, NextAttempt, GoTo
<1>2. InSemaphore' = InSemaphore /\ Pacing' = Pacing
  BY <1>1 DEF InSemaphore, Pacing, PacerInv, PacerTypeOK
<1>3. CASE coolIn > 0
  <2>1. PacerTypeOK' /\ UNCHANGED <<slotIn, coolIn, leaked>>
    BY <1>1, <1>3 DEF Penalize, pacer, PacerInv, PacerTypeOK
  <2>2. QED BY <2>1, <1>1, <1>2, InvLeaves
<1>4. CASE ~(coolIn > 0)
  <2> DEFINE cooldown == Lesser(BaseCooldown * 2 ^ limits, MaxCooldown) + extra
  <2>1. cooldown \in Int
    BY CooldownIsATime DEF PacerInv, PacerTypeOK
  <2>2. /\ limits' = Lesser(limits + 1, MaxCooldown) /\ rate' = Halved(rate)
        /\ coolIn' = cooldown /\ slotIn' = Greatest(slotIn, cooldown) /\ leaked' = 0
    BY <1>4 DEF Penalize
  <2> HIDE DEF cooldown
  <2>3. limits' \in Nat /\ rate' \in MinRate..MaxRate /\ slotIn' \in Nat /\ slotIn' >= slotIn
    BY <2>1, <2>2, RatesStay, Counts DEF Lesser, Greatest, PacerInv, PacerTypeOK
  <2>4. PacerTypeOK'
    BY <1>1, <2>1, <2>2, <2>3 DEF PacerInv, PacerTypeOK
  <2>5. SemaphoreOK' /\ SlotsAreApart'
    BY <1>1, <1>2 DEF PacerInv, SemaphoreOK, SlotsAreApart
  <2>6. NextSlotIsApart'
    <3>1. \A u \in Pacing : asleep[u] \in Nat
      BY DEF Pacing, PacerInv, PacerTypeOK
    <3>2. CeilingInterval \in Nat
      BY IntervalIsApart DEF PacerInv, PacerTypeOK
    <3>3. \A u \in Pacing : asleep[u] > 0 => asleep[u] + CeilingInterval <= slotIn'
      BY <2>3, <3>1, <3>2 DEF PacerInv, NextSlotIsApart, PacerTypeOK
    <3>4. QED BY <3>3, <1>1, <1>2 DEF NextSlotIsApart, CeilingInterval
  <2>7. Early' \subseteq InSemaphore
    BY <1>2 DEF Early, Pacing, InSemaphore
  <2>8. Cardinality(Early') <= MaxConcurrency /\ Cardinality(Early') \in Nat
    BY <2>7, FS_Subset, FS_CardinalityType, Counts DEF PacerInv, SemaphoreOK
  <2>9. LeakOK'
    BY <2>2, <2>8, Counts DEF LeakOK
  <2>10. QED BY <2>4, <2>5, <2>6, <2>9 DEF PacerInv
<1>5. QED BY <1>3, <1>4

(* Everybody's time passes alike.                                          *)
LEMMA InvTick == ASSUME PacerInv, GatewayTick PROVE PacerInv'
<1>1. /\ slotIn' = Sooner(slotIn) /\ coolIn' = Sooner(coolIn)
      /\ asleep' = [t \in Callers |-> Sooner(asleep[t])]
      /\ UNCHANGED <<rate, limits, phaseOf, trial, leaked>>
  BY DEF GatewayTick
<1>2. PacerTypeOK'
  BY <1>1 DEF PacerInv, PacerTypeOK, Sooner
<1>3. InSemaphore' = InSemaphore /\ Pacing' = Pacing
  BY <1>1 DEF InSemaphore, Pacing
<1>4. \A t \in Pacing : asleep[t] \in Nat /\ asleep'[t] = Sooner(asleep[t])
  BY <1>1 DEF Pacing, PacerInv, PacerTypeOK
<1>5. CeilingInterval \in Nat
  BY IntervalIsApart DEF PacerInv, PacerTypeOK
<1>6. SemaphoreOK'
  BY <1>3 DEF PacerInv, SemaphoreOK
<1>7. NextSlotIsApart'
  <2>1. \A t \in Pacing : asleep'[t] > 0 => asleep'[t] + CeilingInterval <= slotIn'
    BY <1>1, <1>4, <1>5 DEF PacerInv, NextSlotIsApart, PacerTypeOK, Sooner
  <2>2. QED BY <2>1, <1>3 DEF NextSlotIsApart, CeilingInterval
<1>8. SlotsAreApart'
  <2>1. \A t, u \in Pacing :
            t # u /\ asleep'[t] > 0 /\ asleep'[u] > 0 =>
                \/ asleep'[t] - asleep'[u] >= CeilingInterval
                \/ asleep'[u] - asleep'[t] >= CeilingInterval
    BY <1>4, <1>5 DEF PacerInv, SlotsAreApart, Sooner, CeilingInterval
  <2>2. QED BY <2>1, <1>3 DEF SlotsAreApart, CeilingInterval
<1>9. LeakOK'
  <2> SUFFICES ASSUME coolIn' > 0 PROVE leaked' + Cardinality(Early') <= MaxConcurrency
    BY DEF LeakOK
  <2>1. coolIn > 0 /\ coolIn' = coolIn - 1
    BY <1>1 DEF Sooner, PacerInv, PacerTypeOK
  <2>2. Early' \subseteq Early
    BY <2>1, <1>3, <1>4 DEF Early, Sooner, PacerInv, PacerTypeOK
  <2>3. Cardinality(Early') <= Cardinality(Early) /\ Cardinality(Early') \in Nat
        /\ Cardinality(Early) \in Nat
    BY <2>2, EarlyHavePlaces, FS_Subset, FS_CardinalityType DEF PacerInv
  <2>4. QED BY <2>1, <2>3, <1>1, Counts DEF PacerInv, LeakOK, PacerTypeOK
<1>10. QED BY <1>2, <1>6, <1>7, <1>8, <1>9 DEF PacerInv

LEMMA PacerInvStep == PacerInv /\ [GatewayNext]_gatewayVars => PacerInv'
<1> SUFFICES ASSUME PacerInv, [GatewayNext]_gatewayVars PROVE PacerInv'
  OBVIOUS
<1>1. ASSUME NEW t \in Callers, CallStep(t) PROVE PacerInv'
  BY <1>1, InvStart, InvAcquire, InvSend, InvSucceed, InvFail, InvRetry, InvPenalize, InvBackOff
     DEF CallStep
<1>2. CASE UNCHANGED gatewayVars
  <2>1. PacerTypeOK' /\ InSemaphore' = InSemaphore /\ Pacing' = Pacing
    BY <1>2 DEF gatewayVars, pacer, PacerInv, PacerTypeOK, InSemaphore, Pacing
  <2>2. QED BY <2>1, <1>2, InvLeaves DEF gatewayVars, pacer
<1>3. QED BY <1>1, <1>2, InvTick DEF GatewayNext

(* Requests leave as far apart as the ceiling rate says, and a cooldown     *)
(* lets through no more of them than the semaphore had places, through any *)
(* rate limits, drops, halvings and recoveries of any number of threads     *)
(* (yf_gateway._Pacer, call).                                              *)
THEOREM RequestsArePaced == GatewaySpec => []PacingHolds
<1>1. PacerInv => PacingHolds
  <2> SUFFICES ASSUME PacerInv, coolIn > 0 PROVE leaked <= MaxConcurrency
    BY DEF PacerInv, PacingHolds, CooldownLeakBounded
  <2>1. QED BY EarlyHavePlaces, Counts DEF PacerInv, LeakOK, PacerTypeOK
<1>2. QED BY <1>1, PacerInvInit, PacerInvStep, PTL DEF GatewaySpec

-----------------------------------------------------------------------------
(* The rows the price model learns from.                                     *)
LEMMA LargestOf ==
    ASSUME NEW S \in SUBSET Nat, S # {}, NEW b \in Nat, \A x \in S : x <= b
    PROVE  Max(S) \in S /\ \A x \in S : x <= Max(S)
<1> DEFINE N == {b - x : x \in S}
<1>1. N \in SUBSET Nat /\ N # {}
  <2>1. \A x \in S : b - x \in Nat
    OBVIOUS
  <2>2. PICK x \in S : TRUE
    OBVIOUS
  <2>3. b - x \in N
    OBVIOUS
  <2>4. QED BY <2>1, <2>3
<1> HIDE DEF N
<1>2. PICK n \in N : \A m \in N : n <= m
  BY <1>1, LeastNumber
<1>3. PICK x \in S : n = b - x
  BY <1>2 DEF N
<1>4. \A e \in S : x >= e
  <2>1. SUFFICES ASSUME NEW e \in S PROVE x >= e
    OBVIOUS
  <2>2. b - e \in N
    BY DEF N
  <2>3. b - x <= b - e /\ x \in Int /\ e \in Int
    BY <1>2, <1>3, <2>2
  <2>4. QED BY <2>3
<1>5. QED BY <1>3, <1>4 DEF Max

-----------------------------------------------------------------------------
(* The walk-forward test.                                                   *)

LEMMA TrainNumbers ==
    /\ LastSession \in Nat /\ Lookback \in Nat /\ Horizon \in Nat /\ MIN_TRAIN \in Nat /\ MinRows \in Nat /\ TEST \in Nat /\ TEST > 0
    /\ WeekLength \in Nat /\ WeekLength > 0 /\ IsFiniteSet(Stocks)
    /\ (1..LastSession) \in SUBSET Nat /\ 0 \notin 1..LastSession /\ \A x \in 1..LastSession : x <= LastSession
BY TrainingAssumption

IsMarket ==
    /\ market.spy \in SUBSET (1..LastSession)
    /\ \A t \in Stocks : market.closes[t] \in SUBSET (1..LastSession)

LEMMA MarketsAre == ASSUME market \in Markets PROVE IsMarket
<1>1. PICK g \in Gaps : market = [spy |-> (1..LastSession) \ g.spy, closes |-> [t \in Stocks |-> (1..LastSession) \ g.closes[t]]]
  BY DEF Markets
<1>2. QED BY <1>1 DEF IsMarket

LEMMA TheMarket ==
    ASSUME IsMarket
    PROVE  calendar \in SUBSET (1..LastSession) /\ calendar \in SUBSET Panel /\ Panel \in SUBSET (1..LastSession)
BY DEF IsMarket, calendar, Panel

LEMMA SomeDays ==
    ASSUME NEW S \in SUBSET (1..LastSession)
    PROVE  /\ IsFiniteSet(S) /\ Cardinality(S) \in Nat
           /\ S # {} => Max(S) \in S /\ \A x \in S : x <= Max(S)
<1>1. IsFiniteSet(1..LastSession)
  BY TrainNumbers, FS_Interval
<1>2. IsFiniteSet(S) /\ Cardinality(S) \in Nat
  BY <1>1, FS_Subset, FS_CardinalityType
<1>3. S # {} => Max(S) \in S /\ \A x \in S : x <= Max(S)
  <2>1. S \in SUBSET Nat /\ \A x \in S : x <= LastSession
    BY TrainNumbers
  <2>2. QED BY <2>1, TrainNumbers, LargestOf
<1>4. QED BY <1>2, <1>3

LEMMA ShiftedForm ==
    ASSUME NEW S \in SUBSET (1..LastSession), NEW d \in Nat, NEW n \in Nat, Shifted(S, d, n) # 0
    PROVE  /\ Shifted(S, d, n) \in S /\ Shifted(S, d, n) > d /\ Shifted(S, d, n) \in Nat
           /\ Cardinality({x \in S : d < x /\ x <= Shifted(S, d, n)}) = n
<1> DEFINE hits == {e \in S : e > d /\ Cardinality({x \in S : d < x /\ x <= e}) = n}
<1>1. Shifted(S, d, n) = Max(hits) /\ hits # {}
  BY DEF Shifted
<1>2. Max(hits) \in hits
  <2>1. hits \in SUBSET (1..LastSession)
    OBVIOUS
  <2> HIDE DEF hits
  <2>2. QED BY <1>1, <2>1, SomeDays
<1>3. QED BY <1>1, <1>2, TrainNumbers

(* The next of some days.                                                  *)
LEMMA NextForm ==
    ASSUME NEW S \in SUBSET (1..LastSession), NEW d \in Nat
    PROVE  /\ Shifted(S, d, 1) \in Nat
           /\ Shifted(S, d, 1) = 0 => \A e \in S : ~(e > d)
           /\ Shifted(S, d, 1) # 0 => Shifted(S, d, 1) \in S /\ Shifted(S, d, 1) > d /\ \A e \in S : e > d => Shifted(S, d, 1) <= e
<1> DEFINE n == Shifted(S, d, 1)
<1>1. S \in SUBSET Nat
  BY TrainNumbers
<1>2. ASSUME NEW e \in S, e > d PROVE n # 0
  <2> DEFINE later == {x \in S : x > d}
  <2>1. PICK x \in later : \A y \in later : x <= y
    <3>1. later \in SUBSET Nat /\ later # {}
      BY <1>1, <1>2
    <3> HIDE DEF later
    <3>2. QED BY <3>1, LeastNumber
  <2>2. {y \in S : d < y /\ y <= x} = {x}
    <3>1. x \in S /\ x \in Nat /\ d < x /\ x <= x
      BY <1>1, <2>1
    <3>2. ASSUME NEW y \in S, d < y, y <= x PROVE y = x
      <4>1. y \in Nat /\ x <= y
        BY <1>1, <2>1, <3>2
      <4>2. QED BY <3>1, <3>2, <4>1
    <3> HIDE DEF later
    <3>3. QED BY <3>1, <3>2
  <2>3. Cardinality({y \in S : d < y /\ y <= x}) = 1
    BY <2>2, FS_Singleton
  <2> DEFINE hits == {y \in S : y > d /\ Cardinality({z \in S : d < z /\ z <= y}) = 1}
  <2>4. x \in hits /\ hits \in SUBSET (1..LastSession)
    BY <2>1, <2>3
  <2>5. n = Max(hits)
    BY <2>4 DEF Shifted
  <2> HIDE DEF hits, n
  <2>6. Max(hits) \in 1..LastSession
    BY <2>4, SomeDays
  <2>7. QED BY <2>5, <2>6, TrainNumbers
<1>3. ASSUME n # 0 PROVE n \in S /\ n > d /\ n \in Nat /\ \A e \in S : e > d => n <= e
  <2>1. n \in S /\ n > d /\ n \in Nat /\ Cardinality({x \in S : d < x /\ x <= n}) = 1
    BY <1>3, ShiftedForm
  <2> HIDE DEF n
  <2> DEFINE between == {x \in S : d < x /\ x <= n}
  <2>2. IsFiniteSet(between) /\ Cardinality(between) = 1
    <3>1. between \in SUBSET (1..LastSession)
      OBVIOUS
    <3>2. Cardinality(between) = 1
      BY <2>1
    <3> HIDE DEF between
    <3>3. QED BY <3>1, <3>2, SomeDays
  <2>3. \A x, y \in between : x = y
    <3> HIDE DEF between
    <3>1. PICK z : between = {z}
      BY <2>2, FS_Singleton
    <3>2. QED BY <3>1
  <2>4. \A e \in S : e > d => n <= e
    <3>1. SUFFICES ASSUME NEW e \in S, e > d, ~(n <= e) PROVE FALSE
      OBVIOUS
    <3>2. e \in Nat /\ e <= n /\ e # n
      BY <1>1, <2>1, <3>1
    <3>3. e \in between /\ n \in between
      BY <2>1, <3>1, <3>2
    <3>4. QED BY <2>3, <3>2, <3>3
  <2>5. QED BY <2>1, <2>4
<1>4. n \in Nat
  BY <1>3
<1>5. QED BY <1>2, <1>3, <1>4

(* The panel has every day of SPY, so its count of days runs no slower.      *)
LEMMA LabelsCloseInTime ==
    ASSUME IsMarket, NEW d \in Nat, Exit(d) \in calendar
    PROVE  Exit(d) \in Nat /\ LabelEnd(d) \in Nat /\ Exit(d) <= LabelEnd(d)
<1> DEFINE x == Exit(d)
           e == Shifted(calendar, d, 1 + Horizon)
           P(y) == {z \in Panel : d < z /\ z <= y}
           C(y) == {z \in calendar : d < z /\ z <= y}
<1>1. /\ calendar \in SUBSET (1..LastSession) /\ calendar \in SUBSET Panel /\ Panel \in SUBSET (1..LastSession)
      /\ 1 + Horizon \in Nat
  BY TheMarket, TrainNumbers
<1>2. x \in calendar /\ x # 0 /\ x = Shifted(Panel, d, 1 + Horizon)
  BY <1>1, TrainNumbers DEF Exit
<1>3. x \in Panel /\ x > d /\ x \in Nat /\ Cardinality(P(x)) = 1 + Horizon
  BY <1>1, <1>2, ShiftedForm
<1>4. CASE e = 0
  <2>1. LabelEnd(d) = Max(calendar)
    BY <1>4 DEF LabelEnd
  <2>2. Max(calendar) \in calendar /\ x <= Max(calendar)
    BY <1>1, <1>2, SomeDays
  <2>3. QED BY <1>1, <1>3, <2>1, <2>2, TrainNumbers
<1>5. CASE e # 0
  <2>1. e \in calendar /\ e > d /\ e \in Nat /\ Cardinality(C(e)) = 1 + Horizon
    BY <1>1, <1>5, ShiftedForm
  <2>2. LabelEnd(d) = e
    BY <1>5 DEF LabelEnd
  <2> HIDE DEF x, e
  <2>3. ASSUME x > e PROVE FALSE
    <3>1. C(e) \in SUBSET P(x) /\ x \in P(x) /\ x \notin C(e) /\ P(x) \in SUBSET (1..LastSession)
      <4>1. ASSUME NEW z \in calendar, d < z, z <= e PROVE z \in Panel /\ z <= x
        <5>1. z \in Nat
          BY <1>1, TrainNumbers
        <5>2. QED BY <1>1, <1>3, <2>1, <2>3, <4>1, <5>1
      <4>2. x <= x /\ ~(x <= e)
        BY <1>3, <2>1, <2>3
      <4>3. QED BY <1>1, <1>3, <4>1, <4>2
    <3> DEFINE A == C(e)
               B == P(x)
    <3>2. A \in SUBSET B /\ A # B /\ B \in SUBSET (1..LastSession) /\ Cardinality(A) = Cardinality(B)
      BY <1>3, <2>1, <3>1
    <3> HIDE DEF A, B
    <3>3. IsFiniteSet(B)
      BY <3>2, SomeDays
    <3>4. QED BY <3>2, <3>3, FS_Subset
  <2>4. QED BY <1>3, <2>1, <2>2, <2>3 DEF x
<1>6. QED BY <1>4, <1>5

-----------------------------------------------------------------------------
\* What is so of a row, and of a block that was tested.  A block stays what it was
\* because the rows do not change, and blocks lie apart because the next starts
\* where the last ended.
RowIsSound(r) ==
    /\ r.day \in calendar /\ \A e \in r.reads : e <= r.day
    /\ r.labeled => r.day < Entry(r.day) /\ Exit(r.day) \in calendar
Learnt(from) == {r \in data : r.labeled /\ LabelEnd(r.day) < from}
Graded(from) == {r \in data : from <= r.day /\ r.day < from + TEST}
BlockIsSound(f) ==
    /\ f = [from |-> f.from, train |-> Learnt(f.from), test |-> Graded(f.from)] /\ f.from \in Nat
    /\ Cardinality(f.train) > MinRows
Tested(r) == \E f \in folds : r \in f.test

\* Every row since the first block is in one.
TrainInv ==
    /\ IsMarket
    /\ IsFiniteSet(data) /\ \A r \in data : RowIsSound(r)
    /\ start \in Nat /\ (start = 0 => folds = {})
    /\ \A f \in folds : BlockIsSound(f) /\ f.from + TEST <= start
    /\ \A f, g \in folds : f.from = g.from \/ f.from + TEST <= g.from \/ g.from + TEST <= f.from
    /\ \A f \in folds : \A r \in data : f.from <= r.day /\ r.day < start => Tested(r)

LEMMA FeaturesAreOfTheirDay ==
    ASSUME IsMarket, NEW d \in calendar, NEW t \in Stocks
    PROVE  \A e \in Reads(t, d) : e <= d
<1>1. calendar \in SUBSET Nat /\ d \in Nat /\ d >= 1 /\ \A e \in calendar : e >= 1
  BY TheMarket, TrainNumbers
<1>2. \A e \in panel_features(d) : e <= d
  BY DEF panel_features
<1>3. \A e \in WeeklyRsi(t, d) : e <= d
  <2>1. ASSUME NEW e \in calendar, Week(e) < Week(d), ~(e <= d) PROVE FALSE
    <3>1. e \in Nat /\ e - 1 \in Nat /\ d - 1 \in Nat /\ d - 1 <= e - 1
      BY <1>1, <2>1
    <3>2. (d - 1) \div WeekLength \in Nat /\ (d - 1) \div WeekLength <= (e - 1) \div WeekLength
      BY <3>1, TrainNumbers, DivMonotone
    <3>3. (e - 1) \div WeekLength \in Nat
      BY <3>1, TrainNumbers, DivMonotone
    <3>4. QED BY <2>1, <3>2, <3>3 DEF Week
  <2>2. d <= d
    BY <1>1
  <2>3. QED BY <2>1, <2>2 DEF WeeklyRsi
<1>4. \A u \in Stocks : \A e \in align_to_dates(u, d) : e <= d
  <2>1. SUFFICES ASSUME NEW u \in Stocks, NEW e \in align_to_dates(u, d) PROVE e <= d
    OBVIOUS
  <2> DEFINE told == {m \in 1..LastSession : m % MonthLength = 0 /\ m <= d /\ <<u, m>> \notin Silent}
  <2>2. told # {} /\ e = Max(told)
    BY <2>1 DEF align_to_dates
  <2>3. told \in SUBSET (1..LastSession) /\ \A m \in told : m <= d
    OBVIOUS
  <2> HIDE DEF told
  <2>4. QED BY <2>2, <2>3, SomeDays
<1>5. \A e \in fill_cross_section(t, d) : e <= d
  BY <1>4 DEF fill_cross_section
<1>6. QED BY <1>2, <1>3, <1>5 DEF Reads

LEMMA RowsAreSound ==
    ASSUME IsMarket, data = build_dataset
    PROVE  IsFiniteSet(data) /\ \A r \in data : RowIsSound(r)
<1> DEFINE chosen == {x \in WeekEnds \X Stocks :
                  /\ Cardinality(panel_features(x[1])) = Lookback + 1
                  /\ panel_features(x[1]) \subseteq market.closes[x[2]]
                  /\ \E e \in WeeklyRsi(x[2], x[1]) : e # x[1]}
           RowOf(x) == [day |-> x[1], stock |-> x[2], reads |-> Reads(x[2], x[1]), labeled |-> forward_returns(x[2], x[1])]
<1>1. data = {RowOf(x) : x \in chosen}
  BY DEF build_dataset
<1>2. chosen \in SUBSET (WeekEnds \X Stocks) /\ WeekEnds \in SUBSET calendar
  BY DEF WeekEnds
<1>3. IsFiniteSet(chosen)
  <2>1. IsFiniteSet(WeekEnds)
    BY <1>2, TheMarket, SomeDays
  <2>2. IsFiniteSet(WeekEnds \X Stocks)
    BY <2>1, TrainNumbers, FS_Product
  <2> HIDE DEF chosen
  <2>3. QED BY <1>2, <2>2, FS_Subset
<1> HIDE DEF chosen
<1>4. IsFiniteSet(data)
  <2> DEFINE h == [x \in chosen |-> RowOf(x)]
  <2> HIDE DEF RowOf
  <2>1. h \in Surjection(chosen, data)
    BY <1>1 DEF Surjection
  <2> HIDE DEF h
  <2>2. QED BY <1>3, <2>1, FS_Surjection
<1>5. ASSUME NEW x \in chosen PROVE RowIsSound(RowOf(x))
  <2>1. x[1] \in calendar /\ x[2] \in Stocks /\ x[1] \in Nat
    BY <1>2, TheMarket, TrainNumbers
  <2>2. \A e \in Reads(x[2], x[1]) : e <= x[1]
    BY <2>1, FeaturesAreOfTheirDay
  <2>3. forward_returns(x[2], x[1]) => x[1] < Entry(x[1]) /\ Exit(x[1]) \in calendar
    <3>1. SUFFICES ASSUME forward_returns(x[2], x[1]) PROVE x[1] < Entry(x[1]) /\ Exit(x[1]) \in calendar
      OBVIOUS
    <3>2. Entry(x[1]) \in calendar /\ Exit(x[1]) \in calendar
      BY <3>1 DEF forward_returns, calendar
    <3>3. Shifted(Panel, x[1], 1) # 0
      BY <3>2, TheMarket, TrainNumbers DEF Entry
    <3>4. Shifted(Panel, x[1], 1) > x[1] /\ Shifted(Panel, x[1], 1) \in Nat
      BY <2>1, <3>3, TheMarket, NextForm
    <3>5. QED BY <2>1, <3>2, <3>4 DEF Entry
  <2>4. QED BY <2>1, <2>2, <2>3 DEF RowIsSound
<1>6. QED BY <1>1, <1>4, <1>5

LEMMA TrainStarts == ASSUME TrainInit PROVE TrainInv
<1>1. IsMarket /\ data = build_dataset /\ start = 0 /\ folds = {}
  BY MarketsAre DEF TrainInit
<1>2. QED BY <1>1, RowsAreSound DEF TrainInv

(* What a block is made of stands.                                          *)
LEMMA RowsStandStill ==
    ASSUME market' = market, data' = data
    PROVE  /\ \A r : RowIsSound(r)' = RowIsSound(r)
           /\ \A f : BlockIsSound(f)' = BlockIsSound(f)
<1>1. \A d : Exit(d)' = Exit(d) /\ Entry(d)' = Entry(d) /\ LabelEnd(d)' = LabelEnd(d) /\ calendar' = calendar
  BY DEF Exit, Entry, LabelEnd, Panel, calendar
<1>2. \A r : RowIsSound(r)' = RowIsSound(r)
  BY <1>1 DEF RowIsSound
<1>3. \A f : Learnt(f.from)' = Learnt(f.from) /\ Graded(f.from)' = Graded(f.from)
  BY <1>1 DEF Learnt, Graded
<1>4. \A f : BlockIsSound(f)' = BlockIsSound(f)
  BY <1>3 DEF BlockIsSound
<1>5. QED BY <1>2, <1>4

LEMMA FirstOf ==
    ASSUME NEW S \in SUBSET Nat, S # {}
    PROVE  Min(S) \in S /\ \A d \in S : Min(S) <= d
BY LeastNumber DEF Min

LEMMA DaysAreNumbers ==
    ASSUME TrainInv, NEW r \in data
    PROVE  /\ r.day \in Nat /\ r.day \in calendar /\ (\A e \in r.reads : e <= r.day)
           /\ r.labeled => /\ r.day < Entry(r.day) /\ Exit(r.day) \in Nat /\ LabelEnd(r.day) \in Nat
                           /\ Exit(r.day) <= LabelEnd(r.day)
<1>1. IsMarket /\ RowIsSound(r)
  BY DEF TrainInv
<1>2. r.day \in Nat /\ r.day \in calendar
  BY <1>1, TheMarket, TrainNumbers DEF RowIsSound
<1>3. r.labeled => r.day < Entry(r.day) /\ Exit(r.day) \in Nat /\ LabelEnd(r.day) \in Nat /\ Exit(r.day) <= LabelEnd(r.day)
  BY <1>1, <1>2, LabelsCloseInTime DEF RowIsSound
<1>4. QED BY <1>1, <1>2, <1>3 DEF RowIsSound

LEMMA WalkStep == ASSUME TrainInv, walk_forward PROVE TrainInv'
<1> DEFINE from == IF start = 0 THEN Min(DaysOf(data)) + MIN_TRAIN ELSE start
           block == [from |-> from, train |-> Learnt(from), test |-> Graded(from)]
<1>1. /\ {r \in data : r.labeled} # {}
      /\ folds' = IF Cardinality(Learnt(from)) > MinRows /\ Graded(from) # {} THEN folds \cup {block} ELSE folds
      /\ start' = from + TEST /\ market' = market /\ data' = data
  <2>1. /\ {r \in {x \in data : x.labeled} : LabelEnd(r.day) < from} = Learnt(from)
        /\ {r \in data : from <= r.day /\ r.day < from + TEST} = Graded(from)
    BY DEF Learnt, Graded
  <2>2. QED BY <2>1 DEF walk_forward
<1>2. from \in Nat
  <2>1. CASE start = 0
    <3>1. DaysOf(data) \in SUBSET Nat /\ DaysOf(data) # {}
      BY <1>1, DaysAreNumbers DEF DaysOf
    <3>2. Min(DaysOf(data)) \in Nat
      BY <3>1, FirstOf
    <3>3. QED BY <2>1, <3>2, TrainNumbers
  <2>2. QED BY <2>1 DEF TrainInv
<1>3. folds # {} => from = start
  BY DEF TrainInv
<1> HIDE DEF from
<1>4. \A f \in folds : BlockIsSound(f) /\ f.from \in Nat /\ f.from + TEST <= from /\ f.from <= from
  BY <1>2, <1>3, TrainNumbers DEF TrainInv, BlockIsSound
<1>5. block.from = from /\ block.train = Learnt(from) /\ block.test = Graded(from)
  OBVIOUS
<1>6. Cardinality(Learnt(from)) > MinRows => BlockIsSound(block)
  BY <1>2, <1>5 DEF BlockIsSound
<1>7. folds' \in SUBSET (folds \cup {block}) /\ (block \in folds' => block \in folds \/ Cardinality(Learnt(from)) > MinRows)
  BY <1>1
<1> HIDE DEF block
<1>8. \A f \in folds' : BlockIsSound(f)
  BY <1>4, <1>6, <1>7
<1>9. \A f \in folds' : f.from + TEST <= start'
  BY <1>1, <1>2, <1>4, <1>5, <1>7, TrainNumbers
<1>10. \A f, g \in folds' : f.from = g.from \/ f.from + TEST <= g.from \/ g.from + TEST <= f.from
  <2>1. \A f \in folds : \A g \in folds : f.from = g.from \/ f.from + TEST <= g.from \/ g.from + TEST <= f.from
    BY DEF TrainInv
  <2>2. \A f \in folds : f.from + TEST <= block.from
    BY <1>4, <1>5
  <2>3. QED BY <1>7, <2>1, <2>2
<1>11. \A f \in folds' : \A r \in data' : f.from <= r.day /\ r.day < start' => Tested(r)'
  <2>1. SUFFICES ASSUME NEW f \in folds', NEW r \in data, f.from <= r.day, r.day < from + TEST
                 PROVE  \E g \in folds' : r \in g.test
    BY <1>1 DEF Tested
  <2>2. r.day \in Nat
    BY DaysAreNumbers
  <2>3. ASSUME from <= r.day, block \in folds' PROVE \E g \in folds' : r \in g.test
    <3>1. r \in Graded(from)
      BY <2>1, <2>3 DEF Graded
    <3>2. QED BY <1>5, <2>3, <3>1
  <2>4. CASE f \notin folds
    BY <1>5, <1>7, <2>1, <2>3, <2>4
  <2>5. CASE f \in folds /\ r.day < from
    <3>1. Tested(r)
      BY <1>3, <2>1, <2>5 DEF TrainInv
    <3>2. folds \in SUBSET folds'
      BY <1>1
    <3>3. QED BY <3>1, <3>2 DEF Tested
  <2>6. CASE f \in folds /\ ~(r.day < from)
    <3>1. from <= r.day /\ Graded(from) # {}
      BY <1>2, <2>1, <2>2, <2>6 DEF Graded
    <3>2. Cardinality(Learnt(from)) > MinRows
      <4>1. Learnt(f.from) \in SUBSET Learnt(from)
        <5>1. ASSUME NEW x \in data, x.labeled, LabelEnd(x.day) < f.from PROVE LabelEnd(x.day) < from
          BY <1>2, <1>4, <2>6, <5>1, DaysAreNumbers
        <5>2. QED BY <5>1 DEF Learnt
      <4>2. IsFiniteSet(Learnt(from))
        <5>1. Learnt(from) \in SUBSET data /\ IsFiniteSet(data)
          BY DEF Learnt, TrainInv
        <5>2. QED BY <5>1, FS_Subset
      <4>3. Cardinality(Learnt(f.from)) <= Cardinality(Learnt(from)) /\ Cardinality(Learnt(f.from)) \in Nat /\ Cardinality(Learnt(from)) \in Nat
        BY <4>1, <4>2, FS_Subset, FS_CardinalityType
      <4>4. Cardinality(Learnt(f.from)) > MinRows
        <5>1. f.train = Learnt(f.from) /\ Cardinality(f.train) > MinRows
          BY <1>4, <2>6 DEF BlockIsSound
        <5>2. QED BY <5>1
      <4>5. QED BY <4>3, <4>4, TrainNumbers
    <3>3. block \in folds'
      BY <1>1, <3>1, <3>2
    <3>4. QED BY <2>3, <3>1, <3>3
  <2>7. QED BY <2>4, <2>5, <2>6
<1>12. IsMarket' /\ IsFiniteSet(data') /\ (\A r \in data' : RowIsSound(r)') /\ \A f \in folds' : BlockIsSound(f)'
  <2>1. IsMarket'
    BY <1>1 DEF TrainInv, IsMarket
  <2>2. IsFiniteSet(data') /\ \A r \in data' : RowIsSound(r)'
    BY <1>1, RowsStandStill DEF TrainInv
  <2>3. \A f \in folds' : BlockIsSound(f)'
    BY <1>1, <1>8, RowsStandStill
  <2>4. QED BY <2>1, <2>2, <2>3
<1>13. start' \in Nat /\ start' # 0
  BY <1>1, <1>2, TrainNumbers
<1>14. QED BY <1>9, <1>10, <1>11, <1>12, <1>13 DEF TrainInv

LEMMA TrainHolds == TrainInv => ModelIsTestedFairly
<1> SUFFICES ASSUME TrainInv PROVE ModelIsTestedFairly
  OBVIOUS
<1>1. \A f \in folds : BlockIsSound(f) /\ f.from \in Nat /\ f.train = Learnt(f.from) /\ f.test = Graded(f.from)
  <2>1. SUFFICES ASSUME NEW f \in folds PROVE f.from \in Nat /\ f.train = Learnt(f.from) /\ f.test = Graded(f.from) /\ BlockIsSound(f)
    OBVIOUS
  <2>2. BlockIsSound(f)
    BY DEF TrainInv
  <2>3. QED BY <2>2 DEF BlockIsSound
<1>2. TrainedBeforeTested
  <2>1. SUFFICES ASSUME NEW f \in folds
                 PROVE  /\ \A r \in f.train : Exit(r.day) < f.from /\ (\A e \in r.reads : e <= r.day) /\ r.day < Entry(r.day)
                        /\ \A s \in f.test : (\A e \in s.reads : e <= s.day) /\ \A r \in f.train : Exit(r.day) < s.day
                        /\ \A g \in folds \ {f} : f.test \cap g.test = {}
    BY DEF TrainedBeforeTested
  <2>2. \A r \in f.train : Exit(r.day) \in Nat /\ Exit(r.day) < f.from /\ (\A e \in r.reads : e <= r.day) /\ r.day < Entry(r.day)
    <3>1. SUFFICES ASSUME NEW r \in f.train
                   PROVE  Exit(r.day) \in Nat /\ Exit(r.day) < f.from /\ (\A e \in r.reads : e <= r.day) /\ r.day < Entry(r.day)
      OBVIOUS
    <3>2. r \in data /\ r.labeled /\ LabelEnd(r.day) < f.from
      BY <1>1 DEF Learnt
    <3>3. QED BY <1>1, <3>2, DaysAreNumbers
  <2>3. \A s \in f.test : s \in data /\ s.day \in Nat /\ f.from <= s.day /\ (\A e \in s.reads : e <= s.day)
    <3>1. SUFFICES ASSUME NEW s \in f.test PROVE s \in data /\ s.day \in Nat /\ f.from <= s.day /\ (\A e \in s.reads : e <= s.day)
      OBVIOUS
    <3>2. s \in data /\ f.from <= s.day
      BY <1>1 DEF Graded
    <3>3. QED BY <3>2, DaysAreNumbers
  <2>4. \A g \in folds \ {f} : f.test \cap g.test = {}
    <3>1. SUFFICES ASSUME NEW g \in folds, g # f, NEW r \in f.test, r \in g.test PROVE FALSE
      OBVIOUS
    <3>2. /\ f = [from |-> f.from, train |-> Learnt(f.from), test |-> Graded(f.from)]
          /\ g = [from |-> g.from, train |-> Learnt(g.from), test |-> Graded(g.from)]
      BY <1>1 DEF BlockIsSound
    <3>3. f.from # g.from
      BY <3>1, <3>2
    <3>4. f.from + TEST <= g.from \/ g.from + TEST <= f.from
      BY <3>3 DEF TrainInv
    <3>5. r.day < f.from + TEST /\ f.from <= r.day /\ r.day < g.from + TEST /\ g.from <= r.day /\ r \in data
      BY <1>1, <3>1 DEF Graded
    <3>6. r.day \in Nat /\ f.from \in Nat /\ g.from \in Nat
      BY <1>1, <3>5, DaysAreNumbers
    <3>7. QED BY <3>4, <3>5, <3>6, TrainNumbers
  <2>5. QED BY <1>1, <2>2, <2>3, <2>4
<1>3. \A f \in folds : \A r \in data : f.from <= r.day /\ r.day < start => \E g \in folds : r \in g.test
  BY DEF TrainInv, Tested
<1>4. \A h, k \in next_month_returns : h[1] < h[2] /\ (h[1] < k[1] => h[3] <= k[2])
  <2> DEFINE E == month_end_sessions
             NextEnd(d) == Shifted(E, d, 1)
             FirstAfter(d) == Shifted(Panel, d, 1)
  <2>1. E \in SUBSET (1..LastSession) /\ E \in SUBSET Nat /\ Panel \in SUBSET (1..LastSession) /\ Panel \in SUBSET Nat
    BY TheMarket, TrainNumbers DEF TrainInv, month_end_sessions
  <2>2. \A h \in next_month_returns :
           h[1] \in E /\ h[1] \in Nat /\ NextEnd(h[1]) # 0 /\ h[2] = FirstAfter(h[1]) /\ h[3] = FirstAfter(NextEnd(h[1])) /\ h[3] # 0
    BY <2>1 DEF next_month_returns
  <2> HIDE DEF E, NextEnd, FirstAfter
  <2>3. \A d \in Nat : /\ NextEnd(d) # 0 => NextEnd(d) \in E /\ NextEnd(d) \in Nat /\ NextEnd(d) > d /\ \A e \in E : e > d => NextEnd(d) <= e
                       /\ FirstAfter(d) \in Nat /\ (FirstAfter(d) = 0 => \A e \in Panel : ~(e > d))
                       /\ FirstAfter(d) # 0 => FirstAfter(d) \in Panel /\ FirstAfter(d) > d /\ \A e \in Panel : e > d => FirstAfter(d) <= e
    BY <2>1, NextForm DEF NextEnd, FirstAfter
  <2>4. ASSUME NEW h \in next_month_returns PROVE h[1] < h[2] /\ h[2] \in Panel /\ h[2] \in Nat /\ h[1] \in Nat
    <3>1. NextEnd(h[1]) \in Nat /\ NextEnd(h[1]) > h[1] /\ h[3] \in Panel /\ h[3] > NextEnd(h[1]) /\ h[3] \in Nat /\ h[1] \in Nat
      BY <2>1, <2>2, <2>3
    <3>2. h[3] > h[1]
      BY <3>1
    <3>3. FirstAfter(h[1]) # 0
      BY <2>3, <3>1, <3>2
    <3>4. QED BY <2>2, <2>3, <3>1, <3>3
  <2>5. ASSUME NEW h \in next_month_returns, NEW k \in next_month_returns, h[1] < k[1] PROVE h[3] <= k[2]
    <3>1. k[1] \in E /\ NextEnd(h[1]) <= k[1] /\ NextEnd(h[1]) \in Nat /\ k[1] \in Nat
      BY <2>2, <2>3, <2>5
    <3>2. k[2] \in Panel /\ k[2] > k[1] /\ k[2] \in Nat
      BY <2>4
    <3>3. k[2] > NextEnd(h[1])
      BY <3>1, <3>2
    <3>4. QED BY <2>2, <2>3, <3>1, <3>2, <3>3
  <2>6. QED BY <2>4, <2>5
<1>5. NothingIsSkipped
  BY <1>3, <1>4 DEF NothingIsSkipped
<1>6. QED BY <1>2, <1>5 DEF ModelIsTestedFairly

(* For any market and any sizes of blocks, windows and labels: no model of the  *)
(* walk is trained on a label still open when its block begins, no row is read *)
(* from days after its own, none is graded twice and none that could be        *)
(* graded is passed over (walk_forward, build_dataset, forward_returns).      *)
THEOREM TestsAreFair == TrainSpec => []ModelIsTestedFairly
<1>1. TrainInit => TrainInv
  BY TrainStarts
<1>2. TrainInv /\ [walk_forward]_trainVars => TrainInv'
  <2>1. SUFFICES ASSUME TrainInv, [walk_forward]_trainVars PROVE TrainInv'
    OBVIOUS
  <2>2. CASE walk_forward
    BY <2>1, <2>2, WalkStep
  <2>3. CASE UNCHANGED trainVars
    <3>1. market' = market /\ data' = data /\ start' = start /\ folds' = folds
      BY <2>3 DEF trainVars
    <3>2. IsMarket'
      BY <2>1, <3>1 DEF TrainInv, IsMarket
    <3>3. QED BY <2>1, <3>1, <3>2, RowsStandStill DEF TrainInv, Tested
  <2>4. QED BY <2>1, <2>2, <2>3
<1>3. QED BY <1>1, <1>2, TrainHolds, PTL DEF TrainSpec

LEMMA SmallestSet ==
    ASSUME NEW F, NEW S \in F, \A s \in F : IsFiniteSet(s)
    PROVE  \E s \in F : \A u \in F : Cardinality(s) <= Cardinality(u)
<1> DEFINE N == {Cardinality(s) : s \in F}
<1>1. N \in SUBSET Nat /\ N # {}
  BY FS_CardinalityType
<1>2. PICK n \in N : \A m \in N : n <= m
  BY <1>1, LeastNumber
<1>3. QED BY <1>2

(* A collection of a finite set's subsets that has one has a smallest one, and  *)
(* nothing less than it.                                                   *)
LEMMA NothingSmaller ==
    ASSUME NEW S, IsFiniteSet(S), NEW F \in SUBSET SUBSET S, F # {}
    PROVE  \E u \in F : IsFiniteSet(u) /\ \A v \in SUBSET u : v # u => v \notin F
<1>1. \A u \in F : IsFiniteSet(u)
  BY FS_Subset
<1>2. PICK u \in F : \A v \in F : Cardinality(u) <= Cardinality(v)
  <2>1. PICK v \in F : TRUE
    OBVIOUS
  <2>2. QED BY <1>1, <2>1, SmallestSet
<1>3. ASSUME NEW v \in SUBSET u, v # u PROVE v \notin F
  <2>1. Cardinality(v) <= Cardinality(u) /\ (Cardinality(u) = Cardinality(v) => u = v)
    BY <1>1, FS_Subset
  <2>2. Cardinality(v) \in Nat /\ Cardinality(u) \in Nat
    BY <1>1, FS_Subset, FS_CardinalityType
  <2>3. QED BY <1>2, <1>3, <2>1, <2>2
<1>4. QED BY <1>1, <1>3

-----------------------------------------------------------------------------
(* The ratios.                                                              *)

LEMMA FiniteIsBounded ==
    ASSUME NEW S \in SUBSET Nat, IsFiniteSet(S)
    PROVE  \E b \in Nat : \A x \in S : x <= b
<1> DEFINE F == {u \in SUBSET S : ~\E b \in Nat : \A x \in u : x <= b}
<1>1. SUFFICES ASSUME F # {} PROVE FALSE
  OBVIOUS
<1>2. F \in SUBSET SUBSET S
  OBVIOUS
<1>3. PICK u \in F : \A v \in SUBSET u : v # u => v \notin F
  <2> HIDE DEF F
  <2>1. QED BY <1>1, <1>2, NothingSmaller
<1>4. PICK y \in u : TRUE
  <2>1. u = {} => \A x \in u : x <= 0
    OBVIOUS
  <2>2. QED BY <2>1
<1>5. PICK b \in Nat : \A x \in u \ {y} : x <= b
  <2>1. u \ {y} \in SUBSET u /\ u \ {y} # u
    BY <1>4
  <2>2. u \ {y} \notin F
    <3> HIDE DEF F
    <3>1. QED BY <1>3, <2>1
  <2>3. QED BY <2>1, <2>2
<1>6. y \in Nat /\ b + y \in Nat /\ \A x \in u : x <= b + y
  <2>1. y \in Nat /\ \A x \in u : x \in Nat
    OBVIOUS
  <2>2. QED BY <1>5, <2>1
<1>7. QED BY <1>6

LEMMA LargestOfSome ==
    ASSUME NEW S \in SUBSET Nat, IsFiniteSet(S), S # {}
    PROVE  Max(S) \in S /\ \A x \in S : x <= Max(S)
<1>1. PICK b \in Nat : \A x \in S : x <= b
  BY FiniteIsBounded
<1>2. QED BY <1>1, LargestOf

LEMMA LargerOf ==
    ASSUME NEW a \in Nat, NEW b \in Int
    PROVE  Max({a, b}) = IF b <= a THEN a ELSE b
<1> DEFINE S == {a, b}
           m == IF b <= a THEN a ELSE b
<1>1. m \in S /\ \A x \in S : m >= x
  OBVIOUS
<1>2. \A y \in S : (\A x \in S : y >= x) => y = m
  OBVIOUS
<1>3. Max(S) = CHOOSE y \in S : \A x \in S : y >= x
  BY DEF Max
<1> HIDE DEF S, m
<1>4. Max(S) = m
  BY <1>1, <1>2, <1>3
<1>5. QED BY <1>4 DEF S, m

(* A number of the newest of some dates.                                    *)
LEMMA NewestForm ==
    ASSUME NEW ds \in SUBSET Nat, IsFiniteSet(ds), NEW n \in Nat, n <= Cardinality(ds)
    PROVE  Newest(n, ds) \in SUBSET ds /\ Cardinality(Newest(n, ds)) = n
<1> DEFINE Fits(s, k) == Cardinality(s) = k /\ \A d \in s, e \in ds \ s : d > e
           bad == {k \in Nat : k <= n /\ ~\E s \in SUBSET ds : Fits(s, k)}
<1>1. bad = {}
  <2>1. SUFFICES ASSUME bad # {} PROVE FALSE
    OBVIOUS
  <2>2. PICK k \in bad : \A j \in bad : k <= j
    <3>1. bad \in SUBSET Nat
      OBVIOUS
    <3> HIDE DEF bad
    <3>2. QED BY <2>1, <3>1, LeastNumber
  <2>3. k # 0
    <3>1. Cardinality({}) = 0
      BY FS_EmptySet
    <3>2. {} \in SUBSET ds /\ Fits({}, 0)
      BY <3>1
    <3>3. QED BY <3>2
  <2>4. k \in Nat /\ k <= n /\ k - 1 \in Nat /\ k - 1 \notin bad
    BY <2>2, <2>3
  <2>5. PICK s \in SUBSET ds : Fits(s, k - 1)
    BY <2>4
  <2>6. IsFiniteSet(s) /\ Cardinality(s) = k - 1 /\ \A d \in s, e \in ds \ s : d > e
    BY <2>5, FS_Subset
  <2>7. ds \ s # {}
    <3>1. SUFFICES ASSUME ds \ s = {} PROVE FALSE
      OBVIOUS
    <3>2. s = ds
      BY <3>1
    <3>3. QED BY <2>4, <2>6, <3>2
  <2> DEFINE m == Max(ds \ s)
  <2>8. m \in ds \ s /\ \A e \in ds \ s : e <= m
    <3>1. ds \ s \in SUBSET Nat /\ IsFiniteSet(ds \ s)
      BY FS_Subset
    <3>2. QED BY <2>7, <3>1, LargestOfSome
  <2> HIDE DEF m
  <2>9. Cardinality(s \cup {m}) = k
    <3>1. m \notin s /\ IsFiniteSet(s)
      BY <2>6, <2>8
    <3>2. Cardinality(s \cup {m}) = Cardinality(s) + 1
      BY <3>1, FS_AddElement
    <3>3. QED BY <2>4, <2>6, <3>2
  <2>10. \A d \in s \cup {m}, e \in ds \ (s \cup {m}) : d > e
    <3>1. SUFFICES ASSUME NEW d \in s \cup {m}, NEW e \in ds \ (s \cup {m}) PROVE d > e
      OBVIOUS
    <3>2. e \in Nat /\ m \in Nat /\ e # m /\ e <= m
      BY <2>8
    <3>3. CASE d \in s
      BY <2>6, <3>3
    <3>4. CASE d = m
      BY <3>2, <3>4
    <3>5. QED BY <3>3, <3>4
  <2>11. s \cup {m} \in SUBSET ds /\ Fits(s \cup {m}, k)
    BY <2>8, <2>9, <2>10
  <2>12. QED BY <2>2, <2>11
<1>2. \E s \in SUBSET ds : Fits(s, n)
  BY <1>1
<1>3. Newest(n, ds) = CHOOSE s \in SUBSET ds : Fits(s, n)
  BY DEF Newest
<1>4. Newest(n, ds) \in SUBSET ds /\ Fits(Newest(n, ds), n)
  <2> HIDE DEF Fits
  <2>1. QED BY <1>2, <1>3
<1>5. QED BY <1>4

Tickers0 == UNION Universes
Entries0 == [values : SUBSET Tickers0, asked : SUBSET (Tickers0 \cup {"?"})]

LEMMA RatioNumbers ==
    /\ QUOTA_RESERVE \in Nat /\ FullQuota \in Nat /\ MAX_TICKERS \in Nat /\ MAX_TICKERS > 0
    /\ Dates \in SUBSET Nat /\ IsFiniteSet(Dates) /\ \A u \in Universes : IsFiniteSet(u) /\ u \in SUBSET Tickers0
BY RatioAssumption DEF Tickers0

\* The requests a run still makes leave the reserve.
Afforded(ds) ==
    \E r \in Nat : /\ \A d \in ds : Requests(run.todo[d]) <= r
                   /\ quota >= QUOTA_RESERVE + Cardinality(ds) * r

\* A date still missing has its file's values, and what is asked of it can be paid.
RatioInv ==
    /\ ratioFile \in [Dates -> Entries0] /\ AskedMeansAnswered
    /\ quota \in Nat
    /\ run \in [universe : Universes \cup {{}}, todo : [Dates -> SUBSET Tickers0], missing : SUBSET Dates,
                out : [Dates -> SUBSET Tickers0], from : Nat]
    /\ \A d \in Dates : IsFiniteSet(run.todo[d])
    /\ \A d \in run.missing : run.out[d] = _load_cached(d).values
    /\ QUOTA_RESERVE > 0 /\ run.from >= QUOTA_RESERVE => Afforded(run.missing)

LEMMA NoRatios == Broken \in Entries0 /\ [values |-> {}, asked |-> {}] \in Entries0
BY DEF Broken, Entries0

LEMMA LoadedForm ==
    ASSUME RatioInv, NEW d \in Dates
    PROVE  _load_cached(d) \in Entries0 /\ _load_cached(d).asked \cap Covered(d) \subseteq _load_cached(d).values
<1>1. ratioFile[d] \in Entries0 /\ (ratioFile[d] # Broken => ratioFile[d].asked \cap Covered(d) \subseteq ratioFile[d].values)
  BY DEF RatioInv, AskedMeansAnswered
<1>2. QED BY <1>1, NoRatios DEF _load_cached

LEMMA SomeRequests == ASSUME NEW S, IsFiniteSet(S) PROVE Requests(S) \in Nat
<1>1. Cardinality(S) \in Nat
  BY FS_CardinalityType
<1>2. Cardinality(S) + MAX_TICKERS - 1 \in Nat
  BY <1>1, RatioNumbers
<1>3. QED BY <1>2, RatioNumbers, DivMonotone DEF Requests

LEMMA RatioStarts == ASSUME RatioInit PROVE RatioInv
<1>1. NoRunNow.missing = {} /\ NoRunNow.from = 0
      /\ NoRunNow \in [universe : Universes \cup {{}}, todo : [Dates -> SUBSET Tickers0], missing : SUBSET Dates,
                       out : [Dates -> SUBSET Tickers0], from : Nat]
      /\ \A d \in Dates : IsFiniteSet(NoRunNow.todo[d])
  BY FS_EmptySet DEF NoRunNow
<1>2. ratioFile \in [Dates -> Entries0] /\ AskedMeansAnswered
  BY NoRatios DEF RatioInit, AskedMeansAnswered
<1>3. QED BY <1>1, <1>2, RatioNumbers DEF RatioInit, RatioInv

LEMMA Quotients ==
    ASSUME NEW x \in Nat, NEW r \in Nat, r > 0
    PROVE  x \div r \in Nat /\ (x \div r) * r <= x
OBVIOUS

LEMMA ProductsGrow ==
    ASSUME NEW a \in Nat, NEW b \in Nat, a <= b, NEW r \in Nat
    PROVE  a * r \in Nat /\ b * r \in Nat /\ a * r <= b * r
OBVIOUS

LEMMA AffordableForm ==
    ASSUME NEW todo \in [Dates -> SUBSET Tickers0], \A d \in Dates : IsFiniteSet(todo[d]),
           NEW ds \in SUBSET Dates, ds # {}, quota \in Nat
    PROVE  /\ Affordable(todo, ds) \in SUBSET ds
           /\ quota >= QUOTA_RESERVE =>
                 \E r \in Nat : /\ \A d \in ds : Requests(todo[d]) <= r
                                /\ quota >= QUOTA_RESERVE + Cardinality(Affordable(todo, ds)) * r
<1> DEFINE all == {Requests(todo[d]) : d \in ds}
           r == Max({1, Max(all)})
           x == Max({0, quota - QUOTA_RESERVE})
           n == x \div r
           res == IF n < Cardinality(ds) THEN Newest(n, ds) ELSE ds
<1>1. Affordable(todo, ds) = res
  BY DEF Affordable
<1>2. ds \in SUBSET Nat /\ IsFiniteSet(ds) /\ Cardinality(ds) \in Nat
  BY RatioNumbers, FS_Subset, FS_CardinalityType
<1>3. \A d \in ds : Requests(todo[d]) \in Nat
  BY SomeRequests
<1>4. Max(all) \in Nat /\ \A d \in ds : Requests(todo[d]) <= Max(all)
  <2> DEFINE h == [d \in ds |-> Requests(todo[d])]
  <2>1. h \in Surjection(ds, all)
    BY DEF Surjection
  <2>2. all \in SUBSET Nat /\ all # {}
    BY <1>3
  <2>3. \A d \in ds : Requests(todo[d]) \in all
    OBVIOUS
  <2> HIDE DEF h, all
  <2>4. IsFiniteSet(all)
    BY <1>2, <2>1, FS_Surjection
  <2>5. QED BY <2>2, <2>3, <2>4, LargestOfSome
<1> HIDE DEF all
<1>5. r \in Nat /\ r > 0 /\ \A d \in ds : Requests(todo[d]) <= r
  <2>1. 1 \in Nat /\ Max(all) \in Int
    BY <1>4
  <2>2. r = IF Max(all) <= 1 THEN 1 ELSE Max(all)
    BY <2>1, LargerOf
  <2> HIDE DEF r
  <2>3. QED BY <1>3, <1>4, <2>2
<1>6. x \in Nat /\ (quota >= QUOTA_RESERVE => x = quota - QUOTA_RESERVE)
  <2>1. 0 \in Nat /\ quota - QUOTA_RESERVE \in Int /\ QUOTA_RESERVE \in Nat
    BY RatioNumbers
  <2>2. x = IF quota - QUOTA_RESERVE <= 0 THEN 0 ELSE quota - QUOTA_RESERVE
    BY <2>1, LargerOf
  <2> HIDE DEF x
  <2>3. QED BY <2>1, <2>2
<1> HIDE DEF r, x
<1>7. n \in Nat /\ n * r <= x
  BY <1>5, <1>6, Quotients
<1> HIDE DEF n
<1>8. res \in SUBSET ds /\ Cardinality(res) \in Nat /\ Cardinality(res) <= n
  <2>1. CASE n < Cardinality(ds)
    <3>1. n <= Cardinality(ds)
      BY <1>2, <1>7, <2>1
    <3>2. Newest(n, ds) \in SUBSET ds /\ Cardinality(Newest(n, ds)) = n
      BY <1>2, <1>7, <3>1, NewestForm
    <3>3. QED BY <1>7, <2>1, <3>2
  <2>2. CASE ~(n < Cardinality(ds))
    BY <1>2, <1>7, <2>2
  <2>3. QED BY <2>1, <2>2
<1> HIDE DEF res
<1>9. Cardinality(res) * r \in Nat /\ Cardinality(res) * r <= n * r /\ n * r \in Nat
  BY <1>5, <1>7, <1>8, ProductsGrow
<1>10. quota >= QUOTA_RESERVE => quota >= QUOTA_RESERVE + Cardinality(res) * r
  <2> DEFINE y == Cardinality(res) * r
             z == n * r
  <2>1. y \in Nat /\ z \in Nat /\ y <= z /\ z <= x
    BY <1>7, <1>9
  <2> HIDE DEF y, z
  <2>2. quota >= QUOTA_RESERVE => quota >= QUOTA_RESERVE + y
    BY <1>6, <2>1, RatioNumbers
  <2>3. QED BY <2>2 DEF y
<1>11. QED BY <1>1, <1>5, <1>8, <1>10

LEMMA InvBegins == ASSUME RatioInv, NEW u \in Universes, NEW told \in BOOLEAN, Begins(u, told) PROVE RatioInv'
<1> DEFINE todo == [d \in Dates |-> u \ _load_cached(d).asked]
           lacking == {d \in Dates : todo[d] # {}}
           next == IF told /\ lacking # {} THEN Affordable(todo, lacking) ELSE lacking
           out == [d \in Dates |-> _load_cached(d).values]
           since == IF told THEN quota ELSE 0
<1>1. /\ run' = [universe |-> u, todo |-> todo, from |-> since, out |-> out, missing |-> next]
      /\ ratioFile' = ratioFile /\ quota' = quota
  BY DEF Begins
<1>2. todo \in [Dates -> SUBSET Tickers0] /\ \A d \in Dates : IsFiniteSet(todo[d])
  <2>1. IsFiniteSet(u) /\ u \in SUBSET Tickers0
    BY RatioNumbers
  <2>2. \A d \in Dates : todo[d] \in SUBSET u
    OBVIOUS
  <2>3. \A d \in Dates : IsFiniteSet(todo[d])
    BY <2>1, <2>2, FS_Subset
  <2>4. QED BY <2>1, <2>3
<1>3. out \in [Dates -> SUBSET Tickers0] /\ \A d \in Dates : out[d] = _load_cached(d).values
  BY LoadedForm DEF Entries0
<1>4. lacking \in SUBSET Dates /\ quota \in Nat /\ since \in Nat
  BY DEF RatioInv
<1> HIDE DEF todo, lacking, out
<1>5. next \in SUBSET Dates
  BY <1>2, <1>4, AffordableForm
<1>6. QUOTA_RESERVE > 0 /\ since >= QUOTA_RESERVE =>
         \E r \in Nat : (\A d \in next : Requests(todo[d]) <= r) /\ quota >= QUOTA_RESERVE + Cardinality(next) * r
  <2>1. SUFFICES ASSUME QUOTA_RESERVE > 0, since >= QUOTA_RESERVE
                 PROVE  \E r \in Nat : (\A d \in next : Requests(todo[d]) <= r) /\ quota >= QUOTA_RESERVE + Cardinality(next) * r
    OBVIOUS
  <2>2. told /\ quota >= QUOTA_RESERVE
    BY <2>1, RatioNumbers
  <2>3. CASE lacking = {}
    <3>1. next = {} /\ Cardinality({}) = 0
      BY <2>3, FS_EmptySet
    <3>2. \A d \in next : Requests(todo[d]) <= 0
      BY <3>1
    <3> HIDE DEF next
    <3>3. Cardinality(next) * 0 = 0
      BY <3>1
    <3>5. quota >= QUOTA_RESERVE + Cardinality(next) * 0
      BY <1>4, <2>2, <3>3, RatioNumbers
    <3>6. QED BY <3>2, <3>5
  <2>4. CASE lacking # {}
    <3>1. next = Affordable(todo, lacking) /\ next \in SUBSET lacking
      BY <1>2, <1>4, <2>2, <2>4, AffordableForm
    <3>2. PICK r \in Nat : (\A d \in lacking : Requests(todo[d]) <= r) /\ quota >= QUOTA_RESERVE + Cardinality(Affordable(todo, lacking)) * r
      BY <1>2, <1>4, <2>2, <2>4, AffordableForm
    <3> HIDE DEF next
    <3>3. QED BY <3>1, <3>2
  <2>5. QED BY <2>3, <2>4
<1> HIDE DEF next, since
<1>7. run'.todo = todo /\ run'.missing = next /\ run'.from = since /\ run'.out = out /\ run'.universe = u
  BY <1>1
<1>8. \A d \in Dates : _load_cached(d)' = _load_cached(d)
  BY <1>1 DEF _load_cached
<1>9. ratioFile' \in [Dates -> Entries0] /\ AskedMeansAnswered' /\ quota' \in Nat
  BY <1>1 DEF RatioInv, AskedMeansAnswered
<1>10. run' \in [universe : Universes \cup {{}}, todo : [Dates -> SUBSET Tickers0], missing : SUBSET Dates,
                 out : [Dates -> SUBSET Tickers0], from : Nat]
  BY <1>1, <1>2, <1>3, <1>4, <1>5
<1>11. \A d \in run'.missing : run'.out[d] = _load_cached(d)'.values
  BY <1>3, <1>5, <1>7, <1>8
<1>12. QUOTA_RESERVE > 0 /\ run'.from >= QUOTA_RESERVE => Afforded(run.missing)'
  BY <1>1, <1>6, <1>7 DEF Afforded
<1>13. \A d \in Dates : IsFiniteSet(run'.todo[d])
  BY <1>2, <1>7
<1>14. QED BY <1>9, <1>10, <1>11, <1>12, <1>13 DEF RatioInv

LEMMA OneTimesLess ==
    ASSUME NEW c \in Nat, NEW r \in Nat, NEW q \in Nat, NEW x \in Nat, NEW k \in Nat, c > 0, x <= r, q >= k + c * r
    PROVE  q - x >= k + (c - 1) * r /\ q - x >= 0
<1>1. c * r = (c - 1) * r + r /\ (c - 1) * r \in Nat
  OBVIOUS
<1> DEFINE y == (c - 1) * r
<1> HIDE DEF y
<1>2. y \in Nat /\ q >= k + (y + r)
  BY <1>1 DEF y
<1>3. q - x >= k + y /\ q - x >= 0
  BY <1>2
<1>4. QED BY <1>3 DEF y

LEMMA InvFetchDate ==
    ASSUME RatioInv, NEW writes \in BOOLEAN, NEW lost \in SUBSET Tickers0, FetchDate(lost, writes)
    PROVE  RatioInv'
<1> DEFINE d == Min(run.missing)
           answered == run.todo[d] \ lost
           merged == run.out[d] \cup (answered \cap Covered(d))
           stored == [values |-> merged, asked |-> _load_cached(d).asked \cup (run.todo[d] \ lost)]
           here == IF answered = {} THEN run.out[d] ELSE merged
           cost == Requests(run.todo[d])
<1>1. /\ run.missing # {}
      /\ quota' = Max({0, quota - cost})
      /\ run' = [run EXCEPT !.missing = run.missing \ {d}, !.out[d] = here]
      /\ ratioFile' = ratioFile \/ ratioFile' = [ratioFile EXCEPT ![d] = stored]
  BY DEF FetchDate, AskedNow
<1>2. /\ ratioFile \in [Dates -> Entries0] /\ AskedMeansAnswered /\ quota \in Nat
      /\ run \in [universe : Universes \cup {{}}, todo : [Dates -> SUBSET Tickers0], missing : SUBSET Dates,
                  out : [Dates -> SUBSET Tickers0], from : Nat]
      /\ run.missing \in SUBSET Dates /\ run.todo \in [Dates -> SUBSET Tickers0] /\ run.out \in [Dates -> SUBSET Tickers0]
      /\ \A e \in Dates : IsFiniteSet(run.todo[e])
      /\ \A e \in run.missing : run.out[e] = _load_cached(e).values
  BY DEF RatioInv
<1>3. d \in run.missing /\ d \in Dates
  <2>1. run.missing \in SUBSET Nat
    BY <1>2, RatioNumbers
  <2>2. QED BY <1>1, <1>2, <2>1, FirstOf
<1> HIDE DEF d
<1>4. /\ run.todo[d] \in SUBSET Tickers0 /\ run.out[d] \in SUBSET Tickers0 /\ cost \in Nat
      /\ run.out[d] = _load_cached(d).values
  BY <1>2, <1>3, SomeRequests
<1>5. _load_cached(d) \in Entries0 /\ _load_cached(d).asked \cap Covered(d) \subseteq _load_cached(d).values
  BY <1>3, LoadedForm
<1>6. merged \in SUBSET Tickers0 /\ stored \in Entries0
  <2>1. answered \in SUBSET Tickers0 /\ merged \in SUBSET Tickers0
    BY <1>4
  <2>2. _load_cached(d).asked \in SUBSET (Tickers0 \cup {"?"})
    BY <1>5 DEF Entries0
  <2> HIDE DEF merged
  <2>3. stored \in Entries0
    BY <1>4, <2>1, <2>2 DEF Entries0
  <2>4. QED BY <2>1, <2>3
<1>7. stored.asked \cap Covered(d) \subseteq stored.values
  <2>1. stored.values = merged /\ stored.asked = _load_cached(d).asked \cup answered
    OBVIOUS
  <2>2. _load_cached(d).asked \cap Covered(d) \subseteq run.out[d]
    BY <1>4, <1>5
  <2> HIDE DEF stored, answered
  <2>3. QED BY <2>1, <2>2
<1>8. here \in SUBSET Tickers0
  BY <1>4, <1>6
<1> HIDE DEF answered, merged, stored, here
<1>9. ratioFile' \in [Dates -> Entries0] /\ \A e \in Dates : e # d => ratioFile'[e] = ratioFile[e]
  BY <1>1, <1>2, <1>6
<1>10. AskedMeansAnswered'
  <2>1. SUFFICES ASSUME NEW e \in Dates, ratioFile'[e] # Broken PROVE ratioFile'[e].asked \cap Covered(e) \subseteq ratioFile'[e].values
    BY DEF AskedMeansAnswered
  <2>2. CASE ratioFile'[e] = ratioFile[e]
    BY <1>2, <2>1, <2>2 DEF AskedMeansAnswered
  <2>3. CASE ratioFile'[e] # ratioFile[e]
    <3>1. e = d /\ ratioFile' = [ratioFile EXCEPT ![d] = stored]
      BY <1>1, <1>9, <2>3
    <3>2. ratioFile'[d] = stored
      BY <1>2, <1>3, <3>1
    <3>3. QED BY <1>7, <3>1, <3>2
  <2>4. QED BY <2>2, <2>3
<1>11. /\ run'.missing = run.missing \ {d} /\ run'.todo = run.todo /\ run'.from = run.from
       /\ run'.out \in [Dates -> SUBSET Tickers0] /\ \A e \in Dates : e # d => run'.out[e] = run.out[e]
       /\ run' \in [universe : Universes \cup {{}}, todo : [Dates -> SUBSET Tickers0], missing : SUBSET Dates,
                    out : [Dates -> SUBSET Tickers0], from : Nat]
  BY <1>1, <1>2, <1>3, <1>8
<1>12. \A e \in run'.missing : run'.out[e] = _load_cached(e)'.values
  <2>1. SUFFICES ASSUME NEW e \in run.missing, e # d PROVE run'.out[e] = _load_cached(e)'.values
    BY <1>11
  <2>2. e \in Dates /\ ratioFile'[e] = ratioFile[e]
    BY <1>2, <1>9, <2>1
  <2>3. _load_cached(e)' = _load_cached(e)
    BY <2>2 DEF _load_cached
  <2>4. QED BY <1>2, <1>11, <2>1, <2>2, <2>3
<1>13. quota' = (IF quota - cost <= 0 THEN 0 ELSE quota - cost) /\ quota' \in Nat
  <2>1. 0 \in Nat /\ quota - cost \in Int
    BY <1>2, <1>4
  <2>2. Max({0, quota - cost}) = IF quota - cost <= 0 THEN 0 ELSE quota - cost
    BY <2>1, LargerOf
  <2>3. QED BY <1>1, <2>1, <2>2
<1>14. QUOTA_RESERVE > 0 /\ run'.from >= QUOTA_RESERVE => Afforded(run.missing)'
  <2>1. SUFFICES ASSUME QUOTA_RESERVE > 0, run.from >= QUOTA_RESERVE PROVE Afforded(run.missing)'
    BY <1>11
  <2>2. PICK r \in Nat : (\A e \in run.missing : Requests(run.todo[e]) <= r) /\ quota >= QUOTA_RESERVE + Cardinality(run.missing) * r
    BY <2>1 DEF RatioInv, Afforded
  <2>3. /\ Cardinality(run.missing) \in Nat /\ Cardinality(run.missing) > 0
        /\ Cardinality(run.missing \ {d}) = Cardinality(run.missing) - 1
    <3>1. IsFiniteSet(run.missing)
      BY <1>2, RatioNumbers, FS_Subset
    <3>2. Cardinality(run.missing) \in Nat /\ Cardinality(run.missing \ {d}) \in Nat /\ Cardinality(run.missing \ {d}) = Cardinality(run.missing) - 1
      BY <1>3, <3>1, FS_RemoveElement, FS_CardinalityType
    <3>3. QED BY <3>2
  <2>4. cost <= r
    BY <1>3, <2>2
  <2>5. quota - cost >= QUOTA_RESERVE + (Cardinality(run.missing) - 1) * r /\ quota - cost >= 0
    BY <1>2, <1>4, <2>2, <2>3, <2>4, RatioNumbers, OneTimesLess
  <2>6. quota' = quota - cost
    BY <1>2, <1>4, <1>13, <2>5
  <2>7. quota' >= QUOTA_RESERVE + Cardinality(run'.missing) * r
    BY <1>11, <2>3, <2>5, <2>6
  <2>8. \A e \in run'.missing : Requests(run'.todo[e]) <= r
    BY <1>11, <2>2
  <2>9. QED BY <2>7, <2>8 DEF Afforded
<1>15. \A e \in Dates : IsFiniteSet(run'.todo[e])
  BY <1>2, <1>11
<1>16. QED BY <1>9, <1>10, <1>11, <1>12, <1>13, <1>14, <1>15 DEF RatioInv

LEMMA InvNoRun ==
    ASSUME RatioInv, run' = NoRunNow, quota' = quota,
           ratioFile' = ratioFile \/ \E d \in Dates : ratioFile' = [ratioFile EXCEPT ![d] = Broken]
    PROVE  RatioInv'
<1>1. run'.missing = {} /\ run'.from = 0 /\ (\A d \in Dates : IsFiniteSet(run'.todo[d]))
      /\ run' \in [universe : Universes \cup {{}}, todo : [Dates -> SUBSET Tickers0], missing : SUBSET Dates,
                   out : [Dates -> SUBSET Tickers0], from : Nat]
  BY FS_EmptySet DEF NoRunNow
<1>2. ratioFile' \in [Dates -> Entries0] /\ \A e \in Dates : ratioFile'[e] = ratioFile[e] \/ ratioFile'[e] = Broken
  BY NoRatios DEF RatioInv
<1>3. AskedMeansAnswered'
  BY <1>2 DEF RatioInv, AskedMeansAnswered
<1>4. QUOTA_RESERVE > 0 => ~(run'.from >= QUOTA_RESERVE)
  BY <1>1, RatioNumbers
<1>5. quota' \in Nat
  BY DEF RatioInv
<1>6. QED BY <1>1, <1>2, <1>3, <1>4, <1>5 DEF RatioInv

LEMMA InvNewMonth == ASSUME RatioInv, NewMonth PROVE RatioInv'
<1>1. quota < FullQuota /\ quota' = FullQuota /\ ratioFile' = ratioFile /\ run' = run
  BY DEF NewMonth
<1>2. \A e : _load_cached(e)' = _load_cached(e)
  BY <1>1 DEF _load_cached
<1>3. QUOTA_RESERVE > 0 /\ run'.from >= QUOTA_RESERVE => Afforded(run.missing)'
  <2>1. SUFFICES ASSUME QUOTA_RESERVE > 0, run.from >= QUOTA_RESERVE PROVE Afforded(run.missing)'
    BY <1>1
  <2>2. PICK r \in Nat : (\A e \in run.missing : Requests(run.todo[e]) <= r) /\ quota >= QUOTA_RESERVE + Cardinality(run.missing) * r
    BY <2>1 DEF RatioInv, Afforded
  <2>3. Cardinality(run.missing) \in Nat
    <3>1. IsFiniteSet(run.missing)
      BY RatioNumbers, FS_Subset DEF RatioInv
    <3>2. QED BY <3>1, FS_CardinalityType
  <2> DEFINE y == Cardinality(run.missing) * r
  <2>4. y \in Nat
    BY <2>3, ProductsGrow
  <2> HIDE DEF y
  <2>5. FullQuota >= QUOTA_RESERVE + y
    BY <1>1, <2>2, <2>4, RatioNumbers DEF RatioInv, y
  <2>6. QED BY <1>1, <2>2, <2>5 DEF Afforded, y
<1>4. QED BY <1>1, <1>2, <1>3, RatioNumbers DEF RatioInv, AskedMeansAnswered

LEMMA RatioStep == ASSUME RatioInv, [RatioNext]_ratioVars PROVE RatioInv'
<1>1. CASE Trained
  BY <1>1, InvNoRun DEF Trained
<1>2. CASE NewMonth
  BY <1>2, InvNewMonth
<1>3. ASSUME NEW u \in Universes, NEW told \in BOOLEAN, Begins(u, told) PROVE RatioInv'
  BY <1>3, InvBegins
<1>4. ASSUME NEW writes \in BOOLEAN, NEW lost \in SUBSET UNION Universes, FetchDate(lost, writes) PROVE RatioInv'
  BY <1>4, InvFetchDate DEF Tickers0
<1>5. ASSUME NEW half \in BOOLEAN, KilledInFetch(half) PROVE RatioInv'
  <2>1. /\ run.missing # {} /\ run' = NoRunNow /\ quota' = quota
        /\ ratioFile' = ratioFile \/ ratioFile' = [ratioFile EXCEPT ![Min(run.missing)] = Broken]
    BY <1>5 DEF KilledInFetch
  <2>2. Min(run.missing) \in Dates
    <3>1. run.missing \in SUBSET Nat /\ run.missing \in SUBSET Dates
      BY RatioNumbers DEF RatioInv
    <3>2. QED BY <2>1, <3>1, FirstOf
  <2>3. QED BY <2>1, <2>2, InvNoRun
<1>6. CASE UNCHANGED ratioVars
  <2>1. ratioFile' = ratioFile /\ quota' = quota /\ run' = run
    BY <1>6 DEF ratioVars
  <2>2. \A e : _load_cached(e)' = _load_cached(e)
    BY <2>1 DEF _load_cached
  <2>3. QED BY <2>1, <2>2 DEF RatioInv, AskedMeansAnswered, Afforded
<1>7. QED BY <1>1, <1>2, <1>3, <1>4, <1>5, <1>6 DEF RatioNext

LEMMA RatiosHold == ASSUME RatioInv PROVE RatiosAreWhole
<1>1. AskedMeansAnswered /\ quota \in Nat /\ run.from \in Nat
  BY DEF RatioInv
<1>2. ReserveIsKept
  <2>1. SUFFICES ASSUME ~(quota >= QUOTA_RESERVE), run.from >= QUOTA_RESERVE PROVE FALSE
    BY <1>1, RatioNumbers DEF ReserveIsKept
  <2>2. QUOTA_RESERVE > 0
    BY <1>1, <2>1, RatioNumbers
  <2>3. PICK r \in Nat : quota >= QUOTA_RESERVE + Cardinality(run.missing) * r
    BY <2>1, <2>2 DEF RatioInv, Afforded
  <2>4. Cardinality(run.missing) \in Nat
    <3>1. IsFiniteSet(run.missing)
      BY RatioNumbers, FS_Subset DEF RatioInv
    <3>2. QED BY <3>1, FS_CardinalityType
  <2> DEFINE y == Cardinality(run.missing) * r
  <2>5. y \in Nat /\ quota >= QUOTA_RESERVE + y
    BY <2>3, <2>4, ProductsGrow
  <2> HIDE DEF y
  <2>6. QED BY <1>1, <2>1, <2>5, RatioNumbers
<1>3. QED BY <1>1, <1>2 DEF RatiosAreWhole

(* For any tickers, dates, quota and reserve: no date is kept as asked for      *)
(* names whose values never came, and a run that has its reserve when it        *)
(* begins leaves it, whatever is lost or killed on the way (fetch_history).    *)
THEOREM RatiosStayWhole == RatioSpec => []RatiosAreWhole
<1>1. RatioInit => RatioInv
  BY RatioStarts
<1>2. RatioInv /\ [RatioNext]_ratioVars => RatioInv'
  BY RatioStep
<1>3. RatioInv => RatiosAreWhole
  BY RatiosHold
<1>4. QED BY <1>1, <1>2, <1>3, PTL DEF RatioSpec

-----------------------------------------------------------------------------
(* The rows a study is made of.                                             *)
(* What a company has filed by a day is read off the company, so it stands.   *)
LEMMA TalesStand == ASSUME company' = company PROVE \A k, p : AsToldBy(k, p)' = AsToldBy(k, p)
BY DEF AsToldBy
LEMMA DatesStand == ASSUME company' = company PROVE \A k : Filed(k)' = Filed(k)
BY DEF Filed
LEMMA FilingsStand == ASSUME company' = company PROVE Filings' = Filings
BY DEF Filings
LEMMA ReadableStands == ASSUME company' = company PROVE \A d : Readable(d)' = Readable(d)
BY TalesStand, DatesStand, FilingsStand DEF Readable

\* The periods a filing tells of.
Told(k) == ReportsOf(k) \cup YearEarlier(ReportsOf(k))

\* What was taken in is what anyone could have read by the last month-end, and
\* what is remembered of a month-end is what could be read then.
FiledInv ==
    /\ company.late \in Nat /\ Filings \in SUBSET Nat
    /\ month \in Nat /\ month > 0
    /\ DOMAIN periods = DOMAIN Readable(Made) /\ \A p \in DOMAIN periods : periods[p] = Readable(Made)[p]
    /\ DOMAIN past = 1..Made
    /\ \A d \in 1..Made : past[d] = <<latest_ttm(Readable(d), d), ttm_eps(quarterly_eps(Readable(d)), d)>>
    /\ Made > 0 =>
          /\ figures.revenue = latest_ttm(Readable(Made), Made)
          /\ figures.eps = ttm_eps(quarterly_eps(Readable(Made)), Made)
          /\ figures.then = IF Made - 12 * GROWTH_YEARS \in 1..Made - 1 THEN past[Made - 12 * GROWTH_YEARS] ELSE Missing

LEMMA FiledNumbers ==
    /\ Quarters \in Nat /\ Delay \in Nat /\ Delay # 12 /\ GROWTH_YEARS \in Nat /\ GROWTH_YEARS > 0
BY FiledAssumption

LEMMA FiledIsNat == ASSUME FiledInv, NEW k \in Filings PROVE Filed(k) \in Nat /\ Filed(k) > 3 * k
BY FiledNumbers DEF FiledInv, Filed

LEMMA PeriodForm ==
    ASSUME NEW k \in Nat, NEW p \in Told(k)
    PROVE  p = <<p[1], p[2]>> /\ (p[2] = 3 * k \/ p[2] = 3 * k - 12)
<1>1. \A q \in ReportsOf(k) : q = <<q[1], q[2]>> /\ q[2] = 3 * k
  BY DEF ReportsOf
<1>2. \A q \in YearEarlier(ReportsOf(k)) : q = <<q[1], q[2]>> /\ q[2] = 3 * k - 12
  BY <1>1 DEF YearEarlier
<1>3. QED BY <1>1, <1>2 DEF Told

LEMMA FiledForm ==
    ASSUME NEW k \in Nat
    PROVE  /\ company.late = k => Filed(k) = 3 * k + 1 + Delay
           /\ company.late # k => Filed(k) = 3 * k + 1
<1>1. company.late = k => Filed(k) = 3 * k + 1 + Delay
  BY FiledNumbers DEF Filed
<1>2. ASSUME company.late # k PROVE Filed(k) = 3 * k + 1
  <2>1. Filed(k) = 3 * k + 1 + 0
    BY <1>2 DEF Filed
  <2>2. QED BY <2>1
<1>3. QED BY <1>1, <1>2

(* Two filings of a day tell of no period both.                              *)
LEMMA FilingsOfADay ==
    ASSUME FiledInv, NEW k \in Filings, NEW j \in Filings, Filed(k) = Filed(j), NEW p \in Told(k), p \in Told(j)
    PROVE  k = j
<1>1. k \in Nat /\ j \in Nat
  BY DEF FiledInv
<1>2. (p[2] = 3 * k \/ p[2] = 3 * k - 12) /\ (p[2] = 3 * j \/ p[2] = 3 * j - 12)
  BY <1>1, PeriodForm
<1>3. k = j \/ k = j + 4 \/ j = k + 4
  BY <1>1, <1>2
<1>5. /\ Filed(k) = 3 * k + 1 \/ Filed(k) = 3 * k + 1 + Delay
      /\ Filed(j) = 3 * j + 1 \/ Filed(j) = 3 * j + 1 + Delay
      /\ k # j => Filed(k) = 3 * k + 1 \/ Filed(j) = 3 * j + 1
  BY <1>1, FiledForm
<1>6. ASSUME k = j + 4 \/ j = k + 4 PROVE FALSE
  <2> DEFINE x == Filed(k)
             y == Filed(j)
  <2>1. /\ x = 3 * k + 1 \/ x = 3 * k + 1 + Delay
        /\ y = 3 * j + 1 \/ y = 3 * j + 1 + Delay
        /\ x = 3 * k + 1 \/ y = 3 * j + 1
        /\ x = y
    BY <1>1, <1>5, <1>6
  <2> HIDE DEF x, y
  <2>2. QED BY <1>1, <1>6, <2>1, FiledNumbers
<1>7. QED BY <1>3, <1>6

\* The filings by a day, and those of them that tell of a period.
By(day) == {k \in Filings : Filed(k) <= day}
Tells(day, p) == {k \in By(day) : p \in Told(k)}

LEMMA ReadableForm ==
    ASSUME NEW day
    PROVE  Readable(day) = [p \in UNION {Told(k) : k \in By(day)} |->
                AsToldBy(CHOOSE k \in Tells(day, p) : \A j \in Tells(day, p) : Filed(k) >= Filed(j), p)]
BY DEF Readable, Told, By, Tells

LEMMA NewsForm ==
    ASSUME NEW day
    PROVE  News(day) = UNION {{[filed |-> Filed(k), start |-> p[1], end |-> p[2], val |-> AsToldBy(k, p)] : p \in Told(k)} :
                                  k \in {j \in Filings : month - 1 < Filed(j) /\ Filed(j) <= day}}
<1>1. \A k \in Filings : \A f \in FactsOf(k) : f.filed = Filed(k)
  BY DEF FactsOf
<1>2. \A k : FactsOf(k) = {[filed |-> Filed(k), start |-> p[1], end |-> p[2], val |-> AsToldBy(k, p)] : p \in Told(k)}
  BY DEF FactsOf, Told
<1>3. News(day) = UNION {FactsOf(k) : k \in {j \in Filings : month - 1 < Filed(j) /\ Filed(j) <= day}}
  BY <1>1 DEF News, _facts
<1>4. QED BY <1>2, <1>3

(* Taking in a month's filings leaves what could be read by its end.         *)
LEMMA AdvanceForm == ASSUME FiledInv PROVE advance(month) = Readable(month)
<1> DEFINE about(p) == {f \in News(month) : <<f.start, f.end>> = p}
           later(d, p) == CHOOSE k \in Tells(d, p) : \A j \in Tells(d, p) : Filed(k) >= Filed(j)
           new == {<<f.start, f.end>> : f \in News(month)}
<1>1. month \in Nat /\ month - 1 \in Nat /\ Made = month - 1
  BY DEF FiledInv, Made
<1>2. \A k \in Filings : Filed(k) \in Nat /\ k \in Nat
  BY FiledIsNat DEF FiledInv
<1>3. \A f : f \in News(month) <=> \E k \in Filings : \E p \in Told(k) :
                 Filed(k) = month /\ f = [filed |-> month, start |-> p[1], end |-> p[2], val |-> AsToldBy(k, p)]
  <2>1. \A k \in Filings : month - 1 < Filed(k) /\ Filed(k) <= month <=> Filed(k) = month
    BY <1>1, <1>2
  <2>2. QED BY <2>1, NewsForm
<1>4. \A f \in News(month) : \A p : <<f.start, f.end>> = p =>
          \E k \in Filings : Filed(k) = month /\ p \in Told(k) /\ f.val = AsToldBy(k, p)
  <2>1. SUFFICES ASSUME NEW f \in News(month) PROVE \E k \in Filings : /\ Filed(k) = month /\ <<f.start, f.end>> \in Told(k)
                                                                       /\ f.val = AsToldBy(k, <<f.start, f.end>>)
    OBVIOUS
  <2>2. PICK k \in Filings : \E p \in Told(k) :
                 Filed(k) = month /\ f = [filed |-> month, start |-> p[1], end |-> p[2], val |-> AsToldBy(k, p)]
    BY <1>3
  <2>3. PICK p \in Told(k) : f = [filed |-> month, start |-> p[1], end |-> p[2], val |-> AsToldBy(k, p)]
    BY <2>2
  <2>4. p = <<p[1], p[2]>>
    BY <1>2, PeriodForm
  <2>5. f.start = p[1] /\ f.end = p[2] /\ f.val = AsToldBy(k, p)
    BY <2>3
  <2>6. QED BY <2>2, <2>4, <2>5
<1>5. \A k \in Filings : Filed(k) = month => \A p \in Told(k) : \E f \in News(month) : <<f.start, f.end>> = p
  <2>1. SUFFICES ASSUME NEW k \in Filings, Filed(k) = month, NEW p \in Told(k)
                 PROVE  \E f \in News(month) : <<f.start, f.end>> = p
    OBVIOUS
  <2>2. [filed |-> month, start |-> p[1], end |-> p[2], val |-> AsToldBy(k, p)] \in News(month)
    BY <1>3, <2>1
  <2>3. p = <<p[1], p[2]>>
    BY <1>2, PeriodForm
  <2>4. QED BY <2>2, <2>3
<1> DEFINE before == UNION {Told(k) : k \in By(month - 1)}
           now == UNION {Told(k) : k \in By(month)}
<1>6. before \cup new = now
  <2>1. By(month) = By(month - 1) \cup {k \in Filings : Filed(k) = month}
    BY <1>1, <1>2 DEF By
  <2>2. new = UNION {Told(k) : k \in {j \in Filings : Filed(j) = month}}
    BY <1>4, <1>5
  <2>3. QED BY <2>1, <2>2
<1>7. /\ DOMAIN periods = before /\ \A p \in before : periods[p] = AsToldBy(later(month - 1, p), p)
      /\ Readable(month) = [p \in now |-> AsToldBy(later(month, p), p)]
  <2>1. Readable(month - 1) = [p \in before |-> AsToldBy(later(month - 1, p), p)]
    BY ReadableForm
  <2>2. Readable(month) = [p \in now |-> AsToldBy(later(month, p), p)]
    BY ReadableForm
  <2>3. /\ DOMAIN periods = DOMAIN Readable(month - 1)
        /\ \A p \in DOMAIN periods : periods[p] = Readable(month - 1)[p]
    BY <1>1 DEF FiledInv
  <2> HIDE DEF before, later, now
  <2>4. QED BY <2>1, <2>2, <2>3
<1>8. advance(month) = [p \in now |-> IF about(p) = {} THEN periods[p] ELSE Latest(about(p)).val]
  <2>1. DOMAIN periods = before
    BY <1>7
  <2>2. QED BY <1>6, <2>1 DEF advance
<1>9. ASSUME NEW p \in now PROVE (IF about(p) = {} THEN periods[p] ELSE Latest(about(p)).val) = AsToldBy(later(month, p), p)
  <2>1. CASE about(p) = {}
    <3>1. \A k \in Filings : Filed(k) = month => p \notin Told(k)
      BY <1>5, <2>1
    <3>2. Tells(month, p) = Tells(month - 1, p)
      BY <1>1, <1>2, <3>1 DEF Tells, By
    <3>3. p \in before
      BY <1>1, <1>2, <1>9, <3>1 DEF By
    <3>4. periods[p] = AsToldBy(later(month - 1, p), p)
      BY <1>7, <3>3
    <3>5. QED BY <2>1, <3>2, <3>4
  <2>2. CASE about(p) # {}
    <3>1. PICK g \in about(p) : TRUE
      BY <2>2
    <3>2. PICK k \in Filings : Filed(k) = month /\ p \in Told(k)
      BY <1>4, <3>1
    <3>3. \A j \in Filings : Filed(j) = month /\ p \in Told(j) => j = k
      BY <3>2, FilingsOfADay
    <3>4. \A f \in about(p) : f.filed = month /\ f.val = AsToldBy(k, p)
      <4>1. \A f \in about(p) : f.val = AsToldBy(k, p)
        BY <1>4, <3>3
      <4>2. \A f \in News(month) : f.filed = month
        BY <1>3
      <4>3. QED BY <4>1, <4>2
    <3> DEFINE a == about(p)
    <3>5. Latest(a) \in a
      <4>1. g \in a /\ \A h \in a : g.filed >= h.filed
        BY <1>1, <3>1, <3>4
      <4> HIDE DEF a
      <4>2. QED BY <4>1 DEF Latest
    <3>6. Latest(about(p)).val = AsToldBy(k, p)
      BY <3>4, <3>5
    <3>7. k \in Tells(month, p) /\ \A j \in Tells(month, p) : Filed(j) \in Nat /\ Filed(j) <= month /\ j \in Filings /\ p \in Told(j)
      BY <1>1, <1>2, <3>2 DEF Tells, By
    <3> DEFINE T == Tells(month, p)
    <3>8. later(month, p) \in T /\ \A j \in T : Filed(later(month, p)) >= Filed(j)
      <4>1. \E i \in T : \A j \in T : Filed(i) >= Filed(j)
        BY <1>1, <3>2, <3>7
      <4> HIDE DEF T
      <4>2. (CHOOSE i \in T : \A j \in T : Filed(i) >= Filed(j)) \in T /\ \A j \in T : Filed(CHOOSE i \in T : \A l \in T : Filed(i) >= Filed(l)) >= Filed(j)
        BY <4>1
      <4>3. QED BY <4>2 DEF T
    <3> DEFINE l == later(month, p)
    <3>9. l \in Filings /\ p \in Told(l) /\ Filed(l) \in Nat /\ Filed(l) <= month /\ Filed(l) >= month
      BY <3>2, <3>7, <3>8
    <3> HIDE DEF l
    <3>10. l = k
      BY <1>1, <3>3, <3>9
    <3>11. QED BY <2>2, <3>6, <3>10 DEF l
  <2>3. QED BY <2>1, <2>2
<1> HIDE DEF about, later, now, before, new
<1>10. QED BY <1>7, <1>8, <1>9

LEMMA FiledStarts == ASSUME FiledInit PROVE FiledInv
<1>1. month = 1 /\ periods = <<>> /\ past = <<>> /\ Made = 0 /\ company \in Companies
  BY DEF FiledInit, Made
<1>2. company.late \in Nat
  BY <1>1, FiledNumbers DEF Companies
<1>3. Filings \in SUBSET Nat
  BY FiledNumbers DEF Filings
<1>4. By(0) = {}
  <2>1. SUFFICES ASSUME NEW k \in Filings, Filed(k) <= 0 PROVE FALSE
    BY DEF By
  <2>2. k \in Nat /\ (Filed(k) = 3 * k + 1 \/ Filed(k) = 3 * k + 1 + Delay)
    BY <1>3, FiledNumbers DEF Filed
  <2>3. QED BY <2>1, <2>2, FiledNumbers
<1>5. DOMAIN Readable(0) = {}
  <2>1. DOMAIN Readable(0) = UNION {Told(k) : k \in By(0)}
    BY ReadableForm
  <2>2. QED BY <1>4, <2>1
<1>6. DOMAIN past = 1..0
  BY <1>1
<1>7. DOMAIN periods = {} /\ 1..0 = {}
  BY <1>1
<1>8. QED BY <1>1, <1>2, <1>3, <1>5, <1>6, <1>7 DEF FiledInv

LEMMA FiledStep == ASSUME FiledInv, company_rows PROVE FiledInv'
<1> DEFINE row == Figures(advance(month), month, Then(month))
           year_ago == month - 12 * GROWTH_YEARS
<1>1. month \in Nat /\ month' = month + 1 /\ company' = company /\ Made = month - 1 /\ Made' = month /\ month > 0
  BY DEF FiledInv, company_rows, Made
<1>2. Filings' = Filings
  BY <1>1 DEF Filings
<1>3. \A d : Readable(d)' = Readable(d)
  BY <1>1, ReadableStands
<1>4. periods' = Readable(month) /\ figures' = row
      /\ past' = [d \in DOMAIN past \cup {month} |-> IF d = month THEN <<row.revenue, row.eps>> ELSE past[d]]
  BY AdvanceForm DEF company_rows
<1>5. /\ row.revenue = latest_ttm(Readable(month), month)
      /\ row.eps = ttm_eps(quarterly_eps(Readable(month)), month)
      /\ row.then = Then(month)
  BY AdvanceForm DEF Figures
<1> HIDE DEF row
<1>6. DOMAIN past' = 1..month
  BY <1>1, <1>4 DEF FiledInv
<1>7. \A d \in 1..month : past'[d] = <<latest_ttm(Readable(d), d), ttm_eps(quarterly_eps(Readable(d)), d)>>
  <2>1. past'[month] = <<row.revenue, row.eps>>
    BY <1>1, <1>4, <1>6
  <2>2. \A d \in 1..month : d # month => d \in 1..Made /\ past'[d] = past[d]
    BY <1>1, <1>4, <1>6
  <2>3. QED BY <1>5, <2>1, <2>2 DEF FiledInv
<1>8. row.then = IF year_ago \in 1..month - 1 THEN past'[year_ago] ELSE Missing
  <2>1. Then(month) = IF year_ago \in 1..month - 1 THEN past[year_ago] ELSE Missing
    BY <1>1 DEF Then, FiledInv
  <2>2. year_ago \in 1..month - 1 => past'[year_ago] = past[year_ago]
    BY <1>1, <1>4, FiledNumbers DEF FiledInv
  <2>3. QED BY <1>5, <2>1, <2>2
<1>9. periods' = Readable(Made)'
  BY <1>1, <1>3, <1>4 DEF Made
<1> HIDE DEF year_ago
<1>10. /\ DOMAIN periods' = DOMAIN Readable(Made)'
       /\ \A p \in DOMAIN periods' : periods'[p] = Readable(Made)'[p]
  BY <1>9
<1>11. \A d \in 1..Made' : past'[d] = <<latest_ttm(Readable(d), d)', ttm_eps(quarterly_eps(Readable(d)), d)'>>
  <2>1. SUFFICES ASSUME NEW d \in 1..month PROVE past'[d] = <<latest_ttm(Readable(d), d)', ttm_eps(quarterly_eps(Readable(d)), d)'>>
    BY <1>1
  <2>2. latest_ttm(Readable(d), d)' = latest_ttm(Readable(d), d)
    BY <1>3
  <2>3. ttm_eps(quarterly_eps(Readable(d)), d)' = ttm_eps(quarterly_eps(Readable(d)), d)
    BY <1>3
  <2>4. QED BY <1>7, <2>2, <2>3
<1>12. /\ figures'.revenue = latest_ttm(Readable(Made), Made)'
       /\ figures'.eps = ttm_eps(quarterly_eps(Readable(Made)), Made)'
  <2>1. Readable(Made)' = Readable(month)
    BY <1>1, <1>3 DEF Made
  <2>2. latest_ttm(Readable(Made), Made)' = latest_ttm(Readable(month), month)
    BY <1>1, <2>1
  <2>3. ttm_eps(quarterly_eps(Readable(Made)), Made)' = ttm_eps(quarterly_eps(Readable(month)), month)
    BY <1>1, <2>1
  <2>4. QED BY <1>4, <1>5, <2>2, <2>3
<1>13. figures'.then = IF Made' - 12 * GROWTH_YEARS \in 1..Made' - 1 THEN past'[Made' - 12 * GROWTH_YEARS] ELSE Missing
  BY <1>1, <1>4, <1>8 DEF year_ago
<1>14. company'.late \in Nat /\ Filings' \in SUBSET Nat /\ month' \in Nat /\ month' > 0 /\ DOMAIN past' = 1..Made'
  BY <1>1, <1>2, <1>6 DEF FiledInv
<1>15. QED BY <1>10, <1>11, <1>12, <1>13, <1>14 DEF FiledInv

LEMMA FiledHolds == ASSUME FiledInv PROVE NoHindsight
<1> DEFINE year_ago == Made - 12 * GROWTH_YEARS
<1>1. Made \in Nat
  BY DEF FiledInv, Made
<1>2. year_ago > 0 => year_ago \in 1..Made - 1 /\ year_ago \in 1..Made
  BY <1>1, FiledNumbers
<1>3. ASSUME Made > 0, year_ago > 0 PROVE figures.then[1] = latest_ttm(Readable(year_ago), year_ago)
  <2>1. figures.then = past[year_ago]
    BY <1>2, <1>3 DEF FiledInv
  <2>2. past[year_ago] = <<latest_ttm(Readable(year_ago), year_ago), ttm_eps(quarterly_eps(Readable(year_ago)), year_ago)>>
    BY <1>2, <1>3 DEF FiledInv
  <2>3. QED BY <2>1, <2>2
<1>4. QED BY <1>3 DEF FiledInv, NoHindsight

(* For any company, whatever it files late, never, or anew: a row is made of    *)
(* what anyone could have read on its day, and its growth of what could be     *)
(* read years before (company_rows, Known.advance).                          *)
THEOREM RowsKnowNoMore == FiledSpec => []NoHindsight
<1>1. FiledInit => FiledInv
  BY FiledStarts
<1>2. FiledInv /\ [company_rows]_filedVars => FiledInv'
  <2>1. SUFFICES ASSUME FiledInv, [company_rows]_filedVars PROVE FiledInv'
    OBVIOUS
  <2>2. CASE company_rows
    BY <2>1, <2>2, FiledStep
  <2>3. CASE UNCHANGED filedVars
    <3>1. company' = company /\ month' = month /\ periods' = periods /\ past' = past /\ figures' = figures
      BY <2>3 DEF filedVars
    <3>2. (\A d : Readable(d)' = Readable(d)) /\ Filings' = Filings
      BY <3>1, FilingsStand, ReadableStands
    <3>3. Made' = Made
      BY <3>1 DEF Made
    <3>4. QED BY <2>1, <3>1, <3>2, <3>3 DEF FiledInv
  <2>4. QED BY <2>1, <2>2, <2>3
<1>3. QED BY <1>1, <1>2, FiledHolds, PTL DEF FiledSpec
=============================================================================
