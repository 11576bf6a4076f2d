------------------------------ MODULE OfferProofs ------------------------------
(***************************************************************************)
(* Proofs about OptionDesk and PickFunnel, for any book, chains of options,    *)
(* survivors, sizes, limits and answers of the models.                        *)
(*                                                                         *)
(* The desk: what is offered fits what is free in every account the run could  *)
(* read, in shares and in cash (DeskSafe); writing one of the offers takes it  *)
(* off the list or off the room, and the weeks only give back.  A row is told  *)
(* or held back on what was known when it was offered, and a roll is named at   *)
(* the first expiry that pays, as a later one that pays has one before it or    *)
(* is it.                                                                  *)
(*                                                                         *)
(* The funnel: each cap scales or cuts, so that no size grows and a later cap   *)
(* keeps what an earlier one made true (PairsFit, SumScales); a list that most  *)
(* rounds gave meets the voters of every name that half of them gave, so it is  *)
(* all of the majority (MostIsTheMajority); and past the money left the plan    *)
(* of the analysts keeps no tier but the light one.                          *)
(***************************************************************************)
EXTENDS PlanProofs

-----------------------------------------------------------------------------
(* A sum in which one member changes, by as much.                             *)
LEMMA SumChanges ==
    ASSUME NEW w, NEW v, NEW S, IsFiniteSet(S), NEW z \in S,
           \A x \in S : w[x] \in Int /\ v[x] \in Int, \A x \in S \ {z} : w[x] = v[x]
    PROVE  SumOf(v, S) = SumOf(w, S) + (v[z] - w[z]) /\ SumOf(w, S) \in Int
<1>1. SumOf(w, S) = w[z] + SumOf(w, S \ {z}) /\ SumOf(v, S) = v[z] + SumOf(v, S \ {z})
  BY SumTakesOut
<1>2. IsFiniteSet(S \ {z}) /\ \A x \in S \ {z} : w[x] \in Int
  BY FS_Subset
<1>3. SumOf(w, S \ {z}) = SumOf(v, S \ {z})
  BY <1>2, SumsAreEqual
<1>4. SumOf(w, S \ {z}) \in Int /\ SumOf(w, S) \in Int
  BY <1>2, SumIsANumber
<1>5. QED BY <1>1, <1>3, <1>4

(* Weights of at least c, times k, add up to at least c for each.             *)
LEMMA SumAtLeast ==
    ASSUME NEW w, NEW S, IsFiniteSet(S), NEW k \in Nat, NEW c \in Nat,
           \A x \in S : w[x] \in Nat /\ c <= k * w[x]
    PROVE  c * Cardinality(S) <= k * SumOf(w, S)
<1> DEFINE F == {u \in SUBSET S : ~(c * Cardinality(u) <= k * SumOf(w, u))}
<1>1. SUFFICES ASSUME F # {} PROVE FALSE
  OBVIOUS
<1>2. \A u \in F : IsFiniteSet(u)
  BY FS_Subset
<1>3. PICK u \in F : \A v \in F : Cardinality(u) <= Cardinality(v)
  <2> HIDE DEF F
  <2>1. PICK v \in F : TRUE
    BY <1>1
  <2>2. QED BY <1>2, <2>1, SmallestSet
<1>4. u \in SUBSET S /\ IsFiniteSet(u) /\ ~(c * Cardinality(u) <= k * SumOf(w, u))
  BY <1>2
<1>5. SumOf(w, u) = IF u = {} THEN 0 ELSE w[One(u)] + SumOf(w, u \ {One(u)})
  BY <1>4, SumStep
<1>6. u # {}
  <2>1. ASSUME u = {} PROVE FALSE
    <3>1. Cardinality(u) = 0
      BY <2>1, FS_EmptySet
    <3>2. c * 0 <= k * 0
      OBVIOUS
    <3>3. QED BY <1>4, <1>5, <2>1, <3>1, <3>2
  <2>2. QED BY <2>1
<1> DEFINE r == u \ {One(u)}
<1>7. One(u) \in u /\ IsFiniteSet(r) /\ Cardinality(r) < Cardinality(u) /\ Cardinality(r) = Cardinality(u) - 1
  BY <1>4, <1>6, OneOfIt, OneLess, FS_RemoveElement
<1>8. Cardinality(r) \in Nat /\ Cardinality(u) \in Nat /\ r \notin F
  <2>1. Cardinality(r) \in Nat /\ Cardinality(u) \in Nat
    BY <1>4, <1>7, FS_CardinalityType
  <2> HIDE DEF F, r
  <2>2. QED BY <1>3, <1>7, <2>1
<1>9. c * Cardinality(r) <= k * SumOf(w, r)
  BY <1>4, <1>8
<1>10. SumOf(w, r) \in Nat /\ w[One(u)] \in Nat /\ c <= k * w[One(u)]
  <2>1. \A x \in r : w[x] \in Nat
    BY <1>4
  <2>2. QED BY <1>4, <1>7, <2>1, SumIsACount
<1>11. SumOf(w, u) = w[One(u)] + SumOf(w, r)
  BY <1>5, <1>6
<1> HIDE DEF F, r
<1>12. \A a \in Nat : \A b \in Nat : a = b + 1 => c * a = c * b + c
  OBVIOUS
<1>13. \A a \in Nat : \A b \in Nat : k * (a + b) = k * a + k * b
  OBVIOUS
<1>14. c * Cardinality(u) = c * Cardinality(r) + c
  BY <1>7, <1>8, <1>12
<1>15. k * SumOf(w, u) = k * w[One(u)] + k * SumOf(w, r)
  BY <1>10, <1>11, <1>13
<1>16. c * Cardinality(r) \in Int /\ k * SumOf(w, r) \in Int /\ k * w[One(u)] \in Int
  BY <1>8, <1>10
<1>17. QED BY ONLY <1>4, <1>9, <1>10, <1>14, <1>15, <1>16, c \in Nat

(* A few numbers have a largest one.                                        *)
LEMMA LargestNumber ==
    ASSUME NEW S \in SUBSET Nat, IsFiniteSet(S), S # {}
    PROVE  \E n \in S : \A m \in S : m <= n
<1> DEFINE F == {u \in SUBSET S : u # {} /\ ~\E n \in u : \A m \in u : m <= n}
<1>1. SUFFICES ASSUME F # {} PROVE FALSE
  OBVIOUS
<1>2. \A u \in F : IsFiniteSet(u)
  BY FS_Subset
<1>3. PICK u \in F : \A v \in F : Cardinality(u) <= Cardinality(v)
  <2> HIDE DEF F
  <2>1. PICK v \in F : TRUE
    BY <1>1
  <2>2. QED BY <1>2, <2>1, SmallestSet
<1>4. u \in SUBSET S /\ IsFiniteSet(u) /\ u # {} /\ ~\E n \in u : \A m \in u : m <= n
  BY <1>2
<1>5. PICK x \in u : TRUE
  BY <1>4
<1>6. IsFiniteSet(u \ {x}) /\ Cardinality(u \ {x}) < Cardinality(u) /\ Cardinality(u) \in Nat /\ Cardinality(u \ {x}) \in Nat
  BY <1>4, OneLess, FS_CardinalityType
<1>7. u \ {x} \notin F
  <2> HIDE DEF F
  <2>1. QED BY <1>3, <1>6
<1>8. u \ {x} # {} => \E n \in u \ {x} : \A m \in u \ {x} : m <= n
  BY <1>4, <1>7
<1> HIDE DEF F
<1>9. \A m \in u : m \in Nat
  BY <1>4
<1>10. CASE u \ {x} = {}
  BY <1>4, <1>9, <1>10
<1>11. CASE u \ {x} # {}
  <2>1. PICK n \in u \ {x} : \A m \in u \ {x} : m <= n
    BY <1>8, <1>11
  <2>2. CASE n <= x
    <3>1. \A m \in u : m <= x
      BY <1>9, <2>1, <2>2
    <3>2. QED BY <1>4, <3>1
  <2>3. CASE ~(n <= x)
    <3>1. \A m \in u : m <= n
      BY <1>9, <2>1, <2>3
    <3>2. QED BY <1>4, <3>1
  <2>4. QED BY <2>2, <2>3
<1>12. QED BY <1>10, <1>11

(* The values of a finite set's members are finitely many.                    *)
LEMMA ImageIsFinite ==
    ASSUME NEW S, IsFiniteSet(S), NEW f, DOMAIN f = S, f = [x \in S |-> f[x]]
    PROVE  IsFiniteSet({f[x] : x \in S})
<1> DEFINE T == {f[x] : x \in S}
<1>1. f \in Surjection(S, T)
  BY DEF Surjection
<1> HIDE DEF T
<1>2. IsFiniteSet(T)
  BY <1>1, FS_Surjection
<1>3. QED BY <1>2 DEF T

-----------------------------------------------------------------------------
(* The desk.  What is offered fits what is free (CallsHaveShares, PutsHaveCash) for every *)
(* account the runs could seen, so what is written of it does too.            *)
OfferKeys == {"calls", "puts", "rows", "ready", "held", "stubs", "note", "reports", "spot", "source", "hv"}
DeskTypes ==
    /\ side \in {"calls", "puts", "roll"} /\ week \in Nat /\ allowed \in Allowances
    /\ deskPhase \in {"offer", "write", "week", "rolled"}
    /\ shares \in [Underlyings -> [Holders -> Nat]] /\ calls \in [Underlyings -> [Holders -> Nat]]
    /\ puts \in [Underlyings -> [Holders -> Nat]] /\ purse \in [Holders -> Nat]
    /\ unread \in [calls : SUBSET Holders, puts : SUBSET Holders]
    /\ DOMAIN offer = OfferKeys /\ offer.puts \subseteq Underlyings /\ offer.ready \subseteq Quote
    /\ offer.calls \subseteq [name : Underlyings, account : Holders, lots : Nat]
    /\ room \in [free : UNION {[s -> Nat] : s \in SUBSET Holders}, total : Nat]
Closed == deskPhase # "write" => offer = NoOffer /\ DOMAIN room.free = {}
CallsHaveShares ==
    /\ \A c \in offer.calls : c.account \notin unread.calls => LOT * (calls[c.name][c.account] + c.lots) <= shares[c.name][c.account]
    /\ \A c, d \in offer.calls : c.name = d.name /\ c.account = d.account => c = d
PutsHaveCash ==
    /\ \A a \in DOMAIN room.free : a \notin unread.puts => Pledged(a) + room.free[a] <= purse[a]
    /\ side = "puts" /\ deskPhase = "write" /\ DOMAIN room.free = {} => Holders \subseteq unread.puts

LEMMA DeskFacts ==
    /\ LOT \in Nat /\ LOT > 0 /\ STRIKE_GAIN \in Nat /\ STRIKE_GAIN > 0 /\ InPuts \in Nat /\ InPuts > 0
    /\ Upside \in Nat /\ MinRatio \in Nat /\ PerPut \in Nat /\ EARNINGS_BLACKLIST_DAYS \in Nat
    /\ Reports \subseteq Nat /\ Realized \subseteq Nat
    /\ IsFiniteSet(Underlyings) /\ IsFiniteSet(Holders) /\ Picked \subseteq Underlyings
    /\ Allowances \subseteq SUBSET Holders /\ Spot \in [Underlyings -> Nat]
    /\ Books \subseteq [Underlyings -> [Holders -> Nat]] /\ Purses \subseteq [Holders -> Nat]
BY DeskAssumption

LEMMA ChainFacts ==
    /\ IsFiniteSet(CallMenu) /\ IsFiniteSet(PutMenu) /\ IsFiniteSet(RollMenu)
    /\ CallMenu \subseteq Quote /\ PutMenu \subseteq Quote /\ RollMenu \subseteq Quote
    /\ Legs \subseteq [strike : Nat \ {0}, expiry : Nat]
    /\ CallDays[1] \in Nat /\ CallDays[2] \in Nat /\ PutDays[1] \in Nat /\ PutDays[2] \in Nat
    /\ RollDays[1] \in Nat /\ RollDays[2] \in Nat /\ CallDays[2] <= RollDays[2]
<1>1. \A d \in Nat \X Nat : d[1] \in Nat /\ d[2] \in Nat
  OBVIOUS
<1>2. CallDays \in Nat \X Nat /\ PutDays \in Nat \X Nat /\ RollDays \in Nat \X Nat
  BY ChainAssumption
<1>3. \A menu \in {CallMenu, PutMenu, RollMenu} : IsFiniteSet(menu) /\ menu \subseteq Quote
  BY ChainAssumption
<1>4. QED BY <1>1, <1>2, <1>3, ChainAssumption

(* What an account's puts hold of its cash.                                  *)
LEMMA PledgedForm ==
    ASSUME NEW a \in Holders, puts \in [Underlyings -> [Holders -> Nat]]
    PROVE  Pledged(a) = SumOf([n \in Underlyings |-> puts[n][a]], Underlyings) /\ Pledged(a) \in Nat
<1> DEFINE w == [n \in Underlyings |-> puts[n][a]]
<1>1. Pledged(a) = SumOf(w, Underlyings)
  BY DEF Pledged, SumFunction, SumOf
<1>2. \A n \in Underlyings : w[n] \in Nat
  OBVIOUS
<1>3. SumOf(w, Underlyings) \in Nat
  BY <1>2, DeskFacts, SumIsACount
<1>4. QED BY <1>1, <1>3

(* What one put more, or less, does to it.                                    *)
LEMMA PledgedChanges ==
    ASSUME NEW n \in Underlyings, NEW a \in Holders, NEW k \in Nat,
           puts \in [Underlyings -> [Holders -> Nat]], puts' = [puts EXCEPT ![n][a] = k]
    PROVE  /\ puts' \in [Underlyings -> [Holders -> Nat]]
           /\ \A b \in Holders : Pledged(b)' = Pledged(b) + (IF b = a THEN k - puts[n][a] ELSE 0)
           /\ \A b \in Holders : Pledged(b) \in Nat /\ Pledged(b)' \in Nat
           /\ puts[n][a] <= Pledged(a)
<1>1. puts' \in [Underlyings -> [Holders -> Nat]]
  OBVIOUS
<1>2. SUFFICES ASSUME NEW b \in Holders
               PROVE  /\ Pledged(b)' = Pledged(b) + (IF b = a THEN k - puts[n][a] ELSE 0)
                      /\ Pledged(b) \in Nat /\ Pledged(b)' \in Nat /\ puts[n][a] <= Pledged(a)
  BY <1>1
<1> DEFINE w == [m \in Underlyings |-> puts[m][b]]
           v == [m \in Underlyings |-> puts'[m][b]]
<1>3. Pledged(b)' = SumOf(v, Underlyings) /\ Pledged(b)' \in Nat
  <2>1. Pledged(b)' = SumOf(v, Underlyings)
    BY DEF Pledged, SumFunction, SumOf
  <2>2. \A m \in Underlyings : v[m] \in Nat
    BY <1>1
  <2>3. QED BY <2>1, <2>2, DeskFacts, SumIsACount
<1>4. Pledged(b) = SumOf(w, Underlyings) /\ Pledged(b) \in Nat
  BY PledgedForm
<1>5. \A m \in Underlyings : w[m] \in Nat /\ v[m] \in Nat
  BY <1>1
<1>6. \A m \in Underlyings \ {n} : w[m] = v[m]
  OBVIOUS
<1>7. v[n] - w[n] = IF b = a THEN k - puts[n][a] ELSE 0
  <2>1. w[n] \in Nat /\ puts[n][a] \in Nat
    OBVIOUS
  <2>2. CASE b = a
    BY <2>2
  <2>3. CASE b # a
    BY <2>1, <2>3
  <2>4. QED BY <2>2, <2>3
<1>8. SumOf(v, Underlyings) = SumOf(w, Underlyings) + (v[n] - w[n])
  <2> HIDE DEF w, v
  <2>1. QED BY <1>5, <1>6, DeskFacts, SumChanges
<1>9. puts[n][a] <= Pledged(a)
  <2> DEFINE u == [m \in Underlyings |-> puts[m][a]]
  <2>1. Pledged(a) = SumOf(u, Underlyings)
    BY PledgedForm
  <2>2. \A m \in Underlyings : u[m] \in Nat
    OBVIOUS
  <2>3. u[n] = puts[n][a]
    OBVIOUS
  <2> HIDE DEF u
  <2>4. QED BY <2>1, <2>2, <2>3, DeskFacts, MemberOfSum
<1>10. QED BY <1>3, <1>4, <1>7, <1>8, <1>9

-----------------------------------------------------------------------------
(* What a chain tells, from either source: rows of the menu in the window,    *)
(* out of the money when the price is known.                                 *)
Tidied(q, r) == q.expiry = r.expiry /\ q.strike = r.strike /\ q.ask = r.ask
Word(menu) == [answering : SUBSET {"tradier", "yahoo"}, rows : SUBSET menu, quoted : BOOLEAN]
LEMMA ChainForm ==
    ASSUME NEW menu, IsFiniteSet(menu), menu \subseteq Quote, NEW word \in Word(menu),
           NEW days, NEW kind, NEW price, NEW c, c = fetch_chains(word, days, kind, price)
    PROVE  /\ IsFiniteSet(c.rows) /\ c.rows \subseteq Quote
           /\ \A q \in c.rows : q.expiry \in days[1]..days[2] /\ OutOfTheMoney(q, kind, c.spot)
           /\ \A q \in c.rows : \E r \in menu : Tidied(q, r)
<1> DEFINE S == InWindow(word.rows, days)
           K(spot) == {q \in S : OutOfTheMoney(q, kind, spot)}
           Told == /\ IsFiniteSet(c.rows) /\ c.rows \subseteq Quote
                   /\ \A q \in c.rows : q.expiry \in days[1]..days[2] /\ OutOfTheMoney(q, kind, c.spot)
                   /\ \A q \in c.rows : \E r \in menu : Tidied(q, r)
<1>1. S \subseteq menu /\ \A q \in S : q.expiry \in days[1]..days[2]
  BY DEF InWindow, Word
<1>2. ASSUME "tradier" \in word.answering
      PROVE  Told
  <2> DEFINE spot == IF word.quoted THEN price ELSE 0
  <2>1. c.rows = K(spot) /\ c.spot = spot
    BY <1>2 DEF fetch_chains, TradierChain
  <2> HIDE DEF spot
  <2>2. K(spot) \subseteq menu
    BY <1>1
  <2>3. IsFiniteSet(c.rows)
    BY <2>1, <2>2, FS_Subset
  <2>4. QED BY <1>1, <2>1, <2>2, <2>3 DEF Tidied
<1>3. ASSUME "tradier" \notin word.answering, "yahoo" \in word.answering
      PROVE  Told
  <2> DEFINE f == [q \in K(price) |-> [q EXCEPT !.delta = 0]]
  <2>1. c.rows = {f[q] : q \in K(price)} /\ c.spot = price
    BY <1>3 DEF fetch_chains, YFinanceChain
  <2>2. K(price) \subseteq menu /\ IsFiniteSet(K(price))
    <3>1. K(price) \subseteq menu
      BY <1>1
    <3> HIDE DEF K
    <3>2. QED BY <3>1, FS_Subset
  <2>3. IsFiniteSet(c.rows)
    <3>1. DOMAIN f = K(price) /\ f = [x \in K(price) |-> f[x]]
      OBVIOUS
    <3> HIDE DEF f, K
    <3>2. QED BY <2>1, <2>2, <3>1, ImageIsFinite
  <2>4. \A q \in K(price) : f[q] \in Quote /\ f[q].expiry = q.expiry /\ f[q].strike = q.strike /\ f[q].ask = q.ask
    BY <2>2 DEF Quote
  <2>5. \A q \in K(price) : OutOfTheMoney(q, kind, price) /\ q \in S /\ q \in menu
    BY <2>2
  <2>6. \A q \in K(price) : OutOfTheMoney(f[q], kind, price)
    BY <2>4, <2>5 DEF OutOfTheMoney
  <2> HIDE DEF f, K
  <2>7. QED BY <1>1, <2>1, <2>3, <2>4, <2>5, <2>6 DEF Tidied
<1>4. ASSUME "tradier" \notin word.answering, "yahoo" \notin word.answering
      PROVE  Told
  <2>1. c.rows = {}
    BY <1>4 DEF fetch_chains
  <2>2. QED BY <2>1, FS_EmptySet
<1>5. QED BY <1>2, <1>3, <1>4

LEMMA TidingsForm ==
    ASSUME NEW menu, NEW t \in Tidings(menu)
    PROVE  t.word \in Word(menu) /\ t.reports \in Nat /\ t.hv \in Nat
<1>1. Words(menu) \subseteq Word(menu)
  BY DEF Words, Word
<1>2. [answering |-> {"tradier", "yahoo"}, rows |-> menu, quoted |-> TRUE] \in Word(menu)
  BY DEF Word
<1>3. CASE week <= OddWeeks
  BY <1>1, <1>3, DeskFacts DEF Tidings
<1>4. CASE ~(week <= OddWeeks)
  <2> DEFINE calm == [word |-> [answering |-> {"tradier", "yahoo"}, rows |-> menu, quoted |-> TRUE], reports |-> 0, hv |-> 0]
  <2>1. t = calm
    BY <1>4 DEF Tidings
  <2>2. calm.word \in Word(menu) /\ calm.reports \in Nat /\ calm.hv \in Nat
    BY <1>2
  <2> HIDE DEF calm
  <2>3. QED BY <2>1, <2>2
<1>5. QED BY <1>3, <1>4

(* What an account may still write on a name: whole lots of what is free.     *)
LEMMA CallOffered ==
    ASSUME DeskTypes, NEW seen \in SUBSET Holders, NEW h \in eligible_holdings_per_account(seen)
    PROVE  /\ h = <<h[1], h[2]>> /\ h[1] \in Underlyings /\ h[2] \in Holders
           /\ Available(h[1], h[2], seen) \div LOT \in Nat
           /\ h[2] \in seen => LOT * (calls[h[1]][h[2]] + Available(h[1], h[2], seen) \div LOT) <= shares[h[1]][h[2]]
<1>1. h \in (Underlyings \ (Barred \cup Sweeps)) \X Writers /\ Available(h[1], h[2], seen) >= LOT
  BY DEF eligible_holdings_per_account
<1>2. Writers \subseteq Holders
  BY DeskFacts DEF DeskTypes, Writers
<1>3. h = <<h[1], h[2]>> /\ h[1] \in Underlyings /\ h[2] \in Holders
  <2>1. PICK n \in Underlyings \ (Barred \cup Sweeps), a \in Writers : h = <<n, a>>
    BY <1>1
  <2>2. QED BY <1>2, <2>1
<1> DEFINE s == shares[h[1]][h[2]]
           k == calls[h[1]][h[2]]
           v == Available(h[1], h[2], seen)
<1>4. s \in Nat /\ k \in Nat
  BY <1>3 DEF DeskTypes
<1>5. v = s - LOT * (IF h[2] \in seen THEN k ELSE 0)
  BY DEF Available
<1>6. v >= LOT
  BY <1>1
<1> HIDE DEF s, k, v
<1>7. LOT \in Nat /\ LOT > 0
  BY DeskFacts
<1>8. LOT * k \in Nat /\ LOT * 0 = 0
  BY <1>4, <1>7, CountProduct
<1>9. v \in Nat
  BY <1>4, <1>5, <1>6, <1>7, <1>8
<1>10. v \div LOT \in Nat /\ LOT * (v \div LOT) <= v
  BY <1>7, <1>9
<1>11. LOT * (k + v \div LOT) = LOT * k + LOT * (v \div LOT)
  <2>1. \A x \in Nat : LOT * (k + x) = LOT * k + LOT * x
    BY <1>4, <1>7
  <2>2. QED BY <1>10, <2>1
<1>12. h[2] \in seen => LOT * (k + v \div LOT) <= s
  <2>1. LOT * (v \div LOT) \in Nat
    BY <1>7, <1>10, CountProduct
  <2>2. QED BY <1>4, <1>5, <1>8, <1>9, <1>10, <1>11, <2>1
<1>13. QED BY <1>3, <1>10, <1>12 DEF s, k, v

LEMMA HeldForm ==
    ASSUME NEW held, NEW seen
    PROVE  resolve_eligible_holdings(held, seen) \subseteq held
BY DEF resolve_eligible_holdings

DeskSafe == DeskTypes /\ Closed /\ CallsHaveShares /\ PutsHaveCash /\ NothingIsNaked

LEMMA NoOfferForm == DOMAIN NoOffer = OfferKeys /\ NoOffer.calls = {} /\ NoOffer.puts = {} /\ NoOffer.ready = {} /\ NoOffer.rows = {} /\ NoOffer.note = "" /\ NoOffer.held = {}
BY DEF NoOffer, OfferKeys

LEMMA DeskStarts == DeskInit => DeskSafe
<1> SUFFICES ASSUME DeskInit PROVE DeskSafe
  OBVIOUS
<1>0. \A n \in Underlyings, a \in Holders : puts[n][a] = 0 /\ calls[n][a] = 0
  BY DEF DeskInit
<1> USE DEF DeskInit
<1>1. shares \in [Underlyings -> [Holders -> Nat]] /\ purse \in [Holders -> Nat]
  BY DeskFacts
<1>2. calls \in [Underlyings -> [Holders -> Nat]] /\ puts \in [Underlyings -> [Holders -> Nat]]
  OBVIOUS
<1>3. DOMAIN room.free = {} /\ room \in [free : UNION {[s -> Nat] : s \in SUBSET Holders}, total : Nat]
  <2>1. <<>> \in [{} -> Nat]
    OBVIOUS
  <2>2. QED BY <2>1
<1>4. DeskTypes
  BY <1>1, <1>2, <1>3, NoOfferForm DEF DeskTypes
<1>5. Closed /\ CallsHaveShares /\ PutsHaveCash
  BY <1>3, NoOfferForm DEF Closed, CallsHaveShares, PutsHaveCash
<1>6. \A n \in Underlyings, a \in Holders : LOT * calls[n][a] <= shares[n][a]
  <2>1. SUFFICES ASSUME NEW n \in Underlyings, NEW a \in Holders PROVE LOT * calls[n][a] <= shares[n][a]
    OBVIOUS
  <2>2. calls[n][a] = 0 /\ shares[n][a] \in Nat
    BY <1>1
  <2>3. LOT * 0 = 0
    BY DeskFacts
  <2>4. QED BY <2>2, <2>3
<1>7. \A a \in Holders : Pledged(a) <= purse[a]
  <2>1. SUFFICES ASSUME NEW a \in Holders PROVE Pledged(a) <= purse[a]
    OBVIOUS
  <2> DEFINE w == [n \in Underlyings |-> puts[n][a]]
  <2>2. Pledged(a) = SumOf(w, Underlyings) /\ Pledged(a) \in Nat
    BY <1>2, PledgedForm
  <2>3. \A n \in Underlyings : w[n] = 0
    BY <1>0
  <2> HIDE DEF w, DeskInit
  <2>4. \A n \in Underlyings : w[n] \in Int /\ w[n] = w[n] + w[n]
    <3>1. 0 = 0 + 0
      OBVIOUS
    <3>2. QED BY <2>3, <3>1
  <2>5. SumOf(w, Underlyings) = SumOf(w, Underlyings) + SumOf(w, Underlyings)
    BY <2>4, DeskFacts, SumsAddUp
  <2>6. purse[a] \in Nat
    BY <1>1
  <2>7. Pledged(a) = Pledged(a) + Pledged(a)
    BY <2>2, <2>5
  <2>8. \A x, y \in Nat : x = x + x => x <= y
    OBVIOUS
  <2> HIDE DEF DeskInit, w
  <2>9. Pledged(a) \in Nat
    BY <2>2
  <2>10. QED BY ONLY <2>6, <2>7, <2>8, <2>9
<1>8. QED BY <1>4, <1>5, <1>6, <1>7 DEF DeskSafe, NothingIsNaked

(* The week's calls are offered.                                            *)
LEMMA CallsAreOffered == ASSUME DeskSafe, run_cc_data_pipeline PROVE DeskSafe'
<1>0. DeskTypes /\ Closed /\ CallsHaveShares /\ PutsHaveCash /\ NothingIsNaked
  BY DEF DeskSafe
<1>1. PICK seen \in SUBSET Holders, t \in Tidings(CallMenu) :
        LET held == resolve_eligible_holdings(eligible_holdings_per_account(seen), seen)
            price == Max({Spot[h[1]] : h \in held} \cup {0})
            chain == fetch_chains(t.word, CallDays, "calls", price)
            rows == apply_earnings_filter(chain.rows, t.reports)
            names == drop_cheap_premium({h[1] : h \in held}, rows, t.hv)
        IN  /\ offer' = [NoOffer EXCEPT !.held = {h[1] : h \in held},
                            !.calls = {[name |-> h[1], account |-> h[2], lots |-> Available(h[1], h[2], seen) \div LOT] : h \in {g \in held : g[1] \in names}},
                            !.rows = FirstRows(rows), !.ready = rows, !.stubs = stub_income(t.word), !.reports = t.reports,
                            !.spot = chain.spot, !.source = chain.source, !.hv = t.hv]
            /\ unread' = [unread EXCEPT !.calls = @ \cup (Holders \ seen)]
  BY DEF run_cc_data_pipeline
<1> DEFINE held == resolve_eligible_holdings(eligible_holdings_per_account(seen), seen)
           price == Max({Spot[h[1]] : h \in held} \cup {0})
           chain == fetch_chains(t.word, CallDays, "calls", price)
           rows == apply_earnings_filter(chain.rows, t.reports)
           names == drop_cheap_premium({h[1] : h \in held}, rows, t.hv)
           Offered(h) == [name |-> h[1], account |-> h[2], lots |-> Available(h[1], h[2], seen) \div LOT]
<1>2. /\ offer.calls' = {Offered(h) : h \in {g \in held : g[1] \in names}}
      /\ offer.puts' = {} /\ offer.ready' = rows /\ DOMAIN offer' = OfferKeys
  <2>1. DOMAIN offer' = DOMAIN NoOffer
    BY <1>1
  <2>2. QED BY <1>1, <2>1, NoOfferForm DEF OfferKeys, NoOffer
<1>3. unread' = [unread EXCEPT !.calls = @ \cup (Holders \ seen)]
  BY <1>1
<1>4. /\ side = "calls" /\ deskPhase = "offer" /\ deskPhase' = "write"
      /\ UNCHANGED <<side, week, allowed, shares, calls, puts, purse, room, advice>>
  BY DEF run_cc_data_pipeline
<1>5. \A h \in held : /\ h = <<h[1], h[2]>> /\ Offered(h) \in [name : Underlyings, account : Holders, lots : Nat]
                      /\ h[2] \in seen => LOT * (calls[h[1]][h[2]] + Offered(h).lots) <= shares[h[1]][h[2]]
  BY <1>0, HeldForm, CallOffered
<1>6. rows \subseteq Quote
  <2>1. chain.rows \subseteq Quote
    <3>1. t.word \in Word(CallMenu) /\ IsFiniteSet(CallMenu) /\ CallMenu \subseteq Quote
      BY TidingsForm, ChainFacts
    <3>2. QED BY <3>1, ChainForm
  <2>2. QED BY <2>1 DEF apply_earnings_filter
<1> HIDE DEF held, rows, names, chain, price
<1>7. offer.calls' \subseteq [name : Underlyings, account : Holders, lots : Nat]
  BY <1>2, <1>5
<1>8. unread.puts' = unread.puts /\ unread.calls' = unread.calls \cup (Holders \ seen) /\ unread' \in [calls : SUBSET Holders, puts : SUBSET Holders]
  BY <1>0, <1>3 DEF DeskTypes
<1>9. DeskTypes'
  BY <1>0, <1>2, <1>4, <1>6, <1>7, <1>8 DEF DeskTypes
<1>10. Closed' /\ PutsHaveCash'
  <2>1. DOMAIN room.free = {}
    BY <1>0, <1>4 DEF Closed
  <2>2. QED BY <1>4, <2>1 DEF Closed, PutsHaveCash
<1>11. CallsHaveShares'
  <2>1. ASSUME NEW c \in offer.calls', c.account \notin unread.calls' PROVE LOT * (calls[c.name][c.account] + c.lots) <= shares[c.name][c.account]
    <3>1. PICK h \in held : c = Offered(h)
      BY <1>2, <2>1
    <3>2. h[2] \in seen
      BY <1>5, <1>8, <2>1, <3>1
    <3>3. QED BY <1>5, <3>1, <3>2
  <2>2. ASSUME NEW c \in offer.calls', NEW d \in offer.calls', c.name = d.name, c.account = d.account PROVE c = d
    <3>1. PICK h \in held : c = Offered(h)
      BY <1>2, <2>2
    <3>2. PICK g \in held : d = Offered(g)
      BY <1>2, <2>2
    <3>3. h[1] = g[1] /\ h[2] = g[2]
      BY <2>2, <3>1, <3>2
    <3>4. QED BY <3>1, <3>2, <3>3
  <2>3. QED BY <1>4, <2>1, <2>2 DEF CallsHaveShares
<1>12. NothingIsNaked'
  <2>1. \A a \in Holders : Pledged(a)' = Pledged(a)
    BY <1>4 DEF Pledged
  <2>2. QED BY <1>0, <1>4, <1>8, <2>1 DEF NothingIsNaked
<1>13. QED BY <1>9, <1>10, <1>11, <1>12 DEF DeskSafe

(* A call is written, of no more lots than are offered.                       *)
LEMMA CallIsWritten == ASSUME DeskSafe, WriteCall PROVE DeskSafe'
<1>0. DeskTypes /\ Closed /\ CallsHaveShares /\ PutsHaveCash /\ NothingIsNaked
  BY DEF DeskSafe
<1>a. PICK c \in offer.calls : \E k \in 1..c.lots :
        /\ calls' = [calls EXCEPT ![c.name][c.account] = @ + k]
        /\ offer' = [offer EXCEPT !.calls = @ \ {c}, !.held = @ \ {c.name}]
  BY DEF WriteCall
<1>1. PICK k \in 1..c.lots :
        /\ calls' = [calls EXCEPT ![c.name][c.account] = @ + k]
        /\ offer' = [offer EXCEPT !.calls = @ \ {c}, !.held = @ \ {c.name}]
  BY <1>a
<1>2. /\ side = "calls" /\ deskPhase = "write"
      /\ UNCHANGED <<side, deskPhase, week, allowed, shares, puts, purse, room, unread, advice>>
  BY DEF WriteCall
<1>3. c.name \in Underlyings /\ c.account \in Holders /\ c.lots \in Nat /\ k \in Nat /\ k <= c.lots
  BY <1>0, <1>1 DEF DeskTypes
<1>4. /\ calls' \in [Underlyings -> [Holders -> Nat]]
      /\ calls'[c.name][c.account] = calls[c.name][c.account] + k
      /\ \A n \in Underlyings, a \in Holders : n # c.name \/ a # c.account => calls'[n][a] = calls[n][a]
  BY <1>0, <1>1, <1>3 DEF DeskTypes
<1>5. offer.calls' = offer.calls \ {c} /\ offer.puts' = offer.puts /\ offer.ready' = offer.ready /\ DOMAIN offer' = OfferKeys
  <2>1. DOMAIN offer = OfferKeys
    BY <1>0 DEF DeskTypes
  <2>2. QED BY <1>1, <2>1 DEF OfferKeys
<1>6. DeskTypes'
  BY <1>0, <1>2, <1>4, <1>5 DEF DeskTypes
<1>7. Closed' /\ PutsHaveCash'
  <2>1. \A a \in DOMAIN room.free : Pledged(a)' = Pledged(a)
    BY <1>2 DEF Pledged
  <2>2. QED BY <1>0, <1>2, <2>1 DEF Closed, PutsHaveCash
<1>8. CallsHaveShares'
  <2>1. ASSUME NEW d \in offer.calls', d.account \notin unread.calls PROVE LOT * (calls'[d.name][d.account] + d.lots) <= shares[d.name][d.account]
    <3>1. d \in offer.calls /\ d # c /\ d.name \in Underlyings /\ d.account \in Holders
      BY <1>0, <1>5 DEF DeskTypes
    <3>2. d.name # c.name \/ d.account # c.account
      BY <1>0, <3>1 DEF CallsHaveShares
    <3>3. calls'[d.name][d.account] = calls[d.name][d.account]
      BY <1>4, <3>1, <3>2
    <3>4. QED BY <1>0, <2>1, <3>1, <3>3 DEF CallsHaveShares
  <2>2. QED BY <1>0, <1>2, <1>5, <2>1 DEF CallsHaveShares
<1>9. NothingIsNaked'
  <2>1. \A a \in Holders : Pledged(a)' = Pledged(a)
    BY <1>2 DEF Pledged
  <2>2. ASSUME NEW n \in Underlyings, NEW a \in Holders, a \notin unread.calls PROVE LOT * calls'[n][a] <= shares[n][a]
    <3>1. CASE n = c.name /\ a = c.account
      <4> DEFINE b == calls[n][a]
                 sh == shares[n][a]
                 l == c.lots
      <4>1. b \in Nat /\ sh \in Nat /\ l \in Nat
        BY <1>0, <1>3 DEF DeskTypes
      <4>2. LOT * (b + l) <= sh
        BY <1>0, <2>2, <3>1 DEF CallsHaveShares
      <4>3. calls'[n][a] = b + k
        BY <1>4, <3>1
      <4> HIDE DEF b, sh, l
      <4>4. k <= l
        BY <1>3 DEF l
      <4>5. \A x, y \in Nat : x <= y => LOT * x <= LOT * y
        BY DeskFacts
      <4>6. LOT * (b + k) <= LOT * (b + l) /\ LOT * (b + k) \in Nat /\ LOT * (b + l) \in Nat
        <5>1. b + k \in Nat /\ b + l \in Nat /\ b + k <= b + l
          BY <1>3, <4>1, <4>4
        <5>2. QED BY <4>5, <5>1, DeskFacts, CountProduct
      <4>7. QED BY <4>1, <4>2, <4>3, <4>6 DEF sh
    <3>2. CASE n # c.name \/ a # c.account
      BY <1>0, <1>4, <2>2, <3>2 DEF NothingIsNaked
    <3>3. QED BY <3>1, <3>2
  <2>3. QED BY <1>0, <1>2, <2>1, <2>2 DEF NothingIsNaked
<1>10. QED BY <1>6, <1>7, <1>8, <1>9 DEF DeskSafe

(* The cash free for puts: of an account that was seen, what its puts leave.  *)
LEMMA RoomForm ==
    ASSUME DeskTypes, NEW listed \in SUBSET Holders, NEW seen \in SUBSET Holders
    PROVE  /\ _account_room(listed, seen) \in [listed \cap Writers -> Nat]
           /\ \A a \in (listed \cap Writers) \cap seen : Pledged(a) <= purse[a] => _account_room(listed, seen)[a] = purse[a] - Pledged(a)
<1>1. ASSUME NEW a \in listed \cap Writers
      PROVE  /\ _account_room(listed, seen)[a] \in Nat
             /\ a \in seen /\ Pledged(a) <= purse[a] => _account_room(listed, seen)[a] = purse[a] - Pledged(a)
  <2> DEFINE p == Pledged(a)
             c == purse[a]
  <2>1. _account_room(listed, seen)[a] = AtLeast0(c - (IF a \in seen THEN p ELSE 0))
    BY DEF _account_room
  <2>2. p \in Nat /\ c \in Nat
    BY PledgedForm DEF DeskTypes
  <2> HIDE DEF p, c
  <2>3. QED BY <2>1, <2>2 DEF AtLeast0, p, c
<1>2. _account_room(listed, seen) = [a \in listed \cap Writers |-> _account_room(listed, seen)[a]]
  BY DEF _account_room
<1> DEFINE f == _account_room(listed, seen)
<1> HIDE DEF f
<1>3. \A a \in listed \cap Writers : f[a] \in Nat
  BY <1>1 DEF f
<1>4. f \in [listed \cap Writers -> Nat]
  BY <1>2, <1>3 DEF f
<1>5. QED BY <1>1, <1>4 DEF f

LEMMA PutBudgetForm ==
    ASSUME DeskTypes, NEW listed \in SUBSET Holders, NEW seen \in SUBSET Holders
    PROVE  _put_budget(listed, seen).free = _account_room(listed, seen) /\ _put_budget(listed, seen).total \in Nat
<1> DEFINE free == _account_room(listed, seen)
           held == [a \in seen |-> Pledged(a)]
           all == SumFunctionOnSet(purse, listed) - SumFunction(held)
<1>1. _put_budget(listed, seen) = [free |-> free, total |-> IF DOMAIN free # {} THEN SumFunction(free) ELSE AtLeast0(all)]
  BY DEF _put_budget
<1>2. IsFiniteSet(listed) /\ IsFiniteSet(seen)
  BY DeskFacts, FS_Subset
<1>3. free \in [listed \cap Writers -> Nat]
  BY RoomForm
<1> HIDE DEF free
<1>4. SumFunction(free) \in Nat
  <2>1. SumFunction(free) = SumOf(free, listed \cap Writers)
    BY <1>3 DEF SumFunction, SumOf
  <2>2. IsFiniteSet(listed \cap Writers)
    BY <1>2, FS_Subset
  <2>3. QED BY <1>3, <2>1, <2>2, SumIsACount
<1>5. SumFunctionOnSet(purse, listed) \in Int
  <2>1. \A a \in listed : purse[a] \in Int
    BY DEF DeskTypes
  <2>2. QED BY <1>2, <2>1, SumIsANumber DEF SumOf
<1>6. SumFunction(held) \in Int
  <2>1. SumFunction(held) = SumOf(held, seen)
    BY DEF SumFunction, SumOf
  <2>2. \A a \in seen : held[a] \in Int
    <3>1. \A a \in seen : Pledged(a) \in Nat
      BY PledgedForm DEF DeskTypes
    <3>2. QED BY <3>1
  <2> HIDE DEF held
  <2>3. QED BY <1>2, <2>1, <2>2, SumIsANumber
<1>7. AtLeast0(all) \in Nat
  <2>1. all \in Int
    BY <1>5, <1>6
  <2> HIDE DEF all
  <2>2. QED BY <2>1 DEF AtLeast0
<1>8. _put_budget(listed, seen).free = free /\ _put_budget(listed, seen).total = IF DOMAIN free # {} THEN SumFunction(free) ELSE AtLeast0(all)
  <2> HIDE DEF all, held
  <2>1. QED BY <1>1
<1> HIDE DEF all, held
<1>9. _put_budget(listed, seen).total \in Nat
  BY <1>4, <1>7, <1>8
<1>10. QED BY <1>8, <1>9 DEF free

(* What is offered of the names that could take a put.                       *)
LEMMA PutOfferForm ==
    ASSUME NEW names, NEW chain, chain.rows \subseteq Quote, NEW reports, NEW hv, NEW budget
    PROVE  LET found == PutOffer(names, chain, reports, hv, budget)
           IN  found.puts \subseteq names /\ found.ready \subseteq Quote
<1> DEFINE filled == fill_put_deltas(apply_earnings_filter(chain.rows, reports), chain.spot)
           dear == drop_cheap_premium(names, filled, hv)
           paying == IF YieldFloor = 0 THEN filled ELSE {q \in filled : Pays(q)}
           worth == IF paying = {} /\ YieldFloor > 0 THEN {} ELSE dear
<1>1. PutOffer(names, chain, reports, hv, budget).puts = worth
  BY DEF PutOffer
<1>2. PutOffer(names, chain, reports, hv, budget).ready = IF worth = {} THEN {} ELSE paying
  BY DEF PutOffer
<1>3. dear \subseteq names
  <2> HIDE DEF filled
  <2>1. QED BY DEF drop_cheap_premium
<1>4. filled \subseteq Quote
  <2>1. apply_earnings_filter(chain.rows, reports) \subseteq Quote
    BY DEF apply_earnings_filter
  <2>2. \A q \in Quote : [q EXCEPT !.delta = q.estimate] \in Quote
    BY DEF Quote
  <2>3. QED BY <2>1, <2>2 DEF fill_put_deltas
<1> HIDE DEF filled, dear
<1>5. QED BY <1>1, <1>2, <1>3, <1>4

LEMMA PutsAreOffered == ASSUME DeskSafe, run_csp_data_pipeline PROVE DeskSafe'
<1>0. DeskTypes /\ Closed /\ CallsHaveShares /\ PutsHaveCash /\ NothingIsNaked
  BY DEF DeskSafe
<1>1. PICK listed \in SUBSET Holders, seen \in SUBSET Holders, t \in Tidings(PutMenu) :
         LET budget == _put_budget(listed, seen)
             names == IF listed = {} THEN {} ELSE _put_candidates(budget, seen)
             chain == fetch_chains(t.word, PutDays, "puts", Max({Spot[n] : n \in Picked}))
             found == PutOffer(names, chain, t.reports, t.hv, budget)
         IN  /\ offer' = [NoOffer EXCEPT !.held = names, !.puts = found.puts, !.rows = found.rows, !.ready = found.ready,
                             !.note = found.note, !.reports = t.reports, !.spot = chain.spot, !.source = chain.source, !.hv = t.hv]
             /\ room' = [free |-> budget.free, total |-> (budget.total * InPuts) \div 100]
             /\ unread' = [unread EXCEPT !.puts = @ \cup (Holders \ seen) \cup (IF DOMAIN budget.free = {} THEN Holders ELSE {})]
  BY DEF run_csp_data_pipeline
<1> DEFINE budget == _put_budget(listed, seen)
           names == IF listed = {} THEN {} ELSE _put_candidates(budget, seen)
           chain == fetch_chains(t.word, PutDays, "puts", Max({Spot[n] : n \in Picked}))
           found == PutOffer(names, chain, t.reports, t.hv, budget)
           free == budget.free
<1>2. /\ side = "puts" /\ deskPhase = "offer" /\ deskPhase' = "write"
      /\ UNCHANGED <<side, week, allowed, shares, calls, puts, purse, advice>>
  BY DEF run_csp_data_pipeline
<1>3. offer.calls' = {} /\ offer.puts' = found.puts /\ offer.ready' = found.ready /\ DOMAIN offer' = OfferKeys
  <2>1. DOMAIN offer' = DOMAIN NoOffer
    BY <1>1
  <2>2. QED BY <1>1, <2>1, NoOfferForm DEF OfferKeys, NoOffer
<1>4. free \in [listed \cap Writers -> Nat] /\ budget.total \in Nat
      /\ \A a \in (listed \cap Writers) \cap seen : Pledged(a) <= purse[a] => free[a] = purse[a] - Pledged(a)
  <2>1. free = _account_room(listed, seen) /\ budget.total \in Nat
    <3>1. budget.free = _account_room(listed, seen) /\ budget.total \in Nat
      BY <1>0, PutBudgetForm
    <3>2. QED BY <3>1
  <2> HIDE DEF free, budget
  <2>2. QED BY <1>0, <2>1, RoomForm
<1>5. room' = [free |-> free, total |-> (budget.total * InPuts) \div 100]
  BY <1>1
<1>6. unread.calls' = unread.calls /\ unread.puts' = unread.puts \cup (Holders \ seen) \cup (IF DOMAIN free = {} THEN Holders ELSE {})
      /\ unread' \in [calls : SUBSET Holders, puts : SUBSET Holders]
  BY <1>0, <1>1 DEF DeskTypes
<1>7. found.puts \subseteq names /\ found.ready \subseteq Quote
  <2>1. t.word \in Word(PutMenu) /\ IsFiniteSet(PutMenu) /\ PutMenu \subseteq Quote
    BY TidingsForm, ChainFacts
  <2>2. chain.rows \subseteq Quote
    BY <2>1, ChainForm
  <2> HIDE DEF chain, names, budget
  <2>3. QED BY <2>2, PutOfferForm
<1>8. names \subseteq Underlyings
  <2> HIDE DEF budget
  <2>1. QED BY DeskFacts DEF _put_candidates
<1> HIDE DEF budget, names, chain, found, free
<1>9. (budget.total * InPuts) \div 100 \in Nat
  <2>1. budget.total * InPuts \in Nat
    BY <1>4, DeskFacts, CountProduct
  <2>2. QED BY <2>1
<1>10. DeskTypes'
  <2>1. room' \in [free : UNION {[s -> Nat] : s \in SUBSET Holders}, total : Nat]
    <3>1. listed \cap Writers \in SUBSET Holders
      OBVIOUS
    <3>2. QED BY <1>4, <1>5, <1>9, <3>1
  <2>2. QED BY <1>0, <1>2, <1>3, <1>6, <1>7, <1>8, <2>1 DEF DeskTypes
<1>11. Closed' /\ CallsHaveShares'
  BY <1>2, <1>3 DEF Closed, CallsHaveShares
<1>12. \A a \in Holders : Pledged(a)' = Pledged(a)
  BY <1>2 DEF Pledged
<1>13. NothingIsNaked'
  BY <1>0, <1>2, <1>6, <1>12 DEF NothingIsNaked
<1>14. PutsHaveCash'
  <2>1. room.free' = free
    BY <1>5
  <2>2. ASSUME NEW a \in DOMAIN free, a \notin unread.puts' PROVE Pledged(a) + free[a] <= purse[a]
    <3>1. a \in (listed \cap Writers) \cap seen /\ a \in Holders /\ a \notin unread.puts
      BY <1>4, <1>6, <2>2
    <3>2. Pledged(a) <= purse[a] /\ Pledged(a) \in Nat /\ purse[a] \in Nat
      BY <1>0, <3>1, PledgedForm DEF NothingIsNaked, DeskTypes
    <3>3. free[a] = purse[a] - Pledged(a)
      BY <1>4, <3>1, <3>2
    <3>4. QED BY <3>2, <3>3
  <2>3. \A a \in DOMAIN free : a \in Holders
    BY <1>4
  <2>4. DOMAIN free = {} => Holders \subseteq unread.puts'
    BY <1>6
  <2>5. QED BY <1>2, <1>12, <2>1, <2>2, <2>3, <2>4 DEF PutsHaveCash
<1>15. QED BY <1>10, <1>11, <1>13, <1>14 DEF DeskSafe

(* A put is written, on cash that is free.                                   *)
LEMMA PutIsWritten == ASSUME DeskSafe, WritePut PROVE DeskSafe'
<1>0. DeskTypes /\ Closed /\ CallsHaveShares /\ PutsHaveCash /\ NothingIsNaked
  BY DEF DeskSafe
<1>1. PICK n \in offer.puts, q \in {r \in offer.ready : InBand(r)}, a \in IF DOMAIN room.free = {} THEN Holders ELSE DOMAIN room.free :
         /\ q.strike * LOT <= room.total /\ (a \in DOMAIN room.free => q.strike * LOT <= room.free[a])
         /\ puts' = [puts EXCEPT ![n][a] = @ + q.strike * LOT]
         /\ room' = [free |-> [b \in DOMAIN room.free |-> room.free[b] - (IF b = a THEN q.strike * LOT ELSE 0)], total |-> room.total - q.strike * LOT]
         /\ offer' = [offer EXCEPT !.puts = @ \ {n}]
  BY DEF WritePut
<1>2. /\ side = "puts" /\ deskPhase = "write"
      /\ UNCHANGED <<side, deskPhase, week, allowed, shares, calls, purse, unread, advice>>
  BY DEF WritePut
<1> DEFINE cost == q.strike * LOT
           open == DOMAIN room.free
<1>3. cost \in Nat
  <2>1. q.strike \in Nat
    BY <1>0 DEF DeskTypes, Quote
  <2>2. QED BY <2>1, DeskFacts, CountProduct
<1>4. n \in Underlyings /\ a \in Holders /\ open \subseteq Holders /\ room.total \in Nat /\ \A b \in open : room.free[b] \in Nat
  <2>1. open \subseteq Holders /\ room.total \in Nat /\ \A b \in open : room.free[b] \in Nat
    BY <1>0 DEF DeskTypes
  <2>2. QED BY <1>0, <1>1, <2>1 DEF DeskTypes
<1>5. /\ cost <= room.total /\ (a \in open => cost <= room.free[a])
      /\ puts' = [puts EXCEPT ![n][a] = puts[n][a] + cost]
      /\ room' = [free |-> [b \in open |-> room.free[b] - (IF b = a THEN cost ELSE 0)], total |-> room.total - cost]
      /\ offer.puts' = offer.puts \ {n} /\ offer.calls' = offer.calls /\ offer.ready' = offer.ready /\ DOMAIN offer' = OfferKeys
  <2>1. DOMAIN offer = OfferKeys
    BY <1>0 DEF DeskTypes
  <2>2. QED BY <1>1, <2>1 DEF OfferKeys
<1> HIDE DEF cost
<1>6. puts[n][a] \in Nat /\ puts[n][a] + cost \in Nat
  BY <1>0, <1>3, <1>4 DEF DeskTypes
<1>7. /\ puts' \in [Underlyings -> [Holders -> Nat]]
      /\ \A b \in Holders : Pledged(b)' = Pledged(b) + (IF b = a THEN cost ELSE 0)
      /\ \A b \in Holders : Pledged(b) \in Nat
  <2>1. puts \in [Underlyings -> [Holders -> Nat]]
    BY <1>0 DEF DeskTypes
  <2>2. (puts[n][a] + cost) - puts[n][a] = cost
    BY <1>3, <1>6
  <2> DEFINE k == puts[n][a] + cost
  <2>3. k \in Nat /\ puts' = [puts EXCEPT ![n][a] = k] /\ k - puts[n][a] = cost
    BY <1>5, <1>6, <2>2
  <2> HIDE DEF k
  <2>4. /\ puts' \in [Underlyings -> [Holders -> Nat]]
        /\ \A b \in Holders : Pledged(b)' = Pledged(b) + (IF b = a THEN k - puts[n][a] ELSE 0)
        /\ \A b \in Holders : Pledged(b) \in Nat
    BY <1>4, <2>1, <2>3, PledgedChanges
  <2>5. QED BY <2>3, <2>4
<1>8. DOMAIN room.free' = open /\ \A b \in open : room.free'[b] = room.free[b] - (IF b = a THEN cost ELSE 0) /\ room.free'[b] \in Nat
  <2>1. room.free' = [b \in open |-> room.free[b] - (IF b = a THEN cost ELSE 0)]
    BY <1>5
  <2> HIDE DEF open
  <2>2. QED BY <1>3, <1>4, <1>5, <2>1
<1>9. room' \in [free : UNION {[s -> Nat] : s \in SUBSET Holders}, total : Nat]
  <2>1. room' = [free |-> room.free', total |-> room.total - cost]
    BY <1>5
  <2>2. room.free' = [b \in open |-> room.free'[b]]
    BY <1>5
  <2>3. room.free' \in [open -> Nat]
    BY <1>8, <2>2
  <2>4. room.total - cost \in Nat
    BY <1>3, <1>4, <1>5
  <2> HIDE DEF open
  <2>5. QED BY <1>4, <2>1, <2>3, <2>4
<1>10. DeskTypes'
  BY <1>0, <1>2, <1>5, <1>7, <1>9 DEF DeskTypes
<1>11. Closed' /\ CallsHaveShares'
  BY <1>0, <1>2, <1>5 DEF Closed, CallsHaveShares
<1>12. \A b \in Holders : purse[b] \in Nat
  BY <1>0 DEF DeskTypes
<1>13. PutsHaveCash'
  <2>1. ASSUME NEW b \in open, b \notin unread.puts PROVE Pledged(b)' + room.free'[b] <= purse[b]
    <3>1. Pledged(b) + room.free[b] <= purse[b]
      BY <1>0, <2>1 DEF PutsHaveCash
    <3>2. b \in Holders
      BY <1>4
    <3>3. QED BY <1>3, <1>4, <1>7, <1>8, <1>12, <3>1, <3>2
  <2>2. open = {} => Holders \subseteq unread.puts
    BY <1>0, <1>2 DEF PutsHaveCash
  <2> HIDE DEF open
  <2>3. QED BY <1>2, <1>8, <2>1, <2>2 DEF PutsHaveCash
<1>14. NothingIsNaked'
  <2>1. ASSUME NEW b \in Holders, b \notin unread.puts PROVE Pledged(b)' <= purse[b]
    <3>1. CASE b = a
      <4>1. a \in open
        BY <1>0, <1>1, <1>2, <2>1 DEF PutsHaveCash
      <4>2. Pledged(b) + room.free[b] <= purse[b]
        BY <1>0, <2>1, <3>1, <4>1 DEF PutsHaveCash
      <4>3. QED BY <1>3, <1>4, <1>5, <1>7, <1>12, <3>1, <4>1, <4>2
    <3>2. CASE b # a
      <4>1. Pledged(b) <= purse[b]
        BY <1>0, <2>1 DEF NothingIsNaked
      <4>2. Pledged(b)' = Pledged(b) + 0 /\ Pledged(b) \in Nat
        BY <1>7, <3>2
      <4>3. QED BY <1>12, <4>1, <4>2
    <3>3. QED BY <3>1, <3>2
  <2>2. QED BY <1>0, <1>2, <2>1 DEF NothingIsNaked
<1>15. QED BY <1>10, <1>11, <1>13, <1>14 DEF DeskSafe

(* What is not open to be written is nothing.                                *)
LEMMA ClosedForm ==
    ASSUME DeskSafe, deskPhase # "write"
    PROVE  offer.calls = {} /\ offer.puts = {} /\ DOMAIN room.free = {}
BY NoOfferForm DEF DeskSafe, Closed

(* A step of the week itself: the offers stay closed.                        *)
LEMMA WeekKeeps ==
    ASSUME DeskSafe, DeskTypes', NothingIsNaked', deskPhase # "write", deskPhase' # "write", UNCHANGED <<side, offer, room, unread>>
    PROVE  DeskSafe'
<1>1. offer.calls = {} /\ DOMAIN room.free = {} /\ Closed
  BY ClosedForm DEF DeskSafe
<1>2. Closed' /\ CallsHaveShares' /\ PutsHaveCash'
  BY <1>1 DEF Closed, CallsHaveShares, PutsHaveCash
<1>3. QED BY <1>2 DEF DeskSafe

LEMMA OffersClose == ASSUME DeskSafe, OffersAreClosed PROVE DeskSafe'
<1>0. DeskTypes /\ NothingIsNaked
  BY DEF DeskSafe
<1>1. /\ deskPhase' = "week" /\ offer' = NoOffer /\ room' = [free |-> <<>>, total |-> 0]
      /\ UNCHANGED <<side, week, allowed, shares, calls, puts, purse, unread, advice>>
  BY DEF OffersAreClosed
<1>2. DOMAIN room.free' = {} /\ room' \in [free : UNION {[s -> Nat] : s \in SUBSET Holders}, total : Nat]
  <2>1. <<>> \in [{} -> Nat]
    OBVIOUS
  <2>2. QED BY <1>1, <2>1
<1>3. offer.calls' = {} /\ offer.puts' = {} /\ offer.ready' = {} /\ DOMAIN offer' = OfferKeys
  BY <1>1, NoOfferForm
<1>4. DeskTypes'
  BY <1>0, <1>1, <1>2, <1>3 DEF DeskTypes
<1>5. Closed' /\ CallsHaveShares' /\ PutsHaveCash'
  BY <1>1, <1>2, <1>3 DEF Closed, CallsHaveShares, PutsHaveCash
<1>6. NothingIsNaked'
  <2>1. \A a \in Holders : Pledged(a)' = Pledged(a)
    BY <1>1 DEF Pledged
  <2>2. QED BY <1>0, <1>1, <2>1 DEF NothingIsNaked
<1>7. QED BY <1>4, <1>5, <1>6 DEF DeskSafe

(* A call that ends gives back at least the lot it took.                      *)
LEMMA CallsEnd == ASSUME DeskSafe, NEW n \in Underlyings, NEW a \in Holders, CallEnds(n, a) PROVE DeskSafe'
<1>0. DeskTypes /\ NothingIsNaked
  BY DEF DeskSafe
<1>1. PICK called \in {0, LOT} : shares' = [shares EXCEPT ![n][a] = AtLeast0(@ - called)]
  BY DEF CallEnds
<1>2. /\ deskPhase = "week" /\ calls[n][a] > 0 /\ calls' = [calls EXCEPT ![n][a] = @ - 1]
      /\ UNCHANGED <<side, deskPhase, week, allowed, puts, purse, offer, room, unread, advice>>
  BY DEF CallEnds
<1> DEFINE k == calls[n][a]
           s == shares[n][a]
<1>3. k \in Nat /\ s \in Nat /\ k > 0 /\ k - 1 \in Nat /\ AtLeast0(s - called) \in Nat
  <2>1. k \in Nat /\ s \in Nat /\ k > 0
    BY <1>0, <1>2 DEF DeskTypes
  <2> HIDE DEF k, s
  <2>2. QED BY <2>1, DeskFacts DEF AtLeast0
<1>4. /\ calls' \in [Underlyings -> [Holders -> Nat]] /\ shares' \in [Underlyings -> [Holders -> Nat]]
      /\ calls'[n][a] = k - 1 /\ shares'[n][a] = AtLeast0(s - called)
      /\ \A m \in Underlyings, b \in Holders : m # n \/ b # a => calls'[m][b] = calls[m][b] /\ shares'[m][b] = shares[m][b]
  <2>1. calls \in [Underlyings -> [Holders -> Nat]] /\ shares \in [Underlyings -> [Holders -> Nat]]
    BY <1>0 DEF DeskTypes
  <2>2. calls' = [calls EXCEPT ![n][a] = k - 1] /\ shares' = [shares EXCEPT ![n][a] = AtLeast0(s - called)]
    BY <1>1, <1>2
  <2> HIDE DEF k, s
  <2>3. QED BY <1>3, <2>1, <2>2
<1>5. DeskTypes'
  BY <1>0, <1>2, <1>4 DEF DeskTypes
<1>6. NothingIsNaked'
  <2>1. \A b \in Holders : Pledged(b)' = Pledged(b)
    BY <1>2 DEF Pledged
  <2>2. ASSUME NEW m \in Underlyings, NEW b \in Holders, b \notin unread.calls PROVE LOT * calls'[m][b] <= shares'[m][b]
    <3>1. LOT * calls[m][b] <= shares[m][b]
      BY <1>0, <2>2 DEF NothingIsNaked
    <3>2. CASE m = n /\ b = a
      <4>1. LOT * k <= s
        BY <3>1, <3>2
      <4>2. LOT * (k - 1) = LOT * k - LOT
        <5>1. \A x \in Nat : LOT * (x - 1) = LOT * x - LOT
          BY DeskFacts
        <5> HIDE DEF k
        <5>2. QED BY <1>3, <5>1
      <4>3. LOT * k \in Nat
        BY <1>3, DeskFacts, CountProduct
      <4> HIDE DEF k, s
      <4>4. LOT * (k - 1) <= AtLeast0(s - called)
        BY <1>3, <4>1, <4>2, <4>3, DeskFacts DEF AtLeast0
      <4>5. QED BY <1>4, <3>2, <4>4
    <3>3. CASE m # n \/ b # a
      BY <1>4, <3>1, <3>3
    <3>4. QED BY <3>2, <3>3
  <2>3. QED BY <1>0, <1>2, <2>1, <2>2 DEF NothingIsNaked
<1>7. QED BY <1>2, <1>5, <1>6, WeekKeeps

(* A put that ends frees the cash it secured, or has spent it.                *)
LEMMA PutsEnd == ASSUME DeskSafe, NEW n \in Underlyings, NEW a \in Holders, PutEnds(n, a) PROVE DeskSafe'
<1>0. DeskTypes /\ NothingIsNaked
  BY DEF DeskSafe
<1> DEFINE p == puts[n][a]
           c == purse[a]
<1>1. \/ UNCHANGED <<shares, purse>>
      \/ shares' = [shares EXCEPT ![n][a] = @ + LOT] /\ purse' = [purse EXCEPT ![a] = AtLeast0(c - p)]
  BY DEF PutEnds
<1>2. /\ deskPhase = "week" /\ puts' = [puts EXCEPT ![n][a] = 0]
      /\ UNCHANGED <<side, deskPhase, week, allowed, calls, offer, room, unread, advice>>
  BY DEF PutEnds
<1>3. p \in Nat /\ c \in Nat /\ AtLeast0(c - p) \in Nat /\ shares[n][a] + LOT \in Nat /\ shares[n][a] \in Nat
  <2>1. p \in Nat /\ c \in Nat /\ shares[n][a] \in Nat
    BY <1>0 DEF DeskTypes
  <2> HIDE DEF p, c
  <2>2. QED BY <2>1, DeskFacts DEF AtLeast0
<1>4. /\ puts' \in [Underlyings -> [Holders -> Nat]]
      /\ \A b \in Holders : Pledged(b)' = Pledged(b) + (IF b = a THEN 0 - p ELSE 0)
      /\ \A b \in Holders : Pledged(b) \in Nat /\ Pledged(b)' \in Nat
  <2>1. puts \in [Underlyings -> [Holders -> Nat]] /\ 0 \in Nat
    BY <1>0 DEF DeskTypes
  <2>2. QED BY <1>2, <2>1, PledgedChanges
<1>5. /\ shares' \in [Underlyings -> [Holders -> Nat]]
      /\ \A m \in Underlyings, b \in Holders : shares[m][b] \in Nat /\ shares'[m][b] \in Nat /\ shares[m][b] <= shares'[m][b]
  <2>1. shares \in [Underlyings -> [Holders -> Nat]]
    BY <1>0 DEF DeskTypes
  <2>2. CASE UNCHANGED <<shares, purse>>
    BY <2>1, <2>2
  <2>3. CASE shares' = [shares EXCEPT ![n][a] = @ + LOT]
    <3>1. shares' \in [Underlyings -> [Holders -> Nat]]
      BY <1>3, <2>1, <2>3
    <3>2. shares'[n][a] = shares[n][a] + LOT
      BY <2>1, <2>3
    <3>3. \A m \in Underlyings, b \in Holders : m # n \/ b # a => shares'[m][b] = shares[m][b]
      BY <2>1, <2>3
    <3>4. ASSUME NEW m \in Underlyings, NEW b \in Holders PROVE shares[m][b] <= shares'[m][b] /\ shares[m][b] \in Nat /\ shares'[m][b] \in Nat
      BY <1>3, <2>1, <3>1, <3>2, <3>3, DeskFacts
    <3>5. QED BY <3>1, <3>4
  <2>4. QED BY <1>1, <2>2, <2>3
<1>6. purse' \in [Holders -> Nat] /\ \A b \in Holders : purse[b] \in Nat /\ purse'[b] = (IF b = a /\ purse' # purse THEN AtLeast0(c - p) ELSE purse[b])
  <2>1. purse \in [Holders -> Nat]
    BY <1>0 DEF DeskTypes
  <2> HIDE DEF p
  <2>2. QED BY <1>1, <1>3, <2>1
<1>7. DeskTypes'
  BY <1>0, <1>2, <1>4, <1>5, <1>6 DEF DeskTypes
<1>8. NothingIsNaked'
  <2>1. ASSUME NEW b \in Holders, b \notin unread.puts PROVE Pledged(b)' <= purse'[b]
    <3>1. Pledged(b) <= purse[b] /\ Pledged(b) \in Nat /\ Pledged(b)' \in Nat /\ purse[b] \in Nat
      BY <1>0, <1>4, <1>6, <2>1 DEF NothingIsNaked
    <3>2. CASE b = a
      <4>1. Pledged(b)' = Pledged(b) + (0 - p)
        BY <1>4, <3>2
      <4>2. purse'[b] = purse[b] \/ purse'[b] = AtLeast0(purse[b] - p)
        BY <1>6, <3>2
      <4> HIDE DEF p
      <4>3. QED BY <1>3, <3>1, <4>1, <4>2 DEF AtLeast0
    <3>3. CASE b # a
      <4>1. Pledged(b)' = Pledged(b) + 0 /\ purse'[b] = purse[b]
        BY <1>4, <1>6, <3>3
      <4>2. QED BY <3>1, <4>1
    <3>4. QED BY <3>2, <3>3
  <2>2. ASSUME NEW m \in Underlyings, NEW b \in Holders, b \notin unread.calls PROVE LOT * calls[m][b] <= shares'[m][b]
    <3>1. LOT * calls[m][b] <= shares[m][b]
      BY <1>0, <2>2 DEF NothingIsNaked
    <3>2. calls[m][b] \in Nat
      BY <1>0 DEF DeskTypes
    <3>3. LOT * calls[m][b] \in Nat
      BY <3>2, DeskFacts, CountProduct
    <3>4. QED BY <1>5, <3>1, <3>3
  <2>3. QED BY <1>0, <1>2, <2>1, <2>2 DEF NothingIsNaked
<1>9. QED BY <1>2, <1>7, <1>8, WeekKeeps

LEMMA NothingMoves ==
    ASSUME DeskSafe, DeskTypes', deskPhase # "write", deskPhase' # "write", UNCHANGED <<side, offer, room, unread, shares, calls, puts, purse>>
    PROVE  DeskSafe'
<1>1. \A a \in Holders : Pledged(a)' = Pledged(a)
  BY DEF Pledged
<1>2. NothingIsNaked'
  BY <1>1 DEF NothingIsNaked, DeskSafe
<1>3. QED BY <1>2, WeekKeeps

LEMMA WeeksPass == ASSUME DeskSafe, NextWeek PROVE DeskSafe'
<1>1. DeskTypes'
  BY DEF DeskSafe, DeskTypes, NextWeek
<1>2. QED BY <1>1, NothingMoves DEF NextWeek

LEMMA RollsAreNamed == ASSUME DeskSafe, roll_suggestion PROVE DeskSafe'
<1>1. /\ side = "roll" /\ deskPhase = "offer" /\ deskPhase' = "rolled"
      /\ UNCHANGED <<side, week, allowed, shares, calls, puts, purse, offer, room, unread>>
  BY DEF roll_suggestion
<1>2. DeskTypes'
  BY <1>1 DEF DeskSafe, DeskTypes
<1>3. QED BY <1>1, <1>2, NothingMoves

LEMMA DeskRests == ASSUME DeskSafe, UNCHANGED deskVars PROVE DeskSafe'
<1>1. UNCHANGED <<side, deskPhase, week, allowed, shares, calls, puts, purse, offer, room, unread, advice>>
  BY DEF deskVars
<1>2. \A a \in Holders : Pledged(a)' = Pledged(a)
  BY <1>1 DEF Pledged
<1>3. DeskTypes' /\ Closed' /\ CallsHaveShares'
  BY <1>1 DEF DeskSafe, DeskTypes, Closed, CallsHaveShares
<1>4. PutsHaveCash'
  <2>1. DOMAIN room.free \subseteq Holders
    BY DEF DeskSafe, DeskTypes
  <2>2. QED BY <1>1, <1>2, <2>1 DEF DeskSafe, PutsHaveCash
<1>5. NothingIsNaked'
  BY <1>1, <1>2 DEF DeskSafe, NothingIsNaked
<1>6. QED BY <1>3, <1>4, <1>5 DEF DeskSafe

LEMMA DeskStaysSafe == DeskSafe /\ (DeskNext \/ UNCHANGED deskVars) => DeskSafe'
BY CallsAreOffered, CallIsWritten, PutsAreOffered, PutIsWritten, OffersClose, CallsEnd, PutsEnd, WeeksPass, RollsAreNamed, DeskRests DEF DeskNext

-----------------------------------------------------------------------------
(* What is told of an offer.                                                *)
Clear(q, reports) ==
    LET apart == IF q.expiry > reports THEN q.expiry - reports ELSE reports - q.expiry
    IN  reports # 0 => apart > EARNINGS_BLACKLIST_DAYS
LEMMA FilterForm ==
    ASSUME NEW rows, rows \subseteq Quote, NEW reports \in Nat, NEW q \in apply_earnings_filter(rows, reports)
    PROVE  q \in rows /\ q \in Quote /\ Clear(q, reports)
<1>1. q \in rows /\ q \in Quote /\ q.expiry \in Nat
  BY DEF apply_earnings_filter, Quote
<1>2. reports = 0 \/ q.expiry < reports - EARNINGS_BLACKLIST_DAYS \/ q.expiry > reports + EARNINGS_BLACKLIST_DAYS
  BY DEF apply_earnings_filter
<1>3. QED BY <1>1, <1>2, DeskFacts DEF Clear

(* Premium is held to be cheap on the evidence of some row.                   *)
LEMMA CheapForm ==
    ASSUME NEW names, NEW rows, rows \subseteq Quote, IsFiniteSet(rows), NEW hv \in Nat,
           drop_cheap_premium(names, rows, hv) # names
    PROVE  \E q \in rows : 0 < q.iv /\ 100 * q.iv < MinRatio * hv
<1> DEFINE rated == {q \in rows : q.iv > 0}
           w == [q \in rated |-> q.iv]
           m == Cardinality(rated)
           c == MinRatio * hv
<1>1. ~(100 * SumFunction(w) >= MinRatio * (hv * m))
  BY DEF drop_cheap_premium, compute_iv_hv_regime
<1>2. SumFunction(w) = SumOf(w, rated)
  BY DEF SumFunction, SumOf
<1>3. rated \subseteq rows /\ IsFiniteSet(rated) /\ \A q \in rated : w[q] \in Nat /\ w[q] = q.iv /\ 0 < q.iv
  <2>1. \A q \in rows : q.iv \in Nat
    BY DEF Quote
  <2>2. rated \subseteq rows /\ \A q \in rated : w[q] \in Nat /\ w[q] = q.iv /\ 0 < q.iv
    BY <2>1
  <2> HIDE DEF rated
  <2>3. QED BY <2>2, FS_Subset
<1>4. SUFFICES ASSUME \A q \in rated : ~(100 * q.iv < c) PROVE FALSE
  BY <1>3
<1>5. c \in Nat /\ m \in Nat
  BY <1>3, DeskFacts, CountProduct, FS_CardinalityType
<1> HIDE DEF rated, w
<1>6. \A q \in rated : w[q] \in Nat /\ c <= 100 * w[q]
  <2> HIDE DEF c
  <2>1. SUFFICES ASSUME NEW q \in rated PROVE w[q] \in Nat /\ c <= 100 * w[q]
    OBVIOUS
  <2>2. w[q] \in Nat /\ ~(100 * w[q] < c)
    BY <1>3, <1>4
  <2>3. QED BY <1>5, <2>2
<1>7. c * m <= 100 * SumOf(w, rated)
  <2> HIDE DEF c
  <2>1. 100 \in Nat
    OBVIOUS
  <2>2. QED BY <1>3, <1>5, <1>6, <2>1, SumAtLeast
<1>8. SumOf(w, rated) \in Nat
  BY <1>3, SumIsACount
<1>9. c * m = MinRatio * (hv * m)
  <2> HIDE DEF m
  <2>1. \A x, y, z \in Nat : (x * y) * z = x * (y * z)
    OBVIOUS
  <2>2. QED BY <1>5, <2>1, DeskFacts
<1>10. MinRatio * (hv * m) \in Nat
  <2> HIDE DEF m
  <2>1. QED BY <1>5, DeskFacts, CountProduct
<1> HIDE DEF m, c
<1>11. QED BY <1>1, <1>2, <1>7, <1>8, <1>9, <1>10

RowsAreTold == RowsKeepTheirDays /\ (offer.rows # {} => offer.note = "")

LEMMA CallsAreTold == ASSUME DeskSafe, run_cc_data_pipeline PROVE RowsAreTold' /\ HeldBackOnEvidence'
<1>1. PICK seen \in SUBSET Holders, t \in Tidings(CallMenu) :
        LET held == resolve_eligible_holdings(eligible_holdings_per_account(seen), seen)
            price == Max({Spot[h[1]] : h \in held} \cup {0})
            chain == fetch_chains(t.word, CallDays, "calls", price)
            rows == apply_earnings_filter(chain.rows, t.reports)
            names == drop_cheap_premium({h[1] : h \in held}, rows, t.hv)
        IN  /\ offer' = [NoOffer EXCEPT !.held = {h[1] : h \in held},
                            !.calls = {[name |-> h[1], account |-> h[2], lots |-> Available(h[1], h[2], seen) \div LOT] : h \in {g \in held : g[1] \in names}},
                            !.rows = FirstRows(rows), !.ready = rows, !.stubs = stub_income(t.word), !.reports = t.reports,
                            !.spot = chain.spot, !.source = chain.source, !.hv = t.hv]
            /\ unread' = [unread EXCEPT !.calls = @ \cup (Holders \ seen)]
  BY DEF run_cc_data_pipeline
<1> DEFINE held == resolve_eligible_holdings(eligible_holdings_per_account(seen), seen)
           price == Max({Spot[h[1]] : h \in held} \cup {0})
           chain == fetch_chains(t.word, CallDays, "calls", price)
           rows == apply_earnings_filter(chain.rows, t.reports)
           wanted == {h[1] : h \in held}
           names == drop_cheap_premium(wanted, rows, t.hv)
           Offered(h) == [name |-> h[1], account |-> h[2], lots |-> Available(h[1], h[2], seen) \div LOT]
<1>2. /\ offer.calls' = {Offered(h) : h \in {g \in held : g[1] \in names}}
      /\ offer.held' = wanted /\ offer.rows' = FirstRows(rows) /\ offer.ready' = rows
      /\ offer.reports' = t.reports /\ offer.spot' = chain.spot /\ offer.hv' = t.hv /\ offer.note' = ""
  BY <1>1 DEF NoOffer
<1>3. side = "calls" /\ side' = "calls"
  BY DEF run_cc_data_pipeline
<1>4. t.word \in Word(CallMenu) /\ t.reports \in Nat /\ t.hv \in Nat
  BY TidingsForm
<1>5. /\ IsFiniteSet(chain.rows) /\ chain.rows \subseteq Quote
      /\ \A q \in chain.rows : q.expiry \in CallDays[1]..CallDays[2] /\ OutOfTheMoney(q, "calls", chain.spot)
  <2>1. IsFiniteSet(CallMenu) /\ CallMenu \subseteq Quote
    BY ChainFacts
  <2> HIDE DEF price
  <2>2. QED BY <1>4, <2>1, ChainForm
<1> HIDE DEF chain, held
<1>6. \A q \in rows : q \in chain.rows /\ q \in Quote /\ Clear(q, t.reports)
  BY <1>4, <1>5, FilterForm
<1>7. IsFiniteSet(rows) /\ rows \subseteq Quote
  <2>1. rows \subseteq chain.rows
    BY <1>6
  <2> HIDE DEF rows
  <2>2. QED BY <1>5, <2>1, FS_Subset
<1> HIDE DEF rows
<1>8. FirstRows(rows) \subseteq rows
  BY DEF FirstRows
<1>9. RowsAreTold'
  <2>1. ASSUME NEW q \in FirstRows(rows)
        PROVE  q.expiry >= CallDays[1] /\ q.expiry <= CallDays[2] /\ Clear(q, t.reports) /\ (chain.spot > 0 => q.strike > chain.spot)
    <3>1. q \in chain.rows /\ q \in Quote /\ Clear(q, t.reports)
      BY <1>6, <1>8, <2>1
    <3>2. q.expiry \in CallDays[1]..CallDays[2] /\ OutOfTheMoney(q, "calls", chain.spot)
      BY <1>5, <3>1
    <3>3. chain.spot > 0 => q.strike > chain.spot
      BY <3>2 DEF OutOfTheMoney
    <3>4. QED BY <3>1, <3>2, <3>3, ChainFacts
  <2>2. RowsKeepTheirDays'
    BY <1>2, <1>3, <2>1 DEF RowsKeepTheirDays, Clear
  <2>3. QED BY <1>2, <2>2 DEF RowsAreTold
<1>10. ASSUME NEW n \in wanted, \A c \in offer.calls' : c.name # n
       PROVE  \E q \in rows : 0 < q.iv /\ 100 * q.iv < MinRatio * t.hv
  <2>1. PICK h \in held : h[1] = n
    OBVIOUS
  <2>2. n \notin names
    <3>1. Offered(h).name = n
      BY <2>1
    <3>2. n \in names => Offered(h) \in offer.calls'
      BY <1>2, <2>1
    <3>3. QED BY <1>10, <3>1, <3>2
  <2>3. names # wanted
    BY <1>10, <2>2
  <2> HIDE DEF wanted
  <2>4. QED BY <1>4, <1>7, <2>3, CheapForm
<1> HIDE DEF wanted, names
<1>11. HeldBackOnEvidence'
  BY <1>2, <1>3, <1>10 DEF HeldBackOnEvidence
<1>12. QED BY <1>9, <1>11

(* The least of some strikes.                                               *)
LEMMA LeastStrike ==
    ASSUME NEW S \in SUBSET Nat, NEW x \in S
    PROVE  Min(S) \in Nat /\ Min(S) <= x
<1>1. PICK n \in S : \A m \in S : n <= m
  BY LeastNumber
<1>2. Min(S) \in S /\ \A m \in S : Min(S) <= m
  BY <1>1 DEF Min
<1>3. QED BY <1>2

(* What is shown of puts, and what is said when nothing is.                   *)
LEMMA PutsShown ==
    ASSUME NEW names, NEW chain, chain.rows \subseteq Quote, NEW reports \in Nat, NEW hv, NEW budget, NEW found,
           found = PutOffer(names, chain, reports, hv, budget)
    PROVE  /\ \A q \in found.rows : \E r \in chain.rows : q.expiry = r.expiry /\ q \in Quote /\ Clear(q, reports)
           /\ found.note = "" <=> names = {} \/ found.rows # {}
           /\ found.note = "cap" => \A q \in found.ready :
                 \E low \in Nat : low <= q.strike /\ q.strike \in Nat /\ low * LOT * 100 > budget.total * PerPut
<1> DEFINE kept == apply_earnings_filter(chain.rows, reports)
           filled == fill_put_deltas(kept, chain.spot)
           dear == drop_cheap_premium(names, filled, hv)
           paying == IF YieldFloor = 0 THEN filled ELSE {q \in filled : Pays(q)}
           worth == IF paying = {} /\ YieldFloor > 0 THEN {} ELSE dear
           shown == IF worth = {} \/ chain.spot = 0 THEN {} ELSE puts_near_band(paying, MaxCollateral(budget))
<1>1. /\ found.rows = shown
      /\ found.ready = IF worth = {} THEN {} ELSE paying
      /\ found.note = IF names = {} \/ shown # {} THEN "" ELSE IF dear = {} THEN "cheap"
                      ELSE IF worth = {} THEN "yield" ELSE _blocked_note(paying, budget)
  BY DEF PutOffer
<1>2. \A q \in kept : q \in chain.rows /\ q \in Quote /\ Clear(q, reports)
  BY FilterForm
<1>3. \A q \in filled : q \in Quote /\ \E r \in kept : q.expiry = r.expiry
  <2> HIDE DEF kept
  <2>1. ASSUME NEW r \in kept PROVE r \in Quote /\ [r EXCEPT !.delta = r.estimate] \in Quote /\ [r EXCEPT !.delta = r.estimate].expiry = r.expiry
    BY <1>2 DEF Quote
  <2>2. QED BY <2>1 DEF fill_put_deltas
<1>4. \A q \in filled : q \in Quote /\ \E r \in chain.rows : q.expiry = r.expiry /\ Clear(q, reports)
  <2> HIDE DEF kept, filled
  <2>1. SUFFICES ASSUME NEW q \in filled PROVE q \in Quote /\ \E r \in chain.rows : q.expiry = r.expiry /\ Clear(q, reports)
    OBVIOUS
  <2>2. PICK r \in kept : q.expiry = r.expiry
    BY <1>3
  <2>3. Clear(q, reports)
    BY <1>2, <2>2 DEF Clear
  <2>4. QED BY <1>2, <1>3, <2>2, <2>3
<1> HIDE DEF kept, filled, dear
<1>5. paying \subseteq filled
  OBVIOUS
<1>6. shown \subseteq filled
  BY DEF puts_near_band, FirstRows
<1>7. \A q \in found.rows : \E r \in chain.rows : q.expiry = r.expiry /\ q \in Quote /\ Clear(q, reports)
  <2> HIDE DEF shown
  <2>1. QED BY <1>1, <1>4, <1>6
<1> HIDE DEF paying
<1>8. _blocked_note(paying, budget) # ""
  BY DEF _blocked_note
<1>9. found.note = "" <=> names = {} \/ found.rows # {}
  <2> HIDE DEF shown, worth
  <2>1. QED BY <1>1, <1>8
<1>10. ASSUME found.note = "cap", NEW q \in found.ready
       PROVE  \E low \in Nat : low <= q.strike /\ q.strike \in Nat /\ low * LOT * 100 > budget.total * PerPut
  <2>1. worth # {} /\ q \in paying /\ _blocked_note(paying, budget) = "cap"
    <3> HIDE DEF shown, worth
    <3>1. QED BY <1>1, <1>10
  <2> DEFINE S == {r.strike : r \in paying}
  <2>2. Min(S) * LOT * 100 > budget.total * PerPut
    BY <2>1 DEF _blocked_note
  <2>3. S \in SUBSET Nat /\ q.strike \in S
    <3>1. \A r \in paying : r.strike \in Nat
      BY <1>4, <1>5 DEF Quote
    <3>2. QED BY <2>1, <3>1
  <2> HIDE DEF S
  <2>4. Min(S) \in Nat /\ Min(S) <= q.strike /\ q.strike \in Nat
    BY <2>3, LeastStrike
  <2>5. QED BY <2>2, <2>4
<1> HIDE DEF shown, worth
<1>11. QED BY <1>7, <1>9, <1>10

(* A share of a share is no more than the whole.                             *)
LEMMA ShareOfShare ==
    ASSUME NEW T \in Nat, NEW p \in Nat, NEW k \in Nat, k > 0
    PROVE  (((T * k) \div 100) * 100) \div k <= T /\ (((T * k) \div 100) * 100) \div k \in Nat
<1> DEFINE x == T * k
           y == (x \div 100) * 100
<1>1. x \in Nat
  BY CountProduct
<1>2. y \in Nat /\ y <= x
  BY <1>1
<1>3. \A z \in Nat : z \div k \in Nat /\ k * (z \div k) <= z
  OBVIOUS
<1>4. y \div k \in Nat /\ k * (y \div k) <= y
  BY <1>2, <1>3
<1>5. \A d \in Nat : d > T => k * d > x
  <2>1. SUFFICES ASSUME NEW d \in Nat, d > T PROVE k * d > T * k
    OBVIOUS
  <2>2. PICK e \in Nat : d = T + e /\ e > 0
    <3>1. d - T \in Nat /\ d = T + (d - T) /\ d - T > 0
      BY <2>1
    <3>2. QED BY <3>1
  <2>3. k * d = T * k + k * e /\ k * e > 0 /\ T * k \in Nat
    BY <2>2
  <2>4. QED BY <2>3
<1>6. k * (y \div k) \in Nat
  BY <1>4, CountProduct
<1> DEFINE d == y \div k
<1> HIDE DEF d
<1>7. d \in Nat /\ k * d <= x /\ k * d \in Nat
  <2> HIDE DEF y, x
  <2>1. QED BY <1>1, <1>2, <1>4, <1>6 DEF d
<1>8. d <= T
  <2> HIDE DEF x
  <2>1. QED BY <1>1, <1>5, <1>7
<1>9. QED BY <1>7, <1>8 DEF d

LEMMA PutsAreTold == ASSUME DeskSafe, run_csp_data_pipeline PROVE RowsAreTold' /\ HeldBackOnEvidence'
<1>1. PICK listed \in SUBSET Holders, seen \in SUBSET Holders, t \in Tidings(PutMenu) :
         LET budget == _put_budget(listed, seen)
             names == IF listed = {} THEN {} ELSE _put_candidates(budget, seen)
             chain == fetch_chains(t.word, PutDays, "puts", Max({Spot[n] : n \in Picked}))
             found == PutOffer(names, chain, t.reports, t.hv, budget)
         IN  /\ offer' = [NoOffer EXCEPT !.held = names, !.puts = found.puts, !.rows = found.rows, !.ready = found.ready,
                             !.note = found.note, !.reports = t.reports, !.spot = chain.spot, !.source = chain.source, !.hv = t.hv]
             /\ room' = [free |-> budget.free, total |-> (budget.total * InPuts) \div 100]
             /\ unread' = [unread EXCEPT !.puts = @ \cup (Holders \ seen) \cup (IF DOMAIN budget.free = {} THEN Holders ELSE {})]
  BY DEF run_csp_data_pipeline
<1> DEFINE budget == _put_budget(listed, seen)
           names == IF listed = {} THEN {} ELSE _put_candidates(budget, seen)
           price == Max({Spot[n] : n \in Picked})
           chain == fetch_chains(t.word, PutDays, "puts", price)
           found == PutOffer(names, chain, t.reports, t.hv, budget)
           most == budget.total
<1>2. /\ offer.held' = names /\ offer.rows' = found.rows /\ offer.ready' = found.ready
      /\ offer.reports' = t.reports /\ offer.note' = found.note
  BY <1>1 DEF NoOffer
<1>3. room.total' = (most * InPuts) \div 100
  BY <1>1
<1>4. side = "puts" /\ side' = "puts"
  BY DEF run_csp_data_pipeline
<1>5. most \in Nat
  <2>1. DeskTypes
    BY DEF DeskSafe
  <2>2. QED BY <2>1, PutBudgetForm
<1>6. t.word \in Word(PutMenu) /\ t.reports \in Nat
  BY TidingsForm
<1>7. chain.rows \subseteq Quote /\ \A q \in chain.rows : q.expiry \in PutDays[1]..PutDays[2]
  <2>1. IsFiniteSet(PutMenu) /\ PutMenu \subseteq Quote
    BY ChainFacts
  <2> HIDE DEF price
  <2>2. QED BY <1>6, <2>1, ChainForm
<1> HIDE DEF chain
<1>8. /\ \A q \in found.rows : \E r \in chain.rows : q.expiry = r.expiry /\ q \in Quote /\ Clear(q, t.reports)
      /\ found.note = "" <=> names = {} \/ found.rows # {}
      /\ found.note = "cap" => \A q \in found.ready :
            \E low \in Nat : low <= q.strike /\ q.strike \in Nat /\ low * LOT * 100 > most * PerPut
  <2> HIDE DEF names, budget
  <2>1. QED BY <1>6, <1>7, PutsShown
<1> HIDE DEF found, names, most
<1>9. RowsAreTold'
  <2>1. ASSUME NEW q \in found.rows
        PROVE  q.expiry >= PutDays[1] /\ q.expiry <= PutDays[2] /\ Clear(q, t.reports)
    <3>1. PICK r \in chain.rows : q.expiry = r.expiry /\ Clear(q, t.reports)
      BY <1>8, <2>1
    <3>2. r.expiry \in PutDays[1]..PutDays[2]
      BY <1>7
    <3>3. QED BY <3>1, <3>2, ChainFacts
  <2>2. RowsKeepTheirDays'
    BY <1>2, <1>4, <2>1 DEF RowsKeepTheirDays, Clear
  <2>3. QED BY <1>2, <1>8, <2>2 DEF RowsAreTold
<1>10. ASSUME found.note = "cap", NEW q \in found.ready
       PROVE  q.strike * LOT * 100 > PerPut * ((room.total' * 100) \div InPuts)
  <2>1. PICK low \in Nat : low <= q.strike /\ q.strike \in Nat /\ low * LOT * 100 > most * PerPut
    BY <1>8, <1>10
  <2> DEFINE d == (room.total' * 100) \div InPuts
             k == q.strike
  <2>2. d <= most /\ d \in Nat
    <3>1. d = (((most * InPuts) \div 100) * 100) \div InPuts
      BY <1>3
    <3>2. QED BY <1>5, <3>1, DeskFacts, ShareOfShare
  <2> HIDE DEF d
  <2>3. \A x, y, z \in Nat : x <= y => z * x <= z * y /\ x * z <= y * z
    OBVIOUS
  <2>4. PerPut * d <= PerPut * most /\ PerPut * most = most * PerPut /\ PerPut * d \in Nat /\ PerPut * most \in Nat
    BY <1>5, <2>2, <2>3, DeskFacts, CountProduct
  <2>5. low * LOT <= k * LOT /\ low * LOT \in Nat /\ k * LOT \in Nat
    BY <2>1, <2>3, DeskFacts, CountProduct
  <2> DEFINE u == low * LOT
             v == k * LOT
             m == PerPut * d
             o == PerPut * most
  <2>6. u \in Nat /\ v \in Nat /\ m \in Nat /\ o \in Nat /\ u <= v /\ m <= o /\ u * 100 > o
    BY <2>1, <2>4, <2>5
  <2> HIDE DEF u, v, m, o
  <2>7. v * 100 > m
    BY <2>6
  <2>8. QED BY <2>7 DEF v, m, d
<1>11. HeldBackOnEvidence'
  BY <1>2, <1>4, <1>8, <1>10 DEF HeldBackOnEvidence
<1>12. QED BY <1>9, <1>11

(* A note is only made of a list that shows nothing, and nothing is written of *)
(* such a list.                                                             *)
LEMMA WritesKeepTheRows ==
    ASSUME RowsAreTold, offer.rows # {}, UNCHANGED side,
           offer.rows' = offer.rows, offer.reports' = offer.reports, offer.spot' = offer.spot, offer.note' = offer.note
    PROVE  RowsAreTold' /\ offer.note' = ""
BY DEF RowsAreTold, RowsKeepTheirDays

LEMMA WritesAreTold ==
    ASSUME DeskSafe, RowsAreTold, HeldBackOnEvidence, WriteCall \/ WritePut
    PROVE  RowsAreTold' /\ HeldBackOnEvidence'
<1>0. DOMAIN offer = OfferKeys
  BY DEF DeskSafe, DeskTypes
<1>1. CASE WriteCall
  <2>1. /\ side = "calls" /\ side' = "calls" /\ offer.rows # {}
    BY <1>1 DEF WriteCall
  <2>2. PICK c \in offer.calls : offer' = [offer EXCEPT !.calls = @ \ {c}, !.held = @ \ {c.name}]
    BY <1>1 DEF WriteCall
  <2>3. /\ offer.rows' = offer.rows /\ offer.reports' = offer.reports /\ offer.spot' = offer.spot /\ offer.note' = offer.note
        /\ offer.ready' = offer.ready /\ offer.hv' = offer.hv
        /\ offer.calls' = offer.calls \ {c} /\ offer.held' = offer.held \ {c.name}
    BY <1>0, <2>2 DEF OfferKeys
  <2>4. RowsAreTold' /\ offer.note' = ""
    BY <2>1, <2>3, WritesKeepTheRows
  <2>5. ASSUME NEW n \in offer.held', \A d \in offer.calls' : d.name # n
        PROVE  \E q \in offer.ready : 0 < q.iv /\ 100 * q.iv < MinRatio * offer.hv
    <3>1. n \in offer.held /\ n # c.name
      BY <2>3
    <3>2. \A d \in offer.calls : d.name # n
      BY <2>3, <2>5, <3>1
    <3>3. QED BY <2>1, <3>1, <3>2 DEF HeldBackOnEvidence
  <2>6. HeldBackOnEvidence'
    BY <2>1, <2>3, <2>4, <2>5 DEF HeldBackOnEvidence
  <2>7. QED BY <2>4, <2>6
<1>2. CASE WritePut
  <2>1. /\ side = "puts" /\ side' = "puts" /\ offer.rows # {}
    BY <1>2 DEF WritePut
  <2>2. PICK n : offer' = [offer EXCEPT !.puts = @ \ {n}]
    BY <1>2 DEF WritePut
  <2>3. /\ offer.rows' = offer.rows /\ offer.reports' = offer.reports /\ offer.spot' = offer.spot /\ offer.note' = offer.note
    BY <1>0, <2>2 DEF OfferKeys
  <2>4. RowsAreTold' /\ offer.note' = ""
    BY <2>1, <2>3, WritesKeepTheRows
  <2>5. HeldBackOnEvidence'
    BY <2>1, <2>3, <2>4 DEF HeldBackOnEvidence
  <2>6. QED BY <2>4, <2>5
<1>3. QED BY <1>1, <1>2

LEMMA ClosedOffersAreTold ==
    ASSUME OffersAreClosed PROVE RowsAreTold' /\ HeldBackOnEvidence'
<1>1. offer' = NoOffer /\ NoOffer.rows = {} /\ NoOffer.held = {} /\ NoOffer.note = ""
  BY NoOfferForm DEF OffersAreClosed
<1>2. QED BY <1>1 DEF RowsAreTold, RowsKeepTheirDays, HeldBackOnEvidence

LEMMA OtherStepsAreTold ==
    ASSUME RowsAreTold, HeldBackOnEvidence, UNCHANGED <<side, offer, room>>
    PROVE  RowsAreTold' /\ HeldBackOnEvidence'
BY DEF RowsAreTold, RowsKeepTheirDays, HeldBackOnEvidence

LEMMA AdviceKeeps == ASSUME SoonestRollIsNamed, UNCHANGED advice PROVE SoonestRollIsNamed'
BY DEF SoonestRollIsNamed

-----------------------------------------------------------------------------
(* The roll.  Of the calls of some accounts the lowest comes first.           *)
LEMMA LowestLeg ==
    ASSUME NEW legs \in SUBSET Legs, legs # {}
    PROVE  LET leg == CHOOSE l \in legs : \A m \in legs : l.strike < m.strike \/ (l.strike = m.strike /\ l.expiry <= m.expiry)
           IN  leg.strike \in Nat /\ leg.strike > 0 /\ leg.expiry \in Nat
<1>1. \A l \in legs : l.strike \in Nat /\ l.strike > 0 /\ l.expiry \in Nat
  BY ChainFacts
<1> DEFINE S == {l.strike : l \in legs}
<1>2. PICK k \in S : \A m \in S : k <= m
  <2>1. S \in SUBSET Nat /\ S # {}
    BY <1>1
  <2> HIDE DEF S
  <2>2. QED BY <2>1, LeastNumber
<1>3. PICK l0 \in legs : l0.strike = k
  OBVIOUS
<1> DEFINE E == {l.expiry : l \in {m \in legs : m.strike = k}}
<1>4. PICK e \in E : \A x \in E : e <= x
  <2>1. E \in SUBSET Nat /\ E # {}
    BY <1>1, <1>3
  <2> HIDE DEF E
  <2>2. QED BY <2>1, LeastNumber
<1>5. PICK l \in legs : l.strike = k /\ l.expiry = e
  OBVIOUS
<1>6. \A m \in legs : l.strike < m.strike \/ (l.strike = m.strike /\ l.expiry <= m.expiry)
  <2>1. SUFFICES ASSUME NEW m \in legs PROVE l.strike < m.strike \/ (l.strike = m.strike /\ l.expiry <= m.expiry)
    OBVIOUS
  <2>2. k <= m.strike /\ (m.strike = k => e <= m.expiry)
    BY <1>2, <1>4, <2>1
  <2>3. QED BY <1>1, <1>5, <2>2
<1>7. \E x \in legs : \A m \in legs : x.strike < m.strike \/ (x.strike = m.strike /\ x.expiry <= m.expiry)
  BY <1>6
<1>8. (CHOOSE x \in legs : \A m \in legs : x.strike < m.strike \/ (x.strike = m.strike /\ x.expiry <= m.expiry)) \in legs
  BY <1>7
<1>9. QED BY <1>1, <1>8

(* Among finitely many rows one is the soonest, and of those the highest.     *)
LEMMA SomeSoonest ==
    ASSUME NEW rows, rows \subseteq Quote, IsFiniteSet(rows), rows # {}
    PROVE  \E q \in rows : \A r \in rows : ~Sooner(r, q)
<1>1. \A q \in rows : q.expiry \in Nat /\ q.strike \in Nat
  BY DEF Quote
<1> DEFINE E == {q.expiry : q \in rows}
<1>2. PICK e \in E : \A x \in E : e <= x
  <2>1. E \in SUBSET Nat /\ E # {}
    BY <1>1
  <2> HIDE DEF E
  <2>2. QED BY <2>1, LeastNumber
<1> DEFINE T == {q \in rows : q.expiry = e}
           f == [q \in T |-> q.strike]
           K == {f[q] : q \in T}
<1>3. IsFiniteSet(T)
  <2>1. T \subseteq rows
    OBVIOUS
  <2> HIDE DEF T
  <2>2. QED BY <2>1, FS_Subset
<1>4. IsFiniteSet(K)
  <2>1. DOMAIN f = T /\ f = [x \in T |-> f[x]]
    OBVIOUS
  <2> HIDE DEF f, T
  <2>2. QED BY <1>3, <2>1, ImageIsFinite
<1>5. PICK k \in K : \A x \in K : x <= k
  <2>1. K \in SUBSET Nat /\ K # {}
    <3>1. \A q \in T : f[q] \in Nat
      BY <1>1
    <3>2. \E q \in rows : q \in T
      OBVIOUS
    <3>3. QED BY <3>1, <3>2
  <2> HIDE DEF K
  <2>2. QED BY <1>4, <2>1, LargestNumber
<1>6. PICK q \in T : q.strike = k
  OBVIOUS
<1>7. \A r \in T : r.strike <= k
  <2>1. \A r \in T : f[r] = r.strike /\ f[r] \in K
    OBVIOUS
  <2>2. QED BY <1>5, <2>1
<1>8. \A r \in rows : ~Sooner(r, q)
  <2>1. SUFFICES ASSUME NEW r \in rows PROVE ~Sooner(r, q)
    OBVIOUS
  <2>2. e <= r.expiry /\ (r.expiry = e => r.strike <= k)
    BY <1>2, <1>7
  <2>3. QED BY <1>1, <1>6, <2>2 DEF Sooner
<1>9. q \in rows
  OBVIOUS
<1>10. QED BY <1>8, <1>9

(* The cost of buying the leg back is that of the row that lists it.          *)
LEMMA NetIsANumber ==
    ASSUME NEW rows, NEW leg, NEW q \in rows, q.strike = leg.strike, q.expiry = leg.expiry,
           rows \subseteq Quote, \A x \in rows : \E r \in RollMenu : Tidied(x, r)
    PROVE  \A x \in rows : Net(x, leg) \in Int
<1>1. PICK r \in RollMenu : r.strike = leg.strike /\ r.expiry = leg.expiry
  BY DEF Tidied
<1> DEFINE back == CHOOSE x \in RollMenu : x.strike = leg.strike /\ x.expiry = leg.expiry
<1>2. back \in RollMenu
  BY <1>1
<1>3. back.ask \in Nat
  BY <1>2, ChainFacts DEF Quote
<1>4. \A x \in rows : Net(x, leg) = x.bid - back.ask /\ x.bid \in Nat
  BY DEF Net, Quote
<1> HIDE DEF back
<1>5. QED BY <1>3, <1>4

LEMMA CandidateForm ==
    ASSUME NEW leg, leg.strike \in Nat, leg.strike > 0, NEW rows, rows \subseteq Quote, NEW price, NEW last \in Nat,
           NEW q \in roll_candidates(leg, rows, price, last)
    PROVE  /\ q \in rows /\ q \in Quote /\ q.expiry <= last /\ q.strike > leg.strike
           /\ \E p \in rows : p.strike = leg.strike /\ p.expiry = leg.expiry
<1>1. /\ \E p \in rows : p.strike = leg.strike /\ p.expiry = leg.expiry
      /\ q \in rows /\ q.expiry <= last /\ 100 * q.strike >= leg.strike * (100 + STRIKE_GAIN)
  BY DEF roll_candidates
<1>2. q.strike \in Nat
  BY <1>1 DEF Quote
<1>3. \A a, g \in Nat : a > 0 /\ g > 0 => a * (100 + g) > 100 * a
  <2>1. SUFFICES ASSUME NEW a \in Nat, NEW g \in Nat, a > 0, g > 0 PROVE a * (100 + g) > 100 * a
    OBVIOUS
  <2>2. a * (100 + g) = 100 * a + a * g /\ a * g > 0
    BY <2>1
  <2>3. QED BY <2>1, <2>2
<1>4. 100 * q.strike > 100 * leg.strike
  BY <1>1, <1>2, <1>3, DeskFacts
<1>5. QED BY <1>1, <1>2, <1>4

LEMMA CandidatesGrow ==
    ASSUME NEW leg, NEW rows, NEW price, NEW q, rows \subseteq Quote
    PROVE  q \in roll_candidates(leg, rows, price, CallDays[2]) <=> q \in roll_candidates(leg, rows, price, RollDays[2]) /\ q.expiry <= CallDays[2]
<1>1. \A r \in rows : r.expiry \in Nat
  BY DEF Quote
<1>2. CASE \E r \in rows : r.strike = leg.strike /\ r.expiry = leg.expiry /\ r.ask > 0
  BY <1>1, <1>2, ChainFacts DEF roll_candidates
<1>3. CASE ~\E r \in rows : r.strike = leg.strike /\ r.expiry = leg.expiry /\ r.ask > 0
  BY <1>3 DEF roll_candidates
<1>4. QED BY <1>2, <1>3

(* The best roll is one that pays, and the soonest, when one does; else it is  *)
(* the cheapest.                                                            *)
LEMMA BestForm ==
    ASSUME NEW candidates, candidates \subseteq Quote, IsFiniteSet(candidates), NEW leg, \A q \in candidates : Net(q, leg) \in Int
    PROVE  LET paying == {q \in candidates : Net(q, leg) >= 0}
               best == best_roll(candidates, leg)
           IN  /\ best \subseteq candidates
               /\ paying # {} <=> PaysForItself(best, leg)
               /\ paying # {} => \A q \in best : Net(q, leg) >= 0 /\ \A p \in paying : ~Sooner(p, q)
               /\ paying = {} => \A q \in best : \A p \in candidates : Net(p, leg) <= Net(q, leg)
<1> DEFINE paying == {q \in candidates : Net(q, leg) >= 0}
           best == best_roll(candidates, leg)
<1>1. CASE paying # {}
  <2>1. best = {q \in paying : \A r \in paying : ~Sooner(r, q)}
    BY <1>1 DEF best_roll, Best
  <2>2. paying \subseteq candidates /\ paying \subseteq Quote
    OBVIOUS
  <2>3. IsFiniteSet(paying)
    <3> HIDE DEF paying
    <3>1. QED BY <2>2, FS_Subset
  <2>4. \E q \in paying : \A r \in paying : ~Sooner(r, q)
    <3> HIDE DEF paying
    <3>1. QED BY <1>1, <2>2, <2>3, SomeSoonest
  <2>5. \A q \in best : q \in paying /\ Net(q, leg) >= 0
    <3> HIDE DEF best
    <3>1. QED BY <2>1
  <2> HIDE DEF best
  <2>6. PaysForItself(best, leg)
    <3>1. PICK q \in best : TRUE
      <4> HIDE DEF paying
      <4>1. QED BY <2>1, <2>4
    <3>2. QED BY <2>5, <3>1 DEF PaysForItself
  <2> HIDE DEF paying
  <2>7. QED BY <1>1, <2>1, <2>2, <2>5, <2>6 DEF best, paying
<1>2. CASE paying = {}
  <2>1. best = {q \in candidates : \A r \in candidates : ~(Net(r, leg) > Net(q, leg))}
    BY <1>2 DEF best_roll, Best
  <2> HIDE DEF best
  <2>2. best \subseteq candidates /\ \A q \in best : \A p \in candidates : Net(p, leg) <= Net(q, leg)
    BY <2>1
  <2>3. ~PaysForItself(best, leg)
    <3>1. \A q \in candidates : ~(Net(q, leg) >= 0)
      BY <1>2
    <3>2. QED BY <2>2, <3>1 DEF PaysForItself
  <2> HIDE DEF paying
  <2>4. QED BY <1>2, <2>2, <2>3 DEF best, paying
<1>3. QED BY <1>1, <1>2

LEMMA SoonestIsNamed == ASSUME roll_suggestion PROVE SoonestRollIsNamed'
<1> DEFINE price == Max({Spot[n] : n \in Underlyings})
           legOf(legs) == CHOOSE l \in legs : \A m \in legs : l.strike < m.strike \/ (l.strike = m.strike /\ l.expiry <= m.expiry)
<1>1. PICK legs \in (SUBSET Legs) \ {{}}, word \in Words(RollMenu) :
         LET leg == legOf(legs)
             chain == fetch_chains(word, RollDays, "calls", price)
             rows == IF chain.spot = 0 THEN {} ELSE chain.rows
             near == best_roll(roll_candidates(leg, rows, price, CallDays[2]), leg)
             far == best_roll(roll_candidates(leg, rows, price, RollDays[2]), leg)
         IN  advice' = [leg |-> leg, rows |-> rows,
                        kind |-> IF PaysForItself(near, leg) THEN "pays" ELSE IF PaysForItself(far, leg) THEN "further"
                                 ELSE IF near # {} THEN "costs" ELSE "none",
                        roll |-> IF PaysForItself(near, leg) THEN near ELSE IF PaysForItself(far, leg) THEN far ELSE near]
  BY DEF roll_suggestion
<1> DEFINE leg == legOf(legs)
           chain == fetch_chains(word, RollDays, "calls", price)
           rows == IF chain.spot = 0 THEN {} ELSE chain.rows
           some == roll_candidates(leg, rows, price, CallDays[2])
           all == roll_candidates(leg, rows, price, RollDays[2])
           near == best_roll(some, leg)
           far == best_roll(all, leg)
           paying == {q \in all : Net(q, leg) >= 0}
           nearPaying == {q \in some : Net(q, leg) >= 0}
<1>2. advice.leg' = leg /\ advice.rows' = rows
      /\ advice.kind' = (IF PaysForItself(near, leg) THEN "pays" ELSE IF PaysForItself(far, leg) THEN "further"
                                 ELSE IF near # {} THEN "costs" ELSE "none")
      /\ advice.roll' = (IF PaysForItself(near, leg) THEN near ELSE IF PaysForItself(far, leg) THEN far ELSE near)
  BY <1>1
<1>3. leg.strike \in Nat /\ leg.strike > 0
  <2>1. legs \in SUBSET Legs /\ legs # {}
    OBVIOUS
  <2>2. QED BY <2>1, LowestLeg
<1>4. IsFiniteSet(rows) /\ rows \subseteq Quote /\ \A q \in rows : \E r \in RollMenu : Tidied(q, r)
  <2>1. word \in Word(RollMenu)
    BY DEF Words, Word
  <2>2. IsFiniteSet(chain.rows) /\ chain.rows \subseteq Quote /\ \A q \in chain.rows : \E r \in RollMenu : Tidied(q, r)
    <3> HIDE DEF price
    <3>1. QED BY <2>1, ChainFacts, ChainForm
  <2> HIDE DEF chain
  <2>3. CASE chain.spot = 0
    BY <2>3, FS_EmptySet
  <2>4. CASE chain.spot # 0
    BY <2>2, <2>4
  <2>5. QED BY <2>3, <2>4
<1> HIDE DEF rows, leg, price
<1>5. ASSUME NEW last \in {CallDays[2], RollDays[2]}
      PROVE  LET c == roll_candidates(leg, rows, price, last)
             IN  IsFiniteSet(c) /\ c \subseteq Quote /\ \A q \in c : Net(q, leg) \in Int /\ q.strike > leg.strike /\ q.expiry <= last
  <2> DEFINE c == roll_candidates(leg, rows, price, last)
  <2>1. last \in Nat
    BY ChainFacts
  <2>2. \A q \in c : /\ q \in rows /\ q \in Quote /\ q.expiry <= last /\ q.strike > leg.strike
                     /\ \E p \in rows : p.strike = leg.strike /\ p.expiry = leg.expiry
    BY <1>3, <1>4, <2>1, CandidateForm
  <2> HIDE DEF c
  <2>3. c \subseteq rows /\ c \subseteq Quote
    BY <2>2
  <2>4. IsFiniteSet(c)
    BY <1>4, <2>3, FS_Subset
  <2>5. \A q \in c : Net(q, leg) \in Int
    BY <1>4, <2>2, NetIsANumber
  <2>6. QED BY <2>2, <2>3, <2>4, <2>5 DEF c
<1>6. /\ IsFiniteSet(some) /\ some \subseteq Quote /\ \A q \in some : Net(q, leg) \in Int /\ q.strike > leg.strike /\ q.expiry <= CallDays[2]
      /\ IsFiniteSet(all) /\ all \subseteq Quote /\ \A q \in all : Net(q, leg) \in Int /\ q.strike > leg.strike
  BY <1>5
<1>7. \A q : q \in some <=> q \in all /\ q.expiry <= CallDays[2]
  BY <1>4, CandidatesGrow
<1> HIDE DEF some, all
<1>8. /\ near \subseteq some
      /\ nearPaying # {} <=> PaysForItself(near, leg)
      /\ nearPaying # {} => \A q \in near : Net(q, leg) >= 0 /\ \A p \in nearPaying : ~Sooner(p, q)
      /\ nearPaying = {} => \A q \in near : \A p \in some : Net(p, leg) <= Net(q, leg)
  BY <1>6, BestForm
<1>9. /\ far \subseteq all
      /\ paying # {} <=> PaysForItself(far, leg)
      /\ paying # {} => \A q \in far : Net(q, leg) >= 0 /\ \A p \in paying : ~Sooner(p, q)
  BY <1>6, BestForm
<1>10. \A q : q \in nearPaying <=> q \in paying /\ q.expiry <= CallDays[2]
  BY <1>7
<1>11. \A p \in paying : p \in all /\ p.expiry \in Nat /\ p.strike \in Nat /\ Net(p, leg) \in Int /\ Net(p, leg) >= 0
  BY <1>6 DEF Quote
<1>12. \A q \in all : q.expiry \in Nat /\ q.strike \in Nat
  BY <1>6 DEF Quote
<1> HIDE DEF near, far, paying, nearPaying
<1> DEFINE roll == advice.roll'
           kind == advice.kind'
<1>13. /\ paying # {} <=> kind \in {"pays", "further"}
       /\ \A q \in roll :
            /\ q.strike > leg.strike
            /\ paying # {} => Net(q, leg) >= 0 /\ \A p \in paying : p.expiry > q.expiry \/ (p.expiry = q.expiry /\ p.strike <= q.strike)
            /\ paying = {} => \A p \in all : p.expiry <= CallDays[2] => Net(p, leg) <= Net(q, leg)
       /\ kind = "pays" => \A q \in roll : q.expiry <= CallDays[2]
  <2>1. CASE nearPaying # {}
    <3>1. kind = "pays" /\ roll = near /\ paying # {}
      BY <1>2, <1>8, <1>10, <2>1
    <3>2. ASSUME NEW q \in near
          PROVE  /\ q.strike > leg.strike /\ q.expiry <= CallDays[2] /\ Net(q, leg) >= 0
                 /\ \A p \in paying : p.expiry > q.expiry \/ (p.expiry = q.expiry /\ p.strike <= q.strike)
      <4>1. q \in some /\ q \in all /\ q.strike > leg.strike /\ q.expiry <= CallDays[2] /\ Net(q, leg) >= 0
        BY <1>6, <1>7, <1>8, <2>1
      <4>2. ASSUME NEW p \in paying PROVE p.expiry > q.expiry \/ (p.expiry = q.expiry /\ p.strike <= q.strike)
        <5>1. CASE p.expiry <= CallDays[2]
          <6>1. ~Sooner(p, q)
            BY <1>8, <1>10, <2>1, <5>1
          <6>2. QED BY <1>11, <1>12, <4>1, <6>1 DEF Sooner
        <5>2. CASE ~(p.expiry <= CallDays[2])
          BY <1>11, <1>12, <4>1, <5>2, ChainFacts
        <5>3. QED BY <5>1, <5>2
      <4>3. QED BY <4>1, <4>2
    <3> HIDE DEF roll, kind
    <3>3. QED BY <3>1, <3>2
  <2>2. CASE nearPaying = {} /\ paying # {}
    <3>1. kind = "further" /\ roll = far
      BY <1>2, <1>8, <1>9, <2>2
    <3>2. ASSUME NEW q \in far
          PROVE  /\ q.strike > leg.strike /\ Net(q, leg) >= 0
                 /\ \A p \in paying : p.expiry > q.expiry \/ (p.expiry = q.expiry /\ p.strike <= q.strike)
      <4>1. q \in all /\ q.strike > leg.strike /\ Net(q, leg) >= 0 /\ \A p \in paying : ~Sooner(p, q)
        BY <1>6, <1>9, <2>2
      <4>2. QED BY <1>11, <1>12, <4>1 DEF Sooner
    <3> HIDE DEF roll, kind
    <3>3. QED BY <2>2, <3>1, <3>2
  <2>3. CASE paying = {}
    <3>1. nearPaying = {}
      BY <1>10, <2>3
    <3>2. kind \in {"costs", "none"} /\ roll = near
      BY <1>2, <1>8, <1>9, <2>3, <3>1
    <3>3. ASSUME NEW q \in near
          PROVE  q.strike > leg.strike /\ \A p \in all : p.expiry <= CallDays[2] => Net(p, leg) <= Net(q, leg)
      BY <1>6, <1>7, <1>8, <3>1
    <3> HIDE DEF roll, kind
    <3>4. QED BY <2>3, <3>2, <3>3
  <2>4. QED BY <2>1, <2>2, <2>3
<1>14. QED BY <1>2, <1>13 DEF SoonestRollIsNamed, all, paying, rows, leg, price

DeskInv == DeskSafe /\ RowsAreTold /\ HeldBackOnEvidence /\ SoonestRollIsNamed

LEMMA DeskStartsSound == DeskInit => DeskInv
<1>1. SUFFICES ASSUME DeskInit PROVE DeskInv
  OBVIOUS
<1>2. offer = NoOffer /\ advice = NoAdvice
  BY <1>1 DEF DeskInit
<1>3. RowsAreTold /\ HeldBackOnEvidence
  BY <1>2, NoOfferForm DEF RowsAreTold, RowsKeepTheirDays, HeldBackOnEvidence
<1>4. SoonestRollIsNamed
  BY <1>2 DEF SoonestRollIsNamed, NoAdvice
<1>5. QED BY <1>1, <1>3, <1>4, DeskStarts DEF DeskInv

LEMMA DeskStaysSound == DeskInv /\ (DeskNext \/ UNCHANGED deskVars) => DeskInv'
<1>1. SUFFICES ASSUME DeskInv, DeskNext \/ UNCHANGED deskVars PROVE DeskInv'
  OBVIOUS
<1>2. DeskSafe /\ RowsAreTold /\ HeldBackOnEvidence /\ SoonestRollIsNamed /\ DeskSafe'
  BY <1>1, DeskStaysSafe DEF DeskInv
<1>3. CASE run_cc_data_pipeline
  <2>1. RowsAreTold' /\ HeldBackOnEvidence' /\ UNCHANGED advice
    BY <1>2, <1>3, CallsAreTold DEF run_cc_data_pipeline
  <2>2. QED BY <1>2, <2>1, AdviceKeeps DEF DeskInv
<1>4. CASE run_csp_data_pipeline
  <2>1. RowsAreTold' /\ HeldBackOnEvidence' /\ UNCHANGED advice
    BY <1>2, <1>4, PutsAreTold DEF run_csp_data_pipeline
  <2>2. QED BY <1>2, <2>1, AdviceKeeps DEF DeskInv
<1>5. CASE WriteCall \/ WritePut
  <2>1. RowsAreTold' /\ HeldBackOnEvidence'
    BY <1>2, <1>5, WritesAreTold
  <2>2. UNCHANGED advice
    BY <1>5 DEF WriteCall, WritePut
  <2>3. QED BY <1>2, <2>1, <2>2, AdviceKeeps DEF DeskInv
<1>6. CASE OffersAreClosed
  <2>1. RowsAreTold' /\ HeldBackOnEvidence' /\ UNCHANGED advice
    BY <1>6, ClosedOffersAreTold DEF OffersAreClosed
  <2>2. QED BY <1>2, <2>1, AdviceKeeps DEF DeskInv
<1>7. CASE roll_suggestion
  <2>1. RowsAreTold' /\ HeldBackOnEvidence'
    BY <1>2, <1>7, OtherStepsAreTold DEF roll_suggestion
  <2>2. SoonestRollIsNamed'
    BY <1>7, SoonestIsNamed
  <2>3. QED BY <1>2, <2>1, <2>2 DEF DeskInv
<1>8. CASE (\E n \in Underlyings, a \in Holders : CallEnds(n, a) \/ PutEnds(n, a)) \/ NextWeek \/ UNCHANGED deskVars
  <2>1. UNCHANGED <<side, offer, room, advice>>
    BY <1>8 DEF CallEnds, PutEnds, NextWeek, deskVars
  <2>2. QED BY <1>2, <2>1, OtherStepsAreTold, AdviceKeeps DEF DeskInv
<1>9. QED BY <1>1, <1>3, <1>4, <1>5, <1>6, <1>7, <1>8 DEF DeskNext

LEMMA DeskInvIsSound == DeskInv => DeskIsSound
BY DEF DeskInv, DeskSafe, RowsAreTold, DeskIsSound

-----------------------------------------------------------------------------
(* What the models answer with is capped, and each cap only takes away.       *)
LEMMA FunnelFacts ==
    /\ Survivors \in Seq(Names) /\ PairLists \subseteq Seq(Names \X Names) /\ IsFiniteSet(DOMAIN SectorOf)
    /\ MinNames \in Nat /\ DeepCost \in Nat /\ LightCost \in Nat
    /\ MaxPair \in Nat /\ MaxStarter \in Nat /\ MaxNew \in Nat /\ MaxBook \in Nat
    /\ Moneys \subseteq Nat /\ Asked \subseteq Nat
BY FunnelAssumption

LEMMA NamesAreFinite == IsFiniteSet(Names) /\ IsFiniteSet(Names \cup {Stranger}) /\ IsFiniteSet(Range(SectorOf))
<1>1. DOMAIN Survivors = 1..Len(Survivors) /\ Len(Survivors) \in Nat
  BY FunnelFacts
<1>2. IsFiniteSet(1..Len(Survivors))
  BY <1>1, FS_Interval
<1> DEFINE S == 1..Len(Survivors)
           f == [i \in S |-> Survivors[i]]
           D == DOMAIN SectorOf
           g == [t \in D |-> SectorOf[t]]
<1>3. IsFiniteSet({f[i] : i \in S})
  <2>1. DOMAIN f = S /\ f = [i \in S |-> f[i]]
    OBVIOUS
  <2> HIDE DEF f, S
  <2>2. QED BY <1>2, <2>1, ImageIsFinite DEF S
<1>4. {f[i] : i \in S} = Names
  BY <1>1 DEF Names, Range
<1>5. IsFiniteSet({g[t] : t \in D})
  <2>1. DOMAIN g = D /\ g = [t \in D |-> g[t]] /\ IsFiniteSet(D)
    BY FunnelFacts
  <2> HIDE DEF g, D
  <2>2. QED BY <2>1, ImageIsFinite
<1>6. {g[t] : t \in D} = Range(SectorOf)
  BY DEF Range
<1>7. IsFiniteSet(Names)
  BY <1>3, <1>4
<1>8. IsFiniteSet(Names \cup {Stranger})
  BY <1>7, FS_AddElement
<1>9. QED BY <1>5, <1>6, <1>7, <1>8

(* What is scaled down adds up to what was to be left, or to less.            *)
LEMMA SumScales ==
    ASSUME NEW w, NEW v, NEW S, IsFiniteSet(S), NEW k \in Nat, NEW c \in Nat,
           \A x \in S : w[x] \in Nat /\ v[x] \in Nat /\ k * w[x] <= c * v[x]
    PROVE  k * SumOf(w, S) <= c * SumOf(v, S)
<1> DEFINE F == {u \in SUBSET S : ~(k * SumOf(w, u) <= c * SumOf(v, u))}
<1>1. SUFFICES ASSUME F # {} PROVE FALSE
  OBVIOUS
<1>2. \A u \in F : IsFiniteSet(u)
  BY FS_Subset
<1>3. PICK u \in F : \A t \in F : Cardinality(u) <= Cardinality(t)
  <2> HIDE DEF F
  <2>1. PICK t \in F : TRUE
    BY <1>1
  <2>2. QED BY <1>2, <2>1, SmallestSet
<1>4. u \in SUBSET S /\ IsFiniteSet(u) /\ ~(k * SumOf(w, u) <= c * SumOf(v, u))
  BY <1>2
<1>5. /\ SumOf(w, u) = IF u = {} THEN 0 ELSE w[One(u)] + SumOf(w, u \ {One(u)})
      /\ SumOf(v, u) = IF u = {} THEN 0 ELSE v[One(u)] + SumOf(v, u \ {One(u)})
  BY <1>4, SumStep
<1>6. u # {}
  <2>1. ASSUME u = {} PROVE FALSE
    <3>1. k * 0 <= c * 0
      OBVIOUS
    <3>2. QED BY <1>4, <1>5, <2>1, <3>1
  <2>2. QED BY <2>1
<1> DEFINE r == u \ {One(u)}
<1>7. One(u) \in u /\ IsFiniteSet(r) /\ Cardinality(r) < Cardinality(u)
  BY <1>4, <1>6, OneOfIt, OneLess
<1>8. r \notin F
  <2>1. Cardinality(r) \in Nat /\ Cardinality(u) \in Nat
    BY <1>4, <1>7, FS_CardinalityType
  <2> HIDE DEF F, r
  <2>2. QED BY <1>3, <1>7, <2>1
<1>9. k * SumOf(w, r) <= c * SumOf(v, r)
  BY <1>4, <1>8
<1>10. SumOf(w, r) \in Nat /\ SumOf(v, r) \in Nat /\ w[One(u)] \in Nat /\ v[One(u)] \in Nat /\ k * w[One(u)] <= c * v[One(u)]
  <2>1. \A x \in r : w[x] \in Nat /\ v[x] \in Nat
    BY <1>4
  <2>2. QED BY <1>4, <1>7, <2>1, SumIsACount
<1>11. SumOf(w, u) = w[One(u)] + SumOf(w, r) /\ SumOf(v, u) = v[One(u)] + SumOf(v, r)
  BY <1>5, <1>6
<1> HIDE DEF F, r
<1>12. \A a \in Nat : \A b \in Nat : k * (a + b) = k * a + k * b /\ c * (a + b) = c * a + c * b
  OBVIOUS
<1>13. k * SumOf(w, u) = k * w[One(u)] + k * SumOf(w, r) /\ c * SumOf(v, u) = c * v[One(u)] + c * SumOf(v, r)
  BY <1>10, <1>11, <1>12
<1>14. k * SumOf(w, r) \in Nat /\ k * w[One(u)] \in Nat /\ c * SumOf(v, r) \in Nat /\ c * v[One(u)] \in Nat
  BY <1>10, CountProduct
<1>15. QED BY ONLY <1>4, <1>9, <1>10, <1>13, <1>14

(* A share of a size, rounded down.                                         *)
LEMMA ScaledDown ==
    ASSUME NEW n \in Nat, NEW k \in Nat, NEW c \in Nat, k > c
    PROVE  (n * c) \div k \in Nat /\ (n * c) \div k <= n /\ k * ((n * c) \div k) <= c * n
<1> DEFINE x == n * c
<1>1. x \in Nat /\ x = c * n
  BY CountProduct
<1>2. k * n \in Nat /\ x <= k * n
  <2>1. PICK d \in Nat : k = c + d
    <3>1. k - c \in Nat /\ k = c + (k - c)
      OBVIOUS
    <3>2. QED BY <3>1
  <2>2. k * n = c * n + d * n /\ d * n \in Nat /\ c * n \in Nat
    BY <2>1, CountProduct
  <2>3. QED BY <1>1, <2>2
<1> HIDE DEF x
<1> DEFINE d == x \div k
<1>3. d \in Nat /\ k * d <= x /\ k > 0
  <2>1. k \in Nat /\ k > 0
    OBVIOUS
  <2>2. \A z \in Nat : z \div k \in Nat /\ k * (z \div k) <= z
    BY <2>1
  <2>3. QED BY <1>1, <2>1, <2>2
<1> HIDE DEF d
<1>4. d <= n
  <2>1. SUFFICES ASSUME ~(d <= n) PROVE FALSE
    OBVIOUS
  <2>2. PICK e \in Nat : d = n + e /\ e > 0
    <3>1. d - n \in Nat /\ d = n + (d - n) /\ d - n > 0
      BY <1>3, <2>1
    <3>2. QED BY <3>1
  <2>3. k * d = k * n + k * e /\ k * e > 0 /\ k * e \in Nat
    BY <1>3, <2>2
  <2>4. QED BY <1>1, <1>2, <1>3, <2>3
<1>5. QED BY <1>1, <1>3, <1>4 DEF d, x

(* Two shares of a sum, rounded down.                                       *)
LEMMA TwoScaledDown ==
    ASSUME NEW a \in Nat, NEW b \in Nat, NEW c \in Nat, a + b > c
    PROVE  (a * c) \div (a + b) + (b * c) \div (a + b) <= c
<1> DEFINE k == a + b
           x == (a * c) \div k
           y == (b * c) \div k
<1>1. k \in Nat /\ k > c
  OBVIOUS
<1> HIDE DEF k
<1>2. x \in Nat /\ y \in Nat /\ k * x <= c * a /\ k * y <= c * b
  BY <1>1, ScaledDown
<1> HIDE DEF x, y
<1>3. c * a + c * b = k * c /\ k * c \in Nat /\ c * a \in Nat /\ c * b \in Nat
  BY <1>1 DEF k
<1>4. x + y <= c
  <2>1. SUFFICES ASSUME ~(x + y <= c) PROVE FALSE
    OBVIOUS
  <2>2. PICK e \in Nat : x + y = c + e /\ e > 0
    <3>1. (x + y) - c \in Nat /\ x + y = c + ((x + y) - c) /\ (x + y) - c > 0
      BY <1>2, <2>1
    <3>2. QED BY <3>1
  <2>3. k * (x + y) = k * c + k * e /\ k * e > 0 /\ k * e \in Nat
    BY <1>1, <2>2
  <2>4. k * (x + y) = k * x + k * y /\ k * x \in Nat /\ k * y \in Nat
    BY <1>1, <1>2
  <2>5. QED BY <1>2, <1>3, <2>3, <2>4
<1>5. QED BY <1>4 DEF x, y, k

(* A flagged pair fits its cap once it has had its turn, and no size grows.   *)
LEMMA PairForm == ASSUME NEW pair \in Names \X Names PROVE Range(pair) = {pair[1], pair[2]} /\ pair[1] \in Names /\ pair[2] \in Names
<1>1. PICK x \in Names, y \in Names : pair = <<x, y>>
  OBVIOUS
<1>2. DOMAIN pair = {1, 2} /\ pair[1] = x /\ pair[2] = y
  BY <1>1
<1>3. QED BY <1>2 DEF Range

LEMMA PairIsCapped ==
    ASSUME NEW N, NEW s \in [N -> Nat], NEW pair \in Names \X Names
    PROVE  /\ CapPair(s, pair) \in [N -> Nat]
           /\ \A t \in N : CapPair(s, pair)[t] <= s[t]
           /\ Range(pair) \subseteq N => CapPair(s, pair)[pair[1]] + CapPair(s, pair)[pair[2]] <= MaxPair
<1> DEFINE x == pair[1]
           y == pair[2]
           sum == s[x] + s[y]
           r == [t \in DOMAIN s |-> IF t \in Range(pair) THEN (s[t] * MaxPair) \div sum ELSE s[t]]
<1>1. Range(pair) = {x, y} /\ DOMAIN s = N /\ MaxPair \in Nat /\ \A t \in N : s[t] \in Nat
  BY PairForm, FunnelFacts
<1>2. CapPair(s, pair) = IF Range(pair) \subseteq DOMAIN s /\ sum > MaxPair THEN r ELSE s
  BY DEF CapPair
<1>3. CASE Range(pair) \subseteq N /\ sum > MaxPair
  <2>1. x \in N /\ y \in N /\ s[x] \in Nat /\ s[y] \in Nat /\ sum \in Nat
    BY <1>1, <1>3
  <2> HIDE DEF x, y
  <2>2. \A t \in N : r[t] \in Nat /\ r[t] <= s[t]
    <3>1. SUFFICES ASSUME NEW t \in N PROVE r[t] \in Nat /\ r[t] <= s[t]
      OBVIOUS
    <3>2. (s[t] * MaxPair) \div sum \in Nat /\ (s[t] * MaxPair) \div sum <= s[t]
      <4> DEFINE n == s[t]
      <4>1. n \in Nat /\ sum > MaxPair
        BY <1>1, <1>3
      <4> HIDE DEF n, sum
      <4>2. (n * MaxPair) \div sum \in Nat /\ (n * MaxPair) \div sum <= n
        BY <1>1, <2>1, <4>1, ScaledDown
      <4>3. QED BY <4>2 DEF n
    <3>3. r[t] = IF t \in Range(pair) THEN (s[t] * MaxPair) \div sum ELSE s[t]
      BY <1>1
    <3>4. s[t] \in Nat
      BY <1>1
    <3>5. QED BY <3>2, <3>3, <3>4
  <2>3. r[x] + r[y] <= MaxPair
    <3>1. r[x] = (s[x] * MaxPair) \div (s[x] + s[y]) /\ r[y] = (s[y] * MaxPair) \div (s[x] + s[y])
      BY <1>1, <2>1
    <3>2. s[x] + s[y] > MaxPair
      BY <1>3
    <3> HIDE DEF r, sum
    <3>3. QED BY <1>1, <2>1, <3>1, <3>2, TwoScaledDown
  <2>4. r \in [N -> Nat]
    <3>1. DOMAIN r = N /\ r = [t \in N |-> r[t]]
      BY <1>1
    <3> HIDE DEF r
    <3>2. QED BY <2>2, <3>1
  <2>5. CapPair(s, pair) = r
    BY <1>1, <1>2, <1>3
  <2> HIDE DEF r
  <2>6. QED BY <2>2, <2>3, <2>4, <2>5 DEF x, y
<1>4. CASE ~(Range(pair) \subseteq N /\ sum > MaxPair)
  <2>1. CapPair(s, pair) = s
    BY <1>1, <1>2, <1>4
  <2>2. \A t \in N : s[t] <= s[t]
    BY <1>1
  <2>3. Range(pair) \subseteq N => s[x] + s[y] <= MaxPair
    BY <1>1, <1>4
  <2>4. QED BY <2>1, <2>2, <2>3
<1>5. QED BY <1>3, <1>4

PairSteps(f, N, s, pairs) ==
    /\ f[0] = s
    /\ \A k \in 1..Len(pairs) : f[k] = CapPair(f[k - 1], pairs[k])
    /\ \A k \in 0..Len(pairs) : f[k] \in [N -> Nat]
    /\ enforce_correlation_caps(s, pairs) = f[Len(pairs)]
(* The caps on pairs are a chain of sizes, one pair after the other.          *)
LEMMA CapsUnfold ==
    ASSUME NEW N, NEW s \in [N -> Nat], NEW pairs \in Seq(Names \X Names)
    PROVE  \E f : PairSteps(f, N, s, pairs)
<1> DEFINE V == [N -> Nat]
           X == Names \X Names
           step == [e \in V \X X |-> CapPair(e[1], e[2])]
<1>1. \A v \in V, x \in X : CapPair(v, x) \in V
  BY PairIsCapped
<1> HIDE DEF V, X
<1>2. PICK g : IsWalk(g, pairs, s, step) /\ \A T \in SUBSET DOMAIN pairs : g[T] \in V
  <2>1. step \in [V \X X -> V] /\ s \in V /\ pairs \in Seq(X)
    BY <1>1 DEF V, X
  <2> HIDE DEF step
  <2>2. QED BY <2>1, WalkExists
<1>3. g = [T \in SUBSET DOMAIN pairs |-> IF T = {} THEN s ELSE CapPair(g[T \ {Max(T)}], pairs[Max(T)])]
  <2>1. ASSUME NEW T \in SUBSET DOMAIN pairs, T # {} PROVE g[T] = CapPair(g[T \ {Max(T)}], pairs[Max(T)])
    <3>1. <<g[T \ {Max(T)}], pairs[Max(T)]>> \in V \X X
      BY <1>2, <2>1, LastIsIn DEF X
    <3>2. QED BY <1>2, <2>1, <3>1 DEF IsWalk
  <2>2. QED BY <1>2, <2>1 DEF IsWalk
<1>4. \E h : /\ h = [T \in SUBSET DOMAIN pairs |-> IF T = {} THEN s ELSE CapPair(h[T \ {Max(T)}], pairs[Max(T)])]
             /\ enforce_correlation_caps(s, pairs) = h[DOMAIN pairs]
  BY <1>3 DEF enforce_correlation_caps, FoldLeft, MapThenFoldSet
<1>5. PICK h : /\ h = [T \in SUBSET DOMAIN pairs |-> IF T = {} THEN s ELSE CapPair(h[T \ {Max(T)}], pairs[Max(T)])]
               /\ enforce_correlation_caps(s, pairs) = h[DOMAIN pairs]
  BY <1>4
<1> DEFINE W == V \cup {h[T] : T \in SUBSET DOMAIN pairs}
           next == [e \in W \X X |-> CapPair(e[1], e[2])]
<1>6. IsWalk(h, pairs, s, next)
  <2>1. ASSUME NEW T \in SUBSET DOMAIN pairs, T # {} PROVE h[T] = next[<<h[T \ {Max(T)}], pairs[Max(T)]>>]
    <3>1. <<h[T \ {Max(T)}], pairs[Max(T)]>> \in W \X X
      BY <2>1, LastIsIn DEF X
    <3>2. QED BY <1>5, <2>1, <3>1
  <2> HIDE DEF next
  <2>2. QED BY <1>5, <2>1 DEF IsWalk
<1>7. \A v \in V, x \in X : next[<<v, x>>] = CapPair(v, x)
  OBVIOUS
<1>8. PICK f : IsPath(f, pairs, s, next, V) /\ h[DOMAIN pairs] = f[Len(pairs)]
  <2> HIDE DEF next, step, W
  <2>1. \A v \in V, x \in X : next[<<v, x>>] \in V
    BY <1>1, <1>7
  <2>2. s \in V /\ pairs \in Seq(X)
    BY DEF V, X
  <2>3. QED BY ONLY <1>6, <2>1, <2>2, WalkSteps
<1>9. ASSUME NEW k \in 1..Len(pairs) PROVE f[k] = CapPair(f[k - 1], pairs[k])
  <2>1. f[k - 1] \in V /\ pairs[k] \in X
    BY <1>8 DEF IsPath, X
  <2> HIDE DEF next
  <2>2. QED BY <1>7, <1>8, <2>1 DEF IsPath
<1>10. PairSteps(f, N, s, pairs)
  BY <1>5, <1>8, <1>9 DEF IsPath, V, PairSteps
<1>11. QED BY <1>10

PairsFit(r, N, s, pairs, k) ==
    /\ \A t \in N : r[t] <= s[t]
    /\ \A i \in 1..k : Range(pairs[i]) \subseteq N => r[pairs[i][1]] + r[pairs[i][2]] <= MaxPair
(* Sizes that only shrink keep fitting.                                     *)
LEMMA SmallerStillFits ==
    ASSUME NEW N, NEW s \in [N -> Nat], NEW r \in [N -> Nat], NEW q \in [N -> Nat], NEW pairs \in Seq(Names \X Names),
           NEW k \in 0..Len(pairs), PairsFit(r, N, s, pairs, k), \A t \in N : q[t] <= r[t]
    PROVE  PairsFit(q, N, s, pairs, k)
<1>1. \A t \in N : q[t] \in Nat /\ r[t] \in Nat /\ s[t] \in Nat
  OBVIOUS
<1>2. \A t \in N : q[t] <= s[t]
  BY <1>1 DEF PairsFit
<1>3. ASSUME NEW i \in 1..k, Range(pairs[i]) \subseteq N PROVE q[pairs[i][1]] + q[pairs[i][2]] <= MaxPair
  <2>1. pairs[i] \in Names \X Names
    OBVIOUS
  <2>2. pairs[i][1] \in N /\ pairs[i][2] \in N
    BY <1>3, <2>1, PairForm
  <2>3. r[pairs[i][1]] + r[pairs[i][2]] <= MaxPair
    BY <1>3 DEF PairsFit
  <2>4. q[pairs[i][1]] <= r[pairs[i][1]] /\ q[pairs[i][2]] <= r[pairs[i][2]]
    BY <2>2
  <2>5. q[pairs[i][1]] \in Nat /\ r[pairs[i][1]] \in Nat /\ q[pairs[i][2]] \in Nat /\ r[pairs[i][2]] \in Nat /\ MaxPair \in Nat
    BY <1>1, <2>2, FunnelFacts
  <2>6. QED BY ONLY <2>3, <2>4, <2>5
<1>4. QED BY <1>2, <1>3 DEF PairsFit

LEMMA PairsAreCapped ==
    ASSUME NEW N, NEW s \in [N -> Nat], NEW pairs \in Seq(Names \X Names)
    PROVE  enforce_correlation_caps(s, pairs) \in [N -> Nat] /\ PairsFit(enforce_correlation_caps(s, pairs), N, s, pairs, Len(pairs))
<1>1. PICK f : PairSteps(f, N, s, pairs)
  BY CapsUnfold
<1> DEFINE n == Len(pairs)
           Good == {k \in 0..n : PairsFit(f[k], N, s, pairs, k)}
<1>2. n \in Nat /\ \A k \in 1..n : pairs[k] \in Names \X Names
  OBVIOUS
<1>3. \A k \in 0..n : f[k] \in [N -> Nat]
  BY <1>1 DEF PairSteps
<1> HIDE DEF n
<1>4. 0 \in Good
  <2>1. f[0] = s /\ \A t \in N : s[t] <= s[t]
    BY <1>1 DEF PairSteps
  <2>2. QED BY <1>2, <2>1 DEF PairsFit
<1>5. ASSUME NEW k \in 0..n, k < n, k \in Good PROVE k + 1 \in Good
  <2>1. k + 1 \in 1..n /\ k + 1 \in 0..n /\ (k + 1) - 1 = k
    BY <1>2, <1>5
  <2> DEFINE r == f[k]
             q == f[k + 1]
  <2>2. q = CapPair(r, pairs[k + 1])
    BY <1>1, <2>1 DEF PairSteps, n
  <2>3. r \in [N -> Nat] /\ q \in [N -> Nat] /\ PairsFit(r, N, s, pairs, k) /\ pairs[k + 1] \in Names \X Names
    BY <1>2, <1>3, <1>5, <2>1
  <2> HIDE DEF r, q
  <2>4. /\ \A t \in N : q[t] <= r[t]
        /\ Range(pairs[k + 1]) \subseteq N => q[pairs[k + 1][1]] + q[pairs[k + 1][2]] <= MaxPair
    BY <2>2, <2>3, PairIsCapped
  <2>5. PairsFit(q, N, s, pairs, k)
    BY <2>3, <2>4, SmallerStillFits DEF n
  <2>6. \A i \in 1..(k + 1) : i \in 1..k \/ i = k + 1
    OBVIOUS
  <2>7. PairsFit(q, N, s, pairs, k + 1)
    BY <2>4, <2>5, <2>6 DEF PairsFit
  <2>8. QED BY <2>1, <2>7 DEF q
<1>6. n \in Good
  <2> HIDE DEF Good
  <2>1. \A k \in 0..n : k < n /\ k \in Good => k + 1 \in Good
    BY <1>5
  <2>2. \A k \in 0..n : k \in Good
    BY <1>2, <1>4, <2>1, CountUp
  <2>3. QED BY <1>2, <2>2
<1>7. enforce_correlation_caps(s, pairs) = f[n]
  BY <1>1 DEF PairSteps, n
<1>8. QED BY <1>2, <1>3, <1>6, <1>7 DEF n

-----------------------------------------------------------------------------
(* The cap before earnings and the cap on a sector, which also only shrink.   *)
LEMMA StartersAreSmall ==
    ASSUME NEW N, NEW s \in [N -> Nat], NEW alerts
    PROVE  /\ enforce_earnings_blackout(s, alerts) \in [N -> Nat]
           /\ \A t \in N : enforce_earnings_blackout(s, alerts)[t] <= s[t]
           /\ \A t \in alerts \cap N : enforce_earnings_blackout(s, alerts)[t] <= MaxStarter
<1> DEFINE r == [t \in DOMAIN s |-> IF t \in alerts /\ s[t] > MaxStarter THEN MaxStarter ELSE s[t]]
<1>1. DOMAIN s = N /\ MaxStarter \in Nat /\ \A t \in N : s[t] \in Nat
  BY FunnelFacts
<1>2. \A t \in N : r[t] \in Nat /\ r[t] <= s[t] /\ (t \in alerts => r[t] <= MaxStarter)
  BY <1>1
<1>3. r \in [N -> Nat]
  BY <1>1
<1>4. QED BY <1>2, <1>3 DEF enforce_earnings_blackout

SectorsPicks(N, sector) == {t \in chosen \cap N \cap DOMAIN SectorOf : SectorOf[t] = sector}
LEMMA ShareForm ==
    ASSUME NEW N, NEW s \in [N -> Nat], NEW sector
    PROVE  /\ ShareOf(s, sector) = SumOf(s, SectorsPicks(N, sector)) /\ ShareOf(s, sector) \in Nat
           /\ IsFiniteSet(SectorsPicks(N, sector)) /\ SectorsPicks(N, sector) \subseteq N
<1>1. IsFiniteSet(SectorsPicks(N, sector)) /\ SectorsPicks(N, sector) \subseteq N
  <2>1. SectorsPicks(N, sector) \in SUBSET DOMAIN SectorOf /\ SectorsPicks(N, sector) \subseteq N
    BY DEF SectorsPicks
  <2>2. QED BY <2>1, FunnelFacts, FS_Subset
<1>2. ShareOf(s, sector) = SumOf(s, SectorsPicks(N, sector))
  BY DEF ShareOf, SumOf, SectorsPicks
<1>3. \A x \in SectorsPicks(N, sector) : s[x] \in Nat
  BY <1>1
<1>4. SumOf(s, SectorsPicks(N, sector)) \in Nat
  BY <1>1, <1>3, SumIsACount
<1>5. QED BY <1>1, <1>2, <1>4

(* What a sector may take of the new money: never more than the book's share  *)
(* leaves it.                                                               *)
LEMMA LimitForm ==
    ASSUME NEW S, IsFiniteSet(S), NEW held \in [S -> Nat], NEW cash \in Nat, NEW sector \in S
    PROVE  LET book == BookOf(held)
               limit == LimitOf(held, cash, sector)
           IN  /\ book \in Nat /\ limit \in Nat /\ limit <= MaxNew
               /\ cash > 0 /\ book > 0 =>
                    limit * cash = 0 \/ held[sector] * 10000 + limit * cash <= MaxBook * (book + cash)
<1> DEFINE book == BookOf(held)
           limit == LimitOf(held, cash, sector)
           most == MaxBook * (book + cash)
           left == most \div 10000 - held[sector]
           up == IF left > 0 THEN left ELSE 0
           percent == (up * 10000) \div cash
<1>1. book \in Nat /\ held[sector] \in Nat /\ MaxNew \in Nat /\ MaxBook \in Nat
  <2>1. book = SumOf(held, S) /\ \A x \in S : held[x] \in Nat
    BY DEF BookOf, SumFunction, SumOf
  <2>2. book \in Nat
    BY <2>1, SumIsACount
  <2>3. QED BY <2>2, FunnelFacts
<1>2. limit = IF cash > 0 /\ book > 0 /\ percent < MaxNew THEN percent ELSE MaxNew
  BY DEF LimitOf
<1> HIDE DEF book, limit
<1>3. most \in Nat
  BY <1>1, CountProduct
<1> HIDE DEF most
<1>4. most \div 10000 \in Nat /\ 10000 * (most \div 10000) <= most
  BY <1>3
<1>5. up \in Nat /\ left \in Int
  BY <1>1, <1>4
<1>6. up = 0 \/ held[sector] * 10000 + up * 10000 <= most
  BY <1>1, <1>3, <1>4
<1> HIDE DEF up, left
<1>7. ASSUME cash > 0 PROVE percent \in Nat /\ percent * cash \in Nat /\ percent * cash <= up * 10000
  <2> DEFINE x == up * 10000
  <2>1. x \in Nat
    BY <1>5
  <2> HIDE DEF x
  <2>2. x \div cash \in Nat /\ cash * (x \div cash) <= x
    BY <1>7, <2>1
  <2> DEFINE d == x \div cash
  <2>3. d \in Nat /\ cash * d <= x
    BY <2>2
  <2> HIDE DEF d
  <2>4. d * cash = cash * d /\ d * cash \in Nat
    BY <2>3, CountProduct
  <2>5. QED BY <2>3, <2>4 DEF d, x
<1> HIDE DEF percent
<1>8. limit \in Nat /\ limit <= MaxNew
  BY <1>1, <1>2, <1>7
<1>9. ASSUME cash > 0, book > 0 PROVE limit * cash = 0 \/ held[sector] * 10000 + limit * cash <= most
  <2>1. limit <= percent /\ percent \in Nat
    BY <1>1, <1>2, <1>7, <1>9
  <2>2. limit * cash \in Nat /\ limit * cash <= percent * cash
    <3>1. PICK d \in Nat : percent = limit + d
      <4>1. percent - limit \in Nat /\ percent = limit + (percent - limit)
        BY <1>8, <2>1
      <4>2. QED BY <4>1
    <3>2. percent * cash = limit * cash + d * cash /\ limit * cash \in Nat /\ d * cash \in Nat
      BY <1>8, <3>1, CountProduct
    <3>3. QED BY <3>2
  <2>3. percent * cash <= up * 10000 /\ percent * cash \in Nat
    BY <1>7, <1>9
  <2>4. CASE up = 0
    BY <1>5, <2>2, <2>3, <2>4
  <2>5. CASE held[sector] * 10000 + up * 10000 <= most
    BY <1>1, <1>3, <1>5, <2>2, <2>3, <2>5
  <2>6. QED BY <1>6, <2>4, <2>5
<1>10. QED BY <1>1, <1>8, <1>9 DEF book, limit, most

LEMMA SectorsAreCapped ==
    ASSUME NEW N, NEW s \in [N -> Nat], NEW held \in [Range(SectorOf) -> Nat], NEW cash \in Nat
    PROVE  LET r == enforce_sector_caps(s, held, cash)
           IN  /\ r \in [N -> Nat]
               /\ \A t \in N : r[t] <= s[t]
               /\ \A sector \in Range(SectorOf) : ShareOf(r, sector) <= LimitOf(held, cash, sector) + 5
<1> DEFINE r == enforce_sector_caps(s, held, cash)
           Over(sector) == ShareOf(s, sector) > LimitOf(held, cash, sector) + 5
           Less(t) == (s[t] * LimitOf(held, cash, SectorOf[t])) \div ShareOf(s, SectorOf[t])
<1>1. DOMAIN s = N /\ \A t \in N : s[t] \in Nat
  OBVIOUS
<1>2. r = [t \in N |-> IF t \in chosen \cap DOMAIN SectorOf /\ Over(SectorOf[t]) THEN Less(t) ELSE s[t]]
  BY <1>1 DEF enforce_sector_caps
<1> HIDE DEF r
<1>3. \A t \in DOMAIN SectorOf : SectorOf[t] \in Range(SectorOf)
  BY DEF Range
<1>4. \A sector \in Range(SectorOf) : LimitOf(held, cash, sector) \in Nat /\ ShareOf(s, sector) \in Nat
  BY NamesAreFinite, LimitForm, ShareForm
<1>5. ASSUME NEW t \in N, t \in DOMAIN SectorOf, Over(SectorOf[t])
      PROVE  Less(t) \in Nat /\ Less(t) <= s[t] /\ ShareOf(s, SectorOf[t]) * Less(t) <= LimitOf(held, cash, SectorOf[t]) * s[t]
  <2> DEFINE k == ShareOf(s, SectorOf[t])
             c == LimitOf(held, cash, SectorOf[t])
             n == s[t]
  <2>1. k \in Nat /\ c \in Nat /\ n \in Nat /\ k > c
    BY <1>1, <1>3, <1>4, <1>5
  <2> HIDE DEF k, c, n
  <2>2. (n * c) \div k \in Nat /\ (n * c) \div k <= n /\ k * ((n * c) \div k) <= c * n
    BY <2>1, ScaledDown
  <2>3. QED BY <2>2 DEF k, c, n
<1>6. \A t \in N : r[t] \in Nat /\ r[t] <= s[t]
  <2>1. SUFFICES ASSUME NEW t \in N PROVE r[t] \in Nat /\ r[t] <= s[t]
    OBVIOUS
  <2>2. s[t] \in Nat /\ s[t] <= s[t]
    BY <1>1
  <2>3. CASE t \in chosen \cap DOMAIN SectorOf /\ Over(SectorOf[t])
    <3>1. r[t] = Less(t)
      BY <1>2, <2>3
    <3> HIDE DEF Less
    <3>2. QED BY <1>5, <2>3, <3>1
  <2>4. CASE ~(t \in chosen \cap DOMAIN SectorOf /\ Over(SectorOf[t]))
    BY <1>2, <2>2, <2>4
  <2>5. QED BY <2>3, <2>4
<1>7. r \in [N -> Nat]
  <2>1. r = [t \in N |-> r[t]]
    BY <1>2
  <2>2. QED BY <1>6, <2>1
<1>8. ASSUME NEW sector \in Range(SectorOf) PROVE ShareOf(r, sector) <= LimitOf(held, cash, sector) + 5
  <2> DEFINE T == SectorsPicks(N, sector)
             k == ShareOf(s, sector)
             c == LimitOf(held, cash, sector)
             m == ShareOf(r, sector)
  <2>1. /\ k = SumOf(s, T) /\ m = SumOf(r, T) /\ k \in Nat /\ m \in Nat /\ c \in Nat /\ IsFiniteSet(T) /\ T \subseteq N
        /\ \A x \in T : s[x] \in Nat /\ r[x] \in Nat
    BY <1>1, <1>4, <1>6, <1>7, ShareForm
  <2>2. \A x \in T : x \in N /\ x \in chosen \cap DOMAIN SectorOf /\ SectorOf[x] = sector
    BY DEF SectorsPicks
  <2>3. CASE ~Over(sector)
    <3>1. \A x \in T : r[x] = s[x]
      BY <1>2, <2>2, <2>3
    <3>2. m = k
      <4> HIDE DEF T, k, m
      <4>1. QED BY <2>1, <3>1, SumsAreEqual
    <3>3. ~(k > c + 5)
      BY <2>3
    <3> HIDE DEF k, c, m
    <3>4. m <= c + 5
      BY <2>1, <3>2, <3>3
    <3>5. QED BY <3>4 DEF c, m
  <2>4. CASE Over(sector)
    <3>1. k > c + 5
      BY <2>4
    <3>2. \A x \in T : k * r[x] <= c * s[x]
      <4>1. SUFFICES ASSUME NEW x \in T PROVE k * r[x] <= c * s[x]
        OBVIOUS
      <4>2. x \in N /\ x \in DOMAIN SectorOf /\ SectorOf[x] = sector /\ Over(SectorOf[x])
        BY <2>2, <2>4
      <4>3. r[x] = Less(x)
        BY <1>2, <2>2, <4>2
      <4>4. ShareOf(s, SectorOf[x]) * Less(x) <= LimitOf(held, cash, SectorOf[x]) * s[x]
        BY <1>5, <4>2
      <4> HIDE DEF Less
      <4>5. QED BY <4>2, <4>3, <4>4
    <3> HIDE DEF k, c, m, T
    <3>3. k * m <= c * k
      BY <2>1, <3>2, SumScales
    <3>4. m <= c
      <4>1. SUFFICES ASSUME ~(m <= c) PROVE FALSE
        OBVIOUS
      <4>2. PICK e \in Nat : m = c + e /\ e > 0
        <5>1. m - c \in Nat /\ m = c + (m - c) /\ m - c > 0
          BY <2>1, <4>1
        <5>2. QED BY <5>1
      <4>3. k * m = k * c + k * e /\ k * e \in Nat /\ k * e > 0 /\ c * k = k * c /\ k * c \in Nat
        BY <2>1, <3>1, <4>2
      <4>4. QED BY <3>3, <4>3
    <3>5. m <= c + 5
      BY <2>1, <3>4
    <3>6. QED BY <3>5 DEF c, m
  <2>5. QED BY <2>3, <2>4
<1>9. QED BY <1>6, <1>7, <1>8 DEF r

(* The sizer's answer under the three caps.                                   *)
ThreeCaps(answer, pairs, alerts, held, cash) ==
    enforce_sector_caps(enforce_earnings_blackout(enforce_correlation_caps(answer, pairs), alerts), held, cash)
KeepsCaps(s, N, answer, pairs, alerts, held, cash) ==
    /\ s \in [N -> Nat]
    /\ PairsFit(s, N, answer, pairs, Len(pairs))
    /\ \A t \in alerts \cap N : s[t] <= MaxStarter
    /\ \A sector \in Range(SectorOf) : ShareOf(s, sector) <= LimitOf(held, cash, sector) + 5
LEMMA AllCapsHold ==
    ASSUME NEW N, NEW answer \in [N -> Nat], NEW pairs \in Seq(Names \X Names), NEW alerts,
           NEW held \in [Range(SectorOf) -> Nat], NEW cash \in Nat
    PROVE  KeepsCaps(ThreeCaps(answer, pairs, alerts, held, cash), N, answer, pairs, alerts, held, cash)
<1> DEFINE r == enforce_correlation_caps(answer, pairs)
           q == enforce_earnings_blackout(r, alerts)
           s == enforce_sector_caps(q, held, cash)
<1>1. r \in [N -> Nat] /\ PairsFit(r, N, answer, pairs, Len(pairs))
  BY PairsAreCapped
<1> HIDE DEF r
<1>2. q \in [N -> Nat] /\ (\A t \in N : q[t] <= r[t]) /\ \A t \in alerts \cap N : q[t] <= MaxStarter
  BY <1>1, StartersAreSmall
<1> HIDE DEF q
<1>3. /\ s \in [N -> Nat] /\ \A t \in N : s[t] <= q[t]
      /\ \A sector \in Range(SectorOf) : ShareOf(s, sector) <= LimitOf(held, cash, sector) + 5
  BY <1>2, SectorsAreCapped
<1> HIDE DEF s
<1>4. Len(pairs) \in 0..Len(pairs)
  OBVIOUS
<1>5. PairsFit(q, N, answer, pairs, Len(pairs))
  BY <1>1, <1>2, <1>4, SmallerStillFits
<1>6. PairsFit(s, N, answer, pairs, Len(pairs))
  BY <1>2, <1>3, <1>4, <1>5, SmallerStillFits
<1>7. ASSUME NEW t \in alerts \cap N PROVE s[t] <= MaxStarter
  <2>1. s[t] \in Nat /\ q[t] \in Nat /\ s[t] <= q[t] /\ q[t] <= MaxStarter /\ MaxStarter \in Nat
    BY <1>2, <1>3, FunnelFacts
  <2>2. QED BY ONLY <2>1
<1>8. QED BY <1>3, <1>6, <1>7 DEF s, q, r, KeepsCaps, ThreeCaps

(* Within its limit a sector holds no more than its share of the book.        *)
LEMMA LimitKeepsTheShare ==
    ASSUME NEW held \in [Range(SectorOf) -> Nat], NEW cash \in Nat, NEW sector \in Range(SectorOf),
           NEW m \in Nat, m <= LimitOf(held, cash, sector) + 5
    PROVE  /\ m <= MaxNew + 5
           /\ \/ cash = 0 \/ BookOf(held) = 0 \/ m * cash <= 5 * cash
              \/ held[sector] * 10000 + m * cash <= MaxBook * (BookOf(held) + cash) + 5 * cash
<1> DEFINE limit == LimitOf(held, cash, sector)
           book == BookOf(held)
           most == MaxBook * (book + cash)
           h == held[sector] * 10000
           spent == limit * cash
<1>1. /\ book \in Nat /\ limit \in Nat /\ limit <= MaxNew /\ MaxNew \in Nat
      /\ cash > 0 /\ book > 0 => spent = 0 \/ h + spent <= most
  BY NamesAreFinite, LimitForm, FunnelFacts
<1>2. m <= limit + 5
  OBVIOUS
<1>3. h \in Nat /\ most \in Nat
  <2>1. held[sector] \in Nat /\ MaxBook \in Nat
    BY FunnelFacts
  <2>2. QED BY <1>1, <2>1, CountProduct
<1> HIDE DEF limit, book, most, h
<1>4. m <= MaxNew + 5
  BY <1>1, <1>2
<1>5. m * cash \in Nat /\ spent \in Nat /\ m * cash <= spent + 5 * cash
  <2>1. PICK d \in Nat : limit + 5 = m + d
    <3>1. (limit + 5) - m \in Nat /\ limit + 5 = m + ((limit + 5) - m)
      BY <1>1, <1>2
    <3>2. QED BY <3>1
  <2>2. (limit + 5) * cash = m * cash + d * cash /\ m * cash \in Nat /\ d * cash \in Nat
    BY <2>1, CountProduct
  <2>3. (limit + 5) * cash = spent + 5 * cash /\ spent \in Nat
    BY <1>1, CountProduct
  <2> HIDE DEF spent
  <2>4. QED BY <2>2, <2>3
<1> HIDE DEF spent
<1> DEFINE bought == m * cash
<1>6. bought \in Nat /\ bought <= spent + 5 * cash
  BY <1>5
<1> HIDE DEF bought
<1>7. cash = 0 \/ book = 0 \/ bought <= 5 * cash \/ h + bought <= most + 5 * cash
  <2>1. CASE cash > 0 /\ book > 0 /\ spent # 0
    BY <1>1, <1>3, <1>5, <1>6, <2>1
  <2>2. CASE spent = 0
    BY <1>6, <2>2
  <2>3. cash = 0 \/ cash > 0
    OBVIOUS
  <2>4. book = 0 \/ book > 0
    BY <1>1
  <2>5. QED BY <2>1, <2>2, <2>3, <2>4
<1>8. QED BY <1>4, <1>7 DEF bought, book, most, h

BookHeld(tech) == [sector \in Range(SectorOf) |-> IF sector = "tech" THEN tech ELSE 100]
SizerSaid(answer, pairs, alerts, held, cash, known) ==
    [asked |-> answer, given |-> IF ~known THEN answer ELSE ThreeCaps(answer, pairs, alerts, held, cash),
     pairs |-> pairs, alerts |-> alerts, held |-> held, cash |-> cash, known |-> known]
LEMMA SizerForm ==
    ASSUME step_sizer, sizing' # NotSized
    PROVE  \E N : \E answer \in [N -> Nat], pairs \in Seq(Names \X Names), held \in [Range(SectorOf) -> Nat], cash \in Nat, known \in BOOLEAN :
             \E alerts : sizing' = SizerSaid(answer, pairs, alerts, held, cash, known)
<1>1. \E named \in AtMost(3, chosen \cup suppressed \cup {Stranger}) \ {{}}, pairs \in PairLists, alerts \in AtMost(1, chosen) :
          \E answer \in [named -> Asked], tech \in {0, 60}, cash \in {0, 100}, dollars \in BOOLEAN :
            sizing' = SizerSaid(answer, pairs, alerts, BookHeld(tech), cash, ~dollars \/ cash > 0)
  BY DEF step_sizer, ThreeCaps, BookHeld, SizerSaid
<1>2. \A named : \A answer \in [named -> Asked] : answer \in [named -> Nat]
  <2>1. SUFFICES ASSUME NEW named, NEW answer \in [named -> Asked] PROVE answer \in [named -> Nat]
    OBVIOUS
  <2>2. answer = [x \in named |-> answer[x]] /\ \A x \in named : answer[x] \in Asked
    OBVIOUS
  <2>3. \A x \in named : answer[x] \in Nat
    BY <2>2, FunnelFacts
  <2>4. QED BY <2>2, <2>3
<1>3. \A pairs \in PairLists : pairs \in Seq(Names \X Names)
  BY FunnelFacts
<1>4. \A tech \in {0, 60} : BookHeld(tech) \in [Range(SectorOf) -> Nat]
  BY DEF BookHeld
<1>5. \A cash \in {0, 100}, dollars \in BOOLEAN : cash \in Nat /\ (~dollars \/ cash > 0) \in BOOLEAN
  OBVIOUS
<1> HIDE DEF SizerSaid, BookHeld
<1>6. QED BY ONLY <1>1, <1>2, <1>3, <1>4, <1>5, Zenon

LEMMA CapsHold == ASSUME step_sizer PROVE SizesKeepTheirCaps'
<1>1. chosen' = chosen /\ phase' = "sized"
  BY DEF step_sizer
<1>2. CASE sizing' = NotSized
  <2>1. /\ sizing'.given = <<>> /\ sizing'.pairs = <<>> /\ sizing'.alerts = {} /\ sizing'.held = <<>>
    BY <1>2 DEF NotSized
  <2>2. Range(sizing'.pairs) = {} /\ DOMAIN sizing'.held = {} /\ DOMAIN sizing'.given = {}
    BY <2>1 DEF Range
  <2>3. QED BY <2>1, <2>2 DEF SizesKeepTheirCaps
<1>3. CASE sizing' # NotSized
  <2>1. PICK N : \E answer \in [N -> Nat], pairs \in Seq(Names \X Names), held \in [Range(SectorOf) -> Nat], cash \in Nat, known \in BOOLEAN :
             \E alerts : sizing' = SizerSaid(answer, pairs, alerts, held, cash, known)
    BY <1>3, SizerForm
  <2>2. PICK answer \in [N -> Nat], pairs \in Seq(Names \X Names), held \in [Range(SectorOf) -> Nat], cash \in Nat, known \in BOOLEAN :
             \E alerts : sizing' = SizerSaid(answer, pairs, alerts, held, cash, known)
    BY <2>1
  <2>3. PICK alerts : sizing' = SizerSaid(answer, pairs, alerts, held, cash, known)
    BY <2>2
  <2> DEFINE s == ThreeCaps(answer, pairs, alerts, held, cash)
  <2>4. DOMAIN held = Range(SectorOf) /\ DOMAIN pairs = 1..Len(pairs)
    OBVIOUS
  <2>5. sizing' = [asked |-> answer, given |-> IF ~known THEN answer ELSE s, pairs |-> pairs, alerts |-> alerts,
                   held |-> held, cash |-> cash, known |-> known]
    BY <2>3 DEF SizerSaid
  <2>6. KeepsCaps(s, N, answer, pairs, alerts, held, cash)
    BY AllCapsHold
  <2> HIDE DEF s
  <2>7. \A pair \in Range(pairs) : Range(pair) \subseteq N => s[pair[1]] + s[pair[2]] <= MaxPair
    BY <2>4, <2>6 DEF KeepsCaps, PairsFit, Range
  <2>8. \A sector \in Range(SectorOf) :
           LET bought == ShareOf(s, sector) * cash
           IN  /\ ShareOf(s, sector) <= MaxNew + 5
               /\ cash = 0 \/ BookOf(held) = 0 \/ bought <= 5 * cash
                    \/ held[sector] * 10000 + bought <= MaxBook * (BookOf(held) + cash) + 5 * cash
    <3>1. \A sector \in Range(SectorOf) : ShareOf(s, sector) \in Nat
      BY <2>6, ShareForm DEF KeepsCaps
    <3>2. \A sector \in Range(SectorOf) : ShareOf(s, sector) <= LimitOf(held, cash, sector) + 5
      BY <2>6 DEF KeepsCaps
    <3>3. QED BY <3>1, <3>2, LimitKeepsTheShare
  <2>9. DOMAIN s = N /\ (\A t \in N : s[t] <= answer[t]) /\ \A t \in alerts \cap N : s[t] <= MaxStarter
    BY <2>6 DEF PairsFit, KeepsCaps
  <2>10. CASE ~known
    BY <2>5, <2>10 DEF SizesKeepTheirCaps
  <2>11. CASE known
    <3>1. /\ sizing'.given = s /\ sizing'.asked = answer /\ sizing'.pairs = pairs /\ sizing'.alerts = alerts
          /\ sizing'.held = held /\ sizing'.cash = cash
      BY <2>5, <2>11
    <3>2. /\ \A pair \in Range(sizing'.pairs) : Range(pair) \subseteq DOMAIN sizing'.given =>
                 sizing'.given[pair[1]] + sizing'.given[pair[2]] <= MaxPair
          /\ \A t \in sizing'.alerts \cap DOMAIN sizing'.given : sizing'.given[t] <= MaxStarter
          /\ \A t \in DOMAIN sizing'.given : sizing'.given[t] <= sizing'.asked[t]
      BY <2>7, <2>9, <3>1
    <3>3. QED BY <1>1, <2>4, <2>8, <3>1, <3>2 DEF SizesKeepTheirCaps, ShareOf, BookOf
  <2>12. QED BY <2>10, <2>11
<1>4. QED BY <1>2, <1>3

-----------------------------------------------------------------------------
(* The plan of the analysts' cost.                                           *)
LEMMA DeepForm ==
    ASSUME NEW n \in 0..Len(Survivors)
    PROVE  /\ DeepOf(n) \subseteq Names /\ IsFiniteSet(DeepOf(n)) /\ Cardinality(DeepOf(n)) \in Nat /\ Cardinality(DeepOf(n)) <= n
           /\ n = Len(Survivors) => DeepOf(n) = Names
<1>1. Survivors \in Seq(Names) /\ Len(Survivors) \in Nat /\ DOMAIN Survivors = 1..Len(Survivors) /\ n \in Nat
  BY FunnelFacts
<1>2. SubSeq(Survivors, 1, n) = [i \in 1..n |-> Survivors[i]] /\ DOMAIN SubSeq(Survivors, 1, n) = 1..n
  BY <1>1
<1>3. DeepOf(n) = {Survivors[i] : i \in 1..n}
  BY <1>2 DEF DeepOf, Range
<1>4. Names = {Survivors[i] : i \in 1..Len(Survivors)}
  BY <1>1 DEF Names, Range
<1> DEFINE f == [i \in 1..n |-> Survivors[i]]
           T == DeepOf(n)
<1>5. f \in Surjection(1..n, T)
  BY <1>3 DEF Surjection
<1>6. IsFiniteSet(1..n) /\ Cardinality(1..n) = n
  <2>1. IsFiniteSet(1..n) /\ Cardinality(1..n) = IF 1 > n THEN 0 ELSE n - 1 + 1
    BY <1>1, FS_Interval
  <2>2. QED BY <1>1, <2>1
<1> HIDE DEF f, T
<1>7. IsFiniteSet(T) /\ Cardinality(T) <= n
  BY <1>5, <1>6, FS_Surjection
<1>8. Cardinality(T) \in Nat
  BY <1>7, FS_CardinalityType
<1>9. \A i \in 1..n : Survivors[i] \in Names
  BY <1>1
<1>10. T \subseteq Names /\ (n = Len(Survivors) => T = Names)
  BY <1>3, <1>4, <1>9 DEF T
<1>11. QED BY <1>7, <1>8, <1>10 DEF T

LEMMA PlanForm ==
    ASSUME NEW money \in Moneys, NEW light \in BOOLEAN
    PROVE  LET within == plan_under_budget(money, light)
           IN  /\ within.names \subseteq Names
               /\ within.cost > money => within.deep = {} /\ within.cost <= MinNames * (IF light THEN LightCost ELSE DeepCost)
<1> DEFINE deep == IF light THEN DeepOf(DeepCount) ELSE {}
           fits == CardsCost(Names, deep, light) <= money
           tier == IF fits \/ ~light THEN deep ELSE {}
           len == Len(Survivors)
           floor == IF len < MinNames THEN len ELSE MinNames
           affordable == {k \in floor..len : CardsCost(DeepOf(k), tier, light) <= money}
           most == Max(affordable \cup {floor})
           n == IF fits THEN len ELSE most
           price == IF light THEN LightCost ELSE DeepCost
<1>1. plan_under_budget(money, light) = [names |-> DeepOf(n), deep |-> tier, cost |-> CardsCost(DeepOf(n), tier, light)]
  BY DEF plan_under_budget
<1>2. len \in Nat /\ MinNames \in Nat /\ floor \in Nat /\ floor <= len /\ floor <= MinNames /\ price \in Nat
  BY FunnelFacts
<1>3. ~fits => tier = {}
  OBVIOUS
<1>4. fits => tier = deep
  OBVIOUS
<1>5. most \in affordable \cup {floor} /\ affordable \cup {floor} \subseteq 0..len
  <2> DEFINE S == affordable \cup {floor}
  <2>1. S \subseteq 0..len /\ S \in SUBSET Nat /\ S # {}
    BY <1>2
  <2> HIDE DEF S
  <2>2. IsFiniteSet(S)
    <3>1. IsFiniteSet(0..len)
      BY <1>2, FS_Interval
    <3>2. QED BY <2>1, <3>1, FS_Subset
  <2>3. \E k \in S : \A m \in S : m <= k
    BY <2>1, <2>2, LargestNumber
  <2>4. \E k \in S : \A m \in S : k >= m
    BY <2>1, <2>3
  <2>5. Max(S) \in S
    BY <2>4 DEF Max
  <2>6. QED BY <2>1, <2>5 DEF S
<1> HIDE DEF most
<1>6. n \in 0..len
  BY <1>2, <1>5
<1>7. DeepOf(n) \subseteq Names /\ (fits => DeepOf(n) = Names)
  <2>1. fits => n = len
    OBVIOUS
  <2> HIDE DEF n, fits
  <2>2. QED BY <1>6, <2>1, DeepForm
<1>8. ASSUME CardsCost(DeepOf(n), tier, light) > money
      PROVE  tier = {} /\ CardsCost(DeepOf(n), tier, light) <= MinNames * price
  <2>1. ~fits
    <3>1. SUFFICES ASSUME fits PROVE FALSE
      OBVIOUS
    <3>2. CardsCost(DeepOf(n), tier, light) = CardsCost(Names, deep, light)
      BY <1>4, <1>7, <3>1
    <3>3. money \in Nat /\ CardsCost(Names, deep, light) \in Int
      <4>1. Cardinality(Names \cap deep) \in Nat /\ Cardinality(Names \ deep) \in Nat
        <5> HIDE DEF deep
        <5>1. IsFiniteSet(Names \cap deep) /\ IsFiniteSet(Names \ deep)
          BY NamesAreFinite, FS_Intersection, FS_Difference
        <5>2. QED BY <5>1, FS_CardinalityType
      <4> HIDE DEF deep
      <4>2. Cardinality(Names \cap deep) * DeepCost \in Nat /\ Cardinality(Names \ deep) * price \in Nat
        BY <1>2, <4>1, FunnelFacts, CountProduct
      <4>3. money \in Nat
        BY FunnelFacts
      <4>4. QED BY <4>2, <4>3 DEF CardsCost
    <3>4. CardsCost(Names, deep, light) <= money
      BY <3>1
    <3> HIDE DEF deep, tier, n
    <3>5. QED BY <1>8, <3>2, <3>3, <3>4
  <2>2. tier = {}
    BY <1>3, <2>1
  <2>3. n = most
    BY <2>1
  <2> HIDE DEF tier, n, fits
  <2>4. CardsCost(DeepOf(n), {}, light) > money
    BY <1>8, <2>2
  <2> DEFINE cards == Cardinality(DeepOf(n))
  <2>5. cards \in Nat /\ cards <= n
    BY <1>6, DeepForm
  <2>6. CardsCost(DeepOf(n), {}, light) = cards * price /\ cards * price \in Nat
    <3>1. DeepOf(n) \cap {} = {} /\ DeepOf(n) \ {} = DeepOf(n)
      OBVIOUS
    <3>2. Cardinality({}) * DeepCost = 0
      <4>1. Cardinality({}) = 0 /\ DeepCost \in Nat
        BY FS_EmptySet, FunnelFacts
      <4>2. QED BY <4>1
    <3>3. CardsCost(DeepOf(n), {}, light) = 0 + cards * price
      BY <3>1, <3>2 DEF CardsCost
    <3> HIDE DEF price
    <3>4. cards * price \in Nat
      BY <1>2, <2>5, CountProduct
    <3>5. QED BY <3>3, <3>4
  <2>7. n = floor
    <3>1. SUFFICES ASSUME n # floor PROVE FALSE
      OBVIOUS
    <3>2. n \in affordable
      BY <1>5, <2>3, <3>1
    <3>3. CardsCost(DeepOf(n), {}, light) <= money /\ money \in Nat
      BY <2>2, <3>2, FunnelFacts
    <3> HIDE DEF price, cards
    <3>4. QED BY <2>4, <2>6, <3>3
  <2>8. cards <= MinNames
    <3> HIDE DEF floor, cards
    <3>1. QED BY <1>2, <2>5, <2>7
  <2>9. cards * price <= MinNames * price
    <3> HIDE DEF cards, price
    <3>1. PICK d \in Nat : MinNames = cards + d
      <4>1. MinNames - cards \in Nat /\ MinNames = cards + (MinNames - cards)
        BY <1>2, <2>5, <2>8
      <4>2. QED BY <4>1
    <3>2. MinNames * price = cards * price + d * price /\ cards * price \in Nat /\ d * price \in Nat
      BY <1>2, <2>5, <3>1, CountProduct
    <3>3. QED BY <3>2
  <2>10. QED BY <2>2, <2>6, <2>9
<1>9. QED BY <1>1, <1>7, <1>8

LEMMA AnalystsAreAsked ==
    ASSUME step_analyst
    PROVE  phase' = "analysed" /\ rounds' = rounds /\ analyses' \subseteq Names /\ CheaperNeverDrops'
<1>1. PICK money \in Moneys, light \in BOOLEAN, failLight \in SUBSET Names, failDeep \in SUBSET Names :
          LET within == plan_under_budget(money, light)
              done == analyze_tiered(within.names, within.deep, light, failLight, failDeep)
          IN  /\ planned' = within.names \ failDeep /\ deepTier' = within.deep
              /\ bill' = [money |-> money, cost |-> within.cost, light |-> light]
              /\ analyses' = done
  BY DEF step_analyst
<1> DEFINE within == plan_under_budget(money, light)
<1>2. /\ planned' = within.names \ failDeep /\ deepTier' = within.deep
      /\ bill'.money = money /\ bill'.cost = within.cost /\ bill'.light = light
      /\ analyses' = analyze_tiered(within.names, within.deep, light, failLight, failDeep)
  BY <1>1
<1>3. /\ within.names \subseteq Names
      /\ within.cost > money => within.deep = {} /\ within.cost <= MinNames * (IF light THEN LightCost ELSE DeepCost)
  BY PlanForm
<1> HIDE DEF within
<1>4. planned' \subseteq analyses' /\ analyses' \subseteq Names
  BY <1>2, <1>3 DEF analyze_tiered
<1>5. bill'.cost > bill'.money => deepTier' = {} /\ bill'.cost <= MinNames * (IF bill'.light THEN LightCost ELSE DeepCost)
  BY <1>2, <1>3
<1>6. phase' = "analysed" /\ rounds' = rounds
  BY DEF step_analyst
<1>7. QED BY <1>4, <1>5, <1>6 DEF CheaperNeverDrops

-----------------------------------------------------------------------------
(* The rounds of the ranker: what each named is a set of names, and a run that *)
(* analysed nothing asks for none.                                           *)
FunnelTypes ==
    /\ rounds \in Seq(SUBSET (Names \cup {Stranger})) /\ analyses \subseteq Names
    /\ phase = "screened" \/ (phase = "analysed" /\ analyses = {}) => rounds = <<>>

LEMMA RoundsForm ==
    ASSUME FunnelTypes
    PROVE  /\ Len(rounds) \in Nat /\ DOMAIN rounds = 1..Len(rounds)
           /\ \A i \in DOMAIN rounds : IsFiniteSet(rounds[i])
           /\ IsFiniteSet(DOMAIN rounds) /\ Cardinality(DOMAIN rounds) = Len(rounds)
<1>1. Len(rounds) \in Nat /\ DOMAIN rounds = 1..Len(rounds) /\ \A i \in 1..Len(rounds) : rounds[i] \in SUBSET (Names \cup {Stranger})
  BY DEF FunnelTypes
<1>2. \A i \in DOMAIN rounds : IsFiniteSet(rounds[i])
  <2>1. SUFFICES ASSUME NEW i \in DOMAIN rounds PROVE IsFiniteSet(rounds[i])
    OBVIOUS
  <2>2. rounds[i] \in SUBSET (Names \cup {Stranger})
    BY <1>1
  <2>3. QED BY <2>2, NamesAreFinite, FS_Subset
<1>3. IsFiniteSet(1..Len(rounds)) /\ Cardinality(1..Len(rounds)) = Len(rounds)
  <2>1. IsFiniteSet(1..Len(rounds)) /\ Cardinality(1..Len(rounds)) = IF 1 > Len(rounds) THEN 0 ELSE Len(rounds) - 1 + 1
    BY <1>1, FS_Interval
  <2>2. QED BY <1>1, <2>1
<1>4. QED BY <1>1, <1>2, <1>3

LEMMA VotesForm ==
    ASSUME FunnelTypes, NEW t
    PROVE  /\ Votes(t) \in Nat /\ Votes(t) <= Len(rounds) /\ IsFiniteSet({i \in DOMAIN rounds : t \in rounds[i]})
           /\ (\E i \in DOMAIN rounds : t \in rounds[i]) => Votes(t) \in 1..Len(rounds)
<1> DEFINE V == {i \in DOMAIN rounds : t \in rounds[i]}
<1>1. V \in SUBSET DOMAIN rounds /\ Votes(t) = Cardinality(V)
  BY DEF Votes
<1>2. ((\E i \in DOMAIN rounds : t \in rounds[i]) => V # {}) /\ V = {i \in DOMAIN rounds : t \in rounds[i]}
  OBVIOUS
<1> HIDE DEF V
<1>3. IsFiniteSet(V) /\ Cardinality(V) <= Len(rounds)
  BY <1>1, RoundsForm, FS_Subset
<1>4. Cardinality(V) \in Nat /\ (V # {} => Cardinality(V) # 0)
  BY <1>3, FS_CardinalityType, FS_EmptySet
<1>5. QED BY <1>1, <1>2, <1>3, <1>4, RoundsForm

LEMMA OverlapForm ==
    ASSUME FunnelTypes, NEW i \in DOMAIN rounds
    PROVE  IsFiniteSet(rounds[i] \cap Majority) /\ Overlap(i) \in Nat
<1>1. IsFiniteSet(rounds[i] \cap Majority)
  BY RoundsForm, FS_Intersection
<1>2. QED BY <1>1, FS_CardinalityType DEF Overlap

(* Some round holds the most of what half of the rounds named.                *)
LEMMA MergedForm ==
    ASSUME FunnelTypes, rounds # <<>>
    PROVE  _merge_by_majority \in DOMAIN rounds /\ \A j \in DOMAIN rounds : Overlap(j) <= Overlap(_merge_by_majority)
<1> DEFINE D == DOMAIN rounds
           f == [i \in D |-> Overlap(i)]
           S == {f[i] : i \in D}
           T == {i \in D : \A j \in D : Overlap(j) <= Overlap(i)}
<1>1. D = 1..Len(rounds) /\ Len(rounds) \in Nat /\ D # {} /\ IsFiniteSet(D)
  <2>1. Len(rounds) # 0
    BY DEF FunnelTypes
  <2>2. Len(rounds) \in Nat
    BY RoundsForm
  <2>3. 1 \in 1..Len(rounds)
    BY <2>1, <2>2
  <2>4. QED BY <2>3, RoundsForm
<1>2. \A i \in D : f[i] = Overlap(i) /\ Overlap(i) \in Nat
  BY OverlapForm
<1>3. S \in SUBSET Nat /\ S # {} /\ IsFiniteSet(S)
  <2>1. S \in SUBSET Nat /\ S # {}
    BY <1>1, <1>2
  <2>2. DOMAIN f = D /\ f = [i \in D |-> f[i]]
    OBVIOUS
  <2> HIDE DEF f, D
  <2>3. IsFiniteSet(S)
    BY <1>1, <2>2, ImageIsFinite
  <2>4. QED BY <2>1, <2>3
<1>4. T # {} /\ T \in SUBSET Nat
  <2>1. PICK most \in S : \A m \in S : m <= most
    <3> HIDE DEF S
    <3>1. QED BY <1>3, LargestNumber
  <2>2. PICK i \in D : f[i] = most
    OBVIOUS
  <2>3. \A j \in D : Overlap(j) <= Overlap(i)
    <3>1. \A j \in D : f[j] \in S
      OBVIOUS
    <3> HIDE DEF S, f
    <3>2. QED BY <1>2, <2>1, <2>2, <3>1
  <2>4. QED BY <1>1, <2>3
<1>5. _merge_by_majority = Min(T)
  BY DEF _merge_by_majority
<1>6. T \subseteq D /\ \A i \in T : \A j \in D : Overlap(j) <= Overlap(i)
  OBVIOUS
<1> HIDE DEF T, D
<1>7. \E i \in T : \A j \in T : i <= j
  BY <1>4, LeastNumber
<1>8. Min(T) \in T
  BY <1>7 DEF Min
<1>9. QED BY <1>5, <1>6, <1>8 DEF D

(* A list that most rounds gave is all that half of them named.               *)
LEMMA MostIsTheMajority ==
    ASSUME FunnelTypes, NEW i \in DOMAIN rounds,
           2 * Cardinality({j \in DOMAIN rounds : rounds[j] = rounds[i]}) > Len(rounds)
    PROVE  Majority = rounds[i]
<1> DEFINE S == {j \in DOMAIN rounds : rounds[j] = rounds[i]}
           V(t) == {j \in DOMAIN rounds : t \in rounds[j]}
           n == Len(rounds)
<1>1. S \in SUBSET DOMAIN rounds /\ i \in S /\ 2 * Cardinality(S) > n /\ n \in Nat /\ Cardinality(DOMAIN rounds) = n /\ IsFiniteSet(DOMAIN rounds)
  BY RoundsForm
<1>2. IsFiniteSet(S) /\ Cardinality(S) \in Nat
  <2> HIDE DEF S
  <2>1. QED BY <1>1, FS_Subset, FS_CardinalityType
<1>3. ASSUME NEW t \in rounds[i] PROVE t \in Majority
  <2>1. S \in SUBSET V(t) /\ Votes(t) = Cardinality(V(t)) /\ t \in UNION Range(rounds)
    BY DEF Votes, Range
  <2>2. IsFiniteSet(V(t)) /\ Votes(t) \in Nat
    BY VotesForm
  <2> HIDE DEF S, V, n
  <2>3. Cardinality(S) <= Cardinality(V(t))
    BY <2>1, <2>2, FS_Subset
  <2>4. 2 * Votes(t) >= n
    BY <1>1, <1>2, <2>1, <2>2, <2>3
  <2>5. QED BY <2>1, <2>4 DEF Majority, n
<1>4. ASSUME NEW t \in Majority PROVE t \in rounds[i]
  <2>1. 2 * Votes(t) >= n /\ Votes(t) = Cardinality(V(t)) /\ V(t) \subseteq DOMAIN rounds
    BY DEF Majority, Votes
  <2>2. Votes(t) \in Nat
    BY VotesForm
  <2>3. S \cap V(t) # {}
    <3> HIDE DEF S, V, n
    <3>1. Cardinality(S) + Cardinality(V(t)) > Cardinality(DOMAIN rounds)
      BY <1>1, <1>2, <2>1, <2>2
    <3>2. QED BY <1>1, <2>1, <3>1, FS_MajoritiesIntersect
  <2>4. QED BY <2>3
<1>5. QED BY <1>3, <1>4

(* The merge keeps its promises.                                            *)
LEMMA MergeKeepsTheList ==
    ASSUME FunnelTypes, NEW i \in DOMAIN rounds,
           2 * Cardinality({j \in DOMAIN rounds : rounds[j] = rounds[i]}) > Len(rounds)
    PROVE  rounds[i] \subseteq rounds[_merge_by_majority]
<1> DEFINE m == _merge_by_majority
           R == rounds[i]
           B == rounds[m] \cap R
<1>1. Majority = R
  BY MostIsTheMajority
<1>2. rounds # <<>> /\ IsFiniteSet(R)
  BY RoundsForm
<1>3. m \in DOMAIN rounds /\ Overlap(i) <= Overlap(m)
  BY <1>2, MergedForm
<1>4. Overlap(i) = Cardinality(R) /\ Overlap(m) = Cardinality(B) /\ B \in SUBSET R
  <2>1. R \cap R = R
    OBVIOUS
  <2>2. QED BY <1>1, <2>1 DEF Overlap
<1> HIDE DEF R, B, m
<1>5. Cardinality(B) <= Cardinality(R) /\ (Cardinality(R) = Cardinality(B) => R = B) /\ IsFiniteSet(B)
  BY <1>2, <1>4, FS_Subset
<1>6. Cardinality(B) \in Nat /\ Cardinality(R) \in Nat
  BY <1>2, <1>5, FS_CardinalityType
<1>7. R = B
  BY <1>3, <1>4, <1>5, <1>6
<1>8. QED BY <1>7 DEF R, B, m

LEMMA MergeHearsTheMost ==
    ASSUME FunnelTypes, NEW t \in Majority
    PROVE  \E u \in rounds[_merge_by_majority] : u \in Majority
<1> DEFINE m == _merge_by_majority
<1>1. PICK k \in DOMAIN rounds : t \in rounds[k]
  BY DEF Majority, Range
<1>2. rounds # <<>>
  BY <1>1, RoundsForm
<1>3. m \in DOMAIN rounds /\ Overlap(k) <= Overlap(m)
  BY <1>2, MergedForm
<1> HIDE DEF m
<1>4. Overlap(k) \in Nat /\ Overlap(m) \in Nat /\ Overlap(k) # 0
  <2> DEFINE K == rounds[k] \cap Majority
  <2>1. IsFiniteSet(K) /\ K # {} /\ Overlap(k) = Cardinality(K)
    BY <1>1, OverlapForm DEF Overlap
  <2> HIDE DEF K
  <2>2. Cardinality(K) # 0
    BY <2>1, FS_EmptySet
  <2>3. QED BY <1>1, <1>3, <2>1, <2>2, OverlapForm
<1>5. rounds[m] \cap Majority # {}
  <2> DEFINE B == rounds[m] \cap Majority
  <2>1. Overlap(m) = Cardinality(B)
    BY DEF Overlap
  <2> HIDE DEF B
  <2>2. B # {}
    <3>1. SUFFICES ASSUME B = {} PROVE FALSE
      OBVIOUS
    <3>2. Cardinality(B) = 0
      BY <3>1, FS_EmptySet
    <3>3. QED BY <1>3, <1>4, <2>1, <3>2
  <2>3. QED BY <2>2 DEF B
<1>6. QED BY <1>5 DEF m

LEMMA RanksAreMerged == ASSUME FunnelTypes, step_ranker PROVE MajorityListWins'
<1>1. rounds' = rounds /\ phase' = "ranked" /\ phase = "analysed"
  BY DEF step_ranker
<1>2. /\ analyses = {} => rounds = <<>> /\ chosen' = {}
      /\ analyses # {} => rounds # <<>> /\ chosen' = rounds[_merge_by_majority]
  BY <1>1 DEF step_ranker, FunnelTypes
<1>3. agreement' = IF Len(rounds) < 2 \/ Majority = {} THEN <<>> ELSE [t \in chosen' |-> Votes(t)]
  BY DEF step_ranker
<1>4. Len(rounds) \in Nat /\ DOMAIN rounds = 1..Len(rounds)
  BY RoundsForm
<1>5. ASSUME NEW i \in DOMAIN rounds, 2 * Cardinality({j \in DOMAIN rounds : rounds[j] = rounds[i]}) > Len(rounds)
      PROVE  rounds[i] \subseteq chosen'
  <2>1. rounds # <<>>
    BY <1>4
  <2>2. chosen' = rounds[_merge_by_majority]
    BY <1>2, <2>1
  <2>3. rounds[i] \subseteq rounds[_merge_by_majority]
    BY <1>5, MergeKeepsTheList
  <2>4. QED BY <2>2, <2>3
<1>6. ASSUME NEW t \in DOMAIN agreement' PROVE t \in chosen' /\ agreement'[t] \in 1..Len(rounds)
  <2>1. ~(Len(rounds) < 2 \/ Majority = {})
    <3>1. DOMAIN <<>> = {}
      OBVIOUS
    <3>2. QED BY <1>3, <1>6, <3>1
  <2>2. agreement' = [u \in chosen' |-> Votes(u)] /\ t \in chosen' /\ agreement'[t] = Votes(t)
    BY <1>3, <1>6, <2>1
  <2>3. rounds # <<>> /\ chosen' = rounds[_merge_by_majority]
    BY <1>2, <2>2
  <2>4. _merge_by_majority \in DOMAIN rounds
    BY <2>3, MergedForm
  <2>5. Votes(t) \in 1..Len(rounds)
    BY <2>2, <2>3, <2>4, VotesForm
  <2>6. QED BY <2>2, <2>5
<1>7. ASSUME Len(rounds) > 1, NEW t \in Majority PROVE \E u \in chosen' : 2 * agreement'[u] >= Len(rounds)
  <2>1. agreement' = [u \in chosen' |-> Votes(u)]
    BY <1>3, <1>4, <1>7
  <2>2. chosen' = rounds[_merge_by_majority]
    <3>1. rounds # <<>>
      BY <1>7
    <3>2. QED BY <1>2, <3>1
  <2>3. PICK u \in rounds[_merge_by_majority] : u \in Majority
    BY <1>7, MergeHearsTheMost
  <2>4. 2 * Votes(u) >= Len(rounds)
    BY <2>3 DEF Majority
  <2>5. agreement'[u] = Votes(u)
    BY <2>1, <2>2, <2>3
  <2>6. QED BY <2>2, <2>3, <2>4, <2>5
<1>8. Majority' = Majority
  BY <1>1 DEF Majority, Votes
<1> DEFINE Most(i) == 2 * Cardinality({j \in DOMAIN rounds : rounds[j] = rounds[i]}) > Len(rounds)
<1>9. \A i \in DOMAIN rounds : Most(i) => rounds[i] \subseteq chosen'
  BY <1>5
<1>10. \A i \in DOMAIN rounds' : 2 * Cardinality({j \in DOMAIN rounds' : rounds'[j] = rounds'[i]}) > Len(rounds') => rounds'[i] \subseteq chosen'
  BY <1>1, <1>9
<1>11. \A t \in DOMAIN agreement' : t \in chosen' /\ agreement'[t] \in 1..Len(rounds')
  BY <1>1, <1>6
<1>12. Len(rounds') > 1 /\ Majority' # {} => \E u \in chosen' : 2 * agreement'[u] >= Len(rounds')
  BY <1>1, <1>7, <1>8
<1>13. QED BY <1>10, <1>11, <1>12 DEF MajorityListWins

-----------------------------------------------------------------------------
(* The repaired answers.                                                     *)
LEMMA OfTwo ==
    ASSUME NEW a \in Int, NEW b \in Int
    PROVE  /\ Max({a, b}) = IF a >= b THEN a ELSE b
           /\ Min({a, b}) = IF a <= b THEN a ELSE b
<1>1. \E x \in {a, b} : \A y \in {a, b} : x >= y
  OBVIOUS
<1>2. Max({a, b}) \in {a, b} /\ \A y \in {a, b} : Max({a, b}) >= y
  BY <1>1 DEF Max
<1>3. \E x \in {a, b} : \A y \in {a, b} : x =< y
  OBVIOUS
<1>4. Min({a, b}) \in {a, b} /\ \A y \in {a, b} : Min({a, b}) =< y
  BY <1>3 DEF Min
<1> DEFINE x == Max({a, b})
           y == Min({a, b})
<1>5. x \in {a, b} /\ x >= a /\ x >= b /\ y \in {a, b} /\ y <= a /\ y <= b
  BY <1>2, <1>4
<1> HIDE DEF x, y
<1>6. x = (IF a >= b THEN a ELSE b) /\ y = (IF a <= b THEN a ELSE b)
  BY <1>5
<1>7. QED BY <1>6 DEF x, y

LEMMA ClampForm ==
    ASSUME NEW n \in Int, NEW low \in Int, NEW high \in Int, low <= high
    PROVE  /\ Clamp(n, low, high) \in low..high
           /\ Clamp(n, low, high) = IF n < low THEN low ELSE IF n > high THEN high ELSE n
<1>1. Max({n, low}) = IF n >= low THEN n ELSE low
  BY OfTwo
<1> DEFINE m == Max({n, low})
<1>2. m \in Int /\ m = IF n >= low THEN n ELSE low
  BY <1>1
<1> HIDE DEF m
<1>3. Min({m, high}) = IF m <= high THEN m ELSE high
  BY <1>2, OfTwo
<1>4. Clamp(n, low, high) = Min({m, high})
  BY DEF Clamp, m
<1>5. QED BY <1>2, <1>3, <1>4

LEMMA ApartForm == ASSUME NEW a \in Int, NEW b \in Int PROVE Apart(a, b) = IF a >= b THEN a - b ELSE b - a
<1>1. a - b \in Int /\ b - a \in Int
  OBVIOUS
<1>2. Max({a - b, b - a}) = IF a - b >= b - a THEN a - b ELSE b - a
  BY <1>1, OfTwo
<1>3. QED BY <1>2 DEF Apart

LEMMA ReviewsAreRepaired == ASSUME step_review PROVE RepairsStand'
<1>1. PICK answer \in ReviewAnswers : repaired' = [answer |-> answer, used |-> Repaired(answer)]
  BY DEF step_review, Reviews
<1>2. phase' = "reviewed"
  BY DEF step_review
<1> DEFINE used == Repaired(answer)
           calibrated == IF answer.verdict # "HOLD" /\ answer.confidence < 7 THEN "HOLD" ELSE answer.verdict
           said == answer.prose \in Verdicts /\ answer.prose # calibrated
<1>3. /\ answer = [verdict |-> answer.verdict, confidence |-> answer.confidence, prose |-> answer.prose]
      /\ answer.verdict \in Verdicts /\ answer.confidence \in {4, 8} /\ answer.prose \in Verdicts \cup {"none"}
  BY DEF ReviewAnswers
<1>4. used = [verdict |-> IF said THEN answer.prose ELSE calibrated,
              confidence |-> IF said /\ answer.prose # "HOLD" /\ answer.confidence < 7 THEN 7 ELSE answer.confidence,
              prose |-> answer.prose]
  <2> DEFINE v == IF said THEN answer.prose ELSE calibrated
             n == IF said /\ answer.prose # "HOLD" /\ answer.confidence < 7 THEN 7 ELSE answer.confidence
  <2>1. used = [answer EXCEPT !.verdict = v, !.confidence = n]
    BY DEF Repaired
  <2> HIDE DEF used, v, n
  <2>2. used = [verdict |-> v, confidence |-> n, prose |-> answer.prose]
    BY <1>3, <2>1
  <2>3. QED BY <2>2 DEF v, n
<1> HIDE DEF used
<1>5. used.verdict # "HOLD" => used.confidence >= 7
  BY <1>3, <1>4 DEF Verdicts
<1>6. used.prose # "none" => used.verdict = used.prose
  BY <1>3, <1>4 DEF Verdicts
<1>7. used = [verdict |-> used.verdict, confidence |-> used.confidence, prose |-> used.prose] /\ used.confidence \in {4, 7, 8}
  BY <1>3, <1>4
<1>8. Repaired(used) = used
  <2> DEFINE again == IF used.verdict # "HOLD" /\ used.confidence < 7 THEN "HOLD" ELSE used.verdict
  <2>1. again = used.verdict
    BY <1>5, <1>7
  <2>2. ~(used.prose \in Verdicts /\ used.prose # again)
    BY <1>6, <2>1 DEF Verdicts
  <2>3. Repaired(used) = [used EXCEPT !.verdict = used.verdict, !.confidence = used.confidence]
    BY <2>1, <2>2 DEF Repaired
  <2>4. QED BY <1>7, <2>3
<1>9. repaired'.used = used
  BY <1>1 DEF used
<1>10. QED BY <1>2, <1>5, <1>6, <1>8, <1>9 DEF RepairsStand

LEMMA DataForm == ASSUME NEW theme \in ThemeAnswers PROVE data_strength(theme) \in {1, 3, 5, 8, 10}
<1>1. theme.lead \in {-20, -8, 0, 12, 25}
  BY DEF ThemeAnswers
<1> DEFINE n == 5 + theme.lead \div 4
<1>2. n \in {0, 3, 5, 8, 11}
  <2>1. CASE theme.lead = -20
    <3>1. (-20) \div 4 = -5
      OBVIOUS
    <3>2. QED BY <2>1, <3>1
  <2>2. CASE theme.lead = -8
    <3>1. (-8) \div 4 = -2
      OBVIOUS
    <3>2. QED BY <2>2, <3>1
  <2>3. CASE theme.lead = 0
    BY <2>3
  <2>4. CASE theme.lead = 12
    BY <2>4
  <2>5. CASE theme.lead = 25
    BY <2>5
  <2>6. QED BY <1>1, <2>1, <2>2, <2>3, <2>4, <2>5
<1>3. data_strength(theme) = Clamp(n, 1, 10)
  BY DEF data_strength
<1> HIDE DEF n
<1>4. Clamp(n, 1, 10) = IF n < 1 THEN 1 ELSE IF n > 10 THEN 10 ELSE n
  BY <1>2, ClampForm
<1>5. QED BY <1>2, <1>3, <1>4

(* Drawn to what the members did, a claim is nearer to it, and near.          *)
LEMMA DrawnNearer ==
    ASSUME NEW d \in {1, 3, 5, 8, 10}, NEW c \in 1..10
    PROVE  LET r == IF Apart(c, d) <= 3 THEN c ELSE (6 * d + 4 * c + 5) \div 10
           IN  r \in 1..10 /\ Apart(r, d) <= Apart(c, d) /\ Apart(r, d) <= 4
<1> DEFINE r == IF Apart(c, d) <= 3 THEN c ELSE (6 * d + 4 * c + 5) \div 10
<1>1. Apart(c, d) = IF c >= d THEN c - d ELSE d - c
  BY ApartForm
<1>2. r \in 1..10 /\ (c >= d => r >= d /\ r <= c /\ r - d <= 4) /\ (c < d => r >= c /\ r <= d /\ d - r <= 4)
  <2>1. CASE Apart(c, d) <= 3
    BY <1>1, <2>1
  <2>2. CASE ~(Apart(c, d) <= 3)
    <3>1. r = (6 * d + 4 * c + 5) \div 10
      BY <2>2
    <3>2. c - d > 3 \/ d - c > 3
      BY <1>1, <2>2
    <3> HIDE DEF r
    <3>3. CASE d = 1
      BY <3>1, <3>2, <3>3
    <3>4. CASE d = 3
      BY <3>1, <3>2, <3>4
    <3>5. CASE d = 5
      BY <3>1, <3>2, <3>5
    <3>6. CASE d = 8
      BY <3>1, <3>2, <3>6
    <3>7. CASE d = 10
      BY <3>1, <3>2, <3>7
    <3>8. QED BY <3>3, <3>4, <3>5, <3>6, <3>7
  <2>3. QED BY <2>1, <2>2
<1> HIDE DEF r
<1>3. Apart(r, d) = IF r >= d THEN r - d ELSE d - r
  BY <1>2, ApartForm
<1>4. Apart(r, d) <= Apart(c, d) /\ Apart(r, d) <= 4
  BY <1>1, <1>2, <1>3
<1>5. QED BY <1>2, <1>4 DEF r

LEMMA ThemesAreCorrected == ASSUME step_market_themes PROVE RepairsStand'
<1>1. PICK answer \in ThemeAnswers : repaired' = [answer |-> answer, used |-> _correct_theme(answer)]
  BY DEF step_market_themes, Themes
<1>2. phase' = "themed"
  BY DEF step_market_themes
<1> DEFINE used == _correct_theme(answer)
<1>3. answer.claimed \in 1..10 /\ answer.trend \in {"up", "flat", "down"} /\ answer.known \in 2..3 /\ answer.lead \in {-20, -8, 0, 12, 25}
  BY DEF ThemeAnswers
<1>4. CASE answer.known < 3
  <2>1. used.kept = FALSE
    BY <1>4 DEF _correct_theme
  <2>2. repaired'.used = used /\ repaired'.answer = answer
    BY <1>1
  <2> HIDE DEF used
  <2>3. theme_score_bonus(used) = 0
    BY <2>1 DEF theme_score_bonus
  <2>4. QED BY <1>2, <2>1, <2>2, <2>3 DEF RepairsStand
<1>5. CASE ~(answer.known < 3)
  <2> DEFINE d == data_strength(answer)
             r == _reconciled_strength(answer)
             t == _reconciled_trend(answer)
  <2>1. d \in {1, 3, 5, 8, 10}
    BY DataForm
  <2>2. r = IF Apart(answer.claimed, d) <= 3 THEN answer.claimed ELSE (6 * d + 4 * answer.claimed + 5) \div 10
    BY DEF _reconciled_strength
  <2>3. used.kept /\ used.strength = r /\ used.trend = t
    BY <1>5 DEF _correct_theme
  <2>4. t \in {"up", "flat", "down"} /\ ~(t = "up" /\ answer.lead < -5) /\ ~(t = "down" /\ answer.lead > 10)
    <3>1. CASE answer.lead < -5 /\ answer.trend = "up"
      BY <1>3, <3>1 DEF _reconciled_trend
    <3>2. CASE answer.lead > 10 /\ answer.trend = "down"
      BY <1>3, <3>2 DEF _reconciled_trend
    <3>3. CASE ~(answer.lead < -5 /\ answer.trend = "up") /\ ~(answer.lead > 10 /\ answer.trend = "down")
      <4>1. t = answer.trend
        BY <3>3 DEF _reconciled_trend
      <4>2. QED BY <1>3, <3>3, <4>1
    <3>4. QED BY <3>1, <3>2, <3>3
  <2> HIDE DEF d, r, t
  <2>5. r \in 1..10 /\ Apart(r, d) <= Apart(answer.claimed, d) /\ Apart(r, d) <= 4
    BY <1>3, <2>1, <2>2, DrawnNearer
  <2>6. repaired'.used = used /\ repaired'.answer = answer
    BY <1>1
  <2> HIDE DEF used
  <2>7. theme_score_bonus(used) \in 0..12
    <3> DEFINE n == r + (CASE t = "up" -> 2 [] t = "flat" -> 0 [] OTHER -> -1)
    <3>1. n \in Int
      BY <2>4, <2>5
    <3>2. theme_score_bonus(used) = Clamp(n, 0, 12)
      BY <2>3 DEF theme_score_bonus
    <3> HIDE DEF n
    <3>3. Clamp(n, 0, 12) \in 0..12
      <4>1. \A m \in Int : \A low \in Int : \A high \in Int : low <= high => Clamp(m, low, high) \in low..high
        BY ONLY ClampForm
      <4>2. 0 \in Int /\ 12 \in Int /\ 0 <= 12
        OBVIOUS
      <4>3. QED BY ONLY <3>1, <4>1, <4>2
    <3>4. QED BY <3>2, <3>3
  <2>8. QED BY <1>2, <2>3, <2>4, <2>5, <2>6, <2>7 DEF RepairsStand, d
<1>6. QED BY <1>4, <1>5

-----------------------------------------------------------------------------
(* The funnel, step by step.                                                 *)
FunnelInv == FunnelTypes /\ PicksAreSound

LEMMA FunnelStartsSound == FunnelInit => FunnelInv
<1>1. SUFFICES ASSUME FunnelInit PROVE FunnelInv
  OBVIOUS
<1>2. phase = "screened" /\ rounds = <<>> /\ analyses = {}
  BY <1>1 DEF FunnelInit
<1>3. FunnelTypes
  BY <1>2 DEF FunnelTypes
<1>4. PicksAreSound
  BY <1>2 DEF PicksAreSound, RepairsStand, CheaperNeverDrops, MajorityListWins, SizesKeepTheirCaps
<1>5. QED BY <1>3, <1>4 DEF FunnelInv

LEMMA RoundsStay == ASSUME FunnelTypes, FunnelNext PROVE FunnelTypes'
<1>1. CASE step_review
  BY <1>1 DEF step_review, FunnelTypes
<1>2. CASE step_market_themes
  BY <1>2 DEF step_market_themes, FunnelTypes
<1>3. CASE step_analyst
  <2>1. phase = "screened"
    BY <1>3 DEF step_analyst
  <2>2. phase' = "analysed" /\ rounds' = rounds /\ analyses' \subseteq Names
    BY <1>3, AnalystsAreAsked
  <2>3. QED BY <2>1, <2>2 DEF FunnelTypes
<1>4. CASE RunRound
  <2>1. PICK answer \in Answers : rounds' = Append(rounds, answer)
    BY <1>4 DEF RunRound
  <2>2. answer \in SUBSET (Names \cup {Stranger})
    BY DEF Answers, AtMost, FunnelTypes
  <2>3. rounds' \in Seq(SUBSET (Names \cup {Stranger}))
    BY <2>1, <2>2 DEF FunnelTypes
  <2>4. phase' = "analysed" /\ analyses' = analyses /\ analyses # {}
    BY <1>4 DEF RunRound
  <2>5. QED BY <2>3, <2>4 DEF FunnelTypes
<1>5. CASE step_ranker
  BY <1>5 DEF step_ranker, FunnelTypes
<1>6. CASE step_macro_veto
  BY <1>6 DEF step_macro_veto, FunnelTypes
<1>7. CASE step_sizer
  BY <1>7 DEF step_sizer, FunnelTypes
<1>8. QED BY <1>1, <1>2, <1>3, <1>4, <1>5, <1>6, <1>7 DEF FunnelNext

LEMMA PicksStaySound == ASSUME FunnelTypes, FunnelNext PROVE PicksAreSound'
<1>1. CASE step_review
  <2>1. phase' = "reviewed" /\ RepairsStand'
    BY <1>1, ReviewsAreRepaired DEF step_review
  <2>2. QED BY <2>1 DEF PicksAreSound, CheaperNeverDrops, MajorityListWins, SizesKeepTheirCaps
<1>2. CASE step_market_themes
  <2>1. phase' = "themed" /\ RepairsStand'
    BY <1>2, ThemesAreCorrected DEF step_market_themes
  <2>2. QED BY <2>1 DEF PicksAreSound, CheaperNeverDrops, MajorityListWins, SizesKeepTheirCaps
<1>3. CASE step_analyst
  <2>1. phase' = "analysed" /\ CheaperNeverDrops'
    BY <1>3, AnalystsAreAsked
  <2>2. QED BY <2>1 DEF PicksAreSound, RepairsStand, MajorityListWins, SizesKeepTheirCaps
<1>4. CASE RunRound
  <2>1. phase' = "analysed"
    BY <1>4 DEF RunRound
  <2>2. PICK answer : rounds' = Append(rounds, answer)
    BY <1>4 DEF RunRound
  <2>3. rounds' # <<>>
    BY <2>2 DEF FunnelTypes
  <2>4. QED BY <2>1, <2>3 DEF PicksAreSound, RepairsStand, CheaperNeverDrops, MajorityListWins, SizesKeepTheirCaps
<1>5. CASE step_ranker
  <2>1. phase' = "ranked" /\ MajorityListWins'
    BY <1>5, RanksAreMerged DEF step_ranker
  <2>2. QED BY <2>1 DEF PicksAreSound, RepairsStand, CheaperNeverDrops, SizesKeepTheirCaps
<1>6. CASE step_macro_veto
  <2>1. phase' = "vetoed"
    BY <1>6 DEF step_macro_veto
  <2>2. QED BY <2>1 DEF PicksAreSound, RepairsStand, CheaperNeverDrops, MajorityListWins, SizesKeepTheirCaps
<1>7. CASE step_sizer
  <2>1. phase' = "sized" /\ SizesKeepTheirCaps'
    BY <1>7, CapsHold DEF step_sizer
  <2>2. QED BY <2>1 DEF PicksAreSound, RepairsStand, CheaperNeverDrops, MajorityListWins
<1>8. QED BY <1>1, <1>2, <1>3, <1>4, <1>5, <1>6, <1>7 DEF FunnelNext

LEMMA FunnelRests == ASSUME FunnelInv, UNCHANGED funnelVars PROVE FunnelInv'
<1>1. /\ phase' = phase /\ planned' = planned /\ deepTier' = deepTier /\ bill' = bill /\ analyses' = analyses
      /\ rounds' = rounds /\ chosen' = chosen /\ agreement' = agreement /\ sizing' = sizing /\ repaired' = repaired
  BY DEF funnelVars
<1>2. FunnelTypes'
  BY <1>1 DEF FunnelTypes, FunnelInv
<1>3. RepairsStand' /\ CheaperNeverDrops'
  BY <1>1 DEF FunnelInv, PicksAreSound, RepairsStand, CheaperNeverDrops
<1>4. MajorityListWins'
  BY <1>1 DEF FunnelInv, PicksAreSound, MajorityListWins, Majority, Votes
<1>5. SizesKeepTheirCaps'
  BY <1>1 DEF FunnelInv, PicksAreSound, SizesKeepTheirCaps, ShareOf
<1>6. QED BY <1>2, <1>3, <1>4, <1>5 DEF FunnelInv, PicksAreSound

LEMMA FunnelStaysSound == FunnelInv /\ (FunnelNext \/ UNCHANGED funnelVars) => FunnelInv'
BY RoundsStay, PicksStaySound, FunnelRests DEF FunnelInv

(* Between the survivors and the sized picks no candidate is lost to a cheaper *)
(* model, the list most rounds gave is picked, the caps hold whatever the     *)
(* sizer asks, and a repaired answer is at rest; and what options are offered  *)
(* leaves nothing naked (OffersHoldUp).                                      *)
THEOREM OffersDoHoldUp == PlanningSpec => []OffersHoldUp
<1>1. PlanningInit => DeskInv /\ FunnelInv
  BY DeskStartsSound, FunnelStartsSound DEF PlanningInit
<1>2. ASSUME DeskInv, FunnelInv, [PipelineStep \/ PlanStep \/ ReportStep \/ FunnelStep \/ DeskStep]_<<which, vars, planVars, repVars, funnelVars, deskVars>>
      PROVE  DeskInv' /\ FunnelInv'
  <2>1. (DeskNext \/ UNCHANGED deskVars) /\ (FunnelNext \/ UNCHANGED funnelVars)
    BY <1>2 DEF PipelineStep, PlanStep, ReportStep, FunnelStep, DeskStep
  <2>2. QED BY <1>2, <2>1, DeskStaysSound, FunnelStaysSound
<1>3. DeskInv /\ FunnelInv => OffersHoldUp
  BY DeskInvIsSound DEF OffersHoldUp, FunnelInv
<1>4. QED BY <1>1, <1>2, <1>3, PTL DEF PlanningSpec
================================================================================
