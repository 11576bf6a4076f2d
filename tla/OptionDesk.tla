------------------------------ MODULE OptionDesk ------------------------------
(***************************************************************************)
(* What options the rebalance may write, week after week: the calls on shares *)
(* no call is written on yet, the puts that free cash secures, and the roll    *)
(* of a call the stock has run at.  A week offers calls, then puts; some of    *)
(* them are written; and some of what is open expires or is exercised.        *)
(*                                                                         *)
(* Chains come from two sources, of which either may be away, and the broker   *)
(* may not tell an account's options or its cash.  One answer of the sources   *)
(* stands for those on all the names asked.  Days count from today; a delta    *)
(* or a volatility of 0 is one the source has not.                           *)
(***************************************************************************)
EXTENDS Integers, FiniteSets, FiniteSetsExt, Functions

CONSTANTS
    Underlyings, Sweeps, Barred, Picked,  \* names held or picked; those that are cash; the denylist; the picks
    Holders, Allowances,                  \* the accounts; what OPTIONS_ACCOUNTS may be, empty for all
    LOT, Spot, Books, Purses,             \* shares a contract is on; prices; the shares and the cash to begin with
    CallMenu, PutMenu, RollMenu, Legs,    \* rows of the chains; calls that may be open
    CallDays, PutDays, RollDays,          \* the windows: <<dte_min, dte_max>>
    Band, Upside, STRIKE_GAIN, MinRatio, YieldFloor, StubMin, PerPut, InPuts,  \* the policy, in hundredths
    EARNINGS_BLACKLIST_DAYS, Reports, Realized,      \* when the company may report, how the stock may have moved
    RowCap, MaxOffered, LastWeek, OddWeeks

Quote == [expiry : Nat, strike : Nat, bid : Nat, ask : Nat, delta : Nat, iv : Nat, estimate : Nat]

ASSUME DeskAssumption ==
    /\ IsFiniteSet(Underlyings) /\ IsFiniteSet(Holders) /\ Picked \subseteq Underlyings
    /\ Allowances \subseteq SUBSET Holders /\ Spot \in [Underlyings -> Nat]
    /\ Books \subseteq [Underlyings -> [Holders -> Nat]] /\ Purses \subseteq [Holders -> Nat]
    /\ {LOT, STRIKE_GAIN, InPuts} \subseteq Nat \ {0}
    /\ {Upside, MinRatio, PerPut, EARNINGS_BLACKLIST_DAYS} \cup Reports \cup Realized \subseteq Nat
ASSUME ChainAssumption ==
    /\ \A menu \in {CallMenu, PutMenu, RollMenu} : IsFiniteSet(menu) /\ menu \subseteq Quote
    /\ Legs \subseteq [strike : Nat \ {0}, expiry : Nat]
    /\ {CallDays, PutDays, RollDays} \subseteq Nat \X Nat /\ CallDays[2] <= RollDays[2]

VARIABLES
    side, deskPhase, week,
    allowed,                \* OPTIONS_ACCOUNTS
    shares, calls,          \* by name and account; contracts written
    puts, purse,            \* collateral of written puts by name and account; cash by account
    offer,                  \* what this week's run offers
    room,                   \* cash free for puts, of each account and together
    unread,                 \* accounts whose calls, or whose puts, a run once did not see
    advice                  \* the roll that is named

deskVars == <<side, deskPhase, week, allowed, shares, calls, puts, purse, offer, room, unread, advice>>

AtLeast0(x) == IF x > 0 THEN x ELSE 0
Writers == IF allowed = {} THEN Holders ELSE allowed
Best(rows, better(_, _)) == {q \in rows : \A r \in rows : ~better(r, q)}
NoOffer == [calls |-> {}, puts |-> {}, rows |-> {}, ready |-> {}, held |-> {}, stubs |-> {}, note |-> "", reports |-> 0, spot |-> 0, source |-> "none", hv |-> 0]
NoAdvice == [kind |-> "", leg |-> [strike |-> 0], roll |-> {}, rows |-> {}]

-----------------------------------------------------------------------------
(* The chains.  Tradier is asked first and has deltas; without its price every *)
(* strike is kept.  Yahoo's chain needs a price.                            *)
Words(menu) ==
    {w \in [answering : SUBSET {"tradier", "yahoo"}, rows : SUBSET menu, quoted : BOOLEAN] :
        (w.answering = {} => w.rows = {}) /\ (w.quoted \/ "tradier" \in w.answering)}

(* What a week's run is told besides; after the first OddWeeks all is well.    *)
Tidings(menu) ==
    IF week <= OddWeeks THEN [word : Words(menu), reports : Reports, hv : Realized]
    ELSE {[word |-> [answering |-> {"tradier", "yahoo"}, rows |-> menu, quoted |-> TRUE], reports |-> 0, hv |-> 0]}

InWindow(rows, days) == {q \in rows : q.expiry \in days[1]..days[2]}
OutOfTheMoney(q, kind, spot) == spot = 0 \/ (IF kind = "calls" THEN q.strike > spot ELSE q.strike < spot)

TradierChain(word, days, kind, price) ==
    LET spot == IF word.quoted THEN price ELSE 0
    IN  [source |-> "tradier", spot |-> spot,
         rows |-> {q \in InWindow(word.rows, days) : OutOfTheMoney(q, kind, spot)}]
YFinanceChain(word, days, kind, price) ==
    [source |-> "yfinance", spot |-> price,
     rows |-> {[q EXCEPT !.delta = 0] : q \in {r \in InWindow(word.rows, days) : OutOfTheMoney(r, kind, price)}}]
fetch_chains(word, days, kind, price) ==
    IF "tradier" \in word.answering THEN TradierChain(word, days, kind, price)
    ELSE IF "yahoo" \in word.answering THEN YFinanceChain(word, days, kind, price)
    ELSE [source |-> "missing", spot |-> 0, rows |-> {}]

(* No expiry within a week of a report that is known.                        *)
\* The window's last day is let through.
apply_earnings_filterMutant(rows, reports) ==
    {q \in rows : reports = 0 \/ q.expiry < reports - EARNINGS_BLACKLIST_DAYS \/ q.expiry >= reports + EARNINGS_BLACKLIST_DAYS}
apply_earnings_filter(rows, reports) ==
    {q \in rows : reports = 0 \/ q.expiry < reports - EARNINGS_BLACKLIST_DAYS \/ q.expiry > reports + EARNINGS_BLACKLIST_DAYS}

(* Options are cheap when they pay less than the stock has moved; where either *)
(* is not known they are not.                                              *)
compute_iv_hv_regime(rows, hv) ==
    LET told == {q \in rows : q.iv > 0}
    IN  [known |-> hv > 0 /\ told # {}, iv |-> SumFunction([q \in told |-> q.iv]), of |-> hv * Cardinality(told)]
drop_cheap_premium(names, rows, hv) ==
    LET regime == compute_iv_hv_regime(rows, hv)
    IN  IF ~regime.known \/ 100 * regime.iv >= MinRatio * regime.of THEN names ELSE {}

(* The first rows, as the sources list them: by expiry, then strike.          *)
FirstRows(rows) ==
    {q \in rows : Cardinality({r \in rows : r.expiry < q.expiry \/ (r.expiry = q.expiry /\ r.strike < q.strike)}) < RowCap}

-----------------------------------------------------------------------------
(* Calls: accounts with a lot of shares that no call the broker told of is on. *)
\* A lot that backs a call is offered again.
AvailableMutant(n, a, read) == shares[n][a]
Available(n, a, read) == shares[n][a] - LOT * (IF a \in read THEN calls[n][a] ELSE 0)
eligible_holdings_per_account(read) ==
    {h \in (Underlyings \ (Barred \cup Sweeps)) \X Writers : shares[h[1]][h[2]] >= LOT /\ Available(h[1], h[2], read) >= LOT}
Exposure(n, held, read) == Spot[n] * SumFunction([a \in {b \in Holders : <<n, b>> \in held} |-> Available(n, a, read)])
resolve_eligible_holdings(held, read) ==
    LET names == {h[1] : h \in held}
        kept == {n \in names : Cardinality({m \in names : Exposure(m, held, read) > Exposure(n, held, read)}) < MaxOffered}
    IN  {h \in held : h[1] \in kept}

(* Part lots worth completing, with the best call that keeps the policy.       *)
round_lot_coverage(n) == SumFunction(shares[n]) % LOT
KeepsPolicy(q, price) == q.delta \in Band[1]..Band[2] /\ q.bid > 0 /\ 100 * q.strike >= price * (100 + Upside)
_best_in_band_premiums(rows, price) == Best({q \in rows : KeepsPolicy(q, price)}, LAMBDA p, q : p.bid > q.bid)
stub_income(word) ==
    {[name |-> n, missing |-> LOT - round_lot_coverage(n),
      pays |-> _best_in_band_premiums(fetch_chains(word, CallDays, "calls", Spot[n]).rows, Spot[n])] :
        n \in {m \in Underlyings \ Sweeps : Spot[m] > 0 /\ round_lot_coverage(m) * Spot[m] >= StubMin /\ round_lot_coverage(m) > 0}}

run_cc_data_pipeline ==
    /\ side = "calls" /\ deskPhase = "offer"
    /\ \E read \in SUBSET Holders, t \in Tidings(CallMenu) :
         LET held == resolve_eligible_holdings(eligible_holdings_per_account(read), read)
             price == Max({Spot[h[1]] : h \in held} \cup {0})
             chain == fetch_chains(t.word, CallDays, "calls", price)
             rows == apply_earnings_filter(chain.rows, t.reports)
             names == drop_cheap_premium({h[1] : h \in held}, rows, t.hv)
         IN  /\ offer' = [NoOffer EXCEPT !.held = {h[1] : h \in held},
                             !.calls = {[name |-> h[1], account |-> h[2], lots |-> Available(h[1], h[2], read) \div LOT] : h \in {g \in held : g[1] \in names}},
                             !.rows = FirstRows(rows), !.ready = rows, !.stubs = stub_income(t.word), !.reports = t.reports,
                             !.spot = chain.spot, !.source = chain.source, !.hv = t.hv]
             /\ unread' = [unread EXCEPT !.calls = @ \cup (Holders \ read)]
    /\ deskPhase' = "write"
    /\ UNCHANGED <<side, week, allowed, shares, calls, puts, purse, room, advice>>

(* The owner writes what the plan's checks let through of the offer.          *)
WriteCall ==
    /\ side = "calls" /\ deskPhase = "write" /\ offer.rows # {}
    /\ \E c \in offer.calls : \E k \in 1..c.lots :
         /\ calls' = [calls EXCEPT ![c.name][c.account] = @ + k]
         /\ offer' = [offer EXCEPT !.calls = @ \ {c}, !.held = @ \ {c.name}]
    /\ UNCHANGED <<side, deskPhase, week, allowed, shares, puts, purse, room, unread, advice>>

-----------------------------------------------------------------------------
(* Puts: the cash of each account that may write, less what its puts hold.     *)
Pledged(a) == SumFunction([n \in Underlyings |-> puts[n][a]])
\* The pledged cash is counted again.
_account_roomMutant(listed, read) == [a \in listed \cap Writers |-> purse[a]]
_account_room(listed, read) ==
    [a \in listed \cap Writers |-> AtLeast0(purse[a] - (IF a \in read THEN Pledged(a) ELSE 0))]
_put_budget(listed, read) ==
    LET free == _account_room(listed, read)
        all == SumFunctionOnSet(purse, listed) - SumFunction([a \in read |-> Pledged(a)])
        total == IF DOMAIN free # {} THEN SumFunction(free) ELSE AtLeast0(all)
    IN  [free |-> free, total |-> total]

_put_candidates(budget, read) ==
    {n \in Picked \ Barred :
        /\ budget.total > 0
        /\ \A a \in read : puts[n][a] = 0
        /\ \A a \in Holders : shares[n][a] < LOT}
MaxCollateral(budget) ==
    Min({(budget.total * PerPut) \div 100, (budget.total * InPuts) \div 100}
            \cup (IF DOMAIN budget.free = {} THEN {} ELSE {Max(Range(budget.free))}))

fill_put_deltas(rows, spot) ==
    {IF q.delta = 0 /\ q.iv > 0 /\ spot > 0 THEN [q EXCEPT !.delta = q.estimate] ELSE q : q \in rows}
Pays(q) == LET twice == IF q.bid > 0 /\ q.ask > 0 THEN q.bid + q.ask ELSE 2 * (IF q.bid > q.ask THEN q.bid ELSE q.ask)
           IN  q.expiry > 0 /\ twice * 18250 >= YieldFloor * q.strike * q.expiry
InBand(q) == q.delta \in (Band[1] - 1)..(Band[2] + 1)
puts_near_band(rows, most) == FirstRows({q \in rows : q.delta > 0 /\ InBand(q) /\ q.strike * LOT <= most})

_blocked_note(rows, budget) ==
    IF rows = {} THEN "no chain"
    ELSE IF Min({q.strike : q \in rows}) * LOT * 100 > budget.total * PerPut THEN "cap" ELSE "band"

(* What is offered, and why nothing is when there were candidates.           *)
PutOffer(names, chain, reports, hv, budget) ==
    LET filled == fill_put_deltas(apply_earnings_filter(chain.rows, reports), chain.spot)
        dear == drop_cheap_premium(names, filled, hv)
        paying == IF YieldFloor = 0 THEN filled ELSE {q \in filled : Pays(q)}
        worth == IF paying = {} /\ YieldFloor > 0 THEN {} ELSE dear
        shown == IF worth = {} \/ chain.spot = 0 THEN {} ELSE puts_near_band(paying, MaxCollateral(budget))
    IN  [puts |-> worth, rows |-> shown, ready |-> IF worth = {} THEN {} ELSE paying,
         note |-> IF names = {} \/ shown # {} THEN "" ELSE IF dear = {} THEN "cheap"
                  ELSE IF worth = {} THEN "yield" ELSE _blocked_note(paying, budget)]

run_csp_data_pipeline ==
    /\ side = "puts" /\ deskPhase = "offer"
    /\ \E listed, read \in SUBSET Holders, t \in Tidings(PutMenu) :
         LET budget == _put_budget(listed, read)
             names == IF listed = {} THEN {} ELSE _put_candidates(budget, read)
             chain == fetch_chains(t.word, PutDays, "puts", Max({Spot[n] : n \in Picked}))
             found == PutOffer(names, chain, t.reports, t.hv, budget)
         IN  /\ offer' = [NoOffer EXCEPT !.held = names, !.puts = found.puts, !.rows = found.rows, !.ready = found.ready,
                             !.note = found.note, !.reports = t.reports, !.spot = chain.spot, !.source = chain.source, !.hv = t.hv]
             /\ room' = [free |-> budget.free, total |-> (budget.total * InPuts) \div 100]
             /\ unread' = [unread EXCEPT !.puts = @ \cup (Holders \ read) \cup (IF DOMAIN budget.free = {} THEN Holders ELSE {})]
    /\ deskPhase' = "write"
    /\ UNCHANGED <<side, week, allowed, shares, calls, puts, purse, advice>>

(* A put goes to an account with the room for it; without any account's room   *)
(* only all the puts together are limited.                                   *)
WritePut ==
    /\ side = "puts" /\ deskPhase = "write" /\ offer.rows # {}
    /\ \E n \in offer.puts, q \in {r \in offer.ready : InBand(r)}, a \in IF DOMAIN room.free = {} THEN Holders ELSE DOMAIN room.free :
         /\ q.strike * LOT <= room.total /\ (a \in DOMAIN room.free => q.strike * LOT <= room.free[a])
         /\ puts' = [puts EXCEPT ![n][a] = @ + q.strike * LOT]
         /\ room' = [free |-> [b \in DOMAIN room.free |-> room.free[b] - (IF b = a THEN q.strike * LOT ELSE 0)], total |-> room.total - q.strike * LOT]
         /\ offer' = [offer EXCEPT !.puts = @ \ {n}]
    /\ UNCHANGED <<side, deskPhase, week, allowed, shares, calls, purse, unread, advice>>
OffersAreClosed ==
    /\ deskPhase = "write" /\ deskPhase' = "week" /\ offer' = NoOffer /\ room' = [free |-> <<>>, total |-> 0]
    /\ UNCHANGED <<side, week, allowed, shares, calls, puts, purse, unread, advice>>

(* Calls run out or take their shares; a put runs out, or turns cash to shares.*)
CallEnds(n, a) ==
    /\ deskPhase = "week" /\ calls[n][a] > 0
    /\ \E called \in {0, LOT} : shares' = [shares EXCEPT ![n][a] = AtLeast0(@ - called)]
    /\ calls' = [calls EXCEPT ![n][a] = @ - 1]
    /\ UNCHANGED <<side, deskPhase, week, allowed, puts, purse, offer, room, unread, advice>>
PutEnds(n, a) ==
    /\ deskPhase = "week" /\ puts[n][a] > 0
    /\ \/ UNCHANGED <<shares, purse>>
       \/ shares' = [shares EXCEPT ![n][a] = @ + LOT] /\ purse' = [purse EXCEPT ![a] = AtLeast0(@ - puts[n][a])]
    /\ puts' = [puts EXCEPT ![n][a] = 0]
    /\ UNCHANGED <<side, deskPhase, week, allowed, calls, offer, room, unread, advice>>
NextWeek ==
    /\ deskPhase = "week" /\ week < LastWeek
    /\ week' = week + 1 /\ deskPhase' = "offer"
    /\ UNCHANGED <<side, allowed, shares, calls, puts, purse, offer, room, unread, advice>>

-----------------------------------------------------------------------------
(* Rolls: buying an open call back at the ask, selling a higher one at the bid.*)
Net(roll, leg) == roll.bid - (CHOOSE q \in RollMenu : q.strike = leg.strike /\ q.expiry = leg.expiry).ask
roll_candidates(leg, rows, price, last) ==
    IF ~\E q \in rows : q.strike = leg.strike /\ q.expiry = leg.expiry /\ q.ask > 0 THEN {}
    ELSE {q \in rows :
            /\ ~(q.expiry < leg.expiry /\ q.strike <= leg.strike)
            /\ q.expiry <= last
            /\ 100 * q.strike >= price * (100 + Upside)
            /\ 100 * q.strike >= leg.strike * (100 + STRIKE_GAIN)
            /\ (q.delta = 0 \/ q.delta <= Band[2]) /\ q.bid > 0}

(* The soonest that pays; of two of a day the higher; else the cheapest.      *)
Sooner(p, q) == p.expiry < q.expiry \/ (p.expiry = q.expiry /\ p.strike > q.strike)
\* The largest credit is named.
best_rollMutant(candidates, leg) == Best(candidates, LAMBDA p, q : Net(p, leg) > Net(q, leg))
best_roll(candidates, leg) ==
    LET paying == {q \in candidates : Net(q, leg) >= 0}
    IN  IF paying # {} THEN Best(paying, Sooner) ELSE Best(candidates, LAMBDA p, q : Net(p, leg) > Net(q, leg))
PaysForItself(found, leg) == \E q \in found : Net(q, leg) >= 0

roll_suggestion ==
    /\ side = "roll" /\ deskPhase = "offer"
    /\ \E legs \in (SUBSET Legs) \ {{}}, word \in Words(RollMenu) :
         LET price == Max({Spot[n] : n \in Underlyings})
             leg == CHOOSE l \in legs : \A m \in legs : l.strike < m.strike \/ (l.strike = m.strike /\ l.expiry <= m.expiry)
             chain == fetch_chains(word, RollDays, "calls", price)
             rows == IF chain.spot = 0 THEN {} ELSE chain.rows
             near == best_roll(roll_candidates(leg, rows, price, CallDays[2]), leg)
             far == best_roll(roll_candidates(leg, rows, price, RollDays[2]), leg)
         IN  /\ chain.source # "missing"
             /\ advice' = [leg |-> leg, rows |-> rows,
                           kind |-> IF PaysForItself(near, leg) THEN "pays" ELSE IF PaysForItself(far, leg) THEN "further"
                                    ELSE IF near # {} THEN "costs" ELSE "none",
                           roll |-> IF PaysForItself(near, leg) THEN near ELSE IF PaysForItself(far, leg) THEN far ELSE near]
    /\ deskPhase' = "rolled"
    /\ UNCHANGED <<side, week, allowed, shares, calls, puts, purse, offer, room, unread>>

-----------------------------------------------------------------------------
DeskInit ==
    /\ side \in {"calls", "puts", "roll"} /\ deskPhase = "offer" /\ week = 1 /\ allowed \in Allowances
    /\ shares \in Books /\ purse \in Purses
    /\ calls = [n \in Underlyings |-> [a \in Holders |-> 0]]
    /\ puts = [n \in Underlyings |-> [a \in Holders |-> 0]]
    /\ offer = NoOffer /\ advice = NoAdvice
    /\ room = [free |-> <<>>, total |-> 0]
    /\ unread = [calls |-> {}, puts |-> {}]

DeskNext ==
    \/ run_cc_data_pipeline \/ WriteCall
    \/ run_csp_data_pipeline \/ WritePut \/ OffersAreClosed
    \/ \E n \in Underlyings, a \in Holders : CallEnds(n, a) \/ PutEnds(n, a)
    \/ NextWeek \/ roll_suggestion
DeskSpec == DeskInit /\ [][DeskNext]_deskVars

-----------------------------------------------------------------------------
(* Week after week, no call is written on shares that back one and no put on   *)
(* cash that secures one, in the accounts whose options every run could read  *)
(* (a run that could not counts them as none) and when some account that may   *)
(* write has its cash listed.                                              *)
NothingIsNaked ==
    /\ \A n \in Underlyings, a \in Holders \ unread.calls : LOT * calls[n][a] <= shares[n][a]
    /\ \A a \in Holders \ unread.puts : Pledged(a) <= purse[a]

(* A row that is shown ends in its window and no day within a week of the      *)
(* report, whichever source told it, and what is shown of a name with calls    *)
(* is out of the money unless nobody told the price.                        *)
RowsKeepTheirDays ==
    \A q \in offer.rows :
        LET days == IF side = "calls" THEN CallDays ELSE PutDays
            apart == IF q.expiry > offer.reports THEN q.expiry - offer.reports ELSE offer.reports - q.expiry
        IN  /\ q.expiry >= days[1] /\ q.expiry <= days[2]
            /\ offer.reports # 0 => apart > EARNINGS_BLACKLIST_DAYS
            /\ offer.spot > 0 /\ side = "calls" => q.strike > offer.spot

(* A name is held back for its price only on evidence, and silence about puts  *)
(* is explained whenever there was a candidate.                             *)
HeldBackOnEvidence ==
    /\ side = "calls" =>
          \A n \in offer.held : (\A c \in offer.calls : c.name # n) =>
              \E q \in offer.ready : 0 < q.iv /\ 100 * q.iv < MinRatio * offer.hv
    /\ side = "puts" /\ offer.held # {} /\ offer.rows = {} => offer.note # ""
    /\ offer.note = "cap" => \A q \in offer.ready : \A n \in offer.puts : q.strike * LOT * 100 > PerPut * ((room.total * 100) \div InPuts)

(* The roll that is named is of the lowest strike, lifts it clear of the price, *)
(* and is the soonest of all that pay, in the window or past it; one that costs *)
(* is named only when none pays, and is then the cheapest of the window.       *)
SoonestRollIsNamed ==
    advice.kind # "" =>
        LET leg == advice.leg
            all == roll_candidates(leg, advice.rows, Max({Spot[n] : n \in Underlyings}), RollDays[2])
            paying == {q \in all : Net(q, leg) >= 0}
        IN  /\ paying # {} <=> advice.kind \in {"pays", "further"}
            /\ \A q \in advice.roll :
                 /\ q.strike > leg.strike
                 /\ paying # {} => Net(q, leg) >= 0 /\ \A p \in paying : p.expiry > q.expiry \/ (p.expiry = q.expiry /\ p.strike <= q.strike)
                 /\ paying = {} => \A p \in all : p.expiry <= CallDays[2] => Net(p, leg) <= Net(q, leg)
            /\ (advice.kind = "pays") => \A q \in advice.roll : q.expiry <= CallDays[2]

DeskIsSound == NothingIsNaked /\ RowsKeepTheirDays /\ HeldBackOnEvidence /\ SoonestRollIsNamed
=============================================================================
