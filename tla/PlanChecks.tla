------------------------------ MODULE PlanChecks ------------------------------
(***************************************************************************)
(* What stands between the rebalancer's answer and an order: step_rebalance *)
(* and the arithmetic it runs on the plan.  Sales against shares that back  *)
(* a written call, buys against the cash a dropped sale took with it, the   *)
(* single-stock cap, covered calls, cash-secured puts.                      *)
(*                                                                         *)
(* A sizing is what the readers can make of the free text: shares, dollars, *)
(* a whole position, contracts, or nothing.  A strike is "good" (on the      *)
(* chain, within the delta, expiry and upside rules), "outside" the rules,   *)
(* or "invented" (not on the chain).                                        *)
(***************************************************************************)
EXTENDS Integers, Sequences, FiniteSets, SequencesExt, FiniteSetsExt, Functions

CONSTANTS
    Tickers, Accounts,
    Units,        \* shares held, by ticker and account
    Price,        \* dollars a share
    OpenCalls,    \* short calls, by ticker and account
    OpenPuts,     \* cash that secures short puts, by ticker and account
    Cash,         \* by account
    Picks,        \* recent picks a put may be sold on
    OptionAccounts, \* OPTIONS_ACCOUNTS (all of them when it is empty)
    MaxPosition, MaxPerPut, MaxPuts,  \* percent of the book, of the cash, of the cash
    Strike,       \* of the put on offer, by ticker
    Core,         \* the index fund the plan should buy, or Nowhere when its target is met
    Proposals     \* plans the model may answer with

Nowhere == "no account"
Sales == {"SELL", "TRIM"}
Buys == {"BUY", "ADD"}

(* A plan as RebalancePlan parses it.                                       *)
Action == [do : Sales \cup Buys \cup {"SELL_PUT", "WRITE_CALL"}, ticker : Tickers, n : Nat,
           size : {"shares", "dollars", "whole", "contracts", "unread"}, account : Accounts \cup {Nowhere},
           strike : {"good", "outside", "invented"}]
OptionWrite == [ticker : Tickers, account : Accounts \cup {Nowhere}, n : Nat, strike : {"good", "outside", "invented"}]
RebalancePlan == [actions : Seq(Action), calls : Seq(OptionWrite), puts : Seq(OptionWrite)]

(* Options open at the broker are covered there, calls by shares of their   *)
(* account and puts by its cash.                                           *)
ASSUME BookAssumption ==
    /\ IsFiniteSet(Tickers) /\ IsFiniteSet(Accounts)
    /\ Units \in [Tickers -> [Accounts -> Nat]] /\ Price \in [Tickers -> Nat \ {0}]
    /\ OpenCalls \in [Tickers -> [Accounts -> Nat]] /\ OpenPuts \in [Tickers -> [Accounts -> Nat]]
    /\ \A t \in Tickers, a \in Accounts : 100 * OpenCalls[t][a] <= Units[t][a]
    /\ \A a \in Accounts : SumFunction([t \in Tickers |-> OpenPuts[t][a]]) <= Cash[a]
    /\ Cash \in [Accounts -> Nat] /\ OptionAccounts \subseteq Accounts
    /\ Picks \subseteq Tickers /\ Strike \in [Tickers -> Nat \ {0}]
    /\ MaxPosition \in 1..99 /\ MaxPerPut \in 1..100 /\ MaxPuts \in 1..100
    /\ Core \in Tickers \cup {Nowhere}
    /\ OptionAccounts # {} /\ Nowhere \notin Accounts

ASSUME ProposalsAssumption == \A p \in Proposals : p \in RebalancePlan

VARIABLES
    checked,   \* how far step_rebalance is
    read,      \* what the broker answered to the three questions about options
    asked,     \* the model's plan
    plan,      \* the plan as it stands: [actions, calls, puts]
    told,      \* tickers named by sale_warnings, cc_warnings, csp_warnings
    crashed    \* checks that died

planVars == <<checked, read, asked, plan, told, crashed>>

NoPlan == [actions |-> <<>>, calls |-> <<>>, puts |-> <<>>]

-----------------------------------------------------------------------------
(* Sums over the accounts and over the entries of a list.                  *)
Total(f) == SumFunction(f)
SumOver(s, Counts(_), Weight(_)) ==
    SumFunction([i \in DOMAIN s |-> IF Counts(s[i]) THEN Weight(s[i]) ELSE 0])
AtLeastZero(n) == IF n < 0 THEN 0 ELSE n

(* The members of a list that are in a set, in their order (SelectSeq, which *)
(* the provers do not expand).                                             *)
Only(s, set) == FoldLeft(LAMBDA out, x : IF x \in set THEN Append(out, x) ELSE out, <<>>, s)

Held(t) == Total(Units[t])
Of(p, kinds) == Only(p.actions, {a \in ToSet(p.actions) : a.do \in kinds})

(* The broker's short options, as read: an account or a client that cannot *)
(* be read counts as having none.                                          *)
Committed(t) == IF "obligations" \in read THEN 100 * Total(OpenCalls[t]) ELSE 0
OnCalls(t, acct) == IF "calls" \in read THEN OpenCalls[t][acct] ELSE 0
OnPuts(acct) == IF "puts" \in read THEN Total([t \in Tickers |-> OpenPuts[t][acct]]) ELSE 0

-----------------------------------------------------------------------------
(* Two readers of a sizing.  The sale check wants shares ...               *)
Shares(a) == CASE a.size = "shares" -> a.n
               [] a.size = "whole" -> Held(a.ticker)
               [] OTHER -> -1
ReadsAsShares(a) == Shares(a) >= 0

(* ... and the cash checks want dollars; a SELL of no size is everything.  *)
ReadsAsWhole(a) == a.do \in Sales /\ (a.size = "whole" \/ (a.do = "SELL" /\ a.size = "unread"))
Sized(a) == a.size \in {"shares", "dollars"} \/ ReadsAsWhole(a)
Dollars(a) == CASE a.size = "dollars" -> a.n
                [] a.size = "shares" -> a.n * Price[a.ticker]
                [] ReadsAsWhole(a) -> Held(a.ticker) * Price[a.ticker]
                [] OTHER -> 0

-----------------------------------------------------------------------------
(* validate_sales: a sale that asks for more than is free goes.            *)
Free(t) == AtLeastZero(Held(t) - Committed(t))
Naked(a) == a.do \in Sales /\ Committed(a.ticker) > 0 /\ ReadsAsShares(a) /\ Shares(a) > Free(a.ticker)
Doubtful(a) == a.do \in Sales /\ Committed(a.ticker) > 0 /\ ~ReadsAsShares(a)

Proceeds(a) == IF ReadsAsShares(a)
               THEN (IF Shares(a) < Held(a.ticker) THEN Shares(a) ELSE Held(a.ticker)) * Price[a.ticker]
               ELSE IF a.size = "dollars" THEN a.n ELSE 0

(* resize_unfunded_buys: buys of an account share its cash, what its sales *)
(* bring in, and what the sales that name no account bring in.             *)
InGroup(acct, a) == a.do \in Buys /\ a.size = "dollars" /\ a.n > 0 /\ a.account = acct
Wanted(p, acct) == SumOver(p.actions, LAMBDA a : InGroup(acct, a), LAMBDA a : a.n)
ToSpend(p, acct) ==
    (IF acct = Nowhere THEN Total(Cash) ELSE Cash[acct])
    + SumOver(p.actions, LAMBDA a : a.do \in Sales /\ a.account \in {acct, Nowhere}, Proceeds)
Unfunded(p, a) ==
    a.do \in Buys /\ a.size = "dollars" /\ a.n > 0 /\ Wanted(p, a.account) > ToSpend(p, a.account) + 1
Scaled(p, a) ==
    IF Unfunded(p, a)
    THEN [a EXCEPT !.n = ((a.n * ToSpend(p, a.account)) \div (Wanted(p, a.account) * 100)) * 100]
    ELSE a
Resized(p) ==
    LET worthIt == Only(p.actions, {a \in ToSet(p.actions) : Unfunded(p, a) => Scaled(p, a).n >= 100})
    IN [p EXCEPT !.actions = [i \in DOMAIN worthIt |-> Scaled(p, worthIt[i])]]
Changed(p) == {a.ticker : a \in {b \in ToSet(p.actions) : Unfunded(p, b)}}

CheckSales ==
    /\ checked = "asked"
    /\ LET kept == [plan EXCEPT !.actions = Only(@, {a \in ToSet(@) : ~Naked(a)})]
           gone == {a.ticker : a \in {b \in ToSet(plan.actions) : Naked(b)}}
       IN IF gone = {} THEN /\ UNCHANGED plan
                            /\ told' = {a.ticker : a \in {b \in ToSet(plan.actions) : Doubtful(b)}}
          ELSE /\ plan' = Resized(kept)
               /\ told' = gone \cup Changed(kept)
                          \cup {a.ticker : a \in {b \in ToSet(plan.actions) : Doubtful(b)}}
    /\ checked' = "sales"
    /\ UNCHANGED <<read, asked, crashed>>

-----------------------------------------------------------------------------
(* cap_positions: one pass in the order of the plan, with what each stock   *)
(* comes to so far.                                                        *)
Book == Total([t \in Tickers |-> Held(t) * Price[t]]) + Total(Cash)
Limit == (Book * MaxPosition) \div 100

Fits(now, a) == now + Dollars(a) <= Limit + 1
Capped(acc, a) ==
    LET now == acc.worth[a.ticker]
        room == (AtLeastZero(Limit - now) \div 100) * 100
    IN CASE a.do \in Sales /\ Sized(a) ->
              [acc EXCEPT !.worth[a.ticker] = AtLeastZero(@ - Dollars(a)), !.out = Append(@, a)]
         [] a.do \in Buys /\ Sized(a) /\ Fits(now, a) ->
              [acc EXCEPT !.worth[a.ticker] = @ + Dollars(a), !.out = Append(@, a)]
         [] a.do \in Buys /\ Sized(a) /\ ~Fits(now, a) /\ room < 100 ->
              [acc EXCEPT !.told = @ \cup {a.ticker}]
         [] a.do \in Buys /\ Sized(a) /\ ~Fits(now, a) /\ room >= 100 ->
              [acc EXCEPT !.worth[a.ticker] = @ + room, !.told = @ \cup {a.ticker},
                          !.out = Append(@, [a EXCEPT !.size = "dollars", !.n = room])]
         [] a.do \in Buys /\ ~Sized(a) ->
              [acc EXCEPT !.told = @ \cup {a.ticker}, !.out = Append(@, a)]
         [] OTHER -> [acc EXCEPT !.out = Append(@, a)]

CapPositions ==
    /\ checked = "sales"
    /\ LET worth == [t \in Tickers |-> Held(t) * Price[t]]
           capped == FoldLeft(Capped, [worth |-> worth, out |-> <<>>, told |-> {}], plan.actions)
       IN /\ plan' = [plan EXCEPT !.actions = capped.out]
          /\ told' = told \cup capped.told
    /\ checked' = "capped"
    /\ UNCHANGED <<read, asked, crashed>>

-----------------------------------------------------------------------------
(* Covered calls.  An account can back a call with each round lot that backs *)
(* none yet; a write the plan leaves out is rebuilt from its action.         *)
CallRoom(t, acct) ==
    LET free == Units[t][acct] - 100 * OnCalls(t, acct)
    IN IF acct \in OptionAccounts /\ Units[t][acct] >= 100 /\ free >= 100 THEN free \div 100 ELSE 0

Write(a) == [ticker |-> a.ticker, account |-> a.account, n |-> a.n, strike |-> a.strike]
Rebuilt(writes, a, Same(_, _)) ==
    IF a.size = "contracts" /\ a.strike # "invented" /\ \A w \in ToSet(writes) : ~Same(w, a)
    THEN Append(writes, Write(a)) ELSE writes
SamePair(w, a) == w.ticker = a.ticker /\ w.account = a.account
CallsOf(p) == FoldLeft(LAMBDA writes, a : Rebuilt(writes, a, SamePair), p.calls, Of(p, {"WRITE_CALL"}))

KeepsCall(p, kept, w) ==
    /\ w.account \in Accounts /\ CallRoom(w.ticker, w.account) > 0
    /\ \E a \in ToSet(p.actions) : a.do = "WRITE_CALL" /\ a.ticker = w.ticker
    /\ \A k \in ToSet(kept) : ~SamePair(k, w)
    /\ w.strike # "outside"
\* A write is sized up to what there is room for.
CutMutant(w, room) == [w EXCEPT !.n = room]

Cut(w, room) == [w EXCEPT !.n = IF @ > room THEN room ELSE @]
ValidCalls(p) ==
    FoldLeft(LAMBDA kept, w : IF KeepsCall(p, kept, w) THEN Append(kept, Cut(w, CallRoom(w.ticker, w.account))) ELSE kept,
             <<>>, CallsOf(p))

TickersOf(s) == {s[i].ticker : i \in DOMAIN s}

CheckCalls ==
    /\ checked = "capped"
    /\ LET kept == ValidCalls(plan)
           actions == Only(plan.actions,
                           {a \in ToSet(plan.actions) : a.do = "WRITE_CALL" => a.ticker \in TickersOf(kept)})
       IN /\ plan' = [plan EXCEPT !.calls = kept, !.actions = actions]
          /\ told' = told \cup {w.ticker : w \in {v \in ToSet(CallsOf(plan)) : v \notin ToSet(kept)}}
                          \cup {a.ticker : a \in ToSet(plan.actions) \ ToSet(actions)}
    /\ checked' = "calls"
    /\ UNCHANGED <<read, asked, crashed>>

(* The check dies: the plan goes on as the model wrote it, with a warning. *)
CallCheckDies ==
    /\ checked = "capped"
    /\ checked' = "calls" /\ crashed' = crashed \cup {"calls"}
    /\ UNCHANGED <<read, asked, plan, told>>

-----------------------------------------------------------------------------
(* Cash-secured puts.  The room of an account is its cash without what open  *)
(* puts hold; the plan's own buys come out of it first.                     *)
Room(acct) == AtLeastZero(Cash[acct] - OnPuts(acct))
Budget == Total([acct \in OptionAccounts |-> Room(acct)])
Bought(p, where) == SumOver(p.actions, LAMBDA a : a.do \in Buys /\ Sized(a) /\ a.account \in where, Dollars)
Sold(p) == SumOver(p.actions, LAMBDA a : a.do \in Sales /\ Sized(a), Dollars)

\* Buys that name no account come out of none.
LeftInAllMutant(p) == AtLeastZero(Budget + Sold(p) - Bought(p, Accounts))

LeftInAll(p) == AtLeastZero(Budget + Sold(p) - Bought(p, Accounts \cup {Nowhere}))
LeftIn(p, acct) == Min({AtLeastZero(Room(acct) - Bought(p, {acct})), LeftInAll(p)})

(* eligible_csp_tickers: a pick, not on the covered-call side, no put open. *)
Candidate(t) ==
    /\ Budget > 0 /\ t \in Picks
    /\ \A acct \in Accounts : Units[t][acct] < 100
    /\ "puts" \in read => \A acct \in Accounts : OpenPuts[t][acct] = 0
MostForOne == Min({(Budget * MaxPerPut) \div 100, (Budget * MaxPuts) \div 100, Max({Room(acct) : acct \in OptionAccounts})})

SameTicker(w, a) == w.ticker = a.ticker
PutsOf(p) == FoldLeft(LAMBDA writes, a : Rebuilt(writes, a, SameTicker), p.puts, Of(p, {"SELL_PUT"}))
Collateral(w) == w.n * Strike[w.ticker] * 100

(* _place_put: the named account if it can secure one contract, else one    *)
(* with the most room.                                                     *)
Placed(room, w) ==
    LET need == Strike[w.ticker] * 100
        roomiest == CHOOSE acct \in OptionAccounts : \A other \in OptionAccounts : room[other] <= room[acct]
        acct == IF w.account \in OptionAccounts /\ room[w.account] >= need THEN w.account ELSE roomiest
    IN [w EXCEPT !.account = acct]

KeptPut(acc, w, p) ==
    LET put == Placed(acc.room, w)
        allowed == Min({MostForOne, acc.left, acc.room[put.account]})
        fits == Cut(put, allowed \div (Strike[w.ticker] * 100))
    IN IF /\ Candidate(w.ticker) /\ w.strike = "good"
          /\ \E a \in ToSet(p.actions) : a.do = "SELL_PUT" /\ a.ticker = w.ticker
          /\ w.ticker \notin TickersOf(acc.kept)
          /\ fits.n > 0
       THEN [kept |-> Append(acc.kept, fits), left |-> acc.left - Collateral(fits),
             room |-> [acc.room EXCEPT ![put.account] = @ - Collateral(fits)]]
       ELSE acc

ValidPuts(p) ==
    FoldLeft(LAMBDA acc, w : KeptPut(acc, w, p),
             [kept |-> <<>>, left |-> (LeftInAll(p) * MaxPuts) \div 100, room |-> [acct \in OptionAccounts |-> LeftIn(p, acct)]],
             PutsOf(p)).kept

\* A second SELL_PUT of a kept put stays.
ReconciledMutant(kept, out, a) ==
    IF a.do = "SELL_PUT" /\ a.ticker \notin TickersOf(kept) THEN out ELSE Append(out, a)

(* _reconcile_put_actions: one SELL_PUT a kept put, written from it.  What   *)
(* pays too little never gets here: the chains hold no such strike.         *)
Reconciled(kept, out, a) ==
    LET again == \E b \in ToSet(out) : b.do = "SELL_PUT" /\ b.ticker = a.ticker
        put == CHOOSE w \in ToSet(kept) : w.ticker = a.ticker
    IN CASE a.do # "SELL_PUT" -> Append(out, a)
         [] a.do = "SELL_PUT" /\ (a.ticker \notin TickersOf(kept) \/ again) -> out
         [] OTHER -> Append(out, [a EXCEPT !.size = "contracts", !.n = put.n, !.account = put.account])

ChangedPuts(p, kept) ==
    {w.ticker : w \in {v \in ToSet(PutsOf(p)) : \A k \in ToSet(kept) : k.ticker # v.ticker \/ k.n # v.n}}

CheckPuts ==
    /\ checked = "calls"
    /\ LET kept == ValidPuts(plan)
       IN /\ plan' = [plan EXCEPT !.puts = kept,
                                  !.actions = FoldLeft(LAMBDA out, a : Reconciled(kept, out, a), <<>>, @)]
          /\ told' = told \cup ChangedPuts(plan, kept) \cup (TickersOf(Of(plan, {"SELL_PUT"})) \ TickersOf(kept))
    /\ checked' = "puts"
    /\ UNCHANGED <<read, asked, crashed>>

(* The check dies: every put goes.                                         *)
PutCheckDies ==
    /\ checked = "calls"
    /\ plan' = [plan EXCEPT !.puts = <<>>, !.actions = Only(@, {a \in ToSet(@) : a.do # "SELL_PUT"})]
    /\ told' = told \cup TickersOf(plan.puts) \cup TickersOf(Of(plan, {"SELL_PUT"}))
    /\ checked' = "puts" /\ crashed' = crashed \cup {"puts"}
    /\ UNCHANGED <<read, asked>>

CheckCore ==
    /\ checked = "puts"
    /\ told' = IF Core # Nowhere /\ \A a \in ToSet(plan.actions) : a.do \in Buys => a.ticker # Core
               THEN told \cup {Core} ELSE told
    /\ checked' = "done"
    /\ UNCHANGED <<read, asked, plan, crashed>>

-----------------------------------------------------------------------------
PlanInit ==
    /\ checked = "holdings" /\ read = {} /\ told = {} /\ crashed = {}
    /\ asked = NoPlan /\ plan = NoPlan

(* The broker is asked three times about its options, and each answer may   *)
(* fail on its own; it then reads as no options at all.                     *)
FetchOptions ==
    /\ checked = "holdings"
    /\ read' \in SUBSET {"obligations", "calls", "puts"}
    /\ checked' = "asking"
    /\ UNCHANGED <<asked, plan, told, crashed>>

ReceivePlan ==
    /\ checked = "asking"
    /\ \E p \in Proposals : asked' = p /\ plan' = p
    /\ checked' = "asked"
    /\ UNCHANGED <<read, told, crashed>>

(* No plan can be read from the answer: the report says so.                 *)
LosePlan ==
    /\ checked = "asking" /\ checked' = "lost"
    /\ UNCHANGED <<read, asked, plan, told, crashed>>

PlanNext ==
    \/ FetchOptions \/ ReceivePlan \/ LosePlan
    \/ CheckSales \/ CapPositions
    \/ CheckCalls \/ CallCheckDies \/ CheckPuts \/ PutCheckDies \/ CheckCore
PlanSpec == PlanInit /\ [][PlanNext]_planVars

-----------------------------------------------------------------------------
(* Type correctness of the plan in its checks.                             *)
PlanTypeOK ==
    /\ checked \in {"holdings", "asking", "asked", "sales", "capped", "calls", "puts", "done", "lost"}
    /\ read \subseteq {"obligations", "calls", "puts"} /\ told \subseteq Tickers /\ crashed \subseteq {"calls", "puts"}
    /\ asked \in RebalancePlan /\ plan \in RebalancePlan

AfterPuts == checked \in {"puts", "done"}
NewCollateral(p, accts) == SumOver(p.puts, LAMBDA w : w.account \in accts, Collateral)
NewCalls(p, t, acct) == SumOver(p.calls, LAMBDA w : w.ticker = t /\ w.account = acct, LAMBDA w : w.n)

(* Every put of the final plan can be paid for in the account it sits in:   *)
(* its collateral, that of the puts already open and the buys that name     *)
(* the account fit its cash, and all of them and all buys fit the cash and   *)
(* what the sales bring in, also when a check died, unless the broker's     *)
(* open puts could not be read.                                            *)
PutsAreSecured ==
    AfterPuts /\ "puts" \in read =>
        /\ \A acct \in Accounts :
              NewCollateral(plan, {acct}) > 0 => NewCollateral(plan, {acct}) + OnPuts(acct) + Bought(plan, {acct}) <= Cash[acct]
        /\ NewCollateral(plan, Accounts) > 0 =>
              NewCollateral(plan, Accounts) + Total([acct \in OptionAccounts |-> OnPuts(acct)])
                  + Bought(plan, Accounts \cup {Nowhere})
              <= Total([acct \in OptionAccounts |-> Cash[acct]]) + Sold(plan)

(* The calls of the final plan and the calls already open are covered by     *)
(* the shares of the same account, unless the broker's open calls could not  *)
(* be read or the check died.                                              *)
CallsAreCovered ==
    AfterPuts /\ "calls" \in read /\ "calls" \notin crashed =>
        \A t \in Tickers, acct \in Accounts :
            NewCalls(plan, t, acct) > 0 => 100 * (NewCalls(plan, t, acct) + OpenCalls[t][acct]) <= Units[t][acct]

(* After the cap, a stock the plan buys is worth at most the cap once every  *)
(* readable trade of it is done in the order of the plan.                   *)
Traded(t, worth, a) ==
    CASE a.ticker = t /\ a.do \in Sales /\ Sized(a) -> AtLeastZero(worth - Dollars(a))
      [] a.ticker = t /\ a.do \in Buys /\ Sized(a) -> worth + Dollars(a)
      [] OTHER -> worth
BuysWithinCap ==
    checked \in {"capped", "calls", "puts", "done"} =>
        \A t \in Tickers :
            (\E a \in ToSet(plan.actions) : a.do \in Buys /\ Sized(a) /\ a.ticker = t)
            => FoldLeft(LAMBDA worth, a : Traded(t, worth, a), Held(t) * Price[t], plan.actions) <= Limit + 1

(* The table of actions and the puts under it tell one story: each SELL_PUT  *)
(* has one put, of its size and in its account, and each put one SELL_PUT.  *)
PutsMatchActions ==
    AfterPuts =>
        LET sold == Of(plan, {"SELL_PUT"})
        IN /\ Len(sold) = Len(plan.puts)
           /\ \A a \in ToSet(sold) : \E w \in ToSet(plan.puts) :
                  w.ticker = a.ticker /\ w.n = a.n /\ w.account = a.account

(* Nothing the model asked for goes or shrinks without a warning that names  *)
(* its ticker.                                                             *)
ChangesAreTold ==
    checked = "done" =>
        /\ \A a \in ToSet(asked.actions) :
              \/ a \in ToSet(plan.actions) \/ a.ticker \in told
              \/ a.do = "SELL_PUT" /\ a.ticker \in TickersOf(plan.puts)
        /\ \A w \in ToSet(asked.calls) : w \in ToSet(plan.calls) \/ w.ticker \in told
        /\ \A w \in ToSet(asked.puts) : w.ticker \in told \/ \E k \in ToSet(plan.puts) : k.ticker = w.ticker /\ k.n = w.n

(* What the checks hand on can be carried out: puts are secured, calls       *)
(* covered and buys within the cap, whichever of the broker's answers was   *)
(* missing and whichever check died (step_rebalance).                       *)
OrdersAreBacked == PutsAreSecured /\ CallsAreCovered /\ BuysWithinCap

(* The report is of the plan that is left: its puts and its table agree, and *)
(* what became of the rest is told (step_rebalance's warnings).             *)
ReportIsOfThePlan == PutsMatchActions /\ ChangesAreTold

(* A check only takes away: what it leaves was there before, for no more     *)
(* dollars, shares or contracts of the same stock.                          *)
NoMoreThan(a, b) == a.do = b.do /\ a.ticker = b.ticker /\ (a.size = b.size => a.n <= b.n)
ChecksOnlyTakeAway ==
    [][checked # "asking" =>
         /\ \A a \in ToSet(plan'.actions) : a.do = "SELL_PUT" \/ \E b \in ToSet(plan.actions) : NoMoreThan(a, b)
         /\ \A w \in ToSet(plan'.puts) : \E v \in ToSet(PutsOf(plan)) : v.ticker = w.ticker /\ w.n <= v.n]_planVars

=============================================================================
