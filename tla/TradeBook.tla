------------------------------- MODULE TradeBook -------------------------------
(***************************************************************************)
(* What the reports read out of the trades in the ledger: gains matched     *)
(* first in, first out, the income of written options, and the losses that  *)
(* may be harvested.  An owner trades one share in a taxable account and a   *)
(* retirement account, and one call on it in the taxable one, and follows   *)
(* the harvest list.  A contract is for one share.                          *)
(*                                                                         *)
(* `trades` is the order things happened in.  `ledger` is the order the rows *)
(* are read in, sorted by day, which says nothing of the order within one.  *)
(***************************************************************************)
EXTENDS Integers, SequencesExt, FiniteSetsExt

CONSTANTS
    TradeDays,      \* bound: the last day
    MaxTrades,      \* bound: trades
    YearDays, OneYear, WASH_SALE_DAYS,
    Quotes, Sizes,
    TransferredIn   \* shares that came into the taxable account with no row

ASSUME TradeAssumption ==
    /\ TradeDays \in Nat /\ MaxTrades \in Nat /\ YearDays \in Nat \ {0}
    /\ OneYear \in Nat /\ WASH_SALE_DAYS \in Nat
    /\ Quotes \subseteq Nat \ {0} /\ Sizes \subseteq Nat \ {0}
    /\ TransferredIn \in Nat

VARIABLES
    now, trades, ledger,
    advice      \* [day, units] of the harvest sale the owner made on the list's word, and when it may buy again

tradeVars == <<now, trades, ledger, advice>>

NoAdvice == [day |-> -1, units |-> 0, rebuy |-> 0]
YearOf(day) == day \div YearDays
Years == 0..YearOf(TradeDays)

-----------------------------------------------------------------------------
(* Rows of a ledger in the order of their days; rows of a day stay as read.  *)
IsOption(x) == x.on = "call"
ByDay(s) == FlattenSeq([d \in 1..TradeDays + 1 |-> SelectSeq(s, LAMBDA x : x.day = d - 1)])
Total(s, F(_)) == FoldLeft(LAMBDA a, x : a + F(x), 0, s)

(* realized_this_year: purchases of a day before its sales; a sale takes     *)
(* from the oldest lots, and what they do not cover has no known basis.     *)
Purchases == {"BUY", "REI"}
ShareRows(s, account) ==
    LET mine(d, buys) ==
            SelectSeq(s, LAMBDA x : /\ ~IsOption(x) /\ x.account = account /\ x.day = d
                                    /\ (x.kind \in Purchases) = buys)
    IN FlattenSeq([d \in 1..TradeDays + 1 |-> mine(d - 1, TRUE) \o mine(d - 1, FALSE)])

long_term_on(bought) == bought + OneYear + 1

Take(lot, sale, left) ==
    LET units == IF lot.units < left THEN lot.units ELSE left
    IN [units |-> units, rest |-> lot.units - units]

Matched(lots, sale) ==
    FoldLeft(LAMBDA m, lot :
                LET t == Take(lot, sale, m.left)
                    gain == t.units * (sale.price - lot.price)
                    long == sale.day >= long_term_on(lot.day)
                IN [left |-> m.left - t.units,
                    st |-> m.st + (IF long THEN 0 ELSE gain), lt |-> m.lt + (IF long THEN gain ELSE 0),
                    lots |-> IF t.rest = 0 THEN m.lots ELSE Append(m.lots, [lot EXCEPT !.units = t.rest])],
             [left |-> sale.units, st |-> 0, lt |-> 0, lots |-> <<>>], lots)

\* Sales of another year are passed over, and take no lots.
SellMutant(book, sale, year) ==
    LET m == Matched(book.lots, sale)
    IN IF YearOf(sale.day) = year
       THEN [lots |-> m.lots, st |-> book.st + m.st, lt |-> book.lt + m.lt, unknown |-> book.unknown + m.left]
       ELSE book

Sell(book, sale, year) ==
    LET m == Matched(book.lots, sale)
    IN IF YearOf(sale.day) = year
       THEN [lots |-> m.lots, st |-> book.st + m.st, lt |-> book.lt + m.lt, unknown |-> book.unknown + m.left]
       ELSE [book EXCEPT !.lots = m.lots]

realized_this_year(s, account, year) ==
    FoldLeft(LAMBDA book, x :
                IF x.kind = "SELL" THEN Sell(book, x, year)
                ELSE [book EXCEPT !.lots = Append(@, [day |-> x.day, units |-> x.units, price |-> x.price])],
             [lots |-> <<>>, st |-> 0, lt |-> 0, unknown |-> 0], ShareRows(s, account))

-----------------------------------------------------------------------------
(* summarize_contracts: one contract, from the rows inside a window.  The    *)
(* first trade decides what it is; expiry and assignment carry no units.     *)
Signed(x) == IF x.kind = "SELL" THEN -x.units ELSE IF x.kind = "BUY" THEN x.units ELSE 0
Cash(x) == -Signed(x) * x.price
Magnitude(n) == IF n < 0 THEN -n ELSE n
Larger(a, b) == IF a < b THEN b ELSE a

Contract(s, start, end) ==
    LET rows == SelectSeq(ByDay(s), LAMBDA x : IsOption(x) /\ x.day >= start /\ x.day <= end)
        fills == SelectSeq(rows, LAMBDA x : x.kind \in {"BUY", "SELL"})
        net == Total(fills, Signed)
    IN [rows |-> rows # <<>>,
        short |-> fills # <<>> /\ Head(fills).kind = "SELL",
        long |-> fills # <<>> /\ Head(fills).kind = "BUY",
        assigned |-> \E i \in DOMAIN rows : rows[i].kind = "OPTIONASSIGNMENT",
        expired |-> \E i \in DOMAIN rows : rows[i].kind = "OPTIONEXPIRATION",
        day_trade |-> /\ \E i, j \in DOMAIN fills : fills[i].kind = "BUY" /\ fills[j].kind = "SELL"
                      /\ \A i, j \in DOMAIN rows : rows[i].day = rows[j].day
                      /\ net = 0,
        contracts |-> FoldLeft(LAMBDA a, x : [net |-> a.net + Signed(x), peak |-> Larger(a.peak, Magnitude(a.net + Signed(x)))],
                               [net |-> 0, peak |-> 0], fills).peak,
        collected |-> Total(SelectSeq(fills, LAMBDA x : Cash(x) >= 0), Cash),
        paid |-> Total(SelectSeq(fills, LAMBDA x : Cash(x) < 0), Cash)]

(* summarize_option_income: what a contract counts as.                      *)
Income(c) == IF c.day_trade THEN "day trade" ELSE IF c.short THEN "short" ELSE IF c.long THEN "long" ELSE "none"
Outcome(c) ==
    IF c.day_trade THEN "day trade"
    ELSE IF c.assigned THEN "assigned" ELSE IF c.expired THEN "expired"
    ELSE IF c.paid # 0 /\ c.short THEN "bought back" ELSE "open"
CalledAway(c) == IF Income(c) = "short" /\ c.assigned THEN c.contracts ELSE 0

(* option_realized: the whole cash of a contract that is closed, in the year *)
(* of its last row.  Expiry and assignment close it whatever it held.       *)
Terminal == {"OPTIONEXPIRATION", "OPTIONASSIGNMENT"}
Net(s) == FoldLeft(LAMBDA u, x : IF x.kind \in Terminal THEN 0 ELSE u + Signed(x), 0, SelectSeq(s, IsOption))

option_realized(s, year) ==
    LET rows == SelectSeq(s, IsOption)
    IN IF /\ rows # <<>> /\ Net(s) = 0
          /\ YearOf(Max({rows[i].day : i \in DOMAIN rows})) = year
       THEN Total(rows, Cash) ELSE 0

-----------------------------------------------------------------------------
(* find_harvest_candidates for the share in the taxable account.  Holdings   *)
(* and promised calls are the broker's, the lots the ledger's.              *)
Held(account) ==
    Total(SelectSeq(trades, LAMBDA x : ~IsOption(x) /\ x.account = account),
          LAMBDA x : IF x.kind = "SELL" THEN -x.units ELSE x.units)
    + (IF account = "taxable" THEN TransferredIn ELSE 0)
Promised ==
    LET net == Net(trades) IN IF net < 0 THEN -net ELSE 0

WashSaleUntil(s, today) ==
    LET recent == {s[i].day : i \in {j \in DOMAIN s : /\ ~IsOption(s[j]) /\ s[j].kind \in Purchases
                                                     /\ today - s[j].day \in 0..WASH_SALE_DAYS}}
    IN IF recent = {} THEN 0 ELSE Max(recent) + WASH_SALE_DAYS + 1

FreeUnits(account) == Held(account) - Promised
RebuyOkAfter(today) == today + WASH_SALE_DAYS + 1

-----------------------------------------------------------------------------
TradeInit == now = 0 /\ trades = <<>> /\ ledger = <<>> /\ advice = NoAdvice

Tomorrow == now < TradeDays /\ now' = now + 1 /\ UNCHANGED <<trades, ledger, advice>>

Book(x) ==
    /\ Len(trades) < MaxTrades
    /\ trades' = Append(trades, x)
    /\ \E i \in {Cardinality({j \in DOMAIN ledger : ledger[j].day < now}), Len(ledger)} : ledger' = InsertAt(ledger, i + 1, x)
    /\ UNCHANGED now

Row(kind, on, account, units, price) ==
    [day |-> now, kind |-> kind, on |-> on, account |-> account, units |-> units, price |-> price]

(* The owner buys nothing back before the day the list names.               *)
BuyShares ==
    /\ now >= advice.rebuy
    /\ \E kind \in Purchases, account \in {"taxable", "ira"}, n \in Sizes, p \in Quotes :
          Book(Row(kind, "share", account, n, p))
    /\ UNCHANGED advice

SellShares ==
    /\ \E n \in Sizes, p \in Quotes : n <= FreeUnits("taxable") /\ Book(Row("SELL", "share", "taxable", n, p))
    /\ UNCHANGED advice

TradeOption ==
    /\ \A i \in DOMAIN trades : trades[i].kind \notin Terminal
    /\ \E kind \in {"BUY", "SELL"}, n \in Sizes, p \in Quotes : Book(Row(kind, "call", "taxable", n, p))
    /\ UNCHANGED advice

(* A contract ends for all that is held or written of it, and is gone.       *)
EndOption ==
    /\ Net(trades) # 0
    /\ \E kind \in Terminal :
          /\ kind = "OPTIONASSIGNMENT" => Net(trades) < 0
          /\ Book(Row(kind, "call", "taxable", 1, 1))
    /\ UNCHANGED advice

(* The owner sells what the list offers when it names no wash sale.          *)
Harvest ==
    LET units == FreeUnits("taxable") IN
    /\ units > 0 /\ WashSaleUntil(ledger, now) = 0
    /\ \E p \in Quotes : Book(Row("SELL", "share", "taxable", units, p))
    /\ advice' = [day |-> now, units |-> units, rebuy |-> RebuyOkAfter(now)]

TradeNext ==
    \/ Tomorrow \/ BuyShares \/ SellShares \/ TradeOption \/ EndOption \/ Harvest
TradeSpec == TradeInit /\ [][TradeNext]_tradeVars

-----------------------------------------------------------------------------
SumOf(f(_)) == FoldSet(LAMBDA y, a : a + f(y), 0, Years)

(* Reported year by year, the gains on the shares add up to what the sales   *)
(* brought in less what the lots they used had cost: no lot is used for two   *)
(* sales, whichever years they fall in, and units that no lot covers are      *)
(* counted as unknown and not as gain (realized_this_year).                 *)
GainsAddUp ==
    LET shares == SelectSeq(trades, LAMBDA x : ~IsOption(x) /\ x.account = "taxable")
        left == realized_this_year(ledger, "taxable", 0).lots
        bought == Total(SelectSeq(shares, LAMBDA x : x.kind \in Purchases), LAMBDA x : x.units)
        sold == Total(SelectSeq(shares, LAMBDA x : x.kind = "SELL"), LAMBDA x : x.units)
        unknown == SumOf(LAMBDA y : realized_this_year(ledger, "taxable", y).unknown)
        used == bought - Total(left, LAMBDA x : x.units)
        gains == SumOf(LAMBDA y : LET r == realized_this_year(ledger, "taxable", y) IN r.st + r.lt)
        worth(s) == Total(s, LAMBDA x : x.units * x.price)
    IN /\ used = sold - unknown /\ unknown <= TransferredIn
       /\ unknown = 0 =>
             gains = worth(SelectSeq(shares, LAMBDA x : x.kind = "SELL"))
                     - worth(SelectSeq(shares, LAMBDA x : x.kind \in Purchases)) + worth(left)

(* A contract is read as written or as bought by the trade that opened it,   *)
(* in whatever order the rows of a day are read, and however it is closed;     *)
(* only trades both ways on its first day cannot be told apart              *)
(* (summarize_contracts, which once read long positions sold to close as      *)
(* written calls).                                                         *)
OptionTrades == SelectSeq(trades, LAMBDA x : IsOption(x) /\ x.kind \in {"BUY", "SELL"})
WrittenIsIncome ==
    OptionTrades # <<>> =>
        LET c == Contract(ledger, 0, TradeDays)
            first == Head(OptionTrades)
        IN \/ \E i \in DOMAIN OptionTrades : OptionTrades[i].day = first.day /\ OptionTrades[i].kind # first.kind
           \/ c.short = (first.kind = "SELL") /\ Income(c) = (IF first.kind = "SELL" THEN "short" ELSE "long")

(* The cash of a contract is counted, in one year's estimate, once it is     *)
(* closed and not before, unless it ended on a day it was traded on          *)
(* (option_realized).                                                      *)
ClosedCashIsCounted ==
    LET rows == SelectSeq(trades, IsOption)
        closed == IF rows = <<>> THEN FALSE
                  ELSE Last(rows).kind \in Terminal \/ Total(rows, Signed) = 0
    IN (\A i, j \in DOMAIN rows : i # j /\ rows[i].kind \in Terminal => rows[i].day # rows[j].day) =>
       SumOf(LAMBDA y : option_realized(ledger, y)) = IF closed THEN Total(rows, Cash) ELSE 0

(* An owner who sells what the list offers, and buys back no sooner than it   *)
(* says, has no purchase in any account within WASH_SALE_DAYS of the loss     *)
(* sale on either side (find_harvest_candidates).                            *)
HarvestIsClean ==
    advice.day >= 0 =>
        \A i \in DOMAIN trades :
            ~IsOption(trades[i]) /\ trades[i].kind \in Purchases =>
                Magnitude(trades[i].day - advice.day) > WASH_SALE_DAYS

(* The year's estimate is of the trades that were made: shares and options,   *)
(* over all years, add up to the cash that moved (tax_planner's figures).     *)
EstimatesAddUp == GainsAddUp /\ WrittenIsIncome /\ ClosedCashIsCounted

=============================================================================
