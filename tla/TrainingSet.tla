----------------------------- MODULE TrainingSet ------------------------------
(***************************************************************************)
(* The price model's weekly rows and its walk-forward test.  A row's         *)
(* features look back over SPY's trading days, its label runs from the next  *)
(* close over the days of all symbols; each block of weeks is predicted by a *)
(* model trained on the rows whose label had closed before the block.        *)
(*                                                                         *)
(* A value is modelled by the days it is read from.                         *)
(***************************************************************************)
EXTENDS Integers, FiniteSets, FiniteSetsExt

CONSTANTS
    Stocks, LastSession, WeekLength, MonthLength,
    Lookback,            \* sessions a feature looks back
    Horizon,
    MIN_TRAIN, TEST,     \* MIN_TRAIN_YEARS and TEST_MONTHS in days
    MinRows,             \* rows a model needs
    SpyGaps, StockGaps,  \* days a close may be missing on, of SPY and of a stock
    MaxGaps,             \* bound: closes missing
    Silent               \* <<stock, month-end>> whose filing tells nothing

ASSUME TrainingAssumption ==
    /\ {LastSession, Lookback, Horizon, MIN_TRAIN, MinRows, MaxGaps} \subseteq Nat
    /\ {WeekLength, MonthLength, TEST} \subseteq Nat \ {0}
    /\ IsFiniteSet(Stocks)

VARIABLES
    market,    \* [spy, closes]: the days SPY and each stock have a close for
    data,      \* the rows: [day, stock, reads, labeled]
    start,     \* where the next test block starts
    folds      \* the blocks tested: [from, train, test]

trainVars == <<market, data, start, folds>>

Gaps ==
    {g \in [spy : SUBSET SpyGaps, closes : [Stocks -> SUBSET StockGaps]] :
        Cardinality(g.spy) + MapThenSumSet(LAMBDA t : Cardinality(g.closes[t]), Stocks) <= MaxGaps}
Markets ==
    {[spy |-> (1..LastSession) \ g.spy, closes |-> [t \in Stocks |-> (1..LastSession) \ g.closes[t]]] : g \in Gaps}

-----------------------------------------------------------------------------
(* The panel stands on the union of the symbols' days, the features on SPY's.*)
Panel == market.spy \cup UNION {market.closes[t] : t \in Stocks}
calendar == market.spy

(* The day of days that is n later than d, or 0 past the data.               *)
Shifted(days, d, n) ==
    LET at == {e \in days : e > d /\ Cardinality({x \in days : d < x /\ x <= e}) = n}
    IN  IF at = {} THEN 0 ELSE Max(at)

Week(d) == (d - 1) \div WeekLength
WeekEnds == {d \in calendar : \A e \in calendar : Week(e) = Week(d) => e <= d}

(* Rolling windows and shifts.                                              *)
panel_features(d) == {e \in calendar : e <= d /\ Cardinality({x \in calendar : e < x /\ x <= d}) <= Lookback}

(* Completed weeks by their last close, and the day itself as a week more.   *)
WeeklyRsi(t, d) ==
    {d} \cup {e \in calendar \cap market.closes[t] :
                 Week(e) < Week(d) /\ \A x \in calendar \cap market.closes[t] : Week(x) = Week(e) => x <= e}

(* The month-end whose filings a day carries, each ratio the last told.      *)
align_to_dates(t, d) ==
    LET told == {m \in 1..LastSession : m % MonthLength = 0 /\ m <= d /\ <<t, m>> \notin Silent}
    IN  IF told = {} THEN {} ELSE {Max(told)}
(* A missing one takes the median of its day.                               *)
fill_cross_section(t, d) ==
    IF align_to_dates(t, d) # {} THEN align_to_dates(t, d) ELSE UNION {align_to_dates(u, d) : u \in Stocks}

Reads(t, d) == panel_features(d) \cup WeeklyRsi(t, d) \cup fill_cross_section(t, d)

(* From the next bar's close to Horizon bars after it, on the panel's days.  *)
Entry(d) == Shifted(Panel, d, 1)
Exit(d) == Shifted(Panel, d, 1 + Horizon)
forward_returns(t, d) ==
    /\ Exit(d) # 0
    /\ {Entry(d), Exit(d)} \subseteq market.closes[t] \cap market.spy

(* Rows missing a feature are dropped; a label still open is kept missing.   *)
build_dataset ==
    {[day |-> r[1], stock |-> r[2], reads |-> Reads(r[2], r[1]), labeled |-> forward_returns(r[2], r[1])] :
        r \in {x \in WeekEnds \X Stocks :
            /\ Cardinality(panel_features(x[1])) = Lookback + 1
            /\ panel_features(x[1]) \subseteq market.closes[x[2]]
            /\ \E e \in WeeklyRsi(x[2], x[1]) : e # x[1]}}

(* When SPY's days say a label has closed.                                   *)
\* The bar the label enters at is forgotten.
LabelEndMutant(d) == LET e == Shifted(calendar, d, Horizon) IN IF e = 0 THEN Max(calendar) ELSE e
LabelEnd(d) == LET e == Shifted(calendar, d, 1 + Horizon) IN IF e = 0 THEN Max(calendar) ELSE e

-----------------------------------------------------------------------------
DaysOf(rows) == {r.day : r \in rows}

(* One block of the walk: the model of the rows before it ranks its rows.    *)
walk_forward ==
    LET labeled == {r \in data : r.labeled}
        from == IF start = 0 THEN Min(DaysOf(data)) + MIN_TRAIN ELSE start
        train == {r \in labeled : LabelEnd(r.day) < from}
        test == {r \in data : from <= r.day /\ r.day < from + TEST}
    IN  /\ labeled # {}
        /\ from <= Max(DaysOf(labeled))
        /\ folds' = IF Cardinality(train) > MinRows /\ test # {}
                    THEN folds \cup {[from |-> from, train |-> train, test |-> test]} ELSE folds
        /\ start' = from + TEST
        /\ UNCHANGED <<market, data>>

TrainInit == market \in Markets /\ data = build_dataset /\ start = 0 /\ folds = {}
TrainSpec == TrainInit /\ [][walk_forward]_trainVars

-----------------------------------------------------------------------------
(* The months a risk study holds: from the session after a month's last to    *)
(* the session after the next one's (next_month_returns).                    *)
MonthOf(d) == (d - 1) \div MonthLength
month_end_sessions == {d \in calendar : \A e \in calendar : MonthOf(e) = MonthOf(d) => e <= d}
next_month_returns ==
    {h \in {<<d, Shifted(Panel, d, 1), Shifted(Panel, Shifted(month_end_sessions, d, 1), 1)>> :
                d \in {x \in month_end_sessions : Shifted(month_end_sessions, x, 1) # 0}} : h[3] # 0}

(* A block is predicted from closes and filings of its rows' own days or      *)
(* before, by a model none of whose labels was still open when the block      *)
(* began, and no row is predicted twice: otherwise the test that lets a model *)
(* move the screen would grade it on what it was told (walk_forward,          *)
(* forward_returns, panel_features).                                        *)
TrainedBeforeTested ==
    \A f \in folds :
        /\ \A r \in f.train : Exit(r.day) < f.from /\ (\A e \in r.reads : e <= r.day) /\ r.day < Entry(r.day)
        /\ \A s \in f.test : (\A e \in s.reads : e <= s.day) /\ \A r \in f.train : Exit(r.day) < s.day
        /\ \A g \in folds \ {f} : f.test \cap g.test = {}

(* Every week from the first block on is predicted, unless its block had too  *)
(* little to train on; and held months meet without overlapping.             *)
NothingIsSkipped ==
    /\ \A f \in folds : \A r \in data : f.from <= r.day /\ r.day < start => \E g \in folds : r \in g.test
    /\ \A h, k \in next_month_returns : h[1] < h[2] /\ (h[1] < k[1] => h[3] <= k[2])

ModelIsTestedFairly == TrainedBeforeTested /\ NothingIsSkipped
==============================================================================
