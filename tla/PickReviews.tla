------------------------------ MODULE PickReviews ------------------------------
(***************************************************************************)
(* Who looks back at a pick: the thesis check at a stock's newest pick, the   *)
(* calibration of forecasts at its oldest, the grader of catalysts at each     *)
(* event that was named, the paper ledger at the last run of each day, and     *)
(* the quarterly review at the first pick of a quarter.                      *)
(*                                                                         *)
(* All fetch the bars anew.  Those are in today's shares: a split restates     *)
(* every earlier close, but not the price a run stored of what it picked.     *)
(***************************************************************************)
EXTENDS Integers, FiniteSets, FiniteSetsExt

CONSTANTS
    Symbols, SPY,          \* SPY is one; the others may be picked
    BarsOf, Close,         \* the days a symbol has a bar of; what a share of the first day is worth at its close
    Moving,                \* and while a session goes on
    SplitOn, SPLIT,        \* the day a share becomes SPLIT shares
    Events,                \* [ticker, when, direction] that may be named with a pick
    BEAR, BULL, LAG, MOVER,   \* in percent: the ranker's targets, and what counts as lagging and as a move
    OPEN_WINDOW_DAYS, REACTION_DAYS, GRADE_LOOKBACK_DAYS, CALIBRATION_DAYS, QUARTER_DAYS,
    CONVICTION_HORIZON, EV_HORIZONS,   \* days, of total and of yearly returns
    TREND_BARS, TREND_DAYS,   \* the average's closes, and how long before the oldest pick bars are fetched
    SPAN, SLACK,           \* how long before the first event, and before a pick
    RunDays, LastReview, MaxRuns, MaxCalls   \* bounds

ASSUME ReviewAssumption ==
    /\ SPY \in Symbols /\ BarsOf \in [Symbols -> SUBSET Nat] /\ SplitOn \in [Symbols -> Nat] /\ SPLIT \in Nat \ {0}
    /\ Close \in [Symbols -> [0..LastReview -> Nat \ {0}]] /\ Moving \in [Symbols -> Nat \ {0}]
    /\ {OPEN_WINDOW_DAYS, REACTION_DAYS, GRADE_LOOKBACK_DAYS, CALIBRATION_DAYS, QUARTER_DAYS, CONVICTION_HORIZON, LastReview} \subseteq Nat
    /\ EV_HORIZONS \subseteq Nat \ {0} /\ {MOVER, SPAN, SLACK, TREND_DAYS} \subseteq Nat /\ QUARTER_DAYS > 0
    /\ \A c \in Events : c.when \in Nat
    /\ OPEN_WINDOW_DAYS <= GRADE_LOOKBACK_DAYS /\ SPAN <= TREND_DAYS

(* Before a session after which a stock still trades lie SPAN days with one,   *)
(* if it has traded at all: no halt is longer.                               *)
ASSUME HaltAssumption ==
    \A s \in Symbols, day \in 0..LastReview :
        LET within(from, to) == \E d \in BarsOf[s] : from <= d /\ d <= to
        IN  within(0, day - 1) /\ within(day, day + REACTION_DAYS) => within(day - SPAN, day - 1)

VARIABLES
    picks,       \* tables picks, runs and candidates: see Row
    named,       \* table pick_catalysts
    runs,        \* runs so far
    now, over    \* the day, and whether its session is over

reviewVars == <<picks, named, runs, now, over>>

-----------------------------------------------------------------------------
(* Today's bar is there, and moves until the session is over.                 *)
BarsIn(s, from, to) == {d \in BarsOf[s] : from <= d /\ d <= to /\ d <= now}
Earliest(days) == IF days = {} THEN {} ELSE {Min(days)}
Latest(days) == IF days = {} THEN {} ELSE {Max(days)}

(* A price: what the shares of the first day are worth, and into how many one  *)
(* of them has split.                                                       *)
PerShare(s, day) == IF SplitOn[s] <= day THEN SPLIT ELSE 1
Worth(s, day) == IF day = now /\ ~over THEN Moving[s] ELSE Close[s][day]
Fetched(s, day) == [worth |-> Worth(s, day), per |-> PerShare(s, now)]

(* The run's price of a pick; its expected value is of a return over ev days,  *)
(* if it told one; older and rebalance runs stored no forecast.               *)
Row(t, ev, told) ==
    [run |-> runs + 1, day |-> now, ticker |-> t, ev |-> ev, rated |-> told, priced |-> told,
     screened |-> [worth |-> Worth(t, Max(BarsIn(t, 0, now))), per |-> PerShare(t, now)]]

(* A run picks stocks that trade, and names events of some of them.           *)
insert_picks ==
    /\ runs < MaxRuns /\ runs' = runs + 1 /\ now \in RunDays
    /\ \E picked \in SUBSET (Symbols \ {SPY}), told \in BOOLEAN, ev \in EV_HORIZONS, calls \in SUBSET Events :
          /\ picked # {} /\ \A t \in picked : BarsIn(t, now - SLACK, now) # {}
          /\ Cardinality(named) + Cardinality(calls) <= MaxCalls /\ \A c \in calls : c.ticker \in picked
          /\ picks' = picks \cup {Row(t, IF told THEN ev ELSE 0, told) : t \in picked}
          /\ named' = named \cup {[call |-> c, made |-> now] : c \in calls}
    /\ UNCHANGED <<now, over>>

(* What old runs never stored is read from their texts and candidates; some    *)
(* texts do not tell.                                                       *)
Filled(p, found) == [p EXCEPT !.rated = @ \/ p \in found, !.priced = TRUE]
backfill_pick_forecasts ==
    /\ now \in RunDays /\ \E found \in SUBSET {p \in picks : ~p.rated} : picks' = {Filled(p, found) : p \in picks}
    /\ picks' # picks /\ UNCHANGED <<named, runs, now, over>>

NextHour ==
    /\ IF over THEN now < LastReview /\ now' = now + 1 /\ over' = FALSE ELSE now' = now /\ over' = TRUE
    /\ UNCHANGED <<picks, named, runs>>

ReviewInit == picks = {} /\ named = {} /\ runs = 0 /\ now = 0 /\ over = FALSE
ReviewNext == insert_picks \/ backfill_pick_forecasts \/ NextHour
ReviewSpec == ReviewInit /\ [][ReviewNext]_reviewVars

-----------------------------------------------------------------------------
(* What an entry and an exit came to: the exit's worth of one share bought.    *)
Returns(entries, exits) == {[entry |-> e, exit |-> x] : e \in entries, x \in exits}
AtLeast(m, pct) == 100 * m.exit.worth * m.entry.per >= (100 + pct) * m.entry.worth * m.exit.per
AtMost(m, pct) == 100 * m.exit.worth * m.entry.per <= (100 + pct) * m.entry.worth * m.exit.per
SameReturn(m, n) ==
    (m.exit.worth * m.entry.per) * (n.entry.worth * n.exit.per) = (n.exit.worth * n.entry.per) * (m.entry.worth * m.exit.per)
\* Points of m over n are at most pct.
Lags(m, n, pct) ==
    LET of(x) == x.entry.worth * x.exit.per
    IN  100 * (m.exit.worth * m.entry.per * of(n) - n.exit.worth * n.entry.per * of(m)) <= -pct * of(m) * of(n)

FetchedOn(s, days) == {Fetched(s, d) : d \in days}
EntryOf(p, days) == IF p.priced THEN {p.screened} ELSE FetchedOn(p.ticker, Earliest(days))

-----------------------------------------------------------------------------
(* thesis_tracker: a stock's newest pick is open for OPEN_WINDOW_DAYS, with    *)
(* the events all of its picks named in that time.                            *)
InWindow == {p \in picks : p.day >= now - OPEN_WINDOW_DAYS}
load_open_picks == {p \in InWindow : \A q \in InWindow : q.ticker = p.ticker => q.run <= p.run}
CallsOn(p) == {n.call : n \in {x \in named : x.call.ticker = p.ticker /\ x.made >= now - OPEN_WINDOW_DAYS}}
TrendStart == Min({p.day : p \in load_open_picks}) - TREND_DAYS

(* The last close before the event to the last in the days after it.          *)
_window_move(s, when, from) ==
    {m \in {[from |-> b, to |-> a] : b \in Latest(BarsIn(s, from, when - 1)), a \in Latest(BarsIn(s, from, when + REACTION_DAYS))} : m.from < m.to}
Moves(c, from) == {[call |-> c, own |-> o, spy |-> y] : o \in _window_move(c.ticker, c.when, from), y \in _window_move(SPY, c.when, from)}
\* The stock's move less SPY's, in percent, is to Scale(m) as Excess(m).
Scale(m) == Worth(m.call.ticker, m.own.from) * Worth(SPY, m.spy.from)
Excess(m) ==
    100 * (Worth(m.call.ticker, m.own.to) * Worth(SPY, m.spy.from) - Worth(SPY, m.spy.to) * Worth(m.call.ticker, m.own.from))

\* Also events whose days after are not over.
JudgedMutant(p) == UNION {Moves(c, TrendStart) : c \in {x \in CallsOn(p) : p.day <= x.when /\ x.when < now}}
Judged(p) == UNION {Moves(c, TrendStart) : c \in {x \in CallsOn(p) : p.day <= x.when /\ x.when <= now - REACTION_DAYS}}
_catalyst_signals(p) == {m \in Judged(p) : Excess(m) < -MOVER * Scale(m)}

ThesisReturn(p) == Returns(EntryOf(p, BarsIn(p.ticker, p.day, now)), FetchedOn(p.ticker, Latest(BarsIn(p.ticker, TrendStart, now))))
SpyReturn(p) == Returns(FetchedOn(SPY, Earliest(BarsIn(SPY, p.day, now))), FetchedOn(SPY, Latest(BarsIn(SPY, TrendStart, now))))
Trailing(s) == LET all == BarsIn(s, TrendStart, now) IN {d \in all : Cardinality({e \in all : e > d}) < TREND_BARS}
IsBelowTrend(s) ==
    LET WorthOn(d) == Worth(s, d)
    IN  Cardinality(Trailing(s)) = TREND_BARS /\ TREND_BARS * Worth(s, Max(Trailing(s))) < MapThenSumSet(WorthOn, Trailing(s))

(* Price is a concern past the bear case, or below the trend while lagging;    *)
(* with estimates being cut it is a broken thesis.                           *)
_price_concerns(p, m) ==
    LET lagging == \E n \in SpyReturn(p) : Lags(m, n, LAG)
    IN  [bear |-> AtMost(m, BEAR), bull |-> ~AtMost(m, BEAR) /\ AtLeast(m, BULL), trend |-> lagging /\ IsBelowTrend(p.ticker), lagging |-> lagging]
_check_pick(p, m, cutting) ==
    LET c == _price_concerns(p, m)
    IN  CASE (c.bear \/ c.trend) /\ cutting -> "BROKEN"
          [] c.bull -> "TARGET HIT"
          [] c.bear \/ c.lagging \/ cutting \/ _catalyst_signals(p) # {} -> "WATCH"
          [] OTHER -> "INTACT"

-----------------------------------------------------------------------------
(* catalyst_grading: every event whose days after are over, once.             *)
_load_due == {c \in {n.call : n \in named} : now - GRADE_LOOKBACK_DAYS <= c.when /\ c.when <= now - REACTION_DAYS}
grade_catalysts == UNION {Moves(c, Min({d.when : d \in _load_due}) - SPAN) : c \in _load_due}
IsHit(m) ==
    CASE m.call.direction = "positive" -> Excess(m) > 0
      [] m.call.direction = "negative" -> Excess(m) < 0
      [] OTHER -> Excess(m) >= MOVER * Scale(m) \/ Excess(m) <= -MOVER * Scale(m)

-----------------------------------------------------------------------------
(* calibration: a stock's oldest pick the lookback reaches, scored when it is  *)
(* as old as its horizon.                                                   *)
Reached == {p \in picks : p.day >= now - CALIBRATION_DAYS}
\* The newest pick is graded.
_load_forecastsMutant == {p \in Reached : \A q \in Reached : q.ticker = p.ticker => q.run <= p.run}
_load_forecasts == {p \in Reached : \A q \in Reached : q.ticker = p.ticker => p.run <= q.run}
HorizonsOf(p) == (IF p.ev > 0 THEN {p.ev} ELSE {}) \cup (IF p.rated THEN {CONVICTION_HORIZON} ELSE {})
_realized_return(p, h) ==
    IF now - p.day < h THEN {}
    ELSE Returns(EntryOf(p, BarsIn(p.ticker, p.day, p.day + h)), FetchedOn(p.ticker, Latest(BarsIn(p.ticker, p.day - SLACK, p.day + h))))

(* score_validation: the same window, with the entry fetched.                *)
_forward_return(s, day, h) ==
    LET first == Earliest(BarsIn(s, day, day + h))  last == Latest(BarsIn(s, day - SLACK, day + h))
    IN  IF first = last THEN {} ELSE Returns(FetchedOn(s, first), FetchedOn(s, last))

-----------------------------------------------------------------------------
(* paper_ledger: the last run of a day with picks is followed, from SPY's      *)
(* first close on, at each pick's last close by then.                        *)
\* Every run of a day is.
FollowedMutant(day) == {p \in picks : p.day = day}
Followed(day) == {p \in picks : p.day = day /\ \A q \in picks : q.day = day => q.run <= p.run}
LedgerStart == Min({p.day : p \in picks}) - SLACK
SpyEntry(day) == Earliest(BarsIn(SPY, day, now))
load_tranches(day) ==
    UNION {{[run |-> p.run, ticker |-> p.ticker, entered |-> e, at |-> b] : b \in Latest(BarsIn(p.ticker, LedgerStart, e))}
           : p \in Followed(day), e \in SpyEntry(day)}

(* quarterly: the first pick of a stock in a quarter, to today.               *)
collect_suggestions(quarter) ==
    LET within == {p \in picks : p.day \div QUARTER_DAYS = quarter}
    IN  {p \in within : \A q \in within : q.ticker = p.ticker => p.run <= q.run}
_return_since(s, day) == Returns(FetchedOn(s, Earliest(BarsIn(s, day, now))), FetchedOn(s, Latest(BarsIn(s, day, now))))

-----------------------------------------------------------------------------
(* The thesis check and the grader take the same events' same moves, though    *)
(* they fetch other bars: what the one warns of ("Catalyst went the wrong      *)
(* way", "Flagged risk event hit") the other counts as a miss of a rise, or a   *)
(* hit of a fall, and it is the grader's to judge an event first.             *)
CallsAreJudgedAlike ==
    \A p \in load_open_picks :
        /\ Judged(p) = {m \in grade_catalysts : m.call \in CallsOn(p) /\ p.day <= m.call.when}
        /\ \A m \in _catalyst_signals(p) : IsHit(m) = (m.call.direction # "positive")

(* A pick's price is its day's close, and its shares are still the same.       *)
StoodStill(p) == PerShare(p.ticker, p.day) = PerShare(p.ticker, now)
AtItsClose(p) == p.day \in BarsOf[p.ticker] /\ p.screened.worth = Close[p.ticker][p.day] /\ StoodStill(p)

(* A pick stored at its day's close earned what the quarterly review and the   *)
(* score's validation say, which fetch the close: but for one that split       *)
(* since, whose stored price no reader restates (calibration._realized_return_pct, *)
(* thesis_tracker._check_pick).                                             *)
ReadersAgree ==
    \A p \in picks : AtItsClose(p) \/ ~p.priced =>
        /\ p \in load_open_picks => \A m \in ThesisReturn(p), n \in _return_since(p.ticker, p.day) : SameReturn(m, n)
        /\ \A h \in HorizonsOf(p) : \A m \in _realized_return(p, h), n \in _forward_return(p.ticker, p.day, h) : SameReturn(m, n)

(* Of each day one run is followed, and all of its money is placed.           *)
FollowedWhole ==
    \A day \in 0..now :
        LET tranche == load_tranches(day)
        IN  /\ \A x, y \in tranche : x.run = y.run
            /\ SpyEntry(day) # {} => {x.ticker : x \in tranche} = {p.ticker : p \in Followed(day)}

ReviewsAgree == CallsAreJudgedAlike /\ ReadersAgree /\ FollowedWhole

(* "The first time the system told you to buy something is the call that gets   *)
(* graded" until the lookback drops it, and what it earned by its horizon       *)
(* stands from the day after, whatever is picked and filled in later; what a    *)
(* tranche bought stands when its day is over.                               *)
GradedCallStands ==
    \A p \in _load_forecasts : p.day >= now' - CALIBRATION_DAYS =>
        /\ \E q \in _load_forecasts' : q.run = p.run /\ q.ticker = p.ticker /\ q.ev = p.ev /\ (p.rated => q.rated)
        /\ \A h \in HorizonsOf(p) : now > p.day + h /\ p \in picks' /\ (p.priced => StoodStill(p)') =>
              \A m \in _realized_return(p, h), n \in _realized_return(p, h)' : SameReturn(m, n)
TranchesStand == \A day \in 0..now - 1 : SpyEntry(day) # {} => load_tranches(day)' = load_tranches(day)
ReviewsStand == [][GradedCallStands /\ TranchesStand]_reviewVars
===============================================================================
