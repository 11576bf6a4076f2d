------------------------------ MODULE Gradebook ------------------------------
(***************************************************************************)
(* What became of a pick, told in three places: outcomes, written once its   *)
(* window has closed and never again; the track record, measured afresh at   *)
(* each run; and the price record, one close for each day.                  *)
(*                                                                         *)
(* A price is the bar it is taken from.  A day has three parts: before the   *)
(* session, the session, whose bar still moves, and after 4:30 PM.          *)
(***************************************************************************)
EXTENDS Integers, FiniteSets, FiniteSetsExt

CONSTANTS
    Decisions,          \* [ticker, day, direction], stored by the runs
    Holidays,           \* the weekdays the exchange is closed
    LastTraded,         \* [tickers -> the last day they trade]
    Horizons, LookbackDays,   \* track_record._HORIZONS, in days
    HORIZONS,           \* the outcomes' horizons, in sessions
    HORIZON_DAYS,       \* the scorecard's
    FirstWeekday,       \* 0 is Monday
    LastDay,            \* bound
    Looked,             \* bound: the days something is run
    Nothing

ASSUME GradeAssumption ==
    /\ Holidays \subseteq Nat
    /\ {FirstWeekday, LastDay, LookbackDays} \subseteq Nat
    /\ \A d \in Decisions : d.day \in Nat /\ LastTraded[d.ticker] \in Nat
    /\ Nothing \notin [entry : Nat, exit : Nat, final : BOOLEAN]
    /\ Looked \subseteq 0..LastDay /\ 0 \in Looked
    /\ Horizons \cup HORIZONS \subseteq Nat \ {0} /\ HORIZON_DAYS \in HORIZONS

VARIABLES
    tick,       \* three times the day, plus the part of the day
    labelled,   \* candidate_outcomes: [decisions, horizons -> [entry, exit, final], or Nothing]
    passed,     \* the day of the last labelling
    close       \* today's rows of ticker_prices: [tickers -> [bar, final], or Nothing]

gradeVars == <<tick, labelled, passed, close>>

IsWeekday(d) == (d + FirstWeekday) % 7 < 5

(* The days the exchange is open: SPY's bars.                                 *)
Sessions == {d \in 0..LastDay : IsWeekday(d)} \ Holidays

Day == tick \div 3
InSession == tick % 3 = 1 /\ Day \in Sessions
Tickers == {d.ticker : d \in Decisions}
Trades(t) == Sessions \cap (0..LastTraded[t])
Made == {d \in Decisions : d.day <= Day}
Age(d) == Day - d.day

\* Yahoo's bars: today's from the open on, and moving until the close.
LastBar == IF tick % 3 > 0 THEN Day ELSE Day - 1
IsFinal(bar) == bar < Day \/ ~InSession

-----------------------------------------------------------------------------
(* A window needs h + 1 sessions, 7/5 days each, and three days for holidays. *)
Gate(d, h) == 5 * Age(d) >= 7 * (h + 1) + 15

(* The first session after the decision, and the h-th after that.             *)
EntryDay(d) == Min({s \in Sessions : s > d.day})
Windows == {[of |-> d, h |-> h, entry |-> EntryDay(d), exit |-> s] : d \in Decisions, h \in HORIZONS, s \in Sessions}
Closing == {w \in Windows : w.entry < w.exit /\ Cardinality({r \in Sessions : w.entry < r /\ r <= w.exit}) = w.h}
Window(d, h) == {w \in Closing : w.of = d /\ w.h = h /\ w.exit <= LastBar}
Prices(d, h) == {w \in Window(d, h) : {w.entry, w.exit} \subseteq Trades(d.ticker)}

(* label_candidates: every outcome that can be told is told, once.           *)
Label ==
    /\ passed' = Day
    /\ labelled' = [k \in Decisions \X HORIZONS |->
          IF labelled[k] = Nothing /\ k[1] \in Made /\ Gate(k[1], k[2]) /\ Prices(k[1], k[2]) # {}
          THEN LET w == CHOOSE v \in Prices(k[1], k[2]) : TRUE
               IN [entry |-> w.entry, exit |-> w.exit, final |-> IsFinal(w.exit)]
          ELSE labelled[k]]
    /\ labelled' # labelled \/ passed # Day
    /\ UNCHANGED <<tick, close>>

-----------------------------------------------------------------------------
(* The close of today is final: a weekday, after 4:30 PM.                     *)
IsClosed == IsWeekday(Day) /\ tick % 3 = 2

MissingToday == {t \in Tickers : close[t] = Nothing}

(* record_prices, which takes the last bar of five days for today's, and     *)
(* yesterday's when Yahoo lags; no bar is a gap.  The last write wins.        *)
Bars(t, lag) == Trades(t) \cap (Day - 4..LastBar - lag)
RecordPrices ==
    /\ IsClosed
    /\ \E got \in SUBSET MissingToday, lag \in {0, 1} :
          /\ got # {} /\ \A t \in got : Bars(t, lag) # {}
          /\ close' = [t \in Tickers |-> IF t \in got THEN [bar |-> Max(Bars(t, lag)), final |-> ~InSession] ELSE close[t]]
    /\ UNCHANGED <<tick, labelled, passed>>

-----------------------------------------------------------------------------
(* The track record: the oldest decision of each ticker and direction that   *)
(* the lookback still reaches.                                             *)
Oldest == {d \in Made : /\ Age(d) <= LookbackDays
                        /\ \A e \in Made : e.ticker = d.ticker /\ e.direction = d.direction /\ Age(e) <= LookbackDays
                                             => d.day <= e.day}
(* The first close from the decision on, and the last until the end.          *)
FirstAndLast(days, from, to) ==
    LET within == days \cap (from..IF to < LastBar THEN to ELSE LastBar)
    IN IF within = {} THEN {} ELSE {<<Min(within), Max(within)>>}

\* Each horizon is marked to the latest bar.
MeasureMutant(d, h) ==
    LET own == FirstAndLast(Trades(d.ticker), d.day, Day)
        spy == FirstAndLast(Sessions, d.day, Day)
    IN {[horizon |-> h, own |-> o, spy |-> y] : o \in own, y \in spy}

(* The stock's and SPY's closes at the decision and at the horizon's end, or  *)
(* the last before it; nothing when no session has passed.                  *)
Measure(d, h) ==
    LET own == FirstAndLast(Trades(d.ticker), d.day, d.day + h)
        spy == FirstAndLast(Sessions, d.day, d.day + h)
    IN {[horizon |-> h, own |-> o, spy |-> y] : o \in {e \in own : e[1] < e[2]}, y \in spy}

Finished(d) == {h \in Horizons : Age(d) >= h}
Young(d) == Age(d) < Min(Horizons)
Rows(d) == IF Young(d) THEN Measure(d, Age(d)) ELSE UNION {Measure(d, h) : h \in Finished(d)}

\* What has no price is left out, but for the young.
UnmeasurableMutant == {d \in Oldest : Young(d) /\ Rows(d) = {}}

Unmeasurable == {d \in Oldest : Rows(d) = {}}

(* The scorecard's: weekdays, with three days for holidays.                   *)
Weekdays == {e \in 0..LastDay + HORIZON_DAYS : IsWeekday(e)}
DueDays == {<<d, e + 3>> : d \in Decisions, e \in Weekdays}
Due == {p \in DueDays : Cardinality({w \in Weekdays : p[1].day < w /\ w <= p[2] - 3}) = HORIZON_DAYS + 1}

(* The exchange has closed on eight weekdays in that time at most.            *)
ASSUME HolidaysAssumption == \A p \in Due : Cardinality({x \in Holidays : p[1].day < x /\ x <= p[2] + 9}) <= 8

IsDue(d, slack) == \E p \in Due : p[1] = d /\ p[2] + slack <= Day
Maturing == {d \in Made : labelled[d, HORIZON_DAYS] = Nothing /\ ~IsDue(d, 0)}
Unmeasured == {d \in Made : labelled[d, HORIZON_DAYS] = Nothing} \ Maturing

-----------------------------------------------------------------------------
NextPart ==
    /\ tick < 3 * Max(Looked) + 2
    /\ tick' = IF tick % 3 < 2 THEN tick + 1 ELSE 3 * Min({d \in Looked : d > Day})
    /\ close' = IF tick % 3 = 2 THEN [t \in Tickers |-> Nothing] ELSE close
    /\ UNCHANGED <<labelled, passed>>

GradeInit ==
    /\ tick = 0 /\ passed = 0
    /\ labelled = [k \in Decisions \X HORIZONS |-> Nothing] /\ close = [t \in Tickers |-> Nothing]

GradeNext == NextPart \/ Label \/ RecordPrices
GradeSpec == GradeInit /\ [][GradeNext]_gradeVars

-----------------------------------------------------------------------------
(* A window that is over tells the same from the next day on, at every run,   *)
(* also for a stock that stopped trading: what the ranker reads of its own    *)
(* accuracy is not rewritten by when it is read.                            *)
FinishedWindowsStand ==
    [][tick' # tick => \A d \in Made, h \in Horizons : Age(d) > h => Measure(d, h)' = Measure(d, h)]_gradeVars

(* "Nothing is silently dropped" (track_record): a decision either has a row  *)
(* or is named as one that cannot be measured, and a stock that stopped       *)
(* trading within the window is measured to its last close, if it had two.   *)
NothingIsDropped ==
    \A d \in Oldest :
        /\ Rows(d) # {} \/ d \in Unmeasurable
        /\ \A h \in Finished(d) :
              (\E s, r \in Trades(d.ticker) : d.day <= s /\ s < r /\ r < d.day + h) => \E row \in Rows(d) : row.horizon = h

(* The calendar arithmetic of the label gate and of the due date holds over   *)
(* half a year's holidays: a pick with prices that is still unmeasured ten    *)
(* days after it was due has not been labelled that day.                     *)
GradedSoonAfterItsDue ==
    \A d \in Unmeasured :
        IsDue(d, 10) /\ passed = Day => Prices(d, HORIZON_DAYS) = {}

(* Every close of the record is one the session had ended with, and its day's *)
(* or the last before it (price_record: stored early it "would read as        *)
(* today's and block the real close from being recorded").                  *)
RecordedAfterTheBell == \A t \in Tickers : close[t] # Nothing => close[t].final

(* What is graded is all of what was decided, soon after it is due, from      *)
(* closes that were final (track_record, pick_scorecard, price_record).      *)
GradesAreComplete == NothingIsDropped /\ GradedSoonAfterItsDue /\ RecordedAfterTheBell

(* A close that is recorded stays: nothing the vendor restates reaches it.    *)
RecordedOnce == [][\A t \in Tickers : close[t] # Nothing => close'[t] = close[t] \/ Day' # Day]_gradeVars

(* A grade and a price, once they are there, do not change with the day they  *)
(* are read (track_record._measure, price_record.record_prices).             *)
HistoryStands == FinishedWindowsStand /\ RecordedOnce

=============================================================================
