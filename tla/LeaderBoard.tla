------------------------------ MODULE LeaderBoard ------------------------------
(***************************************************************************)
(* The morning's ratings of every large stock (cli/ibd.py): rated on the bars,  *)
(* the earnings and the industries it could load, stored with their history    *)
(* and the signals of the day, read by discover and the weekly mail, and in     *)
(* part rebuilt for days before the job existed.                            *)
(***************************************************************************)
EXTENDS Integers, FiniteSets, SequencesExt

CONSTANTS
    Stocks, Held, IndustryOf, EpsOf,           \* tracked stocks; growth of earnings
    Tapes,                                     \* strength and buy points of each day: see StrengthOf
    LastMorning, TradingDays,                  \* a run of a morning knows the closes before
    MIN_GROUP_SIZE, SIGNAL_QUIET_DAYS, FULL_SNAPSHOT_EVERY_DAYS, LEADERS_MAX_AGE_DAYS,
    LEADERS,                                   \* the stocks discover is fed
    DROP_WINDOW_DAYS, DROP_SLACK,
    HORIZON, Unpriced,                         \* days and stocks without a close
    BACKFILL, MaxTroubles                      \* bounds: days rebuilt, loads that fail

ASSUME LeadersAssumption ==
    /\ IsFiniteSet(Stocks) /\ Held \subseteq Stocks /\ {DROP_WINDOW_DAYS, DROP_SLACK} \subseteq Nat
    /\ TradingDays \subseteq 1..LastMorning
    /\ {MIN_GROUP_SIZE, SIGNAL_QUIET_DAYS, FULL_SNAPSHOT_EVERY_DAYS, HORIZON, LastMorning} \subseteq Nat \ {0} /\ LEADERS \in Nat

VARIABLES
    today, tape,
    ratings,       \* table ibd_ratings: the day and a row a stock
    history,       \* table ibd_history: by day, rows [full, live, composite]
    signals,       \* table ibd_signals
    sectors,       \* tables ibd_sectors and ibd_market: by day
    rebuild,       \* backfill's days to go and what it remembers
    troubles, whole, seen  \* mishaps; whether all sources were once stored; what each live day was rated

boardVars == <<today, tape, ratings, history, signals, sectors, rebuild, troubles, whole, seen>>
Days == 1..LastMorning + 1
StrengthOf(s, day) == IF day < tape.turn THEN tape.early[s] ELSE tape.late[s]
Zone(day) == IF day < tape.turn THEN tape.zone ELSE tape.laterZone
Closes(morning) == {d \in TradingDays : d < morning}
LastOf(S) == IF S = {} THEN 0 ELSE Max(S)

-----------------------------------------------------------------------------
(* 1 to 99 by the place among those with a figure; equals share theirs, and a   *)
(* half is rounded to the even rank.                                        *)
RoundHalfEven(a, d) ==
    LET down == a \div d  rest == 2 * (a % d)
    IN  IF rest > d \/ (rest = d /\ down % 2 = 1) THEN down + 1 ELSE down
percentile_rank(Of(_), k, S) ==
    LET below == Cardinality({x \in S : Of(x) < Of(k)})
        equal == Cardinality({x \in S : Of(x) = Of(k)})
        d == 2 * Max({Cardinality(S) - 1, 1})
    IN  RoundHalfEven(d + 98 * (2 * below + equal - 1), d)

(* Rates the stocks with bars; what else is missing leaves its weight to the    *)
(* rest.  (Acc/Dis and the distance from the high go with the strength, and a  *)
(* trade has at most two stocks, whose median is their middle.)               *)
composite_of(k, day, bars, eps, industries) ==
    LET Strength(s) == StrengthOf(s, day)
        Earnings(s) == EpsOf[s]
        grouped == bars \cap industries
        Trade(g) == {StrengthOf(s, day) : s \in {x \in grouped : IndustryOf[x] = g}}
        groups == {g \in {IndustryOf[x] : x \in grouped} : Cardinality({x \in grouped : IndustryOf[x] = g}) >= MIN_GROUP_SIZE}
        Group(g) == Max(Trade(g)) + Min(Trade(g))
        Eps(s) == IF s \in eps THEN <<2, percentile_rank(Earnings, s, bars \cap eps)>> ELSE <<0, 0>>
        Industry(s) == IF s \in grouped /\ IndustryOf[s] \in groups THEN <<1, percentile_rank(Group, IndustryOf[s], groups)>> ELSE <<0, 0>>
        Weighed(s) == LET e == Eps(s)  g == Industry(s)
                      IN  (100 * (4 * percentile_rank(Strength, s, bars) + e[1] * e[2] + g[1] * g[2])) \div (4 + e[1] + g[1])
        weighed == {<<s, Weighed(s)>> : s \in bars}
        Total(p) == p[2]
    IN  percentile_rank(Total, CHOOSE p \in weighed : p[1] = k, weighed)
rate_universe(day, bars, eps, industries) ==
    [s \in bars |-> [composite |-> composite_of(s, day, bars, eps, industries),
                     eps |-> s \in eps, industry |-> s \in industries, zone |-> s \in Zone(day)]]

coverage(rows) ==
    [rated |-> Cardinality(DOMAIN rows),
     with_eps |-> Cardinality({s \in DOMAIN rows : rows[s].eps}),
     with_industry |-> Cardinality({s \in DOMAIN rows : rows[s].industry})]
MIN_COVERAGE == [rated |-> <<4, 5>>, with_eps |-> <<1, 2>>, with_industry |-> <<1, 2>>]
\* Only the number of stocks is compared.
shortfallMutant(rows) == {k \in {"rated"} : coverage(rows)[k] * 5 < 4 * coverage(ratings.rows)[k]}
shortfall(rows) ==
    LET now == coverage(rows)  before == coverage(ratings.rows)
    IN  {k \in DOMAIN MIN_COVERAGE : before[k] > 0 /\ now[k] * MIN_COVERAGE[k][2] < MIN_COVERAGE[k][1] * before[k]}

\* The rows of stocks that are tracked are not kept.
history_rowsMutant(rows, full) == {s \in DOMAIN rows : full \/ rows[s].composite >= 90 \/ rows[s].zone}
history_rows(rows, full) == {s \in DOMAIN rows : full \/ rows[s].composite >= 90 \/ rows[s].zone \/ s \in Held}
Kept(rows, full, live) == [s \in history_rows(rows, full) |-> [full |-> full, live |-> live, composite |-> rows[s].composite]]
\* A row is written over the one of its stock.
Merged(rows, stored) == [s \in DOMAIN rows \cup DOMAIN stored |-> IF s \in DOMAIN rows THEN rows[s] ELSE stored[s]]
new_signals(rows, recent) == {s \in DOMAIN rows : rows[s].zone /\ rows[s].composite >= 80 /\ s \notin recent}

FullDays == {d \in Days : \E s \in DOMAIN history[d] : history[d][s].full}
\* The signals of the day itself are not looked at.
RecentMutant(day) == {s \in Stocks : \E g \in signals : g.stock = s /\ g.day > day - SIGNAL_QUIET_DAYS /\ g.day < day}
Recent(day) == {s \in Stocks : \E g \in signals : g.stock = s /\ g.day >= day - SIGNAL_QUIET_DAYS}

(* The job of a morning: what came out short is loaded once more (not its      *)
(* bars), and is not stored when it still is.  Without the index's bars the    *)
(* day is the morning's own.                                               *)
Loads == [eps : {Stocks, {}}, industries : {Stocks, {}}]
Whole == [eps |-> Stocks, industries |-> Stocks]
FullOn(day) == FullDays = {} \/ day - LastOf(FullDays) >= FULL_SNAPSHOT_EVERY_DAYS
StoreRatings(day, rows) ==
    /\ shortfall(rows) = {}
    /\ ratings' = [asOf |-> day, rows |-> rows]
    /\ history' = [history EXCEPT ![day] = Merged(Kept(rows, FullOn(day), TRUE), @)]
    /\ signals' = signals \cup {[stock |-> s, day |-> day, live |-> TRUE] : s \in new_signals(rows, Recent(day))}
    /\ sectors' = [sectors EXCEPT ![day] = "live"]
    /\ seen' = [seen EXCEPT ![day] = Merged([s \in DOMAIN rows |-> rows[s].composite], @)]
    /\ whole' = (whole \/ (DOMAIN rows # {} /\ \A s \in DOMAIN rows : rows[s].eps /\ rows[s].industry))
run ==
    \E bars \in {Stocks, Stocks \ Held}, first \in Loads, spy \in BOOLEAN :
        LET known == LastOf(Closes(today))
            day == IF spy THEN known ELSE today
            cost == Cardinality({x \in {<<"bars", bars = Stocks>>, <<"load", first = Whole>>, <<"index", spy>>} : ~x[2]})
        IN  /\ known # 0 /\ troubles + cost <= MaxTroubles
            /\ \E loaded \in {rate_universe(known, bars, first.eps, first.industries)} :
                 IF shortfall(loaded) = {}
                 THEN StoreRatings(day, loaded) /\ troubles' = troubles + cost
                 ELSE \E second \in Loads :
                        /\ troubles' = troubles + cost + (IF second = Whole THEN 0 ELSE 1) /\ troubles' <= MaxTroubles
                        /\ \E again \in {rate_universe(known, bars, second.eps, second.industries)} : StoreRatings(day, again)
            /\ UNCHANGED <<today, tape, rebuild>>

-----------------------------------------------------------------------------
(* Rebuilds the days no live run rated, the last session left out.             *)
\* Days a live run rated are rebuilt too.
ToRebuildMutant == {d \in Closes(today) \ {LastOf(Closes(today))} : Cardinality({x \in Closes(today) : x > d}) <= BACKFILL}
ToRebuild ==
    LET calendar == Closes(today)
    IN  {d \in calendar \ {LastOf(calendar)} :
            Cardinality({x \in calendar : x > d}) <= BACKFILL /\ ~(\E s \in DOMAIN history[d] : history[d][s].live)}
NotStarted == [left |-> {}, lastFull |-> 0, quiet |-> [s \in Stocks |-> 0], started |-> FALSE]

StartBackfill ==
    /\ ~rebuild.started /\ ToRebuild # {}
    /\ rebuild' = [NotStarted EXCEPT !.left = ToRebuild, !.started = TRUE]
    /\ UNCHANGED <<today, tape, ratings, history, signals, sectors, troubles, whole, seen>>

backfill ==
    /\ rebuild.left # {}
    /\ LET day == Min(rebuild.left)
           full == rebuild.lastFull = 0 \/ day - rebuild.lastFull >= FULL_SNAPSHOT_EVERY_DAYS
           quiet == {s \in Stocks : rebuild.quiet[s] # 0 /\ day - rebuild.quiet[s] < SIGNAL_QUIET_DAYS}
       IN  \E rows \in {rate_universe(day, Stocks, Stocks, Stocks)} :
           LET new == new_signals(rows, quiet)
           IN  /\ history' = [history EXCEPT ![day] = Merged(Kept(rows, full, FALSE), @)]
               /\ signals' = {g \in signals : g.day # day \/ g.stock \notin new} \cup {[stock |-> s, day |-> day, live |-> FALSE] : s \in new}
               /\ sectors' = IF sectors[day] = "live" THEN sectors ELSE [sectors EXCEPT ![day] = "rebuilt"]
               /\ rebuild' = [rebuild EXCEPT !.left = @ \ {day}, !.lastFull = IF full THEN day ELSE @,
                                             !.quiet = [s \in Stocks |-> IF s \in new THEN day ELSE @[s]]]
    /\ UNCHANGED <<today, tape, ratings, troubles, whole, seen>>

NextMorning ==
    /\ today <= LastMorning /\ today' = today + 1
    /\ UNCHANGED <<tape, ratings, history, signals, sectors, rebuild, troubles, whole, seen>>

BoardInit ==
    /\ today = 2 /\ tape \in Tapes
    /\ ratings = [asOf |-> 0, rows |-> <<>>] /\ history = [d \in Days |-> <<>>]
    /\ signals = {} /\ sectors = [d \in Days |-> "none"] /\ rebuild = NotStarted
    /\ troubles = 0 /\ whole = FALSE /\ seen = [d \in Days |-> <<>>]
BoardNext == run \/ StartBackfill \/ backfill \/ NextMorning
BoardSpec == BoardInit /\ [][BoardNext]_boardVars

-----------------------------------------------------------------------------
(* What is read of the tables.  Equals stand in the order they are read.       *)
top_leaders ==
    LET Before(s, x) == ratings.rows[s].composite > ratings.rows[x].composite
        ranked == SetToSortSeq(DOMAIN ratings.rows, Before)
        top == {ranked[i] : i \in DOMAIN ranked \cap 1..LEADERS}
        zone == {s \in DOMAIN ratings.rows : ratings.rows[s].composite >= 90 /\ ratings.rows[s].zone}
    IN  IF LEADERS = 0 \/ ratings.asOf = 0 \/ today - ratings.asOf > LEADERS_MAX_AGE_DAYS THEN {} ELSE top \cup zone

(* Holdings whose rank fell in about a month.                                *)
holding_checks ==
    {t \in Held \cap DOMAIN ratings.rows :
        LET past == {d \in Days : today - DROP_WINDOW_DAYS - DROP_SLACK <= d /\ d <= today - DROP_WINDOW_DAYS /\ t \in DOMAIN history[d]}
        IN  past # {} /\ history[Max(past)][t].composite - ratings.rows[t].composite >= 25}

(* From the close of a day to that of the session a horizon later, or the last *)
(* one with a price: the sessions between, 0 when there is none.               *)
\* The latest close, however much later.
_forwardMutant(stock, day, horizon) ==
    LET after == {d \in Closes(today) : d > day /\ <<stock, d>> \notin Unpriced}
    IN  IF day \notin Closes(today) \/ <<stock, day>> \in Unpriced THEN {} ELSE {d \in Closes(today) : day < d /\ d <= LastOf(after)}
_forward(stock, day, horizon) ==
    LET till == {d \in Closes(today) : day < d /\ Cardinality({x \in Closes(today) : day < x /\ x <= d}) <= horizon}
        end == LastOf({d \in till : <<stock, d>> \notin Unpriced})
    IN  IF day \notin Closes(today) \/ <<stock, day>> \in Unpriced THEN {} ELSE {d \in till : d <= end}
signal_scorecard(g) ==
    LET mine == _forward(g.stock, g.day, HORIZON)
    IN  [mine |-> mine, spy |-> _forward("SPY", g.day, Cardinality(mine)), done |-> Cardinality(mine) >= HORIZON]

-----------------------------------------------------------------------------
(* A stock is signalled once in its quiet days, however often a morning's job  *)
(* runs and whatever day it takes its closes to be of.                        *)
QuietPeriodHolds ==
    \A g, h \in signals : g.live /\ h.live /\ g.stock = h.stock /\ g.day < h.day => h.day - g.day > SIGNAL_QUIET_DAYS

(* A load that lost a source altogether never ranks stocks for discover once   *)
(* there was a whole one (the inputs' check and its retry).                   *)
FedLeadersAreWhole ==
    whole /\ top_leaders # {} => (\E s \in DOMAIN ratings.rows : ratings.rows[s].eps) /\ (\E s \in DOMAIN ratings.rows : ratings.rows[s].industry)

(* The history knows every stock it could rate once in a week of a run's day,   *)
(* also when the day of a full snapshot was run or rebuilt twice.               *)
EveryWeekIsWhole ==
    ratings.asOf # 0 => \E d \in Days : /\ d > ratings.asOf - FULL_SNAPSHOT_EVERY_DAYS
                                        /\ Cardinality(DOMAIN history[d]) >= Cardinality(Stocks) - Cardinality(Held)

(* A holding that ranked far higher at the last run before the window is told,  *)
(* unless a rebuilt day lies between.                                        *)
FallsAreTold ==
    \A t \in Held \cap DOMAIN ratings.rows :
        LET past == {d \in Days : today - DROP_WINDOW_DAYS - DROP_SLACK <= d /\ d <= today - DROP_WINDOW_DAYS /\ t \in DOMAIN seen[d]}
        IN  /\ past # {} /\ seen[Max(past)][t] - ratings.rows[t].composite >= 25
            /\ \A d \in Max(past) + 1..today - DROP_WINDOW_DAYS : t \notin DOMAIN history[d]
            => t \in holding_checks

(* A signal and the index are compared over the same days, where the index has   *)
(* the closes of both ends.                                                 *)
ComparedFairly ==
    \A g \in signals : LET grade == signal_scorecard(g)
                        IN  grade.done /\ {<<"SPY", d>> : d \in {g.day, Max(grade.mine)}} \cap Unpriced = {} => grade.mine = grade.spy

(* A day that was rated live keeps its rows through a rebuilding.              *)
LiveRowsStand ==
    [][/\ \A d \in Days : \A s \in DOMAIN history[d] : history[d][s].live => history'[d][s].live
       /\ \A d \in Days : sectors[d] = "live" => sectors'[d] = "live"
       /\ \A g \in signals : g.live => g \in signals']_boardVars

(* A signal's grade is given once and for all.                                *)
GradesStand ==
    [][today' # today => \A g \in signals : signal_scorecard(g).done => signal_scorecard(g)' = signal_scorecard(g)]_boardVars

(* What discover and the weekly mail read of the ratings (cli/ibd.py,           *)
(* reporting/leaders.py).                                                   *)
BoardIsSound == QuietPeriodHolds /\ FedLeadersAreWhole /\ EveryWeekIsWhole /\ FallsAreTold /\ ComparedFairly

BoardStands == LiveRowsStand /\ GradesStand
=============================================================================
