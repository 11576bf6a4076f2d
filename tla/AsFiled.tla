------------------------------- MODULE AsFiled --------------------------------
(***************************************************************************)
(* A company's figures as an investor could have read them: month-end by    *)
(* month-end the facts filed by then are taken in, a restatement replacing  *)
(* the original only once it is filed, and a row is made of the trailing    *)
(* year, the balance sheet, the earnings per share and the market's value.  *)
(* The closes come split- and dividend-adjusted from today, and are walked   *)
(* back to the price that traded; the share count is carried over splits.   *)
(*                                                                         *)
(* Time is in months: quarter k of the company ends at month 3k, four make   *)
(* its fiscal year.  Quarter k earns 2^k, so a sum tells its quarters.       *)
(***************************************************************************)
EXTENDS Integers, FiniteSets, FiniteSetsExt

CONSTANTS
    Quarters,          \* the company's quarters, 1..Quarters
    Delay,             \* months a late filing is late
    STALE,             \* STALE_DAYS in months
    GROWTH_YEARS,
    Oddities,          \* bound: departures from an ordinary company
    Missing            \* None

\* No filing is late by just a year, or two that tell of a period would come at once.
ASSUME FiledAssumption ==
    /\ {Quarters, Delay, STALE, GROWTH_YEARS, Oddities} \subseteq Nat
    /\ Quarters >= 4 /\ GROWTH_YEARS > 0 /\ Delay # 12

VARIABLES
    company,   \* what the company is and did (fixed): see Companies
    month,     \* the next month-end; all filed before it is taken in
    periods,   \* Known.periods: [<<start, end>> -> value]
    past,      \* by earlier month-end: <<revenue, earnings>> as known then
    figures    \* the row of the last month-end

filedVars == <<company, month, periods, past, figures>>

LastMonth == 3 * Quarters + STALE
Months == 1..LastMonth
Worth == 64            \* the market's value before any dividend

(* One quarter filed late, one never filed, one restated in the next year's  *)
(* comparatives, splits two for one, a dividend of half the price, and a     *)
(* month whose last session has no close.                                  *)
Companies ==
    {c \in [late : 0..Quarters, skipped : 0..Quarters, restated : 0..Quarters - 4,
            splits : {s \in SUBSET {5, 14, 19, 20} : Cardinality(s) <= 2}, dividend : {0, 13, 17}, gap : {0, 14, 16, 17}] :
        Cardinality({f \in {"late", "skipped", "restated", "dividend", "gap"} : c[f] # 0}) + Cardinality(c.splits) <= Oddities}

-----------------------------------------------------------------------------
(* What the company files (external).                                       *)
Filed(k) == 3 * k + 1 + IF company.late = k THEN Delay ELSE 0
YearStart(k) == 12 * ((k - 1) \div 4)
ReportsOf(k) == {<<YearStart(k), 3 * k>>} \cup IF k % 4 = 0 THEN {} ELSE {<<3 * k - 3, 3 * k>>}
YearEarlier(ps) == {<<p[1] - 12, p[2] - 12>> : p \in {q \in ps : q[1] >= 12}}
QuartersIn(p) == {q \in 1..Quarters : 3 * q > p[1] /\ 3 * q <= p[2]}
Earned(p) == MapThenSumSet(LAMBDA q : 2 ^ q, QuartersIn(p))
Restatement == 4096
AsToldBy(k, p) == Earned(p) + IF company.restated \in QuartersIn(p) /\ k >= company.restated + 4 THEN Restatement ELSE 0
Filings == (1..Quarters) \ {company.skipped}
FactsOf(k) == {[filed |-> Filed(k), start |-> p[1], end |-> p[2], val |-> AsToldBy(k, p)] : p \in ReportsOf(k) \cup YearEarlier(ReportsOf(k))}

_facts == UNION {FactsOf(k) : k \in Filings}

-----------------------------------------------------------------------------
(* Known.advance: the facts filed since the last month-end are taken in, in   *)
(* the order they were filed, so the latest of a period stands.              *)
\* The facts of every period that has ended.
NewsMutant(day) == {f \in _facts : month - 1 < f.end /\ f.end <= day}
News(day) == {f \in _facts : month - 1 < f.filed /\ f.filed <= day}
Latest(told) == CHOOSE f \in told : \A g \in told : f.filed >= g.filed
advance(day) ==
    LET news == News(day)
        about(p) == {f \in news : <<f.start, f.end>> = p}
    IN  [p \in DOMAIN periods \cup {<<f.start, f.end>> : f \in news} |->
            IF about(p) = {} THEN periods[p] ELSE Latest(about(p)).val]

Length(p) == p[2] - p[1]
Ends(ps) == {p[2] : p \in DOMAIN ps}

(* The trailing year at end: the year itself, or the year so far, plus the   *)
(* fiscal year before it, less the same stretch of that year.                *)
ttm(ps, end) ==
    LET ytds == {p \in DOMAIN ps : p[2] = end /\ Length(p) < 12}
        ytd == CHOOSE p \in ytds : \A q \in ytds : Length(p) >= Length(q)
        fiscal_year == <<ytd[1] - 12, ytd[1]>>
        prior == <<ytd[1] - 12, end - 12>>
    IN  IF <<end - 12, end>> \in DOMAIN ps THEN ps[<<end - 12, end>>]
        ELSE IF ytds # {} /\ {fiscal_year, prior} \subseteq DOMAIN ps
        THEN ps[ytd] + ps[fiscal_year] - ps[prior]
        ELSE Missing

(* The latest end that gives one, unless it is stale, and the year before.   *)
latest_ttm(ps, day) ==
    LET ends == {e \in Ends(ps) : day - e <= STALE /\ ttm(ps, e) # Missing}
    IN  IF ends = {} THEN Missing
        ELSE [end |-> Max(ends), now |-> ttm(ps, Max(ends)),
              before |-> IF Max(ends) - 12 \in Ends(ps) THEN ttm(ps, Max(ends) - 12) ELSE Missing]

(* The fourth quarter is the year less its three quarters.                  *)
quarterly_eps(ps) ==
    LET told == {p \in DOMAIN ps : Length(p) = 3}
        inside(p) == {q \in told : p[1] < q[2] /\ q[2] < p[2]}
        years == {p \in DOMAIN ps : Length(p) = 12 /\ Cardinality(inside(p)) = 3 /\ \A q \in told : q[2] # p[2]}
    IN  [e \in {p[2] : p \in told \cup years} |->
            IF <<e - 3, e>> \in told THEN ps[<<e - 3, e>>]
            ELSE ps[<<e - 12, e>>] - MapThenSumSet(LAMBDA q : ps[q], inside(<<e - 12, e>>))]

(* The four latest, if they span a year and are not stale.                   *)
ttm_eps(quarters, day) ==
    LET last == Max(DOMAIN quarters)
        four == {last, last - 3, last - 6, last - 9}
    IN  IF DOMAIN quarters # {} /\ day - last <= STALE /\ four \subseteq DOMAIN quarters
        THEN MapThenSumSet(LAMBDA e : quarters[e], four) ELSE Missing

-----------------------------------------------------------------------------
SplitBy(m) == 2 ^ Cardinality({s \in company.splits : s <= m})
ValueAt(m) == IF company.dividend # 0 /\ m >= company.dividend THEN Worth \div 2 ELSE Worth
Traded(m) == ValueAt(m) \div SplitBy(m)
DividendOn(m) == IF company.dividend = m THEN Traded(m - 1) \div 2 ELSE 0

(* What the bar store holds at the end, adjusted for all that came later     *)
(* (external): a dividend of half the price halves every earlier close.      *)
Close(m) ==
    IF company.gap = m THEN Missing
    ELSE (Traded(m) * SplitBy(m)) \div (SplitBy(LastMonth) * (IF m < company.dividend THEN 2 ELSE 1))

(* Walking back, the events of a session change every close before it; a     *)
(* session without a close is passed over, its events with it.              *)
Undo[m \in Months] ==
    IF m = LastMonth THEN 1
    ELSE LET later == Undo[m + 1]
             paid == DividendOn(m + 1)
             before == Close(m) * later + paid
             undone == IF paid > 0 /\ Close(m) # Missing THEN (later * before) \div (before - paid) ELSE later
         IN  IF Close(m + 1) = Missing THEN later
             ELSE undone * (IF m + 1 \in company.splits THEN 2 ELSE 1)
raw_close(m) == IF Close(m) = Missing THEN Missing ELSE Close(m) * Undo[m]

(* The latest filing's count, as counted when its quarter ended, carried     *)
(* through the splits since.                                               *)
\* Carried through every split since it was filed.
SharesAtMutant(day) ==
    LET points == {k \in Filings : Filed(k) <= day}
        best == CHOOSE k \in points : \A j \in points : Filed(k) > Filed(j) \/ (Filed(k) = Filed(j) /\ k >= j)
    IN  IF points = {} \/ day - Filed(best) > STALE THEN Missing
        ELSE SplitBy(3 * best) * 2 ^ Cardinality({s \in company.splits : Filed(best) < s /\ s <= day})
SharesAt(day) ==
    LET points == {k \in Filings : Filed(k) <= day}
        best == CHOOSE k \in points : \A j \in points : Filed(k) > Filed(j) \/ (Filed(k) = Filed(j) /\ k >= j)
    IN  IF points = {} \/ day - Filed(best) > STALE THEN Missing
        ELSE SplitBy(3 * best) * 2 ^ Cardinality({s \in company.splits : 3 * best < s /\ s <= day})

Cap(day) == IF Missing \in {raw_close(day), SharesAt(day)} THEN Missing ELSE raw_close(day) * SharesAt(day)

(* company_rows, one month-end at a time.                                   *)
Figures(ps, day, then) ==
    [revenue |-> latest_ttm(ps, day), eps |-> ttm_eps(quarterly_eps(ps), day), cap |-> Cap(day), then |-> then]
Then(day) == IF day - 12 * GROWTH_YEARS \in DOMAIN past THEN past[day - 12 * GROWTH_YEARS] ELSE Missing

company_rows ==
    /\ month <= LastMonth
    /\ LET row == Figures(advance(month), month, Then(month))
       IN  /\ periods' = advance(month)
           /\ past' = [d \in DOMAIN past \cup {month} |-> IF d = month THEN <<row.revenue, row.eps>> ELSE past[d]]
           /\ figures' = row
    /\ month' = month + 1
    /\ UNCHANGED company

FiledInit ==
    /\ company \in Companies
    /\ month = 1
    /\ periods = <<>>
    /\ past = <<>>
    /\ figures = [revenue |-> Missing, eps |-> Missing, cap |-> Missing, then |-> Missing]

FiledSpec == FiledInit /\ [][company_rows]_filedVars

-----------------------------------------------------------------------------
(* What anyone could have read on a day: for each period, the figure of the  *)
(* latest filing by then that tells it.                                     *)
Readable(day) ==
    LET by == {k \in Filings : Filed(k) <= day}
        tells(p) == {k \in by : p \in ReportsOf(k) \cup YearEarlier(ReportsOf(k))}
    IN  [p \in UNION {ReportsOf(k) \cup YearEarlier(ReportsOf(k)) : k \in by} |->
            AsToldBy(CHOOSE k \in tells(p) : \A j \in tells(p) : Filed(k) >= Filed(j), p)]

(* A row holds what could be read on its day and nothing filed since, though  *)
(* it is made of facts, splits and closes as they stand today; its growth is  *)
(* from what was known then, not from what was restated since (company_rows).*)
Made == month - 1
NoHindsight ==
    LET year_ago == Made - 12 * GROWTH_YEARS IN
    Made > 0 =>
        /\ figures.revenue = latest_ttm(Readable(Made), Made)
        /\ figures.eps = ttm_eps(quarterly_eps(Readable(Made)), Made)
        /\ year_ago > 0 => figures.then[1] = latest_ttm(Readable(year_ago), year_ago)

(* Without restatements a trailing year is the sum of its four quarters,     *)
(* however it was put together, at the newest end filed once all before it   *)
(* are (ttm, ttm_eps).                                                      *)
FourQuarters(end) == Earned(<<end - 12, end>>)
TrailingYearIsFourQuarters ==
    LET r == figures.revenue
        filed == {k \in Filings : Filed(k) <= Made}
        newest == Max(filed)
    IN  company.restated = 0 =>
            /\ r # Missing => /\ r.now = FourQuarters(r.end)
                              /\ r.before # Missing => r.before = FourQuarters(r.end - 12)
            /\ figures.eps # Missing => \E k \in 4..Quarters : figures.eps = FourQuarters(3 * k)
            /\ Cardinality(filed) >= 4 /\ filed = 1..newest /\ Made - 3 * newest <= STALE =>
                   r # Missing /\ r.end = 3 * newest

(* A market value is that of its day, through every split and dividend since  *)
(* and between a count and its filing (raw_close, Shares.at); unless the bars *)
(* lack the close of a session with an event, or of the one before.           *)
EventsLost ==
    \E e \in (company.splits \cup {company.dividend}) \ {0} :
        company.gap = e \/ (company.gap = e - 1 /\ e = company.dividend)
MarketValueIsTheDays == EventsLost \/ figures.cap = Missing \/ figures.cap = ValueAt(Made)

(* The rows of a study tell nothing their day did not know.                  *)
RowsAreOfTheirDay == NoHindsight /\ TrailingYearIsFourQuarters /\ MarketValueIsTheDays
==============================================================================
