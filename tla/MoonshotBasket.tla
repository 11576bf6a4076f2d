---------------------------- MODULE MoonshotBasket ----------------------------
(***************************************************************************)
(* The moonshot basket: a screen proposes companies for the open slots, the     *)
(* investor buys or sells as he likes and says so, and a check reads each      *)
(* member's filings against the rules for selling.  What a filing tells of     *)
(* shares is carried through splits, some of which fall between the day of a   *)
(* count and the day it is filed.                                           *)
(***************************************************************************)
EXTENDS Integers, FiniteSets, FiniteSetsExt, Folds

CONSTANTS
    Companies, IndustryOf, Biotechs, CapOf,   \* an industry may be "", a capitalisation is unique
    Slots, MaxPerIndustry, MaxBiotech,        \* of them biotech
    Reports,                                  \* what a company's filings may say: see Report
    Counts, Filed,                            \* days a count of shares is of; how much later it is filed
    TODAY, YEAR, STALE_DAYS, MaxNews, Unknown

Split == [day : Int, ratio : Int]
Report ==
    [revenue : Int, revenue1 : Int, revenue2 : Int, margin : Int, gross : Int, gross1 : Int, flow : Int, cash : Int,
     last : Int, before : Int, splits : SUBSET Split, doubt : BOOLEAN, facts : BOOLEAN, shares : Int, shares1 : Int, shares2 : Int]

ASSUME BasketAssumption ==
    /\ IsFiniteSet(Companies) /\ CapOf \in [Companies -> Nat]
    /\ {Slots, MaxPerIndustry, MaxBiotech, TODAY, YEAR, STALE_DAYS, Filed} \subseteq Nat /\ YEAR > 0
    /\ Counts \subseteq 0..TODAY
ASSUME ReportAssumption ==
    Unknown \in Int /\ \A r \in Reports : r \in Report /\ IsFiniteSet(r.splits)

(* A count that is not stale is not the last of its half-year: companies file   *)
(* one a quarter.                                                          *)
ASSUME CountsAreTimely ==
    \A k \in 0..2 : LET day == TODAY - k * YEAR IN
        \A c \in Counts : c + Filed <= day /\ day - (c + Filed) <= STALE_DAYS =>
            \E d \in Counts : d + Filed <= day /\ d >= day - YEAR \div 2

(* Revenue now, a year and two years ago; operating and gross margins in       *)
(* percent, gross also a year ago; free cash flow and cash; shares issued in   *)
(* percent a year, in the last and the one before; splits; a doubt that the    *)
(* company goes on, and whether the SEC has facts of it at all.              *)
VARIABLES
    filing,        \* what the SEC has of each company
    members,       \* table moonshot_basket: the rows not removed
    proposed,      \* the screen's list
    bought,        \* the members bought off a list that have filed nothing since
    news, askew    \* filings so far; whether a screen missed a member's filings or the investor chose himself

basketVars == <<filing, members, proposed, bought, news, askew>>

-----------------------------------------------------------------------------
(* Shares as filed by a day, through every split since the count's own day.    *)
Outstanding(r, day) ==
    IF day >= TODAY - YEAR \div 2 THEN (100 + r.before) * (100 + r.last)
    ELSE IF day >= TODAY - YEAR - YEAR \div 2 THEN (100 + r.before) * 100 ELSE 10000
Times(a, b) == a * b
RatioOf(s) == s.ratio
AnyOf(S) == CHOOSE s \in S : TRUE
SplitsIn(r, from, to) == MapThenFoldSet(Times, 1, RatioOf, AnyOf, {x \in r.splits : from < x.day /\ x.day <= to})
AsCounted(r, day) == Outstanding(r, day) * SplitsIn(r, -1, day)

SharesAt(r, day) ==
    LET known == {c \in Counts : c + Filed <= day}
        count == Max(known)
    IN  IF known = {} \/ day - (count + Filed) > STALE_DAYS THEN Unknown
        ELSE AsCounted(r, count) * SplitsIn(r, count, day)
\* The old count is left in the shares of its own day.
_in_todays_sharesMutant(r, day) == SharesAt(r, day)
_in_todays_shares(r, day) ==
    IF SharesAt(r, day) = Unknown THEN Unknown ELSE SharesAt(r, day) * SplitsIn(r, day, TODAY)

snapshot(r) ==
    [r EXCEPT !.shares = SharesAt(r, TODAY), !.shares1 = _in_todays_shares(r, TODAY - YEAR), !.shares2 = _in_todays_shares(r, TODAY - 2 * YEAR)]

Told(x) == x # Unknown
GrowsMore(now, before, pct) == Told(now) /\ Told(before) /\ before > 0 /\ 100 * (now - before) > pct * before
GrowsAtMost(now, before, pct) == Told(now) /\ Told(before) /\ before > 0 /\ 100 * (now - before) <= pct * before
HasCashFor(s, years) == Told(s.flow) /\ Told(s.cash) /\ (s.flow >= 0 \/ s.cash >= years * (-s.flow))
RunsOutIn(s, years) == Told(s.flow) /\ Told(s.cash) /\ s.flow < 0 /\ s.cash < years * (-s.flow)

(* A rule whose figure is not told fails.                                    *)
entry_reasons(s) ==
    LET rules == [growth |-> Told(s.revenue1) /\ s.revenue1 > 0 /\ 100 * (s.revenue - s.revenue1) >= 25 * s.revenue1,
                  margin |-> Told(s.margin) /\ s.margin \in -20..5,
                  gross |-> (Told(s.gross) /\ s.gross >= 40) \/ (Told(s.gross) /\ Told(s.gross1) /\ s.gross - s.gross1 > 1),
                  dilution |-> GrowsAtMost(s.shares, s.shares1, 10),
                  runway |-> HasCashFor(s, 2)]
    IN  IF ~Told(s.revenue) \/ s.revenue <= 0 THEN {"no revenue"} ELSE {k \in DOMAIN rules : ~rules[k]}

(* The filed reasons to sell; a figure that is not told is none.              *)
thesis_breaks(r) ==
    LET s == snapshot(r)
        broken == [cash |-> RunsOutIn(s, 1),
                   shares |-> GrowsMore(s.shares, s.shares1, 15) /\ GrowsMore(s.shares1, s.shares2, 15),
                   revenue |-> Told(s.revenue) /\ Told(s.revenue1) /\ Told(s.revenue2) /\ s.revenue < s.revenue1 /\ s.revenue1 < s.revenue2]
    IN  (IF r.doubt THEN {"going concern"} ELSE {}) \cup (IF r.facts THEN {k \in DOMAIN broken : broken[k]} ELSE {})
member_breaks == [m \in members |-> thesis_breaks(filing[m])]

-----------------------------------------------------------------------------
(* The smallest first, while the members and those already taken leave room.   *)
Crowded(c, taken) ==
    \/ IndustryOf[c] # "" /\ Cardinality({m \in taken : IndustryOf[m] = IndustryOf[c]}) >= MaxPerIndustry
    \/ c \in Biotechs /\ Cardinality(taken \cap Biotechs) >= MaxBiotech
\* The members do not count.
fill_slotsMutant(candidates, open, held) ==
    LET choice[S \in SUBSET candidates] ==
            IF S = {} THEN {}
            ELSE LET c == CHOOSE x \in S : \A y \in S : CapOf[y] <= CapOf[x]
                     before == choice[S \ {c}]
                 IN  IF Cardinality(before) >= open \/ Crowded(c, before) THEN before ELSE before \cup {c}
    IN  choice[candidates]
fill_slots(candidates, open, held) ==
    LET choice[S \in SUBSET candidates] ==
            IF S = {} THEN {}
            ELSE LET c == CHOOSE x \in S : \A y \in S : CapOf[y] <= CapOf[x]
                     before == choice[S \ {c}]
                 IN  IF Cardinality(before) >= open \/ Crowded(c, before \cup held) THEN before ELSE before \cup {c}
    IN  choice[candidates]

(* A member without facts is not counted where the spread is looked at.       *)
screen ==
    /\ LET passed == {c \in Companies \ members : filing[c].facts /\ entry_reasons(snapshot(filing[c])) = {}}
           seen == {m \in members : filing[m].facts}
           open == IF Cardinality(members) < Slots THEN Slots - Cardinality(members) ELSE 0
       IN  /\ proposed' = fill_slots(passed, open, seen)
           /\ askew' = (askew \/ seen # members)
    /\ UNCHANGED <<filing, members, bought, news>>

(* A new member needs a slot.                                              *)
add_member(c) ==
    /\ c \in members \/ Cardinality(members) < Slots
    /\ members' = members \cup {c} /\ proposed' = proposed \ {c}
    /\ bought' = IF c \in proposed THEN bought \cup {c} ELSE bought
    /\ askew' = (askew \/ (c \notin proposed /\ c \notin members))
    /\ UNCHANGED <<filing, news>>
\* What the check says is a reason to sell; the investor may have others.
remove_member(c) ==
    /\ c \in members /\ members' = members \ {c} /\ bought' = bought \ {c}
    /\ UNCHANGED <<filing, proposed, news, askew>>

(* A company files; an older list is not bought from.                         *)
News(c) ==
    /\ news < MaxNews /\ news' = news + 1
    /\ \E r \in Reports : filing' = [filing EXCEPT ![c] = r]
    /\ proposed' = {} /\ bought' = bought \ {c}
    /\ UNCHANGED <<members, askew>>

BasketInit ==
    /\ members = {} /\ proposed = {} /\ bought = {} /\ news = 0 /\ askew = FALSE
    /\ \E r \in Reports : filing = [c \in Companies |-> r]
BasketNext == screen \/ \E c \in Companies : add_member(c) \/ remove_member(c) \/ News(c)
BasketSpec == BasketInit /\ [][BasketNext]_basketVars

-----------------------------------------------------------------------------
(* An investor who buys what is proposed keeps the spread through every sale   *)
(* and new list, as long as the members' filings can be read.                *)
SpreadIsKept ==
    /\ Cardinality(members) <= Slots
    /\ ~askew =>
          /\ \A i \in {IndustryOf[c] : c \in Companies} \ {""} : Cardinality({m \in members : IndustryOf[m] = i}) <= MaxPerIndustry
          /\ Cardinality(members \cap Biotechs) <= MaxBiotech

(* The check does not tell to sell what was bought off the list, or is on it,  *)
(* before the company files anew, but for a doubt its text raises, which no    *)
(* screen reads (discover/moonshot.py, entry_reasons and thesis_breaks).      *)
NoBuyIsABreak ==
    /\ \A c \in proposed : thesis_breaks(filing[c]) \subseteq {"going concern"}
    /\ \A m \in bought : member_breaks[m] \subseteq {"going concern"}

(* A split is no issue of shares, whenever it fell, and an issue is one: the    *)
(* growth between the snapshot's counts is what the company issued.          *)
SplitsAreNoIssue ==
    \A c \in Companies :
        LET s == snapshot(filing[c])
        IN  /\ Told(s.shares) /\ Told(s.shares1) => 100 * (s.shares - s.shares1) = filing[c].last * s.shares1
            /\ Told(s.shares1) /\ Told(s.shares2) => 100 * (s.shares1 - s.shares2) = filing[c].before * s.shares2

BasketIsSound == SpreadIsKept /\ NoBuyIsABreak /\ SplitsAreNoIssue
=============================================================================
