------------------------------ MODULE PickFunnel -------------------------------
(***************************************************************************)
(* From the survivors of the screen to sized picks: the analysts under the    *)
(* cost cap, the rounds of the ranker and their vote, the macro veto, and the  *)
(* sizer with the three caps put on its answer; and the repair of a holding's  *)
(* review.  Models answer freely: an answer that breaks its rules is sent back *)
(* once and then kept as it is (ModelAgent._apply_check).                     *)
(*                                                                         *)
(* Shares of new capital are in hundredths of a percent.                     *)
(***************************************************************************)
EXTENDS Integers, Sequences, SequencesExt, FiniteSets, FiniteSetsExt, Functions

CONSTANTS
    Survivors,         \* by score, the best first
    DeepCount, MinNames, TopN, RankerRounds,
    DeepCost, LightCost, Moneys,     \* what a scorecard costs; what may be left of the cap
    Stranger,          \* a name no stage was given
    SectorOf, PairLists, Asked,      \* a pick's sector; pairs a ranker may flag; sizes a sizer may ask for
    MaxPair, MaxStarter, MaxNew, MaxBook     \* the caps on a pair, before earnings, on a sector

VARIABLES
    phase,
    planned, deepTier, bill,    \* plan_under_budget's answer, and what it would cost of what is left
    analyses,
    rounds,            \* each round's picks
    chosen, agreement, \* the picks, and how many rounds named each
    suppressed,        \* picks the macro veto took out
    sizing,            \* the sizer's answer, what is left of it, and what it had to keep to
    repaired           \* a review or a market theme as answered, and as used

funnelVars == <<phase, planned, deepTier, bill, analyses, rounds, chosen, agreement, suppressed, sizing, repaired>>

NotSized == [asked |-> <<>>, given |-> <<>>, pairs |-> <<>>, alerts |-> {}, held |-> <<>>, cash |-> 0, known |-> TRUE]
Names == Range(Survivors)
ASSUME FunnelAssumption ==
    /\ Survivors \in Seq(Names) /\ PairLists \subseteq Seq(Names \X Names) /\ IsFiniteSet(DOMAIN SectorOf)
    /\ {MinNames, DeepCost, LightCost, MaxPair, MaxStarter, MaxNew, MaxBook} \cup Moneys \cup Asked \subseteq Nat
AtMost(k, S) == {s \in SUBSET S : Cardinality(s) <= k}

-----------------------------------------------------------------------------
(* The analysts.  Past the money left the deep tier goes to the light model,   *)
(* then the lowest scores are dropped, down to MinNames.                     *)
CardsCost(names, deep, light) ==
    Cardinality(names \cap deep) * DeepCost + Cardinality(names \ deep) * (IF light THEN LightCost ELSE DeepCost)
DeepOf(n) == Range(SubSeq(Survivors, 1, n))

plan_under_budget(money, light) ==
    LET deep == IF light THEN DeepOf(DeepCount) ELSE {}
        fits == CardsCost(Names, deep, light) <= money
        tier == IF fits \/ ~light THEN deep ELSE {}
        floor == IF Len(Survivors) < MinNames THEN Len(Survivors) ELSE MinNames
        affordable == {k \in floor..Len(Survivors) : CardsCost(DeepOf(k), tier, light) <= money}
        n == IF fits THEN Len(Survivors) ELSE Max(affordable \cup {floor})
    IN  [names |-> DeepOf(n), deep |-> tier, cost |-> CardsCost(DeepOf(n), tier, light)]

(* Names the light model fails on are asked of the deep one; without a light   *)
(* model all are.                                                           *)
\* The light tier is not retried.
analyze_tieredMutant(names, deep, light, failLight, failDeep) ==
    names \ ((deep \cap failDeep) \cup ((names \ deep) \cap failLight))
analyze_tiered(names, deep, light, failLight, failDeep) ==
    LET retried == IF light THEN (names \ deep) \cap failLight ELSE names
    IN  names \ (((deep \cap names) \cup retried) \cap failDeep)

step_analyst ==
    /\ phase = "screened"
    /\ \E money \in Moneys, light \in BOOLEAN, failLight, failDeep \in SUBSET Names :
          LET plan == plan_under_budget(money, light)
              done == analyze_tiered(plan.names, plan.deep, light, failLight, failDeep)
          IN  /\ planned' = plan.names \ failDeep /\ deepTier' = plan.deep
              /\ bill' = [money |-> money, cost |-> plan.cost, light |-> light]
              /\ analyses' = done
    /\ phase' = "analysed"
    /\ UNCHANGED <<rounds, chosen, agreement, suppressed, sizing, repaired>>

-----------------------------------------------------------------------------
(* One round: the picks asked for, or an answer that broke the rules twice.   *)
Answers ==
    LET want == IF Cardinality(analyses) < TopN THEN Cardinality(analyses) ELSE TopN
    IN  {s \in SUBSET analyses : Cardinality(s) = want} \cup (AtMost(TopN, Names \cup {Stranger}) \ {{}})

(* The first round is always run, later ones while they are affordable.       *)
RunRound ==
    /\ phase = "analysed" /\ analyses # {} /\ Len(rounds) < RankerRounds
    /\ \E answer \in Answers : rounds' = Append(rounds, answer)
    /\ planned' = {} /\ deepTier' = {} /\ bill' = NotSized
    /\ UNCHANGED <<phase, analyses, chosen, agreement, suppressed, sizing, repaired>>

Votes(t) == Cardinality({i \in DOMAIN rounds : t \in rounds[i]})
\* More than half, so that two rounds must agree wholly.
MajorityMutant == {t \in UNION Range(rounds) : 2 * Votes(t) > Len(rounds) + 1}
Majority == {t \in UNION Range(rounds) : 2 * Votes(t) >= Len(rounds)}
Overlap(i) == Cardinality(rounds[i] \cap Majority)

(* The round that holds most of what half of the rounds named, the first of   *)
(* equals; each pick is told how many named it, unless there was one round or  *)
(* no two agreed.                                                           *)
_merge_by_majority == Min({i \in DOMAIN rounds : \A j \in DOMAIN rounds : Overlap(j) <= Overlap(i)})
step_ranker ==
    /\ phase = "analysed"
    /\ analyses = {} \/ rounds # <<>>
    /\ IF analyses = {} THEN chosen' = {} ELSE chosen' = rounds[_merge_by_majority]
    /\ agreement' = IF Len(rounds) < 2 \/ Majority = {} THEN <<>> ELSE [t \in chosen' |-> Votes(t)]
    /\ phase' = "ranked" /\ planned' = {} /\ deepTier' = {} /\ bill' = NotSized
    /\ UNCHANGED <<analyses, rounds, suppressed, sizing, repaired>>

(* In a risk-off market the picks that ran far ahead are taken out; the text  *)
(* the red team and the sizer read still names them.                         *)
apply_macro_veto(hot) == chosen \cap hot
step_macro_veto ==
    /\ phase = "ranked"
    /\ \E hot \in SUBSET chosen : suppressed' = apply_macro_veto(hot) /\ chosen' = chosen \ suppressed'
    /\ rounds' = <<>> /\ analyses' = {} /\ agreement' = <<>>
    /\ phase' = "vetoed"
    /\ UNCHANGED <<planned, deepTier, bill, sizing, repaired>>

-----------------------------------------------------------------------------
(* The caps on the sizer's answer, each of which only takes away.             *)
CapPair(s, pair) ==
    LET both == Range(pair) \subseteq DOMAIN s
        sum == s[pair[1]] + s[pair[2]]
    IN  IF both /\ sum > MaxPair
        THEN [t \in DOMAIN s |-> IF t \in Range(pair) THEN (s[t] * MaxPair) \div sum ELSE s[t]] ELSE s
enforce_correlation_caps(s, pairs) == FoldLeft(CapPair, s, pairs)

\* What is trimmed goes to the other picks instead of cash.
enforce_earnings_blackoutMutant(s, alerts) ==
    LET over == {t \in DOMAIN s \cap alerts : s[t] > MaxStarter}
        spare == MapThenSumSet(LAMBDA t : s[t] - MaxStarter, over)
    IN  [t \in DOMAIN s |-> IF t \in over THEN MaxStarter ELSE s[t] + spare]
enforce_earnings_blackout(s, alerts) ==
    [t \in DOMAIN s |-> IF t \in alerts /\ s[t] > MaxStarter THEN MaxStarter ELSE s[t]]

BookOf(held) == SumFunction(held)
ShareOf(s, sector) == SumFunctionOnSet(s, {t \in chosen \cap DOMAIN s \cap DOMAIN SectorOf : SectorOf[t] = sector})
LimitOf(held, cash, sector) ==
    LET book == BookOf(held)
        room == (MaxBook * (book + cash)) \div 10000 - held[sector]
        percent == ((IF room > 0 THEN room ELSE 0) * 10000) \div cash
    IN  IF cash > 0 /\ book > 0 /\ percent < MaxNew THEN percent ELSE MaxNew
enforce_sector_caps(s, held, cash) ==
    LET Over(sector) == ShareOf(s, sector) > LimitOf(held, cash, sector) + 5
    IN  [t \in DOMAIN s |-> IF t \in chosen \cap DOMAIN SectorOf /\ Over(SectorOf[t])
                            THEN (s[t] * LimitOf(held, cash, SectorOf[t])) \div ShareOf(s, SectorOf[t]) ELSE s[t]]

(* A sizer that fails leaves the picks unsized.  A size in dollars is known    *)
(* as a share only with a cash budget; unknown ones are left as they are.     *)
step_sizer ==
    /\ phase = "vetoed"
    /\ \/ sizing' = NotSized
       \/ \E named \in AtMost(3, chosen \cup suppressed \cup {Stranger}) \ {{}}, pairs \in PairLists, alerts \in AtMost(1, chosen) :
          \E answer \in [named -> Asked], tech \in {0, 60}, cash \in {0, 100}, dollars \in BOOLEAN :
            LET held == [sector \in Range(SectorOf) |-> IF sector = "tech" THEN tech ELSE 100]
                known == ~dollars \/ cash > 0
                given == IF ~known THEN answer
                         ELSE enforce_sector_caps(enforce_earnings_blackout(
                                  enforce_correlation_caps(answer, pairs), alerts), held, cash)
            IN  sizing' = [asked |-> answer, given |-> given, pairs |-> pairs, alerts |-> alerts,
                           held |-> held, cash |-> cash, known |-> known]
    /\ phase' = "sized"
    /\ UNCHANGED <<planned, deepTier, bill, analyses, rounds, chosen, agreement, suppressed, repaired>>

-----------------------------------------------------------------------------
(* A holding's review: TRIM and SELL need a confidence of 7, and the verdict   *)
(* the reasoning names stands against the field's.  (A third rule, on         *)
(* what_would_change_mind, only reads what the first has settled.)           *)
Verdicts == {"HOLD", "TRIM", "SELL"}
ReviewAnswers == [verdict : Verdicts, confidence : {4, 8}, prose : Verdicts \cup {"none"}]

\* The confidence is left below the verdict's.
RepairedMutant(r) ==
    LET calibrated == IF r.verdict # "HOLD" /\ r.confidence < 7 THEN "HOLD" ELSE r.verdict
    IN  [r EXCEPT !.verdict = IF r.prose \in Verdicts THEN r.prose ELSE calibrated]
Repaired(r) ==
    LET calibrated == IF r.verdict # "HOLD" /\ r.confidence < 7 THEN "HOLD" ELSE r.verdict
        said == r.prose \in Verdicts /\ r.prose # calibrated
        confidence == IF said /\ r.prose # "HOLD" /\ r.confidence < 7 THEN 7 ELSE r.confidence
    IN  [r EXCEPT !.verdict = IF said THEN r.prose ELSE calibrated, !.confidence = confidence]

(* A theme: members no one knows are dropped, and with fewer than three known   *)
(* the theme.  Its strength is drawn to the members' six months against the    *)
(* market, in percent, when they are more than three apart; so is its trend.   *)
ThemeAnswers == [claimed : 1..10, trend : {"up", "flat", "down"}, known : 2..3, lead : {-20, -8, 0, 12, 25}]
Clamp(n, low, high) == Min({Max({n, low}), high})
data_strength(theme) == Clamp(5 + theme.lead \div 4, 1, 10)
Apart(a, b) == Max({a - b, b - a})
_reconciled_strength(theme) ==
    IF Apart(theme.claimed, data_strength(theme)) <= 3 THEN theme.claimed
    ELSE (6 * data_strength(theme) + 4 * theme.claimed + 5) \div 10
_reconciled_trend(theme) ==
    CASE theme.lead < -5 /\ theme.trend = "up" -> "down"
      [] theme.lead > 10 /\ theme.trend = "down" -> "up"
      [] OTHER -> theme.trend
_correct_theme(theme) ==
    IF theme.known < 3 THEN [kept |-> FALSE, strength |-> 0, trend |-> "flat"]
    ELSE [kept |-> TRUE, strength |-> _reconciled_strength(theme), trend |-> _reconciled_trend(theme)]

(* What membership adds to a candidate's score, in halves of a point.         *)
theme_score_bonus(used) ==
    IF ~used.kept THEN 0
    ELSE Clamp(used.strength + (CASE used.trend = "up" -> 2 [] used.trend = "flat" -> 0 [] OTHER -> -1), 0, 12)

Reviews == \E answer \in ReviewAnswers : repaired' = [answer |-> answer, used |-> Repaired(answer)]
Themes == \E answer \in ThemeAnswers : repaired' = [answer |-> answer, used |-> _correct_theme(answer)]
step_review ==
    /\ phase = "screened" /\ phase' = "reviewed" /\ Reviews
    /\ UNCHANGED <<planned, deepTier, bill, analyses, rounds, chosen, agreement, suppressed, sizing>>
step_market_themes ==
    /\ phase = "screened" /\ phase' = "themed" /\ Themes
    /\ UNCHANGED <<planned, deepTier, bill, analyses, rounds, chosen, agreement, suppressed, sizing>>

FunnelInit ==
    /\ phase = "screened"
    /\ planned = {} /\ deepTier = {} /\ bill = NotSized /\ analyses = {}
    /\ rounds = <<>> /\ chosen = {} /\ agreement = <<>> /\ suppressed = {}
    /\ sizing = NotSized /\ repaired = <<>>
FunnelNext == step_review \/ step_market_themes \/ step_analyst \/ RunRound \/ step_ranker \/ step_macro_veto \/ step_sizer
FunnelSpec == FunnelInit /\ [][FunnelNext]_funnelVars

-----------------------------------------------------------------------------
(* The cheaper tier saves money and never a candidate: whatever the light     *)
(* model failed on, every planned name the deep one could answer is analysed; *)
(* and the bill passes the money left only at the floor of names, none of     *)
(* them on the dearer of two models (analyze_tiered, plan_under_budget).      *)
CheaperNeverDrops ==
    phase = "analysed" /\ rounds = <<>> =>
        /\ planned \subseteq analyses
        /\ bill.cost > bill.money => deepTier = {} /\ bill.cost <= MinNames * (IF bill.light THEN LightCost ELSE DeepCost)

(* A list that most rounds gave is what the run picks, though a later round    *)
(* was skipped for its cost; and what a pick is told of its agreement counts   *)
(* the rounds that ran (_merge_by_majority).                                 *)
MajorityListWins ==
    phase = "ranked" =>
        /\ \A i \in DOMAIN rounds : 2 * Cardinality({j \in DOMAIN rounds : rounds[j] = rounds[i]}) > Len(rounds) => rounds[i] \subseteq chosen
        /\ \A t \in DOMAIN agreement : t \in chosen /\ agreement[t] \in 1..Len(rounds)
        /\ Len(rounds) > 1 /\ (\E t \in Majority : 2 * Votes(t) > Len(rounds)) =>
               \E t \in chosen : 2 * agreement[t] >= Len(rounds)

(* Whatever the sizer asks for, the last of the three caps leaves the first    *)
(* two kept: no flagged pair above its cap, no starter position before        *)
(* earnings too large, no sector above half of the new money, nor bought when  *)
(* the book, unless it is empty, holds its share of it; and no size grew       *)
(* (step_sizer).                                                            *)
SizesKeepTheirCaps ==
    phase = "sized" /\ sizing.known =>
        LET s == sizing.given IN
        /\ \A pair \in Range(sizing.pairs) : Range(pair) \subseteq DOMAIN s => s[pair[1]] + s[pair[2]] <= MaxPair
        /\ \A t \in sizing.alerts \cap DOMAIN s : s[t] <= MaxStarter
        /\ \A sector \in DOMAIN sizing.held :
              LET share == ShareOf(s, sector)
                  bought == share * sizing.cash
              IN  /\ share <= MaxNew + 5
                  /\ sizing.cash = 0 \/ BookOf(sizing.held) = 0 \/ bought <= 5 * sizing.cash
                       \/ sizing.held[sector] * 10000 + bought <= MaxBook * (BookOf(sizing.held) + sizing.cash) + 5 * sizing.cash
        /\ \A t \in DOMAIN s : s[t] <= sizing.asked[t]

(* A repaired review is at rest: it asks for nothing below its confidence, it  *)
(* is what its reasoning says, and repairing it again changes nothing.  A      *)
(* corrected theme is nowhere further from its members' record than the model  *)
(* put it, rises with no members that fell, and cannot outweigh the score      *)
(* (_repair_verdict_inconsistencies, _correct_theme, theme_score_bonus).      *)
RepairsStand ==
    /\ phase = "reviewed" =>
           LET used == repaired.used IN
           /\ used.verdict # "HOLD" => used.confidence >= 7
           /\ used.prose # "none" => used.verdict = used.prose
           /\ Repaired(used) = used
    /\ phase = "themed" =>
           LET used == repaired.used
               answer == repaired.answer IN
           /\ used.kept => /\ Apart(used.strength, data_strength(answer)) <= Apart(answer.claimed, data_strength(answer))
                           /\ Apart(used.strength, data_strength(answer)) <= 4
                           /\ ~(used.trend = "up" /\ answer.lead < -5) /\ ~(used.trend = "down" /\ answer.lead > 10)
           /\ theme_score_bonus(used) \in 0..12

PicksAreSound == RepairsStand /\ CheaperNeverDrops /\ MajorityListWins /\ SizesKeepTheirCaps
==============================================================================
