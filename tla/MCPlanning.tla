------------------------------ MODULE MCPlanning ------------------------------
(* The rebalance pipeline, inside one step of it the checks of the plan, and in *)
(* its last the report; and what discover does with the models' answers.  What *)
(* they keep is local, so a behaviour is one's.                              *)
EXTENDS MCRebalance, PlanChecks, ReportEditions, PickFunnel, OptionDesk

(* How RebalancePipeline.steps() is ordered: what PipelineProofs assumes.    *)
ASSUME RebalanceWiring == RebalanceIsWired

(* Plans of up to three moves on three tickers of two accounts.              *)
A(do, t, size, n, acct) == [do |-> do, ticker |-> t, size |-> size, n |-> n, account |-> acct, strike |-> "good"]
Writing(t, acct, n, strike) == [ticker |-> t, account |-> acct, n |-> n, strike |-> strike]

MCTickers == {"a", "b", "f"}
MCAccounts == {"x", "y"}
MCUnits == [t \in MCTickers |-> [acct \in MCAccounts |->
    CASE t = "a" -> 200 [] t = "b" /\ acct = "x" -> 50 [] OTHER -> 0]]
MCPrice == [t \in MCTickers |-> 10]
MCOpenCalls == [t \in MCTickers |-> [acct \in MCAccounts |-> IF t = "a" /\ acct = "x" THEN 1 ELSE 0]]
MCOpenPuts == [t \in MCTickers |-> [acct \in MCAccounts |-> IF t = "f" /\ acct = "x" THEN 500 ELSE 0]]
MCCash == [acct \in MCAccounts |-> IF acct = "x" THEN 2500 ELSE 1500]
MCStrike == [t \in MCTickers |-> 5]

Moves == {
    A("SELL", "a", "shares", 350, Nowhere), A("TRIM", "a", "shares", 100, "x"), A("SELL", "a", "unread", 0, Nowhere),
    A("SELL", "a", "whole", 0, "y"),
    A("BUY", "b", "dollars", 2500, "x"), A("BUY", "b", "dollars", 4000, Nowhere), A("ADD", "b", "shares", 100, "y"),
    A("ADD", "b", "unread", 0, Nowhere), A("BUY", "f", "dollars", 4000, "x"), A("BUY", "b", "dollars", 50, "y"),
    A("SELL_PUT", "b", "contracts", 3, "x"), A("SELL_PUT", "b", "unread", 0, Nowhere), A("SELL_PUT", "f", "contracts", 1, "y"),
    A("WRITE_CALL", "a", "contracts", 2, "x"), A("WRITE_CALL", "a", "unread", 0, Nowhere)}
Trades == {m \in Moves : m.do \in Sales}
Writes == {<<>>, <<Writing("a", "x", 1, "good"), Writing("a", "x", 1, "good")>>, <<Writing("a", "y", 3, "good")>>, <<Writing("a", "x", 1, "outside")>>}
Puts == {<<>>, <<Writing("b", "y", 4, "good")>>, <<Writing("b", "x", 1, "invented")>>, <<Writing("b", "x", 2, "good"), Writing("f", "x", 2, "good")>>}
MCProposals ==
    {[actions |-> s, calls |-> c, puts |-> <<>>] : s \in {<<m, l, k>> : m \in Trades, l, k \in Moves}, c \in {<<>>}}
    \cup {[actions |-> <<m, l>>, calls |-> c, puts |-> q] : m, l \in Moves, c \in Writes, q \in Puts}

(* An ordinary run, and what may be different of one.                        *)
Ordinary ==
    [ranker |-> "object", redteam |-> "object", sizer |-> "object", picks |-> <<"a", "b">>,
     agreement |-> TRUE, criticised |-> {"a", "b"}, sized |-> {"a"}, catalysts |-> {"a"}, targets |-> {"a", "h"},
     capped |-> FALSE, dataWarnings |-> FALSE, capNotes |-> FALSE, usage |-> TRUE, themes |-> TRUE,
     macro |-> TRUE, rotation |-> TRUE, held |-> TRUE, track |-> "mature", pending |-> TRUE, delisted |-> FALSE,
     theses |-> {"INTACT"}, comingUp |-> TRUE, paper |-> "curve", survivors |-> TRUE, rejected |-> TRUE,
     tilt |-> {"a"}, pairs |-> TRUE,
     plan |-> [lost |-> "", status |-> "ACTION", actions |-> {"SELL", "BUY", "WRITE_CALL"}, text |-> TRUE],
     review |-> [form |-> "object", verdict |-> "HOLD", notes |-> {"catalysts", "wash sale"}],
     stale |-> FALSE, stopLoss |-> FALSE, harvest |-> FALSE, news |-> TRUE, priced |-> TRUE, premortem |-> TRUE,
     stubs |-> TRUE, ideas |-> FALSE, dropped |-> {}, planWarnings |-> FALSE, putWarnings |-> FALSE]

PlanOf(lost, how, actions, text) == [lost |-> lost, status |-> how, actions |-> actions, text |-> text]
ReviewOf(form, verdict, notes) == [form |-> form, verdict |-> verdict, notes |-> notes]
Departures ==
    {<<"ranker", "none">>, <<"ranker", "text">>, <<"redteam", "none">>, <<"redteam", "text">>, <<"sizer", "none">>,
     <<"sizer", "text">>, <<"picks", <<"a">>>>, <<"sized", {}>>, <<"tilt", {}>>, <<"criticised", {}>>,
     <<"track", "none">>, <<"track", "text">>, <<"track", "young">>, <<"paper", "none">>, <<"paper", "one day">>,
     <<"theses", {}>>, <<"theses", {"BROKEN", "TARGET HIT"}>>, <<"theses", {"INTACT", "WEAKENING"}>>,
     <<"plan", PlanOf("cut off", "", {}, TRUE)>>, <<"plan", PlanOf("no answer", "", {}, FALSE)>>,
     <<"plan", PlanOf("", "NO_ACTION", {}, TRUE)>>, <<"plan", PlanOf("", "ACTION", {"SELL", "TRIM stub"}, TRUE)>>,
     <<"plan", PlanOf("", "ACTION", {"ADD", "SELL_PUT"}, TRUE)>>, <<"plan", PlanOf("", "ACTION", {}, TRUE)>>,
     <<"review", ReviewOf("text", "", {})>>, <<"review", ReviewOf("text", "SELL", {})>>, <<"review", ReviewOf("object", "TRIM", {"trim size", "tax lots"})>>,
     <<"dropped", {"SELL"}>>, <<"dropped", {"ADD", "WRITE_CALL"}>>}
        \cup {<<f, TRUE>> : f \in {"capped", "dataWarnings", "capNotes", "stale", "stopLoss", "harvest", "ideas", "putWarnings"}}
        \cup {<<f, FALSE>> : f \in {"usage", "premortem", "stubs", "agreement", "rejected"}}

\* Nothing is dropped from a plan that never came, and nobody writes its post-mortem.
Settled(r) ==
    [r EXCEPT !.premortem = @ /\ r.plan.lost = "" /\ r.plan.status = "ACTION",
              !.dropped = IF r.plan.lost = "" THEN @ ELSE {}, !.ideas = @ /\ r.plan.lost = ""]
\* Any departure, and with it one of those that change what a whole report says.
Major == {d \in Departures : d[1] \in {"plan", "ranker"} \/ d = <<"harvest", TRUE>>}
MCRuns == {Settled([Ordinary EXCEPT ![d[1]] = d[2], ![e[1]] = e[2]]) : d \in Departures, e \in Major}
             \cup {Settled([Ordinary EXCEPT ![d[1]] = d[2]]) : d \in Departures}

-----------------------------------------------------------------------------

MCSurvivors == <<"a", "b", "c">>
MCSectorOf == [t \in {"a", "b", "c"} |-> IF t = "c" THEN "energy" ELSE "tech"]
MCPairLists == {<<>>, <<<<"a", "b">>>>, <<<<"a", "c">>, <<"b", "a">>>>}

(* Two lots and a half of s and 130 shares more; 60 and 60 of u; a sweep of 300.*)
Row(e, k, b, k2, d, v, x) == [expiry |-> e, strike |-> k, bid |-> b, ask |-> k2, delta |-> d, iv |-> v, estimate |-> x]
MCBooks == {[n \in Underlyings |-> [a \in Holders |-> IF n = "s" THEN (IF a = "ira" THEN 250 ELSE 130) ELSE IF n = "m" THEN 300 ELSE IF n = "u" THEN 60 ELSE 0]]}
MCSpot == [n \in {"s", "u", "v", "m"} |-> IF n = "m" THEN 1 ELSE 100]
MCPurses == {[a \in Holders |-> IF a = "ira" THEN 20000 ELSE 9000]}
MCCallMenu == {Row(75, 120, 3, 4, 20, 40, 20), Row(97, 125, 4, 5, 15, 20, 15), Row(100, 95, 9, 10, 60, 40, 60)}
MCPutMenu == {Row(35, 90, 2, 3, 20, 40, 20), Row(40, 80, 1, 1, 12, 20, 12), Row(35, 50, 0, 1, 5, 0, 0)}
Leg(k, e) == [strike |-> k, expiry |-> e]
MCLegs == {Leg(105, 60), Leg(110, 40), Leg(105, 20)}
MCRollMenu == {Row(60, 105, 4, 5, 40, 40, 40), Row(40, 110, 2, 3, 30, 40, 30), Row(110, 116, 6, 7, 22, 40, 22), Row(110, 120, 5, 6, 20, 40, 20), Row(90, 117, 3, 4, 20, 40, 20), Row(300, 130, 12, 13, 25, 40, 25)}
MCCallDays == <<60, 120>>
MCPutDays == <<30, 45>>
MCRollDays == <<30, 500>>
MCBand == <<10, 25>>

VARIABLES which

PipelineStep == which = "pipeline" /\ Next /\ UNCHANGED <<which, planVars, repVars, funnelVars, deskVars>>
PlanStep == which = "plan" /\ PlanNext /\ UNCHANGED <<which, vars, repVars, funnelVars, deskVars>>
ReportStep == which = "report" /\ RepNext /\ UNCHANGED <<which, vars, planVars, funnelVars, deskVars>>
FunnelStep == which = "picks" /\ FunnelNext /\ UNCHANGED <<which, vars, planVars, repVars, deskVars>>
DeskStep == which = "desk" /\ DeskNext /\ UNCHANGED <<which, vars, planVars, repVars, funnelVars>>

PlanningInit ==
    /\ Init /\ PlanInit /\ RepInit /\ FunnelInit /\ DeskInit
    /\ which \in {"pipeline", "plan", "report", "picks", "desk"} /\ (which = "desk" \/ (side = "roll" /\ allowed = {}))
PlanningSpec ==
    /\ PlanningInit
    /\ [][PipelineStep \/ PlanStep \/ ReportStep \/ FunnelStep \/ DeskStep]_<<which, vars, planVars, repVars, funnelVars, deskVars>>

(* Between the survivors of the screen and the sized picks no candidate is    *)
(* lost to a cheaper model, a list most rounds gave is picked, the caps hold   *)
(* whatever the sizer asks, and a repaired answer is at rest.  What options   *)
(* are offered leaves nothing naked, and the roll that is named is the soonest*)
(* that pays (rebalance_cc, rebalance_csp, cc_roll).                         *)
OffersHoldUp ==
    /\ which = "picks" => PicksAreSound
    /\ which = "desk" => DeskIsSound
==============================================================================
