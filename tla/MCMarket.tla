------------------------------- MODULE MCMarket -------------------------------
(* What fetches the market's data keeps nothing in common: the HTTP client's  *)
(* pauses, the store of daily bars, the cache of fetched answers, and what    *)
(* the price model learns from: filings, weekly rows and yearly ratios.       *)
EXTENDS HttpClient, BarStore, FetchCache, AsFiled, TrainingSet, RatioCache

(* A company that reports on the third day, and two that do not.             *)
MCReports == [n \in {"n1", "n2", "n3"} |-> IF n = "n1" THEN {3} ELSE {}]
MCProcessOf == [r \in {"prices", "technicals", "panel"} |-> IF r = "panel" THEN "model" ELSE "discover"]

MCSilent == {<<"s1", 4>>, <<"s2", 8>>, <<"s1", 8>>}
MCUniverses == {{"a", "b"}, {"b", "c"}, {"a", "b", "c"}}
MCUncovered == {<<"a", 1>>, <<"c", 2>>}

VARIABLES which

StepHttp(t) == which = "http" /\ Step(t) /\ UNCHANGED <<which, barVars, fetchVars, filedVars, trainVars, ratioVars>>
TickHttp == which = "http" /\ Tick /\ UNCHANGED <<which, barVars, fetchVars, filedVars, trainVars, ratioVars>>
BarStep == which = "bars" /\ BarNext /\ UNCHANGED <<which, vars, fetchVars, filedVars, trainVars, ratioVars>>
FetchStep == which = "fetch" /\ FetchNext /\ UNCHANGED <<which, vars, barVars, filedVars, trainVars, ratioVars>>
RowStep == which = "filed" /\ company_rows /\ UNCHANGED <<which, vars, barVars, fetchVars, trainVars, ratioVars>>
BlockStep == which = "train" /\ walk_forward /\ UNCHANGED <<which, vars, barVars, fetchVars, filedVars, ratioVars>>
RatioStep == which = "ratios" /\ RatioNext /\ UNCHANGED <<which, vars, barVars, fetchVars, filedVars, trainVars>>
MarketNext == TickHttp \/ BarStep \/ FetchStep \/ RowStep \/ BlockStep \/ RatioStep \/ \E t \in Threads : StepHttp(t)

(* What does not run stands still in one of its states.                      *)
Ordinary == [late |-> 0, skipped |-> 0, restated |-> 0, splits |-> {}, dividend |-> 0, gap |-> 0]
FullMarket == [spy |-> 1..LastSession, closes |-> [t \in Stocks |-> 1..LastSession]]

marketVars == <<which, vars, barVars, fetchVars, filedVars, trainVars, ratioVars>>
MarketInit ==
    /\ which \in {"http", "bars", "fetch", "filed", "train", "ratios"}
    /\ company \in IF which = "filed" THEN Companies ELSE {Ordinary}
    /\ market \in IF which = "train" THEN Markets ELSE {FullMarket}
    /\ Init /\ BarInit /\ FetchInit /\ FiledInit /\ TrainInit /\ RatioInit
MarketSpec ==
    /\ MarketInit
    /\ [][MarketNext]_marketVars
    /\ \A t \in Threads : WF_marketVars(StepHttp(t))
    /\ WF_marketVars(TickHttp)

(* Every request of the client ends, in an answer or an error, whatever the   *)
(* server says (HttpClient.request's attempts).                              *)
RequestsAllEnd == which = "http" => RequestsEnd

(* What the price model and the factor studies learn from tells nothing its   *)
(* day did not know: not the rows of filings (company_rows), not the blocks   *)
(* of the walk-forward test (walk_forward), and no ratio becomes a median     *)
(* because a request was lost (fetch_history).                               *)
NothingIsKnownEarly ==
    /\ which = "filed" => RowsAreOfTheirDay
    /\ which = "train" => ModelIsTestedFairly
    /\ which = "ratios" => RatiosAreWhole
==============================================================================
