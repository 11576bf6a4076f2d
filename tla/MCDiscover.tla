------------------------------ MODULE MCDiscover ------------------------------
(* The discover pipeline on the runner (cli/discover.py), the morning's       *)
(* ratings whose leaders it screens, what became of its picks, and who looks  *)
(* back at them.  Each has tables of its own, so a behaviour is one of the    *)
(* four's.                                                                  *)
EXTENDS Pipeline, StepContracts, LeaderBoard, Gradebook, PickReviews

(* The blocks of DiscoverPipeline.steps() are wired so that no step reads  *)
(* what another of its block writes: what PipelineProofs assumes.          *)
ASSUME DiscoverBlocksShareNoKey == BlocksShareNoKey

(* The order of steps(): only the screen must find what fetches of a block     *)
(* write.                                                                   *)
ScreenFetches == {<<"screen", "technicals">>, <<"screen", "fundamentals">>}
ASSUME DiscoverNeedsAreWritten == NeedsAreWritten(ScreenFetches)

(* From 1 September 2026, a Tuesday, with the exchange's holidays: a stock    *)
(* picked twice, one that stops trading in November, and one that never       *)
(* trades after it was picked; looked at around the decisions, the months'    *)
(* ends, the stock's end, and the closings.                                  *)
DaysOn == 0..12 \cup 30..35 \cup 40..42 \cup 69..72 \cup 90..94 \cup 100..102 \cup 183..205
StopsAt == [t \in Tickers |-> IF t = "gone" THEN 69 ELSE IF t = "dead" THEN 9 ELSE LastDay]
Picks == {[ticker |-> "kept", day |-> 0, direction |-> "buy"], [ticker |-> "kept", day |-> 10, direction |-> "buy"],
          [ticker |-> "gone", day |-> 3, direction |-> "buy"], [ticker |-> "dead", day |-> 10, direction |-> "buy"]}

(* Six mornings with a weekend's gap; three stocks of two industries whose     *)
(* strength turns on the third day, when other stocks come to a buy point;     *)
(* three closes are missing, one of them the index's.                         *)
Strong(x, y, z) == "a" :> x @@ "b" :> y @@ "c" :> z
MCTapes == {[turn |-> 3, early |-> Strong(3, 2, 1), late |-> Strong(2, 1, 3), zone |-> {"a"}, laterZone |-> {"a", "c"}]}
MCIndustryOf == "a" :> "chips" @@ "b" :> "banks" @@ "c" :> "banks"
MCEpsOf == Strong(2, 3, 1)
MCUnpriced == {<<"a", 3>>, <<"a", 6>>, <<"SPY", 2>>}

(* Ten days and a weekend: a stock that splits, is not traded on one day and    *)
(* falls, and one that falls until it is traded no more; a run on a Monday,     *)
(* two, or one on the weekend.                                              *)
MCBarsOf == [s \in Symbols |-> CASE s = "spy" -> (0..10) \ {4, 5} [] s = "x" -> (0..10) \ {4, 5, 8} [] OTHER -> {1, 2, 3, 6}]
MCClose == [s \in Symbols |-> [d \in 0..LastReview |-> CASE s = "spy" -> 100 + d [] s = "x" -> IF d < 7 THEN 50 + d ELSE 40 [] OTHER -> 40 - 3 * d]]
MCMoving == [s \in Symbols |-> 45]
MCSplitOn == [s \in Symbols |-> IF s = "x" THEN 6 ELSE 99]
MCEvents == {[ticker |-> "x", when |-> 6, direction |-> "positive"], [ticker |-> "y", when |-> 3, direction |-> "negative"]}
MCBear == -20

VARIABLE which

RunStep == which = "run" /\ Next /\ UNCHANGED <<which, boardVars, gradeVars, reviewVars>>
BoardStep == which = "board" /\ BoardNext /\ UNCHANGED <<which, vars, gradeVars, reviewVars>>
GradeStep == which = "grades" /\ GradeNext /\ UNCHANGED <<which, vars, boardVars, reviewVars>>
ReviewStep == which = "reviews" /\ ReviewNext /\ UNCHANGED <<which, vars, boardVars, gradeVars>>

discoverVars == <<which, vars, boardVars, gradeVars, reviewVars>>
DiscoverInit ==
    /\ which \in {"run", "board", "grades", "reviews"} /\ (which = "board" \/ tape = CHOOSE t \in Tapes : TRUE)
    /\ Init /\ BoardInit /\ GradeInit /\ ReviewInit
DiscoverNext == RunStep \/ BoardStep \/ GradeStep \/ ReviewStep
DiscoverSpec == DiscoverInit /\ [][DiscoverNext]_discoverVars /\ WF_discoverVars(RunStep)

(* Whatever fails, the one step that can die of a key nobody wrote is the  *)
(* screen, and then because a fetch of a block failed before it: every     *)
(* other step gets by on what is there (state["..."] against               *)
(* state.get("...") in the step_* methods).                                *)
OnlyTheScreenStarves ==
    \A s \in Steps : status[s] = "starved" =>
        s = "screen" /\ "failed" \in {status["technicals"], status["fundamentals"]}

(* A run's log tells what ran, in order, and how it ended, and what it tells  *)
(* of a step that died is that a fetch before it did.                        *)
FailuresAreTold == LogTellsTheRun /\ OnlyTheScreenStarves

(* Whatever fails, a run ends, with its log stored.                           *)
RunsEnd == which = "run" => RunEnds

(* What is graded is all of what was decided, soon after it is due, from      *)
(* closes that were final (track_record, pick_scorecard, price_record); the    *)
(* ratings' signals are told once, from whole inputs, and graded over the      *)
(* days the index is (cli/ibd, leaders); and who looks back at one pick says    *)
(* the same of it (thesis_tracker, calibration, catalyst_grading, paper_ledger, *)
(* quarterly).                                                             *)
DecisionsAreGraded ==
    (which = "grades" => GradesAreComplete) /\ (which = "board" => BoardIsSound) /\ (which = "reviews" => ReviewsAgree)

(* A grade, a price, a live rating, a graded call and a followed tranche, once  *)
(* they are there, do not change with the day they are read, a day that is      *)
(* rebuilt or a later pick (track_record._measure, price_record.record_prices,  *)
(* ibd.backfill, calibration._load_forecasts, paper_ledger.load_tranches).     *)
RecordsStand == HistoryStands /\ BoardStands /\ ReviewsStand
================================================================================
