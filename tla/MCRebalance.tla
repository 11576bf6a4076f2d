------------------------------ MODULE MCRebalance ------------------------------
(* The rebalance pipeline on the same runner (cli/rebalance.py).            *)
EXTENDS Pipeline, StepContracts

(* The order of RebalancePipeline.steps(): who must find what fetches of a  *)
(* block write, and who reads what another of its block writes.            *)
Fetches == {<<"screen", "technicals">>, <<"screen", "fundamentals">>, <<"holdings_data", "holdings_fetch">>,
            <<"review_holdings", "holdings_fetch">>, <<"review_holdings", "holdings_data">>}
Races == {<<"macro_regime", "holdings_tickers">>, <<"news", "holdings_fundamentals">>}
RebalanceIsWired == NeedsAreWritten(Fetches) /\ RacesAreAmong(Races)

(* Three steps can die of a key nobody wrote, each because a fetch of an   *)
(* earlier block failed: the screen, and behind holdings_fetch the         *)
(* enrichment and the review of the holdings (self.state["..."] in         *)
(* data_steps.py, review_steps.py).                                        *)
StarvesBehindAFailedFetch ==
    \A s \in Steps : status[s] = "starved" =>
        \/ s = "screen" /\ "failed" \in {status["technicals"], status["fundamentals"]}
        \/ s = "holdings_data" /\ status["holdings_fetch"] = "failed"
        \/ s = "review_holdings"
           /\ "failed" \in {status["holdings_fetch"], status["holdings_data"]}

(* Two reads race with a step of their own block, and no others: the macro *)
(* summary's holdings with holdings_fetch, and the company names of the    *)
(* news search with holdings_data (data_steps.py step_macro_regime,        *)
(* _fetch_recent_news; the blocks of RebalancePipeline.steps()).           *)
OnlyTwoReadsRace ==
    stage \in DOMAIN Plan =>
        \A s \in StepsOf(stage) : status[s] \in Done =>
            \A k \in (Reads(s) \ before) \ missed[s] : <<s, k>> \in Races

(* What a step of the rebalance reads is there, but for what a failed fetch   *)
(* should have written, and but for two reads does not depend on the order   *)
(* in which a block's steps run (RebalancePipeline.steps()).                *)
StepsFindTheirKeys == StarvesBehindAFailedFetch /\ OnlyTwoReadsRace

(* cli/discover.py:50-51: a fatal condition raises RuntimeError and the    *)
(* run stops there.  No holdings is one: "rebalance requires existing      *)
(* holdings" (rebalance_steps/data_steps.py:45).  No model ranks picks     *)
(* after that.                                                             *)
FatalStops == status["holdings_fetch"] = "failed" => status["ranker"] # "ok"
================================================================================
