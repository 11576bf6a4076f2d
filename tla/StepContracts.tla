----------------------------- MODULE StepContracts -----------------------------
(***************************************************************************)
(* What each step_* method of the discover and rebalance pipelines reads   *)
(* from and writes to self.state, and the order of both pipelines.         *)
(*                                                                         *)
(*   needs     keys read with state[key]: KeyError when nobody wrote them  *)
(*   uses      keys read with state.get(key)                               *)
(*   gate      the step returns early when none of these holds anything    *)
(*   skip      what it writes then, all empty                              *)
(*   writes    what it writes otherwise, in the order it writes it         *)
(*   optional  the part it goes on without when a source fails             *)
(*   bare      the part it leaves empty when a source fails or has nothing *)
(*   raises    some fetch, model call or query is outside any try          *)
(*                                                                         *)
(* Rows, files and mail a step leaves are keys as well: "run_row",         *)
(* "suggestion_rows", "pdf_file", "mail", "page".                          *)
(***************************************************************************)
EXTENDS Sequences, TLC

Plain == [needs |-> {}, uses |-> {}, gate |-> {}, skip |-> {}, writes |-> <<>>,
          optional |-> {}, bare |-> {}, raises |-> TRUE]

\* A fetch for the screen's survivors: skipped when there are none.
ForSurvivors(key) == [Plain EXCEPT !.gate = {"survivor_tickers"}, !.skip = {key}, !.writes = <<key>>]
\* The rebalance override: for survivors and holdings.
ForAll(key) == [Plain EXCEPT !.gate = {"survivor_tickers", "holdings_tickers"},
                             !.skip = {key}, !.writes = <<key>>]

-----------------------------------------------------------------------------
(* cli/discover_steps/data_steps.py                                        *)
Universe == [Plain EXCEPT !.writes = <<"holdings_raw", "universe", "tickers">>, !.optional = {"holdings_raw"}]
Technicals == [Plain EXCEPT !.needs = {"tickers"}, !.writes = <<"technicals">>]
SectorRotation == [Plain EXCEPT !.writes = <<"sector_rotation">>]
MacroRegime == [Plain EXCEPT !.uses = {"holdings_tickers"}, !.optional = {"world_markets"},
                             !.writes = <<"macro_data", "world_markets", "macro_summary">>]
TrackRecord == [Plain EXCEPT
    !.writes = <<"track_record", "track_record_summary", "track_record_block",
                 "calibration", "calibration_block", "paper_ledger">>,
    !.bare = {"calibration", "calibration_block", "paper_ledger"}]
Prescreen == [Plain EXCEPT !.needs = {"tickers"}, !.uses = {"technicals", "universe"},
                           !.writes = <<"screen_tickers", "prescreen_reasons">>, !.raises = FALSE]
\* fundamentals and historical_volatility: the prescreened names, else all.
ForScreen(key) == [Plain EXCEPT !.needs = {"tickers"}, !.uses = {"screen_tickers"}, !.writes = <<key>>]
EpsRevisions == [Plain EXCEPT !.gate = {"screen_tickers", "tickers"}, !.skip = {"eps_revisions"},
                              !.writes = <<"eps_revisions">>]
MarketThemes == [Plain EXCEPT
    !.uses = {"macro_summary", "sector_rotation", "technicals", "fundamentals", "eps_revisions", "tickers"},
    !.writes = <<"market_themes", "themes_by_ticker", "market_themes_block">>,
    !.bare = {"market_themes", "themes_by_ticker", "market_themes_block"}]
Screen == [Plain EXCEPT
    !.needs = {"universe", "fundamentals", "technicals", "tickers"},
    !.uses = {"themes_by_ticker", "eps_revisions", "prescreen_reasons", "sector_rotation",
              "calibration_block"},
    !.writes = <<"filing_features", "candidates", "survivors", "survivor_tickers", "calibration_block">>,
    !.bare = {"survivors", "survivor_tickers"}]
ThesisCheck == [Plain EXCEPT !.uses = {"eps_revisions"}, !.writes = <<"thesis_checks">>,
                             !.bare = {"thesis_checks"}, !.raises = FALSE]
News == [Plain EXCEPT !.gate = {"survivor_tickers"}, !.uses = {"holdings_fundamentals", "fundamentals"},
                      !.skip = {"news", "recent_news"}, !.writes = <<"news", "recent_news">>]
PeerComparison == [ForSurvivors("peer_comparison") EXCEPT !.uses = {"fundamentals"}]
ContractedBook == [Plain EXCEPT !.gate = {"survivors"}, !.skip = {"contracted_book"},
    !.writes = <<"contracted_book">>, !.bare = {"contracted_book"}, !.raises = FALSE]

(* cli/discover_steps/analysis_steps.py                                    *)
Analyst == [Plain EXCEPT
    !.gate = {"survivors"}, !.skip = {"analyses"},
    !.uses = {"fundamentals", "technicals", "risk_factors", "news", "recent_news", "earnings_alerts",
              "insider_selling", "share_trades", "finnhub_signals", "eps_revisions", "quarterly_mda",
              "peer_comparison", "earnings_transcripts", "contracted_book"},
    !.writes = <<"leadership_ratings", "analyses", "catalyst_warnings">>, !.bare = {"analyses"}]
Holdings == [Plain EXCEPT !.uses = {"holdings_raw"}, !.writes = <<"holdings_summary", "holdings_table_rows">>,
    !.bare = {"holdings_summary", "holdings_table_rows"}, !.raises = FALSE]
Ranker == [Plain EXCEPT
    !.gate = {"analyses"}, !.skip = {"ranker_output", "ranker_text", "picks"},
    !.uses = {"holdings_summary", "macro_summary", "track_record_block", "market_themes_block",
              "calibration_block", "technicals", "historical_volatility"},
    !.writes = <<"ranker_output", "ranker_text", "picks", "output_validation_warnings">>]
MacroVeto == [Plain EXCEPT !.gate = {"ranker_output"}, !.uses = {"macro_data", "technicals"},
    !.writes = <<"ranker_output", "ranker_text", "picks", "macro_veto_reasons">>, !.raises = FALSE]
RedTeam == [Plain EXCEPT !.gate = {"ranker_text"}, !.uses = {"picks"},
    !.skip = {"redteam_output", "redteam_text"}, !.writes = <<"redteam_output", "redteam_text">>,
    !.bare = {"redteam_output", "redteam_text"}, !.raises = FALSE]
Sizer == [Plain EXCEPT !.gate = {"ranker_text"}, !.skip = {"sizer_output", "sizer_text"},
    !.uses = {"ranker_output", "historical_volatility", "picks", "earnings_alerts", "candidates",
              "holdings_raw", "redteam_text", "holdings_summary"},
    !.writes = <<"sizer_output", "sizer_text">>, !.bare = {"sizer_output", "sizer_text"}, !.raises = FALSE]

(* cli/discover_steps/report_steps.py                                      *)
PersistAndReport == [Plain EXCEPT
    !.needs = {"candidates", "survivors", "picks", "analyses", "ranker_text", "redteam_text",
               "sizer_text", "holdings_summary"},
    !.uses = {"fundamentals", "eps_revisions", "filing_features", "ranker_output", "holdings_raw",
              "historical_volatility", "holdings_table_rows", "macro_summary", "sector_rotation",
              "track_record_block", "track_record", "redteam_output", "sizer_output", "market_themes",
              "output_validation_warnings", "macro_veto_reasons", "catalyst_warnings",
              "paper_ledger", "thesis_checks"},
    !.writes = <<"run_row", "suggestion_rows", "pdf_file", "mail", "run_id", "pdf_bytes", "html_body", "local_pdf_path">>,
    !.optional = {"suggestion_rows", "mail"}]
HistoryUpkeep == [Plain EXCEPT !.writes = <<"history">>, !.raises = FALSE]
Dashboard == [Plain EXCEPT !.writes = <<"page">>, !.optional = {"page"}, !.raises = FALSE]

-----------------------------------------------------------------------------
(* cli/rebalance_steps                                                     *)
HoldingsFetch == [Plain EXCEPT !.writes = <<"stale_accounts", "account_cash", "covered_call_obligations",
    "holdings_positions", "account_meta", "position_splits", "cash_balance", "holdings_tickers">>,
    !.bare = {"account_cash", "covered_call_obligations", "cash_balance"}]
HoldingsData == [Plain EXCEPT !.needs = {"holdings_tickers"},
    !.writes = <<"holdings_fundamentals", "holdings_technicals", "holdings_risk_factors",
                 "holdings_quarterly_mda", "holdings_peers", "holdings_transcripts">>]
TransactionHistory == [Plain EXCEPT !.writes = <<"tax_lots">>]
NewsForAll == [News EXCEPT !.gate = {"survivor_tickers", "holdings_tickers"}]
HoldingsBook == [Plain EXCEPT !.gate = {"holdings_tickers"}, !.writes = <<"contracted_book", "backlog_block">>,
    !.bare = {"contracted_book", "backlog_block"}, !.raises = FALSE]
ReviewHoldings == [Plain EXCEPT
    !.needs = {"holdings_positions", "holdings_fundamentals", "holdings_technicals", "holdings_risk_factors"},
    !.uses = {"holdings_tickers", "insider_selling", "finnhub_signals", "eps_revisions", "position_splits",
              "account_meta", "tax_lots", "share_trades", "holdings_quarterly_mda", "holdings_peers",
              "holdings_transcripts", "news", "recent_news", "thesis_checks"},
    !.writes = <<"stop_loss_warnings", "holdings_reviews">>, !.optional = {"stop_loss_warnings"}]
\* Both options steps first reset what they own, so a failure leaves it empty.
CcData == [Plain EXCEPT
    !.uses = {"holdings_positions", "position_splits", "holdings_technicals", "finnhub_signals", "holdings_reviews"},
    !.writes = <<"cc_context_block", "cc_eligibility", "cc_round_lot_coverage", "cc_stub_pool_total_usd",
                 "cc_chains", "cc_iv_hv_regimes", "stub_income_block", "cc_cheap_premium">>,
    !.optional = {"cc_chains", "cc_iv_hv_regimes", "stub_income_block", "cc_cheap_premium"}, !.raises = FALSE]
CspData == [Plain EXCEPT
    !.uses = {"cash_balance", "account_cash", "picks", "thesis_checks", "holdings_positions",
              "position_splits", "finnhub_signals"},
    !.writes = <<"csp_context_block", "csp_eligibility", "csp_chains", "csp_cash_budget", "csp_account_room",
                 "csp_blocked_note", "csp_cheap_premium">>,
    !.optional = {"csp_blocked_note", "csp_cheap_premium"}, !.raises = FALSE]
TaxHarvest == [Plain EXCEPT
    !.uses = {"holdings_technicals", "position_splits", "tax_lots", "holdings_peers", "covered_call_obligations"},
    !.writes = <<"harvest_candidates_obj", "harvest_block">>,
    !.bare = {"harvest_candidates_obj", "harvest_block"}, !.raises = FALSE]
\* A plan that is lost leaves rebalance_plan empty and says so.
Rebalance == [Plain EXCEPT
    !.uses = {"ranker_text", "holdings_reviews", "cash_balance", "macro_summary", "market_themes_block",
              "cc_context_block", "harvest_block", "csp_context_block", "account_cash", "account_meta",
              "backlog_block", "stub_income_block", "holdings_positions", "covered_call_obligations",
              "picks", "technicals", "holdings_technicals", "cc_chains", "cc_eligibility", "csp_chains",
              "csp_eligibility", "csp_cash_budget", "csp_account_room", "harvest_candidates_obj"},
    !.writes = <<"core_status", "sale_warnings", "cc_warnings", "csp_warnings", "rebalance_plan",
                 "rebalance_text", "harvest_candidates">>,
    !.bare = {"rebalance_plan", "rebalance_text"}, !.raises = FALSE]
Premortem == [Plain EXCEPT !.gate = {"rebalance_plan"}, !.uses = {"holdings_reviews", "ranker_text"},
    !.skip = {"premortem"}, !.writes = <<"premortem">>, !.bare = {"premortem"}]
PersistAndEmail == [Plain EXCEPT
    !.uses = {"candidates", "survivors", "picks", "analyses", "ranker_text", "redteam_text", "sizer_text",
              "cash_balance", "fundamentals", "eps_revisions", "filing_features", "holdings_reviews",
              "rebalance_plan", "rebalance_text", "holdings_summary", "holdings_positions",
              "holdings_technicals", "technicals", "thesis_checks", "premortem", "harvest_candidates"},
    !.writes = <<"run_row", "suggestion_rows", "pdf_file", "mail", "run_id", "pdf_bytes", "local_pdf_path">>,
    !.optional = {"suggestion_rows", "mail"}]

-----------------------------------------------------------------------------
(* DiscoverPipeline.steps() and RebalancePipeline.steps().                 *)
Serial(s) == [parallel |-> FALSE, steps |-> <<s>>]
Parallel(ss) == [parallel |-> TRUE, steps |-> ss]

Common == [
    universe |-> Universe, technicals |-> Technicals, sector_rotation |-> SectorRotation,
    macro_regime |-> MacroRegime, track_record |-> TrackRecord,
    fundamentals |-> ForScreen("fundamentals"), eps_revisions |-> EpsRevisions,
    market_themes |-> MarketThemes, screen |-> Screen, thesis_check |-> ThesisCheck,
    risk_factors |-> ForSurvivors("risk_factors"), quarterly_mda |-> ForSurvivors("quarterly_mda"),
    earnings |-> ForSurvivors("earnings_alerts"), peer_comparison |-> PeerComparison,
    earnings_transcripts |-> ForSurvivors("earnings_transcripts"),
    analyst |-> Analyst, holdings |-> Holdings, ranker |-> Ranker, redteam |-> RedTeam, sizer |-> Sizer,
    history_upkeep |-> HistoryUpkeep, dashboard |-> Dashboard]

DiscoverContract == [
    prescreen |-> Prescreen, historical_volatility |-> ForScreen("historical_volatility"),
    news |-> News, insider_selling |-> ForSurvivors("insider_selling"),
    share_trades |-> ForSurvivors("share_trades"), finnhub_signals |-> ForSurvivors("finnhub_signals"),
    contracted_book |-> ContractedBook, macro_veto |-> MacroVeto,
    persist_and_report |-> PersistAndReport] @@ Common

RebalanceContract == [
    holdings_fetch |-> HoldingsFetch, transaction_history |-> TransactionHistory,
    news |-> NewsForAll, insider_selling |-> ForAll("insider_selling"),
    share_trades |-> ForAll("share_trades"), finnhub_signals |-> ForAll("finnhub_signals"),
    holdings_data |-> HoldingsData, contracted_book |-> HoldingsBook,
    review_holdings |-> ReviewHoldings, cc_data |-> CcData, csp_data |-> CspData,
    tax_harvest |-> TaxHarvest, rebalance |-> Rebalance, premortem |-> Premortem,
    persist_and_email_rebalance |-> PersistAndEmail] @@ Common

DiscoverStages == <<
    Serial("universe"),
    Parallel(<<"technicals", "sector_rotation", "macro_regime", "track_record">>),
    Serial("prescreen"),
    Parallel(<<"fundamentals", "eps_revisions", "historical_volatility">>),
    Serial("market_themes"), Serial("screen"), Serial("thesis_check"),
    Parallel(<<"risk_factors", "quarterly_mda", "news", "earnings", "insider_selling", "share_trades",
               "peer_comparison", "earnings_transcripts", "finnhub_signals", "contracted_book">>),
    Serial("analyst"), Serial("holdings"), Serial("ranker"), Serial("macro_veto"),
    Serial("redteam"), Serial("sizer"), Serial("persist_and_report"),
    Serial("history_upkeep"), Serial("dashboard") >>

RebalanceStages == <<
    Serial("universe"),
    Parallel(<<"fundamentals", "technicals", "sector_rotation", "macro_regime", "track_record",
               "eps_revisions", "holdings_fetch", "transaction_history">>),
    Serial("market_themes"), Serial("screen"), Serial("thesis_check"),
    Parallel(<<"risk_factors", "quarterly_mda", "news", "earnings", "insider_selling", "share_trades",
               "peer_comparison", "earnings_transcripts", "finnhub_signals", "holdings_data">>),
    Serial("analyst"), Serial("holdings"), Serial("ranker"), Serial("redteam"), Serial("sizer"),
    Serial("contracted_book"), Serial("review_holdings"), Serial("cc_data"), Serial("csp_data"),
    Serial("tax_harvest"), Serial("rebalance"), Serial("premortem"),
    Serial("persist_and_email_rebalance"), Serial("history_upkeep"), Serial("dashboard") >>
================================================================================
