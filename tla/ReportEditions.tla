---------------------------- MODULE ReportEditions ----------------------------
(* From one list of sections, the two editions of a report: the mail's HTML     *)
(* (report_html.py) and the PDF (report_pdf.py), which are two sets of           *)
(* renderers; and the order in which the last step of a run stores, renders,     *)
(* saves and mails (cli/discover_steps/report_steps.py, cli/rebalance_steps/     *)
(* report_steps.py, discover/rebalance_persist.py). An edition is a sequence of  *)
(* blocks: which facts of which section it shows.                                *)
EXTENDS ReportSections

CONSTANT Runs    \* what a run may have left in the pipeline's state

VARIABLES
    rep_pc,       \* "computing", "computed", ..., "done" or "dead"
    rep_kind,     \* "discover" or "rebalance"
    rep_run,      \* the run
    rep_stored,   \* of this run, in the database: {"run", "suggestions"}
    rep_charts,   \* the tickers whose chart was fetched
    rep_bad,      \* those of them that reportlab cannot read
    rep_reader    \* what has reached the reader: {"pdf", "mail", "log"}

repVars == <<rep_pc, rep_kind, rep_run, rep_stored, rep_charts, rep_bad, rep_reader>>

Block(s, shows) == IF shows = {} THEN <<>> ELSE <<[kind |-> s.kind, of |-> s.of, shows |-> shows]>>
Chart(ticker) == <<[kind |-> "image", of |-> ticker, shows |-> Fact({"chart"})]>>
Named(facts, names) == {f \in facts : f[1] \in names}

\* --- the HTML renderers: what each shows of its section's data -----------------
catalysts_html(d) == Named(d, {"catalysts"})
pick_pills_html(d) == Named(d, {"rank", "conviction", "fragility", "allocation", "consensus"})
pick_body_html(d) ==
    Named(d, {"bull_thesis", "betting_on", "bear_case", "most_fragile", "watch_metric", "why_over",
             "concentration", "allocation_rationale"}) \cup catalysts_html(d)
pick_card_html(d) == pick_pills_html(d) \cup Named(d, {"one_liner"}) \cup pick_body_html(d)
review_pills_html(d) == Named(d, {"verdict", "confidence", "trim size"})
review_body_html(d) == Named(d, {"outlook", "reasoning", "tax lots", "wash sale", "change my mind"}) \cup catalysts_html(d)
holding_review_card_html(d) == review_pills_html(d) \cup Named(d, {"position"}) \cup review_body_html(d)
\* The ledger's chart needs two dates; both editions draw it from this model.
ledger_chart_model(d) == Named(d, {"paper curve"})
equity_curve_svg(d) == ledger_chart_model(d)
status_banner_html(d) == Named(d, {"status"})
metric_strip_html(d) == Named(d, {"holdings", "value", "total P/L", "cash"})
holdings_dashboard_html(d) == Named(d, {"dashboard", "dashboard confidence"})
market_themes_panel_html(d) == Named(d, {"each theme"})
bar_chart_html(d) == Named(d, {"alpha by call"})
premium_income_html(d) == Named(d, {"call written", "premium totals"})
round_lot_coverage_html(d) == Named(d, {"part lots"})
premium_deployment_html(d) == Named(d, {"deployed", "dry powder"})
sector_pie_html(d) == Named(d, {"sectors pie", "reasons pie"})
analyst_target_html(d) == Named(d, {"analyst targets"})
table_html(d) == d
allocation_table_html(d) == IF d = {} THEN Fact({"(no allocations)"}) ELSE Named(d, {"allocated", "cap applied to sizes"})
rebalance_action_table_html(d) == IF Named(d, {"action"}) = {} THEN {} ELSE d
factor_tilt_panel_html(d) == Named(d, {"portfolio", "tilt"})
premortem_panel_html(d) == IF Named(d, {"each failure", "story"}) = {} THEN {} ELSE d
data_html(s) ==
    CASE s.kind = "pick_card" -> pick_card_html(s.shows)
      [] s.kind = "holding_review_card" -> holding_review_card_html(s.shows)
      [] s.kind = "equity_curve" -> equity_curve_svg(s.shows)
      [] s.kind = "allocation_table" -> allocation_table_html(s.shows)
      [] s.kind = "rebalance_action_table" -> rebalance_action_table_html(s.shows)
      [] s.kind = "factor_tilt_panel" -> factor_tilt_panel_html(s.shows)
      [] s.kind = "premortem_panel" -> premortem_panel_html(s.shows)
      [] s.kind = "status_banner" -> status_banner_html(s.shows)
      [] s.kind = "metric_strip" -> metric_strip_html(s.shows)
      [] s.kind = "holdings_dashboard" -> holdings_dashboard_html(s.shows)
      [] s.kind = "market_themes_panel" -> market_themes_panel_html(s.shows)
      [] s.kind = "bar_chart" -> bar_chart_html(s.shows)
      [] s.kind = "premium_income" -> premium_income_html(s.shows)
      [] s.kind = "round_lot_coverage" -> round_lot_coverage_html(s.shows)
      [] s.kind = "premium_deployment" -> premium_deployment_html(s.shows)
      [] s.kind = "sector_pie" -> sector_pie_html(s.shows)
      [] s.kind = "table" -> table_html(s.shows)
      [] s.kind = "analyst_targets" -> analyst_target_html(s.shows)
      [] OTHER -> s.shows
image_html(s, charts) == IF s.of \in charts THEN Chart(s.of) ELSE <<>>
render_html_email(sections, charts) ==
    FlattenSeq([i \in DOMAIN sections |->
        IF sections[i].kind = "image" THEN image_html(sections[i], charts)
        ELSE Block(sections[i], IF sections[i].shows = {} THEN {} ELSE data_html(sections[i]))])

\* --- the PDF renderers, written apart from them --------------------------------
pdf_catalysts(d) == Named(d, {"catalysts"})
pdf_pick_header(d) == Named(d, {"rank", "conviction", "fragility", "allocation", "consensus"})
pdf_pick_body(d) ==
    Named(d, {"one_liner", "bull_thesis", "betting_on", "bear_case", "most_fragile", "watch_metric",
                      "why_over", "concentration", "allocation_rationale"}) \cup pdf_catalysts(d)
pdf_pick_card(s, drawn) == Block(s, pdf_pick_header(s.shows) \cup pdf_pick_body(s.shows)) \o drawn
pdf_review_header(d) == Named(d, {"verdict", "confidence", "trim size"})
pdf_review_body(d) == Named(d, {"outlook", "reasoning", "tax lots", "wash sale", "change my mind"}) \cup pdf_catalysts(d)
pdf_holding_review_card(d) == pdf_review_header(d) \cup Named(d, {"position"}) \cup pdf_review_body(d)
pdf_equity_curve(d) == ledger_chart_model(d)
pdf_status_banner(d) == Named(d, {"status"})
pdf_metric_strip(d) == Named(d, {"holdings", "value", "total P/L", "cash"})
pdf_holdings_dashboard(d) == Named(d, {"dashboard", "dashboard confidence"})
pdf_market_themes_panel(d) == Named(d, {"each theme"})
pdf_bar_chart(d) == Named(d, {"alpha by call"})
pdf_premium_income(d) == Named(d, {"call written", "premium totals"})
pdf_round_lot_coverage(d) == Named(d, {"part lots"})
pdf_premium_deployment(d) == Named(d, {"deployed", "dry powder"})
pdf_sector_pie(d) == Named(d, {"sectors pie", "reasons pie"})
analyst_target_text(d) == Named(d, {"analyst targets"})
pdf_table_section(d) == d
pdf_allocation_table(d) == IF d = {} THEN Fact({"(no allocations)"}) ELSE Named(d, {"allocated", "cap applied to sizes"})
pdf_rebalance_action_table(d) == IF Named(d, {"action"}) = {} THEN {} ELSE d
pdf_factor_tilt_panel(d) == Named(d, {"portfolio", "tilt"})
pdf_premortem_panel(d) == IF Named(d, {"each failure", "story"}) = {} THEN {} ELSE d
pdf_data_panel(s) ==
    CASE s.kind = "holding_review_card" -> pdf_holding_review_card(s.shows)
      [] s.kind = "equity_curve" -> pdf_equity_curve(s.shows)
      [] s.kind = "allocation_table" -> pdf_allocation_table(s.shows)
      [] s.kind = "rebalance_action_table" -> pdf_rebalance_action_table(s.shows)
      [] s.kind = "factor_tilt_panel" -> pdf_factor_tilt_panel(s.shows)
      [] s.kind = "premortem_panel" -> pdf_premortem_panel(s.shows)
      [] s.kind = "status_banner" -> pdf_status_banner(s.shows)
      [] s.kind = "metric_strip" -> pdf_metric_strip(s.shows)
      [] s.kind = "holdings_dashboard" -> pdf_holdings_dashboard(s.shows)
      [] s.kind = "market_themes_panel" -> pdf_market_themes_panel(s.shows)
      [] s.kind = "bar_chart" -> pdf_bar_chart(s.shows)
      [] s.kind = "premium_income" -> pdf_premium_income(s.shows)
      [] s.kind = "round_lot_coverage" -> pdf_round_lot_coverage(s.shows)
      [] s.kind = "premium_deployment" -> pdf_premium_deployment(s.shows)
      [] s.kind = "sector_pie" -> pdf_sector_pie(s.shows)
      [] s.kind = "table" -> pdf_table_section(s.shows)
      [] s.kind = "analyst_targets" -> analyst_target_text(s.shows)
      [] OTHER -> s.shows
\* A chart that cannot be drawn is dropped; the page is worth more than its chart.
Drawn(ticker, charts, bad) == IF ticker \in charts \ bad THEN Chart(ticker) ELSE <<>>
pdf_image_section(s, charts, bad) == Drawn(s.of, charts, bad)
\* A pick's card draws the image that follows it, which is then passed over.
pdf_flowables(sections, charts, bad) ==
    LET Dispatch(acc, i) ==
            LET s == sections[i]
                follows == IF i < Len(sections) /\ sections[i + 1].kind = "image" THEN sections[i + 1].of ELSE ""
            IN  CASE acc.skip /\ s.kind = "image" -> [acc EXCEPT !.skip = FALSE]
                  [] s.kind = "pick_card" ->
                        [flow |-> acc.flow \o pdf_pick_card(s, Drawn(follows, charts, bad)),
                         skip |-> acc.skip \/ follows \in charts]
                  [] s.kind = "image" /\ ~acc.skip -> [acc EXCEPT !.flow = @ \o pdf_image_section(s, charts, bad)]
                  [] OTHER -> [acc EXCEPT !.flow = @ \o Block(s, IF s.shows = {} THEN {} ELSE pdf_data_panel(s))]
    IN  FoldLeftDomain(Dispatch, [flow |-> <<>>, skip |-> FALSE], sections).flow
render_pdf(sections, charts, bad) == pdf_flowables(sections, charts, bad)

\* --- the last step of a run ----------------------------------------------------
TypesetSections == IF rep_kind = "discover" THEN build_sections(rep_run) ELSE build_rebalance_sections(rep_run)
gross_premium_from_plan(r) == Actions(r) \cap {"WRITE_CALL", "SELL_PUT"}
build_email_subject(r) ==
    CASE ~Arrived(r) -> "plan incomplete, re-run needed"
      [] gross_premium_from_plan(r) # {} -> "actions and premium"
      [] OTHER -> "date only"
TickersIn(r) == Range(parse_picks(r))

RepInit ==
    /\ rep_pc = "computing"
    /\ rep_kind = "" /\ rep_run = [none |-> TRUE]
    /\ rep_stored = {} /\ rep_charts = {} /\ rep_bad = {}
    /\ rep_reader = {}

Compute ==
    /\ rep_pc = "computing"
    /\ rep_kind' \in {"discover", "rebalance"}
    /\ rep_run' \in Runs
    /\ rep_pc' = "computed"
    /\ UNCHANGED <<rep_stored, rep_charts, rep_bad, rep_reader>>

\* One transaction; its error ends the step, and nothing of the run is kept.
persist_run ==
    /\ rep_pc = "computed"
    /\ \/ rep_stored' = {"run"} /\ rep_pc' = "persisted"
       \/ rep_stored' = {} /\ rep_pc' = "dead"
    /\ UNCHANGED <<rep_kind, rep_run, rep_charts, rep_bad, rep_reader>>

\* What it advises, for the quarterly review: an error is only logged.
Advises == TickersIn(rep_run) # {} \/ (rep_kind = "rebalance" /\ Actions(rep_run) # {})
record_suggestions ==
    /\ rep_pc = "persisted"
    /\ rep_stored' \in {rep_stored, rep_stored \cup (IF Advises THEN {"suggestions"} ELSE {})}
    /\ rep_pc' = "recorded"
    /\ UNCHANGED <<rep_kind, rep_run, rep_charts, rep_bad, rep_reader>>

\* All or some of the charts, or none; one of them may be no picture.
fetch_pick_charts ==
    /\ rep_pc = "recorded"
    /\ \E charts \in SUBSET TickersIn(rep_run) :
          /\ rep_charts' = charts
          /\ \E bad \in {{}} \cup {{t} : t \in charts} : rep_bad' = bad
    /\ rep_pc' = "fetched"
    /\ UNCHANGED <<rep_kind, rep_run, rep_stored, rep_reader>>

\* The sections are built and both editions rendered from them; an error ends the step.
Typeset ==
    /\ rep_pc = "fetched"
    /\ rep_pc' \in {"typeset", "dead"}
    /\ UNCHANGED <<rep_kind, rep_run, rep_stored, rep_charts, rep_bad, rep_reader>>

\* The file is written before the mail is tried, and its error ends the step.
save_local_pdf ==
    /\ rep_pc = "typeset"
    /\ \/ rep_reader' = {"pdf"} /\ rep_pc' = "saved"
       \/ rep_reader' = {} /\ rep_pc' = "dead"
    /\ UNCHANGED <<rep_kind, rep_run, rep_stored, rep_charts, rep_bad>>

\* No address or an error: the log gets the whole analysis either way.
deliver_email ==
    /\ rep_pc = "saved"
    /\ rep_reader' \in {rep_reader \cup {"log"}, rep_reader \cup {"mail", "log"}}
    /\ rep_pc' = "done"
    /\ UNCHANGED <<rep_kind, rep_run, rep_stored, rep_charts, rep_bad>>

RepNext ==
    \/ Compute \/ persist_run \/ record_suggestions \/ fetch_pick_charts
    \/ Typeset \/ save_local_pdf \/ deliver_email

\* --- what makes a report right --------------------------------------------------
FactsOf(edition) == UNION {{<<b.kind, b.of, f>> : f \in b.shows} : b \in Range(edition)}
ChartsOf(edition) == SelectSeq(edition, LAMBDA b : b.kind = "image")
SaysOf(edition, name, which) == \E b \in Range(edition) : <<name, which>> \in b.shows
Says(edition, name) == SaysOf(edition, name, "")

\* Both editions say all there is to say, the same, and show each chart once, but for one that cannot be drawn.
EditionsAgree(sections, mail, pdf) ==
    /\ FactsOf(sections) \subseteq FactsOf(mail)
    /\ FactsOf(mail) \ FactsOf(pdf) = {<<"image", t, <<"chart", "">>>> : t \in rep_bad}
    /\ FactsOf(pdf) \subseteq FactsOf(mail)
    /\ \A edition \in {mail, pdf} : IsInjective(ChartsOf(edition))

\* A plan that never came is not a plan to do nothing.
LostPlanIsTold(mail) ==
    rep_kind = "rebalance" /\ ~Arrived(rep_run) =>
        /\ build_email_subject(rep_run) = "plan incomplete, re-run needed"
        /\ SaysOf(mail, "status", "FAILED") /\ SaysOf(mail, "lost", rebalance_plan(rep_run).lost)
        /\ ~Says(mail, "Nothing else needs a decision") /\ ~Says(mail, "each failure")
        /\ ~\E b \in Range(mail) : b.kind \in {"rebalance_action_table", "premium_income", "premium_deployment"}

\* What one place of the report refers to, another place of it holds.
PointersResolve(mail) ==
    /\ Says(mail, "see the harvesting table") => Says(mail, "each loss slice")
    /\ Says(mail, "see Data warnings below") => Says(mail, "each data warning")
    /\ Says(mail, "down 20% from cost") => Says(mail, "down 20% from cost, re-checked")
    /\ \A s \in rep_run.theses : SaysOf(mail, "thesis flag", s) => SaysOf(mail, "thesis", s)

\* The glance, the table, the boxes and the subject advise the same; what the
\* checks took out and the prose still names is told; one verdict for a holding.
AdviceIsOne(mail) ==
    rep_kind = "rebalance" =>
        /\ \A a \in Actions(rep_run) : SaysOf(mail, "glance", a) /\ SaysOf(mail, "action", a)
        /\ build_email_subject(rep_run) = "actions and premium"
              <=> SaysOf(mail, "call written", "WRITE_CALL") \/ Says(mail, "each put")
        /\ (\E a \in rep_run.dropped \ Actions(rep_run) : SaysOf(mail, "in prose", a)) => Says(mail, "plan adjustments")
        /\ SaysOf(mail, "verdict", rep_run.review.verdict) => SaysOf(mail, "dashboard", rep_run.review.verdict)

(* The mail and the PDF of a run say the same; a lost plan is never read as a    *)
(* decision not to trade; what the report points to is in it, its tables advise  *)
(* the same and name what the checks dropped; and whoever has the mail has the    *)
(* PDF, and the run is stored (build_sections, build_rebalance_sections, the two *)
(* dispatch tables, _pdf_flowables, step_persist_and_report).                    *)
ReportTellsTheRun ==
    /\ rep_pc = "typeset" =>
          LET sections == TypesetSections
              mail == render_html_email(sections, rep_charts)
          IN  /\ EditionsAgree(sections, mail, render_pdf(sections, rep_charts, rep_bad))
              /\ LostPlanIsTold(mail) /\ PointersResolve(mail) /\ AdviceIsOne(mail)
    /\ "mail" \in rep_reader => "pdf" \in rep_reader /\ "run" \in rep_stored
    /\ rep_pc = "done" => "log" \in rep_reader
================================================================================
