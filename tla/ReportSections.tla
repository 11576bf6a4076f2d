----------------------------- MODULE ReportSections -----------------------------
(* The reports' intermediate form (discover/report_sections.py and              *)
(* rebalance_sections.py): from the facts of a run, the list of sections that   *)
(* both editions are rendered from. A section has its kind, the ticker whose     *)
(* chart it wants, and the facts it carries; wording and numbers are left out.   *)
(* A run is a record of what its steps left in the pipeline's state.            *)
EXTENDS Naturals, Sequences, FiniteSets, SequencesExt

CONSTANT Holding    \* the ticker of the holding that is reviewed

\* A fact is a pair, <<what it is about, which one>>; most are of one sort only.
Fact(names) == {<<n, "">> : n \in names}
Each(name, which) == {<<name, w>> : w \in which}
Panel(kind, of, shows) == <<[kind |-> kind, of |-> of, shows |-> shows]>>
When(condition, sections) == IF condition THEN sections ELSE <<>>
Heading(name) == Panel("heading", "", {<<name, "">>})
Para(name) == Panel("para", "", {<<name, "">>})
Pre(name) == Panel("preformatted", "", {<<name, "">>})
Rows(facts) == When(facts # {}, Panel("table", "", facts))
PageBreak == Panel("page_break", "", {})

\* --- what is read back out of a model's answer, structured or prose ------------
parse_picks(r) == IF r.ranker = "none" THEN <<>> ELSE r.picks
parse_verdict(review) == IF review.verdict = "" THEN "HOLD" ELSE review.verdict
parse_confidence(review) == IF review.form = "object" \/ review.verdict # "" THEN "confidence" ELSE "none"
parse_rebalance_status(plan) == IF plan.lost # "" THEN "UNKNOWN" ELSE plan.status
Structured(output) == output = "object"
\* An answer in prose is cut at its tickers; one it does not name is "(missing)".
BlockOf(form, fact) == IF form = "none" THEN "(missing)" ELSE fact

\* --- sections both reports have ------------------------------------------------
track_record_headline(r) ==
    Para("track headline") \o When(r.track = "mature", Panel("bar_chart", "", Fact({"alpha by call"})))
track_record_tables(r) ==
    When(r.track = "mature", Rows(Fact({"stats by horizon"})) \o Heading("by model") \o Rows(Fact({"alpha by model"})))
scored_calls(r) == When(r.track = "mature", Heading("scored calls") \o Rows(Fact({"best and worst calls"})))
pending_calls(r) == When(r.pending, Heading("too young") \o Rows(Fact({"newest pending calls"})))
unscorable_calls(r) == When(r.delisted, Para("calls without a price"))
append_track_record_section(r) ==
    CASE r.track = "text" -> Heading("Track record") \o Pre("track record block")
      [] r.track \in {"none", "no picks"} -> <<>>
      [] OTHER -> Heading("Track record") \o track_record_headline(r) \o track_record_tables(r)
                      \o scored_calls(r) \o pending_calls(r) \o unscorable_calls(r)

\* Intact picks are named; the others get a row, and only then what is coming up.
append_thesis_check_section(r) ==
    LET flagged == r.theses \ {"INTACT"}
    IN  When(r.theses # {}, Heading("Open picks: thesis check") \o Panel("para", "", Each("tally", r.theses))
            \o When(flagged # {}, Rows(Each("thesis", flagged))
                                  \o When(r.comingUp, Para("coming up"))))

append_usage_section(r) ==
    When(r.usage, Heading("Model usage") \o Rows(Fact({"calls and tokens"})) \o Para("estimated cost")
                  \o Para(IF r.capNotes THEN "what the cap cut" ELSE "nothing cut"))
market_themes_sections(r) == When(r.themes, Heading("themes") \o Panel("market_themes_panel", "", Fact({"each theme"})))
append_analyst_targets(r, ticker) ==
    When(ticker \in r.targets, Panel("analyst_targets", ticker, Fact({"analyst targets"})))

\* --- the discover report ------------------------------------------------------
\* Of the sizer's warnings only those of a cap already applied are raised here.
GlanceFlags(r) ==
    Each("thesis flag", r.theses \cap {"BROKEN", "TARGET HIT"})
        \cup (IF r.sizer = "object" /\ r.capped THEN Fact({"cap applied"}) ELSE {})
        \cup (IF r.dataWarnings THEN Fact({"see Data warnings below"}) ELSE {})
        \cup (IF r.capNotes THEN Fact({"cost cap"}) ELSE {})
append_at_a_glance(r) ==
    LET flags == GlanceFlags(r)
        picks == parse_picks(r)
    IN  When(picks # <<>> \/ r.theses # {},
            Heading("At a glance") \o Rows(Each("glance", Range(picks)))
            \o IF flags = {} THEN Para("Nothing else needs attention") ELSE Para("Needs attention") \o Rows(flags))

pick_card_data(r, ticker) ==
    {"rank", "one_liner", "conviction", "bull_thesis", "betting_on", "why_over", "concentration"}
        \cup (IF r.agreement THEN {"consensus"} ELSE {})
        \cup (IF r.redteam = "object" /\ ticker \in r.criticised
              THEN {"bear_case", "most_fragile", "watch_metric", "fragility"} ELSE {})
        \cup (IF r.sizer = "object" /\ ticker \in r.sized THEN {"allocation", "allocation_rationale"} ELSE {})
        \cup (IF ticker \in r.catalysts THEN {"catalysts"} ELSE {})
CardOf(r, ticker) ==
    Panel("pick_card", ticker, Fact(pick_card_data(r, ticker))) \o Panel("image", ticker, {})
        \o append_analyst_targets(r, ticker)
ProseOf(r, ticker) ==
    Panel("heading", ticker, Fact({"pick"})) \o Panel("image", ticker, {}) \o append_analyst_targets(r, ticker)
        \o Panel("preformatted", ticker, Fact({BlockOf(r.ranker, "bull thesis")})) \o Panel("preformatted", ticker, Fact({BlockOf(r.redteam, "bear case")}))
        \o Panel("preformatted", ticker, Fact({BlockOf(r.sizer, "size")}))
append_pick_cards(r) ==
    FlattenSeq([i \in DOMAIN parse_picks(r) |->
        PageBreak \o (IF Structured(r.ranker) THEN CardOf(r, r.picks[i]) ELSE ProseOf(r, r.picks[i]))])

append_allocation_table(r) ==
    When(r.sizer = "object" /\ r.sized # {},
        Heading("Allocation summary")
        \o Panel("allocation_table", "", Each("allocated", r.sized)
                                         \cup (IF r.capped THEN Fact({"cap applied to sizes"}) ELSE {})))
\* With a structured answer an empty list means no pairs: its prose is not searched.
append_correlation_notes(r) ==
    Heading("correlation notes") \o
        (IF Structured(r.ranker) THEN Para(IF r.pairs THEN "pairs" ELSE "no pairs") ELSE Pre("end of the ranker's prose"))
append_redteam_summary(r) ==
    Heading("red-team summary")
        \o (IF Structured(r.redteam) THEN Para("most fragile pick") ELSE Pre("end of the red team's prose"))
append_sizer_warnings(r) ==
    Heading("sizer warnings") \o
        (IF Structured(r.sizer) THEN Para(IF r.capped THEN "sizer's warnings" ELSE "no sizer warnings")
         ELSE Pre("end of the sizer's prose"))
context_sections(r) ==
    market_themes_sections(r) \o When(r.macro, Heading("Macro regime") \o Panel("blockquote", "", Fact({"macro"})))
        \o When(r.dataWarnings, Heading("Data warnings") \o Pre("each data warning"))
        \o When(r.rotation, Heading("Sector rotation") \o Para("leaders") \o Para("laggards"))
        \o Heading("Current holdings") \o (IF r.held THEN Rows(Fact({"holdings table"})) ELSE Pre("(none)"))
append_paper_ledger_section(r) ==
    When(r.paper # "none", Heading("Paper portfolio") \o Para("paper result")
        \o Panel("equity_curve", "", IF r.paper = "curve" THEN Fact({"paper curve"}) ELSE {}) \o Rows(Fact({"paper tranches"})))
append_survivor_table(r) == When(r.survivors, PageBreak \o Heading("passed filters") \o Rows(Fact({"survivors"})))
append_factor_tilt(r) ==
    When(r.tilt # {}, Heading("Style factor tilt") \o Panel("factor_tilt_panel", "", Fact({"portfolio"}) \cup Each("tilt", r.tilt)))
append_rejected_candidates(r) ==
    When(r.rejected, PageBreak \o Heading("Rejected") \o Para("how many") \o Panel("sector_pie", "", Fact({"reasons pie"}))
                     \o Para("who for what"))

DiscoverTitle == Heading("Stock discovery picks") \o Para("candidates, survivors, picks")
build_sections(r) ==
    DiscoverTitle \o append_at_a_glance(r) \o append_pick_cards(r) \o PageBreak
        \o append_allocation_table(r) \o append_correlation_notes(r) \o append_redteam_summary(r)
        \o append_sizer_warnings(r) \o append_thesis_check_section(r) \o context_sections(r)
        \o append_track_record_section(r) \o append_paper_ledger_section(r) \o append_survivor_table(r)
        \o append_factor_tilt(r) \o append_rejected_candidates(r) \o append_usage_section(r)

\* --- the rebalance report -------------------------------------------------------
rebalance_plan(r) == r.plan
Arrived(r) == rebalance_plan(r).lost = ""
Actions(r) == IF Arrived(r) THEN rebalance_plan(r).actions ELSE {}
plan_statusMutant(r) == parse_rebalance_status([rebalance_plan(r) EXCEPT !.lost = ""])
plan_status(r) == IF ~Arrived(r) THEN "FAILED" ELSE parse_rebalance_status(rebalance_plan(r))
build_holdings_dashboard_rows(r) == {<<"dashboard", parse_verdict(r.review)>>, <<"dashboard confidence", parse_confidence(r.review)>>}

DecisionFlags(r) ==
    (IF r.stale THEN Fact({"stale account data"}) ELSE {})
        \cup Each("thesis flag", r.theses \cap {"BROKEN", "TARGET HIT"})
        \cup (IF r.stopLoss THEN Fact({"down 20% from cost"}) ELSE {})
        \cup (IF r.harvest THEN Fact({"see the harvesting table"}) ELSE {})
append_rebalance_glance(r) ==
    LET rows == Each("glance", Actions(r))
        flags == DecisionFlags(r)
    IN  When(rows # {} \/ flags # {},
            Heading("Decide") \o Rows(rows)
            \o IF flags = {} THEN Para("Nothing else needs a decision") ELSE Para("Also decide") \o Rows(flags))
append_catalyst_headlines(r) == When(r.news, Heading("Recent catalysts") \o Para("not used") \o Rows(Fact({"headlines"})))
append_rebalance_overview(r) ==
    Heading("Portfolio Rebalance") \o Panel("status_banner", "", {<<"status", plan_status(r)>>})
        \o Panel("metric_strip", "", Fact({"holdings", "value", "total P/L", "cash"}))
        \o append_rebalance_glance(r)
        \o Heading("Holdings dashboard") \o Panel("holdings_dashboard", Holding, build_holdings_dashboard_rows(r))
        \o append_catalyst_headlines(r)
        \o When(r.priced, Heading("Sector allocation") \o Panel("sector_pie", "", Fact({"sectors pie"})))
        \o append_track_record_section(r) \o append_thesis_check_section(r) \o market_themes_sections(r)
        \o When(r.macro, Heading("Macro regime") \o Panel("blockquote", "", Fact({"macro"})))

append_plan_failure(r) ==
    When(~Arrived(r), Panel("para", "", {<<"lost", rebalance_plan(r).lost>>})
                      \o When(rebalance_plan(r).text, Heading("as far as it got") \o Pre("what survived of the plan")))
append_action_table(r) ==
    When(Actions(r) # {}, Panel("rebalance_action_table", "", Each("action", Actions(r)) \cup Fact({"summary"})))
append_premortem(r) ==
    When(r.premortem, Heading("Pre-mortem")
        \o Panel("premortem_panel", "", Fact({"overall verdict", "story", "each failure", "early warning"})))
compute_round_lot_summary(r) == IF r.stubs THEN Fact({"part lots"}) ELSE {}
append_round_lot_coverage(r) ==
    When(compute_round_lot_summary(r) # {}, Panel("round_lot_coverage", "", compute_round_lot_summary(r)))
compute_premium_income(r) == Each("call written", Actions(r) \cap {"WRITE_CALL"}) \cup Fact({"premium totals"})
compute_premium_deployment(r) ==
    Each("deployed", Actions(r) \cap {"ADD", "BUY", "TRIM stub"}) \cup Fact({"dry powder"})
append_option_income(r) ==
    LET writes == "WRITE_CALL" \in Actions(r)
    IN  When(writes, Panel("premium_income", "", compute_premium_income(r)))
            \o append_round_lot_coverage(r)
            \o When(writes \/ Actions(r) \cap {"ADD", "BUY", "TRIM stub"} # {},
                    Panel("premium_deployment", "", compute_premium_deployment(r)))
append_reinvest_section(r) ==
    LET sold == Actions(r) \cap {"SELL", "TRIM stub"}
    IN  When(sold # {} /\ Actions(r) \cap {"ADD", "BUY"} = {} /\ r.ideas,
            Heading("Where the proceeds could go") \o Panel("para", "", Each("sells but buys nothing", sold)) \o Rows(Fact({"ideas"})))
append_csp_section(r) ==
    When("SELL_PUT" \in Actions(r), Heading("Cash-secured puts") \o Rows(Fact({"each put"})) \o Para("cash put aside"))
        \o When(r.putWarnings, Para("put plan adjustments"))
\* The checked plan's actions, and then the rebalancer's own text as it was.
append_rebalance_plan_body(r) ==
    PageBreak \o Heading("Rebalance plan") \o append_plan_failure(r) \o append_action_table(r) \o append_premortem(r)
        \o append_option_income(r) \o When(r.dropped # {} \/ r.planWarnings, Para("plan adjustments"))
        \o append_csp_section(r) \o append_reinvest_section(r)
        \o When(r.stopLoss, Para("down 20% from cost, re-checked"))
        \o Panel("preformatted", "", IF Arrived(r) \/ rebalance_plan(r).text THEN Each("in prose", Actions(r) \cup r.dropped) ELSE {})
append_harvest_section(r) == When(r.harvest, Heading("Tax-loss harvesting") \o Para("what it is worth") \o Rows(Fact({"each loss slice"})))
append_holding_review_sections(r) ==
    PageBreak \o Heading("Per-holding reviews")
        \o (IF r.review.form = "object"
            THEN Panel("holding_review_card", Holding,
                    {<<"verdict", r.review.verdict>>} \cup Fact({"confidence", "position", "outlook", "reasoning",
                    "change my mind"} \cup r.review.notes))
            ELSE Panel("heading", Holding, Fact({"review of"})) \o Panel("preformatted", Holding, {<<"review says", r.review.verdict>>}))
        \o append_analyst_targets(r, Holding)
\* The discover report less its title, with none of its warnings and holdings.
append_discover_appendix(r) ==
    LET inner == [r EXCEPT !.macro = FALSE, !.dataWarnings = FALSE, !.capNotes = FALSE, !.held = FALSE,
                           !.theses = {}, !.track = "none", !.paper = "none", !.tilt = {}, !.usage = FALSE,
                           !.themes = FALSE, !.catalysts = {}]
    IN  PageBreak \o Heading("Discover picks") \o SubSeq(build_sections(inner), 3, Len(build_sections(inner)))
build_rebalance_sections(r) ==
    append_rebalance_overview(r) \o append_rebalance_plan_body(r) \o append_harvest_section(r)
        \o append_holding_review_sections(r) \o append_discover_appendix(r) \o append_usage_section(r)
================================================================================
