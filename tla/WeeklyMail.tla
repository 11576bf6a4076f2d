----------------------------- MODULE WeeklyMail -----------------------------
(***************************************************************************)
(* The portfolio mail: a block for each holding, written by parallel        *)
(* workers from stored views and from headlines no mail has carried yet;    *)
(* the health checks; the lines it gives, kept for the quarterly review.   *)
(* Every part has a fallback, and a run may die between any two.            *)
(***************************************************************************)
EXTENDS Integers, FiniteSets, FiniteSetsExt

CONSTANTS
    Holdings, Headlines,
    EarningsDays,       \* [Holdings -> days]: the calendar's dates, printed after the close
    Conditions,         \* what the checks can find of a holding
    MaxAge,             \* STOCK_VIEW_MAX_AGE_DAYS
    MailDays, MaxRuns, MaxMishaps,   \* bounds
    Unwritten

ASSUME MailAssumption ==
    /\ MailDays \subseteq Nat /\ MailDays # {} /\ {MaxAge, MaxRuns, MaxMishaps} \subseteq Nat
    /\ Unwritten \notin [written : Nat, shown : SUBSET Headlines]
    /\ Unwritten \notin [news : SUBSET Headlines, written : Nat \cup {Unwritten}]
    /\ \A t \in Holdings : EarningsDays[t] \subseteq Nat
    /\ \A c \in Conditions : c \subseteq {"broken", "drawdown", "loss", "dipped", "over"}

VARIABLES
    date, run, step, mishaps,
    feed,       \* the headlines of each holding that Yahoo lists
    views,      \* stock_views: [written, shown], or Unwritten
    loaded,     \* phase 1's copy of them
    data,       \* the holdings with data
    ranked,     \* the headlines the run may show
    blocks,     \* [Holdings -> [news, written], or Unwritten]; a placeholder has neither
    failures,   \* a step of the analysis fell back
    mailed,     \* the mail's lines: [sell, add]
    suggested,     \* suggestions: <<day, ticker>>
    doctor,     \* the problems run_health.json has of the last run
    sent,       \* the mails
    spoiled,    \* the holdings whose row could not be read or written
    missed      \* the records of the runs that could not be

mailVars == <<date, run, step, mishaps, feed, views, loaded, data, ranked, blocks, failures, mailed, suggested, doctor, sent, spoiled, missed>>
stored == <<views, suggested, doctor, sent, spoiled, missed>>

NoLines == [sell |-> {}, add |-> {}]
Placeholder == [news |-> {}, written |-> Unwritten]
NoBlocks == [t \in Holdings |-> Unwritten]
Checks == {"thesis", "drawdown", "harvest", "sectors", "add on"}

Mishap(n) == mishaps + n <= MaxMishaps /\ mishaps' = mishaps + n
If(b) == IF b THEN 1 ELSE 0

(* A run's own state ends with it.                                            *)
CleanSlate ==
    /\ loaded' = [t \in Holdings |-> Unwritten] /\ data' = {} /\ ranked' = {}
    /\ blocks' = NoBlocks /\ failures' = FALSE /\ mailed' = NoLines

-----------------------------------------------------------------------------
Publish ==
    /\ step = "idle"
    /\ \E k \in (Holdings \X Headlines) \ feed : feed' = feed \cup {k}
    /\ UNCHANGED <<date, run, step, mishaps, stored, loaded, data, ranked, blocks, failures, mailed>>

NextMail ==
    /\ step = "idle" /\ \E d \in MailDays : d > date
    /\ date' = Min({d \in MailDays : d > date})
    /\ UNCHANGED <<run, step, mishaps, feed, stored, loaded, data, ranked, blocks, failures, mailed>>

(* run_analysis starts from a clean slate; phase 1 fetches each holding and   *)
(* loads its view, where a busy database reads as no view.                   *)
Start ==
    /\ step = "idle" /\ run < MaxRuns
    /\ run' = run + 1 /\ step' = "rank"
    /\ \E down \in SUBSET Holdings, busy \in SUBSET Holdings :
          /\ Mishap(Cardinality(down) + Cardinality(busy))
          /\ data' = Holdings \ down
          /\ loaded' = [t \in Holdings |-> IF t \in busy \cup down THEN Unwritten ELSE views[t]]
          /\ failures' = (down # {})
          /\ spoiled' = spoiled \cup busy
    /\ blocks' = NoBlocks /\ ranked' = {} /\ mailed' = NoLines
    /\ UNCHANGED <<date, feed, views, suggested, doctor, sent, missed>>

Shown(row) == IF row = Unwritten THEN {} ELSE row.shown

(* One rerank of the headlines that no earlier block has carried.             *)
Rank ==
    /\ step = "rank" /\ step' = "views"
    /\ \E down \in BOOLEAN :
          /\ Mishap(If(down))
          /\ ranked' = IF down THEN {} ELSE {k \in feed : k[1] \in data /\ k[2] \notin Shown(loaded[k[1]])}
          /\ failures' = (failures \/ down)
    /\ UNCHANGED <<date, run, feed, stored, loaded, data, blocks, mailed>>

(* The last earnings date, on the day itself too, before anything is known.   *)
LastEarnings(t) == {d \in EarningsDays[t] : d <= date}

(* Why a view is rewritten: none yet, its age, a move of the price, earnings. *)
Refresh(t, moved) ==
    loaded[t] # Unwritten =>
        \/ moved
        \/ date - loaded[t].written >= MaxAge
        \/ \E d \in LastEarnings(t) : d > loaded[t].written

\* Only date's links are remembered.
RememberMutant(row, news) == [row EXCEPT !.shown = news]

(* The links a block has carried, date's before the older ones.              *)
Remember(row, news) == [row EXCEPT !.shown = news \cup @]

(* A worker's block: the view, written anew or reused, and its headlines,     *)
(* which are marked shown as the block is made.  A row is written twice; a     *)
(* write that fails costs the reuse, or the memory.                          *)
View(t) ==
    /\ step = "views" /\ blocks[t] = Unwritten
    /\ LET news == {k[2] : k \in {j \in ranked : j[1] = t}} IN
       \E moved \in BOOLEAN, busy \in BOOLEAN : \E silent \in IF t \in data /\ Refresh(t, moved) THEN BOOLEAN ELSE {FALSE} :
          /\ Mishap(If(silent) + If(busy))
          /\ LET fresh == Refresh(t, moved)
                 kept == IF views[t] = Unwritten THEN Unwritten ELSE Remember(views[t], news)
                 rewritten == Remember([written |-> date, shown |-> Shown(views[t])], news)
             IN IF t \notin data \/ silent
                THEN /\ ~busy /\ blocks' = [blocks EXCEPT ![t] = Placeholder] /\ failures' = TRUE
                     /\ UNCHANGED <<views, spoiled>>
                ELSE /\ blocks' = [blocks EXCEPT ![t] = [news |-> news, written |-> IF fresh THEN date ELSE loaded[t].written]]
                     /\ views' = IF busy THEN views ELSE [views EXCEPT ![t] = IF fresh THEN rewritten ELSE kept]
                     /\ spoiled' = IF busy THEN spoiled \cup {t} ELSE spoiled
                     /\ UNCHANGED failures
    /\ UNCHANGED <<date, run, step, feed, loaded, data, ranked, mailed, suggested, doctor, sent, missed>>

-----------------------------------------------------------------------------
(* Holdings names already flagged for a re-check or a loss sale.                  *)
Flagged(found) == found.thesis \cup found.drawdown \cup found.harvest

(* The checks, each isolated: one that fails finds nothing.                   *)
Hits(is, off) ==
    LET check(name, what) == IF name \in off THEN {} ELSE {t \in Holdings : what \in is[t]}
    IN [thesis |-> check("thesis", "broken"), drawdown |-> check("drawdown", "drawdown"),
        harvest |-> check("harvest", "loss"), over |-> check("sectors", "over"), dipped |-> check("add on", "dipped")]

AddOn(found) == found.dipped \ (Flagged(found) \cup found.over)
Sales(found) == found.thesis \cup found.drawdown \cup found.harvest

(* build_portfolio_health, which as a whole may fail too.                     *)
Advise ==
    /\ step = "views" /\ \A t \in Holdings : blocks[t] # Unwritten
    /\ step' = "record"
    /\ \/ /\ Mishap(1) /\ mailed' = NoLines
       \/ \E off \in {{}} \cup {{c} : c \in Checks}, is \in [Holdings -> Conditions] :
             /\ Mishap(Cardinality(off))
             /\ mailed' = [sell |-> Sales(Hits(is, off)), add |-> AddOn(Hits(is, off))]
    /\ UNCHANGED <<date, run, feed, stored, loaded, data, ranked, blocks, failures>>

\* A standing suggestion is kept once.
NewRowsMutant(lines) == {<<date, t>> : t \in {u \in lines : \A r \in suggested : r[2] # u}}

(* One row a day for each suggestion.                                         *)
NewRows(lines) == {<<date, t>> : t \in lines} \ suggested

(* The suggestions are stored before the mail is built, if they can be.       *)
RecordAdvice ==
    /\ step = "record" /\ step' = "health"
    /\ \E busy \in BOOLEAN :
          /\ Mishap(If(busy))
          /\ suggested' = IF busy THEN suggested ELSE suggested \cup NewRows(mailed.sell)
          /\ missed' = IF busy THEN missed \cup {<<run, "suggested">>} ELSE missed
    /\ UNCHANGED <<date, run, feed, views, doctor, sent, spoiled, loaded, data, ranked, blocks, failures, mailed>>

(* This run's problems replace the last run's.                                *)
Replaced(was, now) == now

RecordHealth ==
    /\ step = "health" /\ step' = "send"
    /\ \E busy \in BOOLEAN :
          /\ Mishap(If(busy))
          /\ doctor' = IF busy THEN doctor ELSE Replaced(doctor, failures)
          /\ missed' = IF busy THEN missed \cup {<<run, "health">>} ELSE missed
    /\ UNCHANGED <<date, run, feed, views, suggested, sent, spoiled, loaded, data, ranked, blocks, failures, mailed>>

Send ==
    /\ step = "send" /\ step' = "idle"
    /\ sent' = sent \cup {[run |-> run, day |-> date, blocks |-> blocks, sell |-> mailed.sell, add |-> mailed.add, short |-> failures]}
    /\ CleanSlate
    /\ UNCHANGED <<date, run, mishaps, feed, views, suggested, doctor, spoiled, missed>>

(* The process is killed, or a call nobody guards raises: the mail itself,    *)
(* the prices, the accounts' sync status.                                   *)
Die ==
    /\ step # "idle" /\ step' = "idle" /\ Mishap(1)
    /\ CleanSlate
    /\ UNCHANGED <<date, run, feed, stored>>

MailInit ==
    /\ date = Min(MailDays) /\ run = 0 /\ step = "idle" /\ mishaps = 0
    /\ feed = {} /\ views = [t \in Holdings |-> Unwritten] /\ loaded = [t \in Holdings |-> Unwritten]
    /\ data = {} /\ ranked = {} /\ blocks = NoBlocks /\ failures = FALSE /\ mailed = NoLines
    /\ suggested = {} /\ doctor = FALSE /\ sent = {} /\ spoiled = {} /\ missed = {}

MailNext ==
    \/ Publish \/ NextMail \/ Start \/ Rank \/ Advise \/ RecordAdvice \/ RecordHealth \/ Send \/ Die
    \/ \E t \in Holdings : View(t)

MailSpec == MailInit /\ [][MailNext]_mailVars

-----------------------------------------------------------------------------
(* No headline comes twice to the reader, whatever runs died or were repeated *)
(* in between, unless the database failed the stock's row.                  *)
ShownOnce ==
    \A m, n \in sent : \A t \in Holdings \ spoiled :
        m.run # n.run => m.blocks[t].news \cap n.blocks[t].news = {}

(* No mail proposes new money for a stock it proposes to sell, also when a     *)
(* check that would have flagged it failed.                                 *)
NoMixedAdvice == \A m \in sent : m.sell \cap m.add = {}

(* What the quarterly review grades is what was advised: each sale line of a  *)
(* mail is in the suggestions under its day, also for a run that was repeated. *)
LedgerKnowsTheMail ==
    \A m \in sent : <<m.run, "suggested">> \notin missed => \A t \in m.sell : <<m.day, t>> \in suggested

(* run_health: the doctor fails while the last mail fell short, and is content *)
(* again after one that did not.                                            *)
DoctorTellsTheLastMail ==
    \A m \in sent : step = "idle" /\ m.run = run /\ <<run, "health">> \notin missed => doctor = m.short

(* The records beside the mail tell what was in it: the suggestions its       *)
(* advice, and the doctor its failures (cli.portfolio.main).                 *)
RecordsTellTheMail == LedgerKnowsTheMail /\ DoctorTellsTheLastMail

(* A mail repeats no headline and does not contradict itself.                *)
MailReadsWell == ShownOnce /\ NoMixedAdvice

=============================================================================
