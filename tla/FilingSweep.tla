------------------------------ MODULE FilingSweep ------------------------------
(***************************************************************************)
(* cli/filings.run: the weekly read of the newest 10-Q/10-K of every stock *)
(* into the filing_facts table, over a pool of workers, until the daily    *)
(* cap refuses a call.                                                     *)
(*                                                                         *)
(* Tier A is read by the reader model.  Tier B is read by the bulk model   *)
(* and read again by the reader when the bulk read is flagged, empty or    *)
(* fails, or when the company filed a drop in income.  Which calls the cap *)
(* refuses is OpenRouterCap's business: here any call may be refused.      *)
(***************************************************************************)
EXTENDS Integers, FiniteSets, FiniteSetsExt

CONSTANTS
    Tickers,
    Issuer,         \* the company of a ticker: share classes file together
    MaxFilings,     \* filings each company makes in the model
    Workers,        \* _READ_WORKERS
    Keep,           \* KEEP: rows kept for each ticker
    MaxSweeps,      \* runs of the command
    Modes           \* of "weekly", "force" and "recheck", what a run may be

Issuers == {Issuer[t] : t \in Tickers}
Filings == Issuers \X (1..MaxFilings)

ASSUME CountsAssumption == {MaxFilings, Workers, Keep, MaxSweeps} \subseteq Nat \ {0}
\* KEEP's numbers: the two filings a sweep may read of a stock both stay.
ASSUME KeepAssumption == Keep >= 2
ASSUME ModesAssumption == Modes \subseteq {"weekly", "force", "recheck"}

\* What a row of filing_facts says: who read it.  "flagged" is a bulk read
\* with flag reasons: a serious event, an unusable reply, an income drop.
NoRow == [ticker |-> "none", read |-> "none"]
Reads == {"bulk", "flagged", "reader"}
ASSUME NameAssumption == NoRow.ticker \notin Tickers

VARIABLES
    published,  \* the number of each company's newest filing
    table,      \* filing_facts, by filing
    phase,      \* "idle" between sweeps, "reading", "end" after the last read
    sweeps,     \* sweeps started
    mode,       \* the command's flags in this sweep
    tiers,      \* the sweep's tickers and their tiers
    todo,       \* items the sweep set out to read
    queue,      \* items not yet with a worker
    running,    \* items with a worker, and how far it is
    failed,     \* items whose read raised
    stopped     \* the cap has refused a call and the main loop knows

vars == <<published, table, phase, sweeps, mode, tiers, todo, queue, running, failed, stopped>>

Item == [ticker : Tickers, tier : {"A", "B"}, filing : Filings,
         previous : BOOLEAN, stored : BOOLEAN]
Work == [item : Item, stage : {"bulk", "escalated", "reader", "read", "error", "refused"},
         kept : BOOLEAN, read : Reads]

TypeOK ==
    /\ published \in [Issuers -> 1..MaxFilings]
    /\ \A f \in Filings : table[f] = NoRow \/ (table[f].ticker \in Tickers /\ table[f].read \in Reads)
    /\ phase \in {"idle", "reading", "end"}
    /\ sweeps \in 0..MaxSweeps /\ mode \in {"weekly"} \cup Modes
    /\ tiers \in [Tickers -> {"A", "B", "none"}]
    /\ todo \subseteq Item /\ queue \subseteq Item /\ failed \subseteq Item
    /\ running \subseteq Work /\ Cardinality(running) <= Workers
    /\ stopped \in BOOLEAN

Init ==
    /\ published = [i \in Issuers |-> 1]
    /\ table = [f \in Filings |-> NoRow]
    /\ phase = "idle" /\ sweeps = 0 /\ mode = "weekly"
    /\ tiers = [t \in Tickers |-> "none"]
    /\ todo = {} /\ queue = {} /\ running = {} /\ failed = {}
    /\ stopped = FALSE

-----------------------------------------------------------------------------
Newest(t) == <<Issuer[t], published[Issuer[t]]>>

(* EDGAR: a company files.                                                 *)
File(i) ==
    /\ phase = "idle" /\ published[i] < MaxFilings
    /\ published' = [published EXCEPT ![i] = @ + 1]
    /\ UNCHANGED <<table, phase, sweeps, mode, tiers, todo, queue, running, failed, stopped>>

\* _stored: with --force nothing counts as read.
Have(flag, f) == IF flag = "force" THEN "none" ELSE table[f].read

\* A stored filing is read again only for a tier-A stock it was not read by
\* the reader for.
IsDue(flag, ts, t) ==
    LET have == Have(flag, Newest(t)) IN
    have = "none" \/ (ts[t] = "A" /\ have # "reader")

\* Of the tickers that share a document, the first in tier order brings it.
Brings(flag, ts, readable, t) ==
    /\ t \in readable /\ IsDue(flag, ts, t)
    /\ \A u \in readable :
          Issuer[u] = Issuer[t] /\ IsDue(flag, ts, u) /\ ts[u] = "A" => ts[t] = "A"

\* One ticker for each document that is due.
Bringers(flag, ts, readable) ==
    LET all == {t \in Tickers : Brings(flag, ts, readable, t)} IN
    {S \in SUBSET all : /\ \A t \in all : \E u \in S : Issuer[u] = Issuer[t]
                       /\ \A t, u \in S : Issuer[t] = Issuer[u] => t = u}

KnownTickers == {table[f].ticker : f \in {g \in Filings : table[g] # NoRow}}

AsItem(ts, t, f, prev, old) ==
    [ticker |-> t, tier |-> ts[t], filing |-> f, previous |-> prev, stored |-> old]

\* A stock new to the table also brings the filing before, if it has one
\* that cuts cleanly.
PreviousOf(flag, ts, bringers) ==
    {AsItem(ts, t, <<Issuer[t], published[Issuer[t]] - 1>>, TRUE, FALSE) :
        t \in {u \in bringers : /\ u \notin KnownTickers
                                /\ published[Issuer[u]] > 1
                                /\ Have(flag, <<Issuer[u], published[Issuer[u]] - 1>>) = "none"}}

\* --recheck-drops: the stored bulk reads among the up-to-date ones.
BulkStored(flag, ts, readable) ==
    {AsItem(ts, t, Newest(t), FALSE, TRUE) :
        t \in {u \in readable : /\ flag = "recheck" /\ ~IsDue(flag, ts, u)
                                /\ Have(flag, Newest(u)) \in {"bulk", "flagged"}}}

\* What is to be read is settled before any worker starts.
SetOut(flag, ts, readable, items) ==
    /\ todo' = items /\ queue' = todo'
    /\ tiers' = [t \in Tickers |-> IF t \in readable THEN ts[t] ELSE "none"]
    /\ phase' = "reading" /\ sweeps' = sweeps + 1 /\ mode' = flag
    /\ failed' = {} /\ stopped' = FALSE
    /\ UNCHANGED <<published, table, running>>

(* The sweep picks its tiers and prepares the newest filings; some cannot   *)
(* be fetched or cut.                                                      *)
Start ==
    /\ phase = "idle" /\ sweeps < MaxSweeps
    /\ \E flag \in Modes, ts \in [Tickers -> {"A", "B", "none"}] :
       \E readable \in SUBSET {t \in Tickers : ts[t] # "none"} :
       \E bringers \in Bringers(flag, ts, readable) :
       \E previous \in SUBSET PreviousOf(flag, ts, bringers) :
       \E dropped \in SUBSET BulkStored(flag, ts, readable) :
           SetOut(flag, ts, readable,
                  {AsItem(ts, t, Newest(t), FALSE, FALSE) : t \in bringers} \cup previous \cup dropped)

\* The queue's order: tier A before tier B, then the previous filings, then
\* the rechecked ones.
Rank(x) == IF x.stored THEN 4 ELSE IF x.previous THEN 3 ELSE IF x.tier = "A" THEN 1 ELSE 2

(* The main loop hands an item to a free worker, unless it has seen the    *)
(* cap.  Tier A and rechecked reads start on the reader model.             *)
Submit(x) ==
    /\ phase = "reading" /\ ~stopped
    /\ x \in queue /\ \A y \in queue : Rank(x) <= Rank(y)
    /\ Cardinality(running) < Workers
    /\ queue' = queue \ {x}
    /\ running' = running \cup
          {[item |-> x, kept |-> FALSE, read |-> "reader",
            stage |-> IF x.tier = "A" \/ x.stored THEN "reader" ELSE "bulk"]}
    /\ UNCHANGED <<published, table, phase, sweeps, mode, tiers, todo, failed, stopped>>

Advance(w, stage, kept, read) ==
    /\ running' = (running \ {w}) \cup
                     {[w EXCEPT !.stage = stage, !.kept = kept, !.read = read]}
    /\ UNCHANGED <<published, table, phase, sweeps, mode, tiers, todo, queue, failed, stopped>>

(* read_tiered's bulk read: it stands when clean; a flagged one, and a      *)
(* clean one the company's filed figures contradict, goes on with what was *)
(* read; a failed one goes on with nothing.                                *)
BulkRead(w) ==
    /\ w \in running /\ w.stage = "bulk"
    /\ \/ Advance(w, "read", FALSE, "bulk")
       \/ Advance(w, "escalated", TRUE, "flagged")
       \/ Advance(w, "escalated", FALSE, "reader")
       \/ Advance(w, "refused", FALSE, "reader")

(* The reader model's turn.  An escalated read the cap refuses falls back  *)
(* on the bulk read, where there is one.                                   *)
ReaderRead(w) ==
    /\ w \in running /\ w.stage \in {"reader", "escalated"}
    /\ \/ Advance(w, "read", FALSE, "reader")
       \/ Advance(w, "error", FALSE, "reader")
       \/ IF w.kept THEN Advance(w, "read", TRUE, "flagged")
                    ELSE Advance(w, "refused", FALSE, "reader")

NewerMutant(g, f) == g[2] < f[2]

Newer(g, f) == g[2] > f[2]

\* store(): the row is merged, then the ticker's rows past the newest Keep
\* are deleted.
Stored(w) ==
    LET x == w.item
        merged == [table EXCEPT ![x.filing] = [ticker |-> x.ticker, read |-> w.read]]
        newer(f) == {g \in Filings : merged[g].ticker = x.ticker /\ Newer(g, f)}
    IN [f \in Filings |->
           IF merged[f].ticker = x.ticker /\ Cardinality(newer(f)) >= Keep
           THEN NoRow ELSE merged[f]]

\* A refused item is stored with what the bulk model said of it so far.
CollectMutant(w) ==
    /\ w \in running /\ w.stage \in {"read", "error", "refused"}
    /\ running' = running \ {w}
    /\ table' = CASE w.stage = "error" -> table [] w.stage = "read" -> Stored(w)
                  [] w.stage = "refused" -> Stored([w EXCEPT !.read = "bulk"])
    /\ failed' = IF w.stage = "error" THEN failed \cup {w.item} ELSE failed
    /\ queue' = IF w.stage = "refused" THEN queue \cup {w.item} ELSE queue
    /\ stopped' = (stopped \/ w.stage = "refused")
    /\ UNCHANGED <<published, phase, sweeps, mode, tiers, todo>>

(* The main loop takes a finished future: a read is stored, an error is    *)
(* noted, a refused item goes back to the queue and no more are handed out. *)
Collect(w) ==
    /\ w \in running /\ w.stage \in {"read", "error", "refused"}
    /\ running' = running \ {w}
    /\ table' = IF w.stage = "read" THEN Stored(w) ELSE table
    /\ failed' = IF w.stage = "error" THEN failed \cup {w.item} ELSE failed
    /\ queue' = IF w.stage = "refused" THEN queue \cup {w.item} ELSE queue
    /\ stopped' = (stopped \/ w.stage = "refused")
    /\ UNCHANGED <<published, phase, sweeps, mode, tiers, todo>>

DrainedMutant ==
    /\ phase = "reading"
    /\ running = {} /\ queue = {}
    /\ phase' = "end"
    /\ UNCHANGED <<published, table, sweeps, mode, tiers, todo, queue, running, failed, stopped>>

\* while queue or running: left when all is read, or stopped and drained.
Drained ==
    /\ phase = "reading"
    /\ running = {} /\ (queue = {} \/ stopped)
    /\ phase' = "end"
    /\ UNCHANGED <<published, table, sweeps, mode, tiers, todo, queue, running, failed, stopped>>

Exit ==
    /\ phase = "end"
    /\ phase' = "idle" /\ mode' = "weekly"
    /\ tiers' = [t \in Tickers |-> "none"]
    /\ todo' = {} /\ queue' = {} /\ failed' = {} /\ stopped' = FALSE
    /\ UNCHANGED <<published, table, sweeps, running>>

Reading ==
    \/ \E x \in queue : Submit(x)
    \/ \E w \in running : BulkRead(w) \/ ReaderRead(w) \/ Collect(w)
    \/ Drained

Next ==
    \/ \E i \in Issuers : File(i)
    \/ Start
    \/ Reading
    \/ Exit

\* The pool's workers and the main loop run on.
Spec == Init /\ [][Next]_vars /\ WF_vars(Reading)

-----------------------------------------------------------------------------
InHand == {w.item : w \in running}

(* No item falls between the queue, the pool and the table: one that is in  *)
(* neither has failed or has its row, and a tier-A or rechecked one has it  *)
(* from the reader, whatever the order of refusals and late answers.       *)
EveryItemIsAccountedFor ==
    \A x \in todo \ (queue \cup InHand \cup failed) :
        /\ table[x.filing] # NoRow
        /\ x.tier = "A" \/ x.stored => table[x.filing].read = "reader"

(* A sweep the cap did not stop leaves every tier-A stock's newest filing   *)
(* read by the reader, also a promoted stock's and one that shares its     *)
(* document with another class, unless that read failed.                   *)
TierAIsOnTheReader ==
    phase = "end" /\ ~stopped =>
        \A t \in Tickers :
            tiers[t] = "A" => \/ table[Newest(t)].read = "reader"
                              \/ Newest(t) \in {x.filing : x \in failed}

(* Share classes file one document: but for --recheck-drops it is paid for *)
(* once a sweep, whichever of their tickers brings it.                     *)
OneReadPerFiling ==
    \A x, y \in todo : x.filing = y.filing => x = y \/ mode = "recheck"

(* What the cap left over is still due when the next run with the same     *)
(* flags looks, unless the reader has the document already: nothing        *)
(* half-read counts as up to date.                                         *)
NewestWaitsForNextRun ==
    phase = "end" =>
        \A x \in queue : \/ x.previous \/ x.stored
                         \/ table[x.filing].read = "reader"
                         \/ IsDue(mode, tiers, x.ticker)

(* A sweep in which reads finish, fail and are refused in any order loses no *)
(* item, pays for no document twice, ends with tier A on the reader, and     *)
(* leaves due what it left over (main's loop and _plan).                    *)
SweepIsSound ==
    EveryItemIsAccountedFor /\ TierAIsOnTheReader /\ OneReadPerFiling /\ NewestWaitsForNextRun

(* Storing a read costs a ticker neither the read itself nor another of     *)
(* its newest Keep rows, in whatever order the newest and the previous      *)
(* filing are read.                                                        *)
RetentionKeepsNewest ==
    [][\A f \in Filings, t \in Tickers :
         LET collected == {w \in running \ running' : w.stage = "read"}
             had == table[f].ticker = t \/ \E w \in collected : w.item.filing = f /\ w.item.ticker = t
         IN had /\ table'[f] = NoRow =>
                Cardinality({g \in Filings : g[2] > f[2] /\ table'[g].ticker = t}) >= Keep]_vars

(* Without --force a filing the reader has read is never read over by the  *)
(* bulk model: promotion, escalation and demotion only ever go up.         *)
NeverDowngraded ==
    [][mode # "force" =>
         \A f \in Filings :
            table[f].read = "reader" /\ table'[f] # NoRow => table'[f].read = "reader"]_vars

(* Whatever a sweep stores, a stock's record only gets better: no newer row  *)
(* and no reader's row gives way to an older or a cheaper one (_store).      *)
RecordsOnlyImprove == RetentionKeepsNewest /\ NeverDowngraded

(* Refusals, failures and escalations never leave the main loop waiting.   *)
SweepEnds == phase = "reading" ~> phase = "end"

(* The module docstring, of a stock read for the first time ("the one      *)
(* before it too") and of the cap ("the rest waits for the next run"): a   *)
(* previous filing the cap left over is read by the next run.              *)
PreviousWaitsForNextRun ==
    phase = "end" => \A x \in queue : x.previous => x.ticker \notin KnownTickers
================================================================================
