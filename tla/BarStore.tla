------------------------------- MODULE BarStore -------------------------------
(***************************************************************************)
(* Daily bars of one symbol: on disk between runs, in memory within one,      *)
(* topped up from Yahoo.  A dividend or a split rescales every earlier bar,  *)
(* so a stored history may only be extended while its adjustment holds.      *)
(* Readers of a process share its memory and wait for each other; processes  *)
(* share the file, which each reads, and later replaces, whole.              *)
(*                                                                         *)
(* A tick is a trading session or the time after its close.                  *)
(***************************************************************************)
EXTENDS Integers, FiniteSets, FiniteSetsExt

CONSTANTS
    Readers, Processes, ProcessOf,
    Batch,           \* readers that ask through daily_bars_many
    TICKER_CACHE_TTL, OVERLAP_DAYS, BARS_MIN_DAYS,
    StaleDays,       \* the sixty days of daily_bars_many
    LastTick, MaxAdjustments, MaxFailures,   \* bounds
    NoBars, None

ASSUME BarAssumption ==
    /\ ProcessOf \in [Readers -> Processes] /\ Batch \subseteq Readers
    /\ {TICKER_CACHE_TTL, OVERLAP_DAYS, BARS_MIN_DAYS, StaleDays, LastTick, MaxAdjustments, MaxFailures} \subseteq Nat
    /\ OVERLAP_DAYS > 0   \* a week

VARIABLES
    clock,
    adj,        \* adjustments so far
    splits,     \* days Yahoo shows a dividend or a split on
    editions,   \* all it published, for the promise
    file,       \* the symbol's Parquet file: [from, at, bars], or None
    bars,       \* _bars, by process: [from, at, bars], or None
    at,         \* where each reader is
    task,       \* its call: [start, from, stored, got, keep]
    given,      \* the last answer to anyone
    failed      \* processes with a failed download (kept for the properties)

barVars == <<clock, adj, splits, editions, file, bars, at, task, given, failed>>

Today == clock \div 2
Closed == clock % 2 = 1
InSession == ~Closed
LastFinalClose == IF Closed THEN clock ELSE clock - 1
Days == 0..(LastTick \div 2)
NoTask == [start |-> 0, from |-> 0, stored |-> None, got |-> NoBars, keep |-> 0]
First(f) == Min(DOMAIN f)
Earlier(a, b) == IF a < b THEN a ELSE b
AtLeastZero(n) == IF n < 0 THEN 0 ELSE n

-----------------------------------------------------------------------------
(* Yahoo.  A day's dividend or split shows on its bar; a restatement shows   *)
(* only in the closes.  Bars count as final half an hour after the close, so *)
(* a download is saved on the tick it was made.                            *)
Yahoo(from) == [d \in AtLeastZero(from)..Today |-> [adj |-> adj, final |-> d < Today \/ Closed]]
Edition == [day |-> Today, closed |-> Closed, adj |-> adj]

Passes ==
    /\ clock < LastTick /\ \A r \in Readers : at[r] # "save"
    /\ clock' = clock + 1
    /\ \/ adj' = adj /\ splits' = splits
       \/ adj < MaxAdjustments /\ ~InSession /\ adj' = adj + 1 /\ splits' = splits \cup {Today'}
       \/ adj < MaxAdjustments /\ adj' = adj + 1 /\ splits' = splits
    /\ editions' = editions \cup {Edition'}
    /\ UNCHANGED <<file, bars, at, task, given, failed>>

-----------------------------------------------------------------------------
(* bar_store                                                               *)
LastDay(f) == Max(DOMAIN f)
OverlapStart(f) == LastDay(f) - OVERLAP_DAYS

NeedsFullRefetch(stored, delta) ==
    \/ \E d \in DOMAIN delta : d > LastDay(stored) /\ d \in splits
    \/ \E d \in DOMAIN delta \cap DOMAIN stored : d < LastDay(stored) /\ delta[d] # stored[d]

\* Of a day that both have, the stored bar is kept.
ExtendMutant(stored, delta) ==
    [d \in DOMAIN stored \cup DOMAIN delta |-> IF d \in DOMAIN stored THEN stored[d] ELSE delta[d]]

Extend(stored, delta) ==
    [d \in {x \in DOMAIN stored : x < First(delta)} \cup DOMAIN delta |->
        IF d \in DOMAIN delta THEN delta[d] ELSE stored[d]]

IsCurrent(f) == \/ clock - f.at < TICKER_CACHE_TTL
                \/ ~InSession /\ f.at >= LastFinalClose
Trim(f, start) == [d \in {x \in DOMAIN f : x >= start} |-> f[d]]
Slice(f, start) == IF Trim(f, start) = [d \in {} |-> 0] THEN NoBars ELSE Trim(f, start)

-----------------------------------------------------------------------------
(* daily_bars: the lock of the symbol, then the process's memory.            *)
Fresh(p) == bars[p] # None /\ clock - bars[p].at < TICKER_CACHE_TTL

Syncing == {"load", "delta", "whole", "save"}
\* The lock is not taken.
LockedMutant(r) == FALSE

Locked(r) == \E s \in Readers \ Batch : ProcessOf[s] = ProcessOf[r] /\ at[s] \in Syncing

Give(r, f) ==
    /\ given' = f
    /\ at' = [at EXCEPT ![r] = "idle"]
    /\ task' = [task EXCEPT ![r] = NoTask]

InMemory(r, start) == Fresh(ProcessOf[r]) /\ bars[ProcessOf[r]].from <= start

Ask(r) ==
    /\ at[r] = "idle"
    /\ r \notin Batch => ~Locked(r)
    /\ \E start \in {0, Today} :
          IF r \notin Batch /\ InMemory(r, start)
          THEN Give(r, Slice(bars[ProcessOf[r]].bars, start))
          ELSE /\ task' = [task EXCEPT ![r] = [NoTask EXCEPT
                             !.start = start,
                             !.from = IF r \in Batch THEN start ELSE AtLeastZero(Earlier(start, Today - BARS_MIN_DAYS))]]
               /\ at' = [at EXCEPT ![r] = "load"]
               /\ UNCHANGED given
    /\ UNCHANGED <<clock, adj, splits, editions, file, bars, failed>>

(* What daily_bars returns goes into the process's memory, as a history from *)
(* the day that was asked for, also when it is the stored one.              *)
Return(r, f) ==
    /\ bars' = IF r \in Batch THEN bars
               ELSE [bars EXCEPT ![ProcessOf[r]] = [from |-> task[r].from, at |-> clock, bars |-> f]]
    /\ Give(r, Slice(f, task[r].start))
ReturnNothing(r) == Give(r, NoBars) /\ UNCHANGED bars

Usable(r) == file # None /\ file.from <= task[r].from

(* _synced_bars, and the same rules in daily_bars_many.                      *)
Load(r) ==
    /\ at[r] = "load"
    /\ IF Usable(r) /\ IsCurrent(file) THEN Return(r, Trim(file.bars, task[r].from))
       ELSE /\ task' = [task EXCEPT ![r].stored = file, ![r].keep = task[r].from]
            /\ at' = [at EXCEPT ![r] =
                         IF Usable(r) /\ (r \in Batch => OverlapStart(file.bars) >= Today - StaleDays)
                         THEN "delta" ELSE "whole"]
            /\ UNCHANGED <<bars, given>>
    /\ UNCHANGED <<clock, adj, splits, editions, file, failed>>

Lost(r) ==
    /\ Cardinality(failed) < MaxFailures \/ ProcessOf[r] \in failed
    /\ failed' = failed \cup {ProcessOf[r]}

(* The days since the last stored bar, and a few before it.                  *)
Delta(r) ==
    LET stored == task[r].stored
        delta == Yahoo(OverlapStart(stored.bars))
    IN /\ at[r] = "delta"
       /\ \/ /\ IF NeedsFullRefetch(stored.bars, delta)
                THEN at' = [at EXCEPT ![r] = "whole"] /\ UNCHANGED task
                ELSE /\ task' = [task EXCEPT ![r].got = Extend(stored.bars, delta), ![r].keep = stored.from]
                     /\ at' = [at EXCEPT ![r] = "save"]
             /\ UNCHANGED <<bars, given, failed>>
          \/ Lost(r) /\ Return(r, Trim(stored.bars, task[r].from))
       /\ UNCHANGED <<clock, adj, splits, editions, file>>

\* A full download asks for what the caller wants and no more.
CoverageMutant(r) == task[r].from

Coverage(r) ==
    LET stored == task[r].stored
    IN IF stored # None /\ stored.from < task[r].from THEN stored.from ELSE task[r].from

(* The history from the day asked for, and as far back as it was stored.     *)
(* daily_bars falls back on a stored history that is too short,              *)
(* daily_bars_many does not.                                               *)
Whole(r) ==
    /\ at[r] = "whole"
    /\ \/ /\ task' = [task EXCEPT ![r].got = Yahoo(Coverage(r)), ![r].keep = Coverage(r)]
          /\ at' = [at EXCEPT ![r] = "save"]
          /\ UNCHANGED <<bars, given, failed>>
       \/ /\ Lost(r)
          /\ IF task[r].stored # None /\ (r \in Batch => task[r].stored.from <= task[r].from)
             THEN Return(r, Trim(task[r].stored.bars, task[r].from)) ELSE ReturnNothing(r)
    /\ UNCHANGED <<clock, adj, splits, editions, file>>

Save(r) ==
    /\ at[r] = "save"
    /\ file' = [from |-> task[r].keep, at |-> clock, bars |-> task[r].got]
    /\ Return(r, Trim(task[r].got, task[r].from))
    /\ UNCHANGED <<clock, adj, splits, editions, failed>>

-----------------------------------------------------------------------------
BarInit ==
    /\ clock = 0 /\ adj = 0 /\ splits = {} /\ editions = {Edition}
    /\ file = None /\ bars = [p \in Processes |-> None]
    /\ at = [r \in Readers |-> "idle"] /\ task = [r \in Readers |-> NoTask]
    /\ given = NoBars /\ failed = {}

BarNext == Passes \/ \E r \in Readers : Ask(r) \/ Load(r) \/ Delta(r) \/ Whole(r) \/ Save(r)
BarSpec == BarInit /\ [][BarNext]_barVars

-----------------------------------------------------------------------------
Service == INSTANCE BarService WITH NoBars <- NoBars, editions <- editions, given <- given

(* Every answer is a stretch of one edition: no reader ever sees bars of two  *)
(* adjustments in one history, or a day's half-traded bar inside it, however *)
(* the file was topped up and whoever wrote it (bar_store's first lines).    *)
IsOneEdition == Service!ServiceSpec

(* A history goes back to the day that was asked for, unless a download of   *)
(* that process failed and a stored one had to do.                          *)
AskedIsCovered ==
    [][\A r \in Readers :
          at[r] # "idle" /\ at'[r] = "idle" /\ given' # NoBars /\ ProcessOf[r] \notin failed' =>
              First(given') = task[r].start]_barVars
ServedIsCovered ==
    \A p \in Processes : bars[p] # None /\ p \notin failed => First(bars[p].bars) <= bars[p].from

(* Two steps of a run that ask for the same bars download them once: no       *)
(* reader downloads what its process has in memory, as fresh and as far back.*)
OneDownloadARun ==
    \A r \in Readers \ Batch : at[r] \in {"delta", "whole"} => ~InMemory(r, task[r].from)

(* A file goes no less far back than it did, unless another reader of it had *)
(* not seen it when it began.                                              *)
FileKeepsItsReach ==
    [][\A r \in Readers :
          at[r] = "save" /\ file' # file /\ file # None /\ at'[r] = "idle" /\ task[r].stored = file
              => file'.from <= file.from]_barVars

(* A long history is not lost to a short request, in memory or on disk, and   *)
(* a run pays for its bars once (yf_gateway, _bars_for).                     *)
BarsServeTheRun == []OneDownloadARun /\ AskedIsCovered /\ FileKeepsItsReach
=============================================================================
