---------------------------- MODULE ActivityLedger ----------------------------
(***************************************************************************)
(* The brokerage activity ledger: what the broker posts, kept once and       *)
(* topped up by whoever reads it first in each process.  Activities carry   *)
(* the day they were traded on and are posted that day or later; the broker *)
(* hands them out newest first, page by page, and a page may fail.          *)
(*                                                                         *)
(* Connecting a second account of the same name gives the first a suffix,   *)
(* and rows are kept under the label of the day.                            *)
(***************************************************************************)
EXTENDS Integers, FiniteSets, FiniteSetsExt

CONSTANTS
    Activities, BrokerAccounts, Threads, Processes,
    AccountOf,     \* [Activities -> BrokerAccounts]
    DayOf,         \* trade day of an activity
    Identified,    \* activities the broker gives an id
    ProcessOf,     \* [Threads -> Processes]
    OverlapDays,
    LastSyncDay        \* bound: days that pass

Never == LastSyncDay + 1
Nobody == "nobody"

ASSUME LedgerAssumption ==
    /\ AccountOf \in [Activities -> BrokerAccounts] /\ ProcessOf \in [Threads -> Processes]
    /\ DayOf \in [Activities -> 0..LastSyncDay] /\ Identified \subseteq Activities
    /\ OverlapDays \in Nat /\ LastSyncDay \in Nat
    /\ Nobody \notin Threads

VARIABLES
    today,
    posted,    \* day the broker shows an activity from, or Never
    renamed,   \* accounts whose label has grown a suffix
    rows,      \* table brokerage_activities: [activity, suffixed]
    synced,    \* _synced, by process
    lock,      \* _sync_lock, by process
    at,        \* where each thread is in ledger_activities; it reads the table last, outside the lock
    task,      \* by process: [since, labels, left, rows] of the sync under way
    cut,       \* process and account of each fetch that lost pages (kept for the properties)
    shown      \* by process: what the broker had posted when its sync began (same)

ledgerVars == <<today, posted, renamed, rows, synced, lock, at, task, cut, shown>>

NoTask == [since |-> [a \in BrokerAccounts |-> 0], suffixed |-> {}, left |-> {}, rows |-> {}, stored |-> {}]
Posted == {x \in Activities : posted[x] <= today}

-----------------------------------------------------------------------------
(* The world: days pass, the broker posts, an account is renamed.           *)
NextDay == today < LastSyncDay /\ today' = today + 1
           /\ UNCHANGED <<posted, renamed, rows, synced, lock, at, task, cut, shown>>
Post(x) == /\ posted[x] = Never /\ DayOf[x] <= today
           /\ posted' = [posted EXCEPT ![x] = today]
           /\ UNCHANGED <<today, renamed, rows, synced, lock, at, task, cut, shown>>
Rename(a) == /\ a \notin renamed /\ renamed' = renamed \cup {a}
             /\ UNCHANGED <<today, posted, rows, synced, lock, at, task, cut, shown>>

-----------------------------------------------------------------------------
(* sync_activities.  An account with rows under its label resumes a little  *)
(* before the newest of them, any other from the first-sync horizon.        *)
RowsOf(a, suffixed) == {r \in rows : AccountOf[r.activity] = a /\ r.suffixed = (a \in suffixed)}

\* Resumes at the newest row, without the overlap.
SinceMutant(a) ==
    LET mine == RowsOf(a, renamed) IN IF mine = {} THEN 0 ELSE Max({DayOf[r.activity] : r \in mine})

Since(a) ==
    LET mine == RowsOf(a, renamed)
    IN IF mine = {} THEN 0 ELSE Max({DayOf[r.activity] : r \in mine}) - OverlapDays

Enter(t) ==
    /\ at[t] = "start" /\ lock[ProcessOf[t]] = Nobody
    /\ at' = [at EXCEPT ![t] = IF synced[ProcessOf[t]] THEN "read" ELSE "begin"]
    /\ lock' = [lock EXCEPT ![ProcessOf[t]] = IF synced[ProcessOf[t]] THEN Nobody ELSE t]
    /\ UNCHANGED <<today, posted, renamed, rows, synced, task, cut, shown>>

(* What is stored is read, then the accounts are listed; without a broker    *)
(* there are none.                                                         *)
Begin(t) ==
    /\ at[t] = "begin"
    /\ \E accounts \in {BrokerAccounts, {}} :
          task' = [task EXCEPT ![ProcessOf[t]] =
                      [since |-> [a \in BrokerAccounts |-> Since(a)], suffixed |-> renamed,
                       left |-> accounts, rows |-> {}, stored |-> {}]]
          /\ shown' = [shown EXCEPT ![ProcessOf[t]] = IF accounts = {} THEN {} ELSE Posted]
    /\ at' = [at EXCEPT ![t] = "fetch"]
    /\ UNCHANGED <<today, posted, renamed, rows, synced, lock, cut>>

(* One account's pages.  A page that fails ends its account, and what came   *)
(* before it, the newest, is kept.                                         *)
Pages(a, since) == {x \in Posted : AccountOf[x] = a /\ DayOf[x] >= since}
FetchAccount(t) ==
    LET p == ProcessOf[t] IN
    /\ at[t] = "fetch"
    /\ \E a \in task[p].left :
          LET all == Pages(a, task[p].since[a]) IN
          \E got \in SUBSET all :
             /\ \A x \in got, y \in all \ got : DayOf[x] >= DayOf[y]
             /\ cut' = IF got = all THEN cut ELSE cut \cup {<<p, a>>}
             /\ task' = [task EXCEPT ![p].left = @ \ {a},
                           ![p].rows = @ \cup {[activity |-> x, suffixed |-> a \in task[p].suffixed] : x \in got}]
    /\ UNCHANGED <<today, posted, renamed, rows, synced, lock, at, shown>>

-----------------------------------------------------------------------------
(* store_activities: one transaction that skips the keys it finds.  The key *)
(* is the broker's id, else a digest of the label and the row.              *)
SameKey(r, s) == r.activity = s.activity /\ (r.activity \in Identified \/ r.suffixed = s.suffixed)

Found(p) == {r \in task[p].rows : \E s \in rows : SameKey(r, s)}
LookUp(t) ==
    LET p == ProcessOf[t] IN
    /\ at[t] = "fetch" /\ task[p].left = {}
    /\ task' = [task EXCEPT ![p] = [NoTask EXCEPT !.rows = task[p].rows \ Found(p), !.stored = rows]]
    /\ at' = [at EXCEPT ![t] = "store"]
    /\ UNCHANGED <<today, posted, renamed, rows, synced, lock, cut, shown>>

\* The lock stays with the thread.
SyncedMutant(t) ==
    /\ synced' = [synced EXCEPT ![ProcessOf[t]] = TRUE]
    /\ at' = [at EXCEPT ![t] = "read"] /\ UNCHANGED lock

Synced(t) ==
    /\ synced' = [synced EXCEPT ![ProcessOf[t]] = TRUE]
    /\ lock' = [lock EXCEPT ![ProcessOf[t]] = Nobody]
    /\ at' = [at EXCEPT ![t] = "read"]
Commit(t) ==
    LET p == ProcessOf[t] IN
    /\ at[t] = "store"
    /\ \A r \in task[p].rows, s \in rows : ~SameKey(r, s)
    /\ rows' = rows \cup task[p].rows
    /\ task' = [task EXCEPT ![p] = NoTask]
    /\ Synced(t)
    /\ UNCHANGED <<today, posted, renamed, cut, shown>>

(* Another process stored one of the keys first, or the database is locked: *)
(* the whole batch is rolled back and the stored history serves.            *)
Refuse(t) ==
    /\ at[t] = "store"
    /\ task[ProcessOf[t]].stored # rows
    /\ task' = [task EXCEPT ![ProcessOf[t]] = NoTask]
    /\ shown' = [shown EXCEPT ![ProcessOf[t]] = {}]
    /\ Synced(t)
    /\ UNCHANGED <<today, posted, renamed, rows, cut>>

-----------------------------------------------------------------------------
LedgerInit ==
    /\ today = 0 /\ posted = [x \in Activities |-> Never] /\ renamed = {} /\ rows = {}
    /\ synced = [p \in Processes |-> FALSE] /\ lock = [p \in Processes |-> Nobody]
    /\ at = [t \in Threads |-> "start"] /\ task = [p \in Processes |-> NoTask]
    /\ cut = {} /\ shown = [p \in Processes |-> {}]

ThreadStep(t) == Enter(t) \/ Begin(t) \/ FetchAccount(t) \/ LookUp(t) \/ Commit(t) \/ Refuse(t)
LedgerNext ==
    \/ NextDay \/ \E x \in Activities : Post(x)
    \/ \E a \in BrokerAccounts : Rename(a)
    \/ \E t \in Threads : ThreadStep(t)
LedgerFairness == \A t \in Threads : WF_ledgerVars(ThreadStep(t))
LedgerSpec == LedgerInit /\ [][LedgerNext]_ledgerVars /\ LedgerFairness

-----------------------------------------------------------------------------
LedgerRows == [activity : Activities, suffixed : BOOLEAN]

(* Type correctness of the ledger.                                         *)
LedgerTypeOK ==
    /\ today \in 0..LastSyncDay /\ posted \in [Activities -> 0..Never] /\ renamed \subseteq BrokerAccounts
    /\ rows \subseteq LedgerRows /\ synced \in [Processes -> BOOLEAN] /\ lock \in [Processes -> Threads \cup {Nobody}]
    /\ at \in [Threads -> {"start", "begin", "fetch", "store", "read"}]
    /\ \A p \in Processes : task[p].rows \subseteq LedgerRows /\ task[p].left \subseteq BrokerAccounts
    /\ cut \subseteq Processes \X BrokerAccounts /\ shown \in [Processes -> SUBSET Activities]

(* An activity is in the ledger once, whoever stored it and however often it *)
(* was fetched, unless it has no id and its account was renamed.            *)
OneRowAnActivity ==
    \A r, s \in rows :
        r.activity = s.activity /\ r # s => r.activity \notin Identified /\ AccountOf[r.activity] \in renamed

(* After a sync that went through, the ledger holds every activity that was  *)
(* posted when it began, at most OverlapDays late, of an account no page of  *)
(* which was ever lost.                                                    *)
Timely(x) == posted[x] <= DayOf[x] + OverlapDays
NothingIsMissed ==
    \A t \in Threads :
        at[t] = "read" =>
            \A x \in shown[ProcessOf[t]] :
                Timely(x) /\ (\A p \in Processes : <<p, AccountOf[x]>> \notin cut) => \E r \in rows : r.activity = x

(* At most one thread of a process is in a sync, and none once one is done.  *)
OneSyncAProcess ==
    \A t, u \in Threads :
        /\ at[t] \in {"begin", "fetch", "store"} =>
              /\ ~synced[ProcessOf[t]] /\ lock[ProcessOf[t]] = t
              /\ (at[u] \in {"begin", "fetch", "store"} /\ ProcessOf[u] = ProcessOf[t] => t = u)

(* Several threads and processes, failed pages and renamed accounts make of   *)
(* the ledger neither more nor less than what the broker posted              *)
(* (ledger_activities).                                                     *)
LedgerIsTheBrokers == OneRowAnActivity /\ NothingIsMissed /\ OneSyncAProcess

(* Whoever asks for the ledger gets it, with or without the broker.         *)
EveryReaderReads == \A t \in Threads : at[t] = "start" ~> at[t] = "read"

=============================================================================
