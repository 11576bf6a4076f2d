----------------------------- MODULE RecordsProofs -----------------------------
(***************************************************************************)
(* Proofs about records that outlive a run: the activity ledger            *)
(* (ActivityLedger), for any activities, accounts, threads, processes and  *)
(* overlap, whatever pages fail and accounts are renamed; what the mails    *)
(* said (WeeklyMail), for any holdings, headlines and mail days; and the   *)
(* harvest list (TradeBook), for any trades, prices and days.              *)
(*                                                                         *)
(* A sync resumes OverlapDays before the newest row it finds.  What it     *)
(* does not ask for again is stored: a row so much younger was fetched     *)
(* when everything timely of its account before it had been posted, so it  *)
(* was fetched with it, in one batch that is stored as a whole, or was     *)
(* older than what that sync asked for in turn.                            *)
(*                                                                         *)
(* A headline is told once because a run loads what earlier mails told     *)
(* before it writes, and writes back at least that.                        *)
(*                                                                         *)
(* A harvest list is clean because each trade has its row in the book, so   *)
(* that a purchase near the sale is one the list looked at, and because     *)
(* later ones wait for the day the list names.                             *)
(***************************************************************************)
EXTENDS ActivityLedger, TradeBook, WeeklyMail, FiniteSetTheorems, SequenceTheorems,
        WellFoundedInduction, TLAPS

-----------------------------------------------------------------------------
(* A set of natural numbers that is not empty has a least element.          *)
LEMMA LeastNumber ==
    ASSUME NEW S \in SUBSET Nat, S # {}
    PROVE  \E n \in S : \A m \in S : n <= m
<1> DEFINE R == OpToRel(<, Nat)
<1>1. IsWellFoundedOn(R, Nat)
  BY NatLessThanWellFounded, Zenon
<1> HIDE DEF R
<1>2. PICK n \in S : \A m \in S : ~(<<m, n>> \in R)
  BY <1>1, WFMin
<1>3. \A m \in S : ~(m < n)
  BY <1>2 DEF R, OpToRel
<1>4. QED BY <1>3

(* Max is in a set of integers that has a bound.                             *)
LEMMA MaxIsIn ==
    ASSUME NEW S \in SUBSET Int, S # {}, NEW b \in Int, \A x \in S : x <= b
    PROVE  Max(S) \in S
<1> DEFINE T == {k \in Nat : b - k \in S}
<1>1. T # {}
  <2>1. PICK x \in S : TRUE
    OBVIOUS
  <2>2. b - x \in Nat /\ b - (b - x) = x
    BY <2>1
  <2>3. QED BY <2>1, <2>2
<1>2. PICK k \in T : \A m \in T : k <= m
  BY <1>1, LeastNumber
<1>3. b - k \in S
  BY <1>2
<1>4. ASSUME NEW y \in S PROVE b - k >= y
  <2>1. b - y \in Nat /\ b - (b - y) = y
    OBVIOUS
  <2>2. b - y \in T
    BY <2>1
  <2>3. QED BY <1>2, <2>1, <2>2
<1>5. \E x \in S : \A y \in S : x >= y
  BY <1>3, <1>4
<1>6. QED BY <1>5 DEF Max

-----------------------------------------------------------------------------
(* The invariant.                                                           *)

Task == [since : [BrokerAccounts -> Int], suffixed : SUBSET BrokerAccounts, left : SUBSET BrokerAccounts,
         rows : SUBSET LedgerRows, stored : SUBSET LedgerRows]
Types == LedgerTypeOK /\ task \in [Processes -> Task]

\* A thread is in a sync.
Syncs(t) == at[t] \in {"begin", "fetch", "store"}
LocksOK ==
    /\ \A t \in Threads : Syncs(t) => lock[ProcessOf[t]] = t /\ ~synced[ProcessOf[t]]
    /\ \A t \in Threads : at[t] = "read" => synced[ProcessOf[t]]
    /\ \A t \in Threads : at[t] = "store" => task[ProcessOf[t]].left = {}

PostedOK == \A x \in Activities : posted[x] = Never \/ (DayOf[x] <= posted[x] /\ posted[x] <= today)

\* Rows are of what was posted, and under a label the account had.
RowsOK(R) == \A r \in R : posted[r.activity] # Never /\ (r.suffixed => AccountOf[r.activity] \in renamed)
LabelsOK ==
    /\ RowsOK(rows) /\ \A p \in Processes : RowsOK(task[p].rows)
    /\ \A p \in Processes : task[p].suffixed \subseteq renamed
    /\ \A p \in Processes : \A r, s \in task[p].rows : r.activity = s.activity => r.suffixed = s.suffixed
    /\ \A t \in Threads : at[t] = "fetch" =>
          \A r \in task[ProcessOf[t]].rows : r.suffixed = (AccountOf[r.activity] \in task[ProcessOf[t]].suffixed)

Has(R, x) == \E r \in R : r.activity = x
Whole(a) == \A q \in Processes : <<q, a>> \notin cut

\* x was there when y was posted, and nothing of their account was lost.
Before(x, y) ==
    /\ AccountOf[x] = AccountOf[y] /\ Whole(AccountOf[x])
    /\ posted[x] # Never /\ Timely(x) /\ DayOf[x] + OverlapDays < DayOf[y]

RowsClosed == \A r \in rows : \A x \in Activities : Before(x, r.activity) => Has(rows, x)
BatchesClosed ==
    \A p \in Processes : \A r \in task[p].rows : \A x \in Activities :
        Before(x, r.activity) => Has(rows, x) \/ Has(task[p].rows, x)
SinceOK ==
    \A t \in Threads : at[t] = "fetch" =>
        \A a \in BrokerAccounts :
            \/ task[ProcessOf[t]].since[a] = 0
            \/ \E r \in rows : AccountOf[r.activity] = a /\ task[ProcessOf[t]].since[a] = DayOf[r.activity] - OverlapDays

ShownOK ==
    /\ \A p \in Processes : \A x \in shown[p] : x \in Activities /\ posted[x] # Never
    /\ \A t \in Threads : at[t] \in {"fetch", "store"} =>
          \A x \in shown[ProcessOf[t]] :
              Timely(x) /\ Whole(AccountOf[x]) =>
                  \/ AccountOf[x] \in task[ProcessOf[t]].left
                  \/ Has(rows, x) \/ Has(task[ProcessOf[t]].rows, x)
    /\ \A p \in Processes : synced[p] =>
          \A x \in shown[p] : Timely(x) /\ Whole(AccountOf[x]) => Has(rows, x)

LedgerInv ==
    /\ Types /\ LocksOK /\ PostedOK /\ LabelsOK /\ OneRowAnActivity
    /\ RowsClosed /\ BatchesClosed /\ SinceOK /\ ShownOK

LEMMA Constants ==
    /\ OverlapDays \in Nat /\ LastSyncDay \in Nat /\ Never = LastSyncDay + 1 /\ Nobody \notin Threads
    /\ \A x \in Activities : DayOf[x] \in 0..LastSyncDay /\ AccountOf[x] \in BrokerAccounts
    /\ \A t \in Threads : ProcessOf[t] \in Processes
BY LedgerAssumption DEF Never

LEMMA NoTaskIsATask == NoTask \in Task
BY DEF NoTask, Task

LEMMA LedgerStart == LedgerInit => LedgerInv
<1> SUFFICES ASSUME LedgerInit PROVE LedgerInv
  OBVIOUS
<1>1. Types
  <2>1. task \in [Processes -> Task]
    BY NoTaskIsATask DEF LedgerInit
  <2>2. posted \in [Activities -> 0..Never] /\ today \in 0..LastSyncDay
    BY Constants DEF LedgerInit
  <2>3. \A p \in Processes : task[p].rows \subseteq LedgerRows /\ task[p].left \subseteq BrokerAccounts
    BY DEF LedgerInit, NoTask
  <2>4. QED BY <2>1, <2>2, <2>3 DEF LedgerInit, Types, LedgerTypeOK
<1>2. LocksOK
  BY DEF LedgerInit, LocksOK, Syncs
<1>3. PostedOK
  BY DEF LedgerInit, PostedOK
<1>4. LabelsOK
  BY DEF LedgerInit, LabelsOK, RowsOK, NoTask
<1>5. OneRowAnActivity /\ RowsClosed /\ BatchesClosed /\ SinceOK /\ ShownOK
  BY DEF LedgerInit, OneRowAnActivity, RowsClosed, BatchesClosed, SinceOK, ShownOK, NoTask
<1>6. QED BY <1>1, <1>2, <1>3, <1>4, <1>5 DEF LedgerInv

-----------------------------------------------------------------------------
(* The world moves on.                                                       *)

LEMMA InvNextDay == ASSUME LedgerInv, NextDay PROVE LedgerInv'
<1>1. /\ UNCHANGED <<posted, renamed, rows, synced, lock, at, task, cut, shown>>
      /\ today < LastSyncDay /\ today' = today + 1
  BY DEF NextDay
<1>2. today \in 0..LastSyncDay /\ today' \in 0..LastSyncDay /\ today <= today'
  BY <1>1, Constants DEF LedgerInv, Types, LedgerTypeOK
<1>3. Types'
  BY <1>1, <1>2 DEF LedgerInv, Types, LedgerTypeOK
<1>4. PostedOK'
  <2>1. ASSUME NEW x \in Activities PROVE posted[x] = Never \/ (DayOf[x] <= posted[x] /\ posted[x] <= today')
    BY <1>2, Constants DEF LedgerInv, PostedOK, Types, LedgerTypeOK
  <2>2. QED BY <1>1, <2>1 DEF PostedOK
<1>5. LocksOK' /\ LabelsOK' /\ OneRowAnActivity' /\ SinceOK'
  BY <1>1 DEF LedgerInv, LocksOK, Syncs, LabelsOK, RowsOK, OneRowAnActivity, SinceOK
<1>6. RowsClosed' /\ BatchesClosed' /\ ShownOK'
  BY <1>1 DEF LedgerInv, RowsClosed, BatchesClosed, ShownOK, Before, Whole, Timely, Has
<1>7. QED BY <1>3, <1>4, <1>5, <1>6 DEF LedgerInv

LEMMA InvRename == ASSUME LedgerInv, NEW a \in BrokerAccounts, Rename(a) PROVE LedgerInv'
<1>1. /\ UNCHANGED <<today, posted, rows, synced, lock, at, task, cut, shown>>
      /\ renamed' = renamed \cup {a}
  BY DEF Rename
<1>2. Types' /\ PostedOK' /\ LocksOK' /\ SinceOK'
  <2>1. Types'
    <3>1. renamed' \subseteq BrokerAccounts
      BY <1>1 DEF LedgerInv, Types, LedgerTypeOK
    <3>2. QED BY <1>1, <3>1 DEF LedgerInv, Types, LedgerTypeOK
  <2>2. PostedOK'
    BY <1>1 DEF LedgerInv, PostedOK
  <2>3. LocksOK'
    BY <1>1 DEF LedgerInv, LocksOK, Syncs
  <2>4. SinceOK'
    BY <1>1 DEF LedgerInv, SinceOK
  <2>5. QED BY <2>1, <2>2, <2>3, <2>4
<1>3. LabelsOK'
  BY <1>1 DEF LedgerInv, LabelsOK, RowsOK
<1>4. OneRowAnActivity'
  BY <1>1 DEF LedgerInv, OneRowAnActivity
<1>5. RowsClosed' /\ BatchesClosed' /\ ShownOK'
  BY <1>1 DEF LedgerInv, RowsClosed, BatchesClosed, ShownOK, Before, Whole, Timely, Has
<1>6. QED BY <1>2, <1>3, <1>4, <1>5 DEF LedgerInv

(* What is posted after something so much younger is posted late.             *)
LEMMA InvPost == ASSUME LedgerInv, NEW y \in Activities, Post(y) PROVE LedgerInv'
<1>1. /\ UNCHANGED <<today, renamed, rows, synced, lock, at, task, cut, shown>>
      /\ posted[y] = Never /\ DayOf[y] <= today /\ posted' = [posted EXCEPT ![y] = today]
  BY DEF Post
<1>2. today \in 0..LastSyncDay /\ posted \in [Activities -> 0..Never] /\ today # Never /\ today \in 0..Never
  BY Constants DEF LedgerInv, Types, LedgerTypeOK
<1>3. posted'[y] = today /\ \A x \in Activities : x # y => posted'[x] = posted[x]
  BY <1>1, <1>2
<1>4. Types'
  <2>1. posted' \in [Activities -> 0..Never]
    BY <1>1, <1>2
  <2>2. QED BY <1>1, <2>1 DEF LedgerInv, Types, LedgerTypeOK
<1>5. PostedOK'
  <2>1. ASSUME NEW x \in Activities PROVE posted'[x] = Never \/ (DayOf[x] <= posted'[x] /\ posted'[x] <= today)
    BY <1>1, <1>2, <1>3 DEF LedgerInv, PostedOK
  <2>2. QED BY <1>1, <2>1 DEF PostedOK
<1>6. rows \subseteq LedgerRows /\ \A p \in Processes : task[p].rows \subseteq LedgerRows
  BY DEF LedgerInv, Types, LedgerTypeOK
<1>7. ASSUME NEW R \in SUBSET LedgerRows, RowsOK(R) PROVE RowsOK(R)'
  <2>1. ASSUME NEW r \in R PROVE posted'[r.activity] # Never /\ (r.suffixed => AccountOf[r.activity] \in renamed)
    BY <1>2, <1>3, <1>7 DEF RowsOK, LedgerRows
  <2>2. QED BY <1>1, <2>1 DEF RowsOK
<1>8. LabelsOK'
  BY <1>1, <1>6, <1>7 DEF LedgerInv, LabelsOK
<1>9. LocksOK' /\ OneRowAnActivity' /\ SinceOK'
  BY <1>1 DEF LedgerInv, LocksOK, Syncs, OneRowAnActivity, SinceOK
<1>10. ASSUME NEW x \in Activities, NEW z \in Activities, posted[z] # Never, Before(x, z)' PROVE Before(x, z)
  <2>1. /\ AccountOf[x] = AccountOf[z] /\ Whole(AccountOf[x]) /\ posted'[x] # Never
        /\ posted'[x] <= DayOf[x] + OverlapDays /\ DayOf[x] + OverlapDays < DayOf[z]
    BY <1>1, <1>10 DEF Before, Whole, Timely
  <2>2. CASE x = y
    <3>1. DayOf[z] <= posted[z] /\ posted[z] <= today
      BY <1>10 DEF LedgerInv, PostedOK
    <3>2. today <= DayOf[x] + OverlapDays
      BY <1>3, <2>1, <2>2
    <3>3. DayOf[z] \in Nat /\ DayOf[x] \in Nat /\ OverlapDays \in Nat /\ posted[z] \in Nat /\ today \in Nat
      BY <1>2, Constants
    <3>4. QED BY <2>1, <3>1, <3>2, <3>3
  <2>3. CASE x # y
    BY <1>3, <2>1, <2>3 DEF Before, Timely
  <2>4. QED BY <2>2, <2>3
<1>11. RowsClosed'
  <2>1. ASSUME NEW r \in rows, NEW x \in Activities, Before(x, r.activity)' PROVE Has(rows, x)
    <3>1. r.activity \in Activities /\ posted[r.activity] # Never
      BY <1>6 DEF LedgerInv, LabelsOK, RowsOK, LedgerRows
    <3>2. Before(x, r.activity)
      BY <1>10, <2>1, <3>1
    <3>3. QED BY <3>2 DEF LedgerInv, RowsClosed
  <2>2. QED BY <1>1, <2>1 DEF RowsClosed, Has
<1>12. BatchesClosed'
  <2>1. ASSUME NEW p \in Processes, NEW r \in task[p].rows, NEW x \in Activities, Before(x, r.activity)'
        PROVE  Has(rows, x) \/ Has(task[p].rows, x)
    <3>1. r.activity \in Activities /\ posted[r.activity] # Never
      BY <1>6 DEF LedgerInv, LabelsOK, RowsOK, LedgerRows
    <3>2. Before(x, r.activity)
      BY <1>10, <2>1, <3>1
    <3>3. QED BY <3>2 DEF LedgerInv, BatchesClosed
  <2>2. QED BY <1>1, <2>1 DEF BatchesClosed, Has
<1>13. ShownOK'
  <2>1. ASSUME NEW p \in Processes, NEW x \in shown[p] PROVE posted'[x] = posted[x] /\ posted[x] # Never /\ x \in Activities
    BY <1>1, <1>3 DEF LedgerInv, ShownOK
  <2>2. ASSUME NEW p \in Processes, NEW x \in shown[p] PROVE Timely(x)' <=> Timely(x)
    BY <2>1 DEF Timely
  <2>3. \A a : Whole(a)' <=> Whole(a)
    BY <1>1 DEF Whole
  <2>4. QED BY <1>1, <2>1, <2>2, <2>3, Constants DEF LedgerInv, ShownOK, Has
<1>14. QED BY <1>4, <1>5, <1>8, <1>9, <1>11, <1>12, <1>13 DEF LedgerInv

-----------------------------------------------------------------------------
(* Facts of the invariant the steps of a thread use.                        *)

LEMMA OneAtATime ==
    ASSUME LedgerInv, NEW t \in Threads, NEW u \in Threads, Syncs(t), Syncs(u), ProcessOf[t] = ProcessOf[u]
    PROVE  t = u
BY DEF LedgerInv, LocksOK

(* What is posted and timely is asked for, or is stored.                     *)
LEMMA AskedForOrStored ==
    ASSUME LedgerInv, NEW t \in Threads, at[t] = "fetch", NEW x \in Activities,
           posted[x] # Never, Timely(x), Whole(AccountOf[x])
    PROVE  x \in Pages(AccountOf[x], task[ProcessOf[t]].since[AccountOf[x]]) \/ Has(rows, x)
<1> DEFINE since == task[ProcessOf[t]].since[AccountOf[x]]
<1>1. x \in Posted /\ AccountOf[x] \in BrokerAccounts /\ DayOf[x] \in Nat /\ OverlapDays \in Nat
  BY Constants DEF LedgerInv, PostedOK, Posted
<1>2. CASE DayOf[x] >= since
  BY <1>1, <1>2 DEF Pages
<1>3. CASE ~(DayOf[x] >= since)
  <2>1. since = 0 \/ \E r \in rows : AccountOf[r.activity] = AccountOf[x] /\ since = DayOf[r.activity] - OverlapDays
    BY <1>1 DEF LedgerInv, SinceOK
  <2>2. since # 0
    BY <1>1, <1>3
  <2>3. PICK r \in rows : AccountOf[r.activity] = AccountOf[x] /\ since = DayOf[r.activity] - OverlapDays
    BY <2>1, <2>2
  <2>4. r.activity \in Activities
    BY DEF LedgerInv, Types, LedgerTypeOK, LedgerRows
  <2>5. DayOf[r.activity] \in Nat
    BY <2>4, Constants
  <2>6. DayOf[x] + OverlapDays < DayOf[r.activity]
    BY <1>1, <1>3, <2>3, <2>5
  <2>7. Before(x, r.activity)
    BY <2>3, <2>6 DEF Before
  <2>8. QED BY <2>7 DEF LedgerInv, RowsClosed
<1>4. QED BY <1>2, <1>3

(* Where an account's sync resumes.                                          *)
LEMMA SinceIsOfARow ==
    ASSUME LedgerInv, NEW a \in BrokerAccounts
    PROVE  /\ Since(a) \in Int
           /\ Since(a) = 0 \/ \E r \in rows : AccountOf[r.activity] = a /\ Since(a) = DayOf[r.activity] - OverlapDays
<1> DEFINE mine == RowsOf(a, renamed)
           days == {DayOf[r.activity] : r \in mine}
<1>1. CASE mine = {}
  BY <1>1 DEF Since
<1>2. CASE mine # {}
  <2>1. \A r \in mine : r \in rows /\ AccountOf[r.activity] = a /\ r.activity \in Activities
    BY DEF LedgerInv, Types, LedgerTypeOK, LedgerRows, RowsOf
  <2>2. \A r \in mine : DayOf[r.activity] \in Int /\ DayOf[r.activity] <= LastSyncDay
    BY <2>1, Constants
  <2>3. days \in SUBSET Int /\ days # {} /\ \A d \in days : d <= LastSyncDay
    BY <1>2, <2>2
  <2>4. LastSyncDay \in Int /\ OverlapDays \in Int
    BY Constants
  <2>5. Max(days) \in days
    <3> HIDE DEF days
    <3>1. QED BY <2>3, <2>4, MaxIsIn
  <2>6. PICK r \in mine : Max(days) = DayOf[r.activity]
    BY <2>5
  <2>7. Since(a) = DayOf[r.activity] - OverlapDays
    BY <1>2, <2>6 DEF Since
  <2>8. QED BY <2>1, <2>2, <2>4, <2>6, <2>7
<1>3. QED BY <1>1, <1>2

-----------------------------------------------------------------------------
(* The steps of a thread.                                                    *)

LEMMA InvEnter == ASSUME LedgerInv, NEW t \in Threads, Enter(t) PROVE LedgerInv'
<1> DEFINE p == ProcessOf[t]
           done == synced[p]
<1>1. /\ UNCHANGED <<today, posted, renamed, rows, synced, task, cut, shown>>
      /\ at[t] = "start" /\ lock[p] = Nobody
      /\ at' = [at EXCEPT ![t] = IF done THEN "read" ELSE "begin"]
      /\ lock' = [lock EXCEPT ![p] = IF done THEN Nobody ELSE t]
  BY DEF Enter
<1>2. p \in Processes /\ at \in [Threads -> {"start", "begin", "fetch", "store", "read"}]
      /\ lock \in [Processes -> Threads \cup {Nobody}] /\ t # Nobody /\ Nobody \notin Threads
  BY Constants DEF LedgerInv, Types, LedgerTypeOK
<1>3. at' \in [Threads -> {"start", "begin", "fetch", "store", "read"}] /\ lock' \in [Processes -> Threads \cup {Nobody}]
  BY <1>1, <1>2
<1>4. \A u \in Threads : u # t => at'[u] = at[u]
  BY <1>1, <1>2
<1>5. at'[t] = (IF done THEN "read" ELSE "begin")
  BY <1>1, <1>2
<1>6. \A u \in Threads : Syncs(u) => ProcessOf[u] # p
  BY <1>1, <1>2 DEF LedgerInv, LocksOK
<1>7. \A u \in Threads : at'[u] \in {"fetch", "store"} => u # t /\ at[u] = at'[u]
  BY <1>4, <1>5
<1>8. Types'
  BY <1>1, <1>3 DEF LedgerInv, Types, LedgerTypeOK
<1>9. LocksOK'
  <2>1. ASSUME NEW u \in Threads, at'[u] \in {"begin", "fetch", "store"}
        PROVE  lock'[ProcessOf[u]] = u /\ ~synced[ProcessOf[u]]
    <3>1. CASE u = t
      BY <1>1, <1>2, <1>5, <2>1, <3>1
    <3>2. CASE u # t
      <4>1. Syncs(u)
        BY <1>4, <2>1, <3>2 DEF Syncs
      <4>2. ProcessOf[u] # p /\ ProcessOf[u] \in Processes /\ lock[ProcessOf[u]] = u /\ ~synced[ProcessOf[u]]
        BY <1>6, <4>1, Constants DEF LedgerInv, LocksOK
      <4>3. QED BY <1>1, <1>2, <4>2
    <3>3. QED BY <3>1, <3>2
  <2>2. ASSUME NEW u \in Threads, at'[u] = "read" PROVE synced[ProcessOf[u]]
    BY <1>4, <1>5, <2>2 DEF LedgerInv, LocksOK
  <2>3. ASSUME NEW u \in Threads, at'[u] = "store" PROVE task[ProcessOf[u]].left = {}
    BY <1>7, <2>3 DEF LedgerInv, LocksOK
  <2>4. QED BY <1>1, <2>1, <2>2, <2>3 DEF LocksOK, Syncs
<1>10. PostedOK' /\ OneRowAnActivity'
  BY <1>1 DEF LedgerInv, PostedOK, OneRowAnActivity
<1>11. RowsClosed' /\ BatchesClosed'
  BY <1>1 DEF LedgerInv, RowsClosed, BatchesClosed, Before, Whole, Timely, Has
<1>12. SinceOK'
  BY <1>1, <1>7 DEF LedgerInv, SinceOK
<1>13. LabelsOK'
  BY <1>1, <1>7 DEF LedgerInv, LabelsOK, RowsOK
<1>14. ShownOK'
  <2>1. \A x \in Activities : (Timely(x)' <=> Timely(x)) /\ (Whole(AccountOf[x])' <=> Whole(AccountOf[x]))
    BY <1>1 DEF Timely, Whole
  <2>2. \A q \in Processes : \A x \in shown[q] : x \in Activities
    BY DEF LedgerInv, ShownOK
  <2>3. QED BY <1>1, <1>7, <2>1, <2>2, Constants DEF LedgerInv, ShownOK, Has
<1>15. QED BY <1>8, <1>9, <1>10, <1>11, <1>12, <1>13, <1>14 DEF LedgerInv

LEMMA InvBegin == ASSUME LedgerInv, NEW t \in Threads, Begin(t) PROVE LedgerInv'
<1> DEFINE p == ProcessOf[t]
<1>1. /\ UNCHANGED <<today, posted, renamed, rows, synced, lock, cut>>
      /\ at[t] = "begin" /\ at' = [at EXCEPT ![t] = "fetch"]
  BY DEF Begin
<1>2. PICK accounts \in {BrokerAccounts, {}} :
          /\ task' = [task EXCEPT ![p] =
                      [since |-> [a \in BrokerAccounts |-> Since(a)], suffixed |-> renamed,
                       left |-> accounts, rows |-> {}, stored |-> {}]]
          /\ shown' = [shown EXCEPT ![p] = IF accounts = {} THEN {} ELSE Posted]
  BY DEF Begin
<1> DEFINE new == [since |-> [a \in BrokerAccounts |-> Since(a)], suffixed |-> renamed,
                   left |-> accounts, rows |-> {}, stored |-> {}]
<1>3. /\ p \in Processes /\ at \in [Threads -> {"start", "begin", "fetch", "store", "read"}]
      /\ task \in [Processes -> Task] /\ shown \in [Processes -> SUBSET Activities] /\ renamed \subseteq BrokerAccounts
  BY Constants DEF LedgerInv, Types, LedgerTypeOK
<1>4. at'[t] = "fetch" /\ (\A u \in Threads : u # t => at'[u] = at[u])
      /\ at' \in [Threads -> {"start", "begin", "fetch", "store", "read"}]
  BY <1>1, <1>3
<1>5. new \in Task
  BY <1>3, SinceIsOfARow DEF Task
<1>6. /\ task'[p] = new /\ (\A q \in Processes : q # p => task'[q] = task[q])
      /\ task' \in [Processes -> Task]
  <2> HIDE DEF new
  <2>1. task' = [task EXCEPT ![p] = new]
    BY <1>2 DEF new
  <2>2. QED BY <2>1, <1>3, <1>5
<1>7. /\ shown'[p] \subseteq Posted /\ (accounts = {} => shown'[p] = {})
      /\ (\A q \in Processes : q # p => shown'[q] = shown[q]) /\ shown' \in [Processes -> SUBSET Activities]
  BY <1>2, <1>3 DEF Posted
<1>8. task'[p].rows = {} /\ task'[p].left = accounts /\ task'[p].suffixed = renamed
      /\ \A a \in BrokerAccounts : task'[p].since[a] = Since(a)
  BY <1>6
<1>9. \A u \in Threads : at'[u] \in {"fetch", "store"} /\ u # t => at[u] = at'[u] /\ ProcessOf[u] # p /\ ProcessOf[u] \in Processes
  BY <1>1, <1>4, OneAtATime, Constants DEF Syncs
<1>10. Types'
  <2>1. \A q \in Processes : task'[q].rows \subseteq LedgerRows /\ task'[q].left \subseteq BrokerAccounts
    BY <1>6 DEF Task
  <2>2. QED BY <1>1, <1>4, <1>6, <1>7, <2>1 DEF LedgerInv, Types, LedgerTypeOK
<1>11. LocksOK'
  <2>1. ASSUME NEW u \in Threads, at'[u] \in {"begin", "fetch", "store"}
        PROVE  lock[ProcessOf[u]] = u /\ ~synced[ProcessOf[u]]
    BY <1>1, <1>4, <2>1 DEF LedgerInv, LocksOK, Syncs
  <2>2. ASSUME NEW u \in Threads, at'[u] = "read" PROVE synced[ProcessOf[u]]
    BY <1>4, <2>2 DEF LedgerInv, LocksOK
  <2>3. ASSUME NEW u \in Threads, at'[u] = "store" PROVE task'[ProcessOf[u]].left = {}
    <3>1. u # t
      BY <1>4, <2>3
    <3>2. at[u] = "store" /\ ProcessOf[u] # p /\ ProcessOf[u] \in Processes
      BY <1>9, <2>3, <3>1
    <3>3. QED BY <1>6, <3>2 DEF LedgerInv, LocksOK
  <2>4. QED BY <1>1, <2>1, <2>2, <2>3 DEF LocksOK, Syncs
<1>12. PostedOK' /\ OneRowAnActivity' /\ RowsClosed'
  BY <1>1 DEF LedgerInv, PostedOK, OneRowAnActivity, RowsClosed, Before, Whole, Timely, Has
<1>13. LabelsOK'
  <2>1. \A q \in Processes : task'[q].rows \subseteq task[q].rows
    BY <1>6, <1>8
  <2>2. RowsOK(rows) /\ \A q \in Processes : RowsOK(task'[q].rows)
    BY <2>1 DEF LedgerInv, LabelsOK, RowsOK
  <2>3. \A q \in Processes : task'[q].suffixed \subseteq renamed
    BY <1>6, <1>8 DEF LedgerInv, LabelsOK
  <2>4. \A q \in Processes : \A r, s \in task'[q].rows : r.activity = s.activity => r.suffixed = s.suffixed
    BY <2>1 DEF LedgerInv, LabelsOK
  <2>5. ASSUME NEW u \in Threads, at'[u] = "fetch", NEW r \in task'[ProcessOf[u]].rows
        PROVE  r.suffixed = (AccountOf[r.activity] \in task'[ProcessOf[u]].suffixed)
    <3>1. u # t
      BY <1>8, <2>5
    <3>2. QED BY <1>6, <1>9, <2>5, <3>1 DEF LedgerInv, LabelsOK
  <2>6. QED BY <1>1, <2>2, <2>3, <2>4, <2>5 DEF LabelsOK, RowsOK
<1>14. BatchesClosed'
  <2>1. ASSUME NEW q \in Processes, NEW r \in task'[q].rows, NEW x \in Activities, Before(x, r.activity)
        PROVE  Has(rows, x) \/ Has(task'[q].rows, x)
    BY <1>6, <1>8, <2>1 DEF LedgerInv, BatchesClosed
  <2>2. QED BY <1>1, <2>1 DEF BatchesClosed, Before, Whole, Timely, Has
<1>15. SinceOK'
  <2>1. ASSUME NEW u \in Threads, at'[u] = "fetch", NEW a \in BrokerAccounts
        PROVE  \/ task'[ProcessOf[u]].since[a] = 0
               \/ \E r \in rows : AccountOf[r.activity] = a /\ task'[ProcessOf[u]].since[a] = DayOf[r.activity] - OverlapDays
    <3>1. CASE u = t
      BY <1>8, <3>1, SinceIsOfARow
    <3>2. CASE u # t
      BY <1>6, <1>9, <2>1, <3>2 DEF LedgerInv, SinceOK
    <3>3. QED BY <3>1, <3>2
  <2>2. QED BY <1>1, <2>1 DEF SinceOK
<1>16. ShownOK'
  <2>1. \A x \in Posted : x \in Activities /\ posted[x] # Never
    BY Constants DEF Posted, LedgerInv, Types, LedgerTypeOK
  <2>2. \A q \in Processes : \A x \in shown'[q] : x \in Activities /\ posted[x] # Never
    BY <1>7, <2>1 DEF LedgerInv, ShownOK
  <2>3. ASSUME NEW u \in Threads, at'[u] \in {"fetch", "store"}, NEW x \in shown'[ProcessOf[u]], Timely(x), Whole(AccountOf[x])
        PROVE  \/ AccountOf[x] \in task'[ProcessOf[u]].left
               \/ Has(rows, x) \/ Has(task'[ProcessOf[u]].rows, x)
    <3>1. CASE u = t
      <4>1. accounts = BrokerAccounts /\ x \in Activities
        BY <1>2, <1>3, <1>7, <2>2, <2>3, <3>1
      <4>2. QED BY <1>8, <3>1, <4>1, Constants
    <3>2. CASE u # t
      <4>1. at[u] \in {"fetch", "store"} /\ ProcessOf[u] # p /\ ProcessOf[u] \in Processes
        BY <1>9, <2>3, <3>2
      <4>2. x \in shown[ProcessOf[u]] /\ task'[ProcessOf[u]] = task[ProcessOf[u]]
        BY <1>6, <1>7, <2>3, <4>1
      <4>3. QED BY <2>3, <4>1, <4>2 DEF LedgerInv, ShownOK
    <3>3. QED BY <3>1, <3>2
  <2>4. ASSUME NEW q \in Processes, synced[q], NEW x \in shown'[q], Timely(x), Whole(AccountOf[x]) PROVE Has(rows, x)
    <3>1. ~synced[p]
      BY <1>1 DEF LedgerInv, LocksOK, Syncs
    <3>2. QED BY <1>7, <2>4, <3>1 DEF LedgerInv, ShownOK
  <2>5. \A x \in Activities : (Timely(x)' <=> Timely(x)) /\ (Whole(AccountOf[x])' <=> Whole(AccountOf[x]))
    BY <1>1 DEF Timely, Whole
  <2>6. \A u \in Threads : ProcessOf[u] \in Processes
    BY Constants
  <2>7. QED BY <1>1, <2>2, <2>3, <2>4, <2>5, <2>6 DEF ShownOK, Has
<1>17. QED BY <1>10, <1>11, <1>12, <1>13, <1>14, <1>15, <1>16 DEF LedgerInv

LEMMA InvLookUp == ASSUME LedgerInv, NEW t \in Threads, LookUp(t) PROVE LedgerInv'
<1> DEFINE p == ProcessOf[t]
           new == [NoTask EXCEPT !.rows = task[p].rows \ Found(p), !.stored = rows]
<1>1. /\ UNCHANGED <<today, posted, renamed, rows, synced, lock, cut, shown>>
      /\ at[t] = "fetch" /\ at' = [at EXCEPT ![t] = "store"]
      /\ task[p].left = {} /\ task' = [task EXCEPT ![p] = new]
  BY DEF LookUp
<1>2. /\ p \in Processes /\ at \in [Threads -> {"start", "begin", "fetch", "store", "read"}]
      /\ task \in [Processes -> Task] /\ rows \subseteq LedgerRows
  BY Constants DEF LedgerInv, Types, LedgerTypeOK
<1>3. at'[t] = "store" /\ (\A u \in Threads : u # t => at'[u] = at[u])
      /\ at' \in [Threads -> {"start", "begin", "fetch", "store", "read"}]
  BY <1>1, <1>2
<1>4. task[p].rows \ Found(p) \in SUBSET LedgerRows
  BY <1>2 DEF Task
<1>5. new \in Task /\ new.rows = task[p].rows \ Found(p) /\ new.left = {} /\ new.suffixed = {}
  <2>1. NoTask.left = {} /\ NoTask.suffixed = {}
    BY DEF NoTask
  <2>2. QED BY <1>2, <1>4, <2>1, NoTaskIsATask DEF Task
<1>6. /\ task'[p] = new /\ (\A q \in Processes : q # p => task'[q] = task[q])
      /\ task' \in [Processes -> Task]
  <2> HIDE DEF new
  <2>1. QED BY <1>1, <1>2, <1>5
<1>7. task'[p].rows = task[p].rows \ Found(p) /\ task'[p].left = {} /\ task'[p].suffixed = {}
  BY <1>5, <1>6
<1>8. \A u \in Threads : at'[u] \in {"fetch", "store"} /\ u # t => at[u] = at'[u] /\ ProcessOf[u] # p /\ ProcessOf[u] \in Processes
  BY <1>1, <1>3, OneAtATime, Constants DEF Syncs
<1>9. \A q \in Processes : task'[q].rows \subseteq task[q].rows
  BY <1>6, <1>7
<1>10. \A q \in Processes : \A x \in Activities : Has(task[q].rows, x) => Has(rows, x) \/ Has(task'[q].rows, x)
  <2>1. ASSUME NEW x \in Activities, NEW r \in task[p].rows, r.activity = x PROVE Has(rows, x) \/ Has(task'[p].rows, x)
    <3>1. CASE r \in Found(p)
      BY <2>1, <3>1 DEF Found, SameKey, Has
    <3>2. CASE r \notin Found(p)
      BY <1>7, <2>1, <3>2 DEF Has
    <3>3. QED BY <3>1, <3>2
  <2>2. QED BY <1>6, <2>1 DEF Has
<1>11. Types'
  <2>1. \A q \in Processes : task'[q].rows \subseteq LedgerRows /\ task'[q].left \subseteq BrokerAccounts
    BY <1>6 DEF Task
  <2>2. QED BY <1>1, <1>3, <1>6, <2>1 DEF LedgerInv, Types, LedgerTypeOK
<1>12. LocksOK'
  <2>1. ASSUME NEW u \in Threads, at'[u] \in {"begin", "fetch", "store"}
        PROVE  lock[ProcessOf[u]] = u /\ ~synced[ProcessOf[u]]
    BY <1>1, <1>3, <2>1 DEF LedgerInv, LocksOK, Syncs
  <2>2. ASSUME NEW u \in Threads, at'[u] = "read" PROVE synced[ProcessOf[u]]
    BY <1>3, <2>2 DEF LedgerInv, LocksOK
  <2>3. ASSUME NEW u \in Threads, at'[u] = "store" PROVE task'[ProcessOf[u]].left = {}
    <3>1. CASE u = t
      BY <1>7, <3>1
    <3>2. CASE u # t
      BY <1>6, <1>8, <2>3, <3>2 DEF LedgerInv, LocksOK
    <3>3. QED BY <3>1, <3>2
  <2>4. QED BY <1>1, <2>1, <2>2, <2>3 DEF LocksOK, Syncs
<1>13. PostedOK' /\ OneRowAnActivity' /\ RowsClosed'
  BY <1>1 DEF LedgerInv, PostedOK, OneRowAnActivity, RowsClosed, Before, Whole, Timely, Has
<1>14. LabelsOK'
  <2>1. RowsOK(rows) /\ \A q \in Processes : RowsOK(task'[q].rows)
    BY <1>9 DEF LedgerInv, LabelsOK, RowsOK
  <2>2. \A q \in Processes : task'[q].suffixed \subseteq renamed
    BY <1>6, <1>7 DEF LedgerInv, LabelsOK
  <2>3. \A q \in Processes : \A r, s \in task'[q].rows : r.activity = s.activity => r.suffixed = s.suffixed
    BY <1>9 DEF LedgerInv, LabelsOK
  <2>4. ASSUME NEW u \in Threads, at'[u] = "fetch", NEW r \in task'[ProcessOf[u]].rows
        PROVE  r.suffixed = (AccountOf[r.activity] \in task'[ProcessOf[u]].suffixed)
    <3>1. u # t
      BY <1>3, <2>4
    <3>2. QED BY <1>6, <1>8, <2>4, <3>1 DEF LedgerInv, LabelsOK
  <2>5. QED BY <1>1, <2>1, <2>2, <2>3, <2>4 DEF LabelsOK, RowsOK
<1>15. BatchesClosed'
  <2>1. ASSUME NEW q \in Processes, NEW r \in task'[q].rows, NEW x \in Activities, Before(x, r.activity)
        PROVE  Has(rows, x) \/ Has(task'[q].rows, x)
    <3>1. Has(rows, x) \/ Has(task[q].rows, x)
      BY <1>9, <2>1 DEF LedgerInv, BatchesClosed
    <3>2. QED BY <1>10, <3>1
  <2>2. QED BY <1>1, <2>1 DEF BatchesClosed, Before, Whole, Timely, Has
<1>16. SinceOK'
  <2>1. ASSUME NEW u \in Threads, at'[u] = "fetch" PROVE at[u] = "fetch" /\ task'[ProcessOf[u]] = task[ProcessOf[u]]
    BY <1>3, <1>6, <1>8, <2>1
  <2>2. ASSUME NEW u \in Threads, at'[u] = "fetch", NEW a \in BrokerAccounts
        PROVE  \/ task'[ProcessOf[u]].since[a] = 0
               \/ \E r \in rows : AccountOf[r.activity] = a /\ task'[ProcessOf[u]].since[a] = DayOf[r.activity] - OverlapDays
    BY <2>1, <2>2 DEF LedgerInv, SinceOK
  <2>3. QED BY <1>1, <2>2 DEF SinceOK
<1>17. ShownOK'
  <2>1. \A q \in Processes : \A x \in shown[q] : x \in Activities /\ posted[x] # Never
    BY DEF LedgerInv, ShownOK
  <2>2. ASSUME NEW u \in Threads, at'[u] \in {"fetch", "store"}, NEW x \in shown[ProcessOf[u]], Timely(x), Whole(AccountOf[x])
        PROVE  \/ AccountOf[x] \in task'[ProcessOf[u]].left
               \/ Has(rows, x) \/ Has(task'[ProcessOf[u]].rows, x)
    <3>1. CASE u = t
      <4>1. x \in Activities /\ AccountOf[x] \notin task[p].left
        BY <1>1, <1>2, <2>1, <2>2, <3>1
      <4>2. Has(rows, x) \/ Has(task[p].rows, x)
        BY <1>1, <2>2, <3>1, <4>1 DEF LedgerInv, ShownOK
      <4>3. QED BY <1>2, <1>10, <3>1, <4>1, <4>2
    <3>2. CASE u # t
      <4>1. at[u] \in {"fetch", "store"} /\ task'[ProcessOf[u]] = task[ProcessOf[u]]
        BY <1>6, <1>8, <2>2, <3>2
      <4>2. QED BY <2>2, <4>1 DEF LedgerInv, ShownOK
    <3>3. QED BY <3>1, <3>2
  <2>3. \A x \in Activities : (Timely(x)' <=> Timely(x)) /\ (Whole(AccountOf[x])' <=> Whole(AccountOf[x]))
    BY <1>1 DEF Timely, Whole
  <2>4. \A u \in Threads : ProcessOf[u] \in Processes
    BY Constants
  <2>5. \A q \in Processes : synced[q] =>
          \A x \in shown[q] : Timely(x) /\ Whole(AccountOf[x]) => Has(rows, x)
    BY DEF LedgerInv, ShownOK
  <2>6. QED BY <1>1, <2>1, <2>2, <2>3, <2>4, <2>5 DEF ShownOK, Has
<1>18. QED BY <1>11, <1>12, <1>13, <1>14, <1>15, <1>16, <1>17 DEF LedgerInv

LEMMA InvFetchAccount == ASSUME LedgerInv, NEW t \in Threads, FetchAccount(t) PROVE LedgerInv'
<1> DEFINE p == ProcessOf[t]
<1>1. /\ UNCHANGED <<today, posted, renamed, rows, synced, lock, at, shown>> /\ at[t] = "fetch"
  BY DEF FetchAccount
<1>2. PICK a \in task[p].left :
        \E got \in SUBSET Pages(a, task[p].since[a]) :
           /\ cut' = IF got = Pages(a, task[p].since[a]) THEN cut ELSE cut \cup {<<p, a>>}
           /\ task' = [task EXCEPT ![p].left = @ \ {a},
                         ![p].rows = @ \cup {[activity |-> x, suffixed |-> a \in task[p].suffixed] : x \in got}]
  BY DEF FetchAccount
<1> DEFINE all == Pages(a, task[p].since[a])
<1>3. PICK got \in SUBSET all :
           /\ cut' = IF got = all THEN cut ELSE cut \cup {<<p, a>>}
           /\ task' = [task EXCEPT ![p].left = @ \ {a},
                         ![p].rows = @ \cup {[activity |-> x, suffixed |-> a \in task[p].suffixed] : x \in got}]
  BY <1>2
<1> DEFINE fetched == {[activity |-> x, suffixed |-> a \in task[p].suffixed] : x \in got}
<1>4. /\ p \in Processes /\ task \in [Processes -> Task] /\ rows \subseteq LedgerRows
      /\ cut \subseteq Processes \X BrokerAccounts
  BY Constants DEF LedgerInv, Types, LedgerTypeOK
<1>5. task[p] \in Task /\ a \in BrokerAccounts
  BY <1>2, <1>4 DEF Task
<1>6. \A x \in all : x \in Activities /\ posted[x] # Never /\ AccountOf[x] = a
  <2>1. today \in Nat /\ today < Never
    BY Constants DEF LedgerInv, Types, LedgerTypeOK
  <2>2. ASSUME NEW x \in all PROVE x \in Activities /\ posted[x] <= today /\ AccountOf[x] = a
    BY DEF Pages, Posted
  <2>3. QED BY <2>1, <2>2, Constants
<1>7. fetched \in SUBSET LedgerRows /\ \A x \in got : Has(fetched, x)
  <2>1. \A x \in got : [activity |-> x, suffixed |-> a \in task[p].suffixed] \in LedgerRows
    BY <1>6 DEF LedgerRows
  <2>2. fetched \in SUBSET LedgerRows
    BY <2>1
  <2>3. ASSUME NEW x \in got PROVE Has(fetched, x)
    <3>1. [activity |-> x, suffixed |-> a \in task[p].suffixed] \in fetched
      OBVIOUS
    <3>2. [activity |-> x, suffixed |-> a \in task[p].suffixed].activity = x
      OBVIOUS
    <3> HIDE DEF fetched
    <3>3. QED BY <3>1, <3>2 DEF Has
  <2>4. QED BY <2>2, <2>3
<1>8. \A r \in fetched : r.activity \in got /\ r.suffixed = (a \in task[p].suffixed)
  OBVIOUS
<1>9. /\ task'[p].left = task[p].left \ {a} /\ task'[p].rows = task[p].rows \cup fetched
      /\ task'[p].since = task[p].since /\ task'[p].suffixed = task[p].suffixed
      /\ task'[p] \in Task /\ (\A q \in Processes : q # p => task'[q] = task[q])
      /\ task' \in [Processes -> Task]
  <2> HIDE DEF fetched
  <2> DEFINE new == [task[p] EXCEPT !.left = @ \ {a}, !.rows = @ \cup fetched]
  <2>1. task' = [task EXCEPT ![p] = new]
    BY <1>3 DEF fetched
  <2>2. new \in Task
    BY <1>5, <1>7 DEF Task
  <2>3. /\ new.left = task[p].left \ {a} /\ new.rows = task[p].rows \cup fetched
        /\ new.since = task[p].since /\ new.suffixed = task[p].suffixed
    BY <1>5 DEF Task
  <2> HIDE DEF new
  <2>4. task'[p] = new /\ (\A q \in Processes : q # p => task'[q] = task[q]) /\ task' \in [Processes -> Task]
    BY <1>4, <2>1, <2>2
  <2>5. QED BY <2>2, <2>3, <2>4
<1> HIDE DEF fetched
<1>10. cut' \subseteq Processes \X BrokerAccounts /\ cut \subseteq cut' /\ (got = all \/ <<p, a>> \in cut')
  BY <1>3, <1>4, <1>5
<1>11. \A b : Whole(b)' => Whole(b)
  BY <1>10 DEF Whole
<1>12. \A q \in Processes : \A x \in Activities : Has(task[q].rows, x) => Has(task'[q].rows, x)
  BY <1>9 DEF Has
<1>13. \A u \in Threads : u # t /\ at[u] \in {"fetch", "store"} => ProcessOf[u] # p /\ ProcessOf[u] \in Processes
  BY <1>1, OneAtATime, Constants DEF Syncs
<1>14. ASSUME NEW x \in Activities, AccountOf[x] = a, posted[x] # Never, Timely(x), Whole(a)'
       PROVE  Has(rows, x) \/ Has(task'[p].rows, x)
  <2>1. got = all
    BY <1>4, <1>10, <1>14 DEF Whole
  <2>2. x \in all \/ Has(rows, x)
    BY <1>1, <1>11, <1>14, AskedForOrStored
  <2>3. ASSUME x \in all PROVE Has(task'[p].rows, x)
    BY <1>7, <1>9, <2>1, <2>3 DEF Has
  <2>4. QED BY <2>2, <2>3
<1>15. Types'
  <2>1. \A q \in Processes : task'[q].rows \subseteq LedgerRows /\ task'[q].left \subseteq BrokerAccounts
    BY <1>9 DEF Task
  <2>2. QED BY <1>1, <1>9, <1>10, <2>1 DEF LedgerInv, Types, LedgerTypeOK
<1>16. LocksOK'
  <2>1. ASSUME NEW u \in Threads, at[u] = "store" PROVE task'[ProcessOf[u]].left = {}
    <3>1. u # t
      BY <1>1, <2>1
    <3>2. QED BY <1>9, <1>13, <2>1, <3>1 DEF LedgerInv, LocksOK
  <2>2. QED BY <1>1, <2>1 DEF LedgerInv, LocksOK, Syncs
<1>17. PostedOK' /\ OneRowAnActivity'
  BY <1>1 DEF LedgerInv, PostedOK, OneRowAnActivity
<1>18. RowsClosed'
  <2>1. ASSUME NEW r \in rows, NEW x \in Activities, Before(x, r.activity)' PROVE Has(rows, x)
    <3>1. Before(x, r.activity)
      BY <1>1, <1>11, <2>1 DEF Before, Timely
    <3>2. QED BY <3>1 DEF LedgerInv, RowsClosed
  <2>2. QED BY <1>1, <2>1 DEF RowsClosed, Has
<1>19. LabelsOK'
  <2>1. RowsOK(fetched)
    BY <1>5, <1>6, <1>8, <1>4 DEF RowsOK, LedgerInv, LabelsOK
  <2>2. \A q \in Processes : RowsOK(task'[q].rows)
    BY <1>9, <2>1 DEF LedgerInv, LabelsOK, RowsOK
  <2>3. \A q \in Processes : task'[q].suffixed \subseteq renamed
    BY <1>9 DEF LedgerInv, LabelsOK
  <2>4. \A r \in task'[p].rows : r.suffixed = (AccountOf[r.activity] \in task[p].suffixed)
    <3>1. ASSUME NEW r \in fetched PROVE r.suffixed = (AccountOf[r.activity] \in task[p].suffixed)
      BY <1>6, <1>8
    <3>2. \A r \in task[p].rows : r.suffixed = (AccountOf[r.activity] \in task[p].suffixed)
      BY <1>1 DEF LedgerInv, LabelsOK
    <3>3. QED BY <1>9, <3>1, <3>2
  <2>5. \A q \in Processes : \A r, s \in task'[q].rows : r.activity = s.activity => r.suffixed = s.suffixed
    BY <1>9, <2>4 DEF LedgerInv, LabelsOK
  <2>6. ASSUME NEW u \in Threads, at[u] = "fetch", NEW r \in task'[ProcessOf[u]].rows
        PROVE  r.suffixed = (AccountOf[r.activity] \in task'[ProcessOf[u]].suffixed)
    <3>1. CASE u = t
      BY <1>9, <2>4, <2>6, <3>1
    <3>2. CASE u # t
      BY <1>9, <1>13, <2>6, <3>2 DEF LedgerInv, LabelsOK
    <3>3. QED BY <3>1, <3>2
  <2>7. RowsOK(rows)
    BY DEF LedgerInv, LabelsOK
  <2>8. QED BY <1>1, <2>2, <2>3, <2>5, <2>6, <2>7 DEF LabelsOK, RowsOK
<1>20. BatchesClosed'
  <2>1. ASSUME NEW q \in Processes, NEW r \in task'[q].rows, NEW x \in Activities, Before(x, r.activity)'
        PROVE  Has(rows, x) \/ Has(task'[q].rows, x)
    <3>1. Before(x, r.activity) /\ Whole(AccountOf[x])'
      BY <1>1, <1>11, <2>1 DEF Before, Timely
    <3>2. CASE r \in task[q].rows
      BY <1>12, <3>1, <3>2 DEF LedgerInv, BatchesClosed
    <3>3. CASE r \notin task[q].rows
      <4>1. q = p /\ r \in fetched
        BY <1>9, <2>1, <3>3
      <4>2. AccountOf[x] = a /\ posted[x] # Never /\ Timely(x)
        BY <1>6, <1>8, <3>1, <4>1 DEF Before
      <4>3. QED BY <1>14, <3>1, <4>1, <4>2
    <3>4. QED BY <3>2, <3>3
  <2>2. QED BY <1>1, <2>1 DEF BatchesClosed, Has
<1>21. SinceOK'
  <2>1. ASSUME NEW u \in Threads, at[u] = "fetch", NEW b \in BrokerAccounts
        PROVE  \/ task'[ProcessOf[u]].since[b] = 0
               \/ \E r \in rows : AccountOf[r.activity] = b /\ task'[ProcessOf[u]].since[b] = DayOf[r.activity] - OverlapDays
    <3>1. task'[ProcessOf[u]].since = task[ProcessOf[u]].since
      BY <1>9, Constants
    <3>2. QED BY <2>1, <3>1 DEF LedgerInv, SinceOK
  <2>2. QED BY <1>1, <2>1 DEF SinceOK
<1>22. ShownOK'
  <2>1. \A q \in Processes : \A x \in shown[q] : x \in Activities /\ posted[x] # Never
    BY DEF LedgerInv, ShownOK
  <2>2. ASSUME NEW u \in Threads, at[u] \in {"fetch", "store"}, NEW x \in shown[ProcessOf[u]], Timely(x), Whole(AccountOf[x])'
        PROVE  \/ AccountOf[x] \in task'[ProcessOf[u]].left
               \/ Has(rows, x) \/ Has(task'[ProcessOf[u]].rows, x)
    <3>1. ProcessOf[u] \in Processes
      BY Constants
    <3>2. x \in Activities /\ posted[x] # Never /\ Whole(AccountOf[x])
      BY <1>11, <2>1, <2>2, <3>1
    <3>3. \/ AccountOf[x] \in task[ProcessOf[u]].left
          \/ Has(rows, x) \/ Has(task[ProcessOf[u]].rows, x)
      BY <2>2, <3>2 DEF LedgerInv, ShownOK
    <3>4. CASE Has(rows, x) \/ Has(task[ProcessOf[u]].rows, x)
      BY <1>12, <3>1, <3>2, <3>4
    <3>5. CASE AccountOf[x] \in task[ProcessOf[u]].left
      <4>1. CASE ProcessOf[u] = p /\ AccountOf[x] = a
        BY <1>14, <2>2, <3>2, <4>1
      <4>2. CASE ~(ProcessOf[u] = p /\ AccountOf[x] = a)
        BY <1>9, <3>1, <3>5, <4>2
      <4>3. QED BY <4>1, <4>2
    <3>6. QED BY <3>3, <3>4, <3>5
  <2>3. ASSUME NEW q \in Processes, synced[q], NEW x \in shown[q], Timely(x), Whole(AccountOf[x])' PROVE Has(rows, x)
    BY <1>11, <2>3 DEF LedgerInv, ShownOK
  <2>4. \A x \in Activities : Timely(x)' <=> Timely(x)
    BY <1>1 DEF Timely
  <2>5. \A u \in Threads : ProcessOf[u] \in Processes
    BY Constants
  <2>6. QED BY <1>1, <2>1, <2>2, <2>3, <2>4, <2>5 DEF ShownOK, Has
<1>23. QED BY <1>15, <1>16, <1>17, <1>18, <1>19, <1>20, <1>21, <1>22 DEF LedgerInv

(* A batch is stored as a whole or not at all; either way the sync is over. *)
LEMMA Done ==
    ASSUME LedgerInv, NEW t \in Threads, at[t] = "store", Synced(t),
           task' = [task EXCEPT ![ProcessOf[t]] = NoTask], UNCHANGED <<today, posted, renamed, cut>>
    PROVE  /\ \A u \in Threads : at'[u] \in {"fetch", "store"} =>
                at[u] = at'[u] /\ ProcessOf[u] # ProcessOf[t] /\ ProcessOf[u] \in Processes
           /\ \A q \in Processes : q # ProcessOf[t] => synced'[q] = synced[q] /\ task'[q] = task[q]
           /\ task'[ProcessOf[t]] = NoTask /\ task[ProcessOf[t]].left = {} /\ ProcessOf[t] \in Processes
           /\ LocksOK' /\ PostedOK'
           /\ task' \in [Processes -> Task] /\ synced' \in [Processes -> BOOLEAN]
           /\ lock' \in [Processes -> Threads \cup {Nobody}]
           /\ at' \in [Threads -> {"start", "begin", "fetch", "store", "read"}]
<1> DEFINE p == ProcessOf[t]
<1>1. /\ synced' = [synced EXCEPT ![p] = TRUE] /\ lock' = [lock EXCEPT ![p] = Nobody]
      /\ at' = [at EXCEPT ![t] = "read"]
  BY DEF Synced
<1>2. /\ p \in Processes /\ at \in [Threads -> {"start", "begin", "fetch", "store", "read"}]
      /\ lock \in [Processes -> Threads \cup {Nobody}] /\ synced \in [Processes -> BOOLEAN]
      /\ task \in [Processes -> Task]
  BY Constants DEF LedgerInv, Types, LedgerTypeOK
<1>3. /\ at' \in [Threads -> {"start", "begin", "fetch", "store", "read"}]
      /\ lock' \in [Processes -> Threads \cup {Nobody}] /\ synced' \in [Processes -> BOOLEAN]
  BY <1>1, <1>2
<1>4. task' \in [Processes -> Task] /\ task'[p] = NoTask
  BY <1>2, NoTaskIsATask
<1>5. at'[t] = "read" /\ \A u \in Threads : u # t => at'[u] = at[u]
  BY <1>1, <1>2
<1>6. synced'[p] = TRUE /\ \A q \in Processes : q # p => synced'[q] = synced[q] /\ task'[q] = task[q] /\ lock'[q] = lock[q]
  BY <1>1, <1>2
<1>7. ASSUME NEW u \in Threads, at'[u] \in {"begin", "fetch", "store"}
      PROVE  at[u] = at'[u] /\ ProcessOf[u] # p /\ ProcessOf[u] \in Processes
  <2>1. u # t /\ at[u] = at'[u]
    BY <1>5, <1>7
  <2>2. QED BY <1>7, <2>1, OneAtATime, Constants DEF Syncs
<1>8. task[p].left = {}
  BY DEF LedgerInv, LocksOK
<1>9. PostedOK'
  BY DEF LedgerInv, PostedOK
<1>10. LocksOK'
  <2>1. ASSUME NEW u \in Threads, at'[u] \in {"begin", "fetch", "store"}
        PROVE  lock'[ProcessOf[u]] = u /\ ~synced'[ProcessOf[u]]
    BY <1>6, <1>7, <2>1 DEF LedgerInv, LocksOK, Syncs
  <2>2. ASSUME NEW u \in Threads, at'[u] = "read" PROVE synced'[ProcessOf[u]]
    <3>1. CASE ProcessOf[u] = p
      BY <1>6, <3>1
    <3>2. CASE ProcessOf[u] # p
      BY <1>5, <1>6, <2>2, <3>2, Constants DEF LedgerInv, LocksOK
    <3>3. QED BY <3>1, <3>2
  <2>3. ASSUME NEW u \in Threads, at'[u] = "store" PROVE task'[ProcessOf[u]].left = {}
    BY <1>6, <1>7, <2>3 DEF LedgerInv, LocksOK
  <2>4. QED BY <2>1, <2>2, <2>3 DEF LocksOK, Syncs
<1>11. QED BY <1>2, <1>3, <1>4, <1>6, <1>7, <1>8, <1>9, <1>10

LEMMA InvCommit == ASSUME LedgerInv, NEW t \in Threads, Commit(t) PROVE LedgerInv'
<1> DEFINE p == ProcessOf[t]
<1>1. /\ UNCHANGED <<today, posted, renamed, cut, shown>> /\ at[t] = "store" /\ Synced(t)
      /\ task' = [task EXCEPT ![p] = NoTask] /\ rows' = rows \cup task[p].rows
      /\ \A r \in task[p].rows, s \in rows : ~SameKey(r, s)
  BY DEF Commit
<1>2. /\ \A u \in Threads : at'[u] \in {"fetch", "store"} => at[u] = at'[u] /\ ProcessOf[u] # p /\ ProcessOf[u] \in Processes
      /\ \A q \in Processes : q # p => synced'[q] = synced[q] /\ task'[q] = task[q]
      /\ task'[p] = NoTask /\ task[p].left = {} /\ p \in Processes
      /\ LocksOK' /\ PostedOK'
      /\ task' \in [Processes -> Task] /\ synced' \in [Processes -> BOOLEAN]
      /\ lock' \in [Processes -> Threads \cup {Nobody}]
      /\ at' \in [Threads -> {"start", "begin", "fetch", "store", "read"}]
  <2>1. UNCHANGED <<today, posted, renamed, cut>>
    BY <1>1
  <2>2. QED BY <1>1, <2>1, Done
<1>3. NoTask.rows = {} /\ NoTask.suffixed = {} /\ NoTask.left = {}
  BY DEF NoTask
<1>4. rows \subseteq LedgerRows /\ task[p].rows \subseteq LedgerRows /\ rows' \subseteq LedgerRows /\ rows \subseteq rows'
  BY <1>1, <1>2 DEF LedgerInv, Types, LedgerTypeOK
<1>5. \A x \in Activities : Has(rows, x) \/ Has(task[p].rows, x) => Has(rows, x)'
  BY <1>1 DEF Has
<1>6. \A x, y \in Activities : Before(x, y)' <=> Before(x, y)
  BY <1>1 DEF Before, Whole, Timely
<1>7. \A x \in Activities : (Timely(x)' <=> Timely(x)) /\ (Whole(AccountOf[x])' <=> Whole(AccountOf[x]))
  BY <1>1 DEF Timely, Whole
<1>8. \A r \in LedgerRows : r.activity \in Activities /\ r.suffixed \in BOOLEAN
  BY DEF LedgerRows
<1>9. Types'
  <2>1. \A q \in Processes : task'[q].rows \subseteq LedgerRows /\ task'[q].left \subseteq BrokerAccounts
    BY <1>2 DEF Task
  <2>2. QED BY <1>1, <1>2, <1>4, <2>1 DEF LedgerInv, Types, LedgerTypeOK
<1>10. OneRowAnActivity'
  <2>1. RowsOK(rows) /\ RowsOK(task[p].rows)
    BY <1>2 DEF LedgerInv, LabelsOK
  <2>2. ASSUME NEW r \in task[p].rows, NEW s \in rows, r.activity = s.activity
        PROVE  r.activity \notin Identified /\ AccountOf[r.activity] \in renamed
    <3>1. r.activity \notin Identified /\ r.suffixed # s.suffixed
      BY <1>1, <2>2 DEF SameKey
    <3>2. r.suffixed \in BOOLEAN /\ s.suffixed \in BOOLEAN
      BY <1>4, <1>8
    <3>3. r.suffixed \/ s.suffixed
      BY <3>1, <3>2
    <3>4. QED BY <2>1, <2>2, <3>1, <3>3 DEF RowsOK
  <2>3. ASSUME NEW r \in task[p].rows, NEW s \in task[p].rows, r.activity = s.activity PROVE r = s
    <3>1. r.suffixed = s.suffixed
      BY <1>2, <2>3 DEF LedgerInv, LabelsOK
    <3>2. QED BY <1>4, <2>3, <3>1 DEF LedgerRows
  <2>4. ASSUME NEW r \in rows', NEW s \in rows', r.activity = s.activity, r # s
        PROVE  r.activity \notin Identified /\ AccountOf[r.activity] \in renamed
    <3>1. CASE r \in rows /\ s \in rows
      BY <2>4, <3>1 DEF LedgerInv, OneRowAnActivity
    <3>2. CASE r \in task[p].rows /\ s \in rows
      BY <2>2, <2>4, <3>2
    <3>3. CASE r \in rows /\ s \in task[p].rows
      BY <2>2, <2>4, <3>3
    <3>4. CASE r \in task[p].rows /\ s \in task[p].rows
      BY <2>3, <2>4, <3>4
    <3>5. QED BY <1>1, <3>1, <3>2, <3>3, <3>4
  <2>5. QED BY <1>1, <2>4 DEF OneRowAnActivity
<1>11. RowsClosed'
  <2>1. ASSUME NEW r \in rows', NEW x \in Activities, Before(x, r.activity)' PROVE Has(rows, x)'
    <3>1. Before(x, r.activity)
      BY <1>4, <1>6, <1>8, <2>1
    <3>2. Has(rows, x) \/ Has(task[p].rows, x)
      BY <1>1, <1>2, <3>1 DEF LedgerInv, RowsClosed, BatchesClosed
    <3>3. QED BY <1>5, <3>2
  <2>2. QED BY <2>1 DEF RowsClosed
<1>12. BatchesClosed'
  <2>1. ASSUME NEW q \in Processes, NEW r \in task'[q].rows, NEW x \in Activities, Before(x, r.activity)'
        PROVE  Has(rows, x)' \/ Has(task'[q].rows, x)
    <3>1. q # p /\ task'[q] = task[q]
      BY <1>2, <1>3, <2>1
    <3>2. r.activity \in Activities
      BY <1>8, <2>1, <3>1 DEF LedgerInv, Types, LedgerTypeOK
    <3>3. Has(rows, x) \/ Has(task[q].rows, x)
      BY <1>6, <2>1, <3>1, <3>2 DEF LedgerInv, BatchesClosed
    <3>4. QED BY <1>5, <3>1, <3>3
  <2>2. QED BY <2>1 DEF BatchesClosed, Has
<1>13. LabelsOK'
  <2>1. \A q \in Processes : task'[q].rows \subseteq task[q].rows /\ task'[q].suffixed \subseteq task[q].suffixed
    BY <1>2, <1>3
  <2>2. RowsOK(rows) /\ RowsOK(task[p].rows)
    BY <1>2 DEF LedgerInv, LabelsOK
  <2>3. \A r \in rows' : posted[r.activity] # Never /\ (r.suffixed => AccountOf[r.activity] \in renamed)
    BY <1>1, <2>2 DEF RowsOK
  <2>4. \A q \in Processes : RowsOK(task'[q].rows)
    BY <2>1 DEF LedgerInv, LabelsOK, RowsOK
  <2>5. \A q \in Processes : task'[q].suffixed \subseteq renamed
    BY <2>1 DEF LedgerInv, LabelsOK
  <2>6. \A q \in Processes : \A r, s \in task'[q].rows : r.activity = s.activity => r.suffixed = s.suffixed
    BY <2>1 DEF LedgerInv, LabelsOK
  <2>7. ASSUME NEW u \in Threads, at'[u] = "fetch", NEW r \in task'[ProcessOf[u]].rows
        PROVE  r.suffixed = (AccountOf[r.activity] \in task'[ProcessOf[u]].suffixed)
    BY <1>2, <2>7 DEF LedgerInv, LabelsOK
  <2>8. QED BY <1>1, <2>3, <2>4, <2>5, <2>6, <2>7 DEF LabelsOK, RowsOK
<1>14. SinceOK'
  <2>1. ASSUME NEW u \in Threads, at'[u] = "fetch", NEW a \in BrokerAccounts
        PROVE  \/ task'[ProcessOf[u]].since[a] = 0
               \/ \E r \in rows' : AccountOf[r.activity] = a /\ task'[ProcessOf[u]].since[a] = DayOf[r.activity] - OverlapDays
    <3>1. at[u] = "fetch" /\ task'[ProcessOf[u]] = task[ProcessOf[u]]
      BY <1>2, <2>1
    <3>2. \/ task[ProcessOf[u]].since[a] = 0
          \/ \E r \in rows : AccountOf[r.activity] = a /\ task[ProcessOf[u]].since[a] = DayOf[r.activity] - OverlapDays
      BY <3>1 DEF LedgerInv, SinceOK
    <3>3. QED BY <1>4, <3>1, <3>2
  <2>2. QED BY <2>1 DEF SinceOK
<1>15. ShownOK'
  <2>1. \A q \in Processes : \A x \in shown[q] : x \in Activities /\ posted[x] # Never
    BY DEF LedgerInv, ShownOK
  <2>2. ASSUME NEW u \in Threads, at'[u] \in {"fetch", "store"}, NEW x \in shown[ProcessOf[u]], Timely(x), Whole(AccountOf[x])
        PROVE  \/ AccountOf[x] \in task'[ProcessOf[u]].left
               \/ Has(rows, x)' \/ Has(task'[ProcessOf[u]].rows, x)
    <3>1. at[u] \in {"fetch", "store"} /\ task'[ProcessOf[u]] = task[ProcessOf[u]] /\ x \in Activities
      BY <1>2, <2>1, <2>2
    <3>2. \/ AccountOf[x] \in task[ProcessOf[u]].left
          \/ Has(rows, x) \/ Has(task[ProcessOf[u]].rows, x)
      BY <2>2, <3>1 DEF LedgerInv, ShownOK
    <3>3. QED BY <1>5, <3>1, <3>2
  <2>3. ASSUME NEW q \in Processes, synced'[q], NEW x \in shown[q], Timely(x), Whole(AccountOf[x]) PROVE Has(rows, x)'
    <3>1. x \in Activities
      BY <2>1, <2>3
    <3>2. CASE q = p
      <4>1. AccountOf[x] \notin task[p].left
        BY <1>2
      <4>2. Has(rows, x) \/ Has(task[p].rows, x)
        BY <1>1, <2>3, <3>2, <4>1 DEF LedgerInv, ShownOK
      <4>3. QED BY <1>5, <3>1, <4>2
    <3>3. CASE q # p
      BY <1>2, <1>5, <2>3, <3>1, <3>3 DEF LedgerInv, ShownOK
    <3>4. QED BY <3>2, <3>3
  <2>4. \A u \in Threads : ProcessOf[u] \in Processes
    BY Constants
  <2>5. QED BY <1>1, <1>7, <2>1, <2>2, <2>3, <2>4 DEF ShownOK, Has
<1>16. QED BY <1>2, <1>9, <1>10, <1>11, <1>12, <1>13, <1>14, <1>15 DEF LedgerInv

LEMMA InvRefuse == ASSUME LedgerInv, NEW t \in Threads, Refuse(t) PROVE LedgerInv'
<1> DEFINE p == ProcessOf[t]
<1>1. /\ UNCHANGED <<today, posted, renamed, rows, cut>> /\ at[t] = "store" /\ Synced(t)
      /\ task' = [task EXCEPT ![p] = NoTask] /\ shown' = [shown EXCEPT ![p] = {}]
  BY DEF Refuse
<1>2. /\ \A u \in Threads : at'[u] \in {"fetch", "store"} => at[u] = at'[u] /\ ProcessOf[u] # p /\ ProcessOf[u] \in Processes
      /\ \A q \in Processes : q # p => synced'[q] = synced[q] /\ task'[q] = task[q]
      /\ task'[p] = NoTask /\ p \in Processes
      /\ LocksOK' /\ PostedOK'
      /\ task' \in [Processes -> Task] /\ synced' \in [Processes -> BOOLEAN]
      /\ lock' \in [Processes -> Threads \cup {Nobody}]
      /\ at' \in [Threads -> {"start", "begin", "fetch", "store", "read"}]
  <2>1. UNCHANGED <<today, posted, renamed, cut>>
    BY <1>1
  <2>2. QED BY <1>1, <2>1, Done
<1>3. NoTask.rows = {} /\ NoTask.suffixed = {} /\ NoTask.left = {}
  BY DEF NoTask
<1>4. shown'[p] = {} /\ (\A q \in Processes : q # p => shown'[q] = shown[q]) /\ shown' \in [Processes -> SUBSET Activities]
  BY <1>1, <1>2 DEF LedgerInv, Types, LedgerTypeOK
<1>5. \A q \in Processes : task'[q].rows \subseteq task[q].rows /\ task'[q].suffixed \subseteq task[q].suffixed
  BY <1>2, <1>3
<1>6. Types'
  <2>1. \A q \in Processes : task'[q].rows \subseteq LedgerRows /\ task'[q].left \subseteq BrokerAccounts
    BY <1>2 DEF Task
  <2>2. QED BY <1>1, <1>2, <1>4, <2>1 DEF LedgerInv, Types, LedgerTypeOK
<1>7. OneRowAnActivity' /\ RowsClosed'
  BY <1>1 DEF LedgerInv, OneRowAnActivity, RowsClosed, Before, Whole, Timely, Has
<1>8. BatchesClosed'
  <2>1. ASSUME NEW q \in Processes, NEW r \in task'[q].rows, NEW x \in Activities, Before(x, r.activity)
        PROVE  Has(rows, x) \/ Has(task'[q].rows, x)
    BY <1>2, <1>3, <2>1 DEF LedgerInv, BatchesClosed
  <2>2. QED BY <1>1, <2>1 DEF BatchesClosed, Before, Whole, Timely, Has
<1>9. LabelsOK'
  <2>1. RowsOK(rows) /\ \A q \in Processes : RowsOK(task'[q].rows)
    BY <1>5 DEF LedgerInv, LabelsOK, RowsOK
  <2>2. \A q \in Processes : task'[q].suffixed \subseteq renamed
    BY <1>5 DEF LedgerInv, LabelsOK
  <2>3. \A q \in Processes : \A r, s \in task'[q].rows : r.activity = s.activity => r.suffixed = s.suffixed
    BY <1>5 DEF LedgerInv, LabelsOK
  <2>4. ASSUME NEW u \in Threads, at'[u] = "fetch", NEW r \in task'[ProcessOf[u]].rows
        PROVE  r.suffixed = (AccountOf[r.activity] \in task'[ProcessOf[u]].suffixed)
    BY <1>2, <2>4 DEF LedgerInv, LabelsOK
  <2>5. QED BY <1>1, <2>1, <2>2, <2>3, <2>4 DEF LabelsOK, RowsOK
<1>10. SinceOK'
  <2>1. ASSUME NEW u \in Threads, at'[u] = "fetch" PROVE at[u] = "fetch" /\ task'[ProcessOf[u]] = task[ProcessOf[u]]
    BY <1>2, <2>1
  <2>2. ASSUME NEW u \in Threads, at'[u] = "fetch", NEW a \in BrokerAccounts
        PROVE  \/ task'[ProcessOf[u]].since[a] = 0
               \/ \E r \in rows : AccountOf[r.activity] = a /\ task'[ProcessOf[u]].since[a] = DayOf[r.activity] - OverlapDays
    BY <2>1, <2>2 DEF LedgerInv, SinceOK
  <2>3. QED BY <1>1, <2>2 DEF SinceOK
<1>11. ShownOK'
  <2>1. \A q \in Processes : \A x \in shown'[q] : x \in shown[q] /\ q # p /\ x \in Activities /\ posted[x] # Never
    BY <1>4 DEF LedgerInv, ShownOK
  <2>2. ASSUME NEW u \in Threads, at'[u] \in {"fetch", "store"}, NEW x \in shown'[ProcessOf[u]], Timely(x), Whole(AccountOf[x])
        PROVE  \/ AccountOf[x] \in task'[ProcessOf[u]].left
               \/ Has(rows, x) \/ Has(task'[ProcessOf[u]].rows, x)
    <3>1. at[u] \in {"fetch", "store"} /\ task'[ProcessOf[u]] = task[ProcessOf[u]] /\ x \in shown[ProcessOf[u]]
      BY <1>2, <2>1, <2>2
    <3>2. QED BY <2>2, <3>1 DEF LedgerInv, ShownOK
  <2>3. ASSUME NEW q \in Processes, synced'[q], NEW x \in shown'[q], Timely(x), Whole(AccountOf[x]) PROVE Has(rows, x)
    BY <1>2, <2>1, <2>3 DEF LedgerInv, ShownOK
  <2>4. \A x \in Activities : (Timely(x)' <=> Timely(x)) /\ (Whole(AccountOf[x])' <=> Whole(AccountOf[x]))
    BY <1>1 DEF Timely, Whole
  <2>5. \A u \in Threads : ProcessOf[u] \in Processes
    BY Constants
  <2>6. QED BY <1>1, <2>1, <2>2, <2>3, <2>4, <2>5 DEF ShownOK, Has
<1>12. QED BY <1>2, <1>6, <1>7, <1>8, <1>9, <1>10, <1>11 DEF LedgerInv

-----------------------------------------------------------------------------
LEMMA InvStill == ASSUME LedgerInv, UNCHANGED ledgerVars PROVE LedgerInv'
<1>1. UNCHANGED <<today, posted, renamed, rows, synced, lock, at, task, cut, shown>>
  BY DEF ledgerVars
<1>2. Types' /\ PostedOK' /\ LocksOK'
  BY <1>1 DEF LedgerInv, Types, LedgerTypeOK, PostedOK, LocksOK, Syncs
<1>3. LabelsOK' /\ OneRowAnActivity' /\ SinceOK'
  BY <1>1 DEF LedgerInv, LabelsOK, RowsOK, OneRowAnActivity, SinceOK
<1>4. RowsClosed' /\ BatchesClosed' /\ ShownOK'
  BY <1>1 DEF LedgerInv, RowsClosed, BatchesClosed, ShownOK, Before, Whole, Timely, Has
<1>5. QED BY <1>2, <1>3, <1>4 DEF LedgerInv

LEMMA LedgerSteps == LedgerInv /\ [LedgerNext]_ledgerVars => LedgerInv'
<1> SUFFICES ASSUME LedgerInv, [LedgerNext]_ledgerVars PROVE LedgerInv'
  OBVIOUS
<1>1. CASE NextDay
  BY <1>1, InvNextDay
<1>2. CASE \E x \in Activities : Post(x)
  BY <1>2, InvPost
<1>3. CASE \E a \in BrokerAccounts : Rename(a)
  BY <1>3, InvRename
<1>4. ASSUME NEW t \in Threads, ThreadStep(t) PROVE LedgerInv'
  <2>1. CASE Enter(t)
    BY <2>1, InvEnter
  <2>2. CASE Begin(t)
    BY <2>2, InvBegin
  <2>3. CASE FetchAccount(t)
    BY <2>3, InvFetchAccount
  <2>4. CASE LookUp(t)
    BY <2>4, InvLookUp
  <2>5. CASE Commit(t)
    BY <2>5, InvCommit
  <2>6. CASE Refuse(t)
    BY <2>6, InvRefuse
  <2>7. QED BY <1>4, <2>1, <2>2, <2>3, <2>4, <2>5, <2>6 DEF ThreadStep
<1>5. CASE UNCHANGED ledgerVars
  BY <1>5, InvStill
<1>6. QED BY <1>1, <1>2, <1>3, <1>4, <1>5 DEF LedgerNext

LEMMA InvIsEnough == LedgerInv => LedgerIsTheBrokers
<1> SUFFICES ASSUME LedgerInv PROVE LedgerIsTheBrokers
  OBVIOUS
<1>1. OneRowAnActivity
  BY DEF LedgerInv
<1>2. NothingIsMissed
  <2>1. ASSUME NEW t \in Threads, at[t] = "read", NEW x \in shown[ProcessOf[t]],
               Timely(x), \A q \in Processes : <<q, AccountOf[x]>> \notin cut
        PROVE  \E r \in rows : r.activity = x
    <3>1. synced[ProcessOf[t]] /\ ProcessOf[t] \in Processes
      BY <2>1, Constants DEF LedgerInv, LocksOK
    <3>2. Whole(AccountOf[x])
      BY <2>1 DEF Whole
    <3>3. Has(rows, x)
      BY <2>1, <3>1, <3>2 DEF LedgerInv, ShownOK
    <3>4. QED BY <3>3 DEF Has
  <2>2. QED BY <2>1 DEF NothingIsMissed
<1>3. OneSyncAProcess
  BY OneAtATime DEF LedgerInv, LocksOK, OneSyncAProcess, Syncs
<1>4. QED BY <1>1, <1>2, <1>3 DEF LedgerIsTheBrokers

(* However many threads and processes ask for the activities, whatever pages *)
(* fail and whichever accounts are renamed, the ledger has every activity   *)
(* once, and misses none that was timely and of an account without a lost   *)
(* page (data/activity_ledger.sync_activities, ledger_activities).          *)
THEOREM TheLedgerIsTheBrokers == LedgerSpec => []LedgerIsTheBrokers
<1>1. LedgerInit => LedgerInv
  BY LedgerStart
<1>2. LedgerInv /\ [LedgerNext]_ledgerVars => LedgerInv'
  BY LedgerSteps
<1>3. LedgerInv => LedgerIsTheBrokers
  BY InvIsEnough
<1>4. QED BY <1>1, <1>2, <1>3, PTL DEF LedgerSpec

-----------------------------------------------------------------------------
(* The weekly mail.  While a run is under way nobody else sends, so what it    *)
(* loaded of a stock's row at its start still tells every headline sent of   *)
(* it, and what it writes back adds to them.                                 *)

MailRow == [written : Nat, shown : SUBSET Headlines]
Block == [news : SUBSET Headlines, written : Nat \cup {Unwritten}]
MailTypes ==
    /\ date \in Nat /\ run \in Nat /\ step \in {"idle", "rank", "views", "record", "health", "send"}
    /\ feed \subseteq Holdings \X Headlines /\ ranked \subseteq Holdings \X Headlines /\ data \subseteq Holdings
    /\ views \in [Holdings -> MailRow \cup {Unwritten}] /\ loaded \in [Holdings -> MailRow \cup {Unwritten}]
    /\ blocks \in [Holdings -> Block \cup {Unwritten}]

RunsOK == \A m \in sent : m.run \in Nat /\ m.run <= run /\ (step # "idle" => m.run < run)

ViewsOK ==
    /\ \A t \in Holdings : step # "idle" /\ loaded[t] # Unwritten => views[t] # Unwritten
    /\ \A m \in sent : \A t \in Holdings \ spoiled :
          /\ m.blocks[t].news \subseteq Shown(views[t])
          /\ step # "idle" /\ t \in data => m.blocks[t].news \subseteq Shown(loaded[t])
    /\ step # "idle" => \A k \in ranked : k[2] \notin Shown(loaded[k[1]])

BlocksOK ==
    /\ step = "rank" => \A t \in Holdings : blocks[t] = Unwritten
    /\ step \in {"record", "health", "send"} => \A t \in Holdings : blocks[t] # Unwritten
    /\ step # "idle" => \A t \in Holdings \ spoiled : blocks[t] # Unwritten =>
          /\ blocks[t].news \subseteq Shown(views[t])
          /\ \A m \in sent : m.blocks[t].news \cap blocks[t].news = {}

LinesOK ==
    /\ mailed.sell \cap mailed.add = {}
    /\ step \in {"health", "send"} /\ <<run, "suggested">> \notin missed => \A t \in mailed.sell : <<date, t>> \in suggested
    /\ step = "send" /\ <<run, "health">> \notin missed => doctor = failures

MailInv == MailTypes /\ RunsOK /\ ViewsOK /\ BlocksOK /\ LinesOK /\ MailReadsWell /\ RecordsTellTheMail

LEMMA RowsAreWritten ==
    /\ \A r \in MailRow : r # Unwritten /\ Shown(r) = r.shown
    /\ \A b \in Block : b # Unwritten
    /\ Shown(Unwritten) = {} /\ Placeholder \in Block /\ Placeholder.news = {}
BY MailAssumption DEF MailRow, Block, Shown, Placeholder

(* Some mail day is the first of those left.                                  *)
LEMMA FirstDay == ASSUME NEW S \in SUBSET MailDays, S # {} PROVE Min(S) \in Nat
<1>1. S \in SUBSET Nat
  BY MailAssumption
<1>2. \E x \in S : \A y \in S : x <= y
  BY <1>1, LeastNumber
<1>3. Min(S) \in S
  BY <1>2 DEF Min
<1>4. QED BY <1>1, <1>3

LEMMA NoBlockYet == NoBlocks \in [Holdings -> Block \cup {Unwritten}] /\ \A t \in Holdings : NoBlocks[t] = Unwritten
BY DEF NoBlocks

LEMMA MailStarts == MailInit => MailInv
<1> SUFFICES ASSUME MailInit PROVE MailInv
  OBVIOUS
<1>1. date \in Nat
  BY MailAssumption, FirstDay DEF MailInit
<1>2. MailTypes
  BY <1>1, NoBlockYet DEF MailInit, MailTypes
<1>3. RunsOK /\ ViewsOK /\ BlocksOK /\ LinesOK
  BY DEF MailInit, RunsOK, ViewsOK, BlocksOK, LinesOK, NoLines
<1>4. MailReadsWell /\ RecordsTellTheMail
  BY DEF MailInit, MailReadsWell, ShownOnce, NoMixedAdvice, RecordsTellTheMail, LedgerKnowsTheMail, DoctorTellsTheLastMail
<1>5. QED BY <1>2, <1>3, <1>4 DEF MailInv

(* What a run keeps to itself is gone with it.                               *)
LEMMA SlateIsClean ==
    ASSUME CleanSlate
    PROVE  /\ data' \subseteq Holdings /\ ranked' \subseteq Holdings \X Headlines
           /\ loaded' \in [Holdings -> MailRow \cup {Unwritten}] /\ blocks' \in [Holdings -> Block \cup {Unwritten}]
           /\ mailed'.sell \cap mailed'.add = {}
BY NoBlockYet DEF CleanSlate, NoLines

(* Between two runs.                                                         *)
LEMMA InvBetween == ASSUME MailInv, Publish \/ NextMail PROVE MailInv'
<1>1. /\ UNCHANGED <<run, step, stored, loaded, data, ranked, blocks, failures, mailed>> /\ step = "idle"
      /\ date' \in Nat /\ feed' \subseteq Holdings \X Headlines
  <2>1. CASE Publish
    BY <2>1 DEF Publish, MailInv, MailTypes
  <2>2. CASE NextMail
    <3>1. date' \in Nat
      BY <2>2, FirstDay DEF NextMail
    <3>2. QED BY <2>2, <3>1 DEF NextMail, MailInv, MailTypes
  <2>3. QED BY <2>1, <2>2
<1>2. UNCHANGED <<views, suggested, doctor, sent, spoiled, missed>>
  BY <1>1 DEF stored
<1>3. MailTypes'
  BY <1>1, <1>2 DEF MailInv, MailTypes
<1>4. RunsOK' /\ BlocksOK'
  BY <1>1, <1>2 DEF MailInv, RunsOK, BlocksOK, Shown
<1>5. ViewsOK'
  BY <1>1, <1>2 DEF MailInv, ViewsOK, Shown
<1>6. LinesOK'
  BY <1>1, <1>2 DEF MailInv, LinesOK
<1>7. MailReadsWell' /\ RecordsTellTheMail'
  BY <1>1, <1>2 DEF MailInv, MailReadsWell, ShownOnce, NoMixedAdvice, RecordsTellTheMail, LedgerKnowsTheMail, DoctorTellsTheLastMail
<1>8. QED BY <1>3, <1>4, <1>5, <1>6, <1>7 DEF MailInv

(* What the mails say does not change while a run is under way.               *)
LEMMA MailsStand ==
    ASSUME MailInv, UNCHANGED <<run, sent, suggested>>, step # "idle", step' # "idle",
           spoiled \subseteq spoiled', missed \subseteq missed'
    PROVE  RunsOK' /\ MailReadsWell' /\ RecordsTellTheMail'
<1>1. RunsOK'
  BY DEF MailInv, RunsOK
<1>2. MailReadsWell'
  BY DEF MailInv, MailReadsWell, ShownOnce, NoMixedAdvice
<1>3. RecordsTellTheMail'
  BY DEF MailInv, RecordsTellTheMail, LedgerKnowsTheMail, DoctorTellsTheLastMail
<1>4. QED BY <1>1, <1>2, <1>3

LEMMA InvStart == ASSUME MailInv, Start PROVE MailInv'
<1>1. /\ step = "idle" /\ step' = "rank" /\ run' = run + 1 /\ blocks' = NoBlocks /\ ranked' = {} /\ mailed' = NoLines
      /\ UNCHANGED <<date, feed, views, suggested, doctor, sent, missed>>
  BY DEF Start
<1>2. PICK down \in SUBSET Holdings, busy \in SUBSET Holdings :
          /\ data' = Holdings \ down
          /\ loaded' = [t \in Holdings |-> IF t \in busy \cup down THEN Unwritten ELSE views[t]]
          /\ spoiled' = spoiled \cup busy
  BY DEF Start
<1>3. MailTypes'
  <2>1. loaded' \in [Holdings -> MailRow \cup {Unwritten}]
    BY <1>2 DEF MailInv, MailTypes
  <2>2. QED BY <1>1, <1>2, <2>1, NoBlockYet DEF MailInv, MailTypes
<1>4. RunsOK'
  <2>1. ASSUME NEW m \in sent PROVE m.run \in Nat /\ m.run <= run + 1 /\ m.run < run + 1
    BY DEF MailInv, RunsOK, MailTypes
  <2>2. QED BY <1>1, <2>1 DEF RunsOK
<1>5. ViewsOK'
  BY <1>1, <1>2 DEF MailInv, ViewsOK, Shown
<1>6. BlocksOK' /\ LinesOK'
  BY <1>1, NoBlockYet DEF BlocksOK, LinesOK, NoLines
<1>7. MailReadsWell' /\ RecordsTellTheMail'
  BY <1>1, <1>2 DEF MailInv, MailReadsWell, ShownOnce, NoMixedAdvice, RecordsTellTheMail, LedgerKnowsTheMail, DoctorTellsTheLastMail
<1>8. QED BY <1>3, <1>4, <1>5, <1>6, <1>7 DEF MailInv

LEMMA InvRank == ASSUME MailInv, Rank PROVE MailInv'
<1>1. /\ step = "rank" /\ step' = "views"
      /\ UNCHANGED <<date, run, feed, views, suggested, doctor, sent, spoiled, missed, loaded, data, blocks, mailed>>
      /\ \A k \in ranked' : k \in feed /\ k[1] \in data /\ k[2] \notin Shown(loaded[k[1]])
  BY DEF Rank, stored
<1>2. MailTypes'
  BY <1>1 DEF MailInv, MailTypes
<1>3. RunsOK' /\ MailReadsWell' /\ RecordsTellTheMail'
  BY <1>1, MailsStand
<1>4. ViewsOK'
  BY <1>1 DEF MailInv, ViewsOK, Shown
<1>5. BlocksOK' /\ LinesOK'
  BY <1>1 DEF MailInv, BlocksOK, LinesOK, Shown
<1>6. QED BY <1>2, <1>3, <1>4, <1>5 DEF MailInv

(* A row that is written keeps what it told, and takes the block's headlines.  *)
LEMMA WrittenRow ==
    ASSUME NEW row \in MailRow \cup {Unwritten}, NEW news \in SUBSET Headlines, NEW d \in Nat
    PROVE  /\ row # Unwritten => /\ Remember(row, news) \in MailRow
                                 /\ Shown(Remember(row, news)) = news \cup Shown(row)
           /\ Remember([written |-> d, shown |-> Shown(row)], news) \in MailRow
           /\ Shown(Remember([written |-> d, shown |-> Shown(row)], news)) = news \cup Shown(row)
<1>1. ASSUME NEW r \in MailRow PROVE Remember(r, news) \in MailRow /\ Shown(Remember(r, news)) = news \cup Shown(r)
  <2>1. Remember(r, news) \in MailRow /\ Remember(r, news).shown = news \cup r.shown
    BY DEF Remember, MailRow
  <2>2. QED BY <2>1, RowsAreWritten
<1>2. Shown(row) \in SUBSET Headlines
  BY RowsAreWritten DEF MailRow
<1>3. [written |-> d, shown |-> Shown(row)] \in MailRow /\ Shown([written |-> d, shown |-> Shown(row)]) = Shown(row)
  <2>1. [written |-> d, shown |-> Shown(row)] \in MailRow
    BY <1>2 DEF MailRow
  <2>2. QED BY <2>1, RowsAreWritten
<1>4. QED BY <1>1, <1>3

LEMMA InvView == ASSUME MailInv, NEW t \in Holdings, View(t) PROVE MailInv'
<1> DEFINE news == {k[2] : k \in {j \in ranked : j[1] = t}}
<1>1. /\ step = "views" /\ blocks[t] = Unwritten
      /\ UNCHANGED <<date, run, step, feed, loaded, data, ranked, mailed, suggested, doctor, sent, missed>>
  BY DEF View
<1>2. PICK moved \in BOOLEAN, busy \in BOOLEAN :
        \E silent \in IF t \in data /\ Refresh(t, moved) THEN BOOLEAN ELSE {FALSE} :
          LET fresh == Refresh(t, moved)
              kept == IF views[t] = Unwritten THEN Unwritten ELSE Remember(views[t], news)
              rewritten == Remember([written |-> date, shown |-> Shown(views[t])], news)
          IN IF t \notin data \/ silent
             THEN /\ ~busy /\ blocks' = [blocks EXCEPT ![t] = Placeholder] /\ failures' = TRUE
                  /\ UNCHANGED <<views, spoiled>>
             ELSE /\ blocks' = [blocks EXCEPT ![t] = [news |-> news, written |-> IF fresh THEN date ELSE loaded[t].written]]
                  /\ views' = IF busy THEN views ELSE [views EXCEPT ![t] = IF fresh THEN rewritten ELSE kept]
                  /\ spoiled' = IF busy THEN spoiled \cup {t} ELSE spoiled
                  /\ UNCHANGED failures
  BY DEF View
<1> DEFINE fresh == Refresh(t, moved)
           kept == IF views[t] = Unwritten THEN Unwritten ELSE Remember(views[t], news)
           rewritten == Remember([written |-> date, shown |-> Shown(views[t])], news)
<1>3. /\ views \in [Holdings -> MailRow \cup {Unwritten}] /\ loaded \in [Holdings -> MailRow \cup {Unwritten}]
      /\ blocks \in [Holdings -> Block \cup {Unwritten}] /\ date \in Nat
  BY DEF MailInv, MailTypes
<1>4. news \in SUBSET Headlines /\ news \cap Shown(loaded[t]) = {}
  <2>1. ranked \subseteq Holdings \X Headlines
    BY DEF MailInv, MailTypes
  <2>2. \A k \in ranked : k[2] \in Headlines /\ k[2] \notin Shown(loaded[k[1]])
    BY <1>1, <2>1 DEF MailInv, ViewsOK
  <2>3. QED BY <2>2
<1>5. ~fresh => loaded[t] \in MailRow /\ views[t] \in MailRow
  <2>1. ~fresh => loaded[t] # Unwritten
    BY DEF Refresh
  <2>2. loaded[t] # Unwritten => views[t] # Unwritten
    BY <1>1 DEF MailInv, ViewsOK
  <2>3. QED BY <1>3, <2>1, <2>2
<1>6. (IF fresh THEN rewritten ELSE kept) \in MailRow
      /\ Shown(IF fresh THEN rewritten ELSE kept) = news \cup Shown(views[t])
  <2>1. views[t] \in MailRow \cup {Unwritten}
    BY <1>3
  <2>2. CASE fresh
    <3>1. rewritten \in MailRow /\ Shown(rewritten) = news \cup Shown(views[t])
      BY <1>3, <1>4, <2>1, WrittenRow
    <3>2. QED BY <2>2, <3>1
  <2>3. CASE ~fresh
    <3>1. views[t] # Unwritten
      BY <1>5, <2>3, RowsAreWritten
    <3>2. kept = Remember(views[t], news)
      BY <3>1
    <3>3. kept \in MailRow /\ Shown(kept) = news \cup Shown(views[t])
      BY <1>3, <1>4, <2>1, <3>1, <3>2, WrittenRow
    <3>4. QED BY <2>3, <3>3
  <2>4. QED BY <2>2, <2>3
<1> DEFINE block == [news |-> news, written |-> IF fresh THEN date ELSE loaded[t].written]
<1>7. block \in Block /\ block.news = news
  <2>1. (IF fresh THEN date ELSE loaded[t].written) \in Nat
    BY <1>3, <1>5 DEF MailRow
  <2>2. QED BY <1>4, <2>1 DEF Block
<1> DEFINE row == IF fresh THEN rewritten ELSE kept
<1>8. row \in MailRow /\ Shown(row) = news \cup Shown(views[t])
  BY <1>6
<1>9. \/ t \notin data \/ t \in data
  OBVIOUS
<1>10. \/ /\ blocks' = [blocks EXCEPT ![t] = Placeholder] /\ UNCHANGED <<views, spoiled>>
       \/ /\ t \in data /\ blocks' = [blocks EXCEPT ![t] = block]
          /\ \/ UNCHANGED views /\ spoiled' = spoiled \cup {t}
             \/ views' = [views EXCEPT ![t] = row] /\ UNCHANGED spoiled
  BY <1>2
<1> HIDE DEF fresh, kept, rewritten, block, row, news
<1>11. /\ \A u \in Holdings : u # t => blocks'[u] = blocks[u] /\ views'[u] = views[u]
       /\ blocks'[t] \in Block /\ blocks' \in [Holdings -> Block \cup {Unwritten}]
       /\ views' \in [Holdings -> MailRow \cup {Unwritten}]
       /\ spoiled \subseteq spoiled'
       /\ views[t] # Unwritten => views'[t] # Unwritten
       /\ Shown(views[t]) \subseteq Shown(views'[t])
  BY <1>3, <1>7, <1>8, <1>10, RowsAreWritten
<1>12. t \notin spoiled' =>
          /\ blocks'[t].news \subseteq Shown(views'[t])
          /\ \A m \in sent : m.blocks[t].news \cap blocks'[t].news = {}
  <2>1. CASE blocks' = [blocks EXCEPT ![t] = Placeholder]
    BY <1>3, <2>1, RowsAreWritten
  <2>2. CASE t \in data /\ blocks' = [blocks EXCEPT ![t] = block] /\ spoiled' = spoiled \cup {t}
    BY <2>2
  <2>3. CASE t \in data /\ blocks' = [blocks EXCEPT ![t] = block] /\ views' = [views EXCEPT ![t] = row] /\ UNCHANGED spoiled
    <3>1. blocks'[t] = block /\ views'[t] = row
      BY <1>3, <2>3
    <3>2. ASSUME NEW m \in sent, t \notin spoiled PROVE m.blocks[t].news \subseteq Shown(loaded[t])
      BY <1>1, <2>3, <3>2 DEF MailInv, ViewsOK
    <3>3. QED BY <1>4, <1>7, <1>8, <2>3, <3>1, <3>2
  <2>4. QED BY <1>10, <2>1, <2>2, <2>3
<1>13. MailTypes'
  BY <1>1, <1>11 DEF MailInv, MailTypes
<1>14. RunsOK' /\ MailReadsWell' /\ RecordsTellTheMail'
  <2>1. step # "idle" /\ step' # "idle"
    BY <1>1
  <2>2. QED BY <1>1, <1>11, <2>1, MailsStand
<1>15. \A u \in Holdings : Shown(views[u]) \subseteq Shown(views'[u]) /\ (views[u] # Unwritten => views'[u] # Unwritten)
  BY <1>11
<1>16. ViewsOK'
  <2>1. ASSUME NEW m \in sent, NEW u \in Holdings \ spoiled'
        PROVE  m.blocks[u].news \subseteq Shown(views'[u]) /\ (u \in data => m.blocks[u].news \subseteq Shown(loaded[u]))
    BY <1>1, <1>11, <1>15 DEF MailInv, ViewsOK
  <2>2. \A u \in Holdings : loaded[u] # Unwritten => views'[u] # Unwritten
    BY <1>1, <1>15 DEF MailInv, ViewsOK
  <2>3. \A k \in ranked : k[2] \notin Shown(loaded[k[1]])
    BY <1>1 DEF MailInv, ViewsOK
  <2>4. QED BY <1>1, <2>1, <2>2, <2>3 DEF ViewsOK, Shown
<1>17. BlocksOK'
  <2>1. ASSUME NEW u \in Holdings \ spoiled', blocks'[u] # Unwritten
        PROVE  /\ blocks'[u].news \subseteq Shown(views'[u])
               /\ \A m \in sent : m.blocks[u].news \cap blocks'[u].news = {}
    <3>1. CASE u = t
      BY <1>12, <3>1
    <3>2. CASE u # t
      BY <1>1, <1>11, <2>1, <3>2 DEF MailInv, BlocksOK
    <3>3. QED BY <3>1, <3>2
  <2>2. QED BY <1>1, <2>1 DEF BlocksOK, Shown
<1>18. LinesOK'
  BY <1>1 DEF MailInv, LinesOK
<1>19. QED BY <1>13, <1>14, <1>16, <1>17, <1>18 DEF MailInv

(* What is flagged for a sale gets no new money.                              *)
LEMMA InvAdvise == ASSUME MailInv, Advise PROVE MailInv'
<1>1. /\ step = "views" /\ step' = "record" /\ \A t \in Holdings : blocks[t] # Unwritten
      /\ UNCHANGED <<date, run, feed, views, suggested, doctor, sent, spoiled, missed, loaded, data, ranked, blocks, failures>>
  BY DEF Advise, stored
<1>2. mailed'.sell \cap mailed'.add = {}
  <2>1. CASE mailed' = NoLines
    BY <2>1 DEF NoLines
  <2>2. ASSUME NEW found, mailed' = [sell |-> Sales(found), add |-> AddOn(found)]
        PROVE  mailed'.sell \cap mailed'.add = {}
    BY <2>2 DEF Sales, AddOn, Flagged
  <2>3. mailed' = NoLines \/ \E found : mailed' = [sell |-> Sales(found), add |-> AddOn(found)]
    BY DEF Advise
  <2>4. QED BY <2>1, <2>2, <2>3
<1>3. MailTypes'
  BY <1>1 DEF MailInv, MailTypes
<1>4. RunsOK' /\ MailReadsWell' /\ RecordsTellTheMail'
  BY <1>1, MailsStand
<1>5. ViewsOK' /\ BlocksOK'
  BY <1>1 DEF MailInv, ViewsOK, BlocksOK, Shown
<1>6. LinesOK'
  BY <1>1, <1>2 DEF LinesOK
<1>7. QED BY <1>3, <1>4, <1>5, <1>6 DEF MailInv

LEMMA InvRecordAdvice == ASSUME MailInv, RecordAdvice PROVE MailInv'
<1>1. /\ step = "record" /\ step' = "health"
      /\ UNCHANGED <<date, run, feed, views, doctor, sent, spoiled, loaded, data, ranked, blocks, failures, mailed>>
  BY DEF RecordAdvice
<1>2. PICK busy \in BOOLEAN :
          /\ suggested' = IF busy THEN suggested ELSE suggested \cup NewRows(mailed.sell)
          /\ missed' = IF busy THEN missed \cup {<<run, "suggested">>} ELSE missed
  BY DEF RecordAdvice
<1>3. suggested \subseteq suggested' /\ missed \subseteq missed'
  BY <1>2
<1>4. <<run, "suggested">> \notin missed' => \A t \in mailed.sell : <<date, t>> \in suggested'
  BY <1>2 DEF NewRows
<1>5. MailTypes'
  BY <1>1 DEF MailInv, MailTypes
<1>6. RunsOK' /\ MailReadsWell'
  BY <1>1 DEF MailInv, RunsOK, MailReadsWell, ShownOnce, NoMixedAdvice
<1>7. RecordsTellTheMail'
  BY <1>1, <1>3 DEF MailInv, RecordsTellTheMail, LedgerKnowsTheMail, DoctorTellsTheLastMail
<1>8. ViewsOK' /\ BlocksOK'
  BY <1>1 DEF MailInv, ViewsOK, BlocksOK, Shown
<1>9. LinesOK'
  BY <1>1, <1>4 DEF MailInv, LinesOK
<1>10. QED BY <1>5, <1>6, <1>7, <1>8, <1>9 DEF MailInv

LEMMA InvRecordHealth == ASSUME MailInv, RecordHealth PROVE MailInv'
<1>1. /\ step = "health" /\ step' = "send"
      /\ UNCHANGED <<date, run, feed, views, suggested, sent, spoiled, loaded, data, ranked, blocks, failures, mailed>>
  BY DEF RecordHealth
<1>2. PICK busy \in BOOLEAN :
          /\ doctor' = IF busy THEN doctor ELSE Replaced(doctor, failures)
          /\ missed' = IF busy THEN missed \cup {<<run, "health">>} ELSE missed
  BY DEF RecordHealth
<1>3. missed \subseteq missed' /\ (<<run, "health">> \notin missed' => doctor' = failures)
  BY <1>2 DEF Replaced
<1>4. MailTypes'
  BY <1>1 DEF MailInv, MailTypes
<1>5. RunsOK' /\ MailReadsWell' /\ RecordsTellTheMail'
  BY <1>1, <1>3, MailsStand
<1>6. ViewsOK' /\ BlocksOK'
  BY <1>1 DEF MailInv, ViewsOK, BlocksOK, Shown
<1>7. LinesOK'
  BY <1>1, <1>3 DEF MailInv, LinesOK
<1>8. QED BY <1>4, <1>5, <1>6, <1>7 DEF MailInv

(* The mail that is sent is of no earlier run, and its headlines of none.      *)
LEMMA InvSend == ASSUME MailInv, Send PROVE MailInv'
<1> DEFINE mail == [run |-> run, day |-> date, blocks |-> blocks, sell |-> mailed.sell, add |-> mailed.add, short |-> failures]
<1>1. /\ step = "send" /\ step' = "idle" /\ sent' = sent \cup {mail} /\ CleanSlate
      /\ UNCHANGED <<date, run, feed, views, suggested, doctor, spoiled, missed>>
  BY DEF Send
<1>2. /\ mail.run = run /\ mail.day = date /\ mail.blocks = blocks /\ mail.sell = mailed.sell
      /\ mail.add = mailed.add /\ mail.short = failures
  OBVIOUS
<1> HIDE DEF mail
<1>3. run \in Nat /\ \A m \in sent : m.run # run
  BY <1>1 DEF MailInv, RunsOK, MailTypes
<1>4. MailTypes'
  BY <1>1, SlateIsClean DEF MailInv, MailTypes
<1>5. RunsOK'
  BY <1>1, <1>2, <1>3 DEF MailInv, RunsOK
<1>6. \A t \in Holdings \ spoiled : /\ blocks[t].news \subseteq Shown(views[t])
                                    /\ \A m \in sent : m.blocks[t].news \cap blocks[t].news = {}
  BY <1>1 DEF MailInv, BlocksOK
<1>7. ViewsOK'
  <2>1. \A m \in sent' : \A t \in Holdings \ spoiled : m.blocks[t].news \subseteq Shown(views[t])
    BY <1>1, <1>2, <1>6 DEF MailInv, ViewsOK
  <2>2. QED BY <1>1, <2>1 DEF ViewsOK, Shown
<1>8. BlocksOK' /\ LinesOK'
  BY <1>1, SlateIsClean DEF BlocksOK, LinesOK
<1>9. MailReadsWell'
  <2>1. ASSUME NEW m \in sent', NEW n \in sent', NEW t \in Holdings \ spoiled, m.run # n.run
        PROVE  m.blocks[t].news \cap n.blocks[t].news = {}
    <3>1. CASE m \in sent /\ n \in sent
      BY <2>1, <3>1 DEF MailInv, MailReadsWell, ShownOnce
    <3>2. CASE m \in sent /\ n = mail
      BY <1>2, <1>6, <3>2
    <3>3. CASE m = mail /\ n \in sent
      BY <1>2, <1>6, <3>3
    <3>4. QED BY <1>1, <2>1, <3>1, <3>2, <3>3
  <2>2. \A m \in sent' : m.sell \cap m.add = {}
    BY <1>1, <1>2 DEF MailInv, LinesOK, MailReadsWell, NoMixedAdvice
  <2>3. QED BY <1>1, <2>1, <2>2 DEF MailReadsWell, ShownOnce, NoMixedAdvice
<1>10. RecordsTellTheMail'
  <2>1. ASSUME NEW m \in sent', <<m.run, "suggested">> \notin missed, NEW t \in m.sell PROVE <<m.day, t>> \in suggested
    <3>1. CASE m \in sent
      BY <2>1, <3>1 DEF MailInv, RecordsTellTheMail, LedgerKnowsTheMail
    <3>2. CASE m = mail
      BY <1>1, <1>2, <2>1, <3>2 DEF MailInv, LinesOK
    <3>3. QED BY <1>1, <3>1, <3>2
  <2>2. ASSUME NEW m \in sent', m.run = run, <<run, "health">> \notin missed PROVE doctor = m.short
    BY <1>1, <1>2, <1>3, <2>2 DEF MailInv, LinesOK
  <2>3. QED BY <1>1, <2>1, <2>2 DEF RecordsTellTheMail, LedgerKnowsTheMail, DoctorTellsTheLastMail
<1>11. QED BY <1>4, <1>5, <1>7, <1>8, <1>9, <1>10 DEF MailInv

LEMMA InvDie == ASSUME MailInv, Die PROVE MailInv'
<1>1. /\ step # "idle" /\ step' = "idle" /\ CleanSlate
      /\ UNCHANGED <<date, run, feed, views, suggested, doctor, sent, spoiled, missed>>
  BY DEF Die, stored
<1>2. MailTypes'
  BY <1>1, SlateIsClean DEF MailInv, MailTypes
<1>3. RunsOK' /\ ViewsOK'
  BY <1>1 DEF MailInv, RunsOK, ViewsOK, Shown
<1>4. BlocksOK' /\ LinesOK'
  BY <1>1, SlateIsClean DEF BlocksOK, LinesOK
<1>5. MailReadsWell'
  BY <1>1 DEF MailInv, MailReadsWell, ShownOnce, NoMixedAdvice
<1>6. RecordsTellTheMail'
  <2>1. \A m \in sent : m.run # run
    BY <1>1 DEF MailInv, RunsOK, MailTypes
  <2>2. QED BY <1>1, <2>1 DEF MailInv, RecordsTellTheMail, LedgerKnowsTheMail, DoctorTellsTheLastMail
<1>7. QED BY <1>2, <1>3, <1>4, <1>5, <1>6 DEF MailInv

LEMMA InvMailStill == ASSUME MailInv, UNCHANGED mailVars PROVE MailInv'
<1>1. UNCHANGED <<date, run, step, feed, views, loaded, data, ranked, blocks, failures, mailed, suggested, doctor, sent, spoiled, missed>>
  BY DEF mailVars
<1>2. MailTypes' /\ RunsOK' /\ LinesOK'
  BY <1>1 DEF MailInv, MailTypes, RunsOK, LinesOK
<1>3. ViewsOK' /\ BlocksOK'
  BY <1>1 DEF MailInv, ViewsOK, BlocksOK, Shown
<1>4. MailReadsWell' /\ RecordsTellTheMail'
  BY <1>1 DEF MailInv, MailReadsWell, ShownOnce, NoMixedAdvice, RecordsTellTheMail, LedgerKnowsTheMail, DoctorTellsTheLastMail
<1>5. QED BY <1>2, <1>3, <1>4 DEF MailInv

LEMMA MailSteps == MailInv /\ [MailNext]_mailVars => MailInv'
BY InvBetween, InvStart, InvRank, InvView, InvAdvise, InvRecordAdvice, InvRecordHealth, InvSend, InvDie, InvMailStill DEF MailNext

(* No headline comes twice to the reader and no mail contradicts itself, for  *)
(* any holdings, headlines, earnings dates and number of runs, whichever of  *)
(* them died and whatever could not be written (cli.portfolio.main).          *)
THEOREM MailsReadWell == MailSpec => []MailReadsWell
<1>1. MailInv => MailReadsWell
  BY DEF MailInv
<1>2. QED BY MailStarts, MailSteps, <1>1, PTL DEF MailSpec

(* The suggestions tell each mail's sales, under its day, and the doctor tells *)
(* how the last mail fell short, for any runs and failures.                  *)
THEOREM RecordsTell == MailSpec => []RecordsTellTheMail
<1>1. MailInv => RecordsTellTheMail
  BY DEF MailInv
<1>2. QED BY MailStarts, MailSteps, <1>1, PTL DEF MailSpec

-----------------------------------------------------------------------------
(* The harvest list.                                                        *)
\* Every trade has a row in the ledger, and none is of a later day.  An owner who
\* sold on the list's word had bought nothing so close before, and does not since.
TradeInv ==
    /\ now \in Nat
    /\ \E S : trades \in Seq(S) /\ ledger \in Seq(S)
    /\ \A i \in DOMAIN trades : trades[i].day \in Nat /\ trades[i].day <= now
    /\ \A j \in DOMAIN ledger : ledger[j].day \in Nat /\ ledger[j].day <= now
    /\ \A i \in DOMAIN trades : \E j \in DOMAIN ledger : ledger[j] = trades[i]
    /\ advice.day >= 0 => advice.day \in Nat /\ advice.rebuy = RebuyOkAfter(advice.day)
    /\ advice.day \in Int
    /\ HarvestIsClean

LEMMA TradeNumbers ==
    /\ TradeDays \in Nat /\ WASH_SALE_DAYS \in Nat /\ Quotes \in SUBSET Nat /\ Sizes \in SUBSET Nat
    /\ \A p \in Quotes : p \in Nat
BY TradeAssumption

LEMMA RowForm ==
    ASSUME NEW kind, NEW on, NEW account, NEW units, NEW price
    PROVE  /\ Row(kind, on, account, units, price).day = now
           /\ Row(kind, on, account, units, price).kind = kind
           /\ Row(kind, on, account, units, price).on = on
BY DEF Row

(* What is inserted is there, and so is what was.                            *)
LEMMA Inserted ==
    ASSUME NEW S, NEW s \in Seq(S), NEW x \in S, NEW i \in Nat, i <= Len(s)
    PROVE  /\ InsertAt(s, i + 1, x) \in Seq(S)
           /\ \E k \in DOMAIN InsertAt(s, i + 1, x) : InsertAt(s, i + 1, x)[k] = x
           /\ \A k \in DOMAIN InsertAt(s, i + 1, x) : InsertAt(s, i + 1, x)[k] = x \/ \E j \in DOMAIN s : InsertAt(s, i + 1, x)[k] = s[j]
           /\ \A j \in DOMAIN s : \E k \in DOMAIN InsertAt(s, i + 1, x) : InsertAt(s, i + 1, x)[k] = s[j]
<1> DEFINE a == SubSeq(s, 1, (i + 1) - 1)
           b == SubSeq(s, i + 1, Len(s))
           t == InsertAt(s, i + 1, x)
<1>1. t = (a \o <<x>>) \o b
  BY DEF InsertAt
<1>2. /\ a \in Seq(S) /\ Len(a) = i /\ \A j \in 1..i : a[j] = s[j]
      /\ b \in Seq(S) /\ Len(b) = Len(s) - i /\ \A j \in 1..Len(s) - i : b[j] = s[i + j]
  <2>1. (i + 1) - 1 = i
    OBVIOUS
  <2>2. a \in Seq(S) /\ Len(a) = i /\ \A j \in 1..i : a[j] = s[j]
    BY <2>1
  <2>3. b \in Seq(S) /\ Len(b) = Len(s) - i /\ \A j \in 1..Len(s) - i : b[j] = s[i + j]
    OBVIOUS
  <2>4. QED BY <2>2, <2>3
<1>3. Len(s) \in Nat /\ DOMAIN s = 1..Len(s) /\ i \in Nat /\ i <= Len(s)
  OBVIOUS
<1> HIDE DEF a, b, t
<1>4. /\ t \in Seq(S) /\ Len(t) = Len(s) + 1
      /\ \A j \in 1..i : t[j] = a[j]
      /\ t[i + 1] = x
      /\ \A j \in 1..Len(s) - i : t[i + 1 + j] = b[j]
  <2> DEFINE c == a \o <<x>>
  <2>1. c \in Seq(S) /\ Len(c) = i + 1 /\ (\A j \in 1..i : c[j] = a[j]) /\ c[i + 1] = x
    <3>1. <<x>> \in Seq(S) /\ Len(<<x>>) = 1 /\ <<x>>[1] = x
      OBVIOUS
    <3>2. /\ c \in Seq(S) /\ Len(c) = i + 1
          /\ \A j \in 1..i + 1 : c[j] = IF j <= i THEN a[j] ELSE <<x>>[j - i]
      BY <1>2, <3>1, ConcatProperties
    <3>3. i + 1 \in 1..i + 1 /\ i + 1 - i = 1 /\ \A j \in 1..i : j \in 1..i + 1 /\ j <= i
      BY <1>3
    <3> HIDE DEF c
    <3>4. c[i + 1] = x
      BY <1>3, <3>1, <3>2, <3>3
    <3>5. QED BY <3>2, <3>3, <3>4
  <2> HIDE DEF c
  <2>2. c \o b \in Seq(S) /\ Len(c \o b) = Len(s) + 1 /\ (\A j \in 1..i + 1 : (c \o b)[j] = c[j])
        /\ \A j \in 1..Len(s) - i : (c \o b)[i + 1 + j] = b[j]
    <3>0. /\ c \o b \in Seq(S) /\ Len(c \o b) = Len(c) + Len(b)
          /\ \A j \in 1..Len(c) + Len(b) : (c \o b)[j] = IF j <= Len(c) THEN c[j] ELSE b[j - Len(c)]
      <4>1. c \in Seq(S) /\ b \in Seq(S)
        BY <1>2, <2>1
      <4>2. QED BY <4>1, ConcatProperties
    <3>2. Len(c) + Len(b) = Len(s) + 1
      BY <1>2, <1>3, <2>1
    <3>1. /\ c \o b \in Seq(S) /\ Len(c \o b) = Len(s) + 1
          /\ \A j \in 1..Len(s) + 1 : (c \o b)[j] = IF j <= i + 1 THEN c[j] ELSE b[j - (i + 1)]
      BY <2>1, <3>0, <3>2
    <3>3. ASSUME NEW j \in 1..Len(s) - i PROVE (c \o b)[i + 1 + j] = b[j]
      <4>1. i + 1 + j \in 1..Len(s) + 1 /\ ~(i + 1 + j <= i + 1) /\ i + 1 + j - (i + 1) = j
        BY <1>3
      <4>2. QED BY <3>1, <3>2, <4>1
    <3>4. ASSUME NEW j \in 1..i + 1 PROVE (c \o b)[j] = c[j]
      <4>1. j \in 1..Len(s) + 1 /\ j <= i + 1
        BY <1>3
      <4>2. QED BY <3>1, <3>2, <4>1
    <3>5. QED BY <3>1, <3>2, <3>3, <3>4
  <2>3. t = c \o b
    BY <1>1 DEF c
  <2>4. QED BY <1>3, <2>1, <2>2, <2>3
<1>5. DOMAIN t = 1..Len(s) + 1
  BY <1>4
<1>6. ASSUME NEW y, y = x \/ \E j \in DOMAIN s : s[j] = y PROVE \E j \in DOMAIN t : t[j] = y
  <2>1. CASE y = x
    <3>1. i + 1 \in DOMAIN t
      BY <1>3, <1>5
    <3>2. QED BY <1>4, <2>1, <3>1
  <2>2. CASE \E j \in DOMAIN s : s[j] = y
    <3>1. PICK j \in 1..Len(s) : s[j] = y
      BY <1>3, <2>2
    <3>2. CASE j <= i
      <4>1. j \in 1..i /\ j \in DOMAIN t
        BY <1>3, <1>5, <3>1, <3>2
      <4>2. QED BY <1>2, <1>4, <3>1, <4>1
    <3>3. CASE j > i
      <4>1. j - i \in 1..Len(s) - i /\ i + (j - i) = j /\ i + 1 + (j - i) = j + 1 /\ j + 1 \in DOMAIN t
        BY <1>3, <1>5, <3>1, <3>3
      <4>2. b[j - i] = s[j] /\ t[j + 1] = b[j - i]
        BY <1>2, <1>4, <4>1
      <4>3. QED BY <3>1, <4>1, <4>2
    <3>4. QED BY <1>3, <3>1, <3>2, <3>3
  <2>3. QED BY <1>6, <2>1, <2>2
<1>7. (\E k \in DOMAIN t : t[k] = x) /\ \A j \in DOMAIN s : \E k \in DOMAIN t : t[k] = s[j]
  BY <1>6
<1>8. ASSUME NEW k \in DOMAIN t PROVE t[k] = x \/ \E j \in DOMAIN s : t[k] = s[j]
  <2>1. k \in 1..Len(s) + 1
    BY <1>5
  <2>2. CASE k <= i
    <3>1. k \in 1..i /\ k \in DOMAIN s
      BY <1>3, <2>1, <2>2
    <3>2. QED BY <1>2, <1>4, <3>1
  <2>3. CASE k = i + 1
    BY <1>4, <2>3
  <2>4. CASE k > i + 1
    <3>1. k - (i + 1) \in 1..Len(s) - i /\ i + 1 + (k - (i + 1)) = k /\ i + (k - (i + 1)) = k - 1 /\ k - 1 \in DOMAIN s
      BY <1>3, <2>1, <2>4
    <3>2. t[k] = b[k - (i + 1)] /\ b[k - (i + 1)] = s[k - 1]
      BY <1>2, <1>4, <3>1
    <3>3. QED BY <3>1, <3>2
  <2>5. QED BY <1>3, <2>1, <2>2, <2>3, <2>4
<1>9. QED BY <1>4, <1>7, <1>8 DEF t

\* A purchase of shares too close to a loss sale.
TooClose(x, day) == ~IsOption(x) /\ x.kind \in Purchases /\ ~(Magnitude(x.day - day) > WASH_SALE_DAYS)

LEMMA CleanForm ==
    HarvestIsClean <=> (advice.day >= 0 => \A i \in DOMAIN trades : ~TooClose(trades[i], advice.day))
BY DEF HarvestIsClean, TooClose

LEMMA Booked ==
    ASSUME TradeInv, NEW x, x.day = now, Book(x)
    PROVE  /\ now' = now /\ \E S : trades' \in Seq(S) /\ ledger' \in Seq(S)
           /\ \A i \in DOMAIN trades' : trades'[i].day \in Nat /\ trades'[i].day <= now
           /\ \A j \in DOMAIN ledger' : ledger'[j].day \in Nat /\ ledger'[j].day <= now
           /\ \A i \in DOMAIN trades' : \E j \in DOMAIN ledger' : ledger'[j] = trades'[i]
           /\ \A i \in DOMAIN trades' : trades'[i] = x \/ \E j \in DOMAIN trades : trades[j] = trades'[i]
<1>9. PICK S : trades \in Seq(S) /\ ledger \in Seq(S)
  BY DEF TradeInv
<1> DEFINE U == S \cup {x}
<1>1. x \in U /\ trades \in Seq(U) /\ ledger \in Seq(U) /\ now \in Nat
  BY <1>9 DEF TradeInv
<1> HIDE DEF U
<1>2. PICK i \in {Cardinality({j \in DOMAIN ledger : ledger[j].day < now}), Len(ledger)} : ledger' = InsertAt(ledger, i + 1, x)
  BY DEF Book
<1>6. i \in Nat /\ i <= Len(ledger)
  <2>1. Len(ledger) \in Nat /\ DOMAIN ledger = 1..Len(ledger)
    BY <1>1
  <2> DEFINE n == Len(ledger)
             before == {j \in DOMAIN ledger : ledger[j].day < now}
  <2>2. before \in SUBSET (1..n) /\ n \in Nat
    BY <2>1
  <2>3. i = Cardinality(before) \/ i = n
    BY <1>2
  <2> HIDE DEF before, n
  <2>4. IsFiniteSet(1..n) /\ Cardinality(1..n) = n
    <3>1. 1 \in Int /\ n \in Int
      BY <2>2
    <3>2. IsFiniteSet(1..n) /\ Cardinality(1..n) = IF 1 > n THEN 0 ELSE n - 1 + 1
      BY <3>1, FS_Interval
    <3>3. QED BY <2>2, <3>2
  <2>5. Cardinality(before) \in Nat /\ Cardinality(before) <= n
    BY <2>2, <2>4, FS_Subset, FS_CardinalityType
  <2>6. i \in Nat /\ i <= n
    BY <2>2, <2>3, <2>5
  <2>7. QED BY <2>6 DEF n
<1>3. /\ ledger' \in Seq(U)
      /\ \A y : (y = x \/ \E j \in DOMAIN ledger : ledger[j] = y) => \E j \in DOMAIN ledger' : ledger'[j] = y
      /\ \A k \in DOMAIN ledger' : ledger'[k] = x \/ \E j \in DOMAIN ledger : ledger'[k] = ledger[j]
  <2>1. /\ InsertAt(ledger, i + 1, x) \in Seq(U)
        /\ \E k \in DOMAIN InsertAt(ledger, i + 1, x) : InsertAt(ledger, i + 1, x)[k] = x
        /\ \A k \in DOMAIN InsertAt(ledger, i + 1, x) : InsertAt(ledger, i + 1, x)[k] = x \/ \E j \in DOMAIN ledger : InsertAt(ledger, i + 1, x)[k] = ledger[j]
        /\ \A j \in DOMAIN ledger : \E k \in DOMAIN InsertAt(ledger, i + 1, x) : InsertAt(ledger, i + 1, x)[k] = ledger[j]
    <3>1. x \in U /\ ledger \in Seq(U) /\ i \in Nat /\ i <= Len(ledger)
      BY <1>1, <1>6
    <3>2. QED BY <3>1, Inserted
  <2>2. QED BY <1>2, <2>1
<1>4. /\ trades' \in Seq(U) /\ now' = now
      /\ \A k \in DOMAIN trades' : trades'[k] = x \/ \E j \in DOMAIN trades : trades[j] = trades'[k]
  <2>1. trades' = Append(trades, x) /\ now' = now
    BY DEF Book
  <2>2. QED BY <1>1, <2>1
<1>5. ASSUME NEW k \in DOMAIN trades' PROVE trades'[k].day \in Nat /\ trades'[k].day <= now /\ \E j \in DOMAIN ledger' : ledger'[j] = trades'[k]
  <2>1. CASE trades'[k] = x
    BY <1>1, <1>3, <2>1
  <2>2. CASE \E j \in DOMAIN trades : trades[j] = trades'[k]
    BY <1>3, <2>2 DEF TradeInv
  <2>3. QED BY <1>4, <2>1, <2>2
<1>7. ASSUME NEW k \in DOMAIN ledger' PROVE ledger'[k].day \in Nat /\ ledger'[k].day <= now
  <2>1. ledger'[k] = x \/ \E j \in DOMAIN ledger : ledger'[k] = ledger[j]
    BY <1>3
  <2>2. QED BY <1>1, <2>1 DEF TradeInv
<1>8. QED BY <1>3, <1>4, <1>5, <1>7

(* What is booked on a day the owner may buy, or is no purchase, is clean.    *)
LEMMA BookedClean ==
    ASSUME TradeInv, NEW x, x.day = now, Book(x), UNCHANGED advice,
           x.on # "call" /\ x.kind \in Purchases => now >= advice.rebuy
    PROVE  TradeInv'
<1>1. \A i \in DOMAIN trades' : trades'[i] = x \/ \E j \in DOMAIN trades : trades[j] = trades'[i]
  BY Booked
<1>2. ASSUME advice.day >= 0 PROVE ~TooClose(x, advice.day)
  <2>1. SUFFICES ASSUME x.on # "call", x.kind \in Purchases PROVE Magnitude(x.day - advice.day) > WASH_SALE_DAYS
    BY DEF TooClose, IsOption
  <2>2. advice.day \in Nat /\ now >= advice.day + WASH_SALE_DAYS + 1 /\ now \in Nat
    BY <1>2, <2>1 DEF TradeInv, RebuyOkAfter
  <2>3. QED BY <2>2, TradeNumbers DEF Magnitude
<1>3. advice.day >= 0 => \A i \in DOMAIN trades' : ~TooClose(trades'[i], advice.day)
  BY <1>1, <1>2, CleanForm DEF TradeInv
<1>4. HarvestIsClean'
  BY <1>3 DEF HarvestIsClean, TooClose, IsOption
<1>5. QED BY <1>4, Booked DEF TradeInv, RebuyOkAfter

LEMMA HarvestStep == ASSUME TradeInv, Harvest PROVE TradeInv'
<1> DEFINE units == FreeUnits("taxable")
<1>1. PICK p \in Quotes : Book(Row("SELL", "share", "taxable", units, p))
  BY DEF Harvest
<1>2. WashSaleUntil(ledger, now) = 0 /\ advice' = [day |-> now, units |-> units, rebuy |-> RebuyOkAfter(now)]
  BY DEF Harvest
<1> DEFINE x == Row("SELL", "share", "taxable", units, p)
<1>3. x.day = now /\ x.kind = "SELL" /\ Book(x)
  BY <1>1, RowForm
<1> HIDE DEF x, units
<1>4. now \in Nat /\ advice'.day = now /\ advice'.rebuy = RebuyOkAfter(now) /\ now' = now
  BY <1>2, <1>3, Booked DEF TradeInv
<1>5. ASSUME NEW j \in DOMAIN ledger, ~IsOption(ledger[j]), ledger[j].kind \in Purchases
      PROVE  now - ledger[j].day \notin 0..WASH_SALE_DAYS
  <2> DEFINE P == {k \in DOMAIN ledger : /\ ~IsOption(ledger[k]) /\ ledger[k].kind \in Purchases
                                        /\ now - ledger[k].day \in 0..WASH_SALE_DAYS}
             recent == {ledger[k].day : k \in P}
  <2>1. recent = {} \/ Max(recent) + WASH_SALE_DAYS + 1 = 0
    BY <1>2 DEF WashSaleUntil
  <2>2. SUFFICES ASSUME now - ledger[j].day \in 0..WASH_SALE_DAYS PROVE FALSE
    OBVIOUS
  <2>3. ledger[j].day \in recent
    BY <1>5, <2>2
  <2>4. recent \in SUBSET Nat /\ \A d \in recent : d <= now
    BY DEF TradeInv
  <2> HIDE DEF recent
  <2>5. Max(recent) \in recent
    <3>1. recent \in SUBSET Int /\ recent # {} /\ now \in Int
      BY <1>4, <2>3, <2>4
    <3>2. QED BY <2>4, <3>1, MaxIsIn
  <2>6. Max(recent) \in Nat
    BY <2>4, <2>5
  <2>7. Max(recent) + WASH_SALE_DAYS + 1 # 0
    BY <2>6, TradeNumbers
  <2>8. QED BY <2>1, <2>3, <2>7
<1>6. ASSUME NEW i \in DOMAIN trades PROVE ~TooClose(trades[i], now)
  <2>1. SUFFICES ASSUME ~IsOption(trades[i]), trades[i].kind \in Purchases PROVE Magnitude(trades[i].day - now) > WASH_SALE_DAYS
    BY DEF TooClose
  <2>2. now - trades[i].day \notin 0..WASH_SALE_DAYS
    <3>1. PICK j \in DOMAIN ledger : ledger[j] = trades[i]
      BY DEF TradeInv
    <3>2. QED BY <1>5, <2>1, <3>1
  <2>3. trades[i].day \in Nat /\ trades[i].day <= now
    BY DEF TradeInv
  <2>4. QED BY <1>4, <2>2, <2>3, TradeNumbers DEF Magnitude
<1>7. ~TooClose(x, now)
  BY <1>3 DEF TooClose, Purchases
<1>8. \A i \in DOMAIN trades' : ~TooClose(trades'[i], now)
  BY <1>3, <1>6, <1>7, Booked
<1>9. HarvestIsClean'
  BY <1>4, <1>8 DEF HarvestIsClean, TooClose, IsOption
<1>10. QED BY <1>3, <1>4, <1>9, Booked DEF TradeInv, RebuyOkAfter

LEMMA TradeStarts == ASSUME TradeInit PROVE TradeInv
<1>1. trades = <<>> /\ ledger = <<>> /\ now = 0 /\ advice.day = -1
  BY DEF TradeInit, NoAdvice
<1>2. trades \in Seq({}) /\ ledger \in Seq({}) /\ DOMAIN trades = {} /\ DOMAIN ledger = {}
  BY <1>1
<1>3. QED BY <1>1, <1>2 DEF TradeInv, HarvestIsClean

LEMMA TradeStill == ASSUME TradeInv, now' \in Nat, now' >= now, UNCHANGED <<trades, ledger, advice>> PROVE TradeInv'
<1>1. trades' = trades /\ ledger' = ledger /\ advice' = advice /\ now \in Nat
  BY DEF TradeInv
<1>2. \A i \in DOMAIN trades' : trades'[i].day \in Nat /\ trades'[i].day <= now'
  BY <1>1 DEF TradeInv
<1>3. \A j \in DOMAIN ledger' : ledger'[j].day \in Nat /\ ledger'[j].day <= now'
  BY <1>1 DEF TradeInv
<1>4. HarvestIsClean'
  BY <1>1 DEF HarvestIsClean, TradeInv
<1>5. QED BY <1>1, <1>2, <1>3, <1>4 DEF TradeInv, RebuyOkAfter

(* For any trades, prices, accounts and years: who sells a loss on the list's  *)
(* word and waits as it says has bought nothing near it, in any account        *)
(* (find_harvest_candidates).                                               *)
THEOREM NoWashSale == TradeSpec => []HarvestIsClean
<1>1. TradeInit => TradeInv
  BY TradeStarts
<1>2. TradeInv /\ [TradeNext]_tradeVars => TradeInv'
  <2>1. SUFFICES ASSUME TradeInv, [TradeNext]_tradeVars PROVE TradeInv'
    OBVIOUS
  <2>2. CASE Tomorrow
    BY <2>1, <2>2, TradeStill DEF Tomorrow, TradeInv
  <2>3. CASE BuyShares
    <3>1. PICK kind \in Purchases, account \in {"taxable", "ira"}, n \in Sizes, p \in Quotes : Book(Row(kind, "share", account, n, p))
      BY <2>3 DEF BuyShares
    <3> DEFINE x == Row(kind, "share", account, n, p)
    <3>2. x.day = now /\ Book(x) /\ UNCHANGED advice /\ now >= advice.rebuy
      BY <2>3, <3>1, RowForm DEF BuyShares
    <3> HIDE DEF x
    <3>3. QED BY <2>1, <3>2, BookedClean
  <2>4. CASE SellShares
    <3>1. PICK n \in Sizes, p \in Quotes : Book(Row("SELL", "share", "taxable", n, p))
      BY <2>4 DEF SellShares
    <3> DEFINE x == Row("SELL", "share", "taxable", n, p)
    <3>2. x.day = now /\ Book(x) /\ UNCHANGED advice /\ x.kind \notin Purchases
      BY <2>4, <3>1, RowForm DEF SellShares, Purchases
    <3> HIDE DEF x
    <3>3. QED BY <2>1, <3>2, BookedClean
  <2>5. CASE TradeOption
    <3>1. PICK kind \in {"BUY", "SELL"}, n \in Sizes, p \in Quotes : Book(Row(kind, "call", "taxable", n, p))
      BY <2>5 DEF TradeOption
    <3> DEFINE x == Row(kind, "call", "taxable", n, p)
    <3>2. x.day = now /\ Book(x) /\ UNCHANGED advice /\ x.on = "call"
      BY <2>5, <3>1, RowForm DEF TradeOption
    <3> HIDE DEF x
    <3>3. QED BY <2>1, <3>2, BookedClean
  <2>6. CASE EndOption
    <3>1. PICK kind \in Terminal : Book(Row(kind, "call", "taxable", 1, 1))
      BY <2>6 DEF EndOption
    <3> DEFINE x == Row(kind, "call", "taxable", 1, 1)
    <3>2. x.day = now /\ Book(x) /\ UNCHANGED advice /\ x.on = "call"
      BY <2>6, <3>1, RowForm DEF EndOption
    <3> HIDE DEF x
    <3>3. QED BY <2>1, <3>2, BookedClean
  <2>7. CASE Harvest
    BY <2>1, <2>7, HarvestStep
  <2>8. CASE UNCHANGED tradeVars
    BY <2>1, <2>8, TradeStill DEF tradeVars, TradeInv
  <2>9. QED BY <2>1, <2>2, <2>3, <2>4, <2>5, <2>6, <2>7, <2>8 DEF TradeNext
<1>3. TradeInv => HarvestIsClean
  BY DEF TradeInv
<1>4. QED BY <1>1, <1>2, <1>3, PTL DEF TradeSpec
=============================================================================
