----------------------------- MODULE OpenRouterCap -----------------------------
(***************************************************************************)
(* The daily cap on OpenRouter spend (openrouter.OpenRouter.complete).     *)
(*                                                                         *)
(* Every client object keeps a lock and the worst-case cost of its own     *)
(* calls in flight; what calls were billed is in the openrouter_spend      *)
(* table, which all processes share.  A call reserves under its client's   *)
(* lock, runs, gives its reservation back, and only then adds its bill to  *)
(* the table, on the UTC day it happens to be by then.                     *)
(***************************************************************************)
EXTENDS Integers, FiniteSets, FiniteSetsExt

CONSTANTS
    Clients,        \* OpenRouter objects, in one process or in several
    Callers,        \* threads making calls
    Owner,          \* the client each thread calls through
    NoCaller,       \* a client lock's holder when it is free
    DailyCap,       \* openrouter_daily_cap_usd
    WorstCosts,     \* values of worst_case_cost
    Days,           \* UTC days of the model
    MaxKills        \* bound on processes killed

ASSUME DailyAssumption ==
    /\ Owner \in [Callers -> Clients] /\ NoCaller \notin Callers
    /\ IsFiniteSet(Callers) /\ Callers # {}
    /\ DailyCap \in Nat /\ WorstCosts \subseteq Nat \ {0} /\ Days \in Nat \ {0} /\ MaxKills \in Nat
    /\ \E e \in WorstCosts : \A f \in WorstCosts : f <= e

VARIABLES
    clientLock, \* clientLock[c]: the thread inside client c's lock
    reserved,   \* reserved[c]: client c's _pending
    spend,      \* the openrouter_spend table: billed cost by day
    day,        \* today, UTC
    stage,      \* where each thread's call is
    worst,      \* the call's worst case
    spentThen,  \* spent_today as the thread read it, while it decides
    bill,       \* what the answered call cost
    kills       \* processes killed so far

dayVars == <<clientLock, reserved, spend, day, stage, worst, spentThen, bill, kills>>

DayTypeOK ==
    /\ clientLock \in [Clients -> Callers \cup {NoCaller}]
    /\ reserved \in [Clients -> Int]
    /\ spend \in [1..Days -> Nat]
    /\ day \in 1..Days
    /\ stage \in [Callers -> {"idle", "reserving", "deciding", "refused",
                           "calling", "answered", "failed", "unrecorded"}]
    /\ worst \in [Callers -> Nat]
    /\ spentThen \in [Callers -> Nat]
    /\ bill \in [Callers -> Nat]
    /\ kills \in 0..MaxKills

DayInit ==
    /\ clientLock = [c \in Clients |-> NoCaller]
    /\ reserved = [c \in Clients |-> 0]
    /\ spend = [d \in 1..Days |-> 0]
    /\ day = 1
    /\ stage = [t \in Callers |-> "idle"]
    /\ worst = [t \in Callers |-> 0]
    /\ spentThen = [t \in Callers |-> 0]
    /\ bill = [t \in Callers |-> 0]
    /\ kills = 0

-----------------------------------------------------------------------------
Goto(t, label) == stage' = [stage EXCEPT ![t] = label]

\* The thread's local state at the end of a call.
Done(t) ==
    /\ Goto(t, "idle")
    /\ worst' = [worst EXCEPT ![t] = 0]
    /\ bill' = [bill EXCEPT ![t] = 0]

Complete(t, e) ==
    /\ stage[t] = "idle"
    /\ Goto(t, "reserving")
    /\ worst' = [worst EXCEPT ![t] = e]
    /\ UNCHANGED <<clientLock, reserved, spend, day, spentThen, bill, kills>>

(* _reserve: inside the client's lock, spent_today reads the table ...     *)
ReadSpend(t) ==
    /\ stage[t] = "reserving"
    /\ clientLock[Owner[t]] = NoCaller
    /\ clientLock' = [clientLock EXCEPT ![Owner[t]] = t]
    /\ spentThen' = [spentThen EXCEPT ![t] = spend[day]]
    /\ Goto(t, "deciding")
    /\ UNCHANGED <<reserved, spend, day, worst, bill, kills>>

PastTheCapMutant(t) == reserved[Owner[t]] + worst[t] > DailyCap

PastTheCap(t) == spentThen[t] + reserved[Owner[t]] + worst[t] > DailyCap

(* ... and the call is refused with BudgetExceededError ...                *)
RefuseCall(t) ==
    /\ stage[t] = "deciding"
    /\ PastTheCap(t)
    /\ clientLock' = [clientLock EXCEPT ![Owner[t]] = NoCaller]
    /\ Goto(t, "refused")
    /\ spentThen' = [spentThen EXCEPT ![t] = 0]
    /\ UNCHANGED <<reserved, spend, day, worst, bill, kills>>

(* ... or goes ahead.                                                      *)
Reserve(t) ==
    /\ stage[t] = "deciding"
    /\ ~PastTheCap(t)
    /\ clientLock' = [clientLock EXCEPT ![Owner[t]] = NoCaller]
    /\ reserved' = [reserved EXCEPT ![Owner[t]] = @ + worst[t]]
    /\ Goto(t, "calling")
    /\ spentThen' = [spentThen EXCEPT ![t] = 0]
    /\ UNCHANGED <<spend, day, worst, bill, kills>>

(* OpenRouter answers and bills; an unusable answer is billed like any.    *)
Answer(t, cost) ==
    /\ stage[t] = "calling"
    /\ Goto(t, "answered")
    /\ bill' = [bill EXCEPT ![t] = cost]
    /\ UNCHANGED <<clientLock, reserved, spend, day, worst, spentThen, kills>>

(* No approved host, or an error from the SDK after its own retries.       *)
Fail(t) ==
    /\ stage[t] = "calling"
    /\ Goto(t, "failed")
    /\ UNCHANGED <<clientLock, reserved, spend, day, worst, spentThen, bill, kills>>

(* The finally of complete().                                              *)
ReleaseCall(t) ==
    /\ stage[t] \in {"answered", "failed"}
    /\ clientLock[Owner[t]] = NoCaller
    /\ reserved' = [reserved EXCEPT ![Owner[t]] = @ - worst[t]]
    /\ IF stage[t] = "answered"
       THEN Goto(t, "unrecorded") /\ UNCHANGED <<worst, bill>>
       ELSE Done(t)
    /\ UNCHANGED <<clientLock, spend, day, spentThen, kills>>

(* _record: one upsert on today's row, after the reservation is gone.  Its  *)
(* own database error leaves the bill out of the table.                    *)
Record(t) ==
    /\ stage[t] = "unrecorded"
    /\ \/ spend' = [spend EXCEPT ![day] = @ + bill[t]]
       \/ UNCHANGED spend
    /\ Done(t)
    /\ UNCHANGED <<clientLock, reserved, day, spentThen, kills>>

LeaveRefused(t) ==
    /\ stage[t] = "refused"
    /\ Done(t)
    /\ UNCHANGED <<clientLock, reserved, spend, day, spentThen, kills>>

Midnight ==
    /\ day < Days
    /\ day' = day + 1
    /\ UNCHANGED <<clientLock, reserved, spend, stage, worst, spentThen, bill, kills>>

(* The process of client c dies and a later one starts afresh: what its    *)
(* calls were billed and had not recorded is forgotten.                    *)
Kill(c) ==
    LET mine(t) == Owner[t] = c IN
    /\ kills < MaxKills
    /\ kills' = kills + 1
    /\ clientLock' = [clientLock EXCEPT ![c] = NoCaller]
    /\ reserved' = [reserved EXCEPT ![c] = 0]
    /\ stage' = [t \in Callers |-> IF mine(t) THEN "idle" ELSE stage[t]]
    /\ worst' = [t \in Callers |-> IF mine(t) THEN 0 ELSE worst[t]]
    /\ spentThen' = [t \in Callers |-> IF mine(t) THEN 0 ELSE spentThen[t]]
    /\ bill' = [t \in Callers |-> IF mine(t) THEN 0 ELSE bill[t]]
    /\ UNCHANGED <<spend, day>>

DayNext ==
    \/ \E t \in Callers :
          \/ \E e \in WorstCosts : Complete(t, e)
          \/ ReadSpend(t)
          \/ RefuseCall(t)
          \/ Reserve(t)
          \/ \E cost \in 0..worst[t] : Answer(t, cost)
          \/ Fail(t)
          \/ ReleaseCall(t)
          \/ Record(t)
          \/ LeaveRefused(t)
    \/ Midnight
    \/ \E c \in Clients : Kill(c)

DaySpec == DayInit /\ [][DayNext]_dayVars

-----------------------------------------------------------------------------
MaxEstimate == CHOOSE e \in WorstCosts : \A f \in WorstCosts : f <= e

Reserved(c) ==
    {t \in Callers : Owner[t] = c /\ stage[t] \in {"calling", "answered", "failed"}}

(* A client's _pending is the worst case of its own open calls, also after *)
(* failures: it can neither leak (refusing affordable calls for the rest   *)
(* of the process) nor go short.                                           *)
ReservedIsInFlight ==
    \A c \in Clients : reserved[c] = MapThenSumSet(LAMBDA t : worst[t], Reserved(c))

(* How far a day's recorded spend can pass the cap when clients do not see *)
(* each other's reservations and a bill is unaccounted for between release *)
(* and record: by one worst case for every thread but the last admitted.   *)
DailyOvershootIsBounded ==
    \A d \in 1..Days : spend[d] <= DailyCap + (Cardinality(Callers) - 1) * MaxEstimate

(* The module docstring: "the cap holds across processes (a cron job and a  *)
(* manual run on the same day share it)".                                  *)
DailyCapHolds == \A d \in 1..Days : spend[d] <= DailyCap
================================================================================
