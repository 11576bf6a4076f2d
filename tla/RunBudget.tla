------------------------------- MODULE RunBudget -------------------------------
(***************************************************************************)
(* The per-run cost cap: usage.Budget.hold around llm.ModelAgent.run, the  *)
(* token ledger usage.TRACKER, and llm.run_with_fallback.                  *)
(*                                                                         *)
(* Pipeline threads make model calls at the same time.  A call reserves    *)
(* its worst-case cost under the budget's lock, is refused when spent +    *)
(* in flight + that estimate would pass the cap, records what each model   *)
(* response cost while it runs, and gives the reservation back at the end. *)
(* The ledger has a lock of its own, so responses are recorded while some  *)
(* other thread sits between reading the ledger and deciding.              *)
(*                                                                         *)
(* Money is in whole units (the code's dollars are floats).                *)
(***************************************************************************)
EXTENDS Integers, FiniteSets, FiniteSetsExt

CONSTANTS
    Threads,        \* threads of the pipeline's fan-outs
    NoThread,       \* the budget lock's holder when it is free
    Cap,            \* Budget.cap of the run
    Estimates,      \* worst-case costs a call may be estimated at
    MaxResponses,   \* model responses of one call: 1 + CallSettings.output_retries
    HasFallback     \* whether fallback_builder returned a builder

ASSUME CapAssumption == Cap \in Nat
ASSUME EstimatesAssumption == Estimates \subseteq Nat \ {0}
ASSUME ResponsesAssumption == MaxResponses \in Nat \ {0}
ASSUME NoThreadAssumption == NoThread \notin Threads
ASSUME FallbackAssumption == HasFallback \in BOOLEAN

VARIABLES
    lock,       \* Budget._lock: the thread inside it, or NoThread
    pending,    \* Budget._pending: worst-case cost of the calls in flight
    spent,      \* TRACKER.total_cost()[0]
    pc,         \* where each thread's call is
    est,        \* the `est` local of the thread's hold
    got,        \* history: what the thread's current hold has recorded so far
    answers,    \* model responses the current hold has received
    seen,       \* ledger total the thread read inside the lock
    provider    \* which provider the thread's call is on

vars == <<lock, pending, spent, pc, est, got, answers, seen, provider>>

\* "closing" and "outage" still hold a reservation: the finally of hold()
\* has not run yet.
InFlight == {"running", "closing", "outage"}

TypeOK ==
    /\ lock \in Threads \cup {NoThread}
    /\ pending \in Int
    /\ spent \in Nat
    /\ pc \in [Threads -> {"idle", "ready", "deciding", "refused"} \cup InFlight]
    /\ est \in [Threads -> Nat]
    /\ got \in [Threads -> Nat]
    /\ answers \in [Threads -> Nat]
    /\ seen \in [Threads -> Nat]
    /\ provider \in [Threads -> {"primary", "fallback"}]

Init ==
    /\ lock = NoThread
    /\ pending = 0
    /\ spent = 0
    /\ pc = [t \in Threads |-> "idle"]
    /\ est = [t \in Threads |-> 0]
    /\ got = [t \in Threads |-> 0]
    /\ answers = [t \in Threads |-> 0]
    /\ seen = [t \in Threads |-> 0]
    /\ provider = [t \in Threads |-> "primary"]

-----------------------------------------------------------------------------
(* ModelAgent.run: the estimate is computed before the lock is taken.      *)
Call(t, e) ==
    /\ pc[t] = "idle"
    /\ pc' = [pc EXCEPT ![t] = "ready"]
    /\ est' = [est EXCEPT ![t] = e]
    /\ provider' = [provider EXCEPT ![t] = "primary"]
    /\ UNCHANGED <<lock, pending, spent, got, answers, seen>>

(* hold(): with self._lock, TRACKER.total_cost() is read ...               *)
ReadTotal(t) ==
    /\ pc[t] = "ready"
    /\ lock = NoThread
    /\ lock' = t
    /\ seen' = [seen EXCEPT ![t] = spent]
    /\ pc' = [pc EXCEPT ![t] = "deciding"]
    /\ UNCHANGED <<pending, spent, est, got, answers, provider>>

WouldPassCapMutant(t) == seen[t] + est[t] > Cap

WouldPassCap(t) == seen[t] + pending + est[t] > Cap

(* ... and the call is refused: BudgetExceededError, which is not a        *)
(* fallback error, so run_with_fallback raises it.                         *)
Refuse(t) ==
    /\ pc[t] = "deciding"
    /\ WouldPassCap(t)
    /\ lock' = NoThread
    /\ pc' = [pc EXCEPT ![t] = "refused"]
    /\ UNCHANGED <<pending, spent, est, got, answers, seen, provider>>

(* ... or its estimate joins the calls in flight.                          *)
Admit(t) ==
    /\ pc[t] = "deciding"
    /\ ~WouldPassCap(t)
    /\ lock' = NoThread
    /\ pending' = pending + est[t]
    /\ pc' = [pc EXCEPT ![t] = "running"]
    /\ UNCHANGED <<spent, est, got, answers, seen, provider>>

\* Without the max(0, ...) of _ledger_usage.
ResponseCostsMutant(t) == -1..est[t]

\* What a response may cost, as long as estimate_cost is a worst case.
ResponseCosts(t) == 0..est[t]

(* _Guard.after_model_request records a response that costs c.  The answer *)
(* is accepted or the call fails on it (cut off, or invalid for the last   *)
(* time), or it goes back to the model once more (ModelRetry, or a schema  *)
(* that did not validate) while the hold stays open.                       *)
Respond(t, c, next) ==
    /\ pc[t] = "running"
    /\ answers[t] < MaxResponses
    /\ next \in {"closing"} \cup
               (IF answers[t] + 1 < MaxResponses THEN {"running"} ELSE {})
    /\ spent' = spent + c
    /\ got' = [got EXCEPT ![t] = @ + c]
    /\ answers' = [answers EXCEPT ![t] = @ + 1]
    /\ pc' = [pc EXCEPT ![t] = next]
    /\ UNCHANGED <<lock, pending, est, seen, provider>>

(* The provider's error instead of a response: "outage" is one that        *)
(* is_fallback_error accepts, "closing" one it does not.                   *)
ProviderError(t, next) ==
    /\ pc[t] = "running"
    /\ next \in {"closing", "outage"}
    /\ pc' = [pc EXCEPT ![t] = next]
    /\ UNCHANGED <<lock, pending, spent, est, got, answers, seen, provider>>

FallsBack(t) == pc[t] = "outage" /\ provider[t] = "primary" /\ HasFallback

(* The finally of hold() gives the reservation back; run_with_fallback     *)
(* then builds the fallback agent after an outage of the primary, whose    *)
(* own hold is estimated at e, or the call returns or raises.              *)
Release(t, e) ==
    /\ pc[t] \in {"closing", "outage"}
    /\ lock = NoThread
    /\ pending' = pending - est[t]
    /\ got' = [got EXCEPT ![t] = 0]
    /\ answers' = [answers EXCEPT ![t] = 0]
    /\ IF FallsBack(t)
       THEN /\ pc' = [pc EXCEPT ![t] = "ready"]
            /\ est' = [est EXCEPT ![t] = e]
            /\ provider' = [provider EXCEPT ![t] = "fallback"]
       ELSE /\ pc' = [pc EXCEPT ![t] = "idle"]
            /\ est' = [est EXCEPT ![t] = 0]
            /\ UNCHANGED provider
    /\ UNCHANGED <<lock, spent, seen>>

\* As if the refusal were raised inside the try of hold().
GiveUpMutant(t) ==
    /\ pc[t] = "refused"
    /\ pending' = pending - est[t]
    /\ pc' = [pc EXCEPT ![t] = "idle"]
    /\ est' = [est EXCEPT ![t] = 0]
    /\ UNCHANGED <<lock, spent, got, answers, seen, provider>>

(* The refused call has raised; its thread goes on to other work.          *)
GiveUp(t) ==
    /\ pc[t] = "refused"
    /\ pc' = [pc EXCEPT ![t] = "idle"]
    /\ est' = [est EXCEPT ![t] = 0]
    /\ UNCHANGED <<lock, pending, spent, got, answers, seen, provider>>

Next ==
    \E t \in Threads :
        \/ \E e \in Estimates : Call(t, e)
        \/ ReadTotal(t)
        \/ Refuse(t)
        \/ Admit(t)
        \/ \E c \in ResponseCosts(t), next \in InFlight : Respond(t, c, next)
        \/ \E next \in InFlight : ProviderError(t, next)
        \/ \E e \in Estimates : Release(t, e)
        \/ GiveUp(t)

Spec == Init /\ [][Next]_vars

-----------------------------------------------------------------------------
Running == {t \in Threads : pc[t] \in InFlight}

(* Budget._pending is the worst case of the calls in flight, no more (money *)
(* withheld for nothing) and no less (room sold twice), whatever the order  *)
(* in which calls are admitted, fail, fall back and return.                 *)
PendingIsInFlight == pending = MapThenSumSet(LAMBDA t : est[t], Running)

(* However the parallel calls of a run interleave with the recording of     *)
(* their costs, the run never costs more than the cap once for every        *)
(* response a call may take.  With one response per call this is the        *)
(* promise of the Budget class: calls cannot jointly overshoot the cap.     *)
OvershootBounded == spent <= MaxResponses * Cap

(* What Budget's docstring says for every setting of output_retries:        *)
(* parallel calls cannot jointly overshoot the cap.                         *)
NeverPastCap == spent <= Cap
================================================================================
