------------------------------- MODULE HttpClient -------------------------------
(***************************************************************************)
(* http_client.HttpClient: one client per external service, shared by the  *)
(* threads that call it.  Every attempt of a request first passes the rate *)
(* limit, whose lock is held through the sleep that spaces the calls; a    *)
(* transient failure is retried after a growing, jittered pause.           *)
(*                                                                         *)
(* Clock times are kept as time still to go; a tick takes one off each.    *)
(***************************************************************************)
EXTENDS Integers

CONSTANTS
    Threads,        \* threads that share the client
    NoThread,       \* the rate lock's holder when it is free
    Calls,          \* requests each thread makes
    MaxAttempts,    \* RetryPolicy.max_attempts
    InitialBackoff, \* RetryPolicy.initial_backoff
    MaxBackoff,     \* RetryPolicy.max_backoff
    Multiplier,     \* RetryPolicy.backoff_multiplier
    JitterPart,     \* 1 / RetryPolicy.jitter: a pause grows by at most 1/JitterPart
    MinInterval,    \* 60 / rate_limit_per_min; 0 turns the limit off
    RetryAfters     \* Retry-After values a 429 may carry

ASSUME PolicyAssumption ==
    /\ {MaxAttempts, InitialBackoff, Multiplier, JitterPart} \subseteq Nat \ {0}
    /\ MaxBackoff \in Nat /\ InitialBackoff <= MaxBackoff
    /\ {MinInterval, Calls} \subseteq Nat
    /\ RetryAfters \subseteq Nat
ASSUME NoThreadAssumption == NoThread \notin Threads

\* How an attempt can end: a status class, a status of its own, or a
\* connection, read, write or timeout error.
Answers == {"below400", "401", "408", "429", "other4xx", "5xx", "network"}

VARIABLES
    lock,       \* _rate_lock: the thread inside it, or NoThread
    lastCall,   \* time since _last_call_ts, counted up to MinInterval
    pc,         \* where each thread is in request()
    attempt,    \* the attempt the thread is on
    backoff,    \* the `backoff` local
    sleep,      \* how long the thread still sleeps
    answer,     \* how the thread's latest attempt ended
    left        \* requests the thread has still to make

vars == <<lock, lastCall, pc, attempt, backoff, sleep, answer, left>>

TypeOK ==
    /\ lock \in Threads \cup {NoThread}
    /\ lastCall \in 0..MinInterval
    /\ pc \in [Threads -> {"idle", "throttle", "spacing", "sent", "answered"}]
    /\ attempt \in [Threads -> 0..MaxAttempts]
    /\ backoff \in [Threads -> 0..MaxBackoff]
    /\ sleep \in [Threads -> Nat]
    /\ answer \in [Threads -> Answers]
    /\ left \in [Threads -> 0..Calls]

Init ==
    /\ lock = NoThread
    /\ lastCall = MinInterval
    /\ pc = [t \in Threads |-> "idle"]
    /\ attempt = [t \in Threads |-> 0]
    /\ backoff = [t \in Threads |-> 0]
    /\ sleep = [t \in Threads |-> 0]
    /\ answer = [t \in Threads |-> "below400"]
    /\ left = [t \in Threads |-> Calls]

-----------------------------------------------------------------------------
Least(a, b) == IF a <= b THEN a ELSE b

Goto(t, label) == pc' = [pc EXCEPT ![t] = label]

Request(t) ==
    /\ pc[t] = "idle" /\ left[t] > 0
    /\ left' = [left EXCEPT ![t] = @ - 1]
    /\ attempt' = [attempt EXCEPT ![t] = 1]
    /\ backoff' = [backoff EXCEPT ![t] = InitialBackoff]
    /\ Goto(t, "throttle")
    /\ UNCHANGED <<lock, lastCall, sleep, answer>>

\* _throttle without its lock.
EnterMutant(t) ==
    /\ pc[t] = "throttle" /\ sleep[t] = 0
    /\ lock' = t
    /\ sleep' = [sleep EXCEPT ![t] = MinInterval - lastCall]
    /\ Goto(t, "spacing")
    /\ UNCHANGED <<lastCall, attempt, backoff, answer, left>>

(* _throttle: under the lock, what is left of the interval is slept.       *)
Enter(t) ==
    /\ pc[t] = "throttle" /\ sleep[t] = 0
    /\ lock = NoThread
    /\ lock' = t
    /\ sleep' = [sleep EXCEPT ![t] = MinInterval - lastCall]
    /\ Goto(t, "spacing")
    /\ UNCHANGED <<lastCall, attempt, backoff, answer, left>>

(* The call is stamped, the lock released and the request sent.            *)
Send(t) ==
    /\ pc[t] = "spacing" /\ sleep[t] = 0
    /\ lock' = NoThread
    /\ lastCall' = 0
    /\ Goto(t, "sent")
    /\ UNCHANGED <<attempt, backoff, sleep, answer, left>>

Answer(t, a) ==
    /\ pc[t] = "sent"
    /\ answer' = [answer EXCEPT ![t] = a]
    /\ Goto(t, "answered")
    /\ UNCHANGED <<lock, lastCall, attempt, backoff, sleep, left>>

Retried(a) == a \in {"429", "5xx", "network"}

\* One attempt too many is waited for.
FinishMutant(t) ==
    /\ pc[t] = "answered"
    /\ Retried(answer[t]) => attempt[t] > MaxAttempts
    /\ attempt' = [attempt EXCEPT ![t] = 0]
    /\ backoff' = [backoff EXCEPT ![t] = 0]
    /\ Goto(t, "idle")
    /\ UNCHANGED <<lock, lastCall, sleep, answer, left>>

(* A response below 400 is returned; AuthError, ClientError or, with the   *)
(* attempts used up, RateLimitError, ServerError or NetworkError is raised. *)
Finish(t) ==
    /\ pc[t] = "answered"
    /\ Retried(answer[t]) => attempt[t] >= MaxAttempts
    /\ attempt' = [attempt EXCEPT ![t] = 0]
    /\ backoff' = [backoff EXCEPT ![t] = 0]
    /\ Goto(t, "idle")
    /\ UNCHANGED <<lock, lastCall, sleep, answer, left>>

Jittered(b) == b .. (b + b \div JitterPart)

\* A 429 waits its Retry-After, or a guess, but never past max_backoff; the
\* other pauses are jittered after the cap.
PausesAfter(a, b) ==
    IF a = "429"
    THEN {Least(w, MaxBackoff) : w \in RetryAfters \cup Jittered(b)}
    ELSE Jittered(b)

NextBackoff(b) == Least(b * Multiplier, MaxBackoff)

Retry(t) ==
    /\ pc[t] = "answered"
    /\ Retried(answer[t]) /\ attempt[t] < MaxAttempts
    /\ \E w \in PausesAfter(answer[t], backoff[t]) : sleep' = [sleep EXCEPT ![t] = w]
    /\ attempt' = [attempt EXCEPT ![t] = @ + 1]
    /\ backoff' = [backoff EXCEPT ![t] = NextBackoff(@)]
    /\ Goto(t, "throttle")
    /\ UNCHANGED <<lock, lastCall, answer, left>>

Tick ==
    /\ lastCall < MinInterval \/ \E t \in Threads : sleep[t] > 0
    /\ lastCall' = Least(lastCall + 1, MinInterval)
    /\ sleep' = [t \in Threads |-> IF sleep[t] > 0 THEN sleep[t] - 1 ELSE 0]
    /\ UNCHANGED <<lock, pc, attempt, backoff, answer, left>>

Step(t) ==
    \/ Request(t) \/ Enter(t) \/ Send(t)
    \/ \E a \in Answers : Answer(t, a)
    \/ Finish(t) \/ Retry(t)

Next == (\E t \in Threads : Step(t)) \/ Tick

\* Threads run, a request is answered or times out, and time passes.
Fairness == (\A t \in Threads : WF_vars(Step(t))) /\ WF_vars(Tick)

Spec == Init /\ [][Next]_vars /\ Fairness

-----------------------------------------------------------------------------
(* No two attempts of any threads, retries included, are stamped closer    *)
(* together than the rate limit allows: the lock spans read, sleep and     *)
(* stamp.                                                                  *)
CallsAreSpaced == [][\A t \in Threads : Send(t) => lastCall >= MinInterval]_vars

(* No thread is ever put to sleep longer than the interval or the largest  *)
(* jittered backoff, whatever Retry-After a server sends.                  *)
SleepIsBounded ==
    \A t \in Threads :
        \/ sleep[t] <= MinInterval
        \/ sleep[t] <= MaxBackoff + MaxBackoff \div JitterPart

(* Every request of every thread ends, in a response or a typed error, also *)
(* when every attempt fails and the threads queue on the rate limit.       *)
RequestsEnd == <>(\A t \in Threads : pc[t] = "idle" /\ left[t] = 0)
================================================================================
