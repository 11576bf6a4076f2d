------------------------------- MODULE YfGateway -------------------------------
(***************************************************************************)
(* data/yf_gateway.py: every yfinance request of the process goes through  *)
(* call(), under one semaphore and one AIMD pacer (_Pacer).                *)
(*                                                                         *)
(* A thread takes a place in the semaphore, reserves the next send slot    *)
(* (past any cooldown), sleeps until it, sends, and leaves the semaphore   *)
(* with the answer.  A rate limit starts a cooldown and halves the rate; a *)
(* dropped connection is retried after a short pause of its own.           *)
(*                                                                         *)
(* Clock times are kept as time still to go: a tick takes one off each.    *)
(* A thread whose sleep is over may be late, never early.                  *)
(***************************************************************************)
EXTENDS Integers, FiniteSets

CONSTANTS
    Callers,         \* threads of every batch helper's pool
    Symbols,         \* ticker symbols the calls are for
    CallsEach,       \* calls each thread makes: its share of a batch
    MaxConcurrency,  \* YF_MAX_CONCURRENCY
    GatewayAttempts, \* YF_MAX_ATTEMPTS
    Minute,          \* ticks in a minute
    MaxRate,         \* YF_RATE_LIMIT_PER_MIN
    MinRate,         \* YF_MIN_RATE_PER_MIN
    RecoveryAfter,   \* _RECOVERY_AFTER_SUCCESSES
    RecoveryStep,    \* _RECOVERY_STEP_PER_MIN
    BaseCooldown,    \* YF_COOLDOWN_SECONDS
    MaxCooldown,     \* _MAX_COOLDOWN_SECONDS
    Jitter,          \* most ticks the jitter adds to a cooldown
    Pause            \* _TRANSIENT_BACKOFF_SECONDS

ASSUME CountsAssumption ==
    /\ {MaxConcurrency, GatewayAttempts, Minute, RecoveryAfter, RecoveryStep,
        BaseCooldown, MaxCooldown, MinRate} \subseteq Nat \ {0}
    /\ {CallsEach, Jitter, Pause} \subseteq Nat
ASSUME RateAssumption == MaxRate \in Nat /\ MinRate <= MaxRate

VARIABLES
    rate,       \* _pacer._rate
    slotIn,     \* _pacer._next_slot, from now
    coolIn,     \* _pacer._cooldown_until, from now
    successes,  \* _pacer._successes
    limits,     \* _pacer._consecutive_limits
    phaseOf,    \* where each thread is in call()
    trial,      \* the attempt the thread is on
    asleep,     \* how long the thread still sleeps
    symbol,     \* the symbol the thread's latest call is for
    unmade,     \* calls the thread has still to start
    missing,    \* _missing: symbols Yahoo has no data for
    leaked      \* history: requests sent since the running cooldown began

pacer == <<rate, slotIn, coolIn, successes, limits>>
gatewayVars == <<pacer, phaseOf, trial, asleep, symbol, unmade, missing, leaked>>

InSemaphore == {t \in Callers : phaseOf[t] \in {"pacing", "sent"}}

GatewayTypeOK ==
    /\ rate \in MinRate..MaxRate
    /\ slotIn \in Nat /\ coolIn \in Nat
    /\ successes \in Nat /\ limits \in Nat
    /\ phaseOf \in [Callers -> {"idle", "waiting", "pacing", "sent", "limited", "dropped"}]
    /\ trial \in [Callers -> 0..GatewayAttempts]
    /\ asleep \in [Callers -> Nat]
    /\ symbol \in [Callers -> Symbols]
    /\ unmade \in [Callers -> 0..CallsEach]
    /\ missing \subseteq Symbols
    /\ leaked \in Nat
    /\ Cardinality(InSemaphore) <= MaxConcurrency

GatewayInit ==
    /\ rate = MaxRate
    /\ slotIn = 0 /\ coolIn = 0
    /\ successes = 0 /\ limits = 0
    /\ phaseOf = [t \in Callers |-> "idle"]
    /\ trial = [t \in Callers |-> 0]
    /\ asleep = [t \in Callers |-> 0]
    /\ symbol \in [Callers -> Symbols]
    /\ unmade = [t \in Callers |-> CallsEach]
    /\ missing = {}
    /\ leaked = 0

-----------------------------------------------------------------------------
Lesser(a, b) == IF a <= b THEN a ELSE b
Greatest(a, b) == IF a >= b THEN a ELSE b

Interval == Minute \div rate

GoTo(t, label) == phaseOf' = [phaseOf EXCEPT ![t] = label]

(* A call for a symbol in the negative cache returns at once.             *)
Start(t, s) ==
    /\ phaseOf[t] = "idle" /\ unmade[t] > 0
    /\ unmade' = [unmade EXCEPT ![t] = @ - 1]
    /\ symbol' = [symbol EXCEPT ![t] = s]
    /\ IF s \in missing
       THEN UNCHANGED <<phaseOf, trial>>
       ELSE GoTo(t, "waiting") /\ trial' = [trial EXCEPT ![t] = 1]
    /\ UNCHANGED <<pacer, asleep, missing, leaked>>

\* The next slot is reckoned from now, not from the slot handed out.
AcquireMutant(t) ==
    /\ phaseOf[t] = "waiting" /\ asleep[t] = 0
    /\ Cardinality(InSemaphore) < MaxConcurrency
    /\ slotIn' = Interval
    /\ asleep' = [asleep EXCEPT ![t] = Greatest(slotIn, coolIn)]
    /\ GoTo(t, "pacing")
    /\ UNCHANGED <<rate, coolIn, successes, limits, trial, symbol, unmade, missing, leaked>>

(* with _semaphore, then _Pacer.acquire: the next slot is reserved at once *)
(* and slept towards inside the semaphore.                                 *)
Acquire(t) ==
    LET start == Greatest(slotIn, coolIn) IN
    /\ phaseOf[t] = "waiting" /\ asleep[t] = 0
    /\ Cardinality(InSemaphore) < MaxConcurrency
    /\ slotIn' = start + Interval
    /\ asleep' = [asleep EXCEPT ![t] = start]
    /\ GoTo(t, "pacing")
    /\ UNCHANGED <<rate, coolIn, successes, limits, trial, symbol, unmade, missing, leaked>>

SendRequest(t) ==
    /\ phaseOf[t] = "pacing" /\ asleep[t] = 0
    /\ GoTo(t, "sent")
    /\ leaked' = IF coolIn > 0 THEN leaked + 1 ELSE leaked
    /\ UNCHANGED <<pacer, trial, asleep, symbol, unmade, missing>>

\* call() returns, with a result or the default.
ReturnFrom(t) ==
    /\ GoTo(t, "idle")
    /\ trial' = [trial EXCEPT ![t] = 0]
    /\ UNCHANGED <<asleep, symbol, unmade, leaked>>

(* _Pacer.record_success: enough clean calls give back a slice of the rate. *)
(* (The count is not kept past the number that matters.)                    *)
Succeed(t) ==
    LET recovers == successes + 1 >= RecoveryAfter /\ rate < MaxRate IN
    /\ phaseOf[t] = "sent"
    /\ limits' = 0
    /\ successes' = IF recovers THEN 0 ELSE Lesser(successes + 1, RecoveryAfter)
    /\ rate' = IF recovers THEN Lesser(MaxRate, rate + RecoveryStep) ELSE rate
    /\ ReturnFrom(t)
    /\ UNCHANGED <<slotIn, coolIn, missing>>

(* An unknown symbol (remembered), an unclassified error, or the last       *)
(* attempt of one that is retried: the default is returned and the pacer   *)
(* is not told.                                                            *)
Fail(t) ==
    /\ phaseOf[t] = "sent"
    /\ missing' \in {missing, missing \cup {symbol[t]}}
    /\ ReturnFrom(t)
    /\ UNCHANGED pacer

(* A rate limit or a dropped connection with attempts left.                *)
Refused(t) ==
    /\ phaseOf[t] = "sent" /\ trial[t] < GatewayAttempts
    /\ \/ GoTo(t, "limited")
       \/ GoTo(t, "dropped")
    /\ UNCHANGED <<pacer, trial, asleep, symbol, unmade, missing, leaked>>

NextAttemptMutant(t) == GoTo(t, "waiting") /\ UNCHANGED <<trial, symbol, unmade, missing>>

\* The next turn of call()'s loop.
NextAttempt(t) ==
    /\ GoTo(t, "waiting")
    /\ trial' = [trial EXCEPT ![t] = @ + 1]
    /\ UNCHANGED <<symbol, unmade, missing>>

\* The rate after a rate limit.
Halved(r) == Greatest(MinRate, r \div 2)

(* _Pacer.penalize, outside the semaphore: a running cooldown is ridden    *)
(* out, otherwise the rate is halved and a cooldown begins.  (limits stops *)
(* counting where the cooldown has long reached its maximum.)              *)
Penalize(t, extra) ==
    LET cooldown == Lesser(BaseCooldown * 2 ^ limits, MaxCooldown) + extra IN
    /\ phaseOf[t] = "limited"
    /\ IF coolIn > 0
       THEN UNCHANGED <<pacer, leaked>>
       ELSE /\ limits' = Lesser(limits + 1, MaxCooldown)
            /\ successes' = 0
            /\ rate' = Halved(rate)
            /\ coolIn' = cooldown
            /\ slotIn' = Greatest(slotIn, cooldown)
            /\ leaked' = 0
    /\ NextAttempt(t)
    /\ UNCHANGED asleep

(* The local pause after a dropped connection.                             *)
BackOff(t) ==
    /\ phaseOf[t] = "dropped"
    /\ asleep' = [asleep EXCEPT ![t] = Pause * trial[t]]
    /\ NextAttempt(t)
    /\ UNCHANGED <<pacer, leaked>>

Sooner(n) == IF n > 0 THEN n - 1 ELSE 0

GatewayTick ==
    /\ slotIn > 0 \/ coolIn > 0 \/ \E t \in Callers : asleep[t] > 0
    /\ slotIn' = Sooner(slotIn)
    /\ coolIn' = Sooner(coolIn)
    /\ asleep' = [t \in Callers |-> Sooner(asleep[t])]
    /\ UNCHANGED <<rate, successes, limits, phaseOf, trial, symbol, unmade, missing, leaked>>

CallStep(t) ==
    \/ \E s \in Symbols : Start(t, s)
    \/ Acquire(t) \/ SendRequest(t)
    \/ Succeed(t) \/ Fail(t) \/ Refused(t)
    \/ \E extra \in 0..Jitter : Penalize(t, extra)
    \/ BackOff(t)

GatewayNext == (\E t \in Callers : CallStep(t)) \/ GatewayTick

\* Threads run, requests are answered or time out, and time passes.
GatewayFairness == (\A t \in Callers : WF_gatewayVars(CallStep(t))) /\ WF_gatewayVars(GatewayTick)

GatewaySpec == GatewayInit /\ [][GatewayNext]_gatewayVars /\ GatewayFairness

-----------------------------------------------------------------------------
Pacing == {t \in Callers : phaseOf[t] = "pacing"}

(* Two threads asleep towards their slots never leave closer together than *)
(* the ceiling rate allows, through halvings, recoveries and cooldowns.    *)
SlotsAreApart ==
    \A t, u \in Pacing :
        t # u /\ asleep[t] > 0 /\ asleep[u] > 0 =>
            \/ asleep[t] - asleep[u] >= Minute \div MaxRate
            \/ asleep[u] - asleep[t] >= Minute \div MaxRate

(* A cooldown does not recall the slots handed out before it, but it lets   *)
(* no more requests through than the semaphore had places: whoever comes    *)
(* in after the rate limit waits the cooldown out.                         *)
CooldownLeakBounded == coolIn > 0 => leaked <= MaxConcurrency

(* However limits, drops and answers fall, requests leave as far apart as the *)
(* ceiling rate says, and a cooldown holds (_Pacer).                        *)
PacingHolds == SlotsAreApart /\ CooldownLeakBounded

(* Every batch comes to an end: no pattern of rate limits, drops and       *)
(* recoveries leaves a thread in the semaphore or the pacer for ever.      *)
BatchEnds == <>(\A t \in Callers : phaseOf[t] = "idle" /\ unmade[t] = 0)
================================================================================
