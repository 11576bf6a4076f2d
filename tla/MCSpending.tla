------------------------------ MODULE MCSpending ------------------------------
(* The two caps on what models cost, a run's and OpenRouter's of a day, and   *)
(* the choice of hosts those calls go to.  Nothing links them, so a           *)
(* behaviour is one of the three's.                                          *)
EXTENDS RunBudget, OpenRouterCap, HostGuard, TLC

\* Calls are interchangeable but for the lock's NoThread.
Symmetry == Permutations(Threads)

\* Two clients, with two threads and with one.
CONSTANTS c1, c2, u1, u2, u3
MixedOwner == u1 :> c1 @@ u2 :> c1 @@ u3 :> c2
\* One client, all of whose calls share its lock.
SharedOwner == [u \in Callers |-> c1]

VARIABLE which

Caps == Init /\ DayInit /\ HostInit /\ which \in {"run", "day", "hosts"}
Calls == \/ which = "run" /\ Next /\ UNCHANGED <<which, dayVars, hostVars>>
         \/ which = "day" /\ DayNext /\ UNCHANGED <<which, vars, hostVars>>
         \/ which = "hosts" /\ HostNext /\ UNCHANGED <<which, vars, dayVars>>
CapSpec == Caps /\ [][Calls]_<<which, vars, dayVars, hostVars>>

(* What is held back for open calls is exactly what they may cost, in a run   *)
(* and in each client of the day, also after refusals, failures and kills:    *)
(* it neither leaks nor is given back twice (usage.Budget.hold,               *)
(* openrouter.OpenRouter.complete).                                          *)
ReservationsAreExact == PendingIsInFlight /\ ReservedIsInFlight
===============================================================================
