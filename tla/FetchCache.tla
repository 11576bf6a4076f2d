------------------------------ MODULE FetchCache ------------------------------
(***************************************************************************)
(* Answers kept for a week, one file for each kind, and renewed a slice a    *)
(* night.  An answer carries the day its company reports next, and expires   *)
(* with it.  Runs of several processes read the file, fetch what it lacks,   *)
(* and merge their answers into whatever the file holds by then.             *)
(*                                                                         *)
(* A day has a morning and a night, on the nights of Nights the renewal job. *)
(***************************************************************************)
EXTENDS Integers, FiniteSets, FiniteSetsExt

CONSTANTS
    Names, Runs,
    NightlyRun,        \* the run of Runs that is the nightly job
    Reports,           \* [Names -> days its company reports on]
    FETCH_CACHE_DAYS, WeekDays, Nights,
    Nightly,           \* names a night renews: the share, rounded up
    LastNight, MaxErrors,   \* bounds
    Nothing

ASSUME FetchAssumption ==
    /\ NightlyRun \in Runs /\ Reports \in [Names -> SUBSET Nat] /\ Nights \subseteq 0..WeekDays - 1
    /\ {FETCH_CACHE_DAYS, Nightly, LastNight, MaxErrors} \subseteq Nat /\ WeekDays \in Nat \ {0}
    /\ IsFiniteSet(Names) /\ Nothing \notin [at : Nat, next : Nat]

(* The nights of the renewal job in the ticks from a to b; within the days an  *)
(* answer keeps, their shares add up to every name (a fifth on each of five    *)
(* nights of the week).                                                    *)
NightsIn(a, b) == {t \in a..b : t % 2 = 1 /\ (t \div 2) % WeekDays \in Nights}
ASSUME SharesAssumption ==
    \A a \in 0..2 * LastNight :
        a + 2 * FETCH_CACHE_DAYS < 2 * LastNight =>
            Nightly * Cardinality(NightsIn(a + 1, a + 2 * FETCH_CACHE_DAYS)) >= Cardinality(Names)

VARIABLES
    tick,      \* twice the day, plus one at night
    cache,     \* the file: [Names -> [at, next], or Nothing]
    doing,     \* by run: [step, at, cached, refresh, got]
    renewed,   \* the night's renewal is done
    failures,
    raced,     \* a run wrote while another was about to (kept for the properties)
    served     \* the last answers of a run: [at, answers]

fetchVars == <<tick, cache, doing, renewed, failures, raced, served>>

Day == tick \div 2
Idle == [step |-> "idle", at |-> 0, cached |-> [n \in Names |-> Nothing], refresh |-> {}, got |-> {}]
Never == LastNight + 1
IsNight == tick \in NightsIn(tick, tick)

-----------------------------------------------------------------------------
ReportedSinceFetch(e) == e.at \div 2 <= e.next /\ e.next < Day
IsFresh(e) == e.at >= tick - 2 * FETCH_CACHE_DAYS /\ ~ReportedSinceFetch(e)
Unexpired == [n \in Names |-> IF cache[n] # Nothing /\ IsFresh(cache[n]) THEN cache[n] ELSE Nothing]

Cached(c) == {n \in Names : c[n] # Nothing}
\* The newest are renewed.
OldestMutant(c) ==
    CHOOSE s \in SUBSET Cached(c) :
        /\ Cardinality(s) = (IF Cardinality(Cached(c)) < Nightly THEN Cardinality(Cached(c)) ELSE Nightly)
        /\ \A n \in s, m \in Cached(c) \ s : c[n].at >= c[m].at

Oldest(c) ==
    CHOOSE s \in SUBSET Cached(c) :
        /\ Cardinality(s) = (IF Cardinality(Cached(c)) < Nightly THEN Cardinality(Cached(c)) ELSE Nightly)
        /\ \A n \in s, m \in Cached(c) \ s : c[n].at <= c[m].at

(* A run begins with what the file holds; a file that cannot be read is no   *)
(* answers.                                                                *)
Begin(r) ==
    /\ doing[r].step = "idle"
    /\ r = NightlyRun => IsNight /\ ~renewed
    /\ \/ doing' = [doing EXCEPT ![r] = [Idle EXCEPT !.step = "fetch", !.at = tick, !.cached = Unexpired,
                      !.refresh = IF r = NightlyRun THEN Oldest(Unexpired) ELSE {}]]
          /\ UNCHANGED failures
       \/ /\ failures < MaxErrors /\ failures' = failures + 1
          /\ doing' = [doing EXCEPT ![r] = [Idle EXCEPT !.step = "fetch", !.at = tick]]
    /\ renewed' = (renewed \/ r = NightlyRun)
    /\ UNCHANGED <<tick, cache, raced, served>>

NextReport(n) == Min({d \in Reports[n] : d >= Day} \cup {Never})

(* Names without an answer, or to be renewed, are fetched; one that fails    *)
(* keeps the answer it had, if that had not expired.                        *)
Fetch(r) ==
    LET d == doing[r]
        todo == {n \in Names : d.cached[n] = Nothing \/ n \in d.refresh}
    IN /\ d.step = "fetch"
       /\ \E got \in {todo} \cup (IF failures < MaxErrors THEN {todo \ {n} : n \in todo} ELSE {}) :
             /\ failures' = IF got = todo THEN failures ELSE failures + 1
             /\ served' = [at |-> d.at, answers |-> [n \in Names |->
                             IF n \in got THEN [at |-> d.at, next |-> NextReport(n)] ELSE d.cached[n]]]
             /\ doing' = [doing EXCEPT ![r] = IF got = {} THEN Idle
                             ELSE [d EXCEPT !.step = "merge", !.got = got]]
       /\ UNCHANGED <<tick, cache, renewed, raced>>

\* A file that cannot be read is taken for an empty one.
UnreadableMutant(r) == doing' = [doing EXCEPT ![r] = [@ EXCEPT !.step = "write", !.cached = [n \in Names |-> Nothing]]]

Unreadable(r) == doing' = [doing EXCEPT ![r] = Idle]

(* The file is read again, strictly, and then replaced.  Only runs of one    *)
(* process are kept apart by a lock: of two processes the later writer wins. *)
Reread(r) ==
    /\ doing[r].step = "merge"
    /\ \/ /\ doing' = [doing EXCEPT ![r] = [@ EXCEPT !.step = "write", !.cached = Unexpired]]
          /\ UNCHANGED failures
       \/ failures < MaxErrors /\ failures' = failures + 1 /\ Unreadable(r)
    /\ UNCHANGED <<tick, cache, renewed, raced, served>>

Write(r) ==
    /\ doing[r].step = "write"
    /\ cache' = [n \in Names |-> IF n \in doing[r].got THEN [at |-> doing[r].at, next |-> NextReport(n)]
                                ELSE doing[r].cached[n]]
    /\ doing' = [doing EXCEPT ![r] = Idle]
    /\ raced' = (raced \/ \E s \in Runs \ {r} : doing[s].step = "write")
    /\ UNCHANGED <<tick, renewed, failures, served>>

(* A run is over in the half day it began in, and cron misses no night.      *)
FetchTick ==
    /\ Day < LastNight
    /\ \A r \in Runs : doing[r].step = "idle"
    /\ IsNight => renewed
    /\ tick' = tick + 1 /\ renewed' = FALSE
    /\ UNCHANGED <<cache, doing, failures, raced, served>>

FetchInit ==
    /\ tick = 0 /\ cache = [n \in Names |-> Nothing] /\ doing = [r \in Runs |-> Idle]
    /\ renewed = FALSE /\ failures = 0 /\ raced = FALSE /\ served = [at |-> 0, answers |-> [n \in Names |-> Nothing]]

FetchNext == FetchTick \/ \E r \in Runs : Begin(r) \/ Fetch(r) \/ Reread(r) \/ Write(r)
FetchSpec == FetchInit /\ [][FetchNext]_fetchVars

-----------------------------------------------------------------------------
(* No answer is served once its company has reported, or after its days are  *)
(* over, not even where a renewal fails: between the day it was fetched and   *)
(* the day it is served there is no report, unless it is today's.            *)
NoAnswerOutlivesAReport ==
    \A n \in Names :
        LET e == served.answers[n] IN
        e # Nothing =>
            /\ served.at - e.at <= 2 * FETCH_CACHE_DAYS
            /\ \A d \in Reports[n] : ~(e.at \div 2 <= d /\ d < served.at \div 2)

(* While nothing fails and no two writes overlap, the nightly slice renews   *)
(* every answer before it expires: a day's run has nothing to fetch but what *)
(* it never had and what was reported (warm_screen_cache: "each answer is at *)
(* most a week old").                                                       *)
RenewedInTime ==
    failures = 0 /\ ~raced => \A n \in Names : cache[n] # Nothing => tick - cache[n].at <= 2 * FETCH_CACHE_DAYS

(* No answer is older than its days or its company's last report, and none    *)
(* that will expire waits for a day's run to ask (fetch_many, warm_screen_cache). *)
AnswersAreCurrent == NoAnswerOutlivesAReport /\ RenewedInTime

(* Answers that hold are not lost from the file, not even when it cannot be   *)
(* read for a moment (fetch_many reads strictly before it writes), unless two *)
(* processes wrote at once.                                                *)
NothingFreshIsDropped ==
    [][\A n \in Names :
          cache[n] # Nothing /\ IsFresh(cache[n]) /\ cache'[n] = Nothing => raced]_fetchVars

(* The cache answers as its source would and loses nothing it still may use.  *)
CacheIsHonest == []AnswersAreCurrent /\ NothingFreshIsDropped
=============================================================================
