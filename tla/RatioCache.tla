------------------------------ MODULE RatioCache ------------------------------
(***************************************************************************)
(* The ratios the price model trains on, one file for each month-end: what   *)
(* Wisesheets answered, and who was asked.  A run asks only for the names a  *)
(* file lacks, a request for each chunk of names, while the month's quota    *)
(* stays above a reserve; a chunk may be lost, a write fail, the run die.    *)
(***************************************************************************)
EXTENDS Integers, FiniteSets, FiniteSetsExt

CONSTANTS
    Universes,         \* the sets of tickers runs ask for
    Dates,             \* month-ends, integers
    Uncovered,         \* <<ticker, date>> Wisesheets has nothing for
    MAX_TICKERS,       \* AS_REPORTED_MAX_TICKERS
    QUOTA_RESERVE, FullQuota,
    MaxMishaps, MaxRuns    \* bounds

ASSUME RatioAssumption ==
    /\ {QUOTA_RESERVE, FullQuota, MaxMishaps, MaxRuns} \subseteq Nat /\ MAX_TICKERS \in Nat \ {0}
    /\ Dates \subseteq Nat /\ IsFiniteSet(Dates) /\ \A u \in Universes : IsFiniteSet(u)

VARIABLES
    ratioFile,   \* by date: [values, asked], tickers each; or broken
    quota,
    run,         \* [universe, todo, missing, out, from]: todo by date; missing dates; "none"
    runs, mishaps

ratioVars == <<ratioFile, quota, run, runs, mishaps>>

NoRunNow == [universe |-> {}, todo |-> [d \in Dates |-> {}], missing |-> {}, out |-> [d \in Dates |-> {}], from |-> 0]
Broken == [values |-> {}, asked |-> {"?"}]
Covered(d) == {t \in UNION Universes : <<t, d>> \notin Uncovered}

-----------------------------------------------------------------------------
(* A file that cannot be read is as good as none.                           *)
_load_cached(d) == IF ratioFile[d] = Broken THEN [values |-> {}, asked |-> {}] ELSE ratioFile[d]

Requests(names) == (Cardinality(names) + MAX_TICKERS - 1) \div MAX_TICKERS
Newest(n, ds) == CHOOSE s \in SUBSET ds : Cardinality(s) = n /\ \A d \in s, e \in ds \ s : d > e

(* How many dates the quota affords, at as many requests each as the one that *)
(* lacks most; the newest of them.                                          *)
\* At as many as the one that lacks least.
AffordableMutant(todo, dates) ==
    LET n == Max({0, quota - QUOTA_RESERVE}) \div Max({1, Min({Requests(todo[d]) : d \in dates})})
    IN  IF n < Cardinality(dates) THEN Newest(n, dates) ELSE dates
Affordable(todo, dates) ==
    LET n == Max({0, quota - QUOTA_RESERVE}) \div Max({1, Max({Requests(todo[d]) : d \in dates})})
    IN  IF n < Cardinality(dates) THEN Newest(n, dates) ELSE dates

\* A quota that cannot be read limits nothing.
Begins(u, told) ==
    /\ run.universe = {} /\ runs < MaxRuns /\ (told \/ mishaps < MaxMishaps)
    /\ LET todo == [d \in Dates |-> u \ _load_cached(d).asked]
           lacking == {d \in Dates : todo[d] # {}}
       IN  run' = [universe |-> u, todo |-> todo, from |-> IF told THEN quota ELSE 0, out |-> [d \in Dates |-> _load_cached(d).values],
                   missing |-> IF told /\ lacking # {} THEN Affordable(todo, lacking) ELSE lacking]
    /\ runs' = runs + 1
    /\ mishaps' = mishaps + (IF told THEN 0 ELSE 1)
    /\ UNCHANGED <<ratioFile, quota>>

(* The chunks of a date's names are asked for in turn; lost are the names of  *)
(* the chunks that got no answer.                                           *)
Chunked(names) == {c \in SUBSET names : Cardinality(c) = MAX_TICKERS \/ c = names}
Losses(names) == {{}} \cup IF mishaps < MaxMishaps THEN Chunked(names) \cup {names} ELSE {}

\* Everyone asked for counts as asked.
AskedNowMutant(names, lost) == names
AskedNow(names, lost) == names \ lost

(* A date is asked for, oldest first.  Nothing answered records nothing; a    *)
(* write that fails leaves the file and only this run has the answers.        *)
FetchDate(lost, writes) ==
    LET d == Min(run.missing)
        answered == run.todo[d] \ lost
        merged == run.out[d] \cup (answered \cap Covered(d))
        stored == [values |-> merged, asked |-> _load_cached(d).asked \cup AskedNow(run.todo[d], lost)]
    IN  /\ run.missing # {}
        /\ lost \in IF quota < Requests(run.todo[d]) THEN {run.todo[d]} ELSE Losses(run.todo[d])
        /\ quota' = Max({0, quota - Requests(run.todo[d])})
        /\ run' = [run EXCEPT !.missing = @ \ {d}, !.out[d] = IF answered = {} THEN @ ELSE merged]
        /\ ratioFile' = IF answered = {} \/ ~writes THEN ratioFile ELSE [ratioFile EXCEPT ![d] = stored]
        /\ writes \/ mishaps < MaxMishaps
        /\ mishaps' = mishaps + (IF lost # {} /\ mishaps < MaxMishaps THEN 1 ELSE 0) + (IF writes THEN 0 ELSE 1)
        /\ UNCHANGED runs

Trained ==
    /\ run.universe # {} /\ run.missing = {}
    /\ run' = NoRunNow
    /\ UNCHANGED <<ratioFile, quota, runs, mishaps>>

(* Killed, perhaps in the middle of a write.                                 *)
KilledInFetch(half) ==
    /\ run.missing # {} /\ mishaps < MaxMishaps
    /\ mishaps' = mishaps + 1
    /\ ratioFile' = IF half THEN [ratioFile EXCEPT ![Min(run.missing)] = Broken] ELSE ratioFile
    /\ run' = NoRunNow
    /\ UNCHANGED <<quota, runs>>

NewMonth ==
    /\ run.universe = {} /\ quota < FullQuota
    /\ quota' = FullQuota
    /\ UNCHANGED <<ratioFile, run, runs, mishaps>>

RatioInit ==
    /\ ratioFile = [d \in Dates |-> [values |-> {}, asked |-> {}]]
    /\ quota = FullQuota /\ run = NoRunNow /\ runs = 0 /\ mishaps = 0
RatioNext ==
    \/ Trained \/ NewMonth
    \/ \E u \in Universes, told \in BOOLEAN : Begins(u, told)
    \/ \E writes \in BOOLEAN, lost \in SUBSET UNION Universes : FetchDate(lost, writes)
    \/ \E half \in BOOLEAN : KilledInFetch(half)
RatioSpec == RatioInit /\ [][RatioNext]_ratioVars

-----------------------------------------------------------------------------
(* A name counts as asked only if it was answered: what it has is in the      *)
(* file, so a lost chunk, a smaller universe or a death in a write never turn *)
(* into medians for good (_load_cached, fetch_history).                      *)
AskedMeansAnswered ==
    \A d \in Dates : ratioFile[d] # Broken => ratioFile[d].asked \cap Covered(d) \subseteq ratioFile[d].values

(* A training run that could read the quota leaves the reserve to the daily   *)
(* mail, whatever it lacks (QUOTA_RESERVE).                                  *)
ReserveIsKept == quota >= QUOTA_RESERVE \/ run.from < QUOTA_RESERVE

RatiosAreWhole == AskedMeansAnswered /\ ReserveIsKept
==============================================================================
