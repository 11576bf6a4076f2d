------------------------------- MODULE HostGuard -------------------------------
(***************************************************************************)
(* Which of the approved hosts of an open model may read a filing.  Before    *)
(* each weekly read every host answers a filing whose facts are known; a host *)
(* whose latest check failed, or whose reads of the last weeks were poor, is  *)
(* left out by every client made from then on, and by the run that checked.   *)
(*                                                                         *)
(* A client keeps what it left out when it was made; two can be open at once,  *)
(* and one open over midnight.  A quote missed and an unusable reply count    *)
(* alike.                                                                  *)
(***************************************************************************)
EXTENDS Integers, FiniteSets, FiniteSetsExt

CONSTANTS
    Hosts,               \* APPROVED_HOSTS of the model
    Conditions,          \* what may become of one
    CheckEvery,          \* days between weekly reads
    CHECK_VALID_DAYS, QUALITY_DAYS, MIN_READS,
    LastCheckDay, MaxUpsets     \* bounds

ASSUME HostAssumption ==
    /\ {CHECK_VALID_DAYS, QUALITY_DAYS, MIN_READS, LastCheckDay, MaxUpsets} \subseteq Nat
    /\ CheckEvery \in Nat \ {0} /\ CheckEvery < CHECK_VALID_DAYS
    /\ IsFiniteSet(Hosts)

VARIABLES
    today,
    condition,   \* of each host: "good", "masking" (alters what it reads), "gone" (404) or "down"
    checks,      \* the stored checks still looked at: [day, host, detail]
    replies,     \* rows of filing_facts still looked at: [day, host, fine, by]
    clients,     \* of the weekly and the nightly run: [open, day, excluded, blind]
    upsets,
    history      \* kept for the properties: how each host's last check went, and when

hostVars == <<today, condition, checks, replies, clients, upsets, history>>

Runners == {"weekly", "nightly"}
Shut == [open |-> FALSE, day |-> 0, excluded |-> {}, blind |-> FALSE]
Upset(happens) == (happens => upsets < MaxUpsets) /\ upsets' = upsets + (IF happens THEN 1 ELSE 0)
IsWeekly(d) == d % CheckEvery = 0

-----------------------------------------------------------------------------
(* The hosts whose latest check of the last CHECK_VALID_DAYS failed, and the   *)
(* part of them that failed only for want of an endpoint.                    *)
Valid == {c \in checks : c.day >= today - CHECK_VALID_DAYS}
LatestOf(h) == {c \in Valid : c.host = h /\ \A x \in Valid : x.host = h => x.day <= c.day}
\* Any check that failed, but today's.
LatestFailuresMutant == {c.host : c \in {x \in Valid : x.detail # "ok" /\ x.day < today}}
LatestFailures == {h \in Hosts : \E c \in LatestOf(h) : c.detail # "ok"}
unavailable_hosts == {h \in Hosts : \E c \in LatestOf(h) : c.detail = "unavailable"}

(* Reads and poor ones of the last QUALITY_DAYS.                             *)
RepliesOf(h) == {r \in replies : r.host = h /\ r.day >= today - QUALITY_DAYS}
Poor(rs) == {r \in rs : ~r.fine}
host_quality(h) ==
    LET rs == RepliesOf(h) IN Cardinality(rs) >= MIN_READS /\ 10 * Cardinality(Poor(rs)) > Cardinality(rs)

excluded_hosts == LatestFailures \cup {h \in Hosts : host_quality(h)}

(* What the doctor reports: no host left, and the others only as skipped.     *)
openrouter_host_problems ==
    [problem |-> Hosts \subseteq excluded_hosts,
     skipped |-> (LatestFailures \ unavailable_hosts) \cup {h \in Hosts : host_quality(h)},
     gone |-> unavailable_hosts]

(* A client is made; when the database cannot be read nothing is left out.    *)
client_from_settings(c, blind) ==
    /\ ~clients[c].open
    /\ c = "weekly" => IsWeekly(today)
    /\ ~\E r \in replies : r.by = c /\ r.day = today
    /\ Upset(blind)
    /\ clients' = [clients EXCEPT ![c] = [open |-> TRUE, day |-> today, blind |-> blind,
                                          excluded |-> IF blind THEN {} ELSE excluded_hosts]]
    /\ UNCHANGED <<today, condition, checks, replies, history>>

allowed_hosts(c) == Hosts \ clients[c].excluded

-----------------------------------------------------------------------------
canary_problems(h) == CASE condition[h] = "good" -> "ok" [] condition[h] = "gone" -> "unavailable" [] OTHER -> "failed"
Checked(h) == [day |-> today, host |-> h, detail |-> canary_problems(h)]

(* Every approved host is asked, left out or not; all are stored together,    *)
(* a check of the same day replaced.                                         *)
\* The failures are kept for the next run's client.
run_canariesMutant ==
    /\ clients["weekly"].open /\ clients["weekly"].day = today /\ ~\E c \in checks : c.day = today
    /\ checks' = checks \cup {Checked(h) : h \in Hosts}
    /\ history' = [h \in Hosts |-> [passed |-> canary_problems(h) = "ok", on |-> today]]
    /\ UNCHANGED <<today, condition, replies, clients, upsets>>
run_canaries ==
    /\ clients["weekly"].open /\ clients["weekly"].day = today /\ ~\E c \in checks : c.day = today
    /\ checks' = checks \cup {Checked(h) : h \in Hosts}
    /\ clients' = [clients EXCEPT !["weekly"].excluded = @ \cup {h \in Hosts : canary_problems(h) # "ok"}]
    /\ history' = [h \in Hosts |-> [passed |-> canary_problems(h) = "ok", on |-> today]]
    /\ UNCHANGED <<today, condition, replies, upsets>>

(* Past the cap the check stores nothing and the run ends.                   *)
CapEndsTheCheck ==
    /\ clients["weekly"].open /\ Upset(TRUE)
    /\ clients' = [clients EXCEPT !["weekly"] = Shut]
    /\ UNCHANGED <<today, condition, checks, replies, history>>

(* The run's filings are read, on every host it may use; one that is gone or   *)
(* down leaves no row.  The weekly run reads once its hosts were checked.     *)
read_filings(c) ==
    /\ clients[c].open
    /\ c = "weekly" => \E k \in checks : k.day = clients[c].day
    /\ replies' = replies \cup {[day |-> today, host |-> h, fine |-> condition[h] = "good", by |-> c] :
                                   h \in {x \in allowed_hosts(c) : condition[x] \in {"good", "masking"}}}
    /\ clients' = [clients EXCEPT ![c] = Shut]
    /\ UNCHANGED <<today, condition, checks, upsets, history>>

HostChanges(h, now) ==
    /\ condition[h] # now /\ Upset(TRUE)
    /\ condition' = [condition EXCEPT ![h] = now]
    /\ UNCHANGED <<today, checks, replies, clients, history>>

(* The next day; the weekly run ran, unless something kept it.  A client is   *)
(* open over one midnight at most, and not between its making and the check.   *)
(* What is no longer looked at is dropped.                                   *)
NextDayOfHosts ==
    /\ today < LastCheckDay
    /\ \A c \in Runners : clients[c].open => clients[c].day = today /\ (c = "weekly" => \E k \in checks : k.day = today)
    /\ Upset(IsWeekly(today) /\ ~\E c \in checks : c.day = today)
    /\ today' = today + 1
    /\ checks' = {c \in checks : c.day >= today' - CHECK_VALID_DAYS}
    /\ replies' = {r \in replies : r.day >= today' - QUALITY_DAYS}
    /\ UNCHANGED <<condition, clients, history>>

HostInit ==
    /\ today = 0
    /\ condition = [h \in Hosts |-> "good"]
    /\ checks = {} /\ replies = {} /\ upsets = 0
    /\ clients = [c \in Runners |-> Shut]
    /\ history = [h \in Hosts |-> [passed |-> TRUE, on |-> 0]]
HostNext ==
    \/ NextDayOfHosts \/ run_canaries \/ CapEndsTheCheck
    \/ \E c \in Runners : read_filings(c) \/ \E blind \in BOOLEAN : client_from_settings(c, blind)
    \/ \E h \in Hosts, now \in Conditions : HostChanges(h, now)
HostSpec == HostInit /\ [][HostNext]_hostVars

-----------------------------------------------------------------------------
(* A host that failed its last check gets no filing from a client made since,  *)
(* nor from the run that checked, for as long as a check counts: a weekly run  *)
(* that is missed once leaves no day between (excluded_hosts, run_canaries).   *)
FailedHostIsLeftOut ==
    \A c \in Runners, h \in Hosts :
        (/\ clients[c].open /\ ~clients[c].blind /\ ~history[h].passed
         /\ clients[c].day >= history[h].on /\ clients[c].day <= history[h].on + CHECK_VALID_DAYS)
            => \/ h \notin allowed_hosts(c)
               \/ c = "nightly" /\ clients[c].day = history[h].on

(* A host that passed is not left out for an older failure; only for reads    *)
(* that were poor, and those are forgotten in time.  The doctor knows: it     *)
(* says no host is left just when a client made now would have none, and      *)
(* never for hosts that all passed and read well (_latest_failures,           *)
(* host_quality, openrouter_host_problems).                                  *)
PassedHostIsBack ==
    /\ \A h \in Hosts : history[h].passed /\ Poor(RepliesOf(h)) = {} => h \notin excluded_hosts
    /\ LET doctor == openrouter_host_problems IN
       /\ doctor.problem <=> doctor.skipped \cup doctor.gone = Hosts
       /\ doctor.problem => \A h \in Hosts : ~history[h].passed \/ Poor(RepliesOf(h)) # {}

(* No filing goes to a host whose last check failed, and one that passed and   *)
(* reads well is used again (openrouter_hosts.excluded_hosts).                *)
HostsAreGuarded == FailedHostIsLeftOut /\ PassedHostIsBack
==============================================================================
