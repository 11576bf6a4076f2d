------------------------------ MODULE JobSchedule ------------------------------
(***************************************************************************)
(* scripts/crontab, run_job.sh and catch_up.py: jobs meant for a New York  *)
(* hour on a machine whose clock is UTC, that goes down and comes back.    *)
(*                                                                         *)
(* Cron fires a line at both UTC hours its New York hour can be, and       *)
(* run_job.sh runs the firing whose New York hour matches.  At boot the    *)
(* catch-up reads the job logs and runs what came due and did not run.     *)
(*                                                                         *)
(* An hour has three slots: "due", the five minutes from a job's minute    *)
(* on; "eve", the last five before the next; and "rest".  Minutes of       *)
(* different jobs are not told apart.                                      *)
(***************************************************************************)
EXTENDS Integers, Sequences, FiniteSets, FiniteSetsExt

CONSTANTS
    Jobs,           \* the lines of the crontab in the model
    Seasons,        \* stretches of UTC days around a clock change
    First, Horizon, \* the hours the model starts and ends at
    CatchUpHours,   \* CATCH_UP_HOURS
    MaxOutages,     \* times the machine goes down in the model
    NoJob

\* The NY_AT lines: UTC hours, days of month, months, days of week (0 is
\* Sunday), and the New York hour.
AnyDay == 1..31
AnyMonth == 1..12
AnyWeekday == 0..6
Line(hours, dom, month, dow, nyAt) ==
    [hours |-> hours, dom |-> dom, month |-> month, dow |-> dow, nyAt |-> nyAt]
Crontab ==
    [ibd              |-> Line({10, 11}, AnyDay, AnyMonth, 1..5, 6),
     update           |-> Line({12, 13}, AnyDay, AnyMonth, 1..5, 8),
     portfolio        |-> Line({13, 14}, AnyDay, AnyMonth, {3}, 9),
     snapshot         |-> Line({22, 23}, AnyDay, AnyMonth, 1..5, 18),
     dashboard        |-> Line({20, 21}, AnyDay, AnyMonth, 1..5, 16),
     model_review     |-> Line({15, 16}, {1}, AnyMonth, AnyWeekday, 11),
     quarterly_review |-> Line({13, 14}, 1..7, {1, 4, 7, 10}, AnyWeekday, 9),
     tax_planner      |-> Line({12, 13}, 1..7, {12}, AnyWeekday, 8),
     earnings_watch   |-> Line({2, 3}, AnyDay, AnyMonth, 2..6, 22),
     filings          |-> Line({3, 4}, AnyDay, AnyMonth, {0}, 23),
     doctor           |-> Line({0, 1}, AnyDay, AnyMonth, {1}, 20),
     backup           |-> Line({6, 7}, AnyDay, AnyMonth, AnyWeekday, 2)]

ASSUME JobsAssumption == Jobs \subseteq DOMAIN Crontab /\ NoJob \notin Jobs
\* A season: the hour of its clock change, which is two in the morning in New
\* York, the city's offset before and after it, and the date of each UTC day
\* from hour 0.
ASSUME SeasonsAssumption ==
    \A s \in Seasons :
        /\ s.at \in Nat /\ {s.before, s.after} \subseteq {4, 5}
        /\ s.before # s.after => (s.at - s.before) % 24 = 2
        /\ 24 * Len(s.days) > Horizon
ASSUME HoursAssumption ==
    /\ {First, Horizon, CatchUpHours, MaxOutages} \subseteq Nat
    /\ First >= CatchUpHours + 5 /\ First <= Horizon

VARIABLES
    season,     \* the stretch of days this behaviour lives in
    hour, slot, \* now, in UTC hours since the stretch began
    up,         \* the machine is up
    outages,    \* times it has gone down
    booted,     \* the hour it last came up
    starting,   \* jobs cron has fired whose script is not past its hour check
    catchup,    \* "off", "sleeping", "ready", "running" or "done"
    todo,       \* what the catch-up has left to run: job and New York due time
    current,    \* the job it is running
    starts      \* the start lines of the logs

vars == <<season, hour, slot, up, outages, booted, starting, catchup, todo, current, starts>>

Slots == {"due", "rest", "eve"}
TypeOK ==
    /\ season \in Seasons
    /\ hour \in First..Horizon /\ slot \in Slots
    /\ up \in BOOLEAN /\ outages \in 0..MaxOutages /\ booted \in 0..Horizon
    /\ starting \subseteq Jobs /\ current \in Jobs \cup {NoJob}
    /\ catchup \in {"off", "sleeping", "ready", "running", "done"}
    /\ \A m \in todo : m.job \in Jobs /\ m.due < Horizon
    /\ \A s \in starts : s.job \in Jobs /\ s.hour <= hour /\ s.by \in {"cron", "catchup"}
    /\ ~up => starting = {} /\ todo = {} /\ current = NoJob

-----------------------------------------------------------------------------
\* New York's clock, in hours since the midnight before the stretch began
\* there: datetime.now(NY) without its minutes.
Wall(h) == h - (IF h < season.at THEN season.before ELSE season.after)

\* astimezone(UTC) of a New York time: the first of two, and of a time the
\* clock skips the offset from before.
ToUtc(w) ==
    IF w + season.before < season.at \/ w + season.after < season.at
    THEN w + season.before ELSE w + season.after

\* Cron's days are matched in UTC; no line restricts both day fields.
DayMatches(j, h) ==
    LET date == season.days[h \div 24 + 1] IN
    /\ date.dom \in Crontab[j].dom
    /\ date.month \in Crontab[j].month
    /\ date.dow \in Crontab[j].dow

CronFires(j, h) == h % 24 \in Crontab[j].hours /\ DayMatches(j, h)

FiredAt(h) == {j \in Jobs : CronFires(j, h)}

\* NY_AT is never looked at.
HourIsRightMutant(j) == TRUE

HourIsRight(j) == Wall(hour) % 24 = Crontab[j].nyAt

\* The hours at which a job runs when the machine is up.
RunsAt(j, h) == CronFires(j, h) /\ Wall(h) % 24 = Crontab[j].nyAt

\* last_due: New York days back from today; at most one of the set is used.
DueTimes(j) ==
    LET today == Wall(hour) \div 24
        onDay == {24 * (today - back) + Crontab[j].nyAt : back \in 0..(CatchUpHours \div 24 + 1)}
    IN {w \in onDay : /\ w <= Wall(hour) /\ Wall(hour) - w < CatchUpHours
                      /\ CronFires(j, ToUtc(w))}

\* Slots of an hour in the order they come.
Rank(s) == CASE s = "due" -> 0 [] s = "rest" -> 1 [] s = "eve" -> 2

\* ran_since: a start line, by New York's clock, from five minutes before
\* the due time to now.
RanSince(j, w) ==
    \E s \in starts :
        /\ s.job = j
        /\ Wall(s.hour) >= w \/ (Wall(s.hour) = w - 1 /\ s.slot = "eve")
        /\ \/ Wall(s.hour) < Wall(hour)
           \/ Wall(s.hour) = Wall(hour) /\ Rank(s.slot) <= Rank(slot)

\* missed: the latest due time of each job, unless the job ran since or came
\* due in the last five minutes.
Missed ==
    {m \in [job : Jobs, due : 0..Horizon] :
        /\ DueTimes(m.job) # {} /\ m.due = Max(DueTimes(m.job))
        /\ ~(m.due = Wall(hour) /\ slot = "due")
        /\ ~RanSince(m.job, m.due)}

StartLine(j, by) == [job |-> j, hour |-> hour, slot |-> slot, by |-> by]

-----------------------------------------------------------------------------
\* What came due before the stretch has run.
Init ==
    /\ season \in Seasons
    /\ hour = First /\ slot = "rest" /\ up = TRUE /\ outages = 0 /\ booted = 0
    /\ starting = {} /\ catchup = "off" /\ todo = {} /\ current = NoJob
    /\ starts = {[job |-> j, hour |-> Max({h \in 0..First : RunsAt(j, h)}),
                  slot |-> "due", by |-> "cron"] :
                    j \in {k \in Jobs : \E h \in 0..First : RunsAt(k, h)}}

(* Time goes on.  Cron fires at a job's minute; a script is past its hour  *)
(* check, and a catch-up past its sleep, in five minutes.                  *)
Tick ==
    /\ starting = {} /\ catchup # "ready"
    /\ slot = "eve" => hour < Horizon
    /\ slot' = CASE slot = "due" -> "rest" [] slot = "rest" -> "eve" [] slot = "eve" -> "due"
    /\ hour' = IF slot = "eve" THEN hour + 1 ELSE hour
    /\ starting' = IF slot = "eve" /\ up THEN FiredAt(hour + 1) ELSE {}
    /\ catchup' = IF catchup = "sleeping" THEN "ready" ELSE catchup
    /\ UNCHANGED <<season, up, outages, booted, todo, current, starts>>

(* run_job.sh: the hour check, then the start line.                        *)
Begin(j) ==
    /\ j \in starting
    /\ starting' = starting \ {j}
    /\ starts' = IF HourIsRight(j) THEN starts \cup {StartLine(j, "cron")} ELSE starts
    /\ UNCHANGED <<season, hour, slot, up, outages, booted, catchup, todo, current>>

GoDown ==
    /\ up /\ outages < MaxOutages
    /\ up' = FALSE /\ outages' = outages + 1
    /\ starting' = {} /\ todo' = {} /\ current' = NoJob /\ catchup' = "off"
    /\ UNCHANGED <<season, hour, slot, booted, starts>>

\* The catch-up does not sleep.
BootMutant ==
    /\ ~up
    /\ up' = TRUE /\ booted' = hour
    /\ starting' \in {{}, IF slot = "due" THEN FiredAt(hour) ELSE {}}
    /\ catchup' = "ready"
    /\ UNCHANGED <<season, hour, slot, outages, todo, current, starts>>

(* The machine comes up, in a job's minute or after it, and the catch-up   *)
(* sleeps CATCH_UP_DELAY_SECONDS, five minutes.                            *)
Boot ==
    /\ ~up
    /\ up' = TRUE /\ booted' = hour
    /\ starting' \in {{}, IF slot = "due" THEN FiredAt(hour) ELSE {}}
    /\ catchup' \in IF slot = "rest" THEN {"sleeping", "ready"} ELSE {"sleeping"}
    /\ UNCHANGED <<season, hour, slot, outages, todo, current, starts>>

(* catch_up settles what was missed, once.                                 *)
Scan ==
    /\ catchup = "ready"
    /\ todo' = Missed /\ catchup' = "running"
    /\ UNCHANGED <<season, hour, slot, up, outages, booted, starting, current, starts>>

\* The list is started over after every job.
StartNextMutant ==
    /\ catchup = "running" /\ current = NoJob
    /\ \E m \in todo :
          /\ \A n \in todo : m.due <= n.due
          /\ current' = m.job
          /\ starts' = starts \cup {StartLine(m.job, "catchup")}
    /\ UNCHANGED <<season, hour, slot, up, outages, booted, starting, catchup, todo>>

(* The oldest goes next, whatever the hour.                                *)
StartNext ==
    /\ catchup = "running" /\ current = NoJob
    /\ \E m \in todo :
          /\ \A n \in todo : m.due <= n.due
          /\ todo' = todo \ {m} /\ current' = m.job
          /\ starts' = starts \cup {StartLine(m.job, "catchup")}
    /\ UNCHANGED <<season, hour, slot, up, outages, booted, starting, catchup>>

(* The job ends, well or not, however long it took.                        *)
Finish ==
    /\ current # NoJob
    /\ current' = NoJob
    /\ UNCHANGED <<season, hour, slot, up, outages, booted, starting, catchup, todo, starts>>

Return ==
    /\ catchup = "running" /\ todo = {} /\ current = NoJob
    /\ catchup' = "done"
    /\ UNCHANGED <<season, hour, slot, up, outages, booted, starting, todo, current, starts>>

CatchUp == Scan \/ StartNext \/ Finish \/ Return
Next == Tick \/ (\E j \in Jobs : Begin(j)) \/ GoDown \/ Boot \/ CatchUp

\* The catch-up's process runs on, and the jobs it waits for end.
Spec == Init /\ [][Next]_vars /\ WF_vars(CatchUp)

-----------------------------------------------------------------------------
(* The crontab's header: of the two firings of a line run_job.sh runs one, *)
(* before, on and after the night the clock changes.                       *)
OneFiringADay ==
    \A s, t \in starts :
        /\ s.by = "cron" /\ t.by = "cron" /\ s.job = t.job
        /\ Wall(s.hour) \div 24 = Wall(t.hour) \div 24
        => s = t

(* Once a catch-up is through, no job's latest due time is without a start *)
(* since (or in the five minutes before it on New York's clock, which are   *)
(* an hour more when it is put back): what came due while the machine was   *)
(* down, while it booted, while the catch-up slept or ran, and what a       *)
(* second outage cut off.                                                  *)
NothingDueIsLost ==
    up /\ catchup = "done" =>
        \A j \in Jobs \ starting :
            LET ran == {h \in First..hour : RunsAt(j, h) /\ hour - h < CatchUpHours - 1} IN
            ran # {} =>
                \E s \in starts : /\ s.job = j
                                  /\ \/ s.hour >= Max(ran)
                                     \/ Wall(s.hour) = Wall(Max(ran)) - 1 /\ s.slot = "eve"

(* The catch-up sets out to run only what came due before the machine was   *)
(* up, or what cron never runs (an hour the clock skips): what cron has     *)
(* just fired is left to cron.                                             *)
CatchUpLeavesCronAlone ==
    \A m \in todo : RunsAt(m.job, ToUtc(m.due)) => ToUtc(m.due) <= booted

(* Neither the clock's change nor a boot runs a job twice that ran once       *)
(* (run_job.sh, catch_up.missed).                                           *)
NoSecondRun == OneFiringADay /\ CatchUpLeavesCronAlone

(* A catch-up comes to its end, or the machine goes down again.            *)
CatchUpEnds == catchup = "ready" ~> catchup \in {"done", "off"}
================================================================================
