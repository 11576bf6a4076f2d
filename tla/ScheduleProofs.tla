---------------------------- MODULE ScheduleProofs ----------------------------
(***************************************************************************)
(* Proofs about JobSchedule, for any of the crontab's jobs, any stretch of *)
(* days around a clock change, and outages at any moment; and about        *)
(* Archive, for any rotation of the copies.                                *)
(*                                                                         *)
(* New York's clock repeats or skips an hour at two in the morning, and no *)
(* line of the crontab is meant for the hour from one to two: so a job's   *)
(* hour comes once a day, and the hour a due time is turned back into is   *)
(* the one cron ran it at, or none.                                        *)
(***************************************************************************)
EXTENDS MCJobSchedule, WellFoundedInduction, TLAPS

-----------------------------------------------------------------------------
(* Numbers.                                                                *)

(* A set of natural numbers that is not empty has a least element.         *)
LEMMA LeastNumber ==
    ASSUME NEW S \in SUBSET Nat, S # {}
    PROVE  \E n \in S : \A m \in S : n <= m
<1> DEFINE R == OpToRel(<, Nat)
<1>1. IsWellFoundedOn(R, Nat)
  BY NatLessThanWellFounded, Zenon
<1> HIDE DEF R
<1>2. PICK n \in S : \A m \in S : ~(<<m, n>> \in R)
  BY <1>1, WFMin
<1>3. \A m \in S : ~(m < n)
  BY <1>2 DEF R, OpToRel
<1>4. QED BY <1>3

(* Max is the greatest of a set of integers that has a bound.               *)
LEMMA MaxIsGreatest ==
    ASSUME NEW S \in SUBSET Int, S # {}, NEW b \in Int, \A x \in S : x <= b
    PROVE  Max(S) \in S /\ \A x \in S : x <= Max(S)
<1> DEFINE T == {k \in Nat : b - k \in S}
<1>1. T # {}
  <2>1. PICK x \in S : TRUE
    OBVIOUS
  <2>2. b - x \in Nat /\ b - (b - x) = x
    BY <2>1
  <2>3. QED BY <2>1, <2>2
<1>2. PICK k \in T : \A m \in T : k <= m
  BY <1>1, LeastNumber
<1>3. b - k \in S
  BY <1>2
<1>4. ASSUME NEW y \in S PROVE b - k >= y
  <2>1. b - y \in Nat /\ b - (b - y) = y
    OBVIOUS
  <2>2. b - y \in T
    BY <2>1
  <2>3. QED BY <1>2, <2>1, <2>2
<1>5. \E x \in S : \A y \in S : x >= y
  BY <1>3, <1>4
<1>6. Max(S) \in S /\ \A y \in S : Max(S) >= y
  BY <1>5 DEF Max
<1>7. QED BY <1>6

-----------------------------------------------------------------------------
(* Hours of the day and of the stretch.                                     *)

(* No job is meant for the hour that may come twice.                        *)
LEMMA HourOfJob ==
    ASSUME NEW j \in Jobs
    PROVE  Crontab[j].nyAt \in 0..23 \ {1}
<1>1. j \in DOMAIN Crontab
  BY JobsAssumption
<1>2. j \in {"ibd", "update", "portfolio", "snapshot", "dashboard", "model_review", "quarterly_review",
             "tax_planner", "earnings_watch", "filings", "doctor", "backup"}
  BY <1>1 DEF Crontab
<1>3. QED BY <1>2 DEF Crontab, Line

(* What a season is, with names of its own for its three numbers.            *)
Changes(at, before, after) ==
    /\ at \in Nat /\ before \in {4, 5} /\ after \in {4, 5}
    /\ before # after => (at - before) % 24 = 2
LEMMA SeasonChanges == ASSUME season \in Seasons PROVE Changes(season.at, season.before, season.after)
BY SeasonsAssumption DEF Changes

(* New York's clock shows an hour twice only at the change.                  *)
LEMMA SameWall ==
    ASSUME season \in Seasons, NEW g \in Int, NEW h \in Int, Wall(g) = Wall(h), Wall(g) % 24 # 1
    PROVE  g = h
<1>1. PICK at \in Nat, before \in {4, 5}, after \in {4, 5} :
        at = season.at /\ before = season.before /\ after = season.after /\ (before # after => (at - before) % 24 = 2)
  BY SeasonChanges DEF Changes
<1>2. Wall(g) = (IF g < at THEN g - before ELSE g - after) /\ Wall(h) = (IF h < at THEN h - before ELSE h - after)
  BY <1>1 DEF Wall
<1>3. CASE g < at /\ h < at
  <2>1. g - before = h - before
    BY <1>2, <1>3
  <2>2. QED BY <2>1
<1>4. CASE ~(g < at) /\ ~(h < at)
  <2>1. g - after = h - after
    BY <1>2, <1>4
  <2>2. QED BY <2>1
<1>5. ASSUME NEW x \in Int, NEW y \in Int, x < at, ~(y < at), x - before = y - after, (x - before) % 24 # 1
      PROVE  FALSE
  <2>1. before = 4 /\ after = 5 /\ x = at - 1
    BY <1>5
  <2>2. (at - 4) % 24 = 2
    BY <1>1, <2>1
  <2>3. (at - 5) % 24 # 1
    BY <1>5, <2>1
  <2>4. QED BY <2>2, <2>3
<1>6. CASE g < at /\ ~(h < at)
  <2>1. g - before = h - after /\ (g - before) % 24 # 1
    BY <1>2, <1>6
  <2>2. QED BY <1>5, <1>6, <2>1
<1>7. CASE ~(g < at) /\ h < at
  <2>1. h - before = g - after /\ (h - before) % 24 # 1
    BY <1>2, <1>7
  <2>2. QED BY <1>5, <1>7, <2>1
<1>8. QED BY <1>3, <1>4, <1>6, <1>7

(* Two times of the same hour of the day on one day are the same.            *)
LEMMA SameDaySameHour ==
    ASSUME NEW v \in Int, NEW w \in Int, v % 24 = w % 24, v \div 24 = w \div 24
    PROVE  v = w
OBVIOUS

LEMMA WallIsAnInteger == ASSUME season \in Seasons, NEW h \in Int PROVE Wall(h) \in Int /\ Wall(h) <= h - 4 /\ Wall(h) >= h - 5
BY SeasonChanges DEF Changes, Wall

(* A due time is turned back into the hour New York showed it at, for the    *)
(* first time, if it ever did.                                              *)
LEMMA BackToUtc ==
    ASSUME season \in Seasons, NEW w \in Int, NEW k \in 0..23, k # 1, w % 24 = k, Wall(ToUtc(w)) % 24 = k
    PROVE  ToUtc(w) \in Int /\ Wall(ToUtc(w)) = w
<1>1. PICK at \in Nat, before \in {4, 5}, after \in {4, 5} :
        at = season.at /\ before = season.before /\ after = season.after /\ (before # after => (at - before) % 24 = 2)
  BY SeasonChanges DEF Changes
<1>2. ToUtc(w) = IF w + before < at \/ w + after < at THEN w + before ELSE w + after
  BY <1>1 DEF ToUtc
<1>3. ToUtc(w) \in Int
  BY <1>2
<1>4. Wall(ToUtc(w)) = (IF ToUtc(w) < at THEN ToUtc(w) - before ELSE ToUtc(w) - after)
  BY <1>1, <1>3 DEF Wall
<1>5. Wall(ToUtc(w)) \in {w - 1, w, w + 1}
  BY <1>2, <1>4
<1>6. (w - 1) % 24 # k /\ (w + 1) % 24 # k
  OBVIOUS
<1>7. QED BY <1>3, <1>5, <1>6

(* ... and that hour is not to come.                                       *)
LEMMA NotToCome ==
    ASSUME season \in Seasons, NEW w \in Int, NEW h \in Int, Wall(ToUtc(w)) = w, w <= Wall(h)
    PROVE  ToUtc(w) <= h
<1>1. PICK at \in Nat, before \in {4, 5}, after \in {4, 5} :
        at = season.at /\ before = season.before /\ after = season.after
  BY SeasonChanges DEF Changes
<1>2. ToUtc(w) = IF w + before < at \/ w + after < at THEN w + before ELSE w + after
  BY <1>1 DEF ToUtc
<1>3. ToUtc(w) \in Int
  BY <1>2
<1>4. w = (IF ToUtc(w) < at THEN ToUtc(w) - before ELSE ToUtc(w) - after)
  BY <1>1, <1>3 DEF Wall
<1>5. Wall(h) = (IF h < at THEN h - before ELSE h - after)
  BY <1>1 DEF Wall
<1>6. QED BY <1>1, <1>2, <1>4, <1>5

-----------------------------------------------------------------------------
(* The invariant.                                                           *)

(* How the machine, the catch-up and what cron fired go together.            *)
Shape ==
    /\ booted <= hour
    /\ starting # {} => slot = "due"
    /\ starting \subseteq FiredAt(hour)
    /\ catchup # "off" => up /\ booted >= First
    /\ \A s \in starts : s.hour \in Nat
    /\ \A m \in todo : m.due \in Nat

(* A line of cron's is of an hour its job runs at.                           *)
LinesOK ==
    \A s \in starts : /\ s = [job |-> s.job, hour |-> s.hour, slot |-> s.slot, by |-> s.by]
                      /\ s.by = "cron" => s.slot = "due" /\ RunsAt(s.job, s.hour)

(* Since the machine is up cron has left no hour out.                        *)
CronLine(j, h) == [job |-> j, hour |-> h, slot |-> "due", by |-> "cron"]
CronRan ==
    up => \A j \in Jobs : \A h \in Int :
        First < h /\ booted < h /\ h <= hour /\ RunsAt(j, h)
        => CronLine(j, h) \in starts \/ (h = hour /\ j \in starting)

IInv == TypeOK /\ Shape /\ LinesOK /\ CronRan /\ CatchUpLeavesCronAlone

LEMMA InvInit == Init => IInv
<1> SUFFICES ASSUME Init PROVE IInv
  OBVIOUS
<1>1. First \in Nat /\ Horizon \in Nat /\ MaxOutages \in Nat /\ First <= Horizon
  BY HoursAssumption
<1>2. ASSUME NEW s \in starts
      PROVE  /\ s.job \in Jobs /\ s.hour \in Nat /\ s.hour <= First /\ s.by = "cron" /\ RunsAt(s.job, s.hour)
             /\ s = [job |-> s.job, hour |-> s.hour, slot |-> s.slot, by |-> s.by] /\ s.slot = "due"
  <2>1. PICK j \in Jobs : /\ \E h \in 0..First : RunsAt(j, h)
                          /\ s = [job |-> j, hour |-> Max({h \in 0..First : RunsAt(j, h)}), slot |-> "due", by |-> "cron"]
    BY DEF Init
  <2> DEFINE S == {h \in 0..First : RunsAt(j, h)}
  <2>2. S \in SUBSET Int /\ S # {} /\ First \in Int /\ \A x \in S : x <= First
    BY <2>1, <1>1
  <2>3. Max(S) \in S
    <3> HIDE DEF S
    <3> QED BY <2>2, MaxIsGreatest
  <2>4. QED BY <2>1, <2>3, <1>1
<1>3. TypeOK
  <2>1. hour \in First..Horizon /\ booted \in 0..Horizon /\ outages \in 0..MaxOutages
    BY <1>1 DEF Init
  <2>2. \A s \in starts : s.job \in Jobs /\ s.hour <= hour /\ s.by \in {"cron", "catchup"}
    BY <1>2 DEF Init
  <2>3. QED BY <2>1, <2>2 DEF Init, TypeOK, Slots
<1>4. Shape
  <2>1. booted <= hour /\ starting = {} /\ todo = {} /\ catchup = "off"
    BY <1>1 DEF Init
  <2>2. \A s \in starts : s.hour \in Nat
    BY <1>2
  <2>3. QED BY <2>1, <2>2 DEF Shape
<1>5. LinesOK
  BY <1>2 DEF LinesOK
<1>6. CronRan
  BY <1>1 DEF Init, CronRan
<1>7. CatchUpLeavesCronAlone
  BY DEF Init, CatchUpLeavesCronAlone
<1>8. QED BY <1>3, <1>4, <1>5, <1>6, <1>7 DEF IInv

-----------------------------------------------------------------------------
(* Steps.  The season a behaviour lives in does not change.                  *)
LEMMA SeasonStays ==
    ASSUME season' = season
    PROVE  /\ \A h : Wall(h)' = Wall(h)
           /\ \A w : ToUtc(w)' = ToUtc(w)
           /\ \A j, h : RunsAt(j, h)' <=> RunsAt(j, h)
           /\ \A h : FiredAt(h)' = FiredAt(h)
BY DEF Wall, ToUtc, RunsAt, FiredAt, CronFires, DayMatches

(* What does not touch the logs, nor the list, nor when the machine came up. *)
LEMMA NothingStarts ==
    ASSUME IInv, UNCHANGED <<season, booted, starts>>, todo' \subseteq todo
    PROVE  LinesOK' /\ CatchUpLeavesCronAlone'
BY SeasonStays DEF IInv, LinesOK, CatchUpLeavesCronAlone

LEMMA InvTick == ASSUME IInv, Tick PROVE IInv'
<1>1. First \in Nat /\ Horizon \in Nat
  BY HoursAssumption
<1>2. /\ season' = season /\ up' = up /\ outages' = outages /\ booted' = booted
      /\ todo' = todo /\ current' = current /\ starts' = starts
      /\ starting = {} /\ catchup # "ready"
  BY DEF Tick
<1>3. /\ hour \in First..Horizon /\ booted \in 0..Horizon /\ booted <= hour /\ slot \in Slots
  BY DEF IInv, TypeOK, Shape
<1>4. /\ hour' \in First..Horizon /\ hour <= hour' /\ slot' \in Slots
      /\ (slot = "eve" => hour' = hour + 1 /\ slot' = "due")
      /\ (slot # "eve" => hour' = hour /\ slot' # "due")
  BY <1>1, <1>3 DEF Tick, Slots
<1>5. starting' = IF slot = "eve" /\ up THEN FiredAt(hour') ELSE {}
  BY <1>4 DEF Tick
<1>6. starting' \subseteq Jobs /\ starting' \subseteq FiredAt(hour')
  BY <1>5 DEF FiredAt
<1>7. catchup' \in {"off", "sleeping", "ready", "running", "done"} /\ (catchup' # "off" => catchup # "off")
  BY DEF Tick, IInv, TypeOK
<1>8. TypeOK'
  <2>1. \A s \in starts : s.job \in Jobs /\ s.hour <= hour' /\ s.by \in {"cron", "catchup"}
    BY <1>1, <1>3, <1>4 DEF IInv, TypeOK, Shape
  <2>2. ~up' => starting' = {} /\ todo' = {} /\ current' = NoJob
    BY <1>2, <1>5 DEF IInv, TypeOK
  <2>3. QED BY <1>2, <1>3, <1>4, <1>6, <1>7, <2>1, <2>2 DEF IInv, TypeOK
<1>9. Shape'
  <2>1. starting' # {} => slot' = "due"
    BY <1>4, <1>5
  <2>2. starting' \subseteq FiredAt(hour)'
    BY <1>2, <1>5, SeasonStays DEF FiredAt, CronFires, DayMatches
  <2>3. catchup' # "off" => up' /\ booted' >= First
    BY <1>2, <1>7 DEF IInv, Shape
  <2>4. booted' <= hour'
    BY <1>1, <1>2, <1>3, <1>4
  <2>5. QED BY <1>2, <2>1, <2>2, <2>3, <2>4 DEF IInv, Shape
<1>10. CronRan'
  <2>1. SUFFICES ASSUME up, NEW j \in Jobs, NEW h \in Int, First < h, booted < h, h <= hour', RunsAt(j, h)
                 PROVE  CronLine(j, h) \in starts \/ (h = hour' /\ j \in starting')
    BY <1>2, SeasonStays DEF CronRan, CronLine
  <2>2. CASE h <= hour
    BY <1>2, <2>1, <2>2 DEF IInv, CronRan
  <2>3. CASE ~(h <= hour)
    <3>1. h = hour' /\ slot = "eve"
      BY <1>1, <1>3, <1>4, <2>1, <2>3
    <3>2. j \in starting'
      BY <1>5, <2>1, <3>1 DEF FiredAt, RunsAt
    <3>3. QED BY <3>1, <3>2
  <2>4. QED BY <2>2, <2>3
<1>11. QED BY <1>2, <1>8, <1>9, <1>10, NothingStarts DEF IInv

LEMMA InvBegin == ASSUME IInv, NEW j \in Jobs, Begin(j) PROVE IInv'
<1>1. /\ UNCHANGED <<season, hour, slot, up, outages, booted, catchup, todo, current>>
      /\ j \in starting /\ starting' = starting \ {j}
      /\ starts' = IF HourIsRight(j) THEN starts \cup {StartLine(j, "cron")} ELSE starts
  BY DEF Begin
<1>2. slot = "due" /\ CronFires(j, hour)
  BY <1>1 DEF IInv, Shape, FiredAt
<1>3. StartLine(j, "cron") = CronLine(j, hour)
  BY <1>2 DEF StartLine, CronLine
<1>4. HourIsRight(j) <=> RunsAt(j, hour)
  BY <1>2 DEF HourIsRight, RunsAt
<1>5. hour \in Nat
  BY HoursAssumption DEF IInv, TypeOK
<1>6. ASSUME NEW s \in starts'
      PROVE  s \in starts \/ (s = CronLine(j, hour) /\ RunsAt(j, hour))
  BY <1>1, <1>3, <1>4, <1>6
<1>7. TypeOK'
  <2>1. ASSUME NEW s \in starts' PROVE s.job \in Jobs /\ s.hour <= hour /\ s.by \in {"cron", "catchup"}
    BY <1>5, <1>6 DEF IInv, TypeOK, CronLine
  <2>2. ~up => starting' = {} /\ todo' = {} /\ current' = NoJob
    BY <1>1 DEF IInv, TypeOK
  <2>3. QED BY <1>1, <2>1, <2>2 DEF IInv, TypeOK
<1>8. Shape'
  <2>1. \A s \in starts' : s.hour \in Nat
    BY <1>5, <1>6 DEF IInv, Shape, CronLine
  <2>2. starting' \subseteq FiredAt(hour)'
    BY <1>1, SeasonStays DEF IInv, Shape, FiredAt, CronFires, DayMatches
  <2>3. QED BY <1>1, <2>1, <2>2 DEF IInv, Shape
<1>9. LinesOK'
  <2>1. ASSUME NEW s \in starts'
        PROVE  /\ s = [job |-> s.job, hour |-> s.hour, slot |-> s.slot, by |-> s.by]
               /\ s.by = "cron" => s.slot = "due" /\ RunsAt(s.job, s.hour)
    BY <1>6 DEF IInv, LinesOK, CronLine
  <2>2. QED BY <1>1, <2>1, SeasonStays DEF LinesOK
<1>10. CronRan'
  <2>1. SUFFICES ASSUME up, NEW i \in Jobs, NEW h \in Int, First < h, booted < h, h <= hour, RunsAt(i, h)
                 PROVE  CronLine(i, h) \in starts' \/ (h = hour /\ i \in starting')
    BY <1>1, SeasonStays DEF CronRan, CronLine
  <2>2. CronLine(i, h) \in starts \/ (h = hour /\ i \in starting)
    BY <2>1 DEF IInv, CronRan
  <2>3. CASE i = j /\ h = hour
    BY <1>1, <1>3, <1>4, <2>1, <2>3
  <2>4. CASE ~(i = j /\ h = hour)
    BY <1>1, <2>2, <2>4
  <2>5. QED BY <2>3, <2>4
<1>11. CatchUpLeavesCronAlone'
  BY <1>1, SeasonStays DEF IInv, CatchUpLeavesCronAlone
<1>12. QED BY <1>7, <1>8, <1>9, <1>10, <1>11 DEF IInv

LEMMA InvGoDown == ASSUME IInv, GoDown PROVE IInv'
<1>1. /\ UNCHANGED <<season, hour, slot, booted, starts>> /\ up' = FALSE /\ outages' = outages + 1
      /\ starting' = {} /\ todo' = {} /\ current' = NoJob /\ catchup' = "off" /\ outages < MaxOutages
  BY DEF GoDown
<1>2. outages' \in 0..MaxOutages
  BY <1>1, HoursAssumption DEF IInv, TypeOK
<1>3. TypeOK'
  BY <1>1, <1>2 DEF IInv, TypeOK
<1>4. Shape'
  BY <1>1 DEF IInv, Shape
<1>5. CronRan'
  BY <1>1 DEF CronRan
<1>6. QED BY <1>1, <1>3, <1>4, <1>5, NothingStarts DEF IInv

LEMMA InvBoot == ASSUME IInv, Boot PROVE IInv'
<1>1. /\ UNCHANGED <<season, hour, slot, outages, todo, current, starts>>
      /\ ~up /\ up' = TRUE /\ booted' = hour
      /\ starting' \in {{}, IF slot = "due" THEN FiredAt(hour) ELSE {}}
      /\ catchup' \in {"sleeping", "ready"}
  BY DEF Boot
<1>2. First \in Nat /\ Horizon \in Nat /\ hour \in First..Horizon /\ booted \in 0..Horizon /\ booted <= hour
  BY HoursAssumption DEF IInv, TypeOK, Shape
<1>3. todo = {}
  BY <1>1 DEF IInv, TypeOK
<1>4. starting' \subseteq FiredAt(hour) /\ (starting' # {} => slot = "due")
  BY <1>1
<1>5. TypeOK'
  <2>1. starting' \subseteq Jobs
    BY <1>4 DEF FiredAt
  <2>2. booted' \in 0..Horizon
    BY <1>1, <1>2
  <2>3. QED BY <1>1, <2>1, <2>2 DEF IInv, TypeOK
<1>6. Shape'
  <2>1. starting' \subseteq FiredAt(hour)'
    BY <1>1, <1>4, SeasonStays DEF FiredAt, CronFires, DayMatches
  <2>2. booted' <= hour' /\ booted' >= First
    BY <1>1, <1>2
  <2>3. QED BY <1>1, <1>4, <2>1, <2>2 DEF IInv, Shape
<1>7. CronRan'
  BY <1>1, <1>2 DEF CronRan
<1>8. LinesOK'
  BY <1>1, SeasonStays DEF IInv, LinesOK
<1>9. CatchUpLeavesCronAlone'
  BY <1>1, <1>3 DEF CatchUpLeavesCronAlone
<1>10. QED BY <1>5, <1>6, <1>7, <1>8, <1>9 DEF IInv

(* What was missed came due before the machine was up, or cron never runs     *)
(* it: what cron ran since has a line, and what it runs now is left out.      *)
LEMMA MissedIsOld ==
    ASSUME IInv, catchup = "ready", NEW m \in Missed
    PROVE  /\ m.job \in Jobs /\ m.due \in Nat /\ m.due < Horizon
           /\ RunsAt(m.job, ToUtc(m.due)) => ToUtc(m.due) <= booted
<1>1. /\ m.job \in Jobs /\ m.due \in 0..Horizon
      /\ DueTimes(m.job) # {} /\ m.due = Max(DueTimes(m.job))
      /\ ~(m.due = Wall(hour) /\ slot = "due")
      /\ ~RanSince(m.job, m.due)
  BY DEF Missed
<1> DEFINE j == m.job
           w == m.due
<1>2. /\ First \in Nat /\ Horizon \in Nat /\ CatchUpHours \in Nat /\ hour \in First..Horizon
      /\ booted \in 0..Horizon /\ booted >= First /\ up /\ season \in Seasons
  BY HoursAssumption DEF IInv, TypeOK, Shape
<1>3. Wall(hour) \in Int /\ Wall(hour) <= hour - 4
  BY <1>2, WallIsAnInteger
<1>4. w \in DueTimes(j)
  <2>1. DueTimes(j) \in SUBSET Int
    <3>1. Crontab[j].nyAt \in Int
      BY <1>1, HourOfJob
    <3>2. Wall(hour) \div 24 \in Int
      BY <1>3
    <3>3. QED BY <1>1, <3>1, <3>2 DEF DueTimes
  <2>2. \A x \in DueTimes(j) : x <= Wall(hour)
    BY DEF DueTimes
  <2>3. QED BY <1>1, <1>3, <2>1, <2>2, MaxIsGreatest
<1>5. w <= Wall(hour)
  BY <1>4 DEF DueTimes
<1>6. w % 24 = Crontab[j].nyAt
  <2>1. PICK back \in 0..(CatchUpHours \div 24 + 1) : w = 24 * (Wall(hour) \div 24 - back) + Crontab[j].nyAt
    BY <1>4 DEF DueTimes
  <2> DEFINE q == Wall(hour) \div 24 - back
  <2>2. q \in Int /\ w = 24 * q + Crontab[j].nyAt
    BY <2>1, <1>2, <1>3
  <2> HIDE DEF q
  <2>3. Crontab[j].nyAt \in 0..23
    BY <1>1, HourOfJob
  <2>4. QED BY <2>2, <2>3
<1>7. w \in Nat /\ w < Horizon
  BY <1>1, <1>2, <1>3, <1>5
<1>8. ASSUME RunsAt(j, ToUtc(w)) PROVE ToUtc(w) <= booted
  <2>1. Wall(ToUtc(w)) % 24 = Crontab[j].nyAt
    BY <1>8 DEF RunsAt
  <2>2. Crontab[j].nyAt \in 0..23 /\ Crontab[j].nyAt # 1
    BY <1>1, HourOfJob
  <2>3. ToUtc(w) \in Int /\ Wall(ToUtc(w)) = w
    BY <1>2, <1>6, <1>7, <2>1, <2>2, BackToUtc
  <2>4. ToUtc(w) <= hour
    BY <1>2, <1>5, <1>7, <2>3, NotToCome
  <2>5. SUFFICES ASSUME booted < ToUtc(w) PROVE FALSE
    BY <1>2, <2>3
  <2>6. CronLine(j, ToUtc(w)) \in starts \/ (ToUtc(w) = hour /\ j \in starting)
    BY <1>1, <1>2, <1>8, <2>3, <2>4, <2>5 DEF IInv, CronRan
  <2>7. CASE CronLine(j, ToUtc(w)) \in starts
    <3>1. Rank("due") <= Rank(slot)
      BY DEF IInv, TypeOK, Slots, Rank
    <3>2. CronLine(j, ToUtc(w)).job = j /\ CronLine(j, ToUtc(w)).hour = ToUtc(w) /\ CronLine(j, ToUtc(w)).slot = "due"
      BY DEF CronLine
    <3>3. w < Wall(hour) \/ w = Wall(hour)
      BY <1>3, <1>5, <1>7
    <3>4. RanSince(j, w)
      BY <1>7, <2>3, <2>7, <3>1, <3>2, <3>3 DEF RanSince
    <3>5. QED BY <1>1, <3>4
  <2>8. CASE ToUtc(w) = hour /\ j \in starting
    <3>1. slot = "due"
      BY <2>8 DEF IInv, Shape
    <3>2. w = Wall(hour)
      BY <2>3, <2>8
    <3>3. QED BY <1>1, <3>1, <3>2
  <2>9. QED BY <2>6, <2>7, <2>8
<1>9. QED BY <1>1, <1>7, <1>8

LEMMA InvScan == ASSUME IInv, Scan PROVE IInv'
<1>1. /\ UNCHANGED <<season, hour, slot, up, outages, booted, starting, current, starts>>
      /\ catchup = "ready" /\ catchup' = "running" /\ todo' = Missed
  BY DEF Scan
<1>2. up
  BY <1>1 DEF IInv, Shape
<1>3. TypeOK'
  BY <1>1, <1>2, MissedIsOld DEF IInv, TypeOK
<1>4. Shape'
  <2>1. \A m \in todo' : m.due \in Nat
    BY <1>1, MissedIsOld
  <2>2. starting' \subseteq FiredAt(hour)'
    BY <1>1, SeasonStays DEF IInv, Shape, FiredAt, CronFires, DayMatches
  <2>3. QED BY <1>1, <2>1, <2>2 DEF IInv, Shape
<1>5. CatchUpLeavesCronAlone'
  BY <1>1, SeasonStays, MissedIsOld DEF CatchUpLeavesCronAlone
<1>6. LinesOK' /\ CronRan'
  BY <1>1, SeasonStays DEF IInv, LinesOK, CronRan, CronLine
<1>7. QED BY <1>3, <1>4, <1>5, <1>6 DEF IInv

LEMMA InvStartNext == ASSUME IInv, StartNext PROVE IInv'
<1>1. PICK m \in todo :
        /\ UNCHANGED <<season, hour, slot, up, outages, booted, starting, catchup>>
        /\ todo' = todo \ {m} /\ current' = m.job
        /\ starts' = starts \cup {StartLine(m.job, "catchup")} /\ catchup = "running"
  BY DEF StartNext
<1>2. m.job \in Jobs /\ up /\ hour \in Nat /\ season \in Seasons
  BY <1>1, HoursAssumption DEF IInv, TypeOK, Shape
<1> DEFINE line == StartLine(m.job, "catchup")
<1>3. /\ line = [job |-> line.job, hour |-> line.hour, slot |-> line.slot, by |-> line.by]
      /\ line.job \in Jobs /\ line.hour = hour /\ line.by = "catchup"
  BY <1>2 DEF StartLine
<1> HIDE DEF line
<1>4. TypeOK'
  <2>1. \A s \in starts' : s.job \in Jobs /\ s.hour <= hour /\ s.by \in {"cron", "catchup"}
    BY <1>1, <1>2, <1>3 DEF IInv, TypeOK, line
  <2>2. QED BY <1>1, <1>2, <2>1 DEF IInv, TypeOK
<1>5. Shape'
  <2>1. \A s \in starts' : s.hour \in Nat
    BY <1>1, <1>2, <1>3 DEF IInv, Shape, line
  <2>2. starting' \subseteq FiredAt(hour)'
    BY <1>1, SeasonStays DEF IInv, Shape, FiredAt, CronFires, DayMatches
  <2>3. QED BY <1>1, <2>1, <2>2 DEF IInv, Shape
<1>6. LinesOK'
  <2>1. ASSUME NEW s \in starts'
        PROVE  /\ s = [job |-> s.job, hour |-> s.hour, slot |-> s.slot, by |-> s.by]
               /\ s.by = "cron" => s.slot = "due" /\ RunsAt(s.job, s.hour)
    BY <1>1, <1>3 DEF IInv, LinesOK, line
  <2>2. QED BY <1>1, <2>1, SeasonStays DEF LinesOK
<1>7. CronRan'
  BY <1>1, SeasonStays DEF IInv, CronRan, CronLine
<1>8. CatchUpLeavesCronAlone'
  BY <1>1, SeasonStays DEF IInv, CatchUpLeavesCronAlone
<1>9. QED BY <1>4, <1>5, <1>6, <1>7, <1>8 DEF IInv

LEMMA InvEnd == ASSUME IInv, Finish \/ Return \/ UNCHANGED vars PROVE IInv'
<1>1. /\ UNCHANGED <<season, hour, slot, up, outages, booted, starting, todo, starts>>
      /\ current' \in {current, NoJob} /\ (catchup' = catchup \/ (catchup' = "done" /\ catchup = "running"))
  BY DEF Finish, Return, vars
<1>2. TypeOK'
  BY <1>1 DEF IInv, TypeOK
<1>3. Shape'
  <2>1. starting' \subseteq FiredAt(hour)'
    BY <1>1, SeasonStays DEF IInv, Shape, FiredAt, CronFires, DayMatches
  <2>2. QED BY <1>1, <2>1 DEF IInv, Shape
<1>4. CronRan'
  BY <1>1, SeasonStays DEF IInv, CronRan, CronLine
<1>5. QED BY <1>1, <1>2, <1>3, <1>4, NothingStarts DEF IInv

LEMMA InvStep == IInv /\ [Next]_vars => IInv'
<1> SUFFICES ASSUME IInv, [Next]_vars PROVE IInv'
  OBVIOUS
<1>1. CASE Tick BY <1>1, InvTick
<1>2. CASE \E j \in Jobs : Begin(j) BY <1>2, InvBegin
<1>3. CASE GoDown BY <1>3, InvGoDown
<1>4. CASE Boot BY <1>4, InvBoot
<1>5. CASE Scan BY <1>5, InvScan
<1>6. CASE StartNext BY <1>6, InvStartNext
<1>7. CASE Finish \/ Return \/ UNCHANGED vars BY <1>7, InvEnd
<1>8. QED BY <1>1, <1>2, <1>3, <1>4, <1>5, <1>6, <1>7 DEF Next, CatchUp

(* Two lines of cron's for a job on one New York day are of the same hour.   *)
LEMMA CronOncePerDay == IInv => OneFiringADay
<1> SUFFICES ASSUME IInv, NEW s \in starts, NEW t \in starts, s.by = "cron", t.by = "cron", s.job = t.job,
                    Wall(s.hour) \div 24 = Wall(t.hour) \div 24
             PROVE  s = t
  BY DEF OneFiringADay
<1>1. /\ s = [job |-> s.job, hour |-> s.hour, slot |-> "due", by |-> "cron"] /\ RunsAt(s.job, s.hour)
      /\ t = [job |-> s.job, hour |-> t.hour, slot |-> "due", by |-> "cron"] /\ RunsAt(s.job, t.hour)
  BY DEF IInv, LinesOK
<1>2. s.job \in Jobs /\ s.hour \in Int /\ t.hour \in Int /\ season \in Seasons
  BY DEF IInv, TypeOK, Shape
<1>3. Wall(s.hour) % 24 = Crontab[s.job].nyAt /\ Wall(t.hour) % 24 = Crontab[s.job].nyAt
  BY <1>1 DEF RunsAt
<1>4. Wall(s.hour) \in Int /\ Wall(t.hour) \in Int
  BY <1>2, WallIsAnInteger
<1>5. Wall(s.hour) = Wall(t.hour)
  BY <1>3, <1>4, SameDaySameHour
<1>6. Wall(s.hour) % 24 # 1
  BY <1>2, <1>3, HourOfJob
<1>7. s.hour = t.hour
  BY <1>2, <1>5, <1>6, SameWall
<1>8. QED BY <1>1, <1>7

(* The jobs' logs, the machine and the catch-up keep their types.            *)
THEOREM ScheduleTypes == Spec => []TypeOK
<1>1. IInv => TypeOK
  BY DEF IInv
<1>2. QED BY <1>1, InvInit, InvStep, PTL DEF Spec

(* Cron runs a job once a New York day, also on the days the clock changes,  *)
(* and the catch-up leaves to cron what cron has just fired (crontab,         *)
(* run_job.sh, catch_up.missed).                                            *)
THEOREM NoJobRunsTwice == Spec => []NoSecondRun
<1>1. IInv => NoSecondRun
  BY CronOncePerDay DEF IInv, NoSecondRun
<1>2. QED BY <1>1, InvInit, InvStep, PTL DEF Spec

-----------------------------------------------------------------------------
(* What a catch-up leaves behind.                                            *)

(* New York's clock is put back by an hour at most.                          *)
LEMMA WallOrder ==
    ASSUME season \in Seasons, NEW g \in Int, NEW h \in Int, g <= h
    PROVE  Wall(g) <= Wall(h) + 1 /\ Wall(h) - Wall(g) <= (h - g) + 1 /\ (g # h => Wall(g) <= Wall(h))
<1>1. PICK at \in Nat, before \in {4, 5}, after \in {4, 5} :
        at = season.at /\ before = season.before /\ after = season.after
  BY SeasonChanges DEF Changes
<1>2. Wall(g) = (IF g < at THEN g - before ELSE g - after) /\ Wall(h) = (IF h < at THEN h - before ELSE h - after)
  BY <1>1 DEF Wall
<1>3. QED BY <1>2

LEMMA LaterByTheClock ==
    ASSUME season \in Seasons, NEW g \in Int, NEW h \in Int, Wall(g) >= Wall(h), Wall(h) % 24 # 1
    PROVE  g >= h
<1>1. Wall(g) \in Int /\ Wall(h) \in Int
  BY WallIsAnInteger
<1>2. SUFFICES ASSUME g < h PROVE FALSE
  OBVIOUS
<1>3. Wall(g) <= Wall(h)
  BY <1>2, WallOrder
<1>4. Wall(h) = Wall(g)
  BY <1>1, <1>3
<1>5. h = g
  BY <1>4, SameWall
<1>6. QED BY <1>2, <1>5

LEMMA ThereAndBack ==
    ASSUME season \in Seasons, NEW h \in Int, Wall(h) % 24 # 1
    PROVE  ToUtc(Wall(h)) = h
<1>1. PICK at \in Nat, before \in {4, 5}, after \in {4, 5} :
        at = season.at /\ before = season.before /\ after = season.after /\ (before # after => (at - before) % 24 = 2)
  BY SeasonChanges DEF Changes
<1> DEFINE w == Wall(h)
<1>2. w = IF h < at THEN h - before ELSE h - after
  BY <1>1 DEF Wall
<1>3. ToUtc(w) = IF w + before < at \/ w + after < at THEN w + before ELSE w + after
  BY <1>1 DEF ToUtc
<1>4. w % 24 # 1
  OBVIOUS
<1> SUFFICES ToUtc(w) = h
  OBVIOUS
<1> HIDE DEF w
<1>5. CASE h < at
  <2>1. w = h - before
    BY <1>2, <1>5
  <2>2. w + before = h
    BY <2>1
  <2>3. QED BY <1>3, <1>5, <2>2
<1>6. CASE ~(h < at)
  <2>1. w = h - after /\ w \in Int
    BY <1>2, <1>6
  <2>2. CASE w + before < at
    <3>1. before = 4 /\ after = 5 /\ w = at - 5
      BY <1>6, <2>1, <2>2
    <3>2. (at - 4) % 24 = 2
      BY <1>1, <3>1
    <3>3. (at - 5) % 24 # 1
      BY <1>4, <3>1
    <3>4. QED BY <3>2, <3>3
  <2>3. CASE ~(w + before < at)
    <3>1. w + after = h
      BY <2>1
    <3>2. QED BY <1>3, <1>6, <2>3, <3>1
  <2>4. QED BY <2>2, <2>3
<1>7. QED BY <1>5, <1>6

LEMMA DaysBack ==
    ASSUME NEW v \in Int, NEW w \in Int, NEW c \in Nat, w <= v, v - w < c
    PROVE  (v \div 24) - (w \div 24) \in 0..(c \div 24 + 1)
OBVIOUS

(* An hour of a job within the window is among its due times.                *)
LEMMA HourIsDue ==
    ASSUME IInv, NEW j \in Jobs, NEW h \in Int, h <= hour, hour - h < CatchUpHours - 1, RunsAt(j, h)
    PROVE  Wall(h) \in DueTimes(j) /\ Wall(h) % 24 # 1
<1>1. hour \in Int /\ season \in Seasons /\ CatchUpHours \in Nat
  BY HoursAssumption DEF IInv, TypeOK
<1>2. Wall(h) % 24 = Crontab[j].nyAt /\ CronFires(j, h)
  BY DEF RunsAt
<1>3. Crontab[j].nyAt \in 0..23 /\ Crontab[j].nyAt # 1
  BY HourOfJob
<1>4. Wall(h) \in Int /\ Wall(hour) \in Int
  BY <1>1, WallIsAnInteger
<1>5. Wall(h) <= Wall(hour) /\ Wall(hour) - Wall(h) < CatchUpHours
  <2>1. CASE h = hour
    BY <1>1, <1>4, <2>1
  <2>2. CASE h # hour
    <3>1. Wall(h) <= Wall(hour) /\ Wall(hour) - Wall(h) <= (hour - h) + 1
      BY <1>1, <2>2, WallOrder
    <3>2. QED BY <1>1, <1>4, <3>1
  <2>3. QED BY <2>1, <2>2
<1>6. ToUtc(Wall(h)) = h
  BY <1>1, <1>2, <1>3, ThereAndBack
<1> DEFINE back == (Wall(hour) \div 24) - (Wall(h) \div 24)
<1>7. back \in 0..(CatchUpHours \div 24 + 1)
  BY <1>1, <1>4, <1>5, DaysBack
<1>8. Wall(h) = 24 * (Wall(hour) \div 24 - back) + Crontab[j].nyAt
  BY <1>2, <1>4
<1> HIDE DEF back
<1>9. Wall(h) \in DueTimes(j)
  BY <1>2, <1>5, <1>6, <1>7, <1>8 DEF DueTimes
<1>10. QED BY <1>2, <1>3, <1>9

(* A start that is told to have been since a due time.                       *)
Since(s, h) == s.hour >= h \/ (Wall(s.hour) = Wall(h) - 1 /\ s.slot = "eve")

(* A job's hour has its start, or is on the list, or is cron's just now.      *)
Covered(j, h) ==
    \/ \E s \in starts : s.job = j /\ Since(s, h)
    \/ \E m \in todo : m.job = j
    \/ j \in starting /\ RunsAt(j, hour)

InTheWindow(j, h) == First <= h /\ h <= hour /\ hour - h < CatchUpHours - 1 /\ RunsAt(j, h)
CaughtUp ==
    /\ catchup = "ready" /\ slot = "due" => booted < hour
    /\ catchup = "done" => todo = {}
    /\ catchup \in {"running", "done"} => \A j \in Jobs : \A h \in Int : InTheWindow(j, h) => Covered(j, h)

(* What a catch-up settles to run, with what ran and what cron runs now, is   *)
(* all that came due.                                                       *)
LEMMA MissedIsAll ==
    ASSUME IInv, CaughtUp, catchup = "ready", NEW j \in Jobs, NEW h \in Int, InTheWindow(j, h)
    PROVE  \/ \E s \in starts : s.job = j /\ Since(s, h)
           \/ \E m \in Missed : m.job = j
           \/ j \in starting /\ RunsAt(j, hour)
<1>1. /\ First \in Nat /\ Horizon \in Nat /\ CatchUpHours \in Nat /\ First >= CatchUpHours + 5
      /\ hour \in First..Horizon /\ season \in Seasons
  BY HoursAssumption DEF IInv, TypeOK
<1>2. First <= h /\ h <= hour /\ hour - h < CatchUpHours - 1 /\ RunsAt(j, h)
  BY DEF InTheWindow
<1>3. Wall(h) \in DueTimes(j) /\ Wall(h) % 24 # 1
  BY <1>2, HourIsDue
<1>4. /\ Wall(hour) \in Int /\ Wall(hour) <= hour - 4 /\ Wall(h) \in Int /\ Wall(h) >= h - 5
  BY <1>1, WallIsAnInteger
<1>5. DueTimes(j) \in SUBSET Int
  <2>1. Crontab[j].nyAt \in Int
    BY HourOfJob
  <2>2. Wall(hour) \div 24 \in Int
    BY <1>4
  <2>3. QED BY <1>1, <2>1, <2>2 DEF DueTimes
<1>6. \A x \in DueTimes(j) : x <= Wall(hour)
  BY DEF DueTimes
<1> DEFINE d == Max(DueTimes(j))
           m == [job |-> j, due |-> d]
<1>7. d \in DueTimes(j) /\ Wall(h) <= d
  BY <1>3, <1>4, <1>5, <1>6, MaxIsGreatest
<1>8. d \in Int /\ d <= Wall(hour)
  BY <1>5, <1>6, <1>7
<1>9. d \in 0..Horizon
  BY <1>1, <1>2, <1>4, <1>7, <1>8
<1>10. CASE ~(d = Wall(hour) /\ slot = "due") /\ ~RanSince(j, d)
  <2>1. m \in Missed
    BY <1>3, <1>9, <1>10 DEF Missed
  <2>2. QED BY <2>1
<1> HIDE DEF d
<1>11. CASE d = Wall(hour) /\ slot = "due"
  <2>1. Wall(hour) % 24 = Crontab[j].nyAt /\ CronFires(j, ToUtc(Wall(hour)))
    <3>1. PICK back \in 0..(CatchUpHours \div 24 + 1) : d = 24 * (Wall(hour) \div 24 - back) + Crontab[j].nyAt
      BY <1>7 DEF DueTimes
    <3> DEFINE q == Wall(hour) \div 24 - back
    <3>2. q \in Int /\ d = 24 * q + Crontab[j].nyAt
      BY <1>1, <1>4, <3>1
    <3> HIDE DEF q
    <3>3. Crontab[j].nyAt \in 0..23
      BY HourOfJob
    <3>4. d % 24 = Crontab[j].nyAt
      BY <3>2, <3>3
    <3>5. CronFires(j, ToUtc(d))
      BY <1>7 DEF DueTimes
    <3>6. QED BY <1>11, <3>4, <3>5
  <2>2. ToUtc(Wall(hour)) = hour
    BY <1>1, <2>1, HourOfJob, ThereAndBack
  <2>3. RunsAt(j, hour)
    BY <2>1, <2>2 DEF RunsAt
  <2>4. booted < hour /\ booted \in Nat /\ booted >= First /\ up
    BY <1>1, <1>11 DEF CaughtUp, IInv, Shape, TypeOK
  <2>5. CronLine(j, hour) \in starts \/ j \in starting
    BY <1>1, <2>3, <2>4 DEF IInv, CronRan
  <2>6. CASE CronLine(j, hour) \in starts
    <3>1. CronLine(j, hour).job = j /\ Since(CronLine(j, hour), h)
      BY <1>2 DEF CronLine, Since
    <3>2. QED BY <2>6, <3>1
  <2>7. QED BY <2>3, <2>5, <2>6
<1>12. CASE RanSince(j, d)
  <2>1. PICK s \in starts : s.job = j /\ (Wall(s.hour) >= d \/ (Wall(s.hour) = d - 1 /\ s.slot = "eve"))
    BY <1>12 DEF RanSince
  <2>2. s.hour \in Int /\ Wall(s.hour) \in Int
    BY <1>1, WallIsAnInteger DEF IInv, Shape
  <2>3. CASE Wall(s.hour) >= Wall(h)
    <3>1. s.hour >= h
      BY <1>1, <1>3, <2>2, <2>3, LaterByTheClock
    <3>2. QED BY <2>1, <3>1 DEF Since
  <2>4. CASE ~(Wall(s.hour) >= Wall(h))
    <3>1. Wall(s.hour) = Wall(h) - 1 /\ s.slot = "eve"
      BY <1>4, <1>7, <1>8, <2>1, <2>2, <2>4
    <3>2. QED BY <2>1, <3>1 DEF Since
  <2>5. QED BY <2>3, <2>4
<1>13. QED BY <1>10, <1>11, <1>12 DEF d

(* How Covered goes from a step to the next.                                 *)
LEMMA StaysCovered ==
    ASSUME season' = season, starts \subseteq starts', NEW j \in Jobs, NEW h \in Int, Covered(j, h),
           \A m \in todo : m \in todo' \/ \E s \in starts' : s.job = m.job /\ s.hour >= h,
           j \in starting /\ RunsAt(j, hour) => \/ j \in starting' /\ hour' = hour
                                                \/ \E s \in starts' : s.job = j /\ s.hour >= h
    PROVE  Covered(j, h)'
<1>1. CASE \E s \in starts : s.job = j /\ Since(s, h)
  BY <1>1, SeasonStays DEF Covered, Since
<1>2. CASE \E m \in todo : m.job = j
  BY <1>2 DEF Covered, Since
<1>3. CASE j \in starting /\ RunsAt(j, hour)
  <2>1. CASE j \in starting' /\ hour' = hour
    BY <1>3, <2>1, SeasonStays DEF Covered
  <2>2. CASE \E s \in starts' : s.job = j /\ s.hour >= h
    BY <2>2 DEF Covered, Since
  <2>3. QED BY <1>3, <2>1, <2>2
<1>4. QED BY <1>1, <1>2, <1>3 DEF Covered

LEMMA CaughtUpInit == Init => CaughtUp
BY DEF Init, CaughtUp

LEMMA CaughtUpStep == ASSUME IInv, CaughtUp, [Next]_vars PROVE CaughtUp'
<1>0. First \in Nat /\ Horizon \in Nat /\ hour \in First..Horizon /\ booted \in Nat /\ booted <= hour /\ hour \in Int
  BY HoursAssumption DEF IInv, TypeOK, Shape
<1>1. CASE Tick
  <2>1. /\ UNCHANGED <<season, up, booted, todo, starts>> /\ starting = {} /\ catchup # "ready"
        /\ hour' = (IF slot = "eve" THEN hour + 1 ELSE hour)
        /\ (slot' = "due" => slot = "eve")
        /\ starting' = (IF slot = "eve" /\ up THEN FiredAt(hour + 1) ELSE {})
        /\ catchup' = (IF catchup = "sleeping" THEN "ready" ELSE catchup)
    BY <1>1 DEF Tick, IInv, TypeOK, Slots
  <2>2. catchup' = "ready" /\ slot' = "due" => booted' < hour'
    BY <1>0, <2>1
  <2>3. catchup' = "done" => todo' = {}
    BY <2>1 DEF CaughtUp
  <2>4. ASSUME catchup' \in {"running", "done"}, NEW j \in Jobs, NEW h \in Int, InTheWindow(j, h)'
        PROVE  Covered(j, h)'
    <3>1. catchup \in {"running", "done"} /\ up
      BY <2>1, <2>4 DEF IInv, Shape
    <3>2. First <= h /\ h <= hour' /\ hour' - h < CatchUpHours - 1 /\ RunsAt(j, h)
      BY <2>1, <2>4, SeasonStays DEF InTheWindow
    <3>3. CASE h <= hour
      <4>1. InTheWindow(j, h)
        BY <1>0, <2>1, <3>2, <3>3, HoursAssumption DEF InTheWindow
      <4>2. Covered(j, h)
        BY <3>1, <4>1 DEF CaughtUp
      <4>3. QED BY <2>1, <4>2, StaysCovered
    <3>4. CASE ~(h <= hour)
      <4>1. h = hour' /\ slot = "eve" /\ hour' = hour + 1
        BY <1>0, <2>1, <3>2, <3>4
      <4>2. j \in starting'
        BY <2>1, <3>1, <3>2, <4>1 DEF FiredAt, RunsAt
      <4>3. QED BY <2>1, <3>2, <4>1, <4>2, SeasonStays DEF Covered
    <3>5. QED BY <3>3, <3>4
  <2>5. QED BY <2>2, <2>3, <2>4 DEF CaughtUp
<1>2. ASSUME NEW i \in Jobs, Begin(i) PROVE CaughtUp'
  <2>1. /\ UNCHANGED <<season, hour, slot, up, booted, catchup, todo>>
        /\ i \in starting /\ starting' = starting \ {i} /\ starts \subseteq starts'
        /\ (HourIsRight(i) => StartLine(i, "cron") \in starts')
    BY <1>2 DEF Begin
  <2>2. RunsAt(i, hour) => HourIsRight(i)
    BY DEF RunsAt, HourIsRight
  <2>3. ASSUME catchup' \in {"running", "done"}, NEW j \in Jobs, NEW h \in Int, InTheWindow(j, h)'
        PROVE  Covered(j, h)'
    <3>1. InTheWindow(j, h) /\ h <= hour
      BY <2>1, <2>3, SeasonStays DEF InTheWindow
    <3>2. Covered(j, h)
      BY <2>1, <2>3, <3>1 DEF CaughtUp
    <3>3. ASSUME j = i, RunsAt(j, hour) PROVE \E s \in starts' : s.job = j /\ s.hour >= h
      <4>1. StartLine(i, "cron").job = j /\ StartLine(i, "cron").hour = hour
        BY <3>3 DEF StartLine
      <4>2. QED BY <1>0, <2>1, <2>2, <3>1, <3>3, <4>1
    <3>4. QED BY <2>1, <3>2, <3>3, StaysCovered
  <2>4. QED BY <2>1, <2>3 DEF CaughtUp
<1>3. CASE GoDown
  <2>1. catchup' = "off"
    BY <1>3 DEF GoDown
  <2>2. QED BY <2>1 DEF CaughtUp
<1>4. CASE Boot
  <2>1. catchup' \in {"sleeping", "ready"} /\ (slot' = "due" => catchup' = "sleeping")
    BY <1>4 DEF Boot
  <2>2. QED BY <2>1 DEF CaughtUp
<1>5. CASE Scan
  <2>1. /\ UNCHANGED <<season, hour, slot, up, booted, starting, starts>>
        /\ catchup = "ready" /\ catchup' = "running" /\ todo' = Missed
    BY <1>5 DEF Scan
  <2>2. ASSUME NEW j \in Jobs, NEW h \in Int, InTheWindow(j, h)' PROVE Covered(j, h)'
    <3>1. InTheWindow(j, h)
      BY <2>1, <2>2, SeasonStays DEF InTheWindow
    <3>2. \/ \E s \in starts : s.job = j /\ Since(s, h)
          \/ \E m \in Missed : m.job = j
          \/ j \in starting /\ RunsAt(j, hour)
      BY <2>1, <3>1, MissedIsAll
    <3>3. QED BY <2>1, <3>2, SeasonStays DEF Covered, Since
  <2>3. QED BY <2>1, <2>2 DEF CaughtUp
<1>6. CASE StartNext
  <2>1. PICK n \in todo :
          /\ UNCHANGED <<season, hour, slot, up, booted, starting, catchup>>
          /\ todo' = todo \ {n} /\ starts' = starts \cup {StartLine(n.job, "catchup")} /\ catchup = "running"
    BY <1>6 DEF StartNext
  <2>2. ASSUME NEW j \in Jobs, NEW h \in Int, InTheWindow(j, h)' PROVE Covered(j, h)'
    <3>1. InTheWindow(j, h) /\ h <= hour
      BY <2>1, <2>2, SeasonStays DEF InTheWindow
    <3>2. Covered(j, h)
      BY <2>1, <3>1 DEF CaughtUp
    <3>3. StartLine(n.job, "catchup").job = n.job /\ StartLine(n.job, "catchup").hour >= h
      BY <1>0, <3>1 DEF StartLine
    <3>4. \A m \in todo : m \in todo' \/ \E s \in starts' : s.job = m.job /\ s.hour >= h
      BY <2>1, <3>3
    <3>5. QED BY <2>1, <3>2, <3>4, StaysCovered
  <2>3. QED BY <2>1, <2>2 DEF CaughtUp
<1>7. CASE Finish \/ Return \/ UNCHANGED vars
  <2>1. /\ UNCHANGED <<season, hour, slot, up, booted, starting, todo, starts>>
        /\ catchup' = catchup \/ (catchup' = "done" /\ catchup = "running" /\ todo = {})
    BY <1>7 DEF Finish, Return, vars
  <2>2. ASSUME catchup' \in {"running", "done"}, NEW j \in Jobs, NEW h \in Int, InTheWindow(j, h)'
        PROVE  Covered(j, h)'
    <3>1. InTheWindow(j, h) /\ catchup \in {"running", "done"}
      BY <2>1, <2>2, SeasonStays DEF InTheWindow
    <3>2. Covered(j, h)
      BY <3>1 DEF CaughtUp
    <3>3. QED BY <2>1, <3>2, SeasonStays DEF Covered, Since
  <2>3. QED BY <2>1, <2>2 DEF CaughtUp
<1>8. QED BY <1>1, <1>2, <1>3, <1>4, <1>5, <1>6, <1>7 DEF Next, CatchUp

(* Nothing that comes due is lost: once a catch-up is through, every job      *)
(* whose hour came in the window has run since, or is run by cron just now,   *)
(* whatever outages there were (catch_up.missed).                            *)
THEOREM NothingIsLost == Spec => []NothingDueIsLost
<1>1. IInv /\ CaughtUp => NothingDueIsLost
  <2> SUFFICES ASSUME IInv, CaughtUp, catchup = "done", NEW j \in Jobs \ starting,
                      {h \in First..hour : RunsAt(j, h) /\ hour - h < CatchUpHours - 1} # {}
               PROVE  LET ran == {h \in First..hour : RunsAt(j, h) /\ hour - h < CatchUpHours - 1}
                      IN  \E s \in starts : /\ s.job = j
                                            /\ \/ s.hour >= Max(ran)
                                               \/ Wall(s.hour) = Wall(Max(ran)) - 1 /\ s.slot = "eve"
    BY DEF NothingDueIsLost
  <2> DEFINE ran == {h \in First..hour : RunsAt(j, h) /\ hour - h < CatchUpHours - 1}
             last == Max(ran)
  <2>1. First \in Nat /\ hour \in Int
    BY HoursAssumption DEF IInv, TypeOK
  <2>2. ran \in SUBSET Int /\ ran # {} /\ \A x \in ran : x <= hour
    BY <2>1
  <2>3. last \in ran
    <3> HIDE DEF ran
    <3> QED BY <2>1, <2>2, MaxIsGreatest
  <2>4. last \in Int /\ InTheWindow(j, last)
    BY <2>1, <2>3 DEF InTheWindow
  <2> HIDE DEF last
  <2>5. Covered(j, last) /\ todo = {}
    BY <2>4 DEF CaughtUp
  <2>6. PICK s \in starts : s.job = j /\ Since(s, last)
    BY <2>5 DEF Covered
  <2>7. QED BY <2>6 DEF Since, last
<1>2. IInv /\ CaughtUp /\ [Next]_vars => IInv' /\ CaughtUp'
  BY InvStep, CaughtUpStep
<1>3. QED BY <1>1, <1>2, InvInit, CaughtUpInit, PTL DEF Spec

-----------------------------------------------------------------------------
(* The database and its copies.                                            *)

Databases == [runs : SUBSET Int, filled : SUBSET Int, prose : SUBSET Int, damage : {"none", "page", "index", "unfinished"}]
ArchiveTypes ==
    /\ night \in Nat \ {0} /\ phase \in {"backup", "run", "doctor"}
    /\ live \in Databases /\ local \in Seq(Databases)
    /\ offsite \in SUBSET [of : Int, db : Databases]
    /\ saved \in SUBSET Databases /\ (applying # NoRestore => applying \in Databases)
    /\ cloud \in BOOLEAN /\ unseen \in BOOLEAN /\ unfilled \in BOOLEAN
    /\ seenOn \in Nat /\ heardOn \in Nat /\ troubles \in 0..MaxTroubles
    /\ everStored \in SUBSET Int /\ duringRestore \in SUBSET Int

(* The database is never the unfinished copy, and a restore's copy is sound; *)
(* what is off-site was copied by tonight.                                  *)
CopiesKept ==
    /\ live.damage # "unfinished" /\ (applying # NoRestore => applying.damage = "none")
    /\ NeverWithoutACopy
    /\ \A c \in offsite : c.of <= night

(* While a restore is under way, what it will swap away is saved already.     *)
RunsKept ==
    /\ NoRunIsLost
    /\ applying # NoRestore => everStored \ duringRestore \subseteq UNION {db.runs : db \in saved}

(* What may come back has its forecasts or the prose they are read from.      *)
Readable(db) == db.runs \subseteq db.filled \union db.prose
ForecastsKept ==
    ~unfilled => Readable(live) /\ (\A c \in offsite : Readable(c.db)) /\ (applying # NoRestore => Readable(applying))

ArchiveInv == ArchiveTypes /\ CopiesKept /\ RunsKept /\ ForecastsKept

(* The archive begins with as many copies as it keeps, here and off-site.  *)
LEMMA ArchiveInvInit == ArchiveInit => ArchiveInv
<1> SUFFICES ASSUME ArchiveInit PROVE ArchiveInv
  OBVIOUS
<1>0. KeepCopies \in Nat \ {0} /\ FirstRun \in Int /\ MaxTroubles \in Nat
  BY ArchiveAssumption
<1>1. FirstDatabase \in Databases /\ FirstDatabase.runs = {FirstRun} /\ FirstDatabase.prose = {FirstRun} /\ FirstDatabase.damage = "none"
  BY <1>0 DEF FirstDatabase, Databases
<1>2. local \in Seq(Databases) /\ local[1] = FirstDatabase /\ Len(local) = KeepCopies /\ 1 \in DOMAIN local
  BY <1>0, <1>1 DEF ArchiveInit
<1>3. /\ offsite \in SUBSET [of : Int, db : Databases]
      /\ \A c \in offsite : c.of <= 1 /\ c.db = FirstDatabase
  BY <1>0, <1>1 DEF ArchiveInit
<1>4. [of |-> 0, db |-> FirstDatabase] \in offsite
  BY <1>0 DEF ArchiveInit
<1>5. ArchiveTypes
  <2>1. /\ night = 1 /\ phase = "backup" /\ live = FirstDatabase /\ saved = {} /\ applying = NoRestore
        /\ cloud = TRUE /\ unseen = FALSE /\ unfilled = FALSE /\ seenOn = 0 /\ heardOn = 0 /\ troubles = 0
        /\ everStored = {FirstRun} /\ duringRestore = {}
    BY DEF ArchiveInit
  <2>2. live \in Databases /\ saved \in SUBSET Databases /\ (applying # NoRestore => applying \in Databases)
    BY <1>1, <2>1
  <2>3. everStored \in SUBSET Int /\ duringRestore \in SUBSET Int
    BY <1>0, <2>1
  <2>4. troubles \in 0..MaxTroubles /\ night \in Nat \ {0} /\ seenOn \in Nat /\ heardOn \in Nat
    BY <1>0, <2>1
  <2>5. QED BY <1>2, <1>3, <2>1, <2>2, <2>3, <2>4 DEF ArchiveTypes
<1>6. CopiesKept
  BY <1>1, <1>2, <1>3, <1>4 DEF ArchiveInit, CopiesKept, NeverWithoutACopy
<1>7. RunsKept
  BY <1>1 DEF ArchiveInit, RunsKept, NoRunIsLost
<1>8. ForecastsKept
  BY <1>1, <1>3 DEF ArchiveInit, ForecastsKept, Readable
<1>9. QED BY <1>5, <1>6, <1>7, <1>8 DEF ArchiveInv

(* The newest copies are among the copies, and the last one is the same.      *)
LEMMA NewestOf ==
    ASSUME NEW s \in Seq(Databases), Len(s) > 0
    PROVE  /\ NewestCopies(s) \in Seq(Databases)
           /\ Len(NewestCopies(s)) > 0
           /\ Len(NewestCopies(s)) <= Len(s)
           /\ NewestCopies(s)[Len(NewestCopies(s))] = s[Len(s)]
           /\ \A i \in 1..Len(s) : Len(s) - i < KeepCopies =>
                 LET j == i - (Len(s) - Len(NewestCopies(s))) IN
                 j \in 1..Len(NewestCopies(s)) /\ NewestCopies(s)[j] = s[i]
<1>0. KeepCopies \in Nat \ {0}
  BY ArchiveAssumption
<1>1. CASE Len(s) <= KeepCopies
  BY <1>0, <1>1 DEF NewestCopies
<1>2. CASE Len(s) > KeepCopies
  <2> DEFINE m == Len(s) - KeepCopies + 1
  <2>1. NewestCopies(s) = SubSeq(s, m, Len(s)) /\ m \in 1..Len(s)
    BY <1>0, <1>2 DEF NewestCopies
  <2> HIDE DEF m
  <2>2. /\ SubSeq(s, m, Len(s)) \in Seq(Databases) /\ Len(SubSeq(s, m, Len(s))) = Len(s) - m + 1
        /\ \A i \in 1..(Len(s) - m + 1) : SubSeq(s, m, Len(s))[i] = s[m + i - 1]
    BY <2>1
  <2>3. Len(s) - m + 1 = KeepCopies
    BY <1>0 DEF m
  <2>4. m + KeepCopies - 1 = Len(s)
    BY <1>0 DEF m
  <2>5. QED BY <1>0, <1>2, <2>1, <2>2, <2>3, <2>4
<1>3. QED BY <1>0, <1>1, <1>2

(* A copy is added at the end.                                             *)
LEMMA Appended ==
    ASSUME NEW s \in Seq(Databases), NEW db \in Databases
    PROVE  /\ Append(s, db) \in Seq(Databases) /\ Len(Append(s, db)) = Len(s) + 1
           /\ Append(s, db)[Len(s) + 1] = db
           /\ \A i \in 1..Len(s) : Append(s, db)[i] = s[i]
OBVIOUS

(* Upkeep leaves the runs and the damage as they are.                        *)
LEMMA UpkeepOf ==
    ASSUME night \in Nat, NEW db \in Databases, NEW failing \in SUBSET {"backfill", "database"}
    PROVE  LET after == run_history_upkeep(WithToday(db), failing) IN
           /\ after \in Databases /\ after.runs = db.runs \union {night} /\ after.damage = db.damage
           /\ Readable(db) /\ "backfill" \notin failing => Readable(after)
<1> DEFINE today == WithToday(db)
           filled == IF "backfill" \in failing THEN today ELSE backfill_pick_forecasts(today)
           after == run_history_upkeep(today, failing)
<1>1. /\ today \in Databases /\ today.runs = db.runs \union {night} /\ today.damage = db.damage
      /\ today.filled = db.filled \union {night} /\ today.prose = db.prose \union {night}
  <2> DEFINE stored == [db EXCEPT !.runs = @ \union {night}]
             read == [stored EXCEPT !.filled = @ \union {night}]
  <2>1. stored \in Databases /\ stored.runs = db.runs \union {night} /\ stored.filled = db.filled /\ stored.prose = db.prose /\ stored.damage = db.damage
    BY DEF Databases
  <2>2. today = [read EXCEPT !.prose = @ \union {night}]
    BY Zenon DEF WithToday
  <2> HIDE DEF stored, today
  <2>3. read \in Databases /\ read.runs = stored.runs /\ read.filled = stored.filled \union {night} /\ read.prose = stored.prose /\ read.damage = stored.damage
    BY <2>1 DEF Databases
  <2> HIDE DEF read
  <2>4. today \in Databases /\ today.runs = read.runs /\ today.filled = read.filled /\ today.prose = read.prose \union {night} /\ today.damage = read.damage
    BY <2>2, <2>3 DEF Databases
  <2>5. QED BY <2>1, <2>3, <2>4
<1> HIDE DEF today
<1>2. /\ filled \in Databases /\ filled.runs = today.runs /\ filled.damage = today.damage
      /\ filled.prose = today.prose
      /\ filled.filled = IF "backfill" \in failing THEN today.filled ELSE today.filled \union (today.prose \intersect today.runs)
  BY <1>1 DEF backfill_pick_forecasts, Databases
<1>3. after = IF "database" \in failing THEN filled ELSE prune_database(filled)
  BY DEF run_history_upkeep
<1> HIDE DEF filled, after
<1>4. after \in Databases /\ after.runs = filled.runs /\ after.damage = filled.damage /\ after.filled = filled.filled
  BY <1>2, <1>3 DEF prune_database, Databases
<1>5. ASSUME Readable(db), "backfill" \notin failing PROVE Readable(after)
  BY <1>1, <1>2, <1>4, <1>5 DEF Readable
<1>6. QED BY <1>1, <1>2, <1>4, <1>5 DEF after, today

(* Mishaps are counted.                                                    *)
LEMMA Counted == ASSUME ArchiveTypes, Trouble \/ troubles' = troubles PROVE troubles' \in 0..MaxTroubles
BY ArchiveAssumption DEF ArchiveTypes, Trouble

(* A night's backup adds a copy of the database, or an unfinished one.        *)
LEMMA BackupIsKept ==
    ASSUME ArchiveInv, local' = NewestCopies(Append(local, live)) \/ local' = Append(local, Lost)
    PROVE  local' \in Seq(Databases) /\ \E i \in DOMAIN local' : local'[i].damage # "unfinished"
<1>0. local \in Seq(Databases) /\ live \in Databases /\ live.damage # "unfinished"
  BY DEF ArchiveInv, ArchiveTypes, CopiesKept
<1>1. CASE local' = NewestCopies(Append(local, live))
  <2> DEFINE s == Append(local, live)
  <2>1. s \in Seq(Databases) /\ Len(s) > 0 /\ s[Len(s)] = live
    BY <1>0, Appended
  <2> HIDE DEF s
  <2>2. /\ NewestCopies(s) \in Seq(Databases) /\ Len(NewestCopies(s)) > 0
        /\ NewestCopies(s)[Len(NewestCopies(s))] = live
    BY <2>1, NewestOf
  <2>3. local' = NewestCopies(s)
    BY <1>1 DEF s
  <2>4. Len(local') \in DOMAIN local'
    BY <2>2, <2>3
  <2>5. QED BY <1>0, <2>2, <2>3, <2>4
<1>2. CASE local' = Append(local, Lost)
  <2>1. Lost \in Databases
    BY DEF Lost, Databases
  <2>2. PICK i \in DOMAIN local : local[i].damage # "unfinished"
    BY DEF ArchiveInv, CopiesKept, NeverWithoutACopy
  <2>3. local' \in Seq(Databases) /\ Len(local') = Len(local) + 1 /\ \A k \in 1..Len(local) : local'[k] = local[k]
    BY <1>0, <1>2, <2>1, Appended
  <2>4. i \in DOMAIN local' /\ local'[i] = local[i]
    BY <1>0, <2>2, <2>3
  <2>5. QED BY <2>2, <2>3, <2>4
<1>3. QED BY <1>1, <1>2

(* Steps.  A night's backup, done or broken off.                           *)
LEMMA ArchiveInvBackup ==
    ASSUME ArchiveInv, BackupDone \/ BackupBreaks \/ UploadFails
    PROVE  ArchiveInv'
<1>0. ArchiveTypes /\ CopiesKept /\ RunsKept /\ ForecastsKept
  BY DEF ArchiveInv
<1>1. /\ local' \in Seq(Databases) /\ \E i \in DOMAIN local' : local'[i].damage # "unfinished"
  BY BackupIsKept DEF BackupDone, BackupBreaks, UploadFails
<1>2. /\ phase' = "run" /\ troubles' \in 0..MaxTroubles /\ heardOn' \in Nat
      /\ UNCHANGED <<night, live, saved, applying, unseen, seenOn, everStored, duringRestore, unfilled, cloud>>
  BY <1>0, ArchiveAssumption DEF BackupDone, BackupBreaks, UploadFails, ArchiveTypes, Trouble, alert
<1>3. /\ offsite' \in SUBSET [of : Int, db : Databases] /\ offsite' # {}
      /\ \A c \in offsite' : c.of <= night /\ (c \in offsite \/ c.db = live)
  <2>1. CASE BackupDone
    <3> DEFINE new == [of |-> night, db |-> live]
    <3>1. new \in [of : Int, db : Databases] /\ new.of = night /\ new.db = live
      BY <1>0 DEF ArchiveTypes
    <3>2. offsite' = {c \in offsite \union {new} : night - c.of < KeepCopies}
      BY <2>1 DEF BackupDone, StillYoung
    <3> HIDE DEF new
    <3>3. new \in offsite'
      BY <1>0, <3>1, <3>2, ArchiveAssumption DEF ArchiveTypes
    <3>4. QED BY <1>0, <3>1, <3>2, <3>3 DEF ArchiveTypes, CopiesKept
  <2>2. CASE BackupBreaks \/ UploadFails
    BY <1>0, <2>2 DEF BackupBreaks, UploadFails, ArchiveTypes, CopiesKept, NeverWithoutACopy
  <2>3. QED BY <2>1, <2>2
<1>4. ArchiveTypes'
  BY <1>0, <1>1, <1>2, <1>3 DEF ArchiveTypes
<1>5. CopiesKept'
  BY <1>0, <1>1, <1>2, <1>3 DEF CopiesKept, NeverWithoutACopy
<1>6. RunsKept'
  BY <1>0, <1>2 DEF RunsKept, NoRunIsLost
<1>7. ForecastsKept'
  BY <1>0, <1>2, <1>3 DEF ForecastsKept, Readable
<1>8. QED BY <1>4, <1>5, <1>6, <1>7 DEF ArchiveInv

(* A run stores its rows and ends with the upkeep.                         *)
LEMMA ArchiveInvRun == ASSUME ArchiveInv, RunStores PROVE ArchiveInv'
<1>0. ArchiveTypes /\ CopiesKept /\ RunsKept /\ ForecastsKept
  BY DEF ArchiveInv
<1>1. PICK failing \in SUBSET {"backfill", "database"} :
        /\ live' = run_history_upkeep(WithToday(live), failing)
        /\ unfilled' = (unfilled \/ "backfill" \in failing)
        /\ IF failing = {} THEN UNCHANGED troubles ELSE Trouble
  BY DEF RunStores
<1>2. night \in Nat /\ live \in Databases
  BY <1>0 DEF ArchiveTypes
<1>3. /\ live' \in Databases /\ live'.runs = live.runs \union {night} /\ live'.damage = live.damage
      /\ Readable(live) /\ "backfill" \notin failing => Readable(live')
  BY <1>1, <1>2, UpkeepOf
<1>4. /\ phase' = "doctor" /\ troubles' \in 0..MaxTroubles /\ unfilled' \in BOOLEAN
      /\ everStored' = everStored \union {night}
      /\ duringRestore' = IF applying = NoRestore THEN duringRestore ELSE duringRestore \union {night}
      /\ UNCHANGED <<night, local, offsite, saved, applying, cloud, unseen, seenOn, heardOn>>
  BY <1>0, <1>1, ArchiveAssumption DEF RunStores, Trouble, ArchiveTypes
<1>5. ArchiveTypes'
  <2>1. everStored' \in SUBSET Int /\ duringRestore' \in SUBSET Int
    BY <1>0, <1>2, <1>4 DEF ArchiveTypes
  <2>2. QED BY <1>0, <1>3, <1>4, <2>1 DEF ArchiveTypes
<1>6. CopiesKept'
  BY <1>0, <1>3, <1>4 DEF CopiesKept, NeverWithoutACopy
<1>7. RunsKept'
  BY <1>0, <1>3, <1>4 DEF RunsKept, NoRunIsLost
<1>8. ForecastsKept'
  <2> SUFFICES ASSUME ~unfilled' PROVE Readable(live') /\ (\A c \in offsite : Readable(c.db)) /\ (applying # NoRestore => Readable(applying))
    BY <1>4 DEF ForecastsKept, Readable
  <2>1. ~unfilled /\ "backfill" \notin failing
    BY <1>1
  <2>2. QED BY <1>0, <1>3, <2>1 DEF ForecastsKept
<1>9. QED BY <1>5, <1>6, <1>7, <1>8 DEF ArchiveInv

(* Nights go by, with the doctor or without.                               *)
LEMMA ArchiveInvNight ==
    ASSUME ArchiveInv, NoRun \/ DoctorRuns \/ DayEnds \/ Outage \/ CloudChanges
    PROVE  ArchiveInv'
<1>0. ArchiveTypes /\ CopiesKept /\ RunsKept /\ ForecastsKept
  BY DEF ArchiveInv
<1>1. UNCHANGED <<live, local, offsite, saved, applying, everStored, duringRestore, unfilled>>
  BY DEF NoRun, DoctorRuns, DayEnds, Outage, CloudChanges
<1>2. night' \in Nat \ {0} /\ night' >= night /\ phase' \in {"backup", "run", "doctor"} /\ cloud' \in BOOLEAN
  <2>1. night' = night \/ night' = night + 1 \/ \E n \in 1..LongestOutage : night' = night + n
    BY DEF NoRun, DoctorRuns, DayEnds, Outage, CloudChanges, NightFalls
  <2>5. night \in Nat \ {0} /\ LongestOutage \in Nat
    BY <1>0, ArchiveAssumption DEF ArchiveTypes
  <2>6. night' \in Nat \ {0} /\ night' >= night
    BY <2>1, <2>5
  <2>2. phase' \in {"backup", "run", "doctor"}
    BY <1>0 DEF NoRun, DoctorRuns, DayEnds, Outage, CloudChanges, ArchiveTypes, NightFalls
  <2>3. cloud' = cloud \/ cloud' = ~cloud
    BY DEF NoRun, DoctorRuns, DayEnds, Outage, CloudChanges
  <2>7. cloud' \in BOOLEAN
    BY <1>0, <2>3 DEF ArchiveTypes
  <2>4. QED BY <2>6, <2>2, <2>7
<1>3. unseen' \in BOOLEAN /\ seenOn' \in Nat /\ heardOn' \in Nat
  BY <1>0 DEF NoRun, DoctorRuns, DayEnds, Outage, CloudChanges, ArchiveTypes, alert
<1>4. troubles' \in 0..MaxTroubles
  <2>1. Trouble \/ troubles' = troubles
    BY DEF NoRun, DoctorRuns, DayEnds, Outage, CloudChanges
  <2>2. QED BY <1>0, <2>1, Counted
<1>5. ArchiveTypes'
  BY <1>0, <1>1, <1>2, <1>3, <1>4 DEF ArchiveTypes
<1>6. CopiesKept'
  <2>1. \A c \in offsite : c.of \in Int
    BY <1>0 DEF ArchiveTypes
  <2>2. QED BY <1>0, <1>1, <1>2, <2>1 DEF CopiesKept, NeverWithoutACopy, ArchiveTypes
<1>7. RunsKept' /\ ForecastsKept'
  BY <1>0, <1>1 DEF RunsKept, NoRunIsLost, ForecastsKept, Readable
<1>8. QED BY <1>5, <1>6, <1>7 DEF ArchiveInv

(* A restore saves, swaps or dies; damage is done.                         *)
LEMMA ArchiveInvRestore ==
    ASSUME ArchiveInv, restore \/ Swapped \/ KilledInRestore \/ DamageDone
    PROVE  ArchiveInv'
<1>0. ArchiveTypes /\ CopiesKept /\ RunsKept /\ ForecastsKept
  BY DEF ArchiveInv
<1>1. UNCHANGED <<night, phase, local, offsite, cloud, seenOn, heardOn, everStored, duringRestore, unfilled>>
  BY DEF restore, Swapped, KilledInRestore, DamageDone
<1>2. troubles' \in 0..MaxTroubles /\ unseen' \in BOOLEAN
  <2>1. Trouble \/ troubles' = troubles
    BY DEF restore, Swapped, KilledInRestore, DamageDone
  <2>2. unseen' = TRUE \/ unseen' = unseen
    BY DEF restore, Swapped, KilledInRestore, DamageDone
  <2>3. QED BY <1>0, <2>1, <2>2, Counted DEF ArchiveTypes
<1>3. CASE restore
  <2>1. PICK c \in offsite : c.db.damage = "none" /\ applying' = c.db /\ saved' = saved \union {live} /\ live' = live
    BY <1>3 DEF restore, apply_restore
  <2>2. c.db \in Databases
    BY <1>0 DEF ArchiveTypes
  <2>3. ArchiveTypes'
    BY <1>0, <1>1, <1>2, <2>1, <2>2 DEF ArchiveTypes
  <2>4. CopiesKept'
    BY <1>0, <1>1, <2>1 DEF CopiesKept, NeverWithoutACopy
  <2>5. RunsKept'
    <3>1. live \in saved'
      BY <2>1
    <3>2. everStored \ duringRestore \subseteq UNION {db.runs : db \in saved'}
      BY <1>0, <2>1, <3>1 DEF RunsKept, NoRunIsLost
    <3>3. QED BY <1>1, <3>2 DEF RunsKept, NoRunIsLost
  <2>6. ForecastsKept'
    BY <1>0, <1>1, <2>1 DEF ForecastsKept, Readable
  <2>7. QED BY <2>3, <2>4, <2>5, <2>6 DEF ArchiveInv
<1>4. CASE Swapped
  <2>1. live' = applying /\ applying' = NoRestore /\ applying # NoRestore /\ saved' = saved
    BY <1>4 DEF Swapped
  <2>2. ArchiveTypes'
    BY <1>0, <1>1, <1>2, <2>1 DEF ArchiveTypes
  <2>3. CopiesKept'
    BY <1>0, <1>1, <2>1 DEF CopiesKept, NeverWithoutACopy
  <2>4. RunsKept'
    BY <1>0, <1>1, <2>1 DEF RunsKept, NoRunIsLost
  <2>5. ForecastsKept'
    BY <1>0, <1>1, <2>1 DEF ForecastsKept, Readable
  <2>6. QED BY <2>2, <2>3, <2>4, <2>5 DEF ArchiveInv
<1>5. CASE KilledInRestore
  <2>1. applying' = NoRestore /\ saved' = saved /\ live' = live
    BY <1>5 DEF KilledInRestore
  <2>2. ArchiveTypes' /\ CopiesKept'
    BY <1>0, <1>1, <1>2, <2>1 DEF ArchiveTypes, CopiesKept, NeverWithoutACopy
  <2>3. RunsKept' /\ ForecastsKept'
    BY <1>0, <1>1, <2>1 DEF RunsKept, NoRunIsLost, ForecastsKept, Readable
  <2>4. QED BY <2>2, <2>3 DEF ArchiveInv
<1>6. CASE DamageDone
  <2>1. PICK d \in {"page", "index"} : live' = [live EXCEPT !.damage = d] /\ applying' = applying /\ saved' = saved
    BY <1>6 DEF DamageDone
  <2>2. /\ live' \in Databases /\ live'.runs = live.runs /\ live'.filled = live.filled /\ live'.prose = live.prose
        /\ live'.damage = d
    BY <1>0, <2>1 DEF ArchiveTypes, Databases
  <2>3. ArchiveTypes' /\ CopiesKept'
    BY <1>0, <1>1, <1>2, <2>1, <2>2 DEF ArchiveTypes, CopiesKept, NeverWithoutACopy
  <2>4. RunsKept' /\ ForecastsKept'
    BY <1>0, <1>1, <2>1, <2>2 DEF RunsKept, NoRunIsLost, ForecastsKept, Readable
  <2>5. QED BY <2>3, <2>4 DEF ArchiveInv
<1>7. QED BY <1>3, <1>4, <1>5, <1>6

(* A step of the archive.                                                  *)
LEMMA ArchiveInvStep == ASSUME ArchiveInv, [ArchiveNext]_archiveVars PROVE ArchiveInv'
<1>1. CASE ArchiveNext
  BY <1>1, ArchiveInvBackup, ArchiveInvRun, ArchiveInvNight, ArchiveInvRestore DEF ArchiveNext
<1>2. CASE UNCHANGED archiveVars
  BY <1>2 DEF archiveVars, ArchiveInv, ArchiveTypes, CopiesKept, NeverWithoutACopy, RunsKept, NoRunIsLost, ForecastsKept, Readable
<1>3. QED BY <1>1, <1>2

-----------------------------------------------------------------------------
(* At most two mishaps.                                                    *)

(* A number by another: what is left over is less than it.                 *)
LEMMA Divided ==
    ASSUME NEW k \in Nat, NEW D \in Nat \ {0}
    PROVE  k \div D \in Nat /\ k % D \in 0..(D - 1) /\ k = D * (k \div D) + (k % D)
OBVIOUS

(* A multiple leaves nothing over.                                         *)
LEMMA MultiplesOf == ASSUME NEW D \in Nat \ {0}, NEW q \in Nat PROVE D * q \in Nat /\ (D * q) % D = 0
<1> DEFINE k == D * q
           m == k % D
           p == k \div D
<1>1. k \in Nat
  OBVIOUS
<1>2. p \in Nat /\ m \in 0..(D - 1) /\ k = D * p + m
  BY <1>1, Divided
<1> HIDE DEF m, p
<1>3. m = D * (q - p)
  BY <1>2
<1>4. CASE q - p >= 1
  <2>1. D * (q - p) >= D
    BY <1>2, <1>4
  <2>2. QED BY <1>2, <1>3, <2>1
<1>5. CASE q - p <= -1
  <2>1. D * (q - p) <= -D
    BY <1>2, <1>5
  <2>2. QED BY <1>2, <1>3, <2>1
<1>6. CASE q - p = 0
  BY <1>2, <1>3, <1>6 DEF m
<1>7. QED BY <1>1, <1>2, <1>4, <1>5, <1>6

(* A stretch of as many nights as there are between two doctors has one of    *)
(* his evenings.                                                           *)
LEMMA DoctorComes ==
    ASSUME NEW s \in Nat, NEW n \in Nat, n >= s + DoctorEvery
    PROVE  \E k \in (s + 1)..n : k % DoctorEvery = 0
<1> DEFINE D == DoctorEvery
           q == s \div D
           r == s % D
           k == D * (q + 1)
<1>0. D \in Nat \ {0}
  BY ArchiveAssumption
<1>1. q \in Nat /\ r \in 0..(D - 1) /\ s = D * q + r
  BY <1>0, Divided
<1>2. k \in Nat /\ k % D = 0
  BY <1>0, <1>1, MultiplesOf
<1> HIDE DEF q, r
<1>3. k = D * q + D
  BY <1>0, <1>1
<1> HIDE DEF D
<1>4. D * q \in Nat
  BY <1>0, <1>1
<1> HIDE DEF k
<1>5. k \in (s + 1)..n
  BY <1>0, <1>1, <1>2, <1>3, <1>4 DEF D
<1>6. QED BY <1>2, <1>5 DEF D

NewestOffsite == Max({c.of : c \in offsite})

(* A sound copy among the last k and one more.                                *)
SoundAmong(k) == \E i \in 1..Len(local) : local[i].damage = "none" /\ Len(local) - i <= k

(* What the mishaps so far have bought.                                      *)
MishapsTold ==
    /\ live.damage # "none" => troubles >= 1
    /\ applying # NoRestore => troubles >= 1
    /\ applying # NoRestore /\ live.damage # "none" => troubles >= 2
    /\ ~cloud => troubles >= 1

(* Until a database is damaged one of the newest copies is sound, and then the *)
(* doctor comes before the rotation has thrown it away.                       *)
DoctorInTime ==
    /\ phase = "backup" => seenOn < night
    /\ seenOn < night
    /\ live.damage = "none" /\ troubles <= 1 => SoundAmong(troubles)
    /\ live.damage = "page" /\ unseen =>
          \E i \in 1..Len(local) :
             /\ local[i].damage = "none"
             /\ IF phase = "backup" THEN Len(local) - i <= night - seenOn /\ Len(local) - i <= DoctorEvery
                ELSE Len(local) - i <= night - seenOn + 1 /\ Len(local) - i <= DoctorEvery + 1

(* Nights without a copy that nobody was told of cost a mishap each.           *)
SilenceCosts ==
    heardOn <= NewestOffsite =>
        /\ phase # "backup" /\ NewestOffsite <= night - 1 => troubles >= 1
        /\ phase # "backup" /\ NewestOffsite <= night - 2 => troubles >= 2
        /\ phase = "backup" /\ NewestOffsite <= night - 2 => troubles >= 1
        /\ NewestOffsite < seenOn - OFFSITE_MAX_AGE_DAYS => troubles >= 3

CountInv == MishapsTold /\ DoctorInTime /\ SilenceCosts

(* What a night's backup does to the copies: they move back by one, and the    *)
(* newest is its own.                                                      *)
LEMMA CopyMovesBack ==
    ASSUME ArchiveTypes, NEW db \in Databases,
           local' = NewestCopies(Append(local, db)) \/ local' = Append(local, db)
    PROVE  /\ Len(local') \in Nat \ {0} /\ local'[Len(local')] = db
           /\ \A i \in 1..Len(local) : Len(local) - i + 1 < KeepCopies =>
                 \E j \in 1..Len(local') : local'[j] = local[i] /\ Len(local') - j = Len(local) - i + 1
<1> DEFINE s == Append(local, db)
<1>0. local \in Seq(Databases) /\ KeepCopies \in Nat \ {0}
  BY ArchiveAssumption DEF ArchiveTypes
<1>1. /\ s \in Seq(Databases) /\ Len(s) = Len(local) + 1 /\ s[Len(local) + 1] = db
      /\ \A i \in 1..Len(local) : s[i] = local[i]
  BY <1>0, Appended
<1>2. local' = NewestCopies(s) \/ local' = s
  OBVIOUS
<1> HIDE DEF s
<1>3. CASE local' = s
  <2>1. Len(local') \in Nat \ {0} /\ local'[Len(local')] = db
    BY <1>0, <1>1, <1>3
  <2>2. ASSUME NEW i \in 1..Len(local)
        PROVE \E j \in 1..Len(local') : local'[j] = local[i] /\ Len(local') - j = Len(local) - i + 1
    BY <1>0, <1>1, <1>3
  <2>3. QED BY <2>1, <2>2
<1>4. CASE local' = NewestCopies(s)
  <2>1. Len(s) \in Nat /\ Len(s) > 0
    BY <1>0, <1>1
  <2>2. /\ NewestCopies(s) \in Seq(Databases)
        /\ Len(NewestCopies(s)) > 0
        /\ NewestCopies(s)[Len(NewestCopies(s))] = s[Len(s)]
        /\ \A i \in 1..Len(s) : Len(s) - i < KeepCopies =>
                 LET j == i - (Len(s) - Len(NewestCopies(s))) IN
                 j \in 1..Len(NewestCopies(s)) /\ NewestCopies(s)[j] = s[i]
    BY <1>1, <2>1, NewestOf
  <2>3. Len(local') \in Nat \ {0} /\ local'[Len(local')] = db
    BY <1>0, <1>1, <1>4, <2>2
  <2>4. ASSUME NEW i \in 1..Len(local), Len(local) - i + 1 < KeepCopies
        PROVE \E j \in 1..Len(local') : local'[j] = local[i] /\ Len(local') - j = Len(local) - i + 1
    <3> DEFINE j == i - (Len(s) - Len(NewestCopies(s)))
    <3>1. i \in 1..Len(s) /\ Len(s) - i < KeepCopies
      BY <1>0, <1>1, <2>4
    <3>2. j \in 1..Len(NewestCopies(s)) /\ NewestCopies(s)[j] = s[i]
      BY <2>2, <3>1
    <3>3. Len(local') - j = Len(local) - i + 1
      BY <1>0, <1>1, <1>4, <2>2, <2>4
    <3>4. QED BY <1>1, <1>4, <2>4, <3>2, <3>3
  <2>5. QED BY <2>3, <2>4
<1>5. QED BY <1>2, <1>3, <1>4

(* The newest night of a copy off-site.                                    *)
LEMMA NewestIs ==
    ArchiveTypes /\ CopiesKept =>
        /\ NewestOffsite \in Int /\ NewestOffsite <= night
        /\ \E c \in offsite : c.of = NewestOffsite
        /\ \A c \in offsite : c.of <= NewestOffsite
<1> SUFFICES ASSUME ArchiveTypes, CopiesKept
    PROVE  /\ NewestOffsite \in Int /\ NewestOffsite <= night
           /\ \E c \in offsite : c.of = NewestOffsite
           /\ \A c \in offsite : c.of <= NewestOffsite
  OBVIOUS
<1> DEFINE S == {c.of : c \in offsite}
<1>1. S \in SUBSET Int /\ S # {} /\ night \in Int /\ \A x \in S : x <= night
  BY DEF ArchiveTypes, CopiesKept, NeverWithoutACopy
<1>2. Max(S) \in S /\ \A x \in S : x <= Max(S)
  BY <1>1, MaxIsGreatest
<1>3. NewestOffsite = Max(S)
  BY DEF NewestOffsite
<1> HIDE DEF NewestOffsite
<1>4. NewestOffsite \in S /\ \A x \in S : x <= NewestOffsite
  BY <1>2, <1>3
<1>5. QED BY <1>1, <1>4

(* No mishap yet, and the newest copies are sound.                         *)
LEMMA CountInit == ArchiveInit => CountInv
<1> SUFFICES ASSUME ArchiveInit PROVE CountInv
  OBVIOUS
<1>1. ArchiveTypes /\ CopiesKept
  BY ArchiveInvInit DEF ArchiveInv
<1>2. /\ night = 1 /\ phase = "backup" /\ live = FirstDatabase /\ applying = NoRestore /\ cloud = TRUE
      /\ seenOn = 0 /\ heardOn = 0 /\ troubles = 0 /\ local = [i \in 1..KeepCopies |-> FirstDatabase]
  BY DEF ArchiveInit
<1>3. KeepCopies \in Nat \ {0} /\ OFFSITE_MAX_AGE_DAYS \in Nat
  BY ArchiveAssumption
<1>4. FirstDatabase.damage = "none"
  BY DEF FirstDatabase
<1>5. Len(local) = KeepCopies /\ local[KeepCopies] = FirstDatabase
  BY <1>2, <1>3
<1>6. SoundAmong(troubles)
  BY <1>2, <1>3, <1>4, <1>5 DEF SoundAmong
<1>7. NewestOffsite = 0
  <2>1. \A c \in offsite : c.of <= 0
    BY <1>3 DEF ArchiveInit
  <2>2. [of |-> 0, db |-> FirstDatabase] \in offsite
    BY <1>3 DEF ArchiveInit
  <2>3. [of |-> 0, db |-> FirstDatabase].of = 0
    OBVIOUS
  <2> HIDE DEF NewestOffsite
  <2>4. QED BY <1>1, <2>1, <2>2, <2>3, NewestIs
<1>8. MishapsTold /\ DoctorInTime
  BY <1>2, <1>4, <1>6 DEF MishapsTold, DoctorInTime
<1>9. SilenceCosts
  BY <1>2, <1>3, <1>7 DEF SilenceCosts
<1>10. QED BY <1>8, <1>9 DEF CountInv

(* What each step adds to the mishaps.                                     *)
LEMMA MishapsStep == ASSUME ArchiveInv, CountInv, ArchiveNext PROVE MishapsTold'
<1>0. ArchiveTypes /\ CopiesKept /\ MishapsTold /\ troubles \in Nat
  BY ArchiveAssumption DEF ArchiveInv, CountInv, ArchiveTypes
<1>1. CASE BackupDone \/ BackupBreaks \/ UploadFails \/ NoRun \/ DoctorRuns \/ DayEnds \/ Outage \/ CloudChanges
  <2>1. UNCHANGED <<live, applying>>
    BY <1>1 DEF BackupDone, BackupBreaks, UploadFails, NoRun, DoctorRuns, DayEnds, Outage, CloudChanges
  <2>2. troubles' = troubles \/ troubles' = troubles + 1
    BY <1>1 DEF BackupDone, BackupBreaks, UploadFails, NoRun, DoctorRuns, DayEnds, Outage, CloudChanges, Trouble
  <2>3. cloud' = cloud \/ CloudChanges
    BY <1>1 DEF BackupDone, BackupBreaks, UploadFails, NoRun, DoctorRuns, DayEnds, Outage
  <2>4. CloudChanges => (cloud' \/ troubles' = troubles + 1)
    BY <1>0 DEF CloudChanges, Trouble, ArchiveTypes
  <2>5. QED BY <1>0, <2>1, <2>2, <2>3, <2>4 DEF MishapsTold
<1>2. CASE RunStores
  <2>1. PICK failing \in SUBSET {"backfill", "database"} :
          /\ live' = run_history_upkeep(WithToday(live), failing)
          /\ IF failing = {} THEN UNCHANGED troubles ELSE Trouble
    BY <1>2 DEF RunStores
  <2>2. live'.damage = live.damage
    BY <1>0, <2>1, UpkeepOf DEF ArchiveTypes
  <2>3. troubles' = troubles \/ troubles' = troubles + 1
    BY <2>1 DEF Trouble
  <2>4. UNCHANGED <<applying, cloud>>
    BY <1>2 DEF RunStores
  <2>5. QED BY <1>0, <2>2, <2>3, <2>4 DEF MishapsTold
<1>3. CASE restore
  BY <1>0, <1>3 DEF restore, apply_restore, MishapsTold, Trouble
<1>4. CASE Swapped \/ KilledInRestore
  BY <1>0, <1>4 DEF Swapped, KilledInRestore, MishapsTold, CopiesKept
<1>5. CASE DamageDone
  BY <1>0, <1>5 DEF DamageDone, MishapsTold, Trouble
<1>6. QED BY <1>1, <1>2, <1>3, <1>4, <1>5 DEF ArchiveNext

(* A night without a copy is told of or costs a mishap.                    *)
LEMMA SilenceStep ==
    ASSUME ArchiveInv, CountInv, ArchiveNext, OFFSITE_MAX_AGE_DAYS >= 1 PROVE SilenceCosts'
<1>0. /\ ArchiveTypes /\ CopiesKept /\ MishapsTold /\ SilenceCosts /\ DoctorInTime
      /\ troubles \in Nat /\ OFFSITE_MAX_AGE_DAYS \in Nat /\ night \in Nat /\ seenOn \in Nat /\ heardOn \in Nat
  BY ArchiveAssumption DEF ArchiveInv, CountInv, ArchiveTypes
<1>1. NewestOffsite \in Int /\ NewestOffsite <= night
  BY <1>0, NewestIs
<1>2. CASE BackupDone
  <2> DEFINE new == [of |-> night, db |-> live]
  <2>1. offsite' = {c \in offsite \union {new} : night - c.of < KeepCopies}
    BY <1>2 DEF BackupDone, StillYoung
  <2>2. new \in offsite' /\ new.of = night
    BY <1>0, <2>1, ArchiveAssumption
  <2>3. night' = night /\ seenOn' = seenOn /\ ArchiveTypes' /\ CopiesKept'
    BY <1>2, ArchiveInvBackup DEF BackupDone, ArchiveInv
  <2>4. NewestOffsite' \in Int /\ NewestOffsite' <= night' /\ \A c \in offsite' : c.of <= NewestOffsite'
    <3>1. /\ (NewestOffsite \in Int /\ NewestOffsite <= night)'
          /\ (\A c \in offsite : c.of <= NewestOffsite)'
      BY <2>3, NewestIs, PTL
    <3>2. QED BY <3>1
  <2> HIDE DEF new, NewestOffsite
  <2>5. NewestOffsite' = night
    BY <1>0, <2>2, <2>3, <2>4
  <2>6. QED BY <1>0, <2>3, <2>5 DEF SilenceCosts, DoctorInTime
<1>3. ASSUME ~BackupDone PROVE NewestOffsite' = NewestOffsite
  <2>1. offsite' = offsite
    BY <1>3 DEF ArchiveNext, BackupBreaks, UploadFails, RunStores, NoRun, DoctorRuns, DayEnds, restore, Swapped, KilledInRestore, DamageDone, CloudChanges, Outage
  <2>2. QED BY <2>1 DEF NewestOffsite
<1> HIDE DEF NewestOffsite
<1>4. CASE BackupBreaks
  <2>1. /\ phase = "backup" /\ phase' = "run" /\ troubles' = troubles + 1 /\ night' = night /\ seenOn' = seenOn
        /\ NewestOffsite' = NewestOffsite /\ (heardOn' = night \/ heardOn' = heardOn)
    BY <1>0, <1>3, <1>4 DEF BackupBreaks, Trouble, BackupDone, alert
  <2>2. QED BY <1>0, <1>1, <2>1 DEF SilenceCosts, DoctorInTime
<1>5. CASE UploadFails
  <2>1. /\ phase = "backup" /\ phase' = "run" /\ ~cloud /\ night' = night /\ seenOn' = seenOn
        /\ NewestOffsite' = NewestOffsite
        /\ \/ heardOn' = night /\ troubles' = troubles
           \/ heardOn' = heardOn /\ troubles' = troubles + 1
    BY <1>3, <1>5 DEF UploadFails, Trouble, BackupDone, alert
  <2>2. QED BY <1>0, <1>1, <2>1 DEF SilenceCosts, DoctorInTime, MishapsTold
<1>6. CASE DoctorRuns
  <2>1. /\ phase = "doctor" /\ phase' = "backup" /\ night' = night + 1 /\ seenOn' = night
        /\ NewestOffsite' = NewestOffsite
        /\ \/ newest_offsite_age_days <= OFFSITE_MAX_AGE_DAYS /\ heardOn' = heardOn /\ troubles' = troubles
           \/ heardOn' = night /\ troubles' = troubles
           \/ heardOn' = heardOn /\ troubles' = troubles + 1
    BY <1>3, <1>6 DEF DoctorRuns, NightFalls, Trouble, BackupDone, alert, offsite_check
  <2>2. newest_offsite_age_days = night - NewestOffsite
    BY DEF newest_offsite_age_days, NewestOffsite
  <2>3. QED BY <1>0, <1>1, <2>1, <2>2 DEF SilenceCosts
<1>7. CASE DayEnds
  <2>1. /\ phase = "doctor" /\ phase' = "backup" /\ night' = night + 1 /\ seenOn' = seenOn
        /\ NewestOffsite' = NewestOffsite /\ heardOn' = heardOn /\ troubles' = troubles
    BY <1>3, <1>7 DEF DayEnds, NightFalls, BackupDone
  <2>2. QED BY <1>0, <1>1, <2>1 DEF SilenceCosts
<1>8. CASE Outage
  <2>1. /\ phase = "backup" /\ phase' = phase /\ seenOn' = seenOn
        /\ NewestOffsite' = NewestOffsite /\ heardOn' = heardOn /\ troubles' = troubles + 1
    BY <1>3, <1>8 DEF Outage, Trouble, BackupDone
  <2>2. QED BY <1>0, <1>1, <2>1 DEF SilenceCosts
<1>9. CASE RunStores \/ NoRun \/ restore \/ Swapped \/ KilledInRestore \/ DamageDone \/ CloudChanges
  <2>1. /\ night' = night /\ seenOn' = seenOn /\ heardOn' = heardOn
        /\ phase' = phase \/ (phase = "run" /\ phase' = "doctor")
    BY <1>9 DEF RunStores, NoRun, restore, Swapped, KilledInRestore, DamageDone, CloudChanges
  <2>2. NewestOffsite' = NewestOffsite
    BY <1>3, <1>9 DEF RunStores, NoRun, restore, Swapped, KilledInRestore, DamageDone, CloudChanges, BackupDone, NewestOffsite
  <2>3. troubles' = troubles \/ troubles' = troubles + 1
    BY <1>9 DEF RunStores, NoRun, restore, Swapped, KilledInRestore, DamageDone, CloudChanges, Trouble
  <2>4. QED BY <1>0, <1>1, <2>1, <2>2, <2>3 DEF SilenceCosts
<1>10. QED BY <1>2, <1>4, <1>5, <1>6, <1>7, <1>8, <1>9 DEF ArchiveNext

(* The sound copy moves back by one a night, and no night too many.        *)
LEMMA DoctorStep ==
    ASSUME ArchiveInv, CountInv, MishapsTold', ArchiveNext, MaxTroubles <= 2, DoctorEvery + 2 <= KeepCopies
    PROVE  DoctorInTime'
<1>0. /\ ArchiveTypes /\ CopiesKept /\ MishapsTold /\ DoctorInTime /\ local \in Seq(Databases) /\ Len(local) \in Nat
      /\ troubles \in 0..MaxTroubles /\ night \in Nat /\ seenOn \in Nat /\ live \in Databases
  BY ArchiveAssumption DEF ArchiveInv, CountInv, ArchiveTypes
<1>1. {DoctorEvery, KeepCopies, MaxTroubles} \subseteq Nat /\ DoctorEvery >= 1
  BY ArchiveAssumption
<1> DEFINE Due(i) == IF phase = "backup" THEN Len(local) - i <= night - seenOn /\ Len(local) - i <= DoctorEvery
                     ELSE Len(local) - i <= night - seenOn + 1 /\ Len(local) - i <= DoctorEvery + 1
<1>2. CASE BackupDone \/ BackupBreaks \/ UploadFails
  <2>1. /\ phase = "backup" /\ phase' = "run" /\ UNCHANGED <<night, live, seenOn, unseen>>
        /\ troubles' = troubles \/ troubles' = troubles + 1
        /\ BackupBreaks => troubles' = troubles + 1
    BY <1>2 DEF BackupDone, BackupBreaks, UploadFails, Trouble
  <2>2. PICK db \in {live, Lost} :
          /\ local' = NewestCopies(Append(local, db)) \/ local' = Append(local, db)
          /\ db = Lost => BackupBreaks /\ local' = Append(local, db)
    <3>1. Lost.damage = "unfinished" /\ live # Lost
      BY <1>0 DEF Lost, CopiesKept
    <3> HIDE DEF Lost
    <3>2. CASE BackupBreaks
      BY <3>1, <3>2 DEF BackupBreaks
    <3>3. CASE BackupDone \/ UploadFails
      BY <3>1, <3>3 DEF BackupDone, UploadFails
    <3>4. QED BY <1>2, <3>2, <3>3
  <2>3. db \in Databases
    BY <1>0 DEF Lost, Databases
  <2>4. /\ Len(local') \in Nat \ {0} /\ local'[Len(local')] = db
        /\ \A i \in 1..Len(local) : Len(local) - i + 1 < KeepCopies =>
                 \E j \in 1..Len(local') : local'[j] = local[i] /\ Len(local') - j = Len(local) - i + 1
    BY <1>0, <2>2, <2>3, CopyMovesBack
  <2>5. ASSUME live'.damage = "none", troubles' <= 1 PROVE SoundAmong(troubles)'
    <3>1. CASE db = live
      BY <1>0, <1>1, <2>1, <2>4, <2>5, <3>1 DEF SoundAmong
    <3>2. CASE db = Lost
      <4>1. troubles = 0 /\ troubles' = 1
        BY <1>0, <1>1, <2>1, <2>2, <2>5, <3>2
      <4>2. PICK i \in 1..Len(local) : local[i].damage = "none" /\ Len(local) - i <= 0
        BY <1>0, <2>1, <2>5, <4>1 DEF DoctorInTime, SoundAmong
      <4>3. Len(local) - i + 1 < KeepCopies
        BY <1>0, <1>1, <4>2
      <4>4. PICK j \in 1..Len(local') : local'[j] = local[i] /\ Len(local') - j = Len(local) - i + 1
        BY <2>4, <4>3
      <4>5. local'[j].damage = "none" /\ Len(local') - j <= troubles'
        BY <1>0, <4>1, <4>2, <4>4
      <4>6. QED BY <4>5 DEF SoundAmong
    <3>3. QED BY <2>2, <3>1, <3>2
  <2>6. ASSUME live'.damage = "page", unseen'
        PROVE \E i \in 1..Len(local') : local'[i].damage = "none" /\ Len(local') - i <= night - seenOn + 1 /\ Len(local') - i <= DoctorEvery + 1
    <3>1. PICK i \in 1..Len(local) : local[i].damage = "none" /\ Len(local) - i <= night - seenOn /\ Len(local) - i <= DoctorEvery
      BY <1>0, <2>1, <2>6 DEF DoctorInTime
    <3>2. Len(local) - i + 1 < KeepCopies
      BY <1>0, <1>1, <3>1
    <3>3. PICK j \in 1..Len(local') : local'[j] = local[i] /\ Len(local') - j = Len(local) - i + 1
      BY <2>4, <3>2
    <3>4. local'[j].damage = "none" /\ Len(local') - j <= night - seenOn + 1 /\ Len(local') - j <= DoctorEvery + 1
      <4>1. Len(local) \in Int /\ i \in Int /\ night \in Int /\ seenOn \in Int /\ DoctorEvery \in Int
        BY <1>0, <1>1
      <4>2. QED BY <3>1, <3>3, <4>1
    <3>5. QED BY <3>4
  <2>7. QED BY <1>0, <2>1, <2>5, <2>6 DEF DoctorInTime
<1>3. ASSUME local' = local, live'.damage = live.damage, unseen' = unseen, night' = night, seenOn' = seenOn,
             phase' = phase \/ (phase = "run" /\ phase' = "doctor"), troubles' = troubles \/ troubles' = troubles + 1
      PROVE  DoctorInTime'
  <2>1. ASSUME live'.damage = "none", troubles' <= 1 PROVE SoundAmong(troubles)'
    <3>1. live.damage = "none" /\ troubles <= 1
      BY <1>0, <1>1, <1>3, <2>1
    <3>2. PICK i \in 1..Len(local) : local[i].damage = "none" /\ Len(local) - i <= troubles
      BY <1>0, <3>1 DEF DoctorInTime, SoundAmong
    <3>3. Len(local) - i <= troubles'
      BY <1>0, <1>1, <1>3, <3>2
    <3>4. QED BY <1>3, <3>2, <3>3 DEF SoundAmong
  <2>2. QED BY <1>0, <1>3, <2>1 DEF DoctorInTime
<1>4. CASE RunStores
  <2>1. PICK failing \in SUBSET {"backfill", "database"} :
          /\ live' = run_history_upkeep(WithToday(live), failing)
          /\ IF failing = {} THEN UNCHANGED troubles ELSE Trouble
    BY <1>4 DEF RunStores
  <2>2. live'.damage = live.damage
    BY <1>0, <2>1, UpkeepOf
  <2>3. troubles' = troubles \/ troubles' = troubles + 1
    BY <2>1 DEF Trouble
  <2>4. /\ UNCHANGED <<local, unseen, night, seenOn>> /\ phase = "run" /\ phase' = "doctor"
    BY <1>4 DEF RunStores
  <2>5. QED BY <1>3, <2>2, <2>3, <2>4
<1>5. CASE NoRun \/ restore \/ KilledInRestore \/ CloudChanges
  <2>1. /\ UNCHANGED <<local, live, unseen, night, seenOn>> /\ (phase' = phase \/ (phase = "run" /\ phase' = "doctor"))
        /\ troubles' = troubles \/ troubles' = troubles + 1
    BY <1>5 DEF NoRun, restore, KilledInRestore, CloudChanges, Trouble
  <2>2. QED BY <1>3, <2>1
<1>6. CASE DoctorRuns
  <2>1. /\ UNCHANGED <<local, live>> /\ unseen' = FALSE /\ seenOn' = night /\ night' = night + 1 /\ phase' = "backup"
        /\ troubles' = troubles \/ troubles' = troubles + 1
    BY <1>6 DEF DoctorRuns, NightFalls, Trouble
  <2>2. ASSUME live'.damage = "none", troubles' <= 1 PROVE SoundAmong(troubles)'
    <3>1. PICK i \in 1..Len(local) : local[i].damage = "none" /\ Len(local) - i <= troubles
      BY <1>0, <1>1, <2>1, <2>2 DEF DoctorInTime, SoundAmong
    <3>2. Len(local) - i <= troubles'
      BY <1>0, <1>1, <2>1, <3>1
    <3>3. QED BY <2>1, <3>1, <3>2 DEF SoundAmong
  <2>3. QED BY <1>0, <2>1, <2>2 DEF DoctorInTime
<1>7. CASE DayEnds
  <2>1. /\ UNCHANGED <<local, live, unseen, seenOn, troubles>> /\ night' = night + 1 /\ phase = "doctor" /\ phase' = "backup" /\ ~doctorIsDue
    BY <1>7 DEF DayEnds, NightFalls
  <2>2. night - seenOn < DoctorEvery
    <3>1. CASE night >= seenOn + DoctorEvery
      <4>1. \E k \in (seenOn + 1)..night : k % DoctorEvery = 0
        BY <1>0, <3>1, DoctorComes
      <4>2. QED BY <2>1, <4>1 DEF doctorIsDue
    <3>2. QED BY <1>0, <1>1, <3>1
  <2>3. ASSUME live'.damage = "page", unseen'
        PROVE \E i \in 1..Len(local) : local[i].damage = "none" /\ Len(local) - i <= night' - seenOn /\ Len(local) - i <= DoctorEvery
    <3>1. PICK i \in 1..Len(local) : local[i].damage = "none" /\ Len(local) - i <= night - seenOn + 1
      BY <1>0, <2>1, <2>3 DEF DoctorInTime
    <3>4. night' = night + 1
      BY <2>1
    <3>2. Len(local) - i <= night' - seenOn /\ Len(local) - i <= DoctorEvery
      <4>1. Len(local) \in Int /\ i \in Int /\ night \in Int /\ seenOn \in Int /\ DoctorEvery \in Int
        BY <1>0, <1>1
      <4>2. QED BY <2>2, <3>1, <3>4, <4>1
    <3>3. QED BY <3>1, <3>2
  <2>4. seenOn' < night'
    BY <1>0, <2>1 DEF DoctorInTime
  <2>5. QED BY <1>0, <2>1, <2>3, <2>4 DEF DoctorInTime, SoundAmong
<1>8. CASE Outage
  <2>1. PICK n \in 1..LongestOutage : night' = night + n
    BY <1>8 DEF Outage
  <2>2. /\ UNCHANGED <<local, live, unseen, seenOn, phase>> /\ phase = "backup" /\ troubles' = troubles + 1
    BY <1>8 DEF Outage, Trouble
  <2>3. n \in Nat /\ night' > night
    BY <1>0, <2>1, ArchiveAssumption
  <2>4. ASSUME live'.damage = "none", troubles' <= 1 PROVE SoundAmong(troubles)'
    <3>1. PICK i \in 1..Len(local) : local[i].damage = "none" /\ Len(local) - i <= troubles
      BY <1>0, <1>1, <2>2, <2>4 DEF DoctorInTime, SoundAmong
    <3>2. Len(local) - i <= troubles'
      BY <1>0, <1>1, <2>2, <3>1
    <3>3. QED BY <2>2, <3>1, <3>2 DEF SoundAmong
  <2>5. ASSUME live'.damage = "page", unseen'
        PROVE \E i \in 1..Len(local) : local[i].damage = "none" /\ Len(local) - i <= night' - seenOn /\ Len(local) - i <= DoctorEvery
    <3>1. PICK i \in 1..Len(local) : local[i].damage = "none" /\ Len(local) - i <= night - seenOn /\ Len(local) - i <= DoctorEvery
      BY <1>0, <2>2, <2>5 DEF DoctorInTime
    <3>2. Len(local) - i <= night' - seenOn
      BY <1>0, <2>1, <2>3, <3>1
    <3>3. QED BY <3>1, <3>2
  <2>6. seenOn' < night'
    BY <1>0, <2>1, <2>2, <2>3 DEF DoctorInTime
  <2>7. QED BY <2>2, <2>4, <2>5, <2>6 DEF DoctorInTime
<1>9. CASE Swapped
  <2>1. /\ UNCHANGED <<local, night, seenOn, phase, troubles>> /\ live' = applying /\ applying # NoRestore
    BY <1>9 DEF Swapped
  <2>2. live'.damage = "none"
    BY <1>0, <2>1 DEF CopiesKept
  <2>3. ASSUME troubles' <= 1 PROVE SoundAmong(troubles)'
    <3>1. live.damage = "none"
      BY <1>0, <1>1, <2>1, <2>3 DEF MishapsTold
    <3>2. QED BY <1>0, <2>1, <2>3, <3>1 DEF DoctorInTime, SoundAmong
  <2>4. QED BY <1>0, <2>1, <2>2, <2>3 DEF DoctorInTime
<1>10. CASE DamageDone
  <2>1. /\ UNCHANGED <<local, night, seenOn, phase>> /\ live.damage = "none" /\ troubles' = troubles + 1 /\ troubles < MaxTroubles
    BY <1>10 DEF DamageDone, Trouble
  <2>2. PICK d \in {"page", "index"} : live' = [live EXCEPT !.damage = d]
    BY <1>10 DEF DamageDone
  <2>3. live'.damage # "none"
    BY <1>0, <2>2 DEF Databases
  <2>4. PICK i \in 1..Len(local) : local[i].damage = "none" /\ Len(local) - i <= 1
    <3>1. troubles <= 1
      BY <1>0, <1>1, <2>1
    <3>2. PICK i \in 1..Len(local) : local[i].damage = "none" /\ Len(local) - i <= troubles
      BY <1>0, <2>1, <3>1 DEF DoctorInTime, SoundAmong
    <3>3. Len(local) - i <= 1
      BY <1>0, <1>1, <3>1, <3>2
    <3>4. QED BY <3>2, <3>3
  <2>5. Due(i)
    BY <1>0, <1>1, <2>4 DEF DoctorInTime
  <2>6. QED BY <1>0, <2>1, <2>3, <2>4, <2>5 DEF DoctorInTime
<1>11. QED BY <1>2, <1>4, <1>5, <1>6, <1>7, <1>8, <1>9, <1>10 DEF ArchiveNext

(* A step of the archive.                                                  *)
LEMMA CountStep ==
    ASSUME ArchiveInv, CountInv, [ArchiveNext]_archiveVars,
           MaxTroubles <= 2, DoctorEvery + 2 <= KeepCopies, OFFSITE_MAX_AGE_DAYS >= 1
    PROVE  CountInv'
<1>1. CASE ArchiveNext
  <2>1. MishapsTold'
    BY <1>1, MishapsStep
  <2>2. DoctorInTime' /\ SilenceCosts'
    BY <1>1, <2>1, DoctorStep, SilenceStep
  <2>3. QED BY <2>1, <2>2 DEF CountInv
<1>2. CASE UNCHANGED archiveVars
  BY <1>2 DEF archiveVars, CountInv, MishapsTold, DoctorInTime, SoundAmong, SilenceCosts, NewestOffsite
<1>3. QED BY <1>1, <1>2

(* What the counting shows.                                                *)
LEMMA CountIsSafe ==
    ASSUME ArchiveInv, CountInv, MaxTroubles <= 2, DoctorEvery + 2 <= KeepCopies, OFFSITE_MAX_AGE_DAYS >= 1
    PROVE  SoundCopyRemains /\ LateCopiesAreTold
<1>0. /\ ArchiveTypes /\ CopiesKept /\ troubles \in 0..MaxTroubles /\ MaxTroubles \in Nat /\ heardOn \in Nat
  BY ArchiveAssumption DEF ArchiveInv, ArchiveTypes
<1>1. SoundCopyRemains
  <2> SUFFICES ASSUME live.damage = "page", unseen PROVE \E i \in DOMAIN local : local[i].damage = "none"
    BY DEF SoundCopyRemains
  <2>1. PICK i \in 1..Len(local) : local[i].damage = "none"
    BY DEF CountInv, DoctorInTime
  <2>2. DOMAIN local = 1..Len(local)
    BY <1>0 DEF ArchiveTypes
  <2>3. QED BY <2>1, <2>2
<1>2. NewestOffsite \in Int
  BY <1>0, NewestIs
<1>3. NewestOffsite = Max({c.of : c \in offsite})
  BY DEF NewestOffsite
<1> HIDE DEF NewestOffsite
<1>4. NewestOffsite < seenOn - OFFSITE_MAX_AGE_DAYS => heardOn > NewestOffsite
  BY <1>0, <1>2 DEF CountInv, SilenceCosts
<1>5. LateCopiesAreTold
  BY <1>3, <1>4 DEF LateCopiesAreTold
<1>6. QED BY <1>1, <1>5

(* The schedule and the nights together.                                   *)
LEMMA NightsInit == ScheduleInit => ArchiveInv /\ CountInv
BY ArchiveInvInit, CountInit DEF ScheduleInit

(* A step of the whole is one of the archive's or leaves it alone.         *)
LEMMA NightsStep == ASSUME [ClockStep \/ CatchUpStep \/ NightStep]_scheduleVars PROVE [ArchiveNext]_archiveVars
BY DEF ClockStep, CatchUpStep, NightStep, scheduleVars, archiveVars

(* Whatever fails, how often and in whichever order: a whole copy is kept here *)
(* and one off-site, no run that was stored is lost but for one stored while a *)
(* restore was under way, and upkeep never takes prose whose forecasts were    *)
(* not read (cli/ops.py, db/retention.py).                                   *)
THEOREM CopiesSurvive == ScheduleSpec => [](NeverWithoutACopy /\ NoRunIsLost /\ ForecastsSurvive)
<1>1. ScheduleInit => ArchiveInv
  BY NightsInit
<1>2. ArchiveInv /\ [ClockStep \/ CatchUpStep \/ NightStep]_scheduleVars => ArchiveInv'
  BY NightsStep, ArchiveInvStep
<1>3. ArchiveInv => NeverWithoutACopy /\ NoRunIsLost /\ ForecastsSurvive
  BY DEF ArchiveInv, CopiesKept, RunsKept, ForecastsKept, Readable, ForecastsSurvive
<1>4. QED BY <1>1, <1>2, <1>3, PTL DEF ScheduleSpec

(* With at most two mishaps, and a rotation two copies longer than the doctor's *)
(* round (his is seven nights, the rotation fourteen), the archive keeps all it *)
(* promises: a sound copy is still there when the doctor finds the damage, and *)
(* somebody is told when copies stop going off-site (cli/ops.py:88, :315).     *)
THEOREM ArchiveKeepsItsPromises ==
    ASSUME MaxTroubles <= 2, DoctorEvery + 2 <= KeepCopies, OFFSITE_MAX_AGE_DAYS >= 1
    PROVE  ScheduleSpec => []CopiesAreSafe
<1>1. ScheduleInit => ArchiveInv /\ CountInv
  BY NightsInit
<1>2. (ArchiveInv /\ CountInv) /\ [ClockStep \/ CatchUpStep \/ NightStep]_scheduleVars => (ArchiveInv /\ CountInv)'
  BY NightsStep, ArchiveInvStep, CountStep
<1>3. ArchiveInv /\ CountInv => CopiesAreSafe
  BY CountIsSafe DEF ArchiveInv, CopiesKept, RunsKept, ForecastsKept, Readable, ForecastsSurvive, CopiesAreSafe, ArchiveIsSafe
<1>4. QED BY <1>1, <1>2, <1>3, PTL DEF ScheduleSpec
=============================================================================
