----------------------------- MODULE MCJobSchedule -----------------------------
(* The jobs around the clock changes, and the nights of one of them, the      *)
(* backup; a behaviour is one or the other's.                                *)
EXTENDS JobSchedule, Archive

(* The autumn of 2026, whose clock change falls on the first of a month, and  *)
(* the spring of 2027; the days from Thursday to Monday around the Sunday of  *)
(* the change.                                                               *)
Date(dow, dom, month) == [dow |-> dow, dom |-> dom, month |-> month]
Autumn == [at |-> 78, before |-> 4, after |-> 5,
           days |-> <<Date(4, 29, 10), Date(5, 30, 10), Date(6, 31, 10), Date(0, 1, 11), Date(1, 2, 11)>>]
Spring == [at |-> 79, before |-> 5, after |-> 4,
           days |-> <<Date(4, 11, 3), Date(5, 12, 3), Date(6, 13, 3), Date(0, 14, 3), Date(1, 15, 3)>>]
BothChanges == {Autumn, Spring}

VARIABLES which

ClockStep == which = "clock" /\ (Tick \/ (\E j \in Jobs : Begin(j)) \/ GoDown \/ Boot) /\ UNCHANGED <<which, archiveVars>>
CatchUpStep == which = "clock" /\ CatchUp /\ UNCHANGED <<which, archiveVars>>
NightStep == which = "nights" /\ ArchiveNext /\ UNCHANGED <<which, vars>>

scheduleVars == <<which, vars, archiveVars>>
ScheduleInit ==
    /\ Init /\ ArchiveInit /\ which \in {"clock", "nights"}
    /\ which = "nights" => season = Autumn
ScheduleSpec ==
    /\ ScheduleInit
    /\ [][ClockStep \/ CatchUpStep \/ NightStep]_scheduleVars
    /\ WF_scheduleVars(CatchUpStep)

(* The archive's promises together (cli/ops.py, db/retention.py).             *)
CopiesAreSafe == which = "nights" => ArchiveIsSafe
================================================================================
