-------------------------------- MODULE Archive --------------------------------
(* The database and its copies: the nightly `ops backup`, the weekly          *)
(* `ops doctor`, `ops restore`, and the upkeep a run ends with. Night n's      *)
(* backup comes first, then the day's run, then the doctor when it is his     *)
(* evening. A database is the set of runs stored in it, the old runs' picks    *)
(* whose forecast columns are filled, the runs whose prose is still there,     *)
(* and what damage its pages have taken.                                     *)
EXTENDS Integers, Sequences, FiniteSetsExt

CONSTANTS
    KeepCopies,      \* settings.backup_keep, copies here and nights off-site
    DoctorEvery,     \* nights from one doctor to the next
    OFFSITE_MAX_AGE_DAYS,
    TextDays,        \* RetentionPolicy.text_days
    FirstRun,        \* a run from before picks had forecast columns
    LongestOutage,   \* bound: nights the machine is down in one go
    LastNight,       \* bound
    MaxTroubles,     \* bound: failures, outages and damage in one behaviour
    NoRestore        \* no restore is under way

\* Settings under which copies are deleted at all, here and off-site.
ASSUME ArchiveAssumption ==
    /\ {KeepCopies, DoctorEvery} \subseteq Nat \ {0}
    /\ {OFFSITE_MAX_AGE_DAYS, TextDays, LongestOutage, MaxTroubles} \subseteq Nat /\ FirstRun \in Int

VARIABLES night, phase, live, local, offsite, saved, applying,
          cloud,       \* whether the remote answers
          unseen,      \* damage no doctor has looked at
          seenOn, heardOn,  \* nights of the last doctor, of the last mail on copies
          everStored, duringRestore, unfilled, troubles
archiveVars == <<night, phase, live, local, offsite, saved, applying, cloud,
                 unseen, seenOn, heardOn, everStored, duringRestore, unfilled, troubles>>

Trouble == troubles < MaxTroubles /\ troubles' = troubles + 1
Lost == [runs |-> {}, filled |-> {}, prose |-> {}, damage |-> "unfinished"]

(* ---- ops backup ---- *)
NewestCopies(copies) ==
    IF Len(copies) <= KeepCopies THEN copies ELSE SubSeq(copies, Len(copies) - KeepCopies + 1, Len(copies))
StillYoung(copies) == {c \in copies : night - c.of < KeepCopies}

(* A step that raises is mailed by run_job.sh, if the mail goes out.          *)
alert(mailed) == heardOn' = IF mailed THEN night ELSE heardOn

BackupDone ==
    /\ phase = "backup" /\ cloud
    /\ local' = NewestCopies(Append(local, live))
    /\ offsite' = StillYoung(offsite \union {[of |-> night, db |-> live]})
    /\ phase' = "run"
    /\ UNCHANGED <<night, live, saved, applying, cloud, unseen, seenOn, heardOn,
                   everStored, duringRestore, unfilled, troubles>>

(* Out of space or killed in the copy: a file under its final name that holds *)
(* nothing, and no older copy deleted. Only a failure that is not a kill is   *)
(* mailed.                                                                  *)
BackupBreaks ==
    /\ phase = "backup" /\ Trouble
    /\ local' = Append(local, Lost)
    /\ \E mailed \in BOOLEAN : alert(mailed)
    /\ phase' = "run"
    /\ UNCHANGED <<night, live, offsite, saved, applying, cloud, unseen, seenOn,
                   everStored, duringRestore, unfilled>>

(* The remote does not answer: the local copy is written all the same.        *)
UploadFails ==
    /\ phase = "backup" /\ ~cloud
    /\ local' = NewestCopies(Append(local, live))
    /\ \/ alert(TRUE) /\ UNCHANGED troubles
       \/ alert(FALSE) /\ Trouble
    /\ phase' = "run"
    /\ UNCHANGED <<night, live, offsite, saved, applying, cloud, unseen, seenOn,
                   everStored, duringRestore, unfilled>>

(* ---- a run's last steps: its rows, and the history upkeep ---- *)
backfill_pick_forecasts(db) == [db EXCEPT !.filled = @ \union (db.prose \intersect db.runs)]
prune_database(db) == [db EXCEPT !.prose = {r \in @ : r >= night - TextDays}]
run_history_upkeepMutant(db, failing) ==
    LET pruned == IF "database" \in failing THEN db ELSE prune_database(db)
    IN  IF "backfill" \in failing THEN pruned ELSE backfill_pick_forecasts(pruned)
run_history_upkeep(db, failing) ==
    LET filled == IF "backfill" \in failing THEN db ELSE backfill_pick_forecasts(db)
    IN  IF "database" \in failing THEN filled ELSE prune_database(filled)

WithToday(db) == [db EXCEPT !.runs = @ \union {night}, !.filled = @ \union {night}, !.prose = @ \union {night}]
RunStores ==
    /\ phase = "run"
    /\ \E failing \in SUBSET {"backfill", "database"} :
        /\ live' = run_history_upkeep(WithToday(live), failing)
        /\ unfilled' = (unfilled \/ "backfill" \in failing)
        /\ IF failing = {} THEN UNCHANGED troubles ELSE Trouble
    /\ everStored' = everStored \union {night}
    /\ duringRestore' = IF applying = NoRestore THEN duringRestore ELSE duringRestore \union {night}
    /\ phase' = "doctor"
    /\ UNCHANGED <<night, local, offsite, saved, applying, cloud, unseen, seenOn, heardOn>>

(* No run that day, or one that raises before its rows are committed.         *)
NoRun ==
    /\ phase = "run" /\ phase' = "doctor"
    /\ UNCHANGED <<night, live, local, offsite, saved, applying, cloud, unseen, seenOn, heardOn,
                   everStored, duringRestore, unfilled, troubles>>

(* ---- ops doctor ---- *)
newest_offsite_age_days == night - Max({c.of : c \in offsite})
database_check == live.damage # "page"   \* quick_check does not compare indexes with their tables
offsite_check == cloud /\ newest_offsite_age_days <= OFFSITE_MAX_AGE_DAYS
doctorIsDue == \E n \in (seenOn + 1)..night : n % DoctorEvery = 0

NightFalls == night' = night + 1 /\ phase' = "backup"
DoctorRuns ==
    /\ phase = "doctor" /\ applying = NoRestore /\ night < LastNight /\ doctorIsDue
    /\ seenOn' = night /\ unseen' = FALSE
    /\ IF offsite_check /\ database_check THEN UNCHANGED <<heardOn, troubles>>
       ELSE \/ alert(TRUE) /\ UNCHANGED troubles
            \/ alert(FALSE) /\ Trouble
    /\ NightFalls
    /\ UNCHANGED <<live, local, offsite, saved, applying, cloud, everStored, duringRestore, unfilled>>
DayEnds ==
    /\ phase = "doctor" /\ applying = NoRestore /\ night < LastNight /\ ~doctorIsDue
    /\ NightFalls
    /\ UNCHANGED <<live, local, offsite, saved, applying, cloud, unseen, seenOn, heardOn,
                   everStored, duringRestore, unfilled, troubles>>

(* ---- ops restore NAME --apply ---- *)
(* Only a copy that passes integrity_check is applied; the live database is   *)
(* saved beside it first.                                                    *)
apply_restore(c) == /\ applying' = c.db /\ saved' = saved \union {live}
restore ==
    /\ phase # "backup" /\ applying = NoRestore /\ cloud /\ Trouble
    /\ \E c \in offsite : c.db.damage = "none" /\ apply_restore(c)
    /\ UNCHANGED <<night, phase, live, local, offsite, cloud, unseen, seenOn, heardOn,
                   everStored, duringRestore, unfilled>>
Swapped ==
    /\ applying # NoRestore
    /\ live' = applying /\ applying' = NoRestore
    /\ UNCHANGED <<night, phase, local, offsite, saved, cloud, unseen, seenOn, heardOn,
                   everStored, duringRestore, unfilled, troubles>>
KilledInRestore ==
    /\ applying # NoRestore /\ applying' = NoRestore
    /\ UNCHANGED <<night, phase, live, local, offsite, saved, cloud, unseen, seenOn, heardOn,
                   everStored, duringRestore, unfilled, troubles>>

(* ---- the world ---- *)
DamageDone ==
    /\ live.damage = "none" /\ applying = NoRestore /\ Trouble
    /\ \E d \in {"page", "index"} : live' = [live EXCEPT !.damage = d]
    /\ unseen' = TRUE
    /\ UNCHANGED <<night, phase, local, offsite, saved, applying, cloud, seenOn, heardOn,
                   everStored, duringRestore, unfilled>>
CloudChanges ==
    /\ phase = "backup"
    /\ cloud' = ~cloud
    /\ IF cloud THEN Trouble ELSE UNCHANGED troubles
    /\ UNCHANGED <<night, phase, live, local, offsite, saved, applying, unseen, seenOn, heardOn,
                   everStored, duringRestore, unfilled>>
(* Nights with the machine off; the catch-up runs what was missed.            *)
Outage ==
    /\ phase = "backup" /\ Trouble
    /\ \E n \in 1..LongestOutage : night + n <= LastNight /\ night' = night + n
    /\ UNCHANGED <<phase, live, local, offsite, saved, applying, cloud, unseen, seenOn, heardOn,
                   everStored, duringRestore, unfilled>>

FirstDatabase == [runs |-> {FirstRun}, filled |-> {}, prose |-> {FirstRun}, damage |-> "none"]
ArchiveInit ==
    /\ night = 1 /\ phase = "backup" /\ live = FirstDatabase
    /\ local = [i \in 1..KeepCopies |-> FirstDatabase]
    /\ offsite = {[of |-> n, db |-> FirstDatabase] : n \in (1 - KeepCopies)..0}
    /\ saved = {} /\ applying = NoRestore /\ cloud = TRUE
    /\ unseen = FALSE /\ seenOn = 0 /\ heardOn = 0
    /\ everStored = {FirstRun} /\ duringRestore = {} /\ unfilled = FALSE /\ troubles = 0
ArchiveNext ==
    \/ BackupDone \/ BackupBreaks \/ UploadFails \/ RunStores \/ NoRun \/ DoctorRuns \/ DayEnds
    \/ restore \/ Swapped \/ KilledInRestore \/ DamageDone \/ CloudChanges \/ Outage

(* Until the weekly doctor has looked at a damaged database, a copy from      *)
(* before the damage is still kept here or off-site, so that his mail comes   *)
(* in time: the rotation (ops.py:88, :107) is longer than his week.           *)
SoundCopyRemains ==
    live.damage = "page" /\ unseen =>
        \/ \E i \in DOMAIN local : local[i].damage = "none"
        \/ \E c \in offsite : c.db.damage = "none"

(* Whatever fails in whichever order, some whole copy is kept here and one    *)
(* off-site.                                                                *)
NeverWithoutACopy ==
    /\ \E i \in DOMAIN local : local[i].damage # "unfinished"
    /\ offsite # {}

(* A run that was ever stored is in the database or in one saved by a         *)
(* restore; only one stored between the saving and the swap can be lost.      *)
NoRunIsLost ==
    everStored \ duringRestore \subseteq live.runs \union UNION {db.runs : db \in saved}

(* Upkeep takes a run's prose only when the forecasts in it were read, on a   *)
(* restored old database too, unless the reading itself failed.               *)
ForecastsSurvive == ~unfilled => live.runs \subseteq live.filled \union live.prose

(* When the doctor found no recent off-site copy, somebody has been told      *)
(* since the last one was made.                                              *)
LateCopiesAreTold ==
    LET newest == Max({c.of : c \in offsite})
    IN  newest < seenOn - OFFSITE_MAX_AGE_DAYS => heardOn > newest

(* The archive's promises together (cli/ops.py, db/retention.py).             *)
ArchiveIsSafe ==
    SoundCopyRemains /\ NeverWithoutACopy /\ NoRunIsLost /\ ForecastsSurvive /\ LateCopiesAreTold
================================================================================
