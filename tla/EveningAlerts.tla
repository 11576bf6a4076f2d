---------------------------- MODULE EveningAlerts ----------------------------
(***************************************************************************)
(* The mail about the holdings' new filings and the watched companies' news. *)
(* The evening run reads what is not stored yet, stores it, and mails it at  *)
(* its end.  Two other jobs read filings of the same companies and store     *)
(* them in the same tables: the nightly scan for activists, and the weekly   *)
(* sweep with its earnings releases.  Neither of them mails.                *)
(***************************************************************************)
EXTENDS Integers, Sequences, SequencesExt, FiniteSets, FiniteSetsExt

CONSTANTS
    Papers, Book,        \* Book: the evening's tickers in their order
    Kind,                 \* [Papers -> {"periodic", "eightk", "activist", "news"}]
    Listed,               \* [Papers -> the tickers EDGAR lists it under]
    Subject,              \* [Papers -> the ticker it is about]
    LOOKBACK_DAYS, NEWS_LOOKBACK_DAYS, SCAN_DAYS,
    FirstWeekday,         \* 0 is Monday
    Days,                 \* bound: the days something is published
    LastDay, MaxMishaps,  \* bounds
    Unpublished

ASSUME AlertAssumption ==
    /\ {LOOKBACK_DAYS, NEWS_LOOKBACK_DAYS, SCAN_DAYS, FirstWeekday, LastDay, MaxMishaps} \subseteq Nat
    /\ Kind \in [Papers -> {"periodic", "eightk", "activist", "news"}]
    /\ Book \in Seq(ToSet(Book))
    /\ \A f \in Papers : Subject[f] \in Listed[f] /\ Listed[f] \subseteq ToSet(Book)

VARIABLES
    day, due,             \* the jobs the day still owes
    appeared,            \* [Papers -> the day it appeared, or Unpublished]
    dated,                \* the date EDGAR gives it
    stored,               \* "no", "alert" or "quiet": filing_facts, eightk_alerts, sec_events, watch_news
    job, mails,
    reader, tried, swallowed,   \* kept for the properties
    mishaps

alertVars == <<day, due, appeared, dated, stored, job, mails, reader, tried, swallowed, mishaps>>

Jobs == {"evening", "nightly", "weekly"}
Weekday(d) == (d + FirstWeekday) % 7
Owed(d) == {j \in Jobs : IF j = "weekly" THEN Weekday(d) = 5 ELSE Weekday(d) < 5}
NextBusinessDay(d) == Min({e \in d + 1..d + 4 : Weekday(e) < 5})
Seen == {f \in Papers : stored[f] # "no"}
Visible == {f \in Papers : appeared[f] # Unpublished}
Mishap == mishaps < MaxMishaps /\ mishaps' = mishaps + 1
Off == [step |-> "off", seen |-> {}, left |-> <<>>, batch |-> {}, found |-> <<>>, saw |-> {}, marred |-> FALSE]

-----------------------------------------------------------------------------
(* EDGAR dates what it accepts late on the next business day; a headline has  *)
(* the date it came out.                                                   *)
Publish(f) ==
    /\ appeared[f] = Unpublished /\ day \in Days /\ Weekday(day) < 5
    /\ appeared' = [appeared EXCEPT ![f] = day]
    /\ \E d \in {day} \cup (IF Kind[f] = "news" THEN {} ELSE {NextBusinessDay(day)}) : dated' = [dated EXCEPT ![f] = d]
    /\ UNCHANGED <<day, due, stored, job, mails, reader, tried, swallowed, mishaps>>

Tomorrow ==
    /\ day < LastDay /\ due = {} /\ \A j \in Jobs : job[j] = Off
    /\ day' = day + 1 /\ due' = Owed(day + 1)
    /\ UNCHANGED <<appeared, dated, stored, job, mails, reader, tried, swallowed, mishaps>>

(* The machine is off at the job's hour.                                     *)
Missed(j) ==
    /\ j \in due /\ due' = due \ {j} /\ Mishap
    /\ UNCHANGED <<day, appeared, dated, stored, job, mails, reader, tried, swallowed>>

\* The accession is not marked until its read is stored.
ConsideredMutant(j, f) == [job[j] EXCEPT !.batch = @ \ {f}]

(* Share classes file one document: it is looked at once a run, under the    *)
(* first ticker that lists it.                                             *)
Considered(j, f) == [job[j] EXCEPT !.batch = @ \ {f}, !.seen = @ \cup {f}]

(* What a read stores, whatever mail becomes of it.                          *)
Store(j, f, what) ==
    /\ stored' = [stored EXCEPT ![f] = what]
    /\ reader' = [reader EXCEPT ![f] = j]

SameDay == UNCHANGED <<day, due, appeared, dated>>
NothingStored == UNCHANGED <<stored, reader>>

-----------------------------------------------------------------------------
(* snapshot_only: the holdings and their closes come first, and without them *)
(* there is no alert.                                                      *)
Evening ==
    /\ "evening" \in due
    /\ due' = due \ {"evening"}
    /\ \/ /\ job' = [job EXCEPT !["evening"] =
                       [Off EXCEPT !.step = "look", !.seen = Seen, !.left = Book, !.saw = Visible]]
          /\ UNCHANGED mishaps
       \/ UNCHANGED job /\ Mishap
    /\ UNCHANGED <<day, appeared, dated, stored, mails, reader, tried, swallowed>>

\* Papers of the last two days only.
SinceMutant(f) == day - 2

LookBack(f) == IF Kind[f] = "news" THEN NEWS_LOOKBACK_DAYS ELSE LOOKBACK_DAYS
Since(f) == day - LookBack(f)

Unread(t, e) ==
    {f \in Visible \ e.seen : t \in Listed[f] /\ dated[f] >= Since(f) /\ (Kind[f] = "news") = (e.step = "news")}

(* One ticker's list, [] when EDGAR does not answer; after the last ticker   *)
(* the news, and after the news the mail.                                  *)
Look ==
    LET e == job["evening"] IN
    /\ e.step \in {"look", "news"} /\ e.batch = {}
    /\ \/ /\ e.left # <<>>
          /\ \/ /\ job' = [job EXCEPT !["evening"] = [e EXCEPT !.batch = Unread(Head(e.left), e)]]
                /\ Unread(Head(e.left), e) # {} /\ UNCHANGED mishaps
             \/ /\ job' = [job EXCEPT !["evening"] = [e EXCEPT !.left = Tail(@)]]
                /\ Unread(Head(e.left), e) = {} /\ UNCHANGED mishaps
             \/ /\ job' = [job EXCEPT !["evening"] = [e EXCEPT !.left = Tail(@), !.marred = TRUE]]
                /\ Mishap
       \/ /\ e.left = <<>> /\ UNCHANGED mishaps
          /\ job' = [job EXCEPT !["evening"] =
                       IF e.step = "look" THEN [e EXCEPT !.step = "news", !.left = Book] ELSE [e EXCEPT !.step = "mail"]]
    /\ SameDay /\ NothingStored /\ UNCHANGED <<mails, tried, swallowed>>

(* A 13D is listed under its filer and under its subject; for the filer it   *)
(* is nothing to keep.                                                     *)
OfTheFiler(f, t) == Kind[f] = "activist" /\ t # Subject[f]

Read(f) ==
    LET e == job["evening"] IN
    /\ f \in e.batch /\ \A g \in e.batch : dated[f] <= dated[g]
    /\ IF OfTheFiler(f, Head(e.left))
       THEN job' = [job EXCEPT !["evening"] = Considered("evening", f)] /\ NothingStored /\ UNCHANGED mishaps
       ELSE \/ \E what \in {"alert", "quiet"} :
                 /\ Store("evening", f, what) /\ UNCHANGED mishaps
                 /\ job' = [job EXCEPT !["evening"] =
                      [Considered("evening", f) EXCEPT !.found = IF what = "alert" THEN Append(@, f) ELSE @]]
            \/ /\ job' = [job EXCEPT !["evening"] = [Considered("evening", f) EXCEPT !.marred = TRUE]]
               /\ Mishap /\ NothingStored
    /\ SameDay /\ UNCHANGED <<mails, tried, swallowed>>

(* The OpenRouter cap ends the step; what was read is mailed.                *)
AtTheCap(e) == [e EXCEPT !.left = <<>>, !.batch = {}, !.marred = TRUE]

CapStops ==
    LET e == job["evening"] IN
    /\ e.step \in {"look", "news"} /\ e.batch # {} /\ Mishap
    /\ job' = [job EXCEPT !["evening"] = AtTheCap(e)]
    /\ SameDay /\ NothingStored /\ UNCHANGED <<mails, tried, swallowed>>

Occurrences(f, s) == Cardinality({i \in DOMAIN s : s[i] = f})

(* One mail of all that was found, or none; then the run is over.  A mail    *)
(* that is not sent, or a run that is killed, is not made up for.           *)
Mail ==
    LET e == job["evening"] IN
    /\ e.step = "mail"
    /\ \/ /\ mails' = [f \in Papers |-> mails[f] + Occurrences(f, e.found)]
          /\ UNCHANGED <<swallowed, mishaps>>
       \/ /\ e.found # <<>> /\ Mishap /\ UNCHANGED mails
          /\ swallowed' = swallowed \cup ToSet(e.found)
    /\ tried' = IF e.marred THEN tried
                ELSE tried \cup {f \in e.saw : day - appeared[f] <= LookBack(f)}
    /\ job' = [job EXCEPT !["evening"] = Off]
    /\ SameDay /\ NothingStored

Killed(j) ==
    /\ job[j] # Off /\ Mishap
    /\ swallowed' = swallowed \cup ToSet(job[j].found)
    /\ job' = [job EXCEPT ![j] = Off]
    /\ SameDay /\ NothingStored /\ UNCHANGED <<mails, tried>>

-----------------------------------------------------------------------------
(* activist_scan: each row of the index once; a row of the filer's stores    *)
(* nothing, the subject's does.                                            *)
ScanTargets == {f \in Visible \ Seen : Kind[f] = "activist" /\ dated[f] \in day - SCAN_DAYS + 1..day}

(* The newest filing of each company, if it is not stored, and then the      *)
(* newest earnings release.                                                *)
LatestOf(kind) ==
    {f \in Visible : Kind[f] = kind /\ \A g \in Visible : Kind[g] = kind /\ Subject[g] = Subject[f] => dated[g] <= dated[f]}

Begin(j, step, todo) == job' = [job EXCEPT ![j] = [Off EXCEPT !.step = step, !.batch = todo]]

Nightly ==
    /\ "nightly" \in due /\ "evening" \notin due /\ due' = due \ {"nightly"}
    /\ Begin("nightly", "scan", ScanTargets)
    /\ UNCHANGED <<day, appeared, dated, mishaps, mails, tried, swallowed>> /\ NothingStored

Weekly ==
    /\ "weekly" \in due /\ due' = due \ {"weekly"}
    /\ Begin("weekly", "sweep", LatestOf("periodic") \ Seen)
    /\ UNCHANGED <<day, appeared, dated, mishaps, mails, tried, swallowed>> /\ NothingStored

(* One of what the job found to read; at the cap the rest is left.           *)
OtherRead(j) ==
    /\ j # "evening"
    /\ \E f \in job[j].batch :
          \/ \E what \in {"alert", "quiet"} :
                /\ Store(j, f, what) /\ UNCHANGED mishaps
                /\ job' = [job EXCEPT ![j] = Considered(j, f)]
          \/ /\ Mishap /\ NothingStored
             /\ \/ job' = [job EXCEPT ![j] = Considered(j, f)]
                \/ job' = [job EXCEPT ![j] = Off]
    /\ SameDay /\ UNCHANGED <<mails, tried, swallowed>>

OtherDone(j) ==
    /\ job[j].step \in {"scan", "sweep", "releases"} /\ job[j].batch = {}
    /\ IF job[j].step = "sweep" THEN Begin(j, "releases", LatestOf("eightk") \ Seen)
                                ELSE job' = [job EXCEPT ![j] = Off]
    /\ SameDay /\ NothingStored /\ UNCHANGED <<mails, tried, swallowed, mishaps>>

-----------------------------------------------------------------------------
AlertInit ==
    /\ day = 0 /\ due = Owed(0) /\ mishaps = 0
    /\ appeared = [f \in Papers |-> Unpublished] /\ dated = [f \in Papers |-> 0]
    /\ stored = [f \in Papers |-> "no"] /\ reader = [f \in Papers |-> "none"]
    /\ job = [j \in Jobs |-> Off] /\ mails = [f \in Papers |-> 0]
    /\ tried = {} /\ swallowed = {}

AlertNext ==
    \/ Tomorrow \/ Evening \/ Look \/ CapStops \/ Mail \/ Nightly \/ Weekly
    \/ \E f \in Papers : Publish(f) \/ Read(f)
    \/ \E j \in Jobs : Missed(j) \/ Killed(j) \/ OtherRead(j) \/ OtherDone(j)

AlertSpec == AlertInit /\ [][AlertNext]_alertVars

-----------------------------------------------------------------------------
(* A filing is told once, whatever share classes list it, whatever jobs read *)
(* it at the same time, and however often a run fails and looks again.      *)
ToldOnce == \A f \in Papers : mails[f] <= 1

(* Failed reads, lost lists, the cap and missed evenings lose no filing: the *)
(* first evening that runs through within the look-back leaves none of those *)
(* it could see unread - but a 13D by one of the book's companies on a later *)
(* one, which is marked when the filer's row comes first.                   *)
OneGoodEveningReadsIt ==
    \A f \in tried :
        stored[f] = "no" => Kind[f] = "activist" /\ Book[SelectInSeq(Book, LAMBDA t : t \in Listed[f])] # Subject[f]

(* What the evening run found worth a mail is mailed, also when the cap      *)
(* stopped it, unless the run died or the mail server refused.              *)
FoundIsMailed ==
    \A f \in Papers :
        reader[f] = "evening" /\ stored[f] = "alert" /\ job["evening"] = Off => mails[f] = 1 \/ f \in swallowed

(* What is worth a mail comes in exactly one of them (filing_alert.run and    *)
(* cli.portfolio.snapshot_only).                                                       *)
MailedOnce == ToldOnce /\ FoundIsMailed

=============================================================================
