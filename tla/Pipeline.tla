------------------------------- MODULE Pipeline -------------------------------
(***************************************************************************)
(* pipeline.run_pipeline: a list of serial steps and Parallel blocks over  *)
(* one shared state dictionary.  A serial step that raises stops the run;  *)
(* a step of a block that raises is logged and the run goes on.            *)
(*                                                                         *)
(* The runner is the same for every pipeline.  What a step does to the     *)
(* state is its contract (module StepContracts): the keys it must find,    *)
(* those it reads if they are there, and those it writes.  A step takes    *)
(* effect at one instant between the start and the end of its stage, in    *)
(* any order within a block.                                               *)
(***************************************************************************)
EXTENDS Integers, Sequences, SequencesExt, FiniteSets

CONSTANTS
    Plan,       \* stages: [parallel, steps]
    Contract,   \* what each step reads and writes
    MaxMishaps  \* bound: steps that raise or come back with less than all

Steps == DOMAIN Contract
StepsOf(i) == ToSet(Plan[i].steps)
Reads(s) == Contract[s].needs \cup Contract[s].uses \cup Contract[s].gate
Keys == UNION {Reads(s) \cup ToSet(Contract[s].writes) \cup Contract[s].skip : s \in Steps}

\* The keys a step may write, whichever way it ends.
Written(s) == ToSet(Contract[s].writes) \cup Contract[s].skip

\* The wiring a block must have: no step reads what another one writes.
BlocksShareNoKey ==
    \A i \in DOMAIN Plan : \A s, t \in StepsOf(i) :
        s # t => Reads(s) \cap Written(t) = {}

\* Or none but these: a step, and the key it reads.
RacesAreAmong(pairs) ==
    \A i \in DOMAIN Plan : \A s, t \in StepsOf(i) :
        s # t => \A k \in Reads(s) \cap Written(t) : <<s, k>> \in pairs

\* What a step that succeeds has written, whether it had anything to work
\* on or not and whatever it could not get.
Sure(s) ==
    LET writes == ToSet(Contract[s].writes) \ Contract[s].optional
    IN  IF Contract[s].gate = {} THEN writes ELSE writes \cap Contract[s].skip

\* The order a plan must have: what a step must find, a step of an earlier
\* stage is sure to write; one that ends the run when it fails, or one of a
\* block behind which this step may die.
NeedsAreWritten(fragile) ==
    \A i \in DOMAIN Plan : \A s \in StepsOf(i) : \A k \in Contract[s].needs :
        \E j \in 1..(i - 1) : \E t \in StepsOf(j) :
            k \in Sure(t) /\ (~Plan[j].parallel \/ <<s, t>> \in fragile)

ASSUME PlanAssumption ==
    /\ Plan \in Seq([parallel : BOOLEAN, steps : Seq(Steps)])
    /\ Plan # <<>> /\ MaxMishaps \in Nat
    /\ \A i \in DOMAIN Plan : /\ Plan[i].steps # <<>> /\ StepsOf(i) \subseteq Steps
                              /\ IsInjective(Plan[i].steps)
                              /\ Plan[i].parallel \/ Len(Plan[i].steps) = 1
    /\ \A i, j \in DOMAIN Plan : i # j => StepsOf(i) \cap StepsOf(j) = {}

\* What a step may leave out or leave empty is among what it writes.
ASSUME ContractAssumption ==
    \A s \in Steps : /\ Contract[s].writes \in Seq(Keys)
                     /\ Contract[s].bare \cup Contract[s].optional \subseteq ToSet(Contract[s].writes)

VARIABLES
    stage,      \* the item of `steps` the runner is at
    status,     \* how far each step is
    state,      \* keys of the pipeline's state
    blank,      \* those of them that hold an empty value
    before,     \* the keys there were when the stage began
    missed,     \* of the keys a step reads, those it did not find
    records,    \* result.records
    outcome,    \* "running", then "returning" or "raising", then "returned" or "raised"
    stored,     \* rows of pipeline_steps
    mishaps     \* steps so far that raised or came back with less than all

vars == <<stage, status, state, blank, before, missed, records, outcome, stored, mishaps>>

Done == {"ok", "failed", "starved"}

TypeOK ==
    /\ stage \in 1..(Len(Plan) + 1)
    /\ status \in [Steps -> {"waiting", "running"} \cup Done]
    /\ blank \subseteq state /\ state \subseteq Keys /\ before \subseteq state
    /\ \A s \in Steps : missed[s] \subseteq Reads(s)
    /\ outcome \in {"running", "returning", "raising", "returned", "raised"}
    /\ stored \in {<<>>, records}
    /\ mishaps \in 0..MaxMishaps

Init ==
    /\ stage = 1
    /\ status = [s \in Steps |-> "waiting"]
    /\ state = {} /\ blank = {} /\ before = {}
    /\ missed = [s \in Steps |-> {}]
    /\ records = <<>> /\ stored = <<>>
    /\ outcome = "running" /\ mishaps = 0

-----------------------------------------------------------------------------
(* A block gives every step a worker of its own.                           *)
StartStage ==
    /\ outcome = "running" /\ stage \in DOMAIN Plan
    /\ \A s \in StepsOf(stage) : status[s] = "waiting"
    /\ status' = [s \in Steps |-> IF s \in StepsOf(stage) THEN "running" ELSE status[s]]
    /\ before' = state
    /\ UNCHANGED <<stage, state, blank, missed, records, outcome, stored, mishaps>>

\* self.state[key] raises KeyError on a key nobody wrote.
Missing(s) == Contract[s].needs \ state

\* The step returns early: nothing it works on is there.
Short(s) == Contract[s].gate # {} /\ Contract[s].gate \cap state \subseteq blank

Ends(s, how, written, empty) ==
    /\ status' = [status EXCEPT ![s] = how]
    /\ state' = state \cup written
    /\ blank' = (blank \ written) \cup empty
    /\ missed' = [missed EXCEPT ![s] = Reads(s) \ state]
    /\ UNCHANGED <<stage, before, records, outcome, stored>>

Starve(s) ==
    /\ status[s] = "running" /\ Missing(s) # {}
    /\ Ends(s, "starved", {}, {})
    /\ UNCHANGED mishaps

Skip(s) ==
    /\ status[s] = "running" /\ Missing(s) = {} /\ Short(s)
    /\ Ends(s, "ok", Contract[s].skip, Contract[s].skip)
    /\ UNCHANGED mishaps

Return(s) ==
    /\ status[s] = "running" /\ Missing(s) = {} /\ ~Short(s)
    /\ Ends(s, "ok", ToSet(Contract[s].writes), {})
    /\ UNCHANGED mishaps

\* What the step could not get it leaves out or leaves empty, and goes on.
ReturnLess(s) ==
    /\ status[s] = "running" /\ Missing(s) = {} /\ ~Short(s) /\ mishaps < MaxMishaps
    /\ \/ Contract[s].bare # {} /\ Ends(s, "ok", ToSet(Contract[s].writes), Contract[s].bare)
       \/ Contract[s].optional # {}
          /\ Ends(s, "ok", ToSet(Contract[s].writes) \ Contract[s].optional, {})
    /\ mishaps' = mishaps + 1

\* A fetch, a model call or the database fails outside any try of the step:
\* what it wrote before stays.
Raise(s) ==
    /\ status[s] = "running" /\ Missing(s) = {} /\ ~Short(s) /\ mishaps < MaxMishaps
    /\ Contract[s].raises
    /\ \E n \in 0..(Len(Contract[s].writes) - 1) :
          Ends(s, "failed", ToSet(SubSeq(Contract[s].writes, 1, n)), {})
    /\ mishaps' = mishaps + 1

Record(s) == [step |-> s, ok |-> status[s] = "ok"]

\* The steps of a block that failed leave no row.
RecordsOfMutant(i) ==
    SelectSeq([n \in DOMAIN Plan[i].steps |-> Record(Plan[i].steps[n])],
              LAMBDA r : r.ok \/ ~Plan[i].parallel)

RecordsOf(i) == [n \in DOMAIN Plan[i].steps |-> Record(Plan[i].steps[n])]

\* The block waits for the first future to complete.
EndedAtFirstMutant(i) == \E s \in StepsOf(i) : status[s] \in Done

\* The block waits for steps that succeed.
EndedMutant(i) == \A s \in StepsOf(i) : status[s] = "ok"

Ended(i) == \A s \in StepsOf(i) : status[s] \in Done

\* A failed serial step is logged and the run goes on.
StopsMutant(i) == FALSE

Stops(i) == ~Plan[i].parallel /\ \E s \in StepsOf(i) : status[s] # "ok"

EndStage ==
    /\ outcome = "running" /\ stage \in DOMAIN Plan /\ Ended(stage)
    /\ records' = records \o RecordsOf(stage)
    /\ IF Stops(stage)
         THEN outcome' = "raising" /\ UNCHANGED stage
         ELSE /\ stage' = stage + 1
              /\ outcome' = IF stage = Len(Plan) THEN "returning" ELSE "running"
    /\ UNCHANGED <<status, state, blank, before, missed, stored, mishaps>>

\* The finally clause: a step log that cannot be written is only logged.
Store ==
    /\ outcome \in {"returning", "raising"}
    /\ stored' \in {<<>>, records}
    /\ outcome' = IF outcome = "returning" THEN "returned" ELSE "raised"
    /\ UNCHANGED <<stage, status, state, blank, before, missed, records, mishaps>>

StepEnds(s) == Starve(s) \/ Skip(s) \/ Return(s) \/ ReturnLess(s) \/ Raise(s)
Next == StartStage \/ (\E s \in Steps : StepEnds(s)) \/ EndStage \/ Store

\* Steps return or raise (every call in them has a timeout) and the runner
\* runs on.
Spec == Init /\ [][Next]_vars /\ WF_vars(Next)

-----------------------------------------------------------------------------
(* A step reads what earlier stages left, however the steps of its own     *)
(* block are scheduled: the state it sees is a function of what went wrong *)
(* and not of a race (run_pipeline's blocks, the order of steps()).        *)
ReadsAreSettled ==
    stage \in DOMAIN Plan =>
        \A s \in StepsOf(stage) : status[s] \in Done => missed[s] = Reads(s) \ before

\* The plan has a step before another.
InPlanOrder ==
    {pair \in Steps \X Steps :
        \E i, j \in DOMAIN Plan :
            /\ pair[1] \in StepsOf(i) /\ pair[2] \in StepsOf(j)
            /\ \/ i < j
               \/ i = j /\ \E m, n \in DOMAIN Plan[i].steps :
                              m < n /\ Plan[i].steps[m] = pair[1] /\ Plan[i].steps[n] = pair[2]}

LastStage == IF stage > Len(Plan) THEN Len(Plan) ELSE stage

(* The step log of a run that is over names every step of every stage it   *)
(* reached once, in the order of the plan, with the way it ended; only a   *)
(* serial step that failed cuts it short, and it is the last row.          *)
LogTellsTheRun ==
    outcome # "running" =>
        /\ ToSet(records) = {Record(s) : s \in UNION {StepsOf(i) : i \in 1..LastStage}}
        /\ \A m, n \in DOMAIN records : m < n => <<records[m].step, records[n].step>> \in InPlanOrder
        /\ (outcome \in {"raising", "raised"}) =
              \E i \in 1..LastStage : /\ ~Plan[i].parallel /\ ~Last(records).ok
                                     /\ Last(records).step \in StepsOf(i)

(* Nothing starts and nothing is written after a serial step failed.       *)
NothingAfterAFailure ==
    [][ (\E i \in DOMAIN Plan : ~Plan[i].parallel
                              /\ \E s \in StepsOf(i) : status[s] \in {"failed", "starved"})
        => UNCHANGED <<status, state, missed>> ]_vars

(* A run ends, and with an error exactly when a serial step failed.        *)
RunEnds == <>(outcome \in {"returned", "raised"})
================================================================================
