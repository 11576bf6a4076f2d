---------------------------- MODULE PipelineProofs ----------------------------
(***************************************************************************)
(* Proofs about the runner, for every plan and step contract and any number  *)
(* of mishaps, about the two pipelines on it, and about what comes of their   *)
(* decisions: the morning's ratings, the grades and who looks back at a pick,  *)
(* for every universe of stocks and tape, every calendar and set of           *)
(* decisions, and every bars, splits and named events.                       *)
(*                                                                         *)
(* Runner: what a step reads is independent of the schedule but for the keys  *)
(* the steps of a block share, as the state grows, while a stage runs, only by *)
(* what the steps of the stage that ended may write.  What a step that        *)
(* succeeded is sure to write is there, so that who misses a key tells of a    *)
(* step before it that failed; and a serial step that fails is the last, so it *)
(* was one of a block.  Of a pipeline nothing is needed but its wiring.        *)
(*                                                                         *)
(* Ratings: the days left to rebuild lie before the last close and have no    *)
(* live row, so that a rebuilding meets no live row, and a live run never a    *)
(* day left; a signal that has its sessions has all of them, so that a later   *)
(* close adds none.                                                        *)
(*                                                                         *)
(* Grades: a window that is over ends before the last bar of any later look;   *)
(* a decision that is ten days past its due date has by the weekdays alone     *)
(* passed the gate, and its h + 1 sessions are over.                         *)
(*                                                                         *)
(* Reviews: a stored price is one of its day, in shares of that day, and there  *)
(* was a bar shortly before; a step adds picks of the day only, so what was      *)
(* read of a day before is what will be.                                     *)
(***************************************************************************)
EXTENDS MCDiscover, MCRebalance, FiniteSetTheorems, WellFoundedInduction, TLAPS

\* Where the steps are while the runner is at a stage.
StatusOK ==
    /\ stage \in 1..(Len(Plan) + 1)
    /\ status \in [Steps -> {"waiting", "running"} \cup Done]
    /\ \A i \in DOMAIN Plan : i > stage => \A s \in StepsOf(i) : status[s] = "waiting"
    /\ \A s \in Steps : status[s] = "running" => stage \in DOMAIN Plan /\ s \in StepsOf(stage)

Over(i) == {s \in StepsOf(i) : status[s] \in Done}
Started(i) == \E s \in StepsOf(i) : status[s] # "waiting"

\* What the stage has added to the state.
StateOK ==
    /\ missed \in [Steps -> SUBSET UNION {Reads(s) : s \in Steps}]
    /\ stage \in DOMAIN Plan /\ Started(stage) =>
          /\ before \subseteq state
          /\ state \subseteq before \cup UNION {Written(s) : s \in Over(stage)}

\* What a step did not find nobody had written before its stage; what it
\* found and was written since is one of the races there may be.
SettledBut(pairs) ==
    stage \in DOMAIN Plan =>
        \A s \in StepsOf(stage) : status[s] \in Done =>
            /\ missed[s] \subseteq Reads(s) \ before
            /\ \A k \in (Reads(s) \ before) \ missed[s] : <<s, k>> \in pairs

Inv(pairs) == StatusOK /\ StateOK /\ SettledBut(pairs)

-----------------------------------------------------------------------------
(* A step that raises has written some of the keys it writes.              *)
LEMMA PrefixWrites ==
    ASSUME NEW s \in Steps, NEW n \in 0..(Len(Contract[s].writes) - 1)
    PROVE  ToSet(SubSeq(Contract[s].writes, 1, n)) \subseteq ToSet(Contract[s].writes)
<1> DEFINE w == Contract[s].writes
<1>1. w \in Seq(Keys)
  BY ContractAssumption
<1>2. n \in Nat /\ n <= Len(w)
  BY <1>1
<1>3. SubSeq(w, 1, n) \in Seq(Keys) /\ Len(SubSeq(w, 1, n)) = n
      /\ \A i \in 1..n : SubSeq(w, 1, n)[i] = w[i]
  BY <1>1, <1>2
<1> HIDE DEF w
<1>4. QED BY <1>1, <1>2, <1>3 DEF ToSet, w

(* However a step ends, it was running, it is over, and it has written a    *)
(* set of its own keys.                                                    *)
LEMMA StepWrites ==
    ASSUME NEW s \in Steps, StepEnds(s)
    PROVE  /\ status[s] = "running"
           /\ \E empty : \E how \in Done, written \in SUBSET Written(s) :
                 Ends(s, how, written, empty)
<1>1. CASE Starve(s)
  BY <1>1 DEF Starve, Done
<1>2. CASE Skip(s)
  BY <1>2 DEF Skip, Done, Written
<1>3. CASE Return(s)
  BY <1>3 DEF Return, Done, Written
<1>4. CASE ReturnLess(s)
  BY <1>4 DEF ReturnLess, Done, Written
<1>5. CASE Raise(s)
  <2>1. status[s] = "running" /\ \E n \in 0..(Len(Contract[s].writes) - 1) :
          Ends(s, "failed", ToSet(SubSeq(Contract[s].writes, 1, n)), {})
    BY <1>5 DEF Raise
  <2>2. PICK n \in 0..(Len(Contract[s].writes) - 1) :
          Ends(s, "failed", ToSet(SubSeq(Contract[s].writes, 1, n)), {})
    BY <2>1
  <2>3. ToSet(SubSeq(Contract[s].writes, 1, n)) \in SUBSET Written(s)
    BY PrefixWrites DEF Written
  <2>4. QED BY <2>1, <2>2, <2>3 DEF Done
<1>6. QED BY <1>1, <1>2, <1>3, <1>4, <1>5 DEF StepEnds

(* A step belongs to one stage.                                            *)
LEMMA OneStage ==
    ASSUME NEW i \in DOMAIN Plan, NEW j \in DOMAIN Plan, NEW s \in StepsOf(i), s \in StepsOf(j)
    PROVE  i = j
BY PlanAssumption

(* Stages are numbered, and made of steps.                                 *)
LEMMA Stages ==
    /\ Len(Plan) \in Nat /\ DOMAIN Plan = 1..Len(Plan) /\ Len(Plan) > 0
    /\ \A i \in DOMAIN Plan : StepsOf(i) \subseteq Steps
BY PlanAssumption

LEMMA InvInit == ASSUME NEW pairs, Init PROVE Inv(pairs)
<1>1. StatusOK
  BY Stages DEF Init, StatusOK
<1>2. StateOK
  BY Stages DEF Init, StateOK, Started, Steps
<1>3. SettledBut(pairs)
  BY Stages DEF Init, SettledBut, Done
<1>4. QED BY <1>1, <1>2, <1>3 DEF Inv

(* The runner starts a stage.                                              *)
LEMMA InvStart ==
    ASSUME NEW pairs, Inv(pairs), StartStage
    PROVE  Inv(pairs)'
<1>1. StatusOK'
  BY Stages, OneStage DEF Inv, StatusOK, StartStage, Done
<1>2. Over(stage)' = {}
  BY Stages DEF Over, StartStage, Done, Inv, StatusOK
<1>3. StateOK'
  BY <1>2 DEF Inv, StateOK, StartStage
<1>4. SettledBut(pairs)'
  BY <1>2 DEF SettledBut, Over, StartStage
<1>5. QED BY <1>1, <1>3, <1>4 DEF Inv

(* A step ends.                                                            *)
LEMMA InvEnds ==
    ASSUME NEW pairs, RacesAreAmong(pairs), Inv(pairs), NEW s \in Steps, StepEnds(s)
    PROVE  Inv(pairs)'
<1>1. status[s] = "running" /\ stage \in DOMAIN Plan /\ s \in StepsOf(stage)
  BY StepWrites DEF Inv, StatusOK
<1>2. PICK empty : \E how \in Done, written \in SUBSET Written(s) :
          Ends(s, how, written, empty)
  BY StepWrites
<1>2a. PICK how \in Done, written \in SUBSET Written(s) : Ends(s, how, written, empty)
  BY <1>2
<1>3. /\ status' = [status EXCEPT ![s] = how]
      /\ state' = state \cup written
      /\ missed' = [missed EXCEPT ![s] = Reads(s) \ state]
      /\ UNCHANGED <<stage, before>>
  BY <1>2a DEF Ends
<1>4. StatusOK'
  BY <1>1, <1>3, Stages, OneStage DEF Inv, StatusOK, Done
<1>5. Over(stage)' = Over(stage) \cup {s} /\ s \notin Over(stage)
  BY <1>1, <1>3, Stages DEF Over, Inv, StatusOK, Done
<1>6. before \subseteq state /\ state \subseteq before \cup UNION {Written(t) : t \in Over(stage)}
  BY <1>1 DEF Inv, StateOK, Started
<1>7. StateOK'
  <2>1. (missed \in [Steps -> SUBSET UNION {Reads(t) : t \in Steps}])'
    BY <1>3 DEF Inv, StateOK
  <2>2. state' \subseteq before' \cup UNION {Written(t) : t \in Over(stage)'}
    BY <1>3, <1>5, <1>6
  <2>3. QED BY <2>1, <2>2, <1>3, <1>6 DEF StateOK
<1>8. Reads(s) \ state \subseteq Reads(s) \ before
  BY <1>6
<1>9. \A k \in (Reads(s) \ before) \ (Reads(s) \ state) : <<s, k>> \in pairs
  <2>1. SUFFICES ASSUME NEW k \in Reads(s), k \notin before, k \in state PROVE <<s, k>> \in pairs
    OBVIOUS
  <2>2. PICK t \in Over(stage) : k \in Written(t)
    BY <1>6, <2>1
  <2>3. t \in StepsOf(stage) /\ t # s
    BY <1>5, <2>2 DEF Over
  <2>4. QED BY <1>1, <2>1, <2>2, <2>3 DEF RacesAreAmong
<1>10. SettledBut(pairs)'
  <2> SUFFICES ASSUME NEW t \in StepsOf(stage), status'[t] \in Done
               PROVE  /\ missed'[t] \subseteq Reads(t) \ before
                      /\ \A k \in (Reads(t) \ before) \ missed'[t] : <<t, k>> \in pairs
    BY <1>3 DEF SettledBut
  <2>1. t \in Steps
    BY <1>1, Stages
  <2>2. CASE t = s
    <3>1. missed'[t] = Reads(s) \ state
      BY <2>1, <2>2, <1>3 DEF Inv, StateOK
    <3>2. QED BY <2>2, <3>1, <1>8, <1>9
  <2>3. CASE t # s
    BY <2>1, <2>3, <1>1, <1>3 DEF Inv, StateOK, StatusOK, SettledBut
  <2>4. QED BY <2>2, <2>3
<1>11. QED BY <1>4, <1>7, <1>10 DEF Inv

(* The runner leaves a stage: no step of the next one has started.         *)
LEMMA InvEndStage ==
    ASSUME NEW pairs, Inv(pairs), EndStage
    PROVE  Inv(pairs)'
<1>1. stage \in DOMAIN Plan /\ Ended(stage) /\ UNCHANGED <<status, state, before, missed>>
  BY DEF EndStage
<1>2. CASE Stops(stage)
  <2>1. UNCHANGED stage
    BY <1>2 DEF EndStage
  <2>2. QED BY <2>1, <1>1 DEF Inv, StatusOK, StateOK, SettledBut, Over, Started
<1>3. CASE ~Stops(stage)
  <2>1. stage' = stage + 1
    BY <1>3 DEF EndStage
  <2>2. \A t \in Steps : status[t] # "running"
    BY <1>1 DEF Inv, StatusOK, Ended, Done
  <2>3. StatusOK'
    BY <1>1, <2>1, <2>2, Stages DEF Inv, StatusOK
  <2>4. stage' \in DOMAIN Plan => \A t \in StepsOf(stage') : status[t] = "waiting"
    BY <2>1, Stages DEF Inv, StatusOK
  <2>5. StateOK' /\ SettledBut(pairs)'
    BY <1>1, <2>4 DEF Inv, StateOK, SettledBut, Started, Done
  <2>6. QED BY <2>3, <2>5 DEF Inv
<1>4. QED BY <1>2, <1>3

LEMMA InvStep ==
    ASSUME NEW pairs, RacesAreAmong(pairs), Inv(pairs), [Next]_vars
    PROVE  Inv(pairs)'
<1>1. CASE StartStage
  BY <1>1, InvStart
<1>2. ASSUME NEW s \in Steps, StepEnds(s) PROVE Inv(pairs)'
  BY <1>2, InvEnds
<1>3. CASE EndStage
  BY <1>3, InvEndStage
<1>4. CASE UNCHANGED <<stage, status, state, before, missed>>
  BY <1>4 DEF Inv, StatusOK, StateOK, SettledBut, Over, Started
<1>5. CASE Store
  BY <1>4, <1>5 DEF Store
<1>6. CASE UNCHANGED vars
  BY <1>4, <1>6 DEF vars
<1>7. QED BY <1>1, <1>2, <1>3, <1>5, <1>6 DEF Next

(* Whatever fails and however a block is scheduled, in every plan whose     *)
(* blocks share no key (run_pipeline, the order of steps()).               *)
THEOREM ReadsDoNotRace ==
    ASSUME BlocksShareNoKey
    PROVE  Spec => []ReadsAreSettled
<1>1. RacesAreAmong({})
  BY DEF BlocksShareNoKey, RacesAreAmong
<1>2. Init => Inv({})
  BY InvInit
<1>3. Inv({}) /\ [Next]_vars => Inv({})'
  BY <1>1, InvStep
<1>4. Inv({}) => ReadsAreSettled
  BY DEF Inv, SettledBut, ReadsAreSettled
<1>5. QED BY <1>2, <1>3, <1>4, PTL DEF Spec

-----------------------------------------------------------------------------
Failed == {"failed", "starved"}

\* The runner never gets past a serial step that failed.
FailureStops ==
    \A i \in DOMAIN Plan : \A s \in StepsOf(i) :
        ~Plan[i].parallel /\ status[s] \in Failed => stage = i

(* A serial stage is one step.                                             *)
LEMMA OneStepSerial ==
    ASSUME NEW i \in DOMAIN Plan, ~Plan[i].parallel, NEW s \in StepsOf(i), NEW t \in StepsOf(i)
    PROVE  s = t
<1>1. Plan[i].steps \in Seq(Steps)
  <2> DEFINE Item == [parallel : BOOLEAN, steps : Seq(Steps)]
  <2>1. Plan \in Seq(Item)
    BY PlanAssumption
  <2>2. Plan[i] \in Item
    <3> HIDE DEF Item
    <3>1. QED BY <2>1
  <2>3. QED BY <2>2
<1>2. Len(Plan[i].steps) = 1
  BY PlanAssumption, Zenon
<1>3. DOMAIN Plan[i].steps = {1}
  BY <1>1, <1>2
<1>4. QED BY <1>3 DEF StepsOf, ToSet

(* A step that ends is of the stage the runner is at; the others stay.      *)
LEMMA EndsAtStage ==
    ASSUME StatusOK, NEW s \in Steps, StepEnds(s)
    PROVE  /\ stage \in DOMAIN Plan /\ s \in StepsOf(stage) /\ status[s] = "running"
           /\ UNCHANGED stage /\ \A t \in Steps : t # s => status'[t] = status[t]
<1>1. status[s] = "running"
  BY StepWrites
<1>2. UNCHANGED stage /\ \A t \in Steps : t # s => status'[t] = status[t]
  BY StepWrites DEF Ends, StatusOK
<1>3. QED BY <1>1, <1>2 DEF StatusOK

(* The steps' places follow the runner, whatever they read and write.       *)
LEMMA StatusStep == StatusOK /\ [Next]_vars => StatusOK'
<1> SUFFICES ASSUME StatusOK, [Next]_vars PROVE StatusOK'
  OBVIOUS
<1>1. CASE StartStage
  BY <1>1, Stages, OneStage DEF StatusOK, StartStage, Done
<1>2. ASSUME NEW s \in Steps, StepEnds(s) PROVE StatusOK'
  <2>1. status[s] = "running" /\ stage \in DOMAIN Plan /\ s \in StepsOf(stage)
    BY <1>2, StepWrites DEF StatusOK
  <2>2. PICK how \in Done : status' = [status EXCEPT ![s] = how] /\ UNCHANGED stage
    BY <1>2, StepWrites DEF Ends
  <2>3. QED BY <2>1, <2>2, Stages, OneStage DEF StatusOK, Done
<1>3. CASE EndStage
  <2>1. stage \in DOMAIN Plan /\ Ended(stage) /\ UNCHANGED status
    BY <1>3 DEF EndStage
  <2>2. \A t \in Steps : status[t] # "running"
    BY <2>1 DEF StatusOK, Ended, Done
  <2>3. stage' \in {stage, stage + 1}
    BY <1>3 DEF EndStage
  <2>4. QED BY <2>1, <2>2, <2>3, Stages DEF StatusOK
<1>4. CASE Store \/ UNCHANGED vars
  BY <1>4 DEF Store, vars, StatusOK
<1>5. QED BY <1>1, <1>2, <1>3, <1>4 DEF Next

LEMMA FailureStopsStep == StatusOK /\ FailureStops /\ [Next]_vars => FailureStops'
<1> SUFFICES ASSUME StatusOK, FailureStops, [Next]_vars,
                    NEW i \in DOMAIN Plan, NEW s \in StepsOf(i),
                    ~Plan[i].parallel, status'[s] \in Failed
             PROVE  stage' = i
  BY DEF FailureStops
<1>1. s \in Steps
  BY Stages
<1>2. CASE StartStage
  BY <1>1, <1>2 DEF StartStage, FailureStops, Failed
<1>3. ASSUME NEW t \in Steps, StepEnds(t) PROVE stage' = i
  BY <1>1, <1>3, EndsAtStage, OneStage DEF FailureStops
<1>4. CASE EndStage
  <2>1. stage = i /\ status[s] # "ok"
    BY <1>4 DEF EndStage, FailureStops, Failed
  <2>2. Stops(stage)
    BY <2>1 DEF Stops
  <2>3. QED BY <1>4, <2>1, <2>2 DEF EndStage
<1>5. CASE Store \/ UNCHANGED vars
  BY <1>5 DEF Store, vars, FailureStops
<1>6. QED BY <1>2, <1>3, <1>4, <1>5 DEF Next

(* Where a serial step failed, nothing of its stage is left to end or start. *)
LEMMA FailureIsFinal ==
    ASSUME StatusOK, FailureStops, [Next]_vars,
           NEW i \in DOMAIN Plan, NEW s \in StepsOf(i), ~Plan[i].parallel, status[s] \in Failed
    PROVE  UNCHANGED <<status, state, missed>>
<1>1. stage = i
  BY DEF FailureStops
<1>2. ~StartStage
  BY <1>1 DEF StartStage, Failed
<1>3. \A t \in Steps : ~StepEnds(t)
  BY <1>1, EndsAtStage, OneStepSerial DEF Failed
<1>4. QED BY <1>2, <1>3 DEF Next, EndStage, Store, vars

(* Once a serial step has failed no step starts and nothing is written,     *)
(* in every plan (run_pipeline's `raise`).                                 *)
THEOREM FailureEndsTheRun == Spec => NothingAfterAFailure
<1>1. Init => StatusOK /\ FailureStops
  BY Stages DEF Init, StatusOK, FailureStops, Failed
<1>2. StatusOK /\ FailureStops /\ [Next]_vars => (StatusOK /\ FailureStops)'
  BY StatusStep, FailureStopsStep
<1>3. StatusOK /\ FailureStops /\ [Next]_vars =>
        ((\E i \in DOMAIN Plan : ~Plan[i].parallel
                              /\ \E s \in StepsOf(i) : status[s] \in {"failed", "starved"})
         => UNCHANGED <<status, state, missed>>)
  BY FailureIsFinal DEF Failed
<1>4. QED BY <1>1, <1>2, <1>3, PTL DEF Spec, NothingAfterAFailure

-----------------------------------------------------------------------------
(* What a run's log tells: the stages the runner has left are over, and their  *)
(* steps make the rows; what a step that succeeded was sure to write is there.  *)
Logged == IF outcome = "running" \/ stage > Len(Plan) THEN stage - 1 ELSE stage

StagesAreOver == \A i \in DOMAIN Plan : i <= Logged => Ended(i)

EndingFits ==
    /\ outcome \in {"running", "returning", "raising", "returned", "raised"}
    /\ outcome = "running" => stage \in DOMAIN Plan
    /\ outcome \in {"raising", "raised"} => stage \in DOMAIN Plan /\ Stops(stage)
    /\ outcome \in {"returning", "returned"} => stage = Len(Plan) + 1 /\ ~Stops(Len(Plan))

RowsFit ==
    /\ records \in Seq([step : Steps, ok : BOOLEAN])
    /\ ToSet(records) = {Record(s) : s \in UNION {StepsOf(i) : i \in 1..Logged}}
    /\ \A m, n \in DOMAIN records : m < n => <<records[m].step, records[n].step>> \in InPlanOrder
    /\ outcome # "running" => records # <<>> /\ Last(records).step \in StepsOf(LastStage)

SureIsThere == \A s \in Steps : status[s] = "ok" => Sure(s) \subseteq state

DiesBehind(fragile) ==
    \A s \in Steps : status[s] = "starved" =>
        \E t \in Steps : <<s, t>> \in fragile /\ status[t] \in Failed

RunInv(fragile) ==
    /\ StatusOK /\ FailureStops /\ StagesAreOver /\ EndingFits /\ RowsFit
    /\ SureIsThere /\ DiesBehind(fragile)

(* The steps of a stage are listed.                                          *)
LEMMA StepsAreListed ==
    ASSUME NEW i \in DOMAIN Plan
    PROVE  /\ Plan[i].steps \in Seq(Steps) /\ Plan[i].steps # <<>> /\ StepsOf(i) \subseteq Steps
           /\ Len(Plan[i].steps) \in Nat /\ Len(Plan[i].steps) > 0
           /\ DOMAIN Plan[i].steps = 1..Len(Plan[i].steps)
           /\ \A n \in DOMAIN Plan[i].steps : Plan[i].steps[n] \in StepsOf(i)
           /\ \A s \in StepsOf(i) : \E n \in DOMAIN Plan[i].steps : Plan[i].steps[n] = s
<1>1. Plan[i].steps \in Seq(Steps)
  <2> DEFINE Item == [parallel : BOOLEAN, steps : Seq(Steps)]
  <2>1. Plan \in Seq(Item)
    BY PlanAssumption
  <2>2. Plan[i] \in Item
    <3> HIDE DEF Item
    <3>1. QED BY <2>1
  <2>3. QED BY <2>2
<1>2. Plan[i].steps # <<>>
  BY PlanAssumption
<1>3. QED BY <1>1, <1>2, Stages DEF StepsOf, ToSet

(* The rows of a stage are its steps', in order.                             *)
LEMMA RowsOfAStage ==
    ASSUME NEW i \in DOMAIN Plan, StatusOK
    PROVE  /\ RecordsOf(i) \in Seq([step : Steps, ok : BOOLEAN])
           /\ Len(RecordsOf(i)) = Len(Plan[i].steps) /\ DOMAIN RecordsOf(i) = DOMAIN Plan[i].steps
           /\ \A n \in DOMAIN RecordsOf(i) : RecordsOf(i)[n] = Record(Plan[i].steps[n])
           /\ ToSet(RecordsOf(i)) = {Record(s) : s \in StepsOf(i)}
<1> DEFINE w == Plan[i].steps
<1>1. /\ w \in Seq(Steps) /\ Len(w) \in Nat /\ DOMAIN w = 1..Len(w)
      /\ \A n \in DOMAIN w : w[n] \in StepsOf(i) /\ w[n] \in Steps
      /\ \A s \in StepsOf(i) : \E n \in DOMAIN w : w[n] = s
  BY StepsAreListed
<1>2. RecordsOf(i) = [n \in DOMAIN w |-> Record(w[n])]
  BY DEF RecordsOf
<1>3. \A s \in Steps : Record(s) \in [step : Steps, ok : BOOLEAN]
  BY DEF Record
<1> HIDE DEF w
<1>4. RecordsOf(i) \in [1..Len(w) -> [step : Steps, ok : BOOLEAN]]
  BY <1>1, <1>2, <1>3
<1>5. RecordsOf(i) \in Seq([step : Steps, ok : BOOLEAN]) /\ Len(RecordsOf(i)) = Len(w)
  <2> DEFINE r == RecordsOf(i)
             R == [step : Steps, ok : BOOLEAN]
  <2>1. r \in [1..Len(w) -> R]
    BY <1>4
  <2> HIDE DEF r, R
  <2>2. r \in Seq(R) /\ Len(r) = Len(w)
    BY <1>1, <2>1
  <2>3. QED BY <2>2 DEF r, R
<1>6. ToSet(RecordsOf(i)) = {Record(s) : s \in StepsOf(i)}
  BY <1>1, <1>2 DEF ToSet
<1>7. QED BY <1>1, <1>2, <1>5, <1>6 DEF w

LEMMA RunInvStart == ASSUME NEW fragile, Init PROVE RunInv(fragile)
<1>1. StatusOK /\ FailureStops
  BY Stages DEF Init, StatusOK, FailureStops, Failed
<1>2. Logged = 0
  BY DEF Logged, Init
<1>3. StagesAreOver /\ EndingFits
  BY <1>2, Stages DEF StagesAreOver, EndingFits, Init
<1>4. RowsFit
  BY <1>2 DEF RowsFit, Init, ToSet
<1>5. SureIsThere /\ DiesBehind(fragile)
  BY DEF SureIsThere, DiesBehind, Init
<1>6. QED BY <1>1, <1>3, <1>4, <1>5 DEF RunInv

(* A step that ends well has written what it is sure to.                     *)
LEMMA EndsSurely ==
    ASSUME NEW s \in Steps, StepEnds(s), StatusOK, status'[s] = "ok"
    PROVE  Sure(s) \subseteq state'
<1>0. status[s] = "running" /\ status \in [Steps -> {"waiting", "running"} \cup Done]
  BY StepWrites DEF StatusOK
<1>1. CASE Skip(s)
  <2>1. Contract[s].gate # {} /\ state' = state \cup Contract[s].skip
    BY <1>1 DEF Skip, Short, Ends
  <2>2. QED BY <2>1 DEF Sure
<1>2. CASE Return(s)
  BY <1>2 DEF Return, Ends, Sure
<1>3. CASE ReturnLess(s)
  <2>1. \/ state' = state \cup ToSet(Contract[s].writes)
        \/ state' = state \cup (ToSet(Contract[s].writes) \ Contract[s].optional)
    BY <1>3 DEF ReturnLess, Ends
  <2>2. QED BY <2>1 DEF Sure
<1>4. CASE Starve(s)
  BY <1>0, <1>4 DEF Starve, Ends
<1>5. CASE Raise(s)
  BY <1>0, <1>5 DEF Raise, Ends
<1>6. QED BY <1>1, <1>2, <1>3, <1>4, <1>5 DEF StepEnds

(* Only a step that misses a key starves.                                    *)
LEMMA StarvesOfAKey ==
    ASSUME NEW s \in Steps, StepEnds(s), StatusOK, status'[s] = "starved"
    PROVE  Missing(s) # {}
<1>0. status[s] = "running" /\ status \in [Steps -> {"waiting", "running"} \cup Done]
  BY StepWrites DEF StatusOK
<1>1. Skip(s) \/ Return(s) \/ ReturnLess(s) => status'[s] = "ok"
  BY <1>0 DEF Skip, Return, ReturnLess, Ends
<1>2. Raise(s) => status'[s] = "failed"
  BY <1>0 DEF Raise, Ends
<1>3. QED BY <1>1, <1>2 DEF StepEnds, Starve

(* Whoever would have written it failed before.                              *)
LEMMA BehindAFailure ==
    ASSUME NEW fragile, NeedsAreWritten(fragile), RunInv(fragile),
           NEW s \in Steps, StepEnds(s), Missing(s) # {}
    PROVE  \E t \in Steps : t # s /\ <<s, t>> \in fragile /\ status[t] \in Failed
<1>1. stage \in DOMAIN Plan /\ s \in StepsOf(stage) /\ status[s] = "running"
  BY EndsAtStage DEF RunInv
<1>2. PICK k \in Contract[s].needs : k \notin state
  BY DEF Missing
<1>3. PICK j \in 1..(stage - 1) : \E t \in StepsOf(j) : k \in Sure(t) /\ (~Plan[j].parallel \/ <<s, t>> \in fragile)
  BY <1>1 DEF NeedsAreWritten
<1>4. PICK t \in StepsOf(j) : k \in Sure(t) /\ (~Plan[j].parallel \/ <<s, t>> \in fragile)
  BY <1>3
<1>5. j \in DOMAIN Plan /\ j < stage /\ stage \in Nat
  BY <1>1, Stages
<1>6. t \in Steps /\ j <= Logged
  BY <1>1, <1>5, Stages DEF Logged
<1>7. status[t] \in Done
  BY <1>4, <1>5, <1>6 DEF RunInv, StagesAreOver, Ended
<1>8. status[t] # "ok"
  BY <1>2, <1>4, <1>6 DEF RunInv, SureIsThere
<1>9. status[t] \in Failed
  BY <1>7, <1>8 DEF Done, Failed
<1>10. Plan[j].parallel
  <2>1. SUFFICES ASSUME ~Plan[j].parallel PROVE FALSE
    OBVIOUS
  <2>2. stage = j
    BY <1>4, <1>5, <1>9, <2>1 DEF RunInv, FailureStops
  <2>3. QED BY <1>5, <2>2
<1>11. t # s
  BY <1>1, <1>9 DEF Failed
<1>12. QED BY <1>4, <1>6, <1>9, <1>10, <1>11

LEMMA RunInvEnds ==
    ASSUME NEW fragile, NeedsAreWritten(fragile), RunInv(fragile), NEW s \in Steps, StepEnds(s)
    PROVE  RunInv(fragile)'
<1>1. /\ stage \in DOMAIN Plan /\ s \in StepsOf(stage) /\ status[s] = "running" /\ UNCHANGED stage
      /\ \A t \in Steps : t # s => status'[t] = status[t]
  BY EndsAtStage DEF RunInv
<1>2. /\ UNCHANGED <<records, outcome>> /\ state \subseteq state'
      /\ \E how \in Done : status' = [status EXCEPT ![s] = how]
  BY StepWrites DEF Ends
<1>3. StatusOK' /\ FailureStops'
  BY StatusStep, FailureStopsStep DEF RunInv, Next
<1>4. outcome = "running"
  <2>1. SUFFICES ASSUME outcome # "running" PROVE FALSE
    OBVIOUS
  <2>2. stage <= Logged
    BY <1>1, <2>1, Stages DEF Logged
  <2>3. Ended(stage)
    BY <1>1, <2>2 DEF RunInv, StagesAreOver
  <2>4. QED BY <1>1, <2>3 DEF Ended, Done
<1>5. Logged' = Logged /\ Logged = stage - 1 /\ outcome' = "running"
  BY <1>1, <1>2, <1>4 DEF Logged
<1>6. \A i \in DOMAIN Plan : i <= Logged => s \notin StepsOf(i)
  BY <1>1, <1>5, OneStage, Stages
<1>7. \A i \in DOMAIN Plan : i <= Logged => \A t \in StepsOf(i) : t \in Steps /\ status'[t] = status[t]
  BY <1>1, <1>6, Stages
<1>8. StagesAreOver'
  BY <1>5, <1>7 DEF RunInv, StagesAreOver, Ended
<1>9. EndingFits'
  BY <1>1, <1>5 DEF EndingFits
<1>10. RowsFit'
  <2>1. \A i \in 1..Logged : i \in DOMAIN Plan /\ i <= Logged
    BY <1>1, <1>5, Stages
  <2>2. \A t \in UNION {StepsOf(i) : i \in 1..Logged} : Record(t)' = Record(t)
    BY <1>7, <2>1 DEF Record
  <2>3. {Record(t) : t \in UNION {StepsOf(i) : i \in 1..Logged}}' = {Record(t) : t \in UNION {StepsOf(i) : i \in 1..Logged}}
    BY <1>5, <2>2
  <2>4. QED BY <1>2, <1>5, <2>3 DEF RunInv, RowsFit
<1>11. SureIsThere'
  <2>1. SUFFICES ASSUME NEW t \in Steps, status'[t] = "ok" PROVE Sure(t) \subseteq state'
    BY DEF SureIsThere
  <2>2. CASE t = s
    BY <2>1, <2>2, EndsSurely DEF RunInv
  <2>3. CASE t # s
    BY <1>1, <1>2, <2>1, <2>3 DEF RunInv, SureIsThere
  <2>4. QED BY <2>2, <2>3
<1>12. DiesBehind(fragile)'
  <2>1. SUFFICES ASSUME NEW t \in Steps, status'[t] = "starved"
                 PROVE  \E u \in Steps : <<t, u>> \in fragile /\ status'[u] \in Failed
    BY DEF DiesBehind
  <2>2. \A u \in Steps : status[u] \in Failed => status'[u] \in Failed
    BY <1>1 DEF Failed
  <2>3. CASE t = s
    <3>1. Missing(s) # {}
      BY <2>1, <2>3, StarvesOfAKey DEF RunInv
    <3>2. QED BY <2>2, <2>3, <3>1, BehindAFailure
  <2>4. CASE t # s
    BY <1>1, <2>1, <2>2, <2>4 DEF RunInv, DiesBehind
  <2>5. QED BY <2>3, <2>4
<1>13. QED BY <1>3, <1>8, <1>9, <1>10, <1>11, <1>12 DEF RunInv

(* How the plan has a step before another.                                  *)
LEMMA BeforeInThePlan ==
    ASSUME NEW i \in DOMAIN Plan, NEW j \in DOMAIN Plan, NEW s \in StepsOf(i), NEW t \in StepsOf(j),
           \/ i < j
           \/ i = j /\ \E m, n \in DOMAIN Plan[i].steps :
                          m < n /\ Plan[i].steps[m] = s /\ Plan[i].steps[n] = t
    PROVE  <<s, t>> \in InPlanOrder
<1> DEFINE pair == <<s, t>>
<1>1. pair[1] = s /\ pair[2] = t /\ pair \in Steps \X Steps
  BY Stages
<1> HIDE DEF pair
<1>2. pair \in InPlanOrder
  BY <1>1 DEF InPlanOrder
<1>3. QED BY <1>2 DEF pair

(* The runner leaves a stage, or stops there: its rows follow those before.   *)
LEMMA RowsFollow ==
    ASSUME NEW fragile, RunInv(fragile), EndStage
    PROVE  /\ records' \in Seq([step : Steps, ok : BOOLEAN])
           /\ ToSet(records') = ToSet(records) \cup {Record(s) : s \in StepsOf(stage)}
           /\ \A m, n \in DOMAIN records' : m < n => <<records'[m].step, records'[n].step>> \in InPlanOrder
           /\ records' # <<>> /\ Last(records').step \in StepsOf(stage)
<1> DEFINE R == [step : Steps, ok : BOOLEAN]
           new == RecordsOf(stage)
<1>1. outcome = "running" /\ stage \in DOMAIN Plan /\ records' = records \o new
  BY DEF EndStage
<1>2. /\ new \in Seq(R) /\ Len(new) = Len(Plan[stage].steps) /\ DOMAIN new = DOMAIN Plan[stage].steps
      /\ \A n \in DOMAIN new : new[n] = Record(Plan[stage].steps[n])
      /\ ToSet(new) = {Record(s) : s \in StepsOf(stage)}
  BY <1>1, RowsOfAStage DEF RunInv
<1>3. /\ Len(Plan[stage].steps) \in Nat /\ Len(Plan[stage].steps) > 0
      /\ DOMAIN Plan[stage].steps = 1..Len(Plan[stage].steps)
      /\ \A n \in DOMAIN Plan[stage].steps : Plan[stage].steps[n] \in StepsOf(stage)
  BY <1>1, StepsAreListed
<1>3a. \A n \in 1..Len(new) : new[n] = Record(Plan[stage].steps[n]) /\ Plan[stage].steps[n] \in StepsOf(stage)
  <2> HIDE DEF new
  <2>1. QED BY <1>2, <1>3
<1>4. \A n \in 1..Len(new) : new[n].step = Plan[stage].steps[n] /\ new[n].step \in StepsOf(stage)
  <2> HIDE DEF new
  <2>1. SUFFICES ASSUME NEW n \in 1..Len(new) PROVE new[n].step = Plan[stage].steps[n] /\ new[n].step \in StepsOf(stage)
    OBVIOUS
  <2>2. \A s : Record(s).step = s
    BY DEF Record
  <2>3. new[n] = Record(Plan[stage].steps[n]) /\ Plan[stage].steps[n] \in StepsOf(stage)
    BY <1>3a
  <2>4. new[n].step = Plan[stage].steps[n]
    BY <2>2, <2>3
  <2>5. QED BY <2>3, <2>4
<1>5. /\ records \in Seq(R)
      /\ \A m, n \in DOMAIN records : m < n => <<records[m].step, records[n].step>> \in InPlanOrder
      /\ ToSet(records) = {Record(s) : s \in UNION {StepsOf(i) : i \in 1..Logged}}
  BY DEF RunInv, RowsFit
<1>6. Logged = stage - 1
  BY <1>1 DEF Logged
<1> HIDE DEF R, new
<1>7. /\ Len(records) \in Nat /\ Len(new) \in Nat /\ Len(new) > 0
      /\ DOMAIN records = 1..Len(records) /\ records' \in Seq(R) /\ Len(records') = Len(records) + Len(new)
      /\ DOMAIN records' = 1..(Len(records) + Len(new))
      /\ \A n \in 1..Len(records) : records'[n] = records[n]
      /\ \A n \in (Len(records) + 1)..(Len(records) + Len(new)) : records'[n] = new[n - Len(records)]
  <2>1. /\ Len(records) \in Nat /\ Len(new) \in Nat /\ Len(new) > 0 /\ DOMAIN records = 1..Len(records)
        /\ records \in Seq(R) /\ new \in Seq(R)
    BY <1>2, <1>3, <1>5
  <2>2. /\ records' \in Seq(R) /\ Len(records') = Len(records) + Len(new)
        /\ \A n \in 1..(Len(records) + Len(new)) :
              records'[n] = IF n <= Len(records) THEN records[n] ELSE new[n - Len(records)]
    BY <1>1, <2>1
  <2>3. DOMAIN records' = 1..(Len(records) + Len(new))
    BY <2>2
  <2>4. QED BY <2>1, <2>2, <2>3
<1>8. ToSet(records') = ToSet(records) \cup ToSet(new)
  <2>1. \A n \in 1..Len(new) : n + Len(records) \in 1..(Len(records) + Len(new)) /\ records'[n + Len(records)] = new[n]
    BY <1>7
  <2>2. DOMAIN new = 1..Len(new)
    BY <1>2, <1>3
  <2>3. ToSet(records) \cup ToSet(new) \subseteq ToSet(records')
    <3>1. ASSUME NEW r \in ToSet(records) PROVE r \in ToSet(records')
      <4>1. PICK n \in 1..Len(records) : r = records[n]
        BY <1>7, <3>1 DEF ToSet
      <4>2. n \in 1..(Len(records) + Len(new)) /\ r = records'[n]
        BY <1>7, <4>1
      <4>3. QED BY <1>7, <4>2 DEF ToSet
    <3>2. ASSUME NEW r \in ToSet(new) PROVE r \in ToSet(records')
      <4>1. PICK n \in 1..Len(new) : r = new[n]
        BY <2>2, <3>2 DEF ToSet
      <4>2. QED BY <1>7, <2>1, <4>1 DEF ToSet
    <3>3. QED BY <3>1, <3>2
  <2>4. \A n \in DOMAIN records' : n \in 1..Len(records) \/ (n - Len(records) \in 1..Len(new) /\ records'[n] = new[n - Len(records)])
    BY <1>7
  <2>5. ToSet(records') \subseteq ToSet(records) \cup ToSet(new)
    BY <1>7, <2>2, <2>4 DEF ToSet
  <2>6. QED BY <2>3, <2>5
<1>9. \A n \in 1..Len(records) : \E i \in 1..(stage - 1) : records[n].step \in StepsOf(i)
  <2>1. SUFFICES ASSUME NEW n \in 1..Len(records) PROVE \E i \in 1..(stage - 1) : records[n].step \in StepsOf(i)
    OBVIOUS
  <2>2. records[n] \in ToSet(records)
    BY <1>7 DEF ToSet
  <2>3. PICK s \in UNION {StepsOf(i) : i \in 1..(stage - 1)} : records[n] = Record(s)
    BY <1>5, <1>6, <2>2
  <2>4. records[n].step = s
    BY <2>3 DEF Record
  <2>5. QED BY <2>3, <2>4
<1>10. ASSUME NEW m \in DOMAIN records', NEW n \in DOMAIN records', m < n
       PROVE  <<records'[m].step, records'[n].step>> \in InPlanOrder
  <2>1. CASE n <= Len(records)
    <3>1. m \in 1..Len(records) /\ n \in 1..Len(records)
      BY <1>7, <1>10, <2>1
    <3>2. QED BY <1>5, <1>7, <1>10, <3>1
  <2>2. CASE m <= Len(records) /\ n > Len(records)
    <3>1. m \in 1..Len(records) /\ n - Len(records) \in 1..Len(new) /\ records'[n] = new[n - Len(records)]
      BY <1>7, <1>10, <2>2
    <3>2. PICK i \in 1..(stage - 1) : records[m].step \in StepsOf(i)
      BY <1>9, <3>1
    <3>3. records'[n].step \in StepsOf(stage) /\ records'[m] = records[m]
      BY <1>4, <1>7, <3>1
    <3>4. i \in DOMAIN Plan /\ i < stage
      BY <1>1, Stages
    <3>5. QED BY <1>1, <3>2, <3>3, <3>4, BeforeInThePlan
  <2>3. CASE m > Len(records)
    <3>1. /\ m - Len(records) \in 1..Len(new) /\ records'[m] = new[m - Len(records)]
          /\ n - Len(records) \in 1..Len(new) /\ records'[n] = new[n - Len(records)]
          /\ m - Len(records) < n - Len(records)
      BY <1>7, <1>10, <2>3
    <3>2. PICK a \in 1..Len(new), b \in 1..Len(new) : a < b /\ records'[m] = new[a] /\ records'[n] = new[b]
      BY <3>1
    <3>3. records'[m].step = Plan[stage].steps[a] /\ records'[n].step = Plan[stage].steps[b]
          /\ a \in DOMAIN Plan[stage].steps /\ b \in DOMAIN Plan[stage].steps
          /\ records'[m].step \in StepsOf(stage) /\ records'[n].step \in StepsOf(stage)
      BY <1>2, <1>3, <1>4, <3>2
    <3>4. QED BY <1>1, <3>2, <3>3, BeforeInThePlan
  <2>4. QED BY <1>7, <2>1, <2>2, <2>3
<1>11. records' # <<>> /\ Last(records').step \in StepsOf(stage)
  <2>1. Len(records') > 0 /\ Last(records') = records'[Len(records')]
    BY <1>7 DEF Last
  <2>2. records'[Len(records')] = new[Len(new)] /\ Len(new) \in 1..Len(new)
    BY <1>7
  <2>3. QED BY <1>4, <2>1, <2>2
<1>12. QED BY <1>2, <1>7, <1>8, <1>10, <1>11 DEF R, new

LEMMA RunInvEndStage ==
    ASSUME NEW fragile, RunInv(fragile), EndStage
    PROVE  RunInv(fragile)'
<1>1. outcome = "running" /\ stage \in DOMAIN Plan /\ Ended(stage) /\ UNCHANGED <<status, state>>
  BY DEF EndStage
<1>2. StatusOK' /\ FailureStops'
  BY StatusStep, FailureStopsStep DEF RunInv, Next
<1>3. \/ Stops(stage) /\ outcome' = "raising" /\ stage' = stage
      \/ ~Stops(stage) /\ stage' = stage + 1 /\ outcome' = IF stage = Len(Plan) THEN "returning" ELSE "running"
  BY DEF EndStage
<1>4. stage \in 1..Len(Plan) /\ Len(Plan) \in Nat
  BY <1>1, Stages
<1>5. Logged = stage - 1 /\ Logged' = stage
  BY <1>1, <1>3, <1>4 DEF Logged
<1>6. StagesAreOver'
  BY <1>1, <1>4, <1>5, Stages DEF RunInv, StagesAreOver, Ended
<1>7. EndingFits'
  <2>1. \A i : Stops(i)' = Stops(i)
    BY <1>1 DEF Stops
  <2>2. CASE Stops(stage)
    BY <1>1, <1>3, <2>1, <2>2 DEF EndingFits
  <2>3. CASE ~Stops(stage) /\ stage = Len(Plan)
    BY <1>3, <2>1, <2>3 DEF EndingFits
  <2>4. CASE ~Stops(stage) /\ stage # Len(Plan)
    <3>0. outcome' = "running" /\ stage' = stage + 1
      BY <1>3, <2>4
    <3>0a. stage + 1 \in 1..Len(Plan)
      BY <1>4, <2>4
    <3>1. outcome' = "running" /\ stage' \in DOMAIN Plan
      BY <3>0, <3>0a, Stages
    <3>2. QED BY <3>1 DEF EndingFits
  <2>5. QED BY <2>2, <2>3, <2>4
<1>8. RowsFit'
  <2>1. \A t : Record(t)' = Record(t)
    BY <1>1 DEF Record
  <2>2. ToSet(records') = {Record(s) : s \in UNION {StepsOf(i) : i \in 1..(stage - 1)}} \cup {Record(s) : s \in StepsOf(stage)}
    BY <1>5, RowsFollow DEF RunInv, RowsFit
  <2>3. 1..stage = 1..(stage - 1) \cup {stage}
    BY <1>4
  <2>4. UNION {StepsOf(i) : i \in 1..stage} = (UNION {StepsOf(i) : i \in 1..(stage - 1)}) \cup StepsOf(stage)
    BY <2>3
  <2>5. ToSet(records') = {Record(s) : s \in UNION {StepsOf(i) : i \in 1..stage}}
    BY <2>2, <2>4
  <2>6. outcome' # "running" => LastStage' = stage
    BY <1>3, <1>4 DEF LastStage
  <2>7. QED BY <1>5, <2>1, <2>5, <2>6, RowsFollow DEF RowsFit
<1>9. SureIsThere' /\ DiesBehind(fragile)'
  BY <1>1 DEF RunInv, SureIsThere, DiesBehind
<1>10. QED BY <1>2, <1>6, <1>7, <1>8, <1>9 DEF RunInv

LEMMA RunInvStartStage ==
    ASSUME NEW fragile, RunInv(fragile), StartStage
    PROVE  RunInv(fragile)'
<1>1. /\ outcome = "running" /\ stage \in DOMAIN Plan /\ UNCHANGED <<stage, state, records, outcome>>
      /\ \A t \in StepsOf(stage) : status[t] = "waiting"
      /\ status' = [s \in Steps |-> IF s \in StepsOf(stage) THEN "running" ELSE status[s]]
  BY DEF StartStage
<1>2. StatusOK' /\ FailureStops'
  BY StatusStep, FailureStopsStep DEF RunInv, Next
<1>3. Logged = stage - 1 /\ Logged' = Logged /\ stage \in 1..Len(Plan)
  BY <1>1, Stages DEF Logged
<1>4. \A i \in 1..Logged : i \in DOMAIN Plan /\ i # stage
  BY <1>3, Stages
<1>5. \A i \in 1..Logged : \A t \in StepsOf(i) : t \in Steps /\ t \notin StepsOf(stage) /\ status'[t] = status[t]
  BY <1>1, <1>4, OneStage, Stages
<1>6. StagesAreOver'
  <2>1. SUFFICES ASSUME NEW i \in DOMAIN Plan, i <= Logged PROVE \A t \in StepsOf(i) : status'[t] \in Done
    BY <1>3 DEF StagesAreOver, Ended
  <2>2. i \in 1..Logged
    BY <1>3, <2>1, Stages
  <2>3. QED BY <1>5, <2>1, <2>2 DEF RunInv, StagesAreOver, Ended
<1>7. EndingFits'
  BY <1>1 DEF EndingFits
<1>8. RowsFit'
  <2>1. \A t \in UNION {StepsOf(i) : i \in 1..Logged} : Record(t)' = Record(t)
    BY <1>5 DEF Record
  <2>2. {Record(t) : t \in UNION {StepsOf(i) : i \in 1..Logged}}' = {Record(t) : t \in UNION {StepsOf(i) : i \in 1..Logged}}
    BY <1>3, <2>1
  <2>3. QED BY <1>1, <1>3, <2>2 DEF RunInv, RowsFit
<1>9. \A t \in Steps : status'[t] \in {status[t], "running"} /\ (status[t] # "waiting" => status'[t] = status[t])
  BY <1>1
<1>10. SureIsThere'
  BY <1>1, <1>9 DEF RunInv, SureIsThere
<1>11. DiesBehind(fragile)'
  <2>1. SUFFICES ASSUME NEW t \in Steps, status'[t] = "starved"
                 PROVE  \E u \in Steps : <<t, u>> \in fragile /\ status'[u] \in Failed
    BY DEF DiesBehind
  <2>2. \A u \in Steps : status[u] \in Failed => status'[u] \in Failed
    BY <1>9 DEF Failed
  <2>3. QED BY <1>9, <2>1, <2>2 DEF RunInv, DiesBehind
<1>12. QED BY <1>2, <1>6, <1>7, <1>8, <1>10, <1>11 DEF RunInv

LEMMA RunInvRest ==
    ASSUME NEW fragile, RunInv(fragile), Store \/ UNCHANGED vars
    PROVE  RunInv(fragile)'
<1>1. /\ UNCHANGED <<stage, status, state, records>>
      /\ \/ outcome' = outcome
         \/ outcome = "returning" /\ outcome' = "returned"
         \/ outcome = "raising" /\ outcome' = "raised"
  BY DEF Store, vars
<1>2. StatusOK' /\ FailureStops'
  BY StatusStep, FailureStopsStep DEF RunInv, Next
<1>3. Logged' = Logged /\ LastStage' = LastStage /\ (outcome' = "running") = (outcome = "running")
  BY <1>1 DEF Logged, LastStage
<1>4. \A i : Stops(i)' = Stops(i)
  BY <1>1 DEF Stops
<1>5. StagesAreOver' /\ SureIsThere' /\ DiesBehind(fragile)'
  BY <1>1, <1>3 DEF RunInv, StagesAreOver, Ended, SureIsThere, DiesBehind
<1>6. EndingFits'
  BY <1>1, <1>4 DEF RunInv, EndingFits
<1>7. RowsFit'
  <2>1. \A t : Record(t)' = Record(t)
    BY <1>1 DEF Record
  <2>2. QED BY <1>1, <1>3, <2>1 DEF RunInv, RowsFit
<1>8. QED BY <1>2, <1>5, <1>6, <1>7 DEF RunInv

LEMMA RunInvStep ==
    ASSUME NEW fragile, NeedsAreWritten(fragile), RunInv(fragile), [Next]_vars
    PROVE  RunInv(fragile)'
<1>1. CASE StartStage
  BY <1>1, RunInvStartStage
<1>2. ASSUME NEW s \in Steps, StepEnds(s) PROVE RunInv(fragile)'
  BY <1>2, RunInvEnds
<1>3. CASE EndStage
  BY <1>3, RunInvEndStage
<1>4. CASE Store \/ UNCHANGED vars
  BY <1>4, RunInvRest
<1>5. QED BY <1>1, <1>2, <1>3, <1>4 DEF Next

(* The last row is the failed serial step's when the run raised.             *)
LEMMA TheLogFits == ASSUME NEW fragile, RunInv(fragile) PROVE LogTellsTheRun
<1>1. SUFFICES ASSUME outcome # "running"
               PROVE  /\ ToSet(records) = {Record(s) : s \in UNION {StepsOf(i) : i \in 1..LastStage}}
                      /\ \A m, n \in DOMAIN records : m < n => <<records[m].step, records[n].step>> \in InPlanOrder
                      /\ (outcome \in {"raising", "raised"}) =
                            \E i \in 1..LastStage : /\ ~Plan[i].parallel /\ ~Last(records).ok
                                                   /\ Last(records).step \in StepsOf(i)
  BY DEF LogTellsTheRun
<1>2. /\ outcome \in {"returning", "raising", "returned", "raised"}
      /\ outcome \in {"raising", "raised"} => stage \in DOMAIN Plan /\ Stops(stage)
      /\ outcome \in {"returning", "returned"} => stage = Len(Plan) + 1 /\ ~Stops(Len(Plan))
  BY <1>1 DEF RunInv, EndingFits
<1>3. Logged = LastStage /\ LastStage \in DOMAIN Plan
  BY <1>1, <1>2, Stages DEF Logged, LastStage
<1>4. /\ ToSet(records) = {Record(s) : s \in UNION {StepsOf(i) : i \in 1..LastStage}}
      /\ \A m, n \in DOMAIN records : m < n => <<records[m].step, records[n].step>> \in InPlanOrder
      /\ records \in Seq([step : Steps, ok : BOOLEAN]) /\ records # <<>>
      /\ Last(records).step \in StepsOf(LastStage)
  BY <1>1, <1>3 DEF RunInv, RowsFit
<1>5. PICK s \in Steps : Last(records) = Record(s) /\ s \in StepsOf(LastStage)
  <2>1. Last(records) \in ToSet(records)
    <3>1. Len(records) \in DOMAIN records
      BY <1>4
    <3>2. QED BY <3>1 DEF Last, ToSet
  <2>2. PICK s \in UNION {StepsOf(i) : i \in 1..LastStage} : Last(records) = Record(s)
    BY <1>4, <2>1
  <2>3. Last(records).step = s
    BY <2>2 DEF Record
  <2>4. QED BY <1>3, <1>4, <2>2, <2>3, Stages
<1>6. Last(records).step = s /\ Last(records).ok = (status[s] = "ok")
  BY <1>5 DEF Record
<1>7. \A i \in 1..LastStage : i \in DOMAIN Plan /\ (s \in StepsOf(i) => i = LastStage)
  BY <1>3, <1>5, OneStage, Stages
<1>8. CASE outcome \in {"raising", "raised"}
  <2>1. LastStage = stage /\ ~Plan[stage].parallel /\ stage \in DOMAIN Plan
    BY <1>2, <1>8, Stages DEF LastStage, Stops
  <2>2. PICK t \in StepsOf(stage) : status[t] # "ok"
    BY <1>2, <1>8 DEF Stops
  <2>3. t = s
    BY <1>5, <2>1, <2>2, OneStepSerial
  <2>4. ~Last(records).ok
    BY <1>6, <2>2, <2>3
  <2>5. LastStage \in 1..LastStage
    BY <1>3, Stages
  <2>6. QED BY <1>4, <1>8, <2>1, <2>4, <2>5
<1>9. CASE outcome \in {"returning", "returned"}
  <2>1. LastStage = Len(Plan) /\ ~Stops(LastStage)
    BY <1>2, <1>9, Stages DEF LastStage
  <2>2. ~Plan[LastStage].parallel => Last(records).ok
    BY <1>5, <1>6, <2>1 DEF Stops
  <2>3. \A i \in 1..LastStage : ~(~Plan[i].parallel /\ ~Last(records).ok /\ Last(records).step \in StepsOf(i))
    BY <1>6, <1>7, <2>2
  <2>4. ~(outcome \in {"raising", "raised"})
    BY <1>9
  <2>5. ~(\E i \in 1..LastStage : ~Plan[i].parallel /\ ~Last(records).ok /\ Last(records).step \in StepsOf(i))
    BY <2>3
  <2>6. (outcome \in {"raising", "raised"}) =
            \E i \in 1..LastStage : ~Plan[i].parallel /\ ~Last(records).ok /\ Last(records).step \in StepsOf(i)
    <3> DEFINE A == outcome \in {"raising", "raised"}
               B == \E i \in 1..LastStage : ~Plan[i].parallel /\ ~Last(records).ok /\ Last(records).step \in StepsOf(i)
    <3>1. ~A /\ ~B /\ A \in BOOLEAN /\ B \in BOOLEAN
      BY <2>4, <2>5
    <3> HIDE DEF A, B
    <3>2. A = B
      BY <3>1
    <3>3. QED BY <3>2 DEF A, B
  <2>7. QED BY <1>4, <2>6
<1>10. QED BY <1>2, <1>8, <1>9

-----------------------------------------------------------------------------
(* Whoever dies of a missing key in the rebalance does so behind a fetch of a  *)
(* block that failed: none of those fetches can starve of anything but another  *)
(* of them (holdings_data behind holdings_fetch).                            *)
LEMMA DiesBehindAFetch == ASSUME RunInv(Fetches) PROVE StarvesBehindAFailedFetch
<1>1. \A s \in Steps : status[s] = "starved" => \E t \in Steps : <<s, t>> \in Fetches /\ status[t] \in Failed
  BY DEF RunInv, DiesBehind
<1>2. \A s \in Steps : status[s] = "starved" => s \in {"screen", "holdings_data", "review_holdings"}
  BY <1>1 DEF Fetches
<1>3. \A t \in Steps : status[t] \in Failed /\ t \in {"technicals", "fundamentals", "holdings_fetch"} => status[t] = "failed"
  BY <1>2 DEF Failed
<1>4. SUFFICES ASSUME NEW s \in Steps, status[s] = "starved"
               PROVE  \/ s = "screen" /\ "failed" \in {status["technicals"], status["fundamentals"]}
                      \/ s = "holdings_data" /\ status["holdings_fetch"] = "failed"
                      \/ s = "review_holdings" /\ "failed" \in {status["holdings_fetch"], status["holdings_data"]}
  BY DEF StarvesBehindAFailedFetch
<1>5. PICK t \in Steps : <<s, t>> \in Fetches /\ status[t] \in Failed
  BY <1>1, <1>4
<1>6. CASE s = "screen"
  <2>1. t \in {"technicals", "fundamentals"}
    BY <1>5, <1>6 DEF Fetches
  <2>2. status[t] = "failed"
    BY <1>3, <1>5, <2>1
  <2>3. QED BY <1>6, <2>1, <2>2
<1>7. CASE s = "holdings_data"
  <2>1. t = "holdings_fetch"
    BY <1>5, <1>7 DEF Fetches
  <2>2. status[t] = "failed"
    BY <1>3, <1>5, <2>1
  <2>3. QED BY <1>7, <2>1, <2>2
<1>8. CASE s = "review_holdings"
  <2>1. t \in {"holdings_fetch", "holdings_data"}
    BY <1>5, <1>8 DEF Fetches
  <2>2. CASE t = "holdings_fetch" \/ status[t] = "failed"
    <3>1. status[t] = "failed"
      BY <1>3, <1>5, <2>2
    <3>2. QED BY <1>8, <2>1, <3>1
  <2>3. CASE t = "holdings_data" /\ status[t] = "starved"
    <3>1. PICK u \in Steps : <<t, u>> \in Fetches /\ status[u] \in Failed
      BY <1>1, <2>3
    <3>2. u = "holdings_fetch"
      BY <2>3, <3>1 DEF Fetches
    <3>3. status[u] = "failed"
      BY <1>3, <3>1, <3>2
    <3>4. QED BY <1>8, <3>2, <3>3
  <2>4. QED BY <1>5, <2>1, <2>2, <2>3 DEF Failed
<1>9. QED BY <1>2, <1>4, <1>6, <1>7, <1>8

(* Whatever fails and however the blocks are scheduled, in every plan and       *)
(* contract wired as RebalancePipeline.steps() is.                            *)
THEOREM StepsDoFindTheirKeys ==
    ASSUME RebalanceIsWired
    PROVE  Spec => []StepsFindTheirKeys
<1>1. NeedsAreWritten(Fetches) /\ RacesAreAmong(Races)
  BY DEF RebalanceIsWired
<1>2. Init => RunInv(Fetches) /\ Inv(Races)
  BY RunInvStart, InvInit
<1>3. RunInv(Fetches) /\ [Next]_vars => RunInv(Fetches)'
  BY <1>1, RunInvStep
<1>4. Inv(Races) /\ [Next]_vars => Inv(Races)'
  BY <1>1, InvStep
<1>5. RunInv(Fetches) /\ Inv(Races) => StepsFindTheirKeys
  <2>1. Inv(Races) => OnlyTwoReadsRace
    BY DEF Inv, SettledBut, OnlyTwoReadsRace
  <2>2. RunInv(Fetches) => StarvesBehindAFailedFetch
    BY DiesBehindAFetch
  <2>3. QED BY <2>1, <2>2 DEF StepsFindTheirKeys
<1>6. QED BY <1>2, <1>3, <1>4, <1>5, PTL DEF Spec

-----------------------------------------------------------------------------
(* Whoever dies of a missing key is the screen, behind a fetch that failed:     *)
(* no fetch needs what another of a block writes.                            *)
LEMMA OnlyTheScreenDies == ASSUME RunInv(ScreenFetches) PROVE OnlyTheScreenStarves
<1>1. SUFFICES ASSUME NEW s \in Steps, status[s] = "starved"
               PROVE  s = "screen" /\ "failed" \in {status["technicals"], status["fundamentals"]}
  BY DEF OnlyTheScreenStarves
<1>2. \A r \in Steps : status[r] = "starved" => \E t \in Steps : <<r, t>> \in ScreenFetches /\ status[t] \in Failed
  BY DEF RunInv, DiesBehind
<1>3. PICK t \in Steps : <<s, t>> \in ScreenFetches /\ status[t] \in Failed
  BY <1>1, <1>2
<1>4. s = "screen" /\ t \in {"technicals", "fundamentals"}
  BY <1>3 DEF ScreenFetches
<1>5. status[t] # "starved"
  <2>1. SUFFICES ASSUME status[t] = "starved" PROVE FALSE
    OBVIOUS
  <2>2. PICK u \in Steps : <<t, u>> \in ScreenFetches
    BY <1>2, <2>1
  <2>3. QED BY <1>4, <2>2 DEF ScreenFetches
<1>6. QED BY <1>3, <1>4, <1>5 DEF Failed

(* Whatever fails, in every plan and contract in which a step of an earlier    *)
(* stage is sure to write what a step must find: a run that is over is told     *)
(* whole and in order, and no step but the screen dies of a missing key         *)
(* (run_pipeline's records, the order of steps()).                            *)
THEOREM FailuresAreToldTruly == DiscoverSpec => []FailuresAreTold
<1>1. DiscoverInit => RunInv(ScreenFetches)
  BY RunInvStart DEF DiscoverInit
<1>2. DiscoverNext => [Next]_vars
  BY DEF DiscoverNext, RunStep, BoardStep, GradeStep, ReviewStep
<1>3. UNCHANGED discoverVars => UNCHANGED vars
  BY DEF discoverVars
<1>4. RunInv(ScreenFetches) /\ [DiscoverNext]_discoverVars => RunInv(ScreenFetches)'
  BY <1>2, <1>3, RunInvStep, DiscoverNeedsAreWritten
<1>5. RunInv(ScreenFetches) => FailuresAreTold
  BY TheLogFits, OnlyTheScreenDies DEF FailuresAreTold
<1>6. QED BY <1>1, <1>4, <1>5, PTL DEF DiscoverSpec

-----------------------------------------------------------------------------
(* The first and the last of finitely many days.                             *)
LEMMA LeastNumber ==
    ASSUME NEW S \in SUBSET Nat, S # {}
    PROVE  \E n \in S : \A m \in S : n <= m
<1> DEFINE R == OpToRel(<, Nat)
<1>1. IsWellFoundedOn(R, Nat)
  BY NatLessThanWellFounded, Zenon
<1> HIDE DEF R
<1>2. PICK n \in S : \A m \in S : ~(<<m, n>> \in R)
  BY <1>1, WFMin
<1>3. \A m \in S : ~(m < n)
  BY <1>2 DEF R, OpToRel
<1>4. QED BY <1>3

LEMMA FirstOf ==
    ASSUME NEW S \in SUBSET Nat, S # {}
    PROVE  Min(S) \in S /\ \A d \in S : Min(S) <= d
BY LeastNumber DEF Min

LEMMA LatestOf ==
    ASSUME NEW S \in SUBSET Nat, S # {}, \E b \in Nat : \A d \in S : d <= b
    PROVE  Max(S) \in S /\ \A d \in S : d <= Max(S)
<1> PICK b \in Nat : \A d \in S : d <= b
  OBVIOUS
<1> DEFINE N == {b - d : d \in S}
<1>1. N \in SUBSET Nat /\ N # {}
  <2>1. \A d \in S : b - d \in Nat
    OBVIOUS
  <2>2. PICK d \in S : TRUE
    OBVIOUS
  <2>3. b - d \in N
    OBVIOUS
  <2>4. QED BY <2>1, <2>3
<1> HIDE DEF N
<1>2. PICK n \in N : \A m \in N : n <= m
  BY <1>1, LeastNumber
<1>3. PICK d \in S : n = b - d
  BY <1>2 DEF N
<1>4. \A e \in S : d >= e
  <2>1. SUFFICES ASSUME NEW e \in S PROVE d >= e
    OBVIOUS
  <2>2. b - e \in N
    BY DEF N
  <2>3. b - d <= b - e /\ d \in Int /\ e \in Int
    BY <1>2, <1>3, <2>2
  <2>4. QED BY <2>3
<1>5. QED BY <1>3, <1>4 DEF Max

-----------------------------------------------------------------------------
(* The clock of the grades.                                                  *)
LEMMA ThreeParts == ASSUME NEW n \in Nat PROVE n \div 3 \in Nat /\ n % 3 \in 0..2 /\ n = 3 * (n \div 3) + (n % 3)
OBVIOUS

LEMMA DayIsADay == ASSUME tick \in Nat PROVE Day \in Nat /\ tick = 3 * Day + (tick % 3) /\ tick % 3 \in 0..2
BY ThreeParts DEF Day

LEMMA NextDayIsADay == ASSUME tick' \in Nat PROVE Day' \in Nat /\ tick' = 3 * Day' + (tick' % 3) /\ tick' % 3 \in 0..2
BY ThreeParts DEF Day

LEMMA TheDayMovesOn ==
    ASSUME tick \in Nat, NextPart
    PROVE  tick' \in Nat /\ Day <= Day' /\ (tick % 3 = 2 => Day < Day')
<1>1. CASE tick % 3 < 2
  <2>1. tick' = tick + 1
    BY <1>1 DEF NextPart
  <2>2. QED BY <1>1, <2>1 DEF Day
<1>2. CASE tick % 3 = 2
  <2> DEFINE D == {d \in Looked : d > Day}
  <2>1. LastDay \in Nat /\ Looked # {} /\ \A d \in Looked : d \in Nat /\ d <= LastDay
    BY GradeAssumption
  <2>2. Max(Looked) \in Looked /\ Max(Looked) \in Nat
    <3> HIDE DEF D
    <3>1. Looked \in SUBSET Nat /\ \E b \in Nat : \A d \in Looked : d <= b
      BY <2>1
    <3>2. QED BY <2>1, <3>1, LatestOf
  <2>3. Max(Looked) > Day
    <3>1. tick < 3 * Max(Looked) + 2
      BY DEF NextPart
    <3>2. QED BY <1>2, <2>2, <3>1, DayIsADay
  <2>4. D \in SUBSET Nat /\ D # {}
    <3>1. Max(Looked) \in D
      BY <2>2, <2>3
    <3>2. QED BY <2>1, <3>1
  <2>5. Min(D) \in Nat /\ Min(D) > Day
    <3>1. Min(D) \in D
      <4> HIDE DEF D
      <4>1. QED BY <2>4, FirstOf
    <3>2. Min(D) \in Looked /\ Min(D) > Day
      BY <3>1
    <3>3. QED BY <2>1, <3>2
  <2>6. tick' = 3 * Min(D)
    BY <1>2 DEF NextPart
  <2> HIDE DEF D
  <2>7. Day' = Min(D)
    BY <2>5, <2>6 DEF Day
  <2>8. QED BY <2>5, <2>6, <2>7, DayIsADay
<1>3. QED BY <1>1, <1>2

LEMMA LastBarIsNear == ASSUME tick \in Nat PROVE LastBar \in Int /\ LastBar >= Day - 1
BY DayIsADay DEF LastBar

LEMMA NearOnTheNextDay == ASSUME tick' \in Nat PROVE LastBar' \in Int /\ LastBar' >= Day' - 1
<1>1. Day' \in Nat
  BY NextDayIsADay
<1>2. LastBar' = Day' \/ LastBar' = Day' - 1
  BY DEF LastBar
<1>3. QED BY ONLY <1>1, <1>2

LEMMA BarsStand ==
    ASSUME NEW CONSTANT days, NEW CONSTANT from, NEW CONSTANT to \in Int,
           tick \in Nat, tick' \in Nat, to < Day, Day <= Day'
    PROVE  FirstAndLast(days, from, to)' = FirstAndLast(days, from, to)
<1>1. to <= LastBar /\ LastBar \in Int
  BY LastBarIsNear, DayIsADay
<1>2. to <= LastBar' /\ LastBar' \in Int
  <2>1. Day' \in Nat /\ Day \in Nat
    BY DayIsADay, NextDayIsADay
  <2>2. QED BY <2>1, NearOnTheNextDay
<1>3. (IF to < LastBar THEN to ELSE LastBar) = to /\ (IF to < LastBar' THEN to ELSE LastBar') = to
  BY <1>1, <1>2
<1>4. QED BY <1>3 DEF FirstAndLast

LEMMA WindowsStand ==
    ASSUME tick \in Nat, NextPart
    PROVE  \A d \in Made, h \in Horizons : Age(d) > h => Measure(d, h)' = Measure(d, h)
<1>1. SUFFICES ASSUME NEW d \in Decisions, NEW h \in Horizons, Age(d) > h
               PROVE  Measure(d, h)' = Measure(d, h)
  BY DEF Made
<1>2. d.day \in Nat /\ h \in Nat
  BY GradeAssumption
<1>3. tick' \in Nat /\ Day <= Day' /\ Day \in Nat
  BY TheDayMovesOn, DayIsADay
<1>4. d.day + h \in Int /\ d.day + h < Day
  BY <1>1, <1>2, <1>3 DEF Age
<1>5. FirstAndLast(Trades(d.ticker), d.day, d.day + h)' = FirstAndLast(Trades(d.ticker), d.day, d.day + h)
  BY <1>3, <1>4, BarsStand
<1>6. FirstAndLast(Sessions, d.day, d.day + h)' = FirstAndLast(Sessions, d.day, d.day + h)
  BY <1>3, <1>4, BarsStand
<1>7. QED BY <1>5, <1>6 DEF Measure

LEMMA TickStep == ASSUME tick \in Nat, [GradeNext]_gradeVars PROVE tick' \in Nat
BY TheDayMovesOn DEF GradeNext, gradeVars, Label, RecordPrices

LEMMA WrittenOnce ==
    ASSUME tick \in Nat, [GradeNext]_gradeVars
    PROVE  \A t \in Tickers : close[t] # Nothing => close'[t] = close[t] \/ Day' # Day
<1>1. SUFFICES ASSUME NEW t \in Tickers, close[t] # Nothing PROVE close'[t] = close[t] \/ Day' # Day
  OBVIOUS
<1>2. CASE RecordPrices
  BY <1>1, <1>2 DEF RecordPrices, MissingToday
<1>3. CASE NextPart
  <2>1. CASE tick % 3 = 2
    <3>1. Day < Day' /\ Day \in Nat
      BY <1>3, <2>1, TheDayMovesOn, DayIsADay
    <3>2. QED BY <3>1
  <2>2. CASE tick % 3 # 2
    BY <1>3, <2>2 DEF NextPart
  <2>3. QED BY <2>1, <2>2
<1>4. CASE Label \/ UNCHANGED gradeVars
  BY <1>4 DEF Label, gradeVars
<1>5. QED BY <1>2, <1>3, <1>4 DEF GradeNext

-----------------------------------------------------------------------------
(* The days a signal is graded over: those after it, up to a number of them. *)
Till(C, day, h) == {d \in C : day < d /\ Cardinality({x \in C : day < x /\ x <= d}) <= h}
UpToPrice(stock, T) == {d \in T : d <= LastOf({x \in T : <<stock, x>> \notin Unpriced})}

ForwardIn(C, stock, day, h) ==
    IF day \notin C \/ <<stock, day>> \in Unpriced THEN {} ELSE UpToPrice(stock, Till(C, day, h))
ScoreIn(C, g) ==
    LET mine == ForwardIn(C, g.stock, g.day, HORIZON)
    IN  [mine |-> mine, spy |-> ForwardIn(C, "SPY", g.day, Cardinality(mine)), done |-> Cardinality(mine) >= HORIZON]

LEMMA ScoreForm ==
    ASSUME NEW CONSTANT g
    PROVE  signal_scorecard(g) = ScoreIn(Closes(today), g) /\ signal_scorecard(g)' = ScoreIn(Closes(today'), g)
BY DEF signal_scorecard, ScoreIn, ForwardIn, _forward, Till, UpToPrice, Closes

LEMMA CloseDays ==
    ASSUME NEW n PROVE Closes(n) \in SUBSET Nat /\ IsFiniteSet(Closes(n)) /\ \A d \in Closes(n) : d \in 1..LastMorning /\ d < n
<1>1. \A d \in Closes(n) : d \in 1..LastMorning /\ d < n
  BY LeadersAssumption DEF Closes
<1>2. LastMorning \in Nat /\ Closes(n) \subseteq 1..LastMorning
  BY <1>1, LeadersAssumption
<1>3. IsFiniteSet(1..LastMorning)
  BY <1>2, FS_Interval
<1>4. IsFiniteSet(Closes(n))
  BY <1>2, <1>3, FS_Subset
<1>5. QED BY <1>1, <1>4

LEMMA TillIsCounted ==
    ASSUME NEW C \in SUBSET Nat, IsFiniteSet(C), NEW b \in Nat, \A d \in C : d <= b, NEW day, NEW h \in Nat
    PROVE  IsFiniteSet(Till(C, day, h)) /\ Cardinality(Till(C, day, h)) <= h
<1> DEFINE T == Till(C, day, h)
<1>1. T \subseteq C /\ IsFiniteSet(T)
  BY FS_Subset DEF Till
<1>2. CASE T = {}
  <2>1. Cardinality(T) = 0
    BY <1>2, FS_EmptySet
  <2>2. QED BY <1>1, <2>1
<1>3. CASE T # {}
  <2>1. Max(T) \in T /\ \A d \in T : d <= Max(T)
    <3> HIDE DEF T
    <3>1. T \in SUBSET Nat /\ \E n \in Nat : \A d \in T : d <= n
      BY <1>1
    <3>2. QED BY <1>3, <3>1, LatestOf
  <2> DEFINE X == {x \in C : day < x /\ x <= Max(T)}
  <2>2. Cardinality(X) <= h /\ \A d \in T : day < d
    BY <2>1 DEF Till
  <2>3. T \subseteq X
    BY <1>1, <2>1, <2>2
  <2>4. IsFiniteSet(X)
    BY FS_Subset
  <2> HIDE DEF X, T
  <2>5. Cardinality(T) <= Cardinality(X) /\ Cardinality(T) \in Nat /\ Cardinality(X) \in Nat
    BY <1>1, <2>3, <2>4, FS_Subset, FS_CardinalityType
  <2>6. QED BY <1>1, <2>2, <2>5 DEF T
<1>4. QED BY <1>2, <1>3

(* Another close after all of them changes nothing for a signal that has its   *)
(* days.                                                                    *)
LEMMA TillIsFull ==
    ASSUME NEW C \in SUBSET Nat, IsFiniteSet(C), NEW day, NEW h \in Nat, NEW e \in Nat, \A d \in C : d < e,
           IsFiniteSet(Till(C, day, h)), Cardinality(Till(C, day, h)) >= h, Till(C, day, h) # {}
    PROVE  Till(C \cup {e}, day, h) = Till(C, day, h)
<1> DEFINE T == Till(C, day, h)
           D == C \cup {e}
<1>1. \A d \in C : {x \in D : day < x /\ x <= d} = {x \in C : day < x /\ x <= d}
  OBVIOUS
<1>2. \A d \in C : d \in Till(D, day, h) <=> d \in T
  BY <1>1 DEF Till
<1>3. e \notin Till(D, day, h)
  <2>1. SUFFICES ASSUME day < e PROVE ~(Cardinality({x \in D : day < x /\ x <= e}) <= h)
    BY DEF Till
  <2> DEFINE X == {x \in D : day < x /\ x <= e}
  <2>2. T \cup {e} \subseteq X
    <3>1. \A d \in T : d \in C /\ day < d
      BY DEF Till
    <3> HIDE DEF T
    <3>2. \A d \in T : d \in X
      <4>1. SUFFICES ASSUME NEW d \in T PROVE d \in X
        OBVIOUS
      <4>2. d \in D /\ day < d /\ d < e /\ d \in Nat
        BY <3>1
      <4>3. d <= e
        BY <4>2
      <4>4. QED BY <4>2, <4>3
    <3>3. e \in X
      BY <2>1
    <3> HIDE DEF X
    <3>4. QED BY <3>2, <3>3
  <2>3. e \notin T
    BY DEF Till
  <2>4. IsFiniteSet(T \cup {e}) /\ Cardinality(T \cup {e}) = Cardinality(T) + 1
    BY <2>3, FS_AddElement
  <2>5. IsFiniteSet(X)
    <3>1. IsFiniteSet(D)
      BY FS_AddElement
    <3>2. X \subseteq D
      OBVIOUS
    <3> HIDE DEF X, D
    <3>3. QED BY <3>1, <3>2, FS_Subset
  <2> HIDE DEF X, T
  <2>6. Cardinality(T \cup {e}) <= Cardinality(X) /\ Cardinality(X) \in Nat
    BY <2>2, <2>5, FS_Subset, FS_CardinalityType
  <2>7. Cardinality(T) \in Nat /\ Cardinality(T) >= h
    BY FS_CardinalityType DEF T
  <2>8. ~(Cardinality(X) <= h)
    BY ONLY <2>4, <2>6, <2>7, h \in Nat
  <2>9. QED BY <2>8 DEF X
<1>4. Till(D, day, h) \subseteq D /\ T \subseteq C
  BY DEF Till
<1>5. QED BY <1>2, <1>3, <1>4

-----------------------------------------------------------------------------
LEMMA TomorrowsClose ==
    ASSUME today \in Nat
    PROVE  Closes(today + 1) = Closes(today) \/ Closes(today + 1) = Closes(today) \cup {today}
<1>1. \A d \in TradingDays : d \in Nat
  <2>1. TradingDays \subseteq 1..LastMorning /\ LastMorning \in Nat
    BY LeadersAssumption, Zenon
  <2>2. QED BY <2>1
<1>2. \A d \in TradingDays : d < today + 1 <=> d < today \/ d = today
  BY <1>1
<1>3. CASE today \in TradingDays
  BY <1>2, <1>3 DEF Closes
<1>4. CASE today \notin TradingDays
  BY <1>2, <1>4 DEF Closes
<1>5. QED BY <1>3, <1>4

(* A signal that is through is graded alike the day after, over the same days   *)
(* as the index.                                                            *)
LEMMA WholeForward ==
    ASSUME NEW C \in SUBSET Nat, IsFiniteSet(C), NEW b \in Nat, \A d \in C : d <= b,
           NEW stock, NEW day, Cardinality(ForwardIn(C, stock, day, HORIZON)) >= HORIZON
    PROVE  /\ Cardinality(ForwardIn(C, stock, day, HORIZON)) = HORIZON
           /\ ForwardIn(C, stock, day, HORIZON) = Till(C, day, HORIZON)
           /\ UpToPrice(stock, Till(C, day, HORIZON)) = Till(C, day, HORIZON)
           /\ day \in C /\ <<stock, day>> \notin Unpriced
<1> DEFINE T == Till(C, day, HORIZON)
           mine == ForwardIn(C, stock, day, HORIZON)
<1>1. HORIZON \in Nat \ {0}
  BY LeadersAssumption
<1>2. IsFiniteSet(T) /\ Cardinality(T) <= HORIZON /\ Cardinality(T) \in Nat
  BY <1>1, TillIsCounted, FS_CardinalityType
<1>3. mine # {}
  BY <1>1, FS_EmptySet
<1>4. mine = UpToPrice(stock, T) /\ day \in C /\ <<stock, day>> \notin Unpriced
  BY <1>3 DEF ForwardIn
<1>5. mine \subseteq T
  BY <1>4 DEF UpToPrice
<1>6. mine = T /\ Cardinality(mine) = HORIZON
  <2> HIDE DEF T, mine
  <2>1. IsFiniteSet(mine) /\ Cardinality(mine) <= Cardinality(T) /\ (Cardinality(mine) = Cardinality(T) => mine = T) /\ Cardinality(mine) \in Nat
    BY <1>2, <1>5, FS_Subset, FS_CardinalityType
  <2>2. Cardinality(mine) >= HORIZON
    BY DEF mine
  <2>3. QED BY <1>1, <1>2, <2>1, <2>2
<1>7. QED BY <1>4, <1>6

LEMMA DoneIsWhole ==
    ASSUME NEW C, NEW g, ScoreIn(C, g).done
    PROVE  Cardinality(ForwardIn(C, g.stock, g.day, HORIZON)) >= HORIZON
<1> DEFINE n == ForwardIn(C, g.stock, g.day, HORIZON)
           full == Cardinality(n) >= HORIZON
<1>1. ScoreIn(C, g) = [mine |-> n, spy |-> ForwardIn(C, "SPY", g.day, Cardinality(n)), done |-> full]
  BY DEF ScoreIn
<1>2. full \in BOOLEAN
  OBVIOUS
<1> HIDE DEF n, full
<1>3. ScoreIn(C, g).done = full
  BY <1>1
<1>4. full
  BY <1>3, Zenon
<1>5. QED BY <1>4 DEF n, full

LEMMA GradeStands ==
    ASSUME today \in Nat, today' = today + 1, NEW CONSTANT g, signal_scorecard(g).done
    PROVE  signal_scorecard(g)' = signal_scorecard(g)
<1> DEFINE C == Closes(today)
           D == Closes(today + 1)
           T == Till(C, g.day, HORIZON)
<1>1. HORIZON \in Nat \ {0}
  BY LeadersAssumption
<1>2. C \in SUBSET Nat /\ IsFiniteSet(C) /\ \A d \in C : d < today
  BY CloseDays
<1>3. \A d \in C : d <= today
  BY <1>2
<1>4. D = C \/ D = C \cup {today}
  BY TomorrowsClose
<1>5. Cardinality(ForwardIn(C, g.stock, g.day, HORIZON)) >= HORIZON
  BY ScoreForm, DoneIsWhole
<1> HIDE DEF C, D
<1>6. /\ Cardinality(ForwardIn(C, g.stock, g.day, HORIZON)) = HORIZON
      /\ ForwardIn(C, g.stock, g.day, HORIZON) = T /\ UpToPrice(g.stock, T) = T
      /\ g.day \in C /\ <<g.stock, g.day>> \notin Unpriced
  BY <1>2, <1>3, <1>5, WholeForward
<1>7. IsFiniteSet(T) /\ Cardinality(T) >= HORIZON /\ T # {}
  <2>1. Cardinality(T) = HORIZON
    BY <1>6
  <2>2. T # {}
    BY <1>1, <2>1, FS_EmptySet
  <2>3. IsFiniteSet(T)
    BY <1>1, <1>2, <1>3, TillIsCounted
  <2>4. QED BY <1>1, <2>1, <2>2, <2>3
<1>8. Till(D, g.day, HORIZON) = T /\ g.day \in D
  <2>1. CASE D = C \cup {today}
    BY <1>1, <1>2, <1>6, <1>7, <2>1, TillIsFull
  <2>2. CASE D = C
    BY <1>6, <2>2
  <2>3. QED BY <1>4, <2>1, <2>2
<1>9. ForwardIn(D, g.stock, g.day, HORIZON) = ForwardIn(C, g.stock, g.day, HORIZON)
  BY <1>6, <1>8 DEF ForwardIn
<1>10. ForwardIn(D, "SPY", g.day, HORIZON) = ForwardIn(C, "SPY", g.day, HORIZON)
  BY <1>6, <1>8 DEF ForwardIn
<1>11. ScoreIn(D, g) = ScoreIn(C, g)
  BY <1>6, <1>9, <1>10 DEF ScoreIn
<1>12. QED BY <1>11, ScoreForm DEF C, D

-----------------------------------------------------------------------------
(* The ratings' tables.                                                     *)
LiveRow(s, d) == s \in DOMAIN history[d] /\ history[d][s].live

BoardTypes ==
    /\ today \in Nat /\ 1 <= today /\ today <= LastMorning + 1
    /\ history = [d \in Days |-> history[d]]
    /\ sectors = [d \in Days |-> sectors[d]]
    /\ rebuild \in [left : SUBSET Nat, lastFull : Nat, quiet : [Stocks -> Nat], started : BOOLEAN]

\* No live run will rate or has rated the days that are to be rebuilt.
LeftIsRebuilt ==
    \A d \in rebuild.left : d \in Closes(today) /\ d < LastOf(Closes(today)) /\ \A s : ~LiveRow(s, d)

\* The row of a stock in its buy zone is kept.
SignalsHaveRows == \A g \in signals : g.live => g.day \in Days /\ LiveRow(g.stock, g.day)

BoardInv == BoardTypes /\ LeftIsRebuilt /\ SignalsHaveRows

\* A run rates what has bars, and stores it under the last close or its own day.
RunRates(rows) == Stocks \ Held \subseteq DOMAIN rows /\ DOMAIN rows \subseteq Stocks

LEMMA RunStores ==
    ASSUME run
    PROVE  /\ UNCHANGED <<today, tape, rebuild>>
           /\ \E day \in {LastOf(Closes(today)), today} : \E rows :
                 LastOf(Closes(today)) # 0 /\ RunRates(rows) /\ StoreRatings(day, rows)
<1>1. PICK bars \in {Stocks, Stocks \ Held}, first \in Loads, spy \in BOOLEAN : run!(bars, first, spy)
  BY DEF run
<1> DEFINE known == LastOf(Closes(today))
           day == IF spy THEN known ELSE today
<1>2. known # 0
  BY <1>1
<1>3. \A n, eps, industries : RunRates(rate_universe(n, bars, eps, industries))
  <2>1. \A n, eps, industries : DOMAIN rate_universe(n, bars, eps, industries) = bars
    BY DEF rate_universe
  <2>2. QED BY <2>1, LeadersAssumption DEF RunRates
<1>4. \E rows : RunRates(rows) /\ StoreRatings(day, rows)
  <2> HIDE DEF day
  <2>1. \E eps, industries : StoreRatings(day, rate_universe(known, bars, eps, industries))
    BY <1>1 DEF day
  <2>2. QED BY <1>3, <2>1
<1>5. UNCHANGED <<today, tape, rebuild>>
  BY <1>1
<1>6. day \in {known, today}
  OBVIOUS
<1> HIDE DEF day, known
<1>7. QED BY <1>2, <1>4, <1>5, <1>6 DEF known

LEMMA TheLastClose ==
    ASSUME NEW n \in Nat
    PROVE  /\ LastOf(Closes(n)) \in Nat /\ LastOf(Closes(n)) <= n
           /\ LastOf(Closes(n)) # 0 => LastOf(Closes(n)) \in Closes(n)
           /\ \A d \in Closes(n) : d <= LastOf(Closes(n))
<1> DEFINE C == Closes(n)
<1>1. C \in SUBSET Nat /\ \A d \in C : d < n
  BY CloseDays
<1>2. \A d \in C : d <= n
  BY <1>1
<1> HIDE DEF C
<1>3. C # {} => Max(C) \in C /\ \A d \in C : d <= Max(C)
  BY <1>1, <1>2, LatestOf
<1>4. QED BY <1>1, <1>2, <1>3 DEF LastOf, C

LEMMA RunDay ==
    ASSUME BoardTypes, LastOf(Closes(today)) # 0, NEW day \in {LastOf(Closes(today)), today}
    PROVE  day \in Days /\ \A d \in Nat : d < LastOf(Closes(today)) => d # day
<1>1. LastOf(Closes(today)) \in Nat /\ LastOf(Closes(today)) <= today /\ LastOf(Closes(today)) \in 1..LastMorning
  BY TheLastClose, CloseDays DEF BoardTypes
<1>2. LastMorning \in Nat /\ today \in 1..LastMorning + 1
  BY LeadersAssumption DEF BoardTypes
<1>3. QED BY <1>1, <1>2 DEF Days

LEMMA SignalledIsKept ==
    ASSUME NEW rows, NEW full, NEW recent, NEW s \in new_signals(rows, recent)
    PROVE  s \in history_rows(rows, full)
BY DEF new_signals, history_rows

LEMMA KeptRows ==
    ASSUME NEW rows, NEW full
    PROVE  /\ \A live : DOMAIN Kept(rows, full, live) = history_rows(rows, full)
           /\ \A s \in history_rows(rows, full) : Kept(rows, full, TRUE)[s].live /\ ~Kept(rows, full, FALSE)[s].live
BY DEF Kept

(* What a run and a rebuilding do to the live rows.                          *)
LEMMA RunKeepsLive ==
    ASSUME BoardTypes, NEW day \in Days, NEW rows, StoreRatings(day, rows)
    PROVE  /\ \A s, d : LiveRow(s, d) /\ d \in Days => LiveRow(s, d)'
           /\ \A d \in Days : d # day => history'[d] = history[d]
           /\ \A s \in history_rows(rows, FullOn(day)) : LiveRow(s, day)'
<1> DEFINE new == Kept(rows, FullOn(day), TRUE)
<1>1. history' = [history EXCEPT ![day] = Merged(new, history[day])]
  BY DEF StoreRatings
<1> HIDE DEF new
<1>2. history'[day] = Merged(new, history[day]) /\ \A d \in Days : d # day => history'[d] = history[d]
  BY <1>1 DEF BoardTypes
<1>3. DOMAIN new = history_rows(rows, FullOn(day)) /\ \A s \in DOMAIN new : new[s].live
  BY KeptRows DEF new
<1> DEFINE old == history[day]
           fresh == history'[day]
<1>4. /\ DOMAIN fresh = DOMAIN new \cup DOMAIN old
      /\ \A s \in DOMAIN new : fresh[s] = new[s]
      /\ \A s \in DOMAIN old \ DOMAIN new : fresh[s] = old[s]
  <2>1. fresh = Merged(new, old)
    BY <1>2
  <2> HIDE DEF old, fresh
  <2>2. fresh = [s \in DOMAIN new \cup DOMAIN old |-> IF s \in DOMAIN new THEN new[s] ELSE old[s]]
    BY <2>1 DEF Merged
  <2>3. QED BY <2>2
<1>5. \A s \in DOMAIN new : LiveRow(s, day)'
  BY <1>3, <1>4 DEF LiveRow
<1>6. \A s : LiveRow(s, day) => LiveRow(s, day)'
  BY <1>3, <1>4 DEF LiveRow
<1>7. \A s, d : LiveRow(s, d) /\ d \in Days /\ d # day => LiveRow(s, d)'
  BY <1>2 DEF LiveRow
<1>8. QED BY <1>2, <1>3, <1>5, <1>6, <1>7

LEMMA CloseIsADay == ASSUME NEW n PROVE Closes(n) \subseteq Days
<1>1. LastMorning \in Nat /\ \A d \in Closes(n) : d \in 1..LastMorning
  BY CloseDays, LeadersAssumption
<1>2. QED BY <1>1 DEF Days

RebuiltFull(day) == rebuild.lastFull = 0 \/ day - rebuild.lastFull >= FULL_SNAPSHOT_EVERY_DAYS
Rebuilds(day, rows, new) ==
    /\ history' = [history EXCEPT ![day] = Merged(Kept(rows, RebuiltFull(day), FALSE), @)]
    /\ signals' = {g \in signals : g.day # day \/ g.stock \notin new} \cup {[stock |-> s, day |-> day, live |-> FALSE] : s \in new}
    /\ sectors' = IF sectors[day] = "live" THEN sectors ELSE [sectors EXCEPT ![day] = "rebuilt"]
    /\ rebuild' = [rebuild EXCEPT !.left = @ \ {day}, !.lastFull = IF RebuiltFull(day) THEN day ELSE @,
                                  !.quiet = [s \in Stocks |-> IF s \in new THEN day ELSE @[s]]]

LEMMA BackfillRebuilds ==
    ASSUME BoardInv, backfill
    PROVE  \E day \in rebuild.left : \E rows, new :
              /\ day \in Nat /\ day \in Days /\ \A s : ~LiveRow(s, day)
              /\ DOMAIN rows = Stocks /\ new \subseteq Stocks /\ Rebuilds(day, rows, new)
<1> DEFINE day == Min(rebuild.left)
           quiet == {s \in Stocks : rebuild.quiet[s] # 0 /\ day - rebuild.quiet[s] < SIGNAL_QUIET_DAYS}
           rows == rate_universe(day, Stocks, Stocks, Stocks)
           new == new_signals(rows, quiet)
<1>1. Rebuilds(day, rows, new)
  BY DEF backfill, Rebuilds, RebuiltFull
<1>2. rebuild.left \in SUBSET Nat /\ rebuild.left # {}
  BY DEF backfill, BoardInv, BoardTypes
<1>3. day \in rebuild.left
  BY <1>2, FirstOf
<1>4. DOMAIN rows = Stocks /\ new \subseteq Stocks
  <2>1. DOMAIN rows = Stocks
    BY DEF rate_universe
  <2> HIDE DEF rows
  <2>2. QED BY <2>1 DEF new_signals
<1> HIDE DEF rows, new, day
<1>5. day \in Nat /\ day \in Days /\ \A s : ~LiveRow(s, day)
  BY <1>2, <1>3, CloseIsADay DEF BoardInv, LeftIsRebuilt
<1>6. QED BY <1>1, <1>3, <1>4, <1>5

LEMMA BackfillKeepsLive ==
    ASSUME BoardInv, backfill
    PROVE  /\ rebuild' \in [left : SUBSET Nat, lastFull : Nat, quiet : [Stocks -> Nat], started : BOOLEAN]
           /\ rebuild'.left \subseteq rebuild.left /\ today' = today
           /\ history' = [d \in Days |-> history'[d]] /\ sectors' = [d \in Days |-> sectors'[d]]
           /\ \A s, d : LiveRow(s, d) /\ d \in Days => LiveRow(s, d)'
           /\ \A d \in rebuild'.left : history'[d] = history[d]
           /\ \A d \in Days : sectors[d] = "live" => sectors'[d] = "live"
           /\ \A g \in signals : g.live => g \in signals'
           /\ \A g \in signals' : g.live => g \in signals
<1>0. PICK day \in rebuild.left : \E rows, new :
          /\ day \in Nat /\ day \in Days /\ \A s : ~LiveRow(s, day)
          /\ Rebuilds(day, rows, new)
  BY BackfillRebuilds
<1>1. PICK rows, new :
          /\ day \in Nat /\ day \in Days /\ \A s : ~LiveRow(s, day)
          /\ Rebuilds(day, rows, new)
  BY <1>0
<1>2. Rebuilds(day, rows, new)
  BY <1>1
<1>3. today' = today
  BY DEF backfill
<1>4. history' = [d \in Days |-> history'[d]] /\ \A d \in Days : d # day => history'[d] = history[d]
  BY <1>2 DEF Rebuilds, BoardInv, BoardTypes
<1>5. sectors' = [d \in Days |-> sectors'[d]] /\ \A d \in Days : sectors[d] = "live" => sectors'[d] = "live"
  BY <1>2 DEF Rebuilds, BoardInv, BoardTypes
<1>6. \A s, d : LiveRow(s, d) /\ d \in Days => LiveRow(s, d)'
  BY <1>1, <1>4 DEF LiveRow
<1>7. /\ rebuild' \in [left : SUBSET Nat, lastFull : Nat, quiet : [Stocks -> Nat], started : BOOLEAN]
      /\ rebuild'.left = rebuild.left \ {day}
  <2>1. rebuild \in [left : SUBSET Nat, lastFull : Nat, quiet : [Stocks -> Nat], started : BOOLEAN] /\ day \in Nat
    BY <1>1 DEF BoardInv, BoardTypes
  <2>2. rebuild' = [rebuild EXCEPT !.left = @ \ {day}, !.lastFull = IF RebuiltFull(day) THEN day ELSE @,
                                  !.quiet = [s \in Stocks |-> IF s \in new THEN day ELSE @[s]]]
    BY <1>2 DEF Rebuilds
  <2>3. [s \in Stocks |-> IF s \in new THEN day ELSE rebuild.quiet[s]] \in [Stocks -> Nat]
    BY <2>1
  <2>4. QED BY ONLY <2>1, <2>2, <2>3
<1>8. \A d \in rebuild'.left : d \in Days /\ history'[d] = history[d]
  BY <1>4, <1>7, CloseIsADay DEF BoardInv, LeftIsRebuilt
<1>9. \A g \in signals : g.live => g.day # day
  BY <1>1 DEF BoardInv, SignalsHaveRows
<1>10. \A g \in signals' : g.live => g \in signals
  BY <1>2 DEF Rebuilds
<1>11. \A g \in signals : g.live => g \in signals'
  BY <1>2, <1>9 DEF Rebuilds
<1>12. QED BY <1>3, <1>4, <1>5, <1>6, <1>7, <1>8, <1>10, <1>11

LEMMA BoardStart == ASSUME BoardInit PROVE BoardInv
<1>1. BoardTypes
  BY LeadersAssumption DEF BoardInit, BoardTypes, NotStarted
<1>2. LeftIsRebuilt /\ SignalsHaveRows
  BY DEF BoardInit, NotStarted, LeftIsRebuilt, SignalsHaveRows
<1>3. QED BY <1>1, <1>2 DEF BoardInv

LEMMA RunTypes ==
    ASSUME BoardInv, run
    PROVE  BoardInv' /\ (\A d \in Days : sectors[d] = "live" => sectors'[d] = "live")
           /\ (\A s, d : LiveRow(s, d) /\ d \in Days => LiveRow(s, d)') /\ signals \subseteq signals'
<1>1. today' = today /\ rebuild' = rebuild
  BY RunStores
<1>0. PICK day \in {LastOf(Closes(today)), today} : \E rows : LastOf(Closes(today)) # 0 /\ StoreRatings(day, rows)
  BY RunStores
<1>2. PICK rows : LastOf(Closes(today)) # 0 /\ StoreRatings(day, rows)
  BY <1>0
<1>3. day \in Days /\ \A d \in Nat : d < LastOf(Closes(today)) => d # day
  BY <1>2, RunDay DEF BoardInv
<1>4. /\ \A s, d : LiveRow(s, d) /\ d \in Days => LiveRow(s, d)'
      /\ \A d \in Days : d # day => history'[d] = history[d]
      /\ \A s \in history_rows(rows, FullOn(day)) : LiveRow(s, day)'
  BY <1>2, <1>3, RunKeepsLive DEF BoardInv
<1>5. /\ signals' = signals \cup {[stock |-> s, day |-> day, live |-> TRUE] : s \in new_signals(rows, Recent(day))}
      /\ history' = [history EXCEPT ![day] = Merged(Kept(rows, FullOn(day), TRUE), @)]
      /\ sectors' = [sectors EXCEPT ![day] = "live"]
  BY <1>2 DEF StoreRatings
<1>6. BoardTypes'
  BY <1>1, <1>5 DEF BoardInv, BoardTypes
<1>7. LeftIsRebuilt'
  <2>1. SUFFICES ASSUME NEW d \in rebuild.left
                 PROVE  d \in Closes(today) /\ d < LastOf(Closes(today)) /\ \A s : ~LiveRow(s, d)'
    BY <1>1 DEF LeftIsRebuilt, Closes
  <2>2. d \in Closes(today) /\ d < LastOf(Closes(today)) /\ \A s : ~LiveRow(s, d)
    BY DEF BoardInv, LeftIsRebuilt
  <2>3. d \in Days /\ d \in Nat
    BY <2>2, CloseIsADay, CloseDays
  <2>4. history'[d] = history[d]
    BY <1>3, <1>4, <2>2, <2>3
  <2>5. QED BY <2>2, <2>4 DEF LiveRow
<1>8. SignalsHaveRows'
  <2>1. SUFFICES ASSUME NEW g \in signals', g.live PROVE g.day \in Days /\ LiveRow(g.stock, g.day)'
    BY DEF SignalsHaveRows
  <2>2. CASE g \in signals
    BY <1>4, <2>1, <2>2 DEF BoardInv, SignalsHaveRows
  <2>3. CASE g \notin signals
    <3>1. PICK s \in new_signals(rows, Recent(day)) : g = [stock |-> s, day |-> day, live |-> TRUE]
      BY <1>5, <2>1, <2>3
    <3>2. s \in history_rows(rows, FullOn(day))
      BY SignalledIsKept
    <3>3. g.stock = s /\ g.day = day
      BY <3>1
    <3>4. QED BY <1>3, <1>4, <3>2, <3>3
  <2>4. QED BY <2>2, <2>3
<1>9. \A d \in Days : sectors[d] = "live" => sectors'[d] = "live"
  BY <1>5 DEF BoardInv, BoardTypes
<1>10. QED BY <1>4, <1>5, <1>6, <1>7, <1>8, <1>9 DEF BoardInv

LEMMA LastCloseMovesOn ==
    ASSUME today \in Nat
    PROVE  Closes(today) \subseteq Closes(today + 1) /\ LastOf(Closes(today)) <= LastOf(Closes(today + 1))
<1>1. Closes(today) \subseteq Closes(today + 1)
  BY TomorrowsClose
<1>2. /\ LastOf(Closes(today)) \in Nat /\ LastOf(Closes(today + 1)) \in Nat
      /\ LastOf(Closes(today)) # 0 => LastOf(Closes(today)) \in Closes(today)
      /\ \A d \in Closes(today + 1) : d <= LastOf(Closes(today + 1))
  BY TheLastClose
<1>3. QED BY <1>1, <1>2

LEMMA BoardInvStep == ASSUME BoardInv, [BoardNext]_boardVars PROVE BoardInv'
<1>1. CASE run
  BY <1>1, RunTypes
<1>2. CASE backfill
  <2>1. BoardTypes'
    BY <1>2, BackfillKeepsLive DEF BoardInv, BoardTypes
  <2>2. LeftIsRebuilt'
    <3>1. today' = today /\ rebuild'.left \subseteq rebuild.left /\ \A d \in rebuild'.left : history'[d] = history[d]
      BY <1>2, BackfillKeepsLive
    <3>2. SUFFICES ASSUME NEW d \in rebuild'.left
                   PROVE  d \in Closes(today) /\ d < LastOf(Closes(today)) /\ \A s : ~LiveRow(s, d)'
      BY <3>1 DEF LeftIsRebuilt, Closes
    <3>3. d \in Closes(today) /\ d < LastOf(Closes(today)) /\ \A s : ~LiveRow(s, d)
      BY <3>1 DEF BoardInv, LeftIsRebuilt
    <3>4. QED BY <3>1, <3>3 DEF LiveRow
  <2>3. SignalsHaveRows'
    <3>1. SUFFICES ASSUME NEW g \in signals', g.live PROVE g.day \in Days /\ LiveRow(g.stock, g.day)'
      BY DEF SignalsHaveRows
    <3>2. g \in signals
      BY <1>2, <3>1, BackfillKeepsLive
    <3>3. g.day \in Days /\ LiveRow(g.stock, g.day)
      BY <3>1, <3>2 DEF BoardInv, SignalsHaveRows
    <3>4. QED BY <1>2, <3>3, BackfillKeepsLive
  <2>4. QED BY <2>1, <2>2, <2>3 DEF BoardInv
<1>3. CASE StartBackfill
  <2>1. UNCHANGED <<today, history, signals, sectors>> /\ rebuild' = [NotStarted EXCEPT !.left = ToRebuild, !.started = TRUE]
    BY <1>3 DEF StartBackfill
  <2>2. rebuild' \in [left : SUBSET Nat, lastFull : Nat, quiet : [Stocks -> Nat], started : BOOLEAN] /\ rebuild'.left = ToRebuild
    <3>1. ToRebuild \subseteq Nat
      BY CloseDays DEF ToRebuild
    <3>2. QED BY <2>1, <3>1 DEF NotStarted
  <2>3. \A d \in ToRebuild : d \in Closes(today) /\ d < LastOf(Closes(today)) /\ \A s : ~LiveRow(s, d)
    <3>1. SUFFICES ASSUME NEW d \in ToRebuild PROVE d \in Closes(today) /\ d < LastOf(Closes(today)) /\ \A s : ~LiveRow(s, d)
      OBVIOUS
    <3>2. d \in Closes(today) /\ d # LastOf(Closes(today)) /\ \A s : ~LiveRow(s, d)
      BY DEF ToRebuild, LiveRow
    <3>3. d <= LastOf(Closes(today)) /\ LastOf(Closes(today)) \in Nat /\ d \in Nat
      BY <3>2, TheLastClose, CloseDays DEF BoardInv, BoardTypes
    <3>4. QED BY <3>2, <3>3
  <2>4. BoardTypes' /\ SignalsHaveRows'
    BY <2>1, <2>2 DEF BoardInv, BoardTypes, SignalsHaveRows, LiveRow
  <2>5. LeftIsRebuilt'
    BY <2>1, <2>2, <2>3 DEF LeftIsRebuilt, LiveRow, Closes
  <2>6. QED BY <2>4, <2>5 DEF BoardInv
<1>4. CASE NextMorning
  <2>1. today' = today + 1 /\ UNCHANGED <<history, signals, sectors, rebuild>> /\ today <= LastMorning /\ LastMorning \in Nat
    BY <1>4, LeadersAssumption DEF NextMorning
  <2>2. BoardTypes' /\ SignalsHaveRows'
    BY <2>1 DEF BoardInv, BoardTypes, SignalsHaveRows, LiveRow
  <2>3. LeftIsRebuilt'
    <3>1. SUFFICES ASSUME NEW d \in rebuild.left
                   PROVE  d \in Closes(today + 1) /\ d < LastOf(Closes(today + 1)) /\ \A s : ~LiveRow(s, d)'
      BY <2>1 DEF LeftIsRebuilt, Closes
    <3>2. d \in Closes(today) /\ d < LastOf(Closes(today)) /\ (\A s : ~LiveRow(s, d)) /\ today \in Nat
      BY DEF BoardInv, LeftIsRebuilt, BoardTypes
    <3>3. d \in Nat /\ LastOf(Closes(today)) \in Nat /\ LastOf(Closes(today + 1)) \in Nat
      BY <3>2, CloseDays, TheLastClose
    <3>4. QED BY <2>1, <3>2, <3>3, LastCloseMovesOn DEF LiveRow
  <2>4. QED BY <2>2, <2>3 DEF BoardInv
<1>5. CASE UNCHANGED boardVars
  BY <1>5 DEF boardVars, BoardInv, BoardTypes, LeftIsRebuilt, SignalsHaveRows, LiveRow, Closes
<1>6. QED BY <1>1, <1>2, <1>3, <1>4, <1>5 DEF BoardNext

LiveRowsStay ==
    /\ \A d \in Days : \A s \in DOMAIN history[d] : history[d][s].live => history'[d][s].live
    /\ \A d \in Days : sectors[d] = "live" => sectors'[d] = "live"
    /\ \A g \in signals : g.live => g \in signals'
GradesStay ==
    today' # today => \A g \in signals : signal_scorecard(g).done => signal_scorecard(g)' = signal_scorecard(g)

LEMMA LiveRowsStep == ASSUME BoardInv, [BoardNext]_boardVars PROVE LiveRowsStay
<1>1. \A s, d : LiveRow(s, d) /\ d \in Days => LiveRow(s, d)'
  BY RunTypes, BackfillKeepsLive DEF BoardNext, StartBackfill, NextMorning, boardVars, LiveRow
<1>2. \A d \in Days : sectors[d] = "live" => sectors'[d] = "live"
  BY RunTypes, BackfillKeepsLive DEF BoardNext, StartBackfill, NextMorning, boardVars
<1>3. \A g \in signals : g.live => g \in signals'
  BY RunTypes, BackfillKeepsLive DEF BoardNext, StartBackfill, NextMorning, boardVars
<1>4. QED BY <1>1, <1>2, <1>3 DEF LiveRowsStay, LiveRow

LEMMA GradesStep == ASSUME BoardInv, [BoardNext]_boardVars PROVE GradesStay
<1>1. SUFFICES ASSUME today' # today, NEW g \in signals, signal_scorecard(g).done
               PROVE  signal_scorecard(g)' = signal_scorecard(g)
  BY DEF GradesStay
<1>2. NextMorning
  <2>1. run => today' = today
    BY RunStores
  <2>2. backfill => today' = today
    BY BackfillKeepsLive
  <2>3. QED BY <1>1, <2>1, <2>2 DEF BoardNext, StartBackfill, boardVars
<1>3. today \in Nat /\ today' = today + 1
  BY <1>2 DEF NextMorning, BoardInv, BoardTypes
<1>4. QED BY <1>1, <1>3, GradeStands

-----------------------------------------------------------------------------
(* What is read of the tables.                                              *)
RowsTypes ==
    /\ ratings.asOf \in Nat /\ DOMAIN ratings.rows \subseteq Stocks
    /\ \A d \in Days : DOMAIN history[d] \subseteq Stocks
    /\ \A g \in signals : g.stock \in Stocks /\ g.day \in Days
    /\ seen = [d \in Days |-> seen[d]]

Has(rows, source) == \E s \in DOMAIN rows : rows[s][source]
WholeIsFed == whole => Has(ratings.rows, "eps") /\ Has(ratings.rows, "industry")

\* A day with a full snapshot, by a run or rebuilt, has every stock with bars.
IsWhole(d) == Stocks \ Held \subseteq DOMAIN history[d]
FullDaysAreWhole == \A d \in FullDays : IsWhole(d)
SnapshotIsNear == ratings.asOf # 0 => \E d \in Days : d > ratings.asOf - FULL_SNAPSHOT_EVERY_DAYS /\ IsWhole(d)

\* What a holding was rated on a day is in its history.
SeenIsStored ==
    \A d \in Days : \A t \in Held \cap DOMAIN seen[d] : LiveRow(t, d) /\ history[d][t].composite = seen[d][t]

ReadInv == RowsTypes /\ QuietPeriodHolds /\ WholeIsFed /\ FullDaysAreWhole /\ SnapshotIsNear /\ SeenIsStored

LEMMA ReadStart == ASSUME BoardInit PROVE ReadInv
<1> USE DEF BoardInit
<1>1. RowsTypes /\ WholeIsFed /\ SeenIsStored
  BY DEF RowsTypes, WholeIsFed, SeenIsStored
<1>2. FullDays = {}
  BY DEF FullDays
<1>3. QED BY <1>1, <1>2 DEF ReadInv, QuietPeriodHolds, FullDaysAreWhole, SnapshotIsNear

(* What has some rows of a source keeps some.                                 *)
LEMMA Counted ==
    ASSUME NEW S, IsFiniteSet(S)
    PROVE  Cardinality(S) \in Nat /\ (Cardinality(S) > 0 <=> S # {})
BY FS_CardinalityType, FS_EmptySet

LEMMA SourceStays ==
    ASSUME DOMAIN ratings.rows \subseteq Stocks, NEW rows, DOMAIN rows \subseteq Stocks, shortfall(rows) = {}
    PROVE  /\ Has(ratings.rows, "eps") => Has(rows, "eps")
           /\ Has(ratings.rows, "industry") => Has(rows, "industry")
<1> DEFINE E(r) == {s \in DOMAIN r : r[s].eps}
           I(r) == {s \in DOMAIN r : r[s].industry}
<1>1. /\ IsFiniteSet(E(rows)) /\ IsFiniteSet(I(rows)) /\ IsFiniteSet(E(ratings.rows)) /\ IsFiniteSet(I(ratings.rows))
  <2>1. IsFiniteSet(DOMAIN rows) /\ IsFiniteSet(DOMAIN ratings.rows)
    BY FS_Subset, LeadersAssumption
  <2>2. E(rows) \subseteq DOMAIN rows /\ I(rows) \subseteq DOMAIN rows /\ E(ratings.rows) \subseteq DOMAIN ratings.rows /\ I(ratings.rows) \subseteq DOMAIN ratings.rows
    OBVIOUS
  <2> HIDE DEF E, I
  <2>3. QED BY <2>1, <2>2, FS_Subset
<1>2. /\ coverage(rows)["with_eps"] = Cardinality(E(rows)) /\ coverage(rows)["with_industry"] = Cardinality(I(rows))
      /\ coverage(ratings.rows)["with_eps"] = Cardinality(E(ratings.rows))
      /\ coverage(ratings.rows)["with_industry"] = Cardinality(I(ratings.rows))
  BY DEF coverage
<1>3. /\ "with_eps" \in DOMAIN MIN_COVERAGE /\ "with_industry" \in DOMAIN MIN_COVERAGE
      /\ MIN_COVERAGE["with_eps"] = <<1, 2>> /\ MIN_COVERAGE["with_industry"] = <<1, 2>>
  BY DEF MIN_COVERAGE
<1>4. \A k \in DOMAIN MIN_COVERAGE :
        ~(coverage(ratings.rows)[k] > 0 /\ coverage(rows)[k] * MIN_COVERAGE[k][2] < MIN_COVERAGE[k][1] * coverage(ratings.rows)[k])
  BY DEF shortfall
<1> HIDE DEF E, I
<1>5. /\ ~(Cardinality(E(ratings.rows)) > 0 /\ Cardinality(E(rows)) * 2 < 1 * Cardinality(E(ratings.rows)))
      /\ ~(Cardinality(I(ratings.rows)) > 0 /\ Cardinality(I(rows)) * 2 < 1 * Cardinality(I(ratings.rows)))
  BY <1>2, <1>3, <1>4
<1>6. E(ratings.rows) # {} => E(rows) # {}
  BY <1>1, <1>5, Counted
<1>7. I(ratings.rows) # {} => I(rows) # {}
  BY <1>1, <1>5, Counted
<1>8. QED BY <1>6, <1>7 DEF Has, E, I

LEMMA RunMerges ==
    ASSUME BoardTypes, NEW day \in Days, NEW rows, StoreRatings(day, rows)
    PROVE  /\ \A d \in Days : d # day => history'[d] = history[d]
           /\ DOMAIN history'[day] = history_rows(rows, FullOn(day)) \cup DOMAIN history[day]
           /\ \A s \in history_rows(rows, FullOn(day)) :
                 /\ history'[day][s].live /\ history'[day][s].composite = rows[s].composite
                 /\ ~FullOn(day) => ~history'[day][s].full
           /\ \A s \in DOMAIN history[day] \ history_rows(rows, FullOn(day)) : history'[day][s] = history[day][s]
<1> DEFINE full == FullOn(day)
           new == Kept(rows, full, TRUE)
           old == history[day]
           fresh == history'[day]
<1>1. history' = [history EXCEPT ![day] = Merged(new, history[day])]
  BY DEF StoreRatings
<1>2. DOMAIN new = history_rows(rows, full)
  BY DEF Kept
<1>3. \A s \in history_rows(rows, full) : new[s].live /\ new[s].composite = rows[s].composite /\ (~full => ~new[s].full)
  BY DEF Kept, FullOn
<1> HIDE DEF new, full
<1>4. fresh = Merged(new, old) /\ \A d \in Days : d # day => history'[d] = history[d]
  BY <1>1 DEF BoardTypes
<1> HIDE DEF old, fresh
<1>5. fresh = [s \in DOMAIN new \cup DOMAIN old |-> IF s \in DOMAIN new THEN new[s] ELSE old[s]]
  BY <1>4 DEF Merged
<1>6. /\ DOMAIN fresh = DOMAIN new \cup DOMAIN old
      /\ \A s \in DOMAIN new : fresh[s] = new[s]
      /\ \A s \in DOMAIN old \ DOMAIN new : fresh[s] = old[s]
  BY <1>5
<1>7. /\ DOMAIN fresh = history_rows(rows, full) \cup DOMAIN old
      /\ \A s \in history_rows(rows, full) : fresh[s].live /\ fresh[s].composite = rows[s].composite /\ (~full => ~fresh[s].full)
      /\ \A s \in DOMAIN old \ history_rows(rows, full) : fresh[s] = old[s]
  BY <1>2, <1>3, <1>6
<1>8. QED BY <1>4, <1>7 DEF fresh, old, full

LEMMA DaysAreNumbers == \A d \in Days : d \in Nat /\ d <= LastMorning + 1
BY LeadersAssumption DEF Days

LEMMA LatestFullDay ==
    ASSUME NEW day, ~FullOn(day)
    PROVE  LastOf(FullDays) \in FullDays /\ ~(day - LastOf(FullDays) >= FULL_SNAPSHOT_EVERY_DAYS)
<1> DEFINE F == FullDays
<1>1. F # {} /\ ~(day - LastOf(F) >= FULL_SNAPSHOT_EVERY_DAYS)
  BY DEF FullOn
<1>2. F \in SUBSET Nat /\ (\E b \in Nat : \A d \in F : d <= b)
  <2>1. LastMorning + 1 \in Nat
    BY LeadersAssumption
  <2>2. \A d \in F : d \in Nat /\ d <= LastMorning + 1
    BY DaysAreNumbers DEF FullDays
  <2>3. QED BY <2>1, <2>2
<1> HIDE DEF F
<1>3. Max(F) \in F
  BY <1>1, <1>2, LatestOf
<1>4. QED BY <1>1, <1>3 DEF LastOf, F

LEMMA RunReads == ASSUME BoardInv, ReadInv, run PROVE ReadInv'
<1>0. PICK day \in {LastOf(Closes(today)), today} : \E rows : LastOf(Closes(today)) # 0 /\ RunRates(rows) /\ StoreRatings(day, rows)
  BY RunStores
<1>1. PICK rows : LastOf(Closes(today)) # 0 /\ RunRates(rows) /\ StoreRatings(day, rows)
  BY <1>0
<1>2. day \in Days /\ day \in Nat
  BY <1>1, RunDay, DaysAreNumbers DEF BoardInv
<1> DEFINE H == history_rows(rows, FullOn(day))
<1>3. /\ \A d \in Days : d # day => history'[d] = history[d]
      /\ DOMAIN history'[day] = H \cup DOMAIN history[day]
      /\ \A s \in H : /\ history'[day][s].live /\ history'[day][s].composite = rows[s].composite
                      /\ ~FullOn(day) => ~history'[day][s].full
      /\ \A s \in DOMAIN history[day] \ H : history'[day][s] = history[day][s]
  BY <1>1, <1>2, RunMerges DEF BoardInv
<1>4. H \subseteq DOMAIN rows /\ DOMAIN rows \subseteq Stocks /\ Stocks \ Held \subseteq DOMAIN rows
      /\ (FullOn(day) => H = DOMAIN rows) /\ Held \cap DOMAIN rows \subseteq H
  BY <1>1 DEF RunRates, history_rows
<1> HIDE DEF H
<1>5. /\ ratings' = [asOf |-> day, rows |-> rows]
      /\ signals' = signals \cup {[stock |-> s, day |-> day, live |-> TRUE] : s \in new_signals(rows, Recent(day))}
      /\ seen' = [seen EXCEPT ![day] = Merged([s \in DOMAIN rows |-> rows[s].composite], @)]
      /\ whole' = (whole \/ (DOMAIN rows # {} /\ \A s \in DOMAIN rows : rows[s].eps /\ rows[s].industry))
      /\ shortfall(rows) = {}
  BY <1>1 DEF StoreRatings
<1>6. /\ ratings.asOf \in Nat /\ DOMAIN ratings.rows \subseteq Stocks
      /\ \A d \in Days : DOMAIN history[d] \subseteq Stocks
      /\ \A g \in signals : g.stock \in Stocks /\ g.day \in Days
      /\ seen = [d \in Days |-> seen[d]]
  BY DEF ReadInv, RowsTypes
<1>7. \A g \in signals' : g \in signals \/ (g.day = day /\ g.stock \in Stocks /\ g.stock \in new_signals(rows, Recent(day)))
  <2>1. SUFFICES ASSUME NEW g \in signals', g \notin signals
                 PROVE  g.day = day /\ g.stock \in Stocks /\ g.stock \in new_signals(rows, Recent(day))
    OBVIOUS
  <2>2. PICK s \in new_signals(rows, Recent(day)) : g = [stock |-> s, day |-> day, live |-> TRUE]
    BY <1>5, <2>1
  <2>3. s \in DOMAIN rows
    BY DEF new_signals
  <2>4. QED BY <1>4, <2>2, <2>3
<1>8. RowsTypes'
  BY <1>2, <1>3, <1>4, <1>5, <1>6, <1>7 DEF RowsTypes
<1>9. QuietPeriodHolds'
  <2>1. SUFFICES ASSUME NEW g \in signals', NEW h \in signals', g.live, h.live, g.stock = h.stock, g.day < h.day
                 PROVE  h.day - g.day > SIGNAL_QUIET_DAYS
    BY DEF QuietPeriodHolds
  <2>2. CASE g \in signals /\ h \in signals
    BY <2>1, <2>2 DEF ReadInv, QuietPeriodHolds
  <2>3. \A s \in new_signals(rows, Recent(day)) : s \in Stocks /\ ~\E x \in signals : x.stock = s /\ x.day >= day - SIGNAL_QUIET_DAYS
    BY <1>4 DEF new_signals, Recent
  <2>4. SIGNAL_QUIET_DAYS \in Nat
    BY LeadersAssumption
  <2>5. g.day \in Nat /\ h.day \in Nat
    BY <1>2, <1>6, <1>7, DaysAreNumbers
  <2>6. CASE g \notin signals
    <3>1. g.day = day /\ h \in signals
      BY <1>7, <2>1, <2>5, <2>6
    <3>2. ~(h.day >= day - SIGNAL_QUIET_DAYS)
      BY <1>7, <2>1, <2>3, <2>6, <3>1
    <3>3. QED BY <1>2, <2>1, <2>4, <2>5, <3>1, <3>2
  <2>7. CASE g \in signals /\ h \notin signals
    <3>1. h.day = day
      BY <1>7, <2>7
    <3>2. ~(g.day >= day - SIGNAL_QUIET_DAYS)
      BY <1>7, <2>1, <2>3, <2>7
    <3>3. QED BY <1>2, <2>4, <2>5, <3>1, <3>2
  <2>8. QED BY <2>2, <2>6, <2>7
<1>10. WholeIsFed'
  <2>1. SUFFICES ASSUME whole' PROVE Has(rows, "eps") /\ Has(rows, "industry")
    BY <1>5 DEF WholeIsFed, Has
  <2>2. CASE whole
    BY <1>4, <1>5, <1>6, <2>2, SourceStays DEF ReadInv, WholeIsFed
  <2>3. CASE DOMAIN rows # {} /\ \A s \in DOMAIN rows : rows[s].eps /\ rows[s].industry
    BY <2>3 DEF Has
  <2>4. QED BY <1>5, <2>1, <2>2, <2>3
<1>11. \A d \in Days : IsWhole(d) => IsWhole(d)'
  BY <1>3 DEF IsWhole
<1>12. FullOn(day) => IsWhole(day)'
  BY <1>3, <1>4 DEF IsWhole
<1>13. FullDaysAreWhole'
  <2>1. SUFFICES ASSUME NEW d \in FullDays' PROVE IsWhole(d)'
    BY DEF FullDaysAreWhole
  <2>2. PICK s \in DOMAIN history'[d] : history'[d][s].full
    BY DEF FullDays
  <2>3. d \in Days
    BY DEF FullDays
  <2>4. CASE d = day /\ FullOn(day)
    BY <1>12, <2>4
  <2>5. CASE d # day \/ ~FullOn(day)
    <3>1. s \in DOMAIN history[d] /\ history[d][s].full
      BY <1>3, <2>2, <2>3, <2>5
    <3>2. d \in FullDays
      BY <2>3, <3>1 DEF FullDays
    <3>3. QED BY <1>11, <2>3, <3>2 DEF ReadInv, FullDaysAreWhole
  <2>6. QED BY <2>4, <2>5
<1>14. SnapshotIsNear'
  <2>1. SUFFICES \E d \in Days : d > day - FULL_SNAPSHOT_EVERY_DAYS /\ IsWhole(d)'
    BY <1>5 DEF SnapshotIsNear
  <2>2. FULL_SNAPSHOT_EVERY_DAYS \in Nat \ {0}
    BY LeadersAssumption
  <2>3. CASE FullOn(day)
    <3>1. day > day - FULL_SNAPSHOT_EVERY_DAYS
      BY <1>2, <2>2
    <3>2. QED BY <1>2, <1>12, <2>3, <3>1
  <2>4. CASE ~FullOn(day)
    <3>1. PICK d \in FullDays : ~(day - d >= FULL_SNAPSHOT_EVERY_DAYS)
      BY <2>4, LatestFullDay
    <3>2. d \in Days /\ IsWhole(d)
      BY DEF ReadInv, FullDaysAreWhole, FullDays
    <3>3. d \in Nat /\ IsWhole(d)'
      BY <1>11, <3>2, DaysAreNumbers
    <3>4. d > day - FULL_SNAPSHOT_EVERY_DAYS
      BY <1>2, <2>2, <3>1, <3>3
    <3>5. QED BY <3>2, <3>3, <3>4
  <2>5. QED BY <2>3, <2>4
<1>15. SeenIsStored'
  <2>1. SUFFICES ASSUME NEW d \in Days, NEW t \in Held, t \in DOMAIN seen'[d]
                 PROVE  LiveRow(t, d)' /\ history'[d][t].composite = seen'[d][t]
    BY DEF SeenIsStored
  <2>2. CASE d # day
    <3>1. seen'[d] = seen[d] /\ history'[d] = history[d]
      BY <1>3, <1>5, <1>6, <2>2
    <3>2. QED BY <2>1, <3>1 DEF ReadInv, SeenIsStored, LiveRow
  <2>3. CASE d = day
    <3>1. seen'[day] = Merged([s \in DOMAIN rows |-> rows[s].composite], seen[day])
      BY <1>2, <1>5, <1>6
    <3>2. /\ t \in DOMAIN rows => seen'[day][t] = rows[t].composite
          /\ t \notin DOMAIN rows => t \in DOMAIN seen[day] /\ seen'[day][t] = seen[day][t]
      BY <2>1, <2>3, <3>1 DEF Merged
    <3>3. CASE t \in DOMAIN rows
      <4>1. t \in H
        BY <1>4, <3>3
      <4>2. QED BY <1>3, <2>3, <3>2, <3>3, <4>1 DEF LiveRow
    <3>4. CASE t \notin DOMAIN rows
      <4>1. LiveRow(t, day) /\ history[day][t].composite = seen[day][t]
        BY <1>2, <3>2, <3>4 DEF ReadInv, SeenIsStored
      <4>2. t \in DOMAIN history[day] \ H
        BY <1>4, <3>4, <4>1 DEF LiveRow
      <4>3. QED BY <1>3, <2>3, <3>2, <3>4, <4>1, <4>2 DEF LiveRow
    <3>5. QED BY <3>3, <3>4
  <2>4. QED BY <2>2, <2>3
<1>16. QED BY <1>8, <1>9, <1>10, <1>13, <1>14, <1>15 DEF ReadInv

LEMMA RebuildMerges ==
    ASSUME BoardTypes, NEW day \in Days, NEW rows, NEW new, Rebuilds(day, rows, new)
    PROVE  /\ \A d \in Days : d # day => history'[d] = history[d]
           /\ DOMAIN history'[day] = history_rows(rows, RebuiltFull(day)) \cup DOMAIN history[day]
           /\ \A s \in history_rows(rows, RebuiltFull(day)) : ~RebuiltFull(day) => ~history'[day][s].full
           /\ \A s \in DOMAIN history[day] \ history_rows(rows, RebuiltFull(day)) : history'[day][s] = history[day][s]
<1> DEFINE full == RebuiltFull(day)
           put == Kept(rows, full, FALSE)
           old == history[day]
           fresh == history'[day]
<1>1. history' = [history EXCEPT ![day] = Merged(put, history[day])]
  BY DEF Rebuilds
<1>2. DOMAIN put = history_rows(rows, full)
  BY DEF Kept
<1>3. \A s \in history_rows(rows, full) : ~full => ~put[s].full
  BY DEF Kept, RebuiltFull
<1> HIDE DEF put, full
<1>4. fresh = Merged(put, old) /\ \A d \in Days : d # day => history'[d] = history[d]
  BY <1>1 DEF BoardTypes
<1> HIDE DEF old, fresh
<1>5. fresh = [s \in DOMAIN put \cup DOMAIN old |-> IF s \in DOMAIN put THEN put[s] ELSE old[s]]
  BY <1>4 DEF Merged
<1>6. /\ DOMAIN fresh = DOMAIN put \cup DOMAIN old
      /\ \A s \in DOMAIN put : fresh[s] = put[s]
      /\ \A s \in DOMAIN old \ DOMAIN put : fresh[s] = old[s]
  BY <1>5
<1>7. /\ DOMAIN fresh = history_rows(rows, full) \cup DOMAIN old
      /\ \A s \in history_rows(rows, full) : ~full => ~fresh[s].full
      /\ \A s \in DOMAIN old \ history_rows(rows, full) : fresh[s] = old[s]
  BY <1>2, <1>3, <1>6
<1>8. QED BY <1>4, <1>7 DEF fresh, old, full

LEMMA BackfillReads == ASSUME BoardInv, ReadInv, backfill PROVE ReadInv'
<1>0. PICK day \in rebuild.left : \E rows, new :
          /\ day \in Nat /\ day \in Days /\ \A s : ~LiveRow(s, day)
          /\ DOMAIN rows = Stocks /\ new \subseteq Stocks /\ Rebuilds(day, rows, new)
  BY BackfillRebuilds
<1>1. PICK rows, new :
          /\ day \in Nat /\ day \in Days /\ \A s : ~LiveRow(s, day)
          /\ DOMAIN rows = Stocks /\ new \subseteq Stocks /\ Rebuilds(day, rows, new)
  BY <1>0
<1> DEFINE H == history_rows(rows, RebuiltFull(day))
<1>2. /\ \A d \in Days : d # day => history'[d] = history[d]
      /\ DOMAIN history'[day] = H \cup DOMAIN history[day]
      /\ \A s \in H : ~RebuiltFull(day) => ~history'[day][s].full
      /\ \A s \in DOMAIN history[day] \ H : history'[day][s] = history[day][s]
  BY <1>1, RebuildMerges DEF BoardInv
<1>3. H \subseteq Stocks /\ (RebuiltFull(day) => H = Stocks)
  BY <1>1 DEF history_rows
<1> HIDE DEF H
<1>4. UNCHANGED <<today, ratings, whole, seen>>
  BY DEF backfill
<1>5. signals' = {g \in signals : g.day # day \/ g.stock \notin new} \cup {[stock |-> s, day |-> day, live |-> FALSE] : s \in new}
  BY <1>1 DEF Rebuilds
<1>6. /\ ratings.asOf \in Nat /\ DOMAIN ratings.rows \subseteq Stocks
      /\ \A d \in Days : DOMAIN history[d] \subseteq Stocks
      /\ \A g \in signals : g.stock \in Stocks /\ g.day \in Days
      /\ seen = [d \in Days |-> seen[d]]
  BY DEF ReadInv, RowsTypes
<1>7. \A g \in signals' : g.stock \in Stocks /\ g.day \in Days
  BY <1>1, <1>5, <1>6
<1>8. RowsTypes'
  BY <1>1, <1>2, <1>3, <1>4, <1>6, <1>7 DEF RowsTypes
<1>9. QuietPeriodHolds'
  <2>1. \A g \in signals' : g.live => g \in signals
    BY BackfillKeepsLive
  <2>2. QED BY <2>1 DEF ReadInv, QuietPeriodHolds
<1>10. WholeIsFed'
  BY <1>4 DEF ReadInv, WholeIsFed, Has
<1>11. \A d \in Days : IsWhole(d) => IsWhole(d)'
  BY <1>2 DEF IsWhole
<1>12. FullDaysAreWhole'
  <2>1. SUFFICES ASSUME NEW d \in FullDays' PROVE IsWhole(d)'
    BY DEF FullDaysAreWhole
  <2>2. PICK s \in DOMAIN history'[d] : history'[d][s].full
    BY DEF FullDays
  <2>3. d \in Days
    BY DEF FullDays
  <2>4. CASE d = day /\ RebuiltFull(day)
    BY <1>2, <1>3, <2>4 DEF IsWhole
  <2>5. CASE d # day \/ ~RebuiltFull(day)
    <3>1. s \in DOMAIN history[d] /\ history[d][s].full
      BY <1>2, <2>2, <2>3, <2>5
    <3>2. d \in FullDays
      BY <2>3, <3>1 DEF FullDays
    <3>3. QED BY <1>11, <2>3, <3>2 DEF ReadInv, FullDaysAreWhole
  <2>6. QED BY <2>4, <2>5
<1>13. SnapshotIsNear'
  BY <1>4, <1>11 DEF ReadInv, SnapshotIsNear
<1>14. SeenIsStored'
  <2>1. SUFFICES ASSUME NEW d \in Days, NEW t \in Held, t \in DOMAIN seen[d]
                 PROVE  LiveRow(t, d)' /\ history'[d][t].composite = seen[d][t]
    BY <1>4 DEF SeenIsStored
  <2>2. LiveRow(t, d) /\ history[d][t].composite = seen[d][t]
    BY <2>1 DEF ReadInv, SeenIsStored
  <2>3. history'[d] = history[d]
    BY <1>1, <1>2, <2>2
  <2>4. QED BY <2>2, <2>3 DEF LiveRow
<1>15. QED BY <1>8, <1>9, <1>10, <1>12, <1>13, <1>14 DEF ReadInv

LEMMA ReadInvStep == ASSUME BoardInv, ReadInv, [BoardNext]_boardVars PROVE ReadInv'
<1>1. CASE run
  BY <1>1, RunReads
<1>2. CASE backfill
  BY <1>2, BackfillReads
<1>3. CASE StartBackfill \/ NextMorning \/ UNCHANGED boardVars
  <2>1. UNCHANGED <<ratings, history, signals, whole, seen>>
    BY <1>3 DEF StartBackfill, NextMorning, boardVars
  <2>2. RowsTypes' /\ QuietPeriodHolds' /\ WholeIsFed'
    BY <2>1 DEF ReadInv, RowsTypes, QuietPeriodHolds, WholeIsFed, Has
  <2>3. FullDaysAreWhole' /\ SnapshotIsNear' /\ SeenIsStored'
    BY <2>1 DEF ReadInv, FullDaysAreWhole, FullDays, SnapshotIsNear, IsWhole, SeenIsStored, LiveRow
  <2>4. QED BY <2>2, <2>3 DEF ReadInv
<1>4. QED BY <1>1, <1>2, <1>3 DEF BoardNext

-----------------------------------------------------------------------------
LEMMA SnapshotsAreCounted == ASSUME ReadInv PROVE EveryWeekIsWhole
<1>1. SUFFICES ASSUME ratings.asOf # 0
               PROVE  \E d \in Days : /\ d > ratings.asOf - FULL_SNAPSHOT_EVERY_DAYS
                                     /\ Cardinality(DOMAIN history[d]) >= Cardinality(Stocks) - Cardinality(Held)
  BY DEF EveryWeekIsWhole
<1>2. PICK d \in Days : d > ratings.asOf - FULL_SNAPSHOT_EVERY_DAYS /\ Stocks \ Held \subseteq DOMAIN history[d]
  BY <1>1 DEF ReadInv, SnapshotIsNear, IsWhole
<1> DEFINE D == DOMAIN history[d]
<1>3. IsFiniteSet(Stocks) /\ IsFiniteSet(Held) /\ IsFiniteSet(Stocks \ Held) /\ IsFiniteSet(D)
  <2>1. IsFiniteSet(Stocks) /\ Held \subseteq Stocks /\ Stocks \ Held \subseteq Stocks /\ D \subseteq Stocks
    BY LeadersAssumption DEF ReadInv, RowsTypes
  <2> HIDE DEF D
  <2>2. QED BY <2>1, FS_Subset
<1>4. Cardinality(Stocks \ Held) = Cardinality(Stocks) - Cardinality(Held)
  <2>1. Cardinality(Stocks \ Held) = Cardinality(Stocks) - Cardinality(Stocks \cap Held)
    BY <1>3, FS_Difference
  <2>2. Stocks \cap Held = Held
    BY LeadersAssumption
  <2>3. QED BY <2>1, <2>2
<1>5. Cardinality(Stocks \ Held) <= Cardinality(D)
  <2>1. Stocks \ Held \subseteq D
    BY <1>2
  <2> HIDE DEF D
  <2>2. QED BY <1>3, <2>1, FS_Subset
<1>6. Cardinality(D) \in Nat /\ Cardinality(Stocks) \in Nat /\ Cardinality(Held) \in Nat
  <2> HIDE DEF D
  <2>1. QED BY <1>3, FS_CardinalityType
<1>7. Cardinality(D) >= Cardinality(Stocks) - Cardinality(Held)
  BY <1>4, <1>5, <1>6
<1>8. QED BY <1>2, <1>7

LEMMA FallsFollow == ASSUME BoardInv, ReadInv PROVE FallsAreTold
<1>1. SUFFICES ASSUME NEW t \in Held \cap DOMAIN ratings.rows
      PROVE LET past == {d \in Days : today - DROP_WINDOW_DAYS - DROP_SLACK <= d /\ d <= today - DROP_WINDOW_DAYS /\ t \in DOMAIN seen[d]}
            IN  /\ past # {} /\ seen[Max(past)][t] - ratings.rows[t].composite >= 25
                /\ \A d \in Max(past) + 1..today - DROP_WINDOW_DAYS : t \notin DOMAIN history[d]
                => t \in holding_checks
  BY DEF FallsAreTold
<1> DEFINE W == {d \in Days : today - DROP_WINDOW_DAYS - DROP_SLACK <= d /\ d <= today - DROP_WINDOW_DAYS}
           past == {d \in Days : today - DROP_WINDOW_DAYS - DROP_SLACK <= d /\ d <= today - DROP_WINDOW_DAYS /\ t \in DOMAIN seen[d]}
           told == {d \in Days : today - DROP_WINDOW_DAYS - DROP_SLACK <= d /\ d <= today - DROP_WINDOW_DAYS /\ t \in DOMAIN history[d]}
<1>2. SUFFICES ASSUME past # {}, seen[Max(past)][t] - ratings.rows[t].composite >= 25,
                      \A d \in Max(past) + 1..today - DROP_WINDOW_DAYS : t \notin DOMAIN history[d]
               PROVE  t \in holding_checks
  OBVIOUS
<1>3. past \in SUBSET Nat /\ told \in SUBSET Nat /\ \E b \in Nat : (\A d \in past : d <= b) /\ (\A d \in told : d <= b)
  <2>1. \A d \in past \cup told : d \in Nat /\ d <= LastMorning + 1
    BY DaysAreNumbers
  <2>2. LastMorning + 1 \in Nat
    BY LeadersAssumption
  <2> HIDE DEF past, told
  <2>3. QED BY <2>1, <2>2
<1>4. Max(past) \in past
  <2> HIDE DEF past, told
  <2>1. QED BY <1>2, <1>3, LatestOf
<1>5. PICK m \in past : m = Max(past)
  BY <1>4
<1>6. m \in Days /\ m \in Nat /\ t \in DOMAIN history[m] /\ history[m][t].composite = seen[m][t]
  BY DaysAreNumbers DEF ReadInv, SeenIsStored, LiveRow
<1>7. m \in told
  BY <1>6
<1>8. \A d \in told : d <= m
  <2>1. SUFFICES ASSUME NEW d \in told, ~(d <= m) PROVE FALSE
    OBVIOUS
  <2>2. d \in Nat /\ d <= today - DROP_WINDOW_DAYS /\ t \in DOMAIN history[d] /\ today - DROP_WINDOW_DAYS \in Int
    BY DaysAreNumbers, LeadersAssumption DEF BoardInv, BoardTypes
  <2>3. d \in m + 1..today - DROP_WINDOW_DAYS
    BY <1>6, <2>1, <2>2
  <2>4. QED BY <1>2, <1>5, <2>2, <2>3
<1>9. Max(told) = m
  <2> HIDE DEF past, told
  <2>1. Max(told) \in told /\ \A d \in told : d <= Max(told)
    BY <1>3, <1>7, LatestOf
  <2>2. Max(told) \in Nat /\ m \in Nat
    BY <1>3, <1>6, <2>1
  <2>3. QED BY <1>7, <1>8, <2>1, <2>2
<1>10. told # {} /\ history[Max(told)][t].composite - ratings.rows[t].composite >= 25
  BY <1>2, <1>5, <1>6, <1>7, <1>9
<1>11. QED BY <1>1, <1>10 DEF holding_checks

LEMMA GradesCompare == ComparedFairly
<1>1. SUFFICES ASSUME NEW g \in signals, ScoreIn(Closes(today), g).done,
                      {<<"SPY", d>> : d \in {g.day, Max(ScoreIn(Closes(today), g).mine)}} \cap Unpriced = {}
               PROVE  ScoreIn(Closes(today), g).mine = ScoreIn(Closes(today), g).spy
  BY ScoreForm DEF ComparedFairly
<1> DEFINE C == Closes(today)
           T == Till(C, g.day, HORIZON)
           n == ForwardIn(C, g.stock, g.day, HORIZON)
<1>2. C \in SUBSET Nat /\ IsFiniteSet(C) /\ LastMorning \in Nat /\ \A d \in C : d <= LastMorning
  BY CloseDays, LeadersAssumption
<1> HIDE DEF C
<1>3. ScoreIn(C, g).mine = n /\ ScoreIn(C, g).spy = ForwardIn(C, "SPY", g.day, Cardinality(n))
  BY DEF ScoreIn
<1>4. Cardinality(n) >= HORIZON
  BY <1>1, DoneIsWhole DEF C
<1>5. n = T /\ Cardinality(n) = HORIZON /\ g.day \in C
  BY <1>2, <1>4, WholeForward
<1>6. T # {} /\ Max(T) \in T /\ \A d \in T : d <= Max(T)
  <2>1. T \in SUBSET Nat /\ \A d \in T : d <= LastMorning
    BY <1>2 DEF Till
  <2>2. T # {}
    BY <1>5, FS_EmptySet, LeadersAssumption
  <2> HIDE DEF T
  <2>3. QED BY <1>2, <2>1, <2>2, LatestOf
<1>7. <<"SPY", g.day>> \notin Unpriced /\ <<"SPY", Max(T)>> \notin Unpriced
  BY <1>1, <1>3, <1>5 DEF C
<1> DEFINE P == {x \in T : <<"SPY", x>> \notin Unpriced}
<1>8. LastOf(P) = Max(T)
  <2>1. Max(T) \in P /\ \A d \in P : d <= Max(T)
    BY <1>6, <1>7
  <2>2. P \in SUBSET Nat
    BY <1>2 DEF Till
  <2> HIDE DEF P
  <2>3. Max(P) \in P /\ \A d \in P : d <= Max(P)
    <3>1. Max(T) \in Nat
      BY <2>1, <2>2
    <3>2. QED BY <2>1, <2>2, <3>1, LatestOf
  <2>4. Max(P) = Max(T)
    <3> HIDE DEF T
    <3>1. PICK i \in Nat, j \in Nat : i = Max(P) /\ j = Max(T)
      BY <2>1, <2>2, <2>3
    <3>2. i <= j /\ j <= i
      BY <2>1, <2>3, <3>1
    <3>3. i = j
      BY <3>2
    <3>4. QED BY <3>1, <3>3
  <2>5. QED BY <2>1, <2>4 DEF LastOf
<1>9. UpToPrice("SPY", T) = T
  <2> HIDE DEF T
  <2>1. QED BY <1>6, <1>8 DEF UpToPrice
<1>10. ForwardIn(C, "SPY", g.day, HORIZON) = T
  BY <1>5, <1>7, <1>9 DEF ForwardIn
<1>11. QED BY <1>3, <1>5, <1>10 DEF C

LEMMA BoardReads == ASSUME BoardInv, ReadInv PROVE BoardIsSound
<1>1. FedLeadersAreWhole
  BY DEF ReadInv, WholeIsFed, Has, FedLeadersAreWhole
<1>2. QED BY <1>1, SnapshotsAreCounted, FallsFollow, GradesCompare DEF BoardIsSound, ReadInv

-----------------------------------------------------------------------------
(* What is graded.                                                          *)
LEMMA SessionsAreDays == Sessions \in SUBSET Nat /\ LastDay \in Nat /\ \A s \in Sessions : s <= LastDay
BY GradeAssumption DEF Sessions

LEMMA TwoClosesMeasure ==
    ASSUME tick \in Nat, NEW d \in Decisions, NEW h \in Nat, Age(d) >= h,
           NEW s \in Trades(d.ticker), NEW r \in Trades(d.ticker), d.day <= s, s < r, r < d.day + h
    PROVE  \E row \in Measure(d, h) : row.horizon = h
<1> DEFINE till == IF d.day + h < LastBar THEN d.day + h ELSE LastBar
           mine == Trades(d.ticker) \cap (d.day..till)
           all == Sessions \cap (d.day..till)
<1>1. d.day \in Nat /\ Day \in Nat /\ LastBar \in Int /\ LastBar >= Day - 1
  BY GradeAssumption, DayIsADay, LastBarIsNear
<1>2. mine \subseteq all /\ all \in SUBSET Nat /\ s \in Nat /\ r \in Nat
  BY SessionsAreDays DEF Trades
<1>3. till \in Int /\ r <= till
  <2>1. d.day + h <= Day
    BY <1>1 DEF Age
  <2>2. r <= LastBar
    BY <1>1, <1>2, <2>1
  <2>3. QED BY <1>1, <1>2, <2>2
<1> HIDE DEF till
<1>4. s \in mine /\ r \in mine
  BY <1>1, <1>2, <1>3
<1>5. \E b \in Nat : (\A x \in mine : x <= b) /\ (\A x \in all : x <= b)
  BY SessionsAreDays DEF Trades
<1> DEFINE o == <<Min(mine), Max(mine)>>
           y == <<Min(all), Max(all)>>
<1>6. Min(mine) < Max(mine)
  <2> HIDE DEF mine, all
  <2>1. Min(mine) \in mine /\ Min(mine) <= s
    BY <1>2, <1>4, FirstOf
  <2>2. Max(mine) \in mine /\ r <= Max(mine)
    BY <1>2, <1>4, <1>5, LatestOf
  <2>3. PICK m \in Nat, n \in Nat : m = Min(mine) /\ n = Max(mine)
    BY <1>2, <2>1, <2>2
  <2>4. m <= s /\ s < r /\ r <= n /\ s \in Nat /\ r \in Nat
    BY <1>2, <2>1, <2>2, <2>3
  <2>5. m < n
    BY ONLY <2>4, m \in Nat, n \in Nat
  <2>6. QED BY <2>3, <2>5
<1>7. mine # {} /\ all # {}
  BY <1>2, <1>4
<1>8. FirstAndLast(Trades(d.ticker), d.day, d.day + h) = {o}
  BY <1>7 DEF FirstAndLast, till
<1>9. FirstAndLast(Sessions, d.day, d.day + h) = {y}
  BY <1>7 DEF FirstAndLast, till
<1> HIDE DEF mine, all
<1>10. o[1] < o[2]
  BY <1>6
<1> HIDE DEF o, y
<1>11. [horizon |-> h, own |-> o, spy |-> y] \in Measure(d, h)
  BY <1>8, <1>9, <1>10 DEF Measure
<1>12. QED BY <1>11

LEMMA TheTradedAreMeasured == ASSUME tick \in Nat PROVE NothingIsDropped
<1>1. SUFFICES ASSUME NEW d \in Oldest
               PROVE /\ Rows(d) # {} \/ d \in Unmeasurable
                     /\ \A h \in Finished(d) :
                          (\E s, r \in Trades(d.ticker) : d.day <= s /\ s < r /\ r < d.day + h) => \E row \in Rows(d) : row.horizon = h
  BY DEF NothingIsDropped
<1>2. Rows(d) # {} \/ d \in Unmeasurable
  BY DEF Unmeasurable
<1>3. SUFFICES ASSUME NEW h \in Finished(d), NEW s \in Trades(d.ticker), NEW r \in Trades(d.ticker),
                      d.day <= s, s < r, r < d.day + h
               PROVE  \E row \in Rows(d) : row.horizon = h
  BY <1>2
<1>4. d \in Decisions /\ h \in Horizons /\ h \in Nat /\ Age(d) >= h
  BY GradeAssumption DEF Oldest, Made, Finished
<1>5. PICK row \in Measure(d, h) : row.horizon = h
  BY <1>3, <1>4, TwoClosesMeasure
<1>6. ~Young(d)
  <2>1. Horizons \in SUBSET Nat
    BY GradeAssumption
  <2>2. Min(Horizons) \in Nat /\ Min(Horizons) <= h
    BY <1>4, <2>1, FirstOf
  <2>3. Age(d) \in Int
    <3>1. d.day \in Nat
      BY <1>4, GradeAssumption, Zenon
    <3>2. Day \in Nat
      BY DayIsADay
    <3>3. QED BY <3>1, <3>2 DEF Age
  <2>4. QED BY <1>4, <2>2, <2>3 DEF Young
<1>7. row \in Rows(d)
  BY <1>5, <1>6 DEF Rows
<1>8. QED BY <1>5, <1>7

-----------------------------------------------------------------------------
(* What the labelling and the record keep.                                    *)
Told == \A d \in Made, h \in HORIZONS :
            Gate(d, h) /\ (\E w \in Prices(d, h) : w.exit < Day) => labelled[d, h] # Nothing

GradeInv ==
    /\ tick \in Nat
    /\ close = [t \in Tickers |-> close[t]] /\ RecordedAfterTheBell
    /\ labelled = [k \in Decisions \X HORIZONS |-> labelled[k]]
    /\ passed \in Nat /\ passed <= Day /\ (passed = Day => Told)

LEMMA GradeStart == ASSUME GradeInit PROVE GradeInv
<1>1. tick = 0 /\ Day = 0 /\ passed = 0
  BY DEF GradeInit, Day
<1>2. \A d \in Made, h \in HORIZONS : ~Gate(d, h)
  <2>1. \A d \in Made, h \in HORIZONS : d.day \in Nat /\ h \in Nat
    BY GradeAssumption DEF Made
  <2>2. QED BY <1>1, <2>1 DEF Gate, Age
<1>3. Told
  BY <1>2 DEF Told
<1>4. QED BY <1>1, <1>3 DEF GradeInv, GradeInit, RecordedAfterTheBell

LEMMA PricesAreDays ==
    ASSUME NEW d, NEW h, NEW w \in Prices(d, h) PROVE w.entry \in Sessions /\ w.exit \in Sessions /\ w.entry \in Nat /\ w.exit \in Nat
BY SessionsAreDays DEF Prices, Trades

LEMMA LabelTells == ASSUME GradeInv, Label PROVE GradeInv'
<1>1. tick' = tick /\ close' = close /\ passed' = Day
  BY DEF Label
<1>2. Day' = Day /\ Day \in Nat /\ LastBar' = LastBar
  BY <1>1, DayIsADay DEF Day, LastBar, GradeInv
<1>3. Made' = Made /\ RecordedAfterTheBell'
  BY <1>1, <1>2 DEF Made, GradeInv, RecordedAfterTheBell
<1>4. labelled' = [k \in Decisions \X HORIZONS |-> labelled'[k]]
  BY DEF Label
<1>5. ASSUME NEW d \in Made, NEW h \in HORIZONS, Gate(d, h), Prices(d, h) # {} PROVE labelled'[d, h] # Nothing
  <2>1. <<d, h>> \in Decisions \X HORIZONS
    BY DEF Made
  <2>2. CASE labelled[d, h] # Nothing
    BY <2>1, <2>2 DEF Label
  <2>3. CASE labelled[d, h] = Nothing
    <3> DEFINE w == CHOOSE v \in Prices(d, h) : TRUE
               final == IsFinal(w.exit)
    <3>1. labelled'[d, h] = [entry |-> w.entry, exit |-> w.exit, final |-> final]
      BY <1>5, <2>1, <2>3 DEF Label
    <3>2. w.entry \in Nat /\ w.exit \in Nat
      <4>1. w \in Prices(d, h)
        BY <1>5
      <4> HIDE DEF w
      <4>2. QED BY <4>1, PricesAreDays
    <3>3. final \in BOOLEAN
      BY DEF IsFinal
    <3> HIDE DEF w, final
    <3>4. [entry |-> w.entry, exit |-> w.exit, final |-> final] \in [entry : Nat, exit : Nat, final : BOOLEAN]
      BY <3>2, <3>3
    <3>5. Nothing \notin [entry : Nat, exit : Nat, final : BOOLEAN]
      BY GradeAssumption
    <3>6. QED BY <3>1, <3>4, <3>5, Zenon
  <2>4. QED BY <2>2, <2>3
<1>6. Told'
  <2>1. SUFFICES ASSUME NEW d \in Made, NEW h \in HORIZONS, Gate(d, h)', (\E w \in Prices(d, h) : w.exit < Day)'
                 PROVE  labelled'[d, h] # Nothing
    BY <1>3 DEF Told
  <2>2. Gate(d, h)
    BY <1>2, <2>1 DEF Gate, Age
  <2>3. Prices(d, h)' = Prices(d, h)
    BY <1>2 DEF Prices, Window
  <2>4. Prices(d, h) # {}
    BY <2>1, <2>3
  <2>5. QED BY <1>5, <2>2, <2>4
<1>7. QED BY <1>1, <1>2, <1>3, <1>4, <1>6 DEF GradeInv

LEMMA RecordTells == ASSUME GradeInv, RecordPrices PROVE GradeInv'
<1>1. UNCHANGED <<tick, labelled, passed>> /\ tick \in Nat
  BY DEF RecordPrices, GradeInv
<1>2. Day' = Day /\ LastBar' = LastBar
  BY <1>1 DEF Day, LastBar
<1>3. Told => Told'
  BY <1>1, <1>2 DEF Told, Made, Gate, Age, Prices, Window
<1>4. ~InSession
  BY DEF RecordPrices, IsClosed, InSession
<1>5. PICK got \in SUBSET MissingToday, lag \in {0, 1} : close' = [t \in Tickers |-> IF t \in got THEN [bar |-> Max(Bars(t, lag)), final |-> ~InSession] ELSE close[t]]
  BY DEF RecordPrices
<1>6. close' = [t \in Tickers |-> close'[t]]
  BY <1>5
<1>7. RecordedAfterTheBell'
  <2>1. SUFFICES ASSUME NEW t \in Tickers, close'[t] # Nothing PROVE close'[t].final
    BY DEF RecordedAfterTheBell
  <2>2. CASE t \in got
    <3> DEFINE b == Max(Bars(t, lag))
               f == ~InSession
    <3>1. close'[t] = [bar |-> b, final |-> f]
      BY <1>5, <2>2
    <3>2. f
      BY <1>4
    <3> HIDE DEF b, f
    <3>3. close'[t].final = f
      BY <3>1
    <3>4. QED BY <3>2, <3>3, Zenon
  <2>3. CASE t \notin got
    <3>1. close'[t] = close[t]
      BY <1>5, <2>3
    <3>2. close[t].final
      BY <2>1, <3>1 DEF GradeInv, RecordedAfterTheBell
    <3>3. QED BY <3>1, <3>2, Zenon
  <2>4. QED BY <2>2, <2>3
<1>8. QED BY <1>1, <1>2, <1>3, <1>6, <1>7 DEF GradeInv

LEMMA TimeTells == ASSUME GradeInv, NextPart PROVE GradeInv'
<1>1. tick' \in Nat /\ Day <= Day' /\ Day \in Nat /\ Day' \in Nat /\ (tick % 3 = 2 => Day < Day')
  BY TheDayMovesOn, DayIsADay, NextDayIsADay DEF GradeInv
<1>2. UNCHANGED <<labelled, passed>>
  BY DEF NextPart
<1>3. close' = [t \in Tickers |-> close'[t]] /\ RecordedAfterTheBell'
  BY DEF NextPart, GradeInv, RecordedAfterTheBell
<1>4. passed' \in Nat /\ passed' <= Day'
  BY <1>1, <1>2 DEF GradeInv
<1>5. ASSUME passed' = Day' PROVE Told'
  <2>1. Day' = Day /\ passed = Day /\ Told
    BY <1>1, <1>2, <1>5 DEF GradeInv
  <2>2. Made' = Made /\ \A d, h : Gate(d, h)' = Gate(d, h)
    BY <2>1 DEF Made, Gate, Age
  <2>3. SUFFICES ASSUME NEW d \in Made, NEW h \in HORIZONS, Gate(d, h), NEW w \in Prices(d, h)', w.exit < Day
                 PROVE  labelled[d, h] # Nothing
    BY <1>2, <2>1, <2>2 DEF Told
  <2>4. w.exit \in Nat
    <3>1. w.exit \in Sessions
      BY DEF Prices, Trades
    <3>2. QED BY <3>1, SessionsAreDays
  <2>5. w.exit <= LastBar
    BY <1>1, <2>3, <2>4, LastBarIsNear DEF GradeInv
  <2>6. w \in Prices(d, h)
    BY <2>5 DEF Prices, Window
  <2>7. QED BY <2>1, <2>3, <2>6 DEF Told
<1>6. QED BY <1>1, <1>2, <1>3, <1>4, <1>5 DEF GradeInv

LEMMA GradeInvStep == ASSUME GradeInv, [GradeNext]_gradeVars PROVE GradeInv'
<1>1. CASE UNCHANGED gradeVars
  BY <1>1 DEF gradeVars, GradeInv, RecordedAfterTheBell, Told, Made, Gate, Age, Prices, Window, LastBar, Day
<1>2. QED BY <1>1, LabelTells, RecordTells, TimeTells DEF GradeNext

-----------------------------------------------------------------------------
(* Five days of a week are weekdays.                                         *)
WeekdaysBefore(n) == 5 * ((n + FirstWeekday) \div 7) + (IF (n + FirstWeekday) % 7 < 5 THEN (n + FirstWeekday) % 7 ELSE 5)
WeekdaysIn(a, b) == {x \in Nat : a < x /\ x <= b /\ IsWeekday(x)}

LEMMA SevenDays == ASSUME NEW n \in Nat PROVE n \div 7 \in Nat /\ n % 7 \in 0..6 /\ n = 7 * (n \div 7) + (n % 7)
OBVIOUS

LEMMA FiveOfSeven ==
    ASSUME NEW n \in Nat
    PROVE  /\ WeekdaysBefore(n) \in Nat
           /\ 5 * (n + FirstWeekday) <= 7 * WeekdaysBefore(n) /\ 7 * WeekdaysBefore(n) <= 5 * (n + FirstWeekday) + 10
           /\ WeekdaysBefore(n + 1) = WeekdaysBefore(n) + (IF IsWeekday(n) THEN 1 ELSE 0)
<1> DEFINE m == n + FirstWeekday
           q == m \div 7
           r == m % 7
<1>1. m \in Nat /\ FirstWeekday \in Nat
  BY GradeAssumption
<1> HIDE DEF m
<1>2. q \in Nat /\ r \in 0..6 /\ m = 7 * q + r
  BY <1>1, SevenDays
<1>3. (m + 1) \div 7 = (IF r = 6 THEN q + 1 ELSE q) /\ (m + 1) % 7 = (IF r = 6 THEN 0 ELSE r + 1)
  BY <1>1
<1>4. WeekdaysBefore(n) = 5 * q + (IF r < 5 THEN r ELSE 5) /\ (IsWeekday(n) <=> r < 5)
  BY DEF WeekdaysBefore, IsWeekday, m
<1>5. WeekdaysBefore(n + 1) = 5 * ((m + 1) \div 7) + (IF (m + 1) % 7 < 5 THEN (m + 1) % 7 ELSE 5)
  <2>1. n + 1 + FirstWeekday = m + 1
    BY <1>1 DEF m
  <2>2. QED BY <2>1 DEF WeekdaysBefore
<1> DEFINE p == (m + 1) \div 7
           t == (m + 1) % 7
<1> HIDE DEF q, r, p, t
<1>6. WeekdaysBefore(n) \in Nat /\ 5 * m <= 7 * WeekdaysBefore(n) /\ 7 * WeekdaysBefore(n) <= 5 * m + 10
  BY <1>2, <1>4
<1>7. WeekdaysBefore(n + 1) = WeekdaysBefore(n) + (IF IsWeekday(n) THEN 1 ELSE 0)
  <2>1. p = (IF r = 6 THEN q + 1 ELSE q) /\ t = (IF r = 6 THEN 0 ELSE r + 1)
    BY <1>3 DEF p, t, q, r
  <2>2. WeekdaysBefore(n + 1) = 5 * p + (IF t < 5 THEN t ELSE 5)
    BY <1>5 DEF p, t
  <2>3. CASE r = 6
    BY <1>2, <1>4, <2>1, <2>2, <2>3
  <2>4. CASE r = 5
    BY <1>2, <1>4, <2>1, <2>2, <2>4
  <2>5. CASE r < 5
    <3>1. p = q /\ t = r + 1 /\ WeekdaysBefore(n) = 5 * q + r /\ IsWeekday(n)
      BY <1>2, <1>4, <2>1, <2>5
    <3>2. (IF t < 5 THEN t ELSE 5) = r + 1
      BY <1>2, <2>5, <3>1
    <3>3. QED BY <1>2, <2>2, <3>1, <3>2
  <2>6. QED BY <1>2, <2>3, <2>4, <2>5
<1>8. QED BY <1>6, <1>7 DEF m

LEMMA WeekdaysAreCounted ==
    ASSUME NEW a \in Nat, NEW b \in Nat, a <= b
    PROVE  IsFiniteSet(WeekdaysIn(a, b)) /\ Cardinality(WeekdaysIn(a, b)) = WeekdaysBefore(b + 1) - WeekdaysBefore(a + 1)
<1> DEFINE Exact(c) == IsFiniteSet(WeekdaysIn(a, c)) /\ Cardinality(WeekdaysIn(a, c)) = WeekdaysBefore(c + 1) - WeekdaysBefore(a + 1)
           Bad == {c \in Nat : a <= c /\ ~Exact(c)}
<1>1. SUFFICES ASSUME Bad # {} PROVE FALSE
  OBVIOUS
<1>2. PICK c \in Bad : \A d \in Bad : c <= d
  <2>1. Bad \in SUBSET Nat
    OBVIOUS
  <2> HIDE DEF Bad
  <2>2. QED BY <1>1, <2>1, LeastNumber
<1>3. c \in Nat /\ a <= c /\ ~Exact(c)
  BY <1>2
<1>4. c # a
  <2>1. WeekdaysIn(a, a) = {}
    BY DEF WeekdaysIn
  <2>2. WeekdaysBefore(a + 1) \in Nat
    BY FiveOfSeven
  <2>3. Exact(a)
    BY <2>1, <2>2, FS_EmptySet
  <2>4. QED BY <1>3, <2>3
<1>5. c - 1 \in Nat /\ a <= c - 1 /\ Exact(c - 1)
  <2>1. c - 1 \in Nat /\ a <= c - 1 /\ ~(c <= c - 1)
    BY <1>3, <1>4
  <2>2. c - 1 \notin Bad
    BY <1>2, <2>1
  <2>3. QED BY <2>1, <2>2
<1> DEFINE S == WeekdaysIn(a, c - 1)
           T == WeekdaysIn(a, c)
<1>6. WeekdaysBefore(c + 1) = WeekdaysBefore(c) + (IF IsWeekday(c) THEN 1 ELSE 0) /\ WeekdaysBefore(c) \in Nat /\ WeekdaysBefore(a + 1) \in Nat
  BY <1>3, FiveOfSeven
<1>7. IsFiniteSet(S) /\ Cardinality(S) = WeekdaysBefore(c) - WeekdaysBefore(a + 1)
  <2>1. (c - 1) + 1 = c
    BY <1>3
  <2>2. QED BY <1>5, <2>1
<1>8. c \notin S /\ T = IF IsWeekday(c) THEN S \cup {c} ELSE S
  <2>1. \A x \in Nat : x <= c <=> x <= c - 1 \/ x = c
    BY <1>3
  <2>2. a < c /\ ~(c <= c - 1)
    BY <1>3, <1>4
  <2>3. QED BY <1>3, <2>1, <2>2 DEF WeekdaysIn
<1> HIDE DEF S, T
<1>9. IsFiniteSet(T) /\ Cardinality(T) = WeekdaysBefore(c + 1) - WeekdaysBefore(a + 1)
  <2>1. CASE IsWeekday(c)
    <3>1. IsFiniteSet(S \cup {c}) /\ Cardinality(S \cup {c}) = Cardinality(S) + 1
      BY <1>7, <1>8, FS_AddElement
    <3>2. QED BY <1>6, <1>7, <1>8, <2>1, <3>1
  <2>2. CASE ~IsWeekday(c)
    BY <1>6, <1>7, <1>8, <2>2
  <2>3. QED BY <2>1, <2>2
<1>10. QED BY <1>3, <1>9 DEF T

LEMMA WeekdaysAreDense ==
    ASSUME NEW a \in Nat, NEW b \in Nat, a <= b
    PROVE  /\ IsFiniteSet(WeekdaysIn(a, b)) /\ Cardinality(WeekdaysIn(a, b)) \in Nat
           /\ 7 * Cardinality(WeekdaysIn(a, b)) <= 5 * (b - a) + 10
           /\ 5 * (b - a) - 10 <= 7 * Cardinality(WeekdaysIn(a, b))
<1>1. FirstWeekday \in Nat
  BY GradeAssumption
<1> DEFINE x == WeekdaysBefore(a + 1)
           y == WeekdaysBefore(b + 1)
<1>2. /\ x \in Nat /\ 5 * (a + 1 + FirstWeekday) <= 7 * x /\ 7 * x <= 5 * (a + 1 + FirstWeekday) + 10
      /\ y \in Nat /\ 5 * (b + 1 + FirstWeekday) <= 7 * y /\ 7 * y <= 5 * (b + 1 + FirstWeekday) + 10
  BY FiveOfSeven
<1>3. IsFiniteSet(WeekdaysIn(a, b)) /\ Cardinality(WeekdaysIn(a, b)) = y - x /\ Cardinality(WeekdaysIn(a, b)) \in Nat
  BY WeekdaysAreCounted, FS_CardinalityType
<1> HIDE DEF x, y
<1>4. 7 * (y - x) <= 5 * (b - a) + 10 /\ 5 * (b - a) - 10 <= 7 * (y - x)
  BY <1>1, <1>2
<1>5. QED BY <1>3, <1>4

(* Whoever is due is past the gate, by the weekdays of the time since.        *)
LEMMA DueIsPastTheGate ==
    ASSUME tick \in Nat, NEW d \in Decisions, NEW e \in Nat, NEW N \in Nat, e + 13 <= Day, d.day <= e,
           Cardinality(WeekdaysIn(d.day, e)) = HORIZON_DAYS + 1
    PROVE  Gate(d, HORIZON_DAYS)
<1>1. d.day \in Nat /\ HORIZON_DAYS \in Nat /\ Day \in Nat
  BY GradeAssumption, DayIsADay
<1>2. 7 * (HORIZON_DAYS + 1) <= 5 * (e - d.day) + 10
  BY <1>1, WeekdaysAreDense
<1>3. 5 * (Day - d.day) >= 7 * (HORIZON_DAYS + 1) + 15
  BY <1>1, <1>2
<1>4. QED BY <1>3 DEF Gate, Age

(* Twelve days more have eight weekdays more, which is all the holidays there  *)
(* are.                                                                     *)
LEMMA SessionsByThen ==
    ASSUME NEW a \in Nat, NEW e \in Nat, a <= e, e + 12 <= LastDay,
           Cardinality({x \in Holidays : a < x /\ x <= e + 12}) <= 8
    PROVE  LET S == {s \in Sessions : a < s /\ s <= e + 12}
           IN  IsFiniteSet(S) /\ Cardinality(S) >= Cardinality(WeekdaysIn(a, e))
<1> DEFINE S == {s \in Sessions : a < s /\ s <= e + 12}
           X == {x \in Holidays : a < x /\ x <= e + 12}
           V == WeekdaysIn(a, e)
           Y == WeekdaysIn(e, e + 12)
           W == WeekdaysIn(a, e + 12)
<1>1. IsFiniteSet(V) /\ IsFiniteSet(Y) /\ IsFiniteSet(W) /\ {Cardinality(V), Cardinality(Y), Cardinality(W)} \subseteq Nat
  <2>1. e \in Nat /\ e + 12 \in Nat /\ e <= e + 12 /\ a <= e + 12
    OBVIOUS
  <2>2. IsFiniteSet(V) /\ Cardinality(V) \in Nat
    BY WeekdaysAreDense
  <2>3. IsFiniteSet(Y) /\ Cardinality(Y) \in Nat
    BY <2>1, WeekdaysAreDense
  <2>4. IsFiniteSet(W) /\ Cardinality(W) \in Nat
    BY <2>1, WeekdaysAreDense
  <2>5. QED BY <2>2, <2>3, <2>4
<1>2. Cardinality(Y) >= 8
  <2>1. 5 * (e + 12 - e) - 10 <= 7 * Cardinality(Y)
    BY WeekdaysAreDense
  <2> HIDE DEF Y
  <2>2. QED BY <1>1, <2>1
<1>3. W = V \cup Y /\ V \cap Y = {}
  BY DEF WeekdaysIn
<1>4. W \ X = S
  <2>1. \A x \in Nat : x <= e + 12 => x \in 0..LastDay
    BY GradeAssumption
  <2>2. QED BY <2>1, SessionsAreDays DEF Sessions, WeekdaysIn
<1>5. IsFiniteSet(X) /\ Cardinality(X) \in Nat
  <2>1. X \subseteq 0..e + 12
    <3>1. Holidays \subseteq Nat
      BY GradeAssumption
    <3>2. \A x \in Nat : x <= e + 12 => x \in 0..e + 12
      OBVIOUS
    <3>3. QED BY <3>1, <3>2
  <2>2. IsFiniteSet(0..e + 12)
    BY FS_Interval
  <2> HIDE DEF X
  <2>3. QED BY <2>1, <2>2, FS_Subset, FS_CardinalityType
<1>6. Cardinality(X) <= 8
  OBVIOUS
<1> HIDE DEF S, X, V, Y, W
<1>7. Cardinality(W) = Cardinality(V) + Cardinality(Y)
  <2>1. Cardinality(V \cup Y) = Cardinality(V) + Cardinality(Y) - Cardinality(V \cap Y)
    BY <1>1, FS_Union
  <2>2. Cardinality(V \cap Y) = 0
    BY <1>3, FS_EmptySet
  <2>3. QED BY <1>1, <1>3, <2>1, <2>2
<1>8. IsFiniteSet(S) /\ Cardinality(S) = Cardinality(W) - Cardinality(W \cap X)
  BY <1>1, <1>4, <1>5, FS_Difference, FS_Subset
<1>9. Cardinality(W \cap X) <= Cardinality(X) /\ Cardinality(W \cap X) \in Nat
  <2>1. W \cap X \subseteq X
    OBVIOUS
  <2>2. QED BY <1>5, <2>1, FS_Subset, FS_CardinalityType
<1>10. Cardinality(S) >= Cardinality(V)
  BY <1>1, <1>2, <1>5, <1>6, <1>7, <1>8, <1>9
<1>11. QED BY <1>8, <1>10 DEF S, V

(* A window of h sessions from the first session on has h + 1 of them.        *)
LEMMA WindowIsCounted ==
    ASSUME NEW a \in Nat, NEW exit \in Sessions, NEW h \in Nat, a < exit,
           NEW entry, entry = Min({s \in Sessions : s > a}), entry < exit,
           Cardinality({r \in Sessions : entry < r /\ r <= exit}) = h
    PROVE  LET S == {s \in Sessions : a < s /\ s <= exit} IN IsFiniteSet(S) /\ Cardinality(S) = h + 1
<1> DEFINE A == {s \in Sessions : s > a}
           R == {r \in Sessions : entry < r /\ r <= exit}
           S == {s \in Sessions : a < s /\ s <= exit}
<1>1. exit \in Nat /\ LastDay \in Nat /\ Sessions \in SUBSET Nat
  BY SessionsAreDays
<1>2. entry \in Sessions /\ entry \in Nat /\ a < entry /\ \A s \in Sessions : s > a => entry <= s
  <2>1. A \in SUBSET Nat /\ A # {}
    BY <1>1
  <2>2. entry = Min(A)
    OBVIOUS
  <2>3. \A s \in A : s \in Sessions /\ s > a
    OBVIOUS
  <2>4. \A s \in Sessions : s > a => s \in A
    OBVIOUS
  <2> HIDE DEF A
  <2>5. entry \in A /\ \A s \in A : entry <= s
    <3>1. Min(A) \in A /\ \A s \in A : Min(A) <= s
      BY ONLY <2>1, FirstOf
    <3>2. QED BY ONLY <2>2, <3>1
  <2>6. entry \in Sessions /\ entry > a /\ entry \in Nat
    BY <1>1, <2>3, <2>5
  <2>7. \A s \in Sessions : s > a => entry <= s
    BY <2>4, <2>5
  <2>8. QED BY <2>6, <2>7
<1>3. S = R \cup {entry} /\ entry \notin R
  <2>1. \A s \in Sessions : a < s /\ s <= exit <=> (entry < s /\ s <= exit) \/ s = entry
    <3>1. SUFFICES ASSUME NEW s \in Sessions
                   PROVE  a < s /\ s <= exit <=> (entry < s /\ s <= exit) \/ s = entry
      OBVIOUS
    <3>2. s \in Nat /\ (s > a => entry <= s)
      BY <1>1, <1>2
    <3>3. QED BY <1>1, <1>2, <3>2
  <2>2. entry \notin R
    BY <1>2
  <2>3. QED BY <1>2, <2>1, <2>2
<1>4. IsFiniteSet(R)
  <2>1. R \subseteq 0..LastDay
    <3>1. \A s \in Sessions : s \in 0..LastDay
      BY DEF Sessions
    <3>2. QED BY <3>1
  <2>2. IsFiniteSet(0..LastDay)
    BY <1>1, FS_Interval
  <2> HIDE DEF R
  <2>3. QED BY <2>1, <2>2, FS_Subset
<1>5. Cardinality(R) = h
  OBVIOUS
<1> HIDE DEF R, S
<1>6. IsFiniteSet(S) /\ Cardinality(S) = h + 1
  BY <1>3, <1>4, <1>5, FS_AddElement
<1>7. QED BY <1>6 DEF S

(* What is due and has its prices has them before today.                     *)
LEMMA DueIsOver ==
    ASSUME tick \in Nat, NEW d \in Decisions, IsDue(d, 10), NEW w \in Prices(d, HORIZON_DAYS)
    PROVE  Gate(d, HORIZON_DAYS) /\ w.exit < Day
<1>1. d.day \in Nat /\ HORIZON_DAYS \in Nat \ {0} /\ Day \in Nat
  BY GradeAssumption, DayIsADay
<1>2. PICK p \in Due : p[1] = d /\ p[2] + 10 <= Day
  BY DEF IsDue
<1>3. PICK e \in Weekdays : p = <<d, e + 3>>
  BY <1>2 DEF Due, DueDays
<1>4. e \in Nat /\ e + 13 <= Day /\ p[2] - 3 = e /\ p[2] + 9 = e + 12
  <2>1. e \in Nat
    BY <1>1, GradeAssumption DEF Weekdays
  <2>2. p[2] = e + 3
    BY <1>3
  <2>3. QED BY <1>1, <1>2, <2>1, <2>2
<1> DEFINE V == WeekdaysIn(d.day, e)
<1>5. Cardinality(V) = HORIZON_DAYS + 1
  <2>1. Cardinality({x \in Weekdays : p[1].day < x /\ x <= p[2] - 3}) = HORIZON_DAYS + 1
    BY DEF Due
  <2>2. {x \in Weekdays : d.day < x /\ x <= e} = V
    <3>1. \A x \in Nat : x <= e => x \in 0..LastDay + HORIZON_DAYS
      <4>1. e \in 0..LastDay + HORIZON_DAYS /\ LastDay \in Nat
        BY GradeAssumption DEF Weekdays
      <4>2. QED BY <1>1, <4>1
    <3>2. QED BY <1>1, <3>1, GradeAssumption DEF Weekdays, WeekdaysIn
  <2>3. QED BY <1>2, <1>4, <2>1, <2>2
<1>6. d.day < e
  <2>1. CASE V = {}
    <3>1. Cardinality(V) = 0
      BY <2>1, FS_EmptySet
    <3>2. QED BY <1>1, <1>5, <3>1
  <2>2. CASE V # {}
    <3>1. PICK x \in Nat : d.day < x /\ x <= e
      BY <2>2 DEF WeekdaysIn
    <3>2. QED BY <1>1, <1>4, <3>1
  <2>3. QED BY <2>1, <2>2
<1> HIDE DEF V
<1>7. Gate(d, HORIZON_DAYS)
  <2>1. d.day <= e
    BY <1>1, <1>4, <1>6
  <2>2. QED BY <1>1, <1>4, <1>5, <2>1, DueIsPastTheGate DEF V
<1>8. SUFFICES ASSUME ~(w.exit < Day) PROVE FALSE
  BY <1>7
<1>9. w.exit \in Sessions /\ w.exit \in Nat /\ w.exit <= LastDay /\ w.exit >= Day
  BY <1>1, <1>8, PricesAreDays, SessionsAreDays
<1> DEFINE S == {s \in Sessions : d.day < s /\ s <= w.exit}
           B == {s \in Sessions : d.day < s /\ s <= e + 12}
<1>10. IsFiniteSet(S) /\ Cardinality(S) = HORIZON_DAYS + 1
  <2>1. w \in Closing /\ w.of = d /\ w.h = HORIZON_DAYS
    BY DEF Prices, Window
  <2>2. w.entry < w.exit /\ Cardinality({r \in Sessions : w.entry < r /\ r <= w.exit}) = HORIZON_DAYS
    BY <2>1 DEF Closing
  <2>3. w.entry = EntryDay(d)
    BY <2>1 DEF Closing, Windows
  <2>4. d.day < w.exit
    BY <1>1, <1>4, <1>6, <1>9
  <2>5. w.entry = Min({s \in Sessions : s > d.day})
    BY <2>3 DEF EntryDay
  <2>6. d.day \in Nat /\ w.exit \in Sessions /\ HORIZON_DAYS \in Nat
    BY <1>1, <1>9
  <2> DEFINE X == w.exit
             N == w.entry
  <2> HIDE DEF X, N
  <2>7. LET T == {s \in Sessions : d.day < s /\ s <= X} IN IsFiniteSet(T) /\ Cardinality(T) = HORIZON_DAYS + 1
    <3>1. /\ X \in Sessions /\ d.day < X /\ N = Min({s \in Sessions : s > d.day}) /\ N < X
          /\ Cardinality({r \in Sessions : N < r /\ r <= X}) = HORIZON_DAYS
      BY <2>2, <2>4, <2>5, <2>6 DEF X, N
    <3>2. QED BY <2>6, <3>1, WindowIsCounted
  <2>8. QED BY <2>7 DEF X
<1>11. IsFiniteSet(B) /\ Cardinality(B) >= HORIZON_DAYS + 1
  <2>1. Cardinality({x \in Holidays : d.day < x /\ x <= e + 12}) <= 8
    <3>1. Cardinality({x \in Holidays : p[1].day < x /\ x <= p[2] + 9}) <= 8
      BY HolidaysAssumption
    <3>2. QED BY <1>2, <1>4, <3>1
  <2>2. e + 12 <= LastDay /\ d.day <= e
    <3>1. LastDay \in Nat
      BY SessionsAreDays
    <3>2. QED BY <1>1, <1>4, <1>6, <1>9, <3>1
  <2>3. QED BY <1>1, <1>4, <1>5, <2>1, <2>2, SessionsByThen DEF V
<1>12. B \subseteq S \ {w.exit} /\ w.exit \in S
  <2>1. e + 12 < w.exit /\ d.day < w.exit
    BY <1>1, <1>4, <1>6, <1>9
  <2>2. \A s \in Sessions : s \in Nat
    BY SessionsAreDays
  <2>3. QED BY <1>4, <1>9, <2>1, <2>2
<1> HIDE DEF S, B
<1>13. IsFiniteSet(S \ {w.exit}) /\ Cardinality(S \ {w.exit}) = HORIZON_DAYS
  <2> DEFINE R == S \ {w.exit}
  <2>1. IsFiniteSet(R) /\ Cardinality(R) = Cardinality(S) - 1
    BY <1>10, <1>12, FS_RemoveElement
  <2> HIDE DEF R
  <2>2. Cardinality(R) = HORIZON_DAYS
    BY <1>1, <1>10, <2>1
  <2>3. QED BY <2>1, <2>2 DEF R
<1>14. Cardinality(B) <= HORIZON_DAYS /\ Cardinality(B) \in Nat
  BY <1>11, <1>12, <1>13, FS_Subset, FS_CardinalityType
<1>15. QED BY <1>1, <1>11, <1>14

LEMMA GradesFollow == ASSUME GradeInv PROVE GradesAreComplete
<1>1. tick \in Nat /\ RecordedAfterTheBell
  BY DEF GradeInv
<1>2. GradedSoonAfterItsDue
  <2>1. SUFFICES ASSUME NEW d \in Unmeasured, IsDue(d, 10), passed = Day, NEW w \in Prices(d, HORIZON_DAYS) PROVE FALSE
    BY DEF GradedSoonAfterItsDue
  <2>2. d \in Made /\ d \in Decisions /\ labelled[d, HORIZON_DAYS] = Nothing
    BY DEF Unmeasured, Made
  <2>3. Gate(d, HORIZON_DAYS) /\ w.exit < Day
    BY <1>1, <2>1, <2>2, DueIsOver
  <2>4. Told /\ HORIZON_DAYS \in HORIZONS
    BY <2>1, GradeAssumption DEF GradeInv
  <2>5. QED BY <2>2, <2>3, <2>4 DEF Told
<1>3. QED BY <1>1, <1>2, TheTradedAreMeasured DEF GradesAreComplete

-----------------------------------------------------------------------------
(* Those who look back at picks.                                            *)
LEMMA EarliestIs ==
    ASSUME NEW S \in SUBSET Nat
    PROVE  /\ \A d : d \in Earliest(S) <=> (d \in S /\ \A e \in S : d <= e)
           /\ S # {} => Earliest(S) # {}
<1>1. CASE S = {}
  BY <1>1 DEF Earliest
<1>2. CASE S # {}
  <2>1. Earliest(S) = {Min(S)} /\ Min(S) \in S /\ \A d \in S : Min(S) <= d
    BY <1>2, FirstOf DEF Earliest
  <2>2. \A d \in S : (\A e \in S : d <= e) => d = Min(S)
    <3>1. SUFFICES ASSUME NEW d \in S, \A e \in S : d <= e PROVE d = Min(S)
      OBVIOUS
    <3>2. d <= Min(S) /\ Min(S) <= d /\ d \in Nat /\ Min(S) \in Nat
      BY <2>1, <3>1
    <3>3. QED BY <3>2
  <2>3. QED BY <1>2, <2>1, <2>2
<1>3. QED BY <1>1, <1>2

LEMMA LatestIs ==
    ASSUME NEW S \in SUBSET Nat, NEW b \in Nat, \A d \in S : d <= b
    PROVE  /\ \A d : d \in Latest(S) <=> (d \in S /\ \A e \in S : e <= d)
           /\ S # {} => Latest(S) # {}
<1>1. CASE S = {}
  BY <1>1 DEF Latest
<1>2. CASE S # {}
  <2>1. Latest(S) = {Max(S)} /\ Max(S) \in S /\ \A d \in S : d <= Max(S)
    BY <1>2, LatestOf DEF Latest
  <2>2. \A d \in S : (\A e \in S : e <= d) => d = Max(S)
    <3>1. SUFFICES ASSUME NEW d \in S, \A e \in S : e <= d PROVE d = Max(S)
      OBVIOUS
    <3>2. d <= Max(S) /\ Max(S) <= d /\ d \in Nat /\ Max(S) \in Nat
      BY <2>1, <3>1
    <3>3. QED BY <3>2
  <2>3. QED BY <1>2, <2>1, <2>2
<1>3. QED BY <1>1, <1>2

\* What is stored, and of which days.
PickRow ==
    [run : Nat, day : Nat, ticker : Symbols \ {SPY}, ev : Nat, rated : BOOLEAN, priced : BOOLEAN,
     screened : [worth : Nat \ {0}, per : Nat \ {0}]]
ReviewTypes ==
    /\ now \in 0..LastReview /\ over \in BOOLEAN /\ runs \in Nat
    /\ picks \subseteq PickRow
    /\ \A p \in picks : p.day <= now /\ p.run <= runs
    /\ \A n \in named : n.call \in Events /\ n.call.ticker \in Symbols \ {SPY}

\* The price of a pick is of its day, on which the stock was traded, or shortly before.
PickedAtAPrice ==
    \A p \in picks :
        /\ \E d \in BarsOf[p.ticker] : p.day - SLACK <= d /\ d <= p.day
        /\ p.screened.per = PerShare(p.ticker, p.day)
        /\ p.day = now /\ ~over /\ p.day \in BarsOf[p.ticker] => p.screened.worth = Moving[p.ticker]

ReviewInv == ReviewTypes /\ PickedAtAPrice

LEMMA ReviewConstants ==
    /\ SPY \in Symbols /\ SPLIT \in Nat \ {0} /\ LastReview \in Nat
    /\ \A s \in Symbols : BarsOf[s] \in SUBSET Nat /\ SplitOn[s] \in Nat /\ Moving[s] \in Nat \ {0}
    /\ \A s \in Symbols, d \in 0..LastReview : Close[s][d] \in Nat \ {0}
    /\ OPEN_WINDOW_DAYS \in Nat /\ REACTION_DAYS \in Nat /\ GRADE_LOOKBACK_DAYS \in Nat /\ CALIBRATION_DAYS \in Nat
    /\ CONVICTION_HORIZON \in Nat /\ EV_HORIZONS \subseteq Nat \ {0}
    /\ MOVER \in Nat /\ SPAN \in Nat /\ SLACK \in Nat /\ TREND_DAYS \in Nat
    /\ \A c \in Events : c.when \in Nat
    /\ OPEN_WINDOW_DAYS <= GRADE_LOOKBACK_DAYS /\ SPAN <= TREND_DAYS
BY ReviewAssumption

LEMMA BarsAreDays ==
    ASSUME now \in Nat, NEW s \in Symbols, NEW from \in Int, NEW to \in Int
    PROVE  BarsIn(s, from, to) \in SUBSET Nat /\ \A d \in BarsIn(s, from, to) : d <= now /\ d <= to /\ from <= d
BY ReviewConstants DEF BarsIn

LEMMA FirstBar ==
    ASSUME now \in Nat, NEW s \in Symbols, NEW from \in Int, NEW to \in Int, NEW d
    PROVE  d \in Earliest(BarsIn(s, from, to)) <=> (d \in BarsIn(s, from, to) /\ \A e \in BarsIn(s, from, to) : d <= e)
BY BarsAreDays, EarliestIs

LEMMA LastBarOf ==
    ASSUME now \in Nat, NEW s \in Symbols, NEW from \in Int, NEW to \in Int
    PROVE  /\ \A d : d \in Latest(BarsIn(s, from, to)) <=> (d \in BarsIn(s, from, to) /\ \A e \in BarsIn(s, from, to) : e <= d)
           /\ BarsIn(s, from, to) # {} => Latest(BarsIn(s, from, to)) # {}
<1> DEFINE S == BarsIn(s, from, to)
<1>1. S \in SUBSET Nat /\ \A d \in S : d <= now
  BY BarsAreDays
<1> HIDE DEF S
<1>2. QED BY <1>1, LatestIs, Zenon DEF S

LEMMA PerShareIs ==
    ASSUME NEW s \in Symbols, NEW d \in Nat PROVE PerShare(s, d) \in Nat \ {0}
BY ReviewConstants DEF PerShare

LEMMA WorthIs ==
    ASSUME now \in 0..LastReview, NEW s \in Symbols, NEW d \in Nat, d <= now PROVE Worth(s, d) \in Nat \ {0}
BY ReviewConstants DEF Worth

LEMMA ReviewStart == ASSUME ReviewInit PROVE ReviewInv
<1>1. 0 \in 0..LastReview
  BY ReviewConstants
<1>2. QED BY <1>1 DEF ReviewInit, ReviewInv, ReviewTypes, PickedAtAPrice

\* The last bar of a stock that was traded lately is the day's, if it has one.
LEMMA LastTradedBar ==
    ASSUME ReviewTypes, NEW t \in Symbols, BarsIn(t, now - SLACK, now) # {}
    PROVE  /\ Max(BarsIn(t, 0, now)) \in Nat /\ Max(BarsIn(t, 0, now)) <= now
           /\ now \in BarsOf[t] => Max(BarsIn(t, 0, now)) = now
<1> DEFINE S == BarsIn(t, 0, now)
<1>0. now \in Nat /\ now \in Int /\ 0 \in Int /\ SLACK \in Nat
  BY ReviewConstants DEF ReviewTypes
<1>1. S \in SUBSET Nat /\ \A d \in S : d <= now
  BY <1>0, BarsAreDays
<1>2. S # {}
  <2>1. PICK d \in BarsOf[t] : d <= now
    BY DEF BarsIn
  <2>2. d \in Nat
    BY ReviewConstants
  <2>3. QED BY <2>1, <2>2 DEF BarsIn
<1>3. now \in BarsOf[t] => now \in S
  BY <1>0 DEF BarsIn
<1> HIDE DEF S
<1>4. Max(S) \in S /\ \A d \in S : d <= Max(S)
  BY <1>0, <1>1, <1>2, LatestOf
<1>5. Max(S) \in Nat /\ Max(S) <= now
  BY <1>1, <1>4
<1>6. now \in S => Max(S) = now
  BY <1>0, <1>4, <1>5
<1>7. QED BY <1>3, <1>5, <1>6 DEF S

LEMMA InsertReview == ASSUME ReviewInv, insert_picks PROVE ReviewInv'
<1>1. now \in 0..LastReview /\ now \in Nat /\ over \in BOOLEAN /\ runs \in Nat /\ now' = now /\ over' = over /\ runs' = runs + 1
  BY ReviewConstants DEF ReviewInv, ReviewTypes, insert_picks
<1>2. PICK picked \in SUBSET (Symbols \ {SPY}), told \in BOOLEAN, ev \in EV_HORIZONS, calls \in SUBSET Events :
        /\ picked # {} /\ \A t \in picked : BarsIn(t, now - SLACK, now) # {}
        /\ Cardinality(named) + Cardinality(calls) <= MaxCalls /\ \A c \in calls : c.ticker \in picked
        /\ picks' = picks \cup {Row(t, IF told THEN ev ELSE 0, told) : t \in picked}
        /\ named' = named \cup {[call |-> c, made |-> now] : c \in calls}
  BY Zenon DEF insert_picks
<1> DEFINE X == IF told THEN ev ELSE 0
<1>3. X \in Nat
  BY ReviewConstants
<1> HIDE DEF X
<1> DEFINE Sound(r, t) ==
             /\ r \in PickRow /\ r.day = now /\ r.run = runs + 1 /\ r.ticker = t
             /\ r.screened.per = PerShare(t, now)
             /\ ~over /\ now \in BarsOf[t] => r.screened.worth = Moving[t]
             /\ \E d \in BarsOf[t] : now - SLACK <= d /\ d <= now
<1>4. \A t \in picked : Sound(Row(t, X, told), t)
  <2> SUFFICES ASSUME NEW t \in picked PROVE Sound(Row(t, X, told), t)
    OBVIOUS
  <2>1. t \in Symbols \ {SPY} /\ t \in Symbols
    OBVIOUS
  <2> DEFINE M == Max(BarsIn(t, 0, now))
  <2>2. M \in Nat /\ M <= now /\ (now \in BarsOf[t] => M = now)
    BY <1>2, <2>1, LastTradedBar DEF ReviewInv
  <2>3. Row(t, X, told) = [run |-> runs + 1, day |-> now, ticker |-> t, ev |-> X, rated |-> told, priced |-> told,
                           screened |-> [worth |-> Worth(t, M), per |-> PerShare(t, now)]]
    BY DEF Row
  <2> HIDE DEF M
  <2>4. Worth(t, M) \in Nat \ {0} /\ PerShare(t, now) \in Nat \ {0}
    BY <1>1, <2>1, <2>2, WorthIs, PerShareIs
  <2>5. ~over /\ now \in BarsOf[t] => Worth(t, M) = Moving[t]
    BY <2>2 DEF Worth
  <2>6. \E d \in BarsOf[t] : now - SLACK <= d /\ d <= now
    BY <1>2, <1>1 DEF BarsIn
  <2>7. Row(t, X, told) \in PickRow
    BY <1>1, <1>3, <2>1, <2>3, <2>4 DEF PickRow
  <2> DEFINE r == Row(t, X, told)
  <2>8. r.day = now /\ r.run = runs + 1 /\ r.ticker = t /\ r.screened.per = PerShare(t, now) /\ r.screened.worth = Worth(t, M)
    BY <2>3
  <2> HIDE DEF r
  <2>9. ~over /\ now \in BarsOf[t] => r.screened.worth = Moving[t]
    BY <2>5, <2>8
  <2>10. QED BY <2>6, <2>7, <2>8, <2>9, Zenon DEF r
<1>5. picks' = picks \cup {Row(t, X, told) : t \in picked}
  BY <1>2 DEF X
<1>6. \A p \in picks' : p \in picks \/ \E t \in picked : p = Row(t, X, told)
  BY <1>5
<1>7. ReviewTypes'
  <2>1. picks' \subseteq PickRow
    BY <1>4, <1>6 DEF ReviewInv, ReviewTypes
  <2>2. \A p \in picks' : p.day <= now' /\ p.run <= runs'
    <3> SUFFICES ASSUME NEW p \in picks' PROVE p.day <= now' /\ p.run <= runs'
      OBVIOUS
    <3>1. CASE p \in picks
      BY <1>1, <3>1 DEF ReviewInv, ReviewTypes, PickRow
    <3>2. CASE \E t \in picked : p = Row(t, X, told)
      BY <1>1, <1>4, <3>2
    <3>3. QED BY <1>6, <3>1, <3>2
  <2>3. \A n \in named' : n.call \in Events /\ n.call.ticker \in Symbols \ {SPY}
    BY <1>2 DEF ReviewInv, ReviewTypes
  <2>4. QED BY <1>1, <2>1, <2>2, <2>3 DEF ReviewTypes
<1>8. PickedAtAPrice'
  <2>1. \A t \in Symbols, d \in Nat : PerShare(t, d)' = PerShare(t, d)
    BY DEF PerShare
  <2> SUFFICES ASSUME NEW p \in picks'
               PROVE  /\ \E d \in BarsOf[p.ticker] : p.day - SLACK <= d /\ d <= p.day
                      /\ p.screened.per = PerShare(p.ticker, p.day)
                      /\ p.day = now' /\ ~over' /\ p.day \in BarsOf[p.ticker] => p.screened.worth = Moving[p.ticker]
    BY DEF PickedAtAPrice, PerShare
  <2>2. CASE p \in picks
    BY <1>1, <2>2 DEF ReviewInv, PickedAtAPrice
  <2>3. CASE \E t \in picked : p = Row(t, X, told)
    BY <1>1, <1>4, <2>3
  <2>4. QED BY <1>6, <2>2, <2>3
<1>9. QED BY <1>7, <1>8 DEF ReviewInv

\* What is filled in of a row leaves its run, its day, its stock and its price.
LEMMA FilledIs ==
    ASSUME NEW p \in PickRow, NEW found
    PROVE  LET q == Filled(p, found)
           IN /\ q \in PickRow /\ q.run = p.run /\ q.day = p.day /\ q.ticker = p.ticker /\ q.ev = p.ev /\ q.screened = p.screened
              /\ p.rated => q.rated
<1> DEFINE a == [p EXCEPT !.rated = @ \/ p \in found]
<1>1. a \in PickRow /\ a.run = p.run /\ a.day = p.day /\ a.ticker = p.ticker /\ a.ev = p.ev /\ a.screened = p.screened /\ a.rated = (p.rated \/ p \in found)
  BY Zenon DEF PickRow
<1> DEFINE b == [a EXCEPT !.priced = TRUE]
<1>2. Filled(p, found) = b
  BY DEF Filled
<1> HIDE DEF a
<1>3. b \in PickRow /\ b.run = a.run /\ b.day = a.day /\ b.ticker = a.ticker /\ b.ev = a.ev /\ b.screened = a.screened /\ b.rated = a.rated
  BY <1>1, Zenon DEF PickRow
<1>4. QED BY <1>1, <1>2, <1>3, Zenon

LEMMA FillReview == ASSUME ReviewInv, backfill_pick_forecasts PROVE ReviewInv'
<1>1. PICK found : picks' = {Filled(p, found) : p \in picks}
  BY DEF backfill_pick_forecasts
<1>2. named' = named /\ runs' = runs /\ now' = now /\ over' = over
  BY DEF backfill_pick_forecasts
<1>3. \A q \in picks' : \E p \in picks : q = Filled(p, found)
  BY <1>1
<1>4. \A q \in picks' : \E p \in picks :
         q \in PickRow /\ q.run = p.run /\ q.day = p.day /\ q.ticker = p.ticker /\ q.screened = p.screened
  <2> SUFFICES ASSUME NEW q \in picks', NEW p \in picks, q = Filled(p, found)
               PROVE  q \in PickRow /\ q.run = p.run /\ q.day = p.day /\ q.ticker = p.ticker /\ q.screened = p.screened
    BY <1>3
  <2>1. p \in PickRow
    BY DEF ReviewInv, ReviewTypes
  <2>2. QED BY <2>1, FilledIs
<1>5. ReviewTypes'
  BY <1>2, <1>4 DEF ReviewInv, ReviewTypes
<1>6. PickedAtAPrice'
  <2> SUFFICES ASSUME NEW q \in picks'
               PROVE  /\ \E d \in BarsOf[q.ticker] : q.day - SLACK <= d /\ d <= q.day
                      /\ q.screened.per = PerShare(q.ticker, q.day)
                      /\ q.day = now' /\ ~over' /\ q.day \in BarsOf[q.ticker] => q.screened.worth = Moving[q.ticker]
    BY DEF PickedAtAPrice, PerShare
  <2>1. PICK p \in picks : q.run = p.run /\ q.day = p.day /\ q.ticker = p.ticker /\ q.screened = p.screened
    BY <1>4
  <2>2. QED BY <1>2, <2>1 DEF ReviewInv, PickedAtAPrice
<1>7. QED BY <1>5, <1>6 DEF ReviewInv

LEMMA ReviewInvStep == ASSUME ReviewInv, [ReviewNext]_reviewVars PROVE ReviewInv'
<1>1. CASE UNCHANGED reviewVars
  BY <1>1 DEF reviewVars, ReviewInv, ReviewTypes, PickedAtAPrice, PerShare
<1>2. CASE NextHour
  <2>1. picks' = picks /\ named' = named /\ runs' = runs /\ now \in Nat /\ now' \in 0..LastReview /\ now' >= now
    BY <1>2, ReviewConstants DEF NextHour, ReviewInv, ReviewTypes
  <2>2. \A p \in picks : p.day \in Nat /\ p.day <= now
    BY DEF ReviewInv, ReviewTypes, PickRow
  <2>3. over' \in BOOLEAN /\ \A p \in picks : ~(p.day = now' /\ ~over')
    <3>1. CASE over
      <4>1. now' = now + 1 /\ over' = FALSE
        BY <1>2, <3>1 DEF NextHour
      <4>2. \A p \in picks : p.day # now'
        BY <2>1, <2>2, <4>1
      <4>3. QED BY <4>1, <4>2
    <3>2. CASE ~over
      <4>1. over' = TRUE
        BY <1>2, <3>2 DEF NextHour
      <4>2. QED BY <4>1
    <3>3. QED BY <3>1, <3>2
  <2>4. ReviewTypes'
    <3>1. \A p \in picks : p.day <= now'
      BY <2>1, <2>2
    <3>2. QED BY <2>1, <2>3, <3>1 DEF ReviewInv, ReviewTypes
  <2>5. PickedAtAPrice'
    BY <2>1, <2>3 DEF ReviewInv, PickedAtAPrice, PerShare
  <2>6. QED BY <2>4, <2>5 DEF ReviewInv
<1>3. QED BY <1>1, <1>2, InsertReview, FillReview DEF ReviewNext

\* A stock's move about an event is one whatever bars before it are fetched.
LEMMA SameMove ==
    ASSUME now \in 0..LastReview, NEW s \in Symbols, NEW when \in Nat, NEW from \in Int,
           from <= when - SPAN, when + REACTION_DAYS <= now, NEW b, NEW a
    PROVE  (b \in Latest(BarsIn(s, from, when - 1)) /\ a \in Latest(BarsIn(s, from, when + REACTION_DAYS)) /\ b < a)
           <=> (b \in Latest(BarsIn(s, when - SPAN, when - 1)) /\ a \in Latest(BarsIn(s, when - SPAN, when + REACTION_DAYS)) /\ b < a)
<1> DEFINE near == when - SPAN  last == when - 1  after == when + REACTION_DAYS
<1>1. now \in Nat /\ near \in Int /\ last \in Int /\ after \in Int /\ from <= near /\ after <= now /\ last < when /\ when <= after
      /\ near <= when /\ when \in 0..LastReview
  BY ReviewConstants
<1>2. \A d, f, t : d \in BarsIn(s, f, t) <=> (d \in BarsOf[s] /\ f <= d /\ d <= t /\ d <= now)
  BY DEF BarsIn
<1>3. \A d \in BarsOf[s] : d \in Nat
  BY ReviewConstants
<1>5. (\E d \in BarsOf[s] : 0 <= d /\ d <= last) /\ (\E d \in BarsOf[s] : when <= d /\ d <= after)
        => \E d \in BarsOf[s] : near <= d /\ d <= last
  BY <1>1, HaltAssumption
<1>6. \A f \in {from, near} :
        /\ \A d : d \in Latest(BarsIn(s, f, last)) <=> (d \in BarsIn(s, f, last) /\ \A e \in BarsIn(s, f, last) : e <= d)
        /\ \A d : d \in Latest(BarsIn(s, f, after)) <=> (d \in BarsIn(s, f, after) /\ \A e \in BarsIn(s, f, after) : e <= d)
  BY <1>1, LastBarOf
<1> HIDE DEF near, last, after
<1>7. ASSUME b \in Latest(BarsIn(s, from, last)), a \in Latest(BarsIn(s, from, after)), b < a
      PROVE  b \in Latest(BarsIn(s, near, last)) /\ a \in Latest(BarsIn(s, near, after))
  <2>1. b \in BarsOf[s] /\ a \in BarsOf[s] /\ from <= b /\ b <= last /\ from <= a /\ a <= after /\ a <= now /\ b <= now
    BY <1>2, <1>6, <1>7
  <2>2. a \in Nat /\ b \in Nat
    BY <1>3, <2>1
  <2>3. when <= a
    <3>1. a <= last => a <= b
      BY <1>2, <1>6, <1>7, <2>1
    <3>2. QED BY <1>1, <1>7, <2>2, <3>1 DEF last
  <2>4. PICK d \in BarsOf[s] : near <= d /\ d <= last
    BY <1>5, <2>1, <2>2, <2>3
  <2>5. d <= b
    <3>1. d \in Nat /\ from <= d /\ d <= now
      BY <1>1, <1>3, <2>4
    <3>2. QED BY <1>2, <1>6, <1>7, <2>4, <3>1
  <2>6. near <= b /\ near <= a
    BY <1>1, <1>3, <2>2, <2>3, <2>4, <2>5
  <2>7. b \in BarsIn(s, near, last) /\ a \in BarsIn(s, near, after)
    BY <1>2, <2>1, <2>6
  <2>8. \A e : (e \in BarsIn(s, near, last) => e \in BarsIn(s, from, last)) /\ (e \in BarsIn(s, near, after) => e \in BarsIn(s, from, after))
    BY <1>1, <1>2, <1>3
  <2>9. QED BY <1>6, <1>7, <2>7, <2>8
<1>8. ASSUME b \in Latest(BarsIn(s, near, last)), a \in Latest(BarsIn(s, near, after))
      PROVE  b \in Latest(BarsIn(s, from, last)) /\ a \in Latest(BarsIn(s, from, after))
  <2>1. \A t \in {last, after} : \A d : d \in BarsIn(s, near, t) => d \in BarsIn(s, from, t) /\ near <= d /\ d \in Nat
    BY <1>1, <1>2, <1>3
  <2>2. \A t \in {last, after} : \A e : e \in BarsIn(s, from, t) => e \in Nat /\ (e \in BarsIn(s, near, t) \/ e < near)
    BY <1>1, <1>2, <1>3
  <2>3. near <= b /\ b \in Nat /\ near <= a /\ a \in Nat
    BY <1>6, <1>8, <2>1
  <2>4. \A e \in BarsIn(s, from, last) : e <= b
    BY <1>1, <1>6, <1>8, <2>2, <2>3
  <2>5. \A e \in BarsIn(s, from, after) : e <= a
    BY <1>1, <1>6, <1>8, <2>2, <2>3
  <2>6. QED BY <1>6, <1>8, <2>1, <2>4, <2>5
<1>9. QED BY <1>7, <1>8 DEF near, last, after

LEMMA SameMoves ==
    ASSUME now \in 0..LastReview, NEW c, c.ticker \in Symbols, c.when \in Nat, NEW from \in Int, NEW since \in Int,
           from <= c.when - SPAN, since <= c.when - SPAN, c.when + REACTION_DAYS <= now
    PROVE  Moves(c, from) = Moves(c, since)
<1>1. \A s \in Symbols : _window_move(s, c.when, from) = _window_move(s, c.when, c.when - SPAN)
  <2> SUFFICES ASSUME NEW s \in Symbols PROVE _window_move(s, c.when, from) = _window_move(s, c.when, c.when - SPAN)
    OBVIOUS
  <2>1. \A b, a : (b \in Latest(BarsIn(s, from, c.when - 1)) /\ a \in Latest(BarsIn(s, from, c.when + REACTION_DAYS)) /\ b < a)
           <=> (b \in Latest(BarsIn(s, c.when - SPAN, c.when - 1)) /\ a \in Latest(BarsIn(s, c.when - SPAN, c.when + REACTION_DAYS)) /\ b < a)
    BY SameMove
  <2>2. QED BY <2>1 DEF _window_move
<1>2. \A s \in Symbols : _window_move(s, c.when, since) = _window_move(s, c.when, c.when - SPAN)
  <2> SUFFICES ASSUME NEW s \in Symbols PROVE _window_move(s, c.when, since) = _window_move(s, c.when, c.when - SPAN)
    OBVIOUS
  <2>1. \A b, a : (b \in Latest(BarsIn(s, since, c.when - 1)) /\ a \in Latest(BarsIn(s, since, c.when + REACTION_DAYS)) /\ b < a)
           <=> (b \in Latest(BarsIn(s, c.when - SPAN, c.when - 1)) /\ a \in Latest(BarsIn(s, c.when - SPAN, c.when + REACTION_DAYS)) /\ b < a)
    BY SameMove
  <2>2. QED BY <2>1 DEF _window_move
<1>3. SPY \in Symbols
  BY ReviewConstants
<1>4. QED BY <1>1, <1>2, <1>3 DEF Moves

LEMMA MoveIs ==
    ASSUME now \in 0..LastReview, NEW c, c.ticker \in Symbols, c.when \in Nat, c.when + REACTION_DAYS <= now, NEW from \in Int, NEW m \in Moves(c, from)
    PROVE  m.call = c /\ Scale(m) \in Nat /\ Excess(m) \in Int
<1>1. PICK o \in _window_move(c.ticker, c.when, from), y \in _window_move(SPY, c.when, from) : m = [call |-> c, own |-> o, spy |-> y]
  BY DEF Moves
<1>2. now \in Nat /\ SPY \in Symbols /\ c.when - 1 \in Int /\ c.when + REACTION_DAYS \in Int
  BY ReviewConstants
<1>3. \A s \in Symbols : \A x \in _window_move(s, c.when, from) : x.from \in Nat /\ x.from <= now /\ x.to \in Nat /\ x.to <= now
  <2> SUFFICES ASSUME NEW s \in Symbols, NEW x \in _window_move(s, c.when, from)
               PROVE  x.from \in Nat /\ x.from <= now /\ x.to \in Nat /\ x.to <= now
    OBVIOUS
  <2>1. x.from \in Latest(BarsIn(s, from, c.when - 1)) /\ x.to \in Latest(BarsIn(s, from, c.when + REACTION_DAYS))
    BY DEF _window_move
  <2>2. x.from \in BarsIn(s, from, c.when - 1) /\ x.to \in BarsIn(s, from, c.when + REACTION_DAYS)
    BY <1>2, <2>1, LastBarOf
  <2>3. QED BY <1>2, <2>2, BarsAreDays
<1>4. Worth(c.ticker, o.from) \in Nat /\ Worth(c.ticker, o.to) \in Nat /\ Worth(SPY, y.from) \in Nat /\ Worth(SPY, y.to) \in Nat
  <2>1. o.from \in Nat /\ o.from <= now /\ o.to \in Nat /\ o.to <= now
    BY <1>1, <1>3
  <2>2. y.from \in Nat /\ y.from <= now /\ y.to \in Nat /\ y.to <= now
    BY <1>1, <1>2, <1>3
  <2>3. QED BY <1>2, <2>1, <2>2, WorthIs
<1>5. m.call = c /\ m.own = o /\ m.spy = y
  BY <1>1
<1>6. \A i, j, k, l \in Nat : i * j \in Nat /\ 100 * (i * j - k * l) \in Int
  OBVIOUS
<1>7. Scale(m) \in Nat
  BY <1>4, <1>5, <1>6 DEF Scale
<1>8. Excess(m) \in Int
  BY <1>4, <1>5, <1>6 DEF Excess
<1>9. QED BY <1>5, <1>7, <1>8

LEMMA OpenPicks ==
    ASSUME ReviewInv, NEW p \in load_open_picks
    PROVE  /\ p \in picks /\ p.day \in Nat /\ p.day >= now - OPEN_WINDOW_DAYS /\ p.ticker \in Symbols /\ p.ticker # SPY
           /\ TrendStart \in Int /\ TrendStart <= p.day - TREND_DAYS
<1>1. \A q \in load_open_picks : q \in picks /\ q.day >= now - OPEN_WINDOW_DAYS /\ q.day \in Nat
  BY DEF load_open_picks, InWindow, ReviewInv, ReviewTypes, PickRow
<1> DEFINE S == {q.day : q \in load_open_picks}
<1>2. S \in SUBSET Nat /\ p.day \in S
  BY <1>1
<1> HIDE DEF S
<1>3. Min(S) \in Nat /\ Min(S) <= p.day
  BY <1>2, FirstOf
<1>4. TrendStart = Min(S) - TREND_DAYS
  BY DEF TrendStart, S
<1>5. TrendStart \in Int /\ TrendStart <= p.day - TREND_DAYS
  BY <1>1, <1>3, <1>4, ReviewConstants
<1>6. p.ticker \in Symbols /\ p.ticker # SPY
  BY <1>1 DEF ReviewInv, ReviewTypes, PickRow
<1>7. QED BY <1>1, <1>5, <1>6

LEMMA DueCalls ==
    ASSUME ReviewInv, NEW c \in _load_due
    PROVE  /\ c.ticker \in Symbols /\ c.when \in Nat /\ c.when + REACTION_DAYS <= now
           /\ Min({d.when : d \in _load_due}) - SPAN \in Int /\ Min({d.when : d \in _load_due}) - SPAN <= c.when - SPAN
<1>1. now \in Nat /\ now \in 0..LastReview
  BY ReviewConstants DEF ReviewInv, ReviewTypes
<1>2. \A d \in _load_due : d \in Events /\ d.ticker \in Symbols /\ d.when <= now - REACTION_DAYS
  BY DEF _load_due, ReviewInv, ReviewTypes
<1>3. \A d \in _load_due : d.when \in Nat
  BY <1>2, ReviewConstants
<1> DEFINE S == {d.when : d \in _load_due}
<1>4. S \in SUBSET Nat /\ c.when \in S
  BY <1>3
<1> HIDE DEF S
<1>5. Min(S) \in Nat /\ Min(S) <= c.when
  BY <1>4, FirstOf
<1>6. c.when + REACTION_DAYS <= now
  BY <1>1, <1>2, <1>3, ReviewConstants
<1>7. Min(S) - SPAN \in Int /\ Min(S) - SPAN <= c.when - SPAN
  BY <1>3, <1>5, ReviewConstants
<1>8. QED BY <1>2, <1>3, <1>6, <1>7 DEF S

LEMMA NamedAndDue ==
    ASSUME ReviewInv, NEW p \in load_open_picks, NEW c \in CallsOn(p), p.day <= c.when, c.when <= now - REACTION_DAYS
    PROVE  c \in _load_due
<1>1. PICK n \in named : c = n.call
  BY DEF CallsOn
<1>2. c \in Events /\ c.when \in Nat
  BY <1>1, ReviewConstants DEF ReviewInv, ReviewTypes
<1>3. p.day \in Nat /\ p.day >= now - OPEN_WINDOW_DAYS
  BY OpenPicks
<1>4. now \in Nat
  BY ReviewConstants DEF ReviewInv, ReviewTypes
<1>5. now - GRADE_LOOKBACK_DAYS <= c.when
  BY <1>2, <1>3, <1>4, ReviewConstants
<1>6. QED BY <1>1, <1>5 DEF _load_due

LEMMA JudgedAlike == ASSUME ReviewInv PROVE CallsAreJudgedAlike
<1> SUFFICES ASSUME NEW p \in load_open_picks
             PROVE  /\ Judged(p) = {m \in grade_catalysts : m.call \in CallsOn(p) /\ p.day <= m.call.when}
                    /\ \A m \in _catalyst_signals(p) : IsHit(m) = (m.call.direction # "positive")
  BY DEF CallsAreJudgedAlike
<1> DEFINE start == Min({d.when : d \in _load_due}) - SPAN
           told == {x \in CallsOn(p) : p.day <= x.when /\ x.when <= now - REACTION_DAYS}
<1>1. now \in Nat /\ now \in 0..LastReview
  BY ReviewConstants DEF ReviewInv, ReviewTypes
<1>2. \A c \in told : c \in _load_due
  BY NamedAndDue
<1>3. \A c \in _load_due : c.ticker \in Symbols /\ c.when \in Nat /\ c.when + REACTION_DAYS <= now /\ start \in Int /\ start <= c.when - SPAN
  BY DueCalls
<1>4. p.day \in Nat /\ TrendStart \in Int /\ TrendStart <= p.day - TREND_DAYS
  BY OpenPicks
<1> HIDE DEF start
<1>5. \A c \in told : TrendStart <= c.when - SPAN
  <2> SUFFICES ASSUME NEW c \in told PROVE TrendStart <= c.when - SPAN
    OBVIOUS
  <2>1. c.when \in Nat /\ p.day <= c.when
    BY <1>2, <1>3
  <2>2. QED BY <1>4, <2>1, ReviewConstants
<1>6. Judged(p) = UNION {Moves(c, TrendStart) : c \in told}
  BY DEF Judged
<1>7. grade_catalysts = UNION {Moves(c, start) : c \in _load_due}
  BY DEF grade_catalysts, start
<1>8. \A c \in _load_due : c.when <= now - REACTION_DAYS
  BY DEF _load_due
<1> HIDE DEF told
<1>9. \A c \in told : Moves(c, TrendStart) = Moves(c, start)
  BY <1>1, <1>2, <1>3, <1>4, <1>5, SameMoves
<1>10. \A c \in _load_due : \A m \in Moves(c, start) : m.call = c
  BY DEF Moves
<1>11. \A c : c \in told <=> (c \in CallsOn(p) /\ p.day <= c.when /\ c.when <= now - REACTION_DAYS)
  BY DEF told
<1>12. Judged(p) = {m \in grade_catalysts : m.call \in CallsOn(p) /\ p.day <= m.call.when}
  <2>1. ASSUME NEW m \in Judged(p) PROVE m \in grade_catalysts /\ m.call \in CallsOn(p) /\ p.day <= m.call.when
    <3>1. PICK c \in told : m \in Moves(c, TrendStart)
      BY <1>6
    <3>2. c \in _load_due /\ m \in Moves(c, start)
      BY <1>2, <1>9, <3>1
    <3>3. m.call = c
      BY <1>10, <3>2
    <3>4. QED BY <1>7, <1>11, <3>1, <3>2, <3>3
  <2>2. ASSUME NEW m \in grade_catalysts, m.call \in CallsOn(p), p.day <= m.call.when PROVE m \in Judged(p)
    <3>1. PICK c \in _load_due : m \in Moves(c, start)
      BY <1>7
    <3>2. m.call = c
      BY <1>10, <3>1
    <3>3. c \in told
      BY <1>8, <1>11, <2>2, <3>2
    <3>4. QED BY <1>6, <1>9, <3>1, <3>3
  <2>3. QED BY <2>1, <2>2
<1>13. \A m \in _catalyst_signals(p) : IsHit(m) = (m.call.direction # "positive")
  <2> SUFFICES ASSUME NEW m \in _catalyst_signals(p) PROVE IsHit(m) = (m.call.direction # "positive")
    OBVIOUS
  <2>1. m \in Judged(p) /\ Excess(m) < -MOVER * Scale(m)
    BY DEF _catalyst_signals
  <2>2. PICK c \in _load_due : m \in Moves(c, start)
    BY <1>7, <1>12, <2>1
  <2>3. Scale(m) \in Nat /\ Excess(m) \in Int
    <3>1. start \in Int /\ c.ticker \in Symbols /\ c.when \in Nat /\ c.when + REACTION_DAYS <= now
      BY <1>3
    <3>2. QED BY <1>1, <2>2, <3>1, MoveIs
  <2> DEFINE K == MOVER * Scale(m)
  <2>4. K \in Nat /\ MOVER \in Nat
    BY <2>3, ReviewConstants
  <2>5. -MOVER * Scale(m) = -K
    BY <2>3, <2>4
  <2> HIDE DEF K
  <2>6. Excess(m) < -K
    BY <2>1, <2>5
  <2>7. ~(Excess(m) > 0) /\ Excess(m) < 0 /\ Excess(m) <= -K
    BY <2>3, <2>4, <2>6
  <2>8. IsHit(m) = CASE m.call.direction = "positive" -> Excess(m) > 0
                     [] m.call.direction = "negative" -> Excess(m) < 0
                     [] OTHER -> Excess(m) >= K \/ Excess(m) <= -K
    BY <2>5 DEF IsHit, K
  <2>9. CASE m.call.direction = "positive"
    BY <2>7, <2>8, <2>9
  <2>10. CASE m.call.direction = "negative"
    BY <2>7, <2>8, <2>10
  <2>11. CASE m.call.direction # "positive" /\ m.call.direction # "negative"
    BY <2>7, <2>8, <2>11
  <2>12. QED BY <2>9, <2>10, <2>11
<1>14. QED BY <1>12, <1>13

LEMMA SpyIsAStock == SPY \in Symbols
BY ReviewConstants

LEMMA TranchesWhole == ASSUME ReviewInv PROVE FollowedWhole
<1>1. now \in Nat
  BY ReviewConstants DEF ReviewInv, ReviewTypes
<1> SUFFICES ASSUME NEW day \in 0..now
             PROVE  /\ \A x, y \in load_tranches(day) : x.run = y.run
                    /\ SpyEntry(day) # {} => {x.ticker : x \in load_tranches(day)} = {p.ticker : p \in Followed(day)}
  BY DEF FollowedWhole
<1>2. \A p \in picks : p.run \in Nat /\ p.day \in Nat /\ p.ticker \in Symbols
  BY DEF ReviewInv, ReviewTypes, PickRow
<1>3. \A x \in load_tranches(day) : \E p \in Followed(day) : x.run = p.run /\ x.ticker = p.ticker
  BY DEF load_tranches
<1>4. \A p, q \in Followed(day) : p.run = q.run
  <2> SUFFICES ASSUME NEW p \in Followed(day), NEW q \in Followed(day) PROVE p.run = q.run
    OBVIOUS
  <2>1. p.run <= q.run /\ q.run <= p.run /\ p.run \in Nat /\ q.run \in Nat
    BY <1>2 DEF Followed
  <2>2. QED BY <2>1
<1>5. ASSUME NEW e \in SpyEntry(day), NEW p \in Followed(day)
      PROVE  \E x \in load_tranches(day) : x.ticker = p.ticker
  <2>1. p \in picks /\ p.day = day
    BY DEF Followed
  <2>2. day \in Nat /\ day \in Int /\ now \in Int
    BY <1>1
  <2>3. e \in BarsIn(SPY, day, now)
    BY <1>1, <1>5, <2>2, FirstBar, SpyIsAStock DEF SpyEntry
  <2>4. e \in Nat /\ e <= now /\ day <= e
    BY <1>1, <2>2, <2>3, BarsAreDays, SpyIsAStock
  <2>5. PICK d \in BarsOf[p.ticker] : p.day - SLACK <= d /\ d <= p.day
    BY <2>1 DEF ReviewInv, PickedAtAPrice
  <2>6. d \in Nat /\ p.ticker \in Symbols
    BY <1>2, <2>1, ReviewConstants
  <2> DEFINE S == {q.day : q \in picks}
  <2>7. S \in SUBSET Nat /\ p.day \in S
    BY <1>2, <2>1
  <2> HIDE DEF S
  <2>8. Min(S) \in Nat /\ Min(S) <= p.day
    BY <2>7, FirstOf
  <2>9. LedgerStart = Min(S) - SLACK
    BY DEF LedgerStart, S
  <2>10. LedgerStart \in Int /\ LedgerStart <= d
    BY <1>2, <2>1, <2>5, <2>6, <2>8, <2>9, ReviewConstants
  <2>11. d <= e /\ d <= now
    BY <2>1, <2>2, <2>4, <2>5, <2>6
  <2>12. d \in BarsIn(p.ticker, LedgerStart, e)
    BY <2>5, <2>10, <2>11 DEF BarsIn
  <2>13. PICK b : b \in Latest(BarsIn(p.ticker, LedgerStart, e))
    BY <1>1, <2>4, <2>6, <2>10, <2>12, LastBarOf
  <2>14. [run |-> p.run, ticker |-> p.ticker, entered |-> e, at |-> b] \in load_tranches(day)
    <3> DEFINE T(q, f) == {[run |-> q.run, ticker |-> q.ticker, entered |-> f, at |-> a] : a \in Latest(BarsIn(q.ticker, LedgerStart, f))}
    <3>1. load_tranches(day) = UNION {T(q, f) : q \in Followed(day), f \in SpyEntry(day)}
      BY DEF load_tranches
    <3>2. [run |-> p.run, ticker |-> p.ticker, entered |-> e, at |-> b] \in T(p, e)
      BY <2>13
    <3> HIDE DEF T
    <3>3. T(p, e) \in {T(q, f) : q \in Followed(day), f \in SpyEntry(day)}
      BY <1>5
    <3>4. QED BY <3>1, <3>2, <3>3
  <2>15. QED BY <2>14
<1>6. QED BY <1>3, <1>4, <1>5

LEMMA OneEarliest == ASSUME NEW S, NEW x \in Earliest(S), NEW y \in Earliest(S) PROVE x = y
BY DEF Earliest

LEMMA OneLatest == ASSUME NEW S, NEW x \in Latest(S), NEW y \in Latest(S) PROVE x = y
BY DEF Latest

LEMMA PickIs ==
    ASSUME ReviewTypes, NEW p \in picks
    PROVE  /\ p.day \in Nat /\ p.day <= now /\ now \in Nat /\ now \in 0..LastReview
           /\ p.run \in Nat /\ p.ticker \in Symbols /\ p.ev \in Nat /\ p.rated \in BOOLEAN /\ p.priced \in BOOLEAN
           /\ p.screened.worth \in Nat \ {0} /\ p.screened.per \in Nat \ {0}
           /\ p.screened = [worth |-> p.screened.worth, per |-> p.screened.per]
<1>1. p \in PickRow /\ p.day <= now /\ now \in 0..LastReview
  BY DEF ReviewTypes
<1>2. now \in Nat
  BY <1>1, ReviewConstants
<1>3. p.screened \in [worth : Nat \ {0}, per : Nat \ {0}]
  BY <1>1 DEF PickRow
<1>4. QED BY <1>1, <1>2, <1>3 DEF PickRow

\* The price at its day's close is the one that is fetched.
LEMMA EntriesAgree ==
    ASSUME ReviewInv, NEW p \in picks, AtItsClose(p) \/ ~p.priced, NEW to \in Int, p.day <= to,
           NEW x \in EntryOf(p, BarsIn(p.ticker, p.day, to)), NEW y \in FetchedOn(p.ticker, Earliest(BarsIn(p.ticker, p.day, to)))
    PROVE  x = y
<1> DEFINE S == BarsIn(p.ticker, p.day, to)
<1>1. CASE ~p.priced
  <2>1. x \in FetchedOn(p.ticker, Earliest(S))
    BY <1>1 DEF EntryOf
  <2> HIDE DEF S
  <2>2. PICK d \in Earliest(S), e \in Earliest(S) : x = Fetched(p.ticker, d) /\ y = Fetched(p.ticker, e)
    BY <2>1 DEF FetchedOn, S
  <2>3. QED BY <2>2, OneEarliest
<1>2. CASE p.priced /\ AtItsClose(p)
  <2>1. p.day \in BarsOf[p.ticker] /\ p.screened.worth = Close[p.ticker][p.day] /\ PerShare(p.ticker, p.day) = PerShare(p.ticker, now)
    BY <1>2 DEF AtItsClose, StoodStill
  <2>2. p.day \in Nat /\ p.day <= now /\ now \in Nat /\ p.ticker \in Symbols /\ p.screened = [worth |-> p.screened.worth, per |-> p.screened.per]
    BY PickIs DEF ReviewInv
  <2>3. p.day \in S
    BY <2>1, <2>2 DEF BarsIn
  <2>4. S \in SUBSET Nat /\ \A d \in S : p.day <= d
    BY <2>2, BarsAreDays
  <2> HIDE DEF S
  <2>5. p.day \in Earliest(S)
    BY <2>3, <2>4, EarliestIs
  <2>6. y = Fetched(p.ticker, p.day)
    <3>1. PICK e \in Earliest(S) : y = Fetched(p.ticker, e)
      BY DEF FetchedOn, S
    <3>2. QED BY <2>5, <3>1, OneEarliest
  <2>7. p.screened.per = PerShare(p.ticker, now)
    BY <2>1 DEF ReviewInv, PickedAtAPrice
  <2>8. p.screened.worth = Worth(p.ticker, p.day)
    BY <2>1 DEF ReviewInv, PickedAtAPrice, Worth
  <2>9. x = p.screened
    BY <1>2 DEF EntryOf
  <2>10. QED BY <2>2, <2>6, <2>7, <2>8, <2>9 DEF Fetched
<1>3. QED BY <1>1, <1>2

LEMMA ReturnIs ==
    ASSUME NEW A, NEW B, NEW m \in Returns(A, B) PROVE m.entry \in A /\ m.exit \in B
BY DEF Returns

LEMMA ReadersDoAgree == ASSUME ReviewInv PROVE ReadersAgree
<1> SUFFICES ASSUME NEW p \in picks, AtItsClose(p) \/ ~p.priced
             PROVE  /\ p \in load_open_picks => \A m \in ThesisReturn(p), n \in _return_since(p.ticker, p.day) : SameReturn(m, n)
                    /\ \A h \in HorizonsOf(p) : \A m \in _realized_return(p, h), n \in _forward_return(p.ticker, p.day, h) : SameReturn(m, n)
  BY DEF ReadersAgree
<1>1. p.day \in Nat /\ p.day <= now /\ now \in Nat /\ p.ticker \in Symbols /\ p.ev \in Nat
  BY PickIs DEF ReviewInv
<1>2. ASSUME p \in load_open_picks, NEW m \in ThesisReturn(p), NEW n \in _return_since(p.ticker, p.day) PROVE SameReturn(m, n)
  <2> DEFINE S == BarsIn(p.ticker, p.day, now)  T == BarsIn(p.ticker, TrendStart, now)
  <2>1. m.entry \in EntryOf(p, S) /\ m.exit \in FetchedOn(p.ticker, Latest(T))
    BY ReturnIs DEF ThesisReturn
  <2>2. n.entry \in FetchedOn(p.ticker, Earliest(S)) /\ n.exit \in FetchedOn(p.ticker, Latest(S))
    BY ReturnIs DEF _return_since
  <2>3. m.entry = n.entry
    BY <1>1, <2>1, <2>2, EntriesAgree
  <2>4. TrendStart \in Int /\ TrendStart <= p.day
    BY <1>1, <1>2, OpenPicks, ReviewConstants
  <2>5. Latest(S) \subseteq Latest(T)
    <3> SUFFICES ASSUME NEW d \in Latest(S) PROVE d \in Latest(T)
      OBVIOUS
    <3>1. d \in S /\ \A e \in S : e <= d
      BY <1>1, LastBarOf
    <3>2. \A e : e \in S <=> (e \in BarsOf[p.ticker] /\ p.day <= e /\ e <= now)
      BY DEF BarsIn
    <3>3. \A e : e \in T <=> (e \in BarsOf[p.ticker] /\ TrendStart <= e /\ e <= now)
      BY DEF BarsIn
    <3>4. \A e \in BarsOf[p.ticker] : e \in Nat
      BY <1>1, ReviewConstants
    <3>5. d \in T
      BY <1>1, <2>4, <3>1, <3>2, <3>3, <3>4
    <3>6. \A e \in T : e <= d
      <4> SUFFICES ASSUME NEW e \in T PROVE e <= d
        OBVIOUS
      <4>1. CASE p.day <= e
        BY <3>1, <3>2, <3>3, <4>1
      <4>2. CASE ~(p.day <= e)
        BY <1>1, <3>1, <3>2, <3>3, <3>4, <4>2
      <4>3. QED BY <4>1, <4>2
    <3>7. QED BY <1>1, <2>4, <3>5, <3>6, LastBarOf
  <2> HIDE DEF S, T
  <2>6. m.exit = n.exit
    BY <2>1, <2>2, <2>5, OneLatest DEF FetchedOn
  <2>7. QED BY <2>3, <2>6 DEF SameReturn
<1>3. ASSUME NEW h \in HorizonsOf(p), NEW m \in _realized_return(p, h), NEW n \in _forward_return(p.ticker, p.day, h) PROVE SameReturn(m, n)
  <2> DEFINE S == BarsIn(p.ticker, p.day, p.day + h)  T == BarsIn(p.ticker, p.day - SLACK, p.day + h)
  <2>1. h \in Nat
    BY <1>1, ReviewConstants DEF HorizonsOf
  <2>2. m \in Returns(EntryOf(p, S), FetchedOn(p.ticker, Latest(T)))
    BY <1>3 DEF _realized_return
  <2>3. n \in Returns(FetchedOn(p.ticker, Earliest(S)), FetchedOn(p.ticker, Latest(T)))
    BY <1>3 DEF _forward_return
  <2>4. m.entry \in EntryOf(p, S) /\ m.exit \in FetchedOn(p.ticker, Latest(T))
    BY <2>2, ReturnIs
  <2>5. n.entry \in FetchedOn(p.ticker, Earliest(S)) /\ n.exit \in FetchedOn(p.ticker, Latest(T))
    BY <2>3, ReturnIs
  <2>6. m.entry = n.entry
    <3>1. p.day + h \in Int /\ p.day <= p.day + h
      BY <1>1, <2>1
    <3>2. QED BY <2>4, <2>5, <3>1, EntriesAgree
  <2> HIDE DEF S, T
  <2>7. m.exit = n.exit
    BY <2>4, <2>5, OneLatest DEF FetchedOn
  <2>8. QED BY <2>6, <2>7 DEF SameReturn
<1>4. QED BY <1>2, <1>3

LEMMA ReviewsDoAgree == ASSUME ReviewInv PROVE ReviewsAgree
BY JudgedAlike, ReadersDoAgree, TranchesWhole DEF ReviewsAgree

\* A step keeps every pick but for what is filled in of it, and adds none but a new run's of the day.
LEMMA PicksGo ==
    ASSUME ReviewInv, [ReviewNext]_reviewVars
    PROVE  /\ now \in Nat /\ now' \in Nat /\ now <= now'
           /\ \A p \in picks : \E q \in picks' :
                 q.run = p.run /\ q.day = p.day /\ q.ticker = p.ticker /\ q.ev = p.ev /\ (p.rated => q.rated)
           /\ \A q \in picks' : \/ q.run > runs /\ q.day = now
                                \/ \E p \in picks : q.run = p.run /\ q.day = p.day /\ q.ticker = p.ticker
<1>1. now \in Nat /\ runs \in Nat /\ \A p \in picks : p \in PickRow
  BY ReviewConstants DEF ReviewInv, ReviewTypes
<1>2. CASE UNCHANGED reviewVars
  BY <1>1, <1>2 DEF reviewVars
<1>3. CASE NextHour
  BY <1>1, <1>3 DEF NextHour
<1>4. CASE backfill_pick_forecasts
  <2>1. PICK found : picks' = {Filled(p, found) : p \in picks}
    BY <1>4 DEF backfill_pick_forecasts
  <2>2. now' = now
    BY <1>4 DEF backfill_pick_forecasts
  <2>3. \A p \in picks : /\ Filled(p, found).run = p.run /\ Filled(p, found).day = p.day /\ Filled(p, found).ticker = p.ticker
                         /\ Filled(p, found).ev = p.ev /\ (p.rated => Filled(p, found).rated)
    BY <1>1, FilledIs
  <2>4. QED BY <1>1, <2>1, <2>2, <2>3
<1>5. CASE insert_picks
  <2>1. PICK picked, ev, told : picks' = picks \cup {Row(t, ev, told) : t \in picked}
    <3>1. PICK picked \in SUBSET (Symbols \ {SPY}), told \in BOOLEAN, ev \in EV_HORIZONS, calls \in SUBSET Events :
            picks' = picks \cup {Row(t, IF told THEN ev ELSE 0, told) : t \in picked}
      BY <1>5 DEF insert_picks
    <3>2. QED BY <3>1
  <2>2. now' = now
    BY <1>5 DEF insert_picks
  <2>3. \A t : Row(t, ev, told).run = runs + 1 /\ Row(t, ev, told).day = now
    BY DEF Row
  <2>4. \A q \in picks' : q \in picks \/ (q.run = runs + 1 /\ q.day = now)
    BY <2>1, <2>3
  <2>5. QED BY <1>1, <2>1, <2>2, <2>4
<1>6. QED BY <1>2, <1>3, <1>4, <1>5 DEF ReviewNext

LEMMA SameBars ==
    ASSUME now \in Nat, now' \in Nat, now <= now', NEW s \in Symbols, NEW from \in Int, NEW to \in Int, to <= now
    PROVE  BarsIn(s, from, to)' = BarsIn(s, from, to)
<1>1. \A d \in BarsOf[s] : d \in Nat
  BY ReviewConstants
<1>2. \A d \in BarsOf[s] : d <= to => d <= now /\ d <= now'
  BY <1>1
<1>3. QED BY <1>2 DEF BarsIn

LEMMA PerShareStays ==
    ASSUME NEW s \in Symbols, NEW d \in Nat, NEW e \in Nat, NEW f \in Nat, d <= e, e <= f, PerShare(s, d) = PerShare(s, f)
    PROVE  PerShare(s, e) = PerShare(s, f)
BY ReviewConstants DEF PerShare

LEMMA Products ==
    ASSUME NEW a \in Nat, NEW b \in Nat, NEW c \in Nat, NEW d \in Nat
    PROVE  (a * b) * (c * d) = (a * d) * (c * b)
OBVIOUS

LEMMA RealizedStands ==
    ASSUME ReviewInv, [ReviewNext]_reviewVars, NEW p \in picks, NEW h \in HorizonsOf(p), now > p.day + h,
           p.priced => StoodStill(p)', NEW m \in _realized_return(p, h), NEW n \in _realized_return(p, h)'
    PROVE  SameReturn(m, n)
<1> DEFINE S == BarsIn(p.ticker, p.day, p.day + h)  T == BarsIn(p.ticker, p.day - SLACK, p.day + h)
           P == PerShare(p.ticker, now)  Q == PerShare(p.ticker, now')
<1>1. p.day \in Nat /\ p.day <= now /\ now \in Nat /\ now \in 0..LastReview /\ p.ticker \in Symbols /\ p.ev \in Nat
  BY PickIs DEF ReviewInv
<1>2. now' \in Nat /\ now <= now'
  BY PicksGo
<1>3. h \in Nat
  BY <1>1, ReviewConstants DEF HorizonsOf
<1>4. p.day + h \in Int /\ p.day \in Int /\ p.day - SLACK \in Int /\ p.day + h <= now /\ p.day + h \in Nat
  BY <1>1, <1>3, ReviewConstants
<1>5. S' = S /\ T' = T
  BY <1>1, <1>2, <1>4, SameBars
<1>6. S \in SUBSET Nat /\ T \in SUBSET Nat /\ (\A d \in S : d <= p.day + h) /\ (\A d \in T : d <= p.day + h)
  BY <1>1, <1>4, BarsAreDays
<1>7. m \in Returns(EntryOf(p, S), FetchedOn(p.ticker, Latest(T)))
  BY DEF _realized_return
<1>8. n \in Returns(EntryOf(p, S)', FetchedOn(p.ticker, Latest(T))')
  BY DEF _realized_return, Returns
<1>9. m.entry \in EntryOf(p, S) /\ m.exit \in FetchedOn(p.ticker, Latest(T))
  BY <1>7, ReturnIs
<1>10. n.entry \in EntryOf(p, S)' /\ n.exit \in FetchedOn(p.ticker, Latest(T))'
  BY <1>8, ReturnIs
<1>11. Latest(T)' = Latest(T) /\ Earliest(S)' = Earliest(S)
  BY <1>5 DEF Latest, Earliest
<1> HIDE DEF S, T
<1>12. \A d \in Latest(T) : d \in T
  BY <1>4, <1>6, LatestIs
<1>13. \A d \in Earliest(S) : d \in S
  BY <1>6, EarliestIs
<1>14. \A d \in Nat : d <= p.day + h =>
          /\ Fetched(p.ticker, d) = [worth |-> Close[p.ticker][d], per |-> P]
          /\ Fetched(p.ticker, d)' = [worth |-> Close[p.ticker][d], per |-> Q]
  <2> SUFFICES ASSUME NEW d \in Nat, d <= p.day + h
               PROVE  /\ Fetched(p.ticker, d) = [worth |-> Close[p.ticker][d], per |-> P]
                      /\ Fetched(p.ticker, d)' = [worth |-> Close[p.ticker][d], per |-> Q]
    OBVIOUS
  <2>1. d # now /\ d # now'
    BY <1>1, <1>2, <1>3
  <2>2. Worth(p.ticker, d) = Close[p.ticker][d] /\ Worth(p.ticker, d)' = Close[p.ticker][d]
    BY <2>1 DEF Worth
  <2>3. QED BY <2>2 DEF Fetched, PerShare
<1>15. PICK x \in Latest(T) : m.exit = Fetched(p.ticker, x)
  BY <1>9 DEF FetchedOn
<1>16. PICK y \in Latest(T) : n.exit = Fetched(p.ticker, y)'
  BY <1>10, <1>11 DEF FetchedOn
<1>17. x = y /\ x \in Nat /\ x <= p.day + h
  BY <1>6, <1>12, <1>15, <1>16, OneLatest
<1> DEFINE X == Close[p.ticker][x]
<1>18. m.exit.worth = X /\ m.exit.per = P /\ n.exit.worth = X /\ n.exit.per = Q
  <2>1. m.exit = [worth |-> Close[p.ticker][x], per |-> P]
    BY <1>14, <1>15, <1>17
  <2>2. y \in Nat /\ y <= p.day + h
    BY <1>17
  <2>3. n.exit = [worth |-> Close[p.ticker][y], per |-> Q]
    BY <1>14, <1>16, <2>2
  <2> HIDE DEF P, Q
  <2>4. QED BY <1>17, <2>1, <2>3
<1>19. X \in Nat /\ P \in Nat /\ Q \in Nat
  <2>1. x \in 0..LastReview
    BY <1>1, <1>4, <1>17, ReviewConstants
  <2>2. X \in Nat
    BY <1>1, <2>1, ReviewConstants
  <2>3. QED BY <1>1, <1>2, <2>2, PerShareIs
<1>20. CASE p.priced
  <2>1. m.entry = p.screened /\ n.entry = p.screened
    BY <1>9, <1>10, <1>20 DEF EntryOf
  <2>2. PerShare(p.ticker, p.day) = PerShare(p.ticker, now')
    BY <1>20 DEF StoodStill, PerShare
  <2>3. P = Q
    BY <1>1, <1>2, <2>2, PerShareStays
  <2> HIDE DEF X, P, Q
  <2>4. QED BY <1>18, <2>1, <2>3 DEF SameReturn
<1>21. CASE ~p.priced
  <2>1. m.entry \in FetchedOn(p.ticker, Earliest(S))
    BY <1>9, <1>21 DEF EntryOf
  <2>2. n.entry \in FetchedOn(p.ticker, Earliest(S))'
    BY <1>10, <1>21 DEF EntryOf
  <2>3. PICK a \in Earliest(S) : m.entry = Fetched(p.ticker, a)
    BY <2>1 DEF FetchedOn
  <2>4. PICK b \in Earliest(S) : n.entry = Fetched(p.ticker, b)'
    BY <2>2, <1>11 DEF FetchedOn
  <2>5. a = b /\ a \in Nat /\ a <= p.day + h
    BY <1>6, <1>13, <2>3, <2>4, OneEarliest
  <2> DEFINE A == Close[p.ticker][a]
  <2>6. m.entry.worth = A /\ m.entry.per = P /\ n.entry.worth = A /\ n.entry.per = Q
    <3>1. m.entry = [worth |-> Close[p.ticker][a], per |-> P]
      BY <1>14, <2>3, <2>5
    <3>2. b \in Nat /\ b <= p.day + h
      BY <2>5
    <3>3. n.entry = [worth |-> Close[p.ticker][b], per |-> Q]
      BY <1>14, <2>4, <3>2
    <3> HIDE DEF P, Q
    <3>4. QED BY <2>5, <3>1, <3>3
  <2>7. A \in Nat
    <3>1. a \in 0..LastReview
      BY <1>1, <1>4, <2>5, ReviewConstants
    <3>2. QED BY <1>1, <3>1, ReviewConstants
  <2> HIDE DEF A, X, P, Q
  <2>8. (X * P) * (A * Q) = (X * Q) * (A * P)
    BY <1>19, <2>7, Products
  <2>9. QED BY <1>18, <2>6, <2>8 DEF SameReturn
<1>22. QED BY <1>20, <1>21

LEMMA GradedStands == ASSUME ReviewInv, ReviewInv', [ReviewNext]_reviewVars PROVE GradedCallStands
<1> SUFFICES ASSUME NEW p \in _load_forecasts, p.day >= now' - CALIBRATION_DAYS
             PROVE  /\ \E q \in _load_forecasts' : q.run = p.run /\ q.ticker = p.ticker /\ q.ev = p.ev /\ (p.rated => q.rated)
                    /\ \A h \in HorizonsOf(p) : now > p.day + h /\ p \in picks' /\ (p.priced => StoodStill(p)') =>
                          \A m \in _realized_return(p, h), n \in _realized_return(p, h)' : SameReturn(m, n)
  BY DEF GradedCallStands
<1>1. p \in picks /\ \A q \in Reached : q.ticker = p.ticker => p.run <= q.run
  BY DEF _load_forecasts, Reached
<1>2. now \in Nat /\ now' \in Nat /\ now <= now' /\ CALIBRATION_DAYS \in Nat
  BY PicksGo, ReviewConstants
<1>3. PICK q \in picks' : q.run = p.run /\ q.day = p.day /\ q.ticker = p.ticker /\ q.ev = p.ev /\ (p.rated => q.rated)
  BY <1>1, PicksGo
<1>4. q \in _load_forecasts'
  <2>1. q \in Reached'
    BY <1>3 DEF Reached
  <2>2. ASSUME NEW r \in Reached', r.ticker = q.ticker PROVE q.run <= r.run
    <3>1. r \in picks' /\ r.day >= now' - CALIBRATION_DAYS
      BY <2>2 DEF Reached
    <3>2. CASE r.run > runs /\ r.day = now
      <4>1. p.run <= runs /\ p.run \in Nat /\ runs \in Nat /\ r.run \in Nat
        BY <1>1, <3>1 DEF ReviewInv, ReviewTypes, PickRow
      <4>2. QED BY <1>3, <3>2, <4>1
    <3>3. CASE \E o \in picks : r.run = o.run /\ r.day = o.day /\ r.ticker = o.ticker
      <4>1. PICK o \in picks : r.run = o.run /\ r.day = o.day /\ r.ticker = o.ticker
        BY <3>3
      <4>2. o.day \in Nat
        BY PickIs DEF ReviewInv
      <4>3. o \in Reached
        BY <1>2, <3>1, <4>1, <4>2 DEF Reached
      <4>4. QED BY <1>1, <1>3, <2>2, <4>1, <4>3
    <3>4. QED BY <3>1, <3>2, <3>3, PicksGo
  <2>3. QED BY <2>1, <2>2 DEF _load_forecasts
<1>5. ASSUME NEW h \in HorizonsOf(p), now > p.day + h, p \in picks', p.priced => StoodStill(p)',
             NEW m \in _realized_return(p, h), NEW n \in _realized_return(p, h)'
      PROVE  SameReturn(m, n)
  BY <1>1, <1>5, RealizedStands
<1>6. QED BY <1>3, <1>4, <1>5

LEMMA TrancheIs ==
    ASSUME NEW day, NEW x
    PROVE  x \in load_tranches(day) <=>
             \E p \in Followed(day), e \in SpyEntry(day) : \E b \in Latest(BarsIn(p.ticker, LedgerStart, e)) :
                x = [run |-> p.run, ticker |-> p.ticker, entered |-> e, at |-> b]
<1> DEFINE T(q, f) == {[run |-> q.run, ticker |-> q.ticker, entered |-> f, at |-> a] : a \in Latest(BarsIn(q.ticker, LedgerStart, f))}
<1>1. load_tranches(day) = UNION {T(q, f) : q \in Followed(day), f \in SpyEntry(day)}
  BY DEF load_tranches
<1>2. \A q, f : x \in T(q, f) <=> \E b \in Latest(BarsIn(q.ticker, LedgerStart, f)) :
                                     x = [run |-> q.run, ticker |-> q.ticker, entered |-> f, at |-> b]
  OBVIOUS
<1> HIDE DEF T
<1>3. x \in UNION {T(q, f) : q \in Followed(day), f \in SpyEntry(day)} <=> \E q \in Followed(day), f \in SpyEntry(day) : x \in T(q, f)
  OBVIOUS
<1>4. QED BY <1>1, <1>2, <1>3

LEMMA TrancheThen ==
    ASSUME NEW day, NEW x
    PROVE  x \in load_tranches(day)' <=>
             \E p \in Followed(day)', e \in SpyEntry(day)' : \E b \in Latest(BarsIn(p.ticker, LedgerStart, e))' :
                x = [run |-> p.run, ticker |-> p.ticker, entered |-> e, at |-> b]
<1> DEFINE Is ==
        x \in load_tranches(day) <=>
             \E p \in Followed(day), e \in SpyEntry(day) : \E b \in Latest(BarsIn(p.ticker, LedgerStart, e)) :
                x = [run |-> p.run, ticker |-> p.ticker, entered |-> e, at |-> b]
<1>1. Is
  BY TrancheIs
<1> HIDE DEF Is
<1>2. Is'
  BY <1>1, PTL
<1>3. QED BY <1>2 DEF Is

LEMMA SpyEntryStands ==
    ASSUME now \in Nat, now' \in Nat, now <= now', NEW day \in Nat, SpyEntry(day) # {}
    PROVE  SpyEntry(day)' = SpyEntry(day) /\ \A e \in SpyEntry(day) : e \in Nat /\ e <= now
<1> DEFINE S == BarsIn(SPY, day, now)  T == BarsIn(SPY, day, now)'
<1>1. S \in SUBSET Nat /\ (\A d \in S : d <= now)
  BY BarsAreDays, SpyIsAStock
<1>2. \A d : d \in S <=> (d \in BarsOf[SPY] /\ day <= d /\ d <= now)
  BY DEF BarsIn
<1>3. \A d : d \in T <=> (d \in BarsOf[SPY] /\ day <= d /\ d <= now')
  BY DEF BarsIn
<1>4. \A d \in BarsOf[SPY] : d \in Nat
  BY ReviewConstants
<1>5. T \in SUBSET Nat
  BY <1>3, <1>4
<1>6. SpyEntry(day) = Earliest(S) /\ SpyEntry(day)' = Earliest(T)
  BY DEF SpyEntry, Earliest
<1>7. S \subseteq T /\ \A d \in T : d \in S \/ d > now
  BY <1>2, <1>3, <1>4
<1> HIDE DEF S, T
<1>8. PICK e : e \in Earliest(S)
  BY <1>6
<1>9. e \in S /\ e \in Nat /\ e <= now /\ \A d \in S : e <= d
  BY <1>1, <1>8, EarliestIs
<1>10. \A d \in T : e <= d
  BY <1>5, <1>7, <1>9
<1>11. e \in Earliest(T)
  BY <1>5, <1>7, <1>9, <1>10, EarliestIs
<1>12. Earliest(S) = {e} /\ Earliest(T) = {e}
  BY <1>8, <1>11, OneEarliest
<1>13. QED BY <1>6, <1>9, <1>12

LEMMA LedgerStartIs ==
    ASSUME ReviewTypes, NEW p \in picks
    PROVE  /\ LedgerStart + SLACK \in {q.day : q \in picks}
           /\ \A q \in picks : LedgerStart + SLACK <= q.day
           /\ LedgerStart \in Int /\ LedgerStart + SLACK \in Nat
<1> DEFINE S == {q.day : q \in picks}
<1>1. S \in SUBSET Nat /\ S # {}
  BY PickIs
<1>2. LedgerStart = Min(S) - SLACK
  BY DEF LedgerStart
<1>3. \A q \in picks : q.day \in S
  OBVIOUS
<1> HIDE DEF S
<1>4. Min(S) \in S /\ Min(S) \in Nat /\ \A d \in S : Min(S) <= d
  BY <1>1, FirstOf
<1>5. LedgerStart + SLACK = Min(S) /\ LedgerStart \in Int
  BY <1>2, <1>4, ReviewConstants
<1>6. QED BY <1>3, <1>4, <1>5 DEF S

LEMMA LedgerStartThen ==
    ReviewTypes' => \A p \in picks' :
        /\ LedgerStart' + SLACK \in {q.day : q \in picks'}
        /\ \A q \in picks' : LedgerStart' + SLACK <= q.day
        /\ LedgerStart' \in Int /\ LedgerStart' + SLACK \in Nat
<1> DEFINE Then ==
        ReviewTypes => \A p \in picks :
           /\ LedgerStart + SLACK \in {q.day : q \in picks}
           /\ \A q \in picks : LedgerStart + SLACK <= q.day
           /\ LedgerStart \in Int /\ LedgerStart + SLACK \in Nat
<1>1. Then
  BY LedgerStartIs
<1> HIDE DEF Then
<1>2. Then'
  BY <1>1, PTL
<1>3. QED BY <1>2 DEF Then

LEMMA LedgerStartStands ==
    ASSUME ReviewInv, ReviewInv', [ReviewNext]_reviewVars, NEW p \in picks
    PROVE  LedgerStart' = LedgerStart /\ LedgerStart \in Int
<1>1. ReviewTypes /\ ReviewTypes'
  BY DEF ReviewInv
<1>2. /\ LedgerStart + SLACK \in {q.day : q \in picks}
      /\ \A q \in picks : LedgerStart + SLACK <= q.day
      /\ LedgerStart \in Int /\ LedgerStart + SLACK \in Nat
  BY <1>1, LedgerStartIs
<1>3. PICK o \in picks' : o.day = p.day
  BY PicksGo
<1>4. ReviewTypes' /\ o \in picks' =>
        /\ LedgerStart' + SLACK \in {q.day : q \in picks'}
        /\ \A q \in picks' : LedgerStart' + SLACK <= q.day
        /\ LedgerStart' \in Int /\ LedgerStart' + SLACK \in Nat
  BY LedgerStartThen
<1>5. PICK a \in picks : LedgerStart + SLACK = a.day
  BY <1>2
<1>6. PICK b \in picks' : LedgerStart' + SLACK = b.day
  BY <1>1, <1>4
<1>7. LedgerStart' + SLACK <= LedgerStart + SLACK
  <2>1. PICK q \in picks' : q.day = a.day
    BY PicksGo
  <2>2. QED BY <1>1, <1>4, <1>5, <2>1
<1>8. LedgerStart + SLACK <= LedgerStart' + SLACK
  <2>1. CASE \E q \in picks : b.day = q.day
    BY <1>2, <1>6, <2>1
  <2>2. CASE b.day = now
    <3>1. LedgerStart + SLACK <= p.day /\ p.day <= now /\ p.day \in Nat /\ now \in Nat
      BY <1>1, <1>2, PickIs
    <3>2. QED BY <1>2, <1>6, <2>2, <3>1
  <2>3. QED BY <2>1, <2>2, PicksGo
<1>9. LedgerStart' \in Int /\ SLACK \in Nat
  BY <1>1, <1>4, ReviewConstants
<1>10. LedgerStart \in Int
  BY <1>2
<1>11. LedgerStart' = LedgerStart
  <2>1. \A i, j \in Int : \A k \in Nat : i + k <= j + k /\ j + k <= i + k => i = j
    OBVIOUS
  <2>2. QED BY <1>7, <1>8, <1>9, <1>10, <2>1, Zenon
<1>12. QED BY <1>10, <1>11

LEMMA SameFollowed ==
    ASSUME ReviewInv, ReviewInv', [ReviewNext]_reviewVars, NEW day \in Nat, day < now
    PROVE  /\ \A p \in Followed(day) : \E q \in Followed(day)' : q.run = p.run /\ q.ticker = p.ticker
           /\ \A q \in Followed(day)' : \E p \in Followed(day) : q.run = p.run /\ q.ticker = p.ticker
<1>1. \A q \in picks' : q.day = day => \E p \in picks : q.run = p.run /\ q.day = p.day /\ q.ticker = p.ticker
  <2>1. now \in Nat
    BY PicksGo
  <2>2. QED BY <2>1, PicksGo
<1>2. \A p \in picks : \E q \in picks' : q.run = p.run /\ q.day = p.day /\ q.ticker = p.ticker
  BY PicksGo
<1>3. ASSUME NEW p \in Followed(day) PROVE \E q \in Followed(day)' : q.run = p.run /\ q.ticker = p.ticker
  <2>1. p \in picks /\ p.day = day /\ \A r \in picks : r.day = day => r.run <= p.run
    BY DEF Followed
  <2>2. PICK q \in picks' : q.run = p.run /\ q.day = p.day /\ q.ticker = p.ticker
    BY <1>2, <2>1
  <2>3. \A r \in picks' : r.day = day => r.run <= q.run
    BY <1>1, <2>1, <2>2
  <2>4. q \in Followed(day)'
    BY <2>1, <2>2, <2>3 DEF Followed
  <2>5. QED BY <2>2, <2>4
<1>4. ASSUME NEW q \in Followed(day)' PROVE \E p \in Followed(day) : q.run = p.run /\ q.ticker = p.ticker
  <2>1. q \in picks' /\ q.day = day /\ \A r \in picks' : r.day = day => r.run <= q.run
    BY DEF Followed
  <2>2. PICK p \in picks : q.run = p.run /\ q.day = p.day /\ q.ticker = p.ticker
    BY <1>1, <2>1
  <2>3. \A r \in picks : r.day = day => r.run <= p.run
    BY <1>2, <2>1, <2>2
  <2>4. p \in Followed(day)
    BY <2>1, <2>2, <2>3 DEF Followed
  <2>5. QED BY <2>2, <2>4
<1>5. QED BY <1>3, <1>4

LEMMA TranchesDoStand == ASSUME ReviewInv, ReviewInv', [ReviewNext]_reviewVars PROVE TranchesStand
<1>1. now \in Nat /\ now' \in Nat /\ now <= now'
  BY PicksGo
<1> SUFFICES ASSUME NEW day \in 0..now - 1, SpyEntry(day) # {} PROVE load_tranches(day)' = load_tranches(day)
  BY DEF TranchesStand
<1>2. day \in Nat /\ day < now
  BY <1>1
<1>3. SpyEntry(day)' = SpyEntry(day) /\ \A e \in SpyEntry(day) : e \in Nat /\ e <= now
  BY <1>1, <1>2, SpyEntryStands
<1> DEFINE Bought(x, p, e, b) == x = [run |-> p.run, ticker |-> p.ticker, entered |-> e, at |-> b]
<1>4. \A x : x \in load_tranches(day) <=>
             \E p \in Followed(day), e \in SpyEntry(day) : \E b \in Latest(BarsIn(p.ticker, LedgerStart, e)) : Bought(x, p, e, b)
  BY TrancheIs
<1>5. \A x : x \in load_tranches(day)' <=>
             \E p \in Followed(day)', e \in SpyEntry(day)' : \E b \in Latest(BarsIn(p.ticker, LedgerStart, e))' : Bought(x, p, e, b)
  BY TrancheThen
<1>6. \A p \in Followed(day) : p \in picks /\ p.ticker \in Symbols
  BY PickIs DEF Followed, ReviewInv
<1>7. \A p \in Followed(day), e \in SpyEntry(day), s \in Symbols :
         Latest(BarsIn(s, LedgerStart, e))' = Latest(BarsIn(s, LedgerStart, e))
  <2> SUFFICES ASSUME NEW p \in Followed(day), NEW e \in SpyEntry(day), NEW s \in Symbols
               PROVE  Latest(BarsIn(s, LedgerStart, e))' = Latest(BarsIn(s, LedgerStart, e))
    OBVIOUS
  <2>1. LedgerStart' = LedgerStart /\ LedgerStart \in Int
    BY <1>6, LedgerStartStands
  <2>2. \A d \in BarsOf[s] : d \in Nat
    BY ReviewConstants
  <2>3. \A d \in BarsOf[s] : d <= e => d <= now /\ d <= now'
    BY <1>1, <1>3, <2>2
  <2>4. BarsIn(s, LedgerStart, e)' = BarsIn(s, LedgerStart, e)
    BY <2>1, <2>3 DEF BarsIn
  <2>5. QED BY <2>4 DEF Latest
<1>8. \A p \in Followed(day) : \E q \in Followed(day)' : q.run = p.run /\ q.ticker = p.ticker
  BY <1>2, SameFollowed
<1>9. \A q \in Followed(day)' : \E p \in Followed(day) : q.run = p.run /\ q.ticker = p.ticker
  BY <1>2, SameFollowed
<1>10. ASSUME NEW x \in load_tranches(day) PROVE x \in load_tranches(day)'
  <2>1. PICK p \in Followed(day), e \in SpyEntry(day) : \E b \in Latest(BarsIn(p.ticker, LedgerStart, e)) : Bought(x, p, e, b)
    BY <1>4
  <2>11. PICK b \in Latest(BarsIn(p.ticker, LedgerStart, e)) : Bought(x, p, e, b)
    BY <2>1
  <2>2. PICK q \in Followed(day)' : q.run = p.run /\ q.ticker = p.ticker
    BY <1>8
  <2>3. b \in Latest(BarsIn(q.ticker, LedgerStart, e))' /\ e \in SpyEntry(day)'
    BY <1>3, <1>6, <1>7, <2>2
  <2>4. Bought(x, q, e, b)
    BY <2>11, <2>2
  <2> HIDE DEF Bought
  <2>5. QED BY <1>5, <2>3, <2>4
<1>11. ASSUME NEW x \in load_tranches(day)' PROVE x \in load_tranches(day)
  <2>1. PICK q \in Followed(day)', e \in SpyEntry(day)' : \E b \in Latest(BarsIn(q.ticker, LedgerStart, e))' : Bought(x, q, e, b)
    BY <1>5
  <2>11. PICK b \in Latest(BarsIn(q.ticker, LedgerStart, e))' : Bought(x, q, e, b)
    BY <2>1
  <2>2. PICK p \in Followed(day) : q.run = p.run /\ q.ticker = p.ticker
    BY <1>9
  <2>3. b \in Latest(BarsIn(p.ticker, LedgerStart, e)) /\ e \in SpyEntry(day)
    BY <1>3, <1>6, <1>7, <2>2
  <2>4. Bought(x, p, e, b)
    BY <2>11, <2>2
  <2> HIDE DEF Bought
  <2>5. QED BY <1>4, <2>3, <2>4
<1>12. QED BY <1>10, <1>11

LEMMA ReviewsDoStand == ASSUME ReviewInv, [ReviewNext]_reviewVars PROVE GradedCallStands /\ TranchesStand
BY ReviewInvStep, GradedStands, TranchesDoStand

-----------------------------------------------------------------------------
(* What is graded is all of what was decided, soon after it is due, from      *)
(* closes that were final; the morning's ratings are told once, from whole     *)
(* inputs, and graded over the days the index is (track_record,                *)
(* pick_scorecard, price_record, cli/ibd); and who looks back at one pick says  *)
(* the same of it (thesis_tracker, catalyst_grading, calibration, quarterly,    *)
(* score_validation, paper_ledger).                                         *)
THEOREM EveryDecisionIsGraded == DiscoverSpec => []DecisionsAreGraded
<1> DEFINE IInv == BoardInv /\ ReadInv /\ GradeInv /\ ReviewInv
<1>1. DiscoverInit => IInv
  BY BoardStart, ReadStart, GradeStart, ReviewStart DEF DiscoverInit
<1>2. IInv /\ [DiscoverNext]_discoverVars
      => [BoardNext]_boardVars /\ [GradeNext]_gradeVars /\ [ReviewNext]_reviewVars
  BY DEF DiscoverNext, RunStep, BoardStep, GradeStep, ReviewStep, discoverVars
<1>3. IInv /\ [DiscoverNext]_discoverVars => IInv'
  BY <1>2, BoardInvStep, ReadInvStep, GradeInvStep, ReviewInvStep
<1>4. IInv => DecisionsAreGraded
  BY BoardReads, GradesFollow, ReviewsDoAgree DEF DecisionsAreGraded
<1>5. QED BY <1>1, <1>3, <1>4, PTL DEF DiscoverSpec

(* A grade, a price, a live rating, a graded call and a followed tranche, once  *)
(* they are there, do not change with the day they are read, a day that is      *)
(* rebuilt or a later pick (track_record._measure, price_record.record_prices,  *)
(* ibd.backfill, calibration._load_forecasts, paper_ledger.load_tranches).     *)
THEOREM WhatIsRecordedStands == DiscoverSpec => RecordsStand
<1> DEFINE IInv == BoardInv /\ tick \in Nat /\ ReviewInv
<1>1. DiscoverInit => IInv
  BY BoardStart, ReviewStart DEF DiscoverInit, GradeInit
<1>2. IInv /\ [DiscoverNext]_discoverVars
      => [BoardNext]_boardVars /\ [GradeNext]_gradeVars /\ [ReviewNext]_reviewVars
  BY DEF DiscoverNext, RunStep, BoardStep, GradeStep, ReviewStep, discoverVars
<1>3. IInv /\ [DiscoverNext]_discoverVars => IInv'
  BY <1>2, BoardInvStep, TickStep, ReviewInvStep
<1>4. IInv /\ [DiscoverNext]_discoverVars => LiveRowsStay /\ GradesStay
  BY <1>2, LiveRowsStep, GradesStep
<1>5. IInv /\ [DiscoverNext]_discoverVars
      => [tick' # tick => \A d \in Made, h \in Horizons : Age(d) > h => Measure(d, h)' = Measure(d, h)]_gradeVars
  BY <1>2, WindowsStand DEF GradeNext, Label, RecordPrices
<1>6. IInv /\ [DiscoverNext]_discoverVars
      => \A t \in Tickers : close[t] # Nothing => close'[t] = close[t] \/ Day' # Day
  BY <1>2, WrittenOnce
<1>7. IInv /\ [DiscoverNext]_discoverVars => GradedCallStands /\ TranchesStand
  BY <1>2, ReviewsDoStand
<1>8. QED
  BY <1>1, <1>3, <1>4, <1>5, <1>6, <1>7, PTL
  DEF DiscoverSpec, RecordsStand, HistoryStands, BoardStands, FinishedWindowsStand, RecordedOnce, LiveRowsStand, GradesStand,
      LiveRowsStay, GradesStay, ReviewsStand
===============================================================================
