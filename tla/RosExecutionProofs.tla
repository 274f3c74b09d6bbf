-------------------------- MODULE RosExecutionProofs ---------------------------
(***************************************************************************)
(* Proofs about RosExecution: the adapter and the launch files keep every  *)
(* promise JobRunner makes and the motion port, whatever start-up left     *)
(* behind, for every recipe and any number of goals waiting at a server.   *)
(***************************************************************************)
EXTENDS RosExecution, JobRunnerSafety, SequenceTheorems

-------------------------------------------------------------------------------
(* The job under the adapter is the job of JobRunner.                       *)

LEMMA RosNextIsNext == [RosNext \/ RosDone]_rosVars => [Next \/ Done]_vars
<1> SUFFICES ASSUME [RosNext \/ RosDone]_rosVars PROVE [Next \/ Done]_vars
  OBVIOUS
<1>1. CASE UNCHANGED vars
  BY <1>1
<1>2. CASE Uncalled
  <2>1. \A i \in PartIndex : \A sighting \in Sightings(PartAt(i)) :
            /\ BeginPickApproach(i, sighting) => Next
            /\ FinishPickRetreat(i, sighting) => Next
    BY DEF Next, Begin, Finish
  <2>2. \A i \in PartIndex :
            /\ BeginPickRetreat(i) => Next
            /\ BeginPlaceApproach(i) => Next
            /\ BeginPlace(i) => Next
            /\ BeginPlaceRetreat(i) => Next
    BY DEF Next, Begin
  <2>3. (\E j \in JointIndex : BeginJointApproach(j)) => Next
    BY DEF Next, Begin
  <2>4. PlanSucceeds \/ (\E reason \in PlanFailure : PlanFails(reason)) => Next
    BY DEF Next, Move
  <2>5. Prepare \/ StartStep \/ CompleteJob \/ FinishMove \/ Judge => Next
    BY DEF Next, Finish
  <2>6. QED
    BY <1>2, <2>1, <2>2, <2>3, <2>4, <2>5 DEF Uncalled
<1>3. CASE RosExecutes
  BY <1>3 DEF RosExecutes, Next, Move, ExecutionStatus
<1>4. ASSUME NEW i \in PartIndex, RosPick(i) \/ RosFinishPlace(i)
      PROVE  Next
  BY <1>4 DEF RosPick, RosFinishPlace, Next, Begin, Finish
<1>5. ASSUME NEW i \in PartIndex, RosFinishPick(i)
      PROVE  Next
  <2>1. PICK answer \in Answer :
            FinishPick(i, Confirmed(answer), Confirmed(answer) \/ PartAt(i) \in execAttached)
    BY <1>5 DEF RosFinishPick
  <2>2. /\ Confirmed(answer) \in BOOLEAN
        /\ (Confirmed(answer) \/ PartAt(i) \in execAttached) \in BOOLEAN
    BY DEF Confirmed
  <2>3. QED
    BY <2>1, <2>2 DEF Next, Finish
<1>6. CASE MoveItStep \/ \E s \in Controllers : ServerStep(s)
  BY <1>1, <1>6 DEF MoveItStep, MoveItSucceeds, MoveItFails, ServerStep, Accept, Reject, Succeed,
                    Abort
<1>7. CASE \E op \in Op : ClientStep(op)
  BY <1>1, <1>7 DEF ClientStep, StartCall, Send, NoServer, AcceptTimeout, ResultTimeout
<1>8. QED
  BY <1>1, <1>2, <1>3, <1>4, <1>5, <1>6, <1>7 DEF RosNext, RosDone, ProcessStep, JobStep, rosVars

(* ros_execution_adapter.py as an implementation of execution_port.py: the  *)
(* job it serves takes only steps of JobRunner, so that every safety        *)
(* theorem of JobRunner holds of it, whatever the action servers do.        *)
THEOREM AdapterImplementsPort == RosSpec => Init /\ [][Next \/ Done]_vars
BY RosNextIsNext, PTL DEF RosSpec, RosInit

(* What is known of the job, from the proofs about JobRunner.               *)
AttemptOK == TypeOK /\ ControlOK /\ CarryOK /\ ControllerErrorOK

LEMMA AttemptInit == Init => AttemptOK
BY TypeInit, ControlInit, CarryInit DEF AttemptOK, Init, ControllerErrorOK, Untried

LEMMA AttemptPreserved == AttemptOK /\ [Next \/ Done]_vars => AttemptOK'
BY TypeStep, ControlStep, CarryStep, ControllerErrorStep, SensorsAreAny DEF AttemptOK, Done

LEMMA AttemptAlways == RosSpec => []AttemptOK
<1>1. AttemptOK /\ [RosNext \/ RosDone]_rosVars => AttemptOK'
  BY RosNextIsNext, AttemptPreserved
<1>2. RosInit => AttemptOK
  BY AttemptInit DEF RosInit
<1>3. QED
  BY <1>1, <1>2, PTL DEF RosSpec

-------------------------------------------------------------------------------
(* The adapter call under way.                                              *)

(* It is one the job waits for, at the place it was made.                   *)
CallOK ==
    \/ call = NoCall
    \/ \E op \in Op, phase \in Phase : Waiting(op, phase) /\ AtCall(op)

(* A step of the job without a call before it is taken where none is made.  *)
LEMMA UncalledIsElsewhere ==
    ASSUME AttemptOK, Uncalled
    PROVE  \A op \in Op : ~ AtCall(op)
<1> USE DEF AttemptOK, Op, AtCall
<1>1. CASE stage \notin {"dispatch", "execute", "finish"}
  BY <1>1 DEF Dispatching, Finishing
<1>2. CASE stage = "execute"
  BY <1>2 DEF Uncalled, Prepare, Validate, BuildWorld, AcceptCorrection, RaiseUnknownPart,
              RejectCorrection, StartStep, CompleteJob, AtLoopHead, FinishMove, Judge, Verify,
              NextStep, Recover, Retry, Stop, Judged, PlanSucceeds, PlanFails, BeginPickApproach,
              FinishPickRetreat, BeginPickRetreat, BeginPlaceApproach, BeginPlace,
              BeginPlaceRetreat, BeginJointApproach, Dispatching, Finishing, ControlOK
<1>3. CASE stage \in {"dispatch", "finish"}
  <2>1. fsm = "PLAN_SKILL"
    BY <1>3 DEF ControlOK
  <2>2. \/ /\ stage = "finish"
           /\ FinishMove \/ \E i \in PartIndex : step = PickRetreatAt(i)
        \/ /\ stage = "dispatch"
           /\ \/ \E i \in PartIndex :
                    step \in {PickApproachAt(i), PickRetreatAt(i), PlaceApproachAt(i),
                              PlaceAt(i), PlaceRetreatAt(i)}
              \/ \E j \in JointIndex : step = JointApproachAt(j)
    <3>1. CASE stage = "finish"
      BY <2>1, <3>1
         DEF Uncalled, Prepare, Validate, BuildWorld, AcceptCorrection, RaiseUnknownPart,
             RejectCorrection, StartStep, CompleteJob, AtLoopHead, Judge, Verify, NextStep,
             Recover, Retry, Stop, Judged, PlanSucceeds, PlanFails, BeginPickApproach,
             FinishPickRetreat, BeginPickRetreat, BeginPlaceApproach, BeginPlace,
             BeginPlaceRetreat, BeginJointApproach, Dispatching, Finishing
    <3>2. CASE stage = "dispatch"
      <4>1. ~ (Prepare \/ StartStep \/ CompleteJob \/ FinishMove \/ Judge \/ PlanSucceeds)
        BY <2>1, <3>2
           DEF Prepare, Validate, BuildWorld, AcceptCorrection, RaiseUnknownPart,
               RejectCorrection, StartStep, CompleteJob, AtLoopHead, FinishMove, Judge, Verify,
               NextStep, Recover, Retry, Stop, Judged, PlanSucceeds
      <4>2. ~ \E reason \in PlanFailure : PlanFails(reason)
        BY <3>2 DEF PlanFails
      <4>3. \A i \in PartIndex : \A sighting \in Sightings(PartAt(i)) :
                /\ ~ FinishPickRetreat(i, sighting)
                /\ BeginPickApproach(i, sighting) => step = PickApproachAt(i)
        BY <3>2 DEF FinishPickRetreat, Finishing, BeginPickApproach, Dispatching
      <4>4. \A i \in PartIndex :
                /\ BeginPickRetreat(i) => step = PickRetreatAt(i)
                /\ BeginPlaceApproach(i) => step = PlaceApproachAt(i)
                /\ BeginPlace(i) => step = PlaceAt(i)
                /\ BeginPlaceRetreat(i) => step = PlaceRetreatAt(i)
        BY DEF BeginPickRetreat, BeginPlaceApproach, BeginPlace, BeginPlaceRetreat, Dispatching
      <4>5. \A j \in JointIndex : BeginJointApproach(j) => step = JointApproachAt(j)
        BY DEF BeginJointApproach, Dispatching
      <4>6. QED
        BY <3>2, <4>1, <4>2, <4>3, <4>4, <4>5 DEF Uncalled
    <3>3. QED
      BY <1>3, <3>1, <3>2
  <2>3. \A i \in PartIndex : /\ i \in Nat
                             /\ i >= 1
                             /\ i <= Len(PartOrder)
    BY Positions
  <2>4. \A j \in JointIndex : j \in Nat /\ j >= 1
    BY JointsAssumption DEF JointIndex
  <2>5. Len(PartOrder) \in Nat
    BY StepCountType
  <2>6. \A i \in PartIndex :
            (\E k \in PartIndex :
                step \in {PickApproachAt(k), PickRetreatAt(k), PlaceApproachAt(k), PlaceAt(k),
                          PlaceRetreatAt(k)})
                \/ (\E j \in JointIndex : step = JointApproachAt(j))
            => step # PickAt(i)
    <3>1. ASSUME NEW i \in PartIndex, NEW k \in PartIndex, NEW r \in {0, 2, 3, 4, 5}
          PROVE  6 * (k - 1) + r # 6 * (i - 1) + 1
      <4>1. i \in Int /\ k \in Int
        BY <2>3
      <4>2. QED
        BY <4>1
    <3>2. \A i, k \in PartIndex :
              PickAt(i) \notin {PickApproachAt(k), PickRetreatAt(k), PlaceApproachAt(k), PlaceAt(k),
                               PlaceRetreatAt(k)}
      <4>1. \A k \in PartIndex : PickApproachAt(k) = 6 * (k - 1) + 0
        BY <2>3 DEF PickApproachAt
      <4>2. QED
        BY <3>1, <4>1 DEF PickAt, PickRetreatAt, PlaceApproachAt, PlaceAt, PlaceRetreatAt
    <3>3. \A i \in PartIndex, j \in JointIndex : PickAt(i) # JointApproachAt(j)
      BY <2>3, <2>4, <2>5 DEF PickAt, JointApproachAt
    <3>4. QED
      BY <3>2, <3>3
  <2>7. \A i \in PartIndex :
            (\E k \in PartIndex : step = PickRetreatAt(k)) =>
                step # PickAt(i) /\ step # PlaceAt(i)
    BY <2>3 DEF PickAt, PickRetreatAt, PlaceAt
  <2>8. QED
    BY <1>3, <2>2, <2>6, <2>7 DEF FinishMove, Dispatching, Finishing
<1>4. QED
  BY <1>1, <1>2, <1>3

LEMMA CallStart == RosInit => CallOK
BY DEF RosInit, CallOK

LEMMA CallPreserved == AttemptOK /\ CallOK /\ [RosNext \/ RosDone]_rosVars => CallOK'
<1> SUFFICES ASSUME AttemptOK, CallOK, [RosNext \/ RosDone]_rosVars PROVE CallOK'
  OBVIOUS
<1>1. CASE call' = NoCall
  BY <1>1 DEF CallOK
<1>2. CASE Uncalled
  BY <1>1, <1>2, UncalledIsElsewhere DEF CallOK, Uncalled, adapterVars
<1>3. CASE RosExecutes \/ \E i \in PartIndex : RosPick(i) \/ RosFinishPick(i) \/ RosFinishPlace(i)
  BY <1>1, <1>3 DEF RosExecutes, RosPick, RosFinishPick, RosFinishPlace, Answered
<1>4. CASE UNCHANGED <<vars, call>>
  BY <1>4 DEF CallOK, vars, jobVars, AtCall, Dispatching, Finishing, Waiting
<1>5. ASSUME UNCHANGED vars, NEW op \in Op, NEW phase \in Phase, Proceeds(op, phase), AtCall(op)
      PROVE  CallOK'
  BY <1>5 DEF CallOK, Proceeds, vars, jobVars, AtCall, Dispatching, Finishing, Waiting
<1>6. ASSUME NEW op \in Op, NEW phase \in Phase, Waiting(op, phase)
      PROVE  AtCall(op)
  <2>1. call.op = op /\ op # "none"
    BY <1>6 DEF Waiting, Op
  <2>2. call # NoCall
    BY <2>1 DEF NoCall
  <2>3. PICK op2 \in Op, phase2 \in Phase : Waiting(op2, phase2) /\ AtCall(op2)
    BY <2>2 DEF CallOK
  <2>4. op2 = op
    BY <2>1, <2>3 DEF Waiting
  <2>5. QED
    BY <2>3, <2>4
<1>7. ASSUME NEW op \in Op, ClientStep(op)
      PROVE  CallOK'
  <2>1. CASE StartCall(op)
    BY <1>5, <2>1 DEF StartCall, Proceeds, Phase
  <2>2. CASE Send(op) \/ NoServer(op) \/ AcceptTimeout(op) \/ ResultTimeout(op)
    BY <1>5, <1>6, <2>2
       DEF Send, NoServer, AcceptTimeout, ResultTimeout, WhenLate, Phase, Answer
  <2>3. QED
    BY <1>7, <2>1, <2>2 DEF ClientStep
<1>8. CASE MoveItStep
  BY <1>5, <1>6, <1>8 DEF MoveItStep, MoveItSucceeds, MoveItFails, Phase, Answer
<1>9. ASSUME NEW s \in Controllers, ServerStep(s)
      PROVE  CallOK'
  <2>1. UNCHANGED vars
    BY <1>9 DEF ServerStep, Accept, Reject, Succeed, Abort
  <2>2. \/ call' = call
        \/ \E op \in Op, phase \in Phase, next \in {"result", "ok", "failed"} :
              Waiting(op, phase) /\ Proceeds(op, next)
    BY <1>9 DEF ServerStep, Accept, Reject, Succeed, Abort, Awaits, Awaited, Waiting, Proceeds,
                Phase, Answer
  <2>3. QED
    BY <1>4, <1>5, <1>6, <2>1, <2>2 DEF Phase, Answer
<1>10. QED
  BY <1>2, <1>3, <1>4, <1>7, <1>8, <1>9
     DEF RosNext, RosDone, ProcessStep, JobStep, rosVars, adapterVars

-------------------------------------------------------------------------------
(* The arm.                                                                 *)

(* What the servers hold are goals. *)
Goal == Pose \cup {"open", "closed"}
QueuesOK ==
    /\ requests \in [Controllers -> Seq(Goal)]
    /\ active \in [Controllers -> Seq(Goal)]

(* One motion at most is under way, and when it is not the one the call     *)
(* under way asked for, a controller error has been reported.               *)
ArmOK ==
    /\ \/ requests["arm"] = <<>> /\ active["arm"] = <<>>
       \/ \E g \in Pose : requests["arm"] = <<g>> /\ active["arm"] = <<>>
       \/ \E g \in Pose : requests["arm"] = <<>> /\ active["arm"] = <<g>>
    /\ requests["arm"] # <<>> \/ active["arm"] # <<>> =>
           \/ Waiting("execute", "accept") \/ Waiting("execute", "result")
           \/ Waiting("execute", "failed")
           \/ outcome.exec = "CONTROLLER_ERROR"
    /\ Waiting("execute", "accept") => requests["arm"] = <<target>>
    /\ Waiting("execute", "result") => active["arm"] = <<target>>
    /\ outcome.exec \in {"none", "SUCCESS", "CONTROLLER_ERROR"}
    /\ arm \in Pose

AdapterOK == CallOK /\ TargetOK /\ QueuesOK /\ ArmOK

(* A call of the arm is under way while the job waits to execute.           *)
LEMMA CallsByStage ==
    ASSUME AttemptOK, CallOK
    PROVE  /\ \A phase \in Phase :
                  Waiting("execute", phase) => stage = "execute" /\ outcome.exec = "none"
           /\ call = NoCall => \A op \in Op, phase \in Phase : ~ Waiting(op, phase)
           /\ \A op, op2 \in Op, phase, phase2 \in Phase :
                  Waiting(op, phase) /\ Waiting(op2, phase2) => op = op2 /\ phase = phase2
<1>1. \A op \in Op, phase \in Phase : Waiting(op, phase) => call.op = op /\ call.phase = phase
  BY DEF Waiting
<1>2. NoCall.op \notin Op
  BY DEF NoCall, Op
<1>3. ASSUME NEW phase \in Phase, Waiting("execute", phase)
      PROVE  stage = "execute" /\ outcome.exec = "none"
  <2>1. call.op = "execute" /\ call # NoCall
    BY <1>1, <1>2, <1>3 DEF Op
  <2>2. AtCall("execute")
    BY <1>1, <2>1 DEF CallOK
  <2>3. stage = "execute"
    BY <2>2 DEF AtCall
  <2>4. QED
    BY <2>3 DEF AttemptOK, ControlOK, Untried
<1>4. QED
  BY <1>1, <1>2, <1>3

(* The job's own steps lose no controller error, and report none.           *)
LEMMA VerdictKept ==
    ASSUME AttemptOK, ArmOK,
           Uncalled \/ \E i \in PartIndex : RosPick(i) \/ RosFinishPick(i) \/ RosFinishPlace(i)
    PROVE  \/ outcome'.exec = outcome.exec
           \/ outcome.exec = "SUCCESS" /\ outcome'.exec = "none"
<1> USE DEF AttemptOK, TypeOK
<1>1. outcome \in Outcome
  OBVIOUS
<1>2. CASE UNCHANGED outcome
  BY <1>2
<1>3. CASE StartStep
  <2>1. outcome.exec # "CONTROLLER_ERROR"
    BY <1>3 DEF StartStep, AtLoopHead, ControllerErrorOK
  <2>2. QED
    BY <1>3, <2>1 DEF StartStep, Untried, ArmOK
<1>4. ASSUME NEW reason \in PlanFailure, PlanFails(reason)
      PROVE  outcome'.exec = outcome.exec
  BY <1>1, <1>4 DEF PlanFails, Return, Outcome
<1>5. CASE PlanSucceeds
  BY <1>1, <1>5 DEF PlanSucceeds, Outcome
<1>6. ASSUME NEW i \in PartIndex, NEW closed, NEW verified, FinishPick(i, closed, verified)
      PROVE  outcome'.exec = outcome.exec
  BY <1>1, <1>6 DEF FinishPick, Return, Outcome
<1>7. ASSUME NEW i \in PartIndex, NEW sighting, FinishPickRetreat(i, sighting)
      PROVE  outcome'.exec = outcome.exec
  BY <1>1, <1>7 DEF FinishPickRetreat, Return, Outcome
<1>8. CASE Prepare \/ CompleteJob \/ FinishMove \/ Judge
  BY <1>2, <1>8 DEF Prepare, Validate, BuildWorld, AcceptCorrection, RaiseUnknownPart,
                    RejectCorrection, CompleteJob, FinishMove, Return, Judge, Verify, NextStep,
                    Recover, Retry, Stop
<1>9. CASE \/ \E i \in PartIndex :
                 \/ \E sighting \in Sightings(PartAt(i)) : BeginPickApproach(i, sighting)
                 \/ BeginPickRetreat(i) \/ BeginPlaceApproach(i) \/ BeginPlace(i)
                 \/ BeginPlaceRetreat(i) \/ BeginPick(i) \/ FinishPlace(i)
           \/ \E j \in JointIndex : BeginJointApproach(j)
  BY <1>2, <1>9 DEF BeginPickApproach, BeginPickRetreat, BeginPlaceApproach, BeginPlace,
                    BeginPlaceRetreat, BeginPick, FinishPlace, Return, BeginJointApproach,
                    PlanToStandOff, PlanTo
<1>10. CASE Uncalled
  BY <1>3, <1>4, <1>5, <1>7, <1>8, <1>9, <1>10 DEF Uncalled
<1>11. ASSUME NEW i \in PartIndex, RosPick(i) \/ RosFinishPick(i) \/ RosFinishPlace(i)
       PROVE  \/ outcome'.exec = outcome.exec
              \/ outcome.exec = "SUCCESS" /\ outcome'.exec = "none"
  BY <1>6, <1>9, <1>11 DEF RosPick, RosFinishPick, RosFinishPlace
<1>12. QED
  BY <1>10, <1>11

(* Goals that are sent are goals. *)
LEMMA GoalType ==
    ASSUME TargetOK, NEW op \in Op, AtCall(op)
    PROVE  /\ GoalOf(op) \in Goal
           /\ op = "execute" => GoalOf(op) = target /\ target \in Pose
           /\ op # "execute" => GoalOf(op) \in {"open", "closed"}
<1>1. GoalOf("execute") = target
  BY DEF GoalOf
<1>2. GoalOf("close") = "closed"
  BY DEF GoalOf
<1>3. GoalOf("open") = "open" /\ GoalOf("release") = "open"
  BY DEF GoalOf
<1>4. op = "execute" => target \in Pose
  BY DEF AtCall, TargetOK
<1>5. QED
  BY <1>1, <1>2, <1>3, <1>4 DEF Op, Goal

LEMMA QueuesPreserved ==
    AttemptOK /\ CallOK /\ TargetOK /\ QueuesOK /\ [RosNext \/ RosDone]_rosVars => QueuesOK'
<1> SUFFICES ASSUME AttemptOK, CallOK, TargetOK, QueuesOK, [RosNext \/ RosDone]_rosVars
             PROVE  QueuesOK'
  OBVIOUS
<1>1. CASE UNCHANGED <<requests, active>>
  BY <1>1 DEF QueuesOK
<1>2. ASSUME NEW op \in Op, Send(op)
      PROVE  QueuesOK'
  <2>1. AtCall(op)
    BY <1>2, CallsByStage DEF Send, CallOK, Phase
  <2>2. GoalOf(op) \in Goal /\ ServerOf(op) \in Controllers
    BY <2>1, GoalType DEF ServerOf, Controllers
  <2>3. requests[ServerOf(op)] \in Seq(Goal)
    BY <2>2 DEF QueuesOK
  <2>4. Append(requests[ServerOf(op)], GoalOf(op)) \in Seq(Goal)
    BY <2>2, <2>3
  <2>5. /\ requests' = [requests EXCEPT ![ServerOf(op)] =
                            Append(requests[ServerOf(op)], GoalOf(op))]
        /\ active' = active
    BY <1>2 DEF Send
  <2>6. ASSUME NEW c \in Controllers, NEW q \in Seq(Goal), requests' = [requests EXCEPT ![c] = q]
        PROVE  requests' \in [Controllers -> Seq(Goal)]
    BY <2>6 DEF QueuesOK
  <2>7. requests' \in [Controllers -> Seq(Goal)]
    BY <2>2, <2>4, <2>5, <2>6
  <2>8. active' \in [Controllers -> Seq(Goal)]
    BY <1>2 DEF Send, QueuesOK
  <2>9. QED
    BY <2>7, <2>8 DEF QueuesOK
<1>3. ASSUME NEW s \in Controllers, ServerStep(s)
      PROVE  QueuesOK'
  <2>1. requests[s] \in Seq(Goal) /\ active[s] \in Seq(Goal)
    BY DEF QueuesOK
  <2>2. CASE Accept(s)
    <3>1. Tail(requests[s]) \in Seq(Goal) /\ <<Head(requests[s])>> \in Seq(Goal)
      BY <2>1, <2>2 DEF Accept
    <3>2. QED
      BY <2>2, <3>1 DEF Accept, QueuesOK
  <2>3. CASE Reject(s)
    <3>1. Tail(requests[s]) \in Seq(Goal)
      BY <2>1, <2>3 DEF Reject
    <3>2. QED
      BY <2>3, <3>1 DEF Reject, QueuesOK
  <2>4. CASE Succeed(s) \/ Abort(s)
    <3>1. <<>> \in Seq(Goal)
      OBVIOUS
    <3>2. active' = [active EXCEPT ![s] = <<>>] /\ requests' = requests
      BY <2>4 DEF Succeed, Abort
    <3>3. QED
      BY <3>1, <3>2 DEF QueuesOK
  <2>5. QED
    BY <1>3, <2>2, <2>3, <2>4 DEF ServerStep
<1>4. QED
  BY <1>1, <1>2, <1>3
     DEF RosNext, RosDone, ProcessStep, JobStep, Uncalled, RosExecutes, RosPick, RosFinishPick,
         RosFinishPlace, Answered, ClientStep, StartCall, NoServer, AcceptTimeout, ResultTimeout,
         MoveItStep, MoveItSucceeds, MoveItFails, rosVars, adapterVars

(* Whom a server's answer reaches. *)
LEMMA Answers ==
    ASSUME NEW phase \in Phase, NEW next \in Phase
    PROVE  /\ Awaited("arm", phase) <=> Waiting("execute", phase)
           /\ Awaited("hand", phase) <=> \E op \in Op \ {"execute"} : Waiting(op, phase)
           /\ \A op \in Op : Waiting(op, phase) =>
                  [call EXCEPT !.phase = next] = [op |-> op, phase |-> next]
BY DEF Awaited, ServerOf, Op, Waiting

(* A step that does not concern the arm, taken when the job is not waiting  *)
(* for it either before or after, and which keeps a controller error.       *)
LEMMA ArmUnconcerned ==
    ASSUME AttemptOK, AdapterOK,
           requests'["arm"] = requests["arm"], active'["arm"] = active["arm"], arm' = arm,
           \A phase \in Phase : ~ Waiting("execute", phase),
           ~ Waiting("execute", "accept")', ~ Waiting("execute", "result")',
           \/ outcome'.exec = outcome.exec
           \/ outcome.exec = "SUCCESS" /\ outcome'.exec = "none"
    PROVE  ArmOK'
BY DEF AdapterOK, ArmOK, Phase, Answer

(* No such step is taken, or ends, with a call of the arm under way.        *)
LEMMA NoCallOfTheArm ==
    ASSUME AttemptOK, AdapterOK,
           Uncalled \/ \E i \in PartIndex : RosPick(i) \/ RosFinishPick(i) \/ RosFinishPlace(i)
    PROVE  /\ \A phase \in Phase : ~ Waiting("execute", phase)
           /\ call' = NoCall
<1>1. CASE Uncalled
  <2>1. call = NoCall
    BY <1>1, UncalledIsElsewhere DEF AdapterOK, CallOK
  <2>2. QED
    BY <1>1, <2>1, CallsByStage DEF Uncalled, adapterVars, AdapterOK, Op
<1>2. CASE \E i \in PartIndex : RosPick(i) \/ RosFinishPick(i) \/ RosFinishPlace(i)
  <2>1. PICK op \in Op \ {"execute"}, answer \in Answer : Answered(op, answer)
    BY <1>2 DEF RosPick, RosFinishPick, RosFinishPlace, Op
  <2>2. QED
    BY <2>1, CallsByStage DEF Answered, AdapterOK, Phase, Op
<1>3. QED
  BY <1>1, <1>2

(* The job's steps but those that follow an execute call. *)
LEMMA ArmJobStep ==
    ASSUME AttemptOK, AdapterOK,
           Uncalled \/ \E i \in PartIndex : RosPick(i) \/ RosFinishPick(i) \/ RosFinishPlace(i)
    PROVE  ArmOK'
<1>1. UNCHANGED <<requests, active, arm>>
  BY DEF Uncalled, adapterVars, RosPick, RosFinishPick, RosFinishPlace, Answered
<1>2. /\ \A phase \in Phase : ~ Waiting("execute", phase)
      /\ call' = NoCall
  BY NoCallOfTheArm
<1>3. ~ Waiting("execute", "accept")' /\ ~ Waiting("execute", "result")'
  BY <1>2 DEF Waiting, NoCall
<1>4. \/ outcome'.exec = outcome.exec
      \/ outcome.exec = "SUCCESS" /\ outcome'.exec = "none"
  BY VerdictKept DEF AdapterOK
<1>5. QED
  BY <1>1, <1>2, <1>3, <1>4, ArmUnconcerned

LEMMA ArmClientStep ==
    ASSUME AttemptOK, AdapterOK, NEW op \in Op, ClientStep(op)
    PROVE  ArmOK'
<1> USE DEF AdapterOK
<1>1. UNCHANGED <<vars, active, arm>> /\ outcome' = outcome /\ target' = target
  BY DEF ClientStep, StartCall, Send, NoServer, AcceptTimeout, ResultTimeout, vars, jobVars
<1>2. CASE op # "execute"
  <2>1. requests'["arm"] = requests["arm"]
    BY <1>2 DEF ClientStep, StartCall, Send, NoServer, AcceptTimeout, ResultTimeout, ServerOf,
                QueuesOK, Controllers
  <2>2. \A phase \in Phase : ~ Waiting("execute", phase)
    <3>1. call = NoCall \/ \E phase \in Phase : Waiting(op, phase)
      BY DEF ClientStep, StartCall, Send, NoServer, AcceptTimeout, ResultTimeout, Phase
    <3>2. QED
      BY <1>2, <3>1, CallsByStage DEF Op
  <2>3. call'.op = op
    BY DEF ClientStep, StartCall, Send, NoServer, AcceptTimeout, ResultTimeout, Proceeds
  <2>4. ~ Waiting("execute", "accept")' /\ ~ Waiting("execute", "result")'
    BY <1>2, <2>3 DEF Waiting
  <2>5. QED
    BY <1>1, <2>1, <2>2, <2>4, ArmUnconcerned
<1>3. CASE op = "execute"
  <2>1. CASE StartCall(op)
    <3>1. \A phase \in Phase : ~ Waiting("execute", phase)
      BY <2>1, CallsByStage DEF StartCall, Op
    <3>2. call'.phase \notin {"accept", "result"}
      BY <2>1 DEF StartCall
    <3>3. ~ Waiting("execute", "accept")' /\ ~ Waiting("execute", "result")'
      BY <3>2 DEF Waiting
    <3>4. QED
      BY <1>1, <2>1, <3>1, <3>3, ArmUnconcerned DEF StartCall
  <2>2. CASE Send(op)
    <3>1. /\ Waiting("execute", "server")
          /\ outcome.exec = "none"
          /\ \A phase \in Phase : phase # "server" => ~ Waiting("execute", phase)
      BY <1>3, <2>2, CallsByStage DEF Send, Phase, Op
    <3>2. requests["arm"] = <<>> /\ active["arm"] = <<>>
      BY <3>1 DEF ArmOK, Phase, Answer
    <3>3. AtCall("execute")
      BY <3>1, CallsByStage DEF AtCall, Phase
    <3>4. GoalOf("execute") = target /\ target \in Pose
      BY <3>3, GoalType DEF Op
    <3>5. requests'["arm"] = Append(requests["arm"], GoalOf("execute"))
      BY <1>3, <2>2 DEF Send, ServerOf, QueuesOK, Controllers
    <3>6. requests'["arm"] = <<target>>
      BY <3>2, <3>4, <3>5
    <3>7. call' = [op |-> "execute", phase |-> "accept"]
      BY <1>3, <2>2 DEF Send, Proceeds
    <3>8. Waiting("execute", "accept")' /\ ~ Waiting("execute", "result")'
      BY <3>7 DEF Waiting
    <3>9. QED
      BY <1>1, <3>1, <3>2, <3>4, <3>6, <3>8 DEF ArmOK
  <2>3. CASE NoServer(op) \/ AcceptTimeout(op) \/ ResultTimeout(op)
    <3>1. call' = [op |-> "execute", phase |-> "failed"] /\ requests' = requests
      BY <1>3, <2>3 DEF NoServer, AcceptTimeout, ResultTimeout, Proceeds, WhenLate
    <3>2. /\ Waiting("execute", "failed")'
          /\ ~ Waiting("execute", "accept")'
          /\ ~ Waiting("execute", "result")'
      BY <3>1 DEF Waiting
    <3>3. QED
      BY <1>1, <3>1, <3>2 DEF ArmOK
  <2>4. QED
    BY <2>1, <2>2, <2>3 DEF ClientStep
<1>4. QED
  BY <1>2, <1>3

LEMMA ArmMoveItStep ==
    ASSUME AttemptOK, AdapterOK, NEW op \in Op, MoveItSucceeds(op) \/ MoveItFails(op)
    PROVE  ArmOK'
<1> USE DEF AdapterOK
<1>1. /\ UNCHANGED <<vars, requests, active>>
      /\ outcome' = outcome
      /\ Waiting(op, "moveit")
      /\ call'.phase \in {"ok", "failed"}
  BY DEF MoveItSucceeds, MoveItFails, Proceeds, vars, jobVars
<1>2. ~ Waiting("execute", "accept")' /\ ~ Waiting("execute", "result")'
  BY <1>1 DEF Waiting
<1>3. CASE op # "execute"
  <2>1. arm' = arm
    BY <1>3 DEF MoveItSucceeds, MoveItFails
  <2>2. \A phase \in Phase : ~ Waiting("execute", phase)
    BY <1>1, <1>3, CallsByStage DEF Phase, Op
  <2>3. QED
    BY <1>1, <1>2, <2>1, <2>2, ArmUnconcerned
<1>4. CASE op = "execute"
  <2>1. /\ stage = "execute"
        /\ outcome.exec = "none"
        /\ \A phase \in Phase : phase # "moveit" => ~ Waiting("execute", phase)
    BY <1>1, <1>4, CallsByStage DEF Phase, Op
  <2>2. requests["arm"] = <<>> /\ active["arm"] = <<>>
    BY <2>1 DEF ArmOK, Phase, Answer
  <2>3. arm' \in Pose
    BY <1>4, <2>1 DEF MoveItSucceeds, MoveItFails, ArmOK, TargetOK
  <2>4. QED
    BY <1>1, <1>2, <2>1, <2>2, <2>3 DEF ArmOK
<1>5. QED
  BY <1>3, <1>4

LEMMA ArmHandServer ==
    ASSUME AttemptOK, AdapterOK, ServerStep("hand")
    PROVE  ArmOK'
<1> USE DEF AdapterOK
<1>1. /\ UNCHANGED <<vars, arm>>
      /\ outcome' = outcome /\ target' = target
      /\ requests'["arm"] = requests["arm"] /\ active'["arm"] = active["arm"]
  BY DEF ServerStep, Accept, Reject, Succeed, Abort, QueuesOK, Controllers, vars, jobVars
<1>2. \/ call' = call
      \/ \E op \in Op \ {"execute"}, phase, next \in Phase :
            Waiting(op, phase) /\ call' = [op |-> op, phase |-> next]
  <2>1. \/ call' = call
        \/ \E phase, next \in Phase :
              Awaited("hand", phase) /\ call' = [call EXCEPT !.phase = next]
    BY DEF ServerStep, Accept, Reject, Succeed, Abort, Awaits, Phase, Answer
  <2>2. ASSUME NEW phase \in Phase, NEW next \in Phase,
               Awaited("hand", phase), call' = [call EXCEPT !.phase = next]
        PROVE  \E op \in Op \ {"execute"} :
                   Waiting(op, phase) /\ call' = [op |-> op, phase |-> next]
    BY <2>2, Answers
  <2>3. QED
    BY <2>1, <2>2
<1>3. CASE call' = call
  BY <1>1, <1>3 DEF ArmOK, Waiting
<1>4. ASSUME NEW op \in Op \ {"execute"}, NEW phase \in Phase, NEW next \in Phase,
             Waiting(op, phase), call' = [op |-> op, phase |-> next]
      PROVE  ArmOK'
  <2>1. \A ph \in Phase : ~ Waiting("execute", ph)
    BY <1>4, CallsByStage DEF Op
  <2>2. ~ Waiting("execute", "accept")' /\ ~ Waiting("execute", "result")'
    BY <1>4 DEF Waiting
  <2>3. QED
    BY <1>1, <2>1, <2>2, ArmUnconcerned
<1>5. QED
  BY <1>2, <1>3, <1>4

(* The arm's server takes a goal or ends one.                               *)
LEMMA ArmServerStep ==
    ASSUME AttemptOK, AdapterOK, ServerStep("arm")
    PROVE  ArmOK'
<1> USE DEF AdapterOK
<1>1. UNCHANGED vars /\ outcome' = outcome /\ target' = target
  BY DEF ServerStep, Accept, Reject, Succeed, Abort, vars, jobVars
<1>2. CASE requests["arm"] # <<>>
  <2>1. PICK g \in Pose : requests["arm"] = <<g>> /\ active["arm"] = <<>>
    BY <1>2 DEF ArmOK
  <2>2. Awaits("arm") <=> Waiting("execute", "accept")
    BY <2>1, Answers DEF Awaits, Phase
  <2>3. requests'["arm"] = <<>>
    BY <2>1 DEF ServerStep, Accept, Reject, Succeed, Abort, QueuesOK, Controllers
  <2>4. \/ active'["arm"] = <<g>> /\ Accept("arm")
        \/ active'["arm"] = <<>> /\ Reject("arm")
    BY <2>1 DEF ServerStep, Accept, Reject, Succeed, Abort, QueuesOK, Controllers
  <2>5. arm' = arm
    BY <2>4 DEF Accept, Reject
  <2>6. CASE Waiting("execute", "accept")
    <3>1. g = target /\ call = [op |-> "execute", phase |-> "accept"]
      BY <2>1, <2>6 DEF ArmOK, Waiting
    <3>2. CASE Accept("arm")
      <4>1. call' = [op |-> "execute", phase |-> "result"]
        BY <2>2, <2>6, <3>1, <3>2 DEF Accept
      <4>2. Waiting("execute", "result")' /\ ~ Waiting("execute", "accept")'
        BY <4>1 DEF Waiting
      <4>3. active'["arm"] = <<g>>
        BY <3>2, <2>1 DEF Accept, QueuesOK, Controllers
      <4>4. QED
        BY <1>1, <2>1, <2>3, <2>5, <3>1, <4>2, <4>3 DEF ArmOK
    <3>3. CASE Reject("arm")
      <4>1. call' = [op |-> "execute", phase |-> "failed"]
        BY <2>2, <2>6, <3>1, <3>3 DEF Reject
      <4>2. ~ Waiting("execute", "result")' /\ ~ Waiting("execute", "accept")'
        BY <4>1 DEF Waiting
      <4>3. active'["arm"] = <<>>
        BY <3>3, <2>1 DEF Reject
      <4>4. QED
        BY <1>1, <2>3, <2>5, <4>2, <4>3 DEF ArmOK
    <3>4. QED
      BY <2>4, <3>2, <3>3
  <2>7. CASE ~ Waiting("execute", "accept")
    <3>1. call' = call
      BY <2>2, <2>4, <2>7 DEF Accept, Reject
    <3>2. ~ Waiting("execute", "result")
      BY <2>1 DEF ArmOK
    <3>3. QED
      BY <1>1, <2>1, <2>3, <2>4, <2>5, <2>7, <3>1, <3>2 DEF ArmOK, Waiting
  <2>8. QED
    BY <2>6, <2>7
<1>3. CASE requests["arm"] = <<>>
  <2>1. Succeed("arm") \/ Abort("arm")
    BY <1>3 DEF ServerStep, Accept, Reject
  <2>2. PICK g \in Pose : active["arm"] = <<g>>
    BY <2>1 DEF Succeed, Abort, ArmOK
  <2>3. requests'["arm"] = <<>> /\ active'["arm"] = <<>>
    BY <1>3, <2>1 DEF Succeed, Abort, QueuesOK, Controllers
  <2>4. arm' \in Pose
    BY <2>1, <2>2 DEF Succeed, Abort, ArmOK
  <2>5. ~ Waiting("execute", "result")' /\ ~ Waiting("execute", "accept")'
    <3>1. ~ Waiting("execute", "accept")
      BY <1>3 DEF ArmOK
    <3>2. CASE Waiting("execute", "result")
      <4>1. /\ Awaited("arm", "result")
            /\ [call EXCEPT !.phase = "ok"] = [op |-> "execute", phase |-> "ok"]
            /\ [call EXCEPT !.phase = "failed"] = [op |-> "execute", phase |-> "failed"]
        BY <3>2, Answers DEF Phase, Answer, Op
      <4>2. QED
        BY <2>1, <4>1 DEF Succeed, Abort, Waiting
    <3>3. CASE ~ Waiting("execute", "result")
      BY <2>1, <3>1, <3>3, Answers DEF Succeed, Abort, Waiting, Phase
    <3>4. QED
      BY <3>2, <3>3
  <2>6. QED
    BY <1>1, <2>3, <2>4, <2>5 DEF ArmOK
<1>4. QED
  BY <1>2, <1>3

LEMMA ArmExecutes ==
    ASSUME AttemptOK, AdapterOK, RosExecutes
    PROVE  ArmOK'
<1> USE DEF AdapterOK
<1>1. /\ UNCHANGED <<requests, active, arm>>
      /\ call' = NoCall
  BY DEF RosExecutes, Answered
<1>2. ~ Waiting("execute", "result")' /\ ~ Waiting("execute", "accept")'
  BY <1>1 DEF Waiting, NoCall
<1>3. outcome \in Outcome
  BY DEF AttemptOK, TypeOK
<1>4. CASE Answered("execute", "ok") /\ ExecutionSucceeds
  <2>1. outcome'.exec = "SUCCESS"
    BY <1>3, <1>4 DEF ExecutionSucceeds, Outcome
  <2>2. /\ outcome.exec = "none"
        /\ \A phase \in Phase : phase # "ok" => ~ Waiting("execute", phase)
    BY <1>4, CallsByStage DEF Answered, Phase, Answer, Op
  <2>3. requests["arm"] = <<>> /\ active["arm"] = <<>>
    BY <2>2 DEF ArmOK, Phase, Answer
  <2>4. QED
    BY <1>1, <1>2, <2>1, <2>3 DEF ArmOK
<1>5. CASE Answered("execute", "failed") /\ ExecutionFails("CONTROLLER_ERROR")
  <2>1. outcome'.exec = "CONTROLLER_ERROR"
    BY <1>3, <1>5 DEF ExecutionFails, Return, Outcome
  <2>2. QED
    BY <1>1, <1>2, <2>1 DEF ArmOK
<1>6. QED
  BY <1>4, <1>5 DEF RosExecutes

LEMMA ArmPreserved == AttemptOK /\ AdapterOK /\ [RosNext \/ RosDone]_rosVars => ArmOK'
<1> SUFFICES ASSUME AttemptOK, AdapterOK, [RosNext \/ RosDone]_rosVars PROVE ArmOK'
  OBVIOUS
<1>1. CASE UNCHANGED <<vars, adapterVars>>
  BY <1>1 DEF AdapterOK, ArmOK, Waiting, vars, jobVars, adapterVars
<1>2. QED
  BY <1>1, ArmJobStep, ArmExecutes, ArmClientStep, ArmMoveItStep, ArmHandServer, ArmServerStep
     DEF RosNext, RosDone, ProcessStep, JobStep, MoveItStep, Controllers, rosVars

LEMMA AdapterStart == RosInit => AdapterOK
<1>1. RosInit => QueuesOK
  BY DEF RosInit, QueuesOK, Controllers
<1>2. RosInit => ArmOK
  BY RosAssumption DEF RosInit, Init, ArmOK, Untried, Waiting, NoCall, Controllers
<1>3. QED
  BY <1>1, <1>2, CallStart DEF AdapterOK, TargetOK, RosInit, Init

LEMMA AdapterPreserved == AttemptOK /\ AdapterOK /\ [RosNext \/ RosDone]_rosVars => AdapterOK'
BY CallPreserved, RosNextIsNext, JobStepsAreAny, TargetPreserved, QueuesPreserved, ArmPreserved
   DEF AdapterOK, AttemptOK

LEMMA AdapterAlways == RosSpec => [](AttemptOK /\ AdapterOK)
<1>1. AdapterOK /\ AttemptOK /\ [RosNext \/ RosDone]_rosVars => AdapterOK'
  BY AdapterPreserved
<1>2. QED
  BY <1>1, AdapterStart, AttemptAlways, PTL DEF RosSpec

(* ros_execution_adapter.py:89-125: however many goals a server may hold,   *)
(* and although none is ever cancelled, no motion is commanded while        *)
(* another is under way.                                                    *)
THEOREM OneMotion == RosSpec => []OneMotionAtATime
<1>1. AttemptOK /\ AdapterOK => OneMotionAtATime
  <2> SUFFICES ASSUME AttemptOK, AdapterOK PROVE OneMotionAtATime
    OBVIOUS
  <2>1. CASE requests["arm"] = <<>> /\ active["arm"] = <<>>
    BY <2>1 DEF OneMotionAtATime
  <2>2. CASE requests["arm"] # <<>> \/ active["arm"] # <<>>
    <3>1. ~ Waiting("execute", "moveit")
      BY <2>2, CallsByStage DEF AdapterOK, ArmOK, Phase, Answer, Op
    <3>2. CASE \E g \in Pose : requests["arm"] = <<g>> /\ active["arm"] = <<>>
      BY <3>1, <3>2 DEF OneMotionAtATime
    <3>3. CASE \E g \in Pose : requests["arm"] = <<>> /\ active["arm"] = <<g>>
      BY <3>1, <3>3 DEF OneMotionAtATime
    <3>4. QED
      BY <2>2, <3>2, <3>3 DEF AdapterOK, ArmOK
  <2>3. QED
    BY <2>1, <2>2
<1>2. QED
  BY <1>1, AdapterAlways, PTL

-------------------------------------------------------------------------------
(* Start-up.                                                                *)

(* Until the arm's controller is active no motion of the job has succeeded. *)
ReadyOK ==
    /\ controller \in [Controllers -> {"none", "configured", "active"}]
    /\ ~ ServerActive("arm") =>
           step = 0 /\ outcome.exec # "SUCCESS" /\ ~ Waiting("execute", "ok")

(* A controller that is active stays so. *)
LEMMA ControllersCome ==
    ASSUME ReadyOK, [RosNext \/ RosDone]_rosVars
    PROVE  /\ controller' \in [Controllers -> {"none", "configured", "active"}]
           /\ ServerActive("arm") => ServerActive("arm")'
<1>1. CASE UNCHANGED controller
  BY <1>1 DEF ReadyOK, ServerActive
<1>2. ASSUME NEW c \in Controllers, Configure(c) \/ Activate(c)
      PROVE  /\ controller' \in [Controllers -> {"none", "configured", "active"}]
             /\ ServerActive("arm") => ServerActive("arm")'
  BY <1>2 DEF Configure, Activate, ReadyOK, ServerActive, Controllers
<1>3. CASE LaunchStep
  BY <1>1, <1>2, <1>3 DEF LaunchStep, RobotSpawned, SpawnerExits, WaitForArm, WaitForJoints
<1>4. CASE Uncalled \/ RosExecutes
           \/ \E i \in PartIndex : RosPick(i) \/ RosFinishPick(i) \/ RosFinishPlace(i)
  BY <1>1, <1>4 DEF Uncalled, RosExecutes, RosPick, RosFinishPick, RosFinishPlace, Answered,
                    launchVars
<1>5. CASE (\E op \in Op : ClientStep(op)) \/ MoveItStep \/ UNCHANGED rosVars
  BY <1>1, <1>5 DEF ClientStep, StartCall, Send, NoServer, AcceptTimeout, ResultTimeout,
                    MoveItStep, MoveItSucceeds, MoveItFails, launchVars, rosVars
<1>6. CASE \E s \in Controllers : ServerStep(s)
  BY <1>1, <1>6 DEF ServerStep, Accept, Reject, Succeed, Abort, launchVars
<1>7. QED
  BY <1>3, <1>4, <1>5, <1>6 DEF RosNext, RosDone, ProcessStep, JobStep

(* A step of the job on its own account counts nothing as done. *)
LEMMA NoneDoneByTheJob ==
    ASSUME AttemptOK, AdapterOK, step = 0, outcome.exec # "SUCCESS",
           Uncalled \/ \E i \in PartIndex : RosPick(i) \/ RosFinishPick(i) \/ RosFinishPlace(i)
    PROVE  step' = 0 /\ outcome'.exec # "SUCCESS" /\ ~ Waiting("execute", "ok")'
<1>1. outcome'.exec # "SUCCESS"
  BY VerdictKept DEF AdapterOK
<1>2. ~ Waiting("execute", "ok")'
  BY NoCallOfTheArm DEF Waiting, NoCall
<1>3. fsm = "VERIFY" => FALSE
  BY DEF AttemptOK, ControlOK, Succeeded
<1>4. ASSUME NEW i \in PartIndex, RosPick(i) \/ RosFinishPick(i) \/ RosFinishPlace(i)
      PROVE  step' = step
  <2>1. CASE RosPick(i)
    BY <2>1 DEF RosPick, BeginPick, PlanTo
  <2>2. CASE RosFinishPick(i)
    BY <2>2 DEF RosFinishPick, FinishPick, Return
  <2>3. CASE RosFinishPlace(i)
    BY <2>3 DEF RosFinishPlace, FinishPlace, Return
  <2>4. QED
    BY <1>4, <2>1, <2>2, <2>3
<1>5. ASSUME Uncalled
      PROVE  step' = step
  <2>1. CASE Prepare
    BY <2>1 DEF Prepare, Validate, BuildWorld, AcceptCorrection, RaiseUnknownPart,
                RejectCorrection
  <2>2. CASE StartStep \/ CompleteJob \/ FinishMove \/ PlanSucceeds
             \/ \E reason \in PlanFailure : PlanFails(reason)
    BY <2>2 DEF StartStep, CompleteJob, FinishMove, PlanSucceeds, PlanFails, Return
  <2>3. CASE Judge
    BY <1>3, <2>3 DEF Judge, Verify, NextStep, Recover, Retry, Stop
  <2>4. ASSUME NEW i \in PartIndex, NEW sighting \in Sightings(PartAt(i)),
               BeginPickApproach(i, sighting) \/ FinishPickRetreat(i, sighting)
        PROVE  step' = step
    BY <2>4 DEF BeginPickApproach, FinishPickRetreat, PlanTo, PlanToStandOff, Return
  <2>5. ASSUME NEW i \in PartIndex,
               \/ BeginPickRetreat(i) \/ BeginPlaceApproach(i)
               \/ BeginPlace(i) \/ BeginPlaceRetreat(i)
        PROVE  step' = step
    BY <2>5 DEF BeginPickRetreat, BeginPlaceApproach, BeginPlace, BeginPlaceRetreat, PlanTo,
                PlanToStandOff
  <2>6. ASSUME NEW j \in JointIndex, BeginJointApproach(j)
        PROVE  step' = step
    BY <2>6 DEF BeginJointApproach, PlanTo, PlanToStandOff
  <2>7. QED
    BY <1>5, <2>1, <2>2, <2>3, <2>4, <2>5, <2>6 DEF Uncalled
<1>6. QED
  BY <1>1, <1>2, <1>4, <1>5

LEMMA ReadyPreserved ==
    AttemptOK /\ AdapterOK /\ ReadyOK /\ [RosNext \/ RosDone]_rosVars => ReadyOK'
<1> SUFFICES ASSUME AttemptOK, AdapterOK, ReadyOK, [RosNext \/ RosDone]_rosVars,
                    ~ ServerActive("arm")'
             PROVE  step' = 0 /\ outcome'.exec # "SUCCESS" /\ ~ Waiting("execute", "ok")'
  BY ControllersCome DEF ReadyOK
<1>1. ~ ServerActive("arm")
  BY ControllersCome
<1>2. step = 0 /\ outcome.exec # "SUCCESS" /\ ~ Waiting("execute", "ok")
  BY <1>1 DEF ReadyOK
<1>3. CASE Uncalled \/ \E i \in PartIndex : RosPick(i) \/ RosFinishPick(i) \/ RosFinishPlace(i)
  BY <1>2, <1>3, NoneDoneByTheJob
<1>4. CASE RosExecutes
  <2>1. Answered("execute", "failed") /\ ExecutionFails("CONTROLLER_ERROR")
    BY <1>2, <1>4 DEF RosExecutes, Answered
  <2>2. outcome \in Outcome
    BY DEF AttemptOK, TypeOK
  <2>3. outcome'.exec = "CONTROLLER_ERROR" /\ step' = step
    BY <2>1, <2>2 DEF ExecutionFails, Return, Outcome
  <2>4. QED
    BY <1>2, <2>1, <2>3 DEF Answered, Waiting, NoCall
<1>5. CASE UNCHANGED <<vars, call>>
  BY <1>2, <1>5 DEF vars, jobVars, Waiting
<1>6. ASSUME NEW op \in Op, ClientStep(op)
      PROVE  step' = 0 /\ outcome'.exec # "SUCCESS" /\ ~ Waiting("execute", "ok")'
  BY <1>2, <1>6 DEF ClientStep, StartCall, Send, NoServer, AcceptTimeout, ResultTimeout, Proceeds,
                    WhenLate, Waiting, vars, jobVars
<1>7. CASE MoveItStep
  BY <1>1, <1>2, <1>7 DEF MoveItStep, MoveItSucceeds, MoveItFails, ServerOf, Proceeds, Waiting,
                          vars, jobVars
<1>8. ASSUME NEW s \in Controllers, ServerStep(s)
      PROVE  step' = 0 /\ outcome'.exec # "SUCCESS" /\ ~ Waiting("execute", "ok")'
  <2>1. UNCHANGED vars
    BY <1>8 DEF ServerStep, Accept, Reject, Succeed, Abort
  <2>2. CASE call' = call
    BY <1>5, <2>1, <2>2
  <2>3. CASE Accept(s) \/ Reject(s) \/ Abort(s)
    <3>1. \/ call' = call
          \/ \E op \in Op, next \in {"result", "failed"} : Proceeds(op, next)
      BY <2>3 DEF Accept, Reject, Abort, Awaits, Awaited, Waiting, Proceeds
    <3>2. QED
      BY <1>2, <2>1, <2>2, <3>1 DEF Proceeds, Waiting, vars, jobVars
  <2>4. CASE Succeed(s)
    <3>1. s = "hand"
      BY <1>1, <2>4 DEF Succeed, Controllers
    <3>2. \/ call' = call
          \/ \E op \in Op \ {"execute"} : Proceeds(op, "ok")
      BY <2>4, <3>1 DEF Succeed, Awaited, Waiting, Proceeds, ServerOf
    <3>3. QED
      BY <1>2, <2>1, <2>2, <3>2 DEF Proceeds, Waiting, vars, jobVars
  <2>5. QED
    BY <1>8, <2>3, <2>4 DEF ServerStep
<1>9. CASE LaunchStep /\ UNCHANGED <<vars, adapterVars>>
  BY <1>5, <1>9 DEF adapterVars
<1>10. QED
  BY <1>3, <1>4, <1>5, <1>6, <1>7, <1>8, <1>9
     DEF RosNext, RosDone, ProcessStep, JobStep, rosVars, adapterVars

(* docs/moveit2_integration_notes.md:248-249, ros_execution_adapter.py:     *)
(* 129-167: whatever made the chain of start-up go on, no step of the       *)
(* recipe is done before the arm's controller is active.                    *)
THEOREM NothingDoneWithoutArm == RosSpec => []NoStepWithoutArm
<1>1. ReadyOK /\ AttemptOK /\ AdapterOK /\ [RosNext \/ RosDone]_rosVars => ReadyOK'
  BY ReadyPreserved
<1>2. RosInit => ReadyOK
  BY DEF RosInit, Init, LaunchInit, ReadyOK, Untried, Waiting, NoCall
<1>3. ReadyOK => NoStepWithoutArm
  BY DEF ReadyOK, NoStepWithoutArm
<1>4. QED
  BY <1>1, <1>2, <1>3, AdapterAlways, PTL DEF RosSpec

-------------------------------------------------------------------------------
(* The refinement: every step is one of the motion port or leaves its       *)
(* variables alone.                                                         *)

PortStep == [Motions!Next]_(Motions!motionVars)
PortQuiet == UNCHANGED <<arm, MotionUnderWay, Report>>

LEMMA QuietIsPortStep == PortQuiet => PortStep
BY DEF PortQuiet, PortStep, Motions!motionVars

(* What the port sees while no call of the arm is under way, ...            *)
LEMMA PortBetweenCalls ==
    ASSUME \A phase \in Phase : ~ Waiting("execute", phase)
    PROVE  /\ MotionUnderWay = IF requests["arm"] # <<>> THEN Head(requests["arm"])
                               ELSE IF active["arm"] # <<>> THEN Head(active["arm"])
                               ELSE NoPose
           /\ Report = IF outcome.exec = "SUCCESS" THEN "success"
                       ELSE IF outcome.exec # "none" THEN "error" ELSE "none"
BY DEF MotionUnderWay, Report, Phase, Answer

(* ... and while one is.                                                    *)
LEMMA PortDuringCall ==
    ASSUME AttemptOK, AdapterOK, NEW phase \in Phase, Waiting("execute", phase)
    PROVE  /\ Report = IF phase = "ok" THEN "success"
                       ELSE IF phase = "failed" THEN "error" ELSE "none"
           /\ phase \in {"server", "ok"} => MotionUnderWay = NoPose
           /\ phase \in {"accept", "result", "moveit"} => MotionUnderWay = target
           /\ phase # "failed" => target \in Pose
           /\ phase \in {"server", "moveit", "ok"} =>
                  requests["arm"] = <<>> /\ active["arm"] = <<>>
           /\ phase = "accept" => requests["arm"] = <<target>> /\ active["arm"] = <<>>
           /\ phase = "result" => requests["arm"] = <<>> /\ active["arm"] = <<target>>
<1> USE DEF AdapterOK
<1>1. /\ stage = "execute"
      /\ outcome.exec = "none"
      /\ \A ph \in Phase : Waiting("execute", ph) => ph = phase
  BY CallsByStage DEF Op
<1>2. target \in Pose
  BY <1>1 DEF TargetOK
<1>3. phase \in {"server", "moveit", "ok"} => requests["arm"] = <<>> /\ active["arm"] = <<>>
  BY <1>1 DEF ArmOK, Phase, Answer
<1>4. phase = "accept" => requests["arm"] = <<target>> /\ active["arm"] = <<>>
  BY DEF ArmOK
<1>5. phase = "result" => requests["arm"] = <<>> /\ active["arm"] = <<target>>
  BY DEF ArmOK
<1>6. Report = IF phase = "ok" THEN "success" ELSE IF phase = "failed" THEN "error" ELSE "none"
  BY <1>1 DEF Report, Phase, Answer
<1>7. Waiting("execute", "moveit") <=> phase = "moveit"
  BY <1>1 DEF Phase
<1>8. QED
  BY <1>2, <1>3, <1>4, <1>5, <1>6, <1>7 DEF MotionUnderWay

LEMMA PortJobStep ==
    ASSUME AttemptOK, AdapterOK,
           Uncalled \/ \E i \in PartIndex : RosPick(i) \/ RosFinishPick(i) \/ RosFinishPlace(i)
    PROVE  PortStep
<1>1. UNCHANGED <<requests, active, arm>>
  BY DEF Uncalled, adapterVars, RosPick, RosFinishPick, RosFinishPlace, Answered
<1>2. /\ \A phase \in Phase : ~ Waiting("execute", phase)
      /\ call' = NoCall
  BY NoCallOfTheArm
<1>3. \A phase : ~ Waiting("execute", phase)'
  BY <1>2 DEF Waiting, NoCall
<1>4. MotionUnderWay' = MotionUnderWay
  BY <1>1, <1>2, <1>3 DEF MotionUnderWay, Phase
<1>5. Report' = IF outcome'.exec = "SUCCESS" THEN "success"
                ELSE IF outcome'.exec # "none" THEN "error" ELSE "none"
  BY <1>3 DEF Report
<1>6. \/ outcome'.exec = outcome.exec
      \/ outcome.exec = "SUCCESS" /\ outcome'.exec = "none"
  BY VerdictKept DEF AdapterOK
<1>7. CASE outcome'.exec = outcome.exec
  BY <1>1, <1>2, <1>4, <1>5, <1>7, PortBetweenCalls, QuietIsPortStep DEF PortQuiet
<1>8. CASE outcome.exec = "SUCCESS" /\ outcome'.exec = "none"
  <2>1. Motions!Proceed
    BY <1>1, <1>2, <1>4, <1>5, <1>8, PortBetweenCalls DEF Motions!Proceed
  <2>2. QED
    BY <2>1 DEF PortStep, Motions!Next
<1>9. QED
  BY <1>6, <1>7, <1>8

LEMMA PortExecutes ==
    ASSUME AttemptOK, AdapterOK, RosExecutes
    PROVE  PortStep
<1>1. UNCHANGED <<requests, active, arm>> /\ call' = NoCall
  BY DEF RosExecutes, Answered
<1>2. \A phase : ~ Waiting("execute", phase)'
  BY <1>1 DEF Waiting, NoCall
<1>3. ~ Waiting("execute", "moveit")
  BY CallsByStage DEF RosExecutes, Answered, AdapterOK, Phase, Answer, Op
<1>4. MotionUnderWay' = MotionUnderWay
  BY <1>1, <1>2, <1>3 DEF MotionUnderWay
<1>5. Report' = Report
  <2>1. outcome \in Outcome
    BY DEF AttemptOK, TypeOK
  <2>2. CASE Answered("execute", "ok") /\ ExecutionSucceeds
    <3>1. outcome'.exec = "SUCCESS"
      BY <2>1, <2>2 DEF ExecutionSucceeds, Outcome
    <3>2. QED
      BY <2>2, <3>1 DEF Answered, Report
  <2>3. CASE Answered("execute", "failed") /\ ExecutionFails("CONTROLLER_ERROR")
    <3>1. outcome'.exec = "CONTROLLER_ERROR"
      BY <2>1, <2>3 DEF ExecutionFails, Return, Outcome
    <3>2. Report = "error"
      BY <2>3, PortDuringCall DEF Answered, Phase, Answer
    <3>3. QED
      BY <1>2, <3>1, <3>2 DEF Report
  <2>4. QED
    BY <2>2, <2>3 DEF RosExecutes
<1>6. QED
  BY <1>1, <1>4, <1>5, QuietIsPortStep DEF PortQuiet

(* A step that concerns another call than one of the arm. *)
LEMMA PortUnconcerned ==
    ASSUME requests'["arm"] = requests["arm"], active'["arm"] = active["arm"], arm' = arm,
           outcome' = outcome,
           \A phase \in Phase : ~ Waiting("execute", phase),
           call'.op # "execute"
    PROVE  PortStep
<1>1. \A phase : ~ Waiting("execute", phase)'
  BY DEF Waiting
<1>2. MotionUnderWay' = MotionUnderWay /\ Report' = Report
  BY <1>1 DEF MotionUnderWay, Report, Phase, Answer
<1>3. QED
  BY <1>2, QuietIsPortStep DEF PortQuiet

LEMMA PortClientStep ==
    ASSUME AttemptOK, AdapterOK, NEW op \in Op, ClientStep(op)
    PROVE  PortStep
<1> USE DEF AdapterOK
<1>1. UNCHANGED <<active, arm>> /\ outcome' = outcome /\ target' = target
  BY DEF ClientStep, StartCall, Send, NoServer, AcceptTimeout, ResultTimeout, vars, jobVars
<1>2. CASE op # "execute"
  <2>1. requests'["arm"] = requests["arm"]
    BY <1>2 DEF ClientStep, StartCall, Send, NoServer, AcceptTimeout, ResultTimeout, ServerOf,
                QueuesOK, Controllers
  <2>2. \A phase \in Phase : ~ Waiting("execute", phase)
    <3>1. call = NoCall \/ \E phase \in Phase : Waiting(op, phase)
      BY DEF ClientStep, StartCall, Send, NoServer, AcceptTimeout, ResultTimeout, Phase
    <3>2. QED
      BY <1>2, <3>1, CallsByStage DEF Op
  <2>3. call'.op # "execute"
    BY <1>2 DEF ClientStep, StartCall, Send, NoServer, AcceptTimeout, ResultTimeout, Proceeds
  <2>4. QED
    BY <1>1, <2>1, <2>2, <2>3, PortUnconcerned
<1>3. CASE op = "execute"
  <2>1. AdapterOK' /\ AttemptOK'
    <3>1. RosNext
      BY DEF RosNext, ProcessStep
    <3>2. QED
      BY <3>1, AdapterPreserved, RosNextIsNext, AttemptPreserved
  <2>2. CASE StartCall(op)
    <3>1. /\ \A phase \in Phase : ~ Waiting("execute", phase)
          /\ outcome.exec = "none"
          /\ stage = "execute"
      BY <1>3, <2>2, CallsByStage DEF StartCall, AtCall, AttemptOK, ControlOK, Untried, Op
    <3>2. requests["arm"] = <<>> /\ active["arm"] = <<>> /\ UNCHANGED <<requests, active>>
      BY <2>2, <3>1 DEF ArmOK, Phase, Answer, StartCall
    <3>3. MotionUnderWay = NoPose /\ Report = "none" /\ target \in Pose
      BY <3>1, <3>2, PortBetweenCalls DEF TargetOK
    <3>4. CASE call' = [op |-> "execute", phase |-> "server"]
      <4>1. \A phase \in Phase : Waiting("execute", phase)' => phase = "server"
        BY <3>4 DEF Waiting
      <4>2. MotionUnderWay' = NoPose /\ Report' = "none"
        BY <1>1, <3>1, <3>2, <4>1 DEF MotionUnderWay, Report, Phase, Answer
      <4>3. QED
        BY <1>1, <3>3, <4>2, QuietIsPortStep DEF PortQuiet
    <3>5. CASE call' = [op |-> "execute", phase |-> "moveit"]
      <4>1. \A phase \in Phase : Waiting("execute", phase)' <=> phase = "moveit"
        BY <3>5 DEF Waiting
      <4>2. MotionUnderWay' = target /\ Report' = "none"
        BY <1>1, <3>1, <4>1 DEF MotionUnderWay, Report, Phase, Answer
      <4>3. Motions!Command
        BY <1>1, <3>3, <4>2 DEF Motions!Command
      <4>4. QED
        BY <4>3 DEF PortStep, Motions!Next
    <3>6. QED
      BY <1>3, <2>2, <3>4, <3>5 DEF StartCall
  <2>3. ASSUME NEW before \in Phase, NEW after \in Phase,
               Waiting("execute", before), Waiting("execute", after)'
        PROVE  /\ Report = IF before = "ok" THEN "success"
                           ELSE IF before = "failed" THEN "error" ELSE "none"
               /\ Report' = IF after = "ok" THEN "success"
                            ELSE IF after = "failed" THEN "error" ELSE "none"
               /\ before \in {"server", "ok"} => MotionUnderWay = NoPose
               /\ before \in {"accept", "result", "moveit"} => MotionUnderWay = target
               /\ after \in {"accept", "result", "moveit"} => MotionUnderWay' = target
               /\ before # "failed" => target \in Pose
    <3>1. outcome.exec = "none" /\ \A ph \in Phase : Waiting("execute", ph)' => ph = after
      BY <2>3, CallsByStage DEF Waiting, Op
    <3>2. Report' = IF after = "ok" THEN "success"
                    ELSE IF after = "failed" THEN "error" ELSE "none"
      BY <1>1, <2>3, <3>1 DEF Report, Phase, Answer
    <3>3. after = "moveit" => MotionUnderWay' = target
      BY <1>1, <2>3 DEF MotionUnderWay
    <3>4. after = "accept" => MotionUnderWay' = target
      <4>1. after = "accept" => requests'["arm"] = <<target>> /\ ~ Waiting("execute", "moveit")'
        BY <1>1, <2>1, <2>3, <3>1 DEF ArmOK, Phase
      <4>2. <<target>> # <<>> /\ Head(<<target>>) = target
        OBVIOUS
      <4>3. QED
        BY <4>1, <4>2 DEF MotionUnderWay
    <3>5. after = "result" => MotionUnderWay' = target
      <4>1. after = "result" => /\ active'["arm"] = <<target>>
                                /\ ~ Waiting("execute", "moveit")'
                                /\ requests'["arm"] = <<>>
        BY <1>1, <2>1, <2>3, <3>1 DEF ArmOK, Phase
      <4>2. <<target>> # <<>> /\ Head(<<target>>) = target
        OBVIOUS
      <4>3. QED
        BY <4>1, <4>2 DEF MotionUnderWay
    <3>6. QED
      BY <2>3, <3>2, <3>3, <3>4, <3>5, PortDuringCall
  <2>4. CASE Send(op)
    <3>1. Waiting("execute", "server") /\ Waiting("execute", "accept")'
      BY <1>3, <2>4 DEF Send, Proceeds, Waiting
    <3>2. Motions!Command
      BY <1>1, <2>3, <3>1 DEF Motions!Command, Phase
    <3>3. QED
      BY <3>2 DEF PortStep, Motions!Next
  <2>5. CASE NoServer(op) \/ AcceptTimeout(op) \/ ResultTimeout(op)
    <3>1. Waiting("execute", "failed")' /\ requests' = requests
      BY <1>3, <2>5 DEF NoServer, AcceptTimeout, ResultTimeout, Proceeds, Waiting, WhenLate
    <3>2. PICK before \in Phase : /\ before \in {"server", "accept", "result"}
                                  /\ Waiting("execute", before)
      BY <1>3, <2>5 DEF NoServer, AcceptTimeout, ResultTimeout, Phase
    <3>3. Report = "none" /\ Report' = "error"
      BY <2>3, <3>1, <3>2 DEF Phase, Answer
    <3>4. ~ Waiting("execute", "moveit") /\ ~ Waiting("execute", "moveit")'
      BY <3>1, <3>2 DEF Waiting
    <3>5. MotionUnderWay' = MotionUnderWay
      BY <1>1, <3>1, <3>4 DEF MotionUnderWay
    <3>6. Motions!Abandon
      BY <1>1, <3>3, <3>5 DEF Motions!Abandon
    <3>7. QED
      BY <3>6 DEF PortStep, Motions!Next
  <2>6. QED
    BY <2>2, <2>4, <2>5 DEF ClientStep
<1>4. QED
  BY <1>2, <1>3

LEMMA PortMoveItStep ==
    ASSUME AttemptOK, AdapterOK, NEW op \in Op, MoveItSucceeds(op) \/ MoveItFails(op)
    PROVE  PortStep
<1> USE DEF AdapterOK
<1>1. /\ UNCHANGED <<requests, active>>
      /\ outcome' = outcome /\ target' = target
      /\ Waiting(op, "moveit")
  BY DEF MoveItSucceeds, MoveItFails, vars, jobVars
<1>2. CASE op # "execute"
  <2>1. arm' = arm /\ call'.op # "execute"
    BY <1>2 DEF MoveItSucceeds, MoveItFails, Proceeds
  <2>2. \A phase \in Phase : ~ Waiting("execute", phase)
    BY <1>1, <1>2, CallsByStage DEF Phase, Op
  <2>3. QED
    BY <1>1, <2>1, <2>2, PortUnconcerned
<1>3. CASE op = "execute"
  <2>1. /\ MotionUnderWay = target /\ target \in Pose /\ Report = "none"
        /\ requests["arm"] = <<>> /\ active["arm"] = <<>>
        /\ outcome.exec = "none"
    BY <1>1, <1>3, PortDuringCall, CallsByStage DEF Phase, Op
  <2>2. MotionUnderWay # NoPose
    BY <2>1, NoPoseAssumption
  <2>3. CASE MoveItSucceeds(op)
    <3>1. Waiting("execute", "ok")' /\ ~ Waiting("execute", "moveit")' /\ arm' = target
      BY <1>3, <2>3 DEF MoveItSucceeds, Proceeds, Waiting
    <3>2. MotionUnderWay' = NoPose /\ Report' = "success"
      BY <1>1, <2>1, <3>1 DEF MotionUnderWay, Report
    <3>3. Motions!Arrive
      BY <2>1, <2>2, <3>1, <3>2 DEF Motions!Arrive
    <3>4. QED
      BY <3>3 DEF PortStep, Motions!Next
  <2>4. CASE MoveItFails(op)
    <3>1. /\ Waiting("execute", "failed")'
          /\ ~ Waiting("execute", "moveit")' /\ ~ Waiting("execute", "ok")'
          /\ arm' \in {arm, target}
      BY <1>3, <2>4 DEF MoveItFails, Proceeds, Waiting
    <3>2. MotionUnderWay' = NoPose /\ Report' = "error"
      BY <1>1, <2>1, <3>1 DEF MotionUnderWay, Report
    <3>3. Motions!Break
      BY <2>1, <2>2, <3>1, <3>2 DEF Motions!Break
    <3>4. QED
      BY <3>3 DEF PortStep, Motions!Next
  <2>5. QED
    BY <2>3, <2>4
<1>4. QED
  BY <1>2, <1>3

LEMMA PortHandServer ==
    ASSUME AttemptOK, AdapterOK, ServerStep("hand")
    PROVE  PortStep
<1> USE DEF AdapterOK
<1>1. /\ arm' = arm /\ outcome' = outcome /\ target' = target
      /\ requests'["arm"] = requests["arm"] /\ active'["arm"] = active["arm"]
  BY DEF ServerStep, Accept, Reject, Succeed, Abort, QueuesOK, Controllers, vars, jobVars
<1>2. \/ call' = call
      \/ \E phase, next \in Phase :
            Awaited("hand", phase) /\ call' = [call EXCEPT !.phase = next]
  BY DEF ServerStep, Accept, Reject, Succeed, Abort, Awaits, Phase, Answer
<1>3. CASE call' = call
  BY <1>1, <1>3, QuietIsPortStep DEF PortQuiet, MotionUnderWay, Report, Waiting
<1>4. ASSUME NEW phase \in Phase, NEW next \in Phase,
             Awaited("hand", phase), call' = [call EXCEPT !.phase = next]
      PROVE  PortStep
  <2>1. PICK op \in Op \ {"execute"} : Waiting(op, phase) /\ call' = [op |-> op, phase |-> next]
    BY <1>4, Answers
  <2>2. \A ph \in Phase : ~ Waiting("execute", ph)
    BY <2>1, CallsByStage DEF Op
  <2>3. QED
    BY <1>1, <2>1, <2>2, PortUnconcerned
<1>5. QED
  BY <1>2, <1>3, <1>4

(* A motion nobody waits for any more: an error has been reported.          *)
LEMMA PortLate ==
    ASSUME AttemptOK, AdapterOK, NEW g \in Pose, MotionUnderWay = g, MotionUnderWay' = NoPose,
           requests["arm"] # <<>> \/ active["arm"] # <<>>,
           ~ Waiting("execute", "accept"), ~ Waiting("execute", "result"),
           call' = call, outcome' = outcome, arm' \in {arm, g}
    PROVE  PortStep
<1>1. Waiting("execute", "failed") \/ outcome.exec = "CONTROLLER_ERROR"
  BY DEF AdapterOK, ArmOK
<1>2. Report = "error"
  <2>1. CASE Waiting("execute", "failed")
    BY <2>1, PortDuringCall DEF Phase, Answer
  <2>2. CASE outcome.exec = "CONTROLLER_ERROR"
    <3>1. ~ Waiting("execute", "ok")
      BY <2>2, CallsByStage DEF AdapterOK, Phase, Answer
    <3>2. QED
      BY <2>2, <3>1 DEF Report
  <2>3. QED
    BY <1>1, <2>1, <2>2
<1>3. Report' = Report
  BY DEF Report, Waiting
<1>4. Motions!Late
  BY <1>2, <1>3, NoPoseAssumption DEF Motions!Late
<1>5. QED
  BY <1>4 DEF PortStep, Motions!Next

LEMMA PortArmServer ==
    ASSUME AttemptOK, AdapterOK, ServerStep("arm")
    PROVE  PortStep
<1> USE DEF AdapterOK
<1>1. outcome' = outcome /\ target' = target
  BY DEF ServerStep, Accept, Reject, Succeed, Abort, vars, jobVars
<1>2. requests["arm"] # <<>> \/ active["arm"] # <<>>
  BY DEF ServerStep, Accept, Reject, Succeed, Abort
<1>3. ~ Waiting("execute", "moveit")
  BY <1>2, PortDuringCall DEF Phase
<1>4. call'.phase # "moveit" \/ call' = call
  <2>1. \/ call' = call
        \/ \E phase \in Phase, next \in {"result", "ok", "failed"} :
              Awaited("arm", phase) /\ call' = [call EXCEPT !.phase = next]
    BY DEF ServerStep, Accept, Reject, Succeed, Abort, Awaits, Phase, Answer
  <2>2. ASSUME NEW phase \in Phase, NEW next \in {"result", "ok", "failed"},
               Awaited("arm", phase), call' = [call EXCEPT !.phase = next]
        PROVE  call'.phase # "moveit"
    <3>1. next \in Phase /\ Waiting("execute", phase)
      BY <2>2, Answers DEF Phase, Answer
    <3>2. call' = [op |-> "execute", phase |-> next]
      BY <2>2, <3>1, Answers DEF Op
    <3>3. QED
      BY <3>2
  <2>3. QED
    BY <2>1, <2>2
<1>5. ~ Waiting("execute", "moveit")'
  BY <1>3, <1>4 DEF Waiting
<1>6. CASE requests["arm"] # <<>>
  <2>1. PICK g \in Pose : requests["arm"] = <<g>> /\ active["arm"] = <<>>
    BY <1>6 DEF ArmOK
  <2>2. Awaits("arm") <=> Waiting("execute", "accept")
    BY <2>1, Answers DEF Awaits, Phase
  <2>3. MotionUnderWay = g /\ requests'["arm"] = <<>>
    BY <1>3, <2>1 DEF MotionUnderWay, ServerStep, Accept, Reject, Succeed, Abort, QueuesOK,
                      Controllers
  <2>4. ~ Waiting("execute", "result")
    BY <2>1 DEF ArmOK
  <2>5. CASE Accept("arm")
    <3>1. active'["arm"] = <<g>> /\ arm' = arm
      BY <2>1, <2>5 DEF Accept, QueuesOK, Controllers
    <3>2. MotionUnderWay' = g
      BY <1>5, <2>3, <3>1 DEF MotionUnderWay
    <3>3. Report' = Report
      <4>1. CASE Waiting("execute", "accept")
        <5>1. [call EXCEPT !.phase = "result"] = [op |-> "execute", phase |-> "result"]
          BY <4>1, Answers DEF Phase, Op
        <5>2. call' = [op |-> "execute", phase |-> "result"]
          BY <2>2, <2>5, <4>1, <5>1 DEF Accept
        <5>3. ~ Waiting("execute", "ok")' /\ ~ Waiting("execute", "failed")'
          BY <5>2 DEF Waiting
        <5>4. ~ Waiting("execute", "ok") /\ ~ Waiting("execute", "failed")
          BY <4>1 DEF Waiting
        <5>5. QED
          BY <1>1, <5>3, <5>4 DEF Report
      <4>2. CASE ~ Waiting("execute", "accept")
        BY <1>1, <2>2, <2>5, <4>2 DEF Accept, Report, Waiting
      <4>3. QED
        BY <4>1, <4>2
    <3>4. QED
      BY <2>3, <3>1, <3>2, <3>3, QuietIsPortStep DEF PortQuiet
  <2>6. CASE Reject("arm")
    <3>1. active'["arm"] = <<>> /\ arm' = arm
      BY <2>1, <2>6 DEF Reject
    <3>2. MotionUnderWay' = NoPose
      BY <1>5, <2>3, <3>1 DEF MotionUnderWay
    <3>3. CASE Waiting("execute", "accept")
      <4>1. [call EXCEPT !.phase = "failed"] = [op |-> "execute", phase |-> "failed"]
        BY <3>3, Answers DEF Phase, Answer, Op
      <4>2. call' = [op |-> "execute", phase |-> "failed"]
        BY <2>2, <2>6, <3>3, <4>1 DEF Reject
      <4>3. Report = "none" /\ outcome.exec = "none"
        BY <3>3, PortDuringCall, CallsByStage DEF Phase, Answer
      <4>4. Waiting("execute", "failed")' /\ ~ Waiting("execute", "ok")'
        BY <4>2 DEF Waiting
      <4>5. Report' = "error"
        BY <1>1, <4>3, <4>4 DEF Report
      <4>6. Motions!Break
        BY <2>3, <3>1, <3>2, <4>3, <4>5, NoPoseAssumption DEF Motions!Break
      <4>7. QED
        BY <4>6 DEF PortStep, Motions!Next
    <3>4. CASE ~ Waiting("execute", "accept")
      BY <1>1, <1>2, <2>2, <2>3, <2>4, <2>6, <3>1, <3>2, <3>4, PortLate DEF Reject
    <3>5. QED
      BY <3>3, <3>4
  <2>7. QED
    BY <2>1, <2>5, <2>6 DEF ServerStep, Succeed, Abort
<1>7. CASE requests["arm"] = <<>>
  <2>1. PICK g \in Pose : active["arm"] = <<g>>
    BY <1>2, <1>7 DEF ArmOK
  <2>2. MotionUnderWay = g
    BY <1>3, <1>7, <2>1 DEF MotionUnderWay
  <2>3. Succeed("arm") \/ Abort("arm")
    BY <1>7 DEF ServerStep, Accept, Reject
  <2>4. requests'["arm"] = <<>> /\ active'["arm"] = <<>>
    BY <1>7, <2>3 DEF Succeed, Abort, QueuesOK, Controllers
  <2>5. MotionUnderWay' = NoPose
    BY <1>5, <2>4 DEF MotionUnderWay
  <2>6. ~ Waiting("execute", "accept")
    BY <1>7 DEF ArmOK
  <2>7. CASE Waiting("execute", "result")
    <3>1. /\ [call EXCEPT !.phase = "failed"] = [op |-> "execute", phase |-> "failed"]
          /\ [call EXCEPT !.phase = "ok"] = [op |-> "execute", phase |-> "ok"]
          /\ Awaited("arm", "result")
      BY <2>7, Answers DEF Phase, Answer, Op
    <3>2. Report = "none" /\ outcome.exec = "none"
      BY <2>7, PortDuringCall, CallsByStage DEF Phase, Answer
    <3>3. CASE Succeed("arm")
      <4>1. call' = [op |-> "execute", phase |-> "ok"] /\ arm' = g
        BY <2>1, <3>1, <3>3 DEF Succeed
      <4>2. Report' = "success"
        BY <4>1 DEF Report, Waiting
      <4>3. Motions!Arrive
        BY <2>2, <2>5, <3>2, <4>1, <4>2, NoPoseAssumption DEF Motions!Arrive
      <4>4. QED
        BY <4>3 DEF PortStep, Motions!Next
    <3>4. CASE Abort("arm")
      <4>1. call' = [op |-> "execute", phase |-> "failed"] /\ arm' \in {arm, g}
        BY <2>1, <3>1, <3>4 DEF Abort
      <4>2. Waiting("execute", "failed")' /\ ~ Waiting("execute", "ok")'
        BY <4>1 DEF Waiting
      <4>3. Report' = "error"
        BY <1>1, <3>2, <4>2 DEF Report
      <4>4. Motions!Break
        BY <2>2, <2>5, <3>2, <4>1, <4>3, NoPoseAssumption DEF Motions!Break
      <4>5. QED
        BY <4>4 DEF PortStep, Motions!Next
    <3>5. QED
      BY <2>3, <3>3, <3>4
  <2>8. CASE ~ Waiting("execute", "result")
    <3>1. ~ Awaited("arm", "result")
      BY <2>8, Answers DEF Phase
    <3>2. call' = call /\ arm' \in {arm, g}
      BY <2>1, <2>3, <3>1 DEF Succeed, Abort
    <3>3. QED
      BY <1>1, <1>2, <2>2, <2>5, <2>6, <2>8, <3>2, PortLate
  <2>9. QED
    BY <2>7, <2>8
<1>8. QED
  BY <1>6, <1>7

(* ros_execution_adapter.py implements what execution_port.py promises of   *)
(* motions, whatever the servers, the deadlines and late goals do: the arm  *)
(* goes only where it was last told, success means it is there, and after   *)
(* an error nothing more is commanded.                                      *)
THEOREM RefinesMotionPort == RosSpec => ImplementsMotionPort
<1>1. RosInit => Motions!Init
  <2> SUFFICES ASSUME RosInit PROVE Motions!Init
    OBVIOUS
  <2>1. \A op, phase : ~ Waiting(op, phase) \/ op = "none"
    BY DEF RosInit, Waiting, NoCall
  <2>2. /\ requests["arm"] = <<>> /\ active["arm"] = <<>>
        /\ outcome.exec = "none"
        /\ arm \in Pose
    BY RosAssumption DEF RosInit, Init, Untried, Controllers
  <2>3. MotionUnderWay = NoPose /\ Report = "none"
    BY <2>1, <2>2 DEF MotionUnderWay, Report
  <2>4. QED
    BY <2>2, <2>3 DEF Motions!Init
<1>2. AttemptOK /\ AdapterOK /\ [RosNext \/ RosDone]_rosVars => PortStep
  <2> SUFFICES ASSUME AttemptOK, AdapterOK, [RosNext \/ RosDone]_rosVars PROVE PortStep
    OBVIOUS
  <2>1. CASE UNCHANGED <<vars, adapterVars>>
    BY <2>1, QuietIsPortStep
       DEF PortQuiet, MotionUnderWay, Report, Waiting, vars, jobVars, adapterVars
  <2>2. QED
    BY <2>1, PortJobStep, PortExecutes, PortClientStep, PortMoveItStep, PortHandServer,
       PortArmServer
       DEF RosNext, RosDone, ProcessStep, JobStep, MoveItStep, Controllers, rosVars
<1>3. PortStep <=> [Motions!Next]_(Motions!motionVars)
  BY DEF PortStep
<1>4. QED
  BY <1>1, <1>2, <1>3, AdapterAlways, PTL DEF RosSpec, ImplementsMotionPort, Motions!Spec

-------------------------------------------------------------------------------
(* The grasp under the adapter: whatever becomes of the commands to the     *)
(* hand, a part is carried in jaws that were last told to close, for every  *)
(* recipe and any number of commands waiting at the hand.                   *)

JawsShut == told = "closed" /\ requests["hand"] = <<>>

HandOp == Op \ {"execute"}

(* Which way the hand is reached is settled at start-up.  A command to      *)
(* close that is awaited is the last one sent, and once it has been taken   *)
(* up, those before it are no longer waiting.                               *)
ServedOK ==
    /\ requests["hand"] # <<>> => UsesGripperAction
    /\ \A op \in HandOp :
          /\ Waiting(op, "server") => UsesGripperAction
          /\ Waiting(op, "moveit") => ~ UsesGripperAction
    /\ Waiting("close", "accept") =>
          requests["hand"] # <<>> /\ requests["hand"][Len(requests["hand"])] = "closed"
    /\ Waiting("close", "result") \/ Waiting("close", "ok") => JawsShut

(* The adapter remembers a part at its PICK only if the PICK has succeeded. *)
GraspOK ==
    \A i \in PartIndex : step = PickAt(i) /\ PartAt(i) \in execAttached => JustSucceeded

(* From the success of the PICK to the release the jaws are shut.           *)
HasGrip(i) ==
    \/ step = PickAt(i) /\ JustSucceeded
    \/ step \in PickRetreatAt(i) .. PlaceAt(i) /\ attached[PartAt(i)]

JawsOK == \A i \in PartIndex : HasGrip(i) => JawsShut \/ call.op = "release"

HandOK == ServedOK /\ GraspOK /\ JawsOK

-------------------------------------------------------------------------------
(* The commands to the hand.                                                *)

LEMMA EmptyQueue == \A q \in Seq(Goal) : q = <<>> <=> Len(q) = 0
<1>1. /\ Len(<<>>) = 0
      /\ \A q \in Seq(Goal) : q # <<>> => Len(q) \in Nat \ {0}
  BY EmptySeq
<1>2. QED
  BY <1>1

LEMMA LastAppended ==
    ASSUME NEW q \in Seq(Goal), NEW g \in Goal
    PROVE  Append(q, g) # <<>> /\ Append(q, g)[Len(Append(q, g))] = g
BY AppendProperties

LEMMA TailKeepsLast ==
    ASSUME NEW q \in Seq(Goal), q # <<>>
    PROVE  /\ Len(q) = 1 => Tail(q) = <<>> /\ Head(q) = q[Len(q)]
           /\ Len(q) # 1 => Tail(q) # <<>> /\ Tail(q)[Len(Tail(q))] = q[Len(q)]
<1>1. Len(q) \in Nat /\ Len(q) # 0
  BY LenProperties, EmptyQueue
<1>2. /\ Tail(q) \in Seq(Goal) /\ Len(Tail(q)) = Len(q) - 1
      /\ \A n \in 1 .. Len(Tail(q)) : Tail(q)[n] = q[n + 1]
  BY HeadTailProperties
<1>3. CASE Len(q) = 1
  <2>1. Tail(q) = <<>>
    <3>1. Len(Tail(q)) = 0
      BY <1>2, <1>3
    <3>2. QED
      BY <1>2, <3>1, EmptyQueue, Zenon
  <2>2. Head(q) = q[1]
    BY <1>3
  <2>3. QED
    BY <1>3, <2>1, <2>2
<1>4. CASE Len(q) # 1
  <2>1. Len(Tail(q)) \in 1 .. Len(Tail(q)) /\ Len(Tail(q)) + 1 = Len(q)
    BY <1>1, <1>2, <1>4
  <2>2. Tail(q)[Len(Tail(q))] = q[Len(q)]
    BY <1>2, <2>1
  <2>3. Tail(q) # <<>>
    <3>1. Len(Tail(q)) # 0
      BY <1>1, <1>2, <1>4
    <3>2. QED
      BY <1>2, <3>1, EmptyQueue, Zenon
  <2>4. QED
    BY <1>4, <2>2, <2>3
<1>5. QED
  BY <1>3, <1>4

LEMMA ServedUnconcerned ==
    ASSUME ServedOK, setup' = setup, told' = told, requests'["hand"] = requests["hand"],
           \A op \in HandOp, phase \in Phase :
               Waiting(op, phase)' => Waiting(op, phase) \/ phase = "failed"
    PROVE  ServedOK'
BY DEF ServedOK, JawsShut, UsesGripperAction, HandOp, Op, Phase, Answer

LEMMA ServedClientStep ==
    ASSUME AttemptOK, AdapterOK, ServedOK, NEW op \in Op, ClientStep(op)
    PROVE  ServedOK'
<1> USE DEF AdapterOK
<1>1. setup' = setup /\ told' = told
  BY DEF ClientStep, StartCall, Send, NoServer, AcceptTimeout, ResultTimeout, launchVars
<1>2. CASE op = "execute"
  <2>1. requests'["hand"] = requests["hand"]
    BY <1>2 DEF ClientStep, StartCall, Send, NoServer, AcceptTimeout, ResultTimeout, ServerOf,
                QueuesOK, Controllers
  <2>2. call'.op = "execute"
    BY <1>2 DEF ClientStep, StartCall, Send, NoServer, AcceptTimeout, ResultTimeout, Proceeds
  <2>3. QED
    BY <1>1, <2>1, <2>2, ServedUnconcerned DEF Waiting, HandOp
<1>3. CASE op \in HandOp
  <2>1. CASE StartCall(op)
    <3>1. /\ requests' = requests
          /\ call' = [op |-> op, phase |-> IF UsesGripperAction THEN "server" ELSE "moveit"]
      BY <1>3, <2>1 DEF StartCall, ViaAction, HandOp
    <3>2. QED
      BY <1>1, <3>1 DEF ServedOK, Waiting, UsesGripperAction
  <2>2. CASE Send(op)
    <3>1. /\ requests'["hand"] = Append(requests["hand"], GoalOf(op))
          /\ call' = [op |-> op, phase |-> "accept"]
          /\ UsesGripperAction
      BY <1>3, <2>2 DEF Send, ServerOf, Proceeds, HandOp, ServedOK, QueuesOK, Controllers
    <3>2. GoalOf("close") = "closed"
      BY DEF GoalOf
    <3>3. requests["hand"] \in Seq(Goal) /\ GoalOf(op) \in Goal
      <4>1. AtCall(op)
        BY <2>2, CallsByStage DEF Send, CallOK, Phase
      <4>2. QED
        BY <4>1, GoalType DEF QueuesOK, Controllers
    <3>4. op = "close" => requests'["hand"] # <<>>
                          /\ requests'["hand"][Len(requests'["hand"])] = "closed"
      BY <3>1, <3>2, <3>3, LastAppended
    <3>5. QED
      BY <1>1, <3>1, <3>4 DEF ServedOK, Waiting, UsesGripperAction
  <2>3. CASE NoServer(op) \/ AcceptTimeout(op)
    <3>1. requests' = requests /\ call' = [op |-> op, phase |-> "failed"]
      BY <2>3 DEF NoServer, AcceptTimeout, Proceeds
    <3>2. QED
      BY <1>1, <3>1, ServedUnconcerned DEF Waiting
  <2>4. CASE ResultTimeout(op)
    <3>1. /\ requests' = requests
          /\ call' = [op |-> op, phase |-> "ok"]
          /\ Waiting(op, "result")
      BY <1>3, <2>4 DEF ResultTimeout, Proceeds, WhenLate, HandOp
    <3>2. QED
      BY <1>1, <3>1 DEF ServedOK, Waiting, UsesGripperAction, JawsShut
  <2>5. QED
    BY <2>1, <2>2, <2>3, <2>4 DEF ClientStep
<1>4. QED
  BY <1>2, <1>3 DEF HandOp

LEMMA ServedMoveItStep ==
    ASSUME ServedOK, NEW op \in Op, MoveItSucceeds(op) \/ MoveItFails(op)
    PROVE  ServedOK'
<1>1. setup' = setup /\ requests' = requests /\ Waiting(op, "moveit")
  BY DEF MoveItSucceeds, MoveItFails, launchVars
<1>2. \/ call' = [op |-> op, phase |-> "failed"]
      \/ call' = [op |-> op, phase |-> "ok"] /\ MoveItSucceeds(op)
  BY DEF MoveItSucceeds, MoveItFails, Proceeds
<1>3. op = "close" /\ MoveItSucceeds(op) => JawsShut'
  <2>1. GoalOf("close") = "closed"
    BY DEF GoalOf
  <2>2. QED
    BY <1>1, <2>1 DEF MoveItSucceeds, JawsShut, ServedOK, HandOp, Op
<1>4. QED
  BY <1>1, <1>2, <1>3 DEF ServedOK, Waiting, UsesGripperAction

LEMMA ServedArmServer ==
    ASSUME AdapterOK, ServedOK, ServerStep("arm")
    PROVE  ServedOK'
<1>1. setup' = setup /\ told' = told /\ requests'["hand"] = requests["hand"]
  BY DEF ServerStep, Accept, Reject, Succeed, Abort, AdapterOK, QueuesOK, Controllers, launchVars
<1>2. \/ call' = call
      \/ \E phase, next \in Phase : Awaited("arm", phase) /\ call' = [call EXCEPT !.phase = next]
  BY DEF ServerStep, Accept, Reject, Succeed, Abort, Awaits, Phase, Answer
<1>3. call' = call \/ call'.op = "execute"
  <2>1. ASSUME NEW phase \in Phase, NEW next \in Phase,
               Awaited("arm", phase), call' = [call EXCEPT !.phase = next]
        PROVE  call'.op = "execute"
    BY <2>1, Answers DEF Op
  <2>2. QED
    BY <1>2, <2>1
<1>4. QED
  BY <1>1, <1>3, ServedUnconcerned DEF Waiting, HandOp

LEMMA ServedHandServer ==
    ASSUME AttemptOK, AdapterOK, ServedOK, ServerStep("hand")
    PROVE  ServedOK'
<1> USE DEF AdapterOK
<1>1. setup' = setup
  BY DEF ServerStep, Accept, Reject, Succeed, Abort, launchVars
<1> DEFINE q == requests["hand"]
<1>2. q \in Seq(Goal)
  BY DEF QueuesOK, Controllers
<1>3. CASE Accept("hand")
  <2>1. /\ q # <<>>
        /\ requests'["hand"] = Tail(q)
        /\ told' = Head(q)
        /\ call' = IF Awaits("hand") THEN [call EXCEPT !.phase = "result"] ELSE call
    BY <1>3 DEF Accept, QueuesOK, Controllers
  <2>2. /\ UsesGripperAction
        /\ ~ Waiting("close", "result")
        /\ ~ Waiting("close", "ok")
    BY <2>1 DEF ServedOK, JawsShut
  <2>3. CASE Awaits("hand")
    <3>1. PICK op \in HandOp : Waiting(op, "accept")
                               /\ [call EXCEPT !.phase = "result"] = [op |-> op, phase |-> "result"]
      BY <2>3, Answers DEF Awaits, Phase, HandOp
    <3>2. Len(q) = 1
      BY <2>3 DEF Awaits
    <3>3. requests'["hand"] = <<>> /\ told' = q[Len(q)]
      BY <1>2, <2>1, <3>2, TailKeepsLast
    <3>4. op = "close" => JawsShut'
      BY <3>1, <3>3 DEF ServedOK, JawsShut
    <3>5. call' = [op |-> op, phase |-> "result"]
      BY <2>1, <2>3, <3>1
    <3>6. QED
      BY <1>1, <2>2, <3>4, <3>5 DEF ServedOK, Waiting, UsesGripperAction
  <2>4. CASE ~ Awaits("hand")
    <3>1. call' = call
      BY <2>1, <2>4
    <3>2. Waiting("close", "accept") =>
              Tail(q) # <<>> /\ Tail(q)[Len(Tail(q))] = "closed"
      <4>1. Waiting("close", "accept") => Len(q) # 1
        BY <2>4 DEF Awaits, Awaited, ServerOf, Op
      <4>2. Waiting("close", "accept") => q[Len(q)] = "closed"
        BY DEF ServedOK
      <4>3. QED
        BY <1>2, <2>1, <4>1, <4>2, TailKeepsLast
    <3>3. QED
      BY <1>1, <2>1, <2>2, <3>1, <3>2 DEF ServedOK, Waiting, UsesGripperAction
  <2>5. QED
    BY <2>3, <2>4
<1>4. CASE Reject("hand")
  <2>1. /\ q # <<>>
        /\ requests'["hand"] = Tail(q)
        /\ told' = told
        /\ call' = IF Awaits("hand") THEN [call EXCEPT !.phase = "failed"] ELSE call
    BY <1>4 DEF Reject, QueuesOK, Controllers
  <2>2. /\ UsesGripperAction
        /\ ~ Waiting("close", "result")
        /\ ~ Waiting("close", "ok")
    BY <2>1 DEF ServedOK, JawsShut
  <2>3. CASE Awaits("hand")
    <3>1. PICK op \in HandOp : [call EXCEPT !.phase = "failed"] = [op |-> op, phase |-> "failed"]
      BY <2>3, Answers DEF Awaits, Phase, Answer, HandOp
    <3>2. call' = [op |-> op, phase |-> "failed"]
      BY <2>1, <2>3, <3>1
    <3>3. QED
      BY <1>1, <2>2, <3>2 DEF ServedOK, Waiting, UsesGripperAction
  <2>4. CASE ~ Awaits("hand")
    <3>1. call' = call
      BY <2>1, <2>4
    <3>2. Waiting("close", "accept") =>
              Tail(q) # <<>> /\ Tail(q)[Len(Tail(q))] = "closed"
      <4>1. Waiting("close", "accept") => Len(q) # 1
        BY <2>4 DEF Awaits, Awaited, ServerOf, Op
      <4>2. Waiting("close", "accept") => q[Len(q)] = "closed"
        BY DEF ServedOK
      <4>3. QED
        BY <1>2, <2>1, <4>1, <4>2, TailKeepsLast
    <3>3. QED
      BY <1>1, <2>1, <2>2, <3>1, <3>2 DEF ServedOK, Waiting, UsesGripperAction
  <2>5. QED
    BY <2>3, <2>4
<1>5. CASE Succeed("hand") \/ Abort("hand")
  <2>1. requests' = requests /\ told' = told
    BY <1>5 DEF Succeed, Abort
  <2>2. CASE Awaited("hand", "result")
    <3>1. PICK op \in HandOp :
              /\ Waiting(op, "result")
              /\ [call EXCEPT !.phase = "ok"] = [op |-> op, phase |-> "ok"]
              /\ [call EXCEPT !.phase = "failed"] = [op |-> op, phase |-> "failed"]
      BY <2>2, Answers DEF Phase, Answer, HandOp
    <3>2. call' \in {[op |-> op, phase |-> "ok"], [op |-> op, phase |-> "failed"]}
      BY <1>5, <2>2, <3>1 DEF Succeed, Abort
    <3>3. QED
      BY <1>1, <2>1, <3>1, <3>2 DEF ServedOK, Waiting, UsesGripperAction, JawsShut
  <2>3. CASE ~ Awaited("hand", "result")
    <3>1. call' = call
      BY <1>5, <2>3 DEF Succeed, Abort
    <3>2. QED
      BY <1>1, <2>1, <3>1, ServedUnconcerned DEF Waiting
  <2>4. QED
    BY <2>2, <2>3
<1>6. QED
  BY <1>3, <1>4, <1>5 DEF ServerStep

LEMMA ServedPreserved ==
    AttemptOK /\ AdapterOK /\ ServedOK /\ [RosNext \/ RosDone]_rosVars => ServedOK'
<1> SUFFICES ASSUME AttemptOK, AdapterOK, ServedOK, [RosNext \/ RosDone]_rosVars
             PROVE  ServedOK'
  OBVIOUS
<1>1. CASE setup' = setup /\ UNCHANGED adapterVars
  BY <1>1, ServedUnconcerned DEF adapterVars, Waiting
<1>2. CASE \/ Uncalled
           \/ LaunchStep /\ UNCHANGED <<vars, adapterVars>>
           \/ UNCHANGED rosVars
  BY <1>1, <1>2 DEF Uncalled, LaunchStep, RobotSpawned, Configure, Activate, SpawnerExits,
                    WaitForArm, WaitForJoints, launchVars, rosVars
<1>3. CASE RosExecutes \/ \E i \in PartIndex : RosPick(i) \/ RosFinishPick(i) \/ RosFinishPlace(i)
  <2>1. /\ setup' = setup /\ told' = told /\ requests' = requests
        /\ call' = NoCall
    BY <1>3 DEF RosExecutes, RosPick, RosFinishPick, RosFinishPlace, Answered, launchVars
  <2>2. QED
    BY <2>1, ServedUnconcerned DEF Waiting, NoCall, HandOp, Op
<1>4. CASE \E op \in Op : ClientStep(op)
  BY <1>4, ServedClientStep
<1>5. CASE MoveItStep
  BY <1>5, ServedMoveItStep DEF MoveItStep
<1>6. CASE \E s \in Controllers : ServerStep(s)
  BY <1>6, ServedArmServer, ServedHandServer DEF Controllers
<1>7. QED
  BY <1>2, <1>3, <1>4, <1>5, <1>6 DEF RosNext, RosDone, ProcessStep, JobStep

-------------------------------------------------------------------------------
(* The job.                                                                 *)

(* A step of the job that is not the end of a PICK moves no part into the   *)
(* hand, and a success is followed by the next step only.                   *)
LEMMA VerdictStands ==
    ASSUME AttemptOK, [Next \/ Done]_vars, step' = step, JustSucceeded
    PROVE  JustSucceeded'
<1> USE DEF AttemptOK, JustSucceeded
<1>1. fsm \in {"EXECUTE_SKILL", "VERIFY"} /\ stage = "idle" /\ Running /\ step \in Nat
  BY StepCountType DEF ControlOK, TypeOK, Stage, Running
<1>2. CASE UNCHANGED vars
  BY <1>2 DEF vars, jobVars, Succeeded
<1>3. ~ (Prepare \/ StartStep \/ CompleteJob \/ Begin \/ Move \/ Finish)
  BY <1>1 DEF Prepare, Validate, BuildWorld, AcceptCorrection, RaiseUnknownPart,
              RejectCorrection, StartStep, CompleteJob, AtLoopHead, Begin, BeginPickApproach,
              BeginPick, BeginPickRetreat, BeginPlaceApproach, BeginPlace, BeginPlaceRetreat,
              BeginJointApproach, Dispatching, Move, PlanFails, PlanSucceeds, ExecutionFails,
              ExecutionSucceeds, Finish, FinishPick, FinishPickRetreat, FinishPlace, FinishMove,
              Finishing
<1>4. CASE Judge
  BY <1>1, <1>4 DEF Judge, Verify, NextStep, Recover, Retry, Stop, Judged, Failed, Succeeded
<1>5. QED
  BY <1>2, <1>3, <1>4 DEF Next, Done

LEMMA GripBegins ==
    ASSUME AttemptOK, [Next \/ Done]_vars, NEW i \in PartIndex, HasGrip(i)'
    PROVE  \/ HasGrip(i)
           \/ \E closed, verified \in BOOLEAN : verified /\ FinishPick(i, closed, verified)
<1> USE DEF AttemptOK
<1>0. \A j \in PartIndex : j \in Nat /\ j >= 1 /\ j <= Len(PartOrder)
  BY Positions
<1>1. CASE UNCHANGED <<step, attached>> /\ ~ JustSucceeded'
  BY <1>1 DEF HasGrip
<1>2. CASE UNCHANGED <<step, attached>> /\ JustSucceeded
  BY <1>2 DEF HasGrip
<1>3. CASE Prepare \/ StartStep \/ CompleteJob \/ Begin \/ Move
  <2>1. UNCHANGED <<step, attached>>
    BY <1>3 DEF Prepare, Validate, BuildWorld, AcceptCorrection, RaiseUnknownPart,
                RejectCorrection, StartStep, CompleteJob, Begin, BeginPickApproach, BeginPick,
                BeginPickRetreat, BeginPlaceApproach, BeginPlace, BeginPlaceRetreat,
                BeginJointApproach, PlanToStandOff, PlanTo, Move, PlanFails, PlanSucceeds,
                ExecutionFails, ExecutionSucceeds, Return, worldVars
  <2>2. ~ JustSucceeded' \/ JustSucceeded
    <3>1. CASE Prepare \/ StartStep \/ CompleteJob
      BY <1>3, <3>1
         DEF Prepare, Validate, BuildWorld, AcceptCorrection, RaiseUnknownPart, RejectCorrection,
             StartStep, CompleteJob, ControlOK, JustSucceeded, AtLoopHead
    <3>2. CASE Begin
      BY <3>2 DEF Begin, BeginPickApproach, BeginPick, BeginPickRetreat, BeginPlaceApproach,
                  BeginPlace, BeginPlaceRetreat, BeginJointApproach, PlanToStandOff, PlanTo,
                  Dispatching, ControlOK, JustSucceeded
    <3>3. CASE Move
      BY <3>3 DEF Move, PlanFails, PlanSucceeds, ExecutionFails, ExecutionSucceeds, Return,
                  ControlOK, Succeeded, PlanFailure, Untried, JustSucceeded
    <3>4. QED
      BY <1>3, <3>1, <3>2, <3>3
  <2>3. QED
    BY <1>1, <1>2, <2>1, <2>2
<1>4. ASSUME NEW j \in PartIndex, NEW closed \in BOOLEAN, NEW verified \in BOOLEAN,
             FinishPick(j, closed, verified)
      PROVE  j = i /\ verified
  <2>1. /\ step = PickAt(j) /\ step' = step
        /\ outcome \in Outcome
        /\ outcome' = [outcome EXCEPT !.verified = IF verified THEN "yes" ELSE "no"]
    BY <1>4 DEF FinishPick, Finishing, Return, TypeOK
  <2>2. step \notin PickRetreatAt(i) .. PlaceAt(i)
    BY <1>0, <2>1 DEF PickAt, PickRetreatAt, PlaceAt
  <2>3. step = PickAt(i) /\ JustSucceeded'
    BY <2>1, <2>2 DEF HasGrip, PickAt, PickRetreatAt, PlaceAt
  <2>4. j = i
    BY <1>0, <2>1, <2>3 DEF PickAt
  <2>5. verified
    BY <2>1, <2>3 DEF JustSucceeded, Succeeded, Outcome
  <2>6. QED
    BY <2>4, <2>5
<1>5. ASSUME NEW j \in PartIndex, NEW sighting, FinishPickRetreat(j, sighting)
      PROVE  HasGrip(i)
  <2>1. step = PickRetreatAt(j) /\ step' = step /\ attached' = attached
    BY <1>5 DEF FinishPickRetreat, Finishing, Return, worldVars
  <2>2. step # PickAt(i)
    BY <1>0, <2>1 DEF PickAt, PickRetreatAt
  <2>3. QED
    BY <2>1, <2>2 DEF HasGrip, PickAt, PickRetreatAt, PlaceAt
<1>6. ASSUME NEW j \in PartIndex, FinishPlace(j)
      PROVE  HasGrip(i)
  <2>1. /\ step = PlaceAt(j) /\ step' = step
        /\ attached' = [attached EXCEPT ![PartAt(j)] = FALSE]
    BY <1>6 DEF FinishPlace, Finishing, Return, WorldDetach
  <2>2. step # PickAt(i)
    BY <1>0, <2>1 DEF PickAt, PlaceAt
  <2>3. attached'[PartAt(i)] => attached[PartAt(i)]
    BY <2>1, PartAtType DEF TypeOK
  <2>4. QED
    BY <2>1, <2>2, <2>3 DEF HasGrip, PickAt, PickRetreatAt, PlaceAt
<1>7. CASE FinishMove
  <2>1. step # PickAt(i) /\ step' = step /\ attached' = attached
    BY <1>7 DEF FinishMove, Return, worldVars
  <2>2. QED
    BY <2>1 DEF HasGrip, PickAt, PickRetreatAt, PlaceAt
<1>8. CASE NextStep
  <2>1. /\ step' = step + 1 /\ step \in Nat /\ attached' = attached
        /\ fsm' = "NEXT_STEP" /\ JustSucceeded
    BY <1>8, StepCountType DEF NextStep, ControlOK, JustSucceeded, worldVars, TypeOK
  <2>2. step + 1 \in PickRetreatAt(i) .. PlaceAt(i) /\ attached[PartAt(i)]
    BY <2>1 DEF HasGrip, JustSucceeded, PickRetreatAt, PlaceAt
  <2>3. step = PickAt(i) \/ step \in PickRetreatAt(i) .. PlaceAt(i)
    BY <1>0, <2>1, <2>2 DEF PickAt, PickRetreatAt, PlaceAt
  <2>4. QED
    BY <2>1, <2>2, <2>3 DEF HasGrip
<1>9. CASE Verify
  BY <1>2, <1>9 DEF Verify, Judged, JustSucceeded, worldVars
<1>10. CASE Recover \/ Retry \/ Stop
  BY <1>1, <1>10 DEF Recover, Retry, Stop, JustSucceeded, worldVars
<1>11. CASE UNCHANGED vars
  BY <1>2, <1>1, <1>11 DEF vars, jobVars, worldVars, JustSucceeded, Succeeded
<1>12. QED
  BY <1>3, <1>4, <1>5, <1>6, <1>7, <1>8, <1>9, <1>10, <1>11 DEF Next, Done, Finish, Judge

(* Where the end of a PICK is made.                                         *)
LEMMA OnlyThere ==
    ASSUME AttemptOK, [RosNext \/ RosDone]_rosVars,
           NEW i \in PartIndex, NEW closed \in BOOLEAN, NEW verified \in BOOLEAN,
           FinishPick(i, closed, verified)
    PROVE  RosFinishPick(i)
<1> USE DEF AttemptOK
<1>1. /\ stage = "finish" /\ fsm = "PLAN_SKILL" /\ fsm' = "EXECUTE_SKILL" /\ step = PickAt(i)
  BY DEF FinishPick, Finishing, Return, ControlOK
<1>2. \A j \in PartIndex : PickAt(i) # PlaceAt(j) /\ (PickAt(i) = PickAt(j) => i = j)
  BY Positions DEF PickAt, PlaceAt
<1>3. vars' # vars
  BY <1>1 DEF vars, jobVars
<1>4. ~ Uncalled
  BY <1>1, UncalledIsElsewhere DEF AtCall, Finishing, Op
<1>5. ~ RosExecutes
  BY <1>1 DEF RosExecutes, ExecutionSucceeds, ExecutionFails
<1>6. \A j \in PartIndex : ~ RosPick(j) /\ ~ RosFinishPlace(j)
  BY <1>1, <1>2 DEF RosPick, BeginPick, Dispatching, RosFinishPlace, FinishPlace, Finishing
<1>7. \A j \in PartIndex : RosFinishPick(j) => i = j
  BY <1>1, <1>2 DEF RosFinishPick, FinishPick, Finishing
<1>8. ~ MoveItStep /\ \A op \in Op : ~ ClientStep(op)
  BY <1>3 DEF MoveItStep, MoveItSucceeds, MoveItFails, ClientStep, StartCall, Send, NoServer,
              AcceptTimeout, ResultTimeout
<1>9. \A s \in Controllers : ~ ServerStep(s)
  BY <1>3 DEF ServerStep, Accept, Reject, Succeed, Abort
<1>10. QED
  BY <1>3, <1>4, <1>5, <1>6, <1>7, <1>8, <1>9
     DEF RosNext, RosDone, ProcessStep, JobStep, rosVars

(* A PICK that ends with no part in the adapter's memory counts as a        *)
(* success exactly when the command to close went through.                  *)
LEMMA PickEnds ==
    ASSUME AttemptOK, GraspOK, NEW i \in PartIndex, RosFinishPick(i)
    PROVE  \/ /\ Waiting("close", "ok")
              /\ JustSucceeded'
           \/ /\ execAttached' = execAttached /\ PartAt(i) \notin execAttached
              /\ ~ JustSucceeded'
<1> USE DEF AttemptOK
<1>1. PICK answer \in Answer :
          /\ Waiting("close", answer)
          /\ FinishPick(i, Confirmed(answer), Confirmed(answer) \/ PartAt(i) \in execAttached)
  BY DEF RosFinishPick, Answered
<1>2. stage = "finish" /\ fsm = "PLAN_SKILL" /\ step = PickAt(i) /\ fsm' = "EXECUTE_SKILL"
  BY <1>1 DEF FinishPick, Finishing, Return, ControlOK
<1>3. PartAt(i) \notin execAttached
  BY <1>2 DEF GraspOK, JustSucceeded
<1>4. outcome = [Untried EXCEPT !.plan = "ok", !.exec = "SUCCESS"]
  BY <1>2 DEF ControlOK
<1>5. outcome' = [outcome EXCEPT !.verified = IF Confirmed(answer) THEN "yes" ELSE "no"]
  BY <1>1, <1>3 DEF FinishPick, Return
<1>6. CASE answer = "ok"
  <2>1. Succeeded(outcome')
    BY <1>4, <1>5, <1>6 DEF Confirmed, Succeeded, Untried
  <2>2. QED
    BY <1>1, <1>2, <1>6, <2>1 DEF JustSucceeded
<1>7. CASE answer # "ok"
  <2>1. ~ Succeeded(outcome')
    BY <1>4, <1>5, <1>7 DEF Confirmed, Succeeded, Untried
  <2>2. execAttached' = execAttached
    BY <1>1, <1>7 DEF FinishPick, Confirmed
  <2>3. QED
    BY <1>3, <2>1, <2>2 DEF JustSucceeded
<1>8. QED
  BY <1>6, <1>7

LEMMA GraspPreserved ==
    AttemptOK /\ GraspOK /\ [RosNext \/ RosDone]_rosVars => GraspOK'
<1> SUFFICES ASSUME AttemptOK, GraspOK, [RosNext \/ RosDone]_rosVars,
                    NEW i \in PartIndex, step' = PickAt(i), PartAt(i) \in execAttached'
             PROVE  JustSucceeded'
  BY DEF GraspOK
<1> USE DEF AttemptOK
<1>0. [Next \/ Done]_vars
  BY RosNextIsNext
<1>1. CASE step' = step /\ execAttached' \subseteq execAttached
  BY <1>0, <1>1, VerdictStands DEF GraspOK
<1>2. ASSUME NEW j \in PartIndex, RosFinishPick(j)
      PROVE  JustSucceeded'
  <2>1. step = PickAt(j) /\ step' = step
    BY <1>2 DEF RosFinishPick, FinishPick, Finishing, Return
  <2>2. i = j
    BY <2>1, Positions DEF PickAt
  <2>3. QED
    BY <1>2, <2>2, PickEnds
<1>3. CASE NextStep
  <2>1. step' = step + 1 /\ execAttached' = execAttached /\ step \in Nat
    BY <1>3, StepCountType DEF NextStep, TypeOK
  <2>2. step \in PickAt(i) .. PlaceAt(i)
    BY <2>1 DEF CarryOK
  <2>3. QED
    BY <2>1, <2>2, Positions DEF PickAt
<1>4. CASE UNCHANGED vars
  BY <1>1, <1>4 DEF vars, jobVars
<1>5. CASE RosExecutes \/ \E j \in PartIndex : RosPick(j) \/ RosFinishPlace(j)
  BY <1>1, <1>5 DEF RosExecutes, ExecutionSucceeds, ExecutionFails, RosPick, BeginPick,
                    PlanTo, RosFinishPlace, FinishPlace, Return
<1>6. CASE Uncalled
  <2>1. CASE \/ Prepare \/ StartStep \/ CompleteJob \/ FinishMove \/ PlanSucceeds
             \/ \E reason \in PlanFailure : PlanFails(reason)
    BY <1>1, <2>1 DEF Prepare, Validate, BuildWorld, AcceptCorrection, RaiseUnknownPart,
                      RejectCorrection, StartStep, CompleteJob, FinishMove, PlanSucceeds,
                      PlanFails, Return
  <2>2. CASE Judge
    BY <1>1, <1>3, <2>2 DEF Judge, Verify, Recover, Retry, Stop
  <2>3. CASE \/ \E j \in PartIndex :
                   \/ \E sighting \in Sightings(PartAt(j)) :
                         BeginPickApproach(j, sighting) \/ FinishPickRetreat(j, sighting)
                   \/ BeginPickRetreat(j) \/ BeginPlaceApproach(j)
                   \/ BeginPlace(j) \/ BeginPlaceRetreat(j)
             \/ \E j \in JointIndex : BeginJointApproach(j)
    BY <1>1, <2>3 DEF BeginPickApproach, FinishPickRetreat, BeginPickRetreat,
                      BeginPlaceApproach, BeginPlace, BeginPlaceRetreat, BeginJointApproach,
                      PlanToStandOff, PlanTo, Return
  <2>4. QED
    BY <1>6, <2>1, <2>2, <2>3 DEF Uncalled
<1>7. CASE \/ MoveItStep \/ (\E s \in Controllers : ServerStep(s))
           \/ \E op \in Op : ClientStep(op)
  BY <1>4, <1>7 DEF MoveItStep, MoveItSucceeds, MoveItFails, ClientStep, StartCall, Send,
                    NoServer, AcceptTimeout, ResultTimeout, ServerStep, Accept, Reject,
                    Succeed, Abort
<1>8. QED
  BY <1>2, <1>4, <1>5, <1>6, <1>7 DEF RosNext, RosDone, ProcessStep, JobStep, rosVars

-------------------------------------------------------------------------------
(* The jaws.                                                                *)

(* While a part is held the adapter is called to move or to release only.   *)
LEMMA HolderCalls ==
    ASSUME AttemptOK, CallOK, NEW i \in PartIndex, HasGrip(i)
    PROVE  /\ ~ AtCall("open") /\ ~ AtCall("close")
           /\ \A phase \in Phase : ~ Waiting("open", phase) /\ ~ Waiting("close", phase)
<1>1. ASSUME AtCall("open") \/ AtCall("close")
      PROVE  FALSE
  <2>1. PICK k \in PartIndex : step = PickAt(k) /\ stage \in {"dispatch", "finish"}
    BY <1>1 DEF AtCall, Dispatching, Finishing
  <2>2. fsm = "PLAN_SKILL"
    BY <2>1 DEF AttemptOK, ControlOK
  <2>3. PickAt(k) \notin PickRetreatAt(i) .. PlaceAt(i)
    BY Positions DEF PickAt, PickRetreatAt, PlaceAt
  <2>4. QED
    BY <2>1, <2>2, <2>3 DEF HasGrip, JustSucceeded
<1>2. ASSUME NEW op \in Op, NEW phase \in Phase, Waiting(op, phase)
      PROVE  AtCall(op)
  <2>1. call.op = op /\ call # NoCall
    BY <1>2 DEF Waiting, NoCall, Op
  <2>2. PICK asked \in Op : AtCall(asked) /\ call.op = asked
    BY <2>1 DEF CallOK, Waiting
  <2>3. QED
    BY <2>1, <2>2
<1>3. QED
  BY <1>1, <1>2 DEF Op

LEMMA JawsPreserved ==
    AttemptOK /\ AdapterOK /\ HandOK /\ [RosNext \/ RosDone]_rosVars => JawsOK'
<1> SUFFICES ASSUME AttemptOK, AdapterOK, HandOK, [RosNext \/ RosDone]_rosVars,
                    NEW i \in PartIndex, HasGrip(i)'
             PROVE  JawsShut' \/ call'.op = "release"
  BY DEF JawsOK
<1> USE DEF AdapterOK, HandOK
<1>0. [Next \/ Done]_vars
  BY RosNextIsNext
<1>1. ASSUME NEW closed \in BOOLEAN, NEW verified \in BOOLEAN,
             verified, FinishPick(i, closed, verified)
      PROVE  JawsShut'
  <2>1. RosFinishPick(i)
    BY <1>1, OnlyThere
  <2>2. step' = PickAt(i)
    BY <1>1 DEF FinishPick, Finishing, Return
  <2>3. JustSucceeded'
    BY <2>2, Positions DEF HasGrip, PickAt, PickRetreatAt, PlaceAt
  <2>4. JawsShut
    BY <2>1, <2>3, PickEnds DEF ServedOK
  <2>5. QED
    BY <2>1, <2>4 DEF RosFinishPick, Answered, JawsShut
<1>2. CASE HasGrip(i)
  <2>1. JawsShut \/ call.op = "release"
    BY <1>2 DEF JawsOK
  <2>2. /\ ~ AtCall("open") /\ ~ AtCall("close")
        /\ \A phase \in Phase : ~ Waiting("open", phase) /\ ~ Waiting("close", phase)
    BY <1>2, HolderCalls
  <2>3. CASE call' = call /\ requests' = requests /\ told' = told
    BY <2>1, <2>3 DEF JawsShut
  <2>4. CASE \/ Uncalled
             \/ LaunchStep /\ UNCHANGED <<vars, adapterVars>>
             \/ UNCHANGED rosVars
    BY <2>3, <2>4 DEF Uncalled, adapterVars, rosVars
  <2>5. CASE RosExecutes \/ \E j \in PartIndex : RosFinishPick(j) \/ RosPick(j)
    <3>1. requests' = requests /\ told' = told /\ call.op # "release"
      BY <2>5 DEF RosExecutes, RosFinishPick, RosPick, Answered, Waiting
    <3>2. QED
      BY <2>1, <3>1 DEF JawsShut
  <2>6. ASSUME NEW j \in PartIndex, RosFinishPlace(j)
        PROVE  FALSE
    <3>1. /\ step = PlaceAt(j) /\ step' = step
          /\ attached' = [attached EXCEPT ![PartAt(j)] = FALSE]
      BY <2>6 DEF RosFinishPlace, FinishPlace, Finishing, Return, WorldDetach
    <3>2. step # PickAt(i) /\ (step \in PickRetreatAt(i) .. PlaceAt(i) => i = j)
      BY <3>1, Positions DEF PickAt, PickRetreatAt, PlaceAt
    <3>3. ~ attached'[PartAt(j)]
      BY <3>1, PartAtType DEF AttemptOK, TypeOK
    <3>4. QED
      BY <3>1, <3>2, <3>3 DEF HasGrip, PickAt, PickRetreatAt, PlaceAt
  <2>7. ASSUME NEW op \in Op, ClientStep(op)
        PROVE  JawsShut' \/ call'.op = "release"
    <3>1. op # "open" /\ op # "close"
      BY <2>2, <2>7 DEF ClientStep, StartCall, Send, NoServer, AcceptTimeout, ResultTimeout, Phase
    <3>2. CASE op = "release"
      BY <2>7, <3>2 DEF ClientStep, StartCall, Send, NoServer, AcceptTimeout, ResultTimeout,
                        Proceeds
    <3>3. CASE op = "execute"
      <4>1. told' = told /\ requests'["hand"] = requests["hand"]
        BY <2>7, <3>3 DEF ClientStep, StartCall, Send, NoServer, AcceptTimeout, ResultTimeout,
                          ServerOf, QueuesOK, Controllers
      <4>2. call.op # "release"
        BY <2>7, <3>3 DEF ClientStep, StartCall, Send, NoServer, AcceptTimeout, ResultTimeout,
                          Waiting, NoCall
      <4>3. QED
        BY <2>1, <4>1, <4>2 DEF JawsShut
    <3>4. QED
      BY <3>1, <3>2, <3>3 DEF Op
  <2>8. ASSUME NEW op \in Op, MoveItSucceeds(op) \/ MoveItFails(op)
        PROVE  JawsShut' \/ call'.op = "release"
    <3>1. Waiting(op, "moveit") /\ op # "open" /\ op # "close" /\ requests' = requests
      BY <2>2, <2>8 DEF MoveItSucceeds, MoveItFails, Phase
    <3>2. CASE op = "release"
      BY <2>8, <3>2 DEF MoveItSucceeds, MoveItFails, Proceeds
    <3>3. CASE op = "execute"
      <4>1. told' = told
        BY <2>8, <3>3 DEF MoveItSucceeds, MoveItFails
      <4>2. QED
        BY <2>1, <3>1, <3>3, <4>1 DEF JawsShut, Waiting
    <3>4. QED
      BY <3>1, <3>2, <3>3 DEF Op
  <2>9. ASSUME NEW s \in Controllers, ServerStep(s)
        PROVE  JawsShut' \/ call'.op = "release"
    <3>1. call.op = "release" => call'.op = "release"
      BY <2>9 DEF ServerStep, Accept, Reject, Succeed, Abort, CallOK, Waiting, NoCall
    <3>2. ASSUME JawsShut
          PROVE  JawsShut'
      <4>1. CASE s = "arm"
        BY <2>9, <3>2, <4>1 DEF ServerStep, Accept, Reject, Succeed, Abort, JawsShut, QueuesOK,
                                Controllers
      <4>2. CASE s = "hand"
        BY <2>9, <3>2, <4>2 DEF ServerStep, Accept, Reject, Succeed, Abort, JawsShut
      <4>3. QED
        BY <4>1, <4>2 DEF Controllers
    <3>3. QED
      BY <2>1, <3>1, <3>2
  <2>10. QED
    BY <2>4, <2>5, <2>6, <2>7, <2>8, <2>9
       DEF RosNext, RosDone, ProcessStep, JobStep, MoveItStep
<1>3. QED
  BY <1>0, <1>1, <1>2, GripBegins

-------------------------------------------------------------------------------
LEMMA HandStart == RosInit => HandOK
<1> SUFFICES ASSUME RosInit PROVE HandOK
  OBVIOUS
<1>1. ServedOK
  BY DEF RosInit, ServedOK, Controllers, Waiting, NoCall, HandOp, Op
<1>2. \A i \in PartIndex : step # PickAt(i) /\ step \notin PickRetreatAt(i) .. PlaceAt(i)
  BY Positions DEF RosInit, Init, PickAt, PickRetreatAt, PlaceAt
<1>3. QED
  BY <1>1, <1>2 DEF HandOK, GraspOK, JawsOK, HasGrip

LEMMA HandPreserved ==
    AttemptOK /\ AdapterOK /\ HandOK /\ [RosNext \/ RosDone]_rosVars => HandOK'
BY ServedPreserved, GraspPreserved, JawsPreserved DEF HandOK

(* ros_execution_adapter.py:155-163, 189-203: although commands to the hand *)
(* that were given up are never cancelled, from a confirmed grasp until the *)
(* release the last command the hand took up is the one to close, and none  *)
(* to open is waiting.                                                      *)
THEOREM CarriedInShutJaws == RosSpec => []CarriesWithJawsClosed
<1>1. HandOK => CarriesWithJawsClosed
  BY DEF HandOK, JawsOK, HasGrip, JawsShut, CarriesWithJawsClosed
<1>2. QED
  BY <1>1, HandStart, HandPreserved, AdapterAlways, PTL DEF RosSpec
===============================================================================
