------------------------------ MODULE CellProofs -------------------------------
(***************************************************************************)
(* Proofs about Cell: what the world model and the planning scene believe   *)
(* of the part in the jaws, and from where it is planned for, for every     *)
(* recipe, however the parts settled, grasps miss and releases fail.        *)
(***************************************************************************)
EXTENDS Cell, JobRunnerSafety

-------------------------------------------------------------------------------
(* Geometry: a body carried at the pose it had in the gripper's frame is    *)
(* where it was, and a pose is known by its grasp pose.                     *)

LEMMA RelativeType ==
    ASSUME NEW frame \in Pose, NEW pose \in Pose
    PROVE  /\ RelativeTo(frame, pose) \in Pose
           /\ CarriedAt(frame, pose) \in Pose
<1>1. \A q \in Quarter, v \in Vec : Rotated(q, v) \in Vec
  BY DEF Rotated, Quarter, Vec, V
<1>2. TurnsBack(frame.yaw) \in Quarter /\ frame.yaw \in Quarter /\ pose.yaw \in Quarter
  BY DEF TurnsBack, Quarter, Pose
<1>3. Minus(pose.xyz, frame.xyz) \in Vec /\ pose.xyz \in Vec
  BY DEF Minus, Vec, V, Pose
<1>4. /\ TurnsSum(TurnsBack(frame.yaw), pose.yaw) \in Quarter
      /\ TurnsSum(frame.yaw, pose.yaw) \in Quarter
  BY <1>2 DEF TurnsSum, Quarter
<1>5. TransformPoint(frame, pose.xyz) \in Vec
  <2>1. Rotated(frame.yaw, pose.xyz) \in Vec
    BY <1>1, <1>2, <1>3
  <2>2. QED
    BY <2>1 DEF TransformPoint, Plus, V, Vec, Pose
<1>6. QED
  BY <1>1, <1>2, <1>3, <1>4, <1>5 DEF RelativeTo, CarriedAt, Pose

LEMMA CarriedBack ==
    ASSUME NEW frame \in Pose, NEW pose \in Pose
    PROVE  CarriedAt(frame, RelativeTo(frame, pose)) = pose
<1> DEFINE gap == Minus(pose.xyz, frame.xyz)
<1>1. gap \in Vec /\ frame.xyz \in Vec /\ pose.xyz \in Vec
      /\ frame.yaw \in Quarter /\ pose.yaw \in Quarter
  BY DEF Minus, Vec, V, Pose
<1>2. ASSUME NEW q \in Quarter, NEW v \in Vec
      PROVE  Rotated(q, Rotated(TurnsBack(q), v)) = v
  <2>1. q = 0 \/ q = 1 \/ q = 2 \/ q = 3
    BY DEF Quarter
  <2>2. v = V(v.x, v.y, v.z) /\ v.x \in Int /\ v.y \in Int /\ v.z \in Int
    BY DEF Vec, V
  <2>3. QED
    BY <2>1, <2>2 DEF Rotated, TurnsBack, V
<1>3. \A q, r \in Quarter : TurnsSum(q, TurnsSum(TurnsBack(q), r)) = r
  BY DEF TurnsSum, TurnsBack, Quarter
<1>4. Plus(frame.xyz, gap) = pose.xyz
  BY <1>1 DEF Plus, Minus, V, Vec
<1>5. CarriedAt(frame, RelativeTo(frame, pose)) =
          [xyz |-> Plus(frame.xyz, Rotated(frame.yaw, Rotated(TurnsBack(frame.yaw), gap))),
           yaw |-> TurnsSum(frame.yaw, TurnsSum(TurnsBack(frame.yaw), pose.yaw))]
  BY DEF CarriedAt, RelativeTo, TransformPoint
<1>6. QED
  <2> HIDE DEF gap
  <2>1. CarriedAt(frame, RelativeTo(frame, pose)) = [xyz |-> pose.xyz, yaw |-> pose.yaw]
    BY <1>1, <1>2, <1>3, <1>4, <1>5
  <2>2. QED
    BY <2>1 DEF Pose

LEMMA GraspPoseKnows ==
    ASSUME NEW one \in Pose, NEW other \in Pose, NEW v \in Vec,
           GraspPose(one, v) = GraspPose(other, v)
    PROVE  one = other
<1>1. one.yaw = other.yaw
  BY DEF GraspPose
<1>2. Plus(one.xyz, Rotated(one.yaw, v)) = Plus(other.xyz, Rotated(one.yaw, v))
  BY <1>1 DEF GraspPose, TransformPoint
<1>3. Rotated(one.yaw, v) \in Vec /\ one.xyz \in Vec /\ other.xyz \in Vec
  BY DEF Rotated, Quarter, Vec, V, Pose
<1>4. one.xyz = other.xyz
  BY <1>2, <1>3 DEF Plus, V, Vec
<1>5. QED
  BY <1>1, <1>4 DEF Pose

-------------------------------------------------------------------------------
(* The invariants.                                                          *)

GraspAt(i) == GraspPose(PoseOf(PartAt(i)), GraspOf(PartAt(i)).offset)
GripAt(i) == RelativeTo(GraspAt(i), PoseOf(PartAt(i)))

(* Arm and bodies are somewhere, and so is a part between the jaws.         *)
BodiesOK ==
    /\ arm \in Pose
    /\ held \in PartIds \cup {"nothing"}
    /\ held # "nothing" => grip \in Pose
    /\ body \in [PartIds -> Pose]
    /\ sceneRel \in [PartIds -> PoseOrNone]

(* At its PICK the arm goes to the grasp pose of where the part is believed *)
(* and stays there while it holds the part: jaws and scene then have it at  *)
(* the same pose, the believed one, in the gripper's frame.                 *)
GripOK ==
    \A i \in PartIndex :
        LET p == PartAt(i)
        IN  /\ step = PickAt(i) /\ stage \in {"plan", "execute"} => target = GraspAt(i)
            /\ step = PickAt(i) /\ (stage = "finish" \/ held = p) => arm = GraspAt(i)
            /\ attached[p] => sceneRel[p] = GripAt(i)
            /\ attached[p] /\ held = p => grip = GripAt(i)

(* With a sensor that answers: from its sighting to its lift a part that is *)
(* not between the jaws lies where it is believed, so that a lift which is  *)
(* found to have succeeded was one.                                         *)
SightOK ==
    \A i \in PartIndex :
        LET p == PartAt(i)
        IN  /\ Approached(i) /\ step <= PickRetreatAt(i) /\ held # p => body[p] = PoseOf(p)
            /\ step = PickRetreatAt(i) /\ JustSucceeded => held = p
            /\ step \in {PlaceApproachAt(i), PlaceAt(i)} /\ attached[p] => held = p

-------------------------------------------------------------------------------
(* The steps of the cell.                                                   *)

cellAll == <<vars, cellVars>>

LEMMA TruePoseType ==
    ASSUME BodiesOK, NEW p \in PartIds
    PROVE  TruePose(p) \in Pose /\ Views(p) \subseteq PoseOrNone
<1>1. TruePose(p) \in Pose
  BY RelativeType, CellAssumption DEF TruePose, BodiesOK
<1>2. QED
  BY <1>1 DEF Views, PoseOrNone

LEMMA BelievedType ==
    ASSUME TypeOK, NEW i \in PartIndex
    PROVE  /\ PoseOf(PartAt(i)) \in Pose
           /\ GraspAt(i) \in Pose
           /\ GripAt(i) \in Pose
<1>1. PartAt(i) \in PartIds /\ PoseOf(PartAt(i)) \in Pose
  BY PartAtType, PartFields DEF TypeOK, PoseOf, PoseOrNone
<1>2. GraspAt(i) \in Pose
  BY <1>1, PartFields, WaypointTypes DEF GraspAt
<1>3. QED
  BY <1>1, <1>2, RelativeType DEF GripAt

(* The cell takes only the job's steps. *)
LEMMA CellNextIsAny == JobOK /\ BodiesOK /\ [CellNext \/ CellDone]_cellAll => [AnyNext]_vars
<1> SUFFICES ASSUME JobOK, BodiesOK, [CellNext \/ CellDone]_cellAll PROVE [AnyNext]_vars
  OBVIOUS
<1>0. \A i \in PartIndex : Views(PartAt(i)) \subseteq PoseOrNone
  BY TruePoseType, PartAtType
<1>1. CASE CellUntouched
  BY <1>1 DEF CellUntouched, AnyNext, AnyBegin, AnyFinish, Move
<1>2. CASE \/ CellExecutionSucceeds
           \/ \E error \in ExecutionStatus \ {"SUCCESS"} : CellExecutionFails(error)
  BY <1>2 DEF CellExecutionSucceeds, CellExecutionFails, AnyNext, Move
<1>3. ASSUME NEW i \in PartIndex, CellPickApproach(i) \/ CellPick(i)
      PROVE  [AnyNext]_vars
  BY <1>0, <1>3 DEF CellPickApproach, CellPick, AnyNext, AnyBegin
<1>4. ASSUME NEW i \in PartIndex,
             \/ \E closed, verified \in BOOLEAN : CellFinishPick(i, closed, verified)
             \/ CellFinishPickRetreat(i)
             \/ CellFinishPlace(i)
      PROVE  [AnyNext]_vars
  BY <1>0, <1>4 DEF CellFinishPick, CellFinishPickRetreat, CellFinishPlace, AnyNext, AnyFinish
<1>5. CASE CellDone \/ UNCHANGED cellAll
  BY <1>5 DEF CellDone, Done, cellAll
<1>6. QED
  BY <1>1, <1>2, <1>3, <1>4, <1>5 DEF CellNext

(* The steps in which the cell is neither touched nor looked at.            *)
Apart == CellUntouched \/ CellDone \/ UNCHANGED cellAll

LEMMA ApartSucceeds ==
    ASSUME JobOK, Apart, NEW i \in PartIndex
    PROVE  /\ UNCHANGED <<cellVars, attached>>
           /\ stage' = "finish" => stage = "finish" /\ step' = step
           /\ step' = PickRetreatAt(i) /\ JustSucceeded' => step = PickRetreatAt(i) /\ JustSucceeded
<1> USE DEF JobOK
<1>1. CASE Prepare /\ UNCHANGED cellVars
  BY <1>1
     DEF Prepare, Validate, BuildWorld, AcceptCorrection, RaiseUnknownPart, RejectCorrection,
         ControlOK, JustSucceeded, worldVars
<1>2. CASE (StartStep \/ CompleteJob) /\ UNCHANGED cellVars
  BY <1>2 DEF StartStep, CompleteJob, AtLoopHead, JustSucceeded, worldVars
<1>3. CASE FinishMove /\ UNCHANGED cellVars
  BY <1>3 DEF FinishMove, Return, JustSucceeded, worldVars
<1>4. CASE Judge /\ UNCHANGED cellVars
  <2>1. CASE Verify
    BY <1>4, <2>1 DEF Verify, Judged, ControlOK, JustSucceeded, worldVars
  <2>2. CASE NextStep
    BY <1>4, <2>2 DEF NextStep, ControlOK, JustSucceeded, worldVars
  <2>3. CASE Recover \/ Retry \/ Stop
    BY <1>4, <2>3 DEF Recover, Judged, Retry, Stop, ControlOK, JustSucceeded, worldVars
  <2>4. QED
    BY <1>4, <2>1, <2>2, <2>3 DEF Judge
<1>5. CASE (PlanSucceeds \/ \E reason \in PlanFailure : PlanFails(reason)) /\ UNCHANGED cellVars
  BY <1>5 DEF PlanSucceeds, PlanFails, Return, ControlOK, JustSucceeded, Succeeded, PlanFailure,
              Untried, worldVars
<1>6. ASSUME NEW k \in PartIndex,
             \/ BeginPickRetreat(k) \/ BeginPlaceApproach(k) \/ BeginPlace(k)
             \/ BeginPlaceRetreat(k),
             UNCHANGED cellVars
      PROVE  /\ UNCHANGED <<cellVars, attached>>
             /\ stage' # "finish"
             /\ ~ JustSucceeded'
  BY <1>6 DEF BeginPickRetreat, BeginPlaceApproach, BeginPlace, BeginPlaceRetreat, Dispatching,
              PlanToStandOff, PlanTo, ControlOK, JustSucceeded, worldVars
<1>7. ASSUME NEW j \in JointIndex, BeginJointApproach(j), UNCHANGED cellVars
      PROVE  /\ UNCHANGED <<cellVars, attached>>
             /\ stage' # "finish"
             /\ ~ JustSucceeded'
  BY <1>7 DEF BeginJointApproach, Dispatching, PlanToStandOff, PlanTo, ControlOK, JustSucceeded,
              worldVars
<1>8. CASE CellDone \/ UNCHANGED cellAll
  BY <1>8 DEF CellDone, Done, cellAll, vars, jobVars, worldVars, JustSucceeded, Succeeded
<1>9. QED
  BY <1>1, <1>2, <1>3, <1>4, <1>5, <1>6, <1>7, <1>8 DEF Apart, CellUntouched

(* None of them is the beginning of a PICK_APPROACH. *)
LEMMA ApartApproaches ==
    ASSUME JobOK, Apart, [AnyNext]_vars, NEW i \in PartIndex, Approached(i)'
    PROVE  Approached(i)
<1> USE DEF JobOK
<1> SUFFICES ASSUME ~ Approached(i) PROVE FALSE
  OBVIOUS
<1>1. PICK sighting \in PoseOrNone : BeginPickApproach(i, sighting)
  BY ApproachBegins
<1>2. stage = "dispatch" /\ step = PickApproachAt(i) /\ fsm = "PLAN_SKILL"
      /\ stage' \in {"plan", "idle"} /\ fsm' = fsm /\ status = "none"
  BY <1>1 DEF BeginPickApproach, Dispatching, PlanToStandOff, PlanTo, ControlOK, Running
<1>3. \A j \in PartIndex :
          step \notin {PickAt(j), PickRetreatAt(j), PlaceApproachAt(j), PlaceAt(j)}
  BY <1>2, ApproachSteps
<1>4. \A j \in PartIndex : step # PlaceRetreatAt(j)
  BY <1>2, Positions DEF PickApproachAt, PlaceRetreatAt
<1>5. \A j \in JointIndex : step # JointApproachAt(j)
  <2>1. \A j \in JointIndex : j \in Nat /\ j >= 1
    BY JointsAssumption DEF JointIndex
  <2>2. QED
    BY <1>2, <2>1, Positions, StepCountType DEF PickApproachAt, JointApproachAt
<1>6. ~ (CellDone \/ UNCHANGED cellAll)
  BY <1>2 DEF CellDone, Done, cellAll, vars, jobVars
<1>7. ~ Prepare /\ ~ StartStep /\ ~ CompleteJob /\ ~ FinishMove /\ ~ Judge /\ ~ PlanSucceeds
  BY <1>2 DEF Prepare, Validate, BuildWorld, AcceptCorrection, RaiseUnknownPart,
      RejectCorrection, StartStep, CompleteJob, AtLoopHead, FinishMove, Judge, Verify, Judged,
      NextStep, Recover, Retry, Stop, PlanSucceeds
<1>8. ~ \E reason \in PlanFailure : PlanFails(reason)
  BY <1>2 DEF PlanFails
<1>9. \A j \in PartIndex :
          ~ (BeginPickRetreat(j) \/ BeginPlaceApproach(j) \/ BeginPlace(j) \/ BeginPlaceRetreat(j))
  BY <1>3, <1>4
     DEF BeginPickRetreat, BeginPlaceApproach, BeginPlace, BeginPlaceRetreat, Dispatching
<1>10. \A j \in JointIndex : ~ BeginJointApproach(j)
  BY <1>5 DEF BeginJointApproach, Dispatching
<1>11. QED
  BY <1>6, <1>7, <1>8, <1>9, <1>10 DEF Apart, CellUntouched

(* Everything a step of the cell may be. *)
LEMMA CellSteps ==
    ASSUME [CellNext \/ CellDone]_cellAll
    PROVE  \/ Apart
           \/ CellExecutionSucceeds
           \/ \E error \in ExecutionStatus \ {"SUCCESS"} : CellExecutionFails(error)
           \/ \E j \in PartIndex :
                 \/ CellPickApproach(j)
                 \/ CellPick(j)
                 \/ \E closed, verified \in BOOLEAN : CellFinishPick(j, closed, verified)
                 \/ CellFinishPickRetreat(j)
                 \/ CellFinishPlace(j)
BY DEF CellNext, Apart

LEMMA BodiesStep == JobOK /\ BodiesOK /\ [CellNext \/ CellDone]_cellAll => BodiesOK'
<1> SUFFICES ASSUME JobOK, BodiesOK, [CellNext \/ CellDone]_cellAll PROVE BodiesOK'
  OBVIOUS
<1> USE DEF BodiesOK
<1>1. CASE UNCHANGED cellVars
  BY <1>1 DEF cellVars
<1>2. CASE \/ CellExecutionSucceeds
           \/ \E error \in ExecutionStatus \ {"SUCCESS"} : CellExecutionFails(error)
  <2>1. target \in Pose
    BY <1>2 DEF CellExecutionSucceeds, CellExecutionFails, ExecutionSucceeds, ExecutionFails,
                JobOK, TargetOK
  <2>2. QED
    BY <1>2, <2>1 DEF CellExecutionSucceeds, CellExecutionFails
<1>3. CASE JawsOpen
  BY <1>3, TruePoseType DEF JawsOpen
<1>4. ASSUME NEW j \in PartIndex, NEW closed \in BOOLEAN, NEW verified \in BOOLEAN,
             CellFinishPick(j, closed, verified)
      PROVE  BodiesOK'
  <2> DEFINE p == PartAt(j)
  <2>1. fsm = "PLAN_SKILL" /\ p \in PartIds
    BY <1>4, PartAtType DEF CellFinishPick, FinishPick, Finishing, JobOK, ControlOK
  <2>2. scenePose[p] \in Pose
    BY <2>1, BelievedType DEF JobOK, SceneOK, SceneMirrorsWorld
  <2>3. RelativeTo(arm, scenePose[p]) \in Pose /\ RelativeTo(arm, TruePose(p)) \in Pose
    <3> HIDE DEF p
    <3> QED BY <2>1, <2>2, RelativeType, TruePoseType
  <2>4. /\ UNCHANGED <<arm, body>>
        /\ held' = p \/ held' = "nothing" \/ held' = held
        /\ grip' = IF held' # held THEN RelativeTo(arm, TruePose(p)) ELSE grip
        /\ sceneRel' = [sceneRel EXCEPT ![p] = RelativeTo(arm, scenePose[p])]
    BY <1>4 DEF CellFinishPick
  <2>5. held' # "nothing" => grip' \in Pose
    <3> HIDE DEF p
    <3> QED BY <2>3, <2>4
  <2>6. sceneRel' \in [PartIds -> PoseOrNone]
    <3> HIDE DEF p
    <3> QED BY <2>1, <2>3, <2>4 DEF PoseOrNone
  <2>7. QED
    BY <2>1, <2>4, <2>5, <2>6
<1>5. CASE Apart
  BY <1>1, <1>5 DEF Apart, CellUntouched, CellDone, cellAll
<1>6. ASSUME NEW j \in PartIndex,
             \/ CellPickApproach(j) \/ CellPick(j) \/ CellFinishPickRetreat(j)
             \/ CellFinishPlace(j)
      PROVE  JawsOpen \/ UNCHANGED cellVars
  BY <1>6 DEF CellPickApproach, CellPick, CellFinishPickRetreat, CellFinishPlace, CommandOpen
<1>7. QED
  BY <1>1, <1>2, <1>3, <1>4, <1>5, <1>6, CellSteps

-------------------------------------------------------------------------------
(* What is between the jaws.                                                *)

LEMMA HeldStep == JobOK /\ BodiesOK /\ HeldIsKnown /\ [CellNext \/ CellDone]_cellAll => HeldIsKnown'
<1> SUFFICES ASSUME JobOK, BodiesOK, HeldIsKnown, [CellNext \/ CellDone]_cellAll,
                    NEW i \in PartIndex, held' = PartAt(i)
             PROVE  attached'[PartAt(i)] \/ (GripperFails /\ step' >= PlaceAt(i))
  BY DEF HeldIsKnown, PartAt, PlaceAt
<1>0. /\ PartAt(i) \in PartIds /\ PartAt(i) # "nothing"
      /\ step \in Int /\ PlaceAt(i) \in Int
      /\ step' = step \/ step' = step + 1
  <2>1. [AnyNext]_vars
    BY CellNextIsAny
  <2>2. QED
    BY <2>1, PartAtType, CellAssumption, StepCountType, Positions, StepsGoForward
       DEF JobOK, TypeOK, PlaceAt
<1>1. held = PartAt(i) => attached[PartAt(i)] \/ (GripperFails /\ step >= PlaceAt(i))
  BY DEF HeldIsKnown
<1>2. CASE held = PartAt(i) /\ attached' = attached
  BY <1>0, <1>1, <1>2
<1>3. CASE Apart
  BY <1>2, <1>3, ApartSucceeds DEF cellVars
<1>4. CASE \/ CellExecutionSucceeds
           \/ \E error \in ExecutionStatus \ {"SUCCESS"} : CellExecutionFails(error)
  BY <1>2, <1>4 DEF CellExecutionSucceeds, CellExecutionFails, ExecutionSucceeds, ExecutionFails,
                    worldVars
<1>5. ASSUME NEW j \in PartIndex, CellPickApproach(j) \/ CellFinishPickRetreat(j)
      PROVE  held = PartAt(i) /\ attached' = attached
  BY <1>5 DEF CellPickApproach, CellFinishPickRetreat, BeginPickApproach, FinishPickRetreat,
              cellVars, worldVars
<1>6. ASSUME NEW j \in PartIndex, CellPick(j)
      PROVE  held = PartAt(i) /\ attached' = attached
  BY <1>0, <1>6 DEF CellPick, BeginPick, CommandOpen, JawsOpen, cellVars, worldVars
<1>7. ASSUME NEW j \in PartIndex, NEW closed \in BOOLEAN, NEW verified \in BOOLEAN,
             CellFinishPick(j, closed, verified)
      PROVE  attached'[PartAt(i)] \/ (GripperFails /\ step' >= PlaceAt(i))
  <2>1. /\ attached' = [attached EXCEPT ![PartAt(j)] = TRUE]
        /\ held' = held \/ held' = PartAt(j) \/ held' = "nothing"
        /\ step' = step
    BY <1>7 DEF CellFinishPick, FinishPick, WorldAttach, Return
  <2>2. CASE PartAt(i) = PartAt(j)
    BY <1>0, <2>1, <2>2 DEF JobOK, TypeOK
  <2>3. CASE PartAt(i) # PartAt(j)
    BY <1>0, <1>1, <2>1, <2>3 DEF JobOK, TypeOK
  <2>4. QED
    BY <2>2, <2>3
<1>8. ASSUME NEW j \in PartIndex, CellFinishPlace(j)
      PROVE  attached'[PartAt(i)] \/ (GripperFails /\ step' >= PlaceAt(i))
  <2>1. /\ attached' = [attached EXCEPT ![PartAt(j)] = FALSE]
        /\ step = PlaceAt(j) /\ step' = step
    BY <1>8 DEF CellFinishPlace, FinishPlace, Finishing, WorldDetach, Return
  <2>2. GripperFails /\ held' = held
    BY <1>0, <1>8 DEF CellFinishPlace, CommandOpen, JawsOpen, cellVars
  <2>3. CASE i = j
    BY <1>0, <2>1, <2>2, <2>3
  <2>4. CASE i # j
    BY <1>0, <1>1, <2>1, <2>2, <2>4, Positions DEF JobOK, TypeOK
  <2>5. QED
    BY <2>3, <2>4
<1>9. QED
  BY <1>2, <1>3, <1>4, <1>5, <1>6, <1>7, <1>8, CellSteps

(* While a part is attached, and throughout its PICK, nothing moves where   *)
(* it is believed.                                                          *)
LEMMA GraspKept ==
    ASSUME JobOK, [AnyNext]_vars, NEW i \in PartIndex, attached'[PartAt(i)] \/ step' = PickAt(i)
    PROVE  /\ PoseOf(PartAt(i))' = PoseOf(PartAt(i))
           /\ GraspAt(i)' = GraspAt(i)
           /\ GripAt(i)' = GripAt(i)
<1>1. observed'[PartAt(i)] = observed[PartAt(i)]
  <2> SUFFICES ASSUME observed'[PartAt(i)] # observed[PartAt(i)] PROVE FALSE
    OBVIOUS
  <2>0. /\ PickAt(i) = PickApproachAt(i) + 1 /\ PlaceAt(i) = PickApproachAt(i) + 4
        /\ PickApproachAt(i) \in Nat
    BY Positions DEF PickAt, PickApproachAt, PlaceAt
  <2>1. attached[PartAt(i)] => step \in PickAt(i) .. PlaceAt(i)
    BY DEF JobOK, CarryOK
  <2>2. CASE AcceptCorrection /\ step = 0
    BY <2>0, <2>1, <2>2 DEF AcceptCorrection
  <2>3. ASSUME NEW sighting \in Pose, BeginPickApproach(i, sighting)
        PROVE  FALSE
    <3>1. step = PickApproachAt(i) /\ step' = step /\ attached' = attached
      BY <2>3 DEF BeginPickApproach, Dispatching, PlanToStandOff, PlanTo
    <3>2. QED
      BY <2>0, <2>1, <3>1
  <2>4. CASE FinishPlace(i)
    <3>1. step = PlaceAt(i) /\ step' = step /\ ~ attached'[PartAt(i)]
      BY <2>4, PartAtType DEF FinishPlace, Finishing, Return, WorldDetach, JobOK, TypeOK
    <3>2. QED
      BY <2>0, <3>1
  <2>5. QED
    BY <2>2, <2>3, <2>4, BeliefMoves DEF JobOK
<1>2. PoseOf(PartAt(i))' = PoseOf(PartAt(i))
  BY <1>1 DEF PoseOf, PartAt
<1>3. QED
  BY <1>2 DEF GraspAt, GripAt, PartAt, GraspOf

(* A plan of a step that touches a part was asked for by that step alone.    *)
LEMMA PlansBegin ==
    ASSUME JobOK, [AnyNext]_vars, NEW i \in PartIndex,
           step' \in {PickAt(i), PickRetreatAt(i), PlaceApproachAt(i), PlaceAt(i)},
           stage' \in {"plan", "execute"}
    PROVE  /\ step' = step
           /\ \/ stage \in {"plan", "execute"} /\ target' = target
              \/ BeginPick(i) \/ BeginPickRetreat(i) \/ BeginPlaceApproach(i) \/ BeginPlace(i)
<1> USE DEF JobOK
<1>1. CASE Prepare
  BY <1>1 DEF Prepare, Validate, BuildWorld, AcceptCorrection, RaiseUnknownPart,
              RejectCorrection, ControlOK
<1>2. CASE StartStep \/ CompleteJob
  BY <1>2 DEF StartStep, CompleteJob, AtLoopHead
<1>3. CASE AnyBegin
  <2>1. stage = "dispatch" /\ step' = step
    BY <1>3
       DEF AnyBegin, BeginPickApproach, BeginPick, BeginPickRetreat, BeginPlaceApproach,
           BeginPlace, BeginPlaceRetreat, BeginJointApproach, PlanToStandOff, PlanTo, Dispatching
  <2>2. ASSUME NEW j \in PartIndex
        PROVE  /\ step \notin {PickApproachAt(j), PlaceRetreatAt(j)}
               /\ step \in {PickAt(j), PickRetreatAt(j), PlaceApproachAt(j), PlaceAt(j)} => j = i
    <3>1. /\ PickApproachAt(j) = 6 * j - 6 /\ PickAt(j) = 6 * j - 5
          /\ PickRetreatAt(j) = 6 * j - 4 /\ PlaceApproachAt(j) = 6 * j - 3
          /\ PlaceAt(j) = 6 * j - 2 /\ PlaceRetreatAt(j) = 6 * j - 1
          /\ i \in Int /\ j \in Int
      BY Positions
         DEF PickApproachAt, PickAt, PickRetreatAt, PlaceApproachAt, PlaceAt, PlaceRetreatAt
    <3>2. step \in {6 * i - 5, 6 * i - 4, 6 * i - 3, 6 * i - 2}
      BY <2>1, <3>1, Positions DEF PickAt, PickRetreatAt, PlaceApproachAt, PlaceAt
    <3>3. QED
      BY <3>1, <3>2
  <2>3. \A j \in JointIndex : step # JointApproachAt(j)
    <3>1. \A j \in JointIndex : j \in Nat /\ j >= 1
      BY JointsAssumption DEF JointIndex
    <3>2. QED
      BY <2>1, <3>1, Positions, StepCountType
         DEF PickAt, PickRetreatAt, PlaceApproachAt, PlaceAt, JointApproachAt
  <2>4. BeginPick(i) \/ BeginPickRetreat(i) \/ BeginPlaceApproach(i) \/ BeginPlace(i)
    BY <1>3, <2>2, <2>3
       DEF AnyBegin, BeginPickApproach, BeginPick, BeginPickRetreat, BeginPlaceApproach,
           BeginPlace, BeginPlaceRetreat, BeginJointApproach, Dispatching
  <2>5. QED
    BY <2>1, <2>4
<1>4. CASE Move
  BY <1>4 DEF Move, PlanFails, PlanSucceeds, ExecutionFails, ExecutionSucceeds, Return
<1>5. CASE AnyFinish
  BY <1>5 DEF AnyFinish, FinishPick, FinishPickRetreat, FinishPlace, FinishMove, Return
<1>6. CASE Judge
  BY <1>6 DEF Judge, Verify, Judged, NextStep, Recover, Retry, Stop, ControlOK
<1>7. CASE UNCHANGED vars
  BY <1>7 DEF vars, jobVars
<1>8. QED
  BY <1>1, <1>2, <1>3, <1>4, <1>5, <1>6, <1>7 DEF AnyNext

(* The plan for a PICK is for its grasp pose. *)
LEMMA PickTarget ==
    ASSUME JobOK, [AnyNext]_vars, NEW i \in PartIndex,
           step' = PickAt(i), stage' \in {"plan", "execute"}
    PROVE  /\ step = PickAt(i)
           /\ \/ stage \in {"plan", "execute"} /\ target' = target
              \/ target' = GraspAt(i)
<1>1. /\ step = PickAt(i)
      /\ \/ stage \in {"plan", "execute"} /\ target' = target
         \/ BeginPick(i) \/ BeginPickRetreat(i) \/ BeginPlaceApproach(i) \/ BeginPlace(i)
  BY PlansBegin
<1>2. step \notin {PickRetreatAt(i), PlaceApproachAt(i), PlaceAt(i)}
  BY <1>1, Positions DEF PickAt, PickRetreatAt, PlaceApproachAt, PlaceAt
<1>3. QED
  BY <1>1, <1>2
     DEF BeginPick, BeginPickRetreat, BeginPlaceApproach, BeginPlace, Dispatching, PlanTo, GraspAt

LEMMA GripStep ==
    JobOK /\ BodiesOK /\ HeldIsKnown /\ GripOK /\ [CellNext \/ CellDone]_cellAll => GripOK'
<1> SUFFICES ASSUME JobOK, BodiesOK, HeldIsKnown, GripOK, [CellNext \/ CellDone]_cellAll,
                    NEW i \in PartIndex
             PROVE  LET p == PartAt(i)
                    IN  /\ step' = PickAt(i) /\ stage' \in {"plan", "execute"} =>
                               target' = GraspAt(i)'
                        /\ step' = PickAt(i) /\ (stage' = "finish" \/ held' = p) =>
                               arm' = GraspAt(i)'
                        /\ attached'[p] => sceneRel'[p] = GripAt(i)'
                        /\ attached'[p] /\ held' = p => grip' = GripAt(i)'
  BY DEF GripOK, PartAt, PickAt
<1> DEFINE p == PartAt(i)
<1>0. [AnyNext]_vars
  BY CellNextIsAny
<1>1. /\ p \in PartIds /\ p # "nothing"
      /\ PoseOf(p) \in Pose /\ GraspAt(i) \in Pose
      /\ PickAt(i) = PickApproachAt(i) + 1 /\ PlaceAt(i) = PickApproachAt(i) + 4
      /\ PickApproachAt(i) \in Nat /\ step \in Int
  BY PartAtType, CellAssumption, BelievedType, Positions, StepCountType
     DEF JobOK, TypeOK, PickAt, PickApproachAt, PlaceAt
<1>2. /\ step = PickAt(i) /\ stage \in {"plan", "execute"} => target = GraspAt(i)
      /\ step = PickAt(i) /\ (stage = "finish" \/ held = p) => arm = GraspAt(i)
      /\ attached[p] => sceneRel[p] = GripAt(i)
      /\ attached[p] /\ held = p => grip = GripAt(i)
  BY DEF GripOK
<1>3. attached'[p] \/ step' = PickAt(i) =>
          PoseOf(p)' = PoseOf(p) /\ GraspAt(i)' = GraspAt(i) /\ GripAt(i)' = GripAt(i)
  BY <1>0, GraspKept
<1>4. /\ attached[p] => step \in PickAt(i) .. PlaceAt(i)
      /\ held = p => attached[p] \/ step >= PlaceAt(i)
  BY DEF JobOK, CarryOK, HeldIsKnown
<1>5. step' = PickAt(i) /\ stage' \in {"plan", "execute"} => target' = GraspAt(i)'
  BY <1>0, <1>2, <1>3, PickTarget
<1>6. step' = PickAt(i) /\ held = p => step = PickAt(i)
  <2>1. step' = step \/ step' = step + 1
    BY <1>0, StepsGoForward DEF JobOK
  <2>2. QED
    BY <1>1, <1>4, <2>1
<1> DEFINE Goal == /\ step' = PickAt(i) /\ (stage' = "finish" \/ held' = p) => arm' = GraspAt(i)'
                   /\ attached'[p] => sceneRel'[p] = GripAt(i)'
                   /\ attached'[p] /\ held' = p => grip' = GripAt(i)'
<1>7. ASSUME UNCHANGED <<cellVars, attached>>, stage' = "finish" => stage = "finish" /\ step' = step
      PROVE  Goal
  <2> HIDE DEF p
  <2> QED BY <1>2, <1>3, <1>6, <1>7 DEF cellVars
<1>8. ASSUME Apart PROVE Goal
  BY <1>7, <1>8, ApartSucceeds
<1>9. ASSUME NEW j \in PartIndex, CellPickApproach(j) \/ CellFinishPickRetreat(j)
      PROVE  Goal
  <2>1. UNCHANGED <<cellVars, attached>> /\ stage' # "finish"
    BY <1>9 DEF CellPickApproach, CellFinishPickRetreat, BeginPickApproach, FinishPickRetreat,
                PlanToStandOff, PlanTo, Return, worldVars
  <2>2. QED
    BY <1>7, <2>1
<1>10. ASSUME \/ CellExecutionSucceeds
              \/ \E error \in ExecutionStatus \ {"SUCCESS"} : CellExecutionFails(error)
       PROVE  Goal
  <2>1. /\ UNCHANGED <<held, grip, sceneRel, attached, step>>
        /\ stage = "execute"
        /\ arm' = target \/ (stage' # "finish" /\ arm' = arm)
    BY <1>10 DEF CellExecutionSucceeds, CellExecutionFails, ExecutionSucceeds, ExecutionFails,
                 Return, worldVars
  <2>2. QED
    <3> HIDE DEF p
    <3> QED BY <1>2, <1>3, <2>1
<1>11. ASSUME NEW j \in PartIndex, CellPick(j)
       PROVE  Goal
  <2>1. /\ UNCHANGED <<arm, grip, sceneRel, attached, step>>
        /\ held' = held \/ held' = "nothing"
        /\ stage' # "finish"
    BY <1>11 DEF CellPick, CommandOpen, JawsOpen, cellVars, BeginPick, PlanTo, worldVars
  <2>2. QED
    <3> HIDE DEF p
    <3> QED BY <1>1, <1>2, <1>3, <2>1
<1>12. ASSUME NEW j \in PartIndex, CellFinishPlace(j)
       PROVE  Goal
  <2>1. /\ UNCHANGED <<arm, grip, sceneRel, step>>
        /\ attached' = [attached EXCEPT ![PartAt(j)] = FALSE]
        /\ held' = held \/ held' = "nothing"
        /\ stage' # "finish"
    BY <1>12 DEF CellFinishPlace, CommandOpen, JawsOpen, cellVars, FinishPlace, WorldDetach, Return
  <2>2. attached'[p] => attached[p]
    BY <1>1, <2>1 DEF JobOK, TypeOK
  <2>3. QED
    <3> HIDE DEF p
    <3> QED BY <1>1, <1>2, <1>3, <2>1, <2>2
<1>13. ASSUME NEW j \in PartIndex, NEW closed \in BOOLEAN, NEW verified \in BOOLEAN,
              CellFinishPick(j, closed, verified)
       PROVE  Goal
  <2>1. /\ UNCHANGED <<arm, step>>
        /\ step = PickAt(j) /\ stage = "finish" /\ fsm = "PLAN_SKILL" /\ stage' # "finish"
        /\ attached' = [attached EXCEPT ![PartAt(j)] = TRUE]
        /\ held' = held \/ (held' = PartAt(j) /\ Around(PartAt(j)))
        /\ grip' = IF held' # held THEN RelativeTo(arm, TruePose(PartAt(j))) ELSE grip
        /\ sceneRel' = [sceneRel EXCEPT ![PartAt(j)] = RelativeTo(arm, scenePose[PartAt(j)])]
    BY <1>13 DEF CellFinishPick, FinishPick, Finishing, WorldAttach, Return, JobOK, ControlOK,
                 Around
  <2>2. CASE j # i
    <3>1. p # PartAt(j) /\ step # PickAt(i)
      BY <2>1, <2>2, Positions DEF PickAt
    <3>2. /\ attached'[p] = attached[p] /\ sceneRel'[p] = sceneRel[p]
          /\ held' = p => held = p /\ grip' = grip
      BY <1>1, <2>1, <3>1 DEF JobOK, TypeOK, BodiesOK
    <3>3. QED
      <4> HIDE DEF p
      <4> QED BY <1>2, <1>3, <2>1, <3>1, <3>2
  <2>3. CASE j = i
    <3>1. attached'[p] /\ step' = PickAt(i)
      BY <1>1, <2>1, <2>3 DEF JobOK, TypeOK
    <3>2. arm = GraspAt(i) /\ scenePose[p] = PoseOf(p)
      BY <1>1, <1>2, <2>1, <2>3 DEF JobOK, SceneOK, SceneMirrorsWorld
    <3>3. sceneRel'[p] = RelativeTo(arm, scenePose[p])
      BY <1>1, <2>1, <2>3 DEF BodiesOK
    <3>4. held' = p => grip' = GripAt(i)
      <4>1. CASE held' = held
        <5> HIDE DEF p
        <5> QED BY <1>1, <1>2, <1>4, <2>1, <2>3, <4>1
      <4>2. CASE held' # held
        <5>1. Around(p) /\ grip' = RelativeTo(arm, TruePose(p))
          BY <2>1, <2>3, <4>2
        <5>2. body[p] \in Pose /\ GraspOf(p).offset \in Vec
          BY <1>1, PartFields DEF BodiesOK
        <5>3. GraspPose(body[p], GraspOf(p).offset) = GraspPose(PoseOf(p), GraspOf(p).offset)
          BY <3>2, <5>1 DEF Around, GraspAt
        <5>4. body[p] = PoseOf(p)
          <6> HIDE DEF p
          <6> QED BY <1>1, <5>2, <5>3, GraspPoseKnows
        <5>5. TruePose(p) = body[p]
          BY <1>1, <5>1 DEF Around, TruePose
        <5>6. QED
          BY <3>2, <5>1, <5>4, <5>5 DEF GripAt
      <4>3. QED
        BY <4>1, <4>2
    <3>5. QED
      BY <1>3, <2>1, <3>1, <3>2, <3>3, <3>4 DEF GripAt
  <2>4. QED
    BY <2>2, <2>3
<1>14. Goal
  <2> HIDE DEF Goal
  <2> QED BY <1>8, <1>9, <1>10, <1>11, <1>12, <1>13, CellSteps
<1>15. QED
  BY <1>5, <1>14

-------------------------------------------------------------------------------
(* What is carried, when the sensor answers.                                *)

LEMMA SightStep ==
    ASSUME SensorMisses = FALSE, JobOK, BodiesOK, HeldIsKnown, GripOK, SightOK,
           [CellNext \/ CellDone]_cellAll
    PROVE  SightOK'
<1> SUFFICES ASSUME NEW i \in PartIndex
             PROVE  LET p == PartAt(i)
                    IN  /\ Approached(i)' /\ step' <= PickRetreatAt(i) /\ held' # p =>
                               body'[p] = PoseOf(p)'
                        /\ step' = PickRetreatAt(i) /\ JustSucceeded' => held' = p
                        /\ step' \in {PlaceApproachAt(i), PlaceAt(i)} /\ attached'[p] =>
                               held' = p
  BY DEF SightOK, PartAt, PickRetreatAt, PlaceApproachAt, PlaceAt
<1> DEFINE p == PartAt(i)
           Lies == Approached(i)' /\ step' <= PickRetreatAt(i) /\ held' # p =>
                       body'[p] = PoseOf(p)'
           Lifted == step' = PickRetreatAt(i) /\ JustSucceeded' => held' = p
           Carried == step' \in {PlaceApproachAt(i), PlaceAt(i)} /\ attached'[p] => held' = p
<1>0. [AnyNext]_vars
  BY CellNextIsAny
<1>1. /\ p \in PartIds /\ p # "nothing"
      /\ PoseOf(p) \in Pose /\ GraspAt(i) \in Pose
      /\ PickApproachAt(i) \in Nat /\ step \in Int
      /\ PickAt(i) = PickApproachAt(i) + 1 /\ PickRetreatAt(i) = PickApproachAt(i) + 2
      /\ PlaceApproachAt(i) = PickApproachAt(i) + 3 /\ PlaceAt(i) = PickApproachAt(i) + 4
      /\ step' = step \/ (step' = step + 1 /\ NextStep)
  BY <1>0, PartAtType, CellAssumption, BelievedType, Positions, StepCountType, StepsGoForward
     DEF JobOK, TypeOK, PickApproachAt, PickAt, PickRetreatAt, PlaceApproachAt, PlaceAt
<1>2. /\ Approached(i) /\ step <= PickRetreatAt(i) /\ held # p => body[p] = PoseOf(p)
      /\ step = PickRetreatAt(i) /\ JustSucceeded => held = p
      /\ step \in {PlaceApproachAt(i), PlaceAt(i)} /\ attached[p] => held = p
      /\ step = PickAt(i) /\ held = p => arm = GraspAt(i)
      /\ attached[p] /\ held = p => grip = GripAt(i)
      /\ held = p => attached[p] \/ step >= PlaceAt(i)
  BY DEF SightOK, GripOK, HeldIsKnown
<1>3. Approached(i) => step >= PickApproachAt(i)
  BY <1>1 DEF Approached
(* Nothing moves where a part is believed from its sighting to its lift.    *)
<1>4. Approached(i) /\ step' <= PickRetreatAt(i) => PoseOf(p)' = PoseOf(p)
  <2> SUFFICES ASSUME Approached(i), step' <= PickRetreatAt(i),
                      observed'[PartAt(i)] # observed[PartAt(i)]
               PROVE  FALSE
    BY DEF PoseOf, PartAt
  <2>1. CASE AcceptCorrection /\ step = 0
    BY <1>1, <2>1 DEF AcceptCorrection, Approached, JustSucceeded, JobOK, ControlOK
  <2>2. ASSUME NEW sighting \in Pose, BeginPickApproach(i, sighting)
        PROVE  FALSE
    BY <1>1, <2>2 DEF BeginPickApproach, Dispatching, Approached, JustSucceeded, JobOK, ControlOK
  <2>3. CASE FinishPlace(i)
    BY <1>1, <2>3 DEF FinishPlace, Finishing, Return
  <2>4. QED
    BY <1>0, <2>1, <2>2, <2>3, BeliefMoves DEF JobOK
(* A step that leaves the cell alone and is not that of a sighting.         *)
<1>5. ASSUME UNCHANGED <<held, body>>, Approached(i)' => Approached(i)
      PROVE  Lies
  <2> HIDE DEF p
  <2> QED BY <1>1, <1>2, <1>4, <1>5
<1>6. ASSUME UNCHANGED <<held, attached>>,
             step' = PickRetreatAt(i) /\ JustSucceeded' => step = PickRetreatAt(i) /\ JustSucceeded
      PROVE  Lifted /\ Carried
  <2>1. Lifted
    BY <1>2, <1>6
  <2>2. CASE step' = step
    BY <1>2, <1>6, <2>1, <2>2
  <2>3. CASE step' = step + 1 /\ NextStep
    <3>1. JustSucceeded
      BY <2>3 DEF NextStep, JobOK, ControlOK, JustSucceeded
    <3>2. Carried
      <4> HIDE DEF p
      <4> QED BY <1>1, <1>2, <1>6, <2>3, <3>1
    <3>3. QED
      BY <2>1, <3>2
  <2>4. QED
    BY <1>1, <2>2, <2>3
<1> DEFINE Goal == Lies /\ Lifted /\ Carried
<1>7. ASSUME Apart PROVE Goal
  <2>1. UNCHANGED <<cellVars, attached>> /\ (Approached(i)' => Approached(i))
    BY <1>0, <1>7, ApartSucceeds, ApartApproaches
  <2>2. step' = PickRetreatAt(i) /\ JustSucceeded' => step = PickRetreatAt(i) /\ JustSucceeded
    BY <1>7, ApartSucceeds
  <2>3. Lies
    BY <1>5, <2>1 DEF cellVars
  <2>4. Lifted /\ Carried
    <3> HIDE DEF Lifted, Carried
    <3> QED BY <1>6, <2>1, <2>2 DEF cellVars
  <2>5. QED
    BY <2>3, <2>4
(* Steps other than a beginning, and not at the end of the lift.            *)
<1>8. stage # "dispatch" => (Approached(i)' => Approached(i))
  BY <1>0, ApproachBegins DEF BeginPickApproach, Dispatching, JobOK
<1>9. ASSUME \/ CellExecutionSucceeds
             \/ \E error \in ExecutionStatus \ {"SUCCESS"} : CellExecutionFails(error)
      PROVE  Goal
  <2>1. /\ UNCHANGED <<held, body, attached>> /\ stage = "execute" /\ ~ JustSucceeded'
    BY <1>9 DEF CellExecutionSucceeds, CellExecutionFails, ExecutionSucceeds, ExecutionFails,
                Return, worldVars, JustSucceeded, Succeeded, JobOK, ControlOK, Untried
  <2>2. Lies
    BY <1>5, <1>8, <2>1
  <2>3. Lifted /\ Carried
    <3> HIDE DEF Lifted, Carried
    <3> QED BY <1>6, <2>1
  <2>4. QED
    BY <2>2, <2>3
<1>10. ASSUME NEW j \in PartIndex, CellPickApproach(j)
       PROVE  Goal
  <2>1. PICK view \in Views(PartAt(j)) : BeginPickApproach(j, view)
    BY <1>10 DEF CellPickApproach
  <2>2. view = TruePose(PartAt(j)) /\ view \in Pose /\ view # NoPose
    BY TruePoseType, PartAtType, NoPoseAssumption DEF Views
  <2>3. /\ UNCHANGED <<held, body, attached, step>>
        /\ step = PickApproachAt(j) /\ ~ JustSucceeded'
        /\ observed' = [observed EXCEPT ![PartAt(j)] = view]
    BY <1>10, <2>1, <2>2
       DEF CellPickApproach, cellVars, BeginPickApproach, Dispatching, PlanToStandOff, PlanTo,
           Observe, JustSucceeded, JobOK, ControlOK
  <2>4. Lies
    <3>1. CASE j = i
      <4>1. PoseOf(p)' = view
        BY <1>1, <2>2, <2>3, <3>1 DEF PoseOf, JobOK, TypeOK
      <4>2. held # p => view = body[p]
        BY <2>2, <3>1 DEF TruePose
      <4>3. QED
        <5> HIDE DEF p
        <5> QED BY <2>3, <4>1, <4>2
    <3>2. CASE j # i
      <4>1. Approached(i)' /\ step' <= PickRetreatAt(i) => FALSE
        <5>1. ~ (step >= PickApproachAt(i) /\ step <= PickRetreatAt(i))
          BY <2>3, <3>2, Positions DEF PickApproachAt, PickRetreatAt
        <5>2. Approached(i)' => step' >= PickApproachAt(i)
          BY <1>1, <2>3 DEF Approached, PickApproachAt
        <5>3. QED
          BY <2>3, <5>1, <5>2
      <4>2. QED
        BY <4>1
    <3>3. QED
      BY <3>1, <3>2
  <2>5. Lifted /\ Carried
    <3> HIDE DEF Lifted, Carried
    <3> QED BY <1>6, <2>3
  <2>6. QED
    BY <2>4, <2>5
<1>11. ASSUME NEW j \in PartIndex, CellPick(j)
       PROVE  Goal
  <2>1. /\ step = PickAt(j) /\ UNCHANGED <<attached, step>> /\ ~ JustSucceeded'
        /\ \/ UNCHANGED <<held, body>>
           \/ held' = "nothing" /\ body' = [q \in PartIds |-> TruePose(q)]
    BY <1>11 DEF CellPick, BeginPick, Dispatching, PlanTo, CommandOpen, JawsOpen, cellVars,
                 worldVars, JustSucceeded, JobOK, ControlOK
  <2>2. /\ step # PickRetreatAt(i) /\ step # PlaceApproachAt(i) /\ step # PlaceAt(i)
        /\ step >= PickApproachAt(i) /\ step <= PickRetreatAt(i) => j = i
        /\ step # PickApproachAt(i)
    BY <2>1, Positions DEF PickApproachAt, PickAt, PickRetreatAt, PlaceApproachAt, PlaceAt
  <2>3. Lies
    <3> SUFFICES ASSUME Approached(i)', step' <= PickRetreatAt(i), held' # p
                 PROVE  body'[p] = PoseOf(p)'
      OBVIOUS
    <3>1. Approached(i)
      BY <2>1, <2>2 DEF Approached, PickApproachAt
    <3>2. j = i /\ step = PickAt(i)
      BY <1>3, <2>1, <2>2, <3>1
    <3>3. PoseOf(p)' = PoseOf(p)
      BY <1>4, <3>1
    <3>4. CASE UNCHANGED <<held, body>>
      <4> HIDE DEF p
      <4> QED BY <1>2, <2>1, <3>1, <3>3, <3>4
    <3>5. CASE body' = [q \in PartIds |-> TruePose(q)]
      <4>1. body'[p] = TruePose(p)
        BY <1>1, <3>5
      <4>2. CASE held # p
        <5> HIDE DEF p
        <5> QED BY <1>2, <2>1, <3>1, <3>3, <4>1, <4>2 DEF TruePose
      <4>3. CASE held = p
        <5>1. attached[p] /\ arm = GraspAt(i) /\ grip = GripAt(i)
          <6> HIDE DEF p
          <6> QED BY <1>1, <1>2, <3>2, <4>3
        <5>2. TruePose(p) = CarriedAt(GraspAt(i), RelativeTo(GraspAt(i), PoseOf(p)))
          BY <4>3, <5>1 DEF TruePose, GripAt
        <5>3. QED
          <6> HIDE DEF p
          <6> QED BY <1>1, <3>3, <4>1, <5>2, CarriedBack
      <4>4. QED
        BY <4>2, <4>3
    <3>6. QED
      BY <2>1, <3>4, <3>5
  <2>4. Lifted /\ Carried
    BY <2>1, <2>2
  <2>5. QED
    BY <2>3, <2>4
<1>12. ASSUME NEW j \in PartIndex, NEW closed \in BOOLEAN, NEW verified \in BOOLEAN,
              CellFinishPick(j, closed, verified)
       PROVE  Goal
  <2>1. /\ step = PickAt(j) /\ UNCHANGED <<body, step>> /\ stage = "finish"
        /\ held' = held \/ (held' = PartAt(j) /\ held = "nothing")
    BY <1>12 DEF CellFinishPick, FinishPick, Finishing, Return, Around
  <2>2. step # PickRetreatAt(i) /\ step # PlaceApproachAt(i) /\ step # PlaceAt(i)
    BY <2>1, Positions DEF PickAt, PickRetreatAt, PlaceApproachAt, PlaceAt
  <2>3. Lies
    <3> HIDE DEF p
    <3> QED BY <1>1, <1>2, <1>4, <1>8, <2>1
  <2>4. Lifted /\ Carried
    BY <2>1, <2>2
  <2>5. QED
    BY <2>3, <2>4
<1>13. ASSUME NEW j \in PartIndex, CellFinishPickRetreat(j)
       PROVE  Goal
  <2>1. PICK view \in Views(PartAt(j)) : FinishPickRetreat(j, view)
    BY <1>13 DEF CellFinishPickRetreat
  <2>2. view = TruePose(PartAt(j)) /\ view \in Pose /\ view # NoPose
    BY TruePoseType, PartAtType, NoPoseAssumption DEF Views
  <2>3. /\ UNCHANGED <<held, body, attached, step>>
        /\ step = PickRetreatAt(j) /\ stage = "finish"
    BY <1>13, <2>1
       DEF CellFinishPickRetreat, cellVars, FinishPickRetreat, Finishing, Return, worldVars
  <2>4. Lies
    BY <1>5, <1>8, <2>3
  <2>5. Lifted
    <3> SUFFICES ASSUME step' = PickRetreatAt(i), JustSucceeded' PROVE held = p
      BY <2>3
    <3>1. j = i
      BY <2>3, Positions DEF PickRetreatAt
    <3>2. Held(p, view)
      BY <2>1, <3>1 DEF FinishPickRetreat, Return, JustSucceeded, Succeeded, JobOK, TypeOK, Outcome
    <3>3. view.xyz.z - PoseOf(p).xyz.z > 2
      BY <2>2, <3>2 DEF Held, LiftEpsilon
    <3>4. view # PoseOf(p)
      <4>1. PoseOf(p).xyz.z \in Int
        BY <1>1 DEF Pose, Vec
      <4>2. QED
        <5> HIDE DEF p
        <5> QED BY <3>3, <4>1
    <3>5. Approached(i) /\ step <= PickRetreatAt(i)
      BY <1>1, <2>3, <3>1 DEF Approached
    <3>6. QED
      <4> HIDE DEF p
      <4>1. p = PartAt(j)
        BY <3>1 DEF p
      <4>2. QED
        BY <1>2, <2>2, <3>4, <3>5, <4>1 DEF TruePose
  <2>6. Carried
    <3>1. step # PlaceApproachAt(i) /\ step # PlaceAt(i)
      BY <2>3, Positions DEF PickRetreatAt, PlaceApproachAt, PlaceAt
    <3>2. QED
      BY <2>3, <3>1
  <2>7. QED
    BY <2>4, <2>5, <2>6
<1>14. ASSUME NEW j \in PartIndex, CellFinishPlace(j)
       PROVE  Goal
  <2>1. /\ step = PlaceAt(j) /\ step' = step /\ stage = "finish"
        /\ attached' = [attached EXCEPT ![PartAt(j)] = FALSE]
    BY <1>14 DEF CellFinishPlace, FinishPlace, Finishing, Return, WorldDetach
  <2>2. /\ step # PickRetreatAt(i) /\ step # PlaceApproachAt(i)
        /\ ~ (step >= PickApproachAt(i) /\ step <= PickRetreatAt(i))
        /\ step = PlaceAt(i) => j = i
    BY <2>1, Positions DEF PickApproachAt, PickRetreatAt, PlaceApproachAt, PlaceAt
  <2>3. Lies
    <3>1. Approached(i)' => step' >= PickApproachAt(i)
      BY <1>3, <1>8, <2>1
    <3>2. QED
      BY <2>1, <2>2, <3>1
  <2>4. Lifted /\ Carried
    BY <1>1, <2>1, <2>2 DEF JobOK, TypeOK
  <2>5. QED
    BY <2>3, <2>4
<1>15. Goal
  <2> HIDE DEF Goal
  <2> QED BY <1>7, <1>9, <1>10, <1>11, <1>12, <1>13, <1>14, CellSteps
<1>16. QED
  BY <1>15

-------------------------------------------------------------------------------
(* The theorems.                                                            *)

LEMMA CellStart == CellInit => JobOK /\ BodiesOK /\ HeldIsKnown /\ GripOK /\ SightOK
<1> SUFFICES ASSUME CellInit PROVE JobOK /\ BodiesOK /\ HeldIsKnown /\ GripOK /\ SightOK
  OBVIOUS
<1>1. JobOK
  BY JobStart DEF CellInit
<1>2. BodiesOK
  <2>1. body \in [PartIds -> Pose]
    <3>1. /\ body \in [PartIds -> UNION {Settled[p] : p \in PartIds}]
          /\ \A p \in PartIds : body[p] \in Settled[p]
      BY DEF CellInit
    <3>2. \A p \in PartIds : Settled[p] \subseteq Pose
      BY CellAssumption
    <3>3. QED
      BY <3>1, <3>2
  <2>2. QED
    BY <2>1, CellAssumption DEF CellInit, BodiesOK, PoseOrNone
<1>3. ASSUME NEW i \in PartIndex
      PROVE  /\ held # PartAt(i) /\ ~ attached[PartAt(i)] /\ ~ Approached(i)
             /\ step # PickAt(i) /\ step # PickRetreatAt(i) /\ ~ JustSucceeded
  <2>1. PickApproachAt(i) >= 0 /\ PickApproachAt(i) \in Int
    BY Positions DEF PickApproachAt
  <2>2. QED
    BY <2>1, PartAtType, CellAssumption, Positions
       DEF CellInit, Init, WorldInit, Approached, JustSucceeded, PickApproachAt, PickAt,
           PickRetreatAt
<1>4. QED
  BY <1>1, <1>2, <1>3 DEF HeldIsKnown, GripOK, SightOK

LEMMA CellAlways == CellSpec => [](JobOK /\ BodiesOK /\ HeldIsKnown /\ GripOK)
<1> DEFINE IInv == JobOK /\ BodiesOK /\ HeldIsKnown /\ GripOK
<1>1. CellInit => IInv
  BY CellStart
<1>2. IInv /\ [CellNext \/ CellDone]_cellAll => IInv'
  BY CellNextIsAny, JobPreserved, BodiesStep, HeldStep, GripStep
<1>3. QED
  BY <1>1, <1>2, PTL DEF CellSpec, cellAll

(* A part in the jaws is one the world model knows to be attached, or one    *)
(* whose release was commanded and failed: for every recipe, wherever the    *)
(* parts settled, with any sensor, and whatever grasps miss.                 *)
THEOREM HeldPartsKnown == CellSpec => []HeldIsKnown
BY CellAlways, PTL

(* moveit_scene_adapter.py:91-95, 116-125: whatever the sensor missed, the   *)
(* planner has a part that is held and attached exactly where it really is.  *)
SceneTracksGrasp ==
    \A i \in PartIndex :
        attached[PartAt(i)] /\ held = PartAt(i) => ScenePoseOf(PartAt(i)) = TruePose(PartAt(i))

LEMMA GraspTracked == JobOK /\ GripOK => SceneTracksGrasp
<1> SUFFICES ASSUME JobOK, GripOK, NEW i \in PartIndex, attached[PartAt(i)], held = PartAt(i)
             PROVE  ScenePoseOf(PartAt(i)) = TruePose(PartAt(i))
  BY DEF SceneTracksGrasp
<1>1. PartAt(i) \in PartIds
  BY PartAtType
<1>2. PartAt(i) \in sceneAttached
  BY <1>1 DEF JobOK, SceneOK, SceneMirrorsWorld
<1>3. sceneRel[PartAt(i)] = grip
  BY DEF GripOK
<1>4. QED
  BY <1>2, <1>3 DEF ScenePoseOf, TruePose

THEOREM SceneTracksEveryGrasp == CellSpec => []SceneTracksGrasp
BY GraspTracked, CellAlways, PTL

LEMMA SightAlways ==
    ASSUME SensorMisses = FALSE
    PROVE  CellSpec => [](JobOK /\ GripOK /\ SightOK)
<1> DEFINE IInv == JobOK /\ BodiesOK /\ HeldIsKnown /\ GripOK /\ SightOK
<1>1. CellInit => IInv
  BY CellStart
<1>2. IInv /\ [CellNext \/ CellDone]_cellAll => IInv'
  BY CellNextIsAny, JobPreserved, BodiesStep, HeldStep, GripStep, SightStep
<1>3. QED
  BY <1>1, <1>2, PTL DEF CellSpec, cellAll

(* job_runner.py:94-97: with a sensor that answers, no part is transported   *)
(* that is not in the jaws, whatever grasps miss and are retried and         *)
(* wherever the parts settled.                                               *)
THEOREM NoEmptyTransport ==
    ASSUME SensorMisses = FALSE
    PROVE  CellSpec => []TransportsHeldPart
<1>1. SightOK => TransportsHeldPart
  BY DEF SightOK, TransportsHeldPart, Carrying
<1>2. QED
  BY <1>1, SightAlways, PTL

(* moveit_scene_adapter.py:91-95, 116-125: and throughout the transport the  *)
(* planner has the carried part exactly where it really is.                  *)
THEOREM SceneTracksTransport ==
    ASSUME SensorMisses = FALSE
    PROVE  CellSpec => []SceneTracksHeldPart
<1>1. JobOK /\ GripOK /\ SightOK => SceneTracksHeldPart
  BY GraspTracked DEF SceneTracksGrasp, SightOK, SceneTracksHeldPart, Carrying
<1>2. QED
  BY <1>1, SightAlways, PTL

-------------------------------------------------------------------------------
(* Whether carried parts can be planned for, however steps are retried.     *)

(* A part is believed where it may be until it is placed, and lies where it  *)
(* settled until its PICK.                                                   *)
BeliefOK ==
    \A i \in PartIndex :
        LET p == PartAt(i)
        IN  /\ step < PlaceAt(i) \/ attached[p] => PoseOf(p) \in BelievablePoses(p)
            /\ step <= PickApproachAt(i) => body[p] \in Settled[p]

LiftAt(i) == LiftGoal(PartAt(i), PoseOf(PartAt(i)))

(* The plans of a carried part are for the poses it is carried to.           *)
GoalsOK ==
    \A i \in PartIndex :
        LET p == PartAt(i)
        IN  stage \in {"plan", "execute"} =>
                /\ step = PickRetreatAt(i) => target = LiftAt(i)
                /\ step = PlaceApproachAt(i) => target = ApproachGoal(p)
                /\ step = PlaceAt(i) => target = Part[p].assembly

(* The motion of the current step has succeeded, and nothing failed since.   *)
Arrived == stage = "finish" \/ JustSucceeded

(* From the lift to the release the arm is at one of those poses, whichever  *)
(* attempts failed on the way.                                               *)
CourseOK ==
    \A i \in PartIndex :
        LET p == PartAt(i)
            lift == LiftAt(i)
        IN  /\ step = PickRetreatAt(i) /\ Arrived => arm = lift
            /\ step = PlaceApproachAt(i) => arm \in {lift, ApproachGoal(p)}
            /\ step = PlaceApproachAt(i) /\ Arrived => arm = ApproachGoal(p)
            /\ step = PlaceAt(i) => arm \in {ApproachGoal(p), Part[p].assembly}

CarryStepsAt(i) == {PickRetreatAt(i), PlaceApproachAt(i), PlaceAt(i)}

(* Whatever moves, a motion is over only after the controller's success, and *)
(* only after that is the next step reached.                                 *)
LEMMA ArrivesLate ==
    ASSUME JobOK, [AnyNext]_vars
    PROVE  /\ step' = step \/ (step' = step + 1 /\ JustSucceeded /\ ~ Arrived')
           /\ Arrived' => step' = step /\ (Arrived \/ ExecutionSucceeds)
<1> USE DEF JobOK
<1>1. CASE Prepare
  BY <1>1 DEF Prepare, Validate, BuildWorld, AcceptCorrection, RaiseUnknownPart,
              RejectCorrection, ControlOK, Arrived, JustSucceeded
<1>2. CASE StartStep \/ CompleteJob
  BY <1>2 DEF StartStep, CompleteJob, AtLoopHead, Arrived, JustSucceeded
<1>3. CASE AnyBegin
  BY <1>3
     DEF AnyBegin, BeginPickApproach, BeginPick, BeginPickRetreat, BeginPlaceApproach,
         BeginPlace, BeginPlaceRetreat, BeginJointApproach, PlanToStandOff, PlanTo, Dispatching,
         ControlOK, Arrived, JustSucceeded
<1>4. CASE Move
  <2>1. CASE PlanSucceeds \/ \E reason \in PlanFailure : PlanFails(reason)
    BY <2>1 DEF PlanSucceeds, PlanFails, Return, ControlOK, Arrived, JustSucceeded, Succeeded,
                PlanFailure, Untried
  <2>2. CASE ExecutionSucceeds
    BY <2>2 DEF ExecutionSucceeds
  <2>3. CASE \E error \in ExecutionStatus \ {"SUCCESS"} : ExecutionFails(error)
    BY <2>3 DEF ExecutionFails, Return, ControlOK, Arrived, JustSucceeded, Succeeded, Untried
  <2>4. QED
    BY <1>4, <2>1, <2>2, <2>3 DEF Move
<1>5. CASE AnyFinish
  BY <1>5 DEF AnyFinish, FinishPick, FinishPickRetreat, FinishPlace, FinishMove, Finishing,
              Return, Arrived
<1>6. CASE Judge
  <2>1. CASE Verify
    BY <2>1 DEF Verify, Judged, Arrived, JustSucceeded
  <2>2. CASE NextStep
    BY <2>2 DEF NextStep, ControlOK, Arrived, JustSucceeded
  <2>3. CASE Recover \/ Retry \/ Stop
    BY <2>3 DEF Recover, Judged, Retry, Stop, ControlOK, Arrived, JustSucceeded
  <2>4. QED
    BY <1>6, <2>1, <2>2, <2>3 DEF Judge
<1>7. CASE UNCHANGED vars
  BY <1>7 DEF vars, jobVars, Arrived, JustSucceeded, Succeeded
<1>8. QED
  BY <1>1, <1>2, <1>3, <1>4, <1>5, <1>6, <1>7 DEF AnyNext

(* The pose to lift to does not change from the grasp on. *)
LEMMA LiftKept ==
    ASSUME JobOK, [AnyNext]_vars, NEW i \in PartIndex,
           step' \in {PickRetreatAt(i), PlaceApproachAt(i)}
    PROVE  LiftAt(i)' = LiftAt(i)
<1>1. attached'[PartAt(i)]
  BY JobPreserved DEF JobOK, CarryOK, PartAt, PickRetreatAt, PlaceApproachAt
<1>2. PoseOf(PartAt(i))' = PoseOf(PartAt(i))
  BY <1>1, GraspKept
<1>3. QED
  BY <1>2 DEF LiftAt, PartAt

LEMMA GoalsStep == JobOK /\ GoalsOK /\ [AnyNext]_vars => GoalsOK'
<1> SUFFICES ASSUME JobOK, GoalsOK, [AnyNext]_vars, NEW i \in PartIndex,
                    stage' \in {"plan", "execute"}
             PROVE  /\ step' = PickRetreatAt(i) => target' = LiftAt(i)'
                    /\ step' = PlaceApproachAt(i) => target' = ApproachGoal(PartAt(i))
                    /\ step' = PlaceAt(i) => target' = Part[PartAt(i)].assembly
  BY DEF GoalsOK, PartAt, PickRetreatAt, PlaceApproachAt, PlaceAt, ApproachGoal
<1> SUFFICES ASSUME step' \in CarryStepsAt(i)
             PROVE  /\ step' = PickRetreatAt(i) => target' = LiftAt(i)
                    /\ step' = PlaceApproachAt(i) => target' = ApproachGoal(PartAt(i))
                    /\ step' = PlaceAt(i) => target' = Part[PartAt(i)].assembly
  BY LiftKept DEF CarryStepsAt
<1>1. /\ step' = step
      /\ \/ stage \in {"plan", "execute"} /\ target' = target
         \/ BeginPick(i) \/ BeginPickRetreat(i) \/ BeginPlaceApproach(i) \/ BeginPlace(i)
  BY PlansBegin DEF CarryStepsAt
<1>2. PickAt(i) # step /\ PickRetreatAt(i) # PlaceApproachAt(i)
      /\ PickRetreatAt(i) # PlaceAt(i) /\ PlaceApproachAt(i) # PlaceAt(i)
  BY <1>1, Positions DEF CarryStepsAt, PickAt, PickRetreatAt, PlaceApproachAt, PlaceAt
<1>3. CASE stage \in {"plan", "execute"} /\ target' = target
  BY <1>1, <1>3 DEF GoalsOK
<1>4. CASE BeginPick(i)
  BY <1>2, <1>4 DEF BeginPick, Dispatching
<1>5. CASE BeginPickRetreat(i)
  BY <1>1, <1>2, <1>5
     DEF BeginPickRetreat, Dispatching, PlanToStandOff, PlanTo, LiftAt, LiftGoal, LiftDistance
<1>6. CASE BeginPlaceApproach(i)
  BY <1>1, <1>2, <1>6
     DEF BeginPlaceApproach, Dispatching, PlanToStandOff, PlanTo, ApproachGoal
<1>7. CASE BeginPlace(i)
  BY <1>1, <1>2, <1>7 DEF BeginPlace, Dispatching, PlanTo
<1>8. QED
  BY <1>1, <1>3, <1>4, <1>5, <1>6, <1>7

(* The arm moves with the controller's answer alone. *)
LEMMA ArmMoves ==
    ASSUME JobOK, [CellNext \/ CellDone]_cellAll, NEW i \in PartIndex
    PROVE  \/ arm' = arm /\ ~ ExecutionSucceeds
           \/ ExecutionSucceeds /\ arm' = target
           \/ /\ \E error \in ExecutionStatus \ {"SUCCESS"} : ExecutionFails(error)
              /\ arm' \in {arm, target}
<1>1. CASE Apart
  BY <1>1, ApartSucceeds DEF ExecutionSucceeds, cellVars
<1>2. CASE CellExecutionSucceeds
  BY <1>2 DEF CellExecutionSucceeds
<1>3. CASE \E error \in ExecutionStatus \ {"SUCCESS"} : CellExecutionFails(error)
  BY <1>3 DEF CellExecutionFails
<1>4. ASSUME NEW j \in PartIndex, CellPickApproach(j) \/ CellPick(j)
      PROVE  arm' = arm /\ ~ ExecutionSucceeds
  BY <1>4 DEF CellPickApproach, CellPick, CommandOpen, JawsOpen, cellVars, BeginPickApproach,
              BeginPick, Dispatching, ExecutionSucceeds
<1>5. ASSUME NEW j \in PartIndex,
             \/ \E closed, verified \in BOOLEAN : CellFinishPick(j, closed, verified)
             \/ CellFinishPickRetreat(j)
             \/ CellFinishPlace(j)
      PROVE  arm' = arm /\ ~ ExecutionSucceeds
  BY <1>5 DEF CellFinishPick, CellFinishPickRetreat, CellFinishPlace, CommandOpen, JawsOpen,
              cellVars, FinishPick, FinishPickRetreat, FinishPlace, Finishing, ExecutionSucceeds
<1>6. QED
  BY <1>1, <1>2, <1>3, <1>4, <1>5, CellSteps

LEMMA CourseStep ==
    JobOK /\ BodiesOK /\ GoalsOK /\ CourseOK /\ [CellNext \/ CellDone]_cellAll => CourseOK'
<1> SUFFICES ASSUME JobOK, BodiesOK, GoalsOK, CourseOK, [CellNext \/ CellDone]_cellAll,
                    NEW i \in PartIndex, step' \in CarryStepsAt(i)
             PROVE  LET p == PartAt(i)
                    IN  /\ step' = PickRetreatAt(i) /\ Arrived' => arm' = LiftAt(i)'
                        /\ step' = PlaceApproachAt(i) => arm' \in {LiftAt(i)', ApproachGoal(p)}
                        /\ step' = PlaceApproachAt(i) /\ Arrived' => arm' = ApproachGoal(p)
                        /\ step' = PlaceAt(i) => arm' \in {ApproachGoal(p), Part[p].assembly}
  BY DEF CourseOK, CarryStepsAt, PartAt, PickRetreatAt, PlaceApproachAt, PlaceAt, ApproachGoal
<1>0. [AnyNext]_vars
  BY CellNextIsAny
<1> DEFINE p == PartAt(i)
           Goal == /\ step' = PickRetreatAt(i) /\ Arrived' => arm' = LiftAt(i)
                   /\ step' = PlaceApproachAt(i) => arm' \in {LiftAt(i), ApproachGoal(p)}
                   /\ step' = PlaceApproachAt(i) /\ Arrived' => arm' = ApproachGoal(p)
                   /\ step' = PlaceAt(i) => arm' \in {ApproachGoal(p), Part[p].assembly}
<1>1. /\ step \in Int /\ PickRetreatAt(i) \in Int
      /\ PlaceApproachAt(i) = PickRetreatAt(i) + 1 /\ PlaceAt(i) = PickRetreatAt(i) + 2
  BY Positions, StepCountType DEF JobOK, TypeOK, PickRetreatAt, PlaceApproachAt, PlaceAt
<1>2. /\ step = PickRetreatAt(i) /\ Arrived => arm = LiftAt(i)
      /\ step = PlaceApproachAt(i) => arm \in {LiftAt(i), ApproachGoal(p)}
      /\ step = PlaceApproachAt(i) /\ Arrived => arm = ApproachGoal(p)
      /\ step = PlaceAt(i) => arm \in {ApproachGoal(p), Part[p].assembly}
  BY DEF CourseOK
<1>3. stage \in {"plan", "execute"} =>
          /\ step = PickRetreatAt(i) => target = LiftAt(i)
          /\ step = PlaceApproachAt(i) => target = ApproachGoal(p)
          /\ step = PlaceAt(i) => target = Part[p].assembly
  BY DEF GoalsOK
<1>4. /\ step' = step \/ (step' = step + 1 /\ JustSucceeded /\ ~ Arrived')
      /\ Arrived' => step' = step /\ (Arrived \/ ExecutionSucceeds)
      /\ JustSucceeded => Arrived
  BY <1>0, ArrivesLate DEF Arrived
<1>5. ASSUME step' # PickRetreatAt(i), step' # PlaceApproachAt(i)
      PROVE  step' = PlaceAt(i)
  BY <1>5 DEF CarryStepsAt
<1>6. ASSUME arm' = arm, ~ ExecutionSucceeds
      PROVE  Goal
  <2> HIDE DEF p
  <2>1. CASE step' = step
    BY <1>2, <1>4, <1>6, <2>1
  <2>2. CASE step' = step + 1 /\ JustSucceeded /\ ~ Arrived'
    <3>1. CASE step' = PickRetreatAt(i)
      BY <1>1, <2>2, <3>1
    <3>2. CASE step' = PlaceApproachAt(i)
      <4>1. step = PickRetreatAt(i) /\ Arrived
        BY <1>1, <1>4, <2>2, <3>2
      <4>2. QED
        BY <1>1, <1>2, <1>6, <2>2, <3>2, <4>1
    <3>3. CASE step' = PlaceAt(i)
      <4>1. step = PlaceApproachAt(i) /\ Arrived
        BY <1>1, <1>4, <2>2, <3>3
      <4>2. QED
        BY <1>1, <1>2, <1>6, <2>2, <3>3, <4>1
    <3>4. QED
      BY <3>1, <3>2, <3>3 DEF CarryStepsAt
  <2>3. QED
    BY <1>4, <2>1, <2>2
<1>7. ASSUME ExecutionSucceeds, arm' = target
      PROVE  Goal
  <2>1. stage = "execute" /\ step' = step
    BY <1>7 DEF ExecutionSucceeds
  <2>2. QED
    <3> HIDE DEF p
    <3> QED BY <1>1, <1>3, <1>7, <2>1
<1>8. ASSUME NEW error \in ExecutionStatus \ {"SUCCESS"}, ExecutionFails(error),
             arm' \in {arm, target}
      PROVE  Goal
  <2>1. stage = "execute" /\ step' = step /\ ~ Arrived'
    BY <1>8 DEF ExecutionFails, Return, JobOK, ControlOK, Arrived, JustSucceeded, Succeeded,
                Untried
  <2>2. QED
    <3> HIDE DEF p
    <3> QED BY <1>1, <1>2, <1>3, <1>8, <2>1
<1>9. Goal
  <2> HIDE DEF Goal
  <2> QED BY <1>6, <1>7, <1>8, ArmMoves
<1>10. step' \in {PickRetreatAt(i), PlaceApproachAt(i)} => LiftAt(i)' = LiftAt(i)
  BY <1>0, LiftKept
<1>11. QED
  BY <1>9, <1>10

LEMMA BeliefStep ==
    JobOK /\ BodiesOK /\ HeldIsKnown /\ BeliefOK /\ [CellNext \/ CellDone]_cellAll => BeliefOK'
<1> SUFFICES ASSUME JobOK, BodiesOK, HeldIsKnown, BeliefOK, [CellNext \/ CellDone]_cellAll,
                    NEW i \in PartIndex
             PROVE  /\ step' < PlaceAt(i) \/ attached'[PartAt(i)] =>
                           PoseOf(PartAt(i))' \in BelievablePoses(PartAt(i))
                    /\ step' <= PickApproachAt(i) => body'[PartAt(i)] \in Settled[PartAt(i)]
  BY DEF BeliefOK, PartAt, PlaceAt, PickApproachAt, BelievablePoses
<1> DEFINE p == PartAt(i)
<1>0. [AnyNext]_vars
  BY CellNextIsAny
<1>1. /\ p \in PartIds /\ p # "nothing"
      /\ step \in Int /\ PickApproachAt(i) \in Int
      /\ PickAt(i) = PickApproachAt(i) + 1 /\ PlaceAt(i) = PickApproachAt(i) + 4
      /\ step' = step \/ step' = step + 1
  BY <1>0, PartAtType, CellAssumption, Positions, StepCountType, StepsGoForward
     DEF JobOK, TypeOK, PickApproachAt, PickAt, PlaceAt
<1>2. /\ step < PlaceAt(i) \/ attached[p] => PoseOf(p) \in BelievablePoses(p)
      /\ step <= PickApproachAt(i) => body[p] \in Settled[p]
  BY DEF BeliefOK
<1>3. step <= PickApproachAt(i) => held # p
  <2>1. attached[p] => step \in PickAt(i) .. PlaceAt(i)
    BY DEF JobOK, CarryOK
  <2>2. held = p => attached[p] \/ step >= PlaceAt(i)
    BY DEF HeldIsKnown
  <2>3. QED
    <3> HIDE DEF p
    <3> QED BY <1>1, <2>1, <2>2
<1>4. step' <= PickApproachAt(i) => body'[p] \in Settled[p]
  <2> SUFFICES ASSUME step' <= PickApproachAt(i) PROVE body'[p] \in Settled[p]
    OBVIOUS
  <2>1. step <= PickApproachAt(i)
    <3> HIDE DEF p
    <3> QED BY <1>1
  <2>2. body'[p] = body[p] \/ body'[p] = TruePose(p)
    <3>1. body' = body \/ JawsOpen
      BY CellSteps
         DEF Apart, CellUntouched, CellDone, cellAll, cellVars, CellExecutionSucceeds,
             CellExecutionFails, CellPickApproach, CellPick, CellFinishPick,
             CellFinishPickRetreat, CellFinishPlace, CommandOpen
    <3>2. QED
      BY <1>1, <3>1 DEF JawsOpen
  <2>3. QED
    <3> HIDE DEF p
    <3> QED BY <1>2, <1>3, <2>1, <2>2 DEF TruePose
<1> DEFINE Waits == step < PlaceAt(i) \/ attached[p]
           Goal == step' < PlaceAt(i) \/ attached'[p] => PoseOf(p)' \in BelievablePoses(p)
<1>5. step' < PlaceAt(i) \/ attached'[p] => Waits
  <2>1. attached'[p] # attached[p] /\ attached'[p] => step = PickAt(i)
    <3> SUFFICES ASSUME attached'[p] # attached[p], attached'[p] PROVE step = PickAt(i)
      OBVIOUS
    <3>1. ~ FinishPlace(i)
      BY <1>1 DEF FinishPlace, WorldDetach, JobOK, TypeOK
    <3>2. \E closed, verified \in BOOLEAN : FinishPick(i, closed, verified)
      BY <1>0, <3>1, HoldMoves DEF JobOK
    <3>3. QED
      BY <3>2 DEF FinishPick, Finishing
  <2>2. QED
    <3> HIDE DEF p
    <3> QED BY <1>1, <2>1
<1>6. ASSUME observed'[p] = observed[p]
      PROVE  Goal
  <2>1. PoseOf(p)' = PoseOf(p)
    BY <1>6 DEF PoseOf, PartAt
  <2>2. QED
    BY <1>2, <1>5, <2>1
<1>7. ASSUME NEW pose \in BelievablePoses(p), observed'[p] = pose
      PROVE  Goal
  <2>1. PoseOf(p)' = pose \/ PoseOf(p)' = Part[p].source
    BY <1>7 DEF PoseOf, PartAt
  <2>2. QED
    BY <1>7, <2>1 DEF BelievablePoses
<1>8. ASSUME AcceptCorrection
      PROVE  Goal
  <2>1. /\ correction \in Corrections /\ Accepted(correction)
        /\ correction.part \in PartIds
        /\ observed' = [observed EXCEPT ![correction.part] =
                            CorrectedPose(Part[correction.part].source, correction)]
    BY <1>8 DEF AcceptCorrection, Observe, JobOK, ControlOK
  <2>2. CASE correction.part = p
    <3>1. observed'[p] = CorrectedPose(Part[p].source, correction)
      BY <1>1, <2>1, <2>2 DEF JobOK, TypeOK
    <3>2. CorrectedPose(Part[p].source, correction) \in BelievablePoses(p)
      BY <2>1, <2>2 DEF BelievablePoses
    <3>3. QED
      BY <1>7, <3>1, <3>2
  <2>3. CASE correction.part # p
    BY <1>1, <1>6, <2>1, <2>3 DEF JobOK, TypeOK
  <2>4. QED
    BY <2>2, <2>3
<1>9. ASSUME Apart, ~ AcceptCorrection
      PROVE  observed' = observed
  BY <1>9
     DEF Apart, CellUntouched, CellDone, Done, cellAll, vars, worldVars, Prepare, Validate,
         BuildWorld, RaiseUnknownPart, RejectCorrection, StartStep, CompleteJob, FinishMove,
         Judge, Verify, NextStep, Recover, Retry, Stop, PlanSucceeds, PlanFails,
         BeginPickRetreat, BeginPlaceApproach, BeginPlace, BeginPlaceRetreat, BeginJointApproach
<1>10. ASSUME NEW j \in PartIndex, CellPickApproach(j)
       PROVE  Goal
  <2>1. PICK view \in Views(PartAt(j)) : BeginPickApproach(j, view)
    BY <1>10 DEF CellPickApproach
  <2>2. CASE view = NoPose
    <3>1. observed' = observed
      BY <2>1, <2>2 DEF BeginPickApproach
    <3>2. QED
      BY <1>6, <3>1
  <2>3. CASE view # NoPose
    <3>1. /\ view = TruePose(PartAt(j)) /\ step = PickApproachAt(j)
          /\ observed' = [observed EXCEPT ![PartAt(j)] = view]
      BY <2>1, <2>3 DEF BeginPickApproach, Dispatching, Observe, Views
    <3>2. CASE j = i
      <4>1. view = body[p] /\ body[p] \in Settled[p]
        <5>1. view = TruePose(p) /\ step = PickApproachAt(i)
          BY <3>1, <3>2
        <5>2. QED
          <6> HIDE DEF p
          <6> QED BY <1>1, <1>2, <1>3, <5>1 DEF TruePose
      <4>2. observed'[p] = view
        BY <1>1, <3>1, <3>2 DEF JobOK, TypeOK
      <4>3. view \in BelievablePoses(p)
        BY <4>1 DEF BelievablePoses
      <4>4. QED
        BY <1>7, <4>2, <4>3
    <3>3. CASE j # i
      <4>1. observed'[p] = observed[p]
        BY <1>1, <3>1, <3>3, Positions DEF JobOK, TypeOK
      <4>2. QED
        BY <1>6, <4>1
    <3>4. QED
      BY <3>2, <3>3
  <2>4. QED
    BY <2>2, <2>3
<1>11. ASSUME NEW j \in PartIndex, CellFinishPlace(j)
       PROVE  Goal
  <2>1. /\ step = PlaceAt(j) /\ step' = step
        /\ observed' = [observed EXCEPT ![PartAt(j)] = Part[PartAt(j)].assembly]
        /\ attached' = [attached EXCEPT ![PartAt(j)] = FALSE]
    BY <1>11 DEF CellFinishPlace, FinishPlace, Finishing, WorldDetach, Observe, Return
  <2>2. CASE j = i
    <3>1. ~ attached'[p] /\ ~ (step' < PlaceAt(i))
      BY <1>1, <2>1, <2>2 DEF JobOK, TypeOK
    <3>2. QED
      BY <3>1
  <2>3. CASE j # i
    <3>1. observed'[p] = observed[p]
      BY <1>1, <2>1, <2>3, Positions DEF JobOK, TypeOK
    <3>2. QED
      BY <1>6, <3>1
  <2>4. QED
    BY <2>2, <2>3
<1>12. ASSUME \/ CellExecutionSucceeds
              \/ \E error \in ExecutionStatus \ {"SUCCESS"} : CellExecutionFails(error)
              \/ \E j \in PartIndex :
                    \/ CellPick(j)
                    \/ \E closed, verified \in BOOLEAN : CellFinishPick(j, closed, verified)
                    \/ CellFinishPickRetreat(j)
       PROVE  observed' = observed
  BY <1>12
     DEF CellExecutionSucceeds, CellExecutionFails, ExecutionSucceeds, ExecutionFails, CellPick,
         BeginPick, CellFinishPick, FinishPick, WorldAttach, CellFinishPickRetreat,
         FinishPickRetreat, worldVars
<1>13. Goal
  <2> HIDE DEF Goal
  <2> QED BY <1>6, <1>8, <1>9, <1>10, <1>11, <1>12, CellSteps
<1>14. QED
  BY <1>4, <1>13

LEMMA CourseStart == CellInit => BeliefOK /\ GoalsOK /\ CourseOK /\ ExemptionsOK
<1> SUFFICES ASSUME CellInit PROVE BeliefOK /\ GoalsOK /\ CourseOK /\ ExemptionsOK
  OBVIOUS
<1>1. /\ step = 0 /\ stage = "idle" /\ ~ Arrived
      /\ \A p \in PartIds : observed[p] = NoPose /\ body[p] \in Settled[p]
  BY DEF CellInit, Init, WorldInit, Arrived, JustSucceeded
<1>2. \A i \in PartIndex :
          step \notin {PickAt(i), PickRetreatAt(i), PlaceApproachAt(i), PlaceAt(i)}
  BY <1>1, Positions DEF PickAt, PickRetreatAt, PlaceApproachAt, PlaceAt
<1>3. BeliefOK
  BY <1>1, PartAtType DEF BeliefOK, PoseOf, BelievablePoses
<1>4. QED
  BY <1>1, <1>2, <1>3 DEF GoalsOK, CourseOK, ExemptionsOK

LEMMA CourseAlways ==
    CellSpec => [](JobOK /\ GripOK /\ BeliefOK /\ GoalsOK /\ CourseOK /\ ExemptionsOK)
<1> DEFINE IInv == /\ JobOK /\ BodiesOK /\ HeldIsKnown /\ GripOK
                   /\ BeliefOK /\ GoalsOK /\ CourseOK /\ ExemptionsOK
<1>1. CellInit => IInv
  BY CellStart, CourseStart
<1>2. IInv /\ [CellNext \/ CellDone]_cellAll => IInv'
  BY CellNextIsAny, JobPreserved, BodiesStep, HeldStep, GripStep, BeliefStep, GoalsStep,
     CourseStep, ExemptionsStep DEF JobOK
<1>3. QED
  BY <1>1, <1>2, PTL DEF CellSpec, cellAll

LEMMA ClearPosesPlannable ==
    ASSUME CarriedPosesClear, JobOK, GripOK, BeliefOK, GoalsOK, CourseOK, ExemptionsOK
    PROVE  CarriedPlansFeasible
<1> SUFFICES ASSUME NEW i \in PartIndex, stage = "plan",
                    step \in PickRetreatAt(i) .. PlaceAt(i),
                    NEW pose \in {ScenePoseOf(PartAt(i)), CarriedAt(target, sceneRel[PartAt(i)])},
                    NEW o \in ObstacleIds, InPaddedZone(PartAt(i), pose, o)
             PROVE  <<PartAt(i), o>> \in allowed
  BY DEF CarriedPlansFeasible
<1> DEFINE p == PartAt(i)
           q == PoseOf(p)
<1>1. p \in PartIds /\ ~ JustSucceeded
  BY PartAtType DEF JobOK, ControlOK, JustSucceeded
<1>2. CASE step = PickRetreatAt(i)
  <2>1. o \in ExemptionOf(p)
    BY <1>1, <1>2 DEF ExemptionsOK
  <2>2. QED
    BY <2>1 DEF ExemptionOf
<1>3. CASE step \in {PlaceApproachAt(i), PlaceAt(i)}
  <2>1. attached[p] /\ p \in sceneAttached
    <3>1. attached[p]
      BY <1>1, <1>3 DEF JobOK, CarryOK
    <3>2. fsm = "PLAN_SKILL"
      BY DEF JobOK, ControlOK
    <3>3. QED
      BY <1>1, <3>1, <3>2 DEF JobOK, SceneOK, SceneMirrorsWorld
  <2>2. ExemptionOf(p) = ObstacleIds \ Enforceable(p)
    BY <1>3, <2>1 DEF ExemptionsOK
  <2>3. q \in BelievablePoses(p)
    BY <2>1 DEF BeliefOK
  <2>4. sceneRel[p] = GripAt(i)
    BY <2>1 DEF GripOK
  <2>5. \A gripper : CarriedAt(gripper, sceneRel[p]) = CarriedFrom(p, q, gripper)
    BY <2>4 DEF GripAt, GraspAt, CarriedFrom
  <2>6. arm \in CarryPoses(p, q) /\ target \in CarryPoses(p, q)
    <3>1. arm \in {LiftAt(i), ApproachGoal(p), Part[p].assembly}
      BY <1>3 DEF CourseOK
    <3>2. target \in {ApproachGoal(p), Part[p].assembly}
      BY <1>3 DEF GoalsOK
    <3>3. QED
      BY <3>1, <3>2 DEF CarryPoses, LiftAt
  <2>7. \E gripper \in CarryPoses(p, q) : pose = CarriedFrom(p, q, gripper)
    BY <2>1, <2>5, <2>6 DEF ScenePoseOf
  <2>8. o \in WorkHolding \cup Overlapping(p, q)
    <3> HIDE DEF p, q
    <3> QED BY <1>1, <2>3, <2>7 DEF CarriedPosesClear, p
  <2>9. o \in ExemptionOf(p)
    BY <2>2, <2>8 DEF Enforceable
  <2>10. QED
    BY <2>9 DEF ExemptionOf
<1>4. step = PickRetreatAt(i) \/ step \in {PlaceApproachAt(i), PlaceAt(i)}
  <2>1. /\ PickRetreatAt(i) \in Int
        /\ PlaceApproachAt(i) = PickRetreatAt(i) + 1 /\ PlaceAt(i) = PickRetreatAt(i) + 2
    BY Positions DEF PickRetreatAt, PlaceApproachAt, PlaceAt
  <2>2. QED
    BY <2>1
<1>5. QED
  BY <1>2, <1>3, <1>4

(* job_runner.py:139, world_model.py:79: whether a carried part can be       *)
(* planned for is a matter of the recipe alone.  If none of the three poses  *)
(* of a part on its way is in the padding of an obstacle it is to avoid, no  *)
(* failure, retry, late error, missed sighting or stuck gripper ever makes   *)
(* the job ask for a plan from or to a pose that is.                         *)
THEOREM ClearRecipesPlannable ==
    ASSUME CarriedPosesClear
    PROVE  CellSpec => []CarriedPlansFeasible
BY CourseAlways, ClearPosesPlannable, PTL
===============================================================================
