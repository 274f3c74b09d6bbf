--------------------------- MODULE JobRunnerProofs ----------------------------
(***************************************************************************)
(* Proofs about JobRunner, for every recipe, set of messages and sensor    *)
(* the assumptions of its modules allow.                                   *)
(***************************************************************************)
EXTENDS JobRunner, FiniteSetTheorems, WellFoundedInduction, TLAPS

-------------------------------------------------------------------------------
(* Geometry: derived waypoints are poses.                                   *)

(* derive_grasp_pose, derive_approach_pose and compose_correction of poses  *)
(* are poses.                                                               *)
LEMMA WaypointTypes ==
    ASSUME NEW pose \in Pose, NEW v \in Vec, NEW d \in Int
    PROVE  /\ GraspPose(pose, v) \in Pose
           /\ StandOff(pose, v, d) \in Pose
           /\ \A q \in Quarter : Composed(pose, v, q) \in Pose
<1>1. Rotated(pose.yaw, v) \in Vec
  BY DEF Rotated, V, Vec, Pose, Quarter
<1>2. GraspPose(pose, v) \in Pose
  BY <1>1 DEF GraspPose, TransformPoint, Plus, V, Vec, Pose, Quarter
<1>3. StandOff(pose, v, d) \in Pose
  <2>1. Direction(v) \in [x : {-1, 0, 1}, y : {-1, 0, 1}, z : {-1, 0, 1}]
    BY DEF Direction, Unit, V, Vec
  <2>2. Scaled(d, Direction(v)) \in Vec
    BY <2>1 DEF Scaled, V, Vec
  <2>3. QED
    BY <2>2 DEF StandOff, Minus, V, Vec, Pose, Quarter
<1>4. \A q \in Quarter : Composed(pose, v, q) \in Pose
  BY DEF Composed, Plus, TurnsSum, V, Vec, Pose, Quarter
<1>5. QED
  BY <1>2, <1>3, <1>4

(* The top of an obstacle is a height. *)
LEMMA TopType == \A o \in ObstacleIds : TopOf(o) \in Int
BY ObstaclesAssumption DEF TopOf, Hi, Extent, Plus, V, Vec, Pose, ObstacleIds

(* clearance_height_for takes a running maximum over the overlapped zones:  *)
(* there is one, because a recipe lists finitely many obstacles.  A minimal *)
(* set of zones without a maximum cannot exist.                             *)
LEMMA HighestExists ==
    ASSUME NEW zones \in SUBSET ObstacleIds
    PROVE  \E t \in {0} \cup {TopOf(o) : o \in zones} :
              \A u \in {0} \cup {TopOf(o) : o \in zones} : u <= t
<1> DEFINE Tops(Z) == {0} \cup {TopOf(o) : o \in Z}
           Maximum(Z, t) == t \in Tops(Z) /\ \A u \in Tops(Z) : u <= t
           Bad == {Z \in SUBSET ObstacleIds : \A t \in Tops(Z) : ~ Maximum(Z, t)}
<1>1. Bad = {}
  <2>1. SUFFICES ASSUME Bad # {} PROVE FALSE
    OBVIOUS
  <2>2. Bad \subseteq FiniteSubsetsOf(ObstacleIds)
    BY ObstaclesAssumption, FS_FiniteSubsetsOfFinite
  <2>3. IsWellFoundedOn(StrictSubsetOrdering(ObstacleIds), FiniteSubsetsOf(ObstacleIds))
    BY FS_StrictSubsetOrderingWellFounded
  <2>4. PICK Z \in Bad : \A Y \in Bad : ~ (<<Y, Z>> \in StrictSubsetOrdering(ObstacleIds))
    <3> HIDE DEF Bad
    <3> QED BY <2>1, <2>2, <2>3, WFMin
  <2>5. CASE Z = {}
    BY <2>4, <2>5
  <2>6. CASE Z # {}
    <3>1. PICK o \in Z : TRUE
      BY <2>6
    <3> DEFINE Y == Z \ {o}
    <3>2. Y \notin Bad
      BY <2>4, <3>1 DEF StrictSubsetOrdering
    <3>3. PICK t \in Tops(Y) : Maximum(Y, t)
      BY <2>4, <3>2
    <3>4. \A u \in Tops(Z) : u \in Tops(Y) \/ u = TopOf(o)
      OBVIOUS
    <3>5. t \in Int /\ TopOf(o) \in Int /\ \A u \in Tops(Z) : u \in Int
      BY TopType, <2>4, <3>1, <3>3
    <3>6. CASE TopOf(o) <= t
      BY <2>4, <3>3, <3>4, <3>5, <3>6
    <3>7. CASE ~ TopOf(o) <= t
      <4>1. \A u \in Tops(Y) : u <= TopOf(o)
        BY <2>4, <3>3, <3>5, <3>7
      <4>2. TopOf(o) \in Tops(Z) /\ \A u \in Tops(Z) : u <= TopOf(o)
        BY <3>1, <3>4, <3>5, <4>1
      <4>3. QED
        BY <2>4, <4>2
    <3>8. QED
      BY <3>6, <3>7
  <2>7. QED
    BY <2>5, <2>6
<1>2. QED
  BY <1>1

(* world_model.py:43-70: rising by the clearance height takes the underside *)
(* of the part above the top of every zone it lies in, by the margin, work- *)
(* holding aside.  Zones that end at or below height 0 are the exception:   *)
(* the running maximum starts there.                                        *)
THEOREM LiftClearsZones ==
    ASSUME NEW p \in PartIds, NEW pose \in Pose
    PROVE  /\ ClearanceHeight(p, pose) \in Int
           /\ ClearanceHeight(p, pose) >= 0
           /\ \A o \in Overlapping(p, pose) \ WorkHolding :
                 TopOf(o) > 0 =>
                     Lo(Part[p].half, pose).z + ClearanceHeight(p, pose)
                         >= TopOf(o) + ClearanceMargin
<1> DEFINE zones == Overlapping(p, pose) \ WorkHolding
           tops == {0} \cup {TopOf(o) : o \in zones}
           highest == CHOOSE t \in tops : \A u \in tops : u <= t
           low == Lo(Part[p].half, pose).z
<1>1. zones \in SUBSET ObstacleIds
  BY DEF Overlapping
<1>2. highest \in tops /\ \A u \in tops : u <= highest
  BY <1>1, HighestExists
<1>3. highest \in Int
  BY <1>1, <1>2, TopType
<1>4. low \in Int
  BY PartsAssumption DEF Lo, Extent, Minus, V, Vec, Pose, PartType, PartIds
<1>5. ClearanceHeight(p, pose) =
          IF highest = 0 THEN 0 ELSE Larger(0, highest + ClearanceMargin - low)
  BY DEF ClearanceHeight
<1>6. \A o \in zones : TopOf(o) <= highest /\ TopOf(o) \in Int
  BY <1>1, <1>2, TopType
<1>7. QED
  <2> HIDE DEF zones, tops, highest, low
  <2>1. ClearanceHeight(p, pose) \in Int /\ ClearanceHeight(p, pose) >= 0
    BY <1>3, <1>4, <1>5 DEF Larger, ClearanceMargin
  <2>2. \A o \in zones : TopOf(o) > 0 =>
            low + ClearanceHeight(p, pose) >= TopOf(o) + ClearanceMargin
    BY <1>3, <1>4, <1>5, <1>6 DEF Larger, ClearanceMargin
  <2>3. QED
    BY <2>1, <2>2 DEF zones, low

-------------------------------------------------------------------------------
(* Type correctness.                                                        *)

LEMMA PartAtType == \A i \in PartIndex : PartAt(i) \in PartIds /\ i \in 1 .. Len(PartOrder)
BY PartsAssumption DEF PartAt, PartIndex

LEMMA PartFields ==
    \A p \in PartIds :
        /\ Part[p].half \in Vec
        /\ Part[p].source \in Pose
        /\ Part[p].assembly \in Pose
        /\ GraspOf(p).vec \in Vec
        /\ GraspOf(p).dist \in Int
        /\ GraspOf(p).offset \in Vec
BY PartsAssumption DEF PartIds, PartType, GraspType, GraspOf

(* The lookup by id finds a joint: the step's own joint has that id. *)
LEMMA JointByIdType ==
    \A j \in JointIndex : JointById(Joints[j].id) \in JointType
<1> SUFFICES ASSUME NEW j \in JointIndex
             PROVE  JointById(Joints[j].id) \in JointType
  OBVIOUS
<1> DEFINE Same == {k \in JointIndex : Joints[k].id = Joints[j].id}
           First(k) == k \in JointIndex /\ Joints[k].id = Joints[j].id
                       /\ \A m \in JointIndex : Joints[m].id = Joints[j].id => k <= m
<1>1. JointIndex = 1 .. Len(Joints) /\ Len(Joints) \in Nat
  BY JointsAssumption DEF JointIndex
<1>2. \E k \in JointIndex : First(k)
  <2>1. IsWellFoundedOn(OpToRel(<, Nat), Nat)
    BY NatLessThanWellFounded
  <2>2. Same \subseteq Nat /\ Same # {}
    BY <1>1
  <2>3. PICK k \in Same : \A m \in Same : ~ (<<m, k>> \in OpToRel(<, Nat))
    <3> HIDE DEF Same
    <3> QED BY <2>1, <2>2, WFMin
  <2>4. OpToRel(<, Nat) = {ss \in Nat \X Nat : ss[1] < ss[2]}
    BY DEF OpToRel
  <2>5. \A m \in Same : ~ (m < k)
    BY <2>2, <2>3, <2>4
  <2>6. \A m \in Same : k <= m
    <3> HIDE DEF Same
    <3> QED BY <2>2, <2>5
  <2>7. QED
    BY <2>3, <2>6
<1>3. PICK k \in JointIndex : JointById(Joints[j].id) = Joints[k]
  BY <1>2 DEF JointById
<1>4. QED
  BY <1>3, JointsAssumption DEF JointIndex

LEMMA LiftDistanceType ==
    ASSUME TypeOK, NEW i \in PartIndex
    PROVE  LiftDistance(i) \in Int
<1>1. PoseOf(PartAt(i)) \in Pose
  BY PartAtType, PartFields DEF PoseOf, TypeOK, PoseOrNone
<1>2. ClearanceHeight(PartAt(i), PoseOf(PartAt(i))) \in Int
  BY <1>1, PartAtType, LiftClearsZones
<1>3. QED
  BY <1>2, PartAtType, PartFields DEF LiftDistance, Larger

LEMMA StepCountType == StepCount \in Nat /\ Len(PartOrder) \in Nat
BY PartsAssumption, JointsAssumption DEF StepCount

(* Every class has a ladder, of at least one rung, and its last rung, and    *)
(* only its last rung, ends the job.                                         *)
LEMMA LadderLengths == \A c \in FailureClass : Len(POLICY[c]) \in 1 .. 4
BY DEF POLICY, FailureClass

LEMMA Ladders ==
    \A c \in FailureClass :
        /\ Len(POLICY[c]) \in 1 .. 4
        /\ \A n \in 1 .. Len(POLICY[c]) :
              /\ POLICY[c][n] \in RecoveryAction
              /\ IsTerminal(POLICY[c][n]) <=> n = Len(POLICY[c])
<1> USE DEF POLICY, RecoveryAction, IsTerminal
<1>1. \A c \in FailureClass : Len(POLICY[c]) \in 1 .. 4
  BY LadderLengths
<1>2. \A n \in 1 .. 4 : n = 1 \/ n = 2 \/ n = 3 \/ n = 4
  OBVIOUS
<1>3. ASSUME NEW c \in FailureClass, NEW n \in 1 .. Len(POLICY[c])
      PROVE  /\ POLICY[c][n] \in RecoveryAction
             /\ IsTerminal(POLICY[c][n]) <=> n = Len(POLICY[c])
  <2>1. CASE c = "IK_UNREACHABLE"
    BY <1>2, <1>3, <2>1
  <2>2. CASE c = "PLANNING_COLLISION"
    BY <1>2, <1>3, <2>2
  <2>3. CASE c = "PERCEPTION_REJECTED"
    BY <1>2, <1>3, <2>3
  <2>4. CASE c = "EXECUTION_ERROR"
    BY <1>2, <1>3, <2>4
  <2>5. CASE c = "PICK_VERIFY_FAILED"
    BY <1>2, <1>3, <2>5
  <2>6. CASE c = "COMM_TIMEOUT"
    BY <1>2, <1>3, <2>6
  <2>7. QED
    BY <2>1, <2>2, <2>3, <2>4, <2>5, <2>6 DEF FailureClass
<1>4. QED
  BY <1>1, <1>3

(* next_action, for any number of earlier failures. *)
LEMMA NextActionType ==
    ASSUME NEW c \in FailureClass, NEW n \in Nat
    PROVE  /\ NextAction(c, n) \in RecoveryAction
           /\ IsTerminal(NextAction(c, n)) <=> n + 1 >= Len(POLICY[c])
<1> DEFINE k == IF n < Len(POLICY[c]) THEN n + 1 ELSE Len(POLICY[c])
<1>1. Len(POLICY[c]) \in 1 .. 4
  BY Ladders
<1>2. k \in 1 .. Len(POLICY[c]) /\ (k = Len(POLICY[c]) <=> n + 1 >= Len(POLICY[c]))
  <2>1. \A l \in 1 .. 4 : LET m == IF n < l THEN n + 1 ELSE l
                        IN  m \in 1 .. l /\ (m = l <=> n + 1 >= l)
    OBVIOUS
  <2>2. QED
    BY <1>1, <2>1
<1>3. NextAction(c, n) = POLICY[c][k]
  BY DEF NextAction
<1>4. QED
  <2> HIDE DEF k
  <2> QED BY <1>2, <1>3, Ladders

LEMMA ClassOfType ==
    \A o \in Outcome : ClassOf(o) \in FailureClass
BY DEF Outcome, ClassOf, PlannerMap, ExecutionMap, PlanFailure, ExecutionStatus, FailureClass

LEMMA NoFailuresType == NoFailures \in [FailureClass -> Nat]
BY DEF NoFailures

(* The same job with a sensor that may report any pose at any time.  What   *)
(* is proved of its steps holds of JobRunner's, and of Cell's and           *)
(* GazeboScene's, whose sightings come from the bodies they follow.         *)

AnyBegin ==
    \/ \E i \in PartIndex :
          \/ \E sighting \in PoseOrNone : BeginPickApproach(i, sighting)
          \/ BeginPick(i)
          \/ BeginPickRetreat(i)
          \/ BeginPlaceApproach(i)
          \/ BeginPlace(i)
          \/ BeginPlaceRetreat(i)
    \/ \E j \in JointIndex : BeginJointApproach(j)

AnyFinish ==
    \/ \E i \in PartIndex :
          \/ \E closed, verified \in BOOLEAN : FinishPick(i, closed, verified)
          \/ \E sighting \in PoseOrNone : FinishPickRetreat(i, sighting)
          \/ FinishPlace(i)
    \/ FinishMove

AnyNext == Prepare \/ StartStep \/ CompleteJob \/ AnyBegin \/ Move \/ AnyFinish \/ Judge

LEMMA SensorsAreAny == Next => AnyNext
<1>1. \A i \in PartIndex : Sightings(PartAt(i)) \subseteq PoseOrNone
  BY PartAtType, SensedAssumption DEF Sightings, PoseOrNone
<1>2. Begin => AnyBegin
  BY <1>1 DEF Begin, AnyBegin
<1>3. Finish => AnyFinish
  BY <1>1 DEF Finish, AnyFinish
<1>4. QED
  BY <1>2, <1>3 DEF Next, AnyNext

LEMMA JobStepsAreAny == [Next \/ Done]_vars => [AnyNext]_vars
BY SensorsAreAny DEF Done

LEMMA TypeInit == Init => TypeOK
<1> SUFFICES ASSUME Init PROVE TypeOK
  OBVIOUS
<1>1. 0 \in 0 .. StepCount
  BY StepCountType
<1>2. Untried \in Outcome
  BY DEF Untried, Outcome
<1>3. QED
  BY <1>1, <1>2, NoFailuresType
     DEF Init, WorldInit, SceneInit, TypeOK, State, Stage, PoseOrNone

(* What a step leaves of the types when it leaves most variables alone. *)
LEMMA TypeStutter == TypeOK /\ UNCHANGED vars => TypeOK'
BY DEF TypeOK, vars, jobVars, worldVars, sceneVars

(* PlanToStandOff, with a pose, moves on to the planner or raises. *)
LEMMA StandOffType ==
    ASSUME NEW pose \in Pose, NEW v \in Vec, NEW d \in Int,
           TypeOK, PlanToStandOff(pose, v, d)
    PROVE  /\ target' \in PoseOrNone
           /\ stage' \in Stage
           /\ status' \in JobStatus \cup {"none", "raised"}
           /\ UNCHANGED <<fsm, step, failures, action, outcome, correction>>
BY WaypointTypes DEF PlanToStandOff, PlanTo, TypeOK, PoseOrNone, Stage

LEMMA TypeStep == TypeOK /\ ControlOK /\ [AnyNext]_vars => TypeOK'
<1> SUFFICES ASSUME TypeOK, ControlOK, [AnyNext]_vars PROVE TypeOK'
  OBVIOUS
<1> USE DEF TypeOK
<1>0. StepCount \in Nat /\ \A p \in PartIds : PoseOf(p) \in PoseOrNone /\ PoseOf(p) \in Pose
  BY StepCountType, PartFields DEF PoseOf, PoseOrNone
<1>1. CASE Validate
  BY <1>1 DEF Validate, State, worldVars, sceneVars
<1>2. CASE BuildWorld
  <2>1. scenePose' \in [PartIds -> PoseOrNone]
    BY <1>0, <1>2 DEF BuildWorld, SceneBuilt
  <2>2. armExempt' \subseteq ObstacleIds
    BY <1>2 DEF BuildWorld, SceneBuilt, WorkHolding, Overlapping
  <2>3. QED
    BY <1>2, <2>1, <2>2 DEF BuildWorld, SceneBuilt, State, Stage, worldVars
<1>3. CASE AcceptCorrection
  <2>1. correction \in CorrectionType
    BY <1>3, CorrectionsAssumption DEF AcceptCorrection, ControlOK
  <2> DEFINE pose == CorrectedPose(Part[correction.part].source, correction)
  <2>2. correction.part \in PartIds /\ Part[correction.part].source \in Pose
    BY <1>3, PartFields DEF AcceptCorrection
  <2>3. /\ correction.delta \in Vec
        /\ correction.turns % 4 \in Quarter
    BY <2>1 DEF CorrectionType, Quarter
  <2>4. pose \in Pose
    <3> HIDE DEF TypeOK
    <3> QED BY <2>2, <2>3, WaypointTypes DEF CorrectedPose
  <2>5. /\ observed' = [observed EXCEPT ![correction.part] = pose]
        /\ scenePose' = [scenePose EXCEPT ![correction.part] = pose]
    BY <1>3 DEF AcceptCorrection, Observe, PoseUpdated
  <2>6. QED
    <3> HIDE DEF pose
    <3> QED BY <1>3, <2>4, <2>5 DEF AcceptCorrection, PoseOrNone, Stage
<1>4. CASE RaiseUnknownPart
  BY <1>4 DEF RaiseUnknownPart, Stage, worldVars, sceneVars
<1>5. CASE RejectCorrection
  <2>1. action' \in RecoveryAction
    BY <1>5, NextActionType DEF RejectCorrection, FailureClass
  <2>2. QED
    BY <1>5, <2>1
       DEF RejectCorrection, Counted, FailureClass, State, Stage, JobStatus, worldVars, sceneVars
<1>6. CASE StartStep
  BY <1>6 DEF StartStep, State, Stage, Outcome, Untried, worldVars, sceneVars
<1>7. CASE CompleteJob
  BY <1>7 DEF CompleteJob, State, JobStatus, worldVars, sceneVars
<1>8. CASE AnyBegin
  <2>1. ASSUME NEW i \in PartIndex, NEW sighting \in PoseOrNone,
               BeginPickApproach(i, sighting)
        PROVE  TypeOK'
    <3> DEFINE p == PartAt(i)
               believed == IF sighting = NoPose THEN PoseOf(p) ELSE sighting
    <3>1. p \in PartIds /\ believed \in Pose /\ sighting \in PoseOrNone
      BY <1>0, PartAtType DEF PoseOrNone
    <3>2. PlanToStandOff(GraspPose(believed, GraspOf(p).offset), GraspOf(p).vec, GraspOf(p).dist)
      BY <2>1 DEF BeginPickApproach
    <3>3. /\ target' \in PoseOrNone
          /\ stage' \in Stage
          /\ status' \in JobStatus \cup {"none", "raised"}
          /\ UNCHANGED <<fsm, step, failures, action, outcome, correction>>
      <4> HIDE DEF p, believed, TypeOK
      <4> QED BY <3>1, <3>2, PartFields, WaypointTypes, StandOffType
    <3>4. observed' \in [PartIds -> PoseOrNone] /\ scenePose' \in [PartIds -> PoseOrNone]
      BY <2>1, <3>1 DEF BeginPickApproach, Observe, PoseUpdated
    <3>5. QED
      BY <2>1, <3>1, <3>3, <3>4 DEF BeginPickApproach, GripperAllowed
  <2>2. ASSUME NEW i \in PartIndex, BeginPick(i)
        PROVE  TypeOK'
    <3>1. PartAt(i) \in PartIds /\ GraspPose(PoseOf(PartAt(i)), GraspOf(PartAt(i)).offset) \in Pose
      BY <1>0, PartAtType, PartFields, WaypointTypes
    <3>2. QED
      BY <2>2, <3>1 DEF BeginPick, GraspAllowed, GripperAllowed, Allowing, PlanTo, Stage,
                        PoseOrNone, worldVars
  <2>3. ASSUME NEW i \in PartIndex, BeginPickRetreat(i)
        PROVE  TypeOK'
    <3>1. /\ GraspPose(PoseOf(PartAt(i)), GraspOf(PartAt(i)).offset) \in Pose
          /\ GraspOf(PartAt(i)).vec \in Vec
          /\ LiftDistance(i) \in Int
      BY <1>0, PartAtType, PartFields, WaypointTypes, LiftDistanceType
    <3>2. QED
      BY <2>3, <3>1, StandOffType DEF BeginPickRetreat, worldVars, sceneVars
  <2>4. ASSUME NEW i \in PartIndex, BeginPlaceApproach(i)
        PROVE  TypeOK'
    BY <2>4, PartAtType, PartFields, StandOffType
       DEF BeginPlaceApproach, EnforceClearObstacles, Disallowing, worldVars
  <2>5. ASSUME NEW i \in PartIndex, BeginPlace(i)
        PROVE  TypeOK'
    BY <2>5, PartAtType, PartFields
       DEF BeginPlace, PlanTo, Stage, PoseOrNone, worldVars, sceneVars
  <2>6. ASSUME NEW i \in PartIndex, BeginPlaceRetreat(i)
        PROVE  TypeOK'
    BY <2>6, PartAtType, PartFields, StandOffType DEF BeginPlaceRetreat, worldVars, sceneVars
  <2>7. ASSUME NEW j \in JointIndex, BeginJointApproach(j)
        PROVE  TypeOK'
    BY <2>7, JointByIdType, StandOffType DEF BeginJointApproach, JointType, worldVars, sceneVars
  <2>8. QED
    BY <1>8, <2>1, <2>2, <2>3, <2>4, <2>5, <2>6, <2>7 DEF AnyBegin
<1>9. CASE Move
  <2>1. ASSUME NEW reason \in PlanFailure, PlanFails(reason)
        PROVE  TypeOK'
    BY <2>1 DEF PlanFails, Return, Outcome, State, Stage, worldVars, sceneVars
  <2>2. CASE PlanSucceeds
    BY <2>2 DEF PlanSucceeds, Outcome, Stage, worldVars, sceneVars
  <2>3. ASSUME NEW error \in ExecutionStatus \ {"SUCCESS"}, ExecutionFails(error)
        PROVE  TypeOK'
    BY <2>3 DEF ExecutionFails, Return, Outcome, State, Stage, worldVars, sceneVars
  <2>4. CASE ExecutionSucceeds
    BY <2>4 DEF ExecutionSucceeds, Outcome, ExecutionStatus, Stage, worldVars, sceneVars
  <2>5. QED
    BY <1>9, <2>1, <2>2, <2>3, <2>4 DEF Move
<1>10. CASE AnyFinish
  <2>1. ASSUME NEW i \in PartIndex, NEW closed \in BOOLEAN, NEW verified \in BOOLEAN,
               FinishPick(i, closed, verified)
        PROVE  TypeOK'
    BY <2>1, PartAtType
       DEF FinishPick, Grasped, GripperAllowed, Allowing, DroppedByAttach, WorldAttach,
           Return, Outcome, State, Stage
  <2>2. ASSUME NEW i \in PartIndex, NEW sighting \in PoseOrNone,
               FinishPickRetreat(i, sighting)
        PROVE  TypeOK'
    BY <2>2, PartAtType
       DEF FinishPickRetreat, EnforceClearObstacles, Disallowing, Return, Outcome, State,
           Stage, worldVars
  <2>3. ASSUME NEW i \in PartIndex, FinishPlace(i)
        PROVE  TypeOK'
    BY <2>3, PartAtType, PartFields
       DEF FinishPlace, Released, PoseUpdated, WorldDetach, Observe, PoseOrNone, Return,
           State, Stage
  <2>4. CASE FinishMove
    BY <2>4 DEF FinishMove, Return, State, Stage, worldVars, sceneVars
  <2>5. QED
    BY <1>10, <2>1, <2>2, <2>3, <2>4 DEF AnyFinish
<1>11. CASE Judge
  <2>1. CASE Verify
    BY <2>1 DEF Verify, State, worldVars, sceneVars
  <2>2. CASE NextStep
    <3>1. step' \in 0 .. StepCount
      BY <1>0, <2>2 DEF NextStep, ControlOK
    <3>2. QED
      BY <2>2, <3>1, NoFailuresType DEF NextStep, State, worldVars, sceneVars
  <2>3. CASE Recover
    <3>1. action' \in RecoveryAction /\ ClassOf(outcome) \in FailureClass
      BY <2>3, ClassOfType, NextActionType DEF Recover
    <3>2. QED
      BY <2>3, <3>1 DEF Recover, Counted, State, worldVars, sceneVars
  <2>4. CASE Retry
    BY <2>4 DEF Retry, State, worldVars, sceneVars
  <2>5. CASE Stop
    BY <2>5 DEF Stop, State, JobStatus, worldVars, sceneVars
  <2>6. QED
    BY <1>11, <2>1, <2>2, <2>3, <2>4, <2>5 DEF Judge
<1>12. CASE UNCHANGED vars
  BY <1>12, TypeStutter
<1>13. QED
  BY <1>1, <1>2, <1>3, <1>4, <1>5, <1>6, <1>7, <1>8, <1>9, <1>10, <1>11, <1>12
     DEF AnyNext, Prepare

-------------------------------------------------------------------------------
(* The control state.                                                       *)

LEMMA ControlInit == Init => ControlOK
BY DEF Init, ControlOK, Running, Succeeded, Failed

(* PlanToStandOff leaves the attempt untried and still dispatching.         *)
LEMMA ControlStep == TypeOK /\ ControlOK /\ [AnyNext]_vars => ControlOK'
<1> SUFFICES ASSUME TypeOK, ControlOK, [AnyNext]_vars PROVE ControlOK'
  OBVIOUS
<1> USE DEF ControlOK, Running, Failed, Succeeded
<1>1. CASE Validate
  BY <1>1 DEF Validate
<1>2. CASE BuildWorld
  BY <1>2 DEF BuildWorld, TypeOK
<1>3. CASE AcceptCorrection
  BY <1>3 DEF AcceptCorrection
<1>4. CASE RaiseUnknownPart
  BY <1>4 DEF RaiseUnknownPart
<1>5. CASE RejectCorrection
  BY <1>5 DEF RejectCorrection
<1>6. CASE StartStep
  BY <1>6 DEF StartStep, AtLoopHead
<1>7. CASE CompleteJob
  BY <1>7 DEF CompleteJob, AtLoopHead
<1>8. CASE AnyBegin
  <2>1. /\ stage = "dispatch"
        /\ \/ stage' = "plan" /\ status' = status
           \/ stage' = "idle"
        /\ UNCHANGED <<fsm, step, failures, action, outcome, correction>>
    BY <1>8
       DEF AnyBegin, BeginPickApproach, BeginPick, BeginPickRetreat, BeginPlaceApproach,
           BeginPlace, BeginPlaceRetreat, BeginJointApproach, PlanToStandOff, PlanTo,
           Dispatching
  <2>2. QED
    BY <2>1
<1>9. CASE Move
  <2>1. ASSUME NEW reason \in PlanFailure, PlanFails(reason)
        PROVE  ControlOK'
    BY <2>1 DEF PlanFails, Return, Classifiable, PlannerMap, PlanFailure, Untried
  <2>2. CASE PlanSucceeds
    BY <2>2 DEF PlanSucceeds, Untried
  <2>3. ASSUME NEW error \in ExecutionStatus \ {"SUCCESS"}, ExecutionFails(error)
        PROVE  ControlOK'
    BY <2>3 DEF ExecutionFails, Return, Classifiable, ExecutionMap, ExecutionStatus, Untried
  <2>4. CASE ExecutionSucceeds
    BY <2>4 DEF ExecutionSucceeds, Untried
  <2>5. QED
    BY <1>9, <2>1, <2>2, <2>3, <2>4 DEF Move
<1>10. CASE AnyFinish
  <2>1. /\ stage = "finish"
        /\ \/ outcome' = outcome
           \/ outcome' = [outcome EXCEPT !.verified = "yes"]
           \/ outcome' = [outcome EXCEPT !.verified = "no"]
        /\ fsm' = "EXECUTE_SKILL"
        /\ stage' = "idle"
        /\ UNCHANGED <<step, failures, action, status, correction>>
    BY <1>10
       DEF AnyFinish, FinishPick, FinishPickRetreat, FinishPlace, FinishMove, Finishing, Return
  <2>2. QED
    BY <2>1 DEF Classifiable, Untried
<1>11. CASE Judge
  <2>1. CASE Verify
    BY <2>1 DEF Verify, Judged
  <2>2. CASE NextStep
    BY <2>2 DEF NextStep, TypeOK
  <2>3. CASE Recover
    BY <2>3 DEF Recover, Judged
  <2>4. CASE Retry
    BY <2>4 DEF Retry
  <2>5. CASE Stop
    BY <2>5 DEF Stop, TypeOK, Stage
  <2>6. QED
    BY <1>11, <2>1, <2>2, <2>3, <2>4, <2>5 DEF Judge
<1>12. CASE UNCHANGED vars
  BY <1>12 DEF vars, jobVars, Classifiable
<1>13. QED
  BY <1>1, <1>2, <1>3, <1>4, <1>5, <1>6, <1>7, <1>8, <1>9, <1>10, <1>11, <1>12
     DEF AnyNext, Prepare

(* The orchestrator's types are those of TypeOK in every state of every job. *)
LEMMA TypedAndControlled == Spec => [](TypeOK /\ ControlOK)
<1>1. Init => TypeOK /\ ControlOK
  BY TypeInit, ControlInit
<1>2. TypeOK /\ ControlOK /\ [Next \/ Done]_vars => TypeOK' /\ ControlOK'
  BY TypeStep, ControlStep, SensorsAreAny DEF Done
<1>3. QED
  BY <1>1, <1>2, PTL DEF Spec

(* Every variable of a job keeps its type, in every reachable state.        *)
THEOREM TypeCorrect == Spec => []TypeOK
BY TypedAndControlled, PTL
===============================================================================
