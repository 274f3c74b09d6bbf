--------------------------- MODULE CuRoboWorldProofs ---------------------------
(***************************************************************************)
(* Proofs about CuRoboWorld: which bodies the world a trajectory was        *)
(* planned in holds, for every recipe, set of messages and sensor.          *)
(***************************************************************************)
EXTENDS CuRoboWorld, JobRunnerSafety

-------------------------------------------------------------------------------
(* The job planned with cuRobo is the job of JobRunner.                     *)

LEMMA CuRoboNextIsNext ==
    [CuRoboNext \/ CuRoboDone]_<<vars, serverWorld>> => [Next \/ Done]_vars
<1>1. CuRoboNext => Next
  BY DEF CuRoboNext, CuRoboPlanSucceeds, CuRoboPlanFails, CuRoboFailure, PlanFailure, Elsewhere,
         Next, Move
<1>2. QED
  BY <1>1 DEF CuRoboDone

LEMMA JobAlways == CuRoboSpec => []JobOK
<1>1. [Next \/ Done]_vars => [AnyNext]_vars
  BY SensorsAreAny DEF Done
<1>2. QED
  BY <1>1, JobStart, JobPreserved, CuRoboNextIsNext, PTL DEF CuRoboSpec, CuRoboInit

-------------------------------------------------------------------------------
(* What the scene exempts.                                                  *)

(* The arm may enter the work-holding obstacles and no others, once the     *)
(* world is built.  The gripper may touch a part from the beginning of its  *)
(* PICK_APPROACH on and no earlier.                                         *)
ArmMayEnter == fsm \notin {"LOAD_JOB", "VALIDATE"} => armExempt = WorkHolding
GripperMayTouch ==
    \A i \in PartIndex :
        /\ Approached(i) => PartAt(i) \in gripperExempt
        /\ PartAt(i) \in gripperExempt => step >= PickApproachAt(i)
TouchOK == ArmMayEnter /\ GripperMayTouch

LEMMA ArmMayEnterStep == TypeOK /\ ControlOK /\ ArmMayEnter /\ [AnyNext]_vars => ArmMayEnter'
<1> SUFFICES ASSUME TypeOK, ControlOK, ArmMayEnter, [AnyNext]_vars PROVE ArmMayEnter'
  OBVIOUS
<1> USE DEF ArmMayEnter
<1>1. CASE BuildWorld
  BY <1>1 DEF BuildWorld, SceneBuilt, WorkHolding, Overlapping
<1>2. CASE Prepare /\ ~ BuildWorld
  BY <1>2 DEF Prepare, Validate, AcceptCorrection, RaiseUnknownPart, RejectCorrection, ControlOK,
              sceneVars, WorkHolding, Overlapping
<1>3. CASE StartStep \/ CompleteJob
  BY <1>3 DEF StartStep, CompleteJob, AtLoopHead, sceneVars, WorkHolding, Overlapping
<1>4. CASE AnyBegin
  BY <1>4
     DEF AnyBegin, BeginPickApproach, BeginPick, BeginPickRetreat, BeginPlaceApproach,
         BeginPlace, BeginPlaceRetreat, BeginJointApproach, PlanToStandOff, PlanTo,
         Dispatching, ControlOK, sceneVars, WorkHolding, Overlapping
<1>5. CASE Move
  BY <1>5
     DEF Move, PlanFails, PlanSucceeds, ExecutionFails, ExecutionSucceeds, Return, ControlOK,
         sceneVars, WorkHolding, Overlapping
<1>6. CASE AnyFinish
  BY <1>6
     DEF AnyFinish, FinishPick, FinishPickRetreat, FinishPlace, FinishMove, Finishing, Return,
         Grasped, Released, ControlOK, sceneVars, WorkHolding, Overlapping
<1>7. CASE Judge
  BY <1>7 DEF Judge, Verify, Judged, NextStep, Recover, Retry, Stop, sceneVars, WorkHolding,
              Overlapping
<1>8. CASE UNCHANGED vars
  BY <1>8 DEF vars, jobVars, sceneVars, WorkHolding, Overlapping
<1>9. QED
  BY <1>1, <1>2, <1>3, <1>4, <1>5, <1>6, <1>7, <1>8 DEF AnyNext

(* The set of parts the gripper may touch grows by the part at hand alone.  *)
LEMMA TouchGrows ==
    ASSUME TypeOK, [AnyNext]_vars
    PROVE  /\ gripperExempt \subseteq gripperExempt'
           /\ \A p \in gripperExempt' \ gripperExempt :
                 \E i \in PartIndex :
                     p = PartAt(i) /\ step \in {PickApproachAt(i), PickAt(i)} /\ step' = step
<1>1. CASE Prepare \/ StartStep \/ CompleteJob \/ Move \/ Judge \/ UNCHANGED vars
  BY <1>1 DEF Prepare, Validate, BuildWorld, SceneBuilt, AcceptCorrection, RaiseUnknownPart,
       RejectCorrection, StartStep, CompleteJob, Move, PlanFails, PlanSucceeds, ExecutionFails,
       ExecutionSucceeds, Judge, Verify, NextStep, Recover, Retry, Stop, vars, sceneVars
<1>2. CASE AnyBegin
  BY <1>2
     DEF AnyBegin, BeginPickApproach, BeginPick, BeginPickRetreat, BeginPlaceApproach,
         BeginPlace, BeginPlaceRetreat, BeginJointApproach, PlanToStandOff, PlanTo,
         Dispatching, GraspAllowed, GripperAllowed, sceneVars
<1>3. CASE AnyFinish
  BY <1>3
     DEF AnyFinish, FinishPick, FinishPickRetreat, FinishPlace, FinishMove, Finishing, Return,
         Grasped, Released, GripperAllowed, sceneVars
<1>4. QED
  BY <1>1, <1>2, <1>3 DEF AnyNext

LEMMA GripperMayTouchStep ==
    TypeOK /\ ControlOK /\ GripperMayTouch /\ [AnyNext]_vars => GripperMayTouch'
<1> SUFFICES ASSUME TypeOK, ControlOK, GripperMayTouch, [AnyNext]_vars, NEW i \in PartIndex
             PROVE  /\ Approached(i)' => PartAt(i) \in gripperExempt'
                    /\ PartAt(i) \in gripperExempt' => step' >= PickApproachAt(i)
  BY DEF GripperMayTouch, PartAt, PickApproachAt
<1>1. Approached(i)' => PartAt(i) \in gripperExempt'
  <2> SUFFICES ASSUME Approached(i)' PROVE PartAt(i) \in gripperExempt'
    OBVIOUS
  <2>1. CASE Approached(i)
    BY <2>1, TouchGrows DEF GripperMayTouch
  <2>2. CASE ~ Approached(i)
    <3>1. PICK sighting \in PoseOrNone : BeginPickApproach(i, sighting)
      BY <2>2, ApproachBegins
    <3>2. QED
      BY <3>1 DEF BeginPickApproach, GripperAllowed
  <2>3. QED
    BY <2>1, <2>2
<1>2. PartAt(i) \in gripperExempt' => step' >= PickApproachAt(i)
  <2> SUFFICES ASSUME PartAt(i) \in gripperExempt' PROVE step' >= PickApproachAt(i)
    OBVIOUS
  <2>0. step \in Int /\ PickApproachAt(i) \in Int
    BY StepCountType, Positions DEF TypeOK, PickApproachAt
  <2>1. CASE PartAt(i) \in gripperExempt
    <3>1. step >= PickApproachAt(i)
      BY <2>1 DEF GripperMayTouch
    <3>2. QED
      BY <2>0, <3>1, StepsGoForward
  <2>2. CASE PartAt(i) \notin gripperExempt
    <3>1. PICK j \in PartIndex : PartAt(i) = PartAt(j) /\ step \in {PickApproachAt(j), PickAt(j)}
                                 /\ step' = step
      BY <2>2, TouchGrows
    <3>2. j = i
      BY <3>1, Positions
    <3>3. QED
      BY <2>0, <3>1, <3>2, Positions DEF PickApproachAt, PickAt
  <2>3. QED
    BY <2>1, <2>2
<1>3. QED
  BY <1>1, <1>2

LEMMA TouchAlways == CuRoboSpec => []TouchOK
<1>1. Init => TouchOK
  <2> SUFFICES ASSUME Init PROVE GripperMayTouch
    BY DEF TouchOK, ArmMayEnter, Init
  <2>1. \A i \in PartIndex : PickApproachAt(i) >= 0
    BY Positions DEF PickApproachAt
  <2>2. \A i \in PartIndex : ~ Approached(i)
    BY <2>1, Positions DEF Init, Approached, JustSucceeded, PickApproachAt
  <2>3. QED
    BY <2>2 DEF GripperMayTouch, Init, SceneInit
<1>2. JobOK /\ TouchOK /\ [Next \/ Done]_vars => TouchOK'
  <2> SUFFICES ASSUME JobOK, TouchOK, [Next \/ Done]_vars PROVE TouchOK'
    OBVIOUS
  <2>1. [AnyNext]_vars
    BY SensorsAreAny DEF Done
  <2>2. QED
    BY <2>1, ArmMayEnterStep, GripperMayTouchStep DEF JobOK, TouchOK
<1>3. QED
  BY <1>1, <1>2, JobAlways, CuRoboNextIsNext, PTL DEF CuRoboSpec, CuRoboInit

-------------------------------------------------------------------------------
(* What was sent.                                                           *)

(* A trajectory about to be executed was planned in the world that the      *)
(* scene asks for, unless it asks for an empty one.                         *)
SentOK == Executing => Avoided = {} \/ serverWorld = Requested

LEMMA SentStep ==
    JobOK /\ SentOK /\ [CuRoboNext \/ CuRoboDone]_<<vars, serverWorld>> => SentOK'
<1> SUFFICES ASSUME JobOK, [CuRoboNext \/ CuRoboDone]_<<vars, serverWorld>>, SentOK, Executing'
             PROVE  Avoided' = {} \/ serverWorld' = Requested'
  BY DEF SentOK
<1>1. CASE CuRoboPlanSucceeds
  <2>1. UNCHANGED sceneVars /\ serverWorld' = WorldAfterRequest
    BY <1>1 DEF CuRoboPlanSucceeds, PlanSucceeds, WorldSent
  <2>2. Avoided' = Avoided /\ Requested' = Requested
    BY <2>1 DEF Avoided, Requested, sceneVars
  <2>3. QED
    BY <2>1, <2>2 DEF WorldAfterRequest
<1>2. CASE \E reason \in CuRoboFailure : CuRoboPlanFails(reason)
  BY <1>2 DEF CuRoboPlanFails, PlanFails, Return, Executing
<1>3. CASE Elsewhere
  <2>1. CASE Prepare
    BY <2>1
       DEF Prepare, Validate, BuildWorld, AcceptCorrection, RaiseUnknownPart, RejectCorrection,
           Executing, JobOK, ControlOK
  <2>2. CASE StartStep \/ CompleteJob
    BY <2>2 DEF StartStep, CompleteJob, AtLoopHead, Executing
  <2>3. CASE Begin
    BY <2>3
       DEF Begin, BeginPickApproach, BeginPick, BeginPickRetreat, BeginPlaceApproach,
           BeginPlace, BeginPlaceRetreat, BeginJointApproach, PlanToStandOff, PlanTo, Executing
  <2>4. CASE Finish
    BY <2>4
       DEF Finish, FinishPick, FinishPickRetreat, FinishPlace, FinishMove, Return, Executing
  <2>5. CASE Judge
    BY <2>5 DEF Judge, Verify, Judged, NextStep, Recover, Retry, Stop, Executing, JobOK, ControlOK
  <2>6. CASE ExecutionSucceeds \/ \E error \in ExecutionStatus \ {"SUCCESS"} : ExecutionFails(error)
    BY <2>6 DEF ExecutionSucceeds, ExecutionFails, Return, Executing
  <2>7. QED
    BY <1>3, <2>1, <2>2, <2>3, <2>4, <2>5, <2>6 DEF Elsewhere
<1>4. CASE UNCHANGED <<vars, serverWorld>>
  BY <1>4 DEF SentOK, Executing, Avoided, Requested, vars, jobVars, sceneVars
<1>5. CASE CuRoboDone
  BY <1>4, <1>5 DEF CuRoboDone, Done
<1>6. QED
  BY <1>1, <1>2, <1>3, <1>4, <1>5 DEF CuRoboNext

LEMMA SentAlways == CuRoboSpec => [](JobOK /\ TouchOK /\ SentOK)
<1>1. Init => SentOK
  BY DEF Init, SentOK, Executing
<1>2. QED
  BY <1>1, SentStep, JobAlways, TouchAlways, PTL DEF CuRoboSpec, CuRoboInit

(* A zone no part is assembled in, such as the worktable, is in every list   *)
(* of obstacles sent: no list is empty, so that each replaces the world of   *)
(* the one before.                                                           *)
SomeZoneAlwaysSent == ObstacleIds # WorkHolding

(* curobo_planner_adapter.py:54-59: in every job on a recipe with such a     *)
(* zone, no trajectory that handles a part is planned around that part.      *)
(* Without one, the last part stays in the world sent for the part before.   *)
THEOREM HandledPartsNotAvoided ==
    ASSUME SomeZoneAlwaysSent
    PROVE  CuRoboSpec => []HandledIsNoObstacle
<1>1. JobOK /\ TouchOK /\ SentOK => HandledIsNoObstacle
  <2> SUFFICES ASSUME JobOK, TouchOK, SentOK, NEW i \in PartIndex, Executing,
                      step \in PickApproachAt(i) .. PlaceRetreatAt(i)
               PROVE  PartAt(i) \notin DOMAIN serverWorld
    BY DEF HandledIsNoObstacle
  <2>1. Approached(i)
    <3>1. step \in Int /\ PickApproachAt(i) \in Int /\ PlaceRetreatAt(i) \in Int
      BY StepCountType, Positions DEF JobOK, TypeOK, PickApproachAt, PlaceRetreatAt
    <3>2. QED
      BY <3>1 DEF Executing, Approached
  <2>2. PartAt(i) \in gripperExempt /\ PartAt(i) \in PartIds
    BY <2>1, PartAtType DEF TouchOK, GripperMayTouch
  <2>3. PartAt(i) \notin Avoided
    BY <2>2, BodiesAssumption DEF Avoided
  <2>4. armExempt = WorkHolding
    BY DEF Executing, JobOK, ControlOK, TouchOK, ArmMayEnter
  <2>5. ObstacleIds \ WorkHolding # {}
    BY DEF SomeZoneAlwaysSent, WorkHolding, Overlapping
  <2>6. Avoided # {}
    BY <2>4, <2>5 DEF Avoided
  <2>7. DOMAIN serverWorld = Avoided
    BY <2>6 DEF SentOK, Requested
  <2>8. QED
    BY <2>3, <2>7
<1>2. QED
  BY <1>1, SentAlways, PTL

(* job_runner.py:240-244: in every job, every trajectory is planned around   *)
(* every part that waits its turn, at the pose it is believed in, and around *)
(* every zone no part is assembled in.                                       *)
THEOREM WaitingPartsAvoided == CuRoboSpec => []WaitingPartsAndZonesAvoided
<1>1. JobOK /\ TouchOK /\ SentOK => WaitingPartsAndZonesAvoided
  <2> SUFFICES ASSUME JobOK, TouchOK, SentOK, Executing PROVE WaitingPartsAndZonesAvoided
    BY DEF WaitingPartsAndZonesAvoided
  <2>1. armExempt = WorkHolding /\ fsm \notin {"LOAD_JOB", "VALIDATE"}
    BY DEF Executing, JobOK, ControlOK, TouchOK, ArmMayEnter
  <2>2. ASSUME NEW i \in PartIndex, step < PickApproachAt(i)
        PROVE  /\ PartAt(i) \in DOMAIN serverWorld
               /\ serverWorld[PartAt(i)] = PoseOf(PartAt(i))
    <3>0. PartAt(i) \in PartIds /\ step \in Int /\ PickApproachAt(i) \in Int
          /\ PickAt(i) = PickApproachAt(i) + 1
      BY PartAtType, StepCountType, Positions DEF JobOK, TypeOK, PickApproachAt, PickAt
    <3>1. PartAt(i) \notin gripperExempt
      BY <2>2, <3>0 DEF TouchOK, GripperMayTouch
    <3>2. ~ attached[PartAt(i)]
      <4>1. step \notin PickAt(i) .. PlaceAt(i)
        BY <2>2, <3>0 DEF PlaceAt
      <4>2. QED
        BY <4>1 DEF JobOK, CarryOK
    <3>3. PartAt(i) \notin sceneAttached /\ scenePose[PartAt(i)] = PoseOf(PartAt(i))
      BY <2>1, <3>0, <3>2 DEF JobOK, SceneOK, SceneMirrorsWorld
    <3>4. PartAt(i) \in Avoided
      BY <3>0, <3>1, <3>3 DEF Avoided
    <3>5. serverWorld = Requested
      BY <3>4 DEF SentOK
    <3>6. QED
      BY <3>0, <3>3, <3>4, <3>5 DEF Requested
  <2>3. ASSUME NEW o \in ObstacleIds
        PROVE  o \in DOMAIN serverWorld \/ \E p \in PartIds : o \in Overlapping(p, Part[p].assembly)
    <3>1. CASE o \in WorkHolding
      BY <3>1 DEF WorkHolding
    <3>2. CASE o \notin WorkHolding
      <4>1. o \in Avoided
        BY <2>1, <3>2 DEF Avoided
      <4>2. QED
        BY <4>1 DEF SentOK, Requested
    <3>3. QED
      BY <3>1, <3>2
  <2>4. QED
    BY <2>2, <2>3 DEF WaitingPartsAndZonesAvoided
<1>2. QED
  BY <1>1, SentAlways, PTL
===============================================================================
