--------------------------------- MODULE Cell ---------------------------------
(***************************************************************************)
(* The orchestrator of JobRunner in a physical cell: an arm that goes      *)
(* where trajectories take it, jaws that may close on nothing or fail to   *)
(* open, parts that did not settle exactly at their source pose, and a     *)
(* sensor (Gazebo's pose read-back, gazebo_scene_adapter.py:208) that      *)
(* answers with the true pose.  It relates what the world model and the    *)
(* planning scene believe to where the parts are.                          *)
(*                                                                         *)
(* The sightings come from the bodies here, not from the constant Sensed.  *)
(***************************************************************************)
EXTENDS JobRunner

CONSTANTS
    Settled,        \* part id -> the poses it may really be in at the start
    SensorMisses,   \* may observe_pose fail to read a pose?
    GripperFails,   \* may an open command fail, which nobody looks at?
    HomePose        \* where the arm starts, clear of everything

(* The jaws that hold nothing are told from those that hold some part.      *)
ASSUME CellAssumption ==
    /\ "nothing" \notin PartIds
    /\ Settled \in [PartIds -> SUBSET Pose]
    /\ SensorMisses \in BOOLEAN
    /\ GripperFails \in BOOLEAN
    /\ HomePose \in Pose

VARIABLES
    arm,            \* pose of the gripper
    held,           \* the part really between the jaws, or "nothing"
    grip,           \* the pose of the held part in the gripper's frame
    body,           \* part id -> where it really is, unless held
    sceneRel        \* part id -> _attached_rel: its pose in the gripper's
                    \* frame as the scene recorded it when it was attached

cellVars == <<arm, held, grip, body, sceneRel>>

TruePose(p) == IF held = p THEN CarriedAt(arm, grip) ELSE body[p]

(* MoveItSceneAdapter.attached_world_pose: where the planner sees a part    *)
(* that it believes to be carried.                                          *)
ScenePoseOf(p) == IF p \in sceneAttached THEN CarriedAt(arm, sceneRel[p]) ELSE scenePose[p]

CellInit ==
    /\ Init
    /\ arm = HomePose
    /\ held = "nothing"
    /\ grip = NoPose
    /\ body \in {b \in [PartIds -> UNION {Settled[p] : p \in PartIds}] :
                    \A p \in PartIds : b[p] \in Settled[p]}
    /\ sceneRel = [p \in PartIds |-> NoPose]

(* observe_pose *)
Views(p) == {TruePose(p)} \cup (IF SensorMisses THEN {NoPose} ELSE {})

JawsOpen ==
    /\ held' = "nothing"
    /\ body' = [p \in PartIds |-> TruePose(p)]
    /\ UNCHANGED <<arm, grip, sceneRel>>

(* The gripper is told to open; its adapter reports nothing back.           *)
CommandOpen == JawsOpen \/ (GripperFails /\ UNCHANGED cellVars)

CellPickApproach(i) ==
    /\ \E view \in Views(PartAt(i)) : BeginPickApproach(i, view)
    /\ UNCHANGED cellVars

CellPick(i) == BeginPick(i) /\ CommandOpen

(* A trajectory takes the arm to the planned pose; one that fails leaves it *)
(* at its start or, the error coming late, at its end.                      *)
CellExecutionSucceeds ==
    /\ ExecutionSucceeds
    /\ arm' = target
    /\ UNCHANGED <<held, grip, body, sceneRel>>

CellExecutionFails(error) ==
    /\ ExecutionFails(error)
    /\ arm' \in {arm, target}
    /\ UNCHANGED <<held, grip, body, sceneRel>>

(* The jaws can only take a part they are around, and may still miss it.    *)
Around(p) == held = "nothing" /\ arm = GraspPose(body[p], GraspOf(p).offset)

CellFinishPick(i, closed, verified) ==
    LET p == PartAt(i)
    IN  /\ FinishPick(i, closed, verified)
        /\ IF closed /\ Around(p) THEN held' \in {p, "nothing"} ELSE held' = held
        /\ grip' = IF held' # held THEN RelativeTo(arm, TruePose(p)) ELSE grip
        /\ sceneRel' = [sceneRel EXCEPT ![p] = RelativeTo(arm, scenePose[p])]
        /\ UNCHANGED <<arm, body>>

CellFinishPickRetreat(i) ==
    /\ \E view \in Views(PartAt(i)) : FinishPickRetreat(i, view)
    /\ UNCHANGED cellVars

CellFinishPlace(i) == FinishPlace(i) /\ CommandOpen

(* The steps of JobRunner that touch nothing in the cell. *)
CellUntouched ==
    /\ \/ Prepare \/ StartStep \/ CompleteJob \/ FinishMove \/ Judge
       \/ PlanSucceeds
       \/ \E reason \in PlanFailure : PlanFails(reason)
       \/ \E i \in PartIndex :
             BeginPickRetreat(i) \/ BeginPlaceApproach(i) \/ BeginPlace(i) \/ BeginPlaceRetreat(i)
       \/ \E j \in JointIndex : BeginJointApproach(j)
    /\ UNCHANGED cellVars

CellNext ==
    \/ CellUntouched
    \/ CellExecutionSucceeds
    \/ \E error \in ExecutionStatus \ {"SUCCESS"} : CellExecutionFails(error)
    \/ \E i \in PartIndex :
          \/ CellPickApproach(i)
          \/ CellPick(i)
          \/ \E closed, verified \in BOOLEAN : CellFinishPick(i, closed, verified)
          \/ CellFinishPickRetreat(i)
          \/ CellFinishPlace(i)

CellDone == Done /\ UNCHANGED cellVars

CellSpec == CellInit /\ [][CellNext \/ CellDone]_<<vars, cellVars>>

-------------------------------------------------------------------------------
Carrying(i) == step \in {PlaceApproachAt(i), PlaceAt(i)} /\ attached[PartAt(i)]

(* job_runner.py:94-97, the physical grasp check.  With a sensor that does  *)
(* answer, no part is ever transported that is not in the jaws, whatever    *)
(* the gripper reported and however the picking failed and was retried.     *)
TransportsHeldPart ==
    \A i \in PartIndex : Carrying(i) => held = PartAt(i)

(* moveit_scene_adapter.py:91-95, 116-125.  The planner's carried body is   *)
(* where the part really is, even though the part did not lie where the     *)
(* recipe said: the pose seen at PICK_APPROACH reached the scene before the *)
(* attach captured it.                                                      *)
SceneTracksHeldPart ==
    \A i \in PartIndex : Carrying(i) => ScenePoseOf(PartAt(i)) = TruePose(PartAt(i))

(* A part in the jaws is one the world model knows to be attached, or one   *)
(* whose release was commanded and failed.                                  *)
HeldIsKnown ==
    \A i \in PartIndex :
        held = PartAt(i) => attached[PartAt(i)] \/ (GripperFails /\ step >= PlaceAt(i))

ObstacleMargin == 50    \* MoveItSceneAdapter: fixed structure is padded for planning
Padded(o) == Plus(Obstacle[o].half, V(ObstacleMargin, ObstacleMargin, ObstacleMargin))

InPaddedZone(p, pose, o) ==
    BoxesOverlap(pose, Part[p].half, Obstacle[o].pose, Padded(o))

(* job_runner.py:139, "A constraint the start state already violates can't   *)
(* be enforced", and world_model.py:79, a hard obstacle at a pose that has   *)
(* to be reached makes a recipe "unplannable by construction": no motion of  *)
(* a carried part is planned with the part, at its start or at its goal,     *)
(* inside an enforced obstacle of the planner's padded scene.                *)
CarriedPlansFeasible ==
    \A i \in PartIndex :
        LET p == PartAt(i)
        IN  stage = "plan" /\ step \in PickRetreatAt(i) .. PlaceAt(i) =>
                \A pose \in {ScenePoseOf(p), CarriedAt(target, sceneRel[p])}, o \in ObstacleIds :
                    InPaddedZone(p, pose, o) => <<p, o>> \in allowed

(* When a recipe lets every carried part be planned for: wherever a part may *)
(* be believed to lie before its grasp, none of the poses at which it is     *)
(* carried, lifted, above its assembly pose and in it, brings it nearer than *)
(* the planning margin to an obstacle that it was found clear of.            *)
BelievablePoses(p) ==
    {Part[p].source} \cup Settled[p]
        \cup {CorrectedPose(Part[p].source, c) : c \in {m \in Corrections : Accepted(m) /\ m.part = p}}

LiftGoal(p, q) ==
    StandOff(GraspPose(q, GraspOf(p).offset), GraspOf(p).vec,
             Larger(GraspOf(p).dist, ClearanceHeight(p, q)))
ApproachGoal(p) == StandOff(Part[p].assembly, GraspOf(p).vec, GraspOf(p).dist)
CarryPoses(p, q) == {LiftGoal(p, q), ApproachGoal(p), Part[p].assembly}

(* Where a part grasped at pose q is when the gripper is at another pose.    *)
CarriedFrom(p, q, gripper) ==
    CarriedAt(gripper, RelativeTo(GraspPose(q, GraspOf(p).offset), q))

CarriedPosesClear ==
    \A p \in PartIds : \A q \in BelievablePoses(p) :
        \A gripper \in CarryPoses(p, q), o \in ObstacleIds \ (WorkHolding \cup Overlapping(p, q)) :
            ~ InPaddedZone(p, CarriedFrom(p, q, gripper), o)

-------------------------------------------------------------------------------
(* What comments in the code promise and the code does not do.              *)

(* job_runner.py:136-140: collision checking of a carried part is re-enabled *)
(* "against every obstacle it is currently clear of", work-holding aside;    *)
(* here, of those it clears by the planning margin.                          *)
ClearZonesEnforced ==
    \A i \in PartIndex :
        stage = "plan" /\ Carrying(i) =>
            \A o \in ObstacleIds \ WorkHolding :
                ~ InPaddedZone(PartAt(i), ScenePoseOf(PartAt(i)), o) => <<PartAt(i), o>> \notin allowed

(* place.py:1-3: the part "starts existing at the place pose": a released    *)
(* part is where the world model and the scene record it.                    *)
RecordedWherePlaced ==
    \A i \in PartIndex :
        step > PlaceAt(i) /\ held # PartAt(i) => TruePose(PartAt(i)) = PoseOf(PartAt(i))
===============================================================================
