---------------------------- MODULE PlanningScene -----------------------------
(***************************************************************************)
(* The planning scene behind the ScenePort (ports/scene_port.py,           *)
(* astra_ros/moveit_scene_adapter.py, astra_sim/mock_scene.py): where the  *)
(* planner believes each part is, which parts it carries on the gripper,   *)
(* and which pairs of bodies it may let collide.                           *)
(***************************************************************************)
EXTENDS Recipe

VARIABLES
    scenePose,      \* part id -> pose of its collision object
    sceneAttached,  \* parts that are bodies attached to the gripper
    allowed,        \* pairs <<part, obstacle>> whose collisions are ignored
    gripperExempt,  \* parts the gripper may touch
    armExempt       \* obstacles the whole arm may enter

sceneVars == <<scenePose, sceneAttached, allowed, gripperExempt, armExempt>>

(* run_job adds every part at its pose and opens the work-holding obstacles *)
(* to the arm before anything moves; fixed obstacles never change.          *)
SceneBuilt(poses) ==
    /\ scenePose' = poses
    /\ armExempt' = WorkHolding
    /\ UNCHANGED <<sceneAttached, allowed, gripperExempt>>

SceneInit ==
    /\ scenePose = [p \in PartIds |-> NoPose]
    /\ sceneAttached = {}
    /\ allowed = {}
    /\ gripperExempt = {}
    /\ armExempt = {}

(* The allowed-collision matrix.                                            *)
Allowing(acm, p, obstacles)    == acm \cup ({p} \X obstacles)
DisallowingNothing(acm, p, obstacles) == acm
Disallowing(acm, p, obstacles) == acm \ ({p} \X obstacles)

(* Attaching rebuilds the part as a carried body, which loses its entries.  *)
DroppedByAttach(acm, p) == acm \ ({p} \X ObstacleIds)

(* update_pose *)
PoseNotUpdated(p, pose) == scenePose' = scenePose
PoseUpdated(p, pose) == scenePose' = [scenePose EXCEPT ![p] = pose]

(* allow_collision without obstacles: only the gripper is exempted.         *)
GripperAllowed(p) == gripperExempt' = gripperExempt \cup {p}

(* allow_collision(p, obstacle_ids): the gripper and every obstacle.        *)
GraspAllowed(p) ==
    /\ GripperAllowed(p)
    /\ allowed' = Allowing(allowed, p, ObstacleIds)

(* attach, then allow_collision again: what attaching dropped is restored.  *)
Grasped(p) ==
    /\ sceneAttached' = sceneAttached \cup {p}
    /\ GripperAllowed(p)
    /\ allowed' = Allowing(DroppedByAttach(allowed, p), p, ObstacleIds)
    /\ UNCHANGED <<scenePose, armExempt>>

(* detach: the body returns to the world at the pose it was placed at.      *)
Released(p, pose) ==
    /\ sceneAttached' = sceneAttached \ {p}
    /\ PoseUpdated(p, pose)
    /\ UNCHANGED <<allowed, gripperExempt, armExempt>>
===============================================================================
