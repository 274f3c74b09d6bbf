-------------------------------- MODULE Recipe --------------------------------
(***************************************************************************)
(* A loaded recipe (recipe/models.py, recipe/loader.py), what the world    *)
(* model derives from it (world/world_model.py) and the step list it       *)
(* expands to (orchestrator/step_builder.py).  All of it is constant while *)
(* a job runs.                                                             *)
(***************************************************************************)
EXTENDS Geometry, Sequences, FiniteSets

CONSTANTS
    PartOrder,      \* part ids, in recipe order
    Part,           \* part id -> [half, source, assembly, grasp : [vec, dist, offset]]
    Joints,         \* sequence of [id, pose, vec, dist]
    Obstacle,       \* obstacle id -> [half, pose]
    Constraints     \* [translation (a length), rotation (degrees)]

PartIds == DOMAIN Part
ObstacleIds == DOMAIN Obstacle
PartIndex == DOMAIN PartOrder
JointIndex == DOMAIN Joints

GraspType == [vec : Vec, dist : Int, offset : Vec]
PartType == [half : Vec, source : Pose, assembly : Pose, grasp : GraspType]
JointType == [id : STRING, pose : Pose, vec : Vec, dist : Int]

(* What load_recipe guarantees: one Part per id (it refuses duplicates),    *)
(* listed once each.  Joint ids may repeat: nothing checks them.            *)
ASSUME PartsAssumption ==
    /\ Part \in [PartIds -> PartType]
    /\ PartOrder \in Seq(PartIds)
    /\ \A p \in PartIds : \E i \in PartIndex : PartOrder[i] = p
    /\ \A i, j \in PartIndex : PartOrder[i] = PartOrder[j] => i = j

ASSUME JointsAssumption == Joints \in Seq(JointType)

ASSUME ObstaclesAssumption ==
    /\ Obstacle \in [ObstacleIds -> [half : Vec, pose : Pose]]
    /\ IsFiniteSet(ObstacleIds)

(* The part id of the i-th part, and Recipe.part. *)
PartAt(i) == PartOrder[i]
GraspOf(p) == Part[p].grasp

(* next(j for j in recipe.joints if j.id == id): the FIRST joint of that id. *)
JointById(id) ==
    Joints[CHOOSE j \in JointIndex :
              /\ Joints[j].id = id
              /\ \A k \in JointIndex : Joints[k].id = id => j <= k]

(***************************************************************************)
(* What the world model derives from geometry.                             *)
(***************************************************************************)
(* WorldModel.work_holding_obstacles: the obstacles a part at a pose is in. *)
Overlapping(p, pose) ==
    {o \in ObstacleIds : BoxesOverlap(pose, Part[p].half, Obstacle[o].pose, Obstacle[o].half)}

(* run_job: an obstacle enclosing an ASSEMBLY pose is work-holding.         *)
WorkHoldingBySourceToo ==
    UNION {Overlapping(p, Part[p].assembly) \cup Overlapping(p, Part[p].source) : p \in PartIds}
WorkHolding == UNION {Overlapping(p, Part[p].assembly) : p \in PartIds}

TopOf(o) == Hi(Obstacle[o].half, Obstacle[o].pose).z

(* WorldModel.clearance_height_for, with its margin: how far a part at this *)
(* pose must rise to clear the zones it is in.  The running maximum starts  *)
(* at 0, and 0 is also the answer "clears them all".                        *)
ClearanceMargin == 20
ClearanceHeight(p, pose) ==
    LET zones == Overlapping(p, pose) \ WorkHolding
        tops == {0} \cup {TopOf(o) : o \in zones}
        highest == CHOOSE t \in tops : \A u \in tops : u <= t
    IN  IF highest = 0 THEN 0
        ELSE Larger(0, highest + ClearanceMargin - Lo(Part[p].half, pose).z)

(***************************************************************************)
(* build_steps: six steps per part, in recipe order, then one per joint.   *)
(* Steps are numbered from 0 as in run_job.                                *)
(***************************************************************************)
PickApproachAt(i)  == 6 * (i - 1)
PickAt(i)          == 6 * (i - 1) + 1
PickRetreatAt(i)   == 6 * (i - 1) + 2
PlaceApproachAt(i) == 6 * (i - 1) + 3
PlaceAt(i)         == 6 * (i - 1) + 4
PlaceRetreatAt(i)  == 6 * (i - 1) + 5
JointApproachAt(j) == 6 * Len(PartOrder) + j - 1

StepCount == 6 * Len(PartOrder) + Len(Joints)
===============================================================================
