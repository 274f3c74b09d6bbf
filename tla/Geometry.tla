------------------------------- MODULE Geometry -------------------------------
(***************************************************************************)
(* Poses, derived waypoints and bounding boxes (astra_core/geometry and    *)
(* the box tests of world_model.py), over exact integers.                  *)
(*                                                                         *)
(* Lengths are integers (millimetres in the checked instances).  Rotations *)
(* are the four quarter turns about z: they form the subgroup on which the *)
(* rotation of an integer vector is again an integer vector, so every      *)
(* operator below computes exactly what the floating-point code computes   *)
(* on those poses.  Roll and pitch are always zero in this abstraction.    *)
(***************************************************************************)
EXTENDS Integers

Vec == [x : Int, y : Int, z : Int]

(* Quarter turns about z: the yaw of a pose is yaw * 90 degrees. *)
Quarter == 0 .. 3

Pose == [xyz : Vec, yaw : Quarter]

CONSTANT NoPose     \* the None of an absent observation or of a target not yet set

ASSUME NoPoseAssumption == NoPose \notin Pose

V(a, b, c) == [x |-> a, y |-> b, z |-> c]
At(a, b, c, q) == [xyz |-> V(a, b, c), yaw |-> q]

Plus(u, v)   == V(u.x + v.x, u.y + v.y, u.z + v.z)
Minus(u, v)  == V(u.x - v.x, u.y - v.y, u.z - v.z)
Scaled(k, v) == V(k * v.x, k * v.y, k * v.z)

(* Rotation of a vector by q quarter turns about z. *)
Rotated(q, v) ==
    CASE q = 0 -> v
      [] q = 1 -> V(-v.y, v.x, v.z)
      [] q = 2 -> V(-v.x, -v.y, v.z)
      [] q = 3 -> V(v.y, -v.x, v.z)

TurnsSum(q, r) == IF q + r > 3 THEN q + r - 4 ELSE q + r
TurnsBack(q)   == IF q = 0 THEN 0 ELSE 4 - q

(* Pose.transform_point: a point of the pose's frame, in the parent frame. *)
TransformPoint(pose, v) == Plus(pose.xyz, Rotated(pose.yaw, v))

(***************************************************************************)
(* geometry/approach.py: no waypoint is stored, each is derived.           *)
(***************************************************************************)
GraspPose(pose, offset) == [xyz |-> TransformPoint(pose, offset), yaw |-> pose.yaw]

(* _normalize, exactly, on a vector along one axis, as the approach vector   *)
(* of every supplied recipe is; on others it is not the code's.  The zero    *)
(* vector, which the code refuses with a ValueError, has no direction.       *)
Unit(n) == IF n > 0 THEN 1 ELSE IF n < 0 THEN -1 ELSE 0
Direction(v) == V(Unit(v.x), Unit(v.y), Unit(v.z))
HasDirection(v) == v # V(0, 0, 0)

(* derive_approach_pose: back off from the target along the approach vector. *)
StandOff(pose, vec, dist) ==
    [pose EXCEPT !.xyz = Minus(@, Scaled(dist, Direction(vec)))]

(***************************************************************************)
(* geometry/transforms.py: a perception delta, in the world frame, applied *)
(* to a nominal pose: the translation is added, the rotation is composed   *)
(* on the left and leaves the position alone.                              *)
(***************************************************************************)
ComposedInDegrees(nominal, delta, turns) ==
    [xyz |-> Plus(nominal.xyz, delta), yaw |-> 90 * turns + nominal.yaw]
Composed(nominal, delta, turns) ==
    [xyz |-> Plus(nominal.xyz, delta), yaw |-> TurnsSum(turns, nominal.yaw)]

(***************************************************************************)
(* world_model.py: bounds of a box, given by its half sizes, at a pose     *)
(* (_aabb), and the strict overlap of two boxes (_boxes_overlap).          *)
(***************************************************************************)
Extent(half, pose) ==
    IF pose.yaw \in {1, 3} THEN V(half.y, half.x, half.z) ELSE half

Lo(half, pose) == Minus(pose.xyz, Extent(half, pose))
Hi(half, pose) == Plus(pose.xyz, Extent(half, pose))

Smaller(a, b) == IF a < b THEN a ELSE b
Larger(a, b)  == IF a > b THEN a ELSE b

BoxesOverlap(poseA, halfA, poseB, halfB) ==
    \A c \in {"x", "y", "z"} :
        Smaller(Hi(halfA, poseA)[c], Hi(halfB, poseB)[c])
            - Larger(Lo(halfA, poseA)[c], Lo(halfB, poseB)[c]) > 0

(***************************************************************************)
(* moveit_scene_adapter.py: the pose of a body in the frame of another     *)
(* (inv(gripper) @ part), and a body carried at such a relative pose       *)
(* (gripper @ relative).                                                   *)
(***************************************************************************)
RelativeTo(frame, pose) ==
    [xyz |-> Rotated(TurnsBack(frame.yaw), Minus(pose.xyz, frame.xyz)),
     yaw |-> TurnsSum(TurnsBack(frame.yaw), pose.yaw)]

CarriedAt(frame, rel) ==
    [xyz |-> TransformPoint(frame, rel.xyz), yaw |-> TurnsSum(frame.yaw, rel.yaw)]
===============================================================================
