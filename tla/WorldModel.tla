------------------------------ MODULE WorldModel ------------------------------
(***************************************************************************)
(* The in-process world model (world/world_model.py, world/part_state.py): *)
(* per part, the pose last observed or assigned, and whether it is held.   *)
(***************************************************************************)
EXTENDS Recipe

VARIABLES
    observed,       \* part id -> PartState.observed_pose
    attached        \* part id -> PartState.attached_to_gripper

worldVars == <<observed, attached>>

WorldInit ==
    /\ observed = [p \in PartIds |-> NoPose]
    /\ attached = [p \in PartIds |-> FALSE]

(* PartState.effective_pose, which pose_of returns. *)
PoseOf(p) == IF observed[p] = NoPose THEN Part[p].source ELSE observed[p]

(* apply_correction: a new pose replaces the earlier one, it is not added.  *)
KeepsFirst(p, pose) ==
    observed' = [observed EXCEPT ![p] = IF @ = NoPose THEN pose ELSE @]
Observe(p, pose) == observed' = [observed EXCEPT ![p] = pose]

AttachForgotten(p) == UNCHANGED worldVars
WorldAttach(p) ==
    /\ attached' = [attached EXCEPT ![p] = TRUE]
    /\ UNCHANGED observed

DetachKeepsHold(p, pose) == UNCHANGED attached /\ Observe(p, pose)
DetachKeepsPose(p, pose) ==
    /\ attached' = [attached EXCEPT ![p] = FALSE]
    /\ observed' = observed
WorldDetach(p, pose) ==
    /\ attached' = [attached EXCEPT ![p] = FALSE]
    /\ Observe(p, pose)
===============================================================================
