------------------------------ MODULE CuRoboWorld ------------------------------
(***************************************************************************)
(* The orchestrator of JobRunner planning with cuRobo: the adapter         *)
(* (astra_ros/curobo_planner_adapter.py) sends with every request the      *)
(* boxes to avoid, read out of the planning scene, and the service         *)
(* (scripts/curobo_plan_server.py) keeps the world it was last sent.       *)
(* How requests and answers travel is CuRoboBridge.                        *)
(***************************************************************************)
EXTENDS JobRunner

ASSUME BodiesAssumption == PartIds \cap ObstacleIds = {}

VARIABLE
    serverWorld     \* body -> pose, for the bodies the service avoids

(* The adapter reports nothing but these two reasons. *)
CuRoboFailure == {"IK_UNREACHABLE", "PLANNING_FAILED"}

(* _obstacles: all that the scene holds, but what is carried, what the arm  *)
(* may enter and what the gripper may touch.                                *)
AvoidedButCarried == (PartIds \ sceneAttached) \cup (ObstacleIds \ armExempt)
Avoided == (PartIds \ (sceneAttached \cup gripperExempt)) \cup (ObstacleIds \ armExempt)
Requested == [b \in Avoided |-> IF b \in PartIds THEN scenePose[b] ELSE Obstacle[b].pose]

NoBodies == [b \in {} |-> NoPose]

(* The service's world after a request: an empty list does not replace it.  *)
WorldAfterRequest == IF Avoided = {} THEN serverWorld ELSE Requested

WorldSent == serverWorld' = WorldAfterRequest

CuRoboInit == Init /\ serverWorld = NoBodies

CuRoboPlanSucceeds == PlanSucceeds /\ WorldSent

(* A call may fail before the service has taken over the world sent with it. *)
CuRoboPlanFails(reason) ==
    /\ PlanFails(reason)
    /\ WorldSent \/ (reason = "PLANNING_FAILED" /\ UNCHANGED serverWorld)

Elsewhere ==
    /\ \/ Prepare \/ StartStep \/ CompleteJob \/ Begin \/ Finish \/ Judge
       \/ ExecutionSucceeds
       \/ \E error \in ExecutionStatus \ {"SUCCESS"} : ExecutionFails(error)
    /\ UNCHANGED serverWorld

CuRoboNext ==
    \/ CuRoboPlanSucceeds
    \/ \E reason \in CuRoboFailure : CuRoboPlanFails(reason)
    \/ Elsewhere

CuRoboDone == Done /\ UNCHANGED serverWorld

CuRoboSpec == CuRoboInit /\ [][CuRoboNext \/ CuRoboDone]_<<vars, serverWorld>>

-------------------------------------------------------------------------------
(* The world the trajectory about to be executed was planned in is          *)
(* serverWorld while stage = "execute".                                     *)
Executing == stage = "execute"

(* curobo_planner_adapter.py:54-59: from its approach to the retreat after  *)
(* its release, the part being handled is never planned around.             *)
HandledIsNoObstacle ==
    \A i \in PartIndex :
        Executing /\ step \in PickApproachAt(i) .. PlaceRetreatAt(i) =>
            PartAt(i) \notin DOMAIN serverWorld

(* job_runner.py:240-244: every trajectory avoids every part that waits its *)
(* turn, where it is believed to be, and every zone no part is assembled in.*)
WaitingPartsAndZonesAvoided ==
    Executing =>
        /\ \A i \in PartIndex :
              step < PickApproachAt(i) =>
                  /\ PartAt(i) \in DOMAIN serverWorld
                  /\ serverWorld[PartAt(i)] = PoseOf(PartAt(i))
        /\ \A o \in ObstacleIds :
              o \in DOMAIN serverWorld \/ \E p \in PartIds : o \in Overlapping(p, Part[p].assembly)
===============================================================================
