---------------------------- MODULE RecoveryPolicy ----------------------------
(***************************************************************************)
(* The recovery policy (recovery/policy.py) and the classifier that maps   *)
(* planner and controller results to it (recovery/classifier.py).          *)
(***************************************************************************)
EXTENDS Integers, Sequences

FailureClass == {"IK_UNREACHABLE", "PLANNING_COLLISION", "PERCEPTION_REJECTED",
                 "EXECUTION_ERROR", "PICK_VERIFY_FAILED", "COMM_TIMEOUT"}

RecoveryAction == {"RETRY", "REPLAN", "RE_OBSERVE", "SAFE_POSE",
                   "OPERATOR_PAUSE", "ABORT"}

(* One ladder of actions per class; its last entry ends the job. *)
POLICY ==
    [IK_UNREACHABLE      |-> <<"REPLAN", "REPLAN", "SAFE_POSE", "ABORT">>,
     PLANNING_COLLISION  |-> <<"REPLAN", "REPLAN", "SAFE_POSE", "OPERATOR_PAUSE">>,
     PERCEPTION_REJECTED |-> <<"RE_OBSERVE", "RE_OBSERVE", "OPERATOR_PAUSE">>,
     EXECUTION_ERROR     |-> <<"OPERATOR_PAUSE">>,
     PICK_VERIFY_FAILED  |-> <<"RE_OBSERVE", "RETRY", "RETRY", "ABORT">>,
     COMM_TIMEOUT        |-> <<"RETRY", "RETRY", "RETRY", "ABORT">>]

(* attempt counts the earlier failures of this class in this step, so the   *)
(* first failure takes the first rung; past the end the last rung repeats.  *)
NextActionLagging(class, attempt) ==
    POLICY[class][IF attempt = 0 THEN 1 ELSE IF attempt < Len(POLICY[class]) THEN attempt ELSE Len(POLICY[class])]
NextAction(class, attempt) ==
    POLICY[class][IF attempt < Len(POLICY[class]) THEN attempt + 1 ELSE Len(POLICY[class])]

IsTerminal(action) == action \in {"ABORT", "OPERATOR_PAUSE"}

(* Results of the planner and of the controller, as the ports declare them. *)
PlanFailure == {"IK_UNREACHABLE", "COLLISION", "PLANNING_TIMEOUT", "PLANNING_FAILED"}
ExecutionStatus == {"SUCCESS", "CONTROLLER_ERROR", "PROTECTIVE_STOP", "COMM_TIMEOUT"}

PlannerMapPartial ==
    [IK_UNREACHABLE   |-> "IK_UNREACHABLE",
     COLLISION        |-> "PLANNING_COLLISION",
     PLANNING_FAILED  |-> "PLANNING_COLLISION"]
PlannerMap ==
    [IK_UNREACHABLE   |-> "IK_UNREACHABLE",
     COLLISION        |-> "PLANNING_COLLISION",
     PLANNING_TIMEOUT |-> "PLANNING_COLLISION",
     PLANNING_FAILED  |-> "PLANNING_COLLISION"]

ExecutionMapLenient ==
    [CONTROLLER_ERROR |-> "EXECUTION_ERROR",
     PROTECTIVE_STOP  |-> "COMM_TIMEOUT",
     COMM_TIMEOUT     |-> "COMM_TIMEOUT"]
ExecutionMapRetried ==
    [CONTROLLER_ERROR |-> "COMM_TIMEOUT",
     PROTECTIVE_STOP  |-> "EXECUTION_ERROR",
     COMM_TIMEOUT     |-> "COMM_TIMEOUT"]
ExecutionMap ==
    [CONTROLLER_ERROR |-> "EXECUTION_ERROR",
     PROTECTIVE_STOP  |-> "EXECUTION_ERROR",
     COMM_TIMEOUT     |-> "COMM_TIMEOUT"]
===============================================================================
