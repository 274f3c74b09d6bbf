-------------------------------- MODULE Launch --------------------------------
(***************************************************************************)
(* Start-up (launch/demo*.launch.py): the chain of process exits that ends *)
(* with run_job, next to the spawners of the two controllers the job       *)
(* commands.  An exit event fires whatever the exit code, and nobody waits *)
(* for the hand's spawner.  The simulator, the controller manager and the  *)
(* spawners are external: each may take any time, for ever included.       *)
(***************************************************************************)

VARIABLES
    setup,          \* the launch file and the planner it is given
    chain,          \* the link that runs: "robot", "controllers" (the arm's spawner),
                    \* "wait_arm", "wait_joints" or "job"
    controller      \* controller -> "none", then "configured", then "active"

launchVars == <<setup, chain, controller>>

Controllers == {"arm", "hand"}

(* The combinations the launch files can ask of run_job. *)
Setups ==
    [file : {"demo", "demo_gazebo", "demo_gazebo_ur"}, planner : {"moveit"}]
        \cup {[file |-> "demo_gazebo_ur", planner |-> "curobo"]}

(* What the robot profile gives run_job: the UR has a gripper action and,   *)
(* for cuRobo's trajectories, an arm action; all else goes through MoveIt.  *)
UsesGripperAction == setup.file = "demo_gazebo_ur"
UsesArmAction == setup.planner = "curobo"

LaunchInit ==
    /\ setup \in Setups
    /\ chain = IF setup.file = "demo" THEN "controllers" ELSE "robot"
    /\ controller = [c \in Controllers |-> "none"]

(* Gazebo: spawn_robot exits, and the spawners start together.              *)
RobotSpawned ==
    /\ chain = "robot"
    /\ chain' = "controllers"
    /\ UNCHANGED <<setup, controller>>

(* The controller manager does what a spawner asks of it, in two calls, each *)
(* at its own time, the spawner still there or not.  The action of a         *)
(* controller exists, and is listed, once it is configured, whether or not   *)
(* it is ever activated.                                                     *)
Configure(c) ==
    /\ chain # "robot"
    /\ controller[c] = "none"
    /\ controller' = [controller EXCEPT ![c] = "configured"]
    /\ UNCHANGED <<setup, chain>>

Activate(c) ==
    /\ controller[c] = "configured"
    /\ controller' = [controller EXCEPT ![c] = "active"]
    /\ UNCHANGED <<setup, chain>>

Listed(c) == controller[c] # "none"
ServerActive(c) == controller[c] = "active"

(* The arm's spawner exits, with its controller active or having given up    *)
(* at any point: in demo.launch.py run_job is next, in the others the wait   *)
(* for its action.                                                           *)
NextLink == IF setup.file = "demo" THEN "job" ELSE "wait_arm"
SpawnerExits ==
    /\ chain = "controllers"
    /\ chain' = NextLink
    /\ UNCHANGED <<setup, controller>>

(* until ros2 action list | grep ...: a poll that does not find the action   *)
(* sleeps and polls again, without a limit.  It finds an action that is      *)
(* listed; whether its controller is active it does not ask.                 *)
WaitForArm ==
    /\ chain = "wait_arm"
    /\ chain' = IF Listed("arm") THEN "wait_joints" ELSE chain
    /\ UNCHANGED <<setup, controller>>

(* The wait for a joint state ends with one, or without after 15 s.         *)
WaitForJoints ==
    /\ chain = "wait_joints"
    /\ chain' = "job"
    /\ UNCHANGED <<setup, controller>>

LaunchStep ==
    \/ RobotSpawned
    \/ \E c \in Controllers : Configure(c) \/ Activate(c)
    \/ SpawnerExits
    \/ WaitForArm
    \/ WaitForJoints

JobStarted == chain = "job"
===============================================================================
