----------------------------- MODULE RosExecution -----------------------------
(***************************************************************************)
(* The orchestrator of JobRunner on ros_execution_adapter.py, started by a *)
(* launch file.  Every call of the adapter is a sequence of steps: find    *)
(* the action server, wait for the goal's acceptance, wait for its result, *)
(* each with a deadline that cancels nothing.  The action servers of the   *)
(* arm and of the hand, and MoveIt's executor, are external.               *)
(***************************************************************************)
EXTENDS JobRunner, Launch

CONSTANTS
    HomePose,       \* where the arm starts
    MaxRequests     \* bound: goals sent to one server that it has not answered

ASSUME RosAssumption ==
    /\ HomePose \in Pose
    /\ MaxRequests \in Nat \ {0}

VARIABLES
    call,           \* the adapter call under way, and how far it has come
    requests,       \* server -> goals sent to it, not yet accepted or rejected
    active,         \* server -> <<>>, or <<the goal it is executing>>
    arm,            \* where the arm is
    told            \* what the hand was last set to do

adapterVars == <<call, requests, active, arm, told>>
rosVars == <<vars, launchVars, adapterVars>>

Op == {"execute", "open", "close", "release"}
Answer == {"ok", "failed"}
Phase == {"server", "accept", "result", "moveit"} \cup Answer
NoCall == [op |-> "none", phase |-> "none"]

ServerOf(op) == IF op = "execute" THEN "arm" ELSE "hand"
ViaAction(op) == IF op = "execute" THEN UsesArmAction ELSE UsesGripperAction
GoalOf(op) ==
    CASE op = "execute" -> target
      [] op = "close" -> "closed"
      [] OTHER -> "open"

RosInit ==
    /\ Init
    /\ LaunchInit
    /\ call = NoCall
    /\ requests = [c \in Controllers |-> <<>>]
    /\ active = [c \in Controllers |-> <<>>]
    /\ arm = HomePose
    /\ told = "unknown"

-------------------------------------------------------------------------------
(* The adapter, in the job's thread.                                        *)

(* Where the skills call the adapter. *)
AtCall(op) ==
    \/ op = "execute" /\ stage = "execute"
    \/ op = "open" /\ \E i \in PartIndex : Dispatching(PickAt(i))
    \/ op = "close" /\ \E i \in PartIndex : Finishing(PickAt(i))
    \/ op = "release" /\ \E i \in PartIndex : Finishing(PlaceAt(i))

StartCall(op) ==
    /\ call = NoCall
    /\ AtCall(op)
    /\ call' = [op |-> op, phase |-> IF ViaAction(op) THEN "server" ELSE "moveit"]
    /\ UNCHANGED <<vars, launchVars, requests, active, arm, told>>

(* The call is at this phase; its answer, when it has one.                  *)
Waiting(op, phase) == call = [op |-> op, phase |-> phase]
Proceeds(op, phase) == call' = [op |-> op, phase |-> phase]

(* wait_for_server finds the server, and the goal is sent.                  *)
Send(op) ==
    LET s == ServerOf(op)
    IN  /\ Waiting(op, "server")
        /\ Listed(s)
        /\ Len(requests[s]) < MaxRequests
        /\ requests' = [requests EXCEPT ![s] = Append(@, GoalOf(op))]
        /\ Proceeds(op, "accept")
        /\ UNCHANGED <<vars, launchVars, active, arm, told>>

(* It finds none in time: none configured, or not discovered yet.           *)
NoServer(op) ==
    /\ Waiting(op, "server")
    /\ Proceeds(op, "failed")
    /\ UNCHANGED <<vars, launchVars, requests, active, arm, told>>

(* The goal's acceptance does not come in time; the goal stays where it is. *)
AcceptTimeout(op) ==
    /\ Waiting(op, "accept")
    /\ Proceeds(op, "failed")
    /\ UNCHANGED <<vars, launchVars, requests, active, arm, told>>

(* Neither does the result: an error for the arm; for the hand the sign of  *)
(* a grasp, the jaws pressing on the part.                                  *)
LateIsFine(op) == "ok"
WhenLate(op) == IF op = "execute" THEN "failed" ELSE "ok"
ResultAwaitedForever(op) == Waiting(op, "result") /\ FALSE /\ UNCHANGED rosVars
ResultTimeout(op) ==
    /\ Waiting(op, "result")
    /\ Proceeds(op, WhenLate(op))
    /\ UNCHANGED <<vars, launchVars, requests, active, arm, told>>

ClientStep(op) ==
    StartCall(op) \/ Send(op) \/ NoServer(op) \/ AcceptTimeout(op) \/ ResultTimeout(op)

-------------------------------------------------------------------------------
(* The action servers.  A goal is awaited if the call under way sent it:    *)
(* then it is the last one sent.                                            *)

Awaited(s, phase) == \E op \in Op : ServerOf(op) = s /\ Waiting(op, phase)
Awaits(s) == Len(requests[s]) = 1 /\ Awaited(s, "accept")

(* A server may accept a goal before its controller is active.  A new goal  *)
(* takes over from the one being executed.                                  *)
Accept(s) ==
    /\ requests[s] # <<>>
    /\ requests' = [requests EXCEPT ![s] = Tail(@)]
    /\ active' = [active EXCEPT ![s] = <<Head(requests[s])>>]
    /\ told' = IF s = "hand" THEN Head(requests[s]) ELSE told
    /\ call' = IF Awaits(s) THEN [call EXCEPT !.phase = "result"] ELSE call
    /\ UNCHANGED <<vars, launchVars, arm>>

Reject(s) ==
    /\ requests[s] # <<>>
    /\ requests' = [requests EXCEPT ![s] = Tail(@)]
    /\ call' = IF Awaits(s) THEN [call EXCEPT !.phase = "failed"] ELSE call
    /\ UNCHANGED <<vars, launchVars, active, arm, told>>

(* SUCCESSFUL, or reached_goal or stalled: the arm is where it should be,   *)
(* the jaws are at their position or against the part.  Only an active      *)
(* controller brings them there.                                            *)
Succeed(s) ==
    /\ active[s] # <<>>
    /\ ServerActive(s)
    /\ active' = [active EXCEPT ![s] = <<>>]
    /\ arm' = IF s = "arm" THEN Head(active[s]) ELSE arm
    /\ call' = IF Awaited(s, "result") THEN [call EXCEPT !.phase = "ok"] ELSE call
    /\ UNCHANGED <<vars, launchVars, requests, told>>

Abort(s) ==
    /\ active[s] # <<>>
    /\ active' = [active EXCEPT ![s] = <<>>]
    /\ arm' \in IF s = "arm" THEN {arm, Head(active[s])} ELSE {arm}
    /\ call' = IF Awaited(s, "result") THEN [call EXCEPT !.phase = "failed"] ELSE call
    /\ UNCHANGED <<vars, launchVars, requests, told>>

ServerStep(s) == Accept(s) \/ Reject(s) \/ Succeed(s) \/ Abort(s)

(* MoveItPy.execute, which watches the controllers itself and returns a     *)
(* boolean; _move_gripper fails without moving when its plan does.          *)
MoveItSucceeds(op) ==
    /\ Waiting(op, "moveit")
    /\ ServerActive(ServerOf(op))
    /\ Proceeds(op, "ok")
    /\ arm' = IF op = "execute" THEN target ELSE arm
    /\ told' = IF op = "execute" THEN told ELSE GoalOf(op)
    /\ UNCHANGED <<vars, launchVars, requests, active>>

MoveItFails(op) ==
    /\ Waiting(op, "moveit")
    /\ Proceeds(op, "failed")
    /\ arm' \in IF op = "execute" THEN {arm, target} ELSE {arm}
    /\ told' \in IF op = "execute" THEN {told} ELSE {told, GoalOf(op)}
    /\ UNCHANGED <<vars, launchVars, requests, active>>

-------------------------------------------------------------------------------
(* The job's steps.  Those that follow a call take its answer.              *)

Answered(op, answer) ==
    /\ Waiting(op, answer)
    /\ call' = NoCall
    /\ UNCHANGED <<launchVars, requests, active, arm, told>>

(* open_gripper returns nothing. *)
RosPick(i) == \E answer \in Answer : Answered("open", answer) /\ BeginPick(i)

RosExecutes ==
    \/ Answered("execute", "ok") /\ ExecutionSucceeds
    \/ Answered("execute", "failed") /\ ExecutionFails("CONTROLLER_ERROR")

(* attach remembers the part only if the command went through, and          *)
(* verify_grasp looks it up.                                                *)
ConfirmedAnyway(answer) == TRUE
Confirmed(answer) == answer = "ok"
RosFinishPick(i) ==
    \E answer \in Answer :
        LET closed == Confirmed(answer)
        IN  /\ Answered("close", answer)
            /\ FinishPick(i, closed, closed \/ PartAt(i) \in execAttached)

RosFinishPlace(i) == \E answer \in Answer : Answered("release", answer) /\ FinishPlace(i)

(* The steps of JobRunner with no call of the adapter before them.          *)
Uncalled ==
    /\ JobStarted
    /\ \/ Prepare \/ StartStep \/ CompleteJob \/ FinishMove \/ Judge \/ PlanSucceeds
       \/ \E reason \in PlanFailure : PlanFails(reason)
       \/ \E i \in PartIndex :
             \/ \E sighting \in Sightings(PartAt(i)) :
                   BeginPickApproach(i, sighting) \/ FinishPickRetreat(i, sighting)
             \/ BeginPickRetreat(i) \/ BeginPlaceApproach(i)
             \/ BeginPlace(i) \/ BeginPlaceRetreat(i)
       \/ \E j \in JointIndex : BeginJointApproach(j)
    /\ UNCHANGED <<launchVars, adapterVars>>

JobStep ==
    \/ Uncalled
    \/ RosExecutes
    \/ \E i \in PartIndex : RosPick(i) \/ RosFinishPick(i) \/ RosFinishPlace(i)

(* What the job's process does of its own accord, deadlines included.       *)
ProcessStep == JobStep \/ \E op \in Op : ClientStep(op)
MoveItStep == \E op \in Op : MoveItSucceeds(op) \/ MoveItFails(op)

RosNext ==
    \/ ProcessStep
    \/ MoveItStep
    \/ \E s \in Controllers : ServerStep(s)
    \/ LaunchStep /\ UNCHANGED <<vars, adapterVars>>

(* The job has returned and the servers have come to rest. *)
RosDone == ~ Running /\ UNCHANGED rosVars

(* The process runs and time passes, MoveIt's executor returns.  Nothing is *)
(* assumed of the action servers, the spawners or the launch.               *)
RosSpec ==
    /\ RosInit
    /\ [][RosNext \/ RosDone]_rosVars
    /\ WF_rosVars(ProcessStep)
    /\ WF_rosVars(MoveItStep)

-------------------------------------------------------------------------------
(* The properties.                                                          *)

(* ros_execution_adapter.py:143-167, execution_port.py: whatever the        *)
(* servers and the deadlines do, the adapter and the recovery policy keep   *)
(* the motion port: two motions are never under way together, success means *)
(* the arm is there, and after an error, late goals included, nothing more  *)
(* is commanded.                                                            *)
MotionUnderWay ==
    IF Waiting("execute", "moveit") THEN target
    ELSE IF requests["arm"] # <<>> THEN Head(requests["arm"])
    ELSE IF active["arm"] # <<>> THEN Head(active["arm"])
    ELSE NoPose

Report ==
    IF Waiting("execute", "ok") \/ outcome.exec = "SUCCESS" THEN "success"
    ELSE IF Waiting("execute", "failed") \/ outcome.exec # "none" THEN "error"
    ELSE "none"

Motions == INSTANCE MotionPort WITH
    Poses <- Pose, Idle <- NoPose, at <- arm, motion <- MotionUnderWay, reported <- Report

ImplementsMotionPort == Motions!Spec

(* At most one goal of the arm is anywhere between the adapter and the end  *)
(* of its execution, so the goal MotionUnderWay names is the only one.      *)
OneMotionAtATime ==
    Len(requests["arm"]) + Len(active["arm"])
        + (IF Waiting("execute", "moveit") THEN 1 ELSE 0) <= 1

(* ros_execution_adapter.py:155-163, 189-203: from a confirmed grasp until  *)
(* the release is commanded, the last command the hand took up is the one   *)
(* to close, and no earlier one to open is still waiting to be taken up,    *)
(* although commands that were given up are never cancelled.                *)
CarriesWithJawsClosed ==
    \A i \in PartIndex :
        /\ step \in PickRetreatAt(i) .. PlaceAt(i)
        /\ attached[PartAt(i)]
        /\ call.op # "release"
        => told = "closed" /\ requests["hand"] = <<>>

(* docs/moveit2_integration_notes.md:248-249: no step of the recipe is done  *)
(* without an active controller of the arm.  The chain of start-up does not  *)
(* see to it: the job may start on a controller that is listed but not       *)
(* active, in demo.launch.py on none at all.  What holds the first step back *)
(* is every way in which a motion can end: no server, no acceptance, no      *)
(* result in time.                                                           *)
NoStepWithoutArm == step > 0 => ServerActive("arm")

(* ros_execution_adapter.py:26-34, 127-130: once started, the job ends      *)
(* whatever the action servers do: reject, abort, or say nothing for ever.  *)
JobEnds == JobStarted ~> ~ Running
===============================================================================
