------------------------------ MODULE GazeboScene ------------------------------
(***************************************************************************)
(* The orchestrator of JobRunner on gazebo_scene_adapter.py: parts are     *)
(* dynamic bodies that are spawned without waiting, settled once before    *)
(* anything else is asked of the simulator, moved by command-line calls    *)
(* that may fail or time out, and read back at PICK_APPROACH and after the *)
(* lift.  The composite adapter gives every call to MoveIt's scene, which  *)
(* is PlanningScene, and to Gazebo's.                                      *)
(*                                                                         *)
(* A body is followed until its grasp; what becomes of it then is Cell's   *)
(* subject.  The obstacles' static bodies move nothing and are left out.   *)
(* Execution goes through ros_execution_adapter.py, as it does in the code.*)
(***************************************************************************)
EXTENDS JobRunner

CONSTANTS
    TableTop,       \* WORKTABLE_TOP_Z
    PlanReasons     \* bound: the reasons for which a plan may fail

ASSUME GazeboAssumption ==
    /\ TableTop \in Nat \ {0}
    /\ PlanReasons \subseteq PlanFailure

(* WORKTABLE_TOP_Z is the underside of every part in the supplied recipes.   *)
ASSUME UndersideAssumption ==
    \A p \in PartIds : Part[p].source.xyz.z = TableTop + Part[p].half.z

VARIABLES
    table,          \* the worktable: "none", "spawning", "there" in time, "missing",
                    \* "late" when its spawn was given up, "tardy" when that happened
    flight,         \* parts whose spawn has been started and may yet happen
    pending,        \* parts whose spawn process is in _pending_spawns
    body,           \* part id -> "absent", "falling", "resting", or "taken"
                    \* once the jaws have closed on it
    bodyPose,       \* part id -> where its body is, or fell from
    settling,       \* a scene call's _settle: "out", "wait", "sleep" or "done"
    givenUp,        \* parts whose spawn was killed by _settle
    overdue,        \* part id -> poses it was told to move to by calls that failed or
                    \* were given up: any of these moves may happen at any time
    unsure,         \* parts of which the adapter has reported a stale view
    seen            \* parts whose pose PICK_APPROACH has read, and that no overdue
                    \* move has moved since

gazeboVars ==
    <<table, flight, pending, body, bodyPose, settling, givenUp, overdue, unsure, seen>>
gzVars == <<vars, gazeboVars>>

GazeboInit ==
    /\ Init
    /\ table = "none"
    /\ flight = {}
    /\ pending = {}
    /\ body = [p \in PartIds |-> "absent"]
    /\ bodyPose = [p \in PartIds |-> NoPose]
    /\ settling = "out"
    /\ givenUp = {}
    /\ overdue = [p \in PartIds |-> {}]
    /\ unsure = {}
    /\ seen = {}

-------------------------------------------------------------------------------
(* The simulator.                                                           *)

Floor == 0
LyingOn(p, level, pose) == [pose EXCEPT !.xyz.z = level + Part[p].half.z]

(* A spawn happens: the body is created where it was asked for.             *)
Land(p) ==
    /\ p \in flight
    /\ flight' = flight \ {p}
    /\ body' = [body EXCEPT ![p] = "falling"]
    /\ bodyPose' = [bodyPose EXCEPT ![p] = Part[p].source]
    /\ UNCHANGED <<vars, table, pending, settling, givenUp, overdue, unsure, seen>>

(* A spawn fails, which nobody looks at. *)
SpawnFails(p) ==
    /\ p \in flight
    /\ flight' = flight \ {p}
    /\ UNCHANGED <<vars, table, pending, body, bodyPose, settling, givenUp, overdue, unsure, seen>>

(* A body comes to rest on the table or, there being none, on the floor.     *)
Level == IF table \in {"there", "tardy"} THEN TableTop ELSE Floor
Rest(p) ==
    /\ body[p] = "falling"
    /\ body' = [body EXCEPT ![p] = "resting"]
    /\ bodyPose' = [bodyPose EXCEPT ![p] =
                       LyingOn(p, Level, @)]
    /\ UNCHANGED <<vars, table, flight, pending, settling, givenUp, overdue, unsure, seen>>

(* A move that was given up happens after all: for a body in the jaws, or no *)
(* body at all, without effect.                                             *)
OverdueMove(p, pose) ==
    /\ pose \in overdue[p]
    /\ body[p] \in {"falling", "resting"}
    /\ body' = [body EXCEPT ![p] = "falling"]
    /\ bodyPose' = [bodyPose EXCEPT ![p] = pose]
    /\ seen' = seen \ {p}
    /\ UNCHANGED <<vars, table, flight, pending, settling, givenUp, overdue, unsure>>

TableAppears ==
    /\ table \in {"spawning", "late"}
    /\ table' = IF table = "late" THEN "tardy" ELSE "there"
    /\ UNCHANGED <<vars, flight, pending, body, bodyPose, settling, givenUp, overdue, unsure, seen>>

TableFails ==
    /\ table = "spawning"
    /\ table' = "missing"
    /\ unsure' = PartIds
    /\ UNCHANGED <<vars, flight, pending, body, bodyPose, settling, givenUp, overdue, seen>>

-------------------------------------------------------------------------------
(* The adapter.                                                             *)

(* _ensure_worktable, on the first add_object: a spawn that is waited for,   *)
(* within the time limit of every command.                                  *)
StartTable ==
    /\ fsm = "VALIDATE"
    /\ table = "none"
    /\ table' = "spawning"
    /\ UNCHANGED <<vars, flight, pending, body, bodyPose, settling, givenUp, overdue, unsure, seen>>

TableTimeout ==
    /\ table = "spawning"
    /\ table' = "late"
    /\ unsure' = PartIds
    /\ UNCHANGED <<vars, flight, pending, body, bodyPose, settling, givenUp, overdue, seen>>

(* add_object for every part: all spawns are started, none is waited for.   *)
TableAsked == table # "none"
TableTried == table \notin {"none", "spawning"}
SpawnAll ==
    /\ BuildWorld
    /\ TableTried
    /\ flight' = PartIds
    /\ pending' = PartIds
    /\ UNCHANGED <<table, body, bodyPose, settling, givenUp, overdue, unsure, seen>>

(* Where the orchestrator asks for a pose to be set or read.                *)
AtSceneCall ==
    \/ stage = "gate" /\ Accepted(correction) /\ correction.part \in PartIds
    \/ \E i \in PartIndex : Dispatching(PickApproachAt(i)) \/ Finishing(PickRetreatAt(i))

(* _settle returns at once when nothing is pending.                         *)
NoSettle == "done"
FirstThing == IF pending = {} THEN "done" ELSE "wait"
StartSettle ==
    /\ settling = "out"
    /\ AtSceneCall
    /\ settling' = FirstThing
    /\ UNCHANGED <<vars, table, flight, pending, body, bodyPose, givenUp, overdue, unsure, seen>>

(* Each pending spawn is waited for, one that takes too long is killed, or   *)
(* at least its parent process is: the body may still be created.           *)
AwaitedSpawnLands(p) ==
    /\ settling = "wait"
    /\ p \in pending \ flight
    /\ pending' = pending \ {p}
    /\ UNCHANGED <<vars, table, flight, body, bodyPose, settling, givenUp, overdue, unsure, seen>>

KillSpawnNever(p) == FALSE /\ UNCHANGED gzVars
KillSpawn(p) ==
    /\ settling = "wait"
    /\ p \in pending \cap flight
    /\ pending' = pending \ {p}
    /\ givenUp' = givenUp \cup {p}
    /\ unsure' = unsure \cup {p}
    /\ UNCHANGED <<vars, table, flight, body, bodyPose, settling, overdue, seen>>

(* Then the bodies get time to come to rest: more than they need to drop     *)
(* onto the table, or to the floor.                                         *)
SkipSleep == "done"
SleepTime == "sleep"
StartSleep ==
    /\ settling = "wait"
    /\ pending = {}
    /\ settling' = SleepTime
    /\ UNCHANGED <<vars, table, flight, pending, body, bodyPose, givenUp, overdue, unsure, seen>>

EndSleep ==
    /\ settling = "sleep"
    /\ \A p \in PartIds \ givenUp : body[p] # "falling"
    /\ settling' = "done"
    /\ UNCHANGED <<vars, table, flight, pending, body, bodyPose, givenUp, overdue, unsure, seen>>

SettleStep ==
    \/ StartSettle
    \/ \E p \in PartIds : AwaitedSpawnLands(p) \/ KillSpawn(p)
    \/ StartSleep
    \/ EndSleep

(* set_pose, after _settle: a body that exists is put there and falls to     *)
(* rest; a call about a missing body is not reported; one that fails or is   *)
(* given up is, and what it asked for may yet happen.                        *)
Moved(p, pose) ==
    \/ /\ body[p] # "absent"
       /\ body' = [body EXCEPT ![p] = "falling"]
       /\ bodyPose' = [bodyPose EXCEPT ![p] = pose]
       /\ UNCHANGED <<overdue, unsure>>
    \/ body[p] = "absent" /\ UNCHANGED <<body, bodyPose, overdue, unsure>>
    \/ /\ overdue' = [overdue EXCEPT ![p] = @ \cup {pose}]
       /\ unsure' = unsure \cup {p}
       /\ UNCHANGED <<body, bodyPose>>

(* observe_pose: what is read, or nothing when there is nothing to read or   *)
(* the call fails.                                                          *)
Readings(p) == {NoPose} \cup (IF body[p] = "absent" THEN {} ELSE {bodyPose[p]})

-------------------------------------------------------------------------------
(* The job's steps that ask the simulator something.                        *)

Answered ==
    /\ settling = "done"
    /\ settling' = "out"
    /\ UNCHANGED <<table, flight, pending, givenUp>>

GazeboCorrection ==
    /\ AcceptCorrection
    /\ Answered
    /\ Moved(correction.part, PoseOf(correction.part)')
    /\ UNCHANGED seen

GazeboPickApproach(i) ==
    LET p == PartAt(i)
    IN  /\ Answered
        /\ \E reading \in Readings(p) :
              /\ BeginPickApproach(i, reading)
              /\ IF reading = NoPose
                 THEN UNCHANGED <<body, bodyPose, overdue, unsure, seen>>
                 ELSE Moved(p, reading) /\ seen' = seen \cup {p}

(* Whether the jaws hold it or not, from here on nobody follows the body.    *)
GazeboFinishPick(i) ==
    LET p == PartAt(i)
    IN  /\ \E closed \in BOOLEAN :
              FinishPick(i, closed, closed \/ p \in execAttached)
        /\ IF body[p] = "absent"
           THEN UNCHANGED <<body, bodyPose, givenUp, overdue, unsure, seen>>
           ELSE /\ body' = [body EXCEPT ![p] = "taken"]
                /\ bodyPose' = [bodyPose EXCEPT ![p] = PoseOf(p)]
                /\ givenUp' = givenUp \ {p}
                /\ overdue' = [overdue EXCEPT ![p] = {}]
                /\ unsure' = unsure \ {p}
                /\ seen' = seen \ {p}
        /\ UNCHANGED <<table, flight, pending, settling>>

(* It may have been lifted, or have stayed where it was. *)
GazeboPickRetreat(i) ==
    LET p == PartAt(i)
        lifted == [PoseOf(p) EXCEPT !.xyz.z = @ + LiftDistance(i)]
    IN  /\ Answered
        /\ \E reading \in Readings(p) \cup (IF body[p] = "taken" THEN {lifted} ELSE {}) :
              FinishPickRetreat(i, reading)
        /\ UNCHANGED <<body, bodyPose, overdue, unsure, seen>>

(* All the others.  The only execution error is the adapter's.              *)
Unasked ==
    /\ \/ Validate \/ RaiseUnknownPart \/ RejectCorrection
       \/ StartStep \/ CompleteJob \/ FinishMove \/ Judge
       \/ \E reason \in PlanReasons : PlanFails(reason)
       \/ PlanSucceeds \/ ExecutionSucceeds \/ ExecutionFails("CONTROLLER_ERROR")
       \/ \E i \in PartIndex :
             \/ BeginPick(i) \/ BeginPickRetreat(i) \/ BeginPlaceApproach(i)
             \/ BeginPlace(i) \/ BeginPlaceRetreat(i) \/ FinishPlace(i)
       \/ \E j \in JointIndex : BeginJointApproach(j)
    /\ UNCHANGED gazeboVars

JobStep ==
    \/ Unasked
    \/ SpawnAll
    \/ GazeboCorrection
    \/ \E i \in PartIndex :
          GazeboPickApproach(i) \/ GazeboFinishPick(i) \/ GazeboPickRetreat(i)

(* The job's process, with every time limit it sets itself.                 *)
ProcessStep == JobStep \/ StartTable \/ TableTimeout \/ SettleStep

Fall == \E p \in PartIds : Rest(p)

GazeboNext ==
    \/ ProcessStep
    \/ Fall
    \/ \E p \in PartIds :
          Land(p) \/ SpawnFails(p) \/ \E pose \in overdue[p] : OverdueMove(p, pose)
    \/ TableAppears
    \/ TableFails

GazeboDone == ~ Running /\ UNCHANGED gzVars

(* The process runs and time passes; what falls lands.  No command-line      *)
(* call is assumed ever to return.                                          *)
GazeboSpec ==
    /\ GazeboInit
    /\ [][GazeboNext \/ GazeboDone]_gzVars
    /\ WF_gzVars(ProcessStep)
    /\ WF_gzVars(Fall)

-------------------------------------------------------------------------------
(* The properties.                                                          *)

(* The same place on the plane, at whatever height. *)
SameSpot(pose, other) ==
    pose.xyz.x = other.xyz.x /\ pose.xyz.y = other.xyz.y /\ pose.yaw = other.yaw

(* The job has used a message that moves this part up or down.  Its body is  *)
(* put there, and falls back to the table or is pushed out of it.           *)
HeightCorrected(p) ==
    /\ correction # NoCorrection
    /\ Accepted(correction)
    /\ correction.part = p
    /\ correction.delta.z # 0

OnFloor(p) ==
    body[p] = "resting" /\ bodyPose[p].xyz.z = Floor + Part[p].half.z

(* gazebo_scene_adapter.py:151-155: whatever order the spawns happen in, no  *)
(* part ever falls past the work surface, unless the adapter has reported    *)
(* that the table's spawn failed.                                           *)
TableBeforeParts == \A p \in PartIds : OnFloor(p) => p \in unsure

(* gazebo_scene_adapter.py:1-4, "both reflect the same recipe geometry": as *)
(* long as the adapter has reported nothing, every body is exactly where the *)
(* world model and MoveIt's scene have the part, from the start of the first *)
(* step to the grasp.  After a message that changed the part's height the    *)
(* height may differ, and in one way only: the body lies on the table.       *)
BodiesWhereBelieved ==
    \A i \in PartIndex :
        LET p == PartAt(i)
        IN  p \notin unsure /\ stage # "gate" /\ step <= PickAt(i) /\ ~ attached[p]
                /\ body[p] # "absent" =>
                \/ bodyPose[p] = PoseOf(p)
                \/ HeightCorrected(p) /\ bodyPose[p] = LyingOn(p, TableTop, PoseOf(p))

(* job_runner.py:54-58: a part that PICK_APPROACH has read is approached and *)
(* grasped at the spot where its body lies, whatever spawns were lost or     *)
(* late and whatever moves failed, unless such a move happens after the      *)
(* reading.  It is grasped at the body's height too, if the table was there  *)
(* in time and no message changed the part's height: else what was read may  *)
(* have been a body still falling.                                          *)
GraspsWhereItLies ==
    \A i \in PartIndex :
        LET p == PartAt(i)
        IN  p \in seen /\ step <= PickAt(i) /\ ~ attached[p] =>
                /\ body[p] # "absent"
                /\ SameSpot(bodyPose[p], PoseOf(p))
                /\ table = "there" /\ ~ HeightCorrected(p) => bodyPose[p] = PoseOf(p)

(* gazebo_scene_adapter.py:126-137, 213: a body that is still falling when   *)
(* the job reads or moves it fell from a pose the job itself put it at, or   *)
(* its spawn or a move of it had been given up: no spawn in flight is ever   *)
(* overtaken.                                                               *)
SettledBeforeUse ==
    settling = "done" =>
        \A p \in PartIds \ givenUp :
            /\ p \notin flight
            /\ body[p] = "falling" /\ overdue[p] = {} =>
                   scenePose[p] = bodyPose[p] /\ observed[p] # NoPose

(* gazebo_scene_adapter.py:105-107, "a hung CLI call must never block the    *)
(* autonomy layer": every job ends though no command ever returns.          *)
JobEnds == <>(~ Running)
===============================================================================
