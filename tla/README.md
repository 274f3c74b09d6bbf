# A verification project for the ASTRA assembly autonomy stack

TLA+ modules, TLC configurations and TLAPS proofs kept beside the Python code of
`src/astra_core`, `src/astra_ros`, `src/astra_sim`, `launch/` and `scripts/`.  They
cover the orchestrator and everything it decides with (skills, recovery policy, world
model, planning scene, perception gate), the cell it moves parts in, the ROS and Gazebo
adapters it moves them with, its start-up, and the cuRobo planner behind its process
boundary.

Checking a configuration: `tlc -config X.cfg M`, with the module given below.
Proofs: `tlapm M.tla` for `JobRunnerProofs`, `JobRunnerSafety`, `JobRunnerRefinement`,
`CellProofs`, `RosExecutionProofs`, `GazeboSceneProofs`, `CuRoboBridgeProofs` and
`CuRoboWorldProofs`.

## 1. The system

A job is one recipe: parts with a source pose and an assembly pose, joints to be
approached, obstacles, and bounds for perception corrections.  One thread runs
`run_job` (`orchestrator/job_runner.py`); it owns the world model and calls three
ports synchronously.

| component | state | operations | talks to |
|---|---|---|---|
| orchestrator (`orchestrator/`) | FSM state, step index, failure counts per step and class, job status | run_job, _dispatch, apply_perception_correction, _enforce_clear_obstacles, _classify | everything below |
| skills (`skills/`) | none | plan_and_execute, approach, pick, place, retreat, approach_joint | planner, execution and scene ports, world model |
| recovery (`recovery/`) | none | next_action, is_terminal, the two result maps | called by the orchestrator |
| world model (`world/`) | per part: observed pose, attached | pose_of, attach, detach, apply_perception_correction, clearance_height_for, work_holding_obstacles | called by orchestrator and skills |
| perception (`perception/`, `geometry/transforms.py`) | none | evaluate, corrected_pose_from_nominal | called once, before the first step |
| planning scene (`moveit_scene_adapter.py`) | poses, attached bodies with their grasp-relative poses, allowed collisions, gripper and arm exemptions | add_object, update_pose, attach, detach, allow/disallow (arm) collision | MoveIt; read by the cuRobo adapter |
| execution (`ros_execution_adapter.py`) | attached ids, action clients | execute, open_gripper, attach, detach, verify_grasp | controllers over ROS actions with timeouts |
| Gazebo scene (`gazebo_scene_adapter.py`) | spawned ids, spawns in flight, worktable flag | add_object, update_pose, observe_pose, settle | Gazebo through subprocesses with timeouts |
| cuRobo adapter (`curobo_planner_adapter.py`) | none of its own: reads the scene | plan_to_pose, _obstacles | bridge |
| cuRobo bridge and service (`curobo_bridge.py`, `scripts/curobo_plan_server.py`) | the process, three pipes, the service's collision world | plan, _recv, start-up; the service's loop over stdin | each other |
| start-up (`launch/`, `nodes/run_job.py`, `robot_profile.py`) | the processes running, the controllers' states | spawn the robot, spawn the controllers, poll for the arm's action, await a joint state, run the job | decides which adapters the job runs on |
| MoveIt planner adapter, TF, loader, trace logger, CLI, mocks | none that outlives a call | | |

What is hard here is not parallelism inside the orchestrator (there is none) but

* **partial failure and retry**: each of the 6n+m steps may fail in planning, in
  execution or in verification, each failure class has a ladder of its own, and a
  retried step repeats its side effects on three records of one truth (world
  model, planning scene, execution adapter);
* **stale state**: a pose recorded before a lift and used after it, a pose seen
  after the scene captured its grasp, a world a planner was sent earlier;
* **bookkeeping of exemptions** that must be lifted exactly when a carried part is
  clear of a zone;
* **beliefs against bodies**: jaws report only that a command finished;
* **goals and commands that outlive their deadline**: neither an action goal nor a
  spawn that was given up is cancelled, and either may take effect later, next to
  whatever the job does by then;
* **start-up in any order**: controllers and job are chained by process exits;
* **two processes and three pipes** between the job and cuRobo: noise, late
  answers, crashes, hangs, full pipes, and nobody calling `shutdown`.

Section 6 lists what each component should guarantee and what checks it.

## 2. Modules

| module | models | how state and actions correspond |
|---|---|---|
| `Geometry` | `geometry/`, box tests of `world_model.py` | lengths are integers, rotations quarter turns about z: on that subgroup the floating-point code is computed exactly |
| `RecoveryPolicy` | `recovery/` | `POLICY`, `NextAction`, `PlannerMap`, `ExecutionMap` |
| `Recipe` | `recipe/models.py`, what `load_recipe` guarantees, `step_builder.py`, derived geometry | the recipe is constant; steps are numbered from 0, six per part |
| `Perception` | `perception/`, `transforms.py` | a message is accepted or not; bounds are exact (squared norms) |
| `WorldModel` | `world/` | `observed`, `attached` |
| `PlanningScene` | the scene port and `moveit_scene_adapter.py` | `scenePose`, `sceneAttached`, `allowed`, `gripperExempt`, `armExempt` |
| `JobRunner` | `job_runner.py`, `skills/`, `job_context.py`, `states.py` | composes the four above.  `fsm` is the FSM state last logged, `stage` how far the dispatch of a step has come: before its side effects (`dispatch`), awaiting the planner (`plan`), awaiting the controller (`execute`), before the bookkeeping that follows a motion (`finish`).  Planner, controller, gripper and sensor are the environment and answer in any way their port declares |
| `AssemblyJob` | the promise of a job, abstractly | parts go source → gripper → assembly, one at a time and in order |
| `Cell` | `JobRunner` in a physical cell | arm, jaws, bodies, and the grasp-relative pose the scene captured |
| `CuRoboBridge` | bridge and planning service | two processes, pipes as sequences, stderr as a count, time as a deadline passed or not |
| `PlanService` | what a planner promises, abstractly | one call at a time, each answered with its own answer or a failure |
| `CuRoboWorld` | `JobRunner` planning with cuRobo | the world the service keeps, sent with every request |
| `Launch` | `launch/demo*.launch.py` | the chain of process exits that ends with `run_job`, and the two controllers: each is absent, configured (its action is listed) or active (its action is served), by steps of the controller manager that may come at any time or never |
| `RosExecution` | `ros_execution_adapter.py` under `JobRunner`, started by `Launch` | `call` is the adapter call under way and how far it has come (looking for the server, awaiting the acceptance, awaiting the result, inside MoveItPy); goals not taken up yet are queued at their server; a deadline moves `call` on and leaves the goal where it is |
| `MotionPort` | what `execution_port.py` promises of motions, abstractly | at most one motion; success on arrival only; nothing commanded after an error |
| `GazeboScene` | `gazebo_scene_adapter.py` and the composite adapter under `JobRunner` | spawns started and not waited for (`flight`, `pending`), bodies that are absent, falling, resting or taken, `_settle` in its stages, moves that fail or are given up (`overdue`: such a move may still happen), readings that fail |
| `VariantA`, `VariantB` | `recipes/ASTRA_Pranav_Variant_{A,B}.json` | in millimetres, yaws rounded to quarter turns; A with messages on each side of its bounds, of B only member_A |
| `MCJobRunner`, `MCCell`, `MCCuRoboWorld`, `MCRosExecution`, `MCGazeboScene` | instances | on those recipes: what the sensor sees, where parts settled |
| `JobRunnerProofs`, `JobRunnerSafety`, `JobRunnerRefinement` | proofs about `JobRunner`: types and control; what a job keeps; what it implements | |
| `CellProofs`, `RosExecutionProofs`, `GazeboSceneProofs`, `CuRoboWorldProofs` | proofs about the compositions, on top of those | |
| `CuRoboBridgeProofs` | proofs about `CuRoboBridge` | |

`RosExecution`, `GazeboScene`, `Cell` and `CuRoboWorld` each compose `JobRunner` with
one of its surroundings: their job steps are conjunctions of `JobRunner`'s actions with
what the surroundings do, so none of them repeats the orchestrator.  `RosExecution`
and `Launch` share no variable; the job takes its first step once `JobStarted`.

Conventions.  One action is the code between two calls whose answer matters, with
every change of state it makes; e.g. `FinishPick` is everything `pick()` does
after its motion succeeded.  Operators that end in the description of a mistake
(`DetachKeepsHold`, `NextActionLagging`, `TakeNewest`, ...) are used nowhere: each
is a plausible wrong version of the definition after it, kept to show that a
property notices it.

Abstractions.  Failure counts are kept for the current step only: the code keys
them by step and never returns to an earlier one.  The log is left out.  Held
parts and exemptions are sets of ids.  Roll and pitch are zero.  A correction's
rotation is a multiple of 90 degrees; the bound checked is 90, so
messages at it and beyond it occur.

## 3. Runs

All passing runs check for deadlock; a finished job stutters (`Done`, `Quiet`).

| run (cfg) | shows | distinct states |
|---|---|---|
| job (`MCJobRunner`) | type correctness and nine safety properties of the whole job: every failure of every port at every step, a sensor that sees the part lying, risen or not at all, and an optional message: at, inside or outside each bound, or about no part of the recipe; with the two properties of the perception gate | 900,447 |
| promise (`MCJobRunnerLive`) | `Termination`, and `JobRunner` implements `AssemblyJob` with its liveness | 71,106 |
| cell (`MCCell`) | belief against bodies: parts settled off their nominal pose, jaws that miss or stick; plans with a part in hand | 1,000,598 |
| bridge (`CuRoboBridge`) | order and lag of answers under noise, lateness, crash, hang and full pipes together | 66,084 |
| bridge_service (`CuRoboBridgeService`) | calls return, the service ends with the job, the bridge implements `PlanService` | 453 |
| curobo_world (`MCCuRoboWorld`) | what cuRobo is asked to avoid throughout a job | 258,054 |
| execution (`MCRosExecution`) | the adapter on servers that reject, abort, answer late or never, under every launch file: one motion at a time, parts carried in closed jaws, no step done without an active arm, a job that ends, and `RosExecution` implements `MotionPort` | 516,345 |
| gazebo (`MCGazeboScene`) | bodies against beliefs from the first spawn to the grasp, with spawns and moves that fail, hang or happen late, and corrections, of the height too; every job ends | 411,592 |

Runs that end in a counterexample each check one sentence of the code's own
comments:

| run | sentence | what happens |
|---|---|---|
| zones | job_runner.py:137-140, "every obstacle it is currently clear of" | the pose consulted is the one before the lift, so the zone a part was lifted out of stays exempt all the way |
| variant_b | job_runner.py:139, world_model.py:76-81, "unplannable by construction" | what a part overlaps is decided on bare boxes, the planner pads them: in variant B the part's place approach lies inside the padded fixture, which is enforced |
| placed | place.py:1-3 | the hand goes to the assembly pose, where picking went to the grasp point: the part is released the grasp offset away |
| bridge_stale | curobo_bridge.py:51 | after a late answer every call returns the answer of the one before |

Met while modelling, and visible in the modules, but checked by no run:

* `_recv` (curobo_bridge.py:41): the deadline is looked at between two lines, and
  `readline` has none, so a service that hangs is waited for without end;
  the failure reported on line 65, "timed out or died", is not reached then.
* `WaitForArm`: the poll of the Gazebo launches shows only that the arm's action is
  listed, which it is once the controller is configured (docs/moveit2_integration_notes.md:
  248-249 says as much: the controller exists).  If the activation comes late or fails,
  the job starts on a controller that is not active.  `NoStepWithoutArm` says what holds
  nevertheless.  The poll has no limit: without a configured controller the launch polls
  for ever.  `WaitForJoints` goes on after 15 s without a joint state.
* `NextLink`: demo.launch.py:137 starts `run_job` when the arm's spawner exits,
  although it may have failed; the comment above it (130-136) has the controller
  activated by then.
* `Confirmed`: the hand's controller need not be active either.  A close that gets no
  result counts as a grasp (ros_execution_adapter.py:156-158), so with a hand that is
  listed and not active the PICK succeeds; the check after the lift is what is left.
* `AcceptTimeout`, `ResultTimeout`: ros_execution_adapter.py reports both as
  CONTROLLER_ERROR, so the ladder of COMM_TIMEOUT is never taken with this adapter.
* `Accept("hand")` after `RosFinishPlace`: a goal to close or to open that was given
  up may be taken up while the arm retreats.  Nothing is promised of the jaws then.
* `SpawnFails`: a part whose spawn failed reads as no reading, which counts as no
  sensor: the job goes through the motions without it and completes.
* `Moved`: after a correction of its height a body is put there and falls back to the
  table (or is pushed out of it), while the belief stays corrected: up to 4 mm apart with
  the message of recipes/ASTRA_Pranav_Perception_Correction.json.  And `_settle`, with
  nothing pending, returns at once, so that PICK_APPROACH may read the body still falling;
  gazebo_scene_adapter.py:213 has it settle first.  `SettledBeforeUse` excepts poses the
  job itself put the body at; `BodiesWhereBelieved` and `GraspsWhereItLies` say nothing of
  the height of such a part but that an unreported body is as high as believed or lies on
  the table.
* `OverdueMove`: a `set_pose` that failed or timed out is reported and forgotten
  (gazebo_scene_adapter.py:113-124).  If the simulator carries it out after all, and does so
  between the reading of a part and its grasp, the grasp is beside the part.
  `GraspsWhereItLies` excepts parts moved so.
* `GazeboPickRetreat`: a correction that lowers a part, and a PICK_APPROACH without a
  reading, let a part that was never lifted look risen.
* `AskDead`: the first `plan` after the service has died writes into a broken pipe
  and raises, where curobo_bridge.py:51-53 and 64-65 return a failure.
* `Drain`: after a late start the constructor reads stderr to its end, which comes
  only when the service exits, while the service waits for a request.
* `Warn`: nothing reads stderr after start-up; once its pipe is full the service
  blocks in it and the job in `readline`.
* `RaiseUnknownPart`: an acceptable message about a part of no recipe raises
  `KeyError` out of `run_job`.
* `JointById`: of two joints with one id (the loader does not refuse them) the
  first is approached twice and the second never.
* `Stop`: a pause leaves the arm where the failure left it; policy.py:49-53 speaks
  of a safe pose that no code commands.
* `FinishPick`: a gripper command that fails leaves scene and world model attached
  and the execution adapter not (pick.py:1-3 says all three agree); the physical
  check after the lift is what catches it, in `TransportsHeldPart`.
* `Avoided`: a part the gripper was ever exempted against is never again an
  obstacle to cuRobo, not even to the arm's links; for MoveIt it is.
* `WorldAfterRequest`: an empty obstacle list does not replace the service's world
  (curobo_plan_server.py:114), so a cell with nothing left to avoid is planned in the
  world of an earlier request.  With every zone work-holding and two parts, TLC finds
  `HandledIsNoObstacle` violated: the second part is handled as its own obstacle.
  Hence the hypothesis of `HandledPartsNotAvoided`; the recipes' cells satisfy it.

### Bounds, and why they are enough

* *Two parts and a joint.*  The properties relate a part to the one before and the
  one after it, and the step kinds repeat per part.  With two parts each property
  sees a part that waits, one that is handled and one that is placed; the proofs
  remove the bound for most of them.
* *Failures are not bounded*: a count of failures ends at its ladder's length.
* *Sensor* (`Seeing`): the source pose (a part that did not rise), a pose 100 mm
  higher (one that did), or none.
* *Obstacles*: the recipe's two, one work-holding, one exclusion zone in which the
  first part rests; variant B has the fixture beside the assembly pose instead of
  around it.
* *MaxCalls = 4, MaxNoise = 3, StderrRoom = 2*: an answer that is late, the call
  that gets it, one after, and a second late one; noise before, between and after
  an answer; a pipe that fills in two writes.  The properties compare a call with
  its neighbours, never more than the number of calls given up.
* *execution*: one part and a joint, so that open, close, release and every kind of
  motion occur; `MaxRequests = 2` goals waiting at a server, an old one and one of
  the call under way.  The proofs remove both bounds.
* *gazebo*: one part and a joint, every message of variant A, one
  that leaves the height alone (`Flat`), or none;
  `PlanReasons = {COLLISION}`, a reason with a ladder of several rungs (the others
  change no body); `TableTop` in the recipe's millimetres.  What a reading can mix up
  is one part's own poses: nominal, corrected, on the table, on the floor.
  `EndSleep` takes the 1.5 s of gazebo_scene_adapter.py:111 as enough for every body
  that has landed by then to rest: how long a fall takes is not modelled.
* `Cell` starts the arm at `HomePose`, clear of everything; each part lies exactly
  at its source pose or at one shifted pose.

### Fairness

`JobRunner`: weak fairness of the next step.  Each port call is synchronous and
`Termination` is claimed for ports that answer; it is the bridge runs that ask
when one does.  `CuRoboBridge`: weak fairness of the job's thread, of the
service's loop, and of time (`DeadlinePasses`).  A service that hangs, crashes,
prints or logs is never forced to, and the job is never forced to ask again or to
leave.

`RosExecution`: weak fairness of the job's process, its deadlines included (`_await`
polls a clock, ros_execution_adapter.py:26-34), and of MoveItPy's `execute`, which
watches the controllers itself and returns.  Nothing is assumed of the action servers,
the spawners or the launch: `JobEnds` starts from `JobStarted`.  `GazeboScene`: weak
fairness of the job's process, with every time limit it passes to `subprocess` and
`wait`, and of falling.  No command is assumed ever to return, no spawn ever to happen.

## 4. Proofs

Assumptions on the constants: `PartsAssumption`, `JointsAssumption`,
`ObstaclesAssumption` (what a loaded recipe is), `CorrectionsAssumption`,
`SensedAssumption`, `NoPoseAssumption`; for the cell `CellAssumption` (parts settle at
poses, the arm starts at one, no part has the name of empty jaws); for the adapter
`RosAssumption` (the arm starts at a pose; some goal fits a server's queue); for Gazebo
`GazeboAssumption` (the work surface is above the floor) and `UndersideAssumption` (every
part's nominal pose has its underside on the work surface, gazebo_scene_adapter.py:151-155,
as in the supplied recipes); for the bridge
`BridgeAssumption`.  No bound on parts, joints, obstacles, messages, poses or calls.

Five theorems need more, and say so:

* `RefinesPlanService`: `MayBeLate = FALSE`.  With deadlines missed it is false (run
  bridge_stale).
* `NoEmptyTransport`, `SceneTracksTransport`: `SensorMisses = FALSE`, the sensor answers
  whenever it is asked.  A missing reading counts as a success (job_runner.py:94-97), and
  then the jaws may be empty; what is true without it is `SceneTracksEveryGrasp`.
* `HandledPartsNotAvoided`: `SomeZoneAlwaysSent`, some obstacle is not work-holding, as
  the exclusion zone of both recipes is not.  Without it, see `WorldAfterRequest` above.
* `ClearRecipesPlannable`: `CarriedPosesClear`, a condition on the recipe that can be
  evaluated before a job: from nowhere a part may be believed to lie do its lift, its
  place approach and its assembly pose bring it nearer than the planning margin to an
  obstacle it is to avoid there.  TLC evaluates it in each cell run (`RecipesJudged` in
  `MCCell`): variant A satisfies it; variant B does not, and run variant_b shows what
  comes of that.

| theorem | states | argument |
|---|---|---|
| `LiftClearsZones` | the clearance height clears every zone that reaches above the base plane | maximum of a finite set of tops |
| `TypeCorrect` | `Spec => []TypeOK` | together with `ControlOK` |
| `EveryFailureClassified` | `[]FailuresClassifiable` | from `ControlOK` |
| `LaddersBoundRetries` | `[]RetryBudget` | each ladder's last rung and only it is terminal (`Ladders`) |
| `ControllerErrorStopsMotion` | `[]NoMotionAfterControllerError` | `ControllerErrorOK` |
| `CarriesOnePartAtATime`, `PlacedPartsStay` | `[]CarriedFromPickToPlace`, `[]PlacedStaysAssembled` | `CarryOK` |
| `SceneAndWorldAgree` | `[]SceneMirrorsWorld` | `SceneOK` |
| `ExemptionsInTransit` | `[]TransitExemptions` | `ExemptionsOK` on top of `CarryOK` |
| `RefinesAssemblyJob` | initial states and steps of `JobRunner` map to those of `AssemblyJob` | one case per action, with `Take` and `Put` at the end of PICK and PLACE |
| `RejectedMessageIgnored` | `[]RejectedCorrectionNeverUsed` | a rejected message is still at the gate in BUILD_WORLD, and the only way from there is the pause |
| `BeliefsStayNearNominal` | `[]BelievedNearNominal` | `NearOK`; `compose_correction` of an accepted message moves a pose by its translation |
| `AdapterImplementsPort` | `RosSpec => Init /\ [][Next \/ Done]_vars` | one case per step of the adapter: each is a step of `JobRunner` or leaves it alone |
| `NothingDoneWithoutArm` | `[]NoStepWithoutArm` | `ReadyOK` |
| `OneMotion` | `[]OneMotionAtATime` | `ArmOK` |
| `RefinesMotionPort` | `RosSpec => ImplementsMotionPort`, all of it (`MotionPort` has no fairness) | `AdapterOK`; one case per step |
| `CarriedInShutJaws` | `[]CarriesWithJawsClosed` | `HandOK` on top of `AdapterOK` |
| `HeldPartsKnown` | `CellSpec => []HeldIsKnown` | its own inductive step, next to `JobOK` and `BodiesOK` |
| `SceneTracksEveryGrasp` | `[]SceneTracksGrasp`: what is held and attached is where the scene has it | `GripOK` |
| `NoEmptyTransport`, `SceneTracksTransport` | `[]TransportsHeldPart`, `[]SceneTracksHeldPart`, with a sensor that answers | `SightOK` on top of `GripOK` |
| `ClearRecipesPlannable` | `[]CarriedPlansFeasible` for a recipe with `CarriedPosesClear` | `BeliefOK`, `GoalsOK`, `CourseOK`, with `ExemptionsOK` |
| `NoPartFallsUnreported` | `GazeboSpec => []TableBeforeParts` | `TableOK` |
| `UnreportedBodiesBelieved`, `SeenPartsGraspedWhereTheyLie` | `[]BodiesWhereBelieved`, `[]GraspsWhereItLies` | `WhereOK` for the spot, `LevelOK` and `HeightOK` for the height; they need every other part of `GazeboOK` |
| `NothingOvertaken` | `[]SettledBeforeUse` | `SettledOK`, `SpawnsOK` |
| `WaitingPartsAvoided`, `HandledPartsNotAvoided` | `CuRoboSpec => []WaitingPartsAndZonesAvoided`, `[]HandledIsNoObstacle` | `TouchOK` (what the scene exempts) and `SentOK` (the service's world is the last request's) |
| `RequestsAnsweredInOrder` | `[]InOrder` of `CuRoboBridge` | `BridgeOK` |
| `AnswersLagBehind` | `[]AnswersLag` of `CuRoboBridge` | `BridgeOK` |
| `RefinesPlanService` | with no missed deadline, initial states and steps of `CuRoboBridge` map to those of `PlanService` | `BridgeOK` and `PunctualOK`; one case per action |

None of the safety properties is inductive.  `ControlOK` says what `stage`, `fsm`
and the outcome of the current attempt can be together: a property about the
outcome of an attempt is lost as soon as one forgets that a running attempt has
none yet.  `CarryOK` adds where a part may be while its six steps last, including
the moments between a success and the step counter's advance (`JustSucceeded`),
which is where a property stated per step number would break.  `ExemptionsOK`
follows the exemptions of a part from its grasp to its release on that basis.

The adapter's proofs stand on those.  By `AdapterImplementsPort` the job it serves takes
only steps of `JobRunner`, so `TypeOK`, `ControlOK`, `CarryOK` and `ControllerErrorOK`
hold of it (`AttemptAlways`).  `CallOK` ties the call under way to the place in the job that
makes it, `TargetOK` and `QueuesOK` say what can be asked of a server, and `ArmOK` says
that a goal of the arm is either the one the job awaits or a leftover of a controller
error.  A leftover is harmless because of the recovery policy alone: after a controller
error the only rung is the pause, so no second goal is ever sent.  That is not so for the
hand, whose commands are repeated: a command to open that was given up can be waiting
when the jaws are told to close.  `HandOK` therefore argues from the order of the queue
(`ServedOK`): the command to close is behind it, and the PICK succeeds only once that one
has been taken up, when nothing sent before it is left.  `GraspOK` closes the other way to
a success, a part remembered from an earlier attempt: the adapter remembers a part only
when its PICK has succeeded.  From there to the release no call to the hand is made
(`HolderCalls`).

In the bridge, which answer a call gets follows from no local fact: `BridgeOK` describes
both pipes at once.  The requests not taken are the latest, in order (`RequestsOK`); the
answers on the pipe are, in order and among any noise, those from the oldest not yet read
to the last one given (`AnswersOK`); the announcement is there once, and read before any
call (`AnnouncedOnce`).  So the next answer is that of call `Oldest` (`OldestFirst`),
which each call given up sets back by one.  Without deadlines only a dead service gives a
call up (`PunctualOK`), and a dead service is asked nothing more, so `Oldest` is the call
under way.

`InOrder` is that description once more, as sets of calls: which calls are on each pipe
and in work, and which sets come before which.

The cell, Gazebo and cuRobo's world share `JobOK`, which `JobRunnerSafety` proves of any
job whose sensor may report any pose at all (`AnyNext`): a composition has only to show
that its job steps are such steps, whatever its bodies do to the readings.

In the cell, belief and body meet at the PICK.  `GripOK` says that the arm is at the
grasp pose of the *believed* part whenever it holds it, so that jaws and scene have
recorded the same pose relative to the gripper, and that a pose carried there and back is
the pose itself (`CarriedBack`); the two then cannot part company however the arm moves.
`SightOK` is the other half: from its sighting on, a part not in the jaws still lies where
it was believed, so a lift that is found to have risen was a lift.  Neither is about a
number of attempts: a PICK that is repeated after a slip is the same step again.  For the
plans, `CourseOK` follows the arm over retried attempts (it is at the lift's pose, or
above the assembly pose, or in it, and which of these depends on `Arrived`, not on the
step number alone), `GoalsOK` the target, `BeliefOK` where the part may be believed to
be; `ExemptionsOK` then leaves exactly the obstacles `CarriedPosesClear` speaks of.

`ReadyOK` is the same argument about start-up: the launch does not keep the job from
starting on an arm that cannot move, so what keeps the job from counting a motion is that
without an active controller no call of the adapter ends in a success.

In Gazebo the difficulty is what may still happen.  `SpawnsOK` bounds it: a spawn in
flight is waited for or was given up, and what was given up is reported; `OverdueOK` says
the same of moves.  `WaitingOK` says that nothing is moved or read while anything is waited
for; so an unreported body first lands where it was put (`TableOK`), and every later move
takes belief and body along (`WhereOK`).  A part that was seen stays at the spot where it
was seen even if its spawn was reported, since no spawn of a body that exists is still in
flight (`TakenOK`).  The height needs more, since a fall changes it: with the table there
in time (`table = "there"`) and no message about the height, every pose a part is put,
seen, believed or overdue at has its underside on the table (`LevelOK`), so a fall changes
nothing; with such a message an unreported body is as high as the job put it or lies on
the table (`HeightOK`).

The invariants were model-checked before they were proved.

Every invariant of the passing runs is a theorem, about the same specification the run
checks.  Only model-checked, since liveness under
fairness is out of the prover's reach: `Termination`, `PlanCallsReturn`, `ServiceEnds`,
both `JobEnds`, and the fairness part of `ImplementsAssemblyJob` and
`ImplementsPlanService` (their initial states and steps are proved).  That variant A
satisfies `CarriedPosesClear` is evaluated by TLC, not proved.

## 5. What is not modelled

* OMPL, cuRobo, the controllers, the action servers and the simulator themselves: any
  answer, at any time or never.
* A composition of `RosExecution` or `GazeboScene` with `Cell`: the state space of
  each alone is near what can be checked; what they share, `JobRunner`, is common.
* In `GazeboScene`, a body after its grasp, and the static bodies of the obstacles.  A
  command-line call that returns 0 is taken to have had its effect, and one that had none
  for a body that exists to return something else (`gz service` with its own timeout of
  3 s among them).  How a body that was put into the table is pushed out of it is the
  simulator's matter: it ends up on top.
* Approach vectors that are not along an axis: `Direction` is the code's normalisation only
  along one (all supplied recipes have (0, 0, -1)).
* `_box_sdf` (a text), the parameters the launch files pass on.
* Rotations other than quarter turns about z, and with them the difference between
  the gate's per-axis rotation bound and a rotation-vector bound, and between the
  intrinsic and extrinsic reading of rpy; floating-point rounding; NaN.
* JSON schemas and parsing, TF and message conversions, the restamper of joint states,
  the log, the command line: no state, or input handling the unit tests cover.  Of robot
  profiles and launch files, what the job's start and its choice of adapters depend on
  is modelled, the rest are fixed tables.
* `disallow_arm_collision`, `check_ik`, `stop`, `CuRoboBridge.shutdown`: no caller.
* In `Cell`, `update_pose` moves no body: that is the real cell.  Gazebo's teleport on
  `update_pose` is in `GazeboScene`.

## 6. What each component should guarantee, and the plan

| component | guarantee | where |
|---|---|---|
| orchestrator | one part at a time, in order; retries within their ladders; nothing after a controller error; every job ends | job, promise; proved but for termination |
| world model and scene | agree on poses and attachments at all times | job; proved |
| exemptions | exactly those of the recorded pose in transit; those of the true pose (violated) | job, zones, variant_b; the first proved |
| perception | a rejected message changes nothing; an accepted one stays in its bound | job; proved |
| execution adapter | one motion at a time, success only on arrival, nothing commanded after an error, parts carried in jaws told to close, no wait without end | execution; proved but for the last, which is liveness |
| start-up | a job that is ahead of the controller it commands does no step (that it is never ahead of it would be false) | execution; proved |
| Gazebo adapter | no part falls past the table, bodies are where world model and scene have them (in height too, but for parts whose height a message changed), nothing in flight is read or moved, no command blocks the job; each unless the adapter has reported the failure.  A grasp is where the body lies unless an overdue move follows the reading | gazebo; proved but for the last, which is liveness |
| cell | what is transported is held, seen where it is, and never has to be planned from or to the inside of an enforced zone (violated in variant B) | cell, variant_b; the first two proved for a sensor that answers, the third for every recipe that meets `CarriedPosesClear` |
| cuRobo bridge | each call gets its own answer or a failure, in bounded time (violated outside the assumptions of bridge_service) | bridge, bridge_service, bridge_stale; the order, the lag and the refinement proved |
| cuRobo world | what waits is avoided, what is handled is not | curobo_world; proved, the second where some zone is always sent |

Done: the modules and proofs above.  What is left, in this order:

1. The safety half of `Termination`: a measure (steps left, rungs left on the ladders of
   the current step, place in its stages) that every step of `JobRunner` decreases, so
   that only the fairness of its next step is left to TLC.
2. `InOrder` and `AnswersLag` are about one process; a bridge composed with
   `CuRoboWorld` would say in which world a late answer was planned.
3. The hazards without a property (a correction for another recipe, joints with one id,
   0.0 as a sentinel height, a late start or a dead service, a pause with a part in
   hand, a part that was never spawned): each needs a promise the code does not make.
