------------------------------- MODULE JobRunner ------------------------------
(***************************************************************************)
(* The orchestrator: run_job and the step dispatch of job_runner.py, with  *)
(* the skills they call (skills/), over the world model and the planning   *)
(* scene.  The planner, the controller, the gripper and the sensor are the *)
(* environment: each answers in any way its port allows.                   *)
(***************************************************************************)
EXTENDS WorldModel, PlanningScene, Perception, RecoveryPolicy

CONSTANTS
    Sensed          \* part id -> poses observe_pose may report for it

ASSUME SensedAssumption == Sensed \in [PartIds -> SUBSET Pose]

(* observe_pose answers with a pose or, when it cannot sense, with none.    *)
Sightings(p) == Sensed[p] \cup {NoPose}

LiftEpsilon == 2    \* GRASP_LIFT_EPSILON_M

VARIABLES
    fsm,            \* the FSM state last entered
    stage,          \* how far the dispatch of the current step has come
    step,           \* step_index
    failures,       \* failures of the CURRENT step, per failure class
    action,         \* the recovery action last chosen
    outcome,        \* SkillOutcome of the current attempt
    target,         \* the pose handed to the planner
    status,         \* JobStatus, "none" while running, "raised" on an exception
    correction,     \* the perception message of this job, if any
    execAttached    \* the execution adapter's attached ids

jobVars == <<fsm, stage, step, failures, action, outcome, target, status, correction>>
vars == <<jobVars, worldVars, sceneVars, execAttached>>

State == {"LOAD_JOB", "VALIDATE", "BUILD_WORLD", "PLAN_SKILL", "EXECUTE_SKILL",
          "VERIFY", "NEXT_STEP", "COMPLETE", "REPLAN_RETRY", "RECOVERY", "ABORT"}
JobStatus == {"complete", "aborted", "operator_paused"}

(* "dispatch": the step is about to be dispatched; "plan" and "execute":    *)
(* plan_and_execute awaits the planner or the controller; "finish": the     *)
(* motion succeeded and the step's own bookkeeping follows; "gate": the     *)
(* perception message is about to be evaluated; "idle": none of these.      *)
Stage == {"idle", "gate", "dispatch", "plan", "execute", "finish"}

NoAction == "no action"
Untried == [plan |-> "none", exec |-> "none", verified |-> "none"]
Outcome == [plan : PlanFailure \cup {"none", "ok"},
            exec : ExecutionStatus \cup {"none"},
            verified : {"none", "yes", "no"}]
NoFailures == [c \in FailureClass |-> 0]

Running == status = "none"

SucceededUnverified(o) == o.plan = "ok" /\ o.exec = "SUCCESS"
(* SkillOutcome.success: planned, executed, and not found to hold nothing.  *)
Succeeded(o) == o.plan = "ok" /\ o.exec = "SUCCESS" /\ o.verified # "no"
Failed(o) == ~ Succeeded(o)

(* _classify, in the order the code asks. *)
Classifiable(o) ==
    \/ o.plan \in DOMAIN PlannerMap
    \/ o.exec \in DOMAIN ExecutionMap
    \/ o.verified = "no"
ClassOf(o) ==
    IF o.plan \in DOMAIN PlannerMap THEN PlannerMap[o.plan]
    ELSE IF o.exec \in DOMAIN ExecutionMap THEN ExecutionMap[o.exec]
    ELSE "PICK_VERIFY_FAILED"

(* JobContext.record_failure. *)
NeverCounted(counts, class) == counts
Counted(counts, class) == [counts EXCEPT ![class] = @ + 1]

Init ==
    /\ WorldInit
    /\ SceneInit
    /\ fsm = "LOAD_JOB"
    /\ stage = "idle"
    /\ step = 0
    /\ failures = NoFailures
    /\ action = NoAction
    /\ outcome = Untried
    /\ target = NoPose
    /\ status = "none"
    /\ correction \in Corrections \cup {NoCorrection}
    /\ execAttached = {}

-------------------------------------------------------------------------------
(* Before the first step.                                                   *)

Validate ==
    /\ fsm = "LOAD_JOB"
    /\ fsm' = "VALIDATE"
    /\ UNCHANGED <<stage, step, failures, action, outcome, target, status, correction>>
    /\ UNCHANGED <<worldVars, sceneVars, execAttached>>

BuildWorld ==
    /\ fsm = "VALIDATE"
    /\ SceneBuilt([p \in PartIds |-> PoseOf(p)])
    /\ fsm' = "BUILD_WORLD"
    /\ stage' = IF correction = NoCorrection THEN "idle" ELSE "gate"
    /\ UNCHANGED <<step, failures, action, outcome, target, status, correction>>
    /\ UNCHANGED <<worldVars, execAttached>>

(* apply_perception_correction, the message accepted. *)
AcceptCorrection ==
    /\ stage = "gate"
    /\ Accepted(correction)
    /\ correction.part \in PartIds
    /\ LET corrected == CorrectedPose(Part[correction.part].source, correction)
       IN  /\ Observe(correction.part, corrected)
           /\ PoseUpdated(correction.part, corrected)
    /\ stage' = "idle"
    /\ UNCHANGED <<fsm, step, failures, action, outcome, target, status, correction>>
    /\ UNCHANGED <<attached, sceneAttached, allowed, gripperExempt, armExempt, execAttached>>

(* An accepted message that names no part of the recipe: Recipe.part raises. *)
RaiseUnknownPart ==
    /\ stage = "gate"
    /\ Accepted(correction)
    /\ correction.part \notin PartIds
    /\ status' = "raised"
    /\ stage' = "idle"
    /\ UNCHANGED <<fsm, step, failures, action, outcome, target, correction>>
    /\ UNCHANGED <<worldVars, sceneVars, execAttached>>

(* The message rejected.  The first rung of its ladder, RE_OBSERVE, is not   *)
(* terminal, and is escalated to a pause: there is no second message.        *)
RejectCorrection ==
    /\ stage = "gate"
    /\ ~ Accepted(correction)
    /\ action' = NextAction("PERCEPTION_REJECTED", 0)
    /\ failures' = Counted(failures, "PERCEPTION_REJECTED")
    /\ fsm' = IF action' = "ABORT" THEN "ABORT" ELSE "RECOVERY"
    /\ status' = IF action' = "ABORT" THEN "aborted" ELSE "operator_paused"
    /\ stage' = "idle"
    /\ UNCHANGED <<step, outcome, target, correction>>
    /\ UNCHANGED <<worldVars, sceneVars, execAttached>>

-------------------------------------------------------------------------------
(* The loop of run_job.                                                     *)

AtLoopHead ==
    /\ Running
    /\ stage = "idle"
    /\ fsm \in {"BUILD_WORLD", "NEXT_STEP", "REPLAN_RETRY"}

StartStep ==
    /\ AtLoopHead
    /\ step < StepCount
    /\ fsm' = "PLAN_SKILL"
    /\ stage' = "dispatch"
    /\ outcome' = Untried
    /\ UNCHANGED <<step, failures, action, target, status, correction>>
    /\ UNCHANGED <<worldVars, sceneVars, execAttached>>

CompleteJob ==
    /\ AtLoopHead
    /\ step = StepCount
    /\ fsm' = "COMPLETE"
    /\ status' = "complete"
    /\ UNCHANGED <<stage, step, failures, action, outcome, target, correction>>
    /\ UNCHANGED <<worldVars, sceneVars, execAttached>>

(* plan_to_pose is called with this pose. *)
PlanTo(pose) ==
    /\ target' = pose
    /\ stage' = "plan"
    /\ UNCHANGED <<fsm, step, failures, action, outcome, status, correction>>

(* The same for a pose backed off from another, which a zero approach vector *)
(* turns into a ValueError.                                                  *)
PlanToStandOff(pose, vec, dist) ==
    IF HasDirection(vec)
    THEN PlanTo(StandOff(pose, vec, dist))
    ELSE /\ status' = "raised"
         /\ stage' = "idle"
         /\ UNCHANGED <<fsm, step, failures, action, outcome, target, correction>>

Dispatching(n) == stage = "dispatch" /\ step = n

(* PICK_APPROACH: look again, then approach whatever pose is believed.      *)
BeginPickApproach(i, sighting) ==
    LET p == PartAt(i)
        believed == IF sighting = NoPose THEN PoseOf(p) ELSE sighting
    IN  /\ Dispatching(PickApproachAt(i))
        /\ IF sighting = NoPose
           THEN UNCHANGED <<observed, scenePose>>
           ELSE Observe(p, sighting) /\ PoseUpdated(p, sighting)
        /\ GripperAllowed(p)
        /\ PlanToStandOff(GraspPose(believed, GraspOf(p).offset),
                          GraspOf(p).vec, GraspOf(p).dist)
        /\ UNCHANGED <<attached, sceneAttached, allowed, armExempt, execAttached>>

(* PICK: the gripper opens and the part is exempted from every obstacle.    *)
BeginPick(i) ==
    LET p == PartAt(i)
    IN  /\ Dispatching(PickAt(i))
        /\ GraspAllowed(p)
        /\ PlanTo(GraspPose(PoseOf(p), GraspOf(p).offset))
        /\ UNCHANGED <<scenePose, sceneAttached, armExempt, worldVars, execAttached>>

(* PICK_RETREAT: rise by the standoff, or higher to clear the zones.        *)
LiftDistance(i) ==
    Larger(GraspOf(PartAt(i)).dist, ClearanceHeight(PartAt(i), PoseOf(PartAt(i))))

BeginPickRetreat(i) ==
    LET p == PartAt(i)
    IN  /\ Dispatching(PickRetreatAt(i))
        /\ PlanToStandOff(GraspPose(PoseOf(p), GraspOf(p).offset),
                          GraspOf(p).vec, LiftDistance(i))
        /\ UNCHANGED <<worldVars, sceneVars, execAttached>>

(* _enforce_clear_obstacles, on the pose the world model has for the part.  *)
EnforceableAnyway(p) == ObstacleIds \ WorkHolding
Enforceable(p) == ObstacleIds \ (WorkHolding \cup Overlapping(p, PoseOf(p)))
EnforceClearObstacles(p) == allowed' = Disallowing(allowed, p, Enforceable(p))

BeginPlaceApproach(i) ==
    LET p == PartAt(i)
    IN  /\ Dispatching(PlaceApproachAt(i))
        /\ EnforceClearObstacles(p)
        /\ PlanToStandOff(Part[p].assembly, GraspOf(p).vec, GraspOf(p).dist)
        /\ UNCHANGED <<scenePose, sceneAttached, gripperExempt, armExempt>>
        /\ UNCHANGED <<worldVars, execAttached>>

BeginPlace(i) ==
    /\ Dispatching(PlaceAt(i))
    /\ PlanTo(Part[PartAt(i)].assembly)
    /\ UNCHANGED <<worldVars, sceneVars, execAttached>>

BeginPlaceRetreat(i) ==
    LET p == PartAt(i)
    IN  /\ Dispatching(PlaceRetreatAt(i))
        /\ PlanToStandOff(Part[p].assembly, GraspOf(p).vec, GraspOf(p).dist)
        /\ UNCHANGED <<worldVars, sceneVars, execAttached>>

(* JOINT_APPROACH: the step holds an id, and the joint is looked up by it.  *)
BeginJointApproach(j) ==
    LET joint == JointById(Joints[j].id)
    IN  /\ Dispatching(JointApproachAt(j))
        /\ PlanToStandOff(joint.pose, joint.vec, joint.dist)
        /\ UNCHANGED <<worldVars, sceneVars, execAttached>>

-------------------------------------------------------------------------------
(* plan_and_execute.                                                        *)

(* _dispatch returns: the attempt has an outcome. *)
Return(result) ==
    /\ outcome' = result
    /\ fsm' = "EXECUTE_SKILL"
    /\ stage' = "idle"
    /\ UNCHANGED <<step, failures, action, target, status, correction>>

PlanFails(reason) ==
    /\ stage = "plan"
    /\ Return([outcome EXCEPT !.plan = reason])
    /\ UNCHANGED <<worldVars, sceneVars, execAttached>>

PlanSucceeds ==
    /\ stage = "plan"
    /\ outcome' = [outcome EXCEPT !.plan = "ok"]
    /\ stage' = "execute"
    /\ UNCHANGED <<fsm, step, failures, action, target, status, correction>>
    /\ UNCHANGED <<worldVars, sceneVars, execAttached>>

ExecutionFails(error) ==
    /\ stage = "execute"
    /\ Return([outcome EXCEPT !.exec = error])
    /\ UNCHANGED <<worldVars, sceneVars, execAttached>>

ExecutionSucceeds ==
    /\ stage = "execute"
    /\ outcome' = [outcome EXCEPT !.exec = "SUCCESS"]
    /\ stage' = "finish"
    /\ UNCHANGED <<fsm, step, failures, action, target, status, correction>>
    /\ UNCHANGED <<worldVars, sceneVars, execAttached>>

-------------------------------------------------------------------------------
(* What each kind of step does once its motion succeeded.                   *)

Finishing(n) == stage = "finish" /\ step = n

(* PICK: attach everywhere, then ask the execution adapter whether it holds. *)
(* The gripper command may fail (closed = FALSE), which attach does not      *)
(* report; a backend never confirms a part it has not attached itself.       *)
FinishPick(i, closed, verified) ==
    LET p == PartAt(i)
    IN  /\ Finishing(PickAt(i))
        /\ Grasped(p)
        /\ execAttached' = IF closed THEN execAttached \cup {p} ELSE execAttached
        /\ verified => p \in execAttached'
        /\ WorldAttach(p)
        /\ Return([outcome EXCEPT !.verified = IF verified THEN "yes" ELSE "no"])

(* PICK_RETREAT: a part that is seen and has not risen is not held.         *)
Held(p, sighting) ==
    sighting # NoPose => sighting.xyz.z - PoseOf(p).xyz.z > LiftEpsilon

FinishPickRetreat(i, sighting) ==
    LET p == PartAt(i)
    IN  /\ Finishing(PickRetreatAt(i))
        /\ IF Held(p, sighting)
           THEN EnforceClearObstacles(p) /\ Return(outcome)
           ELSE UNCHANGED allowed /\ Return([outcome EXCEPT !.verified = "no"])
        /\ UNCHANGED <<scenePose, sceneAttached, gripperExempt, armExempt>>
        /\ UNCHANGED <<worldVars, execAttached>>

(* PLACE: detach everywhere, at the assembly pose.                          *)
FinishPlace(i) ==
    LET p == PartAt(i)
    IN  /\ Finishing(PlaceAt(i))
        /\ Released(p, Part[p].assembly)
        /\ execAttached' = execAttached \ {p}
        /\ WorldDetach(p, Part[p].assembly)
        /\ Return(outcome)

(* The other kinds add nothing to the motion.                               *)
FinishMove ==
    /\ stage = "finish"
    /\ \A i \in PartIndex : step \notin {PickAt(i), PickRetreatAt(i), PlaceAt(i)}
    /\ Return(outcome)
    /\ UNCHANGED <<worldVars, sceneVars, execAttached>>

-------------------------------------------------------------------------------
(* The verdict on an attempt, and the recovery from a failed one.           *)

Judged == fsm = "EXECUTE_SKILL"

Verify ==
    /\ Judged
    /\ Succeeded(outcome)
    /\ fsm' = "VERIFY"
    /\ UNCHANGED <<stage, step, failures, action, outcome, target, status, correction>>
    /\ UNCHANGED <<worldVars, sceneVars, execAttached>>

(* The counts are keyed by step: those of the step left behind are dead.    *)
NextStep ==
    /\ fsm = "VERIFY"
    /\ fsm' = "NEXT_STEP"
    /\ step' = step + 1
    /\ failures' = NoFailures
    /\ UNCHANGED <<stage, action, outcome, target, status, correction>>
    /\ UNCHANGED <<worldVars, sceneVars, execAttached>>

Recover ==
    /\ Judged
    /\ Failed(outcome)
    /\ LET class == ClassOf(outcome)
       IN  /\ action' = NextAction(class, failures[class])
           /\ failures' = Counted(failures, class)
    /\ fsm' = "RECOVERY"
    /\ UNCHANGED <<stage, step, outcome, target, status, correction>>
    /\ UNCHANGED <<worldVars, sceneVars, execAttached>>

(* Every other action means: attempt this step again. *)
Retry ==
    /\ fsm = "RECOVERY"
    /\ Running
    /\ ~ IsTerminal(action)
    /\ fsm' = "REPLAN_RETRY"
    /\ UNCHANGED <<stage, step, failures, action, outcome, target, status, correction>>
    /\ UNCHANGED <<worldVars, sceneVars, execAttached>>

Stop ==
    /\ fsm = "RECOVERY"
    /\ Running
    /\ IsTerminal(action)
    /\ status' = IF action = "ABORT" THEN "aborted" ELSE "operator_paused"
    /\ fsm' = IF action = "ABORT" THEN "ABORT" ELSE "RECOVERY"
    /\ UNCHANGED <<stage, step, failures, action, outcome, target, correction>>
    /\ UNCHANGED <<worldVars, sceneVars, execAttached>>

-------------------------------------------------------------------------------
Prepare == Validate \/ BuildWorld \/ AcceptCorrection \/ RaiseUnknownPart \/ RejectCorrection

Begin ==
    \/ \E i \in PartIndex :
          \/ \E sighting \in Sightings(PartAt(i)) : BeginPickApproach(i, sighting)
          \/ BeginPick(i)
          \/ BeginPickRetreat(i)
          \/ BeginPlaceApproach(i)
          \/ BeginPlace(i)
          \/ BeginPlaceRetreat(i)
    \/ \E j \in JointIndex : BeginJointApproach(j)

Move ==
    \/ \E reason \in PlanFailure : PlanFails(reason)
    \/ PlanSucceeds
    \/ \E error \in ExecutionStatus \ {"SUCCESS"} : ExecutionFails(error)
    \/ ExecutionSucceeds

Finish ==
    \/ \E i \in PartIndex :
          \/ \E closed, verified \in BOOLEAN : FinishPick(i, closed, verified)
          \/ \E sighting \in Sightings(PartAt(i)) : FinishPickRetreat(i, sighting)
          \/ FinishPlace(i)
    \/ FinishMove

Judge == Verify \/ NextStep \/ Recover \/ Retry \/ Stop

Next == Prepare \/ StartStep \/ CompleteJob \/ Begin \/ Move \/ Finish \/ Judge

(* run_job returned or raised. *)
Done == ~ Running /\ UNCHANGED vars

Spec == Init /\ [][Next \/ Done]_vars /\ WF_vars(Next)
-------------------------------------------------------------------------------
(* The properties.                                                          *)

PoseOrNone == Pose \cup {NoPose}

(* Every variable of the orchestrator, the world model and the planning     *)
(* scene stays within the values the code gives it.                         *)
TypeOK ==
    /\ fsm \in State
    /\ stage \in Stage
    /\ step \in 0 .. StepCount
    /\ failures \in [FailureClass -> Nat]
    /\ action \in RecoveryAction \cup {NoAction}
    /\ outcome \in Outcome
    /\ target \in PoseOrNone
    /\ status \in JobStatus \cup {"none", "raised"}
    /\ correction \in Corrections \cup {NoCorrection}
    /\ observed \in [PartIds -> PoseOrNone]
    /\ attached \in [PartIds -> BOOLEAN]
    /\ scenePose \in [PartIds -> PoseOrNone]
    /\ sceneAttached \subseteq PartIds
    /\ allowed \subseteq PartIds \X ObstacleIds
    /\ gripperExempt \subseteq PartIds
    /\ armExempt \subseteq ObstacleIds
    /\ execAttached \subseteq PartIds

(* Across retries, failures and re-observations, the world model has a part *)
(* on the gripper only between its own PICK and its own PLACE, and has it   *)
(* there throughout the steps between the two: no second part is ever       *)
(* picked with the first still held, and none is carried that was not.      *)
CarriedFromPickToPlace ==
    \A i \in PartIndex :
        /\ attached[PartAt(i)] => step \in PickAt(i) .. PlaceAt(i)
        /\ step \in {PickRetreatAt(i), PlaceApproachAt(i)} => attached[PartAt(i)]
        /\ step = PlaceAt(i) /\ ~ attached[PartAt(i)] => Succeeded(outcome)

(* world_model.py:2-3, the adapter mirrors the world model: once the world  *)
(* is built, whatever corrections, observations, grasps and releases follow,*)
(* planner and world model agree on where each part is and which is carried.*)
SceneMirrorsWorld ==
    fsm \notin {"LOAD_JOB", "VALIDATE"} =>
        \A p \in PartIds :
            /\ scenePose[p] = PoseOf(p)
            /\ p \in sceneAttached <=> attached[p]

(* A part whose PLACE has been passed is, for the rest of the job, recorded *)
(* at its assembly pose and held by nothing: no later step disturbs it.     *)
PlacedStaysAssembled ==
    \A i \in PartIndex :
        step > PlaceAt(i) =>
            /\ PoseOf(PartAt(i)) = Part[PartAt(i)].assembly
            /\ ~ attached[PartAt(i)]
            /\ PartAt(i) \notin execAttached

(* job_runner.py:109-112, 136-151: from a successful lift until it is       *)
(* placed, a carried part is exempt from exactly the work-holding obstacles *)
(* and those its recorded pose lies in, however often a step is retried.    *)
TransitExemptions ==
    \A i \in PartIndex :
        LET p == PartAt(i)
        IN  step \in {PlaceApproachAt(i), PlaceAt(i)} /\ attached[p] =>
                {o \in ObstacleIds : <<p, o>> \in allowed} = ObstacleIds \ Enforceable(p)

(* policy.py:28-30: in one step a class of failure is answered by at most   *)
(* the rungs of its ladder.  The failure that takes the last rung is the    *)
(* last thing that happens: no attempt is ever made beyond it.              *)
RetryBudget ==
    \A c \in FailureClass :
        \/ failures[c] < Len(POLICY[c])
        \/ /\ failures[c] = Len(POLICY[c])
           /\ fsm \in {"RECOVERY", "ABORT"}
           /\ IsTerminal(action)

(* policy.py:49-53, "No auto-retry": after a controller error or a          *)
(* protective stop nothing is planned or executed again, in this step or    *)
(* any other, whatever failed before it.                                    *)
NoMotionAfterControllerError ==
    outcome.exec \in {"CONTROLLER_ERROR", "PROTECTIVE_STOP"} =>
        /\ stage = "idle"
        /\ fsm \in {"EXECUTE_SKILL", "RECOVERY"}
        /\ status \in {"none", "operator_paused"}

(* job_runner.py:161: the assertion is never reached, every attempt that is *)
(* not a success carries a failure the recovery policy has a ladder for.    *)
FailuresClassifiable ==
    fsm = "EXECUTE_SKILL" /\ Failed(outcome) =>
        Classifiable(outcome) /\ ClassOf(outcome) \in FailureClass

(* gate.py:1-3: a message the gate must reject is never partially applied   *)
(* and never lets a step start.                                             *)
RejectedCorrectionNeverUsed ==
    /\ correction # NoCorrection
    /\ LowConfidence(correction) \/ TranslationOutOfBounds(correction)
                                 \/ RotationOutOfBounds(correction)
    => /\ fsm \in {"LOAD_JOB", "VALIDATE", "BUILD_WORLD", "RECOVERY"}
       /\ stage \in {"idle", "gate"}
       /\ \A p \in PartIds : observed[p] = NoPose /\ ~ attached[p]

(* transforms.py:1-4: until a part's own PICK_APPROACH looks at it, it is   *)
(* believed within the recipe's translation bound of its nominal pose.      *)
BelievedNearNominal ==
    \A i \in PartIndex :
        fsm = "BUILD_WORLD" \/ step < PickApproachAt(i) =>
            NormSquared(Minus(PoseOf(PartAt(i)).xyz, Part[PartAt(i)].source.xyz))
                <= Square(Constraints.translation)

(* No two actors wait for each other and no ladder repeats: every job ends, *)
(* provided the ports answer every call and the process keeps running.      *)
Termination == <>(status # "none")

(* The job implements the abstract promise AssemblyJob: a part is in the    *)
(* gripper while the world model says so, and assembled from its PLACE on.  *)
LocationOf(i) ==
    IF attached[PartAt(i)] THEN "gripper"
    ELSE IF step >= PlaceAt(i) THEN "assembly" ELSE "source"

Abstract == INSTANCE AssemblyJob WITH
    Order <- PartOrder,
    location <- [p \in PartIds |-> LocationOf(CHOOSE i \in PartIndex : PartAt(i) = p)],
    result <- status

(* run_job over build_steps: one part at a time, in recipe order, never back, *)
(* complete only with every part assembled, and always a result in the end. *)
ImplementsAssemblyJob == Abstract!Spec

-------------------------------------------------------------------------------
(* The inductive invariant behind the theorems of JobRunnerProofs.          *)

(* How far the attempt has come, and what its outcome holds by then.        *)
ControlOK ==
    /\ stage = "gate" => fsm = "BUILD_WORLD" /\ correction \in Corrections
    /\ stage \in {"dispatch", "plan", "execute", "finish"} => fsm = "PLAN_SKILL"
    /\ stage # "idle" => Running
    /\ stage \in {"dispatch", "plan"} => outcome = Untried
    /\ stage = "execute" => outcome = [Untried EXCEPT !.plan = "ok"]
    /\ stage = "finish" => outcome = [Untried EXCEPT !.plan = "ok", !.exec = "SUCCESS"]
    /\ fsm \in {"LOAD_JOB", "VALIDATE", "BUILD_WORLD"} =>
           step = 0 /\ failures = NoFailures /\ outcome = Untried
    /\ fsm \in {"LOAD_JOB", "VALIDATE", "EXECUTE_SKILL", "VERIFY", "NEXT_STEP", "REPLAN_RETRY"} =>
           Running
    /\ fsm \in {"PLAN_SKILL", "EXECUTE_SKILL", "VERIFY"} => step < StepCount
    /\ fsm = "EXECUTE_SKILL" /\ Failed(outcome) => Classifiable(outcome)
    /\ fsm = "VERIFY" => Succeeded(outcome)

(* A controller error leads to the pause and nowhere else. *)
ControllerErrorOK ==
    outcome.exec \in {"CONTROLLER_ERROR", "PROTECTIVE_STOP"} =>
        /\ stage = "idle"
        /\ outcome.plan = "ok"
        /\ fsm \in {"EXECUTE_SKILL", "RECOVERY"}
        /\ fsm = "RECOVERY" => action = "OPERATOR_PAUSE"
        /\ status \in {"none", "operator_paused"}

(* The current attempt is judged to have succeeded. *)
JustSucceeded == fsm \in {"EXECUTE_SKILL", "VERIFY"} /\ Succeeded(outcome)

(* Where a part is while its own six steps last. *)
CarryOK ==
    \A i \in PartIndex :
        LET p == PartAt(i)
        IN  /\ attached[p] \/ p \in execAttached => step \in PickAt(i) .. PlaceAt(i)
            /\ step = PickAt(i) /\ JustSucceeded => attached[p]
            /\ step \in {PickRetreatAt(i), PlaceApproachAt(i)} => attached[p]
            /\ step = PlaceAt(i) /\ ~ attached[p] => JustSucceeded /\ p \notin execAttached
            /\ step = PlaceAt(i) /\ JustSucceeded => ~ attached[p]
            /\ step >= PlaceAt(i) /\ ~ attached[p] => observed[p] = Part[p].assembly

(* The scene mirrors the world model, or is still empty. *)
SceneOK ==
    /\ fsm \in {"LOAD_JOB", "VALIDATE"} =>
           sceneAttached = {} /\ \A p \in PartIds : ~ attached[p]
    /\ SceneMirrorsWorld

(* Which exemptions a carried part has, from its grasp to its release.      *)
ExemptionOf(p) == {o \in ObstacleIds : <<p, o>> \in allowed}
ExemptionsOK ==
    \A i \in PartIndex :
        LET p == PartAt(i)
        IN  /\ step = PickAt(i) /\ JustSucceeded => ExemptionOf(p) = ObstacleIds
            /\ step = PickRetreatAt(i) /\ ~ JustSucceeded => ExemptionOf(p) = ObstacleIds
            /\ step = PickRetreatAt(i) /\ JustSucceeded =>
                   ExemptionOf(p) = ObstacleIds \ Enforceable(p)
            /\ step \in {PlaceApproachAt(i), PlaceAt(i)} /\ attached[p] =>
                   ExemptionOf(p) = ObstacleIds \ Enforceable(p)
===============================================================================
