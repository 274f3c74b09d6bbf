--------------------------- MODULE GazeboSceneProofs ---------------------------
(***************************************************************************)
(* Proofs about GazeboScene: where the bodies of the parts lie, for every  *)
(* recipe and message, whatever spawns and moves fail, hang or happen late.*)
(***************************************************************************)
EXTENDS GazeboScene, JobRunnerSafety

-------------------------------------------------------------------------------
(* The invariants.                                                          *)

(* Nothing has been spawned; nothing has been asked of the simulator.       *)
Unbuilt == fsm \in {"LOAD_JOB", "VALIDATE"}
Early == Unbuilt \/ stage = "gate"

(* The part's own PICK has come to its end. *)
Grabbed(i) == attached[PartAt(i)] \/ step >= PlaceAt(i)

BodyTypeOK ==
    /\ table \in {"none", "spawning", "there", "missing", "late", "tardy"}
    /\ flight \subseteq PartIds
    /\ pending \subseteq PartIds
    /\ body \in [PartIds -> {"absent", "falling", "resting", "taken"}]
    /\ bodyPose \in [PartIds -> PoseOrNone]
    /\ settling \in {"out", "wait", "sleep", "done"}
    /\ givenUp \subseteq PartIds
    /\ overdue \in [PartIds -> SUBSET Pose]
    /\ unsure \subseteq PartIds
    /\ seen \subseteq PartIds

(* Every spawn in flight is one somebody waits for, or one given up.        *)
SpawnsOK ==
    /\ Unbuilt => flight = {} /\ pending = {} /\ settling = "out"
    /\ table \in {"none", "spawning"} => Unbuilt
    /\ settling \in {"sleep", "done"} => pending = {}
    /\ givenUp \subseteq unsure
    /\ flight \subseteq pending \cup givenUp

(* While somebody waits, no pose has been set, read or passed on.           *)
WaitingOK ==
    \A i \in PartIndex :
        /\ Early => PartAt(i) \notin seen
        /\ Early \/ pending # {} => observed[PartAt(i)] = NoPose
        /\ pending # {} => ~ Approached(i)

(* Who is taken has been grasped; who has been grasped is taken, absent, or *)
(* spawned after it was given up.                                           *)
TakenOK ==
    \A i \in PartIndex :
        LET p == PartAt(i)
        IN  /\ Unbuilt \/ p \in flight => body[p] = "absent"
            /\ body[p] # "absent" => bodyPose[p] \in Pose
            /\ body[p] = "taken" => Grabbed(i)
            /\ Grabbed(i) => body[p] \in {"taken", "absent"} \/ p \in givenUp

(* Without the table every part is reported; what rests unreported rests on *)
(* the table.                                                               *)
TableOK ==
    \A i \in PartIndex :
        LET p == PartAt(i)
        IN  /\ table \in {"missing", "late", "tardy"} /\ body[p] # "taken" => p \in unsure
            /\ body[p] = "resting" =>
                   p \in unsure \/ bodyPose[p].xyz.z = TableTop + Part[p].half.z

(* Until its grasp an unreported body is where the part is believed, and so *)
(* is one whose pose was read.                                              *)
WhereOK ==
    \A i \in PartIndex :
        LET p == PartAt(i)
        IN  /\ p \notin unsure /\ ~ Grabbed(i) /\ body[p] # "absent" =>
                   SameSpot(bodyPose[p], PoseOf(p))
            /\ p \in seen /\ ~ Grabbed(i) =>
                   body[p] # "absent" /\ SameSpot(bodyPose[p], PoseOf(p))

(* A move is given up after the world is built, and is reported.            *)
OverdueOK ==
    \A i \in PartIndex :
        LET p == PartAt(i)
        IN  /\ Unbuilt => overdue[p] = {}
            /\ overdue[p] # {} => p \in unsure

(* With the table there in time, and no message about its height, a part is  *)
(* only ever put, seen or believed at the height at which it lies.          *)
LyingHeight(p) == TableTop + Part[p].half.z
LevelOK ==
    \A i \in PartIndex :
        LET p == PartAt(i)
        IN  table = "there" /\ ~ HeightCorrected(p) =>
                /\ body[p] \in {"falling", "resting"} => bodyPose[p].xyz.z = LyingHeight(p)
                /\ ~ Grabbed(i) => PoseOf(p).xyz.z = LyingHeight(p)
                /\ \A pose \in overdue[p] : pose.xyz.z = LyingHeight(p)

(* In any case an unreported body is as high as believed, or on the table.   *)
HeightOK ==
    \A i \in PartIndex :
        LET p == PartAt(i)
        IN  p \notin unsure /\ ~ Grabbed(i) /\ body[p] # "absent" =>
                bodyPose[p].xyz.z \in {PoseOf(p).xyz.z, LyingHeight(p)}

(* Once everything has settled, what falls fell from where it was put.      *)
SettledOK ==
    ~ Unbuilt /\ pending = {} /\ settling \in {"out", "done"} =>
        \A i \in PartIndex :
            LET p == PartAt(i)
            IN  p \notin givenUp /\ overdue[p] = {} /\ body[p] = "falling" =>
                    scenePose[p] = bodyPose[p] /\ observed[p] # NoPose

GazeboOK ==
    /\ BodyTypeOK /\ SpawnsOK /\ WaitingOK /\ TakenOK /\ TableOK /\ OverdueOK /\ WhereOK
    /\ LevelOK /\ HeightOK /\ SettledOK

-------------------------------------------------------------------------------
(* The steps.                                                               *)

(* The job's process does something the simulator has no part in, or nothing. *)
Aside == Unasked \/ GazeboDone \/ UNCHANGED gzVars

LEMMA GazeboSteps ==
    ASSUME [GazeboNext \/ GazeboDone]_gzVars
    PROVE  \/ Aside
           \/ \E p \in PartIds :
                 \/ Land(p) \/ SpawnFails(p) \/ Rest(p) \/ AwaitedSpawnLands(p) \/ KillSpawn(p)
                 \/ \E pose \in overdue[p] : OverdueMove(p, pose)
           \/ TableAppears \/ TableFails \/ StartTable \/ TableTimeout
           \/ StartSettle \/ StartSleep \/ EndSleep
           \/ SpawnAll
           \/ GazeboCorrection
           \/ \E j \in PartIndex :
                 GazeboPickApproach(j) \/ GazeboFinishPick(j) \/ GazeboPickRetreat(j)
BY DEF GazeboNext, ProcessStep, JobStep, SettleStep, Fall, Aside

LEMMA LiftedType ==
    ASSUME TypeOK, NEW i \in PartIndex
    PROVE  [PoseOf(PartAt(i)) EXCEPT !.xyz.z = @ + LiftDistance(i)] \in Pose
<1>1. PoseOf(PartAt(i)) \in Pose /\ LiftDistance(i) \in Int
  BY LiftDistanceType, PartAtType, PartFields DEF TypeOK, PoseOf, PoseOrNone
<1>2. \A pose \in Pose, n \in Int : [pose EXCEPT !.xyz.z = @ + n] \in Pose
  BY DEF Pose, Vec
<1>3. QED
  BY <1>1, <1>2

(* The process takes only the job's steps, its sensor reading the bodies.   *)
LEMMA GazeboNextIsAny ==
    TypeOK /\ BodyTypeOK /\ [GazeboNext \/ GazeboDone]_gzVars => [AnyNext]_vars
<1> SUFFICES ASSUME TypeOK, BodyTypeOK, [GazeboNext \/ GazeboDone]_gzVars PROVE [AnyNext]_vars
  OBVIOUS
<1>0. \A i \in PartIndex : Readings(PartAt(i)) \subseteq PoseOrNone
  BY PartAtType DEF Readings, BodyTypeOK, PoseOrNone
<1>1. CASE Unasked
  BY <1>1, GazeboAssumption
     DEF Unasked, AnyNext, Prepare, AnyBegin, Move, AnyFinish,
             ExecutionStatus
<1>2. CASE GazeboDone \/ UNCHANGED gzVars
  BY <1>2 DEF GazeboDone, gzVars
<1>3. ASSUME NEW p \in PartIds,
             \/ Land(p) \/ SpawnFails(p) \/ Rest(p) \/ AwaitedSpawnLands(p) \/ KillSpawn(p)
             \/ \E pose \in overdue[p] : OverdueMove(p, pose)
      PROVE  UNCHANGED vars
  BY <1>3 DEF Land, SpawnFails, Rest, AwaitedSpawnLands, KillSpawn, OverdueMove
<1>4. CASE \/ TableAppears \/ TableFails \/ StartTable \/ TableTimeout
           \/ StartSettle \/ StartSleep \/ EndSleep
  BY <1>4 DEF TableAppears, TableFails, StartTable, TableTimeout, StartSettle, StartSleep, EndSleep
<1>5. CASE SpawnAll \/ GazeboCorrection
  BY <1>5 DEF SpawnAll, GazeboCorrection, AnyNext, Prepare
<1>6. ASSUME NEW j \in PartIndex, GazeboPickApproach(j)
      PROVE  AnyNext
  BY <1>0, <1>6 DEF GazeboPickApproach, AnyNext, AnyBegin
<1>7. ASSUME NEW j \in PartIndex, GazeboFinishPick(j)
      PROVE  AnyNext
  <2>1. PICK closed \in BOOLEAN : FinishPick(j, closed, closed \/ PartAt(j) \in execAttached)
    BY <1>7 DEF GazeboFinishPick
  <2>2. (closed \/ PartAt(j) \in execAttached) \in BOOLEAN
    OBVIOUS
  <2>3. QED
    BY <2>1, <2>2 DEF AnyNext, AnyFinish
<1>8. ASSUME NEW j \in PartIndex, GazeboPickRetreat(j)
      PROVE  AnyNext
  <2>1. \E reading \in PoseOrNone : FinishPickRetreat(j, reading)
    BY <1>0, <1>8, LiftedType DEF GazeboPickRetreat, PoseOrNone
  <2>2. QED
    BY <2>1 DEF AnyNext, AnyFinish
<1>9. QED
  BY <1>1, <1>2, <1>3, <1>4, <1>5, <1>6, <1>7, <1>8, GazeboSteps DEF Aside

(* A grasped part has been approached, so that nothing is waited for. *)
LEMMA GrabbedLate ==
    ASSUME JobOK, WaitingOK, NEW i \in PartIndex
    PROVE  /\ Grabbed(i) => Approached(i)
           /\ Approached(i) => pending = {}
           /\ step < PickAt(i) => ~ Grabbed(i)
<1>1. /\ step \in Int /\ PickApproachAt(i) \in Int
      /\ PickAt(i) = PickApproachAt(i) + 1 /\ PlaceAt(i) = PickApproachAt(i) + 4
  BY Positions, StepCountType DEF JobOK, TypeOK, PickApproachAt, PickAt, PlaceAt
<1>2. attached[PartAt(i)] => step \in PickAt(i) .. PlaceAt(i)
  BY DEF JobOK, CarryOK
<1>3. QED
  BY <1>1, <1>2 DEF Grabbed, Approached, WaitingOK

LEMMA VarsKept ==
    ASSUME UNCHANGED vars
    PROVE  /\ UNCHANGED <<fsm, stage, step, observed, attached, scenePose>>
           /\ Unbuilt' <=> Unbuilt
           /\ Early' <=> Early
           /\ \A i \in PartIndex :
                 /\ Grabbed(i)' <=> Grabbed(i)
                 /\ Approached(i)' <=> Approached(i)
BY DEF vars, jobVars, worldVars, sceneVars, Unbuilt, Early, Grabbed, Approached, JustSucceeded,
       Succeeded

(* None of the job's own steps builds the world, or leads back to before it. *)
LEMMA UnaskedUnbuilt == JobOK /\ Unasked => (Unbuilt' <=> Unbuilt) /\ (Early' => Early)
<1> SUFFICES ASSUME JobOK, Unasked PROVE (Unbuilt' <=> Unbuilt) /\ (Early' => Early)
  OBVIOUS
<1> USE DEF JobOK, Unbuilt, Early
<1>1. CASE Validate \/ RaiseUnknownPart \/ RejectCorrection
  BY <1>1 DEF Validate, RaiseUnknownPart, RejectCorrection, ControlOK
<1>2. CASE StartStep \/ CompleteJob \/ FinishMove
  BY <1>2 DEF StartStep, CompleteJob, AtLoopHead, FinishMove, Return, ControlOK
<1>3. CASE Judge
  BY <1>3 DEF Judge, Verify, Judged, NextStep, Recover, Retry, Stop, ControlOK
<1>4. CASE PlanSucceeds \/ ExecutionSucceeds \/ ExecutionFails("CONTROLLER_ERROR")
           \/ \E reason \in PlanReasons : PlanFails(reason)
  BY <1>4 DEF PlanSucceeds, ExecutionSucceeds, ExecutionFails, PlanFails, Return, ControlOK
<1>5. ASSUME NEW k \in PartIndex,
             \/ BeginPick(k) \/ BeginPickRetreat(k) \/ BeginPlaceApproach(k)
             \/ BeginPlace(k) \/ BeginPlaceRetreat(k) \/ FinishPlace(k)
      PROVE  ~ Unbuilt' /\ ~ Unbuilt /\ ~ Early'
  BY <1>5 DEF BeginPick, BeginPickRetreat, BeginPlaceApproach, BeginPlace, BeginPlaceRetreat,
              FinishPlace, Finishing, Return, Dispatching, PlanToStandOff, PlanTo, ControlOK
<1>6. ASSUME NEW j \in JointIndex, BeginJointApproach(j)
      PROVE  ~ Unbuilt' /\ ~ Unbuilt /\ ~ Early'
  BY <1>6 DEF BeginJointApproach, Dispatching, PlanToStandOff, PlanTo, ControlOK
<1>7. QED
  BY <1>1, <1>2, <1>3, <1>4, <1>5, <1>6 DEF Unasked

(* Of them only a PLACE touches a part, and it was grasped.  *)
LEMMA UnaskedTouches ==
    ASSUME JobOK, Unasked, NEW i \in PartIndex
    PROVE  \/ /\ observed'[PartAt(i)] = observed[PartAt(i)]
              /\ scenePose'[PartAt(i)] = scenePose[PartAt(i)]
              /\ attached'[PartAt(i)] = attached[PartAt(i)]
           \/ step = PlaceAt(i) /\ step' = step /\ ~ Early'
<1> USE DEF JobOK, Unbuilt, Early
<1>1. CASE Validate \/ RaiseUnknownPart \/ RejectCorrection
  BY <1>1 DEF Validate, RaiseUnknownPart, RejectCorrection, ControlOK, worldVars, sceneVars
<1>2. CASE StartStep \/ CompleteJob \/ FinishMove
  BY <1>2 DEF StartStep, CompleteJob, AtLoopHead, FinishMove, Return, ControlOK, worldVars,
              sceneVars
<1>3. CASE Judge
  BY <1>3 DEF Judge, Verify, Judged, NextStep, Recover, Retry, Stop, ControlOK, worldVars, sceneVars
<1>4. CASE PlanSucceeds \/ ExecutionSucceeds \/ ExecutionFails("CONTROLLER_ERROR")
           \/ \E reason \in PlanReasons : PlanFails(reason)
  BY <1>4 DEF PlanSucceeds, ExecutionSucceeds, ExecutionFails, PlanFails, Return, ControlOK,
              worldVars, sceneVars
<1>5. ASSUME NEW k \in PartIndex,
             \/ BeginPick(k) \/ BeginPickRetreat(k) \/ BeginPlaceApproach(k)
             \/ BeginPlace(k) \/ BeginPlaceRetreat(k)
      PROVE  UNCHANGED <<observed, attached, scenePose>>
  BY <1>5 DEF BeginPick, BeginPickRetreat, BeginPlaceApproach, BeginPlace, BeginPlaceRetreat,
              Dispatching, PlanToStandOff, PlanTo, ControlOK, worldVars, sceneVars
<1>6. ASSUME NEW j \in JointIndex, BeginJointApproach(j)
      PROVE  UNCHANGED <<observed, attached, scenePose>>
  BY <1>6 DEF BeginJointApproach, Dispatching, PlanToStandOff, PlanTo, ControlOK, worldVars,
         sceneVars
<1>7. ASSUME NEW k \in PartIndex, FinishPlace(k)
      PROVE  /\ step = PlaceAt(k) /\ step' = step /\ ~ Early'
             /\ k # i => /\ observed'[PartAt(i)] = observed[PartAt(i)]
                         /\ scenePose'[PartAt(i)] = scenePose[PartAt(i)]
                         /\ attached'[PartAt(i)] = attached[PartAt(i)]
  <2>1. PartAt(k) \in PartIds /\ PartAt(i) \in PartIds /\ (k # i => PartAt(k) # PartAt(i))
    BY PartAtType, Positions
  <2>2. QED
    BY <1>7, <2>1 DEF FinishPlace, Finishing, Return, ControlOK, Released, PoseUpdated, WorldDetach,
                      Observe, TypeOK
<1>8. QED
  BY <1>1, <1>2, <1>3, <1>4, <1>5, <1>6, <1>7 DEF Unasked

(* And none of them is the beginning of a PICK_APPROACH. *)
LEMMA UnaskedApproaches ==
    ASSUME JobOK, Unasked, NEW i \in PartIndex, Approached(i)'
    PROVE  Approached(i)
<1> USE DEF JobOK
<1> SUFFICES ASSUME ~ Approached(i) PROVE FALSE
  OBVIOUS
<1>0. [AnyNext]_vars
  BY GazeboAssumption DEF Unasked, AnyNext, Prepare, AnyBegin, Move, AnyFinish,
             ExecutionStatus
<1>1. PICK sighting \in PoseOrNone : BeginPickApproach(i, sighting)
  BY <1>0, ApproachBegins
<1>2. stage = "dispatch" /\ step = PickApproachAt(i) /\ fsm = "PLAN_SKILL"
      /\ stage' \in {"plan", "idle"} /\ fsm' = fsm /\ status = "none"
  BY <1>1 DEF BeginPickApproach, Dispatching, PlanToStandOff, PlanTo, ControlOK, Running
<1>3. \A j \in PartIndex :
          step \notin {PickAt(j), PickRetreatAt(j), PlaceApproachAt(j), PlaceAt(j)}
  BY <1>2, ApproachSteps
<1>4. \A j \in PartIndex : step # PlaceRetreatAt(j)
  BY <1>2, Positions DEF PickApproachAt, PlaceRetreatAt
<1>5. \A j \in JointIndex : step # JointApproachAt(j)
  <2>1. \A j \in JointIndex : j \in Nat /\ j >= 1
    BY JointsAssumption DEF JointIndex
  <2>2. QED
    BY <1>2, <2>1, Positions, StepCountType DEF PickApproachAt, JointApproachAt
<1>6. ~ Validate /\ ~ RaiseUnknownPart /\ ~ RejectCorrection /\ ~ StartStep /\ ~ CompleteJob
      /\ ~ FinishMove /\ ~ Judge
  BY <1>2 DEF Validate, RaiseUnknownPart, RejectCorrection, StartStep, CompleteJob, AtLoopHead,
              FinishMove, Judge, Verify, Judged, NextStep, Recover, Retry, Stop
<1>7. ~ PlanSucceeds /\ ~ ExecutionSucceeds /\ ~ ExecutionFails("CONTROLLER_ERROR")
      /\ ~ \E reason \in PlanReasons : PlanFails(reason)
  BY <1>2 DEF PlanFails, PlanSucceeds, ExecutionSucceeds, ExecutionFails
<1>8. \A j \in PartIndex :
          ~ (BeginPick(j) \/ BeginPickRetreat(j) \/ BeginPlaceApproach(j) \/ BeginPlace(j)
             \/ BeginPlaceRetreat(j) \/ FinishPlace(j))
  BY <1>2, <1>3, <1>4
     DEF BeginPick, BeginPickRetreat, BeginPlaceApproach, BeginPlace, BeginPlaceRetreat,
         Dispatching, FinishPlace, Finishing
<1>9. \A j \in JointIndex : ~ BeginJointApproach(j)
  BY <1>5 DEF BeginJointApproach, Dispatching
<1>10. QED
  BY <1>6, <1>7, <1>8, <1>9 DEF Unasked

(* Aside keeps the bodies, and what the invariants say of the job.          *)
LEMMA AsideKeeps ==
    ASSUME JobOK, Aside, NEW i \in PartIndex
    PROVE  /\ UNCHANGED gazeboVars
           /\ Unbuilt' <=> Unbuilt
           /\ Early' => Early
           /\ Approached(i)' => Approached(i)
           /\ Grabbed(i) <=> Grabbed(i)'
           /\ \/ /\ observed'[PartAt(i)] = observed[PartAt(i)]
                 /\ scenePose'[PartAt(i)] = scenePose[PartAt(i)]
              \/ Grabbed(i) /\ ~ Early'
<1>1. CASE Unasked
  <2>1. /\ step' = step \/ step' = step + 1
        /\ step \in Int /\ PickApproachAt(i) \in Int
        /\ PlaceApproachAt(i) = PickApproachAt(i) + 3 /\ PlaceAt(i) = PickApproachAt(i) + 4
    <3>1. [AnyNext]_vars
      BY <1>1, GazeboAssumption DEF Unasked, AnyNext, Prepare, AnyBegin, Move, AnyFinish,
             ExecutionStatus
    <3>2. QED
      BY <3>1, StepsGoForward, Positions, StepCountType
         DEF JobOK, TypeOK, PickApproachAt, PlaceApproachAt, PlaceAt
  <2>2. step = PlaceApproachAt(i) => attached[PartAt(i)]
    BY DEF JobOK, CarryOK
  <2>3. Grabbed(i) <=> Grabbed(i)'
    <3>1. CASE attached'[PartAt(i)] = attached[PartAt(i)]
      BY <2>1, <2>2, <3>1 DEF Grabbed, PartAt, PlaceAt
    <3>2. CASE step = PlaceAt(i) /\ step' = step
      BY <2>1, <3>2 DEF Grabbed, PartAt, PlaceAt
    <3>3. QED
      BY <1>1, <3>1, <3>2, UnaskedTouches
  <2>4. step = PlaceAt(i) => Grabbed(i)
    BY <2>1 DEF Grabbed
  <2>5. UNCHANGED gazeboVars
    BY <1>1 DEF Unasked
  <2>6. QED
    BY <1>1, <2>3, <2>4, <2>5, UnaskedUnbuilt, UnaskedTouches, UnaskedApproaches
<1>2. CASE GazeboDone \/ UNCHANGED gzVars
  BY <1>2, VarsKept DEF GazeboDone, gzVars
<1>3. QED
  BY <1>1, <1>2 DEF Aside

(* An accepted message. *)
LEMMA CorrectionDoes ==
    ASSUME JobOK, JobOK', SpawnsOK, GazeboCorrection
    PROVE  /\ \E q \in PartIds, pose \in Pose :
                 /\ observed' = [observed EXCEPT ![q] = pose]
                 /\ scenePose' = [scenePose EXCEPT ![q] = pose]
                 /\ Moved(q, pose)
                 /\ ~ HeightCorrected(q) => pose.xyz.z = Part[q].source.xyz.z
           /\ UNCHANGED <<step, attached, table, flight, pending, givenUp, seen>>
           /\ settling' = "out" /\ settling = "done" /\ pending = {}
           /\ ~ Unbuilt /\ ~ Unbuilt' /\ Early /\ ~ Early'
           /\ step = 0
<1> DEFINE q == correction.part
           pose == CorrectedPose(Part[q].source, correction)
<1>1. /\ q \in PartIds
      /\ observed' = [observed EXCEPT ![q] = pose]
      /\ scenePose' = [scenePose EXCEPT ![q] = pose]
      /\ Moved(q, PoseOf(q)')
      /\ UNCHANGED <<step, attached, table, flight, pending, givenUp, seen>>
      /\ settling' = "out" /\ settling = "done"
      /\ stage = "gate" /\ stage' = "idle" /\ Accepted(correction)
      /\ UNCHANGED <<fsm, correction>>
  BY DEF GazeboCorrection, AcceptCorrection, Answered, Observe, PoseUpdated
<1>2. fsm = "BUILD_WORLD" /\ step = 0 /\ pending = {} /\ correction \in Corrections
  BY <1>1 DEF JobOK, ControlOK, SpawnsOK
<1>3. pose \in Pose
  <2>1. correction \in CorrectionType /\ Part[q].source \in Pose
    BY <1>1, <1>2, CorrectionsAssumption, PartFields
  <2>2. /\ correction.delta \in Vec
        /\ correction.turns % 4 \in Quarter
    BY <2>1 DEF CorrectionType, Quarter
  <2>3. QED
    BY <2>1, <2>2, WaypointTypes DEF CorrectedPose
<1>4. observed'[q] = pose /\ pose # NoPose
  BY <1>1, <1>3, NoPoseAssumption DEF JobOK, TypeOK
<1>5. PoseOf(q)' = pose
  BY <1>1, <1>4 DEF PoseOf
<1>6. ~ HeightCorrected(q) => pose.xyz.z = Part[q].source.xyz.z
  <2>1. /\ correction # NoCorrection /\ correction \in CorrectionType
        /\ Part[q].source \in Pose
    BY <1>1, <1>2, CorrectionsAssumption, PartFields
  <2>2. pose.xyz.z = Part[q].source.xyz.z + correction.delta.z
    BY DEF CorrectedPose, Composed, Plus, V
  <2>3. ~ HeightCorrected(q) => correction.delta.z = 0
    BY <1>1, <2>1 DEF HeightCorrected
  <2>4. Part[q].source.xyz.z \in Int
    BY <2>1 DEF Pose, Vec
  <2>5. QED
    <3> HIDE DEF q, pose
    <3> QED BY <2>2, <2>3, <2>4
<1>7. QED
  <2> HIDE DEF q, pose
  <2> QED BY <1>1, <1>2, <1>3, <1>5, <1>6 DEF Unbuilt, Early

(* A part that is to be picked is looked at. *)
LEMMA ApproachDoes ==
    ASSUME JobOK, SpawnsOK, BodyTypeOK, NEW j \in PartIndex, GazeboPickApproach(j)
    PROVE  /\ \/ UNCHANGED <<observed, scenePose, body, bodyPose, overdue, unsure, seen>>
              \/ /\ body[PartAt(j)] # "absent"
                 /\ bodyPose[PartAt(j)] \in PoseOrNone \ {NoPose}
                 /\ observed' = [observed EXCEPT ![PartAt(j)] = bodyPose[PartAt(j)]]
                 /\ scenePose' = [scenePose EXCEPT ![PartAt(j)] = bodyPose[PartAt(j)]]
                 /\ Moved(PartAt(j), bodyPose[PartAt(j)])
                 /\ seen' = seen \cup {PartAt(j)}
           /\ UNCHANGED <<step, attached, table, flight, pending, givenUp>>
           /\ settling' = "out" /\ settling = "done" /\ pending = {}
           /\ ~ Unbuilt /\ ~ Unbuilt' /\ ~ Early'
           /\ step < PickAt(j)
<1>1. PICK reading \in Readings(PartAt(j)) :
          /\ BeginPickApproach(j, reading)
          /\ IF reading = NoPose
             THEN UNCHANGED <<body, bodyPose, overdue, unsure, seen>>
             ELSE Moved(PartAt(j), reading) /\ seen' = seen \cup {PartAt(j)}
  BY DEF GazeboPickApproach
<1>2. /\ UNCHANGED <<table, flight, pending, givenUp>>
      /\ settling' = "out" /\ settling = "done" /\ pending = {}
  BY DEF GazeboPickApproach, Answered, SpawnsOK
<1>3. /\ stage = "dispatch" /\ step = PickApproachAt(j)
      /\ stage' # "gate" /\ UNCHANGED <<fsm, step, attached>>
      /\ IF reading = NoPose
         THEN UNCHANGED <<observed, scenePose>>
         ELSE /\ observed' = [observed EXCEPT ![PartAt(j)] = reading]
              /\ scenePose' = [scenePose EXCEPT ![PartAt(j)] = reading]
  BY <1>1 DEF BeginPickApproach, Dispatching, PlanToStandOff, PlanTo, Observe, PoseUpdated
<1>4. fsm = "PLAN_SKILL"
  BY <1>3 DEF JobOK, ControlOK
<1>5. reading = NoPose \/ (body[PartAt(j)] # "absent" /\ reading = bodyPose[PartAt(j)])
  BY DEF Readings
<1>6. bodyPose[PartAt(j)] \in PoseOrNone
  BY PartAtType DEF BodyTypeOK
<1>7. step < PickAt(j)
  BY <1>3, Positions DEF PickApproachAt, PickAt
<1>8. QED
  BY <1>1, <1>2, <1>3, <1>4, <1>5, <1>6, <1>7 DEF Unbuilt, Early

(* The jaws close. *)
LEMMA PickDoes ==
    ASSUME JobOK, WaitingOK, NEW j \in PartIndex, GazeboFinishPick(j)
    PROVE  /\ IF body[PartAt(j)] = "absent"
              THEN UNCHANGED <<body, bodyPose, givenUp, overdue, unsure, seen>>
              ELSE /\ body' = [body EXCEPT ![PartAt(j)] = "taken"]
                   /\ bodyPose' = [bodyPose EXCEPT ![PartAt(j)] = PoseOf(PartAt(j))]
                   /\ givenUp' = givenUp \ {PartAt(j)}
                   /\ overdue' = [overdue EXCEPT ![PartAt(j)] = {}]
                   /\ unsure' = unsure \ {PartAt(j)}
                   /\ seen' = seen \ {PartAt(j)}
           /\ UNCHANGED <<step, observed, scenePose, table, flight, pending, settling>>
           /\ attached' = [attached EXCEPT ![PartAt(j)] = TRUE]
           /\ ~ Unbuilt /\ ~ Unbuilt' /\ ~ Early' /\ pending = {}
<1>1. PICK closed \in BOOLEAN : FinishPick(j, closed, closed \/ PartAt(j) \in execAttached)
  BY DEF GazeboFinishPick
<1>2. /\ stage = "finish" /\ step = PickAt(j)
      /\ fsm' = "EXECUTE_SKILL" /\ stage' = "idle"
      /\ attached' = [attached EXCEPT ![PartAt(j)] = TRUE]
      /\ UNCHANGED <<step, observed, scenePose>>
  BY <1>1 DEF FinishPick, Finishing, Return, Grasped, WorldAttach
<1>3. fsm = "PLAN_SKILL"
  BY <1>2 DEF JobOK, ControlOK
<1>4. Approached(j)
  BY <1>2, Positions DEF Approached, PickApproachAt, PickAt
<1>5. pending = {}
  BY <1>4, GrabbedLate
<1>6. QED
  BY <1>2, <1>3, <1>5 DEF GazeboFinishPick, Unbuilt, Early

(* A part that should have been lifted is looked at. *)
LEMMA RetreatDoes ==
    ASSUME JobOK, SpawnsOK, NEW j \in PartIndex, GazeboPickRetreat(j)
    PROVE  /\ UNCHANGED <<step, attached, observed, scenePose>>
           /\ UNCHANGED <<table, flight, pending, body, bodyPose, givenUp, overdue, unsure, seen>>
           /\ settling' = "out" /\ settling = "done" /\ pending = {}
           /\ ~ Unbuilt /\ ~ Unbuilt' /\ ~ Early'
<1>1. PICK reading : FinishPickRetreat(j, reading)
  BY DEF GazeboPickRetreat
<1>2. /\ stage = "finish" /\ fsm' = "EXECUTE_SKILL" /\ stage' = "idle"
      /\ UNCHANGED <<step, attached, observed, scenePose>>
  BY <1>1 DEF FinishPickRetreat, Finishing, Return, worldVars
<1>3. fsm = "PLAN_SKILL"
  BY <1>2 DEF JobOK, ControlOK
<1>4. QED
  BY <1>2, <1>3 DEF GazeboPickRetreat, Answered, SpawnsOK, Unbuilt, Early

(* The world is built. *)
LEMMA SpawnDoes ==
    ASSUME JobOK, SpawnAll
    PROVE  /\ UNCHANGED <<step, attached, observed>>
           /\ flight' = PartIds /\ pending' = PartIds
           /\ UNCHANGED <<table, body, bodyPose, settling, givenUp, overdue, unsure, seen>>
           /\ table \notin {"none", "spawning"}
           /\ Unbuilt /\ ~ Unbuilt'
           /\ \A i \in PartIndex : ~ Approached(i)' /\ ~ Grabbed(i)' /\ ~ Grabbed(i)
<1>1. /\ fsm = "VALIDATE" /\ fsm' = "BUILD_WORLD" /\ stage' \in {"idle", "gate"}
      /\ UNCHANGED <<step, attached, observed>>
      /\ flight' = PartIds /\ pending' = PartIds /\ table \notin {"none", "spawning"}
      /\ UNCHANGED <<table, body, bodyPose, settling, givenUp, overdue, unsure, seen>>
  BY DEF SpawnAll, BuildWorld, TableTried, worldVars
<1>2. step = 0 /\ \A p \in PartIds : ~ attached[p]
  BY <1>1 DEF JobOK, ControlOK, SceneOK
<1>3. ASSUME NEW i \in PartIndex
      PROVE  ~ Approached(i)' /\ ~ Grabbed(i)' /\ ~ Grabbed(i)
  <2>1. /\ PickApproachAt(i) \in Int /\ PickApproachAt(i) >= 0
        /\ PlaceAt(i) = PickApproachAt(i) + 4
    BY Positions DEF PickApproachAt, PlaceAt
  <2>2. ~ attached[PartAt(i)] /\ ~ attached'[PartAt(i)] /\ step' = 0
    BY <1>1, <1>2, PartAtType
  <2>3. ~ Grabbed(i)' /\ ~ Grabbed(i)
    BY <1>2, <2>1, <2>2 DEF Grabbed, PartAt, PlaceAt
  <2>4. ~ Approached(i)'
    BY <1>1, <2>1, <2>2 DEF Approached, PickApproachAt, JustSucceeded
  <2>5. QED
    BY <2>3, <2>4
<1>4. QED
  BY <1>1, <1>3 DEF Unbuilt

LEMMA GrabbedSame ==
    ASSUME UNCHANGED <<step, attached>>, NEW i \in PartIndex
    PROVE  Grabbed(i)' <=> Grabbed(i)
BY DEF Grabbed

LEMMA CorrectedUngrabbed ==
    ASSUME JobOK, WaitingOK, step = 0, NEW i \in PartIndex
    PROVE  ~ Grabbed(i)
<1>1. PickAt(i) > 0
  BY Positions DEF PickAt
<1>2. QED
  BY <1>1, GrabbedLate

(* A body that has come to rest is still somewhere.                         *)
LEMMA LyingOnType ==
    ASSUME NEW p \in PartIds, NEW level \in Int, NEW pose \in Pose
    PROVE  /\ LyingOn(p, level, pose) \in Pose
           /\ LyingOn(p, level, pose).xyz.z = level + Part[p].half.z
           /\ SameSpot(LyingOn(p, level, pose), pose)
<1>1. Part[p].half.z \in Int
  BY PartFields DEF Vec
<1>2. \A n \in Int : /\ [pose EXCEPT !.xyz.z = n] \in Pose
                     /\ [pose EXCEPT !.xyz.z = n].xyz.z = n
                     /\ SameSpot([pose EXCEPT !.xyz.z = n], pose)
  BY DEF Pose, Vec, SameSpot
<1>3. QED
  BY <1>1, <1>2 DEF LyingOn

LEMMA LevelType == Level \in Int
BY GazeboAssumption DEF Level, Floor

-------------------------------------------------------------------------------
(* What the job's steps do to one part.                                     *)

Untouched(p) ==
    /\ body'[p] = body[p] /\ bodyPose'[p] = bodyPose[p]
    /\ observed'[p] = observed[p] /\ scenePose'[p] = scenePose[p]
    /\ p \in unsure' <=> p \in unsure
    /\ p \in givenUp' <=> p \in givenUp
    /\ overdue'[p] = overdue[p]
    /\ p \in seen' <=> p \in seen

(* It is believed to be elsewhere, and its body is moved there, is absent,   *)
(* or stays and is reported.                                                *)
PutAt(p, pose) ==
    /\ observed'[p] = pose /\ scenePose'[p] = pose
    /\ \/ body[p] # "absent" /\ body'[p] = "falling" /\ bodyPose'[p] = pose
                             /\ (p \in unsure => p \in unsure')
       \/ body[p] = "absent" /\ body'[p] = "absent" /\ (p \in unsure => p \in unsure')
       \/ body'[p] = body[p] /\ bodyPose'[p] = bodyPose[p] /\ p \in unsure'
    /\ p \in givenUp' <=> p \in givenUp
    /\ \/ overdue'[p] = overdue[p]
       \/ overdue'[p] = overdue[p] \cup {pose} /\ p \in unsure'

LEMMA CorrectedPart ==
    ASSUME JobOK, JobOK', SpawnsOK, BodyTypeOK, WaitingOK, GazeboCorrection, NEW i \in PartIndex
    PROVE  /\ \/ Untouched(PartAt(i))
              \/ \E pose \in Pose :
                    /\ PutAt(PartAt(i), pose)
                    /\ ~ HeightCorrected(PartAt(i)) => pose.xyz.z = Part[PartAt(i)].source.xyz.z
           /\ ~ Grabbed(i) /\ ~ Grabbed(i)'
           /\ PartAt(i) \notin seen'
<1> DEFINE p == PartAt(i)
<1>1. p \in PartIds
  BY PartAtType
<1>2. PICK q \in PartIds, pose \in Pose :
          /\ observed' = [observed EXCEPT ![q] = pose]
          /\ scenePose' = [scenePose EXCEPT ![q] = pose]
          /\ Moved(q, pose)
          /\ ~ HeightCorrected(q) => pose.xyz.z = Part[q].source.xyz.z
  BY CorrectionDoes
<1>3. UNCHANGED <<givenUp, seen>> /\ p \notin seen
  BY CorrectionDoes DEF WaitingOK
<1>4. CASE q = p
  <2>1. PutAt(p, pose)
    BY <1>1, <1>2, <1>3, <1>4 DEF PutAt, Moved, JobOK, TypeOK, BodyTypeOK
  <2>2. QED
    BY <2>1, <1>2, <1>3, <1>4, CorrectionDoes, CorrectedUngrabbed, GrabbedSame
<1>5. CASE q # p
  <2>1. Untouched(p)
    BY <1>1, <1>2, <1>3, <1>5 DEF Untouched, Moved, JobOK, TypeOK, BodyTypeOK
  <2>2. QED
    BY <2>1, <1>3, CorrectionDoes, CorrectedUngrabbed, GrabbedSame
<1>6. QED
  BY <1>4, <1>5

LEMMA ApproachedPart ==
    ASSUME JobOK, SpawnsOK, BodyTypeOK, WaitingOK,
           NEW i \in PartIndex, NEW j \in PartIndex, GazeboPickApproach(j)
    PROVE  /\ \/ Untouched(PartAt(i))
              \/ /\ body[PartAt(i)] # "absent" /\ bodyPose[PartAt(i)] \in Pose
                 /\ PutAt(PartAt(i), bodyPose[PartAt(i)])
                 /\ ~ Grabbed(i)
           /\ Grabbed(i)' <=> Grabbed(i)
<1> DEFINE p == PartAt(i)
<1>1. p \in PartIds /\ PartAt(j) \in PartIds /\ (j # i => PartAt(j) # p)
  BY PartAtType, Positions
<1>2. (Grabbed(i)' <=> Grabbed(i)) /\ ~ Grabbed(j) /\ givenUp' = givenUp
  BY ApproachDoes, GrabbedSame, GrabbedLate
<1>3. CASE UNCHANGED <<observed, scenePose, body, bodyPose, overdue, unsure, seen>>
  BY <1>2, <1>3 DEF Untouched
<1>4. CASE /\ body[PartAt(j)] # "absent"
           /\ bodyPose[PartAt(j)] \in PoseOrNone \ {NoPose}
           /\ observed' = [observed EXCEPT ![PartAt(j)] = bodyPose[PartAt(j)]]
           /\ scenePose' = [scenePose EXCEPT ![PartAt(j)] = bodyPose[PartAt(j)]]
           /\ Moved(PartAt(j), bodyPose[PartAt(j)])
           /\ seen' = seen \cup {PartAt(j)}
  <2>1. CASE j = i
    <3>1. PutAt(p, bodyPose[p])
      BY <1>1, <1>2, <1>4, <2>1 DEF PutAt, Moved, JobOK, TypeOK, BodyTypeOK
    <3>2. QED
      BY <1>2, <1>4, <2>1, <3>1 DEF PoseOrNone
  <2>2. CASE j # i
    <3>1. Untouched(p)
      BY <1>1, <1>2, <1>4, <2>2 DEF Untouched, Moved, JobOK, TypeOK, BodyTypeOK
    <3>2. QED
      BY <1>2, <3>1
  <2>3. QED
    BY <2>1, <2>2
<1>5. QED
  BY <1>3, <1>4, ApproachDoes

LEMMA PickedPart ==
    ASSUME JobOK, BodyTypeOK, WaitingOK, NEW i \in PartIndex, NEW j \in PartIndex,
           GazeboFinishPick(j)
    PROVE  \/ Untouched(PartAt(i)) /\ (Grabbed(i)' <=> Grabbed(i))
           \/ Untouched(PartAt(i)) /\ Grabbed(i)' /\ body[PartAt(i)] = "absent"
           \/ /\ Grabbed(i)' /\ body[PartAt(i)] # "absent"
              /\ body'[PartAt(i)] = "taken" /\ bodyPose'[PartAt(i)] \in Pose
              /\ overdue'[PartAt(i)] = {}
<1> DEFINE p == PartAt(i)
<1>1. p \in PartIds /\ PartAt(j) \in PartIds /\ (j # i => PartAt(j) # p)
  BY PartAtType, Positions
<1>2. /\ UNCHANGED <<step, observed, scenePose>>
      /\ attached' = [attached EXCEPT ![PartAt(j)] = TRUE]
      /\ IF body[PartAt(j)] = "absent"
         THEN UNCHANGED <<body, bodyPose, givenUp, overdue, unsure, seen>>
         ELSE /\ body' = [body EXCEPT ![PartAt(j)] = "taken"]
              /\ bodyPose' = [bodyPose EXCEPT ![PartAt(j)] = PoseOf(PartAt(j))]
              /\ givenUp' = givenUp \ {PartAt(j)}
              /\ overdue' = [overdue EXCEPT ![PartAt(j)] = {}]
              /\ unsure' = unsure \ {PartAt(j)}
              /\ seen' = seen \ {PartAt(j)}
  BY PickDoes
<1>3. CASE j = i
  <2>1. attached'[p] = TRUE
    BY <1>1, <1>2, <1>3 DEF JobOK, TypeOK
  <2>2. Grabbed(i)'
    BY <2>1 DEF Grabbed, PartAt, PlaceAt
  <2>3. PoseOf(p) \in Pose
    BY <1>1, PartFields DEF PoseOf, JobOK, TypeOK, PoseOrNone
  <2>4. CASE body[p] = "absent"
    BY <1>2, <1>3, <2>2, <2>4 DEF Untouched
  <2>5. CASE body[p] # "absent"
    <3>1. body'[p] = "taken" /\ bodyPose'[p] = PoseOf(p) /\ overdue'[p] = {}
      BY <1>1, <1>2, <1>3, <2>5 DEF BodyTypeOK
    <3>2. QED
      BY <2>2, <2>3, <2>5, <3>1
  <2>6. QED
    BY <2>4, <2>5
<1>4. CASE j # i
  <2>1. Untouched(p) /\ attached'[p] = attached[p]
    BY <1>1, <1>2, <1>4 DEF Untouched, JobOK, TypeOK, BodyTypeOK
  <2>2. Grabbed(i)' <=> Grabbed(i)
    BY <1>2, <2>1 DEF Grabbed, PartAt, PlaceAt
  <2>3. QED
    BY <2>1, <2>2
<1>5. QED
  BY <1>3, <1>4

LEMMA LiftedPart ==
    ASSUME JobOK, SpawnsOK, NEW i \in PartIndex, NEW j \in PartIndex, GazeboPickRetreat(j)
    PROVE  Untouched(PartAt(i)) /\ (Grabbed(i)' <=> Grabbed(i))
BY RetreatDoes, GrabbedSame DEF Untouched

(* A move that was given up happens.                                        *)
LEMMA OverduePart ==
    ASSUME BodyTypeOK, NEW q \in PartIds, NEW pose \in overdue[q], OverdueMove(q, pose),
           NEW i \in PartIndex
    PROVE  /\ UNCHANGED vars
           /\ UNCHANGED <<table, flight, pending, settling, givenUp, overdue, unsure>>
           /\ seen' \subseteq seen
           /\ \/ body'[PartAt(i)] = body[PartAt(i)] /\ bodyPose'[PartAt(i)] = bodyPose[PartAt(i)]
              \/ /\ body[PartAt(i)] \in {"falling", "resting"} /\ body'[PartAt(i)] = "falling"
                 /\ bodyPose'[PartAt(i)] \in overdue[PartAt(i)]
                 /\ bodyPose'[PartAt(i)] \in Pose
                 /\ PartAt(i) \notin seen'
<1>1. PartAt(i) \in PartIds
  BY PartAtType
<1>2. CASE q = PartAt(i)
  <2>1. pose \in Pose
    BY DEF BodyTypeOK
  <2>2. QED
    BY <1>1, <1>2, <2>1 DEF OverdueMove, BodyTypeOK
<1>3. CASE q # PartAt(i)
  BY <1>1, <1>3 DEF OverdueMove, BodyTypeOK
<1>4. QED
  BY <1>2, <1>3

-------------------------------------------------------------------------------
(* Every step keeps the invariants.                                         *)

GazeboStep == [GazeboNext \/ GazeboDone]_gzVars
AllOK == JobOK /\ JobOK' /\ GazeboOK

LEMMA BodyTypeStep == AllOK /\ GazeboStep => BodyTypeOK'
<1> SUFFICES ASSUME AllOK, GazeboStep PROVE BodyTypeOK'
  OBVIOUS
<1> USE DEF AllOK, GazeboOK
<1>1. CASE Aside
  <2>1. UNCHANGED gazeboVars
    BY <1>1 DEF Aside, Unasked, GazeboDone, gzVars
  <2>2. QED
    BY <2>1 DEF gazeboVars, BodyTypeOK
<1>2. ASSUME NEW p \in PartIds, Land(p) \/ SpawnFails(p) \/ AwaitedSpawnLands(p) \/ KillSpawn(p)
      PROVE  BodyTypeOK'
  BY <1>2, PartFields DEF Land, SpawnFails, AwaitedSpawnLands, KillSpawn, BodyTypeOK, PoseOrNone
<1>3. ASSUME NEW p \in PartIds, Rest(p)
      PROVE  BodyTypeOK'
  <2>1. PICK i \in PartIndex : PartAt(i) = p
    BY Positions
  <2>2. bodyPose[p] \in Pose
    BY <1>3, <2>1 DEF Rest, TakenOK
  <2>3. LyingOn(p, Level, bodyPose[p]) \in Pose
    BY <2>2, LevelType, LyingOnType
  <2>4. QED
    BY <1>3, <2>3 DEF Rest, BodyTypeOK, PoseOrNone
<1>11. ASSUME NEW p \in PartIds, NEW pose \in overdue[p], OverdueMove(p, pose)
       PROVE  BodyTypeOK'
  BY <1>11 DEF OverdueMove, BodyTypeOK, PoseOrNone
<1>4. CASE \/ TableAppears \/ TableFails \/ StartTable \/ TableTimeout
           \/ StartSettle \/ StartSleep \/ EndSleep
  BY <1>4 DEF TableAppears, TableFails, StartTable, TableTimeout, StartSettle, FirstThing,
              StartSleep, SleepTime, EndSleep, BodyTypeOK
<1>5. CASE SpawnAll
  BY <1>5 DEF SpawnAll, BodyTypeOK
<1>6. CASE GazeboCorrection
  BY <1>6, CorrectionDoes DEF Moved, BodyTypeOK, PoseOrNone
<1>7. ASSUME NEW j \in PartIndex, GazeboPickApproach(j)
      PROVE  BodyTypeOK'
  BY <1>7, ApproachDoes, PartAtType DEF Moved, BodyTypeOK, PoseOrNone
<1>8. ASSUME NEW j \in PartIndex, GazeboFinishPick(j)
      PROVE  BodyTypeOK'
  <2>1. PoseOf(PartAt(j)) \in PoseOrNone
    BY PartAtType, PartFields DEF PoseOf, JobOK, TypeOK, PoseOrNone
  <2>2. QED
    BY <1>8, <2>1, PickDoes, PartAtType DEF BodyTypeOK
<1>9. ASSUME NEW j \in PartIndex, GazeboPickRetreat(j)
      PROVE  BodyTypeOK'
  BY <1>9, RetreatDoes DEF BodyTypeOK
<1>10. QED
  BY <1>1, <1>2, <1>3, <1>4, <1>5, <1>6, <1>7, <1>8, <1>9, <1>11, GazeboSteps DEF GazeboStep

LEMMA SpawnsStep == AllOK /\ GazeboStep => SpawnsOK'
<1> SUFFICES ASSUME AllOK, GazeboStep PROVE SpawnsOK'
  OBVIOUS
<1> USE DEF AllOK, GazeboOK, SpawnsOK
<1>1. CASE Aside
  <2>1. UNCHANGED gazeboVars /\ (Unbuilt' <=> Unbuilt)
    BY <1>1, UnaskedUnbuilt, VarsKept DEF Aside, Unasked, GazeboDone, gzVars
  <2>2. QED
    BY <2>1 DEF gazeboVars
<1>2. ASSUME NEW p \in PartIds,
             Land(p) \/ SpawnFails(p) \/ Rest(p) \/ AwaitedSpawnLands(p) \/ KillSpawn(p)
      PROVE  SpawnsOK'
  <2>1. Unbuilt' <=> Unbuilt
    BY <1>2, VarsKept DEF Land, SpawnFails, Rest, AwaitedSpawnLands, KillSpawn
  <2>2. QED
    BY <1>2, <2>1 DEF Land, SpawnFails, Rest, AwaitedSpawnLands, KillSpawn
<1>11. ASSUME NEW p \in PartIds, NEW pose \in overdue[p], OverdueMove(p, pose)
       PROVE  SpawnsOK'
  BY <1>11, VarsKept DEF OverdueMove
<1>3. CASE TableAppears \/ TableFails \/ StartTable \/ TableTimeout
  <2>1. Unbuilt' <=> Unbuilt
    BY <1>3, VarsKept DEF TableAppears, TableFails, StartTable, TableTimeout
  <2>2. StartTable => Unbuilt
    BY DEF StartTable, Unbuilt
  <2>3. QED
    BY <1>3, <2>1, <2>2 DEF TableAppears, TableFails, StartTable, TableTimeout, BodyTypeOK
<1>4. CASE StartSettle \/ StartSleep \/ EndSleep
  <2>1. Unbuilt' <=> Unbuilt
    BY <1>4, VarsKept DEF StartSettle, StartSleep, EndSleep
  <2>2. StartSettle => ~ Unbuilt
    BY DEF StartSettle, AtSceneCall, Dispatching, Finishing, Unbuilt, JobOK, ControlOK
  <2>3. QED
    BY <1>4, <2>1, <2>2 DEF StartSettle, FirstThing, StartSleep, SleepTime, EndSleep
<1>5. CASE SpawnAll
  BY <1>5, SpawnDoes
<1>6. CASE GazeboCorrection
  BY <1>6, CorrectionDoes DEF Moved
<1>7. ASSUME NEW j \in PartIndex, GazeboPickApproach(j)
      PROVE  SpawnsOK'
  BY <1>7, ApproachDoes DEF Moved
<1>8. ASSUME NEW j \in PartIndex, GazeboFinishPick(j)
      PROVE  SpawnsOK'
  <2>1. body[PartAt(j)] # "absent" => PartAt(j) \notin flight
    BY DEF TakenOK
  <2>2. QED
    BY <1>8, <2>1, PickDoes
<1>9. ASSUME NEW j \in PartIndex, GazeboPickRetreat(j)
      PROVE  SpawnsOK'
  BY <1>9, RetreatDoes
<1>10. QED
  BY <1>1, <1>2, <1>3, <1>4, <1>5, <1>6, <1>7, <1>8, <1>9, <1>11, GazeboSteps DEF GazeboStep

LEMMA WaitingStep == AllOK /\ GazeboStep => WaitingOK'
<1> SUFFICES ASSUME AllOK, GazeboStep, NEW i \in PartIndex
             PROVE  /\ Early' => PartAt(i) \notin seen'
                    /\ Early' \/ pending' # {} => observed'[PartAt(i)] = NoPose
                    /\ pending' # {} => ~ Approached(i)'
  BY DEF WaitingOK, PartAt, PartIndex
<1> USE DEF AllOK, GazeboOK
<1> DEFINE Goal == /\ Early' => PartAt(i) \notin seen'
                   /\ Early' \/ pending' # {} => observed'[PartAt(i)] = NoPose
                   /\ pending' # {} => ~ Approached(i)'
<1>0. /\ Early => PartAt(i) \notin seen
      /\ Early \/ pending # {} => observed[PartAt(i)] = NoPose
      /\ pending # {} => ~ Approached(i)
      /\ Grabbed(i) => pending = {}
  BY GrabbedLate DEF WaitingOK
<1>1. ASSUME Aside PROVE Goal
  <2>1. UNCHANGED <<seen, pending>>
    BY <1>1, AsideKeeps DEF gazeboVars
  <2>2. QED
    BY <1>0, <1>1, <2>1, AsideKeeps
<1>2. ASSUME UNCHANGED vars, seen' \subseteq seen, pending' \subseteq pending PROVE Goal
  BY <1>0, <1>2, VarsKept
<1>3. ASSUME NEW p \in PartIds,
             \/ Land(p) \/ SpawnFails(p) \/ Rest(p) \/ AwaitedSpawnLands(p) \/ KillSpawn(p)
             \/ \E pose \in overdue[p] : OverdueMove(p, pose)
      PROVE  Goal
  <2> HIDE DEF Goal
  <2> QED BY <1>2, <1>3 DEF Land, SpawnFails, Rest, AwaitedSpawnLands, KillSpawn, OverdueMove
<1>4. ASSUME \/ TableAppears \/ TableFails \/ StartTable \/ TableTimeout
             \/ StartSettle \/ StartSleep \/ EndSleep
      PROVE  Goal
  <2> HIDE DEF Goal
  <2> QED BY <1>2, <1>4 DEF TableAppears, TableFails, StartTable, TableTimeout, StartSettle,
                            StartSleep, EndSleep
<1>5. ASSUME SpawnAll PROVE Goal
  BY <1>0, <1>5, SpawnDoes DEF Early
<1>6. ASSUME GazeboCorrection PROVE Goal
  BY <1>6, CorrectionDoes
<1>7. ASSUME NEW j \in PartIndex, GazeboPickApproach(j)
      PROVE  Goal
  BY <1>7, ApproachDoes
<1>8. ASSUME NEW j \in PartIndex, GazeboFinishPick(j)
      PROVE  Goal
  BY <1>8, PickDoes
<1>9. ASSUME NEW j \in PartIndex, GazeboPickRetreat(j)
      PROVE  Goal
  BY <1>9, RetreatDoes
<1>10. Goal
  <2> HIDE DEF Goal
  <2> QED BY <1>1, <1>3, <1>4, <1>5, <1>6, <1>7, <1>8, <1>9, GazeboSteps DEF GazeboStep
<1>11. QED
  BY <1>10

LEMMA TakenStep == AllOK /\ GazeboStep => TakenOK'
<1> SUFFICES ASSUME AllOK, GazeboStep, NEW i \in PartIndex
             PROVE  /\ Unbuilt' \/ PartAt(i) \in flight' => body'[PartAt(i)] = "absent"
                    /\ body'[PartAt(i)] # "absent" => bodyPose'[PartAt(i)] \in Pose
                    /\ body'[PartAt(i)] = "taken" => Grabbed(i)'
                    /\ Grabbed(i)' => \/ body'[PartAt(i)] \in {"taken", "absent"}
                                      \/ PartAt(i) \in givenUp'
  BY DEF TakenOK, PartAt, PartIndex
<1> USE DEF AllOK, GazeboOK
<1> DEFINE p == PartAt(i)
           Goal == /\ Unbuilt' \/ p \in flight' => body'[p] = "absent"
                   /\ body'[p] # "absent" => bodyPose'[p] \in Pose
                   /\ body'[p] = "taken" => Grabbed(i)'
                   /\ Grabbed(i)' => body'[p] \in {"taken", "absent"} \/ p \in givenUp'
<1>0. /\ p \in PartIds
      /\ Unbuilt \/ p \in flight => body[p] = "absent"
      /\ body[p] # "absent" => bodyPose[p] \in Pose
      /\ body[p] = "taken" => Grabbed(i)
      /\ Grabbed(i) => body[p] \in {"taken", "absent"} \/ p \in givenUp
      /\ Grabbed(i) => pending = {}
      /\ flight \subseteq pending \cup givenUp
      /\ Unbuilt => flight = {}
  BY PartAtType, GrabbedLate DEF TakenOK, SpawnsOK
<1>1. ASSUME Aside PROVE Goal
  <2>1. UNCHANGED <<flight, body, bodyPose, givenUp>>
    BY <1>1, AsideKeeps DEF gazeboVars
  <2>2. QED
    <3> HIDE DEF p
    <3> QED BY <1>0, <1>1, <2>1, AsideKeeps
<1>2. ASSUME UNCHANGED vars, UNCHANGED <<body, bodyPose>>, flight' \subseteq flight,
             givenUp \subseteq givenUp'
      PROVE  Goal
  <2> HIDE DEF p
  <2> QED BY <1>0, <1>2, VarsKept
<1>a. ASSUME NEW q \in PartIds, NEW pose \in overdue[q], OverdueMove(q, pose)
      PROVE  Goal
  <2>1. /\ UNCHANGED vars /\ UNCHANGED <<flight, givenUp>>
        /\ \/ body'[p] = body[p] /\ bodyPose'[p] = bodyPose[p]
           \/ /\ body[p] \in {"falling", "resting"} /\ body'[p] = "falling"
              /\ bodyPose'[p] \in Pose
    BY <1>a, OverduePart
  <2>2. QED
    <3> HIDE DEF p
    <3> QED BY <1>0, <2>1, VarsKept
<1>3. ASSUME NEW q \in PartIds, Land(q)
      PROVE  Goal
  <2>1. CASE q = p
    <3>1. /\ p \notin flight' /\ body'[p] = "falling" /\ bodyPose'[p] \in Pose
          /\ UNCHANGED vars /\ givenUp' = givenUp /\ p \in flight
      BY <1>0, <1>3, <2>1, PartFields DEF Land, BodyTypeOK
    <3>2. QED
      <4> HIDE DEF p
      <4> QED BY <1>0, <3>1, VarsKept
  <2>2. CASE q # p
    <3>1. /\ p \in flight' <=> p \in flight
          /\ body'[p] = body[p] /\ bodyPose'[p] = bodyPose[p]
          /\ UNCHANGED vars /\ givenUp' = givenUp
      BY <1>0, <1>3, <2>2 DEF Land, BodyTypeOK
    <3>2. QED
      <4> HIDE DEF p
      <4> QED BY <1>0, <3>1, VarsKept
  <2>3. QED
    BY <2>1, <2>2
<1>4. ASSUME NEW q \in PartIds, Rest(q)
      PROVE  Goal
  <2>1. CASE q = p
    <3>1. bodyPose[p] \in Pose
      BY <1>0, <1>4, <2>1 DEF Rest
    <3>2. LyingOn(p, Level, bodyPose[p]) \in Pose
      BY <1>0, <3>1, LevelType, LyingOnType
    <3>3. /\ body[p] = "falling" /\ body'[p] = "resting" /\ bodyPose'[p] \in Pose
          /\ UNCHANGED vars /\ givenUp' = givenUp /\ flight' = flight
      BY <1>0, <1>4, <2>1, <3>2 DEF Rest, BodyTypeOK
    <3>4. QED
      <4> HIDE DEF p
      <4> QED BY <1>0, <3>3, VarsKept
  <2>2. CASE q # p
    <3>1. /\ flight' = flight
          /\ body'[p] = body[p] /\ bodyPose'[p] = bodyPose[p]
          /\ UNCHANGED vars /\ givenUp' = givenUp
      BY <1>0, <1>4, <2>2 DEF Rest, BodyTypeOK
    <3>2. QED
      <4> HIDE DEF p
      <4> QED BY <1>0, <3>1, VarsKept
  <2>3. QED
    BY <2>1, <2>2
<1>5. ASSUME NEW q \in PartIds, SpawnFails(q) \/ AwaitedSpawnLands(q) \/ KillSpawn(q)
      PROVE  Goal
  <2> HIDE DEF Goal
  <2> QED BY <1>2, <1>5 DEF SpawnFails, AwaitedSpawnLands, KillSpawn
<1>6. ASSUME \/ TableAppears \/ TableFails \/ StartTable \/ TableTimeout
             \/ StartSettle \/ StartSleep \/ EndSleep
      PROVE  Goal
  <2> HIDE DEF Goal
  <2> QED BY <1>2, <1>6 DEF TableAppears, TableFails, StartTable, TableTimeout, StartSettle,
                            StartSleep, EndSleep
<1>7. ASSUME SpawnAll PROVE Goal
  <2> HIDE DEF p
  <2> QED BY <1>0, <1>7, SpawnDoes
<1>8. ASSUME GazeboCorrection PROVE Goal
  <2>1. UNCHANGED flight /\ ~ Unbuilt'
    BY <1>8, CorrectionDoes
  <2>2. QED
    <3> HIDE DEF p
    <3> QED BY <1>0, <1>8, <2>1, CorrectedPart DEF Untouched, PutAt, p
<1>9. ASSUME NEW j \in PartIndex, GazeboPickApproach(j)
      PROVE  Goal
  <2>1. UNCHANGED flight /\ ~ Unbuilt'
    BY <1>9, ApproachDoes
  <2>2. QED
    <3> HIDE DEF p
    <3> QED BY <1>0, <1>9, <2>1, ApproachedPart DEF Untouched, PutAt, p
<1>10. ASSUME NEW j \in PartIndex, GazeboFinishPick(j)
       PROVE  Goal
  <2>1. UNCHANGED flight /\ ~ Unbuilt'
    BY <1>10, PickDoes
  <2>2. QED
    <3> HIDE DEF p
    <3> QED BY <1>0, <1>10, <2>1, PickedPart DEF Untouched, p
<1>11. ASSUME NEW j \in PartIndex, GazeboPickRetreat(j)
       PROVE  Goal
  <2>1. UNCHANGED flight /\ ~ Unbuilt'
    BY <1>11, RetreatDoes
  <2>2. QED
    <3> HIDE DEF p
    <3> QED BY <1>0, <1>11, <2>1, LiftedPart DEF Untouched, p
<1>12. Goal
  <2> HIDE DEF Goal
  <2> QED BY <1>1, <1>a, <1>3, <1>4, <1>5, <1>6, <1>7, <1>8, <1>9, <1>10, <1>11, GazeboSteps
         DEF GazeboStep
<1>13. QED
  BY <1>12

(* What the simulator does to one part.                                     *)
LEMMA FallenPart ==
    ASSUME AllOK, NEW q \in PartIds, Land(q) \/ Rest(q), NEW i \in PartIndex
    PROVE  LET p == PartAt(i)
           IN  \/ body'[p] = body[p] /\ bodyPose'[p] = bodyPose[p]
               \/ /\ p \in flight /\ p \in pending \cup givenUp /\ body[p] = "absent"
                  /\ body'[p] = "falling" /\ bodyPose'[p] = Part[p].source
               \/ /\ body[p] = "falling" /\ body'[p] = "resting"
                  /\ bodyPose[p] \in Pose /\ SameSpot(bodyPose'[p], bodyPose[p])
                  /\ bodyPose'[p].xyz.z =
                         Level + Part[p].half.z
<1> USE DEF AllOK, GazeboOK
<1> DEFINE p == PartAt(i)
           level == Level
<1>1. p \in PartIds
  BY PartAtType
<1>2. CASE q # p
  BY <1>1, <1>2 DEF Land, Rest, BodyTypeOK
<1>3. CASE q = p /\ Land(q)
  <2>1. p \in flight /\ body'[p] = "falling" /\ bodyPose'[p] = Part[p].source
    BY <1>1, <1>3 DEF Land, BodyTypeOK
  <2>2. p \in pending \cup givenUp /\ body[p] = "absent"
    BY <2>1 DEF SpawnsOK, TakenOK
  <2>3. QED
    BY <2>1, <2>2
<1>4. CASE q = p /\ Rest(q)
  <2>1. /\ body[p] = "falling" /\ body'[p] = "resting"
        /\ bodyPose'[p] = LyingOn(p, level, bodyPose[p])
    BY <1>1, <1>4 DEF Rest, BodyTypeOK
  <2>2. bodyPose[p] \in Pose
    BY <2>1 DEF TakenOK
  <2>3. level \in Int
    BY LevelType
  <2>4. /\ SameSpot(bodyPose'[p], bodyPose[p])
        /\ bodyPose'[p].xyz.z = level + Part[p].half.z
    <3> HIDE DEF p, level
    <3> QED BY <1>1, <2>1, <2>2, <2>3, LyingOnType
  <2>5. QED
    BY <2>1, <2>2, <2>4
<1>5. QED
  BY <1>2, <1>3, <1>4

LEMMA TableStep == AllOK /\ GazeboStep => TableOK'
<1> SUFFICES ASSUME AllOK, GazeboStep, NEW i \in PartIndex
             PROVE  /\ table' \in {"missing", "late", "tardy"} /\ body'[PartAt(i)] # "taken" =>
                           PartAt(i) \in unsure'
                    /\ body'[PartAt(i)] = "resting" =>
                           \/ PartAt(i) \in unsure'
                           \/ bodyPose'[PartAt(i)].xyz.z = TableTop + Part[PartAt(i)].half.z
  BY DEF TableOK, PartAt, PartIndex
<1> USE DEF AllOK, GazeboOK
<1> DEFINE p == PartAt(i)
           Goal == /\ table' \in {"missing", "late", "tardy"} /\ body'[p] # "taken" => p \in unsure'
                   /\ body'[p] = "resting" =>
                          p \in unsure' \/ bodyPose'[p].xyz.z = TableTop + Part[p].half.z
<1>0. /\ p \in PartIds
      /\ table \in {"missing", "late", "tardy"} /\ body[p] # "taken" => p \in unsure
      /\ body[p] = "resting" =>
             p \in unsure \/ bodyPose[p].xyz.z = TableTop + Part[p].half.z
      /\ body[p] = "taken" => Grabbed(i)
      /\ Unbuilt \/ p \in flight => body[p] = "absent"
      /\ table \in {"none", "spawning", "there", "missing", "late", "tardy"}
      /\ table \in {"none", "spawning"} => Unbuilt
      /\ unsure \subseteq PartIds
      /\ table = "there" => Level = TableTop
  BY PartAtType DEF TableOK, TakenOK, BodyTypeOK, SpawnsOK, Level
<1>1. ASSUME table' = table, body'[p] = body[p], bodyPose'[p] = bodyPose[p],
             p \in unsure => p \in unsure'
      PROVE  Goal
  <2> HIDE DEF p
  <2> QED BY <1>0, <1>1
<1>2. ASSUME Aside PROVE Goal
  <2> HIDE DEF Goal
  <2> QED BY <1>1, <1>2, AsideKeeps DEF gazeboVars
<1>3. ASSUME NEW q \in PartIds, Land(q) \/ Rest(q)
      PROVE  Goal
  <2>1. table' = table /\ unsure' = unsure
    BY <1>3 DEF Land, Rest
  <2>2. QED
    <3> HIDE DEF p
    <3> QED BY <1>0, <1>3, <2>1, FallenPart DEF p
<1>4. ASSUME NEW q \in PartIds, SpawnFails(q) \/ AwaitedSpawnLands(q) \/ KillSpawn(q)
      PROVE  Goal
  <2> HIDE DEF Goal
  <2> QED BY <1>1, <1>4 DEF SpawnFails, AwaitedSpawnLands, KillSpawn
<1>a. ASSUME NEW q \in PartIds, NEW pose \in overdue[q], OverdueMove(q, pose)
      PROVE  Goal
  <2>1. /\ UNCHANGED <<table, unsure>>
        /\ \/ body'[p] = body[p] /\ bodyPose'[p] = bodyPose[p]
           \/ body[p] \in {"falling", "resting"} /\ body'[p] = "falling"
    BY <1>a, OverduePart
  <2>2. QED
    <3> HIDE DEF p
    <3> QED BY <1>0, <2>1
<1>5. ASSUME StartSettle \/ StartSleep \/ EndSleep PROVE Goal
  <2> HIDE DEF Goal
  <2> QED BY <1>1, <1>5 DEF StartSettle, StartSleep, EndSleep
<1>6. ASSUME TableAppears \/ TableFails \/ StartTable \/ TableTimeout PROVE Goal
  <2> HIDE DEF p
  <2> QED BY <1>0, <1>6 DEF TableAppears, TableFails, StartTable, TableTimeout
<1>7. ASSUME SpawnAll PROVE Goal
  <2> HIDE DEF Goal
  <2> QED BY <1>1, <1>7, SpawnDoes
<1>8. ASSUME GazeboCorrection PROVE Goal
  <2>1. table' = table
    BY <1>8, CorrectionDoes
  <2>2. QED
    <3> HIDE DEF p
    <3> QED BY <1>0, <1>8, <2>1, CorrectedPart DEF Untouched, PutAt, p
<1>9. ASSUME NEW j \in PartIndex, GazeboPickApproach(j)
      PROVE  Goal
  <2>1. table' = table
    BY <1>9, ApproachDoes
  <2>2. QED
    <3> HIDE DEF p
    <3> QED BY <1>0, <1>9, <2>1, ApproachedPart DEF Untouched, PutAt, p
<1>10. ASSUME NEW j \in PartIndex, GazeboFinishPick(j)
       PROVE  Goal
  <2>1. table' = table
    BY <1>10, PickDoes
  <2>2. QED
    <3> HIDE DEF p
    <3> QED BY <1>0, <1>10, <2>1, PickedPart DEF Untouched, p
<1>11. ASSUME NEW j \in PartIndex, GazeboPickRetreat(j)
       PROVE  Goal
  <2> HIDE DEF Goal
  <2> QED BY <1>1, <1>11, RetreatDoes
<1>12. Goal
  <2> HIDE DEF Goal
  <2> QED BY <1>2, <1>3, <1>4, <1>a, <1>5, <1>6, <1>7, <1>8, <1>9, <1>10, <1>11, GazeboSteps
         DEF GazeboStep
<1>13. QED
  BY <1>12

(* Where a part is believed once it was seen or told of at a pose.          *)
LEMMA BelievedAt ==
    ASSUME NEW i \in PartIndex
    PROVE  /\ \A pose \in Pose : observed'[PartAt(i)] = pose => PoseOf(PartAt(i))' = pose
           /\ observed'[PartAt(i)] = observed[PartAt(i)] => PoseOf(PartAt(i))' = PoseOf(PartAt(i))
           /\ observed'[PartAt(i)] = NoPose => PoseOf(PartAt(i))' = Part[PartAt(i)].source
BY NoPoseAssumption DEF PoseOf, PartAt

LEMMA WhereStep == AllOK /\ GazeboStep => WhereOK'
<1> SUFFICES ASSUME AllOK, GazeboStep, NEW i \in PartIndex
             PROVE  /\ PartAt(i) \notin unsure' /\ ~ Grabbed(i)' /\ body'[PartAt(i)] # "absent" =>
                           SameSpot(bodyPose'[PartAt(i)], PoseOf(PartAt(i))')
                    /\ PartAt(i) \in seen' /\ ~ Grabbed(i)' =>
                           /\ body'[PartAt(i)] # "absent"
                           /\ SameSpot(bodyPose'[PartAt(i)], PoseOf(PartAt(i))')
  BY DEF WhereOK, SameSpot, PoseOf, PartAt, PartIndex
<1> USE DEF AllOK, GazeboOK
<1> DEFINE p == PartAt(i)
           now == PoseOf(p)
           next == PoseOf(p)'
           Goal == /\ p \notin unsure' /\ ~ Grabbed(i)' /\ body'[p] # "absent" =>
                          SameSpot(bodyPose'[p], next)
                   /\ p \in seen' /\ ~ Grabbed(i)' =>
                          body'[p] # "absent" /\ SameSpot(bodyPose'[p], next)
<1>0. /\ p \in PartIds
      /\ p \notin unsure /\ ~ Grabbed(i) /\ body[p] # "absent" => SameSpot(bodyPose[p], now)
      /\ p \in seen /\ ~ Grabbed(i) => body[p] # "absent" /\ SameSpot(bodyPose[p], now)
      /\ pending # {} => observed[p] = NoPose
      /\ givenUp \subseteq unsure
      /\ overdue[p] # {} => p \in unsure
      /\ \A pose \in Pose : SameSpot(pose, pose)
  BY PartAtType DEF WhereOK, WaitingOK, SpawnsOK, OverdueOK, SameSpot
<1>a. /\ \A pose \in Pose : observed'[p] = pose => next = pose
      /\ observed'[p] = observed[p] => next = now
      /\ observed'[p] = NoPose => next = Part[p].source
  BY BelievedAt
<1>b. \A one, two, three : SameSpot(one, two) /\ SameSpot(two, three) => SameSpot(one, three)
  BY DEF SameSpot
<1>1. ASSUME body'[p] = body[p], bodyPose'[p] = bodyPose[p], next = now,
             Grabbed(i)' <=> Grabbed(i), p \in unsure => p \in unsure', p \in seen' => p \in seen
      PROVE  Goal
  <2> HIDE DEF p, now, next
  <2> QED BY <1>0, <1>1
<1>2. ASSUME Aside PROVE Goal
  <2>1. UNCHANGED gazeboVars /\ (Grabbed(i) <=> Grabbed(i)')
    BY <1>2, AsideKeeps
  <2>2. CASE observed'[p] = observed[p]
    <3>1. next = now
      BY <1>a, <2>2
    <3>2. QED
      <4> HIDE DEF Goal, next, now
      <4> QED BY <1>1, <2>1, <3>1 DEF gazeboVars
  <2>3. CASE Grabbed(i)
    BY <2>1, <2>3
  <2>4. QED
    BY <1>2, <2>2, <2>3, AsideKeeps
<1>3. ASSUME UNCHANGED vars PROVE next = now /\ (Grabbed(i)' <=> Grabbed(i))
  BY <1>a, <1>3, VarsKept
<1>4. ASSUME NEW q \in PartIds, Land(q) \/ Rest(q)
      PROVE  Goal
  <2>1. UNCHANGED vars /\ UNCHANGED <<unsure, seen>>
    BY <1>4 DEF Land, Rest
  <2>2. next = now /\ (Grabbed(i)' <=> Grabbed(i))
    BY <1>3, <2>1
  <2>3. CASE body'[p] = body[p] /\ bodyPose'[p] = bodyPose[p]
    <3> HIDE DEF Goal, p, next, now
    <3> QED BY <1>1, <2>1, <2>2, <2>3
  <2>4. CASE /\ p \in pending \cup givenUp /\ body[p] = "absent"
             /\ bodyPose'[p] = Part[p].source
    <3>1. p \in pending => now = Part[p].source
      BY <1>0 DEF PoseOf
    <3>2. Part[p].source \in Pose
      BY <1>0, PartFields
    <3>3. QED
      <4> HIDE DEF p, next, now
      <4> QED BY <1>0, <2>1, <2>2, <2>4, <3>1, <3>2
  <2>5. CASE /\ body[p] = "falling" /\ body'[p] = "resting"
             /\ SameSpot(bodyPose'[p], bodyPose[p])
    <3> HIDE DEF p, next, now
    <3> QED BY <1>0, <1>b, <2>1, <2>2, <2>5
  <2>6. QED
    BY <1>4, <2>3, <2>4, <2>5, FallenPart
<1>c. ASSUME NEW q \in PartIds, NEW pose \in overdue[q], OverdueMove(q, pose)
      PROVE  Goal
  <2>1. /\ UNCHANGED vars /\ unsure' = unsure /\ seen' \subseteq seen
        /\ \/ body'[p] = body[p] /\ bodyPose'[p] = bodyPose[p]
           \/ overdue[p] # {} /\ p \notin seen'
    BY <1>c, OverduePart
  <2>2. next = now /\ (Grabbed(i)' <=> Grabbed(i))
    BY <1>3, <2>1
  <2>3. QED
    <3> HIDE DEF p, next, now
    <3> QED BY <1>0, <2>1, <2>2
<1>5. ASSUME NEW q \in PartIds, SpawnFails(q) \/ AwaitedSpawnLands(q) \/ KillSpawn(q)
      PROVE  Goal
  <2>1. UNCHANGED vars /\ UNCHANGED <<body, bodyPose, seen>> /\ unsure \subseteq unsure'
    BY <1>5 DEF SpawnFails, AwaitedSpawnLands, KillSpawn
  <2>2. next = now /\ (Grabbed(i)' <=> Grabbed(i))
    BY <1>3, <2>1
  <2>3. QED
    <3> HIDE DEF Goal, next, now
    <3> QED BY <1>1, <2>1, <2>2
<1>6. ASSUME \/ TableAppears \/ TableFails \/ StartTable \/ TableTimeout
             \/ StartSettle \/ StartSleep \/ EndSleep
      PROVE  Goal
  <2>1. UNCHANGED vars /\ UNCHANGED <<body, bodyPose, seen>> /\ (p \in unsure => p \in unsure')
    BY <1>0, <1>6 DEF TableAppears, TableFails, StartTable, TableTimeout, StartSettle, StartSleep,
                      EndSleep
  <2>2. next = now /\ (Grabbed(i)' <=> Grabbed(i))
    BY <1>3, <2>1
  <2>3. QED
    <3> HIDE DEF Goal, next, now
    <3> QED BY <1>1, <2>1, <2>2
<1>7. ASSUME SpawnAll PROVE Goal
  <2>1. /\ UNCHANGED <<body, bodyPose, unsure, seen, observed>>
        /\ ~ Grabbed(i)' /\ ~ Grabbed(i)
    BY <1>7, SpawnDoes
  <2>2. next = now
    BY <1>a, <2>1
  <2>3. QED
    <3> HIDE DEF Goal, next, now
    <3> QED BY <1>1, <2>1, <2>2
(* A part the job leaves where it was, or has put somewhere else.            *)
<1>8. ASSUME Untouched(p), Grabbed(i)' <=> Grabbed(i) PROVE Goal
  <2>1. next = now
    BY <1>8, <1>a DEF Untouched
  <2>2. QED
    <3> HIDE DEF Goal, next, now
    <3> QED BY <1>1, <1>8, <2>1 DEF Untouched
<1>9. ASSUME GazeboCorrection PROVE Goal
  <2>1. UNCHANGED seen /\ p \notin seen /\ ~ Grabbed(i) /\ ~ Grabbed(i)'
    BY <1>9, CorrectionDoes, CorrectedPart
  <2>2. CASE Untouched(p)
    <3> HIDE DEF Goal
    <3> QED BY <1>8, <2>1, <2>2
  <2>3. ASSUME NEW pose \in Pose, PutAt(p, pose)
        PROVE  Goal
    <3>1. next = pose
      BY <1>a, <2>3 DEF PutAt
    <3>2. QED
      <4> HIDE DEF p, next, now
      <4> QED BY <1>0, <2>1, <2>3, <3>1 DEF PutAt
  <2>4. QED
    <3> HIDE DEF Goal
    <3> QED BY <1>9, <2>2, <2>3, CorrectedPart
<1>10. ASSUME NEW j \in PartIndex, GazeboPickApproach(j)
       PROVE  Goal
  <2>1. Grabbed(i)' <=> Grabbed(i)
    BY <1>10, ApproachedPart
  <2>2. CASE Untouched(p)
    <3> HIDE DEF Goal
    <3> QED BY <1>8, <2>1, <2>2
  <2>3. CASE body[p] # "absent" /\ bodyPose[p] \in Pose /\ PutAt(p, bodyPose[p])
    <3>1. next = bodyPose[p]
      BY <1>a, <2>3 DEF PutAt
    <3>2. QED
      <4> HIDE DEF p, next, now
      <4> QED BY <1>0, <2>3, <3>1 DEF PutAt
  <2>4. QED
    BY <1>10, <2>2, <2>3, ApproachedPart
<1>11. ASSUME NEW j \in PartIndex, GazeboFinishPick(j)
       PROVE  Goal
  <2>1. CASE Untouched(p) /\ (Grabbed(i)' <=> Grabbed(i))
    <3> HIDE DEF Goal
    <3> QED BY <1>8, <2>1
  <2>2. CASE Grabbed(i)'
    BY <2>2
  <2>3. QED
    BY <1>11, <2>1, <2>2, PickedPart
<1>12. ASSUME NEW j \in PartIndex, GazeboPickRetreat(j)
       PROVE  Goal
  <2> HIDE DEF Goal
  <2> QED BY <1>8, <1>12, LiftedPart
<1>13. Goal
  <2> HIDE DEF Goal
  <2> QED BY <1>2, <1>4, <1>c, <1>5, <1>6, <1>7, <1>9, <1>10, <1>11, <1>12, GazeboSteps
         DEF GazeboStep
<1>14. QED
  BY <1>13

(* The message the job was given stays, and with it what it says of heights. *)
LEMMA HeightMessageStays ==
    ASSUME AllOK, GazeboStep, NEW i \in PartIndex
    PROVE  HeightCorrected(PartAt(i))' <=> HeightCorrected(PartAt(i))
<1>1. correction' = correction
  BY GazeboNextIsAny, MessageStays DEF AllOK, GazeboOK, JobOK, GazeboStep
<1>2. QED
  BY <1>1 DEF HeightCorrected, PartAt, Accepted, LowConfidence, TranslationOutOfBounds,
              RotationOutOfBounds

LEMMA OverdueStep == AllOK /\ GazeboStep => OverdueOK'
<1> SUFFICES ASSUME AllOK, GazeboStep, NEW i \in PartIndex
             PROVE  /\ Unbuilt' => overdue'[PartAt(i)] = {}
                    /\ overdue'[PartAt(i)] # {} => PartAt(i) \in unsure'
  BY DEF OverdueOK, PartAt, PartIndex
<1> USE DEF AllOK, GazeboOK
<1> DEFINE p == PartAt(i)
           Goal == /\ Unbuilt' => overdue'[p] = {}
                   /\ overdue'[p] # {} => p \in unsure'
<1>0. /\ p \in PartIds
      /\ Unbuilt => overdue[p] = {}
      /\ overdue[p] # {} => p \in unsure
  BY PartAtType DEF OverdueOK
<1>1. ASSUME overdue'[p] = overdue[p], Unbuilt' => Unbuilt, p \in unsure => p \in unsure'
      PROVE  Goal
  <2> HIDE DEF p
  <2> QED BY <1>0, <1>1
<1>2. ASSUME Aside PROVE Goal
  <2> HIDE DEF Goal
  <2> QED BY <1>1, <1>2, AsideKeeps DEF gazeboVars
<1>3. ASSUME NEW q \in PartIds,
             \/ Land(q) \/ SpawnFails(q) \/ Rest(q) \/ AwaitedSpawnLands(q) \/ KillSpawn(q)
             \/ \E pose \in overdue[q] : OverdueMove(q, pose)
      PROVE  Goal
  <2>1. UNCHANGED vars /\ overdue' = overdue /\ unsure \subseteq unsure'
    BY <1>3 DEF Land, SpawnFails, Rest, AwaitedSpawnLands, KillSpawn, OverdueMove
  <2>2. QED
    <3> HIDE DEF Goal
    <3> QED BY <1>1, <2>1, VarsKept
<1>4. ASSUME \/ TableAppears \/ TableFails \/ StartTable \/ TableTimeout
             \/ StartSettle \/ StartSleep \/ EndSleep
      PROVE  Goal
  <2>1. UNCHANGED vars /\ overdue' = overdue /\ (p \in unsure => p \in unsure')
    BY <1>0, <1>4 DEF TableAppears, TableFails, StartTable, TableTimeout, StartSettle, StartSleep,
                      EndSleep
  <2>2. QED
    <3> HIDE DEF Goal
    <3> QED BY <1>1, <2>1, VarsKept
<1>5. ASSUME SpawnAll PROVE Goal
  <2> HIDE DEF Goal
  <2> QED BY <1>1, <1>5, SpawnDoes
<1>6. ASSUME GazeboCorrection PROVE Goal
  <2>1. ~ Unbuilt'
    BY <1>6, CorrectionDoes
  <2>2. QED
    <3> HIDE DEF p
    <3> QED BY <1>0, <1>6, <2>1, CorrectedPart DEF Untouched, PutAt, p
<1>7. ASSUME NEW j \in PartIndex, GazeboPickApproach(j)
      PROVE  Goal
  <2>1. ~ Unbuilt'
    BY <1>7, ApproachDoes
  <2>2. QED
    <3> HIDE DEF p
    <3> QED BY <1>0, <1>7, <2>1, ApproachedPart DEF Untouched, PutAt, p
<1>8. ASSUME NEW j \in PartIndex, GazeboFinishPick(j)
      PROVE  Goal
  <2>1. ~ Unbuilt'
    BY <1>8, PickDoes
  <2>2. QED
    <3> HIDE DEF p
    <3> QED BY <1>0, <1>8, <2>1, PickedPart DEF Untouched, p
<1>9. ASSUME NEW j \in PartIndex, GazeboPickRetreat(j)
      PROVE  Goal
  <2> HIDE DEF Goal
  <2> QED BY <1>1, <1>9, RetreatDoes
<1>10. Goal
  <2> HIDE DEF Goal
  <2> QED BY <1>2, <1>3, <1>4, <1>5, <1>6, <1>7, <1>8, <1>9, GazeboSteps DEF GazeboStep
<1>11. QED
  BY <1>10

LEMMA LevelStep == AllOK /\ GazeboStep => LevelOK'
<1> SUFFICES ASSUME AllOK, GazeboStep, NEW i \in PartIndex,
                    table' = "there", ~ HeightCorrected(PartAt(i))
             PROVE  /\ body'[PartAt(i)] \in {"falling", "resting"} =>
                           bodyPose'[PartAt(i)].xyz.z = LyingHeight(PartAt(i))
                    /\ ~ Grabbed(i)' => PoseOf(PartAt(i))'.xyz.z = LyingHeight(PartAt(i))
                    /\ \A pose \in overdue'[PartAt(i)] : pose.xyz.z = LyingHeight(PartAt(i))
  BY HeightMessageStays DEF LevelOK, PoseOf, LyingHeight, PartAt, PartIndex
<1> USE DEF AllOK, GazeboOK
<1> DEFINE p == PartAt(i)
           height == LyingHeight(p)
           now == PoseOf(p)
           next == PoseOf(p)'
           Goal == /\ body'[p] \in {"falling", "resting"} => bodyPose'[p].xyz.z = height
                   /\ ~ Grabbed(i)' => next.xyz.z = height
                   /\ \A pose \in overdue'[p] : pose.xyz.z = height
<1>0. /\ p \in PartIds
      /\ table = "there" =>
             /\ body[p] \in {"falling", "resting"} => bodyPose[p].xyz.z = height
             /\ ~ Grabbed(i) => now.xyz.z = height
             /\ \A pose \in overdue[p] : pose.xyz.z = height
      /\ body[p] \in {"absent", "falling", "resting", "taken"}
      /\ body[p] = "taken" => Grabbed(i)
      /\ table = "there" => Level + Part[p].half.z = height
      /\ Part[p].source.xyz.z = height
  BY PartAtType, UndersideAssumption DEF LevelOK, TakenOK, BodyTypeOK, LyingHeight, Level
<1>a. /\ \A pose \in Pose : observed'[p] = pose => next = pose
      /\ observed'[p] = observed[p] => next = now
  BY BelievedAt
<1>1. ASSUME table' = table, body'[p] = body[p], bodyPose'[p] = bodyPose[p], next = now,
             Grabbed(i)' <=> Grabbed(i), overdue'[p] = overdue[p]
      PROVE  Goal
  <2> HIDE DEF p, height, now, next
  <2> QED BY <1>0, <1>1
<1>2. ASSUME Aside PROVE Goal
  <2>1. UNCHANGED gazeboVars /\ (Grabbed(i) <=> Grabbed(i)')
    BY <1>2, AsideKeeps
  <2>2. CASE observed'[p] = observed[p]
    <3>1. next = now
      BY <1>a, <2>2
    <3>2. QED
      <4> HIDE DEF Goal, next, now
      <4> QED BY <1>1, <2>1, <3>1 DEF gazeboVars
  <2>3. CASE Grabbed(i)
    <3>1. UNCHANGED <<table, body, bodyPose, overdue>>
      BY <2>1 DEF gazeboVars
    <3>2. QED
      <4> HIDE DEF p, height, now, next
      <4> QED BY <1>0, <2>1, <2>3, <3>1
  <2>4. QED
    BY <1>2, <2>2, <2>3, AsideKeeps
<1>3. ASSUME UNCHANGED vars PROVE next = now /\ (Grabbed(i)' <=> Grabbed(i))
  BY <1>a, <1>3, VarsKept
<1>4. ASSUME NEW q \in PartIds, Land(q) \/ Rest(q)
      PROVE  Goal
  <2>1. UNCHANGED vars /\ UNCHANGED <<table, overdue>>
    BY <1>4 DEF Land, Rest
  <2>2. next = now /\ (Grabbed(i)' <=> Grabbed(i))
    BY <1>3, <2>1
  <2>3. \/ body'[p] = body[p] /\ bodyPose'[p] = bodyPose[p]
        \/ bodyPose'[p] = Part[p].source
        \/ bodyPose'[p].xyz.z = Level + Part[p].half.z
    BY <1>4, FallenPart
  <2>4. QED
    <3> HIDE DEF p, height, now, next
    <3> QED BY <1>0, <2>1, <2>2, <2>3
<1>5. ASSUME NEW q \in PartIds, NEW pose \in overdue[q], OverdueMove(q, pose)
      PROVE  Goal
  <2>1. /\ UNCHANGED vars /\ UNCHANGED <<table, overdue>>
        /\ \/ body'[p] = body[p] /\ bodyPose'[p] = bodyPose[p]
           \/ bodyPose'[p] \in overdue[p]
    BY <1>5, OverduePart
  <2>2. next = now /\ (Grabbed(i)' <=> Grabbed(i))
    BY <1>3, <2>1
  <2>3. QED
    <3> HIDE DEF p, height, now, next
    <3> QED BY <1>0, <2>1, <2>2
<1>6. ASSUME NEW q \in PartIds, SpawnFails(q) \/ AwaitedSpawnLands(q) \/ KillSpawn(q)
      PROVE  Goal
  <2>1. UNCHANGED vars /\ UNCHANGED <<table, body, bodyPose, overdue>>
    BY <1>6 DEF SpawnFails, AwaitedSpawnLands, KillSpawn
  <2>2. next = now /\ (Grabbed(i)' <=> Grabbed(i))
    BY <1>3, <2>1
  <2>3. QED
    <3> HIDE DEF Goal, next, now
    <3> QED BY <1>1, <2>1, <2>2
<1>7. ASSUME StartSettle \/ StartSleep \/ EndSleep PROVE Goal
  <2>1. UNCHANGED vars /\ UNCHANGED <<table, body, bodyPose, overdue>>
    BY <1>7 DEF StartSettle, StartSleep, EndSleep
  <2>2. next = now /\ (Grabbed(i)' <=> Grabbed(i))
    BY <1>3, <2>1
  <2>3. QED
    <3> HIDE DEF Goal, next, now
    <3> QED BY <1>1, <2>1, <2>2
(* The table appears before any part does. *)
<1>8. ASSUME TableAppears \/ TableFails \/ StartTable \/ TableTimeout PROVE Goal
  <2>1. TableAppears /\ table = "spawning"
    BY <1>8 DEF TableAppears, TableFails, StartTable, TableTimeout
  <2>2. UNCHANGED vars /\ UNCHANGED <<body, bodyPose, overdue>>
    BY <2>1 DEF TableAppears
  <2>3. next = now /\ (Grabbed(i)' <=> Grabbed(i))
    BY <1>3, <2>2
  <2>4. Unbuilt
    BY <2>1 DEF SpawnsOK
  <2>5. body[p] = "absent" /\ observed[p] = NoPose /\ overdue[p] = {}
    BY <2>4 DEF TakenOK, WaitingOK, Early, OverdueOK
  <2>6. now = Part[p].source
    BY <2>5 DEF PoseOf
  <2>7. QED
    <3> HIDE DEF p, height, now, next
    <3> QED BY <1>0, <2>2, <2>3, <2>5, <2>6
<1>9. ASSUME SpawnAll PROVE Goal
  <2>1. /\ UNCHANGED <<table, body, bodyPose, overdue, observed>>
        /\ ~ Grabbed(i)' /\ ~ Grabbed(i)
    BY <1>9, SpawnDoes DEF SpawnAll
  <2>2. next = now
    BY <1>a, <2>1
  <2>3. QED
    <3> HIDE DEF Goal, next, now
    <3> QED BY <1>1, <2>1, <2>2
<1>10. ASSUME Untouched(p), Grabbed(i)' <=> Grabbed(i), table' = table PROVE Goal
  <2>1. next = now
    BY <1>10, <1>a DEF Untouched
  <2>2. QED
    <3> HIDE DEF Goal, next, now
    <3> QED BY <1>1, <1>10, <2>1 DEF Untouched
<1>11. ASSUME NEW pose \in Pose, PutAt(p, pose), pose.xyz.z = height, table' = table PROVE Goal
  <2>1. next = pose
    BY <1>a, <1>11 DEF PutAt
  <2>2. QED
    <3> HIDE DEF p, height, now, next
    <3> QED BY <1>0, <1>11, <2>1 DEF PutAt
<1>12. ASSUME GazeboCorrection PROVE Goal
  <2>1. table' = table /\ ~ Grabbed(i) /\ ~ Grabbed(i)'
    BY <1>12, CorrectionDoes, CorrectedPart
  <2>2. CASE Untouched(p)
    <3> HIDE DEF Goal
    <3> QED BY <1>10, <2>1, <2>2
  <2>3. ASSUME NEW pose \in Pose, PutAt(p, pose), pose.xyz.z = Part[p].source.xyz.z
        PROVE  Goal
    <3> HIDE DEF Goal, p, height
    <3> QED BY <1>0, <1>11, <2>1, <2>3
  <2>4. QED
    <3> HIDE DEF Goal
    <3> QED BY <1>12, <2>2, <2>3, CorrectedPart
<1>13. ASSUME NEW j \in PartIndex, GazeboPickApproach(j)
       PROVE  Goal
  <2>1. table' = table /\ (Grabbed(i)' <=> Grabbed(i))
    BY <1>13, ApproachDoes, ApproachedPart
  <2>2. CASE Untouched(p)
    <3> HIDE DEF Goal
    <3> QED BY <1>10, <2>1, <2>2
  <2>3. CASE /\ body[p] # "absent" /\ bodyPose[p] \in Pose /\ PutAt(p, bodyPose[p])
             /\ ~ Grabbed(i)
    <3>1. bodyPose[p].xyz.z = height
      <4> HIDE DEF p, height
      <4> QED BY <1>0, <2>1, <2>3
    <3>2. QED
      <4> HIDE DEF Goal, p, height
      <4> QED BY <1>11, <2>1, <2>3, <3>1
  <2>4. QED
    BY <1>13, <2>2, <2>3, ApproachedPart
<1>14. ASSUME NEW j \in PartIndex, GazeboFinishPick(j)
       PROVE  Goal
  <2>1. table' = table
    BY <1>14, PickDoes
  <2>2. CASE Untouched(p) /\ (Grabbed(i)' <=> Grabbed(i))
    <3> HIDE DEF Goal
    <3> QED BY <1>10, <2>1, <2>2
  <2>3. CASE Untouched(p) /\ Grabbed(i)' /\ body[p] = "absent"
    <3> HIDE DEF p, height, next
    <3> QED BY <1>0, <2>1, <2>3 DEF Untouched
  <2>4. CASE Grabbed(i)' /\ body'[p] = "taken" /\ overdue'[p] = {}
    <3> HIDE DEF p, height, next
    <3> QED BY <2>4
  <2>5. QED
    BY <1>14, <2>2, <2>3, <2>4, PickedPart
<1>15. ASSUME NEW j \in PartIndex, GazeboPickRetreat(j)
       PROVE  Goal
  <2>1. table' = table
    BY <1>15, RetreatDoes
  <2>2. QED
    <3> HIDE DEF Goal
    <3> QED BY <1>10, <1>15, <2>1, LiftedPart
<1>16. Goal
  <2> HIDE DEF Goal
  <2> QED BY <1>2, <1>4, <1>5, <1>6, <1>7, <1>8, <1>9, <1>12, <1>13, <1>14, <1>15, GazeboSteps
         DEF GazeboStep
<1>17. QED
  BY <1>16

LEMMA HeightStep == AllOK /\ GazeboStep => HeightOK'
<1> SUFFICES ASSUME AllOK, GazeboStep, NEW i \in PartIndex,
                    PartAt(i) \notin unsure', ~ Grabbed(i)', body'[PartAt(i)] # "absent"
             PROVE  \/ bodyPose'[PartAt(i)].xyz.z = PoseOf(PartAt(i))'.xyz.z
                    \/ bodyPose'[PartAt(i)].xyz.z = LyingHeight(PartAt(i))
  BY DEF HeightOK, PoseOf, LyingHeight, PartAt, PartIndex
<1> USE DEF AllOK, GazeboOK
<1> DEFINE p == PartAt(i)
           height == LyingHeight(p)
           now == PoseOf(p)
           next == PoseOf(p)'
           Goal == bodyPose'[p].xyz.z = next.xyz.z \/ bodyPose'[p].xyz.z = height
<1>0. /\ p \in PartIds
      /\ p \notin unsure' /\ ~ Grabbed(i)' /\ body'[p] # "absent"
      /\ p \notin unsure /\ ~ Grabbed(i) /\ body[p] # "absent" =>
             bodyPose[p].xyz.z = now.xyz.z \/ bodyPose[p].xyz.z = height
      /\ pending # {} => observed[p] = NoPose
      /\ givenUp \subseteq unsure
      /\ overdue[p] # {} => p \in unsure
  BY PartAtType DEF HeightOK, WaitingOK, SpawnsOK, OverdueOK
<1>a. /\ \A pose \in Pose : observed'[p] = pose => next = pose
      /\ observed'[p] = observed[p] => next = now
  BY BelievedAt
<1>b. ASSUME p \notin unsure, body[p] = "falling" PROVE Level + Part[p].half.z = height
  <2>1. table = "there"
    BY <1>0, <1>b DEF SpawnsOK, TakenOK, TableOK, BodyTypeOK
  <2>2. QED
    BY <2>1 DEF Level, LyingHeight
<1>1. ASSUME body'[p] = body[p], bodyPose'[p] = bodyPose[p], next = now,
             Grabbed(i)' <=> Grabbed(i), p \in unsure => p \in unsure'
      PROVE  Goal
  <2> HIDE DEF p, height, now, next
  <2> QED BY <1>0, <1>1
<1>2. ASSUME Aside PROVE Goal
  <2>1. UNCHANGED gazeboVars /\ (Grabbed(i) <=> Grabbed(i)')
    BY <1>2, AsideKeeps
  <2>2. observed'[p] = observed[p]
    BY <1>0, <1>2, <2>1, AsideKeeps
  <2>3. next = now
    BY <1>a, <2>2
  <2>4. QED
    <3> HIDE DEF Goal, next, now
    <3> QED BY <1>1, <2>1, <2>3 DEF gazeboVars
<1>3. ASSUME UNCHANGED vars PROVE next = now /\ (Grabbed(i)' <=> Grabbed(i))
  BY <1>a, <1>3, VarsKept
<1>4. ASSUME NEW q \in PartIds, Land(q) \/ Rest(q)
      PROVE  Goal
  <2>1. UNCHANGED vars /\ UNCHANGED unsure
    BY <1>4 DEF Land, Rest
  <2>2. next = now /\ (Grabbed(i)' <=> Grabbed(i))
    BY <1>3, <2>1
  <2>3. CASE body'[p] = body[p] /\ bodyPose'[p] = bodyPose[p]
    <3> HIDE DEF Goal, p, next, now
    <3> QED BY <1>1, <2>1, <2>2, <2>3
  <2>4. CASE p \in pending \cup givenUp /\ bodyPose'[p] = Part[p].source
    <3>1. p \in pending => now = Part[p].source
      BY <1>0 DEF PoseOf
    <3>2. QED
      <4> HIDE DEF p, next, now, height
      <4> QED BY <1>0, <2>1, <2>2, <2>4, <3>1
  <2>5. CASE body[p] = "falling" /\ bodyPose'[p].xyz.z = Level + Part[p].half.z
    <3> HIDE DEF p, next, height
    <3> QED BY <1>0, <1>b, <2>1, <2>5
  <2>6. QED
    BY <1>4, <2>3, <2>4, <2>5, FallenPart
<1>5. ASSUME NEW q \in PartIds, NEW pose \in overdue[q], OverdueMove(q, pose)
      PROVE  Goal
  <2>1. /\ UNCHANGED vars /\ unsure' = unsure
        /\ \/ body'[p] = body[p] /\ bodyPose'[p] = bodyPose[p]
           \/ overdue[p] # {}
    BY <1>5, OverduePart
  <2>2. next = now /\ (Grabbed(i)' <=> Grabbed(i))
    BY <1>3, <2>1
  <2>3. QED
    <3> HIDE DEF p, now, next, height
    <3> QED BY <1>0, <2>1, <2>2
<1>6. ASSUME NEW q \in PartIds, SpawnFails(q) \/ AwaitedSpawnLands(q) \/ KillSpawn(q)
      PROVE  Goal
  <2>1. UNCHANGED vars /\ UNCHANGED <<body, bodyPose>> /\ unsure \subseteq unsure'
    BY <1>6 DEF SpawnFails, AwaitedSpawnLands, KillSpawn
  <2>2. next = now /\ (Grabbed(i)' <=> Grabbed(i))
    BY <1>3, <2>1
  <2>3. QED
    <3> HIDE DEF Goal, next, now
    <3> QED BY <1>1, <2>1, <2>2
<1>7. ASSUME \/ TableAppears \/ TableFails \/ StartTable \/ TableTimeout
             \/ StartSettle \/ StartSleep \/ EndSleep
      PROVE  Goal
  <2>1. UNCHANGED vars /\ UNCHANGED <<body, bodyPose>> /\ (p \in unsure => p \in unsure')
    BY <1>0, <1>7 DEF TableAppears, TableFails, StartTable, TableTimeout, StartSettle, StartSleep,
                      EndSleep
  <2>2. next = now /\ (Grabbed(i)' <=> Grabbed(i))
    BY <1>3, <2>1
  <2>3. QED
    <3> HIDE DEF Goal, next, now
    <3> QED BY <1>1, <2>1, <2>2
<1>8. ASSUME SpawnAll PROVE Goal
  <2>1. UNCHANGED <<body, bodyPose, unsure, observed>> /\ ~ Grabbed(i)' /\ ~ Grabbed(i)
    BY <1>8, SpawnDoes
  <2>2. next = now
    BY <1>a, <2>1
  <2>3. QED
    <3> HIDE DEF Goal, next, now
    <3> QED BY <1>1, <2>1, <2>2
<1>9. ASSUME Untouched(p), Grabbed(i)' <=> Grabbed(i) PROVE Goal
  <2>1. next = now
    BY <1>9, <1>a DEF Untouched
  <2>2. QED
    <3> HIDE DEF Goal, next, now
    <3> QED BY <1>1, <1>9, <2>1 DEF Untouched
<1>10. ASSUME NEW pose \in Pose, PutAt(p, pose) PROVE Goal
  <2>1. next = pose
    BY <1>a, <1>10 DEF PutAt
  <2>2. QED
    <3> HIDE DEF p, height, now, next
    <3> QED BY <1>0, <1>10, <2>1 DEF PutAt
<1>11. ASSUME GazeboCorrection PROVE Goal
  <2>1. ~ Grabbed(i) /\ ~ Grabbed(i)'
    BY <1>11, CorrectedPart
  <2>2. QED
    <3> HIDE DEF Goal
    <3> QED BY <1>9, <1>10, <1>11, <2>1, CorrectedPart
<1>12. ASSUME NEW j \in PartIndex, GazeboPickApproach(j)
       PROVE  Goal
  <2> HIDE DEF Goal
  <2> QED BY <1>9, <1>10, <1>12, ApproachedPart
<1>13. ASSUME NEW j \in PartIndex, GazeboFinishPick(j)
       PROVE  Goal
  <2> HIDE DEF Goal
  <2> QED BY <1>0, <1>9, <1>13, PickedPart
<1>14. ASSUME NEW j \in PartIndex, GazeboPickRetreat(j)
       PROVE  Goal
  <2> HIDE DEF Goal
  <2> QED BY <1>9, <1>14, LiftedPart
<1>15. Goal
  <2> HIDE DEF Goal
  <2> QED BY <1>2, <1>4, <1>5, <1>6, <1>7, <1>8, <1>11, <1>12, <1>13, <1>14, GazeboSteps
         DEF GazeboStep
<1>16. QED
  BY <1>15

LEMMA SettledStep == AllOK /\ GazeboStep => SettledOK'
<1> SUFFICES ASSUME AllOK, GazeboStep, NEW i \in PartIndex,
                    ~ Unbuilt', pending' = {}, settling' \in {"out", "done"},
                    PartAt(i) \notin givenUp', overdue'[PartAt(i)] = {},
                    body'[PartAt(i)] = "falling"
             PROVE  scenePose'[PartAt(i)] = bodyPose'[PartAt(i)] /\ observed'[PartAt(i)] # NoPose
  BY DEF SettledOK, PartAt, PartIndex
<1> USE DEF AllOK, GazeboOK
<1> DEFINE p == PartAt(i)
           Goal == scenePose'[p] = bodyPose'[p] /\ observed'[p] # NoPose
<1>0. /\ p \in PartIds
      /\ ~ Unbuilt /\ pending = {} /\ settling \in {"out", "done"} /\ p \notin givenUp
             /\ overdue[p] = {} /\ body[p] = "falling" =>
             scenePose[p] = bodyPose[p] /\ observed[p] # NoPose
      /\ Grabbed(i) => body[p] \in {"taken", "absent"} \/ p \in givenUp
      /\ Unbuilt => body[p] = "absent"
      /\ ~ Unbuilt'
      /\ pending' = {} /\ settling' \in {"out", "done"} /\ p \notin givenUp'
      /\ overdue'[p] = {} /\ body'[p] = "falling"
  BY PartAtType DEF SettledOK, TakenOK
<1>1. ASSUME body'[p] = body[p], bodyPose'[p] = bodyPose[p], observed'[p] = observed[p],
             scenePose'[p] = scenePose[p], pending = {}, settling \in {"out", "done"},
             p \notin givenUp, overdue[p] = {}
      PROVE  Goal
  <2> HIDE DEF p
  <2> QED BY <1>0, <1>1
<1>2. ASSUME Aside PROVE Goal
  <2>1. UNCHANGED <<pending, body, bodyPose, settling, givenUp, overdue>>
    BY <1>2, AsideKeeps DEF gazeboVars
  <2>2. CASE Grabbed(i)
    <3> HIDE DEF p
    <3> QED BY <1>0, <2>1, <2>2
  <2>3. CASE observed'[p] = observed[p] /\ scenePose'[p] = scenePose[p]
    <3> HIDE DEF Goal, p
    <3> QED BY <1>0, <1>1, <2>1, <2>3
  <2>4. QED
    BY <1>2, <2>2, <2>3, AsideKeeps
<1>3. ASSUME NEW q \in PartIds, Land(q) \/ Rest(q)
      PROVE  Goal
  <2>1. /\ UNCHANGED vars /\ UNCHANGED <<pending, settling, givenUp, overdue>>
        /\ UNCHANGED <<observed, scenePose>>
    BY <1>3, VarsKept DEF Land, Rest
  <2>2. CASE body'[p] = body[p] /\ bodyPose'[p] = bodyPose[p]
    <3> HIDE DEF Goal, p
    <3> QED BY <1>0, <1>1, <2>1, <2>2
  <2>3. CASE p \in pending \cup givenUp
    <3> HIDE DEF p
    <3> QED BY <1>0, <2>1, <2>3
  <2>4. CASE body'[p] = "resting"
    BY <1>0, <2>4
  <2>5. QED
    BY <1>3, <2>2, <2>3, <2>4, FallenPart
<1>a. ASSUME NEW q \in PartIds, NEW pose \in overdue[q], OverdueMove(q, pose)
      PROVE  Goal
  <2>1. /\ UNCHANGED <<pending, settling, givenUp, overdue>>
        /\ UNCHANGED <<observed, scenePose>>
        /\ \/ body'[p] = body[p] /\ bodyPose'[p] = bodyPose[p]
           \/ overdue[p] # {}
    BY <1>a, OverduePart, VarsKept
  <2>2. QED
    <3> HIDE DEF Goal, p
    <3> QED BY <1>0, <1>1, <2>1
<1>4. ASSUME NEW q \in PartIds, SpawnFails(q)
      PROVE  Goal
  <2>1. /\ UNCHANGED <<pending, settling, givenUp, overdue, body, bodyPose>>
        /\ UNCHANGED <<observed, scenePose>>
    BY <1>4, VarsKept DEF SpawnFails
  <2>2. QED
    <3> HIDE DEF Goal, p
    <3> QED BY <1>0, <1>1, <2>1
<1>5. ASSUME NEW q \in PartIds, AwaitedSpawnLands(q) \/ KillSpawn(q)
      PROVE  Goal
  BY <1>0, <1>5 DEF AwaitedSpawnLands, KillSpawn
<1>6. ASSUME TableAppears \/ TableFails \/ StartTable \/ TableTimeout PROVE Goal
  <2>1. /\ UNCHANGED <<pending, settling, givenUp, overdue, body, bodyPose>>
        /\ UNCHANGED <<observed, scenePose>>
    BY <1>6, VarsKept DEF TableAppears, TableFails, StartTable, TableTimeout
  <2>2. QED
    <3> HIDE DEF Goal, p
    <3> QED BY <1>0, <1>1, <2>1
<1>7. ASSUME StartSettle PROVE Goal
  <2>1. /\ UNCHANGED <<pending, givenUp, overdue, body, bodyPose>> /\ settling = "out"
        /\ UNCHANGED <<observed, scenePose>>
    BY <1>7, VarsKept DEF StartSettle
  <2>2. QED
    <3> HIDE DEF Goal, p
    <3> QED BY <1>0, <1>1, <2>1
<1>8. ASSUME StartSleep \/ EndSleep PROVE Goal
  <2>1. settling' = "sleep" \/ (body[p] # "falling" \/ p \in givenUp)
    BY <1>0, <1>8 DEF StartSleep, SleepTime, EndSleep
  <2>2. UNCHANGED <<body, givenUp>>
    BY <1>8 DEF StartSleep, EndSleep
  <2>3. QED
    <3> HIDE DEF p
    <3> QED BY <1>0, <2>1, <2>2
<1>9. ASSUME SpawnAll PROVE Goal
  <2>1. p \in pending'
    BY <1>0, <1>9, SpawnDoes
  <2>2. QED
    BY <1>0, <2>1
<1>10. ASSUME GazeboCorrection PROVE Goal
  <2>1. settling = "done" /\ pending = {} /\ observed[p] = NoPose /\ ~ Unbuilt
    BY <1>10, CorrectionDoes DEF WaitingOK
  <2>2. body[p] # "falling" \/ p \in givenUp \/ overdue[p] # {}
    <3> HIDE DEF p
    <3> QED BY <1>0, <2>1
  <2>3. \A pose \in Pose : pose # NoPose
    BY NoPoseAssumption
  <2>4. QED
    <3> HIDE DEF p
    <3> QED BY <1>0, <1>10, <2>2, <2>3, CorrectedPart DEF Untouched, PutAt, p
<1>11. ASSUME NEW j \in PartIndex, GazeboPickApproach(j)
       PROVE  Goal
  <2>1. settling = "done" /\ pending = {} /\ ~ Unbuilt
    BY <1>11, ApproachDoes
  <2>2. CASE Untouched(p)
    <3> HIDE DEF Goal, p
    <3> QED BY <1>0, <1>1, <2>1, <2>2 DEF Untouched
  <2>3. CASE bodyPose[p] \in Pose /\ PutAt(p, bodyPose[p])
    <3>1. \A pose \in Pose : pose # NoPose
      BY NoPoseAssumption
    <3>2. QED
      <4> HIDE DEF p
      <4> QED BY <1>0, <2>3, <3>1 DEF PutAt
  <2>4. QED
    BY <1>11, <2>2, <2>3, ApproachedPart
<1>12. ASSUME NEW j \in PartIndex, GazeboFinishPick(j)
       PROVE  Goal
  <2>1. UNCHANGED settling /\ pending = {}
    BY <1>12, PickDoes
  <2>2. CASE Untouched(p)
    <3> HIDE DEF Goal, p
    <3> QED BY <1>0, <1>1, <2>1, <2>2 DEF Untouched
  <2>3. CASE body'[p] = "taken"
    BY <1>0, <2>3
  <2>4. QED
    BY <1>12, <2>2, <2>3, PickedPart
<1>13. ASSUME NEW j \in PartIndex, GazeboPickRetreat(j)
       PROVE  Goal
  <2>1. settling = "done" /\ pending = {} /\ Untouched(p)
    BY <1>13, RetreatDoes, LiftedPart
  <2>2. QED
    <3> HIDE DEF Goal, p
    <3> QED BY <1>0, <1>1, <2>1 DEF Untouched
<1>14. Goal
  <2> HIDE DEF Goal
  <2> QED BY <1>2, <1>3, <1>a, <1>4, <1>5, <1>6, <1>7, <1>8, <1>9, <1>10, <1>11, <1>12, <1>13,
             GazeboSteps DEF GazeboStep
<1>15. QED
  BY <1>14

-------------------------------------------------------------------------------
(* The theorems.                                                            *)

LEMMA GazeboStart == GazeboInit => JobOK /\ GazeboOK
<1> SUFFICES ASSUME GazeboInit PROVE JobOK /\ GazeboOK
  OBVIOUS
<1>1. JobOK
  BY JobStart DEF GazeboInit
<1>2. Unbuilt /\ step = 0 /\ stage = "idle"
  BY DEF GazeboInit, Init, Unbuilt
<1>3. BodyTypeOK /\ SpawnsOK
  BY <1>2 DEF GazeboInit, BodyTypeOK, SpawnsOK, PoseOrNone
<1>4. ASSUME NEW i \in PartIndex
      PROVE  /\ PartAt(i) \in PartIds /\ body[PartAt(i)] = "absent" /\ overdue[PartAt(i)] = {}
             /\ observed[PartAt(i)] = NoPose /\ ~ Grabbed(i)
  <2>1. PartAt(i) \in PartIds /\ PlaceAt(i) \in Int /\ PlaceAt(i) > 0
    BY PartAtType, Positions DEF PlaceAt
  <2>2. QED
    BY <1>2, <2>1 DEF GazeboInit, Init, WorldInit, Grabbed
<1>5. /\ WaitingOK /\ TakenOK /\ TableOK /\ OverdueOK /\ WhereOK
      /\ LevelOK /\ HeightOK /\ SettledOK
  BY <1>2, <1>4 DEF GazeboInit, WaitingOK, TakenOK, TableOK, OverdueOK, WhereOK, LevelOK, HeightOK,
                    SettledOK
<1>6. QED
  BY <1>1, <1>3, <1>5 DEF GazeboOK

LEMMA GazeboAlways == GazeboSpec => [](JobOK /\ GazeboOK)
<1>1. GazeboInit => JobOK /\ GazeboOK
  BY GazeboStart
<1>2. JobOK /\ GazeboOK /\ [GazeboNext \/ GazeboDone]_gzVars => JobOK' /\ GazeboOK'
  <2> SUFFICES ASSUME JobOK, GazeboOK, [GazeboNext \/ GazeboDone]_gzVars
               PROVE  JobOK' /\ GazeboOK'
    OBVIOUS
  <2>1. JobOK'
    BY GazeboNextIsAny, JobPreserved DEF JobOK, GazeboOK
  <2>2. QED
    BY <2>1, BodyTypeStep, SpawnsStep, WaitingStep, TakenStep, TableStep, OverdueStep,
       WhereStep, LevelStep, HeightStep, SettledStep
       DEF AllOK, GazeboStep, GazeboOK
<1>3. QED
  BY <1>1, <1>2, PTL DEF GazeboSpec

(* gazebo_scene_adapter.py:151-155: no part falls past the work surface but  *)
(* one the adapter has reported, in whatever order spawns happen or fail.    *)
THEOREM NoPartFallsUnreported == GazeboSpec => []TableBeforeParts
<1>1. BodyTypeOK /\ TableOK => TableBeforeParts
  <2> SUFFICES ASSUME TableOK, NEW p \in PartIds, OnFloor(p), p \notin unsure PROVE FALSE
    BY DEF TableBeforeParts
  <2>1. PICK i \in PartIndex : PartAt(i) = p
    BY Positions
  <2>2. bodyPose[p].xyz.z = TableTop + Part[p].half.z
    BY <2>1 DEF TableOK, OnFloor
  <2>3. bodyPose[p].xyz.z = Part[p].half.z /\ Part[p].half.z \in Int
    BY PartFields DEF OnFloor, Floor, Vec
  <2>4. QED
    BY <2>2, <2>3, GazeboAssumption
<1>2. QED
  BY <1>1, GazeboAlways, PTL DEF GazeboOK

(* Two poses at one spot that are equally high are one; and a body that lies *)
(* there lies on the table.                                                 *)
LEMMA SpotAndHeight ==
    ASSUME NEW p \in PartIds, NEW one \in Pose, NEW other \in Pose, SameSpot(one, other)
    PROVE  /\ one.xyz.z = other.xyz.z => one = other
           /\ one.xyz.z = LyingHeight(p) => one = LyingOn(p, TableTop, other)
<1>1. \A n \in Int : one.xyz.z = n => one = [other EXCEPT !.xyz.z = n]
  BY DEF SameSpot, Pose, Vec
<1>2. one.xyz.z \in Int /\ [other EXCEPT !.xyz.z = other.xyz.z] = other
  BY DEF Pose, Vec
<1>3. QED
  BY <1>1, <1>2 DEF LyingHeight, LyingOn

(* Before the grasp of a part. *)
LEMMA BeforeTheGrasp ==
    ASSUME JobOK, GazeboOK, NEW i \in PartIndex, step <= PickAt(i), ~ attached[PartAt(i)]
    PROVE  /\ ~ Grabbed(i)
           /\ PartAt(i) \in PartIds
           /\ PoseOf(PartAt(i)) \in Pose
           /\ body[PartAt(i)] # "absent" =>
                  /\ bodyPose[PartAt(i)] \in Pose
                  /\ body[PartAt(i)] \in {"falling", "resting"}
                  /\ PartAt(i) \notin unsure => table = "there"
<1>1. step \in Int /\ PickAt(i) \in Int /\ PlaceAt(i) = PickAt(i) + 3
  BY Positions, StepCountType DEF JobOK, TypeOK, PickAt, PlaceAt
<1>2. ~ Grabbed(i)
  BY <1>1 DEF Grabbed
<1>3. PartAt(i) \in PartIds
  BY PartAtType
<1>4. PoseOf(PartAt(i)) \in Pose
  BY <1>3, PartFields DEF PoseOf, JobOK, TypeOK, PoseOrNone
<1>5. ASSUME body[PartAt(i)] # "absent"
      PROVE  /\ bodyPose[PartAt(i)] \in Pose
             /\ body[PartAt(i)] \in {"falling", "resting"}
             /\ PartAt(i) \notin unsure => table = "there"
  <2>1. body[PartAt(i)] \in {"falling", "resting"} /\ bodyPose[PartAt(i)] \in Pose /\ ~ Unbuilt
    BY <1>2, <1>3, <1>5 DEF GazeboOK, BodyTypeOK, TakenOK
  <2>2. PartAt(i) \notin unsure => table = "there"
    BY <2>1 DEF GazeboOK, BodyTypeOK, SpawnsOK, TableOK
  <2>3. QED
    BY <2>1, <2>2
<1>6. QED
  BY <1>2, <1>3, <1>4, <1>5

(* gazebo_scene_adapter.py:1-4: until its grasp every body nothing was       *)
(* reported of is exactly where the world model has the part; but where a    *)
(* message changed the part's height, the body may instead lie on the table  *)
(* at the spot where the part is believed.                                   *)
THEOREM UnreportedBodiesBelieved == GazeboSpec => []BodiesWhereBelieved
<1>1. JobOK /\ GazeboOK => BodiesWhereBelieved
  <2> SUFFICES ASSUME JobOK, GazeboOK, NEW i \in PartIndex,
                      PartAt(i) \notin unsure, step <= PickAt(i), ~ attached[PartAt(i)],
                      body[PartAt(i)] # "absent"
               PROVE  \/ bodyPose[PartAt(i)] = PoseOf(PartAt(i))
                      \/ /\ HeightCorrected(PartAt(i))
                         /\ bodyPose[PartAt(i)] = LyingOn(PartAt(i), TableTop, PoseOf(PartAt(i)))
    BY DEF BodiesWhereBelieved
  <2> DEFINE p == PartAt(i)
  <2>1. /\ ~ Grabbed(i) /\ p \in PartIds /\ PoseOf(p) \in Pose /\ bodyPose[p] \in Pose
        /\ table = "there"
    BY BeforeTheGrasp
  <2>2. SameSpot(bodyPose[p], PoseOf(p))
    BY <2>1 DEF GazeboOK, WhereOK
  <2>3. bodyPose[p].xyz.z = PoseOf(p).xyz.z \/ bodyPose[p].xyz.z = LyingHeight(p)
    BY <2>1 DEF GazeboOK, HeightOK
  <2>4. ~ HeightCorrected(p) => PoseOf(p).xyz.z = LyingHeight(p)
    BY <2>1 DEF GazeboOK, LevelOK
  <2>5. QED
    <3> HIDE DEF p
    <3> QED BY <2>1, <2>2, <2>3, <2>4, SpotAndHeight DEF p
<1>2. QED
  BY <1>1, GazeboAlways, PTL

(* job_runner.py:54-58: a part whose pose was read is grasped at the spot    *)
(* where its body lies, whatever was reported, as long as no overdue move of *)
(* it happens after the reading; and at the body's height too, if the table  *)
(* was there in time and no message changed the part's height.              *)
THEOREM SeenPartsGraspedWhereTheyLie == GazeboSpec => []GraspsWhereItLies
<1>1. JobOK /\ GazeboOK => GraspsWhereItLies
  <2> SUFFICES ASSUME JobOK, GazeboOK, NEW i \in PartIndex,
                      PartAt(i) \in seen, step <= PickAt(i), ~ attached[PartAt(i)]
               PROVE  /\ body[PartAt(i)] # "absent"
                      /\ SameSpot(bodyPose[PartAt(i)], PoseOf(PartAt(i)))
                      /\ table = "there" /\ ~ HeightCorrected(PartAt(i)) =>
                             bodyPose[PartAt(i)] = PoseOf(PartAt(i))
    BY DEF GraspsWhereItLies
  <2> DEFINE p == PartAt(i)
  <2>1. ~ Grabbed(i) /\ p \in PartIds /\ PoseOf(p) \in Pose
    BY BeforeTheGrasp
  <2>2. body[p] # "absent" /\ SameSpot(bodyPose[p], PoseOf(p))
    BY <2>1 DEF GazeboOK, WhereOK
  <2>3. bodyPose[p] \in Pose /\ body[p] \in {"falling", "resting"}
    BY <2>2, BeforeTheGrasp
  <2>4. ASSUME table = "there", ~ HeightCorrected(p)
        PROVE  bodyPose[p] = PoseOf(p)
    <3>1. bodyPose[p].xyz.z = PoseOf(p).xyz.z
      BY <2>1, <2>3, <2>4 DEF GazeboOK, LevelOK
    <3>2. QED
      <4> HIDE DEF p
      <4> QED BY <2>1, <2>2, <2>3, <3>1, SpotAndHeight
  <2>5. QED
    BY <2>2, <2>4
<1>2. QED
  BY <1>1, GazeboAlways, PTL

(* gazebo_scene_adapter.py:126-137, 213: no pose is set or read while the    *)
(* spawn of a part may still happen, or the part still falls from it, unless *)
(* that spawn was given up.                                                  *)
THEOREM NothingOvertaken == GazeboSpec => []SettledBeforeUse
<1>1. JobOK /\ GazeboOK => SettledBeforeUse
  <2> SUFFICES ASSUME JobOK, GazeboOK, settling = "done", NEW p \in PartIds, p \notin givenUp
               PROVE  /\ p \notin flight
                      /\ body[p] = "falling" /\ overdue[p] = {} =>
                             scenePose[p] = bodyPose[p] /\ observed[p] # NoPose
    BY DEF SettledBeforeUse
  <2>1. PICK i \in PartIndex : PartAt(i) = p
    BY Positions
  <2>2. pending = {} /\ p \notin flight /\ ~ Unbuilt
    BY DEF GazeboOK, SpawnsOK
  <2>3. QED
    BY <2>1, <2>2 DEF GazeboOK, SettledOK
<1>2. QED
  BY <1>1, GazeboAlways, PTL
===============================================================================
