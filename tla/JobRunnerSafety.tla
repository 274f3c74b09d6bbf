---------------------------- MODULE JobRunnerSafety ---------------------------
(***************************************************************************)
(* The safety properties of JobRunner, proved for every recipe, set of     *)
(* messages and sensor: each from an inductive invariant of JobRunner, on  *)
(* top of the types and control states of JobRunnerProofs.  The last part  *)
(* is about perception messages: a rejected one changes nothing, an        *)
(* accepted one moves a belief by no more than its bound.                  *)
(***************************************************************************)
EXTENDS JobRunnerProofs

-------------------------------------------------------------------------------
(* The arithmetic of step positions.                                        *)

LEMMA Positions ==
    /\ \A i \in PartIndex : i \in Nat /\ i >= 1 /\ i <= Len(PartOrder)
    /\ \A i, j \in PartIndex : PartAt(i) = PartAt(j) => i = j
    /\ \A p \in PartIds : \E i \in PartIndex : PartAt(i) = p
BY PartsAssumption DEF PartAt, PartIndex

-------------------------------------------------------------------------------
(* Carrying.                                                                *)

LEMMA CarryInit == Init => CarryOK
<1> SUFFICES ASSUME Init, NEW i \in PartIndex
             PROVE  /\ step < PickAt(i)
                    /\ ~ attached[PartAt(i)]
                    /\ PartAt(i) \notin execAttached
  BY Positions DEF CarryOK, PickAt, PickRetreatAt, PlaceApproachAt, PlaceAt, Init
<1> QED
  BY Positions, PartAtType DEF Init, WorldInit, PickAt

(* A step that moves no part, takes no step and changes no verdict.         *)
LEMMA CarryQuiet ==
    ASSUME CarryOK, UNCHANGED <<step, worldVars, execAttached>>,
           JustSucceeded' = JustSucceeded
    PROVE  CarryOK'
BY DEF CarryOK, worldVars

(* A step whose verdict is open before and after it. *)
LEMMA CarryUndecided ==
    ASSUME CarryOK, UNCHANGED <<step, worldVars, execAttached>>,
           ~ JustSucceeded, ~ JustSucceeded'
    PROVE  CarryOK'
BY DEF CarryOK, worldVars

LEMMA CarryStep == TypeOK /\ ControlOK /\ CarryOK /\ [AnyNext]_vars => CarryOK'
<1> SUFFICES ASSUME TypeOK, ControlOK, CarryOK, [AnyNext]_vars PROVE CarryOK'
  OBVIOUS
<1>1. CASE Validate
  BY <1>1, CarryUndecided DEF Validate, JustSucceeded
<1>2. CASE BuildWorld
  BY <1>2, CarryUndecided DEF BuildWorld, JustSucceeded
<1>3. CASE AcceptCorrection
  <2>1. step = 0 /\ step' = 0 /\ UNCHANGED <<attached, execAttached, fsm>> /\ fsm = "BUILD_WORLD"
    BY <1>3 DEF AcceptCorrection, ControlOK
  <2>2. ~ JustSucceeded /\ ~ JustSucceeded'
    BY <2>1 DEF JustSucceeded
  <2>3. QED
    BY <2>1, <2>2, Positions
       DEF CarryOK, PickAt, PickRetreatAt, PlaceApproachAt, PlaceAt
<1>4. CASE RaiseUnknownPart
  BY <1>4, CarryQuiet DEF RaiseUnknownPart, JustSucceeded
<1>5. CASE RejectCorrection
  <2>1. fsm = "BUILD_WORLD"
    BY <1>5 DEF RejectCorrection, ControlOK
  <2>2. QED
    BY <1>5, <2>1, CarryUndecided DEF RejectCorrection, JustSucceeded
<1>6. CASE StartStep
  BY <1>6, CarryUndecided DEF StartStep, AtLoopHead, JustSucceeded
<1>7. CASE CompleteJob
  BY <1>7, CarryUndecided DEF CompleteJob, AtLoopHead, JustSucceeded
<1>8. CASE AnyBegin
  <2>1. fsm = "PLAN_SKILL" /\ UNCHANGED <<fsm, step, outcome, attached, execAttached>>
    BY <1>8
       DEF AnyBegin, BeginPickApproach, BeginPick, BeginPickRetreat, BeginPlaceApproach,
           BeginPlace, BeginPlaceRetreat, BeginJointApproach, PlanToStandOff, PlanTo,
           Dispatching, ControlOK, worldVars
  <2>2. ~ JustSucceeded /\ ~ JustSucceeded'
    BY <2>1 DEF JustSucceeded
  <2>3. CASE UNCHANGED observed
    BY <2>1, <2>2, <2>3, CarryUndecided DEF worldVars
  <2>4. ASSUME NEW i \in PartIndex, NEW sighting \in PoseOrNone,
               BeginPickApproach(i, sighting)
        PROVE  CarryOK'
    <3>1. step = PickApproachAt(i) /\ \A p \in PartIds : p # PartAt(i) => observed'[p] = observed[p]
      BY <2>4 DEF BeginPickApproach, Dispatching, Observe, TypeOK
    <3>2. ASSUME NEW j \in PartIndex
          PROVE  step >= PlaceAt(j) => observed'[PartAt(j)] = observed[PartAt(j)]
      BY <3>1, Positions, PartAtType DEF PlaceAt, PickApproachAt
    <3>3. QED
      BY <2>1, <2>2, <3>2 DEF CarryOK
  <2>5. QED
    BY <1>8, <2>3, <2>4
       DEF AnyBegin, BeginPick, BeginPickRetreat, BeginPlaceApproach, BeginPlace,
           BeginPlaceRetreat, BeginJointApproach, worldVars
<1>9. CASE Move
  <2>1. /\ fsm = "PLAN_SKILL"
        /\ fsm' = "PLAN_SKILL" \/ (fsm' = "EXECUTE_SKILL" /\ Failed(outcome'))
        /\ UNCHANGED <<step, worldVars, execAttached>>
    BY <1>9
       DEF Move, PlanFails, PlanSucceeds, ExecutionFails, ExecutionSucceeds, Return, ControlOK,
           Failed, Succeeded, PlanFailure, Untried
  <2>2. QED
    BY <2>1, CarryUndecided DEF JustSucceeded, Failed
<1>10. CASE AnyFinish
  <2>1. /\ stage = "finish"
        /\ fsm = "PLAN_SKILL"
        /\ fsm' = "EXECUTE_SKILL"
        /\ step' = step
        /\ outcome = [Untried EXCEPT !.plan = "ok", !.exec = "SUCCESS"]
    BY <1>10
       DEF AnyFinish, FinishPick, FinishPickRetreat, FinishPlace, FinishMove, Finishing, Return,
           ControlOK
  <2>2. ~ JustSucceeded
    BY <2>1 DEF JustSucceeded
  <2>3. ASSUME NEW i \in PartIndex, NEW closed \in BOOLEAN, NEW verified \in BOOLEAN,
               FinishPick(i, closed, verified)
        PROVE  CarryOK'
    <3>1. /\ step = PickAt(i)
          /\ attached' = [attached EXCEPT ![PartAt(i)] = TRUE]
          /\ observed' = observed
          /\ execAttached' \subseteq execAttached \cup {PartAt(i)}
      BY <2>3 DEF FinishPick, Finishing, WorldAttach
    <3>2. attached'[PartAt(i)] /\ step \in PickAt(i) .. PlaceAt(i) /\ step < PickRetreatAt(i)
      BY <3>1, PartAtType, Positions DEF TypeOK, PickAt, PlaceAt, PickRetreatAt
    <3>3. ASSUME NEW j \in PartIndex, j # i
          PROVE  /\ attached'[PartAt(j)] = attached[PartAt(j)]
                 /\ PartAt(j) \in execAttached' => PartAt(j) \in execAttached
                 /\ step # PickAt(j) /\ step # PlaceAt(j)
      <4>1. PartAt(j) # PartAt(i) /\ PartAt(j) \in PartIds
        BY <3>3, PartAtType, Positions
      <4>2. step # PickAt(j) /\ step # PlaceAt(j)
        BY <3>1, <3>3, Positions DEF PickAt, PlaceAt
      <4>3. attached'[PartAt(j)] = attached[PartAt(j)]
        BY <3>1, <4>1 DEF TypeOK
      <4>4. QED
        BY <3>1, <4>1, <4>2, <4>3
    <3>4. ASSUME NEW j \in PartIndex, j # i
          PROVE  LET p == PartAt(j)
                 IN  /\ attached'[p] \/ p \in execAttached' => step' \in PickAt(j) .. PlaceAt(j)
                     /\ step' \in {PickRetreatAt(j), PlaceApproachAt(j)} => attached'[p]
                     /\ step' >= PlaceAt(j) /\ ~ attached'[p] => observed'[p] = Part[p].assembly
      BY <2>1, <3>1, <3>3, <3>4 DEF CarryOK
    <3>5. step < PlaceAt(i) /\ step # PickRetreatAt(i) /\ step # PlaceApproachAt(i)
      BY <3>1, Positions DEF PickAt, PlaceAt, PickRetreatAt, PlaceApproachAt
    <3>6. QED
      BY <2>1, <3>2, <3>3, <3>4, <3>5 DEF CarryOK
  <2>4. ASSUME NEW i \in PartIndex, NEW sighting \in PoseOrNone,
               FinishPickRetreat(i, sighting)
        PROVE  CarryOK'
    <3>1. step = PickRetreatAt(i) /\ UNCHANGED <<worldVars, execAttached>>
      BY <2>4 DEF FinishPickRetreat, Finishing
    <3>2. \A j \in PartIndex : step # PickAt(j) /\ step # PlaceAt(j)
      BY <3>1, Positions DEF PickAt, PlaceAt, PickRetreatAt
    <3>3. QED
      BY <2>1, <3>1, <3>2 DEF CarryOK, worldVars
  <2>5. ASSUME NEW i \in PartIndex, FinishPlace(i)
        PROVE  CarryOK'
    <3>1. /\ step = PlaceAt(i)
          /\ attached' = [attached EXCEPT ![PartAt(i)] = FALSE]
          /\ observed' = [observed EXCEPT ![PartAt(i)] = Part[PartAt(i)].assembly]
          /\ execAttached' = execAttached \ {PartAt(i)}
          /\ outcome' = outcome
      BY <2>5 DEF FinishPlace, Finishing, WorldDetach, Observe, Return
    <3>2. JustSucceeded'
      BY <2>1, <3>1 DEF JustSucceeded, Succeeded, Untried
    <3>3. ~ attached'[PartAt(i)] /\ observed'[PartAt(i)] = Part[PartAt(i)].assembly
      BY <3>1, PartAtType DEF TypeOK
    <3>4. ASSUME NEW j \in PartIndex, j # i
          PROVE  /\ attached'[PartAt(j)] = attached[PartAt(j)]
                 /\ observed'[PartAt(j)] = observed[PartAt(j)]
                 /\ step # PickAt(j) /\ step # PlaceAt(j)
      <4>1. PartAt(j) # PartAt(i) /\ PartAt(j) \in PartIds
        BY <3>4, PartAtType, Positions
      <4>2. step # PickAt(j) /\ step # PlaceAt(j)
        BY <3>1, <3>4, Positions DEF PickAt, PlaceAt
      <4>3. QED
        BY <3>1, <4>1, <4>2 DEF TypeOK
    <3>5. step # PickAt(i) /\ step # PickRetreatAt(i) /\ step # PlaceApproachAt(i)
      BY <3>1, Positions DEF PickAt, PlaceAt, PickRetreatAt, PlaceApproachAt
    <3>6. QED
      BY <2>1, <3>1, <3>2, <3>3, <3>4, <3>5 DEF CarryOK
  <2>6. CASE FinishMove
    <3>1. /\ \A j \in PartIndex : step # PickAt(j) /\ step # PlaceAt(j)
          /\ UNCHANGED <<worldVars, execAttached>>
      BY <2>6 DEF FinishMove
    <3>2. QED
      BY <2>1, <3>1 DEF CarryOK, worldVars
  <2>7. QED
    BY <1>10, <2>3, <2>4, <2>5, <2>6 DEF AnyFinish
<1>11. CASE Judge
  <2>1. CASE Verify
    BY <2>1, CarryQuiet DEF Verify, Judged, JustSucceeded
  <2>2. CASE NextStep
    <3>1. /\ JustSucceeded /\ ~ JustSucceeded'
          /\ step' = step + 1
          /\ UNCHANGED <<observed, attached, execAttached>>
      BY <2>2 DEF NextStep, ControlOK, JustSucceeded, worldVars
    <3>2. step \in Nat
      BY StepCountType DEF TypeOK
    <3> DEFINE Carried(i) ==
                 /\ attached[PartAt(i)] \/ PartAt(i) \in execAttached =>
                        step \in PickAt(i) .. PlaceAt(i)
                 /\ step = PickAt(i) /\ JustSucceeded => attached[PartAt(i)]
                 /\ step \in {PickRetreatAt(i), PlaceApproachAt(i)} => attached[PartAt(i)]
                 /\ step = PlaceAt(i) /\ ~ attached[PartAt(i)] =>
                        JustSucceeded /\ PartAt(i) \notin execAttached
                 /\ step = PlaceAt(i) /\ JustSucceeded => ~ attached[PartAt(i)]
                 /\ step >= PlaceAt(i) /\ ~ attached[PartAt(i)] =>
                        observed[PartAt(i)] = Part[PartAt(i)].assembly
    <3>3. ASSUME NEW i \in PartIndex PROVE Carried(i)'
      <4>1. PickAt(i) \in Int /\ PickRetreatAt(i) = PickAt(i) + 1
            /\ PlaceApproachAt(i) = PickAt(i) + 2 /\ PlaceAt(i) = PickAt(i) + 3
        BY Positions DEF PickAt, PickRetreatAt, PlaceApproachAt, PlaceAt
      <4>2. Carried(i)
        BY DEF CarryOK
      <4>3. QED
        BY <3>1, <3>2, <4>1, <4>2
    <3>4. QED
      BY <3>3 DEF CarryOK, PartAt, PartIndex, PickAt, PickRetreatAt, PlaceApproachAt, PlaceAt
  <2>3. CASE Recover
    BY <2>3, CarryUndecided DEF Recover, Judged, Failed, JustSucceeded
  <2>4. CASE Retry
    BY <2>4, CarryUndecided DEF Retry, JustSucceeded
  <2>5. CASE Stop
    BY <2>5, CarryUndecided DEF Stop, JustSucceeded
  <2>6. QED
    BY <1>11, <2>1, <2>2, <2>3, <2>4, <2>5 DEF Judge
<1>12. CASE UNCHANGED vars
  <2>1. JustSucceeded' = JustSucceeded
    BY <1>12 DEF vars, jobVars, JustSucceeded, Succeeded
  <2>2. QED
    BY <1>12, <2>1, CarryQuiet DEF vars, jobVars
<1>13. QED
  BY <1>1, <1>2, <1>3, <1>4, <1>5, <1>6, <1>7, <1>8, <1>9, <1>10, <1>11, <1>12
     DEF AnyNext, Prepare

LEMMA CarryAlways == Spec => [](TypeOK /\ ControlOK /\ CarryOK)
<1>1. CarryOK /\ (TypeOK /\ ControlOK) /\ [Next \/ Done]_vars => CarryOK'
  BY CarryStep, SensorsAreAny DEF Done
<1>2. Init => CarryOK
  BY CarryInit
<1>3. QED
  BY <1>1, <1>2, TypedAndControlled, PTL DEF Spec

(* job_runner.py:71-127: in every job of every recipe, a part is on the     *)
(* gripper only from its own PICK to its own PLACE, and all of the way.     *)
THEOREM CarriesOnePartAtATime == Spec => []CarriedFromPickToPlace
<1>1. CarryOK => CarriedFromPickToPlace
  BY DEF CarryOK, CarriedFromPickToPlace, JustSucceeded
<1>2. QED
  BY <1>1, CarryAlways, PTL

(* job_runner.py:123-127: a part that was placed stays, for the rest of the *)
(* job, recorded at its assembly pose and held by nothing.                  *)
THEOREM PlacedPartsStay == Spec => []PlacedStaysAssembled
<1>1. TypeOK /\ CarryOK => PlacedStaysAssembled
  <2> SUFFICES ASSUME TypeOK, CarryOK, NEW i \in PartIndex, step > PlaceAt(i)
               PROVE  /\ PoseOf(PartAt(i)) = Part[PartAt(i)].assembly
                      /\ ~ attached[PartAt(i)]
                      /\ PartAt(i) \notin execAttached
    BY DEF PlacedStaysAssembled
  <2>1. step \in Nat /\ PlaceAt(i) \in Nat /\ ~ (step \in PickAt(i) .. PlaceAt(i))
    BY StepCountType, Positions DEF TypeOK, PlaceAt, PickAt
  <2>2. ~ attached[PartAt(i)] /\ PartAt(i) \notin execAttached
    BY <2>1 DEF CarryOK
  <2>3. observed[PartAt(i)] = Part[PartAt(i)].assembly
    BY <2>1, <2>2 DEF CarryOK
  <2>4. Part[PartAt(i)].assembly # NoPose
    BY PartAtType, PartFields, NoPoseAssumption
  <2>5. QED
    BY <2>2, <2>3, <2>4 DEF PoseOf
<1>2. QED
  BY <1>1, CarryAlways, PTL

-------------------------------------------------------------------------------
(* The scene.                                                               *)

(* A step that changes no pose, holds and drops nothing, once it is built.  *)
LEMMA SceneQuiet ==
    ASSUME SceneOK, UNCHANGED <<observed, attached, scenePose, sceneAttached>>,
           fsm \notin {"LOAD_JOB", "VALIDATE"}, fsm' \notin {"LOAD_JOB", "VALIDATE"}
    PROVE  SceneOK'
BY DEF SceneOK, SceneMirrorsWorld, PoseOf

(* A part that is seen, or told of, at a pose: both copies move together.   *)
LEMMA SceneSeen ==
    ASSUME TypeOK, SceneOK, NEW p \in PartIds, NEW pose \in Pose,
           Observe(p, pose), PoseUpdated(p, pose), UNCHANGED <<attached, sceneAttached>>,
           fsm \notin {"LOAD_JOB", "VALIDATE"}, fsm' \notin {"LOAD_JOB", "VALIDATE"}
    PROVE  SceneOK'
<1>1. pose # NoPose
  BY NoPoseAssumption
<1>2. /\ observed' = [observed EXCEPT ![p] = pose]
      /\ scenePose' = [scenePose EXCEPT ![p] = pose]
  BY DEF Observe, PoseUpdated
<1>3. \A q \in PartIds : scenePose'[q] = PoseOf(q)'
  BY <1>1, <1>2 DEF SceneOK, SceneMirrorsWorld, PoseOf, TypeOK
<1>4. QED
  BY <1>3 DEF SceneOK, SceneMirrorsWorld

LEMMA SceneStep == TypeOK /\ ControlOK /\ SceneOK /\ [AnyNext]_vars => SceneOK'
<1> SUFFICES ASSUME TypeOK, ControlOK, SceneOK, [AnyNext]_vars PROVE SceneOK'
  OBVIOUS
<1>1. CASE Validate
  BY <1>1 DEF Validate, SceneOK, SceneMirrorsWorld, worldVars, sceneVars
<1>2. CASE BuildWorld
  <2>1. scenePose' = [p \in PartIds |-> PoseOf(p)] /\ observed' = observed
    BY <1>2 DEF BuildWorld, SceneBuilt, worldVars
  <2>2. \A p \in PartIds : scenePose'[p] = PoseOf(p)'
    BY <2>1 DEF PoseOf
  <2>3. sceneAttached' = {} /\ fsm' = "BUILD_WORLD" /\ \A p \in PartIds : ~ attached'[p]
    BY <1>2 DEF BuildWorld, SceneBuilt, worldVars, SceneOK
  <2>4. QED
    BY <2>2, <2>3 DEF SceneOK, SceneMirrorsWorld
<1>3. CASE AcceptCorrection
  <2> DEFINE pose == CorrectedPose(Part[correction.part].source, correction)
  <2>1. correction \in CorrectionType /\ fsm = "BUILD_WORLD"
    BY <1>3, CorrectionsAssumption DEF AcceptCorrection, ControlOK
  <2>2. correction.part \in PartIds /\ Part[correction.part].source \in Pose
    BY <1>3, PartFields DEF AcceptCorrection
  <2>3. /\ correction.delta \in Vec
        /\ correction.turns % 4 \in Quarter
    BY <2>1 DEF CorrectionType, Quarter
  <2>4. pose \in Pose
    BY <2>2, <2>3, WaypointTypes DEF CorrectedPose
  <2>5. QED
    <3>1. /\ Observe(correction.part, pose) /\ PoseUpdated(correction.part, pose)
          /\ UNCHANGED <<attached, sceneAttached, fsm>>
      BY <1>3 DEF AcceptCorrection
    <3>2. QED
      <4> HIDE DEF pose
      <4> QED BY <2>1, <2>2, <2>4, <3>1, SceneSeen
<1>4. CASE RaiseUnknownPart
  BY <1>4, SceneQuiet DEF RaiseUnknownPart, ControlOK, worldVars, sceneVars
<1>5. CASE RejectCorrection
  BY <1>5, SceneQuiet DEF RejectCorrection, ControlOK, worldVars, sceneVars
<1>6. CASE StartStep
  BY <1>6, SceneQuiet DEF StartStep, AtLoopHead, worldVars, sceneVars
<1>7. CASE CompleteJob
  BY <1>7, SceneQuiet DEF CompleteJob, AtLoopHead, worldVars, sceneVars
<1>8. CASE AnyBegin
  <2>1. fsm = "PLAN_SKILL" /\ UNCHANGED <<fsm, attached, sceneAttached>>
    BY <1>8
       DEF AnyBegin, BeginPickApproach, BeginPick, BeginPickRetreat, BeginPlaceApproach,
           BeginPlace, BeginPlaceRetreat, BeginJointApproach, PlanToStandOff, PlanTo,
           Dispatching, ControlOK, worldVars, sceneVars
  <2>2. CASE UNCHANGED <<observed, scenePose>>
    BY <2>1, <2>2, SceneQuiet
  <2>3. ASSUME NEW i \in PartIndex, NEW sighting \in PoseOrNone,
               BeginPickApproach(i, sighting), sighting # NoPose
        PROVE  SceneOK'
    <3>1. sighting \in Pose /\ PartAt(i) \in PartIds
      BY <2>3, PartAtType DEF PoseOrNone
    <3>2. Observe(PartAt(i), sighting) /\ PoseUpdated(PartAt(i), sighting)
      BY <2>3 DEF BeginPickApproach
    <3>3. QED
      BY <2>1, <3>1, <3>2, SceneSeen
  <2>4. ASSUME NEW i \in PartIndex, BeginPickApproach(i, NoPose)
        PROVE  SceneOK'
    BY <2>1, <2>2, <2>4 DEF BeginPickApproach
  <2>5. QED
    BY <1>8, <2>2, <2>3, <2>4
       DEF AnyBegin, BeginPick, BeginPickRetreat, BeginPlaceApproach, BeginPlace,
           BeginPlaceRetreat, BeginJointApproach, worldVars, sceneVars
<1>9. CASE Move
  BY <1>9, SceneQuiet
     DEF Move, PlanFails, PlanSucceeds, ExecutionFails, ExecutionSucceeds, Return, ControlOK,
         worldVars, sceneVars
<1>10. CASE AnyFinish
  <2>1. fsm = "PLAN_SKILL" /\ fsm' = "EXECUTE_SKILL"
    BY <1>10
       DEF AnyFinish, FinishPick, FinishPickRetreat, FinishPlace, FinishMove, Finishing, Return,
           ControlOK
  <2>2. ASSUME NEW i \in PartIndex, NEW closed \in BOOLEAN, NEW verified \in BOOLEAN,
               FinishPick(i, closed, verified)
        PROVE  SceneOK'
    <3>1. /\ UNCHANGED <<observed, scenePose>>
          /\ attached' = [attached EXCEPT ![PartAt(i)] = TRUE]
          /\ sceneAttached' = sceneAttached \cup {PartAt(i)}
      BY <2>2 DEF FinishPick, Grasped, WorldAttach
    <3>2. \A q \in PartIds : q \in sceneAttached' <=> attached'[q]
      BY <2>1, <3>1 DEF SceneOK, SceneMirrorsWorld, TypeOK
    <3>3. QED
      BY <2>1, <3>1, <3>2 DEF SceneOK, SceneMirrorsWorld, PoseOf
  <2>3. ASSUME NEW i \in PartIndex, NEW sighting \in PoseOrNone,
               FinishPickRetreat(i, sighting)
        PROVE  SceneOK'
    BY <2>1, <2>3, SceneQuiet DEF FinishPickRetreat, worldVars
  <2>4. ASSUME NEW i \in PartIndex, FinishPlace(i)
        PROVE  SceneOK'
    <3> DEFINE p == PartAt(i)
               pose == Part[PartAt(i)].assembly
    <3>1. p \in PartIds /\ pose \in Pose /\ pose # NoPose
      BY PartAtType, PartFields, NoPoseAssumption
    <3>2. /\ attached' = [attached EXCEPT ![p] = FALSE]
          /\ observed' = [observed EXCEPT ![p] = pose]
          /\ scenePose' = [scenePose EXCEPT ![p] = pose]
          /\ sceneAttached' = sceneAttached \ {p}
      BY <2>4 DEF FinishPlace, Released, WorldDetach, Observe, PoseUpdated
    <3> HIDE DEF p, pose
    <3>3. \A q \in PartIds : q \in sceneAttached' <=> attached'[q]
      BY <2>1, <3>1, <3>2 DEF SceneOK, SceneMirrorsWorld, TypeOK
    <3>4. \A q \in PartIds : scenePose'[q] = PoseOf(q)'
      BY <2>1, <3>1, <3>2 DEF SceneOK, SceneMirrorsWorld, TypeOK, PoseOf
    <3>5. QED
      BY <2>1, <3>3, <3>4 DEF SceneOK, SceneMirrorsWorld
  <2>5. CASE FinishMove
    BY <2>1, <2>5, SceneQuiet DEF FinishMove, worldVars, sceneVars
  <2>6. QED
    BY <1>10, <2>2, <2>3, <2>4, <2>5 DEF AnyFinish
<1>11. CASE Judge
  BY <1>11, SceneQuiet
     DEF Judge, Verify, NextStep, Recover, Retry, Stop, Judged, worldVars, sceneVars
<1>12. CASE UNCHANGED vars
  BY <1>12 DEF vars, jobVars, worldVars, sceneVars, SceneOK, SceneMirrorsWorld, PoseOf
<1>13. QED
  BY <1>1, <1>2, <1>3, <1>4, <1>5, <1>6, <1>7, <1>8, <1>9, <1>10, <1>11, <1>12
     DEF AnyNext, Prepare

(* world_model.py:2-3: planner and world model agree, in every job, on the  *)
(* pose of every part and on which part the gripper carries.                *)
THEOREM SceneAndWorldAgree == Spec => []SceneMirrorsWorld
<1>1. Init => SceneOK
  BY DEF Init, WorldInit, SceneInit, SceneOK, SceneMirrorsWorld
<1>2. SceneOK /\ (TypeOK /\ ControlOK) /\ [Next \/ Done]_vars => SceneOK'
  BY SceneStep, SensorsAreAny DEF Done
<1>3. SceneOK => SceneMirrorsWorld
  BY DEF SceneOK
<1>4. QED
  BY <1>1, <1>2, <1>3, TypedAndControlled, PTL DEF Spec

-------------------------------------------------------------------------------
(* Recovery.                                                                *)

(* No class is beyond its last rung, and none is on it while a job goes on. *)
LEMMA BudgetLeft ==
    ASSUME RetryBudget, \/ fsm \notin {"RECOVERY", "ABORT"}
                        \/ ~ IsTerminal(action)
    PROVE  \A c \in FailureClass : failures[c] < Len(POLICY[c])
BY DEF RetryBudget

(* Counting one more failure of a class that has rungs left is within its   *)
(* budget, if the answer is taken from the rung it has come to.             *)
LEMMA BudgetSpent ==
    ASSUME TypeOK, NEW class \in FailureClass,
           \A c \in FailureClass : failures[c] < Len(POLICY[c]),
           failures' = Counted(failures, class),
           action' = NextAction(class, failures[class]),
           \/ fsm' = "RECOVERY"
           \/ ~ IsTerminal(action')
    PROVE  RetryBudget'
<1>1. failures[class] \in Nat /\ Len(POLICY[class]) \in 1 .. 4
  BY Ladders DEF TypeOK
<1>2. IsTerminal(action') <=> failures[class] + 1 >= Len(POLICY[class])
  BY <1>1, NextActionType
<1>3. failures' = [failures EXCEPT ![class] = failures[class] + 1]
  BY DEF Counted
<1>4. failures'[class] = failures[class] + 1
      /\ \A c \in FailureClass : c # class => failures'[c] = failures[c]
  BY <1>3 DEF TypeOK
<1>5. failures[class] < Len(POLICY[class])
  OBVIOUS
<1>6. \/ failures'[class] < Len(POLICY[class])
      \/ failures'[class] = Len(POLICY[class]) /\ IsTerminal(action')
  BY <1>1, <1>2, <1>4, <1>5
<1>7. QED
  BY <1>4, <1>6 DEF RetryBudget

LEMMA BudgetStep == TypeOK /\ ControlOK /\ RetryBudget /\ [Next]_vars => RetryBudget'
<1> SUFFICES ASSUME TypeOK, ControlOK, RetryBudget, [Next]_vars PROVE RetryBudget'
  OBVIOUS
<1>1. CASE /\ UNCHANGED failures
           /\ \/ fsm \notin {"RECOVERY", "ABORT"}
              \/ ~ IsTerminal(action)
              \/ fsm' \in {"RECOVERY", "ABORT"} /\ action' = action
  BY <1>1, BudgetLeft DEF RetryBudget
<1>2. CASE Prepare \/ StartStep \/ CompleteJob \/ Begin \/ Move \/ Finish
  <2>1. CASE RejectCorrection
    <3>1. fsm = "BUILD_WORLD" /\ failures = NoFailures
      BY <2>1 DEF RejectCorrection, ControlOK
    <3>2. /\ "PERCEPTION_REJECTED" \in FailureClass
          /\ action' = NextAction("PERCEPTION_REJECTED", failures["PERCEPTION_REJECTED"])
          /\ failures' = Counted(failures, "PERCEPTION_REJECTED")
      BY <2>1, <3>1 DEF RejectCorrection, FailureClass, NoFailures
    <3>3. action' = "RE_OBSERVE"
      BY <2>1 DEF RejectCorrection, NextAction, POLICY
    <3>4. QED
      BY <3>1, <3>2, <3>3, BudgetLeft, BudgetSpent DEF IsTerminal
  <2>2. CASE Prepare /\ ~ RejectCorrection
    BY <1>1, <2>2
       DEF Prepare, Validate, BuildWorld, AcceptCorrection, RaiseUnknownPart, ControlOK
  <2>3. CASE StartStep \/ CompleteJob
    <3>1. UNCHANGED failures /\ fsm \notin {"RECOVERY", "ABORT"}
      BY <2>3 DEF StartStep, CompleteJob, AtLoopHead
    <3>2. QED
      BY <1>1, <3>1
  <2>4. CASE Begin \/ Move \/ Finish
    <3>1. stage \in {"dispatch", "plan", "execute", "finish"} /\ UNCHANGED failures
      BY <2>4
         DEF Begin, BeginPickApproach, BeginPick, BeginPickRetreat, BeginPlaceApproach,
             BeginPlace, BeginPlaceRetreat, BeginJointApproach, PlanToStandOff, PlanTo,
             Dispatching, Move, PlanFails, PlanSucceeds, ExecutionFails, ExecutionSucceeds,
             Finish, FinishPick, FinishPickRetreat, FinishPlace, FinishMove, Finishing, Return
    <3>2. QED
      BY <1>1, <3>1 DEF ControlOK
  <2>5. QED
    BY <1>2, <2>1, <2>2, <2>3, <2>4
<1>3. CASE Judge
  <2>1. CASE Verify
    BY <1>1, <2>1 DEF Verify, Judged
  <2>2. CASE NextStep
    <3>1. \A c \in FailureClass : failures'[c] = 0
      BY <2>2 DEF NextStep, NoFailures
    <3>2. \A c \in FailureClass : 0 < Len(POLICY[c])
      BY LadderLengths
    <3>3. \A c \in FailureClass : failures'[c] < Len(POLICY[c])
      BY <3>1, <3>2
    <3>4. QED
      BY <3>3 DEF RetryBudget
  <2>3. CASE Recover
    <3>1. ClassOf(outcome) \in FailureClass /\ fsm = "EXECUTE_SKILL"
      BY <2>3, ClassOfType DEF Recover, Judged, TypeOK
    <3>2. /\ action' = NextAction(ClassOf(outcome), failures[ClassOf(outcome)])
          /\ failures' = Counted(failures, ClassOf(outcome))
          /\ fsm' = "RECOVERY"
      BY <2>3 DEF Recover
    <3>3. QED
      BY <3>1, <3>2, BudgetLeft, BudgetSpent
  <2>4. CASE Retry
    BY <1>1, <2>4 DEF Retry
  <2>5. CASE Stop
    BY <1>1, <2>5 DEF Stop
  <2>6. QED
    BY <1>3, <2>1, <2>2, <2>3, <2>4, <2>5 DEF Judge
<1>4. CASE UNCHANGED vars
  BY <1>4 DEF vars, jobVars, RetryBudget
<1>5. QED
  BY <1>2, <1>3, <1>4 DEF Next

(* policy.py:28-30: no step of any job is attempted again once some class   *)
(* of failure has used the last rung of its ladder.                         *)
THEOREM LaddersBoundRetries == Spec => []RetryBudget
<1>1. Init => RetryBudget
  BY Ladders DEF Init, RetryBudget, NoFailures
<1>2. RetryBudget /\ (TypeOK /\ ControlOK) /\ [Next \/ Done]_vars => RetryBudget'
  BY BudgetStep DEF Done
<1>3. QED
  BY <1>1, <1>2, TypedAndControlled, PTL DEF Spec

LEMMA ControllerErrorStep ==
    TypeOK /\ ControlOK /\ ControllerErrorOK /\ [Next]_vars => ControllerErrorOK'
<1> SUFFICES ASSUME TypeOK, ControlOK, ControllerErrorOK, [Next]_vars
             PROVE  ControllerErrorOK'
  OBVIOUS
<1>1. CASE outcome'.exec \notin {"CONTROLLER_ERROR", "PROTECTIVE_STOP"}
  BY <1>1 DEF ControllerErrorOK
<1>2. CASE Prepare
  <2>1. CASE Validate
    BY <2>1, <1>1 DEF Validate, ControlOK, Untried
  <2>2. CASE BuildWorld
    BY <2>2, <1>1 DEF BuildWorld, ControlOK, Untried
  <2>3. CASE AcceptCorrection \/ RaiseUnknownPart \/ RejectCorrection
    BY <2>3, <1>1
       DEF AcceptCorrection, RaiseUnknownPart, RejectCorrection, ControlOK, Untried
  <2>4. QED
    BY <1>2, <2>1, <2>2, <2>3 DEF Prepare
<1>3. CASE StartStep
  BY <1>3, <1>1 DEF StartStep, Untried
<1>4. CASE CompleteJob
  <2>1. UNCHANGED outcome /\ fsm \in {"BUILD_WORLD", "NEXT_STEP", "REPLAN_RETRY"}
    BY <1>4 DEF CompleteJob, AtLoopHead
  <2>2. QED
    BY <2>1, <1>1 DEF ControllerErrorOK
<1>5. CASE Begin
  BY <1>5, <1>1
     DEF Begin, BeginPickApproach, BeginPick, BeginPickRetreat, BeginPlaceApproach,
         BeginPlace, BeginPlaceRetreat, BeginJointApproach, PlanToStandOff, PlanTo,
         Dispatching, ControlOK, Untried
<1>6. CASE Move
  <2>1. /\ stage' = "idle" => fsm' = "EXECUTE_SKILL" /\ status' = status
        /\ outcome'.exec \in {"CONTROLLER_ERROR", "PROTECTIVE_STOP"} => outcome'.plan = "ok"
        /\ stage' # "idle" => outcome'.exec \notin {"CONTROLLER_ERROR", "PROTECTIVE_STOP"}
        /\ Running
    BY <1>6
       DEF Move, PlanFails, PlanSucceeds, ExecutionFails, ExecutionSucceeds, Return, ControlOK,
           Untried
  <2>2. QED
    BY <2>1 DEF ControllerErrorOK, Running
<1>7. CASE Finish
  <2>1. stage = "finish" /\ outcome'.exec = outcome.exec
    BY <1>7
       DEF Finish, FinishPick, FinishPickRetreat, FinishPlace, FinishMove, Finishing, Return,
           TypeOK, Outcome
  <2>2. QED
    BY <2>1, <1>1 DEF ControllerErrorOK
<1>8. CASE Judge
  <2>1. CASE Verify
    BY <2>1, <1>1 DEF Verify, Succeeded
  <2>2. CASE NextStep
    BY <2>2, <1>1 DEF NextStep, ControlOK, Succeeded
  <2>3. CASE Recover
    <3> SUFFICES ASSUME outcome.exec \in {"CONTROLLER_ERROR", "PROTECTIVE_STOP"}
                 PROVE  /\ stage' = "idle" /\ status' = "none"
                        /\ action' = "OPERATOR_PAUSE"
      BY <2>3 DEF Recover, ControllerErrorOK
    <3>1. fsm = "EXECUTE_SKILL" /\ stage = "idle" /\ Running
      BY <2>3 DEF Recover, Judged, ControllerErrorOK, ControlOK
    <3>2. CASE outcome.plan \in DOMAIN PlannerMap
      BY <3>2 DEF ControllerErrorOK, PlannerMap
    <3>3. CASE outcome.plan \notin DOMAIN PlannerMap
      <4>1. ClassOf(outcome) = "EXECUTION_ERROR"
        BY <3>3 DEF ClassOf, ExecutionMap
      <4>2. NextAction("EXECUTION_ERROR", failures["EXECUTION_ERROR"]) = "OPERATOR_PAUSE"
        BY DEF NextAction, POLICY, TypeOK, FailureClass
      <4>3. QED
        BY <2>3, <3>1, <4>1, <4>2 DEF Recover, Running
    <3>4. QED
      BY <3>2, <3>3
  <2>4. CASE Retry
    BY <2>4, <1>1 DEF Retry, ControllerErrorOK, IsTerminal
  <2>5. CASE Stop
    BY <2>5 DEF Stop, ControllerErrorOK
  <2>6. QED
    BY <1>8, <2>1, <2>2, <2>3, <2>4, <2>5 DEF Judge
<1>9. CASE UNCHANGED vars
  BY <1>9 DEF vars, jobVars, ControllerErrorOK
<1>10. QED
  BY <1>2, <1>3, <1>4, <1>5, <1>6, <1>7, <1>8, <1>9 DEF Next

(* policy.py:49-53: whatever failed before it, a controller error or a      *)
(* protective stop ends all motion of the job.                              *)
THEOREM ControllerErrorStopsMotion == Spec => []NoMotionAfterControllerError
<1>1. Init => ControllerErrorOK
  BY DEF Init, ControllerErrorOK, Untried
<1>2. ControllerErrorOK /\ (TypeOK /\ ControlOK) /\ [Next \/ Done]_vars => ControllerErrorOK'
  BY ControllerErrorStep DEF Done
<1>3. ControllerErrorOK => NoMotionAfterControllerError
  BY DEF ControllerErrorOK, NoMotionAfterControllerError
<1>4. QED
  BY <1>1, <1>2, <1>3, TypedAndControlled, PTL DEF Spec

(* job_runner.py:154-161: no attempt fails in a way the policy has no       *)
(* ladder for.                                                              *)
THEOREM EveryFailureClassified == Spec => []FailuresClassifiable
<1>1. TypeOK /\ ControlOK => FailuresClassifiable
  BY ClassOfType DEF TypeOK, ControlOK, FailuresClassifiable
<1>2. QED
  BY <1>1, TypedAndControlled, PTL

-------------------------------------------------------------------------------
(* Collision exemptions.                                                    *)

LEMMA ExemptionsQuiet ==
    ASSUME ExemptionsOK, UNCHANGED <<step, observed, attached, allowed>>,
           \/ JustSucceeded' = JustSucceeded
           \/ ~ JustSucceeded /\ ~ JustSucceeded'
    PROVE  ExemptionsOK'
BY DEF ExemptionsOK, ExemptionOf, Enforceable, PoseOf

(* Before a job's first PICK, nothing is claimed of the exemptions. *)
LEMMA ExemptionsEarly ==
    ASSUME step' = 0
    PROVE  ExemptionsOK'
BY Positions DEF ExemptionsOK, PickAt, PickRetreatAt, PlaceApproachAt, PlaceAt

(* The matrix after entries of one part were allowed or disallowed.         *)
LEMMA MatrixOf ==
    ASSUME NEW p \in PartIds, NEW zones \in SUBSET ObstacleIds, TypeOK
    PROVE  /\ allowed' = Allowing(allowed, p, ObstacleIds) => ExemptionOf(p)' = ObstacleIds
           /\ allowed' = Allowing(DroppedByAttach(allowed, p), p, ObstacleIds) =>
                  ExemptionOf(p)' = ObstacleIds
           /\ allowed' = Disallowing(allowed, p, zones) /\ ExemptionOf(p) = ObstacleIds =>
                  ExemptionOf(p)' = ObstacleIds \ zones
           /\ allowed' = Disallowing(allowed, p, zones) /\ ExemptionOf(p) = ObstacleIds \ zones =>
                  ExemptionOf(p)' = ObstacleIds \ zones
BY DEF ExemptionOf, Allowing, Disallowing, DroppedByAttach

(* At a step of one part, nothing is claimed of another part. *)
LEMMA OwnSteps ==
    ASSUME NEW i \in PartIndex, NEW n,
           n \in {PickAt(i), PickRetreatAt(i), PlaceApproachAt(i), PlaceAt(i)}
    PROVE  \A j \in PartIndex :
              j # i => n \notin {PickAt(j), PickRetreatAt(j), PlaceApproachAt(j), PlaceAt(j)}
<1>1. PICK r \in 1 .. 4 : n = 6 * (i - 1) + r
  BY DEF PickAt, PickRetreatAt, PlaceApproachAt, PlaceAt
<1>2. ASSUME NEW j \in PartIndex, NEW s \in 1 .. 4, n = 6 * (j - 1) + s
      PROVE  j = i
  <2>1. i \in Int /\ j \in Int
    BY Positions
  <2>2. QED
    BY <1>1, <1>2, <2>1
<1>3. \A j \in PartIndex :
          n \in {PickAt(j), PickRetreatAt(j), PlaceApproachAt(j), PlaceAt(j)} =>
              \E s \in 1 .. 4 : n = 6 * (j - 1) + s
  BY DEF PickAt, PickRetreatAt, PlaceApproachAt, PlaceAt
<1>4. QED
  BY <1>2, <1>3

LEMMA ApproachSteps ==
    ASSUME NEW i \in PartIndex, NEW n, n = PickApproachAt(i)
    PROVE  \A j \in PartIndex :
              n \notin {PickAt(j), PickRetreatAt(j), PlaceApproachAt(j), PlaceAt(j)}
BY Positions DEF PickApproachAt, PickAt, PickRetreatAt, PlaceApproachAt, PlaceAt

LEMMA ApartSteps ==
    ASSUME NEW i \in PartIndex
    PROVE  /\ PickAt(i) + 1 = PickRetreatAt(i)
           /\ PickRetreatAt(i) + 1 = PlaceApproachAt(i)
           /\ PlaceApproachAt(i) + 1 = PlaceAt(i)
           /\ {PickAt(i), PickRetreatAt(i), PlaceApproachAt(i), PlaceAt(i)} \subseteq Int
BY Positions DEF PickAt, PickRetreatAt, PlaceApproachAt, PlaceAt

LEMMA ExemptionsStep == TypeOK /\ ControlOK /\ ExemptionsOK /\ [AnyNext]_vars => ExemptionsOK'
<1> SUFFICES ASSUME TypeOK, ControlOK, ExemptionsOK, [AnyNext]_vars PROVE ExemptionsOK'
  OBVIOUS
<1>1. CASE Prepare
  BY <1>1, ExemptionsEarly
     DEF Prepare, Validate, BuildWorld, AcceptCorrection, RaiseUnknownPart, RejectCorrection,
         ControlOK
<1>2. CASE StartStep
  BY <1>2, ExemptionsQuiet DEF StartStep, AtLoopHead, JustSucceeded, worldVars, sceneVars
<1>3. CASE CompleteJob
  BY <1>3, ExemptionsQuiet DEF CompleteJob, AtLoopHead, JustSucceeded, worldVars, sceneVars
<1>4. CASE AnyBegin
  <2>1. fsm = "PLAN_SKILL" /\ UNCHANGED <<fsm, step, attached>>
    BY <1>4
       DEF AnyBegin, BeginPickApproach, BeginPick, BeginPickRetreat, BeginPlaceApproach,
           BeginPlace, BeginPlaceRetreat, BeginJointApproach, PlanToStandOff, PlanTo,
           Dispatching, ControlOK, worldVars, sceneVars
  <2>2. ~ JustSucceeded /\ ~ JustSucceeded'
    BY <2>1 DEF JustSucceeded
  <2>3. CASE UNCHANGED <<observed, allowed>>
    BY <2>1, <2>2, <2>3, ExemptionsQuiet
  <2>4. ASSUME NEW i \in PartIndex, NEW sighting \in PoseOrNone,
               BeginPickApproach(i, sighting)
        PROVE  ExemptionsOK'
    <3>1. step = PickApproachAt(i)
      BY <2>4 DEF BeginPickApproach, Dispatching
    <3>2. QED
      BY <2>1, <3>1, ApproachSteps DEF ExemptionsOK
  <2>5. ASSUME NEW i \in PartIndex, BeginPick(i)
        PROVE  ExemptionsOK'
    <3>1. step = PickAt(i) /\ step # PickRetreatAt(i) /\ step # PlaceApproachAt(i)
          /\ step # PlaceAt(i)
      BY <2>5, ApartSteps DEF BeginPick, Dispatching
    <3>2. \A j \in PartIndex : j # i =>
              step \notin {PickAt(j), PickRetreatAt(j), PlaceApproachAt(j), PlaceAt(j)}
      BY <3>1, OwnSteps
    <3>3. QED
      BY <2>1, <2>2, <3>1, <3>2 DEF ExemptionsOK
  <2>6. ASSUME NEW i \in PartIndex, BeginPlaceApproach(i)
        PROVE  ExemptionsOK'
    <3> DEFINE p == PartAt(i)
    <3>1. /\ step = PlaceApproachAt(i) /\ step # PickAt(i) /\ step # PickRetreatAt(i)
          /\ step # PlaceAt(i)
      BY <2>6, ApartSteps DEF BeginPlaceApproach, Dispatching
    <3>2. \A j \in PartIndex : j # i =>
              step \notin {PickAt(j), PickRetreatAt(j), PlaceApproachAt(j), PlaceAt(j)}
      BY <3>1, OwnSteps
    <3>3. allowed' = Disallowing(allowed, p, Enforceable(p)) /\ observed' = observed
      BY <2>6 DEF BeginPlaceApproach, EnforceClearObstacles, worldVars
    <3>4. Enforceable(p)' = Enforceable(p) /\ Enforceable(p) \in SUBSET ObstacleIds
      BY <3>3 DEF Enforceable, PoseOf
    <3>5. attached[p] => ExemptionOf(p)' = ObstacleIds \ Enforceable(p)
      <4> HIDE DEF p
      <4>1. attached[p] => ExemptionOf(p) = ObstacleIds \ Enforceable(p)
        BY <3>1 DEF ExemptionsOK, p
      <4>2. p \in PartIds
        BY PartAtType DEF p
      <4>3. QED
        BY <3>3, <3>4, <4>1, <4>2, MatrixOf
    <3>6. QED
      BY <2>1, <3>1, <3>2, <3>4, <3>5 DEF ExemptionsOK
  <2>7. QED
    BY <1>4, <2>3, <2>4, <2>5, <2>6
       DEF AnyBegin, BeginPickRetreat, BeginPlace, BeginPlaceRetreat, BeginJointApproach,
           worldVars, sceneVars
<1>5. CASE Move
  <2>1. /\ fsm = "PLAN_SKILL"
        /\ fsm' = "PLAN_SKILL" \/ (fsm' = "EXECUTE_SKILL" /\ Failed(outcome'))
        /\ UNCHANGED <<step, observed, attached, allowed>>
    BY <1>5
       DEF Move, PlanFails, PlanSucceeds, ExecutionFails, ExecutionSucceeds, Return, ControlOK,
           Failed, Succeeded, PlanFailure, Untried, worldVars, sceneVars
  <2>2. QED
    BY <2>1, ExemptionsQuiet DEF JustSucceeded, Failed
<1>6. CASE AnyFinish
  <2>1. /\ fsm = "PLAN_SKILL" /\ step' = step /\ fsm' = "EXECUTE_SKILL"
        /\ outcome = [Untried EXCEPT !.plan = "ok", !.exec = "SUCCESS"]
    BY <1>6
       DEF AnyFinish, FinishPick, FinishPickRetreat, FinishPlace, FinishMove, Finishing, Return,
           ControlOK
  <2>2. ~ JustSucceeded
    BY <2>1 DEF JustSucceeded
  <2>3. ASSUME NEW i \in PartIndex, NEW closed \in BOOLEAN, NEW verified \in BOOLEAN,
               FinishPick(i, closed, verified)
        PROVE  ExemptionsOK'
    <3> DEFINE p == PartAt(i)
    <3>1. step = PickAt(i) /\ step # PickRetreatAt(i) /\ step # PlaceApproachAt(i)
          /\ step # PlaceAt(i)
      BY <2>3, ApartSteps DEF FinishPick, Finishing
    <3>2. \A j \in PartIndex : j # i =>
              step \notin {PickAt(j), PickRetreatAt(j), PlaceApproachAt(j), PlaceAt(j)}
      BY <3>1, OwnSteps
    <3>3. allowed' = Allowing(DroppedByAttach(allowed, p), p, ObstacleIds)
      BY <2>3 DEF FinishPick, Grasped
    <3>4. ExemptionOf(p)' = ObstacleIds
      <4>1. p \in PartIds
        BY PartAtType
      <4> HIDE DEF p
      <4>2. QED
        BY <3>3, <4>1, MatrixOf
    <3>5. QED
      BY <2>1, <3>1, <3>2, <3>4 DEF ExemptionsOK
  <2>4. ASSUME NEW i \in PartIndex, NEW sighting \in PoseOrNone,
               FinishPickRetreat(i, sighting)
        PROVE  ExemptionsOK'
    <3> DEFINE p == PartAt(i)
    <3>1. step = PickRetreatAt(i) /\ step # PickAt(i) /\ step # PlaceApproachAt(i)
          /\ step # PlaceAt(i)
      BY <2>4, ApartSteps DEF FinishPickRetreat, Finishing
    <3>2. \A j \in PartIndex : j # i =>
              step \notin {PickAt(j), PickRetreatAt(j), PlaceApproachAt(j), PlaceAt(j)}
      BY <3>1, OwnSteps
    <3>3. ExemptionOf(p) = ObstacleIds
      BY <2>2, <3>1 DEF ExemptionsOK
    <3>4. observed' = observed
      BY <2>4 DEF FinishPickRetreat, worldVars
    <3>5. CASE Held(p, sighting)
      <4>1. allowed' = Disallowing(allowed, p, Enforceable(p)) /\ outcome' = outcome
        BY <2>4, <3>5 DEF FinishPickRetreat, EnforceClearObstacles, Return
      <4>2. Enforceable(p)' = Enforceable(p) /\ Enforceable(p) \in SUBSET ObstacleIds
        BY <3>4 DEF Enforceable, PoseOf
      <4>3. JustSucceeded'
        BY <2>1, <4>1 DEF JustSucceeded, Succeeded, Untried
      <4>4. ExemptionOf(p)' = ObstacleIds \ Enforceable(p)
        <5>1. p \in PartIds
          BY PartAtType
        <5> HIDE DEF p
        <5>2. QED
          BY <3>3, <4>1, <4>2, <5>1, MatrixOf
      <4>5. QED
        BY <2>1, <3>1, <3>2, <4>2, <4>3, <4>4 DEF ExemptionsOK
    <3>6. CASE ~ Held(p, sighting)
      <4>1. allowed' = allowed /\ outcome' = [outcome EXCEPT !.verified = "no"]
        BY <2>4, <3>6 DEF FinishPickRetreat, Return
      <4>2. ~ JustSucceeded'
        BY <2>1, <4>1 DEF JustSucceeded, Succeeded, Untried
      <4>3. ExemptionOf(p)' = ObstacleIds
        BY <3>3, <4>1 DEF ExemptionOf
      <4>4. QED
        BY <2>1, <3>1, <3>2, <4>2, <4>3 DEF ExemptionsOK
    <3>7. QED
      BY <3>5, <3>6
  <2>5. ASSUME NEW i \in PartIndex, FinishPlace(i)
        PROVE  ExemptionsOK'
    <3>1. step = PlaceAt(i) /\ step # PickAt(i) /\ step # PickRetreatAt(i)
          /\ step # PlaceApproachAt(i)
      BY <2>5, ApartSteps DEF FinishPlace, Finishing
    <3>2. \A j \in PartIndex : j # i =>
              step \notin {PickAt(j), PickRetreatAt(j), PlaceApproachAt(j), PlaceAt(j)}
      BY <3>1, OwnSteps
    <3>3. ~ attached'[PartAt(i)]
      BY <2>5, PartAtType DEF FinishPlace, WorldDetach, TypeOK
    <3>4. QED
      BY <2>1, <3>1, <3>2, <3>3 DEF ExemptionsOK
  <2>6. CASE FinishMove
    <3>1. /\ \A j \in PartIndex : step # PickAt(j) /\ step # PickRetreatAt(j)
          /\ UNCHANGED <<observed, attached, allowed>>
      BY <2>6 DEF FinishMove, worldVars, sceneVars
    <3>2. QED
      BY <2>1, <3>1 DEF ExemptionsOK, ExemptionOf, Enforceable, PoseOf
  <2>7. QED
    BY <1>6, <2>3, <2>4, <2>5, <2>6 DEF AnyFinish
<1>7. CASE Judge
  <2>1. CASE Verify
    BY <2>1, ExemptionsQuiet DEF Verify, Judged, JustSucceeded, worldVars, sceneVars
  <2>2. CASE NextStep
    <3>1. /\ JustSucceeded /\ ~ JustSucceeded'
          /\ step' = step + 1
          /\ UNCHANGED <<observed, attached, allowed>>
      BY <2>2 DEF NextStep, ControlOK, JustSucceeded, worldVars, sceneVars
    <3> SUFFICES ASSUME NEW i \in PartIndex
                 PROVE  /\ step' = PickRetreatAt(i) => ExemptionOf(PartAt(i)) = ObstacleIds
                        /\ step' \in {PlaceApproachAt(i), PlaceAt(i)} /\ attached[PartAt(i)] =>
                               ExemptionOf(PartAt(i)) = ObstacleIds \ Enforceable(PartAt(i))
      BY <3>1 DEF ExemptionsOK, ExemptionOf, Enforceable, PoseOf
    <3>2. step \in Int
      BY StepCountType DEF TypeOK
    <3>3. /\ step' = PickRetreatAt(i) => step = PickAt(i)
          /\ step' = PlaceApproachAt(i) => step = PickRetreatAt(i)
          /\ step' = PlaceAt(i) => step = PlaceApproachAt(i)
      BY <3>1, <3>2, Positions DEF PickAt, PickRetreatAt, PlaceApproachAt, PlaceAt
    <3>4. QED
      BY <3>1, <3>3 DEF ExemptionsOK
  <2>3. CASE Recover
    BY <2>3, ExemptionsQuiet
       DEF Recover, Judged, Failed, JustSucceeded, worldVars, sceneVars
  <2>4. CASE Retry
    BY <2>4, ExemptionsQuiet DEF Retry, JustSucceeded, worldVars, sceneVars
  <2>5. CASE Stop
    BY <2>5, ExemptionsQuiet DEF Stop, JustSucceeded, worldVars, sceneVars
  <2>6. QED
    BY <1>7, <2>1, <2>2, <2>3, <2>4, <2>5 DEF Judge
<1>8. CASE UNCHANGED vars
  <2>1. JustSucceeded' = JustSucceeded
    BY <1>8 DEF vars, jobVars, JustSucceeded, Succeeded
  <2>2. QED
    BY <1>8, <2>1, ExemptionsQuiet DEF vars, jobVars, worldVars, sceneVars
<1>9. QED
  BY <1>1, <1>2, <1>3, <1>4, <1>5, <1>6, <1>7, <1>8 DEF AnyNext

(* job_runner.py:109-112, 136-151: whatever was retried before, a part in   *)
(* transit is exempt from the obstacles it is recorded inside of, from the  *)
(* work-holding ones, and from no other.                                    *)
THEOREM ExemptionsInTransit == Spec => []TransitExemptions
<1>1. Init => ExemptionsOK
  BY Positions DEF Init, ExemptionsOK, PickAt, PickRetreatAt, PlaceApproachAt, PlaceAt
<1>2. ExemptionsOK /\ (TypeOK /\ ControlOK) /\ [Next \/ Done]_vars => ExemptionsOK'
  BY ExemptionsStep, SensorsAreAny DEF Done
<1>3. ExemptionsOK => TransitExemptions
  BY DEF ExemptionsOK, TransitExemptions, ExemptionOf
<1>4. QED
  BY <1>1, <1>2, <1>3, TypedAndControlled, PTL DEF Spec

-------------------------------------------------------------------------------
(* Rejected messages.                                                       *)

(* The message is one the gate must reject. *)
Rejectable == correction # NoCorrection /\ ~ Accepted(correction)

(* Its job waits at the gate or has stopped there, and has touched nothing. *)
RejectedOK ==
    Rejectable =>
        /\ fsm \in {"LOAD_JOB", "VALIDATE", "BUILD_WORLD", "RECOVERY"}
        /\ fsm = "BUILD_WORLD" => stage = "gate"
        /\ fsm = "RECOVERY" => ~ Running
        /\ \A p \in PartIds : observed[p] = NoPose /\ ~ attached[p]

(* The job is given one message, or none. *)
LEMMA MessageStays == [AnyNext]_vars => correction' = correction
<1> SUFFICES ASSUME [AnyNext]_vars PROVE correction' = correction
  OBVIOUS
<1>1. CASE UNCHANGED vars
  BY <1>1 DEF vars, jobVars
<1>2. CASE Prepare
  BY <1>2 DEF Prepare, Validate, BuildWorld, AcceptCorrection, RaiseUnknownPart,
              RejectCorrection
<1>3. CASE StartStep \/ CompleteJob
  BY <1>3 DEF StartStep, CompleteJob
<1>4. CASE AnyBegin
  BY <1>4 DEF AnyBegin, BeginPickApproach, BeginPick, BeginPickRetreat, BeginPlaceApproach,
              BeginPlace, BeginPlaceRetreat, BeginJointApproach, PlanToStandOff, PlanTo
<1>5. CASE Move
  BY <1>5 DEF Move, PlanFails, PlanSucceeds, ExecutionFails, ExecutionSucceeds, Return
<1>6. CASE AnyFinish
  BY <1>6 DEF AnyFinish, FinishPick, FinishPickRetreat, FinishPlace, FinishMove, Return
<1>7. CASE Judge
  BY <1>7 DEF Judge, Verify, NextStep, Recover, Retry, Stop
<1>8. QED
  BY <1>1, <1>2, <1>3, <1>4, <1>5, <1>6, <1>7 DEF AnyNext

(* No job gets past the gate with such a message, so that nothing but       *)
(* validation, the building of the world and the rejection can happen.      *)
LEMMA RejectedStep ==
    TypeOK /\ ControlOK /\ RejectedOK /\ [Next]_vars => RejectedOK'
<1> SUFFICES ASSUME TypeOK, ControlOK, RejectedOK, [Next]_vars PROVE RejectedOK'
  OBVIOUS
<1>1. correction' = correction
  BY MessageStays, SensorsAreAny
<1>2. SUFFICES ASSUME Rejectable
               PROVE  /\ fsm' \in {"LOAD_JOB", "VALIDATE", "BUILD_WORLD", "RECOVERY"}
                      /\ fsm' = "BUILD_WORLD" => stage' = "gate"
                      /\ fsm' = "RECOVERY" => ~ Running'
                      /\ UNCHANGED <<observed, attached>>
  BY <1>1 DEF RejectedOK, Rejectable, Accepted, LowConfidence, TranslationOutOfBounds,
              RotationOutOfBounds
<1>3. fsm \notin {"PLAN_SKILL", "EXECUTE_SKILL", "VERIFY", "NEXT_STEP", "REPLAN_RETRY"}
  BY <1>2 DEF RejectedOK
<1>4. CASE UNCHANGED vars
  BY <1>2, <1>4 DEF RejectedOK, vars, jobVars, worldVars, Running
<1>5. CASE Validate
  BY <1>5 DEF Validate, worldVars
<1>6. CASE BuildWorld
  BY <1>2, <1>6 DEF BuildWorld, worldVars, Rejectable
<1>7. CASE AcceptCorrection \/ RaiseUnknownPart
  BY <1>2, <1>7 DEF AcceptCorrection, RaiseUnknownPart, Rejectable
<1>8. CASE RejectCorrection
  <2>1. NextAction("PERCEPTION_REJECTED", 0) # "ABORT"
    BY DEF NextAction, POLICY
  <2>2. QED
    BY <1>8, <2>1 DEF RejectCorrection, worldVars, Running
<1>9. CASE StartStep \/ CompleteJob
  BY <1>2, <1>9 DEF StartStep, CompleteJob, AtLoopHead, RejectedOK
<1>10. CASE Begin
  BY <1>3, <1>10
     DEF Begin, BeginPickApproach, BeginPick, BeginPickRetreat, BeginPlaceApproach, BeginPlace,
         BeginPlaceRetreat, BeginJointApproach, Dispatching, ControlOK
<1>11. CASE Move
  BY <1>3, <1>11 DEF Move, PlanFails, PlanSucceeds, ExecutionFails, ExecutionSucceeds, ControlOK
<1>12. CASE Finish
  BY <1>3, <1>12 DEF Finish, FinishPick, FinishPickRetreat, FinishPlace, FinishMove, Finishing,
                     ControlOK
<1>13. CASE Judge
  BY <1>2, <1>3, <1>13 DEF Judge, Verify, NextStep, Recover, Retry, Stop, Judged, RejectedOK
<1>14. QED
  BY <1>4, <1>5, <1>6, <1>7, <1>8, <1>9, <1>10, <1>11, <1>12, <1>13 DEF Next, Prepare

(* gate.py:1-3: whatever the recipe and the message, one that fails any of  *)
(* the three tests is never partially applied, and never lets a step start. *)
THEOREM RejectedMessageIgnored == Spec => []RejectedCorrectionNeverUsed
<1>1. Init => RejectedOK
  BY DEF Init, WorldInit, RejectedOK
<1>2. RejectedOK /\ (TypeOK /\ ControlOK) /\ [Next \/ Done]_vars => RejectedOK'
  BY RejectedStep DEF Done
<1>3. (TypeOK /\ ControlOK) /\ RejectedOK => RejectedCorrectionNeverUsed
  BY DEF TypeOK, Stage, ControlOK, RejectedOK, Rejectable, RejectedCorrectionNeverUsed, Accepted
<1>4. QED
  BY <1>1, <1>2, <1>3, TypedAndControlled, PTL DEF Spec

-------------------------------------------------------------------------------
(* Accepted messages.                                                       *)

NearNominal(i) ==
    NormSquared(Minus(PoseOf(PartAt(i)).xyz, Part[PartAt(i)].source.xyz))
        <= Square(Constraints.translation)

(* No part is observed but by a message or by its own PICK_APPROACH.        *)
NearOK ==
    \A i \in PartIndex :
        fsm \in {"LOAD_JOB", "VALIDATE", "BUILD_WORLD"} \/ step < PickApproachAt(i) =>
            NearNominal(i)

(* A part nobody has observed is where the recipe has it. *)
LEMMA UnobservedIsNear ==
    ASSUME NEW i \in PartIndex, observed[PartAt(i)] = NoPose
    PROVE  NearNominal(i)
<1>1. Part[PartAt(i)].source.xyz \in Vec
  BY PartAtType, PartFields DEF Pose
<1>2. Minus(PoseOf(PartAt(i)).xyz, Part[PartAt(i)].source.xyz) = V(0, 0, 0)
  BY <1>1 DEF PoseOf, Minus, V, Vec
<1>3. \A n \in Nat : 0 <= n * n
  OBVIOUS
<1>4. 0 <= Square(Constraints.translation)
  BY <1>3, CorrectionsAssumption DEF Square
<1>5. QED
  BY <1>2, <1>4 DEF NearNominal, NormSquared, V, Square

(* compose_correction, on a message within its translation bound. *)
LEMMA AcceptedIsNear ==
    ASSUME NEW c \in CorrectionType, Accepted(c), NEW nominal \in Pose
    PROVE  NormSquared(Minus(CorrectedPose(nominal, c).xyz, nominal.xyz))
               <= Square(Constraints.translation)
<1>1. c.delta \in Vec /\ nominal.xyz \in Vec
  BY DEF CorrectionType, Pose
<1>2. Minus(CorrectedPose(nominal, c).xyz, nominal.xyz) = c.delta
  BY <1>1 DEF CorrectedPose, Composed, Minus, Plus, V, Vec
<1>3. ~ (NormSquared(c.delta) > Square(Constraints.translation))
  BY DEF Accepted, TranslationOutOfBounds
<1>4. NormSquared(c.delta) \in Int /\ Square(Constraints.translation) \in Int
  BY <1>1, CorrectionsAssumption DEF NormSquared, Square, Vec
<1>5. QED
  BY <1>2, <1>3, <1>4

(* Steps that leave observations, and the position of the job, alone.       *)
LEMMA NearQuiet ==
    ASSUME NearOK, UNCHANGED <<step, observed>>,
           fsm \in {"LOAD_JOB", "VALIDATE", "BUILD_WORLD"}
               \/ fsm' \notin {"LOAD_JOB", "VALIDATE", "BUILD_WORLD"}
    PROVE  NearOK'
BY DEF NearOK, NearNominal, PoseOf

LEMMA NearStep == TypeOK /\ ControlOK /\ NearOK /\ [Next]_vars => NearOK'
<1> SUFFICES ASSUME TypeOK, ControlOK, NearOK, [Next]_vars PROVE NearOK'
  OBVIOUS
<1>1. CASE UNCHANGED vars
  BY <1>1, NearQuiet DEF vars, jobVars, worldVars
<1>2. CASE Prepare
  <2>1. CASE Validate \/ BuildWorld \/ RaiseUnknownPart \/ RejectCorrection
    BY <2>1, NearQuiet
       DEF Validate, BuildWorld, RaiseUnknownPart, RejectCorrection, ControlOK, worldVars
  <2>2. CASE AcceptCorrection
    <3>1. correction \in CorrectionType /\ Accepted(correction)
      BY <2>2, CorrectionsAssumption DEF AcceptCorrection, ControlOK
    <3> DEFINE q == correction.part
               pose == CorrectedPose(Part[q].source, correction)
    <3>2. /\ q \in PartIds
          /\ observed' = [observed EXCEPT ![q] = pose]
          /\ fsm = "BUILD_WORLD"
      BY <2>2 DEF AcceptCorrection, Observe, ControlOK
    <3>3. NormSquared(Minus(pose.xyz, Part[q].source.xyz)) <= Square(Constraints.translation)
      BY <3>1, <3>2, PartFields, AcceptedIsNear
    <3>4. pose \in Pose
      <4>1. correction.delta \in Vec /\ correction.turns % 4 \in Quarter
        BY <3>1 DEF CorrectionType, Quarter
      <4>2. QED
        BY <3>2, <4>1, PartFields, WaypointTypes DEF CorrectedPose
    <3>5. ASSUME NEW i \in PartIndex
          PROVE  NearNominal(i)'
      <4> HIDE DEF pose
      <4>1. PartAt(i) \in PartIds /\ NearNominal(i)
        BY <3>2, PartAtType DEF NearOK
      <4>2. CASE PartAt(i) = q
        <5>1. PoseOf(PartAt(i))' = pose
          BY <3>2, <3>4, <4>2, NoPoseAssumption DEF PoseOf, TypeOK
        <5>2. QED
          BY <3>3, <4>2, <5>1 DEF NearNominal, PartAt
      <4>3. CASE PartAt(i) # q
        BY <3>2, <4>1, <4>3 DEF NearNominal, PoseOf, TypeOK
      <4>4. QED
        BY <4>2, <4>3
    <3>6. QED
      BY <3>5 DEF NearOK
  <2>3. QED
    BY <1>2, <2>1, <2>2 DEF Prepare
<1>3. CASE StartStep \/ CompleteJob
  BY <1>3, NearQuiet DEF StartStep, CompleteJob, worldVars
<1>4. CASE Begin
  <2>1. ASSUME NEW i \in PartIndex, NEW sighting \in Sightings(PartAt(i)),
               BeginPickApproach(i, sighting)
        PROVE  NearOK'
    <3>1. /\ step = PickApproachAt(i)
          /\ UNCHANGED <<step, fsm>>
          /\ fsm = "PLAN_SKILL"
      BY <2>1 DEF BeginPickApproach, Dispatching, PlanToStandOff, PlanTo, ControlOK
    <3>2. \A p \in PartIds : p # PartAt(i) => observed'[p] = observed[p]
      BY <2>1 DEF BeginPickApproach, Observe, TypeOK
    <3>3. ASSUME NEW j \in PartIndex, step < PickApproachAt(j)
          PROVE  NearNominal(j)'
      <4>1. PartAt(j) # PartAt(i) /\ PartAt(j) \in PartIds
        BY <3>1, <3>3, Positions, PartAtType DEF PickApproachAt
      <4>2. QED
        BY <3>2, <3>3, <4>1 DEF NearOK, NearNominal, PoseOf
    <3>4. QED
      BY <3>1, <3>3 DEF NearOK
  <2>2. CASE \/ \E i \in PartIndex :
                   \/ BeginPick(i) \/ BeginPickRetreat(i) \/ BeginPlaceApproach(i)
                   \/ BeginPlace(i) \/ BeginPlaceRetreat(i)
             \/ \E j \in JointIndex : BeginJointApproach(j)
    BY <2>2, NearQuiet
       DEF BeginPick, BeginPickRetreat, BeginPlaceApproach, BeginPlace, BeginPlaceRetreat,
           BeginJointApproach, PlanToStandOff, PlanTo, worldVars
  <2>3. QED
    BY <1>4, <2>1, <2>2 DEF Begin
<1>5. CASE Move
  BY <1>5, NearQuiet DEF Move, PlanFails, PlanSucceeds, ExecutionFails, ExecutionSucceeds,
                         Return, worldVars
<1>6. CASE Finish
  <2>1. ASSUME NEW i \in PartIndex, FinishPlace(i)
        PROVE  NearOK'
    <3>1. /\ step = PlaceAt(i)
          /\ step' = step
          /\ fsm' = "EXECUTE_SKILL"
          /\ \A p \in PartIds : p # PartAt(i) => observed'[p] = observed[p]
      BY <2>1 DEF FinishPlace, Finishing, WorldDetach, Observe, Return, TypeOK
    <3>2. ASSUME NEW j \in PartIndex, step < PickApproachAt(j)
          PROVE  NearNominal(j)'
      <4>1. PartAt(j) # PartAt(i) /\ PartAt(j) \in PartIds
        BY <3>1, <3>2, Positions, PartAtType DEF PickApproachAt, PlaceAt
      <4>2. QED
        BY <3>1, <3>2, <4>1 DEF NearOK, NearNominal, PoseOf
    <3>3. QED
      BY <3>1, <3>2 DEF NearOK
  <2>2. CASE UNCHANGED observed
    BY <1>6, <2>2, NearQuiet
       DEF Finish, FinishPick, FinishPickRetreat, FinishPlace, FinishMove, Return
  <2>3. QED
    BY <1>6, <2>1, <2>2 DEF Finish, FinishPick, WorldAttach, FinishPickRetreat, FinishMove,
                            worldVars
<1>7. CASE Judge
  <2>1. CASE NextStep
    BY <2>1, StepCountType, Positions
       DEF NextStep, NearOK, NearNominal, PoseOf, worldVars, PickApproachAt, TypeOK
  <2>2. CASE Verify \/ Recover \/ Retry \/ Stop
    BY <2>2, NearQuiet DEF Verify, Recover, Retry, Stop, worldVars
  <2>3. QED
    BY <1>7, <2>1, <2>2 DEF Judge
<1>8. QED
  BY <1>1, <1>2, <1>3, <1>4, <1>5, <1>6, <1>7 DEF Next

(* transforms.py:1-4: whatever the recipe and the message, until a part's   *)
(* own PICK_APPROACH looks at it, the job believes it within the recipe's   *)
(* translation bound of its nominal pose.                                   *)
THEOREM BeliefsStayNearNominal == Spec => []BelievedNearNominal
<1>1. Init => NearOK
  BY PartAtType, UnobservedIsNear DEF Init, WorldInit, NearOK
<1>2. NearOK /\ (TypeOK /\ ControlOK) /\ [Next \/ Done]_vars => NearOK'
  BY NearStep DEF Done
<1>3. NearOK => BelievedNearNominal
  BY DEF NearOK, NearNominal, BelievedNearNominal
<1>4. QED
  BY <1>1, <1>2, <1>3, TypedAndControlled, PTL DEF Spec

-------------------------------------------------------------------------------
(* What is planned for, what is believed and what is held.                  *)

(* The pose a plan was asked for is a pose.                                 *)
TargetOK == stage \in {"plan", "execute"} => target \in Pose

LEMMA TargetPreserved == TypeOK /\ TargetOK /\ [AnyNext]_vars => TargetOK'
<1> SUFFICES ASSUME TypeOK, TargetOK, [AnyNext]_vars PROVE TargetOK'
  OBVIOUS
<1> USE DEF TargetOK
<1>1. CASE UNCHANGED vars
  BY <1>1 DEF vars, jobVars
<1>2. CASE Prepare
  BY <1>2 DEF Prepare, Validate, BuildWorld, AcceptCorrection, RaiseUnknownPart, RejectCorrection
<1>3. CASE StartStep \/ CompleteJob
  BY <1>3 DEF StartStep, CompleteJob
<1>4. ASSUME NEW pose \in Pose, NEW v \in Vec, NEW d \in Int, PlanToStandOff(pose, v, d)
      PROVE  TargetOK'
  BY <1>4, WaypointTypes DEF PlanToStandOff, PlanTo
<1>5. \A p \in PartIds : PoseOf(p) \in Pose
  BY PartFields DEF TypeOK, PoseOf, PoseOrNone
<1>6. CASE AnyBegin
  <2>1. ASSUME NEW i \in PartIndex, NEW sighting \in PoseOrNone,
               BeginPickApproach(i, sighting)
        PROVE  TargetOK'
    <3> DEFINE p == PartAt(i)
               believed == IF sighting = NoPose THEN PoseOf(p) ELSE sighting
    <3>1. p \in PartIds /\ believed \in Pose
      BY <1>5, PartAtType DEF PoseOrNone
    <3>2. PlanToStandOff(GraspPose(believed, GraspOf(p).offset), GraspOf(p).vec, GraspOf(p).dist)
      BY <2>1 DEF BeginPickApproach
    <3>3. QED
      <4> HIDE DEF p, believed, TargetOK
      <4> QED BY <1>4, <3>1, <3>2, PartFields, WaypointTypes
  <2>2. ASSUME NEW i \in PartIndex, BeginPick(i) \/ BeginPlace(i)
        PROVE  TargetOK'
    <3>1. /\ PartAt(i) \in PartIds
          /\ GraspPose(PoseOf(PartAt(i)), GraspOf(PartAt(i)).offset) \in Pose
          /\ Part[PartAt(i)].assembly \in Pose
      BY <1>5, PartAtType, PartFields, WaypointTypes
    <3>2. QED
      BY <2>2, <3>1 DEF BeginPick, BeginPlace, PlanTo
  <2>3. ASSUME NEW i \in PartIndex, BeginPickRetreat(i)
        PROVE  TargetOK'
    <3>1. /\ GraspPose(PoseOf(PartAt(i)), GraspOf(PartAt(i)).offset) \in Pose
          /\ GraspOf(PartAt(i)).vec \in Vec
          /\ LiftDistance(i) \in Int
      BY <1>5, PartAtType, PartFields, WaypointTypes, LiftDistanceType
    <3>2. QED
      <4> HIDE DEF TargetOK
      <4> QED BY <1>4, <2>3, <3>1 DEF BeginPickRetreat
  <2>4. ASSUME NEW i \in PartIndex, BeginPlaceApproach(i) \/ BeginPlaceRetreat(i)
        PROVE  TargetOK'
    <3> HIDE DEF TargetOK
    <3> QED BY <1>4, <2>4, PartAtType, PartFields DEF BeginPlaceApproach, BeginPlaceRetreat
  <2>5. ASSUME NEW j \in JointIndex, BeginJointApproach(j)
        PROVE  TargetOK'
    <3> HIDE DEF TargetOK
    <3> QED BY <1>4, <2>5, JointByIdType DEF BeginJointApproach, JointType
  <2>6. QED
    BY <1>6, <2>1, <2>2, <2>3, <2>4, <2>5 DEF AnyBegin
<1>7. CASE Move
  BY <1>7 DEF Move, PlanFails, PlanSucceeds, ExecutionFails, ExecutionSucceeds, Return
<1>8. CASE AnyFinish
  BY <1>8 DEF AnyFinish, FinishPick, FinishPickRetreat, FinishPlace, FinishMove, Return
<1>9. CASE Judge
  BY <1>9 DEF Judge, Verify, NextStep, Recover, Retry, Stop
<1>10. QED
  BY <1>1, <1>2, <1>3, <1>6, <1>7, <1>8, <1>9 DEF AnyNext

(* A part is believed somewhere else only after an accepted message, a      *)
(* sighting at its PICK_APPROACH, or its PLACE.                             *)
LEMMA BeliefMoves ==
    ASSUME TypeOK, ControlOK, [AnyNext]_vars, NEW i \in PartIndex,
           observed'[PartAt(i)] # observed[PartAt(i)]
    PROVE  \/ AcceptCorrection /\ step = 0
           \/ \E sighting \in Pose : BeginPickApproach(i, sighting)
           \/ FinishPlace(i)
<1>1. CASE Prepare
  BY <1>1
     DEF Prepare, Validate, BuildWorld, AcceptCorrection, RaiseUnknownPart, RejectCorrection,
         ControlOK, worldVars
<1>2. CASE StartStep \/ CompleteJob \/ Move \/ Judge \/ UNCHANGED vars
  BY <1>2
     DEF StartStep, CompleteJob, Move, PlanFails, PlanSucceeds, ExecutionFails,
         ExecutionSucceeds, Judge, Verify, NextStep, Recover, Retry, Stop, vars, worldVars
<1>3. CASE AnyBegin
  <2>1. PICK j \in PartIndex, sighting \in PoseOrNone : BeginPickApproach(j, sighting)
    BY <1>3
       DEF AnyBegin, BeginPick, BeginPickRetreat, BeginPlaceApproach, BeginPlace,
           BeginPlaceRetreat, BeginJointApproach, worldVars
  <2>2. sighting # NoPose /\ observed' = [observed EXCEPT ![PartAt(j)] = sighting]
    BY <2>1 DEF BeginPickApproach, Observe
  <2>3. j = i
    BY <2>2, PartAtType, Positions DEF TypeOK
  <2>4. QED
    BY <2>1, <2>2, <2>3 DEF PoseOrNone
<1>4. CASE AnyFinish
  <2>1. PICK j \in PartIndex : FinishPlace(j)
    BY <1>4 DEF AnyFinish, FinishPick, FinishPickRetreat, FinishMove, WorldAttach, worldVars
  <2>2. observed' = [observed EXCEPT ![PartAt(j)] = Part[PartAt(j)].assembly]
    BY <2>1 DEF FinishPlace, WorldDetach, Observe
  <2>3. j = i
    BY <2>2, PartAtType, Positions DEF TypeOK
  <2>4. QED
    BY <2>1, <2>3
<1>5. QED
  BY <1>1, <1>2, <1>3, <1>4 DEF AnyNext

(* A part is attached by its PICK and detached by its PLACE alone. *)
LEMMA HoldMoves ==
    ASSUME TypeOK, [AnyNext]_vars, NEW i \in PartIndex,
           attached'[PartAt(i)] # attached[PartAt(i)]
    PROVE  \/ \E closed, verified \in BOOLEAN : FinishPick(i, closed, verified)
           \/ FinishPlace(i)
<1>1. CASE Prepare \/ StartStep \/ CompleteJob \/ Move \/ Judge \/ UNCHANGED vars
  BY <1>1
     DEF Prepare, Validate, BuildWorld, AcceptCorrection, RaiseUnknownPart, RejectCorrection,
         StartStep, CompleteJob, Move, PlanFails, PlanSucceeds, ExecutionFails,
         ExecutionSucceeds, Judge, Verify, NextStep, Recover, Retry, Stop, vars, worldVars
<1>2. CASE AnyBegin
  BY <1>2
     DEF AnyBegin, BeginPickApproach, BeginPick, BeginPickRetreat, BeginPlaceApproach,
         BeginPlace, BeginPlaceRetreat, BeginJointApproach, worldVars
<1>3. CASE AnyFinish
  <2>1. PICK j \in PartIndex :
            \/ \E closed, verified \in BOOLEAN : FinishPick(j, closed, verified)
            \/ FinishPlace(j)
    BY <1>3 DEF AnyFinish, FinishPickRetreat, FinishMove, worldVars
  <2>2. PICK b \in BOOLEAN : attached' = [attached EXCEPT ![PartAt(j)] = b]
    BY <2>1 DEF FinishPick, FinishPlace, WorldAttach, WorldDetach
  <2>3. j = i
    BY <2>2, PartAtType, Positions DEF TypeOK
  <2>4. QED
    BY <2>1, <2>3
<1>4. QED
  BY <1>1, <1>2, <1>3 DEF AnyNext

-------------------------------------------------------------------------------
(* Approaching.  In whatever way a step is retried, a part's PICK_APPROACH  *)
(* has begun in its present attempt, or has succeeded, once these hold.     *)
Approached(i) ==
    \/ step > PickApproachAt(i)
    \/ /\ step = PickApproachAt(i)
       /\ stage \in {"plan", "execute", "finish"} \/ JustSucceeded

(* Nothing but that step's own beginning makes it so. *)
LEMMA ApproachBegins ==
    ASSUME TypeOK, ControlOK, [AnyNext]_vars, NEW i \in PartIndex, Approached(i)', ~ Approached(i)
    PROVE  \E sighting \in PoseOrNone : BeginPickApproach(i, sighting)
<1>0. step \in Int /\ PickApproachAt(i) \in Int
  BY StepCountType, Positions DEF TypeOK, PickApproachAt
<1>1. CASE Prepare
  BY <1>0, <1>1
     DEF Prepare, Validate, BuildWorld, AcceptCorrection, RaiseUnknownPart, RejectCorrection,
         Approached, JustSucceeded, ControlOK
<1>2. CASE StartStep
  BY <1>2 DEF StartStep, Approached, JustSucceeded
<1>3. CASE CompleteJob
  BY <1>3 DEF CompleteJob, AtLoopHead, Approached, JustSucceeded
<1>4. CASE AnyBegin
  <2>1. fsm = "PLAN_SKILL" /\ UNCHANGED <<fsm, step>>
    BY <1>4
       DEF AnyBegin, BeginPickApproach, BeginPick, BeginPickRetreat, BeginPlaceApproach,
           BeginPlace, BeginPlaceRetreat, BeginJointApproach, PlanToStandOff, PlanTo,
           Dispatching, ControlOK
  <2>2. step = PickApproachAt(i)
    BY <1>0, <2>1 DEF Approached, JustSucceeded
  <2>3. \A j \in PartIndex :
            step \notin {PickAt(j), PickRetreatAt(j), PlaceApproachAt(j), PlaceAt(j)}
    BY <2>2, ApproachSteps
  <2>4. \A j \in PartIndex : step # PlaceRetreatAt(j) /\ (step = PickApproachAt(j) => j = i)
    BY <2>2, Positions DEF PickApproachAt, PlaceRetreatAt
  <2>5. \A j \in JointIndex : step # JointApproachAt(j)
    <3>1. \A j \in JointIndex : j \in Nat /\ j >= 1
      BY JointsAssumption DEF JointIndex
    <3>2. QED
      BY <2>2, <3>1, Positions, StepCountType DEF PickApproachAt, JointApproachAt
  <2>6. QED
    BY <1>4, <2>3, <2>4, <2>5
       DEF AnyBegin, BeginPick, BeginPickRetreat, BeginPlaceApproach, BeginPlace,
           BeginPlaceRetreat, BeginJointApproach, BeginPickApproach, Dispatching
<1>5. CASE Move
  <2>1. /\ fsm = "PLAN_SKILL" /\ step' = step /\ stage \in {"plan", "execute"}
        /\ stage' \in {"execute", "finish"} \/ fsm' = "EXECUTE_SKILL"
    BY <1>5
       DEF Move, PlanFails, PlanSucceeds, ExecutionFails, ExecutionSucceeds, Return, ControlOK
  <2>2. QED
    BY <2>1 DEF Approached
<1>6. CASE AnyFinish
  <2>1. stage = "finish" /\ step' = step
    BY <1>6
       DEF AnyFinish, FinishPick, FinishPickRetreat, FinishPlace, FinishMove, Finishing, Return
  <2>2. QED
    BY <2>1 DEF Approached
<1>7. CASE Judge
  <2>1. CASE Verify
    BY <2>1 DEF Verify, Judged, Approached, JustSucceeded
  <2>2. CASE NextStep
    BY <1>0, <2>2 DEF NextStep, ControlOK, Approached, JustSucceeded
  <2>3. CASE Recover
    BY <2>3 DEF Recover, Approached, JustSucceeded
  <2>4. CASE Retry
    BY <2>4 DEF Retry, Approached, JustSucceeded
  <2>5. CASE Stop
    BY <2>5 DEF Stop, Approached, JustSucceeded
  <2>6. QED
    BY <1>7, <2>1, <2>2, <2>3, <2>4, <2>5 DEF Judge
<1>8. CASE UNCHANGED vars
  BY <1>8 DEF vars, jobVars, Approached, JustSucceeded, Succeeded
<1>9. QED
  BY <1>1, <1>2, <1>3, <1>4, <1>5, <1>6, <1>7, <1>8 DEF AnyNext

(* No step is ever taken back. *)
LEMMA StepsGoForward ==
    ASSUME TypeOK, [AnyNext]_vars
    PROVE  step' = step \/ (step' = step + 1 /\ NextStep)
BY DEF AnyNext, Prepare, Validate, BuildWorld, AcceptCorrection, RaiseUnknownPart,
       RejectCorrection, StartStep, CompleteJob, AnyBegin, BeginPickApproach, BeginPick,
       BeginPickRetreat, BeginPlaceApproach, BeginPlace, BeginPlaceRetreat,
       BeginJointApproach, PlanToStandOff, PlanTo, Move, PlanFails, PlanSucceeds,
       ExecutionFails, ExecutionSucceeds, AnyFinish, FinishPick, FinishPickRetreat,
       FinishPlace, FinishMove, Return, Judge, Verify, NextStep, Recover, Retry, Stop,
       vars, jobVars

(* What every composition of the orchestrator with its environment keeps.   *)
JobOK == TypeOK /\ ControlOK /\ CarryOK /\ SceneOK /\ TargetOK

LEMMA JobStart == Init => JobOK
BY TypeInit, ControlInit, CarryInit
   DEF JobOK, SceneOK, SceneMirrorsWorld, TargetOK, Init, WorldInit, SceneInit

LEMMA JobPreserved == JobOK /\ [AnyNext]_vars => JobOK'
BY TypeStep, ControlStep, CarryStep, SceneStep, TargetPreserved DEF JobOK
===============================================================================
