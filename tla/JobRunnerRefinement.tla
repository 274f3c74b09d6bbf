-------------------------- MODULE JobRunnerRefinement -------------------------
(***************************************************************************)
(* Every job implements AssemblyJob: its first state maps to a first state *)
(* of the abstract job, and each of its steps to an abstract step or to a  *)
(* stutter.                                                                *)
(***************************************************************************)
EXTENDS JobRunnerSafety

(* The refinement mapping of JobRunner's instance Abstract. *)
Location == [p \in PartIds |-> LocationOf(CHOOSE i \in PartIndex : PartAt(i) = p)]

LEMMA LocationAt ==
    /\ \A i \in PartIndex : Location[PartAt(i)] = LocationOf(i)
    /\ \A i \in PartIndex : Location'[PartAt(i)] = LocationOf(i)'
<1>1. \A i \in PartIndex : (CHOOSE k \in PartIndex : PartAt(k) = PartAt(i)) = i
  BY Positions
<1>2. QED
  BY <1>1, PartAtType DEF Location

(* One part moves: the mapping changes at that part alone. *)
LEMMA LocationMoves ==
    ASSUME NEW p \in PartIds, NEW place,
           \A q \in PartIds : Location'[q] = IF q = p THEN place ELSE Location[q]
    PROVE  Location' = [Location EXCEPT ![p] = place]
<1>1. /\ DOMAIN Location = PartIds /\ Location = [q \in PartIds |-> Location[q]]
      /\ Location' = [q \in PartIds |-> Location'[q]]
  BY DEF Location
<1>2. QED
  BY <1>1

LEMMA SameParts == {PartOrder[i] : i \in DOMAIN PartOrder} = PartIds
BY Positions, PartAtType DEF PartAt, PartIndex

(* A part that is neither held nor past its PLACE is at its source.         *)
LEMMA Located ==
    ASSUME TypeOK, CarryOK, NEW i \in PartIndex
    PROVE  /\ attached[PartAt(i)] => LocationOf(i) = "gripper"
           /\ ~ attached[PartAt(i)] /\ step < PlaceAt(i) => LocationOf(i) = "source"
           /\ step > PlaceAt(i) => LocationOf(i) = "assembly"
<1>1. step \in Nat /\ PlaceAt(i) \in Int /\ PickAt(i) \in Int
  BY StepCountType, Positions DEF TypeOK, PlaceAt, PickAt
<1>2. QED
  BY <1>1 DEF LocationOf, CarryOK

(* While no part is grasped or released and no step passed, all stay.       *)
LEMMA NothingMoves ==
    ASSUME UNCHANGED <<step, attached>>
    PROVE  Location' = Location
BY DEF Location, LocationOf

LEMMA InitMaps == Init => Abstract!Init
<1> SUFFICES ASSUME Init PROVE Abstract!Init
  OBVIOUS
<1>1. \A i \in PartIndex : LocationOf(i) = "source"
  BY Positions, PartAtType DEF Init, WorldInit, LocationOf, PlaceAt
<1>2. Location = [p \in PartIds |-> "source"]
  BY <1>1, Positions DEF Location
<1>3. QED
  BY <1>2, SameParts DEF Init, Abstract!Init, Abstract!Parts, Location

(* The grasp of a part that was not held yet is an abstract Take.           *)
LEMMA PickMaps ==
    ASSUME TypeOK, ControlOK, CarryOK,
           NEW i \in PartIndex, NEW closed \in BOOLEAN, NEW verified \in BOOLEAN,
           FinishPick(i, closed, verified)
    PROVE  Abstract!Next \/ UNCHANGED <<Location, status>>
<1> DEFINE p == PartAt(i)
<1>1. /\ step = PickAt(i) /\ stage = "finish"
      /\ UNCHANGED <<step, status>>
      /\ attached' = [attached EXCEPT ![p] = TRUE]
  BY DEF FinishPick, Finishing, WorldAttach, Return
<1>2. CASE attached[p]
  <2>1. attached' = attached
    BY <1>1, <1>2, PartAtType DEF TypeOK
  <2>2. QED
    BY <1>1, <2>1, NothingMoves
<1>3. CASE ~ attached[p]
  <2>1. step \in Nat /\ PickAt(i) < PlaceAt(i)
        /\ \A j \in 1 .. i - 1 : j \in PartIndex /\ PlaceAt(j) < PickAt(i)
    <3>1. PartIndex = 1 .. Len(PartOrder) /\ Len(PartOrder) \in Nat
      BY PartsAssumption DEF PartIndex
    <3>2. QED
      BY <3>1, StepCountType DEF TypeOK, PlaceAt, PickAt
  <2>2. Location[p] = "source"
    BY <1>1, <1>3, <2>1, Located, LocationAt
  <2>3. \A j \in 1 .. i - 1 : Location[PartAt(j)] = "assembly"
    BY <1>1, <2>1, Located, LocationAt
  <2>4. Location' = [Location EXCEPT ![p] = "gripper"]
    <3>1. \A j \in PartIndex : LocationOf(j)' = IF j = i THEN "gripper" ELSE LocationOf(j)
      BY <1>1, PartAtType, Positions DEF LocationOf, TypeOK
    <3>2. \A q \in PartIds : Location'[q] = IF q = p THEN "gripper" ELSE Location[q]
      BY <3>1, LocationAt, Positions
    <3>3. QED
      BY <3>2, PartAtType, LocationMoves
  <2>5. status = "none"
    BY <1>1 DEF ControlOK, Running
  <2>6. Abstract!Take(i)
    BY <1>1, <2>2, <2>3, <2>4, <2>5 DEF Abstract!Take, PartAt, Location
  <2>7. QED
    BY <2>6 DEF Abstract!Next, PartIndex
<1>4. QED
  BY <1>2, <1>3

(* The release of a part is an abstract Put. *)
LEMMA PlaceMaps ==
    ASSUME TypeOK, ControlOK, CarryOK, NEW i \in PartIndex, FinishPlace(i)
    PROVE  Abstract!Next
<1> DEFINE p == PartAt(i)
<1>1. /\ step = PlaceAt(i) /\ stage = "finish"
      /\ UNCHANGED <<step, status>>
      /\ attached' = [attached EXCEPT ![p] = FALSE]
  BY DEF FinishPlace, Finishing, WorldDetach, Return
<1>2. fsm = "PLAN_SKILL" /\ status = "none"
  BY <1>1 DEF ControlOK, Running
<1>3. attached[p]
  BY <1>1, <1>2 DEF CarryOK, JustSucceeded
<1>4. Location[p] = "gripper"
  BY <1>3, Located, LocationAt
<1>5. Location' = [Location EXCEPT ![p] = "assembly"]
  <2>1. step >= PlaceAt(i)
    BY <1>1, Positions DEF PlaceAt
  <2>2. \A j \in PartIndex : LocationOf(j)' = IF j = i THEN "assembly" ELSE LocationOf(j)
    BY <1>1, <2>1, PartAtType, Positions DEF LocationOf, TypeOK
  <2>3. \A q \in PartIds : Location'[q] = IF q = p THEN "assembly" ELSE Location[q]
    BY <2>2, LocationAt, Positions
  <2>4. QED
    BY <2>3, PartAtType, LocationMoves
<1>6. Abstract!Put(i)
  BY <1>1, <1>2, <1>4, <1>5 DEF Abstract!Put, PartAt, Location
<1>7. QED
  BY <1>6 DEF Abstract!Next, PartIndex

(* A job completes only with every part assembled. *)
LEMMA CompletionMaps ==
    ASSUME TypeOK, CarryOK, CompleteJob
    PROVE  Abstract!Next
<1>1. step = StepCount /\ UNCHANGED <<step, attached>> /\ status = "none" /\ status' = "complete"
  BY DEF CompleteJob, AtLoopHead, Running, worldVars
<1>2. \A i \in PartIndex : step > PlaceAt(i)
  BY <1>1, Positions, PartsAssumption, JointsAssumption DEF StepCount, PlaceAt
<1>3. \A p \in PartIds : Location[p] = "assembly"
  BY <1>2, Located, LocationAt, Positions
<1>4. Abstract!Complete
  BY <1>1, <1>3, SameParts, NothingMoves DEF Abstract!Complete, Abstract!Parts, Location
<1>5. QED
  BY <1>4 DEF Abstract!Next

(* Passing to the next step moves no part: the one just placed is already   *)
(* counted as assembled.                                                    *)
LEMMA NextStepMaps ==
    ASSUME TypeOK, ControlOK, CarryOK, NextStep
    PROVE  UNCHANGED <<Location, status>>
<1>1. step' = step + 1 /\ UNCHANGED <<attached, status>> /\ step \in Nat
  BY StepCountType DEF NextStep, worldVars, TypeOK
<1>2. ASSUME NEW i \in PartIndex
      PROVE  LocationOf(i)' = LocationOf(i)
  <2>1. PlaceAt(i) = PlaceApproachAt(i) + 1 /\ PlaceApproachAt(i) \in Int
    BY Positions DEF PlaceAt, PlaceApproachAt
  <2>2. CASE step = PlaceApproachAt(i)
    BY <1>1, <2>2 DEF CarryOK, LocationOf
  <2>3. CASE step # PlaceApproachAt(i)
    BY <1>1, <2>1, <2>3 DEF LocationOf
  <2>4. QED
    BY <2>2, <2>3
<1>3. Location' = Location
  BY <1>2, Positions DEF Location
<1>4. QED
  BY <1>1, <1>3

(* A step that moves no part and leaves the job running or gives it up. *)
LEMMA GivingUpMaps ==
    ASSUME UNCHANGED <<step, attached>>,
           \/ UNCHANGED status
           \/ Running /\ status' \in {"aborted", "operator_paused", "raised"}
    PROVE  Abstract!Next \/ UNCHANGED <<Location, status>>
<1>1. Location' = Location
  BY NothingMoves
<1>2. CASE UNCHANGED status
  BY <1>1, <1>2
<1>3. CASE Running /\ status' \in {"aborted", "operator_paused", "raised"}
  BY <1>1, <1>3 DEF Abstract!Next, Abstract!GiveUp, Running, Location
<1>4. QED
  BY <1>2, <1>3

LEMMA StepMaps ==
    ASSUME TypeOK, ControlOK, CarryOK, [Next]_vars
    PROVE  Abstract!Next \/ UNCHANGED <<Location, status>>
<1>1. CASE Prepare
  <2>1. stage = "gate" => Running
    BY DEF ControlOK
  <2>2. /\ UNCHANGED <<step, attached>>
        /\ \/ UNCHANGED status
           \/ Running /\ status' \in {"aborted", "operator_paused", "raised"}
    BY <1>1, <2>1
       DEF Prepare, Validate, BuildWorld, AcceptCorrection, RaiseUnknownPart,
           RejectCorrection, worldVars
  <2>3. QED
    BY <2>2, GivingUpMaps
<1>2. CASE StartStep
  BY <1>2, GivingUpMaps DEF StartStep, worldVars
<1>3. CASE CompleteJob
  BY <1>3, CompletionMaps
<1>4. CASE Begin
  <2>1. /\ UNCHANGED <<step, attached>>
        /\ stage = "dispatch"
        /\ status' = status \/ status' = "raised"
    BY <1>4
       DEF Begin, BeginPickApproach, BeginPick, BeginPickRetreat, BeginPlaceApproach,
           BeginPlace, BeginPlaceRetreat, BeginJointApproach, PlanToStandOff, PlanTo,
           Dispatching, worldVars
  <2>2. QED
    BY <2>1, GivingUpMaps DEF ControlOK
<1>5. CASE Move
  BY <1>5, GivingUpMaps
     DEF Move, PlanFails, PlanSucceeds, ExecutionFails, ExecutionSucceeds, Return, worldVars
<1>6. CASE Finish
  <2>1. ASSUME NEW i \in PartIndex, NEW sighting \in Sightings(PartAt(i)),
               FinishPickRetreat(i, sighting)
        PROVE  UNCHANGED <<step, attached, status>>
    BY <2>1 DEF FinishPickRetreat, Return, worldVars
  <2>2. CASE FinishMove
    BY <2>2, GivingUpMaps DEF FinishMove, Return, worldVars
  <2>3. QED
    BY <1>6, <2>1, <2>2, PickMaps, PlaceMaps, GivingUpMaps DEF Finish
<1>7. CASE Judge
  <2>1. CASE NextStep
    BY <2>1, NextStepMaps
  <2>2. CASE Verify \/ Recover \/ Retry \/ Stop
    BY <2>2, GivingUpMaps DEF Verify, Recover, Retry, Stop, worldVars
  <2>3. QED
    BY <1>7, <2>1, <2>2 DEF Judge
<1>8. CASE UNCHANGED vars
  BY <1>8, GivingUpMaps DEF vars, jobVars, worldVars
<1>9. QED
  BY <1>1, <1>2, <1>3, <1>4, <1>5, <1>6, <1>7, <1>8 DEF Next

(* The safety part of ImplementsAssemblyJob: parts move one at a time, in   *)
(* recipe order, from source to gripper to assembly and never back, and a   *)
(* job is complete only with every part assembled.                          *)
THEOREM RefinesAssemblyJob ==
    Spec => Abstract!Init /\ [][Abstract!Next]_(Abstract!jobVars)
<1>1. Init => Abstract!Init
  BY InitMaps
<1>2. TypeOK /\ ControlOK /\ CarryOK /\ [Next \/ Done]_vars =>
          [Abstract!Next]_(Abstract!jobVars)
  BY StepMaps DEF Done, Abstract!jobVars, Location
<1>3. QED
  BY <1>1, <1>2, CarryAlways, PTL DEF Spec
===============================================================================
