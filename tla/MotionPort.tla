------------------------------ MODULE MotionPort ------------------------------
(***************************************************************************)
(* What the orchestrator may rely on when it executes trajectories, with   *)
(* no action servers, acceptances or deadlines: the arm moves only to      *)
(* where it was last told to go, success is reported on arrival and only   *)
(* then, and after an error nothing more is commanded, although what was   *)
(* commanded before may still happen.                                      *)
(***************************************************************************)
CONSTANTS Poses, Idle

VARIABLES
    at,             \* where the arm is
    motion,         \* where it has been told to go, or Idle
    reported        \* "none", "success" or "error"

motionVars == <<at, motion, reported>>

Init ==
    /\ at \in Poses
    /\ motion = Idle
    /\ reported = "none"

Command ==
    /\ motion = Idle
    /\ reported = "none"
    /\ motion' \in Poses
    /\ UNCHANGED <<at, reported>>

Arrive ==
    /\ motion # Idle
    /\ reported = "none"
    /\ at' = motion
    /\ motion' = Idle
    /\ reported' = "success"

(* The motion ends in an error, wherever the arm is by then.                *)
Break ==
    /\ motion # Idle
    /\ reported = "none"
    /\ at' \in {at, motion}
    /\ motion' = Idle
    /\ reported' = "error"

(* An error although the arm was told nothing, or is still on its way.      *)
Abandon ==
    /\ reported = "none"
    /\ reported' = "error"
    /\ UNCHANGED <<at, motion>>

(* The end of an abandoned motion. *)
Late ==
    /\ reported = "error"
    /\ motion # Idle
    /\ at' \in {at, motion}
    /\ motion' = Idle
    /\ UNCHANGED reported

(* The next step begins. *)
Proceed ==
    /\ reported = "success"
    /\ reported' = "none"
    /\ UNCHANGED <<at, motion>>

Next ==
    \/ Command
    \/ Arrive
    \/ Break
    \/ Abandon
    \/ Late
    \/ Proceed

Spec == Init /\ [][Next]_motionVars
===============================================================================
