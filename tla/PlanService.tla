------------------------------ MODULE PlanService ------------------------------
(***************************************************************************)
(* What a planner behind a port promises its caller, whatever process does *)
(* the work: calls are made one at a time, each returns, and what it       *)
(* returns is an answer to that very call or a failure.                    *)
(***************************************************************************)
EXTENDS Integers

CONSTANT Limit      \* bound: calls made

VARIABLES
    asked,          \* calls made so far
    busy,           \* is the latest of them still under way?
    reply           \* what the latest finished call returned: the number of the
                    \* call it answers, or 0 for a failure

Init ==
    /\ asked = 0
    /\ busy = FALSE
    /\ reply = 0

Ask ==
    /\ ~ busy
    /\ asked < Limit
    /\ asked' = asked + 1
    /\ busy' = TRUE
    /\ UNCHANGED reply

Reply ==
    /\ busy
    /\ busy' = FALSE
    /\ reply' \in {asked, 0}
    /\ UNCHANGED asked

Next == Ask \/ Reply

serviceVars == <<asked, busy, reply>>

Spec == Init /\ [][Next]_serviceVars /\ WF_serviceVars(Reply)
===============================================================================
