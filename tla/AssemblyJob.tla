------------------------------ MODULE AssemblyJob -----------------------------
(***************************************************************************)
(* What the orchestrator promises of a job, without steps, poses or        *)
(* retries: the parts move one at a time and in recipe order from their    *)
(* source to the gripper to the assembly, no part ever moves back, the job *)
(* is complete only when every part is assembled, and every job ends.      *)
(***************************************************************************)
EXTENDS Integers, Sequences

CONSTANT Order      \* the parts, in recipe order

VARIABLES
    location,       \* part -> "source", "gripper" or "assembly"
    result          \* "none" while the job runs

jobVars == <<location, result>>

Parts == {Order[i] : i \in DOMAIN Order}

Init ==
    /\ location = [p \in Parts |-> "source"]
    /\ result = "none"

(* Only the next part in order is picked up, once all before it are done.   *)
Take(i) ==
    /\ result = "none"
    /\ location[Order[i]] = "source"
    /\ \A j \in 1 .. i - 1 : location[Order[j]] = "assembly"
    /\ location' = [location EXCEPT ![Order[i]] = "gripper"]
    /\ UNCHANGED result

Put(i) ==
    /\ result = "none"
    /\ location[Order[i]] = "gripper"
    /\ location' = [location EXCEPT ![Order[i]] = "assembly"]
    /\ UNCHANGED result

Complete ==
    /\ result = "none"
    /\ \A p \in Parts : location[p] = "assembly"
    /\ result' = "complete"
    /\ UNCHANGED location

(* A job may stop at any moment, its parts wherever they are. *)
GiveUp ==
    /\ result = "none"
    /\ result' \in {"aborted", "operator_paused", "raised"}
    /\ UNCHANGED location

Next ==
    \/ \E i \in DOMAIN Order : Take(i) \/ Put(i)
    \/ Complete
    \/ GiveUp

Spec == Init /\ [][Next]_jobVars /\ WF_jobVars(Next)
===============================================================================
