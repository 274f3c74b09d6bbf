---------------------------- MODULE MCRosExecution -----------------------------
(***************************************************************************)
(* Instances of RosExecution, on the first part of VariantA.               *)
(***************************************************************************)
EXTENDS RosExecution, VariantA

Blind == [p \in PartIds |-> {}]
MCHome == At(300, 0, 600, 0)
===============================================================================
