----------------------------- MODULE MCJobRunner ------------------------------
(***************************************************************************)
(* Instances of JobRunner, on the recipe of VariantA.                      *)
(***************************************************************************)
EXTENDS JobRunner, VariantA

(* What the sensor reports: the source pose or a pose risen with the lift.   *)
Blind == [p \in PartIds |-> {}]
Seeing == [p \in PartIds |->
              {Part[p].source, [Part[p].source EXCEPT !.xyz.z = @ + 100]}]
===============================================================================
