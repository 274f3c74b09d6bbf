----------------------------- MODULE MCCuRoboWorld -----------------------------
(***************************************************************************)
(* Instances of CuRoboWorld, on the recipe of VariantA.                    *)
(***************************************************************************)
EXTENDS CuRoboWorld, VariantA

AboutB == {Message("B", 93, V(12, -7, 4), 1)}

Blind == [p \in PartIds |-> {}]

(* The sensor finds a part a little off its source pose. *)
Settling == [p \in PartIds |-> {[Part[p].source EXCEPT !.xyz = Plus(@, V(6, -4, 3))]}]
===============================================================================
