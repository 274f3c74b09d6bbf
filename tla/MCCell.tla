-------------------------------- MODULE MCCell --------------------------------
(***************************************************************************)
(* Instances of Cell, on the recipes of VariantA and VariantB.             *)
(***************************************************************************)
EXTENDS Cell, VariantA, VariantB

Blind == [p \in PartIds |-> {}]

(* A part lies at its source pose, or shifted and standing a little proud.   *)
MCSettled == [p \in PartIds |-> {Part[p].source, [Part[p].source EXCEPT !.xyz = Plus(@, V(6, -4, 3))]}]
MCExact == [p \in PartIds |-> {Part[p].source}]
MCHome == At(300, 0, 600, 0)

(* The condition of CarriedPosesClear holds of VariantA and not of VariantB. *)
ASSUME RecipesJudged ==
    /\ Obstacle = MCObstacle => CarriedPosesClear
    /\ Obstacle = ObstacleOfB => ~ CarriedPosesClear
===============================================================================
