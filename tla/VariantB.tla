------------------------------- MODULE VariantB --------------------------------
(***************************************************************************)
(* member_A and the obstacles of recipes/ASTRA_Pranav_Variant_B in         *)
(* millimetres, yaws rounded to quarter turns: which boxes overlap, and    *)
(* which are nearer than the planning margin, is as in the recipe.         *)
(***************************************************************************)
EXTENDS Geometry

MemberAOfB ==
    [half |-> V(200, 22, 17), source |-> At(360, -340, 100, 0), assembly |-> At(550, -60, 110, 0),
     grasp |-> [vec |-> V(0, 0, -1), dist |-> 140, offset |-> V(20, 0, 25)]]

OnlyAOfB == [A |-> MemberAOfB]
ObstacleOfB ==
    [fixture |-> [half |-> V(75, 95, 100), pose |-> At(250, 20, 150, 0)],
     keepout |-> [half |-> V(50, 80, 190), pose |-> At(580, -260, 190, 0)]]
===============================================================================
