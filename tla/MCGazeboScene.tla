----------------------------- MODULE MCGazeboScene -----------------------------
(***************************************************************************)
(* Instances of GazeboScene, on the recipe of VariantA.                    *)
(***************************************************************************)
EXTENDS GazeboScene, VariantA

(* Of the messages that are accepted, one leaves the part's height alone.   *)
Flat == Message("A", 93, V(12, -7, 0), 1)
GazeboMessages == AllMessages \cup {Flat}
Blind == [p \in PartIds |-> {}]
===============================================================================
