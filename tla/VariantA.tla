------------------------------- MODULE VariantA --------------------------------
(***************************************************************************)
(* The recipe recipes/ASTRA_Pranav_Variant_A in millimetres, its yaws      *)
(* rounded to quarter turns: member_A rests in the keepout zone and is     *)
(* assembled into the fixture.  With it, correction messages on each side  *)
(* of its bounds.                                                          *)
(***************************************************************************)
EXTENDS Geometry

Down == V(0, 0, -1)
Grip(d) == [vec |-> Down, dist |-> d, offset |-> V(0, 0, 25)]

MemberA == [half |-> V(170, 22, 17), source |-> At(420, -300, 100, 0),
            assembly |-> At(580, -20, 110, 0), grasp |-> Grip(120)]
MemberB == [half |-> V(125, 22, 17), source |-> At(380, 320, 100, 1),
            assembly |-> At(580, 130, 110, 1), grasp |-> Grip(100)]
JointJ1 == [id |-> "J1", pose |-> At(580, 75, 155, 0), vec |-> Down, dist |-> 100]

MCObstacle ==
    [fixture |-> [half |-> V(90, 110, 140), pose |-> At(330, 0, 140, 0)],
     keepout |-> [half |-> V(60, 60, 175),  pose |-> At(620, -230, 175, 0)]]
MCConstraints == [translation |-> 30, rotation |-> 90]

TwoParts == <<"A", "B">>
TwoPart == [A |-> MemberA, B |-> MemberB]
OnePart == <<"A">>
OnlyA == [A |-> MemberA]
OneJoint == <<JointJ1>>

Message(p, conf, delta, turns) ==
    [part |-> p, confidence |-> conf, delta |-> delta, turns |-> turns]
Fine == Message("A", 93, V(12, -7, 4), 1)
Unknown == Message("C", 93, V(12, -7, 4), 0)
OutOfBounds == {Message("B", 88, V(55, 0, 0), 0), Message("A", 95, V(29, 9, 0), 0),
                Message("A", 89, V(1, 0, 0), 0), Message("A", 93, V(0, 0, 0), -2)}

AtBounds == Message("B", 90, V(30, 0, 0), 0)

NoMessages == {}
AllMessages == {Fine, AtBounds, Unknown} \cup OutOfBounds
===============================================================================
