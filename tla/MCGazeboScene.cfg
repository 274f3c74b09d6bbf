\* One part and a joint, each correction message or none, spawns and moves that fail, hang
\* or happen late, a table that may never appear.
CONSTANTS
    NoPose = NoPose
    NoCorrection = NoCorrection
    PartOrder <- OnePart
    Part <- OnlyA
    Joints <- OneJoint
    Obstacle <- MCObstacle
    Constraints <- MCConstraints
    Corrections <- GazeboMessages
    Threshold = 90
    Sensed <- Blind
    TableTop = 83
    PlanReasons = {"COLLISION"}
SPECIFICATION GazeboSpec
INVARIANTS
    TableBeforeParts
    BodiesWhereBelieved
    GraspsWhereItLies
    SettledBeforeUse
PROPERTIES
    JobEnds
