\* Where a placed part is, and where it is recorded.
CONSTANTS
    NoPose = NoPose
    NoCorrection = NoCorrection
    PartOrder <- OnePart
    Part <- OnlyA
    Joints <- OneJoint
    Obstacle <- MCObstacle
    Constraints <- MCConstraints
    Corrections <- NoMessages
    Threshold = 90
    Sensed <- Blind
    Settled <- MCExact
    SensorMisses = FALSE
    GripperFails = FALSE
    HomePose <- MCHome
SPECIFICATION CellSpec
INVARIANTS
    RecordedWherePlaced
