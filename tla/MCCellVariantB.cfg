\* member_A of variant B, assembled beside the fixture.
CONSTANTS
    NoPose = NoPose
    NoCorrection = NoCorrection
    PartOrder <- OnePart
    Part <- OnlyAOfB
    Joints <- OneJoint
    Obstacle <- ObstacleOfB
    Constraints <- MCConstraints
    Corrections <- NoMessages
    Threshold = 90
    Sensed <- Blind
    Settled <- MCExact
    SensorMisses = FALSE
    GripperFails = FALSE
    HomePose <- MCHome
SPECIFICATION CellSpec
INVARIANTS
    CarriedPlansFeasible
