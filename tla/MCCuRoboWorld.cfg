\* The recipe's cell, planned with cuRobo.
CONSTANTS
    NoPose = NoPose
    NoCorrection = NoCorrection
    PartOrder <- TwoParts
    Part <- TwoPart
    Joints <- OneJoint
    Obstacle <- MCObstacle
    Constraints <- MCConstraints
    Corrections <- AboutB
    Threshold = 90
    Sensed <- Settling
SPECIFICATION CuRoboSpec
INVARIANTS
    HandledIsNoObstacle
    WaitingPartsAndZonesAvoided
