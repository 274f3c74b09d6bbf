\* Parts that settled elsewhere, jaws that miss or stick, a sensor that answers.
CONSTANTS
    NoPose = NoPose
    NoCorrection = NoCorrection
    PartOrder <- TwoParts
    Part <- TwoPart
    Joints <- OneJoint
    Obstacle <- MCObstacle
    Constraints <- MCConstraints
    Corrections <- NoMessages
    Threshold = 90
    Sensed <- Blind
    Settled <- MCSettled
    SensorMisses = FALSE
    GripperFails = TRUE
    HomePose <- MCHome
SPECIFICATION CellSpec
INVARIANTS
    TransportsHeldPart
    SceneTracksHeldPart
    HeldIsKnown
    CarriedPlansFeasible
