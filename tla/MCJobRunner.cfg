\* Two parts and a joint, every failure of every port, a sensor that may see
\* the part where it was, risen, or not at all, and every kind of perception
\* message: inside, at and outside each bound, or naming no part.
CONSTANTS
    NoPose = NoPose
    NoCorrection = NoCorrection
    PartOrder <- TwoParts
    Part <- TwoPart
    Joints <- OneJoint
    Obstacle <- MCObstacle
    Constraints <- MCConstraints
    Corrections <- AllMessages
    Threshold = 90
    Sensed <- Seeing
SPECIFICATION Spec
INVARIANTS
    TypeOK
    CarriedFromPickToPlace
    SceneMirrorsWorld
    PlacedStaysAssembled
    TransitExemptions
    RetryBudget
    NoMotionAfterControllerError
    FailuresClassifiable
    RejectedCorrectionNeverUsed
    BelievedNearNominal
