\* The whole job as an implementation of AssemblyJob, and its termination.
CONSTANTS
    NoPose = NoPose
    NoCorrection = NoCorrection
    PartOrder <- TwoParts
    Part <- TwoPart
    Joints <- OneJoint
    Obstacle <- MCObstacle
    Constraints <- MCConstraints
    Corrections <- NoMessages
    Threshold = 90
    Sensed <- Blind
SPECIFICATION Spec
PROPERTIES
    Termination
    ImplementsAssemblyJob
