\* One part and a joint, every launch file and planner, action servers that may reject,
\* abort, answer late or never, up to two goals waiting at a server.
CONSTANTS
    NoPose = NoPose
    NoCorrection = NoCorrection
    PartOrder <- OnePart
    Part <- OnlyA
    Joints <- OneJoint
    Obstacle <- MCObstacle
    Constraints <- MCConstraints
    Corrections <- NoMessages
    Threshold = 90
    Sensed <- Blind
    HomePose <- MCHome
    MaxRequests = 2
SPECIFICATION RosSpec
INVARIANTS
    OneMotionAtATime
    CarriesWithJawsClosed
    NoStepWithoutArm
PROPERTIES
    ImplementsMotionPort
    JobEnds
