\* A service that answers in time or dies.
CONSTANTS
    MaxCalls = 3
    MaxNoise = 2
    StderrRoom = 2
    MayBeLate = FALSE
    MayDie = TRUE
    MayHang = FALSE
    MayWarn = FALSE
SPECIFICATION Spec
PROPERTIES
    PlanCallsReturn
    ServiceEnds
    ImplementsPlanService
