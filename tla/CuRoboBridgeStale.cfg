\* An answer that comes after its deadline.
CONSTANTS
    MaxCalls = 3
    MaxNoise = 2
    StderrRoom = 2
    MayBeLate = TRUE
    MayDie = TRUE
    MayHang = FALSE
    MayWarn = FALSE
SPECIFICATION Spec
INVARIANT AnswersThisCall
