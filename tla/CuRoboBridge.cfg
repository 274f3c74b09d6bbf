\* Everything that may go wrong, at once.
CONSTANTS
    MaxCalls = 4
    MaxNoise = 3
    StderrRoom = 2
    MayBeLate = TRUE
    MayDie = TRUE
    MayHang = TRUE
    MayWarn = TRUE
SPECIFICATION Spec
INVARIANTS
    InOrder
    AnswersLag
