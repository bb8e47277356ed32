SPECIFICATION FairSpec
CONSTANTS
    c1 = c1
    c2 = c2
    Calls = {c1, c2}
    InitCalls = {c1}
    Cancellable = {c2}
    PipeCap = 1
    MaxNoise = 0
    NoiseKinds = {"oversized"}
    LateStart = FALSE
    None = None
PROPERTIES
    ExitReleasesCalls
    CloseReleasesCalls
    CancelledCallReturns
    AnsweredCallReturns
CHECK_DEADLOCK FALSE
