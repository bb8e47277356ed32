SPECIFICATION FairSpec
CONSTANTS
    c1 = c1
    c2 = c2
    Calls = {c1, c2}
    InitCalls = {c1}
    Cancellable = {}
    PipeCap = 1
    MaxNoise = 0
    NoiseKinds = {}
    LateStart = FALSE
    None = None
PROPERTIES
    EveryCallReturns
CHECK_DEADLOCK FALSE
