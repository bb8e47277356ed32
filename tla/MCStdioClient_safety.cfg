SPECIFICATION Spec
CONSTANTS
    c1 = c1
    c2 = c2
    Calls = {c1, c2}
    InitCalls = {c1}
    Cancellable = {c1}
    PipeCap = 1
    MaxNoise = 1
    NoiseKinds = {"junk", "stray", "duplicate", "oversized"}
    LateStart = TRUE
    None = None
INVARIANTS
    TypeOK
    OwnReply
    NoSendOnClosed
    NoLostReply
    PendingAccounts
    HandshakeOrder
PROPERTIES
    KeepsPromise
CHECK_DEADLOCK FALSE
