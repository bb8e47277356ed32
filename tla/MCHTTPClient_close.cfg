SPECIFICATION Spec
CONSTANTS
    k1 = k1
    c1 = c1
    c2 = c2
    Clients = {k1}
    Calls = {c1}
    Owner <- OneOwner
    Cancellable = {}
    EarlyCalls = FALSE
    AnswerKinds = {"result"}
    StreamCap = 2
    None = None
INVARIANTS
    NoSendOnClosed
CHECK_DEADLOCK FALSE
