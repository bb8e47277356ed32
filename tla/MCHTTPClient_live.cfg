SPECIFICATION FairSpec
CONSTANTS
    k1 = k1
    c1 = c1
    c2 = c2
    Clients = {k1}
    Calls = {c1}
    Owner <- OneOwner
    Cancellable = {c1}
    EarlyCalls = TRUE
    AnswerKinds = {"result", "error"}
    StreamCap = 2
    None = None
INVARIANTS
    PendingAccounts
PROPERTIES
    EveryCallReturns
CHECK_DEADLOCK FALSE
