SPECIFICATION Spec
CONSTANTS
    k1 = k1
    c1 = c1
    c2 = c2
    Clients = {k1}
    Calls = {c1, c2}
    Owner <- OneOwner
    Cancellable = {}
    EarlyCalls = FALSE
    AnswerKinds = {"result"}
    StreamCap = 1
    None = None
SYMMETRY Symmetry
INVARIANTS
    TypeOK
    OwnReply
    PendingAccounts
    NoLostReply
PROPERTIES
    KeepsPromise
CHECK_DEADLOCK FALSE
