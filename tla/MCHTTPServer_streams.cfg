SPECIFICATION Spec
CONSTANTS
    k1 = k1
    k2 = k2
    p1 = p1
    p2 = p2
    Conns = {k1, k2}
    Posts = {p1}
    Bodies <- EveryBody
    Tools = {"here"}
    BadSchemas = {}
    Resources = {"here"}
    Prompts = {"here"}
    HandlerOutcomes = {"value", "nil"}
    StreamCap = 1
    None = None
SYMMETRY Symmetry
INVARIANTS
    TypeOK
    HealthAgrees
    AnswersReachStreams
PROPERTIES
    ImplementsService
CHECK_DEADLOCK FALSE
