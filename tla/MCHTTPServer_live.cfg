SPECIFICATION FairSpec
CONSTANTS
    k1 = k1
    k2 = k2
    p1 = p1
    p2 = p2
    Conns = {k1}
    Posts = {p1, p2}
    Bodies <- TwoBodies
    Tools = {"here"}
    BadSchemas = {}
    Resources = {"here"}
    Prompts = {"here"}
    HandlerOutcomes = {"value", "nil"}
    StreamCap = 1
    None = None
PROPERTIES
    ImplementsService
    PostsReturn
    BrokenStreamsEnd
CHECK_DEADLOCK FALSE
