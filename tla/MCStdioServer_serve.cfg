SPECIFICATION FairSpec
CONSTANTS
    tool = tool
    resource = resource
    prompt = prompt
    missing = missing
    bad = bad
    list = list
    initialized = initialized
    unknown = unknown
    Calls = {resource, list, initialized}
    Body <- MCBody
    Tools = {"here"}
    BadSchemas = {"here"}
    Resources = {"here"}
    Prompts = {"here"}
    HandlerOutcomes = {"value", "huge", "error", "unencodable", "nil"}
    PipeCap = 1
    MaxLines = 3
    None = None
INVARIANTS
    TypeOK
    RepliesMatchRequests
PROPERTIES
    HangUpEndsServer
CHECK_DEADLOCK FALSE
