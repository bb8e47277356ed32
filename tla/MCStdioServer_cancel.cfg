SPECIFICATION FairSpec
CONSTANTS
    tool = tool
    resource = resource
    prompt = prompt
    missing = missing
    bad = bad
    list = list
    initialized = initialized
    unknown = unknown
    Calls = {tool, unknown}
    Body <- MCBody
    Tools = {"here"}
    BadSchemas = {}
    Resources = {"here"}
    Prompts = {"here"}
    HandlerOutcomes = {"value", "huge", "error", "unencodable", "nil"}
    PipeCap = 2
    MaxLines = 2
    None = None
PROPERTIES
    CancelEndsServer
CHECK_DEADLOCK FALSE
