SPECIFICATION FairSpec
CONSTANTS
    g1 = g1
    g2 = g2
    s = s
    h = h
    d = d
    p1 = p1
    p2 = p2
    one = one
    two = two
    Callers = {g1, g2}
    Cancellable = {g1}
    Stdio = {s}
    HTTP = {h}
    Docker = {d}
    Probed = {}
    Procs = {p1, p2}
    Names = {one, two}
    MaxCalls = 3
    Files <- InitFiles
    Deployed <- DeployedFiles
    Entry <- EntryOf
    DockerName <- DockerNames
    None = None
INVARIANTS
    TypeOK
    StoppedMeansGone
    RunningMeansLaunched
    StopAllStops
    StartAllStarts
    ValidatedStart
    FirstErrorReported
PROPERTIES
    RegistryResponds
    StdioCallsReturn
CHECK_DEADLOCK FALSE
