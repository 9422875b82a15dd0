SPECIFICATION SpecCorrelation
CONSTANTS
    p1 = p1
    p2 = p2
    p3 = p3
    failed = failed
    Pids = {p1, p2}
    NoPid = failed
    First = p1
    Names = {"npm", "sh", "node"}
    FirstName = "npm"
    Unknown = "<unknown>"
    Objects = {"package.json", "setup_bun.js"}
    NoImage = NoImage
    Workload <- InstallationCalls
    Repeats <- Once
    Lossy = {}
    Threads = 1
    MaxCalls = 5
    MaxQueue = 1
    Windows = {9}
    Invalid = 0
    TraversalDepth = 10
    Times = {0}
    MaxEdits = 0
    CallsWithEdits = 0
INVARIANT InstallationAlerts
CHECK_DEADLOCK FALSE
