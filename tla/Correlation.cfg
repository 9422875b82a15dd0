SPECIFICATION SpecCorrelation
CONSTANTS
    p1 = p1
    p2 = p2
    p3 = p3
    failed = failed
    Pids = {p1, p2, p3}
    NoPid = failed
    First = p1
    Names = {"npm", "sh", "node"}
    FirstName = "npm"
    Unknown = "<unknown>"
    Objects = {"package.json", "setup_bun.js"}
    NoImage = NoImage
    Workload <- CallsOfThreads
    Repeats <- Once
    Lossy <- ShellsUnseen
    Threads = 2
    MaxCalls = 6
    MaxQueue = 1
    Windows = {3, 9}
    Invalid = 0
    TraversalDepth = 10
    Times = {0, 1, 2}
    MaxEdits = 2
    CallsWithEdits = 1
SYMMETRY Children
INVARIANTS
    CorrelationTypeOK
    AlertsAsSpecified
    OneAlert
    AlertNeedsLoss
    ConfigIsFiles
CHECK_DEADLOCK FALSE
