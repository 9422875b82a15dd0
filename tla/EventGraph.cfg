SPECIFICATION Spec
CONSTANTS
    Pids = {1, 2}
    NoPid <- MinusOne
    First = 1
    Names = {"npm", "sh"}
    FirstName = "npm"
    Unknown = "<unknown>"
    Objects = {"file"}
    NoImage = NoImage
    Workload <- NamedThreads
    Repeats <- AFew
    Lossy <- SomeLost
    Threads = 2
    MaxCalls = 4
    MaxQueue = 3
INVARIANTS
    TypeOK
    NodeIsOneImage
    ImageIsOneNode
    OnlyCausallyRelated
    NamedAsCalled
CHECK_DEADLOCK FALSE
