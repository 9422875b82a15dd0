SPECIFICATION Spec
CONSTANTS
    Pids = {p1}
    Fds = {0, 3}
    Cwd = Cwd
    Stdin = 0
    Failed = Failed
    Free = Free
    Elsewhere <- Socket
    Directories <- TwoDirectories
    Names = {"x"}
    Followed <- InA
    Threads = 2
    MaxCalls = 3
    MaxQueue = 2
INVARIANTS
    TypeOK
    DescriptorNamed
CHECK_DEADLOCK FALSE
