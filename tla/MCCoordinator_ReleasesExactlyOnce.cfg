\* Expected violation of CoordinatorReleasesExactlyOnce.
CONSTANTS
    p1 = p1
    p2 = p2
    Pids <- MCPids
    MaxDials = 2
    CloneCount = 2
    MaxFd = 10
SPECIFICATION Spec
CHECK_DEADLOCK FALSE
INVARIANT
    CoordinatorReleasesExactlyOnce
