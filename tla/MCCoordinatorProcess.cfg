\* Expected violation of DescriptorsReleasedOnce.
CONSTANTS
    p1 = p1
    Pids <- MCPids
    MaxDials = 2
    CloneCount = 1
    MaxOthers = 0
    MaxFd = 9
SPECIFICATION Spec
CHECK_DEADLOCK FALSE
INVARIANT
    DescriptorsReleasedOnce
