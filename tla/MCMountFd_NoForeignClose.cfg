SPECIFICATION Spec
CONSTANTS
    MaxFd = 6
    MaxOthers = 2
CHECK_DEADLOCK FALSE
INVARIANT NoForeignClose
