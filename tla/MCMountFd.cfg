SPECIFICATION Spec
CONSTANTS
    MaxFd = 6
    MaxOthers = 2
\* mount() returns once; the process then keeps running with nothing left to do.
CHECK_DEADLOCK FALSE
INVARIANT NoLeak
