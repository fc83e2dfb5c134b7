\* AcceptWorker, Close, RemoveWorker, a Worker holder and CloneMultiple,
\* with two worker processes of distinct pids.
CONSTANTS
    p1 = p1
    p2 = p2
    Pids <- MCPids
    MaxDials = 2
    CloneCount = 2
    MaxFd = 10
SPECIFICATION Spec
\* Every goroutine finishes: Close returns, the loop stops, and the
\* holder and remover are done; the program then has nothing left to do.
CHECK_DEADLOCK FALSE
INVARIANT
    AcceptErrorReleases
    CloneMultipleAllOrNothing
