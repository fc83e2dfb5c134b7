\* Both receiving paths, two workers, with every failure of dial, the
\* sending side's steps and recvmsg.
CONSTANTS
    w1 = w1
    w2 = w2
    Workers <- MCWorkers
    Modes <- MCBothModes
SPECIFICATION Spec
\* A registered worker's connection stays open until the coordinator's user
\* releases it, which may never happen: the processes may stop there.
CHECK_DEADLOCK FALSE
INVARIANT
    WorkerFailureReleases
PROPERTY
    HandoffRefinement
