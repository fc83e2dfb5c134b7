\* Expected violation: ConnectToCoordinator against AcceptWorker.
CONSTANTS
    w1 = w1
    w2 = w2
    Workers <- MCWorkers
    Modes <- MCGob
SPECIFICATION Spec
CHECK_DEADLOCK FALSE
PROPERTY
    HandoffCompletes
