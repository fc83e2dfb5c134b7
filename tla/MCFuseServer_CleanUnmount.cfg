\* Expected violation of CleanUnmount: Unmount racing the read loop, a
\* worker or a second Unmount; Serve returning context.Canceled.
CONSTANTS
    b1 = b1
    b2 = b2
    b3 = b3
    b4 = b4
    NoBuf = NoBuf
    u1 = u1
    u2 = u2
    Unmounters <- MCTwoUnmounters
    Reqs <- MCReqs2
    Bufs <- MCBufs
    Opcodes <- MCOpcodes
    KernelVersions <- MCKernelVersions

SPECIFICATION Spec

INVARIANT CleanUnmount

CHECK_DEADLOCK FALSE
