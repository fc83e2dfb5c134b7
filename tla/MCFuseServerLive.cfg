\* The server implements the FUSE channel, its liveness included: INIT and
\* two further requests, under the fairness the Go scheduler and the
\* kernel give.
CONSTANTS
    b1 = b1
    b2 = b2
    b3 = b3
    b4 = b4
    NoBuf = NoBuf
    u1 = u1
    u2 = u2
    Unmounters <- MCOneUnmounter
    Reqs <- MCReqs3
    Bufs <- MCBufs
    Opcodes <- MCOpcodesLive
    KernelVersions <- MCKernelVersions

SPECIFICATION Spec

PROPERTY ChannelRefinement

\* The server legitimately idles blocked in read(2) once the kernel has
\* nothing more to send.
CHECK_DEADLOCK FALSE
