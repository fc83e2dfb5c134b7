\* Reply discipline and buffer ownership of the request engine: INIT and
\* two concurrent requests, with Unmount and descriptor reuse racing them.
CONSTANTS
    b1 = b1
    b2 = b2
    b3 = b3
    b4 = b4
    NoBuf = NoBuf
    u1 = u1
    u2 = u2
    Unmounters <- MCOneUnmounter
    Reqs <- MCReqs3
    Bufs <- MCBufs
    Opcodes <- MCOpcodes
    KernelVersions <- MCKernelVersions

SPECIFICATION Spec
SYMMETRY BufSymmetry

INVARIANT TypeOK
INVARIANT ReplyDiscipline
INVARIANT BufferOwnership

\* The server legitimately idles blocked in read(2) once the kernel has
\* nothing more to send.
CHECK_DEADLOCK FALSE
