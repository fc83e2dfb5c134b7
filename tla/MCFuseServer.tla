---------------------------- MODULE MCFuseServer ----------------------------
(* Model-checking instance of FuseServer: INIT plus up to two further      *)
(* requests, a pool of four buffers, and one opcode of every dispatch      *)
(* path.                                                                    *)
EXTENDS FuseServer, TLC

CONSTANTS b1, b2, b3, b4, u1, u2

MCReqs3 == {1, 2, 3}
MCReqs2 == {1, 2}
MCBufs == {b1, b2, b3, b4}
\* One user goroutine calls Unmount; two in the shutdown run.
MCOneUnmounter == {u1}
MCTwoUnmounters == {u1, u2}

\* LOOKUP stands for every handler that calls the filesystem and answers
\* with its result; GETXATTR is recognised but has no handler (ENOSYS).
MCOpcodes == {"LOOKUP", "FORGET", "BATCH_FORGET", "INTERRUPT", "WRITE",
              "GETXATTR", "FLUSH", "DESTROY"}
\* For the liveness run: an answered, a never-answered and the last opcode.
MCOpcodesLive == {"LOOKUP", "INTERRUPT", "DESTROY"}
MCKernelVersions == {"ok", "oldMinor", "badMajor"}

\* Buffers are interchangeable: the code never compares them.
BufSymmetry == Permutations(MCBufs)
=============================================================================
