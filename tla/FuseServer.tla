----------------------------- MODULE FuseServer -----------------------------
(***************************************************************************)
(* The request engine of rofuse: the Serve read loop, one worker goroutine *)
(* per request (handleRequest, the handler table, sendError/sendResponse,  *)
(* writeResponse, request.release), the buffer pool, and Server.Unmount    *)
(* racing all of them.  The kernel side of /dev/fuse is modelled as an     *)
(* environment: it sends INIT first, the other requests only once INIT     *)
(* succeeded, and aborts the device some time after the unmount syscall.   *)
(*                                                                         *)
(* The descriptor the connection reads and writes is the number c.fd; the  *)
(* open file behind that number is fdSlot.  Closing the number frees it,   *)
(* and the next open(2) anywhere in the process may reuse it.              *)
(***************************************************************************)
EXTENDS Integers, Sequences, FiniteSets

CONSTANTS
    Reqs,            \* the request uniques the kernel may issue
    Bufs,            \* buffer identities the sync.Pool may hand out
    Opcodes,         \* the non-INIT opcodes the kernel may send
    KernelVersions,  \* the protocol version classes the kernel may offer
    Unmounters,      \* the goroutines that call Server.Unmount
    NoBuf            \* model value: no buffer

ASSUME Cardinality(Bufs) >= Cardinality(Reqs) + 1
ASSUME KernelVersions \subseteq {"badMajor", "oldMinor", "ok"}

\* The number the descriptor had when Mount returned, and the -1 that
\* connection.close stores after closing it.
FuseFd == 3
NoFd == -1

\* isWriteOp (part_003): opcodes refused with EROFS before any handler runs.
WriteOps == {"SETATTR", "SYMLINK", "MKNOD", "MKDIR", "UNLINK", "RMDIR",
             "RENAME", "LINK", "WRITE", "SETXATTR", "REMOVEXATTR", "CREATE",
             "RENAME2", "FALLOCATE", "COPY_FILE_RANGE", "TMPFILE"}

\* The keys of the handlers map.
Handled == {"INIT", "DESTROY", "LOOKUP", "FORGET", "BATCH_FORGET", "GETATTR",
            "READLINK", "OPEN", "READ", "RELEASE", "OPENDIR", "READDIR",
            "READDIRPLUS", "RELEASEDIR", "STATFS", "ACCESS", "FLUSH",
            "INTERRUPT"}

\* sendError never writes for these two.
ForgetOps == {"FORGET", "BATCH_FORGET"}

\* The inputs a request of each opcode carries that change its control
\* path: the version class of INIT, a truncated BATCH_FORGET body.
ArgsOf(op) ==
    IF op = "INIT" THEN KernelVersions
    ELSE IF op = "BATCH_FORGET" THEN {"short", "full"}
    ELSE {"none"}

VARIABLES
    queue,      \* requests written by the kernel, not yet read: Seq(Reqs)
    req,        \* [Reqs -> [op, arg]] for sent requests
    kinit,      \* kernel view of INIT: "none","sent","done","failed"
    dev,        \* "live" or "gone" (connection aborted by the kernel)
    unmounted,  \* the unmount syscall has been made
    replies,    \* [Reqs -> Nat]: reply frames the kernel received per unique
    stray,      \* Reqs whose frame was written into a file that is not /dev/fuse
    strayRead,  \* the read loop read from a file that is not /dev/fuse
    connFd,     \* connection.fd: FuseFd or NoFd
    fdSlot,     \* what descriptor FuseFd refers to: "fuse","free","other"
    rpc,        \* Serve goroutine: "check","read","blocked","exited"
    rbuf,       \* the buffer readRequest holds
    serveErr,   \* what Serve returned: "none","nil","canceled","ebadf","eof"
    wpc,        \* [Reqs -> "idle","dispatch","fs","write","release","done"]
    frame,      \* [Reqs -> "none","ok","err"]: frame the worker will write
    owner,      \* [Reqs -> Bufs \cup {NoBuf}]: buffer backing the request
    pooled,     \* buffers in the sync.Pool
    allocated,  \* buffers the pool's New has created
    cancelled,  \* s.ctx cancelled
    upc,        \* [Unmounters -> "idle","unmount","close","clear","done"]
    strayClose, \* a close of c.fd closed a file that is not /dev/fuse
    initialized,
    destroyed

vars == <<queue, req, kinit, dev, unmounted, replies, stray, strayRead,
          connFd, fdSlot, rpc, rbuf, serveErr, wpc, frame, owner, pooled,
          allocated, cancelled, upc, strayClose, initialized, destroyed>>

kernelVars == <<queue, req, kinit, dev, unmounted>>
poolVars == <<pooled, allocated>>
-----------------------------------------------------------------------------
\* bufferPool.get: the buffers it may return, a pooled one if there is
\* one, else the one its New function makes.
Gettable == IF pooled # {} THEN pooled
            ELSE {CHOOSE x \in Bufs \ allocated : TRUE}

\* The pool after get returned b.
PoolGet(b) ==
    /\ pooled' = pooled \ {b}
    /\ allocated' = allocated \cup {b}

\* bufferPool.put: every buffer keeps the pool's size, so it is kept.
PoolPut(b) ==
    /\ pooled' = pooled \cup {b}
    /\ UNCHANGED allocated

\* get immediately followed by put (the error paths of readRequest).
PoolGetPut(b) ==
    /\ pooled' = pooled \cup {b}
    /\ allocated' = allocated \cup {b}

\* The open file a syscall on c.fd reaches.
FileOf(fd) == IF fd = NoFd THEN "free" ELSE fdSlot

Sent == {r \in Reqs : req[r] # [op |-> "none", arg |-> "none"]}
-----------------------------------------------------------------------------
(* Kernel: writes one request into /dev/fuse.  INIT comes first; the other *)
(* opcodes wait for a successful INIT reply; DESTROY only after umount.    *)
KernelSend(r, op, arg) ==
    /\ dev = "live"
    /\ r \notin Sent
    /\ arg \in ArgsOf(op)
    /\ IF op = "INIT"
         THEN kinit = "none" /\ kinit' = "sent"
         ELSE /\ kinit = "done"
              /\ op \in Opcodes
              /\ op = "DESTROY" => unmounted
              /\ UNCHANGED kinit
    /\ req' = [req EXCEPT ![r] = [op |-> op, arg |-> arg]]
    /\ queue' = Append(queue, r)
    /\ UNCHANGED <<dev, unmounted, replies, stray, strayRead, connFd, fdSlot,
                   rpc, rbuf, serveErr, wpc, frame, owner, poolVars, cancelled,
                   upc, strayClose, initialized, destroyed>>

(* Kernel: after the unmount syscall the connection is aborted; requests   *)
(* not yet read are failed inside the kernel.                               *)
KernelAbort ==
    /\ unmounted
    /\ dev = "live"
    /\ dev' = "gone"
    /\ queue' = <<>>
    /\ UNCHANGED <<req, kinit, unmounted, replies, stray, strayRead, connFd,
                   fdSlot, rpc, rbuf, serveErr, wpc, frame, owner, poolVars,
                   cancelled, upc, strayClose, initialized, destroyed>>

(* Another goroutine of the process opens a file; open(2) returns the      *)
(* lowest free number, which is FuseFd once that number was closed.        *)
OtherOpen ==
    /\ fdSlot = "free"
    /\ fdSlot' = "other"
    /\ UNCHANGED <<kernelVars, replies, stray, strayRead, connFd, rpc, rbuf,
                   serveErr, wpc, frame, owner, poolVars, cancelled, upc, strayClose,
                   initialized, destroyed>>
-----------------------------------------------------------------------------
(* Serve, top of the loop: select on s.ctx.Done().                         *)
ServeCheckCtx ==
    /\ rpc = "check"
    /\ IF cancelled
         THEN rpc' = "exited" /\ serveErr' = "canceled"
         ELSE rpc' = "read" /\ UNCHANGED serveErr
    /\ UNCHANGED <<kernelVars, replies, stray, strayRead, connFd, fdSlot, rbuf,
                   wpc, frame, owner, poolVars, cancelled, upc, strayClose, initialized,
                   destroyed>>

(* readRequest: pool.get, then syscall.Read(c.fd, buf) resolves c.fd.  A   *)
(* closed number fails with EBADF at once; a reused number reads another   *)
(* file (fewer than InHeaderSize bytes: io.ErrUnexpectedEOF); /dev/fuse    *)
(* blocks until a request or the abort arrives.                             *)
ReadRequestStart ==
    /\ rpc = "read"
    /\ \E b \in Gettable :
         CASE FileOf(connFd) = "fuse" ->
                /\ PoolGet(b)
                /\ rpc' = "blocked" /\ rbuf' = b
                /\ UNCHANGED <<serveErr, strayRead>>
           [] FileOf(connFd) = "free" ->
                /\ PoolGetPut(b)
                /\ rpc' = "exited" /\ serveErr' = "ebadf" /\ rbuf' = NoBuf
                /\ UNCHANGED strayRead
           [] FileOf(connFd) = "other" ->
                /\ PoolGetPut(b)
                /\ rpc' = "exited" /\ serveErr' = "eof" /\ rbuf' = NoBuf
                /\ strayRead' = TRUE
    /\ UNCHANGED <<kernelVars, replies, stray, connFd, fdSlot, wpc, frame,
                   owner, cancelled, upc, strayClose, initialized, destroyed>>

\* Fault variant of ReadRequestReturn: readRequest puts its buffer back
\* into the pool on every path (a deferred pool.put), also when the
\* buffer now backs the returned request.
ReadRequestReturnPutsBuffer ==
    /\ rpc = "blocked"
    /\ \/ /\ dev = "gone"
          /\ PoolPut(rbuf)
          /\ rpc' = "exited" /\ serveErr' = "nil" /\ rbuf' = NoBuf
          /\ UNCHANGED <<queue, wpc, owner>>
       \/ /\ dev = "live"
          /\ queue # <<>>
          /\ LET r == Head(queue) IN
               /\ owner' = [owner EXCEPT ![r] = rbuf]
               /\ wpc' = [wpc EXCEPT ![r] = "dispatch"]
          /\ queue' = Tail(queue)
          /\ rpc' = "check" /\ rbuf' = NoBuf
          /\ PoolPut(rbuf)
          /\ UNCHANGED serveErr
    /\ UNCHANGED <<req, kinit, dev, unmounted, replies, stray, strayRead,
                   connFd, fdSlot, frame, cancelled, upc, strayClose, initialized,
                   destroyed>>

(* readRequest returns: ENODEV once the connection is aborted (Serve       *)
(* returns nil), or the next request, handed to a new worker goroutine     *)
(* (s.wg.Add(1); go handleRequest) before the loop starts over.            *)
ReadRequestReturn ==
    /\ rpc = "blocked"
    /\ \/ /\ dev = "gone"
          /\ PoolPut(rbuf)
          /\ rpc' = "exited" /\ serveErr' = "nil" /\ rbuf' = NoBuf
          /\ UNCHANGED <<queue, wpc, owner>>
       \/ /\ dev = "live"
          /\ queue # <<>>
          /\ LET r == Head(queue) IN
               /\ owner' = [owner EXCEPT ![r] = rbuf]
               /\ wpc' = [wpc EXCEPT ![r] = "dispatch"]
          /\ queue' = Tail(queue)
          /\ rpc' = "check" /\ rbuf' = NoBuf
          /\ UNCHANGED <<serveErr, poolVars>>
    /\ UNCHANGED <<req, kinit, dev, unmounted, replies, stray, strayRead,
                   connFd, fdSlot, frame, cancelled, upc, strayClose, initialized,
                   destroyed>>

(* readRequest: the read fails with EINTR; the buffer goes back to the     *)
(* pool and Serve continues at the top of the loop.                         *)
ReadInterrupted ==
    /\ rpc = "blocked"
    /\ PoolPut(rbuf)
    /\ rpc' = "check" /\ rbuf' = NoBuf
    /\ UNCHANGED <<kernelVars, replies, stray, strayRead, connFd, fdSlot,
                   serveErr, wpc, frame, owner, cancelled, upc, strayClose, initialized,
                   destroyed>>
-----------------------------------------------------------------------------
\* Fault variant of Dispatch: sendError without its FORGET/BATCH_FORGET
\* guard, so a truncated BATCH_FORGET is answered with EINVAL.
DispatchNoForgetGuard(op, arg) ==
    CASE op \in WriteOps                      -> [pc |-> "write", frame |-> "err"]
      [] op \notin Handled                    -> [pc |-> "write", frame |-> "err"]
      [] op = "FLUSH"                         -> [pc |-> "write", frame |-> "ok"]
      [] op = "INTERRUPT"                     -> [pc |-> "release", frame |-> "none"]
      [] op = "BATCH_FORGET" /\ arg = "short" -> [pc |-> "write", frame |-> "err"]
      [] op = "INIT" /\ arg = "badMajor"      -> [pc |-> "write", frame |-> "ok"]
      [] op = "INIT" /\ arg = "oldMinor"      -> [pc |-> "write", frame |-> "err"]
      [] OTHER                                -> [pc |-> "fs", frame |-> "none"]

\* Fault variant of Dispatch: handleInterrupt answers with an empty
\* success, as handlers that do nothing usually do.
DispatchAnswersInterrupt(op, arg) ==
    CASE op \in WriteOps                      -> [pc |-> "write", frame |-> "err"]
      [] op \notin Handled                    -> [pc |-> "write", frame |-> "err"]
      [] op = "FLUSH"                         -> [pc |-> "write", frame |-> "ok"]
      [] op = "INTERRUPT"                     -> [pc |-> "write", frame |-> "ok"]
      [] op = "BATCH_FORGET" /\ arg = "short" -> [pc |-> "release", frame |-> "none"]
      [] op = "INIT" /\ arg = "badMajor"      -> [pc |-> "write", frame |-> "ok"]
      [] op = "INIT" /\ arg = "oldMinor"      -> [pc |-> "write", frame |-> "err"]
      [] OTHER                                -> [pc |-> "fs", frame |-> "none"]

\* handleRequest up to the filesystem call: the EROFS and ENOSYS refusals,
\* then the handlers that answer without the filesystem.  "fs" means the
\* handler goes on to call the filesystem.
Dispatch(op, arg) ==
    CASE op \in WriteOps                      -> [pc |-> "write", frame |-> "err"]
      [] op \notin Handled                    -> [pc |-> "write", frame |-> "err"]
      [] op = "FLUSH"                         -> [pc |-> "write", frame |-> "ok"]
      [] op = "INTERRUPT"                     -> [pc |-> "release", frame |-> "none"]
      [] op = "BATCH_FORGET" /\ arg = "short" -> [pc |-> "release", frame |-> "none"]
      [] op = "INIT" /\ arg = "badMajor"      -> [pc |-> "write", frame |-> "ok"]
      [] op = "INIT" /\ arg = "oldMinor"      -> [pc |-> "write", frame |-> "err"]
      [] OTHER                                -> [pc |-> "fs", frame |-> "none"]

\* Fault variant of AfterFs: handleRequest drops the handler's error
\* instead of passing it to sendError.
AfterFsDropsError(op, ok) ==
    IF op \in ForgetOps \/ ~(ok \/ op = "DESTROY")
      THEN [pc |-> "release", frame |-> "none"]
      ELSE [pc |-> "write", frame |-> "ok"]

\* The rest of the handler once the filesystem call returned (ok: it
\* returned a nil error): FORGET and BATCH_FORGET never answer, every
\* other handler answers with its result or with sendError.
AfterFs(op, ok) ==
    IF op \in ForgetOps THEN [pc |-> "release", frame |-> "none"]
    ELSE IF ok \/ op = "DESTROY" THEN [pc |-> "write", frame |-> "ok"]
    ELSE [pc |-> "write", frame |-> "err"]

(* A worker goroutine runs handleRequest up to the filesystem call.         *)
HandleRequest(r) ==
    /\ wpc[r] = "dispatch"
    /\ LET d == Dispatch(req[r].op, req[r].arg) IN
         /\ wpc' = [wpc EXCEPT ![r] = d.pc]
         /\ frame' = [frame EXCEPT ![r] = d.frame]
    /\ UNCHANGED <<kernelVars, replies, stray, strayRead, connFd, fdSlot, rpc,
                   rbuf, serveErr, owner, poolVars, cancelled, upc, strayClose,
                   initialized, destroyed>>

(* The filesystem callback returns and the handler finishes: Init success  *)
(* marks the server initialized, DESTROY marks it destroyed (Destroy has   *)
(* no error result).                                                        *)
FsReturn(r) ==
    /\ wpc[r] = "fs"
    /\ \E ok \in BOOLEAN :
         LET op == req[r].op
             a == AfterFs(op, ok)
         IN /\ wpc' = [wpc EXCEPT ![r] = a.pc]
            /\ frame' = [frame EXCEPT ![r] = a.frame]
            /\ initialized' = (initialized \/ (op = "INIT" /\ ok))
            /\ destroyed' = (destroyed \/ op = "DESTROY")
    /\ UNCHANGED <<kernelVars, replies, stray, strayRead, connFd, fdSlot, rpc,
                   rbuf, serveErr, owner, poolVars, cancelled, upc, strayClose>>

(* writeResponse under writeMu: syscall.Write(c.fd, frame).  The frame     *)
(* reaches the kernel only if c.fd still names /dev/fuse and the           *)
(* connection is live; a reused number receives it instead.  The kernel    *)
(* processes an INIT reply at once.                                         *)
WriteResponse(r) ==
    /\ wpc[r] = "write"
    /\ LET f == FileOf(connFd)
           delivered == f = "fuse" /\ dev = "live"
       IN /\ replies' = IF delivered THEN [replies EXCEPT ![r] = @ + 1]
                        ELSE replies
          /\ stray' = IF f = "other" THEN stray \cup {r} ELSE stray
          /\ kinit' = IF delivered /\ req[r].op = "INIT"
                        THEN IF frame[r] = "ok" /\ req[r].arg = "ok"
                               THEN "done" ELSE "failed"
                        ELSE kinit
    /\ wpc' = [wpc EXCEPT ![r] = "release"]
    /\ UNCHANGED <<queue, req, dev, unmounted, strayRead, connFd, fdSlot, rpc,
                   rbuf, serveErr, frame, owner, poolVars, cancelled, upc, strayClose,
                   initialized, destroyed>>

(* The deferred r.release() puts the buffer back, then s.wg.Done().        *)
Release(r) ==
    /\ wpc[r] = "release"
    /\ PoolPut(owner[r])
    /\ owner' = [owner EXCEPT ![r] = NoBuf]
    /\ wpc' = [wpc EXCEPT ![r] = "done"]
    /\ UNCHANGED <<kernelVars, replies, stray, strayRead, connFd, fdSlot, rpc,
                   rbuf, serveErr, frame, cancelled, upc, strayClose, initialized,
                   destroyed>>
-----------------------------------------------------------------------------
(* Server.Unmount, in its order: s.cancel(), unmount(mountPoint),          *)
(* s.conn.close() = if c.fd >= 0 { syscall.Close(c.fd); c.fd = -1 }, with *)
(* no lock, so two callers may both pass the test.  Nothing waits for the  *)
(* workers.                                                                 *)
UnmountCancel(u) ==
    /\ upc[u] = "idle"
    /\ cancelled' = TRUE
    /\ upc' = [upc EXCEPT ![u] = "unmount"]
    /\ UNCHANGED <<kernelVars, replies, stray, strayRead, strayClose, connFd,
                   fdSlot, rpc, rbuf, serveErr, wpc, frame, owner, poolVars,
                   initialized, destroyed>>

(* unmount(2) or fusermount -u; a second call fails, and Unmount goes on. *)
UnmountSyscall(u) ==
    /\ upc[u] = "unmount"
    /\ unmounted' = TRUE
    /\ upc' = [upc EXCEPT ![u] = "close"]
    /\ UNCHANGED <<queue, req, kinit, dev, replies, stray, strayRead,
                   strayClose, connFd, fdSlot, rpc, rbuf, serveErr, wpc, frame,
                   owner, poolVars, cancelled, initialized, destroyed>>

(* The c.fd >= 0 test and syscall.Close: on a reused number the close    *)
(* releases another owner's file.                                          *)
ConnClose(u) ==
    /\ upc[u] = "close"
    /\ fdSlot' = IF connFd # NoFd THEN "free" ELSE fdSlot
    /\ strayClose' = (strayClose \/ (connFd # NoFd /\ fdSlot = "other"))
    /\ upc' = [upc EXCEPT ![u] = IF connFd # NoFd THEN "clear" ELSE "done"]
    /\ UNCHANGED <<kernelVars, replies, stray, strayRead, connFd, rpc, rbuf,
                   serveErr, wpc, frame, owner, poolVars, cancelled,
                   initialized, destroyed>>

\* Fault variant of ConnClearFd: close stores 0 instead of -1.
ConnClearFdZero(u) ==
    /\ upc[u] = "clear"
    /\ connFd' = 0
    /\ upc' = [upc EXCEPT ![u] = "done"]
    /\ UNCHANGED <<kernelVars, replies, stray, strayRead, strayClose, fdSlot,
                   rpc, rbuf, serveErr, wpc, frame, owner, poolVars, cancelled,
                   initialized, destroyed>>

ConnClearFd(u) ==
    /\ upc[u] = "clear"
    /\ connFd' = NoFd
    /\ upc' = [upc EXCEPT ![u] = "done"]
    /\ UNCHANGED <<kernelVars, replies, stray, strayRead, strayClose, fdSlot,
                   rpc, rbuf, serveErr, wpc, frame, owner, poolVars, cancelled,
                   initialized, destroyed>>
-----------------------------------------------------------------------------
Init ==
    /\ queue = <<>>
    /\ req = [r \in Reqs |-> [op |-> "none", arg |-> "none"]]
    /\ kinit = "none"
    /\ dev = "live"
    /\ unmounted = FALSE
    /\ replies = [r \in Reqs |-> 0]
    /\ stray = {}
    /\ strayRead = FALSE
    /\ connFd = FuseFd
    /\ fdSlot = "fuse"
    /\ rpc = "check"
    /\ rbuf = NoBuf
    /\ serveErr = "none"
    /\ wpc = [r \in Reqs |-> "idle"]
    /\ frame = [r \in Reqs |-> "none"]
    /\ owner = [r \in Reqs |-> NoBuf]
    /\ pooled = {}
    /\ allocated = {}
    /\ cancelled = FALSE
    /\ upc = [u \in Unmounters |-> "idle"]
    /\ strayClose = FALSE
    /\ initialized = FALSE
    /\ destroyed = FALSE

Next ==
    \/ \E r \in Reqs, op \in Opcodes \cup {"INIT"}, a \in KernelVersions \cup {"short", "full", "none"} :
         KernelSend(r, op, a)
    \/ KernelAbort
    \/ OtherOpen
    \/ ServeCheckCtx
    \/ ReadRequestStart
    \/ ReadRequestReturn
    \/ ReadInterrupted
    \/ \E r \in Reqs : HandleRequest(r) \/ FsReturn(r) \/ WriteResponse(r)
                       \/ Release(r)
    \/ \E u \in Unmounters :
         UnmountCancel(u) \/ UnmountSyscall(u) \/ ConnClose(u) \/ ConnClearFd(u)

(* Goroutines that are runnable eventually run (Go's scheduler is          *)
(* preemptive), filesystem callbacks return, a read that keeps being       *)
(* offered a request is not interrupted forever, and once Unmount started  *)
(* it runs to its end and the kernel aborts the unmounted connection.      *)
(* The kernel sending requests and the user calling Unmount are not fair.  *)
Fairness ==
    /\ WF_vars(ServeCheckCtx)
    /\ WF_vars(ReadRequestStart)
    /\ SF_vars(ReadRequestReturn)
    /\ \A r \in Reqs : /\ WF_vars(HandleRequest(r)) /\ WF_vars(FsReturn(r))
                       /\ WF_vars(WriteResponse(r)) /\ WF_vars(Release(r))
    /\ \A u \in Unmounters :
         WF_vars(UnmountSyscall(u)) /\ WF_vars(ConnClose(u)) /\ WF_vars(ConnClearFd(u))
    /\ WF_vars(KernelAbort)

Spec == Init /\ [][Next]_vars /\ Fairness
-----------------------------------------------------------------------------
TypeOK ==
    /\ queue \in Seq(Reqs)
    /\ kinit \in {"none", "sent", "done", "failed"}
    /\ dev \in {"live", "gone"}
    /\ replies \in [Reqs -> Nat]
    /\ stray \subseteq Reqs
    /\ connFd \in {FuseFd, NoFd}
    /\ fdSlot \in {"fuse", "free", "other"}
    /\ rpc \in {"check", "read", "blocked", "exited"}
    /\ rbuf \in Bufs \cup {NoBuf}
    /\ serveErr \in {"none", "nil", "canceled", "ebadf", "eof"}
    /\ wpc \in [Reqs -> {"idle", "dispatch", "fs", "write", "release", "done"}]
    /\ frame \in [Reqs -> {"none", "ok", "err"}]
    /\ owner \in [Reqs -> Bufs \cup {NoBuf}]
    /\ pooled \subseteq allocated /\ allocated \subseteq Bufs
    /\ upc \in [Unmounters -> {"idle", "unmount", "close", "clear", "done"}]
    /\ strayClose \in BOOLEAN

\* The opcodes the spec exempts from the one-reply rule.
NoReplyOps == {"FORGET", "BATCH_FORGET", "INTERRUPT"}

(* Whatever the interleaving of workers, the read loop and Unmount, the    *)
(* kernel receives at most one frame per unique, and none at all for       *)
(* FORGET, BATCH_FORGET and INTERRUPT (handleRequest, sendError).          *)
ReplyDiscipline ==
    \A r \in Sent :
        replies[r] <= IF req[r].op \in NoReplyOps THEN 0 ELSE 1

(* Every buffer the pool has created is in exactly one place: in the pool, *)
(* in the hands of readRequest, or backing exactly one live request        *)
(* (readRequest's error paths, request.release).                           *)
BufferOwnership ==
    LET held == {owner[r] : r \in {x \in Reqs : owner[x] # NoBuf}}
                \cup (IF rbuf = NoBuf THEN {} ELSE {rbuf})
    IN /\ \A r1, r2 \in Reqs :
            r1 # r2 /\ owner[r1] # NoBuf => owner[r1] # owner[r2]
       /\ rbuf # NoBuf => \A r \in Reqs : owner[r] # rbuf
       /\ held \cap pooled = {}
       /\ held \cup pooled = allocated

(* The kernel's view of the connection: the uniques it issued with their *)
(* opcodes, the frames it received for each, and whether it has aborted.  *)
Channel == INSTANCE FuseChannel WITH
    Ops <- Opcodes \cup {"INIT"},
    issued <- [r \in Reqs |-> req[r].op],
    answers <- replies,
    live <- (dev = "live")

(* The server implements the FUSE channel: every frame the kernel         *)
(* receives answers an issued, not yet answered request that is owed an   *)
(* answer, and under the scheduler's fairness every such request is       *)
(* answered while the connection lives (Serve, handleRequest, sendError,  *)
(* sendResponse, writeResponse).                                          *)
ChannelRefinement == Channel!Spec

(* Every read, write and close the connection makes on c.fd reaches      *)
(* /dev/fuse:                                                              *)
(* the descriptor is not closed under a worker or the read loop that may   *)
(* still use it (Unmount, connection.close, writeResponse, readRequest).   *)
NoStrayIO == stray = {} /\ ~strayRead /\ ~strayClose

(* A server stopped by Unmount returns nil from Serve ("transport-gone     *)
(* ends the serve loop without error"; the README's main log.Fatal's on a  *)
(* non-nil result).                                                         *)
ServeReturnsNilOnUnmount ==
    (rpc = "exited" /\ cancelled) => serveErr = "nil"

(* Unmount shuts the server down cleanly (spec: transport-gone ends the   *)
(* serve loop without error; the descriptor is closed exactly once): no   *)
(* read, write or close reaches a file other than /dev/fuse, whether     *)
(* Unmount races the read loop, a worker or a second Unmount, and Serve   *)
(* stopped by Unmount returns nil.                                         *)
CleanUnmount == NoStrayIO /\ ServeReturnsNilOnUnmount
=============================================================================
