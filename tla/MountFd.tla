------------------------------- MODULE MountFd -------------------------------
(***************************************************************************)
(* The descriptor handling of mount() in src/mount.go: mountDirect opens  *)
(* /dev/fuse and mounts; mountFusermount makes a socket pair, wraps        *)
(* fds[0] in an os.File for cmd.ExtraFiles, runs fusermount, receives the  *)
(* FUSE descriptor over fds[1] and closes both ends.                      *)
(*                                                                         *)
(* The process's descriptor table is a function from numbers to the open  *)
(* object (or Free); open(2), socketpair(2) and recvmsg(2) take the       *)
(* lowest free numbers, as Linux does.  Two other actors share the table: *)
(* the garbage collector, which runs the os.File's finalizer (a close of   *)
(* the number it wraps) once the File is unreachable, and other goroutines *)
(* of the program that open files.                                         *)
(***************************************************************************)
EXTENDS Integers, FiniteSets

CONSTANTS
    MaxFd,       \* the highest descriptor number the model uses
    MaxOthers    \* how many files other goroutines open

Nums == 0..MaxFd
Stdio == 0..2
NoFd == -1

ASSUME MaxFd >= 6 /\ MaxOthers \in Nat

VARIABLES
    fds,         \* number -> the object it names, or Free
    pc,          \* position of the goroutine running mount()
    direct,      \* opts.DirectMount
    devFd,       \* mountDirect's fd
    sock,        \* mountFusermount's fds: [a |-> fds[0], b |-> fds[1]]
    result,      \* the descriptor mount() returned, or NoFd
    child,       \* the fusermount process: "none", "running", "exit0", "exit1"
    inflight,    \* fusermount's SCM_RIGHTS message is queued on fds[1]
    file,        \* the os.File over fds[0]: "none", "live", "garbage", "finalized"
    others,      \* files opened by other goroutines
    foreignClose \* some close(2) hit another owner's object

vars == <<fds, pc, direct, devFd, sock, result, child, inflight, file, others,
          foreignClose>>

(* Open objects as <<kind, index>> pairs, the form Coordinator uses, so   *)
(* that the two can share one descriptor table.  SockA and SockB are      *)
(* fds[0] and fds[1] of the socket pair.                                   *)
StdioObj == <<"stdio", 0>>
Fuse == <<"fuse", 0>>
SockA == <<"sockA", 0>>
SockB == <<"sockB", 0>>
Other == <<"other", 0>>
Free == <<"free", 0>>
Objects == {StdioObj, Fuse, SockA, SockB, Other, Free}

-----------------------------------------------------------------------------
(* The kernel's descriptor allocation and release.                         *)
FreeNums(t) == {n \in Nums : t[n] = Free}
LowestFree(t) == CHOOSE n \in FreeNums(t) : \A m \in FreeNums(t) : n <= m
Alloc(t, obj) == [t EXCEPT ![LowestFree(t)] = obj]

(* close(n) by a caller that believes n holds obj.  On a free number it   *)
(* fails with EBADF; on a number reused by another owner it closes that   *)
(* owner's object.                                                         *)
Foreign(t, n, obj) == t[n] \notin {obj, Free}

CloseAs(n, obj) ==
    /\ fds' = [fds EXCEPT ![n] = Free]
    /\ foreignClose' = (foreignClose \/ Foreign(fds, n, obj))

Goto(l) == pc' = l

-----------------------------------------------------------------------------
(* mount: os.Stat of the mount point, then the DirectMount switch.        *)
MountStat ==
    /\ pc = "stat"
    /\ \/ Goto(IF direct THEN "directOpen" ELSE "socketpair")
       \/ Goto("done")                \* stat error or not a directory
    /\ UNCHANGED <<fds, direct, result, devFd, sock, child, inflight, file, others,
                   foreignClose>>

(* mountDirect: open /dev/fuse, then mount(2); a failed mount closes fd.  *)
DirectOpen ==
    /\ pc = "directOpen"
    /\ \/ /\ FreeNums(fds) # {}
          /\ devFd' = LowestFree(fds)
          /\ fds' = Alloc(fds, Fuse)
          /\ Goto("directMount")
          /\ UNCHANGED result
       \/ /\ Goto("done")             \* open /dev/fuse failed
          /\ result' = NoFd
          /\ UNCHANGED <<fds, devFd>>
    /\ UNCHANGED <<direct, sock, child, inflight, file, others, foreignClose>>

DirectMount ==
    /\ pc = "directMount"
    /\ \/ /\ result' = devFd
          /\ UNCHANGED <<fds, foreignClose>>
       \/ /\ CloseAs(devFd, Fuse)   \* mount(2) failed
          /\ result' = NoFd
    /\ Goto("done")
    /\ UNCHANGED <<direct, devFd, sock, child, inflight, file, others>>

(* mountFusermount: socketpair, option building, LookPath and the Cmd with *)
(* ExtraFiles = os.NewFile(fds[0]); the File is reachable through cmd.     *)
Socketpair ==
    /\ pc = "socketpair"
    /\ \/ /\ Cardinality(FreeNums(fds)) >= 2
          /\ LET a == LowestFree(fds)
                 t == [fds EXCEPT ![a] = SockA]
             IN /\ sock' = [a |-> a, b |-> LowestFree(t)]
                /\ fds' = Alloc(t, SockB)
          /\ file' = "live"
          /\ Goto("start")
          /\ UNCHANGED result
       \/ /\ Goto("done")             \* socketpair failed
          /\ result' = NoFd
          /\ UNCHANGED <<fds, sock, file>>
    /\ UNCHANGED <<direct, devFd, child, inflight, others, foreignClose>>

(* cmd.Start; on failure close fds[1] and return through the deferred     *)
(* close of fds[0].  cmd is not used after a failed Start.                 *)
FusermountStart ==
    /\ pc = "start"
    /\ \/ /\ child' = "running"
          /\ Goto("wait")
          /\ UNCHANGED <<fds, file, foreignClose>>
       \/ /\ CloseAs(sock.b, SockB)
          /\ file' = "garbage"
          /\ Goto("defer")
          /\ UNCHANGED child
    /\ UNCHANGED <<direct, devFd, sock, result, inflight, others>>

(* The fusermount process mounts and sends the descriptor, then exits 0; *)
(* or it fails and exits non-zero.                                         *)
FusermountRun ==
    /\ child = "running"
    /\ \/ /\ child' = "exit0"
          /\ inflight' = TRUE
       \/ /\ child' = "exit1"
          /\ UNCHANGED inflight
    /\ UNCHANGED <<fds, pc, direct, devFd, sock, result, file, others,
                   foreignClose>>

(* Mutant: the Wait error path returns without closing fds[1].            *)
FusermountWaitLeaks ==
    /\ pc = "wait"
    /\ child \in {"exit0", "exit1"}
    /\ file' = "garbage"
    /\ \/ /\ child = "exit0"
          /\ Goto("recv")
       \/ /\ child = "exit1"
          /\ Goto("defer")
    /\ UNCHANGED <<fds, foreignClose, direct, devFd, sock, result, child,
                   inflight, others>>

(* cmd.Wait; its last use of cmd, after which the File is garbage.        *)
FusermountWait ==
    /\ pc = "wait"
    /\ child \in {"exit0", "exit1"}
    /\ file' = "garbage"
    /\ \/ /\ child = "exit0"
          /\ Goto("recv")
          /\ UNCHANGED <<fds, foreignClose>>
       \/ /\ child = "exit1"
          /\ CloseAs(sock.b, SockB)
          /\ Goto("defer")
    /\ UNCHANGED <<direct, devFd, sock, result, child, inflight, others>>

(* Recvmsg on fds[1] installs the passed descriptor at the lowest free    *)
(* number, then fds[1] is closed and the descriptor returned.              *)
Recvmsg ==
    /\ pc = "recv"
    /\ inflight
    /\ FreeNums(fds) # {}
    /\ LET r == LowestFree(fds)
           t == [fds EXCEPT ![r] = Fuse]
       IN /\ result' = r
          /\ fds' = [t EXCEPT ![sock.b] = Free]
          /\ foreignClose' = (foreignClose \/ Foreign(t, sock.b, SockB))
    /\ inflight' = FALSE
    /\ Goto("defer")
    /\ UNCHANGED <<direct, devFd, sock, child, file, others>>

(* defer syscall.Close(fds[0]) as mountFusermount returns.                 *)
DeferClose ==
    /\ pc = "defer"
    /\ CloseAs(sock.a, SockA)
    /\ Goto("done")
    /\ UNCHANGED <<direct, devFd, sock, result, child, inflight, file, others>>

-----------------------------------------------------------------------------
(* The os.File finalizer: file.close on the number the File wraps.       *)
Finalize ==
    /\ file = "garbage"
    /\ file' = "finalized"
    /\ CloseAs(sock.a, SockA)
    /\ UNCHANGED <<pc, direct, devFd, sock, result, child, inflight, others>>

(* Another goroutine opens a file.                                         *)
OtherOpen ==
    /\ others < MaxOthers
    /\ FreeNums(fds) # {}
    /\ fds' = Alloc(fds, Other)
    /\ others' = others + 1
    /\ UNCHANGED <<pc, direct, devFd, sock, result, child, inflight, file,
                   foreignClose>>

Init ==
    /\ fds = [n \in Nums |-> IF n \in Stdio THEN StdioObj ELSE Free]
    /\ pc = "stat"
    /\ direct \in BOOLEAN
    /\ devFd = NoFd
    /\ sock = [a |-> NoFd, b |-> NoFd]
    /\ result = NoFd
    /\ child = "none"
    /\ inflight = FALSE
    /\ file = "none"
    /\ others = 0
    /\ foreignClose = FALSE

Next ==
    \/ MountStat \/ DirectOpen \/ DirectMount
    \/ Socketpair \/ FusermountStart \/ FusermountRun \/ FusermountWait
    \/ Recvmsg \/ DeferClose
    \/ Finalize \/ OtherOpen

Spec == Init /\ [][Next]_vars

-----------------------------------------------------------------------------
TypeOK ==
    /\ fds \in [Nums -> Objects]
    /\ pc \in {"stat", "directOpen", "directMount", "socketpair", "start",
               "wait", "recv", "defer", "done"}
    /\ direct \in BOOLEAN
    /\ devFd \in Nums \cup {NoFd}
    /\ sock \in [a : Nums \cup {NoFd}, b : Nums \cup {NoFd}]
    /\ result \in Nums \cup {NoFd}
    /\ child \in {"none", "running", "exit0", "exit1"}
    /\ inflight \in BOOLEAN
    /\ file \in {"none", "live", "garbage", "finalized"}
    /\ others \in 0..MaxOthers
    /\ foreignClose \in BOOLEAN

(* Every path out of mount(), mountDirect and mountFusermount (a failed  *)
(* mount(2), a failed Start or Wait, the normal return) releases what it *)
(* opened: once mount() has returned, neither socket-pair end is open and *)
(* no /dev/fuse descriptor is open except the one it returned.            *)
NoLeak ==
    pc = "done" =>
        \A n \in Nums :
            /\ fds[n] \notin {SockA, SockB}
            /\ fds[n] = Fuse => n = result

(* Every close(2) the process issues (mount's error paths, the deferred  *)
(* close of fds[0], the os.File finalizer) closes the object its caller   *)
(* opened, never a descriptor that another owner holds under a reused     *)
(* number (spec: the connection descriptor is valid for its lifetime).    *)
NoForeignClose == ~foreignClose
====
