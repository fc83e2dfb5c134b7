-------------------------- MODULE CoordinatorProcess --------------------------
(***************************************************************************)
(* The coordinator process of multi-process serving, as the package       *)
(* README sets it up: Mount (mount() of src/mount.go) returns the          *)
(* /dev/fuse descriptor, then sharing.NewCoordinator(sockPath, server.Fd())*)
(* opens the listening socket, and the coordinator hands out clones.       *)
(*                                                                         *)
(* The two components share the process's descriptor table and the flag  *)
(* that records a close(2) hitting another owner's object.  mount() runs  *)
(* to completion before NewCoordinator; what outlives it is the garbage   *)
(* collector's finalizer of the os.File that mountFusermount put in        *)
(* cmd.ExtraFiles, which from then on runs concurrently with every         *)
(* coordinator goroutine, as do other goroutines' opens.                   *)
(***************************************************************************)
EXTENDS Integers

CONSTANTS
    MaxFd,       \* the highest descriptor number
    MaxOthers,   \* files other goroutines open
    Pids,        \* pids the worker processes register with
    MaxDials,    \* worker processes that connect
    CloneCount   \* CloneMultiple's count

VARIABLES
    fds, foreignClose,                                       \* shared
    pc, direct, devFd, sock, result, child, inflight, file,  \* mount()
    others,                                                  \* other goroutines
    dialed, apc, acc, accOutcome, closed, lnr, workers, wmu, \* coordinator
    cpc, todo, wclosed, wfd, wconn, wc, rpc, hpc, cm,
    started      \* NewCoordinator: "no", "yes", or "failed"

(* Variables and constants of the same name are substituted implicitly.   *)
Mnt == INSTANCE MountFd
Crd == INSTANCE Coordinator

mountVars == <<pc, direct, devFd, sock, result, child, inflight, file, others>>
coordVars == <<dialed, apc, acc, accOutcome, closed, lnr, workers, wmu,
               cpc, todo, wclosed, wfd, wconn, wc, rpc, hpc, cm>>
vars == <<fds, foreignClose, mountVars, coordVars, started>>

-----------------------------------------------------------------------------
(* mount()'s goroutine, the fusermount child, the finalizer and other     *)
(* goroutines' opens: every step of MountFd.                               *)
MountStep ==
    /\ Mnt!Next
    /\ UNCHANGED <<coordVars, started>>

(* NewFDPasser: os.Remove of the socket path leaves the table alone, and  *)
(* net.ListenUnix's socket takes the lowest free number.                  *)
NewFDPasser ==
    /\ Mnt!FreeNums(fds) # {}
    /\ lnr' = Mnt!LowestFree(fds)
    /\ fds' = Mnt!Alloc(fds, Crd!Listener)

(* NewCoordinator, once Mount returned a descriptor: the listener of      *)
(* NewFDPasser becomes the coordinator's; if listening fails (no number,  *)
(* or any other error of net.ListenUnix), no coordinator exists.          *)
NewCoordinator ==
    /\ started = "no"
    /\ pc = "done" /\ result # Mnt!NoFd
    /\ \/ /\ NewFDPasser
          /\ started' = "yes"
       \/ /\ started' = "failed"
          /\ UNCHANGED <<fds, lnr>>
    /\ UNCHANGED <<foreignClose, mountVars, dialed, apc, acc, accOutcome, closed,
                   workers, wmu, cpc, todo, wclosed, wfd, wconn, wc, rpc, hpc, cm>>

(* Every goroutine of the coordinator and the worker processes' dials.    *)
CoordinatorStep ==
    /\ started = "yes"
    /\ Crd!Next
    /\ UNCHANGED <<mountVars, started>>

Init ==
    /\ Mnt!Init
    /\ Crd!InitState
    /\ lnr = Mnt!NoFd
    /\ started = "no"

Next == MountStep \/ NewCoordinator \/ CoordinatorStep

Spec == Init /\ [][Next]_vars

-----------------------------------------------------------------------------
(* Every descriptor the process opens is closed exactly once by its owner:*)
(* no close(2) of mount(), its os.File finalizer, Worker.Close,           *)
(* CloneMultiple or Coordinator.Close hits a number another owner holds,  *)
(* and once the coordinator is closed and its accept loop stopped, it     *)
(* holds no clone (spec: the connection descriptor is valid for its       *)
(* lifetime; closing the coordinator closes all tracked workers' sockets  *)
(* and the listener).  The finalizer closing number 3 after               *)
(* net.ListenUnix reused it for the listener is the composed case.        *)
DescriptorsReleasedOnce ==
    /\ ~foreignClose
    /\ (started = "yes") => Crd!ClosedCoordinatorReleasesAll
====
