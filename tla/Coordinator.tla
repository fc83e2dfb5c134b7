----------------------------- MODULE Coordinator -----------------------------
(***************************************************************************)
(* The coordinator side of multi-process serving (src/unnamed/part_002)   *)
(* and in-process cloning (src/sharing/clone.go), over the coordinator    *)
(* process's descriptor table.                                             *)
(*                                                                         *)
(* Goroutines: one loop calling AcceptWorker (as in the package README),  *)
(* one calling Close, one calling RemoveWorker, one holding a *Worker that *)
(* AcceptWorker returned and calling its Close, and one calling            *)
(* CloneMultiple.  Worker processes are the environment: they dial the    *)
(* listener with a pid and then send their registration, or die.          *)
(*                                                                         *)
(* Worker.Close is a procedure whose steps any of three callers may run   *)
(* concurrently: it reads and writes w.closed and w.fd without a lock.     *)
(***************************************************************************)
EXTENDS Integers, Sequences, FiniteSets

CONSTANTS
    Pids,        \* pids the worker processes register with
    MaxDials,    \* worker processes that connect
    CloneCount,  \* CloneMultiple's count
    MaxFd        \* highest descriptor number

Dials == 1..MaxDials
Nums == 0..MaxFd
Stdio == 0..2
NoFd == -1
StdioObj == <<"stdio", 0>>
Master == <<"fuse", 0>>    \* the /dev/fuse descriptor mount() returned
Listener == <<"listener", 0>>
Free == <<"free", 0>>
Callers == {"remover", "holder", "closer"}

ASSUME CloneCount \in Nat \ {0} /\ MaxFd >= 4 + 2 * MaxDials + CloneCount

VARIABLES
    fds,         \* number -> <<kind, owner>> or Free
    dialed,      \* sequence of the pids of workers that connected
    apc,         \* AcceptWorker loop: its position
    acc,         \* AcceptWorker's locals: dial k, conn, clonedFd, reg.PID
    accOutcome,  \* dial k -> "none", "error", "ok": how AcceptWorker returned
    closed,      \* c.closed
    lnr,         \* the number of c.listener's socket, NoFd once Close closed it
    workers,     \* c.workers: pid -> dial of the Worker, 0 if absent
    wmu,         \* holder of c.workersMu: "none" or "closer"
    cpc,         \* Close's position
    todo,        \* workers Close has still to close
    wclosed,     \* dial -> w.closed
    wfd,         \* dial -> w.fd
    wconn,       \* dial -> number of w.conn, NoFd once net.Conn.Close ran
    wc,          \* caller -> [pc, w] of its running Worker.Close
    rpc,         \* RemoveWorker's position
    hpc,         \* the *Worker holder's position
    cm,          \* CloneMultiple: [pc, fds (sequence), pending]
    foreignClose \* some close(2) hit an object its caller did not open

vars == <<fds, dialed, apc, acc, accOutcome, closed, lnr, workers, wmu,
          cpc, todo, wclosed, wfd, wconn, wc, rpc, hpc, cm, foreignClose>>

accVars == <<apc, acc, accOutcome>>
wVars == <<wclosed, wfd, wconn, wc>>

-----------------------------------------------------------------------------
(* Descriptor allocation (lowest free number) and release.                 *)
FreeNums(t) == {n \in Nums : t[n] = Free}
LowestFree(t) == CHOOSE n \in FreeNums(t) : \A m \in FreeNums(t) : n <= m
Alloc(t, obj) == [t EXCEPT ![LowestFree(t)] = obj]

(* close(n) by a caller that believes n holds obj: EBADF on a free number, *)
(* and another owner's object closed on a reused one.                      *)
Foreign(t, n, obj) == t[n] \notin {obj, Free}
CloseIn(t, n) == [t EXCEPT ![n] = Free]

(* accept(2) and connect(2) reach the listening socket only while its      *)
(* number still names it.                                                  *)
Listening == lnr # NoFd /\ fds[lnr] = Listener

-----------------------------------------------------------------------------
(* CloneFuseFD: open /dev/fuse, then ioctl(FUSE_DEV_IOC_CLONE); a failed  *)
(* ioctl closes the new descriptor.  The result: the table afterwards and *)
(* the clone's number or NoFd.                                             *)
CloneFuseFD(t, obj) ==
    {[fds |-> t, fd |-> NoFd]}                               \* open failed
    \cup
    IF FreeNums(t) = {} THEN {}
    ELSE {[fds |-> Alloc(t, obj), fd |-> LowestFree(t)],     \* ioctl ok
          [fds |-> t, fd |-> NoFd]}                          \* ioctl failed, closed

-----------------------------------------------------------------------------
(* AcceptWorker.                                                           *)
Ret(outcome) ==
    /\ apc' = "check"
    /\ accOutcome' = [accOutcome EXCEPT ![acc.k] = outcome]

(* closeMu: return "coordinator closed" once Close has set c.closed.       *)
AcceptCheckClosed ==
    /\ apc = "check"
    /\ IF closed THEN apc' = "stopped" ELSE apc' = "accept"
    /\ UNCHANGED <<fds, acc, accOutcome, dialed, closed, lnr, workers,
                   wmu, cpc, todo, wVars, rpc, hpc, cm, foreignClose>>

(* listener.AcceptUnix: a queued connection, or an error once the         *)
(* listener is closed.                                                     *)
AcceptUnix ==
    /\ apc = "accept"
    /\ \/ /\ Listening
          /\ Len(dialed) > acc.k
          /\ FreeNums(fds) # {}
          /\ acc' = [k |-> acc.k + 1, conn |-> LowestFree(fds), clone |-> NoFd,
                     pid |-> dialed[acc.k + 1]]
          /\ fds' = Alloc(fds, <<"conn", acc.k + 1>>)
          /\ apc' = "decode"
          /\ UNCHANGED accOutcome
       \/ /\ ~Listening
          /\ apc' = "check"
          /\ UNCHANGED <<fds, acc, accOutcome>>
    /\ UNCHANGED <<dialed, closed, lnr, workers, wmu, cpc, todo, wVars,
                   rpc, hpc, cm, foreignClose>>

(* gob-decode the registration; on failure conn.Close().                   *)
AcceptDecode ==
    /\ apc = "decode"
    /\ \/ /\ apc' = "clone"
          /\ UNCHANGED <<fds, accOutcome>>
       \/ /\ fds' = CloseIn(fds, acc.conn)
          /\ Ret("error")
    /\ UNCHANGED <<acc, dialed, closed, lnr, workers, wmu, cpc, todo,
                   wVars, rpc, hpc, cm, foreignClose>>

(* CloneFuseFD(c.masterFd); on failure an error response and conn.Close(). *)
AcceptClone ==
    /\ apc = "clone"
    /\ \E r \in CloneFuseFD(fds, <<"clone", acc.k>>) :
          IF r.fd = NoFd
          THEN /\ fds' = CloseIn(r.fds, acc.conn)
               /\ Ret("error")
               /\ UNCHANGED acc
          ELSE /\ fds' = r.fds
               /\ acc' = [acc EXCEPT !.clone = r.fd]
               /\ apc' = "encode"
               /\ UNCHANGED accOutcome
    /\ UNCHANGED <<dialed, closed, lnr, workers, wmu, cpc, todo, wVars,
                   rpc, hpc, cm, foreignClose>>

(* Mutant: the encode and send error paths close only the connection.    *)
AcceptSendKeepsClone ==
    /\ apc \in {"encode", "sendfd"}
    /\ \/ /\ apc' = IF apc = "encode" THEN "sendfd" ELSE "register"
          /\ UNCHANGED <<fds, accOutcome>>
       \/ /\ fds' = CloseIn(fds, acc.conn)
          /\ Ret("error")
    /\ UNCHANGED <<acc, dialed, closed, lnr, workers, wmu, cpc, todo,
                   wVars, rpc, hpc, cm, foreignClose>>

(* Encode the success response, then SendFD (conn.File() dup, sendmsg with *)
(* SCM_RIGHTS, close of the dup).  Either failing closes the clone and     *)
(* the connection.                                                         *)
AcceptSend ==
    /\ apc \in {"encode", "sendfd"}
    /\ \/ /\ apc' = IF apc = "encode" THEN "sendfd" ELSE "register"
          /\ UNCHANGED <<fds, accOutcome>>
       \/ /\ fds' = CloseIn(CloseIn(fds, acc.clone), acc.conn)
          /\ Ret("error")
    /\ UNCHANGED <<acc, dialed, closed, lnr, workers, wmu, cpc, todo,
                   wVars, rpc, hpc, cm, foreignClose>>

(* workersMu: c.workers[reg.PID] = worker, then return it.                 *)
AcceptRegister ==
    /\ apc = "register"
    /\ wmu = "none"
    /\ workers' = [workers EXCEPT ![acc.pid] = acc.k]
    /\ wfd' = [wfd EXCEPT ![acc.k] = acc.clone]
    /\ wconn' = [wconn EXCEPT ![acc.k] = acc.conn]
    /\ Ret("ok")
    /\ UNCHANGED <<fds, acc, dialed, closed, lnr, wmu, cpc, todo,
                   wclosed, wc, rpc, hpc, cm, foreignClose>>

-----------------------------------------------------------------------------
(* Worker.Close, run by caller c on worker w.  WCCheck is `if w.closed`;  *)
(* WCConn sets w.closed and closes w.conn; WCFd reads w.fd and closes it; *)
(* WCClear sets w.fd = -1.  Nothing orders two callers' steps.             *)
WCStart(c, w) == wc' = [wc EXCEPT ![c] = [pc |-> "check", w |-> w]]
WCAt(c, l) == wc[c].pc = l
WCGo(c, l) == wc' = [wc EXCEPT ![c].pc = l]

WCCheck(c) ==
    /\ WCAt(c, "check")
    /\ WCGo(c, IF wclosed[wc[c].w] THEN "ret" ELSE "conn")
    /\ UNCHANGED <<fds, wclosed, wfd, wconn, foreignClose>>

WCConn(c) ==
    LET w == wc[c].w
    IN /\ WCAt(c, "conn")
       /\ wclosed' = [wclosed EXCEPT ![w] = TRUE]
       /\ IF wconn[w] # NoFd
          THEN /\ fds' = CloseIn(fds, wconn[w])
               /\ foreignClose' = (foreignClose \/ Foreign(fds, wconn[w], <<"conn", w>>))
               /\ wconn' = [wconn EXCEPT ![w] = NoFd]
          ELSE UNCHANGED <<fds, wconn, foreignClose>>
       /\ WCGo(c, "fd")
       /\ UNCHANGED wfd

WCFd(c) ==
    LET w == wc[c].w
    IN /\ WCAt(c, "fd")
       /\ IF wfd[w] >= 0
          THEN /\ fds' = CloseIn(fds, wfd[w])
               /\ foreignClose' = (foreignClose \/ Foreign(fds, wfd[w], <<"clone", w>>))
               /\ WCGo(c, "clear")
          ELSE /\ WCGo(c, "ret")
               /\ UNCHANGED <<fds, foreignClose>>
       /\ UNCHANGED <<wclosed, wfd, wconn>>

WCClear(c) ==
    /\ WCAt(c, "clear")
    /\ wfd' = [wfd EXCEPT ![wc[c].w] = NoFd]
    /\ WCGo(c, "ret")
    /\ UNCHANGED <<fds, wclosed, wconn, foreignClose>>

WorkerClose(c) == WCCheck(c) \/ WCConn(c) \/ WCFd(c) \/ WCClear(c)

WCDone(c) == WCAt(c, "ret") /\ wc' = [wc EXCEPT ![c] = [pc |-> "idle", w |-> 0]]

-----------------------------------------------------------------------------
(* Coordinator.Close: set closed under closeMu; under workersMu close     *)
(* every worker in the table (Go map order: any) and empty it; close the  *)
(* listener.                                                               *)
CloseSetClosed ==
    /\ cpc = "idle"
    /\ closed' = TRUE
    /\ cpc' = "lock"
    /\ UNCHANGED <<fds, dialed, accVars, lnr, workers, wmu, todo, wVars,
                   rpc, hpc, cm, foreignClose>>

CloseLock ==
    /\ cpc = "lock"
    /\ wmu = "none"
    /\ wmu' = "closer"
    /\ todo' = {workers[p] : p \in {q \in Pids : workers[q] # 0}}
    /\ cpc' = "loop"
    /\ UNCHANGED <<fds, dialed, accVars, closed, lnr, workers, wVars,
                   rpc, hpc, cm, foreignClose>>

CloseNextWorker ==
    /\ cpc = "loop"
    /\ \E w \in todo :
          /\ WCStart("closer", w)
          /\ todo' = todo \ {w}
    /\ cpc' = "wait"
    /\ UNCHANGED <<fds, dialed, accVars, closed, lnr, workers, wmu,
                   wclosed, wfd, wconn, rpc, hpc, cm, foreignClose>>

CloseWorkerDone ==
    /\ cpc = "wait"
    /\ WCDone("closer")
    /\ cpc' = "loop"
    /\ UNCHANGED <<fds, dialed, accVars, closed, lnr, workers, wmu, todo,
                   wclosed, wfd, wconn, rpc, hpc, cm, foreignClose>>

CloseListener ==
    /\ cpc = "loop"
    /\ todo = {}
    /\ workers' = [p \in Pids |-> 0]
    /\ wmu' = "none"
    /\ lnr' = NoFd
    /\ fds' = CloseIn(fds, lnr)
    /\ foreignClose' = (foreignClose \/ Foreign(fds, lnr, Listener))
    /\ cpc' = "done"
    /\ UNCHANGED <<dialed, accVars, closed, todo, wVars, rpc, hpc, cm>>

(* RemoveWorker(pid): delete under workersMu, then Worker.Close outside it.*)
RemoveLookup ==
    /\ rpc = "idle"
    /\ wmu = "none"
    /\ \E p \in Pids :
          /\ workers' = [workers EXCEPT ![p] = 0]
          /\ IF workers[p] # 0
             THEN /\ WCStart("remover", workers[p])
                  /\ rpc' = "closing"
             ELSE /\ rpc' = "done"
                  /\ UNCHANGED wc
    /\ UNCHANGED <<fds, dialed, accVars, closed, lnr, wmu, cpc, todo,
                   wclosed, wfd, wconn, hpc, cm, foreignClose>>

RemoveDone ==
    /\ rpc = "closing"
    /\ WCDone("remover")
    /\ rpc' = "done"
    /\ UNCHANGED <<fds, dialed, accVars, closed, lnr, workers, wmu, cpc,
                   todo, wclosed, wfd, wconn, hpc, cm, foreignClose>>

(* A goroutine holding the *Worker that AcceptWorker returned calls its   *)
(* Close, as the AcceptWorker comment invites ("when the worker            *)
(* disconnects").                                                          *)
HolderClose ==
    /\ hpc = "idle"
    /\ \E k \in Dials :
          /\ accOutcome[k] = "ok"
          /\ WCStart("holder", k)
    /\ hpc' = "closing"
    /\ UNCHANGED <<fds, dialed, accVars, closed, lnr, workers, wmu, cpc,
                   todo, wclosed, wfd, wconn, rpc, cm, foreignClose>>

HolderDone ==
    /\ hpc = "closing"
    /\ WCDone("holder")
    /\ hpc' = "done"
    /\ UNCHANGED <<fds, dialed, accVars, closed, lnr, workers, wmu, cpc,
                   todo, wclosed, wfd, wconn, rpc, cm, foreignClose>>

-----------------------------------------------------------------------------
(* CloneMultiple(masterFd, CloneCount): CloneFuseFD in a loop; the first  *)
(* failure closes every clone made so far and returns nil.  CloseAll then *)
(* closes the returned slice.                                              *)
CloseSeq(t, s) == [n \in Nums |-> IF \E i \in 1..Len(s) : s[i] = n THEN Free ELSE t[n]]
ForeignInSeq(t, s) == \E i \in 1..Len(s) : Foreign(t, s[i], <<"mclone", i>>)

(* Mutant: the cleanup loop skips the last clone made.                     *)
CloneMultipleStepSkipsLast ==
    /\ cm.pc = "loop"
    /\ \E r \in CloneFuseFD(fds, <<"mclone", Len(cm.fds) + 1>>) :
          IF r.fd = NoFd
          THEN LET kept == SubSeq(cm.fds, 1, Len(cm.fds) - 1)
               IN /\ fds' = CloseSeq(r.fds, kept)
                  /\ foreignClose' = (foreignClose \/ ForeignInSeq(r.fds, kept))
                  /\ cm' = [pc |-> "failed", fds |-> <<>>]
          ELSE /\ fds' = r.fds
               /\ cm' = [pc |-> IF Len(cm.fds) + 1 = CloneCount THEN "ok" ELSE "loop",
                         fds |-> Append(cm.fds, r.fd)]
               /\ UNCHANGED foreignClose

CloneMultipleStep ==
    /\ cm.pc = "loop"
    /\ \E r \in CloneFuseFD(fds, <<"mclone", Len(cm.fds) + 1>>) :
          IF r.fd = NoFd
          THEN /\ fds' = CloseSeq(r.fds, cm.fds)
               /\ foreignClose' = (foreignClose \/ ForeignInSeq(r.fds, cm.fds))
               /\ cm' = [pc |-> "failed", fds |-> <<>>]
          ELSE /\ fds' = r.fds
               /\ cm' = [pc |-> IF Len(cm.fds) + 1 = CloneCount THEN "ok" ELSE "loop",
                         fds |-> Append(cm.fds, r.fd)]
               /\ UNCHANGED foreignClose

CloseAll ==
    /\ cm.pc = "ok"
    /\ fds' = CloseSeq(fds, cm.fds)
    /\ foreignClose' = (foreignClose \/ ForeignInSeq(fds, cm.fds))
    /\ cm' = [pc |-> "closed", fds |-> <<>>]

-----------------------------------------------------------------------------
(* Environment: a worker process dials the listener with its pid          *)
(* (ConnectToCoordinator), while the listener is open.                    *)
WorkerDial ==
    /\ Listening
    /\ Len(dialed) < MaxDials
    /\ \E p \in Pids : dialed' = Append(dialed, p)
    /\ UNCHANGED <<fds, accVars, closed, lnr, workers, wmu, cpc, todo,
                   wVars, rpc, hpc, cm, foreignClose>>

(* The coordinator's state once NewCoordinator has returned, apart from  *)
(* the descriptor table and the listener's number.                         *)
InitState ==
    /\ dialed = <<>>
    /\ apc = "check"
    /\ acc = [k |-> 0, conn |-> NoFd, clone |-> NoFd, pid |-> CHOOSE p \in Pids : TRUE]
    /\ accOutcome = [k \in Dials |-> "none"]
    /\ closed = FALSE
    /\ workers = [p \in Pids |-> 0]
    /\ wmu = "none"
    /\ cpc = "idle"
    /\ todo = {}
    /\ wclosed = [k \in Dials |-> FALSE]
    /\ wfd = [k \in Dials |-> NoFd]
    /\ wconn = [k \in Dials |-> NoFd]
    /\ wc = [c \in Callers |-> [pc |-> "idle", w |-> 0]]
    /\ rpc = "idle"
    /\ hpc = "idle"
    /\ cm = [pc |-> "loop", fds |-> <<>>]
    /\ foreignClose = FALSE

(* Started from a process holding only stdio and the mounted master, where *)
(* NewFDPasser's listener takes the next number.                           *)
Init ==
    /\ fds = [n \in Nums |-> CASE n \in Stdio -> StdioObj [] n = 3 -> Master
                                 [] n = 4 -> Listener [] OTHER -> Free]
    /\ lnr = 4
    /\ InitState

Accept ==
    AcceptCheckClosed \/ AcceptUnix \/ AcceptDecode \/ AcceptClone
    \/ AcceptSend \/ AcceptRegister

Close ==
    CloseSetClosed \/ CloseLock \/ CloseNextWorker \/ CloseWorkerDone
    \/ CloseListener

CloneMultiple ==
    /\ CloneMultipleStep \/ CloseAll
    /\ UNCHANGED <<dialed, accVars, closed, lnr, workers, wmu, cpc, todo,
                   wVars, rpc, hpc>>

Next ==
    \/ Accept \/ Close \/ RemoveLookup \/ RemoveDone \/ HolderClose \/ HolderDone
    \/ \E c \in Callers :
          /\ WorkerClose(c)
          /\ UNCHANGED <<dialed, accVars, closed, lnr, workers, wmu, cpc,
                         todo, rpc, hpc, cm>>
    \/ CloneMultiple
    \/ WorkerDial

Spec == Init /\ [][Next]_vars

-----------------------------------------------------------------------------
Positions == {"check", "accept", "decode", "clone", "encode", "sendfd",
              "register", "stopped"}
Objects == {StdioObj, Master, Listener, Free} \cup ({"conn", "clone", "mclone"} \X (1..MaxFd))

TypeOK ==
    /\ fds \in [Nums -> Objects]
    /\ apc \in Positions
    /\ accOutcome \in [Dials -> {"none", "error", "ok"}]
    /\ lnr \in Nums \cup {NoFd}
    /\ workers \in [Pids -> 0..MaxDials]
    /\ wfd \in [Dials -> Nums \cup {NoFd}]
    /\ wconn \in [Dials -> Nums \cup {NoFd}]
    /\ wc \in [Callers -> [pc : {"idle", "check", "conn", "fd", "clear", "ret"},
                           w : 0..MaxDials]]
    /\ cm.pc \in {"loop", "ok", "failed", "closed"}

OpenObjs(kind, k) == \E n \in Nums : fds[n] = <<kind, k>>
Closing(k) == \E c \in Callers : wc[c].pc # "idle" /\ wc[c].w = k

(* Every error return of AcceptWorker (decode, clone, encode and SendFD   *)
(* failures) has released the connection it accepted and the clone it    *)
(* made: no descriptor of a failed registration stays open.               *)
AcceptErrorReleases ==
    \A k \in Dials :
        accOutcome[k] = "error" => ~OpenObjs("conn", k) /\ ~OpenObjs("clone", k)

(* CloneMultiple is all or nothing: once it has failed, or once CloseAll  *)
(* has run on its result, none of its clones is open.                      *)
CloneMultipleAllOrNothing ==
    cm.pc \in {"failed", "closed"} =>
        \A n \in Nums : fds[n] \notin ({"mclone"} \X (1..CloneCount))

(* Worker.Close closes the worker's connection and clone exactly once,    *)
(* whichever of RemoveWorker, Close and the Worker's holder call it, and   *)
(* never a descriptor another owner holds under a reused number (spec:    *)
(* connection descriptors are closed exactly once).                        *)
NoForeignClose == ~foreignClose

(* Once Close has returned and the AcceptWorker loop has stopped, no      *)
(* worker is tracked and every clone handed out is closed or being closed *)
(* by a Worker.Close in progress (spec: closing the coordinator closes     *)
(* all tracked workers' sockets and the listener).  A worker registered  *)
(* after Close emptied the table, or replaced in it by a second worker    *)
(* under the same pid, breaks it.                                          *)
ClosedCoordinatorReleasesAll ==
    cpc = "done" /\ apc = "stopped" =>
        /\ \A p \in Pids : workers[p] = 0
        /\ \A k \in Dials : OpenObjs("clone", k) => Closing(k)

(* Closing the coordinator releases every descriptor it handed out       *)
(* exactly once: at least once (ClosedCoordinatorReleasesAll) and never   *)
(* twice, where the second close would hit a reused number               *)
(* (NoForeignClose).  AcceptWorker racing Close, a duplicate pid, and    *)
(* Worker.Close racing itself each break it.                              *)
CoordinatorReleasesExactlyOnce ==
    NoForeignClose /\ ClosedCoordinatorReleasesAll
====
