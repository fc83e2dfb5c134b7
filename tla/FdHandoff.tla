------------------------------ MODULE FdHandoff ------------------------------
(***************************************************************************)
(* Handing a FUSE descriptor to worker processes over a unix stream       *)
(* socket (src/sharing/fdpass.go, src/unnamed/part_002).  Each worker w    *)
(* has its own connection; down[w] is the byte stream from the sending    *)
(* side to the worker, a sequence of segments: "ok" or "err" for a gob     *)
(* ResponseMessage, "rights" for SendFD's one byte carrying SCM_RIGHTS.    *)
(*                                                                         *)
(* A worker in mode "gob" runs ConnectToCoordinator against AcceptWorker;  *)
(* one in mode "plain" runs ConnectAndReceiveFD against a sender that      *)
(* calls FDPasser.Accept, SendFD and closes the connection.                *)
(*                                                                         *)
(* gob.NewDecoder wraps the connection in a bufio.Reader, whose read(2)   *)
(* takes every queued byte up to and including the first SCM_RIGHTS byte. *)
(* A read without a control buffer makes the kernel close the passed       *)
(* descriptor (MSG_CTRUNC); the model records that in lost[w].             *)
(***************************************************************************)
EXTENDS Integers, Sequences

CONSTANTS
    Workers,     \* worker processes, one connection each
    Modes        \* the receiving paths in use: subset of {"gob", "plain"}

ASSUME Modes \subseteq {"gob", "plain"} /\ Modes # {}

VARIABLES
    mode,        \* w -> "gob" or "plain"
    down,        \* w -> segments queued from the sender to the worker
    up,          \* w -> the worker's RegisterMessage is queued
    spc,         \* w -> position of the sending side
    sclosed,     \* w -> the sending side closed the connection
    wpc,         \* w -> position of the worker
    wfds,        \* w -> descriptors the worker holds: "conn", "file", "clone"
    lost,        \* w -> the kernel discarded the passed descriptor
    dialed       \* w -> the worker's connection was established

vars == <<mode, down, up, spc, sclosed, wpc, wfds, lost, dialed>>

Done == {"ready", "failed"}

-----------------------------------------------------------------------------
(* Sending side.  AcceptWorker serves one connection at a time.           *)
InAccept == {"decode", "clone", "encode", "sendfd"}
Busy(w) == \E v \in Workers \ {w} : mode[v] = "gob" /\ spc[v] \in InAccept

SGo(w, l) == spc' = [spc EXCEPT ![w] = l]
Write(w, seg) == down' = [down EXCEPT ![w] = Append(@, seg)]
SClose(w, l) ==
    /\ sclosed' = [sclosed EXCEPT ![w] = TRUE]
    /\ SGo(w, l)

(* listener.AcceptUnix (AcceptWorker) or FDPasser.Accept.                  *)
Accept(w) ==
    /\ spc[w] = "listen"
    /\ dialed[w]
    /\ mode[w] = "gob" => ~Busy(w)
    /\ SGo(w, IF mode[w] = "gob" THEN "decode" ELSE "sendfd")
    /\ UNCHANGED <<down, sclosed>>

(* gob-decode the registration: it arrives, or the worker closed first.   *)
DecodeRegistration(w) ==
    /\ spc[w] = "decode"
    /\ \/ /\ up[w]
          /\ SGo(w, "clone")
          /\ UNCHANGED sclosed
       \/ /\ ~up[w]
          /\ "conn" \notin wfds[w]
          /\ SClose(w, "done")
    /\ UNCHANGED down

(* CloneFuseFD; on failure an error response and conn.Close().             *)
Clone(w) ==
    /\ spc[w] = "clone"
    /\ \/ /\ SGo(w, "encode")
          /\ UNCHANGED <<down, sclosed>>
       \/ /\ Write(w, "err")
          /\ SClose(w, "done")

(* Encode the success response; its failure closes clone and connection.  *)
EncodeResponse(w) ==
    /\ spc[w] = "encode"
    /\ \/ /\ Write(w, "ok")
          /\ SGo(w, "sendfd")
          /\ UNCHANGED sclosed
       \/ /\ SClose(w, "done")
          /\ UNCHANGED down

(* SendFD: sendmsg of one byte with SCM_RIGHTS.  AcceptWorker then keeps   *)
(* the connection in its Worker; the FDPasser user closes it.              *)
SendFD(w) ==
    /\ spc[w] = "sendfd"
    /\ \/ /\ Write(w, "rights")
          /\ SGo(w, IF mode[w] = "gob" THEN "registered" ELSE "closing")
          /\ UNCHANGED sclosed
       \/ /\ SClose(w, "done")
          /\ UNCHANGED down

SenderClose(w) ==
    /\ spc[w] = "closing"
    /\ SClose(w, "done")
    /\ UNCHANGED down

(* RemoveWorker or Close of the coordinator: Worker.Close closes the conn. *)
WorkerRelease(w) ==
    /\ spc[w] = "registered"
    /\ SClose(w, "done")
    /\ UNCHANGED down

-----------------------------------------------------------------------------
(* Worker side.                                                            *)
WGo(w, l) == wpc' = [wpc EXCEPT ![w] = l]
Hold(w, S) == wfds' = [wfds EXCEPT ![w] = S]
Fail(w) == WGo(w, "failed") /\ Hold(w, {})

(* Take the head segment of down[w].                                       *)
Consume(w) == down' = [down EXCEPT ![w] = Tail(@)]

(* The prefix of s a stream read(2) returns: up to the first rights byte. *)
RECURSIVE ReadPrefix(_)
ReadPrefix(s) ==
    IF s = <<>> THEN <<>>
    ELSE IF Head(s) = "rights" THEN <<Head(s)>>
    ELSE <<Head(s)>> \o ReadPrefix(Tail(s))

Contains(s, x) == \E i \in 1..Len(s) : s[i] = x

(* net.DialUnix; on error nothing is open.                                 *)
Dial(w) ==
    /\ wpc[w] = "dial"
    /\ \/ /\ WGo(w, IF mode[w] = "gob" THEN "register" ELSE "file")
          /\ Hold(w, {"conn"})
          /\ dialed' = [dialed EXCEPT ![w] = TRUE]
       \/ Fail(w) /\ UNCHANGED dialed
    /\ UNCHANGED <<down, up, lost>>

(* ConnectToCoordinator: encode RegisterMessage, closing conn on error.    *)
Register(w) ==
    /\ wpc[w] = "register"
    /\ \/ /\ up' = [up EXCEPT ![w] = TRUE]
          /\ WGo(w, "response")
          /\ UNCHANGED wfds
       \/ /\ Fail(w)
          /\ UNCHANGED up
    /\ UNCHANGED <<down, lost>>

(* Mutant: a failed response returns without conn.Close().               *)
DecodeResponseKeepsConn(w) ==
    /\ wpc[w] = "response"
    /\ down[w] # <<>> \/ sclosed[w]
    /\ IF down[w] = <<>>
       THEN Fail(w) /\ UNCHANGED <<down, lost>>
       ELSE LET r == ReadPrefix(down[w])
            IN /\ down' = [down EXCEPT ![w] = SubSeq(@, Len(r) + 1, Len(@))]
               /\ lost' = [lost EXCEPT ![w] = Contains(r, "rights")]
               /\ WGo(w, IF Head(r) = "ok" THEN "file" ELSE "failed")
               /\ UNCHANGED wfds
    /\ UNCHANGED up

(* gob Decode of the ResponseMessage through the bufio.Reader: one read(2) *)
(* of what is queued, or EOF once the sender closed.  Success goes on to  *)
(* ReceiveFD; an error response or a decode error closes conn.             *)
DecodeResponse(w) ==
    /\ wpc[w] = "response"
    /\ down[w] # <<>> \/ sclosed[w]
    /\ IF down[w] = <<>>
       THEN Fail(w) /\ UNCHANGED <<down, lost>>
       ELSE LET r == ReadPrefix(down[w])
            IN /\ down' = [down EXCEPT ![w] = SubSeq(@, Len(r) + 1, Len(@))]
               /\ lost' = [lost EXCEPT ![w] = Contains(r, "rights")]
               /\ IF Head(r) = "ok" THEN WGo(w, "file") /\ UNCHANGED wfds
                                    ELSE Fail(w)
    /\ UNCHANGED up

(* ReceiveFD: conn.File() dups the socket; its failure returns an error.   *)
File(w) ==
    /\ wpc[w] = "file"
    /\ \/ /\ WGo(w, "recvmsg")
          /\ Hold(w, wfds[w] \cup {"file"})
       \/ /\ Fail(w)
    /\ UNCHANGED <<down, up, lost>>

(* Mutant: recvmsg's EOF is taken for a received descriptor.             *)
RecvmsgEofSucceeds(w) ==
    /\ wpc[w] = "recvmsg"
    /\ down[w] # <<>> \/ sclosed[w]
    /\ IF down[w] = <<>>
       THEN /\ WGo(w, "ready")
            /\ Hold(w, IF mode[w] = "gob" THEN {"conn", "clone"} ELSE {"clone"})
            /\ UNCHANGED down
       ELSE /\ Consume(w)
            /\ IF Head(down[w]) = "rights"
               THEN /\ WGo(w, "ready")
                    /\ Hold(w, IF mode[w] = "gob" THEN {"conn", "clone"} ELSE {"clone"})
               ELSE Fail(w)
    /\ UNCHANGED <<up, lost>>

(* recvmsg of one byte with room for one descriptor, then the deferred    *)
(* f.Close().  A byte without rights, or EOF, is "no file descriptor       *)
(* received".  ConnectAndReceiveFD's deferred conn.Close() runs on every   *)
(* return; ConnectToCoordinator keeps conn on success.                     *)
Recvmsg(w) ==
    /\ wpc[w] = "recvmsg"
    /\ down[w] # <<>> \/ sclosed[w]
    /\ IF down[w] = <<>>
       THEN Fail(w) /\ UNCHANGED down
       ELSE /\ Consume(w)
            /\ IF Head(down[w]) = "rights"
               THEN /\ WGo(w, "ready")
                    /\ Hold(w, IF mode[w] = "gob" THEN {"conn", "clone"} ELSE {"clone"})
               ELSE Fail(w)
    /\ UNCHANGED <<up, lost>>

-----------------------------------------------------------------------------
Init ==
    /\ mode \in [Workers -> Modes]
    /\ down = [w \in Workers |-> <<>>]
    /\ up = [w \in Workers |-> FALSE]
    /\ spc = [w \in Workers |-> "listen"]
    /\ sclosed = [w \in Workers |-> FALSE]
    /\ wpc = [w \in Workers |-> "dial"]
    /\ wfds = [w \in Workers |-> {}]
    /\ lost = [w \in Workers |-> FALSE]
    /\ dialed = [w \in Workers |-> FALSE]

Sender(w) ==
    /\ \/ Accept(w) \/ DecodeRegistration(w) \/ Clone(w) \/ EncodeResponse(w)
       \/ SendFD(w) \/ SenderClose(w)
    /\ UNCHANGED <<mode, up, wpc, wfds, lost, dialed>>

Worker(w) ==
    /\ Dial(w) \/ Register(w) \/ DecodeResponse(w) \/ File(w) \/ Recvmsg(w)
    /\ UNCHANGED <<mode, spc, sclosed>>
    /\ wpc[w] # "dial" => UNCHANGED dialed

Release(w) == WorkerRelease(w) /\ UNCHANGED <<mode, up, wpc, wfds, lost, dialed>>

Next == \E w \in Workers : Sender(w) \/ Worker(w) \/ Release(w)

(* Both processes' goroutines are scheduled; a blocked read waits for     *)
(* data or EOF.  Releasing a registered worker is up to the coordinator's *)
(* user and is not assumed.                                                *)
Fairness == \A w \in Workers : WF_vars(Sender(w)) /\ WF_vars(Worker(w))

Spec == Init /\ [][Next]_vars /\ Fairness

-----------------------------------------------------------------------------
(* Every worker gets to the end of ConnectToCoordinator or                *)
(* ConnectAndReceiveFD: it holds the descriptor the sender passed, or it  *)
(* has an error (spec: the worker receives one descriptor via ancillary    *)
(* data and uses it).  A worker blocked for ever in recvmsg has neither.   *)
HandoffCompletes == \A w \in Workers : <>(wpc[w] \in Done)

(* Every error return of ConnectToCoordinator, ReceiveFD and              *)
(* ConnectAndReceiveFD has closed the connection and the dup of it, and   *)
(* ReceiveFD's deferred f.Close() has run before any return.              *)
WorkerFailureReleases ==
    \A w \in Workers :
        /\ wpc[w] = "failed" => wfds[w] = {}
        /\ wpc[w] = "ready" => "file" \notin wfds[w]

-----------------------------------------------------------------------------
(* Refinement of HandoffAbstract.  The descriptor counts as sent once     *)
(* SendFD queued its byte: it is then in the stream, in the worker, or    *)
(* discarded by the kernel.  A worker's outcome is its final position.    *)
(* ConnectAndReceiveFD workers are the ones that must end.                 *)
Sent(w) ==
    \/ Contains(down[w], "rights")
    \/ lost[w]
    \/ "clone" \in wfds[w]
    \/ spc[w] \in {"registered", "closing"}

Outcome(w) == CASE wpc[w] = "ready"  -> "fd"
                [] wpc[w] = "failed" -> "error"
                [] OTHER             -> "none"

Abstract == INSTANCE HandoffAbstract WITH
    sent <- [w \in Workers |-> Sent(w)],
    got <- [w \in Workers |-> Outcome(w)],
    eager <- {w \in Workers : mode[w] = "plain"}

(* Both receiving paths implement the abstract handoff: a worker ends at  *)
(* most once, holds a descriptor only after SendFD sent one, and a         *)
(* ConnectAndReceiveFD worker always ends.                                 *)
HandoffRefinement == Abstract!Spec
====
