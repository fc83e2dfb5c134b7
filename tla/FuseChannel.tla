----------------------------- MODULE FuseChannel -----------------------------
(***************************************************************************)
(* What a FUSE daemon promises the kernel on /dev/fuse (spec, reply        *)
(* discipline and transport): while the connection is live the kernel     *)
(* issues requests under fresh uniques; the daemon answers every request  *)
(* exactly once, in any order, except FORGET, BATCH_FORGET and INTERRUPT, *)
(* which it never answers.  The connection may be aborted at any time;    *)
(* after that nothing is issued or answered.                              *)
(***************************************************************************)
CONSTANTS
    Reqs,        \* the uniques
    Ops,         \* the opcodes the kernel may issue
    NoReplyOps   \* the opcodes that get no answer

VARIABLES
    issued,      \* r -> its opcode, or "none" before the kernel issued r
    answers,     \* r -> the answers the kernel received for r
    live         \* the connection has not been aborted

vars == <<issued, answers, live>>

NeedsAnswer(r) == issued[r] \notin NoReplyOps \cup {"none"}

Init ==
    /\ issued = [r \in Reqs |-> "none"]
    /\ answers = [r \in Reqs |-> 0]
    /\ live = TRUE

Issue(r, op) ==
    /\ live
    /\ issued[r] = "none"
    /\ issued' = [issued EXCEPT ![r] = op]
    /\ UNCHANGED <<answers, live>>

Answer(r) ==
    /\ live
    /\ NeedsAnswer(r)
    /\ answers[r] = 0
    /\ answers' = [answers EXCEPT ![r] = 1]
    /\ UNCHANGED <<issued, live>>

Abort ==
    /\ live
    /\ live' = FALSE
    /\ UNCHANGED <<issued, answers>>

Next ==
    \/ \E r \in Reqs, op \in Ops : Issue(r, op)
    \/ \E r \in Reqs : Answer(r)
    \/ Abort

(* A request that is owed an answer gets it while the connection lives.  *)
Spec ==
    /\ Init /\ [][Next]_vars
    /\ \A r \in Reqs : WF_vars(Answer(r))
==============================================================================
