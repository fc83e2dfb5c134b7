--------------------------- MODULE HandoffAbstract ---------------------------
(***************************************************************************)
(* What handing a descriptor to a worker promises (spec, cross-process    *)
(* handoff): the sender sends it at most once; the worker ends exactly     *)
(* once, either holding the descriptor, which it can only do after it was *)
(* sent, or with an error.  A worker in Eager must end.                    *)
(***************************************************************************)
CONSTANTS Workers

VARIABLES
    sent,        \* w -> the descriptor for w was sent
    got,         \* w -> "none", "fd" or "error"
    eager        \* the workers that must reach an outcome

vars == <<sent, got, eager>>

Init ==
    /\ sent = [w \in Workers |-> FALSE]
    /\ got = [w \in Workers |-> "none"]
    /\ eager \subseteq Workers

Send(w) ==
    /\ ~sent[w]
    /\ sent' = [sent EXCEPT ![w] = TRUE]
    /\ UNCHANGED <<got, eager>>

Receive(w) ==
    /\ sent[w]
    /\ got[w] = "none"
    /\ got' = [got EXCEPT ![w] = "fd"]
    /\ UNCHANGED <<sent, eager>>

GiveUp(w) ==
    /\ got[w] = "none"
    /\ got' = [got EXCEPT ![w] = "error"]
    /\ UNCHANGED <<sent, eager>>

Next == \E w \in Workers : Send(w) \/ Receive(w) \/ GiveUp(w)

Spec ==
    /\ Init /\ [][Next]_vars
    /\ \A w \in Workers : w \in eager => WF_vars(Receive(w) \/ GiveUp(w))
====
