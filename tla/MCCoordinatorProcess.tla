------------------------- MODULE MCCoordinatorProcess -------------------------
(***************************************************************************)
(* Bounds for CoordinatorProcess (MCCoordinatorProcess.cfg): one pid and  *)
(* two worker processes dialing, so the second registration under the    *)
(* same pid overwrites the first; one clone; no other goroutine opens     *)
(* files, so any reused number a stray close hits belongs to mount() or   *)
(* the coordinator.                                                        *)
(***************************************************************************)
EXTENDS CoordinatorProcess

CONSTANTS p1

MCPids == {p1}
====
