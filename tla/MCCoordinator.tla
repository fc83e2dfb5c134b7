--------------------------- MODULE MCCoordinator ---------------------------
(***************************************************************************)
(* Bounds for Coordinator.  Two worker processes dial; with two pids they *)
(* register apart, with one they collide.  CloneMultiple makes two clones,*)
(* the least at which its cleanup loop has something to close.            *)
(***************************************************************************)
EXTENDS Coordinator

CONSTANTS p1, p2

MCPids == {p1, p2}
MCOnePid == {p1}
====
