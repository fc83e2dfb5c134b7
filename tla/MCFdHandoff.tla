---------------------------- MODULE MCFdHandoff ----------------------------
(***************************************************************************)
(* Bounds for FdHandoff: two worker processes, so that AcceptWorker's one  *)
(* connection at a time and two handoffs in flight both occur.            *)
(***************************************************************************)
EXTENDS FdHandoff

CONSTANTS w1, w2

MCWorkers == {w1, w2}
MCBothModes == {"gob", "plain"}
MCPlain == {"plain"}
MCGob == {"gob"}
====
