----------------------------- MODULE MCEventLoop ----------------------------
(* Model-checking instances of EventLoop: a few clients that connect again  *)
(* and again, a table smaller than their number, a small descriptor limit.  *)
EXTENDS EventLoop, TLC

(* Clients differ only by name.                                             *)
Symmetry == Permutations(Peers)
=============================================================================
