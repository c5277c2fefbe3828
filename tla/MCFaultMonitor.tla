---- MODULE MCFaultMonitor ----
(* The notice of peers for TLC: the nodes may be exchanged. *)
EXTENDS FaultMonitor, TLC

Symmetry == Permutations(Node)
====
