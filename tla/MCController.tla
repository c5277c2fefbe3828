---- MODULE MCController ----
(* The controller for TLC: two nodes and one application, and the nodes may be     *)
(* exchanged.                                                                      *)
EXTENDS Controller, TLC

Symmetry == Permutations(Host)
====
