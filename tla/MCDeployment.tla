----------------------------- MODULE MCDeployment -----------------------------
(* An actor with a device for TLC. *)
EXTENDS Deployment
CONSTANTS a1, d1
MCOwner == [x \in Device |-> a1]
================================================================================
