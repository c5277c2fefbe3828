------------------------------ MODULE MCGroupMail ------------------------------
(* Members for TLC: all but the first leader have the same identity at first, and may *)
(* be exchanged. *)
EXTENDS GroupMail, TLC

CONSTANTS i, j

MCFirstName == [m \in Member |-> IF m = FirstLeader THEN j ELSE i]
Symmetry == Permutations(Member \ {FirstLeader})
================================================================================
