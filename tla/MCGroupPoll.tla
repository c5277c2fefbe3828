------------------------------- MODULE MCGroupPoll -----------------------------
(***************************************************************************)
(* A small group and one poll for TLC: members and poll ids are model      *)
(* values.  The run checks liveness, for which symmetry is not sound.      *)
(***************************************************************************)
EXTENDS GroupPoll, TLC

================================================================================
