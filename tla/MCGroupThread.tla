----------------------------- MODULE MCGroupThread -----------------------------
(***************************************************************************)
(* Small groups for TLC.  Members are model values; where no liveness is   *)
(* checked, the followers of the first leader are symmetric, and so are    *)
(* those that do not follow it.                                            *)
(***************************************************************************)
EXTENDS GroupThread, TLC

MemberSymmetry ==
  Permutations(Followers \ {FirstLeader})
    \cup Permutations(Founders \ (Followers \cup Silent))
    \cup Permutations(Member \ Founders) \cup Permutations(Silent)

================================================================================
