------------------------------- MODULE Leadership ------------------------------
(***************************************************************************)
(* What a coordinated group promises to the components that joined it, as  *)
(* seen through the callbacks handleLeaderElected (LEL) and                *)
(* handleLeaderExited (LEX) of src/src/riaps/run/comp.py: each member has  *)
(* a role, and is told of one leader or of none.  A member                 *)
(*  - stands for election only when it has been told of no leader,         *)
(*  - leads only by winning, and is then told that it leads itself,        *)
(*  - stops leading only for the benefit of another leader,                *)
(*  - is told that a leader exited only while it does not lead.            *)
(***************************************************************************)
CONSTANTS
  Member,      \* members of the group
  None,        \* no leader
  Followers,   \* members that follow FirstLeader from the start
  FirstLeader  \* the leader elected before, or None

VARIABLES
  role,     \* FOLLOWER, CANDIDATE or LEADER
  notice    \* the leader the component was last told of, or None

vars == <<role, notice>>

Init ==
  /\ role = [m \in Member |-> IF m = FirstLeader THEN "LEADER" ELSE "FOLLOWER"]
  /\ notice = [m \in Member |-> IF m \in Followers THEN FirstLeader ELSE None]

Stand(m) ==
  /\ role[m] = "FOLLOWER"
  /\ role' = [role EXCEPT ![m] = "CANDIDATE"]
  /\ notice' = [notice EXCEPT ![m] = None]

Win(m) ==
  /\ role[m] = "CANDIDATE"
  /\ role' = [role EXCEPT ![m] = "LEADER"]
  /\ notice' = [notice EXCEPT ![m] = m]

\* m is told of the leader ldr; a member that leads yields to another only.
Accept(m, ldr) ==
  /\ role[m] = "LEADER" => ldr # m
  /\ role' = [role EXCEPT ![m] = "FOLLOWER"]
  /\ notice' = [notice EXCEPT ![m] = ldr]

Forget(m) ==
  /\ role[m] # "LEADER"
  /\ role' = [role EXCEPT ![m] = "FOLLOWER"]
  /\ notice' = [notice EXCEPT ![m] = None]

Next ==
  \E m \in Member :
    \/ Stand(m) \/ Win(m) \/ Forget(m)
    \/ \E ldr \in Member : Accept(m, ldr)

Spec == Init /\ [][Next]_vars

================================================================================
