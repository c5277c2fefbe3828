--------------------------- MODULE GroupThreadProofs ---------------------------
(***************************************************************************)
(* Proofs about GroupThread, for any set of members, any group size and    *)
(* any bounds: the safety invariant IInv is inductive, and the threads     *)
(* implement the abstract specification Leadership.                        *)
(***************************************************************************)
EXTENDS GroupThread, FiniteSetTheorems, TLAPS

Net == [Member -> [Member -> Seq(Message)]]

--------------------------------------------------------------------------------
(* The network keeps its type *)

\* What is published is appended, and only to existing channels (sendGroup).
LEMMA PublishType ==
  ASSUME NEW n \in Net, NEW m \in Member, NEW msg \in Message
  PROVE  Publish(n, m, msg) \in Net
BY DEF Publish, Net

\* A message that is there may be taken (recvGroup).
LEMMA TakenType ==
  ASSUME net \in Net, NEW p \in Member, NEW m \in Member, net[p][m] # <<>>
  PROVE  Taken(p, m) \in Net /\ Head(net[p][m]) \in Message
<1>1. net[p][m] \in Seq(Message)
  BY DEF Net
<1>2. Tail(net[p][m]) \in Seq(Message) /\ Head(net[p][m]) \in Message
  BY <1>1
<1> QED
  BY <1>2 DEF Taken, Net

\* What is under way to a closed socket is gone (unsetup, or the process died).
LEMMA DrainedType ==
  ASSUME net \in Net, NEW m \in Member
  PROVE  Drained(m) \in Net
BY DEF Drained, Net

\* The last message under way may be cut off.
LEMMA CutType ==
  ASSUME net \in Net, NEW p \in Member, NEW m \in Member, net[p][m] # <<>>
  PROVE  [net EXCEPT ![p][m] = SubSeq(@, 1, Len(@) - 1)] \in Net
<1>1. net[p][m] \in Seq(Message)
  BY DEF Net
<1>2. SubSeq(net[p][m], 1, Len(net[p][m]) - 1) \in Seq(Message)
  BY <1>1
<1> QED
  BY <1>2 DEF Net

\* The kinds of message carry what their handlers read.
LEMMA MessageFields ==
  ASSUME NEW msg \in Message
  PROVE  /\ msg.kind \in {"REQVOTE", "RSPVOTE", "AUTHORITY"} => msg.term \in Nat
         /\ msg.kind \in {"REQVOTE", "RSPVOTE", "AUTHORITY", "MLT"} => msg.node \in Member
BY DEF Message

\* What the threads publish are messages.
LEMMA MessageTypes ==
  /\ \A m \in Member : [kind |-> "MLT", node |-> m] \in Message
  /\ [kind |-> "POLL"] \in Message
  /\ \A m \in Member, t \in Nat : Request(m, t) \in Message /\ Authority(m, t) \in Message
  /\ \A c \in Member, t \in Nat, v \in BOOLEAN : Response(t, c, v) \in Message
BY DEF Message, Request, Authority, Response

--------------------------------------------------------------------------------
(* Types *)

\* The founders' state has the right types: threshold() of a finite group is a
\* number.
LEMMA InitType == Init => TypeOK
<1> SUFFICES ASSUME Init PROVE TypeOK
  OBVIOUS
<1>1. Cardinality(Founders) \div 2 + 1 \in Nat
  <2>1. IsFiniteSet(Founders)
    BY FS_Subset, GroupThreadAssumption
  <2> QED
    BY <2>1, FS_CardinalityType
<1>2. net \in [Member -> [Member -> Seq(Message)]]
  <2>1. <<>> \in Seq(Message)
    OBVIOUS
  <2> QED
    BY <2>1 DEF Init
<1> QED
  BY <1>1, <1>2, GroupThreadAssumption DEF Init, TypeOK, Status, Role, Bounded

\* Each step keeps the types.
LEMMA NextType == TypeOK /\ [Next]_vars => TypeOK'
<1> SUFFICES ASSUME TypeOK, [Next]_vars PROVE TypeOK'
  OBVIOUS
<1> USE DEF TypeOK, Status, Role, Bounded, Spend, threadVars
<1>n. net \in Net
  BY DEF Net
<1>r. ASSUME NEW m \in Member, NEW p \in Member, net[p][m] # <<>>
      PROVE  Taken(p, m) \in Net /\ Head(net[p][m]) \in Message
  BY <1>r, <1>n, TakenType
<1>d. ASSUME NEW m \in Member PROVE Drained(m) \in Net
  BY <1>n, DrainedType
<1>e. ASSUME NEW m \in Member, Elected(m)
      PROVE  /\ votes' \in [Member -> Nat] /\ role' \in [Member -> Role]
             /\ leader' \in [Member -> Member \cup {None}]
             /\ notice' \in [Member -> Member \cup {None}]
             /\ UNCHANGED <<term, votedFor, armed, peers, qry, sub, roster, spent>>
  <2>1. votes' \in [Member -> Nat]
    BY <1>e DEF Elected
  <2>2. role' \in [Member -> Role]
    BY <1>e DEF Elected
  <2>3. leader' \in [Member -> Member \cup {None}]
    BY <1>e DEF Elected
  <2>4. notice' \in [Member -> Member \cup {None}]
    BY <1>e DEF Elected
  <2>5. UNCHANGED <<term, votedFor, armed, peers, qry, sub, roster, spent>>
    BY <1>e DEF Elected
  <2> QED
    BY <2>1, <2>2, <2>3, <2>4, <2>5
<1>1. ASSUME NEW m \in Member, Join(m) PROVE TypeOK'
  BY <1>1 DEF Join
<1>2. ASSUME NEW m \in Member, Leave(m) PROVE TypeOK'
  <2>1. net' \in Net
    BY <1>2, <1>n, MessageTypes, PublishType DEF Leave
  <2> QED
    BY <1>2, <2>1 DEF Leave, Net
<1>3. ASSUME NEW m \in Member, Stop(m) PROVE TypeOK'
  <2>1. net' \in Net
    BY <1>3, <1>d DEF Stop
  <2>2. status' \in [Member -> Status] /\ spent' \in [Bounded -> Nat]
    BY <1>3 DEF Stop
  <2>3. UNCHANGED <<threadVars, sub, notice, roster>>
    BY <1>3 DEF Stop
  <2> QED
    BY <2>1, <2>2, <2>3 DEF Net
<1>4. ASSUME NEW m \in Member, Crash(m) PROVE TypeOK'
  <2>1. net' \in Net
    BY <1>4, <1>d DEF Crash
  <2>2. status' \in [Member -> Status] /\ spent' \in [Bounded -> Nat]
    BY <1>4 DEF Crash
  <2>3. UNCHANGED <<threadVars, sub, notice, roster>>
    BY <1>4 DEF Crash
  <2> QED
    BY <2>1, <2>2, <2>3 DEF Net
<1>5. ASSUME NEW m \in Member, PublishPoll(m) PROVE TypeOK'
  <2>1. net' \in Net
    BY <1>5, <1>n, MessageTypes, PublishType DEF PublishPoll
  <2> QED
    BY <1>5, <2>1 DEF PublishPoll, Net
<1>6. ASSUME NEW m \in Member, StartElection(m) PROVE TypeOK'
  <2>1. net' \in Net
    <3>1. term[m] + 1 \in Nat
      OBVIOUS
    <3> QED
      BY <1>6, <1>n, <3>1, MessageTypes, PublishType DEF StartElection
  <2>2. /\ notice' \in [Member -> Member \cup {None}]
        /\ leader' \in [Member -> Member \cup {None}]
        /\ qry' \in [Member -> Member \cup {None}]
    BY <1>6 DEF StartElection, DropLeader
  <2>3. spent' \in [Bounded -> Nat] /\ term' \in [Member -> Nat]
    BY <1>6 DEF StartElection
  <2> QED
    BY <1>6, <2>1, <2>2, <2>3 DEF StartElection, Net
<1>7. ASSUME NEW m \in Member, GiveUp(m) PROVE TypeOK'
  BY <1>7 DEF GiveUp
<1>8. ASSUME NEW m \in Member, AssertAuthority(m) PROVE TypeOK'
  <2>1. net' \in Net
    BY <1>8, <1>n, MessageTypes, PublishType DEF AssertAuthority
  <2> QED
    BY <1>8, <2>1 DEF AssertAuthority, Net
<1>9. ASSUME NEW m \in Member, NEW p \in Member, GroupUpdate(m, p) PROVE TypeOK'
  BY <1>9 DEF GroupUpdate
<1>10. ASSUME NEW m \in Member, NEW p \in Member, Heartbeat(m, p) PROVE TypeOK'
  BY <1>10 DEF Heartbeat
<1>11. ASSUME NEW m \in Member, NEW p \in Member, PeerTimeout(m, p) PROVE TypeOK'
  <2>1. spent' \in [Bounded -> Nat]
    BY <1>11 DEF PeerTimeout
  <2>2. peers' \in [Member -> SUBSET Member] /\ roster' \in [Member -> SUBSET Member]
    BY <1>11 DEF PeerTimeout, DropPeer
  <2> QED
    BY <1>11, <2>1, <2>2 DEF PeerTimeout
<1>12. ASSUME NEW m \in Member, NEW p \in Member, Lose(p, m) PROVE TypeOK'
  BY <1>12, <1>n, CutType DEF Lose, Net
<1>13. ASSUME NEW m \in Member, NEW p \in Member, MemberLeft(m, p) PROVE TypeOK'
  BY <1>13, <1>r DEF MemberLeft, Receive, DropPeer, Net
<1>14. ASSUME NEW m \in Member, NEW p \in Member, PollMessage(m, p) PROVE TypeOK'
  BY <1>14, <1>r DEF PollMessage, Receive, setLeaderDeadline, Net
<1>15. ASSUME NEW m \in Member, NEW p \in Member,
              \/ FollowerAuthority(m, p)
              \/ CandidateAuthority(m, p)
              \/ LeaderAuthority(m, p)
       PROVE  TypeOK'
  <2>1. /\ net[p][m] # <<>> /\ Head(net[p][m]).kind = "AUTHORITY"
        /\ status' = [status EXCEPT ![m] = IF @ = "leaving" THEN "stopping" ELSE @]
        /\ net' = Taken(p, m)
        /\ Follow(m, Head(net[p][m]).node, Head(net[p][m]).term)
    BY <1>15 DEF FollowerAuthority, CandidateAuthority, LeaderAuthority, Receive
  <2>2. Head(net[p][m]).node \in Member /\ Head(net[p][m]).term \in Nat
    BY <2>1, <1>r, MessageFields
  <2> QED
    BY <2>1, <2>2, <1>r DEF Follow, setLeaderDeadline, Net
<1>16. ASSUME NEW m \in Member, NEW p \in Member, FollowerReqVote(m, p) PROVE TypeOK'
  <2> DEFINE msg == Head(net[p][m])
             vote == FollowerVote(m, msg)
  <2>1. net[p][m] # <<>> /\ msg.kind = "REQVOTE"
    BY <1>16 DEF FollowerReqVote, Receive
  <2>2. msg.node \in Member /\ msg.term \in Nat /\ Taken(p, m) \in Net
    BY <2>1, <1>r, MessageFields
  <2>3. vote \in BOOLEAN
    BY DEF FollowerVote
  <2>4. net' \in Net
    <3>1. Response(msg.term, msg.node, vote) \in Message
      BY <2>2, <2>3, MessageTypes
    <3> QED
      BY <1>16, <2>2, <3>1, PublishType DEF FollowerReqVote
  <2> QED
    BY <1>16, <2>2, <2>4 DEF FollowerReqVote, Receive, DropLeader, Net
<1>17. ASSUME NEW m \in Member, NEW p \in Member,
              CandidateRefuse(m, p) \/ CandidateYield(m, p)
       PROVE  TypeOK'
  <2> DEFINE msg == Head(net[p][m])
  <2>1. net[p][m] # <<>> /\ msg.kind = "REQVOTE"
    BY <1>17 DEF CandidateRefuse, CandidateYield, Receive
  <2>2. msg.node \in Member /\ msg.term \in Nat /\ Taken(p, m) \in Net
    BY <2>1, <1>r, MessageFields
  <2>3. \A v \in BOOLEAN : Publish(Taken(p, m), m, Response(msg.term, msg.node, v)) \in Net
    BY <2>2, MessageTypes, PublishType
  <2>4. CASE CandidateRefuse(m, p)
    BY <2>4, <2>2, <2>3 DEF CandidateRefuse, Receive, Net
  <2>5. CASE CandidateYield(m, p)
    BY <2>5, <2>2, <2>3 DEF CandidateYield, Receive, DropLeader, Net
  <2> QED
    BY <1>17, <2>4, <2>5
<1>18. ASSUME NEW m \in Member, NEW p \in Member, CountVote(m, p) PROVE TypeOK'
  <2>1. votes' \in [Member -> Nat]
    BY <1>18 DEF CountVote
  <2> QED
    BY <1>18, <2>1, <1>r DEF CountVote, Receive, Net
<1>19. ASSUME NEW m \in Member, NEW p \in Member, WinElection(m, p) PROVE TypeOK'
  <2>1. net' \in Net
    BY <1>19, <1>r, MessageTypes, PublishType DEF WinElection, Receive
  <2>2. status' \in [Member -> Status] /\ ansBound' \in [Member -> BOOLEAN]
    BY <1>19 DEF WinElection, Receive
  <2>3. Elected(m)
    BY <1>19 DEF WinElection
  <2>4. /\ votes' \in [Member -> Nat] /\ role' \in [Member -> Role]
        /\ leader' \in [Member -> Member \cup {None}]
        /\ notice' \in [Member -> Member \cup {None}]
        /\ UNCHANGED <<term, votedFor, armed, peers, qry, sub, roster, spent>>
    BY <2>3, <1>e
  <2> QED
    BY <2>1, <2>2, <2>4 DEF Net
<1>20. ASSUME NEW m \in Member, NEW p \in Member, WinAgain(m, p) PROVE TypeOK'
  <2>1. net' \in Net
    BY <1>20, <1>d DEF WinAgain
  <2>2. status' \in [Member -> Status] /\ ansBound' \in [Member -> BOOLEAN]
    BY <1>20 DEF WinAgain
  <2>3. Elected(m)
    BY <1>20 DEF WinAgain
  <2>4. /\ votes' \in [Member -> Nat] /\ role' \in [Member -> Role]
        /\ leader' \in [Member -> Member \cup {None}]
        /\ notice' \in [Member -> Member \cup {None}]
        /\ UNCHANGED <<term, votedFor, armed, peers, qry, sub, roster, spent>>
    BY <2>3, <1>e
  <2> QED
    BY <2>1, <2>2, <2>4 DEF Net
<1>21. ASSUME NEW m \in Member, NEW p \in Member, Ignore(m, p) PROVE TypeOK'
  BY <1>21, <1>r DEF Ignore, Receive, Net
<1>22. CASE UNCHANGED vars
  BY <1>22 DEF vars
<1> QED
  BY <1>1, <1>2, <1>3, <1>4, <1>5, <1>6, <1>7, <1>8, <1>9, <1>10, <1>11, <1>12,
     <1>13, <1>14, <1>15, <1>16, <1>17, <1>18, <1>19, <1>20, <1>21, <1>22
  DEF Next, HandleTimeout, HandleNetMessage

\* Type correctness, for every group: whatever the threads of dc.py do, each field
\* of each thread holds a value of its type.
THEOREM TypeCorrect == Spec => []TypeOK
<1> QED
  BY InitType, NextType, PTL DEF Spec

--------------------------------------------------------------------------------
(* The safety invariant *)

\* A group that has formed, with or without a leader, satisfies the invariant.
LEMMA InitSafe == Init => IInv
<1> SUFFICES ASSUME Init PROVE IInv
  OBVIOUS
<1>1. TypeOK
  BY InitType
<1>2. RoleCoherent /\ QryFollowsLeader /\ LeaderWatched /\ NoticeExact
  BY GroupThreadAssumption
  DEF Init, RoleCoherent, QryFollowsLeader, LeaderWatched, NoticeExact
<1> QED
  BY <1>1, <1>2 DEF IInv

\* Accepting a leader keeps the invariant, whatever the role was: the component
\* is told if the leader is new to it, the query port follows, the deadline runs.
LEMMA FollowSafe ==
  ASSUME IInv, NEW m \in Member, NEW ldr \in Member, NEW t \in Nat, Follow(m, ldr, t)
  PROVE  RoleCoherent' /\ QryFollowsLeader' /\ LeaderWatched' /\ NoticeExact'
<1> USE DEF IInv, TypeOK
<1>1. RoleCoherent'
  BY DEF Follow, RoleCoherent
<1>2. QryFollowsLeader'
  BY DEF Follow, QryFollowsLeader
<1>3. LeaderWatched'
  BY DEF Follow, LeaderWatched, setLeaderDeadline
<1>4. NoticeExact'
  BY DEF Follow, NoticeExact
<1> QED
  BY <1>1, <1>2, <1>3, <1>4

\* So does winning: a candidate has no leader, hence no query port to close, and
\* has voted for itself.
LEMMA ElectedSafe ==
  ASSUME IInv, NEW m \in Member, role[m] = "CANDIDATE", Elected(m)
  PROVE  RoleCoherent' /\ QryFollowsLeader' /\ LeaderWatched' /\ NoticeExact'
<1> USE DEF IInv, TypeOK
<1>e. /\ role' = [role EXCEPT ![m] = "LEADER"]
      /\ leader' = [leader EXCEPT ![m] = m]
      /\ notice' = [notice EXCEPT ![m] = m]
      /\ UNCHANGED <<votedFor, armed, peers, qry, roster>>
  BY DEF Elected
<1>1. RoleCoherent'
  BY <1>e DEF RoleCoherent
<1>2. QryFollowsLeader'
  <2>1. qry[m] = None
    BY DEF RoleCoherent, QryFollowsLeader
  <2> QED
    BY <1>e, <2>1 DEF QryFollowsLeader
<1>3. LeaderWatched'
  BY <1>e DEF LeaderWatched
<1>4. NoticeExact'
  BY <1>e DEF NoticeExact
<1> QED
  BY <1>1, <1>2, <1>3, <1>4

\* Dropping the leader leaves the component told, and the query port closed.
LEMMA DropLeaderSafe ==
  ASSUME IInv, NEW m \in Member, DropLeader(m)
  PROVE  /\ leader' = [leader EXCEPT ![m] = None]
         /\ notice' = [notice EXCEPT ![m] = None]
         /\ qry' = [qry EXCEPT ![m] = None]
BY DEF IInv, TypeOK, DropLeader, NoticeExact

\* Dropping a peer tells the component of it exactly if it was known.
LEMMA DropPeerSafe ==
  ASSUME IInv, NEW m \in Member, NEW p \in Member, DropPeer(m, p),
         UNCHANGED <<notice, leader>>
  PROVE  NoticeExact'
BY DEF IInv, TypeOK, DropPeer, NoticeExact

\* Each step keeps the invariant.
LEMMA NextSafe == IInv /\ [Next]_vars => IInv'
<1> SUFFICES ASSUME IInv, [Next]_vars PROVE IInv'
  OBVIOUS
<1> DEFINE Safe == RoleCoherent /\ QryFollowsLeader /\ LeaderWatched /\ NoticeExact
<1> USE DEF IInv
<1>t. TypeOK'
  BY NextType
<1>r. ASSUME NEW m \in Member, NEW p \in Member, net[p][m] # <<>>
      PROVE  Head(net[p][m]) \in Message
  BY <1>r, TakenType DEF TypeOK, Net
<1>u. ASSUME UNCHANGED <<role, votedFor, leader, armed, peers, qry, notice, roster>>
      PROVE  Safe'
  BY <1>u DEF RoleCoherent, QryFollowsLeader, LeaderWatched, NoticeExact
<1>1. ASSUME NEW m \in Member,
             Join(m) \/ Leave(m) \/ Stop(m) \/ Crash(m) \/ PublishPoll(m)
      PROVE  Safe'
  BY <1>1, <1>u DEF Join, Leave, Stop, Crash, PublishPoll, threadVars
<1>2. ASSUME NEW m \in Member, NEW p \in Member,
             GroupUpdate(m, p) \/ Lose(p, m) \/ Ignore(m, p) \/ CandidateRefuse(m, p)
      PROVE  Safe'
  BY <1>2, <1>u DEF GroupUpdate, Lose, Ignore, CandidateRefuse, threadVars
<1>3. ASSUME NEW m \in Member, StartElection(m) PROVE Safe'
  <2>1. /\ role' = [role EXCEPT ![m] = "CANDIDATE"]
        /\ votedFor' = [votedFor EXCEPT ![m] = m]
        /\ armed' = [armed EXCEPT ![m] = FALSE]
        /\ UNCHANGED <<peers, roster>>
    BY <1>3 DEF StartElection
  <2>2. /\ leader' = [leader EXCEPT ![m] = None]
        /\ notice' = [notice EXCEPT ![m] = None]
        /\ qry' = [qry EXCEPT ![m] = None]
    BY <1>3, DropLeaderSafe DEF StartElection
  <2> QED
    BY <2>1, <2>2
    DEF TypeOK, RoleCoherent, QryFollowsLeader, LeaderWatched, NoticeExact
<1>4. ASSUME NEW m \in Member, GiveUp(m) PROVE Safe'
  <2>1. leader[m] = None /\ notice[m] = None /\ qry[m] = None
    BY <1>4 DEF GiveUp, RoleCoherent, QryFollowsLeader, NoticeExact
  <2>2. /\ role' = [role EXCEPT ![m] = "FOLLOWER"]
        /\ votedFor' = [votedFor EXCEPT ![m] = None]
        /\ armed' = [armed EXCEPT ![m] = FALSE]
        /\ UNCHANGED <<peers, roster, qry>>
    BY <1>4 DEF GiveUp
  <2>3. leader' = leader /\ notice' = notice
    BY <1>4, <2>1 DEF GiveUp, TypeOK
  <2> QED
    BY <2>1, <2>2, <2>3
    DEF TypeOK, RoleCoherent, QryFollowsLeader, LeaderWatched, NoticeExact
<1>5. ASSUME NEW m \in Member, AssertAuthority(m) PROVE Safe'
  BY <1>5
  DEF AssertAuthority, TypeOK, RoleCoherent, QryFollowsLeader, LeaderWatched, NoticeExact
<1>6. ASSUME NEW m \in Member, NEW p \in Member, Heartbeat(m, p) PROVE Safe'
  BY <1>6
  DEF Heartbeat, TypeOK, RoleCoherent, QryFollowsLeader, LeaderWatched, NoticeExact
<1>7. ASSUME NEW m \in Member, NEW p \in Member, PeerTimeout(m, p) \/ MemberLeft(m, p)
      PROVE  Safe'
  <2>1. UNCHANGED <<role, votedFor, leader, armed, qry, notice>>
    BY <1>7 DEF PeerTimeout, MemberLeft
  <2>2. PICK x \in Member : DropPeer(m, x)
    <3>1. CASE PeerTimeout(m, p)
      BY <3>1 DEF PeerTimeout
    <3>2. CASE MemberLeft(m, p)
      BY <3>2, <1>r, MessageFields DEF MemberLeft, Receive
    <3> QED
      BY <1>7, <3>1, <3>2
  <2>3. NoticeExact'
    BY <2>1, <2>2, DropPeerSafe
  <2> QED
    BY <2>1, <2>3 DEF RoleCoherent, QryFollowsLeader, LeaderWatched
<1>8. ASSUME NEW m \in Member, NEW p \in Member, PollMessage(m, p) PROVE Safe'
  BY <1>8
  DEF PollMessage, setLeaderDeadline, TypeOK, RoleCoherent, QryFollowsLeader,
      LeaderWatched, NoticeExact
<1>9. ASSUME NEW m \in Member, NEW p \in Member,
             \/ FollowerAuthority(m, p)
             \/ CandidateAuthority(m, p)
             \/ LeaderAuthority(m, p)
      PROVE  Safe'
  <2>1. /\ net[p][m] # <<>> /\ Head(net[p][m]).kind = "AUTHORITY"
        /\ Follow(m, Head(net[p][m]).node, Head(net[p][m]).term)
    BY <1>9 DEF FollowerAuthority, CandidateAuthority, LeaderAuthority, Receive
  <2>2. Head(net[p][m]).node \in Member /\ Head(net[p][m]).term \in Nat
    BY <2>1, <1>r, MessageFields
  <2> QED
    BY <2>1, <2>2, FollowSafe
<1>10. ASSUME NEW m \in Member, NEW p \in Member,
              FollowerReqVote(m, p) \/ CandidateYield(m, p)
       PROVE  Safe'
  <2>1. /\ \/ role[m] = "FOLLOWER" /\ UNCHANGED role
           \/ role' = [role EXCEPT ![m] = "FOLLOWER"]
        /\ \E v : votedFor' = [votedFor EXCEPT ![m] = v]
        /\ armed' = [armed EXCEPT ![m] = FALSE] \/ UNCHANGED armed
        /\ UNCHANGED <<peers, roster>>
    BY <1>10 DEF FollowerReqVote, CandidateYield, Receive
  <2>2. /\ leader' = [leader EXCEPT ![m] = None]
        /\ notice' = [notice EXCEPT ![m] = None]
        /\ qry' = [qry EXCEPT ![m] = None]
    BY <1>10, DropLeaderSafe DEF FollowerReqVote, CandidateYield
  <2>3. RoleCoherent'
    BY <2>1, <2>2 DEF TypeOK, RoleCoherent
  <2>4. QryFollowsLeader'
    BY <2>1, <2>2 DEF TypeOK, QryFollowsLeader
  <2>5. LeaderWatched' /\ NoticeExact'
    BY <2>1, <2>2 DEF TypeOK, LeaderWatched, NoticeExact
  <2> QED
    BY <2>3, <2>4, <2>5
<1>11. ASSUME NEW m \in Member, NEW p \in Member, CountVote(m, p) PROVE Safe'
  BY <1>11 DEF CountVote, RoleCoherent, QryFollowsLeader, LeaderWatched, NoticeExact
<1>12. ASSUME NEW m \in Member, NEW p \in Member, WinElection(m, p) \/ WinAgain(m, p)
       PROVE  Safe'
  BY <1>12, ElectedSafe DEF WinElection, WinAgain
<1>13. ASSUME UNCHANGED vars PROVE Safe'
  <2>1. UNCHANGED <<role, votedFor, leader, armed, peers, qry, notice, roster>>
    BY <1>13 DEF vars
  <2> QED
    BY <2>1, <1>u
<1>14. Safe'
  BY <1>1, <1>2, <1>3, <1>4, <1>5, <1>6, <1>7, <1>8, <1>9, <1>10, <1>11, <1>12, <1>13
  DEF Next, HandleTimeout, HandleNetMessage
<1> QED
  BY <1>t, <1>14

\* The invariant holds of every group.
THEOREM Safety == Spec => []IInv
<1> QED
  BY InitSafe, NextSafe, PTL DEF Spec

\* RoleCoherent: a LEADER is its own leader (asserted in handleTimeout), and a
\* candidate follows nobody and has voted for itself.
THEOREM RolesCoherent == Spec => []RoleCoherent
<1>1. IInv => RoleCoherent
  BY DEF IInv
<1> QED
  BY <1>1, Safety, PTL

\* QryFollowsLeader: the query port leads to the leader, and nowhere else.
THEOREM QueryPortExact == Spec => []QryFollowsLeader
<1>1. IInv => QryFollowsLeader
  BY DEF IInv
<1> QED
  BY <1>1, Safety, PTL

\* LeaderWatched: the silence of a follower's leader is noticed.
THEOREM LeadersWatched == Spec => []LeaderWatched
<1>1. IInv => LeaderWatched
  BY DEF IInv
<1> QED
  BY <1>1, Safety, PTL

\* NoticeExact: the component knows what its thread knows.
THEOREM NoticesExact == Spec => []NoticeExact
<1>1. IInv => NoticeExact
  BY DEF IInv
<1> QED
  BY <1>1, Safety, PTL

--------------------------------------------------------------------------------
(* Refinement: what the components are promised *)

\* The founders' state is an initial state of Leadership.
LEMMA InitLeadership == Init => LeadershipView!Init
<1> SUFFICES ASSUME Init PROVE LeadershipView!Init
  OBVIOUS
<1> QED
  BY GroupThreadAssumption DEF Init, LeadershipView!Init

\* Each step of the threads is one of Leadership, or does not concern it.
LEMMA NextLeadership ==
  IInv /\ [Next]_vars => [LeadershipView!Next]_LeadershipView!vars
<1> SUFFICES ASSUME IInv, [Next]_vars
             PROVE  LeadershipView!Next \/ UNCHANGED <<role, notice>>
  BY DEF LeadershipView!vars
<1> USE DEF IInv, TypeOK
<1>r. ASSUME NEW m \in Member, NEW p \in Member, net[p][m] # <<>>
      PROVE  Head(net[p][m]) \in Message
  BY <1>r, TakenType DEF Net
<1>1. ASSUME NEW m \in Member,
             \/ Join(m) \/ Leave(m) \/ Stop(m) \/ Crash(m) \/ PublishPoll(m)
             \/ AssertAuthority(m)
      PROVE  UNCHANGED <<role, notice>>
  BY <1>1 DEF Join, Leave, Stop, Crash, PublishPoll, AssertAuthority, threadVars
<1>2. ASSUME NEW m \in Member, NEW p \in Member,
             \/ GroupUpdate(m, p) \/ Heartbeat(m, p) \/ PeerTimeout(m, p)
             \/ Lose(p, m) \/ MemberLeft(m, p) \/ PollMessage(m, p)
             \/ CandidateRefuse(m, p) \/ CountVote(m, p) \/ Ignore(m, p)
      PROVE  UNCHANGED <<role, notice>>
  BY <1>2 DEF GroupUpdate, Heartbeat, PeerTimeout, Lose, MemberLeft, PollMessage,
              CandidateRefuse, CountVote, Ignore, threadVars
<1>3. ASSUME NEW m \in Member, StartElection(m) PROVE LeadershipView!Stand(m)
  <2>1. notice' = [notice EXCEPT ![m] = None]
    BY <1>3, DropLeaderSafe DEF StartElection
  <2> QED
    BY <1>3, <2>1 DEF StartElection, LeaderLate, LeadershipView!Stand
<1>4. ASSUME NEW m \in Member, GiveUp(m) PROVE LeadershipView!Forget(m)
  <2>1. notice' = [notice EXCEPT ![m] = None]
    BY <1>4 DEF GiveUp, NoticeExact
  <2> QED
    BY <1>4, <2>1 DEF GiveUp, LeadershipView!Forget
<1>5. ASSUME NEW m \in Member, NEW p \in Member,
             FollowerReqVote(m, p) \/ CandidateYield(m, p)
      PROVE  LeadershipView!Forget(m)
  <2>1. notice' = [notice EXCEPT ![m] = None]
    BY <1>5, DropLeaderSafe DEF FollowerReqVote, CandidateYield
  <2>2. role[m] # "LEADER" /\ role' = [role EXCEPT ![m] = "FOLLOWER"]
    <3>1. ASSUME FollowerReqVote(m, p)
          PROVE  role[m] # "LEADER" /\ role' = [role EXCEPT ![m] = "FOLLOWER"]
      <4>1. role[m] = "FOLLOWER" /\ role' = role
        BY <3>1 DEF FollowerReqVote
      <4> QED
        BY <4>1
    <3>2. ASSUME CandidateYield(m, p)
          PROVE  role[m] # "LEADER" /\ role' = [role EXCEPT ![m] = "FOLLOWER"]
      BY <3>2 DEF CandidateYield
    <3> QED
      BY <1>5, <3>1, <3>2
  <2> QED
    BY <2>1, <2>2 DEF LeadershipView!Forget
<1>6. ASSUME NEW m \in Member, NEW p \in Member,
             \/ FollowerAuthority(m, p)
             \/ CandidateAuthority(m, p)
             \/ LeaderAuthority(m, p)
      PROVE  \E ldr \in Member : LeadershipView!Accept(m, ldr)
  <2> DEFINE msg == Head(net[p][m])
  <2>1. /\ net[p][m] # <<>> /\ msg.kind = "AUTHORITY"
        /\ Follow(m, msg.node, msg.term)
        /\ role[m] = "LEADER" => m # msg.node
    BY <1>6 DEF FollowerAuthority, CandidateAuthority, LeaderAuthority, Receive,
                Conflicting
  <2>2. msg.node \in Member
    BY <2>1, <1>r, MessageFields
  <2>3. notice' = [notice EXCEPT ![m] = msg.node]
    BY <2>1 DEF Follow, NoticeExact
  <2>4. LeadershipView!Accept(m, msg.node)
    BY <2>1, <2>2, <2>3 DEF Follow, LeadershipView!Accept
  <2> QED
    BY <2>2, <2>4
<1>7. ASSUME NEW m \in Member, NEW p \in Member, WinElection(m, p) \/ WinAgain(m, p)
      PROVE  LeadershipView!Win(m)
  BY <1>7 DEF WinElection, WinAgain, Elected, LeadershipView!Win
<1>8. CASE UNCHANGED vars
  BY <1>8 DEF vars
<1> QED
  BY <1>1, <1>2, <1>3, <1>4, <1>5, <1>6, <1>7, <1>8
  DEF Next, HandleTimeout, HandleNetMessage, LeadershipView!Next

\* KeepsLeadership: the threads keep the promise of Leadership to the components
\* (callbacks handleLeaderElected and handleLeaderExited), in every group.
THEOREM ImplementsLeadership == Spec => KeepsLeadership
<1> QED
  BY Safety, InitLeadership, NextLeadership, PTL
  DEF Spec, KeepsLeadership, LeadershipView!Spec

================================================================================
