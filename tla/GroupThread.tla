------------------------------ MODULE GroupThread ------------------------------
(***************************************************************************)
(* Leader election and membership in a coordinated RIAPS group, as done by *)
(* the group threads of src/src/riaps/run/dc.py (class GroupThread): every *)
(* component that joins a group owns one thread, and the threads talk over *)
(* PUB/SUB sockets.  Each member also subscribes to its own publications.  *)
(*                                                                         *)
(* Abstractions.                                                           *)
(*  - Clocks.  A deadline is armed or not; an armed one may expire at any  *)
(*    moment, and so may the poll timeout of the main loop: message delay  *)
(*    is unbounded, so no timer orders the steps of two members.           *)
(*  - Heartbeats are heard at once.  A heartbeat only adds its sender to   *)
(*    the peers, so hearing it late equals hearing an earlier one, and a   *)
(*    member that left or crashed sends none.                              *)
(*  - The notifications LEL, LEX, MJD and MLT, which reach the component   *)
(*    in order on a PAIR socket, are folded into what they have told the   *)
(*    component so far: notice (leader) and roster (members).              *)
(*  - Polls are the module GroupPoll; here their RCM and ANN publications  *)
(*    are one message kind, since both arm the leader deadline.            *)
(*                                                                         *)
(* An operator defined just before another one with the same parameters    *)
(* is a mistake that the code could have made there: the properties are    *)
(* run against it, and are violated.  No other definition uses it.         *)
(***************************************************************************)
EXTENDS Integers, Sequences, FiniteSets

CONSTANTS
  Member,      \* members; a component that rejoins is a new member (new ownId)
  Founders,    \* the members of the group that has formed when we start looking
  Followers,   \* the founders that follow FirstLeader by then
  FirstLeader, \* the leader that has been elected by then, or None
  Silent,      \* the founders that have just crashed, which nobody noticed yet
  None,        \* Python's None
  GroupSize,   \* the groupSize argument of joinGroup
  MaxElection, \* bound: elections started
  MaxQueue,    \* bound: a leader repeats itself only over shorter channels
  MaxLeave,    \* bound: members that leave
  MaxCrash,    \* bound: members that crash
  MaxSuspect,  \* bound: live peers that are timed out
  MaxPoll      \* bound: RCM/ANN publications

ASSUME GroupThreadAssumption ==
  /\ None \notin Member
  /\ Followers \subseteq Founders /\ Founders \subseteq Member
  /\ FirstLeader \in Followers \cup {None}
  /\ Silent \subseteq Founders \ Followers
  /\ IsFiniteSet(Member)
  /\ GroupSize \in Nat \ {0}
  /\ {MaxElection, MaxQueue, MaxLeave, MaxCrash, MaxSuspect, MaxPoll} \subseteq Nat

VARIABLES
  status,     \* life of the thread: see Status
  role,       \* self.state of the thread
  term,       \* self.term
  votedFor,   \* self.votedFor
  votes,      \* self.votes
  leader,     \* self.leader
  armed,      \* is self.leaderDeadline set?
  peers,      \* self.peers, the members heard from lately
  qry,        \* the member whose answer port qryPort is connected to
  ansBound,   \* has ansPort been bound to a port?
  sub,        \* the publishers subPort is connected to
  net,        \* net[p][m]: published by p, on its way to m
  notice,     \* the leader the component was last told of (LEL, LEX)
  roster,     \* the members the component was told of (MJD, MLT)
  spent       \* use made of the bounds

threadVars == <<role, term, votedFor, votes, leader, armed, peers, qry, ansBound>>
vars == <<status, role, term, votedFor, votes, leader, armed, peers, qry,
          ansBound, sub, net, notice, roster, spent>>

--------------------------------------------------------------------------------
Status == {"absent", "running", "leaving", "stopping", "left", "crashed", "failed"}
Role == {"FOLLOWER", "CANDIDATE", "LEADER"}

Message ==
       [kind: {"REQVOTE"}, term: Nat, node: Member]
  \cup [kind: {"RSPVOTE"}, term: Nat, node: Member, vote: BOOLEAN]
  \cup [kind: {"AUTHORITY"}, term: Nat, node: Member]
  \cup [kind: {"MLT"}, node: Member]
  \cup [kind: {"POLL"}]

\* What happens a bounded number of times only.
Bounded == {"election", "leave", "crash", "suspect", "poll"}
Spend(b) == spent' = [spent EXCEPT ![b] = @ + 1]

\* A thread whose main loop still takes a message: a leaving one handles the
\* message that came in the same poll as the request to stop, and no other.
Serving(m) == status[m] \in {"running", "leaving"}

numPeers(m) == Cardinality(peers[m])

\* Votes that win an election, from the members heard from now.
threshold(m) == numPeers(m) \div 2 + 1

\* The peers needed before an election is started.
HasMajority(m) == numPeers(m) > GroupSize \div 2 + 1

isLeader(m) == leader[m] = m

\* The leader, or the leader to come, has been silent for too long.
LeaderLate(m) == role[m] = "FOLLOWER" /\ armed[m]

\* A vote is broadcast, and only a "yes" does something, at its candidate.
Ignored(q, msg) == msg.kind = "RSPVOTE" /\ ~(msg.vote /\ msg.node = q)

\* The network once m has published msg to those connected to it.
Publish(n, m, msg) ==
  [n EXCEPT ![m] = [q \in Member |->
      IF m \in sub[q] /\ Serving(q) /\ ~Ignored(q, msg)
        THEN Append(n[m][q], msg) ELSE n[m][q]]]

Taken(p, m) == [net EXCEPT ![p][m] = Tail(@)]

Drained(m) == [p \in Member |-> [net[p] EXCEPT ![m] = <<>>]]

Request(m, t) == [kind |-> "REQVOTE", term |-> t, node |-> m]
Response(t, c, v) == [kind |-> "RSPVOTE", term |-> t, node |-> c, vote |-> v]
AuthorityUnnamed(m, t) == [kind |-> "AUTHORITY", term |-> t, node |-> leader[m]]
Authority(m, t) == [kind |-> "AUTHORITY", term |-> t, node |-> m]

setLeaderDeadlineLost(m) == UNCHANGED armed
setLeaderDeadline(m) == armed' = [armed EXCEPT ![m] = TRUE]

\* Peer p is dropped, and the component is told (MLT) if it was one.
DropPeerUntold(m, p) ==
  /\ peers' = [peers EXCEPT ![m] = @ \ {p}]
  /\ UNCHANGED roster
DropPeerKept(m, p) ==
  /\ roster' = [roster EXCEPT ![m] = @ \ {p}]
  /\ UNCHANGED peers
DropPeer(m, p) ==
  /\ peers' = [peers EXCEPT ![m] = @ \ {p}]
  /\ roster' = [roster EXCEPT ![m] = IF p \in peers[m] THEN @ \ {p} ELSE @]

\* m has no leader from now on: LEX if it had one, and no query port.
DropLeaderConnected(m) ==
  /\ notice' = [notice EXCEPT ![m] = None]
  /\ leader' = [leader EXCEPT ![m] = None]
  /\ UNCHANGED qry
DropLeader(m) ==
  /\ notice' = [notice EXCEPT ![m] = IF leader[m] # None THEN None ELSE @]
  /\ leader' = [leader EXCEPT ![m] = None]
  /\ qry' = [qry EXCEPT ![m] = None]

\* Each founder hears all founders; an election of FirstLeader, if any, is over.
Init ==
  LET led(m) == FirstLeader # None /\ m \in Followers IN
  /\ status = [m \in Member |-> IF m \in Silent THEN "crashed"
                                ELSE IF m \in Founders THEN "running" ELSE "absent"]
  /\ role = [m \in Member |-> IF m = FirstLeader THEN "LEADER" ELSE "FOLLOWER"]
  /\ term = [m \in Member |-> IF led(m) THEN 1 ELSE 0]
  /\ votedFor = [m \in Member |-> IF m = FirstLeader THEN m ELSE None]
  /\ votes = [m \in Member |->
                IF m = FirstLeader THEN Cardinality(Founders) \div 2 + 1 ELSE 0]
  /\ leader = [m \in Member |-> IF led(m) THEN FirstLeader ELSE None]
  /\ armed = [m \in Member |-> m # FirstLeader]
  /\ peers = [m \in Member |-> IF m \in Founders THEN Founders ELSE {}]
  /\ qry = [m \in Member |-> IF led(m) /\ m # FirstLeader THEN FirstLeader ELSE None]
  /\ ansBound = [m \in Member |-> m = FirstLeader]
  /\ sub = [m \in Member |-> IF m \in Founders THEN Founders ELSE {}]
  /\ net = [p \in Member |-> [m \in Member |-> <<>>]]
  /\ notice = leader
  /\ roster = peers
  /\ spent = [b \in Bounded |-> 0]

--------------------------------------------------------------------------------
(* Membership *)

\* The component joins: setup() and the start of run().
Join(m) ==
  /\ status[m] = "absent"
  /\ status' = [status EXCEPT ![m] = "running"]
  /\ UNCHANGED <<threadVars, sub, net, notice, roster, spent>>

\* GROUP_UPD: the discovery service told m of the publisher of p, maybe m itself.
GroupUpdate(m, p) ==
  /\ status[m] = "running"
  /\ status[p] # "absent"
  /\ p \notin sub[m]
  /\ sub' = [sub EXCEPT ![m] = @ \cup {p}]
  /\ UNCHANGED <<status, threadVars, net, notice, roster, spent>>

\* heartbeat() of p and its HEARTBEAT branch at m: p is a peer, MJD if it is new.
Heartbeat(m, p) ==
  /\ status[m] = "running" /\ status[p] = "running"
  /\ p \in sub[m]
  /\ p \notin peers[m]
  /\ peers' = [peers EXCEPT ![m] = @ \cup {p}]
  /\ roster' = [roster EXCEPT ![m] = @ \cup {p}]
  /\ UNCHANGED <<status, role, term, votedFor, votes, leader, armed, qry,
                 ansBound, sub, net, notice, spent>>

\* updatePeers(), called in every turn of the main loop: m has not heard from p
\* for too long.
PeerTimeout(m, p) ==
  /\ status[m] = "running"
  /\ p \in peers[m]
  /\ IF status[p] = "running"
       THEN spent["suspect"] < MaxSuspect /\ Spend("suspect")
       ELSE UNCHANGED spent
  /\ DropPeer(m, p)
  /\ UNCHANGED <<status, role, term, votedFor, votes, leader, armed, qry,
                 ansBound, sub, net, notice>>

\* Group.leave(): the thread publishes MLT and leaves its loop after this turn.
Leave(m) ==
  /\ status[m] = "running"
  /\ spent["leave"] < MaxLeave
  /\ Spend("leave")
  /\ status' = [status EXCEPT ![m] = "leaving"]
  /\ net' = Publish(net, m, [kind |-> "MLT", node |-> m])
  /\ UNCHANGED <<threadVars, sub, notice, roster>>

\* unsetup(): the sockets are closed.
Stop(m) ==
  /\ status[m] \in {"leaving", "stopping"}
  /\ status' = [status EXCEPT ![m] = "left"]
  /\ net' = Drained(m)
  /\ UNCHANGED <<threadVars, sub, notice, roster, spent>>

\* The process of m dies (environment).
Crash(m) ==
  /\ Serving(m)
  /\ spent["crash"] < MaxCrash
  /\ Spend("crash")
  /\ status' = [status EXCEPT ![m] = "crashed"]
  /\ net' = Drained(m)
  /\ UNCHANGED <<threadVars, sub, notice, roster>>

\* What a member that is gone had published last may never arrive (environment).
Lose(p, m) ==
  /\ status[p] \in {"left", "crashed"}
  /\ net[p][m] # <<>>
  /\ net' = [net EXCEPT ![p][m] = SubSeq(@, 1, Len(@) - 1)]
  /\ UNCHANGED <<status, threadVars, sub, notice, roster, spent>>

--------------------------------------------------------------------------------
(* handleTimeout(): no message for self.timeout *)

\* FOLLOWER past the leader deadline.  Without a majority the deadline, which is
\* armed, is only armed again.
StartElection(m) ==
  /\ status[m] = "running"
  /\ LeaderLate(m)
  /\ HasMajority(m)
  /\ spent["election"] < MaxElection
  /\ Spend("election")
  /\ DropLeader(m)
  /\ term' = [term EXCEPT ![m] = @ + 1]
  /\ role' = [role EXCEPT ![m] = "CANDIDATE"]
  /\ votes' = [votes EXCEPT ![m] = 1]
  /\ votedFor' = [votedFor EXCEPT ![m] = m]
  /\ net' = Publish(net, m, Request(m, term[m] + 1))
  /\ armed' = [armed EXCEPT ![m] = FALSE]
  /\ UNCHANGED <<status, peers, ansBound, sub, roster>>

\* CANDIDATE without enough votes in time.
GiveUp(m) ==
  /\ status[m] = "running"
  /\ role[m] = "CANDIDATE"
  /\ role' = [role EXCEPT ![m] = "FOLLOWER"]
  /\ votedFor' = [votedFor EXCEPT ![m] = None]
  /\ notice' = [notice EXCEPT ![m] = IF leader[m] # None THEN None ELSE @]
  /\ leader' = [leader EXCEPT ![m] = None]
  /\ armed' = [armed EXCEPT ![m] = FALSE]
  /\ UNCHANGED <<status, term, votes, peers, qry, ansBound, sub, net, roster, spent>>

\* LEADER repeats its claim.
AssertAuthority(m) ==
  /\ status[m] = "running"
  /\ role[m] = "LEADER"
  /\ \A q \in Member : Len(net[m][q]) < MaxQueue
  /\ net' = Publish(net, m, Authority(m, term[m]))
  /\ armed' = [armed EXCEPT ![m] = FALSE]
  /\ UNCHANGED <<status, role, term, votedFor, votes, leader, peers, qry,
                 ansBound, sub, notice, roster, spent>>

\* A poll is started or announced, by who takes itself for the leader or is
\* addressed as one over its answer port.
PublishPoll(m) ==
  /\ status[m] = "running"
  /\ isLeader(m) \/ ansBound[m]
  /\ spent["poll"] < MaxPoll
  /\ Spend("poll")
  /\ net' = Publish(net, m, [kind |-> "POLL"])
  /\ UNCHANGED <<status, threadVars, sub, notice, roster>>

--------------------------------------------------------------------------------
(* handleNetMessage(): the next publication of p reaches m *)

\* m takes the next publication of p, which is of this kind.
Receive(m, p, kind) ==
  /\ Serving(m)
  /\ net[p][m] # <<>>
  /\ Head(net[p][m]).kind = kind
  /\ status' = [status EXCEPT ![m] = IF @ = "leaving" THEN "stopping" ELSE @]

\* GROUP_MLT
MemberLeft(m, p) ==
  /\ Receive(m, p, "MLT")
  /\ DropPeer(m, Head(net[p][m]).node)
  /\ net' = Taken(p, m)
  /\ UNCHANGED <<role, term, votedFor, votes, leader, armed, qry, ansBound, sub,
                 notice, spent>>

\* GROUP_RCM and GROUP_ANN, in whatever role
PollMessage(m, p) ==
  /\ Receive(m, p, "POLL")
  /\ setLeaderDeadline(m)
  /\ net' = Taken(p, m)
  /\ UNCHANGED <<role, term, votedFor, votes, leader, peers, qry, ansBound, sub,
                 notice, roster, spent>>

\* m accepts the leader that has asserted its authority in term t.
Follow(m, ldr, t) ==
  /\ role' = [role EXCEPT ![m] = "FOLLOWER"]
  /\ term' = [term EXCEPT ![m] = t]
  /\ leader' = [leader EXCEPT ![m] = ldr]
  /\ notice' = [notice EXCEPT ![m] = IF leader[m] # ldr THEN ldr ELSE @]
  /\ votedFor' = [votedFor EXCEPT ![m] = None]
  /\ qry' = [qry EXCEPT ![m] = ldr]
  /\ setLeaderDeadline(m)
  /\ UNCHANGED <<votes, peers, ansBound, sub, roster, spent>>

\* AUTHORITY at a follower, whatever its term
FollowerAuthorityNewer(m, p) ==
  /\ Receive(m, p, "AUTHORITY")
  /\ role[m] = "FOLLOWER"
  /\ IF Head(net[p][m]).term >= term[m]
       THEN Follow(m, Head(net[p][m]).node, Head(net[p][m]).term)
       ELSE UNCHANGED <<threadVars, sub, notice, roster, spent>>
  /\ net' = Taken(p, m)
FollowerAuthority(m, p) ==
  /\ Receive(m, p, "AUTHORITY")
  /\ role[m] = "FOLLOWER"
  /\ Follow(m, Head(net[p][m]).node, Head(net[p][m]).term)
  /\ net' = Taken(p, m)

\* AUTHORITY at a candidate, whatever its term
CandidateAuthority(m, p) ==
  /\ Receive(m, p, "AUTHORITY")
  /\ role[m] = "CANDIDATE"
  /\ Follow(m, Head(net[p][m]).node, Head(net[p][m]).term)
  /\ net' = Taken(p, m)

\* AUTHORITY at a leader: it yields to another leader of its own term.
ConflictingWithSelf(m, msg) == term[m] = msg.term
ConflictingLater(m, msg) == term[m] < msg.term /\ m # msg.node
Conflicting(m, msg) == term[m] = msg.term /\ m # msg.node

LeaderAuthority(m, p) ==
  /\ Receive(m, p, "AUTHORITY")
  /\ role[m] = "LEADER"
  /\ Conflicting(m, Head(net[p][m]))
  /\ Follow(m, Head(net[p][m]).node, Head(net[p][m]).term)
  /\ net' = Taken(p, m)

\* The vote of a follower: yes if it has not voted, if the term is newer than
\* its own, or if it has voted for this node.
FollowerVote(m, msg) ==
  \/ votedFor[m] = None
  \/ msg.term > term[m]
  \/ msg.node = votedFor[m]

\* REQVOTE at a follower: it votes, takes the term and drops its leader.
FollowerReqVote(m, p) ==
  /\ Receive(m, p, "REQVOTE")
  /\ role[m] = "FOLLOWER"
  /\ LET msg == Head(net[p][m])
         vote == FollowerVote(m, msg) IN
       /\ net' = Publish(Taken(p, m), m, Response(msg.term, msg.node, vote))
       /\ term' = [term EXCEPT ![m] = msg.term]
       /\ votedFor' = [votedFor EXCEPT ![m] = IF vote THEN msg.node ELSE @]
  /\ DropLeader(m)
  /\ armed' = [armed EXCEPT ![m] = FALSE]
  /\ UNCHANGED <<role, votes, peers, ansBound, sub, roster, spent>>

\* REQVOTE at a candidate, of its own term from another candidate: no.
CandidateRefuse(m, p) ==
  /\ Receive(m, p, "REQVOTE")
  /\ role[m] = "CANDIDATE"
  /\ LET msg == Head(net[p][m]) IN
       /\ msg.term = term[m]
       /\ msg.node # m
       /\ net' = Publish(Taken(p, m), m, Response(msg.term, msg.node, FALSE))
  /\ UNCHANGED <<threadVars, sub, notice, roster, spent>>

\* REQVOTE at a candidate, of a later term: it votes yes and is a follower again.
CandidateYield(m, p) ==
  /\ Receive(m, p, "REQVOTE")
  /\ role[m] = "CANDIDATE"
  /\ LET msg == Head(net[p][m]) IN
       /\ msg.term > term[m]
       /\ net' = Publish(Taken(p, m), m, Response(msg.term, msg.node, TRUE))
       /\ term' = [term EXCEPT ![m] = msg.term]
       /\ votedFor' = [votedFor EXCEPT ![m] = msg.node]
  /\ role' = [role EXCEPT ![m] = "FOLLOWER"]
  /\ DropLeader(m)
  /\ UNCHANGED <<votes, armed, peers, ansBound, sub, roster, spent>>

\* RSPVOTE "yes" for a candidate, whatever term it was given in: counted.
CountVote(m, p) ==
  /\ Receive(m, p, "RSPVOTE")
  /\ role[m] = "CANDIDATE"
  /\ votes[m] + 1 < threshold(m)
  /\ votes' = [votes EXCEPT ![m] = @ + 1]
  /\ net' = Taken(p, m)
  /\ UNCHANGED <<role, term, votedFor, leader, armed, peers, qry, ansBound, sub,
                 notice, roster, spent>>

\* The vote that wins: the candidate is leader and says so to its component...
ElectedUnled(m) ==
  /\ votes[m] + 1 >= threshold(m)
  /\ votes' = [votes EXCEPT ![m] = @ + 1]
  /\ role' = [role EXCEPT ![m] = "LEADER"]
  /\ notice' = [notice EXCEPT ![m] = m]
  /\ UNCHANGED <<term, votedFor, leader, armed, peers, qry, sub, roster, spent>>
Elected(m) ==
  /\ votes[m] + 1 >= threshold(m)
  /\ votes' = [votes EXCEPT ![m] = @ + 1]
  /\ role' = [role EXCEPT ![m] = "LEADER"]
  /\ leader' = [leader EXCEPT ![m] = m]
  /\ notice' = [notice EXCEPT ![m] = m]
  /\ UNCHANGED <<term, votedFor, armed, peers, qry, sub, roster, spent>>

\* ... binds its answer port and asserts its authority,
WinElection(m, p) ==
  /\ Receive(m, p, "RSPVOTE")
  /\ role[m] = "CANDIDATE"
  /\ ~ansBound[m]
  /\ Elected(m)
  /\ ansBound' = [ansBound EXCEPT ![m] = TRUE]
  /\ net' = Publish(Taken(p, m), m, Authority(m, term[m]))

\* ... but a port that is already bound, from an earlier victory, raises an
\* AttributeError in updatePoller ("self.self") that ends the thread.
WinAgain(m, p) ==
  /\ Serving(m)
  /\ net[p][m] # <<>>
  /\ Head(net[p][m]).kind = "RSPVOTE"
  /\ role[m] = "CANDIDATE"
  /\ ansBound[m]
  /\ Elected(m)
  /\ status' = [status EXCEPT ![m] = "failed"]
  /\ net' = Drained(m)
  /\ UNCHANGED ansBound

\* Messages that change nothing: a vote outside of an election, a request or
\* an authority a leader does not heed, a request of the candidate itself or of
\* a past term.
Ignore(m, p) ==
  /\ \/ Receive(m, p, "RSPVOTE") /\ role[m] # "CANDIDATE"
     \/ Receive(m, p, "REQVOTE") /\ role[m] = "LEADER"
     \/ /\ Receive(m, p, "REQVOTE") /\ role[m] = "CANDIDATE"
        /\ LET msg == Head(net[p][m]) IN
             msg.term < term[m] \/ (msg.term = term[m] /\ msg.node = m)
     \/ /\ Receive(m, p, "AUTHORITY") /\ role[m] = "LEADER"
        /\ ~Conflicting(m, Head(net[p][m]))
  /\ net' = Taken(p, m)
  /\ UNCHANGED <<threadVars, sub, notice, roster, spent>>

HandleNetMessage(m, p) ==
  \/ MemberLeft(m, p)
  \/ PollMessage(m, p)
  \/ FollowerAuthority(m, p)
  \/ CandidateAuthority(m, p)
  \/ LeaderAuthority(m, p)
  \/ FollowerReqVote(m, p)
  \/ CandidateRefuse(m, p)
  \/ CandidateYield(m, p)
  \/ CountVote(m, p)
  \/ WinElection(m, p)
  \/ WinAgain(m, p)
  \/ Ignore(m, p)

HandleTimeout(m) == StartElection(m) \/ GiveUp(m) \/ AssertAuthority(m)

Next ==
  \/ \E m \in Member :
       Join(m) \/ Leave(m) \/ Stop(m) \/ Crash(m) \/ PublishPoll(m) \/ HandleTimeout(m)
  \/ \E m, p \in Member :
       \/ GroupUpdate(m, p) \/ Heartbeat(m, p) \/ PeerTimeout(m, p) \/ Lose(p, m)
       \/ HandleNetMessage(m, p)

Spec == Init /\ [][Next]_vars

(***************************************************************************)
(* Fairness.  The main loop of a running thread polls forever: it handles  *)
(* what arrives, sends heartbeats, and calls handleTimeout() whenever      *)
(* nothing arrives for self.timeout.  A thread that was asked to stop      *)
(* stops.  Nothing forces a member to join, to leave or to crash, a live   *)
(* peer to be timed out or a poll to be held.                              *)
(***************************************************************************)
Fairness ==
  /\ \A m \in Member :
       /\ WF_vars(HandleTimeout(m))
       /\ WF_vars(Stop(m))
       /\ WF_vars(\E p \in Member : GroupUpdate(m, p) \/ Heartbeat(m, p))
       /\ WF_vars(\E p \in Member : PeerTimeout(m, p) /\ status[p] # "running")
  /\ \A m, p \in Member : WF_vars(HandleNetMessage(m, p))

FairSpec == Spec /\ Fairness

--------------------------------------------------------------------------------
(* Properties *)

TypeOK ==
  /\ status \in [Member -> Status]
  /\ role \in [Member -> Role]
  /\ term \in [Member -> Nat]
  /\ votedFor \in [Member -> Member \cup {None}]
  /\ votes \in [Member -> Nat]
  /\ leader \in [Member -> Member \cup {None}]
  /\ armed \in [Member -> BOOLEAN]
  /\ peers \in [Member -> SUBSET Member]
  /\ qry \in [Member -> Member \cup {None}]
  /\ ansBound \in [Member -> BOOLEAN]
  /\ sub \in [Member -> SUBSET Member]
  /\ net \in [Member -> [Member -> Seq(Message)]]
  /\ notice \in [Member -> Member \cup {None}]
  /\ roster \in [Member -> SUBSET Member]
  /\ spent \in [Bounded -> Nat]

\* The role of a thread and what it knows agree: handleTimeout() asserts that a
\* LEADER is its own leader, and a candidate has voted for itself and follows
\* nobody, whatever overtook the election.
RoleCoherent ==
  \A m \in Member :
    /\ role[m] = "LEADER" => leader[m] = m
    /\ role[m] = "CANDIDATE" => leader[m] = None /\ votedFor[m] = m

\* The query port is connected to the current leader and to nothing else, so
\* sendToLeader() never reaches a leader the thread has dropped, and never finds
\* the port unconnected while a follower has a leader.
QryFollowsLeader ==
  \A m \in Member : qry[m] = IF role[m] = "LEADER" THEN None ELSE leader[m]

\* A follower that has a leader has a deadline running for it: no order of votes,
\* timeouts and claims leaves it with a leader whose silence it will not notice.
LeaderWatched ==
  \A m \in Member : role[m] = "FOLLOWER" /\ leader[m] # None => armed[m]

\* The notifications sent to the component add up to the state of the thread: no
\* change of leader (LEL, LEX) or of membership (MJD, MLT) goes unreported, and
\* none is reported that did not happen.
NoticeExact == \A m \in Member : notice[m] = leader[m] /\ roster[m] = peers[m]

\* The threads keep the promise of Leadership to their components.
LeadershipView == INSTANCE Leadership
KeepsLeadership == LeadershipView!Spec

Running(m) == status[m] = "running"
Gone(m) == status[m] \in {"left", "crashed", "failed"}
Leaders == {m \in Member : Running(m) /\ role[m] = "LEADER"}
Conflict(pair) ==
  /\ pair \subseteq Leaders
  /\ \A a, b \in pair : term[a] = term[b]

\* Two leaders of one term do not last: the "leader conflict" branch of
\* handleNetMessage() makes at least one of them step down.
ConflictResolved ==
  \A pair \in {P \in SUBSET Member : Cardinality(P) = 2} :
    Conflict(pair) ~> ~Conflict(pair)

\* When a group is left with one leader for good, all running members end up
\* following it, whatever terms, votes and claims they saw before.
SoleLeaderFollowed ==
  \A a \in Member :
    <>[](Leaders = {a}) => <>[](\A m \in Member : Running(m) => leader[m] = a)

\* A member that is gone is forgotten by the running members, however its MLT,
\* its loss and its last heartbeats fell (updatePeers, MLT branch); and a follower
\* whose leader is gone drops that leader, while it hears from enough peers to start
\* an election (and the bound on elections is not used up).
GoneForgotten ==
  \A m \in Member : \A p \in Member \ {m} :
    /\ Gone(p) ~> (Running(m) => p \notin peers[m])
    /\ (Running(m) /\ Gone(p) /\ leader[m] = p /\ HasMajority(m)) ~>
         (leader[m] # p \/ ~Running(m) \/ ~HasMajority(m)
          \/ spent["election"] = MaxElection)

\* The inductive invariant: the safety properties above need each other. That the
\* query port is right when a candidate wins, say, rests on a candidate having no
\* leader, and that on its notifications being exact.
IInv ==
  /\ TypeOK
  /\ RoleCoherent
  /\ QryFollowsLeader
  /\ LeaderWatched
  /\ NoticeExact

--------------------------------------------------------------------------------
(* What the repository says of the group threads and they do not keep *)

\* "Close and destroy old socket", "Create new socket" (dcPorts.py:277): a member
\* that is elected again gets a new answer port.  Its thread ends instead.
ReelectedLeaderRuns == \A m \in Member : role[m] = "LEADER" => status[m] # "failed"

================================================================================
