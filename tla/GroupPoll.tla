-------------------------------- MODULE GroupPoll ------------------------------
(***************************************************************************)
(* Polls in a coordinated RIAPS group (src/src/riaps/run/dc.py): a member  *)
(* asks its leader for a vote (RFV), the leader puts the question to the   *)
(* group (RCM), members send their votes to their leader (RTC), and the    *)
(* leader announces the result (ANN).                                      *)
(*                                                                         *)
(* Who leads is the business of GroupThread; polls are run here under any  *)
(* sequence of leaders that Leadership, which GroupThread implements,      *)
(* allows.  There notice is the leader that a thread follows (the property *)
(* NoticeExact of GroupThread).                                            *)
(*                                                                         *)
(* Abstractions.  A poll id is drawn once (eight random characters).  The  *)
(* deadline of a poll passes at any time.  A component votes at most once  *)
(* when asked.  Messages to a leader over a query port may get lost when   *)
(* the port is disconnected (LINGER 0) or the leader is gone.              *)
(*                                                                         *)
(* As in GroupThread, an operator just before another one with the same    *)
(* parameters is a mistake that could have been made there.                *)
(***************************************************************************)
EXTENDS Integers, Sequences, FiniteSets

CONSTANTS
  Member,        \* members of the group
  Founders,      \* members that hear each other from the start
  FirstLeader,   \* the leader that these follow at the start, or None
  None,          \* Python's None
  Rfv,           \* poll ids (rfvId)
  MaxChange,     \* bound: steps of the leadership
  MaxPeerChange, \* bound: changes of the peers heard
  MaxGone        \* bound: members that leave or crash

ASSUME GroupPollAssumption ==
  /\ None \notin Member \cup {"yes", "no"}
  /\ IsFiniteSet(Member)
  /\ Founders \subseteq Member
  /\ FirstLeader \in Founders \cup {None}
  /\ {MaxChange, MaxPeerChange, MaxGone} \subseteq Nat

VARIABLES
  role,     \* state of each thread: FOLLOWER, CANDIDATE or LEADER
  notice,   \* leader of each thread
  peers,    \* members that each thread has heard from lately
  gone,     \* members that left or crashed
  polls,    \* self.polls of each thread: the poll of an id, or None
  mail,     \* RFV and RTC messages on their way to the answer port of a leader
  asked,    \* RCM questions on their way to, or before, each component
  ballot,   \* what each component voted, or None
  outcome,  \* the results announced for each id
  spent     \* use made of the bounds

groupVars == <<role, notice, peers, gone>>
voteVars == <<polls, mail, asked, ballot, outcome>>
vars == <<groupVars, voteVars, spent>>

Kind == {"majority", "consensus"}
Result == {"yes", "no", "timeout"}
Poll == [kind: Kind, numPeers: Nat, voteCnt: Nat, yesCnt: Nat, expired: BOOLEAN]

Mail ==
       [what: {"RFV"}, from: Member, to: Member, rfvId: Rfv, kind: Kind]
  \cup [what: {"RTC"}, from: Member, to: Member, rfvId: Rfv, vote: BOOLEAN]

Bounded == {"change", "peer", "gone"}
Spend(b) == spent' = [spent EXCEPT ![b] = @ + 1]

Group == INSTANCE Leadership WITH Followers <- Founders

Init ==
  /\ Group!Init
  /\ peers = [m \in Member |-> IF m \in Founders THEN Founders ELSE {}]
  /\ gone = {}
  /\ polls = [m \in Member |-> [r \in Rfv |-> None]]
  /\ mail = {}
  /\ asked = [m \in Member |-> {}]
  /\ ballot = [m \in Member |-> [r \in Rfv |-> None]]
  /\ outcome = [r \in Rfv |-> <<>>]
  /\ spent = [b \in Bounded |-> 0]

--------------------------------------------------------------------------------
(* Class Poll *)

NewPoll(k, n) ==
  [kind |-> k, numPeers |-> n, voteCnt |-> 0, yesCnt |-> 0, expired |-> FALSE]

\* vote(): one more vote, from nobody in particular.
vote(poll, v) ==
  [kind |-> poll.kind, numPeers |-> poll.numPeers, voteCnt |-> poll.voteCnt + 1,
   yesCnt |-> IF v THEN poll.yesCnt + 1 ELSE poll.yesCnt, expired |-> poll.expired]

late(poll) ==
  [kind |-> poll.kind, numPeers |-> poll.numPeers, voteCnt |-> poll.voteCnt,
   yesCnt |-> poll.yesCnt, expired |-> TRUE]

allVoted(poll) == poll.voteCnt = poll.numPeers

resultHalf(poll) ==
  IF poll.kind = "majority"
    THEN poll.yesCnt >= poll.numPeers \div 2
    ELSE poll.yesCnt = poll.numPeers
result(poll) ==
  IF poll.kind = "majority"
    THEN poll.yesCnt >= poll.numPeers \div 2 + 1
    ELSE poll.yesCnt = poll.numPeers

\* checkPoll(): is the poll over, and with what result?
Over(poll) == poll.expired \/ allVoted(poll)
PollResult(poll) ==
  IF poll.expired THEN "timeout" ELSE IF result(poll) THEN "yes" ELSE "no"

Open(m, r) == polls[m][r] # None

--------------------------------------------------------------------------------
(* The thread that runs a poll *)

\* startPoll(): the question goes out to the members that are connected, unless
\* the request has come too late: that is announced as a timeout.
StartPoll(m, r, k) ==
  \/ /\ polls' = [polls EXCEPT ![m][r] = NewPoll(k, Cardinality(peers[m]))]
     /\ \E reached \in SUBSET (Member \ gone) :
          asked' = [q \in Member |->
                      IF q \in reached THEN asked[q] \cup {r} ELSE asked[q]]
     /\ UNCHANGED outcome
  \/ /\ outcome' = [outcome EXCEPT ![r] = Append(@, "timeout")]
     /\ UNCHANGED <<polls, asked>>

\* updatePoll(): a vote for a poll that is still open here is counted, and the
\* poll is closed if that was the last one, or if it came too late.
UpdatePollKept(m, r, v) ==
  IF Open(m, r)
    THEN LET poll == vote(polls[m][r], v) IN
           /\ polls' = [polls EXCEPT ![m][r] = poll]
           /\ outcome' = [outcome EXCEPT ![r] =
                            IF Over(poll) THEN Append(@, PollResult(poll)) ELSE @]
    ELSE UNCHANGED <<polls, outcome>>
UpdatePoll(m, r, v) ==
  IF Open(m, r)
    THEN LET poll == vote(polls[m][r], v) IN
           /\ polls' = [polls EXCEPT ![m][r] = IF Over(poll) THEN None ELSE poll]
           /\ outcome' = [outcome EXCEPT ![r] =
                            IF Over(poll) THEN Append(@, PollResult(poll)) ELSE @]
    ELSE UNCHANGED <<polls, outcome>>

\* checkAllPolls(), on a timeout of the main loop, whatever the role of m.
CheckAllPollsLeading(m) ==
  LET over(r) == Open(m, r) /\ Over(polls[m][r]) IN
  /\ m \notin gone
  /\ role[m] = "LEADER"
  /\ \E r \in Rfv : over(r)
  /\ polls' = [polls EXCEPT ![m] = [r \in Rfv |-> IF over(r) THEN None ELSE @[r]]]
  /\ outcome' = [r \in Rfv |-> IF over(r) THEN Append(outcome[r], PollResult(polls[m][r]))
                                          ELSE outcome[r]]
  /\ UNCHANGED <<groupVars, mail, asked, ballot, spent>>
CheckAllPolls(m) ==
  LET over(r) == Open(m, r) /\ Over(polls[m][r]) IN
  /\ m \notin gone
  /\ \E r \in Rfv : over(r)
  /\ polls' = [polls EXCEPT ![m] = [r \in Rfv |-> IF over(r) THEN None ELSE @[r]]]
  /\ outcome' = [r \in Rfv |-> IF over(r) THEN Append(outcome[r], PollResult(polls[m][r]))
                                          ELSE outcome[r]]
  /\ UNCHANGED <<groupVars, mail, asked, ballot, spent>>

\* The deadline of a poll passes.
Expire(m, r) ==
  /\ m \notin gone
  /\ Open(m, r)
  /\ ~polls[m][r].expired
  /\ polls' = [polls EXCEPT ![m][r] = late(@)]
  /\ UNCHANGED <<groupVars, mail, asked, ballot, outcome, spent>>

--------------------------------------------------------------------------------
(* Messages *)

\* An id that has not been drawn before.
Fresh(r) ==
  /\ outcome[r] = <<>>
  /\ \A m \in Member : ~Open(m, r)
  /\ \A msg \in mail : msg.rfvId # r
  /\ \A m \in Member : ballot[m][r] = None /\ r \notin asked[m]

\* requestVote() and requestActionVote() of a component that has a leader: its
\* thread starts the poll itself or passes the request (GROUP_RFV) on.
RequestVote(m, r, k) ==
  /\ m \notin gone
  /\ notice[m] # None
  /\ Fresh(r)
  /\ IF notice[m] = m
       THEN StartPoll(m, r, k) /\ UNCHANGED mail
       ELSE /\ mail' = mail \cup
                 {[what |-> "RFV", from |-> m, to |-> notice[m], rfvId |-> r, kind |-> k]}
            /\ UNCHANGED <<polls, asked, outcome>>
  /\ UNCHANGED <<groupVars, ballot, spent>>

\* handleMessageForLeader(), GROUP_RFV; nobody asks whether m still leads.
ReceiveRequest(m, msg) ==
  /\ m \notin gone
  /\ msg.to = m /\ msg.what = "RFV"
  /\ StartPoll(m, msg.rfvId, msg.kind)
  /\ mail' = mail \ {msg}
  /\ UNCHANGED <<groupVars, ballot, spent>>

\* sendVote(): without a leader the vote is lost (NLD); the leader's own vote is
\* counted at once; others go to the leader of now, who need not be who asked.
\* A component votes once on a question: its code has to, the threads do not look.
SendVote(m, r, v) ==
  /\ m \notin gone
  /\ r \in asked[m]
  /\ asked' = [asked EXCEPT ![m] = @ \ {r}]
  /\ ballot' = [ballot EXCEPT ![m][r] = IF v THEN "yes" ELSE "no"]
  /\ IF notice[m] = m
       THEN UpdatePoll(m, r, v) /\ UNCHANGED mail
       ELSE /\ mail' = mail \cup
                 (IF notice[m] = None THEN {}
                  ELSE {[what |-> "RTC", from |-> m, to |-> notice[m], rfvId |-> r,
                         vote |-> v]})
            /\ UNCHANGED <<polls, outcome>>
  /\ UNCHANGED <<groupVars, spent>>

\* handleMessageForLeader(), GROUP_RTC
ReceiveVote(m, msg) ==
  /\ m \notin gone
  /\ msg.to = m /\ msg.what = "RTC"
  /\ UpdatePoll(m, msg.rfvId, msg.vote)
  /\ mail' = mail \ {msg}
  /\ UNCHANGED <<groupVars, asked, ballot, spent>>

\* A message is dropped with the connection it was sent on (environment).
LoseMail(msg) ==
  /\ notice[msg.from] # msg.to \/ msg.to \in gone \/ msg.from \in gone
  /\ mail' = mail \ {msg}
  /\ UNCHANGED <<groupVars, polls, asked, ballot, outcome, spent>>

--------------------------------------------------------------------------------
(* The group around the polls *)

ChangeLeader ==
  /\ spent["change"] < MaxChange
  /\ Spend("change")
  /\ Group!Next
  /\ UNCHANGED <<peers, gone, voteVars>>

\* The heartbeats of p are heard, or are not heard any more, by m.
ChangePeer(m, p) ==
  /\ m \notin gone
  /\ spent["peer"] < MaxPeerChange
  /\ Spend("peer")
  /\ peers' = [peers EXCEPT ![m] = IF p \in @ THEN @ \ {p} ELSE @ \cup {p}]
  /\ UNCHANGED <<role, notice, gone, voteVars>>

\* m leaves or crashes, and its polls with it.
Gone(m) ==
  /\ m \notin gone
  /\ spent["gone"] < MaxGone
  /\ Spend("gone")
  /\ gone' = gone \cup {m}
  /\ UNCHANGED <<role, notice, peers, voteVars>>

Next ==
  \/ ChangeLeader
  \/ \E m \in Member : CheckAllPolls(m) \/ Gone(m)
  \/ \E m, p \in Member : ChangePeer(m, p)
  \/ \E m \in Member, r \in Rfv :
       \/ Expire(m, r)
       \/ \E k \in Kind : RequestVote(m, r, k)
       \/ \E v \in BOOLEAN : SendVote(m, r, v)
  \/ \E msg \in mail :
       LoseMail(msg) \/ \E m \in Member : ReceiveRequest(m, msg) \/ ReceiveVote(m, msg)

Spec == Init /\ [][Next]_vars

\* Time passes, and the main loop of a thread handles its timeouts.
Fairness ==
  \A m \in Member :
    WF_vars(CheckAllPolls(m)) /\ \A r \in Rfv : WF_vars(Expire(m, r))

FairSpec == Spec /\ Fairness

--------------------------------------------------------------------------------
(* Properties *)

TypeOK ==
  /\ role \in [Member -> {"FOLLOWER", "CANDIDATE", "LEADER"}]
  /\ notice \in [Member -> Member \cup {None}]
  /\ peers \in [Member -> SUBSET Member]
  /\ gone \subseteq Member
  /\ polls \in [Member -> [Rfv -> Poll \cup {None}]]
  /\ mail \subseteq Mail
  /\ asked \in [Member -> SUBSET Rfv]
  /\ ballot \in [Member -> [Rfv -> {"yes", "no", None}]]
  /\ outcome \in [Rfv -> Seq(Result)]
  /\ spent \in [Bounded -> Nat]

\* An id stands for one question, in one place: it is under way to one thread, or
\* open in one thread, or decided, however often the leader has changed.
Requests(r) == {msg \in mail : msg.what = "RFV" /\ msg.rfvId = r}
OnePlace ==
  \A r \in Rfv :
    /\ \A a, b \in Requests(r) : a = b
    /\ \A m, p \in Member : Open(m, r) /\ Open(p, r) => m = p
    /\ \A m \in Member : Open(m, r) => Requests(r) = {} /\ outcome[r] = <<>>
    /\ outcome[r] # <<>> => Requests(r) = {}

\* A poll is announced at most once, by one member: the group never hears two
\* results of one poll, although polls outlive the leadership of who runs them.
AnnouncedOnce == \A r \in Rfv : Len(outcome[r]) <= 1

\* The members whose vote may have been counted, having arrived.
Arrived(r) ==
  {m \in Member : /\ ballot[m][r] # None
                  /\ ~ \E msg \in mail : msg.what = "RTC" /\ msg.from = m /\ msg.rfvId = r}
ArrivedYes(r) == {m \in Arrived(r) : ballot[m][r] = "yes"}

\* Votes carry no name, and yet each is counted once.
CountsHonest ==
  \A m \in Member, r \in Rfv :
    Open(m, r) => /\ polls[m][r].voteCnt <= Cardinality(Arrived(r))
                  /\ polls[m][r].yesCnt <= Cardinality(ArrivedYes(r))

\* The result is what the group voted: a poll closes with "yes" only if more than
\* half of the peers known at its start (all of them, for a consensus) voted yes,
\* and with "no" only after as many votes as there were peers.
Closes(m, r, ending) ==
  Open(m, r) /\ polls'[m][r] = None /\ outcome'[r] = Append(outcome[r], ending)
Voted(r, v) == Cardinality({m \in Member : ballot'[m][r] \in v})
Carried(m, r) ==
  LET poll == polls[m][r] IN
  /\ Closes(m, r, "yes") =>
       IF poll.kind = "majority"
         THEN 2 * Voted(r, {"yes"}) > poll.numPeers
         ELSE Voted(r, {"yes"}) >= poll.numPeers
  /\ Closes(m, r, "no") => Voted(r, {"yes", "no"}) >= poll.numPeers
ResultCarried == [][\A m \in Member, r \in Rfv : Carried(m, r)]_vars

\* A poll that was started is announced, unless its thread is gone with it: neither
\* lost votes nor a change of the leader leaves it open.
PollAnnounced ==
  \A r \in Rfv :
    (\E m \in Member \ gone : Open(m, r))
      ~> (outcome[r] # <<>> \/ \E m \in gone : Open(m, r))

\* Each component votes once on a question, and what is under way from it is that
\* vote; nobody has been asked before the request has reached a thread.
VotedOnce ==
  /\ \A m \in Member, r \in Rfv : r \in asked[m] => ballot[m][r] = None
  /\ \A msg \in mail :
       IF msg.what = "RTC"
         THEN /\ ballot[msg.from][msg.rfvId] = IF msg.vote THEN "yes" ELSE "no"
              /\ \A other \in mail :
                   (/\ other.what = "RTC"
                    /\ other.from = msg.from
                    /\ other.rfvId = msg.rfvId) => other = msg
         ELSE \A m \in Member : ballot[m][msg.rfvId] = None /\ msg.rfvId \notin asked[m]

\* The inductive invariant: that a count is honest rests on a vote being cast,
\* and being under way, once only; that a result is announced once rests on the
\* question having one place.
IInv == TypeOK /\ OnePlace /\ AnnouncedOnce /\ CountsHonest /\ VotedOnce

================================================================================
