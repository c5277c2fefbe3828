---------------------------- MODULE GroupPollProofs ----------------------------
(***************************************************************************)
(* Proofs about GroupPoll, for any set of members, any polls and bounds:   *)
(* a poll is announced once, and its result is what the group voted.       *)
(***************************************************************************)
EXTENDS GroupPoll, FiniteSetTheorems, TLAPS

--------------------------------------------------------------------------------
(* Polls and sets of members *)

\* Class Poll: what its methods return and count.
LEMMA PollFields ==
  ASSUME NEW poll \in Poll, NEW v \in BOOLEAN
  PROVE  /\ vote(poll, v) \in Poll
         /\ vote(poll, v).kind = poll.kind
         /\ vote(poll, v).numPeers = poll.numPeers
         /\ vote(poll, v).voteCnt = poll.voteCnt + 1
         /\ vote(poll, v).yesCnt = IF v THEN poll.yesCnt + 1 ELSE poll.yesCnt
BY DEF Poll, vote

\* The deadline of a poll passes.
LEMMA LateFields ==
  ASSUME NEW poll \in Poll
  PROVE  /\ late(poll) \in Poll
         /\ late(poll).voteCnt = poll.voteCnt
         /\ late(poll).yesCnt = poll.yesCnt
BY DEF Poll, late

\* Poll.__init__: nothing has been counted yet.
LEMMA NewPollFields ==
  ASSUME NEW k \in Kind, NEW n \in Nat
  PROVE  /\ NewPoll(k, n) \in Poll
         /\ NewPoll(k, n).voteCnt = 0
         /\ NewPoll(k, n).yesCnt = 0
BY DEF Poll, NewPoll

\* A result is one of three.
LEMMA PollResultType == \A poll \in Poll : PollResult(poll) \in Result
BY DEF PollResult, Result

\* Sets of members are finite, and a set with one more member is larger.
LEMMA MemberSets ==
  ASSUME NEW T \in SUBSET Member, NEW S \in SUBSET T
  PROVE  /\ Cardinality(S) \in Nat /\ Cardinality(T) \in Nat
         /\ Cardinality(S) <= Cardinality(T)
         /\ \A x \in T \ S : Cardinality(S) + 1 <= Cardinality(T)
<1>1. IsFiniteSet(T)
  BY FS_Subset, GroupPollAssumption
<1>2. IsFiniteSet(S) /\ Cardinality(S) <= Cardinality(T)
  BY <1>1, FS_Subset
<1>3. Cardinality(S) \in Nat /\ Cardinality(T) \in Nat
  BY <1>1, <1>2, FS_CardinalityType
<1>4. ASSUME NEW x \in T \ S PROVE Cardinality(S) + 1 <= Cardinality(T)
  <2>1. Cardinality(S \cup {x}) = Cardinality(S) + 1
    BY <1>2, FS_AddElement
  <2>2. S \cup {x} \in SUBSET T
    OBVIOUS
  <2>3. Cardinality(S \cup {x}) <= Cardinality(T)
    BY <1>1, <2>2, FS_Subset
  <2> QED
    BY <2>1, <2>3
<1> QED
  BY <1>2, <1>3, <1>4

--------------------------------------------------------------------------------
(* Types *)

\* Before the first poll.
LEMMA InitInv == Init => IInv
<1> SUFFICES ASSUME Init PROVE IInv
  OBVIOUS
<1> USE GroupPollAssumption DEF Init
<1>1. TypeOK
  <2>1. <<>> \in Seq(Result)
    OBVIOUS
  <2> QED
    BY <2>1 DEF TypeOK, Group!Init, Bounded
<1>2. OnePlace /\ AnnouncedOnce /\ CountsHonest
  BY DEF OnePlace, Requests, AnnouncedOnce, CountsHonest, Open
<1>3. VotedOnce
  BY DEF VotedOnce
<1> QED
  BY <1>1, <1>2, <1>3 DEF IInv

\* startPoll() keeps the types of what it writes.
LEMMA StartPollType ==
  ASSUME TypeOK, NEW m \in Member, NEW r \in Rfv, NEW k \in Kind, StartPoll(m, r, k)
  PROVE  /\ polls' \in [Member -> [Rfv -> Poll \cup {None}]]
         /\ asked' \in [Member -> SUBSET Rfv]
         /\ outcome' \in [Rfv -> Seq(Result)]
<1>1. peers[m] \in SUBSET Member
  BY DEF TypeOK
<1>2. Cardinality(peers[m]) \in Nat
  BY <1>1, MemberSets
<1>3. NewPoll(k, Cardinality(peers[m])) \in Poll
  BY <1>2, NewPollFields
<1>4. ASSUME NEW s \in Seq(Result) PROVE Append(s, "timeout") \in Seq(Result)
  BY DEF Result
<1>5. CASE UNCHANGED <<polls, asked>>
  <2>1. outcome' = [outcome EXCEPT ![r] = Append(outcome[r], "timeout")]
        \/ UNCHANGED outcome
    BY DEF StartPoll
  <2>2. Append(outcome[r], "timeout") \in Seq(Result)
    BY <1>4 DEF TypeOK
  <2>3. outcome' \in [Rfv -> Seq(Result)]
    BY <2>1, <2>2 DEF TypeOK
  <2> QED
    BY <1>5, <2>3 DEF TypeOK
<1>6. CASE polls' = [polls EXCEPT ![m][r] = NewPoll(k, Cardinality(peers[m]))]
           /\ UNCHANGED outcome
           /\ \E reached \in SUBSET (Member \ gone) :
                asked' = [q \in Member |->
                            IF q \in reached THEN asked[q] \cup {r} ELSE asked[q]]
  BY <1>3, <1>6 DEF TypeOK
<1> QED
  BY <1>5, <1>6 DEF StartPoll

\* So does updatePoll().
LEMMA UpdatePollType ==
  ASSUME TypeOK, NEW m \in Member, NEW r \in Rfv, NEW v \in BOOLEAN, UpdatePoll(m, r, v)
  PROVE  /\ polls' \in [Member -> [Rfv -> Poll \cup {None}]]
         /\ outcome' \in [Rfv -> Seq(Result)]
<1>1. CASE Open(m, r)
  <2> DEFINE poll == vote(polls[m][r], v)
  <2>1. poll \in Poll
    <3>1. polls[m][r] \in Poll
      BY <1>1 DEF TypeOK, Open
    <3> QED
      BY <3>1, PollFields
  <2>2. PollResult(poll) \in Result
    BY <2>1, PollResultType
  <2>3. polls' = [polls EXCEPT ![m][r] = IF Over(poll) THEN None ELSE poll]
    BY <1>1 DEF UpdatePoll
  <2>4. outcome' = [outcome EXCEPT ![r] =
                      IF Over(poll) THEN Append(@, PollResult(poll)) ELSE @]
    BY <1>1 DEF UpdatePoll
  <2> HIDE DEF poll
  <2>5. polls' \in [Member -> [Rfv -> Poll \cup {None}]]
    BY <2>1, <2>3 DEF TypeOK
  <2>6. outcome' \in [Rfv -> Seq(Result)]
    <3>1. outcome[r] \in Seq(Result)
      BY DEF TypeOK
    <3>2. Append(outcome[r], PollResult(poll)) \in Seq(Result)
      BY <3>1, <2>2
    <3> QED
      BY <2>4, <3>1, <3>2 DEF TypeOK
  <2> QED
    BY <2>5, <2>6
<1>2. CASE ~Open(m, r)
  BY <1>2 DEF UpdatePoll, TypeOK
<1> QED
  BY <1>1, <1>2

\* Each step keeps the types.
LEMMA NextType == TypeOK /\ [Next]_vars => TypeOK'
<1> SUFFICES ASSUME TypeOK, [Next]_vars PROVE TypeOK'
  OBVIOUS
<1> USE DEF TypeOK, groupVars, voteVars, Bounded, Spend
<1>1. CASE ChangeLeader
  <2>1. role' \in [Member -> {"FOLLOWER", "CANDIDATE", "LEADER"}]
    BY <1>1 DEF ChangeLeader, Group!Next, Group!Stand, Group!Win, Group!Accept,
                Group!Forget
  <2>2. notice' \in [Member -> Member \cup {None}]
    <3>1. \E m \in Member, ldr \in Member \cup {None} :
            notice' = [notice EXCEPT ![m] = ldr]
      BY <1>1 DEF ChangeLeader, Group!Next, Group!Stand, Group!Win, Group!Accept,
                  Group!Forget
    <3> QED
      BY <3>1
  <2> QED
    BY <1>1, <2>1, <2>2 DEF ChangeLeader
<1>2. ASSUME NEW m \in Member, CheckAllPolls(m) PROVE TypeOK'
  <2> DEFINE over(r) == Open(m, r) /\ Over(polls[m][r])
  <2>1. polls' = [polls EXCEPT ![m] = [r \in Rfv |-> IF over(r) THEN None ELSE @[r]]]
    BY <1>2 DEF CheckAllPolls
  <2>2. outcome' = [r \in Rfv |-> IF over(r)
                      THEN Append(outcome[r], PollResult(polls[m][r])) ELSE outcome[r]]
    BY <1>2 DEF CheckAllPolls
  <2>3. ASSUME NEW r \in Rfv, over(r)
        PROVE  Append(outcome[r], PollResult(polls[m][r])) \in Seq(Result)
    <3>1. polls[m][r] \in Poll
      BY <2>3 DEF Open
    <3>2. PollResult(polls[m][r]) \in Result
      BY <3>1, PollResultType
    <3>3. outcome[r] \in Seq(Result)
      OBVIOUS
    <3> QED
      BY <3>2, <3>3
  <2>4. outcome' \in [Rfv -> Seq(Result)]
    BY <2>2, <2>3
  <2>5. polls' \in [Member -> [Rfv -> Poll \cup {None}]]
    BY <2>1
  <2> QED
    BY <1>2, <2>4, <2>5 DEF CheckAllPolls
<1>3. ASSUME NEW m \in Member, Gone(m) PROVE TypeOK'
  BY <1>3 DEF Gone
<1>4. ASSUME NEW m \in Member, NEW p \in Member, ChangePeer(m, p) PROVE TypeOK'
  BY <1>4 DEF ChangePeer
<1>5. ASSUME NEW m \in Member, NEW r \in Rfv, Expire(m, r) PROVE TypeOK'
  <2>1. late(polls[m][r]) \in Poll
    <3>1. polls[m][r] \in Poll
      BY <1>5 DEF Expire, Open
    <3> QED
      BY <3>1, LateFields
  <2> QED
    BY <1>5, <2>1 DEF Expire
<1>6. ASSUME NEW m \in Member, NEW r \in Rfv, NEW k \in Kind, RequestVote(m, r, k)
      PROVE  TypeOK'
  <2>1. CASE notice[m] = m
    BY <1>6, <2>1, StartPollType DEF RequestVote
  <2>2. CASE notice[m] # m
    <3>1. mail' \subseteq Mail
      BY <1>6, <2>2 DEF RequestVote, Mail
    <3> QED
      BY <1>6, <2>2, <3>1 DEF RequestVote
  <2> QED
    BY <2>1, <2>2
<1>7. ASSUME NEW m \in Member, NEW msg \in mail, ReceiveRequest(m, msg) PROVE TypeOK'
  <2>1. msg.rfvId \in Rfv /\ msg.kind \in Kind
    BY <1>7 DEF ReceiveRequest, Mail
  <2> QED
    BY <1>7, <2>1, StartPollType DEF ReceiveRequest
<1>8. ASSUME NEW m \in Member, NEW r \in Rfv, NEW v \in BOOLEAN, SendVote(m, r, v)
      PROVE  TypeOK'
  <2>1. asked' \in [Member -> SUBSET Rfv]
    BY <1>8 DEF SendVote
  <2>2. ballot' \in [Member -> [Rfv -> {"yes", "no", None}]]
    BY <1>8 DEF SendVote
  <2>3. CASE notice[m] = m
    BY <1>8, <2>1, <2>2, <2>3, UpdatePollType DEF SendVote
  <2>4. CASE notice[m] # m
    <3>1. mail' \subseteq Mail
      BY <1>8, <2>4 DEF SendVote, Mail
    <3> QED
      BY <1>8, <2>1, <2>2, <2>4, <3>1 DEF SendVote
  <2> QED
    BY <2>3, <2>4
<1>9. ASSUME NEW m \in Member, NEW msg \in mail, ReceiveVote(m, msg) PROVE TypeOK'
  <2>1. msg.rfvId \in Rfv /\ msg.vote \in BOOLEAN
    BY <1>9 DEF ReceiveVote, Mail
  <2> QED
    BY <1>9, <2>1, UpdatePollType DEF ReceiveVote
<1>10. ASSUME NEW msg \in mail, LoseMail(msg) PROVE TypeOK'
  BY <1>10 DEF LoseMail
<1>11. CASE UNCHANGED vars
  BY <1>11 DEF vars
<1> QED
  BY <1>1, <1>2, <1>3, <1>4, <1>5, <1>6, <1>7, <1>8, <1>9, <1>10, <1>11 DEF Next

--------------------------------------------------------------------------------
(* A poll has one place *)

\* A question that has not reached any thread yet, or only just.
Untouched(r) ==
  /\ outcome[r] = <<>>
  /\ \A m \in Member : ~Open(m, r) /\ ballot[m][r] = None /\ r \notin asked[m]

\* A request that is under way has touched nothing.
LEMMA RequestUntouched ==
  ASSUME IInv, NEW msg \in mail, msg.what = "RFV"
  PROVE  msg.rfvId \in Rfv /\ Untouched(msg.rfvId)
<1>1. msg \in Mail
  BY DEF IInv, TypeOK
<1>2. msg.rfvId \in Rfv /\ msg \in Requests(msg.rfvId)
  BY <1>1 DEF Mail, Requests
<1>3. outcome[msg.rfvId] = <<>> /\ \A m \in Member : ~Open(m, msg.rfvId)
  BY <1>2 DEF IInv, OnePlace
<1>4. \A m \in Member : ballot[m][msg.rfvId] = None /\ msg.rfvId \notin asked[m]
  BY DEF IInv, VotedOnce
<1> QED
  BY <1>2, <1>3, <1>4 DEF Untouched

\* Starting a poll: the question moves from its request to its poll or result.
LEMMA StartPlace ==
  ASSUME IInv, NEW m \in Member, NEW r \in Rfv, NEW k \in Kind, StartPoll(m, r, k),
         Untouched(r), Requests(r)' = {}, mail' \subseteq mail
  PROVE  OnePlace' /\ AnnouncedOnce'
<1>1. \A x \in Rfv : Requests(x)' \subseteq Requests(x)
  BY DEF Requests
<1>2. CASE polls' = [polls EXCEPT ![m][r] = NewPoll(k, Cardinality(peers[m]))]
           /\ UNCHANGED outcome
  <2>1. \A p \in Member, x \in Rfv : Open(p, x)' => Open(p, x) \/ (p = m /\ x = r)
    BY <1>2 DEF IInv, TypeOK, Open
  <2> QED
    BY <1>1, <1>2, <2>1 DEF IInv, OnePlace, AnnouncedOnce, Untouched
<1>3. CASE outcome' = [outcome EXCEPT ![r] = Append(outcome[r], "timeout")]
           /\ UNCHANGED polls
  <2>1. \A p \in Member, x \in Rfv : Open(p, x)' = Open(p, x)
    BY <1>3 DEF Open
  <2>2. outcome'[r] = <<"timeout">> /\ \A x \in Rfv \ {r} : outcome'[x] = outcome[x]
    BY <1>3 DEF IInv, TypeOK, Untouched
  <2>3. Len(outcome'[r]) <= 1
    BY <2>2
  <2>4. OnePlace'
    BY <1>1, <2>1, <2>2 DEF IInv, OnePlace, Untouched
  <2>5. AnnouncedOnce'
    <3>1. ASSUME NEW x \in Rfv, x # r PROVE Len(outcome'[x]) <= 1
      BY <2>2, <3>1 DEF IInv, AnnouncedOnce
    <3> QED
      BY <2>3, <3>1 DEF AnnouncedOnce
  <2> QED
    BY <2>4, <2>5
<1> QED
  BY <1>2, <1>3 DEF StartPoll

\* Counting a vote: an open poll stays where it is, or gives way to its result.
LEMMA UpdatePlace ==
  ASSUME IInv, NEW m \in Member, NEW r \in Rfv, NEW v \in BOOLEAN, UpdatePoll(m, r, v),
         \A x \in Rfv : Requests(x)' = Requests(x)
  PROVE  OnePlace' /\ AnnouncedOnce'
<1>1. CASE Open(m, r)
  <2> DEFINE poll == vote(polls[m][r], v)
  <2>1. /\ polls' = [polls EXCEPT ![m][r] = IF Over(poll) THEN None ELSE poll]
        /\ outcome' = [outcome EXCEPT ![r] =
                         IF Over(poll) THEN Append(@, PollResult(poll)) ELSE @]
    BY <1>1 DEF UpdatePoll
  <2> HIDE DEF poll
  <2>2. outcome[r] = <<>> /\ Requests(r) = {}
    BY <1>1 DEF IInv, OnePlace
  <2>3. \A p \in Member, x \in Rfv : Open(p, x)' => Open(p, x)
    BY <1>1, <2>1 DEF IInv, TypeOK, Open
  <2>4. \A x \in Rfv \ {r} : outcome'[x] = outcome[x]
    BY <2>1 DEF IInv, TypeOK
  <2>5. CASE Over(poll)
    <3>1. outcome'[r] = <<PollResult(poll)>>
      BY <2>1, <2>2, <2>5 DEF IInv, TypeOK
    <3>2. \A p \in Member : ~Open(p, r)'
      BY <1>1, <2>1, <2>3, <2>5 DEF IInv, TypeOK, OnePlace, Open
    <3>3. Len(outcome'[r]) <= 1
      BY <3>1
    <3>4. OnePlace'
      BY <2>2, <2>3, <2>4, <3>1, <3>2 DEF IInv, OnePlace
    <3>5. AnnouncedOnce'
      <4>1. ASSUME NEW x \in Rfv, x # r PROVE Len(outcome'[x]) <= 1
        BY <2>4, <4>1 DEF IInv, AnnouncedOnce
      <4> QED
        BY <3>3, <4>1 DEF AnnouncedOnce
    <3> QED
      BY <3>4, <3>5
  <2>6. CASE ~Over(poll)
    <3>1. outcome' = outcome
      BY <2>1, <2>6 DEF IInv, TypeOK
    <3> QED
      BY <2>3, <3>1 DEF IInv, OnePlace, AnnouncedOnce
  <2> QED
    BY <2>5, <2>6
<1>2. CASE ~Open(m, r)
  <2>1. UNCHANGED <<polls, outcome>>
    BY <1>2 DEF UpdatePoll
  <2> QED
    BY <2>1 DEF IInv, OnePlace, AnnouncedOnce, Open
<1> QED
  BY <1>1, <1>2

--------------------------------------------------------------------------------
(* Counts are honest *)

\* No vote is taken back.
VotesStay ==
  \A x \in Rfv : Arrived(x) \subseteq Arrived(x)' /\ ArrivedYes(x) \subseteq ArrivedYes(x)'

\* The counts of an open poll stay honest.
LEMMA CountKept ==
  ASSUME IInv, VotesStay, NEW p \in Member, NEW x \in Rfv, Open(p, x)
  PROVE  /\ polls[p][x].voteCnt <= Cardinality(Arrived(x)')
         /\ polls[p][x].yesCnt <= Cardinality(ArrivedYes(x)')
<1>1. /\ Arrived(x) \in SUBSET (Arrived(x)') /\ Arrived(x)' \in SUBSET Member
      /\ ArrivedYes(x) \in SUBSET (ArrivedYes(x)') /\ ArrivedYes(x)' \in SUBSET Member
  BY DEF VotesStay, Arrived, ArrivedYes
<1>2. /\ Cardinality(Arrived(x)) \in Nat /\ Cardinality(Arrived(x)') \in Nat
      /\ Cardinality(Arrived(x)) <= Cardinality(Arrived(x)')
  BY <1>1, MemberSets
<1>3. /\ Cardinality(ArrivedYes(x)) \in Nat /\ Cardinality(ArrivedYes(x)') \in Nat
      /\ Cardinality(ArrivedYes(x)) <= Cardinality(ArrivedYes(x)')
  BY <1>1, MemberSets
<1>4. /\ polls[p][x] \in Poll
      /\ polls[p][x].voteCnt <= Cardinality(Arrived(x))
      /\ polls[p][x].yesCnt <= Cardinality(ArrivedYes(x))
  BY DEF IInv, TypeOK, CountsHonest, Open
<1>5. polls[p][x].voteCnt \in Nat /\ polls[p][x].yesCnt \in Nat
  BY <1>4 DEF Poll
<1> QED
  BY <1>2, <1>3, <1>4, <1>5

\* So polls that are closed, or kept with their counts, keep the invariant.
LEMMA CountsKept ==
  ASSUME IInv, VotesStay,
         \A p \in Member, x \in Rfv :
           Open(p, x)' => /\ Open(p, x)
                          /\ polls'[p][x].voteCnt = polls[p][x].voteCnt
                          /\ polls'[p][x].yesCnt = polls[p][x].yesCnt
  PROVE  CountsHonest'
BY CountKept DEF CountsHonest

\* A vote that has just arrived pays for being counted.
LEMMA VotePaid ==
  ASSUME IInv, VotesStay, NEW m \in Member, NEW r \in Rfv, NEW v \in BOOLEAN,
         NEW q \in Member, q \in Arrived(r)' \ Arrived(r), v => q \in ArrivedYes(r)',
         Open(m, r)
  PROVE  /\ vote(polls[m][r], v) \in Poll
         /\ vote(polls[m][r], v).voteCnt <= Cardinality(Arrived(r)')
         /\ vote(polls[m][r], v).yesCnt <= Cardinality(ArrivedYes(r)')
<1>1. /\ Arrived(r) \in SUBSET (Arrived(r)') /\ Arrived(r)' \in SUBSET Member
      /\ ArrivedYes(r) \in SUBSET (ArrivedYes(r)') /\ ArrivedYes(r)' \in SUBSET Member
      /\ q \notin ArrivedYes(r)
  BY DEF VotesStay, Arrived, ArrivedYes
<1>2. /\ Cardinality(Arrived(r)) \in Nat /\ Cardinality(Arrived(r)') \in Nat
      /\ Cardinality(Arrived(r)) + 1 <= Cardinality(Arrived(r)')
  BY <1>1, MemberSets
<1>3. /\ Cardinality(ArrivedYes(r)) \in Nat /\ Cardinality(ArrivedYes(r)') \in Nat
      /\ Cardinality(ArrivedYes(r)) <= Cardinality(ArrivedYes(r)')
      /\ v => Cardinality(ArrivedYes(r)) + 1 <= Cardinality(ArrivedYes(r)')
  BY <1>1, MemberSets
<1>4. /\ polls[m][r] \in Poll
      /\ polls[m][r].voteCnt <= Cardinality(Arrived(r))
      /\ polls[m][r].yesCnt <= Cardinality(ArrivedYes(r))
  BY DEF IInv, TypeOK, CountsHonest, Open
<1>5. polls[m][r].voteCnt \in Nat /\ polls[m][r].yesCnt \in Nat
  BY <1>4 DEF Poll
<1>6. /\ vote(polls[m][r], v) \in Poll
      /\ vote(polls[m][r], v).voteCnt = polls[m][r].voteCnt + 1
      /\ vote(polls[m][r], v).yesCnt = IF v THEN polls[m][r].yesCnt + 1
                                            ELSE polls[m][r].yesCnt
  BY <1>4, PollFields
<1>7. vote(polls[m][r], v).voteCnt <= Cardinality(Arrived(r)')
  BY <1>2, <1>4, <1>5, <1>6
<1>8. vote(polls[m][r], v).yesCnt <= Cardinality(ArrivedYes(r)')
  <2>1. CASE v
    <3>1. vote(polls[m][r], v).yesCnt = polls[m][r].yesCnt + 1
      BY <2>1, <1>6, Zenon
    <3>2. Cardinality(ArrivedYes(r)) + 1 <= Cardinality(ArrivedYes(r)')
      BY <2>1, <1>3, Zenon
    <3> QED
      BY <3>1, <3>2, <1>3, <1>4, <1>5
  <2>2. CASE ~v
    <3>1. vote(polls[m][r], v).yesCnt = polls[m][r].yesCnt
      BY <2>2, <1>6, Zenon
    <3> QED
      BY <3>1, <1>3, <1>4, <1>5
  <2> QED
    BY <2>1, <2>2
<1> QED
  BY <1>6, <1>7, <1>8

\* Counting it keeps the counts honest.
LEMMA UpdateCounts ==
  ASSUME IInv, VotesStay, NEW m \in Member, NEW r \in Rfv, NEW v \in BOOLEAN,
         NEW q \in Member, q \in Arrived(r)' \ Arrived(r), v => q \in ArrivedYes(r)',
         UpdatePoll(m, r, v)
  PROVE  CountsHonest'
<1>1. CASE Open(m, r)
  <2> DEFINE poll == vote(polls[m][r], v)
  <2>1. polls' = [polls EXCEPT ![m][r] = IF Over(poll) THEN None ELSE poll]
    BY <1>1 DEF UpdatePoll
  <2>2. /\ poll.voteCnt <= Cardinality(Arrived(r)')
        /\ poll.yesCnt <= Cardinality(ArrivedYes(r)')
    BY <1>1, VotePaid
  <2> HIDE DEF poll
  <2>3. ASSUME NEW p \in Member, NEW x \in Rfv, Open(p, x)', p # m \/ x # r
        PROVE  /\ polls'[p][x].voteCnt <= Cardinality(Arrived(x)')
               /\ polls'[p][x].yesCnt <= Cardinality(ArrivedYes(x)')
    <3>1. polls'[p][x] = polls[p][x] /\ Open(p, x)
      BY <2>1, <2>3 DEF IInv, TypeOK, Open
    <3> QED
      BY <3>1, CountKept
  <2>4. ASSUME Open(m, r)'
        PROVE  /\ polls'[m][r].voteCnt <= Cardinality(Arrived(r)')
               /\ polls'[m][r].yesCnt <= Cardinality(ArrivedYes(r)')
    <3>1. polls'[m][r] = poll
      BY <2>1, <2>4 DEF IInv, TypeOK, Open
    <3> QED
      BY <2>2, <3>1
  <2> QED
    BY <2>3, <2>4 DEF CountsHonest
<1>2. CASE ~Open(m, r)
  BY <1>2, CountsKept DEF UpdatePoll, Open
<1> QED
  BY <1>1, <1>2

\* Starting a poll: nothing is counted yet.
LEMMA StartCounts ==
  ASSUME IInv, NEW m \in Member, NEW r \in Rfv, NEW k \in Kind, StartPoll(m, r, k),
         VotesStay
  PROVE  CountsHonest'
<1>1. CASE UNCHANGED polls
  BY <1>1, CountsKept DEF Open
<1>2. CASE polls' = [polls EXCEPT ![m][r] = NewPoll(k, Cardinality(peers[m]))]
  <2>1. peers[m] \in SUBSET Member
    BY DEF IInv, TypeOK
  <2>2. Cardinality(peers[m]) \in Nat
    BY <2>1, MemberSets
  <2>3. /\ NewPoll(k, Cardinality(peers[m])).voteCnt = 0
        /\ NewPoll(k, Cardinality(peers[m])).yesCnt = 0
    BY <2>2, NewPollFields
  <2>4. ASSUME NEW p \in Member, NEW x \in Rfv, Open(p, x)'
        PROVE  /\ polls'[p][x].voteCnt <= Cardinality(Arrived(x)')
               /\ polls'[p][x].yesCnt <= Cardinality(ArrivedYes(x)')
    <3>1. /\ Arrived(x) \in SUBSET (Arrived(x)') /\ Arrived(x)' \in SUBSET Member
          /\ ArrivedYes(x) \in SUBSET (ArrivedYes(x)') /\ ArrivedYes(x)' \in SUBSET Member
      BY DEF VotesStay, Arrived, ArrivedYes
    <3>2. /\ Cardinality(Arrived(x)) \in Nat /\ Cardinality(Arrived(x)') \in Nat
          /\ Cardinality(Arrived(x)) <= Cardinality(Arrived(x)')
      BY <3>1, MemberSets
    <3>3. /\ Cardinality(ArrivedYes(x)) \in Nat /\ Cardinality(ArrivedYes(x)') \in Nat
          /\ Cardinality(ArrivedYes(x)) <= Cardinality(ArrivedYes(x)')
      BY <3>1, MemberSets
    <3>4. CASE p = m /\ x = r
      BY <1>2, <2>3, <3>2, <3>3, <3>4 DEF IInv, TypeOK
    <3>5. CASE p # m \/ x # r
      <4>1. polls'[p][x] = polls[p][x] /\ Open(p, x)
        BY <1>2, <2>4, <3>5 DEF IInv, TypeOK, Open
      <4> QED
        BY <4>1, CountKept
    <3> QED
      BY <3>4, <3>5
  <2> QED
    BY <2>4 DEF CountsHonest
<1> QED
  BY <1>1, <1>2 DEF StartPoll

--------------------------------------------------------------------------------
(* Votes are cast once *)

\* sendVote(): the vote is new; it arrives if it is the leader's own.
LEMMA SendVotes ==
  ASSUME IInv, NEW m \in Member, NEW r \in Rfv, NEW v \in BOOLEAN, SendVote(m, r, v)
  PROVE  /\ VotesStay
         /\ notice[m] = m => m \in Arrived(r)' \ Arrived(r) /\ (v => m \in ArrivedYes(r)')
         /\ VotedOnce'
<1> USE GroupPollAssumption
<1>1. ballot[m][r] = None
  BY DEF SendVote, IInv, VotedOnce
<1>2. \A msg \in mail : ~(msg.what = "RTC" /\ msg.from = m /\ msg.rfvId = r)
  BY <1>1 DEF IInv, VotedOnce
<1>3. /\ ballot' = [ballot EXCEPT ![m][r] = IF v THEN "yes" ELSE "no"]
      /\ asked' = [asked EXCEPT ![m] = @ \ {r}]
  BY DEF SendVote
<1>4. /\ ballot'[m][r] = IF v THEN "yes" ELSE "no"
      /\ \A q \in Member, x \in Rfv : q # m \/ x # r => ballot'[q][x] = ballot[q][x]
  BY <1>3 DEF IInv, TypeOK
<1>5. ballot'[m][r] # None /\ (v => ballot'[m][r] = "yes")
  BY <1>4
<1>6. \A msg \in mail' : msg \notin mail =>
        /\ msg.what = "RTC" /\ msg.from = m /\ msg.rfvId = r /\ msg.vote = v
        /\ notice[m] # m
        /\ mail' = mail \cup {msg}
  BY DEF SendVote, UpdatePoll
<1>7. mail \subseteq mail' /\ (notice[m] = m => mail' = mail)
  BY DEF SendVote
<1>8. VotesStay
  BY <1>1, <1>4, <1>5, <1>6 DEF VotesStay, Arrived, ArrivedYes
<1>9. ASSUME notice[m] = m
      PROVE  m \in Arrived(r)' \ Arrived(r) /\ (v => m \in ArrivedYes(r)')
  BY <1>1, <1>2, <1>5, <1>7, <1>9 DEF Arrived, ArrivedYes
<1>10. VotedOnce'
  <2>1. \A q \in Member, x \in Rfv : x \in asked'[q] => ballot'[q][x] = None
    BY <1>3, <1>4 DEF IInv, TypeOK, VotedOnce
  <2>2. ASSUME NEW msg \in mail', msg.what = "RTC"
        PROVE  /\ ballot'[msg.from][msg.rfvId] = IF msg.vote THEN "yes" ELSE "no"
               /\ \A other \in mail' :
                    (/\ other.what = "RTC"
                     /\ other.from = msg.from
                     /\ other.rfvId = msg.rfvId) => other = msg
    <3>1. CASE msg \in mail
      <4>1. msg.from \in Member /\ msg.rfvId \in Rfv
        BY <2>2, <3>1 DEF IInv, TypeOK, Mail
      <4>2. msg.from # m \/ msg.rfvId # r
        BY <1>2, <2>2, <3>1
      <4>3. ballot'[msg.from][msg.rfvId] = IF msg.vote THEN "yes" ELSE "no"
        BY <1>4, <2>2, <3>1, <4>1, <4>2 DEF IInv, VotedOnce
      <4> QED
        BY <1>6, <2>2, <3>1, <4>2, <4>3 DEF IInv, VotedOnce
    <3>2. CASE msg \notin mail
      BY <1>2, <1>4, <1>6, <3>2
    <3> QED
      BY <3>1, <3>2
  <2>3. ASSUME NEW msg \in mail', msg.what # "RTC"
        PROVE  \A q \in Member : ballot'[q][msg.rfvId] = None
                                  /\ msg.rfvId \notin asked'[q]
    <3>1. msg \in mail
      BY <1>6, <2>3
    <3>2. msg.rfvId \in Rfv
      BY <2>3, <3>1 DEF IInv, TypeOK, Mail
    <3>3. \A q \in Member : ballot[q][msg.rfvId] = None /\ msg.rfvId \notin asked[q]
      BY <2>3, <3>1 DEF IInv, VotedOnce
    <3>4. msg.rfvId # r
      BY <3>3 DEF SendVote
    <3> QED
      BY <1>3, <1>4, <3>2, <3>3, <3>4 DEF IInv, TypeOK
  <2> QED
    BY <2>1, <2>2, <2>3 DEF VotedOnce
<1> QED
  BY <1>8, <1>9, <1>10

\* Taking mail away casts no vote, and takes none back.
LEMMA LessMail ==
  ASSUME IInv, mail' \subseteq mail, UNCHANGED <<ballot, asked>>
  PROVE  VotesStay /\ VotedOnce'
<1>1. VotesStay
  BY DEF VotesStay, Arrived, ArrivedYes
<1>2. VotedOnce'
  BY DEF IInv, VotedOnce
<1> QED
  BY <1>1, <1>2

\* A vote that reaches a thread has arrived, and had not before.
LEMMA ReceiveVotes ==
  ASSUME IInv, NEW m \in Member, NEW msg \in mail, ReceiveVote(m, msg)
  PROVE  /\ msg.from \in Member /\ msg.rfvId \in Rfv /\ msg.vote \in BOOLEAN
         /\ VotesStay /\ VotedOnce'
         /\ msg.from \in Arrived(msg.rfvId)' \ Arrived(msg.rfvId)
         /\ msg.vote => msg.from \in ArrivedYes(msg.rfvId)'
<1> USE GroupPollAssumption
<1>1. msg.what = "RTC" /\ mail' = mail \ {msg} /\ UNCHANGED <<ballot, asked>>
  BY DEF ReceiveVote
<1>2. msg.from \in Member /\ msg.rfvId \in Rfv /\ msg.vote \in BOOLEAN
  BY <1>1 DEF IInv, TypeOK, Mail
<1>3. VotesStay /\ VotedOnce'
  BY <1>1, LessMail
<1>4. /\ ballot[msg.from][msg.rfvId] = IF msg.vote THEN "yes" ELSE "no"
      /\ \A other \in mail :
           (/\ other.what = "RTC"
            /\ other.from = msg.from
            /\ other.rfvId = msg.rfvId) => other = msg
  BY <1>1 DEF IInv, VotedOnce
<1>5. ballot'[msg.from][msg.rfvId] # None
      /\ (msg.vote => ballot'[msg.from][msg.rfvId] = "yes")
  BY <1>1, <1>4
<1>6. msg.from \in Arrived(msg.rfvId)' \ Arrived(msg.rfvId)
  BY <1>1, <1>2, <1>4, <1>5 DEF Arrived
<1> QED
  BY <1>2, <1>3, <1>5, <1>6 DEF ArrivedYes

\* Putting an untouched question to the group.
LEMMA StartVotes ==
  ASSUME IInv, NEW m \in Member, NEW r \in Rfv, NEW k \in Kind, StartPoll(m, r, k),
         Untouched(r), mail' \subseteq mail, UNCHANGED ballot,
         Requests(r)' = {}
  PROVE  VotesStay /\ VotedOnce'
<1>1. VotesStay
  BY DEF VotesStay, Arrived, ArrivedYes
<1>2. \A q \in Member : asked'[q] \subseteq asked[q] \cup {r}
  BY DEF StartPoll, IInv, TypeOK
<1>3. \A q \in Member, x \in Rfv : x \in asked'[q] => ballot'[q][x] = None
  BY <1>2 DEF IInv, VotedOnce, Untouched
<1>4. ASSUME NEW msg \in mail', msg.what # "RTC"
      PROVE  \A q \in Member : ballot'[q][msg.rfvId] = None
                                /\ msg.rfvId \notin asked'[q]
  <2>1. msg.what = "RFV"
    BY <1>4 DEF IInv, TypeOK, Mail
  <2>2. msg.rfvId # r
    BY <2>1 DEF Requests
  <2> QED
    BY <1>2, <1>4, <2>2 DEF IInv, VotedOnce
<1>5. VotedOnce'
  BY <1>3, <1>4 DEF IInv, VotedOnce
<1> QED
  BY <1>1, <1>5

--------------------------------------------------------------------------------
(* The invariant *)

\* Each step keeps the invariant.
LEMMA NextSafe == IInv /\ [Next]_vars => IInv'
<1> SUFFICES ASSUME IInv, [Next]_vars PROVE OnePlace' /\ AnnouncedOnce'
                                            /\ CountsHonest' /\ VotedOnce'
  BY NextType DEF IInv
<1> USE DEF voteVars
<1>0. ASSUME UNCHANGED voteVars
      PROVE  OnePlace' /\ AnnouncedOnce' /\ CountsHonest' /\ VotedOnce'
  <2>1. OnePlace' /\ AnnouncedOnce'
    BY <1>0 DEF IInv, OnePlace, AnnouncedOnce, Open, Requests
  <2>2. VotesStay /\ VotedOnce'
    BY <1>0, LessMail
  <2>3. CountsHonest'
    BY <1>0, <2>2, CountsKept DEF Open
  <2> QED
    BY <2>1, <2>2, <2>3
<1>1. CASE ChangeLeader
  BY <1>0, <1>1 DEF ChangeLeader
<1>2. ASSUME NEW m \in Member, CheckAllPolls(m)
      PROVE  OnePlace' /\ AnnouncedOnce' /\ CountsHonest' /\ VotedOnce'
  <2> DEFINE over(r) == Open(m, r) /\ Over(polls[m][r])
  <2>1. polls' = [polls EXCEPT ![m] = [r \in Rfv |-> IF over(r) THEN None ELSE @[r]]]
    BY <1>2 DEF CheckAllPolls
  <2>2. outcome' = [r \in Rfv |-> IF over(r)
                      THEN Append(outcome[r], PollResult(polls[m][r])) ELSE outcome[r]]
    BY <1>2 DEF CheckAllPolls
  <2>3. UNCHANGED <<mail, asked, ballot>>
    BY <1>2 DEF CheckAllPolls
  <2>4. \A r \in Rfv : Requests(r)' = Requests(r)
    BY <2>3 DEF Requests
  <2>5. \A p \in Member, r \in Rfv :
          Open(p, r)' => Open(p, r) /\ polls'[p][r] = polls[p][r]
    BY <2>1 DEF IInv, TypeOK, Open
  <2>6. \A r \in Rfv : over(r) => ~Open(m, r)'
    BY <2>1 DEF IInv, TypeOK, Open
  <2>7. VotesStay /\ VotedOnce'
    BY <2>3, LessMail
  <2>8. CountsHonest'
    BY <2>5, <2>7, CountsKept
  <2>9. ASSUME NEW r \in Rfv, over(r) PROVE outcome'[r] = <<PollResult(polls[m][r])>>
    <3>1. outcome[r] = <<>>
      BY <2>9 DEF IInv, OnePlace
    <3>2. outcome'[r] = Append(outcome[r], PollResult(polls[m][r]))
      BY <2>2, <2>9
    <3> QED
      BY <3>1, <3>2
  <2>10. \A r \in Rfv : ~over(r) => outcome'[r] = outcome[r]
    BY <2>2
  <2>11. AnnouncedOnce'
    <3>1. ASSUME NEW r \in Rfv, over(r) PROVE Len(outcome'[r]) <= 1
      <4>1. outcome'[r] = <<PollResult(polls[m][r])>>
        BY <2>9, <3>1
      <4> QED
        BY <4>1
    <3>2. ASSUME NEW r \in Rfv, ~over(r) PROVE Len(outcome'[r]) <= 1
      BY <2>10, <3>2 DEF IInv, AnnouncedOnce
    <3> QED
      BY <3>1, <3>2 DEF AnnouncedOnce
  <2>12. OnePlace'
    <3> SUFFICES ASSUME NEW r \in Rfv
                 PROVE  /\ \A a, b \in Requests(r)' : a = b
                        /\ \A p, q \in Member : Open(p, r)' /\ Open(q, r)' => p = q
                        /\ \A p \in Member : Open(p, r)' =>
                             Requests(r)' = {} /\ outcome'[r] = <<>>
                        /\ outcome'[r] # <<>> => Requests(r)' = {}
      BY DEF OnePlace
    <3>1. CASE over(r)
      <4>1. Open(m, r)
        BY <3>1
      <4>2. \A p \in Member : ~Open(p, r)'
        BY <2>5, <2>6, <3>1, <4>1 DEF IInv, OnePlace
      <4>3. Requests(r)' = {}
        BY <2>4, <4>1 DEF IInv, OnePlace
      <4> QED
        BY <4>2, <4>3
    <3>2. CASE ~over(r)
      <4>1. outcome'[r] = outcome[r]
        BY <2>10, <3>2
      <4> HIDE DEF over
      <4> QED
        BY <2>4, <2>5, <4>1 DEF IInv, OnePlace
    <3> QED
      BY <3>1, <3>2
  <2> QED
    BY <2>7, <2>8, <2>11, <2>12
<1>3. ASSUME NEW m \in Member, Gone(m)
      PROVE  OnePlace' /\ AnnouncedOnce' /\ CountsHonest' /\ VotedOnce'
  BY <1>0, <1>3 DEF Gone
<1>4. ASSUME NEW m \in Member, NEW p \in Member, ChangePeer(m, p)
      PROVE  OnePlace' /\ AnnouncedOnce' /\ CountsHonest' /\ VotedOnce'
  BY <1>0, <1>4 DEF ChangePeer
<1>5. ASSUME NEW m \in Member, NEW r \in Rfv, Expire(m, r)
      PROVE  OnePlace' /\ AnnouncedOnce' /\ CountsHonest' /\ VotedOnce'
  <2>1. polls' = [polls EXCEPT ![m][r] = late(polls[m][r])]
    BY <1>5 DEF Expire
  <2>2. UNCHANGED <<mail, asked, ballot, outcome>>
    BY <1>5 DEF Expire
  <2>3. polls[m][r] \in Poll /\ Open(m, r)
    BY <1>5 DEF Expire, Open, IInv, TypeOK
  <2>4. /\ late(polls[m][r]).voteCnt = polls[m][r].voteCnt
        /\ late(polls[m][r]).yesCnt = polls[m][r].yesCnt
    BY <2>3, LateFields
  <2>5. \A p \in Member, x \in Rfv :
          Open(p, x)' => /\ Open(p, x)
                         /\ polls'[p][x].voteCnt = polls[p][x].voteCnt
                         /\ polls'[p][x].yesCnt = polls[p][x].yesCnt
    BY <2>1, <2>3, <2>4 DEF IInv, TypeOK, Open
  <2>6. OnePlace' /\ AnnouncedOnce'
    BY <2>2, <2>5 DEF IInv, OnePlace, AnnouncedOnce, Requests
  <2>7. VotesStay /\ VotedOnce'
    BY <2>2, LessMail
  <2>8. CountsHonest'
    BY <2>5, <2>7, CountsKept
  <2> QED
    BY <2>6, <2>7, <2>8
<1>6. ASSUME NEW m \in Member, NEW r \in Rfv, NEW k \in Kind, RequestVote(m, r, k)
      PROVE  OnePlace' /\ AnnouncedOnce' /\ CountsHonest' /\ VotedOnce'
  <2>1. Untouched(r) /\ Requests(r) = {}
    BY <1>6 DEF RequestVote, Fresh, Untouched, Requests
  <2>2. UNCHANGED ballot
    BY <1>6 DEF RequestVote
  <2>3. CASE notice[m] = m
    <3>1. StartPoll(m, r, k) /\ mail' = mail
      BY <1>6, <2>3 DEF RequestVote
    <3>2. Requests(r)' = {}
      BY <2>1, <3>1 DEF Requests
    <3>3. OnePlace' /\ AnnouncedOnce'
      BY <2>1, <3>1, <3>2, StartPlace
    <3>4. VotesStay /\ VotedOnce'
      BY <2>1, <2>2, <3>1, <3>2, StartVotes
    <3>5. CountsHonest'
      BY <3>1, <3>4, StartCounts
    <3> QED
      BY <3>3, <3>4, <3>5
  <2>4. CASE notice[m] # m
    <3> DEFINE msg == [what |-> "RFV", from |-> m, to |-> notice[m], rfvId |-> r,
                       kind |-> k]
    <3>1. mail' = mail \cup {msg} /\ UNCHANGED <<polls, asked, outcome>>
      BY <1>6, <2>4 DEF RequestVote
    <3>2. msg.what = "RFV" /\ msg.rfvId = r
      OBVIOUS
    <3> HIDE DEF msg
    <3>3. Requests(r)' = {msg} /\ \A x \in Rfv \ {r} : Requests(x)' = Requests(x)
      BY <2>1, <3>1, <3>2 DEF Requests
    <3>4. \A p \in Member, x \in Rfv : Open(p, x)' = Open(p, x)
      BY <3>1 DEF Open
    <3>5. OnePlace' /\ AnnouncedOnce'
      BY <2>1, <3>1, <3>3, <3>4 DEF IInv, OnePlace, AnnouncedOnce, Untouched
    <3>6. VotesStay
      BY <2>2, <3>1, <3>2 DEF VotesStay, Arrived, ArrivedYes
    <3>7. VotedOnce'
      <4>1. \A q \in Member, x \in Rfv : x \in asked'[q] => ballot'[q][x] = None
        BY <2>2, <3>1 DEF IInv, VotedOnce
      <4>2. ASSUME NEW any \in mail', any.what = "RTC"
            PROVE  /\ ballot'[any.from][any.rfvId] = IF any.vote THEN "yes" ELSE "no"
                   /\ \A other \in mail' :
                        (/\ other.what = "RTC"
                         /\ other.from = any.from
                         /\ other.rfvId = any.rfvId) => other = any
        <5>1. any \in mail
          BY <3>1, <3>2, <4>2
        <5> QED
          BY <2>2, <3>1, <3>2, <4>2, <5>1 DEF IInv, VotedOnce
      <4>3. ASSUME NEW any \in mail', any.what # "RTC"
            PROVE  \A q \in Member : ballot'[q][any.rfvId] = None
                                      /\ any.rfvId \notin asked'[q]
        <5>1. CASE any \in mail
          BY <2>2, <3>1, <4>3, <5>1 DEF IInv, VotedOnce
        <5>2. CASE any = msg
          BY <2>1, <2>2, <3>1, <3>2, <5>2 DEF Untouched
        <5> QED
          BY <3>1, <5>1, <5>2
      <4> QED
        BY <4>1, <4>2, <4>3 DEF VotedOnce
    <3>8. CountsHonest'
      BY <3>1, <3>4, <3>6, CountsKept
    <3> QED
      BY <3>5, <3>7, <3>8
  <2> QED
    BY <2>3, <2>4
<1>7. ASSUME NEW m \in Member, NEW msg \in mail, ReceiveRequest(m, msg)
      PROVE  OnePlace' /\ AnnouncedOnce' /\ CountsHonest' /\ VotedOnce'
  <2> DEFINE r == msg.rfvId
  <2>1. /\ msg.what = "RFV" /\ StartPoll(m, r, msg.kind)
        /\ mail' = mail \ {msg} /\ UNCHANGED ballot
    BY <1>7 DEF ReceiveRequest
  <2>2. r \in Rfv /\ Untouched(r)
    BY <2>1, RequestUntouched
  <2>3. msg.kind \in Kind
    BY <2>1 DEF IInv, TypeOK, Mail
  <2>4. Requests(r)' = {}
    <3>1. msg \in Requests(r) /\ \A a, b \in Requests(r) : a = b
      BY <2>1, <2>2 DEF IInv, OnePlace, Requests
    <3>2. Requests(r)' = Requests(r) \ {msg}
      BY <2>1 DEF Requests
    <3> QED
      BY <3>1, <3>2
  <2> HIDE DEF r
  <2>5. OnePlace' /\ AnnouncedOnce'
    BY <2>1, <2>2, <2>3, <2>4, StartPlace
  <2>6. VotesStay /\ VotedOnce'
    BY <2>1, <2>2, <2>3, <2>4, StartVotes
  <2>7. CountsHonest'
    BY <2>1, <2>2, <2>3, <2>6, StartCounts
  <2> QED
    BY <2>5, <2>6, <2>7
<1>8. ASSUME NEW m \in Member, NEW r \in Rfv, NEW v \in BOOLEAN, SendVote(m, r, v)
      PROVE  OnePlace' /\ AnnouncedOnce' /\ CountsHonest' /\ VotedOnce'
  <2>1. /\ VotesStay /\ VotedOnce'
        /\ notice[m] = m => m \in Arrived(r)' \ Arrived(r) /\ (v => m \in ArrivedYes(r)')
    BY <1>8, SendVotes
  <2>2. \A x \in Rfv : Requests(x)' = Requests(x)
    BY <1>8 DEF SendVote, Requests
  <2>3. CASE notice[m] = m
    <3>1. UpdatePoll(m, r, v)
      BY <1>8, <2>3 DEF SendVote
    <3>2. OnePlace' /\ AnnouncedOnce'
      BY <2>2, <3>1, UpdatePlace
    <3>3. CountsHonest'
      BY <2>1, <2>3, <3>1, UpdateCounts
    <3> QED
      BY <2>1, <3>2, <3>3
  <2>4. CASE notice[m] # m
    <3>1. UNCHANGED <<polls, outcome>>
      BY <1>8, <2>4 DEF SendVote
    <3>2. OnePlace' /\ AnnouncedOnce'
      BY <2>2, <3>1 DEF IInv, OnePlace, AnnouncedOnce, Open
    <3>3. CountsHonest'
      BY <2>1, <3>1, CountsKept DEF Open
    <3> QED
      BY <2>1, <3>2, <3>3
  <2> QED
    BY <2>3, <2>4
<1>9. ASSUME NEW m \in Member, NEW msg \in mail, ReceiveVote(m, msg)
      PROVE  OnePlace' /\ AnnouncedOnce' /\ CountsHonest' /\ VotedOnce'
  <2>1. /\ msg.from \in Member /\ msg.rfvId \in Rfv /\ msg.vote \in BOOLEAN
        /\ VotesStay /\ VotedOnce'
        /\ msg.from \in Arrived(msg.rfvId)' \ Arrived(msg.rfvId)
        /\ msg.vote => msg.from \in ArrivedYes(msg.rfvId)'
    BY <1>9, ReceiveVotes
  <2>2. /\ msg.what = "RTC" /\ mail' = mail \ {msg}
        /\ UpdatePoll(m, msg.rfvId, msg.vote)
    BY <1>9 DEF ReceiveVote
  <2>3. \A x \in Rfv : Requests(x)' = Requests(x)
    BY <2>2 DEF Requests
  <2>4. OnePlace' /\ AnnouncedOnce'
    BY <2>1, <2>2, <2>3, UpdatePlace
  <2>5. CountsHonest'
    BY <2>1, <2>2, UpdateCounts
  <2> QED
    BY <2>1, <2>4, <2>5
<1>10. ASSUME NEW msg \in mail, LoseMail(msg)
       PROVE  OnePlace' /\ AnnouncedOnce' /\ CountsHonest' /\ VotedOnce'
  <2>1. mail' = mail \ {msg} /\ UNCHANGED <<polls, asked, ballot, outcome>>
    BY <1>10 DEF LoseMail
  <2>2. \A x \in Rfv : Requests(x)' \subseteq Requests(x)
    BY <2>1 DEF Requests
  <2>3. OnePlace' /\ AnnouncedOnce'
    BY <2>1, <2>2 DEF IInv, OnePlace, AnnouncedOnce, Open
  <2>4. VotesStay /\ VotedOnce'
    BY <2>1, LessMail
  <2>5. CountsHonest'
    BY <2>1, <2>4, CountsKept DEF Open
  <2> QED
    BY <2>3, <2>4, <2>5
<1>11. CASE UNCHANGED vars
  BY <1>0, <1>11 DEF vars
<1> QED
  BY <1>1, <1>2, <1>3, <1>4, <1>5, <1>6, <1>7, <1>8, <1>9, <1>10, <1>11 DEF Next

\* A question has one place, a vote is counted once (startPoll, updatePoll,
\* checkAllPolls, sendVote, for any number of members, polls and leaders).
THEOREM PollSafety == Spec => []IInv
<1>1. Init => IInv
  BY InitInv
<1>2. IInv /\ [Next]_vars => IInv'
  BY NextSafe
<1> QED
  BY <1>1, <1>2, PTL DEF Spec

\* The group never hears two results of one poll (announceConsensus).
THEOREM NeverAnnouncedTwice == Spec => []AnnouncedOnce
<1>1. IInv => AnnouncedOnce
  BY DEF IInv
<1> QED
  BY <1>1, PollSafety, PTL

--------------------------------------------------------------------------------
(* Results are what the group voted *)

\* A closed poll, as counted, and how it ended.
Counted(poll, m, r) ==
  /\ poll \in Poll
  /\ poll.kind = polls[m][r].kind /\ poll.numPeers = polls[m][r].numPeers
  /\ poll.voteCnt <= Cardinality(Arrived(r)')
  /\ poll.yesCnt <= Cardinality(ArrivedYes(r)')

\* updatePoll() closes a poll on the count that the vote makes.
LEMMA UpdateCloses ==
  ASSUME IInv, VotesStay, NEW p \in Member, NEW x \in Rfv, NEW v \in BOOLEAN,
         NEW q \in Member, q \in Arrived(x)' \ Arrived(x), v => q \in ArrivedYes(x)',
         UpdatePoll(p, x, v),
         NEW m \in Member, NEW r \in Rfv, NEW ending, Closes(m, r, ending)
  PROVE  \E poll : Counted(poll, m, r) /\ Over(poll) /\ PollResult(poll) = ending
<1>1. Open(m, r) /\ polls'[m][r] = None /\ outcome[r] = <<>>
  BY DEF Closes, IInv, OnePlace
<1>2. outcome'[r] = <<ending>>
  BY <1>1 DEF Closes
<1>3. Open(p, x)
  BY <1>1 DEF UpdatePoll, Open
<1> DEFINE poll == vote(polls[p][x], v)
<1>4. /\ polls' = [polls EXCEPT ![p][x] = IF Over(poll) THEN None ELSE poll]
      /\ outcome' = [outcome EXCEPT ![x] =
                       IF Over(poll) THEN Append(@, PollResult(poll)) ELSE @]
  BY <1>3 DEF UpdatePoll
<1>5. /\ poll \in Poll
      /\ poll.voteCnt <= Cardinality(Arrived(x)')
      /\ poll.yesCnt <= Cardinality(ArrivedYes(x)')
  BY <1>3, VotePaid
<1>6. polls[p][x] \in Poll
  BY <1>3 DEF IInv, TypeOK, Open
<1>7. poll.kind = polls[p][x].kind /\ poll.numPeers = polls[p][x].numPeers
  BY <1>6, PollFields
<1> HIDE DEF poll
<1>8. p = m /\ x = r
  BY <1>1, <1>4 DEF IInv, TypeOK, Open
<1>9. Over(poll)
  <2> SUFFICES ASSUME ~Over(poll)
               PROVE  FALSE
    OBVIOUS
  <2>1. outcome'[r] = outcome[r]
    BY <1>4, <1>8 DEF IInv, TypeOK
  <2>2. Len(outcome[r]) = 0 /\ Len(outcome'[r]) = 1
    BY <1>1, <1>2
  <2> QED
    BY <2>1, <2>2
<1>10. outcome'[r] = <<PollResult(poll)>>
  BY <1>1, <1>4, <1>8, <1>9 DEF IInv, TypeOK
<1>11. PollResult(poll) = ending
  BY <1>2, <1>10
<1> QED
  BY <1>5, <1>7, <1>8, <1>9, <1>11 DEF Counted

\* A poll closes on what was counted: by a vote, or by checkAllPolls.
LEMMA Closing ==
  ASSUME IInv, [Next]_vars, NEW m \in Member, NEW r \in Rfv, NEW ending,
         Closes(m, r, ending)
  PROVE  \E poll : Counted(poll, m, r) /\ Over(poll) /\ PollResult(poll) = ending
<1> DEFINE Goal == \E poll : Counted(poll, m, r) /\ Over(poll) /\ PollResult(poll) = ending
<1>1. Open(m, r) /\ polls'[m][r] = None /\ outcome[r] = <<>>
  BY DEF Closes, IInv, OnePlace
<1>2. outcome'[r] = <<ending>> /\ outcome'[r] # outcome[r]
  <2>1. outcome'[r] = <<ending>>
    BY <1>1 DEF Closes
  <2> QED
    BY <1>1, <2>1
<1>3. polls'[m][r] # polls[m][r]
  BY <1>1 DEF Open
<1>4. ~UNCHANGED polls /\ ~UNCHANGED outcome
  BY <1>2, <1>3
<1> HIDE DEF Goal
<1>5. ASSUME NEW p \in Member, CheckAllPolls(p) PROVE Goal
  <2> DEFINE over(x) == Open(p, x) /\ Over(polls[p][x])
  <2>1. polls' = [polls EXCEPT ![p] = [x \in Rfv |-> IF over(x) THEN None ELSE @[x]]]
    BY <1>5 DEF CheckAllPolls
  <2>2. outcome' = [x \in Rfv |-> IF over(x)
                      THEN Append(outcome[x], PollResult(polls[p][x])) ELSE outcome[x]]
    BY <1>5 DEF CheckAllPolls
  <2>3. p = m
    BY <1>3, <2>1 DEF IInv, TypeOK
  <2>4. over(r)
    BY <1>2, <2>2
  <2>5. outcome'[r] = Append(outcome[r], PollResult(polls[p][r]))
    BY <2>2, <2>4
  <2>6. PollResult(polls[m][r]) = ending
    BY <1>1, <1>2, <2>3, <2>5
  <2>7. VotesStay
    BY <1>5, LessMail DEF CheckAllPolls
  <2>8. /\ polls[m][r].voteCnt <= Cardinality(Arrived(r)')
        /\ polls[m][r].yesCnt <= Cardinality(ArrivedYes(r)')
    BY <1>1, <2>7, CountKept
  <2>9. polls[m][r] \in Poll
    BY <1>1 DEF IInv, TypeOK, Open
  <2>10. Counted(polls[m][r], m, r)
    BY <2>8, <2>9 DEF Counted
  <2> QED
    BY <2>3, <2>4, <2>6, <2>10 DEF Goal
<1>6. ASSUME NEW p \in Member, NEW x \in Rfv, NEW v \in BOOLEAN, SendVote(p, x, v)
      PROVE  Goal
  <2>1. notice[p] = p
    BY <1>4, <1>6 DEF SendVote
  <2>2. UpdatePoll(p, x, v)
    BY <1>6, <2>1 DEF SendVote
  <2>3. VotesStay /\ p \in Arrived(x)' \ Arrived(x) /\ (v => p \in ArrivedYes(x)')
    BY <1>6, <2>1, SendVotes
  <2> QED
    BY <2>2, <2>3, UpdateCloses DEF Goal
<1>7. ASSUME NEW p \in Member, NEW msg \in mail, ReceiveVote(p, msg) PROVE Goal
  <2>1. /\ msg.from \in Member /\ msg.rfvId \in Rfv /\ msg.vote \in BOOLEAN
        /\ VotesStay
        /\ msg.from \in Arrived(msg.rfvId)' \ Arrived(msg.rfvId)
        /\ msg.vote => msg.from \in ArrivedYes(msg.rfvId)'
    BY <1>7, ReceiveVotes
  <2>2. UpdatePoll(p, msg.rfvId, msg.vote)
    BY <1>7 DEF ReceiveVote
  <2> QED
    BY <2>1, <2>2, UpdateCloses DEF Goal
<1>8. ASSUME NEW p \in Member, NEW x \in Rfv, NEW k, StartPoll(p, x, k) PROVE FALSE
  BY <1>4, <1>8 DEF StartPoll
<1> QED
  <2> USE DEF voteVars, Goal
  <2>1. CASE UNCHANGED vars
    BY <1>4, <2>1 DEF vars
  <2>2. CASE ChangeLeader
    BY <1>4, <2>2 DEF ChangeLeader
  <2>3. ASSUME NEW p \in Member, Gone(p) PROVE FALSE
    BY <1>4, <2>3 DEF Gone
  <2>4. ASSUME NEW p \in Member, NEW q \in Member, ChangePeer(p, q) PROVE FALSE
    BY <1>4, <2>4 DEF ChangePeer
  <2>5. ASSUME NEW p \in Member, NEW x \in Rfv, Expire(p, x) PROVE FALSE
    BY <1>4, <2>5 DEF Expire
  <2>6. ASSUME NEW p \in Member, NEW x \in Rfv, NEW k \in Kind, RequestVote(p, x, k)
        PROVE  FALSE
    BY <1>4, <1>8, <2>6 DEF RequestVote
  <2>7. ASSUME NEW msg \in mail, LoseMail(msg) PROVE FALSE
    BY <1>4, <2>7 DEF LoseMail
  <2>8. ASSUME NEW p \in Member, NEW msg \in mail, ReceiveRequest(p, msg) PROVE FALSE
    <3>1. msg.rfvId \in Rfv
      BY <2>8 DEF ReceiveRequest, IInv, TypeOK, Mail
    <3> QED
      BY <1>8, <2>8, <3>1 DEF ReceiveRequest
  <2> HIDE DEF Goal
  <2> QED
    BY <1>5, <1>6, <1>7, <2>1, <2>2, <2>3, <2>4, <2>5, <2>6, <2>7, <2>8 DEF Next, Goal

\* What the end of a poll says of the counts (checkPoll, Poll.result).
LEMMA PollResultCounts ==
  ASSUME NEW poll \in Poll, Over(poll)
  PROVE  /\ PollResult(poll) = "yes" =>
              IF poll.kind = "majority" THEN 2 * poll.yesCnt > poll.numPeers
                                        ELSE poll.yesCnt = poll.numPeers
         /\ PollResult(poll) = "no" => poll.voteCnt = poll.numPeers
<1>1. poll.numPeers \in Nat /\ poll.yesCnt \in Nat
  BY DEF Poll
<1>2. PollResult(poll) # "timeout" => ~poll.expired
  BY DEF PollResult
<1>3. ASSUME PollResult(poll) = "yes"
      PROVE  IF poll.kind = "majority" THEN 2 * poll.yesCnt > poll.numPeers
                                       ELSE poll.yesCnt = poll.numPeers
  <2>1. result(poll)
    BY <1>2, <1>3 DEF PollResult
  <2>2. CASE poll.kind = "majority"
    <3>1. poll.yesCnt >= poll.numPeers \div 2 + 1
      BY <2>1, <2>2 DEF result
    <3>2. 2 * poll.yesCnt > poll.numPeers
      BY <1>1, <3>1
    <3> QED
      BY <2>2, <3>2
  <2>3. CASE poll.kind # "majority"
    BY <2>1, <2>3 DEF result
  <2> QED
    BY <2>2, <2>3
<1>4. PollResult(poll) = "no" => poll.voteCnt = poll.numPeers
  BY <1>2 DEF Over, allVoted
<1> QED
  BY <1>3, <1>4

\* The result that a member announces is what the members voted, whoever led when
\* the votes were cast (checkPoll, updatePoll, checkAllPolls).
THEOREM ResultsCarried == Spec => ResultCarried
<1>1. IInv /\ [Next]_vars => \A m \in Member, r \in Rfv : Carried(m, r)
  <2> SUFFICES ASSUME IInv, [Next]_vars, NEW m \in Member, NEW r \in Rfv
               PROVE  Carried(m, r)
    OBVIOUS
  <2> DEFINE Yes == {q \in Member : ballot'[q][r] \in {"yes"}}
             All == {q \in Member : ballot'[q][r] \in {"yes", "no"}}
  <2>1. Voted(r, {"yes"}) = Cardinality(Yes) /\ Voted(r, {"yes", "no"}) = Cardinality(All)
    BY DEF Voted
  <2>2. TypeOK'
    BY NextType DEF IInv
  <2>3. Arrived(r)' \in SUBSET All /\ All \in SUBSET Member
    BY <2>2 DEF TypeOK, Arrived
  <2>4. ArrivedYes(r)' \in SUBSET Yes /\ Yes \in SUBSET Member
    BY DEF ArrivedYes, Arrived
  <2> HIDE DEF Yes, All
  <2>5. /\ Cardinality(Arrived(r)') \in Nat /\ Cardinality(All) \in Nat
        /\ Cardinality(Arrived(r)') <= Cardinality(All)
    BY <2>3, MemberSets
  <2>6. /\ Cardinality(ArrivedYes(r)') \in Nat /\ Cardinality(Yes) \in Nat
        /\ Cardinality(ArrivedYes(r)') <= Cardinality(Yes)
    BY <2>4, MemberSets
  <2>7. ASSUME Closes(m, r, "yes")
        PROVE  IF polls[m][r].kind = "majority"
                 THEN 2 * Voted(r, {"yes"}) > polls[m][r].numPeers
                 ELSE Voted(r, {"yes"}) >= polls[m][r].numPeers
    <3>1. PICK poll : Counted(poll, m, r) /\ Over(poll) /\ PollResult(poll) = "yes"
      BY <2>7, Closing
    <3>2. /\ poll \in Poll
          /\ poll.kind = polls[m][r].kind /\ poll.numPeers = polls[m][r].numPeers
          /\ poll.yesCnt <= Cardinality(ArrivedYes(r)')
      BY <3>1 DEF Counted
    <3>3. IF poll.kind = "majority" THEN 2 * poll.yesCnt > poll.numPeers
                                    ELSE poll.yesCnt = poll.numPeers
      BY <3>1, <3>2, PollResultCounts
    <3>4. poll.numPeers \in Nat /\ poll.yesCnt \in Nat
      BY <3>2 DEF Poll
    <3>5. poll.yesCnt <= Voted(r, {"yes"}) /\ Voted(r, {"yes"}) \in Nat
      BY <2>1, <2>6, <3>2, <3>4
    <3>6. CASE poll.kind = "majority"
      <4>1. 2 * poll.yesCnt > poll.numPeers
        BY <3>3, <3>6
      <4>2. 2 * Voted(r, {"yes"}) > poll.numPeers
        BY <3>4, <3>5, <4>1
      <4> QED
        BY <3>2, <3>6, <4>2
    <3>7. CASE poll.kind # "majority"
      <4>1. poll.yesCnt = poll.numPeers
        BY <3>3, <3>7
      <4>2. Voted(r, {"yes"}) >= poll.numPeers
        BY <3>4, <3>5, <4>1
      <4> QED
        BY <3>2, <3>7, <4>2
    <3> QED
      BY <3>6, <3>7
  <2>8. ASSUME Closes(m, r, "no")
        PROVE  Voted(r, {"yes", "no"}) >= polls[m][r].numPeers
    <3>1. PICK poll : Counted(poll, m, r) /\ Over(poll) /\ PollResult(poll) = "no"
      BY <2>8, Closing
    <3>2. /\ poll \in Poll /\ poll.numPeers = polls[m][r].numPeers
          /\ poll.voteCnt <= Cardinality(Arrived(r)')
      BY <3>1 DEF Counted
    <3>3. poll.voteCnt = poll.numPeers
      BY <3>1, <3>2, PollResultCounts
    <3>4. poll.numPeers \in Nat /\ poll.voteCnt \in Nat
      BY <3>2 DEF Poll
    <3> QED
      BY <2>1, <2>5, <3>2, <3>3, <3>4
  <2> QED
    BY <2>7, <2>8 DEF Carried
<1> QED
  BY <1>1, PollSafety, PTL DEF Spec, ResultCarried

================================================================================
