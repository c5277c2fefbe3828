---------------------------- MODULE GroupMailProofs ----------------------------
(***************************************************************************)
(* Proofs about GroupMail, for any members and bounds: every call of       *)
(* send_port() gets one reply, a call that waits alone gets its own, and   *)
(* an answer comes in at the component of a member with the identity under *)
(* which it was asked: of the one that had asked, unless two have the same *)
(* identity.  Nothing is assumed of the identities.                        *)
(***************************************************************************)
EXTENDS GroupMail, FiniteSetTheorems, TLAPS

--------------------------------------------------------------------------------
(* How many elements of a kind wait in a queue *)

\* Where s has an element of K, and how often.
Positions(s, K) == {n \in DOMAIN s : s[n] \in K}
Count(s, K) == Cardinality(Positions(s, K))

\* Each element of a queue is replaced by another one.
LEMMA ReplaceEach ==
  ASSUME NEW T, NEW U, NEW s \in Seq(T), NEW r \in [DOMAIN s -> U]
  PROVE  r \in Seq(U) /\ Len(r) = Len(s)
<1>1. DOMAIN s = 1 .. Len(s) /\ Len(s) \in Nat
  OBVIOUS
<1> QED
  BY <1>1

\* How often an element of a kind is in a queue.
LEMMA CountType ==
  ASSUME NEW T, NEW s \in Seq(T), NEW K
  PROVE  /\ IsFiniteSet(Positions(s, K))
         /\ Count(s, K) \in Nat
         /\ s = <<>> => Count(s, K) = 0
<1>1. Positions(s, K) \subseteq 1 .. Len(s)
  BY DEF Positions
<1>2. IsFiniteSet(1 .. Len(s))
  BY FS_Interval
<1>3. IsFiniteSet(Positions(s, K))
  BY <1>1, <1>2, FS_Subset
<1>4. s = <<>> => Positions(s, K) = {}
  BY DEF Positions
<1> QED
  BY <1>3, <1>4, FS_CardinalityType, FS_EmptySet DEF Count

\* None of the kind is there.
LEMMA CountZero ==
  ASSUME NEW T, NEW s \in Seq(T), NEW K, Count(s, K) = 0
  PROVE  \A n \in DOMAIN s : s[n] \notin K
<1>1. Positions(s, K) = {}
  BY CountType, FS_EmptySet DEF Count
<1> QED
  BY <1>1 DEF Positions

\* One or two elements at the end.
LEMMA ConcatIsAppend ==
  ASSUME NEW T, NEW s \in Seq(T), NEW x \in T, NEW y \in T
  PROVE  /\ s \o <<x>> = Append(s, x)
         /\ s \o <<x, y>> = Append(Append(s, x), y)
OBVIOUS

\* An element at the end.
LEMMA CountAppend ==
  ASSUME NEW T, NEW s \in Seq(T), NEW x \in T, NEW K
  PROVE  Count(Append(s, x), K) = Count(s, K) + (IF x \in K THEN 1 ELSE 0)
<1> DEFINE n == Len(s) + 1
<1>1. IsFiniteSet(Positions(s, K)) /\ Count(s, K) \in Nat
  BY CountType
<1>2. n \notin Positions(s, K)
  BY DEF Positions
<1>3. DOMAIN Append(s, x) = DOMAIN s \cup {n} /\ Append(s, x)[n] = x
  OBVIOUS
<1>4. \A i \in DOMAIN s : Append(s, x)[i] = s[i]
  OBVIOUS
<1>5. CASE x \in K
  <2>1. Positions(Append(s, x), K) = Positions(s, K) \cup {n}
    BY <1>3, <1>4, <1>5 DEF Positions
  <2> QED
    BY <1>1, <1>2, <1>5, <2>1, FS_AddElement DEF Count
<1>6. CASE x \notin K
  <2>1. Positions(Append(s, x), K) = Positions(s, K)
    BY <1>3, <1>4, <1>6 DEF Positions
  <2> QED
    BY <1>1, <1>6, <2>1 DEF Count
<1> QED
  BY <1>5, <1>6

\* The first element is taken.
LEMMA CountTail ==
  ASSUME NEW T, NEW s \in Seq(T), s # <<>>, NEW K
  PROVE  Count(s, K) = Count(Tail(s), K) + (IF Head(s) \in K THEN 1 ELSE 0)
<1> DEFINE P == Positions(s, K) \ {1}
           f == [i \in Positions(Tail(s), K) |-> i + 1]
<1>1. Tail(s) \in Seq(T) /\ Head(s) = s[1] /\ 1 \in DOMAIN s
  OBVIOUS
<1>2. \A i \in DOMAIN Tail(s) : Tail(s)[i] = s[i + 1] /\ i + 1 \in DOMAIN s
  OBVIOUS
<1>3. \A i \in DOMAIN s \ {1} : i - 1 \in DOMAIN Tail(s) /\ Tail(s)[i - 1] = s[i]
  OBVIOUS
<1>4. f \in Bijection(Positions(Tail(s), K), P)
  <2>1. f \in Injection(Positions(Tail(s), K), P)
    BY <1>1, <1>2 DEF Positions, Injection, IsInjective
  <2>2. \A j \in P : \E i \in Positions(Tail(s), K) : f[i] = j
    <3> SUFFICES ASSUME NEW j \in P PROVE \E i \in Positions(Tail(s), K) : f[i] = j
      OBVIOUS
    <3>1. j \in DOMAIN s \ {1} /\ j \in Int
      BY DEF Positions
    <3>2. j - 1 \in Positions(Tail(s), K)
      BY <1>3, <3>1 DEF Positions
    <3>3. f[j - 1] = j
      BY <3>1, <3>2
    <3> QED
      BY <3>2, <3>3
  <2> QED
    BY <2>1, <2>2 DEF Bijection, Surjection, Injection
<1>5. IsFiniteSet(Positions(Tail(s), K)) /\ Count(Tail(s), K) \in Nat
  BY <1>1, CountType
<1>6. IsFiniteSet(P) /\ Cardinality(P) = Count(Tail(s), K)
  BY <1>4, <1>5, FS_Bijection DEF Count, ExistsBijection
<1>7. CASE Head(s) \in K
  <2>1. Positions(s, K) = P \cup {1}
    BY <1>1, <1>7 DEF Positions
  <2> QED
    BY <1>5, <1>6, <1>7, <2>1, FS_AddElement DEF Count
<1>8. CASE Head(s) \notin K
  <2>1. Positions(s, K) = P
    BY <1>1, <1>8 DEF Positions
  <2>2. Count(s, K) = Count(Tail(s), K)
    BY <1>6, <2>1 DEF Count
  <2> QED
    BY <1>5, <1>8, <2>2
<1> QED
  BY <1>7, <1>8

--------------------------------------------------------------------------------
(* The invariant *)

ReplyFrame == {f \in Frame : IsReply(f)}

\* The invariant, member by member.
Framed(m, f) ==
  /\ f.kind \in {"MTL", "MFL"} => f.who \in Asker
  /\ f.kind = "MFL" => f.who[2] = name[m]
Named(f) == f.kind = "MFL" => f.to \in Asker
Paired(m) == Len(calls[m]) = Len(toThread[m]) + Count(toComp[m], ReplyFrame)
Lone(m) ==
  \A n \in DOMAIN calls[m] : calls[m][n].alone =>
    /\ Len(calls[m]) = 1
    /\ \A i \in DOMAIN toThread[m] : toThread[m][i].id = calls[m][n].id
    /\ \A i \in DOMAIN toComp[m] :
         IsReply(toComp[m][i]) => toComp[m][i].id = calls[m][n].id
Good(m) ==
  /\ Paired(m)
  /\ \A i \in DOMAIN toComp[m] : Framed(m, toComp[m][i])
  /\ \A i \in DOMAIN toThread[m] : Named(toThread[m][i])
  /\ Lone(m)
GoodAll == TypeOK /\ AnswersAddressed /\ Away /\ \A m \in Member : Good(m)

--------------------------------------------------------------------------------
(* What the operators of the model do *)

\* The replies that wait are counted as the frames of a kind.
LEMMA GoodIsIInv == GoodAll <=> IInv
<1>1. ASSUME TypeOK, NEW m \in Member
      PROVE  Replies(m) = Positions(toComp[m], ReplyFrame)
  <2>1. \A n \in DOMAIN toComp[m] : toComp[m][n] \in Frame
    BY <1>1 DEF TypeOK
  <2> QED
    BY <2>1 DEF Replies, Positions, ReplyFrame
<1>2. ASSUME TypeOK
      PROVE  SendsPaired <=> \A m \in Member : Paired(m)
  BY <1>1, <1>2 DEF SendsPaired, Paired, Count
<1> QED
  BY <1>2 DEF GoodAll, Good, Framed, Named, Lone, IInv, SendsPaired, AnswerReturns, AskerNamed,
              AnswersAddressed, LoneCall, Replies

\* What does not change for a member stays good.
LEMMA Elsewhere ==
  ASSUME GoodAll, NEW p \in Member,
         calls'[p] = calls[p], toThread'[p] = toThread[p], toComp'[p] = toComp[p],
         name'[p] = name[p]
  PROVE  Good(p)'
BY DEF GoodAll, Good, Paired, Lone, Framed, Named

\* Only a member that has joined gets frames.
LEMMA StaysAway ==
  ASSUME GoodAll, NEW m \in joined, joined' = joined,
         \A p \in Member \ {m} : toComp'[p] = toComp[p]
  PROVE  Away'
BY DEF GoodAll, Away

\* Mail that is under way, and that which is sent now.
LEMMA StaysAddressed ==
  ASSUME GoodAll, joined \subseteq joined', UNCHANGED name,
         \A e \in mail' \ mail : /\ e.kind \in {"MTL", "MFL"} => e.re \in Asker
                                 /\ e.kind = "MFL" => e.re[2] = name[e.to] /\ e.to \in joined
  PROVE  AnswersAddressed'
<1>1. ASSUME NEW e \in mail'
      PROVE  /\ e.kind \in {"MTL", "MFL"} => e.re \in Asker
             /\ e.kind = "MFL" => e.re[2] = name[e.to] /\ e.to \in joined
  <2>1. CASE e \in mail
    BY <2>1 DEF GoodAll, AnswersAddressed
  <2>2. CASE e \notin mail
    BY <2>2
  <2> QED
    BY <2>1, <2>2
<1> QED
  BY <1>1 DEF AnswersAddressed, Asker

\* send(), sendToLeader() and sendToMember() give send_port() a frame it can take.
LEMMA SendableType ==
  ASSUME TypeOK, NEW m \in Member, NEW A \in SUBSET Asker, NEW f \in Sendable(m, A)
  PROVE  /\ f \in [kind : {"MSG", "MTL", "MFL"}, to : AskerOrNone]
         /\ f.kind = "MSG" => spent.group < MaxGroup
         /\ Named(f)
BY DEF Sendable, AskerOrNone, Named

\* A new call: one more waits, and one more request is before the thread.
LEMMA SendPort ==
  ASSUME TypeOK, NEW m \in Member,
         NEW f \in [kind : {"MSG", "MTL", "MFL"}, to : AskerOrNone],
         f.kind = "MSG" => spent.group < MaxGroup,
         send_port(m, f)
  PROVE  /\ calls' \in [Member -> Seq(Call)]
         /\ toThread' \in [Member -> Seq(Request)]
         /\ spent' \in [send : 0 .. MaxSend, group : 0 .. MaxGroup,
                        change : 0 .. MaxChange, leave : 0 .. MaxLeave]
         /\ \A p \in Member \ {m} : calls'[p] = calls[p] /\ toThread'[p] = toThread[p]
         /\ Len(calls'[m]) = Len(calls[m]) + 1
         /\ Len(toThread'[m]) = Len(toThread[m]) + 1
         /\ \A i \in DOMAIN calls'[m] : calls'[m][i].alone => calls[m] = <<>>
         /\ \E x \in Request : /\ toThread'[m] = Append(toThread[m], x)
                               /\ x.id = calls'[m][Len(calls'[m])].id
                               /\ x.kind = f.kind /\ x.to = f.to
<1> DEFINE n == spent.send + 1
           others == [i \in DOMAIN calls[m] |-> [calls[m][i] EXCEPT !.alone = FALSE]]
           call == [id |-> n, alone |-> calls[m] = <<>>]
           x == [kind |-> f.kind, to |-> f.to, id |-> n]
<1>1. n \in Id
  <2>1. spent.send \in 0 .. MaxSend /\ MaxSend \in Nat
    BY GroupMailAssumption DEF TypeOK
  <2>2. n <= MaxSend
    BY DEF send_port
  <2> QED
    BY ONLY <2>1, <2>2 DEF Id
<1>2. calls[m] \in Seq(Call) /\ toThread[m] \in Seq(Request)
  BY DEF TypeOK
<1>3. others \in Seq(Call) /\ Len(others) = Len(calls[m])
  <2>1. \A i \in DOMAIN calls[m] : calls[m][i] \in Call
    BY <1>2
  <2>2. \A i \in DOMAIN calls[m] : [calls[m][i] EXCEPT !.alone = FALSE] \in Call
    BY <2>1 DEF Call
  <2>3. others \in [DOMAIN calls[m] -> Call]
    BY ONLY <2>2
  <2> HIDE DEF others
  <2> QED
    BY <1>2, <2>3, ReplaceEach
<1>4. call \in Call /\ x \in Request
  BY <1>1 DEF Call, Request
<1>5. /\ calls' = [calls EXCEPT ![m] = Append(others, call)]
      /\ toThread' = [toThread EXCEPT ![m] = Append(toThread[m], x)]
      /\ n <= MaxSend
      /\ spent' = [spent EXCEPT !.send = n,
                                !.group = IF f.kind = "MSG" THEN @ + 1 ELSE @]
  BY DEF send_port, TypeOK
<1>6. Append(others, call) \in Seq(Call) /\ Len(Append(others, call)) = Len(calls[m]) + 1
      /\ Append(others, call)[Len(calls[m]) + 1] = call
      /\ \A i \in 1 .. Len(calls[m]) : Append(others, call)[i] = others[i]
  <2> HIDE DEF others, call
  <2>1. Len(calls[m]) \in Nat
    BY <1>2
  <2> QED
    BY <1>3, <1>4, <2>1
<1>7. calls' \in [Member -> Seq(Call)] /\ calls'[m] = Append(others, call)
  BY <1>5, <1>6 DEF TypeOK
<1>8. toThread' \in [Member -> Seq(Request)] /\ toThread'[m] = Append(toThread[m], x)
  BY <1>2, <1>4, <1>5 DEF TypeOK
<1>9. spent' \in [send : 0 .. MaxSend, group : 0 .. MaxGroup,
                  change : 0 .. MaxChange, leave : 0 .. MaxLeave]
  <2> DEFINE g == IF f.kind = "MSG" THEN spent.group + 1 ELSE spent.group
  <2>1. spent.group \in 0 .. MaxGroup /\ spent.send \in 0 .. MaxSend
    BY DEF TypeOK
  <2>2. g \in 0 .. MaxGroup /\ n \in 0 .. MaxSend
    <3>1. MaxGroup \in Nat /\ MaxSend \in Nat
      BY GroupMailAssumption
    <3>2. n <= MaxSend /\ (f.kind = "MSG" => spent.group < MaxGroup)
      BY <1>5
    <3> QED
      BY ONLY <2>1, <3>1, <3>2
  <2>3. spent' = [[spent EXCEPT !.send = n] EXCEPT !.group = g]
    BY <1>5
  <2> HIDE DEF g, n
  <2> QED
    BY <2>2, <2>3 DEF TypeOK
<1>10. \A p \in Member \ {m} : calls'[p] = calls[p] /\ toThread'[p] = toThread[p]
  BY <1>5 DEF TypeOK
<1>11. Len(toThread'[m]) = Len(toThread[m]) + 1
  BY <1>2, <1>4, <1>8
<1> QED
  <2>1. ASSUME NEW i \in DOMAIN calls'[m], calls'[m][i].alone PROVE calls[m] = <<>>
    <3>1. i \in 1 .. Len(calls[m]) + 1
      BY <1>6, <1>7
    <3>2. CASE i = Len(calls[m]) + 1
      <4>1. calls'[m][i] = call
        BY <1>6, <1>7, <3>2
      <4>2. call.alone = (calls[m] = <<>>)
        BY Zenon
      <4> HIDE DEF call
      <4> QED
        BY <2>1, <4>1, <4>2, Zenon
    <3>3. CASE i \in 1 .. Len(calls[m])
      <4>1. calls'[m][i] = others[i] /\ i \in DOMAIN calls[m]
        BY <1>2, <1>6, <1>7, <3>3
      <4>2. calls[m][i] \in Call
        BY <1>2, <4>1
      <4>3. others[i] = [calls[m][i] EXCEPT !.alone = FALSE]
        BY <4>1
      <4>4. others[i].alone = FALSE
        BY ONLY <4>2, <4>3 DEF Call
      <4> HIDE DEF others
      <4> QED
        BY <2>1, <4>1, <4>4
    <3> QED
      BY <1>2, <3>1, <3>2, <3>3
  <2>2. x \in Request /\ toThread'[m] = Append(toThread[m], x)
        /\ x.id = calls'[m][Len(calls'[m])].id /\ x.kind = f.kind /\ x.to = f.to
    BY <1>4, <1>6, <1>7, <1>8
  <2>3. Len(calls'[m]) = Len(calls[m]) + 1
    BY <1>6, <1>7
  <2> HIDE DEF x, call, others, n
  <2> QED
    BY <1>7, <1>8, <1>9, <1>10, <1>11, <2>1, <2>2, <2>3

\* No call and no reply comes or goes.
LEMMA SameReplies ==
  ASSUME GoodAll, NEW m \in Member, UNCHANGED name,
         calls'[m] = calls[m], toThread'[m] = toThread[m],
         Count(toComp'[m], ReplyFrame) = Count(toComp[m], ReplyFrame),
         \A i \in DOMAIN toComp'[m] :
           /\ Framed(m, toComp'[m][i])
           /\ IsReply(toComp'[m][i]) =>
                \E k \in DOMAIN toComp[m] : toComp'[m][i] = toComp[m][k]
  PROVE  Good(m)'
<1>1. Paired(m)'
  BY DEF GoodAll, Good, Paired
<1>2. (\A i \in DOMAIN toComp[m] : Framed(m, toComp[m][i]))'
  BY DEF Framed
<1>3. Lone(m)'
  BY DEF GoodAll, Good, Lone
<1>4. (\A i \in DOMAIN toThread[m] : Named(toThread[m][i]))'
  BY DEF GoodAll, Good, Named
<1> QED
  BY <1>1, <1>2, <1>3, <1>4 DEF Good

\* send_port() leaves a member good: who calls alone has nothing else under way.
LEMMA NewCall ==
  ASSUME GoodAll, NEW m \in Member,
         NEW f \in [kind : {"MSG", "MTL", "MFL"}, to : AskerOrNone],
         f.kind = "MSG" => spent.group < MaxGroup, Named(f), UNCHANGED name,
         send_port(m, f),
         toComp'[m] \in Seq(Frame),
         Count(toComp'[m], ReplyFrame) = Count(toComp[m], ReplyFrame),
         \A i \in DOMAIN toComp'[m] : Framed(m, toComp'[m][i])
  PROVE  Good(m)'
<1>1. /\ calls[m] \in Seq(Call) /\ toThread[m] \in Seq(Request)
      /\ toComp[m] \in Seq(Frame) /\ Paired(m)
  BY DEF GoodAll, Good, TypeOK
<1>2. /\ calls'[m] \in Seq(Call)
      /\ Len(calls'[m]) = Len(calls[m]) + 1
      /\ Len(toThread'[m]) = Len(toThread[m]) + 1
      /\ \A i \in DOMAIN calls'[m] : calls'[m][i].alone => calls[m] = <<>>
  BY SendPort DEF GoodAll
<1>3. PICK x \in Request : /\ toThread'[m] = Append(toThread[m], x)
                           /\ x.id = calls'[m][Len(calls'[m])].id
                           /\ x.kind = f.kind /\ x.to = f.to
  BY SendPort DEF GoodAll
<1>4. Count(toComp[m], ReplyFrame) \in Nat
  BY <1>1, CountType
<1>5. Paired(m)'
  BY <1>1, <1>2, <1>4 DEF Paired
<1>6. ASSUME NEW n \in DOMAIN calls'[m], calls'[m][n].alone
      PROVE  /\ Len(calls'[m]) = 1
             /\ \A i \in DOMAIN toThread'[m] : toThread'[m][i].id = calls'[m][n].id
             /\ \A i \in DOMAIN toComp'[m] : ~IsReply(toComp'[m][i])
  <2>1. calls[m] = <<>>
    BY <1>2, <1>6
  <2>2. Len(calls'[m]) = 1 /\ n = 1
    BY <1>2, <2>1
  <2>3. Len(toThread[m]) = 0 /\ Count(toComp[m], ReplyFrame) = 0
    BY <1>1, <1>4, <2>1 DEF Paired
  <2>4. toThread'[m] = <<x>>
    <3>1. toThread[m] = <<>>
      BY <1>1, <2>3
    <3> QED
      BY <1>3, <3>1
  <2>5. \A i \in DOMAIN toComp'[m] : toComp'[m][i] \in Frame \ ReplyFrame
    BY <2>3, CountZero
  <2> QED
    BY <1>3, <2>2, <2>4, <2>5 DEF ReplyFrame
<1>7. \A i \in DOMAIN toThread'[m] : Named(toThread'[m][i])
  <2>1. \A i \in DOMAIN toThread'[m] :
          \/ i \in DOMAIN toThread[m] /\ toThread'[m][i] = toThread[m][i]
          \/ toThread'[m][i] = x
    BY <1>1, <1>3
  <2> QED
    BY <1>3, <2>1 DEF GoodAll, Good, Named
<1> QED
  BY <1>5, <1>6, <1>7 DEF Good, Lone, Framed, Named

\* The group thread answers its component: one reply to the request that it takes, and
\* perhaps a message besides.
LEMMA Answered ==
  ASSUME GoodAll, NEW m \in Member, toThread[m] # <<>>, NEW R, NEW E, Answer(m, R, E),
         NEW x \in ReplyFrame, x.id = Head(toThread[m]).id,
         NEW y \in Frame \ ReplyFrame, Framed(m, y),
         R = <<x>> \/ R = <<x, y>>
  PROVE  /\ toThread' \in [Member -> Seq(Request)]
         /\ toComp' \in [Member -> Seq(Frame)]
         /\ m \in joined => Away'
         /\ \A p \in Member : Good(p)'
<1>1. /\ calls[m] \in Seq(Call) /\ toThread[m] \in Seq(Request)
      /\ toComp[m] \in Seq(Frame) /\ Good(m) /\ calls' = calls /\ name' = name
  BY DEF GoodAll, TypeOK, Answer, compVars
<1>2. x \in Frame /\ y \in Frame /\ IsReply(x) /\ ~IsReply(y) /\ Framed(m, x)
  BY DEF ReplyFrame, IsReply, Framed
<1>3. toComp[m] \o R = Append(toComp[m], x) \/ toComp[m] \o R = Append(Append(toComp[m], x), y)
  <2>1. toComp[m] \o <<x>> = Append(toComp[m], x)
    BY <1>1, <1>2, ConcatIsAppend
  <2>2. toComp[m] \o <<x, y>> = Append(Append(toComp[m], x), y)
    BY <1>1, <1>2, ConcatIsAppend
  <2>3. CASE R = <<x>>
    BY <2>1, <2>3, Zenon
  <2>4. CASE R = <<x, y>>
    BY <2>2, <2>4, Zenon
  <2> QED
    BY <2>3, <2>4
<1>4. toComp[m] \o R \in Seq(Frame)
  BY <1>1, <1>2, <1>3
<1>5. toComp' \in [Member -> Seq(Frame)] /\ toComp'[m] = toComp[m] \o R
  BY <1>4 DEF GoodAll, TypeOK, Answer
<1>6. toThread' \in [Member -> Seq(Request)] /\ toThread'[m] = Tail(toThread[m])
  BY <1>1 DEF GoodAll, TypeOK, Answer
<1>7. \A p \in Member \ {m} : Good(p)'
  BY <1>1, Elsewhere DEF GoodAll, TypeOK, Answer
<1>8. Good(m)'
  <2>1. Count(toComp[m] \o R, ReplyFrame) = Count(toComp[m], ReplyFrame) + 1
    <3>1. Count(Append(toComp[m], x), ReplyFrame) = Count(toComp[m], ReplyFrame) + 1
      BY <1>1, <1>2, CountAppend
    <3>2. Append(toComp[m], x) \in Seq(Frame)
      BY <1>1, <1>2
    <3>3. Count(Append(Append(toComp[m], x), y), ReplyFrame)
            = Count(Append(toComp[m], x), ReplyFrame) + 0
      BY <1>2, <3>2, CountAppend
    <3>4. Count(toComp[m], ReplyFrame) \in Nat
      BY <1>1, CountType
    <3> QED
      <4>1. CASE toComp[m] \o R = Append(toComp[m], x)
        BY <3>1, <4>1, Zenon
      <4>2. CASE toComp[m] \o R = Append(Append(toComp[m], x), y)
        <5>1. Count(toComp[m] \o R, ReplyFrame) = Count(Append(toComp[m], x), ReplyFrame) + 0
          BY <3>3, <4>2, Zenon
        <5> QED
          BY <3>1, <3>4, <5>1
      <4> QED
        BY <1>3, <4>1, <4>2
  <2>2. Len(Tail(toThread[m])) = Len(toThread[m]) - 1 /\ Len(toThread[m]) \in Nat
    BY <1>1
  <2>3. Paired(m)'
    <3>1. Count(toComp[m], ReplyFrame) \in Nat
      BY <1>1, CountType
    <3> QED
      BY <1>1, <1>5, <1>6, <2>1, <2>2, <3>1 DEF Good, Paired
  <2>4. \A i \in DOMAIN (toComp[m] \o R) :
          \/ i \in DOMAIN toComp[m] /\ (toComp[m] \o R)[i] = toComp[m][i]
          \/ (toComp[m] \o R)[i] = x
          \/ (toComp[m] \o R)[i] = y
    <3>1. \A i \in DOMAIN Append(toComp[m], x) :
            \/ i \in DOMAIN toComp[m] /\ Append(toComp[m], x)[i] = toComp[m][i]
            \/ Append(toComp[m], x)[i] = x
      BY <1>1, <1>2
    <3>2. \A i \in DOMAIN Append(Append(toComp[m], x), y) :
            \/ /\ i \in DOMAIN Append(toComp[m], x)
               /\ Append(Append(toComp[m], x), y)[i] = Append(toComp[m], x)[i]
            \/ Append(Append(toComp[m], x), y)[i] = y
      BY <1>1, <1>2
    <3> QED
      BY <1>3, <3>1, <3>2
  <2>5. \A i \in DOMAIN toComp'[m] : Framed(m, toComp'[m][i])
    BY <1>1, <1>2, <1>5, <2>4 DEF Good
  <2>6. \A i \in DOMAIN toThread'[m] : \E k \in DOMAIN toThread[m] :
          toThread'[m][i] = toThread[m][k]
    BY <1>1, <1>6
  <2>7. 1 \in DOMAIN toThread[m] /\ toThread[m][1].id = x.id
    BY <1>1
  <2>8. Lone(m)'
    <3> SUFFICES ASSUME NEW n \in DOMAIN calls[m], calls[m][n].alone
                 PROVE  /\ Len(calls[m]) = 1
                        /\ \A i \in DOMAIN toThread'[m] :
                             toThread'[m][i].id = calls[m][n].id
                        /\ \A i \in DOMAIN toComp'[m] :
                             IsReply(toComp'[m][i]) => toComp'[m][i].id = calls[m][n].id
      BY <1>1 DEF Lone
    <3>1. /\ Len(calls[m]) = 1
          /\ \A i \in DOMAIN toThread[m] : toThread[m][i].id = calls[m][n].id
          /\ \A i \in DOMAIN toComp[m] :
               IsReply(toComp[m][i]) => toComp[m][i].id = calls[m][n].id
      BY <1>1 DEF Good, Lone
    <3>2. x.id = calls[m][n].id
      BY <2>7, <3>1
    <3>3. \A i \in DOMAIN toThread'[m] : toThread'[m][i].id = calls[m][n].id
      BY <2>6, <3>1
    <3>4. ASSUME NEW i \in DOMAIN toComp'[m], IsReply(toComp'[m][i])
          PROVE  toComp'[m][i].id = calls[m][n].id
      <4>1. toComp'[m][i] # y
        BY <1>2, <3>4
      <4>2. \/ i \in DOMAIN toComp[m] /\ toComp'[m][i] = toComp[m][i]
            \/ toComp'[m][i] = x
        BY <1>5, <2>4, <4>1
      <4> QED
        BY <3>1, <3>2, <3>4, <4>2
    <3> QED
      BY <3>1, <3>3, <3>4
  <2>9. \A i \in DOMAIN toThread'[m] : Named(toThread'[m][i])
    BY <1>1, <2>6 DEF Good
  <2> QED
    BY <1>1, <2>3, <2>5, <2>8, <2>9 DEF Good, Framed, Named
<1>9. m \in joined => Away'
  BY StaysAway DEF GoodAll, TypeOK, Answer, compVars
<1> QED
  BY <1>5, <1>6, <1>7, <1>8, <1>9

\* A message of another member reaches the component.
LEMMA Handed ==
  ASSUME GoodAll, NEW m \in Member, NEW e \in mail, NEW who \in AskerOrNone,
         Hand(m, e, who), e.kind \in {"MTL", "MFL"} => who \in Asker,
         e.kind = "MFL" => who[2] = name[m]
  PROVE  /\ toComp' \in [Member -> Seq(Frame)]
         /\ mail' \subseteq Mail /\ AnswersAddressed' /\ Away'
         /\ \A p \in Member : Good(p)'
<1> DEFINE x == [kind |-> e.kind, who |-> who, id |-> e.id]
<1>1. /\ calls[m] \in Seq(Call) /\ toThread[m] \in Seq(Request)
      /\ toComp[m] \in Seq(Frame) /\ Good(m)
      /\ calls' = calls /\ toThread' = toThread /\ name' = name /\ joined' = joined
  BY DEF GoodAll, TypeOK, Hand, compVars
<1>2. e \in Mail /\ mail' \subseteq mail
  BY DEF GoodAll, TypeOK, Hand
<1>3. x \in Frame /\ ~IsReply(x) /\ Framed(m, x) /\ x \notin ReplyFrame
  BY <1>2 DEF Mail, Frame, IsReply, Framed, ReplyFrame
<1>4. toComp'[m] = Append(toComp[m], x) /\ toComp' \in [Member -> Seq(Frame)]
  BY <1>1, <1>3 DEF GoodAll, TypeOK, Hand
<1>5. \A p \in Member \ {m} : Good(p)'
  BY <1>1, Elsewhere DEF GoodAll, TypeOK, Hand
<1> HIDE DEF x
<1>6. Count(toComp'[m], ReplyFrame) = Count(toComp[m], ReplyFrame)
  <2>1. Count(toComp'[m], ReplyFrame) = Count(toComp[m], ReplyFrame) + 0
    BY <1>1, <1>3, <1>4, CountAppend
  <2> QED
    BY <1>1, <2>1, CountType
<1>7. \A i \in DOMAIN toComp'[m] :
        \/ i \in DOMAIN toComp[m] /\ toComp'[m][i] = toComp[m][i]
        \/ toComp'[m][i] = x
  BY <1>1, <1>3, <1>4
<1>8. Good(m)'
  <2>1. \A i \in DOMAIN toComp'[m] : Framed(m, toComp'[m][i])
    BY <1>1, <1>3, <1>7 DEF Good
  <2>2. \A i \in DOMAIN toComp'[m] : IsReply(toComp'[m][i]) =>
          \E k \in DOMAIN toComp[m] : toComp'[m][i] = toComp[m][k]
    BY <1>3, <1>7
  <2> QED
    BY <1>1, <1>6, <2>1, <2>2, SameReplies
<1>9. mail' \subseteq Mail /\ AnswersAddressed'
  BY <1>1, <1>2, StaysAddressed DEF GoodAll, TypeOK
<1>10. Away'
  BY <1>1, StaysAway DEF GoodAll, TypeOK, Hand
<1> QED
  BY <1>4, <1>5, <1>8, <1>9, <1>10

\* The component takes its next frame.
LEMMA NextFrame ==
  ASSUME GoodAll, NEW m \in Member, toComp[m] # <<>>,
         toComp' = [toComp EXCEPT ![m] = Tail(@)]
  PROVE  /\ toComp' \in [Member -> Seq(Frame)]
         /\ Head(toComp[m]) \in Frame /\ Framed(m, Head(toComp[m]))
         /\ \A i \in DOMAIN toComp'[m] : Framed(m, toComp'[m][i])
         /\ \A i \in DOMAIN toComp'[m] : \E k \in DOMAIN toComp[m] :
              toComp'[m][i] = toComp[m][k]
         /\ IsReply(Head(toComp[m])) =>
              Count(toComp[m], ReplyFrame) = Count(toComp'[m], ReplyFrame) + 1
         /\ ~IsReply(Head(toComp[m])) =>
              Count(toComp'[m], ReplyFrame) = Count(toComp[m], ReplyFrame)
<1>1. toComp[m] \in Seq(Frame) /\ Good(m)
  BY DEF GoodAll, TypeOK
<1>2. toComp'[m] = Tail(toComp[m]) /\ toComp' \in [Member -> Seq(Frame)]
  BY <1>1 DEF GoodAll, TypeOK
<1>3. Head(toComp[m]) \in Frame /\ Head(toComp[m]) = toComp[m][1] /\ 1 \in DOMAIN toComp[m]
  BY <1>1
<1>4. \A i \in DOMAIN toComp'[m] :
        i + 1 \in DOMAIN toComp[m] /\ toComp'[m][i] = toComp[m][i + 1]
  BY <1>1, <1>2
<1>5. Count(toComp'[m], ReplyFrame) \in Nat
  BY <1>2, CountType
<1>6. Count(toComp[m], ReplyFrame) = Count(toComp'[m], ReplyFrame)
        + (IF Head(toComp[m]) \in ReplyFrame THEN 1 ELSE 0)
  BY <1>1, <1>2, CountTail
<1>7. Head(toComp[m]) \in ReplyFrame <=> IsReply(Head(toComp[m]))
  BY <1>3 DEF ReplyFrame
<1>8. \A i \in DOMAIN toComp'[m] : Framed(m, toComp'[m][i])
  BY <1>1, <1>4 DEF Good
<1>9. Framed(m, Head(toComp[m]))
  BY <1>1, <1>3 DEF Good
<1>10. \A i \in DOMAIN toComp'[m] : \E k \in DOMAIN toComp[m] :
         toComp'[m][i] = toComp[m][k]
  BY <1>4
<1>11. IsReply(Head(toComp[m])) =>
         Count(toComp[m], ReplyFrame) = Count(toComp'[m], ReplyFrame) + 1
  BY <1>6, <1>7
<1>12. ~IsReply(Head(toComp[m])) =>
         Count(toComp'[m], ReplyFrame) = Count(toComp[m], ReplyFrame)
  BY <1>5, <1>6, <1>7
<1> QED
  BY <1>2, <1>3, <1>8, <1>9, <1>10, <1>11, <1>12

--------------------------------------------------------------------------------
(* The actions *)

LEMMA InitGood == Init => GoodAll
<1> SUFFICES ASSUME Init PROVE GoodAll
  OBVIOUS
<1>1. TypeOK
  BY GroupMailAssumption DEF Init, TypeOK, MemberOrNone
<1>2. \A m \in Member : Count(toComp[m], ReplyFrame) = 0
  BY <1>1, CountType DEF Init, TypeOK
<1> QED
  BY <1>1, <1>2 DEF Init, GoodAll, AnswersAddressed, Away, Good, Paired, Lone

LEMMA SendGood == ASSUME GoodAll, NEW m \in Member, Send(m) PROVE GoodAll'
<1>1. PICK f \in Sendable(m, asked[m]) :
        send_port(m, f) /\ asked' = [asked EXCEPT ![m] = @ \ {f.to}]
  BY DEF Send
<1>2. asked[m] \in SUBSET Asker /\ asked' \in [Member -> SUBSET Asker]
  BY <1>1 DEF GoodAll, TypeOK
<1>3. /\ f \in [kind : {"MSG", "MTL", "MFL"}, to : AskerOrNone]
      /\ f.kind = "MSG" => spent.group < MaxGroup
      /\ Named(f)
  BY <1>2, SendableType DEF GoodAll
<1>4. UNCHANGED <<joined, name, toComp, leader, identity, mail>>
  BY DEF Send, threadVars
<1>5. Good(m)'
  BY <1>1, <1>3, <1>4, NewCall DEF GoodAll, Good, TypeOK
<1>6. \A p \in Member \ {m} : Good(p)'
  BY <1>1, <1>3, <1>4, SendPort, Elsewhere DEF GoodAll
<1>7. TypeOK'
  BY <1>1, <1>2, <1>3, <1>4, SendPort DEF GoodAll, TypeOK
<1> QED
  BY <1>4, <1>5, <1>6, <1>7 DEF GoodAll, AnswersAddressed, Away

LEMMA HandleMessageGood == ASSUME GoodAll, NEW m \in Member, handleMessage(m) PROVE GoodAll'
<1> DEFINE msg == Head(toComp[m])
           A == asked[m] \cup (IF msg.kind = "MTL" THEN {msg.who} ELSE {})
<1>1. /\ m \in joined /\ toComp[m] # <<>> /\ ~IsReply(msg)
      /\ toComp' = [toComp EXCEPT ![m] = Tail(@)]
      /\ UNCHANGED <<joined, name, leader, identity, mail>>
  BY DEF handleMessage, threadVars
<1>2. /\ toComp' \in [Member -> Seq(Frame)]
      /\ msg \in Frame /\ Framed(m, msg)
      /\ \A i \in DOMAIN toComp'[m] : Framed(m, toComp'[m][i])
      /\ \A i \in DOMAIN toComp'[m] : \E k \in DOMAIN toComp[m] :
           toComp'[m][i] = toComp[m][k]
      /\ Count(toComp'[m], ReplyFrame) = Count(toComp[m], ReplyFrame)
  BY <1>1, NextFrame
<1>3. A \in SUBSET Asker
  <2>1. asked[m] \in SUBSET Asker /\ (msg.kind = "MTL" => msg.who \in Asker)
    BY <1>2 DEF GoodAll, TypeOK, Framed
  <2> HIDE DEF msg
  <2> QED
    BY <2>1
<1>4. (\A p \in Member \ {m} : toComp'[p] = toComp[p]) /\ Away' /\ AnswersAddressed'
  BY <1>1, StaysAway, StaysAddressed DEF GoodAll, TypeOK
<1>5. CASE asked' = [asked EXCEPT ![m] = A] /\ UNCHANGED <<calls, toThread, spent>>
  <2>1. TypeOK'
    BY <1>1, <1>2, <1>3, <1>5 DEF GoodAll, TypeOK
  <2>2. \A p \in Member \ {m} : Good(p)'
    BY <1>1, <1>4, <1>5, Elsewhere
  <2>3. Good(m)'
    BY <1>1, <1>2, <1>5, SameReplies
  <2> QED
    BY <1>4, <2>1, <2>2, <2>3 DEF GoodAll
<1>6. ASSUME NEW f \in Sendable(m, A), send_port(m, f),
             asked' = [asked EXCEPT ![m] = A \ {f.to}]
      PROVE  GoodAll'
  <2>1. /\ f \in [kind : {"MSG", "MTL", "MFL"}, to : AskerOrNone]
        /\ f.kind = "MSG" => spent.group < MaxGroup
        /\ Named(f)
    BY <1>3, <1>6, SendableType DEF GoodAll
  <2>2. Good(m)'
    BY <1>1, <1>2, <1>6, <2>1, NewCall
  <2>3. \A p \in Member \ {m} : Good(p)'
    BY <1>1, <1>4, <1>6, <2>1, SendPort, Elsewhere DEF GoodAll
  <2>4. asked' \in [Member -> SUBSET Asker]
    BY <1>3, <1>6 DEF GoodAll, TypeOK
  <2>5. TypeOK'
    BY <1>1, <1>2, <1>6, <2>1, <2>4, SendPort DEF GoodAll, TypeOK
  <2> QED
    BY <1>4, <2>2, <2>3, <2>5 DEF GoodAll
<1> QED
  BY <1>5, <1>6 DEF handleMessage

\* A reply is taken by the innermost call, and there is one.
LEMMA ReturnGood ==
  ASSUME GoodAll, NEW m \in Member, Return(m)
  PROVE  GoodAll' /\ calls[m] # <<>>
<1>1. /\ m \in joined /\ toComp[m] # <<>> /\ IsReply(Head(toComp[m]))
      /\ toComp' = [toComp EXCEPT ![m] = Tail(@)]
      /\ calls' = [calls EXCEPT ![m] = IF @ = <<>> THEN @ ELSE Front(@)]
      /\ UNCHANGED <<joined, name, asked, toThread, leader, identity, mail, spent>>
  BY DEF Return, threadVars
<1>2. /\ toComp' \in [Member -> Seq(Frame)]
      /\ \A i \in DOMAIN toComp'[m] : Framed(m, toComp'[m][i])
      /\ Count(toComp[m], ReplyFrame) = Count(toComp'[m], ReplyFrame) + 1
  BY <1>1, NextFrame
<1>3. /\ calls[m] \in Seq(Call) /\ toThread[m] \in Seq(Request) /\ Good(m)
      /\ Count(toComp'[m], ReplyFrame) \in Nat
  BY <1>2, CountType DEF GoodAll, TypeOK
<1>4. Len(calls[m]) >= 1
  BY <1>2, <1>3 DEF Good, Paired
<1>5. /\ calls'[m] = SubSeq(calls[m], 1, Len(calls[m]) - 1)
      /\ calls' \in [Member -> Seq(Call)]
  BY <1>1, <1>3, <1>4 DEF GoodAll, TypeOK, Front
<1>6. /\ Len(calls'[m]) = Len(calls[m]) - 1
      /\ \A n \in DOMAIN calls'[m] : n \in DOMAIN calls[m] /\ calls'[m][n] = calls[m][n]
  BY <1>3, <1>4, <1>5
<1>7. Paired(m)'
  BY <1>1, <1>2, <1>3, <1>6 DEF Good, Paired
<1>8. Lone(m)'
  BY <1>3, <1>6 DEF Good, Lone
<1>9. Good(m)'
  BY <1>1, <1>2, <1>3, <1>7, <1>8 DEF Good, Framed, Named
<1>10. \A p \in Member \ {m} : Good(p)'
  BY <1>1, Elsewhere DEF GoodAll, TypeOK
<1>11. TypeOK'
  BY <1>1, <1>2, <1>5 DEF GoodAll, TypeOK
<1>12. Away' /\ AnswersAddressed'
  BY <1>1, StaysAway, StaysAddressed DEF GoodAll, TypeOK
<1> QED
  BY <1>4, <1>9, <1>10, <1>11, <1>12 DEF GoodAll

LEMMA LeaveGood == ASSUME GoodAll, NEW m \in Member, leave(m) PROVE GoodAll'
<1>1. /\ calls[m] = <<>> /\ calls' = calls /\ toThread' = toThread /\ name' = name
      /\ joined' = joined \ {m}
      /\ toComp' = [toComp EXCEPT ![m] = <<>>]
      /\ asked' = [asked EXCEPT ![m] = {}]
      /\ leader' = [leader EXCEPT ![m] = None]
      /\ identity' = [identity EXCEPT ![m] = None]
      /\ mail' = {e \in mail : e.to # m}
      /\ spent.leave < MaxLeave /\ spent' = [spent EXCEPT !.leave = @ + 1]
  BY DEF leave
<1>2. spent' \in [send : 0 .. MaxSend, group : 0 .. MaxGroup,
                  change : 0 .. MaxChange, leave : 0 .. MaxLeave]
  <2> DEFINE n == spent.leave + 1
  <2>1. n \in 0 .. MaxLeave
    <3>1. spent.leave \in 0 .. MaxLeave /\ MaxLeave \in Nat
      BY GroupMailAssumption DEF GoodAll, TypeOK
    <3>2. spent.leave < MaxLeave
      BY <1>1
    <3> QED
      BY ONLY <3>1, <3>2
  <2>2. spent' = [spent EXCEPT !.leave = n]
    BY <1>1
  <2> HIDE DEF n
  <2> QED
    BY <2>1, <2>2 DEF GoodAll, TypeOK
<1>3. TypeOK'
  BY <1>1, <1>2 DEF GoodAll, TypeOK, MemberOrNone
<1>4. \A p \in Member \ {m} : Good(p)'
  BY <1>1, Elsewhere DEF GoodAll, TypeOK
<1>5. Good(m)'
  <2>1. toComp[m] \in Seq(Frame) /\ toThread[m] \in Seq(Request) /\ Paired(m)
        /\ toComp'[m] = <<>>
    BY <1>1 DEF GoodAll, Good, TypeOK
  <2>2. Count(toComp[m], ReplyFrame) \in Nat /\ Count(toComp'[m], ReplyFrame) = 0
    BY <1>3, <2>1, CountType DEF TypeOK
  <2>3. Len(toThread[m]) = 0
    BY <1>1, <2>1, <2>2 DEF Paired
  <2> QED
    BY <1>1, <2>1, <2>2, <2>3 DEF Good, Paired, Lone
<1>6. AnswersAddressed' /\ Away'
  BY <1>1 DEF GoodAll, TypeOK, AnswersAddressed, Away
<1> QED
  BY <1>3, <1>4, <1>5, <1>6 DEF GoodAll

\* A step of the group thread on a frame of its component (handleCompMessage).
LEMMA CompMessageGood ==
  ASSUME GoodAll, NEW m \in Member, sendGroup(m) \/ sendToLeader(m) \/ sendToMember(m)
  PROVE  GoodAll'
<1> DEFINE f == Head(toThread[m])
           ack == Ack(f)
           nld == NoLeader(f)
           back(kind) == Own(m, kind, f)
<1>1. toThread[m] # <<>> /\ m \in joined
  BY DEF sendGroup, sendToLeader, sendToMember, Takes
<1>2. f \in Request /\ Named(f)
  <2>1. toThread[m] \in Seq(Request) /\ \A i \in DOMAIN toThread[m] : Named(toThread[m][i])
    BY DEF GoodAll, Good, TypeOK
  <2>2. f = toThread[m][1] /\ 1 \in DOMAIN toThread[m]
    BY <1>1, <2>1
  <2> QED
    BY <2>1, <2>2
<1>3. /\ ack \in ReplyFrame /\ ack.id = f.id
      /\ nld \in ReplyFrame /\ nld.id = f.id
  BY <1>2 DEF Ack, NoLeader, ReplyFrame, Frame, Request, IsReply, AskerOrNone
<1>4. /\ back("MTL") \in Frame \ ReplyFrame /\ Framed(m, back("MTL"))
      /\ back("MFL") \in Frame \ ReplyFrame /\ Framed(m, back("MFL"))
  <2>1. <<m, name[m]>> \in Asker /\ <<m, name[m]>>[2] = name[m]
    BY DEF GoodAll, TypeOK, Asker
  <2> QED
    BY <1>2, <2>1 DEF Own, ReplyFrame, Frame, Request, IsReply, AskerOrNone, Framed
<1>5. ASSUME NEW R, NEW E \in SUBSET Mail, Answer(m, R, E),
             identity' \in [Member -> Ident \cup {None}],
             \A e \in E : e.kind \in {"MTL", "MFL"} => e.re \in Asker,
             \A e \in E : e.kind = "MFL" => e.re[2] = name[e.to] /\ e.to \in joined,
             \/ R = <<ack>> \/ R = <<nld>>
             \/ R = <<ack, back("MTL")>> \/ R = <<ack, back("MFL")>>
      PROVE  GoodAll'
  <2>1. /\ toThread' \in [Member -> Seq(Request)]
        /\ toComp' \in [Member -> Seq(Frame)]
        /\ Away'
        /\ \A p \in Member : Good(p)'
    <3> HIDE DEF f, ack, nld, back
    <3>1. CASE R = <<ack>> \/ R = <<ack, back("MTL")>>
      BY <1>1, <1>3, <1>4, <1>5, <3>1, Answered DEF f
    <3>2. CASE R = <<ack>> \/ R = <<ack, back("MFL")>>
      BY <1>1, <1>3, <1>4, <1>5, <3>2, Answered DEF f
    <3>3. CASE R = <<nld>>
      BY <1>1, <1>3, <1>4, <1>5, <3>3, Answered DEF f
    <3> QED
      BY <1>5, <3>1, <3>2, <3>3
  <2>2. UNCHANGED <<joined, name, calls, asked, leader, spent>> /\ mail' = mail \cup E
    BY <1>5 DEF Answer, compVars
  <2>3. TypeOK'
    BY <1>5, <2>1, <2>2 DEF GoodAll, TypeOK
  <2>4. AnswersAddressed'
    BY <1>5, <2>2, StaysAddressed
  <2> QED
    BY <2>1, <2>3, <2>4 DEF GoodAll
<1>6. identity \in [Member -> Ident \cup {None}] /\ leader \in [Member -> MemberOrNone]
      /\ joined \subseteq Member /\ <<m, name[m]>> \in Asker
  BY DEF GoodAll, TypeOK, Asker
<1>7. CASE sendGroup(m)
  <2> DEFINE E == {[kind |-> "MSG", from |-> m, to |-> p, re |-> None, id |-> f.id] :
                     p \in joined}
  <2>1. E \in SUBSET Mail /\ \A e \in E : e.kind = "MSG"
    BY <1>2, <1>6 DEF Mail, Request, AskerOrNone
  <2>2. Answer(m, <<ack>>, E) /\ identity' = identity
    BY <1>7 DEF sendGroup
  <2> HIDE DEF E, ack, nld, back, f
  <2> QED
    BY <1>5, <1>6, <2>1, <2>2
<1>8. CASE sendToLeader(m)
  <2> DEFINE x == [kind |-> "MTL", from |-> m, to |-> leader[m], re |-> <<m, name[m]>>,
                   id |-> f.id]
             E == IF leader[m] \in {None, m} THEN {} ELSE {x}
  <2>1. leader[m] \notin {None, m} => x \in Mail /\ x.kind = "MTL" /\ x.re \in Asker
    BY <1>2, <1>6 DEF Mail, Request, MemberOrNone, AskerOrNone
  <2>2. Answer(m, ToLeader(m, f), E) /\ identity' = identity
    BY <1>8 DEF sendToLeader
  <2>3. \/ ToLeader(m, f) = <<ack>> \/ ToLeader(m, f) = <<nld>>
        \/ ToLeader(m, f) = <<ack, back("MTL")>>
    BY DEF ToLeader
  <2> HIDE DEF x, ack, nld, back, f
  <2>4. /\ E \in SUBSET Mail
        /\ \A e \in E : e.kind = "MTL" /\ e.re \in Asker
    BY <2>1
  <2> HIDE DEF E
  <2> QED
    BY <1>5, <1>6, <2>2, <2>3, <2>4
<1>9. CASE sendToMember(m)
  <2>1. CASE leader[m] = None
    <3>1. Answer(m, <<nld>>, {}) /\ identity' = identity
      BY <1>9, <2>1 DEF sendToMember
    <3> HIDE DEF ack, nld, back, f
    <3> QED
      BY <1>5, <1>6, <3>1
  <2>2. CASE leader[m] # None /\ f.to[1] = m
    <3>1. Answer(m, <<ack, back("MFL")>>, {}) /\ identity' = identity
      BY <1>9, <2>2 DEF sendToMember
    <3> HIDE DEF ack, nld, back, f
    <3> QED
      BY <1>5, <1>6, <3>1
  <2>3. CASE leader[m] # None /\ f.to[1] # m
    <3>1. f.kind = "MFL" /\ f.to \in Asker /\ f.to[2] \in Ident
      BY <1>2, <1>9 DEF sendToMember, Takes, Named, Asker
    <3>2. identity' = [identity EXCEPT ![m] = f.to[2]]
      BY <1>9, <2>3 DEF sendToMember, set_identity
    <3>3. identity' \in [Member -> Ident \cup {None}] /\ identity'[m] = f.to[2]
      BY <1>6, <3>1, <3>2
    <3>4. CASE Answer(m, <<ack>>, {})
      <4> HIDE DEF ack, nld, back, f
      <4> QED
        BY <1>5, <3>3, <3>4
    <3>5. ASSUME NEW p \in Bearers(m, identity'[m]),
                 Answer(m, <<ack>>, {[kind |-> "MFL", from |-> m, to |-> p, re |-> f.to, id |-> f.id]})
          PROVE  GoodAll'
      <4> DEFINE x == [kind |-> "MFL", from |-> m, to |-> p, re |-> f.to, id |-> f.id]
      <4>1. p \in joined /\ p \in Member /\ name[p] = f.to[2]
        BY <1>6, <3>3 DEF Bearers
      <4>2. x \in Mail /\ x.kind = "MFL" /\ x.re = f.to /\ x.to = p
        BY <1>2, <3>1, <4>1 DEF Mail, Request, AskerOrNone
      <4>3. Answer(m, <<ack>>, {x})
        BY <3>5
      <4> HIDE DEF x
      <4>4. /\ {x} \in SUBSET Mail
            /\ \A e \in {x} : e.kind \in {"MTL", "MFL"} => e.re \in Asker
            /\ \A e \in {x} : e.kind = "MFL" => e.re[2] = name[e.to] /\ e.to \in joined
        BY <3>1, <4>1, <4>2
      <4> HIDE DEF ack, nld, back, f
      <4> QED
        BY <1>5, <3>3, <4>3, <4>4
    <3>6. \/ Answer(m, <<ack>>, {})
          \/ \E p \in Bearers(m, identity'[m]) :
               Answer(m, <<ack>>, {[kind |-> "MFL", from |-> m, to |-> p, re |-> f.to, id |-> f.id]})
      BY <1>9, <2>3 DEF sendToMember
    <3> QED
      BY <3>4, <3>5, <3>6
  <2> QED
    BY <2>1, <2>2, <2>3
<1> QED
  BY <1>7, <1>8, <1>9

\* A step of the group thread on a message of another one.
LEMMA NetMessageGood ==
  ASSUME GoodAll, NEW m \in Member, NEW e \in mail,
         recvGroup(m, e) \/ handleMessageForLeader(m, e) \/ handleMessageForMember(m, e)
  PROVE  GoodAll'
<1>1. /\ e \in Mail
      /\ e.kind \in {"MTL", "MFL"} => e.re \in Asker
      /\ e.kind = "MFL" => e.re[2] = name[e.to]
      /\ identity \in [Member -> Ident \cup {None}]
  BY DEF GoodAll, TypeOK, AnswersAddressed
<1>2. ASSUME NEW who \in AskerOrNone, Hand(m, e, who),
             e.kind \in {"MTL", "MFL"} => who \in Asker, e.kind = "MFL" => who[2] = name[m],
             identity' \in [Member -> Ident \cup {None}]
      PROVE  GoodAll'
  <2>1. /\ toComp' \in [Member -> Seq(Frame)]
        /\ mail' \subseteq Mail /\ AnswersAddressed' /\ Away'
        /\ \A p \in Member : Good(p)'
    BY <1>2, Handed
  <2>2. UNCHANGED <<joined, name, calls, asked, toThread, leader, spent>>
    BY <1>2 DEF Hand, compVars
  <2>3. TypeOK'
    BY <1>2, <2>1, <2>2 DEF GoodAll, TypeOK
  <2> QED
    BY <2>1, <2>3 DEF GoodAll
<1>3. CASE recvGroup(m, e)
  <2>1. e.kind = "MSG" /\ Hand(m, e, None) /\ identity' = identity
    BY <1>3 DEF recvGroup
  <2> QED
    BY <1>1, <1>2, <2>1 DEF AskerOrNone
<1>4. CASE handleMessageForLeader(m, e)
  <2>1. /\ e.kind = "MTL" /\ Hand(m, e, e.re) /\ e.re \in Asker /\ e.re[2] \in Ident
        /\ identity' = [identity EXCEPT ![m] = e.re[2]]
    BY <1>1, <1>4 DEF handleMessageForLeader, Asker
  <2>2. identity' \in [Member -> Ident \cup {None}]
    BY <1>1, <2>1
  <2> QED
    BY <1>2, <2>1, <2>2 DEF AskerOrNone
<1>5. CASE handleMessageForMember(m, e)
  <2>1. e.kind = "MFL" /\ Hand(m, e, e.re) /\ identity' = identity /\ e.to = m
    BY <1>5 DEF handleMessageForMember, Hand
  <2> QED
    BY <1>1, <1>2, <2>1 DEF AskerOrNone
<1> QED
  BY <1>3, <1>4, <1>5

\* Every step keeps the invariant.
LEMMA NextGood == ASSUME GoodAll, [Next]_vars PROVE GoodAll'
<1>1. ASSUME NEW m \in Member, Component(m) PROVE GoodAll'
  <2>1. CASE joinGroup(m)
    <3>1. /\ m \notin joined /\ joined' = joined \cup {m}
          /\ name' \in [Member -> Ident]
          /\ \A p \in Member \ {m} : name'[p] = name[p]
      BY <2>1 DEF joinGroup, GoodAll, TypeOK
    <3>2. UNCHANGED <<calls, asked, toThread, toComp, leader, identity, mail, spent>>
      BY <2>1 DEF joinGroup, threadVars
    <3>3. \A p \in Member \ {m} : Good(p)'
      BY <3>1, <3>2, Elsewhere
    <3>4. Good(m)'
      <4>1. DOMAIN toComp[m] = {} /\ Good(m)
        BY <3>1 DEF GoodAll, Away
      <4> QED
        BY <3>2, <4>1 DEF Good, Paired, Lone, Named
    <3>5. AnswersAddressed' /\ Away'
      BY <3>1, <3>2 DEF GoodAll, TypeOK, AnswersAddressed, Away
    <3>6. TypeOK'
      BY <3>1, <3>2 DEF GoodAll, TypeOK
    <3> QED
      BY <3>3, <3>4, <3>5, <3>6 DEF GoodAll
  <2> QED
    BY <1>1, <2>1, SendGood, HandleMessageGood, ReturnGood, LeaveGood DEF Component
<1>2. ASSUME NEW m \in Member, Thread(m) PROVE GoodAll'
  BY <1>2, CompMessageGood, NetMessageGood DEF Thread
<1>3. ASSUME NEW m \in Member, NEW l \in MemberOrNone, ChangeLeader(m, l) PROVE GoodAll'
  <2>1. /\ leader' = [leader EXCEPT ![m] = l]
        /\ spent.change < MaxChange /\ spent' = [spent EXCEPT !.change = @ + 1]
        /\ UNCHANGED <<joined, name, calls, asked, toThread, toComp, identity, mail>>
    BY <1>3 DEF ChangeLeader, compVars
  <2>2. spent' \in [send : 0 .. MaxSend, group : 0 .. MaxGroup,
                    change : 0 .. MaxChange, leave : 0 .. MaxLeave]
    <3> DEFINE n == spent.change + 1
    <3>1. n \in 0 .. MaxChange
      <4>1. spent.change \in 0 .. MaxChange /\ MaxChange \in Nat
        BY GroupMailAssumption DEF GoodAll, TypeOK
      <4>2. spent.change < MaxChange
        BY <2>1
      <4> QED
        BY ONLY <4>1, <4>2
    <3>2. spent' = [spent EXCEPT !.change = n]
      BY <2>1
    <3> HIDE DEF n
    <3> QED
      BY <3>1, <3>2 DEF GoodAll, TypeOK
  <2>3. TypeOK'
    BY <2>1, <2>2 DEF GoodAll, TypeOK
  <2>4. \A p \in Member : Good(p)'
    BY <2>1, Elsewhere
  <2> QED
    BY <2>1, <2>3, <2>4 DEF GoodAll, AnswersAddressed, Away
<1>4. ASSUME NEW e \in mail, Lose(e) PROVE GoodAll'
  <2>1. /\ mail' \subseteq mail
        /\ UNCHANGED <<joined, name, calls, asked, toThread, toComp, leader, identity, spent>>
    BY <1>4 DEF Lose, compVars
  <2>2. \A p \in Member : Good(p)'
    BY <2>1, Elsewhere
  <2> QED
    BY <2>1, <2>2 DEF GoodAll, TypeOK, AnswersAddressed, Away
<1>5. CASE UNCHANGED vars
  <2>1. UNCHANGED <<joined, name, calls, asked, toThread, toComp, leader, identity, mail, spent>>
    BY <1>5 DEF vars, compVars, threadVars
  <2>2. \A p \in Member : Good(p)'
    BY <2>1, Elsewhere
  <2> QED
    BY <2>1, <2>2 DEF GoodAll, TypeOK, AnswersAddressed, Away
<1> QED
  BY <1>1, <1>2, <1>3, <1>4, <1>5 DEF Next

--------------------------------------------------------------------------------
(* Theorems *)

\* The inductive invariant: what is under way between a component and its group thread
\* belongs to the calls that wait.
THEOREM MailSafety == Spec => []IInv
<1>1. Init => GoodAll
  BY InitGood
<1>2. GoodAll /\ [Next]_vars => GoodAll'
  BY NextGood
<1>3. GoodAll => IInv
  BY GoodIsIInv
<1> QED
  BY <1>1, <1>2, <1>3, PTL DEF Spec

\* Every call of send_port(), however deep, has one request before the group thread or
\* one reply before the component.
THEOREM SendsComeBack == Spec => []SendsPaired
<1>1. IInv => SendsPaired
  BY DEF IInv
<1> QED
  BY <1>1, MailSafety, PTL

\* An answer comes in at the component of a member that has, since it joined, the identity
\* under which it was asked: of the member that had asked, if no other ever had its
\* identity (set_identity, sendToMember).
THEOREM AnswersComeBack == Spec => []AnswerReturns
<1>1. IInv => AnswerReturns
  BY DEF IInv
<1> QED
  BY <1>1, MailSafety, PTL

\* A call of send_port() that waits alone returns what became of its own message.
LEMMA ReturnsOwn ==
  ASSUME GoodAll, [Next]_vars, NEW m \in Member,
         Len(calls'[m]) < Len(calls[m]), Last(calls[m]).alone
  PROVE  Last(calls[m]).id = Head(toComp[m]).id
<1>1. calls[m] \in Seq(Call) /\ toComp[m] \in Seq(Frame) /\ Good(m)
  BY DEF GoodAll, TypeOK
<1>2. ASSUME NEW p \in Member, NEW A \in SUBSET Asker, NEW f \in Sendable(p, A),
             send_port(p, f)
      PROVE  FALSE
  <2>1. /\ f \in [kind : {"MSG", "MTL", "MFL"}, to : AskerOrNone]
        /\ f.kind = "MSG" => spent.group < MaxGroup
    BY <1>2, SendableType DEF GoodAll
  <2>2. Len(calls'[m]) = Len(calls[m]) + 1 \/ calls'[m] = calls[m]
    BY <1>2, <2>1, SendPort DEF GoodAll
  <2> QED
    BY <1>1, <2>2
<1>3. calls'[m] # calls[m]
  BY <1>1
<1>4. ASSUME NEW p \in Member, Component(p) PROVE Return(m)
  <2>1. ~Send(p)
    BY <1>2 DEF Send, GoodAll, TypeOK
  <2>2. ~handleMessage(p)
    <3> SUFFICES ASSUME handleMessage(p) PROVE FALSE
      OBVIOUS
    <3> DEFINE msg == Head(toComp[p])
               A == asked[p] \cup (IF msg.kind = "MTL" THEN {msg.who} ELSE {})
    <3>1. toComp[p] # <<>> /\ toComp' = [toComp EXCEPT ![p] = Tail(@)]
      BY DEF handleMessage
    <3>2. A \in SUBSET Asker
      <4>1. msg \in Frame /\ Framed(p, msg) /\ asked[p] \in SUBSET Asker
        BY <3>1, NextFrame DEF GoodAll, TypeOK
      <4>2. msg.kind = "MTL" => msg.who \in Asker
        BY <4>1 DEF Framed
      <4> HIDE DEF msg
      <4> QED
        BY <4>1, <4>2
    <3>3. calls' = calls \/ \E f \in Sendable(p, A) : send_port(p, f)
      BY DEF handleMessage
    <3> HIDE DEF A
    <3> QED
      BY <1>2, <1>3, <3>2, <3>3
  <2>3. ~leave(p) /\ ~joinGroup(p)
    BY <1>3 DEF leave, joinGroup
  <2>4. Return(p)
    BY <1>4, <2>1, <2>2, <2>3 DEF Component
  <2>5. p = m
    BY <1>3, <2>4 DEF Return, GoodAll, TypeOK
  <2> QED
    BY <2>4, <2>5
<1>5. Return(m)
  <2>1. ASSUME NEW p \in Member, Thread(p) PROVE FALSE
    BY <1>3, <2>1 DEF Thread, sendGroup, sendToLeader, sendToMember, Answer, recvGroup,
       handleMessageForLeader, handleMessageForMember, Hand, compVars
  <2>2. ASSUME NEW p \in Member, NEW l \in MemberOrNone, ChangeLeader(p, l) PROVE FALSE
    BY <1>3, <2>2 DEF ChangeLeader, compVars
  <2>3. ASSUME NEW e \in mail, Lose(e) PROVE FALSE
    BY <1>3, <2>3 DEF Lose, compVars
  <2>4. ~UNCHANGED vars
    BY <1>3 DEF vars, compVars
  <2> QED
    BY <1>4, <2>1, <2>2, <2>3, <2>4 DEF Next
<1>6. calls[m] # <<>> /\ toComp[m] # <<>> /\ IsReply(Head(toComp[m]))
  BY <1>5, ReturnGood DEF Return
<1>7. Len(calls[m]) \in DOMAIN calls[m] /\ Last(calls[m]) = calls[m][Len(calls[m])]
  BY <1>1, <1>6 DEF Last
<1>8. 1 \in DOMAIN toComp[m] /\ Head(toComp[m]) = toComp[m][1]
  BY <1>1, <1>6
<1> QED
  BY <1>1, <1>6, <1>7, <1>8 DEF Good, Lone

THEOREM OwnReplies == Spec => OwnReply
<1>1. GoodAll /\ [Next]_vars =>
        [\A m \in Member : Len(calls'[m]) < Len(calls[m]) /\ Last(calls[m]).alone
           => Last(calls[m]).id = Head(toComp[m]).id]_vars
  BY ReturnsOwn
<1>2. Init => GoodAll
  BY InitGood
<1>3. GoodAll /\ [Next]_vars => GoodAll'
  BY NextGood
<1> QED
  BY <1>1, <1>2, <1>3, PTL DEF Spec, OwnReply

================================================================================
