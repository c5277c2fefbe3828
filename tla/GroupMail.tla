------------------------------- MODULE GroupMail -------------------------------
(***************************************************************************)
(* Messages of the components in a coordinated group                       *)
(* (src/src/riaps/run/dc.py, dcPorts.py): to the whole group (MSG), to the *)
(* leader (MTL) and from the leader to a member (MFL).  A component hands  *)
(* a message to its group thread over a pair of sockets and waits, in      *)
(* send_port(), for the acknowledgement.  Messages that arrive meanwhile   *)
(* on the same socket are handled first, and their handlers may send, and  *)
(* wait, in their turn.                                                    *)
(*                                                                         *)
(* Abstractions.  A message is its number.  A handler receives its message *)
(* at once, as the default handlers of comp.py demand, and then sends one  *)
(* message or none.  A component answers a member by the identity it was   *)
(* given, at once or later: the address of the query port in its process,  *)
(* which members on two nodes may share.  ZeroMQ is external: a ROUTER     *)
(* sends to a socket that has the identity, and of two it may turn one     *)
(* away.  Who leads is the business of GroupThread; here each thread       *)
(* follows anybody at any time.  A send that fails in ZeroMQ (PortError,   *)
(* which ends the group thread) is left out, and so are timed groups;      *)
(* votes travel in the same way, see GroupPoll.                            *)
(*                                                                         *)
(* An operator just before another one with the same parameters is a       *)
(* mistake that could have been made there.                                *)
(***************************************************************************)
EXTENDS Naturals, Sequences, FiniteSets, SequencesExt

CONSTANTS
  Member,      \* members of the group
  FirstLeader, \* the leader they follow at the start
  Ident,       \* identities of query ports: addresses in a process
  FirstName,   \* those of the members at the start
  None,        \* Python's None
  MaxSend,     \* bound: messages that are sent
  MaxGroup,    \* bound: those of them that go to the whole group
  MaxChange,   \* bound: changes of a leader
  MaxLeave,    \* bound: members that leave
  MaxRare      \* bound: these three together

ASSUME GroupMailAssumption ==
  /\ None \notin Member \cup Ident \cup (Member \X Ident) /\ FirstLeader \in Member
  /\ FirstName \in [Member -> Ident]
  /\ {MaxSend, MaxGroup, MaxChange, MaxLeave, MaxRare} \subseteq Nat

VARIABLES
  joined,   \* members whose component has joined the group
  name,     \* the identity of the query port of each: str(id(self))
  calls,    \* the calls of send_port() of a component, the innermost one last
  asked,    \* whose messages the component of a leader has not answered yet
  toThread, \* frames from the component to its group thread
  toComp,   \* frames from the group thread to its component
  leader,   \* the leader of a thread, to which its query port is connected
  identity, \* the identity the answer port of a thread has received from, or sends to
  mail,     \* what is under way between the threads
  spent     \* use made of the bounds

compVars == <<joined, name, calls, asked>>
threadVars == <<leader, identity, mail>>
vars == <<compVars, toThread, toComp, threadVars, spent>>

Id == 1 .. MaxSend
MemberOrNone == Member \cup {None}
\* Who has asked, and the identity it was asked under: all that the leader sees.
Asker == Member \X Ident
AskerOrNone == Asker \cup {None}

Call == [id : Id, alone : BOOLEAN]
Request == [kind : {"MSG", "MTL", "MFL"}, to : AskerOrNone, id : Id]
Frame == [kind : {"ACK", "NLD", "MSG", "MTL", "MFL"}, who : AskerOrNone, id : Id]
Mail == [kind : {"MSG", "MTL", "MFL"}, from : Member, to : Member, re : AskerOrNone, id : Id]

Rare == spent.group + spent.change + spent.leave < MaxRare

IsReply(f) == f.kind \in {"ACK", "NLD"}

Init ==
  /\ joined = Member
  /\ name = FirstName
  /\ calls = [m \in Member |-> <<>>]
  /\ asked = [m \in Member |-> {}]
  /\ toThread = [m \in Member |-> <<>>]
  /\ toComp = [m \in Member |-> <<>>]
  /\ leader = [m \in Member |-> FirstLeader]
  /\ identity = [m \in Member |-> None]
  /\ mail = {}
  /\ spent = [send |-> 0, group |-> 0, change |-> 0, leave |-> 0]

--------------------------------------------------------------------------------
(* The component *)

\* send(), sendToLeader() and sendToMember(): without a leader the latter two return
\* at once.  The leader is that of the group thread, read without a lock.
Sendable(m, A) ==
  (IF spent.group < MaxGroup /\ Rare THEN {[kind |-> "MSG", to |-> None]} ELSE {}) \cup
  (IF leader[m] = None THEN {}
   ELSE {[kind |-> "MTL", to |-> None]} \cup {[kind |-> "MFL", to |-> p] : p \in A})

\* send_port(): the frame is sent, and the call waits.  Calls that wait at the same time
\* are not alone.
send_port(m, f) ==
  LET n == spent.send + 1
      others == [i \in DOMAIN calls[m] |-> [calls[m][i] EXCEPT !.alone = FALSE]]
  IN /\ n <= MaxSend
     /\ spent' = [spent EXCEPT !.send = n, !.group = IF f.kind = "MSG" THEN @ + 1 ELSE @]
     /\ toThread' = [toThread EXCEPT ![m] = Append(@, [kind |-> f.kind, to |-> f.to, id |-> n])]
     /\ calls' = [calls EXCEPT ![m] = Append(others, [id |-> n, alone |-> @ = <<>>])]

\* A handler of something else (a timer, a port) sends.
Send(m) ==
  /\ m \in joined /\ calls[m] = <<>>
  /\ \E f \in Sendable(m, asked[m]) :
       send_port(m, f) /\ asked' = [asked EXCEPT ![m] = @ \ {f.to}]
  /\ UNCHANGED <<joined, name, toComp, threadVars>>

\* handleMessage(), called by the scheduler, or by send_port() that waits: the handler
\* receives the message and may send one.
handleMessage(m) ==
  /\ m \in joined /\ toComp[m] # <<>> /\ ~IsReply(Head(toComp[m]))
  /\ toComp' = [toComp EXCEPT ![m] = Tail(@)]
  /\ LET msg == Head(toComp[m])
         A == asked[m] \cup (IF msg.kind = "MTL" THEN {msg.who} ELSE {})
     IN \/ /\ asked' = [asked EXCEPT ![m] = A]
           /\ UNCHANGED <<calls, toThread, spent>>
        \/ \E f \in Sendable(m, A) :
             send_port(m, f) /\ asked' = [asked EXCEPT ![m] = A \ {f.to}]
  /\ UNCHANGED <<joined, name, threadVars>>

\* The innermost call takes the reply and returns.  If none waits, the scheduler reads
\* it: an unknown control message.
Return(m) ==
  /\ m \in joined /\ toComp[m] # <<>> /\ IsReply(Head(toComp[m]))
  /\ toComp' = [toComp EXCEPT ![m] = Tail(@)]
  /\ calls' = [calls EXCEPT ![m] = IF @ = <<>> THEN @ ELSE Front(@)]
  /\ UNCHANGED <<joined, name, asked, toThread, threadVars, spent>>

\* leaveGroup(): the thread publishes that the member leaves, and ends.
leave(m) ==
  /\ m \in joined /\ calls[m] = <<>>
  /\ spent.leave < MaxLeave /\ Rare /\ spent' = [spent EXCEPT !.leave = @ + 1]
  /\ joined' = joined \ {m}
  /\ toComp' = [toComp EXCEPT ![m] = <<>>]
  /\ asked' = [asked EXCEPT ![m] = {}]
  /\ leader' = [leader EXCEPT ![m] = None]
  /\ identity' = [identity EXCEPT ![m] = None]
  /\ mail' = {e \in mail : e.to # m}
  /\ UNCHANGED <<name, calls, toThread>>

\* joinGroup(), with a group object, a thread and ports that are new.
joinGroup(m) ==
  /\ m \notin joined
  /\ joined' = joined \cup {m}
  /\ \E i \in Ident : name' = [name EXCEPT ![m] = i]
  /\ UNCHANGED <<calls, asked, toThread, toComp, threadVars, spent>>

--------------------------------------------------------------------------------
(* The group thread: messages of its component (handleCompMessage) *)

Ack(f) == [kind |-> "ACK", who |-> None, id |-> f.id]
NoLeader(f) == [kind |-> "NLD", who |-> None, id |-> f.id]

Takes(m, kind) == m \in joined /\ toThread[m] # <<>> /\ Head(toThread[m]).kind = kind

\* The frame is taken, R goes back, E to other threads.
Answer(m, R, E) ==
  /\ toThread' = [toThread EXCEPT ![m] = Tail(@)]
  /\ toComp' = [toComp EXCEPT ![m] = @ \o R]
  /\ mail' = mail \cup E
  /\ UNCHANGED <<compVars, leader, spent>>

\* GROUP_MSG: published to all, the member itself included.
sendGroup(m) ==
  LET f == Head(toThread[m]) IN
  /\ Takes(m, "MSG")
  /\ Answer(m, <<Ack(f)>>,
            {[kind |-> "MSG", from |-> m, to |-> p, re |-> None, id |-> f.id] : p \in joined})
  /\ UNCHANGED identity

Own(m, kind, f) == [kind |-> kind, who |-> <<m, name[m]>>, id |-> f.id]

\* GROUP_MTL: the leader's own message goes back to its component.  Mutants: without a
\* leader nothing is said; the leader's message is acknowledged like all others, too.
ToLeaderSilent(m, f) ==
  IF leader[m] = None THEN <<>>
  ELSE IF leader[m] = m THEN <<Ack(f), Own(m, "MTL", f)>>
  ELSE <<Ack(f)>>
ToLeaderTwice(m, f) ==
  IF leader[m] = None THEN <<NoLeader(f)>>
  ELSE IF leader[m] = m THEN <<Ack(f), Own(m, "MTL", f), Ack(f)>>
  ELSE <<Ack(f)>>
ToLeader(m, f) ==
  IF leader[m] = None THEN <<NoLeader(f)>>
  ELSE IF leader[m] = m THEN <<Ack(f), Own(m, "MTL", f)>>
  ELSE <<Ack(f)>>

sendToLeader(m) ==
  LET f == Head(toThread[m]) IN
  /\ Takes(m, "MTL")
  /\ Answer(m, ToLeader(m, f),
       IF leader[m] \in {None, m} THEN {}
       ELSE {[kind |-> "MTL", from |-> m, to |-> leader[m], re |-> <<m, name[m]>>, id |-> f.id]})
  /\ UNCHANGED identity

\* GROUP_MFL: a thread that has a leader sends it through its own answer port, whether
\* it leads or not; what its own component had sent (identity 0) goes back to it.
\* Mutant: to whom the port has received from last.
set_identityNot(m, id) == UNCHANGED identity
set_identity(m, id) == identity' = [identity EXCEPT ![m] = id]

\* Whom the ROUTER of m may take for the one with an identity; the query port of one that
\* leads is not connected.
Bearers(m, id) == {p \in joined \ {m} : leader[p] = m /\ name[p] = id}

sendToMember(m) ==
  LET f == Head(toThread[m]) IN
  /\ Takes(m, "MFL")
  /\ IF leader[m] = None
       THEN Answer(m, <<NoLeader(f)>>, {}) /\ UNCHANGED identity
     ELSE IF f.to[1] = m
       THEN Answer(m, <<Ack(f), Own(m, "MFL", f)>>, {}) /\ UNCHANGED identity
     ELSE /\ set_identity(m, f.to[2])
          /\ \/ Bearers(m, identity'[m]) = {} /\ Answer(m, <<Ack(f)>>, {})
             \/ \E p \in Bearers(m, identity'[m]) :
                  Answer(m, <<Ack(f)>>,
                    {[kind |-> "MFL", from |-> m, to |-> p, re |-> f.to, id |-> f.id]})

--------------------------------------------------------------------------------
(* The group thread: messages of the others *)

Hand(m, e, who) ==
  /\ m \in joined /\ e.to = m
  /\ mail' = mail \ {e}
  /\ toComp' = [toComp EXCEPT ![m] = Append(@, [kind |-> e.kind, who |-> who, id |-> e.id])]
  /\ UNCHANGED <<compVars, toThread, leader, spent>>

\* GROUP_MSG in handleNetMessage().
recvGroup(m, e) == e.kind = "MSG" /\ Hand(m, e, None) /\ UNCHANGED identity

\* handleMessageForLeader(), also by one that does not lead any more.
handleMessageForLeader(m, e) ==
  /\ e.kind = "MTL"
  /\ Hand(m, e, e.re)
  /\ identity' = [identity EXCEPT ![m] = e.re[2]]

\* handleMessageForMember(): from the leader that the query port is connected to.
handleMessageForMember(m, e) ==
  /\ e.kind = "MFL" /\ leader[m] = e.from
  /\ Hand(m, e, e.re)
  /\ UNCHANGED identity

\* The thread follows somebody else, or nobody: its query port is connected anew.
ChangeLeader(m, l) ==
  /\ m \in joined /\ l \in joined \cup {None} /\ l # leader[m]
  /\ spent.change < MaxChange /\ Rare /\ spent' = [spent EXCEPT !.change = @ + 1]
  /\ leader' = [leader EXCEPT ![m] = l]
  /\ UNCHANGED <<compVars, toThread, toComp, identity, mail>>

\* What was sent over a connection that is closed, to a member that has left, or by one
\* of two with the same identity, may be lost (environment).
Lose(e) ==
  /\ \/ e.kind = "MTL" /\ leader[e.from] # e.to
     \/ e.kind = "MTL" /\ Bearers(e.to, e.re[2]) \ {e.from} # {}
     \/ e.kind = "MFL" /\ leader[e.to] # e.from
     \/ {e.from, e.to} \ joined # {}
  /\ mail' = mail \ {e}
  /\ UNCHANGED <<compVars, toThread, toComp, leader, identity, spent>>

--------------------------------------------------------------------------------
(* Specification *)

Component(m) == Send(m) \/ handleMessage(m) \/ Return(m) \/ leave(m) \/ joinGroup(m)

Thread(m) ==
  \/ sendGroup(m) \/ sendToLeader(m) \/ sendToMember(m)
  \/ \E e \in mail : recvGroup(m, e) \/ handleMessageForLeader(m, e) \/ handleMessageForMember(m, e)

Next ==
  \/ \E m \in Member : Component(m) \/ Thread(m) \/ \E l \in MemberOrNone : ChangeLeader(m, l)
  \/ \E e \in mail : Lose(e)

Spec == Init /\ [][Next]_vars

--------------------------------------------------------------------------------
(* Properties *)

TypeOK ==
  /\ joined \subseteq Member
  /\ calls \in [Member -> Seq(Call)]
  /\ name \in [Member -> Ident]
  /\ asked \in [Member -> SUBSET Asker]
  /\ toThread \in [Member -> Seq(Request)]
  /\ toComp \in [Member -> Seq(Frame)]
  /\ leader \in [Member -> MemberOrNone] /\ identity \in [Member -> Ident \cup {None}]
  /\ mail \subseteq Mail
  /\ spent \in [send : 0 .. MaxSend, group : 0 .. MaxGroup, change : 0 .. MaxChange,
               leave : 0 .. MaxLeave]

Replies(m) == {n \in DOMAIN toComp[m] : IsReply(toComp[m][n])}

\* Types; and for every call of send_port() that waits, however deep, there is exactly
\* one request before the thread or one reply before the component: a send always comes
\* back, and no reply is left that a later one could take.
SendsPaired ==
  TypeOK /\ \A m \in Member : Len(calls[m]) = Len(toThread[m]) + Cardinality(Replies(m))

\* A send that waits alone returns what became of its own message (send_port()).  Of two
\* that wait at the same time the inner one returns first, with the reply to the outer
\* one, so it may report a message as sent that had no leader to go to.
OwnReply ==
  [][\A m \in Member :
       Len(calls'[m]) < Len(calls[m]) /\ Last(calls[m]).alone
         => Last(calls[m]).id = Head(toComp[m]).id]_vars

\* An answer is given to the component of a member whose query port has the identity
\* under which it was asked, and has had it since the member joined: to the one that had
\* asked, unless two had the same.  That is so although messages of other members come in
\* between and leaders change (sendToMember(), the identity of the answer port).
AnswerReturns ==
  \A m \in Member : \A i \in DOMAIN toComp[m] :
    toComp[m][i].kind = "MFL" => toComp[m][i].who[2] = name[m]

\* The inductive invariant: what makes the three properties above hold.  Messages to a
\* leader and to a member name who asked; an answer under way is addressed to one with
\* the identity of that; nothing is under way to one that has not joined; a call that
\* waits alone is the only one, and all that is under way for it is its own.
AskerNamed ==
  \A m \in Member :
    /\ \A i \in DOMAIN toThread[m] : toThread[m][i].kind = "MFL" => toThread[m][i].to \in Asker
    /\ \A i \in DOMAIN toComp[m] : toComp[m][i].kind \in {"MTL", "MFL"} => toComp[m][i].who \in Asker
AnswersAddressed ==
  \A e \in mail :
    /\ e.kind \in {"MTL", "MFL"} => e.re \in Asker
    /\ e.kind = "MFL" => e.re[2] = name[e.to] /\ e.to \in joined
Away == \A m \in Member \ joined : toComp[m] = <<>>
LoneCall ==
  \A m \in Member : \A n \in DOMAIN calls[m] : calls[m][n].alone =>
    /\ Len(calls[m]) = 1
    /\ \A i \in DOMAIN toThread[m] : toThread[m][i].id = calls[m][n].id
    /\ \A i \in Replies(m) : toComp[m][i].id = calls[m][n].id
IInv ==
  /\ SendsPaired
  /\ AnswerReturns
  /\ AskerNamed
  /\ AnswersAddressed
  /\ Away
  /\ LoneCall

\* "Return False (indicating operation failure) if no leader" (dc.py:1138): a send does
\* not report what became of another one.
EveryOwnReply ==
  [][\A m \in Member :
       Len(calls'[m]) < Len(calls[m]) =>
         \A i \in DOMAIN toComp[m] :
           IsReply(toComp[m][i]) /\ toComp[m][i].id = Last(calls[m]).id
             => toComp[m][i].kind = Head(toComp[m]).kind]_vars

================================================================================
