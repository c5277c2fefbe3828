----------------------------- MODULE FaultMonitor -----------------------------
(***************************************************************************)
(* The notice of peers: the fault monitors of the nodes (deplo/fm.py), the *)
(* deployment managers that pass their messages on, or keep them until the *)
(* actor has registered (deplo/depm.py), and the actors that hand them to  *)
(* their components (run/actor.py).                                        *)
(*                                                                         *)
(* There is one application with one actor on each node.  A fault monitor  *)
(* is a Zyre peer: it sees the others enter and exit, join and leave the   *)
(* group of the application, and whispers and shouts of their actors.      *)
(* Zyre is external: the events of one peer come in the order they were    *)
(* sent, those of several peers in any order, and a peer knows who is in a *)
(* group a little later than he joins or leaves it.  A node that restarts  *)
(* has a new identity, so it would be another element of Node.             *)
(***************************************************************************)
EXTENDS Integers, Sequences, FiniteSets, SequencesExt

CONSTANTS
  Node,
  MaxCommand,   \* launches, halts, deaths and cleanups
  MaxLoss       \* connections lost, nodes that crash or stop

ASSUME FaultAssumption == IsFiniteSet(Node) /\ {MaxCommand, MaxLoss} \subseteq Nat

VARIABLES
  up,        \* nodes whose deployment manager runs
  joined,    \* nodes that are in the group
  link,      \* of a node: the peers its Zyre sends to
  event,     \* of two nodes: events of the second that wait at the first
  monitor,   \* of a node: the variables of the FMMonitor thread
  note,      \* of a node: messages of the monitor to the deployment manager
  hasApp,    \* nodes where the application is set up
  actor,     \* of a node: the actor, and what the deployment manager keeps of it
  cleaned,   \* nodes where the application was cleaned up
  spent      \* what the bounds count

fmVars == <<event, monitor, note>>
vars == <<up, joined, link, fmVars, hasApp, actor, cleaned, spent>>

Off == [state |-> "off", peerQueue |-> <<>>, peers |-> {}, blind |-> {}]
Phase == {"off", "launched", "registered"}
Event == {"ENTER", "JOIN", "LEAVE", "EXIT", "+", "-"}
Note == {"peer+", "peer-"} \X Node

Init ==
  /\ up = Node /\ joined = {} /\ hasApp = {} /\ cleaned = {}
  /\ link = [n \in Node |-> {}]
  /\ event = [n \in Node |-> [m \in Node |-> <<>>]]
  /\ monitor = [n \in Node |-> [alive |-> TRUE, peers |-> {}, known |-> FALSE, group |-> {},
                                slot |-> FALSE, actor |-> FALSE]]
  /\ note = [n \in Node |-> <<>>]
  /\ actor = [n \in Node |-> Off]
  /\ spent = [command |-> 0, loss |-> 0]

\* Is something on before the i-th element of a queue, which was on at first or not, and
\* is switched on and off by some elements?
OnBefore(i, q, first, on, off) ==
  \/ \E j \in DOMAIN q : j < i /\ q[j] \in on /\ \A k \in DOMAIN q : j < k /\ k < i => q[k] \notin off
  \/ first /\ \A k \in DOMAIN q : k < i => q[k] \notin off

Spend(what, bound) == spent[what] < bound /\ spent' = [spent EXCEPT ![what] = @ + 1]

Running(n) == n \in up /\ monitor[n].alive
Pending(n, m, e) == Contains(event[n][m], e)
Notes(head, peers) == [i \in 1 .. Cardinality(peers) |-> <<head, SetToSeq(peers)[i]>>]

\* Zyre: events of n at everyone in a set.
Sent(n, es, to) ==
  [m \in Node |-> IF m \in to THEN [event[m] EXCEPT ![n] = @ \o es] ELSE event[m]]

\* Zyre: who hears a shout of n is in the group, give or take who just joined or left.
Surely(n) == {m \in link[n] \cap joined : n \in link[m] /\ ~Pending(n, m, "JOIN")}
Maybe(n) == {m \in link[n] : m \in joined \/ Pending(n, m, "LEAVE")}
Shouted(n, es) ==
  \E x \in SUBSET (Maybe(n) \ Surely(n)) : event' = Sent(n, es, Surely(n) \cup x)

--------------------------------------------------------------------------------
(* Zyre: external *)

\* n finds m, and greets it with its group.
Connect(n, m) ==
  /\ {n, m} \subseteq up /\ n # m /\ m \notin link[n]
  /\ link' = [link EXCEPT ![n] = @ \cup {m}]
  /\ event' = Sent(n, IF n \in joined THEN <<"ENTER", "JOIN">> ELSE <<"ENTER">>, {m})
  /\ UNCHANGED <<up, joined, monitor, note, hasApp, actor, cleaned, spent>>

\* Two nodes do not hear of each other for too long.
Split(n, m) ==
  /\ Spend("loss", MaxLoss)
  /\ m \in link[n] /\ n \in link[m]
  /\ link' = [link EXCEPT ![n] = @ \ {m}, ![m] = @ \ {n}]
  /\ event' = [event EXCEPT ![n][m] = Append(@, "EXIT"), ![m][n] = Append(@, "EXIT")]
  /\ UNCHANGED <<up, joined, monitor, note, hasApp, actor, cleaned>>

\* A node is lost with all it has: a crash, or the end of run(), which takes leave of
\* the group in the name of the actor.
Gone(n, es) ==
  /\ Spend("loss", MaxLoss)
  /\ n \in up
  /\ up' = up \ {n} /\ joined' = joined \ {n} /\ hasApp' = hasApp \ {n}
  /\ link' = [m \in Node |-> IF m = n THEN {} ELSE link[m] \ {n}]
  /\ event' = [Sent(n, es \o <<"EXIT">>, link[n]) EXCEPT ![n] = [m \in Node |-> <<>>]]
  /\ note' = [note EXCEPT ![n] = <<>>]
  /\ actor' = [actor EXCEPT ![n] = Off]
  /\ UNCHANGED <<monitor, cleaned>>

Crash(n) == Gone(n, <<>>)
Stop(n) == Gone(n, IF monitor[n].known /\ monitor[n].actor THEN <<"-">> ELSE <<>>)

--------------------------------------------------------------------------------
(* Commands of the deployment manager, and what the monitor does with them *)

\* Both groups and actors know the application after setupApp, but an application that
\* is in groups already is left as it is.
\* Mutant: it starts anew.
SetUpAnew(f) == [f EXCEPT !.known = TRUE, !.group = {}, !.slot = TRUE, !.actor = FALSE]
SetUp(f) ==
  IF f.known THEN f
  ELSE [f EXCEPT !.known = TRUE, !.group = {}, !.slot = TRUE, !.actor = FALSE]

setupApp(n) ==
  /\ n \in up /\ n \notin hasApp
  /\ hasApp' = hasApp \cup {n}
  /\ IF monitor[n].alive
       THEN /\ joined' = joined \cup {n}
            /\ event' = Sent(n, <<"JOIN">>, link[n])
            /\ monitor' = [monitor EXCEPT ![n] = SetUp(@)]
       ELSE UNCHANGED <<joined, event, monitor>>
  /\ UNCHANGED <<up, link, note, actor, cleaned, spent>>

\* The controller halts the actor first.
cleanupApp(n) ==
  /\ Spend("command", MaxCommand)
  /\ n \in up \cap hasApp /\ actor[n].state = "off"
  /\ hasApp' = hasApp \ {n} /\ cleaned' = cleaned \cup {n}
  /\ IF monitor[n].alive
       THEN /\ joined' = joined \ {n}
            /\ event' = Sent(n, <<"LEAVE">>, link[n])
            /\ monitor' = [monitor EXCEPT ![n].known = FALSE, ![n].group = {}]
       ELSE UNCHANGED <<joined, event, monitor>>
  /\ UNCHANGED <<up, link, note, actor>>

\* The monitor never tells a new actor that a node is gone which groups kept when it
\* exited, or of which a message for the last actor is on its way: it is blind to it,
\* until the node is a peer and in groups again.
Launched(n) ==
  [Off EXCEPT !.state = "launched",
              !.blind = (monitor[n].group \ monitor[n].peers) \cup
                        {m \in Node : Contains(note[n], <<"peer+", m>>)}]

\* Mutant: an actor that starts is not told of the peers that were there before.
NoneTold(n) == note[n]
Told(n) == note[n] \o Notes("peer+", monitor[n].group)

\* startActor(): addActor of the monitor.  It ends when actors does not know the
\* application.
startActor(n) ==
  /\ Spend("command", MaxCommand)
  /\ n \in up \cap hasApp /\ actor[n].state = "off"
  /\ actor' = [actor EXCEPT ![n] = Launched(n)]
  /\ CASE ~monitor[n].alive -> UNCHANGED <<event, monitor, note>>
       [] monitor[n].alive /\ ~(monitor[n].known /\ monitor[n].slot) ->
            monitor' = [monitor EXCEPT ![n].alive = FALSE] /\ UNCHANGED <<event, note>>
       [] OTHER -> /\ monitor' = [monitor EXCEPT ![n].actor = TRUE]
                   /\ Shouted(n, <<"+">>)
                   /\ note' = [note EXCEPT ![n] = Told(n)]
  /\ UNCHANGED <<up, joined, link, hasApp, cleaned>>

\* stopActor(): delActor of the monitor.
stopActor(n) ==
  /\ Spend("command", MaxCommand)
  /\ n \in up /\ actor[n].state # "off"
  /\ actor' = [actor EXCEPT ![n] = Off]
  /\ IF monitor[n].alive
       THEN monitor' = [monitor EXCEPT ![n].actor = FALSE] /\ Shouted(n, <<"-">>)
       ELSE UNCHANGED <<monitor, event>>
  /\ UNCHANGED <<up, joined, link, note, hasApp, cleaned>>

\* handleProcmon(): the actor died, it is stopped and started again.
restartActor(n) ==
  /\ Spend("command", MaxCommand)
  /\ n \in up /\ actor[n].state # "off"
  /\ actor' = [actor EXCEPT ![n] = Launched(n)]
  /\ IF monitor[n].alive
       THEN Shouted(n, <<"-", "+">>) /\ note' = [note EXCEPT ![n] = Told(n)]
       ELSE UNCHANGED <<event, note>>
  /\ UNCHANGED <<up, joined, link, monitor, hasApp, cleaned>>

--------------------------------------------------------------------------------
(* Events of the peers: run() of the monitor *)

\* The event of m that n takes, and the one after which the thread goes on.
Take(n, m, e) ==
  /\ Running(n) /\ event[n][m] # <<>> /\ Head(event[n][m]) = e
Rest(n, m) == [event EXCEPT ![n][m] = Tail(@)]
Known(n, m) == m \in monitor[n].peers
Tell(n, head, m) == IF monitor[n].actor THEN [note EXCEPT ![n] = Append(@, <<head, m>>)] ELSE note

EventRest == UNCHANGED <<up, joined, link, hasApp, actor, cleaned, spent>>

Enter(n, m) ==
  /\ Take(n, m, "ENTER")
  /\ monitor' = [monitor EXCEPT ![n].peers = @ \cup {m}]
  /\ event' = Rest(n, m) /\ note' = note
  /\ actor' = [actor EXCEPT ![n].blind = @ \ (monitor[n].group \cap {m})]
  /\ UNCHANGED <<up, joined, link, hasApp, cleaned, spent>>

\* Who joins is told of the actor, if it can still be reached.
JoinAnswered(n, m) ==
  LET left == Rest(n, m) IN
  IF monitor[n].actor /\ m \in link[n] THEN [left EXCEPT ![m][n] = Append(@, "+")] ELSE left

Join(n, m) ==
  /\ Take(n, m, "JOIN") /\ Known(n, m)
  /\ monitor' = [monitor EXCEPT ![n].known = TRUE, ![n].group = @ \cup {m},
                               ![n].slot = @ \/ ~monitor[n].known]
  /\ note' = Tell(n, "peer+", m)
  /\ event' = JoinAnswered(n, m)
  /\ actor' = [actor EXCEPT ![n].blind = @ \ {m}]
  /\ UNCHANGED <<up, joined, link, hasApp, cleaned, spent>>

\* A peer that groups does not have raises a KeyError, and the thread ends.
Leave(n, m) ==
  /\ Take(n, m, "LEAVE") /\ Known(n, m)
  /\ event' = Rest(n, m)
  /\ IF monitor[n].known /\ m \notin monitor[n].group
       THEN monitor' = [monitor EXCEPT ![n].alive = FALSE] /\ note' = note
       ELSE /\ monitor' = [monitor EXCEPT ![n].group = @ \ {m}]
            /\ note' = Tell(n, "peer-", m)
  /\ EventRest

\* Mutant: the peer is forgotten before its groups are looked at.
ExitUntold(n, m) == note
\* The peer stays in groups.
ExitTold(n, m) == IF m \in monitor[n].group THEN Tell(n, "peer-", m) ELSE note

Exit(n, m) ==
  /\ Take(n, m, "EXIT") /\ Known(n, m)
  /\ event' = Rest(n, m)
  /\ monitor' = [monitor EXCEPT ![n].peers = @ \ {m}]
  /\ note' = ExitTold(n, m)
  /\ EventRest

\* A shout or a whisper for an application that groups does not know makes an entry.
Message(n, m) ==
  \E e \in {"+", "-"} :
    /\ Take(n, m, e) /\ Known(n, m)
    /\ event' = Rest(n, m)
    /\ monitor' = IF monitor[n].known THEN monitor
                  ELSE [monitor EXCEPT ![n].known = TRUE, ![n].group = {m}]
    /\ note' = Tell(n, IF e = "+" THEN "peer+" ELSE "peer-", m)
    /\ EventRest

--------------------------------------------------------------------------------
(* The deployment manager and the actor *)

\* The actor tells its components.
handlePeerStateChange(peers, msg) ==
  IF msg[1] = "peer+" THEN peers \cup {msg[2]} ELSE peers \ {msg[2]}

\* Mutant: every message waits.
Waits(n) == IF actor[n].state = "off" THEN actor
            ELSE [actor EXCEPT ![n].peerQueue = Append(@, Head(note[n]))]
\* A message for nobody is dropped, one for an actor that has not registered waits, and
\* any other goes to the actor, which takes its messages in order.
Passed(n) ==
  CASE actor[n].state = "off" -> actor
    [] actor[n].state = "launched" -> [actor EXCEPT ![n].peerQueue = Append(@, Head(note[n]))]
    [] OTHER -> [actor EXCEPT ![n].peers = handlePeerStateChange(@, Head(note[n]))]

handleFMMon(n) ==
  /\ note[n] # <<>>
  /\ note' = [note EXCEPT ![n] = Tail(@)]
  /\ actor' = Passed(n)
  /\ UNCHANGED <<up, joined, link, event, monitor, hasApp, cleaned, spent>>

\* The messages go to the actor in order: the last one about a peer counts.
PeerAfter(q, first, m) == OnBefore(Len(q) + 1, q, first, {<<"peer+", m>>}, {<<"peer-", m>>})
handlePeerQueue(n) == {m \in Node : PeerAfter(actor[n].peerQueue, FALSE, m)}

\* handleActorReg() ends with handlePeerQueue().
handleActorReg(n) ==
  /\ actor[n].state = "launched"
  /\ actor' = [actor EXCEPT ![n].state = "registered", ![n].peerQueue = <<>>,
                            ![n].peers = handlePeerQueue(n)]
  /\ UNCHANGED <<up, joined, link, event, monitor, note, hasApp, cleaned, spent>>

--------------------------------------------------------------------------------
(* Specification *)

ZyreNext == \E n \in Node :
  \/ Crash(n) \/ Stop(n)
  \/ \E m \in Node : Connect(n, m) \/ Split(n, m)

CommandNext == \E n \in Node :
  setupApp(n) \/ cleanupApp(n) \/ startActor(n) \/ stopActor(n) \/ restartActor(n)

EventNext == \E n, m \in Node :
  Enter(n, m) \/ Join(n, m) \/ Leave(n, m) \/ Exit(n, m) \/ Message(n, m)

PassNext == \E n \in Node : handleFMMon(n) \/ handleActorReg(n)

Next == ZyreNext \/ CommandNext \/ EventNext \/ PassNext

Spec == Init /\ [][Next]_vars

--------------------------------------------------------------------------------
(* Properties *)

\* Types; messages wait only for an actor that has yet to register, and who is not a
\* peer is seen to enter before anything else is heard of it.
TypeOK ==
  /\ up \subseteq Node /\ joined \subseteq up /\ hasApp \subseteq up /\ cleaned \subseteq Node
  /\ link \in [Node -> SUBSET Node]
  /\ event \in [Node -> [Node -> Seq(Event)]]
  /\ monitor \in [Node -> [alive : BOOLEAN, peers : SUBSET Node, known : BOOLEAN,
                           group : SUBSET Node, slot : BOOLEAN, actor : BOOLEAN]]
  /\ note \in [Node -> Seq(Note)]
  /\ actor \in [Node -> [state : Phase, peerQueue : Seq(Note), peers : SUBSET Node,
                         blind : SUBSET Node]]
  /\ spent \in [command : 0 .. MaxCommand, loss : 0 .. MaxLoss]
  /\ \A n \in Node :
       /\ actor[n].state # "launched" => actor[n].peerQueue = <<>>
       /\ \A m \in Node : Running(n) /\ event[n][m] # <<>> /\ ~Known(n, m)
                            => Head(event[n][m]) = "ENTER"

\* Nothing is on its way to the actor of n that is about m.
Quiet(n, m) ==
  /\ event[n][m] = <<>> /\ event[m][n] = <<>> /\ note[n] = <<>>
  /\ actor[n].state = "registered"
Together(n, m) == n # m /\ m \in link[n] /\ n \in link[m]

\* Two actors of the application on connected nodes come to know of each other,
\* in whatever order the nodes met, the application was set up, and the actors were
\* started, registered and died; unless the application was cleaned up on the node, or
\* the monitor of the other one has ended.
PeersMeet ==
  \A n, m \in Node :
    n \notin cleaned /\ monitor[m].alive /\ Together(n, m) /\ Quiet(n, m)
      /\ actor[m].state # "off" => m \in actor[n].peers

\* A node that is lost is not a peer any more, unless the actor was started when it was
\* gone already: groups keeps it, and the actor is told it is there.
LostTold ==
  \A n, m \in Node :
    n \notin cleaned /\ Quiet(n, m) /\ m \notin link[n] /\ n \notin link[m]
      => m \notin actor[n].peers \/ m \in actor[n].blind

\* The thread of the monitor does not end by an exception, unless the application was
\* cleaned up on its node.
MonitorRuns == \A n \in Node : n \notin cleaned => monitor[n].alive

\* The inductive invariant of the properties above.  What the manager, the monitor and
\* Zyre know of the application and its actor is the same, and a node that is lost has
\* nothing left.
BooksOf(n) ==
  /\ n \in up /\ monitor[n].alive =>
       (n \in joined <=> n \in hasApp) /\ (monitor[n].actor <=> actor[n].state # "off")
  /\ n \in up /\ monitor[n].actor => n \in joined
  /\ n \notin link[n]
  /\ actor[n].state # "off" => n \in hasApp
  /\ actor[n].state # "registered" => actor[n].peers = {}
  /\ n \notin up => /\ actor[n] = Off /\ note[n] = <<>> /\ link[n] = {}
                   /\ \A m \in Node : event[n][m] = <<>> /\ n \notin link[m]
  /\ n \notin cleaned => monitor[n].alive /\ (monitor[n].known => monitor[n].slot)
  /\ n \notin cleaned /\ ~monitor[n].known => n \notin joined /\ monitor[n].group = {}

\* The events of m before n, read from what n knows of m, tell when m is its peer, ...
Entered(q, peer, linked) ==
  /\ \A i \in DOMAIN q : q[i] # "ENTER" => OnBefore(i, q, peer, {"ENTER"}, {"EXIT"})
  /\ linked <=> OnBefore(Len(q) + 1, q, peer, {"ENTER"}, {"EXIT"})

\* ... when it is at least in the group, ...
Grouped(q, member, present) ==
  /\ \A i \in DOMAIN q : q[i] \in {"LEAVE", "+", "-"} => OnBefore(i, q, member, {"JOIN"}, {"LEAVE"})
  /\ present => OnBefore(Len(q) + 1, q, member, {"JOIN"}, {"LEAVE"})

\* ... and when the actor has been told that m's is there.
Announced(q, told, there) ==
  there => OnBefore(Len(q) + 1, q, told, {"JOIN", "+"}, {"LEAVE", "EXIT", "-"})

\* The actor of n takes m for a peer, when it has what is on its way to it.
Believes(n, m) == PeerAfter(actor[n].peerQueue \o note[n], m \in actor[n].peers, m)

\* So it is told, or will be when it starts.
ToldOf(n, m) == m \in monitor[n].group /\ (actor[n].state # "off" => Believes(n, m))

\* The actor of m has announced itself to n: nothing n has sent to m will make it do so.
There(n, m) ==
  /\ Together(n, m) /\ monitor[m].alive /\ actor[m].state # "off"
  /\ n \in joined /\ ~Pending(m, n, "JOIN")

StreamOf(n, m) ==
  /\ Entered(event[n][m], m \in monitor[n].peers, n \in link[m])
  /\ n \notin cleaned =>
       /\ Grouped(event[n][m], m \in monitor[n].group, n \in link[m] /\ m \in joined)
       /\ Announced(event[n][m], ToldOf(n, m), There(n, m))

\* What an actor takes for a peer is one, in groups, or one that it is blind to.
BeliefOf(n, m) ==
  n \notin cleaned /\ actor[n].state # "off" /\ Believes(n, m) =>
    m \in actor[n].blind \/ (m \in monitor[n].peers /\ m \in monitor[n].group)

IInv ==
  /\ TypeOK
  /\ \A n \in Node : BooksOf(n)
  /\ \A n, m \in Node : BeliefOf(n, m) /\ (n \in up => StreamOf(n, m))

\* Also when the application was cleaned up and set up again.
MonitorSurvives == \A n \in Node : monitor[n].alive

================================================================================
