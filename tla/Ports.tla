--------------------------------- MODULE Ports ---------------------------------
(***************************************************************************)
(* Message ports of RIAPS components (src/src/riaps/run/port.py and the    *)
(* modules of the kinds of ports).  A connecting port (req, clt, qry, sub) *)
(* has one socket, connected to all the servers it was told of; a binding  *)
(* port (rep, srv, ans, pub) has one socket for its life; an inside port   *)
(* (ins) is bound too, and the plugs of its inner threads connect to it.   *)
(*                                                                         *)
(* Abstractions.  A request, a query or an item is its sender and its      *)
(* number.  ZeroMQ is external: a REQ socket sends and receives in turn,   *)
(* unless it is relaxed and correlates replies; REP answers what it has    *)
(* received last; ROUTER sends to a socket that has the identity it is     *)
(* given, and of two that have the same it may turn one away; a message to *)
(* a process that has died is lost; a socket that is closed may take along *)
(* what it sent.  The identity of a qry port or a plug is the address of   *)
(* an object in its process: ports of two processes may have the same, and *)
(* a component tells an asker by nothing else.  An operation that only     *)
(* raises an exception or returns None or False takes no step.             *)
(*                                                                         *)
(* An operator just before another one with the same parameters is a       *)
(* mistake that could have been made there.                                *)
(***************************************************************************)
EXTENDS Integers, Sequences, SequencesExt

CONSTANTS
  Req, Clt, Qry, Sub, Plug,  \* connecting ports, and plugs of inner threads
  Rep, Ans, Pub, Ins,        \* binding ports (Rep: rep and srv)
  Identity,    \* identity of the socket of a connecting port: id(self), id(thread)
  World,       \* sets of ports that are run together
  None,        \* Python's None
  MaxSend,     \* bound: messages sent by each port
  MaxReset,    \* bound: resets of each port
  MaxCrash     \* bound: binding ports whose process dies

Conn == Req \cup Clt \cup Qry \cup Sub \cup Plug
Bind == Rep \cup Ans \cup Pub \cup Ins
Ident == {Identity[c] : c \in Conn}

ASSUME PortsAssumption ==
  /\ World \subseteq SUBSET (Conn \cup Bind)
  /\ None \notin Conn \cup Bind \cup Ident
  /\ Conn \cap Bind = {}
  /\ (Req \cup Clt) \cap (Qry \cup Sub \cup Plug) = {} /\ Sub \cap (Qry \cup Plug) = {}
  /\ Rep \cap (Ans \cup Pub \cup Ins) = {} /\ Ins \cap (Ans \cup Pub) = {}
  /\ Qry \cap Plug = {}
  /\ \A c, d \in Plug : Identity[c] = Identity[d] => c = d  \* threads of one process
  /\ {MaxSend, MaxReset, MaxCrash} \subseteq Nat

VARIABLES
  world,     \* the ports there are
  servers,   \* self.servers of each connecting port
  linked,    \* what the socket of each is connected to
  gen,       \* number of resets of each
  relaxed,   \* is its socket set REQ_RELAXED and REQ_CORRELATE?
  waits,     \* number of the request that its REQ socket waits for, or 0
  sent,      \* number of messages it, or a publisher, has sent
  inbox,     \* messages that have come in at each port
  busy,      \* request that a REP socket is to answer, or None
  identity,  \* identity kept by an ans or ins port, or None
  open,      \* queries that the component's code has not answered yet
  got,       \* the last reply each port has returned, or None
  dead       \* binding ports whose process has died

connVars == <<servers, linked, gen, relaxed>>
bindVars == <<busy, identity, open, dead>>
portsVars == <<world, connVars, waits, sent, inbox, bindVars, got>>

\* from: who asked or published, number: which of its messages, gen: with which
\* of its sockets.
Message == [from: Conn \cup Pub, number: Nat, gen: Nat]

\* Whom a connecting port is told of by the discovery service; a plug connects to
\* the ins port it is made by.
Servers(c) ==
  world \cap CASE c \in Req \cup Clt -> Rep
               [] c \in Qry -> Ans
               [] c \in Sub -> Pub
               [] OTHER -> Ins

Lockstep == Req \cup Clt
Routed == Ans \cup Ins

PortsInit ==
  /\ world \in World
  /\ servers = [c \in Conn |-> {}]
  /\ linked = [c \in Conn |-> {}]
  /\ gen = [c \in Conn |-> 0]
  /\ relaxed = [c \in Conn |-> c \in Req]
  /\ waits = [c \in Conn |-> 0]
  /\ sent = [x \in Conn \cup Pub |-> 0]
  /\ inbox = [x \in Conn \cup Bind |-> <<>>]
  /\ busy = [b \in Bind |-> None]
  /\ identity = [b \in Bind |-> None]
  /\ open = [b \in Bind |-> {}]
  /\ got = [c \in Conn |-> None]
  /\ dead = {}

--------------------------------------------------------------------------------
(* Connecting ports *)

\* update(): connect to a server that is new.
update(c, b) ==
  /\ c \in Conn \ Plug /\ b \in Servers(c) \ servers[c]
  /\ servers' = [servers EXCEPT ![c] = @ \cup {b}]
  /\ linked' = [linked EXCEPT ![c] = @ \cup {b}]
  /\ UNCHANGED <<world, gen, relaxed, waits, sent, inbox, bindVars, got>>

\* setupPlug(): once for each inner thread.
setupPlug(c, b) ==
  /\ c \in Plug /\ b \in Servers(c) /\ servers[c] = {}
  /\ servers' = [servers EXCEPT ![c] = {b}]
  /\ linked' = [linked EXCEPT ![c] = {b}]
  /\ UNCHANGED <<world, gen, relaxed, waits, sent, inbox, bindVars, got>>

Delivered(c, b) ==
  inbox' = IF b \in dead THEN inbox
           ELSE [inbox EXCEPT ![b] =
                  Append(@, [from |-> c, number |-> sent[c] + 1, gen |-> gen[c]])]

\* send() of a req or clt port: refused out of turn, unless relaxed.
SendRequest(c, b) ==
  /\ c \in Lockstep /\ servers[c] # {} /\ b \in linked[c] /\ sent[c] < MaxSend
  /\ waits[c] = 0 \/ relaxed[c]
  /\ Delivered(c, b)
  /\ waits' = [waits EXCEPT ![c] = sent[c] + 1]
  /\ sent' = [sent EXCEPT ![c] = @ + 1]
  /\ UNCHANGED <<world, connVars, bindVars, got>>

\* recv() of a req or clt port: a correlating socket passes over replies to
\* requests it has given up.
Correlated(c) == {n \in DOMAIN inbox[c] : relaxed[c] => inbox[c][n].number = waits[c]}

ReceiveReply(c) ==
  /\ c \in Lockstep /\ servers[c] # {} /\ waits[c] # 0
  /\ \E n \in Correlated(c) :
       /\ \A k \in Correlated(c) : n <= k
       /\ got' = [got EXCEPT ![c] = inbox[c][n]]
       /\ inbox' = [inbox EXCEPT ![c] = SubSeq(@, n + 1, Len(@))]
  /\ waits' = [waits EXCEPT ![c] = 0]
  /\ UNCHANGED <<world, connVars, sent, bindVars>>

\* send() and recv() of a qry port, or of a plug: at any time.
SendQuery(c, b) ==
  /\ c \in Qry \cup Plug /\ servers[c] # {} /\ b \in linked[c] /\ sent[c] < MaxSend
  /\ Delivered(c, b)
  /\ sent' = [sent EXCEPT ![c] = @ + 1]
  /\ UNCHANGED <<world, connVars, waits, bindVars, got>>

ReceiveAny(c) ==
  /\ c \in Qry \cup Sub \cup Plug /\ inbox[c] # <<>>
  /\ got' = [got EXCEPT ![c] = Head(inbox[c])]
  /\ inbox' = [inbox EXCEPT ![c] = Tail(@)]
  /\ UNCHANGED <<world, connVars, waits, sent, bindVars>>

\* The socket is not replaced: it only starts over.
resetConnSocketKept(c) ==
  /\ gen[c] < MaxReset
  /\ gen' = [gen EXCEPT ![c] = @ + 1]
  /\ waits' = [waits EXCEPT ![c] = 0]
  /\ UNCHANGED <<relaxed, linked, inbox>>
\* resetConnSocket(): a new socket, connected to the servers there are.  reset()
\* of a req port passes it none of the options of setupSocket().
resetConnSocket(c) ==
  /\ gen[c] < MaxReset
  /\ gen' = [gen EXCEPT ![c] = @ + 1]
  /\ relaxed' = [relaxed EXCEPT ![c] = FALSE]
  /\ waits' = [waits EXCEPT ![c] = 0]
  /\ linked' = [linked EXCEPT ![c] = servers[c]]
  /\ inbox' = [inbox EXCEPT ![c] = <<>>]

Reset(c) ==
  /\ c \in world \cap (Conn \ Plug)
  /\ resetConnSocket(c)
  /\ UNCHANGED <<world, servers, sent, bindVars, got>>

\* Whom a ROUTER may take for the one with an identity.
Bearers(b, id) == {c \in Qry \cup Plug : b \in linked[c] /\ Identity[c] = id}

\* closeConnSocket(): what the old socket has sent, and nobody has read yet, may be
\* lost with it; and what comes from one of two with the same identity.
Lose(b, n) ==
  /\ b \in Bind
  /\ LET asker == inbox[b][n].from IN
     \/ inbox[b][n].gen # gen[asker]
     \/ b \in Routed /\ Bearers(b, Identity[asker]) \ {asker} # {}
  /\ inbox' = [inbox EXCEPT ![b] = RemoveAt(@, n)]
  /\ UNCHANGED <<world, connVars, waits, sent, bindVars, got>>

--------------------------------------------------------------------------------
(* Binding ports *)

\* recv() and send() of a rep or srv port: in turn.
ReceiveRequest(b) ==
  /\ b \in Rep \ dead /\ busy[b] = None /\ inbox[b] # <<>>
  /\ busy' = [busy EXCEPT ![b] = Head(inbox[b])]
  /\ inbox' = [inbox EXCEPT ![b] = Tail(@)]
  /\ UNCHANGED <<world, connVars, waits, sent, identity, open, dead, got>>

\* A REP socket drops the reply when the socket that asked is gone.
SendReply(b) ==
  /\ b \in Rep \ dead /\ busy[b] # None
  /\ inbox' = IF gen[busy[b].from] # busy[b].gen THEN inbox
              ELSE [inbox EXCEPT ![busy[b].from] = Append(@, busy[b])]
  /\ busy' = [busy EXCEPT ![b] = None]
  /\ UNCHANGED <<world, connVars, waits, sent, identity, open, dead, got>>

\* ans_port_recv() and ins_port_recv(): the identity is kept in the port.
ReceiveQuery(b) ==
  /\ b \in Routed \ dead /\ inbox[b] # <<>>
  /\ identity' = [identity EXCEPT ![b] = Identity[Head(inbox[b]).from]]
  /\ open' = [open EXCEPT ![b] = @ \cup {Head(inbox[b])}]
  /\ inbox' = [inbox EXCEPT ![b] = Tail(@)]
  /\ UNCHANGED <<world, connVars, waits, sent, busy, dead, got>>

set_identityNot(b, id) == UNCHANGED identity
set_identity(b, id) == identity' = [identity EXCEPT ![b] = id]

\* ans_port_send() and ins_port_send(): to the identity, which the component has
\* set to that of the query it answers.  It reaches one that has this identity: the
\* one that asked, if no other is connected with the same.  A plug or a port that is
\* connected no more cannot be reached (ROUTER_MANDATORY for ans).
SendAnswer(b) ==
  /\ b \in Routed \ dead
  /\ \E query \in open[b] :
       /\ open' = [open EXCEPT ![b] = @ \ {query}]
       /\ set_identity(b, Identity[query.from])
       /\ \/ Bearers(b, identity'[b]) = {} /\ inbox' = inbox
          \/ \E c \in Bearers(b, identity'[b]) : inbox' = [inbox EXCEPT ![c] = Append(@, query)]
  /\ UNCHANGED <<world, connVars, waits, sent, busy, dead, got>>

\* send() of a pub port: to every subscriber connected now.
Publish(b) ==
  /\ b \in (Pub \cap world) \ dead /\ sent[b] < MaxSend
  /\ sent' = [sent EXCEPT ![b] = @ + 1]
  /\ inbox' = [x \in Conn \cup Bind |->
       IF x \in Sub /\ b \in linked[x]
         THEN Append(inbox[x], [from |-> b, number |-> sent[b] + 1, gen |-> gen[x]])
         ELSE inbox[x]]
  /\ UNCHANGED <<world, connVars, waits, bindVars, got>>

\* The process of a binding port dies; no port that knows it forgets it.
Crash(b) ==
  /\ b \in (world \cap Bind) \ dead /\ Cardinality(dead) < MaxCrash
  /\ dead' = dead \cup {b}
  /\ inbox' = [inbox EXCEPT ![b] = <<>>]
  /\ UNCHANGED <<world, connVars, waits, sent, busy, identity, open, got>>

--------------------------------------------------------------------------------
PortsNext ==
  \/ \E c \in world \cap Conn, b \in world \cap Bind :
       update(c, b) \/ setupPlug(c, b) \/ SendRequest(c, b) \/ SendQuery(c, b)
  \/ \E c \in world \cap Conn : ReceiveReply(c) \/ ReceiveAny(c) \/ Reset(c)
  \/ \E b \in world \cap Bind :
       \/ ReceiveRequest(b) \/ SendReply(b) \/ ReceiveQuery(b) \/ SendAnswer(b)
       \/ Publish(b) \/ Crash(b)
       \/ \E n \in DOMAIN inbox[b] : Lose(b, n)

PortsSpec == PortsInit /\ [][PortsNext]_portsVars

--------------------------------------------------------------------------------
PortsTypeOK ==
  /\ world \in World
  /\ servers \in [Conn -> SUBSET Bind]
  /\ linked \in [Conn -> SUBSET Bind]
  /\ gen \in [Conn -> Nat]
  /\ relaxed \in [Conn -> BOOLEAN]
  /\ waits \in [Conn -> Nat]
  /\ sent \in [Conn \cup Pub -> Nat]
  /\ inbox \in [Conn \cup Bind -> Seq(Message)]
  /\ busy \in [Bind -> Message \cup {None}]
  /\ identity \in [Bind -> Ident \cup {None}]
  /\ open \in [Bind -> SUBSET Message]
  /\ got \in [Conn -> Message \cup {None}]
  /\ dead \subseteq Bind

\* The reply that a req or clt port returns is the reply to the request that it
\* sent last, whatever was sent, given up and reset before (resetConnSocket,
\* and the options of the two kinds).
RepliesMatch ==
  [][\A c \in Lockstep : got'[c] # got[c] =>
       got'[c].from = c /\ got'[c].number = sent[c]]_portsVars

\* Types; and an answer that is sent through an ans or ins port comes in at a port with
\* the identity of the one that asked, however many queries were received in between
\* (set_identity): at the one that asked, if nobody else has its identity, as is so for
\* the plugs of an ins port.
ComesBack(c, query) ==
  /\ Identity[query.from] = Identity[c]
  /\ c \in Plug => query.from = c
AnswersReturn ==
  PortsTypeOK /\ \A c \in Qry \cup Plug : \A n \in DOMAIN inbox[c] : ComesBack(c, inbox[c][n])

\* The inductive invariant of the two properties above.  req and clt ports talk to rep
\* and srv ports, plugs to ins ports, the others to the others, with sockets that they
\* have or had.
Talks(c, b) == (c \in Lockstep <=> b \in Rep) /\ (c \in Plug <=> b \in Ins)
Asked(m, b) == m.from \in Conn /\ m.gen <= gen[m.from] /\ Talks(m.from, b)
Routes ==
  /\ \A c \in Conn : \A b \in servers[c] \cup linked[c] : Talks(c, b)
  /\ \A b \in Bind :
       /\ \A n \in DOMAIN inbox[b] : Asked(inbox[b][n], b)
       /\ busy[b] # None => Asked(busy[b], b)
       /\ \A query \in open[b] : query.from \in Conn \ Lockstep /\ Talks(query.from, b)

\* Only its own messages come back to a port that asks, or those of one that has the
\* same identity.
OwnComeBack ==
  \A c \in Conn \ Sub : \A n \in DOMAIN inbox[c] :
    IF c \in Lockstep THEN inbox[c][n].from = c ELSE ComesBack(c, inbox[c][n])

LastAwaited == \A c \in Lockstep : waits[c] \in {0, sent[c]}

\* Of a socket that sends and receives in turn one request at most is under way, before
\* the server, in it, or back as a reply: the one waited for.
Current(m, c) == m.from = c /\ m.gen = gen[c] /\ m.number = waits[c] /\ waits[c] # 0
UnderWay(m, c) == m.from = c /\ m.gen = gen[c]
InTurn(c) ==
  /\ \A b \in Rep : \A n \in DOMAIN inbox[b] : UnderWay(inbox[b][n], c) =>
       /\ Current(inbox[b][n], c)
       /\ inbox[c] = <<>>
       /\ \A a \in Rep : busy[a] # None => ~UnderWay(busy[a], c)
       /\ \A a \in Rep : \A k \in DOMAIN inbox[a] :
            UnderWay(inbox[a][k], c) => a = b /\ k = n
  /\ \A b \in Rep : busy[b] # None /\ UnderWay(busy[b], c) =>
       /\ Current(busy[b], c)
       /\ inbox[c] = <<>>
       /\ \A a \in Rep : busy[a] # None /\ UnderWay(busy[a], c) => a = b
  /\ \A n \in DOMAIN inbox[c] : n = 1 /\ inbox[c][n].number = waits[c] /\ waits[c] # 0

PortsInv ==
  /\ AnswersReturn
  /\ Routes
  /\ OwnComeBack
  /\ LastAwaited
  /\ \A c \in Lockstep : ~relaxed[c] => InTurn(c)

\* A port that is reset is initialized again: a req port may always send.
ReqMaySend == \A c \in Req : waits[c] = 0 \/ relaxed[c]
================================================================================
