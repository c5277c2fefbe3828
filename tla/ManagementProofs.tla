---------------------------- MODULE ManagementProofs ----------------------------
(***************************************************************************)
(* Proofs about Controller and Resources, the two modules that say what is *)
(* launched where and under which limits.  They share no name, and neither *)
(* part uses the other.                                                    *)
(*                                                                         *)
(* Controller, for any nodes and any bounds: unless a client comes or goes *)
(* while an application is launched, halted or removed, the launch list    *)
(* names what the nodes that are watched run, and no client that is gone;  *)
(* but one over which a late addClient() put another may stay.  A client   *)
(* that is known is so under the name of its own node, and is the one the  *)
(* node is connected to if it is connected at all (ClientsApart).  While a *)
(* command runs, the books are right up to what it has still to do: what a *)
(* node has been told to launch is listed in the end, what is halted runs  *)
(* at most where the node has still to be called (BooksGood).              *)
(*                                                                         *)
(* Resources, for any actors with any limits and any bounds: when the      *)
(* deployment manager is done, each monitor follows its actor.  A thread   *)
(* only ever pauses when it is told to, and tells nobody that it has while *)
(* it goes on: the events agree with where it is.  The manager, on its     *)
(* side, leaves no actor behind halfway: those of its monitors that it is  *)
(* done with are paused, and it removes the process when it is done with   *)
(* all of them.  A cleanup ends threads that are at work, of actors that   *)
(* stay launched; from then on nobody follows these (InUse).               *)
(***************************************************************************)
EXTENDS Controller, Resources, TLAPS

--------------------------------------------------------------------------------
(* Clients *)

LEMMA NoneIsNobody == None \notin Client /\ \A c \in Client : c # None
BY ControlAssumption DEF None, Client

LEMMA KnownIs == \A c : c \in Known <=> c # None /\ \E h \in Host : clientMap[h] = c
BY DEF Known

\* A client that is known is so under the name of its own node.
LEMMA KnownAtHome ==
  ASSUME TypeOK, ClientsApart
  PROVE  /\ \A c \in Known : c \in Client /\ HostOf(c) \in Host /\ clientMap[HostOf(c)] = c
         /\ \A h \in Host : clientMap[h] # None => clientMap[h] \in Known
<1>1. clientMap \in [Host -> Client \cup {None}]
  BY DEF TypeOK
<1>2. ASSUME NEW c \in Known
      PROVE  c \in Client /\ HostOf(c) \in Host /\ clientMap[HostOf(c)] = c
  <2>1. PICK h \in Host : clientMap[h] = c /\ c # None
    BY KnownIs
  <2>2. HostOf(c) = h
    BY <2>1 DEF ClientsApart
  <2> QED BY <1>1, <2>1, <2>2
<1> QED BY <1>2, KnownIs

\* A step of the user's command: no client comes or goes.
LEMMA CommandKeepsClients ==
  ASSUME BooksInv, UNCHANGED <<clientVars, overlap, displaced>>,
         \A h \in Host : node'[h].conn = node[h].conn
  PROVE  /\ ClientsApart' /\ Known' = Known /\ asked' = asked
         /\ \A h \in Host : Watched(h)' <=> Watched(h)
         /\ \A c \in Client : HostOf(c)' = HostOf(c)
<1>1. Known' = Known /\ \A c : HostOf(c)' = HostOf(c)
  BY DEF Known, HostOf, clientVars
<1>2. ClientsApart /\ TypeOK
  BY DEF BooksInv
<1>3. \A c \in Client : client'[c] = client[c]
  BY DEF clientVars
<1>4. ClientsApart'
  BY <1>1, <1>2, <1>3 DEF ClientsApart, clientVars
<1>5. \A h \in Host : Watched(h)' <=> Watched(h)
  BY DEF Watched, clientVars
<1> QED BY <1>1, <1>4, <1>5 DEF clientVars

\* A step that leaves the books alone, and lets the controller watch no more nodes.
LEMMA FrameBooks ==
  ASSUME BooksGood, UNCHANGED <<clientMap, asked, appInfo, launchList, user, displaced>>,
         \A h \in Host :
           /\ node'[h].running = node[h].running
           /\ Watched(h)' => Watched(h) /\ node'[h].conn = node[h].conn,
         asked.answered =>
           HostOf(asked.who) \in Host /\ client'[asked.who].host = client[asked.who].host
  PROVE  BooksGood'
<1>1. Known' = Known
  BY DEF Known
<1>2. ListedKnown'
  BY <1>1 DEF BooksGood, ListedKnown
<1>3. asked'.answered => node'[HostOf(asked.who)'].running \subseteq asked'.apps
  BY DEF BooksGood, HostOf
<1>4. \A h \in Host : Watched(h)' =>
        \A a \in node'[h].running : <<node'[h].conn, a>> \in launchList' \/ InLaunch(h, a)'
  BY DEF BooksGood, InLaunch
<1> QED BY <1>1, <1>2, <1>3, <1>4 DEF BooksGood, Free, HostOf

\* An application without clients that went.
LEMMA WithoutIs ==
  ASSUME NEW i \in [status : AppStatus, model : BOOLEAN, depl : BOOLEAN, clients : SUBSET Client],
         NEW c
  PROVE  /\ Without(i, c) \in [status : AppStatus, model : BOOLEAN, depl : BOOLEAN,
                               clients : SUBSET Client]
         /\ Without(i, c).clients = i.clients \ {c}
<1>1. CASE c \notin i.clients
  BY <1>1 DEF Without
<1>2. CASE c \in i.clients
  <2>1. "NotLoaded" \in AppStatus /\ i.status \in AppStatus
    BY DEF AppStatus
  <2> QED BY <1>2, <2>1 DEF Without
<1> QED BY <1>1, <1>2

\* delClient() leaves nothing behind of the client of node h.
LEMMA DelClientDoes ==
  ASSUME TypeOK, ClientsApart, NEW h \in Host, delClient(h), displaced' = displaced
  PROVE  /\ clientMap' \in [Host -> Client \cup {None}]
         /\ clientMap'[h] = None /\ \A g \in Host \ {h} : clientMap'[g] = clientMap[g]
         /\ Known' = Known \ {clientMap[h]}
         /\ appInfo' \in [App -> [status : AppStatus, model : BOOLEAN, depl : BOOLEAN,
                                  clients : SUBSET Client]]
         /\ launchList' \subseteq launchList
         /\ ListedKnown => ListedKnown'
         /\ \A e \in launchList : e[1] # clientMap[h] => e \in launchList'
<1>1. /\ clientMap' = [clientMap EXCEPT ![h] = None]
      /\ appInfo' = [a \in App |-> Without(appInfo[a], clientMap[h])]
      /\ launchList' = launchList \ Entries(clientMap[h])
  BY DEF delClient
<1>2. /\ clientMap \in [Host -> Client \cup {None}]
      /\ appInfo \in [App -> [status : AppStatus, model : BOOLEAN, depl : BOOLEAN,
                              clients : SUBSET Client]]
  BY DEF TypeOK
<1>3. /\ clientMap' \in [Host -> Client \cup {None}]
      /\ clientMap'[h] = None /\ \A g \in Host \ {h} : clientMap'[g] = clientMap[g]
  BY <1>1, <1>2
<1>4. Known' = Known \ {clientMap[h]}
  <2>1. ASSUME NEW c PROVE c \in Known' <=> c \in Known /\ c # clientMap[h]
    <3>1. c \in Known' <=> c # None /\ \E g \in Host : clientMap'[g] = c
      BY DEF Known
    <3>2. \A f, g \in Host : clientMap[f] = clientMap[g] /\ clientMap[f] # None => f = g
      BY DEF ClientsApart
    <3> QED BY <1>3, <3>1, <3>2, KnownIs
  <2> QED BY <2>1
<1>5. /\ appInfo' \in [App -> [status : AppStatus, model : BOOLEAN, depl : BOOLEAN,
                               clients : SUBSET Client]]
      /\ \A a \in App : appInfo'[a].clients = appInfo[a].clients \ {clientMap[h]}
  BY <1>1, <1>2, WithoutIs
<1>6. \A e : e \in launchList' <=> e \in launchList /\ e[1] # clientMap[h]
  BY <1>1 DEF Entries
<1>7. ASSUME ListedKnown PROVE ListedKnown'
  BY <1>4, <1>5, <1>6, <1>7 DEF ListedKnown
<1> QED BY <1>3, <1>4, <1>5, <1>6, <1>7


\* When a client is deleted while no command works on a copy, the books stay right.
LEMMA DropBooks ==
  ASSUME TypeOK, ClientsApart, CommandOK, BooksGood, NEW h \in Host, delClient(h),
         user.cmd \notin Copying, asked' = Nobody, UNCHANGED <<node, user, displaced>>,
         asked = Nobody \/ clientMap[h] = asked.who,
         \A c \in Client : client'[c].conn = client[c].conn
  PROVE  BooksGood'
<1>1. /\ clientMap'[h] = None /\ \A g \in Host \ {h} : clientMap'[g] = clientMap[g]
      /\ ListedKnown' /\ \A e \in launchList : e[1] # clientMap[h] => e \in launchList'
  BY DelClientDoes DEF BooksGood
<1>2. ASSUME NEW g \in Host, Watched(g)', NEW a \in node'[g].running
      PROVE  <<node'[g].conn, a>> \in launchList'
  <2> DEFINE c == node[g].conn
  <2>1. c # None /\ g # h /\ clientMap[g] = c /\ client'[c].conn = "up"
    BY <1>1, <1>2 DEF Watched
  <2>2. c \in Client /\ HostOf(c) = g /\ client[c].conn = "up"
    BY <2>1 DEF TypeOK, ClientsApart
  <2>3. clientMap[h] # c
    BY <2>1, <2>2 DEF ClientsApart
  <2>4. asked.who # c
    BY <2>1, <2>3 DEF Nobody
  <2>5. Watched(g)
    BY <2>1, <2>2, <2>4 DEF Watched
  <2>6. <<c, a>> \in launchList
    BY <1>2, <2>5 DEF BooksGood, InLaunch, Copying
  <2> QED BY <1>1, <2>3, <2>6
<1>3. ~asked'.answered
  BY DEF Nobody
<1> QED BY <1>1, <1>2, <1>3 DEF BooksGood, Copying

\* login(): the client is fresh, so nothing is known of it yet.
LEMMA LoginKeeps ==
  ASSUME BooksInv, NEW h \in Host, login(h)
  PROVE  BooksInv'
<1>1. TypeOK /\ ClientsApart /\ CommandOK
  BY DEF BooksInv
<1>2. PICK c \in Client :
        /\ IsFresh(c)
        /\ client' = [client EXCEPT ![c] = [host |-> h, stale |-> FALSE, conn |-> "up"]]
        /\ node' = [node EXCEPT ![h].conn = c]
        /\ \/ clientMap[h] = None /\ adding' = adding \cup {c} /\ replacing' = replacing
           \/ clientMap[h] # None /\ replacing' = replacing \cup {c} /\ adding' = adding
  BY DEF login
<1>3. /\ node[h].conn = None /\ client[c].conn = "none" /\ asked = Nobody
      /\ UNCHANGED <<clientMap, leaving, asked, appInfo, launchList, user, overlap, displaced, spent>>
  BY <1>2 DEF login, Free, IsFresh
<1>4. c \notin replacing \cup adding \cup leaving \cup Known /\ c # None
  BY <1>1, <1>3, NoneIsNobody DEF ClientsApart
<1>5. /\ node \in [Host -> [conn : Client \cup {None}, installed : SUBSET App,
                            running : SUBSET App]]
      /\ client \in [Client -> [host : Host \cup {None}, stale : BOOLEAN,
                                conn : {"none", "up", "silent", "broken", "closed"}]]
  BY <1>1 DEF TypeOK
<1>6. /\ client'[c].host = h /\ client'[c].conn = "up" /\ ~client'[c].stale
      /\ \A d \in Client \ {c} : client'[d] = client[d]
      /\ node'[h].conn = c /\ node'[h].running = node[h].running
      /\ \A g \in Host \ {h} : node'[g] = node[g]
  BY <1>2, <1>5
<1>7. TypeOK'
  <2>1. /\ node' \in [Host -> [conn : Client \cup {None}, installed : SUBSET App,
                               running : SUBSET App]]
        /\ client' \in [Client -> [host : Host \cup {None}, stale : BOOLEAN,
                                   conn : {"none", "up", "silent", "broken", "closed"}]]
    BY <1>2, <1>5
  <2>2. asked'.who = None
    BY <1>3 DEF Nobody
  <2> QED BY <1>1, <1>2, <1>3, <2>1, <2>2 DEF TypeOK, Idle
<1>8. Known' = Known
  BY <1>3 DEF Known
<1>9. ClientsApart'
  <2>1. \A d \in Client : HostOf(d)' = IF d = c THEN h ELSE HostOf(d)
    BY <1>6 DEF HostOf
  <2>2. \A g \in Host : clientMap[g] # None => clientMap[g] \in Client /\ clientMap[g] # c
    BY <1>1, <1>4, KnownAtHome
  <2>3. \A g \in Host : node[g].conn # None => node[g].conn \in Client /\ node[g].conn # c
    BY <1>1, <1>3, <1>5 DEF ClientsApart
  <2>4. \A d \in Client : client[d].conn = "up" => HostOf(d) \in Host /\ HostOf(d) # h
    <3>1. ASSUME NEW d \in Client, client[d].conn = "up" PROVE HostOf(d) \in Host /\ HostOf(d) # h
      <4>1. node[HostOf(d)].conn = d /\ HostOf(d) \in Host
        BY <1>1, <3>1 DEF ClientsApart
      <4> QED BY <1>3, <4>1, NoneIsNobody
    <3> QED BY <3>1
  <2>5. \A d \in replacing \cup adding \cup leaving \cup Known : d \in Client
    BY <1>1, KnownAtHome DEF TypeOK
  <2>6. \A d \in Client : client'[d].conn # "none" => HostOf(d)' \in Host
    BY <1>1, <1>6, <2>1 DEF ClientsApart
  <2>7. \A d \in replacing' \cup adding' \cup leaving' \cup Known' : client'[d].conn # "none"
    BY <1>1, <1>2, <1>3, <1>6, <1>8, <2>5 DEF ClientsApart
  <2>8. replacing' \cap adding' = {} /\ (replacing' \cup adding') \cap Known' = {}
    BY <1>1, <1>2, <1>4, <1>8 DEF ClientsApart
  <2>9. \A g \in Host : clientMap'[g] # None => HostOf(clientMap[g])' = g
    BY <1>1, <1>3, <2>1, <2>2 DEF ClientsApart
  <2>10. \A g \in Host : node'[g].conn # None =>
           HostOf(node[g].conn)' = g /\ client'[node'[g].conn].conn = "up"
    <3>1. ASSUME NEW g \in Host, node'[g].conn # None
          PROVE  HostOf(node[g].conn)' = g /\ client'[node'[g].conn].conn = "up"
      <4>1. CASE g = h
        BY <1>6, <4>1 DEF HostOf
      <4>2. CASE g # h
        <5>1. node'[g].conn = node[g].conn /\ node[g].conn \in Client \ {c}
          BY <1>6, <2>3, <3>1, <4>2
        <5>2. HostOf(node[g].conn) = g /\ client[node[g].conn].conn = "up"
          BY <1>1, <5>1, NoneIsNobody DEF ClientsApart
        <5>3. client'[node[g].conn] = client[node[g].conn]
          BY <1>6, <5>1
        <5> QED BY <5>1, <5>2, <5>3 DEF HostOf
      <4> QED BY <4>1, <4>2
    <3> QED BY <3>1
  <2>11. \A d \in Client : client'[d].conn = "up" =>
           /\ node'[HostOf(d)'].conn = d
           /\ client'[d].stale => d \notin replacing' \cup adding' \cup Known'
    BY <1>1, <1>2, <1>4, <1>6, <1>8, <2>1, <2>4 DEF ClientsApart
  <2> QED BY <1>3, <2>6, <2>7, <2>8, <2>9, <2>10, <2>11 DEF ClientsApart
<1>10. CommandOK'
  BY <1>1, <1>3, <1>8 DEF CommandOK
<1>11. ASSUME ~overlap' PROVE BooksGood'
  <2>1. \A g \in Host :
          /\ node'[g].running = node[g].running
          /\ Watched(g)' => Watched(g) /\ node'[g].conn = node[g].conn
    <3>1. clientMap[h] # c
      BY <1>4, KnownIs
    <3>2. \A g \in Host \ {h} : node[g].conn # c \/ node[g].conn = None
      BY <1>1, <1>3 DEF ClientsApart
    <3>3. \A g \in Host \ {h} : node[g].conn \in Client \cup {None}
      BY <1>5
    <3> QED BY <1>3, <1>6, <3>1, <3>2, <3>3 DEF Watched
  <2>2. ~asked.answered
    BY <1>3 DEF Nobody
  <2> QED BY <1>3, <1>11, <2>1, <2>2, FrameBooks DEF BooksInv
<1> QED BY <1>7, <1>9, <1>10, <1>11 DEF BooksInv


\* A step that adds no client, and connects none.
LEMMA ApartKept ==
  ASSUME TypeOK, ClientsApart,
         \A c \in Client :
           /\ client'[c].host = client[c].host
           /\ client'[c].conn = "none" <=> client[c].conn = "none"
           /\ client'[c].conn = "up" =>
                /\ client[c].conn = "up" /\ node'[HostOf(c)].conn = c
                /\ client'[c].stale => client[c].stale \/ c \notin replacing' \cup adding' \cup Known',
         \A h \in Host :
           /\ clientMap'[h] \in {None, clientMap[h]}
           /\ node'[h].conn # None =>
                node'[h].conn = node[h].conn /\ client'[node[h].conn].conn = "up",
         replacing' \cup adding' \subseteq replacing \cup adding,
         replacing' \cap adding' = {},
         \A c \in leaving' : c \in Client /\ (c \in leaving \/ client[c].conn # "none")
  PROVE  ClientsApart'
<1>1. Known' \subseteq Known
  BY DEF Known
<1>2. \A c \in replacing \cup adding \cup Known : c \in Client
  BY KnownAtHome DEF TypeOK
<1>3. \A c \in Client : HostOf(c)' = HostOf(c)
  BY DEF HostOf
<1>4. \A c \in Client : client'[c].conn # "none" => HostOf(c)' \in Host
  BY <1>3 DEF ClientsApart
<1>5. \A c \in replacing' \cup adding' \cup leaving' \cup Known' : client'[c].conn # "none"
  BY <1>1, <1>2 DEF ClientsApart
<1>6. (replacing' \cup adding') \cap Known' = {}
  BY <1>1 DEF ClientsApart
<1>7. ASSUME NEW h \in Host, clientMap'[h] # None
      PROVE  HostOf(clientMap[h])' = h
  <2>1. clientMap[h] \in Client /\ HostOf(clientMap[h]) = h /\ clientMap'[h] = clientMap[h]
    BY <1>7 DEF TypeOK, ClientsApart
  <2> QED BY <2>1 DEF HostOf
<1>8. ASSUME NEW h \in Host, node'[h].conn # None
      PROVE  HostOf(node[h].conn)' = h /\ client'[node'[h].conn].conn = "up"
  <2>1. /\ node'[h].conn = node[h].conn /\ client'[node[h].conn].conn = "up"
        /\ node[h].conn \in Client /\ HostOf(node[h].conn) = h
    BY <1>8 DEF TypeOK, ClientsApart
  <2> QED BY <2>1 DEF HostOf
<1>9. \A c \in Client : client'[c].conn = "up" =>
        /\ node'[HostOf(c)'].conn = c
        /\ client'[c].stale => c \notin replacing' \cup adding' \cup Known'
  BY <1>1, <1>3 DEF ClientsApart
<1> QED BY <1>4, <1>5, <1>6, <1>7, <1>8, <1>9 DEF ClientsApart

\* The connection of a client breaks or goes silent, and who finds out closes it.
LEMMA LostKeeps ==
  ASSUME BooksInv, NEW c \in Client,
         connectionLost(c) \/ connectionEnds(c) \/ on_disconnect(c) \/ pingClients(c)
  PROVE  BooksInv'
<1>1. TypeOK /\ ClientsApart /\ CommandOK
  BY DEF BooksInv
<1>2. /\ client[c].conn # "none"
      /\ \E i \in [host : {client[c].host}, stale : BOOLEAN, conn : {"silent", "broken", "closed"}] :
           client' = [client EXCEPT ![c] = i]
      /\ \/ client[c].conn = "up" /\ node' = [node EXCEPT ![HostOf(c)].conn = None]
            /\ leaving' = leaving
         \/ client[c].conn # "up" /\ node' = node /\ leaving' \in {leaving, leaving \cup {c}}
      /\ UNCHANGED <<clientMap, replacing, adding, asked, appInfo, launchList, user, overlap, displaced, spent>>
  <2>1. client[c] \in [host : Host \cup {None}, stale : BOOLEAN,
                       conn : {"none", "up", "silent", "broken", "closed"}]
    BY <1>1 DEF TypeOK
  <2>2. CASE connectionLost(c)
    <3>1. PICK how \in {"broken", "silent"} : client' = [client EXCEPT ![c].conn = how]
      BY <2>2 DEF connectionLost
    <3> DEFINE i == [client[c] EXCEPT !.conn = how]
    <3>2. i \in [host : {client[c].host}, stale : BOOLEAN, conn : {"silent", "broken", "closed"}]
      BY <2>1, <3>1
    <3>3. client' = [client EXCEPT ![c] = i]
      BY <3>1
    <3> QED BY <2>2, <3>2, <3>3 DEF connectionLost
  <2>5. CASE connectionEnds(c)
    <3> DEFINE i == [client[c] EXCEPT !.conn = "broken"]
    <3>1. i \in [host : {client[c].host}, stale : BOOLEAN, conn : {"silent", "broken", "closed"}]
      BY <2>1
    <3>2. client' = [client EXCEPT ![c] = i]
      BY <2>5 DEF connectionEnds
    <3> QED BY <2>5, <3>1, <3>2 DEF connectionEnds
  <2>3. CASE on_disconnect(c)
    <3> DEFINE i == [host |-> client[c].host, stale |-> TRUE, conn |-> "closed"]
    <3>1. client' = [client EXCEPT ![c] = i]
      <4>1. client \in [Client -> [host : Host \cup {None}, stale : BOOLEAN,
                                   conn : {"none", "up", "silent", "broken", "closed"}]]
        BY <1>1 DEF TypeOK
      <4>2. client' = [client EXCEPT ![c].conn = "closed", ![c].stale = TRUE]
        BY <2>3 DEF on_disconnect
      <4>3. client' = [client EXCEPT ![c] = client'[c]] /\ client'[c] = i
        <5> HIDE DEF i
        <5>1. PICK h, t, s : client[c] = [host |-> h, stale |-> t, conn |-> s]
          BY <2>1
        <5>2. client'[c] = i
          BY <4>1, <4>2, <5>1 DEF i
        <5>3. \A d \in Client \ {c} : client'[d] = client[d]
          BY <4>1, <4>2
        <5>4. client' = [d \in Client |-> client'[d]]
          BY <4>1, <4>2
        <5> QED BY <4>1, <5>2, <5>3, <5>4
      <4> QED BY <4>3
    <3> QED BY <2>3, <3>1 DEF on_disconnect
  <2>4. CASE pingClients(c)
    <3>1. client[c].conn \in {"silent", "broken", "closed"}
      BY <1>1, <2>1, <2>4 DEF pingClients, ClientsApart
    <3> DEFINE i == [client[c] EXCEPT !.stale = TRUE]
    <3>2. i \in [host : {client[c].host}, stale : BOOLEAN, conn : {"silent", "broken", "closed"}]
      BY <2>1, <3>1
    <3>3. client' = [client EXCEPT ![c] = i]
      BY <2>4 DEF pingClients
    <3> QED BY <2>4, <3>1, <3>2, <3>3 DEF pingClients
  <2> QED BY <2>2, <2>3, <2>4, <2>5
<1>3. /\ node \in [Host -> [conn : Client \cup {None}, installed : SUBSET App,
                            running : SUBSET App]]
      /\ client \in [Client -> [host : Host \cup {None}, stale : BOOLEAN,
                                conn : {"none", "up", "silent", "broken", "closed"}]]
      /\ client[c].host \in Host
  BY <1>1, <1>2 DEF TypeOK, ClientsApart, HostOf
<1>4. /\ client' \in [Client -> [host : Host \cup {None}, stale : BOOLEAN,
                                 conn : {"none", "up", "silent", "broken", "closed"}]]
      /\ client'[c].host = client[c].host /\ client'[c].conn \in {"silent", "broken", "closed"}
      /\ \A d \in Client \ {c} : client'[d] = client[d]
  BY <1>2, <1>3
<1>5. /\ node' \in [Host -> [conn : Client \cup {None}, installed : SUBSET App,
                             running : SUBSET App]]
      /\ \A h \in Host :
           /\ node'[h].running = node[h].running
           /\ \/ node'[h].conn = node[h].conn
              \/ h = HostOf(c) /\ client[c].conn = "up" /\ node'[h].conn = None
  <2>1. CASE connectionLost(c)
    <3>1. HostOf(c) \in Host /\ client[c].conn = "up"
      BY <1>3, <2>1 DEF HostOf, connectionLost
    <3> DEFINE n == [node[HostOf(c)] EXCEPT !.conn = None]
    <3>2. node[HostOf(c)] \in [conn : Client \cup {None}, installed : SUBSET App,
                               running : SUBSET App]
      BY <1>3, <3>1
    <3>3. n \in [conn : Client \cup {None}, installed : SUBSET App, running : SUBSET App]
      BY <3>2
    <3>4. n.conn = None /\ n.running = node[HostOf(c)].running
      BY <3>2
    <3>5. node' = [node EXCEPT ![HostOf(c)] = n]
      BY <2>1 DEF connectionLost
    <3> HIDE DEF n
    <3>6. node'[HostOf(c)] = n /\ \A h \in Host \ {HostOf(c)} : node'[h] = node[h]
      BY <1>3, <3>1, <3>5
    <3>7. node' \in [Host -> [conn : Client \cup {None}, installed : SUBSET App,
                             running : SUBSET App]]
      BY <1>3, <3>1, <3>3, <3>5
    <3>8. ASSUME NEW h \in Host
          PROVE  /\ node'[h].running = node[h].running
                 /\ \/ node'[h].conn = node[h].conn
                    \/ h = HostOf(c) /\ client[c].conn = "up" /\ node'[h].conn = None
      <4>1. CASE h = HostOf(c)
        BY <3>1, <3>4, <3>6, <4>1
      <4>2. CASE h # HostOf(c)
        BY <3>6, <4>2
      <4> QED BY <4>1, <4>2
    <3> QED BY <3>7, <3>8
  <2>2. CASE connectionEnds(c) \/ on_disconnect(c) \/ pingClients(c)
    <3>1. node' = node
      BY <2>2 DEF connectionEnds, on_disconnect, pingClients
    <3> QED BY <1>3, <3>1, Zenon
  <2> QED BY <2>1, <2>2
<1>6. Known' = Known
  BY <1>2 DEF Known
<1>7. TypeOK'
  <2>1. asked.who # None => asked.who \in Client
    BY <1>1 DEF TypeOK
  <2>2. asked'.who # None => clientMap'[HostOf(asked.who)'] = asked'.who
    BY <1>1, <1>2, <1>4, <2>1 DEF TypeOK, HostOf
  <2>3. leaving' \subseteq Client
    BY <1>1, <1>2 DEF TypeOK
  <2> QED BY <1>1, <1>2, <1>4, <1>5, <2>2, <2>3 DEF TypeOK, Idle
<1>8. ClientsApart'
  <2>1. ASSUME NEW h \in Host, node'[h].conn # None
        PROVE  node'[h].conn = node[h].conn /\ client'[node[h].conn].conn = "up"
    <3>1. node'[h].conn = node[h].conn /\ node[h].conn \in Client
      BY <1>3, <1>5, <2>1
    <3>2. client[node[h].conn].conn = "up" /\ HostOf(node[h].conn) = h
      BY <1>1, <2>1, <3>1 DEF ClientsApart
    <3>3. node[h].conn # c
      <4>1. CASE client[c].conn = "up"
        <5>1. node'[HostOf(c)].conn = None /\ HostOf(c) \in Host
          BY <1>2, <1>3, <4>1 DEF HostOf
        <5> QED BY <2>1, <3>2, <5>1
      <4> QED BY <3>2, <4>1
    <3> QED BY <1>4, <3>1, <3>2, <3>3
  <2>2. ASSUME NEW d \in Client, client'[d].conn = "up"
        PROVE  client[d].conn = "up" /\ node'[HostOf(d)].conn = d /\ client'[d].stale = client[d].stale
    <3>1. d # c /\ client[d].conn = "up" /\ client'[d].stale = client[d].stale
      BY <1>4, <2>2
    <3>2. HostOf(d) \in Host /\ node[HostOf(d)].conn = d
      BY <1>1, <3>1 DEF ClientsApart
    <3>3. client[c].conn = "up" => HostOf(d) # HostOf(c)
      BY <1>1, <3>1, <3>2 DEF ClientsApart
    <3> QED BY <1>5, <3>1, <3>2, <3>3
  <2>3. \A d \in leaving' : d \in Client /\ (d \in leaving \/ client[d].conn # "none")
    BY <1>1, <1>2 DEF TypeOK
  <2>4. \A d \in Client : client'[d].host = client[d].host
                          /\ (client'[d].conn = "none" <=> client[d].conn = "none")
    BY <1>2, <1>4
  <2>5. replacing' \cap adding' = {} /\ replacing' \cup adding' = replacing \cup adding
    BY <1>1, <1>2 DEF ClientsApart
  <2> QED BY <1>1, <1>2, <2>1, <2>2, <2>3, <2>4, <2>5, ApartKept
<1>9. CommandOK'
  BY <1>1, <1>2, <1>6 DEF CommandOK
<1>10. ASSUME ~overlap' PROVE BooksGood'
  <2>1. \A h \in Host :
          /\ node'[h].running = node[h].running
          /\ Watched(h)' => Watched(h) /\ node'[h].conn = node[h].conn
    <3>1. ASSUME NEW h \in Host, Watched(h)'
          PROVE  Watched(h) /\ node'[h].conn = node[h].conn
      <4>1. node'[h].conn = node[h].conn /\ node[h].conn \in Client
        BY <1>3, <1>5, <3>1 DEF Watched
      <4>2. node[h].conn # c /\ client'[node[h].conn] = client[node[h].conn]
        BY <1>4, <3>1, <4>1 DEF Watched
      <4> QED BY <1>2, <3>1, <4>1, <4>2 DEF Watched
    <3> QED BY <1>5, <3>1
  <2>2. asked.answered => asked.who \in Known
    BY <1>1 DEF CommandOK, Nobody
  <2>3. asked.answered => HostOf(asked.who) \in Host /\ client'[asked.who].host = client[asked.who].host
    BY <1>1, <1>4, <2>2, KnownAtHome
  <2> QED BY <1>2, <1>10, <2>1, <2>3, FrameBooks DEF BooksInv
<1> QED BY <1>7, <1>8, <1>9, <1>10 DEF BooksInv

\* The client of a name is deleted, by a login, a logout or a query that failed.
LEMMA DropKeeps ==
  ASSUME BooksInv, NEW h \in Host, delClient(h), Overlaps, asked' = Nobody,
         asked = Nobody \/ clientMap[h] = asked.who, UNCHANGED <<node, user, displaced, spent>>,
         \/ client' = client
         \/ clientMap[h] # None /\ client' = [client EXCEPT ![clientMap[h]].stale = TRUE],
         replacing' \cup adding' \subseteq replacing \cup adding, replacing' \cap adding' = {},
         leaving' \subseteq leaving
  PROVE  BooksInv'
<1>1. TypeOK /\ ClientsApart /\ CommandOK
  BY DEF BooksInv
<1>2. client \in [Client -> [host : Host \cup {None}, stale : BOOLEAN,
                             conn : {"none", "up", "silent", "broken", "closed"}]]
      /\ clientMap[h] \in Client \cup {None}
  BY <1>1 DEF TypeOK
<1>3. /\ client' \in [Client -> [host : Host \cup {None}, stale : BOOLEAN,
                                 conn : {"none", "up", "silent", "broken", "closed"}]]
      /\ \A c \in Client :
           /\ client'[c].host = client[c].host /\ client'[c].conn = client[c].conn
           /\ client'[c].stale = client[c].stale \/ (clientMap[h] # None /\ c = clientMap[h])
  <2>1. CASE client' = client
    BY <1>2, <2>1
  <2>2. CASE clientMap[h] # None /\ client' = [client EXCEPT ![clientMap[h]].stale = TRUE]
    BY <1>2, <2>2
  <2> QED BY <2>1, <2>2
<1>4. /\ clientMap' \in [Host -> Client \cup {None}]
      /\ clientMap'[h] = None /\ \A g \in Host \ {h} : clientMap'[g] = clientMap[g]
      /\ Known' = Known \ {clientMap[h]}
      /\ appInfo' \in [App -> [status : AppStatus, model : BOOLEAN, depl : BOOLEAN,
                               clients : SUBSET Client]]
      /\ launchList' \subseteq Entry
  <2>1. launchList \subseteq Entry
    BY <1>1 DEF TypeOK
  <2> QED BY <1>1, <2>1, DelClientDoes
<1>5. TypeOK'
  <2>1. replacing' \subseteq Client /\ adding' \subseteq Client /\ leaving' \subseteq Client
    BY <1>1 DEF TypeOK
  <2>2. asked'.who = None /\ asked' \in [who : Client \cup {None}, answered : BOOLEAN, apps : SUBSET App]
    BY DEF Nobody
  <2>3. overlap' \in BOOLEAN
    BY <1>1 DEF Overlaps, TypeOK
  <2> QED BY <1>1, <1>3, <1>4, <2>1, <2>2, <2>3 DEF TypeOK, Idle
<1>6. ClientsApart'
  <2>1. ASSUME NEW c \in Client, client'[c].conn = "up"
        PROVE  /\ client[c].conn = "up" /\ node'[HostOf(c)].conn = c
               /\ client'[c].stale => client[c].stale \/ c \notin replacing' \cup adding' \cup Known'
    <3>1. client[c].conn = "up" /\ node'[HostOf(c)].conn = c
      BY <1>1, <1>3, <2>1 DEF ClientsApart
    <3>2. ASSUME clientMap[h] # None, c = clientMap[h]
          PROVE  c \notin replacing' \cup adding' \cup Known'
      BY <1>1, <1>4, <3>2, KnownAtHome DEF ClientsApart
    <3> QED BY <1>3, <3>1, <3>2
  <2>2. \A g \in Host : node'[g].conn # None =>
          node'[g].conn = node[g].conn /\ client'[node[g].conn].conn = "up"
    <3>1. ASSUME NEW g \in Host, node[g].conn # None PROVE client'[node[g].conn].conn = "up"
      <4>1. node[g].conn \in Client /\ client[node[g].conn].conn = "up"
        BY <1>1, <3>1 DEF TypeOK, ClientsApart
      <4> QED BY <1>3, <4>1
    <3> QED BY <3>1
  <2>3. \A c \in leaving' : c \in Client /\ c \in leaving
    BY <1>1 DEF TypeOK
  <2>4. \A g \in Host : clientMap'[g] \in {None, clientMap[g]}
    BY <1>4
  <2>5. \A c \in Client : client'[c].host = client[c].host
                          /\ (client'[c].conn = "none" <=> client[c].conn = "none")
    BY <1>3
  <2> QED BY <1>1, <2>1, <2>2, <2>3, <2>4, <2>5, ApartKept
<1>7. CommandOK'
  <2>1. asked'.who = None
    BY DEF Nobody
  <2> QED BY <1>1, <2>1 DEF CommandOK
<1>8. ASSUME ~overlap' PROVE BooksGood'
  <2>1. user.cmd \notin Copying /\ ~overlap
    BY <1>8 DEF Overlaps
  <2> QED BY <1>1, <1>3, <2>1, DropBooks DEF BooksInv
<1> QED BY <1>5, <1>6, <1>7, <1>8 DEF BooksInv

\* exposed_login(): the client that has the name goes, or the login fails.
LEMMA ExposedLoginKeeps ==
  ASSUME BooksInv, NEW c \in Client, exposed_login(c)
  PROVE  BooksInv'
<1>1. TypeOK /\ ClientsApart /\ CommandOK
  BY DEF BooksInv
<1>2. /\ c \in replacing /\ asked = Nobody /\ replacing' = replacing \ {c}
      /\ UNCHANGED <<node, leaving, asked, user, displaced, spent>> /\ HostOf(c) \in Host
  BY <1>1 DEF exposed_login, Free, ClientsApart
<1>3. CASE clientMap[HostOf(c)] = None
  <2>1. UNCHANGED <<client, clientMap, adding, appInfo, launchList, overlap, displaced>>
    BY <1>3 DEF exposed_login
  <2>2. TypeOK'
    BY <1>1, <1>2, <2>1 DEF TypeOK, HostOf, Nobody, Idle
  <2>3. ClientsApart'
    BY <1>1, <1>2, <2>1 DEF ClientsApart, HostOf, Known
  <2>4. CommandOK'
    BY <1>1, <1>2, <2>1 DEF CommandOK, Known
  <2>5. \A h \in Host : Watched(h)' <=> Watched(h)
    BY <1>2, <2>1 DEF Watched
  <2>6. ~asked.answered
    BY <1>2 DEF Nobody
  <2>7. ASSUME ~overlap' PROVE BooksGood'
    BY <1>2, <2>1, <2>5, <2>6, <2>7, FrameBooks DEF BooksInv
  <2> QED BY <2>2, <2>3, <2>4, <2>7 DEF BooksInv
<1>4. CASE clientMap[HostOf(c)] # None
  <2>1. /\ client' = [client EXCEPT ![clientMap[HostOf(c)]].stale = TRUE]
        /\ adding' = adding \cup {c} /\ delClient(HostOf(c)) /\ Overlaps
    BY <1>4 DEF exposed_login
  <2>2. replacing' \cup adding' \subseteq replacing \cup adding /\ replacing' \cap adding' = {}
    BY <1>1, <1>2, <2>1 DEF ClientsApart
  <2> QED BY <1>2, <1>4, <2>1, <2>2, DropKeeps
<1> QED BY <1>3, <1>4

\* dropClient() of a query that failed, and delClient() of a client that was closed.
LEMMA GoneKeeps ==
  ASSUME BooksInv, NEW c \in Client, queryFails(c) \/ logout(c)
  PROVE  BooksInv'
<1>1. TypeOK /\ ClientsApart /\ CommandOK
  BY DEF BooksInv
<1>2. c # None
  BY NoneIsNobody
<1>3. CASE queryFails(c)
  <2>1. HostOf(c) \in Host /\ clientMap[HostOf(c)] = c /\ asked.who = c
    BY <1>1, <1>2, <1>3, KnownAtHome DEF queryFails, CommandOK
  <2>2. replacing' \cup adding' \subseteq replacing \cup adding /\ replacing' \cap adding' = {}
    BY <1>1, <1>3 DEF queryFails, ClientsApart
  <2> QED BY <1>2, <1>3, <2>1, <2>2, DropKeeps DEF queryFails
<1>4. CASE logout(c)
  <2>1. HostOf(c) \in Host
    BY <1>1, <1>4 DEF logout, ClientsApart
  <2>2. replacing' \cup adding' \subseteq replacing \cup adding /\ replacing' \cap adding' = {}
    BY <1>1, <1>4 DEF logout, ClientsApart
  <2> QED BY <1>4, <2>1, <2>2, DropKeeps DEF logout, Free
<1> QED BY <1>3, <1>4

\* addClient(): the client gets its name, and is asked before it is watched.
LEMMA AddClientKeeps ==
  ASSUME BooksInv, NEW c \in Client, addClient(c)
  PROVE  BooksInv'
<1>1. TypeOK /\ ClientsApart /\ CommandOK
  BY DEF BooksInv
<1>2. /\ c \in adding /\ asked = Nobody /\ adding' = adding \ {c}
      /\ clientMap' = [clientMap EXCEPT ![HostOf(c)] = c]
      /\ asked' = [who |-> c, answered |-> FALSE, apps |-> {}]
      /\ overlap' = (overlap \/ user.cmd \in Copying) /\ ~user.locked
      /\ displaced' = displaced \cup ({clientMap[HostOf(c)]} \ {None})
      /\ UNCHANGED <<node, client, replacing, leaving, appInfo, launchList, user, spent>>
  BY DEF addClient, Overlaps, Free, Nobody
<1>3. HostOf(c) \in Host /\ c \notin replacing /\ c \notin Known /\ c # None
  BY <1>1, <1>2, NoneIsNobody DEF ClientsApart
<1>4. /\ clientMap' \in [Host -> Client \cup {None}] /\ clientMap'[HostOf(c)] = c
      /\ \A h \in Host \ {HostOf(c)} : clientMap'[h] = clientMap[h]
  BY <1>1, <1>2, <1>3 DEF TypeOK
<1>5. \A d \in Client : HostOf(d)' = HostOf(d)
  BY <1>2 DEF HostOf
<1>6. c \in Known' /\ Known' \subseteq Known \cup {c}
  BY <1>3, <1>4 DEF Known
<1>7. TypeOK'
  <2>1. asked'.who = c /\ asked' \in [who : Client \cup {None}, answered : BOOLEAN, apps : SUBSET App]
    BY <1>2
  <2>2. overlap' \in BOOLEAN /\ displaced' \subseteq Client
    BY <1>1, <1>2, <1>3 DEF TypeOK
  <2>3. client'[asked'.who].host = HostOf(c)
    BY <1>2, <2>1 DEF HostOf
  <2>4. adding' \subseteq Client
    BY <1>1, <1>2 DEF TypeOK
  <2>5. (asked'.who # None) => clientMap'[HostOf(asked.who)'] = asked'.who
    BY <1>4, <2>1, <2>3 DEF HostOf
  <2> QED BY <1>1, <1>2, <1>4, <2>1, <2>2, <2>4, <2>5 DEF TypeOK, Idle
<1>8. ClientsApart'
  <2>1. \A d \in Client : client'[d].conn # "none" => HostOf(d)' \in Host
    BY <1>1, <1>2, <1>5 DEF ClientsApart
  <2>2. \A d \in replacing' \cup adding' \cup leaving' \cup Known' : client'[d].conn # "none"
    BY <1>1, <1>2, <1>6 DEF ClientsApart
  <2>3. replacing' \cap adding' = {} /\ (replacing' \cup adding') \cap Known' = {}
    BY <1>1, <1>2, <1>3, <1>6 DEF ClientsApart
  <2>4. \A h \in Host : clientMap'[h] # None => HostOf(clientMap[h])' = h
    <3>1. ASSUME NEW h \in Host, clientMap'[h] # None PROVE client'[clientMap'[h]].host = h
      <4>1. CASE h = HostOf(c)
        BY <1>2, <1>4, <4>1 DEF HostOf
      <4>2. CASE h # HostOf(c)
        BY <1>1, <1>2, <1>4, <3>1, <4>2 DEF ClientsApart, HostOf
      <4> QED BY <4>1, <4>2
    <3> QED BY <3>1 DEF HostOf
  <2>5. \A h \in Host : node'[h].conn # None =>
          HostOf(node[h].conn)' = h /\ client'[node'[h].conn].conn = "up"
    BY <1>1, <1>2 DEF ClientsApart, HostOf
  <2>6. \A d \in Client : client'[d].conn = "up" =>
          /\ node'[HostOf(d)'].conn = d
          /\ client'[d].stale => d \notin replacing' \cup adding' \cup Known'
    BY <1>1, <1>2, <1>5, <1>6 DEF ClientsApart
  <2> QED BY <2>1, <2>2, <2>3, <2>4, <2>5, <2>6 DEF ClientsApart
<1>9. CommandOK'
  BY <1>1, <1>2, <1>3, <1>6 DEF CommandOK
<1>10. ASSUME ~overlap' PROVE BooksGood'
  <2>1. BooksGood /\ user.cmd \notin Copying
    BY <1>2, <1>10 DEF BooksInv
  <2>2. Known \cup displaced \subseteq Known' \cup displaced'
    <3>1. ASSUME NEW d \in Known PROVE d \in Known' \/ d = clientMap[HostOf(c)]
      BY <1>4, <3>1 DEF Known
    <3> QED BY <1>2, <3>1, KnownIs
  <2>3. ListedKnown'
    BY <1>2, <2>1, <2>2 DEF BooksGood, ListedKnown
  <2>4. \A h \in Host : Watched(h)' => Watched(h)
    BY <1>2, <1>4 DEF Watched, Nobody
  <2>5. \A h \in Host : Watched(h)' =>
          \A a \in node'[h].running : <<node'[h].conn, a>> \in launchList'
    BY <1>2, <2>1, <2>4 DEF BooksGood, InLaunch, Copying
  <2>6. ~asked'.answered /\ user'.cmd \notin Copying
    BY <1>2, <2>1
  <2> QED BY <2>3, <2>5, <2>6 DEF BooksGood, Copying
<1> QED BY <1>7, <1>8, <1>9, <1>10 DEF BooksInv

\* queryApps(): while the controller waits, with the lock, it launches nothing.
LEMMA QueryAppsKeeps ==
  ASSUME BooksInv, NEW c \in Client, queryApps(c)
  PROVE  BooksInv'
<1>1. TypeOK /\ ClientsApart /\ CommandOK
  BY DEF BooksInv
<1>2. /\ asked.who = c /\ c # None /\ HostOf(c) \in Host
      /\ UNCHANGED <<node, client, clientMap, replacing, adding, leaving, appInfo, launchList,
                     user, overlap, displaced, spent>>
  BY <1>1, NoneIsNobody, KnownAtHome DEF queryApps, CommandOK
<1>3. /\ asked'.who = c /\ asked'.apps = node[HostOf(c)].running
      /\ asked' \in [who : Client \cup {None}, answered : BOOLEAN, apps : SUBSET App]
  <2>1. asked \in [who : Client \cup {None}, answered : BOOLEAN, apps : SUBSET App]
        /\ node[HostOf(c)].running \subseteq App
    BY <1>1, <1>2 DEF TypeOK
  <2>2. asked' = [asked EXCEPT !.answered = TRUE, !.apps = node[HostOf(c)].running]
    BY DEF queryApps
  <2>3. asked'.who = asked.who /\ asked'.answered = TRUE /\ asked'.apps = node[HostOf(c)].running
    BY <2>1, <2>2
  <2>4. asked' \in [who : Client \cup {None}, answered : BOOLEAN, apps : SUBSET App]
    BY <2>1, <2>2
  <2> QED BY <1>2, <2>3, <2>4
<1>4. Known' = Known /\ \A d : HostOf(d)' = HostOf(d)
  BY <1>2 DEF Known, HostOf
<1>5. TypeOK'
  <2>1. asked'.who # None => clientMap'[HostOf(asked.who)'] = asked'.who
    BY <1>1, <1>2, <1>3, <1>4 DEF TypeOK
  <2>2. ~user.locked
    BY <1>1, <1>2 DEF TypeOK, Nobody
  <2> QED BY <1>1, <1>2, <1>3, <2>1, <2>2 DEF TypeOK, HostOf, Idle
<1>6. ClientsApart'
  BY <1>1, <1>2, <1>4 DEF ClientsApart, HostOf
<1>7. CommandOK'
  BY <1>1, <1>2, <1>3, <1>4 DEF CommandOK
<1>8. ASSUME ~overlap' PROVE BooksGood'
  <2>1. BooksGood /\ ~Free
    BY <1>2, <1>8 DEF BooksInv, Free, Nobody
  <2>2. \A h \in Host : Watched(h)' <=> Watched(h)
    BY <1>2, <1>3 DEF Watched
  <2>3. ListedKnown' /\ user'.cmd # "launch"
    BY <1>2, <1>4, <2>1 DEF BooksGood, ListedKnown
  <2>4. node'[HostOf(asked.who)'].running \subseteq asked'.apps
    BY <1>2, <1>3 DEF HostOf
  <2> QED BY <1>2, <2>1, <2>2, <2>3, <2>4 DEF BooksGood, InLaunch, HostOf
<1> QED BY <1>5, <1>6, <1>7, <1>8 DEF BooksInv

\* queryClient(): what the node answered is entered, and the node is watched from now on.
LEMMA QueryClientKeeps ==
  ASSUME BooksInv, NEW c \in Client, queryClient(c)
  PROVE  BooksInv'
<1>1. TypeOK /\ ClientsApart /\ CommandOK
  BY DEF BooksInv
<1>2. /\ asked.who = c /\ asked.answered /\ asked' = Nobody
      /\ launchList' = launchList \cup {<<c, a>> : a \in asked.apps}
      /\ UNCHANGED <<node, client, clientMap, replacing, adding, leaving, user, displaced, spent>>
  BY DEF queryClient, update_node_apps
<1>3. c # None /\ c \in Known /\ HostOf(c) \in Host /\ asked.apps \subseteq App
  BY <1>1, <1>2, NoneIsNobody, KnownAtHome DEF CommandOK, TypeOK
<1>4. /\ appInfo' \in [App -> [status : AppStatus, model : BOOLEAN, depl : BOOLEAN,
                               clients : SUBSET Client]]
      /\ \A a \in App : appInfo'[a].clients \subseteq appInfo[a].clients \cup {c}
  <2>1. ASSUME NEW i \in [status : AppStatus, model : BOOLEAN, depl : BOOLEAN,
                          clients : SUBSET Client]
        PROVE  /\ Recovered(i, c) \in [status : AppStatus, model : BOOLEAN, depl : BOOLEAN,
                                       clients : SUBSET Client]
               /\ Recovered(i, c).clients = i.clients \cup {c}
    <3> DEFINE s == CASE i.status = "absent" -> "Recovered"
                      [] i.status = "NotLoaded" -> "Loaded"
                      [] OTHER -> i.status
    <3>1. s \in AppStatus
      BY DEF AppStatus
    <3>2. Recovered(i, c) = [i EXCEPT !.clients = i.clients \cup {c}, !.status = s]
      BY DEF Recovered
    <3> HIDE DEF s
    <3> QED BY <3>1, <3>2
  <2>2. appInfo' = [a \in App |-> IF a \in asked.apps THEN Recovered(appInfo[a], c) ELSE appInfo[a]]
    BY DEF queryClient
  <2>3. \A a \in App : appInfo[a] \in [status : AppStatus, model : BOOLEAN, depl : BOOLEAN,
                                       clients : SUBSET Client]
    BY <1>1 DEF TypeOK
  <2> QED BY <2>1, <2>2, <2>3
<1>5. Known' = Known /\ \A d : HostOf(d)' = HostOf(d)
  BY <1>2 DEF Known, HostOf
<1>6. TypeOK'
  <2>1. asked'.who = None /\ asked' \in [who : Client \cup {None}, answered : BOOLEAN, apps : SUBSET App]
    BY <1>2 DEF Nobody
  <2>2. overlap' \in BOOLEAN
    BY <1>1 DEF queryClient, Overlaps, TypeOK
  <2>3. launchList' \subseteq Entry
    BY <1>1, <1>2, <1>3 DEF TypeOK, Entry
  <2> QED BY <1>1, <1>2, <1>4, <2>1, <2>2, <2>3 DEF TypeOK, Idle
<1>7. ClientsApart'
  BY <1>1, <1>2, <1>5 DEF ClientsApart, HostOf
<1>8. CommandOK'
  <2>1. asked'.who = None
    BY <1>2 DEF Nobody
  <2> QED BY <1>1, <1>2, <2>1 DEF CommandOK
<1>9. ASSUME ~overlap' PROVE BooksGood'
  <2>1. BooksGood /\ user.cmd \notin Copying
    BY <1>9 DEF BooksInv, queryClient, Overlaps
  <2>2. ListedKnown'
    <3>1. \A e \in launchList' : e \in launchList \/ e[1] = c
      BY <1>2
    <3> QED BY <1>2, <1>3, <1>4, <1>5, <2>1, <3>1 DEF BooksGood, ListedKnown
  <2>3. ASSUME NEW h \in Host, Watched(h)', NEW a \in node'[h].running
        PROVE  <<node'[h].conn, a>> \in launchList'
    <3>1. CASE node[h].conn = c
      <4>1. HostOf(c) = h
        BY <1>1, <1>3, <3>1 DEF ClientsApart
      <4>2. a \in asked.apps
        BY <1>2, <2>1, <2>3, <4>1 DEF BooksGood
      <4> QED BY <1>2, <3>1, <4>2
    <3>2. CASE node[h].conn # c
      <4>1. Watched(h)
        BY <1>2, <2>3, <3>2 DEF Watched
      <4> QED BY <1>2, <2>1, <2>3, <4>1 DEF BooksGood, InLaunch, Copying
    <3> QED BY <3>1, <3>2
  <2>4. ~asked'.answered
    BY <1>2 DEF Nobody
  <2> QED BY <1>2, <2>1, <2>2, <2>3, <2>4 DEF BooksGood, Copying
<1> QED BY <1>6, <1>7, <1>8, <1>9 DEF BooksInv

--------------------------------------------------------------------------------
(* Commands of the user *)

\* A command begins, or compiles: nothing that it looks at changes yet.
LEMMA BeginKeeps ==
  ASSUME BooksInv, NEW a \in App,
         \/ compileApplication(a) \/ compileDeployment(a) \/ loadByName(a)
         \/ launchByName(a) \/ haltByName(a) \/ removeAppByName(a)
  PROVE  BooksInv'
<1>1. TypeOK /\ ClientsApart /\ CommandOK
  BY DEF BooksInv
<1>2. /\ UNCHANGED <<node, clientVars, launchList, overlap, displaced>> /\ user = Idle
      /\ spent' \in 0 .. MaxCommand
  <2>1. spent \in 0 .. MaxCommand /\ MaxCommand \in Nat
    BY <1>1, ControlAssumption DEF TypeOK
  <2>2. CASE compileApplication(a) \/ compileDeployment(a)
    BY <2>1, <2>2 DEF compileApplication, compileDeployment, Quiet
  <2>3. CASE loadByName(a) \/ launchByName(a) \/ haltByName(a) \/ removeAppByName(a)
    BY <2>1, <2>3 DEF loadByName, launchByName, haltByName, removeAppByName, Quiet, Command
  <2> QED BY <2>2, <2>3
<1>3. /\ appInfo' \in [App -> [status : AppStatus, model : BOOLEAN, depl : BOOLEAN,
                               clients : SUBSET Client]]
      /\ \A b \in App : appInfo'[b].clients = appInfo[b].clients
  <2>1. appInfo \in [App -> [status : AppStatus, model : BOOLEAN, depl : BOOLEAN,
                             clients : SUBSET Client]]
    BY <1>1 DEF TypeOK
  <2>2. CASE compileApplication(a)
    <3>1. appInfo' = [appInfo EXCEPT ![a] = [appInfo[a] EXCEPT !.status = "NotLoaded", !.model = TRUE]]
      BY <2>1, <2>2 DEF compileApplication
    <3> QED BY <2>1, <3>1 DEF AppStatus
  <2>3. CASE compileDeployment(a)
    BY <2>1, <2>3 DEF compileDeployment
  <2>4. CASE loadByName(a) \/ launchByName(a) \/ haltByName(a) \/ removeAppByName(a)
    <3>1. appInfo' = appInfo
      BY <2>4 DEF loadByName, launchByName, haltByName, removeAppByName
    <3> QED BY <2>1, <3>1
  <2> QED BY <2>2, <2>3, <2>4
<1>4. /\ ClientsApart' /\ Known' = Known /\ asked' = asked
      /\ \A h \in Host : Watched(h)' <=> Watched(h)
      /\ \A c \in Client : HostOf(c)' = HostOf(c)
  BY <1>2, CommandKeepsClients
<1>5. /\ user' \in UserState /\ user'.calls = {} /\ (user'.cmd = "none" => user' = Idle)
      /\ user'.cmd # "none" => user'.app = a
      /\ user'.locked = FALSE
      /\ user'.cmd = "launch" => /\ user'.rest = {} /\ ~user'.found
                                 /\ Free /\ user'.todo \subseteq Known
      /\ user'.cmd \in {"halt", "remove"} =>
           /\ user'.rest \subseteq launchList
           /\ \A e \in launchList : e[2] # a => e \in user'.rest
           /\ \A e \in launchList : e[2] = a => e[1] \in user'.todo
  <2>1. Known \subseteq Client /\ launchList \subseteq Entry
    BY <1>1, KnownAtHome DEF TypeOK
  <2>2. CASE user' = user
    BY <1>2, <2>2 DEF Idle, UserState, Copying
  <2>3. CASE Begin("load", a, Targets(a)) \/ (Begin("launch", a, Known) /\ Free)
    <3>1. Targets(a) \subseteq Client
      BY <2>1 DEF Targets
    <3>2. PICK d \in {"load", "launch"}, t \in SUBSET Client :
            /\ user' = [cmd |-> d, app |-> a, todo |-> t, calls |-> {}, rest |-> {}, found |-> FALSE,
                     locked |-> FALSE]
            /\ d = "launch" => t = Known /\ Free
      BY <2>1, <2>3, <3>1 DEF Begin, Idle
    <3> QED BY <3>2 DEF UserState, Copying
  <2>4. CASE Copied("halt", a) \/ Copied("remove", a)
    <3> DEFINE mine == {e \in launchList : e[2] = a}
               todo == {e[1] : e \in mine}
               rest == launchList \ mine
    <3>1. PICK d \in {"halt", "remove"} :
            user' = [cmd |-> d, app |-> a, todo |-> todo, calls |-> {}, rest |-> rest,
                     found |-> mine # {}, locked |-> FALSE]
      BY <2>4 DEF Copied, Idle
    <3>2. todo \subseteq Client /\ rest \subseteq Entry /\ (mine # {}) \in BOOLEAN
      BY <2>1 DEF Entry
    <3>3. /\ rest \subseteq launchList
          /\ \A e \in launchList : e[2] # a => e \in rest
          /\ \A e \in launchList : e[2] = a => e[1] \in todo
      OBVIOUS
    <3> HIDE DEF mine, todo, rest
    <3> QED BY <3>1, <3>2, <3>3 DEF UserState, Copying
  <2> QED BY <2>2, <2>3, <2>4 DEF compileApplication, compileDeployment, loadByName,
                                  launchByName, haltByName, removeAppByName
<1>6. TypeOK'
  BY <1>1, <1>2, <1>3, <1>5 DEF TypeOK, clientVars, HostOf
<1>7. CommandOK'
  BY <1>1, <1>2, <1>4, <1>5 DEF CommandOK, clientVars
<1>8. ASSUME ~overlap' PROVE BooksGood'
  <2>1. BooksGood
    BY <1>2, <1>8 DEF BooksInv
  <2>2. ListedKnown'
    BY <1>2, <1>3, <1>4, <2>1 DEF BooksGood, ListedKnown
  <2>3. \A h \in Host : Watched(h)' =>
          \A b \in node'[h].running : <<node'[h].conn, b>> \in launchList'
    BY <1>2, <1>4, <2>1 DEF BooksGood, InLaunch, Idle
  <2>4. ASSUME user'.cmd \in {"halt", "remove"}
        PROVE  /\ user'.rest \subseteq launchList'
               /\ \A e \in launchList' : e[2] # user'.app => e \in user'.rest
               /\ \A h \in Host :
                    Watched(h)' /\ user'.app \in node'[h].running => node'[h].conn \in user'.todo
    <3>1. user'.app = a
      BY <1>5, <2>4
    <3>2. ASSUME NEW h \in Host, Watched(h)', a \in node'[h].running
          PROVE  node'[h].conn \in user'.todo
      <4>1. <<node[h].conn, a>> \in launchList
        BY <1>2, <2>3, <3>2
      <4>2. <<node[h].conn, a>>[2] = a /\ <<node[h].conn, a>>[1] = node[h].conn
        OBVIOUS
      <4>3. \A e \in launchList : e[2] = a => e[1] \in user'.todo
        BY <1>5, <2>4
      <4>4. node[h].conn \in user'.todo
        BY <4>1, <4>2, <4>3
      <4> QED BY <1>2, <4>4
    <3> QED BY <1>2, <1>5, <2>4, <3>1, <3>2
  <2>5. user'.cmd = "launch" => Free' /\ user'.todo \subseteq Known'
    BY <1>4, <1>5 DEF Free
  <2>6. asked'.answered => node'[HostOf(asked.who)'].running \subseteq asked'.apps
    BY <1>2, <2>1 DEF BooksGood, clientVars, HostOf
  <2> QED BY <2>2, <2>3, <2>4, <2>5, <2>6 DEF BooksGood, HostOf
<1> QED BY <1>4, <1>6, <1>7, <1>8 DEF BooksInv

\* What a step of a command has to show, when no client comes or goes.
LEMMA CommandStepKeeps ==
  ASSUME BooksInv, UNCHANGED <<clientVars, overlap, displaced, spent>>,
         node' \in [Host -> [conn : Client \cup {None}, installed : SUBSET App,
                             running : SUBSET App]],
         \A h \in Host : node'[h].conn = node[h].conn,
         appInfo' \in [App -> [status : AppStatus, model : BOOLEAN, depl : BOOLEAN,
                               clients : SUBSET Client]],
         launchList' \subseteq Entry,
         user' \in UserState, user'.calls \subseteq user'.todo,
         user'.cmd = "none" => user' = Idle, user'.cmd # "none" => user'.app \in App,
         user'.cmd = "launch" => user'.rest = {} /\ ~user'.found,
         user'.locked => user'.cmd \in {"load", "clean", "forget"} /\ asked = Nobody,
         BooksGood => BooksGood'
  PROVE  BooksInv'
<1>1. TypeOK /\ ClientsApart /\ CommandOK
  BY DEF BooksInv
<1>2. ClientsApart' /\ Known' = Known
  BY CommandKeepsClients
<1>3. TypeOK'
  BY <1>1 DEF TypeOK, clientVars, HostOf
<1>4. CommandOK'
  BY <1>1, <1>2 DEF CommandOK, clientVars
<1> QED BY <1>2, <1>3, <1>4 DEF BooksInv

\* downloadApp(), removeApp() take the lock that nobody holds.
LEMMA LockKeeps ==
  ASSUME BooksInv, WithLock
  PROVE  BooksInv'
<1>1. TypeOK /\ ClientsApart /\ CommandOK
  BY DEF BooksInv
<1>2. /\ user.cmd \in {"load", "clean", "forget"} /\ asked = Nobody
      /\ UNCHANGED <<node, clientVars, appInfo, launchList, overlap, displaced, spent>>
  BY DEF WithLock, Free
<1>3. /\ user' \in UserState /\ user'.calls = user.calls /\ user'.todo = user.todo
      /\ user'.cmd = user.cmd /\ user'.app = user.app
  <2>1. user \in UserState /\ user' = [user EXCEPT !.locked = TRUE]
    BY <1>1 DEF WithLock, TypeOK
  <2> QED BY <2>1 DEF UserState
<1>4. /\ node' \in [Host -> [conn : Client \cup {None}, installed : SUBSET App,
                             running : SUBSET App]]
      /\ appInfo' \in [App -> [status : AppStatus, model : BOOLEAN, depl : BOOLEAN,
                               clients : SUBSET Client]]
      /\ launchList' \subseteq Entry
  BY <1>1, <1>2 DEF TypeOK
<1>5. \A h \in Host : node'[h].conn = node[h].conn
  BY <1>2
<1>6. ASSUME BooksGood PROVE BooksGood'
  <2>1. Known' = Known /\ \A h \in Host : Watched(h)' <=> Watched(h)
    BY <1>2, <1>5, CommandKeepsClients
  <2>2. ListedKnown'
    BY <1>2, <1>6, <2>1 DEF BooksGood, ListedKnown
  <2>3. \A h \in Host : Watched(h)' =>
          \A a \in node'[h].running : <<node'[h].conn, a>> \in launchList'
    BY <1>2, <1>6, <2>1 DEF BooksGood, InLaunch
  <2>4. ~asked'.answered
    BY <1>2 DEF clientVars, Nobody
  <2> QED BY <1>2, <1>3, <2>2, <2>3, <2>4 DEF BooksGood
<1> QED BY <1>1, <1>2, <1>3, <1>4, <1>5, <1>6, CommandStepKeeps DEF TypeOK, CommandOK

\* Files of applications come and go: no command is left, and nothing runs that did not.
LEMMA FilesKeep ==
  ASSUME BooksInv, downloadApp \/ removeApp
  PROVE  BooksInv'
<1>1. TypeOK /\ ClientsApart /\ CommandOK
  BY DEF BooksInv
<1>2. /\ user' = Idle /\ asked = Nobody /\ user.app \in App
      /\ UNCHANGED <<clientVars, launchList, overlap, displaced, spent>>
  BY <1>1 DEF downloadApp, removeApp, CommandOK, TypeOK
<1>3. /\ node' \in [Host -> [conn : Client \cup {None}, installed : SUBSET App,
                             running : SUBSET App]]
      /\ \A h \in Host : node'[h].conn = node[h].conn /\ node'[h].running = node[h].running
  <2>1. node \in [Host -> [conn : Client \cup {None}, installed : SUBSET App, running : SUBSET App]]
    BY <1>1 DEF TypeOK
  <2>2. node' = node \/ \E P \in [Host -> SUBSET App] :
          node' = [h \in Host |-> [node[h] EXCEPT !.installed = P[h]]]
    <3>1. CASE downloadApp
      <4> DEFINE to == {c \in user.todo : ~client[c].stale}
                 P == [h \in Host |-> IF \E c \in to : Alive(c) /\ HostOf(c) = h
                                        THEN node[h].installed \cup {user.app} ELSE node[h].installed]
      <4>1. P \in [Host -> SUBSET App]
        BY <1>2, <2>1
      <4>2. node' = [h \in Host |-> IF \E c \in to : Alive(c) /\ HostOf(c) = h
                       THEN [node[h] EXCEPT !.installed = node[h].installed \cup {user.app}]
                       ELSE node[h]]
        BY <3>1 DEF downloadApp
      <4>3. ASSUME NEW h \in Host PROVE node'[h] = [node[h] EXCEPT !.installed = P[h]]
        BY <2>1, <4>2
      <4>4. node' = [h \in Host |-> [node[h] EXCEPT !.installed = P[h]]]
        BY <4>2, <4>3
      <4> QED BY <4>1, <4>4
    <3>2. CASE removeApp /\ node' # node
      <4>1. PICK to : removeAppFromClient(to, user.app)
        BY <3>2 DEF removeApp
      <4> DEFINE P == [h \in Host |-> IF h \in {HostOf(c) : c \in to}
                                        THEN node[h].installed \ {user.app} ELSE node[h].installed]
      <4>2. P \in [Host -> SUBSET App]
        BY <2>1
      <4>3. node' = [h \in Host |-> IF h \in {HostOf(c) : c \in to}
                       THEN [node[h] EXCEPT !.installed = node[h].installed \ {user.app}]
                       ELSE node[h]]
        BY <4>1 DEF removeAppFromClient
      <4>4. ASSUME NEW h \in Host PROVE node'[h] = [node[h] EXCEPT !.installed = P[h]]
        BY <2>1, <4>3
      <4>5. node' = [h \in Host |-> [node[h] EXCEPT !.installed = P[h]]]
        BY <4>3, <4>4
      <4> QED BY <4>2, <4>5
    <3> QED BY <3>1, <3>2
  <2>3. CASE node' = node
    BY <2>1, <2>3
  <2>4. ASSUME NEW P \in [Host -> SUBSET App],
               node' = [h \in Host |-> [node[h] EXCEPT !.installed = P[h]]]
        PROVE  /\ node' \in [Host -> [conn : Client \cup {None}, installed : SUBSET App,
                                      running : SUBSET App]]
               /\ \A h \in Host : node'[h].conn = node[h].conn /\ node'[h].running = node[h].running
    BY <2>1, <2>4
  <2> QED BY <2>2, <2>3, <2>4
<1>4. /\ appInfo' \in [App -> [status : AppStatus, model : BOOLEAN, depl : BOOLEAN,
                               clients : SUBSET Client]]
      /\ \A a \in App : appInfo'[a].clients \subseteq appInfo[a].clients
  <2>1. appInfo \in [App -> [status : AppStatus, model : BOOLEAN, depl : BOOLEAN,
                             clients : SUBSET Client]]
    BY <1>1 DEF TypeOK
  <2>2. CASE appInfo' = appInfo
    BY <2>1, <2>2
  <2>3. CASE appInfo' = [appInfo EXCEPT ![user.app].status = "Loaded"]
    BY <1>2, <2>1, <2>3 DEF AppStatus
  <2>4. CASE appInfo' = [appInfo EXCEPT ![user.app] = Absent]
    BY <1>2, <2>1, <2>4 DEF AppStatus, Absent
  <2> QED BY <2>2, <2>3, <2>4 DEF downloadApp, removeApp
<1>5. ASSUME BooksGood PROVE BooksGood'
  <2>1. /\ Known' = Known /\ \A h \in Host : Watched(h)' <=> Watched(h)
    BY <1>2, <1>3, CommandKeepsClients
  <2>2. ListedKnown'
    BY <1>2, <1>4, <1>5, <2>1 DEF BooksGood, ListedKnown
  <2>3. \A h \in Host : Watched(h)' =>
          \A a \in node'[h].running : <<node'[h].conn, a>> \in launchList'
    BY <1>2, <1>3, <1>5, <2>1 DEF BooksGood, InLaunch, downloadApp, removeApp
  <2>4. ~asked'.answered
    BY <1>2 DEF clientVars, Nobody
  <2> QED BY <1>2, <2>2, <2>3, <2>4 DEF BooksGood, Idle
<1>6. launchList' \subseteq Entry /\ user' \in UserState
  BY <1>1, <1>2 DEF TypeOK, UserState, Idle
<1> QED BY <1>2, <1>3, <1>4, <1>5, <1>6, CommandStepKeeps DEF Idle

\* An answer: the client is not waited for any more.
LEMMA ReturnedIs ==
  ASSUME TypeOK, NEW c, user' = Returned(c)
  PROVE  /\ user' \in UserState /\ user'.calls \subseteq user'.todo
         /\ user'.cmd = user.cmd /\ user'.app = user.app /\ user'.rest = user.rest
         /\ user'.found = user.found /\ user'.locked = user.locked
         /\ user'.todo = user.todo \ {c} /\ user'.calls = user.calls \ {c}
<1> DEFINE t == user.todo \ {c}
           k == user.calls \ {c}
<1>1. user \in UserState /\ user.calls \subseteq user.todo
  BY DEF TypeOK
<1>2. t \subseteq Client /\ k \subseteq Client /\ k \subseteq t
  BY <1>1 DEF UserState
<1>3. user' = [user EXCEPT !.todo = t, !.calls = k]
  BY DEF Returned
<1> HIDE DEF t, k
<1>4. user' \in UserState
  BY <1>1, <1>2, <1>3 DEF UserState
<1>5. /\ user'.cmd = user.cmd /\ user'.app = user.app /\ user'.rest = user.rest
      /\ user'.locked = user.locked /\ user'.found = user.found /\ user'.todo = t /\ user'.calls = k
  BY <1>1, <1>3 DEF UserState
<1> QED BY <1>2, <1>4, <1>5 DEF t, k

\* launchAppClient(): what the node is told to run is on its way into the launch list.
LEMMA CallKeeps ==
  ASSUME BooksInv, NEW c \in Client, launchAppClient(c)
  PROVE  BooksInv'
<1>1. TypeOK /\ ClientsApart /\ CommandOK
  BY DEF BooksInv
<1>2. /\ user.cmd = "launch" /\ user.app \in App /\ user.rest = {} /\ ~user.found /\ ~user.locked
      /\ c \in user.todo /\ c \notin user.calls
      /\ UNCHANGED <<clientVars, appInfo, launchList, overlap, displaced, spent>>
  BY <1>1 DEF launchAppClient, CommandOK, TypeOK
<1>3. /\ node \in [Host -> [conn : Client \cup {None}, installed : SUBSET App, running : SUBSET App]]
      /\ user \in UserState /\ user.calls \subseteq user.todo
      /\ appInfo \in [App -> [status : AppStatus, model : BOOLEAN, depl : BOOLEAN,
                              clients : SUBSET Client]]
      /\ launchList \subseteq Entry
  BY <1>1 DEF TypeOK
<1>4. CASE client[c].conn = "up"
  <2>1. HostOf(c) \in Host /\ node[HostOf(c)].conn = c
    BY <1>1, <1>4 DEF ClientsApart
  <2> DEFINE r == node[HostOf(c)].running \cup ({user.app} \cap node[HostOf(c)].installed)
             n == [node[HostOf(c)] EXCEPT !.running = r]
  <2>2. /\ n \in [conn : Client \cup {None}, installed : SUBSET App, running : SUBSET App]
        /\ n.conn = node[HostOf(c)].conn
        /\ \A a \in n.running : a \in node[HostOf(c)].running \/ a = user.app
    <3>1. node[HostOf(c)] \in [conn : Client \cup {None}, installed : SUBSET App,
                               running : SUBSET App]
      BY <1>3, <2>1
    <3>2. r \subseteq App /\ \A a \in r : a \in node[HostOf(c)].running \/ a = user.app
      BY <1>2, <3>1
    <3> HIDE DEF r
    <3> QED BY <3>1, <3>2
  <2>3. node' = [node EXCEPT ![HostOf(c)] = n]
    BY <1>4 DEF launchAppClient
  <2> HIDE DEF n, r
  <2>4. /\ node' \in [Host -> [conn : Client \cup {None}, installed : SUBSET App,
                               running : SUBSET App]]
        /\ node'[HostOf(c)] = n /\ \A h \in Host \ {HostOf(c)} : node'[h] = node[h]
    BY <1>3, <2>1, <2>2, <2>3
  <2>5. \A h \in Host : node'[h].conn = node[h].conn
    BY <2>2, <2>4
  <2>6. /\ user' \in UserState /\ user'.calls = user.calls \cup {c} /\ user'.todo = user.todo
        /\ user'.cmd = "launch" /\ user'.app = user.app /\ user'.rest = {} /\ ~user'.found
        /\ ~user'.locked
    <3>1. user' = [user EXCEPT !.calls = user.calls \cup {c}]
      BY <1>4 DEF launchAppClient
    <3>2. user.calls \cup {c} \subseteq Client
      BY <1>3 DEF UserState
    <3>3. user' \in UserState
      BY <1>3, <3>1, <3>2 DEF UserState
    <3>4. /\ user'.calls = user.calls \cup {c} /\ user'.todo = user.todo /\ user'.cmd = user.cmd
          /\ user'.locked = user.locked /\ user'.app = user.app /\ user'.rest = user.rest /\ user'.found = user.found
      BY <1>3, <3>1 DEF UserState
    <3> QED BY <1>2, <3>3, <3>4
  <2>7. ASSUME BooksGood PROVE BooksGood'
    <3>1. Known' = Known /\ asked' = asked /\ \A h \in Host : Watched(h)' <=> Watched(h)
      BY <1>2, <2>5, CommandKeepsClients
    <3>2. Free /\ user.todo \subseteq Known
      BY <1>2, <2>7 DEF BooksGood
    <3>3. ListedKnown'
      BY <1>2, <2>7, <3>1 DEF BooksGood, ListedKnown
    <3>4. ASSUME NEW h \in Host, Watched(h)', NEW a \in node'[h].running
          PROVE  <<node'[h].conn, a>> \in launchList' \/ InLaunch(h, a)'
      <4>1. CASE a \in node[h].running
        <5>1. <<node[h].conn, a>> \in launchList \/ InLaunch(h, a)
          BY <2>7, <3>1, <3>4, <4>1 DEF BooksGood
        <5> QED BY <1>2, <2>5, <2>6, <5>1 DEF InLaunch
      <4>2. CASE a \notin node[h].running
        <5>1. h = HostOf(c) /\ a = user.app
          BY <2>2, <2>4, <3>4, <4>2
        <5> QED BY <2>1, <2>5, <2>6, <5>1 DEF InLaunch
      <4> QED BY <4>1, <4>2
    <3>5. ~asked'.answered
      BY <1>2, <3>2 DEF clientVars, Free, Nobody
    <3> QED BY <2>6, <3>1, <3>2, <3>3, <3>4, <3>5 DEF BooksGood, Free
  <2> QED BY <1>2, <1>3, <2>4, <2>5, <2>6, <2>7, CommandStepKeeps
<1>5. CASE client[c].conn # "up"
  <2>1. node' = node /\ \/ user' = [user EXCEPT !.calls = user.calls \cup {c}]
                        \/ user' = [user EXCEPT !.todo = user.todo \ {c}]
    BY <1>5 DEF launchAppClient
  <2>2. /\ user' \in UserState /\ user.calls \subseteq user'.calls
        /\ user'.todo \subseteq user.todo /\ user'.calls \subseteq user'.todo
        /\ user'.cmd = "launch" /\ user'.app = user.app /\ user'.rest = {} /\ ~user'.found
        /\ ~user'.locked
    <3>1. user.todo \ {c} \subseteq Client /\ user.calls \cup {c} \subseteq Client
      BY <1>3 DEF UserState
    <3>2. user' \in UserState
      BY <1>3, <2>1, <3>1 DEF UserState
    <3>3. /\ \/ user'.calls = user.calls \cup {c} /\ user'.todo = user.todo
             \/ user'.calls = user.calls /\ user'.todo = user.todo \ {c}
          /\ user'.cmd = user.cmd /\ user'.locked = user.locked
          /\ user'.app = user.app /\ user'.rest = user.rest /\ user'.found = user.found
      BY <1>3, <2>1 DEF UserState
    <3> QED BY <1>2, <1>3, <3>2, <3>3
  <2>3. ASSUME BooksGood PROVE BooksGood'
    <3>1. Known' = Known /\ asked' = asked /\ \A h \in Host : Watched(h)' <=> Watched(h)
      BY <1>2, <2>1, CommandKeepsClients
    <3>2. Free /\ user.todo \subseteq Known
      BY <1>2, <2>3 DEF BooksGood
    <3>3. ListedKnown'
      BY <1>2, <2>3, <3>1 DEF BooksGood, ListedKnown
    <3>4. \A h \in Host : Watched(h)' =>
            \A a \in node'[h].running : <<node'[h].conn, a>> \in launchList' \/ InLaunch(h, a)'
      BY <1>2, <2>1, <2>2, <2>3, <3>1 DEF BooksGood, InLaunch
    <3>5. ~asked'.answered
      BY <1>2, <3>2 DEF clientVars, Free, Nobody
    <3> QED BY <2>2, <3>1, <3>2, <3>3, <3>4, <3>5 DEF BooksGood, Free
  <2>4. \A h \in Host : node'[h].conn = node[h].conn
    BY <2>1
  <2>5. node' \in [Host -> [conn : Client \cup {None}, installed : SUBSET App, running : SUBSET App]]
    BY <1>3, <2>1, Zenon
  <2>6. appInfo' \in [App -> [status : AppStatus, model : BOOLEAN, depl : BOOLEAN,
                              clients : SUBSET Client]]
    BY <1>2, <1>3, Zenon
  <2> QED BY <1>2, <1>3, <2>2, <2>3, <2>4, <2>5, <2>6, CommandStepKeeps
<1> QED BY <1>4, <1>5

\* Launched(), NotLaunched(): a call that returns is recorded, unless its node is lost.
LEMMA AnswerKeeps ==
  ASSUME BooksInv, NEW c \in Client, Launched(c) \/ NotLaunched(c)
  PROVE  BooksInv'
<1>1. TypeOK /\ ClientsApart /\ CommandOK
  BY DEF BooksInv
<1>2. /\ user.cmd = "launch" /\ user.app \in App /\ user.rest = {} /\ ~user.found /\ ~user.locked
      /\ c \in user.todo /\ user' = Returned(c) /\ UNCHANGED <<node, clientVars, overlap, displaced, spent>>
  BY <1>1 DEF Launched, NotLaunched, CommandOK, TypeOK
<1>3. /\ user' \in UserState /\ user'.calls \subseteq user'.todo
      /\ user'.cmd = "launch" /\ user'.app = user.app /\ user'.rest = {} /\ ~user'.found
      /\ ~user'.locked /\ user'.todo = user.todo \ {c} /\ user'.calls = user.calls \ {c}
  BY <1>1, <1>2, ReturnedIs
<1>4. /\ appInfo' \in [App -> [status : AppStatus, model : BOOLEAN, depl : BOOLEAN,
                               clients : SUBSET Client]]
      /\ \A a \in App : appInfo'[a].clients \subseteq appInfo[a].clients \cup {c}
  <2>1. appInfo \in [App -> [status : AppStatus, model : BOOLEAN, depl : BOOLEAN,
                             clients : SUBSET Client]]
    BY <1>1 DEF TypeOK
  <2>2. appInfo' = appInfo \/ appInfo' = [appInfo EXCEPT ![user.app].clients = @ \cup {c}]
    BY DEF Launched, NotLaunched
  <2>3. CASE appInfo' = appInfo
    BY <2>1, <2>3
  <2>4. CASE appInfo' = [appInfo EXCEPT ![user.app].clients = @ \cup {c}]
    BY <1>2, <2>1, <2>4
  <2> QED BY <2>2, <2>3, <2>4
<1>5. /\ launchList \subseteq launchList' /\ launchList' \subseteq Entry
      /\ \A e \in launchList' : e \in launchList \/ e[1] = c
      /\ Launched(c) => <<c, user.app>> \in launchList'
  <2>1. launchList \subseteq Entry /\ <<c, user.app>> \in Entry
    BY <1>1, <1>2 DEF TypeOK, Entry
  <2>2. launchList' = launchList \cup {<<c, user.app>>} \/ (launchList' = launchList /\ NotLaunched(c))
    BY DEF Launched, NotLaunched
  <2>3. Launched(c) => launchList' = launchList \cup {<<c, user.app>>}
    BY DEF Launched
  <2> QED BY <2>1, <2>2, <2>3
<1>6. ASSUME BooksGood PROVE BooksGood'
  <2>1. Known' = Known /\ asked' = asked /\ \A h \in Host : Watched(h)' <=> Watched(h)
    BY <1>2, CommandKeepsClients
  <2>2. Free /\ c \in Known /\ user'.todo \subseteq Known
    BY <1>2, <1>3, <1>6 DEF BooksGood
  <2>3. ListedKnown'
    BY <1>2, <1>4, <1>5, <1>6, <2>1, <2>2 DEF BooksGood, ListedKnown
  <2>4. ASSUME NEW h \in Host, Watched(h)', NEW a \in node'[h].running
        PROVE  <<node'[h].conn, a>> \in launchList' \/ InLaunch(h, a)'
    <3>1. Watched(h) /\ a \in node[h].running /\ node'[h].conn = node[h].conn
      BY <1>2, <2>1, <2>4
    <3>2. CASE <<node[h].conn, a>> \in launchList
      BY <1>5, <3>1, <3>2
    <3>3. CASE InLaunch(h, a) /\ node[h].conn = c
      <4>1. Launched(c)
        BY <3>1, <3>3 DEF Watched, NotLaunched
      <4>2. a = user.app
        BY <3>3 DEF InLaunch
      <4> QED BY <1>5, <3>1, <3>3, <4>1, <4>2
    <3>4. CASE InLaunch(h, a) /\ node[h].conn # c
      BY <1>3, <3>1, <3>4 DEF InLaunch
    <3> QED BY <1>6, <3>1, <3>2, <3>3, <3>4 DEF BooksGood
  <2>5. ~asked'.answered
    BY <1>2, <2>2 DEF clientVars, Free, Nobody
  <2> QED BY <1>3, <2>1, <2>2, <2>3, <2>4, <2>5 DEF BooksGood, Free
<1>7. /\ node' \in [Host -> [conn : Client \cup {None}, installed : SUBSET App,
                             running : SUBSET App]]
      /\ \A h \in Host : node'[h].conn = node[h].conn
  <2>1. node' = node /\ node \in [Host -> [conn : Client \cup {None}, installed : SUBSET App,
                                           running : SUBSET App]]
    BY <1>1, <1>2 DEF TypeOK
  <2> QED BY <2>1, Zenon
<1> QED BY <1>2, <1>3, <1>4, <1>5, <1>6, <1>7, CommandStepKeeps

\* launchApp() ends when no call is left, and all that was launched is listed.
LEMMA LaunchEnds ==
  ASSUME BooksInv, launchApp
  PROVE  BooksInv'
<1>1. TypeOK /\ ClientsApart /\ CommandOK
  BY DEF BooksInv
<1>2. /\ user.cmd = "launch" /\ user.rest = {} /\ user.found = FALSE /\ user.locked = FALSE
      /\ user.todo = {} /\ user.calls = {} /\ user \in UserState
      /\ UNCHANGED <<node, clientVars, appInfo, launchList, overlap, displaced, spent>>
  BY <1>1 DEF launchApp, CommandOK, TypeOK, UserState
<1>3. user' = Idle
  <2>1. user' = [user EXCEPT !.cmd = "none", !.app = None]
    BY DEF launchApp
  <2> QED BY <1>2, <2>1 DEF UserState, Idle
<1>4. /\ node' \in [Host -> [conn : Client \cup {None}, installed : SUBSET App,
                             running : SUBSET App]]
      /\ appInfo' \in [App -> [status : AppStatus, model : BOOLEAN, depl : BOOLEAN,
                               clients : SUBSET Client]]
      /\ launchList' \subseteq Entry
  BY <1>1, <1>2 DEF TypeOK
<1>5. \A h \in Host : node'[h].conn = node[h].conn
  BY <1>2
<1>6. ASSUME BooksGood PROVE BooksGood'
  <2>1. Known' = Known /\ \A h \in Host : Watched(h)' <=> Watched(h)
    BY <1>2, <1>5, CommandKeepsClients
  <2>2. ListedKnown'
    BY <1>2, <1>6, <2>1 DEF BooksGood, ListedKnown
  <2>3. \A h \in Host : Watched(h)' =>
          \A a \in node'[h].running : <<node'[h].conn, a>> \in launchList'
    BY <1>2, <1>6, <2>1 DEF BooksGood, InLaunch
  <2>4. ~asked'.answered
    BY <1>2, <1>6 DEF BooksGood, clientVars, Free, Nobody
  <2> QED BY <1>3, <2>2, <2>3, <2>4 DEF BooksGood, Idle
<1>7. user' \in UserState /\ user'.calls \subseteq user'.todo /\ user'.cmd = "none" /\ ~user'.locked
  BY <1>3 DEF Idle, UserState
<1> QED BY <1>2, <1>3, <1>4, <1>5, <1>6, <1>7, CommandStepKeeps

\* haltAppClient(): a node that is watched can be called, and runs the application no more.
LEMMA HaltCallKeeps ==
  ASSUME BooksInv, NEW c \in Client, haltAppClient(c)
  PROVE  BooksInv'
<1>1. TypeOK /\ ClientsApart /\ CommandOK
  BY DEF BooksInv
<1>2. /\ user.cmd \in {"halt", "remove"} /\ c \in user.todo /\ user' = Returned(c)
      /\ UNCHANGED <<clientVars, appInfo, launchList, overlap, displaced, spent>> /\ user.app \in App
      /\ ~user.locked
  BY <1>1 DEF haltAppClient, CommandOK, TypeOK
<1>3. /\ user' \in UserState /\ user'.calls \subseteq user'.todo /\ user'.cmd = user.cmd
      /\ user'.app = user.app /\ user'.rest = user.rest /\ user'.todo = user.todo \ {c}
      /\ ~user'.locked
  BY <1>1, <1>2, ReturnedIs
<1>4. /\ node' \in [Host -> [conn : Client \cup {None}, installed : SUBSET App,
                             running : SUBSET App]]
      /\ \A h \in Host : /\ node'[h].conn = node[h].conn
                         /\ node'[h].running \subseteq node[h].running
      /\ Alive(c) /\ HostOf(c) \in Host => user.app \notin node'[HostOf(c)].running
  <2>1. node \in [Host -> [conn : Client \cup {None}, installed : SUBSET App, running : SUBSET App]]
    BY <1>1 DEF TypeOK
  <2>2. CASE Alive(c)
    <3>1. HostOf(c) \in Host
      BY <1>1, <2>2 DEF Alive, ClientsApart
    <3> DEFINE n == [node[HostOf(c)] EXCEPT !.running = @ \ {user.app}]
    <3>2. node[HostOf(c)] \in [conn : Client \cup {None}, installed : SUBSET App,
                               running : SUBSET App]
      BY <2>1, <3>1
    <3>3. /\ n \in [conn : Client \cup {None}, installed : SUBSET App, running : SUBSET App]
          /\ n.conn = node[HostOf(c)].conn /\ n.running = node[HostOf(c)].running \ {user.app}
      BY <3>2
    <3>4. node' = [node EXCEPT ![HostOf(c)] = n]
      BY <2>2 DEF haltAppClient
    <3> HIDE DEF n
    <3>5. /\ node' \in [Host -> [conn : Client \cup {None}, installed : SUBSET App,
                                 running : SUBSET App]]
          /\ node'[HostOf(c)] = n /\ \A h \in Host \ {HostOf(c)} : node'[h] = node[h]
      BY <2>1, <3>1, <3>3, <3>4
    <3>6. ASSUME NEW h \in Host
          PROVE  node'[h].conn = node[h].conn /\ node'[h].running \subseteq node[h].running
      <4>1. CASE h = HostOf(c)
        BY <3>3, <3>5, <4>1
      <4>2. CASE h # HostOf(c)
        BY <3>5, <4>2
      <4> QED BY <4>1, <4>2
    <3> QED BY <3>3, <3>5, <3>6
  <2>3. CASE ~Alive(c)
    <3>1. node' = node
      BY <2>3 DEF haltAppClient
    <3> QED BY <2>1, <2>3, <3>1, Zenon
  <2> QED BY <2>2, <2>3
<1>5. ASSUME BooksGood PROVE BooksGood'
  <2>1. Known' = Known /\ \A h \in Host : Watched(h)' <=> Watched(h)
    BY <1>2, <1>4, CommandKeepsClients
  <2>2. ListedKnown'
    BY <1>2, <1>5, <2>1 DEF BooksGood, ListedKnown
  <2>3. \A h \in Host : Watched(h)' =>
          \A a \in node'[h].running : <<node'[h].conn, a>> \in launchList'
    BY <1>2, <1>4, <1>5, <2>1 DEF BooksGood, InLaunch
  <2>4. ASSUME NEW h \in Host, Watched(h)', user.app \in node'[h].running
        PROVE  node'[h].conn \in user'.todo
    <3>1. Watched(h) /\ node[h].conn \in user.todo /\ node'[h].conn = node[h].conn
      BY <1>2, <1>4, <1>5, <2>1, <2>4 DEF BooksGood
    <3>2. ASSUME node[h].conn = c PROVE FALSE
      <4>1. c # None /\ clientMap[h] = c /\ client[c].conn = "up" /\ HostOf(c) = h
        BY <1>1, <3>1, <3>2 DEF Watched, ClientsApart
      <4>2. c \in Known
        BY <1>1, <4>1, KnownIs
      <4>3. Alive(c)
        BY <1>1, <4>1, <4>2 DEF Alive, ClientsApart
      <4> QED BY <1>4, <2>4, <4>1, <4>3
    <3> QED BY <1>3, <3>1, <3>2
  <2>5. asked'.answered => node'[HostOf(asked.who)'].running \subseteq asked'.apps
    <3>1. ASSUME asked.answered
          PROVE  node'[HostOf(asked.who)].running \subseteq asked.apps
      <4>1. asked.who \in Known
        BY <1>1, <3>1 DEF CommandOK, Nobody
      <4>2. HostOf(asked.who) \in Host
        BY <1>1, <4>1, KnownAtHome
      <4>3. node[HostOf(asked.who)].running \subseteq asked.apps
        BY <1>5, <3>1 DEF BooksGood
      <4> QED BY <1>4, <4>2, <4>3
    <3> QED BY <1>2, <3>1 DEF clientVars, HostOf
  <2> QED BY <1>2, <1>3, <1>5, <2>2, <2>3, <2>4, <2>5 DEF BooksGood
<1>6. /\ appInfo' \in [App -> [status : AppStatus, model : BOOLEAN, depl : BOOLEAN,
                               clients : SUBSET Client]]
      /\ launchList' \subseteq Entry
  BY <1>1, <1>2 DEF TypeOK
<1> QED BY <1>2, <1>3, <1>4, <1>5, <1>6, CommandStepKeeps

\* haltApp(): no node is left to call, so what the copy left over is all that runs.
LEMMA HaltAppKeeps ==
  ASSUME BooksInv, haltApp
  PROVE  BooksInv'
<1>1. TypeOK /\ ClientsApart /\ CommandOK
  BY DEF BooksInv
<1>2. /\ user.cmd \in {"halt", "remove"} /\ user.todo = {} /\ user.app \in App
      /\ launchList' = (IF user.found THEN user.rest ELSE launchList)
      /\ UNCHANGED <<node, clientVars, overlap, displaced, spent>>
  BY <1>1 DEF haltApp, CommandOK
<1>3. /\ appInfo' \in [App -> [status : AppStatus, model : BOOLEAN, depl : BOOLEAN,
                               clients : SUBSET Client]]
      /\ \A a \in App : appInfo'[a].clients \subseteq appInfo[a].clients
  <2>1. appInfo \in [App -> [status : AppStatus, model : BOOLEAN, depl : BOOLEAN,
                             clients : SUBSET Client]]
    BY <1>1 DEF TypeOK
  <2>2. appInfo' = appInfo \/ appInfo' = [appInfo EXCEPT ![user.app] = Absent]
    BY DEF haltApp
  <2>3. CASE appInfo' = appInfo
    BY <2>1, <2>3
  <2>4. CASE appInfo' = [appInfo EXCEPT ![user.app] = Absent]
    BY <1>2, <2>1, <2>4 DEF AppStatus, Absent
  <2> QED BY <2>2, <2>3, <2>4
<1>4. /\ user' \in UserState /\ user'.calls = {} /\ user'.cmd \in {"none", "clean", "forget"}
      /\ user'.locked = FALSE
      /\ user'.cmd = "none" => user' = Idle
      /\ user'.cmd # "none" => user'.app = user.app
  <2>1. CASE user' = Idle
    BY <2>1 DEF Idle, UserState
  <2>2. CASE Begin("clean", user.app, Targets(user.app)) \/ Begin("forget", user.app, {})
    <3>1. Targets(user.app) \subseteq Client
      BY <1>1, KnownAtHome DEF Targets
    <3>2. PICK d \in {"clean", "forget"}, t \in SUBSET Client :
            user' = [cmd |-> d, app |-> user.app, todo |-> t, calls |-> {}, rest |-> {},
                     found |-> FALSE, locked |-> FALSE]
      BY <2>2, <3>1 DEF Begin, Idle
    <3> QED BY <1>2, <3>2 DEF UserState
  <2> QED BY <2>1, <2>2 DEF haltApp
<1>5. launchList' \subseteq Entry
  BY <1>1, <1>2 DEF TypeOK, UserState
<1>6. \A h \in Host : node'[h].conn = node[h].conn
  BY <1>2
<1>7. ASSUME BooksGood PROVE BooksGood'
  <2>1. Known' = Known /\ \A h \in Host : Watched(h)' <=> Watched(h)
    BY <1>2, <1>6, CommandKeepsClients
  <2>2. /\ user.rest \subseteq launchList
        /\ \A e \in launchList : e[2] # user.app => e \in user.rest
        /\ \A h \in Host : Watched(h) => user.app \notin node[h].running
    BY <1>2, <1>7 DEF BooksGood
  <2>3. ListedKnown'
    BY <1>2, <1>3, <1>7, <2>1, <2>2 DEF BooksGood, ListedKnown
  <2>4. ASSUME NEW h \in Host, Watched(h)', NEW a \in node'[h].running
        PROVE  <<node'[h].conn, a>> \in launchList'
    <3>1. Watched(h) /\ a \in node[h].running /\ a # user.app
      BY <1>2, <2>1, <2>2, <2>4
    <3>2. <<node[h].conn, a>> \in launchList
      BY <1>2, <1>7, <3>1 DEF BooksGood, InLaunch
    <3>3. <<node[h].conn, a>>[2] = a
      OBVIOUS
    <3>4. <<node[h].conn, a>> \in user.rest
      BY <2>2, <3>1, <3>2, <3>3
    <3> QED BY <1>2, <3>2, <3>4
  <2>5. asked'.answered => node'[HostOf(asked.who)'].running \subseteq asked'.apps
    BY <1>2, <1>7 DEF BooksGood, clientVars, HostOf
  <2> QED BY <1>4, <2>3, <2>4, <2>5 DEF BooksGood
<1>8. node' \in [Host -> [conn : Client \cup {None}, installed : SUBSET App, running : SUBSET App]]
  BY <1>1, <1>2 DEF TypeOK
<1> QED BY <1>2, <1>3, <1>4, <1>5, <1>6, <1>7, <1>8, CommandStepKeeps

--------------------------------------------------------------------------------
(* Specification *)

LEMMA InitBooks == Init => BooksInv
<1> SUFFICES ASSUME Init PROVE BooksInv
  OBVIOUS
<1>1. /\ client = [c \in Client |-> [host |-> None, stale |-> FALSE, conn |-> "none"]]
      /\ clientMap = [h \in Host |-> None]
      /\ replacing = {} /\ adding = {} /\ leaving = {}
      /\ asked = Nobody /\ appInfo = [a \in App |-> Absent] /\ launchList = {}
      /\ user = Idle /\ overlap = FALSE /\ displaced = {} /\ spent = 0
  BY DEF Init
<1>2. PICK old \in [Host -> SUBSET App] :
        node = [h \in Host |-> [conn |-> None, installed |-> old[h], running |-> old[h]]]
  BY DEF Init
<1>3. Known = {}
  BY <1>1 DEF Known
<1>4. TypeOK
  <2>1. node \in [Host -> [conn : Client \cup {None}, installed : SUBSET App, running : SUBSET App]]
    BY <1>2
  <2>2. client \in [Client -> [host : Host \cup {None}, stale : BOOLEAN,
                               conn : {"none", "up", "silent", "broken", "closed"}]]
    BY <1>1
  <2>3. asked \in [who : Client \cup {None}, answered : BOOLEAN, apps : SUBSET App]
        /\ asked.who = None
    BY <1>1 DEF Nobody
  <2>4. appInfo \in [App -> [status : AppStatus, model : BOOLEAN, depl : BOOLEAN,
                             clients : SUBSET Client]]
    BY <1>1 DEF Absent, AppStatus
  <2>5. user \in UserState /\ user.calls = {} /\ user.locked = FALSE
    BY <1>1 DEF UserState, Idle
  <2>6. spent \in 0 .. MaxCommand
    BY <1>1, ControlAssumption
  <2> QED BY <1>1, <2>1, <2>2, <2>3, <2>4, <2>5, <2>6 DEF TypeOK
<1>5. ClientsApart
  BY <1>1, <1>2, <1>3 DEF ClientsApart
<1>6. CommandOK
  BY <1>1 DEF CommandOK, Idle, Nobody
<1>7. BooksGood
  BY <1>1, <1>2, <1>3 DEF BooksGood, ListedKnown, Watched, Idle, Nobody, Absent
<1> QED BY <1>4, <1>5, <1>6, <1>7 DEF BooksInv

LEMMA NextBooks == BooksInv /\ [Next]_vars => BooksInv'
<1> SUFFICES ASSUME BooksInv, [Next]_vars PROVE BooksInv'
  OBVIOUS
<1>1. CASE NodeNext
  BY <1>1, LoginKeeps, QueryAppsKeeps, LostKeeps DEF NodeNext
<1>2. CASE ClientNext
  BY <1>2, ExposedLoginKeeps, AddClientKeeps, QueryClientKeeps, GoneKeeps, LostKeeps DEF ClientNext
<1>3. CASE CommandNext
  BY <1>3, BeginKeeps DEF CommandNext
<1>4. CASE CommandStep
  BY <1>4, LockKeeps, FilesKeep, LaunchEnds, HaltAppKeeps, CallKeeps, AnswerKeeps, HaltCallKeeps
     DEF CommandStep
<1>5. CASE UNCHANGED vars
  <2>1. TypeOK' /\ ClientsApart' /\ CommandOK' /\ (overlap' <=> overlap)
    BY <1>5 DEF vars, clientVars, BooksInv, TypeOK, ClientsApart, CommandOK, Known, HostOf
  <2>2. BooksGood => BooksGood'
    BY <1>5 DEF vars, clientVars, BooksGood, ListedKnown, Known, Watched, InLaunch, Free, HostOf
  <2> QED BY <2>1, <2>2 DEF BooksInv
<1> QED BY <1>1, <1>2, <1>3, <1>4, <1>5 DEF Next

\* Whatever the logins, connections, queries and commands: what the controller keeps has
\* its types, nothing is left over from a command, and ctrlLock is held for a client that
\* is in the map (ctrl.py: clientMap, launchList, appInfo).
THEOREM ControllerTypes == Spec => []TypeOK
<1>1. BooksInv => TypeOK
  BY DEF BooksInv
<1> QED BY <1>1, InitBooks, NextBooks, PTL DEF Spec

\* When no command runs, what runs on a node that is watched is in the launch list, and a
\* client that was deleted has left no trace, unless clients came or went while a launch,
\* a halt or a removal was under way (launchApp(), haltApp(), delClient(), queryClient()).
\* A client in whose place a late addClient() put another may have left one: it was never
\* deleted.
THEOREM BooksExact == Spec => []LaunchListExact
<1>1. BooksInv => LaunchListExact
  <2> SUFFICES ASSUME BooksInv, user = Idle, ~overlap PROVE RunningListed /\ ListedKnown
    BY DEF LaunchListExact
  <2>1. BooksGood /\ user.cmd = "none"
    BY DEF BooksInv, Idle
  <2> QED BY <2>1 DEF BooksGood, RunningListed, InLaunch
<1> QED BY <1>1, InitBooks, NextBooks, PTL DEF Spec

--------------------------------------------------------------------------------
(* Resources *)

LEMMA MonitorIs ==
  \A m \in Monitor : m[1] \in Actor /\ m[2] \in Thread /\ m = <<m[1], m[2]>> /\ m \in Of(m[1])
BY DEF Monitor, Of

LEMMA OfIs == \A a \in Actor : \A m \in Of(a) : m \in Monitor /\ m[1] = a
BY DEF Of

LEMMA InUseIs == \A a : a \in InUse <=> a \in managed /\ InLaunchMap(a)
BY DEF InUse

\* What says who is followed by what.
LEMMA FollowsFrame ==
  ASSUME UNCHANGED <<mon, managed>>,
         \A a \in Actor : InLaunchMap(a)' <=> InLaunchMap(a),
         \A a \in Actor : proc[a] = "dead" => proc'[a] = "dead"
  PROVE  /\ \A a \in Actor : a \in InUse' <=> a \in InUse
         /\ \A m \in Monitor : Follows(m) => Follows(m)'
<1>1. \A a \in Actor : a \in InUse' <=> a \in InUse
  BY DEF InUse
<1> QED BY <1>1, MonitorIs DEF Follows

--------------------------------------------------------------------------------
(* The controls of a thread *)

\* restart(): the thread is no longer stopped, and goes on from where it was.
LEMMA RestartDoes ==
  ASSUME NEW t \in MonitorState, EventsAgree(t)
  PROVE  /\ restart(t) \in MonitorState /\ EventsAgree(restart(t))
         /\ restart(t).running /\ ~restart(t).stopped /\ restart(t).alive = t.alive
         /\ restart(t).terminated = t.terminated
         /\ restart(t).pc \in {"ended", "failed"} => restart(t).pc = t.pc
         /\ restart(t).pc = "new" <=> t.pc = "new"
BY DEF restart, Wake, MonitorState, EventsAgree

\* startActor() gives the actor a monitor that watches.
LEMMA BegunDoes ==
  ASSUME NEW t \in MonitorState, EventsAgree(t), t.pc \in {"new", "paused"}
  PROVE  /\ Begun(t) \in MonitorState /\ EventsAgree(Begun(t))
         /\ Begun(t).running /\ ~Begun(t).stopped /\ Begun(t).pc \notin {"new", "ended", "failed"}
         /\ Begun(t).terminated = t.terminated
<1>1. CASE t.alive
  BY <1>1, RestartDoes DEF Begun, EventsAgree
<1>2. CASE ~t.alive
  BY <1>2 DEF Begun, EventsAgree, MonitorState
<1> QED BY <1>1, <1>2

\* stop() of a thread that was started.
LEMMA StopDoes ==
  ASSUME NEW t \in MonitorState, EventsAgree(t), t.pc # "new"
  PROVE  /\ stop(t) \in MonitorState /\ EventsAgree(stop(t)) /\ stop(t).pc = t.pc
         /\ stop(t).terminated = t.terminated
BY DEF stop, MonitorState, EventsAgree

\* terminate() wakes a thread that is paused.
LEMMA TerminateDoes ==
  ASSUME NEW t \in MonitorState, EventsAgree(t)
  PROVE  terminate(t) \in MonitorState /\ EventsAgree(terminate(t)) /\ terminate(t).alive = t.alive
<1> DEFINE told == [t EXCEPT !.terminated = TRUE]
<1>1. told \in MonitorState /\ EventsAgree(told) /\ told.alive = t.alive
  BY DEF MonitorState, EventsAgree
<1> HIDE DEF told
<1>2. terminate(t) = IF t.stopped THEN restart(told) ELSE told
  BY DEF terminate, told
<1> QED BY <1>1, <1>2, RestartDoes

\* A step of a thread: it does not change what it is told, is neither paused nor new
\* before, and not new after.
LEMMA StepDoes ==
  ASSUME FollowInv, NEW m \in Monitor, MonitorStep(m)
  PROVE  /\ \E t \in MonitorState :
              /\ mon' = [mon EXCEPT ![m] = t]
              /\ EventsAgree(t) /\ t.running = mon[m].running
              /\ t.pc # "new" /\ (mon[m].alive => t.alive)
              /\ t.terminated = mon[m].terminated
              /\ t.pc = "failed" => m[2] = "cpu" /\ ~ActorUp(m[1])
         /\ mon[m].pc \notin {"new", "paused"}
         /\ efd' \in [Monitor -> BOOLEAN]
<1>1. mon \in [Monitor -> MonitorState] /\ efd \in [Monitor -> BOOLEAN] /\ EventsAgree(mon[m])
  BY DEF FollowInv, ResourcesTypeOK
<1> DEFINE s == mon[m]
           moved(pc) == [s EXCEPT !.pc = pc]
<1>2. s \in MonitorState
  BY <1>1
<1>3. ASSUME NEW pc \in {"loop", "watch", "rest", "ended", "failed"},
             s.pc \notin {"new", "boot", "paused"}, pc = "ended" => s.terminated
      PROVE  /\ moved(pc) \in MonitorState /\ EventsAgree(moved(pc))
             /\ moved(pc).running = s.running /\ moved(pc).pc # "new"
             /\ s.alive => moved(pc).alive
             /\ moved(pc).terminated = s.terminated /\ moved(pc).pc = pc
  BY <1>1, <1>2, <1>3 DEF MonitorState, EventsAgree
<1>4. ASSUME NEW pc, To(m, pc)
      PROVE  mon' = [mon EXCEPT ![m] = moved(pc)]
  BY <1>4 DEF To
<1>5. CASE Boot(m)
  <2> DEFINE t == [s EXCEPT !.alive = TRUE, !.pc = IF m[2] = "cpu" THEN "first" ELSE "loop"]
  <2>1. mon' = [mon EXCEPT ![m] = t] /\ s.pc = "boot" /\ efd' = efd
    BY <1>5 DEF Boot
  <2>2. /\ t \in MonitorState /\ EventsAgree(t) /\ t.running = s.running /\ t.alive
        /\ t.pc \notin {"new", "failed"} /\ t.terminated = s.terminated
    BY <1>1, <1>2, <2>1 DEF MonitorState, EventsAgree
  <2> QED BY <1>1, <2>1, <2>2
<1>6. CASE Pause(m)
  <2> DEFINE t == [s EXCEPT !.stopped = TRUE, !.pc = "paused"]
  <2>1. mon' = [mon EXCEPT ![m] = t] /\ s.pc = "loop" /\ ~s.running /\ efd' = efd
    BY <1>6 DEF Pause
  <2>2. /\ t \in MonitorState /\ EventsAgree(t) /\ t.running = s.running
        /\ t.pc \notin {"new", "failed"} /\ t.terminated = s.terminated
        /\ s.alive => t.alive
    BY <1>1, <1>2, <2>1 DEF MonitorState, EventsAgree
  <2> QED BY <1>1, <2>1, <2>2
<1>7. CASE GoOn(m) \/ Sample(m) \/ ReadEvent(m) \/ Rested(m)
  <2>1. /\ s.pc \notin {"new", "boot", "paused"}
        /\ \E pc \in {"loop", "watch", "rest", "ended", "failed"} :
             /\ To(m, pc)
             /\ pc = "ended" => s.terminated
             /\ pc = "failed" => m[2] = "cpu" /\ ~ActorUp(m[1])
        /\ efd' = efd \/ efd' = [efd EXCEPT ![m] = FALSE]
    <3>1. CASE GoOn(m)
      BY <3>1 DEF GoOn
    <3>2. CASE Sample(m)
      BY <3>2 DEF Sample
    <3>3. CASE ReadEvent(m)
      BY <3>3 DEF ReadEvent
    <3>4. CASE Rested(m)
      BY <3>4 DEF Rested
    <3> QED BY <1>7, <3>1, <3>2, <3>3, <3>4
  <2>2. PICK pc \in {"loop", "watch", "rest", "ended", "failed"} :
          /\ To(m, pc)
          /\ pc = "ended" => s.terminated
          /\ pc = "failed" => m[2] = "cpu" /\ ~ActorUp(m[1])
    BY <2>1
  <2> HIDE DEF moved
  <2> QED BY <1>1, <1>3, <1>4, <2>1, <2>2
<1> QED BY <1>5, <1>6, <1>7 DEF MonitorStep

--------------------------------------------------------------------------------
(* Every step keeps the invariant *)

LEMMA InitFollow == ResourcesInit => FollowInv
<1> SUFFICES ASSUME ResourcesInit PROVE FollowInv
  OBVIOUS
<1>1. ResourcesTypeOK
  <2>1. 0 \in 0 .. MaxStart /\ 0 \in 0 .. MaxCleanup
    BY ResourceAssumption
  <2>2. ManagerIdle \in DepmState /\ New \in MonitorState /\ ManagerIdle.st = "idle"
    BY DEF ManagerIdle, New, DepmState, MonitorState
  <2> QED BY <2>1, <2>2 DEF ResourcesInit, ResourcesTypeOK
<1>2. \A m \in Monitor : mon[m] = New /\ proc[m[1]] = "none"
  BY MonitorIs DEF ResourcesInit
<1>3. \A m \in Monitor : EventsAgree(mon[m]) /\ Follows(m) /\ ~mon[m].terminated
  BY <1>2, InUseIs DEF New, EventsAgree, Follows, InLaunchMap
<1>4. SpaceFollows /\ depm.st = "idle"
  <2>1. \A a \in Uses("spc") : a \notin InUse /\ listed[a] = 0 /\ left[a] = 0
    BY DEF ResourcesInit, InUse, Uses
  <2>2. SpaceFollows
    BY <2>1 DEF SpaceFollows
  <2> QED BY <2>2 DEF ResourcesInit, ManagerIdle
<1> QED BY <1>1, <1>3, <1>4 DEF FollowInv, StopGoesOn, CleanGoesOn

\* A step of a monitor thread.
LEMMA MonitorKeeps ==
  ASSUME FollowInv, NEW m \in Monitor, MonitorStep(m)
  PROVE  FollowInv'
<1>1. PICK t \in MonitorState :
        /\ mon' = [mon EXCEPT ![m] = t]
        /\ EventsAgree(t) /\ t.running = mon[m].running
        /\ t.pc # "new" /\ (mon[m].alive => t.alive)
        /\ t.terminated = mon[m].terminated
        /\ t.pc = "failed" => m[2] = "cpu" /\ ~ActorUp(m[1])
  BY StepDoes
<1>2. mon[m].pc \notin {"new", "paused"} /\ efd' \in [Monitor -> BOOLEAN]
  BY StepDoes
<1>3. UNCHANGED <<proc, depm, app, managed, listed, left, reached, spcRuns, used>>
  BY DEF MonitorStep
<1>4. ResourcesTypeOK /\ mon \in [Monitor -> MonitorState]
  BY DEF FollowInv, ResourcesTypeOK
<1>5. mon' \in [Monitor -> MonitorState] /\ mon'[m] = t
      /\ \A n \in Monitor \ {m} : mon'[n] = mon[n]
  BY <1>1, <1>4
<1>6. \A n \in Monitor : mon[n].alive => mon'[n].alive
  BY <1>1, <1>5
<1>7. ResourcesTypeOK'
  BY <1>2, <1>3, <1>4, <1>5, <1>6 DEF ResourcesTypeOK
<1>8. \A n \in Monitor : EventsAgree(mon'[n])
  BY <1>1, <1>5 DEF FollowInv
<1>9. InUse' = InUse
  BY <1>3 DEF InUse, InLaunchMap
<1>10. ASSUME NEW n \in Monitor, Follows(n), depm.st \notin {"clean", "joining"}
       PROVE  Follows(n)'
  <2>1. CASE n = m /\ n[1] \in InUse
    <3>1. t.pc \notin {"new", "ended"} /\ t.running /\ ~t.stopped
      BY <1>1, <1>2, <1>10, <2>1 DEF FollowInv, Follows, CleanGoesOn, EventsAgree
    <3>2. t.pc = "failed" => m[2] = "cpu" /\ proc[m[1]] = "dead"
      <4>1. m[1] \in Actor /\ proc[m[1]] \in {"up", "registered", "dead"}
        BY <1>4, <2>1, InUseIs, MonitorIs DEF ResourcesTypeOK, InLaunchMap
      <4> QED BY <1>1, <4>1 DEF ActorUp
    <3> QED BY <1>3, <1>5, <1>9, <2>1, <3>1, <3>2 DEF Follows
  <2>2. CASE n = m /\ n[1] \notin InUse
    BY <1>2, <1>10, <2>2 DEF Follows
  <2>3. CASE n # m
    BY <1>3, <1>5, <1>9, <1>10, <2>3 DEF Follows
  <2> QED BY <2>1, <2>2, <2>3
<1>11. StopGoesOn'
  BY <1>1, <1>2, <1>3, <1>5, <1>9, OfIs, InUseIs DEF FollowInv, StopGoesOn
<1>12. \A n \in Monitor : mon'[n].terminated = mon[n].terminated
  BY <1>1, <1>5
<1>13. CleanGoesOn'
  <2>1. depm.todo \subseteq Monitor
    BY <1>4 DEF ResourcesTypeOK, DepmState
  <2> QED BY <1>3, <1>6, <1>12, <2>1 DEF FollowInv, CleanGoesOn
<1>14. SpaceFollows'
  BY <1>3, <1>9 DEF FollowInv, SpaceFollows, Uses
<1> QED BY <1>3, <1>7, <1>8, <1>10, <1>11, <1>13, <1>14 DEF FollowInv, Stops, InLaunchMap

\* Only a command ends a process for the manager: its death, and the exceeded quota,
\* change nothing that the monitors follow.
LEMMA OutsideKeeps ==
  ASSUME FollowInv, QuotaExceeded \/ \E a \in Actor : Die(a)
  PROVE  FollowInv'
<1>1. /\ UNCHANGED <<depm, app, managed, mon, efd, listed, left, reached, used>>
      /\ \/ spcRuns' \in BOOLEAN /\ proc' = proc
         \/ spcRuns' = spcRuns /\ \E a \in Actor : ActorUp(a) /\ proc' = [proc EXCEPT ![a] = "dead"]
  BY DEF QuotaExceeded, Die
<1>2. ResourcesTypeOK
  BY DEF FollowInv
<1>3. ResourcesTypeOK'
  BY <1>1, <1>2 DEF ResourcesTypeOK
<1>4. \A a \in Actor : InLaunchMap(a)' <=> InLaunchMap(a)
  BY <1>1, <1>2 DEF ResourcesTypeOK, InLaunchMap, ActorUp
<1>5. /\ \A a \in Actor : a \in InUse' <=> a \in InUse
      /\ \A m \in Monitor : Follows(m) => Follows(m)'
  <2>1. \A a \in Actor : proc[a] = "dead" => proc'[a] = "dead"
    BY <1>1, <1>2 DEF ResourcesTypeOK
  <2> QED BY <1>1, <1>4, <2>1, FollowsFrame
<1>6. SpaceFollows' /\ StopGoesOn' /\ CleanGoesOn'
  <2>1. SpaceFollows'
    BY <1>1, <1>5 DEF FollowInv, SpaceFollows, Uses
  <2>2. StopGoesOn'
    <3>1. depm.st \in {"stop", "stopping"} => depm.who \in Actor /\ depm.who \in InUse
      BY <1>2, InUseIs DEF FollowInv, StopGoesOn, ResourcesTypeOK
    <3> QED BY <1>1, <1>5, <3>1 DEF FollowInv, StopGoesOn
  <2> QED BY <1>1, <2>1, <2>2 DEF FollowInv, CleanGoesOn
<1> QED BY <1>1, <1>3, <1>4, <1>5, <1>6 DEF FollowInv, Stops, InLaunchMap


\* startActor(), by a command or to restart an actor that died.
LEMMA StartKeeps ==
  ASSUME FollowInv, NEW a \in Actor, startActor(a)
  PROVE  FollowInv'
<1>1. /\ depm.st = "idle" \/ depm.st = "restart"
      /\ depm' = ManagerIdle /\ proc' = [proc EXCEPT ![a] = "up"]
      /\ mon' = [m \in Monitor |-> IF m \in Of(a) THEN Begun(mon[m]) ELSE mon[m]]
      /\ listed' = addProc(a)
      /\ used.start < MaxStart /\ used' = [used EXCEPT !.start = @ + 1]
      /\ managed' = managed \cup {a}
      /\ UNCHANGED <<efd, left, reached, app, spcRuns>>
      /\ depm.st = "idle" => (InLaunchMap(a) => a \notin managed)
      /\ depm.st = "restart" => depm.who = a
  BY DEF startActor, DepmRest, ManagerFree
<1>2. ResourcesTypeOK
  BY DEF FollowInv
<1>3. \A m \in Monitor : EventsAgree(mon[m]) /\ Follows(m) /\ mon[m] \in MonitorState
  BY <1>1, <1>2 DEF FollowInv, Stops, ResourcesTypeOK
<1>4. a \notin InUse
  BY <1>1, InUseIs DEF FollowInv
<1>5. \A b \in Actor : b \in InUse' <=> b = a \/ b \in InUse
  BY <1>1, <1>2 DEF ResourcesTypeOK, InUse, InLaunchMap
<1>6. ASSUME NEW m \in Monitor
      PROVE  /\ mon'[m] \in MonitorState /\ EventsAgree(mon'[m]) /\ Follows(m)'
             /\ ~mon'[m].terminated
  <2>1. CASE m \in Of(a)
    <3>1. m[1] = a /\ mon[m].pc \in {"new", "paused"}
      BY <1>3, <1>4, <2>1, OfIs DEF Follows
    <3>2. mon'[m] = Begun(mon[m]) /\ proc'[a] = "up"
      BY <1>1, <1>2, <2>1 DEF ResourcesTypeOK
    <3>3. /\ Begun(mon[m]) \in MonitorState /\ EventsAgree(Begun(mon[m]))
          /\ Begun(mon[m]).running /\ ~Begun(mon[m]).stopped
          /\ Begun(mon[m]).pc \notin {"new", "ended", "failed"}
          /\ Begun(mon[m]).terminated = mon[m].terminated
      BY <1>3, <3>1, BegunDoes
    <3>4. ~mon[m].terminated
      BY <1>1 DEF FollowInv, CleanGoesOn
    <3> QED BY <1>5, <3>1, <3>2, <3>3, <3>4 DEF Follows
  <2>2. CASE m \notin Of(a)
    <3>1. m[1] \in Actor \ {a} /\ mon'[m] = mon[m] /\ proc'[m[1]] = proc[m[1]]
      BY <1>1, <1>2, <2>2, MonitorIs DEF ResourcesTypeOK, Of
    <3>2. ~mon[m].terminated
      BY <1>1 DEF FollowInv, CleanGoesOn
    <3> QED BY <1>3, <1>5, <3>1, <3>2 DEF Follows
  <2> QED BY <2>1, <2>2
<1>7. listed' \in [Actor -> Nat]
      /\ \A b \in Uses("spc") : listed'[b] = IF b = a THEN listed[b] + 1 ELSE listed[b]
  BY <1>1, <1>2 DEF addProc, ResourcesTypeOK, Uses
<1>8. ResourcesTypeOK'
  <2>1. used' \in [start : 0 .. MaxStart, cleanup : 0 .. MaxCleanup]
    <3>1. used.start \in 0 .. MaxStart /\ used \in [start : 0 .. MaxStart, cleanup : 0 .. MaxCleanup]
      BY <1>2 DEF ResourcesTypeOK
    <3>2. used.start + 1 \in 0 .. MaxStart
      BY <1>1, <3>1, ResourceAssumption
    <3> QED BY <1>1, <3>1, <3>2
  <2>2. depm' \in DepmState /\ depm'.st = "idle"
    BY <1>1 DEF ManagerIdle, DepmState
  <2>3. mon' \in [Monitor -> MonitorState]
    BY <1>1, <1>6
  <2>4. managed' \subseteq Actor
    BY <1>1, <1>2 DEF ResourcesTypeOK
  <2> QED BY <1>1, <1>2, <1>7, <2>1, <2>2, <2>3, <2>4 DEF ResourcesTypeOK
<1>9. SpaceFollows'
  <2>1. \A b \in Uses("spc") : b \in Actor /\ left[b] \in Nat
    BY <1>2 DEF Uses, ResourcesTypeOK
  <2> QED BY <1>1, <1>4, <1>5, <1>7, <2>1 DEF FollowInv, SpaceFollows, Uses
<1>10. depm'.st = "idle"
  BY <1>1 DEF ManagerIdle
<1> QED BY <1>6, <1>8, <1>9, <1>10 DEF FollowInv, StopGoesOn, CleanGoesOn

\* A step of the manager that leaves the processes, the threads and the space monitor
\* alone, and neither stops an actor nor cleans up.
LEMMA QuietKeeps ==
  ASSUME FollowInv, ResourcesTypeOK', UNCHANGED <<proc, managed, mon, listed, left>>,
         depm.st \notin {"stop", "stopping", "clean", "joining"},
         depm'.st \notin {"stop", "stopping", "clean", "joining", "restart"},
         depm'.st = "register" => depm'.who \in Actor
  PROVE  FollowInv'
<1>1. InUse' = InUse
  BY DEF InUse, InLaunchMap
<1>2. \A m \in Monitor : Follows(m)' <=> Follows(m)
  BY <1>1 DEF Follows
<1>3. SpaceFollows'
  BY <1>1 DEF FollowInv, SpaceFollows, Uses
<1> QED BY <1>2, <1>3 DEF FollowInv, Stops, StopGoesOn, CleanGoesOn, InLaunchMap

\* handleActorReg() and addClientDevice().
LEMMA RegisterKeeps ==
  ASSUME FollowInv, addClientDevice \/ \E a \in Actor : handleActorReg(a)
  PROVE  FollowInv'
<1>1. ResourcesTypeOK
  BY DEF FollowInv
<1>2. CASE \E a \in Actor : handleActorReg(a)
  <2>1. PICK a \in Actor : handleActorReg(a)
    BY <1>2
  <2>2. /\ depm.st = "idle" /\ depm' = [ManagerIdle EXCEPT !.st = "register", !.who = a]
        /\ UNCHANGED <<proc, managed, mon, efd, listed, left, reached, used, app, spcRuns>>
    BY <2>1 DEF handleActorReg, ManagerFree, DepmRest
  <2>3. depm' \in DepmState /\ depm'.st = "register" /\ depm'.who = a
    BY <2>2 DEF ManagerIdle, DepmState
  <2>4. ResourcesTypeOK'
    BY <1>1, <2>2, <2>3 DEF ResourcesTypeOK
  <2> QED BY <2>2, <2>3, <2>4, QuietKeeps
<1>3. CASE addClientDevice
  <2> DEFINE a == depm.who
  <2>1. /\ depm.st = "register" /\ depm' = ManagerIdle
        /\ reached' = AddDevice(a)
        /\ proc' = [proc EXCEPT ![a] = IF proc[a] = "up" THEN "registered" ELSE proc[a]]
        /\ UNCHANGED <<managed, mon, efd, listed, left, used, app, spcRuns>>
    BY <1>3 DEF addClientDevice, DepmRest
  <2>2. a \in Actor
    BY <2>1 DEF FollowInv
  <2>3. depm' \in DepmState /\ depm'.st = "idle"
    BY <2>1 DEF ManagerIdle, DepmState
  <2>4. /\ proc' \in [Actor -> {"none", "up", "registered", "dead"}]
        /\ \A b \in Actor : InLaunchMap(b)' <=> InLaunchMap(b)
        /\ \A b \in Actor : proc[b] = "dead" => proc'[b] = "dead"
    BY <1>1, <2>1, <2>2 DEF ResourcesTypeOK, InLaunchMap
  <2>5. reached' \in [Shared -> SUBSET Actor]
    BY <1>1, <2>1, <2>2 DEF AddDevice, ResourcesTypeOK
  <2>6. ResourcesTypeOK'
    BY <1>1, <2>1, <2>3, <2>4, <2>5 DEF ResourcesTypeOK
  <2>7. /\ \A b \in Actor : b \in InUse' <=> b \in InUse
        /\ \A m \in Monitor : Follows(m) => Follows(m)'
    BY <2>1, <2>4, FollowsFrame
  <2>8. SpaceFollows'
    BY <2>1, <2>7 DEF FollowInv, SpaceFollows, Uses
  <2> QED BY <2>1, <2>3, <2>6, <2>7, <2>8 DEF FollowInv, Stops, StopGoesOn, CleanGoesOn
<1> QED BY <1>2, <1>3


\* Who is in use where a step leaves processes and names alone.
LEMMA InUseFrame ==
  ASSUME UNCHANGED <<proc, managed>>
  PROVE  /\ InUse' = InUse
         /\ UNCHANGED mon => \A m \in Monitor : Follows(m)' <=> Follows(m)
         /\ UNCHANGED <<listed, left>> /\ SpaceFollows => SpaceFollows'
<1>1. InUse' = InUse
  BY DEF InUse, InLaunchMap
<1> QED BY <1>1 DEF Follows, SpaceFollows, Uses

\* What stopActor() does: it begins, ...
LEMMA StopKeeps ==
  ASSUME FollowInv, NEW a \in Actor, stopActor(a)
  PROVE  FollowInv'
<1>1. /\ depm.st = "idle" /\ a \in InUse
      /\ UNCHANGED <<proc, managed, mon, efd, listed, left, reached, used, app, spcRuns>>
      /\ \E why \in {"halt", "dead"} :
           depm' = [st |-> "stop", who |-> a, why |-> why, todo |-> Of(a)]
  BY InUseIs DEF stopActor, ManagerFree, DepmRest, Reasons
<1>2. ResourcesTypeOK
  BY DEF FollowInv
<1>3. /\ depm' \in DepmState /\ depm'.st = "stop" /\ depm'.who = a /\ depm'.todo = Of(a)
      /\ depm'.why \in {"halt", "dead"}
  <2>1. PICK why \in {"halt", "dead"} :
          depm' = [st |-> "stop", who |-> a, why |-> why, todo |-> Of(a)]
    BY <1>1
  <2>2. Of(a) \in SUBSET Monitor
    BY OfIs
  <2> QED BY <2>1, <2>2 DEF DepmState
<1>4. ResourcesTypeOK'
  BY <1>1, <1>2, <1>3 DEF ResourcesTypeOK
<1>5. InUse' = InUse /\ \A m \in Monitor : Follows(m) /\ Follows(m)'
  BY <1>1, InUseFrame DEF FollowInv, Stops
<1>6. StopGoesOn'
  BY <1>1, <1>3, <1>5, OfIs DEF StopGoesOn, Follows, Of, Monitor
<1>7. CleanGoesOn' /\ SpaceFollows'
  BY <1>1, <1>3, InUseFrame DEF CleanGoesOn, FollowInv
<1> QED BY <1>1, <1>3, <1>4, <1>5, <1>6, <1>7 DEF FollowInv

\* ... tells a monitor to stop, ...
LEMMA StopMonitorKeeps ==
  ASSUME FollowInv, NEW m \in Monitor, StopMonitor(m)
  PROVE  FollowInv'
<1>1. /\ depm.st = "stop" /\ m \in depm.todo
      /\ mon' = [mon EXCEPT ![m] = stop(mon[m])]
      /\ efd' = [efd EXCEPT ![m] = m[2] = "mem"]
      /\ depm' = [depm EXCEPT !.st = "stopping"]
      /\ UNCHANGED <<proc, managed, listed, left, reached, used, app, spcRuns>>
  BY DEF StopMonitor, Turn, Raised, DepmRest
<1>2. ResourcesTypeOK /\ depm \in DepmState /\ mon \in [Monitor -> MonitorState]
  BY DEF FollowInv, ResourcesTypeOK
<1>3. /\ depm.who \in InUse
      /\ depm.why \in {"halt", "dead"} /\ depm.todo \subseteq Of(depm.who)
      /\ mon[m].pc # "new" /\ EventsAgree(mon[m]) /\ ~mon[m].terminated
  BY <1>1, <1>2 DEF FollowInv, StopGoesOn, CleanGoesOn, Of, Monitor
<1>4. /\ stop(mon[m]) \in MonitorState /\ EventsAgree(stop(mon[m]))
      /\ stop(mon[m]).pc = mon[m].pc /\ ~stop(mon[m]).terminated
  BY <1>2, <1>3, StopDoes
<1>5. /\ depm' \in DepmState /\ depm'.st = "stopping" /\ depm'.who = depm.who
      /\ depm'.why = depm.why /\ depm'.todo = depm.todo
  BY <1>1, <1>2 DEF DepmState
<1>6. /\ mon' \in [Monitor -> MonitorState] /\ mon'[m] = stop(mon[m])
      /\ \A n \in Monitor \ {m} : mon'[n] = mon[n]
  BY <1>1, <1>2, <1>4
<1>7. m[1] = depm.who /\ \A n \in depm.todo : n[1] = depm.who
  BY <1>1, <1>3 DEF Of
<1>8. ResourcesTypeOK'
  <2>1. efd' \in [Monitor -> BOOLEAN]
    BY <1>1, <1>2 DEF ResourcesTypeOK
  <2> QED BY <1>1, <1>2, <1>5, <1>6, <1>7, <2>1 DEF ResourcesTypeOK
<1>9. \A n \in Monitor : EventsAgree(mon'[n])
  BY <1>4, <1>6 DEF FollowInv
<1>10. InUse' = InUse /\ SpaceFollows'
  BY <1>1, InUseFrame DEF FollowInv
<1>11. \A n \in Monitor : Stops(n[1])' \/ Follows(n)'
  BY <1>1, <1>5, <1>6, <1>7, <1>10 DEF FollowInv, Stops, Follows
<1>12. StopGoesOn'
  BY <1>1, <1>3, <1>4, <1>5, <1>6, <1>10, OfIs DEF FollowInv, StopGoesOn, Of, Monitor
<1>13. CleanGoesOn'
  BY <1>1, <1>4, <1>5, <1>6 DEF CleanGoesOn, FollowInv
<1> QED BY <1>5, <1>8, <1>9, <1>10, <1>11, <1>12, <1>13 DEF FollowInv

\* ... waits until it has, ...
LEMMA StoppedKeeps ==
  ASSUME FollowInv, NEW m \in Monitor, MonitorStopped(m)
  PROVE  FollowInv'
<1>1. /\ depm.st = "stopping" /\ m \in depm.todo /\ mon[m].stopped
      /\ depm' = [depm EXCEPT !.st = "stop", !.todo = depm.todo \ {m}]
      /\ UNCHANGED <<proc, managed, mon, efd, listed, left, reached, used, app, spcRuns>>
  BY DEF MonitorStopped, Turn, DepmRest
<1>2. ResourcesTypeOK /\ depm \in DepmState
  BY DEF FollowInv, ResourcesTypeOK
<1>3. mon[m].pc = "paused"
  BY <1>1 DEF FollowInv, EventsAgree
<1>4. /\ depm' \in DepmState /\ depm'.st = "stop" /\ depm'.who = depm.who
      /\ depm'.why = depm.why /\ depm'.todo = depm.todo \ {m}
  BY <1>1, <1>2 DEF DepmState
<1>5. ResourcesTypeOK'
  BY <1>1, <1>2, <1>4 DEF ResourcesTypeOK
<1>6. StopGoesOn'
  BY <1>1, <1>3, <1>4, InUseFrame DEF FollowInv, StopGoesOn, Of, Monitor
<1>7. CleanGoesOn' /\ SpaceFollows'
  BY <1>1, <1>4, InUseFrame DEF CleanGoesOn, FollowInv
<1>8. \A n \in Monitor : Stops(n[1])' \/ Follows(n)'
  BY <1>1, <1>4, InUseFrame DEF FollowInv, Stops
<1> QED BY <1>1, <1>4, <1>5, <1>6, <1>7, <1>8 DEF FollowInv

\* ... and forgets the process: whether delProc() raises or not, all monitors of the
\* actor are paused by then, and the space monitor has dropped it.
LEMMA ReleasedKeeps ==
  ASSUME FollowInv, Released
  PROVE  FollowInv'
<1> PICK a : a = depm.who
  OBVIOUS
<1>1. /\ depm.st = "stop" /\ depm.todo = {}
      /\ listed' = delProc(a)
      /\ reached' = [s \in Shared |-> IF s = "net" /\ Unknown("spc", a)
                                        THEN reached[s] ELSE reached[s] \ {a}]
      /\ proc' = [proc EXCEPT ![a] = "none"]
      /\ UNCHANGED <<managed, mon, efd, left, used, app, spcRuns>>
  BY DEF Released, DepmRest
<1>2. depm' = ManagerIdle \/ depm' = [ManagerIdle EXCEPT !.st = "failed"]
      \/ depm' = [ManagerIdle EXCEPT !.st = "restart", !.who = a]
  BY DEF Released
<1>3. ResourcesTypeOK
  BY DEF FollowInv
<1>4. /\ a \in Actor /\ a \in InUse /\ a \in managed
      /\ \A m \in Of(a) : mon[m].pc = "paused"
  <2>1. a \in InUse /\ \A m \in Of(a) : mon[m].pc = "paused"
    BY <1>1 DEF FollowInv, StopGoesOn
  <2> QED BY <1>3, <2>1, InUseIs DEF ResourcesTypeOK
<1>5. /\ depm' \in DepmState /\ depm'.st \in {"idle", "failed", "restart"}
      /\ depm'.st = "restart" => depm'.who = a
  <2>1. CASE depm' = ManagerIdle
    BY <2>1 DEF DepmState, ManagerIdle
  <2>2. CASE depm' = [ManagerIdle EXCEPT !.st = "failed"]
    BY <2>2 DEF DepmState, ManagerIdle
  <2>3. CASE depm' = [ManagerIdle EXCEPT !.st = "restart", !.who = a]
    BY <1>4, <2>3 DEF DepmState, ManagerIdle
  <2> QED BY <1>2, <2>1, <2>2, <2>3
<1>6. /\ proc' \in [Actor -> {"none", "up", "registered", "dead"}] /\ ~InLaunchMap(a)'
      /\ \A b \in Actor \ {a} : proc'[b] = proc[b]
  BY <1>1, <1>3, <1>4 DEF ResourcesTypeOK, InLaunchMap
<1>7. \A b \in Actor : b \in InUse' <=> b \in InUse /\ b # a
  <2> SUFFICES ASSUME NEW b \in Actor
               PROVE  b \in InUse' <=> b \in InUse /\ b # a
    OBVIOUS
  <2>1. CASE b = a
    BY <1>6, <2>1 DEF InUse
  <2>2. CASE b # a
    BY <1>1, <1>6, <2>2 DEF InUse, InLaunchMap
  <2> QED BY <2>1, <2>2
<1>8. /\ listed' \in [Actor -> Nat]
      /\ \A b \in Uses("spc") : listed'[b] = IF b = a THEN listed[b] - 1 ELSE listed[b]
  <2>1. \A b \in Uses("spc") :
          b \in Actor /\ left[b] \in Nat /\ listed[b] = left[b] + IF b \in InUse THEN 1 ELSE 0
    BY <1>3 DEF FollowInv, SpaceFollows, ResourcesTypeOK, Uses
  <2>2. listed \in [Actor -> Nat]
    BY <1>3 DEF ResourcesTypeOK
  <2>3. CASE a \in Uses("spc")
    <3>1. listed' = [listed EXCEPT ![a] = listed[a] - 1] /\ listed[a] - 1 \in Nat
      BY <1>1, <1>4, <2>1, <2>3 DEF delProc
    <3> QED BY <1>4, <2>1, <2>2, <3>1
  <2>4. CASE a \notin Uses("spc")
    BY <1>1, <2>2, <2>4 DEF delProc
  <2> QED BY <2>3, <2>4
<1>9. reached' \in [Shared -> SUBSET Actor]
  BY <1>1, <1>3 DEF ResourcesTypeOK
<1>10. ResourcesTypeOK'
  <2>1. depm'.st \notin {"stopping", "joining"}
    BY <1>5
  <2>2. UNCHANGED <<managed, mon, efd, left, used, app, spcRuns>>
    BY <1>1
  <2> QED BY <1>3, <1>5, <1>6, <1>8, <1>9, <2>1, <2>2 DEF ResourcesTypeOK
<1>11. ASSUME NEW m \in Monitor
       PROVE  Follows(m)'
  <2>1. m[1] \in Actor /\ m \in Of(m[1])
    BY MonitorIs
  <2>2. CASE m[1] = a
    BY <1>1, <1>4, <1>7, <2>1, <2>2 DEF Follows
  <2>3. CASE m[1] # a
    <3>1. Follows(m)
      BY <1>1, <2>3 DEF FollowInv, Stops
    <3> QED BY <1>1, <1>6, <1>7, <2>1, <2>3, <3>1 DEF Follows
  <2> QED BY <2>2, <2>3
<1>12. SpaceFollows'
  <2>1. ASSUME NEW b \in Uses("spc")
        PROVE  listed'[b] = left'[b] + IF b \in InUse' THEN 1 ELSE 0
    <3>1. b \in Actor /\ left[b] \in Nat /\ left'[b] = left[b]
      BY <1>1, <1>3 DEF Uses, ResourcesTypeOK
    <3>2. listed[b] = left[b] + IF b \in InUse THEN 1 ELSE 0
      BY DEF FollowInv, SpaceFollows
    <3>3. CASE b = a
      <4>1. listed[b] = left[b] + 1 /\ listed'[b] = listed[b] - 1 /\ b \notin InUse'
        BY <1>4, <1>7, <1>8, <3>1, <3>2, <3>3
      <4> QED BY <3>1, <4>1
    <3>4. CASE b # a
      BY <1>7, <1>8, <3>1, <3>2, <3>4
    <3> QED BY <3>3, <3>4
  <2> QED BY <2>1 DEF SpaceFollows, Uses
<1>13. depm'.st = "restart" => depm'.who \in managed' /\ proc'[depm'.who] = "none"
  <2>1. a \in managed' /\ proc'[a] = "none"
    BY <1>1, <1>3, <1>4 DEF ResourcesTypeOK
  <2> QED BY <1>5, <2>1
<1>14. \A m \in Monitor : EventsAgree(mon'[m])
  BY <1>1 DEF FollowInv
<1>15. StopGoesOn' /\ CleanGoesOn'
  BY <1>1, <1>5 DEF FollowInv, StopGoesOn, CleanGoesOn
<1> QED BY <1>4, <1>5, <1>10, <1>11, <1>12, <1>13, <1>14, <1>15 DEF FollowInv, InLaunchMap

\* Who is not known is dropped: none of the monitors is his.
LEMMA UnknownKeeps ==
  ASSUME FollowInv, NEW a \in Actor, StopUnknown(a)
  PROVE  FollowInv'
<1>1. /\ depm.st = "idle" /\ a \notin managed
      /\ proc' = [proc EXCEPT ![a] = "none"]
      /\ depm' = ManagerIdle \/ depm' = [ManagerIdle EXCEPT !.st = "failed"]
      /\ UNCHANGED <<managed, mon, efd, listed, left, reached, used, app, spcRuns>>
  BY DEF StopUnknown, ManagerFree, DepmRest
<1>2. ResourcesTypeOK
  BY DEF FollowInv
<1>3. depm' \in DepmState /\ depm'.st \in {"idle", "failed"}
  <2>1. CASE depm' = ManagerIdle
    BY <2>1 DEF DepmState, ManagerIdle
  <2>2. CASE depm' = [ManagerIdle EXCEPT !.st = "failed"]
    BY <2>2 DEF DepmState, ManagerIdle
  <2> QED BY <1>1, <2>1, <2>2
<1>4. /\ proc' \in [Actor -> {"none", "up", "registered", "dead"}]
      /\ \A b \in Actor \ {a} : proc'[b] = proc[b]
  BY <1>1, <1>2 DEF ResourcesTypeOK
<1>5. InUse' = InUse
  BY <1>1, <1>2, <1>4 DEF InUse, InLaunchMap, ResourcesTypeOK
<1>6. ResourcesTypeOK'
  BY <1>1, <1>2, <1>3, <1>4 DEF ResourcesTypeOK
<1>7. ASSUME NEW m \in Monitor
      PROVE  Follows(m)'
  <2>1. Follows(m) /\ m[1] \in Actor
    BY <1>1, MonitorIs DEF FollowInv, Stops
  <2>2. m[1] \in InUse => m[1] # a
    BY <1>1, InUseIs
  <2> QED BY <1>1, <1>4, <1>5, <2>1, <2>2 DEF Follows
<1>8. SpaceFollows'
  BY <1>1, <1>5 DEF FollowInv, SpaceFollows, Uses
<1> QED BY <1>1, <1>3, <1>6, <1>7, <1>8 DEF FollowInv, StopGoesOn, CleanGoesOn


\* cleanupApp() begins, whoever is launched, ...
LEMMA CleanupKeeps ==
  ASSUME FollowInv, cleanupApp
  PROVE  FollowInv'
<1>1. /\ depm.st = "idle"
      /\ used.cleanup < MaxCleanup /\ used' = [used EXCEPT !.cleanup = @ + 1]
      /\ depm' = [ManagerIdle EXCEPT !.st = "clean", !.todo = is_running]
      /\ UNCHANGED <<proc, managed, mon, efd, listed, left, reached, app, spcRuns>>
  BY DEF cleanupApp, ManagerFree, DepmRest
<1>2. ResourcesTypeOK
  BY DEF FollowInv
<1>3. /\ depm' \in DepmState /\ depm'.st = "clean" /\ depm'.todo = is_running
  BY <1>1 DEF DepmState, ManagerIdle, is_running
<1>4. used' \in [start : 0 .. MaxStart, cleanup : 0 .. MaxCleanup]
  <2>1. used.cleanup \in 0 .. MaxCleanup /\ used \in [start : 0 .. MaxStart, cleanup : 0 .. MaxCleanup]
    BY <1>2 DEF ResourcesTypeOK
  <2>2. used.cleanup + 1 \in 0 .. MaxCleanup
    BY <1>1, <2>1, ResourceAssumption
  <2> QED BY <1>1, <2>1, <2>2
<1>5. ResourcesTypeOK'
  BY <1>1, <1>2, <1>3, <1>4 DEF ResourcesTypeOK
<1>6. CleanGoesOn' /\ SpaceFollows'
  BY <1>1, <1>3, InUseFrame DEF CleanGoesOn, FollowInv, is_running
<1> QED BY <1>1, <1>3, <1>5, <1>6 DEF FollowInv, StopGoesOn

\* ... ends one thread that has come to life after the other, ...
LEMMA TerminateKeeps ==
  ASSUME FollowInv, NEW m \in Monitor, TerminateMonitor(m)
  PROVE  FollowInv'
<1>1. /\ depm.st = "clean" /\ m \in depm.todo
      /\ mon' = [mon EXCEPT ![m] = terminate(mon[m])]
      /\ efd' = [efd EXCEPT ![m] = m[2] = "mem"]
      /\ depm' = [depm EXCEPT !.st = "joining", !.todo = depm.todo \ {m},
                              !.who = m[1], !.why = m[2]]
      /\ UNCHANGED <<proc, managed, listed, left, reached, used, app, spcRuns>>
  BY DEF TerminateMonitor, Raised, DepmRest
<1>2. ResourcesTypeOK /\ depm \in DepmState /\ mon \in [Monitor -> MonitorState]
  BY DEF FollowInv, ResourcesTypeOK
<1>3. /\ terminate(mon[m]) \in MonitorState /\ EventsAgree(terminate(mon[m]))
      /\ terminate(mon[m]).alive = mon[m].alive
  BY <1>2, TerminateDoes DEF FollowInv
<1>4. /\ mon' \in [Monitor -> MonitorState] /\ mon'[m] = terminate(mon[m])
      /\ \A n \in Monitor \ {m} : mon'[n] = mon[n]
  BY <1>1, <1>2, <1>3
<1>5. m[1] \in Actor /\ m[2] \in Thread /\ m = <<m[1], m[2]>>
  BY MonitorIs
<1>6. /\ depm' \in DepmState /\ depm'.st = "joining" /\ depm'.todo = depm.todo \ {m}
      /\ depm'.who = m[1] /\ depm'.why = m[2]
  BY <1>1, <1>2, <1>5 DEF DepmState
<1>7. depm.todo \subseteq Monitor /\ \A n \in depm.todo : mon'[n].alive
  BY <1>1, <1>2, <1>3, <1>4 DEF FollowInv, CleanGoesOn, DepmState
<1>8. ResourcesTypeOK'
  <2>1. efd' \in [Monitor -> BOOLEAN]
    BY <1>1, <1>2 DEF ResourcesTypeOK
  <2>2. m \in Monitor \ depm'.todo /\ m = <<depm'.who, depm'.why>> /\ mon'[m].alive
    BY <1>1, <1>5, <1>6, <1>7
  <2> QED BY <1>1, <1>2, <1>4, <1>6, <2>1, <2>2 DEF ResourcesTypeOK
<1>9. \A n \in Monitor : EventsAgree(mon'[n])
  BY <1>3, <1>4 DEF FollowInv
<1>10. CleanGoesOn' /\ SpaceFollows'
  BY <1>1, <1>6, <1>7, InUseFrame DEF CleanGoesOn, FollowInv
<1> QED BY <1>6, <1>8, <1>9, <1>10 DEF FollowInv, StopGoesOn

\* ... and joins it.
LEMMA JoinedKeeps ==
  ASSUME FollowInv, MonitorJoined
  PROVE  FollowInv'
<1>1. /\ depm.st = "joining" /\ depm' = [ManagerIdle EXCEPT !.st = "clean", !.todo = depm.todo]
      /\ UNCHANGED <<proc, managed, mon, efd, listed, left, reached, used, app, spcRuns>>
  BY DEF MonitorJoined, DepmRest
<1>2. ResourcesTypeOK /\ depm \in DepmState
  BY DEF FollowInv, ResourcesTypeOK
<1>3. depm' \in DepmState /\ depm'.st = "clean" /\ depm'.todo = depm.todo
  BY <1>1, <1>2 DEF DepmState, ManagerIdle
<1>4. ResourcesTypeOK'
  BY <1>1, <1>2, <1>3 DEF ResourcesTypeOK
<1>5. CleanGoesOn' /\ SpaceFollows'
  BY <1>1, <1>3, InUseFrame DEF CleanGoesOn, FollowInv
<1> QED BY <1>1, <1>3, <1>4, <1>5 DEF FollowInv, StopGoesOn

\* The application is gone, and set up again, with new threads.
LEMMA AppKeeps ==
  ASSUME FollowInv, CleanedUp \/ setupApp
  PROVE  FollowInv'
<1>1. ResourcesTypeOK
  BY DEF FollowInv
<1>2. CASE CleanedUp
  <2>1. /\ depm' = ManagerIdle /\ app' = FALSE /\ managed' = {}
        /\ mon' = [m \in Monitor |-> New] /\ efd' = [m \in Monitor |-> FALSE]
        /\ left' = [a \in Actor |-> IF a \in InUse \cap Uses("spc") THEN left[a] + 1 ELSE left[a]]
        /\ UNCHANGED <<proc, listed, reached, spcRuns, used>>
    BY <1>2 DEF CleanedUp
  <2>2. depm' \in DepmState /\ depm'.st = "idle" /\ New \in MonitorState
    BY <2>1 DEF ManagerIdle, DepmState, New, MonitorState
  <2>3. left' \in [Actor -> Nat]
    BY <1>1, <2>1 DEF ResourcesTypeOK
  <2>4. ResourcesTypeOK'
    BY <1>1, <2>1, <2>2, <2>3 DEF ResourcesTypeOK
  <2>5. InUse' = {}
    BY <2>1 DEF InUse
  <2>6. \A m \in Monitor : mon'[m].pc = "new" /\ EventsAgree(mon'[m]) /\ ~mon'[m].terminated
    BY <2>1 DEF New, EventsAgree
  <2>7. \A m \in Monitor : Follows(m)'
    BY <2>5, <2>6 DEF Follows
  <2>8. SpaceFollows'
    <3>1. \A a \in Uses("spc") : a \in Actor /\ left[a] \in Nat
      BY <1>1 DEF Uses, ResourcesTypeOK
    <3> QED BY <2>1, <2>5, <3>1 DEF FollowInv, SpaceFollows, Uses
  <2> QED BY <2>2, <2>4, <2>6, <2>7, <2>8 DEF FollowInv, StopGoesOn, CleanGoesOn
<1>3. CASE setupApp
  <2>1. /\ depm.st = "idle" /\ app' = TRUE
        /\ UNCHANGED <<proc, depm, managed, mon, efd, listed, left, reached, spcRuns, used>>
    BY <1>3 DEF setupApp, ManagerFree
  <2>2. ResourcesTypeOK'
    BY <1>1, <2>1 DEF ResourcesTypeOK
  <2> QED BY <2>1, <2>2, QuietKeeps
<1> QED BY <1>2, <1>3

LEMMA NextFollow == FollowInv /\ [ResourcesNext]_resourcesVars => FollowInv'
<1> SUFFICES ASSUME FollowInv, [ResourcesNext]_resourcesVars PROVE FollowInv'
  OBVIOUS
<1>1. CASE UNCHANGED resourcesVars
  BY <1>1, InUseFrame DEF resourcesVars, FollowInv, ResourcesTypeOK, InLaunchMap, Stops,
                          StopGoesOn, CleanGoesOn
<1>2. CASE ManagerStep
  BY <1>2, StartKeeps, RegisterKeeps, StopKeeps, UnknownKeeps DEF ManagerStep
<1>3. CASE Proceed
  BY <1>3, StartKeeps, StopMonitorKeeps, StoppedKeeps, TerminateKeeps, RegisterKeeps,
     ReleasedKeeps, JoinedKeeps, AppKeeps DEF Proceed
<1>4. CASE cleanupApp \/ setupApp
  BY <1>4, CleanupKeeps, AppKeeps
<1>5. CASE QuotaExceeded \/ \E a \in Actor : Die(a)
  BY <1>5, OutsideKeeps
<1>6. CASE \E m \in Monitor : MonitorStep(m)
  BY <1>6, MonitorKeeps
<1> QED BY <1>1, <1>2, <1>3, <1>4, <1>5, <1>6 DEF ResourcesNext

--------------------------------------------------------------------------------
(* Results *)

\* What the manager waits for is there: it stops a monitor of the actor at hand, and
\* only joins a thread that was started (stopActor(), cleanupApp() of resm.py).
THEOREM ManagerWaitsRight == ResourcesSpec => []ResourcesTypeOK
<1>1. FollowInv => ResourcesTypeOK
  BY DEF FollowInv
<1> QED BY <1>1, InitFollow, NextFollow, PTL DEF ResourcesSpec

\* When the manager is done, every monitor follows its actor: that of a process which is
\* launched and managed goes on, or has ended with the process, all others rest, and the
\* space monitor has the names of those actors and of the ones that a cleanup left to it,
\* after any number of stops, deaths and restarts, and of cleanups beneath launched actors
\* (startActor(), stopActor(), cleanupApp() of resm.py, restart(), stop(), terminate() of
\* cpumon.py and memmon.py).
THEOREM MonitorsObey == ResourcesSpec => []MonitorsFollow
<1>1. FollowInv => MonitorsFollow
  BY DEF FollowInv, MonitorsFollow, ManagerFree, Stops
<1> QED BY <1>1, InitFollow, NextFollow, PTL DEF ResourcesSpec

================================================================================
