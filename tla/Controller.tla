------------------------------ MODULE Controller ------------------------------
(***************************************************************************)
(* The controller (ctrl/ctrl.py, ctrlsrv.py, ctrlcli.py) and the side of   *)
(* the deployment services that it talks to (deplo/deplo.py): nodes log    *)
(* in, are asked what they run, are lost and come back, while the user     *)
(* compiles, installs, launches, halts and removes applications.           *)
(*                                                                         *)
(* The user's commands run in one thread, with a pool of threads for the   *)
(* calls to the nodes; each connection has a thread of its own; a new      *)
(* client is added and asked by yet another one.  ctrlLock protects the    *)
(* map of clients, and is held while a client is asked and while packages  *)
(* are sent and removed; launching and halting do without it.  No call to  *)
(* a node has a time limit: a node that vanishes without ending its        *)
(* connection leaves the caller waiting, be it with ctrlLock.  An          *)
(* application has one actor, and is deployed on every node.               *)
(***************************************************************************)
EXTENDS Integers, FiniteSets

CONSTANTS
  Host,        \* the nodes
  App,         \* the applications
  MaxClient,   \* logins
  MaxCommand   \* commands of the user, without those that compile

ASSUME ControlAssumption == {MaxClient, MaxCommand} \subseteq Nat

None == 0
Client == 1 .. MaxClient
Entry == Client \X App

VARIABLES
  node,        \* of a node: its connection, what it has installed and what it runs
  client,      \* the ServiceClient objects, one for each login
  replacing,   \* clients whose login found another one of the same name
  clientMap,   \* the clients the controller knows
  adding,      \* clients that a thread is about to add (addClient)
  leaving,     \* clients that a thread is about to delete (delClient)
  asked,       \* the client that is asked what it runs; its thread has ctrlLock
  appInfo,     \* what the controller knows of an application
  launchList,  \* what the controller has launched
  user,        \* the command of the user
  overlap,     \* not in the code: whether clients came or went in a command: see Overlaps
  displaced,   \* not in the code: clients in whose place another was put without deleting them
  spent        \* commands given, without those that compile

clientVars == <<client, replacing, clientMap, adding, leaving, asked>>
vars == <<node, clientVars, appInfo, launchList,
                 user, overlap, displaced, spent>>

AppStatus == {"absent", "NotLoaded", "Loaded", "Recovered"}
Absent == [status |-> "absent", model |-> FALSE, depl |-> FALSE, clients |-> {}]
Idle == [cmd |-> "none", app |-> None, todo |-> {}, calls |-> {}, rest |-> {}, found |-> FALSE,
         locked |-> FALSE]
Nobody == [who |-> None, answered |-> FALSE, apps |-> {}]

Free == asked = Nobody /\ ~user.locked
Known == {clientMap[h] : h \in Host} \ {None}
\* A call of the client reaches its node: a client that was closed has no callback.
Alive(c) == client[c].conn = "up" /\ ~client[c].stale
\* The node is gone, but its connection has not ended: a call waits.
Silent(c) == client[c].conn = "silent" /\ ~client[c].stale
IsFresh(c) == client[c].conn = "none" /\ \A b \in 1 .. c - 1 : client[b].conn # "none"
HostOf(c) == client[c].host
Entries(c) == {e \in launchList : e[1] = c}

\* The controller starts; the nodes may run applications already.
Init ==
  /\ \E old \in [Host -> SUBSET App] :
       node = [h \in Host |-> [conn |-> None, installed |-> old[h], running |-> old[h]]]
  /\ client = [c \in Client |-> [host |-> None, stale |-> FALSE, conn |-> "none"]]
  /\ clientMap = [h \in Host |-> None]
  /\ replacing = {} /\ adding = {} /\ leaving = {}
  /\ asked = Nobody
  /\ appInfo = [a \in App |-> Absent]
  /\ launchList = {}
  /\ user = Idle
  /\ overlap = FALSE /\ displaced = {}
  /\ spent = 0

\* Clients come and go while a command looks at its own copy of who is there.
Copying == {"launch", "halt", "remove"}
Overlaps == overlap' = (overlap \/ user.cmd \in Copying)

--------------------------------------------------------------------------------
(* Clients *)

\* delClient(): the application loses the client, and is not loaded any more when
\* it was the last.
Without(i, c) ==
  IF c \notin i.clients THEN i
  ELSE [i EXCEPT !.clients = @ \ {c}, !.status = IF i.clients = {c} THEN "NotLoaded" ELSE @]

\* Mutant: the launch list keeps the client.
delClientKept(h) ==
  /\ clientMap' = [clientMap EXCEPT ![h] = None]
  /\ appInfo' = [a \in App |-> Without(appInfo[a], clientMap[h])]
  /\ launchList' = launchList

delClient(h) ==
  /\ clientMap' = [clientMap EXCEPT ![h] = None]
  /\ appInfo' = [a \in App |-> Without(appInfo[a], clientMap[h])]
  /\ launchList' = launchList \ Entries(clientMap[h])

\* login() of the node, exposed_login() here: the name is looked up...
login(h) ==
  /\ node[h].conn = None
  /\ Free
  /\ \E c \in Client :
       /\ IsFresh(c)
       /\ client' = [client EXCEPT ![c] = [host |-> h, stale |-> FALSE, conn |-> "up"]]
       /\ node' = [node EXCEPT ![h].conn = c]
       /\ IF clientMap[h] = None
            THEN adding' = adding \cup {c} /\ replacing' = replacing
            ELSE replacing' = replacing \cup {c} /\ adding' = adding
  /\ UNCHANGED <<clientMap, leaving, asked, appInfo, launchList,
                 user, overlap, displaced, spent>>

\* ... and a client that has it is closed and deleted, before a thread is started
\* that will add the new one.  When the old one went meanwhile the login fails, and
\* the node takes no notice.
exposed_login(c) ==
  LET old == clientMap[HostOf(c)] IN
  /\ c \in replacing /\ Free
  /\ replacing' = replacing \ {c}
  /\ IF old = None
       THEN UNCHANGED <<client, clientMap, adding, appInfo, launchList, overlap>>
       ELSE /\ client' = [client EXCEPT ![old].stale = TRUE]
            /\ adding' = adding \cup {c}
            /\ delClient(HostOf(c))
            /\ Overlaps
  /\ UNCHANGED <<node, leaving, asked, user, displaced, spent>>

\* addClient(), and queryClient() with the lock kept.  Two logins of a node that were
\* both too early to find the other add their clients in any order.
addClient(c) ==
  /\ c \in adding /\ Free
  /\ adding' = adding \ {c}
  /\ clientMap' = [clientMap EXCEPT ![HostOf(c)] = c]
  /\ asked' = [Nobody EXCEPT !.who = c]
  /\ displaced' = displaced \cup ({clientMap[HostOf(c)]} \ {None})
  /\ Overlaps
  /\ UNCHANGED <<node, client, replacing, leaving, appInfo, launchList, user, spent>>

\* The node answers: queryApps().
queryApps(c) ==
  /\ asked.who = c /\ ~asked.answered /\ Alive(c)
  /\ asked' = [asked EXCEPT !.answered = TRUE, !.apps = node[HostOf(c)].running]
  /\ UNCHANGED <<node, client, clientMap, replacing, adding, leaving, appInfo, launchList,
                 user, overlap, displaced, spent>>

\* addRecoveredAppInfo(): what is not known is recovered, what is not loaded is.
Recovered(i, c) ==
  [i EXCEPT !.clients = @ \cup {c},
            !.status = CASE i.status = "absent" -> "Recovered"
                         [] i.status = "NotLoaded" -> "Loaded"
                         [] OTHER -> @]

update_node_apps(c) == launchList \cup {<<c, a>> : a \in asked.apps}

queryClient(c) ==
  /\ asked.who = c /\ asked.answered
  /\ asked' = Nobody
  /\ appInfo' = [a \in App |-> IF a \in asked.apps THEN Recovered(appInfo[a], c) ELSE appInfo[a]]
  /\ launchList' = update_node_apps(c)
  /\ Overlaps
  /\ UNCHANGED <<node, client, clientMap, replacing, adding, leaving, user, displaced, spent>>

\* The connection has ended, or the client was closed: dropClient().  There is no time
\* limit: as long as the connection does not end, the wait does not, nor does the lock.
queryFails(c) ==
  /\ asked.who = c /\ ~asked.answered /\ ~Alive(c) /\ ~Silent(c)
  /\ asked' = Nobody
  /\ client' = [client EXCEPT ![c].stale = TRUE]
  /\ delClient(HostOf(c))
  /\ Overlaps
  /\ UNCHANGED <<node, replacing, adding, leaving, user, displaced, spent>>

\* A connection ends, or only goes silent.  The node finds out (heartbeat() and
\* handleBgServingThreadException() in deplo.py) and will log in again, which may take
\* it any time.
connectionLost(c) ==
  /\ client[c].conn = "up"
  /\ \E how \in {"broken", "silent"} : client' = [client EXCEPT ![c].conn = how]
  /\ node' = [node EXCEPT ![HostOf(c)].conn = None]
  /\ UNCHANGED <<clientMap, replacing, adding, leaving, asked, appInfo, launchList,
                 user, overlap, displaced, spent>>

\* The end of a silent connection may be noticed, and nothing says when.
connectionEnds(c) ==
  /\ client[c].conn = "silent"
  /\ client' = [client EXCEPT ![c].conn = "broken"]
  /\ UNCHANGED <<node, clientMap, replacing, adding, leaving, asked, appInfo, launchList,
                 user, overlap, displaced, spent>>

\* on_disconnect(), exposed_logout(): the client is closed...
\* Mutant: it is closed, and nobody deletes it.
closeOnly(c) ==
  /\ client[c].conn = "broken"
  /\ client' = [client EXCEPT ![c].conn = "closed", ![c].stale = TRUE]
  /\ UNCHANGED <<node, clientMap, replacing, adding, leaving, asked, appInfo, launchList,
                 user, overlap, displaced, spent>>

on_disconnect(c) ==
  /\ client[c].conn = "broken"
  /\ client' = [client EXCEPT ![c].conn = "closed", ![c].stale = TRUE]
  /\ leaving' = leaving \cup {c}
  /\ UNCHANGED <<node, clientMap, replacing, adding, asked, appInfo, launchList,
                 user, overlap, displaced, spent>>

\* ... or it does not answer a ping: dropClient().
pingClients(c) ==
  /\ c \in Known /\ Free
  /\ client[c].conn # "up" /\ ~client[c].stale
  /\ client' = [client EXCEPT ![c].stale = TRUE]
  /\ leaving' = leaving \cup {c}
  /\ UNCHANGED <<node, clientMap, replacing, adding, asked, appInfo, launchList,
                 user, overlap, displaced, spent>>

\* ... and whoever has its name then is deleted.
logout(c) ==
  /\ c \in leaving /\ Free
  /\ leaving' = leaving \ {c}
  /\ delClient(HostOf(c))
  /\ Overlaps
  /\ UNCHANGED <<node, client, replacing, adding, asked, user, displaced, spent>>

--------------------------------------------------------------------------------
(* Commands of the user *)

Command == user = Idle /\ spent < MaxCommand /\ spent' = spent + 1
Begin(cmd, a, todo) == user' = [Idle EXCEPT !.cmd = cmd, !.app = a, !.todo = todo]
Quiet == UNCHANGED <<node, clientVars, overlap, displaced>>

compileApplication(a) ==
  /\ user = Idle
  /\ appInfo[a].status \in {"absent", "NotLoaded"}
  /\ appInfo' = [appInfo EXCEPT ![a].status = "NotLoaded", ![a].model = TRUE]
  /\ Quiet /\ UNCHANGED <<launchList, user, spent>>

compileDeployment(a) ==
  /\ user = Idle
  /\ appInfo[a].status # "absent"
  /\ appInfo' = [appInfo EXCEPT ![a].depl = TRUE]
  /\ Quiet /\ UNCHANGED <<launchList, user, spent>>

\* buildDownload(): nothing without a model and a deployment.
Targets(a) == IF appInfo[a].model /\ appInfo[a].depl THEN Known ELSE {}

loadByName(a) ==
  /\ Command
  /\ appInfo[a].status = "NotLoaded" /\ Targets(a) # {}
  /\ Begin("load", a, Targets(a))
  /\ Quiet /\ UNCHANGED <<appInfo, launchList>>

\* downloadApp() and removeApp() take the lock, and keep it until the calls to all of these
\* are done.
Called == IF user.cmd = "forget" THEN appInfo[user.app].clients ELSE user.todo

WithLock ==
  /\ user.cmd \in {"load", "clean", "forget"} /\ Free
  /\ user' = [user EXCEPT !.locked = TRUE]
  /\ UNCHANGED <<node, clientVars, appInfo, launchList, overlap, displaced, spent>>

\* downloadApp() sends the package to clients that are not stale, and has them install it.
downloadApp ==
  LET a == user.app
      to == {c \in user.todo : ~client[c].stale}
      ok == \A c \in to : Alive(c)
  IN /\ user.cmd = "load" /\ user.locked
     /\ node' = [h \in Host |->
          IF \E c \in to : Alive(c) /\ HostOf(c) = h
            THEN [node[h] EXCEPT !.installed = @ \cup {a}] ELSE node[h]]
     /\ appInfo' = IF ok THEN [appInfo EXCEPT ![a].status = "Loaded"] ELSE appInfo
     /\ user' = Idle
     /\ UNCHANGED <<clientVars, launchList, overlap, displaced, spent>>

\* launchByName(), launchApp().  An application without a deployment cannot be
\* launched: the command ends in an exception.
launchByName(a) ==
  /\ Command
  /\ appInfo[a].status = "Loaded" /\ appInfo[a].depl
  /\ Free /\ Known # {}
  /\ Begin("launch", a, Known)
  /\ Quiet /\ UNCHANGED <<appInfo, launchList>>

\* launchAppClient(): the node is called.  callClient() waits for the answer and does
\* not look at it, so an actor that could not be started counts as launched; only a
\* connection that has ended leaves the node out.
launchAppClient(c) ==
  /\ user.cmd = "launch" /\ c \in user.todo \ user.calls /\ ~client[c].stale
  /\ node' = IF client[c].conn = "up"
                THEN [node EXCEPT ![HostOf(c)].running = @ \cup
                        ({user.app} \cap node[HostOf(c)].installed)]
                ELSE node
  /\ user' = IF client[c].conn \in {"up", "silent"} THEN [user EXCEPT !.calls = @ \cup {c}]
             ELSE [user EXCEPT !.todo = @ \ {c}]
  /\ UNCHANGED <<clientVars, appInfo, launchList, overlap, displaced, spent>>

\* Mutant: a call whose answer came is still waited for.
NotReturned(c) == [user EXCEPT !.todo = @ \ {c}]
Returned(c) == [user EXCEPT !.todo = @ \ {c}, !.calls = @ \ {c}]

\* It answers, or the call to a client that was closed returns at once: the launch
\* is recorded.
Launched(c) ==
  /\ user.cmd = "launch" /\ c \in user.todo
  /\ IF c \in user.calls THEN client[c].conn = "up" ELSE client[c].stale
  /\ launchList' = launchList \cup {<<c, user.app>>}
  /\ appInfo' = [appInfo EXCEPT ![user.app].clients = @ \cup {c}]
  /\ user' = Returned(c)
  /\ UNCHANGED <<node, clientVars, overlap, displaced, spent>>

NotLaunched(c) ==
  /\ user.cmd = "launch" /\ c \in user.calls /\ client[c].conn \notin {"up", "silent"}
  /\ user' = Returned(c)
  /\ UNCHANGED <<node, clientVars, appInfo, launchList, overlap, displaced, spent>>

launchApp ==
  /\ user.cmd = "launch" /\ user.todo = {}
  /\ user' = [user EXCEPT !.cmd = "none", !.app = None]
  /\ UNCHANGED <<node, clientVars, appInfo, launchList, overlap, displaced, spent>>

\* haltApp() makes its own copy of the launch list.
Copied(cmd, a) ==
  LET mine == {e \in launchList : e[2] = a} IN
  user' = [Idle EXCEPT !.cmd = cmd, !.app = a, !.todo = {e[1] : e \in mine},
                       !.rest = launchList \ mine, !.found = mine # {}]

haltByName(a) ==
  /\ Command
  /\ \E e \in launchList : e[2] = a
  /\ Copied("halt", a)
  /\ Quiet /\ UNCHANGED <<appInfo, launchList>>

removeAppByName(a) ==
  /\ Command
  /\ appInfo[a] # Absent
  /\ Copied("remove", a)
  /\ Quiet /\ UNCHANGED <<appInfo, launchList>>

haltAppClient(c) ==
  /\ user.cmd \in {"halt", "remove"} /\ c \in user.todo /\ ~Silent(c)
  /\ node' = IF Alive(c) THEN [node EXCEPT ![HostOf(c)].running = @ \ {user.app}] ELSE node
  /\ user' = Returned(c)
  /\ UNCHANGED <<clientVars, appInfo, launchList, overlap, displaced, spent>>

\* What the copy left over is the launch list now.  removeApp() goes on with the
\* clients of the deployment, or those that were recovered.
haltApp ==
  LET a == user.app IN
  /\ user.cmd \in {"halt", "remove"} /\ user.todo = {}
  /\ launchList' = IF user.found THEN user.rest ELSE launchList
  /\ IF user.cmd = "halt"
       THEN user' = Idle /\ appInfo' = appInfo
       ELSE IF appInfo[a].status = "NotLoaded"
       THEN user' = Idle /\ appInfo' = [appInfo EXCEPT ![a] = Absent]
       ELSE /\ IF appInfo[a].status = "Loaded" THEN Begin("clean", a, Targets(a))
                                              ELSE Begin("forget", a, {})
            /\ appInfo' = appInfo
  /\ UNCHANGED <<node, clientVars, overlap, displaced, spent>>

\* The files of the application on the node of each client are removed.
removeAppFromClient(C, a) ==
  node' = [h \in Host |-> IF h \in {HostOf(c) : c \in C}
                            THEN [node[h] EXCEPT !.installed = @ \ {a}] ELSE node[h]]

\* removeApp(), when the calls have returned.  The lines that report a stale client, or
\* one that could not be called, raise a TypeError: the application is not removed.
removeApp ==
  LET a == user.app IN
  /\ user.cmd \in {"clean", "forget"} /\ user.locked
  /\ \A c \in Called : ~Silent(c)
  /\ user' = Idle
  /\ IF \E c \in Called : ~Alive(c)
       THEN node' = node /\ appInfo' = appInfo
       ELSE appInfo' = [appInfo EXCEPT ![a] = Absent] /\ removeAppFromClient(Called, a)
  /\ UNCHANGED <<clientVars, launchList, overlap, displaced, spent>>

--------------------------------------------------------------------------------
(* Specification *)

NodeNext ==
  \/ \E h \in Host : login(h)
  \/ \E c \in Client : queryApps(c) \/ connectionLost(c) \/ connectionEnds(c)

ClientNext == \E c \in Client :
  \/ exposed_login(c) \/ addClient(c) \/ queryClient(c) \/ queryFails(c)
  \/ on_disconnect(c) \/ pingClients(c) \/ logout(c)

CommandNext == \E a \in App :
  \/ compileApplication(a) \/ compileDeployment(a) \/ loadByName(a)
  \/ launchByName(a) \/ haltByName(a) \/ removeAppByName(a)

CommandStep ==
  \/ WithLock \/ downloadApp \/ launchApp \/ haltApp \/ removeApp
  \/ \E c \in Client : launchAppClient(c) \/ Launched(c) \/ NotLaunched(c) \/ haltAppClient(c)

Next == NodeNext \/ ClientNext \/ CommandNext \/ CommandStep

Spec == Init /\ [][Next]_vars

\* The threads run, a node answers while its connection holds, the end of a connection is
\* noticed by its thread, and a silent one by the pings once they have the lock.  A call
\* to a silent node need not return, nor its connection end.
Fairness ==
  /\ WF_vars(CommandStep /\ ~(user.locked /\ \E c \in Called : Silent(c)))
  /\ \A c \in Client :
       /\ WF_vars(exposed_login(c)) /\ WF_vars(addClient(c)) /\ WF_vars(logout(c))
       /\ WF_vars(queryApps(c) \/ queryClient(c) \/ queryFails(c))
       /\ WF_vars(on_disconnect(c)) /\ WF_vars(pingClients(c))

FairSpec == Spec /\ Fairness

--------------------------------------------------------------------------------
(* Properties *)

UserState ==
  [cmd : {"none", "load", "clean", "forget"} \cup Copying, app : App \cup {None},
   todo : SUBSET Client, calls : SUBSET Client, rest : SUBSET Entry, found : BOOLEAN,
   locked : BOOLEAN]

\* Types; nothing is left over from a command, and ctrlLock is not held by a client
\* that is not in the map, nor by two threads.
TypeOK ==
  /\ node \in [Host -> [conn : Client \cup {None}, installed : SUBSET App, running : SUBSET App]]
  /\ client \in [Client -> [host : Host \cup {None}, stale : BOOLEAN,
                            conn : {"none", "up", "silent", "broken", "closed"}]]
  /\ clientMap \in [Host -> Client \cup {None}]
  /\ replacing \subseteq Client /\ adding \subseteq Client /\ leaving \subseteq Client
  /\ asked \in [who : Client \cup {None}, answered : BOOLEAN, apps : SUBSET App]
  /\ asked.who # None => clientMap[HostOf(asked.who)] = asked.who
  /\ appInfo \in [App -> [status : AppStatus, model : BOOLEAN, depl : BOOLEAN,
                        clients : SUBSET Client]]
  /\ launchList \subseteq Entry
  /\ user \in UserState
  /\ user.calls \subseteq user.todo /\ (user.cmd = "none" => user = Idle)
  /\ user.locked => user.cmd \in {"load", "clean", "forget"} /\ asked = Nobody
  /\ overlap \in BOOLEAN /\ displaced \subseteq Client /\ spent \in 0 .. MaxCommand

\* The controller can halt what runs: every application of a node that is connected
\* and known, and has been asked, is in the launch list, also one that was started
\* before the controller knew of the node.
Watched(h) ==
  LET c == node[h].conn IN
  c # None /\ clientMap[h] = c /\ client[c].conn = "up" /\ asked.who # c
RunningListed ==
  \A h \in Host :
    Watched(h) => \A a \in node[h].running : <<node[h].conn, a>> \in launchList

\* The launch list and the clients of the applications name clients that are known, or
\* that were displaced: addClient() deletes nothing of the client that it overwrites.
ListedKnown ==
  /\ \A e \in launchList : e[1] \in Known \cup displaced
  /\ \A a \in App : appInfo[a].clients \subseteq Known \cup displaced

\* When no command runs, the controller's books are right: what runs is listed, and a
\* client that was deleted has left no trace; only one that was displaced by a late
\* thread of addClient() may have.  Unless clients came or went while a launch, a halt
\* or a removal was under way: these work on copies.
LaunchListExact == user = Idle /\ ~overlap => RunningListed /\ ListedKnown

\* Why it holds.  A client is at one place of its life: it replaces another one, waits to
\* be added, or is known; the node that has its connection is its own, and one that
\* is known and connected was not closed.
ClientsApart ==
  /\ \A c \in Client : client[c].conn # "none" => HostOf(c) \in Host
  /\ \A c \in replacing \cup adding \cup leaving \cup Known : client[c].conn # "none"
  /\ replacing \cap adding = {} /\ (replacing \cup adding) \cap Known = {}
  /\ \A h \in Host : clientMap[h] # None => HostOf(clientMap[h]) = h
  /\ \A h \in Host : node[h].conn # None =>
       HostOf(node[h].conn) = h /\ client[node[h].conn].conn = "up"
  /\ \A c \in Client : client[c].conn = "up" =>
       /\ node[HostOf(c)].conn = c
       /\ client[c].stale => c \notin replacing \cup adding \cup Known

\* A command that launches has no leftovers of one that halts; who is asked is known.
CommandOK ==
  /\ user.cmd # "none" => user.app \in App
  /\ user.cmd = "launch" => user.rest = {} /\ ~user.found
  /\ IF asked.who = None THEN asked = Nobody ELSE asked.who \in Known

\* The books while a command runs: what a node has been told to launch is listed when
\* the call returns, what is halted runs at most where the node has still to be called,
\* and what a node has answered is still true.
InLaunch(h, a) == user.cmd = "launch" /\ a = user.app /\ node[h].conn \in user.calls
BooksGood ==
  /\ ListedKnown
  /\ \A h \in Host : Watched(h) =>
       \A a \in node[h].running : <<node[h].conn, a>> \in launchList \/ InLaunch(h, a)
  /\ user.cmd = "launch" => Free /\ user.todo \subseteq Known
  /\ user.cmd \in {"halt", "remove"} =>
       /\ user.rest \subseteq launchList
       /\ \A e \in launchList : e[2] # user.app => e \in user.rest
       /\ \A h \in Host : Watched(h) /\ user.app \in node[h].running => node[h].conn \in user.todo
  /\ asked.answered => node[HostOf(asked.who)].running \subseteq asked.apps

BooksInv == TypeOK /\ ClientsApart /\ CommandOK /\ (~overlap => BooksGood)

\* Somebody holds ctrlLock and waits for the answer of a silent node: the query of a new
\* client (queryClient()), or a command.
HeldUp ==
  \/ asked.who # None /\ ~asked.answered /\ Silent(asked.who)
  \/ user.locked /\ \E c \in Called : Silent(c)

\* A node whose connection was lost does not stay in the map, however the thread of
\* the connection, the pings, new logins and the query with the lock held interleave:
\* unless the lock is kept for good by a call to a node that went silent.  Then neither
\* pings nor deletions go on.
StaleDropped == []<>(\A c \in Known : client[c].conn = "up") \/ <>[]HeldUp

\* compileApplication(), launchByName(): an application that can be launched has the
\* model and the deployment that launching needs.
LoadedHasModel ==
  \A a \in App : appInfo[a].status = "Loaded" => appInfo[a].model /\ appInfo[a].depl

================================================================================
