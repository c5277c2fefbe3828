------------------------------- MODULE Discovery -------------------------------
(***************************************************************************)
(* The RIAPS discovery service on its distributed data base: the service   *)
(* riaps_disco of every node (src/src/riaps/discd/discs.py), its OpenDHT   *)
(* data base (dbase_dht.py) with the backup on disk and the republisher    *)
(* thread, and the actors, which register the ports they serve, look up    *)
(* those they need, and register again with a service that was restarted.  *)
(*                                                                         *)
(* Abstractions.                                                           *)
(*  - An actor serves a key (application, message type, kind, scope) at    *)
(*    one address, which is new in each run of the actor: the address is   *)
(*    the actor, and an actor that is started again is another one.        *)
(*  - The DHT (external) keeps the values of a key and their tombstones    *)
(*    ("-value"), and calls the listening nodes for each that is put or    *)
(*    expires.  What it keeps survives the crash of a node.                *)
(*  - A value lives for 600 s and is put again after 595 s, with a new id: *)
(*    the former instance still expires, and the value itself only if      *)
(*    nobody republishes it.  A tombstone is younger than what it hides.   *)
(*                                                                         *)
(* As in GroupThread, an operator just before another one with the same    *)
(* parameters is a mistake that could have been made there.                *)
(***************************************************************************)
EXTENDS Integers

CONSTANTS
  Node,      \* hosts
  Actor,     \* runs of actors
  Key,       \* keys of the data base
  None,
  Home,      \* Home[a]: the node of a
  Serves,    \* Serves[a]: keys of the pub, srv, rep and ans ports of a
  Needs,     \* Needs[a]: keys of its sub, clt, req and qry ports
  MaxCrash,  \* bound: crashes of a discovery service
  MaxStop    \* bound: actors that stop or die, and services they take back

ASSUME DiscoveryAssumption ==
  /\ None \notin Actor \cup (Key \X Actor)
  /\ Home \in [Actor -> Node]
  /\ Serves \in [Actor -> SUBSET Key] /\ Needs \in [Actor -> SUBSET Key]
  /\ {MaxCrash, MaxStop} \subseteq Nat

VARIABLES
  life,          \* of an actor: "off", "on", "blocked" (waits for a reply for ever),
                 \* "dead" (maybe still registered) or "gone"
  toServe,       \* keys it has still to register
  toLookup,      \* keys it has still to look up
  told,          \* told[a][k]: the providers its ports were connected to
  up,            \* of a service: "up", "hung" (its main thread is) or "down"
  joined,        \* the actors in self.clients of their services
  registrations, \* self.registrations
  enrollments,   \* self.enrollments
  clients,       \* clients[n][k]: self.clients of the data base
  listening,     \* self.listeners
  updates,       \* self.updates
  deleted,       \* self.deletedMap
  republish,     \* self.republishMap; an entry is in the scheduler or firing
  worker,        \* dhtRepublishWorker(): "waits", "runs" or "ends" a cycle
  firing,        \* the entry whose event the scheduler is executing, or None
  go,            \* self.republisherStart
  backup,        \* self.regDb, on disk
  value,         \* the DHT: values of a key,
  tomb,          \* their tombstones,
  former,        \* and the values that a former instance will expire of
  notes,         \* calls of dhtValueCallback() on their way to a node
  removed,       \* history: the values that got a tombstone and were not put again
  spent          \* use made of the bounds

actorVars == <<life, toServe, toLookup, told>>
serviceVars == <<up, joined, registrations, enrollments>>
listenVars == <<clients, listening, updates, deleted>>
workerVars == <<worker, firing>>
repVars == <<republish, go, backup>>
dhtVars == <<value, tomb, former, notes, removed>>
vars == <<actorVars, serviceVars, listenVars, workerVars, repVars, dhtVars, spent>>

Provider == Key \X Actor
Note == [of: Provider, what: {"put", "gone"}]
Bounded == {"crash", "stop"}
Spend(b) == spent' = [spent EXCEPT ![b] = @ + 1]

Local(n) == {a \in Actor : Home[a] = n}
Published == {p \in Provider : p[2] \in value[p[1]]}
Hidden == {p \in Provider : p[2] \in tomb[p[1]]}

Init ==
  /\ life = [a \in Actor |-> "off"]
  /\ toServe = [a \in Actor |-> {}]
  /\ toLookup = [a \in Actor |-> {}]
  /\ told = [a \in Actor |-> [k \in Key |-> {}]]
  /\ up = [n \in Node |-> "up"]
  /\ joined = {}
  /\ registrations = [a \in Actor |-> {}]
  /\ enrollments = [a \in Actor |-> {}]
  /\ clients = [n \in Node |-> [k \in Key |-> {}]]
  /\ listening = [n \in Node |-> {}]
  /\ updates = [n \in Node |-> {}]
  /\ deleted = [n \in Node |-> [k \in Key |-> None]]
  /\ republish = [n \in Node |-> {}]
  /\ worker = [n \in Node |-> "waits"]
  /\ firing = [n \in Node |-> None]
  /\ go = [n \in Node |-> FALSE]
  /\ backup = [n \in Node |-> {}]
  /\ value = [k \in Key |-> {}]
  /\ tomb = [k \in Key |-> {}]
  /\ former = {}
  /\ notes = [n \in Node |-> {}]
  /\ removed = {}
  /\ spent = [b \in Bounded |-> 0]

--------------------------------------------------------------------------------
(* The data base of a node *)

\* The DHT calls the nodes that listen to the keys of providers P.
CallUnkeyed(n, P, what) ==
  notes[n] \cup {[of |-> p[2], what |-> what] : p \in {x \in P : x[1] \in listening[n]}}
Call(n, P, what) ==
  notes[n] \cup {[of |-> p, what |-> what] : p \in {x \in P : x[1] \in listening[n]}}
Notify(P, what) == notes' = [n \in Node |-> Call(n, P, what)]

\* dhtRemove() of providers P: those the DHT has get a tombstone, and the last of
\* a key is the one that deletedMap remembers.
DhtRemove(n, P) ==
  LET found == P \cap Published IN
  /\ tomb' = [k \in Key |-> tomb[k] \cup {p[2] : p \in {x \in found : x[1] = k}}]
  /\ \E last \in [{p[1] : p \in found} -> Actor] :
       /\ \A k \in DOMAIN last : <<k, last[k]>> \in found
       /\ deleted' = [deleted EXCEPT ![n] =
                        [k \in Key |-> IF k \in DOMAIN last THEN last[k] ELSE @[k]]]
  /\ Notify(found, "gone")
  /\ removed' = removed \cup found
  /\ UNCHANGED <<value, former>>

\* delKeyValue() forgets all values of the key when one is removed: "values" is
\* set to what list.remove() returns, which is None.
Forget(n, P) == {p \in backup[n] : \A q \in P \cap backup[n] : p[1] # q[1]}

\* remove() of providers P, one after the other.
RemoveKept(n, P) ==
  /\ backup' = [backup EXCEPT ![n] = Forget(n, P)]
  /\ UNCHANGED <<republish, go>>
  /\ DhtRemove(n, P)
Remove(n, P) ==
  /\ republish' = [republish EXCEPT ![n] = @ \ P]
  /\ backup' = [backup EXCEPT ![n] = Forget(n, P)]
  /\ UNCHANGED go
  /\ DhtRemove(n, P)

\* delFromRepublish() of an entry whose event is firing: cancel() does not find it
\* and raises, which ends the main thread of the service, but not its process.
Clash(n, P) == firing[n] \in P \cap republish[n]

\* insert() of a provider, unless the DHT has the value, be it hidden.
Insert(n, p) ==
  IF p \in Published
    THEN UNCHANGED <<repVars, dhtVars>>
    ELSE /\ value' = [value EXCEPT ![p[1]] = @ \cup {p[2]}]
         /\ Notify({p}, "put")
         /\ backup' = [backup EXCEPT ![n] = @ \cup {p}]
         /\ republish' = [republish EXCEPT ![n] = @ \cup {p}]
         /\ go' = [go EXCEPT ![n] = TRUE]
         /\ removed' = removed \ {p}
         /\ UNCHANGED <<tomb, former>>

\* fetch(): the client is added, with a listener, which the DHT calls for all it
\* has when it is new.
AddClient(n, k, a) ==
  /\ clients' = [clients EXCEPT ![n][k] = @ \cup {a}]
  /\ listening' = [listening EXCEPT ![n] = @ \cup {k}]
  /\ notes' = IF k \in listening[n] THEN notes
              ELSE [notes EXCEPT ![n] = @
                \cup {[of |-> p, what |-> "put"] : p \in {x \in Published : x[1] = k}}
                \cup {[of |-> p, what |-> "gone"] : p \in {x \in Hidden : x[1] = k}}]
  /\ UNCHANGED <<updates, deleted>>

\* filterDelValues()
Found(k) == value[k] \ tomb[k]

\* dhtDelClient() of a from keys K: the listener is cancelled, for all clients.
DelClientKept(n, K, a) ==
  /\ listening' = [listening EXCEPT ![n] = @ \ K]
  /\ UNCHANGED clients
DelClient(n, K, a) ==
  /\ clients' = [clients EXCEPT ![n] = [k \in Key |-> IF k \in K THEN @[k] \ {a} ELSE @[k]]]
  /\ listening' = [listening EXCEPT ![n] = @ \ K]

\* handleUpdate() for the providers S: the local clients that are registered are
\* told over their channel, but the send to one that died blocks for good.
Addressed(n, S) ==
  {t \in Local(n) \X S : t[1] \in clients[n][t[2][1]] \cap joined}
Tell(T) ==
  told' = [a \in Actor |-> [k \in Key |->
             told[a][k] \cup {p[2] : p \in {x \in Provider : x[1] = k /\ <<a, x>> \in T}}]]
HandleUpdates(n, S) ==
  LET T == Addressed(n, S)
      heard == {t \in T : life[t[1]] = "on"} IN
  IF \A t \in T : life[t[1]] # "dead" THEN Tell(heard) /\ UNCHANGED up
  ELSE /\ \E U \in SUBSET heard : Tell(U)
       /\ up' = [up EXCEPT ![n] = "hung"]

--------------------------------------------------------------------------------
(* Requests of the actors, served by the main loop *)

Serving(a) == up[Home[a]] = "up"

\* setupClient()
SetupClient(a) ==
  /\ joined' = joined \cup {a}
  /\ registrations' = [registrations EXCEPT ![a] = {}]
  /\ enrollments' = [enrollments EXCEPT ![a] = {}]
  /\ UNCHANGED up

\* registerActor(), reconnect() of the client in the actor; what it serves it will
\* register, one port after the other.
registerActor(a) ==
  /\ Serving(a)
  /\ toServe' = [toServe EXCEPT ![a] = Serves[a]]

\* The actor starts and registers.
RegisterActor(a) ==
  /\ life[a] = "off" /\ registerActor(a)
  /\ life' = [life EXCEPT ![a] = "on"]
  /\ toLookup' = [toLookup EXCEPT ![a] = Needs[a]]
  /\ SetupClient(a)
  /\ UNCHANGED <<told, listenVars, workerVars, repVars, dhtVars, spent>>

\* handleReinstate(): an actor that is in its main loop, done with its setup,
\* registers itself and what it serves with a service that was started again; it
\* looks nothing up.
Reinstate(a) ==
  /\ life[a] = "on" /\ a \notin joined
  /\ toServe[a] \cup toLookup[a] = {}
  /\ registerActor(a)
  /\ SetupClient(a)
  /\ UNCHANGED <<life, toLookup, told, listenVars, workerVars, repVars, dhtVars, spent>>

\* The requests of the client, each of which waits for its reply: handleRegReq(), ...
handleRegReq(a, k) ==
  /\ life[a] = "on" /\ Serving(a)
  /\ k \in toServe[a]
  /\ toServe' = [toServe EXCEPT ![a] = @ \ {k}]

handleLookupReq(a, k) ==
  /\ life[a] = "on" /\ Serving(a)
  /\ k \in toLookup[a]
  /\ toLookup' = [toLookup EXCEPT ![a] = @ \ {k}]

\* ... and those for what a port in a group does no longer serve, or look up.
handleUnregReq(a, k) == life[a] = "on" /\ Serving(a) /\ k \in registrations[a]

handleUnlookupReq(a, k) == life[a] = "on" /\ Serving(a) /\ k \in enrollments[a]

\* handleServiceReg(): the local clients are told right after.  For an actor that
\* the service does not know a KeyError ends the main loop before the reply.
RegisterService(a, k) ==
  LET n == Home[a] p == <<k, a>> IN
  /\ handleRegReq(a, k)
  /\ Insert(n, p)
  /\ IF a \in joined
       THEN /\ registrations' = [registrations EXCEPT ![a] = @ \cup {k}]
            /\ HandleUpdates(n, {p} \ Published)
            /\ UNCHANGED life
       ELSE /\ up' = [up EXCEPT ![n] = "hung"]
            /\ life' = [life EXCEPT ![a] = "blocked"]
            /\ UNCHANGED <<registrations, told>>
  /\ UNCHANGED <<toLookup, joined, enrollments, listenVars, workerVars, spent>>

\* handleServiceLookup(): the actor gets the providers of now; again a KeyError if
\* the service does not know it.
Lookup(a, k) ==
  LET n == Home[a] IN
  /\ handleLookupReq(a, k)
  /\ AddClient(n, k, a)
  /\ IF a \in joined
       THEN /\ enrollments' = [enrollments EXCEPT ![a] = @ \cup {k}]
            /\ told' = [told EXCEPT ![a][k] = @ \cup Found(k)]
            /\ UNCHANGED <<life, up>>
       ELSE /\ up' = [up EXCEPT ![n] = "hung"]
            /\ life' = [life EXCEPT ![a] = "blocked"]
            /\ UNCHANGED <<enrollments, told>>
  /\ UNCHANGED <<toServe, joined, registrations, workerVars, repVars, value, tomb,
                 former, removed, spent>>

\* A port is set up: it is registered, or its providers are looked up.
registerEndpoint(a, k) == RegisterService(a, k) \/ Lookup(a, k)

\* The service goes down or hangs while it owes the actor a reply, which has no
\* time limit: rpcDisco() blocks for good.
RpcBlocks(a) ==
  /\ life[a] = "on" /\ ~Serving(a)
  /\ toServe[a] \cup toLookup[a] # {}
  /\ life' = [life EXCEPT ![a] = "blocked"]
  /\ UNCHANGED <<toServe, toLookup, told, serviceVars, listenVars, workerVars, repVars,
                 dhtVars, spent>>

\* handleServiceUnreg(), handleServiceUnlookup().
UnregisterService(a, k) ==
  LET n == Home[a] p == <<k, a>> IN
  /\ handleUnregReq(a, k) /\ a \in joined
  /\ spent["stop"] < MaxStop /\ Spend("stop")
  /\ IF Clash(n, {p})
       THEN /\ up' = [up EXCEPT ![n] = "hung"]
            /\ UNCHANGED <<registrations, deleted, repVars, dhtVars>>
       ELSE /\ Remove(n, {p})
            /\ registrations' = [registrations EXCEPT ![a] = @ \ {k}]
            /\ UNCHANGED up
  /\ UNCHANGED <<actorVars, joined, enrollments, clients, listening, updates, workerVars>>

Unlookup(a, k) ==
  /\ handleUnlookupReq(a, k) /\ a \in joined
  /\ spent["stop"] < MaxStop /\ Spend("stop")
  /\ DelClient(Home[a], {k}, a)
  /\ enrollments' = [enrollments EXCEPT ![a] = @ \ {k}]
  /\ UNCHANGED <<actorVars, up, joined, registrations, updates, deleted, workerVars,
                 repVars, dhtVars>>

\* A port leaves a group.
unregisterGroup(a, k) == UnregisterService(a, k) \/ Unlookup(a, k)

\* unsetupClient(): what the actor registered is removed and what it looked up is
\* detached, or the service hangs halfway.
UnsetupClient(a) ==
  LET n == Home[a] P == registrations[a] \X {a} IN
  /\ a \in joined
  /\ joined' = joined \ {a}
  /\ IF Clash(n, P)
       THEN /\ \E Q \in SUBSET (P \ {firing[n]}) : Remove(n, Q)
            /\ up' = [up EXCEPT ![n] = "hung"]
            /\ UNCHANGED <<registrations, enrollments, clients, listening>>
       ELSE /\ Remove(n, P)
            /\ DelClient(n, enrollments[a], a)
            /\ registrations' = [registrations EXCEPT ![a] = {}]
            /\ enrollments' = [enrollments EXCEPT ![a] = {}]
            /\ UNCHANGED up
  /\ UNCHANGED <<updates, workerVars>>

\* handleActorUnreg(): nothing to do for an actor the service does not know.
HandleActorUnreg(a) ==
  IF a \in joined THEN UnsetupClient(a)
  ELSE UNCHANGED <<serviceVars, listenVars, workerVars, repVars, dhtVars>>

\* The actor terminates: terminate() unregisters it.
Terminate(a) ==
  /\ life[a] = "on" /\ Serving(a)
  /\ spent["stop"] < MaxStop /\ Spend("stop")
  /\ life' = [life EXCEPT ![a] = "gone"]
  /\ HandleActorUnreg(a)
  /\ UNCHANGED <<toServe, toLookup, told>>

\* The process of the actor dies (environment), ...
Die(a) ==
  /\ life[a] \in {"on", "blocked"}
  /\ spent["stop"] < MaxStop /\ Spend("stop")
  /\ life' = [life EXCEPT ![a] = "dead"]
  /\ UNCHANGED <<toServe, toLookup, told, serviceVars, listenVars, workerVars, repVars,
                 dhtVars>>

\* ... and the deployment manager unregisters it.
Unregister(a) ==
  /\ life[a] = "dead" /\ Serving(a)
  /\ life' = [life EXCEPT ![a] = "gone"]
  /\ HandleActorUnreg(a)
  /\ UNCHANGED <<toServe, toLookup, told, spent>>

--------------------------------------------------------------------------------
(* What the data base tells the service *)

\* Is a value new to this node?  It is not if it republishes it itself, or if it is
\* the last of its key that was seen to go.
HeededDefault(n, p) == p \notin republish[n] /\ deleted[n][p[1]] \notin {None, p[2]}
Heeded(n, p) == p \notin republish[n] /\ deleted[n][p[1]] # p[2]

\* dhtValueCallback(): a value that is new becomes an update; what is gone takes
\* all updates of its key along.
DhtValueCallback(n, note) ==
  LET p == note.of IN
  /\ up[n] # "down"
  /\ note \in notes[n]
  /\ notes' = [notes EXCEPT ![n] = @ \ {note}]
  /\ \/ /\ note.what = "put"
        /\ updates' = [updates EXCEPT ![n] = IF Heeded(n, p) THEN @ \cup {p} ELSE @]
        /\ UNCHANGED deleted
     \/ /\ note.what = "gone"
        /\ deleted' = [deleted EXCEPT ![n][p[1]] = p[2]]
        /\ updates' = [updates EXCEPT ![n] = {q \in @ : q[1] # p[1] /\ q[2] # p[2]}]
  /\ UNCHANGED <<actorVars, serviceVars, clients, listening, workerVars, repVars, value,
                 tomb, former, removed, spent>>

\* The main loop has been idle for a second: fetchUpdates().
FetchUpdates(n) ==
  /\ up[n] = "up"
  /\ updates[n] # {}
  /\ HandleUpdates(n, updates[n])
  /\ updates' = [updates EXCEPT ![n] = {}]
  /\ UNCHANGED <<life, toServe, toLookup, joined, registrations, enrollments, clients,
                 listening, deleted, workerVars, repVars, dhtVars, spent>>

--------------------------------------------------------------------------------
(* dhtRepublishWorker(), a thread that survives the main thread *)

\* republisherStart.wait()
Wake(n) ==
  /\ up[n] # "down" /\ worker[n] = "waits" /\ go[n]
  /\ worker' = [worker EXCEPT ![n] = "runs"]
  /\ UNCHANGED <<actorVars, serviceVars, listenVars, firing, repVars, dhtVars, spent>>

\* The event of an entry is due, and taken from the queue of the scheduler.
Fire(n, p) ==
  /\ up[n] # "down" /\ worker[n] = "runs" /\ firing[n] = None
  /\ p \in republish[n] /\ p \notin former
  /\ firing' = [firing EXCEPT ![n] = p]
  /\ UNCHANGED <<actorVars, serviceVars, listenVars, worker, repVars, dhtVars, spent>>

\* dhtRepublish(): the value is put again, and the next event is entered.
DhtRepublish(n) ==
  LET p == firing[n] IN
  /\ up[n] # "down" /\ p # None
  /\ firing' = [firing EXCEPT ![n] = None]
  /\ IF p \in republish[n]
       THEN /\ former' = IF p \in Published THEN former \cup {p} ELSE former
            /\ value' = [value EXCEPT ![p[1]] = @ \cup {p[2]}]
            /\ Notify({p}, "put")
            /\ removed' = IF p \in Published THEN removed ELSE removed \ {p}
       ELSE UNCHANGED <<former, value, notes, removed>>
  /\ UNCHANGED <<actorVars, serviceVars, listenVars, worker, repVars, tomb, spent>>

\* The queue is empty, run() returns, ...
Drain(n) ==
  /\ up[n] # "down" /\ worker[n] = "runs" /\ firing[n] = None
  /\ republish[n] = {}
  /\ worker' = [worker EXCEPT ![n] = "ends"]
  /\ UNCHANGED <<actorVars, serviceVars, listenVars, firing, repVars, dhtVars, spent>>

\* ... and republisherStart.clear() forgets who has set it meanwhile.
Clear(n) ==
  /\ up[n] # "down" /\ worker[n] = "ends"
  /\ worker' = [worker EXCEPT ![n] = "waits"]
  /\ go' = [go EXCEPT ![n] = FALSE]
  /\ UNCHANGED <<actorVars, serviceVars, listenVars, firing, republish, backup, dhtVars,
                 spent>>

\* The worker waits for an entry that is queued already.
Stuck(n) == worker[n] = "waits" /\ ~go[n]

--------------------------------------------------------------------------------
(* Environment: time passes, services crash *)

Kept(p) ==
  LET n == Home[p[2]] IN p \in republish[n] /\ up[n] # "down" /\ ~Stuck(n)

\* A former instance of a value that was put again expires.
ExpireFormer(p) ==
  /\ p \in former
  /\ former' = former \ {p}
  /\ Notify({p}, "gone")
  /\ UNCHANGED <<actorVars, serviceVars, listenVars, workerVars, repVars, value, tomb,
                 removed, spent>>

\* A value that is not republished expires.
ExpireValue(p) ==
  /\ p \in Published \ former
  /\ ~Kept(p)
  /\ value' = [value EXCEPT ![p[1]] = @ \ {p[2]}]
  /\ Notify({p}, "gone")
  /\ UNCHANGED <<actorVars, serviceVars, listenVars, workerVars, repVars, tomb, former,
                 removed, spent>>

\* A tombstone expires, after the value unless that is still republished.
ExpireTomb(p) ==
  /\ p \in Hidden
  /\ p \in Published => Kept(p)
  /\ tomb' = [tomb EXCEPT ![p[1]] = @ \ {p[2]}]
  /\ Notify({p}, "gone")
  /\ UNCHANGED <<actorVars, serviceVars, listenVars, workerVars, repVars, value, former,
                 removed, spent>>

\* The process of a service dies; only the backup is left.
CrashService(n) ==
  /\ up[n] # "down"
  /\ spent["crash"] < MaxCrash /\ Spend("crash")
  /\ up' = [up EXCEPT ![n] = "down"]
  /\ joined' = joined \ Local(n)
  /\ registrations' = [a \in Actor |-> IF a \in Local(n) THEN {} ELSE registrations[a]]
  /\ enrollments' = [a \in Actor |-> IF a \in Local(n) THEN {} ELSE enrollments[a]]
  /\ clients' = [clients EXCEPT ![n] = [k \in Key |-> {}]]
  /\ listening' = [listening EXCEPT ![n] = {}]
  /\ updates' = [updates EXCEPT ![n] = {}]
  /\ deleted' = [deleted EXCEPT ![n] = [k \in Key |-> None]]
  /\ republish' = [republish EXCEPT ![n] = {}]
  /\ worker' = [worker EXCEPT ![n] = "waits"]
  /\ firing' = [firing EXCEPT ![n] = None]
  /\ go' = [go EXCEPT ![n] = FALSE]
  /\ notes' = [notes EXCEPT ![n] = {}]
  /\ UNCHANGED <<actorVars, backup, value, tomb, former, removed>>

\* It is started again: cleanupRegDb() removes what the backup holds, if the new
\* node of the DHT has found the others by then.  clearDbase() deletes at a cursor
\* that has no position yet: whether that empties the backup is left to the library.
RestartService(n) ==
  /\ up[n] = "down"
  /\ up' = [up EXCEPT ![n] = "up"]
  /\ backup' \in {backup, [backup EXCEPT ![n] = {}]}
  /\ \/ DhtRemove(n, backup[n])
     \/ UNCHANGED <<deleted, dhtVars>>
  /\ UNCHANGED <<actorVars, joined, registrations, enrollments, clients, listening,
                 updates, workerVars, republish, go, spent>>

Next ==
  \/ \E a \in Actor :
       \/ RegisterActor(a) \/ Reinstate(a) \/ RpcBlocks(a) \/ Terminate(a) \/ Die(a)
       \/ Unregister(a)
  \/ \E a \in Actor, k \in Key : registerEndpoint(a, k) \/ unregisterGroup(a, k)
  \/ \E n \in Node :
       \/ FetchUpdates(n) \/ Wake(n) \/ DhtRepublish(n) \/ Drain(n) \/ Clear(n)
       \/ CrashService(n) \/ RestartService(n)
       \/ \E note \in notes[n] : DhtValueCallback(n, note)
  \/ \E p \in Provider :
       Fire(Home[p[2]], p) \/ ExpireFormer(p) \/ ExpireValue(p) \/ ExpireTomb(p)

Spec == Init /\ [][Next]_vars

(***************************************************************************)
(* Fairness: actors go on with their setup, the main loop serves requests  *)
(* and fetches updates when it is idle, the DHT calls back, the worker     *)
(* thread runs and time passes.  Nothing forces an actor to start or to    *)
(* stop, a service to crash or an entry to fire.                           *)
(***************************************************************************)
Fairness ==
  /\ \A a \in Actor :
       /\ WF_vars(Reinstate(a)) /\ WF_vars(Unregister(a))
       /\ \A k \in Key : WF_vars(RegisterService(a, k)) /\ WF_vars(Lookup(a, k))
  /\ \A n \in Node :
       /\ WF_vars(FetchUpdates(n))
       /\ WF_vars(\E note \in notes[n] : DhtValueCallback(n, note))
  /\ \A p \in Provider : WF_vars(ExpireFormer(p)) /\ WF_vars(ExpireValue(p))

FairSpec == Spec /\ Fairness

--------------------------------------------------------------------------------
(* Properties *)

TypeOK ==
  /\ life \in [Actor -> {"off", "on", "blocked", "dead", "gone"}]
  /\ toServe \in [Actor -> SUBSET Key]
  /\ toLookup \in [Actor -> SUBSET Key]
  /\ told \in [Actor -> [Key -> SUBSET Actor]]
  /\ up \in [Node -> {"up", "hung", "down"}]
  /\ joined \subseteq Actor
  /\ registrations \in [Actor -> SUBSET Key]
  /\ enrollments \in [Actor -> SUBSET Key]
  /\ clients \in [Node -> [Key -> SUBSET Actor]]
  /\ listening \in [Node -> SUBSET Key]
  /\ updates \in [Node -> SUBSET Provider]
  /\ deleted \in [Node -> [Key -> Actor \cup {None}]]
  /\ republish \in [Node -> SUBSET Provider]
  /\ worker \in [Node -> {"waits", "runs", "ends"}]
  /\ firing \in [Node -> Provider \cup {None}]
  /\ go \in [Node -> BOOLEAN]
  /\ backup \in [Node -> SUBSET Provider]
  /\ value \in [Key -> SUBSET Actor]
  /\ tomb \in [Key -> SUBSET Actor]
  /\ former \subseteq Provider
  /\ notes \in [Node -> SUBSET Note]
  /\ removed \subseteq Provider
  /\ spent \in [Bounded -> Nat]

\* What was removed from the data base stays hidden from every lookup for as long
\* as the DHT still has it: nothing republishes it behind its tombstone, whatever
\* the republisher, a crash, a cleanup and a reinstatement do.
RemovedHidden == removed \cap Published \subseteq Hidden

\* Why it holds, and is inductive: nothing that was removed and is still there is
\* republished, an entry is republished on the node of its actor only, and a
\* service that is down republishes nothing, so that the cleanup of its backup
\* does not race with its republisher.
HiddenInv ==
  /\ TypeOK
  /\ RemovedHidden
  /\ \A n \in Node : republish[n] \cap removed \cap Published = {}
  /\ \A n \in Node : \A p \in republish[n] \cup backup[n] : Home[p[2]] = n
  /\ \A n \in Node : up[n] = "down" => republish[n] = {} /\ firing[n] = None

\* A service that runs knows who is interested: the clients of its data base are
\* those that are enrolled, and those actors are registered.
Enrolled(a) ==
  /\ \A k \in Key : a \in clients[Home[a]][k] <=> k \in enrollments[a]
  /\ a \notin joined => registrations[a] = {} /\ enrollments[a] = {}
ClientsEnrolled == \A a \in Actor : up[Home[a]] = "up" => Enrolled(a)

\* Why it holds, and is inductive: only a service that hangs may have stopped halfway,
\* and it is never served from again; one that is down knows nobody, and nobody is
\* registered before it has started, so that no table is reset under an enrollment.
EnrolledInv ==
  /\ TypeOK
  /\ \A a \in Actor : life[a] = "off" => a \notin joined
  /\ \A a \in Actor : up[Home[a]] = "down" => a \notin joined
  /\ \A a \in Actor : up[Home[a]] # "hung" => Enrolled(a)

\* A value that was removed leaves the DHT in the end, or is registered again.
RemovedVanishes == \A p \in Provider : p \in removed ~> (p \notin Published \/ p \notin removed)

Interested(a, k) == life[a] = "on" /\ Serving(a) /\ k \in enrollments[a] /\ k \in listening[Home[a]]
Lively(p) == p \in Published \ Hidden
\* No value of key k has gone, and no former instance of one.
Quiet(k) ==
  /\ \A n \in Node : deleted[n][k] = None
  /\ \A n \in Node : \A note \in notes[n] : note.of[1] = k => note.what = "put"

\* An actor that is interested in a key learns of each provider that is published,
\* local or remote, registered before or after the lookup, while no other value of
\* the key goes away.
ProviderTold ==
  \A a \in Actor, p \in Provider :
    (Interested(a, p[1]) /\ Lively(p) /\ Quiet(p[1])) ~>
      (p[2] \in told[a][p[1]] \/ ~Interested(a, p[1]) \/ ~Lively(p) \/ ~Quiet(p[1]))

--------------------------------------------------------------------------------
(* What the repository says of the service and it does not keep *)

\* "Reinstate providers with a restarted disco" (part.py:268): what an actor has
\* registered again with a service that runs can be found.  The cleanup of the
\* restarted service has hidden it, and insert() skips what the DHT still has.
ReinstatedFound ==
  \A p \in Provider :
    (p[1] \in registrations[p[2]] /\ up[Home[p[2]]] = "up") => Lively(p)

================================================================================
