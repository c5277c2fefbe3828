------------------------------ MODULE Deployment ------------------------------
(***************************************************************************)
(* The deployment service of one node (deplo/depm.py) with its process     *)
(* monitor (procm.py), its application data base (appdb.py) and what the   *)
(* resource and fault managers keep of an actor (resm.py, fm.py).  It      *)
(* starts the discovery service, the actors of an application and, at the  *)
(* request of an actor, its device actors; it restarts what dies, stops    *)
(* what it is told to, and finds its way again after a crash of its own.   *)
(*                                                                         *)
(* The manager is one thread that serves four sockets: the commands of the *)
(* controller, the requests of actors, and the messages of the process     *)
(* monitors.  The wait for a new process (depmStartTimeout) is a state of  *)
(* that thread.  Each process has a monitor thread; a stopped actor is     *)
(* terminated by a background thread.                                      *)
(***************************************************************************)
EXTENDS Integers, FiniteSets

CONSTANTS
  Actor,       \* the actors of the application
  Device,      \* its device actors
  Disco,       \* the discovery service
  Owner,       \* the actor that asks for a device
  MaxPid,      \* processes
  MaxCommand,  \* commands of the controller
  MaxFail,     \* processes that die
  MaxCrash,    \* crashes or shutdowns of the deployment service
  MaxEvent,    \* commands, deaths and crashes together
  Prepared,    \* whether discovery is up and the application set up at first
  Relaunch     \* whether an actor may be launched while it is running

ASSUME NodeAssumption ==
  /\ Disco \notin Actor \cup Device
  /\ Actor \cap Device = {}
  /\ Owner \in [Device -> Actor]
  /\ {MaxPid, MaxCommand, MaxFail, MaxCrash, MaxEvent} \subseteq Nat
  /\ {Prepared, Relaunch} \subseteq BOOLEAN
  /\ Prepared => MaxPid > 0

None == 0
Pid == 1 .. MaxPid
Key == Actor \cup Device
Name == Key \cup {Disco}

VARIABLES
  proc,        \* processes of the node: whose, how far they are, and whether they wait
               \* for an answer that discovery can no longer give
  regs,        \* processes registered with the running discovery service
  reinstated,  \* processes with a reinstate command on its way
  reqs,        \* requests on the server socket
  depm,        \* the deployment manager
  monitors,    \* monitor threads, by process name
  expected,    \* monitor threads that were released and wait for the end
  term,        \* processes given to the executor
  db,          \* the application data base
  command,     \* the command in callCommand()
  spent        \* the bounds used up

vars == <<proc, regs, reinstated, reqs, depm, monitors, expected, term, db, command, spent>>

Phase == {"free", "boot", "joining", "asking", "ready", "mute", "releasing", "dead"}
Threads == {"down", "sweep", "unregister", "recover", "idle", "busy", "blocked", "failed"}
Ops == {"setDisco", "setupApp", "cleanupApp", "launch", "halt", "kill"}

Quiet == [op |-> "none", who |-> Disco]
NoJob == [for |-> "none", who |-> Disco, pid |-> None, from |-> None]
NoMonitor == [st |-> "none", on |-> None, next |-> None, mute |-> FALSE]

Up(p) == p # None /\ proc[p].phase \notin {"free", "dead"}
DiscoUp == \E p \in Pid : Up(p) /\ proc[p].who = Disco
IsFresh(p) == proc[p].phase = "free" /\ \A q \in 1 .. p - 1 : proc[q].phase # "free"
Exhausted == \A p \in Pid : proc[p].phase # "free"
DevicesOf(k) == {d \in Device : Owner[d] = k}

\* What a manager knows when it starts: all is volatile but the data base.
Blank(thread) ==
  [thread |-> thread, job |-> NoJob, todo |-> {}, orphans |-> {}, owing |-> FALSE, disco |-> None,
   app |-> FALSE, managed |-> {}, launchMap |-> [k \in Key |-> None],
   running |-> [k \in Key |-> "none"]]

Process(k, phase) == [who |-> k, phase |-> phase, stuck |-> FALSE]

\* A node is blank, or discovery runs and the application is set up (startDisco(),
\* setupApp()).
Init ==
  LET first == IF Prepared THEN 1 ELSE None IN
  /\ proc = [p \in Pid |-> Process(Disco, IF p = first THEN "ready" ELSE "free")]
  /\ regs = {} /\ reinstated = {} /\ reqs = {}
  /\ depm = [Blank("idle") EXCEPT !.disco = first, !.app = Prepared]
  /\ monitors = [k \in Name |->
       IF k = Disco /\ Prepared
         THEN [st |-> "waiting", on |-> first, next |-> first, mute |-> FALSE]
         ELSE NoMonitor]
  /\ expected = {} /\ term = {}
  /\ db = [disco |-> first, app |-> Prepared, recs |-> {}, swept |-> {}]
  /\ command = Quiet
  /\ spent = [command |-> 0, fail |-> 0, crash |-> 0]

Spend(what, max) ==
  /\ spent[what] < max /\ spent.command + spent.fail + spent.crash < MaxEvent
  /\ spent' = [spent EXCEPT ![what] = @ + 1]

--------------------------------------------------------------------------------
(* ProcessManager (procm.py) *)

\* Mutant: the thread that is there keeps its old process.
KeepOld(k, p) ==
  IF monitors[k].st = "none"
    THEN [monitors EXCEPT ![k] = [st |-> "waiting", on |-> p, next |-> p, mute |-> FALSE]]
    ELSE monitors

\* monitor(): a thread that is there already is handed the new process, which it
\* takes up when it is done with the old one.  A ROUTER socket turns away a second
\* peer of the same identity: while a released thread of that name is there, the
\* messages of a new one do not arrive.
Monitoring(k, p) ==
  [monitors EXCEPT ![k] =
     IF @.st = "none"
       THEN [st |-> "waiting", on |-> p, next |-> p,
             mute |-> \E q \in Pid : <<k, q>> \in expected]
       ELSE [@ EXCEPT !.next = p]]

\* The reply to the thread: it waits for its process again.
Answered(k, m) == [m EXCEPT ![k].st = "waiting", ![k].on = m[k].next]

\* release(): a thread that has reported the end (error()) is not released.
release(k) ==
  IF monitors[k].st = "waiting"
    THEN /\ monitors' = [monitors EXCEPT ![k] = NoMonitor]
         /\ expected' = expected \cup {<<k, monitors[k].on>>}
    ELSE UNCHANGED <<monitors, expected>>

\* ProcessMonitor.run(): the process has ended, and nobody released the thread.
Wake(k) ==
  /\ monitors[k].st = "waiting" /\ ~Up(monitors[k].on)
  /\ monitors' = [monitors EXCEPT ![k].st = "asking"]
  /\ UNCHANGED <<proc, regs, reinstated, reqs, depm, expected, term, db, command, spent>>

Depart(k, p) ==
  /\ <<k, p>> \in expected /\ ~Up(p)
  /\ expected' = expected \ {<<k, p>>}
  /\ UNCHANGED <<proc, regs, reinstated, reqs, depm, monitors, term, db, command, spent>>

--------------------------------------------------------------------------------
(* Start and stop of a process *)

\* startActor(), startDevice() up to the wait: the managers learn of the actor
\* before its process is there, and keep it if the start fails.
Spawn(d, for, k, from) ==
  \E p \in Pid :
    /\ IsFresh(p)
    /\ proc' = [proc EXCEPT ![p] = Process(k, "boot")]
    /\ depm' = [d EXCEPT !.thread = "busy", !.managed = @ \cup {k},
                         !.job = [for |-> for, who |-> k, pid |-> p, from |-> from]]

\* The data base that outlives the service (appdb.py).  Its list of actor records is in
\* the order of their processes, which are numbered as they are started.  Not in the code:
\* swept keeps the processes whose records were deleted while they were launched.
Record == [who : Key, pid : Pid]
Without(recs, k) == {r \in recs : r.who # k}
PidsOf(recs) == {r.pid : r \in recs}

addApp == db' = [db EXCEPT !.app = TRUE]
delApp ==
  db' = [db EXCEPT !.app = FALSE, !.recs = {}, !.swept = @ \cup PidsOf(db.recs)]
addAppActor(k, p) == db' = [db EXCEPT !.recs = @ \cup {[who |-> k, pid |-> p]}]
delAppActor(k) ==
  db' = [db EXCEPT !.recs = Without(@, k),
                   !.swept = @ \cup PidsOf(db.recs \ Without(db.recs, k))]

\* Where the thread goes on after a start.
Back(for) == IF for = "recover" THEN "recover" ELSE "idle"

\* The client whose request for a device is answered; a client that has given up
\* or died does not hear it.
Heard(p) == IF proc[p].phase = "asking" THEN [proc EXCEPT ![p].phase = "ready"] ELSE proc

\* The process is up after depmStartTimeout.
Started ==
  LET j == depm.job  m == Monitoring(j.who, j.pid) IN
  /\ depm.thread = "busy" /\ Up(j.pid)
  /\ depm' = [depm EXCEPT !.thread = Back(j.for), !.job = NoJob,
                          !.launchMap[j.who] = j.pid, !.running[j.who] = "started"]
  /\ addAppActor(j.who, j.pid)
  /\ monitors' = IF j.for = "procmon" THEN Answered(j.who, m) ELSE m
  /\ proc' = IF j.for = "device" THEN Heard(j.from) ELSE proc
  /\ command' = IF j.for = "command" THEN Quiet ELSE command
  /\ UNCHANGED <<regs, reinstated, reqs, expected, term, spent>>

\* It is not: a BuildError.  A command and a request get an error, recover() forgets
\* the actor, and in handleProcmon() the error ends the thread.
NotStarted ==
  LET j == depm.job IN
  /\ depm.thread = "busy" /\ ~Up(j.pid)
  /\ depm' = [depm EXCEPT !.thread = IF j.for = "procmon" THEN "failed" ELSE Back(j.for),
                          !.job = NoJob]
  /\ IF j.for = "recover" THEN delAppActor(j.who) ELSE db' = db
  /\ proc' = IF j.for = "device" THEN Heard(j.from) ELSE proc
  /\ command' = IF j.for = "command" THEN Quiet ELSE command
  /\ UNCHANGED <<regs, reinstated, reqs, monitors, expected, term, spent>>

\* stopActor(): the process goes to the executor, the monitor thread is released.
\* The managers must know the actor; if not, an exception leaves half of it undone.
Unlaunched(d, k) == [d EXCEPT !.launchMap[k] = None]
Stopped(d, k) ==
  [Unlaunched(d, k) EXCEPT !.running[k] = IF k \in Actor THEN "none" ELSE @]
Forgotten(k) == IF k \in Actor THEN [db EXCEPT !.recs = Without(@, k)] ELSE db
Given(k) == IF Up(depm.launchMap[k]) THEN term \cup {depm.launchMap[k]} ELSE term
Stop(k) == release(k) /\ term' = Given(k) /\ db' = Forgotten(k)

\* terminateActor(), terminateDevice() in the executor, and the actor that is told
\* to end: it releases its devices if its socket to the manager can still send, and
\* one that waits for discovery goes on waiting.
Leave(p) == [proc EXCEPT ![p].phase = "dead"]
Releases(p) == proc[p].phase = "ready" /\ DevicesOf(proc[p].who) # {}

Terminate(p) ==
  /\ p \in term /\ Up(p) /\ proc[p].phase # "releasing"
  /\ reqs' = IF Releases(p) THEN reqs \cup {[kind |-> "deviceRel", from |-> p]} ELSE reqs
  /\ IF Releases(p) \/ proc[p].stuck
       THEN proc' = [proc EXCEPT ![p].phase = "releasing"] /\ regs' = regs
       ELSE proc' = Leave(p) /\ regs' = regs \ {p}
  /\ UNCHANGED <<reinstated, depm, monitors, expected, term, db, command, spent>>

\* depmTermTimeout is over: unRegisterActor(), then SIGKILL.
Kill(p) ==
  /\ p \in term /\ Up(p) /\ proc[p].phase = "releasing" /\ DiscoUp
  /\ proc' = Leave(p)
  /\ regs' = regs \ {p}
  /\ UNCHANGED <<reinstated, reqs, depm, monitors, expected, term, db, command, spent>>

Reap(p) ==
  /\ p \in term /\ ~Up(p)
  /\ term' = term \ {p}
  /\ UNCHANGED <<proc, regs, reinstated, reqs, depm, monitors, expected, db, command, spent>>

--------------------------------------------------------------------------------
(* Commands (handleCommand) *)

Call(op, k) ==
  /\ Spend("command", MaxCommand)
  /\ depm.thread # "down" /\ command = Quiet
  /\ op = "launch" /\ ~Relaunch => depm.thread = "idle" /\ depm.launchMap[k] = None
  /\ command' = [op |-> op, who |-> k]
  /\ UNCHANGED <<proc, regs, reinstated, reqs, depm, monitors, expected, term, db>>

Told(op) == depm.thread = "idle" /\ command.op = op

\* startDisco()
startDisco(p) ==
  /\ IsFresh(p)
  /\ proc' = [proc EXCEPT ![p] = Process(Disco, "ready")]
  /\ db' = [db EXCEPT !.disco = p]

setupDisco ==
  /\ Told("setDisco")
  /\ command' = Quiet
  /\ IF depm.disco = None
       THEN \E p \in Pid :
              /\ startDisco(p)
              /\ depm' = [depm EXCEPT !.disco = p]
              /\ monitors' = Monitoring(Disco, p)
       ELSE UNCHANGED <<proc, db, depm, monitors>>
  /\ UNCHANGED <<regs, reinstated, reqs, expected, term, spent>>

\* The model of the application is there from now on.
loadModel(d) == [d EXCEPT !.app = TRUE]

setupApp ==
  /\ Told("setupApp")
  /\ command' = Quiet
  /\ depm' = loadModel(depm)
  /\ addApp
  /\ UNCHANGED <<proc, regs, reinstated, reqs, monitors, expected, term, spent>>

\* cleanupApp() does not ask whether actors or devices are still there.
cleanupApp ==
  /\ Told("cleanupApp")
  /\ command' = Quiet
  /\ IF depm.app
       THEN depm' = [depm EXCEPT !.app = FALSE, !.managed = {}] /\ delApp
       ELSE UNCHANGED <<depm, db>>
  /\ UNCHANGED <<proc, regs, reinstated, reqs, monitors, expected, term, spent>>

\* startActor() does not ask whether the actor is running already.
Launch ==
  /\ Told("launch")
  /\ IF depm.app
       THEN Spawn(depm, "command", command.who, None) /\ command' = command
       ELSE command' = Quiet /\ UNCHANGED <<proc, depm>>
  /\ UNCHANGED <<regs, reinstated, reqs, monitors, expected, term, db, spent>>

haltActor ==
  LET k == command.who IN
  /\ Told("halt")
  /\ command' = Quiet
  /\ IF depm.launchMap[k] = None THEN UNCHANGED <<depm, monitors, expected, term, db>>
     ELSE IF k \in depm.managed THEN depm' = Stopped(depm, k) /\ Stop(k)
     ELSE depm' = Unlaunched(depm, k) /\ UNCHANGED <<monitors, expected, term, db>>
  /\ UNCHANGED <<proc, regs, reinstated, reqs, spent>>

--------------------------------------------------------------------------------
(* Messages of the process monitors (handleProcmon) *)

Reported(k) == depm.thread = "idle" /\ monitors[k].st = "asking" /\ ~monitors[k].mute

\* The actors whose channel is open are told to register again (reinstate).  Mutant:
\* those whose channel is not.
Unregistered == {depm.launchMap[k] : k \in {x \in Key : depm.running[x] = "started"}}
Registered ==
  {depm.launchMap[k] : k \in {x \in Key : Up(depm.launchMap[x]) /\ depm.running[x] = "registered"}}

\* The discovery service is started again.
RestartDisco ==
  /\ Reported(Disco)
  /\ \E p \in Pid :
       /\ startDisco(p)
       /\ depm' = [depm EXCEPT !.disco = p]
       /\ monitors' = Answered(Disco, Monitoring(Disco, p))
  /\ reinstated' = reinstated \cup Registered
  /\ UNCHANGED <<regs, reqs, expected, term, command, spent>>

\* Whether the name has a record of its own.  Mutant: or a channel.
HasChannel(k) == depm.running[k] = "registered"
Known(k) == depm.running[k] # "none"

\* unRegisterActor() waits for the discovery service without a time limit.
RestartActor(k) ==
  LET p == depm.launchMap[k]  d == Stopped(depm, k) IN
  /\ Reported(k) /\ Known(k)
  /\ IF p = None \/ k \notin depm.managed
       THEN /\ depm' = [Unlaunched(depm, k) EXCEPT !.thread = "failed"]
            /\ UNCHANGED <<proc, regs, term, db>>
       ELSE /\ term' = Given(k) /\ db' = Forgotten(k)
            /\ IF DiscoUp
                 THEN regs' = regs \ {p} /\ Spawn(d, "procmon", k, None)
                 ELSE depm' = [d EXCEPT !.thread = "blocked"] /\ UNCHANGED <<proc, regs>>
  /\ UNCHANGED <<reinstated, reqs, monitors, expected, command, spent>>

\* stopDevice() keeps the record of the device, so that one that was stopped meanwhile
\* is started again as well.
RestartDevice(k) ==
  LET p == depm.launchMap[k]  d == Stopped(depm, k) IN
  /\ Reported(k) /\ Known(k)
  /\ IF (p # None /\ k \notin depm.managed) \/ ~depm.app
       THEN /\ depm' = [d EXCEPT !.thread = "failed"]
            /\ UNCHANGED <<proc, term>>
       ELSE term' = Given(k) /\ Spawn(d, "procmon", k, None)
  /\ UNCHANGED <<regs, reinstated, reqs, monitors, expected, db, command, spent>>

\* Somebody who is not known any more: the thread is answered and, as its process is
\* still dead, reports again.
Disregard(k) ==
  /\ Reported(k) /\ ~Known(k)
  /\ monitors' = Answered(k, monitors)
  /\ UNCHANGED <<proc, regs, reinstated, reqs, depm, expected, term, db, command, spent>>

handleProcmon ==
  \/ RestartDisco
  \/ \E k \in Actor : RestartActor(k) \/ Disregard(k)
  \/ \E k \in Device : RestartDevice(k) \/ Disregard(k)

--------------------------------------------------------------------------------
(* Requests of the actors (handleClient) *)

\* A new process registers with the discovery service, then with the manager.
Boot(p) ==
  /\ proc[p].phase = "boot" /\ ~proc[p].stuck /\ DiscoUp
  /\ regs' = regs \cup {p}
  /\ proc' = [proc EXCEPT ![p].phase = "joining"]
  /\ reqs' = reqs \cup {[kind |-> "actorReg", from |-> p]}
  /\ UNCHANGED <<reinstated, depm, monitors, expected, term, db, command, spent>>

\* The answer to a registration; what follows is the request for a device.
Joined(p) ==
  IF proc[p].phase # "joining"
    THEN /\ proc' = proc
         /\ reqs' = reqs \ {[kind |-> "actorReg", from |-> p]}
  ELSE IF DevicesOf(proc[p].who) = {}
    THEN /\ proc' = [proc EXCEPT ![p].phase = "ready"]
         /\ reqs' = reqs \ {[kind |-> "actorReg", from |-> p]}
    ELSE /\ proc' = [proc EXCEPT ![p].phase = "asking"]
         /\ reqs' = (reqs \ {[kind |-> "actorReg", from |-> p]})
                      \cup {[kind |-> "deviceGet", from |-> p]}

\* deplEndpointRecvTimeout is over: the actor goes on without the answer, and its
\* socket cannot send any more; one that is ending ends.
GiveUp(p) ==
  /\ proc[p].phase \in {"joining", "asking", "releasing"} /\ ~proc[p].stuck
  /\ depm.thread # "idle" \/ depm.owing
  /\ proc' = [proc EXCEPT ![p].phase = IF @ = "releasing" THEN "dead" ELSE "mute"]
  /\ regs' = IF proc[p].phase = "releasing" THEN regs \ {p} ELSE regs
  /\ UNCHANGED <<reinstated, reqs, depm, monitors, expected, term, db, command, spent>>

\* A reply that is not sent leaves the REP socket waiting for it.
Serves(kind, p) ==
  depm.thread = "idle" /\ ~depm.owing /\ [kind |-> kind, from |-> p] \in reqs
Unanswered(d, kind, p) ==
  depm' = [d EXCEPT !.owing = TRUE] /\ reqs' = reqs \ {[kind |-> kind, from |-> p]}

handleActorReg(p) ==
  LET k == proc[p].who  known == depm.launchMap[k] # None /\ Known(k) IN
  /\ Serves("actorReg", p)
  /\ IF known /\ k \notin depm.managed
       THEN Unanswered(depm, "actorReg", p) /\ proc' = proc
       ELSE /\ Joined(p)
            /\ depm' = IF known THEN [depm EXCEPT !.running[k] = "registered"] ELSE depm
  /\ UNCHANGED <<regs, reinstated, monitors, expected, term, db, command, spent>>

\* A device that is running already is started once more.
handleDeviceReq(p) ==
  \E k \in DevicesOf(proc[p].who) :
    /\ Serves("deviceGet", p)
    /\ reqs' = reqs \ {[kind |-> "deviceGet", from |-> p]}
    /\ IF depm.app THEN Spawn(depm, "device", k, p)
       ELSE proc' = Heard(p) /\ depm' = depm
    /\ UNCHANGED <<regs, reinstated, monitors, expected, term, db, command, spent>>

\* The actor ends when its device is released.
handleDeviceRel(p) ==
  \E k \in DevicesOf(proc[p].who) :
    /\ Serves("deviceRel", p)
    /\ IF depm.launchMap[k] # None /\ k \notin depm.managed
         THEN /\ Unanswered(Unlaunched(depm, k), "deviceRel", p)
              /\ UNCHANGED <<proc, regs, monitors, expected, term, db>>
         ELSE /\ reqs' = reqs \ {[kind |-> "deviceRel", from |-> p]}
              /\ IF proc[p].phase = "releasing" /\ ~proc[p].stuck
                   THEN proc' = Leave(p) /\ regs' = regs \ {p}
                   ELSE UNCHANGED <<proc, regs>>
              /\ IF depm.launchMap[k] = None
                   THEN UNCHANGED <<depm, monitors, expected, term, db>>
                   ELSE depm' = Stopped(depm, k) /\ Stop(k)
    /\ UNCHANGED <<reinstated, command, spent>>

\* The actor registers again with the discovery service (handleReinstate), if its thread
\* is there to read the command.
Reregister(p) ==
  /\ p \in reinstated /\ Up(p) /\ ~proc[p].stuck /\ DiscoUp
  /\ reinstated' = reinstated \ {p}
  /\ regs' = regs \cup {p}
  /\ UNCHANGED <<proc, reqs, depm, monitors, expected, term, db, command, spent>>

--------------------------------------------------------------------------------
(* Failures, shutdown and recovery *)

\* The actors that may be in a call to discovery (rpcDisco()).  There is no time limit:
\* if discovery ends before it has answered, the thread of the actor waits for good.
Callers == {p \in Pid : proc[p].phase \in {"boot", "ready", "mute"} /\ proc[p].who # Disco}
Ending(ended, lost) ==
  [p \in Pid |->
     IF p \in ended /\ Up(p) THEN [proc[p] EXCEPT !.phase = "dead"]
     ELSE IF p \in lost THEN [proc[p] EXCEPT !.stuck = TRUE]
     ELSE proc[p]]

Die(p) ==
  /\ Up(p) /\ Spend("fail", MaxFail)
  /\ \E lost \in SUBSET Callers :
       /\ proc[p].who # Disco => lost = {}
       /\ proc' = Ending({p}, lost)
  /\ regs' = IF proc[p].who = Disco THEN {} ELSE regs
  /\ UNCHANGED <<reinstated, reqs, depm, monitors, expected, term, db, command>>

\* The service is gone, with its threads and sockets; its processes are not.
Gone ==
  /\ depm' = Blank("down")
  /\ monitors' = [k \in Name |-> NoMonitor]
  /\ expected' = {} /\ reqs' = {} /\ reinstated' = {}
  /\ command' = Quiet

Crash ==
  /\ depm.thread # "down" /\ Spend("crash", MaxCrash)
  /\ Gone /\ term' = {}
  /\ UNCHANGED <<proc, regs, db>>

\* stop(): actors are halted (devices only leave the map), the executor is waited
\* for, the discovery service is ended and the data base emptied.
stop ==
  LET halted == {depm.launchMap[k] : k \in Actor} IN
  /\ Told("kill") /\ Spend("crash", MaxCrash)
  /\ \A k \in Actor : depm.launchMap[k] # None => k \in depm.managed
  /\ Gone /\ term' = {}
  /\ \E lost \in SUBSET Callers :
       /\ Up(depm.disco) \/ lost = {}
       /\ proc' = Ending(halted \cup term \cup {depm.disco}, lost)
  /\ regs' = {}
  /\ db' = [disco |-> None, app |-> FALSE, recs |-> {}, swept |-> {}]

\* The service is started again (Restart=always).  recover() reads the records, ...
Recover ==
  /\ depm.thread = "down"
  /\ depm' = [depm EXCEPT !.thread = "sweep", !.todo = db.recs, !.orphans = db.recs]
  /\ UNCHANGED <<proc, regs, reinstated, reqs, monitors, expected, term, db, command, spent>>

First(recs, r) == r \in recs /\ \A s \in recs : r.pid <= s.pid

\* ... ends the orphans, and deletes the records of the name of each: from now on only
\* this thread knows that the actor has to be started again, ...
stopOrphanActor(r) ==
  /\ depm.thread = "sweep" /\ First(depm.orphans, r)
  /\ proc' = IF Up(r.pid) THEN Leave(r.pid) ELSE proc
  /\ regs' = regs \ {r.pid}
  /\ db' = [db EXCEPT !.recs = Without(@, r.who)]
  /\ depm' = [depm EXCEPT !.orphans = @ \ {r}]
  /\ UNCHANGED <<reinstated, reqs, monitors, expected, term, command, spent>>

\* ... starts the discovery service in place of the old one, if there was one, ...
RecoverDisco ==
  /\ depm.thread = "sweep" /\ depm.orphans = {}
  /\ IF db.disco = None
       THEN /\ depm' = [depm EXCEPT !.thread = "recover"]
            /\ UNCHANGED <<proc, regs, db, monitors>>
       ELSE \E q \in Pid, lost \in SUBSET Callers :
            /\ IsFresh(q) /\ (Up(db.disco) \/ lost = {})
            /\ proc' = [Ending({db.disco}, lost) EXCEPT ![q] = Process(Disco, "ready")]
            /\ depm' = [depm EXCEPT !.thread = "unregister", !.disco = q]
            /\ regs' = {}
            /\ db' = [db EXCEPT !.disco = q]
            /\ monitors' = Monitoring(Disco, q)
  /\ UNCHANGED <<reinstated, reqs, expected, term, command, spent>>

\* ... and unregisters the orphans with it, which may wait without a time limit.
unregisterOrphanActor ==
  /\ depm.thread = "unregister"
  /\ depm' = [depm EXCEPT !.thread = IF DiscoUp \/ depm.todo = {} THEN "recover" ELSE "blocked"]
  /\ regs' = IF DiscoUp THEN regs \ PidsOf(depm.todo) ELSE regs
  /\ UNCHANGED <<proc, reinstated, reqs, monitors, expected, term, db, command, spent>>

\* Then the application is set up and its actors are started one by one; the devices
\* come back when they are asked for.
RecoverActor ==
  \E r \in depm.todo :
     LET d == [loadModel(depm) EXCEPT !.todo = @ \ {r}] IN
     /\ depm.thread = "recover" /\ First(depm.todo, r)
     /\ addApp
     /\ IF r.who \in Actor THEN Spawn(d, "recover", r.who, None)
        ELSE depm' = d /\ proc' = proc
     /\ UNCHANGED <<regs, reinstated, reqs, monitors, expected, term, command, spent>>

\* Mutant: one actor is enough.
EarlyRecovered ==
  /\ depm.thread = "recover"
  /\ depm' = [depm EXCEPT !.thread = "idle"]
  /\ UNCHANGED <<proc, regs, reinstated, reqs, monitors, expected, term, db, command, spent>>

Recovered ==
  /\ depm.thread = "recover" /\ depm.todo = {}
  /\ depm' = [depm EXCEPT !.thread = "idle"]
  /\ UNCHANGED <<proc, regs, reinstated, reqs, monitors, expected, term, db, command, spent>>

--------------------------------------------------------------------------------
(* The specification *)

Command == setupDisco \/ setupApp \/ cleanupApp \/ Launch \/ haltActor

Manager ==
  \/ Command
  \/ Started \/ NotStarted
  \/ handleProcmon
  \/ \E p \in Pid : handleActorReg(p) \/ handleDeviceReq(p) \/ handleDeviceRel(p)

Threading ==
  \/ \E k \in Name : Wake(k) \/ \E p \in Pid : Depart(k, p)
  \/ \E p \in Pid : Terminate(p) \/ Kill(p) \/ Reap(p)

Actors == \E p \in Pid : Boot(p) \/ GiveUp(p) \/ Reregister(p)

Recovery ==
  \/ Recover \/ \E r \in Record : stopOrphanActor(r)
  \/ RecoverDisco \/ unregisterOrphanActor \/ RecoverActor \/ Recovered

Controls ==
  \/ \E op \in {"setDisco", "setupApp", "cleanupApp", "kill"} : Call(op, Disco)
  \/ \E op \in {"launch", "halt"}, k \in Actor : Call(op, k)

Next ==
  \/ Manager \/ Threading \/ Actors \/ Recovery \/ stop
  \/ Controls \/ Crash \/ \E p \in Pid : Die(p)

Spec == Init /\ [][Next]_vars

\* The manager's loop does not leave a socket unread, threads run, and the service is
\* started again by the system.  Nobody has to send a command, and nothing must fail.
Fairness ==
  /\ WF_vars(Command \/ Started \/ NotStarted)
  /\ SF_vars(RestartDisco)
  /\ \A k \in Actor : SF_vars(RestartActor(k))
  /\ \A k \in Device : SF_vars(RestartDevice(k))
  /\ SF_vars(\E p \in Pid : handleDeviceRel(p))
  /\ \A k \in Name : WF_vars(Wake(k))
  /\ WF_vars(\E p \in Pid : Terminate(p) \/ Kill(p) \/ Reap(p))
  /\ WF_vars(\E p \in Pid : Reregister(p))
  /\ WF_vars(Recovery)

FairSpec == Spec /\ Fairness

--------------------------------------------------------------------------------
(* Properties *)

Job ==
  {j \in [for : {"command", "procmon", "device", "recover"}, who : Key, pid : Pid,
          from : Pid \cup {None}] : j.for = "device" => j.from \in Pid}

DepmState ==
  [thread : Threads, job : Job \cup {NoJob}, todo : SUBSET Record, orphans : SUBSET Record,
   owing : BOOLEAN,
   disco : Pid \cup {None}, app : BOOLEAN, managed : SUBSET Key,
   launchMap : [Key -> Pid \cup {None}],
   running : [Key -> {"none", "started", "registered"}]]

MonitorState ==
  {m \in [st : {"none", "waiting", "asking"}, on : Pid \cup {None},
          next : Pid \cup {None}, mute : BOOLEAN] :
     m.st # "none" => m.on # None /\ m.next # None}

TypeOK ==
  /\ proc \in [Pid -> [who : Name, phase : Phase, stuck : BOOLEAN]]
  /\ regs \subseteq Pid /\ reinstated \subseteq Pid /\ term \subseteq Pid
  /\ reqs \subseteq [kind : {"actorReg", "deviceGet", "deviceRel"}, from : Pid]
  /\ depm \in DepmState
  /\ depm.thread = "busy" <=> depm.job # NoJob
  /\ monitors \in [Name -> MonitorState]
  /\ expected \subseteq Name \X Pid
  /\ db \in [disco : Pid \cup {None}, app : BOOLEAN, recs : SUBSET Record, swept : SUBSET Pid]
  /\ command \in [op : Ops \cup {"none"}, who : Name]
  /\ command.op \in {"launch", "halt"} => command.who \in Actor

Idle == depm.thread = "idle"

HasRecord(k) == \E r \in db.recs : r.who = k
Latest(r) == \A s \in db.recs : s.who = r.who => s.pid <= r.pid

\* Types; and what is launched is watched: its monitor thread waits for this process, or
\* will (procm.monitor(), release()).  Its record is in the data base, where it is found
\* after a crash (appdb.py, recover()), unless cleanupApp() or a recovery that failed
\* deleted the records of its name; and that record is the latest of its name.
\* Conversely, a process that runs and is the latest record of its name is the one
\* that is launched, or is being ended (stopActor(), stopDevice()).
LaunchedKept ==
  TypeOK /\ \A k \in Key : Idle =>
    /\ depm.launchMap[k] # None =>
         /\ monitors[k].st # "none" /\ monitors[k].next = depm.launchMap[k]
         /\ depm.launchMap[k] \in db.swept \/ [who |-> k, pid |-> depm.launchMap[k]] \in db.recs
    /\ \A r \in db.recs : r.who = k /\ Latest(r) =>
         /\ depm.launchMap[k] # None => r.pid = depm.launchMap[k]
         /\ Up(r.pid) => depm.launchMap[k] = r.pid \/ r.pid \in term

Serving == depm.thread \in {"idle", "busy"}

Sought(p) == p # None /\ ~Up(p)

\* A process that is launched and dies is replaced, while the manager serves and the
\* thread of its name watches it: a device that was started twice is watched by a
\* thread that still waits for the end of the first process.
Twin(k) == Up(monitors[k].on) /\ monitors[k].on # depm.launchMap[k]

DeadRestarted ==
  \A k \in Key :
    Sought(depm.launchMap[k]) ~>
      \/ ~Sought(depm.launchMap[k]) \/ ~Serving
      \/ monitors[k].mute \/ Twin(k) \/ Exhausted

\* The actors of the data base are started again after a crash, unless the start fails,
\* or discovery dies while the orphans are unregistered, or the service crashes once more
\* when the record of the actor is deleted and the actor not yet started: this one is lost.
Failing(k) ==
  /\ depm.thread = "busy" /\ depm.job.for = "recover"
  /\ depm.job.who = k /\ ~Up(depm.job.pid)
Lost(k) == depm.thread = "down" /\ ~HasRecord(k)

RecordedRecover ==
  \A k \in Actor :
    (depm.thread = "down" /\ HasRecord(k)) ~>
      (depm.launchMap[k] # None \/ Failing(k) \/ depm.thread = "blocked" \/ Lost(k) \/ Exhausted)

\* An actor whose channel is open registers with the new discovery service, unless it was
\* in a call to the old one when that died.
Cut(k) ==
  /\ depm.running[k] = "registered" /\ Up(depm.launchMap[k])
  /\ depm.launchMap[k] \notin regs
Stuck(k) == Up(depm.launchMap[k]) /\ proc[depm.launchMap[k]].stuck

Reinstated ==
  \A k \in Key : (Cut(k) /\ ~DiscoUp) ~> (~Cut(k) \/ Stuck(k) \/ ~Serving \/ Exhausted)

\* "The client actors are to register with the manager using the 'server' (REQ/REP)
\* socket" (depm.py:1125): the socket goes on serving.
ServerOpen == ~depm.owing

================================================================================
