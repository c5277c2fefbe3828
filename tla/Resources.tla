------------------------------- MODULE Resources -------------------------------
(***************************************************************************)
(* The resource manager of a node (deplo/resm.py) and its monitors         *)
(* (cpumon.py, memmon.py, spcmon.py, netmon.py), as the deployment manager *)
(* (depm.py) uses them.  Every actor with a CPU or a memory limit has a    *)
(* monitor thread of its own, which is started with the first process of   *)
(* the actor, pauses while the actor is stopped, and ends when the         *)
(* application is cleaned up.  The limits on space and network are watched *)
(* by one thread each, for all actors of the node.                         *)
(*                                                                         *)
(* A monitor is controlled through three events (running, stopped,         *)
(* terminated) that the deployment manager and the thread set and wait     *)
(* for.  The deployment manager is one thread: while it waits, it serves   *)
(* nobody.                                                                 *)
(*                                                                         *)
(* Abstractions: the usage of a resource is any; cgroups, users, quotas    *)
(* and traffic control commands have no state here, nor have the tables of *)
(* the network monitor by process number; the notices that a monitor sends *)
(* are left out, the pause after one is not.  A process that is started    *)
(* comes up: starts that fail are in Deployment.                           *)
(***************************************************************************)
EXTENDS Integers, Sequences, FiniteSets

CONSTANTS
  Actor,      \* the actors of an application, devices among them
  Usage,      \* the limits of an actor: its 'usage' in the model
  MaxStart,   \* bound: processes started
  MaxCleanup  \* bound: times the application is removed

Thread == {"cpu", "mem"}
Shared == {"spc", "net"}

ASSUME ResourceAssumption ==
  /\ Usage \in [Actor -> SUBSET (Thread \cup Shared)]
  /\ {MaxStart, MaxCleanup} \subseteq Nat

VARIABLES
  proc,       \* the process of an actor in launchMap
  depm,       \* what the deployment manager does
  app,        \* whether the application is set up
  managed,    \* the actors that the resource manager knows
  mon,        \* the monitor threads of the actors
  efd,        \* whether the event counter of a memory monitor is not zero
  listed,     \* addProc(): how often the space monitor has the name of an actor
  left,       \* history: names that a cleanup left to the space monitor
  reached,    \* addClientDevice(): the actors a monitor has a device for
  spcRuns,    \* whether the space monitor runs
  used        \* the bounds used up

resourcesVars == <<proc, depm, app, managed, mon, efd, listed, left, reached, spcRuns, used>>

Monitor == {m \in Actor \X Thread : m[2] \in Usage[m[1]]}
Of(a) == {m \in Monitor : m[1] = a}
Uses(s) == {a \in Actor : s \in Usage[a]}

InLaunchMap(a) == proc[a] # "none"
ActorUp(a) == proc[a] \in {"up", "registered"}

ManagerIdle == [st |-> "idle", who |-> "", why |-> "", todo |-> {}]
ManagerFree == depm.st = "idle"

\* A thread object that has not been started.
New == [pc |-> "new", running |-> TRUE, stopped |-> FALSE, terminated |-> FALSE, alive |-> FALSE]

ResourcesInit ==
  /\ proc = [a \in Actor |-> "none"]
  /\ depm = ManagerIdle /\ app = TRUE /\ managed = {}
  /\ mon = [m \in Monitor |-> New]
  /\ efd = [m \in Monitor |-> FALSE]
  /\ listed = [a \in Actor |-> 0] /\ left = [a \in Actor |-> 0]
  /\ reached = [s \in Shared |-> {}]
  /\ spcRuns = TRUE
  /\ used = [start |-> 0, cleanup |-> 0]

--------------------------------------------------------------------------------
(* The controls of a monitor thread *)

\* The thread is told to go on.  A thread that waits for 'running' wakes, also when the
\* event is cleared again before it is scheduled.  (It is taken to wait as soon as it has
\* set 'stopped': a process is started between that and the next stop.)  Mutant: the
\* thread still counts as stopped.
Wake(t) == [t EXCEPT !.running = TRUE, !.pc = IF @ = "paused" THEN "woken" ELSE @]
restartStopped(t) == Wake(t)
restart(t) == [Wake(t) EXCEPT !.stopped = FALSE]

\* startActor(): a thread that has not come to life is started; this is done once,
\* and a thread that was stopped, or has failed, is told to go on.
Begun(t) == IF t.alive THEN restart(t) ELSE [t EXCEPT !.pc = "boot"]

stop(t) == [t EXCEPT !.running = FALSE]

\* Mutant: a thread that is paused is not woken.
terminateAsleep(t) == [t EXCEPT !.terminated = TRUE]
terminate(t) ==
  LET told == [t EXCEPT !.terminated = TRUE] IN IF t.stopped THEN restart(told) ELSE told

\* The event counter wakes a memory monitor that waits for its limit.  Mutant: it does
\* not when the thread is told to stop.
NotRaised(m) == efd
Raised(m) == [efd EXCEPT ![m] = m[2] = "mem"]

--------------------------------------------------------------------------------
(* The deployment manager *)

DepmRest == UNCHANGED <<app, left, spcRuns>>

\* The space monitor keeps a list of names: one that is added twice is there twice.
addProc(a) == IF a \in Uses("spc") THEN [listed EXCEPT ![a] = @ + 1] ELSE listed

\* startActor(), startDevice(): the resource manager knows the actor (addActor()), and
\* its process is up; its monitors are started or go on, and the space monitor knows it
\* (resm.startActor()).  Who was launched before the application was cleaned up may be
\* launched again beside its old process.
startActor(a) ==
  /\ \/ ManagerFree /\ app /\ (InLaunchMap(a) => a \notin managed)
     \/ depm.st = "restart" /\ depm.who = a
  /\ used.start < MaxStart
  /\ used' = [used EXCEPT !.start = @ + 1]
  /\ proc' = [proc EXCEPT ![a] = "up"]
  /\ managed' = managed \cup {a}
  /\ mon' = [m \in Monitor |-> IF m \in Of(a) THEN Begun(mon[m]) ELSE mon[m]]
  /\ listed' = addProc(a)
  /\ depm' = ManagerIdle
  /\ UNCHANGED <<efd, reached>> /\ DepmRest

\* handleActorReg(): waits until the monitor threads of the actor have their ports.  Whom
\* the resource manager does not know gets no answer, and changes nothing here.
handleActorReg(a) ==
  /\ ManagerFree /\ proc[a] = "up" /\ a \in managed
  /\ depm' = [ManagerIdle EXCEPT !.st = "register", !.who = a]
  /\ UNCHANGED <<proc, managed, mon, efd, listed, reached, used>> /\ DepmRest

\* The shared monitors have theirs since the node started.
AddDevice(a) == [s \in Shared |-> IF a \in Uses(s) THEN reached[s] \cup {a} ELSE reached[s]]

addClientDevice ==
  LET a == depm.who IN
  /\ depm.st = "register"
  /\ \A m \in Of(a) : mon[m].alive
  /\ reached' = AddDevice(a)
  /\ proc' = [proc EXCEPT ![a] = IF @ = "up" THEN "registered" ELSE @]
  /\ depm' = ManagerIdle
  /\ UNCHANGED <<managed, mon, efd, listed, used>> /\ DepmRest

\* stopActor(), stopDevice(): because of a command or a request, or because the process
\* monitor has reported the end of the process (handleProcmon()).
Reasons(a) == {"halt"} \cup (IF proc[a] = "dead" THEN {"dead"} ELSE {})

stopActor(a) ==
  /\ ManagerFree /\ InLaunchMap(a) /\ a \in managed
  /\ \E why \in Reasons(a) : depm' = [st |-> "stop", who |-> a, why |-> why, todo |-> Of(a)]
  /\ UNCHANGED <<proc, managed, mon, efd, listed, reached, used>> /\ DepmRest

\* Who is not known is out of launchMap when resm.stopActor() raises an exception: what
\* is left is not done, and in handleProcmon() the thread ends.
StopUnknown(a) ==
  /\ ManagerFree /\ InLaunchMap(a) /\ a \notin managed
  /\ proc' = [proc EXCEPT ![a] = "none"]
  /\ \E why \in Reasons(a) :
       depm' = IF why = "halt" THEN ManagerIdle ELSE [ManagerIdle EXCEPT !.st = "failed"]
  /\ UNCHANGED <<managed, mon, efd, listed, reached, used>> /\ DepmRest

\* The CPU monitor is stopped first, then the memory monitor.
Turn(m) == m \in depm.todo /\ (m[2] = "mem" => <<m[1], "cpu">> \notin depm.todo)

StopMonitor(m) ==
  /\ depm.st = "stop" /\ Turn(m)
  /\ mon' = [mon EXCEPT ![m] = stop(@)]
  /\ efd' = Raised(m)
  /\ depm' = [depm EXCEPT !.st = "stopping"]
  /\ UNCHANGED <<proc, managed, listed, reached, used>> /\ DepmRest

MonitorStopped(m) ==
  /\ depm.st = "stopping" /\ Turn(m)
  /\ mon[m].stopped
  /\ depm' = [depm EXCEPT !.st = "stop", !.todo = @ \ {m}]
  /\ UNCHANGED <<proc, managed, mon, efd, listed, reached, used>> /\ DepmRest

\* delProc() raises a KeyError for an actor that has no device: the space monitor has
\* dropped its name by then, and what is left of stopActor() is not done.  In
\* handleProcmon() it ends the thread.
Unknown(s, a) == a \in Uses(s) /\ a \notin reached[s]

\* Mutant: the name stays.
delProcKept(a) == listed
delProc(a) == IF a \in Uses("spc") THEN [listed EXCEPT ![a] = @ - 1] ELSE listed

Released ==
  LET a == depm.who  raised == Unknown("spc", a) \/ Unknown("net", a) IN
  /\ depm.st = "stop" /\ depm.todo = {}
  /\ listed' = delProc(a)
  /\ reached' = [s \in Shared |-> IF s = "net" /\ Unknown("spc", a)
                                    THEN reached[s] ELSE reached[s] \ {a}]
  /\ proc' = [proc EXCEPT ![a] = "none"]
  /\ depm' = CASE depm.why = "halt" -> ManagerIdle
               [] raised            -> [ManagerIdle EXCEPT !.st = "failed"]
               [] OTHER             -> [ManagerIdle EXCEPT !.st = "restart", !.who = a]
  /\ UNCHANGED <<managed, mon, efd, used>> /\ DepmRest

\* is_running(): the thread has come to life.  Mutant: every monitor is taken to have.
RunningAll == Monitor
is_running == {m \in Monitor : mon[m].alive}

\* cleanupApp() does not ask whether actors or devices are still launched: monitors that
\* have come to life are terminated and joined, one after the other, at work or not.
cleanupApp ==
  /\ ManagerFree /\ app
  /\ used.cleanup < MaxCleanup
  /\ used' = [used EXCEPT !.cleanup = @ + 1]
  /\ depm' = [ManagerIdle EXCEPT !.st = "clean", !.todo = is_running]
  /\ UNCHANGED <<proc, managed, mon, efd, listed, reached>> /\ DepmRest

TerminateMonitor(m) ==
  /\ depm.st = "clean" /\ m \in depm.todo
  /\ mon' = [mon EXCEPT ![m] = terminate(@)]
  /\ efd' = Raised(m)
  /\ depm' = [depm EXCEPT !.st = "joining", !.todo = @ \ {m}, !.who = m[1], !.why = m[2]]
  /\ UNCHANGED <<proc, managed, listed, reached, used>> /\ DepmRest

MonitorJoined ==
  /\ depm.st = "joining"
  /\ mon[<<depm.who, depm.why>>].pc \in {"ended", "failed"}
  /\ depm' = [ManagerIdle EXCEPT !.st = "clean", !.todo = depm.todo]
  /\ UNCHANGED <<proc, managed, mon, efd, listed, reached, used>> /\ DepmRest

\* Then the actors are forgotten, with their monitors.  The space monitor is not told:
\* it keeps the names of those that were launched.
InUse == {a \in managed : InLaunchMap(a)}

CleanedUp ==
  /\ depm.st = "clean" /\ depm.todo = {}
  /\ depm' = ManagerIdle /\ app' = FALSE /\ managed' = {}
  /\ mon' = [m \in Monitor |-> New] /\ efd' = [m \in Monitor |-> FALSE]
  /\ left' = [a \in Actor |-> IF a \in InUse \cap Uses("spc") THEN left[a] + 1 ELSE left[a]]
  /\ UNCHANGED <<proc, listed, reached, spcRuns, used>>

setupApp ==
  /\ ManagerFree /\ ~app
  /\ app' = TRUE
  /\ UNCHANGED <<proc, depm, managed, mon, efd, listed, left, reached, spcRuns, used>>

--------------------------------------------------------------------------------
(* The monitor threads *)

\* The process of an actor dies, and the process monitor has taken its exit status: the
\* process is gone.
Die(a) ==
  /\ ActorUp(a)
  /\ proc' = [proc EXCEPT ![a] = "dead"]
  /\ UNCHANGED <<depm, app, managed, mon, efd, listed, left, reached, spcRuns, used>>

To(m, pc) == mon' = [mon EXCEPT ![m].pc = pc]

\* run(): the port is bound, alive is set, and the CPU monitor takes a first sample.
Boot(m) ==
  /\ mon[m].pc = "boot"
  /\ mon' = [mon EXCEPT ![m].alive = TRUE, ![m].pc = IF m[2] = "cpu" THEN "first" ELSE "loop"]
  /\ efd' = efd

\* The head of the loop.
Pause(m) ==
  /\ mon[m].pc = "loop" /\ ~mon[m].running
  /\ mon' = [mon EXCEPT ![m].stopped = TRUE, ![m].pc = "paused"]
  /\ efd' = efd

GoOn(m) ==
  /\ \/ mon[m].pc = "woken"
     \/ mon[m].pc = "loop" /\ mon[m].running
  /\ To(m, IF mon[m].terminated THEN "ended" ELSE "watch")
  /\ efd' = efd

\* cpu_percent() of a process that is gone raises NoSuchProcess, which ends the thread.
\* A thread that has found its limit exceeded rests for a second.
Sample(m) ==
  /\ m[2] = "cpu" /\ mon[m].pc \in {"first", "watch"}
  /\ \E pc \in IF ~ActorUp(m[1]) THEN {"failed"}
               ELSE IF mon[m].pc = "first" THEN {"loop"}
               ELSE IF mon[m].terminated THEN {"ended"}
               ELSE {"loop", "rest"} :
       To(m, pc)
  /\ efd' = efd

\* The read of the event counter: the thread is woken, or its limit is exceeded.
ReadEvent(m) ==
  /\ m[2] = "mem" /\ mon[m].pc = "watch"
  /\ efd[m] \/ ActorUp(m[1])
  /\ efd' = [efd EXCEPT ![m] = FALSE]
  /\ To(m, IF mon[m].terminated THEN "ended" ELSE IF mon[m].running THEN "rest" ELSE "loop")

Rested(m) ==
  /\ mon[m].pc = "rest"
  /\ To(m, IF mon[m].terminated THEN "ended" ELSE "loop")
  /\ efd' = efd

MonitorStep(m) ==
  /\ Boot(m) \/ Pause(m) \/ GoOn(m) \/ Sample(m) \/ ReadEvent(m) \/ Rested(m)
  /\ UNCHANGED <<proc, depm, app, managed, listed, left, reached, spcRuns, used>>

\* SpcMonitorThread.run(): the quota of the user of the application is exceeded.  It
\* looks for the device of every actor it watches, and ends if there is none.
Listed == {a \in Actor : listed[a] > 0}

QuotaExceeded ==
  /\ spcRuns /\ Listed # {}
  /\ spcRuns' = (Listed \subseteq reached["spc"])
  /\ UNCHANGED <<proc, depm, app, managed, mon, efd, listed, left, reached, used>>

--------------------------------------------------------------------------------
ManagerStep == \E a \in Actor : startActor(a) \/ handleActorReg(a) \/ stopActor(a) \/ StopUnknown(a)

\* What the deployment manager does when it has begun something.
Proceed ==
  \/ depm.st = "restart" /\ \E a \in Actor : startActor(a)
  \/ \E m \in Monitor : StopMonitor(m) \/ MonitorStopped(m) \/ TerminateMonitor(m)
  \/ addClientDevice \/ Released \/ MonitorJoined \/ CleanedUp

ResourcesNext ==
  \/ ManagerStep \/ Proceed \/ cleanupApp \/ setupApp \/ QuotaExceeded
  \/ \E a \in Actor : Die(a)
  \/ \E m \in Monitor : MonitorStep(m)

ResourcesSpec == ResourcesInit /\ [][ResourcesNext]_resourcesVars

\* The threads are scheduled: one that can go on does.  Nothing else must happen: no
\* command has to come, no process to die, no limit to be exceeded.
Woken(m) == MonitorStep(m) /\ (mon[m].pc = "watch" /\ m[2] = "mem" => efd[m])

ResourcesFairSpec ==
  ResourcesSpec /\ WF_resourcesVars(Proceed) /\ \A m \in Monitor : WF_resourcesVars(Woken(m))

--------------------------------------------------------------------------------
(* Properties *)

DepmState ==
  [st : {"idle", "register", "stop", "stopping", "clean", "joining", "restart", "failed"},
   who : Actor \cup {""}, why : {"", "halt", "dead"} \cup Thread, todo : SUBSET Monitor]
MonitorState ==
  [pc : {"new", "boot", "first", "loop", "paused", "woken", "watch", "rest", "ended", "failed"},
   running : BOOLEAN, stopped : BOOLEAN, terminated : BOOLEAN, alive : BOOLEAN]

\* Types, and what the manager waits for is there: a monitor of the actor that it stops,
\* and a thread that was started, for no other can be joined.
ResourcesTypeOK ==
  /\ proc \in [Actor -> {"none", "up", "registered", "dead"}]
  /\ depm \in DepmState
  /\ depm.st = "stopping" => depm.todo # {} /\ \A m \in depm.todo : m[1] = depm.who
  /\ depm.st = "joining" => \E m \in Monitor \ depm.todo : m = <<depm.who, depm.why>> /\ mon[m].alive
  /\ app \in BOOLEAN /\ spcRuns \in BOOLEAN /\ managed \subseteq Actor
  /\ mon \in [Monitor -> MonitorState]
  /\ efd \in [Monitor -> BOOLEAN]
  /\ listed \in [Actor -> Nat] /\ left \in [Actor -> Nat]
  /\ reached \in [Shared -> SUBSET Actor]
  /\ used \in [start : 0 .. MaxStart, cleanup : 0 .. MaxCleanup]

\* A monitor watches a process that is launched, and has ended only with it; it rests
\* (and touches no process) when there is none.
Follows(m) ==
  IF m[1] \in InUse
    THEN /\ mon[m].pc \notin {"new", "ended"} /\ mon[m].running /\ ~mon[m].stopped
         /\ mon[m].pc = "failed" => m[2] = "cpu" /\ proc[m[1]] = "dead"
    ELSE mon[m].pc \in {"new", "paused"}

\* The space monitor has the names of the actors that are launched, each once, and the
\* names that a cleanup has left to it.
SpaceFollows ==
  \A a \in Uses("spc") : listed[a] = left[a] + IF a \in InUse THEN 1 ELSE 0

\* When the manager is done, every monitor follows its actor, also after several stops,
\* restarts and cleanups, with the actor launched or not (resm.py: startActor(),
\* stopActor(), cleanupActor()), and so does the space monitor (spcmon.py: addProc(),
\* delProc()), but for what cleanupApp() leaves to it.
MonitorsFollow == ManagerFree => SpaceFollows /\ \A m \in Monitor : Follows(m)

\* Why it holds.  The events of a thread agree with where it is ...
EventsAgree(t) ==
  /\ t.stopped <=> t.pc = "paused"
  /\ t.stopped => ~t.running
  /\ t.alive <=> t.pc \notin {"new", "boot"}
  /\ t.pc = "new" => t.running
  /\ t.pc = "ended" => t.terminated

\* ... and the manager is at one monitor of one actor at a time: while an actor is
\* stopped, those it is done with are paused, and all others follow their actors; no
\* thread is told to terminate but in a cleanup.
Stops(a) == depm.st \in {"stop", "stopping"} /\ depm.who = a
StopGoesOn ==
  depm.st \in {"stop", "stopping"} =>
    /\ depm.who \in InUse
    /\ depm.why \in {"halt", "dead"} /\ depm.todo \subseteq Of(depm.who)
    /\ \A m \in Of(depm.who) :
         IF m \in depm.todo THEN mon[m].pc # "new" ELSE mon[m].pc = "paused"
CleanGoesOn ==
  IF depm.st \in {"clean", "joining"}
    THEN \A m \in depm.todo : mon[m].alive
    ELSE \A m \in Monitor : ~mon[m].terminated

FollowInv ==
  /\ ResourcesTypeOK
  /\ SpaceFollows
  /\ \A m \in Monitor : EventsAgree(mon[m])
  /\ depm.st \notin {"clean", "joining"} =>
       \A m \in Monitor : Stops(m[1]) \/ Follows(m)
  /\ depm.st \in {"register", "restart"} => depm.who \in Actor
  /\ depm.st = "restart" => depm.who \in managed /\ ~InLaunchMap(depm.who)
  /\ StopGoesOn
  /\ CleanGoesOn

\* The manager does not wait forever for its monitors (stop(), terminate() and join(),
\* addClientDevice()), whether they are starting, watching, resting or paused when they
\* are asked.  What it waits for in vain is only a CPU monitor that has ended with its
\* process and has to be stopped.
InVain == depm.st = "stopping" /\ \E m \in Monitor : Turn(m) /\ mon[m].pc = "failed"

WaitsEnd ==
  ~ManagerFree ~>
    \/ ManagerFree \/ depm.st = "failed" \/ InVain
    \/ depm.st = "restart" /\ used.start = MaxStart

\* "Handle messages from process monitor: restart disco/actor/device" (depm.py:1553):
\* the monitor that the manager waits for can answer.
StopAnswered ==
  \A m \in Monitor : depm.st = "stopping" /\ Turn(m) => mon[m].pc # "failed"

================================================================================
