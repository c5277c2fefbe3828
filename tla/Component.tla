------------------------------- MODULE Component -------------------------------
(***************************************************************************)
(* A RIAPS component: the thread that runs its handlers under one of three *)
(* schedulers (src/src/riaps/run/comp.py), its timers (module Timer), and  *)
(* the part that its actor controls it by (src/src/riaps/run/part.py).     *)
(*                                                                         *)
(* Abstractions.  Messages are counted, not told apart.  The component's   *)
(* code is any: a handler receives the message it is called for and then   *)
(* does at most one thing to a timer, a port or a group.  The reports to   *)
(* the actor (exceptions, missed deadlines) are left out: they change      *)
(* nothing in the thread.                                                  *)
(*                                                                         *)
(* An operator just before another one with the same parameters is a       *)
(* mistake that could have been made there.                                *)
(***************************************************************************)
EXTENDS Timer

CONSTANTS
  Port,        \* input ports other than timers
  Group,       \* groups the component may join
  Prio,        \* sock2PrioMap: index of each port, priority of each group
  Model,       \* component types: the scheduler and the inputs each asks for
  MaxInbox,    \* bound: messages, and ticks, waiting in a socket
  MaxGen,      \* bound: sockets that an input has one after another
  MaxLaunch,   \* bound: launches of each sporadic timer
  MaxNotice,   \* bound: notices sent to the component
  MaxCmd,      \* bound: commands waiting for a timer when the code sends one
  MaxTask      \* bound: tasks that wait while more are scheduled

Input == Port \cup Group \cup Timer

ASSUME ComponentAssumption ==
  /\ IsFiniteSet(Input)
  /\ Prio \in [Input -> Nat]
  /\ Model \subseteq [scheduler: {"default", "priority", "rr"}, inputs: SUBSET Input]
  /\ {MaxInbox, MaxGen, MaxLaunch, MaxNotice, MaxCmd, MaxTask} \subseteq Nat

VARIABLES
  type,      \* type of this component
  part,      \* state of the part, as its actor drives it
  control,   \* commands on their way to the component thread
  phase,     \* where the component thread is
  cur,       \* socket whose handler runs, or NoTask
  tasks,     \* sockets waiting for their handlers (the batch, pq or dq)
  last,      \* rr: tag that new tasks are compared with
  socket,    \* [open, gen]: is the input polled, and with which socket
  unread,     \* messages waiting in the socket of each port or group
  credit,    \* launches of each timer less the ticks of it that were handled
  spent      \* notices sent so far

threadVars == <<phase, cur, tasks, last>>
vars == <<type, part, control, threadVars, socket, unread, credit, spent, timerVars>>

Task == [input: Input, gen: Nat]
NoTask == [input |-> "none", gen |-> 0]
PartState ==
  {"Initial", "Building", "Ready", "Active", "Inactive", "Killing", "Joining", "Terminated"}
Phase == {"build", "poll", "task", "handler", "body", "inner", "stopped", "died"}
Order == {"build", "activate", "deactivate", "kill", "notice"}

scheduler == type.scheduler
Has(S) == S \cap type.inputs

Waiting(i) == IF i \in Timer THEN ticks[i] ELSE unread[i]
Readable == {i \in Input : socket[i].open /\ Waiting(i) > 0}
TaskOf(i) == [input |-> i, gen |-> socket[i].gen]
Bound(task) == socket[task.input].open /\ socket[task.input].gen = task.gen
Stopped == phase \in {"stopped", "died"}

Init ==
  /\ TimerInit
  /\ type \in Model
  /\ \A t \in Timer \ type.inputs : ~tm[t].periodic
  /\ part = "Initial" /\ control = <<>>
  /\ phase = "build" /\ cur = NoTask /\ tasks = <<>> /\ last = -1
  /\ socket = [i \in Input |-> [open |-> FALSE, gen |-> 0]]
  /\ unread = [i \in Port \cup Group |-> 0]
  /\ credit = [t \in Timer |-> 0]
  /\ spent = 0

--------------------------------------------------------------------------------
(* Sockets: setupPoller(), replaceSocket(), addGroupSocket(), delGroupSocket() *)

\* replaceSocket() that leaves the old socket among those to be handled.
replaceSocketKept(i) ==
  /\ i \in Port /\ unread[i] > 0
  /\ unread' = [unread EXCEPT ![i] = 0]
  /\ UNCHANGED socket

\* Another socket takes the place of that of i, which loses what waited in it.
replaceSocket(i) ==
  /\ i \in Port /\ socket[i].gen < MaxGen
  /\ socket' = [socket EXCEPT ![i].gen = @ + 1]
  /\ unread' = [unread EXCEPT ![i] = 0]

addGroupSocket(g) ==
  /\ ~socket[g].open /\ socket[g].gen < MaxGen
  /\ socket' = [socket EXCEPT ![g] = [open |-> TRUE, gen |-> @.gen + 1]]
  /\ UNCHANGED unread

delGroupSocket(g) ==
  /\ socket[g].open
  /\ socket' = [socket EXCEPT ![g].open = FALSE]
  /\ unread' = [unread EXCEPT ![g] = 0]

\* setupSockets() and setupPoller(), on the first message from the part.
Build ==
  /\ phase = "build" /\ control # <<>> /\ Head(control) = "build"
  /\ control' = Tail(control)
  /\ phase' = "poll"
  /\ socket' = [i \in Input |-> [open |-> i \in Has(Port \cup Timer), gen |-> 0]]
  /\ UNCHANGED <<type, part, cur, tasks, last, unread, credit, spent, timerVars>>

--------------------------------------------------------------------------------
(* Schedulers *)

Orders(S) == {s \in [1..Cardinality(S) -> S] : {s[n] : n \in DOMAIN s} = S}
Sorted(S) ==
  CHOOSE s \in Orders(S) : \A m, n \in DOMAIN s : m < n => Prio[s[m]] <= Prio[s[n]]

TasksOf(s) == [n \in DOMAIN s |-> TaskOf(s[n])]
Tag(task) == Prio[task.input]

\* rrScheduler(): the slices jobs[-first:] and jobs[0:first].
Turned(jobs) ==
  LET larger == {n \in DOMAIN jobs : Tag(jobs[n]) > last}
      first == (CHOOSE n \in larger : \A m \in larger : n <= m) - 1
  IN IF tasks = <<>> \/ Len(jobs) = 1 \/ larger = {} \/ first = 0 THEN jobs
     ELSE SubSeq(jobs, Len(jobs) - first + 1, Len(jobs)) \o SubSeq(jobs, 1, first)

\* The sockets in S, just polled, become tasks.  The dictionary that poll()
\* returns lists them in no certain order, which the batch follows.
schedule(S) ==
  /\ UNCHANGED cur
  /\ \/ S = {} /\ UNCHANGED <<tasks, last>>
     \/ /\ S # {} /\ scheduler # "rr"
        /\ \E s \in Orders(S) : tasks' = tasks \o TasksOf(s)
        /\ UNCHANGED last
     \/ /\ S # {} /\ scheduler = "rr"
        /\ LET jobs == TasksOf(Sorted(S)) IN
           /\ tasks' = tasks \o Turned(jobs)
           /\ last' = IF Len(jobs) # 1 /\ tasks = <<>> THEN Tag(jobs[Len(jobs)]) ELSE last

\* The next task: the first, or with priorities the first of the best priority.
NextTask ==
  IF scheduler # "priority" THEN 1
  ELSE CHOOSE n \in DOMAIN tasks : \A m \in DOMAIN tasks :
         Tag(tasks[n]) < Tag(tasks[m]) \/ (Tag(tasks[n]) = Tag(tasks[m]) /\ n <= m)

RemoveTask(s, n) == SubSeq(s, 1, n - 1) \o SubSeq(s, n + 1, Len(s))

\* Where the thread goes after a task, with rest still to do.
Onward(rest) ==
  IF rest = <<>> THEN "poll" ELSE IF scheduler = "default" THEN "task" ELSE "inner"

\* The batch is done with after one task, as if polled anew.
StartTaskOnce(n) ==
  LET rest == <<>> IN
  /\ tasks' = rest
  /\ UNCHANGED last
  /\ IF Bound(tasks[n]) THEN phase' = "handler" /\ cur' = tasks[n]
                        ELSE phase' = Onward(rest) /\ cur' = NoTask

\* executeHandlerFor() of the n-th task; a socket that is not known any more has
\* no handler ('Unbound port').
StartTask(n) ==
  LET rest == RemoveTask(tasks, n) IN
  /\ tasks' = rest
  /\ last' = IF scheduler # "rr" THEN last
             ELSE IF rest = <<>> THEN Tag(tasks[n]) ELSE Tag(rest[Len(rest)])
  /\ IF Bound(tasks[n]) THEN phase' = "handler" /\ cur' = tasks[n]
                        ELSE phase' = Onward(rest) /\ cur' = NoTask

RunTask ==
  /\ phase = "task"
  /\ StartTask(NextTask)
  /\ UNCHANGED <<type, part, control, socket, unread, credit, spent, timerVars>>

--------------------------------------------------------------------------------
(* What the component's code may do besides receiving its message *)

SetTimer(t) ==
  /\ \/ /\ Len(cmds[t]) < MaxCmd
        /\ IF tm[t].periodic
             THEN launch(t) /\ UNCHANGED credit
             ELSE /\ credit[t] < MaxLaunch /\ launch(t)
                  /\ credit' = [credit EXCEPT ![t] = @ + 1]
     \/ /\ Len(cmds[t]) < MaxCmd
        /\ cancel(t) \/ halt(t)
        /\ UNCHANGED credit
     \/ setLength(t) /\ UNCHANGED credit
  /\ UNCHANGED <<socket, unread>>

ChangeSocket(i) ==
  /\ replaceSocket(i) \/ (i \in Group /\ (addGroupSocket(i) \/ delGroupSocket(i)))
  /\ UNCHANGED <<credit, timerVars>>

NoOp == UNCHANGED <<socket, unread, credit, timerVars>>

\* The handler receives its message, and waits for one if there is none.
Receive ==
  /\ phase = "handler" /\ Waiting(cur.input) > 0
  /\ phase' = "body"
  /\ IF cur.input \in Timer
       THEN /\ ticks' = [ticks EXCEPT ![cur.input] = @ - 1]
            /\ credit' = IF tm[cur.input].periodic THEN credit
                         ELSE [credit EXCEPT ![cur.input] = @ - 1]
            /\ UNCHANGED unread
       ELSE /\ unread' = [unread EXCEPT ![cur.input] = @ - 1]
            /\ UNCHANGED <<ticks, credit>>
  /\ UNCHANGED <<type, part, control, cur, tasks, last, socket, spent, cmds, tm>>

\* The rest of the handler, which ends normally or by an exception.
HandlerBody ==
  /\ phase = "body"
  /\ \/ \E t \in Has(Timer) : SetTimer(t)
     \/ \E i \in Has(Port \cup Group) : ChangeSocket(i)
     \/ NoOp
  /\ phase' = Onward(tasks)
  /\ cur' = NoTask
  /\ UNCHANGED <<type, part, control, tasks, last, spent>>

--------------------------------------------------------------------------------
(* run() and runCommand() *)

\* A command other than kill is carried out; then S is scheduled.
Obedient(order, S, then) ==
  /\ phase' = then
  /\ schedule(S)
  /\ \/ /\ order = "activate"
        /\ activate(Has(Timer))
        /\ UNCHANGED ticks /\ UNCHANGED tm
        /\ \/ \E g \in Has(Group) : addGroupSocket(g)
           \/ UNCHANGED <<socket, unread>>
     \/ /\ order = "deactivate"
        /\ deactivate(Has(Timer))
        /\ UNCHANGED <<socket, unread, ticks, tm>>
     \/ order = "notice" /\ UNCHANGED <<socket, unread, timerVars>>

\* An exception in the component's handler of a command ends the thread: nothing
\* catches it.
Dies(order) ==
  /\ phase' = "died"
  /\ \/ order \in {"notice", "deactivate"} /\ UNCHANGED timerVars
     \/ order = "activate" /\ activate(Has(Timer)) /\ UNCHANGED <<ticks, tm>>
  /\ UNCHANGED <<cur, tasks, last, socket, unread>>

Killed(order) ==
  /\ order = "kill"
  /\ phase' = "stopped"
  /\ UNCHANGED <<cur, tasks, last, socket, unread, timerVars>>

runCommandDeaf(S, then) ==
  /\ control' = Tail(control)
  /\ \/ Obedient(Head(control), S, then)
     \/ Dies(Head(control))
     \/ Head(control) = "kill" /\ Obedient("notice", S, then)
runCommand(S, then) ==
  /\ control' = Tail(control)
  /\ Obedient(Head(control), S, then) \/ Dies(Head(control)) \/ Killed(Head(control))

\* The outer loop of run().
Poll ==
  /\ phase = "poll"
  /\ LET S == Readable
         then == IF S = {} THEN "poll" ELSE "task"
     IN \/ control # <<>> /\ runCommand(S, then)
        \/ /\ control = <<>> /\ S # {}
           /\ phase' = then /\ schedule(S)
           /\ UNCHANGED <<control, socket, unread, timerVars>>
  /\ UNCHANGED <<type, part, credit, spent>>

\* poll(None) between two tasks.  rrScheduler() takes up what came in only when
\* a command came in with it.
InnerPoll ==
  /\ phase = "inner" /\ Len(tasks) <= MaxTask
  /\ \/ control # <<>> /\ runCommand(Readable, "task")
     \/ /\ control = <<>> /\ Readable # {}
        /\ phase' = "task"
        /\ schedule(IF scheduler = "rr" THEN {} ELSE Readable)
        /\ UNCHANGED <<control, socket, unread, timerVars>>
  /\ UNCHANGED <<type, part, credit, spent>>

--------------------------------------------------------------------------------
(* The part: called by the actor's own thread *)

Drives(from, to) == part = from /\ part' = to
Command1(order) == control' = Append(control, order)

Setup == Drives("Initial", "Building") /\ Command1("build") /\ UNCHANGED spent
Built == Drives("Building", "Ready") /\ phase # "build" /\ UNCHANGED <<control, spent>>
Activate == Drives("Ready", "Active") /\ Command1("activate") /\ UNCHANGED spent
Notify ==
  /\ part \in {"Ready", "Active"} /\ spent < MaxNotice
  /\ Command1("notice") /\ spent' = spent + 1
  /\ UNCHANGED part
Deactivate == Drives("Active", "Inactive") /\ Command1("deactivate") /\ UNCHANGED spent
Terminate == Drives("Inactive", "Killing") /\ Command1("kill") /\ UNCHANGED spent
Joined == Drives("Killing", "Joining") /\ Stopped /\ UNCHANGED <<control, spent>>
AllJoined ==
  /\ Drives("Joining", "Terminated")
  /\ \A t \in Has(Timer) : ~tm[t].alive
  /\ UNCHANGED <<control, spent>>

Part ==
  /\ Setup \/ Built \/ Activate \/ Notify \/ Deactivate \/ Terminate \/ Joined \/ AllJoined
  /\ UNCHANGED <<type, threadVars, socket, unread, credit, timerVars>>

\* terminate() of one timer port after the other: each thread is joined.
EndTimer(t) ==
  /\ part = "Joining" /\ t \in Has(Timer)
  /\ \A u \in Timer : tm[u].alive => \A n \in DOMAIN cmds[u] : cmds[u][n] # "TERMINATE"
  /\ tm[t].alive
  /\ terminate(t)
  /\ UNCHANGED <<type, part, control, threadVars, socket, unread, credit, spent>>

--------------------------------------------------------------------------------
(* The world *)

Arrive(i) ==
  /\ socket[i].open /\ unread[i] < MaxInbox
  /\ unread' = [unread EXCEPT ![i] = @ + 1]
  /\ UNCHANGED <<type, part, control, threadVars, socket, credit, spent, timerVars>>

Commanded(t) ==
  /\ Obey(t)
  /\ UNCHANGED <<type, part, control, threadVars, socket, unread, credit, spent>>

Timeout(t) ==
  /\ Expire(t) /\ ticks'[t] <= MaxInbox
  /\ UNCHANGED <<type, part, control, threadVars, socket, unread, credit, spent>>

Clock(t) ==
  /\ Elapse(t)
  /\ UNCHANGED <<type, part, control, threadVars, socket, unread, credit, spent>>

Thread == Build \/ Poll \/ InnerPoll \/ RunTask \/ Receive \/ HandlerBody
Actor == Part \/ \E t \in Timer : EndTimer(t)

Next ==
  \/ Thread
  \/ Actor
  \/ \E t \in Timer : Commanded(t) \/ Timeout(t) \/ Clock(t)
  \/ \E i \in Port \cup Group : Arrive(i)

Spec == Init /\ [][Next]_vars

\* Threads run on, time passes, and an actor that has begun to end its parts goes on.
Fairness ==
  /\ WF_vars(Thread)
  /\ WF_vars(part = "Killing" /\ Part)
  /\ WF_vars(part = "Joining" /\ Actor)
  /\ \A t \in Timer : WF_vars(Commanded(t)) /\ WF_vars(Timeout(t)) /\ WF_vars(Clock(t))

FairSpec == Spec /\ Fairness

--------------------------------------------------------------------------------
TypeOK ==
  /\ TimerTypeOK
  /\ type \in Model
  /\ part \in PartState
  /\ control \in Seq(Order)
  /\ phase \in Phase
  /\ cur \in Task \cup {NoTask}
  /\ tasks \in Seq(Task)
  /\ last \in Int
  /\ socket \in [Input -> [open: BOOLEAN, gen: Nat]]
  /\ unread \in [Port \cup Group -> Nat]
  /\ credit \in [Timer -> Int]
  /\ spent \in Nat

\* Types; and under the default scheduler a handler is never called for a port without
\* a message, where it would wait and keep all the others waiting: although other
\* handlers run between poll() and this one, and may replace its socket
\* (batchScheduler, executeHandlerFor, replaceSocket).
NoBlindHandler ==
  /\ TypeOK
  /\ scheduler = "default" /\ phase = "handler" => Waiting(cur.input) > 0

\* A one-shot timer never ticks more often than it was launched, whatever is
\* launched, cancelled, halted and activated while its thread runs
\* (TimerThread.run).
Starts(s) == {n \in DOMAIN s : s[n] = "START"}
OneShotOnce ==
  \A t \in Timer : ~tm[t].periodic =>
    ticks[t] + Cardinality(Starts(cmds[t])) + (IF tm[t].running THEN 1 ELSE 0) <= credit[t]

\* The inductive invariant of the two properties above.  What is scheduled is there:
\* tasks are left wherever the thread is to go on with one.
TasksThere ==
  /\ phase = "build" => tasks = <<>>
  /\ phase \in {"task", "inner"} => tasks # <<>>
  /\ phase \in {"handler", "body"} => cur \in Task

\* The batch of the default scheduler has each input once, and for one whose socket is
\* still the one polled there is a message; a new socket has a number of its own.
BatchFresh ==
  scheduler = "default" =>
    /\ phase # "inner"
    /\ phase = "poll" => tasks = <<>>
    /\ phase = "handler" => Waiting(cur.input) > 0
    /\ \A n \in DOMAIN tasks :
         /\ tasks[n].gen <= socket[tasks[n].input].gen
         /\ Bound(tasks[n]) => Waiting(tasks[n].input) > 0
         /\ phase = "handler" => tasks[n].input # cur.input
         /\ \A k \in DOMAIN tasks : k # n => tasks[k].input # tasks[n].input

IInv ==
  /\ NoBlindHandler
  /\ OneShotOnce
  /\ TasksThere
  /\ BatchFresh

\* Under the default scheduler a message that waits is received, however many
\* come in at other ports, or its socket is closed, or the thread is at its end.
Served ==
  \A i \in Input :
    (scheduler = "default" /\ i \in Readable /\ phase # "build")
      ~> (Stopped \/ i \notin Readable \/ (phase = "body" /\ cur.input = i))

\* terminate() of a part comes to its end: the component thread sees the kill
\* and the timers are joined.
Ends == (scheduler = "default" /\ part = "Killing") ~> (part = "Terminated")

\* Between two tasks the thread looks for input and goes on: "the inputs are
\* polled (in a no-wait operation)" (rrScheduler, priorityScheduler).
PolledNoWait == phase = "inner" => Readable # {} \/ control # <<>>
================================================================================
