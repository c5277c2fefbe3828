--------------------------------- MODULE Timer ---------------------------------
(***************************************************************************)
(* Timer ports of a RIAPS component (src/src/riaps/run/timPort.py).  Each  *)
(* port has a thread of its own, a TimerThread, that reads commands from   *)
(* the port and sends it ticks, both over one PAIR socket.                 *)
(*                                                                         *)
(* Time is counted in units for each timer by itself.  As in the code, the *)
(* wait of poll() is a number, and a negative one (None too) has no end.   *)
(*                                                                         *)
(* An operator just before another one with the same parameters is a       *)
(* mistake that could have been made there.                                *)
(***************************************************************************)
EXTENDS Integers, Sequences, FiniteSets

CONSTANTS
  Timer,      \* timer ports of the component
  Periods     \* periods and delays in use

ASSUME TimerAssumption ==
  /\ Periods \subseteq Nat \ {0}
  /\ Periods # {}

VARIABLES
  cmds,     \* commands on their way to each timer thread
  ticks,    \* ticks on their way to each port
  tm        \* the attributes of each timer thread

timerVars == <<cmds, ticks, tm>>

Command == {"TERMINATE", "ACTIVATE", "DEACTIVATE", "START", "CANCEL", "HALT"}

Forever == -1
MaxPeriod == CHOOSE n \in Periods : \A k \in Periods : k <= n

\* periodic: the model gives the timer a period.  timeout is what poll() will be
\* asked to wait, left what remains of its wait, age the time since last (-1:
\* last is None), length the period or delay.
TimerState ==
  [alive: BOOLEAN, periodic: BOOLEAN, active: BOOLEAN, running: BOOLEAN,
   skip: BOOLEAN, timeout: Int, left: Int, age: Int, length: Periods]

TimerInit ==
  /\ cmds = [t \in Timer |-> <<>>]
  /\ ticks = [t \in Timer |-> 0]
  /\ \E lengths \in [Timer -> Periods], periodic \in SUBSET Timer :
       tm = [t \in Timer |->
              [alive |-> TRUE, periodic |-> t \in periodic, active |-> FALSE, running |-> FALSE,
               skip |-> FALSE, timeout |-> Forever, left |-> Forever,
               age |-> -1, length |-> lengths[t]]]

Send(t, command) == cmds' = [cmds EXCEPT ![t] = Append(@, command)]

--------------------------------------------------------------------------------
(* The timer thread: run() *)

\* The thread goes back to poll(), which waits for all of self.timeout.
Again(state) == [state EXCEPT !.left = state.timeout]

FiredAgain(state) == [state EXCEPT !.age = 0, !.skip = FALSE, !.timeout = state.length]
\* waitFor() has returned None.
Fired(state) ==
  [state EXCEPT
     !.age = 0,
     !.skip = IF state.running /\ state.periodic THEN FALSE ELSE @,
     !.running = @ /\ state.periodic,
     !.timeout = IF state.periodic THEN state.length ELSE Forever]

Sends(state) == state.running /\ ~(state.periodic /\ state.skip)

Expire(t) ==
  /\ tm[t].alive /\ tm[t].left = 0
  /\ UNCHANGED cmds
  /\ \/ /\ ~tm[t].active
        /\ tm' = [tm EXCEPT ![t] = Again([@ EXCEPT !.timeout = Forever])]
        /\ UNCHANGED ticks
     \/ /\ tm[t].active
        /\ tm' = [tm EXCEPT ![t] = Again(Fired(@))]
        /\ ticks' = IF Sends(tm[t]) THEN [ticks EXCEPT ![t] = @ + 1] ELSE ticks

\* The remaining time of the period is waited out and its tick is left out.
CancelPeriod(state) ==
  IF state.age = -1 THEN state
  ELSE [state EXCEPT !.timeout = state.length - state.age, !.skip = TRUE]

Start(state) ==
  IF state.active THEN [state EXCEPT !.timeout = state.length, !.running = TRUE]
  ELSE state

\* What a command does to the attributes of the thread.
Obeyed(command, state) ==
  CASE command = "TERMINATE"  -> [state EXCEPT !.alive = FALSE]
    [] command = "ACTIVATE"   -> [state EXCEPT !.active = TRUE, !.age = -1]
    [] command = "DEACTIVATE" -> [state EXCEPT !.active = FALSE, !.timeout = Forever,
                                               !.age = -1]
    [] command = "START"      -> Start(state)
    [] command = "CANCEL" /\ state.periodic -> CancelPeriod(state)
    [] OTHER                  -> [state EXCEPT !.timeout = Forever, !.running = FALSE]

Obey(t) ==
  /\ tm[t].alive /\ cmds[t] # <<>>
  /\ cmds' = [cmds EXCEPT ![t] = Tail(@)]
  /\ tm' = [tm EXCEPT ![t] = Again(Obeyed(Head(cmds[t]), @))]
  /\ UNCHANGED ticks

\* Time passes for t; an age beyond the longest period makes no difference.
Older(state) ==
  [state EXCEPT !.left = IF @ > 0 THEN @ - 1 ELSE @,
                !.age = IF 0 <= @ /\ @ <= MaxPeriod THEN @ + 1 ELSE @]
Elapse(t) ==
  /\ tm[t].alive /\ tm[t].left # 0
  /\ tm' = [tm EXCEPT ![t] = Older(@)]
  /\ tm' # tm
  /\ UNCHANGED <<cmds, ticks>>

--------------------------------------------------------------------------------
(* The port: operations called by the part and by the component's code *)

ActivateCommands(t) ==
  IF tm[t].periodic THEN <<"ACTIVATE", "START">> ELSE <<"ACTIVATE">>
activate(S) ==
  cmds' = [t \in Timer |-> IF t \in S THEN cmds[t] \o ActivateCommands(t) ELSE cmds[t]]
deactivate(S) ==
  cmds' = [t \in Timer |-> IF t \in S THEN Append(cmds[t], "DEACTIVATE") ELSE cmds[t]]
terminate(t) == Send(t, "TERMINATE") /\ UNCHANGED <<ticks, tm>>
launch(t) == Send(t, "START") /\ UNCHANGED <<ticks, tm>>
cancel(t) == Send(t, "CANCEL") /\ UNCHANGED <<ticks, tm>>
halt(t)   == Send(t, "HALT") /\ UNCHANGED <<ticks, tm>>

\* setPeriod() and setDelay() write the attribute of the running thread.
setLength(t) ==
  /\ \E length \in Periods \ {tm[t].length} : tm' = [tm EXCEPT ![t].length = length]
  /\ UNCHANGED <<cmds, ticks>>

TimerTypeOK ==
  /\ cmds \in [Timer -> Seq(Command)]
  /\ ticks \in [Timer -> Nat]
  /\ tm \in [Timer -> TimerState]
================================================================================
