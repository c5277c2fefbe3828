---------------------------- MODULE ComponentProofs ----------------------------
(***************************************************************************)
(* What holds of every component and of its message ports.  A component,   *)
(* whatever its inputs, their priorities, its type and the bounds: a       *)
(* one-shot timer does not tick more often than it was launched, and the   *)
(* default scheduler calls no handler for a port that has no message.  The *)
(* ports, whichever are run together and however often they send, are      *)
(* reset or die, and whatever identities they have: an answer comes in at  *)
(* a port with the identity of the one that asked, at a plug only if it    *)
(* asked itself, and the reply that a req or clt port returns is that to   *)
(* its last request.                                                       *)
(*                                                                         *)
(* The argument.  For the timers: a launch in the queue of a timer thread, *)
(* a thread that runs and a tick on its way to the port each take one of   *)
(* the launches that were not handled yet; a thread turns the first into   *)
(* the second and the second into the third, and makes none of them.  For  *)
(* the scheduler: the batch lists each input once, so a message is only    *)
(* taken by the task it was seen for; a socket that takes the place of     *)
(* another has a higher number, so that a task of the old one is not bound *)
(* any more.  For the ports: a correlating socket compares numbers; one    *)
(* that does not has at most one request under way, for it may only send   *)
(* when it waits for nothing, a server takes the request out of its queue  *)
(* before it replies once, and what was sent with a socket that was        *)
(* replaced carries the number of that socket.                             *)
(***************************************************************************)
EXTENDS Component, Ports, FiniteSetTheorems, SequenceTheorems, TLAPS

--------------------------------------------------------------------------------
(* Sequences and numbers *)

\* One or two elements at the end.
LEMMA ConcatIsAppend ==
  ASSUME NEW T, NEW s \in Seq(T), NEW x \in T, NEW y \in T
  PROVE  /\ s \o <<x>> = Append(s, x)
         /\ s \o <<x, y>> = Append(Append(s, x), y)
OBVIOUS

\* A set of numbers has a least one, so that a CHOOSE of it has a value.
LEMMA Least ==
  ASSUME NEW S \in SUBSET Nat, S # {}
  PROVE  \E n \in S : \A m \in S : n <= m
<1>1. PICK n \in S : \A m \in S : ~ (<<m, n>> \in OpToRel(<, Nat))
  BY NatLessThanWellFounded, WFMin
<1>2. \A m \in S : ~ (m < n)
  BY <1>1, Zenon DEF OpToRel
<1> QED
  BY <1>2

\* A sequence without its n-th element.
LEMMA RemoveType ==
  ASSUME NEW T, NEW s \in Seq(T), NEW n \in DOMAIN s
  PROVE  LET r == SubSeq(s, 1, n - 1) \o SubSeq(s, n + 1, Len(s))
         IN  /\ r \in Seq(T) /\ Len(r) = Len(s) - 1
             /\ \A i \in DOMAIN r :
                  IF i < n THEN i \in DOMAIN s /\ r[i] = s[i]
                           ELSE i + 1 \in DOMAIN s /\ r[i] = s[i + 1]
<1> DEFINE a == SubSeq(s, 1, n - 1)
           b == SubSeq(s, n + 1, Len(s))
<1>1. n \in 1 .. Len(s) /\ Len(s) \in Nat
  OBVIOUS
<1>2. /\ a \in Seq(T) /\ Len(a) = n - 1
      /\ \A i \in 1 .. n - 1 : a[i] = s[i]
  BY <1>1
<1>3. /\ b \in Seq(T) /\ Len(b) = Len(s) - n
      /\ \A i \in 1 .. Len(s) - n : b[i] = s[i + n]
  BY <1>1
<1> HIDE DEF a, b
<1>4. /\ a \o b \in Seq(T) /\ Len(a \o b) = Len(s) - 1
      /\ \A i \in 1 .. Len(s) - 1 : (a \o b)[i] = IF i < n THEN s[i] ELSE s[i + 1]
  <2>1. a \o b \in Seq(T) /\ Len(a \o b) = Len(a) + Len(b)
    BY <1>2, <1>3, ConcatProperties
  <2>2. Len(a) + Len(b) = Len(s) - 1
    BY <1>1, <1>2, <1>3
  <2>3. \A i \in 1 .. Len(a) + Len(b) :
          (a \o b)[i] = IF i <= Len(a) THEN a[i] ELSE b[i - Len(a)]
    BY <1>2, <1>3, ConcatProperties
  <2>4. ASSUME NEW i \in 1 .. Len(s) - 1
        PROVE  (a \o b)[i] = IF i < n THEN s[i] ELSE s[i + 1]
    <3>1. CASE i < n
      <4>1. i \in 1 .. n - 1 /\ i <= Len(a)
        BY <1>1, <1>2, <3>1
      <4> QED
        BY <1>2, <2>2, <2>3, <2>4, <3>1, <4>1
    <3>2. CASE ~ (i < n)
      <4>1. i - Len(a) \in 1 .. Len(s) - n /\ ~ (i <= Len(a)) /\ (i - Len(a)) + n = i + 1
        BY <1>1, <1>2, <2>4, <3>2
      <4> QED
        BY <1>3, <2>2, <2>3, <2>4, <3>2, <4>1
    <3> QED
      BY <3>1, <3>2
  <2> QED
    BY <2>1, <2>2, <2>4
<1>5. a \o b = SubSeq(s, 1, n - 1) \o SubSeq(s, n + 1, Len(s))
  BY DEF a, b
<1> DEFINE r == a \o b
<1>6. /\ r \in Seq(T) /\ Len(r) = Len(s) - 1
      /\ \A i \in DOMAIN r :
           IF i < n THEN i \in DOMAIN s /\ r[i] = s[i]
                    ELSE i + 1 \in DOMAIN s /\ r[i] = s[i + 1]
  <2> HIDE DEF r
  <2>1. r \in Seq(T) /\ Len(r) = Len(s) - 1
    BY <1>4 DEF r
  <2>2. \A i \in 1 .. Len(s) - 1 : r[i] = IF i < n THEN s[i] ELSE s[i + 1]
    BY <1>4 DEF r
  <2> QED
    BY <1>1, <2>1, <2>2
<1> QED
  BY <1>5, <1>6

--------------------------------------------------------------------------------
(* Timer threads *)

\* What a timer still may tick for, of what it was launched for.
Runs(t) == IF tm[t].running THEN 1 ELSE 0
Due(t) == ticks[t] + Cardinality(Starts(cmds[t])) + Runs(t)
TimersGood ==
  /\ TimerTypeOK
  /\ credit \in [Timer -> Int]
  /\ \A t \in Timer : ~tm[t].periodic => Due(t) <= credit[t]

\* How many starts are in a queue.
LEMMA StartsNumber ==
  ASSUME NEW s \in Seq(Command)
  PROVE  /\ IsFiniteSet(Starts(s)) /\ Cardinality(Starts(s)) \in Nat
         /\ s = <<>> => Cardinality(Starts(s)) = 0
<1>1. Starts(s) \subseteq 1 .. Len(s)
  BY DEF Starts
<1>2. IsFiniteSet(1 .. Len(s))
  BY FS_Interval
<1>3. s = <<>> => Starts(s) = {}
  BY DEF Starts
<1> QED
  BY <1>1, <1>2, <1>3, FS_Subset, FS_CardinalityType, FS_EmptySet

\* A queue that gets one more command.
LEMMA StartsAppend ==
  ASSUME NEW s \in Seq(Command), NEW c \in Command
  PROVE  /\ Append(s, c) \in Seq(Command)
         /\ Cardinality(Starts(Append(s, c)))
              = Cardinality(Starts(s)) + (IF c = "START" THEN 1 ELSE 0)
<1> DEFINE n == Len(s) + 1
<1>1. IsFiniteSet(Starts(s)) /\ Cardinality(Starts(s)) \in Nat
  BY StartsNumber
<1>2. n \notin Starts(s)
  BY DEF Starts
<1>3. DOMAIN Append(s, c) = DOMAIN s \cup {n} /\ Append(s, c)[n] = c
  OBVIOUS
<1>4. \A i \in DOMAIN s : Append(s, c)[i] = s[i]
  OBVIOUS
<1>5. CASE c = "START"
  <2>1. Starts(Append(s, c)) = Starts(s) \cup {n}
    BY <1>3, <1>4, <1>5 DEF Starts
  <2> QED
    BY <1>1, <1>2, <1>5, <2>1, FS_AddElement
<1>6. CASE c # "START"
  <2>1. Starts(Append(s, c)) = Starts(s)
    BY <1>3, <1>4, <1>6 DEF Starts
  <2> QED
    BY <1>1, <1>6, <2>1
<1> QED
  BY <1>5, <1>6

\* A queue that loses its first command.
LEMMA StartsTail ==
  ASSUME NEW s \in Seq(Command), s # <<>>
  PROVE  /\ Tail(s) \in Seq(Command) /\ Head(s) \in Command
         /\ Cardinality(Starts(s))
              = Cardinality(Starts(Tail(s))) + (IF Head(s) = "START" THEN 1 ELSE 0)
<1> DEFINE P == Starts(s) \ {1}
           f == [i \in Starts(Tail(s)) |-> i + 1]
<1>1. Tail(s) \in Seq(Command) /\ Head(s) = s[1] /\ Head(s) \in Command /\ 1 \in DOMAIN s
  OBVIOUS
<1>2. \A i \in DOMAIN Tail(s) : Tail(s)[i] = s[i + 1] /\ i + 1 \in DOMAIN s
  OBVIOUS
<1>3. \A i \in DOMAIN s \ {1} : i - 1 \in DOMAIN Tail(s) /\ Tail(s)[i - 1] = s[i]
  OBVIOUS
<1>4. f \in Bijection(Starts(Tail(s)), P)
  <2>1. f \in Injection(Starts(Tail(s)), P)
    BY <1>1, <1>2 DEF Starts, Injection, IsInjective
  <2>2. \A j \in P : \E i \in Starts(Tail(s)) : f[i] = j
    <3> SUFFICES ASSUME NEW j \in P PROVE \E i \in Starts(Tail(s)) : f[i] = j
      OBVIOUS
    <3>1. j \in DOMAIN s \ {1} /\ j \in Int
      BY DEF Starts
    <3>2. j - 1 \in Starts(Tail(s))
      BY <1>3, <3>1 DEF Starts
    <3>3. f[j - 1] = j
      BY <3>1, <3>2
    <3> QED
      BY <3>2, <3>3
  <2> QED
    BY <2>1, <2>2 DEF Bijection, Surjection, Injection
<1>5. IsFiniteSet(Starts(Tail(s))) /\ Cardinality(Starts(Tail(s))) \in Nat
  BY <1>1, StartsNumber
<1>6. IsFiniteSet(P) /\ Cardinality(P) = Cardinality(Starts(Tail(s)))
  BY <1>4, <1>5, FS_Bijection DEF ExistsBijection
<1>7. CASE Head(s) = "START"
  <2>1. Starts(s) = P \cup {1}
    BY <1>1, <1>7 DEF Starts
  <2> QED
    BY <1>1, <1>5, <1>6, <1>7, <2>1, FS_AddElement
<1>8. CASE Head(s) # "START"
  <2>1. Starts(s) = P
    BY <1>1, <1>8 DEF Starts
  <2>2. Cardinality(Starts(s)) = Cardinality(Starts(Tail(s)))
    BY <1>6, <2>1
  <2> QED
    BY <1>1, <1>5, <1>8, <2>2
<1> QED
  BY <1>7, <1>8

LEMMA PeriodsAreNumbers == \A n \in Periods : n \in Int
BY TimerAssumption

LEMMA TimerFields ==
  ASSUME NEW state \in TimerState
  PROVE  /\ state.running \in BOOLEAN /\ state.periodic \in BOOLEAN
         /\ state.skip \in BOOLEAN
         /\ state.timeout \in Int /\ state.left \in Int /\ state.age \in Int
         /\ state.length \in Periods /\ state.length \in Int
         /\ Forever \in Int /\ -1 \in Int /\ 0 \in Int
<1>1. state.length \in Periods
  BY Zenon DEF TimerState
<1>2. state.length \in Int
  BY <1>1, PeriodsAreNumbers, Zenon
<1>3. Forever \in Int /\ -1 \in Int /\ 0 \in Int
  BY DEF Forever
<1> QED
  BY <1>1, <1>2, <1>3, Zenon DEF TimerState

\* Going back to poll() keeps the type and changes nothing but the wait.
LEMMA AgainType ==
  ASSUME NEW state \in TimerState
  PROVE  /\ Again(state) \in TimerState
         /\ Again(state).periodic = state.periodic
         /\ Again(state).running = state.running
BY DEF Again, TimerState

\* A command starts the thread only if it is START.
LEMMA ObeyedType ==
  ASSUME NEW state \in TimerState, NEW c \in Command
  PROVE  /\ Obeyed(c, state) \in TimerState
         /\ Obeyed(c, state).periodic = state.periodic
         /\ Obeyed(c, state).running => state.running \/ c = "START"
<1>1. CASE c = "TERMINATE"
  <2>1. Obeyed(c, state) = [state EXCEPT !.alive = FALSE]
    BY <1>1 DEF Obeyed
  <2> QED
    BY <1>1, <2>1 DEF TimerState
<1>2. CASE c = "ACTIVATE"
  <2>1. Obeyed(c, state) = [state EXCEPT !.active = TRUE, !.age = -1]
    BY <1>2 DEF Obeyed
  <2> QED
    BY <1>2, <2>1, TimerFields, Zenon DEF TimerState
<1>3. CASE c = "DEACTIVATE"
  <2>1. Obeyed(c, state) = [state EXCEPT !.active = FALSE, !.timeout = Forever, !.age = -1]
    BY <1>3 DEF Obeyed
  <2> QED
    BY <1>3, <2>1, TimerFields, Zenon DEF TimerState
<1>4. CASE c = "START"
  <2>1. Obeyed(c, state) =
          IF state.active THEN [state EXCEPT !.timeout = state.length, !.running = TRUE] ELSE state
    BY <1>4 DEF Obeyed, Start
  <2> QED
    BY <1>4, <2>1, TimerFields, Zenon DEF TimerState
<1>5. CASE c = "CANCEL" /\ state.periodic
  <2> DEFINE wait == state.length - state.age
  <2>1. Obeyed(c, state) =
          IF state.age = -1 THEN state ELSE [state EXCEPT !.timeout = wait, !.skip = TRUE]
    BY <1>5 DEF Obeyed, CancelPeriod
  <2>2. wait \in Int
    BY TimerFields
  <2> HIDE DEF wait
  <2> QED
    BY <1>5, <2>1, <2>2, Zenon DEF TimerState
<1>6. CASE c = "HALT" \/ (c = "CANCEL" /\ ~state.periodic)
  <2>1. Obeyed(c, state) = [state EXCEPT !.timeout = Forever, !.running = FALSE]
    BY <1>6 DEF Obeyed
  <2> QED
    BY <1>6, <2>1, TimerFields, Zenon DEF TimerState
<1> QED
  BY <1>1, <1>2, <1>3, <1>4, <1>5, <1>6 DEF Command

\* A wait that ends stops a thread that is not periodic.
LEMMA FiredType ==
  ASSUME NEW state \in TimerState
  PROVE  /\ Fired(state) \in TimerState
         /\ Fired(state).periodic = state.periodic
         /\ Fired(state).running => state.running /\ state.periodic
<1> DEFINE skip == IF state.running /\ state.periodic THEN FALSE ELSE state.skip
           running == state.running /\ state.periodic
           timeout == IF state.periodic THEN state.length ELSE Forever
<1>1. Fired(state) =
        [state EXCEPT !.age = 0, !.skip = skip, !.running = running, !.timeout = timeout]
  BY DEF Fired
<1>2. skip \in BOOLEAN /\ running \in BOOLEAN
  BY TimerFields
<1>3. timeout \in Int /\ 0 \in Int
  BY TimerFields
<1>4. running => state.running /\ state.periodic
  OBVIOUS
<1> HIDE DEF skip, running, timeout
<1> QED
  BY <1>1, <1>2, <1>3, <1>4, Zenon DEF TimerState

LEMMA OlderType ==
  ASSUME NEW state \in TimerState
  PROVE  /\ Older(state) \in TimerState
         /\ Older(state).periodic = state.periodic
         /\ Older(state).running = state.running
<1> DEFINE left == IF state.left > 0 THEN state.left - 1 ELSE state.left
           age == IF 0 <= state.age /\ state.age <= MaxPeriod THEN state.age + 1 ELSE state.age
<1>1. Older(state) = [state EXCEPT !.left = left, !.age = age]
  BY DEF Older
<1>2. left \in Int /\ age \in Int
  BY TimerFields
<1> HIDE DEF left, age
<1> QED
  BY <1>1, <1>2, Zenon DEF TimerState

--------------------------------------------------------------------------------
(* What is done to timers, one after the other *)

LEMMA DueNumbers ==
  ASSUME TimersGood, NEW t \in Timer
  PROVE  /\ ticks[t] \in Nat /\ cmds[t] \in Seq(Command) /\ tm[t] \in TimerState
         /\ credit[t] \in Int
         /\ Cardinality(Starts(cmds[t])) \in Nat
         /\ Runs(t) \in {0, 1}
BY StartsNumber DEF TimersGood, TimerTypeOK, Runs

\* Nothing happens to a timer but what its Due and its credit pay for.
LEMMA TimersOf ==
  ASSUME TimersGood, TimerTypeOK', credit' \in [Timer -> Int], NEW t \in Timer,
         \A u \in Timer \ {t} : /\ ticks'[u] = ticks[u] /\ cmds'[u] = cmds[u]
                               /\ tm'[u] = tm[u] /\ credit'[u] = credit[u],
         tm'[t].periodic = tm[t].periodic,
         ~tm[t].periodic => Due(t)' - credit'[t] <= Due(t) - credit[t]
  PROVE  TimersGood'
<1>1. ASSUME NEW u \in Timer \ {t} PROVE ~tm'[u].periodic => Due(u)' <= credit'[u]
  <2>1. ~tm[u].periodic => Due(u) <= credit[u]
    BY DEF TimersGood
  <2>2. Due(u)' = Due(u)
    BY DEF Due, Runs
  <2> QED
    BY <2>1, <2>2
<1>2. ~tm'[t].periodic => Due(t)' <= credit'[t]
  <2>1. ~tm[t].periodic => Due(t) <= credit[t]
    BY DEF TimersGood
  <2>2. Due(t) \in Int /\ credit[t] \in Int
    BY DueNumbers DEF Due
  <2>3. Due(t)' \in Int /\ credit'[t] \in Int
    <3>1. ticks'[t] \in Nat /\ Cardinality(Starts(cmds'[t])) \in Nat
      BY StartsNumber DEF TimerTypeOK
    <3>2. Runs(t)' \in {0, 1}
      BY DEF Runs
    <3> QED
      BY <3>1, <3>2 DEF Due
  <2> QED
    BY <2>1, <2>2, <2>3
<1> QED
  BY <1>1, <1>2 DEF TimersGood

\* A command is sent to a timer: one launch more is one more that is paid for.
LEMMA SendKept ==
  ASSUME TimersGood, NEW t \in Timer, NEW c \in Command,
         Send(t, c), UNCHANGED <<ticks, tm>>, credit' \in [Timer -> Int],
         \A u \in Timer \ {t} : credit'[u] = credit[u],
         ~tm[t].periodic => credit'[t] = credit[t] + (IF c = "START" THEN 1 ELSE 0)
  PROVE  TimersGood'
<1>1. cmds' = [cmds EXCEPT ![t] = Append(@, c)] /\ cmds'[t] = Append(cmds[t], c)
  BY DEF Send, TimersGood, TimerTypeOK
<1>2. TimerTypeOK'
  BY <1>1, DueNumbers, StartsAppend DEF TimersGood, TimerTypeOK
<1> DEFINE one == IF c = "START" THEN 1 ELSE 0
<1>3. Due(t)' = Due(t) + one
  <2>1. Cardinality(Starts(cmds'[t])) = Cardinality(Starts(cmds[t])) + one /\ one \in Nat
    BY <1>1, DueNumbers, StartsAppend
  <2>2. ticks'[t] = ticks[t] /\ Runs(t)' = Runs(t)
    BY DEF Runs
  <2> HIDE DEF one
  <2>3. ticks[t] + (Cardinality(Starts(cmds[t])) + one) + Runs(t)
          = (ticks[t] + Cardinality(Starts(cmds[t])) + Runs(t)) + one
    <3>1. \A a, b, r \in Int : a + (b + one) + r = (a + b + r) + one
      BY <2>1
    <3>2. ticks[t] \in Int /\ Cardinality(Starts(cmds[t])) \in Int /\ Runs(t) \in Int
      BY DueNumbers
    <3> QED
      BY <3>1, <3>2, Zenon
  <2> QED
    BY <2>1, <2>2, <2>3 DEF Due
<1>4. ~tm[t].periodic => Due(t)' - credit'[t] <= Due(t) - credit[t]
  <2>1. one \in Nat /\ Due(t) \in Int /\ credit[t] \in Int
    BY DueNumbers DEF Due
  <2> HIDE DEF one
  <2>2. ~tm[t].periodic => credit'[t] = credit[t] + one
    BY DEF one
  <2> QED
    BY <1>3, <2>1, <2>2
<1>5. \A u \in Timer \ {t} : cmds'[u] = cmds[u]
  BY <1>1 DEF TimersGood, TimerTypeOK
<1> QED
  BY <1>2, <1>4, <1>5, TimersOf

\* The thread obeys a command: the launch it takes may make it run.
LEMMA ObeyKept ==
  ASSUME TimersGood, NEW t \in Timer, Obey(t), UNCHANGED credit
  PROVE  TimersGood'
<1> DEFINE c == Head(cmds[t])
           state == Again(Obeyed(c, tm[t]))
<1>1. /\ cmds[t] # <<>> /\ cmds' = [cmds EXCEPT ![t] = Tail(@)]
      /\ tm' = [tm EXCEPT ![t] = state]
      /\ ticks' = ticks
  BY DEF Obey
<1>2. c \in Command /\ Tail(cmds[t]) \in Seq(Command)
  BY <1>1, DueNumbers, StartsTail
<1>3. /\ state \in TimerState /\ state.periodic = tm[t].periodic
      /\ state.running => tm[t].running \/ c = "START"
  <2>1. /\ Obeyed(c, tm[t]) \in TimerState
        /\ Obeyed(c, tm[t]).periodic = tm[t].periodic
        /\ Obeyed(c, tm[t]).running => tm[t].running \/ c = "START"
    BY <1>2, DueNumbers, ObeyedType
  <2> QED
    BY <2>1, AgainType
<1> HIDE DEF state
<1>4. TimerTypeOK' /\ cmds'[t] = Tail(cmds[t]) /\ tm'[t] = state
  BY <1>1, <1>2, <1>3 DEF TimersGood, TimerTypeOK
<1>5. Cardinality(Starts(cmds[t]))
        = Cardinality(Starts(cmds'[t])) + (IF c = "START" THEN 1 ELSE 0)
  BY <1>1, <1>4, DueNumbers, StartsTail
<1>6. Runs(t)' <= Runs(t) + (IF c = "START" THEN 1 ELSE 0)
  BY <1>3, <1>4 DEF Runs
<1>7. Due(t)' <= Due(t)
  <2>1. Cardinality(Starts(cmds'[t])) \in Nat /\ Runs(t)' \in {0, 1}
    BY <1>4, StartsNumber DEF Runs, TimerTypeOK
  <2> QED
    BY <1>1, <1>5, <1>6, <2>1, DueNumbers DEF Due
<1>8. Due(t)' - credit'[t] <= Due(t) - credit[t]
  <2>1. Due(t) \in Int /\ credit[t] \in Int /\ credit'[t] = credit[t]
    BY DueNumbers DEF Due
  <2>2. Due(t)' \in Int
    <3>1. ticks'[t] \in Nat /\ Cardinality(Starts(cmds'[t])) \in Nat
      BY <1>4, StartsNumber DEF TimerTypeOK
    <3>2. Runs(t)' \in {0, 1}
      BY DEF Runs
    <3> QED
      BY <3>1, <3>2 DEF Due
  <2> QED
    BY <1>7, <2>1, <2>2
<1>9. \A u \in Timer \ {t} : cmds'[u] = cmds[u] /\ tm'[u] = tm[u]
  BY <1>1 DEF TimersGood, TimerTypeOK
<1>10. credit' \in [Timer -> Int]
  BY DEF TimersGood
<1> QED
  BY <1>1, <1>3, <1>4, <1>8, <1>9, <1>10, TimersOf

\* Only the attributes of one timer thread change, and it does not start to run.
LEMMA ThreadKept ==
  ASSUME TimersGood, NEW t \in Timer, NEW state \in TimerState,
         state.periodic = tm[t].periodic, state.running => tm[t].running,
         tm' = [tm EXCEPT ![t] = state], UNCHANGED <<cmds, ticks, credit>>
  PROVE  TimersGood'
<1>1. TimerTypeOK' /\ tm'[t] = state /\ credit' \in [Timer -> Int]
  BY DEF TimersGood, TimerTypeOK
<1>2. Runs(t)' <= Runs(t) /\ Runs(t)' \in {0, 1}
  BY <1>1 DEF Runs
<1>3. Due(t)' - credit'[t] <= Due(t) - credit[t]
  <2>1. Due(t)' <= Due(t) /\ Due(t)' \in Int /\ Due(t) \in Int
    BY <1>2, DueNumbers DEF Due
  <2>2. credit'[t] = credit[t] /\ credit[t] \in Int
    BY DueNumbers
  <2> QED
    BY <2>1, <2>2
<1>4. \A u \in Timer \ {t} : tm'[u] = tm[u]
  BY DEF TimersGood, TimerTypeOK
<1> QED
  BY <1>1, <1>3, <1>4, TimersOf

\* The wait of the thread ends: a one-shot timer that ticks does not run any more.
LEMMA ExpireKept ==
  ASSUME TimersGood, NEW t \in Timer, Expire(t), UNCHANGED credit
  PROVE  TimersGood'
<1>1. UNCHANGED cmds /\ tm[t] \in TimerState
  BY DueNumbers DEF Expire
<1>2. CASE ~tm[t].active
  <2> DEFINE silent == [tm[t] EXCEPT !.timeout = Forever]
             state == Again(silent)
  <2>1. tm' = [tm EXCEPT ![t] = state] /\ UNCHANGED ticks
    BY <1>2 DEF Expire
  <2>2. /\ silent \in TimerState /\ silent.periodic = tm[t].periodic
        /\ silent.running = tm[t].running
    BY <1>1, TimerFields, Zenon DEF TimerState
  <2> HIDE DEF silent
  <2>3. /\ state \in TimerState /\ state.periodic = tm[t].periodic
        /\ state.running = tm[t].running
    BY <2>2, AgainType
  <2> HIDE DEF state
  <2> QED
    BY <1>1, <2>1, <2>3, ThreadKept
<1>3. CASE tm[t].active
  <2> DEFINE state == Again(Fired(tm[t]))
  <2>1. /\ tm' = [tm EXCEPT ![t] = state]
        /\ ticks' = IF Sends(tm[t]) THEN [ticks EXCEPT ![t] = @ + 1] ELSE ticks
    BY <1>3 DEF Expire
  <2>2. /\ state \in TimerState /\ state.periodic = tm[t].periodic
        /\ state.running => tm[t].running /\ tm[t].periodic
    BY <1>1, FiredType, AgainType
  <2> HIDE DEF state
  <2>3. CASE ~Sends(tm[t])
    BY <1>1, <2>1, <2>2, <2>3, ThreadKept
  <2>4. CASE Sends(tm[t])
    <3>1. /\ ticks' = [ticks EXCEPT ![t] = @ + 1] /\ ticks'[t] = ticks[t] + 1
          /\ ticks[t] \in Nat
      BY <2>1, <2>4 DEF TimersGood, TimerTypeOK
    <3>2. TimerTypeOK' /\ tm'[t] = state /\ credit' \in [Timer -> Int]
      BY <1>1, <2>1, <2>2, <3>1 DEF TimersGood, TimerTypeOK
    <3>3. ~tm[t].periodic => Runs(t) = 1 /\ Runs(t)' = 0
      BY <2>2, <2>4, <3>2 DEF Runs, Sends
    <3>4. ~tm[t].periodic => Due(t)' = Due(t)
      BY <1>1, <3>1, <3>3, DueNumbers DEF Due
    <3>5. ~tm[t].periodic => Due(t)' - credit'[t] <= Due(t) - credit[t]
      <4>1. Due(t) \in Int /\ credit[t] \in Int /\ credit'[t] = credit[t]
        BY DueNumbers DEF Due
      <4> QED
        BY <3>4, <4>1
    <3>6. \A u \in Timer \ {t} : tm'[u] = tm[u] /\ ticks'[u] = ticks[u]
      BY <2>1, <3>1 DEF TimersGood, TimerTypeOK
    <3> QED
      BY <1>1, <2>2, <3>2, <3>5, <3>6, TimersOf
  <2> QED
    BY <2>3, <2>4
<1> QED
  BY <1>2, <1>3

LEMMA ElapseKept ==
  ASSUME TimersGood, NEW t \in Timer, Elapse(t), UNCHANGED credit
  PROVE  TimersGood'
<1>1. tm' = [tm EXCEPT ![t] = Older(tm[t])] /\ UNCHANGED <<cmds, ticks>>
  BY DEF Elapse
<1> QED
  BY <1>1, DueNumbers, OlderType, ThreadKept

LEMMA SetLengthKept ==
  ASSUME TimersGood, NEW t \in Timer, setLength(t), UNCHANGED credit
  PROVE  TimersGood'
<1>1. PICK length \in Periods : tm' = [tm EXCEPT ![t].length = length]
  BY DEF setLength
<1> DEFINE state == [tm[t] EXCEPT !.length = length]
<1>2. tm' = [tm EXCEPT ![t] = state] /\ UNCHANGED <<cmds, ticks>>
  BY <1>1 DEF setLength
<1>3. /\ state \in TimerState /\ state.periodic = tm[t].periodic
      /\ state.running = tm[t].running
  BY DueNumbers, Zenon DEF TimerState
<1> HIDE DEF state
<1> QED
  BY <1>2, <1>3, ThreadKept

\* Nothing happens to the timers.
LEMMA TimersSame ==
  ASSUME TimersGood, UNCHANGED timerVars, UNCHANGED credit
  PROVE  TimersGood'
BY DEF TimersGood, TimerTypeOK, timerVars, Due, Runs

\* activate() and deactivate() of the ports launch no timer that is not periodic.
LEMMA ActivateKept ==
  ASSUME TimersGood, NEW S, activate(S) \/ deactivate(S), UNCHANGED <<ticks, tm, credit>>
  PROVE  TimersGood'
<1>1. ASSUME NEW t \in Timer
      PROVE  /\ cmds'[t] \in Seq(Command)
             /\ ~tm[t].periodic =>
                  Cardinality(Starts(cmds'[t])) = Cardinality(Starts(cmds[t]))
  <2>1. \/ cmds'[t] = cmds[t]
        \/ ~tm[t].periodic /\ cmds'[t] = cmds[t] \o <<"ACTIVATE">>
        \/ tm[t].periodic /\ cmds'[t] = cmds[t] \o <<"ACTIVATE", "START">>
        \/ cmds'[t] = Append(cmds[t], "DEACTIVATE")
    BY DEF activate, deactivate, ActivateCommands
  <2>2. cmds[t] \in Seq(Command) /\ "ACTIVATE" \in Command /\ "START" \in Command
        /\ "DEACTIVATE" \in Command /\ Cardinality(Starts(cmds[t])) \in Nat
    BY DueNumbers DEF Command
  <2>3. /\ cmds[t] \o <<"ACTIVATE">> = Append(cmds[t], "ACTIVATE")
        /\ cmds[t] \o <<"ACTIVATE", "START">> = Append(Append(cmds[t], "ACTIVATE"), "START")
    BY <2>2, ConcatIsAppend
  <2>4. \A c \in {"ACTIVATE", "DEACTIVATE"} :
          /\ Append(cmds[t], c) \in Seq(Command)
          /\ Cardinality(Starts(Append(cmds[t], c))) = Cardinality(Starts(cmds[t]))
    BY <2>2, StartsAppend
  <2>5. Append(Append(cmds[t], "ACTIVATE"), "START") \in Seq(Command)
    BY <2>2, <2>4, StartsAppend
  <2> QED
    BY <2>1, <2>2, <2>3, <2>4, <2>5
<1>2. DOMAIN cmds' = Timer /\ cmds' = [t \in Timer |-> cmds'[t]]
  BY DEF activate, deactivate
<1>3. cmds' \in [Timer -> Seq(Command)]
  BY <1>1, <1>2
<1>4. ASSUME NEW t \in Timer, ~tm[t].periodic PROVE Due(t)' = Due(t)
  BY <1>1, <1>4 DEF Due, Runs
<1> QED
  BY <1>3, <1>4 DEF TimersGood, TimerTypeOK

\* What a handler does to a timer.
LEMMA SetTimerKept ==
  ASSUME TimersGood, NEW t \in Timer, SetTimer(t)
  PROVE  TimersGood'
<1>1. {"START", "CANCEL", "HALT"} \subseteq Command
  BY DEF Command
<1>2. CASE tm[t].periodic /\ launch(t) /\ UNCHANGED credit
  BY <1>1, <1>2, SendKept DEF launch, TimersGood
<1>3. CASE ~tm[t].periodic /\ launch(t) /\ credit' = [credit EXCEPT ![t] = @ + 1]
  <2>1. /\ credit' \in [Timer -> Int] /\ credit'[t] = credit[t] + 1
        /\ \A u \in Timer \ {t} : credit'[u] = credit[u]
    BY <1>3 DEF TimersGood
  <2> QED
    BY <1>1, <1>3, <2>1, SendKept DEF launch
<1>4. CASE (cancel(t) \/ halt(t)) /\ UNCHANGED credit
  <2>1. credit' \in [Timer -> Int] /\ credit[t] \in Int /\ credit'[t] = credit[t] + 0
    BY <1>4 DEF TimersGood
  <2>2. PICK c \in {"CANCEL", "HALT"} : Send(t, c) /\ UNCHANGED <<ticks, tm>>
    BY <1>4 DEF cancel, halt
  <2> QED
    BY <1>1, <1>4, <2>1, <2>2, SendKept
<1>5. CASE setLength(t) /\ UNCHANGED credit
  BY <1>5, SetLengthKept
<1> QED
  BY <1>2, <1>3, <1>4, <1>5 DEF SetTimer

\* A tick that is handled is one launch less.
LEMMA ReceiveKept ==
  ASSUME TimersGood, Receive, NEW t \in Input, cur.input = t
  PROVE  TimersGood'
<1>1. UNCHANGED <<cmds, tm>>
  BY DEF Receive
<1>2. CASE t \in Timer
  <2>1. /\ ticks' = [ticks EXCEPT ![t] = @ - 1]
        /\ credit' = IF tm[t].periodic THEN credit ELSE [credit EXCEPT ![t] = @ - 1]
        /\ ticks[t] > 0
    BY <1>2 DEF Receive, Waiting
  <2>2. ticks[t] \in Nat /\ ticks[t] - 1 \in Nat /\ ticks'[t] = ticks[t] - 1
    BY <1>2, <2>1 DEF TimersGood, TimerTypeOK
  <2>3. TimerTypeOK' /\ credit' \in [Timer -> Int]
    BY <1>1, <2>1, <2>2 DEF TimersGood, TimerTypeOK
  <2>4. ~tm[t].periodic => credit'[t] = credit[t] - 1
    BY <1>2, <2>1 DEF TimersGood
  <2>5. Due(t)' = Due(t) - 1 /\ Due(t) \in Int /\ credit[t] \in Int
    <3>1. Runs(t)' = Runs(t)
      BY <1>1 DEF Runs
    <3> QED
      BY <1>1, <1>2, <2>2, <3>1, DueNumbers DEF Due
  <2>6. ~tm[t].periodic => Due(t)' - credit'[t] <= Due(t) - credit[t]
    BY <2>4, <2>5
  <2>7. \A u \in Timer \ {t} : ticks'[u] = ticks[u] /\ credit'[u] = credit[u]
    BY <2>1 DEF TimersGood, TimerTypeOK
  <2> QED
    BY <1>1, <1>2, <2>3, <2>6, <2>7, TimersOf
<1>3. CASE t \notin Timer
  BY <1>1, <1>3, TimersSame DEF Receive, timerVars
<1> QED
  BY <1>2, <1>3

--------------------------------------------------------------------------------
(* The schedulers *)

Ascending(s) == \A m, n \in DOMAIN s : m < n => Prio[s[m]] <= Prio[s[n]]

LEMMA InputsFinite ==
  ASSUME NEW S \in SUBSET Input
  PROVE  IsFiniteSet(S) /\ Cardinality(S) \in Nat /\ (S # {} => Cardinality(S) # 0)
<1>1. IsFiniteSet(S)
  BY ComponentAssumption, FS_Subset
<1> QED
  BY <1>1, FS_CardinalityType, FS_EmptySet

\* Inputs can be sorted by priority: of the sets that could not, a smallest one would
\* have an input of the best priority, before the others in order.
LEMMA SortedExists ==
  ASSUME NEW S \in SUBSET Input
  PROVE  Sorted(S) \in Orders(S)
<1> DEFINE Bad == {T \in SUBSET Input : ~ \E s \in Orders(T) : Ascending(s)}
<1>1. ASSUME Bad # {} PROVE FALSE
  <2>1. FiniteSubsetsOf(Input) = SUBSET Input
    BY ComponentAssumption, FS_FiniteSubsetsOfFinite
  <2>2. PICK T \in Bad : \A U \in Bad : ~ (<<U, T>> \in StrictSubsetOrdering(Input))
    <3>1. Bad \subseteq FiniteSubsetsOf(Input)
      BY <2>1
    <3> HIDE DEF Bad
    <3> QED
      BY <1>1, <3>1, FS_StrictSubsetOrderingWellFounded, WFMin
  <2>3. T \in SUBSET Input
    OBVIOUS
  <2>4. T # {}
    <3> SUFFICES ASSUME T = {} PROVE FALSE
      OBVIOUS
    <3> DEFINE s == [n \in 1 .. 0 |-> n]
    <3>1. Cardinality(T) = 0
      BY FS_EmptySet
    <3>2. s \in [1 .. Cardinality(T) -> T] /\ {s[n] : n \in DOMAIN s} = T
      BY <3>1
    <3>3. s \in Orders(T)
      BY <3>2 DEF Orders
    <3>4. Ascending(s)
      BY DEF Ascending
    <3> HIDE DEF s
    <3> QED
      BY <3>3, <3>4
  <2>5. PICK x \in T : \A y \in T : Prio[x] <= Prio[y]
    <3> DEFINE P == {Prio[y] : y \in T}
    <3>1. P \in SUBSET Nat /\ P # {}
      BY <2>3, <2>4, ComponentAssumption
    <3>2. PICK p \in P : \A q \in P : p <= q
      <4> HIDE DEF P
      <4> QED
        BY <3>1, Least
    <3>3. PICK x \in T : p = Prio[x]
      OBVIOUS
    <3> QED
      BY <3>2, <3>3
  <2> DEFINE R == T \ {x}
             k == Cardinality(R)
  <2>6. R \in SUBSET Input /\ R \notin Bad
    <3>1. <<R, T>> \in StrictSubsetOrdering(Input)
      BY <2>3 DEF StrictSubsetOrdering
    <3> QED
      BY <2>2, <2>3, <3>1
  <2>7. PICK r \in Orders(R) : Ascending(r)
    BY <2>6
  <2>8. k \in Nat /\ Cardinality(T) = k + 1
    <3>1. IsFiniteSet(T) /\ IsFiniteSet(R) /\ Cardinality(T) \in Nat /\ k \in Nat
      BY <2>3, <2>6, InputsFinite
    <3>2. k = Cardinality(T) - 1
      BY <3>1, FS_RemoveElement
    <3> QED
      BY <3>1, <3>2
  <2>9. /\ r \in [1 .. k -> R] /\ DOMAIN r = 1 .. k
        /\ \A y \in R : \E n \in 1 .. k : r[n] = y
    BY <2>7 DEF Orders
  <2> HIDE DEF k
  <2> DEFINE s == [n \in 1 .. k + 1 |-> IF n = 1 THEN x ELSE r[n - 1]]
  <2>10. /\ s[1] = x /\ 1 \in 1 .. k + 1
         /\ \A n \in 1 .. k : n + 1 \in 1 .. k + 1 /\ s[n + 1] = r[n]
         /\ \A n \in 1 .. k + 1 : n = 1 \/ (n - 1 \in 1 .. k /\ s[n] = r[n - 1])
    BY <2>8
  <2>11. s \in [1 .. k + 1 -> T]
    BY <2>9, <2>10
  <2>12. \A y \in T : \E n \in DOMAIN s : s[n] = y
    <3> SUFFICES ASSUME NEW y \in T PROVE \E n \in 1 .. k + 1 : s[n] = y
      OBVIOUS
    <3>1. CASE y = x
      BY <2>10, <3>1
    <3>2. CASE y # x
      <4>1. PICK n \in 1 .. k : r[n] = y
        BY <2>9, <3>2
      <4> QED
        BY <2>10, <4>1
    <3> QED
      BY <3>1, <3>2
  <2>13. s \in Orders(T)
    <3>1. {s[n] : n \in DOMAIN s} = T
      BY <2>11, <2>12
    <3> HIDE DEF s
    <3> QED
      BY <2>8, <2>11, <3>1 DEF Orders
  <2>14. Ascending(s)
    <3> SUFFICES ASSUME NEW m \in 1 .. k + 1, NEW n \in 1 .. k + 1, m < n
                 PROVE  Prio[s[m]] <= Prio[s[n]]
      BY DEF Ascending
    <3>1. n - 1 \in 1 .. k /\ s[n] = r[n - 1] /\ s[n] \in T
      BY <2>8, <2>10, <2>11
    <3>2. CASE m = 1
      BY <2>5, <2>10, <3>1, <3>2
    <3>3. CASE m # 1
      <4>1. m - 1 \in 1 .. k /\ s[m] = r[m - 1] /\ m - 1 < n - 1
        BY <2>8, <2>10, <3>3
      <4> HIDE DEF s
      <4> QED
        BY <2>7, <2>9, <3>1, <4>1 DEF Ascending
    <3> QED
      BY <3>2, <3>3
  <2> HIDE DEF s
  <2> QED
    BY <2>2, <2>13, <2>14
<1>2. \E s \in Orders(S) : Ascending(s)
  BY <1>1
<1> QED
  BY <1>2 DEF Sorted, Ascending

\* An order of sockets lists each of them, and none twice.
LEMMA OrdersOnce ==
  ASSUME NEW S \in SUBSET Input, NEW s \in Orders(S)
  PROVE  /\ DOMAIN s = 1 .. Cardinality(S) /\ Cardinality(S) \in Nat
         /\ \A n \in DOMAIN s : s[n] \in S
         /\ \A m, n \in DOMAIN s : m # n => s[m] # s[n]
<1> DEFINE k == Cardinality(S)
<1>1. IsFiniteSet(S) /\ k \in Nat
  BY InputsFinite
<1>2. s \in [1 .. k -> S] /\ S = {s[n] : n \in DOMAIN s}
  BY DEF Orders
<1>3. s \in Surjection(1 .. k, S)
  BY <1>2 DEF Surjection
<1>4. IsFiniteSet(1 .. k) /\ Cardinality(1 .. k) = k
  BY <1>1, FS_Interval
<1>5. s \in Injection(1 .. k, S)
  BY <1>3, <1>4, FS_Surjection
<1> QED
  BY <1>1, <1>2, <1>5 DEF Injection, IsInjective

SocketType == socket \in [Input -> [open: BOOLEAN, gen: Nat]]

\* The tasks for sockets that were polled.
LEMMA TasksOfType ==
  ASSUME SocketType, NEW S \in SUBSET Input, NEW s \in Orders(S)
  PROVE  /\ TasksOf(s) \in Seq(Task) /\ Len(TasksOf(s)) = Cardinality(S)
         /\ \A n \in DOMAIN TasksOf(s) :
              TasksOf(s)[n] = TaskOf(s[n]) /\ n \in DOMAIN s /\ s[n] \in S
         /\ S # {} => TasksOf(s) # <<>>
<1>1. DOMAIN s = 1 .. Cardinality(S) /\ Cardinality(S) \in Nat
      /\ \A n \in DOMAIN s : s[n] \in S
  BY OrdersOnce
<1>2. \A i \in Input : TaskOf(i) \in Task
  BY DEF SocketType, TaskOf, Task
<1>3. TasksOf(s) \in [1 .. Cardinality(S) -> Task]
  BY <1>1, <1>2 DEF TasksOf
<1>4. \A n \in DOMAIN TasksOf(s) : TasksOf(s)[n] = TaskOf(s[n]) /\ n \in DOMAIN s
  BY DEF TasksOf
<1>5. S # {} => Cardinality(S) # 0
  BY InputsFinite
<1> QED
  BY <1>1, <1>3, <1>4, <1>5

LEMMA TagType == \A task \in Task : Tag(task) \in Nat
BY ComponentAssumption DEF Task, Tag

\* The slices of rrScheduler().
LEMMA TurnedType ==
  ASSUME NEW jobs \in Seq(Task), jobs # <<>>, last \in Int
  PROVE  Turned(jobs) \in Seq(Task) /\ Turned(jobs) # <<>>
<1> DEFINE larger == {n \in DOMAIN jobs : Tag(jobs[n]) > last}
           least == CHOOSE n \in larger : \A m \in larger : n <= m
           first == least - 1
           len == Len(jobs)
<1>1. CASE tasks = <<>> \/ len = 1 \/ larger = {} \/ first = 0
  BY <1>1 DEF Turned
<1>2. CASE ~ (tasks = <<>> \/ len = 1 \/ larger = {} \/ first = 0)
  <2>1. larger \in SUBSET Nat /\ larger # {} /\ larger \subseteq 1 .. len /\ len \in Nat
    BY <1>2
  <2>2. first \in 1 .. len - 1
    <3>1. \E n \in larger : \A m \in larger : n <= m
      <4> HIDE DEF larger
      <4> QED
        BY <2>1, Least
    <3>2. least \in larger
      <4> HIDE DEF larger
      <4> QED
        BY <3>1
    <3> QED
      BY <1>2, <2>1, <3>2
  <2>3. Turned(jobs) = SubSeq(jobs, len - first + 1, len) \o SubSeq(jobs, 1, first)
    BY <1>2 DEF Turned
  <2> HIDE DEF first, larger
  <2> DEFINE a == SubSeq(jobs, len - first + 1, len)
             b == SubSeq(jobs, 1, first)
  <2>4. a \in Seq(Task) /\ b \in Seq(Task) /\ Len(b) = first
    BY <2>1, <2>2
  <2> HIDE DEF a, b
  <2>5. a \o b \in Seq(Task) /\ Len(a \o b) = Len(a) + Len(b) /\ Len(a) \in Nat
    BY <2>4
  <2>6. a \o b # <<>>
    BY <2>2, <2>4, <2>5
  <2> QED
    BY <2>3, <2>5, <2>6 DEF a, b
<1> QED
  BY <1>1, <1>2

\* What schedule() leaves in the queue.
LEMMA Scheduled ==
  ASSUME SocketType, tasks \in Seq(Task), last \in Int,
         NEW S \in SUBSET Input, schedule(S)
  PROVE  /\ tasks' \in Seq(Task) /\ last' \in Int /\ cur' = cur
         /\ S # {} \/ tasks # <<>> => tasks' # <<>>
         /\ S = {} => tasks' = tasks
         /\ scheduler = "default" /\ S # {} /\ tasks = <<>> =>
              \E s \in Orders(S) : tasks' = TasksOf(s)
<1>1. cur' = cur
  BY DEF schedule
<1>2. CASE S = {}
  BY <1>2 DEF schedule
<1>3. CASE S # {} /\ scheduler # "rr"
  <2>1. PICK s \in Orders(S) : tasks' = tasks \o TasksOf(s)
    BY <1>3 DEF schedule
  <2>2. TasksOf(s) \in Seq(Task) /\ TasksOf(s) # <<>>
    BY <1>3, TasksOfType
  <2>3. last' = last
    BY <1>3 DEF schedule
  <2>4. tasks = <<>> => tasks' = TasksOf(s)
    BY <2>1, <2>2
  <2>5. tasks' \in Seq(Task) /\ tasks' # <<>>
    BY <2>1, <2>2
  <2> QED
    BY <1>1, <1>3, <2>3, <2>4, <2>5
<1>4. CASE S # {} /\ scheduler = "rr"
  <2> DEFINE jobs == TasksOf(Sorted(S))
  <2>1. jobs \in Seq(Task) /\ jobs # <<>>
    BY <1>4, SortedExists, TasksOfType
  <2>2. /\ tasks' = tasks \o Turned(jobs)
        /\ last' = IF Len(jobs) # 1 /\ tasks = <<>> THEN Tag(jobs[Len(jobs)]) ELSE last
    BY <1>4 DEF schedule
  <2> HIDE DEF jobs
  <2>3. Turned(jobs) \in Seq(Task) /\ Turned(jobs) # <<>>
    BY <2>1, TurnedType
  <2>4. last' \in Int
    <3>1. jobs[Len(jobs)] \in Task
      BY <2>1
    <3>2. Tag(jobs[Len(jobs)]) \in Int
      BY <3>1, TagType
    <3> QED
      BY <2>2, <3>2
  <2>5. tasks' \in Seq(Task) /\ tasks' # <<>>
    BY <2>2, <2>3
  <2> QED
    BY <1>1, <1>4, <2>4, <2>5
<1> QED
  BY <1>2, <1>3, <1>4

\* There is a next task.
LEMMA NextTaskThere ==
  ASSUME tasks \in Seq(Task), tasks # <<>>
  PROVE  NextTask \in DOMAIN tasks
<1>1. CASE scheduler # "priority"
  BY <1>1 DEF NextTask
<1>2. CASE scheduler = "priority"
  <2> DEFINE T == {Tag(tasks[n]) : n \in DOMAIN tasks}
             Best(n) == \A m \in DOMAIN tasks :
               Tag(tasks[n]) < Tag(tasks[m]) \/ (Tag(tasks[n]) = Tag(tasks[m]) /\ n <= m)
  <2>1. \A n \in DOMAIN tasks : n \in Nat /\ Tag(tasks[n]) \in Nat
    BY TagType
  <2>2. 1 \in DOMAIN tasks
    OBVIOUS
  <2>3. PICK p \in T : \A q \in T : p <= q
    <3>1. T \in SUBSET Nat /\ T # {}
      BY <2>1, <2>2
    <3> HIDE DEF T
    <3> QED
      BY <3>1, Least
  <2> DEFINE N == {n \in DOMAIN tasks : Tag(tasks[n]) = p}
  <2>4. PICK n \in N : \A m \in N : n <= m
    <3>1. N \in SUBSET Nat /\ N # {}
      BY <2>1
    <3> HIDE DEF N
    <3> QED
      BY <3>1, Least
  <2>5. Best(n)
    <3> SUFFICES ASSUME NEW m \in DOMAIN tasks
                 PROVE  \/ Tag(tasks[n]) < Tag(tasks[m])
                        \/ Tag(tasks[n]) = Tag(tasks[m]) /\ n <= m
      OBVIOUS
    <3>1. p <= Tag(tasks[m]) /\ p \in Nat /\ Tag(tasks[m]) \in Nat
      BY <2>1, <2>3
    <3>2. Tag(tasks[n]) = p
      BY <2>4
    <3>3. Tag(tasks[m]) = p => n <= m
      BY <2>4
    <3> QED
      BY <3>1, <3>2, <3>3
  <2>6. NextTask = CHOOSE n_1 \in DOMAIN tasks : Best(n_1)
    BY <1>2 DEF NextTask
  <2>7. n \in DOMAIN tasks
    BY <2>4
  <2> HIDE DEF Best
  <2> QED
    BY <2>5, <2>6, <2>7
<1> QED
  BY <1>1, <1>2

--------------------------------------------------------------------------------
(* The inductive invariant *)

Good ==
  /\ TypeOK
  /\ TimersGood
  /\ TasksThere
  /\ BatchFresh

LEMMA GoodIsIInv == Good => IInv
BY DEF Good, IInv, NoBlindHandler, BatchFresh, OneShotOnce, TimersGood, Due, Runs

LEMMA TasksTyped == Good => \A n \in DOMAIN tasks : tasks[n] \in Task
<1>1. Good => tasks \in Seq(Task)
  BY DEF Good, TypeOK
<1> QED
  BY <1>1

FreshTasks ==
  \A n \in DOMAIN tasks :
    /\ tasks[n].gen <= socket[tasks[n].input].gen
    /\ Bound(tasks[n]) => Waiting(tasks[n].input) > 0
    /\ \A k \in DOMAIN tasks : k # n => tasks[k].input # tasks[n].input

\* A batch stays fresh if the socket of each of its inputs stays the same and keeps a
\* message, or is closed, or gives way to another one.
LEMMA FreshKept ==
  ASSUME Good, scheduler = "default", tasks' = tasks, SocketType',
         \A n \in DOMAIN tasks : LET i == tasks[n].input IN
           /\ socket[i].gen <= socket'[i].gen
           /\ socket'[i].open /\ socket'[i].gen = socket[i].gen =>
                socket[i].open /\ (Waiting(i) > 0 => Waiting(i)' > 0)
  PROVE  FreshTasks'
<1> SUFFICES ASSUME NEW n \in DOMAIN tasks
             PROVE  /\ tasks[n].gen <= socket'[tasks[n].input].gen
                    /\ Bound(tasks[n])' => Waiting(tasks[n].input)' > 0
                    /\ \A k \in DOMAIN tasks : k # n => tasks[k].input # tasks[n].input
  BY DEF FreshTasks
<1> DEFINE task == tasks[n]
<1>1. /\ task.gen <= socket[task.input].gen
      /\ Bound(task) => Waiting(task.input) > 0
      /\ \A k \in DOMAIN tasks : k # n => tasks[k].input # task.input
  BY DEF Good, BatchFresh
<1>2. task \in Task /\ task.gen \in Nat /\ task.input \in Input
  BY TasksTyped DEF Task
<1>3. socket[task.input].gen \in Nat /\ socket'[task.input].gen \in Nat
  BY <1>2 DEF Good, TypeOK, SocketType
<1>4. task.gen <= socket'[task.input].gen
  BY <1>1, <1>2, <1>3
<1>5. ASSUME Bound(task)' PROVE Waiting(task.input)' > 0
  <2>1. socket'[task.input].open /\ socket'[task.input].gen = task.gen
    BY <1>5 DEF Bound
  <2>2. socket'[task.input].gen = socket[task.input].gen
    BY <1>1, <1>2, <1>3, <2>1
  <2>3. Bound(task) /\ Waiting(task.input) > 0
    BY <1>1, <2>1, <2>2 DEF Bound
  <2> QED
    BY <2>1, <2>2, <2>3
<1> QED
  BY <1>1, <1>4, <1>5

\* setupSockets() and setupPoller().
LEMMA BuildGood == ASSUME Good, Build PROVE Good'
<1>1. /\ control # <<>> /\ control' = Tail(control) /\ phase' = "poll"
      /\ socket' = [i \in Input |-> [open |-> i \in Has(Port \cup Timer), gen |-> 0]]
      /\ UNCHANGED <<type, part, cur, tasks, last, unread, credit, spent, timerVars>>
      /\ tasks = <<>>
  BY DEF Build, Good, TasksThere
<1>2. TimersGood'
  BY <1>1, TimersSame DEF Good
<1>3. socket' \in [Input -> [open: BOOLEAN, gen: Nat]]
  BY <1>1
<1>4. TypeOK'
  BY <1>1, <1>2, <1>3 DEF Good, TypeOK, Phase, TimersGood
<1>5. TasksThere' /\ BatchFresh'
  BY <1>1 DEF TasksThere, BatchFresh
<1> QED
  BY <1>2, <1>4, <1>5 DEF Good

\* The next task is taken from the queue.
LEMMA RunTaskGood == ASSUME Good, RunTask PROVE Good'
<1> DEFINE rest == RemoveTask(tasks, NextTask)
           task == tasks[NextTask]
<1>1. /\ phase = "task" /\ tasks' = rest
      /\ last' = IF scheduler # "rr" THEN last
                 ELSE IF rest = <<>> THEN Tag(task) ELSE Tag(rest[Len(rest)])
      /\ \/ Bound(task) /\ phase' = "handler" /\ cur' = task
         \/ ~Bound(task) /\ phase' = Onward(rest) /\ cur' = NoTask
      /\ UNCHANGED <<type, part, control, socket, unread, credit, spent, timerVars>>
  BY DEF RunTask, StartTask
<1>2. tasks \in Seq(Task) /\ tasks # <<>> /\ NextTask \in DOMAIN tasks
  BY <1>1, NextTaskThere DEF Good, TypeOK, TasksThere
<1>3. /\ rest \in Seq(Task)
      /\ \A i \in DOMAIN rest : \E k \in DOMAIN tasks :
           k # NextTask /\ rest[i] = tasks[k] /\ k = (IF i < NextTask THEN i ELSE i + 1)
  <2> DEFINE n == NextTask
  <2> HIDE DEF n
  <2>1. n \in DOMAIN tasks
    BY <1>2 DEF n
  <2>2. LET r == RemoveTask(tasks, n) IN
        /\ r \in Seq(Task)
        /\ \A i \in DOMAIN r :
             IF i < n THEN i \in DOMAIN tasks /\ r[i] = tasks[i]
                      ELSE i + 1 \in DOMAIN tasks /\ r[i] = tasks[i + 1]
    BY <1>2, <2>1, RemoveType DEF RemoveTask
  <2>3. n \in Nat
    BY <1>2, <2>1
  <2> DEFINE r == RemoveTask(tasks, n)
  <2>4. r \in Seq(Task) /\ \A i \in DOMAIN r : i \in Nat
    BY <2>2
  <2>5. \A i \in DOMAIN r : \E k \in DOMAIN tasks :
          k # n /\ r[i] = tasks[k] /\ k = (IF i < n THEN i ELSE i + 1)
    <3> HIDE DEF r
    <3> SUFFICES ASSUME NEW i \in DOMAIN r
                 PROVE  \E k \in DOMAIN tasks :
                          k # n /\ r[i] = tasks[k] /\ k = (IF i < n THEN i ELSE i + 1)
      OBVIOUS
    <3>1. i \in Nat
      BY <2>4
    <3>2. CASE i < n
      BY <2>2, <2>3, <3>1, <3>2 DEF r
    <3>3. CASE ~ (i < n)
      BY <2>2, <2>3, <3>1, <3>3 DEF r
    <3> QED
      BY <3>2, <3>3
  <2> QED
    BY <2>4, <2>5 DEF n
<1> HIDE DEF rest
<1>4. task \in Task
  BY <1>2
<1>5. last' \in Int
  <2>1. rest # <<>> => rest[Len(rest)] \in Task
    BY <1>3
  <2>2. Tag(task) \in Int /\ (rest # <<>> => Tag(rest[Len(rest)]) \in Int)
    BY <1>4, <2>1, TagType
  <2> QED
    BY <1>1, <2>2 DEF Good, TypeOK
<1>6. TimersGood'
  BY <1>1, TimersSame DEF Good
<1>7. TypeOK'
  BY <1>1, <1>3, <1>4, <1>5, <1>6 DEF Good, TypeOK, Phase, Onward, TimersGood
<1>8. TasksThere'
  BY <1>1, <1>4 DEF TasksThere, Onward
<1>9. BatchFresh'
  <2> SUFFICES ASSUME scheduler = "default" PROVE BatchFresh'
    BY <1>1 DEF BatchFresh, scheduler
  <2>1. /\ \A n \in DOMAIN tasks :
             /\ tasks[n].gen <= socket[tasks[n].input].gen
             /\ Bound(tasks[n]) => Waiting(tasks[n].input) > 0
             /\ \A k \in DOMAIN tasks : k # n => tasks[k].input # tasks[n].input
    BY DEF Good, BatchFresh
  <2>2. \A n \in DOMAIN rest :
          /\ rest[n].gen <= socket[rest[n].input].gen
          /\ Bound(rest[n]) => Waiting(rest[n].input) > 0
          /\ rest[n].input # task.input
    BY <1>2, <1>3, <2>1
  <2>3. \A n, k \in DOMAIN rest : k # n => rest[k].input # rest[n].input
    <3> SUFFICES ASSUME NEW n \in DOMAIN rest, NEW k \in DOMAIN rest, k # n
                 PROVE  rest[k].input # rest[n].input
      OBVIOUS
    <3>1. PICK a \in DOMAIN tasks : rest[n] = tasks[a] /\ a = IF n < NextTask THEN n ELSE n + 1
      BY <1>3
    <3>2. PICK b \in DOMAIN tasks : rest[k] = tasks[b] /\ b = IF k < NextTask THEN k ELSE k + 1
      BY <1>3
    <3>3. n \in Int /\ k \in Int /\ NextTask \in Int
      BY <1>2, <1>3
    <3>4. a # b
      BY <3>1, <3>2, <3>3
    <3> QED
      BY <2>1, <3>1, <3>2, <3>4
  <2>4. phase' = "handler" => Waiting(task.input) > 0
    BY <1>1, <1>2, <2>1 DEF Onward
  <2>5. phase' # "inner" /\ (phase' = "poll" => rest = <<>>)
    BY <1>1 DEF Onward
  <2>6. phase' = "handler" => cur' = task
    BY <1>1 DEF Onward
  <2> HIDE DEF task
  <2> QED
    BY <1>1, <2>2, <2>3, <2>4, <2>5, <2>6 DEF BatchFresh, Bound, Waiting, timerVars
<1> QED
  BY <1>6, <1>7, <1>8, <1>9 DEF Good

\* The handler receives the message that its task was scheduled for.
LEMMA ReceiveGood == ASSUME Good, Receive PROVE Good'
<1>1. /\ phase = "handler" /\ phase' = "body" /\ Waiting(cur.input) > 0
      /\ UNCHANGED <<type, part, control, cur, tasks, last, socket, spent, cmds, tm>>
  BY DEF Receive
<1>2. cur \in Task /\ cur.input \in Input
  BY <1>1 DEF Good, TasksThere, Task
<1>3. TimersGood'
  BY <1>2, ReceiveKept DEF Good
<1>4. /\ unread' \in [Port \cup Group -> Nat]
      /\ \A i \in Input : i # cur.input => Waiting(i)' = Waiting(i)
  <2>1. CASE cur.input \in Timer
    <3>1. unread' = unread /\ ticks' = [ticks EXCEPT ![cur.input] = @ - 1]
      BY <2>1 DEF Receive
    <3> QED
      BY <3>1 DEF Good, TypeOK, TimerTypeOK, Waiting
  <2>2. CASE cur.input \notin Timer
    <3>1. /\ ticks' = ticks /\ unread' = [unread EXCEPT ![cur.input] = @ - 1]
          /\ unread[cur.input] > 0 /\ cur.input \in Port \cup Group
      BY <1>1, <1>2, <2>2 DEF Receive, Waiting, Input
    <3>2. unread[cur.input] \in Nat /\ unread[cur.input] - 1 \in Nat
      BY <3>1 DEF Good, TypeOK
    <3> QED
      BY <3>1, <3>2 DEF Good, TypeOK, Waiting
  <2> QED
    BY <2>1, <2>2
<1>5. TypeOK'
  BY <1>1, <1>3, <1>4 DEF Good, TypeOK, Phase, TimersGood
<1>6. TasksThere'
  BY <1>1, <1>2 DEF TasksThere
<1>7. BatchFresh'
  <2> SUFFICES ASSUME scheduler = "default" PROVE BatchFresh'
    BY <1>1 DEF BatchFresh, scheduler
  <2>1. \A n \in DOMAIN tasks : tasks[n].input # cur.input /\ tasks[n].input \in Input
    BY <1>1, TasksTyped DEF Good, BatchFresh, Task
  <2>2. FreshTasks'
    BY <1>1, <1>4, <1>5, <2>1, FreshKept DEF Good, TypeOK, SocketType
  <2> QED
    BY <1>1, <2>2 DEF BatchFresh, FreshTasks
<1> QED
  BY <1>3, <1>5, <1>6, <1>7 DEF Good

\* A new socket has a number of its own; a closed one is not polled.
LEMMA ChangeSocketType ==
  ASSUME Good, NEW i \in Port \cup Group,
         replaceSocket(i) \/ (i \in Group /\ (addGroupSocket(i) \/ delGroupSocket(i)))
  PROVE  /\ SocketType' /\ unread' \in [Port \cup Group -> Nat]
         /\ \A j \in Input : j # i =>
              socket'[j] = socket[j] /\ (j \in Port \cup Group => unread'[j] = unread[j])
         /\ socket[i].gen <= socket'[i].gen
         /\ socket'[i].open => socket[i].gen # socket'[i].gen
         /\ addGroupSocket(i) => ~socket[i].open /\ unread' = unread
<1>1. /\ i \in Input /\ socket[i].gen \in Nat /\ socket[i].gen + 1 \in Nat
      /\ socket[i].gen # socket[i].gen + 1 /\ socket[i].gen <= socket[i].gen + 1
      /\ socket[i].gen <= socket[i].gen /\ 0 \in Nat
  BY DEF Good, TypeOK, Input
<1> DEFINE number == socket[i].gen + 1
<1>2. CASE replaceSocket(i)
  <2> DEFINE new == [socket[i] EXCEPT !.gen = number]
  <2>1. socket' = [socket EXCEPT ![i] = new] /\ unread' = [unread EXCEPT ![i] = 0]
    BY <1>2 DEF replaceSocket
  <2>2. new \in [open: BOOLEAN, gen: Nat] /\ new.gen = number
    BY <1>1, Zenon DEF Good, TypeOK
  <2>3. ~ addGroupSocket(i) \/ (~socket[i].open /\ unread' = unread)
    BY DEF addGroupSocket
  <2> HIDE DEF new
  <2> QED
    BY <1>1, <2>1, <2>2, <2>3 DEF Good, TypeOK, SocketType
<1>3. CASE i \in Group /\ addGroupSocket(i)
  <2> DEFINE new == [open |-> TRUE, gen |-> number]
  <2>1. socket' = [socket EXCEPT ![i] = new] /\ unread' = unread /\ ~socket[i].open
    BY <1>3 DEF addGroupSocket
  <2>2. new \in [open: BOOLEAN, gen: Nat] /\ new.gen = number
    BY <1>1
  <2> HIDE DEF new
  <2> QED
    BY <1>1, <2>1, <2>2 DEF Good, TypeOK, SocketType
<1>4. CASE i \in Group /\ delGroupSocket(i)
  <2> DEFINE new == [socket[i] EXCEPT !.open = FALSE]
  <2>1. socket' = [socket EXCEPT ![i] = new] /\ unread' = [unread EXCEPT ![i] = 0]
    BY <1>4 DEF delGroupSocket
  <2>2. new \in [open: BOOLEAN, gen: Nat] /\ new.gen = socket[i].gen /\ new.open = FALSE
    BY <1>1, Zenon DEF Good, TypeOK
  <2>3. ~ addGroupSocket(i)
    BY <1>4 DEF addGroupSocket, delGroupSocket
  <2> HIDE DEF new
  <2> QED
    BY <1>1, <2>1, <2>2, <2>3 DEF Good, TypeOK, SocketType
<1> QED
  BY <1>2, <1>3, <1>4

\* The rest of a handler: a timer, a port or a group.
LEMMA HandlerBodyGood == ASSUME Good, HandlerBody PROVE Good'
<1>1. /\ phase = "body" /\ phase' = Onward(tasks) /\ cur' = NoTask
      /\ UNCHANGED <<type, part, control, tasks, last, spent>>
  BY DEF HandlerBody
<1>2. /\ TimersGood' /\ SocketType' /\ unread' \in [Port \cup Group -> Nat]
      /\ \A i \in Input :
           /\ socket[i].gen <= socket'[i].gen
           /\ socket'[i].open /\ socket'[i].gen = socket[i].gen =>
                socket[i].open /\ (Waiting(i) > 0 => Waiting(i)' > 0)
  <2>1. \A i \in Input : socket[i].gen \in Nat /\ socket[i].gen <= socket[i].gen
    BY DEF Good, TypeOK
  <2>2. CASE \E t \in Has(Timer) : SetTimer(t)
    <3>1. PICK t \in Timer : SetTimer(t)
      BY <2>2 DEF Has
    <3>2. UNCHANGED <<socket, unread, ticks>>
      BY <3>1 DEF SetTimer, launch, cancel, halt, setLength
    <3> QED
      BY <2>1, <3>1, <3>2, SetTimerKept DEF Good, TypeOK, SocketType, Waiting
  <2>3. CASE \E i \in Has(Port \cup Group) : ChangeSocket(i)
    <3>1. PICK i \in Port \cup Group : ChangeSocket(i)
      BY <2>3 DEF Has
    <3>2. UNCHANGED <<credit, timerVars>> /\ ticks' = ticks
      BY <3>1 DEF ChangeSocket, timerVars
    <3>3. TimersGood'
      BY <3>2, TimersSame DEF Good
    <3>4. /\ SocketType' /\ unread' \in [Port \cup Group -> Nat]
          /\ \A j \in Input : j # i =>
               socket'[j] = socket[j] /\ (j \in Port \cup Group => unread'[j] = unread[j])
          /\ socket[i].gen <= socket'[i].gen
          /\ socket'[i].open => socket[i].gen # socket'[i].gen
      BY <3>1, ChangeSocketType DEF ChangeSocket
    <3>5. ASSUME NEW j \in Input, j # i PROVE Waiting(j)' = Waiting(j)
      BY <3>2, <3>4, <3>5 DEF Waiting, Input
    <3> QED
      BY <2>1, <3>3, <3>4, <3>5
  <2>4. CASE NoOp
    BY <2>1, <2>4, TimersSame DEF NoOp, Good, TypeOK, SocketType, Waiting, timerVars
  <2> QED
    BY <2>2, <2>3, <2>4 DEF HandlerBody
<1>3. TypeOK'
  BY <1>1, <1>2 DEF Good, TypeOK, Phase, TimersGood, SocketType, Onward
<1>4. TasksThere'
  BY <1>1 DEF TasksThere, Onward
<1>5. BatchFresh'
  <2> SUFFICES ASSUME scheduler = "default" PROVE BatchFresh'
    BY <1>1 DEF BatchFresh, scheduler
  <2>1. \A n \in DOMAIN tasks : tasks[n].input \in Input
    BY TasksTyped DEF Task
  <2>2. FreshTasks'
    BY <1>1, <1>2, <2>1, FreshKept
  <2>3. phase' \notin {"inner", "handler"} /\ (phase' = "poll" => tasks = <<>>)
    BY <1>1 DEF Onward
  <2> QED
    BY <1>1, <2>2, <2>3 DEF BatchFresh, FreshTasks
<1> QED
  BY <1>2, <1>3, <1>4, <1>5 DEF Good

\* What was polled becomes tasks.
LEMMA ScheduleGood ==
  ASSUME Good, NEW S \in SUBSET Readable, schedule(S),
         \/ phase = "poll" /\ phase' = (IF S = {} THEN "poll" ELSE "task")
         \/ phase = "inner" /\ phase' = "task",
         control' \in Seq(Order), UNCHANGED <<type, part, spent, unread, ticks>>,
         TimersGood', SocketType',
         \A i \in Input : socket[i].open => socket'[i] = socket[i]
  PROVE  Good'
<1>1. S \in SUBSET Input /\ \A i \in S : socket[i].open /\ Waiting(i) > 0
  BY DEF Readable
<1>2. /\ tasks' \in Seq(Task) /\ last' \in Int /\ cur' = cur
      /\ S # {} \/ tasks # <<>> => tasks' # <<>>
      /\ S = {} => tasks' = tasks
      /\ scheduler = "default" /\ S # {} /\ tasks = <<>> =>
           \E s \in Orders(S) : tasks' = TasksOf(s)
  BY <1>1, Scheduled DEF Good, TypeOK, SocketType
<1>3. TypeOK'
  BY <1>2 DEF Good, TypeOK, SocketType, Phase, TimersGood
<1>4. TasksThere'
  BY <1>2 DEF Good, TasksThere
<1>5. BatchFresh'
  <2> SUFFICES ASSUME scheduler = "default" PROVE BatchFresh'
    BY DEF BatchFresh, scheduler
  <2>1. phase = "poll" /\ tasks = <<>>
    BY DEF Good, BatchFresh
  <2>2. CASE S = {}
    BY <1>2, <2>1, <2>2 DEF BatchFresh
  <2>3. CASE S # {}
    <3>1. PICK s \in Orders(S) : tasks' = TasksOf(s)
      BY <1>2, <2>1, <2>3
    <3>2. \A n \in DOMAIN tasks' : tasks'[n] = TaskOf(s[n]) /\ n \in DOMAIN s /\ s[n] \in S
      BY <1>1, <3>1, TasksOfType DEF Good, TypeOK, SocketType
    <3>3. \A m, n \in DOMAIN s : m # n => s[m] # s[n]
      BY <1>1, OrdersOnce
    <3>4. \A i \in S : /\ socket'[i] = socket[i] /\ socket[i].gen \in Nat
                       /\ Waiting(i)' > 0
      BY <1>1 DEF Good, TypeOK, Waiting
    <3>5. ASSUME NEW n \in DOMAIN tasks'
          PROVE  /\ tasks'[n].gen <= socket'[tasks'[n].input].gen
                 /\ IF tasks'[n].input \in Timer THEN ticks'[tasks'[n].input] > 0
                                                ELSE unread'[tasks'[n].input] > 0
                 /\ \A k \in DOMAIN tasks' : k # n => tasks'[k].input # tasks'[n].input
      <4>1. \A k \in DOMAIN tasks' : tasks'[k].input = s[k] /\ k \in DOMAIN s /\ s[k] \in S
        BY <3>2 DEF TaskOf
      <4>2. tasks'[n].gen = socket[s[n]].gen
        BY <3>2 DEF TaskOf
      <4>3. Waiting(s[n])' > 0 /\ socket'[s[n]].gen = socket[s[n]].gen /\ socket[s[n]].gen \in Nat
        BY <3>4, <4>1
      <4> QED
        BY <3>3, <4>1, <4>2, <4>3 DEF Waiting
    <3>6. phase' = "task"
      BY <2>1, <2>3
    <3> QED
      BY <3>5, <3>6 DEF BatchFresh, Waiting
  <2> QED
    BY <2>2, <2>3
<1> QED
  BY <1>3, <1>4, <1>5 DEF Good

\* A command is carried out, or ends the thread.
LEMMA CommandGood ==
  ASSUME Good, NEW S \in SUBSET Readable, NEW then, control # <<>>, runCommand(S, then),
         \/ phase = "poll" /\ then = (IF S = {} THEN "poll" ELSE "task")
         \/ phase = "inner" /\ then = "task",
         UNCHANGED <<type, part, credit, spent>>
  PROVE  Good'
<1>1. control' = Tail(control) /\ control' \in Seq(Order)
  BY DEF runCommand, Good, TypeOK
<1>2. CASE Obedient(Head(control), S, then)
  <2>1. phase' = then /\ schedule(S)
    BY <1>2 DEF Obedient
  <2>2. SocketType /\ \A i \in Input : socket[i].open \in BOOLEAN
    BY DEF Good, TypeOK, SocketType
  <2>3. CASE /\ activate(Has(Timer)) /\ UNCHANGED ticks /\ UNCHANGED tm
             /\ (\E g \in Has(Group) : addGroupSocket(g)) \/ UNCHANGED <<socket, unread>>
    <3>1. TimersGood'
      BY <2>3, ActivateKept DEF Good
    <3>2. CASE UNCHANGED <<socket, unread>>
      BY <1>1, <2>1, <2>2, <2>3, <3>1, <3>2, ScheduleGood DEF SocketType
    <3>3. CASE \E g \in Has(Group) : addGroupSocket(g)
      <4>1. PICK g \in Group : addGroupSocket(g)
        BY <3>3 DEF Has
      <4>2. /\ SocketType' /\ ~socket[g].open /\ unread' = unread
            /\ \A j \in Input : j # g => socket'[j] = socket[j]
        BY <4>1, ChangeSocketType
      <4> QED
        BY <1>1, <2>1, <2>3, <3>1, <4>2, ScheduleGood
    <3> QED
      BY <2>3, <3>2, <3>3
  <2>4. CASE deactivate(Has(Timer)) /\ UNCHANGED <<socket, unread, ticks, tm>>
    BY <1>1, <2>1, <2>2, <2>4, ActivateKept, ScheduleGood DEF Good, SocketType
  <2>5. CASE UNCHANGED <<socket, unread, timerVars>>
    <3>1. TimersGood' /\ ticks' = ticks
      BY <2>5, TimersSame DEF Good, timerVars
    <3> QED
      BY <1>1, <2>1, <2>2, <2>5, <3>1, ScheduleGood DEF SocketType
  <2> QED
    BY <1>2, <2>3, <2>4, <2>5 DEF Obedient
<1>3. CASE Dies(Head(control)) \/ Killed(Head(control))
  <2>1. /\ phase' \in {"died", "stopped"} /\ UNCHANGED <<cur, tasks, last, socket, unread>>
    BY <1>3 DEF Dies, Killed
  <2>2. TimersGood' /\ ticks' = ticks
    <3>1. CASE UNCHANGED timerVars
      BY <3>1, TimersSame DEF Good, timerVars
    <3>2. CASE activate(Has(Timer)) /\ UNCHANGED <<ticks, tm>>
      BY <3>2, ActivateKept DEF Good
    <3> QED
      BY <1>3, <3>1, <3>2 DEF Dies, Killed
  <2>3. TypeOK'
    BY <1>1, <2>1, <2>2 DEF Good, TypeOK, Phase, TimersGood
  <2>4. TasksThere'
    BY <2>1 DEF TasksThere
  <2>5. BatchFresh'
    BY <2>1, <2>2 DEF Good, BatchFresh, scheduler, Bound, Waiting
  <2> QED
    BY <2>2, <2>3, <2>4, <2>5 DEF Good
<1> QED
  BY <1>2, <1>3 DEF runCommand

\* Nothing is commanded, what came in is scheduled.
LEMMA InputGood ==
  ASSUME Good, NEW S \in SUBSET Readable, schedule(S),
         \/ phase = "poll" /\ phase' = (IF S = {} THEN "poll" ELSE "task")
         \/ phase = "inner" /\ phase' = "task",
         UNCHANGED <<type, part, control, spent, credit, socket, unread, timerVars>>
  PROVE  Good'
<1>1. TimersGood' /\ ticks' = ticks
  BY TimersSame DEF Good, timerVars
<1>2. control' \in Seq(Order) /\ SocketType'
  BY DEF Good, TypeOK, SocketType
<1> QED
  BY <1>1, <1>2, ScheduleGood

LEMMA PollGood == ASSUME Good, Poll PROVE Good'
<1> DEFINE S == Readable
           then == IF S = {} THEN "poll" ELSE "task"
<1>1. phase = "poll" /\ UNCHANGED <<type, part, credit, spent>>
  BY DEF Poll
<1>2. CASE control # <<>> /\ runCommand(S, then)
  BY <1>1, <1>2, CommandGood
<1>3. CASE /\ control = <<>> /\ phase' = then /\ schedule(S)
           /\ UNCHANGED <<control, socket, unread, timerVars>>
  BY <1>1, <1>3, InputGood
<1> QED
  BY <1>2, <1>3 DEF Poll

LEMMA InnerPollGood == ASSUME Good, InnerPoll PROVE Good'
<1>1. phase = "inner" /\ UNCHANGED <<type, part, credit, spent>>
  BY DEF InnerPoll
<1>2. CASE control # <<>> /\ runCommand(Readable, "task")
  BY <1>1, <1>2, CommandGood
<1> DEFINE S == IF scheduler = "rr" THEN {} ELSE Readable
<1>3. CASE /\ phase' = "task" /\ schedule(S)
           /\ UNCHANGED <<control, socket, unread, timerVars>>
  BY <1>1, <1>3, InputGood
<1> QED
  BY <1>2, <1>3 DEF InnerPoll

--------------------------------------------------------------------------------
(* The actor, the timer threads and what comes in *)

\* The thread is where it was, with its tasks, and no message is lost.
LEMMA ThreadSame ==
  ASSUME Good, UNCHANGED <<type, threadVars, socket>>, TimersGood',
         unread' \in [Port \cup Group -> Nat],
         \A i \in Input : Waiting(i) > 0 => Waiting(i)' > 0,
         part' \in PartState, control' \in Seq(Order), spent' \in Nat
  PROVE  Good'
<1>1. UNCHANGED <<phase, cur, tasks, last>>
  BY DEF threadVars
<1>2. TypeOK'
  BY <1>1 DEF Good, TypeOK, TimersGood
<1>3. TasksThere'
  BY <1>1 DEF Good, TasksThere
<1>4. BatchFresh'
  <2> SUFFICES ASSUME scheduler = "default" PROVE BatchFresh'
    BY DEF BatchFresh, scheduler
  <2>1. \A n \in DOMAIN tasks : tasks[n].input \in Input
    BY TasksTyped DEF Task
  <2>2. \A i \in Input : socket[i].gen \in Nat
    BY DEF Good, TypeOK
  <2>3. FreshTasks'
    BY <1>1, <1>2, <2>1, <2>2, FreshKept DEF TypeOK, SocketType
  <2>4. phase = "handler" => cur \in Task /\ Waiting(cur.input) > 0 /\ cur.input \in Input
    BY DEF Good, TasksThere, BatchFresh, Task
  <2>5. phase' = "handler" => Waiting(cur.input)' > 0
    BY <1>1, <2>4
  <2>6. /\ phase' # "inner" /\ (phase' = "poll" => tasks' = <<>>)
        /\ \A n \in DOMAIN tasks' : phase' = "handler" => tasks'[n].input # cur'.input
    BY <1>1 DEF Good, BatchFresh
  <2> QED
    BY <2>3, <2>5, <2>6 DEF BatchFresh, FreshTasks
<1> QED
  BY <1>2, <1>3, <1>4 DEF Good

LEMMA PartGood == ASSUME Good, Part PROVE Good'
<1>1. UNCHANGED <<type, threadVars, socket, unread, credit, timerVars>>
  BY DEF Part
<1>2. TimersGood' /\ ticks' = ticks /\ unread' = unread
  BY <1>1, TimersSame DEF Good, timerVars
<1>3. part' \in PartState /\ control' \in Seq(Order) /\ spent' \in Nat
  <2>1. control \in Seq(Order) /\ spent \in Nat /\ spent + 1 \in Nat
    BY DEF Good, TypeOK
  <2>2. \A o \in Order : Append(control, o) \in Seq(Order)
    BY <2>1
  <2>3. {"build", "activate", "deactivate", "kill", "notice"} \subseteq Order
    BY DEF Order
  <2>4. part \in PartState
    BY DEF Good, TypeOK
  <2> QED
    BY <2>1, <2>2, <2>3, <2>4 DEF Part, Setup, Built, Activate, Notify, Deactivate, Terminate,
       Joined, AllJoined, Drives, Command1, PartState
<1>4. unread' \in [Port \cup Group -> Nat] /\ \A i \in Input : Waiting(i)' = Waiting(i)
  BY <1>2 DEF Good, TypeOK, Waiting
<1> QED
  BY <1>1, <1>2, <1>3, <1>4, ThreadSame

LEMMA EndTimerGood == ASSUME Good, NEW t \in Timer, EndTimer(t) PROVE Good'
<1>1. /\ UNCHANGED <<type, part, control, threadVars, socket, unread, credit, spent>>
      /\ Send(t, "TERMINATE") /\ UNCHANGED <<ticks, tm>>
  BY DEF EndTimer, terminate
<1>2. TimersGood'
  <2>1. /\ credit' \in [Timer -> Int] /\ "TERMINATE" \in Command
        /\ credit'[t] = credit[t] + 0 /\ \A u \in Timer : credit'[u] = credit[u]
    BY <1>1 DEF Good, TypeOK, Command
  <2> QED
    BY <1>1, <2>1, SendKept DEF Good
<1> QED
  BY <1>1, <1>2, ThreadSame DEF Good, TypeOK, Waiting

LEMMA TimerGood ==
  ASSUME Good, NEW t \in Timer, Commanded(t) \/ Timeout(t) \/ Clock(t)
  PROVE  Good'
<1>1. UNCHANGED <<type, part, control, threadVars, socket, unread, credit, spent>>
  BY DEF Commanded, Timeout, Clock
<1>2. TimersGood'
  BY <1>1, ObeyKept, ExpireKept, ElapseKept DEF Commanded, Timeout, Clock, Good
<1>3. \A i \in Input : Waiting(i) > 0 => Waiting(i)' > 0
  <2>1. ticks' = ticks \/ ticks' = [ticks EXCEPT ![t] = @ + 1]
    BY DEF Commanded, Timeout, Clock, Obey, Expire, Elapse
  <2>2. ticks \in [Timer -> Nat]
    BY DEF Good, TypeOK, TimerTypeOK
  <2> QED
    BY <1>1, <2>1, <2>2 DEF Waiting
<1> QED
  BY <1>1, <1>2, <1>3, ThreadSame DEF Good, TypeOK

LEMMA ArriveGood == ASSUME Good, NEW i \in Port \cup Group, Arrive(i) PROVE Good'
<1>1. /\ unread' = [unread EXCEPT ![i] = @ + 1]
      /\ UNCHANGED <<type, part, control, threadVars, socket, credit, spent, timerVars>>
  BY DEF Arrive
<1>2. TimersGood' /\ ticks' = ticks
  BY <1>1, TimersSame DEF Good, timerVars
<1>3. unread \in [Port \cup Group -> Nat]
  BY DEF Good, TypeOK
<1>4. unread' \in [Port \cup Group -> Nat] /\ \A j \in Port \cup Group : unread[j] <= unread'[j]
  BY <1>1, <1>3
<1>5. \A j \in Input : Waiting(j) > 0 => Waiting(j)' > 0
  BY <1>2, <1>3, <1>4 DEF Waiting, Input
<1> QED
  BY <1>1, <1>2, <1>4, <1>5, ThreadSame DEF Good, TypeOK

--------------------------------------------------------------------------------
(* Theorems *)

LEMMA InitGood == ASSUME Init PROVE Good
<1>1. PICK lengths \in [Timer -> Periods], periodic \in SUBSET Timer :
        tm = [t \in Timer |->
               [alive |-> TRUE, periodic |-> t \in periodic, active |-> FALSE,
                running |-> FALSE, skip |-> FALSE, timeout |-> Forever, left |-> Forever,
                age |-> -1, length |-> lengths[t]]]
  BY DEF Init, TimerInit
<1>2. Forever \in Int /\ -1 \in Int
  BY DEF Forever
<1>3. ASSUME NEW t \in Timer PROVE tm[t] \in TimerState /\ tm[t].running = FALSE
  <2> DEFINE p == t \in periodic
  <2>1. p \in BOOLEAN /\ lengths[t] \in Periods
    OBVIOUS
  <2>2. tm[t] = [alive |-> TRUE, periodic |-> p, active |-> FALSE,
                 running |-> FALSE, skip |-> FALSE, timeout |-> Forever, left |-> Forever,
                 age |-> -1, length |-> lengths[t]]
    BY <1>1
  <2> DEFINE none == -1
  <2>3. none \in Int /\ TRUE \in BOOLEAN /\ FALSE \in BOOLEAN
    OBVIOUS
  <2> DEFINE r == [alive |-> TRUE, periodic |-> p, active |-> FALSE,
                   running |-> FALSE, skip |-> FALSE, timeout |-> Forever, left |-> Forever,
                   age |-> none, length |-> lengths[t]]
  <2>4. tm[t] = r
    BY <2>2
  <2> HIDE DEF p, none
  <2>5. r \in TimerState
    BY <1>2, <2>1, <2>3 DEF TimerState
  <2>6. r.running = FALSE
    OBVIOUS
  <2> HIDE DEF r
  <2> QED
    BY <2>4, <2>5, <2>6
<1>4. cmds = [t \in Timer |-> <<>>] /\ ticks = [t \in Timer |-> 0]
      /\ credit = [t \in Timer |-> 0]
  BY DEF Init, TimerInit
<1>5. <<>> \in Seq(Command) /\ Cardinality(Starts(<<>>)) = 0
  <2> DEFINE s == <<>>
  <2>1. s \in Seq(Command) /\ s = <<>>
    OBVIOUS
  <2> HIDE DEF s
  <2>2. Cardinality(Starts(s)) = 0
    BY <2>1, StartsNumber
  <2> QED
    BY <2>1, <2>2
<1>6. TimersGood
  <2>1. TimerTypeOK
    BY <1>1, <1>3, <1>4, <1>5 DEF TimerTypeOK
  <2>2. ASSUME NEW t \in Timer PROVE Due(t) = 0 /\ credit[t] = 0
    <3>1. ticks[t] = 0 /\ credit[t] = 0 /\ Cardinality(Starts(cmds[t])) = 0
      BY <1>4, <1>5
    <3>2. Runs(t) = 0
      BY <1>3 DEF Runs
    <3> QED
      BY <3>1, <3>2 DEF Due
  <2> QED
    BY <1>4, <2>1, <2>2 DEF TimersGood
<1>7. TypeOK
  BY <1>6 DEF Init, TypeOK, TimersGood, PartState, Phase, NoTask
<1>8. TasksThere /\ BatchFresh
  BY DEF Init, TasksThere, BatchFresh
<1> QED
  BY <1>6, <1>7, <1>8 DEF Good

LEMMA NextGood == ASSUME Good, [Next]_vars PROVE Good'
<1>1. CASE Thread
  BY <1>1, BuildGood, PollGood, InnerPollGood, RunTaskGood, ReceiveGood, HandlerBodyGood
     DEF Thread
<1>2. CASE Actor
  BY <1>2, PartGood, EndTimerGood DEF Actor
<1>3. CASE \E t \in Timer : Commanded(t) \/ Timeout(t) \/ Clock(t)
  BY <1>3, TimerGood
<1>4. CASE \E i \in Port \cup Group : Arrive(i)
  BY <1>4, ArriveGood
<1>5. CASE UNCHANGED vars
  <2>1. /\ UNCHANGED <<type, threadVars, socket, unread, credit, part, control, spent>>
        /\ UNCHANGED timerVars /\ ticks' = ticks
    BY <1>5 DEF vars, timerVars
  <2>2. TimersGood'
    BY <2>1, TimersSame DEF Good
  <2> QED
    BY <2>1, <2>2, ThreadSame DEF Good, TypeOK, Waiting
<1> QED
  BY <1>1, <1>2, <1>3, <1>4, <1>5 DEF Next

\* The invariant of a component, its timers and its scheduler: types, tasks that are
\* there when the thread goes on with one, a fresh batch, and timers within their
\* launches (Component.IInv).
THEOREM ComponentSafety == Spec => []IInv
<1>1. Spec => []Good
  BY InitGood, NextGood, PTL DEF Spec
<1> QED
  BY <1>1, GoodIsIInv, PTL

\* Under the default scheduler a handler is never called for a port without a message
\* (batchScheduler, executeHandlerFor), for any inputs, groups and timers.
THEOREM HandlersSee == Spec => []NoBlindHandler
BY ComponentSafety, PTL DEF IInv

\* A one-shot timer never ticks more often than it was launched (TimerThread.run),
\* for any timers, periods and commands on their way.
THEOREM OneShotsOnce == Spec => []OneShotOnce
BY ComponentSafety, PTL DEF IInv

--------------------------------------------------------------------------------
(* Message ports *)

\* The invariant, with what each kind of port adds.
PortsGood ==
  /\ PortsTypeOK
  /\ Routes
  /\ OwnComeBack
  /\ LastAwaited
  /\ \A c \in Lockstep : ~relaxed[c] => InTurn(c)

\* No port is of two kinds.
LEMMA Apart ==
  /\ \A c \in Conn : c \notin Bind
  /\ \A c \in Lockstep : c \in Conn /\ c \notin Sub /\ c \notin Qry /\ c \notin Plug /\ c \notin Bind
  /\ \A c \in Qry \cup Plug : c \in Conn /\ c \notin Sub /\ c \notin Lockstep
  /\ \A c \in Qry : c \notin Plug
  /\ \A c \in Sub : c \in Conn /\ c \notin Lockstep /\ c \notin Plug
  /\ \A b \in Ins : b \in Bind /\ b \notin Rep /\ b \notin Ans /\ b \notin Pub
  /\ \A b \in Rep : b \in Bind /\ b \notin Conn /\ b \notin Routed /\ b \notin Pub
  /\ \A b \in Routed : b \in Bind /\ b \notin Rep
  /\ \A b \in Pub : b \in Bind /\ b \notin Conn
BY PortsAssumption DEF Conn, Bind, Lockstep, Routed

LEMMA PortsGoodIsInv == PortsGood => PortsInv
BY Apart DEF PortsGood, PortsInv, AnswersReturn, OwnComeBack

\* The element of a queue.
LEMMA InQueue ==
  ASSUME PortsTypeOK, NEW x \in Conn \cup Bind, NEW n \in DOMAIN inbox[x]
  PROVE  inbox[x][n] \in Message /\ n \in Nat /\ n # 0 /\ n <= Len(inbox[x])
BY DEF PortsTypeOK

\* One message more at the end.
LEMMA OneMore ==
  ASSUME NEW s \in Seq(Message), NEW m \in Message
  PROVE  /\ Append(s, m) \in Seq(Message)
         /\ DOMAIN Append(s, m) = DOMAIN s \cup {Len(s) + 1}
         /\ Len(s) + 1 \notin DOMAIN s /\ Append(s, m)[Len(s) + 1] = m
         /\ \A n \in DOMAIN s : Append(s, m)[n] = s[n]
OBVIOUS

LEMMA NoPosition ==
  ASSUME NEW s \in Seq(Message), \A n \in DOMAIN s : FALSE
  PROVE  s = <<>>
<1>1. Len(s) \in Nat /\ DOMAIN s = 1 .. Len(s)
  OBVIOUS
<1>2. Len(s) = 0
  BY <1>1
<1> QED
  BY <1>2

LEMMA Longer ==
  ASSUME PortsTypeOK, NEW b \in Conn \cup Bind, NEW m \in Message,
         inbox' = inbox \/ inbox' = [inbox EXCEPT ![b] = Append(inbox[b], m)],
         NEW a \in Conn \cup Bind, NEW n \in DOMAIN inbox'[a]
  PROVE  \/ n \in DOMAIN inbox[a] /\ inbox'[a][n] = inbox[a][n]
         \/ a = b /\ n = Len(inbox[b]) + 1 /\ inbox'[a][n] = m
<1>1. CASE inbox' = inbox
  BY <1>1
<1>2. CASE inbox' = [inbox EXCEPT ![b] = Append(inbox[b], m)]
  <2>1. inbox[b] \in Seq(Message) /\ inbox \in [Conn \cup Bind -> Seq(Message)]
    BY DEF PortsTypeOK
  <2>2. CASE a # b
    BY <1>2, <2>1, <2>2
  <2>3. CASE a = b
    <3>1. inbox'[a] = Append(inbox[b], m)
      BY <1>2, <2>1, <2>3
    <3> QED
      BY <2>1, <2>3, <3>1, OneMore
  <2> QED
    BY <2>2, <2>3
<1> QED
  BY <1>1, <1>2

--------------------------------------------------------------------------------
(* Messages are taken out of a queue *)

\* Each element of r is an element of s, and none twice.
Within(r, s) ==
  \E f \in [DOMAIN r -> DOMAIN s] :
    /\ \A i \in DOMAIN r : r[i] = s[f[i]]
    /\ \A i, j \in DOMAIN r : f[i] = f[j] => i = j

LEMMA WithinItself == ASSUME NEW s \in Seq(Message) PROVE Within(s, s)
<1> DEFINE f == [i \in DOMAIN s |-> i]
<1>1. f \in [DOMAIN s -> DOMAIN s] /\ \A i \in DOMAIN s : f[i] = i
  OBVIOUS
<1> QED
  BY <1>1 DEF Within

LEMMA WithinEmpty == ASSUME NEW s \in Seq(Message) PROVE Within(<<>>, s)
<1> DEFINE r == <<>>
           f == [i \in {} |-> i]
<1>1. DOMAIN r = {}
  OBVIOUS
<1>2. f \in [DOMAIN r -> DOMAIN s]
  BY <1>1
<1> QED
  BY <1>1, <1>2 DEF Within

LEMMA WithinTail ==
  ASSUME NEW s \in Seq(Message), s # <<>>
  PROVE  /\ Tail(s) \in Seq(Message) /\ Within(Tail(s), s) /\ Head(s) \in Message
         /\ 1 \in DOMAIN s /\ Head(s) = s[1]
         /\ \A i \in DOMAIN Tail(s) : i + 1 \in DOMAIN s /\ i + 1 # 1 /\ Tail(s)[i] = s[i + 1]
<1> DEFINE r == Tail(s)
           f == [i \in DOMAIN r |-> i + 1]
<1>1. /\ r \in Seq(Message) /\ Head(s) \in Message /\ 1 \in DOMAIN s /\ Head(s) = s[1]
      /\ \A i \in DOMAIN r : i \in Nat /\ i # 0 /\ i + 1 \in DOMAIN s /\ r[i] = s[i + 1]
  OBVIOUS
<1> HIDE DEF r
<1>2. f \in [DOMAIN r -> DOMAIN s] /\ \A i \in DOMAIN r : f[i] = i + 1
  BY <1>1
<1>3. \A i, j \in DOMAIN r : f[i] = f[j] => i = j
  BY <1>1, <1>2
<1>4. \A i \in DOMAIN r : i + 1 # 1
  BY <1>1
<1>5. Within(r, s)
  BY <1>1, <1>2, <1>3 DEF Within
<1> QED
  BY <1>1, <1>4, <1>5 DEF r

LEMMA WithinRemoved ==
  ASSUME NEW s \in Seq(Message), NEW n \in DOMAIN s
  PROVE  RemoveAt(s, n) \in Seq(Message) /\ Within(RemoveAt(s, n), s)
<1> DEFINE r == RemoveAt(s, n)
           f == [i \in DOMAIN r |-> IF i < n THEN i ELSE i + 1]
<1>1. /\ r \in Seq(Message)
      /\ \A i \in DOMAIN r :
           IF i < n THEN i \in DOMAIN s /\ r[i] = s[i]
                    ELSE i + 1 \in DOMAIN s /\ r[i] = s[i + 1]
  BY RemoveType DEF RemoveAt
<1> HIDE DEF r
<1>2. n \in Nat /\ \A i \in DOMAIN r : i \in Nat
  BY <1>1
<1>3. f \in [DOMAIN r -> DOMAIN s] /\ \A i \in DOMAIN r : r[i] = s[f[i]]
  BY <1>1, <1>2
<1>4. \A i, j \in DOMAIN r : f[i] = f[j] => i = j
  BY <1>2
<1> QED
  BY <1>1, <1>3, <1>4 DEF Within, r

\* Fewer messages before a server: what holds of each, and of any two, still holds.
LEMMA FewerInTurn ==
  ASSUME PortsTypeOK, NEW c \in Lockstep, InTurn(c), NEW b \in Bind, NEW r, Within(r, inbox[b]),
         inbox' = [inbox EXCEPT ![b] = r], UNCHANGED <<gen, waits, busy>>
  PROVE  InTurn(c)'
<1>1. /\ inbox'[b] = r /\ inbox'[c] = inbox[c]
      /\ \A a \in Rep : a # b => inbox'[a] = inbox[a]
      /\ \A a \in Rep : a \in Bind
  BY Apart DEF PortsTypeOK
<1>2. PICK f \in [DOMAIN r -> DOMAIN inbox[b]] :
        /\ \A i \in DOMAIN r : r[i] = inbox[b][f[i]]
        /\ \A i, j \in DOMAIN r : f[i] = f[j] => i = j
  BY DEF Within
<1> DEFINE at(a, n) == IF a = b THEN f[n] ELSE n
<1>3. \A a \in Rep : \A n \in DOMAIN inbox'[a] :
        at(a, n) \in DOMAIN inbox[a] /\ inbox'[a][n] = inbox[a][at(a, n)]
  BY <1>1, <1>2
<1>4. \A a \in Rep : \A n, k \in DOMAIN inbox'[a] : at(a, n) = at(a, k) => n = k
  BY <1>1, <1>2
<1> HIDE DEF at
<1>5. ASSUME NEW a \in Rep, NEW n \in DOMAIN inbox'[a], UnderWay(inbox[a][n], c)'
      PROVE  /\ Current(inbox[a][n], c)'
             /\ inbox'[c] = <<>>
             /\ \A d \in Rep : busy'[d] # None => ~UnderWay(busy[d], c)'
             /\ \A d \in Rep : \A k \in DOMAIN inbox'[d] :
                  UnderWay(inbox[d][k], c)' => d = a /\ k = n
  <2> DEFINE m == inbox[a][at(a, n)]
  <2>1. inbox'[a][n] = m /\ at(a, n) \in DOMAIN inbox[a] /\ UnderWay(m, c)
    BY <1>3, <1>5 DEF UnderWay
  <2>2. /\ Current(m, c)
        /\ inbox[c] = <<>>
        /\ \A d \in Rep : busy[d] # None => ~UnderWay(busy[d], c)
        /\ \A d \in Rep : \A k \in DOMAIN inbox[d] :
             UnderWay(inbox[d][k], c) => d = a /\ k = at(a, n)
    BY <2>1 DEF InTurn
  <2>3. ASSUME NEW d \in Rep, NEW k \in DOMAIN inbox'[d], UnderWay(inbox[d][k], c)'
        PROVE  d = a /\ k = n
    <3>1. at(d, k) \in DOMAIN inbox[d] /\ UnderWay(inbox[d][at(d, k)], c)
      BY <1>3, <2>3 DEF UnderWay
    <3>2. d = a /\ at(d, k) = at(a, n)
      BY <2>2, <3>1
    <3> QED
      BY <1>4, <3>2
  <2> HIDE DEF m
  <2> QED
    BY <1>1, <2>1, <2>2, <2>3 DEF Current, UnderWay
<1>6. ASSUME NEW a \in Rep, busy'[a] # None, UnderWay(busy[a], c)'
      PROVE  /\ Current(busy[a], c)'
             /\ inbox'[c] = <<>>
             /\ \A d \in Rep : busy'[d] # None /\ UnderWay(busy[d], c)' => d = a
  BY <1>1, <1>6 DEF InTurn, UnderWay, Current
<1>7. \A n \in DOMAIN inbox'[c] : n = 1 /\ inbox'[c][n].number = waits'[c] /\ waits'[c] # 0
  BY <1>1 DEF InTurn
<1> QED
  BY <1>5, <1>6, <1>7 DEF InTurn

\* Nothing that concerns c changes.
LEMMA SameInTurn ==
  ASSUME NEW c \in Lockstep, InTurn(c),
         \A x \in Rep \cup {c} : inbox'[x] = inbox[x],
         gen'[c] = gen[c], waits'[c] = waits[c], UNCHANGED busy
  PROVE  InTurn(c)'
BY DEF InTurn, Current, UnderWay

LEMMA FewerGood ==
  ASSUME PortsGood, NEW b \in Bind, NEW r \in Seq(Message), Within(r, inbox[b]),
         inbox' = [inbox EXCEPT ![b] = r],
         UNCHANGED <<world, connVars, waits, sent, busy, got>>,
         identity' \in [Bind -> Ident \cup {None}], open' \in [Bind -> SUBSET Message],
         \A a \in Bind : \A query \in open'[a] : query.from \in Conn \ Lockstep /\ Talks(query.from, a),
         dead' \subseteq Bind
  PROVE  PortsGood'
<1>1. /\ UNCHANGED <<servers, linked, gen, relaxed>> /\ inbox'[b] = r
      /\ \A x \in Conn \cup Bind : x # b => inbox'[x] = inbox[x]
  BY DEF connVars, PortsGood, PortsTypeOK
<1>2. PortsTypeOK'
  BY <1>1 DEF PortsGood, PortsTypeOK
<1>3. \A n \in DOMAIN r : \E k \in DOMAIN inbox[b] : r[n] = inbox[b][k]
  BY DEF Within
<1>4. Routes'
  <2>1. \A a \in Bind : \A n \in DOMAIN inbox'[a] : \E k \in DOMAIN inbox[a] :
          inbox'[a][n] = inbox[a][k]
    BY <1>1, <1>3
  <2>2. \A a \in Bind : \A k \in DOMAIN inbox[a] : Asked(inbox[a][k], a)
    BY DEF PortsGood, Routes
  <2> QED
    BY <1>1, <2>1, <2>2 DEF PortsGood, Routes, Asked
<1>5. OwnComeBack'
  BY <1>1, Apart DEF PortsGood, OwnComeBack
<1>6. LastAwaited'
  BY DEF PortsGood, LastAwaited
<1>7. \A c \in Lockstep : ~relaxed'[c] => InTurn(c)'
  BY <1>1, FewerInTurn DEF PortsGood
<1> QED
  BY <1>2, <1>4, <1>5, <1>6, <1>7 DEF PortsGood

LEMMA LoseGood ==
  ASSUME PortsGood, NEW b \in Bind, NEW n \in DOMAIN inbox[b], Lose(b, n)
  PROVE  PortsGood'
<1>1. inbox[b] \in Seq(Message)
  BY DEF PortsGood, PortsTypeOK
<1>2. inbox' = [inbox EXCEPT ![b] = RemoveAt(inbox[b], n)]
  BY DEF Lose
<1> QED
  BY <1>1, <1>2, WithinRemoved, FewerGood DEF Lose, bindVars, PortsGood, PortsTypeOK, Routes

LEMMA CrashGood == ASSUME PortsGood, NEW b \in Bind, Crash(b) PROVE PortsGood'
<1> DEFINE r == <<>>
<1>1. inbox[b] \in Seq(Message) /\ r \in Seq(Message)
  BY DEF PortsGood, PortsTypeOK
<1>2. Within(r, inbox[b])
  BY <1>1, WithinEmpty
<1>3. inbox' = [inbox EXCEPT ![b] = r] /\ dead' \subseteq Bind
  BY DEF Crash, PortsGood, PortsTypeOK
<1> HIDE DEF r
<1> QED
  BY <1>1, <1>2, <1>3, FewerGood DEF Crash, PortsGood, PortsTypeOK, Routes

LEMMA ReceiveQueryGood == ASSUME PortsGood, NEW b \in Bind, ReceiveQuery(b) PROVE PortsGood'
<1> DEFINE m == Head(inbox[b])
<1>1. /\ b \in Routed /\ inbox[b] # <<>> /\ inbox[b] \in Seq(Message)
      /\ inbox' = [inbox EXCEPT ![b] = Tail(inbox[b])]
      /\ identity' = [identity EXCEPT ![b] = Identity[m.from]]
      /\ open' = [open EXCEPT ![b] = @ \cup {m}]
  BY DEF ReceiveQuery, PortsGood, PortsTypeOK
<1>2. /\ Tail(inbox[b]) \in Seq(Message) /\ Within(Tail(inbox[b]), inbox[b])
      /\ m \in Message /\ 1 \in DOMAIN inbox[b] /\ m = inbox[b][1]
  BY <1>1, WithinTail
<1>3. m.from \in Conn \ Lockstep /\ Talks(m.from, b) /\ Identity[m.from] \in Ident
  <2>1. Asked(m, b)
    BY <1>2 DEF PortsGood, Routes
  <2>2. m.from \in Conn /\ Talks(m.from, b)
    BY <2>1 DEF Asked
  <2> HIDE DEF m
  <2> QED
    BY <1>1, <2>2, Apart DEF Talks, Ident
<1> HIDE DEF m
<1>4. identity' \in [Bind -> Ident \cup {None}] /\ open' \in [Bind -> SUBSET Message]
  BY <1>1, <1>2, <1>3 DEF PortsGood, PortsTypeOK
<1>5. \A a \in Bind : \A query \in open'[a] : query.from \in Conn \ Lockstep /\ Talks(query.from, a)
  BY <1>1, <1>3 DEF PortsGood, PortsTypeOK, Routes
<1> QED
  BY <1>1, <1>2, <1>4, <1>5, FewerGood DEF ReceiveQuery, PortsGood, PortsTypeOK

--------------------------------------------------------------------------------
(* Connecting ports *)

\* update() and setupPlug(): only servers of the kind that the port talks to.
LEMMA ConnectGood ==
  ASSUME PortsGood, NEW c \in Conn, NEW b \in Bind, update(c, b) \/ setupPlug(c, b)
  PROVE  PortsGood'
<1>1. /\ servers' \in [Conn -> SUBSET Bind] /\ linked' \in [Conn -> SUBSET Bind]
      /\ \A d \in Conn : \A a \in servers'[d] \cup linked'[d] :
           a \in servers[d] \cup linked[d] \/ (d = c /\ a = b)
      /\ b \in Servers(c)
      /\ UNCHANGED <<world, gen, relaxed, waits, sent, inbox, busy, identity, open, dead, got>>
  <2>1. servers \in [Conn -> SUBSET Bind] /\ linked \in [Conn -> SUBSET Bind]
    BY DEF PortsGood, PortsTypeOK
  <2>2. CASE update(c, b)
    BY <2>1, <2>2 DEF update, bindVars
  <2>3. CASE setupPlug(c, b)
    BY <2>1, <2>3 DEF setupPlug, bindVars
  <2> QED
    BY <2>2, <2>3
<1>2. Talks(c, b)
  <2>1. b \in Servers(c) => b \in CASE c \in Req \cup Clt -> Rep
               [] c \in Qry -> Ans
               [] c \in Sub -> Pub
               [] OTHER -> Ins
    BY DEF Servers
  <2> QED
    BY <1>1, <2>1, PortsAssumption DEF Lockstep, Talks, Conn
<1>3. PortsTypeOK'
  BY <1>1 DEF PortsGood, PortsTypeOK
<1>4. Routes'
  BY <1>1, <1>2 DEF PortsGood, Routes, Asked
<1>5. OwnComeBack' /\ LastAwaited'
  BY <1>1 DEF PortsGood, OwnComeBack, LastAwaited
<1>6. \A d \in Lockstep : ~relaxed'[d] => InTurn(d)'
  BY <1>1, SameInTurn DEF PortsGood
<1> QED
  BY <1>3, <1>4, <1>5, <1>6 DEF PortsGood

\* A message at the end of the queue of a server that is not of c, or not with its
\* present socket.
LEMMA MoreInTurn ==
  ASSUME PortsTypeOK, NEW c \in Lockstep, InTurn(c), NEW b \in Bind, NEW m \in Message,
         b \in Rep => ~UnderWay(m, c),
         inbox' = [inbox EXCEPT ![b] = Append(@, m)],
         gen'[c] = gen[c], waits'[c] = waits[c], UNCHANGED busy
  PROVE  InTurn(c)'
<1>1. CASE b \notin Rep
  <2>1. \A x \in Rep \cup {c} : inbox'[x] = inbox[x]
    BY <1>1, Apart DEF PortsTypeOK
  <2> QED
    BY <2>1, SameInTurn
<1>2. CASE b \in Rep
  <2>1. /\ inbox[b] \in Seq(Message) /\ inbox'[b] = Append(inbox[b], m)
        /\ inbox'[c] = inbox[c]
        /\ \A a \in Rep : a # b => inbox'[a] = inbox[a]
    BY Apart DEF PortsTypeOK
  <2>2. \A a \in Rep : \A n \in DOMAIN inbox'[a] :
          \/ n \in DOMAIN inbox[a] /\ inbox'[a][n] = inbox[a][n]
          \/ inbox'[a][n] = m
    BY <2>1, OneMore
  <2>3. \A a \in Rep : \A n \in DOMAIN inbox'[a] : UnderWay(inbox[a][n], c)' =>
          n \in DOMAIN inbox[a] /\ inbox'[a][n] = inbox[a][n] /\ UnderWay(inbox[a][n], c)
    BY <1>2, <2>2 DEF UnderWay
  <2>4. ASSUME NEW a \in Rep, NEW n \in DOMAIN inbox'[a], UnderWay(inbox[a][n], c)'
        PROVE  /\ Current(inbox[a][n], c)'
               /\ inbox'[c] = <<>>
               /\ \A d \in Rep : busy'[d] # None => ~UnderWay(busy[d], c)'
               /\ \A d \in Rep : \A k \in DOMAIN inbox'[d] :
                    UnderWay(inbox[d][k], c)' => d = a /\ k = n
    <3>1. n \in DOMAIN inbox[a] /\ inbox'[a][n] = inbox[a][n] /\ UnderWay(inbox[a][n], c)
      BY <2>3, <2>4
    <3>2. /\ Current(inbox[a][n], c)
          /\ inbox[c] = <<>>
          /\ \A d \in Rep : busy[d] # None => ~UnderWay(busy[d], c)
          /\ \A d \in Rep : \A k \in DOMAIN inbox[d] :
               UnderWay(inbox[d][k], c) => d = a /\ k = n
      BY <3>1 DEF InTurn
    <3>3. Current(inbox[a][n], c)' /\ \A d \in Rep : busy'[d] # None => ~UnderWay(busy[d], c)'
      BY <3>1, <3>2 DEF Current, UnderWay
    <3> QED
      BY <2>1, <2>3, <3>2, <3>3
  <2>5. ASSUME NEW a \in Rep, busy'[a] # None, UnderWay(busy[a], c)'
        PROVE  /\ Current(busy[a], c)'
               /\ inbox'[c] = <<>>
               /\ \A d \in Rep : busy'[d] # None /\ UnderWay(busy[d], c)' => d = a
    BY <2>1, <2>5 DEF InTurn, UnderWay, Current
  <2>6. \A n \in DOMAIN inbox'[c] : n = 1 /\ inbox'[c][n].number = waits'[c] /\ waits'[c] # 0
    BY <2>1 DEF InTurn
  <2> QED
    BY <2>4, <2>5, <2>6 DEF InTurn
<1> QED
  BY <1>1, <1>2

\* A message is on its way to a server, or lost because that has died.
LEMMA DeliveredGood ==
  ASSUME PortsGood, NEW c \in Conn, NEW b \in linked[c], Delivered(c, b),
         UNCHANGED <<connVars, bindVars>>
  PROVE  /\ b \in Bind /\ (c \in Lockstep <=> b \in Rep)
         /\ sent[c] + 1 \in Nat
         /\ LET m == [from |-> c, number |-> sent[c] + 1, gen |-> gen[c]]
            IN  /\ m \in Message
                /\ inbox' = inbox \/ inbox' = [inbox EXCEPT ![b] = Append(inbox[b], m)]
         /\ inbox' \in [Conn \cup Bind -> Seq(Message)]
         /\ Routes' /\ OwnComeBack'
<1> DEFINE m == [from |-> c, number |-> sent[c] + 1, gen |-> gen[c]]
<1>1. b \in Bind /\ Talks(c, b) /\ (c \in Lockstep <=> b \in Rep)
  BY DEF PortsGood, PortsTypeOK, Routes, Talks
<1>2. sent[c] \in Nat /\ sent[c] + 1 \in Nat /\ gen[c] \in Nat /\ inbox[b] \in Seq(Message)
  BY <1>1 DEF PortsGood, PortsTypeOK
<1>3. m \in Message
  BY <1>2 DEF Message
<1>4. m.from = c /\ m.gen = gen[c] /\ gen[c] <= gen[c]
  BY <1>2
<1>5. inbox' = inbox \/ inbox' = [inbox EXCEPT ![b] = Append(inbox[b], m)]
  BY DEF Delivered
<1> HIDE DEF m
<1>6. inbox' \in [Conn \cup Bind -> Seq(Message)]
  <2>1. Append(inbox[b], m) \in Seq(Message) /\ inbox \in [Conn \cup Bind -> Seq(Message)]
    BY <1>2, <1>3, OneMore DEF PortsGood, PortsTypeOK
  <2> QED
    BY <1>1, <1>5, <2>1
<1>7. \A a \in Conn \cup Bind : \A n \in DOMAIN inbox'[a] :
        \/ n \in DOMAIN inbox[a] /\ inbox'[a][n] = inbox[a][n]
        \/ a = b /\ inbox'[a][n] = m
  BY <1>1, <1>3, <1>5, Longer DEF PortsGood
<1>8. UNCHANGED <<servers, linked, gen, busy, open>>
  BY DEF connVars, bindVars
<1>9. Routes'
  <2>1. Asked(m, b)
    BY <1>1, <1>4 DEF Asked
  <2>2. \A a \in Bind : \A n \in DOMAIN inbox'[a] : Asked(inbox'[a][n], a)
    BY <1>7, <2>1 DEF PortsGood, Routes
  <2> QED
    BY <1>8, <2>2 DEF PortsGood, Routes, Asked
<1>10. OwnComeBack'
  BY <1>1, <1>7, Apart DEF PortsGood, OwnComeBack
<1> QED
  BY <1>1, <1>2, <1>3, <1>5, <1>6, <1>9, <1>10 DEF m

\* send() of a req or clt port: a socket that sends in turn has nothing under way.
LEMMA SendRequestGood ==
  ASSUME PortsGood, NEW c \in Conn, NEW b \in Bind, SendRequest(c, b)
  PROVE  PortsGood'
<1> DEFINE m == [from |-> c, number |-> sent[c] + 1, gen |-> gen[c]]
<1>1. /\ c \in Lockstep /\ b \in linked[c] /\ (waits[c] = 0 \/ relaxed[c])
      /\ waits' = [waits EXCEPT ![c] = sent[c] + 1]
      /\ sent' = [sent EXCEPT ![c] = sent[c] + 1]
      /\ Delivered(c, b)
      /\ UNCHANGED <<world, connVars, bindVars, got>>
  BY DEF SendRequest
<1>2. UNCHANGED <<servers, linked, gen, relaxed, busy, identity, open, dead>>
  BY <1>1 DEF connVars, bindVars
<1>3. /\ b \in Rep /\ sent[c] + 1 \in Nat /\ sent[c] \in Nat
      /\ m \in Message
      /\ inbox' = inbox \/ inbox' = [inbox EXCEPT ![b] = Append(inbox[b], m)]
      /\ inbox' \in [Conn \cup Bind -> Seq(Message)]
      /\ Routes' /\ OwnComeBack'
  BY <1>1, DeliveredGood DEF PortsGood, PortsTypeOK
<1>4. /\ waits'[c] = sent[c] + 1 /\ sent'[c] = sent[c] + 1 /\ waits'[c] # 0
      /\ \A d \in Conn \ {c} : waits'[d] = waits[d] /\ sent'[d] = sent[d]
  BY <1>1, <1>3 DEF PortsGood, PortsTypeOK
<1>5. PortsTypeOK'
  BY <1>1, <1>2, <1>3 DEF PortsGood, PortsTypeOK
<1>6. LastAwaited'
  BY <1>4, Apart DEF PortsGood, LastAwaited
<1>7. ASSUME NEW d \in Lockstep \ {c}, ~relaxed[d] PROVE InTurn(d)'
  <2>1. InTurn(d) /\ waits'[d] = waits[d] /\ gen'[d] = gen[d]
    BY <1>2, <1>4, <1>7, Apart DEF PortsGood
  <2>2. ~UnderWay(m, d)
    BY DEF UnderWay
  <2> HIDE DEF m
  <2> QED
    BY <1>2, <1>3, <2>1, <2>2, Apart, SameInTurn, MoreInTurn DEF PortsGood
<1>8. ASSUME ~relaxed[c] PROVE InTurn(c)'
  <2>1. waits[c] = 0 /\ InTurn(c)
    BY <1>1, <1>8 DEF PortsGood
  <2>2. /\ \A a \in Rep : \A n \in DOMAIN inbox[a] : ~UnderWay(inbox[a][n], c)
        /\ \A a \in Rep : busy[a] # None => ~UnderWay(busy[a], c)
        /\ \A n \in DOMAIN inbox[c] : FALSE
    BY <2>1 DEF InTurn, Current
  <2>3. inbox[c] \in Seq(Message) /\ inbox[b] \in Seq(Message) /\ c # b
    BY <1>1, Apart DEF PortsGood, PortsTypeOK
  <2>4. inbox[c] = <<>>
    BY <2>2, <2>3, NoPosition
  <2>5. inbox'[c] = <<>>
    BY <1>3, <2>3, <2>4 DEF PortsGood, PortsTypeOK
  <2>6. m.from = c /\ m.gen = gen[c] /\ m.number = waits'[c]
    BY <1>4
  <2> HIDE DEF m
  <2>7. \A a \in Rep : \A n \in DOMAIN inbox'[a] :
          \/ n \in DOMAIN inbox[a] /\ inbox'[a][n] = inbox[a][n]
          \/ a = b /\ n = Len(inbox[b]) + 1 /\ inbox'[a][n] = m
    BY <1>3, Longer, Apart DEF PortsGood
  <2>8. \A a \in Rep : \A n \in DOMAIN inbox'[a] : UnderWay(inbox[a][n], c)' =>
          a = b /\ n = Len(inbox[b]) + 1 /\ Current(inbox[a][n], c)'
    BY <1>2, <1>4, <2>2, <2>6, <2>7 DEF UnderWay, Current
  <2>9. \A a \in Rep : busy'[a] # None => ~UnderWay(busy[a], c)'
    BY <1>2, <2>2 DEF UnderWay
  <2>10. \A n \in DOMAIN inbox'[c] : FALSE
    BY <2>5
  <2> QED
    BY <2>5, <2>8, <2>9, <2>10 DEF InTurn
<1>9. \A d \in Lockstep : ~relaxed'[d] => InTurn(d)'
  BY <1>2, <1>7, <1>8
<1> QED
  BY <1>3, <1>5, <1>6, <1>9 DEF PortsGood

\* send() of a qry port or a plug: no rep port hears it.
LEMMA SendQueryGood ==
  ASSUME PortsGood, NEW c \in Conn, NEW b \in Bind, SendQuery(c, b)
  PROVE  PortsGood'
<1> DEFINE m == [from |-> c, number |-> sent[c] + 1, gen |-> gen[c]]
<1>1. /\ c \in Qry \cup Plug /\ b \in linked[c]
      /\ sent' = [sent EXCEPT ![c] = sent[c] + 1]
      /\ Delivered(c, b)
      /\ UNCHANGED <<world, connVars, bindVars, got, waits>>
  BY DEF SendQuery
<1>2. UNCHANGED <<servers, linked, gen, relaxed, busy, identity, open, dead>>
  BY <1>1 DEF connVars, bindVars
<1>3. /\ b \notin Rep /\ sent[c] + 1 \in Nat /\ m \in Message
      /\ inbox' = inbox \/ inbox' = [inbox EXCEPT ![b] = Append(inbox[b], m)]
      /\ inbox' \in [Conn \cup Bind -> Seq(Message)]
      /\ Routes' /\ OwnComeBack'
  BY <1>1, DeliveredGood, Apart DEF PortsGood, PortsTypeOK
<1>4. PortsTypeOK'
  BY <1>1, <1>2, <1>3 DEF PortsGood, PortsTypeOK
<1>5. LastAwaited'
  BY <1>1, Apart DEF PortsGood, LastAwaited, PortsTypeOK
<1> HIDE DEF m
<1>6. \A x \in Rep \cup Conn : inbox'[x] = inbox[x]
  BY <1>3, Apart DEF PortsGood, PortsTypeOK
<1>7. \A d \in Lockstep : ~relaxed'[d] => InTurn(d)'
  BY <1>1, <1>2, <1>6, Apart, SameInTurn DEF PortsGood
<1> QED
  BY <1>3, <1>4, <1>5, <1>7 DEF PortsGood

\* recv() of a req or clt port.  What is returned, is the reply to the last request.
LEMMA Returned ==
  ASSUME PortsGood, NEW c \in Lockstep, ReceiveReply(c)
  PROVE  \E n \in DOMAIN inbox[c] :
           /\ inbox[c][n] \in Message
           /\ got' = [got EXCEPT ![c] = inbox[c][n]]
           /\ inbox' = [inbox EXCEPT ![c] = SubSeq(inbox[c], n + 1, Len(inbox[c]))]
           /\ inbox[c][n].from = c /\ inbox[c][n].number = sent[c]
           /\ ~relaxed[c] => n = 1 /\ \A k \in DOMAIN inbox[c] : k = 1
<1>1. PICK n \in Correlated(c) :
        /\ got' = [got EXCEPT ![c] = inbox[c][n]]
        /\ inbox' = [inbox EXCEPT ![c] = SubSeq(inbox[c], n + 1, Len(inbox[c]))]
  BY DEF ReceiveReply
<1>2. n \in DOMAIN inbox[c] /\ (relaxed[c] => inbox[c][n].number = waits[c])
  BY <1>1 DEF Correlated
<1>3. inbox[c][n] \in Message /\ inbox[c][n].from = c
  BY <1>2, InQueue, Apart DEF PortsGood, OwnComeBack
<1>4. waits[c] = sent[c]
  BY DEF ReceiveReply, PortsGood, LastAwaited
<1>5. ~relaxed[c] => /\ n = 1 /\ inbox[c][n].number = waits[c]
                     /\ \A k \in DOMAIN inbox[c] : k = 1
  BY <1>2 DEF PortsGood, InTurn
<1> QED
  BY <1>1, <1>2, <1>3, <1>4, <1>5

\* The end of a queue.
LEMMA Rest ==
  ASSUME NEW s \in Seq(Message), NEW n \in DOMAIN s
  PROVE  LET r == SubSeq(s, n + 1, Len(s))
         IN  /\ r \in Seq(Message)
             /\ \A k \in DOMAIN r : \E i \in DOMAIN s : r[k] = s[i]
             /\ (\A k \in DOMAIN s : k = 1) => r = <<>>
<1> DEFINE r == SubSeq(s, n + 1, Len(s))
<1>1. Len(s) \in Nat /\ DOMAIN s = 1 .. Len(s) /\ n \in 1 .. Len(s)
  OBVIOUS
<1>2. r \in Seq(Message)
  BY <1>1
<1>3. \A k \in DOMAIN r : k + n \in DOMAIN s /\ r[k] = s[k + n]
  BY <1>1
<1>4. ASSUME \A k \in DOMAIN s : k = 1 PROVE r = <<>>
  <2>1. n = 1
    BY <1>4
  <2>2. \A k \in DOMAIN r : FALSE
    <3>1. \A k \in DOMAIN r : k \in Nat /\ k # 0 /\ k + 1 = 1
      BY <1>3, <1>4, <2>1, <1>2
    <3> QED
      BY <3>1
  <2> HIDE DEF r
  <2> QED
    BY <1>2, <2>2, NoPosition
<1> QED
  BY <1>2, <1>3, <1>4

LEMMA ReceiveReplyGood == ASSUME PortsGood, NEW c \in Conn, ReceiveReply(c) PROVE PortsGood'
<1>1. /\ c \in Lockstep /\ waits[c] # 0
      /\ waits' = [waits EXCEPT ![c] = 0]
      /\ UNCHANGED <<world, connVars, sent, bindVars>>
  BY DEF ReceiveReply
<1>2. UNCHANGED <<servers, linked, gen, relaxed, busy, identity, open, dead>>
  BY <1>1 DEF connVars, bindVars
<1>3. PICK n \in DOMAIN inbox[c] :
        /\ inbox[c][n] \in Message
        /\ got' = [got EXCEPT ![c] = inbox[c][n]]
        /\ inbox' = [inbox EXCEPT ![c] = SubSeq(inbox[c], n + 1, Len(inbox[c]))]
        /\ ~relaxed[c] => \A k \in DOMAIN inbox[c] : k = 1
  BY <1>1, Returned
<1> DEFINE r == SubSeq(inbox[c], n + 1, Len(inbox[c]))
<1>4. inbox[c] \in Seq(Message) /\ inbox \in [Conn \cup Bind -> Seq(Message)]
  BY DEF PortsGood, PortsTypeOK
<1>5. /\ r \in Seq(Message)
      /\ \A k \in DOMAIN r : \E i \in DOMAIN inbox[c] : r[k] = inbox[c][i]
      /\ ~relaxed[c] => r = <<>>
  BY <1>3, <1>4, Rest
<1> HIDE DEF r
<1>6. /\ inbox' = [inbox EXCEPT ![c] = r] /\ inbox'[c] = r
      /\ inbox' \in [Conn \cup Bind -> Seq(Message)]
      /\ \A x \in Conn \cup Bind : x # c => inbox'[x] = inbox[x]
  BY <1>3, <1>4, <1>5 DEF r
<1>7. waits'[c] = 0 /\ \A d \in Conn : d # c => waits'[d] = waits[d]
  BY <1>1 DEF PortsGood, PortsTypeOK
<1>8. PortsTypeOK'
  BY <1>1, <1>2, <1>3, <1>6 DEF PortsGood, PortsTypeOK
<1>9. Routes'
  BY <1>2, <1>6, Apart DEF PortsGood, Routes, Asked
<1>10. OwnComeBack'
  BY <1>5, <1>6 DEF PortsGood, OwnComeBack
<1>11. LastAwaited'
  BY <1>1, <1>7, Apart DEF PortsGood, LastAwaited
<1>12. ASSUME NEW d \in Lockstep \ {c}, ~relaxed[d] PROVE InTurn(d)'
  BY <1>2, <1>6, <1>7, <1>12, Apart, SameInTurn DEF PortsGood
<1>13. ASSUME ~relaxed[c] PROVE InTurn(c)'
  <2>1. inbox[c] # <<>> /\ InTurn(c)
    BY <1>1, <1>3, <1>13 DEF PortsGood
  <2>2. /\ \A a \in Rep : \A k \in DOMAIN inbox[a] : ~UnderWay(inbox[a][k], c)
        /\ \A a \in Rep : busy[a] # None => ~UnderWay(busy[a], c)
    BY <2>1 DEF InTurn
  <2>3. /\ \A a \in Rep : \A k \in DOMAIN inbox'[a] : ~UnderWay(inbox[a][k], c)'
        /\ \A a \in Rep : busy'[a] # None => ~UnderWay(busy[a], c)'
    BY <1>1, <1>2, <1>6, <2>2, Apart DEF UnderWay
  <2>4. \A k \in DOMAIN inbox'[c] : FALSE
    BY <1>5, <1>6, <1>13
  <2> QED
    BY <2>3, <2>4 DEF InTurn
<1>14. \A d \in Lockstep : ~relaxed'[d] => InTurn(d)'
  BY <1>2, <1>12, <1>13
<1> QED
  BY <1>8, <1>9, <1>10, <1>11, <1>14 DEF PortsGood

\* Nothing before a server or before a req or clt port changes.
LEMMA OthersGood ==
  ASSUME PortsGood, PortsTypeOK', OwnComeBack', \A x \in Bind \cup Lockstep : inbox'[x] = inbox[x],
         UNCHANGED <<servers, linked, gen, relaxed, waits, busy>>,
         \A d \in Lockstep : sent'[d] = sent[d],
         \A b \in Bind : open'[b] \subseteq open[b]
  PROVE  PortsGood'
<1>1. Routes'
  BY DEF PortsGood, Routes, Asked
<1>2. LastAwaited'
  BY DEF PortsGood, LastAwaited
<1>3. \A d \in Lockstep : ~relaxed'[d] => InTurn(d)'
  BY Apart, SameInTurn DEF PortsGood
<1> QED
  BY <1>1, <1>2, <1>3 DEF PortsGood

LEMMA ReceiveAnyGood == ASSUME PortsGood, NEW c \in Conn, ReceiveAny(c) PROVE PortsGood'
<1>1. /\ c \in Qry \cup Sub \cup Plug /\ inbox[c] # <<>>
      /\ inbox' = [inbox EXCEPT ![c] = Tail(inbox[c])]
      /\ got' = [got EXCEPT ![c] = Head(inbox[c])]
      /\ UNCHANGED <<world, connVars, waits, sent, bindVars>>
  BY DEF ReceiveAny
<1>2. UNCHANGED <<servers, linked, gen, relaxed, busy, identity, open, dead>>
  BY <1>1 DEF connVars, bindVars
<1>3. inbox[c] \in Seq(Message) /\ inbox \in [Conn \cup Bind -> Seq(Message)]
  BY DEF PortsGood, PortsTypeOK
<1>4. /\ Tail(inbox[c]) \in Seq(Message) /\ Head(inbox[c]) \in Message
      /\ \A i \in DOMAIN Tail(inbox[c]) :
           i + 1 \in DOMAIN inbox[c] /\ Tail(inbox[c])[i] = inbox[c][i + 1]
  BY <1>1, <1>3, WithinTail
<1>5. /\ inbox'[c] = Tail(inbox[c])
      /\ \A x \in Conn \cup Bind : x # c => inbox'[x] = inbox[x]
  BY <1>1, <1>3
<1>6. PortsTypeOK'
  BY <1>1, <1>2, <1>3, <1>4 DEF PortsGood, PortsTypeOK
<1>7. OwnComeBack'
  <2>1. ASSUME NEW x \in Conn \ Sub, NEW i \in DOMAIN inbox'[x]
        PROVE  \E k \in DOMAIN inbox[x] : inbox'[x][i] = inbox[x][k]
    BY <1>4, <1>5
  <2> QED
    BY <2>1 DEF PortsGood, OwnComeBack, ComesBack
<1>8. c \notin Lockstep /\ c \notin Bind
  BY <1>1, Apart
<1> QED
  BY <1>1, <1>2, <1>5, <1>6, <1>7, <1>8, Apart, OthersGood

\* reset(): nothing that was sent before was sent with the new socket.
LEMMA ResetGood == ASSUME PortsGood, NEW c \in Conn, Reset(c) PROVE PortsGood'
<1>1. /\ gen' = [gen EXCEPT ![c] = gen[c] + 1]
      /\ relaxed' = [relaxed EXCEPT ![c] = FALSE]
      /\ waits' = [waits EXCEPT ![c] = 0]
      /\ linked' = [linked EXCEPT ![c] = servers[c]]
      /\ inbox' = [inbox EXCEPT ![c] = <<>>]
      /\ UNCHANGED <<world, servers, sent, busy, identity, open, dead, got>>
  BY DEF Reset, resetConnSocket, bindVars
<1>2. gen[c] \in Nat /\ inbox[c] \in Seq(Message) /\ c \notin Bind /\ <<>> \in Seq(Message)
  BY Apart DEF PortsGood, PortsTypeOK
<1>3. PortsTypeOK'
  <2>1. linked' \in [Conn -> SUBSET Bind] /\ relaxed' \in [Conn -> BOOLEAN]
    BY <1>1 DEF PortsGood, PortsTypeOK
  <2>2. gen' \in [Conn -> Nat] /\ waits' \in [Conn -> Nat]
    BY <1>1, <1>2 DEF PortsGood, PortsTypeOK
  <2>3. inbox' \in [Conn \cup Bind -> Seq(Message)]
    BY <1>1, <1>2 DEF PortsGood, PortsTypeOK
  <2> QED
    BY <1>1, <2>1, <2>2, <2>3 DEF PortsGood, PortsTypeOK
<1>4. /\ gen'[c] = gen[c] + 1 /\ inbox'[c] = <<>> /\ waits'[c] = 0
      /\ \A d \in Conn : d # c => gen'[d] = gen[d] /\ waits'[d] = waits[d] /\ inbox'[d] = inbox[d]
      /\ \A b \in Bind : inbox'[b] = inbox[b]
  BY <1>1, <1>2 DEF PortsGood, PortsTypeOK
<1>5. \A d \in Conn : gen[d] \in Nat /\ gen[d] <= gen'[d]
  <2>1. \A d \in Conn : gen[d] \in Nat
    BY DEF PortsGood, PortsTypeOK
  <2>2. gen[c] <= gen[c] + 1 /\ \A k \in Nat : k <= k
    BY <1>2
  <2> QED
    BY <1>4, <2>1, <2>2
<1>6. Routes'
  <2>1. \A d \in Conn : \A b \in servers'[d] \cup linked'[d] : b \in servers[d] \cup linked[d]
    BY <1>1 DEF PortsGood, PortsTypeOK
  <2>2. ASSUME NEW m \in Message, NEW b \in Bind, Asked(m, b) PROVE Asked(m, b)'
    <3>1. m.gen \in Nat /\ m.from \in Conn
      BY <2>2 DEF Message, Asked
    <3>2. gen[m.from] \in Nat /\ gen'[m.from] \in Nat /\ gen[m.from] <= gen'[m.from]
      BY <1>3, <1>5, <3>1 DEF PortsTypeOK
    <3> QED
      BY <2>2, <3>1, <3>2 DEF Asked
  <2>3. \A b \in Bind : \A n \in DOMAIN inbox'[b] : Asked(inbox[b][n], b)'
    BY <1>4, <2>2, InQueue DEF PortsGood, Routes
  <2>4. \A b \in Bind : busy'[b] # None => Asked(busy[b], b)'
    BY <1>1, <2>2 DEF PortsGood, Routes, PortsTypeOK
  <2> QED
    BY <1>1, <2>1, <2>3, <2>4 DEF PortsGood, Routes
<1>7. OwnComeBack'
  <2>1. DOMAIN inbox'[c] = {}
    BY <1>4
  <2> QED
    BY <1>4, <2>1 DEF PortsGood, OwnComeBack
<1>8. LastAwaited'
  BY <1>1, <1>4, Apart DEF PortsGood, LastAwaited
<1>9. ASSUME NEW d \in Lockstep \ {c}, ~relaxed'[d] PROVE InTurn(d)'
  <2>1. ~relaxed[d] /\ d \in Conn
    BY <1>1, <1>9, Apart DEF PortsGood, PortsTypeOK
  <2> QED
    BY <1>1, <1>4, <2>1, Apart, SameInTurn DEF PortsGood
<1>10. ASSUME c \in Lockstep PROVE InTurn(c)'
  <2>1. ASSUME NEW m \in Message, NEW b \in Bind, Asked(m, b), UnderWay(m, c)' PROVE FALSE
    <3>1. m.from = c /\ m.gen <= gen[c] /\ m.gen = gen[c] + 1
      BY <1>4, <2>1 DEF Asked, UnderWay
    <3> QED
      BY <1>2, <3>1
  <2>2. \A b \in Rep : \A n \in DOMAIN inbox'[b] : ~UnderWay(inbox[b][n], c)'
    <3>1. ASSUME NEW b \in Rep, NEW n \in DOMAIN inbox'[b], UnderWay(inbox[b][n], c)' PROVE FALSE
      <4>1. b \in Bind /\ inbox'[b] = inbox[b]
        BY <1>4, Apart
      <4>2. n \in DOMAIN inbox[b] /\ UnderWay(inbox[b][n], c)'
        BY <3>1, <4>1
      <4>3. inbox[b][n] \in Message /\ Asked(inbox[b][n], b)
        BY <4>1, <4>2, InQueue DEF PortsGood, Routes
      <4>4. inbox'[b][n] = inbox[b][n]
        BY <4>1
      <4>5. inbox[b][n].from = c /\ inbox[b][n].gen = gen'[c]
        BY <3>1, <4>4 DEF UnderWay
      <4>6. inbox[b][n].gen <= gen[c]
        BY <4>3, <4>5 DEF Asked
      <4> QED
        BY <1>2, <1>4, <4>5, <4>6
    <3> QED
      BY <3>1
  <2>3. \A b \in Rep : busy'[b] # None => ~UnderWay(busy[b], c)'
    <3>1. ASSUME NEW b \in Rep, busy[b] # None, busy[b].from = c, busy[b].gen = gen'[c]
          PROVE  FALSE
      <4>1. busy[b].gen <= gen[c]
        BY <3>1, Apart DEF PortsGood, Routes, Asked
      <4> QED
        BY <1>2, <1>4, <3>1, <4>1
    <3> QED
      BY <1>1, <3>1 DEF UnderWay
  <2>4. \A n \in DOMAIN inbox'[c] : FALSE
    BY <1>4
  <2> QED
    BY <2>2, <2>3, <2>4 DEF InTurn
<1>11. \A d \in Lockstep : ~relaxed'[d] => InTurn(d)'
  BY <1>9, <1>10
<1> QED
  BY <1>3, <1>6, <1>7, <1>8, <1>11 DEF PortsGood

--------------------------------------------------------------------------------
(* Binding ports *)

\* recv() of a rep or srv port: the request moves from the queue into the socket.
LEMMA ReceiveRequestGood == ASSUME PortsGood, NEW b \in Bind, ReceiveRequest(b) PROVE PortsGood'
<1> DEFINE s == inbox[b]
           m == Head(s)
           r == Tail(s)
<1>1. /\ b \in Rep /\ busy[b] = None /\ s # <<>>
      /\ busy' = [busy EXCEPT ![b] = m]
      /\ inbox' = [inbox EXCEPT ![b] = r]
      /\ UNCHANGED <<world, connVars, waits, sent, identity, open, dead, got>>
  BY DEF ReceiveRequest
<1>2. UNCHANGED <<servers, linked, gen, relaxed>>
  BY <1>1 DEF connVars
<1>3. s \in Seq(Message)
  BY DEF PortsGood, PortsTypeOK
<1>4. /\ r \in Seq(Message) /\ m \in Message /\ 1 \in DOMAIN s /\ m = inbox[b][1]
      /\ \A i \in DOMAIN r : i + 1 \in DOMAIN s /\ i + 1 # 1 /\ r[i] = inbox[b][i + 1]
  BY <1>1, <1>3, WithinTail
<1>5. \A i \in DOMAIN r : i \in Nat
  BY <1>4
<1> HIDE DEF s, m, r
<1>6. /\ inbox'[b] = r /\ busy'[b] = m
      /\ \A x \in Conn \cup Bind : x # b => inbox'[x] = inbox[x]
      /\ \A a \in Bind : a # b => busy'[a] = busy[a]
      /\ \A x \in Conn : x # b
      /\ \A a \in Rep : a \in Bind
  BY <1>1, Apart DEF PortsGood, PortsTypeOK
<1>7. PortsTypeOK'
  BY <1>1, <1>2, <1>4 DEF PortsGood, PortsTypeOK
<1>8. \A a \in Bind : \A n \in DOMAIN inbox'[a] :
        \/ a # b /\ n \in DOMAIN inbox[a] /\ inbox'[a][n] = inbox[a][n]
        \/ a = b /\ n + 1 \in DOMAIN inbox[b] /\ n + 1 # 1 /\ inbox'[a][n] = inbox[b][n + 1]
  BY <1>4, <1>6 DEF s
<1>9. 1 \in DOMAIN inbox[b]
  BY <1>4 DEF s
<1>10. Routes'
  <2>1. \A a \in Bind : \A n \in DOMAIN inbox'[a] : Asked(inbox'[a][n], a)
    BY <1>8 DEF PortsGood, Routes
  <2>2. \A a \in Bind : busy'[a] # None => Asked(busy'[a], a)
    BY <1>4, <1>6, <1>9 DEF PortsGood, Routes
  <2> QED
    BY <1>1, <1>2, <2>1, <2>2 DEF PortsGood, Routes, Asked
<1>11. OwnComeBack' /\ LastAwaited'
  BY <1>1, <1>6 DEF PortsGood, OwnComeBack, LastAwaited
<1>12. ASSUME NEW c \in Lockstep, InTurn(c) PROVE InTurn(c)'
  <2>1. c \in Conn /\ inbox'[c] = inbox[c]
    BY <1>6, Apart
  <2>2. ASSUME NEW a \in Rep, NEW n \in DOMAIN inbox'[a], UnderWay(inbox[a][n], c)'
        PROVE  /\ Current(inbox[a][n], c)'
               /\ inbox'[c] = <<>>
               /\ \A d \in Rep : busy'[d] # None => ~UnderWay(busy[d], c)'
               /\ \A d \in Rep : \A k \in DOMAIN inbox'[d] :
                    UnderWay(inbox[d][k], c)' => d = a /\ k = n
    <3> DEFINE at(d, k) == IF d = b THEN k + 1 ELSE k
    <3>1. \A d \in Rep : \A k \in DOMAIN inbox'[d] :
            /\ at(d, k) \in DOMAIN inbox[d] /\ inbox'[d][k] = inbox[d][at(d, k)]
            /\ d = b => at(d, k) # 1
      BY <1>6, <1>8
    <3>2. \A d \in Rep : \A k, j \in DOMAIN inbox'[d] : at(d, k) = at(d, j) => k = j
      BY <1>5, <1>6
    <3> HIDE DEF at
    <3>3. UnderWay(inbox[a][at(a, n)], c) /\ at(a, n) \in DOMAIN inbox[a]
      BY <1>2, <2>2, <3>1 DEF UnderWay
    <3>4. /\ Current(inbox[a][at(a, n)], c)
          /\ inbox[c] = <<>>
          /\ \A d \in Rep : busy[d] # None => ~UnderWay(busy[d], c)
          /\ \A d \in Rep : \A k \in DOMAIN inbox[d] :
               UnderWay(inbox[d][k], c) => d = a /\ k = at(a, n)
      BY <1>12, <3>3 DEF InTurn
    <3>5. ~UnderWay(m, c)
      <4>1. UnderWay(inbox[b][1], c) => b = a /\ 1 = at(a, n)
        BY <1>1, <1>9, <3>4
      <4> QED
        BY <1>4, <3>1, <4>1
    <3>6. \A d \in Rep : busy'[d] # None => ~UnderWay(busy[d], c)'
      BY <1>2, <1>6, <3>4, <3>5 DEF UnderWay
    <3>7. ASSUME NEW d \in Rep, NEW k \in DOMAIN inbox'[d], UnderWay(inbox[d][k], c)'
          PROVE  d = a /\ k = n
      <4>1. UnderWay(inbox[d][at(d, k)], c) /\ at(d, k) \in DOMAIN inbox[d]
        BY <1>2, <3>1, <3>7 DEF UnderWay
      <4>2. d = a /\ at(d, k) = at(a, n)
        BY <3>4, <4>1
      <4> QED
        BY <3>2, <4>2
    <3>8. Current(inbox[a][n], c)'
      BY <1>1, <1>2, <3>1, <3>4 DEF Current
    <3> QED
      BY <2>1, <3>4, <3>6, <3>7, <3>8
  <2>3. ASSUME NEW a \in Rep, busy'[a] # None, UnderWay(busy[a], c)'
        PROVE  /\ Current(busy[a], c)'
               /\ inbox'[c] = <<>>
               /\ \A d \in Rep : busy'[d] # None /\ UnderWay(busy[d], c)' => d = a
    <3>1. CASE a = b
      <4>1. UnderWay(inbox[b][1], c) /\ busy'[b] = inbox[b][1]
        BY <1>2, <1>4, <1>6, <2>3, <3>1 DEF UnderWay
      <4>2. /\ Current(inbox[b][1], c)
            /\ inbox[c] = <<>>
            /\ \A d \in Rep : busy[d] # None => ~UnderWay(busy[d], c)
        BY <1>12, <1>1, <1>9, <4>1 DEF InTurn
      <4>3. Current(busy[a], c)'
        BY <1>1, <1>2, <3>1, <4>1, <4>2 DEF Current
      <4>4. \A d \in Rep : busy'[d] # None /\ UnderWay(busy[d], c)' => d = a
        BY <1>2, <1>6, <3>1, <4>2 DEF UnderWay
      <4> QED
        BY <2>1, <4>2, <4>3, <4>4
    <3>2. CASE a # b
      <4>1. busy[a] # None /\ UnderWay(busy[a], c) /\ busy'[a] = busy[a]
        BY <1>2, <1>6, <2>3, <3>2 DEF UnderWay
      <4>2. /\ Current(busy[a], c)
            /\ inbox[c] = <<>>
            /\ \A d \in Rep : busy[d] # None /\ UnderWay(busy[d], c) => d = a
        BY <1>12, <4>1 DEF InTurn
      <4>3. ~UnderWay(m, c)
        <5>1. UnderWay(inbox[b][1], c) => ~UnderWay(busy[a], c)
          BY <1>12, <1>1, <1>9, <4>1 DEF InTurn
        <5> QED
          BY <1>4, <4>1, <5>1
      <4>4. Current(busy[a], c)'
        BY <1>1, <1>2, <4>1, <4>2 DEF Current
      <4>5. \A d \in Rep : busy'[d] # None /\ UnderWay(busy[d], c)' => d = a
        BY <1>2, <1>6, <4>2, <4>3 DEF UnderWay
      <4> QED
        BY <2>1, <4>2, <4>4, <4>5
    <3> QED
      BY <3>1, <3>2
  <2>4. \A n \in DOMAIN inbox'[c] : n = 1 /\ inbox'[c][n].number = waits'[c] /\ waits'[c] # 0
    BY <1>12, <1>1, <2>1 DEF InTurn
  <2> QED
    BY <2>2, <2>3, <2>4 DEF InTurn
<1>13. \A c \in Lockstep : ~relaxed'[c] => InTurn(c)'
  BY <1>2, <1>12 DEF PortsGood
<1> QED
  BY <1>7, <1>10, <1>11, <1>13 DEF PortsGood

\* send() of a rep or srv port: the request is answered; the socket that asked, if it
\* is still there, gets the reply it waits for.
LEMMA SendReplyGood == ASSUME PortsGood, NEW b \in Bind, SendReply(b) PROVE PortsGood'
<1> DEFINE m == busy[b]
           f == m.from
<1>1. /\ b \in Rep /\ m # None
      /\ busy' = [busy EXCEPT ![b] = None]
      /\ inbox' = IF gen[f] # m.gen THEN inbox ELSE [inbox EXCEPT ![f] = Append(inbox[f], m)]
      /\ UNCHANGED <<world, connVars, waits, sent, identity, open, dead, got>>
  BY DEF SendReply
<1>2. UNCHANGED <<servers, linked, gen, relaxed>>
  BY <1>1 DEF connVars
<1>3. m \in Message /\ f \in Conn /\ f \in Lockstep /\ f \notin Bind
  BY <1>1, Apart DEF PortsGood, PortsTypeOK, Routes, Asked, Talks
<1>4. /\ busy'[b] = None
      /\ \A a \in Bind : busy'[a] # None => busy'[a] = busy[a] /\ a # b
      /\ UnderWay(m, f) <=> gen[f] = m.gen
  BY <1>1 DEF PortsGood, PortsTypeOK, UnderWay
<1>5. m = busy[b] /\ f = m.from
  OBVIOUS
<1> HIDE DEF m, f
<1>6. inbox' = inbox \/ inbox' = [inbox EXCEPT ![f] = Append(inbox[f], m)]
  BY <1>1
<1>7. inbox[f] \in Seq(Message) /\ inbox \in [Conn \cup Bind -> Seq(Message)]
  BY <1>3 DEF PortsGood, PortsTypeOK
<1>8. inbox' \in [Conn \cup Bind -> Seq(Message)]
  <2>1. Append(inbox[f], m) \in Seq(Message)
    BY <1>3, <1>7, OneMore
  <2> QED
    BY <1>3, <1>6, <1>7, <2>1
<1>9. /\ \A x \in Conn \cup Bind : x # f => inbox'[x] = inbox[x]
      /\ \A x \in Bind : inbox'[x] = inbox[x]
  BY <1>3, <1>6, <1>7
<1>10. PortsTypeOK'
  BY <1>1, <1>2, <1>8 DEF PortsGood, PortsTypeOK
<1>11. Routes'
  BY <1>1, <1>2, <1>4, <1>9 DEF PortsGood, Routes, Asked
<1>12. OwnComeBack'
  <2>1. \A x \in Conn : \A n \in DOMAIN inbox'[x] :
          \/ n \in DOMAIN inbox[x] /\ inbox'[x][n] = inbox[x][n]
          \/ x = f /\ inbox'[x][n] = m
    BY <1>3, <1>6, Longer DEF PortsGood
  <2> QED
    BY <1>3, <1>5, <2>1 DEF PortsGood, OwnComeBack, ComesBack
<1>13. LastAwaited'
  BY <1>1 DEF PortsGood, LastAwaited
<1>14. ASSUME NEW c \in Lockstep, InTurn(c) PROVE InTurn(c)'
  <2>1. CASE inbox'[c] = inbox[c]
    <3>1. /\ \A a \in Rep : inbox'[a] = inbox[a]
          /\ \A a \in Rep : busy'[a] # None => busy'[a] = busy[a]
      BY <1>4, <1>9, Apart
    <3>2. ASSUME NEW a \in Rep, NEW n \in DOMAIN inbox'[a], UnderWay(inbox[a][n], c)'
          PROVE  /\ Current(inbox[a][n], c)'
                 /\ inbox'[c] = <<>>
                 /\ \A d \in Rep : busy'[d] # None => ~UnderWay(busy[d], c)'
                 /\ \A d \in Rep : \A k \in DOMAIN inbox'[d] :
                      UnderWay(inbox[d][k], c)' => d = a /\ k = n
      <4>1. n \in DOMAIN inbox[a] /\ UnderWay(inbox[a][n], c)
        BY <1>2, <3>1, <3>2 DEF UnderWay
      <4>2. /\ Current(inbox[a][n], c)
            /\ inbox[c] = <<>>
            /\ \A d \in Rep : busy[d] # None => ~UnderWay(busy[d], c)
            /\ \A d \in Rep : \A k \in DOMAIN inbox[d] :
                 UnderWay(inbox[d][k], c) => d = a /\ k = n
        BY <1>14, <4>1 DEF InTurn
      <4>3. Current(inbox[a][n], c)'
        BY <1>1, <1>2, <3>1, <4>2 DEF Current
      <4>4. \A d \in Rep : busy'[d] # None => ~UnderWay(busy[d], c)'
        BY <1>2, <3>1, <4>2 DEF UnderWay
      <4>5. \A d \in Rep : \A k \in DOMAIN inbox'[d] :
              UnderWay(inbox[d][k], c)' => d = a /\ k = n
        BY <1>2, <3>1, <4>2 DEF UnderWay
      <4> QED
        BY <2>1, <4>2, <4>3, <4>4, <4>5
    <3>3. ASSUME NEW a \in Rep, busy'[a] # None, UnderWay(busy[a], c)'
          PROVE  /\ Current(busy[a], c)'
                 /\ inbox'[c] = <<>>
                 /\ \A d \in Rep : busy'[d] # None /\ UnderWay(busy[d], c)' => d = a
      <4>1. busy'[a] = busy[a] /\ busy[a] # None /\ UnderWay(busy[a], c)
        BY <1>2, <3>1, <3>3 DEF UnderWay
      <4>2. /\ Current(busy[a], c)
            /\ inbox[c] = <<>>
            /\ \A d \in Rep : busy[d] # None /\ UnderWay(busy[d], c) => d = a
        BY <1>14, <4>1 DEF InTurn
      <4>3. Current(busy[a], c)'
        BY <1>1, <1>2, <4>1, <4>2 DEF Current
      <4> QED
        BY <1>2, <2>1, <3>1, <4>2, <4>3 DEF UnderWay
    <3>4. \A n \in DOMAIN inbox'[c] : n = 1 /\ inbox'[c][n].number = waits'[c] /\ waits'[c] # 0
      BY <1>1, <1>14, <2>1 DEF InTurn
    <3> QED
      BY <3>2, <3>3, <3>4 DEF InTurn
  <2>2. CASE inbox'[c] # inbox[c]
    <3>1. c = f /\ gen[f] = m.gen /\ inbox' = [inbox EXCEPT ![f] = Append(inbox[f], m)]
      BY <1>1, <1>9, <2>2, Apart
    <3>2. UnderWay(m, c)
      BY <1>4, <3>1
    <3>3. /\ Current(m, c) /\ inbox[c] = <<>>
          /\ \A a \in Rep : busy[a] # None /\ UnderWay(busy[a], c) => a = b
          /\ \A a \in Rep : \A n \in DOMAIN inbox[a] : ~UnderWay(inbox[a][n], c)
      BY <1>1, <1>5, <1>14, <3>2 DEF InTurn
    <3>4. /\ \A a \in Rep : busy'[a] # None => ~UnderWay(busy[a], c)'
          /\ \A a \in Rep : \A n \in DOMAIN inbox'[a] : ~UnderWay(inbox[a][n], c)'
      BY <1>2, <1>4, <1>9, <3>3, Apart DEF UnderWay
    <3>5. inbox'[c] = Append(<<>>, m)
      <4>1. inbox'[f] = Append(inbox[f], m)
        BY <1>3, <1>7, <3>1
      <4> QED
        BY <3>1, <3>3, <4>1
    <3>6. DOMAIN inbox'[c] = {1} /\ inbox'[c][1] = m
      BY <1>3, <3>5, OneMore
    <3>7. m.number = waits'[c] /\ waits'[c] # 0
      BY <1>1, <3>3 DEF Current
    <3> QED
      BY <3>4, <3>6, <3>7 DEF InTurn
  <2> QED
    BY <2>1, <2>2
<1>15. \A c \in Lockstep : ~relaxed'[c] => InTurn(c)'
  BY <1>2, <1>14 DEF PortsGood
<1> QED
  BY <1>10, <1>11, <1>12, <1>13, <1>15 DEF PortsGood

\* ans_port_send() and ins_port_send(): the answer goes to a port with the identity of
\* the one that asked; of plugs only one has it.
LEMMA SendAnswerGood == ASSUME PortsGood, NEW b \in Bind, SendAnswer(b) PROVE PortsGood'
<1>1. PICK query \in open[b] :
        /\ b \in Routed
        /\ open' = [open EXCEPT ![b] = @ \ {query}]
        /\ set_identity(b, Identity[query.from])
        /\ \/ inbox' = inbox
           \/ \E c \in Bearers(b, identity'[b]) : inbox' = [inbox EXCEPT ![c] = Append(@, query)]
  BY DEF SendAnswer
<1>2. UNCHANGED <<world, servers, linked, gen, relaxed, waits, sent, busy, dead, got>>
  BY DEF SendAnswer, connVars
<1> DEFINE f == query.from
<1>3. query \in Message /\ f \in Conn /\ f \notin Lockstep /\ Talks(f, b) /\ Identity[f] \in Ident
  BY DEF PortsGood, PortsTypeOK, Routes, Ident
<1>4. f = query.from
  OBVIOUS
<1>5. identity' = [identity EXCEPT ![b] = Identity[f]] /\ identity'[b] = Identity[f]
  BY <1>1 DEF set_identity, PortsGood, PortsTypeOK
<1> HIDE DEF f
<1>6. open' \in [Bind -> SUBSET Message] /\ \A a \in Bind : open'[a] \subseteq open[a]
  BY <1>1 DEF PortsGood, PortsTypeOK
<1>7. CASE inbox' = inbox
  <2>1. PortsTypeOK' /\ OwnComeBack'
    BY <1>2, <1>3, <1>5, <1>6, <1>7 DEF PortsGood, PortsTypeOK, OwnComeBack, ComesBack
  <2> QED
    BY <1>2, <1>6, <1>7, <2>1, OthersGood
<1>8. ASSUME NEW c \in Bearers(b, Identity[f]), inbox' = [inbox EXCEPT ![c] = Append(inbox[c], query)]
      PROVE  PortsGood'
  <2>1. c \in Qry \cup Plug /\ c \in Conn /\ b \in linked[c] /\ Identity[f] = Identity[c]
    BY DEF Bearers, Conn
  <2>2. c \notin Lockstep /\ c \notin Bind
    BY <2>1, Apart
  <2>3. Talks(c, b)
    BY <2>1 DEF PortsGood, Routes
  <2>4. ComesBack(c, query)
    <3>1. ASSUME c \in Plug PROVE f = c
      <4>1. f \in Plug
        BY <1>3, <2>3, <3>1 DEF Talks
      <4> QED
        BY <2>1, <3>1, <4>1, PortsAssumption
    <3> QED
      BY <1>4, <2>1, <3>1 DEF ComesBack
  <2>5. inbox[c] \in Seq(Message) /\ inbox \in [Conn \cup Bind -> Seq(Message)]
    BY <2>1 DEF PortsGood, PortsTypeOK
  <2>6. inbox' \in [Conn \cup Bind -> Seq(Message)]
    <3>1. Append(inbox[c], query) \in Seq(Message)
      BY <1>3, <2>5, OneMore
    <3> QED
      BY <1>8, <2>1, <2>5, <3>1
  <2>7. \A x \in Bind \cup Lockstep : inbox'[x] = inbox[x]
    BY <1>8, <2>2, <2>5, Apart
  <2>8. PortsTypeOK'
    BY <1>2, <1>3, <1>5, <1>6, <2>6 DEF PortsGood, PortsTypeOK
  <2>9. OwnComeBack'
    <3>1. \A x \in Conn : \A n \in DOMAIN inbox'[x] :
            \/ n \in DOMAIN inbox[x] /\ inbox'[x][n] = inbox[x][n]
            \/ x = c /\ inbox'[x][n] = query
      BY <1>3, <1>8, <2>1, Longer DEF PortsGood
    <3> QED
      BY <2>2, <2>4, <3>1 DEF PortsGood, OwnComeBack, ComesBack
  <2> QED
    BY <1>2, <1>6, <2>7, <2>8, <2>9, OthersGood
<1> QED
  BY <1>1, <1>5, <1>7, <1>8

\* send() of a pub port: only sub ports hear it.
LEMMA PublishGood == ASSUME PortsGood, NEW b \in Bind, Publish(b) PROVE PortsGood'
<1> DEFINE m(x) == [from |-> b, number |-> sent[b] + 1, gen |-> gen[x]]
           q(x) == IF x \in Sub /\ b \in linked[x] THEN Append(inbox[x], m(x)) ELSE inbox[x]
<1>1. /\ b \in Pub
      /\ sent' = [sent EXCEPT ![b] = @ + 1]
      /\ inbox' = [x \in Conn \cup Bind |-> q(x)]
  BY DEF Publish
<1>2. UNCHANGED <<world, servers, linked, gen, relaxed, waits, busy, identity, open, dead, got>>
  BY DEF Publish, connVars, bindVars
<1>3. sent[b] + 1 \in Nat
  BY <1>1 DEF PortsGood, PortsTypeOK
<1>4. \A x \in Conn \cup Bind : q(x) \in Seq(Message)
  <2>1. ASSUME NEW x \in Conn \cup Bind, x \in Sub PROVE Append(inbox[x], m(x)) \in Seq(Message)
    <3>1. gen[x] \in Nat /\ inbox[x] \in Seq(Message)
      BY <2>1, Apart DEF PortsGood, PortsTypeOK
    <3>2. m(x) \in Message
      BY <1>1, <1>3, <3>1 DEF Message
    <3> HIDE DEF m
    <3> QED
      BY <3>1, <3>2, OneMore
  <2>2. \A x \in Conn \cup Bind : inbox[x] \in Seq(Message)
    BY DEF PortsGood, PortsTypeOK
  <2> HIDE DEF m
  <2> QED
    BY <2>1, <2>2
<1>5. \A x \in Conn \cup Bind : x \notin Sub => q(x) = inbox[x]
  OBVIOUS
<1> HIDE DEF q
<1>6. inbox' \in [Conn \cup Bind -> Seq(Message)]
  BY <1>1, <1>4
<1>7. \A x \in Conn \cup Bind : x \notin Sub => inbox'[x] = inbox[x]
  BY <1>1, <1>5
<1>8. PortsTypeOK'
  BY <1>1, <1>2, <1>3, <1>6 DEF PortsGood, PortsTypeOK
<1>9. OwnComeBack'
  BY <1>7 DEF PortsGood, OwnComeBack
<1>10. \A x \in Bind \cup Lockstep : inbox'[x] = inbox[x]
  BY <1>7, Apart
<1>11. \A d \in Lockstep : sent'[d] = sent[d]
  BY <1>1, Apart DEF PortsGood, PortsTypeOK
<1> QED
  BY <1>2, <1>8, <1>9, <1>10, <1>11, OthersGood

--------------------------------------------------------------------------------
LEMMA PortsInitGood == ASSUME PortsInit PROVE PortsGood
<1>1. \A x \in Conn \cup Bind : inbox[x] = <<>> /\ DOMAIN inbox[x] = {}
  BY DEF PortsInit
<1>2. PortsTypeOK
  <2>1. 0 \in Nat /\ <<>> \in Seq(Message)
    OBVIOUS
  <2>2. world \in World /\ dead \subseteq Bind
    BY DEF PortsInit
  <2>3. servers \in [Conn -> SUBSET Bind] /\ linked \in [Conn -> SUBSET Bind]
    BY DEF PortsInit
  <2>4. gen \in [Conn -> Nat] /\ waits \in [Conn -> Nat] /\ sent \in [Conn \cup Pub -> Nat]
    BY <2>1 DEF PortsInit
  <2>5. relaxed \in [Conn -> BOOLEAN]
    BY DEF PortsInit
  <2>6. inbox \in [Conn \cup Bind -> Seq(Message)]
    BY <2>1 DEF PortsInit
  <2>7. /\ busy \in [Bind -> Message \cup {None}] /\ identity \in [Bind -> Ident \cup {None}]
        /\ open \in [Bind -> SUBSET Message] /\ got \in [Conn -> Message \cup {None}]
    BY DEF PortsInit
  <2> QED
    BY <2>2, <2>3, <2>4, <2>5, <2>6, <2>7 DEF PortsTypeOK
<1>3. Routes
  BY <1>1 DEF PortsInit, Routes
<1>4. OwnComeBack
  BY <1>1 DEF OwnComeBack
<1>5. LastAwaited
  BY Apart DEF PortsInit, LastAwaited
<1>6. \A c \in Lockstep : InTurn(c)
  <2>1. \A b \in Rep : busy[b] = None
    BY Apart DEF PortsInit
  <2> QED
    BY <1>1, <2>1, Apart DEF InTurn
<1> QED
  BY <1>2, <1>3, <1>4, <1>5, <1>6 DEF PortsGood

LEMMA PortsNextGood == ASSUME PortsGood, [PortsNext]_portsVars PROVE PortsGood'
<1>1. ASSUME NEW c \in Conn, NEW b \in Bind,
             \/ update(c, b) \/ setupPlug(c, b) \/ SendRequest(c, b) \/ SendQuery(c, b)
      PROVE  PortsGood'
  BY <1>1, ConnectGood, SendRequestGood, SendQueryGood
<1>2. ASSUME NEW c \in Conn, ReceiveReply(c) \/ ReceiveAny(c) \/ Reset(c) PROVE PortsGood'
  BY <1>2, ReceiveReplyGood, ReceiveAnyGood, ResetGood
<1>3. ASSUME NEW b \in Bind,
             \/ ReceiveRequest(b) \/ SendReply(b) \/ ReceiveQuery(b) \/ SendAnswer(b)
             \/ Publish(b) \/ Crash(b)
             \/ \E n \in DOMAIN inbox[b] : Lose(b, n)
      PROVE  PortsGood'
  BY <1>3, ReceiveRequestGood, SendReplyGood, ReceiveQueryGood, SendAnswerGood,
     PublishGood, CrashGood, LoseGood
<1>4. CASE UNCHANGED portsVars
  <2>1. UNCHANGED <<world, servers, linked, gen, relaxed, waits, sent, inbox, busy, identity,
                    open, dead, got>>
    BY <1>4 DEF portsVars, connVars, bindVars
  <2>2. PortsTypeOK' /\ OwnComeBack'
    BY <2>1 DEF PortsGood, PortsTypeOK, OwnComeBack
  <2> QED
    BY <2>1, <2>2, Apart, OthersGood DEF PortsGood, PortsTypeOK
<1>5. CASE PortsNext
  BY <1>1, <1>2, <1>3, <1>5 DEF PortsNext
<1> QED
  BY <1>4, <1>5

--------------------------------------------------------------------------------
(* The theorems *)

\* What connects the ports in every state that is reached: requests go to rep and srv
\* ports, queries to ans and ins ports (update); a socket waits for its last request
\* (send); and one that sends in turn has one request under way at most, counted in
\* the queues of all servers, in their sockets and in its own queue.
THEOREM PortsSafety == PortsSpec => []PortsInv
<1>1. PortsGood => PortsInv
  BY PortsGoodIsInv
<1>2. PortsInit => PortsGood
  BY PortsInitGood
<1>3. PortsGood /\ [PortsNext]_portsVars => PortsGood'
  BY PortsNextGood
<1> QED
  BY <1>1, <1>2, <1>3, PTL DEF PortsSpec

\* An answer of an ans or ins port comes in at a port with the identity of the one that
\* asked, whatever queries have been received in between (set_identity, ans_port_send): at
\* the one that asked, if no other has its identity, which is assumed of plugs only.
THEOREM AnswersComeIn == PortsSpec => []AnswersReturn
<1>1. PortsInv => AnswersReturn
  BY DEF PortsInv
<1> QED
  BY <1>1, PortsSafety, PTL

\* The reply that a req or clt port returns is the reply to the request it sent last
\* (recv, and resetConnSocket).
THEOREM RepliesInTurn == PortsSpec => RepliesMatch
<1> DEFINE Answered ==
      \A c \in Lockstep : got'[c] # got[c] => got'[c].from = c /\ got'[c].number = sent[c]
<1>1. ASSUME PortsGood, [PortsNext]_portsVars PROVE Answered \/ UNCHANGED portsVars
  <2>1. CASE UNCHANGED portsVars
    BY <2>1
  <2>2. ASSUME NEW c \in Conn, NEW b \in Bind,
               \/ update(c, b) \/ setupPlug(c, b) \/ SendRequest(c, b) \/ SendQuery(c, b)
        PROVE  Answered
    <3>1. UNCHANGED got
      BY <2>2 DEF update, setupPlug, SendRequest, SendQuery
    <3> QED
      BY <3>1
  <2>3. ASSUME NEW c \in Conn, ReceiveReply(c) PROVE Answered
    <3>1. c \in Lockstep
      BY <2>3 DEF ReceiveReply
    <3>2. PICK n \in DOMAIN inbox[c] :
            /\ got' = [got EXCEPT ![c] = inbox[c][n]]
            /\ inbox[c][n].from = c /\ inbox[c][n].number = sent[c]
      BY <1>1, <2>3, <3>1, Returned
    <3>3. /\ got'[c] = inbox[c][n]
          /\ \A d \in Conn : d # c => got'[d] = got[d]
      BY <1>1, <3>2 DEF PortsGood, PortsTypeOK
    <3> QED
      BY <3>2, <3>3, Apart
  <2>4. ASSUME NEW c \in Conn, ReceiveAny(c) PROVE Answered
    <3>1. c \notin Lockstep
      BY <2>4, Apart DEF ReceiveAny
    <3>2. \A d \in Lockstep : got'[d] = got[d]
      BY <1>1, <2>4, <3>1, Apart DEF ReceiveAny, PortsGood, PortsTypeOK
    <3> QED
      BY <3>2
  <2>5. ASSUME NEW c \in Conn, Reset(c) PROVE Answered
    <3>1. UNCHANGED got
      BY <2>5 DEF Reset
    <3> QED
      BY <3>1
  <2>6. ASSUME NEW b \in Bind,
               \/ ReceiveRequest(b) \/ SendReply(b) \/ ReceiveQuery(b) \/ SendAnswer(b)
               \/ Publish(b) \/ Crash(b)
               \/ \E n \in DOMAIN inbox[b] : Lose(b, n)
        PROVE  Answered
    <3>1. UNCHANGED got
      BY <2>6 DEF ReceiveRequest, SendReply, ReceiveQuery, SendAnswer, Publish, Crash, Lose
    <3> QED
      BY <3>1
  <2>7. CASE PortsNext
    BY <2>2, <2>3, <2>4, <2>5, <2>6, <2>7 DEF PortsNext
  <2> QED
    BY <1>1, <2>1, <2>7
<1>2. PortsGood /\ [PortsNext]_portsVars => [Answered]_portsVars
  BY <1>1
<1>3. PortsInit => PortsGood
  BY PortsInitGood
<1>4. PortsGood /\ [PortsNext]_portsVars => PortsGood'
  BY PortsNextGood
<1>5. PortsSpec => [][Answered]_portsVars
  BY <1>2, <1>3, <1>4, PTL DEF PortsSpec
<1> QED
  BY <1>5 DEF RepliesMatch
================================================================================
