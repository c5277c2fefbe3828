--------------------------- MODULE FaultMonitorProofs ---------------------------
(***************************************************************************)
(* The notice of peers is right on any number of nodes, however often they *)
(* lose each other and however often actors are started and die.           *)
(*                                                                         *)
(* What a node will know is what it knows, and then the events that wait   *)
(* in order.  OnBefore reads that from a queue; the first lemmas say how   *)
(* its answer changes when the queue does.                                 *)
(***************************************************************************)
EXTENDS FaultMonitor, FiniteSetTheorems, SequenceTheorems, TLAPS

--------------------------------------------------------------------------------
(* Queues that switch something on and off *)

\* An empty queue leaves it as it is.
LEMMA OnBeforeEmpty ==
  ASSUME NEW f, f \in BOOLEAN, NEW on, NEW off
  PROVE  OnBefore(Len(<<>>) + 1, <<>>, f, on, off) <=> f
BY DEF OnBefore

\* The first elements are all that counts before what follows them.
LEMMA OnBeforeFirst ==
  ASSUME NEW S, NEW q \in Seq(S), NEW e \in S, NEW f \in BOOLEAN, NEW on, NEW off,
         NEW i \in 1 .. Len(q) + 1
  PROVE  OnBefore(i, Append(q, e), f, on, off) <=> OnBefore(i, q, f, on, off)
<1>1. DOMAIN Append(q, e) = 1 .. Len(q) + 1 /\ DOMAIN q = 1 .. Len(q) /\ Len(q) \in Nat
  OBVIOUS
<1>2. \A k \in 1 .. Len(q) : Append(q, e)[k] = q[k]
  OBVIOUS
<1>3. \A k \in 1 .. Len(q) + 1 : k < i => k \in 1 .. Len(q)
  OBVIOUS
<1> QED
  BY <1>1, <1>2, <1>3 DEF OnBefore

\* One more element switches it on, or off, or leaves it.
LEMMA OnBeforeAppend ==
  ASSUME NEW S, NEW q \in Seq(S), NEW e \in S, NEW f \in BOOLEAN, NEW on, NEW off
  PROVE  OnBefore(Len(Append(q, e)) + 1, Append(q, e), f, on, off)
           <=> e \in on \/ (e \notin off /\ OnBefore(Len(q) + 1, q, f, on, off))
<1> DEFINE r == Append(q, e)
           n == Len(q) + 1
<1>1. DOMAIN r = 1 .. n /\ DOMAIN q = 1 .. Len(q) /\ Len(q) \in Nat /\ Len(r) = n
  OBVIOUS
<1>2. r[n] = e /\ \A k \in 1 .. Len(q) : r[k] = q[k]
  OBVIOUS
<1>3. \A k \in 1 .. n : k < n + 1 /\ (k = n \/ k \in 1 .. Len(q)) /\ (k \in 1 .. Len(q) => k < n)
  BY <1>1
<1>4. \A k \in 1 .. Len(q) : k \in 1 .. n
  BY <1>1
<1>5. \A j \in 1 .. Len(q) :
        (\A k \in 1 .. n : j < k /\ k < n + 1 => r[k] \notin off)
          <=> e \notin off /\ \A k \in 1 .. Len(q) : j < k /\ k < n => q[k] \notin off
  BY <1>1, <1>2, <1>3, <1>4
<1>6. (\A k \in 1 .. n : k < n + 1 => r[k] \notin off)
        <=> e \notin off /\ \A k \in 1 .. Len(q) : k < n => q[k] \notin off
  BY <1>1, <1>2, <1>3, <1>4
<1>7. \A k \in 1 .. n : ~(n < k)
  BY <1>1
<1> HIDE DEF r, n
<1>8. OnBefore(n + 1, r, f, on, off) <=>
        \/ \E j \in 1 .. n : r[j] \in on /\ \A k \in 1 .. n : j < k /\ k < n + 1 => r[k] \notin off
        \/ f /\ \A k \in 1 .. n : k < n + 1 => r[k] \notin off
  BY <1>1, <1>3 DEF OnBefore
<1>9. OnBefore(n, q, f, on, off) <=>
        \/ \E j \in 1 .. Len(q) : q[j] \in on /\ \A k \in 1 .. Len(q) : j < k /\ k < n => q[k] \notin off
        \/ f /\ \A k \in 1 .. Len(q) : k < n => q[k] \notin off
  BY <1>1, <1>3, <1>4 DEF OnBefore
<1>10. (\E j \in 1 .. n : r[j] \in on /\ \A k \in 1 .. n : j < k /\ k < n + 1 => r[k] \notin off)
         <=> \/ e \in on
             \/ \E j \in 1 .. Len(q) : q[j] \in on /\ \A k \in 1 .. n : j < k /\ k < n + 1 => r[k] \notin off
  <2>1. n \in 1 .. n
    BY <1>1 DEF n
  <2> QED
    BY <2>1, <1>2, <1>3, <1>4, <1>7
<1>11. OnBefore(n + 1, r, f, on, off) <=> e \in on \/ (e \notin off /\ OnBefore(n, q, f, on, off))
  BY <1>5, <1>6, <1>8, <1>9, <1>10
<1> QED
  BY <1>11, <1>1 DEF r, n

\* What the first element does may as well have been done before.
LEMMA OnBeforeTail ==
  ASSUME NEW S, NEW q \in Seq(S), q # <<>>, NEW f \in BOOLEAN, NEW on, NEW off,
         NEW i \in 1 .. Len(q)
  PROVE  OnBefore(i, Tail(q), Head(q) \in on \/ (Head(q) \notin off /\ f), on, off)
           <=> OnBefore(i + 1, q, f, on, off)
<1> DEFINE t == Tail(q)
<1>1. /\ Len(q) \in Nat \ {0} /\ DOMAIN q = 1 .. Len(q) /\ DOMAIN t = 1 .. Len(q) - 1
      /\ Head(q) = q[1] /\ \A k \in 1 .. Len(q) - 1 : t[k] = q[k + 1]
  OBVIOUS
<1> HIDE DEF t
<1>2. \A k \in 1 .. Len(q) - 1 : k + 1 \in 1 .. Len(q) /\ (k < i <=> k + 1 < i + 1) /\ 1 < k + 1
  BY <1>1
<1>3. \A k \in 1 .. Len(q) : k = 1 \/ (k - 1 \in 1 .. Len(q) - 1 /\ (k - 1) + 1 = k)
  BY <1>1
<1>4. 1 \in 1 .. Len(q) /\ 1 < i + 1
  BY <1>1
<1>5. \A k \in 1 .. Len(q) : 1 < k => /\ k - 1 \in 1 .. Len(q) - 1 /\ t[k - 1] = q[k]
                                     /\ (k < i + 1 => k - 1 < i)
                                     /\ \A j \in 1 .. Len(q) - 1 : j + 1 < k => j < k - 1
  BY <1>1, <1>3
<1>6. \A k, j \in 1 .. Len(q) - 1 : j < k => j + 1 < k + 1
  BY <1>1
<1>7. \A j \in 1 .. Len(q) - 1 :
        (\A k \in 1 .. Len(q) - 1 : j < k /\ k < i => t[k] \notin off)
          <=> \A k \in 1 .. Len(q) : j + 1 < k /\ k < i + 1 => q[k] \notin off
  <2> TAKE j \in 1 .. Len(q) - 1
  <2>1. ASSUME \A k \in 1 .. Len(q) - 1 : j < k /\ k < i => t[k] \notin off,
               NEW k \in 1 .. Len(q), j + 1 < k, k < i + 1
        PROVE  q[k] \notin off
    <3>1. 1 < k
      BY <2>1
    <3> QED
      BY <2>1, <3>1, <1>5
  <2>2. ASSUME \A k \in 1 .. Len(q) : j + 1 < k /\ k < i + 1 => q[k] \notin off,
               NEW k \in 1 .. Len(q) - 1, j < k, k < i
        PROVE  t[k] \notin off
    BY <2>2, <1>1, <1>2, <1>6
  <2> QED
    BY <2>1, <2>2
<1>8. (\A k \in 1 .. Len(q) - 1 : k < i => t[k] \notin off)
         <=> \A k \in 1 .. Len(q) : 1 < k /\ k < i + 1 => q[k] \notin off
  <2>1. ASSUME \A k \in 1 .. Len(q) - 1 : k < i => t[k] \notin off,
               NEW k \in 1 .. Len(q), 1 < k, k < i + 1
        PROVE  q[k] \notin off
    BY <2>1, <1>5
  <2>2. ASSUME \A k \in 1 .. Len(q) : 1 < k /\ k < i + 1 => q[k] \notin off,
               NEW k \in 1 .. Len(q) - 1, k < i
        PROVE  t[k] \notin off
    BY <2>2, <1>1, <1>2
  <2> QED
    BY <2>1, <2>2
<1>9. (\E j \in 1 .. Len(q) - 1 : j < i /\ t[j] \in on
                                    /\ \A k \in 1 .. Len(q) - 1 : j < k /\ k < i => t[k] \notin off)
         <=> \E j \in 1 .. Len(q) : 1 < j /\ j < i + 1 /\ q[j] \in on
                                    /\ \A k \in 1 .. Len(q) : j < k /\ k < i + 1 => q[k] \notin off
  <2>1. ASSUME NEW j \in 1 .. Len(q) - 1, j < i, t[j] \in on,
               \A k \in 1 .. Len(q) - 1 : j < k /\ k < i => t[k] \notin off
        PROVE  /\ j + 1 \in 1 .. Len(q) /\ 1 < j + 1 /\ j + 1 < i + 1 /\ q[j + 1] \in on
               /\ \A k \in 1 .. Len(q) : j + 1 < k /\ k < i + 1 => q[k] \notin off
    BY <2>1, <1>1, <1>2, <1>7
  <2>2. ASSUME NEW j \in 1 .. Len(q), 1 < j, j < i + 1, q[j] \in on,
               \A k \in 1 .. Len(q) : j < k /\ k < i + 1 => q[k] \notin off
        PROVE  /\ j - 1 \in 1 .. Len(q) - 1 /\ j - 1 < i /\ t[j - 1] \in on
               /\ \A k \in 1 .. Len(q) - 1 : j - 1 < k /\ k < i => t[k] \notin off
    <3>1. j - 1 \in 1 .. Len(q) - 1 /\ (j - 1) + 1 = j /\ j - 1 < i /\ t[j - 1] \in on
      BY <2>2, <1>5, <1>3
    <3> QED
      BY <2>2, <3>1, <1>7
  <2> QED
    BY <2>1, <2>2
<1>10. (\A k \in 1 .. Len(q) : k < i + 1 => q[k] \notin off)
        <=> q[1] \notin off /\ \A k \in 1 .. Len(q) : 1 < k /\ k < i + 1 => q[k] \notin off
  BY <1>1, <1>3, <1>4
<1>11. (\E j \in 1 .. Len(q) : j < i + 1 /\ q[j] \in on
                              /\ \A k \in 1 .. Len(q) : j < k /\ k < i + 1 => q[k] \notin off)
        <=> \/ q[1] \in on /\ \A k \in 1 .. Len(q) : 1 < k /\ k < i + 1 => q[k] \notin off
            \/ \E j \in 1 .. Len(q) : 1 < j /\ j < i + 1 /\ q[j] \in on
                                   /\ \A k \in 1 .. Len(q) : j < k /\ k < i + 1 => q[k] \notin off
  BY <1>1, <1>3, <1>4
<1>12. OnBefore(i, t, q[1] \in on \/ (q[1] \notin off /\ f), on, off) <=> OnBefore(i + 1, q, f, on, off)
  BY <1>1, <1>8, <1>9, <1>10, <1>11 DEF OnBefore
<1> QED
  BY <1>1, <1>12 DEF t

\* It is on when it was so at first more often.
LEMMA OnBeforeMonotone ==
  ASSUME NEW q, NEW f \in BOOLEAN, NEW g \in BOOLEAN, f => g, NEW on, NEW off, NEW i,
         OnBefore(i, q, f, on, off)
  PROVE  OnBefore(i, q, g, on, off)
BY DEF OnBefore

--------------------------------------------------------------------------------
(* What the events of a peer tell *)

\* A peer enters, is left and sends anything else only in between: one more event.
LEMMA EnteredAppend ==
  ASSUME NEW q \in Seq(Event), NEW e \in Event, NEW p \in BOOLEAN, NEW l \in BOOLEAN,
         NEW l2 \in BOOLEAN, Entered(q, p, l), e = "ENTER" \/ l,
         l2 <=> e = "ENTER" \/ (e # "EXIT" /\ l)
  PROVE  Entered(Append(q, e), p, l2)
<1>1. DOMAIN Append(q, e) = DOMAIN q \cup {Len(q) + 1} /\ DOMAIN q = 1 .. Len(q) /\ Len(q) \in Nat
  OBVIOUS
<1>2. Append(q, e)[Len(q) + 1] = e /\ \A i \in DOMAIN q : Append(q, e)[i] = q[i]
  OBVIOUS
<1>3. \A i \in 1 .. Len(q) + 1 :
        OnBefore(i, Append(q, e), p, {"ENTER"}, {"EXIT"}) <=> OnBefore(i, q, p, {"ENTER"}, {"EXIT"})
  BY OnBeforeFirst
<1>4. l2 <=> OnBefore(Len(Append(q, e)) + 1, Append(q, e), p, {"ENTER"}, {"EXIT"})
  <2>1. OnBefore(Len(Append(q, e)) + 1, Append(q, e), p, {"ENTER"}, {"EXIT"})
          <=> e \in {"ENTER"} \/ (e \notin {"EXIT"} /\ OnBefore(Len(q) + 1, q, p, {"ENTER"}, {"EXIT"}))
    BY OnBeforeAppend
  <2>2. l <=> OnBefore(Len(q) + 1, q, p, {"ENTER"}, {"EXIT"})
    BY DEF Entered
  <2> QED
    BY <2>1, <2>2
<1>5. \A i \in DOMAIN Append(q, e) :
        Append(q, e)[i] # "ENTER" => OnBefore(i, Append(q, e), p, {"ENTER"}, {"EXIT"})
  <2>1. ASSUME NEW i \in DOMAIN q, q[i] # "ENTER"
        PROVE  OnBefore(i, Append(q, e), p, {"ENTER"}, {"EXIT"})
    <3>1. i \in 1 .. Len(q) + 1
      BY <1>1
    <3> QED
      BY <2>1, <3>1, <1>3 DEF Entered
  <2>2. e # "ENTER" => OnBefore(Len(q) + 1, Append(q, e), p, {"ENTER"}, {"EXIT"})
    <3>1. Len(q) + 1 \in 1 .. Len(q) + 1
      BY <1>1
    <3> QED
      BY <3>1, <1>3 DEF Entered
  <2> QED
    BY <1>1, <1>2, <2>1, <2>2
<1> QED
  BY <1>4, <1>5 DEF Entered

\* The first event is taken: it is ENTER, or comes from a peer.
LEMMA EnteredTail ==
  ASSUME NEW q \in Seq(Event), q # <<>>, NEW p \in BOOLEAN, NEW l \in BOOLEAN, Entered(q, p, l),
         NEW p2 \in BOOLEAN, p2 <=> Head(q) = "ENTER" \/ (Head(q) # "EXIT" /\ p)
  PROVE  Entered(Tail(q), p2, l) /\ (Head(q) = "ENTER" \/ p)
<1>1. /\ Len(q) \in Nat \ {0} /\ DOMAIN q = 1 .. Len(q) /\ DOMAIN Tail(q) = 1 .. Len(q) - 1
      /\ Len(Tail(q)) + 1 = Len(q) /\ Head(q) = q[1]
      /\ \A k \in 1 .. Len(q) - 1 : Tail(q)[k] = q[k + 1] /\ k + 1 \in 1 .. Len(q) /\ k \in 1 .. Len(q)
      /\ Len(q) \in 1 .. Len(q) /\ 1 \in 1 .. Len(q)
  OBVIOUS
<1>2. p2 <=> Head(q) \in {"ENTER"} \/ (Head(q) \notin {"EXIT"} /\ p)
  OBVIOUS
<1>3. \A i \in 1 .. Len(q) :
        OnBefore(i, Tail(q), p2, {"ENTER"}, {"EXIT"}) <=> OnBefore(i + 1, q, p, {"ENTER"}, {"EXIT"})
  <2> DEFINE pp == Head(q) \in {"ENTER"} \/ (Head(q) \notin {"EXIT"} /\ p)
  <2>1. \A i \in 1 .. Len(q) :
          OnBefore(i, Tail(q), pp, {"ENTER"}, {"EXIT"}) <=> OnBefore(i + 1, q, p, {"ENTER"}, {"EXIT"})
    BY OnBeforeTail
  <2>2. pp = p2
    BY <1>2
  <2> QED
    BY <2>1, <2>2
<1>4. Head(q) = "ENTER" \/ p
  <2>1. Head(q) # "ENTER" => OnBefore(1, q, p, {"ENTER"}, {"EXIT"})
    BY <1>1 DEF Entered
  <2>2. OnBefore(1, q, p, {"ENTER"}, {"EXIT"}) => p
    BY <1>1 DEF OnBefore
  <2> QED
    BY <2>1, <2>2
<1>5. \A i \in DOMAIN Tail(q) : Tail(q)[i] # "ENTER" => OnBefore(i, Tail(q), p2, {"ENTER"}, {"EXIT"})
  BY <1>1, <1>3 DEF Entered
<1>6. l <=> OnBefore(Len(Tail(q)) + 1, Tail(q), p2, {"ENTER"}, {"EXIT"})
  BY <1>1, <1>3 DEF Entered
<1> QED
  BY <1>4, <1>5, <1>6 DEF Entered

\* A peer that leaves the group, or sends a message, is in it: one more event.
LEMMA GroupedAppend ==
  ASSUME NEW q \in Seq(Event), NEW e \in Event, NEW g \in BOOLEAN, NEW r \in BOOLEAN,
         NEW r2 \in BOOLEAN, Grouped(q, g, r), e \in {"LEAVE", "+", "-"} => r,
         r2 => e = "JOIN" \/ (e # "LEAVE" /\ r)
  PROVE  Grouped(Append(q, e), g, r2)
<1>1. DOMAIN Append(q, e) = DOMAIN q \cup {Len(q) + 1} /\ DOMAIN q = 1 .. Len(q) /\ Len(q) \in Nat
  OBVIOUS
<1>2. Append(q, e)[Len(q) + 1] = e /\ \A i \in DOMAIN q : Append(q, e)[i] = q[i]
  OBVIOUS
<1>3. \A i \in 1 .. Len(q) + 1 :
        OnBefore(i, Append(q, e), g, {"JOIN"}, {"LEAVE"}) <=> OnBefore(i, q, g, {"JOIN"}, {"LEAVE"})
  BY OnBeforeFirst
<1>4. r => OnBefore(Len(q) + 1, q, g, {"JOIN"}, {"LEAVE"})
  BY DEF Grouped
<1>5. r2 => OnBefore(Len(Append(q, e)) + 1, Append(q, e), g, {"JOIN"}, {"LEAVE"})
  <2>1. OnBefore(Len(Append(q, e)) + 1, Append(q, e), g, {"JOIN"}, {"LEAVE"})
          <=> e \in {"JOIN"} \/ (e \notin {"LEAVE"} /\ OnBefore(Len(q) + 1, q, g, {"JOIN"}, {"LEAVE"}))
    BY OnBeforeAppend
  <2> QED
    BY <2>1, <1>4
<1>6. \A i \in DOMAIN Append(q, e) : Append(q, e)[i] \in {"LEAVE", "+", "-"}
        => OnBefore(i, Append(q, e), g, {"JOIN"}, {"LEAVE"})
  <2>1. ASSUME NEW i \in DOMAIN q, q[i] \in {"LEAVE", "+", "-"}
        PROVE  OnBefore(i, Append(q, e), g, {"JOIN"}, {"LEAVE"})
    <3>1. i \in 1 .. Len(q) + 1
      BY <1>1
    <3> QED
      BY <2>1, <3>1, <1>3 DEF Grouped
  <2>2. e \in {"LEAVE", "+", "-"} => OnBefore(Len(q) + 1, Append(q, e), g, {"JOIN"}, {"LEAVE"})
    <3>1. Len(q) + 1 \in 1 .. Len(q) + 1
      BY <1>1
    <3> QED
      BY <3>1, <1>3, <1>4
  <2> QED
    BY <1>1, <1>2, <2>1, <2>2
<1> QED
  BY <1>5, <1>6 DEF Grouped

\* The first event is taken: it leaves the peer in the group, puts it there, or finds it there.
LEMMA GroupedTail ==
  ASSUME NEW q \in Seq(Event), q # <<>>, NEW g \in BOOLEAN, NEW r \in BOOLEAN, Grouped(q, g, r),
         NEW g2 \in BOOLEAN, Head(q) = "JOIN" \/ (Head(q) # "LEAVE" /\ g) => g2
  PROVE  Grouped(Tail(q), g2, r) /\ (Head(q) \in {"LEAVE", "+", "-"} => g)
<1>1. /\ Len(q) \in Nat \ {0} /\ DOMAIN q = 1 .. Len(q) /\ DOMAIN Tail(q) = 1 .. Len(q) - 1
      /\ Len(Tail(q)) + 1 = Len(q) /\ Head(q) = q[1]
      /\ \A k \in 1 .. Len(q) - 1 : Tail(q)[k] = q[k + 1] /\ k + 1 \in 1 .. Len(q) /\ k \in 1 .. Len(q)
      /\ Len(q) \in 1 .. Len(q) /\ 1 \in 1 .. Len(q)
  OBVIOUS
<1>2. \A i \in 1 .. Len(q) :
        OnBefore(i + 1, q, g, {"JOIN"}, {"LEAVE"}) => OnBefore(i, Tail(q), g2, {"JOIN"}, {"LEAVE"})
  <2> DEFINE gg == Head(q) \in {"JOIN"} \/ (Head(q) \notin {"LEAVE"} /\ g)
  <2>1. \A i \in 1 .. Len(q) :
          OnBefore(i, Tail(q), gg, {"JOIN"}, {"LEAVE"}) <=> OnBefore(i + 1, q, g, {"JOIN"}, {"LEAVE"})
    BY OnBeforeTail
  <2>2. gg \in BOOLEAN /\ (gg => g2)
    OBVIOUS
  <2> QED
    BY <2>1, <2>2, OnBeforeMonotone
<1>3. Head(q) \in {"LEAVE", "+", "-"} => g
  <2>1. Head(q) \in {"LEAVE", "+", "-"} => OnBefore(1, q, g, {"JOIN"}, {"LEAVE"})
    BY <1>1 DEF Grouped
  <2>2. OnBefore(1, q, g, {"JOIN"}, {"LEAVE"}) => g
    BY <1>1 DEF OnBefore
  <2> QED
    BY <2>1, <2>2
<1>4. \A i \in DOMAIN Tail(q) :
        Tail(q)[i] \in {"LEAVE", "+", "-"} => OnBefore(i, Tail(q), g2, {"JOIN"}, {"LEAVE"})
  BY <1>1, <1>2 DEF Grouped
<1>5. r => OnBefore(Len(Tail(q)) + 1, Tail(q), g2, {"JOIN"}, {"LEAVE"})
  BY <1>1, <1>2 DEF Grouped
<1> QED
  BY <1>3, <1>4, <1>5 DEF Grouped

\* Only what the peer is at the end may become less.
LEMMA GroupedLess ==
  ASSUME NEW q, NEW g, NEW r, NEW r2, Grouped(q, g, r), r2 => r
  PROVE  Grouped(q, g, r2)
BY DEF Grouped

\* An actor is announced: one more event.
LEMMA AnnouncedAppend ==
  ASSUME NEW q \in Seq(Event), NEW e \in Event, NEW f \in BOOLEAN, NEW a \in BOOLEAN,
         NEW a2 \in BOOLEAN, Announced(q, f, a),
         a2 => e \in {"JOIN", "+"} \/ (e = "ENTER" /\ a)
  PROVE  Announced(Append(q, e), f, a2)
<1> DEFINE on == {"JOIN", "+"}  off == {"LEAVE", "EXIT", "-"}
<1> HIDE DEF on, off
<1>1. OnBefore(Len(Append(q, e)) + 1, Append(q, e), f, on, off)
        <=> e \in on \/ (e \notin off /\ OnBefore(Len(q) + 1, q, f, on, off))
  BY OnBeforeAppend
<1>2. a => OnBefore(Len(q) + 1, q, f, on, off)
  BY DEF Announced, on, off
<1>3. (e = "ENTER" => e \notin off) /\ (e \in {"JOIN", "+"} => e \in on)
  BY DEF on, off
<1>4. a2 => OnBefore(Len(Append(q, e)) + 1, Append(q, e), f, on, off)
  BY <1>1, <1>2, <1>3
<1> QED
  BY <1>4 DEF Announced, on, off

\* The first event is taken, and the actor told.
LEMMA AnnouncedTail ==
  ASSUME NEW q \in Seq(Event), q # <<>>, NEW f \in BOOLEAN, NEW a \in BOOLEAN, Announced(q, f, a),
         NEW f2 \in BOOLEAN, Head(q) \in {"JOIN", "+"} \/ (Head(q) = "ENTER" /\ f) => f2
  PROVE  Announced(Tail(q), f2, a)
<1> DEFINE on == {"JOIN", "+"}  off == {"LEAVE", "EXIT", "-"}
           ff == Head(q) \in on \/ (Head(q) \notin off /\ f)
<1>1. Len(q) \in 1 .. Len(q) /\ Len(Tail(q)) + 1 = Len(q) /\ Head(q) \in Event
  OBVIOUS
<1>2. OnBefore(Len(q), Tail(q), ff, on, off) <=> OnBefore(Len(q) + 1, q, f, on, off)
  BY <1>1, OnBeforeTail
<1>3. ff \in BOOLEAN /\ (ff => f2)
  BY <1>1 DEF Event
<1>4. a => OnBefore(Len(q) + 1, q, f, on, off)
  BY DEF Announced
<1> HIDE DEF ff, on, off
<1>5. OnBefore(Len(q), Tail(q), ff, on, off) => OnBefore(Len(q), Tail(q), f2, on, off)
  BY <1>3, OnBeforeMonotone
<1>6. a => OnBefore(Len(Tail(q)) + 1, Tail(q), f2, on, off)
  BY <1>1, <1>2, <1>4, <1>5
<1> QED
  BY <1>6 DEF Announced, on, off

\* What the actor has been told may become more, and who is there less.
LEMMA AnnouncedMore ==
  ASSUME NEW q, NEW f \in BOOLEAN, NEW f2 \in BOOLEAN, f => f2, NEW a, NEW a2, a2 => a,
         Announced(q, f, a)
  PROVE  Announced(q, f2, a2)
<1>1. OnBefore(Len(q) + 1, q, f, {"JOIN", "+"}, {"LEAVE", "EXIT", "-"})
        => OnBefore(Len(q) + 1, q, f2, {"JOIN", "+"}, {"LEAVE", "EXIT", "-"})
  BY OnBeforeMonotone
<1> QED
  BY <1>1 DEF Announced

--------------------------------------------------------------------------------
(* What the messages of the monitor tell an actor *)

\* One queue after the other.
LEMMA PeerAfterBoth ==
  ASSUME NEW S, NEW q \in Seq(S), NEW t \in Seq(S), NEW f \in BOOLEAN, NEW m
  PROVE  PeerAfter(q \o t, f, m) <=> PeerAfter(t, PeerAfter(q, f, m), m)
<1> DEFINE r == q \o t
           a == Len(q)
           b == Len(t)
           on == {<<"peer+", m>>}
           off == {<<"peer-", m>>}
<1>1. /\ a \in Nat /\ b \in Nat /\ Len(r) = a + b
      /\ DOMAIN q = 1 .. a /\ DOMAIN t = 1 .. b /\ DOMAIN r = 1 .. a + b
      /\ \A k \in 1 .. a : r[k] = q[k]
      /\ \A k \in 1 .. b : r[a + k] = t[k]
  OBVIOUS
<1> HIDE DEF r, a, b, on, off
<1>2. \A k \in 1 .. a + b : k \in 1 .. a \/ (k - a \in 1 .. b /\ a + (k - a) = k)
  BY <1>1
<1>3. \A k \in 1 .. b : a + k \in 1 .. a + b /\ \A j \in 1 .. a : j < a + k
  BY <1>1
<1>4. \A k \in 1 .. a : k \in 1 .. a + b
  BY <1>1
<1>5. OnBefore(a + b + 1, r, f, on, off) <=>
        \/ \E j \in 1 .. a + b : r[j] \in on /\ \A k \in 1 .. a + b : j < k => r[k] \notin off
        \/ f /\ \A k \in 1 .. a + b : r[k] \notin off
  <2>1. \A k \in 1 .. a + b : k < a + b + 1
    BY <1>1
  <2> QED
    BY <1>1, <2>1 DEF OnBefore
<1>6. OnBefore(a + 1, q, f, on, off) <=>
        \/ \E j \in 1 .. a : q[j] \in on /\ \A k \in 1 .. a : j < k => q[k] \notin off
        \/ f /\ \A k \in 1 .. a : q[k] \notin off
  <2>1. \A k \in 1 .. a : k < a + 1
    BY <1>1
  <2> QED
    BY <1>1, <2>1 DEF OnBefore
<1>7. ASSUME NEW g \in BOOLEAN
      PROVE  OnBefore(b + 1, t, g, on, off) <=>
               \/ \E j \in 1 .. b : t[j] \in on /\ \A k \in 1 .. b : j < k => t[k] \notin off
               \/ g /\ \A k \in 1 .. b : t[k] \notin off
  <2>1. \A k \in 1 .. b : k < b + 1
    BY <1>1
  <2> QED
    BY <1>1, <2>1 DEF OnBefore
<1>8. (\A k \in 1 .. a + b : r[k] \notin off)
        <=> (\A k \in 1 .. a : q[k] \notin off) /\ (\A k \in 1 .. b : t[k] \notin off)
  <2>1. ASSUME \A k \in 1 .. a + b : r[k] \notin off
        PROVE  (\A k \in 1 .. a : q[k] \notin off) /\ (\A k \in 1 .. b : t[k] \notin off)
    <3>1. ASSUME NEW k \in 1 .. b PROVE t[k] \notin off
      BY <2>1, <1>1, <1>3
    <3> QED
      BY <2>1, <3>1, <1>1, <1>4
  <2>2. ASSUME \A k \in 1 .. a : q[k] \notin off, \A k \in 1 .. b : t[k] \notin off,
               NEW k \in 1 .. a + b
        PROVE  r[k] \notin off
    <3>1. CASE k \in 1 .. a
      BY <2>2, <3>1, <1>1
    <3>2. CASE k - a \in 1 .. b /\ a + (k - a) = k
      BY <2>2, <3>2, <1>1
    <3> QED
      BY <3>1, <3>2, <1>2
  <2> QED
    BY <2>1, <2>2
<1>9. \A j \in 1 .. a : (\A k \in 1 .. a + b : j < k => r[k] \notin off)
        <=> (\A k \in 1 .. a : j < k => q[k] \notin off) /\ (\A k \in 1 .. b : t[k] \notin off)
  <2> TAKE j \in 1 .. a
  <2>1. ASSUME \A k \in 1 .. a + b : j < k => r[k] \notin off
        PROVE  (\A k \in 1 .. a : j < k => q[k] \notin off) /\ (\A k \in 1 .. b : t[k] \notin off)
    <3>1. ASSUME NEW k \in 1 .. b PROVE t[k] \notin off
      BY <2>1, <1>1, <1>3
    <3> QED
      BY <2>1, <3>1, <1>1, <1>4
  <2>2. ASSUME \A k \in 1 .. a : j < k => q[k] \notin off, \A k \in 1 .. b : t[k] \notin off,
               NEW k \in 1 .. a + b, j < k
        PROVE  r[k] \notin off
    <3>1. CASE k \in 1 .. a
      BY <2>2, <3>1, <1>1
    <3>2. CASE k - a \in 1 .. b /\ a + (k - a) = k
      BY <2>2, <3>2, <1>1
    <3> QED
      BY <3>1, <3>2, <1>2
  <2> QED
    BY <2>1, <2>2
<1>10. \A j \in 1 .. b : (\A k \in 1 .. a + b : a + j < k => r[k] \notin off)
         <=> \A k \in 1 .. b : j < k => t[k] \notin off
  <2> TAKE j \in 1 .. b
  <2>1. ASSUME \A k \in 1 .. a + b : a + j < k => r[k] \notin off, NEW k \in 1 .. b, j < k
        PROVE  t[k] \notin off
    <3>1. a + j < a + k
      BY <2>1, <1>1
    <3> QED
      BY <2>1, <3>1, <1>1, <1>3
  <2>2. ASSUME \A k \in 1 .. b : j < k => t[k] \notin off, NEW k \in 1 .. a + b, a + j < k
        PROVE  r[k] \notin off
    <3>1. k \notin 1 .. a /\ j < k - a
      BY <2>2, <1>1
    <3> QED
      BY <2>2, <3>1, <1>1, <1>2
  <2> QED
    BY <2>1, <2>2
<1>11. (\E j \in 1 .. a + b : r[j] \in on /\ \A k \in 1 .. a + b : j < k => r[k] \notin off) <=>
         \/ \E j \in 1 .. a : /\ q[j] \in on /\ \A k \in 1 .. a : j < k => q[k] \notin off
                              /\ \A k \in 1 .. b : t[k] \notin off
         \/ \E j \in 1 .. b : t[j] \in on /\ \A k \in 1 .. b : j < k => t[k] \notin off
  <2> DEFINE P(j) == r[j] \in on /\ \A k \in 1 .. a + b : j < k => r[k] \notin off
  <2>1. \A j \in 1 .. a : P(j) <=> /\ q[j] \in on /\ \A k \in 1 .. a : j < k => q[k] \notin off
                                   /\ \A k \in 1 .. b : t[k] \notin off
    BY <1>1, <1>9
  <2>2. \A j \in 1 .. b : P(a + j) <=> t[j] \in on /\ \A k \in 1 .. b : j < k => t[k] \notin off
    BY <1>1, <1>10
  <2> HIDE DEF P
  <2>3. (\E j \in 1 .. a + b : P(j)) <=> (\E j \in 1 .. a : P(j)) \/ (\E j \in 1 .. b : P(a + j))
    BY <1>2, <1>3, <1>4
  <2>4. (\E j \in 1 .. a + b : P(j)) <=>
          \/ \E j \in 1 .. a : /\ q[j] \in on /\ \A k \in 1 .. a : j < k => q[k] \notin off
                               /\ \A k \in 1 .. b : t[k] \notin off
          \/ \E j \in 1 .. b : t[j] \in on /\ \A k \in 1 .. b : j < k => t[k] \notin off
    BY <2>1, <2>2, <2>3
  <2> QED
    BY <2>4 DEF P
<1>12. OnBefore(a + 1, q, f, on, off) \in BOOLEAN
  BY DEF OnBefore
<1>13. OnBefore(a + b + 1, r, f, on, off) <=> OnBefore(b + 1, t, OnBefore(a + 1, q, f, on, off), on, off)
  BY <1>5, <1>6, <1>7, <1>8, <1>11, <1>12
<1> QED
  BY <1>13, <1>1 DEF PeerAfter, r, a, b, on, off

\* One more message, and one that comes first.
LEMMA PeerAfterAppend ==
  ASSUME NEW q \in Seq(Note), NEW x \in Note, NEW f \in BOOLEAN, NEW m
  PROVE  PeerAfter(Append(q, x), f, m)
           <=> x = <<"peer+", m>> \/ (x # <<"peer-", m>> /\ PeerAfter(q, f, m))
<1> DEFINE on == {<<"peer+", m>>}  off == {<<"peer-", m>>}
<1>1. (x \in on <=> x = <<"peer+", m>>) /\ (x \in off <=> x = <<"peer-", m>>)
  OBVIOUS
<1> HIDE DEF on, off
<1>2. OnBefore(Len(Append(q, x)) + 1, Append(q, x), f, on, off)
        <=> x \in on \/ (x \notin off /\ OnBefore(Len(q) + 1, q, f, on, off))
  BY OnBeforeAppend
<1> QED
  BY <1>1, <1>2 DEF PeerAfter, on, off

LEMMA PeerAfterTail ==
  ASSUME NEW q \in Seq(Note), q # <<>>, NEW f \in BOOLEAN, NEW m,
         NEW g \in BOOLEAN, g <=> Head(q) = <<"peer+", m>> \/ (Head(q) # <<"peer-", m>> /\ f)
  PROVE  PeerAfter(Tail(q), g, m) <=> PeerAfter(q, f, m)
<1> DEFINE on == {<<"peer+", m>>}  off == {<<"peer-", m>>}
           h == Head(q) \in on \/ (Head(q) \notin off /\ f)
<1>1. h = g
  OBVIOUS
<1>2. Len(q) \in 1 .. Len(q) /\ Len(Tail(q)) + 1 = Len(q)
  OBVIOUS
<1> HIDE DEF on, off
<1>3. OnBefore(Len(q), Tail(q), h, on, off) <=> OnBefore(Len(q) + 1, q, f, on, off)
  BY <1>2, OnBeforeTail
<1> HIDE DEF h
<1>4. OnBefore(Len(Tail(q)) + 1, Tail(q), g, on, off) <=> OnBefore(Len(q) + 1, q, f, on, off)
  BY <1>1, <1>2, <1>3
<1> QED
  BY <1>4 DEF PeerAfter, on, off

\* No message leaves the actor as it is, and only a message makes a peer of a node.
LEMMA PeerAfterNone ==
  ASSUME NEW f \in BOOLEAN, NEW m
  PROVE  PeerAfter(<<>>, f, m) <=> f
BY OnBeforeEmpty DEF PeerAfter

LEMMA PeerAfterType ==
  ASSUME NEW q, NEW f \in BOOLEAN, NEW m
  PROVE  PeerAfter(q, f, m) \in BOOLEAN
BY DEF PeerAfter, OnBefore

LEMMA PeerAfterSome ==
  ASSUME NEW q \in Seq(Note), NEW m, PeerAfter(q, FALSE, m)
  PROVE  Contains(q, <<"peer+", m>>)
BY DEF PeerAfter, OnBefore, Contains

\* A sequence of all members of a set.
LEMMA Listed ==
  ASSUME NEW T, IsFiniteSet(T)
  PROVE  /\ Cardinality(T) \in Nat
         /\ SetToSeq(T) \in [1 .. Cardinality(T) -> T]
         /\ \A x \in T : \E i \in 1 .. Cardinality(T) : SetToSeq(T)[i] = x
<1> DEFINE c == Cardinality(T)
           l == SetToSeq(T)
<1>1. c \in Nat
  BY FS_CardinalityType
<1>2. \E f \in [1 .. c -> T] : IsInjective(f)
  <2>1. PICK g : g \in Bijection(1 .. c, T)
    BY FS_CardinalityType DEF ExistsBijection
  <2> QED
    BY <2>1 DEF Bijection, Injection, IsInjective
<1>3. l \in [1 .. c -> T] /\ IsInjective(l)
  <2>1. (CHOOSE f \in [1 .. c -> T] : IsInjective(f)) \in [1 .. c -> T]
          /\ IsInjective(CHOOSE f \in [1 .. c -> T] : IsInjective(f))
    BY <1>2
  <2> QED
    BY <2>1 DEF SetToSeq
<1>4. \A x \in T : \E i \in 1 .. c : l[i] = x
  <2> DEFINE R == {l[i] : i \in 1 .. c}
  <2>1. R \subseteq T
    BY <1>3
  <2>2. l \in Bijection(1 .. c, R)
    BY <1>3 DEF Bijection, Injection, Surjection, IsInjective
  <2>3. IsFiniteSet(1 .. c) /\ Cardinality(1 .. c) = c
    BY <1>1, FS_Interval
  <2>4. Cardinality(R) = c
    BY <2>2, <2>3, FS_Bijection DEF ExistsBijection
  <2>5. R = T
    BY <2>1, <2>4, FS_Subset
  <2> QED
    BY <2>5
<1> QED
  BY <1>1, <1>3, <1>4

\* Messages that say of the members of a set that they are peers.
LEMMA NotesTold ==
  ASSUME FaultAssumption, NEW g \in SUBSET Node
  PROVE  /\ Notes("peer+", g) \in Seq(Note)
         /\ \A m \in Node, f \in BOOLEAN : PeerAfter(Notes("peer+", g), f, m) <=> f \/ m \in g
<1> DEFINE c == Cardinality(g)
           q == Notes("peer+", g)
<1>1. IsFiniteSet(g)
  BY FS_Subset DEF FaultAssumption
<1>2. c \in Nat /\ SetToSeq(g) \in [1 .. c -> g] /\ \A x \in g : \E i \in 1 .. c : SetToSeq(g)[i] = x
  BY <1>1, Listed
<1>3. q = [i \in 1 .. c |-> <<"peer+", SetToSeq(g)[i]>>]
  BY DEF Notes
<1> HIDE DEF q, c
<1>4. \A i \in 1 .. c : SetToSeq(g)[i] \in Node /\ <<"peer+", SetToSeq(g)[i]>> \in Note
  BY <1>2 DEF Note
<1>5. q \in Seq(Note) /\ Len(q) = c /\ DOMAIN q = 1 .. c
  BY <1>2, <1>3, <1>4
<1>6. \A i \in 1 .. c : q[i] = <<"peer+", SetToSeq(g)[i]>>
  BY <1>3
<1>7. ASSUME NEW m, NEW f \in BOOLEAN
      PROVE  PeerAfter(q, f, m) <=> f \/ m \in g
  <2>1. \A i \in 1 .. c : q[i] \notin {<<"peer-", m>>}
    BY <1>6
  <2>2. (\E i \in 1 .. c : q[i] \in {<<"peer+", m>>}) <=> m \in g
    <3>1. \A i \in 1 .. c : q[i] \in {<<"peer+", m>>} <=> m = SetToSeq(g)[i]
      BY <1>6
    <3>2. (\E i \in 1 .. c : m = SetToSeq(g)[i]) <=> m \in g
      BY <1>2
    <3> QED
      BY <3>1, <3>2
  <2>3. \A i \in 1 .. c : i < c + 1
    BY <1>2
  <2> QED
    BY <1>5, <2>1, <2>2, <2>3 DEF PeerAfter, OnBefore
<1> QED
  BY <1>5, <1>7 DEF q

--------------------------------------------------------------------------------
(* The inductive invariant, in parts *)

Monitor == [alive : BOOLEAN, peers : SUBSET Node, known : BOOLEAN,
            group : SUBSET Node, slot : BOOLEAN, actor : BOOLEAN]
Actor == [state : Phase, peerQueue : Seq(Note), peers : SUBSET Node, blind : SUBSET Node]

NodesTyped ==
  /\ up \subseteq Node /\ joined \subseteq up /\ hasApp \subseteq up /\ cleaned \subseteq Node
  /\ link \in [Node -> SUBSET Node]
EventTyped == event \in [Node -> [Node -> Seq(Event)]]
MonitorTyped == monitor \in [Node -> Monitor]
NoteTyped == note \in [Node -> Seq(Note)]
ActorTyped ==
  /\ actor \in [Node -> Actor]
  /\ \A n \in Node : actor[n].state # "launched" => actor[n].peerQueue = <<>>
SpentTyped == spent \in [command : 0 .. MaxCommand, loss : 0 .. MaxLoss]

Types == NodesTyped /\ EventTyped /\ MonitorTyped /\ NoteTyped /\ ActorTyped /\ SpentTyped
Books == \A n \in Node : BooksOf(n)
Streams == \A n, m \in Node : n \in up => StreamOf(n, m)
Beliefs == \A n, m \in Node : BeliefOf(n, m)
Inv == Types /\ Books /\ Streams /\ Beliefs

\* What is on its way, in a word.
LEMMA Kinds ==
  /\ Event = {"ENTER", "JOIN", "LEAVE", "EXIT", "+", "-"}
  /\ \A m \in Node : <<"peer+", m>> \in Note /\ <<"peer-", m>> \in Note
  /\ \A m, k \in Node : <<"peer+", m>> # <<"peer-", k>> /\ (<<"peer+", m>> = <<"peer+", k>> <=> m = k)
                        /\ (<<"peer-", m>> = <<"peer-", k>> <=> m = k)
BY DEF Event, Note

LEMMA Spends ==
  ASSUME SpentTyped, Spend("command", MaxCommand) \/ Spend("loss", MaxLoss)
  PROVE  SpentTyped'
BY FaultAssumption DEF FaultAssumption, Spend, SpentTyped

\* What the events of a node are asked for.
LEMMA ContainsAppend ==
  ASSUME NEW S, NEW q \in Seq(S), NEW x \in S, NEW e
  PROVE  Contains(Append(q, x), e) <=> x = e \/ Contains(q, e)
<1>1. /\ Len(q) \in Nat /\ Len(Append(q, x)) = Len(q) + 1 /\ Append(q, x)[Len(q) + 1] = x
      /\ \A i \in 1 .. Len(q) : Append(q, x)[i] = q[i]
  OBVIOUS
<1>2. \A i \in 1 .. Len(q) + 1 : i = Len(q) + 1 \/ i \in 1 .. Len(q)
  BY <1>1
<1>3. Len(q) + 1 \in 1 .. Len(q) + 1 /\ \A i \in 1 .. Len(q) : i \in 1 .. Len(q) + 1
  BY <1>1
<1> QED
  BY <1>1, <1>2, <1>3 DEF Contains

LEMMA ContainsTail ==
  ASSUME NEW S, NEW q \in Seq(S), q # <<>>, NEW e
  PROVE  Contains(q, e) <=> Head(q) = e \/ Contains(Tail(q), e)
<1>1. /\ Len(q) \in Nat \ {0} /\ Len(Tail(q)) = Len(q) - 1 /\ Head(q) = q[1]
      /\ \A i \in 1 .. Len(q) - 1 : Tail(q)[i] = q[i + 1]
  OBVIOUS
<1>2. \A i \in 1 .. Len(q) : i = 1 \/ (i - 1 \in 1 .. Len(q) - 1 /\ (i - 1) + 1 = i)
  BY <1>1
<1>3. 1 \in 1 .. Len(q) /\ \A i \in 1 .. Len(q) - 1 : i + 1 \in 1 .. Len(q)
  BY <1>1
<1>4. ASSUME NEW i \in 1 .. Len(q), q[i] = e PROVE q[1] = e \/ \E j \in 1 .. Len(q) - 1 : Tail(q)[j] = e
  BY <1>4, <1>1, <1>2
<1>5. ASSUME NEW j \in 1 .. Len(q) - 1, Tail(q)[j] = e PROVE \E i \in 1 .. Len(q) : q[i] = e
  BY <1>5, <1>1, <1>3
<1> QED
  BY <1>1, <1>3, <1>4, <1>5 DEF Contains

\* The belief of an actor is a matter of its peers and its messages.
LEMMA BelievesSame ==
  ASSUME NEW n, NEW m, actor'[n].peerQueue = actor[n].peerQueue, actor'[n].peers = actor[n].peers,
         note'[n] = note[n]
  PROVE  Believes(n, m)' <=> Believes(n, m)
BY DEF Believes

\* A pair of nodes of which a step changes nothing that the first will know of the second.
LEMMA StreamSame ==
  ASSUME NEW n, NEW m, StreamOf(n, m),
         event'[n][m] = event[n][m],
         m \in monitor'[n].peers <=> m \in monitor[n].peers,
         n \in link'[m] <=> n \in link[m],
         n \notin cleaned' =>
           /\ n \notin cleaned
           /\ m \in monitor'[n].group <=> m \in monitor[n].group
           /\ n \in link[m] /\ m \in joined' => m \in joined
           /\ ToldOf(n, m) => ToldOf(n, m)'
           /\ There(n, m)' => There(n, m)
  PROVE  StreamOf(n, m)'
<1> DEFINE p == m \in monitor[n].peers
           l == n \in link[m]
           g == m \in monitor[n].group
           r == n \in link[m] /\ m \in joined
           r2 == n \in link'[m] /\ m \in joined'
           q == event[n][m]
<1>1. Entered(q, m \in monitor'[n].peers, n \in link'[m])
  <2>1. (m \in monitor'[n].peers) = p /\ (n \in link'[m]) = l
    OBVIOUS
  <2>2. Entered(q, p, l)
    BY DEF StreamOf
  <2> QED
    BY <2>1, <2>2
<1>2. ASSUME n \notin cleaned'
      PROVE  Grouped(q, m \in monitor'[n].group, r2) /\ Announced(q, ToldOf(n, m)', There(n, m)')
  <2>1. Grouped(q, g, r) /\ Announced(q, ToldOf(n, m), There(n, m))
    BY <1>2 DEF StreamOf
  <2>2. (m \in monitor'[n].group) = g /\ (r2 => r)
    BY <1>2
  <2>3. Grouped(q, g, r2)
    BY <2>1, <2>2, GroupedLess
  <2>4. ToldOf(n, m) \in BOOLEAN /\ ToldOf(n, m)' \in BOOLEAN
    BY DEF ToldOf
  <2>5. Announced(q, ToldOf(n, m)', There(n, m)')
    BY <1>2, <2>1, <2>4, AnnouncedMore
  <2> QED
    BY <2>2, <2>3, <2>5
<1> QED
  BY <1>1, <1>2 DEF StreamOf

\* A pair of nodes of which the second sends an event to the first, ...
LEMMA StreamSent ==
  ASSUME NEW n, NEW m, NEW e \in Event, StreamOf(n, m),
         event[n][m] \in Seq(Event), event'[n][m] = Append(event[n][m], e),
         m \in monitor'[n].peers <=> m \in monitor[n].peers,
         e = "ENTER" \/ n \in link[m],
         n \in link'[m] <=> e = "ENTER" \/ (e # "EXIT" /\ n \in link[m]),
         n \notin cleaned' =>
           /\ n \notin cleaned
           /\ m \in monitor'[n].group <=> m \in monitor[n].group
           /\ e \in {"LEAVE", "+", "-"} => n \in link[m] /\ m \in joined
           /\ n \in link'[m] /\ m \in joined' => e = "JOIN" \/ (e # "LEAVE" /\ n \in link[m] /\ m \in joined)
           /\ ToldOf(n, m) => ToldOf(n, m)'
           /\ There(n, m)' => e \in {"JOIN", "+"} \/ (e = "ENTER" /\ There(n, m))
  PROVE  StreamOf(n, m)'
<1> DEFINE q == event[n][m]
           p == m \in monitor[n].peers
           p2 == m \in monitor'[n].peers
           l == n \in link[m]
           l2 == n \in link'[m]
           g == m \in monitor[n].group
           g2 == m \in monitor'[n].group
           r == n \in link[m] /\ m \in joined
           r2 == n \in link'[m] /\ m \in joined'
           f == ToldOf(n, m)
           f2 == ToldOf(n, m)'
           a == There(n, m)
           a2 == There(n, m)'
<1>1. Entered(q, p, l) /\ (n \notin cleaned => Grouped(q, g, r) /\ Announced(q, f, a))
  BY DEF StreamOf
<1>2. /\ p \in BOOLEAN /\ l \in BOOLEAN /\ g \in BOOLEAN /\ r \in BOOLEAN /\ p2 = p /\ l2 \in BOOLEAN
      /\ r2 \in BOOLEAN /\ f \in BOOLEAN /\ f2 \in BOOLEAN /\ a \in BOOLEAN /\ a2 \in BOOLEAN
  BY DEF ToldOf, There
<1>3. (e = "ENTER" \/ l) /\ (l2 <=> e = "ENTER" \/ (e # "EXIT" /\ l)) /\ q \in Seq(Event)
  OBVIOUS
<1>4. n \notin cleaned' =>
        /\ n \notin cleaned
        /\ g2 = g
        /\ e \in {"LEAVE", "+", "-"} => r
        /\ r2 => e = "JOIN" \/ (e # "LEAVE" /\ r)
        /\ f => f2
        /\ a2 => e \in {"JOIN", "+"} \/ (e = "ENTER" /\ a)
  OBVIOUS
<1> HIDE DEF p, p2, l, l2, g, g2, r, r2, f, f2, a, a2, q
<1>5. Entered(Append(q, e), p2, l2)
  BY <1>1, <1>2, <1>3, EnteredAppend
<1>6. n \notin cleaned' => Grouped(Append(q, e), g2, r2)
  BY <1>1, <1>2, <1>3, <1>4, GroupedAppend
<1>7. n \notin cleaned' => Announced(Append(q, e), f, a2)
  BY <1>1, <1>2, <1>3, <1>4, AnnouncedAppend
<1>8. n \notin cleaned' => Announced(Append(q, e), f2, a2)
  BY <1>7, <1>2, <1>4, AnnouncedMore
<1> QED
  BY <1>5, <1>6, <1>8 DEF p2, l2, g2, r2, f2, a2, q, StreamOf

\* ... or two, of which the last one counts.
LEMMA StreamSentTwo ==
  ASSUME NEW n, NEW m, NEW d \in {"ENTER", "-"}, NEW e \in {"JOIN", "+", "EXIT"}, StreamOf(n, m),
         event[n][m] \in Seq(Event), event'[n][m] = Append(Append(event[n][m], d), e),
         m \in monitor'[n].peers <=> m \in monitor[n].peers,
         d = "ENTER" \/ n \in link[m],
         n \in link'[m] <=> e # "EXIT",
         n \notin cleaned' =>
           /\ n \notin cleaned
           /\ m \in monitor'[n].group <=> m \in monitor[n].group
           /\ d = "-" \/ e = "+" => n \in link[m] /\ m \in joined
           /\ n \in link'[m] /\ m \in joined' => e = "JOIN" \/ (n \in link[m] /\ m \in joined)
           /\ ToldOf(n, m) => ToldOf(n, m)'
           /\ There(n, m)' => e # "EXIT"
  PROVE  StreamOf(n, m)'
<1> DEFINE q == event[n][m]
           q1 == Append(q, d)
           p == m \in monitor[n].peers
           p2 == m \in monitor'[n].peers
           l == n \in link[m]
           l2 == n \in link'[m]
           g == m \in monitor[n].group
           g2 == m \in monitor'[n].group
           r == n \in link[m] /\ m \in joined
           r2 == n \in link'[m] /\ m \in joined'
           f == ToldOf(n, m)
           f2 == ToldOf(n, m)'
           a == There(n, m)
           a2 == There(n, m)'
<1>1. Entered(q, p, l) /\ (n \notin cleaned => Grouped(q, g, r) /\ Announced(q, f, a))
  BY DEF StreamOf
<1>2. /\ p \in BOOLEAN /\ l \in BOOLEAN /\ g \in BOOLEAN /\ r \in BOOLEAN /\ p2 = p /\ l2 \in BOOLEAN
      /\ r2 \in BOOLEAN /\ f \in BOOLEAN /\ f2 \in BOOLEAN /\ a \in BOOLEAN /\ a2 \in BOOLEAN
  BY DEF ToldOf, There
<1>3. /\ d = "ENTER" \/ l
      /\ l2 <=> e # "EXIT"
      /\ q \in Seq(Event) /\ q1 \in Seq(Event) /\ d \in Event /\ e \in Event
  BY Kinds
<1>4. n \notin cleaned' =>
        /\ n \notin cleaned
        /\ g2 = g
        /\ d = "-" \/ e = "+" => r
        /\ r2 => e = "JOIN" \/ r
        /\ f => f2
        /\ a2 => e # "EXIT"
  OBVIOUS
<1> HIDE DEF p, p2, l, l2, g, g2, r, r2, f, f2, a, a2, q
<1>5. Entered(q1, p, TRUE)
  BY <1>1, <1>2, <1>3, EnteredAppend
<1>6. Entered(Append(q1, e), p2, l2)
  BY <1>5, <1>2, <1>3, EnteredAppend
<1>7. n \notin cleaned' => Grouped(Append(q1, e), g2, r2)
  <2>1. n \notin cleaned' => Grouped(q1, g, r)
    BY <1>1, <1>2, <1>3, <1>4, GroupedAppend
  <2> QED
    BY <2>1, <1>2, <1>3, <1>4, GroupedAppend
<1>8. n \notin cleaned' => Announced(Append(q1, e), f, a2)
  <2>1. n \notin cleaned' => Announced(q1, f, FALSE)
    BY <1>1, <1>2, <1>3, <1>4, AnnouncedAppend
  <2> QED
    BY <2>1, <1>2, <1>3, <1>4, AnnouncedAppend
<1>9. n \notin cleaned' => Announced(Append(q1, e), f2, a2)
  BY <1>8, <1>2, <1>4, AnnouncedMore
<1> QED
  BY <1>6, <1>7, <1>9 DEF p2, l2, g2, r2, f2, a2, q, StreamOf

\* An element at the end of the second queue.
LEMMA LaterAppend ==
  ASSUME NEW S, NEW q \in Seq(S), NEW t \in Seq(S), NEW x \in S
  PROVE  q \o Append(t, x) = Append(q \o t, x) /\ q \o t \in Seq(S)
OBVIOUS

\* The monitor tells the actor of a peer.
LEMMA TellKeeps ==
  ASSUME Inv, NEW n \in Node, NEW m \in Node, NEW h \in {"peer+", "peer-"},
         note' = Tell(n, h, m),
         \A k \in Node : actor'[k].peerQueue = actor[k].peerQueue /\ actor'[k].peers = actor[k].peers
  PROVE  /\ NoteTyped'
         /\ \A k \in Node \ {n} : note'[k] = note[k]
         /\ \A k, l \in Node : k # n \/ l # m \/ ~monitor[n].actor
                                 => (Believes(k, l)' <=> Believes(k, l))
         /\ monitor[n].actor => (Believes(n, m)' <=> h = "peer+")
<1> DEFINE x == <<h, m>>
<1>1. x \in Note /\ \A l \in Node : /\ x = <<"peer+", l>> <=> h = "peer+" /\ l = m
                                    /\ x = <<"peer-", l>> <=> h = "peer-" /\ l = m
  BY DEF Note
<1>2. NoteTyped /\ actor[n].peerQueue \in Seq(Note)
  BY DEF Inv, Types, ActorTyped, Actor
<1> HIDE DEF x
<1>3. CASE monitor[n].actor
  <2>1. note' = [note EXCEPT ![n] = Append(@, x)]
    BY <1>3 DEF Tell, x
  <2>2. note'[n] = Append(note[n], x) /\ note[n] \in Seq(Note) /\ \A k \in Node \ {n} : note'[k] = note[k]
    BY <1>2, <2>1 DEF NoteTyped
  <2>3. NoteTyped'
    BY <1>1, <1>2, <2>1 DEF NoteTyped
  <2>4. ASSUME NEW l \in Node
        PROVE  Believes(n, l)' <=> x = <<"peer+", l>> \/ (x # <<"peer-", l>> /\ Believes(n, l))
    <3> DEFINE q == actor[n].peerQueue \o note[n]
               f == l \in actor[n].peers
    <3>1. actor[n].peerQueue \o Append(note[n], x) = Append(q, x) /\ q \in Seq(Note)
      BY <1>1, <1>2, <2>2, LaterAppend
    <3>2. f \in BOOLEAN
      OBVIOUS
    <3>3. Believes(n, l) = PeerAfter(q, f, l) /\ Believes(n, l)' = PeerAfter(Append(q, x), f, l)
      BY <2>2, <3>1 DEF Believes
    <3> HIDE DEF q, f
    <3>4. PeerAfter(Append(q, x), f, l) <=> x = <<"peer+", l>> \/ (x # <<"peer-", l>> /\ PeerAfter(q, f, l))
      BY <1>1, <3>1, <3>2, PeerAfterAppend
    <3> QED
      BY <3>3, <3>4
  <2>5. \A k, l \in Node : k # n => (Believes(k, l)' <=> Believes(k, l))
    BY <2>2, BelievesSame
  <2> QED
    BY <1>1, <1>3, <2>2, <2>3, <2>4, <2>5
<1>4. CASE ~monitor[n].actor
  <2>1. note' = note
    BY <1>4 DEF Tell
  <2> QED
    BY <1>2, <1>4, <2>1, BelievesSame DEF NoteTyped
<1> QED
  BY <1>3, <1>4

\* Only what an actor is blind to is changed.
LEMMA BlindSet ==
  ASSUME ActorTyped, NEW n \in Node, NEW b \in SUBSET Node, actor' = [actor EXCEPT ![n].blind = b]
  PROVE  /\ actor' \in [Node -> Actor]
         /\ \A k \in Node : /\ actor'[k].state = actor[k].state /\ actor'[k].peers = actor[k].peers
                            /\ actor'[k].peerQueue = actor[k].peerQueue
                            /\ k # n => actor'[k] = actor[k]
         /\ actor'[n].blind = b
<1> DEFINE r == [actor[n] EXCEPT !.blind = b]
<1>1. actor[n] \in Actor
  BY DEF ActorTyped
<1>2. r \in Actor
  BY <1>1 DEF Actor
<1>3. /\ r.state = actor[n].state /\ r.peers = actor[n].peers
      /\ r.peerQueue = actor[n].peerQueue /\ r.blind = b
  BY <1>1 DEF Actor
<1>4. actor' = [actor EXCEPT ![n] = r]
  OBVIOUS
<1> HIDE DEF r
<1>5. actor'[n] = r /\ \A k \in Node \ {n} : actor'[k] = actor[k]
  BY <1>4 DEF ActorTyped
<1> QED
  BY <1>2, <1>3, <1>4, <1>5 DEF ActorTyped

\* The monitor gets to know the application, by a peer that joins, ...
LEMMA JoinSet ==
  ASSUME monitor \in [Node -> Monitor], NEW n \in Node, NEW g \in SUBSET Node,
         monitor' = [monitor EXCEPT ![n].known = TRUE, ![n].group = g,
                                    ![n].slot = @ \/ ~monitor[n].known]
  PROVE  /\ monitor' \in [Node -> Monitor]
         /\ monitor'[n].peers = monitor[n].peers
         /\ monitor'[n].group = g
         /\ monitor'[n].known = TRUE
         /\ monitor'[n].slot <=> monitor[n].slot \/ ~monitor[n].known
         /\ monitor'[n].alive = monitor[n].alive
         /\ monitor'[n].actor = monitor[n].actor
         /\ \A k \in Node \ {n} : monitor'[k] = monitor[k]
<1> DEFINE s == monitor[n].slot \/ ~monitor[n].known
           r == [monitor[n] EXCEPT !.known = TRUE, !.group = g, !.slot = s]
<1>1. monitor[n] \in Monitor /\ s \in BOOLEAN
  OBVIOUS
<1>2. monitor' = [monitor EXCEPT ![n] = r]
  OBVIOUS
<1> HIDE DEF s
<1>3. r \in Monitor
  BY <1>1, Zenon DEF Monitor
<1>4. /\ r.peers = monitor[n].peers /\ r.alive = monitor[n].alive /\ r.actor = monitor[n].actor
      /\ r.group = g /\ r.known = TRUE /\ r.slot = s
  BY <1>1 DEF Monitor
<1> HIDE DEF r
<1>5. /\ monitor' \in [Node -> Monitor] /\ monitor'[n] = r
      /\ \A k \in Node \ {n} : monitor'[k] = monitor[k]
  BY <1>2, <1>3
<1> QED
  BY <1>4, <1>5 DEF s

\* ... or by a message.
LEMMA MessageSet ==
  ASSUME monitor \in [Node -> Monitor], NEW n \in Node, NEW g \in SUBSET Node,
         monitor' = [monitor EXCEPT ![n].known = TRUE, ![n].group = g]
  PROVE  /\ monitor' \in [Node -> Monitor]
         /\ monitor'[n].peers = monitor[n].peers
         /\ monitor'[n].alive = monitor[n].alive
         /\ monitor'[n].slot = monitor[n].slot
         /\ monitor'[n].actor = monitor[n].actor
         /\ \A k \in Node \ {n} : monitor'[k] = monitor[k]
<1> DEFINE r == [monitor[n] EXCEPT !.known = TRUE, !.group = g]
<1>1. monitor[n] \in Monitor
  OBVIOUS
<1>2. monitor' = [monitor EXCEPT ![n] = r]
  OBVIOUS
<1>3. r \in Monitor
  BY <1>1, Zenon DEF Monitor
<1>4. /\ r.peers = monitor[n].peers /\ r.alive = monitor[n].alive /\ r.actor = monitor[n].actor
      /\ r.slot = monitor[n].slot
  BY <1>1 DEF Monitor
<1> HIDE DEF r
<1>5. /\ monitor' \in [Node -> Monitor] /\ monitor'[n] = r
      /\ \A k \in Node \ {n} : monitor'[k] = monitor[k]
  BY <1>2, <1>3
<1> QED
  BY <1>4, <1>5

--------------------------------------------------------------------------------
(* The events of the peers *)

\* The first event of m at n is taken.
LEMMA Taken ==
  ASSUME Inv, NEW n \in Node, NEW m \in Node, NEW e, Take(n, m, e)
  PROVE  /\ n \in up /\ monitor[n].alive
         /\ event[n][m] \in Seq(Event) /\ event[n][m] # <<>> /\ Head(event[n][m]) = e
         /\ Rest(n, m) \in [Node -> [Node -> Seq(Event)]]
         /\ Rest(n, m)[n][m] = Tail(event[n][m])
         /\ \A k, l \in Node : k # n \/ l # m => Rest(n, m)[k][l] = event[k][l]
         /\ StreamOf(n, m)
<1>1. EventTyped
  BY DEF Inv, Types
<1>2. n \in up /\ monitor[n].alive /\ event[n][m] # <<>> /\ Head(event[n][m]) = e
  BY DEF Take, Running
<1>3. Tail(event[n][m]) \in Seq(Event) /\ event[n][m] \in Seq(Event)
  BY <1>1, <1>2 DEF EventTyped
<1>4. StreamOf(n, m)
  BY <1>2 DEF Inv, Streams
<1> QED
  BY <1>1, <1>2, <1>3, <1>4 DEF EventTyped, Rest

\* What it may be.
LEMMA StreamHead ==
  ASSUME NEW n \in Node, NEW m \in Node, StreamOf(n, m),
         event[n][m] \in Seq(Event), event[n][m] # <<>>
  PROVE  /\ Head(event[n][m]) = "ENTER" \/ m \in monitor[n].peers
         /\ n \notin cleaned /\ Head(event[n][m]) \in {"LEAVE", "+", "-"} => m \in monitor[n].group
<1> DEFINE q == event[n][m]
           p == m \in monitor[n].peers
           p2 == Head(q) = "ENTER" \/ (Head(q) # "EXIT" /\ p)
           l == n \in link[m]
           g == m \in monitor[n].group
           g2 == Head(q) = "JOIN" \/ (Head(q) # "LEAVE" /\ g)
           r == n \in link[m] /\ m \in joined
<1>1. Entered(q, p, l) /\ (n \notin cleaned => Grouped(q, g, r))
  BY DEF StreamOf
<1>2. p \in BOOLEAN /\ l \in BOOLEAN /\ g \in BOOLEAN /\ r \in BOOLEAN /\ p2 \in BOOLEAN /\ g2 \in BOOLEAN
  OBVIOUS
<1>3. (p2 <=> Head(q) = "ENTER" \/ (Head(q) # "EXIT" /\ p)) /\ q \in Seq(Event) /\ q # <<>>
  OBVIOUS
<1>4. Head(q) = "JOIN" \/ (Head(q) # "LEAVE" /\ g) => g2
  OBVIOUS
<1> HIDE DEF p, p2, l, g, g2, r, q
<1>5. Head(q) = "ENTER" \/ p
  BY <1>1, <1>2, <1>3, EnteredTail
<1>6. n \notin cleaned /\ Head(q) \in {"LEAVE", "+", "-"} => g
  BY <1>1, <1>2, <1>3, <1>4, GroupedTail
<1> QED
  BY <1>5, <1>6 DEF p, q, g

\* What is known of the peer after it is what the event says.
LEMMA StreamTaken ==
  ASSUME NEW n \in Node, NEW m \in Node, StreamOf(n, m),
         event[n][m] \in Seq(Event), event[n][m] # <<>>, event'[n][m] = Tail(event[n][m]),
         UNCHANGED <<link, joined, cleaned>>,
         m \in monitor'[n].peers <=>
           Head(event[n][m]) = "ENTER" \/ (Head(event[n][m]) # "EXIT" /\ m \in monitor[n].peers),
         n \notin cleaned =>
           /\ Head(event[n][m]) = "JOIN" \/ (Head(event[n][m]) # "LEAVE" /\ m \in monitor[n].group)
                => m \in monitor'[n].group
           /\ Head(event[n][m]) \in {"JOIN", "+"} \/ (Head(event[n][m]) = "ENTER" /\ ToldOf(n, m))
                => ToldOf(n, m)'
           /\ There(n, m)' => There(n, m)
  PROVE  StreamOf(n, m)'
<1> DEFINE q == event[n][m]
           p == m \in monitor[n].peers
           p2 == m \in monitor'[n].peers
           l == n \in link[m]
           g == m \in monitor[n].group
           g2 == m \in monitor'[n].group
           r == n \in link[m] /\ m \in joined
           f == ToldOf(n, m)
           f2 == ToldOf(n, m)'
           a == There(n, m)
           a2 == There(n, m)'
<1>1. Entered(q, p, l) /\ (n \notin cleaned => Grouped(q, g, r) /\ Announced(q, f, a))
  BY DEF StreamOf
<1>2. /\ p \in BOOLEAN /\ l \in BOOLEAN /\ g \in BOOLEAN /\ r \in BOOLEAN /\ p2 \in BOOLEAN
      /\ g2 \in BOOLEAN /\ f \in BOOLEAN /\ f2 \in BOOLEAN /\ a \in BOOLEAN /\ a2 \in BOOLEAN
  BY DEF ToldOf, There
<1>3. (p2 <=> Head(q) = "ENTER" \/ (Head(q) # "EXIT" /\ p)) /\ q \in Seq(Event) /\ q # <<>>
  OBVIOUS
<1>4. n \notin cleaned =>
        /\ Head(q) = "JOIN" \/ (Head(q) # "LEAVE" /\ g) => g2
        /\ Head(q) \in {"JOIN", "+"} \/ (Head(q) = "ENTER" /\ f) => f2
        /\ a2 => a
  OBVIOUS
<1> HIDE DEF p, p2, l, g, g2, r, f, f2, a, a2, q
<1>5. Entered(Tail(q), p2, l)
  BY <1>1, <1>2, <1>3, EnteredTail
<1>6. n \notin cleaned => Grouped(Tail(q), g2, r)
  BY <1>1, <1>2, <1>3, <1>4, GroupedTail
<1>7. n \notin cleaned => Announced(Tail(q), f2, a)
  BY <1>1, <1>2, <1>3, <1>4, AnnouncedTail
<1>8. n \notin cleaned => Announced(Tail(q), f2, a2)
  BY <1>7, <1>2, <1>4, AnnouncedMore
<1> QED
  BY <1>5, <1>6, <1>8 DEF p2, l, g2, r, f2, a2, q, StreamOf

LEMMA EnterKeeps ==
  ASSUME Inv, NEW n \in Node, NEW m \in Node, Enter(n, m)
  PROVE  Inv'
<1>1. NodesTyped /\ EventTyped /\ MonitorTyped /\ NoteTyped /\ ActorTyped /\ SpentTyped
  BY DEF Inv, Types
<1>2. /\ n \in up /\ monitor[n].alive
      /\ event[n][m] \in Seq(Event) /\ event[n][m] # <<>> /\ Head(event[n][m]) = "ENTER"
      /\ event' \in [Node -> [Node -> Seq(Event)]]
      /\ event'[n][m] = Tail(event[n][m])
      /\ \A k, l \in Node : k # n \/ l # m => event'[k][l] = event[k][l]
      /\ StreamOf(n, m)
  BY Taken DEF Enter
<1>3. /\ monitor' \in [Node -> Monitor]
      /\ \A k \in Node : /\ monitor'[k].alive = monitor[k].alive /\ monitor'[k].known = monitor[k].known
                         /\ monitor'[k].group = monitor[k].group /\ monitor'[k].slot = monitor[k].slot
                         /\ monitor'[k].actor = monitor[k].actor
                         /\ k # n => monitor'[k].peers = monitor[k].peers
      /\ monitor'[n].peers = monitor[n].peers \cup {m}
  BY <1>1 DEF MonitorTyped, Monitor, Enter
<1>4. /\ actor' \in [Node -> Actor]
      /\ \A k \in Node : /\ actor'[k].state = actor[k].state /\ actor'[k].peers = actor[k].peers
                         /\ actor'[k].peerQueue = actor[k].peerQueue
                         /\ k # n => actor'[k] = actor[k]
      /\ actor'[n].blind = actor[n].blind \ (monitor[n].group \cap {m})
  <2> DEFINE b == actor[n].blind \ (monitor[n].group \cap {m})
  <2>1. b \in SUBSET Node
    BY <1>1 DEF ActorTyped, Actor
  <2>2. actor' = [actor EXCEPT ![n].blind = b]
    BY DEF Enter
  <2> HIDE DEF b
  <2> QED
    BY <1>1, <2>1, <2>2, BlindSet DEF b
<1>5. UNCHANGED <<up, joined, link, hasApp, cleaned, spent, note>>
  BY DEF Enter
<1>6. Types'
  BY <1>1, <1>2, <1>3, <1>4, <1>5
     DEF Types, NodesTyped, EventTyped, MonitorTyped, NoteTyped, ActorTyped, SpentTyped
<1>7. Books'
  <2> SUFFICES ASSUME NEW k \in Node PROVE BooksOf(k)'
    BY DEF Books
  <2>1. BooksOf(k)
    BY DEF Inv, Books
  <2> QED
    BY ZenonT(60), <2>1, <1>2, <1>3, <1>4, <1>5 DEF BooksOf
<1>8. \A k, l \in Node : (Believes(k, l)' <=> Believes(k, l)) /\ (ToldOf(k, l)' <=> ToldOf(k, l))
  BY <1>3, <1>4, <1>5, BelievesSame DEF ToldOf
<1>9. \A k, l \in Node : Pending(k, l, "JOIN")' <=> Pending(k, l, "JOIN")
  <2>1. Contains(Tail(event[n][m]), "JOIN") <=> Contains(event[n][m], "JOIN")
    BY <1>2, ContainsTail
  <2> QED
    BY <1>2, <2>1 DEF Pending
<1>10. \A k, l \in Node : There(k, l)' => There(k, l)
  BY <1>3, <1>4, <1>5, <1>9 DEF There, Together
<1>11. Streams'
  <2> SUFFICES ASSUME NEW k \in Node, NEW l \in Node, k \in up' PROVE StreamOf(k, l)'
    BY DEF Streams
  <2>1. StreamOf(k, l)
    BY <1>5 DEF Inv, Streams
  <2>2. CASE k # n \/ l # m
    BY <2>1, <2>2, <1>2, <1>3, <1>5, <1>8, <1>10, StreamSame
  <2>3. CASE k = n /\ l = m
    BY <2>1, <2>3, <1>2, <1>3, <1>5, <1>8, <1>10, StreamTaken
  <2> QED
    BY <2>2, <2>3
<1>12. Beliefs'
  <2> SUFFICES ASSUME NEW k \in Node, NEW l \in Node PROVE BeliefOf(k, l)'
    BY DEF Beliefs
  <2>1. BeliefOf(k, l)
    BY DEF Inv, Beliefs
  <2> QED
    BY <2>1, <1>3, <1>4, <1>5, <1>8 DEF BeliefOf
<1> QED
  BY <1>6, <1>7, <1>11, <1>12 DEF Inv

LEMMA RestPending ==
  ASSUME Inv, NEW n \in Node, NEW m \in Node, NEW e, Take(n, m, e), e # "JOIN", event' = Rest(n, m)
  PROVE  /\ EventTyped'
         /\ \A k, l \in Node : Pending(k, l, "JOIN")' <=> Pending(k, l, "JOIN")
<1>1. /\ event'[n][m] = Tail(event[n][m]) /\ event' \in [Node -> [Node -> Seq(Event)]]
      /\ event[n][m] \in Seq(Event) /\ event[n][m] # <<>> /\ Head(event[n][m]) = e
      /\ \A k, l \in Node : k # n \/ l # m => event'[k][l] = event[k][l]
  BY Taken
<1>2. Contains(Tail(event[n][m]), "JOIN") <=> Contains(event[n][m], "JOIN")
  BY <1>1, ContainsTail
<1> QED
  BY <1>1, <1>2 DEF Pending, EventTyped

LEMMA ExitKeeps ==
  ASSUME Inv, NEW n \in Node, NEW m \in Node, Exit(n, m)
  PROVE  Inv'
<1>1. NodesTyped /\ EventTyped /\ MonitorTyped /\ NoteTyped /\ ActorTyped /\ SpentTyped
  BY DEF Inv, Types
<1>2. /\ Take(n, m, "EXIT") /\ event' = Rest(n, m)
      /\ UNCHANGED <<up, joined, link, hasApp, actor, cleaned, spent>>
  BY DEF Exit, EventRest
<1>3. /\ n \in up /\ monitor[n].alive
      /\ event[n][m] \in Seq(Event) /\ event[n][m] # <<>> /\ Head(event[n][m]) = "EXIT"
      /\ event'[n][m] = Tail(event[n][m])
      /\ \A k, l \in Node : k # n \/ l # m => event'[k][l] = event[k][l]
      /\ StreamOf(n, m)
  BY <1>2, Taken
<1>4. EventTyped' /\ \A k, l \in Node : Pending(k, l, "JOIN")' <=> Pending(k, l, "JOIN")
  BY <1>2, RestPending
<1>5. /\ monitor' \in [Node -> Monitor]
      /\ \A k \in Node : /\ monitor'[k].alive = monitor[k].alive /\ monitor'[k].known = monitor[k].known
                         /\ monitor'[k].group = monitor[k].group /\ monitor'[k].slot = monitor[k].slot
                         /\ monitor'[k].actor = monitor[k].actor
                         /\ k # n => monitor'[k].peers = monitor[k].peers
      /\ monitor'[n].peers = monitor[n].peers \ {m}
  BY <1>1 DEF MonitorTyped, Monitor, Exit
<1>6. /\ NoteTyped'
      /\ \A k \in Node \ {n} : note'[k] = note[k]
      /\ \A k, l \in Node : k # n \/ l # m \/ ~monitor[n].actor \/ m \notin monitor[n].group
                              => (Believes(k, l)' <=> Believes(k, l))
      /\ monitor[n].actor /\ m \in monitor[n].group => ~Believes(n, m)'
  <2>1. CASE m \in monitor[n].group
    <3>1. note' = Tell(n, "peer-", m)
      BY <2>1 DEF Exit, ExitTold
    <3> QED
      BY <2>1, <3>1, <1>2, TellKeeps
  <2>2. CASE m \notin monitor[n].group
    <3>1. note' = note
      BY <2>2 DEF Exit, ExitTold
    <3> QED
      BY <2>2, <3>1, <1>1, <1>2, BelievesSame DEF NoteTyped
  <2> QED
    BY <2>1, <2>2
<1>7. Types'
  BY <1>1, <1>2, <1>4, <1>5, <1>6 DEF Types, NodesTyped, MonitorTyped, ActorTyped, SpentTyped
<1>8. Books'
  <2> SUFFICES ASSUME NEW k \in Node PROVE BooksOf(k)'
    BY DEF Books
  <2>1. BooksOf(k)
    BY DEF Inv, Books
  <2> QED
    BY <2>1, <1>2, <1>3, <1>5, <1>6 DEF BooksOf
<1>9. \A k, l \in Node : There(k, l)' => There(k, l)
  BY <1>2, <1>4, <1>5 DEF There, Together
<1>10. \A k, l \in Node : k # n \/ l # m => (ToldOf(k, l)' <=> ToldOf(k, l))
  BY <1>2, <1>5, <1>6 DEF ToldOf
<1>11. Streams'
  <2> SUFFICES ASSUME NEW k \in Node, NEW l \in Node, k \in up' PROVE StreamOf(k, l)'
    BY DEF Streams
  <2>1. StreamOf(k, l)
    BY <1>2 DEF Inv, Streams
  <2>2. CASE k # n \/ l # m
    BY <2>1, <2>2, <1>2, <1>3, <1>5, <1>9, <1>10, StreamSame
  <2>3. CASE k = n /\ l = m
    BY <2>1, <2>3, <1>2, <1>3, <1>5, <1>9, StreamTaken
  <2> QED
    BY <2>2, <2>3
<1>12. Beliefs'
  <2> SUFFICES ASSUME NEW k \in Node, NEW l \in Node PROVE BeliefOf(k, l)'
    BY DEF Beliefs
  <2>1. BeliefOf(k, l) /\ BooksOf(k)
    BY DEF Inv, Beliefs, Books
  <2>2. CASE k # n \/ l # m
    BY <2>1, <2>2, <1>2, <1>5, <1>6 DEF BeliefOf
  <2>3. CASE k = n /\ l = m
    <3>1. actor[n].state # "off" => monitor[n].actor
      BY <2>1, <2>3, <1>3 DEF BooksOf
    <3> QED
      BY <2>1, <2>3, <3>1, <1>2, <1>5, <1>6 DEF BeliefOf
  <2> QED
    BY <2>2, <2>3
<1> QED
  BY <1>7, <1>8, <1>11, <1>12 DEF Inv

LEMMA LeaveKeeps ==
  ASSUME Inv, NEW n \in Node, NEW m \in Node, Leave(n, m)
  PROVE  Inv'
<1>1. NodesTyped /\ EventTyped /\ MonitorTyped /\ NoteTyped /\ ActorTyped /\ SpentTyped
  BY DEF Inv, Types
<1>2. /\ Take(n, m, "LEAVE") /\ event' = Rest(n, m)
      /\ UNCHANGED <<up, joined, link, hasApp, actor, cleaned, spent>>
  BY DEF Leave, EventRest
<1>3. /\ n \in up /\ monitor[n].alive
      /\ event[n][m] \in Seq(Event) /\ event[n][m] # <<>> /\ Head(event[n][m]) = "LEAVE"
      /\ event'[n][m] = Tail(event[n][m])
      /\ \A k, l \in Node : k # n \/ l # m => event'[k][l] = event[k][l]
      /\ StreamOf(n, m)
  BY <1>2, Taken
<1>4. EventTyped' /\ \A k, l \in Node : Pending(k, l, "JOIN")' <=> Pending(k, l, "JOIN")
  BY <1>2, RestPending
<1>n. m \in monitor[n].peers /\ (n \notin cleaned => m \in monitor[n].group)
  BY <1>3, StreamHead
<1>5. /\ monitor' \in [Node -> Monitor]
      /\ \A k \in Node : /\ monitor'[k].peers = monitor[k].peers /\ monitor'[k].known = monitor[k].known
                         /\ monitor'[k].slot = monitor[k].slot /\ monitor'[k].actor = monitor[k].actor
                         /\ monitor'[k].alive => monitor[k].alive
                         /\ k # n => monitor'[k] = monitor[k]
      /\ n \notin cleaned => monitor'[n].alive = monitor[n].alive
      /\ monitor'[n].group \subseteq monitor[n].group
      /\ \A l \in Node \ {m} : l \in monitor'[n].group <=> l \in monitor[n].group
  <2>1. CASE monitor[n].known /\ m \notin monitor[n].group
    <3>1. monitor' = [monitor EXCEPT ![n].alive = FALSE]
      BY <2>1 DEF Leave
    <3> QED
      BY <2>1, <3>1, <1>1, <1>n DEF MonitorTyped, Monitor
  <2>2. CASE ~(monitor[n].known /\ m \notin monitor[n].group)
    <3>1. monitor' = [monitor EXCEPT ![n].group = @ \ {m}]
      BY <2>2 DEF Leave
    <3> QED
      BY <3>1, <1>1 DEF MonitorTyped, Monitor
  <2> QED
    BY <2>1, <2>2
<1>6. /\ NoteTyped'
      /\ \A k \in Node \ {n} : note'[k] = note[k]
      /\ \A k, l \in Node : k # n \/ l # m => (Believes(k, l)' <=> Believes(k, l))
      /\ n \notin cleaned /\ monitor[n].actor => ~Believes(n, m)'
  <2>1. CASE monitor[n].known /\ m \notin monitor[n].group
    <3>1. note' = note
      BY <2>1 DEF Leave
    <3> QED
      BY <2>1, <3>1, <1>1, <1>2, <1>n, BelievesSame DEF NoteTyped
  <2>2. CASE ~(monitor[n].known /\ m \notin monitor[n].group)
    <3>1. note' = Tell(n, "peer-", m)
      BY <2>2 DEF Leave
    <3> QED
      BY <3>1, <1>2, TellKeeps
  <2> QED
    BY <2>1, <2>2
<1>7. Types'
  BY <1>1, <1>2, <1>4, <1>5, <1>6 DEF Types, NodesTyped, MonitorTyped, ActorTyped, SpentTyped
<1>8. Books'
  <2> SUFFICES ASSUME NEW k \in Node PROVE BooksOf(k)'
    BY DEF Books
  <2>1. BooksOf(k)
    BY DEF Inv, Books
  <2> QED
    BY <2>1, <1>2, <1>3, <1>5, <1>6 DEF BooksOf
<1>9. \A k, l \in Node : There(k, l)' => There(k, l)
  BY <1>2, <1>4, <1>5 DEF There, Together
<1>10. \A k, l \in Node : k # n \/ l # m => (ToldOf(k, l)' <=> ToldOf(k, l))
  BY <1>2, <1>5, <1>6 DEF ToldOf
<1>11. Streams'
  <2> SUFFICES ASSUME NEW k \in Node, NEW l \in Node, k \in up' PROVE StreamOf(k, l)'
    BY DEF Streams
  <2>1. StreamOf(k, l)
    BY <1>2 DEF Inv, Streams
  <2>2. CASE k # n \/ l # m
    BY <2>1, <2>2, <1>2, <1>3, <1>5, <1>9, <1>10, StreamSame
  <2>3. CASE k = n /\ l = m
    BY <2>1, <2>3, <1>2, <1>3, <1>5, <1>9, StreamTaken
  <2> QED
    BY <2>2, <2>3
<1>12. Beliefs'
  <2> SUFFICES ASSUME NEW k \in Node, NEW l \in Node PROVE BeliefOf(k, l)'
    BY DEF Beliefs
  <2>1. BeliefOf(k, l) /\ BooksOf(k)
    BY DEF Inv, Beliefs, Books
  <2>2. CASE k # n \/ l # m
    BY <2>1, <2>2, <1>2, <1>5, <1>6 DEF BeliefOf
  <2>3. CASE k = n /\ l = m
    <3>1. actor[n].state # "off" => monitor[n].actor
      BY <2>1, <2>3, <1>3 DEF BooksOf
    <3> QED
      BY <2>1, <2>3, <3>1, <1>2, <1>5, <1>6 DEF BeliefOf
  <2> QED
    BY <2>2, <2>3
<1> QED
  BY <1>7, <1>8, <1>11, <1>12 DEF Inv

LEMMA MessageKeeps ==
  ASSUME Inv, NEW n \in Node, NEW m \in Node, Message(n, m)
  PROVE  Inv'
<1>1. NodesTyped /\ EventTyped /\ MonitorTyped /\ NoteTyped /\ ActorTyped /\ SpentTyped
  BY DEF Inv, Types
<1>2. PICK e \in {"+", "-"} :
        /\ Take(n, m, e) /\ event' = Rest(n, m)
        /\ monitor' = IF monitor[n].known THEN monitor
                      ELSE [monitor EXCEPT ![n].known = TRUE, ![n].group = {m}]
        /\ note' = Tell(n, IF e = "+" THEN "peer+" ELSE "peer-", m)
        /\ UNCHANGED <<up, joined, link, hasApp, actor, cleaned, spent>>
  BY DEF Message, EventRest
<1>3. /\ n \in up /\ monitor[n].alive
      /\ event[n][m] \in Seq(Event) /\ event[n][m] # <<>> /\ Head(event[n][m]) = e
      /\ event'[n][m] = Tail(event[n][m])
      /\ \A k, l \in Node : k # n \/ l # m => event'[k][l] = event[k][l]
      /\ StreamOf(n, m)
  BY <1>2, Taken
<1>4. EventTyped' /\ \A k, l \in Node : Pending(k, l, "JOIN")' <=> Pending(k, l, "JOIN")
  BY <1>2, RestPending
<1>n. /\ m \in monitor[n].peers
      /\ n \notin cleaned => m \in monitor[n].group /\ monitor[n].known
  <2>1. m \in monitor[n].peers /\ (n \notin cleaned => m \in monitor[n].group)
    BY <1>3, StreamHead
  <2>2. BooksOf(n)
    BY DEF Inv, Books
  <2> QED
    BY <2>1, <2>2 DEF BooksOf
<1>5. /\ monitor' \in [Node -> Monitor]
      /\ \A k \in Node : /\ monitor'[k].peers = monitor[k].peers /\ monitor'[k].alive = monitor[k].alive
                         /\ monitor'[k].slot = monitor[k].slot /\ monitor'[k].actor = monitor[k].actor
                         /\ k # n \/ n \notin cleaned => monitor'[k] = monitor[k]
  <2>1. CASE monitor[n].known
    BY <2>1, <1>1, <1>2 DEF MonitorTyped
  <2>2. CASE ~monitor[n].known
    <3> DEFINE g == {m}
    <3>1. monitor' = [monitor EXCEPT ![n].known = TRUE, ![n].group = g] /\ g \in SUBSET Node
      BY <2>2, <1>2
    <3> HIDE DEF g
    <3> QED
      BY <2>2, <3>1, <1>1, <1>n, MessageSet DEF MonitorTyped
  <2> QED
    BY <2>1, <2>2
<1>6. /\ NoteTyped'
      /\ \A k \in Node \ {n} : note'[k] = note[k]
      /\ \A k, l \in Node : k # n \/ l # m => (Believes(k, l)' <=> Believes(k, l))
      /\ monitor[n].actor => (Believes(n, m)' <=> e = "+")
  BY <1>2, TellKeeps
<1>7. Types'
  BY <1>1, <1>2, <1>4, <1>5, <1>6 DEF Types, NodesTyped, MonitorTyped, ActorTyped, SpentTyped
<1>8. Books'
  <2> SUFFICES ASSUME NEW k \in Node PROVE BooksOf(k)'
    BY DEF Books
  <2>1. BooksOf(k)
    BY DEF Inv, Books
  <2>2. CASE k # n \/ n \notin cleaned
    <3>1. monitor'[k] = monitor[k]
      BY <2>2, <1>5
    <3> QED
      BY <2>1, <3>1, <1>2, <1>3, <1>6 DEF BooksOf
  <2>3. CASE k = n /\ n \in cleaned
    BY <2>1, <2>3, <1>2, <1>3, <1>5, <1>6 DEF BooksOf
  <2> QED
    BY <2>2, <2>3
<1>9. \A k, l \in Node : There(k, l)' => There(k, l)
  BY <1>2, <1>4, <1>5 DEF There, Together
<1>10. \A k, l \in Node : k \notin cleaned /\ (k # n \/ l # m) => (ToldOf(k, l)' <=> ToldOf(k, l))
  BY <1>2, <1>5, <1>6 DEF ToldOf
<1>a. n \in up /\ actor[n].state # "off" => monitor[n].actor
  <2>1. BooksOf(n)
    BY DEF Inv, Books
  <2> QED
    BY <2>1, <1>3 DEF BooksOf
<1>11. Streams'
  <2> SUFFICES ASSUME NEW k \in Node, NEW l \in Node, k \in up' PROVE StreamOf(k, l)'
    BY DEF Streams
  <2>1. StreamOf(k, l)
    BY <1>2 DEF Inv, Streams
  <2>2. CASE k # n \/ l # m
    BY ZenonT(60), <2>1, <2>2, <1>2, <1>3, <1>5, <1>9, <1>10, StreamSame
  <2>3. CASE k = n /\ l = m
    <3>1. n \notin cleaned /\ e = "+" => ToldOf(n, m)'
      BY <1>2, <1>3, <1>n, <1>5, <1>6, <1>a DEF ToldOf
    <3> QED
      BY <2>1, <2>3, <3>1, <1>2, <1>3, <1>5, <1>9, StreamTaken
  <2> QED
    BY <2>2, <2>3
<1>12. Beliefs'
  <2> SUFFICES ASSUME NEW k \in Node, NEW l \in Node PROVE BeliefOf(k, l)'
    BY DEF Beliefs
  <2>1. BeliefOf(k, l)
    BY DEF Inv, Beliefs
  <2>2. CASE k # n \/ l # m
    BY <2>1, <2>2, <1>2, <1>5, <1>6 DEF BeliefOf
  <2>3. CASE k = n /\ l = m
    BY <2>3, <1>2, <1>3, <1>n, <1>5 DEF BeliefOf
  <2> QED
    BY <2>2, <2>3
<1> QED
  BY <1>7, <1>8, <1>11, <1>12 DEF Inv

LEMMA JoinKeeps ==
  ASSUME Inv, NEW n \in Node, NEW m \in Node, Join(n, m)
  PROVE  Inv'
<1>1. NodesTyped /\ EventTyped /\ MonitorTyped /\ NoteTyped /\ ActorTyped /\ SpentTyped
  BY DEF Inv, Types
<1>2. /\ Take(n, m, "JOIN") /\ m \in monitor[n].peers
      /\ event' = JoinAnswered(n, m) /\ note' = Tell(n, "peer+", m)
      /\ UNCHANGED <<up, joined, link, hasApp, cleaned, spent>>
  BY DEF Join, Known
<1>b. BooksOf(n) /\ BooksOf(m)
  BY DEF Inv, Books
<1>a. /\ actor[n].state # "off" <=> monitor[n].actor
      /\ monitor[n].actor => n \in joined
      /\ m \in link[n] => n # m
  BY <1>1, <1>2, <1>b, Taken DEF BooksOf
<1>3. /\ n \in up /\ monitor[n].alive
      /\ event[n][m] \in Seq(Event) /\ event[n][m] # <<>> /\ Head(event[n][m]) = "JOIN"
      /\ event' \in [Node -> [Node -> Seq(Event)]]
      /\ event'[n][m] = Tail(event[n][m])
      /\ \A k, l \in Node : (k # n \/ l # m) /\ (k # m \/ l # n) => event'[k][l] = event[k][l]
      /\ n # m => IF monitor[n].actor /\ m \in link[n]
                    THEN event'[m][n] = Append(event[m][n], "+")
                    ELSE event'[m][n] = event[m][n]
      /\ StreamOf(n, m)
  <2> DEFINE left == Rest(n, m)
  <2>1. /\ n \in up /\ monitor[n].alive
        /\ event[n][m] \in Seq(Event) /\ event[n][m] # <<>> /\ Head(event[n][m]) = "JOIN"
        /\ left \in [Node -> [Node -> Seq(Event)]]
        /\ left[n][m] = Tail(event[n][m])
        /\ \A k, l \in Node : k # n \/ l # m => left[k][l] = event[k][l]
        /\ StreamOf(n, m)
    BY <1>2, Taken
  <2>2. event' = IF monitor[n].actor /\ m \in link[n] THEN [left EXCEPT ![m][n] = Append(@, "+")] ELSE left
    BY <1>2 DEF JoinAnswered
  <2> HIDE DEF left
  <2>3. "+" \in Event
    BY Kinds
  <2>4. event' \in [Node -> [Node -> Seq(Event)]]
    BY <2>1, <2>2, <2>3
  <2> QED
    BY <2>1, <2>2, <2>4, <1>a
<1>4. \A k, l \in Node : (k # n \/ l # m) /\ Pending(k, l, "JOIN") => Pending(k, l, "JOIN")'
  <2>1. \A k, l \in Node : event[k][l] \in Seq(Event)
    BY <1>1 DEF EventTyped
  <2>2. Contains(event[m][n], "JOIN") => Contains(Append(event[m][n], "+"), "JOIN")
    BY <2>1, Kinds, ContainsAppend
  <2> QED
    BY <2>2, <1>3 DEF Pending
<1>5. /\ monitor' \in [Node -> Monitor]
      /\ \A k \in Node : /\ monitor'[k].peers = monitor[k].peers /\ monitor'[k].alive = monitor[k].alive
                         /\ monitor'[k].actor = monitor[k].actor
                         /\ k # n => monitor'[k] = monitor[k]
      /\ monitor'[n].group = monitor[n].group \cup {m}
      /\ monitor'[n].known
      /\ monitor'[n].slot <=> monitor[n].slot \/ ~monitor[n].known
  <2> DEFINE g == monitor[n].group \cup {m}
  <2>1. monitor' = [monitor EXCEPT ![n].known = TRUE, ![n].group = g,
                                   ![n].slot = @ \/ ~monitor[n].known]
    BY <1>1 DEF Join, MonitorTyped, Monitor
  <2>2. g \in SUBSET Node
    BY <1>1 DEF MonitorTyped, Monitor
  <2> HIDE DEF g
  <2>3. /\ monitor' \in [Node -> Monitor]
        /\ monitor'[n].peers = monitor[n].peers /\ monitor'[n].alive = monitor[n].alive
        /\ monitor'[n].actor = monitor[n].actor
        /\ monitor'[n].group = g /\ monitor'[n].known = TRUE
        /\ monitor'[n].slot <=> monitor[n].slot \/ ~monitor[n].known
        /\ \A k \in Node \ {n} : monitor'[k] = monitor[k]
    BY <2>1, <2>2, <1>1, JoinSet DEF MonitorTyped
  <2> QED
    BY <2>3 DEF g
<1>6. /\ actor' \in [Node -> Actor]
      /\ \A k \in Node : /\ actor'[k].state = actor[k].state /\ actor'[k].peers = actor[k].peers
                         /\ actor'[k].peerQueue = actor[k].peerQueue
                         /\ k # n => actor'[k] = actor[k]
      /\ actor'[n].blind = actor[n].blind \ {m}
  <2> DEFINE b == actor[n].blind \ {m}
  <2>1. b \in SUBSET Node
    BY <1>1 DEF ActorTyped, Actor
  <2>2. actor' = [actor EXCEPT ![n].blind = b]
    BY DEF Join
  <2> HIDE DEF b
  <2> QED
    BY <1>1, <2>1, <2>2, BlindSet DEF b
<1>7. /\ NoteTyped'
      /\ \A k \in Node \ {n} : note'[k] = note[k]
      /\ \A k, l \in Node : k # n \/ l # m => (Believes(k, l)' <=> Believes(k, l))
      /\ monitor[n].actor => Believes(n, m)'
  BY <1>2, <1>6, TellKeeps
<1>8. Types'
  BY ZenonT(60), <1>1, <1>2, <1>3, <1>5, <1>6, <1>7
     DEF Types, NodesTyped, EventTyped, MonitorTyped, ActorTyped, SpentTyped
<1>9. Books'
  <2> SUFFICES ASSUME NEW k \in Node PROVE BooksOf(k)'
    BY DEF Books
  <2>1. BooksOf(k)
    BY DEF Inv, Books
  <2>2. k \notin up => \A l \in Node : event'[k][l] = <<>>
    <3> SUFFICES ASSUME k \notin up, NEW l \in Node PROVE event'[k][l] = <<>>
      OBVIOUS
    <3>1. event[k][l] = <<>> /\ k # n
      BY <2>1, <1>3 DEF BooksOf
    <3>2. k = m => m \notin link[n]
      BY <2>1 DEF BooksOf
    <3>3. CASE k = m /\ l = n
      BY <3>1, <3>2, <3>3, <1>3
    <3>4. CASE k # m \/ l # n
      BY <3>1, <3>4, <1>3
    <3> QED
      BY <3>3, <3>4
  <2> QED
    BY <2>1, <2>2, <1>2, <1>3, <1>5, <1>6, <1>7 DEF BooksOf
<1>10. \A k, l \in Node : (k # m \/ l # n) /\ There(k, l)' => There(k, l)
  BY <1>2, <1>4, <1>5, <1>6 DEF There, Together
<1>11. ToldOf(n, m)'
  BY <1>a, <1>5, <1>6, <1>7 DEF ToldOf
<1>12. \A k, l \in Node : ToldOf(k, l) => ToldOf(k, l)'
  <2>1. \A k, l \in Node : k # n \/ l # m => (ToldOf(k, l) => ToldOf(k, l)')
    BY <1>5, <1>6, <1>7 DEF ToldOf
  <2> QED
    BY <2>1, <1>11
<1>13. Streams'
  <2> SUFFICES ASSUME NEW k \in Node, NEW l \in Node, k \in up' PROVE StreamOf(k, l)'
    BY DEF Streams
  <2>1. StreamOf(k, l)
    BY <1>2 DEF Inv, Streams
  <2>2. CASE (k # n \/ l # m) /\ (k # m \/ l # n)
    <3>1. event'[k][l] = event[k][l] /\ link' = link /\ cleaned' = cleaned /\ joined' = joined
      BY <2>2, <1>2, <1>3
    <3>2. l \in monitor'[k].peers <=> l \in monitor[k].peers
      BY <1>5
    <3>3. l \in monitor'[k].group <=> l \in monitor[k].group
      BY <2>2, <1>5
    <3>4. There(k, l)' => There(k, l)
      BY <2>2, <1>10
    <3> QED
      BY <2>1, <3>1, <3>2, <3>3, <3>4, <1>12, StreamSame
  <2>3. CASE k = n /\ l = m
    <3>1. There(n, m)' => There(n, m)
      <4>1. CASE n # m
        BY <4>1, <1>10
      <4>2. CASE n = m
        BY <4>2 DEF There, Together
      <4> QED
        BY <4>1, <4>2
    <3> QED
      BY <2>1, <2>3, <3>1, <1>2, <1>3, <1>5, <1>11, StreamTaken
  <2>4. CASE k = m /\ l = n /\ n # m /\ monitor[n].actor /\ m \in link[n]
    <3>1. event[m][n] \in Seq(Event) /\ "+" \in Event
      BY <1>1, Kinds DEF EventTyped
    <3> QED
      BY <2>1, <2>4, <3>1, <1>a, <1>2, <1>3, <1>5, <1>12, StreamSent
  <2>5. CASE k = m /\ l = n /\ n # m /\ ~(monitor[n].actor /\ m \in link[n])
    <3>1. ~There(m, n)'
      BY <2>5, <1>a, <1>2, <1>6 DEF There, Together
    <3> QED
      BY <2>1, <2>5, <3>1, <1>2, <1>3, <1>5, <1>12, StreamSame
  <2> QED
    BY <2>2, <2>3, <2>4, <2>5
<1>14. Beliefs'
  <2> SUFFICES ASSUME NEW k \in Node, NEW l \in Node PROVE BeliefOf(k, l)'
    BY DEF Beliefs
  <2>1. BeliefOf(k, l)
    BY DEF Inv, Beliefs
  <2>2. CASE k # n \/ l # m
    BY <2>1, <2>2, <1>2, <1>5, <1>6, <1>7 DEF BeliefOf
  <2>3. CASE k = n /\ l = m
    BY <2>3, <1>2, <1>5 DEF BeliefOf
  <2> QED
    BY <2>2, <2>3
<1> QED
  BY <1>8, <1>9, <1>13, <1>14 DEF Inv

--------------------------------------------------------------------------------
(* The deployment manager and the actor *)

\* A step that moves messages on, after which a living actor will know what it would have.
LEMMA PassKeeps ==
  ASSUME Inv, NEW n \in Node, n \in up, NoteTyped', ActorTyped',
         UNCHANGED <<up, joined, link, event, monitor, hasApp, cleaned, spent>>,
         \A k \in Node \ {n} : actor'[k] = actor[k] /\ note'[k] = note[k],
         actor'[n].state = "off" <=> actor[n].state = "off",
         actor'[n].state # "registered" => actor'[n].peers = {},
         actor'[n].blind = actor[n].blind,
         actor[n].state # "off" => \A m \in Node : Believes(n, m)' <=> Believes(n, m)
  PROVE  Inv'
<1>1. Types'
  BY DEF Inv, Types, NodesTyped, EventTyped, MonitorTyped, SpentTyped
<1>2. Books'
  <2> SUFFICES ASSUME NEW k \in Node PROVE BooksOf(k)'
    BY DEF Books
  <2>1. BooksOf(k)
    BY DEF Inv, Books
  <2> QED
    BY <2>1 DEF BooksOf
<1>3. \A k, l \in Node : actor[k].state # "off" => (Believes(k, l)' <=> Believes(k, l))
  BY BelievesSame
<1>4. \A k \in Node : actor'[k].state = "off" <=> actor[k].state = "off"
  OBVIOUS
<1>5. \A k, l \in Node : (ToldOf(k, l)' <=> ToldOf(k, l)) /\ (There(k, l)' <=> There(k, l))
  BY <1>3, <1>4 DEF ToldOf, There, Together, Pending
<1>6. Streams'
  <2> SUFFICES ASSUME NEW k \in Node, NEW l \in Node, k \in up' PROVE StreamOf(k, l)'
    BY DEF Streams
  <2>1. StreamOf(k, l)
    BY DEF Inv, Streams
  <2> QED
    BY <2>1, <1>5, StreamSame
<1>7. Beliefs'
  <2> SUFFICES ASSUME NEW k \in Node, NEW l \in Node PROVE BeliefOf(k, l)'
    BY DEF Beliefs
  <2>1. BeliefOf(k, l) /\ actor'[k].blind = actor[k].blind
    BY DEF Inv, Beliefs
  <2> QED
    BY <2>1, <1>3, <1>4 DEF BeliefOf
<1> QED
  BY <1>1, <1>2, <1>6, <1>7 DEF Inv

\* The first message goes from one queue to the other.
LEMMA MoveOn ==
  ASSUME NEW S, NEW q \in Seq(S), NEW t \in Seq(S), t # <<>>
  PROVE  Append(q, Head(t)) \o Tail(t) = q \o t
<1>1. Append(q, Head(t)) \in Seq(S) /\ Tail(t) \in Seq(S)
  OBVIOUS
<1>2. /\ Len(Append(q, Head(t)) \o Tail(t)) = Len(q) + Len(t)
      /\ Len(q \o t) = Len(q) + Len(t)
  BY <1>1
<1>3. \A i \in 1 .. Len(q) + Len(t) : (Append(q, Head(t)) \o Tail(t))[i] = (q \o t)[i]
  BY <1>1
<1> QED
  BY <1>1, <1>2, <1>3

LEMMA handleFMMonKeeps ==
  ASSUME Inv, NEW n \in Node, handleFMMon(n)
  PROVE  Inv'
<1> DEFINE a == actor[n]
           x == Head(note[n])
<1>1. NoteTyped /\ ActorTyped /\ BooksOf(n)
  BY DEF Inv, Types, Books
<1>2. /\ note[n] # <<>> /\ note' = [note EXCEPT ![n] = Tail(@)] /\ actor' = Passed(n)
      /\ UNCHANGED <<up, joined, link, event, monitor, hasApp, cleaned, spent>>
  BY DEF handleFMMon
<1>3. n \in up
  BY <1>1, <1>2 DEF BooksOf
<1>4. /\ note[n] \in Seq(Note) /\ x \in Note /\ note'[n] = Tail(note[n])
      /\ \A k \in Node \ {n} : note'[k] = note[k]
  BY <1>1, <1>2 DEF NoteTyped
<1>5. NoteTyped'
  BY <1>1, <1>2, <1>4 DEF NoteTyped
<1>6. /\ a \in Actor /\ a.peerQueue \in Seq(Note)
      /\ a.state # "launched" => a.peerQueue = <<>>
  BY <1>1 DEF ActorTyped, Actor
<1>7. CASE a.state = "off"
  <2>1. actor' = actor
    BY <1>2, <1>7 DEF Passed
  <2>2. ActorTyped'
    BY <2>1, <1>1 DEF ActorTyped
  <2>3. actor'[n].state # "registered" => actor'[n].peers = {}
    BY <2>1, <1>1 DEF BooksOf
  <2> HIDE DEF a, x
  <2> QED
    BY <2>1, <2>2, <2>3, <1>2, <1>3, <1>4, <1>5, <1>7, PassKeeps DEF a
<1>8. CASE a.state = "launched"
  <2> DEFINE q == Append(a.peerQueue, x)
             r == [a EXCEPT !.peerQueue = q]
  <2>1. q \in Seq(Note) /\ q \o note'[n] = a.peerQueue \o note[n]
    <3>1. Append(a.peerQueue, Head(note[n])) \o Tail(note[n]) = a.peerQueue \o note[n]
      BY <1>2, <1>4, <1>6, MoveOn
    <3>2. q \in Seq(Note)
      BY <1>4, <1>6
    <3>3. q \o note'[n] = Append(a.peerQueue, Head(note[n])) \o Tail(note[n])
      BY <1>4
    <3> QED
      BY <3>1, <3>2, <3>3
  <2>2. actor' = [actor EXCEPT ![n] = r]
    BY <1>2, <1>8 DEF Passed
  <2> HIDE DEF q, a, x
  <2>3. r \in Actor
    BY <1>6, <2>1 DEF Actor
  <2>4. r.state = a.state /\ r.peers = a.peers /\ r.blind = a.blind /\ r.peerQueue = q
    BY <1>6 DEF Actor
  <2> HIDE DEF r
  <2>5. /\ actor' \in [Node -> Actor] /\ actor'[n] = r
        /\ \A k \in Node \ {n} : actor'[k] = actor[k]
    BY <2>2, <2>3, <1>1 DEF ActorTyped
  <2>6. ActorTyped'
    BY <2>4, <2>5, <1>1, <1>8 DEF ActorTyped
  <2>7. actor'[n].state # "registered" => actor'[n].peers = {}
    BY <2>4, <2>5, <1>1, <1>8 DEF BooksOf, a
  <2>8. \A m \in Node : Believes(n, m)' <=> Believes(n, m)
    BY <2>1, <2>4, <2>5 DEF Believes, a
  <2> QED
    BY <2>4, <2>5, <2>6, <2>7, <2>8, <1>2, <1>3, <1>4, <1>5, PassKeeps DEF a
<1>9. CASE a.state = "registered"
  <2> DEFINE p == handlePeerStateChange(a.peers, x)
             r == [a EXCEPT !.peers = p]
  <2>1. PICK h \in {"peer+", "peer-"}, m \in Node : x = <<h, m>>
    BY <1>4 DEF Note
  <2>2. p = IF h = "peer+" THEN a.peers \cup {m} ELSE a.peers \ {m}
    BY <2>1 DEF handlePeerStateChange
  <2>3. actor' = [actor EXCEPT ![n] = r]
    BY <1>2, <1>9 DEF Passed
  <2>4. \A l \in Node : l \in p <=> x = <<"peer+", l>> \/ (x # <<"peer-", l>> /\ l \in a.peers)
    BY <2>1, <2>2
  <2>5. p \in SUBSET Node
    BY <1>6, <2>2 DEF Actor
  <2> HIDE DEF p, a, x
  <2>6. r \in Actor
    BY <1>6, <2>5 DEF Actor
  <2>7. r.state = a.state /\ r.peers = p /\ r.blind = a.blind /\ r.peerQueue = a.peerQueue
    BY <1>6 DEF Actor
  <2> HIDE DEF r
  <2>8. /\ actor' \in [Node -> Actor] /\ actor'[n] = r
        /\ \A k \in Node \ {n} : actor'[k] = actor[k]
    BY <2>3, <2>6, <1>1 DEF ActorTyped
  <2>9. ActorTyped'
    BY <2>7, <2>8, <1>1, <1>6 DEF ActorTyped
  <2>10. \A l \in Node : Believes(n, l)' <=> Believes(n, l)
    <3> TAKE l \in Node
    <3>1. a.peerQueue = <<>> /\ <<>> \o note[n] = note[n] /\ <<>> \o Tail(note[n]) = Tail(note[n])
      BY <1>4, <1>6, <1>9
    <3>2. /\ Believes(n, l) = PeerAfter(note[n], l \in a.peers, l)
          /\ Believes(n, l)' = PeerAfter(Tail(note[n]), l \in p, l)
      BY <3>1, <1>4, <2>7, <2>8 DEF Believes, a
    <3>3. PeerAfter(Tail(note[n]), l \in p, l) <=> PeerAfter(note[n], l \in a.peers, l)
      <4> DEFINE f == l \in a.peers
                 g == l \in p
      <4>1. f \in BOOLEAN /\ g \in BOOLEAN
        OBVIOUS
      <4>2. g <=> Head(note[n]) = <<"peer+", l>> \/ (Head(note[n]) # <<"peer-", l>> /\ f)
        BY <2>4 DEF x
      <4> HIDE DEF f, g
      <4>3. PeerAfter(Tail(note[n]), g, l) <=> PeerAfter(note[n], f, l)
        BY <4>1, <4>2, <1>2, <1>4, PeerAfterTail
      <4> QED
        BY <4>3 DEF f, g
    <3> QED
      BY <3>2, <3>3
  <2> QED
    BY <2>7, <2>8, <2>9, <2>10, <1>2, <1>3, <1>4, <1>5, <1>9, PassKeeps DEF a
<1> QED
  BY <1>6, <1>7, <1>8, <1>9 DEF Actor, Phase

LEMMA handleActorRegKeeps ==
  ASSUME Inv, NEW n \in Node, handleActorReg(n)
  PROVE  Inv'
<1> DEFINE a == actor[n]
           p == handlePeerQueue(n)
           r == [a EXCEPT !.state = "registered", !.peerQueue = <<>>, !.peers = p]
<1>1. NoteTyped /\ ActorTyped /\ BooksOf(n)
  BY DEF Inv, Types, Books
<1>2. /\ a.state = "launched" /\ actor' = [actor EXCEPT ![n] = r]
      /\ UNCHANGED <<up, joined, link, event, monitor, note, hasApp, cleaned, spent>>
  BY DEF handleActorReg
<1>3. n \in up
  BY <1>1, <1>2 DEF BooksOf, Off
<1>4. a \in Actor /\ a.peerQueue \in Seq(Note) /\ note[n] \in Seq(Note) /\ a.peers = {}
  BY <1>1, <1>2 DEF ActorTyped, Actor, NoteTyped, BooksOf
<1>5. p \in SUBSET Node /\ \A m \in Node : m \in p <=> PeerAfter(a.peerQueue, FALSE, m)
  BY DEF handlePeerQueue
<1> HIDE DEF a, p
<1>6. r \in Actor
  <2>1. "registered" \in Phase /\ <<>> \in Seq(Note)
    BY DEF Phase
  <2> QED
    BY <2>1, <1>4, <1>5 DEF Actor
<1>7. r.state = "registered" /\ r.peers = p /\ r.blind = a.blind /\ r.peerQueue = <<>>
  BY <1>4 DEF Actor
<1> HIDE DEF r
<1>8. /\ actor' \in [Node -> Actor] /\ actor'[n] = r
      /\ \A k \in Node \ {n} : actor'[k] = actor[k]
  BY <1>2, <1>6, <1>1 DEF ActorTyped
<1>9. ActorTyped' /\ NoteTyped'
  BY <1>1, <1>2, <1>7, <1>8 DEF ActorTyped, NoteTyped
<1>10. \A l \in Node : Believes(n, l)' <=> Believes(n, l)
  <2> TAKE l \in Node
  <2>1. <<>> \o note[n] = note[n]
    BY <1>4
  <2>2. /\ Believes(n, l) = PeerAfter(a.peerQueue \o note[n], FALSE, l)
        /\ Believes(n, l)' = PeerAfter(note[n], l \in p, l)
    <3>1. (l \in a.peers) = FALSE
      BY <1>4
    <3>2. Believes(n, l) = PeerAfter(a.peerQueue \o note[n], l \in a.peers, l)
      BY DEF Believes, a
    <3>3. Believes(n, l)' = PeerAfter(<<>> \o note[n], l \in p, l)
      BY <1>2, <1>7, <1>8 DEF Believes
    <3> QED
      BY <3>1, <3>2, <3>3, <2>1
  <2>3. PeerAfter(a.peerQueue \o note[n], FALSE, l) <=> PeerAfter(note[n], PeerAfter(a.peerQueue, FALSE, l), l)
    BY <1>4, PeerAfterBoth
  <2>4. PeerAfter(a.peerQueue, FALSE, l) = (l \in p)
    <3> DEFINE f == PeerAfter(a.peerQueue, FALSE, l)
               g == l \in p
    <3>1. f \in BOOLEAN /\ g \in BOOLEAN
      BY DEF PeerAfter, OnBefore
    <3>2. f <=> g
      BY <1>5
    <3> HIDE DEF f, g
    <3>3. f = g
      BY <3>1, <3>2
    <3> QED
      BY <3>3 DEF f, g
  <2> QED
    BY <2>2, <2>3, <2>4
<1> QED
  BY <1>2, <1>3, <1>7, <1>8, <1>9, <1>10, PassKeeps DEF a

--------------------------------------------------------------------------------
(* Commands of the deployment manager *)

\* Events of a node at some others.
LEMMA SentIs ==
  ASSUME EventTyped, NEW n \in Node, NEW es \in Seq(Event), NEW to \in SUBSET Node
  PROVE  /\ Sent(n, es, to) \in [Node -> [Node -> Seq(Event)]]
         /\ \A k, l \in Node :
              /\ k \in to /\ l = n => Sent(n, es, to)[k][l] = event[k][l] \o es
              /\ k \notin to \/ l # n => Sent(n, es, to)[k][l] = event[k][l]
<1>1. \A k, l \in Node : event[k] \in [Node -> Seq(Event)] /\ event[k][l] \in Seq(Event)
  BY DEF EventTyped
<1>2. \A k \in Node : [event[k] EXCEPT ![n] = @ \o es] \in [Node -> Seq(Event)]
  BY <1>1
<1>3. \A k \in Node : Sent(n, es, to)[k] = IF k \in to THEN [event[k] EXCEPT ![n] = @ \o es] ELSE event[k]
  BY DEF Sent
<1>4. Sent(n, es, to) \in [Node -> [Node -> Seq(Event)]]
  BY <1>1, <1>2 DEF Sent
<1> QED
  BY <1>1, <1>3, <1>4

\* One or two elements at the end.
LEMMA ConcatIsAppend ==
  ASSUME NEW T, NEW s \in Seq(T), NEW x \in T, NEW y \in T
  PROVE  /\ s \o <<x>> = Append(s, x)
         /\ s \o <<x, y>> = Append(Append(s, x), y)
OBVIOUS

LEMMA SentOne ==
  ASSUME EventTyped, NEW n \in Node, NEW e \in Event, NEW to \in SUBSET Node
  PROVE  /\ Sent(n, <<e>>, to) \in [Node -> [Node -> Seq(Event)]]
         /\ \A k, l \in Node :
              /\ k \in to /\ l = n => Sent(n, <<e>>, to)[k][l] = Append(event[k][l], e)
              /\ k \notin to \/ l # n => Sent(n, <<e>>, to)[k][l] = event[k][l]
<1> DEFINE es == <<e>>
<1>1. es \in Seq(Event)
  OBVIOUS
<1>2. \A k, l \in Node : event[k][l] \o es = Append(event[k][l], e)
  BY ConcatIsAppend DEF EventTyped
<1> HIDE DEF es
<1>3. /\ Sent(n, es, to) \in [Node -> [Node -> Seq(Event)]]
      /\ \A k, l \in Node :
           /\ k \in to /\ l = n => Sent(n, es, to)[k][l] = event[k][l] \o es
           /\ k \notin to \/ l # n => Sent(n, es, to)[k][l] = event[k][l]
  BY <1>1, SentIs
<1>4. /\ Sent(n, es, to) \in [Node -> [Node -> Seq(Event)]]
      /\ \A k, l \in Node :
           /\ k \in to /\ l = n => Sent(n, es, to)[k][l] = Append(event[k][l], e)
           /\ k \notin to \/ l # n => Sent(n, es, to)[k][l] = event[k][l]
  BY <1>2, <1>3
<1> QED
  BY <1>4 DEF es

LEMMA SentTwo ==
  ASSUME EventTyped, NEW n \in Node, NEW es \in Seq(Event), Len(es) = 2, NEW to \in SUBSET Node
  PROVE  /\ Sent(n, es, to) \in [Node -> [Node -> Seq(Event)]]
         /\ \A k, l \in Node :
              /\ k \in to /\ l = n => Sent(n, es, to)[k][l] = Append(Append(event[k][l], es[1]), es[2])
              /\ k \notin to \/ l # n => Sent(n, es, to)[k][l] = event[k][l]
<1>1. es = <<es[1], es[2]>> /\ es[1] \in Event /\ es[2] \in Event
  OBVIOUS
<1>2. \A k, l \in Node : event[k][l] \o es = Append(Append(event[k][l], es[1]), es[2])
  <2> DEFINE d == es[1]  e == es[2]
  <2>1. es = <<d, e>> /\ d \in Event /\ e \in Event
    BY <1>1
  <2> HIDE DEF d, e
  <2>2. \A q \in Seq(Event) : q \o <<d, e>> = Append(Append(q, d), e)
    BY <2>1, ConcatIsAppend
  <2>3. \A q \in Seq(Event) : q \o es = Append(Append(q, d), e)
    BY <2>1, <2>2
  <2> QED
    BY <2>3 DEF EventTyped, d, e
<1>3. /\ Sent(n, es, to) \in [Node -> [Node -> Seq(Event)]]
      /\ \A k, l \in Node :
           /\ k \in to /\ l = n => Sent(n, es, to)[k][l] = event[k][l] \o es
           /\ k \notin to \/ l # n => Sent(n, es, to)[k][l] = event[k][l]
  BY SentIs
<1> QED
  BY ZenonT(60), <1>2, <1>3

LEMMA setupAppKeeps ==
  ASSUME Inv, NEW n \in Node, setupApp(n)
  PROVE  Inv'
<1>1. NodesTyped /\ EventTyped /\ MonitorTyped /\ NoteTyped /\ ActorTyped /\ SpentTyped /\ BooksOf(n)
  BY DEF Inv, Types, Books
<1>2. /\ n \in up /\ n \notin hasApp /\ hasApp' = hasApp \cup {n}
      /\ UNCHANGED <<up, link, note, actor, cleaned, spent>>
  BY DEF setupApp
<1>3. actor[n].state = "off" /\ n \notin link[n]
  BY <1>1, <1>2 DEF BooksOf
<1>4. \A k, l \in Node : Believes(k, l)' <=> Believes(k, l)
  BY <1>2, BelievesSame
<1>5. CASE monitor[n].alive
  <2>1. /\ joined' = joined \cup {n} /\ event' = Sent(n, <<"JOIN">>, link[n])
        /\ monitor' = [monitor EXCEPT ![n] = SetUp(@)]
    BY <1>5 DEF setupApp
  <2>2. /\ event' \in [Node -> [Node -> Seq(Event)]]
        /\ \A k, l \in Node : /\ k \in link[n] /\ l = n => event'[k][l] = Append(event[k][l], "JOIN")
                              /\ k \notin link[n] \/ l # n => event'[k][l] = event[k][l]
    <3>1. link[n] \in SUBSET Node /\ "JOIN" \in Event
      BY <1>1, Kinds DEF NodesTyped
    <3>2. /\ Sent(n, <<"JOIN">>, link[n]) \in [Node -> [Node -> Seq(Event)]]
          /\ \A k, l \in Node :
               /\ k \in link[n] /\ l = n => Sent(n, <<"JOIN">>, link[n])[k][l] = Append(event[k][l], "JOIN")
               /\ k \notin link[n] \/ l # n => Sent(n, <<"JOIN">>, link[n])[k][l] = event[k][l]
      BY <3>1, <1>1, SentOne, Zenon
    <3> QED
      BY <2>1, <3>2
  <2>3. /\ monitor' \in [Node -> Monitor]
        /\ \A k \in Node : /\ monitor'[k].peers = monitor[k].peers /\ monitor'[k].alive = monitor[k].alive
                           /\ monitor'[k].actor = monitor[k].actor
                           /\ k # n => monitor'[k] = monitor[k]
                           /\ k \notin cleaned => monitor'[k].group = monitor[k].group
        /\ n \notin cleaned => monitor'[n].known /\ monitor'[n].slot
    <3>1. monitor[n] \in Monitor /\ ~monitor[n].actor
      BY <1>1, <1>2, <1>3, <1>5 DEF MonitorTyped, BooksOf
    <3>2. CASE monitor[n].known
      <4>1. monitor' = monitor
        BY <2>1, <3>2, <1>1 DEF SetUp, MonitorTyped
      <4> QED
        BY <4>1, <3>2, <1>1 DEF MonitorTyped, BooksOf
    <3>3. CASE ~monitor[n].known
      <4> DEFINE r == [monitor[n] EXCEPT !.known = TRUE, !.group = {}, !.slot = TRUE, !.actor = FALSE]
      <4>1. monitor' = [monitor EXCEPT ![n] = r]
        BY <2>1, <3>3, <1>1 DEF SetUp, MonitorTyped
      <4>2. r \in Monitor
        BY <3>1, Zenon DEF Monitor
      <4>3. /\ r.peers = monitor[n].peers /\ r.alive = monitor[n].alive /\ r.actor = FALSE
            /\ r.group = {} /\ r.known = TRUE /\ r.slot = TRUE
        BY <3>1 DEF Monitor
      <4> HIDE DEF r
      <4>4. /\ monitor' \in [Node -> Monitor] /\ monitor'[n] = r
            /\ \A k \in Node \ {n} : monitor'[k] = monitor[k]
        BY <4>1, <4>2, <1>1 DEF MonitorTyped
      <4>5. n \notin cleaned => monitor[n].group = {}
        BY <1>1, <3>3 DEF BooksOf
      <4>6. monitor[n].actor = FALSE
        BY <3>1 DEF Monitor
      <4> QED
        BY <4>3, <4>4, <4>5, <4>6
    <3> QED
      BY <3>2, <3>3
  <2>4. Types'
    BY <1>1, <1>2, <2>1, <2>2, <2>3
       DEF Types, NodesTyped, EventTyped, MonitorTyped, NoteTyped, ActorTyped, SpentTyped
  <2>5. Books'
    <3> SUFFICES ASSUME NEW k \in Node PROVE BooksOf(k)'
      BY DEF Books
    <3>1. BooksOf(k)
      BY DEF Inv, Books
    <3>2. k \notin up => k # n /\ \A l \in Node : event'[k][l] = <<>>
      BY <3>1, <1>2, <2>2 DEF BooksOf
    <3> QED
      BY <3>1, <3>2, <1>2, <1>3, <1>5, <2>1, <2>3 DEF BooksOf
  <2>6. \A k, l \in Node : k \notin cleaned => (ToldOf(k, l)' <=> ToldOf(k, l))
    BY <1>2, <1>4, <2>3 DEF ToldOf
  <2>7. \A k, l \in Node : l # n /\ There(k, l)' => There(k, l)
    <3>1. \A l \in Node : l \in link[n] => Pending(l, n, "JOIN")'
      <4> TAKE l \in Node
      <4>1. event[l][n] \in Seq(Event)
        BY <1>1 DEF EventTyped
      <4>2. Contains(Append(event[l][n], "JOIN"), "JOIN")
        BY <4>1, Kinds, ContainsAppend
      <4> QED
        BY <4>2, <2>2 DEF Pending
    <3>2. \A k, l \in Node : k # n => (Pending(l, k, "JOIN")' <=> Pending(l, k, "JOIN"))
      BY <2>2 DEF Pending
    <3> QED
      BY <3>1, <3>2, <1>2, <2>1, <2>3 DEF There, Together
  <2>8. Streams'
    <3> SUFFICES ASSUME NEW k \in Node, NEW l \in Node, k \in up' PROVE StreamOf(k, l)'
      BY DEF Streams
    <3>1. StreamOf(k, l)
      BY <1>2 DEF Inv, Streams
    <3>2. CASE l # n
      BY <3>1, <3>2, <1>2, <2>1, <2>2, <2>3, <2>6, <2>7, StreamSame
    <3>3. CASE l = n /\ k \in link[n]
      <4>1. event[k][l] \in Seq(Event)
        BY <1>1 DEF EventTyped
      <4> QED
        BY <3>1, <3>3, <4>1, <1>2, <2>1, <2>2, <2>3, <2>6, Kinds, StreamSent
    <3>4. CASE l = n /\ k \notin link[n]
      <4>1. ~There(k, l)'
        BY <3>4, <1>2 DEF There, Together
      <4> QED
        BY <3>1, <3>4, <4>1, <1>2, <2>1, <2>2, <2>3, <2>6, StreamSame
    <3> QED
      BY <3>2, <3>3, <3>4
  <2>9. Beliefs'
    <3> SUFFICES ASSUME NEW k \in Node, NEW l \in Node PROVE BeliefOf(k, l)'
      BY DEF Beliefs
    <3>1. BeliefOf(k, l)
      BY DEF Inv, Beliefs
    <3> QED
      BY <3>1, <1>2, <1>4, <2>3 DEF BeliefOf
  <2> QED
    BY <2>4, <2>5, <2>8, <2>9 DEF Inv
<1>6. CASE ~monitor[n].alive
  <2>1. UNCHANGED <<joined, event, monitor>>
    BY <1>6 DEF setupApp
  <2>2. Types'
    BY <1>1, <1>2, <2>1
       DEF Types, NodesTyped, EventTyped, MonitorTyped, NoteTyped, ActorTyped, SpentTyped
  <2>3. Books'
    <3> SUFFICES ASSUME NEW k \in Node PROVE BooksOf(k)'
      BY DEF Books
    <3>1. BooksOf(k)
      BY DEF Inv, Books
    <3> QED
      BY <3>1, <1>2, <1>6, <2>1 DEF BooksOf
  <2>4. \A k, l \in Node : (ToldOf(k, l)' <=> ToldOf(k, l)) /\ (There(k, l)' <=> There(k, l))
    BY <1>2, <1>4, <2>1 DEF ToldOf, There, Together, Pending
  <2>5. Streams'
    <3> SUFFICES ASSUME NEW k \in Node, NEW l \in Node, k \in up' PROVE StreamOf(k, l)'
      BY DEF Streams
    <3>1. StreamOf(k, l)
      BY <1>2 DEF Inv, Streams
    <3> QED
      BY <3>1, <1>2, <2>1, <2>4, StreamSame
  <2>6. Beliefs'
    <3> SUFFICES ASSUME NEW k \in Node, NEW l \in Node PROVE BeliefOf(k, l)'
      BY DEF Beliefs
    <3>1. BeliefOf(k, l)
      BY DEF Inv, Beliefs
    <3> QED
      BY <3>1, <1>2, <1>4, <2>1 DEF BeliefOf
  <2> QED
    BY <2>2, <2>3, <2>5, <2>6 DEF Inv
<1> QED
  BY <1>5, <1>6

LEMMA cleanupAppKeeps ==
  ASSUME Inv, NEW n \in Node, cleanupApp(n)
  PROVE  Inv'
<1>1. NodesTyped /\ EventTyped /\ MonitorTyped /\ NoteTyped /\ ActorTyped /\ SpentTyped /\ BooksOf(n)
  BY DEF Inv, Types, Books
<1>2. /\ n \in up /\ n \in hasApp /\ hasApp' = hasApp \ {n} /\ cleaned' = cleaned \cup {n}
      /\ actor[n].state = "off"
      /\ UNCHANGED <<up, link, note, actor>>
  BY DEF cleanupApp
<1>3. SpentTyped'
  BY <1>1, Spends DEF cleanupApp
<1>4. \A k, l \in Node : Believes(k, l)' <=> Believes(k, l)
  BY <1>2, BelievesSame
<1>5. n \notin link[n] /\ \A k \in Node : ~There(k, n)'
  BY <1>1, <1>2 DEF BooksOf, There
<1>6. CASE monitor[n].alive
  <2>1. /\ joined' = joined \ {n} /\ event' = Sent(n, <<"LEAVE">>, link[n])
        /\ monitor' = [monitor EXCEPT ![n].known = FALSE, ![n].group = {}]
    BY <1>6 DEF cleanupApp
  <2>2. /\ event' \in [Node -> [Node -> Seq(Event)]]
        /\ \A k, l \in Node : /\ k \in link[n] /\ l = n => event'[k][l] = Append(event[k][l], "LEAVE")
                              /\ k \notin link[n] \/ l # n => event'[k][l] = event[k][l]
    <3>1. link[n] \in SUBSET Node /\ "LEAVE" \in Event
      BY <1>1, Kinds DEF NodesTyped
    <3>2. /\ Sent(n, <<"LEAVE">>, link[n]) \in [Node -> [Node -> Seq(Event)]]
          /\ \A k, l \in Node :
               /\ k \in link[n] /\ l = n => Sent(n, <<"LEAVE">>, link[n])[k][l] = Append(event[k][l], "LEAVE")
               /\ k \notin link[n] \/ l # n => Sent(n, <<"LEAVE">>, link[n])[k][l] = event[k][l]
      BY <3>1, <1>1, SentOne, Zenon
    <3> QED
      BY <2>1, <3>2
  <2>3. /\ monitor' \in [Node -> Monitor]
        /\ \A k \in Node : /\ monitor'[k].peers = monitor[k].peers /\ monitor'[k].alive = monitor[k].alive
                           /\ monitor'[k].actor = monitor[k].actor
                           /\ k # n => monitor'[k] = monitor[k]
    <3> DEFINE r == [monitor[n] EXCEPT !.known = FALSE, !.group = {}]
    <3>1. monitor[n] \in Monitor /\ monitor' = [monitor EXCEPT ![n] = r]
      BY <2>1, <1>1 DEF MonitorTyped
    <3>2. r \in Monitor
      BY <3>1, Zenon DEF Monitor
    <3>3. r.peers = monitor[n].peers /\ r.alive = monitor[n].alive /\ r.actor = monitor[n].actor
      BY <3>1 DEF Monitor
    <3> HIDE DEF r
    <3>4. /\ monitor' \in [Node -> Monitor] /\ monitor'[n] = r
          /\ \A k \in Node \ {n} : monitor'[k] = monitor[k]
      BY <3>1, <3>2, <1>1 DEF MonitorTyped
    <3> QED
      BY <3>3, <3>4
  <2>4. n \in joined
    BY <1>1, <1>2, <1>6 DEF BooksOf
  <2>5. Types'
    BY <1>1, <1>2, <1>3, <2>1, <2>2, <2>3
       DEF Types, NodesTyped, EventTyped, MonitorTyped, NoteTyped, ActorTyped
  <2>6. Books'
    <3> SUFFICES ASSUME NEW k \in Node PROVE BooksOf(k)'
      BY DEF Books
    <3>1. BooksOf(k)
      BY DEF Inv, Books
    <3>2. k \notin up => k # n /\ \A l \in Node : event'[k][l] = <<>>
      BY <3>1, <1>2, <2>2 DEF BooksOf
    <3> QED
      BY <3>1, <3>2, <1>2, <1>6, <2>1, <2>3 DEF BooksOf
  <2>7. \A k, l \in Node : k # n => (ToldOf(k, l)' <=> ToldOf(k, l))
    BY <1>2, <1>4, <2>3 DEF ToldOf
  <2>8. \A k, l \in Node : k # n /\ There(k, l)' => There(k, l)
    <3>1. \A k, l \in Node : k # n => (Pending(l, k, "JOIN")' <=> Pending(l, k, "JOIN"))
      BY <2>2 DEF Pending
    <3> QED
      BY <3>1, <1>2, <2>1, <2>3 DEF There, Together
  <2>9. Streams'
    <3> SUFFICES ASSUME NEW k \in Node, NEW l \in Node, k \in up' PROVE StreamOf(k, l)'
      BY DEF Streams
    <3>1. StreamOf(k, l)
      BY <1>2 DEF Inv, Streams
    <3>2. CASE k = n \/ l # n
      <4>1. event'[k][l] = event[k][l]
        BY <3>2, <1>5, <2>2
      <4> QED
        BY <3>1, <3>2, <4>1, <1>2, <2>1, <2>3, <2>7, <2>8, StreamSame
    <3>3. CASE k # n /\ l = n /\ k \in link[n]
      <4>1. event[k][l] \in Seq(Event)
        BY <1>1 DEF EventTyped
      <4> QED
        BY <3>1, <3>3, <4>1, <1>2, <1>5, <2>1, <2>2, <2>3, <2>4, <2>7, Kinds, StreamSent
    <3>4. CASE k # n /\ l = n /\ k \notin link[n]
      BY <3>1, <3>4, <1>2, <1>5, <2>1, <2>2, <2>3, <2>7, StreamSame
    <3> QED
      BY <3>2, <3>3, <3>4
  <2>10. Beliefs'
    <3> SUFFICES ASSUME NEW k \in Node, NEW l \in Node PROVE BeliefOf(k, l)'
      BY DEF Beliefs
    <3>1. BeliefOf(k, l)
      BY DEF Inv, Beliefs
    <3> QED
      BY <3>1, <1>2, <1>4, <2>3 DEF BeliefOf
  <2> QED
    BY <2>5, <2>6, <2>9, <2>10 DEF Inv
<1>7. CASE ~monitor[n].alive
  <2>1. UNCHANGED <<joined, event, monitor>>
    BY <1>7 DEF cleanupApp
  <2>2. Types'
    BY <1>1, <1>2, <1>3, <2>1
       DEF Types, NodesTyped, EventTyped, MonitorTyped, NoteTyped, ActorTyped
  <2>3. Books'
    <3> SUFFICES ASSUME NEW k \in Node PROVE BooksOf(k)'
      BY DEF Books
    <3>1. BooksOf(k)
      BY DEF Inv, Books
    <3> QED
      BY <3>1, <1>2, <1>7, <2>1 DEF BooksOf
  <2>4. \A k, l \in Node : (ToldOf(k, l)' <=> ToldOf(k, l)) /\ (There(k, l)' <=> There(k, l))
    BY <1>2, <1>4, <2>1 DEF ToldOf, There, Together, Pending
  <2>5. Streams'
    <3> SUFFICES ASSUME NEW k \in Node, NEW l \in Node, k \in up' PROVE StreamOf(k, l)'
      BY DEF Streams
    <3>1. StreamOf(k, l)
      BY <1>2 DEF Inv, Streams
    <3> QED
      BY <3>1, <1>2, <2>1, <2>4, StreamSame
  <2>6. Beliefs'
    <3> SUFFICES ASSUME NEW k \in Node, NEW l \in Node PROVE BeliefOf(k, l)'
      BY DEF Beliefs
    <3>1. BeliefOf(k, l)
      BY DEF Inv, Beliefs
    <3> QED
      BY <3>1, <1>2, <1>4, <2>1 DEF BeliefOf
  <2> QED
    BY <2>2, <2>3, <2>5, <2>6 DEF Inv
<1> QED
  BY <1>6, <1>7

\* A new actor: it has no peers yet, and is blind to those the monitor will not speak of again.
LEMMA LaunchedIs ==
  ASSUME ActorTyped, MonitorTyped, NEW n \in Node, actor' = [actor EXCEPT ![n] = Launched(n)]
  PROVE  /\ ActorTyped'
         /\ \A k \in Node \ {n} : actor'[k] = actor[k]
         /\ actor'[n].state = "launched" /\ actor'[n].peerQueue = <<>> /\ actor'[n].peers = {}
         /\ \A m \in Node : m \in actor'[n].blind <=>
              (m \in monitor[n].group /\ m \notin monitor[n].peers) \/ Contains(note[n], <<"peer+", m>>)
<1> DEFINE b == (monitor[n].group \ monitor[n].peers) \cup {m \in Node : Contains(note[n], <<"peer+", m>>)}
           r == [Off EXCEPT !.state = "launched", !.blind = b]
<1>1. r = Launched(n)
  BY DEF Launched
<1>2. b \in SUBSET Node
  BY DEF MonitorTyped, Monitor
<1>3. \A m \in Node : m \in b <=>
        (m \in monitor[n].group /\ m \notin monitor[n].peers) \/ Contains(note[n], <<"peer+", m>>)
  OBVIOUS
<1> HIDE DEF b
<1>4. r \in Actor /\ r.state = "launched" /\ r.peerQueue = <<>> /\ r.peers = {} /\ r.blind = b
  <2>1. "launched" \in Phase /\ "off" \in Phase /\ <<>> \in Seq(Note) /\ {} \in SUBSET Node
    BY DEF Phase
  <2>2. Off \in Actor
    BY <2>1 DEF Off, Actor
  <2>3. Off.peerQueue = <<>> /\ Off.peers = {}
    BY DEF Off
  <2>4. r \in Actor
    BY <1>2, <2>1, <2>2, Zenon DEF Actor
  <2>5. r.state = "launched" /\ r.peerQueue = Off.peerQueue /\ r.peers = Off.peers /\ r.blind = b
    BY <2>2 DEF Actor
  <2> QED
    BY <2>3, <2>4, <2>5
<1>5. actor' = [actor EXCEPT ![n] = r]
  BY <1>1
<1> HIDE DEF r
<1>6. actor' \in [Node -> Actor] /\ actor'[n] = r /\ \A k \in Node \ {n} : actor'[k] = actor[k]
  BY <1>4, <1>5 DEF ActorTyped
<1> QED
  BY <1>3, <1>4, <1>6 DEF ActorTyped

\* It will be told of all who are in groups.
LEMMA ToldIs ==
  ASSUME NoteTyped, MonitorTyped, NEW n \in Node, note' = [note EXCEPT ![n] = Told(n)],
         actor'[n].peerQueue = <<>>, actor'[n].peers = {}
  PROVE  /\ NoteTyped'
         /\ \A k \in Node \ {n} : note'[k] = note[k]
         /\ \A m \in Node : Believes(n, m)' <=> PeerAfter(note[n], FALSE, m) \/ m \in monitor[n].group
<1> DEFINE q == Notes("peer+", monitor[n].group)
           g == monitor[n].group
<1>1. g \in SUBSET Node /\ note[n] \in Seq(Note)
  BY DEF MonitorTyped, Monitor, NoteTyped
<1>2. q \in Seq(Note) /\ \A m \in Node, f \in BOOLEAN : PeerAfter(q, f, m) <=> f \/ m \in g
  BY <1>1, NotesTold, FaultAssumption
<1>3. note' = [note EXCEPT ![n] = note[n] \o q]
  BY DEF Told
<1> HIDE DEF q
<1>4. note[n] \o q \in Seq(Note) /\ <<>> \o (note[n] \o q) = note[n] \o q
  BY <1>1, <1>2
<1>5. NoteTyped' /\ note'[n] = note[n] \o q /\ \A k \in Node \ {n} : note'[k] = note[k]
  BY <1>3, <1>4 DEF NoteTyped
<1>6. ASSUME NEW m \in Node
      PROVE  Believes(n, m)' <=> PeerAfter(note[n], FALSE, m) \/ m \in g
  <2> DEFINE f == PeerAfter(note[n], FALSE, m)
  <2>1. (m \in {}) = FALSE
    OBVIOUS
  <2>2. Believes(n, m)' = PeerAfter(note[n] \o q, FALSE, m)
    <3>1. Believes(n, m)' = PeerAfter(<<>> \o (note[n] \o q), m \in {}, m)
      BY <1>5 DEF Believes
    <3> QED
      BY <2>1, <3>1, <1>4
  <2>3. PeerAfter(note[n] \o q, FALSE, m) <=> PeerAfter(q, f, m)
    BY <1>1, <1>2, PeerAfterBoth
  <2>4. f \in BOOLEAN
    BY PeerAfterType
  <2> HIDE DEF f
  <2>5. PeerAfter(q, f, m) <=> f \/ m \in g
    BY <1>2, <2>4
  <2> QED
    BY <2>2, <2>3, <2>5 DEF f
<1> QED
  BY <1>5, <1>6

\* Events that are not of the group leave the pending ones.
LEMMA PendingSame ==
  ASSUME EventTyped, NEW k \in Node, NEW l \in Node, NEW d \in {"+", "-"},
         \/ event'[k][l] = event[k][l]
         \/ event'[k][l] = Append(event[k][l], d)
         \/ event'[k][l] = Append(Append(event[k][l], "-"), "+")
  PROVE  Pending(k, l, "JOIN")' <=> Pending(k, l, "JOIN")
<1> DEFINE q == event[k][l]
<1>1. q \in Seq(Event) /\ "+" \in Event /\ "-" \in Event /\ d \in Event /\ d # "JOIN"
  BY Kinds DEF EventTyped
<1> HIDE DEF q
<1>2. Append(q, "-") \in Seq(Event)
  BY <1>1
<1>3. /\ Contains(Append(q, d), "JOIN") <=> Contains(q, "JOIN")
      /\ Contains(Append(q, "-"), "JOIN") <=> Contains(q, "JOIN")
      /\ Contains(Append(Append(q, "-"), "+"), "JOIN") <=> Contains(Append(q, "-"), "JOIN")
  BY <1>1, <1>2, ContainsAppend
<1> QED
  BY <1>3 DEF Pending, q

\* An actor starts, and the monitor tells the peers and the actor.
LEMMA LaunchKeeps ==
  ASSUME Inv, NEW n \in Node, n \in up, n \in hasApp, monitor[n].alive, SpentTyped',
         actor' = [actor EXCEPT ![n] = Launched(n)],
         note' = [note EXCEPT ![n] = Told(n)],
         monitor' = [monitor EXCEPT ![n].actor = TRUE],
         UNCHANGED <<up, joined, link, hasApp, cleaned>>,
         EventTyped',
         NEW x \in SUBSET Node, Surely(n) \subseteq x, x \subseteq Maybe(n),
         \A k, l \in Node :
           /\ k \notin x \/ l # n => event'[k][l] = event[k][l]
           /\ k \in x /\ l = n => \/ event'[k][l] = Append(event[k][l], "+")
                                  \/ event'[k][l] = Append(Append(event[k][l], "-"), "+")
  PROVE  Inv'
<1>1. NodesTyped /\ EventTyped /\ MonitorTyped /\ NoteTyped /\ ActorTyped /\ BooksOf(n)
  BY DEF Inv, Types, Books
<1>2. n \in joined /\ n \notin link[n] /\ x \subseteq link[n]
  BY <1>1 DEF BooksOf, Maybe
<1>3. /\ monitor' \in [Node -> Monitor]
      /\ \A k \in Node : /\ monitor'[k].peers = monitor[k].peers /\ monitor'[k].alive = monitor[k].alive
                         /\ monitor'[k].group = monitor[k].group /\ monitor'[k].known = monitor[k].known
                         /\ monitor'[k].slot = monitor[k].slot
                         /\ k # n => monitor'[k] = monitor[k]
      /\ monitor'[n].actor
  BY <1>1 DEF MonitorTyped, Monitor
<1>4. /\ ActorTyped'
      /\ \A k \in Node \ {n} : actor'[k] = actor[k]
      /\ actor'[n].state = "launched" /\ actor'[n].peerQueue = <<>> /\ actor'[n].peers = {}
      /\ \A m \in Node : m \in actor'[n].blind <=>
           (m \in monitor[n].group /\ m \notin monitor[n].peers) \/ Contains(note[n], <<"peer+", m>>)
  BY <1>1, LaunchedIs
<1>5. /\ NoteTyped'
      /\ \A k \in Node \ {n} : note'[k] = note[k]
      /\ \A m \in Node : Believes(n, m)' <=> PeerAfter(note[n], FALSE, m) \/ m \in monitor[n].group
  BY <1>1, <1>4, ToldIs
<1>6. Types'
  BY <1>1, <1>3, <1>4, <1>5 DEF Types, NodesTyped, MonitorTyped
<1>7. Books'
  <2> SUFFICES ASSUME NEW k \in Node PROVE BooksOf(k)'
    BY DEF Books
  <2>1. BooksOf(k)
    BY DEF Inv, Books
  <2>2. k \notin up => k # n /\ \A l \in Node : event'[k][l] = <<>>
    BY <2>1, <1>2 DEF BooksOf
  <2> QED
    BY <2>1, <2>2, <1>2, <1>3, <1>4, <1>5 DEF BooksOf
<1>8. \A k, l \in Node : ToldOf(k, l) => ToldOf(k, l)'
  <2>1. \A k, l \in Node : k # n => (Believes(k, l)' <=> Believes(k, l))
    BY <1>4, <1>5, BelievesSame
  <2>2. \A k, l \in Node : k # n => (ToldOf(k, l) <=> ToldOf(k, l)')
    BY <2>1, <1>3, <1>4 DEF ToldOf
  <2>3. \A l \in Node : ToldOf(n, l) => ToldOf(n, l)'
    BY <1>3, <1>5 DEF ToldOf
  <2> QED
    BY <2>2, <2>3
<1>9. \A k, l \in Node : Pending(k, l, "JOIN")' <=> Pending(k, l, "JOIN")
  BY <1>1, PendingSame
<1>10. \A k, l \in Node : l # n /\ There(k, l)' => There(k, l)
  BY <1>3, <1>4, <1>9 DEF There, Together
<1>11. \A k \in Node : There(k, n)' => k \in x
  BY <1>9 DEF There, Together, Surely
<1>12. Streams'
  <2> SUFFICES ASSUME NEW k \in Node, NEW l \in Node, k \in up' PROVE StreamOf(k, l)'
    BY DEF Streams
  <2>1. StreamOf(k, l) /\ event[k][l] \in Seq(Event)
    BY <1>1 DEF Inv, Streams, EventTyped
  <2>2. CASE l # n
    BY <2>1, <2>2, <1>3, <1>8, <1>10, StreamSame
  <2>3. CASE l = n /\ k \notin x
    BY <2>1, <2>3, <1>3, <1>8, <1>11, StreamSame
  <2>4. CASE l = n /\ k \in x /\ event'[k][l] = Append(event[k][l], "+")
    BY <2>1, <2>4, <1>2, <1>3, <1>8, Kinds, StreamSent
  <2>5. CASE l = n /\ k \in x /\ event'[k][l] = Append(Append(event[k][l], "-"), "+")
    BY <2>1, <2>5, <1>2, <1>3, <1>8, StreamSentTwo
  <2> QED
    BY <2>2, <2>3, <2>4, <2>5
<1>13. Beliefs'
  <2> SUFFICES ASSUME NEW k \in Node, NEW l \in Node PROVE BeliefOf(k, l)'
    BY DEF Beliefs
  <2>1. BeliefOf(k, l)
    BY DEF Inv, Beliefs
  <2>2. CASE k # n
    <3>1. Believes(k, l)' <=> Believes(k, l)
      BY <2>2, <1>4, <1>5, BelievesSame
    <3> QED
      BY <2>1, <2>2, <3>1, <1>3, <1>4 DEF BeliefOf
  <2>3. CASE k = n
    <3>1. PeerAfter(note[n], FALSE, l) => Contains(note[n], <<"peer+", l>>)
      BY <1>1, PeerAfterSome DEF NoteTyped
    <3> QED
      BY <2>3, <3>1, <1>3, <1>4, <1>5 DEF BeliefOf
  <2> QED
    BY <2>2, <2>3
<1> QED
  BY <1>6, <1>7, <1>12, <1>13 DEF Inv

\* An actor starts or ends, and nobody is told: the application was cleaned up.
LEMMA UntoldKeeps ==
  ASSUME Inv, NEW n \in Node, n \in up, n \in cleaned, SpentTyped', ActorTyped',
         \A k \in Node \ {n} : actor'[k] = actor[k],
         actor'[n].state # "off" => n \in hasApp,
         actor'[n].state # "registered" /\ actor'[n].peers = {},
         monitor' \in [Node -> Monitor],
         \A k \in Node : /\ monitor'[k].peers = monitor[k].peers /\ monitor'[k].group = monitor[k].group
                         /\ monitor'[k].known = monitor[k].known /\ monitor'[k].slot = monitor[k].slot
                         /\ monitor'[k].actor = monitor[k].actor
                         /\ k # n => monitor'[k].alive = monitor[k].alive,
         ~monitor'[n].alive,
         UNCHANGED <<up, joined, link, event, note, hasApp, cleaned>>
  PROVE  Inv'
<1>1. NodesTyped /\ EventTyped /\ MonitorTyped /\ NoteTyped /\ BooksOf(n)
  BY DEF Inv, Types, Books
<1>2. Types'
  BY <1>1 DEF Types, NodesTyped, EventTyped, MonitorTyped, NoteTyped
<1>3. Books'
  <2> SUFFICES ASSUME NEW k \in Node PROVE BooksOf(k)'
    BY DEF Books
  <2>1. BooksOf(k)
    BY DEF Inv, Books
  <2> QED
    BY <2>1 DEF BooksOf
<1>4. \A k, l \in Node : k # n => (Believes(k, l)' <=> Believes(k, l))
  BY BelievesSame
<1>5. \A k, l \in Node : k # n => (ToldOf(k, l)' <=> ToldOf(k, l))
  BY <1>4 DEF ToldOf
<1>6. \A k, l \in Node : There(k, l)' => There(k, l)
  BY DEF There, Together, Pending
<1>7. Streams'
  <2> SUFFICES ASSUME NEW k \in Node, NEW l \in Node, k \in up' PROVE StreamOf(k, l)'
    BY DEF Streams
  <2>1. StreamOf(k, l)
    BY DEF Inv, Streams
  <2> QED
    BY <2>1, <1>5, <1>6, StreamSame
<1>8. Beliefs'
  <2> SUFFICES ASSUME NEW k \in Node, NEW l \in Node PROVE BeliefOf(k, l)'
    BY DEF Beliefs
  <2>1. BeliefOf(k, l)
    BY DEF Inv, Beliefs
  <2> QED
    BY <2>1, <1>4 DEF BeliefOf
<1> QED
  BY <1>2, <1>3, <1>7, <1>8 DEF Inv

\* The thread of the monitor ends, ...
LEMMA AliveSet ==
  ASSUME MonitorTyped, NEW n \in Node, monitor' = [monitor EXCEPT ![n].alive = FALSE]
  PROVE  /\ monitor' \in [Node -> Monitor] /\ ~monitor'[n].alive
         /\ \A k \in Node : /\ monitor'[k].peers = monitor[k].peers /\ monitor'[k].group = monitor[k].group
                            /\ monitor'[k].known = monitor[k].known /\ monitor'[k].slot = monitor[k].slot
                            /\ monitor'[k].actor = monitor[k].actor
                            /\ k # n => monitor'[k].alive = monitor[k].alive
<1> DEFINE r == [monitor[n] EXCEPT !.alive = FALSE]
<1>1. monitor[n] \in Monitor /\ monitor' = [monitor EXCEPT ![n] = r]
  BY DEF MonitorTyped
<1>2. r \in Monitor
  BY <1>1, Zenon DEF Monitor
<1>3. /\ r.peers = monitor[n].peers /\ r.group = monitor[n].group /\ r.known = monitor[n].known
      /\ r.slot = monitor[n].slot /\ r.actor = monitor[n].actor /\ r.alive = FALSE
  BY <1>1 DEF Monitor
<1> HIDE DEF r
<1>4. monitor' \in [Node -> Monitor] /\ monitor'[n] = r /\ \A k \in Node \ {n} : monitor'[k] = monitor[k]
  BY <1>1, <1>2 DEF MonitorTyped
<1> QED
  BY <1>3, <1>4

\* ... or takes the actor for ended.
LEMMA ActorUnset ==
  ASSUME MonitorTyped, NEW n \in Node, monitor' = [monitor EXCEPT ![n].actor = FALSE]
  PROVE  /\ monitor' \in [Node -> Monitor] /\ ~monitor'[n].actor
         /\ \A k \in Node : /\ monitor'[k].peers = monitor[k].peers /\ monitor'[k].alive = monitor[k].alive
                            /\ monitor'[k].group = monitor[k].group /\ monitor'[k].known = monitor[k].known
                            /\ monitor'[k].slot = monitor[k].slot
                            /\ k # n => monitor'[k] = monitor[k]
<1> DEFINE r == [monitor[n] EXCEPT !.actor = FALSE]
<1>1. monitor[n] \in Monitor /\ monitor' = [monitor EXCEPT ![n] = r]
  BY DEF MonitorTyped
<1>2. r \in Monitor
  BY <1>1, Zenon DEF Monitor
<1>3. /\ r.peers = monitor[n].peers /\ r.group = monitor[n].group /\ r.known = monitor[n].known
      /\ r.slot = monitor[n].slot /\ r.alive = monitor[n].alive /\ r.actor = FALSE
  BY <1>1 DEF Monitor
<1> HIDE DEF r
<1>4. monitor' \in [Node -> Monitor] /\ monitor'[n] = r /\ \A k \in Node \ {n} : monitor'[k] = monitor[k]
  BY <1>1, <1>2 DEF MonitorTyped
<1> QED
  BY <1>3, <1>4

LEMMA startActorKeeps ==
  ASSUME Inv, NEW n \in Node, startActor(n)
  PROVE  Inv'
<1>1. NodesTyped /\ EventTyped /\ MonitorTyped /\ NoteTyped /\ ActorTyped /\ SpentTyped /\ BooksOf(n)
  BY DEF Inv, Types, Books
<1>2. /\ n \in up /\ n \in hasApp /\ actor[n].state = "off"
      /\ actor' = [actor EXCEPT ![n] = Launched(n)]
      /\ UNCHANGED <<up, joined, link, hasApp, cleaned>>
  BY DEF startActor
<1>3. SpentTyped'
  BY <1>1, Spends DEF startActor
<1>4. CASE monitor[n].alive /\ monitor[n].known /\ monitor[n].slot
  <2>1. /\ monitor' = [monitor EXCEPT ![n].actor = TRUE] /\ Shouted(n, <<"+">>)
        /\ note' = [note EXCEPT ![n] = Told(n)]
    BY <1>4 DEF startActor
  <2>2. PICK x \in SUBSET (Maybe(n) \ Surely(n)) : event' = Sent(n, <<"+">>, Surely(n) \cup x)
    BY <2>1 DEF Shouted
  <2> DEFINE y == Surely(n) \cup x
  <2>3. y \in SUBSET Node /\ Surely(n) \subseteq y /\ y \subseteq Maybe(n)
    BY <1>1 DEF NodesTyped, Surely, Maybe
  <2> HIDE DEF y
  <2>4. /\ EventTyped'
        /\ \A k, l \in Node : /\ k \in y /\ l = n => event'[k][l] = Append(event[k][l], "+")
                              /\ k \notin y \/ l # n => event'[k][l] = event[k][l]
    <3>1. event' = Sent(n, <<"+">>, y) /\ "+" \in Event
      BY <2>2, Kinds DEF y
    <3>2. /\ Sent(n, <<"+">>, y) \in [Node -> [Node -> Seq(Event)]]
          /\ \A k, l \in Node :
               /\ k \in y /\ l = n => Sent(n, <<"+">>, y)[k][l] = Append(event[k][l], "+")
               /\ k \notin y \/ l # n => Sent(n, <<"+">>, y)[k][l] = event[k][l]
      BY <2>3, <3>1, <1>1, SentOne, Zenon
    <3> QED
      BY <3>1, <3>2 DEF EventTyped
  <2> QED
    <3>1. \A k, l \in Node :
            /\ k \notin y \/ l # n => event'[k][l] = event[k][l]
            /\ k \in y /\ l = n => \/ event'[k][l] = Append(event[k][l], "+")
                                   \/ event'[k][l] = Append(Append(event[k][l], "-"), "+")
      BY <2>4
    <3> QED
      BY <1>2, <1>3, <1>4, <2>1, <2>3, <2>4, <3>1, LaunchKeeps
<1>5. CASE ~(monitor[n].alive /\ monitor[n].known /\ monitor[n].slot)
  <2>1. n \in cleaned
    BY <1>1, <1>2, <1>5 DEF BooksOf
  <2>2. UNCHANGED <<event, note>>
    BY <1>5 DEF startActor
  <2>3. /\ monitor' \in [Node -> Monitor] /\ ~monitor'[n].alive
        /\ \A k \in Node : /\ monitor'[k].peers = monitor[k].peers /\ monitor'[k].group = monitor[k].group
                           /\ monitor'[k].known = monitor[k].known /\ monitor'[k].slot = monitor[k].slot
                           /\ monitor'[k].actor = monitor[k].actor
                           /\ k # n => monitor'[k].alive = monitor[k].alive
    <3>1. CASE monitor[n].alive
      <4>1. monitor' = [monitor EXCEPT ![n].alive = FALSE]
        BY <1>5, <3>1 DEF startActor
      <4> QED
        BY <4>1, <1>1, AliveSet
    <3>2. CASE ~monitor[n].alive
      <4>1. monitor' = monitor
        BY <3>2 DEF startActor
      <4> QED
        BY <4>1, <3>2, <1>1 DEF MonitorTyped
    <3> QED
      BY <3>1, <3>2
  <2>4. /\ ActorTyped' /\ \A k \in Node \ {n} : actor'[k] = actor[k]
        /\ actor'[n].state = "launched" /\ actor'[n].peers = {}
    BY <1>1, <1>2, LaunchedIs
  <2> QED
    BY <1>2, <1>3, <2>1, <2>2, <2>3, <2>4, UntoldKeeps
<1> QED
  BY <1>4, <1>5

LEMMA restartActorKeeps ==
  ASSUME Inv, NEW n \in Node, restartActor(n)
  PROVE  Inv'
<1>1. NodesTyped /\ EventTyped /\ MonitorTyped /\ NoteTyped /\ ActorTyped /\ SpentTyped /\ BooksOf(n)
  BY DEF Inv, Types, Books
<1>2. /\ n \in up /\ actor[n].state # "off"
      /\ actor' = [actor EXCEPT ![n] = Launched(n)]
      /\ UNCHANGED <<up, joined, link, monitor, hasApp, cleaned>>
  BY DEF restartActor
<1>3. SpentTyped' /\ n \in hasApp
  BY <1>1, <1>2, Spends DEF restartActor, BooksOf
<1>4. CASE monitor[n].alive
  <2>1. Shouted(n, <<"-", "+">>) /\ note' = [note EXCEPT ![n] = Told(n)]
    BY <1>4 DEF restartActor
  <2>2. PICK x \in SUBSET (Maybe(n) \ Surely(n)) : event' = Sent(n, <<"-", "+">>, Surely(n) \cup x)
    BY <2>1 DEF Shouted
  <2> DEFINE y == Surely(n) \cup x
  <2>3. y \in SUBSET Node /\ Surely(n) \subseteq y /\ y \subseteq Maybe(n)
    BY <1>1 DEF NodesTyped, Surely, Maybe
  <2> HIDE DEF y
  <2>4. /\ EventTyped'
        /\ \A k, l \in Node : /\ k \in y /\ l = n => event'[k][l] = Append(Append(event[k][l], "-"), "+")
                              /\ k \notin y \/ l # n => event'[k][l] = event[k][l]
    <3> DEFINE es == <<"-", "+">>
    <3>1. event' = Sent(n, es, y)
      BY <2>2 DEF y
    <3>2. es \in Seq(Event) /\ Len(es) = 2 /\ es[1] = "-" /\ es[2] = "+"
      BY Kinds
    <3> HIDE DEF es
    <3>3. /\ Sent(n, es, y) \in [Node -> [Node -> Seq(Event)]]
          /\ \A k, l \in Node :
               /\ k \in y /\ l = n => Sent(n, es, y)[k][l] = Append(Append(event[k][l], es[1]), es[2])
               /\ k \notin y \/ l # n => Sent(n, es, y)[k][l] = event[k][l]
      BY <2>3, <3>2, <1>1, SentTwo
    <3>4. EventTyped'
      BY <3>1, <3>3, Zenon DEF EventTyped
    <3>5. ASSUME NEW k \in Node, NEW l \in Node
          PROVE  /\ k \in y /\ l = n => event'[k][l] = Append(Append(event[k][l], "-"), "+")
                 /\ k \notin y \/ l # n => event'[k][l] = event[k][l]
      BY <3>1, <3>2, <3>3, Zenon
    <3> QED
      BY <3>4, <3>5, Zenon
  <2>5. monitor' = [monitor EXCEPT ![n].actor = TRUE]
    <3> DEFINE r == [monitor[n] EXCEPT !.actor = TRUE]
    <3>1. monitor[n] \in Monitor /\ monitor[n].actor
      BY <1>1, <1>2, <1>4 DEF MonitorTyped, BooksOf
    <3>2. r = monitor[n]
      BY <3>1 DEF Monitor
    <3>3. [monitor EXCEPT ![n] = r] = monitor
      BY <3>2, <1>1 DEF MonitorTyped
    <3> QED
      BY <3>3, <1>2
  <2> QED
    <3>1. \A k, l \in Node :
            /\ k \notin y \/ l # n => event'[k][l] = event[k][l]
            /\ k \in y /\ l = n => \/ event'[k][l] = Append(event[k][l], "+")
                                   \/ event'[k][l] = Append(Append(event[k][l], "-"), "+")
      BY <2>4
    <3> QED
      BY <1>2, <1>3, <1>4, <2>1, <2>3, <2>4, <2>5, <3>1, LaunchKeeps
<1>5. CASE ~monitor[n].alive
  <2>1. n \in cleaned
    BY <1>1, <1>5 DEF BooksOf
  <2>2. UNCHANGED <<event, note>>
    BY <1>5 DEF restartActor
  <2>3. /\ ActorTyped' /\ \A k \in Node \ {n} : actor'[k] = actor[k]
        /\ actor'[n].state = "launched" /\ actor'[n].peers = {}
    BY <1>1, <1>2, LaunchedIs
  <2> QED
    BY <1>1, <1>2, <1>3, <1>5, <2>1, <2>2, <2>3, UntoldKeeps DEF MonitorTyped
<1> QED
  BY <1>4, <1>5

LEMMA OffIs ==
  ASSUME ActorTyped, NEW n \in Node, actor' = [actor EXCEPT ![n] = Off]
  PROVE  /\ ActorTyped' /\ \A k \in Node \ {n} : actor'[k] = actor[k]
         /\ actor'[n] = Off /\ actor'[n].state = "off" /\ actor'[n].peerQueue = <<>>
         /\ actor'[n].peers = {}
<1>1. "off" \in Phase /\ <<>> \in Seq(Note) /\ {} \in SUBSET Node
  BY DEF Phase
<1>2. Off \in Actor
  BY <1>1 DEF Off, Actor
<1>3. Off.state = "off" /\ Off.peerQueue = <<>> /\ Off.peers = {}
  BY DEF Off
<1> QED
  BY <1>2, <1>3 DEF ActorTyped

LEMMA stopActorKeeps ==
  ASSUME Inv, NEW n \in Node, stopActor(n)
  PROVE  Inv'
<1>1. NodesTyped /\ EventTyped /\ MonitorTyped /\ NoteTyped /\ ActorTyped /\ SpentTyped /\ BooksOf(n)
  BY DEF Inv, Types, Books
<1>2. /\ n \in up /\ actor[n].state # "off"
      /\ actor' = [actor EXCEPT ![n] = Off]
      /\ UNCHANGED <<up, joined, link, note, hasApp, cleaned>>
  BY DEF stopActor
<1>3. SpentTyped'
  BY <1>1, Spends DEF stopActor
<1>4. /\ ActorTyped' /\ \A k \in Node \ {n} : actor'[k] = actor[k]
      /\ actor'[n].state = "off" /\ actor'[n].peers = {}
  BY <1>1, <1>2, OffIs
<1>5. CASE monitor[n].alive
  <2>1. monitor' = [monitor EXCEPT ![n].actor = FALSE] /\ Shouted(n, <<"-">>)
    BY <1>5 DEF stopActor
  <2>2. PICK x \in SUBSET (Maybe(n) \ Surely(n)) : event' = Sent(n, <<"-">>, Surely(n) \cup x)
    BY <2>1 DEF Shouted
  <2> DEFINE y == Surely(n) \cup x
  <2>3. y \in SUBSET Node /\ y \subseteq link[n]
    BY <1>1 DEF NodesTyped, Surely, Maybe
  <2> HIDE DEF y
  <2>4. /\ EventTyped'
        /\ \A k, l \in Node : /\ k \in y /\ l = n => event'[k][l] = Append(event[k][l], "-")
                              /\ k \notin y \/ l # n => event'[k][l] = event[k][l]
    <3>1. event' = Sent(n, <<"-">>, y) /\ "-" \in Event
      BY <2>2, Kinds DEF y
    <3>2. /\ Sent(n, <<"-">>, y) \in [Node -> [Node -> Seq(Event)]]
          /\ \A k, l \in Node :
               /\ k \in y /\ l = n => Sent(n, <<"-">>, y)[k][l] = Append(event[k][l], "-")
               /\ k \notin y \/ l # n => Sent(n, <<"-">>, y)[k][l] = event[k][l]
      BY <2>3, <3>1, <1>1, SentOne, Zenon
    <3> QED
      BY <3>1, <3>2 DEF EventTyped
  <2>5. /\ monitor' \in [Node -> Monitor]
        /\ \A k \in Node : /\ monitor'[k].peers = monitor[k].peers /\ monitor'[k].alive = monitor[k].alive
                           /\ monitor'[k].group = monitor[k].group /\ monitor'[k].known = monitor[k].known
                           /\ monitor'[k].slot = monitor[k].slot
                           /\ k # n => monitor'[k] = monitor[k]
        /\ ~monitor'[n].actor
    BY <1>1, <2>1, ActorUnset
  <2>6. n \in joined
    BY <1>1, <1>2, <1>5 DEF BooksOf
  <2>7. Types'
    BY <1>1, <1>2, <1>3, <1>4, <2>4, <2>5 DEF Types, NodesTyped, MonitorTyped, NoteTyped
  <2>8. Books'
    <3> SUFFICES ASSUME NEW k \in Node PROVE BooksOf(k)'
      BY DEF Books
    <3>1. BooksOf(k)
      BY DEF Inv, Books
    <3>2. k \notin up => k # n /\ \A l \in Node : event'[k][l] = <<>>
      BY <3>1, <1>2, <2>3, <2>4 DEF BooksOf
    <3> QED
      BY <3>1, <3>2, <1>2, <1>4, <2>5 DEF BooksOf
  <2>9. \A k, l \in Node : k # n => (Believes(k, l)' <=> Believes(k, l))
    BY <1>2, <1>4, BelievesSame
  <2>10. \A k, l \in Node : ToldOf(k, l) => ToldOf(k, l)'
    <3>1. \A k, l \in Node : k # n => (ToldOf(k, l) <=> ToldOf(k, l)')
      BY <1>4, <2>5, <2>9 DEF ToldOf
    <3>2. \A l \in Node : ToldOf(n, l) => ToldOf(n, l)'
      BY <1>4, <2>5 DEF ToldOf
    <3> QED
      BY <3>1, <3>2
  <2>11. \A k, l \in Node : Pending(k, l, "JOIN")' <=> Pending(k, l, "JOIN")
    BY <1>1, <2>4, PendingSame
  <2>12. \A k, l \in Node : There(k, l)' => l # n /\ There(k, l)
    BY <1>2, <1>4, <2>5, <2>11 DEF There, Together
  <2>13. Streams'
    <3> SUFFICES ASSUME NEW k \in Node, NEW l \in Node, k \in up' PROVE StreamOf(k, l)'
      BY DEF Streams
    <3>1. StreamOf(k, l) /\ event[k][l] \in Seq(Event)
      BY <1>1, <1>2 DEF Inv, Streams, EventTyped
    <3>2. CASE l # n \/ k \notin y
      BY <3>1, <3>2, <1>2, <2>4, <2>5, <2>10, <2>12, StreamSame
    <3>3. CASE l = n /\ k \in y
      BY <3>1, <3>3, <1>2, <2>3, <2>4, <2>5, <2>6, <2>10, <2>12, Kinds, StreamSent
    <3> QED
      BY <3>2, <3>3
  <2>14. Beliefs'
    <3> SUFFICES ASSUME NEW k \in Node, NEW l \in Node PROVE BeliefOf(k, l)'
      BY DEF Beliefs
    <3>1. BeliefOf(k, l)
      BY DEF Inv, Beliefs
    <3> QED
      BY <3>1, <1>2, <1>4, <2>5, <2>9 DEF BeliefOf
  <2> QED
    BY <2>7, <2>8, <2>13, <2>14 DEF Inv
<1>6. CASE ~monitor[n].alive
  <2>1. n \in cleaned
    BY <1>1, <1>6 DEF BooksOf
  <2>2. UNCHANGED <<monitor, event>>
    BY <1>6 DEF stopActor
  <2> QED
    BY <1>1, <1>2, <1>3, <1>4, <1>6, <2>1, <2>2, UntoldKeeps DEF MonitorTyped
<1> QED
  BY <1>5, <1>6

--------------------------------------------------------------------------------
(* Connections and nodes that come and go *)

LEMMA ConnectKeeps ==
  ASSUME Inv, NEW n \in Node, NEW m \in Node, Connect(n, m)
  PROVE  Inv'
<1>1. /\ NodesTyped /\ EventTyped /\ MonitorTyped /\ NoteTyped /\ ActorTyped /\ SpentTyped
      /\ BooksOf(n) /\ BooksOf(m)
  BY DEF Inv, Types, Books
<1>2. /\ n \in up /\ m \in up /\ n # m /\ m \notin link[n]
      /\ link' = [link EXCEPT ![n] = @ \cup {m}]
      /\ UNCHANGED <<up, joined, monitor, note, hasApp, actor, cleaned, spent>>
  BY DEF Connect
<1>3. /\ link' \in [Node -> SUBSET Node]
      /\ \A k, l \in Node : k \in link'[l] <=> k \in link[l] \/ (l = n /\ k = m)
  BY <1>1, <1>2 DEF NodesTyped
<1>4. /\ event' \in [Node -> [Node -> Seq(Event)]]
      /\ \A k, l \in Node : k # m \/ l # n => event'[k][l] = event[k][l]
      /\ n \notin joined => event'[m][n] = Append(event[m][n], "ENTER")
      /\ n \in joined => event'[m][n] = Append(Append(event[m][n], "ENTER"), "JOIN")
  <2>1. CASE n \notin joined
    <3>1. event' = Sent(n, <<"ENTER">>, {m}) /\ "ENTER" \in Event /\ {m} \in SUBSET Node
      BY <2>1, Kinds DEF Connect
    <3>2. /\ Sent(n, <<"ENTER">>, {m}) \in [Node -> [Node -> Seq(Event)]]
          /\ \A k, l \in Node :
               /\ k \in {m} /\ l = n => Sent(n, <<"ENTER">>, {m})[k][l] = Append(event[k][l], "ENTER")
               /\ k \notin {m} \/ l # n => Sent(n, <<"ENTER">>, {m})[k][l] = event[k][l]
      BY <3>1, <1>1, SentOne, Zenon
    <3> QED
      BY <2>1, <3>1, <3>2
  <2>2. CASE n \in joined
    <3> DEFINE es == <<"ENTER", "JOIN">>
    <3>1. event' = Sent(n, es, {m}) /\ {m} \in SUBSET Node
      BY <2>2 DEF Connect
    <3>2. es \in Seq(Event) /\ Len(es) = 2 /\ es[1] = "ENTER" /\ es[2] = "JOIN"
      BY Kinds
    <3> HIDE DEF es
    <3>3. /\ Sent(n, es, {m}) \in [Node -> [Node -> Seq(Event)]]
          /\ \A k, l \in Node :
               /\ k \in {m} /\ l = n => Sent(n, es, {m})[k][l] = Append(Append(event[k][l], es[1]), es[2])
               /\ k \notin {m} \/ l # n => Sent(n, es, {m})[k][l] = event[k][l]
      BY <3>1, <3>2, <1>1, SentTwo
    <3> QED
      BY <2>2, <3>1, <3>2, <3>3
  <2> QED
    BY <2>1, <2>2
<1>5. Types'
  BY <1>1, <1>2, <1>3, <1>4
     DEF Types, NodesTyped, EventTyped, MonitorTyped, NoteTyped, ActorTyped, SpentTyped
<1>6. Books'
  <2> SUFFICES ASSUME NEW k \in Node PROVE BooksOf(k)'
    BY DEF Books
  <2>1. BooksOf(k)
    BY DEF Inv, Books
  <2>2. k \notin up => /\ link'[k] = link[k]
                       /\ \A l \in Node : event'[k][l] = <<>> /\ k \notin link'[l]
    <3>1. k \notin up => k # n /\ k # m /\ link'[k] = link[k]
      BY <1>1, <1>2 DEF NodesTyped
    <3>2. k \notin up => \A l \in Node : event[k][l] = <<>> /\ k \notin link[l]
      BY <2>1 DEF BooksOf
    <3>3. k \notin up => \A l \in Node : event'[k][l] = event[k][l]
      BY <3>1, <1>4
    <3>4. k \notin up => \A l \in Node : k \notin link'[l]
      BY <3>1, <3>2, <1>3
    <3> QED
      BY <3>1, <3>2, <3>3, <3>4
  <2> QED
    BY <2>1, <2>2, <1>2, <1>3 DEF BooksOf
<1>7. \A k, l \in Node : ToldOf(k, l)' <=> ToldOf(k, l)
  BY <1>2 DEF ToldOf, Believes
<1>8. \A k, l \in Node : (k # n \/ l # m) /\ (k # m \/ l # n) /\ There(k, l)' => There(k, l)
  BY <1>2, <1>3, <1>4 DEF There, Together, Pending
<1>9. ~There(n, m)'
  <2>1. CASE n \notin joined
    BY <2>1, <1>2 DEF There
  <2>2. CASE n \in joined
    <3>1. Append(event[m][n], "ENTER") \in Seq(Event) /\ "JOIN" \in Event
      BY <1>1, Kinds DEF EventTyped
    <3>2. Contains(Append(Append(event[m][n], "ENTER"), "JOIN"), "JOIN")
      BY <3>1, ContainsAppend
    <3>3. Pending(m, n, "JOIN")'
      BY <2>2, <3>2, <1>4 DEF Pending
    <3> QED
      BY <3>3 DEF There
  <2> QED
    BY <2>1, <2>2
<1>10. Streams'
  <2> SUFFICES ASSUME NEW k \in Node, NEW l \in Node, k \in up' PROVE StreamOf(k, l)'
    BY DEF Streams
  <2>1. StreamOf(k, l) /\ event[k][l] \in Seq(Event)
    BY <1>1, <1>2 DEF Inv, Streams, EventTyped
  <2>2. CASE k # m \/ l # n
    <3>1. There(k, l)' => There(k, l)
      BY <2>2, <1>8, <1>9
    <3> QED
      BY ZenonT(60), <2>1, <2>2, <3>1, <1>2, <1>3, <1>4, <1>7, StreamSame
  <2>3. CASE k = m /\ l = n /\ n \notin joined
    <3>1. n \in up /\ monitor[n].alive => actor[n].state = "off"
      BY <2>3, <1>1 DEF BooksOf
    <3>2. There(m, n)' => n \in up /\ monitor[n].alive /\ actor[n].state # "off"
      BY <1>2 DEF There, Together
    <3>3. ~There(m, n)'
      BY <3>1, <3>2
    <3>4. m \in up /\ event'[m][n] = Append(event[m][n], "ENTER") /\ "ENTER" \in Event
      BY <2>3, <1>2, <1>4, Kinds
    <3> QED
      BY <2>1, <2>3, <3>3, <3>4, <1>2, <1>3, <1>4, <1>7, Kinds, StreamSent
  <2>4. CASE k = m /\ l = n /\ n \in joined
    BY <2>1, <2>4, <1>2, <1>3, <1>4, <1>7, StreamSentTwo
  <2> QED
    BY <2>2, <2>3, <2>4
<1>11. Beliefs'
  <2> SUFFICES ASSUME NEW k \in Node, NEW l \in Node PROVE BeliefOf(k, l)'
    BY DEF Beliefs
  <2>1. BeliefOf(k, l)
    BY DEF Inv, Beliefs
  <2> QED
    BY <2>1, <1>2 DEF BeliefOf, Believes
<1> QED
  BY <1>5, <1>6, <1>10, <1>11 DEF Inv

LEMMA SplitKeeps ==
  ASSUME Inv, NEW n \in Node, NEW m \in Node, Split(n, m)
  PROVE  Inv'
<1>1. /\ NodesTyped /\ EventTyped /\ MonitorTyped /\ NoteTyped /\ ActorTyped /\ SpentTyped
      /\ BooksOf(n) /\ BooksOf(m)
  BY DEF Inv, Types, Books
<1>2. /\ m \in link[n] /\ n \in link[m]
      /\ link' = [link EXCEPT ![n] = @ \ {m}, ![m] = @ \ {n}]
      /\ event' = [event EXCEPT ![n][m] = Append(@, "EXIT"), ![m][n] = Append(@, "EXIT")]
      /\ UNCHANGED <<up, joined, monitor, note, hasApp, actor, cleaned>>
  BY DEF Split
<1>3. SpentTyped' /\ n # m /\ n \in up /\ m \in up
  BY <1>1, <1>2, Spends DEF Split, BooksOf
<1>4. /\ link' \in [Node -> SUBSET Node]
      /\ \A k, l \in Node : k \in link'[l] <=> /\ k \in link[l] /\ ~(l = n /\ k = m) /\ ~(l = m /\ k = n)
  BY <1>1, <1>2, <1>3 DEF NodesTyped
<1>5. /\ event' \in [Node -> [Node -> Seq(Event)]]
      /\ \A k, l \in Node : (k # n \/ l # m) /\ (k # m \/ l # n) => event'[k][l] = event[k][l]
      /\ event'[n][m] = Append(event[n][m], "EXIT") /\ event'[m][n] = Append(event[m][n], "EXIT")
  <2> DEFINE en == [event[n] EXCEPT ![m] = Append(event[n][m], "EXIT")]
             em == [event[m] EXCEPT ![n] = Append(event[m][n], "EXIT")]
  <2>1. "EXIT" \in Event
    BY Kinds
  <2>2. /\ en \in [Node -> Seq(Event)] /\ en[m] = Append(event[n][m], "EXIT")
        /\ \A l \in Node : l # m => en[l] = event[n][l]
    BY <2>1, <1>1 DEF EventTyped
  <2>3. /\ em \in [Node -> Seq(Event)] /\ em[n] = Append(event[m][n], "EXIT")
        /\ \A l \in Node : l # n => em[l] = event[m][l]
    BY <2>1, <1>1 DEF EventTyped
  <2>4. event' = [event EXCEPT ![n] = en, ![m] = em]
    BY <1>1, <1>2, <1>3 DEF EventTyped
  <2> HIDE DEF en, em
  <2>5. event'[n] = en /\ event'[m] = em /\ \A k \in Node \ {n, m} : event'[k] = event[k]
    BY <2>4, <1>1, <1>3 DEF EventTyped
  <2>6. event' \in [Node -> [Node -> Seq(Event)]]
    BY <2>2, <2>3, <2>4, <1>1 DEF EventTyped
  <2> QED
    BY <2>2, <2>3, <2>5, <2>6
<1>6. Types'
  BY <1>1, <1>2, <1>3, <1>4, <1>5
     DEF Types, NodesTyped, EventTyped, MonitorTyped, NoteTyped, ActorTyped
<1>7. Books'
  <2> SUFFICES ASSUME NEW k \in Node PROVE BooksOf(k)'
    BY DEF Books
  <2>1. BooksOf(k)
    BY DEF Inv, Books
  <2>2. k \notin up => /\ link'[k] = link[k]
                       /\ \A l \in Node : event'[k][l] = <<>> /\ k \notin link'[l]
    <3>1. k \notin up => k # n /\ k # m /\ link'[k] = link[k]
      BY <1>1, <1>2, <1>3 DEF NodesTyped
    <3>2. k \notin up => \A l \in Node : event[k][l] = <<>> /\ k \notin link[l]
      BY <2>1 DEF BooksOf
    <3>3. k \notin up => \A l \in Node : event'[k][l] = event[k][l]
      BY <3>1, <1>5
    <3>4. k \notin up => \A l \in Node : k \notin link'[l]
      BY <3>1, <3>2, <1>4
    <3> QED
      BY <3>1, <3>2, <3>3, <3>4
  <2> QED
    BY <2>1, <2>2, <1>2, <1>4 DEF BooksOf
<1>8. \A k, l \in Node : ToldOf(k, l)' <=> ToldOf(k, l)
  BY <1>2 DEF ToldOf, Believes
<1>9. \A k, l \in Node : There(k, l)' => There(k, l) /\ (k # n \/ l # m) /\ (k # m \/ l # n)
  BY <1>2, <1>4, <1>5 DEF There, Together, Pending
<1>10. Streams'
  <2> SUFFICES ASSUME NEW k \in Node, NEW l \in Node, k \in up' PROVE StreamOf(k, l)'
    BY DEF Streams
  <2>1. StreamOf(k, l) /\ event[k][l] \in Seq(Event)
    BY <1>1, <1>2 DEF Inv, Streams, EventTyped
  <2>2. CASE (k # n \/ l # m) /\ (k # m \/ l # n)
    BY <2>1, <2>2, <1>2, <1>4, <1>5, <1>8, <1>9, StreamSame
  <2>3. CASE k = n /\ l = m
    BY <2>1, <2>3, <1>2, <1>4, <1>5, <1>8, <1>9, Kinds, StreamSent
  <2>4. CASE k = m /\ l = n
    BY <2>1, <2>4, <1>2, <1>4, <1>5, <1>8, <1>9, Kinds, StreamSent
  <2> QED
    BY <2>2, <2>3, <2>4
<1>11. Beliefs'
  <2> SUFFICES ASSUME NEW k \in Node, NEW l \in Node PROVE BeliefOf(k, l)'
    BY DEF Beliefs
  <2>1. BeliefOf(k, l)
    BY DEF Inv, Beliefs
  <2> QED
    BY <2>1, <1>2 DEF BeliefOf, Believes
<1> QED
  BY <1>6, <1>7, <1>10, <1>11 DEF Inv

LEMMA GoneKeeps ==
  ASSUME Inv, NEW n \in Node, NEW es, Gone(n, es),
         es = <<>> \/ (es = <<"-">> /\ n \in joined)
  PROVE  Inv'
<1>1. NodesTyped /\ EventTyped /\ MonitorTyped /\ NoteTyped /\ ActorTyped /\ SpentTyped /\ BooksOf(n)
  BY DEF Inv, Types, Books
<1>2. /\ n \in up /\ up' = up \ {n} /\ joined' = joined \ {n} /\ hasApp' = hasApp \ {n}
      /\ link' = [m \in Node |-> IF m = n THEN {} ELSE link[m] \ {n}]
      /\ event' = [Sent(n, es \o <<"EXIT">>, link[n]) EXCEPT ![n] = [m \in Node |-> <<>>]]
      /\ note' = [note EXCEPT ![n] = <<>>]
      /\ actor' = [actor EXCEPT ![n] = Off]
      /\ UNCHANGED <<monitor, cleaned>>
  BY DEF Gone
<1>3. SpentTyped' /\ n \notin link[n] /\ link[n] \in SUBSET Node
  BY <1>1, Spends DEF Gone, BooksOf, NodesTyped
<1>4. /\ link' \in [Node -> SUBSET Node] /\ link'[n] = {}
      /\ \A k \in Node \ {n} : link'[k] = link[k] \ {n}
  BY <1>1, <1>2 DEF NodesTyped
<1>5. /\ event' \in [Node -> [Node -> Seq(Event)]]
      /\ \A l \in Node : event'[n][l] = <<>>
      /\ \A k, l \in Node : k # n /\ (k \notin link[n] \/ l # n) => event'[k][l] = event[k][l]
      /\ \A k \in Node : k # n /\ k \in link[n] =>
           \/ event'[k][n] = Append(event[k][n], "EXIT")
           \/ n \in joined /\ event'[k][n] = Append(Append(event[k][n], "-"), "EXIT")
  <2> DEFINE fs == es \o <<"EXIT">>
             ev == Sent(n, fs, link[n])
             none == [m \in Node |-> <<>>]
  <2>1. "EXIT" \in Event /\ "-" \in Event
    BY Kinds
  <2>2. none \in [Node -> Seq(Event)] /\ \A l \in Node : none[l] = <<>>
    OBVIOUS
  <2>3. event' = [ev EXCEPT ![n] = none]
    BY <1>2
  <2>4. /\ ev \in [Node -> [Node -> Seq(Event)]]
        /\ \A k, l \in Node : k \notin link[n] \/ l # n => ev[k][l] = event[k][l]
        /\ \A k \in Node : k \in link[n] =>
             \/ ev[k][n] = Append(event[k][n], "EXIT")
             \/ n \in joined /\ ev[k][n] = Append(Append(event[k][n], "-"), "EXIT")
    <3>1. CASE es = <<>>
      <4>1. ev = Sent(n, <<"EXIT">>, link[n])
        BY <3>1
      <4> HIDE DEF ev
      <4>2. /\ Sent(n, <<"EXIT">>, link[n]) \in [Node -> [Node -> Seq(Event)]]
            /\ \A k, l \in Node :
                 /\ k \in link[n] /\ l = n => Sent(n, <<"EXIT">>, link[n])[k][l] = Append(event[k][l], "EXIT")
                 /\ k \notin link[n] \/ l # n => Sent(n, <<"EXIT">>, link[n])[k][l] = event[k][l]
        BY <2>1, <1>1, <1>3, SentOne, Zenon
      <4> QED
        BY <4>1, <4>2
    <3>2. CASE es = <<"-">> /\ n \in joined
      <4>1. fs \in Seq(Event) /\ Len(fs) = 2 /\ fs[1] = "-" /\ fs[2] = "EXIT"
        BY <2>1, <3>2
      <4> HIDE DEF fs
      <4>2. /\ ev \in [Node -> [Node -> Seq(Event)]]
            /\ \A k, l \in Node :
                 /\ k \in link[n] /\ l = n => ev[k][l] = Append(Append(event[k][l], fs[1]), fs[2])
                 /\ k \notin link[n] \/ l # n => ev[k][l] = event[k][l]
        BY <4>1, <1>1, <1>3, SentTwo
      <4> QED
        BY <3>2, <4>1, <4>2
    <3> QED
      BY <3>1, <3>2
  <2> HIDE DEF ev, none
  <2>5. event' \in [Node -> [Node -> Seq(Event)]] /\ event'[n] = none /\ \A k \in Node \ {n} : event'[k] = ev[k]
    BY <2>2, <2>3, <2>4
  <2> QED
    BY <2>2, <2>4, <2>5
<1>6. /\ ActorTyped' /\ \A k \in Node \ {n} : actor'[k] = actor[k]
      /\ actor'[n] = Off /\ actor'[n].state = "off" /\ actor'[n].peers = {}
  BY <1>1, <1>2, OffIs
<1>7. NoteTyped' /\ note'[n] = <<>> /\ \A k \in Node \ {n} : note'[k] = note[k]
  <2>1. <<>> \in Seq(Note)
    OBVIOUS
  <2> QED
    BY <2>1, <1>1, <1>2 DEF NoteTyped
<1>8. Types'
  BY <1>1, <1>2, <1>3, <1>4, <1>5, <1>6, <1>7 DEF Types, NodesTyped, EventTyped, MonitorTyped
<1>9. Books'
  <2> SUFFICES ASSUME NEW k \in Node PROVE BooksOf(k)'
    BY DEF Books
  <2>1. BooksOf(k)
    BY DEF Inv, Books
  <2>2. k = n => \A l \in Node : event'[k][l] = <<>> /\ k \notin link'[l]
    BY <1>3, <1>4, <1>5
  <2>3. k \notin up => k # n /\ \A l \in Node : event'[k][l] = <<>> /\ k \notin link'[l]
    BY <2>1, <1>2, <1>4, <1>5 DEF BooksOf
  <2> QED
    BY <2>1, <2>2, <2>3, <1>2, <1>4, <1>6, <1>7 DEF BooksOf
<1>10. \A k, l \in Node : k # n => (Believes(k, l)' <=> Believes(k, l))
  BY <1>6, <1>7, BelievesSame
<1>11. \A k, l \in Node : k # n => (ToldOf(k, l)' <=> ToldOf(k, l))
  BY <1>2, <1>6, <1>10 DEF ToldOf
<1>12. \A k, l \in Node : k # n /\ There(k, l)' => l # n /\ There(k, l)
  BY <1>2, <1>4, <1>5, <1>6 DEF There, Together, Pending
<1>13. Streams'
  <2> SUFFICES ASSUME NEW k \in Node, NEW l \in Node, k \in up' PROVE StreamOf(k, l)'
    BY DEF Streams
  <2>1. StreamOf(k, l) /\ event[k][l] \in Seq(Event) /\ k # n
    BY <1>1, <1>2 DEF Inv, Streams, EventTyped
  <2>2. CASE l # n
    BY <2>1, <2>2, <1>2, <1>4, <1>5, <1>11, <1>12, StreamSame
  <2>3. CASE l = n /\ k \notin link[n]
    BY <2>1, <2>3, <1>2, <1>4, <1>5, <1>11, <1>12, StreamSame
  <2>4. CASE l = n /\ k \in link[n] /\ event'[k][n] = Append(event[k][n], "EXIT")
    BY <2>1, <2>4, <1>2, <1>4, <1>11, <1>12, Kinds, StreamSent
  <2>5. CASE l = n /\ k \in link[n] /\ n \in joined /\ event'[k][n] = Append(Append(event[k][n], "-"), "EXIT")
    BY <2>1, <2>5, <1>2, <1>4, <1>11, <1>12, StreamSentTwo
  <2> QED
    BY <2>1, <2>2, <2>3, <2>4, <2>5, <1>5
<1>14. Beliefs'
  <2> SUFFICES ASSUME NEW k \in Node, NEW l \in Node PROVE BeliefOf(k, l)'
    BY DEF Beliefs
  <2>1. BeliefOf(k, l)
    BY DEF Inv, Beliefs
  <2> QED
    BY <2>1, <1>2, <1>6, <1>10 DEF BeliefOf
<1> QED
  BY <1>8, <1>9, <1>13, <1>14 DEF Inv

LEMMA CrashKeeps ==
  ASSUME Inv, NEW n \in Node, Crash(n) \/ Stop(n)
  PROVE  Inv'
<1>1. BooksOf(n) /\ (Stop(n) => n \in up)
  BY DEF Inv, Books, Stop, Gone
<1>2. CASE Crash(n)
  BY <1>2, GoneKeeps DEF Crash
<1>3. CASE Stop(n) /\ monitor[n].known /\ monitor[n].actor
  <2>1. n \in joined /\ Gone(n, <<"-">>)
    BY <1>1, <1>3 DEF BooksOf, Stop
  <2> QED
    BY <2>1, GoneKeeps
<1>4. CASE Stop(n) /\ ~(monitor[n].known /\ monitor[n].actor)
  <2>1. Gone(n, <<>>)
    BY <1>4 DEF Stop
  <2> QED
    BY <2>1, GoneKeeps
<1> QED
  BY <1>2, <1>3, <1>4

--------------------------------------------------------------------------------
(* The invariant holds, and what follows from it *)

LEMMA InitKeeps == Init => Inv
<1> SUFFICES ASSUME Init PROVE Inv
  OBVIOUS
<1>1. /\ up = Node /\ joined = {} /\ hasApp = {} /\ cleaned = {}
      /\ \A n \in Node : /\ link[n] = {} /\ note[n] = <<>> /\ actor[n] = Off
                         /\ monitor[n].alive = TRUE /\ monitor[n].peers = {}
                         /\ monitor[n].known = FALSE /\ monitor[n].group = {}
                         /\ monitor[n].slot = FALSE /\ monitor[n].actor = FALSE
      /\ \A n, m \in Node : event[n][m] = <<>>
  BY DEF Init
<1>2. Off \in Actor /\ Off.state = "off" /\ Off.peerQueue = <<>> /\ Off.peers = {}
  <2>1. "off" \in Phase /\ <<>> \in Seq(Note) /\ {} \in SUBSET Node
    BY DEF Phase
  <2> QED
    BY <2>1 DEF Off, Actor
<1>3. Types
  <2>1. NodesTyped
    BY DEF Init, NodesTyped
  <2>2. EventTyped
    BY DEF Init, EventTyped
  <2>3. MonitorTyped
    BY DEF Init, MonitorTyped, Monitor
  <2>4. NoteTyped
    BY DEF Init, NoteTyped
  <2>5. ActorTyped
    BY <1>2 DEF Init, ActorTyped
  <2>6. SpentTyped
    BY FaultAssumption DEF Init, SpentTyped, FaultAssumption
  <2> QED
    BY <2>1, <2>2, <2>3, <2>4, <2>5, <2>6 DEF Types
<1>4. Books
  BY <1>1, <1>2 DEF Books, BooksOf
<1>5. Streams
  <2> SUFFICES ASSUME NEW n \in Node, NEW m \in Node PROVE StreamOf(n, m)
    BY DEF Streams
  <2> DEFINE p == m \in monitor[n].peers
             l == n \in link[m]
             g == m \in monitor[n].group
             r == n \in link[m] /\ m \in joined
             q == event[n][m]
  <2>1. p = FALSE /\ l = FALSE /\ q = <<>>
    BY <1>1
  <2>2. ~r /\ ~There(n, m)
    BY <1>1 DEF There
  <2> HIDE DEF p, l, g, r, q
  <2>3. Entered(q, p, l)
    <3>1. DOMAIN <<>> = {}
      OBVIOUS
    <3>2. Entered(<<>>, FALSE, FALSE)
      BY <3>1, OnBeforeEmpty DEF Entered
    <3> QED
      BY <2>1, <3>2
  <2>4. Grouped(q, g, r) /\ Announced(q, ToldOf(n, m), There(n, m))
    BY <2>1, <2>2 DEF Grouped, Announced
  <2> QED
    BY <2>3, <2>4 DEF StreamOf, p, l, g, r, q
<1>6. Beliefs
  BY <1>1, <1>2 DEF Beliefs, BeliefOf
<1> QED
  BY <1>3, <1>4, <1>5, <1>6 DEF Inv

LEMMA StutterKeeps ==
  ASSUME Inv, UNCHANGED vars
  PROVE  Inv'
<1>1. UNCHANGED <<up, joined, link, event, monitor, note, hasApp, actor, cleaned, spent>>
  BY DEF vars, fmVars
<1>2. Types'
  BY <1>1 DEF Inv, Types, NodesTyped, EventTyped, MonitorTyped, NoteTyped, ActorTyped, SpentTyped
<1>3. Books'
  BY <1>1 DEF Inv, Books, BooksOf
<1>4. \A n, m \in Node : /\ Believes(n, m)' = Believes(n, m) /\ ToldOf(n, m)' = ToldOf(n, m)
                         /\ There(n, m)' = There(n, m)
  BY <1>1 DEF Believes, ToldOf, There, Together, Pending
<1>5. Streams'
  BY <1>1, <1>4 DEF Inv, Streams, StreamOf
<1>6. Beliefs'
  BY <1>1, <1>4 DEF Inv, Beliefs, BeliefOf
<1> QED
  BY <1>2, <1>3, <1>5, <1>6 DEF Inv

LEMMA NextKeeps == Inv /\ [Next]_vars => Inv'
<1> SUFFICES ASSUME Inv, [Next]_vars PROVE Inv'
  OBVIOUS
<1>1. CASE ZyreNext
  BY <1>1, CrashKeeps, ConnectKeeps, SplitKeeps DEF ZyreNext
<1>2. CASE CommandNext
  BY <1>2, setupAppKeeps, cleanupAppKeeps, startActorKeeps, stopActorKeeps, restartActorKeeps
     DEF CommandNext
<1>3. CASE EventNext
  BY <1>3, EnterKeeps, JoinKeeps, LeaveKeeps, ExitKeeps, MessageKeeps DEF EventNext
<1>4. CASE PassNext
  BY <1>4, handleFMMonKeeps, handleActorRegKeeps DEF PassNext
<1>5. CASE UNCHANGED vars
  BY <1>5, StutterKeeps
<1> QED
  BY <1>1, <1>2, <1>3, <1>4, <1>5 DEF Next

LEMMA InvTypes == Inv => TypeOK
<1> SUFFICES ASSUME Inv PROVE TypeOK
  OBVIOUS
<1>1. NodesTyped /\ EventTyped /\ MonitorTyped /\ NoteTyped /\ ActorTyped /\ SpentTyped
  BY DEF Inv, Types
<1>2. ASSUME NEW n \in Node, NEW m \in Node, Running(n), event[n][m] # <<>>, ~Known(n, m)
      PROVE  Head(event[n][m]) = "ENTER"
  <2>1. StreamOf(n, m) /\ event[n][m] \in Seq(Event)
    BY <1>1, <1>2 DEF Inv, Streams, Running, EventTyped
  <2> QED
    BY <1>2, <2>1, StreamHead DEF Known
<1>3. monitor \in [Node -> [alive : BOOLEAN, peers : SUBSET Node, known : BOOLEAN,
                            group : SUBSET Node, slot : BOOLEAN, actor : BOOLEAN]]
  BY <1>1, Zenon DEF MonitorTyped, Monitor
<1>4. actor \in [Node -> [state : Phase, peerQueue : Seq(Note), peers : SUBSET Node,
                          blind : SUBSET Node]]
  BY <1>1, Zenon DEF ActorTyped, Actor
<1> QED
  BY <1>1, <1>2, <1>3, <1>4, Zenon DEF TypeOK, NodesTyped, EventTyped, NoteTyped, ActorTyped, SpentTyped

\* An actor that has no message on its way takes for peers those it has.
LEMMA BelievesQuiet ==
  ASSUME Inv, NEW n \in Node, NEW m \in Node, Quiet(n, m)
  PROVE  Believes(n, m) <=> m \in actor[n].peers
<1> DEFINE f == m \in actor[n].peers
<1>1. actor[n].peerQueue = <<>> /\ note[n] = <<>> /\ <<>> \o <<>> = <<>>
  BY DEF Inv, Types, ActorTyped, Quiet
<1>2. Believes(n, m) = PeerAfter(<<>>, f, m)
  BY <1>1 DEF Believes
<1>3. f \in BOOLEAN
  OBVIOUS
<1> HIDE DEF f
<1>4. PeerAfter(<<>>, f, m) <=> f
  BY <1>3, PeerAfterNone
<1> QED
  BY <1>2, <1>4 DEF f

LEMMA InvMeet == Inv => PeersMeet
<1> SUFFICES ASSUME Inv, NEW n \in Node, NEW m \in Node,
                    n \notin cleaned, monitor[m].alive, Together(n, m), Quiet(n, m),
                    actor[m].state # "off"
             PROVE  m \in actor[n].peers
  BY DEF PeersMeet
<1>1. BooksOf(n) /\ NodesTyped
  BY DEF Inv, Books, Types
<1>2. n \in up /\ n \in joined
  BY <1>1 DEF BooksOf, Together, Quiet
<1>3. ~Pending(m, n, "JOIN")
  BY DEF Quiet, Pending, Contains
<1>4. There(n, m)
  BY <1>2, <1>3 DEF There
<1>5. Announced(<<>>, ToldOf(n, m), There(n, m))
  BY <1>2 DEF Inv, Streams, StreamOf, Quiet
<1>6. ToldOf(n, m)
  <2>1. ToldOf(n, m) \in BOOLEAN
    BY DEF ToldOf
  <2> QED
    BY <1>4, <1>5, <2>1, OnBeforeEmpty DEF Announced
<1> QED
  BY <1>6, BelievesQuiet DEF ToldOf, Quiet

LEMMA InvLost == Inv => LostTold
<1> SUFFICES ASSUME Inv, NEW n \in Node, NEW m \in Node,
                    n \notin cleaned, Quiet(n, m), n \notin link[m], m \in actor[n].peers
             PROVE  m \in actor[n].blind
  BY DEF LostTold
<1>1. BooksOf(n) /\ BeliefOf(n, m)
  BY DEF Inv, Books, Beliefs
<1>2. n \in up
  BY <1>1 DEF BooksOf, Quiet, Off
<1>3. Entered(<<>>, m \in monitor[n].peers, n \in link[m])
  BY <1>2 DEF Inv, Streams, StreamOf, Quiet
<1>4. m \notin monitor[n].peers
  <2> DEFINE f == m \in monitor[n].peers
  <2>1. f \in BOOLEAN
    OBVIOUS
  <2> HIDE DEF f
  <2>2. OnBefore(Len(<<>>) + 1, <<>>, f, {"ENTER"}, {"EXIT"}) <=> f
    BY <2>1, OnBeforeEmpty
  <2> QED
    BY <2>2, <1>3 DEF Entered, f
<1> QED
  BY <1>1, <1>4, BelievesQuiet DEF BeliefOf, Quiet

\* In every reachable state the parts of the system agree: the books of the manager, the
\* monitor and Zyre (depm.py, fm.py), what a monitor will know of a peer once it has taken
\* the events that wait (fm.py run()), and whom the actor will take for a peer once it has
\* the messages that wait (depm.py peerQueue).
THEOREM MonitorInvariant == Spec => []IInv
<1>1. Inv => IInv
  BY InvTypes DEF Inv, Books, Streams, Beliefs, IInv
<1> QED
  BY <1>1, InitKeeps, NextKeeps, PTL DEF Spec

\* The variables have their types, messages wait in peerQueue only until the actor has
\* registered (depm.py handleActorReg), and nothing is heard of a node before it enters.
THEOREM MonitorTypes == Spec => []TypeOK
BY InitKeeps, NextKeeps, InvTypes, PTL DEF Spec

\* Two connected actors know of each other when nothing is on its way: the notes of
\* addActor, the answer to a JOIN and the messages kept for an actor that has not
\* registered (fm.py, depm.py handlePeerQueue) leave no gap, in whatever order the nodes
\* met, joined, and started, lost and restarted their actors.
THEOREM ActorsMeet == Spec => []PeersMeet
BY InitKeeps, NextKeeps, InvMeet, PTL DEF Spec

\* An actor is told that a node is lost (fm.py, EXIT), but for nodes that groups kept and
\* addActor spoke of again.
THEOREM LossIsTold == Spec => []LostTold
BY InitKeeps, NextKeeps, InvLost, PTL DEF Spec

\* The thread of the monitor raises no KeyError (fm.py run(), LEAVE; addActor) while the
\* application stays set up: a peer leaves only a group that it has been seen to join.
THEOREM MonitorLives == Spec => []MonitorRuns
<1>1. Inv => MonitorRuns
  BY DEF Inv, Books, BooksOf, MonitorRuns
<1> QED
  BY <1>1, InitKeeps, NextKeeps, PTL DEF Spec

================================================================================
