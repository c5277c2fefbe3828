---------------------------- MODULE DiscoveryProofs ----------------------------
(***************************************************************************)
(* Proofs about Discovery, for any nodes, actors, keys, homes and bounds.  *)
(***************************************************************************)
EXTENDS Discovery, TLAPS

\* Init gives every variable its type.
LEMMA InitType == Init => TypeOK
<1> USE DiscoveryAssumption
<1> QED BY DEF Init, TypeOK, Bounded

\* What dhtRemove() leaves behind.
LEMMA DhtRemoveType ==
  ASSUME NEW n \in Node, NEW P \in SUBSET Provider, TypeOK, DhtRemove(n, P)
  PROVE  /\ tomb' \in [Key -> SUBSET Actor]
         /\ deleted' \in [Node -> [Key -> Actor \cup {None}]]
         /\ notes' \in [Node -> SUBSET Note]
         /\ removed' \subseteq Provider
         /\ value' = value /\ former' = former
<1> DEFINE found == P \cap Published
<1>1. found \subseteq Provider
  BY DEF Published
<1>2. tomb' \in [Key -> SUBSET Actor]
  BY <1>1 DEF DhtRemove, TypeOK, Provider
<1>3. deleted' \in [Node -> [Key -> Actor \cup {None}]]
  <2>1. PICK last \in [{p[1] : p \in found} -> Actor] :
          deleted' = [deleted EXCEPT ![n] =
                        [k \in Key |-> IF k \in DOMAIN last THEN last[k] ELSE @[k]]]
    BY DEF DhtRemove
  <2>2. \A k \in DOMAIN last : last[k] \in Actor
    OBVIOUS
  <2>3. [k \in Key |-> IF k \in DOMAIN last THEN last[k] ELSE deleted[n][k]]
          \in [Key -> Actor \cup {None}]
    BY <2>2 DEF TypeOK
  <2> QED BY <2>1, <2>3 DEF TypeOK
<1>4. notes' \in [Node -> SUBSET Note]
  BY <1>1 DEF DhtRemove, Notify, Call, TypeOK, Note
<1> QED BY <1>1, <1>2, <1>3, <1>4 DEF DhtRemove, TypeOK

\* Calls of the DHT are notes.
LEMMA NotifyType ==
  ASSUME NEW P \in SUBSET Provider, NEW what \in {"put", "gone"}, TypeOK, Notify(P, what)
  PROVE  notes' \in [Node -> SUBSET Note]
BY DEF Notify, Call, TypeOK, Note

\* insert() keeps the types of the store.
LEMMA InsertType ==
  ASSUME NEW n \in Node, NEW p \in Provider, TypeOK, Insert(n, p)
  PROVE  /\ value' \in [Key -> SUBSET Actor] /\ tomb' = tomb /\ former' = former
         /\ notes' \in [Node -> SUBSET Note] /\ removed' \subseteq Provider
         /\ backup' \in [Node -> SUBSET Provider]
         /\ republish' \in [Node -> SUBSET Provider]
         /\ go' \in [Node -> BOOLEAN]
<1>1. CASE p \in Published
  BY <1>1 DEF Insert, TypeOK, repVars, dhtVars
<1>2. CASE p \notin Published
  <2>1. notes' \in [Node -> SUBSET Note]
    BY <1>2, NotifyType DEF Insert
  <2>2. value' \in [Key -> SUBSET Actor]
    <3>1. p[1] \in Key /\ p[2] \in Actor
      BY DEF Provider
    <3>2. value' = [value EXCEPT ![p[1]] = value[p[1]] \cup {p[2]}]
      BY <1>2 DEF Insert
    <3> QED BY <3>1, <3>2 DEF TypeOK
  <2>3. /\ backup' = [backup EXCEPT ![n] = backup[n] \cup {p}]
        /\ republish' = [republish EXCEPT ![n] = republish[n] \cup {p}]
        /\ go' = [go EXCEPT ![n] = TRUE]
        /\ removed' = removed \ {p}
        /\ tomb' = tomb /\ former' = former
    BY <1>2 DEF Insert
  <2> QED BY <2>1, <2>2, <2>3 DEF TypeOK
<1> QED BY <1>1, <1>2

\* remove() keeps the types of the store.
LEMMA RemoveType ==
  ASSUME NEW n \in Node, NEW P \in SUBSET Provider, TypeOK, Remove(n, P)
  PROVE  /\ republish' \in [Node -> SUBSET Provider]
         /\ backup' \in [Node -> SUBSET Provider]
         /\ go' = go
         /\ DhtRemove(n, P)
BY DEF Remove, TypeOK, Forget

\* handleUpdate() keeps the types of what it writes.
LEMMA HandleUpdatesType ==
  ASSUME NEW n \in Node, NEW S \in SUBSET Provider, TypeOK, HandleUpdates(n, S)
  PROVE  /\ told' \in [Actor -> [Key -> SUBSET Actor]]
         /\ up' \in [Node -> {"up", "hung", "down"}]
<1>1. ASSUME NEW T, Tell(T)
      PROVE  told' \in [Actor -> [Key -> SUBSET Actor]]
  <2>1. \A k \in Key : \A x \in Provider : x[2] \in Actor
    BY DEF Provider
  <2>2. ASSUME NEW a \in Actor, NEW k \in Key
        PROVE  told[a][k] \cup {p[2] : p \in {x \in Provider : x[1] = k /\ <<a, x>> \in T}}
                 \in SUBSET Actor
    <3> DEFINE R == {x \in Provider : x[1] = k /\ <<a, x>> \in T}
    <3>1. R \subseteq Provider
      OBVIOUS
    <3> HIDE DEF R
    <3>2. {p[2] : p \in R} \subseteq Actor
      BY <2>1, <3>1
    <3>3. told[a][k] \subseteq Actor
      BY DEF TypeOK
    <3> QED BY <3>2, <3>3 DEF R
  <2> QED BY <1>1, <2>2 DEF Tell
<1> QED BY <1>1 DEF HandleUpdates, TypeOK

\* unsetupClient() keeps the types.
LEMMA UnsetupType ==
  ASSUME NEW a \in Actor, TypeOK, UnsetupClient(a)
  PROVE  /\ joined' \subseteq Actor
         /\ up' \in [Node -> {"up", "hung", "down"}]
         /\ registrations' \in [Actor -> SUBSET Key]
         /\ enrollments' \in [Actor -> SUBSET Key]
         /\ clients' \in [Node -> [Key -> SUBSET Actor]]
         /\ listening' \in [Node -> SUBSET Key]
         /\ UNCHANGED <<updates, workerVars>>
         /\ \E P \in SUBSET Provider : Remove(Home[a], P)
<1> DEFINE n == Home[a]
           P == registrations[a] \X {a}
<1>1. n \in Node /\ P \in SUBSET Provider
  BY DiscoveryAssumption DEF TypeOK, Provider
<1> HIDE DEF n, P
<1>2. CASE Clash(n, P)
  <2>1. /\ joined' = joined \ {a}
        /\ \E Q \in SUBSET (P \ {firing[n]}) : Remove(n, Q)
        /\ up' = [up EXCEPT ![n] = "hung"]
        /\ UNCHANGED <<registrations, enrollments, clients, listening, updates, workerVars>>
    BY <1>2 DEF UnsetupClient, n, P
  <2>2. \E Q \in SUBSET Provider : Remove(n, Q)
    BY <1>1, <2>1
  <2> QED BY <1>1, <2>1, <2>2 DEF TypeOK, n
<1>3. CASE ~Clash(n, P)
  <2>1. /\ joined' = joined \ {a}
        /\ Remove(n, P)
        /\ DelClient(n, enrollments[a], a)
        /\ registrations' = [registrations EXCEPT ![a] = {}]
        /\ enrollments' = [enrollments EXCEPT ![a] = {}]
        /\ UNCHANGED <<up, updates, workerVars>>
    BY <1>3 DEF UnsetupClient, n, P
  <2>2. /\ clients' \in [Node -> [Key -> SUBSET Actor]]
        /\ listening' \in [Node -> SUBSET Key]
    BY <1>1, <2>1 DEF DelClient, TypeOK
  <2> QED BY <1>1, <2>1, <2>2 DEF TypeOK, n
<1> QED BY <1>2, <1>3

\* Every step keeps the types.
LEMMA NextType == TypeOK /\ [Next]_vars => TypeOK'
<1> SUFFICES ASSUME TypeOK, [Next]_vars PROVE TypeOK'
  OBVIOUS
<1> USE DiscoveryAssumption
<1>1. CASE UNCHANGED vars
  BY <1>1 DEF TypeOK, vars, actorVars, serviceVars, listenVars, workerVars, repVars, dhtVars
<1>2. ASSUME NEW a \in Actor,
             RegisterActor(a) \/ Reinstate(a) \/ RpcBlocks(a) \/ Die(a)
      PROVE  TypeOK'
  <2>1. CASE RegisterActor(a)
    BY <2>1 DEF registerActor, RegisterActor, SetupClient, TypeOK, listenVars, workerVars, repVars, dhtVars
  <2>2. CASE Reinstate(a)
    BY <2>2 DEF registerActor, Reinstate, SetupClient, TypeOK, listenVars, workerVars, repVars, dhtVars
  <2>3. CASE RpcBlocks(a)
    BY <2>3 DEF RpcBlocks, TypeOK, serviceVars, listenVars, workerVars, repVars, dhtVars
  <2>4. CASE Die(a)
    BY <2>4 DEF Die, Spend, Bounded, TypeOK, serviceVars, listenVars, workerVars, repVars, dhtVars
  <2> QED BY <1>2, <2>1, <2>2, <2>3, <2>4
<1>3. ASSUME NEW a \in Actor, NEW P \in SUBSET Provider, Remove(Home[a], P)
      PROVE  /\ republish' \in [Node -> SUBSET Provider]
             /\ backup' \in [Node -> SUBSET Provider]
             /\ go' \in [Node -> BOOLEAN]
             /\ tomb' \in [Key -> SUBSET Actor]
             /\ deleted' \in [Node -> [Key -> Actor \cup {None}]]
             /\ notes' \in [Node -> SUBSET Note]
             /\ removed' \subseteq Provider
             /\ value' \in [Key -> SUBSET Actor]
             /\ former' \subseteq Provider
  <2>1. Home[a] \in Node
    OBVIOUS
  <2> QED BY <1>3, <2>1, RemoveType, DhtRemoveType DEF TypeOK
<1>4. ASSUME NEW a \in Actor, Terminate(a) \/ Unregister(a) PROVE TypeOK'
  <2>1. CASE a \in joined
    <3>1. UnsetupClient(a)
      BY <1>4, <2>1 DEF Terminate, Unregister, HandleActorUnreg
    <3>2. PICK P \in SUBSET Provider : Remove(Home[a], P)
      BY <3>1, UnsetupType
    <3>3. /\ life' = [life EXCEPT ![a] = "gone"]
          /\ spent' = spent \/ spent' = [spent EXCEPT !["stop"] = spent["stop"] + 1]
          /\ UNCHANGED <<toServe, toLookup, told>>
      BY <1>4 DEF Terminate, Unregister, Spend
    <3>4. UNCHANGED <<updates, worker, firing>>
      BY <3>1, UnsetupType DEF workerVars
    <3>5. /\ life' \in [Actor -> {"off", "on", "blocked", "dead", "gone"}]
          /\ spent' \in [Bounded -> Nat]
      BY <3>3 DEF TypeOK, Bounded
    <3> QED BY <1>3, <3>1, <3>2, <3>3, <3>4, <3>5, UnsetupType DEF TypeOK
  <2>2. CASE a \notin joined
    <3>1. /\ life' = [life EXCEPT ![a] = "gone"]
          /\ spent' = spent \/ spent' = [spent EXCEPT !["stop"] = spent["stop"] + 1]
          /\ UNCHANGED <<toServe, toLookup, told>>
          /\ UNCHANGED <<serviceVars, listenVars, workerVars, repVars, dhtVars>>
      BY <1>4, <2>2 DEF Terminate, Unregister, HandleActorUnreg, Spend
    <3>2. /\ life' \in [Actor -> {"off", "on", "blocked", "dead", "gone"}]
          /\ spent' \in [Bounded -> Nat]
      BY <3>1 DEF TypeOK, Bounded
    <3> QED BY <3>1, <3>2 DEF TypeOK, serviceVars, listenVars, workerVars, repVars, dhtVars
  <2> QED BY <2>1, <2>2
<1>6. ASSUME NEW a \in Actor, NEW k \in Key, RegisterService(a, k) PROVE TypeOK'
  <2>1. Home[a] \in Node /\ <<k, a>> \in Provider
    BY DEF Provider
  <2>2. Insert(Home[a], <<k, a>>)
    BY <1>6 DEF handleRegReq, RegisterService
  <2>3. /\ told' \in [Actor -> [Key -> SUBSET Actor]]
        /\ up' \in [Node -> {"up", "hung", "down"}]
        /\ registrations' \in [Actor -> SUBSET Key]
        /\ life' \in [Actor -> {"off", "on", "blocked", "dead", "gone"}]
    <3>1. CASE a \in joined
      <4>1. /\ registrations' = [registrations EXCEPT ![a] = registrations[a] \cup {k}]
            /\ HandleUpdates(Home[a], {<<k, a>>} \ Published)
            /\ UNCHANGED life
        BY <1>6, <3>1 DEF handleRegReq, RegisterService
      <4>2. {<<k, a>>} \ Published \in SUBSET Provider
        BY <2>1
      <4>3. /\ told' \in [Actor -> [Key -> SUBSET Actor]]
            /\ up' \in [Node -> {"up", "hung", "down"}]
        BY <2>1, <4>1, <4>2, HandleUpdatesType
      <4> QED BY <4>1, <4>3 DEF TypeOK
    <3>2. CASE a \notin joined
      BY <1>6, <2>1, <3>2 DEF handleRegReq, RegisterService, TypeOK
    <3> QED BY <3>1, <3>2
  <2> QED BY <1>6, <2>1, <2>2, <2>3, InsertType
          DEF handleRegReq, RegisterService, TypeOK, listenVars, workerVars
<1>7. ASSUME NEW a \in Actor, NEW k \in Key, Lookup(a, k) PROVE TypeOK'
  <2>1. Home[a] \in Node
    OBVIOUS
  <2>2. AddClient(Home[a], k, a)
    BY <1>7 DEF handleLookupReq, Lookup
  <2>3. notes' \in [Node -> SUBSET Note]
    <3> DEFINE put == {[of |-> p, what |-> "put"] : p \in {x \in Published : x[1] = k}}
               gone == {[of |-> p, what |-> "gone"] : p \in {x \in Hidden : x[1] = k}}
    <3>1. put \subseteq Note /\ gone \subseteq Note
      BY DEF Published, Hidden, Note
    <3>2. \/ notes' = notes
          \/ notes' = [notes EXCEPT ![Home[a]] = notes[Home[a]] \cup put \cup gone]
      BY <2>2 DEF AddClient
    <3>3. notes \in [Node -> SUBSET Note]
      BY DEF TypeOK
    <3> HIDE DEF put, gone
    <3> QED BY <2>1, <3>1, <3>2, <3>3
  <2>4. /\ clients' \in [Node -> [Key -> SUBSET Actor]]
        /\ listening' \in [Node -> SUBSET Key]
        /\ UNCHANGED <<updates, deleted>>
    BY <2>1, <2>2 DEF AddClient, TypeOK
  <2>5. /\ told' \in [Actor -> [Key -> SUBSET Actor]]
        /\ up' \in [Node -> {"up", "hung", "down"}]
        /\ enrollments' \in [Actor -> SUBSET Key]
        /\ life' \in [Actor -> {"off", "on", "blocked", "dead", "gone"}]
    <3>1. Found(k) \subseteq Actor
      BY DEF Found, TypeOK
    <3>2. CASE a \in joined
      <4>1. /\ told' = [told EXCEPT ![a] = [told[a] EXCEPT ![k] = told[a][k] \cup Found(k)]]
            /\ enrollments' = [enrollments EXCEPT ![a] = enrollments[a] \cup {k}]
            /\ UNCHANGED <<life, up>>
        BY <1>7, <3>2 DEF handleLookupReq, Lookup
      <4> QED BY <3>1, <4>1 DEF TypeOK
    <3>3. CASE a \notin joined
      BY <1>7, <2>1, <3>3 DEF handleLookupReq, Lookup, TypeOK
    <3> QED BY <3>2, <3>3
  <2> QED BY <1>7, <2>3, <2>4, <2>5 DEF handleLookupReq, Lookup, TypeOK, workerVars, repVars
<1>8. ASSUME NEW a \in Actor, NEW k \in Key, UnregisterService(a, k) PROVE TypeOK'
  <2>1. Home[a] \in Node /\ {<<k, a>>} \in SUBSET Provider
    BY DEF Provider
  <2>2. CASE Clash(Home[a], {<<k, a>>})
    <3>1. /\ up' = [up EXCEPT ![Home[a]] = "hung"]
          /\ spent' = [spent EXCEPT !["stop"] = spent["stop"] + 1]
          /\ UNCHANGED <<registrations, deleted, repVars, dhtVars>>
          /\ UNCHANGED <<actorVars, joined, enrollments, clients, listening, updates, workerVars>>
      BY <1>8, <2>2 DEF handleUnregReq, UnregisterService, Spend
    <3> QED BY <2>1, <3>1 DEF TypeOK, Bounded, actorVars, workerVars, repVars, dhtVars
  <2>3. CASE ~Clash(Home[a], {<<k, a>>})
    <3>1. Remove(Home[a], {<<k, a>>})
      BY <1>8, <2>3 DEF handleUnregReq, UnregisterService
    <3>2. /\ registrations' = [registrations EXCEPT ![a] = registrations[a] \ {k}]
          /\ spent' = [spent EXCEPT !["stop"] = spent["stop"] + 1]
          /\ UNCHANGED <<up, actorVars, joined, enrollments, clients, listening, updates,
                         workerVars>>
      BY <1>8, <2>3 DEF handleUnregReq, UnregisterService, Spend
    <3>3. registrations' \in [Actor -> SUBSET Key] /\ spent' \in [Bounded -> Nat]
      BY <3>2 DEF TypeOK, Bounded
    <3> QED BY <1>3, <2>1, <3>1, <3>2, <3>3 DEF TypeOK, actorVars, workerVars
  <2> QED BY <2>2, <2>3
<1>9. ASSUME NEW a \in Actor, NEW k \in Key, Unlookup(a, k) PROVE TypeOK'
  BY <1>9 DEF handleUnlookupReq, Unlookup, DelClient, TypeOK, Spend, Bounded, actorVars, workerVars, repVars, dhtVars
<1>10. ASSUME NEW n \in Node, FetchUpdates(n) PROVE TypeOK'
  <2>1. updates[n] \in SUBSET Provider
    BY DEF TypeOK
  <2> QED BY <1>10, <2>1, HandleUpdatesType DEF FetchUpdates, TypeOK, workerVars, repVars, dhtVars
<1>11. ASSUME NEW n \in Node, Wake(n) \/ Drain(n) \/ Clear(n) PROVE TypeOK'
  <2>1. CASE Wake(n)
    BY <2>1 DEF Wake, TypeOK, actorVars, serviceVars, listenVars, repVars, dhtVars
  <2>2. CASE Drain(n)
    BY <2>2 DEF Drain, TypeOK, actorVars, serviceVars, listenVars, repVars, dhtVars
  <2>3. CASE Clear(n)
    BY <2>3 DEF Clear, TypeOK, actorVars, serviceVars, listenVars, dhtVars
  <2> QED BY <1>11, <2>1, <2>2, <2>3
<1>12. ASSUME NEW n \in Node, DhtRepublish(n) PROVE TypeOK'
  <2>1. firing[n] \in Provider
    BY <1>12 DEF DhtRepublish, TypeOK
  <2>2. firing[n][1] \in Key /\ firing[n][2] \in Actor
    BY <2>1 DEF Provider
  <2>3. CASE firing[n] \in republish[n]
    <3>1. notes' \in [Node -> SUBSET Note]
      BY <1>12, <2>1, <2>3, NotifyType DEF DhtRepublish
    <3>2. /\ value' = [value EXCEPT ![firing[n][1]] = value[firing[n][1]] \cup {firing[n][2]}]
          /\ former' \subseteq former \cup {firing[n]}
          /\ removed' \subseteq removed
          /\ firing' = [firing EXCEPT ![n] = None]
      BY <1>12, <2>3 DEF DhtRepublish
    <3>3. /\ value' \in [Key -> SUBSET Actor] /\ former' \subseteq Provider
          /\ removed' \subseteq Provider /\ firing' \in [Node -> Provider \cup {None}]
      BY <2>1, <2>2, <3>2 DEF TypeOK
    <3>4. UNCHANGED <<actorVars, serviceVars, listenVars, worker, repVars, tomb, spent>>
      BY <1>12 DEF DhtRepublish
    <3> QED BY <3>1, <3>3, <3>4 DEF TypeOK, actorVars, serviceVars, listenVars, repVars
  <2>4. CASE firing[n] \notin republish[n]
    BY <1>12, <2>1, <2>4 DEF DhtRepublish, TypeOK, actorVars, serviceVars, listenVars, repVars
  <2> QED BY <2>3, <2>4
<1>13. ASSUME NEW n \in Node, CrashService(n) PROVE TypeOK'
  BY <1>13 DEF CrashService, TypeOK, Spend, Bounded, actorVars
<1>14. ASSUME NEW n \in Node, RestartService(n) PROVE TypeOK'
  <2>1. backup[n] \in SUBSET Provider
    BY DEF TypeOK
  <2>2. CASE DhtRemove(n, backup[n])
    BY <1>14, <2>1, <2>2, DhtRemoveType DEF RestartService, TypeOK, actorVars, workerVars
  <2>3. CASE UNCHANGED <<deleted, dhtVars>>
    BY <1>14, <2>3 DEF RestartService, TypeOK, actorVars, workerVars, dhtVars
  <2> QED BY <1>14, <2>2, <2>3 DEF RestartService
<1>15. ASSUME NEW n \in Node, NEW note \in notes[n], DhtValueCallback(n, note) PROVE TypeOK'
  <2>1. note \in Note
    BY DEF TypeOK
  <2>2. note.of \in Provider /\ note.of[1] \in Key /\ note.of[2] \in Actor
    BY <2>1 DEF Note, Provider
  <2>3. notes' \in [Node -> SUBSET Note]
    BY <1>15 DEF DhtValueCallback, TypeOK
  <2>4. updates' \in [Node -> SUBSET Provider] /\ deleted' \in [Node -> [Key -> Actor \cup {None}]]
    <3>1. CASE note.what = "put"
      <4>1. /\ updates' = [updates EXCEPT ![n] = IF Heeded(n, note.of) THEN updates[n] \cup {note.of}
                                                 ELSE updates[n]]
            /\ deleted' = deleted
        BY <1>15, <3>1 DEF DhtValueCallback
      <4> QED BY <2>2, <4>1 DEF TypeOK
    <3>2. CASE note.what = "gone"
      <4>1. /\ updates' = [updates EXCEPT ![n] =
                             {q \in updates[n] : q[1] # note.of[1] /\ q[2] # note.of[2]}]
            /\ deleted' = [deleted EXCEPT ![n] = [deleted[n] EXCEPT ![note.of[1]] = note.of[2]]]
        BY <1>15, <3>2 DEF DhtValueCallback
      <4> QED BY <2>2, <4>1 DEF TypeOK
    <3> QED BY <1>15, <3>1, <3>2 DEF DhtValueCallback
  <2>5. UNCHANGED <<actorVars, serviceVars, clients, listening, workerVars, repVars, value,
                    tomb, former, removed, spent>>
    BY <1>15 DEF DhtValueCallback
  <2> QED BY <2>3, <2>4, <2>5 DEF TypeOK, actorVars, serviceVars, workerVars, repVars
<1>16. ASSUME NEW p \in Provider, Fire(Home[p[2]], p) PROVE TypeOK'
  BY <1>16 DEF Fire, TypeOK, actorVars, serviceVars, listenVars, repVars, dhtVars
<1>17. ASSUME NEW p \in Provider, ExpireFormer(p) \/ ExpireValue(p) \/ ExpireTomb(p) PROVE TypeOK'
  <2>1. notes' \in [Node -> SUBSET Note]
    BY <1>17, NotifyType DEF ExpireFormer, ExpireValue, ExpireTomb
  <2>2. p[1] \in Key /\ p[2] \in Actor
    BY DEF Provider
  <2>3. /\ value' \in [Key -> SUBSET Actor] /\ tomb' \in [Key -> SUBSET Actor]
        /\ former' \subseteq Provider
    <3>1. CASE ExpireFormer(p)
      BY <3>1 DEF ExpireFormer, TypeOK
    <3>2. CASE ExpireValue(p)
      BY <2>2, <3>2 DEF ExpireValue, TypeOK
    <3>3. CASE ExpireTomb(p)
      BY <2>2, <3>3 DEF ExpireTomb, TypeOK
    <3> QED BY <1>17, <3>1, <3>2, <3>3
  <2>4. UNCHANGED <<actorVars, serviceVars, listenVars, workerVars, repVars, removed, spent>>
    BY <1>17 DEF ExpireFormer, ExpireValue, ExpireTomb
  <2> QED BY <2>1, <2>3, <2>4
          DEF TypeOK, actorVars, serviceVars, listenVars, workerVars, repVars
<1> QED BY <1>1, <1>2, <1>4, <1>6, <1>7, <1>8, <1>9, <1>10, <1>11, <1>12, <1>13, <1>14,
           <1>15, <1>16, <1>17 DEF registerEndpoint, unregisterGroup, Next

\* A step that leaves the store alone, and takes no service down, keeps HiddenInv.
LEMMA FrameHidden ==
  ASSUME HiddenInv, TypeOK',
         UNCHANGED <<republish, backup, value, tomb, removed>>,
         \A n \in Node : up'[n] = "down" => up[n] = "down" /\ firing'[n] = firing[n]
  PROVE  HiddenInv'
BY DEF HiddenInv, RemovedHidden, Published, Hidden

\* dhtRemove() of what is no longer republished keeps HiddenInv.
LEMMA DhtRemoveHidden ==
  ASSUME HiddenInv, TypeOK', NEW n \in Node, NEW P \in SUBSET Provider, DhtRemove(n, P),
         \A p \in P : Home[p[2]] = n,
         republish'[n] \cap P = {},
         \A m \in Node :
           /\ republish'[m] \subseteq republish[m]
           /\ backup'[m] \subseteq backup[m]
           /\ up'[m] = "down" => up[m] = "down" /\ firing'[m] = firing[m]
  PROVE  HiddenInv'
<1> DEFINE found == P \cap Published
<1>1. Published' = Published
  BY DEF Published, DhtRemove
<1>2. removed' = removed \cup found
  BY DEF DhtRemove
<1>3. Hidden' = Hidden \cup found
  <2>1. \A k \in Key : tomb'[k] = tomb[k] \cup {p[2] : p \in {x \in found : x[1] = k}}
    BY DEF DhtRemove
  <2>2. ASSUME NEW p \in Provider
        PROVE  p[2] \in {q[2] : q \in {x \in found : x[1] = p[1]}} <=> p \in found
    BY DEF Provider, Published
  <2>3. \A p \in Provider : p[1] \in Key
    BY DEF Provider
  <2>4. found \subseteq Provider
    BY DEF Published
  <2> HIDE DEF found
  <2>5. \A p \in Provider : p[2] \in tomb'[p[1]] <=> p[2] \in tomb[p[1]] \/ p \in found
    BY <2>1, <2>2, <2>3
  <2> QED BY <2>4, <2>5 DEF Hidden
<1>4. RemovedHidden'
  BY <1>1, <1>2, <1>3 DEF RemovedHidden, HiddenInv
<1>5. ASSUME NEW m \in Node
      PROVE  republish'[m] \cap removed' \cap Published' = {}
  <2>1. republish'[m] \cap found = {}
    <3>1. CASE m = n
      BY <3>1
    <3>2. CASE m # n
      BY <3>2 DEF HiddenInv
    <3> QED BY <3>1, <3>2
  <2> QED BY <1>1, <1>2, <2>1 DEF HiddenInv
<1>6. \A m \in Node : \A p \in republish'[m] \cup backup'[m] : Home[p[2]] = m
  BY DEF HiddenInv
<1>7. \A m \in Node : up'[m] = "down" => republish'[m] = {} /\ firing'[m] = None
  BY DEF HiddenInv
<1> QED BY <1>4, <1>5, <1>6, <1>7 DEF HiddenInv

\* remove() keeps HiddenInv: it takes the entries from the republisher first.
LEMMA RemoveHidden ==
  ASSUME HiddenInv, TypeOK', NEW n \in Node, NEW P \in SUBSET Provider, Remove(n, P),
         \A p \in P : Home[p[2]] = n,
         \A m \in Node : up'[m] = "down" => up[m] = "down", firing' = firing
  PROVE  HiddenInv'
<1>1. /\ republish' = [republish EXCEPT ![n] = republish[n] \ P]
      /\ backup' = [backup EXCEPT ![n] = Forget(n, P)]
      /\ DhtRemove(n, P)
  BY DEF Remove
<1>2. /\ republish \in [Node -> SUBSET Provider]
      /\ backup \in [Node -> SUBSET Provider]
  BY DEF HiddenInv, TypeOK
<1>3. republish'[n] \cap P = {}
  BY <1>1, <1>2
<1>4. ASSUME NEW m \in Node
      PROVE  republish'[m] \subseteq republish[m] /\ backup'[m] \subseteq backup[m]
  BY <1>1, <1>2 DEF Forget
<1> QED BY <1>1, <1>3, <1>4, DhtRemoveHidden

\* A provider that is put keeps HiddenInv.
LEMMA PutHidden ==
  ASSUME HiddenInv, TypeOK', NEW n \in Node, NEW p \in Provider, Home[p[2]] = n,
         up[n] # "down", p \notin Published,
         value' = [value EXCEPT ![p[1]] = @ \cup {p[2]}], tomb' = tomb,
         removed' = removed \ {p},
         \A m \in Node :
           /\ republish'[m] \cup backup'[m] \subseteq
                republish[m] \cup backup[m] \cup (IF m = n THEN {p} ELSE {})
           /\ republish'[m] \subseteq republish[m] \cup (IF m = n THEN {p} ELSE {})
           /\ up'[m] = "down" => up[m] = "down" /\ firing'[m] = firing[m]
  PROVE  HiddenInv'
<1>1. p[1] \in Key /\ p[2] \in Actor
  BY DEF Provider
<1>2. Published' \subseteq Published \cup {p}
  <2>1. value \in [Key -> SUBSET Actor]
    BY DEF HiddenInv, TypeOK
  <2>2. ASSUME NEW q \in Provider, q[2] \in value'[q[1]]
        PROVE  q[2] \in value[q[1]] \/ q = p
    <3>1. q = <<q[1], q[2]>> /\ p = <<p[1], p[2]>> /\ q[1] \in Key
      BY DEF Provider
    <3>2. CASE q[1] = p[1]
      <4>1. value'[q[1]] = value[q[1]] \cup {p[2]}
        BY <1>1, <2>1, <3>2
      <4>2. CASE q[2] = p[2]
        BY <3>1, <3>2, <4>2
      <4> QED BY <2>2, <4>1, <4>2
    <3>3. CASE q[1] # p[1]
      BY <1>1, <2>1, <2>2, <3>1, <3>3
    <3> QED BY <3>2, <3>3
  <2> QED BY <2>2 DEF Published
<1>3. Hidden' = Hidden
  BY DEF Hidden
<1>4. RemovedHidden'
  BY <1>2, <1>3 DEF RemovedHidden, HiddenInv
<1>5. ASSUME NEW m \in Node
      PROVE  republish'[m] \cap removed' \cap Published' = {}
  BY <1>2 DEF HiddenInv
<1>6. \A m \in Node : \A q \in republish'[m] \cup backup'[m] : Home[q[2]] = m
  BY DEF HiddenInv
<1>7. \A m \in Node : up'[m] = "down" => republish'[m] = {} /\ firing'[m] = None
  BY DEF HiddenInv
<1> QED BY <1>4, <1>5, <1>6, <1>7 DEF HiddenInv

\* Initially nothing is registered, republished or removed.
LEMMA InitHidden == Init => HiddenInv
<1> SUFFICES ASSUME Init PROVE HiddenInv
  OBVIOUS
<1>1. TypeOK
  BY InitType
<1> QED BY <1>1 DEF Init, HiddenInv, RemovedHidden

\* Every step keeps HiddenInv.
LEMMA NextHidden == HiddenInv /\ [Next]_vars => HiddenInv'
<1> SUFFICES ASSUME HiddenInv, [Next]_vars PROVE HiddenInv'
  OBVIOUS
<1> USE DiscoveryAssumption
<1>1. TypeOK /\ TypeOK'
  BY NextType DEF HiddenInv
<1>2. CASE UNCHANGED vars
  BY <1>1, <1>2, FrameHidden DEF vars, serviceVars, workerVars, repVars, dhtVars
<1>3. ASSUME NEW a \in Actor,
             RegisterActor(a) \/ Reinstate(a) \/ RpcBlocks(a) \/ Die(a)
      PROVE  HiddenInv'
  <2>1. UNCHANGED <<republish, backup, value, tomb, removed, up, firing>>
    BY <1>3 DEF registerActor, RegisterActor, Reinstate, SetupClient, RpcBlocks, Die, serviceVars, workerVars,
                repVars, dhtVars
  <2> QED BY <1>1, <2>1, FrameHidden
<1>4. ASSUME NEW a \in Actor, UnsetupClient(a)
      PROVE  HiddenInv'
  <2> DEFINE P == registrations[a] \X {a}
  <2>1. /\ \E Q \in SUBSET P : Remove(Home[a], Q)
        /\ \A m \in Node : up'[m] = "down" => up[m] = "down"
        /\ firing' = firing
    <3>1. CASE Clash(Home[a], P)
      BY <1>1, <1>4, <3>1 DEF UnsetupClient, workerVars, TypeOK
    <3>2. CASE ~Clash(Home[a], P)
      BY <1>4, <3>2 DEF UnsetupClient, workerVars
    <3> QED BY <3>1, <3>2
  <2>2. PICK Q \in SUBSET P : Remove(Home[a], Q)
    BY <2>1
  <2>3. Q \in SUBSET Provider /\ \A p \in Q : Home[p[2]] = Home[a]
    BY <1>1 DEF TypeOK, Provider
  <2> HIDE DEF P
  <2> QED BY <1>1, <2>1, <2>2, <2>3, RemoveHidden
<1>5. ASSUME NEW a \in Actor, Terminate(a) \/ Unregister(a)
      PROVE  HiddenInv'
  <2>1. CASE UnsetupClient(a)
    BY <1>4, <2>1
  <2>2. CASE UNCHANGED <<serviceVars, workerVars, repVars, dhtVars>>
    BY <1>1, <2>2, FrameHidden DEF serviceVars, workerVars, repVars, dhtVars
  <2> QED BY <1>5, <2>1, <2>2 DEF Terminate, Unregister, HandleActorUnreg
<1>6. ASSUME NEW a \in Actor, NEW k \in Key, RegisterService(a, k)
      PROVE  HiddenInv'
  <2> DEFINE n == Home[a]
             p == <<k, a>>
  <2>1. /\ n \in Node /\ p \in Provider /\ p[2] = a /\ up[n] = "up"
        /\ Insert(n, p) /\ firing' = firing
    BY <1>6 DEF handleRegReq, RegisterService, Serving, Provider, workerVars
  <2>2. \A m \in Node : up'[m] = "down" => up[m] = "down"
    <3>1. CASE a \in joined
      BY <1>1, <1>6, <3>1 DEF handleRegReq, RegisterService, HandleUpdates, TypeOK
    <3>2. CASE a \notin joined
      BY <1>1, <1>6, <3>2 DEF handleRegReq, RegisterService, TypeOK
    <3> QED BY <3>1, <3>2
  <2>3. CASE p \in Published
    <3>1. UNCHANGED <<republish, backup, value, tomb, removed>>
      BY <2>1, <2>3 DEF Insert, repVars, dhtVars
    <3> QED BY <1>1, <2>1, <2>2, <3>1, FrameHidden
  <2>4. CASE p \notin Published
    <3> HIDE DEF n, p
    <3>1. /\ value' = [value EXCEPT ![p[1]] = value[p[1]] \cup {p[2]}]
          /\ backup' = [backup EXCEPT ![n] = backup[n] \cup {p}]
          /\ republish' = [republish EXCEPT ![n] = republish[n] \cup {p}]
          /\ removed' = removed \ {p} /\ tomb' = tomb
      BY <2>1, <2>4 DEF Insert
    <3>2. Home[p[2]] = n
      BY <2>1 DEF n
    <3>3. \A m \in Node :
            /\ republish'[m] \cup backup'[m] \subseteq
                 republish[m] \cup backup[m] \cup (IF m = n THEN {p} ELSE {})
            /\ republish'[m] \subseteq republish[m] \cup (IF m = n THEN {p} ELSE {})
      BY <1>1, <3>1 DEF TypeOK
    <3> QED BY <1>1, <2>1, <2>2, <2>4, <3>1, <3>2, <3>3, PutHidden
  <2> QED BY <2>3, <2>4
<1>7. ASSUME NEW a \in Actor, NEW k \in Key, Lookup(a, k) \/ Unlookup(a, k)
      PROVE  HiddenInv'
  <2>1. UNCHANGED <<republish, backup, value, tomb, removed, firing>>
    BY <1>7 DEF handleLookupReq, handleUnlookupReq, Lookup, Unlookup, workerVars, repVars, dhtVars
  <2>2. \A m \in Node : up'[m] = "down" => up[m] = "down"
    BY <1>1, <1>7 DEF handleLookupReq, handleUnlookupReq, Lookup, Unlookup, TypeOK
  <2> QED BY <1>1, <2>1, <2>2, FrameHidden
<1>8. ASSUME NEW a \in Actor, NEW k \in Key, UnregisterService(a, k)
      PROVE  HiddenInv'
  <2> DEFINE P == {<<k, a>>}
  <2>1. /\ P \in SUBSET Provider /\ \A p \in P : Home[p[2]] = Home[a]
        /\ firing' = firing
    BY <1>8 DEF handleUnregReq, UnregisterService, Provider, workerVars
  <2>2. CASE Clash(Home[a], P)
    <3>1. UNCHANGED <<republish, backup, value, tomb, removed>>
      BY <1>8, <2>2 DEF handleUnregReq, UnregisterService, repVars, dhtVars
    <3>2. \A m \in Node : up'[m] = "down" => up[m] = "down"
      BY <1>1, <1>8, <2>2 DEF handleUnregReq, UnregisterService, TypeOK
    <3> QED BY <1>1, <2>1, <3>1, <3>2, FrameHidden
  <2>3. CASE ~Clash(Home[a], P)
    <3>1. Remove(Home[a], P) /\ UNCHANGED up
      BY <1>8, <2>3 DEF handleUnregReq, UnregisterService
    <3> HIDE DEF P
    <3> QED BY <1>1, <2>1, <3>1, RemoveHidden
  <2> QED BY <2>2, <2>3
<1>9. ASSUME NEW n \in Node, FetchUpdates(n)
      PROVE  HiddenInv'
  <2>1. UNCHANGED <<republish, backup, value, tomb, removed, firing>>
    BY <1>9 DEF FetchUpdates, workerVars, repVars, dhtVars
  <2>2. \A m \in Node : up'[m] = "down" => up[m] = "down"
    BY <1>1, <1>9 DEF FetchUpdates, HandleUpdates, TypeOK
  <2> QED BY <1>1, <2>1, <2>2, FrameHidden
<1>10. ASSUME NEW n \in Node, Wake(n) \/ Drain(n) \/ Clear(n)
       PROVE  HiddenInv'
  <2>1. UNCHANGED <<republish, backup, value, tomb, removed, up, firing>>
    BY <1>10 DEF Wake, Drain, Clear, serviceVars, repVars, dhtVars
  <2> QED BY <1>1, <2>1, FrameHidden
<1>11. ASSUME NEW n \in Node, DhtRepublish(n)
       PROVE  HiddenInv'
  <2> DEFINE p == firing[n]
  <2>1. /\ up[n] # "down" /\ p \in Provider /\ up' = up
        /\ UNCHANGED <<republish, backup, tomb>>
        /\ firing' = [firing EXCEPT ![n] = None]
    BY <1>1, <1>11 DEF DhtRepublish, TypeOK, serviceVars, repVars
  <2>2. \A m \in Node : up'[m] = "down" => up[m] = "down" /\ firing'[m] = firing[m]
    BY <1>1, <2>1 DEF TypeOK
  <2>3. CASE p \in republish[n] /\ p \notin Published
    <3>1. /\ value' = [value EXCEPT ![p[1]] = value[p[1]] \cup {p[2]}]
          /\ removed' = removed \ {p}
      BY <1>11, <2>3 DEF DhtRepublish
    <3>2. Home[p[2]] = n
      BY <2>3 DEF HiddenInv
    <3> HIDE DEF p
    <3> QED BY <1>1, <2>1, <2>2, <2>3, <3>1, <3>2, PutHidden
  <2>4. CASE p \in republish[n] /\ p \in Published
    <3>1. /\ value' = [value EXCEPT ![p[1]] = value[p[1]] \cup {p[2]}]
          /\ removed' = removed
      BY <1>11, <2>4 DEF DhtRepublish
    <3>2. p[1] \in Key /\ p[2] \in value[p[1]] /\ value \in [Key -> SUBSET Actor]
      BY <1>1, <2>1, <2>4 DEF Published, Provider, TypeOK
    <3>3. value' = value
      BY <3>1, <3>2
    <3> QED BY <1>1, <2>1, <2>2, <3>1, <3>3, FrameHidden
  <2>5. CASE p \notin republish[n]
    <3>1. UNCHANGED <<value, removed>>
      BY <1>11, <2>5 DEF DhtRepublish
    <3> QED BY <1>1, <2>1, <2>2, <3>1, FrameHidden
  <2> QED BY <2>3, <2>4, <2>5
<1>12. ASSUME NEW n \in Node, CrashService(n)
       PROVE  HiddenInv'
  <2>1. /\ up' = [up EXCEPT ![n] = "down"]
        /\ republish' = [republish EXCEPT ![n] = {}]
        /\ firing' = [firing EXCEPT ![n] = None]
        /\ UNCHANGED <<backup, value, tomb, removed>>
    BY <1>12 DEF CrashService
  <2>2. RemovedHidden'
    BY <2>1 DEF HiddenInv, RemovedHidden, Published, Hidden
  <2>3. \A m \in Node : republish'[m] \subseteq republish[m]
    BY <1>1, <2>1 DEF TypeOK
  <2>4. Published' = Published
    BY <2>1 DEF Published
  <2>5. \A m \in Node : up'[m] = "down" => republish'[m] = {} /\ firing'[m] = None
    BY <1>1, <2>1 DEF TypeOK, HiddenInv
  <2> QED BY <1>1, <2>1, <2>2, <2>3, <2>4, <2>5 DEF HiddenInv
<1>13. ASSUME NEW n \in Node, RestartService(n)
       PROVE  HiddenInv'
  <2>1. /\ up[n] = "down" /\ up' = [up EXCEPT ![n] = "up"]
        /\ backup' \in {backup, [backup EXCEPT ![n] = {}]}
        /\ UNCHANGED <<republish, firing>>
        /\ DhtRemove(n, backup[n]) \/ UNCHANGED <<deleted, dhtVars>>
    BY <1>13 DEF RestartService, workerVars
  <2> DEFINE cleared == [backup EXCEPT ![n] = {}]
  <2>2. \A m \in Node : cleared[m] \subseteq backup[m]
    BY <1>1 DEF TypeOK
  <2>3. backup' = backup \/ backup' = cleared
    BY <2>1
  <2>4. \A m \in Node : backup'[m] \subseteq backup[m]
    <3> HIDE DEF cleared
    <3> QED BY <2>2, <2>3
  <2>5. /\ \A m \in Node : up'[m] = "down" => up[m] = "down"
        /\ \A m \in Node : backup'[m] \subseteq backup[m]
        /\ backup[n] \in SUBSET Provider
        /\ \A p \in backup[n] : Home[p[2]] = n
        /\ republish'[n] = {}
    BY <1>1, <2>1, <2>4 DEF TypeOK, HiddenInv
  <2>6. CASE DhtRemove(n, backup[n])
    BY <1>1, <2>1, <2>5, <2>6, DhtRemoveHidden
  <2>7. CASE UNCHANGED <<deleted, dhtVars>>
    BY <1>1, <2>1, <2>5, <2>7
       DEF HiddenInv, RemovedHidden, Published, Hidden, dhtVars
  <2> QED BY <2>1, <2>6, <2>7
<1>14. ASSUME NEW n \in Node, NEW note \in notes[n], DhtValueCallback(n, note)
       PROVE  HiddenInv'
  <2>1. UNCHANGED <<republish, backup, value, tomb, removed, up, firing>>
    BY <1>14 DEF DhtValueCallback, serviceVars, workerVars, repVars
  <2> QED BY <1>1, <2>1, FrameHidden
<1>15. ASSUME NEW p \in Provider, Fire(Home[p[2]], p)
       PROVE  HiddenInv'
  <2>1. /\ up[Home[p[2]]] # "down"
        /\ firing' = [firing EXCEPT ![Home[p[2]]] = p]
        /\ UNCHANGED <<republish, backup, value, tomb, removed, up>>
    BY <1>15 DEF Fire, serviceVars, repVars, dhtVars
  <2>2. \A m \in Node : up'[m] = "down" => up[m] = "down" /\ firing'[m] = firing[m]
    BY <1>1, <2>1 DEF TypeOK
  <2> QED BY <1>1, <2>1, <2>2, FrameHidden
<1>16. ASSUME NEW p \in Provider, ExpireFormer(p)
       PROVE  HiddenInv'
  <2>1. UNCHANGED <<republish, backup, value, tomb, removed, up, firing>>
    BY <1>16 DEF ExpireFormer, serviceVars, workerVars, repVars
  <2> QED BY <1>1, <2>1, FrameHidden
<1>17. ASSUME NEW p \in Provider, ExpireValue(p)
       PROVE  HiddenInv'
  <2>1. /\ value' = [value EXCEPT ![p[1]] = value[p[1]] \ {p[2]}]
        /\ UNCHANGED <<republish, backup, tomb, removed, up, firing>>
    BY <1>17 DEF ExpireValue, serviceVars, workerVars, repVars
  <2>2. Published' \subseteq Published
    BY <1>1, <2>1 DEF Published, TypeOK
  <2>3. Hidden' = Hidden
    BY <2>1 DEF Hidden
  <2>4. RemovedHidden'
    BY <2>1, <2>2, <2>3 DEF HiddenInv, RemovedHidden
  <2> QED BY <1>1, <2>1, <2>2, <2>4 DEF HiddenInv
<1>18. ASSUME NEW p \in Provider, ExpireTomb(p)
       PROVE  HiddenInv'
  <2>1. /\ tomb' = [tomb EXCEPT ![p[1]] = tomb[p[1]] \ {p[2]}]
        /\ UNCHANGED <<republish, backup, value, removed, up, firing>>
        /\ p \in Published => p \in republish[Home[p[2]]]
    BY <1>18 DEF ExpireTomb, Kept, serviceVars, workerVars, repVars
  <2>2. Hidden \ {p} \subseteq Hidden'
    <3>1. ASSUME NEW q \in Hidden, q # p
          PROVE  q[2] \in tomb'[q[1]]
      <4>1. q \in Provider /\ q = <<q[1], q[2]>> /\ p = <<p[1], p[2]>> /\ q[1] \in Key
        BY DEF Hidden, Provider
      <4>2. q[2] \in tomb[q[1]] /\ tomb \in [Key -> SUBSET Actor]
        BY <1>1 DEF Hidden, TypeOK
      <4>3. CASE q[1] = p[1]
        <5>1. q[2] # p[2]
          BY <3>1, <4>1, <4>3
        <5> QED BY <2>1, <4>1, <4>2, <4>3, <5>1
      <4>4. CASE q[1] # p[1]
        BY <2>1, <4>1, <4>2, <4>4
      <4> QED BY <4>3, <4>4
    <3> QED BY <3>1 DEF Hidden
  <2>3. Published' = Published
    BY <2>1 DEF Published
  <2>4. p \notin removed \cap Published
    <3>1. Home[p[2]] \in Node
      BY DEF Provider
    <3> QED BY <2>1, <3>1 DEF HiddenInv
  <2>5. RemovedHidden'
    BY <2>1, <2>2, <2>3, <2>4 DEF HiddenInv, RemovedHidden
  <2> QED BY <1>1, <2>1, <2>3, <2>5 DEF HiddenInv
<1> QED BY <1>2, <1>3, <1>5, <1>6, <1>7, <1>8, <1>9, <1>10, <1>11, <1>12, <1>13, <1>14,
           <1>15, <1>16, <1>17, <1>18 DEF registerEndpoint, unregisterGroup, Next

\* A step that leaves the tables of the services alone, starts no actor and at most
\* hangs services keeps EnrolledInv.
LEMMA FrameEnrolled ==
  ASSUME EnrolledInv, TypeOK', UNCHANGED <<joined, registrations, enrollments, clients>>,
         \A a \in Actor : life'[a] = "off" => life[a] = "off",
         \A n \in Node : up'[n] \in {up[n], "hung"}
  PROVE  EnrolledInv'
<1>1. \A a \in Actor : up'[Home[a]] \in {up[Home[a]], "hung"}
  BY DiscoveryAssumption
<1> QED BY <1>1 DEF EnrolledInv, Enrolled

\* A step that changes what the tables say of actor a only, or hangs its service,
\* keeps EnrolledInv when it keeps it for a.
LEMMA OwnEnrolled ==
  ASSUME EnrolledInv, TypeOK', NEW a \in Actor,
         \A b \in Actor \ {a} :
           /\ life'[b] = "off" => life[b] = "off"
           /\ b \in joined' <=> b \in joined
           /\ registrations'[b] = registrations[b] /\ enrollments'[b] = enrollments[b]
           /\ \A k \in Key : b \in clients'[Home[b]][k] <=> b \in clients[Home[b]][k],
         \A n \in Node : up'[n] \in {up[n], "hung"},
         life'[a] # "off", up'[Home[a]] # "down",
         up'[Home[a]] = "hung" \/ Enrolled(a)'
  PROVE  EnrolledInv'
<1>1. \A b \in Actor : up'[Home[b]] \in {up[Home[b]], "hung"}
  BY DiscoveryAssumption
<1>2. ASSUME NEW b \in Actor, b # a, up'[Home[b]] # "hung"
      PROVE  Enrolled(b)'
  BY <1>1, <1>2 DEF EnrolledInv, Enrolled
<1>3. ASSUME NEW b \in Actor
      PROVE  /\ life'[b] = "off" => b \notin joined'
             /\ up'[Home[b]] = "down" => b \notin joined'
             /\ up'[Home[b]] # "hung" => Enrolled(b)'
  <2>1. CASE b = a
    BY <2>1
  <2>2. CASE b # a
    BY <1>1, <1>2, <2>2 DEF EnrolledInv
  <2> QED BY <2>1, <2>2
<1> QED BY <1>3 DEF EnrolledInv

\* Initially nobody is registered and nobody looks anything up.
LEMMA InitEnrolled == Init => EnrolledInv
<1> SUFFICES ASSUME Init PROVE EnrolledInv
  OBVIOUS
<1>1. TypeOK
  BY InitType
<1> QED BY <1>1, DiscoveryAssumption DEF Init, EnrolledInv, Enrolled

\* Every step keeps EnrolledInv.
LEMMA NextEnrolled == EnrolledInv /\ [Next]_vars => EnrolledInv'
<1> SUFFICES ASSUME EnrolledInv, [Next]_vars PROVE EnrolledInv'
  OBVIOUS
<1> USE DiscoveryAssumption
<1>1. TypeOK /\ TypeOK'
  BY NextType DEF EnrolledInv
<1>2. CASE UNCHANGED vars
  BY <1>1, <1>2, FrameEnrolled DEF vars, actorVars, serviceVars, listenVars
<1>3. ASSUME NEW a \in Actor, RpcBlocks(a) \/ Die(a)
      PROVE  EnrolledInv'
  <2>1. /\ UNCHANGED <<joined, registrations, enrollments, clients, up>>
        /\ life[a] # "off" /\ \E l \in {"blocked", "dead"} : life' = [life EXCEPT ![a] = l]
    BY <1>3 DEF RpcBlocks, Die, serviceVars, listenVars
  <2>2. \A b \in Actor : life'[b] = "off" => life[b] = "off"
    BY <1>1, <2>1 DEF TypeOK
  <2> QED BY <1>1, <2>1, <2>2, FrameEnrolled
<1>4. ASSUME NEW a \in Actor, RegisterActor(a) \/ Reinstate(a)
      PROVE  EnrolledInv'
  <2>1. /\ a \notin joined /\ up[Home[a]] = "up"
        /\ SetupClient(a) /\ UNCHANGED clients
        /\ \/ life' = [life EXCEPT ![a] = "on"]
           \/ life[a] = "on" /\ life' = life
    BY <1>4 DEF EnrolledInv, RegisterActor, Reinstate, registerActor, Serving, listenVars
  <2>2. /\ joined' = joined \cup {a} /\ up' = up
        /\ registrations' = [registrations EXCEPT ![a] = {}]
        /\ enrollments' = [enrollments EXCEPT ![a] = {}]
    BY <2>1 DEF SetupClient
  <2>3. enrollments[a] = {} /\ Enrolled(a)
    BY <2>1 DEF EnrolledInv, Enrolled
  <2>4. Enrolled(a)'
    BY <1>1, <2>1, <2>2, <2>3 DEF Enrolled, TypeOK
  <2>5. /\ life'[a] # "off"
        /\ \A b \in Actor \ {a} : life'[b] = life[b]
    BY <1>1, <2>1 DEF TypeOK
  <2> QED BY <1>1, <2>1, <2>2, <2>4, <2>5, OwnEnrolled DEF TypeOK
<1>5. ASSUME NEW a \in Actor, Terminate(a) \/ Unregister(a)
      PROVE  EnrolledInv'
  <2>1. /\ life[a] # "off" /\ up[Home[a]] = "up"
        /\ life' = [life EXCEPT ![a] = "gone"]
    BY <1>5 DEF Terminate, Unregister, Serving
  <2>2. /\ life'[a] # "off"
        /\ \A b \in Actor : life'[b] = "off" => life[b] = "off"
    BY <1>1, <2>1 DEF TypeOK
  <2>3. CASE a \notin joined
    <3>1. UNCHANGED <<joined, registrations, enrollments, clients, up>>
      BY <1>5, <2>3 DEF Terminate, Unregister, HandleActorUnreg, serviceVars, listenVars
    <3> QED BY <1>1, <2>2, <3>1, FrameEnrolled
  <2>4. CASE a \in joined
    <3> DEFINE P == registrations[a] \X {a}
    <3>1. UnsetupClient(a)
      BY <1>5, <2>4 DEF Terminate, Unregister, HandleActorUnreg
    <3>2. CASE Clash(Home[a], P)
      <4>1. /\ joined' = joined \ {a} /\ up' = [up EXCEPT ![Home[a]] = "hung"]
            /\ UNCHANGED <<registrations, enrollments, clients>>
        BY <3>1, <3>2 DEF UnsetupClient
      <4>2. up'[Home[a]] = "hung" /\ \A n \in Node : up'[n] \in {up[n], "hung"}
        BY <1>1, <4>1 DEF TypeOK
      <4> QED BY <1>1, <2>2, <4>1, <4>2, OwnEnrolled
    <3>3. CASE ~Clash(Home[a], P)
      <4>1. /\ joined' = joined \ {a} /\ up' = up
            /\ registrations' = [registrations EXCEPT ![a] = {}]
            /\ enrollments' = [enrollments EXCEPT ![a] = {}]
            /\ DelClient(Home[a], enrollments[a], a)
        BY <3>1, <3>3 DEF UnsetupClient
      <4>2. \A n \in Node, k \in Key :
              clients'[n][k] = IF n = Home[a] /\ k \in enrollments[a]
                               THEN clients[n][k] \ {a} ELSE clients[n][k]
        BY <1>1, <4>1 DEF DelClient, TypeOK
      <4>3. Enrolled(a)
        BY <2>1 DEF EnrolledInv
      <4>4. /\ registrations'[a] = {} /\ enrollments'[a] = {}
            /\ \A b \in Actor \ {a} :
                 registrations'[b] = registrations[b] /\ enrollments'[b] = enrollments[b]
        BY <1>1, <4>1 DEF TypeOK
      <4>5. \A b \in Actor : Home[b] \in Node
        OBVIOUS
      <4>6. /\ \A k \in Key : a \notin clients'[Home[a]][k]
            /\ \A b \in Actor \ {a} : \A k \in Key :
                 b \in clients'[Home[b]][k] <=> b \in clients[Home[b]][k]
        <5>1. ASSUME NEW k \in Key PROVE a \notin clients'[Home[a]][k]
          <6>1. clients'[Home[a]][k] = IF k \in enrollments[a] THEN clients[Home[a]][k] \ {a}
                                       ELSE clients[Home[a]][k]
            BY <4>2, <4>5
          <6> QED BY <4>3, <6>1 DEF Enrolled
        <5>2. ASSUME NEW b \in Actor \ {a}, NEW k \in Key
              PROVE  b \in clients'[Home[b]][k] <=> b \in clients[Home[b]][k]
          <6>1. \/ clients'[Home[b]][k] = clients[Home[b]][k]
                \/ clients'[Home[b]][k] = clients[Home[b]][k] \ {a}
            BY <4>2, <4>5
          <6> QED BY <6>1
        <5> QED BY <5>1, <5>2
      <4>7. Enrolled(a)'
        BY <4>4, <4>6 DEF Enrolled
      <4> QED BY <1>1, <2>1, <2>2, <4>1, <4>4, <4>6, <4>7, OwnEnrolled
    <3> QED BY <3>2, <3>3
  <2> QED BY <2>3, <2>4
<1>6. ASSUME NEW a \in Actor, NEW k \in Key, RegisterService(a, k)
      PROVE  EnrolledInv'
  <2>1. /\ up[Home[a]] = "up" /\ life[a] = "on"
        /\ UNCHANGED <<joined, enrollments, clients>>
    BY <1>6 DEF RegisterService, handleRegReq, Serving, listenVars
  <2>2. CASE a \notin joined
    <3>1. /\ up' = [up EXCEPT ![Home[a]] = "hung"]
          /\ life' = [life EXCEPT ![a] = "blocked"]
          /\ UNCHANGED registrations
      BY <1>6, <2>2 DEF RegisterService
    <3> QED BY <1>1, <2>1, <3>1, FrameEnrolled DEF TypeOK
  <2>3. CASE a \in joined
    <3>1. /\ registrations' = [registrations EXCEPT ![a] = registrations[a] \cup {k}]
          /\ HandleUpdates(Home[a], {<<k, a>>} \ Published)
          /\ life' = life
      BY <1>6, <2>3 DEF RegisterService
    <3>2. up' = up \/ up' = [up EXCEPT ![Home[a]] = "hung"]
      BY <3>1 DEF HandleUpdates
    <3>3. up'[Home[a]] \in {"up", "hung"} /\ \A n \in Node : up'[n] \in {up[n], "hung"}
      BY <1>1, <2>1, <3>2 DEF TypeOK
    <3>4. Enrolled(a)'
      BY <2>1, <2>3 DEF EnrolledInv, Enrolled
    <3>5. \A b \in Actor \ {a} : registrations'[b] = registrations[b]
      BY <1>1, <3>1 DEF TypeOK
    <3> QED BY <1>1, <2>1, <3>1, <3>3, <3>4, <3>5, OwnEnrolled
  <2> QED BY <2>2, <2>3
<1>7. ASSUME NEW a \in Actor, NEW k \in Key, Lookup(a, k)
      PROVE  EnrolledInv'
  <2>1. /\ up[Home[a]] = "up" /\ life[a] = "on"
        /\ clients' = [clients EXCEPT ![Home[a]] =
                         [clients[Home[a]] EXCEPT ![k] = clients[Home[a]][k] \cup {a}]]
        /\ UNCHANGED <<joined, registrations>>
    BY <1>7 DEF Lookup, handleLookupReq, AddClient, Serving
  <2>2. \A n \in Node, h \in Key :
          clients'[n][h] = IF n = Home[a] /\ h = k
                           THEN clients[n][h] \cup {a} ELSE clients[n][h]
    <3>1. clients \in [Node -> [Key -> SUBSET Actor]] /\ Home[a] \in Node
      BY <1>1 DEF TypeOK
    <3> QED BY <2>1, <3>1
  <2>3. \A b \in Actor \ {a} : \A h \in Key :
          b \in clients'[Home[b]][h] <=> b \in clients[Home[b]][h]
    BY <2>2
  <2>4. CASE a \notin joined
    <3>1. /\ up' = [up EXCEPT ![Home[a]] = "hung"]
          /\ life' = [life EXCEPT ![a] = "blocked"]
          /\ UNCHANGED enrollments
      BY <1>7, <2>4 DEF Lookup
    <3>2. /\ up'[Home[a]] = "hung" /\ \A n \in Node : up'[n] \in {up[n], "hung"}
          /\ life'[a] # "off" /\ \A b \in Actor \ {a} : life'[b] = life[b]
      BY <1>1, <3>1 DEF TypeOK
    <3> QED BY <1>1, <2>1, <2>3, <3>1, <3>2, OwnEnrolled
  <2>5. CASE a \in joined
    <3>1. /\ enrollments' = [enrollments EXCEPT ![a] = enrollments[a] \cup {k}]
          /\ UNCHANGED <<life, up>>
      BY <1>7, <2>5 DEF Lookup
    <3>2. Enrolled(a)
      BY <2>1 DEF EnrolledInv
    <3>3. Enrolled(a)'
      BY <1>1, <2>1, <2>2, <2>5, <3>1, <3>2 DEF Enrolled, TypeOK
    <3>4. \A b \in Actor \ {a} : enrollments'[b] = enrollments[b]
      BY <1>1, <3>1 DEF TypeOK
    <3> QED BY <1>1, <2>1, <2>3, <3>1, <3>3, <3>4, OwnEnrolled
  <2> QED BY <2>4, <2>5
<1>8. ASSUME NEW a \in Actor, NEW k \in Key, UnregisterService(a, k)
      PROVE  EnrolledInv'
  <2>1. /\ up[Home[a]] = "up" /\ life[a] = "on" /\ life' = life /\ a \in joined
        /\ UNCHANGED <<joined, enrollments, clients>>
    BY <1>8 DEF UnregisterService, handleUnregReq, Serving, actorVars
  <2>2. /\ \/ up' = up
           \/ up' = [up EXCEPT ![Home[a]] = "hung"]
        /\ \/ registrations' = registrations
           \/ registrations' = [registrations EXCEPT ![a] = registrations[a] \ {k}]
    BY <1>8 DEF UnregisterService
  <2>3. up'[Home[a]] \in {"up", "hung"} /\ \A n \in Node : up'[n] \in {up[n], "hung"}
    BY <1>1, <2>1, <2>2 DEF TypeOK
  <2>4. Enrolled(a)'
    BY <2>1 DEF EnrolledInv, Enrolled
  <2>5. \A b \in Actor \ {a} : registrations'[b] = registrations[b]
    BY <1>1, <2>2 DEF TypeOK
  <2> QED BY <1>1, <2>1, <2>3, <2>4, <2>5, OwnEnrolled
<1>9. ASSUME NEW a \in Actor, NEW k \in Key, Unlookup(a, k)
      PROVE  EnrolledInv'
  <2>1. /\ up[Home[a]] = "up" /\ life[a] = "on" /\ life' = life /\ a \in joined
        /\ DelClient(Home[a], {k}, a)
        /\ enrollments' = [enrollments EXCEPT ![a] = enrollments[a] \ {k}]
        /\ UNCHANGED <<joined, registrations, up>>
    BY <1>9 DEF Unlookup, handleUnlookupReq, Serving, actorVars
  <2>2. \A n \in Node, h \in Key :
          clients'[n][h] = IF n = Home[a] /\ h \in {k}
                           THEN clients[n][h] \ {a} ELSE clients[n][h]
    BY <1>1, <2>1 DEF DelClient, TypeOK
  <2>3. Enrolled(a)
    BY <2>1 DEF EnrolledInv
  <2>4. /\ enrollments'[a] = enrollments[a] \ {k}
        /\ \A b \in Actor \ {a} : enrollments'[b] = enrollments[b]
    BY <1>1, <2>1 DEF TypeOK
  <2>5. \A b \in Actor : Home[b] \in Node
    OBVIOUS
  <2>6. /\ \A h \in Key : a \in clients'[Home[a]][h] <=> h \in enrollments'[a]
        /\ \A b \in Actor \ {a} : \A h \in Key :
             b \in clients'[Home[b]][h] <=> b \in clients[Home[b]][h]
    <3>1. ASSUME NEW h \in Key
          PROVE  a \in clients'[Home[a]][h] <=> h \in enrollments'[a]
      <4>1. clients'[Home[a]][h] = IF h = k THEN clients[Home[a]][h] \ {a}
                                   ELSE clients[Home[a]][h]
        BY <2>2, <2>5
      <4> QED BY <2>3, <2>4, <4>1 DEF Enrolled
    <3>2. ASSUME NEW b \in Actor \ {a}, NEW h \in Key
          PROVE  b \in clients'[Home[b]][h] <=> b \in clients[Home[b]][h]
      <4>1. \/ clients'[Home[b]][h] = clients[Home[b]][h]
            \/ clients'[Home[b]][h] = clients[Home[b]][h] \ {a}
        BY <2>2, <2>5
      <4> QED BY <4>1
    <3> QED BY <3>1, <3>2
  <2>7. Enrolled(a)'
    BY <2>1, <2>6 DEF Enrolled
  <2> QED BY <1>1, <2>1, <2>4, <2>6, <2>7, OwnEnrolled
<1>10. ASSUME NEW n \in Node, FetchUpdates(n)
       PROVE  EnrolledInv'
  <2>1. UNCHANGED <<life, joined, registrations, enrollments, clients>>
    BY <1>10 DEF FetchUpdates
  <2>2. \A m \in Node : up'[m] \in {up[m], "hung"}
    BY <1>1, <1>10 DEF FetchUpdates, HandleUpdates, TypeOK
  <2> QED BY <1>1, <2>1, <2>2, FrameEnrolled
<1>11. ASSUME NEW n \in Node,
              \/ Wake(n) \/ Drain(n) \/ Clear(n) \/ DhtRepublish(n)
              \/ \E note \in notes[n] : DhtValueCallback(n, note)
       PROVE  EnrolledInv'
  <2>1. UNCHANGED <<life, joined, registrations, enrollments, clients, up>>
    BY <1>11 DEF Wake, Drain, Clear, DhtRepublish, DhtValueCallback, actorVars, serviceVars,
                 listenVars
  <2> QED BY <1>1, <2>1, FrameEnrolled
<1>12. ASSUME NEW n \in Node, CrashService(n)
       PROVE  EnrolledInv'
  <2>1. /\ up' = [up EXCEPT ![n] = "down"] /\ life' = life
        /\ joined' = joined \ Local(n)
        /\ registrations' = [a \in Actor |-> IF a \in Local(n) THEN {} ELSE registrations[a]]
        /\ enrollments' = [a \in Actor |-> IF a \in Local(n) THEN {} ELSE enrollments[a]]
        /\ clients' = [clients EXCEPT ![n] = [k \in Key |-> {}]]
    BY <1>12 DEF CrashService, actorVars
  <2>2. ASSUME NEW a \in Actor
        PROVE  /\ life'[a] = "off" => a \notin joined'
               /\ up'[Home[a]] = "down" => a \notin joined'
               /\ up'[Home[a]] # "hung" => Enrolled(a)'
    <3>1. CASE Home[a] = n
      BY <1>1, <2>1, <3>1 DEF EnrolledInv, Enrolled, Local, TypeOK
    <3>2. CASE Home[a] # n
      BY <1>1, <2>1, <3>2 DEF EnrolledInv, Enrolled, Local, TypeOK
    <3> QED BY <3>1, <3>2
  <2> QED BY <1>1, <2>2 DEF EnrolledInv
<1>13. ASSUME NEW n \in Node, RestartService(n)
       PROVE  EnrolledInv'
  <2>1. /\ up[n] = "down" /\ up' = [up EXCEPT ![n] = "up"]
        /\ UNCHANGED <<life, joined, registrations, enrollments, clients>>
    BY <1>13 DEF RestartService, actorVars
  <2> QED BY <1>1, <2>1 DEF EnrolledInv, Enrolled, TypeOK
<1>14. ASSUME NEW p \in Provider,
              \/ Fire(Home[p[2]], p) \/ ExpireFormer(p) \/ ExpireValue(p) \/ ExpireTomb(p)
       PROVE  EnrolledInv'
  <2>1. UNCHANGED <<life, joined, registrations, enrollments, clients, up>>
    BY <1>14 DEF Fire, ExpireFormer, ExpireValue, ExpireTomb, actorVars, serviceVars,
                 listenVars
  <2> QED BY <1>1, <2>1, FrameEnrolled
<1> QED BY <1>2, <1>3, <1>4, <1>5, <1>6, <1>7, <1>8, <1>9, <1>10, <1>11, <1>12, <1>13,
           <1>14 DEF registerEndpoint, unregisterGroup, Next

--------------------------------------------------------------------------------
(* Results *)

\* The store, the tables of the services and what the actors were told have their
\* types in every reachable state, whatever hangs, dies or is restarted
\* (discs.py, dbase_dht.py).
THEOREM TypeCorrect == Spec => []TypeOK
<1> QED BY InitType, NextType, PTL DEF Spec

\* What was removed from the data base stays hidden from lookups while the DHT still
\* has it: republishing, crashes, the cleanup of a backup and reinstatement never
\* bring it back without a new registration (remove(), dhtRepublish(), cleanupRegDb()
\* of dbase_dht.py).
THEOREM HiddenSafe == Spec => []RemovedHidden
<1>1. HiddenInv => RemovedHidden
  BY DEF HiddenInv
<1> QED BY <1>1, InitHidden, NextHidden, PTL DEF Spec

\* A service that runs tells the right actors: whatever it served, crashed or was
\* started again, the clients of its data base are exactly the actors enrolled with
\* it, and it keeps nothing for an actor that is not registered (setupClient(),
\* unsetupClient() of discs.py, fetch(), detach() of dbase_dht.py).
THEOREM EnrolledExact == Spec => []ClientsEnrolled
<1>1. EnrolledInv => ClientsEnrolled
  BY DEF EnrolledInv, ClientsEnrolled
<1> QED BY <1>1, InitEnrolled, NextEnrolled, PTL DEF Spec

================================================================================
