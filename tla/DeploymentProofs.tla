--------------------------- MODULE DeploymentProofs ---------------------------
(***************************************************************************)
(* Proofs about Deployment, for any actors and devices and any bounds:     *)
(* what is launched is watched and recorded, and what is recorded and runs *)
(* is launched or being ended.                                             *)
(*                                                                         *)
(* The argument is about five variables: the processes P, what the manager *)
(* D knows, the data base B, the processes T that are being ended, and the *)
(* monitor threads M.  A step of the manager ends a process, forgets it,   *)
(* starts one, or several of these: each has a lemma about the five, and   *)
(* the actions are put together from them.                                 *)
(***************************************************************************)
EXTENDS Deployment, TLAPS

\* The thread of the manager does not run yet, or only ends what a crash has left.
Away == {"down", "sweep"}

\* Whether a process runs (Up), for any state of the processes.
Runs(P, p) == p # None /\ P[p].phase \notin {"free", "dead"}
IsLatest(B, r) == \A s \in B.recs : s.who = r.who => s.pid <= r.pid

\* Processes are numbered as they are started, and a record is of one that was.
Numbered(P, B) ==
  /\ \A p, q \in Pid : p < q /\ P[p].phase = "free" => P[q].phase = "free"
  /\ \A r \in B.recs : P[r.pid].phase # "free"

\* The process the manager waits for is newer than any record.
Starting(P, D, B) ==
  D.thread = "busy" =>
    /\ D.app /\ D.job.who \in D.managed
    /\ P[D.job.pid].phase # "free"
    /\ \A r \in B.recs : r.pid < D.job.pid

\* The threads of procm.py follow launchMap.
Watched(D, M) ==
  \A k \in Key : D.launchMap[k] # None =>
    M[k].st # "none" /\ M[k].next = D.launchMap[k]

\* Without an application nobody is managed, and nothing is launched by a service that
\* does not run.
Managing(D) ==
  /\ ~D.app => D.managed = {}
  /\ D.thread \in Away => \A k \in Key : D.launchMap[k] = None

\* The orphans that are still to be ended are all that is recorded.
Sweeping(D, B) == D.thread = "sweep" => B.recs \subseteq D.orphans

\* What has a record is managed, and, if it runs and is the latest, launched or ended.
Recording(P, D, B, T) ==
  D.thread \notin Away => \A r \in B.recs :
    /\ r.who \in D.managed
    /\ IsLatest(B, r) /\ Runs(P, r.pid) => D.launchMap[r.who] = r.pid \/ r.pid \in T

\* What is launched has the latest record of its name, unless the records were deleted.
Keeping(D, B) ==
  \A k \in Key : D.launchMap[k] # None =>
    /\ D.launchMap[k] \in B.swept \/ [who |-> k, pid |-> D.launchMap[k]] \in B.recs
    /\ \A r \in B.recs : r.who = k =>
         /\ r.pid <= D.launchMap[k]
         /\ [who |-> k, pid |-> D.launchMap[k]] \in B.recs

Processes == [Pid -> [who : Name, phase : Phase, stuck : BOOLEAN]]
DbState ==
  [disco : Pid \cup {None}, app : BOOLEAN, recs : SUBSET Record, swept : SUBSET Pid]

Typed(P, D, B, T, M) ==
  /\ P \in Processes
  /\ D \in DepmState /\ (D.thread = "busy" <=> D.job # NoJob)
  /\ B \in DbState /\ T \subseteq Pid
  /\ M \in [Name -> MonitorState]

Good(P, D, B, T, M) ==
  /\ Typed(P, D, B, T, M)
  /\ Numbered(P, B)
  /\ Starting(P, D, B)
  /\ Watched(D, M)
  /\ Managing(D)
  /\ Sweeping(D, B)
  /\ Recording(P, D, B, T)
  /\ Keeping(D, B)

KeptGood == Good(proc, depm, db, term, monitors)
KeptInv == TypeOK /\ KeptGood

--------------------------------------------------------------------------------
(* Steps on the five *)

\* Processes that were started stay so, and those that have ended too.
Ordered(P) == \A p, q \in Pid : p < q /\ P[p].phase = "free" => P[q].phase = "free"
Later(P, P2) ==
  \A p \in Pid : P[p].phase # "free" =>
    P2[p].phase # "free" /\ (Runs(P2, p) => Runs(P, p))
Follows(M, M2) ==
  \A k \in Key : M[k].st # "none" => M2[k].st # "none" /\ M2[k].next = M[k].next
Held(P2, T, T2) == \A p \in T : p \in T2 \/ ~Runs(P2, p)

LEMMA RecordIs ==
  ASSUME NEW B \in DbState, NEW r \in B.recs
  PROVE  r.who \in Key /\ r.pid \in Pid /\ r = [who |-> r.who, pid |-> r.pid] /\ r.pid # None
BY DEF DbState, Record, Pid, None

\* Nothing the invariant is about changes.
LEMMA StillGood ==
  ASSUME NEW P, NEW D, NEW B, NEW T, NEW M, Good(P, D, B, T, M),
         NEW P2, NEW D2, NEW B2, NEW T2, NEW M2, Typed(P2, D2, B2, T2, M2),
         Ordered(P2), Later(P, P2), Follows(M, M2), Held(P2, T, T2),
         D2.managed = D.managed, D2.launchMap = D.launchMap,
         D.app => D2.app, D2.thread \in Away <=> D.thread \in Away,
         D2.thread = "sweep" => D.thread = "sweep" /\ D2.orphans = D.orphans,
         D2.thread = "busy" => D.thread = "busy" /\ D2.job = D.job,
         B2.recs = B.recs, B2.swept = B.swept
  PROVE  Good(P2, D2, B2, T2, M2)
<1> USE DEF Good
<1>1. Numbered(P2, B2)
  <2>1. \A r \in B.recs : r.pid \in Pid
    BY RecordIs DEF Typed
  <2> QED BY <2>1 DEF Numbered, Ordered, Later
<1>2. Starting(P2, D2, B2)
  <2> SUFFICES ASSUME D2.thread = "busy" PROVE Starting(P2, D2, B2)
    BY DEF Starting
  <2>1. D.job \in Job
    BY DEF Typed, DepmState, Job, NoJob
  <2> QED BY <2>1 DEF Starting, Later, Job
<1>3. Watched(D2, M2)
  BY DEF Watched, Follows
<1>4. Managing(D2) /\ Sweeping(D2, B2)
  BY DEF Managing, Sweeping, Typed, DepmState
<1>5. Recording(P2, D2, B2, T2)
  <2> SUFFICES ASSUME D2.thread \notin Away, NEW r \in B2.recs
               PROVE  /\ r.who \in D2.managed
                      /\ IsLatest(B2, r) /\ Runs(P2, r.pid) =>
                           D2.launchMap[r.who] = r.pid \/ r.pid \in T2
    BY DEF Recording
  <2>1. r \in B.recs /\ r.pid \in Pid
    BY RecordIs DEF Typed
  <2>2. r.who \in D2.managed
    BY <2>1 DEF Recording
  <2>3. ASSUME IsLatest(B2, r), Runs(P2, r.pid)
        PROVE  D2.launchMap[r.who] = r.pid \/ r.pid \in T2
    <3>1. IsLatest(B, r) /\ Runs(P, r.pid)
      BY <2>1, <2>3 DEF IsLatest, Numbered, Later
    <3> QED BY <2>1, <2>3, <3>1 DEF Recording, Held
  <2> QED BY <2>2, <2>3
<1>6. Keeping(D2, B2)
  BY DEF Keeping
<1> QED BY <1>1, <1>2, <1>3, <1>4, <1>5, <1>6

\* A name is no longer launched: its process is to be ended, or has no record.
LEMMA StopGood ==
  ASSUME NEW P, NEW D, NEW B, NEW T, NEW M, Good(P, D, B, T, M), NEW k \in Key,
         NEW D2, NEW B2, NEW T2, NEW M2, Typed(P, D2, B2, T2, M2),
         \A x \in Key \ {k} : M2[x] = M[x], Held(P, T, T2),
         k \notin D.managed \/ (Runs(P, D.launchMap[k]) => D.launchMap[k] \in T2),
         D2.managed = D.managed, D2.launchMap = [D.launchMap EXCEPT ![k] = None],
         D2.app = D.app, D.thread \notin Away, D2.thread \notin Away \cup {"busy"},
         B2.recs = B.recs \/ B2.recs = Without(B.recs, k), B2.swept = B.swept
  PROVE  Good(P, D2, B2, T2, M2)
<1> USE DEF Good
<1>l. /\ D.launchMap \in [Key -> Pid \cup {None}]
      /\ \A x \in Key : D2.launchMap[x] = IF x = k THEN None ELSE D.launchMap[x]
  BY DEF Typed, DepmState
<1>r. /\ B2.recs \subseteq B.recs
      /\ \A r \in B.recs : r.who # k => r \in B2.recs
  BY DEF Without
<1>1. Numbered(P, B2)
  BY <1>r DEF Numbered
<1>2. Starting(P, D2, B2)
  BY DEF Starting
<1>3. Watched(D2, M2)
  BY <1>l DEF Watched
<1>4. Managing(D2) /\ Sweeping(D2, B2)
  BY DEF Managing, Sweeping, Away
<1>5. Recording(P, D2, B2, T2)
  <2> SUFFICES ASSUME NEW r \in B2.recs
               PROVE  /\ r.who \in D2.managed
                      /\ IsLatest(B2, r) /\ Runs(P, r.pid) =>
                           D2.launchMap[r.who] = r.pid \/ r.pid \in T2
    BY DEF Recording
  <2>1. r \in B.recs /\ r.who \in Key /\ r.who \in D.managed
    BY <1>r, RecordIs DEF Typed, Recording
  <2>2. ASSUME IsLatest(B2, r), Runs(P, r.pid)
        PROVE  D2.launchMap[r.who] = r.pid \/ r.pid \in T2
    <3>1. IsLatest(B, r)
      BY <1>r, <2>1, <2>2 DEF IsLatest, Without
    <3>2. D.launchMap[r.who] = r.pid \/ r.pid \in T
      BY <2>1, <2>2, <3>1 DEF Recording
    <3> QED BY <1>l, <2>1, <2>2, <3>2 DEF Held
  <2> QED BY <2>1, <2>2
<1>6. Keeping(D2, B2)
  <2> SUFFICES ASSUME NEW x \in Key, D2.launchMap[x] # None
               PROVE  LET own == [who |-> x, pid |-> D2.launchMap[x]] IN
                      /\ D2.launchMap[x] \in B2.swept \/ own \in B2.recs
                      /\ \A r \in B2.recs : r.who = x =>
                           r.pid <= D2.launchMap[x] /\ own \in B2.recs
    BY DEF Keeping
  <2>1. x # k /\ D2.launchMap[x] = D.launchMap[x]
    BY <1>l
  <2> QED BY <1>r, <2>1 DEF Keeping
<1> QED BY <1>1, <1>2, <1>3, <1>4, <1>5, <1>6

\* The next process is started.
LEMMA FreshLater ==
  ASSUME NEW P \in Processes, Ordered(P), NEW p \in Pid, P[p].phase = "free",
         \A q \in 1 .. p - 1 : P[q].phase # "free",
         NEW w \in Name, NEW ph \in Phase \ {"free", "dead"}, NEW P2,
         P2 = [P EXCEPT ![p] = Process(w, ph)]
  PROVE  P2 \in Processes /\ Ordered(P2) /\ Later(P, P2) /\ P2[p].phase # "free"
<1>1. /\ P2 \in Processes /\ Process(w, ph).phase = ph
      /\ \A q \in Pid : P2[q] = IF q = p THEN Process(w, ph) ELSE P[q]
  BY DEF Processes, Process
<1>2. Ordered(P2)
  <2> SUFFICES ASSUME NEW x \in Pid, NEW y \in Pid, x < y, P2[x].phase = "free"
               PROVE  P2[y].phase = "free"
    BY DEF Ordered
  <2>1. x # p /\ P[x].phase = "free"
    BY <1>1
  <2>2. ~(x \in 1 .. p - 1)
    BY <2>1
  <2>3. y # p
    BY <2>2, NodeAssumption DEF Pid
  <2> QED BY <1>1, <2>1, <2>3 DEF Ordered
<1>3. Later(P, P2)
  BY <1>1 DEF Later, Runs
<1> QED BY <1>1, <1>2, <1>3

LEMMA SpawnGood ==
  ASSUME NEW P, NEW D, NEW B, NEW T, NEW M, Good(P, D, B, T, M), NEW p \in Pid,
         P[p].phase = "free", NEW P2 \in Processes, Ordered(P2), Later(P, P2),
         P2[p].phase # "free", NEW job \in Job, job.pid = p,
         D.app, D.thread \notin Away \cup {"busy"}, NEW D2 \in DepmState,
         D2.thread = "busy", D2.job = job, D2.app,
         D2.managed = D.managed \cup {job.who}, D2.launchMap = D.launchMap
  PROVE  Good(P2, D2, B, T, M)
<1> USE DEF Good
<1>3. Typed(P2, D2, B, T, M)
  BY DEF Typed, Job, NoJob
<1>4. \A r \in B.recs : r.pid \in Pid /\ P[r.pid].phase # "free"
  BY RecordIs DEF Typed, Numbered
<1>5. Numbered(P2, B)
  BY <1>4 DEF Numbered, Ordered, Later
<1>6. Starting(P2, D2, B)
  <2>1. ASSUME NEW r \in B.recs PROVE r.pid < p
    BY <1>4, NodeAssumption DEF Numbered, Pid
  <2>2. D2.job.who \in D2.managed
    OBVIOUS
  <2> QED BY <2>1, <2>2 DEF Starting
<1>7. Watched(D2, M) /\ Managing(D2) /\ Sweeping(D2, B) /\ Keeping(D2, B)
  BY DEF Watched, Managing, Sweeping, Keeping, Away
<1>8. Recording(P2, D2, B, T)
  <2> SUFFICES ASSUME NEW r \in B.recs
               PROVE  /\ r.who \in D2.managed
                      /\ IsLatest(B, r) /\ Runs(P2, r.pid) =>
                           D2.launchMap[r.who] = r.pid \/ r.pid \in T
    BY DEF Recording
  <2> QED BY <1>4 DEF Recording, Later
<1> QED BY <1>3, <1>5, <1>6, <1>7, <1>8

\* The process is up: it is launched, recorded and watched.
LEMMA StartedGood ==
  ASSUME NEW P, NEW D, NEW B, NEW T, NEW M, Good(P, D, B, T, M), D.thread = "busy",
         NEW k, NEW p, k = D.job.who, p = D.job.pid,
         NEW P2, NEW D2, NEW B2, NEW M2, Typed(P2, D2, B2, T, M2),
         Ordered(P2), Later(P, P2),
         \A x \in Key \ {k} : M2[x] = M[x], M2[k].st # "none", M2[k].next = p,
         D2.managed = D.managed, D2.launchMap = [D.launchMap EXCEPT ![k] = p],
         D2.app = D.app, D2.thread \notin Away \cup {"busy"},
         B2.recs = B.recs \cup {[who |-> k, pid |-> p]}, B2.swept = B.swept
  PROVE  Good(P2, D2, B2, T, M2)
<1> USE DEF Good
<1>1. D.job \in Job /\ k \in Key /\ p \in Pid
  BY DEF Typed, DepmState, Job
<1>2. \A x \in Key : D2.launchMap[x] = IF x = k THEN p ELSE D.launchMap[x]
  BY <1>1 DEF Typed, DepmState
<1>3. \A r \in B.recs : r.who \in Key /\ r.pid \in Pid /\ r.pid < p /\ P[r.pid].phase # "free"
  BY RecordIs DEF Typed, Starting, Numbered
<1>4. Numbered(P2, B2)
  BY <1>1, <1>3 DEF Numbered, Ordered, Later, Starting
<1>5. Starting(P2, D2, B2)
  BY DEF Starting
<1>6. Watched(D2, M2)
  BY <1>2 DEF Watched
<1>7. Managing(D2) /\ Sweeping(D2, B2)
  BY DEF Managing, Sweeping, Away
<1>8. Recording(P2, D2, B2, T)
  <2> SUFFICES ASSUME NEW r \in B2.recs
               PROVE  /\ r.who \in D2.managed
                      /\ IsLatest(B2, r) /\ Runs(P2, r.pid) =>
                           D2.launchMap[r.who] = r.pid \/ r.pid \in T
    BY DEF Recording
  <2>1. CASE r = [who |-> k, pid |-> p]
    BY <1>1, <1>2, <2>1 DEF Starting
  <2>2. CASE r \in B.recs
    <3>1. r.who \in D2.managed
      BY <2>2 DEF Recording, Away
    <3>2. ASSUME IsLatest(B2, r), Runs(P2, r.pid)
          PROVE  D2.launchMap[r.who] = r.pid \/ r.pid \in T
      <4>1. r.who # k
        <5> DEFINE own == [who |-> k, pid |-> p]
        <5>1. own \in B2.recs /\ own.who = k /\ own.pid = p
          OBVIOUS
        <5>2. r.who = k => p <= r.pid
          BY <3>2, <5>1 DEF IsLatest
        <5>3. ~(p <= r.pid)
          BY <1>1, <1>3, <2>2, NodeAssumption DEF Pid
        <5> QED BY <5>2, <5>3
      <4>2. IsLatest(B, r) /\ Runs(P, r.pid)
        BY <1>3, <2>2, <3>2 DEF IsLatest, Later
      <4> QED BY <1>2, <1>3, <2>2, <4>1, <4>2 DEF Recording, Away
    <3> QED BY <3>1, <3>2
  <2> QED BY <2>1, <2>2
<1>9. Keeping(D2, B2)
  <2> SUFFICES ASSUME NEW x \in Key, D2.launchMap[x] # None
               PROVE  LET own == [who |-> x, pid |-> D2.launchMap[x]] IN
                      /\ D2.launchMap[x] \in B2.swept \/ own \in B2.recs
                      /\ \A r \in B2.recs : r.who = x =>
                           r.pid <= D2.launchMap[x] /\ own \in B2.recs
    BY DEF Keeping
  <2>1. CASE x = k
    BY <1>1, <1>2, <1>3, <2>1, NodeAssumption DEF Pid
  <2>2. CASE x # k
    <3>1. D2.launchMap[x] = D.launchMap[x]
      BY <1>2, <2>2
    <3> QED BY <2>2, <3>1 DEF Keeping
  <2> QED BY <2>1, <2>2
<1> QED BY <1>4, <1>5, <1>6, <1>7, <1>8, <1>9

\* Records are deleted: all of them, and nobody is managed any more (R is none), or those
\* of a name (R is the others).
LEMMA DeletedGood ==
  ASSUME NEW P, NEW D, NEW B, NEW T, NEW M, Good(P, D, B, T, M),
         NEW P2, NEW D2, NEW B2, Typed(P2, D2, B2, T, M), Ordered(P2), Later(P, P2),
         NEW R \in SUBSET B.recs,
         \A r \in R : \A s \in B.recs : s.who = r.who => s \in R,
         D2.managed = D.managed \/ (D2.managed = {} /\ R = {}),
         D2.app = D.app \/ D2.managed = {},
         D2.launchMap = D.launchMap, D2.thread \notin Away \cup {"busy"}, D.thread \notin Away,
         B2.recs = R, B2.swept = B.swept \cup PidsOf(B.recs \ R)
  PROVE  Good(P2, D2, B2, T, M)
<1> USE DEF Good
<1>1. \A r \in R : r \in B.recs /\ r.who \in Key /\ r.pid \in Pid
  BY RecordIs DEF Typed
<1>2. Numbered(P2, B2)
  BY <1>1 DEF Numbered, Ordered, Later
<1>3. Starting(P2, D2, B2)
  BY DEF Starting
<1>4. Watched(D2, M)
  BY DEF Watched
<1>5. Managing(D2) /\ Sweeping(D2, B2)
  BY DEF Managing, Sweeping, Away
<1>6. Recording(P2, D2, B2, T)
  <2> SUFFICES ASSUME NEW r \in R
               PROVE  /\ r.who \in D2.managed
                      /\ IsLatest(B2, r) /\ Runs(P2, r.pid) =>
                           D2.launchMap[r.who] = r.pid \/ r.pid \in T
    BY DEF Recording
  <2>1. IsLatest(B2, r) => IsLatest(B, r)
    BY DEF IsLatest
  <2>2. Runs(P2, r.pid) => Runs(P, r.pid)
    BY <1>1 DEF Numbered, Later
  <2> QED BY <1>1, <2>1, <2>2 DEF Recording
<1>7. Keeping(D2, B2)
  <2> SUFFICES ASSUME NEW x \in Key, D.launchMap[x] # None
               PROVE  LET own == [who |-> x, pid |-> D.launchMap[x]] IN
                      /\ D.launchMap[x] \in B2.swept \/ own \in R
                      /\ \A r \in R : r.who = x => r.pid <= D.launchMap[x] /\ own \in R
    BY DEF Keeping
  <2> DEFINE own == [who |-> x, pid |-> D.launchMap[x]]
  <2>1. own \in B.recs \ R => D.launchMap[x] \in B2.swept
    BY DEF PidsOf
  <2>2. D.launchMap[x] \in B.swept => D.launchMap[x] \in B2.swept
    OBVIOUS
  <2>3. D.launchMap[x] \in B.swept \/ own \in B.recs
    BY DEF Keeping
  <2>4. ASSUME NEW r \in R, r.who = x PROVE r.pid <= D.launchMap[x] /\ own \in R
    BY <2>4 DEF Keeping
  <2> QED BY <2>1, <2>2, <2>3, <2>4
<1> QED BY <1>2, <1>3, <1>4, <1>5, <1>6, <1>7

\* The service is gone: nothing is launched.
LEMMA GoneGood ==
  ASSUME NEW P, NEW B, NEW T, Numbered(P, B), Typed(P, Blank("down"), B, T, [k \in Name |-> NoMonitor])
  PROVE  Good(P, Blank("down"), B, T, [k \in Name |-> NoMonitor])
BY DEF Good, Starting, Watched, Managing, Sweeping, Recording, Keeping, Blank, Away

\* Nothing is recorded and nothing launched.
LEMMA EmptyGood ==
  ASSUME NEW P, NEW D, NEW B, NEW T, NEW M, Typed(P, D, B, T, M), Ordered(P),
         B.recs = {}, \A k \in Key : D.launchMap[k] = None,
         D.thread # "busy", D.app \/ D.managed = {}
  PROVE  Good(P, D, B, T, M)
BY DEF Good, Numbered, Ordered, Starting, Watched, Managing, Sweeping, Recording, Keeping

\* What a crash has left is being ended: nothing is launched.
LEMMA AwayGood ==
  ASSUME NEW P, NEW D, NEW B, NEW T, NEW M, Typed(P, D, B, T, M), Numbered(P, B),
         D.thread \in Away, \A k \in Key : D.launchMap[k] = None,
         D.app \/ D.managed = {}, D.thread = "sweep" => B.recs \subseteq D.orphans
  PROVE  Good(P, D, B, T, M)
BY DEF Good, Starting, Watched, Managing, Sweeping, Recording, Keeping, Away

--------------------------------------------------------------------------------
(* The operators of the model *)

LEMMA MonitoringIs ==
  ASSUME monitors \in [Name -> MonitorState], NEW k \in Name, NEW p \in Pid
  PROVE  /\ Monitoring(k, p) \in [Name -> MonitorState]
         /\ Monitoring(k, p)[k].st # "none" /\ Monitoring(k, p)[k].next = p
         /\ \A x \in Name \ {k} : Monitoring(k, p)[x] = monitors[x]
<1> DEFINE new == IF monitors[k].st = "none"
                    THEN [st |-> "waiting", on |-> p, next |-> p,
                          mute |-> \E q \in Pid : <<k, q>> \in expected]
                    ELSE [monitors[k] EXCEPT !.next = p]
<1>1. new \in MonitorState /\ new.st # "none" /\ new.next = p
  <2>1. monitors[k] \in MonitorState /\ p # None
    BY NodeAssumption DEF Pid, None
  <2>2. (\E q \in Pid : <<k, q>> \in expected) \in BOOLEAN
    OBVIOUS
  <2> QED BY <2>1, <2>2 DEF MonitorState
<1>2. Monitoring(k, p) = [monitors EXCEPT ![k] = new]
  BY DEF Monitoring
<1> HIDE DEF new
<1> QED BY <1>1, <1>2

LEMMA AnsweredIs ==
  ASSUME NEW k \in Name, NEW m \in [Name -> MonitorState], m[k].st # "none"
  PROVE  /\ Answered(k, m) \in [Name -> MonitorState]
         /\ Answered(k, m)[k].st # "none" /\ Answered(k, m)[k].next = m[k].next
         /\ \A x \in Name \ {k} : Answered(k, m)[x] = m[x]
<1> DEFINE new == [st |-> "waiting", on |-> m[k].next, next |-> m[k].next, mute |-> m[k].mute]
<1>1. new \in MonitorState /\ m[k] = [st |-> m[k].st, on |-> m[k].on, next |-> m[k].next, mute |-> m[k].mute]
  BY DEF MonitorState
<1>2. Answered(k, m) = [m EXCEPT ![k] = new]
  <2> DEFINE m1 == [m EXCEPT ![k].st = "waiting"]
  <2>1. m1[k] = [st |-> "waiting", on |-> m[k].on, next |-> m[k].next, mute |-> m[k].mute]
    BY <1>1
  <2>2. Answered(k, m) = [m1 EXCEPT ![k] = [m1[k] EXCEPT !.on = m[k].next]]
    BY DEF Answered
  <2>3. [m1[k] EXCEPT !.on = m[k].next] = new
    <3> HIDE DEF m1
    <3> QED BY <2>1
  <2>4. [m1 EXCEPT ![k] = new] = [m EXCEPT ![k] = new]
    OBVIOUS
  <2> QED BY <2>2, <2>3, <2>4
<1> HIDE DEF new
<1> QED BY <1>1, <1>2 DEF new

LEMMA ReleaseIs ==
  ASSUME TypeOK, NEW k \in Name, release(k)
  PROVE  /\ monitors' \in [Name -> MonitorState]
         /\ expected' \subseteq Name \X Pid
         /\ \A x \in Name \ {k} : monitors'[x] = monitors[x]
<1>1. monitors[k] \in MonitorState
  BY DEF TypeOK
<1>2. CASE monitors[k].st = "waiting"
  <2>1. monitors[k].on \in Pid /\ NoMonitor \in MonitorState
    BY <1>1, <1>2 DEF MonitorState, NoMonitor, None
  <2> QED BY <1>2, <2>1 DEF release, TypeOK
<1>3. CASE monitors[k].st # "waiting"
  BY <1>3 DEF release, TypeOK
<1> QED BY <1>2, <1>3

\* What the manager forgets of an actor that is stopped.
LEMMA UnlaunchedIs ==
  ASSUME NEW d \in DepmState, NEW k \in Key
  PROVE  /\ Unlaunched(d, k) \in DepmState
         /\ Unlaunched(d, k).launchMap = [d.launchMap EXCEPT ![k] = None]
         /\ Unlaunched(d, k).thread = d.thread /\ Unlaunched(d, k).job = d.job
         /\ Unlaunched(d, k).managed = d.managed /\ Unlaunched(d, k).app = d.app
<1>1. [d.launchMap EXCEPT ![k] = None] \in [Key -> Pid \cup {None}]
  BY DEF DepmState
<1>2. Unlaunched(d, k) = [d EXCEPT !.launchMap = [d.launchMap EXCEPT ![k] = None]]
  BY DEF Unlaunched
<1> QED BY <1>1, <1>2 DEF DepmState

LEMMA StoppedIs ==
  ASSUME NEW d \in DepmState, NEW k \in Key
  PROVE  /\ Stopped(d, k) \in DepmState
         /\ Stopped(d, k).launchMap = [d.launchMap EXCEPT ![k] = None]
         /\ Stopped(d, k).thread = d.thread /\ Stopped(d, k).job = d.job
         /\ Stopped(d, k).managed = d.managed /\ Stopped(d, k).app = d.app
<1> DEFINE u == Unlaunched(d, k)
           run == [u.running EXCEPT ![k] = IF k \in Actor THEN "none" ELSE @]
<1>1. u \in DepmState
  BY UnlaunchedIs
<1>2. Stopped(d, k) = [u EXCEPT !.running = run]
  BY DEF Stopped
<1>3. run \in [Key -> {"none", "started", "registered"}]
  <2> HIDE DEF u
  <2> QED BY <1>1 DEF DepmState
<1>4. /\ Stopped(d, k) \in DepmState /\ Stopped(d, k).launchMap = u.launchMap
      /\ Stopped(d, k).thread = u.thread /\ Stopped(d, k).job = u.job
      /\ Stopped(d, k).managed = u.managed /\ Stopped(d, k).app = u.app
  <2> HIDE DEF u, run
  <2> QED BY <1>1, <1>2, <1>3 DEF DepmState
<1> QED BY <1>4, UnlaunchedIs

\* The data base after a step on it.
LEMMA ForgottenIs ==
  ASSUME db \in DbState, NEW k \in Key
  PROVE  /\ Forgotten(k) \in DbState /\ Forgotten(k).swept = db.swept
         /\ Forgotten(k).recs = db.recs \/ Forgotten(k).recs = Without(db.recs, k)
BY DEF Forgotten, DbState, Without

LEMMA GivenIs ==
  ASSUME TypeOK, NEW k \in Key
  PROVE  /\ Given(k) \subseteq Pid /\ term \subseteq Given(k)
         /\ Runs(proc, depm.launchMap[k]) => depm.launchMap[k] \in Given(k)
<1>1. depm.launchMap[k] \in Pid \cup {None}
  BY DEF TypeOK, DepmState
<1> QED BY <1>1 DEF Given, Up, Runs, TypeOK

\* A process that changes its phase, if it runs.
LEMMA PhaseLater ==
  ASSUME NEW P \in Processes, Ordered(P), NEW p \in Pid, P[p].phase \notin {"free", "dead"},
         NEW ph \in Phase \ {"free"}, NEW P2, P2 = [P EXCEPT ![p].phase = ph]
  PROVE  P2 \in Processes /\ Ordered(P2) /\ Later(P, P2)
<1>1. /\ P2 \in Processes
      /\ \A q \in Pid : P2[q].phase = IF q = p THEN ph ELSE P[q].phase
  BY DEF Processes
<1> QED BY <1>1 DEF Ordered, Later, Runs

LEMMA SameLater ==
  ASSUME NEW P, Ordered(P) PROVE Ordered(P) /\ Later(P, P)
BY DEF Later

LEMMA HeardLater ==
  ASSUME proc \in Processes, Ordered(proc), NEW p \in Pid
  PROVE  Heard(p) \in Processes /\ Ordered(Heard(p)) /\ Later(proc, Heard(p))
<1>1. CASE proc[p].phase = "asking"
  BY <1>1, PhaseLater DEF Heard, Phase
<1>2. CASE proc[p].phase # "asking"
  BY <1>2, SameLater DEF Heard
<1> QED BY <1>1, <1>2

LEMMA SpawnNext ==
  ASSUME NEW d, NEW for \in {"command", "procmon", "device", "recover"}, NEW k \in Key,
         NEW from \in Pid \cup {None}, for = "device" => from \in Pid,
         NEW B, NEW T, NEW M, Good(proc, d, B, T, M), Spawn(d, for, k, from),
         d.app, d.thread \notin Away \cup {"busy"}
  PROVE  Good(proc', depm', B, T, M)
<1>1. PICK p \in Pid :
        /\ IsFresh(p)
        /\ proc' = [proc EXCEPT ![p] = Process(k, "boot")]
        /\ depm' = [d EXCEPT !.thread = "busy", !.managed = @ \cup {k},
                             !.job = [for |-> for, who |-> k, pid |-> p, from |-> from]]
  BY DEF Spawn
<1> DEFINE job == [for |-> for, who |-> k, pid |-> p, from |-> from]
<1>2. job \in Job /\ job.who = k /\ job.pid = p
  BY DEF Job
<1>3. /\ depm' \in DepmState /\ depm'.thread = "busy" /\ depm'.job = job /\ depm'.app
      /\ depm'.managed = d.managed \cup {job.who} /\ depm'.launchMap = d.launchMap
  <2>1. depm' = [d EXCEPT !.thread = "busy", !.managed = @ \cup {k}, !.job = job]
    BY <1>1 DEF job
  <2> HIDE DEF job
  <2> QED BY <1>2, <2>1 DEF Good, Typed, DepmState, Threads
<1> HIDE DEF job
<1>4. proc[p].phase = "free" /\ \A q \in 1 .. p - 1 : proc[q].phase # "free"
  BY <1>1 DEF IsFresh
<1>5. proc \in Processes /\ Ordered(proc)
  BY DEF Good, Typed, Numbered, Ordered
<1>6. k \in Name /\ "boot" \in Phase \ {"free", "dead"}
  BY DEF Name, Phase
<1>7. proc' \in Processes /\ Ordered(proc') /\ Later(proc, proc') /\ proc'[p].phase # "free"
  BY <1>1, <1>4, <1>5, <1>6, FreshLater
<1> QED BY <1>2, <1>3, <1>4, <1>7, SpawnGood


--------------------------------------------------------------------------------
(* Steps that leave what is launched alone *)

LEMMA GoodTypes ==
  ASSUME KeptInv
  PROVE  /\ KeptGood /\ TypeOK /\ Typed(proc, depm, db, term, monitors)
         /\ proc \in Processes /\ Ordered(proc) /\ depm \in DepmState /\ db \in DbState
         /\ monitors \in [Name -> MonitorState] /\ term \subseteq Pid
         /\ depm.thread = "busy" <=> depm.job # NoJob
BY DEF KeptInv, KeptGood, Good, Typed, Numbered, Ordered

LEMMA UnchangedGood ==
  ASSUME KeptGood, UNCHANGED <<proc, depm, db, term, monitors>>
  PROVE  KeptGood'
BY DEF KeptGood

LEMMA SameFollows ==
  ASSUME NEW M, NEW M2, \A k \in Key : M2[k] = M[k] PROVE Follows(M, M2)
BY DEF Follows

LEMMA SameHeld == ASSUME NEW P2, NEW T, NEW T2, T \subseteq T2 PROVE Held(P2, T, T2)
BY DEF Held

\* Only processes change.
LEMMA ProcGood ==
  ASSUME KeptInv, proc' \in Processes, Ordered(proc'), Later(proc, proc'),
         UNCHANGED <<depm, db, term, monitors>>
  PROVE  KeptGood'
<1>1. Typed(proc', depm', db', term', monitors')
  BY GoodTypes DEF Typed
<1>2. Follows(monitors, monitors') /\ Held(proc', term, term')
  BY DEF Follows, Held
<1>3. Good(proc, depm, db, term, monitors)
  BY DEF KeptInv, KeptGood
<1>4. Good(proc', depm', db', term', monitors')
  BY <1>1, <1>2, <1>3, StillGood
<1> QED BY <1>4 DEF KeptGood

\* A monitor thread changes its state.
LEMMA MonitorGood ==
  ASSUME KeptInv, monitors' \in [Name -> MonitorState], Follows(monitors, monitors'),
         UNCHANGED <<proc, depm, db, term>>
  PROVE  KeptGood'
<1>1. Typed(proc', depm', db', term', monitors')
  BY GoodTypes DEF Typed
<1>2. Ordered(proc') /\ Later(proc, proc') /\ Held(proc', term, term')
  BY GoodTypes, SameLater DEF Held
<1>3. Good(proc, depm, db, term, monitors)
  BY DEF KeptInv, KeptGood
<1>4. Good(proc', depm', db', term', monitors')
  BY <1>1, <1>2, <1>3, StillGood
<1> QED BY <1>4 DEF KeptGood

LEMMA LeaveLater ==
  ASSUME KeptInv, NEW p \in Pid, Up(p)
  PROVE  Leave(p) \in Processes /\ Ordered(Leave(p)) /\ Later(proc, Leave(p))
BY GoodTypes, PhaseLater DEF Leave, Up, Phase

\* Threads of the process monitors and of the executor.
LEMMA WakeGood ==
  ASSUME KeptInv, NEW k \in Name, Wake(k)
  PROVE  KeptGood'
<1>1. monitors[k] \in MonitorState /\ monitors[k].st = "waiting"
  BY GoodTypes DEF Wake
<1> DEFINE new == [monitors[k] EXCEPT !.st = "asking"]
<1>2. new \in MonitorState /\ new.st # "none" /\ new.next = monitors[k].next
  BY <1>1 DEF MonitorState
<1>3. monitors' = [monitors EXCEPT ![k] = new]
  BY DEF Wake
<1> HIDE DEF new
<1>4. monitors' \in [Name -> MonitorState] /\ Follows(monitors, monitors')
  BY <1>2, <1>3, GoodTypes DEF Follows, Name
<1> QED BY <1>4, MonitorGood DEF Wake

LEMMA ReapGood ==
  ASSUME KeptInv, NEW p \in Pid, Reap(p)
  PROVE  KeptGood'
<1>1. Typed(proc', depm', db', term', monitors')
  BY GoodTypes DEF Reap, Typed
<1>2. Follows(monitors, monitors') /\ Held(proc', term, term')
  BY GoodTypes DEF Reap, Follows, Held, Up, Runs
<1>3. Ordered(proc') /\ Later(proc, proc')
  BY GoodTypes, SameLater DEF Reap
<1>4. Good(proc, depm, db, term, monitors)
  BY DEF KeptInv, KeptGood
<1>5. Good(proc', depm', db', term', monitors')
  BY <1>1, <1>2, <1>3, <1>4, StillGood DEF Reap
<1> QED BY <1>5 DEF KeptGood

LEMMA ThreadingGood == ASSUME KeptInv, Threading PROVE KeptGood'
<1>1. ASSUME NEW k \in Name, NEW p \in Pid, Depart(k, p) PROVE KeptGood'
  BY <1>1, GoodTypes, UnchangedGood DEF Depart
<1>2. ASSUME NEW p \in Pid, Terminate(p) PROVE KeptGood'
  <2>1. Up(p) /\ UNCHANGED <<depm, db, term, monitors>>
    BY <1>2 DEF Terminate
  <2>2. proc' = [proc EXCEPT ![p].phase = "releasing"] \/ proc' = Leave(p)
    BY <1>2 DEF Terminate
  <2>3. proc' \in Processes /\ Ordered(proc') /\ Later(proc, proc')
    BY <2>1, <2>2, GoodTypes, LeaveLater, PhaseLater DEF Up, Phase
  <2> QED BY <2>1, <2>3, ProcGood
<1>3. ASSUME NEW p \in Pid, Kill(p) PROVE KeptGood'
  BY <1>3, LeaveLater, ProcGood DEF Kill
<1> QED BY <1>1, <1>2, <1>3, WakeGood, ReapGood DEF Threading

\* Actors, and processes that die.
LEMMA ActorsGood == ASSUME KeptInv, Actors PROVE KeptGood'
<1>1. ASSUME NEW p \in Pid, Boot(p) PROVE KeptGood'
  <2>1. proc' \in Processes /\ Ordered(proc') /\ Later(proc, proc')
    BY <1>1, GoodTypes, PhaseLater DEF Boot, Phase
  <2> QED BY <1>1, <2>1, ProcGood DEF Boot
<1>2. ASSUME NEW p \in Pid, GiveUp(p) PROVE KeptGood'
  <2>1. PICK ph \in {"dead", "mute"} : proc' = [proc EXCEPT ![p].phase = ph]
    BY <1>2 DEF GiveUp
  <2>2. proc' \in Processes /\ Ordered(proc') /\ Later(proc, proc')
    BY <1>2, <2>1, GoodTypes, PhaseLater DEF GiveUp, Phase
  <2> QED BY <1>2, <2>2, ProcGood DEF GiveUp
<1>3. ASSUME NEW p \in Pid, Reregister(p) PROVE KeptGood'
  BY <1>3, GoodTypes, UnchangedGood DEF Reregister
<1> QED BY <1>1, <1>2, <1>3 DEF Actors

\* Processes end, and others wait for an answer of the one that has ended.
LEMMA EndingIs ==
  ASSUME KeptInv, NEW ended, NEW lost
  PROVE  /\ Ending(ended, lost) \in Processes
         /\ Ordered(Ending(ended, lost)) /\ Later(proc, Ending(ended, lost))
         /\ \A p \in Pid : Ending(ended, lost)[p].phase = "free" <=> proc[p].phase = "free"
<1> DEFINE next(p) == IF p \in ended /\ Up(p) THEN [proc[p] EXCEPT !.phase = "dead"]
                      ELSE IF p \in lost THEN [proc[p] EXCEPT !.stuck = TRUE]
                      ELSE proc[p]
<1>1. ASSUME NEW p \in Pid
      PROVE  /\ next(p) \in [who : Name, phase : Phase, stuck : BOOLEAN]
             /\ next(p).phase \in {proc[p].phase, "dead"}
             /\ next(p).phase = "free" <=> proc[p].phase = "free"
  BY GoodTypes DEF Processes, Phase, Up
<1>2. Ending(ended, lost) = [p \in Pid |-> next(p)]
  BY DEF Ending
<1> HIDE DEF next
<1>3. Ending(ended, lost) \in Processes
  BY <1>1, <1>2 DEF Processes
<1>4. Ordered(Ending(ended, lost))
  BY <1>1, <1>2, GoodTypes DEF Ordered
<1>5. Later(proc, Ending(ended, lost))
  BY <1>1, <1>2 DEF Later, Runs
<1> QED BY <1>1, <1>2, <1>3, <1>4, <1>5

LEMMA DieGood == ASSUME KeptInv, NEW p \in Pid, Die(p) PROVE KeptGood'
BY EndingIs, ProcGood DEF Die

LEMMA CallGood == ASSUME KeptInv, NEW op, NEW k, Call(op, k) PROVE KeptGood'
BY GoodTypes, UnchangedGood DEF Call


--------------------------------------------------------------------------------
(* Commands *)

\* The manager starts a discovery service, or changes what the invariant leaves alone.
LEMMA DepmGood ==
  ASSUME KeptInv, proc' \in Processes, Ordered(proc'), Later(proc, proc'),
         depm' \in DepmState, depm.thread \notin Away \cup {"busy"},
         depm'.thread \notin Away \cup {"busy"}, depm'.job = depm.job,
         depm'.managed = depm.managed, depm'.launchMap = depm.launchMap,
         depm.app => depm'.app,
         db' \in DbState, db'.recs = db.recs, db'.swept = db.swept,
         monitors' \in [Name -> MonitorState], Follows(monitors, monitors'),
         term \subseteq term', term' \subseteq Pid
  PROVE  KeptGood'
<1>1. Typed(proc', depm', db', term', monitors')
  BY GoodTypes DEF Typed
<1>2. Held(proc', term, term')
  BY DEF Held
<1>3. Good(proc, depm, db, term, monitors)
  BY DEF KeptInv, KeptGood
<1>4. Good(proc', depm', db', term', monitors')
  BY <1>1, <1>2, <1>3, StillGood DEF Away
<1> QED BY <1>4 DEF KeptGood

LEMMA StartDiscoIs ==
  ASSUME KeptInv, NEW p \in Pid, startDisco(p)
  PROVE  /\ proc' \in Processes /\ Ordered(proc') /\ Later(proc, proc')
         /\ db' \in DbState /\ db'.recs = db.recs /\ db'.swept = db.swept
<1>1. Disco \in Name /\ "ready" \in Phase \ {"free", "dead"}
  BY DEF Name, Phase
<1>2. proc' \in Processes /\ Ordered(proc') /\ Later(proc, proc')
  BY <1>1, FreshLater, GoodTypes DEF startDisco, IsFresh
<1>3. db' \in DbState /\ db'.recs = db.recs /\ db'.swept = db.swept
  BY GoodTypes DEF startDisco, DbState
<1> QED BY <1>2, <1>3

\* The monitor of the discovery service is nobody's in launchMap.
LEMMA DiscoFollows ==
  ASSUME NEW M, NEW M2, \A x \in Name \ {Disco} : M2[x] = M[x]
  PROVE  Follows(M, M2)
BY NodeAssumption DEF Follows, Key, Name

LEMMA SetupDiscoGood == ASSUME KeptInv, setupDisco PROVE KeptGood'
<1>1. CASE depm.disco = None
  <2>1. PICK p \in Pid :
          startDisco(p) /\ depm' = [depm EXCEPT !.disco = p] /\ monitors' = Monitoring(Disco, p)
    BY <1>1 DEF setupDisco
  <2>2. /\ depm' \in DepmState /\ depm'.thread = depm.thread /\ depm'.job = depm.job
        /\ depm'.managed = depm.managed /\ depm'.launchMap = depm.launchMap
        /\ depm'.app = depm.app
    BY <2>1, GoodTypes DEF DepmState
  <2>3. monitors' \in [Name -> MonitorState] /\ Follows(monitors, monitors')
    BY <2>1, GoodTypes, MonitoringIs, DiscoFollows DEF Name
  <2>4. depm.thread = "idle" /\ term' = term
    BY DEF setupDisco, Told
  <2> QED BY <2>1, <2>2, <2>3, <2>4, StartDiscoIs, GoodTypes, DepmGood DEF Away
<1>2. CASE depm.disco # None
  BY <1>2, GoodTypes, UnchangedGood DEF setupDisco
<1> QED BY <1>1, <1>2

LEMMA SetupAppGood == ASSUME KeptInv, setupApp PROVE KeptGood'
<1>1. /\ depm' \in DepmState /\ depm'.thread = depm.thread /\ depm'.job = depm.job
      /\ depm'.managed = depm.managed /\ depm'.launchMap = depm.launchMap /\ depm'.app
  BY GoodTypes DEF setupApp, loadModel, DepmState
<1>2. db' \in DbState /\ db'.recs = db.recs /\ db'.swept = db.swept
  BY GoodTypes DEF setupApp, addApp, DbState
<1>3. Follows(monitors, monitors') /\ Ordered(proc') /\ Later(proc, proc')
  BY GoodTypes, SameLater, SameFollows DEF setupApp
<1>4. depm.thread = "idle"
  BY DEF setupApp, Told
<1> QED BY <1>1, <1>2, <1>3, <1>4, GoodTypes, DepmGood DEF setupApp, Away

LEMMA CleanupAppGood == ASSUME KeptInv, cleanupApp PROVE KeptGood'
<1>1. CASE depm.app
  <2>1. depm.thread = "idle" /\ UNCHANGED <<proc, term, monitors>>
    BY DEF cleanupApp, Told
  <2>2. /\ depm' \in DepmState /\ depm'.thread = "idle" /\ depm'.job = depm.job
        /\ depm'.managed = {} /\ depm'.launchMap = depm.launchMap
    BY <1>1, <2>1, GoodTypes DEF cleanupApp, DepmState
  <2>3. /\ db' \in DbState /\ db'.recs = {}
        /\ db'.swept = db.swept \cup PidsOf(db.recs \ {})
    <3>1. db.recs \ {} = db.recs /\ PidsOf(db.recs) \subseteq Pid
      BY GoodTypes DEF DbState, PidsOf, Record
    <3> QED BY <1>1, <3>1, GoodTypes DEF cleanupApp, delApp, DbState
  <2>4. Typed(proc', depm', db', term', monitors')
    BY <2>1, <2>2, <2>3, GoodTypes DEF Typed
  <2>5. Good(proc, depm, db, term, monitors)
    BY DEF KeptInv, KeptGood
  <2>6. Ordered(proc') /\ Later(proc, proc')
    BY <2>1, GoodTypes, SameLater
  <2>7. Good(proc', depm', db', term, monitors)
    BY <2>1, <2>2, <2>3, <2>4, <2>5, <2>6, DeletedGood DEF Away
  <2> QED BY <2>1, <2>7 DEF KeptGood
<1>2. CASE ~depm.app
  BY <1>2, GoodTypes, UnchangedGood DEF cleanupApp
<1> QED BY <1>1, <1>2

LEMMA LaunchGood == ASSUME KeptInv, Launch PROVE KeptGood'
<1>1. CASE depm.app
  <2>1. /\ Spawn(depm, "command", command.who, None) /\ depm.thread = "idle"
        /\ UNCHANGED <<db, term, monitors>>
    BY <1>1 DEF Launch, Told
  <2>2. command.who \in Key
    BY GoodTypes DEF TypeOK, Key, Launch, Told
  <2>3. Good(proc, depm, db, term, monitors)
    BY DEF KeptInv, KeptGood
  <2>4. Good(proc', depm', db, term, monitors)
    BY <1>1, <2>1, <2>2, <2>3, SpawnNext DEF Away
  <2> QED BY <2>1, <2>4 DEF KeptGood
<1>2. CASE ~depm.app
  BY <1>2, GoodTypes, UnchangedGood DEF Launch
<1> QED BY <1>1, <1>2

\* A step after which k is not launched, by the state before and after it.
LEMMA StopNext ==
  ASSUME KeptInv, NEW k \in Key, NEW d \in DepmState,
         d = Stopped(depm, k) \/ d = Unlaunched(depm, k),
         depm.thread \notin Away \cup {"busy"}, NEW d2 \in DepmState,
         d2.thread \notin Away \cup {"busy"}, d2.job = d.job, d2.managed = d.managed,
         d2.launchMap = d.launchMap, d2.app = d.app,
         NEW b, b = db \/ b = Forgotten(k), NEW t, t = term \/ t = Given(k),
         k \notin depm.managed \/ t = Given(k) \/ depm.launchMap[k] = None,
         NEW m \in [Name -> MonitorState], \A x \in Name \ {k} : m[x] = monitors[x]
  PROVE  Good(proc, d2, b, t, m)
<1>1. /\ d2.launchMap = [depm.launchMap EXCEPT ![k] = None] /\ d2.job = depm.job
      /\ d2.managed = depm.managed /\ d2.app = depm.app
  <2>1. depm \in DepmState
    BY GoodTypes
  <2>2. CASE d = Stopped(depm, k)
    BY <2>1, <2>2, StoppedIs
  <2>3. CASE d = Unlaunched(depm, k)
    BY <2>1, <2>3, UnlaunchedIs
  <2> QED BY <2>2, <2>3
<1>2. /\ b \in DbState /\ b.swept = db.swept
      /\ b.recs = db.recs \/ b.recs = Without(db.recs, k)
  BY GoodTypes, ForgottenIs
<1>3. /\ t \subseteq Pid /\ Held(proc, term, t)
      /\ k \notin depm.managed \/ (Runs(proc, depm.launchMap[k]) => depm.launchMap[k] \in t)
  BY GoodTypes, GivenIs DEF Held, Runs
<1>4. Typed(proc, d2, b, t, m)
  BY <1>1, <1>2, <1>3, GoodTypes DEF Typed
<1>5. \A x \in Key \ {k} : m[x] = monitors[x]
  BY DEF Name
<1>6. Good(proc, depm, db, term, monitors)
  BY DEF KeptInv, KeptGood
<1> QED BY <1>1, <1>2, <1>3, <1>4, <1>5, <1>6, StopGood

LEMMA HaltActorGood == ASSUME KeptInv, haltActor PROVE KeptGood'
<1> DEFINE k == command.who
<1>0. k \in Key /\ k \in Name /\ depm.thread = "idle" /\ proc' = proc
  BY GoodTypes DEF TypeOK, Key, Name, haltActor, Told
<1> DEFINE s == Stopped(depm, k)
           u == Unlaunched(depm, k)
<1>1. CASE depm.launchMap[k] = None
  BY <1>1, GoodTypes, UnchangedGood DEF haltActor
<1>2. CASE depm.launchMap[k] # None /\ k \in depm.managed
  <2>1. depm' = s /\ Stop(k)
    BY <1>2 DEF haltActor
  <2>2. s \in DepmState /\ s.thread = "idle"
    BY <1>0, GoodTypes, StoppedIs
  <2>3. monitors' \in [Name -> MonitorState] /\ \A x \in Name \ {k} : monitors'[x] = monitors[x]
    BY <1>0, <2>1, GoodTypes, ReleaseIs DEF Stop
  <2>4. Good(proc, s, Forgotten(k), Given(k), monitors')
    BY <1>0, <2>2, <2>3, StopNext DEF Away
  <2> QED BY <1>0, <2>1, <2>4 DEF KeptGood, Stop
<1>3. CASE depm.launchMap[k] # None /\ k \notin depm.managed
  <2>1. depm' = u /\ UNCHANGED <<monitors, term, db>>
    BY <1>3 DEF haltActor
  <2>2. u \in DepmState /\ u.thread = "idle"
    BY <1>0, GoodTypes, UnlaunchedIs
  <2>3. Good(proc, u, db, term, monitors)
    BY <1>0, <1>3, <2>2, GoodTypes, StopNext DEF Away
  <2> QED BY <1>0, <2>1, <2>3 DEF KeptGood
<1> QED BY <1>1, <1>2, <1>3

LEMMA CommandGood == ASSUME KeptInv, Command PROVE KeptGood'
BY SetupDiscoGood, SetupAppGood, CleanupAppGood, LaunchGood, HaltActorGood DEF Command


--------------------------------------------------------------------------------
(* Starts *)

LEMMA StartedNext == ASSUME KeptInv, Started PROVE KeptGood'
<1> DEFINE j == depm.job
           k == j.who
           p == j.pid
           m == Monitoring(k, p)
<1>1. /\ depm.thread = "busy" /\ j \in Job /\ k \in Key /\ k \in Name /\ p \in Pid
      /\ j.for = "device" => j.from \in Pid
  BY GoodTypes DEF Started, DepmState, Job, Name, NoJob
<1>2. /\ depm' \in DepmState /\ depm'.thread \in {"idle", "recover"} /\ depm'.job = NoJob
      /\ depm'.managed = depm.managed /\ depm'.app = depm.app
      /\ depm'.launchMap = [depm.launchMap EXCEPT ![k] = p]
  <2> DEFINE l == [depm.launchMap EXCEPT ![k] = p]
             r == [depm.running EXCEPT ![k] = "started"]
  <2>1. l \in [Key -> Pid \cup {None}] /\ r \in [Key -> {"none", "started", "registered"}]
    BY <1>1, GoodTypes DEF DepmState
  <2>2. depm' = [depm EXCEPT !.thread = Back(j.for), !.job = NoJob, !.launchMap = l, !.running = r]
    BY DEF Started
  <2>3. Back(j.for) \in {"idle", "recover"}
    BY DEF Back
  <2> HIDE DEF l, r, j, k, p
  <2>4. depm' \in DepmState /\ depm'.thread = Back(j.for) /\ depm'.job = NoJob
        /\ depm'.managed = depm.managed /\ depm'.app = depm.app /\ depm'.launchMap = l
    BY <2>1, <2>2, <2>3, GoodTypes DEF DepmState, Threads
  <2> QED BY <2>3, <2>4 DEF l
<1>3. /\ db' \in DbState /\ db'.swept = db.swept
      /\ db'.recs = db.recs \cup {[who |-> k, pid |-> p]}
  <2>1. db' = [db EXCEPT !.recs = @ \cup {[who |-> k, pid |-> p]}]
    BY DEF Started, addAppActor
  <2>2. [who |-> k, pid |-> p] \in Record
    BY <1>1 DEF Record
  <2> HIDE DEF k, p
  <2> QED BY <2>1, <2>2, GoodTypes DEF DbState
<1>4. /\ monitors' \in [Name -> MonitorState]
      /\ monitors'[k].st # "none" /\ monitors'[k].next = p
      /\ \A x \in Key \ {k} : monitors'[x] = monitors[x]
  <2>1. /\ m \in [Name -> MonitorState] /\ m[k].st # "none" /\ m[k].next = p
        /\ \A x \in Name \ {k} : m[x] = monitors[x]
    BY <1>1, GoodTypes, MonitoringIs
  <2>2. monitors' = m \/ monitors' = Answered(k, m)
    BY DEF Started
  <2> HIDE DEF k, p, m
  <2>3. Key \subseteq Name
    BY DEF Name
  <2>4. CASE monitors' = m
    BY <2>1, <2>3, <2>4
  <2>5. CASE monitors' = Answered(k, m)
    BY <1>1, <2>1, <2>3, <2>5, AnsweredIs
  <2> QED BY <2>2, <2>4, <2>5
<1>5. proc' \in Processes /\ Ordered(proc') /\ Later(proc, proc')
  <2>1. CASE j.for = "device"
    BY <1>1, <2>1, GoodTypes, HeardLater DEF Started
  <2>2. CASE j.for # "device"
    BY <2>2, GoodTypes, SameLater DEF Started
  <2> QED BY <2>1, <2>2
<1>6. term' = term
  BY DEF Started
<1>7. Typed(proc', depm', db', term', monitors')
  BY <1>2, <1>3, <1>4, <1>5, <1>6, GoodTypes DEF Typed
<1>8. Good(proc, depm, db, term, monitors)
  BY DEF KeptInv, KeptGood
<1>9. Good(proc', depm', db', term, monitors')
  <2> HIDE DEF m
  <2> QED BY <1>1, <1>2, <1>3, <1>4, <1>5, <1>6, <1>7, <1>8, StartedGood DEF Away
<1> QED BY <1>6, <1>9 DEF KeptGood

LEMMA NotStartedGood == ASSUME KeptInv, NotStarted PROVE KeptGood'
<1> DEFINE j == depm.job
           k == j.who
<1>1. /\ depm.thread = "busy" /\ j \in Job /\ k \in Key
      /\ j.for = "device" => j.from \in Pid
  BY GoodTypes DEF NotStarted, DepmState, Job, NoJob
<1>2. /\ depm' \in DepmState /\ depm'.thread \in {"idle", "recover", "failed"}
      /\ depm'.job = NoJob /\ depm'.managed = depm.managed /\ depm'.app = depm.app
      /\ depm'.launchMap = depm.launchMap
  BY GoodTypes DEF NotStarted, DepmState, Threads, Back
<1>3. proc' \in Processes /\ Ordered(proc') /\ Later(proc, proc')
  <2>1. CASE j.for = "device"
    BY <1>1, <2>1, GoodTypes, HeardLater DEF NotStarted
  <2>2. CASE j.for # "device"
    BY <2>2, GoodTypes, SameLater DEF NotStarted
  <2> QED BY <2>1, <2>2
<1>4. term' = term /\ monitors' = monitors
  BY DEF NotStarted
<1>5. PICK R \in SUBSET db.recs :
        /\ \A r \in R : \A s \in db.recs : s.who = r.who => s \in R
        /\ db' \in DbState /\ db'.recs = R
        /\ db'.swept = db.swept \cup PidsOf(db.recs \ R)
  <2>1. CASE j.for = "recover"
    <3> DEFINE R == Without(db.recs, k)
    <3>1. R \subseteq db.recs /\ \A r \in R : \A s \in db.recs : s.who = r.who => s \in R
      BY DEF Without
    <3>2. db' = [db EXCEPT !.recs = R, !.swept = @ \cup PidsOf(db.recs \ R)]
      BY <2>1 DEF NotStarted, delAppActor
    <3> HIDE DEF R
    <3>3. PidsOf(db.recs \ R) \subseteq Pid
      BY GoodTypes DEF PidsOf, DbState, Record
    <3>4. db' \in DbState /\ db'.recs = R /\ db'.swept = db.swept \cup PidsOf(db.recs \ R)
      BY <3>1, <3>2, <3>3, GoodTypes DEF DbState
    <3> QED BY <3>1, <3>4
  <2>2. CASE j.for # "recover"
    <3>1. db' = db
      BY <2>2 DEF NotStarted
    <3>2. PidsOf(db.recs \ db.recs) = {}
      BY DEF PidsOf
    <3> QED BY <3>1, <3>2, GoodTypes
  <2> QED BY <2>1, <2>2
<1>6. Typed(proc', depm', db', term', monitors')
  BY <1>2, <1>3, <1>4, <1>5, GoodTypes DEF Typed
<1>7. Good(proc, depm, db, term, monitors)
  BY DEF KeptInv, KeptGood
<1>8. Good(proc', depm', db', term, monitors)
  <2> HIDE DEF j, k
  <2> QED BY <1>1, <1>2, <1>3, <1>4, <1>5, <1>6, <1>7, DeletedGood DEF Away
<1> QED BY <1>4, <1>8 DEF KeptGood


--------------------------------------------------------------------------------
(* Messages of the process monitors *)

LEMMA RestartDiscoGood == ASSUME KeptInv, RestartDisco PROVE KeptGood'
<1>1. PICK p \in Pid :
        /\ startDisco(p) /\ depm' = [depm EXCEPT !.disco = p]
        /\ monitors' = Answered(Disco, Monitoring(Disco, p))
  BY DEF RestartDisco
<1>2. /\ depm' \in DepmState /\ depm'.thread = depm.thread /\ depm'.job = depm.job
      /\ depm'.managed = depm.managed /\ depm'.launchMap = depm.launchMap
      /\ depm'.app = depm.app
  BY <1>1, GoodTypes DEF DepmState
<1>3. monitors' \in [Name -> MonitorState] /\ Follows(monitors, monitors')
  <2> DEFINE m == Monitoring(Disco, p)
  <2>1. Disco \in Name
    BY DEF Name
  <2>2. /\ m \in [Name -> MonitorState] /\ m[Disco].st # "none"
        /\ \A x \in Name \ {Disco} : m[x] = monitors[x]
    BY <2>1, GoodTypes, MonitoringIs
  <2>3. monitors' = Answered(Disco, m)
    BY <1>1
  <2> HIDE DEF m
  <2>4. /\ Answered(Disco, m) \in [Name -> MonitorState]
        /\ \A x \in Name \ {Disco} : Answered(Disco, m)[x] = m[x]
    BY <2>1, <2>2, AnsweredIs
  <2> QED BY <2>2, <2>3, <2>4, DiscoFollows
<1>4. depm.thread = "idle" /\ term' = term
  BY DEF RestartDisco, Reported
<1> QED BY <1>1, <1>2, <1>3, <1>4, StartDiscoIs, GoodTypes, DepmGood DEF Away

LEMMA DisregardGood == ASSUME KeptInv, NEW k \in Key, Disregard(k) PROVE KeptGood'
<1>1. k \in Name /\ monitors[k].st # "none"
  BY DEF Disregard, Reported, Name
<1>2. /\ monitors' \in [Name -> MonitorState] /\ monitors'[k].st # "none"
      /\ monitors'[k].next = monitors[k].next
      /\ \A x \in Name \ {k} : monitors'[x] = monitors[x]
  BY <1>1, GoodTypes, AnsweredIs DEF Disregard
<1>3. Follows(monitors, monitors')
  BY <1>2 DEF Follows, Name
<1> QED BY <1>2, <1>3, MonitorGood DEF Disregard

LEMMA RestartActorGood == ASSUME KeptInv, NEW k \in Actor, RestartActor(k) PROVE KeptGood'
<1> DEFINE d == Stopped(depm, k)
           u == Unlaunched(depm, k)
<1>1. k \in Key /\ depm.thread = "idle" /\ monitors' = monitors
  BY DEF Key, RestartActor, Reported
<1>2. /\ d \in DepmState /\ d.thread = "idle" /\ d.app = depm.app
      /\ u \in DepmState /\ u.thread = "idle"
  BY <1>1, GoodTypes, StoppedIs, UnlaunchedIs
<1>3. CASE depm.launchMap[k] = None \/ k \notin depm.managed
  <2>1. depm' = [u EXCEPT !.thread = "failed"] /\ UNCHANGED <<proc, term, db>>
    BY <1>3 DEF RestartActor
  <2>2. /\ depm' \in DepmState /\ depm'.thread = "failed" /\ depm'.job = u.job
        /\ depm'.managed = u.managed /\ depm'.launchMap = u.launchMap /\ depm'.app = u.app
    <3> HIDE DEF u
    <3> QED BY <1>2, <2>1 DEF DepmState, Threads
  <2>3. Good(proc, depm', db, term, monitors)
    BY <1>1, <1>2, <1>3, <2>2, GoodTypes, StopNext DEF Away
  <2> QED BY <1>1, <2>1, <2>3 DEF KeptGood
<1>4. CASE depm.launchMap[k] # None /\ k \in depm.managed
  <2>1. term' = Given(k) /\ db' = Forgotten(k)
    BY <1>4 DEF RestartActor
  <2>2. depm.app
    BY <1>4 DEF KeptInv, KeptGood, Good, Managing
  <2>3. CASE DiscoUp
    <3>1. Spawn(d, "procmon", k, None)
      BY <1>4, <2>3 DEF RestartActor
    <3>2. Good(proc, d, Forgotten(k), Given(k), monitors)
      BY <1>1, <1>2, GoodTypes, StopNext DEF Away
    <3>3. Good(proc', depm', Forgotten(k), Given(k), monitors)
      <4> HIDE DEF d
      <4> QED BY <1>1, <1>2, <2>2, <3>1, <3>2, SpawnNext DEF Away
    <3> QED BY <1>1, <2>1, <3>3 DEF KeptGood
  <2>4. CASE ~DiscoUp
    <3>1. depm' = [d EXCEPT !.thread = "blocked"] /\ proc' = proc
      BY <1>4, <2>4 DEF RestartActor
    <3>2. /\ depm' \in DepmState /\ depm'.thread = "blocked" /\ depm'.job = d.job
          /\ depm'.managed = d.managed /\ depm'.launchMap = d.launchMap /\ depm'.app = d.app
      <4> HIDE DEF d
      <4> QED BY <1>2, <3>1 DEF DepmState, Threads
    <3>3. Good(proc, depm', Forgotten(k), Given(k), monitors)
      BY <1>1, <1>2, <3>2, GoodTypes, StopNext DEF Away
    <3> QED BY <1>1, <2>1, <3>1, <3>3 DEF KeptGood
  <2> QED BY <2>3, <2>4
<1> QED BY <1>3, <1>4

LEMMA RestartDeviceGood == ASSUME KeptInv, NEW k \in Device, RestartDevice(k) PROVE KeptGood'
<1> DEFINE d == Stopped(depm, k)
<1>1. k \in Key /\ depm.thread = "idle" /\ monitors' = monitors /\ db' = db
  BY DEF Key, RestartDevice, Reported
<1>2. d \in DepmState /\ d.thread = "idle" /\ d.app = depm.app
  BY <1>1, GoodTypes, StoppedIs
<1>3. CASE (depm.launchMap[k] # None /\ k \notin depm.managed) \/ ~depm.app
  <2>1. depm' = [d EXCEPT !.thread = "failed"] /\ UNCHANGED <<proc, term>>
    BY <1>3 DEF RestartDevice
  <2>2. /\ depm' \in DepmState /\ depm'.thread = "failed" /\ depm'.job = d.job
        /\ depm'.managed = d.managed /\ depm'.launchMap = d.launchMap /\ depm'.app = d.app
    <3> HIDE DEF d
    <3> QED BY <1>2, <2>1 DEF DepmState, Threads
  <2>3. k \notin depm.managed
    BY <1>3 DEF KeptInv, KeptGood, Good, Managing
  <2>4. Good(proc, depm', db, term, monitors)
    BY <1>1, <1>2, <2>2, <2>3, GoodTypes, StopNext DEF Away
  <2> QED BY <1>1, <2>1, <2>4 DEF KeptGood
<1>4. CASE ~((depm.launchMap[k] # None /\ k \notin depm.managed) \/ ~depm.app)
  <2>1. term' = Given(k) /\ Spawn(d, "procmon", k, None) /\ d.app
    BY <1>2, <1>4 DEF RestartDevice
  <2>2. Good(proc, d, db, Given(k), monitors)
    BY <1>1, <1>2, GoodTypes, StopNext DEF Away
  <2>3. Good(proc', depm', db, Given(k), monitors)
    <3> HIDE DEF d
    <3> QED BY <1>1, <1>2, <2>1, <2>2, SpawnNext DEF Away
  <2> QED BY <1>1, <2>1, <2>3 DEF KeptGood
<1> QED BY <1>3, <1>4

LEMMA ProcmonGood == ASSUME KeptInv, handleProcmon PROVE KeptGood'
BY RestartDiscoGood, RestartActorGood, RestartDeviceGood, DisregardGood DEF handleProcmon, Key


--------------------------------------------------------------------------------
(* Requests *)

LEMMA ActorRegGood == ASSUME KeptInv, NEW p \in Pid, handleActorReg(p) PROVE KeptGood'
<1>1. /\ proc' \in Processes /\ Ordered(proc') /\ Later(proc, proc')
  <2>1. CASE proc' = proc
    BY <2>1, GoodTypes, SameLater
  <2>2. CASE proc' # proc
    <3>1. Joined(p) /\ proc[p].phase = "joining"
      BY <2>2 DEF handleActorReg, Joined
    <3>2. PICK ph \in {"ready", "asking"} : proc' = [proc EXCEPT ![p].phase = ph]
      BY <3>1 DEF Joined
    <3> QED BY <3>1, <3>2, GoodTypes, PhaseLater DEF Phase
  <2> QED BY <2>1, <2>2
<1>2. /\ depm.thread = "idle" /\ UNCHANGED <<db, term, monitors>>
  BY DEF handleActorReg, Serves
<1>3. /\ depm' \in DepmState /\ depm'.thread = depm.thread /\ depm'.job = depm.job
      /\ depm'.managed = depm.managed /\ depm'.launchMap = depm.launchMap
      /\ depm'.app = depm.app
  <2> DEFINE k == proc[p].who
             r == [depm.running EXCEPT ![k] = "registered"]
  <2>1. \/ depm' = [depm EXCEPT !.owing = TRUE]
        \/ depm' = [depm EXCEPT !.running = r]
        \/ depm' = depm
    BY DEF handleActorReg, Unanswered
  <2>2. r \in [Key -> {"none", "started", "registered"}]
    BY GoodTypes DEF DepmState
  <2> HIDE DEF r
  <2> QED BY <2>1, <2>2, GoodTypes DEF DepmState
<1> QED BY <1>1, <1>2, <1>3, GoodTypes, SameFollows, DepmGood DEF Away

LEMMA DeviceReqGood == ASSUME KeptInv, NEW p \in Pid, handleDeviceReq(p) PROVE KeptGood'
<1>1. PICK k \in DevicesOf(proc[p].who) :
        /\ depm.thread = "idle" /\ UNCHANGED <<monitors, term, db>>
        /\ IF depm.app THEN Spawn(depm, "device", k, p)
           ELSE proc' = Heard(p) /\ depm' = depm
  BY DEF handleDeviceReq, Serves
<1>2. CASE depm.app
  <2>1. k \in Key
    BY DEF DevicesOf, Key
  <2>2. Good(proc, depm, db, term, monitors)
    BY DEF KeptInv, KeptGood
  <2>3. Good(proc', depm', db, term, monitors)
    BY <1>1, <1>2, <2>1, <2>2, SpawnNext DEF Away
  <2> QED BY <1>1, <2>3 DEF KeptGood
<1>3. CASE ~depm.app
  BY <1>1, <1>3, GoodTypes, HeardLater, ProcGood
<1> QED BY <1>2, <1>3

\* The processes change, and nothing else.
LEMMA LaterGood ==
  ASSUME NEW P, NEW D, NEW B, NEW T, NEW M, Good(P, D, B, T, M),
         NEW P2 \in Processes, Ordered(P2), Later(P, P2)
  PROVE  Good(P2, D, B, T, M)
<1>1. Typed(P2, D, B, T, M)
  BY DEF Good, Typed
<1>2. Follows(M, M) /\ Held(P2, T, T)
  BY DEF Follows, Held
<1> QED BY <1>1, <1>2, StillGood

LEMMA DeviceRelGood == ASSUME KeptInv, NEW p \in Pid, handleDeviceRel(p) PROVE KeptGood'
<1>0. PICK k \in DevicesOf(proc[p].who) :
        /\ depm.thread = "idle"
        /\ IF depm.launchMap[k] # None /\ k \notin depm.managed
             THEN /\ depm' = [Unlaunched(depm, k) EXCEPT !.owing = TRUE]
                  /\ UNCHANGED <<proc, monitors, term, db>>
             ELSE /\ proc' = IF proc[p].phase = "releasing" /\ ~proc[p].stuck THEN Leave(p) ELSE proc
                  /\ IF depm.launchMap[k] = None
                       THEN UNCHANGED <<depm, monitors, term, db>>
                       ELSE depm' = Stopped(depm, k) /\ Stop(k)
  BY DEF handleDeviceRel, Serves, Unanswered
<1> DEFINE s == Stopped(depm, k)
           u == Unlaunched(depm, k)
<1>1. k \in Key /\ k \in Name
  BY DEF DevicesOf, Key, Name
<1>2. s \in DepmState /\ s.thread = "idle" /\ u \in DepmState /\ u.thread = "idle"
  BY <1>0, <1>1, GoodTypes, StoppedIs, UnlaunchedIs
<1>3. CASE depm.launchMap[k] # None /\ k \notin depm.managed
  <2>1. depm' = [u EXCEPT !.owing = TRUE] /\ UNCHANGED <<proc, monitors, term, db>>
    BY <1>0, <1>3
  <2>2. /\ depm' \in DepmState /\ depm'.thread = "idle" /\ depm'.job = u.job
        /\ depm'.managed = u.managed /\ depm'.launchMap = u.launchMap /\ depm'.app = u.app
    <3> HIDE DEF u
    <3> QED BY <1>2, <2>1 DEF DepmState
  <2>3. Good(proc, depm', db, term, monitors)
    BY <1>0, <1>1, <1>2, <1>3, <2>2, GoodTypes, StopNext DEF Away
  <2> QED BY <2>1, <2>3 DEF KeptGood
<1>4. CASE ~(depm.launchMap[k] # None /\ k \notin depm.managed)
  <2>1. proc' \in Processes /\ Ordered(proc') /\ Later(proc, proc')
    <3>1. proc' = IF proc[p].phase = "releasing" /\ ~proc[p].stuck THEN Leave(p) ELSE proc
      BY <1>0, <1>4
    <3>2. proc[p].phase = "releasing" => Up(p)
      BY NodeAssumption DEF Up, Pid, None
    <3> QED BY <3>1, <3>2, GoodTypes, LeaveLater, SameLater
  <2>2. CASE depm.launchMap[k] = None
    BY <1>0, <1>4, <2>1, <2>2, ProcGood
  <2>3. CASE depm.launchMap[k] # None
    <3>1. depm' = s /\ Stop(k)
      BY <1>0, <1>4, <2>3
    <3>2. monitors' \in [Name -> MonitorState] /\ \A x \in Name \ {k} : monitors'[x] = monitors[x]
      BY <1>1, <3>1, GoodTypes, ReleaseIs DEF Stop
    <3>3. Good(proc, s, Forgotten(k), Given(k), monitors')
      BY <1>0, <1>1, <1>2, <3>2, StopNext DEF Away
    <3>4. Good(proc', s, Forgotten(k), Given(k), monitors')
      <4> HIDE DEF s
      <4> QED BY <2>1, <3>3, LaterGood
    <3> QED BY <3>1, <3>4 DEF KeptGood, Stop
  <2> QED BY <2>2, <2>3
<1> QED BY <1>3, <1>4

LEMMA ManagerGood == ASSUME KeptInv, Manager PROVE KeptGood'
BY CommandGood, StartedNext, NotStartedGood, ProcmonGood, ActorRegGood, DeviceReqGood,
   DeviceRelGood DEF Manager

--------------------------------------------------------------------------------
(* Shutdown and recovery *)

LEMMA BlankIs ==
  ASSUME NEW thread \in Threads \ {"busy"}
  PROVE  /\ Blank(thread) \in DepmState /\ Blank(thread).thread = thread
         /\ Blank(thread).job = NoJob /\ Blank(thread).managed = {}
         /\ \A k \in Key : Blank(thread).launchMap[k] = None
BY DEF Blank, DepmState

LEMMA NoMonitors == [k \in Name |-> NoMonitor] \in [Name -> MonitorState]
BY DEF NoMonitor, MonitorState

LEMMA CrashGood == ASSUME KeptInv, Crash PROVE KeptGood'
<1>1. /\ depm' = Blank("down") /\ monitors' = [k \in Name |-> NoMonitor]
      /\ term' = {} /\ proc' = proc /\ db' = db
  BY DEF Crash, Gone
<1>2. Typed(proc, Blank("down"), db, {}, [k \in Name |-> NoMonitor])
  BY GoodTypes, BlankIs, NoMonitors DEF Typed, Threads
<1>3. Numbered(proc, db)
  BY DEF KeptInv, KeptGood, Good
<1>4. Good(proc, Blank("down"), db, {}, [k \in Name |-> NoMonitor])
  BY <1>2, <1>3, GoneGood
<1> QED BY <1>1, <1>4 DEF KeptGood

LEMMA StopServiceGood == ASSUME KeptInv, stop PROVE KeptGood'
<1>1. /\ depm' = Blank("down") /\ monitors' = [k \in Name |-> NoMonitor] /\ term' = {}
      /\ db' = [disco |-> None, app |-> FALSE, recs |-> {}, swept |-> {}]
  BY DEF stop, Gone
<1>2. PICK ended, lost : proc' = Ending(ended, lost)
  BY DEF stop
<1>3. proc' \in Processes
  BY <1>2, EndingIs
<1>4. Ordered(proc')
  BY <1>2, EndingIs
<1>5. db' \in DbState /\ db'.recs = {}
  BY <1>1 DEF DbState
<1>6. Typed(proc', depm', db', term', monitors')
  BY <1>1, <1>3, <1>5, BlankIs, NoMonitors DEF Typed, Threads
<1>7. Good(proc', depm', db', term', monitors')
  <2>1. depm'.thread = "down" /\ depm'.managed = {} /\ \A k \in Key : depm'.launchMap[k] = None
    BY <1>1, BlankIs DEF Threads
  <2> QED BY <1>4, <1>5, <1>6, <2>1, EmptyGood
<1> QED BY <1>7 DEF KeptGood

\* Before the actors are started again nothing is launched.
LEMMA AwayIs ==
  ASSUME KeptInv, depm.thread \in Away
  PROVE  /\ \A k \in Key : depm.launchMap[k] = None
         /\ depm.app \/ depm.managed = {}
         /\ Numbered(proc, db)
         /\ depm.thread = "sweep" => db.recs \subseteq depm.orphans
BY DEF KeptInv, KeptGood, Good, Managing, Sweeping

LEMMA RecoverGood == ASSUME KeptInv, Recover PROVE KeptGood'
<1>1. /\ depm.thread \in Away /\ UNCHANGED <<proc, db, term, monitors>>
      /\ depm' = [depm EXCEPT !.thread = "sweep", !.todo = db.recs, !.orphans = db.recs]
  BY DEF Recover, Away
<1>2. db.recs \subseteq Record
  BY GoodTypes DEF DbState
<1>3. /\ depm' \in DepmState /\ depm'.thread = "sweep" /\ depm'.job = depm.job
      /\ depm'.launchMap = depm.launchMap /\ depm'.orphans = db.recs
      /\ depm'.app = depm.app /\ depm'.managed = depm.managed
  BY <1>1, <1>2, GoodTypes DEF DepmState, Threads
<1>4. Typed(proc', depm', db', term', monitors')
  BY <1>1, <1>3, GoodTypes DEF Typed, Away
<1>5. Good(proc', depm', db', term', monitors')
  BY <1>1, <1>3, <1>4, AwayIs, AwayGood DEF Away
<1> QED BY <1>5 DEF KeptGood

LEMMA StopOrphanGood == ASSUME KeptInv, NEW r \in Record, stopOrphanActor(r) PROVE KeptGood'
<1> DEFINE left == depm.orphans \ {r}
           recs == Without(db.recs, r.who)
<1>1. /\ depm.thread = "sweep" /\ depm.thread \in Away /\ UNCHANGED <<term, monitors>>
      /\ depm' = [depm EXCEPT !.orphans = left] /\ db' = [db EXCEPT !.recs = recs]
      /\ proc' = IF Up(r.pid) THEN Leave(r.pid) ELSE proc
  BY DEF stopOrphanActor, Away
<1>2. recs \subseteq db.recs /\ r \notin recs /\ left \subseteq depm.orphans
  BY DEF Without
<1> HIDE DEF left
<1>3. /\ depm' \in DepmState /\ depm'.thread = "sweep" /\ depm'.job = depm.job
      /\ depm'.launchMap = depm.launchMap /\ depm'.orphans = left
      /\ depm'.app = depm.app /\ depm'.managed = depm.managed
  BY <1>1, <1>2, GoodTypes DEF DepmState
<1> HIDE DEF recs
<1>4. db' \in DbState /\ db'.recs = recs
  BY <1>1, <1>2, GoodTypes DEF DbState
<1>5. proc' \in Processes /\ Ordered(proc') /\ Later(proc, proc')
  BY <1>1, GoodTypes, LeaveLater, SameLater DEF Record
<1>6. Typed(proc', depm', db', term', monitors')
  BY <1>1, <1>3, <1>4, <1>5, GoodTypes DEF Typed
<1>7. Numbered(proc', db')
  <2>1. \A s \in db.recs : s.pid \in Pid
    BY GoodTypes, RecordIs
  <2> QED BY <1>1, <1>2, <1>4, <1>5, <2>1, AwayIs DEF Numbered, Ordered, Later
<1>8. recs \subseteq left
  BY <1>1, <1>2, AwayIs DEF left
<1>9. Good(proc', depm', db', term', monitors')
  BY <1>1, <1>3, <1>4, <1>6, <1>7, <1>8, AwayIs, AwayGood
<1> QED BY <1>9 DEF KeptGood

LEMMA RecoverDiscoGood == ASSUME KeptInv, RecoverDisco PROVE KeptGood'
<1>1. /\ depm.thread \in Away /\ term' = term /\ db.recs = {}
      /\ \A k \in Key : depm.launchMap[k] = None
      /\ depm.app \/ depm.managed = {}
  BY AwayIs DEF RecoverDisco, Away
<1>2. SUFFICES ASSUME proc' \in Processes, Ordered(proc'),
                      db' \in DbState, db'.recs = {},
                      depm' \in DepmState, depm'.thread \in {"recover", "unregister"},
                      depm'.job = depm.job,
                      depm'.managed = depm.managed, depm'.launchMap = depm.launchMap,
                      depm'.app = depm.app,
                      monitors' \in [Name -> MonitorState]
               PROVE  KeptGood'
  <2>1. CASE db.disco = None
    <3>1. /\ UNCHANGED <<proc, db, monitors>>
          /\ depm' = [depm EXCEPT !.thread = "recover"]
      BY <2>1 DEF RecoverDisco
    <3>2. /\ depm' \in DepmState /\ depm'.thread = "recover" /\ depm'.job = depm.job
          /\ depm'.managed = depm.managed /\ depm'.launchMap = depm.launchMap
          /\ depm'.app = depm.app
      BY <3>1, GoodTypes DEF DepmState, Threads
    <3> QED BY <1>1, <1>2, <3>1, <3>2, GoodTypes
  <2>2. CASE db.disco # None
    <3>1. PICK q \in Pid, lost \in SUBSET Callers :
            /\ IsFresh(q)
            /\ proc' = [Ending({db.disco}, lost) EXCEPT ![q] = Process(Disco, "ready")]
            /\ depm' = [depm EXCEPT !.thread = "unregister", !.disco = q]
            /\ db' = [db EXCEPT !.disco = q]
            /\ monitors' = Monitoring(Disco, q)
      BY <2>2 DEF RecoverDisco
    <3> DEFINE E == Ending({db.disco}, lost)
    <3>2. /\ E \in Processes /\ Ordered(E)
          /\ \A p \in Pid : E[p].phase = "free" <=> proc[p].phase = "free"
      BY EndingIs
    <3>3. proc' = [E EXCEPT ![q] = Process(Disco, "ready")]
      BY <3>1
    <3> HIDE DEF E
    <3>4. E[q].phase = "free" /\ \A x \in 1 .. q - 1 : E[x].phase # "free"
      <4>1. ASSUME NEW x \in 1 .. q - 1 PROVE E[x].phase # "free"
        <5>1. x \in Pid
          BY NodeAssumption DEF Pid
        <5> QED BY <3>1, <3>2, <5>1 DEF IsFresh
      <4> QED BY <3>1, <3>2, <4>1 DEF IsFresh
    <3>5. Disco \in Name /\ "ready" \in Phase \ {"free", "dead"}
      BY DEF Name, Phase
    <3>6. proc' \in Processes /\ Ordered(proc')
      BY <3>2, <3>3, <3>4, <3>5, FreshLater
    <3>7. db' \in DbState /\ db'.recs = {}
      BY <1>1, <3>1, GoodTypes DEF DbState
    <3>8. /\ depm' \in DepmState /\ depm'.thread = "unregister" /\ depm'.job = depm.job
          /\ depm'.managed = depm.managed /\ depm'.launchMap = depm.launchMap
          /\ depm'.app = depm.app
      BY <3>1, GoodTypes DEF DepmState, Threads
    <3>9. monitors' \in [Name -> MonitorState]
      BY <3>1, <3>5, GoodTypes, MonitoringIs
    <3> QED BY <1>2, <3>6, <3>7, <3>8, <3>9
  <2> QED BY <2>1, <2>2
<1>3. Typed(proc', depm', db', term', monitors')
  BY <1>1, <1>2, GoodTypes DEF Typed, Away
<1>4. Good(proc', depm', db', term', monitors')
  BY <1>1, <1>2, <1>3, EmptyGood
<1> QED BY <1>4 DEF KeptGood

LEMMA UnregisterGood == ASSUME KeptInv, unregisterOrphanActor PROVE KeptGood'
<1>1. PICK t \in {"recover", "blocked"} : depm' = [depm EXCEPT !.thread = t]
  BY DEF unregisterOrphanActor
<1>2. /\ depm' \in DepmState /\ depm'.thread = t /\ depm'.job = depm.job
      /\ depm'.managed = depm.managed /\ depm'.launchMap = depm.launchMap
      /\ depm'.app = depm.app
  BY <1>1, GoodTypes DEF DepmState, Threads
<1>3. depm.thread = "unregister" /\ UNCHANGED <<proc, monitors, term, db>>
  BY DEF unregisterOrphanActor
<1>4. Ordered(proc') /\ Later(proc, proc') /\ Follows(monitors, monitors')
  BY <1>3, GoodTypes, SameLater, SameFollows
<1> QED BY <1>2, <1>3, <1>4, GoodTypes, DepmGood DEF Away

LEMMA RecoverActorGood == ASSUME KeptInv, RecoverActor PROVE KeptGood'
<1>1. PICK r \in depm.todo :
        LET d == [loadModel(depm) EXCEPT !.todo = @ \ {r}] IN
        /\ depm.thread = "recover" /\ UNCHANGED <<monitors, term>> /\ addApp
        /\ IF r.who \in Actor THEN Spawn(d, "recover", r.who, None)
           ELSE depm' = d /\ proc' = proc
  BY DEF RecoverActor
<1> DEFINE d == [loadModel(depm) EXCEPT !.todo = @ \ {r}]
<1>2. /\ d \in DepmState /\ d.thread = depm.thread /\ d.job = depm.job /\ d.app
      /\ d.managed = depm.managed /\ d.launchMap = depm.launchMap
  BY GoodTypes DEF loadModel, DepmState
<1>3. db' \in DbState /\ db'.recs = db.recs /\ db'.swept = db.swept
  BY <1>1, GoodTypes DEF addApp, DbState
<1>4. CASE r.who \in Actor
  <2>1. Spawn(d, "recover", r.who, None) /\ r.who \in Key
    BY <1>1, <1>4 DEF Key
  <2>2. Good(proc, d, db', term, monitors)
    <3> HIDE DEF d
    <3>1. Typed(proc, d, db', term, monitors)
      BY <1>2, <1>3, GoodTypes DEF Typed
    <3>2. Follows(monitors, monitors) /\ Held(proc, term, term) /\ Ordered(proc) /\ Later(proc, proc)
      BY GoodTypes, SameLater DEF Follows, Held
    <3>3. Good(proc, depm, db, term, monitors)
      BY DEF KeptInv, KeptGood
    <3> QED BY <1>1, <1>2, <1>3, <3>1, <3>2, <3>3, StillGood
  <2>3. Good(proc', depm', db', term, monitors)
    <3> HIDE DEF d
    <3> QED BY <1>1, <1>2, <2>1, <2>2, SpawnNext DEF Away
  <2> QED BY <1>1, <2>3 DEF KeptGood
<1>5. CASE r.who \notin Actor
  <2>1. depm' = d /\ UNCHANGED <<proc, monitors, term>>
    BY <1>1, <1>5
  <2>2. Ordered(proc') /\ Later(proc, proc') /\ Follows(monitors, monitors')
    BY <2>1, GoodTypes, SameLater, SameFollows
  <2> QED BY <1>1, <1>2, <1>3, <2>1, <2>2, GoodTypes, DepmGood DEF Away
<1> QED BY <1>4, <1>5

LEMMA RecoveredGood == ASSUME KeptInv, Recovered PROVE KeptGood'
<1>1. /\ depm' \in DepmState /\ depm'.thread = "idle" /\ depm'.job = depm.job
      /\ depm'.managed = depm.managed /\ depm'.launchMap = depm.launchMap
      /\ depm'.app = depm.app
  BY GoodTypes DEF Recovered, DepmState, Threads
<1>2. Ordered(proc') /\ Later(proc, proc') /\ Follows(monitors, monitors')
  BY GoodTypes, SameLater, SameFollows DEF Recovered
<1> QED BY <1>1, <1>2, GoodTypes, DepmGood DEF Recovered, Away

--------------------------------------------------------------------------------
(* What the rest of the state is made of *)

Rest ==
  /\ regs \subseteq Pid /\ reinstated \subseteq Pid
  /\ reqs \subseteq [kind : {"actorReg", "deviceGet", "deviceRel"}, from : Pid]
  /\ expected \subseteq Name \X Pid
  /\ command \in [op : Ops \cup {"none"}, who : Name]
  /\ command.op \in {"launch", "halt"} => command.who \in Actor

LEMMA TypesAre == TypeOK <=> Rest /\ Typed(proc, depm, db, term, monitors)
BY DEF TypeOK, Rest, Typed, Processes, DbState

LEMMA QuietIs == Quiet \in [op : Ops \cup {"none"}, who : Name] /\ Quiet.op \notin {"launch", "halt"}
BY DEF Quiet, Ops, Name

LEMMA CommandRest == ASSUME KeptInv, Rest, Command PROVE Rest'
<1>1. UNCHANGED <<regs, reinstated, reqs>> /\ (command' = Quiet \/ command' = command)
  BY DEF Command, setupDisco, setupApp, cleanupApp, Launch, haltActor
<1>2. expected' \subseteq Name \X Pid
  <2>1. expected' = expected \/ (haltActor /\ Stop(command.who))
    BY DEF Command, setupDisco, setupApp, cleanupApp, Launch, haltActor
  <2>2. ASSUME haltActor, Stop(command.who) PROVE expected' \subseteq Name \X Pid
    BY <2>2, GoodTypes, ReleaseIs DEF Stop, Rest
  <2> QED BY <2>1, <2>2 DEF Rest
<1> QED BY <1>1, <1>2, QuietIs DEF Rest

LEMMA ManagerRest == ASSUME KeptInv, Rest, Manager PROVE Rest'
<1>1. ASSUME Started \/ NotStarted PROVE Rest'
  BY <1>1, QuietIs DEF Started, NotStarted, Rest
<1>2. ASSUME RestartDisco PROVE Rest'
  <2>1. Registered \subseteq Pid
    BY GoodTypes DEF Registered, Up, DepmState
  <2> QED BY <1>2, <2>1 DEF RestartDisco, Rest
<1>3. ASSUME NEW k, RestartActor(k) PROVE Rest'
  <2>1. regs' \subseteq regs
    BY <1>3 DEF RestartActor
  <2> QED BY <1>3, <2>1 DEF RestartActor, Rest
<1>4. ASSUME NEW k, RestartDevice(k) \/ Disregard(k) PROVE Rest'
  BY <1>4 DEF RestartDevice, Disregard, Rest
<1>5. ASSUME NEW p \in Pid, handleActorReg(p) PROVE Rest'
  BY <1>5 DEF handleActorReg, Unanswered, Joined, Rest
<1>6. ASSUME NEW p \in Pid, handleDeviceReq(p) PROVE Rest'
  BY <1>6 DEF handleDeviceReq, Rest
<1>7. ASSUME NEW p \in Pid, handleDeviceRel(p) PROVE Rest'
  <2>1. PICK k \in DevicesOf(proc[p].who) :
          /\ UNCHANGED <<reinstated, command>> /\ regs' \subseteq regs /\ reqs' \subseteq reqs
          /\ expected' = expected \/ Stop(k)
    BY <1>7 DEF handleDeviceRel, Unanswered
  <2>2. k \in Name
    BY DEF DevicesOf, Name, Key
  <2>3. expected' \subseteq Name \X Pid
    BY <2>1, <2>2, GoodTypes, ReleaseIs DEF Stop, Rest
  <2> QED BY <2>1, <2>3 DEF Rest
<1> QED BY <1>1, <1>2, <1>3, <1>4, <1>5, <1>6, <1>7, CommandRest DEF Manager, handleProcmon

LEMMA OtherRest ==
  ASSUME KeptInv, Rest,
         Threading \/ Actors \/ Recovery \/ stop \/ Controls \/ Crash \/ \E p \in Pid : Die(p)
  PROVE  Rest'
<1>1. ASSUME NEW k \in Name, Wake(k) PROVE Rest'
  BY <1>1 DEF Wake, Rest
<1>2. ASSUME NEW k \in Name, NEW p \in Pid, Depart(k, p) PROVE Rest'
  BY <1>2 DEF Depart, Rest
<1>3. ASSUME NEW p \in Pid, Terminate(p) \/ Kill(p) \/ Reap(p) PROVE Rest'
  BY <1>3 DEF Terminate, Kill, Reap, Rest
<1>4. ASSUME NEW p \in Pid, Boot(p) \/ GiveUp(p) \/ Reregister(p) PROVE Rest'
  BY <1>4 DEF Boot, GiveUp, Reregister, Rest
<1>5. ASSUME Recovery PROVE Rest'
  BY <1>5 DEF Recovery, Recover, stopOrphanActor, RecoverDisco, unregisterOrphanActor,
              RecoverActor, Recovered, Rest
<1>6. ASSUME stop \/ Crash PROVE Rest'
  BY <1>6, QuietIs DEF stop, Crash, Gone, Rest
<1>7. ASSUME Controls PROVE Rest'
  <2>1. PICK op, k : /\ Call(op, k) /\ op \in Ops /\ k \in Name
                     /\ op \in {"launch", "halt"} => k \in Actor
    BY <1>7 DEF Controls, Ops, Name, Key
  <2> QED BY <2>1 DEF Call, Rest
<1>8. ASSUME NEW p \in Pid, Die(p) PROVE Rest'
  BY <1>8 DEF Die, Rest
<1> QED BY <1>1, <1>2, <1>3, <1>4, <1>5, <1>6, <1>7, <1>8 DEF Threading, Actors

--------------------------------------------------------------------------------
(* The theorem *)

LEMMA InitKept == Init => KeptInv
<1> SUFFICES ASSUME Init PROVE KeptInv
  OBVIOUS
<1> DEFINE first == IF Prepared THEN 1 ELSE None
<1>1. first \in Pid \cup {None} /\ (Prepared => first \in Pid) /\ MaxPid \in Nat
  BY NodeAssumption DEF Pid, None
<1>2. proc \in Processes /\ Ordered(proc)
  <2>1. proc = [p \in Pid |-> Process(Disco, IF p = first THEN "ready" ELSE "free")]
    BY DEF Init
  <2>2. proc \in Processes
    BY <2>1 DEF Processes, Process, Name, Phase
  <2>3. ASSUME NEW p \in Pid, NEW q \in Pid, p < q, proc[p].phase = "free"
        PROVE  proc[q].phase = "free"
    <3>1. q # first
      BY <1>1, <2>3 DEF Pid, None
    <3> QED BY <2>1, <3>1 DEF Process
  <2> QED BY <2>2, <2>3 DEF Ordered
<1>3. /\ depm \in DepmState /\ depm.thread = "idle" /\ depm.job = NoJob /\ depm.managed = {}
      /\ \A k \in Key : depm.launchMap[k] = None
  <2>1. "idle" \in Threads \ {"busy"} /\ Prepared \in BOOLEAN
    BY NodeAssumption DEF Threads
  <2>2. depm = [Blank("idle") EXCEPT !.disco = first, !.app = Prepared]
    BY DEF Init
  <2> DEFINE b == Blank("idle")
  <2>3. /\ b \in DepmState /\ b.thread = "idle" /\ b.job = NoJob /\ b.managed = {}
        /\ \A k \in Key : b.launchMap[k] = None
    BY <2>1, BlankIs
  <2>4. depm = [b EXCEPT !.disco = first, !.app = Prepared]
    BY <2>2
  <2> HIDE DEF first, b
  <2>5. depm \in DepmState
    BY <1>1, <2>1, <2>3, <2>4 DEF DepmState
  <2>6. depm.thread = b.thread /\ depm.job = b.job /\ depm.managed = b.managed
        /\ depm.launchMap = b.launchMap
    BY <2>3, <2>4 DEF DepmState
  <2> QED BY <2>3, <2>5, <2>6
<1>4. monitors \in [Name -> MonitorState]
  <2>1. Prepared => [st |-> "waiting", on |-> first, next |-> first, mute |-> FALSE] \in MonitorState
    BY <1>1 DEF MonitorState, Pid, None
  <2>2. NoMonitor \in MonitorState
    BY DEF MonitorState, NoMonitor
  <2> QED BY <2>1, <2>2 DEF Init
<1>5. db \in DbState /\ db.recs = {}
  BY <1>1, NodeAssumption DEF Init, DbState
<1>6. Rest /\ term \subseteq Pid
  BY QuietIs DEF Init, Rest
<1>7. Typed(proc, depm, db, term, monitors)
  BY <1>2, <1>3, <1>4, <1>5, <1>6 DEF Typed
<1>8. Good(proc, depm, db, term, monitors)
  BY <1>2, <1>3, <1>5, <1>7, EmptyGood
<1> QED BY <1>6, <1>7, <1>8, TypesAre DEF KeptInv, KeptGood

LEMMA NextKept == KeptInv /\ [Next]_vars => KeptInv'
<1> SUFFICES ASSUME KeptInv, [Next]_vars PROVE KeptInv'
  OBVIOUS
<1>1. Rest
  BY GoodTypes, TypesAre
<1>2. CASE UNCHANGED vars
  BY <1>2 DEF vars, KeptInv, KeptGood, TypeOK
<1>3. CASE Next
  <2>1. KeptGood'
    <3>1. ASSUME Controls PROVE KeptGood'
      BY <3>1, CallGood DEF Controls
    <3>2. ASSUME Recovery PROVE KeptGood'
      BY <3>2, RecoverGood, StopOrphanGood, RecoverDiscoGood, UnregisterGood, RecoverActorGood,
              RecoveredGood DEF Recovery
    <3> QED BY <1>3, <3>1, <3>2, ManagerGood, ThreadingGood, ActorsGood, StopServiceGood,
              CrashGood, DieGood DEF Next
  <2>2. Rest'
    BY <1>1, <1>3, ManagerRest, OtherRest DEF Next
  <2>3. TypeOK'
    BY <2>1, <2>2, TypesAre DEF KeptGood, Good, TypeOK, Rest, Typed, Processes, DbState
  <2> QED BY <2>1, <2>3 DEF KeptInv
<1> QED BY <1>2, <1>3

\* When the manager waits for its sockets, the invariant says what LaunchedKept does.
LEMMA KeptMeans == KeptInv => LaunchedKept
<1> SUFFICES ASSUME KeptInv, NEW k \in Key, depm.thread = "idle"
             PROVE  /\ depm.launchMap[k] # None =>
                         /\ monitors[k].st # "none" /\ monitors[k].next = depm.launchMap[k]
                         /\ \/ depm.launchMap[k] \in db.swept
                            \/ [who |-> k, pid |-> depm.launchMap[k]] \in db.recs
                    /\ \A r \in db.recs : r.who = k /\ Latest(r) =>
                         /\ depm.launchMap[k] # None => r.pid = depm.launchMap[k]
                         /\ Up(r.pid) => depm.launchMap[k] = r.pid \/ r.pid \in term
  BY GoodTypes DEF LaunchedKept, Idle
<1>1. Watched(depm, monitors) /\ Recording(proc, depm, db, term) /\ Keeping(depm, db)
  BY DEF KeptInv, KeptGood, Good
<1>2. depm.launchMap[k] \in Pid \cup {None} /\ Pid \subseteq Nat
  BY GoodTypes, NodeAssumption DEF DepmState, Pid
<1>3. ASSUME NEW r \in db.recs, r.who = k, Latest(r)
      PROVE  /\ depm.launchMap[k] # None => r.pid = depm.launchMap[k]
             /\ Up(r.pid) => depm.launchMap[k] = r.pid \/ r.pid \in term
  <2>1. ASSUME depm.launchMap[k] # None PROVE r.pid = depm.launchMap[k]
    <3> DEFINE own == [who |-> k, pid |-> depm.launchMap[k]]
    <3>1. own \in db.recs /\ r.pid <= depm.launchMap[k]
      BY <1>1, <1>3, <2>1 DEF Keeping
    <3>2. own.who = r.who /\ own.pid = depm.launchMap[k]
      BY <1>3
    <3> HIDE DEF own
    <3>3. depm.launchMap[k] <= r.pid
      BY <1>3, <3>1, <3>2 DEF Latest
    <3>4. r.pid \in Pid
      BY <1>3, GoodTypes, RecordIs
    <3>5. r.pid \in Int /\ depm.launchMap[k] \in Int
      BY <1>2, <2>1, <3>4, NodeAssumption DEF Pid
    <3> QED BY <3>1, <3>3, <3>5
  <2>2. ASSUME Up(r.pid) PROVE depm.launchMap[k] = r.pid \/ r.pid \in term
    BY <1>1, <1>3, <2>2 DEF Recording, IsLatest, Latest, Up, Runs, Away
  <2> QED BY <2>1, <2>2
<1> QED BY <1>1, <1>3 DEF Watched, Keeping

\* Between two messages of its sockets the deployment manager has a monitor and a record of
\* what it launched, unless the records of the name were deleted, and what runs and is
\* recorded last is launched or on its way to its end (depm.py: startActor(), stopActor(),
\* recover(); procm.py; appdb.py).  This includes the types of all variables.
THEOREM LaunchedIsKept == Spec => []LaunchedKept
<1>1. Init => KeptInv
  BY InitKept
<1>2. KeptInv /\ [Next]_vars => KeptInv'
  BY NextKept
<1>3. KeptInv => LaunchedKept
  BY KeptMeans
<1> QED BY <1>1, <1>2, <1>3, PTL DEF Spec

================================================================================
