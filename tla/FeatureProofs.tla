---------------------------- MODULE FeatureProofs ----------------------------
EXTENDS HealthPersist, Fetch, Playlists, FiniteSetTheorems, FunctionTheorems, SequenceTheorems, TLAPS

-----------------------------------------------------------------------------
(* Subsequences.                                                           *)

RankIn(S, i) == Cardinality({j \in S : j <= i})

(* The rank of a position is what numbers the positions of S from 1 on.    *)
LEMMA RankBijection ==
  ASSUME NEW S \in SUBSET Nat, IsFiniteSet(S)
  PROVE  /\ Cardinality(S) \in Nat
         /\ \A i \in S : RankIn(S, i) \in 1..Cardinality(S)
         /\ \A i, j \in S : i < j => RankIn(S, i) < RankIn(S, j)
         /\ \A n \in 1..Cardinality(S) : \E i \in S : RankIn(S, i) = n
<1>1. Cardinality(S) \in Nat
  BY FS_CardinalityType
<1> DEFINE Up(i) == {j \in S : j <= i}
<1>2. \A i \in S : Up(i) \in SUBSET S /\ i \in Up(i)
  OBVIOUS
<1>3. \A i \in S : /\ IsFiniteSet(Up(i)) /\ Cardinality(Up(i)) \in Nat
                   /\ Cardinality(Up(i)) <= Cardinality(S)
  BY <1>2, FS_Subset, FS_CardinalityType
<1>4. \A i \in S : Cardinality(Up(i)) # 0
  BY <1>2, <1>3, FS_EmptySet
<1>5. \A i \in S : RankIn(S, i) \in 1..Cardinality(S)
  BY <1>1, <1>3, <1>4 DEF RankIn
<1>6. ASSUME NEW i \in S, NEW j \in S, i < j PROVE RankIn(S, i) < RankIn(S, j)
  <2>0. i \in Nat /\ j \in Nat /\ \A k \in S : k \in Nat
    OBVIOUS
  <2>1. Up(i) \in SUBSET Up(j) /\ j \in Up(j) /\ j \notin Up(i)
    <3>1. \A k \in S : k <= i => k <= j
      BY <1>6, <2>0
    <3>2. j <= j /\ ~(j <= i)
      BY <1>6, <2>0
    <3> QED
      BY <3>1, <3>2
  <2>2. Cardinality(Up(i)) <= Cardinality(Up(j))
        /\ (Cardinality(Up(j)) = Cardinality(Up(i)) => Up(j) = Up(i))
    BY <1>3, <2>1, FS_Subset
  <2> QED
    BY <1>3, <2>1, <2>2 DEF RankIn
<1>7. PICK r : r = [i \in S |-> RankIn(S, i)]
  OBVIOUS
<1>8. r \in Injection(S, 1..Cardinality(S))
  <2>1. r \in [S -> 1..Cardinality(S)]
    BY <1>5, <1>7
  <2>2. ASSUME NEW i \in S, NEW j \in S, r[i] = r[j] PROVE i = j
    <3>1. RankIn(S, i) = RankIn(S, j) /\ RankIn(S, i) \in Nat /\ RankIn(S, j) \in Nat
      BY <1>5, <1>7, <2>2
    <3> QED
      BY <1>6, <3>1
  <2> QED
    BY <2>1, <2>2 DEF Injection, IsInjective
<1>9. IsFiniteSet(1..Cardinality(S)) /\ Cardinality(1..Cardinality(S)) = Cardinality(S)
  BY <1>1, FS_Interval
<1>10. r \in Surjection(S, 1..Cardinality(S))
  BY <1>8, <1>9, FS_Injection
<1>11. \A n \in 1..Cardinality(S) : \E i \in S : RankIn(S, i) = n
  BY <1>7, <1>10 DEF Surjection
<1> QED
  BY <1>1, <1>5, <1>6, <1>11

(* What is picked is there, in its order, and is all of it.                *)
LEMMA Picked ==
  ASSUME NEW T, NEW q \in Seq(T), NEW S \in SUBSET DOMAIN q
  PROVE  /\ Pick(q, S) \in Seq(T) /\ Len(Pick(q, S)) = Cardinality(S)
         /\ Cardinality(S) \in Nat /\ DOMAIN Pick(q, S) = 1..Cardinality(S)
         /\ \A n \in DOMAIN Pick(q, S) : Nth(S, n) \in S /\ Pick(q, S)[n] = q[Nth(S, n)]
         /\ \A i \in S : \E n \in DOMAIN Pick(q, S) : Nth(S, n) = i
         /\ \A m, n \in DOMAIN Pick(q, S) : m < n => Nth(S, m) < Nth(S, n)
<1>1. S \in SUBSET Nat /\ IsFiniteSet(S)
  <2>1. DOMAIN q = 1..Len(q) /\ Len(q) \in Nat
    OBVIOUS
  <2>2. IsFiniteSet(1..Len(q))
    BY <2>1, FS_Interval
  <2> QED
    BY <2>1, <2>2, FS_Subset
<1> DEFINE c == Cardinality(S)
<1>2. /\ c \in Nat
      /\ \A i \in S : RankIn(S, i) \in 1..c
      /\ \A i, j \in S : i < j => RankIn(S, i) < RankIn(S, j)
      /\ \A n \in 1..c : \E i \in S : RankIn(S, i) = n
  BY <1>1, RankBijection
<1>3. \A n \in 1..c : Nth(S, n) \in S /\ RankIn(S, Nth(S, n)) = n
  BY <1>2 DEF Nth, RankIn
<1>4. \A i, j \in S : RankIn(S, i) = RankIn(S, j) => i = j
  BY <1>1, <1>2
<1>5. \A i \in S : Nth(S, RankIn(S, i)) = i
  BY <1>2, <1>3, <1>4
<1>6. Pick(q, S) = [n \in 1..c |-> q[Nth(S, n)]]
  BY DEF Pick
<1>7. \A n \in 1..c : q[Nth(S, n)] \in T
  BY <1>3
<1>8. Pick(q, S) \in Seq(T) /\ Len(Pick(q, S)) = c /\ DOMAIN Pick(q, S) = 1..c
  BY <1>2, <1>6, <1>7
<1>9. ASSUME NEW m \in 1..c, NEW n \in 1..c, m < n PROVE Nth(S, m) < Nth(S, n)
  <2>1. Nth(S, m) \in S /\ Nth(S, n) \in S /\ RankIn(S, Nth(S, m)) = m /\ RankIn(S, Nth(S, n)) = n
    BY <1>3
  <2>2. Nth(S, m) \in Nat /\ Nth(S, n) \in Nat /\ m \in Nat /\ n \in Nat
    BY <1>1, <1>2, <2>1
  <2> QED
    BY <1>2, <1>9, <2>1, <2>2
<1> QED
  BY <1>2, <1>3, <1>5, <1>6, <1>8, <1>9

-----------------------------------------------------------------------------
(* The inductive invariant.                                                *)

Active == drainer.pc \in {"writing", "written"}
Pends(s, u) == Queued(Write(s, u)) \/ (Active /\ drainer.session = s /\ drainer.version = u)
IsWrite(e) == e.session # None

Numbers ==
  /\ \A s \in Session : row[s].version <= last /\ newest[s] <= last /\ app.promise[s] <= newest[s]
  /\ \A n \in DOMAIN queue :
       \/ queue[n] = Barrier
       \/ queue[n].session \in Session /\ queue[n].version \in 1..last
  /\ Active => drainer.session \in Session /\ drainer.version \in 1..last
  /\ probe.version <= last

Ordered ==
  /\ \A m, n \in DOMAIN queue : m < n /\ IsWrite(queue[m]) /\ IsWrite(queue[n]) => queue[m].version < queue[n].version
  /\ \A n \in DOMAIN queue : Active /\ IsWrite(queue[n]) => drainer.version < queue[n].version

BarrierLast ==
  /\ app.flush = "none" => \A n \in DOMAIN queue : IsWrite(queue[n])
  /\ \A m, n \in DOMAIN queue : m < n /\ ~IsWrite(queue[m]) =>
        IsWrite(queue[n]) /\ queue[n].version > app.promise[queue[n].session]
 

RowBehind ==
  \A s \in Session \ edited :
     /\ \A n \in DOMAIN queue : queue[n].session = s => row[s].version <= queue[n].version
     /\ Active /\ drainer.session = s => row[s].version <= drainer.version

Gone ==
  /\ \A a \in Admin : admin[a].pc = "remove" => admin[a].session \in Session /\ ~row[admin[a].session].in
  /\ \A a \in Admin : admin[a].pc = "upsert" => admin[a].session \in Session
  /\ Active /\ drainer.dropped => ~row[drainer.session].in

Written ==
  drainer.pc = "written" /\ drainer.ok /\ row[drainer.session].in =>
     row[drainer.session].version >= drainer.version

Trail(s, v) ==
  row[s].in =>
   /\ \/ row[s].version >= v
      \/ Queued(Write(s, v))
      \/ /\ Active /\ drainer.session = s /\ drainer.version = v 
         /\ ~(drainer.pc = "written" /\ drainer.ok)
      \/ s \in failures
   /\ \A n \in DOMAIN queue : queue[n].session = s /\ queue[n].version < v => Queued(Write(s, v))
   /\ Active /\ drainer.session = s /\ drainer.version < v => Queued(Write(s, v))

Trails ==
  /\ \A s \in Session : Trail(s, newest[s])
  /\ app.flush = "waiting" => \A s \in Session : Trail(s, app.promise[s])

StoredStays ==
  app.flush = "stored" => 
    \A s \in Session : 
      /\ row[s].in => row[s].version >= app.promise[s]
      /\ \A n \in DOMAIN queue : queue[n].session = s => queue[n].version >= app.promise[s]
      /\ Active /\ drainer.session = s => drainer.version >= app.promise[s]

Sealed ==
  /\ app.down => sealed
  /\ app.pc = "closed" => app.down /\ Quiescent
  /\ app.pc = "serving" => app.flush = "none"


HealthInv == /\ TypeOK /\ Numbers /\ Ordered /\ BarrierLast /\ RowBehind /\ Gone
             /\ Written /\ Trails /\ StoredStays /\ Sealed /\ WaitersServed
-----------------------------------------------------------------------------
(* The health queue: types.                                                *)

LEMMA DrainerStarts ==
  ASSUME drainer \in DrainerType, StartDrainer
  PROVE  /\ drainer' \in DrainerType
         /\ drainer'.pc = IF drainer.pc = "idle" THEN "running" ELSE drainer.pc
         /\ drainer'.session = drainer.session /\ drainer'.version = drainer.version
         /\ drainer'.ok = drainer.ok /\ drainer'.dropped = drainer.dropped
BY DEF StartDrainer, DrainerType

LEMMA QueuedOne ==
  ASSUME NEW T, NEW q \in Seq(T), NEW e \in T
  PROVE  /\ Append(q, e) \in Seq(T) /\ Len(Append(q, e)) = Len(q) + 1
         /\ Append(q, e)[Len(q) + 1] = e
         /\ \A n \in DOMAIN q : n \in DOMAIN Append(q, e) /\ Append(q, e)[n] = q[n] /\ n < Len(q) + 1
         /\ \A n \in DOMAIN Append(q, e) : n \in DOMAIN q \/ n = Len(q) + 1
OBVIOUS

LEMMA VersionSet ==
  ASSUME NEW r \in [Session -> Stored], NEW s \in Session, NEW v \in Nat, NEW i \in BOOLEAN
  PROVE  /\ [r EXCEPT ![s].version = v] \in [Session -> Stored]
         /\ [r EXCEPT ![s].version = v][s] = [in |-> r[s].in, version |-> v]
         /\ [r EXCEPT ![s].in = FALSE] \in [Session -> Stored]
         /\ [r EXCEPT ![s].in = FALSE][s] = [in |-> FALSE, version |-> r[s].version]
         /\ [r EXCEPT ![s] = [in |-> TRUE, version |-> v]] \in [Session -> Stored]
<1>1. r[s] = [in |-> r[s].in, version |-> r[s].version] /\ r[s].in \in BOOLEAN /\ r[s].version \in Nat
  BY DEF Stored
<1> QED
  BY <1>1 DEF Stored

LEMMA AdminSet ==
  ASSUME NEW a \in Admin, NEW e \in AdminType, NEW p \in {"upsert", "remove", "done"},
         admin \in [Admin -> AdminType]
  PROVE  /\ [admin EXCEPT ![a] = e] \in [Admin -> AdminType]
         /\ [admin EXCEPT ![a].pc = p] \in [Admin -> AdminType]
         /\ [admin EXCEPT ![a].pc = p][a] = [pc |-> p, session |-> admin[a].session,
                                            version |-> admin[a].version]
BY DEF AdminType

LEMMA HealthTypesStep ==
  ASSUME TypeOK, Numbers, Gone, Next PROVE TypeOK'
<1>0. drainer \in DrainerType /\ queue \in Seq(Job) /\ last \in Nat
  BY DEF TypeOK
<1>1. ASSUME NEW s \in Session, NEW v \in Nat, Enqueue(s, v)
      PROVE  queue' \in Seq(Job) /\ newest' \in [Session -> Nat] /\ drainer' \in DrainerType
  <2>1. CASE sealed
    BY <1>1, <2>1 DEF Enqueue, TypeOK
  <2>2. CASE ~sealed
    <3>1. StartDrainer /\ queue' = Append(queue, Write(s, v)) /\ newest' = [newest EXCEPT ![s] = v]
      BY <1>1, <2>2 DEF Enqueue
    <3>2. drainer' \in DrainerType
      BY <1>0, <3>1, DrainerStarts
    <3>3. Write(s, v) \in Job
      BY DEF Write, Job
    <3> QED
      BY <3>1, <3>2, <3>3 DEF TypeOK
  <2> QED
    BY <2>1, <2>2
<1>2. ASSUME NEW s \in Session, Transition(s)
      PROVE  /\ last' \in Nat /\ mem' \in [Session -> Stored]
             /\ queue' \in Seq(Job) /\ newest' \in [Session -> Nat] /\ drainer' \in DrainerType
  <2>1. last' \in Nat /\ last' = last + 1
    BY <1>0, <1>2 DEF Transition, NextVersion
  <2>2. CASE mem[s].in
    <3>1. Enqueue(s, last') /\ mem' = [mem EXCEPT ![s].version = last']
      BY <1>2, <2>2 DEF Transition
    <3>2. mem' \in [Session -> Stored]
      BY <2>1, <3>1, VersionSet DEF TypeOK
    <3>3. PICK v \in Nat : v = last'
      BY <2>1
    <3> QED
      BY <1>1, <2>1, <3>1, <3>2, <3>3
  <2>3. CASE ~mem[s].in
    BY <1>0, <1>2, <2>1, <2>3 DEF Transition, TypeOK
  <2> QED
    BY <2>2, <2>3
<1>3. ASSUME NEW s \in Session, RecordOutcome(s) PROVE TypeOK'
  BY <1>2, <1>3 DEF RecordOutcome, TypeOK
<1>4. ASSUME NEW s \in Session, RecordFailure(s) PROVE TypeOK'
  BY <1>2, <1>4 DEF RecordFailure, TypeOK
<1>5. CASE Drain
  <2>1. CASE DrainIdle
    BY <2>1 DEF DrainIdle, IdleDrainer, DrainerType, TypeOK
  <2>2. CASE DrainBarrier
    <3>1. Tail(queue) \in Seq(Job)
      BY <1>0, <2>2 DEF DrainBarrier
    <3>2. app' \in AppType
      BY <2>2 DEF DrainBarrier, AppType, TypeOK
    <3> QED
      BY <2>2, <3>1, <3>2 DEF DrainBarrier, TypeOK
  <2>3. CASE DrainTake
    <3>1. queue # << >>
      BY <2>3 DEF DrainTake
    <3>2. Head(queue) \in Job /\ Tail(queue) \in Seq(Job)
      BY <1>0, <3>1
    <3>3. drainer' \in DrainerType
      BY <2>3, <3>2 DEF DrainTake, IdleDrainer, Job, DrainerType
    <3> QED
      BY <2>3, <3>2, <3>3 DEF DrainTake, TypeOK
  <2>4. CASE DrainRecord
    <3>1. failures' \subseteq Session
      <4>1. drainer.session \in Session
        BY <2>4 DEF DrainRecord, Numbers, Active
      <4>2. CASE drainer.dropped
        BY <2>4, <4>2 DEF DrainRecord, TypeOK
      <4>3. CASE ~drainer.dropped
        BY <2>4, <4>1, <4>3 DEF DrainRecord, TypeOK
      <4> QED
        BY <4>2, <4>3
    <3>2. drainer' \in DrainerType
      BY <2>4 DEF DrainRecord, IdleDrainer, DrainerType
    <3>3. probe' \in [waiting : BOOLEAN, version : Nat]
      BY <2>4 DEF DrainRecord, Answered, NoProbe, TypeOK
    <3> QED
      BY <2>4, <3>1, <3>2, <3>3 DEF DrainRecord, TypeOK
  <2>5. ASSUME NEW ok \in BOOLEAN, NEW stored \in BOOLEAN, DrainWrite(ok, stored) PROVE TypeOK'
    <3>0. drainer.session \in Session /\ drainer.version \in Nat
      BY <1>0, <2>5 DEF DrainWrite, Numbers, Active, DrainerType
    <3>1. row' \in [Session -> Stored]
      <4>1. CASE stored
        BY <3>0, <2>5, <4>1, VersionSet DEF DrainWrite, TypeOK
      <4>2. CASE ~stored
        BY <2>5, <4>2 DEF DrainWrite, TypeOK
      <4> QED
        BY <4>1, <4>2
    <3>2. drainer' \in DrainerType
      BY <1>0, <2>5 DEF DrainWrite, DrainerType
    <3>3. errors' \in Nat
      BY <2>5 DEF DrainWrite, TypeOK
    <3> QED
      BY <2>5, <3>1, <3>2, <3>3 DEF DrainWrite, TypeOK
  <2> QED
    BY <1>5, <2>1, <2>2, <2>3, <2>4, <2>5 DEF Drain
<1>6. ASSUME NEW a \in Admin, AdminStep(a) PROVE TypeOK'
  <2>1. ASSUME NEW s \in Session, UpdateMetadata(a, s) PROVE TypeOK'
    <3>1. row[s].version \in Nat
      BY DEF TypeOK, Stored
    <3>2. admin' \in [Admin -> AdminType]
      BY <2>1, <3>1 DEF UpdateMetadata, TypeOK, AdminType
    <3> QED
      BY <2>1, <3>2 DEF UpdateMetadata, TypeOK
  <2>2. ASSUME NEW s \in Session, ResetHealth(a, s) PROVE TypeOK'
    <3>1. last' \in Nat
      BY <1>0, <2>2 DEF ResetHealth, NextVersion
    <3>2. row' \in [Session -> Stored]
      BY <2>2, <3>1, VersionSet DEF ResetHealth, TypeOK
    <3>3. admin' \in [Admin -> AdminType]
      BY <2>2, <3>1 DEF ResetHealth, TypeOK, AdminType
    <3> QED
      BY <2>2, <3>1, <3>2, <3>3 DEF ResetHealth, TypeOK
  <2>3. ASSUME NEW s \in Session, DeleteRow(a, s) PROVE TypeOK'
    <3>1. row' \in [Session -> Stored]
      BY <2>3, VersionSet DEF DeleteRow, TypeOK
    <3>2. admin' \in [Admin -> AdminType]
      BY <2>3 DEF DeleteRow, TypeOK, AdminType
    <3> QED
      BY <2>3, <3>1, <3>2 DEF DeleteRow, TypeOK
  <2>4. CASE UpsertSession(a)
    <3>0. admin[a].session \in Session /\ admin[a].version \in Nat
      BY <2>4 DEF TypeOK, UpsertSession, Gone, AdminType
    <3>1. mem' \in [Session -> Stored]
      BY <2>4, <3>0, VersionSet DEF UpsertSession, TypeOK
    <3>2. admin' \in [Admin -> AdminType]
      BY <2>4, AdminSet DEF UpsertSession, TypeOK
    <3> QED
      BY <2>4, <3>1, <3>2 DEF UpsertSession, TypeOK
  <2>5. CASE RemoveSession(a)
    <3> DEFINE kept == {n \in DOMAIN queue : queue[n].session # admin[a].session}
    <3>1. Pick(queue, kept) \in Seq(Job)
      BY <1>0, Picked
    <3>2. queue' \in Seq(Job)
      BY <2>5, <3>1 DEF RemoveSession
    <3>3. PICK s \in Session : s = admin[a].session
      BY <2>5 DEF RemoveSession, Gone
    <3>4. mem' \in [Session -> Stored]
      BY <2>5, <3>3, VersionSet DEF RemoveSession, TypeOK
    <3>5. drainer' \in DrainerType
      BY <1>0, <2>5 DEF RemoveSession, DrainerType
    <3>6. probe' \in [waiting : BOOLEAN, version : Nat] /\ failures' \subseteq Session
      BY <2>5 DEF RemoveSession, NoProbe, TypeOK
    <3>7. admin' \in [Admin -> AdminType]
      BY <2>5, AdminSet DEF RemoveSession, TypeOK
    <3> QED
      BY <2>5, <3>2, <3>4, <3>5, <3>6, <3>7 DEF RemoveSession, TypeOK
  <2> QED
    BY <1>6, <2>1, <2>2, <2>3, <2>4, <2>5 DEF AdminStep
<1>7. CASE Shutdown
  <2>1. CASE WorkersStop
    BY <2>1 DEF WorkersStop, TypeOK, AppType
  <2>2. CASE Seal
    BY <2>2 DEF Seal, TypeOK, AppType
  <2>3. CASE Flush
    <3>1. drainer' \in DrainerType /\ queue' \in Seq(Job)
      <4>1. Barrier \in Job
        BY DEF Barrier, Job
      <4>2. CASE drainer.pc = "idle" /\ queue = << >>
        BY <1>0, <2>3, <4>2 DEF Flush
      <4>3. CASE ~(drainer.pc = "idle" /\ queue = << >>)
        BY <1>0, <2>3, <4>1, <4>3, DrainerStarts DEF Flush
      <4> QED
        BY <4>2, <4>3
    <3>2. app' \in AppType
      BY <2>3 DEF Flush, TypeOK, AppType
    <3> QED
      BY <2>3, <3>1, <3>2 DEF Flush, TypeOK
  <2>4. CASE FlushTimeout
    BY <2>4 DEF FlushTimeout, TypeOK, AppType
  <2>5. CASE Close
    BY <2>5 DEF Close, TypeOK, AppType
  <2> QED
    BY <1>7, <2>1, <2>2, <2>3, <2>4, <2>5 DEF Shutdown
<1> QED
  BY <1>3, <1>4, <1>5, <1>6, <1>7 DEF Next

(* What the queue holds is a barrier or a write. *)
LEMMA InQueue ==
  ASSUME HealthInv, NEW n \in DOMAIN queue
  PROVE  /\ queue[n] \in Job /\ queue[n].version \in Nat
         /\ IsWrite(queue[n]) => /\ queue[n].session \in Session /\ queue[n].version \in 1..last
                                 /\ queue[n] = Write(queue[n].session, queue[n].version)
         /\ ~IsWrite(queue[n]) => queue[n] = Barrier
<1>1. queue \in Seq(Job)
  BY DEF HealthInv, TypeOK
<1>2. queue[n] \in Job
  BY <1>1
<1>3. \/ queue[n] = Barrier
      \/ queue[n].session \in Session /\ queue[n].version \in 1..last
  BY DEF HealthInv, Numbers
<1>4. Barrier.session = None
  BY DEF Barrier
<1> QED
  BY <1>2, <1>3, <1>4, HealthAssumption DEF IsWrite, Job, Write

-----------------------------------------------------------------------------
(* The steps that leave the snapshots alone.                               *)

LEMMA BesideStep ==
  ASSUME HealthInv, TypeOK', UNCHANGED <<newest, queue, drainer, failures, probe>>, last' >= last,
         \A s \in Session : row'[s].in => row[s].in,
         \A s \in Session : row'[s].version >= row[s].version /\ row'[s].version <= last',
         \A s \in Session : s \notin edited' => row'[s].version = row[s].version,
         app'.promise = app.promise, app'.flush \in {app.flush, "timeout"}, edited \subseteq edited'
  PROVE  /\ Numbers' /\ Ordered' /\ BarrierLast' /\ RowBehind' /\ Written' /\ Trails'
         /\ StoredStays' /\ WaitersServed'
<1> USE DEF HealthInv
<1>0. /\ last \in Nat /\ last' \in Nat /\ newest \in [Session -> Nat] /\ probe.version \in Nat
      /\ app \in AppType /\ \A s \in Session : app.promise[s] \in Nat
      /\ \A s \in Session : row[s].version \in Nat /\ row'[s].version \in Nat
      /\ drainer.version \in Nat
  BY DEF TypeOK, Stored, AppType, DrainerType
<1>n. \A n \in DOMAIN queue : /\ queue[n].version \in Nat
                              /\ IsWrite(queue[n]) => queue[n].version \in 1..last
  BY InQueue
<1>1. Numbers' /\ Ordered'
  BY <1>0, <1>n DEF Numbers, Ordered, Active, IsWrite, Barrier
<1>2. BarrierLast'
  BY DEF BarrierLast, IsWrite
<1>3. RowBehind' /\ Written'
  <2>1. RowBehind'
    BY <1>0, <1>n DEF RowBehind, Active
  <2>2. Written'
    <3>1. drainer.pc = "written" => drainer.session \in Session
      BY DEF Numbers, Active
    <3> QED
      BY <1>0, <3>1 DEF Written
  <2> QED
    BY <2>1, <2>2
<1>4. ASSUME NEW s \in Session, NEW v \in Nat, Trail(s, v) PROVE Trail(s, v)'
  <2>1. row[s].version >= v => row'[s].version >= v
    BY <1>0
  <2> QED
    BY <1>4, <2>1 DEF Trail, Active, Queued, Write
<1>5. Trails'
  BY <1>0, <1>4 DEF Trails
<1>6. StoredStays'
  BY <1>0 DEF StoredStays, Active
<1>7. WaitersServed'
  BY DEF WaitersServed, Active, Queued, Write, Barrier
<1> QED
  BY <1>1, <1>2, <1>3, <1>5, <1>6, <1>7

LEMMA BesideKeeps ==
  ASSUME HealthInv, TypeOK',
         \/ UNCHANGED vars
         \/ WorkersStop \/ Seal \/ FlushTimeout \/ Close
         \/ \E a \in Admin : UpsertSession(a) \/ \E s \in Session : UpdateMetadata(a, s)
  PROVE  HealthInv'
<1> USE DEF HealthInv
<1>0. app \in AppType /\ last \in Nat
  BY DEF TypeOK
<1>1. /\ UNCHANGED <<row, newest, queue, drainer, failures, probe>>
      /\ last' \in Nat /\ last' >= last
      /\ app'.promise = app.promise /\ app'.flush \in {app.flush, "timeout"} /\ edited \subseteq edited'
  <2>1. CASE UNCHANGED vars
    BY <1>0, <2>1 DEF vars
  <2>2. CASE WorkersStop \/ Seal \/ FlushTimeout \/ Close
    <3>1. UNCHANGED <<row, newest, queue, drainer, failures, probe, last, edited>>
      BY <2>2 DEF WorkersStop, Seal, FlushTimeout, Close
    <3>2. app'.promise = app.promise /\ app'.flush \in {app.flush, "timeout"}
      BY <1>0, <2>2 DEF WorkersStop, Seal, FlushTimeout, Close, AppType
    <3> QED
      BY <1>0, <3>1, <3>2
  <2>3. CASE \E a \in Admin : UpsertSession(a) \/ \E s \in Session : UpdateMetadata(a, s)
    BY <1>0, <2>3 DEF UpsertSession, UpdateMetadata
  <2> QED
    BY <2>1, <2>2, <2>3
<1>2. /\ Numbers' /\ Ordered' /\ BarrierLast' /\ RowBehind' /\ Written' /\ Trails'
      /\ StoredStays' /\ WaitersServed'
  <2>1. \A s \in Session : row[s].version \in Nat /\ row[s].version <= last
    BY DEF TypeOK, Stored, Numbers
  <2>2. /\ \A s \in Session : row'[s].in => row[s].in
        /\ \A s \in Session : row'[s].version >= row[s].version /\ row'[s].version <= last'
        /\ \A s \in Session : s \notin edited' => row'[s].version = row[s].version
    BY <1>0, <1>1, <2>1
  <2> QED
    <3> HIDE DEF HealthInv
    <3>1. /\ HealthInv /\ TypeOK' /\ UNCHANGED <<newest, queue, drainer, failures, probe>>
          /\ last' >= last /\ app'.promise = app.promise /\ app'.flush \in {app.flush, "timeout"}
          /\ edited \subseteq edited'
      BY <1>1
    <3> QED
      BY <2>2, <3>1, BesideStep
<1>3. Gone'
  <2>1. CASE \/ UNCHANGED vars
             \/ WorkersStop \/ Seal \/ FlushTimeout \/ Close
    BY <2>1 DEF vars, WorkersStop, Seal, FlushTimeout, Close, Gone, Active
  <2>2. ASSUME NEW a \in Admin, UpsertSession(a) PROVE Gone'
    <3>1. UNCHANGED <<row, drainer>> /\ admin' = [admin EXCEPT ![a].pc = "done"]
      BY <2>2 DEF UpsertSession
    <3>2. admin'[a].pc = "done" /\ \A b \in Admin \ {a} : admin'[b] = admin[b]
      BY <3>1, AdminSet DEF TypeOK
    <3> QED
      BY <3>1, <3>2 DEF Gone, Active
  <2>3. ASSUME NEW a \in Admin, NEW s \in Session, UpdateMetadata(a, s) PROVE Gone'
    <3>1. /\ UNCHANGED <<row, drainer>>
          /\ admin' = [admin EXCEPT ![a] = [pc |-> "upsert", session |-> s, version |-> row[s].version]]
      BY <2>3 DEF UpdateMetadata
    <3>2. admin'[a].pc = "upsert" /\ admin'[a].session = s /\ \A b \in Admin \ {a} : admin'[b] = admin[b]
      BY <3>1 DEF TypeOK
    <3> QED
      BY <3>1, <3>2 DEF Gone, Active
  <2> QED
    BY <2>1, <2>2, <2>3
<1>4. Sealed'
  <2>0. app \in AppType
    BY DEF TypeOK
  <2>1. CASE UNCHANGED <<app, sealed>>
    BY <1>1, <2>1 DEF Sealed, Quiescent
  <2>2. CASE WorkersStop \/ FlushTimeout
    BY <1>1, <2>0, <2>2 DEF WorkersStop, FlushTimeout, Sealed, Quiescent, AppType
  <2>3. CASE Seal
    BY <1>1, <2>0, <2>3 DEF Seal, Sealed, Quiescent, AppType
  <2>4. CASE Close
    BY <1>1, <2>0, <2>4 DEF Close, Sealed, Quiescent, AppType
  <2> QED
    BY <2>1, <2>2, <2>3, <2>4 DEF vars, UpsertSession, UpdateMetadata
<1> QED
  BY <1>2, <1>3, <1>4

-----------------------------------------------------------------------------
(* A snapshot is queued.                                                   *)

LEMMA EnqueueKeeps ==
  ASSUME HealthInv, NEW s \in Session, Enqueue(s, last'), last' = last + 1, ~sealed,
         probe'.version <= last', UNCHANGED <<row, failures, app, edited, admin>>
  PROVE  /\ Numbers' /\ Ordered' /\ BarrierLast' /\ RowBehind' /\ Gone' /\ Written' /\ Trails'
         /\ StoredStays'
         /\ \A e \in Job : Queued(e) => Queued(e)'
         /\ \E n \in DOMAIN queue' : queue'[n] = Write(s, last')
         /\ queue' # << >> /\ drainer'.pc # "idle"
         /\ Active' = Active /\ drainer'.version = drainer.version
<1> USE DEF HealthInv
<1>0. /\ drainer \in DrainerType /\ queue \in Seq(Job) /\ last \in Nat /\ app \in AppType
      /\ newest \in [Session -> Nat] /\ row \in [Session -> Stored]
  BY DEF TypeOK
<1> DEFINE w == Write(s, last + 1)
<1>1. StartDrainer /\ queue' = Append(queue, w) /\ newest' = [newest EXCEPT ![s] = last + 1]
  BY DEF Enqueue
<1>2. w \in Job /\ w.session = s /\ w.version = last + 1 /\ IsWrite(w)
  BY <1>0, HealthAssumption DEF Write, Job, IsWrite
<1> DEFINE z == Len(queue) + 1
<1>3. /\ queue'[z] = w /\ z \in DOMAIN queue'
      /\ \A n \in DOMAIN queue : n \in DOMAIN queue' /\ queue'[n] = queue[n] /\ n < z
      /\ \A n \in DOMAIN queue' : n \in DOMAIN queue \/ n = z
      /\ \A n \in DOMAIN queue' : n \in Nat
  BY <1>0, <1>1, <1>2
<1>4. /\ Active' = Active /\ drainer'.session = drainer.session /\ drainer'.version = drainer.version
      /\ drainer'.ok = drainer.ok /\ drainer'.dropped = drainer.dropped
      /\ (drainer'.pc = "written" <=> drainer.pc = "written") /\ drainer'.pc # "idle"
  BY <1>0, <1>1, DrainerStarts DEF Active
<1>5. \A n \in DOMAIN queue :
         /\ queue[n] \in Job /\ queue[n].version \in Nat
         /\ IsWrite(queue[n]) => /\ queue[n].session \in Session /\ queue[n].version \in 1..last
         /\ ~IsWrite(queue[n]) => queue[n] = Barrier
  BY InQueue
<1>6. \A t \in Session : /\ row[t].version \in Nat /\ newest[t] \in Nat /\ app.promise[t] \in Nat
                         /\ row[t].version <= last /\ newest[t] <= last
                         /\ app.promise[t] <= newest[t]
  BY <1>0 DEF Numbers, Stored, AppType
<1>7. Active => drainer.session \in Session /\ drainer.version \in 1..last
  BY DEF Numbers
<1> HIDE DEF w, z
<1>8. Numbers'
  <2>1. \A t \in Session : row'[t].version <= last' /\ newest'[t] <= last' /\ app'.promise[t] <= newest'[t]
    BY <1>0, <1>1, <1>6
  <2>2. \A n \in DOMAIN queue' : \/ queue'[n] = Barrier
                                 \/ queue'[n].session \in Session /\ queue'[n].version \in 1..last'
    BY <1>0, <1>2, <1>3, <1>5
  <2>3. Active' => drainer'.session \in Session /\ drainer'.version \in 1..last'
    BY <1>0, <1>4, <1>7
  <2> QED
    BY <2>1, <2>2, <2>3 DEF Numbers, Barrier
<1>9. Ordered'
  <2>1. ASSUME NEW m \in DOMAIN queue', NEW n \in DOMAIN queue', m < n,
               IsWrite(queue'[m]), IsWrite(queue'[n])
        PROVE  queue'[m].version < queue'[n].version
    <3>1. m \in DOMAIN queue
      BY <1>3, <2>1
    <3>2. CASE n \in DOMAIN queue
      BY <1>3, <2>1, <3>1, <3>2 DEF Ordered
    <3>3. CASE n = z
      BY <1>0, <1>2, <1>3, <1>5, <2>1, <3>1, <3>3
    <3> QED
      BY <1>3, <3>2, <3>3
  <2>2. ASSUME NEW n \in DOMAIN queue', Active, IsWrite(queue'[n])
        PROVE  drainer.version < queue'[n].version
    <3>1. CASE n \in DOMAIN queue
      BY <1>3, <2>2, <3>1 DEF Ordered
    <3>2. CASE n = z
      BY <1>0, <1>2, <1>3, <1>7, <2>2, <3>2
    <3> QED
      BY <1>3, <3>1, <3>2
  <2> QED
    BY <1>4, <2>1, <2>2 DEF Ordered, IsWrite
<1>10. BarrierLast'
  <2>1. app.flush = "none" => \A n \in DOMAIN queue' : IsWrite(queue'[n])
    BY <1>2, <1>3 DEF BarrierLast
  <2>2. ASSUME NEW m \in DOMAIN queue', NEW n \in DOMAIN queue', m < n, ~IsWrite(queue'[m])
        PROVE  IsWrite(queue'[n]) /\ queue'[n].version > app.promise[queue'[n].session]
    <3>1. m \in DOMAIN queue
      BY <1>3, <2>2
    <3>2. CASE n \in DOMAIN queue
      BY <1>3, <2>2, <3>1, <3>2 DEF BarrierLast
    <3>3. CASE n = z
      BY <1>0, <1>2, <1>3, <1>6, <2>2, <3>1, <3>3
    <3> QED
      BY <1>3, <3>2, <3>3
  <2> QED
    BY <2>1, <2>2 DEF BarrierLast, IsWrite
<1>11. RowBehind'
  <2>1. ASSUME NEW t \in Session \ edited, NEW n \in DOMAIN queue', queue'[n].session = t
        PROVE  row[t].version <= queue'[n].version
    <3>1. CASE n \in DOMAIN queue
      BY <1>3, <2>1, <3>1 DEF RowBehind
    <3>2. CASE n = z
      BY <1>0, <1>2, <1>3, <1>6, <2>1, <3>2
    <3> QED
      BY <1>3, <3>1, <3>2
  <2> QED
    BY <1>4, <2>1 DEF RowBehind
<1>12. Gone' /\ Written'
  BY <1>4 DEF Gone, Written
<1>13. \A e \in Job : Queued(e) => Queued(e)'
  BY <1>3 DEF Queued
<1>14. PICK v1 \in Nat : v1 = last + 1 /\ w = Write(s, v1)
  BY <1>0 DEF w
<1>15. ASSUME NEW t \in Session, NEW v \in Nat, Trail(t, v), v <= last PROVE Trail(t, v)'
  <2>1. Queued(Write(t, v)) => Queued(Write(t, v))'
    BY <1>13, <1>15 DEF Write, Job
  <2>2. ASSUME NEW n \in DOMAIN queue', queue'[n].session = t, queue'[n].version < v, row[t].in
        PROVE  Queued(Write(t, v))
    <3>1. n # z
      BY <1>0, <1>2, <1>3, <1>15, <2>2
    <3> QED
      BY <1>3, <1>15, <2>2, <3>1 DEF Trail
  <2> QED
    BY <1>4, <1>15, <2>1, <2>2 DEF Trail
<1>16. Trails'
  <2>1. ASSUME NEW t \in Session, t # s PROVE Trail(t, newest[t])'
    <3>1. PICK v \in Nat : v = newest[t] /\ v <= last
      BY <1>6
    <3>2. Trail(t, v)'
      BY <1>15, <3>1 DEF Trails
    <3>3. newest'[t] = v
      BY <1>0, <1>1, <2>1, <3>1
    <3> QED
      BY <3>2, <3>3
  <2>2. Trail(s, newest[s])'
    <3>1. newest'[s] = v1
      BY <1>0, <1>1, <1>14
    <3>2. Queued(Write(s, v1))'
      BY <1>3, <1>14 DEF Queued
    <3>3. Trail(s, v1)'
      BY <3>2 DEF Trail
    <3> QED
      BY <3>1, <3>3
  <2>3. ASSUME NEW t \in Session, app.flush = "waiting" PROVE Trail(t, app.promise[t])'
    <3>1. PICK v \in Nat : v = app.promise[t] /\ v <= last
      BY <1>0, <1>6
    <3>2. Trail(t, v)'
      BY <1>15, <2>3, <3>1 DEF Trails
    <3> QED
      BY <3>1, <3>2
  <2> QED
    BY <2>1, <2>2, <2>3 DEF Trails
<1>17. StoredStays'
  <2>1. ASSUME NEW t \in Session, NEW n \in DOMAIN queue', queue'[n].session = t, app.flush = "stored"
        PROVE  queue'[n].version >= app.promise[t]
    <3>1. CASE n \in DOMAIN queue
      BY <1>3, <2>1, <3>1 DEF StoredStays
    <3>2. CASE n = z
      BY <1>0, <1>2, <1>3, <1>6, <2>1, <3>2
    <3> QED
      BY <1>3, <3>1, <3>2
  <2> QED
    BY <1>4, <2>1 DEF StoredStays
<1> QED
  BY <1>1, <1>3, <1>4, <1>8, <1>9, <1>10, <1>11, <1>12, <1>13, <1>14, <1>16, <1>17

LEMMA TransitionKeeps ==
  ASSUME HealthInv, TypeOK', NEW s \in Session, RecordOutcome(s) \/ RecordFailure(s)
  PROVE  HealthInv'
<1> USE DEF HealthInv
<1>0. /\ last \in Nat /\ last' = last + 1 /\ last' \in Nat /\ Transition(s)
      /\ UNCHANGED <<row, failures, app, edited, admin, sealed>>
      /\ probe \in [waiting : BOOLEAN, version : Nat] /\ probe.version <= last
      /\ app \in AppType
  BY DEF TypeOK, RecordOutcome, RecordFailure, Transition, NextVersion, Numbers
<1>1. CASE mem[s].in /\ ~sealed
  <2>1. Enqueue(s, last') /\ (probe' = probe \/ (probe'.version = last' /\ probe'.waiting))
    BY <1>0, <1>1 DEF Transition, RecordOutcome, RecordFailure
  <2>2. probe'.version <= last'
    BY <1>0, <2>1
  <2>3. /\ Numbers' /\ Ordered' /\ BarrierLast' /\ RowBehind' /\ Gone' /\ Written' /\ Trails'
        /\ StoredStays'
        /\ \A e \in Job : Queued(e) => Queued(e)'
        /\ \E n \in DOMAIN queue' : queue'[n] = Write(s, last')
        /\ queue' # << >> /\ drainer'.pc # "idle"
        /\ Active' = Active /\ drainer'.version = drainer.version
    BY <1>0, <1>1, <2>1, <2>2, EnqueueKeeps
  <2>4. WaitersServed'
    <3>1. Barrier \in Job /\ \A t \in Session : Write(t, probe.version) \in Job
      BY <1>0 DEF Barrier, Job, Write
    <3>2. (Active <=> drainer.pc \in {"writing", "written"}) /\ (Active' <=> drainer'.pc \in {"writing", "written"})
      BY DEF Active
    <3>3. app.flush = "waiting" => Queued(Barrier)'
      BY <2>3, <3>1 DEF WaitersServed, Barrier
    <3>4. CASE probe' = probe
      <4>1. probe.waiting => \/ \E t \in Session : Queued(Write(t, probe.version))
                             \/ drainer.version = probe.version /\ Active
        BY DEF WaitersServed, Active
      <4>2. PICK v \in Nat : v = probe.version
        BY <1>0
      <4>3. \A t \in Session : Queued(Write(t, v)) => Queued(Write(t, v))'
        BY <2>3, <3>1, <4>2
      <4>4. probe'.waiting => \/ \E t \in Session : Queued(Write(t, v))'
                              \/ drainer'.version = v /\ drainer'.pc \in {"writing", "written"}
        BY <2>3, <3>2, <3>4, <4>1, <4>2, <4>3
      <4> QED
        BY <1>0, <2>3, <3>3, <3>4, <4>2, <4>4 DEF WaitersServed
    <3>5. CASE probe'.version = last'
      BY <1>0, <2>3, <3>3, <3>5 DEF WaitersServed, Queued
    <3> QED
      BY <2>1, <3>4, <3>5
  <2>5. Sealed'
    BY <1>0, <1>1 DEF Sealed, Quiescent
  <2> QED
    BY <2>3, <2>4, <2>5
<1>2. CASE ~(mem[s].in /\ ~sealed)
  <2>1. UNCHANGED <<newest, queue, drainer, probe>>
    BY <1>0, <1>2 DEF Transition, Enqueue, RecordOutcome, RecordFailure
  <2>2. /\ Numbers' /\ Ordered' /\ BarrierLast' /\ RowBehind' /\ Written' /\ Trails'
        /\ StoredStays' /\ WaitersServed'
    <3>1. \A t \in Session : row[t].version \in Nat /\ row[t].version <= last
      BY DEF TypeOK, Stored, Numbers
    <3>2. /\ \A t \in Session : row'[t].in => row[t].in
          /\ \A t \in Session : row'[t].version >= row[t].version /\ row'[t].version <= last'
          /\ \A t \in Session : t \notin edited' => row'[t].version = row[t].version
      BY <1>0, <3>1
    <3> QED
      <4> HIDE DEF HealthInv
      <4>1. /\ HealthInv /\ TypeOK' /\ UNCHANGED <<newest, queue, drainer, failures, probe>>
            /\ last' >= last /\ app'.promise = app.promise /\ app'.flush \in {app.flush, "timeout"}
            /\ edited \subseteq edited'
        BY <1>0, <2>1
      <4> QED
        BY <3>2, <4>1, BesideStep
  <2>3. Gone' /\ Sealed'
    BY <1>0, <2>1 DEF Gone, Sealed, Quiescent, Active
  <2> QED
    BY <2>2, <2>3
<1> QED
  BY <1>1, <1>2

LEMMA AdminKeeps ==
  ASSUME HealthInv, TypeOK', NEW a \in Admin, NEW s \in Session, ResetHealth(a, s) \/ DeleteRow(a, s)
  PROVE  HealthInv'
<1> USE DEF HealthInv
<1>0. /\ last \in Nat /\ last' \in Nat /\ last' >= last
      /\ UNCHANGED <<newest, queue, drainer, failures, probe, app, sealed, mem>>
      /\ edited \subseteq edited'
      /\ admin \in [Admin -> AdminType]
  BY DEF TypeOK, ResetHealth, DeleteRow, NextVersion
<1>1. \A t \in Session : row[t].version \in Nat /\ row[t].version <= last
  BY DEF TypeOK, Stored, Numbers
<1>2. /\ \A t \in Session \ {s} : row'[t] = row[t]
      /\ \/ row'[s] = [in |-> row[s].in, version |-> last'] /\ s \in edited' /\ last' = last + 1
         \/ row'[s] = [in |-> FALSE, version |-> row[s].version]
  <2>0. row \in [Session -> Stored]
    BY DEF TypeOK
  <2>1. CASE ResetHealth(a, s)
    <3>1. row' = [row EXCEPT ![s].version = last'] /\ edited' = edited \cup {s} /\ last' = last + 1
      BY <2>1 DEF ResetHealth, NextVersion
    <3>2. \A r \in [Session -> Stored], v \in Nat :
            /\ [r EXCEPT ![s].version = v][s] = [in |-> r[s].in, version |-> v]
            /\ \A t \in Session \ {s} : [r EXCEPT ![s].version = v][t] = r[t]
      BY DEF Stored
    <3> QED
      BY <1>0, <2>0, <3>1, <3>2
  <2>2. CASE DeleteRow(a, s)
    <3>1. row' = [row EXCEPT ![s].in = FALSE]
      BY <2>2 DEF DeleteRow
    <3>2. \A r \in [Session -> Stored] : /\ [r EXCEPT ![s].in = FALSE][s] = [in |-> FALSE, version |-> r[s].version]
                                         /\ \A t \in Session \ {s} : [r EXCEPT ![s].in = FALSE][t] = r[t]
      BY DEF Stored
    <3> QED
      BY <2>0, <3>1, <3>2
  <2> QED
    BY <2>1, <2>2
<1>3. /\ \A t \in Session : row'[t].in => row[t].in
      /\ \A t \in Session : row'[t].version >= row[t].version /\ row'[t].version <= last'
      /\ \A t \in Session : t \notin edited' => row'[t].version = row[t].version
  BY <1>0, <1>1, <1>2
<1>4. /\ Numbers' /\ Ordered' /\ BarrierLast' /\ RowBehind' /\ Written' /\ Trails'
      /\ StoredStays' /\ WaitersServed'
  BY <1>0, <1>3, BesideStep
<1>5. Sealed'
  BY <1>0 DEF Sealed, Quiescent
<1>6. Gone'
  <2>1. /\ \A b \in Admin \ {a} : admin'[b] = admin[b]
        /\ admin'[a].session = s
        /\ admin'[a].pc = "upsert" \/ (admin'[a].pc = "remove" /\ ~row'[s].in)
    <3>1. CASE ResetHealth(a, s)
      <4>1. admin' = [admin EXCEPT ![a] = [pc |-> "upsert", session |-> s, version |-> last']]
        BY <3>1 DEF ResetHealth
      <4> QED
        BY <1>0, <4>1
    <3>2. CASE DeleteRow(a, s)
      <4>1. /\ admin' = [admin EXCEPT ![a] = [pc |-> "remove", session |-> s, version |-> 0]]
            /\ row' = [row EXCEPT ![s].in = FALSE]
        BY <3>2 DEF DeleteRow
      <4>2. \A r \in [Session -> Stored] : [r EXCEPT ![s].in = FALSE][s] = [in |-> FALSE, version |-> r[s].version]
        BY DEF Stored
      <4>3. row'[s].in = FALSE
        BY <4>1, <4>2 DEF TypeOK
      <4> QED
        BY <1>0, <4>1, <4>3
    <3> QED
      BY <3>1, <3>2
  <2>2. Active => drainer.session \in Session
    BY DEF Numbers
  <2> QED
    BY <1>0, <1>3, <2>1, <2>2 DEF Gone, Active
<1> QED
  BY <1>4, <1>5, <1>6

(* The flush at the end of the process.                                    *)
LEMMA FlushKeeps ==
  ASSUME HealthInv, TypeOK', Flush
  PROVE  HealthInv'
<1> USE DEF HealthInv
<1>0. /\ UNCHANGED <<row, mem, last, newest, failures, sealed, probe, admin, edited>>
      /\ app.pc = "flush" /\ app.flush = "none" /\ app \in AppType /\ app'.pc = "flush"
      /\ app'.down = app.down /\ app'.promise = newest /\ drainer \in DrainerType
      /\ queue \in Seq(Job) /\ newest \in [Session -> Nat] /\ last \in Nat
      /\ \A t \in Session : row[t].version \in Nat
  BY DEF Flush, TypeOK, AppType, Stored
<1>1. CASE drainer.pc = "idle" /\ queue = << >>
  <2>1. UNCHANGED <<queue, drainer>> /\ app'.flush = (IF failures = {} THEN "stored" ELSE "missing")
    BY <1>0, <1>1 DEF Flush, AppType
  <2>2. ~Active /\ ~Active' /\ DOMAIN queue = {}
    BY <1>1, <2>1 DEF Active
  <2>3. Numbers' /\ Ordered' /\ BarrierLast' /\ RowBehind' /\ Gone' /\ Written'
    BY <1>0, <1>1, <2>1, <2>2 DEF Numbers, Ordered, BarrierLast, RowBehind, Gone, Written
  <2>4. ASSUME NEW t \in Session, NEW v \in Nat, Trail(t, v) PROVE Trail(t, v)'
    BY <1>0, <2>1, <2>2, <2>4 DEF Trail, Queued, Write
  <2>5. Trails'
    BY <1>0, <2>1, <2>4 DEF Trails
  <2>6. StoredStays'
    <3>1. ASSUME NEW t \in Session, failures = {}, row[t].in PROVE row[t].version >= newest[t]
      BY <2>2, <3>1 DEF Trails, Trail, Queued
    <3> QED
      BY <1>0, <2>1, <2>2, <3>1 DEF StoredStays
  <2>7. Sealed' /\ WaitersServed'
    BY <1>0, <1>1, <2>1, <2>2 DEF Sealed, WaitersServed, Queued, Active
  <2> QED
    BY <2>3, <2>5, <2>6, <2>7
<1>2. CASE ~(drainer.pc = "idle" /\ queue = << >>)
  <2>0. queue' = Append(queue, Barrier) /\ StartDrainer /\ app'.flush = "waiting"
    BY <1>0, <1>2 DEF Flush, AppType
  <2> DEFINE z == Len(queue) + 1
  <2>1. Barrier \in Job /\ Barrier.session = None /\ ~IsWrite(Barrier)
    BY DEF Barrier, Job, IsWrite
  <2>2. /\ queue'[z] = Barrier /\ z \in DOMAIN queue'
        /\ \A n \in DOMAIN queue : n \in DOMAIN queue' /\ queue'[n] = queue[n] /\ n < z
        /\ \A n \in DOMAIN queue' : n \in DOMAIN queue \/ n = z
        /\ \A n \in DOMAIN queue' : n \in Nat
    BY <1>0, <2>0, <2>1
  <2>3. /\ Active' = Active /\ drainer'.session = drainer.session /\ drainer'.version = drainer.version
        /\ drainer'.ok = drainer.ok /\ drainer'.dropped = drainer.dropped
        /\ (drainer'.pc = "written" <=> drainer.pc = "written") /\ drainer'.pc # "idle"
    BY <1>0, <2>0, DrainerStarts DEF Active
  <2>4. \A n \in DOMAIN queue : IsWrite(queue[n])
    BY <1>0 DEF BarrierLast
  <2> HIDE DEF z
  <2>5. Numbers'
    <3>1. \A n \in DOMAIN queue' : \/ queue'[n] = Barrier
                                   \/ queue'[n].session \in Session /\ queue'[n].version \in 1..last
      BY <2>1, <2>2 DEF Numbers
    <3> QED
      BY <1>0, <2>3, <3>1 DEF Numbers, Barrier
  <2>6. Ordered'
    <3>1. ASSUME NEW n \in DOMAIN queue', IsWrite(queue'[n])
          PROVE  n \in DOMAIN queue /\ queue'[n] = queue[n]
      BY <2>1, <2>2, <3>1
    <3> QED
      BY <2>3, <3>1 DEF Ordered, IsWrite
  <2>7. BarrierLast'
    <3>1. ASSUME NEW m \in DOMAIN queue', NEW n \in DOMAIN queue', m < n PROVE IsWrite(queue'[m])
      <4>1. m \in DOMAIN queue
        BY <2>2, <3>1
      <4> QED
        BY <2>2, <2>4, <4>1
    <3> QED
      BY <2>0, <3>1 DEF BarrierLast, IsWrite
  <2>8. RowBehind'
    <3>1. ASSUME NEW t \in Session, NEW n \in DOMAIN queue', queue'[n].session = t
          PROVE  n \in DOMAIN queue /\ queue'[n] = queue[n]
      BY <2>1, <2>2, <3>1, HealthAssumption
    <3> QED
      BY <1>0, <2>3, <3>1 DEF RowBehind
  <2>9. Gone' /\ Written'
    BY <1>0, <2>3 DEF Gone, Written
  <2>10. \A e \in Job : Queued(e) => Queued(e)'
    BY <2>2 DEF Queued
  <2>11. ASSUME NEW t \in Session, NEW v \in Nat, Trail(t, v) PROVE Trail(t, v)'
    <3>1. Queued(Write(t, v)) => Queued(Write(t, v))'
      BY <2>10 DEF Write, Job
    <3>2. ASSUME NEW n \in DOMAIN queue', queue'[n].session = t
          PROVE  n \in DOMAIN queue /\ queue'[n] = queue[n]
      BY <2>1, <2>2, <3>2, HealthAssumption
    <3> QED
      BY <1>0, <2>3, <2>11, <3>1, <3>2 DEF Trail
  <2>12. Trails'
    <3>1. ASSUME NEW t \in Session PROVE Trail(t, newest[t])' /\ Trail(t, app.promise[t])'
      <4>1. PICK v \in Nat : v = newest[t]
        BY <1>0
      <4>2. Trail(t, v)'
        BY <2>11, <4>1 DEF Trails
      <4>3. newest'[t] = v /\ app'.promise[t] = v
        BY <1>0, <4>1
      <4> QED
        BY <4>2, <4>3
    <3> QED
      BY <3>1 DEF Trails
  <2>13. StoredStays' /\ Sealed'
    BY <1>0, <2>0 DEF StoredStays, Sealed
  <2>14. WaitersServed'
    <3>1. Queued(Barrier)' /\ queue' # << >>
      BY <2>2 DEF Queued, Barrier
    <3>2. PICK v \in Nat : v = probe.version
      BY DEF TypeOK
    <3>3. \A t \in Session : Queued(Write(t, v)) => Queued(Write(t, v))'
      BY <2>10, <3>2 DEF Write, Job
    <3>4. (Active <=> drainer.pc \in {"writing", "written"}) /\ (Active' <=> drainer'.pc \in {"writing", "written"})
      BY DEF Active
    <3> QED
      BY <1>0, <2>3, <3>1, <3>2, <3>3, <3>4 DEF WaitersServed
  <2> QED
    BY <2>5, <2>6, <2>7, <2>8, <2>9, <2>12, <2>13, <2>14
<1> QED
  BY <1>1, <1>2

-----------------------------------------------------------------------------
(* Snapshots leave the queue.                                              *)

Within(q, r) ==
  /\ \A n \in DOMAIN q : \E k \in DOMAIN r : q[n] = r[k]
  /\ \A m, n \in DOMAIN q : m < n => \E j, k \in DOMAIN r : j < k /\ q[m] = r[j] /\ q[n] = r[k]

LEMMA TailOf ==
  ASSUME NEW T, NEW q \in Seq(T), q # << >>
  PROVE  /\ Tail(q) \in Seq(T) /\ Within(Tail(q), q)
         /\ Head(q) = q[1] /\ 1 \in DOMAIN q
         /\ \A n \in DOMAIN q : n = 1 \/ \E k \in DOMAIN Tail(q) : q[n] = Tail(q)[k]
         /\ \A k \in DOMAIN Tail(q) : k + 1 \in DOMAIN q /\ 1 < k + 1 /\ Tail(q)[k] = q[k + 1]
<1>1. /\ Len(q) \in Nat /\ Len(q) > 0 /\ Len(Tail(q)) = Len(q) - 1 /\ Tail(q) \in Seq(T)
      /\ DOMAIN q = 1..Len(q) /\ DOMAIN Tail(q) = 1..(Len(q) - 1)
      /\ Head(q) = q[1]
  OBVIOUS
<1>2. \A k \in 1..(Len(q) - 1) : Tail(q)[k] = q[k + 1]
  BY <1>1
<1>3. \A n \in 1..Len(q) : n = 1 \/ (n - 1 \in 1..(Len(q) - 1) /\ q[n] = Tail(q)[n - 1])
  BY <1>1, <1>2
<1>4. \A k \in 1..(Len(q) - 1) : k + 1 \in 1..Len(q) /\ 1 < k + 1
  BY <1>1
<1>5. Within(Tail(q), q)
  <2>1. ASSUME NEW n \in DOMAIN Tail(q) PROVE \E k \in DOMAIN q : Tail(q)[n] = q[k]
    BY <1>1, <1>2, <1>4
  <2>2. ASSUME NEW m \in DOMAIN Tail(q), NEW n \in DOMAIN Tail(q), m < n
        PROVE  \E j, k \in DOMAIN q : j < k /\ Tail(q)[m] = q[j] /\ Tail(q)[n] = q[k]
    <3>1. m + 1 < n + 1
      BY <1>1, <2>2
    <3> QED
      BY <1>1, <1>2, <1>4, <3>1
  <2> QED
    BY <2>1, <2>2 DEF Within
<1>6. \A n \in DOMAIN q : n = 1 \/ \E k \in DOMAIN Tail(q) : q[n] = Tail(q)[k]
  BY <1>1, <1>3
<1>7. \A k \in DOMAIN Tail(q) : k + 1 \in DOMAIN q /\ 1 < k + 1 /\ Tail(q)[k] = q[k + 1]
  BY <1>1, <1>2, <1>4
<1>8. 1 \in DOMAIN q
  BY <1>1
<1> QED
  BY <1>1, <1>5, <1>6, <1>7, <1>8

LEMMA WithinKeeps ==
  ASSUME HealthInv, TypeOK', Within(queue', queue), UNCHANGED <<row, last, newest, edited>>,
         Active' => Active /\ drainer'.session = drainer.session /\ drainer'.version = drainer.version,
         app'.promise = app.promise, app'.flush = "none" => app.flush = "none",
         probe'.version <= last
  PROVE  /\ Numbers' /\ Ordered' /\ BarrierLast' /\ RowBehind'
         /\ (app'.flush = "stored" => app.flush = "stored") => StoredStays'
<1> USE DEF HealthInv
<1>0. \A n \in DOMAIN queue' : \E k \in DOMAIN queue : queue'[n] = queue[k]
  BY DEF Within
<1>1. Numbers'
  <2>1. \A n \in DOMAIN queue' : \/ queue'[n] = Barrier
                                 \/ queue'[n].session \in Session /\ queue'[n].version \in 1..last
    BY <1>0 DEF Numbers
  <2>2. Active' => drainer'.session \in Session /\ drainer'.version \in 1..last
    BY DEF Numbers
  <2>3. \A s \in Session : row'[s].version <= last' /\ newest'[s] <= last' /\ app'.promise[s] <= newest'[s]
    BY DEF Numbers
  <2> QED
    BY <2>1, <2>2, <2>3 DEF Numbers, Barrier
<1>2. Ordered'
  <2>1. ASSUME NEW m \in DOMAIN queue', NEW n \in DOMAIN queue', m < n,
               IsWrite(queue'[m]), IsWrite(queue'[n])
        PROVE  queue'[m].version < queue'[n].version
    <3>1. PICK j \in DOMAIN queue, k \in DOMAIN queue : j < k /\ queue'[m] = queue[j] /\ queue'[n] = queue[k]
      BY <2>1 DEF Within
    <3> QED
      BY <2>1, <3>1 DEF Ordered
  <2>2. ASSUME NEW n \in DOMAIN queue', Active', IsWrite(queue'[n])
        PROVE  drainer'.version < queue'[n].version
    BY <1>0, <2>2 DEF Ordered
  <2> QED
    BY <2>1, <2>2 DEF Ordered, IsWrite
<1>3. BarrierLast'
  <2>1. ASSUME NEW m \in DOMAIN queue', NEW n \in DOMAIN queue', m < n, ~IsWrite(queue'[m])
        PROVE  IsWrite(queue'[n]) /\ queue'[n].version > app.promise[queue'[n].session]
    <3>1. PICK j \in DOMAIN queue, k \in DOMAIN queue : j < k /\ queue'[m] = queue[j] /\ queue'[n] = queue[k]
      BY <2>1 DEF Within
    <3> QED
      BY <2>1, <3>1 DEF BarrierLast
  <2>2. app.flush = "none" => \A n \in DOMAIN queue' : IsWrite(queue'[n])
    BY <1>0 DEF BarrierLast
  <2> QED
    BY <2>1, <2>2 DEF BarrierLast, IsWrite
<1>4. RowBehind'
  <2>1. \A s \in Session \ edited : \A n \in DOMAIN queue' :
           queue'[n].session = s => row[s].version <= queue'[n].version
    BY <1>0 DEF RowBehind
  <2> QED
    BY <2>1 DEF RowBehind
<1>5. ASSUME app'.flush = "stored" => app.flush = "stored" PROVE StoredStays'
  <2>1. ASSUME NEW s \in Session, app.flush = "stored"
        PROVE  \A n \in DOMAIN queue' : queue'[n].session = s => queue'[n].version >= app.promise[s]
    BY <1>0, <2>1 DEF StoredStays
  <2> QED
    BY <1>5, <2>1 DEF StoredStays
<1> QED
  BY <1>1, <1>2, <1>3, <1>4, <1>5

LEMMA RemoveKeeps ==
  ASSUME HealthInv, TypeOK', NEW a \in Admin, RemoveSession(a)
  PROVE  HealthInv'
<1> USE DEF HealthInv
<1>0. /\ UNCHANGED <<row, last, newest, sealed, app, edited>>
      /\ queue \in Seq(Job) /\ drainer \in DrainerType /\ admin[a].pc = "remove"
      /\ admin \in [Admin -> AdminType] /\ admin' = [admin EXCEPT ![a].pc = "done"]
      /\ last \in Nat /\ probe \in [waiting : BOOLEAN, version : Nat] /\ probe.version <= last
  BY DEF RemoveSession, TypeOK, Numbers
<1>1. PICK s \in Session : s = admin[a].session /\ ~row[s].in
  BY <1>0 DEF Gone
<1> DEFINE kept == {n \in DOMAIN queue : queue[n].session # s}
<1>2. /\ queue' = Pick(queue, kept)
      /\ drainer' = IF drainer.session = s THEN [drainer EXCEPT !.dropped = TRUE] ELSE drainer
      /\ failures' = failures \ {s}
      /\ probe' = IF \E i \in 1..Len(queue) : queue[i] = Write(s, probe.version) THEN NoProbe ELSE probe
  BY <1>1 DEF RemoveSession
<1>3. /\ \A n \in DOMAIN queue' : Nth(kept, n) \in kept /\ queue'[n] = queue[Nth(kept, n)]
      /\ \A i \in kept : \E n \in DOMAIN queue' : Nth(kept, n) = i
      /\ \A m, n \in DOMAIN queue' : m < n => Nth(kept, m) < Nth(kept, n)
  <2>1. PICK k \in SUBSET DOMAIN queue : k = kept
    OBVIOUS
  <2> HIDE DEF kept
  <2> QED
    BY <1>0, <1>2, <2>1, Picked
<1>4. /\ drainer'.pc = drainer.pc /\ drainer'.session = drainer.session
      /\ drainer'.version = drainer.version /\ drainer'.ok = drainer.ok
      /\ drainer'.dropped = (drainer.dropped \/ drainer.session = s)
      /\ Active' = Active
  BY <1>0, <1>2 DEF DrainerType, Active
<1>5. Within(queue', queue)
  BY <1>3 DEF Within
<1>6. \A e : Queued(e) /\ e.session # s => \E n \in DOMAIN queue' : queue'[n] = e
  BY <1>3 DEF Queued
<1>7. \A n \in DOMAIN queue' : \E k \in DOMAIN queue : queue'[n] = queue[k]
  BY <1>5 DEF Within
<1> HIDE DEF kept
<1>8. probe'.version <= last
  BY <1>0, <1>2 DEF NoProbe
<1>9. Numbers' /\ Ordered' /\ BarrierLast' /\ RowBehind' /\ StoredStays'
  BY <1>0, <1>4, <1>5, <1>8, WithinKeeps
<1>10. Written'
  BY <1>0, <1>4 DEF Written
<1>11. Gone'
  <2>1. admin'[a].pc = "done" /\ \A b \in Admin \ {a} : admin'[b] = admin[b]
    BY <1>0, AdminSet
  <2> QED
    BY <1>0, <1>1, <1>4, <2>1 DEF Gone
<1>12. ASSUME NEW t \in Session, NEW v \in Nat, Trail(t, v) PROVE Trail(t, v)'
  <2>1. CASE t = s
    BY <1>0, <1>1, <2>1 DEF Trail
  <2>2. CASE t # s
    <3>1. Queued(Write(t, v)) => Queued(Write(t, v))'
      <4>1. Write(t, v).session = t
        BY DEF Write
      <4> QED
        BY <1>6, <2>2, <4>1 DEF Queued, Write
    <3>2. t \in failures => t \in failures'
      BY <1>2, <2>2
    <3> QED
      BY <1>0, <1>4, <1>7, <1>12, <3>1, <3>2 DEF Trail
  <2> QED
    BY <2>1, <2>2
<1>13. Trails'
  <2>1. \A t \in Session : newest[t] \in Nat /\ app.promise[t] \in Nat
    BY DEF TypeOK, AppType
  <2> QED
    BY <1>0, <1>12, <2>1 DEF Trails
<1>14. Sealed'
  <2>1. queue = << >> => queue' = << >>
    <3>1. queue' \in Seq(Job)
      BY DEF TypeOK
    <3>2. queue = << >> => DOMAIN queue' = {}
      <4>1. queue = << >> => DOMAIN queue = {}
        OBVIOUS
      <4> QED
        BY <1>7, <4>1
    <3> QED
      BY <3>1, <3>2
  <2> QED
    BY <1>0, <1>4, <2>1 DEF Sealed, Quiescent
<1>15. WaitersServed'
  <2>1. app.flush = "waiting" => Queued(Barrier)'
    <3>1. Barrier.session # s
      BY HealthAssumption DEF Barrier
    <3> QED
      BY <1>6, <3>1 DEF WaitersServed, Queued, Barrier
  <2>2. queue' # << >> => drainer'.pc # "idle"
    <3>1. queue = << >> => queue' = << >>
      <4>1. queue' \in Seq(Job)
        BY DEF TypeOK
      <4>2. queue = << >> => DOMAIN queue' = {}
        <5>1. queue = << >> => DOMAIN queue = {}
          OBVIOUS
        <5> QED
          BY <1>7, <5>1
      <4> QED
        BY <4>1, <4>2
    <3> QED
      BY <1>4, <3>1 DEF WaitersServed
  <2>3. ASSUME probe'.waiting
        PROVE  \/ \E t \in Session : Queued(Write(t, probe.version))'
               \/ drainer'.version = probe'.version /\ drainer'.pc \in {"writing", "written"}
    <3>1. probe' = probe /\ ~\E i \in 1..Len(queue) : queue[i] = Write(s, probe.version)
      BY <1>2, <2>3 DEF NoProbe
    <3>2. PICK v \in Nat : v = probe.version
      BY <1>0
    <3>3. \A t \in Session : Queued(Write(t, v)) => Queued(Write(t, v))'
      <4>1. \A t \in Session : Write(t, v).session = t
        BY DEF Write
      <4>2. ~Queued(Write(s, v))
        BY <1>0, <3>1, <3>2 DEF Queued
      <4> QED
        BY <1>6, <4>1, <4>2 DEF Queued, Write
    <3> QED
      BY <1>4, <2>3, <3>1, <3>2, <3>3 DEF WaitersServed
  <2> QED
    BY <1>0, <2>1, <2>2, <2>3 DEF WaitersServed
<1> QED
  BY <1>9, <1>10, <1>11, <1>13, <1>14, <1>15

-----------------------------------------------------------------------------
(* The drainer.                                                            *)

LEMMA HealthFacts ==
  ASSUME HealthInv
  PROVE  /\ drainer \in DrainerType /\ queue \in Seq(Job) /\ last \in Nat /\ app \in AppType
         /\ newest \in [Session -> Nat] /\ probe \in [waiting : BOOLEAN, version : Nat]
         /\ row \in [Session -> Stored] /\ probe.version <= last
         /\ \A s \in Session : /\ row[s].version \in Nat /\ newest[s] \in Nat /\ app.promise[s] \in Nat
                               /\ row[s].version <= last
         /\ Active => drainer.session \in Session /\ drainer.version \in 1..last
BY DEF HealthInv, TypeOK, Stored, AppType, Numbers

LEMMA DrainIdleKeeps ==
  ASSUME HealthInv, TypeOK', DrainIdle PROVE HealthInv'
<1>0. /\ UNCHANGED <<row, mem, last, newest, queue, failures, sealed, probe, admin, app, edited>>
      /\ queue = << >> /\ drainer' = IdleDrainer /\ ~Active /\ ~Active' /\ DOMAIN queue = {}
  BY DEF DrainIdle, IdleDrainer, Active
<1>1. Within(queue', queue)
  BY <1>0 DEF Within
<1>2. Numbers' /\ Ordered' /\ BarrierLast' /\ RowBehind' /\ StoredStays'
  BY <1>0, <1>1, HealthFacts, WithinKeeps
<1> USE DEF HealthInv
<1>3. Gone' /\ Written' /\ WaitersServed' /\ Sealed'
  BY <1>0 DEF Gone, Written, IdleDrainer, WaitersServed, Queued, Sealed, Quiescent, Active
<1>4. ASSUME NEW s \in Session, NEW v \in Nat, Trail(s, v) PROVE Trail(s, v)'
  BY <1>0, <1>4 DEF Trail, Queued, Write
<1>5. Trails'
  BY <1>0, <1>4, HealthFacts DEF Trails
<1> QED
  BY <1>2, <1>3, <1>5

LEMMA DrainBarrierKeeps ==
  ASSUME HealthInv, TypeOK', DrainBarrier PROVE HealthInv'
<1>0. /\ UNCHANGED <<row, mem, last, newest, drainer, failures, sealed, probe, admin, edited>>
      /\ drainer.pc = "running" /\ queue # << >> /\ Head(queue).session = None
      /\ queue' = Tail(queue) /\ ~Active /\ ~Active'
      /\ app' = IF app.flush = "waiting"
                THEN [app EXCEPT !.flush = IF failures = {} THEN "stored" ELSE "missing"] ELSE app
  BY DEF DrainBarrier, Active
<1>1. /\ app'.pc = app.pc /\ app'.down = app.down /\ app'.promise = app.promise
      /\ app'.flush = IF app.flush = "waiting"
                      THEN IF failures = {} THEN "stored" ELSE "missing" ELSE app.flush
  BY <1>0, HealthFacts DEF AppType
<1>2. /\ Within(queue', queue) /\ Head(queue) = queue[1] /\ 1 \in DOMAIN queue
      /\ \A n \in DOMAIN queue : n = 1 \/ \E k \in DOMAIN queue' : queue[n] = queue'[k]
      /\ \A k \in DOMAIN queue' : k + 1 \in DOMAIN queue /\ 1 < k + 1 /\ queue'[k] = queue[k + 1]
  BY <1>0, HealthFacts, TailOf
<1>3. ~IsWrite(queue[1])
  BY <1>0, <1>2 DEF IsWrite
<1>4. /\ Numbers' /\ Ordered' /\ BarrierLast' /\ RowBehind'
      /\ (app'.flush = "stored" => app.flush = "stored") => StoredStays'
  BY <1>0, <1>1, <1>2, HealthFacts, WithinKeeps
<1> USE DEF HealthInv
<1>5. Gone' /\ Written' /\ Sealed'
  BY <1>0, <1>1 DEF Gone, Written, Sealed, Quiescent
<1>6. ASSUME NEW s \in Session, NEW v \in Nat PROVE Queued(Write(s, v)) => Queued(Write(s, v))'
  <2>1. IsWrite(Write(s, v))
    BY HealthAssumption DEF IsWrite, Write
  <2> QED
    BY <1>2, <1>3, <2>1 DEF Queued, Write
<1>7. \A k \in DOMAIN queue' : \E n \in DOMAIN queue : queue'[k] = queue[n]
  BY <1>2 DEF Within
<1>8. ASSUME NEW s \in Session, NEW v \in Nat, Trail(s, v) PROVE Trail(s, v)'
  BY <1>0, <1>6, <1>7, <1>8 DEF Trail
<1>9. Trails'
  BY <1>0, <1>1, <1>8, HealthFacts DEF Trails
<1>10. StoredStays'
  <2>1. CASE app.flush = "waiting" /\ failures = {}
    <3>1. ASSUME NEW s \in Session, NEW k \in DOMAIN queue', queue'[k].session = s
          PROVE  queue'[k].version > app.promise[s]
      BY <1>2, <1>3, <3>1 DEF BarrierLast
    <3>2. ASSUME NEW s \in Session, row[s].in PROVE row[s].version >= app.promise[s]
      <4>1. Trail(s, app.promise[s])
        BY <2>1 DEF Trails
      <4>2. CASE Queued(Write(s, app.promise[s]))
        <5>1. PICK k \in DOMAIN queue' : queue'[k] = Write(s, app.promise[s])
          BY <1>0, <1>1, <1>6, <4>2, HealthFacts DEF Queued, Write
        <5>2. app.promise[s] > app.promise[s]
          BY <3>1, <5>1 DEF Write
        <5> QED
          BY <5>2, HealthFacts
      <4> QED
        BY <1>0, <2>1, <3>2, <4>1, <4>2 DEF Trail
    <3>3. \A s \in Session : \A k \in DOMAIN queue' :
             queue'[k].session = s => queue'[k].version >= app.promise[s]
      <4>1. \A k \in DOMAIN queue' : queue'[k].version \in Nat
        BY <1>7, InQueue
      <4> QED
        BY <3>1, <4>1, HealthFacts
    <3> QED
      BY <1>0, <1>1, <3>2, <3>3 DEF StoredStays
  <2>2. CASE ~(app.flush = "waiting" /\ failures = {})
    BY <1>1, <1>4, <2>2
  <2> QED
    BY <2>1, <2>2
<1>11. WaitersServed'
  <2>1. app'.flush # "waiting"
    BY <1>1
  <2>2. PICK v \in Nat : v = probe.version
    BY HealthFacts
  <2>3. probe.waiting => \E s \in Session : Queued(Write(s, v))
    BY <1>0, <2>2 DEF WaitersServed
  <2>4. probe.waiting => \E s \in Session : Queued(Write(s, v))'
    BY <1>6, <2>3
  <2> QED
    BY <1>0, <2>1, <2>2, <2>4 DEF WaitersServed
<1> QED
  BY <1>4, <1>5, <1>9, <1>10, <1>11

LEMMA DrainTakeKeeps ==
  ASSUME HealthInv, TypeOK', DrainTake PROVE HealthInv'
<1>0. /\ UNCHANGED <<row, mem, last, newest, failures, sealed, probe, admin, app, edited>>
      /\ drainer.pc = "running" /\ queue # << >> /\ Head(queue).session # None
      /\ queue' = Tail(queue) /\ ~Active /\ Active'
      /\ drainer' = [pc |-> "writing", session |-> Head(queue).session, version |-> Head(queue).version,
                     ok |-> FALSE, dropped |-> FALSE]
  BY DEF DrainTake, IdleDrainer, Active
<1>1. /\ Within(queue', queue) /\ Head(queue) = queue[1] /\ 1 \in DOMAIN queue
      /\ \A n \in DOMAIN queue : n = 1 \/ \E k \in DOMAIN queue' : queue[n] = queue'[k]
      /\ \A k \in DOMAIN queue' : k + 1 \in DOMAIN queue /\ 1 < k + 1 /\ queue'[k] = queue[k + 1]
  BY <1>0, HealthFacts, TailOf
<1>2. PICK s \in Session, v \in 1..last : queue[1] = Write(s, v)
  <2>1. IsWrite(queue[1])
    BY <1>0, <1>1 DEF IsWrite
  <2> QED
    BY <1>1, <2>1, InQueue
<1>3. v \in Nat /\ IsWrite(queue[1]) /\ queue[1].session = s /\ queue[1].version = v
      /\ drainer'.session = s /\ drainer'.version = v /\ drainer'.pc = "writing" /\ ~drainer'.dropped
  BY <1>0, <1>1, <1>2, HealthAssumption, HealthFacts DEF IsWrite, Write
<1>4. \A k \in DOMAIN queue' : \E n \in DOMAIN queue : queue'[k] = queue[n]
  BY <1>1 DEF Within
<1> USE DEF HealthInv
<1>5. Numbers'
  <2>1. \A n \in DOMAIN queue' : \/ queue'[n] = Barrier
                                 \/ queue'[n].session \in Session /\ queue'[n].version \in 1..last
    BY <1>4 DEF Numbers
  <2>2. \A t \in Session : row'[t].version <= last' /\ newest'[t] <= last' /\ app'.promise[t] <= newest'[t]
    BY <1>0 DEF Numbers
  <2> QED
    BY <1>0, <1>2, <1>3, <2>1, <2>2, HealthFacts DEF Numbers, Barrier
<1>6. Ordered'
  <2>1. ASSUME NEW m \in DOMAIN queue', NEW n \in DOMAIN queue', m < n,
               IsWrite(queue'[m]), IsWrite(queue'[n])
        PROVE  queue'[m].version < queue'[n].version
    <3>1. PICK j \in DOMAIN queue, k \in DOMAIN queue : j < k /\ queue'[m] = queue[j] /\ queue'[n] = queue[k]
      BY <1>1, <2>1 DEF Within
    <3> QED
      BY <2>1, <3>1 DEF Ordered
  <2>2. ASSUME NEW n \in DOMAIN queue', IsWrite(queue'[n]) PROVE v < queue'[n].version
    BY <1>1, <1>3, <2>2 DEF Ordered
  <2> QED
    BY <1>3, <2>1, <2>2 DEF Ordered, IsWrite
<1>7. BarrierLast'
  <2>1. ASSUME NEW m \in DOMAIN queue', NEW n \in DOMAIN queue', m < n, ~IsWrite(queue'[m])
        PROVE  IsWrite(queue'[n]) /\ queue'[n].version > app.promise[queue'[n].session]
    <3>1. PICK j \in DOMAIN queue, k \in DOMAIN queue : j < k /\ queue'[m] = queue[j] /\ queue'[n] = queue[k]
      BY <1>1, <2>1 DEF Within
    <3> QED
      BY <2>1, <3>1 DEF BarrierLast
  <2>2. app.flush = "none" => \A n \in DOMAIN queue' : IsWrite(queue'[n])
    BY <1>4 DEF BarrierLast
  <2> QED
    BY <1>0, <2>1, <2>2 DEF BarrierLast, IsWrite
<1>8. RowBehind'
  <2>1. \A t \in Session \ edited : \A n \in DOMAIN queue' :
           queue'[n].session = t => row[t].version <= queue'[n].version
    BY <1>4 DEF RowBehind
  <2>2. s \notin edited => row[s].version <= v
    BY <1>1, <1>3 DEF RowBehind
  <2> QED
    BY <1>0, <1>3, <2>1, <2>2 DEF RowBehind
<1>9. Gone' /\ Written' /\ Sealed'
  BY <1>0, <1>3 DEF Gone, Written, Sealed, Quiescent
<1>10. ASSUME NEW t \in Session, NEW u \in Nat, Queued(Write(t, u))
       PROVE  Queued(Write(t, u))' \/ (t = s /\ u = v)
  BY <1>1, <1>2, <1>10 DEF Queued, Write
<1>11. ASSUME NEW t \in Session, NEW u \in Nat, Trail(t, u) PROVE Trail(t, u)'
  <2>1. ASSUME NEW n \in DOMAIN queue', queue'[n].session = t, queue'[n].version < u, row[t].in
        PROVE  Queued(Write(t, u))'
    <3>1. PICK k \in DOMAIN queue : queue'[n] = queue[k] /\ 1 < k
      BY <1>1, <2>1
    <3>2. Queued(Write(t, u))
      BY <1>11, <2>1, <3>1 DEF Trail
    <3>3. IsWrite(queue[k])
      BY <2>1, <3>1, HealthAssumption DEF IsWrite
    <3>4. v < queue[k].version /\ queue[k].version \in Nat
      BY <1>1, <1>3, <3>1, <3>3, InQueue DEF Ordered
    <3>5. u # v
      BY <1>3, <2>1, <3>1, <3>4
    <3> QED
      BY <1>10, <3>2, <3>5
  <2>2. ASSUME t = s, v < u, row[t].in PROVE Queued(Write(t, u))'
    <3>1. Queued(Write(t, u))
      BY <1>1, <1>3, <1>11, <2>2 DEF Trail
    <3> QED
      BY <1>3, <1>10, <2>2, <3>1
  <2>3. row[t].in => \/ row[t].version >= u
                     \/ Queued(Write(t, u))'
                     \/ t = s /\ u = v
                     \/ t \in failures
    BY <1>0, <1>10, <1>11 DEF Trail
  <2> QED
    BY <1>0, <1>3, <2>1, <2>2, <2>3 DEF Trail
<1>12. Trails'
  BY <1>0, <1>11, HealthFacts DEF Trails
<1>13. StoredStays'
  <2>1. ASSUME NEW t \in Session, app.flush = "stored"
        PROVE  \A n \in DOMAIN queue' : queue'[n].session = t => queue'[n].version >= app.promise[t]
    BY <1>4, <2>1 DEF StoredStays
  <2>2. app.flush = "stored" => v >= app.promise[s]
    BY <1>1, <1>3 DEF StoredStays
  <2> QED
    BY <1>0, <1>3, <2>1, <2>2 DEF StoredStays
<1>14. WaitersServed'
  <2>1. app.flush = "waiting" => Queued(Barrier)'
    <3>1. Barrier # queue[1]
      BY <1>3 DEF IsWrite, Barrier
    <3> QED
      BY <1>1, <3>1 DEF WaitersServed, Queued, Barrier
  <2>2. PICK u \in Nat : u = probe.version
    BY HealthFacts
  <2>3. probe.waiting => \E t \in Session : Queued(Write(t, u))
    BY <1>0, <2>2 DEF WaitersServed
  <2>4. probe.waiting => (\E t \in Session : Queued(Write(t, u))') \/ u = v
    BY <1>10, <2>3
  <2> QED
    BY <1>0, <1>3, <2>1, <2>2, <2>4 DEF WaitersServed
<1> QED
  BY <1>5, <1>6, <1>7, <1>8, <1>9, <1>12, <1>13, <1>14

LEMMA DrainWriteKeeps ==
  ASSUME HealthInv, TypeOK', NEW ok \in BOOLEAN, NEW stored \in BOOLEAN, DrainWrite(ok, stored)
  PROVE  HealthInv'
<1> USE DEF HealthInv
<1>0. /\ UNCHANGED <<mem, last, newest, queue, failures, sealed, probe, admin, app, edited>>
      /\ Active /\ drainer.pc = "writing" /\ (ok => stored)
      /\ drainer' = [drainer EXCEPT !.pc = "written", !.ok = ok]
  BY DEF DrainWrite, Active
<1>1. PICK s \in Session, v \in 1..last : s = drainer.session /\ v = drainer.version
  BY <1>0, HealthFacts
<1>2. /\ drainer'.pc = "written" /\ drainer'.ok = ok /\ drainer'.session = s
      /\ drainer'.version = v /\ drainer'.dropped = drainer.dropped /\ Active'
      /\ v \in Nat /\ v <= last
  BY <1>0, <1>1, HealthFacts DEF DrainerType, Active
<1>3. /\ stored => row[s].in /\ row' = [row EXCEPT ![s].version = v]
      /\ ~stored => row' = row
  BY <1>1 DEF DrainWrite
<1>4. /\ \A t \in Session \ {s} : row'[t] = row[t]
      /\ row'[s].in = row[s].in
      /\ row'[s].version = IF stored THEN v ELSE row[s].version
  <2>1. \A r \in [Session -> Stored], u \in Nat :
           /\ [r EXCEPT ![s].version = u][s] = [in |-> r[s].in, version |-> u]
           /\ \A t \in Session \ {s} : [r EXCEPT ![s].version = u][t] = r[t]
    BY DEF Stored
  <2>2. row \in [Session -> Stored]
    BY HealthFacts
  <2>3. CASE stored
    <3>1. row' = [row EXCEPT ![s].version = v]
      BY <1>3, <2>3
    <3> QED
      BY <1>2, <2>1, <2>2, <2>3, <3>1
  <2>4. CASE ~stored
    BY <1>3, <2>4
  <2> QED
    BY <2>3, <2>4
<1>5. \A t \in Session : row'[t].in = row[t].in
  BY <1>4
<1>6. Numbers'
  <2>1. \A t \in Session : row'[t].version <= last
    BY <1>2, <1>4, HealthFacts
  <2> QED
    BY <1>0, <1>1, <1>2, <2>1 DEF Numbers, Barrier
<1>7. Ordered' /\ BarrierLast'
  BY <1>0, <1>1, <1>2 DEF Ordered, BarrierLast, IsWrite
<1>8. RowBehind'
  <2>1. \A n \in DOMAIN queue : queue[n].session = s => v <= queue[n].version /\ IsWrite(queue[n])
    <3>1. \A n \in DOMAIN queue : queue[n].session = s => IsWrite(queue[n])
      BY HealthAssumption DEF IsWrite
    <3>2. \A n \in DOMAIN queue : queue[n].version \in Nat
      BY InQueue
    <3> QED
      BY <1>0, <1>1, <1>2, <3>1, <3>2 DEF Ordered
  <2> QED
    BY <1>0, <1>1, <1>2, <1>4, <2>1 DEF RowBehind
<1>9. Gone'
  BY <1>0, <1>1, <1>2, <1>5 DEF Gone
<1>10. Written'
  BY <1>0, <1>2, <1>4 DEF Written
<1>11. ASSUME NEW t \in Session, NEW u \in Nat, Trail(t, u) PROVE Trail(t, u)'
  <2>1. Queued(Write(t, u)) => Queued(Write(t, u))'
    BY <1>0 DEF Queued, Write
  <2>2. CASE t # s
    BY <1>0, <1>1, <1>2, <1>4, <1>5, <1>11, <2>1, <2>2 DEF Trail
  <2>3. CASE t = s /\ v < u
    BY <1>0, <1>1, <1>2, <1>4, <1>5, <1>11, <2>1, <2>3 DEF Trail
  <2>4. CASE t = s /\ u <= v
    <3>1. stored => row'[t].version >= u
      BY <1>2, <1>4, <2>4
    <3>2. CASE stored
      BY <1>0, <1>1, <1>2, <1>5, <1>11, <2>1, <2>4, <3>1, <3>2 DEF Trail
    <3>3. CASE ~stored
      BY <1>0, <1>1, <1>2, <1>4, <1>5, <1>11, <2>1, <2>4, <3>3 DEF Trail
    <3> QED
      BY <3>2, <3>3
  <2> QED
    BY <1>2, <2>2, <2>3, <2>4
<1>12. Trails'
  BY <1>0, <1>11, HealthFacts DEF Trails
<1>13. StoredStays'
  BY <1>0, <1>1, <1>2, <1>4 DEF StoredStays
<1>14. Sealed'
  BY <1>0 DEF Sealed, Quiescent
<1>15. WaitersServed'
  BY <1>0, <1>1, <1>2 DEF WaitersServed, Queued, Write, Barrier
<1> QED
  BY <1>6, <1>7, <1>8, <1>9, <1>10, <1>12, <1>13, <1>14, <1>15

LEMMA DrainRecordKeeps ==
  ASSUME HealthInv, TypeOK', DrainRecord PROVE HealthInv'
<1> USE DEF HealthInv
<1>0. /\ UNCHANGED <<row, mem, last, newest, queue, sealed, admin, app, edited>>
      /\ Active /\ ~Active' /\ drainer.pc = "written"
      /\ drainer' = [pc |-> "running", session |-> None, version |-> 0, ok |-> FALSE, dropped |-> FALSE]
      /\ probe' = IF probe.version = drainer.version THEN NoProbe ELSE probe
  BY DEF DrainRecord, Active, IdleDrainer, Answered
<1>1. PICK s \in Session, v \in 1..last : s = drainer.session /\ v = drainer.version
  BY <1>0, HealthFacts
<1>2. failures' = IF drainer.dropped THEN failures
                  ELSE IF drainer.ok THEN failures \ {s} ELSE failures \cup {s}
  <2>1. CASE drainer.dropped
    BY <2>1 DEF DrainRecord
  <2>2. CASE ~drainer.dropped /\ drainer.ok
    BY <1>1, <2>2 DEF DrainRecord
  <2>3. CASE ~drainer.dropped /\ ~drainer.ok
    BY <1>1, <2>3 DEF DrainRecord
  <2> QED
    BY <2>1, <2>2, <2>3
<1>3. v \in Nat /\ \A n \in DOMAIN queue : queue[n].version \in Nat
  BY InQueue, HealthFacts
<1>4. Numbers' /\ Ordered' /\ BarrierLast' /\ RowBehind' /\ StoredStays'
  <2>1. Within(queue', queue)
    BY <1>0 DEF Within
  <2>2. probe'.version <= last
    BY <1>0, HealthFacts DEF NoProbe
  <2> QED
    BY <1>0, <2>1, <2>2, WithinKeeps
<1>5. Gone' /\ Written' /\ Sealed'
  BY <1>0 DEF Gone, Written, Sealed, Quiescent
<1>6. drainer.dropped => ~row[s].in
  BY <1>0, <1>1 DEF Gone
<1>7. drainer.ok /\ row[s].in => row[s].version >= v
  BY <1>0, <1>1 DEF Written
<1>8. ASSUME NEW t \in Session, NEW u \in Nat, Trail(t, u) PROVE Trail(t, u)'
  <2>1. Queued(Write(t, u)) => Queued(Write(t, u))'
    BY <1>0 DEF Queued, Write
  <2>2. row[t].in => \A n \in DOMAIN queue : queue[n].session = t /\ queue[n].version < u => Queued(Write(t, u))
    BY <1>8 DEF Trail
  <2>3. row[t].in => row[t].version >= u \/ Queued(Write(t, u)) \/ t \in failures'
    <3>1. CASE t # s
      BY <1>1, <1>2, <1>8, <3>1 DEF Trail
    <3>2. CASE t = s /\ drainer.dropped
      BY <1>6, <3>2
    <3>3. CASE t = s /\ ~drainer.dropped /\ ~drainer.ok
      BY <1>2, <3>3
    <3>4. CASE t = s /\ ~drainer.dropped /\ drainer.ok
      <4>1. CASE v < u
        BY <1>0, <1>1, <1>8, <3>4, <4>1 DEF Trail
      <4>2. CASE u <= v
        BY <1>3, <1>7, <3>4, <4>2, HealthFacts
      <4> QED
        BY <1>3, <4>1, <4>2
    <3> QED
      BY <3>1, <3>2, <3>3, <3>4
  <2> QED
    BY <1>0, <2>1, <2>2, <2>3 DEF Trail
<1>9. Trails'
  BY <1>0, <1>8, HealthFacts DEF Trails
<1>10. WaitersServed'
  <2>1. app.flush = "waiting" => Queued(Barrier)'
    BY <1>0 DEF WaitersServed, Queued, Barrier
  <2>2. ASSUME probe'.waiting PROVE \E t \in Session : Queued(Write(t, probe.version))'
    <3>1. probe' = probe /\ probe.version # drainer.version
      BY <1>0, <2>2 DEF NoProbe
    <3>2. PICK t \in Session : Queued(Write(t, probe.version))
      BY <2>2, <3>1 DEF WaitersServed
    <3> QED
      BY <1>0, <3>1, <3>2 DEF Queued, Write
  <2> QED
    BY <1>0, <2>1, <2>2 DEF WaitersServed
<1> QED
  BY <1>4, <1>5, <1>9, <1>10

-----------------------------------------------------------------------------

LEMMA HealthInit == Init => HealthInv
<1> SUFFICES ASSUME Init PROVE HealthInv
  OBVIOUS
<1> USE DEF Init
<1>1. queue = << >> /\ DOMAIN queue = {} /\ ~Active /\ last = 0
  BY DEF Active, IdleDrainer
<1>2. TypeOK
  <2>1. row \in [Session -> Stored] /\ mem \in [Session -> Stored] /\ newest \in [Session -> Nat]
    BY DEF Stored
  <2>2. drainer \in DrainerType /\ probe \in [waiting : BOOLEAN, version : Nat]
        /\ admin \in [Admin -> AdminType]
    BY DEF DrainerType, IdleDrainer, NoProbe, NewAdmin, AdminType
  <2>3. app \in AppType
    BY DEF AppType
  <2>4. queue \in Seq(Job)
    BY <1>1
  <2> QED
    BY <2>1, <2>2, <2>3, <2>4 DEF TypeOK
<1>3. Numbers /\ Ordered /\ BarrierLast /\ RowBehind
  BY <1>1 DEF Numbers, Ordered, BarrierLast, RowBehind, NoProbe
<1>4. Gone /\ Written /\ StoredStays /\ Sealed /\ WaitersServed
  BY <1>1 DEF Gone, Written, StoredStays, Sealed, WaitersServed, IdleDrainer, NewAdmin, NoProbe
<1>5. Trails
  BY <1>1 DEF Trails, Trail, Queued
<1> QED
  BY <1>2, <1>3, <1>4, <1>5 DEF HealthInv

LEMMA HealthNext == HealthInv /\ [Next]_vars => HealthInv'
<1> SUFFICES ASSUME HealthInv, [Next]_vars PROVE HealthInv'
  OBVIOUS
<1>1. CASE UNCHANGED vars
  <2>1. TypeOK'
    BY <1>1 DEF vars, TypeOK, HealthInv
  <2> QED
    BY <1>1, <2>1, BesideKeeps
<1>2. CASE Next
  <2>0. TypeOK'
    BY <1>2, HealthTypesStep DEF HealthInv
  <2>1. ASSUME NEW s \in Session, RecordOutcome(s) \/ RecordFailure(s) PROVE HealthInv'
    BY <2>0, <2>1, TransitionKeeps
  <2>2. CASE Drain
    BY <2>0, <2>2, DrainIdleKeeps, DrainBarrierKeeps, DrainTakeKeeps, DrainRecordKeeps, DrainWriteKeeps
    DEF Drain
  <2>3. ASSUME NEW a \in Admin, AdminStep(a) PROVE HealthInv'
    <3>1. ASSUME NEW s \in Session, ResetHealth(a, s) \/ DeleteRow(a, s) PROVE HealthInv'
      BY <2>0, <3>1, AdminKeeps
    <3>2. CASE UpsertSession(a) \/ \E s \in Session : UpdateMetadata(a, s)
      BY <2>0, <3>2, BesideKeeps
    <3>3. CASE RemoveSession(a)
      BY <2>0, <3>3, RemoveKeeps
    <3> QED
      BY <2>3, <3>1, <3>2, <3>3 DEF AdminStep
  <2>4. CASE Shutdown
    BY <2>0, <2>4, BesideKeeps, FlushKeeps DEF Shutdown
  <2> QED
    BY <1>2, <2>1, <2>2, <2>3, <2>4 DEF Next
<1> QED
  BY <1>1, <1>2

(* Every variable has its type. *)
THEOREM HealthTypes == Spec => []TypeOK
<1>1. HealthInv => TypeOK
  BY DEF HealthInv
<1> QED
  BY <1>1, HealthInit, HealthNext, PTL DEF Spec

(* A flush that reports no error has stored what was queued before it, and *)
(* the database is closed only when nothing is on its way to it.           *)
THEOREM FlushStores == Spec => []FlushMeansStored
<1>1. HealthInv => FlushMeansStored
  BY DEF HealthInv, StoredStays, Sealed, FlushMeansStored
<1> QED
  BY <1>1, HealthInit, HealthNext, PTL DEF Spec

(* Nobody waits for what is neither queued nor being written. *)
THEOREM WaitersKept == Spec => []WaitersServed
<1>1. HealthInv => WaitersServed
  BY DEF HealthInv
<1> QED
  BY <1>1, HealthInit, HealthNext, PTL DEF Spec

(* An older snapshot never replaces a newer one. *)
THEOREM VersionsGrow == Spec => NeverOlder
<1>1. HealthInv /\ [Next]_vars => [\A s \in Session \ edited' : row'[s].version >= row[s].version]_vars
  <2> SUFFICES ASSUME HealthInv, Next, NEW s \in Session \ edited' PROVE row'[s].version >= row[s].version
    BY DEF vars
  <2>0. row \in [Session -> Stored] /\ row[s].version \in Nat
    BY HealthFacts
  <2>1. CASE row' = row
    BY <2>0, <2>1
  <2>2. ASSUME NEW ok \in BOOLEAN, NEW stored \in BOOLEAN, DrainWrite(ok, stored)
        PROVE  row'[s].version >= row[s].version
    <3>1. /\ Active /\ edited' = edited
          /\ row' = IF stored THEN [row EXCEPT ![drainer.session].version = drainer.version] ELSE row
      BY <2>2 DEF DrainWrite, Active
    <3>2. PICK t \in Session, v \in Nat : t = drainer.session /\ v = drainer.version
      BY <3>1, HealthFacts
    <3>3. \A r \in [Session -> Stored], u \in Nat :
             /\ [r EXCEPT ![t].version = u][t] = [in |-> r[t].in, version |-> u]
             /\ \A o \in Session \ {t} : [r EXCEPT ![t].version = u][o] = r[o]
      BY DEF Stored
    <3>4. s = t => row[s].version <= v
      BY <3>1, <3>2 DEF HealthInv, RowBehind
    <3> QED
      BY <2>0, <3>1, <3>2, <3>3, <3>4
  <2>3. ASSUME NEW a \in Admin, NEW t \in Session, ResetHealth(a, t) \/ DeleteRow(a, t)
        PROVE  row'[s].version >= row[s].version
    <3>1. CASE ResetHealth(a, t)
      BY <2>0, <3>1 DEF ResetHealth
    <3>2. CASE DeleteRow(a, t)
      <4>1. \A r \in [Session -> Stored] : [r EXCEPT ![t].in = FALSE][s].version = r[s].version
        BY DEF Stored
      <4> QED
        BY <2>0, <3>2, <4>1 DEF DeleteRow
    <3> QED
      BY <2>3, <3>1, <3>2
  <2> QED
    BY <2>1, <2>2, <2>3
    DEF Next, RecordOutcome, RecordFailure, Drain, DrainIdle, DrainBarrier, DrainTake, DrainRecord,
        AdminStep, UpdateMetadata, UpsertSession, RemoveSession,
        Shutdown, WorkersStop, Seal, Flush, FlushTimeout, Close
<1> QED
  BY <1>1, HealthInit, HealthNext, PTL DEF Spec, NeverOlder

-----------------------------------------------------------------------------
(* The calls of yt-dlp.                                                    *)

Results  == Answers \cup {"none", "timeout", "cancelled", "tool", "budget", "failed", "invalid",
                          "stored"}
Replies  == Answers \cup {"timeout", "tool"}
Running  == {"rate", "start", "run"}
Busy     == Running \cup {"slot", "settle"}
CallType == [pc : {"look", "wait", "open", "probe", "convert", "verify", "done"} \cup Busy,
             of : Query \cup Stream, ended : BOOLEAN, late : BOOLEAN, heard : SUBSET Answers,
             result : Results, seen : Nat, cut : BOOLEAN]
EntryType == [of : Query, result : {"found", "gone"}, old : BOOLEAN]

CallTypes ==
  /\ calls \in [Caller -> CallType \cup {Idle}]
  /\ inflight \in [Query -> Caller \cup {Nobody}]
  /\ slot \in Caller \cup {Nobody}

StoreInv ==
  /\ store \in Seq(EntryType) /\ Len(store) <= MaxEntries
  /\ \A m, n \in DOMAIN store : store[m].of = store[n].of => m = n
  /\ \A n \in DOMAIN store : store[n].result = "gone" => store[n].of \in Extract

(* What can be said of a call from its own state: what is queried and what *)
(* is fetched, only a combined stream is cut and only once it runs, what a *)
(* query is about to tell is what was heard or its own end, and what is    *)
(* kept of a file.                                                         *)
Told(c) ==
  /\ calls[c].result \in Replies
  /\ calls[c].result \in Answers => calls[c].result \in calls[c].heard
  /\ calls[c].result = "timeout" => Ended(c)
CallGood(c) ==
  /\ calls[c].pc \in {"look", "wait", "settle"} => calls[c].of \in Query
  /\ calls[c].pc \in {"open", "probe", "convert", "verify"} => calls[c].of \notin Query
  /\ calls[c].pc # "idle" /\ calls[c].cut =>
       Combined(c) /\ calls[c].pc \notin {"open", "slot", "rate", "start"}
  /\ Is(c, "settle") => Told(c)
  /\ Is(c, "done") /\ Queries(c) => calls[c].result \in Replies \cup {"cancelled"}
  /\ calls[c].pc \in {"convert", "verify"} =>
       /\ calls[c].of.video => Combined(c)
       /\ Combined(c) => calls[c].of.bytes <= MaxBytes
  /\ OwnEnd(c)

(* Those who wait have heard what the one they wait for has. *)
Owners ==
  /\ \A c \in Caller : Is(c, "wait") =>
       /\ inflight[calls[c].of] # Nobody
       /\ calls[inflight[calls[c].of]].heard \subseteq calls[c].heard
  /\ \A k \in Query : inflight[k] # Nobody =>
       calls[inflight[k]].pc \in Busy /\ calls[inflight[k]].of = k
  /\ \A c \in Caller : Queries(c) /\ calls[c].pc \in Busy => inflight[calls[c].of] = c
Slots ==
  /\ slot # Nobody => calls[slot].pc \in Running
  /\ \A c \in Caller : calls[c].pc \in Running => slot = c

CallInv  == CallTypes /\ Owners /\ Slots /\ \A c \in Caller : CallGood(c)
FetchInv == CallInv /\ StoreInv

LEMMA SameCall ==
  ASSUME NEW c \in Caller, CallGood(c), calls'[c] = calls[c] PROVE CallGood(c)'
BY DEF CallGood, Told, OwnEnd, Is, Queries, Fetches, Combined, Ended

(* A step of one caller, which keeps the queries it runs. *)
LEMMA OneCall ==
  ASSUME CallInv, NEW c \in Caller, NEW r \in CallType \cup {Idle},
         calls' = [calls EXCEPT ![c] = r], inflight' = inflight, CallGood(c)',
         slot' = IF r.pc \in Running THEN c ELSE IF slot = c THEN Nobody ELSE slot,
         r.pc \in Running => slot \in {Nobody, c},
         Queries(c) /\ calls[c].pc \in Busy =>
           r.pc \in Busy /\ r.of = calls[c].of /\ r.heard = calls[c].heard,
         r.pc \in Busy /\ r.of \in Query => Queries(c) /\ calls[c].pc \in Busy,
         r.pc = "wait" => /\ r.of \in Query /\ inflight[r.of] # Nobody
                          /\ calls[inflight[r.of]].heard \subseteq r.heard
  PROVE  CallInv'
<1> USE DEF CallInv
<1>0. /\ calls \in [Caller -> CallType \cup {Idle}] /\ inflight \in [Query -> Caller \cup {Nobody}]
      /\ slot \in Caller \cup {Nobody}
  BY DEF CallTypes
<1>1. calls'[c] = r /\ \A d \in Caller \ {c} : calls'[d] = calls[d]
  BY <1>0
<1>2. CallTypes'
  BY <1>0 DEF CallTypes
<1>3. \A d \in Caller : CallGood(d)'
  BY <1>1, SameCall
<1>4. Slots'
  BY <1>0, <1>1, FetchAssumption DEF Slots
<1>5. ASSUME NEW k \in Query, inflight[k] # Nobody
      PROVE  /\ calls'[inflight[k]].pc \in Busy /\ calls'[inflight[k]].of = k
             /\ calls'[inflight[k]].heard = calls[inflight[k]].heard
  <2>1. inflight[k] \in Caller /\ calls[inflight[k]].pc \in Busy /\ calls[inflight[k]].of = k
    BY <1>0, <1>5 DEF Owners
  <2>2. CASE inflight[k] = c
    BY <1>1, <2>1, <2>2 DEF Queries, Busy, Running
  <2> QED
    BY <1>1, <2>1, <2>2
<1>6. Owners'
  <2>1. ASSUME NEW d \in Caller, calls'[d].pc = "wait"
        PROVE  /\ inflight[calls'[d].of] # Nobody
               /\ calls'[inflight[calls'[d].of]].heard \subseteq calls'[d].heard
    <3>1. /\ calls'[d].of \in Query /\ inflight[calls'[d].of] # Nobody
          /\ calls[inflight[calls'[d].of]].heard \subseteq calls'[d].heard
      <4>1. CASE d = c
        BY <1>1, <2>1, <4>1
      <4>2. CASE d # c
        BY <1>1, <2>1, <4>2 DEF Owners, CallGood, Is
      <4> QED
        BY <4>1, <4>2
    <3> QED
      BY <1>5, <3>1
  <2>2. ASSUME NEW d \in Caller, calls'[d].pc # "idle", calls'[d].of \in Query, calls'[d].pc \in Busy
        PROVE  inflight[calls'[d].of] = d
    BY <1>1, <2>2 DEF Owners, Queries
  <2> QED
    BY <1>5, <2>1, <2>2 DEF Owners, Is, Queries
<1> QED
  BY <1>2, <1>3, <1>4, <1>6

Steps == {"look", "wait", "open", "probe", "convert", "verify", "done"} \cup Busy
Moved(c, p, x) == [pc |-> p, of |-> calls[c].of, ended |-> calls[c].ended, late |-> calls[c].late,
                   heard |-> calls[c].heard, result |-> x, seen |-> calls[c].seen,
                   cut |-> calls[c].cut]

LEMMA Moving ==
  ASSUME CallTypes, NEW c \in Caller, calls[c].pc # "idle", NEW p \in Steps, NEW x \in Results
  PROVE  /\ calls[c] \in CallType /\ Moved(c, p, x) \in CallType
         /\ [calls EXCEPT ![c].pc = p] = [calls EXCEPT ![c] = Moved(c, p, calls[c].result)]
         /\ \A r : [calls EXCEPT ![c] = r][c] = r
<1>1. calls \in [Caller -> CallType \cup {Idle}]
  BY DEF CallTypes
<1>2. calls[c] \in CallType
  BY <1>1 DEF Idle
<1>3. Moved(c, p, x) \in CallType
  BY <1>2 DEF Moved, CallType, Steps
<1>5. [calls EXCEPT ![c].pc = p] = [calls EXCEPT ![c] = Moved(c, p, calls[c].result)]
  <2>1. [calls[c] EXCEPT !.pc = p] = Moved(c, p, calls[c].result)
    BY <1>2 DEF Moved, CallType
  <2> QED
    BY <1>1, <2>1
<1>6. \A r : [calls EXCEPT ![c] = r][c] = r
  BY <1>1
<1> QED
  BY <1>2, <1>3, <1>5, <1>6

(* Becoming what a caller with the same query or stream may be next. *)
LEMMA OneMove ==
  ASSUME CallInv, NEW c \in Caller, calls[c].pc # "idle", NEW p \in Steps \ {"wait"}, NEW x \in Results,
         calls' = [calls EXCEPT ![c] = Moved(c, p, x)], inflight' = inflight,
         slot' = IF p \in Running THEN c ELSE IF slot = c THEN Nobody ELSE slot,
         p \in Running => slot \in {Nobody, c},
         Queries(c) => (p \in Busy <=> calls[c].pc \in Busy),
         p \in {"look", "settle"} => Queries(c),
         p \in {"open", "probe", "convert", "verify"} => ~Queries(c),
         p \in {"open", "slot", "rate", "start"} => ~calls[c].cut,
         p = "settle" => /\ x \in Replies /\ (x \in Answers => x \in calls[c].heard)
                         /\ x = "timeout" => Ended(c),
         p \in {"convert", "verify"} => /\ calls[c].of.video => Combined(c)
                                        /\ Combined(c) => calls[c].of.bytes <= MaxBytes,
         p = "done" /\ Queries(c) => x \in Replies \cup {"cancelled"},
         p = "done" => OwnEnd(c)'
  PROVE  CallInv'
<1> USE DEF CallInv
<1> DEFINE r == Moved(c, p, x)
<1>1. /\ calls[c] \in CallType /\ r \in CallType /\ calls'[c] = r
  BY Moving DEF Steps
<1>2. /\ r.pc = p /\ r.of = calls[c].of /\ r.ended = calls[c].ended /\ r.late = calls[c].late
      /\ r.heard = calls[c].heard /\ r.result = x /\ r.cut = calls[c].cut
  BY DEF Moved
<1>3. CallGood(c)
  OBVIOUS
<1> HIDE DEF r
<1>p. p # "idle" /\ p # "wait"
  BY DEF Steps, Busy, Running
<1>4. CallGood(c)'
  <2>1. /\ calls'[c].pc \in {"look", "wait", "settle"} => calls'[c].of \in Query
        /\ calls'[c].pc \in {"open", "probe", "convert", "verify"} => calls'[c].of \notin Query
    BY <1>1, <1>2, <1>p DEF Queries
  <2>2. Combined(c)' <=> Combined(c)
    BY <1>1, <1>2, <1>p DEF Combined, Fetches
  <2>3. Queries(c)' <=> Queries(c)
    BY <1>1, <1>2, <1>p DEF Queries
  <2>4. calls'[c].cut => Combined(c)' /\ calls'[c].pc \notin {"open", "slot", "rate", "start"}
    BY <1>1, <1>2, <1>3, <2>2 DEF CallGood
  <2>5. Is(c, "settle")' => Told(c)'
    <3>1. Ended(c)' <=> Ended(c)
      BY <1>1, <1>2, <2>3 DEF Ended
    <3> QED
      BY <1>1, <1>2, <3>1 DEF Is, Told
  <2>6. OwnEnd(c)'
    BY <1>1, <1>2 DEF OwnEnd, Is
  <2>7. Is(c, "done")' /\ Queries(c)' => calls'[c].result \in Replies \cup {"cancelled"}
    BY <1>1, <1>2, <2>3 DEF Is
  <2>8. calls'[c].pc \in {"convert", "verify"} =>
          /\ calls'[c].of.video => Combined(c)'
          /\ Combined(c)' => calls'[c].of.bytes <= MaxBytes
    BY <1>1, <1>2, <2>2
  <2> QED
    BY <2>1, <2>4, <2>5, <2>6, <2>7, <2>8 DEF CallGood
<1>5. /\ Queries(c) /\ calls[c].pc \in Busy => r.pc \in Busy /\ r.of = calls[c].of /\ r.heard = calls[c].heard
      /\ r.pc \in Busy /\ r.of \in Query => Queries(c) /\ calls[c].pc \in Busy
      /\ r.pc # "wait"
  BY <1>2, <1>p DEF Queries
<1>6. calls' = [calls EXCEPT ![c] = r]
  BY DEF r
<1> QED
  BY <1>1, <1>2, <1>4, <1>5, <1>6, OneCall

(* What the outcomes of a step mean. *)
LEMMA Outcomes ==
  ASSUME CallTypes, NEW c \in Caller, calls[c].pc # "idle"
  PROVE  /\ \A p \in Steps : Become(c, p) => calls' = [calls EXCEPT ![c] = Moved(c, p, calls[c].result)]
         /\ \A x \in Results : Finish(c, x) => /\ calls' = [calls EXCEPT ![c] = Moved(c, "done", x)]
                                               /\ calls'[c] = Moved(c, "done", x)
         /\ \A x \in Results : Said(c, x) =>
              /\ calls' = [calls EXCEPT ![c] = Moved(c, IF Queries(c) THEN "settle" ELSE "done", x)]
              /\ calls'[c] = Moved(c, IF Queries(c) THEN "settle" ELSE "done", x)
         /\ calls[c].result \in Results /\ calls[c].pc \in Steps /\ "done" \in Steps /\ "settle" \in Steps
<1>1. calls[c] \in CallType /\ calls[c].result \in Results
  BY Moving DEF Steps, Results, CallType
<1>2. "done" \in Steps /\ "settle" \in Steps /\ calls[c].pc \in Steps
  BY <1>1 DEF Steps, Busy, CallType
<1> QED
  <2>1. ASSUME NEW p \in Steps, Become(c, p)
        PROVE  calls' = [calls EXCEPT ![c] = Moved(c, p, calls[c].result)]
    BY <1>1, <2>1, Moving DEF Become
  <2>2. ASSUME NEW x \in Results, NEW p \in {"done", "settle"},
               calls' = [calls EXCEPT ![c].pc = p, ![c].result = x]
        PROVE  calls' = [calls EXCEPT ![c] = Moved(c, p, x)] /\ calls'[c] = Moved(c, p, x)
    <3>1. p \in Steps
      BY <1>2
    <3>3. calls \in [Caller -> CallType \cup {Idle}]
      BY DEF CallTypes
    <3>2. calls' = [calls EXCEPT ![c] = Moved(c, p, x)]
      <4>1. [calls EXCEPT ![c].pc = p, ![c].result = x] = [calls EXCEPT ![c] = Moved(c, p, x)]
        <5>1. [calls[c] EXCEPT !.pc = p, !.result = x] = Moved(c, p, x)
          <6>1. PICK e \in CallType : e = calls[c]
            BY <1>1
          <6>2. PICK d \in CallType : d = [e EXCEPT !.pc = p]
            BY <3>1 DEF CallType, Steps
          <6>3. /\ d.of = e.of /\ d.ended = e.ended /\ d.late = e.late /\ d.heard = e.heard
                /\ d.seen = e.seen /\ d.cut = e.cut /\ d.pc = p
            BY <6>2 DEF CallType
          <6>4. [d EXCEPT !.result = x] =
                  [pc |-> d.pc, of |-> d.of, ended |-> d.ended, late |-> d.late, heard |-> d.heard,
                   result |-> x, seen |-> d.seen, cut |-> d.cut]
            BY DEF CallType
          <6>5. [e EXCEPT !.pc = p, !.result = x] = [[e EXCEPT !.pc = p] EXCEPT !.result = x]
            OBVIOUS
          <6> QED
            BY <6>1, <6>2, <6>3, <6>4, <6>5 DEF Moved
        <5> QED
          BY <3>3, <5>1
      <4> QED
        BY <2>2, <4>1
    <3> QED
      BY <3>2, <3>3
  <2>3. \A x \in Results : Finish(c, x) => /\ calls' = [calls EXCEPT ![c] = Moved(c, "done", x)]
                                           /\ calls'[c] = Moved(c, "done", x)
    BY <2>2 DEF Finish
  <2>4. ASSUME NEW x \in Results, Said(c, x)
        PROVE  /\ calls' = [calls EXCEPT ![c] = Moved(c, IF Queries(c) THEN "settle" ELSE "done", x)]
               /\ calls'[c] = Moved(c, IF Queries(c) THEN "settle" ELSE "done", x)
    BY <2>2, <2>4 DEF Said, Finish
  <2> QED
    BY <1>1, <1>2, <2>1, <2>3, <2>4

LEMMA EndOf ==
  ASSUME NEW c \in Caller, NEW x \in Results, calls[c].pc # "idle", calls'[c] = Moved(c, "done", x),
         x = "cancelled" => calls[c].ended,
         Queries(c) /\ x = "timeout" => calls[c].late,
         Queries(c) /\ x \in {"empty", "limited", "gone"} => x \in calls[c].heard,
         x = "stored" => /\ calls[c].of.exact /\ (calls[c].of.video => Combined(c))
                         /\ calls[c].of.combined /\ calls[c].of.video => calls[c].of.bytes <= MaxBytes
  PROVE  OwnEnd(c)'
<1>1. /\ calls'[c].of = calls[c].of /\ calls'[c].ended = calls[c].ended /\ calls'[c].late = calls[c].late
      /\ calls'[c].heard = calls[c].heard /\ calls'[c].result = x /\ calls'[c].pc = "done"
  BY DEF Moved
<1>2. (Queries(c)' <=> Queries(c)) /\ (Combined(c)' <=> Combined(c))
  BY <1>1 DEF Queries, Combined, Fetches
<1> QED
  BY <1>1, <1>2 DEF OwnEnd

LEMMA StopWaitingKeeps ==
  ASSUME CallInv, NEW c \in Caller, StopWaiting(c) PROVE CallInv'
<1> USE DEF CallInv
<1>1. /\ calls[c].pc = "wait" /\ Queries(c) /\ ~calls[c].cut /\ Ended(c) /\ slot # c
      /\ inflight' = inflight /\ slot' = slot
      /\ Finish(c, CallerEnded(c, "timeout"))
  BY FetchAssumption DEF StopWaiting, Is, CallGood, Queries, Combined, Fetches, Slots, Running
<1>2. PICK x \in {"cancelled", "timeout"} : x = CallerEnded(c, "timeout")
  BY DEF CallerEnded
<1>3. x \in Results /\ x \in Replies \cup {"cancelled"}
  BY DEF Results, Replies
<1>4. calls' = [calls EXCEPT ![c] = Moved(c, "done", x)] /\ calls'[c] = Moved(c, "done", x)
  BY <1>1, <1>2, <1>3, Outcomes
<1>5. x = "cancelled" => calls[c].ended
  BY <1>2 DEF CallerEnded
<1>6. x = "timeout" => calls[c].late
  BY <1>1, <1>2 DEF CallerEnded, Ended
<1>7. OwnEnd(c)'
  BY <1>1, <1>3, <1>4, <1>5, <1>6, EndOf
<1> QED
  BY <1>1, <1>3, <1>4, <1>7, OneMove DEF Steps, Busy, Running

(* The end of a call that is stopped before its process runs. *)
LEMMA StoppedKeeps ==
  ASSUME CallInv, NEW c \in Caller, calls[c].pc \in {"slot", "rate", "start"}, inflight' = inflight,
         NEW x \in {"timeout", "cancelled", "tool"}, Said(c, x),
         x # "tool" => Ended(c) /\ x = Stopped(c),
         slot' = IF slot = c THEN Nobody ELSE slot
  PROVE  CallInv'
<1> USE DEF CallInv
<1>1. x \in Results /\ calls[c].pc # "idle" /\ ~calls[c].cut /\ calls[c].pc \in Busy
  BY DEF Results, CallGood, Busy, Running
<1>2. CASE Queries(c)
  <2>1. calls' = [calls EXCEPT ![c] = Moved(c, "settle", x)] /\ x \in Replies /\ x \notin Answers
    BY <1>1, <1>2, Outcomes DEF Stopped, Replies, Answers
  <2>2. x = "timeout" => Ended(c)
    OBVIOUS
  <2>3. "settle" \in Steps \ {"wait"} /\ "settle" \in Busy /\ "settle" \notin Running
    BY DEF Steps, Busy, Running
  <2> QED
    BY <1>1, <1>2, <2>1, <2>2, <2>3, OneMove
<1>3. CASE ~Queries(c)
  <2>1. calls' = [calls EXCEPT ![c] = Moved(c, "done", x)] /\ calls'[c] = Moved(c, "done", x)
    BY <1>1, <1>3, Outcomes
  <2>2. x = "cancelled" => calls[c].ended
    BY <1>1, <1>3 DEF Ended
  <2>3. OwnEnd(c)'
    BY <1>1, <1>3, <2>1, <2>2, EndOf
  <2> QED
    BY <1>1, <1>3, <2>1, <2>3, OneMove DEF Steps, Busy, Running
<1> QED
  BY <1>2, <1>3

LEMMA ProcessKeeps ==
  ASSUME CallInv, NEW c \in Caller, TakeSlot(c) \/ Rate(c) \/ Start(c) PROVE CallInv'
<1> USE DEF CallInv
<1>0. /\ calls[c].pc \in {"slot", "rate", "start"} /\ calls[c].pc # "idle" /\ calls[c].pc \in Busy
      /\ ~calls[c].cut /\ inflight' = inflight
      /\ slot \in Caller \cup {Nobody}
      /\ calls[c].pc \in {"rate", "start"} => slot = c
      /\ calls[c].pc = "slot" => slot # c
  <2>1. calls[c].pc \in {"slot", "rate", "start"} /\ inflight' = inflight
    BY DEF TakeSlot, Rate, Start, Is
  <2>2. CallGood(c) /\ slot \in Caller \cup {Nobody}
    BY DEF CallTypes
  <2>3. ~calls[c].cut
    BY <2>1, <2>2 DEF CallGood
  <2> QED
    BY <2>1, <2>2, <2>3, FetchAssumption DEF Busy, Running, Slots
<1>1. ASSUME NEW p \in {"rate", "start", "run"}, Become(c, p), slot' = c, slot \in {Nobody, c} PROVE CallInv'
  <2>1. calls' = [calls EXCEPT ![c] = Moved(c, p, calls[c].result)] /\ calls[c].result \in Results
    BY <1>0, <1>1, Outcomes DEF Steps, Busy, Running
  <2> QED
    BY <1>0, <1>1, <2>1, OneMove DEF Steps, Busy, Running
<1>2. ASSUME Ended(c), Said(c, Stopped(c)), slot' = IF slot = c THEN Nobody ELSE slot PROVE CallInv'
  <2>1. PICK x \in {"timeout", "cancelled"} : x = Stopped(c)
    BY DEF Stopped
  <2> QED
    BY <1>0, <1>2, <2>1, StoppedKeeps
<1>3. ASSUME Said(c, "tool"), slot' = Nobody, slot = c PROVE CallInv'
  BY <1>0, <1>3, StoppedKeeps
<1>4. CASE TakeSlot(c)
  BY <1>0, <1>1, <1>2, <1>4 DEF TakeSlot, Is
<1>5. CASE Rate(c)
  BY <1>0, <1>1, <1>2, <1>5 DEF Rate, Is
<1>6. CASE Start(c)
  BY <1>0, <1>1, <1>3, <1>6 DEF Start, Is
<1> QED
  BY <1>4, <1>5, <1>6

LEMMA CallOpens ==
  ASSUME CallInv, NEW c \in Caller, NEW q \in Query \cup Stream, Call(c, q) PROVE CallInv'
<1> USE DEF CallInv
<1> DEFINE r == [Asked(q) EXCEPT !.pc = IF q \in Query THEN "look" ELSE "open"]
<1>0. calls[c].pc = "idle" /\ calls' = [calls EXCEPT ![c] = r] /\ UNCHANGED <<inflight, slot>>
  BY DEF Call, Is
<1>1. r = [pc |-> IF q \in Query THEN "look" ELSE "open", of |-> q, ended |-> FALSE, late |-> FALSE,
           heard |-> {}, result |-> "none", seen |-> 0, cut |-> FALSE]
  <2>1. Asked(q) \in CallType
    BY DEF Asked, CallType, Results
  <2>2. PICK e \in CallType : e = Asked(q)
    BY <2>1
  <2>3. /\ e.of = q /\ e.ended = FALSE /\ e.late = FALSE /\ e.heard = {} /\ e.result = "none"
        /\ e.seen = 0 /\ e.cut = FALSE
    BY <2>2 DEF Asked
  <2>4. [e EXCEPT !.pc = IF q \in Query THEN "look" ELSE "open"] =
          [pc |-> IF q \in Query THEN "look" ELSE "open", of |-> e.of, ended |-> e.ended,
           late |-> e.late, heard |-> e.heard, result |-> e.result, seen |-> e.seen, cut |-> e.cut]
    BY DEF CallType
  <2> QED
    BY <2>2, <2>3, <2>4
<1>2. r \in CallType
  <2> HIDE DEF r
  <2>1. "none" \in Results /\ {} \in SUBSET Answers /\ 0 \in Nat
    BY DEF Results
  <2>2. (IF q \in Query THEN "look" ELSE "open") \in
           {"look", "wait", "open", "probe", "convert", "verify", "done"} \cup Busy
    OBVIOUS
  <2> QED
    BY <1>1, <2>1, <2>2 DEF CallType
<1>3. calls'[c] = r /\ slot # c
  BY <1>0, FetchAssumption DEF CallTypes, Slots, Running
<1>4. r.pc \in {"look", "open"} /\ r.of = q /\ ~r.cut /\ (r.pc = "look" <=> q \in Query)
  BY <1>1
<1> HIDE DEF r
<1>5. CallGood(c)'
  BY <1>3, <1>4 DEF CallGood, Is, OwnEnd
<1>6. r.pc \notin Busy /\ r.pc \notin Running /\ r.pc # "wait" /\ ~Queries(c)
  BY <1>0, <1>4 DEF Busy, Running, Queries
<1> QED
  BY <1>0, <1>2, <1>3, <1>5, <1>6, OneCall

LEMMA ReturnKeeps ==
  ASSUME CallInv, NEW c \in Caller, Return(c) PROVE CallInv'
<1> USE DEF CallInv
<1>0. calls[c].pc = "done" /\ calls' = [calls EXCEPT ![c] = Idle] /\ UNCHANGED <<inflight, slot>>
  BY DEF Return, Is
<1>1. calls'[c] = Idle /\ Idle.pc = "idle" /\ slot # c
  BY <1>0, FetchAssumption DEF CallTypes, Slots, Running, Idle
<1>2. CallGood(c)'
  BY <1>1 DEF CallGood, Is, OwnEnd
<1>3. Idle.pc \notin Busy /\ Idle.pc \notin Running /\ Idle.pc # "wait" /\ calls[c].pc \notin Busy
  BY <1>0, <1>1 DEF Busy, Running
<1>4. Idle \in CallType \cup {Idle}
  OBVIOUS
<1> QED
  BY <1>0, <1>1, <1>2, <1>3, <1>4, OneCall

(* What changes a call without moving it: its end comes nearer. *)
LEMMA EndingKeeps ==
  ASSUME CallInv, NEW c \in Caller, GiveUp(c) \/ TimeOut(c) \/ Progress(c) PROVE CallInv'
<1> USE DEF CallInv
<1>0. /\ calls[c].pc \notin {"idle", "done"} /\ UNCHANGED <<inflight, slot>>
      /\ calls \in [Caller -> CallType \cup {Idle}]
      /\ calls[c].pc \in Running <=> slot = c
  BY FetchAssumption DEF GiveUp, TimeOut, Progress, Is, CallTypes, Slots, Running
<1>1. calls[c] \in CallType
  BY <1>0, Moving DEF Steps, Results
<1>2. PICK r \in CallType :
         /\ calls' = [calls EXCEPT ![c] = r]
         /\ r.pc = calls[c].pc /\ r.of = calls[c].of /\ r.heard = calls[c].heard
         /\ r.result = calls[c].result
         /\ calls[c].ended => r.ended
         /\ calls[c].late => r.late
         /\ r.cut => calls[c].cut \/ (Combined(c) /\ calls[c].pc = "run")
  <2>1. CASE GiveUp(c)
    <3>1. calls' = [calls EXCEPT ![c] = [calls[c] EXCEPT !.ended = TRUE]]
      BY <1>0, <2>1 DEF GiveUp
    <3>2. PICK r \in CallType : r = [calls[c] EXCEPT !.ended = TRUE]
      BY <1>1 DEF CallType
    <3> QED
      BY <1>1, <3>1, <3>2 DEF CallType
  <2>2. CASE TimeOut(c)
    <3>1. calls' = [calls EXCEPT ![c] = [calls[c] EXCEPT !.late = TRUE]]
      BY <1>0, <2>2 DEF TimeOut
    <3>2. PICK r \in CallType : r = [calls[c] EXCEPT !.late = TRUE]
      BY <1>1 DEF CallType
    <3> QED
      BY <1>1, <3>1, <3>2 DEF CallType
  <2>3. CASE Progress(c)
    <3>1. PICK b \in BOOLEAN, n \in Nat : n = calls[c].seen + 1 /\ b = (n > MaxBytes)
      <4>1. calls[c].seen + 1 \in Nat
        BY <1>1 DEF CallType
      <4> QED
        <5>1. PICK n \in Nat : n = calls[c].seen + 1
          BY <4>1
        <5>2. (n > MaxBytes) \in BOOLEAN
          BY FetchAssumption
        <5> QED
          BY <5>1, <5>2
    <3>2. calls' = [calls EXCEPT ![c] = [calls[c] EXCEPT !.seen = n, !.cut = b]]
      BY <1>0, <2>3, <3>1 DEF Progress
    <3>3. PICK e \in CallType : e = [calls[c] EXCEPT !.seen = n]
      BY <1>1 DEF CallType
    <3>4. PICK r \in CallType : r = [e EXCEPT !.cut = b]
      BY DEF CallType
    <3>5. r = [calls[c] EXCEPT !.seen = n, !.cut = b]
      BY <3>3, <3>4
    <3>6. Combined(c) /\ calls[c].pc = "run"
      BY <2>3 DEF Progress, Is
    <3> QED
      <4>1. calls' = [calls EXCEPT ![c] = r]
        BY <3>2, <3>5
      <4>2. /\ e.pc = calls[c].pc /\ e.of = calls[c].of /\ e.heard = calls[c].heard
            /\ e.result = calls[c].result /\ e.ended = calls[c].ended /\ e.late = calls[c].late
        BY <1>1, <3>3 DEF CallType
      <4>3. /\ r.pc = e.pc /\ r.of = e.of /\ r.heard = e.heard
            /\ r.result = e.result /\ r.ended = e.ended /\ r.late = e.late
        BY <3>4 DEF CallType
      <4> QED
        BY <3>6, <4>1, <4>2, <4>3
  <2> QED
    BY <2>1, <2>2, <2>3
<1>3. calls'[c] = r
  BY <1>0, <1>2
<1>4. CallGood(c)'
  <2>1. (Queries(c)' <=> Queries(c)) /\ (Combined(c)' <=> Combined(c))
    BY <1>2, <1>3 DEF Queries, Combined, Fetches
  <2>2. Ended(c) => Ended(c)' \/ calls[c].cut
    BY <1>2, <1>3, <2>1 DEF Ended
  <2>3. CallGood(c)
    OBVIOUS
  <2>4. calls[c].pc = "settle" => ~calls[c].cut
    BY <2>3 DEF CallGood, Combined, Fetches
  <2>5. Is(c, "settle")' => Told(c)'
    BY <1>2, <1>3, <2>2, <2>3, <2>4 DEF CallGood, Told, Is
  <2> QED
    BY <1>0, <1>2, <1>3, <2>1, <2>3, <2>5 DEF CallGood, Is, OwnEnd
<1>5. r.pc = "wait" => /\ r.of \in Query /\ inflight[r.of] # Nobody
                       /\ calls[inflight[r.of]].heard \subseteq r.heard
  BY <1>2 DEF Owners, CallGood, Is
<1>6. slot' = IF r.pc \in Running THEN c ELSE IF slot = c THEN Nobody ELSE slot
  BY <1>0, <1>2
<1>7. /\ Queries(c) /\ calls[c].pc \in Busy =>
           r.pc \in Busy /\ r.of = calls[c].of /\ r.heard = calls[c].heard
      /\ r.pc \in Busy /\ r.of \in Query => Queries(c) /\ calls[c].pc \in Busy
      /\ r.pc \in Running => slot \in {Nobody, c}
  BY <1>0, <1>2 DEF Queries
<1> QED
  BY <1>0, <1>2, <1>4, <1>5, <1>6, <1>7, OneCall

LEMMA FetchEnds ==
  ASSUME CallInv, NEW c \in Caller, Fetches(c), NEW x \in {"budget", "cancelled", "failed", "invalid", "stored"},
         Finish(c, x), inflight' = inflight, slot' = IF slot = c THEN Nobody ELSE slot,
         x = "cancelled" => calls[c].ended,
         x = "stored" => /\ calls[c].of.exact /\ (calls[c].of.video => Combined(c))
                         /\ calls[c].of.combined /\ calls[c].of.video => calls[c].of.bytes <= MaxBytes
  PROVE  CallInv'
<1> USE DEF CallInv
<1>1. calls[c].pc # "idle" /\ ~Queries(c) /\ x \in Results
  BY DEF Fetches, Queries, Results
<1>2. calls' = [calls EXCEPT ![c] = Moved(c, "done", x)] /\ calls'[c] = Moved(c, "done", x)
  BY <1>1, Outcomes
<1>3. OwnEnd(c)'
  BY <1>1, <1>2, EndOf
<1>4. "done" \in Steps \ {"wait"} /\ "done" \notin Running
  BY DEF Steps, Running
<1> QED
  BY <1>1, <1>2, <1>3, <1>4, OneMove

LEMMA FetchMoves ==
  ASSUME CallInv, NEW c \in Caller, Fetches(c), NEW p \in {"slot", "probe", "convert", "verify"},
         Become(c, p), inflight' = inflight, slot' = IF slot = c THEN Nobody ELSE slot,
         p = "slot" => ~calls[c].cut,
         p \in {"convert", "verify"} => /\ calls[c].of.video => Combined(c)
                                        /\ Combined(c) => calls[c].of.bytes <= MaxBytes
  PROVE  CallInv'
<1> USE DEF CallInv
<1>1. calls[c].pc # "idle" /\ ~Queries(c) /\ p \in Steps \ {"wait"} /\ p \notin Running /\ calls[c].result \in Results
  BY Outcomes DEF Fetches, Queries, Steps, Busy, Running
<1>2. calls' = [calls EXCEPT ![c] = Moved(c, p, calls[c].result)]
  BY <1>1, Outcomes
<1> QED
  BY <1>1, <1>2, OneMove

LEMMA DownloadKeeps ==
  ASSUME CallInv, NEW c \in Caller,
         Open(c) \/ Transfer(c) \/ Probe(c) \/ Convert(c) \/ Verify(c)
  PROVE  CallInv'
<1> USE DEF CallInv
<1>0. /\ CallGood(c) /\ inflight' = inflight /\ slot \in Caller \cup {Nobody}
      /\ calls[c].pc \in {"open", "run", "probe", "convert", "verify"}
      /\ calls[c].pc = "run" => slot = c
      /\ calls[c].pc # "run" => slot # c
  <2>1. /\ inflight' = inflight
        /\ calls[c].pc \in {"open", "run", "probe", "convert", "verify"}
    BY DEF Open, Transfer, Probe, Convert, Verify, Is
  <2> QED
    BY <2>1, FetchAssumption DEF CallTypes, Slots, Running
<1>1. Fetches(c)
  BY <1>0 DEF Open, Transfer, Probe, Convert, Verify, Is, CallGood, Fetches
<1>2. Ended(c) /\ ~(Combined(c) /\ ~calls[c].ended /\ calls[c].cut) => calls[c].ended
  BY <1>0, <1>1 DEF Ended, Fetches, Queries, CallGood
<1>3. CASE Open(c)
  <2>1. slot' = slot /\ ~calls[c].cut /\ slot # c /\ (Finish(c, "budget") \/ Become(c, "slot"))
    BY <1>0, <1>3 DEF Open, Is, CallGood
  <2>2. CASE Finish(c, "budget")
    BY <1>0, <1>1, <2>1, <2>2, FetchEnds
  <2>3. CASE Become(c, "slot")
    BY <1>0, <1>1, <2>1, <2>3, FetchMoves
  <2> QED
    BY <2>1, <2>2, <2>3
<1>4. CASE Transfer(c)
  <2>1. slot' = Nobody /\ slot = c
    BY <1>0, <1>4 DEF Transfer, Is
  <2>2. \/ Become(c, "probe")
        \/ Finish(c, "budget")
        \/ calls[c].ended /\ Finish(c, "cancelled")
        \/ Finish(c, "failed")
    BY <1>2, <1>4 DEF Transfer, Classify
  <2>3. CASE Become(c, "probe")
    BY <1>0, <1>1, <2>1, <2>3, FetchMoves
  <2>4. ASSUME NEW x \in {"budget", "failed"}, Finish(c, x) PROVE CallInv'
    BY <1>0, <1>1, <2>1, <2>4, FetchEnds
  <2>5. CASE calls[c].ended /\ Finish(c, "cancelled")
    BY <1>0, <1>1, <2>1, <2>5, FetchEnds
  <2> QED
    BY <2>2, <2>3, <2>4, <2>5
<1>5. CASE Probe(c)
  <2>1. slot' = slot /\ slot # c
    BY <1>0, <1>5 DEF Probe, Is
  <2>2. /\ calls[c].of.video => Combined(c)
        /\ Combined(c) => ~(calls[c].of.bytes > MaxBytes)
        /\ Become(c, "convert")
        \/ \E x \in {"invalid", "budget"} : Finish(c, x)
    BY <1>5 DEF Probe
  <2>3. ASSUME NEW x \in {"invalid", "budget"}, Finish(c, x) PROVE CallInv'
    BY <1>0, <1>1, <2>1, <2>3, FetchEnds
  <2>4. CASE /\ calls[c].of.video => Combined(c)
             /\ Combined(c) => ~(calls[c].of.bytes > MaxBytes)
             /\ Become(c, "convert")
    <3>1. calls[c].of.bytes \in Nat
      <4>1. calls[c] \in CallType
        BY <1>1, Moving DEF Fetches, Steps, Results
      <4> QED
        BY <1>1, <4>1, FetchAssumption DEF Fetches, CallType
    <3>2. Combined(c) => calls[c].of.bytes <= MaxBytes
      BY <2>4, <3>1, FetchAssumption
    <3> QED
      BY <1>0, <1>1, <2>1, <2>4, <3>2, FetchMoves
  <2> QED
    BY <2>2, <2>3, <2>4
<1>6. CASE Convert(c)
  <2>1. /\ slot' = slot /\ slot # c
        /\ calls[c].of.video => Combined(c)
        /\ Combined(c) => calls[c].of.bytes <= MaxBytes
    BY <1>0, <1>6 DEF Convert, Is, CallGood
  <2>2. CASE Become(c, "verify")
    BY <1>0, <1>1, <2>1, <2>2, FetchMoves
  <2>3. CASE Finish(c, "failed")
    BY <1>0, <1>1, <2>1, <2>3, FetchEnds
  <2> QED
    BY <1>6, <2>2, <2>3 DEF Convert
<1>7. CASE Verify(c)
  <2>1. /\ slot' = slot /\ slot # c
        /\ calls[c].of.video => Combined(c)
        /\ Combined(c) => calls[c].of.bytes <= MaxBytes
    BY <1>0, <1>7 DEF Verify, Is, CallGood
  <2>2. CASE calls[c].of.exact /\ Finish(c, "stored")
    BY <1>0, <1>1, <2>1, <2>2, FetchEnds
  <2>3. ASSUME NEW x \in {"invalid", "failed"}, Finish(c, x) PROVE CallInv'
    BY <1>0, <1>1, <2>1, <2>3, FetchEnds
  <2> QED
    BY <1>7, <2>2, <2>3 DEF Verify
<1> QED
  BY <1>3, <1>4, <1>5, <1>6, <1>7

-----------------------------------------------------------------------------
(* The store and the queries.                                             *)

(* A store that says what it may, once for each query. *)
Good(s) == /\ s \in Seq(EntryType)
           /\ \A m, n \in DOMAIN s : s[m].of = s[n].of => m = n
           /\ \A n \in DOMAIN s : s[n].result = "gone" => s[n].of \in Extract

LEMMA PickGood ==
  ASSUME NEW s, Good(s), NEW S \in SUBSET DOMAIN s
  PROVE  /\ Good(Pick(s, S)) /\ Len(Pick(s, S)) \in Nat /\ Len(Pick(s, S)) <= Len(s)
         /\ S # DOMAIN s => Len(Pick(s, S)) < Len(s)
         /\ \A n \in DOMAIN Pick(s, S) : \E i \in S : Pick(s, S)[n] = s[i]
<1> DEFINE P == Pick(s, S)
<1>1. s \in Seq(EntryType) /\ DOMAIN s = 1..Len(s) /\ Len(s) \in Nat
  BY DEF Good
<1>2. /\ P \in Seq(EntryType) /\ Len(P) = Cardinality(S) /\ Cardinality(S) \in Nat
      /\ DOMAIN P = 1..Cardinality(S)
      /\ \A n \in DOMAIN P : Nth(S, n) \in S /\ P[n] = s[Nth(S, n)]
      /\ \A m, n \in DOMAIN P : m < n => Nth(S, m) < Nth(S, n)
  BY <1>1, Picked
<1>3. IsFiniteSet(DOMAIN s) /\ Cardinality(DOMAIN s) = Len(s)
  <2>1. PICK l \in Nat : l = Len(s)
    BY <1>1
  <2>2. IsFiniteSet(1..l) /\ Cardinality(1..l) = l
    BY FS_Interval
  <2> QED
    BY <1>1, <2>1, <2>2
<1>4. Cardinality(S) <= Len(s) /\ (S # DOMAIN s => Cardinality(S) < Len(s))
  <2>1. Cardinality(S) <= Cardinality(DOMAIN s)
        /\ (Cardinality(S) = Cardinality(DOMAIN s) => S = DOMAIN s)
    BY <1>3, FS_Subset
  <2> QED
    BY <1>1, <1>2, <1>3, <2>1
<1> HIDE DEF P
<1>5. ASSUME NEW m \in DOMAIN P, NEW n \in DOMAIN P, P[m].of = P[n].of PROVE m = n
  <2>1. Nth(S, m) = Nth(S, n) /\ Nth(S, m) \in Nat
    <3>1. Nth(S, m) \in DOMAIN s /\ Nth(S, n) \in DOMAIN s
      BY <1>2
    <3> QED
      BY <1>1, <1>2, <1>5, <3>1 DEF Good
  <2>2. m \in Nat /\ n \in Nat
    BY <1>2
  <2> QED
    BY <1>2, <2>1, <2>2
<1>6. ASSUME NEW n \in DOMAIN P, P[n].result = "gone" PROVE P[n].of \in Extract
  BY <1>2, <1>6 DEF Good
<1>7. Good(P)
  BY <1>2, <1>5, <1>6 DEF Good
<1> QED
  BY <1>2, <1>4, <1>7 DEF P

LEMMA ConsGood ==
  ASSUME NEW s, Good(s), NEW e \in EntryType, e.result = "gone" => e.of \in Extract,
         \A n \in DOMAIN s : s[n].of # e.of
  PROVE  Good(<<e>> \o s) /\ Len(<<e>> \o s) = Len(s) + 1
<1>1. s \in Seq(EntryType) /\ DOMAIN s = 1..Len(s) /\ Len(s) \in Nat
  BY DEF Good
<1>2. PICK t \in Seq(EntryType) : t = <<e>> \o s
  <2>1. <<e>> \in Seq(EntryType)
    OBVIOUS
  <2>2. <<e>> \o s \in Seq(EntryType)
    BY <1>1, <2>1
  <2> QED
    BY <2>2
<1>3. /\ Len(t) = Len(s) + 1 /\ DOMAIN t = 1..(Len(s) + 1) /\ t[1] = e
      /\ \A n \in 2..(Len(s) + 1) : t[n] = s[n - 1]
  BY <1>1, <1>2
<1>4. \A n \in DOMAIN t : n = 1 \/ (n \in 2..(Len(s) + 1) /\ n - 1 \in DOMAIN s)
  BY <1>1, <1>3
<1>5. ASSUME NEW m \in DOMAIN t, NEW n \in DOMAIN t, t[m].of = t[n].of PROVE m = n
  <2>1. CASE m = 1 \/ n = 1
    BY <1>3, <1>4, <1>5, <2>1
  <2>2. CASE m # 1 /\ n # 1
    <3>1. m - 1 \in DOMAIN s /\ n - 1 \in DOMAIN s /\ t[m] = s[m - 1] /\ t[n] = s[n - 1]
      BY <1>3, <1>4, <2>2
    <3>2. m - 1 = n - 1
      BY <1>5, <3>1 DEF Good
    <3> QED
      BY <1>3, <3>2
  <2> QED
    BY <2>1, <2>2
<1>6. ASSUME NEW n \in DOMAIN t, t[n].result = "gone" PROVE t[n].of \in Extract
  BY <1>3, <1>4, <1>6 DEF Good
<1> QED
  BY <1>2, <1>3, <1>5, <1>6 DEF Good

LEMMA Dropped ==
  ASSUME NEW s, Good(s), NEW k
  PROVE  /\ Good(Drop(s, k)) /\ Len(Drop(s, k)) \in Nat /\ Len(Drop(s, k)) <= Len(s)
         /\ \A n \in DOMAIN Drop(s, k) : Drop(s, k)[n].of # k
         /\ (\E n \in DOMAIN s : s[n].of = k) => Len(Drop(s, k)) < Len(s)
BY PickGood DEF Drop

LEMMA StowedGood ==
  ASSUME Good(store), Len(store) <= MaxEntries, NEW k \in Query, NEW x, Keeps(k, x)
  PROVE  Good(Stowed(k, x)) /\ Len(Stowed(k, x)) <= MaxEntries
<1> DEFINE others == Drop(store, k)
           valid  == Pick(others, {n \in DOMAIN others : ~others[n].old})
           room   == IF Len(others) < MaxEntries THEN others ELSE valid
           kept   == IF Len(room) < MaxEntries THEN room ELSE SubSeq(room, 1, MaxEntries - 1)
           e      == [of |-> k, result |-> x, old |-> FALSE]
<1>0. MaxEntries \in Nat \ {0}
  BY FetchAssumption
<1>1. /\ Good(others) /\ Len(others) \in Nat
      /\ \A n \in DOMAIN others : others[n].of # k
  BY Dropped
<1> HIDE DEF others
<1>2. /\ Good(valid) /\ Len(valid) \in Nat /\ \A n \in DOMAIN valid : valid[n].of # k
  BY <1>1, PickGood
<1> HIDE DEF valid
<1>3. /\ Good(room) /\ Len(room) \in Nat /\ \A n \in DOMAIN room : room[n].of # k
  BY <1>1, <1>2
<1> HIDE DEF room
<1>4. /\ Good(kept) /\ Len(kept) \in Nat /\ Len(kept) < MaxEntries
      /\ \A n \in DOMAIN kept : kept[n].of # k
  <2>1. CASE Len(room) < MaxEntries
    BY <1>3, <2>1
  <2>2. CASE ~(Len(room) < MaxEntries)
    <3>1. room \in Seq(EntryType) /\ DOMAIN room = 1..Len(room)
      BY <1>3 DEF Good
    <3>2. PICK t : t = SubSeq(room, 1, MaxEntries - 1)
      OBVIOUS
    <3>3. /\ t \in Seq(EntryType) /\ Len(t) = MaxEntries - 1 /\ DOMAIN t = 1..(MaxEntries - 1)
          /\ \A n \in 1..(MaxEntries - 1) : n \in DOMAIN room /\ t[n] = room[n]
      BY <1>0, <1>3, <2>2, <3>1, <3>2
    <3>4. Good(t) /\ \A n \in DOMAIN t : t[n].of # k
      BY <1>3, <3>3 DEF Good
    <3> QED
      BY <1>0, <2>2, <3>2, <3>3, <3>4
  <2> QED
    BY <2>1, <2>2
<1> HIDE DEF kept
<1>5. e \in EntryType /\ e.of = k /\ (e.result = "gone" => e.of \in Extract)
  BY DEF EntryType, Keeps
<1> HIDE DEF e
<1>6. Good(<<e>> \o kept) /\ Len(<<e>> \o kept) = Len(kept) + 1
  BY <1>4, <1>5, ConsGood
<1>7. Stowed(k, x) = <<e>> \o kept
  BY DEF Stowed, others, valid, room, kept, e
<1> QED
  BY <1>0, <1>4, <1>6, <1>7

LEMMA AgeGood ==
  ASSUME StoreInv, NEW n \in DOMAIN store, Age(n) PROVE StoreInv'
<1>1. store' = [store EXCEPT ![n].old = TRUE] /\ store \in Seq(EntryType)
  BY DEF Age, StoreInv
<1>2. store[n] \in EntryType /\ DOMAIN store = 1..Len(store) /\ Len(store) \in Nat
  BY <1>1
<1>3. PICK e \in EntryType : /\ e = [store[n] EXCEPT !.old = TRUE]
                             /\ e.of = store[n].of /\ e.result = store[n].result
  BY <1>2 DEF EntryType
<1>4. store' = [store EXCEPT ![n] = e]
  BY <1>1, <1>3
<1>5. /\ store' \in Seq(EntryType) /\ Len(store') = Len(store) /\ DOMAIN store' = DOMAIN store
      /\ \A m \in DOMAIN store : store'[m].of = store[m].of /\ store'[m].result = store[m].result
  BY <1>1, <1>2, <1>3, <1>4
<1> QED
  BY <1>5 DEF StoreInv

LEMMA StoreIs == StoreInv <=> Good(store) /\ Len(store) <= MaxEntries
BY DEF StoreInv, Good

LEMMA LookupStore ==
  ASSUME CallInv, StoreInv, NEW c \in Caller, Lookup(c) PROVE StoreInv'
<1> DEFINE k == calls[c].of
<1>1. Good(store) /\ Len(store) <= MaxEntries
  BY StoreIs
<1>2. /\ Good(Drop(store, k)) /\ Len(Drop(store, k)) \in Nat /\ Len(Drop(store, k)) <= Len(store)
      /\ \A n \in DOMAIN Drop(store, k) : Drop(store, k)[n].of # k
      /\ Holds(k) => Len(Drop(store, k)) < Len(store)
  BY <1>1, Dropped DEF Holds
<1>3. Len(store) \in Nat /\ MaxEntries \in Nat
  BY <1>1, FetchAssumption DEF Good
<1>4. CASE Fresh(k)
  <2>1. Entry(k) \in DOMAIN store /\ store[Entry(k)].of = k
    BY <1>4 DEF Fresh, Holds, Entry
  <2>2. store[Entry(k)] \in EntryType /\ (store[Entry(k)].result = "gone" => store[Entry(k)].of \in Extract)
    BY <1>1, <2>1 DEF Good
  <2>3. PICK e \in EntryType : e = store[Entry(k)]
    BY <2>2
  <2>4. PICK s : s = Drop(store, k)
    OBVIOUS
  <2>5. Good(s) /\ \A n \in DOMAIN s : s[n].of # e.of
    BY <1>2, <2>1, <2>3, <2>4
  <2>6. Good(<<e>> \o s) /\ Len(<<e>> \o s) = Len(s) + 1
    BY <2>2, <2>3, <2>5, ConsGood
  <2>7. store' = <<e>> \o s
    BY <1>4, <2>3, <2>4 DEF Lookup
  <2>8. Len(s) + 1 <= Len(store)
    BY <1>2, <1>3, <1>4, <2>4 DEF Fresh
  <2>9. Good(store') /\ Len(store') <= MaxEntries
    BY <1>1, <1>3, <1>2, <2>4, <2>6, <2>7, <2>8
  <2> QED
    BY <2>9 DEF StoreInv, Good
<1>5. CASE ~Fresh(k)
  <2>1. store' = Drop(store, k)
    BY <1>5 DEF Lookup
  <2>2. Good(store') /\ Len(store') <= MaxEntries
    BY <1>1, <1>2, <1>3, <2>1
  <2> QED
    BY <2>2 DEF StoreInv, Good
<1> QED
  BY <1>4, <1>5

LEMMA LookupKeeps ==
  ASSUME CallInv, StoreInv, NEW c \in Caller, Lookup(c) PROVE CallInv'
<1> USE DEF CallInv
<1> DEFINE k == calls[c].of
<1>1. /\ calls[c].pc = "look" /\ k \in Query /\ CallGood(c) /\ Queries(c)
      /\ slot' = slot /\ slot # c
  BY FetchAssumption DEF Lookup, Is, CallGood, Slots, Running, Queries
<1>2. calls[c] \in CallType /\ calls[c].result \in Results /\ ~calls[c].cut
  BY <1>1, Moving, Outcomes DEF Steps, CallGood, Combined, Fetches
<1>3. CASE Fresh(k)
  <2>1. Entry(k) \in DOMAIN store /\ store[Entry(k)].of = k
    BY <1>3 DEF Fresh, Holds, Entry
  <2>2. store[Entry(k)] \in EntryType /\ (store[Entry(k)].result = "gone" => k \in Extract)
    BY <2>1 DEF StoreInv
  <2>3. PICK x \in {"found", "gone"} : x = store[Entry(k)].result
    BY <2>2 DEF EntryType
  <2>4. Finish(c, x) /\ inflight' = inflight
    BY <1>3, <2>3 DEF Lookup
  <2>5. x \in Results /\ x \in Replies
    BY DEF Results, Replies, Answers
  <2>6. calls' = [calls EXCEPT ![c] = Moved(c, "done", x)] /\ calls'[c] = Moved(c, "done", x)
    BY <1>1, <2>4, <2>5, Outcomes
  <2>7. OwnEnd(c)'
    <3>1. /\ calls'[c].of = k /\ calls'[c].result = x /\ x = "gone" => k \in Extract
      BY <2>2, <2>3, <2>6 DEF Moved
    <3> QED
      BY <2>2, <2>3, <2>6, <3>1 DEF OwnEnd, Moved
  <2> QED
    BY <1>1, <2>4, <2>5, <2>6, <2>7, OneMove DEF Steps, Busy, Running
<1>4. CASE ~Fresh(k) /\ inflight[k] # Nobody
  <2>1. inflight[k] \in Caller /\ calls[inflight[k]].pc \in Busy
    BY <1>1, <1>4 DEF CallTypes, Owners
  <2>2. PICK h \in SUBSET Answers : h = calls[inflight[k]].heard
    <3>1. calls[inflight[k]] \in CallType
      BY <2>1, Moving DEF Steps, Results, Busy, Running
    <3> QED
      BY <3>1 DEF CallType
  <2>3. /\ calls' = [calls EXCEPT ![c] = [calls[c] EXCEPT !.pc = "wait", !.heard = h]]
        /\ inflight' = inflight
    BY <1>4, <2>2 DEF Lookup, CallTypes
  <2>a. PICK e \in CallType : e = [calls[c] EXCEPT !.pc = "wait"]
    BY <1>2 DEF CallType
  <2>4. e.pc = "wait" /\ e.of = k /\ e.cut = calls[c].cut
    BY <1>2, <2>a DEF CallType
  <2>b. PICK r \in CallType : r = [e EXCEPT !.heard = h]
    BY DEF CallType
  <2>5. r.pc = e.pc /\ r.of = e.of /\ r.cut = e.cut /\ r.heard = h
    BY <2>b DEF CallType
  <2>6. r = [calls[c] EXCEPT !.pc = "wait", !.heard = h]
    BY <2>a, <2>b
  <2>7. calls' = [calls EXCEPT ![c] = r] /\ calls'[c] = r
    BY <2>3, <2>6 DEF CallTypes
  <2>8. CallGood(c)'
    BY <1>1, <1>2, <2>4, <2>5, <2>7 DEF CallGood, Is, OwnEnd
  <2>9. r.pc \notin Busy /\ r.pc \notin Running /\ calls[c].pc \notin Busy
    BY <1>1, <2>4, <2>5 DEF Busy, Running
  <2>c. r.of = k /\ r.heard = calls[inflight[k]].heard
    BY <2>2, <2>4, <2>5
  <2>d. /\ r.of \in Query /\ inflight[r.of] # Nobody
        /\ calls[inflight[r.of]].heard \subseteq r.heard
    BY <1>1, <1>4, <2>c
  <2>e. slot' = IF r.pc \in Running THEN c ELSE IF slot = c THEN Nobody ELSE slot
    BY <1>1, <2>9
  <2> QED
    BY <2>3, <2>7, <2>8, <2>9, <2>d, <2>e, OneCall
<1>5. CASE ~Fresh(k) /\ inflight[k] = Nobody
  <2>1. Become(c, "slot") /\ inflight' = [inflight EXCEPT ![k] = c]
    BY <1>5 DEF Lookup
  <2>2. calls' = [calls EXCEPT ![c] = Moved(c, "slot", calls[c].result)]
    BY <1>1, <2>1, Outcomes DEF Steps, Busy
  <2>3. PICK r \in CallType : /\ r = Moved(c, "slot", calls[c].result)
                              /\ r.pc = "slot" /\ r.of = k /\ r.heard = calls[c].heard /\ r.cut = calls[c].cut
    <3>1. Moved(c, "slot", calls[c].result) \in CallType
      BY <1>1, <1>2, Moving DEF Steps, Busy
    <3> QED
      BY <3>1 DEF Moved
  <2>4. /\ calls' \in [Caller -> CallType \cup {Idle}] /\ calls'[c] = r
        /\ \A d \in Caller \ {c} : calls'[d] = calls[d]
    BY <2>2, <2>3 DEF CallTypes
  <2>5. /\ inflight' \in [Query -> Caller \cup {Nobody}] /\ inflight'[k] = c
        /\ \A q \in Query \ {k} : inflight'[q] = inflight[q]
    BY <1>1, <2>1 DEF CallTypes
  <2>6. \A d \in Caller : CallGood(d)'
    <3>1. CallGood(c)'
      BY <1>1, <1>2, <2>3, <2>4 DEF CallGood, Is, OwnEnd
    <3> QED
      BY <2>4, <3>1, SameCall
  <2>7. Slots'
    BY <1>1, <2>3, <2>4, FetchAssumption DEF Slots, CallTypes, Running
  <2>8. Owners'
    <3>1. ASSUME NEW q \in Query, inflight'[q] # Nobody
          PROVE  calls'[inflight'[q]].pc \in Busy /\ calls'[inflight'[q]].of = q
      <4>1. CASE q = k
        BY <2>3, <2>4, <2>5, <4>1 DEF Busy
      <4>2. CASE q # k
        <5>1. /\ inflight'[q] = inflight[q] /\ inflight[q] \in Caller
              /\ calls[inflight[q]].pc \in Busy /\ calls[inflight[q]].of = q
          BY <2>5, <3>1, <4>2 DEF Owners, CallTypes
        <5> QED
          BY <2>4, <4>2, <5>1
      <4> QED
        BY <4>1, <4>2
    <3>2. ASSUME NEW d \in Caller, calls'[d].pc = "wait"
          PROVE  /\ inflight'[calls'[d].of] # Nobody
                 /\ calls'[inflight'[calls'[d].of]].heard \subseteq calls'[d].heard
      <4>1. d # c /\ calls'[d] = calls[d] /\ calls[d].of \in Query
        BY <2>3, <2>4, <3>2 DEF CallGood
      <4>2. /\ inflight[calls[d].of] # Nobody /\ calls[d].of # k
            /\ calls[inflight[calls[d].of]].heard \subseteq calls[d].heard
        BY <1>5, <3>2, <4>1 DEF Owners, Is
      <4>3. /\ inflight'[calls[d].of] = inflight[calls[d].of] /\ inflight[calls[d].of] \in Caller
            /\ calls[inflight[calls[d].of]].of = calls[d].of
        BY <2>5, <4>1, <4>2 DEF Owners, CallTypes
      <4>4. inflight[calls[d].of] # c
        BY <4>2, <4>3
      <4> QED
        BY <2>4, <4>1, <4>2, <4>3, <4>4, FetchAssumption
    <3>3. ASSUME NEW d \in Caller, calls'[d].pc # "idle", calls'[d].of \in Query, calls'[d].pc \in Busy
          PROVE  inflight'[calls'[d].of] = d
      <4>1. CASE d = c
        BY <2>3, <2>4, <2>5, <4>1
      <4>2. CASE d # c
        <5>1. calls'[d] = calls[d] /\ inflight[calls[d].of] = d /\ d # Nobody
          BY <2>4, <3>3, <4>2, FetchAssumption DEF Owners, Queries
        <5> QED
          BY <1>5, <2>5, <3>3, <5>1
      <4> QED
        BY <4>1, <4>2
    <3> QED
      BY <3>1, <3>2, <3>3 DEF Owners, Is, Queries
  <2> QED
    BY <1>1, <2>4, <2>5, <2>6, <2>7, <2>8 DEF CallTypes
<1> QED
  BY <1>3, <1>4, <1>5

LEMMA SettleStore ==
  ASSUME CallInv, StoreInv, NEW c \in Caller, Settle(c) PROVE StoreInv'
<1> DEFINE k == calls[c].of
<1>1. Good(store) /\ Len(store) <= MaxEntries
  BY StoreIs
<1>2. k \in Query
  BY DEF CallInv, Settle, Is, CallGood
<1>3. CASE store' = store
  BY <1>3 DEF StoreInv
<1>4. CASE Keeps(k, calls[c].result) /\ store' = Stowed(k, calls[c].result)
  <2>1. Good(store') /\ Len(store') <= MaxEntries
    BY <1>1, <1>2, <1>4, StowedGood
  <2> QED
    BY <2>1 DEF StoreInv, Good
<1> QED
  BY <1>3, <1>4 DEF Settle

(* A query that ends or is looked up again. *)
LEMMA QueryGood ==
  ASSUME NEW c \in Caller, Queries(c), ~calls[c].cut, NEW p \in {"look", "done"}, NEW x,
         calls'[c] = Moved(c, p, x),
         p = "done" => x \in Replies \cup {"cancelled"} /\ OwnEnd(c)'
  PROVE  CallGood(c)'
<1>1. calls'[c].of = calls[c].of /\ calls'[c].result = x /\ calls'[c].cut = calls[c].cut /\ calls'[c].pc = p
  BY DEF Moved
<1> QED
  BY <1>1 DEF CallGood, Queries, Is, OwnEnd

LEMMA SettleCalls ==
  ASSUME CallInv, NEW c \in Caller, Settle(c), NEW d \in Caller
  PROVE  /\ calls'[d] \in CallType \cup {Idle} /\ CallGood(d)'
         /\ d = c \/ d \in Waiters(c) => calls'[d].pc \in {"look", "done"}
         /\ d # c /\ d \notin Waiters(c) => calls'[d] = calls[d]
<1> USE DEF CallInv
<1> DEFINE y == calls[c].result
<1>1. /\ calls[c].pc = "settle" /\ calls[c].of \in Query /\ Told(c) /\ Queries(c) /\ ~calls[c].cut
      /\ CallTypes
  BY DEF Settle, Is, CallGood, Queries, Combined, Fetches
<1>2. calls' = [e \in Caller |->
                 IF e = c THEN [calls[e] EXCEPT !.pc = "done", !.result = CallerEnded(e, y)]
                 ELSE IF e \notin Waiters(c) THEN calls[e]
                 ELSE IF Ended(c) /\ Ended(e)
                      THEN [calls[e] EXCEPT !.pc = "done", !.result = CallerEnded(e, "timeout")]
                 ELSE IF Ended(c) THEN [calls[e] EXCEPT !.pc = "look"]
                 ELSE [calls[e] EXCEPT !.pc = "done", !.result = CallerEnded(e, y)]]
  BY DEF Settle
<1>3. CASE d # c /\ d \notin Waiters(c)
  <2>1. calls'[d] = calls[d]
    BY <1>2, <1>3
  <2> QED
    BY <1>1, <1>3, <2>1, SameCall DEF CallTypes
<1>4. CASE d = c \/ d \in Waiters(c)
  <2>1. /\ Queries(d) /\ ~calls[d].cut /\ calls[d].pc # "idle" /\ calls[d].of = calls[c].of
    BY <1>1, <1>4 DEF Waiters, Is, CallGood, Queries, Combined, Fetches
  <2>2. calls[d] \in CallType /\ calls[d].result \in Results /\ "done" \in Steps /\ "look" \in Steps
    BY <1>1, <2>1, Moving, Outcomes DEF Steps
  <2>3. calls[c].heard \subseteq calls[d].heard
    <3>1. CASE d \in Waiters(c)
      <4>1. inflight[calls[d].of] = c
        BY <1>1, <2>1 DEF Owners, Busy
      <4> QED
        BY <3>1, <4>1 DEF Owners, Waiters
    <3> QED
      BY <1>4, <3>1
  <2>4. /\ y \in Replies /\ (y \in Answers => y \in calls[d].heard) /\ (y = "timeout" => Ended(c))
    BY <1>1, <2>3 DEF Told
  <2>5. Ended(d) /\ ~calls[d].ended => calls[d].late
    BY <2>1 DEF Ended
  <2>6. ASSUME NEW z, \/ z = y /\ (z = "timeout" => Ended(d))
                      \/ z = "timeout" /\ Ended(d)
        PROVE  /\ CallerEnded(d, z) \in Replies \cup {"cancelled"} /\ CallerEnded(d, z) \in Results
               /\ calls'[d] = Moved(d, "done", CallerEnded(d, z)) => CallGood(d)' /\ calls'[d] \in CallType
    <3>1. z \in Replies /\ (z \in Answers => z \in calls[d].heard) /\ (z = "timeout" => Ended(d))
      BY <2>4, <2>6 DEF Replies, Answers
    <3>2. PICK x : x = CallerEnded(d, z)
      OBVIOUS
    <3>3. x \in Replies \cup {"cancelled"} /\ x \in Results
      BY <3>1, <3>2 DEF CallerEnded, Replies, Results
    <3>4. /\ x = "cancelled" => calls[d].ended
          /\ x = "timeout" => calls[d].late
          /\ x \in {"empty", "limited", "gone"} => x \in calls[d].heard
          /\ x # "stored"
      BY <2>5, <3>1, <3>2 DEF CallerEnded, Replies, Answers
    <3>5. ASSUME calls'[d] = Moved(d, "done", x) PROVE CallGood(d)' /\ calls'[d] \in CallType
      <4>1. OwnEnd(d)'
        BY <2>1, <3>3, <3>4, <3>5, EndOf
      <4>2. CallGood(d)'
        BY <2>1, <3>3, <3>5, <4>1, QueryGood
      <4>3. Moved(d, "done", x) \in CallType
        BY <1>1, <2>1, <2>2, <3>3, Moving
      <4> QED
        BY <3>5, <4>2, <4>3
    <3> QED
      BY <3>2, <3>3, <3>5
  <2>7. PICK u \in Results, v \in Results : u = CallerEnded(d, y) /\ v = CallerEnded(d, "timeout")
    <3>1. y \in Results /\ "timeout" \in Results /\ "cancelled" \in Results
      BY <2>4 DEF Replies, Results
    <3> QED
      BY <3>1 DEF CallerEnded
  <2>a. /\ [calls[d] EXCEPT !.pc = "look"] = Moved(d, "look", calls[d].result)
        /\ [calls[d] EXCEPT !.pc = "done", !.result = u] = Moved(d, "done", u)
        /\ [calls[d] EXCEPT !.pc = "done", !.result = v] = Moved(d, "done", v)
    <3>1. PICK e \in CallType : e = calls[d]
      BY <2>2
    <3>2. ASSUME NEW p \in {"look", "done"}
          PROVE  [e EXCEPT !.pc = p] =
                   [pc |-> p, of |-> e.of, ended |-> e.ended, late |-> e.late, heard |-> e.heard,
                    result |-> e.result, seen |-> e.seen, cut |-> e.cut]
      BY DEF CallType
    <3>3. PICK f \in CallType : f = [e EXCEPT !.pc = "done"]
      BY <2>2 DEF CallType, Steps
    <3>4. /\ f.of = e.of /\ f.ended = e.ended /\ f.late = e.late /\ f.heard = e.heard
          /\ f.seen = e.seen /\ f.cut = e.cut /\ f.pc = "done"
      BY <3>3 DEF CallType
    <3>5. ASSUME NEW x
          PROVE  [f EXCEPT !.result = x] =
                   [pc |-> f.pc, of |-> f.of, ended |-> f.ended, late |-> f.late, heard |-> f.heard,
                    result |-> x, seen |-> f.seen, cut |-> f.cut]
      BY DEF CallType
    <3>6. [calls[d] EXCEPT !.pc = "done", !.result = u] = [f EXCEPT !.result = u]
      BY <3>1, <3>3
    <3>7. [calls[d] EXCEPT !.pc = "done", !.result = v] = [f EXCEPT !.result = v]
      BY <3>1, <3>3
    <3> QED
      BY <3>1, <3>2, <3>4, <3>5, <3>6, <3>7 DEF Moved
  <2>8. CASE calls'[d] = Moved(d, "look", calls[d].result)
    <3>1. CallGood(d)'
      BY <2>1, <2>8, QueryGood
    <3>2. Moved(d, "look", calls[d].result) \in CallType
      BY <1>1, <2>1, <2>2, Moving
    <3> QED
      BY <1>4, <2>8, <3>1, <3>2 DEF Moved
  <2>9. ASSUME calls'[d] = Moved(d, "done", CallerEnded(d, y)), y = "timeout" => Ended(d)
        PROVE  CallGood(d)' /\ calls'[d] \in CallType /\ calls'[d].pc = "done"
    BY <2>6, <2>9 DEF Moved
  <2>10. ASSUME calls'[d] = Moved(d, "done", CallerEnded(d, "timeout")), Ended(d)
        PROVE  CallGood(d)' /\ calls'[d] \in CallType /\ calls'[d].pc = "done"
    BY <2>6, <2>10 DEF Moved
  <2>11. \/ calls'[d] = Moved(d, "look", calls[d].result)
         \/ calls'[d] = Moved(d, "done", CallerEnded(d, y)) /\ (y = "timeout" => Ended(d))
         \/ calls'[d] = Moved(d, "done", CallerEnded(d, "timeout")) /\ Ended(d)
    <3>1. calls'[d] = IF d = c THEN [calls[d] EXCEPT !.pc = "done", !.result = u]
                      ELSE IF Ended(c) /\ Ended(d)
                           THEN [calls[d] EXCEPT !.pc = "done", !.result = v]
                      ELSE IF Ended(c) THEN [calls[d] EXCEPT !.pc = "look"]
                      ELSE [calls[d] EXCEPT !.pc = "done", !.result = u]
      BY <1>2, <1>4, <2>7
    <3> QED
      BY <2>4, <2>7, <2>a, <3>1
  <2> QED
    BY <1>4, <2>8, <2>9, <2>10, <2>11
<1> QED
  BY <1>3, <1>4

LEMMA SettleKeeps ==
  ASSUME CallInv, NEW c \in Caller, Settle(c) PROVE CallInv'
<1> USE DEF CallInv
<1> DEFINE k == calls[c].of
<1>1. /\ calls[c].pc = "settle" /\ k \in Query /\ slot' = slot
      /\ inflight' = [inflight EXCEPT ![k] = Nobody] /\ inflight[k] = c
  BY DEF Settle, Is, CallGood, Owners, Queries, Busy
<1>2. \A d \in Caller : calls'[d] \in CallType \cup {Idle} /\ CallGood(d)'
  BY SettleCalls
<1>3. \A d \in Caller : d = c \/ d \in Waiters(c) => calls'[d].pc \in {"look", "done"}
  BY SettleCalls
<1>4. \A d \in Caller : d # c /\ d \notin Waiters(c) => calls'[d] = calls[d]
  BY SettleCalls
<1>5. calls' \in [Caller -> CallType \cup {Idle}]
  <2>1. calls' = [d \in Caller |-> calls'[d]]
    BY DEF Settle
  <2>2. PICK f : f = calls'
    OBVIOUS
  <2>3. f = [d \in Caller |-> f[d]] /\ \A d \in Caller : f[d] \in CallType \cup {Idle}
    BY <1>2, <2>1, <2>2
  <2> QED
    BY <2>2, <2>3
<1>6. /\ inflight' \in [Query -> Caller \cup {Nobody}] /\ inflight'[k] = Nobody
      /\ \A q \in Query \ {k} : inflight'[q] = inflight[q]
  BY <1>1 DEF CallTypes
<1>7. \A d \in Caller : d = c \/ d \in Waiters(c) =>
        calls[d].pc \notin Running /\ calls'[d].pc \notin Running /\ calls'[d].pc \notin Busy /\ calls'[d].pc # "wait"
  <2>1. \A d \in Caller : d = c \/ d \in Waiters(c) => calls[d].pc \in {"settle", "wait"}
    BY <1>1 DEF Waiters, Is
  <2> QED
    BY <1>3, <2>1 DEF Running, Busy
<1>8. Slots'
  BY <1>1, <1>4, <1>7 DEF Slots, CallTypes
<1>9. Owners'
  <2>1. ASSUME NEW q \in Query, inflight'[q] # Nobody
        PROVE  /\ q # k /\ inflight'[q] = inflight[q] /\ calls'[inflight'[q]] = calls[inflight[q]]
               /\ calls'[inflight'[q]].pc \in Busy /\ calls'[inflight'[q]].of = q
    <3>1. q # k /\ inflight'[q] = inflight[q]
      BY <1>6, <2>1
    <3>2. inflight[q] \in Caller /\ calls[inflight[q]].pc \in Busy /\ calls[inflight[q]].of = q
      BY <2>1, <3>1 DEF Owners, CallTypes
    <3>3. inflight[q] # c /\ inflight[q] \notin Waiters(c)
      BY <3>1, <3>2 DEF Waiters, Is, Busy, Running
    <3> QED
      BY <1>4, <3>1, <3>2, <3>3
  <2>2. ASSUME NEW d \in Caller, calls'[d].pc = "wait"
        PROVE  /\ inflight'[calls'[d].of] # Nobody
               /\ calls'[inflight'[calls'[d].of]].heard \subseteq calls'[d].heard
    <3>1. d # c /\ d \notin Waiters(c) /\ calls'[d] = calls[d] /\ calls[d].pc = "wait"
      BY <1>4, <1>7, <2>2
    <3>2. calls[d].of \in Query /\ calls[d].of # k
      BY <3>1 DEF CallGood, Waiters, Is
    <3>3. /\ inflight[calls[d].of] # Nobody /\ calls[inflight[calls[d].of]].heard \subseteq calls[d].heard
      BY <3>1 DEF Owners, Is
    <3>4. inflight'[calls[d].of] = inflight[calls[d].of]
      BY <1>6, <3>2
    <3> QED
      BY <2>1, <3>1, <3>2, <3>3, <3>4
  <2>3. ASSUME NEW d \in Caller, calls'[d].pc # "idle", calls'[d].of \in Query, calls'[d].pc \in Busy
        PROVE  inflight'[calls'[d].of] = d
    <3>1. d # c /\ calls'[d] = calls[d]
      BY <1>4, <1>7, <2>3
    <3>2. inflight[calls[d].of] = d
      BY <2>3, <3>1 DEF Owners, Queries
    <3> QED
      BY <1>1, <1>6, <2>3, <3>1, <3>2
  <2> QED
    BY <2>1, <2>2, <2>3 DEF Owners, Is, Queries
<1> QED
  BY <1>1, <1>2, <1>5, <1>6, <1>8, <1>9 DEF CallTypes

LEMMA AnswerKeeps ==
  ASSUME CallInv, NEW c \in Caller, Answer(c) PROVE CallInv'
<1> USE DEF CallInv
<1> DEFINE k == calls[c].of
<1>1. /\ calls[c].pc = "run" /\ k \in Query /\ Queries(c) /\ slot' = Nobody /\ slot = c
      /\ inflight' = inflight /\ inflight[k] = c /\ CallTypes
  BY FetchAssumption DEF Answer, Is, Owners, Slots, Queries, Busy, Running
<1>2. PICK a \in Answers :
        calls' = [d \in Caller |->
          IF d = c THEN [calls[c] EXCEPT !.pc = "settle", !.heard = @ \cup {a},
                           !.result = IF Ended(c) /\ a \in {"gone", "limited"} THEN "timeout" ELSE a]
          ELSE IF d \in Waiters(c) THEN [calls[d] EXCEPT !.heard = @ \cup {a}] ELSE calls[d]]
  BY DEF Answer
<1>3. PICK x \in Results : x = (IF Ended(c) /\ a \in {"gone", "limited"} THEN "timeout" ELSE a)
  BY DEF Results
<1>4. \A d \in Caller : d = c \/ d \in Waiters(c) => calls[d] \in CallType /\ calls[d].of = k
  <2>1. \A d \in Caller : d = c \/ d \in Waiters(c) => calls[d].pc # "idle" /\ calls[d].of = k
    BY <1>1 DEF Waiters, Is
  <2>2. "look" \in Steps /\ "none" \in Results
    BY DEF Steps, Results
  <2> QED
    BY <1>1, <2>1, <2>2, Moving
<1>5. PICK r \in CallType : /\ r = calls'[c] /\ r.pc = "settle" /\ r.of = k /\ r.result = x
                            /\ r.heard = calls[c].heard \cup {a}
                            /\ r.ended = calls[c].ended /\ r.late = calls[c].late /\ r.cut = calls[c].cut
  <2>1. PICK h \in SUBSET Answers : h = calls[c].heard \cup {a}
    BY <1>4 DEF CallType
  <2>2. calls'[c] = [calls[c] EXCEPT !.pc = "settle", !.heard = h, !.result = x]
    BY <1>2, <1>3, <2>1
  <2>3. PICK e \in CallType : e = [calls[c] EXCEPT !.pc = "settle"]
    BY <1>4 DEF CallType, Busy
  <2>4. PICK f \in CallType : f = [e EXCEPT !.heard = h]
    BY DEF CallType
  <2>5. PICK r \in CallType : r = [f EXCEPT !.result = x]
    BY DEF CallType
  <2>6. r = [calls[c] EXCEPT !.pc = "settle", !.heard = h, !.result = x]
    BY <2>3, <2>4, <2>5
  <2>7. /\ e.pc = "settle" /\ e.of = k /\ e.ended = calls[c].ended /\ e.late = calls[c].late
        /\ e.cut = calls[c].cut
    BY <1>4, <2>3 DEF CallType
  <2>8. f.pc = e.pc /\ f.of = e.of /\ f.heard = h /\ f.ended = e.ended /\ f.late = e.late /\ f.cut = e.cut
    BY <2>4 DEF CallType
  <2>9. /\ r.pc = f.pc /\ r.of = f.of /\ r.heard = f.heard /\ r.ended = f.ended /\ r.late = f.late
        /\ r.cut = f.cut /\ r.result = x
    BY <2>5 DEF CallType
  <2>10. r = calls'[c]
    BY <2>2, <2>6
  <2> QED
    BY <2>1, <2>7, <2>8, <2>9, <2>10
<1>6. ASSUME NEW d \in Waiters(c)
      PROVE  /\ calls'[d] \in CallType /\ calls'[d].pc = "wait" /\ calls'[d].of = k
             /\ calls'[d].heard = calls[d].heard \cup {a} /\ calls'[d].cut = calls[d].cut
  <2>1. d \in Caller /\ d # c /\ calls[d].pc = "wait" /\ calls[d] \in CallType /\ calls[d].of = k
    BY <1>1, <1>4 DEF Waiters, Is
  <2>2. PICK h \in SUBSET Answers : h = calls[d].heard \cup {a}
    BY <2>1 DEF CallType
  <2>3. calls'[d] = [calls[d] EXCEPT !.heard = h]
    BY <1>2, <2>1, <2>2
  <2>4. PICK e \in CallType : e = [calls[d] EXCEPT !.heard = h]
    BY <2>1 DEF CallType
  <2>5. e.pc = "wait" /\ e.of = k /\ e.heard = h /\ e.cut = calls[d].cut
    BY <2>1, <2>4 DEF CallType
  <2> QED
    BY <2>2, <2>3, <2>4, <2>5
<1>7. \A d \in Caller : d # c /\ d \notin Waiters(c) => calls'[d] = calls[d]
  BY <1>2
<1>8. calls' \in [Caller -> CallType \cup {Idle}]
  <2>1. calls' = [d \in Caller |-> calls'[d]]
    BY <1>2
  <2>2. PICK f : f = calls'
    OBVIOUS
  <2>3. f = [d \in Caller |-> f[d]] /\ \A d \in Caller : f[d] \in CallType \cup {Idle}
    <3>1. \A d \in Caller : calls'[d] \in CallType \cup {Idle}
      BY <1>1, <1>5, <1>6, <1>7 DEF CallTypes
    <3> QED
      BY <2>1, <2>2, <3>1
  <2> QED
    BY <2>2, <2>3
<1>9. \A d \in Caller : CallGood(d)'
  <2>1. ~calls[c].cut /\ Queries(c)'
    BY <1>1, <1>5 DEF CallGood, Queries, Combined, Fetches
  <2>2. x = "timeout" => Ended(c)'
    <3>1. x = "timeout" => Ended(c)
      BY <1>3 DEF Answers
    <3> QED
      BY <1>1, <1>5, <2>1, <3>1 DEF Ended
  <2>3. Told(c)'
    BY <1>3, <1>5, <2>2 DEF Told, Replies, Answers
  <2>4. CallGood(c)'
    BY <1>1, <1>5, <2>1, <2>3 DEF CallGood, Is, OwnEnd
  <2>5. ASSUME NEW d \in Waiters(c) PROVE CallGood(d)'
    <3>1. ~calls[d].cut
      BY <1>1 DEF Waiters, CallGood, Is, Combined, Fetches
    <3> QED
      BY <1>1, <1>6, <3>1 DEF CallGood, Is, OwnEnd
  <2> QED
    BY <1>7, <2>4, <2>5, SameCall
<1>10. Slots'
  <2>1. \A d \in Caller : calls'[d].pc \in Running => calls[d].pc \in Running /\ d # c
    BY <1>5, <1>6, <1>7 DEF Running
  <2> QED
    BY <1>1, <2>1 DEF Slots
<1>11. Owners'
  <2>1. ASSUME NEW q \in Query, inflight[q] # Nobody
        PROVE  /\ inflight[q] \in Caller /\ calls'[inflight[q]].pc \in Busy /\ calls'[inflight[q]].of = q
               /\ calls'[inflight[q]].heard = IF q = k THEN calls[inflight[q]].heard \cup {a}
                                              ELSE calls[inflight[q]].heard
    <3>1. inflight[q] \in Caller /\ calls[inflight[q]].pc \in Busy /\ calls[inflight[q]].of = q
      BY <1>1, <2>1 DEF Owners, CallTypes
    <3>2. CASE q = k
      BY <1>1, <1>5, <3>1, <3>2 DEF Busy
    <3>3. CASE q # k
      <4>1. inflight[q] # c /\ inflight[q] \notin Waiters(c)
        BY <3>1, <3>3 DEF Waiters
      <4> QED
        BY <1>7, <3>1, <3>3, <4>1
    <3> QED
      BY <3>2, <3>3
  <2>2. ASSUME NEW d \in Caller, calls'[d].pc = "wait"
        PROVE  /\ inflight[calls'[d].of] # Nobody
               /\ calls'[inflight[calls'[d].of]].heard \subseteq calls'[d].heard
    <3>1. calls[d].pc = "wait" /\ calls'[d].of = calls[d].of /\ calls[d].of \in Query
      <4>1. d # c
        BY <1>5, <2>2
      <4>2. calls[d].pc = "wait" /\ calls'[d].of = calls[d].of
        BY <1>6, <1>7, <2>2, <4>1 DEF Waiters, Is
      <4> QED
        BY <4>2 DEF CallGood
    <3>2. /\ inflight[calls[d].of] # Nobody /\ calls[inflight[calls[d].of]].heard \subseteq calls[d].heard
      BY <3>1 DEF Owners, Is
    <3>3. calls'[d].heard = IF calls[d].of = k THEN calls[d].heard \cup {a} ELSE calls[d].heard
      <4>1. d # c
        BY <1>5, <2>2
      <4> QED
        BY <1>6, <1>7, <3>1, <4>1 DEF Waiters, Is
    <3> QED
      BY <2>1, <3>1, <3>2, <3>3
  <2>3. ASSUME NEW d \in Caller, calls'[d].pc # "idle", calls'[d].of \in Query, calls'[d].pc \in Busy
        PROVE  inflight[calls'[d].of] = d
    <3>1. CASE d = c
      BY <1>1, <1>5, <3>1
    <3>2. CASE d # c
      <4>1. d \notin Waiters(c)
        BY <1>6, <2>3 DEF Busy, Running
      <4> QED
        BY <1>7, <2>3, <3>2, <4>1 DEF Owners, Queries
    <3> QED
      BY <3>1, <3>2
  <2> QED
    BY <1>1, <2>1, <2>2, <2>3 DEF Owners, Is, Queries
<1> QED
  BY <1>1, <1>8, <1>9, <1>10, <1>11 DEF CallTypes

LEMMA FetchStart == FetchInit => FetchInv
<1> SUFFICES ASSUME FetchInit PROVE FetchInv
  OBVIOUS
<1>1. CallTypes
  BY DEF FetchInit, CallTypes
<1>2. \A c \in Caller : calls[c].pc = "idle"
  BY DEF FetchInit, Idle
<1>3. Owners /\ Slots /\ \A c \in Caller : CallGood(c)
  BY <1>2 DEF FetchInit, Owners, Slots, CallGood, Is, Queries, OwnEnd, Busy, Running
<1>4. StoreInv
  <2>1. store = << >> /\ Len(store) = 0 /\ DOMAIN store = {}
    BY DEF FetchInit
  <2> QED
    BY <2>1, FetchAssumption DEF StoreInv
<1> QED
  BY <1>1, <1>3, <1>4 DEF FetchInv, CallInv

LEMMA FetchStep == FetchInv /\ [FetchNext]_fetchVars => FetchInv'
<1> SUFFICES ASSUME FetchInv, [FetchNext]_fetchVars PROVE FetchInv'
  OBVIOUS
<1>1. CallInv /\ StoreInv
  BY DEF FetchInv
<1>2. ASSUME store' = store PROVE StoreInv'
  BY <1>1, <1>2 DEF StoreInv
<1>3. ASSUME calls' = calls, inflight' = inflight, slot' = slot PROVE CallInv'
  <2>1. \A c \in Caller : calls'[c] = calls[c]
    BY <1>3
  <2>2. \A c \in Caller : CallGood(c)'
    BY <1>1, <2>1, SameCall DEF CallInv
  <2> QED
    BY <1>1, <1>3, <2>2 DEF CallInv, CallTypes, Owners, Slots, Is, Queries
<1>4. ASSUME NEW c \in Caller, Work(c) PROVE FetchInv'
  <2>1. CASE Lookup(c)
    BY <1>1, <2>1, LookupKeeps, LookupStore DEF FetchInv
  <2>2. CASE Settle(c)
    BY <1>1, <2>2, SettleKeeps, SettleStore DEF FetchInv
  <2>3. CASE StopWaiting(c)
    BY <1>1, <1>2, <2>3, StopWaitingKeeps DEF FetchInv, StopWaiting
  <2>4. CASE TakeSlot(c)
    BY <1>1, <1>2, <2>4, ProcessKeeps DEF FetchInv, TakeSlot
  <2>5. CASE Rate(c)
    BY <1>1, <1>2, <2>5, ProcessKeeps DEF FetchInv, Rate
  <2>6. CASE Start(c)
    BY <1>1, <1>2, <2>6, ProcessKeeps DEF FetchInv, Start
  <2>7. CASE Answer(c)
    BY <1>1, <1>2, <2>7, AnswerKeeps DEF FetchInv, Answer
  <2>8. CASE Open(c) \/ Transfer(c) \/ Probe(c) \/ Convert(c) \/ Verify(c)
    BY <1>1, <1>2, <2>8, DownloadKeeps DEF FetchInv, Open, Transfer, Probe, Convert, Verify
  <2>9. CASE Return(c)
    BY <1>1, <1>2, <2>9, ReturnKeeps DEF FetchInv, Return
  <2> QED
    BY <1>4, <2>1, <2>2, <2>3, <2>4, <2>5, <2>6, <2>7, <2>8, <2>9 DEF Work
<1>5. ASSUME NEW c \in Caller, GiveUp(c) \/ TimeOut(c) \/ Progress(c) PROVE FetchInv'
  BY <1>1, <1>2, <1>5, EndingKeeps DEF FetchInv, GiveUp, TimeOut, Progress
<1>6. ASSUME NEW c \in Caller, NEW q \in Query \cup Stream, Call(c, q) PROVE FetchInv'
  BY <1>1, <1>2, <1>6, CallOpens DEF FetchInv, Call
<1>7. ASSUME NEW n \in DOMAIN store, Age(n) PROVE FetchInv'
  BY <1>1, <1>3, <1>7, AgeGood DEF FetchInv, Age
<1>8. CASE UNCHANGED fetchVars
  BY <1>2, <1>3, <1>8 DEF FetchInv, fetchVars
<1> QED
  BY <1>4, <1>5, <1>6, <1>7, <1>8 DEF FetchNext

(* Nobody is told of another's end, and what is stored is what was asked   *)
(* for and within the budget.                                              *)
THEOREM EndsAreOwn == FetchSpec => []OwnEnds
<1>1. FetchInv => OwnEnds
  BY DEF FetchInv, CallInv, CallGood, OwnEnds
<1> QED
  BY <1>1, FetchStart, FetchStep, PTL DEF FetchSpec

(* Whoever waits waits for somebody at work, and the slot is at work.      *)
THEOREM NobodyAbandoned == FetchSpec => []OwnersAtWork
<1>1. FetchInv => OwnersAtWork
  BY DEF FetchInv, CallInv, Owners, Slots, StoreInv, OwnersAtWork, Is, Busy, Running
<1> QED
  BY <1>1, FetchStart, FetchStep, PTL DEF FetchSpec

-----------------------------------------------------------------------------
(* Playlists: places and ranks.                                            *)

Positive   == Nat \ {0}
Partial(S) == UNION {[D -> S] : D \in SUBSET Song}
AtOK(a)    == a \in Partial(Positive) /\ \A s, r \in DOMAIN a : a[s] = a[r] => s = r

(* A finite set has a least and a greatest element by any measure.         *)
LEMMA LeastBy ==
  ASSUME NEW S, S # {}, NEW f, \A s \in S : f[s] \in Nat
  PROVE  \E s \in S : \A r \in S : f[s] <= f[r]
<1> DEFINE T == {f[s] : s \in S}
<1>1. T \subseteq Nat /\ T # {}
  OBVIOUS
<1> HIDE DEF T
<1>2. PICK m \in T : \A n \in T : ~(<<n, m>> \in OpToRel(<, Nat))
  BY <1>1, NatLessThanWellFounded, WFMin
<1>3. \A n \in T : ~(n < m)
  BY <1>1, <1>2 DEF OpToRel
<1> USE DEF T
<1>4. PICK s \in S : f[s] = m
  OBVIOUS
<1> QED
  BY <1>3, <1>4

UpFrom(S, f, s) == {r \in S : f[s] <= f[r]}

LEMMA MostBy ==
  ASSUME NEW S, S # {}, IsFiniteSet(S), NEW f, \A s \in S : f[s] \in Nat
  PROVE  \E s \in S : \A r \in S : f[r] <= f[s]
<1>1. \A s \in S : /\ UpFrom(S, f, s) \subseteq S
                   /\ IsFiniteSet(UpFrom(S, f, s)) /\ Cardinality(UpFrom(S, f, s)) \in Nat
  <2> TAKE s \in S
  <2>1. UpFrom(S, f, s) \subseteq S
    BY DEF UpFrom
  <2> QED
    BY <2>1, FS_Subset, FS_CardinalityType
<1>2. PICK g : g = [s \in S |-> Cardinality(UpFrom(S, f, s))]
  OBVIOUS
<1>3. \A s \in S : g[s] \in Nat
  BY <1>1, <1>2
<1>4. PICK s \in S : \A r \in S : g[s] <= g[r]
  BY <1>3, LeastBy
<1>5. ASSUME NEW r \in S, ~(f[r] <= f[s]) PROVE FALSE
  <2>1. f[s] < f[r] /\ f[s] \in Nat /\ f[r] \in Nat
    BY <1>5
  <2>2. UpFrom(S, f, r) \subseteq UpFrom(S, f, s) /\ s \in UpFrom(S, f, s) /\ s \notin UpFrom(S, f, r)
    BY <2>1 DEF UpFrom
  <2>3. /\ Cardinality(UpFrom(S, f, r)) <= Cardinality(UpFrom(S, f, s))
        /\ Cardinality(UpFrom(S, f, s)) = Cardinality(UpFrom(S, f, r)) => UpFrom(S, f, s) = UpFrom(S, f, r)
    BY <1>1, <2>2, FS_Subset
  <2> QED
    BY <1>1, <1>2, <1>4, <2>2, <2>3
<1> QED
  BY <1>4, <1>5

(* The ranks of distinct places are no higher than the places, and rise    *)
(* with them; where a rank is a place, all places up to it are taken.      *)
Under(v, s) == {r \in DOMAIN v : v[r] <= v[s]}

LEMMA RankSet ==
  ASSUME NEW v, AtOK(v), NEW s \in DOMAIN v
  PROVE  /\ Rank(v, s) = Cardinality(Under(v, s)) /\ IsFiniteSet(Under(v, s))
         /\ Rank(v, s) \in Nat /\ Rank(v, s) >= 1 /\ Rank(v, s) <= v[s] /\ v[s] \in Positive
         /\ \A r \in DOMAIN v : v[r] \in Positive
         /\ [r \in Under(v, s) |-> v[r]] \in Injection(Under(v, s), 1..v[s])
         /\ Cardinality(1..v[s]) = v[s]
<1>1. DOMAIN v \subseteq Song /\ \A r \in DOMAIN v : v[r] \in Positive
  BY DEF AtOK, Partial
<1>2. IsFiniteSet(Under(v, s)) /\ Cardinality(Under(v, s)) \in Nat /\ s \in Under(v, s)
  <2>1. Under(v, s) \in SUBSET Song
    BY <1>1 DEF Under
  <2>2. s \in Under(v, s)
    BY <1>1 DEF Under, Positive
  <2> QED
    BY <2>1, <2>2, PlaylistAssumption, FS_Subset, FS_CardinalityType
<1>3. Cardinality(Under(v, s)) # 0
  BY <1>2, FS_EmptySet
<1>4. PICK f : f = [r \in Under(v, s) |-> v[r]]
  OBVIOUS
<1>5. f \in Injection(Under(v, s), 1..v[s])
  <2>1. f \in [Under(v, s) -> 1..v[s]]
    BY <1>1, <1>4 DEF Under, Positive
  <2>2. \A p, q \in Under(v, s) : f[p] = f[q] => p = q
    BY <1>4 DEF Under, AtOK
  <2> QED
    BY <2>1, <2>2 DEF Injection, IsInjective
<1>6. IsFiniteSet(1..v[s]) /\ Cardinality(1..v[s]) = v[s]
  BY <1>1, FS_Interval DEF Positive
<1>7. Cardinality(Under(v, s)) <= Cardinality(1..v[s])
  BY <1>5, <1>6, FS_Injection
<1> QED
  BY <1>1, <1>2, <1>3, <1>4, <1>5, <1>6, <1>7 DEF Rank, Under

LEMMA RanksRise ==
  ASSUME NEW v, AtOK(v), NEW s \in DOMAIN v, NEW r \in DOMAIN v, v[s] < v[r]
  PROVE  Rank(v, s) < Rank(v, r)
<1>1. v[s] \in Nat /\ v[r] \in Nat /\ \A q \in DOMAIN v : v[q] \in Nat
  BY RankSet DEF Positive
<1>2. Under(v, s) \subseteq Under(v, r) /\ r \in Under(v, r) /\ r \notin Under(v, s)
  BY <1>1 DEF Under
<1>3. /\ Cardinality(Under(v, s)) <= Cardinality(Under(v, r))
      /\ Cardinality(Under(v, r)) = Cardinality(Under(v, s)) => Under(v, r) = Under(v, s)
  BY <1>2, RankSet, FS_Subset
<1>4. /\ Rank(v, s) = Cardinality(Under(v, s)) /\ Rank(v, s) \in Nat
      /\ Rank(v, r) = Cardinality(Under(v, r)) /\ Rank(v, r) \in Nat
  BY RankSet
<1> QED
  BY <1>2, <1>3, <1>4

LEMMA RanksFull ==
  ASSUME NEW v, AtOK(v), NEW r \in DOMAIN v, Rank(v, r) = v[r]
  PROVE  /\ \A n \in 1..v[r] : \E q \in DOMAIN v : v[q] = n
         /\ \A s \in DOMAIN v : v[s] < v[r] => Rank(v, s) = v[s]
<1>1. PICK f : f = [q \in Under(v, r) |-> v[q]]
  OBVIOUS
<1>2. f \in Surjection(Under(v, r), 1..v[r])
  <2>1. f \in Injection(Under(v, r), 1..v[r]) /\ IsFiniteSet(1..v[r])
    BY <1>1, RankSet, FS_Interval DEF Positive
  <2>2. Cardinality(Under(v, r)) = Cardinality(1..v[r])
    BY RankSet
  <2> QED
    BY <2>1, <2>2, FS_Injection
<1>3. \A n \in 1..v[r] : \E q \in Under(v, r) : v[q] = n
  BY <1>1, <1>2 DEF Surjection
<1>4. \A n \in 1..v[r] : \E q \in DOMAIN v : v[q] = n
  BY <1>3 DEF Under
<1>5. ASSUME NEW s \in DOMAIN v, v[s] < v[r] PROVE Rank(v, s) = v[s]
  <2>0. v[s] \in Nat /\ v[r] \in Nat
    BY RankSet DEF Positive
  <2>1. PICK g : g = [q \in Under(v, s) |-> v[q]]
    OBVIOUS
  <2>2. g \in Injection(Under(v, s), 1..v[s])
    BY <2>1, RankSet
  <2>3. \A n \in 1..v[s] : \E q \in Under(v, s) : g[q] = n
    BY <1>4, <1>5, <2>0, <2>1 DEF Under
  <2>4. g \in Surjection(Under(v, s), 1..v[s])
    BY <2>2, <2>3 DEF Injection, Surjection
  <2>5. Cardinality(Under(v, s)) = Cardinality(1..v[s])
    BY <2>0, <2>2, <2>4, FS_Injection, FS_Interval
  <2> QED
    BY <2>5, RankSet
<1> QED
  BY <1>4, <1>5

(* The last place is one that is taken, or none.                           *)
LEMMA LastPlace ==
  ASSUME NEW v, IsFiniteSet(DOMAIN v), \A s \in DOMAIN v : v[s] \in Nat
  PROVE  Last(v) \in Nat /\ \A s \in DOMAIN v : v[s] <= Last(v)
<1> DEFINE P == {0} \cup {v[s] : s \in DOMAIN v}
<1>1. \E n \in P : \A s \in DOMAIN v : v[s] <= n
  <2>1. CASE DOMAIN v = {}
    BY <2>1
  <2>2. CASE DOMAIN v # {}
    <3>1. PICK m \in DOMAIN v : \A s \in DOMAIN v : v[s] <= v[m]
      BY <2>2, MostBy
    <3> QED
      BY <3>1
  <2> QED
    BY <2>1, <2>2
<1>2. Last(v) \in P /\ \A s \in DOMAIN v : v[s] <= Last(v)
  BY <1>1 DEF Last
<1>3. P \subseteq Nat
  OBVIOUS
<1> QED
  BY <1>2, <1>3

-----------------------------------------------------------------------------
(* Transactions.  What can be said of one of them is said of its record t, *)
(* the places a and the list l.                                            *)

Deleting == {"remove", "drop", "trash"}
TxKinds  == {"none", "add", "bulk", "reorder", "restore"} \cup Deleting
TxSteps  == {"idle", "lock", "own", "cut", "number", "apply", "insert", "match", "set",
             "shift", "commit"}
StepsOf(k) ==
  {"idle", "lock"} \cup
  (IF k = "add" THEN {"number", "apply", "insert", "commit"}
   ELSE IF k = "bulk" THEN {"insert", "commit"}
   ELSE IF k = "reorder" THEN {"match", "set", "commit"}
   ELSE IF k = "restore" THEN {"shift", "apply", "insert", "commit"}
   ELSE IF k = "none" THEN {}
   ELSE {"cut", "number", "apply", "commit"} \cup (IF k = "trash" THEN {"own"} ELSE {}))

Entries ==
  {NotIn} \cup {e \in [in : {TRUE}, place : Positive, next : SUBSET Song, previous : SUBSET Song,
                       order : Partial(Positive)] : e.next \cup e.previous \subseteq DOMAIN e.order}
TxRows  == [kind : TxKinds, pc : TxSteps, args : Seq(Song), plan : Partial(Positive),
            mine : Partial(Nat), place : Nat, entry : Entries, read : {"fresh", "stale", "wrong"}]

(* A deletion has marked its own track and writes only rows that stay until *)
(* it ends; only insertions write rows that are not there.                 *)
Shape(t, a) ==
  /\ t.pc \in StepsOf(t.kind)
  /\ t.pc # "idle" => t.args # << >>
  /\ t.pc # "apply" => DOMAIN t.plan = {}
  /\ t.pc \in {"idle", "lock", "own", "cut", "match", "shift"} => DOMAIN t.mine = {}
  /\ DOMAIN t.plan \cap DOMAIN t.mine = {}
  /\ t.read = "stale" => t.kind \in Deleting
  /\ t.kind \in Deleting =>
       /\ DOMAIN t.mine \subseteq DOMAIN a
       /\ (DOMAIN t.mine # {} \/ t.pc \in {"number", "apply"}) => \E s \in DOMAIN t.mine : t.mine[s] = Out
       /\ t.pc = "number" => \A s \in DOMAIN t.mine : t.mine[s] = Out
  /\ t.kind \notin Deleting => \A s \in DOMAIN t.mine : t.mine[s] # Out
  /\ t.kind = "add" /\ t.pc = "number" => DOMAIN t.mine = {}
  /\ t.kind = "bulk" => DOMAIN t.mine \cap DOMAIN a = {}
  /\ t.kind = "restore" /\ t.pc \in {"shift", "apply", "insert"} => t.place >= 1
  /\ t.kind = "reorder" =>
       /\ DOMAIN t.mine \subseteq DOMAIN a
       /\ t.pc = "set" => t.place >= 1
                          /\ DOMAIN a \subseteq DOMAIN t.mine \cup {t.args[n] : n \in DOMAIN t.args}
       /\ t.pc = "commit" => DOMAIN a \subseteq DOMAIN t.mine

(* The places that t has written or will write, and the tracks it touches. *)
Touched(t) == DOMAIN t.plan \cup DOMAIN t.mine
New(t, s)  == IF s \in DOMAIN t.plan THEN t.plan[s] ELSE t.mine[s]

(* They keep the order: among themselves, with the tracks left alone before *)
(* them, and, if nothing was overtaken, with those that came later.        *)
Below(t, a, r, s) == a[r] < a[s] /\ (New(t, s) # Out => a[r] < New(t, s))
Above(t, a, r, s) == a[r] > a[s] /\ a[r] > New(t, s)
AmongThem(t, a) ==
  \A s, r \in Touched(t) \cap DOMAIN a :
    New(t, s) # Out /\ New(t, r) # Out /\ a[s] < a[r] => New(t, s) < New(t, r)
WithOthers(t, a) ==
  \A r \in DOMAIN a \ Touched(t), s \in Touched(t) \cap DOMAIN a :
    Below(t, a, r, s) \/ (Above(t, a, r, s) /\ t.read = "fresh" /\ t.pc # "apply")

(* A fresh renumbering moves tracks to the front only; a restore moves those *)
(* from its place on by one; what is inserted by hand comes last.          *)
Lowers(t, a) ==
  t.read = "fresh" /\ t.kind # "restore" => \A s \in Touched(t) \cap DOMAIN a : New(t, s) <= a[s]
Raises(t, a) ==
  t.kind = "restore" /\ (t.pc # "commit" \/ DOMAIN t.mine # {}) =>
    /\ \A r \in DOMAIN a \ Touched(t) : a[r] < t.place
    /\ \A s \in Touched(t) \cap DOMAIN a : a[s] >= t.place /\ New(t, s) = a[s] + 1
    /\ \A s \in DOMAIN t.mine \ DOMAIN a : t.mine[s] = t.place
Seen(t, a, r) == IF r \in DOMAIN t.mine THEN t.mine[r] ELSE a[r]
AddsLast(t, a) ==
  t.kind \in {"add", "bulk"} =>
    \A s \in DOMAIN t.mine \ DOMAIN a, r \in DOMAIN a : Seen(t, a, r) < t.mine[s]

InHand(t)  == t.pc \in {"apply", "insert", "commit"} /\ t.read # "wrong" /\ t.kind # "reorder"
Orderly(t, a) ==
  InHand(t) => AmongThem(t, a) /\ WithOthers(t, a) /\ Lowers(t, a) /\ Raises(t, a) /\ AddsLast(t, a)

ByHand(t, l)  == t.kind \in {"add", "bulk"} /\ t.pc \notin {"idle", "lock"} => l = "manual"

(* The lock of the list and those of the rows exclude each other.          *)
HasList(t)    == t.kind \in {"add", "bulk", "remove", "reorder", "restore"} /\ t.pc \notin {"idle", "lock"}
Apart(t, u, a) ==
  /\ ~(HasList(t) /\ HasList(u))
  /\ \A s \in DOMAIN a : ~(s \in DOMAIN t.mine /\ s \in DOMAIN u.mine)

Single(t, a, l) == t \in TxRows /\ Shape(t, a) /\ Orderly(t, a) /\ ByHand(t, l)
PlaylistInv ==
  /\ AtOK(at) /\ bin \in Partial(Entries)
  /\ tx = [x \in Tx |-> tx[x]]
  /\ \A x \in Tx : Single(tx[x], at, list)
  /\ \A x, y \in Tx : x # y => Apart(tx[x], tx[y], at)

-----------------------------------------------------------------------------
(* Steps of one transaction that leave the tables alone.                   *)

LEMMA Beside ==
  ASSUME PlaylistInv, NEW x \in Tx, NEW t, tx' = [tx EXCEPT ![x] = t],
         at' = at, list' = list, bin' \in Partial(Entries),
         Single(t, at, list), \A y \in Tx \ {x} : Apart(t, tx[y], at)
  PROVE  PlaylistInv'
<1>1. at' = at /\ list' = list /\ bin' \in Partial(Entries)
  OBVIOUS
<1>2. tx' = [y \in Tx |-> tx'[y]] /\ tx'[x] = t /\ \A y \in Tx \ {x} : tx'[y] = tx[y]
  BY DEF PlaylistInv
<1>3. \A y \in Tx : Single(tx'[y], at', list')
  BY <1>1, <1>2 DEF PlaylistInv
<1>4. ASSUME NEW y \in Tx, NEW z \in Tx, y # z PROVE Apart(tx'[y], tx'[z], at')
  <2>1. CASE y = x
    BY <1>1, <1>2, <1>4, <2>1
  <2>2. CASE z = x
    <3>1. Apart(t, tx[y], at)
      BY <1>4, <2>2
    <3> QED
      BY <1>1, <1>2, <1>4, <2>2, <3>1 DEF Apart
  <2>3. CASE y # x /\ z # x
    BY <1>1, <1>2, <1>4, <2>3 DEF PlaylistInv
  <2> QED
    BY <2>1, <2>2, <2>3
<1> QED
  BY <1>1, <1>2, <1>3, <1>4 DEF PlaylistInv

LEMMA Alone ==
  ASSUME PlaylistInv, NEW x \in Tx, NEW t, tx' = [tx EXCEPT ![x] = t], UNCHANGED Tables,
         Single(t, at, list), \A y \in Tx \ {x} : Apart(t, tx[y], at)
  PROVE  PlaylistInv'
<1>1. at' = at /\ list' = list /\ bin' \in Partial(Entries)
  BY DEF Tables, PlaylistInv
<1> QED
  BY <1>1, Beside

(* Who takes no lock that he does not have keeps apart from the others.    *)
LEMMA StaysApart ==
  ASSUME PlaylistInv, NEW x \in Tx, NEW t, HasList(t) => HasList(tx[x]),
         DOMAIN t.mine \cap DOMAIN at \subseteq DOMAIN tx[x].mine
  PROVE  \A y \in Tx \ {x} : Apart(t, tx[y], at)
BY DEF PlaylistInv, Apart

LEMMA NoTxGood == \A a, l : Single(NoTx, a, l) /\ ~HasList(NoTx) /\ DOMAIN NoTx.mine = {}
<1>1. NoTx \in TxRows
  <2>1. [s \in {} |-> 0] \in Partial(Positive) /\ [s \in {} |-> 0] \in Partial(Nat)
    BY DEF Partial
  <2>2. NotIn \in Entries /\ << >> \in Seq(Song)
    BY DEF Entries
  <2> QED
    BY <2>1, <2>2 DEF NoTx, TxRows, TxKinds, TxSteps
<1> QED
  BY <1>1 DEF NoTx, Single, Shape, StepsOf, Orderly, InHand, ByHand, HasList, Deleting

LEMMA RollbackKeeps ==
  ASSUME PlaylistInv, NEW x \in Tx, Rollback(x), UNCHANGED Tables
  PROVE  PlaylistInv'
<1>1. Single(NoTx, at, list) /\ ~HasList(NoTx) /\ DOMAIN NoTx.mine = {}
  BY NoTxGood
<1>2. \A y \in Tx \ {x} : Apart(NoTx, tx[y], at)
  BY <1>1, StaysApart
<1> QED
  BY <1>1, <1>2, Alone DEF Rollback

LEMMA BeginKeeps ==
  ASSUME PlaylistInv, NEW x \in Tx, NEW k \in TxKinds \ {"none"}, NEW q \in Seq(Song), q # << >>, Begin(x, k, q)
  PROVE  PlaylistInv'
<1>1. PICK t : t = [NoTx EXCEPT !.kind = k, !.args = q, !.pc = "lock"]
  OBVIOUS
<1>2. /\ t.kind = k /\ t.args = q /\ t.pc = "lock" /\ t.plan = NoTx.plan /\ t.mine = NoTx.mine
      /\ t.place = 0 /\ t.entry = NotIn /\ t.read = "fresh"
  BY <1>1 DEF NoTx
<1>3. t \in TxRows
  BY <1>1, NoTxGood DEF Single, TxRows, TxSteps, NoTx
<1>4. Single(t, at, list) /\ ~HasList(t) /\ DOMAIN t.mine = {}
  BY <1>2, <1>3 DEF Single, Shape, StepsOf, Orderly, InHand, ByHand, HasList, Deleting, NoTx
<1>5. \A y \in Tx \ {x} : Apart(t, tx[y], at)
  BY <1>4, StaysApart
<1>6. tx' = [tx EXCEPT ![x] = t] /\ UNCHANGED Tables
  BY <1>1 DEF Begin
<1> QED
  BY <1>4, <1>5, <1>6, Alone

LEMMA TxFacts ==
  ASSUME PlaylistInv, NEW x \in Tx
  PROVE  /\ tx[x] \in TxRows /\ Shape(tx[x], at) /\ Orderly(tx[x], at) /\ ByHand(tx[x], list)
         /\ tx[x].kind \in TxKinds /\ tx[x].pc \in TxSteps /\ tx[x].args \in Seq(Song)
         /\ tx[x].plan \in Partial(Positive) /\ tx[x].mine \in Partial(Nat) /\ tx[x].place \in Nat
         /\ tx[x].entry \in Entries /\ tx[x].read \in {"fresh", "stale", "wrong"}
         /\ tx[x].pc # "idle" => Subject(x) \in Song
<1>1. Single(tx[x], at, list)
  BY DEF PlaylistInv
<1>2. tx[x].args \in Seq(Song) /\ (tx[x].pc # "idle" => tx[x].args # << >>)
  BY <1>1 DEF Single, TxRows, Shape
<1>3. tx[x].pc # "idle" => Subject(x) \in Song
  BY <1>2 DEF Subject
<1> QED
  BY <1>1, <1>2, <1>3 DEF Single, TxRows

LEMMA Domains ==
  \A S, f : f \in Partial(S) => /\ DOMAIN f \subseteq Song /\ f = [s \in DOMAIN f |-> f[s]]
                                /\ \A s \in DOMAIN f : f[s] \in S
BY DEF Partial

LEMMA IntoPartial ==
  ASSUME NEW S, NEW f, f = [s \in DOMAIN f |-> f[s]], DOMAIN f \subseteq Song,
         \A s \in DOMAIN f : f[s] \in S
  PROVE  f \in Partial(S)
BY DEF Partial

LEMMA PutNat ==
  ASSUME NEW f \in Partial(Nat), NEW s \in Song, NEW v \in Nat
  PROVE  /\ Put(f, s, v) \in Partial(Nat) /\ DOMAIN Put(f, s, v) = DOMAIN f \cup {s}
         /\ Put(f, s, v)[s] = v /\ \A r \in DOMAIN f \ {s} : Put(f, s, v)[r] = f[r]
<1>1. /\ DOMAIN Put(f, s, v) = DOMAIN f \cup {s}
      /\ Put(f, s, v) = [r \in DOMAIN Put(f, s, v) |-> Put(f, s, v)[r]]
      /\ Put(f, s, v)[s] = v /\ \A r \in DOMAIN f \ {s} : Put(f, s, v)[r] = f[r]
  BY DEF Put
<1>2. DOMAIN f \subseteq Song /\ \A r \in DOMAIN f : f[r] \in Nat
  BY Domains
<1>3. Put(f, s, v) \in Partial(Nat)
  BY <1>1, <1>2, IntoPartial
<1> QED
  BY <1>1, <1>3

LEMMA WithoutIs ==
  ASSUME NEW S, NEW f \in Partial(S), NEW s
  PROVE  /\ Without(f, s) \in Partial(S) /\ DOMAIN Without(f, s) = DOMAIN f \ {s}
         /\ \A r \in DOMAIN f \ {s} : Without(f, s)[r] = f[r]
<1>1. /\ DOMAIN Without(f, s) = DOMAIN f \ {s}
      /\ Without(f, s) = [r \in DOMAIN Without(f, s) |-> Without(f, s)[r]]
      /\ \A r \in DOMAIN f \ {s} : Without(f, s)[r] = f[r]
  BY DEF Without
<1>2. DOMAIN f \subseteq Song /\ \A r \in DOMAIN f : f[r] \in S
  BY Domains
<1>3. Without(f, s) \in Partial(S)
  BY <1>1, <1>2, IntoPartial
<1> QED
  BY <1>1, <1>3

(* The lock of the list is had by one only.                                *)
LEMMA ListIsFree ==
  ASSUME PlaylistInv, NEW x \in Tx, Free(x), tx[x].pc = "lock", tx[x].kind \notin {"drop", "trash"}
  PROVE  \A y \in Tx \ {x} : ~HasList(tx[y])
<1> SUFFICES ASSUME NEW y \in Tx \ {x}, HasList(tx[y]) PROVE FALSE
  OBVIOUS
<1>1. ~HoldsList(y)
  BY DEF Free, Blocks
<1>2. tx[y].pc \in StepsOf(tx[y].kind)
  BY TxFacts DEF Shape
<1> QED
  BY <1>1, <1>2 DEF HasList, HoldsList, StepsOf

(* A step that moves on and has touched nothing yet.                       *)
LEMMA Enters ==
  ASSUME PlaylistInv, NEW x \in Tx, NEW t \in TxRows,
         t.kind = tx[x].kind, t.args = tx[x].args, t.plan = tx[x].plan, t.mine = tx[x].mine, t.read = tx[x].read,
         tx' = [tx EXCEPT ![x] = t], UNCHANGED Tables,
         tx[x].pc \in {"lock", "own", "cut", "match", "shift"},
         t.pc \in StepsOf(t.kind) \ {"idle", "lock", "apply"},
         t.pc = "number" => t.kind = "add",
         t.pc = "insert" => t.kind = "bulk",
         t.pc = "shift" => t.place >= 1,
         t.kind = "reorder" => t.pc = "match" \/
           (t.pc = "set" /\ t.place >= 1 /\ DOMAIN at \subseteq {t.args[i] : i \in DOMAIN t.args}),
         t.kind \in {"add", "bulk"} => list = "manual",
         HasList(t) => HasList(tx[x]) \/ \A y \in Tx \ {x} : ~HasList(tx[y])
  PROVE  PlaylistInv'
<1>0. /\ tx[x] \in TxRows /\ Shape(tx[x], at) /\ tx[x].pc # "idle"
      /\ tx[x].kind # "none"
  BY TxFacts DEF Shape, StepsOf
<1>3. DOMAIN t.mine = {} /\ DOMAIN t.plan = {}
  BY <1>0 DEF Shape
<1>4. Shape(t, at)
  <2>1. t.args # << >> /\ (t.read = "stale" => t.kind \in Deleting)
    BY <1>0 DEF Shape
  <2>2. t.pc # "number" \/ t.kind \notin Deleting
    BY DEF Deleting
  <2>3. ~(t.kind = "restore" /\ t.pc \in {"apply", "insert"}) /\ ~(t.kind = "reorder" /\ t.pc = "commit")
    OBVIOUS
  <2> QED
    BY <1>3, <2>1, <2>2, <2>3 DEF Shape
<1>5. Orderly(t, at)
  <2>1. Touched(t) = {}
    BY <1>3 DEF Touched
  <2>2. AmongThem(t, at) /\ WithOthers(t, at) /\ Lowers(t, at)
    BY <2>1 DEF AmongThem, WithOthers, Lowers
  <2>3. AddsLast(t, at)
    BY <1>3 DEF AddsLast
  <2>4. InHand(t) => Raises(t, at)
    BY <1>3 DEF InHand, Raises
  <2> QED
    BY <2>2, <2>3, <2>4 DEF Orderly
<1>6. ByHand(t, list)
  BY DEF ByHand
<1>7. \A y \in Tx \ {x} : Apart(t, tx[y], at)
  BY <1>3 DEF PlaylistInv, Apart
<1> QED
  BY <1>4, <1>5, <1>6, <1>7, Alone DEF Single

LEMMA GotoIs ==
  ASSUME PlaylistInv, NEW x \in Tx, NEW p \in TxSteps, Goto(x, p)
  PROVE  \E t \in TxRows :
           /\ tx' = [tx EXCEPT ![x] = t] /\ t.pc = p
           /\ t.kind = tx[x].kind /\ t.args = tx[x].args /\ t.plan = tx[x].plan /\ t.mine = tx[x].mine
           /\ t.place = tx[x].place /\ t.read = tx[x].read /\ t.entry = tx[x].entry
<1>1. PICK t : t = [tx[x] EXCEPT !.pc = p]
  OBVIOUS
<1>2. tx' = [tx EXCEPT ![x] = t]
  BY <1>1 DEF Goto
<1>3. tx[x] \in TxRows
  BY TxFacts
<1>4. /\ t \in TxRows /\ t.pc = p
      /\ t.kind = tx[x].kind /\ t.args = tx[x].args /\ t.plan = tx[x].plan /\ t.mine = tx[x].mine
      /\ t.place = tx[x].place /\ t.read = tx[x].read /\ t.entry = tx[x].entry
  BY <1>1, <1>3 DEF TxRows
<1> QED
  BY <1>2, <1>4

LEMMA LockListKeeps ==
  ASSUME PlaylistInv, NEW x \in Tx, LockList(x)
  PROVE  PlaylistInv'
<1>0. UNCHANGED Tables
  BY DEF LockList
<1>1. CASE Rollback(x)
  BY <1>0, <1>1, RollbackKeeps
<1>2. ASSUME NEW p, Goto(x, p), list = "manual",
             p = IF tx[x].kind = "add" THEN "number" ELSE IF tx[x].kind = "bulk" THEN "insert"
                 ELSE IF tx[x].kind = "remove" THEN "cut" ELSE "match"
      PROVE PlaylistInv'
  <2>1. tx[x].kind \in {"add", "bulk", "remove", "reorder"} /\ tx[x].pc = "lock" /\ Free(x)
    BY DEF LockList
  <2>2. p \in TxSteps /\ p \in StepsOf(tx[x].kind) \ {"idle", "lock", "apply"}
        /\ (p = "number" => tx[x].kind = "add") /\ (p = "insert" => tx[x].kind = "bulk") /\ p # "shift"
        /\ (tx[x].kind = "reorder" => p = "match")
    BY <1>2, <2>1 DEF TxSteps, StepsOf
  <2>3. PICK t \in TxRows :
           /\ tx' = [tx EXCEPT ![x] = t] /\ t.pc = p
           /\ t.kind = tx[x].kind /\ t.args = tx[x].args /\ t.plan = tx[x].plan /\ t.mine = tx[x].mine
           /\ t.place = tx[x].place /\ t.read = tx[x].read /\ t.entry = tx[x].entry
    BY <1>2, <2>2, GotoIs
  <2>4. \A y \in Tx \ {x} : ~HasList(tx[y])
    BY <2>1, ListIsFree
  <2> QED
    BY <1>0, <1>2, <2>1, <2>2, <2>3, <2>4, Enters
<1>3. PICK p : p = IF tx[x].kind = "add" THEN "number" ELSE IF tx[x].kind = "bulk" THEN "insert"
                   ELSE IF tx[x].kind = "remove" THEN "cut" ELSE "match"
  OBVIOUS
<1>4. Rollback(x) \/ (Goto(x, p) /\ list = "manual")
  <2>1. CASE tx[x].kind = "add"
    BY <1>3, <2>1 DEF LockList
  <2>2. CASE tx[x].kind = "bulk"
    BY <1>3, <2>2 DEF LockList
  <2>3. CASE tx[x].kind = "remove"
    BY <1>3, <2>3 DEF LockList
  <2>4. CASE tx[x].kind = "reorder"
    BY <1>3, <2>4 DEF LockList
  <2> QED
    BY <2>1, <2>2, <2>3, <2>4 DEF LockList
<1> QED
  BY <1>1, <1>2, <1>3, <1>4

LEMMA LockSongKeeps ==
  ASSUME PlaylistInv, NEW x \in Tx, LockSong(x)
  PROVE  PlaylistInv'
<1>0. UNCHANGED Tables
  BY DEF LockSong
<1>1. CASE Rollback(x)
  BY <1>0, <1>1, RollbackKeeps
<1>2. ASSUME NEW p, Goto(x, p), p = IF tx[x].kind = "drop" THEN "cut" ELSE "own"
      PROVE PlaylistInv'
  <2>1. tx[x].kind \in {"drop", "trash"} /\ tx[x].pc = "lock"
    BY DEF LockSong
  <2>2. p \in TxSteps /\ p \in StepsOf(tx[x].kind) \ {"idle", "lock", "apply"}
        /\ p \notin {"number", "insert", "shift"}
    BY <1>2, <2>1 DEF TxSteps, StepsOf
  <2>3. PICK t \in TxRows :
           /\ tx' = [tx EXCEPT ![x] = t] /\ t.pc = p
           /\ t.kind = tx[x].kind /\ t.args = tx[x].args /\ t.plan = tx[x].plan /\ t.mine = tx[x].mine
           /\ t.place = tx[x].place /\ t.read = tx[x].read /\ t.entry = tx[x].entry
    BY <1>2, <2>2, GotoIs
  <2>4. ~HasList(t)
    BY <2>1, <2>3 DEF HasList
  <2> QED
    BY <1>0, <2>1, <2>2, <2>3, <2>4, Enters
<1> QED
  BY <1>1, <1>2 DEF LockSong

LEMMA NeighboursIs ==
  ASSUME AtOK(at), NEW s
  PROVE  Neighbours(s) \in Entries
<1>1. at \in Partial(Positive) /\ DOMAIN at \subseteq Song /\ \A r \in DOMAIN at : at[r] \in Positive
  BY Domains DEF AtOK
<1>2. CASE s \notin DOMAIN at
  BY <1>2 DEF Neighbours, Members, Entries
<1>3. CASE s \in DOMAIN at
  <2>1. PICK e : e = Neighbours(s)
    OBVIOUS
  <2>2. e = [in |-> TRUE, place |-> at[s], next |-> Following(s), previous |-> Preceding(s), order |-> at]
    BY <1>3, <2>1 DEF Neighbours, Members
  <2>3. Following(s) \subseteq DOMAIN at /\ Preceding(s) \subseteq DOMAIN at
    BY DEF Following, Preceding, Members
  <2>4. e \in [in : {TRUE}, place : Positive, next : SUBSET Song, previous : SUBSET Song, order : Partial(Positive)]
        /\ e.next \cup e.previous \subseteq DOMAIN e.order
    BY <1>1, <1>3, <2>2, <2>3
  <2> QED
    BY <2>1, <2>4 DEF Entries
<1> QED
  BY <1>2, <1>3

LEMMA LockOwnKeeps ==
  ASSUME PlaylistInv, NEW x \in Tx, LockOwn(x)
  PROVE  PlaylistInv'
<1>0. UNCHANGED Tables /\ tx[x].pc = "own"
  BY DEF LockOwn
<1>1. tx[x] \in TxRows /\ Shape(tx[x], at)
  BY TxFacts
<1>2. PICK e : e = Neighbours(Subject(x))
  OBVIOUS
<1>3. e \in Entries
  BY <1>2, NeighboursIs DEF PlaylistInv
<1>4. PICK t : t = [tx[x] EXCEPT !.entry = e, !.pc = "cut"]
  OBVIOUS
<1>5. tx' = [tx EXCEPT ![x] = t]
  BY <1>2, <1>4 DEF LockOwn
<1>6. /\ t \in TxRows /\ t.pc = "cut" /\ t.kind = tx[x].kind /\ t.args = tx[x].args
      /\ t.plan = tx[x].plan /\ t.mine = tx[x].mine /\ t.read = tx[x].read
  BY <1>1, <1>3, <1>4 DEF TxRows, TxSteps
<1>7. tx[x].kind = "trash"
  BY <1>0, <1>1 DEF Shape, StepsOf
<1>8. ~HasList(t) /\ t.pc \in StepsOf(t.kind) \ {"idle", "lock", "apply"}
  BY <1>6, <1>7 DEF HasList, StepsOf
<1> QED
  BY <1>0, <1>5, <1>6, <1>7, <1>8, Enters

LEMMA MatchKeeps ==
  ASSUME PlaylistInv, NEW x \in Tx, Match(x)
  PROVE  PlaylistInv'
<1>0. UNCHANGED Tables /\ tx[x].pc = "match"
  BY DEF Match
<1>1. tx[x] \in TxRows /\ Shape(tx[x], at)
  BY TxFacts
<1>2. CASE Rollback(x)
  BY <1>0, <1>2, RollbackKeeps
<1>3. CASE Members = {tx[x].args[n] : n \in DOMAIN tx[x].args}
           /\ tx' = [tx EXCEPT ![x].pc = "set", ![x].place = 1]
  <2>1. PICK t : t = [tx[x] EXCEPT !.pc = "set", !.place = 1]
    OBVIOUS
  <2>2. tx' = [tx EXCEPT ![x] = t]
    BY <1>3, <2>1
  <2>3. /\ t \in TxRows /\ t.pc = "set" /\ t.kind = tx[x].kind /\ t.args = tx[x].args
        /\ t.plan = tx[x].plan /\ t.mine = tx[x].mine /\ t.read = tx[x].read /\ t.place = 1
    BY <1>1, <2>1 DEF TxRows, TxSteps
  <2>4. tx[x].kind = "reorder"
    BY <1>0, <1>1 DEF Shape, StepsOf
  <2>5. HasList(tx[x]) /\ t.pc \in StepsOf(t.kind) \ {"idle", "lock", "apply"}
    BY <1>0, <2>3, <2>4 DEF HasList, StepsOf
  <2>6. DOMAIN at \subseteq {t.args[i] : i \in DOMAIN t.args}
    BY <1>3, <2>3 DEF Members
  <2>7. t.place >= 1
    BY <2>3
  <2> QED
    BY <1>0, <2>2, <2>3, <2>4, <2>5, <2>6, <2>7, Enters
<1> QED
  BY <1>2, <1>3 DEF Match

LEMMA AnchorIs ==
  ASSUME AtOK(at), NEW e \in Entries, e.in
  PROVE  Anchor(at, e) \in Positive
<1>1. /\ e.place \in Positive /\ e.next \subseteq DOMAIN e.order /\ e.previous \subseteq DOMAIN e.order
      /\ e.order \in Partial(Positive)
  <2>1. NotIn.in = FALSE
    BY DEF NotIn
  <2>2. e \in [in : {TRUE}, place : Positive, next : SUBSET Song, previous : SUBSET Song, order : Partial(Positive)]
        /\ e.next \cup e.previous \subseteq DOMAIN e.order
    BY <2>1 DEF Entries
  <2> QED
    BY <2>2
<1>2. \A r \in DOMAIN e.order : e.order[r] \in Nat
  BY <1>1, Domains DEF Positive
<1>3. DOMAIN at \subseteq Song /\ \A r \in DOMAIN at : at[r] \in Positive
  BY Domains DEF AtOK
<1> DEFINE next == e.next \cap DOMAIN at
           prev == e.previous \cap DOMAIN at
           back == CHOOSE r \in prev : \A q \in prev : e.order[r] >= e.order[q]
<1>4. CASE next # {}
  <2>1. \E s \in next : \A r \in next : e.order[s] <= e.order[r]
    <3>1. \A s \in next : e.order[s] \in Nat
      BY <1>1, <1>2
    <3>2. PICK f : f = e.order
      OBVIOUS
    <3>3. \E s \in next : \A r \in next : f[s] <= f[r]
      BY <1>4, <3>1, <3>2, LeastBy
    <3> QED
      BY <3>2, <3>3
  <2>2. Nearest(next, e) \in next
    BY <2>1 DEF Nearest
  <2>3. Anchor(at, e) = at[Nearest(next, e)]
    BY <1>4 DEF Anchor
  <2> QED
    BY <1>3, <2>2, <2>3
<1>5. CASE next = {} /\ prev # {}
  <2>1. \E s \in prev : \A r \in prev : e.order[r] <= e.order[s]
    <3>1. \A s \in prev : e.order[s] \in Nat
      BY <1>1, <1>2
    <3>2. IsFiniteSet(prev)
      BY <1>3, PlaylistAssumption, FS_Subset
    <3>3. PICK f : f = e.order
      OBVIOUS
    <3>4. \E s \in prev : \A r \in prev : f[r] <= f[s]
      BY <1>5, <3>1, <3>2, <3>3, MostBy
    <3> QED
      BY <3>3, <3>4
  <2>2. \E s \in prev : \A r \in prev : e.order[s] >= e.order[r]
    <3>1. PICK s \in prev : \A r \in prev : e.order[r] <= e.order[s]
      BY <2>1
    <3>2. \A r \in prev : e.order[s] >= e.order[r]
      BY <1>1, <1>2, <3>1
    <3> QED
      BY <3>2
  <2>3. back \in prev
    BY <2>2
  <2>4. Anchor(at, e) = at[back] + 1
    BY <1>5 DEF Anchor
  <2> QED
    BY <1>3, <2>3, <2>4 DEF Positive
<1>6. CASE next = {} /\ prev = {}
  <2>1. Anchor(at, e) = IF e.place <= Cardinality(DOMAIN at) + 1 THEN e.place
                        ELSE Cardinality(DOMAIN at) + 1
    BY <1>6 DEF Anchor
  <2>2. Cardinality(DOMAIN at) \in Nat
    BY <1>3, PlaylistAssumption, FS_Subset, FS_CardinalityType
  <2> QED
    BY <1>1, <2>1, <2>2 DEF Positive
<1> QED
  BY <1>4, <1>5, <1>6

LEMMA LockRestoreKeeps ==
  ASSUME PlaylistInv, NEW x \in Tx, LockRestore(x)
  PROVE  PlaylistInv'
<1>0. UNCHANGED Tables /\ tx[x].pc = "lock" /\ tx[x].kind = "restore" /\ Free(x)
  BY DEF LockRestore
<1>1. tx[x] \in TxRows /\ Shape(tx[x], at)
  BY TxFacts
<1>2. CASE Rollback(x)
  BY <1>0, <1>2, RollbackKeeps
<1>3. \A y \in Tx \ {x} : ~HasList(tx[y])
  BY <1>0, ListIsFree
<1>4. CASE Goto(x, "commit")
  <2>1. PICK t \in TxRows :
           /\ tx' = [tx EXCEPT ![x] = t] /\ t.pc = "commit"
           /\ t.kind = tx[x].kind /\ t.args = tx[x].args /\ t.plan = tx[x].plan /\ t.mine = tx[x].mine
           /\ t.place = tx[x].place /\ t.read = tx[x].read /\ t.entry = tx[x].entry
    <3>1. "commit" \in TxSteps
      BY DEF TxSteps
    <3> QED
      BY <1>4, <3>1, GotoIs
  <2>2. t.pc \in StepsOf(t.kind) \ {"idle", "lock", "apply"}
    BY <1>0, <2>1 DEF StepsOf
  <2> QED
    BY <1>0, <1>3, <2>1, <2>2, Enters
<1>5. CASE /\ Subject(x) \in DOMAIN bin /\ bin[Subject(x)].in
           /\ tx' = [tx EXCEPT ![x].pc = "shift", ![x].place = Anchor(at, bin[Subject(x)])]
  <2>1. PICK n : n = Anchor(at, bin[Subject(x)])
    OBVIOUS
  <2>2. n \in Positive
    <3>1. bin[Subject(x)] \in Entries /\ AtOK(at)
      BY <1>5, Domains DEF PlaylistInv
    <3> QED
      BY <1>5, <2>1, <3>1, AnchorIs
  <2>3. PICK t : t = [tx[x] EXCEPT !.pc = "shift", !.place = n]
    OBVIOUS
  <2>4. tx' = [tx EXCEPT ![x] = t]
    BY <1>5, <2>1, <2>3
  <2>5. /\ t \in TxRows /\ t.pc = "shift" /\ t.kind = tx[x].kind /\ t.args = tx[x].args
        /\ t.plan = tx[x].plan /\ t.mine = tx[x].mine /\ t.read = tx[x].read /\ t.place = n
    BY <1>1, <2>2, <2>3 DEF TxRows, TxSteps, Positive
  <2>6. t.pc \in StepsOf(t.kind) \ {"idle", "lock", "apply"} /\ t.place >= 1
    BY <1>0, <2>2, <2>5 DEF StepsOf, Positive
  <2> QED
    BY <1>0, <1>3, <2>4, <2>5, <2>6, Enters
<1> QED
  BY <1>2, <1>4, <1>5 DEF LockRestore

(* A row that no one else writes.                                          *)
LEMMA WritesApart ==
  ASSUME PlaylistInv, NEW x \in Tx, NEW t, HasList(t) => HasList(tx[x]), NEW s,
         DOMAIN t.mine \cap DOMAIN at \subseteq DOMAIN tx[x].mine \cup {s},
         \A y \in Tx \ {x} : s \notin DOMAIN tx[y].mine
  PROVE  \A y \in Tx \ {x} : Apart(t, tx[y], at)
BY DEF PlaylistInv, Apart

LEMMA CutKeeps ==
  ASSUME PlaylistInv, NEW x \in Tx, Cut(x)
  PROVE  PlaylistInv'
<1>0. UNCHANGED Tables /\ tx[x].pc = "cut" /\ Free(x)
  BY DEF Cut
<1>1. tx[x] \in TxRows /\ Shape(tx[x], at) /\ Subject(x) \in Song
  BY <1>0, TxFacts
<1>2. tx[x].kind \in Deleting
  BY <1>0, <1>1 DEF Shape, StepsOf, Deleting, TxRows, TxKinds
<1>3. CASE Rollback(x)
  BY <1>0, <1>3, RollbackKeeps
<1>4. CASE Goto(x, "commit")
  <2>1. PICK t \in TxRows :
           /\ tx' = [tx EXCEPT ![x] = t] /\ t.pc = "commit"
           /\ t.kind = tx[x].kind /\ t.args = tx[x].args /\ t.plan = tx[x].plan /\ t.mine = tx[x].mine
           /\ t.place = tx[x].place /\ t.read = tx[x].read /\ t.entry = tx[x].entry
    <3>1. "commit" \in TxSteps
      BY DEF TxSteps
    <3> QED
      BY <1>4, <3>1, GotoIs
  <2>2. t.pc \in StepsOf(t.kind) \ {"idle", "lock", "apply"} /\ (HasList(t) => HasList(tx[x]))
        /\ t.kind \notin {"add", "bulk", "reorder"}
    BY <1>0, <1>2, <2>1 DEF StepsOf, Deleting, HasList
  <2> QED
    BY <1>0, <2>1, <2>2, Enters
<1>5. CASE Subject(x) \in Members /\ WriteRow(x, Subject(x), Out, "number")
  <2>1. PICK s : s = Subject(x)
    OBVIOUS
  <2>2. PICK m : m = Put(tx[x].mine, s, Out)
    OBVIOUS
  <2>3. PICK t : t = [tx[x] EXCEPT !.mine = m, !.pc = "number"]
    OBVIOUS
  <2>4. tx' = [tx EXCEPT ![x] = t]
    BY <1>5, <2>1, <2>2, <2>3 DEF WriteRow
  <2>5. DOMAIN tx[x].mine = {} /\ DOMAIN tx[x].plan = {} /\ tx[x].mine \in Partial(Nat) /\ tx[x].args # << >>
    BY <1>0, <1>1 DEF Shape, TxRows
  <2>6. m \in Partial(Nat) /\ DOMAIN m = {s} /\ m[s] = Out
    <3>1. Out \in Nat /\ s \in Song
      BY <1>1, <2>1 DEF Out
    <3>2. m \in Partial(Nat) /\ DOMAIN m = DOMAIN tx[x].mine \cup {s} /\ m[s] = Out
      <4>1. PICK f : f = tx[x].mine
        OBVIOUS
      <4>2. f \in Partial(Nat) /\ m = Put(f, s, Out)
        BY <2>2, <2>5, <4>1
      <4>3. m \in Partial(Nat) /\ DOMAIN m = DOMAIN f \cup {s} /\ m[s] = Out
        BY <3>1, <4>2, PutNat
      <4> QED
        BY <4>1, <4>3
    <3> QED
      BY <2>5, <3>2
  <2>7. /\ t \in TxRows /\ t.pc = "number" /\ t.kind = tx[x].kind /\ t.args = tx[x].args
        /\ t.plan = tx[x].plan /\ t.mine = m /\ t.read = tx[x].read
    BY <1>1, <2>3, <2>6 DEF TxRows, TxSteps
  <2>8. Shape(t, at)
    <3>1. t.pc \in StepsOf(t.kind)
      BY <1>2, <2>7 DEF StepsOf, Deleting
    <3>2. s \in DOMAIN at
      BY <1>5, <2>1 DEF Members
    <3>3. t.kind \notin {"add", "bulk", "restore", "reorder"}
      BY <1>2, <2>7 DEF Deleting
    <3> QED
      BY <1>2, <2>5, <2>6, <2>7, <3>1, <3>2, <3>3 DEF Shape
  <2>9. Orderly(t, at) /\ ByHand(t, list)
    BY <1>2, <2>7 DEF Orderly, InHand, ByHand, Deleting
  <2>10. \A y \in Tx \ {x} : s \notin DOMAIN tx[y].mine
    BY <1>0, <2>1 DEF Free, Blocks, Row, Wrote
  <2>11. \A y \in Tx \ {x} : Apart(t, tx[y], at)
    <3>1. HasList(t) => HasList(tx[x])
      BY <1>0, <2>7 DEF HasList
    <3> QED
      BY <2>6, <2>7, <2>10, <3>1, WritesApart
  <2> QED
    BY <1>0, <2>4, <2>7, <2>8, <2>9, <2>11, Alone DEF Single
<1> QED
  BY <1>3, <1>4, <1>5 DEF Cut

(* What a transaction sees that has only marked what it deletes.           *)
LEMMA SeenWithout ==
  ASSUME NEW x, AtOK(at), \A s \in DOMAIN tx[x].mine : tx[x].mine[s] = Out
  PROVE  /\ DOMAIN View(x) = DOMAIN at \ DOMAIN tx[x].mine
         /\ \A s \in DOMAIN View(x) : View(x)[s] = at[s]
         /\ AtOK(View(x))
<1>1. /\ DOMAIN View(x) = DOMAIN at \ DOMAIN tx[x].mine
      /\ \A s \in DOMAIN View(x) : View(x)[s] = at[s]
      /\ View(x) = [s \in DOMAIN View(x) |-> View(x)[s]]
  BY DEF View, Members
<1>2. DOMAIN at \subseteq Song /\ \A s \in DOMAIN at : at[s] \in Positive
  BY Domains DEF AtOK
<1>3. View(x) \in Partial(Positive)
  BY <1>1, <1>2, IntoPartial
<1> QED
  BY <1>1, <1>3 DEF AtOK

LEMMA NumberKeeps ==
  ASSUME PlaylistInv, NEW x \in Tx, Number(x)
  PROVE  PlaylistInv'
<1>0. UNCHANGED Tables /\ tx[x].pc = "number"
  BY DEF Number
<1>1. tx[x] \in TxRows /\ Shape(tx[x], at) /\ ByHand(tx[x], list) /\ AtOK(at)
  BY TxFacts DEF PlaylistInv
<1>2. tx[x].kind \in Deleting \cup {"add"}
  BY <1>0, <1>1 DEF Shape, StepsOf, Deleting, TxRows, TxKinds
<1>3. PICK v : v = View(x)
  OBVIOUS
<1>4. \A s \in DOMAIN tx[x].mine : tx[x].mine[s] = Out
  BY <1>0, <1>1, <1>2 DEF Shape, Deleting
<1>5. /\ DOMAIN v = DOMAIN at \ DOMAIN tx[x].mine /\ (\A s \in DOMAIN v : v[s] = at[s]) /\ AtOK(v)
  BY <1>1, <1>3, <1>4, SeenWithout
<1>6. \A s \in DOMAIN v : Rank(v, s) \in Positive /\ Rank(v, s) <= at[s]
  <2> TAKE s \in DOMAIN v
  <2>1. Rank(v, s) \in Nat /\ Rank(v, s) >= 1 /\ Rank(v, s) <= v[s]
    BY <1>5, RankSet
  <2> QED
    BY <1>5, <2>1 DEF Positive
<1>7. PICK p : p = [s \in {s \in DOMAIN v : v[s] # Rank(v, s)} |-> Rank(v, s)]
  OBVIOUS
<1>8. /\ DOMAIN p = {s \in DOMAIN v : v[s] # Rank(v, s)}
      /\ \A s \in DOMAIN p : p[s] = Rank(v, s)
      /\ p \in Partial(Positive)
  <2>1. /\ DOMAIN p = {s \in DOMAIN v : v[s] # Rank(v, s)}
        /\ \A s \in DOMAIN p : p[s] = Rank(v, s)
        /\ p = [s \in DOMAIN p |-> p[s]]
    BY <1>7
  <2>2. DOMAIN v \subseteq Song
    BY <1>5, Domains DEF AtOK
  <2>3. p \in Partial(Positive)
    <3>1. DOMAIN p \subseteq Song /\ \A s \in DOMAIN p : p[s] \in Positive
      BY <1>6, <2>1, <2>2
    <3> QED
      BY <2>1, <3>1, IntoPartial
  <2> QED
    BY <2>1, <2>3
<1>9. PICK t : t = [tx[x] EXCEPT !.pc = "apply", !.plan = p]
  OBVIOUS
<1>10. tx' = [tx EXCEPT ![x] = t]
  BY <1>3, <1>7, <1>9 DEF Number
<1>11. /\ t \in TxRows /\ t.pc = "apply" /\ t.kind = tx[x].kind /\ t.args = tx[x].args
       /\ t.plan = p /\ t.mine = tx[x].mine /\ t.read = tx[x].read
  BY <1>1, <1>8, <1>9 DEF TxRows, TxSteps
<1>12. Shape(t, at)
  <2>1. t.pc \in StepsOf(t.kind) /\ t.kind \notin {"bulk", "restore", "reorder"}
    BY <1>2, <1>11 DEF StepsOf, Deleting
  <2>2. DOMAIN p \cap DOMAIN tx[x].mine = {}
    BY <1>5, <1>8
  <2> QED
    BY <1>0, <1>1, <1>11, <2>1, <2>2 DEF Shape
<1>13. AmongThem(t, at)
  <2> SUFFICES ASSUME NEW s \in Touched(t) \cap DOMAIN at, NEW r \in Touched(t) \cap DOMAIN at,
                      New(t, s) # Out, New(t, r) # Out, at[s] < at[r]
               PROVE  New(t, s) < New(t, r)
    BY DEF AmongThem
  <2>1. s \in DOMAIN p /\ r \in DOMAIN p
    BY <1>4, <1>11 DEF New, Touched
  <2>2. s \in DOMAIN v /\ r \in DOMAIN v /\ v[s] < v[r]
    BY <1>5, <1>8, <2>1
  <2> QED
    BY <1>5, <1>8, <1>11, <2>1, <2>2, RanksRise DEF New
<1>14. WithOthers(t, at)
  <2> SUFFICES ASSUME NEW r \in DOMAIN at \ Touched(t), NEW s \in Touched(t) \cap DOMAIN at
               PROVE  Below(t, at, r, s)
    BY DEF WithOthers
  <2>1. r \in DOMAIN v /\ v[r] = Rank(v, r) /\ v[r] = at[r]
    BY <1>5, <1>8, <1>11 DEF Touched
  <2>2. /\ \A n \in 1..v[r] : \E q \in DOMAIN v : v[q] = n
        /\ \A q \in DOMAIN v : v[q] < v[r] => Rank(v, q) = v[q]
    BY <1>5, <2>1, RanksFull
  <2>3. at[s] \in Positive /\ at[r] \in Positive /\ at[s] # at[r]
    BY <1>1, Domains DEF AtOK
  <2>4. CASE s \in DOMAIN p
    <3>1. s \in DOMAIN v /\ v[s] = at[s] /\ v[s] # Rank(v, s)
      BY <1>5, <1>8, <2>4
    <3>2. at[r] < at[s]
      BY <2>1, <2>2, <2>3, <3>1 DEF Positive
    <3>3. Rank(v, r) < Rank(v, s)
      BY <1>5, <2>1, <3>1, <3>2, RanksRise
    <3> QED
      BY <1>8, <1>11, <2>1, <2>4, <3>2, <3>3 DEF Below, New
  <2>5. CASE s \notin DOMAIN p
    <3>1. s \in DOMAIN tx[x].mine /\ s \notin DOMAIN v /\ New(t, s) = Out
      BY <1>4, <1>5, <1>11, <2>5 DEF Touched, New
    <3>2. \A q \in DOMAIN v : v[q] # at[s]
      BY <1>1, <1>5, <3>1 DEF AtOK
    <3>3. at[r] < at[s]
      <4>1. at[s] \notin 1..v[r]
        BY <2>2, <3>2
      <4> QED
        BY <2>1, <2>3, <4>1 DEF Positive
    <3> QED
      BY <3>1, <3>3 DEF Below
  <2> QED
    BY <2>4, <2>5
<1>15. Lowers(t, at)
  <2> SUFFICES ASSUME NEW s \in Touched(t) \cap DOMAIN at
               PROVE  New(t, s) <= at[s]
    BY DEF Lowers
  <2>1. at[s] \in Positive
    BY <1>1, Domains DEF AtOK
  <2>2. CASE s \in DOMAIN p
    BY <1>6, <1>8, <1>11, <2>2 DEF New
  <2>3. CASE s \notin DOMAIN p
    BY <1>4, <1>11, <2>1, <2>3 DEF New, Touched, Out, Positive
  <2> QED
    BY <2>2, <2>3
<1>16. Raises(t, at) /\ AddsLast(t, at)
  <2>1. t.kind # "restore" /\ t.kind # "bulk"
    BY <1>2, <1>11 DEF Deleting
  <2>2. t.kind = "add" => DOMAIN t.mine = {}
    BY <1>0, <1>1, <1>11 DEF Shape
  <2> QED
    BY <2>1, <2>2 DEF Raises, AddsLast
<1>17. Orderly(t, at) /\ ByHand(t, list)
  BY <1>0, <1>1, <1>11, <1>13, <1>14, <1>15, <1>16 DEF Orderly, ByHand
<1>18. \A y \in Tx \ {x} : Apart(t, tx[y], at)
  <2>1. (HasList(t) => HasList(tx[x])) /\ DOMAIN t.mine \cap DOMAIN at \subseteq DOMAIN tx[x].mine
    BY <1>0, <1>11 DEF HasList
  <2> QED
    BY <2>1, StaysApart
<1> QED
  BY <1>0, <1>10, <1>11, <1>12, <1>17, <1>18, Alone DEF Single

LEMMA ShiftKeeps ==
  ASSUME PlaylistInv, NEW x \in Tx, Shift(x)
  PROVE  PlaylistInv'
<1>0. UNCHANGED Tables /\ tx[x].pc = "shift"
  BY DEF Shift
<1>1. tx[x] \in TxRows /\ Shape(tx[x], at) /\ AtOK(at)
  BY TxFacts DEF PlaylistInv
<1>2. tx[x].kind = "restore" /\ tx[x].place \in Nat /\ tx[x].place >= 1 /\ DOMAIN tx[x].mine = {}
  BY <1>0, <1>1 DEF Shape, StepsOf, TxRows
<1>3. DOMAIN at \subseteq Song /\ \A s \in DOMAIN at : at[s] \in Positive
  BY <1>1, Domains DEF AtOK
<1>4. PICK p : p = [s \in {s \in Members : at[s] >= tx[x].place} |-> at[s] + 1]
  OBVIOUS
<1>5. /\ DOMAIN p = {s \in DOMAIN at : at[s] >= tx[x].place} /\ \A s \in DOMAIN p : p[s] = at[s] + 1
      /\ p \in Partial(Positive)
  <2>1. /\ DOMAIN p = {s \in DOMAIN at : at[s] >= tx[x].place}
        /\ \A s \in DOMAIN p : p[s] = at[s] + 1
        /\ p = [s \in DOMAIN p |-> p[s]]
    BY <1>4 DEF Members
  <2>2. DOMAIN p \subseteq Song /\ \A s \in DOMAIN p : p[s] \in Positive
    BY <1>3, <2>1 DEF Positive
  <2> QED
    BY <2>1, <2>2, IntoPartial
<1>6. PICK t : t = [tx[x] EXCEPT !.pc = "apply", !.plan = p]
  OBVIOUS
<1>7. tx' = [tx EXCEPT ![x] = t]
  BY <1>4, <1>6 DEF Shift
<1>8. /\ t \in TxRows /\ t.pc = "apply" /\ t.kind = "restore" /\ t.args = tx[x].args
      /\ t.plan = p /\ t.mine = tx[x].mine /\ t.read = tx[x].read /\ t.place = tx[x].place
  BY <1>1, <1>2, <1>5, <1>6 DEF TxRows, TxSteps
<1>9. Shape(t, at)
  <2>1. t.pc \in StepsOf(t.kind) /\ t.kind \notin Deleting
    BY <1>8 DEF StepsOf, Deleting
  <2> QED
    BY <1>0, <1>1, <1>2, <1>8, <2>1 DEF Shape
<1>10. Orderly(t, at)
  <2>1. /\ Touched(t) = DOMAIN p /\ Touched(t) \subseteq DOMAIN at
        /\ \A s \in Touched(t) : New(t, s) = at[s] + 1 /\ at[s] >= t.place
        /\ \A r \in DOMAIN at \ Touched(t) : at[r] < t.place
    BY <1>2, <1>3, <1>5, <1>8 DEF Touched, New, Positive
  <2>2. AmongThem(t, at)
    BY <1>3, <2>1 DEF AmongThem, Positive
  <2>3. \A r \in DOMAIN at \ Touched(t), s \in Touched(t) \cap DOMAIN at : Below(t, at, r, s)
    BY <1>2, <1>3, <1>8, <2>1 DEF Below, Positive
  <2>4. Raises(t, at)
    BY <1>2, <1>8, <2>1 DEF Raises
  <2> QED
    BY <1>8, <2>2, <2>3, <2>4 DEF Orderly, WithOthers, Lowers, AddsLast
<1>11. ByHand(t, list)
  BY <1>8 DEF ByHand
<1>12. \A y \in Tx \ {x} : Apart(t, tx[y], at)
  <2>1. (HasList(t) => HasList(tx[x])) /\ DOMAIN t.mine \cap DOMAIN at \subseteq DOMAIN tx[x].mine
    BY <1>0, <1>2, <1>8 DEF HasList
  <2> QED
    BY <2>1, StaysApart
<1> QED
  BY <1>0, <1>7, <1>8, <1>9, <1>10, <1>11, <1>12, Alone DEF Single

LEMMA ApplyKeeps ==
  ASSUME PlaylistInv, NEW x \in Tx, NEW s, Apply(x, s)
  PROVE  PlaylistInv'
<1>0. /\ UNCHANGED Tables /\ tx[x].pc = "apply" /\ s \in DOMAIN tx[x].plan
      /\ \A y \in Tx \ {x} : s \notin DOMAIN tx[y].mine
  BY DEF Apply, Wrote
<1>1. tx[x] \in TxRows /\ Shape(tx[x], at) /\ Orderly(tx[x], at) /\ ByHand(tx[x], list) /\ AtOK(at)
  BY TxFacts DEF PlaylistInv
<1>2. /\ tx[x].plan \in Partial(Positive) /\ tx[x].mine \in Partial(Nat)
      /\ s \in Song /\ s \notin DOMAIN tx[x].mine /\ tx[x].plan[s] \in Positive
  <2>1. tx[x].plan \in Partial(Positive) /\ tx[x].mine \in Partial(Nat)
    BY <1>1 DEF TxRows
  <2>2. DOMAIN tx[x].plan \cap DOMAIN tx[x].mine = {}
    BY <1>1 DEF Shape
  <2> QED
    BY <1>0, <2>1, <2>2, Domains
<1>3. tx[x].kind \in Deleting \cup {"add", "restore"}
  BY <1>0, <1>1 DEF Shape, StepsOf, Deleting, TxRows, TxKinds
<1>4. DOMAIN at \subseteq Song /\ \A r \in DOMAIN at : at[r] \in Positive
  BY <1>1, Domains DEF AtOK
<1>5. PICK w : w = Without(tx[x].plan, s)
  OBVIOUS
<1>6. /\ w \in Partial(Positive) /\ DOMAIN w = DOMAIN tx[x].plan \ {s}
      /\ \A r \in DOMAIN w : w[r] = tx[x].plan[r]
  <2>1. PICK f : f = tx[x].plan
    OBVIOUS
  <2>2. f \in Partial(Positive) /\ w = Without(f, s)
    BY <1>2, <1>5, <2>1
  <2>3. w \in Partial(Positive) /\ DOMAIN w = DOMAIN f \ {s} /\ \A r \in DOMAIN f \ {s} : w[r] = f[r]
    BY <2>2, WithoutIs
  <2> QED
    BY <2>1, <2>3
<1>7. CASE s \notin DOMAIN at
  <2>1. s \notin DOMAIN View(x)
    BY <1>2, <1>7 DEF View, Members
  <2>2. PICK t : t = [tx[x] EXCEPT !.plan = w]
    OBVIOUS
  <2>3. tx' = [tx EXCEPT ![x] = t]
    <3>1. tx' = [tx EXCEPT ![x].plan = w, ![x].mine = tx[x].mine]
      BY <1>5, <2>1 DEF Apply
    <3>2. [tx[x] EXCEPT !.plan = w, !.mine = tx[x].mine] = t
      BY <1>1, <2>2 DEF TxRows
    <3> QED
      BY <3>1, <3>2
  <2>4. /\ t \in TxRows /\ t.pc = tx[x].pc /\ t.kind = tx[x].kind /\ t.args = tx[x].args
        /\ t.plan = w /\ t.mine = tx[x].mine /\ t.read = tx[x].read /\ t.place = tx[x].place
    BY <1>1, <1>6, <2>2 DEF TxRows
  <2>5. Shape(t, at)
    <3>1. DOMAIN t.plan \cap DOMAIN t.mine = {}
      BY <1>1, <1>6, <2>4 DEF Shape
    <3>2. t.kind # "reorder" /\ t.pc # "number" /\ t.pc = "apply"
      BY <1>0, <1>3, <2>4 DEF Deleting
    <3> QED
      BY <1>1, <2>4, <3>1, <3>2 DEF Shape
  <2>6. Orderly(t, at)
    <3>1. /\ Touched(t) \cap DOMAIN at = Touched(tx[x]) \cap DOMAIN at
          /\ DOMAIN at \ Touched(t) = DOMAIN at \ Touched(tx[x])
      BY <1>6, <1>7, <2>4 DEF Touched
    <3>2. \A r \in DOMAIN at : New(t, r) = New(tx[x], r) /\ Seen(t, at, r) = Seen(tx[x], at, r)
      BY <1>6, <1>7, <2>4 DEF New, Seen
    <3>3. InHand(t) = InHand(tx[x])
      BY <2>4 DEF InHand
    <3>4. AmongThem(tx[x], at) => AmongThem(t, at)
      BY <3>1, <3>2 DEF AmongThem
    <3>5. WithOthers(tx[x], at) => WithOthers(t, at)
      BY <2>4, <3>1, <3>2 DEF WithOthers, Below, Above
    <3>6. Lowers(tx[x], at) => Lowers(t, at)
      BY <2>4, <3>1, <3>2 DEF Lowers
    <3>7. Raises(tx[x], at) => Raises(t, at)
      BY <2>4, <3>1, <3>2 DEF Raises
    <3>8. AddsLast(tx[x], at) => AddsLast(t, at)
      BY <2>4, <3>1, <3>2 DEF AddsLast
    <3> QED
      BY <1>1, <3>3, <3>4, <3>5, <3>6, <3>7, <3>8 DEF Orderly
  <2>7. ByHand(t, list)
    BY <1>1, <2>4 DEF ByHand
  <2>8. \A y \in Tx \ {x} : Apart(t, tx[y], at)
    <3>1. (HasList(t) => HasList(tx[x])) /\ DOMAIN t.mine \cap DOMAIN at \subseteq DOMAIN tx[x].mine
      BY <2>4 DEF HasList
    <3> QED
      BY <3>1, StaysApart
  <2> QED
    BY <1>0, <2>3, <2>4, <2>5, <2>6, <2>7, <2>8, Alone DEF Single
<1>8. CASE s \in DOMAIN at
  <2>1. s \in DOMAIN View(x) /\ View(x)[s] = at[s]
    BY <1>2, <1>8 DEF View, Members
  <2>2. PICK n : n = NewPlace(x, s)
    OBVIOUS
  <2>3. n \in Positive
    BY <1>2, <1>4, <1>8, <2>1, <2>2 DEF NewPlace, Positive
  <2>4. InHand(tx[x]) => n = tx[x].plan[s]
    <3> SUFFICES ASSUME InHand(tx[x]), tx[x].kind = "restore" PROVE n = tx[x].plan[s]
      BY <2>2 DEF NewPlace
    <3>1. at[s] >= tx[x].place /\ New(tx[x], s) = at[s] + 1
      <4>1. s \in Touched(tx[x]) \cap DOMAIN at
        BY <1>0, <1>8 DEF Touched
      <4> QED
        BY <1>0, <1>1, <4>1 DEF Orderly, Raises
    <3> QED
      BY <1>0, <2>1, <2>2, <3>1 DEF NewPlace, New
  <2>5. PICK m : m = Put(tx[x].mine, s, n)
    OBVIOUS
  <2>6. /\ m \in Partial(Nat) /\ DOMAIN m = DOMAIN tx[x].mine \cup {s} /\ m[s] = n
        /\ \A r \in DOMAIN tx[x].mine : m[r] = tx[x].mine[r]
    <3>1. n \in Nat
      BY <2>3 DEF Positive
    <3>2. /\ m \in Partial(Nat) /\ DOMAIN m = DOMAIN tx[x].mine \cup {s} /\ m[s] = n
          /\ \A r \in DOMAIN tx[x].mine \ {s} : m[r] = tx[x].mine[r]
      <4>1. PICK f : f = tx[x].mine
        OBVIOUS
      <4>2. f \in Partial(Nat) /\ m = Put(f, s, n) /\ s \in Song
        BY <1>2, <2>5, <4>1
      <4>25. /\ Put(f, s, n) \in Partial(Nat) /\ DOMAIN Put(f, s, n) = DOMAIN f \cup {s}
             /\ Put(f, s, n)[s] = n /\ \A r \in DOMAIN f \ {s} : Put(f, s, n)[r] = f[r]
        BY <3>1, <4>2, PutNat
      <4>3. /\ m \in Partial(Nat) /\ DOMAIN m = DOMAIN f \cup {s} /\ m[s] = n
            /\ \A r \in DOMAIN f \ {s} : m[r] = f[r]
        BY <4>2, <4>25
      <4> QED
        BY <4>1, <4>3
    <3> QED
      BY <1>2, <3>2
  <2>7. PICK t : t = [tx[x] EXCEPT !.plan = w, !.mine = m]
    OBVIOUS
  <2>8. tx' = [tx EXCEPT ![x] = t]
    <3>1. tx' = [tx EXCEPT ![x].plan = w, ![x].mine = m]
      BY <1>5, <2>1, <2>2, <2>5 DEF Apply
    <3> QED
      BY <2>7, <3>1
  <2>9. /\ t \in TxRows /\ t.pc = tx[x].pc /\ t.kind = tx[x].kind /\ t.args = tx[x].args
        /\ t.plan = w /\ t.mine = m /\ t.read = tx[x].read /\ t.place = tx[x].place
    BY <1>1, <1>6, <2>6, <2>7 DEF TxRows
  <2>10. Shape(t, at)
    <3>1. DOMAIN t.plan \cap DOMAIN t.mine = {}
      BY <1>1, <1>6, <2>6, <2>9 DEF Shape
    <3>2. t.kind \notin {"reorder", "bulk"} /\ t.pc = "apply"
      BY <1>0, <1>3, <2>9 DEF Deleting
    <3>3. t.kind \in Deleting => /\ DOMAIN t.mine \subseteq DOMAIN at
                                 /\ \E r \in DOMAIN t.mine : t.mine[r] = Out
      <4> HAVE t.kind \in Deleting
      <4>1. DOMAIN tx[x].mine \subseteq DOMAIN at /\ \E r \in DOMAIN tx[x].mine : tx[x].mine[r] = Out
        BY <1>0, <1>1, <2>9 DEF Shape
      <4> QED
        BY <1>8, <2>6, <2>9, <4>1
    <3>4. t.kind \notin Deleting => \A r \in DOMAIN t.mine : t.mine[r] # Out
      <4> HAVE t.kind \notin Deleting
      <4>1. \A r \in DOMAIN tx[x].mine : tx[x].mine[r] # Out
        BY <1>1, <2>9 DEF Shape
      <4> QED
        BY <2>3, <2>6, <2>9, <4>1 DEF Out, Positive
    <3>5. /\ t.pc \in StepsOf(t.kind) /\ t.args # << >> /\ (t.read = "stale" => t.kind \in Deleting)
          /\ (t.kind = "restore" => t.place >= 1)
      BY <1>0, <1>1, <2>9 DEF Shape
    <3> QED
      BY <3>1, <3>2, <3>3, <3>4, <3>5 DEF Shape
  <2>11. Orderly(t, at)
    <3> SUFFICES ASSUME InHand(t)
                 PROVE  /\ AmongThem(t, at) /\ WithOthers(t, at) /\ Lowers(t, at)
                        /\ Raises(t, at) /\ AddsLast(t, at)
      BY DEF Orderly
    <3>1. InHand(tx[x]) /\ n = tx[x].plan[s]
      BY <2>4, <2>9 DEF InHand
    <3>2. /\ AmongThem(tx[x], at) /\ WithOthers(tx[x], at) /\ Lowers(tx[x], at)
          /\ Raises(tx[x], at) /\ AddsLast(tx[x], at)
      BY <1>1, <3>1 DEF Orderly
    <3>3. Touched(t) = Touched(tx[x])
      BY <1>0, <1>6, <2>6, <2>9 DEF Touched
    <3>4. \A r \in Touched(t) : New(t, r) = New(tx[x], r)
      <4> TAKE r \in Touched(t)
      <4>1. CASE r = s
        BY <1>0, <1>6, <2>6, <2>9, <3>1, <4>1 DEF New
      <4>2. CASE r # s /\ r \in DOMAIN w
        BY <1>6, <2>9, <4>2 DEF New
      <4>3. CASE r # s /\ r \notin DOMAIN w
        BY <1>6, <2>6, <2>9, <4>3 DEF New, Touched
      <4> QED
        BY <4>1, <4>2, <4>3
    <3>5. AmongThem(t, at)
      BY <3>2, <3>3, <3>4 DEF AmongThem
    <3>6. WithOthers(t, at)
      BY <2>9, <3>2, <3>3, <3>4 DEF WithOthers, Below, Above
    <3>7. Lowers(t, at)
      BY <2>9, <3>2, <3>3, <3>4 DEF Lowers
    <3>8. DOMAIN t.mine \ DOMAIN at = DOMAIN tx[x].mine \ DOMAIN at
          /\ \A r \in DOMAIN t.mine \ DOMAIN at : t.mine[r] = tx[x].mine[r]
      BY <1>8, <2>6, <2>9
    <3>9. Raises(t, at)
      BY <1>0, <2>9, <3>2, <3>3, <3>4, <3>8 DEF Raises
    <3>10. AddsLast(t, at)
      <4> SUFFICES ASSUME t.kind = "add", NEW a \in DOMAIN t.mine \ DOMAIN at, NEW r \in DOMAIN at
                   PROVE  Seen(t, at, r) < t.mine[a]
        BY <1>3, <2>9 DEF AddsLast, Deleting
      <4>1. Seen(tx[x], at, r) < t.mine[a] /\ t.mine[a] \in Nat
        BY <2>6, <2>9, <3>2, <3>8, Domains DEF AddsLast
      <4>2. CASE r # s
        BY <2>6, <2>9, <4>1, <4>2 DEF Seen
      <4>3. CASE r = s
        <5>1. tx[x].read = "fresh"
          BY <1>1, <2>9, <3>1 DEF InHand, Shape, Deleting, TxRows
        <5>2. tx[x].plan[s] <= at[s]
          BY <1>0, <1>8, <2>9, <3>2, <5>1 DEF Lowers, Touched, New
        <5>3. Seen(tx[x], at, s) = at[s] /\ Seen(t, at, s) = tx[x].plan[s]
          BY <1>2, <2>6, <2>9, <3>1 DEF Seen
        <5> QED
          BY <1>2, <1>4, <1>8, <4>1, <4>3, <5>2, <5>3 DEF Positive
      <4> QED
        BY <4>2, <4>3
    <3> QED
      BY <3>5, <3>6, <3>7, <3>9, <3>10
  <2>12. ByHand(t, list)
    BY <1>1, <2>9 DEF ByHand
  <2>13. \A y \in Tx \ {x} : Apart(t, tx[y], at)
    <3>1. (HasList(t) => HasList(tx[x])) /\ DOMAIN t.mine \cap DOMAIN at \subseteq DOMAIN tx[x].mine \cup {s}
      BY <2>6, <2>9 DEF HasList
    <3> QED
      BY <1>0, <3>1, WritesApart
  <2> QED
    BY <1>0, <2>8, <2>9, <2>10, <2>11, <2>12, <2>13, Alone DEF Single
<1> QED
  BY <1>7, <1>8

LEMMA AppliedKeeps ==
  ASSUME PlaylistInv, NEW x \in Tx, Applied(x)
  PROVE  PlaylistInv'
<1>0. UNCHANGED Tables /\ tx[x].pc = "apply" /\ DOMAIN tx[x].plan = {}
  BY DEF Applied
<1>1. tx[x] \in TxRows /\ Shape(tx[x], at) /\ Orderly(tx[x], at) /\ ByHand(tx[x], list)
  BY TxFacts
<1>2. tx[x].kind \in Deleting \cup {"add", "restore"}
  BY <1>0, <1>1 DEF Shape, StepsOf, Deleting, TxRows, TxKinds
<1>3. PICK p : p = IF tx[x].kind \in {"add", "restore"} THEN "insert" ELSE "commit"
  OBVIOUS
<1>4. p \in TxSteps /\ Goto(x, p)
  BY <1>3 DEF Applied, TxSteps
<1>5. PICK t \in TxRows :
           /\ tx' = [tx EXCEPT ![x] = t] /\ t.pc = p
           /\ t.kind = tx[x].kind /\ t.args = tx[x].args /\ t.plan = tx[x].plan /\ t.mine = tx[x].mine
           /\ t.place = tx[x].place /\ t.read = tx[x].read /\ t.entry = tx[x].entry
  BY <1>4, GotoIs
<1>6. p \in StepsOf(t.kind) /\ p \in {"insert", "commit"}
  BY <1>2, <1>3, <1>5 DEF StepsOf, Deleting
<1>7. Shape(t, at)
  <2>1. t.kind \notin {"bulk", "reorder"}
    BY <1>2, <1>5 DEF Deleting
  <2>2. t.kind \in Deleting => /\ DOMAIN t.mine \subseteq DOMAIN at
                               /\ \E r \in DOMAIN t.mine : t.mine[r] = Out
    BY <1>0, <1>1, <1>5 DEF Shape
  <2>3. t.kind \notin Deleting => \A r \in DOMAIN t.mine : t.mine[r] # Out
    BY <1>1, <1>5 DEF Shape
  <2>4. /\ t.args # << >> /\ (t.read = "stale" => t.kind \in Deleting)
        /\ (t.kind = "restore" => t.place >= 1)
    BY <1>0, <1>1, <1>5 DEF Shape
  <2> QED
    BY <1>0, <1>5, <1>6, <2>1, <2>2, <2>3, <2>4 DEF Shape
<1>8. Orderly(t, at)
  <2>1. InHand(t) => InHand(tx[x])
    BY <1>0, <1>5 DEF InHand
  <2>2. Touched(t) = Touched(tx[x]) /\ \A r : New(t, r) = New(tx[x], r) /\ Seen(t, at, r) = Seen(tx[x], at, r)
    BY <1>5 DEF Touched, New, Seen
  <2>3. AmongThem(tx[x], at) => AmongThem(t, at)
    BY <2>2 DEF AmongThem
  <2>4. WithOthers(tx[x], at) => WithOthers(t, at)
    BY <1>0, <2>2 DEF WithOthers, Below, Above
  <2>5. Lowers(tx[x], at) => Lowers(t, at)
    BY <1>5, <2>2 DEF Lowers
  <2>6. Raises(tx[x], at) => Raises(t, at)
    BY <1>0, <1>5, <2>2 DEF Raises
  <2>7. AddsLast(tx[x], at) => AddsLast(t, at)
    BY <1>5, <2>2 DEF AddsLast
  <2> QED
    BY <1>1, <2>1, <2>3, <2>4, <2>5, <2>6, <2>7 DEF Orderly
<1>9. ByHand(t, list)
  BY <1>0, <1>1, <1>5 DEF ByHand
<1>10. \A y \in Tx \ {x} : Apart(t, tx[y], at)
  <2>1. (HasList(t) => HasList(tx[x])) /\ DOMAIN t.mine \cap DOMAIN at \subseteq DOMAIN tx[x].mine
    BY <1>0, <1>5 DEF HasList
  <2> QED
    BY <2>1, StaysApart
<1> QED
  BY <1>0, <1>5, <1>7, <1>8, <1>9, <1>10, Alone DEF Single

LEMMA InsertKeeps ==
  ASSUME PlaylistInv, NEW x \in Tx, Insert(x)
  PROVE  PlaylistInv'
<1>0. UNCHANGED Tables /\ tx[x].pc = "insert"
  BY DEF Insert
<1>1. /\ tx[x] \in TxRows /\ Shape(tx[x], at) /\ Orderly(tx[x], at) /\ ByHand(tx[x], list) /\ AtOK(at)
      /\ Subject(x) \in Song
  BY <1>0, TxFacts DEF PlaylistInv
<1>2. CASE Rollback(x)
  BY <1>0, <1>2, RollbackKeeps
<1>3. CASE ~Rollback(x)
  <2>1. PICK s : s = Subject(x)
    OBVIOUS
  <2>2. PICK after : after = IF Len(tx[x].args) > 1 THEN "insert" ELSE "commit"
    OBVIOUS
  <2>3. PICK n : n = IF tx[x].kind = "restore" THEN tx[x].place ELSE Last(View(x)) + 1
    OBVIOUS
  <2>4. PICK m : m = IF s \in DOMAIN View(x) THEN tx[x].mine ELSE Put(tx[x].mine, s, n)
    OBVIOUS
  <2>5. PICK q : q = IF after = "insert" THEN Tail(tx[x].args) ELSE tx[x].args
    OBVIOUS
  <2>6. PICK t : t = [tx[x] EXCEPT !.mine = m, !.args = q, !.pc = after]
    OBVIOUS
  <2>7. tx' = [tx EXCEPT ![x] = t]
    <3>1. tx' = [tx EXCEPT ![x].mine = m, ![x].args = q, ![x].pc = after]
      BY <1>3, <2>1, <2>2, <2>3, <2>4, <2>5 DEF Insert
    <3> QED
      BY <2>6, <3>1
  <2>8. tx[x].kind \in {"add", "bulk", "restore"} /\ tx[x].mine \in Partial(Nat) /\ tx[x].args \in Seq(Song) /\ tx[x].args # << >>
    BY <1>0, <1>1 DEF Shape, StepsOf, TxRows, TxKinds, Deleting
  <2>9. DOMAIN at \subseteq Song /\ \A r \in DOMAIN at : at[r] \in Positive
    BY <1>1, Domains DEF AtOK
  <2>10. DOMAIN tx[x].mine \subseteq Song /\ \A r \in DOMAIN tx[x].mine : tx[x].mine[r] \in Nat /\ tx[x].mine[r] # Out
    BY <1>1, <2>8, Domains DEF Shape, Deleting
  <2>11. DOMAIN View(x) = DOMAIN at \cup DOMAIN tx[x].mine
    BY <2>10 DEF View, Members
  <2>12. \A r \in DOMAIN View(x) : View(x)[r] = Seen(tx[x], at, r) /\ View(x)[r] \in Nat
    <3>1. \A r \in DOMAIN View(x) : View(x)[r] = Seen(tx[x], at, r)
      BY DEF View, Seen
    <3> QED
      BY <2>9, <2>10, <2>11, <3>1 DEF Seen, Positive
  <2>13. n \in Positive /\ (tx[x].kind = "restore" => n = tx[x].place)
         /\ (tx[x].kind # "restore" => \A r \in DOMAIN View(x) : View(x)[r] < n)
    <3>1. CASE tx[x].kind = "restore"
      BY <1>0, <1>1, <2>3, <3>1 DEF Shape, TxRows, Positive
    <3>2. CASE tx[x].kind # "restore"
      <4>1. PICK v : v = View(x)
        OBVIOUS
      <4>2. IsFiniteSet(DOMAIN v) /\ \A r \in DOMAIN v : v[r] \in Nat
        <5>1. DOMAIN v \subseteq Song
          BY <2>9, <2>10, <2>11, <4>1
        <5>2. IsFiniteSet(DOMAIN v)
          BY <5>1, PlaylistAssumption, FS_Subset
        <5> QED
          BY <2>12, <4>1, <5>2
      <4>3. Last(v) \in Nat /\ \A r \in DOMAIN v : v[r] <= Last(v)
        BY <4>2, LastPlace
      <4>4. n = Last(v) + 1
        BY <2>3, <3>2, <4>1
      <4>5. n \in Positive /\ \A r \in DOMAIN v : v[r] < n
        BY <4>2, <4>3, <4>4 DEF Positive
      <4> QED
        BY <3>2, <4>1, <4>5
    <3> QED
      BY <3>1, <3>2
  <2>14. /\ m \in Partial(Nat) /\ DOMAIN m = DOMAIN tx[x].mine \cup (IF s \in DOMAIN View(x) THEN {} ELSE {s})
         /\ \A r \in DOMAIN tx[x].mine : m[r] = tx[x].mine[r]
         /\ s \notin DOMAIN View(x) => m[s] = n
    <3>1. CASE s \in DOMAIN View(x)
      BY <2>4, <2>8, <3>1
    <3>2. CASE s \notin DOMAIN View(x)
      <4>1. PICK f : f = tx[x].mine
        OBVIOUS
      <4>2. f \in Partial(Nat) /\ m = Put(f, s, n) /\ s \in Song /\ n \in Nat
        BY <1>1, <2>1, <2>4, <2>8, <2>13, <3>2, <4>1 DEF Positive
      <4>3. /\ Put(f, s, n) \in Partial(Nat) /\ DOMAIN Put(f, s, n) = DOMAIN f \cup {s}
            /\ Put(f, s, n)[s] = n /\ \A r \in DOMAIN f \ {s} : Put(f, s, n)[r] = f[r]
        BY <4>2, PutNat
      <4>4. s \notin DOMAIN tx[x].mine
        BY <2>11, <3>2
      <4> QED
        BY <3>2, <4>1, <4>2, <4>3, <4>4
    <3> QED
      BY <3>1, <3>2
  <2>15. q \in Seq(Song) /\ q # << >>
    <3>1. PICK a : a = tx[x].args
      OBVIOUS
    <3>2. a \in Seq(Song) /\ a # << >> /\ Len(a) \in Nat
      BY <2>8, <3>1
    <3>3. CASE Len(a) > 1
      <4>1. q = Tail(a)
        BY <2>2, <2>5, <3>1, <3>3
      <4>2. q \in Seq(Song) /\ Len(q) = Len(a) - 1
        BY <3>2, <3>3, <4>1
      <4>3. Len(q) # 0
        BY <3>2, <3>3, <4>2
      <4> QED
        BY <4>2, <4>3
    <3>4. CASE ~(Len(a) > 1)
      BY <2>2, <2>5, <3>1, <3>2, <3>4
    <3> QED
      BY <3>3, <3>4
  <2>16. /\ t \in TxRows /\ t.pc = after /\ t.kind = tx[x].kind /\ t.args = q
         /\ t.plan = tx[x].plan /\ t.mine = m /\ t.read = tx[x].read /\ t.place = tx[x].place
    BY <1>1, <2>2, <2>6, <2>14, <2>15 DEF TxRows, TxSteps
  <2>17. after \in {"insert", "commit"} /\ DOMAIN t.plan = {} /\ DOMAIN tx[x].plan = {}
    BY <1>0, <1>1, <2>2, <2>16 DEF Shape
  <2>18. s \notin DOMAIN View(x) => s \notin DOMAIN at /\ s \notin DOMAIN tx[x].mine
    BY <2>11
  <2>19. Shape(t, at)
    <3>1. after \in StepsOf(t.kind) /\ t.kind \notin Deleting \cup {"reorder"}
      BY <2>8, <2>16, <2>17 DEF StepsOf, Deleting
    <3>2. t.read # "stale"
      BY <1>1, <2>16, <3>1 DEF Shape
    <3>3. \A r \in DOMAIN t.mine : t.mine[r] # Out
      BY <2>10, <2>13, <2>14, <2>16 DEF Out, Positive
    <3>4. t.kind = "bulk" => DOMAIN t.mine \cap DOMAIN at = {}
      <4>1. t.kind = "bulk" => DOMAIN tx[x].mine \cap DOMAIN at = {}
        BY <1>1, <2>16 DEF Shape
      <4> QED
        BY <2>14, <2>16, <2>18, <4>1
    <3>5. t.kind = "restore" => t.place >= 1
      BY <1>0, <1>1, <2>16 DEF Shape
    <3> QED
      BY <2>15, <2>16, <2>17, <3>1, <3>2, <3>3, <3>4, <3>5 DEF Shape
  <2>20. Orderly(t, at)
    <3> SUFFICES ASSUME InHand(t)
                 PROVE  /\ AmongThem(t, at) /\ WithOthers(t, at) /\ Lowers(t, at)
                        /\ Raises(t, at) /\ AddsLast(t, at)
      BY DEF Orderly
    <3>1. /\ AmongThem(tx[x], at) /\ WithOthers(tx[x], at) /\ Lowers(tx[x], at)
          /\ Raises(tx[x], at) /\ AddsLast(tx[x], at)
      BY <1>0, <1>1, <2>16 DEF Orderly, InHand
    <3>2. Touched(t) \cap DOMAIN at = Touched(tx[x]) \cap DOMAIN at
          /\ DOMAIN at \ Touched(t) = DOMAIN at \ Touched(tx[x])
      BY <2>14, <2>16, <2>18 DEF Touched
    <3>3. \A r \in Touched(t) \cap DOMAIN at : New(t, r) = New(tx[x], r)
      BY <2>14, <2>16, <2>17, <2>18 DEF New, Touched
    <3>4. \A r \in DOMAIN at : Seen(t, at, r) = Seen(tx[x], at, r)
      BY <2>14, <2>16, <2>18 DEF Seen
    <3>5. AmongThem(t, at)
      BY <3>1, <3>2, <3>3 DEF AmongThem
    <3>6. WithOthers(t, at)
      BY <1>0, <2>16, <2>17, <3>1, <3>2, <3>3 DEF WithOthers, Below, Above
    <3>7. Lowers(t, at)
      BY <2>16, <3>1, <3>2, <3>3 DEF Lowers
    <3>8. Raises(t, at)
      <4> SUFFICES ASSUME t.kind = "restore"
                   PROVE  /\ \A r \in DOMAIN at \ Touched(t) : at[r] < t.place
                          /\ \A r \in Touched(t) \cap DOMAIN at : at[r] >= t.place /\ New(t, r) = at[r] + 1
                          /\ \A r \in DOMAIN t.mine \ DOMAIN at : t.mine[r] = t.place
        BY DEF Raises
      <4>1. /\ \A r \in DOMAIN at \ Touched(tx[x]) : at[r] < tx[x].place
            /\ \A r \in Touched(tx[x]) \cap DOMAIN at : at[r] >= tx[x].place /\ New(tx[x], r) = at[r] + 1
            /\ \A r \in DOMAIN tx[x].mine \ DOMAIN at : tx[x].mine[r] = tx[x].place
        BY <1>0, <2>16, <3>1 DEF Raises
      <4>2. \A r \in DOMAIN t.mine \ DOMAIN at : t.mine[r] = t.place
        BY <2>13, <2>14, <2>16, <2>18, <4>1
      <4> QED
        BY <2>16, <3>2, <3>3, <4>1, <4>2
    <3>9. AddsLast(t, at)
      <4> SUFFICES ASSUME t.kind \in {"add", "bulk"}, NEW a \in DOMAIN t.mine \ DOMAIN at, NEW r \in DOMAIN at
                   PROVE  Seen(t, at, r) < t.mine[a]
        BY DEF AddsLast
      <4>1. CASE a \in DOMAIN tx[x].mine
        BY <2>14, <2>16, <3>1, <3>4, <4>1 DEF AddsLast
      <4>2. CASE a \notin DOMAIN tx[x].mine
        <5>1. a = s /\ s \notin DOMAIN View(x) /\ t.mine[a] = n
          BY <2>14, <2>16, <4>2
        <5>2. View(x)[r] < n /\ View(x)[r] = Seen(tx[x], at, r)
          BY <2>11, <2>12, <2>13, <2>16
        <5> QED
          BY <3>4, <5>1, <5>2
      <4> QED
        BY <4>1, <4>2
    <3> QED
      BY <3>5, <3>6, <3>7, <3>8, <3>9
  <2>21. ByHand(t, list)
    BY <1>0, <1>1, <2>16 DEF ByHand
  <2>22. \A y \in Tx \ {x} : Apart(t, tx[y], at)
    <3>1. (HasList(t) => HasList(tx[x])) /\ DOMAIN t.mine \cap DOMAIN at \subseteq DOMAIN tx[x].mine
      BY <1>0, <2>14, <2>16, <2>18 DEF HasList
    <3> QED
      BY <3>1, StaysApart
  <2> QED
    BY <1>0, <2>7, <2>16, <2>19, <2>20, <2>21, <2>22, Alone DEF Single
<1> QED
  BY <1>2, <1>3

LEMMA SetPlaceKeeps ==
  ASSUME PlaylistInv, NEW x \in Tx, SetPlace(x)
  PROVE  PlaylistInv'
<1>0. UNCHANGED Tables /\ tx[x].pc = "set" /\ Free(x)
  BY DEF SetPlace
<1>1. /\ tx[x] \in TxRows /\ Shape(tx[x], at) /\ Subject(x) \in Song
  BY <1>0, TxFacts
<1>2. /\ tx[x].kind = "reorder" /\ tx[x].place \in Positive /\ DOMAIN tx[x].mine \subseteq DOMAIN at
      /\ DOMAIN at \subseteq DOMAIN tx[x].mine \cup {tx[x].args[i] : i \in DOMAIN tx[x].args}
      /\ DOMAIN tx[x].plan = {} /\ tx[x].args \in Seq(Song) /\ tx[x].args # << >> /\ tx[x].mine \in Partial(Nat)
      /\ tx[x].read # "stale" /\ \A r \in DOMAIN tx[x].mine : tx[x].mine[r] # Out
  BY <1>0, <1>1 DEF Shape, StepsOf, TxRows, Deleting, Positive
<1>3. PICK s : s = Subject(x)
  OBVIOUS
<1>4. PICK m : m = IF s \in Members THEN Put(tx[x].mine, s, tx[x].place) ELSE tx[x].mine
  OBVIOUS
<1>5. PICK q : q = IF Len(tx[x].args) > 1 THEN Tail(tx[x].args) ELSE tx[x].args
  OBVIOUS
<1>6. PICK p : p = IF Len(tx[x].args) > 1 THEN "set" ELSE "commit"
  OBVIOUS
<1>7. PICK t : t = [tx[x] EXCEPT !.mine = m, !.place = tx[x].place + 1, !.args = q, !.pc = p]
  OBVIOUS
<1>8. tx' = [tx EXCEPT ![x] = t]
  BY <1>3, <1>4, <1>5, <1>6, <1>7 DEF SetPlace
<1>9. /\ m \in Partial(Nat) /\ DOMAIN m = DOMAIN tx[x].mine \cup (IF s \in DOMAIN at THEN {s} ELSE {})
      /\ \A r \in DOMAIN m : m[r] # Out
  <2>1. CASE s \notin DOMAIN at
    BY <1>2, <1>4, <2>1 DEF Members
  <2>2. CASE s \in DOMAIN at
    <3>1. PICK f : f = tx[x].mine
      OBVIOUS
    <3>2. PICK n : n = tx[x].place
      OBVIOUS
    <3>3. f \in Partial(Nat) /\ m = Put(f, s, n) /\ s \in Song /\ n \in Nat /\ n # Out
      BY <1>1, <1>2, <1>3, <1>4, <2>2, <3>1, <3>2 DEF Members, Positive, Out
    <3>4. /\ Put(f, s, n) \in Partial(Nat) /\ DOMAIN Put(f, s, n) = DOMAIN f \cup {s}
          /\ Put(f, s, n)[s] = n /\ \A r \in DOMAIN f \ {s} : Put(f, s, n)[r] = f[r]
      BY <3>3, PutNat
    <3> QED
      BY <1>2, <2>2, <3>1, <3>3, <3>4
  <2> QED
    BY <2>1, <2>2
<1>10. /\ q \in Seq(Song) /\ q # << >>
       /\ p = "set" => DOMAIN at \subseteq DOMAIN m \cup {q[i] : i \in DOMAIN q}
       /\ p = "commit" => DOMAIN at \subseteq DOMAIN m
  <2>1. PICK a : a = tx[x].args
    OBVIOUS
  <2>2. a \in Seq(Song) /\ Len(a) \in Nat /\ Len(a) >= 1 /\ DOMAIN a = 1..Len(a) /\ s = a[1]
    BY <1>2, <1>3, <2>1 DEF Subject
  <2>3. CASE Len(a) > 1
    <3>1. q = Tail(a) /\ p = "set" /\ q \in Seq(Song) /\ Len(q) = Len(a) - 1 /\ DOMAIN q = 1..Len(q)
          /\ \A i \in 1..Len(q) : q[i] = a[i + 1]
      BY <1>5, <1>6, <2>1, <2>2, <2>3
    <3>2. \A i \in DOMAIN a : a[i] = s \/ \E j \in DOMAIN q : q[j] = a[i]
      <4> TAKE i \in DOMAIN a
      <4>1. CASE i = 1
        BY <2>2, <4>1
      <4>2. CASE i # 1
        <5>1. i - 1 \in DOMAIN q /\ q[i - 1] = a[i]
          BY <2>2, <2>3, <3>1, <4>2
        <5> QED
          BY <5>1
      <4> QED
        BY <4>1, <4>2
    <3>3. DOMAIN at \subseteq DOMAIN m \cup {q[i] : i \in DOMAIN q}
      BY <1>2, <1>9, <2>1, <3>2
    <3>4. q # << >>
      <4>1. Len(q) # 0
        BY <2>2, <2>3, <3>1
      <4> QED
        BY <4>1
    <3> QED
      BY <3>1, <3>3, <3>4
  <2>4. CASE ~(Len(a) > 1)
    <3>1. q = a /\ p = "commit" /\ DOMAIN a = {1}
      BY <1>5, <1>6, <2>1, <2>2, <2>4
    <3>2. DOMAIN at \subseteq DOMAIN m
      BY <1>2, <1>9, <2>1, <2>2, <3>1
    <3> QED
      BY <1>2, <2>1, <3>1, <3>2
  <2> QED
    BY <2>3, <2>4
<1>11. p \in {"set", "commit"} /\ tx[x].place + 1 \in Positive
  BY <1>2, <1>6 DEF Positive
<1>12. /\ t \in TxRows /\ t.pc = p /\ t.kind = "reorder" /\ t.args = q
       /\ t.plan = tx[x].plan /\ t.mine = m /\ t.read = tx[x].read /\ t.place = tx[x].place + 1
  BY <1>1, <1>2, <1>7, <1>9, <1>10, <1>11 DEF TxRows, TxSteps, Positive
<1>13. Shape(t, at)
  <2>1. p \in StepsOf("reorder") /\ t.kind \notin Deleting \cup {"add", "bulk", "restore"}
    BY <1>11, <1>12 DEF StepsOf, Deleting
  <2>2. DOMAIN m \subseteq DOMAIN at
    BY <1>2, <1>9
  <2> QED
    BY <1>2, <1>9, <1>10, <1>11, <1>12, <2>1, <2>2 DEF Shape, Positive
<1>14. Orderly(t, at) /\ ByHand(t, list)
  BY <1>12 DEF Orderly, InHand, ByHand
<1>15. \A y \in Tx \ {x} : Apart(t, tx[y], at)
  <2>1. \A y \in Tx \ {x} : s \notin DOMAIN tx[y].mine
    BY <1>0, <1>3 DEF Free, Blocks, Row, Wrote
  <2>2. (HasList(t) => HasList(tx[x])) /\ DOMAIN t.mine \cap DOMAIN at \subseteq DOMAIN tx[x].mine \cup {s}
    BY <1>0, <1>2, <1>9, <1>12 DEF HasList
  <2> QED
    BY <2>1, <2>2, WritesApart
<1> QED
  BY <1>0, <1>8, <1>12, <1>13, <1>14, <1>15, Alone DEF Single

-----------------------------------------------------------------------------
(* Steps that change the playlist.                                         *)

LEMMA SetSmartRulesKeeps ==
  ASSUME PlaylistInv, SetSmartRules
  PROVE  PlaylistInv'
<1>1. at' = at /\ bin' = bin /\ tx' = tx /\ \A x \in Tx : ~HoldsList(x)
  BY DEF SetSmartRules
<1>2. \A x \in Tx : Single(tx'[x], at', list')
  <2> TAKE x \in Tx
  <2>1. tx[x] \in TxRows /\ Shape(tx[x], at) /\ Orderly(tx[x], at)
    BY TxFacts
  <2>2. ~(tx[x].kind \in {"add", "bulk"} /\ tx[x].pc \notin {"idle", "lock"})
    BY <1>1, <2>1 DEF HoldsList, Shape, StepsOf
  <2> QED
    BY <1>1, <2>1, <2>2 DEF Single, ByHand
<1> QED
  BY <1>1, <1>2 DEF PlaylistInv

LEMMA DeletePlaylistKeeps ==
  ASSUME PlaylistInv, DeletePlaylist
  PROVE  PlaylistInv'
<1>1. /\ bin' = bin /\ tx' = tx /\ at' = [s \in {} |-> 0]
      /\ \A x \in Tx : ~HoldsList(x) /\ DOMAIN tx[x].mine \cap Members = {}
  BY DEF DeletePlaylist
<1>2. DOMAIN at' = {} /\ AtOK(at')
  <2>1. DOMAIN at' = {}
    BY <1>1
  <2>2. [s \in {} |-> 0] \in Partial(Positive)
    BY DEF Partial
  <2>3. at' \in Partial(Positive)
    BY <1>1, <2>2
  <2> QED
    BY <2>1, <2>3 DEF AtOK
<1>3. \A x \in Tx : Single(tx'[x], at', list')
  <2> TAKE x \in Tx
  <2>0. PICK t : t = tx[x]
    OBVIOUS
  <2>1. t \in TxRows /\ Shape(t, at) /\ ~HoldsList(x) /\ DOMAIN t.mine \cap DOMAIN at = {}
    BY <1>1, <2>0, TxFacts DEF Members
  <2>2. t.kind \in Deleting => DOMAIN t.mine = {} /\ t.pc \notin {"number", "apply"}
    BY <2>1 DEF Shape
  <2>3. t.kind \notin Deleting => t.pc \in {"idle", "lock"}
    BY <1>1, <2>0, <2>1 DEF HoldsList, Shape, StepsOf, TxRows, TxKinds, Deleting
  <2>4. DOMAIN t.mine = {} /\ DOMAIN t.plan = {} /\ t.pc \notin {"number", "apply"}
    BY <2>1, <2>2, <2>3 DEF Shape
  <2>5. Shape(t, at')
    <3>1. t.pc \in StepsOf(t.kind) /\ (t.pc # "idle" => t.args # << >>) /\ (t.read = "stale" => t.kind \in Deleting)
      BY <2>1 DEF Shape
    <3>2. t.kind \in {"restore", "reorder"} => t.pc \in {"idle", "lock"}
      BY <2>3 DEF Deleting
    <3> QED
      BY <1>2, <2>4, <3>1, <3>2 DEF Shape
  <2>6. Orderly(t, at')
    <3>1. InHand(t) => t.kind # "restore"
      BY <2>3 DEF InHand, Deleting
    <3> QED
      BY <1>2, <2>4, <3>1 DEF Orderly, AmongThem, WithOthers, Lowers, Raises, AddsLast
  <2>7. ByHand(t, list')
    BY <2>3 DEF ByHand, Deleting
  <2> QED
    BY <1>1, <2>0, <2>1, <2>5, <2>6, <2>7 DEF Single
<1>4. \A x, y \in Tx : x # y => Apart(tx'[x], tx'[y], at')
  BY <1>1, <1>2 DEF PlaylistInv, Apart
<1> QED
  BY <1>1, <1>2, <1>3, <1>4 DEF PlaylistInv

LEMMA DeadlockKeeps ==
  ASSUME PlaylistInv, NEW x \in Tx, Deadlock(x)
  PROVE  PlaylistInv'
BY RollbackKeeps DEF Deadlock

-----------------------------------------------------------------------------
(* Commits.  b is the list after t has committed, v a transaction u that   *)
(* was at work meanwhile, as it is then.                                   *)

Becomes(b, t, a) ==
  /\ DOMAIN b = {s \in DOMAIN a \cup DOMAIN t.mine : s \in DOMAIN t.mine => t.mine[s] # Out}
  /\ \A s \in DOMAIN b : b[s] = Seen(t, a, s)
Peer(v, u) ==
  /\ v.kind = u.kind /\ v.pc = u.pc /\ v.args = u.args /\ v.plan = u.plan /\ v.mine = u.mine
  /\ v.place = u.place
Peaceful(t, u) ==
  /\ t.read # "wrong" /\ u.read # "wrong"
  /\ u.pc = "apply" => t.kind \in Deleting /\ u.kind \in Deleting
  /\ t.read = "stale" => u.kind \in Deleting
  /\ u.read = "stale" => t.kind \in Deleting

(* What a renumbering leaves in order when it commits.                     *)
LEMMA OrderStaysHere ==
  ASSUME NEW t \in TxRows, NEW a, NEW b, Shape(t, a), Orderly(t, a), t.pc = "commit", t.read # "wrong",
         t.kind # "reorder", AtOK(a), AtOK(b), Becomes(b, t, a),
         NEW s \in DOMAIN a \cap DOMAIN b, NEW r \in DOMAIN a \cap DOMAIN b
  PROVE  a[s] < a[r] <=> b[s] < b[r]
<1>1. /\ DOMAIN t.plan = {} /\ AmongThem(t, a) /\ WithOthers(t, a)
  BY DEF Shape, Orderly, InHand
<1>2. Touched(t) = DOMAIN t.mine /\ \A p : New(t, p) = t.mine[p]
  BY <1>1 DEF Touched, New
<1>3. /\ \A p \in DOMAIN a : a[p] \in Positive
      /\ \A p \in DOMAIN b : b[p] \in Positive /\ b[p] = Seen(t, a, p)
      /\ \A p \in DOMAIN b \cap DOMAIN t.mine : t.mine[p] # Out
  BY Domains DEF AtOK, Becomes
<1>4. ASSUME NEW p \in DOMAIN a \cap DOMAIN b, NEW q \in DOMAIN a \cap DOMAIN b, a[p] < a[q]
      PROVE  b[p] < b[q]
  <2>1. /\ p \in DOMAIN t.mine => b[p] = New(t, p) /\ New(t, p) # Out
        /\ p \notin DOMAIN t.mine => b[p] = a[p]
        /\ q \in DOMAIN t.mine => b[q] = New(t, q) /\ New(t, q) # Out
        /\ q \notin DOMAIN t.mine => b[q] = a[q]
    BY <1>2, <1>3 DEF Seen
  <2>2. a[p] \in Nat /\ a[q] \in Nat /\ b[p] \in Nat /\ b[q] \in Nat
    BY <1>3 DEF Positive
  <2>3. CASE p \in DOMAIN t.mine /\ q \in DOMAIN t.mine
    BY <1>1, <1>2, <1>4, <2>1, <2>3 DEF AmongThem
  <2>4. CASE p \in DOMAIN t.mine /\ q \notin DOMAIN t.mine
    <3>1. Below(t, a, q, p) \/ Above(t, a, q, p)
      BY <1>1, <1>2, <2>4 DEF WithOthers
    <3> QED
      BY <1>4, <2>1, <2>2, <2>4, <3>1 DEF Below, Above
  <2>5. CASE p \notin DOMAIN t.mine /\ q \in DOMAIN t.mine
    <3>1. Below(t, a, p, q) \/ Above(t, a, p, q)
      BY <1>1, <1>2, <2>5 DEF WithOthers
    <3> QED
      BY <1>4, <2>1, <2>2, <2>5, <3>1 DEF Below, Above
  <2>6. CASE p \notin DOMAIN t.mine /\ q \notin DOMAIN t.mine
    BY <1>4, <2>1, <2>6
  <2> QED
    BY <2>3, <2>4, <2>5, <2>6
<1>5. a[s] < a[r] => b[s] < b[r]
  BY <1>4
<1>6. a[r] < a[s] => b[r] < b[s]
  BY <1>4
<1>7. a[s] = a[r] => s = r
  BY DEF AtOK
<1> QED
  BY <1>3, <1>5, <1>6, <1>7 DEF Positive

(* Only who holds the list brings in new members.                          *)
LEMMA NewMembers ==
  ASSUME NEW t \in TxRows, NEW a, NEW b, Shape(t, a), t.pc = "commit", Becomes(b, t, a),
         NEW s \in DOMAIN b \ DOMAIN a
  PROVE  s \in DOMAIN t.mine /\ t.kind \in {"add", "bulk", "restore"} /\ HasList(t) /\ b[s] = t.mine[s]
<1>1. s \in DOMAIN t.mine /\ b[s] = t.mine[s]
  BY DEF Becomes, Seen
<1>2. t.kind \notin Deleting \cup {"reorder", "none"}
  BY <1>1 DEF Shape, StepsOf
<1> QED
  BY <1>1, <1>2 DEF TxRows, TxKinds, HasList

LEMMA PeerShape ==
  ASSUME NEW t \in TxRows, NEW u \in TxRows, NEW v \in TxRows, NEW a, NEW b,
         Shape(t, a), t.pc = "commit", Becomes(b, t, a), Shape(u, a), Apart(t, u, a), Peer(v, u),
         v.read = "stale" => u.kind \in Deleting
  PROVE  Shape(v, b)
<1>1. \A s \in DOMAIN a : s \in DOMAIN u.mine => s \in DOMAIN b
  BY DEF Apart, Becomes
<1>2. HasList(u) => DOMAIN b \subseteq DOMAIN a
  <2> SUFFICES ASSUME HasList(u), NEW s \in DOMAIN b \ DOMAIN a PROVE FALSE
    OBVIOUS
  <2>1. HasList(t)
    BY NewMembers
  <2> QED
    BY <2>1 DEF Apart
<1>3. v.kind \in Deleting => DOMAIN v.mine \subseteq DOMAIN b
  BY <1>1 DEF Shape, Peer
<1>4. v.kind = "bulk" => DOMAIN v.mine \cap DOMAIN b = {}
  <2> SUFFICES ASSUME v.kind = "bulk", NEW s \in DOMAIN v.mine \cap DOMAIN b PROVE FALSE
    OBVIOUS
  <2>1. HasList(u)
    BY DEF Shape, Peer, HasList
  <2> QED
    BY <1>2, <2>1 DEF Shape, Peer
<1>5. v.kind = "reorder" =>
       /\ DOMAIN v.mine \subseteq DOMAIN b
       /\ v.pc = "set" => v.place >= 1
                          /\ DOMAIN b \subseteq DOMAIN v.mine \cup {v.args[n] : n \in DOMAIN v.args}
       /\ v.pc = "commit" => DOMAIN b \subseteq DOMAIN v.mine
  <2> HAVE v.kind = "reorder"
  <2>1. DOMAIN v.mine \subseteq DOMAIN b
    BY <1>1 DEF Shape, Peer
  <2>2. v.pc \in {"set", "commit"} => DOMAIN b \subseteq DOMAIN a
    BY <1>2 DEF HasList, Peer
  <2> QED
    BY <2>1, <2>2 DEF Shape, Peer
<1>6. /\ v.pc \in StepsOf(v.kind) /\ (v.pc # "idle" => v.args # << >>)
      /\ v.pc # "apply" => DOMAIN v.plan = {}
      /\ v.pc \in {"idle", "lock", "own", "cut", "match", "shift"} => DOMAIN v.mine = {}
      /\ DOMAIN v.plan \cap DOMAIN v.mine = {}
      /\ v.kind = "add" /\ v.pc = "number" => DOMAIN v.mine = {}
      /\ v.kind = "restore" /\ v.pc \in {"shift", "apply", "insert"} => v.place >= 1
  BY DEF Shape, Peer
<1>7. /\ v.kind \in Deleting =>
         /\ (DOMAIN v.mine # {} \/ v.pc \in {"number", "apply"}) => \E s \in DOMAIN v.mine : v.mine[s] = Out
         /\ v.pc = "number" => \A s \in DOMAIN v.mine : v.mine[s] = Out
      /\ v.kind \notin Deleting => \A s \in DOMAIN v.mine : v.mine[s] # Out
  BY DEF Shape, Peer
<1>8. v.read = "stale" => v.kind \in Deleting
  BY DEF Peer
<1> QED
  BY <1>3, <1>4, <1>5, <1>6, <1>7, <1>8 DEF Shape

LEMMA PeerOrder ==
  ASSUME NEW t \in TxRows, NEW u \in TxRows, NEW v \in TxRows, NEW a, NEW b,
         AtOK(a), AtOK(b), Becomes(b, t, a), t.pc = "commit",
         Shape(t, a), Orderly(t, a), Shape(u, a), Orderly(u, a), Apart(t, u, a),
         Peer(v, u), Peaceful(t, u), v.read = IF u.pc = "apply" THEN "stale" ELSE u.read,
         InHand(v)
  PROVE  AmongThem(v, b) /\ WithOthers(v, b) /\ Lowers(v, b) /\ Raises(v, b) /\ AddsLast(v, b)
<1>1. /\ AmongThem(u, a) /\ WithOthers(u, a) /\ Lowers(u, a) /\ Raises(u, a) /\ AddsLast(u, a)
      /\ u.pc \in {"apply", "insert", "commit"} /\ u.kind # "reorder" /\ u.pc \in StepsOf(u.kind)
  BY DEF Orderly, InHand, Peer, Peaceful, Shape
<1>2. /\ \A p \in DOMAIN a : a[p] \in Nat /\ a[p] > 0
      /\ \A p \in DOMAIN b : b[p] \in Nat /\ b[p] > 0
  BY Domains DEF AtOK, Positive
<1>3. DOMAIN t.plan = {} /\ Touched(t) = DOMAIN t.mine /\ \A p : New(t, p) = t.mine[p]
  BY DEF Shape, Touched, New
<1>4. /\ \A p \in DOMAIN b \ DOMAIN t.mine : p \in DOMAIN a /\ b[p] = a[p]
      /\ \A p \in DOMAIN b \cap DOMAIN t.mine : b[p] = t.mine[p] /\ t.mine[p] # Out
      /\ \A p \in DOMAIN a \ DOMAIN t.mine : p \in DOMAIN b
  BY DEF Becomes, Seen
<1>5. \A p \in DOMAIN a \cap DOMAIN u.mine : p \notin DOMAIN t.mine /\ p \in DOMAIN b /\ b[p] = a[p]
  BY <1>4 DEF Apart
<1>6. Touched(v) = Touched(u) /\ \A p : New(v, p) = New(u, p)
  BY DEF Peer, Touched, New
<1>7. u.pc # "apply" => DOMAIN u.plan = {} /\ Touched(u) = DOMAIN u.mine
  BY DEF Shape, Touched
<1>8. ASSUME NEW p \in DOMAIN b \ DOMAIN a
      PROVE  /\ t.kind \in {"add", "bulk", "restore"} /\ u.kind \in {"drop", "trash"} /\ u.pc = "commit"
             /\ u.read = "fresh" /\ p \in DOMAIN t.mine /\ b[p] = t.mine[p] /\ DOMAIN u.mine \subseteq DOMAIN a
  <2>1. p \in DOMAIN t.mine /\ t.kind \in {"add", "bulk", "restore"} /\ HasList(t) /\ b[p] = t.mine[p]
    BY NewMembers
  <2>2. ~HasList(u) /\ t.kind \notin Deleting
    BY <2>1 DEF Apart, Deleting
  <2>3. u.kind \in {"drop", "trash"}
    BY <1>1, <2>2 DEF HasList, TxRows, TxKinds, Deleting, StepsOf
  <2>4. u.pc = "commit" /\ u.read = "fresh"
    BY <1>1, <2>2, <2>3 DEF Peaceful, StepsOf, TxRows
  <2>5. DOMAIN u.mine \subseteq DOMAIN a
    BY <2>3 DEF Shape, Deleting
  <2> QED
    BY <2>1, <2>3, <2>4, <2>5
<1>9. Touched(v) \cap DOMAIN b \subseteq DOMAIN a
  <2> SUFFICES ASSUME NEW p \in Touched(u), p \in DOMAIN b \ DOMAIN a PROVE FALSE
    BY <1>6
  <2>1. u.pc = "commit" /\ DOMAIN u.mine \subseteq DOMAIN a
    BY <1>8
  <2> QED
    BY <1>7, <2>1
<1>10. CASE t.kind = "reorder"
  <2>1. DOMAIN a \subseteq DOMAIN t.mine /\ DOMAIN t.mine \subseteq DOMAIN a /\ HasList(t)
    BY <1>10 DEF Shape, HasList
  <2>2. u.kind \in {"drop", "trash"} /\ u.pc # "apply"
    BY <1>1, <1>10, <2>1 DEF Apart, HasList, TxRows, TxKinds, Deleting, StepsOf, Peaceful
  <2>3. DOMAIN u.mine = {}
    BY <1>5, <2>1, <2>2 DEF Shape, Deleting
  <2>4. Touched(v) = {}
    BY <1>6, <1>7, <2>2, <2>3
  <2>5. v.kind \notin {"restore", "add", "bulk"}
    BY <2>2 DEF Peer
  <2> QED
    BY <2>4, <2>5 DEF AmongThem, WithOthers, Lowers, Raises, AddsLast
<1>11. CASE t.kind # "reorder"
  <2>1. /\ AmongThem(t, a) /\ WithOthers(t, a) /\ Lowers(t, a) /\ Raises(t, a) /\ AddsLast(t, a)
    BY <1>11 DEF Orderly, InHand, Peaceful
  <2>2. \A p, q \in DOMAIN a \cap DOMAIN b : a[p] < a[q] <=> b[p] < b[q]
    BY <1>11, OrderStaysHere DEF Peaceful
  <2>3. t.read = "fresh" /\ t.kind # "restore" => \A p \in DOMAIN a \cap DOMAIN b : b[p] <= a[p]
    <3> SUFFICES ASSUME t.read = "fresh", t.kind # "restore", NEW p \in DOMAIN a \cap DOMAIN b
                 PROVE  b[p] <= a[p]
      OBVIOUS
    <3>1. CASE p \in DOMAIN t.mine
      BY <1>3, <1>4, <2>1, <3>1 DEF Lowers
    <3>2. CASE p \notin DOMAIN t.mine
      BY <1>2, <1>4, <3>2
    <3> QED
      BY <3>1, <3>2
  <2>4. t.read \in {"fresh", "stale"}
    BY DEF Peaceful, TxRows
  (* A restore that t has just done.                                       *)
  <2>5. t.kind = "restore" => /\ u.kind \in {"drop", "trash"} /\ u.pc = "commit" /\ u.read = "fresh"
    <3> HAVE t.kind = "restore"
    <3>1. HasList(t) /\ t.kind \notin Deleting
      BY DEF HasList, Deleting
    <3>2. u.kind \in {"drop", "trash"}
      BY <1>1, <3>1 DEF Apart, HasList, TxRows, TxKinds, Deleting, StepsOf
    <3> QED
      BY <1>1, <3>1, <3>2 DEF Peaceful, StepsOf, TxRows
  <2>6. t.kind = "restore" /\ DOMAIN t.mine # {} =>
          /\ \A p \in DOMAIN a \ DOMAIN t.mine : a[p] < t.place
          /\ \A p \in DOMAIN t.mine \cap DOMAIN a : a[p] >= t.place
          /\ \A p \in DOMAIN t.mine \ DOMAIN a : t.mine[p] = t.place
    BY <1>3, <2>1 DEF Raises
  <2>7. AmongThem(v, b)
    <3> SUFFICES ASSUME NEW s \in Touched(v) \cap DOMAIN b, NEW r \in Touched(v) \cap DOMAIN b,
                        New(v, s) # Out, New(v, r) # Out, b[s] < b[r]
                 PROVE  New(v, s) < New(v, r)
      BY DEF AmongThem
    <3>1. a[s] < a[r] /\ s \in Touched(u) \cap DOMAIN a /\ r \in Touched(u) \cap DOMAIN a
      BY <1>6, <1>9, <2>2
    <3> QED
      BY <1>1, <1>6, <3>1 DEF AmongThem
  <2>8. WithOthers(v, b)
    <3> SUFFICES ASSUME NEW r \in DOMAIN b \ Touched(v), NEW s \in Touched(v) \cap DOMAIN b
                 PROVE  Below(v, b, r, s) \/ (Above(v, b, r, s) /\ v.read = "fresh" /\ v.pc # "apply")
      BY DEF WithOthers
    <3>1. s \in Touched(u) \cap DOMAIN a /\ r \notin Touched(u) /\ New(v, s) = New(u, s)
      BY <1>6, <1>9
    <3>2. v.pc = u.pc
      BY DEF Peer
    <3>3. New(u, s) \in Nat
      <4>1. u.plan \in Partial(Positive) /\ u.mine \in Partial(Nat)
        BY DEF TxRows
      <4> QED
        BY <3>1, <4>1, Domains DEF New, Touched, Positive
    <3>4. CASE r \notin DOMAIN a
      <4>1. /\ t.kind \in {"add", "bulk", "restore"} /\ u.kind \in {"drop", "trash"} /\ u.pc = "commit"
            /\ u.read = "fresh" /\ r \in DOMAIN t.mine /\ b[r] = t.mine[r]
        BY <1>8, <3>4
      <4>2. s \in DOMAIN u.mine /\ s \notin DOMAIN t.mine /\ b[s] = a[s]
        BY <1>5, <1>7, <3>1, <4>1
      <4>3. New(u, s) <= a[s]
        BY <1>1, <3>1, <4>1 DEF Lowers
      <4>4. a[s] < b[r]
        <5>1. CASE t.kind = "restore"
          BY <2>6, <3>1, <3>4, <4>1, <4>2, <5>1
        <5>2. CASE t.kind \in {"add", "bulk"}
          <6>1. Seen(t, a, s) < t.mine[r]
            BY <2>1, <3>1, <3>4, <4>1, <5>2 DEF AddsLast
          <6> QED
            BY <4>1, <4>2, <6>1 DEF Seen
        <5> QED
          BY <4>1, <5>1, <5>2
      <4>5. b[r] \in Nat /\ a[s] \in Nat
        BY <1>2, <3>1
      <4>6. b[r] > b[s] /\ b[r] > New(u, s)
        BY <3>3, <4>2, <4>3, <4>4, <4>5
      <4> QED
        BY <3>1, <3>2, <4>1, <4>6 DEF Above
    <3>5. CASE r \in DOMAIN a
      <4>1. Below(u, a, r, s) \/ (Above(u, a, r, s) /\ u.read = "fresh" /\ u.pc # "apply")
        BY <1>1, <3>1, <3>5 DEF WithOthers
      <4>2. /\ a[r] \in Nat /\ a[s] \in Nat /\ b[r] \in Nat /\ b[s] \in Nat
            /\ a[r] < a[s] <=> b[r] < b[s]
            /\ a[s] < a[r] <=> b[s] < b[r]
        BY <1>2, <2>2, <3>1, <3>5
      <4>3. CASE Above(u, a, r, s) /\ u.read = "fresh" /\ u.pc # "apply"
        <5>1. s \in DOMAIN u.mine /\ b[s] = a[s]
          BY <1>5, <1>7, <3>1, <4>3
        <5>2. u.kind # "restore"
          <6> SUFFICES ASSUME u.kind = "restore" PROVE FALSE
            OBVIOUS
          <6>1. a[r] < u.place /\ a[s] >= u.place /\ u.place \in Nat
            BY <1>1, <3>1, <3>5, <5>1 DEF Raises, TxRows
          <6> QED
            BY <4>2, <4>3, <6>1 DEF Above
        <5>3. New(u, s) <= a[s]
          BY <1>1, <3>1, <4>3, <5>2 DEF Lowers
        <5>4. b[r] > b[s] /\ b[r] > New(u, s)
          BY <3>3, <4>2, <4>3, <5>1, <5>3 DEF Above
        <5> QED
          BY <3>1, <3>2, <4>3, <5>4 DEF Above
      <4>4. CASE Below(u, a, r, s)
        <5>1. b[r] < b[s]
          BY <4>2, <4>4 DEF Below
        <5>2. ASSUME New(u, s) # Out PROVE b[r] < New(u, s)
          <6>1. a[r] < New(u, s)
            BY <4>4, <5>2 DEF Below
          <6>2. CASE r \notin DOMAIN t.mine
            BY <1>4, <6>1, <6>2
          <6>3. CASE r \in DOMAIN t.mine /\ t.kind = "restore"
            <7>1. s \in DOMAIN u.mine /\ s \notin DOMAIN t.mine
              BY <1>5, <1>7, <2>5, <3>1, <6>3
            <7>2. a[s] < t.place /\ a[r] >= t.place /\ t.place \in Nat
              BY <2>6, <3>1, <3>5, <6>3, <7>1 DEF TxRows
            <7> QED
              BY <4>2, <4>4, <7>2 DEF Below
          <6>4. CASE t.read = "fresh" /\ t.kind # "restore"
            <7>1. b[r] <= a[r]
              BY <2>3, <3>5, <6>4
            <7> QED
              BY <3>3, <4>2, <6>1, <7>1
          <6>5. CASE r \in DOMAIN t.mine /\ t.read = "stale"
            <7>1. u.kind \in Deleting
              BY <6>5 DEF Peaceful
            <7>2. \A p \in DOMAIN a \ DOMAIN t.mine : a[p] < a[r]
              BY <1>3, <2>1, <3>5, <6>5 DEF WithOthers, Below
            <7>3. CASE s \notin DOMAIN t.mine
              BY <3>1, <4>2, <4>4, <7>2, <7>3 DEF Below
            <7>4. CASE s \in DOMAIN t.mine
              <8>1. u.pc = "apply"
                BY <1>5, <1>7, <3>1, <7>4
              <8>2. PICK p \in DOMAIN u.mine : u.mine[p] = Out
                BY <7>1, <8>1 DEF Shape
              <8>3. p \in DOMAIN a /\ p \notin DOMAIN t.mine /\ p \in Touched(u)
                BY <1>5, <7>1 DEF Shape, Touched
              <8>4. a[p] < a[r]
                BY <7>2, <8>3
              <8>5. Below(u, a, r, p)
                BY <1>1, <3>1, <3>5, <8>1, <8>3 DEF WithOthers
              <8>6. a[p] \in Nat
                BY <1>2, <8>3
              <8> QED
                BY <4>2, <8>4, <8>5, <8>6 DEF Below
            <7> QED
              BY <7>3, <7>4
          <6> QED
            BY <2>4, <6>2, <6>3, <6>4, <6>5
        <5> QED
          BY <3>1, <5>1, <5>2 DEF Below
      <4> QED
        BY <4>1, <4>3, <4>4
    <3> QED
      BY <3>4, <3>5
  <2>9. Lowers(v, b)
    <3> SUFFICES ASSUME v.read = "fresh", v.kind # "restore", NEW s \in Touched(v) \cap DOMAIN b
                 PROVE  New(v, s) <= b[s]
      BY DEF Lowers
    <3>1. u.pc # "apply" /\ u.read = "fresh" /\ u.kind # "restore"
      BY DEF Peer
    <3>2. s \in DOMAIN u.mine /\ s \in DOMAIN a /\ s \in Touched(u)
      BY <1>6, <1>7, <1>9, <3>1
    <3> QED
      BY <1>1, <1>5, <1>6, <3>1, <3>2 DEF Lowers
  (* Who adds or restores holds the list: t is a deletion.                 *)
  <2>10. ASSUME u.kind \in {"add", "bulk", "restore"}
         PROVE  /\ \A p \in DOMAIN b : p \in DOMAIN a /\ b[p] <= a[p]
                /\ DOMAIN u.mine \ DOMAIN b = DOMAIN u.mine \ DOMAIN a /\ u.pc # "apply"
    <3>1. HasList(u) /\ u.kind \notin Deleting
      BY <1>1, <2>10 DEF HasList, Deleting
    <3>2. t.kind \notin {"add", "bulk", "restore"} /\ ~HasList(t)
      BY <3>1 DEF Apart, HasList
    <3>3. DOMAIN b \subseteq DOMAIN a
      BY <1>8, <2>10
    <3>4. t.read = "fresh" /\ u.pc # "apply"
      BY <2>4, <3>1 DEF Peaceful
    <3>5. DOMAIN u.mine \ DOMAIN b = DOMAIN u.mine \ DOMAIN a
      BY <1>5, <3>3
    <3> QED
      BY <2>3, <3>2, <3>3, <3>4, <3>5
  <2>11. Raises(v, b)
    <3> SUFFICES ASSUME v.kind = "restore", v.pc # "commit" \/ DOMAIN v.mine # {}
                 PROVE  /\ \A r \in DOMAIN b \ Touched(v) : b[r] < v.place
                        /\ \A s \in Touched(v) \cap DOMAIN b : b[s] >= v.place /\ New(v, s) = b[s] + 1
                        /\ \A s \in DOMAIN v.mine \ DOMAIN b : v.mine[s] = v.place
      BY DEF Raises
    <3>1. /\ u.kind = "restore" /\ u.place = v.place /\ v.mine = u.mine /\ u.place \in Nat
          /\ u.pc # "commit" \/ DOMAIN u.mine # {}
      BY DEF Peer, TxRows
    <3>2. /\ \A r \in DOMAIN a \ Touched(u) : a[r] < u.place
          /\ \A s \in Touched(u) \cap DOMAIN a : a[s] >= u.place /\ New(u, s) = a[s] + 1
          /\ \A s \in DOMAIN u.mine \ DOMAIN a : u.mine[s] = u.place
      BY <1>1, <3>1 DEF Raises
    <3>3. /\ \A p \in DOMAIN b : p \in DOMAIN a /\ b[p] <= a[p]
          /\ DOMAIN u.mine \ DOMAIN b = DOMAIN u.mine \ DOMAIN a /\ u.pc # "apply"
      BY <2>10, <3>1
    <3>4. \A r \in DOMAIN b \ Touched(v) : b[r] < v.place
      <4> TAKE r \in DOMAIN b \ Touched(v)
      <4>1. a[r] < u.place /\ b[r] <= a[r] /\ a[r] \in Nat /\ b[r] \in Nat
        BY <1>2, <1>6, <3>2, <3>3
      <4> QED
        BY <3>1, <4>1
    <3>5. \A s \in Touched(v) \cap DOMAIN b : b[s] >= v.place /\ New(v, s) = b[s] + 1
      <4> TAKE s \in Touched(v) \cap DOMAIN b
      <4>1. s \in DOMAIN u.mine /\ s \in DOMAIN a /\ s \in Touched(u)
        BY <1>6, <1>7, <1>9, <3>3
      <4> QED
        BY <1>5, <1>6, <3>1, <3>2, <4>1
    <3> QED
      BY <3>1, <3>2, <3>3, <3>4, <3>5
  <2>12. AddsLast(v, b)
    <3> SUFFICES ASSUME v.kind \in {"add", "bulk"}, NEW s \in DOMAIN v.mine \ DOMAIN b, NEW r \in DOMAIN b
                 PROVE  Seen(v, b, r) < v.mine[s]
      BY DEF AddsLast
    <3>1. u.kind = v.kind /\ v.mine = u.mine
      BY DEF Peer
    <3>2. /\ r \in DOMAIN a /\ b[r] <= a[r] /\ s \in DOMAIN u.mine \ DOMAIN a
      BY <2>10, <3>1
    <3>3. Seen(u, a, r) < u.mine[s] /\ u.mine[s] \in Nat
      <4>1. u.mine \in Partial(Nat)
        BY DEF TxRows
      <4> QED
        BY <1>1, <3>1, <3>2, <4>1, Domains DEF AddsLast
    <3>4. a[r] \in Nat /\ b[r] \in Nat
      BY <1>2, <3>2
    <3>5. CASE r \in DOMAIN u.mine
      BY <3>1, <3>3, <3>5 DEF Seen
    <3>6. CASE r \notin DOMAIN u.mine
      BY <3>1, <3>2, <3>3, <3>4, <3>6 DEF Seen
    <3> QED
      BY <3>5, <3>6
  <2> QED
    BY <2>7, <2>8, <2>9, <2>11, <2>12
<1> QED
  BY <1>10, <1>11

LEMMA ViewIs ==
  ASSUME PlaylistInv, NEW x \in Tx
  PROVE  Becomes(View(x), tx[x], at) /\ (Unique(x) => AtOK(View(x)))
<1>1. Becomes(View(x), tx[x], at)
  BY DEF View, Members, Becomes, Seen
<1>2. ASSUME Unique(x) PROVE AtOK(View(x))
  <2>1. /\ DOMAIN at \subseteq Song /\ \A s \in DOMAIN at : at[s] \in Positive
        /\ \A s, r \in DOMAIN at : at[s] = at[r] => s = r
    BY Domains DEF PlaylistInv, AtOK
  <2>2. DOMAIN tx[x].mine \subseteq Song /\ \A s \in DOMAIN tx[x].mine : tx[x].mine[s] \in Nat
    <3>1. tx[x].mine \in Partial(Nat)
      BY TxFacts
    <3> QED
      BY <3>1, Domains
  <2>3. \A s \in DOMAIN View(x) : View(x)[s] \in Positive /\ s \in Song
    BY <1>1, <2>1, <2>2 DEF Becomes, Seen, Positive, Out
  <2>4. View(x) = [s \in DOMAIN View(x) |-> View(x)[s]]
    BY DEF View
  <2>5. View(x) \in Partial(Positive)
    BY <2>3, <2>4, IntoPartial
  <2>6. ASSUME NEW s \in DOMAIN View(x), NEW r \in DOMAIN View(x), View(x)[s] = View(x)[r] PROVE s = r
    <3>1. CASE s \in DOMAIN tx[x].mine
      BY <1>2, <2>6, <3>1 DEF Unique, Twin
    <3>2. CASE r \in DOMAIN tx[x].mine
      BY <1>2, <2>6, <3>2 DEF Unique, Twin
    <3>3. CASE s \notin DOMAIN tx[x].mine /\ r \notin DOMAIN tx[x].mine
      BY <1>1, <2>1, <2>6, <3>3 DEF Becomes, Seen
    <3> QED
      BY <3>1, <3>2, <3>3
  <2> QED
    BY <2>5, <2>6 DEF AtOK
<1> QED
  BY <1>1, <1>2

LEMMA ReadIs ==
  ASSUME PlaylistInv, NEW x \in Tx, NEW y \in Tx \ {x}, Unique(x), DOMAIN tx[x].mine # {}
  PROVE  /\ Read(x, y) \in {"fresh", "stale", "wrong"}
         /\ Read(x, y) = "stale" => tx[y].kind \in Deleting
         /\ Read(x, y) # "wrong" /\ tx[y].pc \in {"apply", "insert", "commit"} =>
              Peaceful(tx[x], tx[y]) /\ Read(x, y) = IF tx[y].pc = "apply" THEN "stale" ELSE tx[y].read
<1>1. /\ tx[y].read \in {"fresh", "stale", "wrong"} /\ tx[x].read \in {"fresh", "stale", "wrong"}
      /\ tx[y].read = "stale" => tx[y].kind \in Deleting
      /\ tx[y].pc \in StepsOf(tx[y].kind) /\ tx[y].kind \in TxKinds
  BY TxFacts DEF Shape
<1>2. Deletes(x) = (tx[x].kind \in Deleting) /\ Deletes(y) = (tx[y].kind \in Deleting)
  BY DEF Deletes, Deleting
<1>3. CASE tx[y].read = "wrong"
  BY <1>3 DEF Read
<1>4. CASE tx[y].read # "wrong" /\ Confuses(x, y)
  BY <1>4 DEF Read
<1>5. CASE tx[y].read # "wrong" /\ ~Confuses(x, y)
  <2>1. Read(x, y) = IF tx[y].pc = "apply" THEN "stale" ELSE tx[y].read
    BY <1>5 DEF Read
  <2>2. tx[y].pc = "apply" => tx[x].kind \in Deleting /\ tx[y].kind \in Deleting
    BY <1>2, <1>5 DEF Confuses
  <2>3. ASSUME tx[y].pc \in {"apply", "insert", "commit"}
        PROVE  Peaceful(tx[x], tx[y])
    <3>1. tx[x].read # "wrong"
      BY <1>5, <2>3 DEF Confuses
    <3>2. tx[x].read = "stale" => tx[y].kind \in Deleting
      BY <1>2, <1>5, <2>2, <2>3 DEF Confuses
    <3>3. tx[y].read = "stale" => tx[x].kind \in Deleting
      <4> HAVE tx[y].read = "stale"
      <4>1. tx[y].pc \in {"apply", "commit"}
        BY <1>1, <2>3 DEF StepsOf, Deleting
      <4> QED
        BY <1>2, <1>5, <2>2, <4>1 DEF Confuses
    <3> QED
      BY <1>5, <2>2, <3>1, <3>2, <3>3 DEF Peaceful
  <2> QED
    BY <1>1, <2>1, <2>2, <2>3
<1> QED
  BY <1>3, <1>4, <1>5

LEMMA PutEntry ==
  ASSUME NEW f \in Partial(Entries), NEW s \in Song, NEW e \in Entries
  PROVE  Put(f, s, e) \in Partial(Entries)
<1>1. /\ DOMAIN Put(f, s, e) = DOMAIN f \cup {s}
      /\ Put(f, s, e) = [r \in DOMAIN Put(f, s, e) |-> Put(f, s, e)[r]]
      /\ Put(f, s, e)[s] = e /\ \A r \in DOMAIN f \ {s} : Put(f, s, e)[r] = f[r]
  BY DEF Put
<1>2. DOMAIN f \subseteq Song /\ \A r \in DOMAIN f : f[r] \in Entries
  BY Domains
<1> QED
  BY <1>1, <1>2, IntoPartial

LEMMA BinStays ==
  ASSUME PlaylistInv, NEW x \in Tx, Commit(x)
  PROVE  bin' \in Partial(Entries)
<1>1. bin \in Partial(Entries) /\ Subject(x) \in Song /\ tx[x].entry \in Entries
  BY TxFacts DEF PlaylistInv, Commit
<1>2. PICK f : f = bin
  OBVIOUS
<1>3. PICK s : s = Subject(x)
  OBVIOUS
<1>4. PICK e : e = tx[x].entry
  OBVIOUS
<1>5. Put(f, s, e) \in Partial(Entries)
  BY <1>1, <1>2, <1>3, <1>4, PutEntry
<1>6. Without(f, s) \in Partial(Entries)
  BY <1>1, <1>2, WithoutIs
<1>7. bin' = f \/ bin' = Put(f, s, e) \/ bin' = Without(f, s)
  <2>1. CASE Unique(x) /\ tx[x].kind = "trash"
    BY <1>2, <1>3, <1>4, <2>1 DEF Commit
  <2>2. CASE Unique(x) /\ tx[x].kind = "restore"
    BY <1>2, <1>3, <1>4, <2>2 DEF Commit
  <2>3. CASE ~Unique(x) \/ tx[x].kind \notin {"trash", "restore"}
    BY <1>2, <1>3, <1>4, <2>3 DEF Commit
  <2> QED
    BY <2>1, <2>2, <2>3
<1> QED
  BY <1>1, <1>2, <1>5, <1>6, <1>7

(* A commit that changes no place: the others are as they were.            *)
LEMMA CommitsNothing ==
  ASSUME PlaylistInv, NEW x \in Tx, Commit(x), ~Unique(x) \/ DOMAIN tx[x].mine = {}
  PROVE  PlaylistInv'
<1>1. at' = at
  <2>1. at = [s \in DOMAIN at |-> at[s]]
    BY Domains DEF PlaylistInv, AtOK
  <2>2. DOMAIN tx[x].mine = {} => View(x) = at
    BY <2>1 DEF View, Members
  <2> QED
    BY <2>2 DEF Commit
<1>2. tx' = [tx EXCEPT ![x] = NoTx]
  <2>1. \A y \in Tx \ {x} : [tx[y] EXCEPT !.read = Read(x, y)] = tx[y]
    <3> TAKE y \in Tx \ {x}
    <3>1. tx[y] \in TxRows /\ Read(x, y) = tx[y].read
      BY TxFacts DEF Read
    <3> QED
      BY <3>1 DEF TxRows
  <2>2. tx' = [y \in Tx |-> IF y = x THEN NoTx ELSE tx[y]]
    BY <2>1 DEF Commit
  <2>3. [tx EXCEPT ![x] = NoTx] = [y \in Tx |-> IF y = x THEN NoTx ELSE tx[y]]
    BY DEF PlaylistInv
  <2> QED
    BY <2>2, <2>3
<1>3. bin' \in Partial(Entries) /\ list' = list
  BY BinStays DEF Commit
<1>4. Single(NoTx, at, list) /\ ~HasList(NoTx) /\ DOMAIN NoTx.mine = {}
  BY NoTxGood
<1>5. \A y \in Tx \ {x} : Apart(NoTx, tx[y], at)
  BY <1>4, StaysApart
<1> QED
  BY <1>1, <1>2, <1>3, <1>4, <1>5, Beside

LEMMA CommitKeeps ==
  ASSUME PlaylistInv, NEW x \in Tx, Commit(x)
  PROVE  PlaylistInv'
<1>0. tx[x].pc = "commit" /\ list' = list
  BY DEF Commit
<1>1. CASE ~Unique(x) \/ DOMAIN tx[x].mine = {}
  BY <1>1, CommitsNothing
<1>2. CASE Unique(x) /\ DOMAIN tx[x].mine # {}
  <2>1. /\ tx[x] \in TxRows /\ Shape(tx[x], at) /\ Orderly(tx[x], at) /\ Subject(x) \in Song
        /\ tx[x].entry \in Entries
    BY <1>0, TxFacts
  <2>2. bin' \in Partial(Entries)
    BY BinStays
  <2>3. /\ tx' = [y \in Tx |-> tx'[y]] /\ tx'[x] = NoTx
        /\ \A y \in Tx \ {x} : tx'[y] = [tx[y] EXCEPT !.read = Read(x, y)]
    BY DEF Commit
  <2>4. \A y \in Tx \ {x} :
          /\ tx'[y] \in TxRows /\ Peer(tx'[y], tx[y]) /\ tx'[y].read = Read(x, y)
          /\ tx'[y].read = "stale" => tx[y].kind \in Deleting
          /\ InHand(tx'[y]) => /\ Peaceful(tx[x], tx[y]) /\ InHand(tx[y])
                               /\ tx'[y].read = IF tx[y].pc = "apply" THEN "stale" ELSE tx[y].read
          /\ ByHand(tx'[y], list')
    <3> TAKE y \in Tx \ {x}
    <3>1. tx[y] \in TxRows /\ ByHand(tx[y], list)
      BY TxFacts
    <3>2. /\ Read(x, y) \in {"fresh", "stale", "wrong"}
          /\ Read(x, y) = "stale" => tx[y].kind \in Deleting
          /\ Read(x, y) # "wrong" /\ tx[y].pc \in {"apply", "insert", "commit"} =>
              Peaceful(tx[x], tx[y]) /\ Read(x, y) = IF tx[y].pc = "apply" THEN "stale" ELSE tx[y].read
      BY <1>2, ReadIs
    <3>3. PICK r : r = Read(x, y)
      OBVIOUS
    <3>4. tx'[y] = [tx[y] EXCEPT !.read = r]
      BY <2>3, <3>3
    <3>5. tx'[y] \in TxRows /\ Peer(tx'[y], tx[y]) /\ tx'[y].read = r
      BY <3>1, <3>2, <3>3, <3>4 DEF TxRows, Peer
    <3>6. InHand(tx'[y]) => r # "wrong" /\ tx[y].pc \in {"apply", "insert", "commit"} /\ tx[y].kind # "reorder"
      BY <3>5 DEF InHand, Peer
    <3>7. InHand(tx'[y]) => /\ Peaceful(tx[x], tx[y]) /\ InHand(tx[y])
                            /\ tx'[y].read = IF tx[y].pc = "apply" THEN "stale" ELSE tx[y].read
      BY <3>2, <3>3, <3>5, <3>6 DEF InHand, Peaceful
    <3>8. ByHand(tx'[y], list')
      BY <1>0, <3>1, <3>5 DEF ByHand, Peer
    <3> QED
      BY <3>2, <3>3, <3>5, <3>7, <3>8
  <2>5. \A a, l : Single(NoTx, a, l) /\ ~HasList(NoTx) /\ DOMAIN NoTx.mine = {}
    BY NoTxGood
  <2>6. CASE list = "gone"
    <3>1. at' = at
      BY <1>2, <2>6 DEF Commit
    <3>2. \A y \in Tx \ {x} : Single(tx'[y], at', list')
      <4> TAKE y \in Tx \ {x}
      <4>1. PICK u : u = tx[y]
        OBVIOUS
      <4>2. PICK v : v = tx'[y]
        OBVIOUS
      <4>3. Shape(u, at) /\ Orderly(u, at)
        BY <4>1, TxFacts
      <4>4. /\ v \in TxRows /\ Peer(v, u) /\ (v.read = "stale" => u.kind \in Deleting)
            /\ InHand(v) => InHand(u) /\ v.read = IF u.pc = "apply" THEN "stale" ELSE u.read
            /\ ByHand(v, list')
        BY <2>4, <4>1, <4>2
      <4>5. Shape(v, at)
        BY <4>3, <4>4 DEF Shape, Peer
      <4>6. Orderly(v, at)
        <5> SUFFICES ASSUME InHand(v)
                     PROVE  /\ AmongThem(v, at) /\ WithOthers(v, at) /\ Lowers(v, at)
                            /\ Raises(v, at) /\ AddsLast(v, at)
          BY DEF Orderly
        <5>1. /\ AmongThem(u, at) /\ WithOthers(u, at) /\ Lowers(u, at) /\ Raises(u, at) /\ AddsLast(u, at)
          BY <4>3, <4>4 DEF Orderly
        <5>2. /\ Touched(v) = Touched(u) /\ \A p : New(v, p) = New(u, p) /\ Seen(v, at, p) = Seen(u, at, p)
              /\ v.pc = u.pc /\ v.kind = u.kind /\ v.mine = u.mine /\ v.place = u.place
          BY <4>4 DEF Touched, New, Seen, Peer
        <5>3. AmongThem(v, at)
          BY <5>1, <5>2 DEF AmongThem
        <5>4. WithOthers(v, at)
          BY <4>4, <5>1, <5>2 DEF WithOthers, Below, Above
        <5>5. Lowers(v, at)
          BY <4>4, <5>1, <5>2 DEF Lowers
        <5>6. Raises(v, at) /\ AddsLast(v, at)
          BY <5>1, <5>2 DEF Raises, AddsLast
        <5> QED
          BY <5>3, <5>4, <5>5, <5>6
      <4> QED
        BY <3>1, <4>2, <4>4, <4>5, <4>6 DEF Single
    <3>3. \A y \in Tx : Single(tx'[y], at', list')
      BY <2>3, <2>5, <3>2
    <3>4. ASSUME NEW y \in Tx, NEW z \in Tx, y # z PROVE Apart(tx'[y], tx'[z], at')
      <4>1. CASE y = x \/ z = x
        BY <2>3, <2>5, <4>1 DEF Apart
      <4>2. CASE y # x /\ z # x
        <5>1. Peer(tx'[y], tx[y]) /\ Peer(tx'[z], tx[z]) /\ Apart(tx[y], tx[z], at)
          BY <2>4, <3>4, <4>2 DEF PlaylistInv
        <5> QED
          BY <3>1, <5>1 DEF Apart, HasList, Peer
      <4> QED
        BY <4>1, <4>2
    <3>5. AtOK(at')
      BY <3>1 DEF PlaylistInv
    <3> QED
      BY <2>2, <2>3, <3>3, <3>4, <3>5 DEF PlaylistInv
  <2>7. CASE list # "gone"
    <3>1. PICK a : a = at
      OBVIOUS
    <3>2. PICK b : b = at'
      OBVIOUS
    <3>3. PICK t : t = tx[x]
      OBVIOUS
    <3>4. /\ Becomes(b, t, a) /\ AtOK(b) /\ AtOK(a)
      <4>1. at' = View(x)
        BY <1>2, <2>7 DEF Commit
      <4>2. Becomes(View(x), tx[x], at) /\ AtOK(View(x)) /\ AtOK(at)
        BY <1>2, ViewIs DEF PlaylistInv
      <4> QED
        BY <3>1, <3>2, <3>3, <4>1, <4>2
    <3>5. t \in TxRows /\ Shape(t, a) /\ Orderly(t, a) /\ t.pc = "commit"
      BY <1>0, <2>1, <3>1, <3>3
    <3>6. \A y \in Tx \ {x} : Single(tx'[y], at', list')
      <4> TAKE y \in Tx \ {x}
      <4>1. PICK u : u = tx[y]
        OBVIOUS
      <4>2. PICK v : v = tx'[y]
        OBVIOUS
      <4>3. u \in TxRows /\ Shape(u, a) /\ Orderly(u, a) /\ Apart(t, u, a)
        BY <3>1, <3>3, <4>1, TxFacts DEF PlaylistInv
      <4>4. /\ v \in TxRows /\ Peer(v, u) /\ (v.read = "stale" => u.kind \in Deleting)
            /\ InHand(v) => Peaceful(t, u) /\ v.read = IF u.pc = "apply" THEN "stale" ELSE u.read
            /\ ByHand(v, list')
        BY <2>4, <3>3, <4>1, <4>2
      <4>5. Shape(v, b)
        BY <3>4, <3>5, <4>3, <4>4, PeerShape
      <4>6. Orderly(v, b)
        <5> SUFFICES ASSUME InHand(v)
                     PROVE  /\ AmongThem(v, b) /\ WithOthers(v, b) /\ Lowers(v, b)
                            /\ Raises(v, b) /\ AddsLast(v, b)
          BY DEF Orderly
        <5>1. Peaceful(t, u) /\ v.read = IF u.pc = "apply" THEN "stale" ELSE u.read
          BY <4>4
        <5> QED
          BY <3>4, <3>5, <4>3, <4>4, <5>1, PeerOrder
      <4> QED
        BY <3>2, <4>2, <4>4, <4>5, <4>6 DEF Single
    <3>7. \A y \in Tx : Single(tx'[y], at', list')
      BY <2>3, <2>5, <3>6
    <3>8. ASSUME NEW y \in Tx, NEW z \in Tx, y # z PROVE Apart(tx'[y], tx'[z], at')
      <4>1. CASE y = x \/ z = x
        BY <2>3, <2>5, <4>1 DEF Apart
      <4>2. CASE y # x /\ z # x
        <5>1. /\ Peer(tx'[y], tx[y]) /\ Peer(tx'[z], tx[z]) /\ Apart(tx[y], tx[z], a)
              /\ Apart(t, tx[y], a) /\ Apart(t, tx[z], a)
          BY <2>4, <3>1, <3>3, <3>8, <4>2 DEF PlaylistInv
        <5>2. ~(HasList(tx'[y]) /\ HasList(tx'[z]))
          BY <5>1 DEF Apart, HasList, Peer
        <5>3. ASSUME NEW s \in DOMAIN b, s \in DOMAIN tx[y].mine, s \in DOMAIN tx[z].mine PROVE FALSE
          <6>1. s \notin DOMAIN a
            BY <5>1, <5>3 DEF Apart
          <6>2. HasList(t)
            BY <3>4, <3>5, <5>3, <6>1, NewMembers
          <6>3. tx[y] \in TxRows /\ Shape(tx[y], a)
            BY <3>1, <4>2, TxFacts
          <6>4. HasList(tx[y])
            BY <5>3, <6>1, <6>3 DEF Shape, HasList, TxRows, TxKinds, StepsOf
          <6> QED
            BY <5>1, <6>2, <6>4 DEF Apart
        <5> QED
          BY <3>2, <5>1, <5>2, <5>3 DEF Apart, Peer
      <4> QED
        BY <4>1, <4>2
    <3> QED
      BY <2>2, <2>3, <3>2, <3>4, <3>7, <3>8 DEF PlaylistInv
  <2> QED
    BY <2>6, <2>7
<1> QED
  BY <1>1, <1>2

-----------------------------------------------------------------------------
(* The whole.                                                              *)

LEMMA PlaylistBegins == PlaylistInit => PlaylistInv
<1> SUFFICES ASSUME PlaylistInit PROVE PlaylistInv
  OBVIOUS
<1>1. /\ at = [s \in {InList[n] : n \in DOMAIN InList} |-> CHOOSE n \in DOMAIN InList : InList[n] = s]
      /\ bin = [s \in {} |-> NoTx] /\ tx = [x \in Tx |-> NoTx]
  BY DEF PlaylistInit
<1>2. DOMAIN InList \subseteq Positive /\ \A n \in DOMAIN InList : InList[n] \in Song
  <2>1. InList \in Seq(Song)
    BY PlaylistAssumption
  <2>2. DOMAIN InList = 1..Len(InList) /\ Len(InList) \in Nat
    BY <2>1
  <2> QED
    BY <2>1, <2>2 DEF Positive
<1>3. /\ DOMAIN at = {InList[n] : n \in DOMAIN InList}
      /\ \A s \in DOMAIN at : at[s] \in DOMAIN InList /\ InList[at[s]] = s
      /\ at = [s \in DOMAIN at |-> at[s]]
  <2>1. ASSUME NEW s \in {InList[n] : n \in DOMAIN InList}
        PROVE  (CHOOSE n \in DOMAIN InList : InList[n] = s) \in DOMAIN InList
               /\ InList[CHOOSE n \in DOMAIN InList : InList[n] = s] = s
    BY <2>1
  <2> QED
    BY <1>1, <2>1
<1>4. AtOK(at)
  <2>1. DOMAIN at \subseteq Song /\ \A s \in DOMAIN at : at[s] \in Positive
    BY <1>2, <1>3
  <2>2. at \in Partial(Positive)
    BY <1>3, <2>1, IntoPartial
  <2>3. \A s, r \in DOMAIN at : at[s] = at[r] => s = r
    BY <1>3
  <2> QED
    BY <2>2, <2>3 DEF AtOK
<1>5. bin \in Partial(Entries)
  <2>1. bin = [s \in DOMAIN bin |-> bin[s]] /\ DOMAIN bin = {}
    BY <1>1
  <2> QED
    BY <2>1, IntoPartial
<1>6. /\ tx = [x \in Tx |-> tx[x]] /\ \A x \in Tx : tx[x] = NoTx
  BY <1>1
<1>7. \A x \in Tx : Single(tx[x], at, list)
  BY <1>6, NoTxGood
<1>8. \A x, y \in Tx : x # y => Apart(tx[x], tx[y], at)
  BY <1>6, NoTxGood DEF Apart
<1> QED
  BY <1>4, <1>5, <1>6, <1>7, <1>8 DEF PlaylistInv

LEMMA AsksKeep ==
  ASSUME PlaylistInv, NEW x \in Tx, Asks(x)
  PROVE  PlaylistInv'
<1>1. ASSUME NEW s \in Song, NEW k \in {"add", "remove", "drop", "trash", "restore"}, Begin(x, k, <<s>>)
      PROVE  PlaylistInv'
  <2>1. <<s>> \in Seq(Song) /\ <<s>> # << >> /\ k \in TxKinds \ {"none"}
    BY DEF TxKinds, Deleting
  <2> QED
    BY <1>1, <2>1, BeginKeeps
<1>2. ASSUME NEW s \in Song, NEW r \in Song, AddTracks(x, <<s, r>>)
      PROVE  PlaylistInv'
  <2>1. <<s, r>> \in Seq(Song) /\ <<s, r>> # << >> /\ "bulk" \in TxKinds \ {"none"} /\ Begin(x, "bulk", <<s, r>>)
    BY <1>2 DEF TxKinds, Deleting, AddTracks
  <2> QED
    BY <2>1, BeginKeeps
<1>3. ASSUME NEW q \in Orders(Members), ReorderTracks(x, q)
      PROVE  PlaylistInv'
  <2>1. DOMAIN at \subseteq Song
    BY Domains DEF PlaylistInv, AtOK
  <2>2. IsFiniteSet(Members) /\ Cardinality(Members) \in Nat
    BY <2>1, PlaylistAssumption, FS_Subset, FS_CardinalityType DEF Members
  <2>3. q \in [1..Cardinality(Members) -> Members]
    BY DEF Orders
  <2>4. q \in Seq(Song)
    <3>1. q \in [1..Cardinality(Members) -> Song]
      BY <2>1, <2>3 DEF Members
    <3> QED
      BY <2>2, <3>1
  <2>5. q # << >> /\ Begin(x, "reorder", q) /\ "reorder" \in TxKinds \ {"none"}
    BY <1>3 DEF ReorderTracks, TxKinds
  <2> QED
    BY <2>4, <2>5, BeginKeeps
<1> QED
  BY <1>1, <1>2, <1>3 DEF Asks, AddTrack, RemoveTrack, DeleteTrack, CommitTrash, RestoreTrash

LEMMA PlaylistStays == PlaylistInv /\ [PlaylistNext]_playlistVars => PlaylistInv'
<1> SUFFICES ASSUME PlaylistInv, [PlaylistNext]_playlistVars PROVE PlaylistInv'
  OBVIOUS
<1>1. CASE UNCHANGED playlistVars
  <2>1. at' = at /\ bin' = bin /\ tx' = tx /\ list' = list
    BY <1>1 DEF playlistVars
  <2> QED
    BY <2>1 DEF PlaylistInv
<1>2. ASSUME NEW x \in Tx, Asks(x) PROVE PlaylistInv'
  BY <1>2, AsksKeep
<1>3. ASSUME NEW x \in Tx, Step(x) PROVE PlaylistInv'
  BY <1>3, LockListKeeps, LockSongKeeps, LockOwnKeeps, LockRestoreKeeps, ShiftKeeps, CutKeeps, NumberKeeps,
     AppliedKeeps, InsertKeeps, MatchKeeps, SetPlaceKeeps, CommitKeeps, DeadlockKeeps, ApplyKeeps DEF Step
<1> QED
  BY <1>1, <1>2, <1>3, SetSmartRulesKeeps, DeletePlaylistKeeps DEF PlaylistNext

(* The step of OrderKept.                                                  *)
OrderKeptStep ==
  /\ \A s, r \in Members \cap DOMAIN at' :
       Before(at, s, r) = Before(at', s, r) \/ \E x \in Tx : Reordered(x) \/ Wrong(x)
  /\ \A s, r \in DOMAIN at' : at'[s] = at'[r] => s = r
  /\ \A x \in Tx, s \in DOMAIN at' \ Members : Added(x) =>
       list = "manual" /\ (Wrong(x) \/ \A r \in Members \cap DOMAIN at' : Before(at', r, s))

LEMMA CommitOrders ==
  ASSUME PlaylistInv, PlaylistInv', NEW x \in Tx, Commit(x)
  PROVE  OrderKeptStep
<1>0. tx[x].pc = "commit" /\ AtOK(at) /\ AtOK(at')
  BY DEF Commit, PlaylistInv
<1>1. \A s, r \in DOMAIN at' : at'[s] = at'[r] => s = r
  BY <1>0 DEF AtOK
<1>2. CASE at' = at
  BY <1>1, <1>2 DEF OrderKeptStep, Members
<1>3. CASE at' # at
  <2>1. at' = View(x) /\ Unique(x)
    BY <1>3 DEF Commit
  <2>2. /\ tx'[x].pc = "idle" /\ \A y \in Tx \ {x} : tx'[y] = [tx[y] EXCEPT !.read = Read(x, y)]
    BY DEF Commit, NoTx
  <2>3. \A y \in Tx \ {x} : tx'[y].pc = tx[y].pc
    <3> TAKE y \in Tx \ {x}
    <3>1. tx[y] \in TxRows
      BY TxFacts
    <3> QED
      BY <2>2, <3>1 DEF TxRows
  <2>4. Commits(x) /\ \A y \in Tx : Commits(y) => y = x
    BY <1>0, <2>2, <2>3 DEF Commits
  <2>5. PICK t : t = tx[x]
    OBVIOUS
  <2>6. PICK a : a = at
    OBVIOUS
  <2>7. PICK b : b = at'
    OBVIOUS
  <2>8. /\ t \in TxRows /\ Shape(t, a) /\ Orderly(t, a) /\ ByHand(t, list) /\ t.pc = "commit"
        /\ AtOK(a) /\ AtOK(b) /\ Becomes(b, t, a)
    <3>1. Becomes(View(x), tx[x], at)
      BY ViewIs
    <3>2. tx[x] \in TxRows /\ Shape(tx[x], at) /\ Orderly(tx[x], at) /\ ByHand(tx[x], list)
      BY TxFacts
    <3> QED
      BY <1>0, <2>1, <2>5, <2>6, <2>7, <3>1, <3>2
  <2>9. CASE t.kind = "reorder" \/ t.read = "wrong"
    <3>1. Reordered(x) \/ Wrong(x)
      BY <2>4, <2>5, <2>9 DEF Reordered, Wrong
    <3>2. ASSUME NEW y \in Tx, Added(y) PROVE list = "manual" /\ Wrong(y)
      <4>1. y = x /\ t.kind \in {"add", "bulk"}
        BY <2>4, <2>5, <3>2 DEF Added
      <4>2. list = "manual"
        BY <2>8, <4>1 DEF ByHand
      <4> QED
        BY <2>4, <2>5, <2>9, <4>1, <4>2 DEF Wrong
    <3> QED
      BY <1>1, <3>1, <3>2 DEF OrderKeptStep
  <2>10. CASE t.kind # "reorder" /\ t.read # "wrong"
    <3>1. \A s, r \in Members \cap DOMAIN at' : Before(at, s, r) = Before(at', s, r)
      <4> TAKE s, r \in Members \cap DOMAIN at'
      <4>1. a[s] < a[r] <=> b[s] < b[r]
        BY <2>6, <2>7, <2>8, <2>10, OrderStaysHere DEF Members
      <4> QED
        BY <2>6, <2>7, <4>1 DEF Before
    <3>2. ASSUME NEW y \in Tx, NEW s \in DOMAIN at' \ Members, Added(y)
          PROVE  list = "manual" /\ \A r \in Members \cap DOMAIN at' : Before(at', r, s)
      <4>1. y = x /\ t.kind \in {"add", "bulk"}
        BY <2>4, <2>5, <3>2 DEF Added
      <4>2. list = "manual"
        BY <2>8, <4>1 DEF ByHand
      <4>3. AddsLast(t, a)
        BY <2>8, <2>10 DEF Orderly, InHand
      <4>4. ASSUME NEW r \in Members \cap DOMAIN at' PROVE Before(at', r, s)
        <5>1. s \in DOMAIN t.mine \ DOMAIN a /\ b[s] = t.mine[s] /\ r \in DOMAIN a /\ r \in DOMAIN b
          BY <2>6, <2>7, <2>8 DEF Members, Becomes, Seen
        <5>2. b[r] = Seen(t, a, r)
          BY <2>8, <5>1 DEF Becomes
        <5>3. Seen(t, a, r) < t.mine[s]
          BY <4>1, <4>3, <5>1 DEF AddsLast
        <5> QED
          BY <2>7, <5>1, <5>2, <5>3 DEF Before
      <4> QED
        BY <4>2, <4>4
    <3> QED
      BY <1>1, <3>1, <3>2 DEF OrderKeptStep
  <2> QED
    BY <2>9, <2>10
<1> QED
  BY <1>2, <1>3

LEMMA OrdersStay ==
  ASSUME PlaylistInv, PlaylistInv', [PlaylistNext]_playlistVars
  PROVE  OrderKeptStep
<1>1. CASE at' = at
  BY <1>1 DEF OrderKeptStep, Members, PlaylistInv, AtOK
<1>2. CASE DeletePlaylist
  <2>1. DOMAIN at' = {}
    BY <1>2 DEF DeletePlaylist
  <2> QED
    BY <2>1 DEF OrderKeptStep
<1>3. CASE \E x \in Tx : Commit(x)
  BY <1>3, CommitOrders
<1>4. ASSUME NEW x \in Tx, Asks(x) \/ (Step(x) /\ ~Commit(x)) PROVE at' = at
  BY <1>4 DEF Asks, AddTrack, AddTracks, RemoveTrack, ReorderTracks, DeleteTrack, CommitTrash, RestoreTrash, Begin,
              Step, LockList, LockSong, LockOwn, LockRestore, Shift, Cut, Number, Applied, Insert, Match,
              SetPlace, Deadlock, Apply, Tables
<1>5. UNCHANGED playlistVars \/ SetSmartRules => at' = at
  BY DEF playlistVars, SetSmartRules
<1> QED
  BY <1>1, <1>2, <1>3, <1>4, <1>5 DEF PlaylistNext

(* Tracks keep their order, no two have one place, and what is added comes *)
(* last: but for a reordering, and for a call that was overtaken between   *)
(* reading and writing.                                                    *)
THEOREM OrderStays == PlaylistSpec => OrderKept
<1>1. PlaylistInv /\ [PlaylistNext]_playlistVars => [OrderKeptStep]_playlistVars
  BY PlaylistStays, OrdersStay
<1>2. PlaylistSpec => [][OrderKeptStep]_playlistVars
  BY <1>1, PlaylistBegins, PlaylistStays, PTL DEF PlaylistSpec
<1> QED
  BY <1>2 DEF OrderKept, OrderKeptStep
=============================================================================
