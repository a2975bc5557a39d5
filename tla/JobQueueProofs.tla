---------------------------- MODULE JobQueueProofs ----------------------------
(***************************************************************************)
(* The download queue, for any number of jobs, tracks and workers: types,  *)
(* cancellation, phantom work, the life cycle it implements, what a closed *)
(* job may still hold, and the shares of the pool.  One lemma per          *)
(* goroutine, after lemmas on the operators that several of them use.      *)
(***************************************************************************)
EXTENDS JobQueue, FiniteSetTheorems, WellFoundedInduction, TLAPS

LEMMA InitType == Init => TypeOK
<1> SUFFICES ASSUME Init PROVE TypeOK
  OBVIOUS
<1> USE JobQueueAssumption DEF JobQueueAssumption, Init
<1>1. RowsOK
  BY DEF RowsOK, Row, NoRows, NoRow
<1>2. ResolverOK
  BY DEF ResolverOK, IdleResolver
<1>3. DispatcherOK
  BY DEF DispatcherOK, IdleDispatcher, NoRows, NoRow, Row
<1>4. WorkersOK
  BY DEF WorkersOK, IdleWorker
<1>5. ApiOK
  BY DEF ApiOK, IdleApi
<1>6. ProcessOK
  BY DEF ProcessOK
<1> QED BY <1>1, <1>2, <1>3, <1>4, <1>5, <1>6 DEF TypeOK

LEMMA DerivedStatus ==
  ASSUME NEW S PROVE DeriveParentStatus(S) \in JobStatus
<1> DEFINE present == {n \in 1..7 : Precedence[n] \in S}
<1>1. CASE S \subseteq ItemTerminal
  BY <1>1 DEF DeriveParentStatus, ClosedStatus, JobStatus, JobTerminal
<1>2. CASE ~ S \subseteq ItemTerminal /\ present = {}
  BY <1>2 DEF DeriveParentStatus, JobStatus, JobActive
<1>3. CASE ~ S \subseteq ItemTerminal /\ present # {}
  <2>1. \E n \in present : \A k \in present : n <= k
    BY <1>3, SMT
  <2>2. PICK n \in 1..7 : n = CHOOSE x \in present : \A k \in present : x <= k
    BY <2>1
  <2>3. DeriveParentStatus(S) = Precedence[n]
    BY <1>3, <2>2 DEF DeriveParentStatus
  <2>4. Precedence[n] \in ProcessingBand
    BY SMT DEF Precedence, ProcessingBand
  <2> QED BY <2>3, <2>4 DEF JobStatus, JobActive
<1> QED BY <1>1, <1>2, <1>3

-----------------------------------------------------------------------------
(* The helpers keep the shape of what they change. *)

JobRows == [Job -> [status : JobStatus \cup {"absent"}, paused : BOOLEAN]]

LEMMA RowUpdates ==
  ASSUME NEW r \in Row
  PROVE  /\ \A s \in ItemStatus : [r EXCEPT !.status = s] \in Row
         /\ \A n \in Nat : [r EXCEPT !.attempts = n] \in Row
         /\ \A w \in {"none", "backoff", "session"} : [r EXCEPT !.wait = w] \in Row
         /\ [r EXCEPT !.staged = TRUE] \in Row
         /\ \A s \in ItemStatus, n \in Nat, w \in {"none", "backoff", "session"} :
              [r EXCEPT !.status = s, !.attempts = n, !.wait = w] \in Row
         /\ \A s \in ItemStatus, n \in Nat, w \in {"none", "backoff", "session"} :
              [r EXCEPT !.status = s, !.wait = w, !.attempts = n] \in Row
  BY DEF Row

(* What an unchanged variable leaves unchanged. *)
LEMMA Frame ==
  ASSUME TypeOK
  PROVE  /\ UNCHANGED dbVars => RowsOK'
         /\ UNCHANGED resolver => ResolverOK'
         /\ UNCHANGED dispatcher => DispatcherOK'
         /\ UNCHANGED worker => WorkersOK'
         /\ UNCHANGED api => ApiOK'
         /\ UNCHANGED <<runs, announced, queue, queuePaused, process>>
              /\ budget' \in [{"crash", "wait", "call"} -> Nat] => ProcessOK'
  BY DEF TypeOK, dbVars, RowsOK, ResolverOK, DispatcherOK, WorkersOK, ApiOK, ProcessOK

LEMMA SetStatusType ==
  ASSUME RowsOK, NEW j \in Job, NEW s \in JobStatus, SetStatus(j, s)
  PROVE  job' \in JobRows
  BY DEF RowsOK, SetStatus, StatusAfter, JobRows

LEMMA CancelPendingType ==
  ASSUME RowsOK, NEW j \in Job, CancelPendingItems(j)
  PROVE  item' \in [Item -> Row]
  BY DEF RowsOK, CancelPendingItems, CancelledRow, Row, ItemStatus, ItemTerminal

LEMMA EndRunType ==
  ASSUME WorkersOK, ProcessOK, NEW j \in Job, EndRun(j)
  PROVE  WorkersOK' /\ runs' \subseteq Job
  BY DEF EndRun, WorkersOK, ProcessOK

LEMMA UpdateItemType ==
  ASSUME RowsOK, NEW i \in Item, NEW s \in ItemStatus, NEW n \in Nat,
         NEW w \in {"none", "backoff", "session"}, UpdateItem(i, s, n, w)
  PROVE  item' \in [Item -> Row]
  BY DEF RowsOK, UpdateItem, Row

LEMMA LeaveType ==
  ASSUME WorkersOK, NEW i \in Item, Leave(i)
  PROVE  WorkersOK'
  BY DEF WorkersOK, Leave, IdleWorker

LEMMA ResetType ==
  ASSUME RowsOK, ResetInterrupted
  PROVE  RowsOK'
  BY DEF RowsOK, ResetInterrupted, Row, ItemStatus, ItemParked, JobStatus, JobActive

LEMMA ForgetType ==
  ASSUME ForgetMemory
  PROVE  ResolverOK' /\ DispatcherOK' /\ WorkersOK' /\ runs' \subseteq Job /\ queue' \subseteq Job
  BY DEF ForgetMemory, ResolverOK, DispatcherOK, WorkersOK, IdleResolver, IdleDispatcher,
         IdleWorker, NoRows, NoRow, Row

LEMMA SpendType ==
  ASSUME ProcessOK, NEW what \in {"crash", "wait", "call"}, Spend(what)
  PROVE  budget' \in [{"crash", "wait", "call"} -> Nat]
  BY DEF ProcessOK, Spend

-----------------------------------------------------------------------------
(* Every step keeps the types. *)

LEMMA ResolverType ==
  ASSUME TypeOK, ResolverStep
  PROVE  TypeOK'
<1> USE DEF TypeOK
<1>1. ASSUME NEW j \in Job, ResolverTake(j) PROVE TypeOK'
  BY <1>1 DEF ResolverTake, RowsOK, ResolverOK, DispatcherOK, WorkersOK, ApiOK, ProcessOK, dbVars
<1>2. CASE ResolverRegister
  BY <1>2 DEF ResolverRegister, RowsOK, ResolverOK, DispatcherOK, WorkersOK, ApiOK, ProcessOK, dbVars
<1>3. ASSUME NEW s \in ResolveStages, ResolverStage(s) PROVE TypeOK'
  BY <1>3, SetStatusType, JobQueueAssumption DEF ResolverStage, RowsOK, JobRows, ResolverOK, DispatcherOK, WorkersOK, ApiOK, ProcessOK, JobQueueAssumption, JobStatus, JobActive
<1>4. CASE ResolverFail
  BY <1>4, SetStatusType, CancelPendingType, EndRunType
     DEF ResolverFail, RowsOK, JobRows, ResolverOK, IdleResolver, DispatcherOK, ApiOK, ProcessOK, JobStatus, JobTerminal
<1>5. CASE ResolverInsert
  <2>1. item' \in [Item -> Row]
    BY <1>5, RowUpdates DEF ResolverInsert, RowsOK, ItemStatus, ItemParked
  <2>2. RowsOK' /\ ResolverOK'
    BY <1>5, <2>1 DEF ResolverInsert, RowsOK, ResolverOK
  <2>3. ProcessOK'
    BY <1>5 DEF ResolverInsert, ProcessOK
  <2> QED BY <1>5, <2>2, <2>3, Frame DEF ResolverInsert
<1>6. CASE ResolverMatching
  BY <1>6, SetStatusType DEF ResolverMatching, RowsOK, JobRows, ResolverOK, IdleResolver, DispatcherOK, WorkersOK, ApiOK, ProcessOK, JobStatus, JobActive, ProcessingBand
<1>7. CASE ResolverEmpty
  BY <1>7, SetStatusType, EndRunType
     DEF ResolverEmpty, RowsOK, JobRows, ResolverOK, IdleResolver, DispatcherOK, WorkersOK, ApiOK, ProcessOK, JobStatus, JobTerminal
<1> QED BY <1>1, <1>2, <1>3, <1>4, <1>5, <1>6, <1>7 DEF ResolverStep

LEMMA Least ==
  ASSUME NEW S, S \subseteq Nat, S # {}
  PROVE  \E m \in S : \A n \in S : m <= n
<1>1. PICK m \in S : \A n \in S : ~(<<n, m>> \in OpToRel(<, Nat))
  BY NatLessThanWellFounded, WFMin
<1>2. \A n \in S : ~(n < m)
  BY <1>1 DEF OpToRel
<1> QED BY <1>2

LEMMA FirstReady ==
  ASSUME NEW j, Ready(j) # {}, TypeOK
  PROVE  NextReady(j) \in Ready(j)
<1> DEFINE places == {c.item : c \in Ready(j)}
<1>1. \A c \in Ready(j) : c.item \in Nat
  BY JobQueueAssumption DEF Ready, Startable, TypeOK, DispatcherOK
<1>2. PICK m \in places : \A n \in places : m <= n
  BY <1>1, Least
<1>3. \E c \in Ready(j) : \A d \in Ready(j) : c.item <= d.item
  BY <1>2
<1> QED BY <1>3, Zenon DEF NextReady

LEMMA ForemostJob ==
  ASSUME NEW S \in SUBSET Job, S # {}, TypeOK
  PROVE  Foremost(S) \in S
<1> DEFINE ranks == {dispatcher.rank[j] : j \in S}
<1>1. ranks \subseteq Nat /\ ranks # {}
  BY DEF TypeOK, DispatcherOK
<1> HIDE DEF ranks
<1>2. PICK m \in ranks : \A n \in ranks : m <= n
  BY <1>1, Least
<1> USE DEF ranks
<1>3. \E j \in S : \A k \in S : dispatcher.rank[j] <= dispatcher.rank[k]
  BY <1>2
<1> QED BY <1>3, Zenon DEF Foremost

(* A pass that goes over its candidates hands over one ready item or none. *)
LEMMA PassHands ==
  ASSUME TypeOK, DispatchFirst \/ DispatchRest
  PROVE  \/ /\ UNCHANGED worker
            /\ \/ HasItsShare(Foremost(dispatcher.todo))
               \/ Ready(Foremost(dispatcher.todo)) = {}
            /\ dispatcher' = [dispatcher EXCEPT !.todo = @ \ {Foremost(dispatcher.todo)}]
         \/ \E c \in Startable : /\ HandOver(c)
                                 /\ dispatcher.todo = {} \/ ~HasItsShare(JobOf[c.item])
<1>1. ASSUME NEW j, Ready(j) # {}, HandOver(NextReady(j)), dispatcher.todo = {} \/ ~HasItsShare(j)
      PROVE  \E c \in Startable : /\ HandOver(c)
                                  /\ dispatcher.todo = {} \/ ~HasItsShare(JobOf[c.item])
  <2>1. NextReady(j) \in Startable /\ JobOf[NextReady(j).item] = j
    BY <1>1, FirstReady DEF Ready
  <2> QED BY <1>1, <2>1, Zenon
<1>2. CASE DispatchFirst
  BY <1>1, <1>2, Zenon DEF DispatchFirst
<1>3. CASE DispatchRest
  <2> DEFINE S == {JobOf[c.item] : c \in Startable}
  <2>1. S # {} /\ HandOver(NextReady(RestOf)) /\ dispatcher.todo = {}
    BY <1>3 DEF DispatchRest, InRest
  <2>2. \A c \in Startable : JobOf[c.item] \in Job
    BY JobQueueAssumption DEF Startable, TypeOK, DispatcherOK
  <2>3. RestOf \in S
    <3>1. S \in SUBSET Job
      BY <2>2
    <3> QED BY <2>1, <3>1, ForemostJob DEF RestOf
  <2>4. Ready(RestOf) # {}
    BY <2>3 DEF Ready
  <2> QED BY <1>1, <2>1, <2>4
<1> QED BY <1>2, <1>3

LEMMA HandOverEffect ==
  ASSUME TypeOK, NEW c \in Startable, HandOver(c)
  PROVE  /\ c \in dispatcher.ready /\ c.item \in Item /\ JobOf[c.item] \in Job
         /\ worker[c.item].pc = "idle"
         /\ worker'[c.item] = [pc |-> "spawned", cancelled |-> FALSE, tries |-> c.tries]
         /\ \A i \in Item \ {c.item} : worker'[i] = worker[i]
         /\ dispatcher'.pc \in {"first", "rest"} /\ dispatcher'.rows = dispatcher.rows
         /\ dispatcher'.ready = {d \in dispatcher.ready : d.item # c.item}
         /\ dispatcher'.busy = dispatcher.busy \cup {JobOf[c.item]}
         /\ dispatcher'.todo = dispatcher.todo \ {JobOf[c.item]}
         /\ dispatcher'.cands = dispatcher.cands
         /\ WorkersOK' /\ DispatcherOK'
<1>1. c \in dispatcher.ready /\ c.item \in Item /\ c.tries \in Nat /\ JobOf[c.item] \in Job
  BY JobQueueAssumption DEF Startable, TypeOK, DispatcherOK
<1>2. worker[c.item].pc = "idle"
  BY <1>1 DEF Startable, InFlight
<1>3. /\ worker'[c.item] = [pc |-> "spawned", cancelled |-> FALSE, tries |-> c.tries]
      /\ \A i \in Item \ {c.item} : worker'[i] = worker[i]
      /\ WorkersOK'
  BY <1>1 DEF HandOver, TypeOK, WorkersOK
<1>4. /\ dispatcher'.pc \in {"first", "rest"} /\ dispatcher'.rows = dispatcher.rows
      /\ dispatcher'.ready = {d \in dispatcher.ready : d.item # c.item}
      /\ dispatcher'.busy = dispatcher.busy \cup {JobOf[c.item]}
      /\ dispatcher'.todo = dispatcher.todo \ {JobOf[c.item]}
      /\ dispatcher'.cands = dispatcher.cands
  BY DEF HandOver, TypeOK, DispatcherOK
<1>5. DispatcherOK'
  BY <1>1, <1>4 DEF HandOver, TypeOK, DispatcherOK
<1> QED BY <1>1, <1>2, <1>3, <1>4, <1>5

(* The steps of a pass after the lists are read. *)
Passing == DispatchCount \/ DispatchFirst \/ DispatchRest \/ DispatchReturn

LEMMA PassStep ==
  ASSUME TypeOK, Passing
  PROVE  /\ UNCHANGED <<job, item, runs, announced, queue, resolver, api, process>>
         /\ dispatcher.pc # "idle" /\ dispatcher'.pc # "listed"
         /\ dispatcher'.ready \subseteq dispatcher.ready
         /\ dispatcher'.rows \in {dispatcher.rows, NoRows}
         /\ \A i \in Item : \/ worker'[i] = worker[i]
                            \/ /\ \E c \in dispatcher.ready : c.item = i
                               /\ worker[i].pc = "idle"
                               /\ worker'[i].pc = "spawned" /\ ~worker'[i].cancelled
<1>1. /\ UNCHANGED <<job, item, runs, announced, queue, resolver, api, process>>
      /\ dispatcher.pc # "idle"
  BY DEF Passing, DispatchCount, DispatchFirst, DispatchRest, DispatchReturn, InRest, dbVars
<1>2. CASE DispatchCount
  <2>1. UNCHANGED worker
    BY <1>2 DEF DispatchCount
  <2>2. /\ dispatcher'.pc # "listed" /\ dispatcher'.ready \subseteq dispatcher.ready
        /\ dispatcher'.rows \in {dispatcher.rows, NoRows}
    <3>1. CASE dispatcher' = IdleDispatcher
      BY <3>1 DEF IdleDispatcher
    <3>2. ASSUME NEW todo, NEW cands, NEW rank, NEW busy,
                 dispatcher' = [dispatcher EXCEPT !.pc = "first", !.todo = todo,
                   !.cands = cands, !.rank = rank, !.busy = busy]
          PROVE  /\ dispatcher'.pc # "listed" /\ dispatcher'.ready \subseteq dispatcher.ready
                 /\ dispatcher'.rows \in {dispatcher.rows, NoRows}
      BY <3>2 DEF TypeOK, DispatcherOK
    <3> QED BY <1>2, <3>1, <3>2 DEF DispatchCount
  <2> QED BY <1>1, <2>1, <2>2
<1>3. CASE DispatchReturn
  BY <1>1, <1>3 DEF DispatchReturn, IdleDispatcher
<1>4. CASE DispatchFirst \/ DispatchRest
  <2>1. dispatcher.pc \in {"first", "rest"}
    BY <1>4 DEF DispatchFirst, DispatchRest, InRest
  <2>2. ASSUME NEW S, UNCHANGED worker, dispatcher' = [dispatcher EXCEPT !.todo = @ \ S]
        PROVE  /\ dispatcher'.pc # "listed" /\ dispatcher'.ready \subseteq dispatcher.ready
               /\ dispatcher'.rows \in {dispatcher.rows, NoRows}
    BY <2>1, <2>2 DEF TypeOK, DispatcherOK
  <2>3. ASSUME NEW c \in Startable, HandOver(c)
        PROVE  /\ dispatcher'.pc # "listed" /\ dispatcher'.ready \subseteq dispatcher.ready
               /\ dispatcher'.rows \in {dispatcher.rows, NoRows}
               /\ \A i \in Item : \/ worker'[i] = worker[i]
                                  \/ /\ \E d \in dispatcher.ready : d.item = i
                                     /\ worker[i].pc = "idle"
                                     /\ worker'[i].pc = "spawned" /\ ~worker'[i].cancelled
    <3>1. dispatcher'.pc \in {"first", "rest"} /\ dispatcher'.rows = dispatcher.rows
          /\ dispatcher'.ready = {d \in dispatcher.ready : d.item # c.item}
      BY <2>3, HandOverEffect
    <3>2. /\ c \in dispatcher.ready /\ worker[c.item].pc = "idle"
          /\ worker'[c.item] = [pc |-> "spawned", cancelled |-> FALSE, tries |-> c.tries]
          /\ \A i \in Item \ {c.item} : worker'[i] = worker[i]
      BY <2>3, HandOverEffect
    <3> QED BY <3>1, <3>2
  <2> QED BY <1>1, <1>4, <2>2, <2>3, PassHands
<1> QED BY <1>2, <1>3, <1>4 DEF Passing

LEMMA DispatcherType ==
  ASSUME TypeOK, DispatcherStep
  PROVE  TypeOK'
<1> USE DEF TypeOK
<1>1. CASE DispatchBegin
  BY <1>1 DEF DispatchBegin, Unfinished, IdleDispatcher, NoRows, NoRow, Row, RowsOK, ResolverOK, DispatcherOK, WorkersOK, ApiOK, ProcessOK, dbVars
<1>2. ASSUME NEW j \in Job, DispatchList(j) PROVE TypeOK'
  BY <1>2 DEF DispatchList, NoRow, Row, RowsOK, ResolverOK, DispatcherOK, WorkersOK, ApiOK, ProcessOK, dbVars
<1>3. CASE DispatchEvaluate
  <2> DEFINE j == dispatcher.cur
             d == DeriveParentStatus({dispatcher.rows[i].status : i \in ItemsOf(j)})
  <2>1. j \in Job /\ d \in JobStatus
    BY <1>3, DerivedStatus DEF DispatchEvaluate, DispatcherOK
  <2>2. job' \in JobRows
    BY <1>3, <2>1, SetStatusType DEF DispatchEvaluate
  <2>3. DispatcherOK'
    <3>1. PICK g \in Gates :
            dispatcher' = [dispatcher EXCEPT !.pc = "scan", !.cur = 0, !.rows = NoRows,
              !.ready = @ \cup {[item |-> i, tries |-> dispatcher.rows[i].attempts] :
                   i \in {k \in ItemsOf(j) \ InFlight : IsReady(dispatcher.rows[k], g)}}]
      BY <1>3, Zenon DEF DispatchEvaluate
    <3>2. {[item |-> i, tries |-> dispatcher.rows[i].attempts] :
             i \in {k \in ItemsOf(j) \ InFlight : IsReady(dispatcher.rows[k], g)}}
            \subseteq [item : Item, tries : Nat]
      BY DEF ItemsOf, DispatcherOK, Row
    <3> QED BY <3>1, <3>2 DEF DispatcherOK, NoRows, NoRow, Row
  <2> QED BY <1>3, <2>2, <2>3
          DEF DispatchEvaluate, RowsOK, JobRows, ResolverOK, WorkersOK, ApiOK, ProcessOK
<1>4. CASE DispatchCount
  <2>1. DispatcherOK'
    <3>1. CASE dispatcher' = IdleDispatcher
      BY <3>1 DEF DispatcherOK, IdleDispatcher, NoRows, NoRow, Row
    <3>2. ASSUME NEW rank \in Ranks,
                 dispatcher' = [dispatcher EXCEPT !.pc = "first", !.todo = Candidates,
                   !.cands = Candidates, !.rank = rank, !.busy = {JobOf[i] : i \in InFlight}]
          PROVE  DispatcherOK'
      <4>1. Candidates \subseteq Job /\ {JobOf[i] : i \in InFlight} \subseteq Job
        BY JobQueueAssumption DEF Candidates, InFlight, DispatcherOK
      <4>2. rank \in [Job -> Nat]
        BY DEF Ranks
      <4> QED BY <3>2, <4>1, <4>2 DEF DispatcherOK
    <3> QED BY <1>4, <3>1, <3>2 DEF DispatchCount
  <2> QED BY <1>4, <2>1, Frame DEF DispatchCount, ProcessOK
<1>5. CASE DispatchFirst \/ DispatchRest
  <2>1. WorkersOK' /\ DispatcherOK'
    <3>1. ASSUME NEW S, UNCHANGED worker, dispatcher' = [dispatcher EXCEPT !.todo = @ \ S]
          PROVE  WorkersOK' /\ DispatcherOK'
      BY <3>1 DEF WorkersOK, DispatcherOK
    <3> QED BY <1>5, <3>1, PassHands, HandOverEffect
  <2> QED BY <1>5, <2>1, Frame DEF DispatchFirst, DispatchRest, ProcessOK
<1>6. CASE DispatchReturn
  <2>1. DispatcherOK'
    BY <1>6 DEF DispatchReturn, DispatcherOK, IdleDispatcher, NoRows, NoRow, Row
  <2> QED BY <1>6, <2>1, Frame DEF DispatchReturn, ProcessOK
<1> QED BY <1>1, <1>2, <1>3, <1>4, <1>5, <1>6 DEF DispatcherStep

LEMMA WorkerType ==
  ASSUME TypeOK, NEW i \in Item, WorkerStep(i)
  PROVE  TypeOK'
<1> USE JobQueueAssumption DEF TypeOK, JobQueueAssumption
<1>1. CASE WorkerRegister(i)
  <2>1. WorkersOK'
    <3> DEFINE Local == [pc : Attempting \cup {"idle", "spawned", "rejected"},
                         cancelled : BOOLEAN, tries : Nat]
    <3>1. PICK b \in BOOLEAN :
            worker' = [worker EXCEPT ![i] = [worker[i] EXCEPT !.pc = "entered", !.cancelled = b]]
      BY <1>1, Zenon DEF WorkerRegister
    <3>2. [worker[i] EXCEPT !.pc = "entered", !.cancelled = b] \in Local
      BY DEF WorkersOK, Attempting
    <3> QED BY <3>1, <3>2 DEF WorkersOK
  <2>2. ProcessOK'
    BY <1>1 DEF WorkerRegister, ProcessOK
  <2> QED BY <1>1, <2>1, <2>2, Frame DEF WorkerRegister
<1>2. CASE WorkerAdvance(i)
  <2>1. item' \in [Item -> Row]
    <3> DEFINE next == NextStage[worker[i].pc]
    <3>1. next \in ItemStatus \cup {"staged"}
      BY <1>2 DEF WorkerAdvance, NextStage, ItemStatus, ItemWorking
    <3>2. item[i] \in Row /\ worker[i].tries + 1 \in Nat
      BY DEF RowsOK, WorkersOK
    <3>3. \E r \in Row : item' = [item EXCEPT ![i] = r]
      <4>1. CASE next = "matching"
        BY <1>2, <3>1, <3>2, <4>1, RowUpdates DEF WorkerAdvance, ItemStatus, ItemWorking
      <4>2. CASE next = "staged"
        BY <1>2, <3>2, <4>2, RowUpdates DEF WorkerAdvance
      <4>3. CASE next \notin {"matching", "staged"}
        BY <1>2, <3>1, <3>2, <4>3, RowUpdates DEF WorkerAdvance
      <4> QED BY <4>1, <4>2, <4>3
    <3> QED BY <3>3 DEF RowsOK
  <2>2. WorkersOK'
    BY <1>2 DEF WorkerAdvance, NextStage, WorkersOK, Attempting, AtItem, ItemWorking
  <2> QED BY <1>2, <2>1, <2>2 DEF WorkerAdvance, RowsOK, ResolverOK, DispatcherOK, ApiOK, ProcessOK
<1>3. CASE WorkerRejected(i)
  <2>1. WorkersOK'
    BY <1>3 DEF WorkerRejected, WorkersOK
  <2>2. ProcessOK'
    BY <1>3 DEF WorkerRejected, ProcessOK
  <2> QED BY <1>3, <2>1, <2>2, Frame DEF WorkerRejected
<1>4. CASE WorkerStore(i)
  <2>1. item' \in [Item -> Row]
    <3>1. item[i].attempts \in Nat
      BY DEF RowsOK, Row
    <3>2. CASE Accepts(i, "completed")
      BY <1>4, <3>1, <3>2, UpdateItemType DEF WorkerStore, ItemStatus, ItemTerminal
    <3>3. CASE ~Accepts(i, "completed")
      BY <1>4, <3>3 DEF WorkerStore, RowsOK
    <3> QED BY <3>2, <3>3
  <2>2. WorkersOK'
    BY <1>4, LeaveType DEF WorkerStore, WorkersOK
  <2> QED BY <1>4, <2>1, <2>2 DEF WorkerStore, RowsOK, ResolverOK, DispatcherOK, ApiOK, ProcessOK
<1>5. ASSUME NEW s \in ItemStatus, NEW n \in Nat, NEW w \in {"none", "backoff", "session"},
             WorkerFinish(i, s, n, w), budget' \in [{"crash", "wait", "call"} -> Nat]
      PROVE  TypeOK'
  BY <1>5, UpdateItemType, LeaveType
     DEF WorkerFinish, RowsOK, ResolverOK, DispatcherOK, ApiOK, ProcessOK
<1>6. item[i].attempts \in Nat /\ item[i].wait \in {"none", "backoff", "session"}
      /\ worker[i].tries \in Nat /\ worker[i].tries + 1 \in Nat
  BY DEF RowsOK, Row, WorkersOK
<1>7. ItemTerminal \subseteq ItemStatus /\ ItemParked \subseteq ItemStatus
  BY DEF ItemStatus
<1>8. CASE WorkerSkip(i)
  BY <1>5, <1>6, <1>7, <1>8 DEF WorkerSkip, ProcessOK, ItemTerminal
<1>9. CASE WorkerFail(i)
  BY <1>5, <1>6, <1>7, <1>9 DEF WorkerFail, ProcessOK, ItemTerminal
<1>10. CASE WorkerRetry(i)
  BY <1>5, <1>6, <1>7, <1>10 DEF WorkerRetry, ProcessOK, ItemTerminal, ItemParked
<1>11. CASE WorkerWait(i)
  BY <1>5, <1>6, <1>7, <1>11, SpendType DEF WorkerWait, ItemParked
<1>12. CASE WorkerSessionWait(i)
  BY <1>5, <1>6, <1>7, <1>12, SpendType DEF WorkerSessionWait, ItemParked
<1>13. CASE WorkerCancelled(i)
  BY <1>5, <1>6, <1>7, <1>13 DEF WorkerCancelled, ProcessOK, ItemTerminal
<1>14. CASE WorkerAbandon(i)
  BY <1>14, LeaveType DEF WorkerAbandon, RowsOK, ResolverOK, DispatcherOK, ApiOK, ProcessOK, dbVars
<1> QED BY <1>1, <1>2, <1>3, <1>4, <1>8, <1>9, <1>10, <1>11, <1>12, <1>13, <1>14 DEF WorkerStep

LEMMA ApiType ==
  ASSUME TypeOK, ApiCall \/ ApiStep \/ CancelAborted \/ \E j \in Job : Enqueue(j)
  PROVE  TypeOK'
<1> USE JobQueueAssumption DEF TypeOK, JobQueueAssumption
<1>1. ASSUME NEW j \in Job, Enqueue(j) PROVE TypeOK'
  BY <1>1 DEF Enqueue, RowsOK, JobStatus, JobActive, ResolverOK, DispatcherOK, WorkersOK, ApiOK, ProcessOK
<1>2. ASSUME NEW j \in Job, Cancel(j) PROVE TypeOK'
  BY <1>2, SetStatusType, SpendType DEF Cancel, Call, RowsOK, JobRows, JobStatus, JobTerminal, ResolverOK, DispatcherOK, WorkersOK, ApiOK, ProcessOK, memVars
<1>3. ASSUME NEW j \in Job, Pause(j) \/ Resume(j) PROVE TypeOK'
  <2>1. PICK op \in {"pause", "resume"}, value \in BOOLEAN : SetPaused(j, op, value)
    BY <1>3 DEF Pause, Resume
  <2>2. RowsOK'
    BY <2>1 DEF SetPaused, RowsOK
  <2>3. ProcessOK'
    BY <2>1, SpendType DEF SetPaused, Call, ProcessOK, memVars
  <2> QED BY <2>1, <2>2, <2>3, Frame DEF SetPaused, memVars
<1>4. ASSUME NEW j \in Job, NEW R \in SUBSET Item, ResetRows(j, R), Spend("call") PROVE TypeOK'
  <2>1. ASSUME NEW i \in Item
        PROVE  [item[i] EXCEPT !.status = "pending", !.attempts = 0, !.wait = "none"] \in Row
    BY RowUpdates DEF RowsOK, ItemStatus, ItemParked
  <2>2. item' \in [Item -> Row]
    BY <1>4, <2>1 DEF ResetRows, RowsOK
  <2>3. RowsOK' /\ ApiOK' /\ ProcessOK'
    BY <1>4, <2>2, SpendType DEF ResetRows, RowsOK, ApiOK, ProcessOK, memVars
  <2> QED BY <1>4, <2>3, Frame DEF ResetRows, memVars
<1>5. ASSUME NEW j \in Job, RetryFailed(j) PROVE TypeOK'
  BY <1>4, <1>5 DEF RetryFailed, Call, ItemsOf
<1>6. ASSUME NEW i \in Item, RetryItem(i) PROVE TypeOK'
  <2> DEFINE R == {i} \cap {k \in Item : item[k].status \in {"failed", "retry_wait"}}
  <2>1. JobOf[i] \in Job /\ R \in SUBSET Item
    OBVIOUS
  <2>2. ResetRows(JobOf[i], R) /\ Spend("call")
    BY <1>6 DEF RetryItem, Call
  <2> QED BY <1>4, <2>1, <2>2
<1>7. CASE WakeSessionWaiters
  <2>1. item' \in [Item -> Row]
    BY <1>7, RowUpdates DEF WakeSessionWaiters, RowsOK
  <2>2. RowsOK' /\ ProcessOK'
    BY <1>7, <2>1, SpendType DEF WakeSessionWaiters, Call, RowsOK, ProcessOK, memVars
  <2> QED BY <1>7, <2>2, Frame DEF WakeSessionWaiters, memVars
<1>8. CASE SetQueuePaused
  BY <1>8, SpendType DEF SetQueuePaused, Call, RowsOK, ResolverOK, DispatcherOK, WorkersOK, ApiOK, ProcessOK, dbVars
<1>9. CASE CancelItems
  BY <1>9, CancelPendingType DEF CancelItems, RowsOK, ResolverOK, DispatcherOK, WorkersOK, ApiOK, ProcessOK, memVars
<1>10. CASE CancelRun
  BY <1>10, EndRunType DEF CancelRun, IdleApi, RowsOK, ResolverOK, DispatcherOK, ApiOK, ProcessOK, dbVars
<1>11. CASE Reopen
  <2>1. RowsOK'
    <3>1. api.job \in Job /\ "queued" \in JobStatus
      BY <1>11 DEF Reopen, ApiOK, JobStatus, JobActive
    <3>2. CASE job[api.job].status \in {"failed", "completed"}
      BY <1>11, <3>1, <3>2 DEF Reopen, RowsOK
    <3>3. CASE job[api.job].status \notin {"failed", "completed"}
      BY <1>11, <3>3 DEF Reopen, RowsOK
    <3> QED BY <3>2, <3>3
  <2>2. ApiOK' /\ ProcessOK'
    BY <1>11 DEF Reopen, IdleApi, ApiOK, ProcessOK, memVars
  <2> QED BY <1>11, <2>1, <2>2, Frame DEF Reopen, memVars
<1>12. CASE CancelAborted
  BY <1>12 DEF CancelAborted, IdleApi, RowsOK, ResolverOK, DispatcherOK, WorkersOK, ApiOK, ProcessOK, memVars, dbVars
<1> QED BY <1>1, <1>2, <1>3, <1>5, <1>6, <1>7, <1>8, <1>9, <1>10, <1>11, <1>12 DEF ApiCall, ApiStep

LEMMA ProcessType ==
  ASSUME TypeOK, Stop \/ Stopped \/ Crash \/ Start
  PROVE  TypeOK'
<1> USE DEF TypeOK
<1>1. CASE Stop
  <2>1. WorkersOK'
    BY <1>1 DEF Stop, WorkersOK
  <2>2. ProcessOK'
    BY <1>1, SpendType DEF Stop, ProcessOK
  <2> QED BY <1>1, <2>1, <2>2, Frame DEF Stop
<1>2. CASE Stopped
  BY <1>2, ResetType, ForgetType DEF Stopped, ApiOK, ProcessOK
<1>3. CASE Crash
  BY <1>3, SpendType, ForgetType DEF Crash, IdleApi, RowsOK, ApiOK, ProcessOK, dbVars
<1>4. CASE Start
  BY <1>4, ResetType DEF Start, IdleApi, Unfinished, ResolverOK, DispatcherOK, WorkersOK, ApiOK, ProcessOK
<1> QED BY <1>1, <1>2, <1>3, <1>4

LEMMA StepType == TypeOK /\ [Next]_vars => TypeOK'
<1> SUFFICES ASSUME TypeOK, [Next]_vars PROVE TypeOK'
  OBVIOUS
<1>1. ASSUME NEW i \in Item, RetryDue(i) PROVE TypeOK'
  <2>1. item' \in [Item -> Row]
    BY <1>1, RowUpdates DEF RetryDue, TypeOK, RowsOK
  <2>2. RowsOK'
    BY <1>1, <2>1 DEF RetryDue, TypeOK, RowsOK
  <2>3. ProcessOK'
    BY <1>1 DEF RetryDue, memVars, TypeOK, ProcessOK
  <2> QED BY <1>1, <2>2, <2>3, Frame DEF RetryDue, TypeOK, memVars
<1>2. CASE UNCHANGED vars
  BY <1>2 DEF vars, TypeOK, RowsOK, ResolverOK, DispatcherOK, WorkersOK, ApiOK, ProcessOK
<1> QED BY <1>1, <1>2, ResolverType, DispatcherType, WorkerType, ApiType, ProcessType DEF Next

\* The rows and the goroutines keep their shape, for any number of jobs,
\* tracks and workers (src/backend/internal/jobs).
THEOREM TypeCorrect == Spec => []TypeOK
  BY InitType, StepType, PTL DEF Spec

-----------------------------------------------------------------------------
(* Cancellation.  OnlyExplicitCancel is not inductive: a cancelled item is *)
(* the work of a handler, a resolver or a worker that acts on what it knew *)
(* earlier.  CancelInv says what they may rely on.                         *)

(* The guards of the repository layer, as facts. *)
LEMMA CancelledIsFinal ==
  ASSUME NEW s, JobCanTransition("cancelled", s) PROVE s = "cancelled"
  BY DEF JobCanTransition, JobActive, ResolvingBand, ProcessingBand

LEMMA SetStatusKeepsCancelled ==
  ASSUME TypeOK, NEW j \in Job, NEW s, SetStatus(j, s)
  PROVE  \A k \in Job : /\ job[k].status = "cancelled" => job'[k].status = "cancelled"
                        /\ k # j => job'[k] = job[k]
  BY CancelledIsFinal DEF TypeOK, RowsOK, SetStatus, StatusAfter

LEMMA SetStatusCancels ==
  ASSUME TypeOK, NEW j \in Job, SetStatus(j, "cancelled"), job[j].status \in JobActive
  PROVE  job'[j].status = "cancelled"
  BY DEF TypeOK, RowsOK, SetStatus, StatusAfter, JobCanTransition, JobTerminal

LEMMA CancelPendingEffect ==
  ASSUME TypeOK, NEW j \in Job, CancelPendingItems(j), NEW i \in Item
  PROVE  /\ item'[i].status = "absent" <=> item[i].status = "absent"
         /\ item'[i].status = "cancelled" =>
              item[i].status = "cancelled" \/ (JobOf[i] = j /\ item[i].status # "absent")
         /\ JobOf[i] # j => item'[i] = item[i]
  BY DEF TypeOK, RowsOK, Row, CancelPendingItems, CancelledRow, ItemStatus, ItemWorking,
         ItemParked, ItemTerminal

LEMMA EndRunEffect ==
  ASSUME TypeOK, NEW j \in Job, EndRun(j), NEW i \in Item
  PROVE  /\ worker'[i].pc = worker[i].pc
         /\ worker'[i].cancelled =>
              worker[i].cancelled \/ (JobOf[i] = j /\ worker[i].pc # "idle")
         /\ worker[i].pc = "idle" => worker'[i] = worker[i]
<1>1. CASE JobOf[i] = j /\ j \in runs /\ worker[i].pc \notin {"idle", "spawned"}
  <2>1. worker'[i] = [worker[i] EXCEPT !.cancelled = TRUE]
    BY <1>1 DEF EndRun
  <2> QED BY <1>1, <2>1 DEF TypeOK, WorkersOK
<1>2. CASE ~ (JobOf[i] = j /\ j \in runs /\ worker[i].pc \notin {"idle", "spawned"})
  <2>1. worker'[i] = worker[i]
    BY <1>2 DEF EndRun
  <2> QED BY <2>1
<1> QED BY <1>1, <1>2

LEMMA UpdateItemEffect ==
  ASSUME TypeOK, NEW i \in Item, NEW s \in ItemStatus, NEW n, NEW w, UpdateItem(i, s, n, w)
  PROVE  /\ \A k \in Item : k # i => item'[k] = item[k]
         /\ item'[i].status \in {s, item[i].status}
         /\ item'[i].status # s => item[i].status \in ItemTerminal
  BY DEF TypeOK, RowsOK, Row, UpdateItem, Accepts, ItemCanTransition

LEMMA LeaveEffect ==
  ASSUME TypeOK, NEW i \in Item, Leave(i)
  PROVE  /\ worker'[i] = IdleWorker
         /\ \A k \in Item : k # i => worker'[k] = worker[k]
  BY DEF TypeOK, WorkersOK, Leave

LEMMA ResetEffect ==
  ASSUME TypeOK, ResetInterrupted
  PROVE  /\ \A j \in Job : job[j].status = "cancelled" => job'[j].status = "cancelled"
         /\ \A i \in Item : /\ item'[i].status = "absent" <=> item[i].status = "absent"
                            /\ item'[i].status = "cancelled" <=> item[i].status = "cancelled"
                            /\ item'[i].status \notin ItemWorking
  BY DEF TypeOK, RowsOK, Row, ResetInterrupted, ItemWorking, JobActive, ProcessingBand,
         ResolvingBand

LEMMA ForgetEffect ==
  ASSUME ForgetMemory
  PROVE  /\ resolver' = IdleResolver /\ dispatcher' = IdleDispatcher
         /\ \A i \in Item : worker'[i] = IdleWorker
  BY DEF ForgetMemory

-----------------------------------------------------------------------------
(* CancelInv, step by step.                                                *)

(* A step that leaves rows present, jobs cancelled and workers' contexts as *)
(* they are keeps the invariant.                                           *)
LEMMA Quiet ==
  ASSUME TypeOK, CancelInv,
         \A j \in Job : job[j].status = "cancelled" => job'[j].status = "cancelled",
         \A i \in Item : /\ item'[i].status = "absent" <=> item[i].status = "absent"
                         /\ item'[i].status = "cancelled" => item[i].status = "cancelled"
                         /\ worker'[i].pc # "idle" => item[i].status # "absent"
                         /\ worker'[i].cancelled => worker[i].cancelled,
         UNCHANGED <<resolver, dispatcher, process>>,
         api' = api \/ api'.pc \notin {"cancel_items", "cancel_run"},
         process \in {"stopped", "crashed"} => UNCHANGED worker
  PROVE  CancelInv'
<1>1. UnresolvedIsEmpty'
  BY DEF CancelInv, UnresolvedIsEmpty, ItemsOf
<1>2. WorkNeedsRow'
  BY DEF CancelInv, WorkNeedsRow
<1>3. CancelStoresJobFirst'
  BY DEF CancelInv, CancelStoresJobFirst, TypeOK, ApiOK
<1>4. CancelledForAReason'
  BY JobQueueAssumption DEF CancelInv, CancelledForAReason, JobQueueAssumption
<1>5. DownIsIdle'
  BY DEF CancelInv, DownIsIdle
<1>6. OnlyExplicitCancel'
  BY JobQueueAssumption DEF CancelInv, OnlyExplicitCancel, JobQueueAssumption
<1> QED BY <1>1, <1>2, <1>3, <1>4, <1>5, <1>6 DEF CancelInv

LEMMA ResolverInv ==
  ASSUME TypeOK, CancelInv, ResolverStep
  PROVE  CancelInv'
<1> DEFINE j == resolver.job
<1> USE JobQueueAssumption DEF JobQueueAssumption
<1>1. ASSUME NEW k \in Job, ResolverTake(k) PROVE CancelInv'
  BY <1>1 DEF ResolverTake, dbVars, HasItems, ItemsOf, CancelInv, UnresolvedIsEmpty, WorkNeedsRow,
     CancelStoresJobFirst, CancelledForAReason, DownIsIdle, OnlyExplicitCancel
<1>2. CASE ResolverRegister
  BY <1>2 DEF ResolverRegister, TypeOK, ResolverOK, dbVars, ItemsOf, CancelInv, UnresolvedIsEmpty, WorkNeedsRow,
     CancelStoresJobFirst, CancelledForAReason, DownIsIdle, OnlyExplicitCancel
<1>3. ASSUME NEW s \in ResolveStages, ResolverStage(s) PROVE CancelInv'
  <2>1. j \in Job
    BY <1>3 DEF ResolverStage, TypeOK, ResolverOK
  <2>2. \A k \in Job : job[k].status = "cancelled" => job'[k].status = "cancelled"
    BY <1>3, <2>1, SetStatusKeepsCancelled DEF ResolverStage
  <2> QED BY <1>3, <2>2, Quiet DEF ResolverStage, CancelInv, WorkNeedsRow
<1>4. CASE ResolverFail
  <2>1. j \in Job /\ process = "up"
    BY <1>4 DEF ResolverFail, TypeOK, ResolverOK
  <2>2. \A i \in ItemsOf(j) : item[i].status = "absent" /\ worker[i].pc = "idle"
    BY <1>4 DEF ResolverFail, CancelInv, UnresolvedIsEmpty, WorkNeedsRow, ItemsOf
  <2>3. \A k \in Job : job[k].status = "cancelled" => job'[k].status = "cancelled"
    BY <1>4, <2>1, SetStatusKeepsCancelled DEF ResolverFail
  <2>4. \A i \in Item : /\ item'[i].status = "absent" <=> item[i].status = "absent"
                        /\ item'[i].status = "cancelled" => item[i].status = "cancelled"
    BY <1>4, <2>1, <2>2, CancelPendingEffect DEF ResolverFail, ItemsOf
  <2>5. \A i \in Item : /\ worker'[i].pc = worker[i].pc
                        /\ worker'[i].cancelled => worker[i].cancelled
    BY <1>4, <2>1, <2>2, EndRunEffect DEF ResolverFail, ItemsOf
  <2>6. UnresolvedIsEmpty' /\ WorkNeedsRow'
    BY <1>4, <2>4, <2>5 DEF ResolverFail, IdleResolver, CancelInv, UnresolvedIsEmpty, WorkNeedsRow
  <2>7. CancelStoresJobFirst' /\ DownIsIdle'
    BY <1>4, <2>1, <2>3 DEF ResolverFail, CancelInv, CancelStoresJobFirst, DownIsIdle, TypeOK, ApiOK
  <2>8. CancelledForAReason' /\ OnlyExplicitCancel'
    BY <1>4, <2>3, <2>4, <2>5 DEF ResolverFail, CancelInv, CancelledForAReason, OnlyExplicitCancel
  <2> QED BY <2>6, <2>7, <2>8 DEF CancelInv
<1>5. CASE ResolverInsert
  <2>1. \A i \in Item : item'[i].status \in {"pending", item[i].status}
    BY <1>5 DEF ResolverInsert, TypeOK, RowsOK, Row
  <2>2. resolver'.pc = "inserted"
    BY <1>5 DEF ResolverInsert, TypeOK, ResolverOK
  <2>3. \A i \in Item : item'[i].status = "absent" => item[i].status = "absent"
    BY <2>1
  <2> QED BY <1>5, <2>1, <2>2, <2>3 DEF ResolverInsert, CancelInv, UnresolvedIsEmpty, WorkNeedsRow,
     CancelStoresJobFirst, CancelledForAReason, DownIsIdle, OnlyExplicitCancel
<1>6. ASSUME ResolverMatching \/ ResolverEmpty PROVE CancelInv'
  <2>1. j \in Job /\ process = "up" /\ resolver' = IdleResolver /\ UNCHANGED <<item, dispatcher, api, process>>
    BY <1>6 DEF ResolverMatching, ResolverEmpty, TypeOK, ResolverOK
  <2>2. \A k \in Job : job[k].status = "cancelled" => job'[k].status = "cancelled"
    BY <1>6, <2>1, SetStatusKeepsCancelled DEF ResolverMatching, ResolverEmpty
  <2>3. \A i \in Item : /\ worker'[i].pc = worker[i].pc
                        /\ worker'[i].cancelled => worker[i].cancelled
    <3>1. CASE UNCHANGED worker
      BY <3>1
    <3>2. CASE EndRun(j) /\ ItemsOf(j) = {}
      BY <2>1, <3>2, EndRunEffect DEF ItemsOf
    <3> QED BY <1>6, <3>1, <3>2 DEF ResolverMatching, ResolverEmpty
  <2>4. UnresolvedIsEmpty' /\ WorkNeedsRow'
    BY <2>1, <2>3 DEF IdleResolver, CancelInv, UnresolvedIsEmpty, WorkNeedsRow
  <2>5. CancelStoresJobFirst' /\ DownIsIdle'
    BY <2>1, <2>2 DEF CancelInv, CancelStoresJobFirst, DownIsIdle, TypeOK, ApiOK
  <2>6. CancelledForAReason' /\ OnlyExplicitCancel'
    BY <2>1, <2>2, <2>3 DEF CancelInv, CancelledForAReason, OnlyExplicitCancel
  <2> QED BY <2>4, <2>5, <2>6 DEF CancelInv
<1> QED BY <1>1, <1>2, <1>3, <1>4, <1>5, <1>6 DEF ResolverStep

LEMMA DispatcherInv ==
  ASSUME TypeOK, CancelInv, DispatcherStep
  PROVE  CancelInv'
<1> USE JobQueueAssumption DEF JobQueueAssumption
<1>1. CASE DispatchBegin
  BY <1>1 DEF DispatchBegin, IdleDispatcher, NoRows, NoRow, dbVars, CancelInv, UnresolvedIsEmpty, WorkNeedsRow,
     CancelStoresJobFirst, CancelledForAReason, DownIsIdle, OnlyExplicitCancel
<1>2. ASSUME NEW j \in Job, DispatchList(j) PROVE CancelInv'
  <2>1. WorkNeedsRow'
    BY <1>2 DEF DispatchList, dbVars, NoRow, TypeOK, DispatcherOK, CancelInv, WorkNeedsRow
  <2> QED BY <1>2, <2>1 DEF DispatchList, dbVars, CancelInv, UnresolvedIsEmpty,
     CancelStoresJobFirst, CancelledForAReason, DownIsIdle, OnlyExplicitCancel
<1>3. CASE DispatchEvaluate
  <2>1. dispatcher.cur \in Job /\ process = "up"
    BY <1>3 DEF DispatchEvaluate, TypeOK, DispatcherOK
  <2>2. \A k \in Job : job[k].status = "cancelled" => job'[k].status = "cancelled"
    BY <1>3, <2>1, SetStatusKeepsCancelled DEF DispatchEvaluate
  <2>3. WorkNeedsRow'
    <3>1. PICK g \in Gates :
            dispatcher' = [dispatcher EXCEPT !.pc = "scan", !.cur = 0, !.rows = NoRows,
              !.ready = @ \cup {[item |-> i, tries |-> dispatcher.rows[i].attempts] :
                   i \in {k \in ItemsOf(dispatcher.cur) \ InFlight : IsReady(dispatcher.rows[k], g)}}]
      BY <1>3, Zenon DEF DispatchEvaluate
    <3>2. ASSUME NEW i \in Item, item[i].status = "absent", NEW c \in dispatcher'.ready
          PROVE  c.item # i
      <4>1. CASE c \in dispatcher.ready
        BY <3>2, <4>1 DEF CancelInv, WorkNeedsRow
      <4>2. CASE c \notin dispatcher.ready
        <5>1. PICK k \in ItemsOf(dispatcher.cur) : c.item = k /\ IsReady(dispatcher.rows[k], g)
          BY <3>1, <3>2, <4>2 DEF TypeOK, DispatcherOK
        <5>2. dispatcher.rows[i].status = "absent"
          BY <3>2 DEF CancelInv, WorkNeedsRow
        <5>3. ~IsReady(dispatcher.rows[i], g)
          BY <5>2 DEF IsReady
        <5> QED BY <5>1, <5>3
      <4> QED BY <4>1, <4>2
    <3>3. dispatcher'.rows = NoRows
      BY <3>1 DEF TypeOK, DispatcherOK
    <3> QED BY <1>3, <3>2, <3>3 DEF DispatchEvaluate, NoRows, NoRow, CancelInv, WorkNeedsRow
  <2> QED BY <1>3, <2>1, <2>2, <2>3 DEF DispatchEvaluate, CancelInv, UnresolvedIsEmpty,
     CancelStoresJobFirst, CancelledForAReason, DownIsIdle, OnlyExplicitCancel, TypeOK, ApiOK
<1>4. CASE Passing
  <2>1. WorkNeedsRow'
    <3>1. ASSUME NEW i \in Item, item[i].status = "absent" PROVE worker'[i].pc = "idle"
      <4>1. worker[i].pc = "idle" /\ \A c \in dispatcher.ready : c.item # i
        BY <3>1 DEF CancelInv, WorkNeedsRow
      <4>2. \/ worker'[i] = worker[i]
            \/ \E c \in dispatcher.ready : c.item = i
        BY <1>4, PassStep
      <4> QED BY <4>1, <4>2
    <3>2. ASSUME NEW i \in Item, item[i].status = "absent" PROVE dispatcher'.rows[i].status = "absent"
      BY <1>4, <3>2, PassStep DEF CancelInv, WorkNeedsRow, NoRows, NoRow
    <3> QED BY <1>4, <3>1, <3>2, PassStep DEF CancelInv, WorkNeedsRow
  <2>2. CancelledForAReason'
    BY <1>4, PassStep DEF CancelInv, CancelledForAReason
  <2>3. DownIsIdle'
    BY <1>4, PassStep DEF CancelInv, DownIsIdle, IdleDispatcher
  <2> QED BY <1>4, <2>1, <2>2, <2>3, PassStep DEF CancelInv, UnresolvedIsEmpty,
     CancelStoresJobFirst, OnlyExplicitCancel
<1> QED BY <1>1, <1>2, <1>3, <1>4 DEF DispatcherStep, Passing

(* A worker that has a row leaves with an outcome other than cancelled, or *)
(* goes on: nothing the invariant says of the others is touched.           *)
LEMMA WorkerInv ==
  ASSUME TypeOK, CancelInv, NEW i \in Item, WorkerStep(i)
  PROVE  CancelInv'
<1> USE JobQueueAssumption DEF JobQueueAssumption
<1>1. worker[i].pc # "idle"
  BY DEF WorkerStep, WorkerRegister, WorkerAdvance, WorkerRejected, WorkerStore, WorkerSkip,
         WorkerFail, WorkerRetry, WorkerWait, WorkerSessionWait, WorkerCancelled,
         WorkerAbandon, NextStage, Attempting, AtItem, ItemWorking
<1>2. item[i].status # "absent" /\ process \notin {"stopped", "crashed"}
  BY <1>1 DEF CancelInv, WorkNeedsRow, DownIsIdle, IdleWorker
<1>3. \A k \in Item : worker[k].pc # "idle" => item[k].status # "absent"
  BY DEF CancelInv, WorkNeedsRow
<1>4. ASSUME NEW s \in ItemStatus \ {"cancelled"}, NEW n, NEW w, WorkerFinish(i, s, n, w)
      PROVE  CancelInv'
  <2>1. \A k \in Item : /\ item'[k].status = "absent" <=> item[k].status = "absent"
                        /\ item'[k].status = "cancelled" => item[k].status = "cancelled"
    <3>1. /\ \A k \in Item : k # i => item'[k] = item[k]
          /\ item'[i].status \in {s, item[i].status}
      BY <1>4, UpdateItemEffect DEF WorkerFinish
    <3>2. s # "absent"
      BY DEF ItemStatus, ItemWorking, ItemParked, ItemTerminal
    <3> QED BY <1>2, <3>1, <3>2
  <2>2. \A k \in Item : /\ worker'[k].pc # "idle" => item[k].status # "absent"
                        /\ worker'[k].cancelled => worker[k].cancelled
    BY <1>3, <1>4, LeaveEffect DEF WorkerFinish, IdleWorker
  <2> QED BY <1>2, <1>4, <2>1, <2>2, Quiet DEF WorkerFinish
<1>5. CASE WorkerRegister(i)
  <2>1. \A k \in Item : k # i => worker'[k] = worker[k]
    BY <1>5, Zenon DEF WorkerRegister, TypeOK, WorkersOK
  <2>2. worker'[i].cancelled = (process = "stopping")
    BY <1>5 DEF WorkerRegister, TypeOK, WorkersOK
  <2>3. UnresolvedIsEmpty' /\ WorkNeedsRow'
    BY <1>2, <1>5, <2>1 DEF WorkerRegister, dbVars, CancelInv, UnresolvedIsEmpty, WorkNeedsRow
  <2>4. CancelStoresJobFirst' /\ DownIsIdle' /\ OnlyExplicitCancel'
    BY <1>2, <1>5 DEF WorkerRegister, dbVars, CancelInv, CancelStoresJobFirst, DownIsIdle, OnlyExplicitCancel
  <2>5. CancelledForAReason'
    BY <1>5, <2>1, <2>2 DEF WorkerRegister, dbVars, CancelInv, CancelledForAReason
  <2> QED BY <2>3, <2>4, <2>5 DEF CancelInv
<1>6. CASE WorkerAdvance(i)
  <2> DEFINE next == NextStage[worker[i].pc]
  <2>1. next \in ItemWorking \cup {"staged"}
    BY <1>6 DEF WorkerAdvance, NextStage, ItemWorking
  <2>2. /\ \A k \in Item : k # i => item'[k] = item[k]
        /\ item'[i].status \in {next, item[i].status} /\ (next = "staged" => item'[i].status = item[i].status)
    BY <1>6 DEF WorkerAdvance, TypeOK, RowsOK, Row
  <2>3. \A k \in Item : /\ item'[k].status = "absent" <=> item[k].status = "absent"
                        /\ item'[k].status = "cancelled" => item[k].status = "cancelled"
    BY <1>2, <2>1, <2>2 DEF ItemWorking
  <2>4. \A k \in Item : /\ worker'[k].pc # "idle" => item[k].status # "absent"
                        /\ worker'[k].cancelled => worker[k].cancelled
    BY <1>2, <1>3, <1>6 DEF WorkerAdvance, TypeOK, WorkersOK
  <2> QED BY <1>2, <1>6, <2>3, <2>4, Quiet DEF WorkerAdvance
<1>7. CASE WorkerRejected(i)
  <2>1. \A k \in Item : /\ worker'[k].pc # "idle" => item[k].status # "absent"
                        /\ worker'[k].cancelled => worker[k].cancelled
    BY <1>2, <1>3, <1>7 DEF WorkerRejected, TypeOK, WorkersOK
  <2> QED BY <1>2, <1>7, <2>1, Quiet DEF WorkerRejected, dbVars
<1>8. CASE WorkerStore(i)
  <2>1. \A k \in Item : /\ item'[k].status = "absent" <=> item[k].status = "absent"
                        /\ item'[k].status = "cancelled" => item[k].status = "cancelled"
    <3>1. CASE UpdateItem(i, "completed", item[i].attempts, "none")
      <4>1. /\ \A k \in Item : k # i => item'[k] = item[k]
            /\ item'[i].status \in {"completed", item[i].status}
        BY <3>1, UpdateItemEffect DEF ItemStatus, ItemTerminal
      <4> QED BY <1>2, <4>1
    <3>2. CASE UNCHANGED item
      BY <3>2
    <3> QED BY <1>8, <3>1, <3>2 DEF WorkerStore
  <2>2. \A k \in Item : /\ worker'[k].pc # "idle" => item[k].status # "absent"
                        /\ worker'[k].cancelled => worker[k].cancelled
    <3>1. CASE Leave(i)
      <4>1. /\ worker'[i].pc = "idle" /\ worker'[i].cancelled = FALSE
            /\ \A k \in Item : k # i => worker'[k] = worker[k]
        BY <3>1, LeaveEffect DEF IdleWorker
      <4> QED BY <1>3, <4>1
    <3>2. CASE worker' = [worker EXCEPT ![i].pc = "rejected"]
      BY <1>2, <1>3, <3>2 DEF TypeOK, WorkersOK
    <3> QED BY <1>8, <3>1, <3>2 DEF WorkerStore
  <2> QED BY <1>2, <1>8, <2>1, <2>2, Quiet DEF WorkerStore
<1>9. ASSUME WorkerSkip(i) \/ WorkerFail(i) \/ WorkerRetry(i) PROVE CancelInv'
  BY <1>4, <1>9 DEF WorkerSkip, WorkerFail, WorkerRetry, ItemStatus, ItemTerminal, ItemParked
<1>10. ASSUME WorkerWait(i) \/ WorkerSessionWait(i) PROVE CancelInv'
  BY <1>4, <1>10 DEF WorkerWait, WorkerSessionWait, ItemStatus, ItemParked
<1>11. CASE WorkerCancelled(i)
  <2>1. job[JobOf[i]].status = "cancelled"
    BY <1>11 DEF WorkerCancelled, CancelInv, CancelledForAReason
  <2>2. /\ \A k \in Item : k # i => item'[k] = item[k]
        /\ item'[i].status \in {"cancelled", item[i].status}
    BY <1>11, UpdateItemEffect DEF WorkerCancelled, WorkerFinish, ItemStatus, ItemTerminal
  <2>3. /\ worker'[i] = IdleWorker
        /\ \A k \in Item : k # i => worker'[k] = worker[k]
    BY <1>11, LeaveEffect DEF WorkerCancelled, WorkerFinish
  <2>4. UNCHANGED <<job, resolver, dispatcher, api, process>>
    BY <1>11 DEF WorkerCancelled, WorkerFinish
  <2>5. UnresolvedIsEmpty'
    BY <1>2, <2>2, <2>4 DEF CancelInv, UnresolvedIsEmpty, ItemsOf
  <2>6. WorkNeedsRow'
    BY <1>2, <2>2, <2>3, <2>4 DEF CancelInv, WorkNeedsRow
  <2>7. CancelStoresJobFirst' /\ DownIsIdle'
    BY <1>2, <2>4 DEF CancelInv, CancelStoresJobFirst, DownIsIdle
  <2>8. CancelledForAReason'
    BY <2>3, <2>4 DEF CancelInv, CancelledForAReason, IdleWorker
  <2>9. OnlyExplicitCancel'
    BY <2>1, <2>2, <2>4 DEF CancelInv, OnlyExplicitCancel
  <2> QED BY <2>5, <2>6, <2>7, <2>8, <2>9 DEF CancelInv
<1>12. CASE WorkerAbandon(i)
  <2>1. \A k \in Item : /\ worker'[k].pc # "idle" => item[k].status # "absent"
                        /\ worker'[k].cancelled => worker[k].cancelled
    BY <1>3, <1>12, LeaveEffect DEF WorkerAbandon, IdleWorker
  <2> QED BY <1>2, <1>12, <2>1, Quiet DEF WorkerAbandon, dbVars
<1> QED BY <1>5, <1>6, <1>7, <1>8, <1>9, <1>10, <1>11, <1>12 DEF WorkerStep

LEMMA ApiInv ==
  ASSUME TypeOK, CancelInv, ApiCall \/ ApiStep \/ CancelAborted \/ \E j \in Job : Enqueue(j)
  PROVE  CancelInv'
<1> USE JobQueueAssumption DEF JobQueueAssumption
<1>1. \A k \in Item : worker[k].pc # "idle" => item[k].status # "absent"
  BY DEF CancelInv, WorkNeedsRow
<1>2. ASSUME NEW j \in Job, Enqueue(j) PROVE CancelInv'
  <2>1. \A k \in Job : job[k].status = "cancelled" => job'[k].status = "cancelled"
    BY <1>2 DEF Enqueue, TypeOK, RowsOK
  <2> QED BY <1>1, <1>2, <2>1, Quiet DEF Enqueue
<1>3. ASSUME NEW j \in Job, Cancel(j) PROVE CancelInv'
  <2>1. /\ \A k \in Job : job[k].status = "cancelled" => job'[k].status = "cancelled"
        /\ job'[j].status = "cancelled"
    BY <1>3, SetStatusKeepsCancelled, SetStatusCancels DEF Cancel
  <2>2. UNCHANGED <<item, resolver, dispatcher, worker, process>> /\ api'.job = j
    BY <1>3 DEF Cancel, memVars
  <2>3. UnresolvedIsEmpty' /\ WorkNeedsRow' /\ DownIsIdle'
    BY <2>2 DEF CancelInv, UnresolvedIsEmpty, WorkNeedsRow, DownIsIdle
  <2>4. CancelStoresJobFirst'
    BY <2>1, <2>2 DEF CancelStoresJobFirst
  <2>5. CancelledForAReason' /\ OnlyExplicitCancel'
    BY <2>1, <2>2 DEF CancelInv, CancelledForAReason, OnlyExplicitCancel
  <2> QED BY <2>3, <2>4, <2>5 DEF CancelInv
<1>4. ASSUME NEW j \in Job, Pause(j) \/ Resume(j) PROVE CancelInv'
  <2>1. PICK op \in {"pause", "resume"}, value \in BOOLEAN : SetPaused(j, op, value)
    BY <1>4 DEF Pause, Resume
  <2>2. \A k \in Job : job'[k].status = job[k].status
    BY <2>1 DEF SetPaused, TypeOK, RowsOK
  <2> QED BY <1>1, <2>1, <2>2, Quiet DEF SetPaused, memVars
<1>5. ASSUME NEW j \in Job, NEW R, ResetRows(j, R),
             \A i \in R \cap Item : item[i].status \notin {"absent", "cancelled"}
      PROVE  CancelInv'
  <2>1. \A i \in Item : /\ item'[i].status = "absent" <=> item[i].status = "absent"
                        /\ item'[i].status = "cancelled" => item[i].status = "cancelled"
    BY <1>5 DEF ResetRows, TypeOK, RowsOK, Row
  <2> QED BY <1>1, <1>5, <2>1, Quiet DEF ResetRows, memVars
<1>6. ASSUME NEW j \in Job, RetryFailed(j) PROVE CancelInv'
  BY <1>5, <1>6 DEF RetryFailed
<1>7. ASSUME NEW i \in Item, RetryItem(i) PROVE CancelInv'
  <2> DEFINE R == {i} \cap {k \in Item : item[k].status \in {"failed", "retry_wait"}}
  <2>1. ResetRows(JobOf[i], R) /\ JobOf[i] \in Job
    BY <1>7 DEF RetryItem
  <2>2. \A k \in R \cap Item : item[k].status \notin {"absent", "cancelled"}
    OBVIOUS
  <2> HIDE DEF R
  <2> QED BY <1>5, <2>1, <2>2
<1>8. CASE WakeSessionWaiters
  <2>1. \A i \in Item : item'[i].status = item[i].status
    BY <1>8 DEF WakeSessionWaiters, TypeOK, RowsOK, Row
  <2> QED BY <1>1, <1>8, <2>1, Quiet DEF WakeSessionWaiters, memVars
<1>9. CASE SetQueuePaused
  BY <1>1, <1>9, Quiet DEF SetQueuePaused, dbVars
<1>10. CASE CancelItems
  <2>1. api.job \in Job /\ job[api.job].status = "cancelled"
    BY <1>10 DEF CancelItems, CancelInv, CancelStoresJobFirst, TypeOK, ApiOK
  <2>2. UNCHANGED <<job, resolver, dispatcher, worker, process>> /\ api'.job = api.job
    BY <1>10 DEF CancelItems, memVars, TypeOK, ApiOK
  <2>3. \A i \in Item : /\ item'[i].status = "absent" <=> item[i].status = "absent"
                        /\ item'[i].status = "cancelled" =>
                             item[i].status = "cancelled" \/ JobOf[i] = api.job
    BY <1>10, <2>1, CancelPendingEffect DEF CancelItems
  <2>4. UnresolvedIsEmpty' /\ WorkNeedsRow' /\ DownIsIdle'
    BY <2>2, <2>3 DEF CancelInv, UnresolvedIsEmpty, WorkNeedsRow, DownIsIdle, ItemsOf
  <2>5. CancelStoresJobFirst' /\ CancelledForAReason' /\ OnlyExplicitCancel'
    BY <2>1, <2>2, <2>3 DEF CancelInv, CancelStoresJobFirst, CancelledForAReason, OnlyExplicitCancel
  <2> QED BY <2>4, <2>5 DEF CancelInv
<1>11. CASE CancelRun
  <2>1. api.job \in Job /\ job[api.job].status = "cancelled"
    BY <1>11 DEF CancelRun, CancelInv, CancelStoresJobFirst, TypeOK, ApiOK
  <2>2. UNCHANGED <<job, item, dispatcher, process>> /\ api' = IdleApi
    BY <1>11 DEF CancelRun, dbVars
  <2>3. \A i \in Item : /\ worker'[i].pc = worker[i].pc
                        /\ worker'[i].cancelled => worker[i].cancelled \/ JobOf[i] = api.job
                        /\ worker[i].pc = "idle" => worker'[i] = worker[i]
    BY <1>11, <2>1, EndRunEffect DEF CancelRun
  <2>4. /\ resolver'.pc = resolver.pc /\ resolver'.job = resolver.job
        /\ resolver.pc = "idle" => resolver' = resolver
    BY <1>11 DEF CancelRun, TypeOK, ResolverOK
  <2>5. UnresolvedIsEmpty' /\ WorkNeedsRow'
    BY <2>2, <2>3, <2>4 DEF CancelInv, UnresolvedIsEmpty, WorkNeedsRow, ItemsOf
  <2>6. DownIsIdle'
    BY <2>2, <2>3, <2>4 DEF CancelInv, DownIsIdle, IdleWorker, IdleResolver
  <2>7. CancelStoresJobFirst' /\ CancelledForAReason' /\ OnlyExplicitCancel'
    BY <2>1, <2>2, <2>3
    DEF CancelInv, CancelStoresJobFirst, CancelledForAReason, OnlyExplicitCancel, IdleApi
  <2> QED BY <2>5, <2>6, <2>7 DEF CancelInv
<1>12. CASE Reopen
  <2>1. \A k \in Job : job[k].status = "cancelled" => job'[k].status = "cancelled"
    BY <1>12 DEF Reopen, TypeOK, RowsOK, ApiOK
  <2> QED BY <1>1, <1>12, <2>1, Quiet DEF Reopen, memVars, IdleApi
<1>13. CASE CancelAborted
  BY <1>1, <1>13, Quiet DEF CancelAborted, dbVars, memVars, IdleApi
<1> QED BY <1>2, <1>3, <1>4, <1>6, <1>7, <1>8, <1>9, <1>10, <1>11, <1>12, <1>13
        DEF ApiCall, ApiStep

LEMMA ProcessInv ==
  ASSUME TypeOK, CancelInv, Stop \/ Stopped \/ Crash \/ Start
  PROVE  CancelInv'
<1> USE JobQueueAssumption DEF JobQueueAssumption
<1>1. CASE Stop
  <2>1. UNCHANGED <<job, item, resolver, dispatcher, api>> /\ process' = "stopping"
    BY <1>1 DEF Stop, dbVars
  <2>2. \A i \in Item : worker'[i].pc = worker[i].pc
    BY <1>1 DEF Stop, TypeOK, WorkersOK
  <2> QED BY <2>1, <2>2 DEF CancelInv, UnresolvedIsEmpty, WorkNeedsRow, CancelStoresJobFirst,
     CancelledForAReason, DownIsIdle, OnlyExplicitCancel, ItemsOf
<1>2. ASSUME ForgetMemory, api' = api \/ api' = IdleApi,
             ResetInterrupted \/ UNCHANGED dbVars
      PROVE  CancelInv'
  <2>1. /\ resolver' = IdleResolver /\ dispatcher' = IdleDispatcher
        /\ \A i \in Item : worker'[i] = IdleWorker
    BY <1>2, ForgetEffect
  <2>2. /\ \A j \in Job : job[j].status = "cancelled" => job'[j].status = "cancelled"
        /\ \A i \in Item : item'[i].status = "cancelled" <=> item[i].status = "cancelled"
    BY <1>2, ResetEffect DEF dbVars
  <2>3. UnresolvedIsEmpty' /\ WorkNeedsRow' /\ DownIsIdle' /\ CancelledForAReason'
    BY <2>1 DEF UnresolvedIsEmpty, WorkNeedsRow, DownIsIdle, CancelledForAReason,
                IdleResolver, IdleDispatcher, IdleWorker, NoRows, NoRow
  <2>4. CancelStoresJobFirst'
    <3>1. CASE api' = api
      BY <2>2, <3>1 DEF CancelInv, CancelStoresJobFirst, TypeOK, ApiOK
    <3>2. CASE api' = IdleApi
      BY <3>2 DEF CancelStoresJobFirst, IdleApi
    <3> QED BY <1>2, <3>1, <3>2
  <2>5. OnlyExplicitCancel'
    BY <2>2 DEF CancelInv, OnlyExplicitCancel
  <2> QED BY <2>3, <2>4, <2>5 DEF CancelInv
<1>3. ASSUME Stopped \/ Crash PROVE CancelInv'
  BY <1>2, <1>3 DEF Stopped, Crash
<1>4. CASE Start
  <2>1. /\ \A j \in Job : job[j].status = "cancelled" => job'[j].status = "cancelled"
        /\ \A i \in Item : /\ item'[i].status = "absent" <=> item[i].status = "absent"
                           /\ item'[i].status = "cancelled" <=> item[i].status = "cancelled"
    BY <1>4, ResetEffect DEF Start
  <2>2. UNCHANGED <<resolver, dispatcher, worker>> /\ api' = IdleApi /\ process' = "up"
    BY <1>4 DEF Start
  <2>3. resolver = IdleResolver /\ \A i \in Item : worker[i] = IdleWorker
    BY <1>4 DEF Start, CancelInv, DownIsIdle
  <2>4. UnresolvedIsEmpty' /\ WorkNeedsRow'
    BY <2>1, <2>2 DEF CancelInv, UnresolvedIsEmpty, WorkNeedsRow, ItemsOf
  <2>5. CancelStoresJobFirst' /\ CancelledForAReason' /\ DownIsIdle'
    BY <2>2, <2>3 DEF CancelStoresJobFirst, CancelledForAReason, DownIsIdle, IdleApi, IdleWorker
  <2>6. OnlyExplicitCancel'
    BY <2>1 DEF CancelInv, OnlyExplicitCancel
  <2> QED BY <2>4, <2>5, <2>6 DEF CancelInv
<1> QED BY <1>1, <1>3, <1>4

LEMMA InitInv == Init => CancelInv
  BY DEF Init, CancelInv, UnresolvedIsEmpty, WorkNeedsRow, CancelStoresJobFirst,
     CancelledForAReason, DownIsIdle, OnlyExplicitCancel, IdleResolver, IdleDispatcher,
     IdleWorker, IdleApi, NoRows, NoRow

LEMMA StepInv == TypeOK /\ CancelInv /\ [Next]_vars => CancelInv'
<1> SUFFICES ASSUME TypeOK, CancelInv, [Next]_vars PROVE CancelInv'
  OBVIOUS
<1>1. ASSUME NEW i \in Item, RetryDue(i) PROVE CancelInv'
  <2>1. \A k \in Item : item'[k].status = item[k].status
    BY <1>1 DEF RetryDue, TypeOK, RowsOK, Row
  <2> QED BY <1>1, <2>1, Quiet DEF RetryDue, memVars, CancelInv, WorkNeedsRow
<1>2. CASE UNCHANGED vars
  BY <1>2, Quiet DEF vars, CancelInv, WorkNeedsRow
<1> QED BY <1>1, <1>2, ResolverInv, DispatcherInv, WorkerInv, ApiInv, ProcessInv DEF Next

\* A track is cancelled only under a cancelled job, whatever stops, crashes
\* and workers that were started late do (jobs/worker.go, process).
THEOREM CancelSafe == Spec => []OnlyExplicitCancel
<1>1. CancelInv => OnlyExplicitCancel
  BY DEF CancelInv
<1> QED BY <1>1, InitType, StepType, InitInv, StepInv, PTL DEF Spec

-----------------------------------------------------------------------------
(* NoPhantomWork is inductive as it stands.                                *)

(* Rows that are not newly working, and workers that stay where they are.  *)
LEMMA NoNewWork ==
  ASSUME NoPhantomWork,
         process' \in {"up", "stopped"} => process \in {"up", "stopped"},
         \A i \in Item : /\ item'[i].status \in ItemWorking => item[i].status \in ItemWorking
                         /\ \/ worker'[i].pc = worker[i].pc
                            \/ worker[i].pc \notin AtItem \cup {"rejected"}
                            \/ worker'[i].pc \in AtItem \cup {"rejected"}
                            \/ item'[i].status \notin ItemWorking
  PROVE  NoPhantomWork'
  BY DEF NoPhantomWork

LEMMA CancelPendingStopsWork ==
  ASSUME TypeOK, NEW j \in Job, CancelPendingItems(j), NEW i \in Item
  PROVE  item'[i].status \in ItemWorking => item[i].status \in ItemWorking
  BY DEF TypeOK, RowsOK, Row, CancelPendingItems, CancelledRow, ItemWorking

LEMMA ResolverWork ==
  ASSUME TypeOK, NoPhantomWork, ResolverStep
  PROVE  NoPhantomWork'
<1> USE DEF dbVars
<1>1. ASSUME UNCHANGED <<item, worker, process>> PROVE NoPhantomWork'
  BY <1>1 DEF NoPhantomWork
<1>2. CASE ResolverFail
  <2>1. resolver.job \in Job /\ UNCHANGED process
    BY <1>2 DEF ResolverFail, TypeOK, ResolverOK
  <2>2. \A i \in Item : /\ item'[i].status \in ItemWorking => item[i].status \in ItemWorking
                        /\ worker'[i].pc = worker[i].pc
    BY <1>2, <2>1, CancelPendingStopsWork, EndRunEffect DEF ResolverFail
  <2> QED BY <2>1, <2>2, NoNewWork
<1>3. CASE ResolverInsert
  <2>1. \A i \in Item : item'[i].status \in {"pending", item[i].status}
    BY <1>3 DEF ResolverInsert, TypeOK, RowsOK, Row
  <2>2. UNCHANGED <<worker, process>>
    BY <1>3 DEF ResolverInsert
  <2> QED BY <2>1, <2>2, NoNewWork DEF ItemWorking
<1>4. CASE ResolverEmpty
  <2>1. resolver.job \in Job /\ UNCHANGED <<item, process>>
    BY <1>4 DEF ResolverEmpty, TypeOK, ResolverOK
  <2>2. \A i \in Item : worker'[i].pc = worker[i].pc
    BY <1>4, <2>1, EndRunEffect DEF ResolverEmpty
  <2> QED BY <2>1, <2>2, NoNewWork
<1>5. CASE ResolverMatching
  BY <1>1, <1>5 DEF ResolverMatching
<1>6. CASE ResolverRegister
  BY <1>1, <1>6 DEF ResolverRegister
<1>7. ASSUME NEW j \in Job, ResolverTake(j) PROVE NoPhantomWork'
  BY <1>1, <1>7 DEF ResolverTake
<1>8. ASSUME NEW s \in ResolveStages, ResolverStage(s) PROVE NoPhantomWork'
  BY <1>1, <1>8 DEF ResolverStage
<1> QED BY <1>2, <1>3, <1>4, <1>5, <1>6, <1>7, <1>8 DEF ResolverStep

LEMMA DispatcherWork ==
  ASSUME TypeOK, NoPhantomWork, DispatcherStep
  PROVE  NoPhantomWork'
<1>1. CASE Passing
  BY <1>1, PassStep, NoNewWork DEF AtItem, ItemWorking
<1>2. CASE ~Passing
  BY <1>2 DEF DispatcherStep, Passing, DispatchBegin, DispatchList, DispatchEvaluate, dbVars, NoPhantomWork
<1> QED BY <1>1, <1>2

LEMMA WorkerWork ==
  ASSUME TypeOK, NoPhantomWork, NEW i \in Item, WorkerStep(i)
  PROVE  NoPhantomWork'
<1>1. ASSUME NEW s \in ItemStatus \ ItemWorking, NEW n, NEW w, WorkerFinish(i, s, n, w)
      PROVE  NoPhantomWork'
  <2>1. /\ \A k \in Item : k # i => item'[k] = item[k]
        /\ item'[i].status \notin ItemWorking
    BY <1>1, UpdateItemEffect DEF WorkerFinish, ItemTerminal, ItemWorking
  <2>2. \A k \in Item : k # i => worker'[k] = worker[k]
    BY <1>1, LeaveEffect DEF WorkerFinish
  <2> QED BY <1>1, <2>1, <2>2, NoNewWork DEF WorkerFinish
<1>2. CASE WorkerRegister(i)
  <2>1. /\ \A k \in Item : k # i => worker'[k] = worker[k]
        /\ worker[i].pc = "spawned"
    BY <1>2, Zenon DEF WorkerRegister, TypeOK, WorkersOK
  <2>2. UNCHANGED <<item, process>>
    BY <1>2 DEF WorkerRegister, dbVars
  <2> QED BY <2>1, <2>2, NoNewWork DEF AtItem, ItemWorking
<1>3. CASE WorkerAdvance(i)
  <2>1. /\ \A k \in Item : k # i => item'[k] = item[k] /\ worker'[k] = worker[k]
        /\ worker'[i].pc \in AtItem
    BY <1>3 DEF WorkerAdvance, NextStage, TypeOK, WorkersOK, RowsOK, AtItem, ItemWorking
  <2> QED BY <1>3, <2>1 DEF WorkerAdvance, NoPhantomWork
<1>4. ASSUME UNCHANGED <<item, process>>, worker' = [worker EXCEPT ![i].pc = "rejected"]
      PROVE  NoPhantomWork'
  BY <1>4 DEF NoPhantomWork, TypeOK, WorkersOK
<1>5. CASE WorkerRejected(i)
  BY <1>4, <1>5 DEF WorkerRejected, dbVars
<1>6. CASE WorkerStore(i)
  <2>1. CASE UpdateItem(i, "completed", item[i].attempts, "none") /\ Leave(i)
    <3>1. /\ \A k \in Item : k # i => item'[k] = item[k]
          /\ item'[i].status \notin ItemWorking
      BY <2>1, UpdateItemEffect DEF ItemStatus, ItemTerminal, ItemWorking
    <3>2. \A k \in Item : k # i => worker'[k] = worker[k]
      BY <2>1, LeaveEffect
    <3> QED BY <1>6, <3>1, <3>2, NoNewWork DEF WorkerStore
  <2>2. CASE UNCHANGED item /\ worker' = [worker EXCEPT ![i].pc = "rejected"]
    BY <1>4, <1>6, <2>2 DEF WorkerStore
  <2> QED BY <1>6, <2>1, <2>2 DEF WorkerStore
<1>7. {"skipped", "failed", "cancelled", "retry_wait", "waiting_for_storage", "waiting_for_space"}
        \subseteq ItemStatus \ ItemWorking
  BY DEF ItemStatus, ItemTerminal, ItemParked, ItemWorking
<1>8. ASSUME WorkerSkip(i) \/ WorkerFail(i) \/ WorkerRetry(i) \/ WorkerCancelled(i) PROVE NoPhantomWork'
  BY <1>1, <1>7, <1>8 DEF WorkerSkip, WorkerFail, WorkerRetry, WorkerCancelled
<1>9. ASSUME WorkerWait(i) \/ WorkerSessionWait(i) PROVE NoPhantomWork'
  BY <1>1, <1>7, <1>9 DEF WorkerWait, WorkerSessionWait
<1>10. CASE WorkerAbandon(i)
  BY <1>10 DEF WorkerAbandon, NoPhantomWork
<1> QED BY <1>2, <1>3, <1>5, <1>6, <1>8, <1>9, <1>10 DEF WorkerStep

LEMMA ApiWork ==
  ASSUME TypeOK, NoPhantomWork, ApiCall \/ ApiStep \/ CancelAborted \/ \E j \in Job : Enqueue(j)
  PROVE  NoPhantomWork'
<1>1. ASSUME UNCHANGED <<worker, process>>,
             \A i \in Item : item'[i].status \in ItemWorking => item[i].status \in ItemWorking
      PROVE  NoPhantomWork'
  BY <1>1, NoNewWork
<1>2. CASE CancelItems
  BY <1>1, <1>2, CancelPendingStopsWork DEF CancelItems, memVars, TypeOK, ApiOK
<1>3. CASE CancelRun
  <2>1. api.job \in Job /\ UNCHANGED <<item, process>>
    BY <1>3 DEF CancelRun, dbVars, TypeOK, ApiOK
  <2>2. \A i \in Item : worker'[i].pc = worker[i].pc
    BY <1>3, <2>1, EndRunEffect DEF CancelRun
  <2> QED BY <2>1, <2>2, NoNewWork
<1>4. ASSUME NEW j, NEW R, ResetRows(j, R) PROVE NoPhantomWork'
  <2>1. \A i \in Item : item'[i].status \in {"pending", item[i].status}
    BY <1>4 DEF ResetRows, TypeOK, RowsOK, Row
  <2> QED BY <1>1, <1>4, <2>1 DEF ResetRows, memVars, ItemWorking
<1>5. ASSUME NEW i \in Item, RetryItem(i) PROVE NoPhantomWork'
  BY <1>4, <1>5 DEF RetryItem
<1>6. ASSUME NEW j \in Job, RetryFailed(j) PROVE NoPhantomWork'
  BY <1>4, <1>6 DEF RetryFailed
<1>7. CASE WakeSessionWaiters
  BY <1>1, <1>7 DEF WakeSessionWaiters, memVars, TypeOK, RowsOK, Row
<1>8. ASSUME UNCHANGED <<item, worker, process>> PROVE NoPhantomWork'
  BY <1>8 DEF NoPhantomWork
<1>9. CASE SetQueuePaused \/ Reopen \/ CancelAborted
  BY <1>8, <1>9 DEF SetQueuePaused, Reopen, CancelAborted, memVars, dbVars
<1>10. ASSUME NEW j \in Job, Enqueue(j) \/ Cancel(j) \/ Pause(j) \/ Resume(j) PROVE NoPhantomWork'
  BY <1>8, <1>10 DEF Enqueue, Cancel, Pause, Resume, SetPaused, memVars
<1> QED BY <1>2, <1>3, <1>5, <1>6, <1>7, <1>9, <1>10 DEF ApiCall, ApiStep

LEMMA StepWork == TypeOK /\ NoPhantomWork /\ [Next]_vars => NoPhantomWork'
<1> SUFFICES ASSUME TypeOK, NoPhantomWork, [Next]_vars PROVE NoPhantomWork'
  OBVIOUS
<1>1. ASSUME NEW i \in Item, RetryDue(i) PROVE NoPhantomWork'
  <2>1. \A k \in Item : item'[k].status = item[k].status
    BY <1>1 DEF RetryDue, TypeOK, RowsOK, Row
  <2> QED BY <1>1, <2>1, NoNewWork DEF RetryDue, memVars
<1>2. CASE Stop \/ Crash
  BY <1>2 DEF Stop, Crash, NoPhantomWork
<1>3. CASE Stopped \/ Start
  BY <1>3, ResetEffect DEF Stopped, Start, NoPhantomWork
<1>4. CASE UNCHANGED vars
  BY <1>4 DEF vars, NoPhantomWork
<1> QED BY <1>1, <1>2, <1>3, <1>4, ResolverWork, DispatcherWork, WorkerWork, ApiWork DEF Next

\* Nothing is recorded as being worked on that no worker is at, while the
\* process runs and after an orderly stop (jobs/queue.go, Stop and recover).
THEOREM NoPhantoms == Spec => []NoPhantomWork
<1>1. Init => NoPhantomWork
  BY DEF Init, NoPhantomWork, NoRows, NoRow, ItemWorking
<1> QED BY <1>1, InitType, StepType, StepWork, PTL DEF Spec

-----------------------------------------------------------------------------
(* The queue implements the life cycle: what each step does to the phases. *)

SameJobs  == \A j \in Job : JobPhase(job'[j].status) = JobPhase(job[j].status)
SameItems == \A i \in Item : ItemPhase(item'[i].status) = ItemPhase(item[i].status)

LifecycleStep == [Lifecycle!Next]_<<[j \in Job |-> JobPhase(job[j].status)],
                                    [i \in Item |-> ItemPhase(item[i].status)]>>

LEMMA Phases ==
  /\ JobPhase("absent") = "absent" /\ ItemPhase("absent") = "absent"
  /\ \A s \in JobActive : JobPhase(s) = "open"
  /\ \A s \in JobTerminal : JobPhase(s) = s
  /\ \A s \in ItemWorking \cup ItemParked : ItemPhase(s) = "open"
  /\ \A s \in ItemTerminal : ItemPhase(s) = s
  BY DEF JobPhase, ItemPhase, JobActive, ResolvingBand, ProcessingBand, JobTerminal,
         ItemWorking, ItemParked, ItemTerminal

LEMMA StutterStep ==
  ASSUME SameJobs, SameItems PROVE LifecycleStep
  BY DEF SameJobs, SameItems, LifecycleStep

(* One job moves, no item does. *)
LEMMA JobStep ==
  ASSUME NEW j \in Job, SameItems,
         \A k \in Job : k # j => JobPhase(job'[k].status) = JobPhase(job[k].status),
         LET p == JobPhase(job[j].status)
             q == JobPhase(job'[j].status)
         IN  \/ p = q
             \/ p = "absent" /\ q = "open"
             \/ p = "open" /\ q \in {"completed", "failed", "cancelled"}
             \/ p \in {"completed", "failed"} /\ q = "open"
  PROVE  LifecycleStep
<1> DEFINE P == [k \in Job |-> JobPhase(job[k].status)]
           q == JobPhase(job'[j].status)
<1>1. CASE P[j] = q
  <2>1. SameJobs
    BY <1>1 DEF SameJobs
  <2> QED BY <2>1, StutterStep
<1>2. CASE P[j] # q
  <2>1. Lifecycle!Set(j, q)
    BY DEF Lifecycle!Set, SameItems
  <2>2. Lifecycle!Submit(j) \/ Lifecycle!Close(j) \/ Lifecycle!Reopen(j)
    BY <1>2, <2>1 DEF Lifecycle!Submit, Lifecycle!Close, Lifecycle!Reopen
  <2> QED BY <2>2 DEF LifecycleStep, Lifecycle!Next
<1> QED BY <1>1, <1>2

(* The items in S move to phase p, the others and the jobs do not. *)
LEMMA ItemsMove ==
  ASSUME SameJobs, NEW S, NEW p,
         \A i \in Item : ItemPhase(item'[i].status) =
                           IF i \in S THEN p ELSE ItemPhase(item[i].status)
  PROVE  Lifecycle!Move(S, p)
  BY DEF SameJobs, Lifecycle!Move

LEMMA ItemStep ==
  ASSUME SameJobs, NEW i \in Item,
         \A k \in Item : k # i => ItemPhase(item'[k].status) = ItemPhase(item[k].status),
         LET p == ItemPhase(item[i].status)
             q == ItemPhase(item'[i].status)
         IN  \/ p = q
             \/ p = "open" /\ q \in {"completed", "failed", "skipped"}
             \/ p = "open" /\ q = "cancelled" /\ job[JobOf[i]].status = "cancelled"
  PROVE  LifecycleStep
<1> USE JobQueueAssumption DEF JobQueueAssumption
<1> DEFINE p == ItemPhase(item[i].status)
           q == ItemPhase(item'[i].status)
<1>1. CASE p = q
  <2>1. SameItems
    BY <1>1 DEF SameItems
  <2> QED BY <2>1, StutterStep
<1>2. ASSUME p = "open", q # "open" PROVE Lifecycle!Move({i}, q)
  BY ItemsMove
<1>3. CASE p = "open" /\ q \in {"completed", "failed", "skipped"}
  <2>1. Lifecycle!CloseItem(i)
    BY <1>2, <1>3 DEF Lifecycle!CloseItem
  <2> QED BY <2>1 DEF LifecycleStep, Lifecycle!Next
<1>4. CASE p = "open" /\ q = "cancelled" /\ job[JobOf[i]].status = "cancelled"
  <2>1. {i} \in SUBSET Lifecycle!Tracks(JobOf[i]) /\ JobOf[i] \in Job
    BY DEF Lifecycle!Tracks
  <2>2. JobPhase(job[JobOf[i]].status) = "cancelled"
    BY <1>4, Phases DEF JobTerminal
  <2>3. Lifecycle!CancelItems(JobOf[i])
    BY <1>2, <1>4, <2>1, <2>2 DEF Lifecycle!CancelItems
  <2> QED BY <2>1, <2>3 DEF LifecycleStep, Lifecycle!Next
<1> QED BY <1>1, <1>3, <1>4

LEMMA PopulateStep ==
  ASSUME SameJobs, NEW j \in Job, Exists(j), TypeOK,
         \A i \in ItemsOf(j) : item[i].status = "absent" /\ item'[i].status = "pending",
         \A i \in Item : JobOf[i] # j => item'[i] = item[i]
  PROVE  LifecycleStep
<1>1. JobPhase(job[j].status) # "absent"
  <2>1. job[j].status \in JobActive \cup JobTerminal
    BY DEF TypeOK, RowsOK, Exists, JobStatus
  <2> QED BY <2>1, Phases DEF JobTerminal
<1>2. \A i \in ItemsOf(j) : ItemPhase(item[i].status) = "absent" /\ ItemPhase(item'[i].status) = "open"
  BY Phases DEF ItemParked
<1>3. Lifecycle!Move(Lifecycle!Tracks(j), "open")
  BY <1>2, ItemsMove DEF Lifecycle!Tracks, ItemsOf
<1>4. Lifecycle!Populate(j)
  BY <1>1, <1>2, <1>3 DEF Lifecycle!Populate, Lifecycle!Tracks, ItemsOf
<1> QED BY <1>4 DEF LifecycleStep, Lifecycle!Next

LEMMA CancelItemsStep ==
  ASSUME TypeOK, SameJobs, NEW j \in Job, job[j].status = "cancelled", CancelPendingItems(j)
  PROVE  LifecycleStep
<1> DEFINE S == {i \in ItemsOf(j) : item[i].status \in ItemWorking \cup ItemParked}
<1>1. \A i \in Item : /\ i \in S => ItemPhase(item[i].status) = "open" /\ item'[i].status = "cancelled"
                      /\ i \notin S => item'[i].status = item[i].status
  BY Phases DEF CancelPendingItems, CancelledRow, ItemsOf, TypeOK, RowsOK, Row,
     ItemStatus, ItemTerminal, ItemWorking, ItemParked
<1>2. ItemPhase("cancelled") = "cancelled" /\ JobPhase("cancelled") = "cancelled"
  BY Phases DEF ItemTerminal, JobTerminal
<1>3. S \in SUBSET Lifecycle!Tracks(j)
  BY DEF Lifecycle!Tracks, ItemsOf
<1>4. \A i \in S : ItemPhase(item[i].status) = "open" /\ i \in Item
  BY <1>1 DEF ItemsOf
<1> HIDE DEF S
<1>5. Lifecycle!Move(S, "cancelled")
  BY <1>1, <1>2, ItemsMove
<1>6. Lifecycle!CancelItems(j)
  BY <1>2, <1>3, <1>4, <1>5 DEF Lifecycle!CancelItems
<1> QED BY <1>6 DEF LifecycleStep, Lifecycle!Next

LEMMA RetryStep ==
  ASSUME TypeOK, SameJobs, NEW j \in Job, NEW R \in SUBSET ItemsOf(j), ResetRows(j, R),
         \A i \in R : item[i].status \in {"failed", "retry_wait"}
  PROVE  LifecycleStep
<1> DEFINE S == {i \in R : item[i].status = "failed"}
<1>1. \A i \in Item : /\ i \in R => item'[i].status = "pending"
                      /\ i \notin R => item'[i].status = item[i].status
  BY DEF ResetRows, TypeOK, RowsOK, Row
<1>2. ItemPhase("pending") = "open" /\ ItemPhase("retry_wait") = "open" /\ ItemPhase("failed") = "failed"
  BY Phases DEF ItemTerminal, ItemParked
<1>3. S \in SUBSET Lifecycle!Tracks(j) /\ \A i \in S : item[i].status = "failed" /\ i \in Item
  BY DEF Lifecycle!Tracks, ItemsOf
<1>4. \A i \in Item : ItemPhase(item'[i].status) = IF i \in S THEN "open" ELSE ItemPhase(item[i].status)
  BY <1>1, <1>2
<1> HIDE DEF S
<1>5. Lifecycle!Move(S, "open")
  BY <1>4, ItemsMove
<1>6. Lifecycle!Retry(j)
  BY <1>2, <1>3, <1>5 DEF Lifecycle!Retry
<1> QED BY <1>6 DEF LifecycleStep, Lifecycle!Next

(* The checks of the repository layer, in terms of phases. *)
LEMMA SetStatusPhase ==
  ASSUME TypeOK, NEW j \in Job, NEW s \in JobStatus, SetStatus(j, s)
  PROVE  /\ \A k \in Job : k # j => job'[k] = job[k]
         /\ \/ job'[j].status = job[j].status
            \/ /\ job[j].status \in JobActive
               /\ job'[j].status = s
  BY DEF TypeOK, RowsOK, SetStatus, StatusAfter, JobCanTransition

LEMMA SetStatusStep ==
  ASSUME TypeOK, SameItems, NEW j \in Job, NEW s \in JobStatus, SetStatus(j, s)
  PROVE  LifecycleStep
<1>1. \A k \in Job : k # j => job'[k] = job[k]
  BY SetStatusPhase
<1>2. CASE job'[j].status = job[j].status
  BY <1>1, <1>2, JobStep
<1>3. CASE job[j].status \in JobActive /\ job'[j].status = s
  <2>1. JobPhase(job[j].status) = "open" /\ JobPhase(s) \in {"open", "completed", "failed", "cancelled"}
    BY <1>3, Phases DEF JobStatus, JobTerminal
  <2> QED BY <1>1, <1>3, <2>1, JobStep
<1> QED BY <1>2, <1>3, SetStatusPhase

LEMMA UpdateItemStep ==
  ASSUME TypeOK, SameJobs, NEW i \in Item, NEW s \in ItemStatus,
         item[i].status # "absent",
         \A k \in Item : k # i => item'[k] = item[k],
         \/ item'[i].status = item[i].status
         \/ item'[i].status = s /\ item[i].status \notin ItemTerminal,
         s = "cancelled" => job[JobOf[i]].status = "cancelled"
  PROVE  LifecycleStep
<1>1. CASE item'[i].status = item[i].status
  BY <1>1, ItemStep
<1>2. CASE item'[i].status = s /\ item[i].status \notin ItemTerminal
  <2>1. ItemPhase(item[i].status) = "open"
    BY <1>2, Phases DEF TypeOK, RowsOK, Row, ItemStatus
  <2>2. ItemPhase(s) = "open" \/ ItemPhase(s) \in {"completed", "failed", "skipped"}
          \/ (s = "cancelled" /\ ItemPhase(s) = "cancelled")
    BY Phases DEF ItemStatus, ItemTerminal
  <2> QED BY <1>2, <2>1, <2>2, ItemStep
<1> QED BY <1>1, <1>2

LEMMA ResetStep ==
  ASSUME TypeOK, ResetInterrupted PROVE LifecycleStep
<1>1. SameItems
  <2>1. ASSUME NEW i \in Item PROVE ItemPhase(item'[i].status) = ItemPhase(item[i].status)
    <3>1. CASE item[i].status \in ItemWorking
      <4>1. item'[i].status = "pending"
        BY <3>1 DEF ResetInterrupted, TypeOK, RowsOK, Row
      <4> QED BY <3>1, <4>1, Phases DEF ItemParked
    <3>2. CASE item[i].status \notin ItemWorking
      BY <3>2 DEF ResetInterrupted
    <3> QED BY <3>1, <3>2
  <2> QED BY <2>1 DEF SameItems
<1>2. SameJobs
  <2>1. ASSUME NEW j \in Job PROVE JobPhase(job'[j].status) = JobPhase(job[j].status)
    <3>1. CASE job[j].status \in JobActive
      <4>1. job'[j].status = "queued"
        BY <3>1 DEF ResetInterrupted, TypeOK, RowsOK
      <4> QED BY <3>1, <4>1, Phases DEF JobActive
    <3>2. CASE job[j].status \notin JobActive
      BY <3>2 DEF ResetInterrupted
    <3> QED BY <3>1, <3>2
  <2> QED BY <2>1 DEF SameJobs
<1> QED BY <1>1, <1>2, StutterStep

-----------------------------------------------------------------------------
(* Only jobs that were submitted are resolved.                             *)
ExistInv ==
  /\ \A j \in queue : Exists(j)
  /\ resolver.pc # "idle" => Exists(resolver.job)

LEMMA SetStatusExists ==
  ASSUME TypeOK, NEW j \in Job, NEW s \in JobStatus, SetStatus(j, s)
  PROVE  \A k \in Job : Exists(k) => Exists(k)'
  BY SetStatusPhase DEF Exists, JobStatus, JobActive, ResolvingBand, ProcessingBand, JobTerminal

LEMMA KeepsExist ==
  ASSUME TypeOK, ExistInv, \A j \in Job : Exists(j) => Exists(j)',
         queue' \subseteq queue \cup {j \in Job : Exists(j)'},
         \/ resolver'.pc = "idle"
         \/ resolver.pc # "idle" /\ resolver'.job = resolver.job
         \/ resolver'.job \in queue
  PROVE  ExistInv'
  BY DEF ExistInv, TypeOK, ResolverOK, ProcessOK

LEMMA Terminals == {"completed", "failed", "cancelled", "matching"} \subseteq JobStatus
  BY DEF JobStatus, JobTerminal, JobActive, ProcessingBand

LEMMA ResolverExist ==
  ASSUME TypeOK, ExistInv, ResolverStep PROVE ExistInv'
<1> USE DEF dbVars
<1>1. ASSUME NEW j \in Job, ResolverTake(j) PROVE ExistInv'
  BY <1>1, KeepsExist DEF ResolverTake, TypeOK, ResolverOK, ProcessOK, Exists
<1>2. CASE ResolverRegister \/ ResolverInsert
  <2>1. UNCHANGED <<job, queue>> /\ resolver.pc # "idle" /\ resolver'.job = resolver.job
    BY <1>2 DEF ResolverRegister, ResolverInsert, TypeOK, ResolverOK
  <2> QED BY <2>1, KeepsExist DEF Exists
<1>3. ASSUME NEW s \in ResolveStages, ResolverStage(s) PROVE ExistInv'
  <2>1. s \in JobStatus /\ resolver.job \in Job
    BY <1>3, JobQueueAssumption
    DEF JobQueueAssumption, JobStatus, JobActive, ResolverStage, TypeOK, ResolverOK
  <2> QED BY <1>3, <2>1, SetStatusExists, KeepsExist DEF ResolverStage
<1>4. ASSUME ResolverFail \/ ResolverMatching \/ ResolverEmpty PROVE ExistInv'
  <2>1. resolver.job \in Job /\ resolver'.pc = "idle" /\ queue' = queue
    BY <1>4 DEF ResolverFail, ResolverMatching, ResolverEmpty, TypeOK, ResolverOK, IdleResolver
  <2>2. UNCHANGED job \/ \E s \in JobStatus : SetStatus(resolver.job, s)
    BY <1>4, Terminals DEF ResolverFail, ResolverMatching, ResolverEmpty
  <2>3. \A j \in Job : Exists(j) => Exists(j)'
    BY <2>1, <2>2, SetStatusExists DEF Exists
  <2> QED BY <2>1, <2>3, KeepsExist
<1> QED BY <1>1, <1>2, <1>3, <1>4 DEF ResolverStep

LEMMA StepExist == TypeOK /\ ExistInv /\ [Next]_vars => ExistInv'
<1> SUFFICES ASSUME TypeOK, ExistInv, [Next]_vars PROVE ExistInv'
  OBVIOUS
<1>1. ASSUME UNCHANGED <<job, queue>>,
             resolver' = resolver \/ resolver' = [resolver EXCEPT !.cancelled = TRUE]
      PROVE  ExistInv'
  BY <1>1 DEF ExistInv, Exists, TypeOK, ResolverOK
<1>2. CASE DispatcherStep
  <2>1. ASSUME DispatchEvaluate PROVE ExistInv'
    <3>1. dispatcher.cur \in Job /\ UNCHANGED <<queue, resolver>>
      BY <2>1 DEF DispatchEvaluate, TypeOK, DispatcherOK
    <3>2. PICK s \in JobStatus : SetStatus(dispatcher.cur, s)
      BY <2>1, DerivedStatus DEF DispatchEvaluate
    <3> QED BY <3>1, <3>2, SetStatusExists, KeepsExist
  <2>2. ASSUME Passing PROVE ExistInv'
    BY <1>1, <2>2, PassStep
  <2> QED BY <1>1, <1>2, <2>1, <2>2 DEF DispatcherStep, Passing, DispatchBegin, DispatchList, dbVars
<1>3. ASSUME NEW i \in Item, WorkerStep(i) \/ RetryDue(i) PROVE ExistInv'
  BY <1>1, <1>3 DEF WorkerStep, WorkerRegister, WorkerAdvance, WorkerRejected, WorkerStore, WorkerSkip,
     WorkerFail, WorkerRetry, WorkerWait, WorkerSessionWait, WorkerCancelled, WorkerAbandon,
     WorkerFinish, RetryDue, dbVars, memVars
<1>4. ASSUME NEW j \in Job, Enqueue(j) PROVE ExistInv'
  <2>1. \A k \in Job : (Exists(k) => Exists(k)') /\ Exists(j)'
    BY <1>4 DEF Enqueue, Exists, TypeOK, RowsOK
  <2> QED BY <1>4, <2>1, KeepsExist DEF Enqueue, ExistInv, TypeOK, ProcessOK
<1>5. ASSUME NEW j \in Job, Cancel(j) PROVE ExistInv'
  <2>1. \A k \in Job : Exists(k) => Exists(k)'
    BY <1>5, Terminals, SetStatusExists DEF Cancel
  <2> QED BY <1>5, <2>1, KeepsExist DEF Cancel, memVars
<1>6. ASSUME NEW j \in Job, Pause(j) \/ Resume(j) PROVE ExistInv'
  <2>1. \A k \in Job : Exists(k) => Exists(k)'
    BY <1>6 DEF Pause, Resume, SetPaused, Exists, TypeOK, RowsOK
  <2> QED BY <1>6, <2>1, KeepsExist DEF Pause, Resume, SetPaused, memVars
<1>7. CASE Reopen
  <2>1. \A k \in Job : Exists(k) => Exists(k)'
    BY <1>7 DEF Reopen, Exists, TypeOK, RowsOK, ApiOK
  <2> QED BY <1>7, <2>1, KeepsExist DEF Reopen, memVars
<1>8. ASSUME NEW j \in Job, RetryFailed(j) PROVE ExistInv'
  BY <1>1, <1>8 DEF RetryFailed, ResetRows, memVars
<1>9. ASSUME NEW i \in Item, RetryItem(i) PROVE ExistInv'
  BY <1>1, <1>9 DEF RetryItem, ResetRows, memVars
<1>10. CASE CancelItems \/ CancelRun \/ CancelAborted \/ WakeSessionWaiters \/ SetQueuePaused \/ Stop
  BY <1>1, <1>10 DEF CancelItems, CancelRun, CancelAborted, WakeSessionWaiters, SetQueuePaused, Stop,
     dbVars, memVars
<1>11. CASE Stopped \/ Crash \/ Start
  <2>1. \A j \in Job : Exists(j) => Exists(j)'
    <3>1. ASSUME ResetInterrupted PROVE \A j \in Job : Exists(j) => Exists(j)'
      BY <3>1 DEF ResetInterrupted, Exists, TypeOK, RowsOK
    <3> QED BY <1>11, <3>1 DEF Stopped, Crash, Start, dbVars, Exists
  <2>2. ASSUME ForgetMemory PROVE ExistInv'
    BY <2>2 DEF ForgetMemory, ExistInv, IdleResolver
  <2>3. ASSUME Start PROVE ExistInv'
    <3>1. queue' \subseteq {j \in Job : Exists(j)} /\ resolver' = resolver
      BY <2>3 DEF Start, Unfinished, Exists, JobActive, ResolvingBand, ProcessingBand
    <3> QED BY <2>1, <3>1, KeepsExist
  <2> QED BY <1>11, <2>2, <2>3 DEF Stopped, Crash
<1>12. CASE UNCHANGED vars
  BY <1>1, <1>12 DEF vars
<1> QED BY <1>2, <1>3, <1>4, <1>5, <1>6, <1>7, <1>8, <1>9, <1>10, <1>11, <1>12, ResolverExist
        DEF Next, ApiCall, ApiStep

-----------------------------------------------------------------------------
(* Every step is a step of the life cycle, or none.                        *)

LEMMA SameRows ==
  ASSUME UNCHANGED job, UNCHANGED item PROVE LifecycleStep
  BY StutterStep DEF SameJobs, SameItems

LEMMA ResolverLife ==
  ASSUME TypeOK, CancelInv, ExistInv, ResolverStep PROVE LifecycleStep
<1> USE DEF dbVars
<1>1. ASSUME NEW j \in Job, ResolverTake(j) PROVE LifecycleStep
  BY <1>1, SameRows DEF ResolverTake
<1>2. CASE ResolverRegister
  BY <1>2, SameRows DEF ResolverRegister
<1>3. ASSUME NEW s \in ResolveStages, ResolverStage(s) PROVE LifecycleStep
  <2>1. s \in JobStatus /\ resolver.job \in Job
    BY <1>3, JobQueueAssumption
    DEF JobQueueAssumption, JobStatus, JobActive, ResolverStage, TypeOK, ResolverOK
  <2> QED BY <1>3, <2>1, SetStatusStep DEF ResolverStage, SameItems
<1>4. CASE ResolverFail
  <2>1. resolver.job \in Job
    BY <1>4 DEF ResolverFail, TypeOK, ResolverOK
  <2>2. \A i \in Item : JobOf[i] = resolver.job => item[i].status = "absent"
    BY <1>4 DEF ResolverFail, CancelInv, UnresolvedIsEmpty, ItemsOf
  <2>3. SameItems
    BY <1>4, <2>1, <2>2, CancelPendingEffect DEF ResolverFail, SameItems
  <2> QED BY <1>4, <2>1, <2>3, Terminals, SetStatusStep DEF ResolverFail
<1>5. CASE ResolverInsert
  <2>1. resolver.job \in Job /\ Exists(resolver.job)
    BY <1>5 DEF ResolverInsert, ExistInv, TypeOK, ResolverOK
  <2>2. \A i \in ItemsOf(resolver.job) : item[i].status = "absent" /\ item'[i].status = "pending"
    BY <1>5 DEF ResolverInsert, CancelInv, UnresolvedIsEmpty, ItemsOf, TypeOK, RowsOK, Row
  <2>3. \A i \in Item : JobOf[i] # resolver.job => item'[i] = item[i]
    BY <1>5 DEF ResolverInsert
  <2>4. SameJobs
    BY <1>5 DEF ResolverInsert, SameJobs
  <2> QED BY <2>1, <2>2, <2>3, <2>4, PopulateStep
<1>6. ASSUME ResolverMatching \/ ResolverEmpty PROVE LifecycleStep
  <2>1. resolver.job \in Job /\ UNCHANGED item
    BY <1>6 DEF ResolverMatching, ResolverEmpty, TypeOK, ResolverOK
  <2>2. UNCHANGED job \/ \E s \in JobStatus : SetStatus(resolver.job, s)
    BY <1>6, Terminals DEF ResolverMatching, ResolverEmpty
  <2> QED BY <2>1, <2>2, SameRows, SetStatusStep DEF SameItems
<1> QED BY <1>1, <1>2, <1>3, <1>4, <1>5, <1>6 DEF ResolverStep

LEMMA DispatcherLife ==
  ASSUME TypeOK, DispatcherStep PROVE LifecycleStep
<1>1. ASSUME DispatchEvaluate PROVE LifecycleStep
  <2>1. dispatcher.cur \in Job /\ SameItems
    BY <1>1 DEF DispatchEvaluate, TypeOK, DispatcherOK, SameItems
  <2>2. PICK s \in JobStatus : SetStatus(dispatcher.cur, s)
    BY <1>1, DerivedStatus DEF DispatchEvaluate
  <2> QED BY <2>1, <2>2, SetStatusStep
<1>2. ASSUME Passing PROVE LifecycleStep
  BY <1>2, PassStep, SameRows
<1> QED BY <1>1, <1>2, SameRows DEF DispatcherStep, Passing, DispatchBegin, DispatchList, dbVars

LEMMA WorkerLife ==
  ASSUME TypeOK, CancelInv, NEW i \in Item, WorkerStep(i) PROVE LifecycleStep
<1>1. worker[i].pc # "idle"
  BY DEF WorkerStep, WorkerRegister, WorkerAdvance, WorkerRejected, WorkerStore, WorkerSkip,
         WorkerFail, WorkerRetry, WorkerWait, WorkerSessionWait, WorkerCancelled,
         WorkerAbandon, NextStage, Attempting, AtItem, ItemWorking
<1>2. item[i].status # "absent"
  BY <1>1 DEF CancelInv, WorkNeedsRow
<1>3. ASSUME NEW s \in ItemStatus, NEW n, NEW w, UpdateItem(i, s, n, w), UNCHANGED job,
             s = "cancelled" => job[JobOf[i]].status = "cancelled"
      PROVE  LifecycleStep
  <2>1. SameJobs
    BY <1>3 DEF SameJobs
  <2>2. \A k \in Item : k # i => item'[k] = item[k]
    BY <1>3, UpdateItemEffect
  <2>3. \/ item'[i].status = item[i].status
        \/ item'[i].status = s /\ item[i].status \notin ItemTerminal
    BY <1>3 DEF UpdateItem, Accepts, ItemCanTransition, TypeOK, RowsOK, Row
  <2> QED BY <1>2, <1>3, <2>1, <2>2, <2>3, UpdateItemStep
<1>4. {"completed", "skipped", "failed", "cancelled", "retry_wait", "waiting_for_storage", "waiting_for_space"}
        \subseteq ItemStatus
  BY DEF ItemStatus, ItemTerminal, ItemParked
<1>5. CASE WorkerAdvance(i)
  <2> DEFINE next == NextStage[worker[i].pc]
  <2>1. next \in ItemWorking \cup {"staged"}
    BY <1>5 DEF WorkerAdvance, NextStage, ItemWorking
  <2>2. SameJobs /\ \A k \in Item : k # i => item'[k] = item[k]
    BY <1>5 DEF WorkerAdvance, SameJobs, TypeOK, RowsOK
  <2>3. CASE next = "staged"
    <3>1. item'[i].status = item[i].status
      BY <1>5, <2>3 DEF WorkerAdvance, TypeOK, RowsOK, Row
    <3> QED BY <2>2, <3>1, ItemStep
  <2>4. CASE next # "staged"
    <3>1. next \in ItemStatus /\ next # "cancelled"
      BY <2>1, <2>4 DEF ItemStatus, ItemWorking
    <3>2. Accepts(i, next) /\ item'[i].status = next
      BY <1>5, <2>4 DEF WorkerAdvance, TypeOK, RowsOK, Row
    <3>3. \/ item'[i].status = item[i].status
          \/ item'[i].status = next /\ item[i].status \notin ItemTerminal
      BY <3>2 DEF Accepts, ItemCanTransition
    <3> QED BY <1>2, <2>2, <3>1, <3>3, UpdateItemStep
  <2> QED BY <2>3, <2>4
<1>6. ASSUME WorkerRegister(i) \/ WorkerRejected(i) \/ WorkerAbandon(i) PROVE LifecycleStep
  BY <1>6, SameRows DEF WorkerRegister, WorkerRejected, WorkerAbandon, dbVars
<1>7. CASE WorkerStore(i)
  BY <1>3, <1>4, <1>7, SameRows DEF WorkerStore
<1>8. ASSUME WorkerSkip(i) \/ WorkerFail(i) \/ WorkerRetry(i) PROVE LifecycleStep
  BY <1>3, <1>4, <1>8 DEF WorkerSkip, WorkerFail, WorkerRetry, WorkerFinish
<1>9. ASSUME WorkerWait(i) \/ WorkerSessionWait(i) PROVE LifecycleStep
  BY <1>3, <1>4, <1>9 DEF WorkerWait, WorkerSessionWait, WorkerFinish
<1>10. CASE WorkerCancelled(i)
  <2>1. job[JobOf[i]].status = "cancelled"
    BY <1>10 DEF WorkerCancelled, CancelInv, CancelledForAReason
  <2> QED BY <1>3, <1>4, <1>10, <2>1 DEF WorkerCancelled, WorkerFinish
<1> QED BY <1>5, <1>6, <1>7, <1>8, <1>9, <1>10 DEF WorkerStep

LEMMA ApiLife ==
  ASSUME TypeOK, CancelInv, ApiCall \/ ApiStep \/ CancelAborted \/ \E j \in Job : Enqueue(j)
  PROVE  LifecycleStep
<1> USE DEF dbVars, memVars
<1>1. ASSUME NEW j \in Job, Enqueue(j) PROVE LifecycleStep
  <2>1. /\ job[j].status = "absent" /\ job'[j].status = "queued"
        /\ \A k \in Job : k # j => job'[k] = job[k]
    BY <1>1 DEF Enqueue, TypeOK, RowsOK
  <2>2. SameItems
    BY <1>1 DEF Enqueue, SameItems
  <2> QED BY <2>1, <2>2, Phases, JobStep DEF JobActive
<1>2. ASSUME NEW j \in Job, Cancel(j) PROVE LifecycleStep
  BY <1>2, Terminals, SetStatusStep DEF Cancel, SameItems
<1>3. CASE CancelItems
  <2>1. api.job \in Job /\ job[api.job].status = "cancelled"
    BY <1>3 DEF CancelItems, CancelInv, CancelStoresJobFirst, TypeOK, ApiOK
  <2> QED BY <1>3, <2>1, CancelItemsStep DEF CancelItems, SameJobs
<1>4. ASSUME NEW j \in Job, Pause(j) \/ Resume(j) PROVE LifecycleStep
  <2>1. SameItems
    BY <1>4 DEF Pause, Resume, SetPaused, SameItems
  <2>2. \A k \in Job : job'[k].status = job[k].status
    <3>1. PICK op, value : SetPaused(j, op, value)
      BY <1>4 DEF Pause, Resume
    <3>2. job' = [job EXCEPT ![j].paused = value]
      BY <3>1 DEF SetPaused
    <3> QED BY <3>2 DEF TypeOK, RowsOK
  <2> QED BY <2>1, <2>2, StutterStep DEF SameJobs
<1>5. ASSUME NEW j \in Job, RetryFailed(j) PROVE LifecycleStep
  <2>1. SameJobs
    BY <1>5 DEF RetryFailed, ResetRows, SameJobs
  <2> QED BY <1>5, <2>1, RetryStep DEF RetryFailed, ItemsOf
<1>6. ASSUME NEW i \in Item, RetryItem(i) PROVE LifecycleStep
  <2>1. SameJobs /\ JobOf[i] \in Job
    BY <1>6, JobQueueAssumption DEF JobQueueAssumption, RetryItem, ResetRows, SameJobs
  <2> DEFINE R == {i} \cap {k \in Item : item[k].status \in {"failed", "retry_wait"}}
  <2>2. R \in SUBSET ItemsOf(JobOf[i]) /\ \A k \in R : item[k].status \in {"failed", "retry_wait"}
    BY DEF ItemsOf
  <2>3. ResetRows(JobOf[i], R)
    BY <1>6 DEF RetryItem
  <2> HIDE DEF R
  <2> QED BY <2>1, <2>2, <2>3, RetryStep
<1>7. CASE Reopen
  <2>1. SameItems /\ api.job \in Job
    BY <1>7 DEF Reopen, SameItems, TypeOK, ApiOK
  <2>2. CASE UNCHANGED job
    BY <2>1, <2>2, StutterStep DEF SameJobs
  <2>3. CASE job[api.job].status \in {"failed", "completed"} /\ job' = [job EXCEPT ![api.job].status = "queued"]
    <3>1. job'[api.job].status = "queued" /\ \A k \in Job : k # api.job => job'[k] = job[k]
      BY <2>1, <2>3 DEF TypeOK, RowsOK
    <3> QED BY <2>1, <2>3, <3>1, Phases, JobStep DEF JobActive, JobTerminal
  <2> QED BY <1>7, <2>2, <2>3 DEF Reopen
<1>8. CASE WakeSessionWaiters
  <2>1. SameJobs /\ \A k \in Item : item'[k].status = item[k].status
    BY <1>8 DEF WakeSessionWaiters, SameJobs, TypeOK, RowsOK, Row
  <2> QED BY <2>1, StutterStep DEF SameItems
<1>9. CASE CancelRun \/ CancelAborted \/ SetQueuePaused
  BY <1>9, SameRows DEF CancelRun, CancelAborted, SetQueuePaused
<1> QED BY <1>1, <1>2, <1>3, <1>4, <1>5, <1>6, <1>7, <1>8, <1>9 DEF ApiCall, ApiStep

LEMMA StepLife ==
  TypeOK /\ CancelInv /\ ExistInv /\ [Next]_vars => LifecycleStep
<1> SUFFICES ASSUME TypeOK, CancelInv, ExistInv, [Next]_vars PROVE LifecycleStep
  OBVIOUS
<1>1. ASSUME NEW i \in Item, RetryDue(i) PROVE LifecycleStep
  <2>1. SameJobs /\ \A k \in Item : item'[k].status = item[k].status
    BY <1>1 DEF RetryDue, SameJobs, TypeOK, RowsOK, Row
  <2> QED BY <2>1, StutterStep DEF SameItems
<1>2. CASE Stop \/ Crash \/ UNCHANGED vars
  BY <1>2, SameRows DEF Stop, Crash, vars, dbVars
<1>3. CASE Stopped \/ Start
  BY <1>3, ResetStep DEF Stopped, Start
<1> QED BY <1>1, <1>2, <1>3, ResolverLife, DispatcherLife, WorkerLife, ApiLife DEF Next

LEMMA InitExist == Init => ExistInv
  BY DEF Init, ExistInv, IdleResolver

\* The queue implements the life cycle that a client is promised: late
\* workers, resolvers and stale dispatch passes cannot undo what was final
\* (repository/jobs.go, SetStatus and UpdateItem).
THEOREM QueueImplements == Spec => LifecycleSpec
<1>1. Init => Lifecycle!Init
  BY Phases DEF Init, Lifecycle!Init, NoRows, NoRow
<1>2. TypeOK /\ CancelInv /\ ExistInv /\ [Next]_vars => [Lifecycle!Next]_(Lifecycle!vars)
  BY StepLife DEF LifecycleStep, Lifecycle!vars
<1> QED BY <1>1, <1>2, InitType, StepType, InitInv, StepInv, InitExist, StepExist, PTL
        DEF Spec, LifecycleSpec, Lifecycle!Spec

-----------------------------------------------------------------------------
(* Closed jobs stay settled.  The state of a job is derived from a list    *)
(* that may be old when it is stored: what the list says is finished stays *)
(* finished, and the job of a list is not under resolution.                *)

Closed(j)    == job[j].status \in {"completed", "failed"}
Finished(i)  == item[i].status \in ItemTerminal
AtRest(i)    == item[i].status \in ItemTerminal \cup {"absent"}
NoRetryCalls == Calls \cap {"retry_item", "retry_failed"} = {}

SnapshotHolds ==
  dispatcher.pc = "listed" =>
    /\ \A i \in ItemsOf(dispatcher.cur) : dispatcher.rows[i].status \in ItemTerminal => Finished(i)
    /\ \E i \in ItemsOf(dispatcher.cur) : dispatcher.rows[i].status # "absent"

ResolvingOpen == resolver.pc \in {"loaded", "resolving"} => ~Closed(resolver.job)

SettledInv == ClosedJobsSettled /\ SnapshotHolds /\ ResolvingOpen

LEMMA DerivedClosed ==
  ASSUME NEW S, DeriveParentStatus(S) \in {"completed", "failed"} PROVE S \subseteq ItemTerminal
<1> DEFINE present == {n \in 1..7 : Precedence[n] \in S}
<1>1. CASE ~ S \subseteq ItemTerminal /\ present = {}
  BY <1>1 DEF DeriveParentStatus
<1>2. CASE ~ S \subseteq ItemTerminal /\ present # {}
  <2>1. \E n \in present : \A k \in present : n <= k
    BY <1>2, SMT
  <2>2. PICK n \in 1..7 : n = CHOOSE x \in present : \A k \in present : x <= k
    BY <2>1
  <2>3. DeriveParentStatus(S) = Precedence[n]
    BY <1>2, <2>2 DEF DeriveParentStatus
  <2>4. Precedence[n] \notin {"completed", "failed"}
    BY SMT DEF Precedence
  <2> QED BY <2>3, <2>4
<1> QED BY <1>1, <1>2

LEMMA KeepsSettled ==
  ASSUME TypeOK, SettledInv,
         \A i \in Item : /\ Finished(i) => Finished(i)'
                         /\ item[i].status = "absent" =>
                              item'[i].status = "absent" \/ ~Closed(JobOf[i])',
         \A j \in Job : Closed(j)' => Closed(j) \/ \A i \in ItemsOf(j) : AtRest(i)',
         dispatcher' = dispatcher \/ dispatcher'.pc # "listed",
         resolver'.pc \in {"loaded", "resolving"} =>
           \/ ~Closed(resolver.job)'  /\ resolver'.job = resolver.job
           \/ /\ resolver.pc \in {"loaded", "resolving"}
              /\ resolver'.job = resolver.job
              /\ Closed(resolver.job)' => Closed(resolver.job)
  PROVE  SettledInv'
<1> USE JobQueueAssumption DEF JobQueueAssumption
<1>1. ClosedJobsSettled'
  <2>1. ASSUME NEW i \in Item, Closed(JobOf[i])' PROVE AtRest(i)'
    <3>1. CASE Closed(JobOf[i])
      BY <2>1, <3>1 DEF SettledInv, ClosedJobsSettled, Closed, Finished, AtRest
    <3>2. CASE ~Closed(JobOf[i])
      BY <2>1, <3>2 DEF ItemsOf
    <3> QED BY <3>1, <3>2
  <2> QED BY <2>1 DEF ClosedJobsSettled, Closed, AtRest
<1>2. SnapshotHolds'
  BY DEF SettledInv, SnapshotHolds, Finished, ItemsOf
<1>3. ResolvingOpen'
  BY DEF SettledInv, ResolvingOpen, Closed
<1> QED BY <1>1, <1>2, <1>3 DEF SettledInv

(* The rows of a step that only moves open items and jobs among the open   *)
(* states, to cancelled, or not at all.                                    *)
LEMMA SetStatusClosed ==
  ASSUME TypeOK, NEW j \in Job, NEW s \in JobStatus, SetStatus(j, s)
  PROVE  \A k \in Job : Closed(k)' => Closed(k) \/ (k = j /\ s \in {"completed", "failed"})
  BY SetStatusPhase DEF Closed

LEMMA ResolverSettled ==
  ASSUME TypeOK, CancelInv, SettledInv, ResolverStep PROVE SettledInv'
<1> USE JobQueueAssumption DEF JobQueueAssumption, dbVars
<1>1. ASSUME NEW j \in Job, ResolverTake(j) PROVE SettledInv'
  <2>1. CASE resolver' = resolver
    BY <1>1, <2>1, KeepsSettled DEF ResolverTake, Finished, Closed
  <2>2. CASE resolver'.job = j /\ ~(job[j].status \in JobTerminal)
    BY <1>1, <2>2 DEF ResolverTake, SettledInv, ClosedJobsSettled, SnapshotHolds, ResolvingOpen, Closed,
       Finished, ItemsOf, JobTerminal
  <2> QED BY <1>1, <2>1, <2>2 DEF ResolverTake
<1>2. CASE ResolverRegister
  BY <1>2, KeepsSettled DEF ResolverRegister, Finished, Closed, TypeOK, ResolverOK
<1>3. ASSUME NEW s \in ResolveStages, ResolverStage(s) PROVE SettledInv'
  <2>1. s \in JobStatus /\ s \notin {"completed", "failed"} /\ resolver.job \in Job
    BY <1>3 DEF JobStatus, JobActive, ResolvingBand, ResolverStage, TypeOK, ResolverOK
  <2>2. \A k \in Job : Closed(k)' => Closed(k)
    BY <1>3, <2>1, SetStatusClosed DEF ResolverStage
  <2> QED BY <1>3, <2>1, <2>2, KeepsSettled DEF ResolverStage, Finished
<1>4. CASE ResolverFail
  <2>1. resolver.job \in Job /\ resolver' = IdleResolver /\ dispatcher' = dispatcher
    BY <1>4 DEF ResolverFail, TypeOK, ResolverOK
  <2>2. \A i \in Item : JobOf[i] = resolver.job => item[i].status = "absent"
    BY <1>4 DEF ResolverFail, CancelInv, UnresolvedIsEmpty, ItemsOf
  <2>3. \A i \in Item : /\ JobOf[i] = resolver.job => item'[i].status = "absent"
                        /\ JobOf[i] # resolver.job => item'[i] = item[i]
    BY <1>4, <2>1, <2>2, CancelPendingEffect DEF ResolverFail
  <2>4. \A k \in Job : Closed(k)' => Closed(k) \/ k = resolver.job
    <3>1. PICK s \in {"failed", "cancelled"} : SetStatus(resolver.job, s)
      BY <1>4 DEF ResolverFail
    <3> QED BY <2>1, <3>1, Terminals, SetStatusClosed
  <2>5. \A i \in Item : /\ Finished(i) => Finished(i)'
                        /\ item[i].status = "absent" => item'[i].status = "absent"
    BY <2>2, <2>3 DEF Finished, ItemTerminal
  <2>6. \A i \in ItemsOf(resolver.job) : AtRest(i)'
    BY <2>3 DEF ItemsOf, AtRest
  <2> QED BY <2>1, <2>4, <2>5, <2>6, KeepsSettled DEF IdleResolver
<1>5. CASE ResolverInsert
  <2>1. /\ UNCHANGED <<job, dispatcher>> /\ resolver'.pc = "inserted"
        /\ ~Closed(resolver.job) /\ resolver'.job = resolver.job
    BY <1>5 DEF ResolverInsert, SettledInv, ResolvingOpen, Closed, TypeOK, ResolverOK
  <2>2. \A i \in Item : JobOf[i] = resolver.job => item[i].status = "absent"
    BY <1>5 DEF ResolverInsert, CancelInv, UnresolvedIsEmpty, ItemsOf
  <2>3. \A i \in Item : JobOf[i] # resolver.job => item'[i] = item[i]
    BY <1>5 DEF ResolverInsert
  <2>4. \A i \in Item : /\ Finished(i) => Finished(i)'
                        /\ item[i].status = "absent" => item'[i].status = "absent" \/ ~Closed(JobOf[i])'
    BY <2>1, <2>2, <2>3 DEF Finished, ItemTerminal, Closed
  <2> QED BY <2>1, <2>4, KeepsSettled DEF Closed
<1>6. CASE ResolverMatching
  <2>1. resolver.job \in Job /\ resolver' = IdleResolver /\ UNCHANGED <<item, dispatcher>>
    BY <1>6 DEF ResolverMatching, TypeOK, ResolverOK
  <2>2. \A k \in Job : Closed(k)' => Closed(k)
    BY <1>6, <2>1, Terminals, SetStatusClosed DEF ResolverMatching
  <2> QED BY <2>1, <2>2, KeepsSettled DEF Finished, IdleResolver
<1>7. CASE ResolverEmpty
  <2>1. resolver.job \in Job /\ resolver' = IdleResolver /\ UNCHANGED <<item, dispatcher>>
        /\ ItemsOf(resolver.job) = {}
    BY <1>7 DEF ResolverEmpty, TypeOK, ResolverOK
  <2>2. \A k \in Job : Closed(k)' => Closed(k) \/ k = resolver.job
    <3>1. UNCHANGED job \/ SetStatus(resolver.job, "completed")
      BY <1>7 DEF ResolverEmpty
    <3> QED BY <2>1, <3>1, Terminals, SetStatusClosed DEF Closed
  <2> QED BY <2>1, <2>2, KeepsSettled DEF Finished, IdleResolver
<1> QED BY <1>1, <1>2, <1>3, <1>4, <1>5, <1>6, <1>7 DEF ResolverStep

LEMMA DispatcherSettled ==
  ASSUME TypeOK, CancelInv, SettledInv, DispatcherStep PROVE SettledInv'
<1> USE JobQueueAssumption DEF JobQueueAssumption, dbVars
<1>1. ASSUME DispatchBegin \/ Passing PROVE SettledInv'
  <2>1. UNCHANGED <<job, item, resolver>> /\ dispatcher'.pc # "listed"
    <3>1. CASE DispatchBegin
      BY <3>1 DEF DispatchBegin, IdleDispatcher
    <3>2. CASE Passing
      BY <3>2, PassStep
    <3> QED BY <1>1, <3>1, <3>2
  <2> QED BY <2>1, KeepsSettled DEF Finished, Closed
<1>2. ASSUME NEW j \in Job, DispatchList(j) PROVE SettledInv'
  <2>1. UNCHANGED <<job, item, resolver>>
    BY <1>2 DEF DispatchList
  <2>2. CASE HasItems(j)
    <3>1. dispatcher'.cur = j /\ \A i \in ItemsOf(j) : dispatcher'.rows[i] = item[i]
      BY <1>2, <2>2 DEF DispatchList, TypeOK, DispatcherOK, ItemsOf
    <3>2. SnapshotHolds'
      BY <2>1, <2>2, <3>1 DEF SnapshotHolds, HasItems, Finished, ItemsOf
    <3> QED BY <2>1, <3>2 DEF SettledInv, ClosedJobsSettled, ResolvingOpen, Closed
  <2>3. CASE ~HasItems(j)
    <3>1. dispatcher'.pc = "scan"
      BY <1>2, <2>3 DEF DispatchList, TypeOK, DispatcherOK
    <3> QED BY <2>1, <3>1, KeepsSettled DEF Finished, Closed
  <2> QED BY <2>2, <2>3
<1>3. CASE DispatchEvaluate
  <2> DEFINE j == dispatcher.cur
             S == {dispatcher.rows[i].status : i \in ItemsOf(j)}
  <2>1. j \in Job /\ UNCHANGED <<item, resolver>> /\ SetStatus(j, DeriveParentStatus(S))
    BY <1>3 DEF DispatchEvaluate, TypeOK, DispatcherOK
  <2>2. dispatcher'.pc = "scan"
    BY <1>3 DEF DispatchEvaluate, TypeOK, DispatcherOK
  <2>3. ASSUME DeriveParentStatus(S) \in {"completed", "failed"}, NEW i \in ItemsOf(j) PROVE AtRest(i)'
    <3>1. dispatcher.rows[i].status \in ItemTerminal
      BY <2>3, DerivedClosed
    <3>2. Finished(i)
      BY <1>3, <3>1 DEF DispatchEvaluate, SettledInv, SnapshotHolds
    <3> QED BY <2>1, <3>2 DEF Finished, AtRest
  <2>4. resolver.pc \in {"loaded", "resolving"} => resolver.job # j
    BY <1>3 DEF DispatchEvaluate, SettledInv, SnapshotHolds, CancelInv, UnresolvedIsEmpty, WorkNeedsRow, ItemsOf
  <2>5. \A k \in Job : Closed(k)' => Closed(k) \/ (k = j /\ DeriveParentStatus(S) \in {"completed", "failed"})
    BY <2>1, DerivedStatus, SetStatusClosed
  <2>6. resolver.pc \in {"loaded", "resolving"} => resolver.job \in Job
    BY DEF TypeOK, ResolverOK
  <2>7. \A k \in Job : Closed(k)' => Closed(k) \/ \A i \in ItemsOf(k) : AtRest(i)'
    BY <2>3, <2>5
  <2>8. \A i \in Item : /\ Finished(i) => Finished(i)'
                        /\ item[i].status = "absent" => item'[i].status = "absent"
    BY <2>1 DEF Finished
  <2>9. resolver'.pc \in {"loaded", "resolving"} =>
          /\ resolver.pc \in {"loaded", "resolving"}
          /\ resolver'.job = resolver.job
          /\ Closed(resolver.job)' => Closed(resolver.job)
    <3>1. resolver' = resolver
      BY <2>1
    <3>2. ASSUME resolver.pc \in {"loaded", "resolving"}, Closed(resolver.job)' PROVE Closed(resolver.job)
      <4>1. job'[resolver.job] = job[resolver.job]
        BY <2>1, <2>4, <2>6, <3>2, DerivedStatus, SetStatusPhase
      <4> QED BY <3>1, <3>2, <4>1 DEF Closed
    <3> QED BY <3>1, <3>2
  <2> HIDE DEF j, S
  <2> QED BY <2>2, <2>7, <2>8, <2>9, KeepsSettled
<1> QED BY <1>1, <1>2, <1>3 DEF DispatcherStep, Passing

LEMMA WorkerSettled ==
  ASSUME TypeOK, CancelInv, SettledInv, NEW i \in Item, WorkerStep(i) PROVE SettledInv'
<1>1. worker[i].pc # "idle"
  BY DEF WorkerStep, WorkerRegister, WorkerAdvance, WorkerRejected, WorkerStore, WorkerSkip,
         WorkerFail, WorkerRetry, WorkerWait, WorkerSessionWait, WorkerCancelled,
         WorkerAbandon, NextStage, Attempting, AtItem, ItemWorking
<1>2. item[i].status # "absent"
  BY <1>1 DEF CancelInv, WorkNeedsRow
<1>3. UNCHANGED <<job, resolver, dispatcher>>
  BY DEF WorkerStep, WorkerRegister, WorkerAdvance, WorkerRejected, WorkerStore, WorkerSkip,
         WorkerFail, WorkerRetry, WorkerWait, WorkerSessionWait, WorkerCancelled,
         WorkerAbandon, WorkerFinish, dbVars
<1>4. \A k \in Item : k # i => item'[k] = item[k]
  BY DEF WorkerStep, WorkerRegister, WorkerAdvance, WorkerRejected, WorkerStore, WorkerSkip,
         WorkerFail, WorkerRetry, WorkerWait, WorkerSessionWait, WorkerCancelled,
         WorkerAbandon, WorkerFinish, UpdateItem, TypeOK, RowsOK, dbVars
<1>5. Finished(i) => Finished(i)'
  <2>1. ASSUME NEW s, NEW n, NEW w, UpdateItem(i, s, n, w) PROVE Finished(i) => Finished(i)'
    BY <2>1 DEF UpdateItem, Accepts, ItemCanTransition, Finished, TypeOK, RowsOK, Row
  <2>2. ASSUME WorkerAdvance(i) PROVE Finished(i) => Finished(i)'
    <3>1. CASE NextStage[worker[i].pc] = "staged"
      BY <2>2, <3>1 DEF WorkerAdvance, Finished, TypeOK, RowsOK, Row
    <3>2. CASE NextStage[worker[i].pc] # "staged"
      <4>1. NextStage[worker[i].pc] \in ItemWorking
        BY <2>2, <3>2 DEF WorkerAdvance, NextStage, ItemWorking
      <4> QED BY <2>2, <3>2, <4>1
              DEF WorkerAdvance, Finished, Accepts, ItemCanTransition, ItemWorking, ItemTerminal
    <3> QED BY <3>1, <3>2
  <2>3. ASSUME UNCHANGED item PROVE Finished(i) => Finished(i)'
    BY <2>3 DEF Finished
  <2> QED BY <2>1, <2>2, <2>3 DEF WorkerStep, WorkerRegister, WorkerRejected, WorkerStore, WorkerSkip,
         WorkerFail, WorkerRetry, WorkerWait, WorkerSessionWait, WorkerCancelled,
         WorkerAbandon, WorkerFinish, dbVars
<1>6. \A k \in Item : Finished(k) => Finished(k)'
  BY <1>4, <1>5 DEF Finished
<1> QED BY <1>2, <1>3, <1>4, <1>6, KeepsSettled DEF Closed

LEMMA ApiSettled ==
  ASSUME NoRetryCalls, TypeOK, CancelInv, SettledInv,
         ApiCall \/ ApiStep \/ CancelAborted \/ \E j \in Job : Enqueue(j)
  PROVE  SettledInv'
<1> USE DEF dbVars, memVars
<1>1. ASSUME UNCHANGED <<dispatcher, resolver>>, \A j \in Job : Closed(j)' => Closed(j),
             \A i \in Item : /\ Finished(i) => Finished(i)'
                             /\ item[i].status = "absent" => item'[i].status = "absent"
      PROVE  SettledInv'
  BY <1>1, KeepsSettled DEF TypeOK, ResolverOK
<1>2. ASSUME NEW j \in Job, Enqueue(j) PROVE SettledInv'
  <2>1. \A k \in Job : Closed(k)' => Closed(k)
    BY <1>2 DEF Enqueue, Closed, TypeOK, RowsOK
  <2> QED BY <1>1, <1>2, <2>1 DEF Enqueue, Finished
<1>3. ASSUME NEW j \in Job, Cancel(j) PROVE SettledInv'
  <2>1. \A k \in Job : Closed(k)' => Closed(k)
    BY <1>3, Terminals, SetStatusClosed DEF Cancel
  <2> QED BY <1>1, <1>3, <2>1 DEF Cancel, Finished
<1>4. CASE CancelItems
  <2>1. \A i \in Item : /\ Finished(i) => Finished(i)'
                        /\ item[i].status = "absent" => item'[i].status = "absent"
    BY <1>4, CancelPendingEffect
    DEF CancelItems, CancelPendingItems, CancelledRow, Finished, TypeOK, ApiOK, ItemTerminal
  <2> QED BY <1>1, <1>4, <2>1 DEF CancelItems, Closed
<1>5. ASSUME NEW j \in Job, Pause(j) \/ Resume(j) PROVE SettledInv'
  <2>1. PICK op, value : SetPaused(j, op, value)
    BY <1>5 DEF Pause, Resume
  <2>2. job' = [job EXCEPT ![j].paused = value]
    BY <2>1 DEF SetPaused
  <2>3. \A k \in Job : Closed(k)' => Closed(k)
    BY <2>2 DEF Closed, TypeOK, RowsOK
  <2> QED BY <1>1, <2>1, <2>3 DEF SetPaused, Finished
<1>6. CASE Reopen
  <2>1. \A k \in Job : Closed(k)' => Closed(k)
    BY <1>6 DEF Reopen, Closed, TypeOK, RowsOK, ApiOK
  <2> QED BY <1>1, <1>6, <2>1 DEF Reopen, Finished
<1>7. CASE WakeSessionWaiters
  <2>1. \A i \in Item : item'[i].status = item[i].status
    BY <1>7 DEF WakeSessionWaiters, TypeOK, RowsOK, Row
  <2> QED BY <1>1, <1>7, <2>1 DEF WakeSessionWaiters, Finished, Closed
<1>8. CASE CancelAborted \/ SetQueuePaused
  BY <1>1, <1>8 DEF CancelAborted, SetQueuePaused, Finished, Closed
<1>9. CASE CancelRun
  <2>1. /\ UNCHANGED <<job, item, dispatcher>>
        /\ resolver'.pc = resolver.pc /\ resolver'.job = resolver.job
    BY <1>9 DEF CancelRun, TypeOK, ResolverOK
  <2> QED BY <2>1, KeepsSettled DEF Closed, Finished
<1> QED BY <1>2, <1>3, <1>4, <1>5, <1>6, <1>7, <1>8, <1>9
        DEF ApiCall, ApiStep, NoRetryCalls, RetryItem, RetryFailed, Call

LEMMA StepSettled ==
  ASSUME NoRetryCalls PROVE TypeOK /\ CancelInv /\ SettledInv /\ [Next]_vars => SettledInv'
<1> SUFFICES ASSUME TypeOK, CancelInv, SettledInv, [Next]_vars PROVE SettledInv'
  OBVIOUS
<1>1. ASSUME NEW i \in Item, RetryDue(i) PROVE SettledInv'
  <2>1. \A k \in Item : item'[k].status = item[k].status
    BY <1>1 DEF RetryDue, TypeOK, RowsOK, Row
  <2> QED BY <1>1, <2>1, KeepsSettled DEF RetryDue, memVars, Finished, Closed
<1>2. CASE Stop \/ UNCHANGED vars
  BY <1>2, KeepsSettled DEF Stop, vars, dbVars, Finished, Closed
<1>3. CASE Crash
  <2>1. UNCHANGED <<job, item>> /\ resolver' = IdleResolver /\ dispatcher' = IdleDispatcher
    BY <1>3 DEF Crash, ForgetMemory, dbVars
  <2> QED BY <2>1, KeepsSettled DEF Finished, Closed, IdleResolver, IdleDispatcher
<1>4. CASE Stopped \/ Start
  <2>1. ResetInterrupted
    BY <1>4 DEF Stopped, Start
  <2>2. \A j \in Job : Closed(j)' => Closed(j)
    BY <2>1 DEF ResetInterrupted, Closed, TypeOK, RowsOK
  <2>3. \A i \in Item : /\ Finished(i) => Finished(i)'
                        /\ item[i].status = "absent" => item'[i].status = "absent"
    BY <2>1 DEF ResetInterrupted, Finished, ItemTerminal, ItemWorking
  <2>4. resolver'.pc = "idle" /\ dispatcher'.pc = "idle"
    BY <1>4 DEF Stopped, Start, ForgetMemory, CancelInv, DownIsIdle, IdleResolver, IdleDispatcher
  <2> QED BY <2>2, <2>3, <2>4, KeepsSettled
<1> QED BY <1>1, <1>2, <1>3, <1>4, ResolverSettled, DispatcherSettled, WorkerSettled, ApiSettled DEF Next

LEMMA InitSettled == Init => SettledInv
  BY DEF Init, SettledInv, ClosedJobsSettled, SnapshotHolds, ResolvingOpen, Closed, IdleResolver,
     IdleDispatcher, NoRows, NoRow

\* Where no client retries tracks of a closed job, a job that closed as
\* completed or failed has no track left to do, although the state was derived
\* from an old list (jobs/queue.go, collectCandidates).
THEOREM ClosedSettled ==
  ASSUME Calls \cap {"retry_item", "retry_failed"} = {}
  PROVE  Spec => []ClosedJobsSettled
<1>1. TypeOK /\ CancelInv /\ SettledInv /\ [Next]_vars => SettledInv'
  BY StepSettled DEF NoRetryCalls
<1>2. SettledInv => ClosedJobsSettled
  BY DEF SettledInv
<1> QED BY <1>1, <1>2, InitType, StepType, InitInv, StepInv, InitSettled, PTL DEF Spec

-----------------------------------------------------------------------------
(* FairShare.  What the two passes know of the jobs that wait.             *)

(* busy holds every job with a worker since the count; a job the passes    *)
(* have not come to yet is still to be served by the first.                *)
PassInv ==
  dispatcher.pc \in {"first", "rest"} =>
    /\ \A i \in InFlight : JobOf[i] \in dispatcher.busy
    /\ \A j \in Candidates : j \in dispatcher.cands /\ j \in dispatcher.todo \cup dispatcher.busy
    /\ dispatcher.pc = "rest" => dispatcher.todo = {}

LEMMA InitPass == Init => PassInv
  BY DEF Init, PassInv, IdleDispatcher

(* No job that waits is passed over, unless it is in busy. *)
FairStep ==
  \A j \in Job : /\ (InFlight' \ InFlight) \cap ItemsOf(j) # {}
                 /\ Cardinality(InFlight' \cap ItemsOf(j)) > 1
                 => \A k \in Job \ {j} : Waiting(k) => k \in dispatcher.busy

(* A job that is served although it has a worker has been served before or *)
(* is alone; one without a worker gets its first.                          *)
LEMMA HandOverFair ==
  ASSUME TypeOK, PassInv, DispatchFirst \/ DispatchRest, NEW c \in Startable, HandOver(c),
         dispatcher.todo = {} \/ ~HasItsShare(JobOf[c.item])
  PROVE  FairStep
<1> DEFINE h == JobOf[c.item]
<1>1. c.item \in Item /\ InFlight' = InFlight \cup {c.item}
  <2>1. /\ worker'[c.item] = [pc |-> "spawned", cancelled |-> FALSE, tries |-> c.tries]
        /\ c.item \in Item /\ \A i \in Item \ {c.item} : worker'[i] = worker[i]
    BY HandOverEffect, Zenon
  <2>2. worker'[c.item].pc # "idle"
    BY <2>1
  <2> QED BY <2>1, <2>2 DEF InFlight
<1> SUFFICES ASSUME NEW j \in Job, (InFlight' \ InFlight) \cap ItemsOf(j) # {},
                    Cardinality(InFlight' \cap ItemsOf(j)) > 1,
                    NEW k \in Job \ {j}, Waiting(k)
             PROVE  k \in dispatcher.busy
  BY DEF FairStep
<1>2. j = h /\ c.item \in ItemsOf(j)
  BY <1>1 DEF ItemsOf
<1>3. k \in Candidates /\ dispatcher.pc \in {"first", "rest"}
  BY DEF Waiting, DispatchFirst, DispatchRest, InRest
<1>4. CASE dispatcher.todo = {}
  BY <1>3, <1>4 DEF PassInv
<1>5. CASE dispatcher.todo # {}
  <2>1. InFlight \cap ItemsOf(j) # {}
    <3> SUFFICES ASSUME InFlight \cap ItemsOf(j) = {} PROVE FALSE
      OBVIOUS
    <3>1. InFlight' \cap ItemsOf(j) = {c.item}
      BY <1>1, <1>2
    <3> QED BY <3>1, FS_Singleton
  <2>2. j \in dispatcher.busy
    BY <1>3, <2>1 DEF PassInv, ItemsOf
  <2>3. dispatcher.cands # {j}
    BY <1>3 DEF PassInv
  <2> QED BY <1>2, <1>5, <2>2, <2>3 DEF HasItsShare
<1> QED BY <1>4, <1>5

LEMMA PassFair ==
  ASSUME TypeOK, PassInv, Passing
  PROVE  PassInv' /\ FairStep
<1>1. ASSUME UNCHANGED worker PROVE FairStep
  BY <1>1 DEF FairStep, InFlight
<1>2. CASE DispatchCount
  <2>1. ASSUME NEW rank,
               dispatcher' = [dispatcher EXCEPT !.pc = "first", !.todo = Candidates,
                 !.cands = Candidates, !.rank = rank, !.busy = {JobOf[i] : i \in InFlight}]
        PROVE  PassInv'
    <3>1. /\ dispatcher'.pc = "first" /\ dispatcher'.ready = dispatcher.ready
          /\ dispatcher'.todo = Candidates /\ dispatcher'.cands = Candidates
          /\ dispatcher'.busy = {JobOf[i] : i \in InFlight}
      BY <2>1 DEF TypeOK, DispatcherOK
    <3>2. Candidates' = Candidates /\ InFlight' = InFlight
      BY <1>2, <3>1 DEF DispatchCount, Candidates, InFlight
    <3> QED BY <3>1, <3>2 DEF PassInv
  <2>2. ASSUME dispatcher' = IdleDispatcher PROVE PassInv'
    <3>1. dispatcher'.pc = "idle"
      BY <2>2 DEF IdleDispatcher
    <3> QED BY <3>1 DEF PassInv
  <2> QED BY <1>1, <1>2, <2>1, <2>2 DEF DispatchCount
<1>3. CASE DispatchReturn
  BY <1>1, <1>3 DEF DispatchReturn, PassInv, IdleDispatcher
<1>4. CASE DispatchFirst \/ DispatchRest
  <2>0. dispatcher.pc \in {"first", "rest"}
    BY <1>4 DEF DispatchFirst, DispatchRest, InRest
  <2>1. ASSUME NEW c \in Startable, HandOver(c), dispatcher.todo = {} \/ ~HasItsShare(JobOf[c.item])
        PROVE  PassInv'
    <3>1. /\ c.item \in Item
          /\ dispatcher'.busy = dispatcher.busy \cup {JobOf[c.item]}
          /\ dispatcher'.todo = dispatcher.todo \ {JobOf[c.item]}
          /\ dispatcher'.cands = dispatcher.cands
          /\ dispatcher'.ready = {d \in dispatcher.ready : d.item # c.item}
          /\ \A i \in Item \ {c.item} : worker'[i] = worker[i]
      BY <2>1, HandOverEffect
    <3>2. Candidates' \subseteq Candidates /\ InFlight' \subseteq InFlight \cup {c.item}
      BY <3>1 DEF Candidates, InFlight
    <3>3. dispatcher'.pc = "rest" => dispatcher.todo = {}
      BY <2>1 DEF HandOver, TypeOK, DispatcherOK
    <3> QED BY <2>0, <3>1, <3>2, <3>3 DEF PassInv
  <2>2. ASSUME UNCHANGED worker, NEW j, HasItsShare(j) \/ Ready(j) = {},
               dispatcher' = [dispatcher EXCEPT !.todo = @ \ {j}]
        PROVE  PassInv'
    <3>1. /\ dispatcher'.pc = dispatcher.pc /\ dispatcher'.ready = dispatcher.ready
          /\ dispatcher'.todo = dispatcher.todo \ {j}
          /\ dispatcher'.cands = dispatcher.cands /\ dispatcher'.busy = dispatcher.busy
      BY <2>2 DEF TypeOK, DispatcherOK
    <3>2. Candidates' = Candidates /\ InFlight' = InFlight
      BY <2>2, <3>1 DEF Candidates, InFlight
    <3>3. j \in Candidates => j \in dispatcher.busy
      <4>1. CASE HasItsShare(j)
        BY <4>1 DEF HasItsShare
      <4>2. CASE Ready(j) = {}
        BY <2>0, <4>2 DEF Ready, Startable, Candidates, PassInv
      <4> QED BY <2>2, <4>1, <4>2
    <3> QED BY <2>0, <3>1, <3>2, <3>3 DEF PassInv
  <2>3. CASE UNCHANGED worker
    BY <1>1, <1>4, <2>1, <2>2, <2>3, PassHands
  <2>4. CASE ~UNCHANGED worker
    <3>1. PICK c \in Startable : HandOver(c) /\ (dispatcher.todo = {} \/ ~HasItsShare(JobOf[c.item]))
      BY <1>4, <2>4, PassHands
    <3> QED BY <1>4, <2>1, <3>1, HandOverFair
  <2> QED BY <2>3, <2>4
<1> QED BY <1>2, <1>3, <1>4 DEF Passing

LEMMA StepFair ==
  ASSUME TypeOK, CancelInv, PassInv, [Next]_vars
  PROVE  PassInv' /\ FairStep
<1>1. ASSUME UNCHANGED dispatcher, InFlight' \subseteq InFlight PROVE PassInv' /\ FairStep
  <2>1. Candidates' = Candidates
    BY <1>1 DEF Candidates
  <2> QED BY <1>1, <2>1 DEF PassInv, FairStep
<1>2. ASSUME UNCHANGED dispatcher, \A i \in Item : worker'[i].pc = worker[i].pc
      PROVE  PassInv' /\ FairStep
  BY <1>1, <1>2 DEF InFlight
<1>3. CASE DispatcherStep
  <2>1. ASSUME UNCHANGED worker, dispatcher'.pc \notin {"first", "rest"} PROVE PassInv' /\ FairStep
    BY <2>1 DEF PassInv, FairStep, InFlight
  <2>2. ASSUME DispatchBegin \/ (\E j \in Job : DispatchList(j)) \/ DispatchEvaluate
        PROVE  UNCHANGED worker /\ dispatcher'.pc \notin {"first", "rest"}
    BY <2>2 DEF DispatchBegin, DispatchList, DispatchEvaluate, IdleDispatcher, TypeOK, DispatcherOK
  <2> QED BY <1>3, <2>1, <2>2, PassFair DEF DispatcherStep, Passing
<1>4. CASE Stopped \/ Crash
  <2>1. dispatcher' = IdleDispatcher /\ \A i \in Item : worker'[i] = IdleWorker
    BY <1>4 DEF Stopped, Crash, ForgetMemory
  <2>2. InFlight' = {}
    BY <2>1 DEF InFlight, IdleWorker
  <2> QED BY <2>1, <2>2 DEF FairStep, PassInv, IdleDispatcher
<1>5. CASE Stop \/ Start \/ UNCHANGED vars
  BY <1>2, <1>5 DEF Stop, Start, vars, TypeOK, WorkersOK
<1>6. CASE ResolverStep
  <2>1. UNCHANGED dispatcher
    BY <1>6 DEF ResolverStep, ResolverTake, ResolverRegister, ResolverStage, ResolverFail,
       ResolverInsert, ResolverMatching, ResolverEmpty
  <2>2. UNCHANGED worker \/ \E j \in Job : EndRun(j)
    BY <1>6 DEF ResolverStep, ResolverTake, ResolverRegister, ResolverStage, ResolverFail,
       ResolverInsert, ResolverMatching, ResolverEmpty, TypeOK, ResolverOK
  <2> QED BY <1>2, <2>1, <2>2, EndRunEffect
<1>7. ASSUME NEW i \in Item, WorkerStep(i) \/ RetryDue(i) PROVE PassInv' /\ FairStep
  <2>1. UNCHANGED dispatcher
    BY <1>7 DEF WorkerStep, RetryDue, memVars, WorkerRegister, WorkerAdvance, WorkerRejected, WorkerStore,
       WorkerSkip, WorkerFail, WorkerRetry, WorkerCancelled, WorkerWait, WorkerSessionWait, WorkerAbandon,
       WorkerFinish
  <2>2. \A k \in Item : worker'[k] = worker[k] \/ (k = i /\ worker[i].pc # "idle")
    BY <1>7 DEF WorkerStep, RetryDue, memVars, WorkerRegister, WorkerAdvance, WorkerRejected, WorkerStore,
       WorkerSkip, WorkerFail, WorkerRetry, WorkerCancelled, WorkerWait, WorkerSessionWait, WorkerAbandon,
       WorkerFinish, Leave, NextStage, Attempting, AtItem, ItemWorking, TypeOK, WorkersOK
  <2>3. InFlight' \subseteq InFlight
    BY <2>2 DEF InFlight
  <2> QED BY <1>1, <2>1, <2>3
<1>8. CASE ApiCall \/ ApiStep \/ CancelAborted
  <2>1. UNCHANGED dispatcher
    BY <1>8 DEF ApiCall, ApiStep, CancelAborted, Cancel, Pause, Resume, RetryFailed, RetryItem,
       WakeSessionWaiters, SetQueuePaused, CancelItems, CancelRun, Reopen, ResetRows, SetPaused, memVars
  <2>2. UNCHANGED worker \/ \E j \in Job : EndRun(j)
    BY <1>8 DEF ApiCall, ApiStep, CancelAborted, Cancel, Pause, Resume, RetryFailed, RetryItem,
       WakeSessionWaiters, SetQueuePaused, CancelItems, CancelRun, Reopen, ResetRows, SetPaused, memVars,
       TypeOK, ApiOK
  <2> QED BY <1>2, <2>1, <2>2, EndRunEffect
<1>9. ASSUME NEW j \in Job, Enqueue(j) PROVE PassInv' /\ FairStep
  BY <1>2, <1>9 DEF Enqueue
<1> QED BY <1>3, <1>4, <1>5, <1>6, <1>7, <1>8, <1>9 DEF Next

\* While a job with a ready track has no worker, no other job gets a second,
\* unless the waiting one had a worker when the pass counted them or got one
\* from this pass, which ended meanwhile (jobs/queue.go, dispatch, the first
\* of the two passes).
THEOREM SharedFairly == Spec => FairShare
<1>1. TypeOK /\ CancelInv /\ PassInv /\ [Next]_vars => PassInv' /\ FairStep
  BY StepFair
<1>2. TypeOK /\ CancelInv /\ PassInv /\ [Next]_vars =>
        [\A j \in Job : /\ (InFlight' \ InFlight) \cap ItemsOf(j) # {}
                        /\ Cardinality(InFlight' \cap ItemsOf(j)) > 1
                        => \A k \in Job \ {j} : Waiting(k) => k \in dispatcher.busy]_vars
  BY <1>1 DEF FairStep
<1>3. Spec => [](TypeOK /\ CancelInv /\ PassInv)
  BY <1>1, InitType, StepType, InitInv, StepInv, InitPass, PTL DEF Spec
<1> QED BY <1>2, <1>3, PTL DEF Spec, FairShare
=============================================================================
