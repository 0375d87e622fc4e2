------------------ MODULE PersistentDataStoreWrapperProofs ------------------
(***************************************************************************)
(* Theorems about PersistentDataStoreWrapper: the wrapper uses its         *)
(* UpdateQueue as the queue's own specification says, so that everything   *)
(* proved of the queue holds of the writes to the database; and what its   *)
(* caches remember differs from the database only for the reasons that the *)
(* ghosts record.                                                          *)
(***************************************************************************)
EXTENDS PersistentDataStoreWrapper, SequenceTheorems, TLAPS

-----------------------------------------------------------------------------
(* The queue by itself, for any number of writes.  Inv is inductive: the   *)
(* absence of overlap follows from the absence of a second wakeup, and     *)
(* both from knowing which of them is due.                                 *)

(* Appending at the back, element by element. *)
LEMMA AppendIndex ==
  ASSUME NEW S, NEW s \in Seq(S), NEW x \in S
  PROVE  /\ Append(s, x) \in Seq(S)
         /\ Len(Append(s, x)) = Len(s) + 1
         /\ \A i \in 1..Len(s) : Append(s, x)[i] = s[i]
         /\ Append(s, x)[Len(s) + 1] = x
         /\ Append(s, x) # <<>>
  BY AppendProperties

(* Taking the front off, element by element. *)
LEMMA TailIndex ==
  ASSUME NEW S, NEW s \in Seq(S), s # <<>>
  PROVE  /\ Tail(s) \in Seq(S)
         /\ Len(Tail(s)) = Len(s) - 1
         /\ \A i \in 1..Len(s) - 1 : Tail(s)[i] = s[i + 1]
         /\ Head(s) = s[1]
         /\ Head(s) \in S
         /\ Len(s) > 0
         /\ Tail(s) = <<>> <=> Len(s) = 1
<1>1. /\ Tail(s) \in Seq(S) /\ Head(s) \in S /\ Len(Tail(s)) = Len(s) - 1
      /\ \A i \in 1..Len(s) - 1 : Tail(s)[i] = s[i + 1]
  BY HeadTailProperties
<1>2. Len(s) > 0 /\ Head(s) = s[1]
  BY EmptySeq, LenProperties
<1>3. Tail(s) = <<>> => Len(s) = 1
  <2>1. Len(s) \in Nat
    BY LenProperties
  <2>2. Tail(s) = <<>> => Len(Tail(s)) = 0
    BY EmptySeq
  <2> QED BY <1>1, <2>1, <2>2
<1>4. Tail(s) # <<>> => Len(Tail(s)) \in Nat \ {0}
  BY <1>1, EmptySeq
<1>5. Len(s) = 1 => Tail(s) = <<>>
  BY <1>1, <1>4
<1> QED BY <1>1, <1>2, <1>3, <1>5

(* The empty queue has the invariant.                                      *)
LEMMA QueueBegins == Queue!Init => Queue!Inv
  BY DEF Queue!Init, Queue!Inv, Queue!TypeOK, Queue!NoOverlap, Queue!NoLostWakeup, Queue!QueueIsRest,
         Queue!StartedInOrder

(* A call of enqueue keeps the invariant, whether it executes or waits. *)
LEMMA EnqueueKeepsInv ==
  ASSUME Queue!Inv, NEW j \in Write, Queue!Enqueue(j)
  PROVE  Queue!Inv'
<1> USE DEF Queue!Inv
<1>1. /\ queue' = Append(queue, j) /\ enqueued' = Append(enqueued, j)
      /\ called' = called /\ timers' = timers
  BY DEF Queue!Enqueue
<1>2. /\ queue' \in Seq(Write) /\ Len(queue') = Len(queue) + 1 /\ queue' # <<>>
      /\ enqueued' \in Seq(Write) /\ Len(enqueued') = Len(enqueued) + 1
  BY <1>1, AppendIndex DEF Queue!TypeOK
<1>3. Queue!QueueIsRest'
  <2>1. \A i \in 1..Len(called) : called[i] = enqueued'[i]
    BY <1>1, AppendIndex DEF Queue!TypeOK, Queue!QueueIsRest
  <2>2. \A i \in 1..Len(queue) : queue'[i] = enqueued'[Len(called) + i]
    BY <1>1, AppendIndex DEF Queue!TypeOK, Queue!QueueIsRest
  <2>3. queue'[Len(queue) + 1] = enqueued'[Len(called) + Len(queue) + 1]
    BY <1>1, AppendIndex DEF Queue!TypeOK, Queue!QueueIsRest
  <2>4. \A i \in 1..Len(queue) + 1 : queue'[i] = enqueued'[Len(called) + i]
    <3> SUFFICES ASSUME NEW i \in 1..Len(queue) + 1
                 PROVE  queue'[i] = enqueued'[Len(called) + i]
      OBVIOUS
    <3>1. CASE i \in 1..Len(queue)
      BY <2>2, <3>1
    <3>2. CASE i = Len(queue) + 1
      <4>1. Len(called) + i = Len(called) + Len(queue) + 1
        BY <3>2 DEF Queue!TypeOK
      <4> QED BY <2>3, <3>2, <4>1
    <3> QED BY <3>1, <3>2 DEF Queue!TypeOK
  <2>5. Len(enqueued') = Len(called') + Len(queue')
    BY <1>1, <1>2 DEF Queue!TypeOK, Queue!QueueIsRest
  <2> QED BY <1>1, <1>2, <2>1, <2>4, <2>5 DEF Queue!QueueIsRest
<1>4. CASE queue = <<>>
  <2>1. /\ running = {} /\ timers = 0 /\ Len(queue) = 0 /\ Len(started) = Len(called)
    BY <1>4, EmptySeq DEF Queue!NoLostWakeup, Queue!StartedInOrder
  <2>2. /\ Len(queue') = 1 /\ queue' # <<>>
    BY <1>2, <2>1
  <2>3. Head(queue') = j
    BY <1>1, <1>4 DEF Queue!TypeOK
  <2>4. running' = {j} /\ started' = Append(started, j)
    BY <2>1, <2>2, <2>3 DEF Queue!Enqueue, Queue!ExecutePendingUpdates
  <2>5. Queue!StartedInOrder'
    <3>1. Len(started') = Len(called) + 1
      BY <2>1, <2>4, AppendIndex DEF Queue!TypeOK
    <3>2. \A i \in 1..Len(started) : started'[i] = enqueued'[i]
      BY <1>1, <2>4, AppendIndex DEF Queue!TypeOK, Queue!StartedInOrder
    <3>3. started'[Len(started) + 1] = enqueued'[Len(enqueued) + 1]
      BY <1>1, <2>4, AppendIndex DEF Queue!TypeOK
    <3>4. Len(enqueued) = Len(started)
      BY <2>1 DEF Queue!QueueIsRest, Queue!TypeOK
    <3> QED BY <1>1, <1>2, <2>1, <2>4, <3>1, <3>2, <3>3, <3>4 DEF Queue!TypeOK, Queue!StartedInOrder
  <2>6. Queue!TypeOK'
    BY <1>1, <1>2, <2>4, AppendIndex DEF Queue!TypeOK
  <2> QED BY <1>1, <1>2, <1>3, <2>1, <2>3, <2>4, <2>5, <2>6 DEF Queue!NoOverlap, Queue!NoLostWakeup
<1>5. CASE queue # <<>>
  <2>1. Len(queue') # 1
    BY <1>2, <1>5, EmptySeq DEF Queue!TypeOK
  <2>2. running' = running /\ started' = started
    BY <2>1 DEF Queue!Enqueue
  <2>3. Head(queue') = Head(queue)
    BY <1>1, <1>5 DEF Queue!TypeOK
  <2>4. Queue!StartedInOrder'
    BY <1>1, <1>2, <2>2, AppendIndex DEF Queue!TypeOK, Queue!StartedInOrder
  <2> QED BY <1>1, <1>2, <1>3, <1>5, <2>2, <2>3, <2>4
          DEF Queue!TypeOK, Queue!NoOverlap, Queue!NoLostWakeup
<1> QED BY <1>4, <1>5

(* A call of newCb keeps the invariant: exactly one timer if work is left. *)
LEMMA CompleteKeepsInv ==
  ASSUME Queue!Inv, NEW j \in Write, Queue!Complete(j)
  PROVE  Queue!Inv'
<1> USE DEF Queue!Inv
<1>1. /\ j \in running /\ running = {j} /\ queue # <<>> /\ Head(queue) = j /\ timers = 0
  BY DEF Queue!Complete, Queue!NoOverlap
<1>2. /\ running' = {} /\ queue' = Tail(queue) /\ called' = Append(called, j)
      /\ timers' = (IF queue' # <<>> THEN 1 ELSE 0)
      /\ enqueued' = enqueued /\ started' = started
  BY <1>1 DEF Queue!Complete
<1>3. /\ queue' \in Seq(Write) /\ Len(queue') = Len(queue) - 1 /\ Len(queue) > 0
      /\ called' \in Seq(Write) /\ Len(called') = Len(called) + 1
  BY <1>1, <1>2, AppendIndex, TailIndex DEF Queue!TypeOK
<1>4. Queue!QueueIsRest'
  <2>1. \A i \in 1..Len(called) : called'[i] = enqueued[i]
    BY <1>2, AppendIndex DEF Queue!TypeOK, Queue!QueueIsRest
  <2>2. called'[Len(called) + 1] = enqueued[Len(called) + 1]
    BY <1>1, <1>2, AppendIndex, TailIndex DEF Queue!TypeOK, Queue!QueueIsRest
  <2>3. \A i \in 1..Len(queue') : queue'[i] = enqueued[Len(called) + 1 + i]
    BY <1>1, <1>2, <1>3, TailIndex DEF Queue!TypeOK, Queue!QueueIsRest
  <2> QED BY <1>2, <1>3, <2>1, <2>2, <2>3 DEF Queue!TypeOK, Queue!QueueIsRest
<1>5. Queue!StartedInOrder'
  BY <1>1, <1>2, <1>3 DEF Queue!TypeOK, Queue!StartedInOrder
<1> QED BY <1>1, <1>2, <1>3, <1>4, <1>5 DEF Queue!TypeOK, Queue!NoOverlap, Queue!NoLostWakeup

(* The timer keeps the invariant: it runs the head, which was not running. *)
LEMMA TimerKeepsInv ==
  ASSUME Queue!Inv, Queue!TimerFires
  PROVE  Queue!Inv'
<1> USE DEF Queue!Inv
<1>1. timers = 1 /\ running = {} /\ queue # <<>>
  BY DEF Queue!TimerFires, Queue!TypeOK, Queue!NoOverlap, Queue!NoLostWakeup
<1>2. /\ timers' = 0 /\ queue' = queue /\ enqueued' = enqueued /\ called' = called
      /\ running' = {Head(queue)} /\ started' = Append(started, Head(queue))
  BY <1>1 DEF Queue!TimerFires, Queue!ExecutePendingUpdates
<1>3. /\ Head(queue) \in Write /\ Head(queue) = queue[1] /\ Len(queue) > 0
  BY <1>1, TailIndex DEF Queue!TypeOK
<1>4. Queue!TypeOK'
  BY <1>2, <1>3, AppendIndex DEF Queue!TypeOK
<1>5. Queue!StartedInOrder'
  <2>1. Len(started') = Len(started) + 1 /\ Len(started) = Len(called)
    BY <1>1, <1>2, <1>3, AppendIndex DEF Queue!TypeOK, Queue!StartedInOrder
  <2>2. \A i \in 1..Len(started) : started'[i] = enqueued[i]
    BY <1>2, <1>3, AppendIndex DEF Queue!TypeOK, Queue!StartedInOrder
  <2>3. started'[Len(started) + 1] = enqueued[Len(called) + 1]
    BY <1>2, <1>3, <2>1, AppendIndex DEF Queue!TypeOK, Queue!QueueIsRest
  <2>4. \A i \in 1..Len(started') : started'[i] = enqueued[i]
    <3> SUFFICES ASSUME NEW i \in 1..Len(started')
                 PROVE  started'[i] = enqueued[i]
      OBVIOUS
    <3>1. CASE i \in 1..Len(started)
      BY <2>2, <3>1
    <3>2. CASE i = Len(started) + 1
      BY <2>1, <2>3, <3>2
    <3> QED BY <2>1, <3>1, <3>2 DEF Queue!TypeOK
  <2>5. Len(started') = Len(called) + 1 /\ Len(called) + 1 <= Len(enqueued)
    BY <1>3, <2>1 DEF Queue!TypeOK, Queue!QueueIsRest
  <2> QED BY <1>2, <2>4, <2>5 DEF Queue!StartedInOrder
<1> QED BY <1>1, <1>2, <1>4, <1>5 DEF Queue!NoOverlap, Queue!NoLostWakeup, Queue!QueueIsRest

(* Every reachable state satisfies Inv: updates never overlap, no wakeup   *)
(* is lost, and the queue holds exactly what was not yet called back.      *)
THEOREM QueueInvariance == Queue!Spec => []Queue!Inv
<1>1. Queue!Inv /\ UNCHANGED Queue!vars => Queue!Inv'
  BY DEF Queue!Inv, Queue!TypeOK, Queue!NoOverlap, Queue!NoLostWakeup, Queue!QueueIsRest,
         Queue!StartedInOrder, Queue!vars
<1>2. Queue!Inv /\ [Queue!Next]_(Queue!vars) => Queue!Inv'
  BY <1>1, EnqueueKeepsInv, CompleteKeepsInv, TimerKeepsInv DEF Queue!Next
<1> QED BY <1>2, QueueBegins, PTL DEF Queue!Spec

(* The variables keep their types (queue and the histories are sequences   *)
(* of writes, the number of timers a natural number).                      *)
THEOREM QueueTypeCorrect == Queue!Spec => []Queue!TypeOK
<1>1. Queue!Inv => Queue!TypeOK
  BY DEF Queue!Inv
<1> QED BY <1>1, QueueInvariance, PTL

(* At most one update function runs at a time, the one at the head.        *)
THEOREM NoOverlapEver == Queue!Spec => []Queue!NoOverlap
<1>1. Queue!Inv => Queue!NoOverlap
  BY DEF Queue!Inv
<1> QED BY <1>1, QueueInvariance, PTL

(* A queue that is not empty is being run or will be woken.                *)
THEOREM NoLostWakeupEver == Queue!Spec => []Queue!NoLostWakeup
<1>1. Queue!Inv => Queue!NoLostWakeup
  BY DEF Queue!Inv
<1> QED BY <1>1, QueueInvariance, PTL

(* Update functions are called in the order of enqueue, each once.         *)
THEOREM StartedInOrderEver == Queue!Spec => []Queue!StartedInOrder
<1>1. Queue!Inv => Queue!StartedInOrder
  BY DEF Queue!Inv
<1> QED BY <1>1, QueueInvariance, PTL

(* Every step of the queue is a step of FifoService, or no step of it: the *)
(* callbacks are called in the order of the calls of enqueue.              *)
THEOREM QueueServesInOrder == Queue!Spec => Service!SafeSpec
<1>1. Queue!Init => Service!Init
  BY DEF Queue!Init, Service!Init
<1>2. ASSUME Queue!Inv, [Queue!Next]_(Queue!vars)
      PROVE  [Service!Next]_(Service!vars)
  <2>1. ASSUME NEW j \in Write, Queue!Enqueue(j)
        PROVE  Service!Accept(j)
    BY <2>1 DEF Queue!Enqueue, Service!Accept
  <2>2. ASSUME NEW j \in Write, Queue!Complete(j)
        PROVE  Service!Answer
    <3>1. queue # <<>> /\ Head(queue) = j
      BY <1>2, <2>2 DEF Queue!Inv, Queue!NoOverlap, Queue!Complete
    <3>2. Len(queue) > 0 /\ queue[1] = j
      BY <1>2, <3>1, TailIndex DEF Queue!Inv, Queue!TypeOK
    <3>3. Len(called) < Len(enqueued) /\ enqueued[Len(called) + 1] = j
      BY <1>2, <3>2 DEF Queue!Inv, Queue!TypeOK, Queue!QueueIsRest
    <3> QED BY <2>2, <3>3 DEF Queue!Complete, Service!Answer
  <2>3. ASSUME Queue!TimerFires
        PROVE  UNCHANGED Service!vars
    BY <2>3 DEF Queue!TimerFires, Service!vars
  <2>4. CASE UNCHANGED Queue!vars
    BY <2>4 DEF Queue!vars, Service!vars
  <2> QED BY <1>2, <2>1, <2>2, <2>3, <2>4 DEF Queue!Next, Service!Next
<1> QED BY <1>1, <1>2, QueueInvariance, PTL DEF Queue!Spec, Service!SafeSpec

-----------------------------------------------------------------------------
(* Steps of the wrapper are steps of the queue.  A turn that the queue     *)
(* takes no part in leaves all of its variables alone.                     *)
QueueStep ==
  \/ \E w \in Write : Queue!Enqueue(w) \/ Queue!Complete(w)
  \/ Queue!TimerFires
  \/ UNCHANGED queueVars

(* The database's and the readers' steps do not touch the queue.           *)
LEMMA QuietSteps ==
  ASSUME \/ \E r \in Reader : All(r) \/ Initialized(r) \/ ReadStep(r)
         \/ \E r \in Reader, k \in Key : Get(r, k)
         \/ \E k \in Key : ExpireItem(k)
         \/ ExpireAll \/ ExpireCheckedInit \/ Close
         \/ \E k \in Key, item \in Item : ForeignUpsert(k, item)
         \/ \E data \in DataSet : ForeignInit(data)
  PROVE  UNCHANGED queueVars
  BY DEF All, Initialized, ReadStep, Get, Send, ServeRead, GetDone, AllDone, InitializedDone,
         ExpireItem, ExpireAll, ExpireCheckedInit, Close, ForeignUpsert, ForeignInit, ForeignWrite

(* A call of the wrapper enqueues one job.                                 *)
LEMMA InitStoreEnqueues ==
  ASSUME Queue!TypeOK, \E data \in DataSet : Len(enqueued) < MaxWrites /\ InitStore(data)
  PROVE  \E w \in Write : Queue!Enqueue(w)
<1>1. PICK data \in DataSet : Len(enqueued) < MaxWrites /\ InitStore(data)
  OBVIOUS
<1> DEFINE w == [id |-> Len(enqueued) + 1, op |-> "init", data |-> data]
<1>2. Queue!Enqueue(w)
  BY <1>1 DEF InitStore, Enqueue
<1>3. Len(enqueued) \in Nat
  BY LenProperties DEF Queue!TypeOK
<1>4. w \in Write
  BY <1>1, <1>3, WrapperAssumption DEF Write
<1> QED BY <1>2, <1>4

(* An upsert of the wrapper puts one write into the queue.                 *)
LEMMA UpsertEnqueues ==
  ASSUME Queue!TypeOK,
         \E k \in Key, item \in Item : Len(enqueued) < MaxWrites /\ Upsert(k, item)
  PROVE  \E w \in Write : Queue!Enqueue(w)
<1>1. PICK k \in Key, item \in Item : Len(enqueued) < MaxWrites /\ Upsert(k, item)
  OBVIOUS
<1> DEFINE w == [id |-> Len(enqueued) + 1, op |-> "upsert", key |-> k, item |-> item]
<1>2. Queue!Enqueue(w)
  BY <1>1 DEF Upsert, Enqueue
<1>3. Len(enqueued) \in Nat
  BY LenProperties DEF Queue!TypeOK
<1>4. w \in Write
  BY <1>1, <1>3, WrapperAssumption DEF Write
<1> QED BY <1>2, <1>4

(* Every step of the wrapper is at most one step of the queue.             *)
LEMMA StepOfQueue ==
  ASSUME Queue!TypeOK, [Next]_vars
  PROVE  QueueStep
<1>1. CASE \E data \in DataSet : Len(enqueued) < MaxWrites /\ InitStore(data)
  BY <1>1, InitStoreEnqueues DEF QueueStep
<1>2. CASE \E k \in Key, item \in Item : Len(enqueued) < MaxWrites /\ Upsert(k, item)
  BY <1>2, UpsertEnqueues DEF QueueStep
<1>3. CASE TimerFires
  BY <1>3 DEF TimerFires, QueueStep
<1>4. CASE \E i \in DOMAIN enqueued : WriteStep(enqueued[i])
  <2>1. PICK i \in DOMAIN enqueued : WriteStep(enqueued[i])
    BY <1>4
  <2>2. enqueued[i] \in Write
    BY <2>1, ElementOfSeq DEF Queue!TypeOK
  <2>3. CASE ServeWrite(enqueued[i])
    BY <2>3 DEF ServeWrite, QueueStep
  <2>4. CASE WriteDone(enqueued[i])
    BY <2>2, <2>4 DEF WriteDone, QueueStep
  <2> QED BY <2>1, <2>3, <2>4 DEF WriteStep
<1>5. CASE UNCHANGED vars
  BY <1>5 DEF vars, QueueStep
<1> QED BY <1>1, <1>2, <1>3, <1>4, <1>5, QuietSteps DEF Next, QueueStep

(* The invariant of the queue holds in the wrapper.                        *)
THEOREM QueueInOrderEver == Spec => []QueueInOrder
<1>1. Init => QueueInOrder
  BY QueueBegins DEF Init, QueueInOrder
<1>2. QueueInOrder /\ [Next]_vars => QueueInOrder'
  <2> SUFFICES ASSUME QueueInOrder, [Next]_vars PROVE QueueInOrder'
    OBVIOUS
  <2>1. QueueStep
    BY StepOfQueue DEF QueueInOrder, Queue!Inv
  <2>2. Queue!Inv /\ (Queue!Inv' => QueueInOrder')
    BY DEF QueueInOrder
  <2>3. CASE \E w \in Write : Queue!Enqueue(w)
    <3>1. PICK w \in Write : Queue!Enqueue(w)
      BY <2>3
    <3> QED BY <3>1, <2>2, EnqueueKeepsInv
  <2>4. CASE \E w \in Write : Queue!Complete(w)
    <3>1. PICK w \in Write : Queue!Complete(w)
      BY <2>4
    <3> QED BY <3>1, <2>2, CompleteKeepsInv
  <2>5. CASE Queue!TimerFires
    BY <2>5, <2>2, TimerKeepsInv
  <2>6. CASE UNCHANGED queueVars
    BY <2>6 DEF QueueInOrder, queueVars, Queue!Inv, Queue!TypeOK, Queue!NoOverlap, Queue!NoLostWakeup,
                Queue!QueueIsRest, Queue!StartedInOrder
  <2> QED BY <2>1, <2>3, <2>4, <2>5, <2>6 DEF QueueStep
<1> QED BY <1>1, <1>2, PTL DEF Spec

-----------------------------------------------------------------------------
(* coreWrite is a record with these four fields.                           *)
WriteShape ==
  coreWrite = [stage |-> coreWrite.stage, reply |-> coreWrite.reply,
               failed |-> coreWrite.failed, dirty |-> coreWrite.dirty]

(* The inductive form: a write is at the database exactly while the queue  *)
(* runs one.                                                               *)
WriteRuns ==
  /\ QueueInOrder
  /\ WriteShape
  /\ coreWrite.stage # "idle" <=> running # {}

(* A turn that starts an update function starts the only one.              *)
LEMMA StartsOne ==
  ASSUME QueueInOrder,
         Queue!TimerFires \/ \E w \in Write : Queue!Enqueue(w)
  PROVE  \/ started' # started /\ running' # {}
         \/ started' = started /\ running' = running
<1>1. started \in Seq(Write)
  BY DEF QueueInOrder, Queue!Inv, Queue!TypeOK
<1>2. \A w : Append(started, w) # started
  BY <1>1
<1> QED BY <1>2 DEF Queue!TimerFires, Queue!Enqueue, Queue!ExecutePendingUpdates

(* The running write is the only one, and completing it ends it.           *)
LEMMA CompleteEnds ==
  ASSUME QueueInOrder, NEW w \in Write, Queue!Complete(w)
  PROVE  running # {} /\ running' = {}
  BY DEF QueueInOrder, Queue!Inv, Queue!NoOverlap, Queue!Complete

(* That the write of the core is the one that runs is inductive.           *)
LEMMA WriteRunsStep ==
  ASSUME WriteRuns, QueueInOrder', [Next]_vars
  PROVE  WriteRuns'
<1> USE DEF WriteRuns
<1>0. Queue!TypeOK
  BY DEF QueueInOrder, Queue!Inv
<1>1. ASSUME RunUpdate, Queue!TimerFires \/ \E w \in Write : Queue!Enqueue(w)
      PROVE  WriteRuns'
  BY <1>1, StartsOne DEF RunUpdate, NoWrite, WriteShape
<1>2. ASSUME UNCHANGED <<coreWrite, running>> PROVE WriteRuns'
  BY <1>2 DEF WriteShape
<1>3. CASE \E data \in DataSet : Len(enqueued) < MaxWrites /\ InitStore(data)
  <2>1. \E w \in Write : Queue!Enqueue(w)
    BY <1>0, <1>3, InitStoreEnqueues
  <2>2. RunUpdate
    BY <1>3 DEF InitStore, Enqueue
  <2> QED BY <1>1, <2>1, <2>2
<1>4. CASE \E k \in Key, item \in Item : Len(enqueued) < MaxWrites /\ Upsert(k, item)
  <2>1. \E w \in Write : Queue!Enqueue(w)
    BY <1>0, <1>4, UpsertEnqueues
  <2>2. RunUpdate
    BY <1>4 DEF Upsert, Enqueue
  <2> QED BY <1>1, <2>1, <2>2
<1>5. CASE TimerFires
  BY <1>1, <1>5 DEF TimerFires
<1>6. CASE \E i \in DOMAIN enqueued : WriteStep(enqueued[i])
  <2>1. PICK i \in DOMAIN enqueued : WriteStep(enqueued[i])
    BY <1>6
  <2>2. enqueued[i] \in Write
    BY <1>0, <2>1, ElementOfSeq DEF Queue!TypeOK
  <2>3. CASE ServeWrite(enqueued[i])
    <3>1. running # {} /\ running' = running
      BY <2>3 DEF ServeWrite, queueVars
    <3>2. \E reply, failed : coreWrite' = [stage |-> "served", reply |-> reply, failed |-> failed, dirty |-> {}]
      BY <2>3 DEF ServeWrite, ServeInit, ServeUpsert, ServeFailure, Served
    <3> QED BY <3>1, <3>2 DEF WriteShape
  <2>4. CASE WriteDone(enqueued[i])
    BY <2>2, <2>4, CompleteEnds DEF WriteDone, NoWrite, WriteShape
  <2> QED BY <2>1, <2>3, <2>4 DEF WriteStep
<1>7. CASE \/ \E k \in Key, item \in Item : ForeignUpsert(k, item)
           \/ \E data \in DataSet : ForeignInit(data)
  <2>1. UNCHANGED queueVars
    BY <1>7, QuietSteps
  <2>2. \E new : ForeignWrite(new)
    BY <1>7 DEF ForeignUpsert, ForeignInit
  <2>3. PICK d : coreWrite' = [coreWrite EXCEPT !.dirty = d] \/ coreWrite' = coreWrite
    BY <2>2 DEF ForeignWrite
  <2>4. WriteShape' /\ coreWrite'.stage = coreWrite.stage
    BY <2>3 DEF WriteShape
  <2> QED BY <2>1, <2>4 DEF queueVars
<1>8. CASE \/ \E r \in Reader : All(r) \/ Initialized(r) \/ ReadStep(r)
           \/ \E r \in Reader, k \in Key : Get(r, k)
           \/ \E k \in Key : ExpireItem(k)
           \/ ExpireAll \/ ExpireCheckedInit \/ Close
  BY <1>2, <1>8 DEF All, Initialized, ReadStep, Get, Send, ServeRead, GetDone, AllDone, InitializedDone,
                    ExpireItem, ExpireAll, ExpireCheckedInit, Close, queueVars
<1>9. CASE UNCHANGED vars
  BY <1>2, <1>9 DEF vars, queueVars
<1> QED BY <1>3, <1>4, <1>5, <1>6, <1>7, <1>8, <1>9 DEF Next

(* At most one write of this process is at the database, and it is the one *)
(* that the queue runs.                                                    *)
THEOREM OneWriteEver == Spec => []OneWriteAtTheDatabase
<1>1. Init => WriteRuns
  BY QueueBegins DEF Init, QueueInOrder, WriteRuns, WriteShape, NoWrite, Queue!Init
<1>2. WriteRuns /\ QueueInOrder' /\ [Next]_vars => WriteRuns'
  BY WriteRunsStep
<1>3. WriteRuns => OneWriteAtTheDatabase
  <2> SUFFICES ASSUME WriteRuns PROVE OneWriteAtTheDatabase
    OBVIOUS
  <2>1. Queue!StartedInOrder /\ called \in Seq(Write)
    BY DEF WriteRuns, QueueInOrder, Queue!Inv, Queue!TypeOK
  <2>2. Len(started) <= Len(called) + 1
    BY <2>1 DEF Queue!StartedInOrder
  <2> QED BY <2>2 DEF WriteRuns, OneWriteAtTheDatabase
<1> QED BY <1>1, <1>2, <1>3, QueueInOrderEver, PTL DEF Spec

(* Whatever else happens, a step of the wrapper accepts the next write,    *)
(* answers the oldest one that is not answered, or does neither: the safe  *)
(* part of what WritesServedInOrder says.                                  *)
THEOREM WritesServedSafely == Spec => Service!SafeSpec
<1>1. Init => Service!Init
  BY DEF Init, Queue!Init, Service!Init
<1>2. ASSUME QueueInOrder, [Next]_vars
      PROVE  [Service!Next]_(Service!vars)
  <2>1. Queue!TypeOK /\ QueueStep
    BY <1>2, StepOfQueue DEF QueueInOrder, Queue!Inv
  <2>2. ASSUME NEW w \in Write, Queue!Enqueue(w)
        PROVE  Service!Accept(w)
    BY <2>2 DEF Queue!Enqueue, Service!Accept
  <2>3. ASSUME NEW w \in Write, Queue!Complete(w)
        PROVE  Service!Answer
    <3>1. queue # <<>> /\ Head(queue) = w
      BY <1>2, <2>3 DEF QueueInOrder, Queue!Inv, Queue!NoOverlap, Queue!Complete
    <3>2. Len(queue) > 0 /\ queue[1] = w /\ Len(queue) \in Nat /\ Len(called) \in Nat
      BY <2>1, <3>1 DEF Queue!TypeOK
    <3>3. Len(called) < Len(enqueued) /\ enqueued[Len(called) + 1] = w
      BY <1>2, <3>2 DEF QueueInOrder, Queue!Inv, Queue!QueueIsRest
    <3> QED BY <2>3, <3>3 DEF Queue!Complete, Service!Answer
  <2>4. CASE Queue!TimerFires \/ UNCHANGED queueVars
    BY <2>4 DEF Queue!TimerFires, queueVars, Service!vars
  <2> QED BY <2>1, <2>2, <2>3, <2>4 DEF QueueStep, Service!Next
<1> QED BY <1>1, <1>2, QueueInOrderEver, PTL DEF Spec, Service!SafeSpec

-----------------------------------------------------------------------------
(* What the wrapper remembers.                                             *)

(* A call of a reader is a record with these five fields.                  *)
CallShape(c) ==
  c = [op |-> c.op, keys |-> c.keys, stage |-> c.stage, reply |-> c.reply, dirty |-> c.dirty]

ReadingShape ==
  /\ reading = [r \in Reader |-> reading[r]]
  /\ \A r \in Reader : CallShape(reading[r])

(* The database has carried out an init that was not called back yet.      *)
InitServed == coreWrite.stage = "served" /\ \E w \in running : w.op = "init"

(* The callback of the running write will set the cache entry of k.        *)
Refreshing(k) ==
  \/ InitServed
  \/ /\ coreWrite.stage = "served" /\ ~coreWrite.failed /\ HasBody(coreWrite.reply)
     /\ \E w \in running : w.op = "upsert" /\ w.key = k

(* What the answer to the running write says: an init has left its data    *)
(* and an upsert the item it answers, but where others wrote since.        *)
WriteBrings ==
  coreWrite.stage = "served" /\ ~coreWrite.failed =>
    \A w \in running :
      /\ w.op = "init" => \A k \in Key \ coreWrite.dirty : db[k] = w.data[k]
      /\ w.op = "upsert" => /\ coreWrite.reply # NoItem
                            /\ w.key \notin coreWrite.dirty => coreWrite.reply = db[w.key]

(* What the answer to a read says, if no write has overtaken it.           *)
ReadBrings(r) ==
  reading[r].stage = "served" =>
    /\ reading[r].op = "get" /\ ~reading[r].dirty =>
         \A k \in reading[r].keys : reading[r].reply[1] \in {NoItem, db[k]}
    /\ reading[r].op = "all" /\ ~reading[r].dirty /\ reading[r].reply # <<>> =>
         reading[r].reply[1] = db
    /\ reading[r].op = "initialized" => (reading[r].reply[1] => dbInited)

(* The item cache while a write is under way; it is never ahead of the     *)
(* database either.                                                        *)
ItemsFollow ==
  \A k \in Key \ tainted :
    /\ ~Refreshing(k) /\ itemCache[k] # NoItem => itemCache[k] = db[k] \/ MissedDeletion(k)
    /\ ~InitServed => itemCache[k].version <= db[k].version

(* The same of the list, which is tainted if it was cached before the      *)
(* database has applied the upsert that is on its way.                     *)
ListFollows ==
  /\ allCache # <<>> /\ ~allTainted /\ ~InitServed => \A k \in Key : allCache[1][k] = Visible(db[k])
  /\ allCache # <<>> /\ UpsertUnderWay => allTainted

(* Without a ttl there are no caches.                                      *)
NothingCached == ~Caching => itemCache = [k \in Key |-> NoItem] /\ allCache = <<>>

Coherence ==
  /\ WriteBrings
  /\ \A r \in Reader : ReadBrings(r)
  /\ ItemsFollow /\ ListFollows /\ NothingCached
  /\ InitializedIsPopulated

-----------------------------------------------------------------------------
(* Types.                                                                  *)

AllAsksForAll == \A r \in Reader : reading[r].op = "all" => reading[r].keys = Key

Typed == WriteRuns /\ TypeOK /\ ReadingShape /\ AllAsksForAll

(* The types of what the wrapper adds to the queue.                        *)
WrapperTypes ==
  /\ isInitialized \in BOOLEAN /\ checkedInit \in BOOLEAN
  /\ itemCache \in [Key -> MaybeItem]
  /\ allCache = <<>> \/ (Len(allCache) = 1 /\ allCache[1] \in [Key -> MaybeItem])
  /\ db \in [Key -> MaybeItem] /\ dbInited \in BOOLEAN
  /\ foreign \in 0..MaxForeign
  /\ tainted \in SUBSET Key /\ allTainted \in BOOLEAN

CoreWriteType ==
  coreWrite \in [stage : {"idle", "sent", "served"}, reply : MaybeItem,
                 failed : BOOLEAN, dirty : SUBSET Key]

CallType(c) ==
  /\ c.op \in {"idle", "get", "all", "initialized"}
  /\ c.stage \in {"idle", "sent", "served"}
  /\ c.keys \in SUBSET Key /\ c.dirty \in BOOLEAN
  /\ c.op = "get" => \E k \in Key : c.keys = {k}
  /\ c.stage = "served" =>
       CASE c.op = "get" -> \E i \in MaybeItem : c.reply = <<i>>
         [] c.op = "all" -> \/ c.reply = <<>>
                            \/ \E d \in [Key -> MaybeItem] : c.reply = <<d>>
         [] OTHER        -> \E b \in BOOLEAN : c.reply = <<b>>

Call(c) == CallShape(c) /\ CallType(c) /\ (c.op = "all" => c.keys = Key)

ReadingType ==
  /\ reading = [r \in Reader |-> reading[r]]
  /\ \A r \in Reader : Call(reading[r])

(* The types of the wrapper, part by part.                                 *)
LEMMA TypeParts ==
  TypeOK /\ ReadingShape /\ AllAsksForAll
    <=> Queue!TypeOK /\ WrapperTypes /\ CoreWriteType /\ ReadingType
  BY DEF TypeOK, WrapperTypes, CoreWriteType, ReadingShape, AllAsksForAll, ReadingType, Call, CallType

(* What runs is a write, with the fields of its kind.                      *)
LEMMA RunningWrite ==
  ASSUME QueueInOrder, NEW w \in running
  PROVE  /\ w \in Write /\ running = {w}
         /\ w.op \in {"init", "upsert"}
         /\ w.op = "init" => w.data \in DataSet
         /\ w.op = "upsert" => w.key \in Key /\ w.item \in Item
<1>1. w \in Write
  BY DEF QueueInOrder, Queue!Inv, Queue!TypeOK
<1>2. running = {w}
  BY DEF QueueInOrder, Queue!Inv, Queue!NoOverlap
<1> QED BY <1>1, <1>2 DEF Write

(* The absent item is a deleted item of version 0.                         *)
LEMMA NoItemIs ==
  /\ NoItem \in MaybeItem /\ NoItem.version = 0
  /\ NoItem.deleted
  BY DEF NoItem, MaybeItem

(* An item has a version of its own.                                       *)
LEMMA ItemIs ==
  ASSUME NEW i \in Item
  PROVE  /\ i \in MaybeItem /\ i # NoItem
         /\ i.version \in 1..MaxVersion /\ i.version \in Nat
  BY NoItemIs, WrapperAssumption DEF Item, MaybeItem

(* What a store or a cache may hold has a version, and so has what a       *)
(* reader sees of it.                                                      *)
LEMMA MaybeItemIs ==
  ASSUME NEW i \in MaybeItem
  PROVE  /\ i.version \in Nat
         /\ i # NoItem => i \in Item
         /\ Visible(i) \in MaybeItem
<1>1. i = NoItem \/ i \in Item
  BY DEF MaybeItem
<1>2. i.version \in Nat
  BY <1>1, NoItemIs, ItemIs
<1>3. Visible(i) = NoItem \/ Visible(i) = i
  BY DEF Visible
<1> QED BY <1>1, <1>2, <1>3, NoItemIs

(* What init is given has no deleted items: all() lists it as it is.       *)
LEMMA DataSetIs ==
  ASSUME NEW d \in DataSet
  PROVE  /\ d \in [Key -> MaybeItem]
         /\ \A k \in Key : Visible(d[k]) = d[k] /\ (d[k] # NoItem => ~d[k].deleted)
<1>1. d \in [Key -> MaybeItem] /\ \A k \in Key : d[k].version > 0 => ~d[k].deleted
  BY DEF DataSet
<1>2. ASSUME NEW k \in Key PROVE Visible(d[k]) = d[k] /\ (d[k] # NoItem => ~d[k].deleted)
  <2>1. d[k] \in MaybeItem
    BY <1>1
  <2>2. d[k] # NoItem => d[k].version > 0
    BY <2>1, ItemIs, MaybeItemIs, WrapperAssumption
  <2> QED BY <1>1, <2>2, NoItemIs DEF Visible
<1> QED BY <1>1, <1>2

(* The answers that are overtaken become dirty; nothing else of a read     *)
(* changes when rows do.                                                   *)
LEMMA ChangedRowsReads ==
  ASSUME ReadingType, NEW changed, NEW newDb, ChangeRows(changed, newDb)
  PROVE  /\ ReadingType'
         /\ \A r \in Reader :
              /\ reading'[r].op = reading[r].op /\ reading'[r].keys = reading[r].keys
              /\ reading'[r].stage = reading[r].stage /\ reading'[r].reply = reading[r].reply
              /\ ~reading'[r].dirty =>
                   ~reading[r].dirty /\ (reading[r].stage = "served" => reading[r].keys \cap changed = {})
<1>1. reading' = [r \in Reader |-> reading'[r]]
  BY DEF ChangeRows
<1>2. ASSUME NEW r \in Reader
      PROVE  /\ Call(reading'[r])
             /\ reading'[r].op = reading[r].op /\ reading'[r].keys = reading[r].keys
             /\ reading'[r].stage = reading[r].stage /\ reading'[r].reply = reading[r].reply
             /\ ~reading'[r].dirty =>
                  ~reading[r].dirty /\ (reading[r].stage = "served" => reading[r].keys \cap changed = {})
  <2>1. Call(reading[r])
    BY DEF ReadingType
  <2>2. CASE reading[r].stage = "served" /\ reading[r].keys \cap changed # {}
    <3>1. reading'[r] = [op |-> reading[r].op, keys |-> reading[r].keys, stage |-> reading[r].stage,
                         reply |-> reading[r].reply, dirty |-> TRUE]
      BY <2>1, <2>2 DEF ChangeRows, Call, CallShape
    <3> QED BY <2>1, <3>1 DEF Call, CallShape, CallType
  <2>3. CASE ~(reading[r].stage = "served" /\ reading[r].keys \cap changed # {})
    BY <2>1, <2>3 DEF ChangeRows
  <2> QED BY <2>2, <2>3
<1> QED BY <1>1, <1>2 DEF ReadingType

(* One reader's call becomes another.                                      *)
LEMMA OneCall ==
  ASSUME ReadingType, NEW r \in Reader, reading' = [s \in Reader |-> reading'[s]], Call(reading'[r]),
         \A s \in Reader \ {r} : reading'[s] = reading[s]
  PROVE  ReadingType'
  BY DEF ReadingType

(* A call is sent, and is over when its answer is handled.                 *)
LEMMA SentReads ==
  ASSUME ReadingType, NEW r \in Reader, NEW op \in {"get", "all", "initialized"}, NEW keys \in SUBSET Key,
         Send(r, op, keys), op = "get" => \E k \in Key : keys = {k}, op = "all" => keys = Key
  PROVE  /\ ReadingType'
         /\ reading'[r].stage = "sent"
         /\ \A s \in Reader \ {r} : reading'[s] = reading[s]
<1> DEFINE c == [op |-> op, keys |-> keys, stage |-> "sent", reply |-> <<>>, dirty |-> FALSE]
<1>2. reading' = [reading EXCEPT ![r] = c]
  BY DEF Send
<1>3. Call(c) /\ c.stage = "sent"
  BY DEF Call, CallShape, CallType
<1> HIDE DEF c
<1>4. /\ reading' = [s \in Reader |-> reading'[s]] /\ reading'[r] = c
      /\ \A s \in Reader \ {r} : reading'[s] = reading[s]
  BY <1>2 DEF ReadingType
<1> QED BY <1>3, <1>4, OneCall

(* A read that is over leaves the others.                                  *)
LEMMA ReadOver ==
  ASSUME ReadingType, NEW r \in Reader, reading' = [reading EXCEPT ![r] = Idle]
  PROVE  /\ ReadingType'
         /\ reading'[r].stage = "idle"
         /\ \A s \in Reader \ {r} : reading'[s] = reading[s]
<1>1. Call(Idle) /\ Idle.stage = "idle"
  BY DEF Idle, Call, CallShape, CallType
<1>2. /\ reading' = [s \in Reader |-> reading'[s]] /\ reading'[r] = Idle
      /\ \A s \in Reader \ {r} : reading'[s] = reading[s]
  BY DEF ReadingType
<1> QED BY <1>1, <1>2, OneCall

(* A read is served.                                                       *)
LEMMA ServedReads ==
  ASSUME ReadingType, WrapperTypes, NEW r \in Reader, ServeRead(r)
  PROVE  /\ ReadingType'
         /\ reading'[r].reply \in Answers(r)
         /\ reading'[r].op = reading[r].op /\ reading'[r].keys = reading[r].keys
         /\ \A s \in Reader \ {r} : reading'[s] = reading[s]
<1>1. PICK a \in Answers(r) : reading' = [reading EXCEPT ![r].stage = "served", ![r].reply = a]
  BY DEF ServeRead
<1>2. Call(reading[r]) /\ reading = [s \in Reader |-> reading[s]]
  BY DEF ReadingType
<1>3. reading'[r] = [op |-> reading[r].op, keys |-> reading[r].keys, stage |-> "served",
                     reply |-> a, dirty |-> reading[r].dirty]
  BY <1>1, <1>2 DEF Call, CallShape
<1>4. /\ reading' = [s \in Reader |-> reading'[s]]
      /\ \A s \in Reader \ {r} : reading'[s] = reading[s]
  BY <1>1, <1>2
<1>5. ASSUME reading[r].op = "get" PROVE Call(reading'[r])
  <2>1. PICK k \in Key : reading[r].keys = {k}
    BY <1>2, <1>5 DEF Call, CallType
  <2>2. a = <<db[k]>> \/ a = <<NoItem>>
    BY <1>5, <2>1 DEF Answers
  <2>3. \E i \in MaybeItem : a = <<i>>
    BY <2>2, NoItemIs DEF WrapperTypes
  <2> QED BY <1>2, <1>3, <1>5, <2>3 DEF Call, CallShape, CallType
<1>6. ASSUME reading[r].op = "all" PROVE Call(reading'[r])
  <2>1. a = <<db>> \/ a = <<>>
    BY <1>6 DEF Answers
  <2> QED BY <1>2, <1>3, <1>6, <2>1 DEF Call, CallShape, CallType, WrapperTypes
<1>7. ASSUME reading[r].op \notin {"get", "all"} PROVE Call(reading'[r])
  <2>1. a = <<dbInited>> \/ a = <<FALSE>>
    BY <1>7 DEF Answers
  <2>2. \E b \in BOOLEAN : a = <<b>>
    BY <2>1, Zenon DEF WrapperTypes
  <2> QED BY <1>2, <1>3, <1>7, <2>2 DEF Call, CallShape, CallType
<1>8. Call(reading'[r])
  BY <1>5, <1>6, <1>7
<1> QED BY <1>3, <1>4, <1>8, OneCall

(* A call of the queue that starts an update function starts the only one, *)
(* whose write is then sent; an upsert has emptied the list.               *)
StartStep ==
  /\ \/ Queue!TimerFires
     \/ \E w \in Write : Queue!Enqueue(w)
  /\ RunUpdate
  /\ UNCHANGED <<isInitialized, itemCache, checkedInit, reading, dbVars, ghostVars>>

(* A write that begins is sent to the core; an upsert empties the cache of *)
(* all items.                                                              *)
LEMMA StartEffect ==
  ASSUME Typed, StartStep
  PROVE  \/ running' = running /\ coreWrite' = coreWrite /\ allCache' = allCache
         \/ /\ coreWrite.stage = "idle" /\ coreWrite' = [NoWrite EXCEPT !.stage = "sent"]
            /\ \E w : /\ running' = {w}
                     /\ allCache' = IF w.op = "upsert" THEN <<>> ELSE allCache
<1>1. /\ started \in Seq(Write) /\ queue \in Seq(Write)
      /\ queue = <<>> => running = {}
      /\ timers > 0 => running = {}
  BY DEF Typed, WriteRuns, QueueInOrder, Queue!Inv, Queue!TypeOK, Queue!NoOverlap, Queue!NoLostWakeup
<1>2. \/ started' = started /\ running' = running
      \/ running = {} /\ \E w \in Write : started' = Append(started, w) /\ running' = {w}
  <2>1. CASE Queue!TimerFires
    <3>1. running = {} /\ (queue # <<>> => Head(queue) \in Write)
      BY <1>1, <2>1 DEF Queue!TimerFires
    <3> QED BY <2>1, <3>1 DEF Queue!TimerFires, Queue!ExecutePendingUpdates
  <2>2. ASSUME NEW w \in Write, Queue!Enqueue(w)
        PROVE  \/ started' = started /\ running' = running
               \/ running = {} /\ \E v \in Write : started' = Append(started, v) /\ running' = {v}
    <3>1. queue' = Append(queue, w) /\ Len(queue') = Len(queue) + 1 /\ queue' # <<>>
      BY <1>1, <2>2 DEF Queue!Enqueue
    <3>2. CASE Len(queue') = 1
      <4>1. queue = <<>>
        BY <1>1, <3>1, <3>2
      <4>2. Head(queue') = w
        BY <3>1, <4>1
      <4>3. running = {} /\ started' = Append(started, w) /\ running' = {w}
        BY <1>1, <2>2, <3>1, <3>2, <4>1, <4>2 DEF Queue!Enqueue, Queue!ExecutePendingUpdates
      <4> QED BY <2>2, <4>3
    <3>3. CASE Len(queue') # 1
      BY <2>2, <3>3 DEF Queue!Enqueue
    <3> QED BY <3>2, <3>3
  <2> QED BY <2>1, <2>2 DEF StartStep
<1>3. CASE started' = started /\ running' = running
  BY <1>3 DEF StartStep, RunUpdate
<1>4. ASSUME NEW w \in Write, started' = Append(started, w), running' = {w}, running = {}
      PROVE  /\ coreWrite.stage = "idle" /\ coreWrite' = [NoWrite EXCEPT !.stage = "sent"]
             /\ running' = {w}
             /\ allCache' = IF w.op = "upsert" THEN <<>> ELSE allCache
  <2>1. started' # started /\ started'[Len(started')] = w
    BY <1>1, <1>4
  <2>2. coreWrite.stage = "idle"
    BY <1>4 DEF Typed, WriteRuns
  <2> QED BY <1>4, <2>1, <2>2 DEF StartStep, RunUpdate
<1> QED BY <1>2, <1>3, <1>4

(* A write begins.                                                         *)
LEMMA StartTyped ==
  ASSUME Typed, StartStep
  PROVE  WrapperTypes' /\ CoreWriteType' /\ ReadingType'
<1>1. WrapperTypes /\ CoreWriteType /\ ReadingType
  BY TypeParts DEF Typed
<1>2. WrapperTypes'
  BY <1>1, StartEffect DEF StartStep, WrapperTypes, dbVars, ghostVars
<1>3. CoreWriteType'
  BY <1>1, StartEffect, NoItemIs DEF CoreWriteType, NoWrite
<1>4. ReadingType'
  BY <1>1 DEF StartStep, ReadingType
<1> QED BY <1>2, <1>3, <1>4

(* The database carries out a write.                                       *)
LEMMA ServeWriteTyped ==
  ASSUME Typed, NEW w \in running, ServeWrite(w)
  PROVE  WrapperTypes' /\ CoreWriteType' /\ ReadingType'
<1>1. WrapperTypes /\ CoreWriteType /\ ReadingType
  BY TypeParts DEF Typed
<1>2. UNCHANGED <<isInitialized, checkedInit, itemCache, allCache, foreign>>
  BY DEF ServeWrite, cacheVars
<1>3. /\ w.op \in {"init", "upsert"}
      /\ w.op = "init" => w.data \in DataSet
      /\ w.op = "upsert" => w.key \in Key /\ w.item \in Item
  BY RunningWrite DEF Typed, WriteRuns
<1>4. CASE ServeInit(w)
  <2>1. w.data \in [Key -> MaybeItem]
    BY <1>3, <1>4, DataSetIs DEF ServeInit
  <2>2. WrapperTypes'
    BY <1>1, <1>2, <1>4, <2>1 DEF WrapperTypes, ServeInit, ChangeRows, ghostVars
  <2>3. CoreWriteType'
    BY <1>4, NoItemIs DEF CoreWriteType, ServeInit, Served
  <2> QED BY <1>1, <1>4, <2>2, <2>3, ChangedRowsReads DEF ServeInit
<1>5. CASE ServeUpsert(w)
  <2>1. w.key \in Key /\ w.item \in MaybeItem
    BY <1>3, <1>5, ItemIs DEF ServeUpsert
  <2>2. WrapperTypes'
    BY <1>1, <1>2, <1>5, <2>1 DEF WrapperTypes, ServeUpsert, ChangeRows, ghostVars
  <2>3. CoreWriteType'
    <3>1. db[w.key] \in MaybeItem
      BY <1>1, <2>1 DEF WrapperTypes
    <3>2. PICK reply \in MaybeItem : Served(reply, FALSE)
      BY <1>5, <2>1, <3>1 DEF ServeUpsert
    <3> QED BY <3>2 DEF CoreWriteType, Served
  <2>4. ReadingType'
    <3>1. CASE UNCHANGED reading
      BY <1>1, <3>1 DEF ReadingType
    <3>2. CASE ChangeRows({w.key}, [db EXCEPT ![w.key] = w.item])
      BY <1>1, <3>2, ChangedRowsReads
    <3> QED BY <1>5, <3>1, <3>2 DEF ServeUpsert
  <2> QED BY <2>2, <2>3, <2>4
<1>6. CASE ServeFailure(w)
  <2>1. CoreWriteType'
    BY <1>6, NoItemIs DEF CoreWriteType, ServeFailure, Served
  <2>2. CASE UNCHANGED <<db, reading, ghostVars>>
    BY <1>1, <1>2, <1>6, <2>1, <2>2 DEF WrapperTypes, ReadingType, ServeFailure, ghostVars
  <2>3. CASE /\ w.op = "upsert" /\ db[w.key].version < w.item.version
             /\ ChangeRows({w.key}, [db EXCEPT ![w.key] = w.item])
             /\ tainted' = tainted \cup {w.key}
             /\ UNCHANGED allTainted
    <3>1. w.key \in Key /\ w.item \in MaybeItem
      BY <1>3, <2>3, ItemIs
    <3>2. WrapperTypes'
      BY <1>1, <1>2, <1>6, <2>3, <3>1 DEF WrapperTypes, ServeFailure, ChangeRows
    <3> QED BY <1>1, <2>1, <2>3, <3>2, ChangedRowsReads
  <2> QED BY <1>6, <2>2, <2>3 DEF ServeFailure
<1> QED BY <1>4, <1>5, <1>6 DEF ServeWrite

(* The callback of a write puts its answer into the cache.                 *)
LEMMA WriteDoneTyped ==
  ASSUME Typed, NEW w \in running, WriteDone(w)
  PROVE  WrapperTypes' /\ CoreWriteType' /\ ReadingType'
<1>1. WrapperTypes /\ CoreWriteType /\ ReadingType
  BY TypeParts DEF Typed
<1>2. UNCHANGED <<reading, db, dbInited, foreign>> /\ coreWrite' = NoWrite
  BY DEF WriteDone, dbVars
<1>3. /\ w.op \in {"init", "upsert"}
      /\ w.op = "init" => w.data \in DataSet
      /\ w.op = "upsert" => w.key \in Key
  BY RunningWrite DEF Typed, WriteRuns
<1>4. CoreWriteType' /\ ReadingType'
  BY <1>1, <1>2, NoItemIs DEF CoreWriteType, NoWrite, ReadingType
<1>5. coreWrite.reply \in MaybeItem /\ coreWrite.dirty \in SUBSET Key
  BY <1>1 DEF CoreWriteType
<1>6. CASE w.op = "init"
  <2>1. w.data \in [Key -> MaybeItem] /\ InitDone(w)
    BY <1>3, <1>6, DataSetIs DEF WriteDone
  <2>2. tainted' \in SUBSET Key /\ allTainted' \in BOOLEAN
    BY <1>5, <2>1 DEF InitDone
  <2>3. isInitialized' \in BOOLEAN /\ checkedInit' \in BOOLEAN
    BY <1>1, <2>1 DEF InitDone, WrapperTypes
  <2>4. /\ itemCache' \in [Key -> MaybeItem]
        /\ allCache' = <<>> \/ (Len(allCache') = 1 /\ allCache'[1] \in [Key -> MaybeItem])
    BY <1>1, <2>1 DEF InitDone, WrapperTypes
  <2> QED BY <1>1, <1>2, <1>4, <2>2, <2>3, <2>4 DEF WrapperTypes
<1>7. CASE w.op = "upsert"
  <2>1. UpsertDone(w) /\ w.key \in Key
    BY <1>3, <1>7 DEF WriteDone
  <2> QED BY <1>1, <1>2, <1>4, <1>5, <2>1 DEF UpsertDone, WrapperTypes
<1> QED BY <1>3, <1>6, <1>7

ReadSteps(r) ==
  \/ All(r) \/ Initialized(r) \/ \E k \in Key : Get(r, k)
  \/ ReadStep(r)

(* A read goes on.                                                         *)
LEMMA ReadStepsTyped ==
  ASSUME Typed, NEW r \in Reader, ReadSteps(r)
  PROVE  WrapperTypes' /\ CoreWriteType' /\ ReadingType'
<1>1. WrapperTypes /\ CoreWriteType /\ ReadingType
  BY TypeParts DEF Typed
<1>2. CoreWriteType' /\ UNCHANGED <<db, dbInited, foreign>>
  BY <1>1 DEF ReadSteps, ReadStep, All, Initialized, Get, Send, ServeRead, GetDone, AllDone,
              InitializedDone, dbVars, CoreWriteType
<1>3. ASSUME NEW op, NEW keys, Send(r, op, keys) PROVE WrapperTypes'
  BY <1>1, <1>3 DEF Send, cacheVars, dbVars, ghostVars, WrapperTypes
<1>4. CASE All(r)
  BY <1>1, <1>2, <1>3, <1>4, SentReads DEF All
<1>5. CASE Initialized(r)
  BY <1>1, <1>2, <1>3, <1>5, SentReads DEF Initialized
<1>6. CASE \E k \in Key : Get(r, k)
  BY <1>1, <1>2, <1>3, <1>6, SentReads DEF Get
<1>7. CASE ServeRead(r)
  <2>1. WrapperTypes'
    BY <1>1, <1>7 DEF ServeRead, cacheVars, dbVars, ghostVars, WrapperTypes
  <2> QED BY <1>1, <1>2, <1>7, <2>1, ServedReads
<1>8. Call(reading[r])
  BY <1>1 DEF ReadingType
<1>9. CASE GetDone(r)
  <2>1. PICK i \in MaybeItem : reading[r].reply = <<i>>
    BY <1>8, <1>9 DEF GetDone, Call, CallType
  <2>2. reading[r].keys \in SUBSET Key /\ reading[r].reply[1] \in MaybeItem
    BY <1>8, <2>1 DEF Call, CallType
  <2>3. itemCache' \in [Key -> MaybeItem] /\ tainted' \in SUBSET Key
    BY <1>1, <1>9, <2>2 DEF GetDone, WrapperTypes
  <2>4. WrapperTypes'
    BY <1>1, <1>2, <1>9, <2>3 DEF GetDone, WrapperTypes
  <2> QED BY <1>1, <1>2, <1>9, <2>4, ReadOver DEF GetDone
<1>10. CASE AllDone(r)
  <2>1. reading[r].reply # <<>> => reading[r].reply[1] \in [Key -> MaybeItem]
    BY <1>8, <1>10 DEF AllDone, Call, CallType
  <2>2. reading[r].reply # <<>> =>
          [k \in Key |-> Visible(reading[r].reply[1][k])] \in [Key -> MaybeItem]
    BY <2>1, MaybeItemIs
  <2>3. allCache' = <<>> \/ (Len(allCache') = 1 /\ allCache'[1] \in [Key -> MaybeItem])
    BY <1>1, <1>10, <2>2 DEF AllDone, WrapperTypes
  <2>4. allTainted' \in BOOLEAN
    BY <1>1, <1>8, <1>10, Zenon DEF AllDone, WrapperTypes, UpsertUnderWay, Call, CallType
  <2>5. WrapperTypes'
    BY <1>1, <1>2, <1>10, <2>3, <2>4 DEF AllDone, WrapperTypes
  <2> QED BY <1>1, <1>2, <1>10, <2>5, ReadOver DEF AllDone
<1>11. CASE InitializedDone(r)
  <2>1. PICK b \in BOOLEAN : reading[r].reply = <<b>>
    BY <1>8, <1>11 DEF InitializedDone, Call, CallType
  <2>2. isInitialized' \in BOOLEAN
    BY <1>11, <2>1 DEF InitializedDone
  <2>3. checkedInit' \in BOOLEAN
    BY <1>1, <1>11, Zenon DEF InitializedDone, WrapperTypes
  <2>4. WrapperTypes'
    BY <1>1, <1>2, <1>11, <2>2, <2>3 DEF InitializedDone, WrapperTypes, ghostVars
  <2> QED BY <1>1, <1>2, <1>11, <2>4, ReadOver DEF InitializedDone
<1> QED BY <1>4, <1>5, <1>6, <1>7, <1>9, <1>10, <1>11 DEF ReadSteps, ReadStep

ForgetStep == (\E k \in Key : ExpireItem(k)) \/ ExpireAll \/ ExpireCheckedInit \/ Close

(* An entry of a cache expires.                                            *)
LEMMA ForgetTyped ==
  ASSUME Typed, ForgetStep
  PROVE  WrapperTypes' /\ CoreWriteType' /\ ReadingType'
<1>1. WrapperTypes /\ CoreWriteType /\ ReadingType
  BY TypeParts DEF Typed
<1>2. UNCHANGED <<isInitialized, coreWrite, reading, db, dbInited, foreign, tainted, allTainted>>
  BY DEF ForgetStep, ExpireItem, ExpireAll, ExpireCheckedInit, Close, dbVars, ghostVars
<1>3. /\ itemCache' \in [Key -> MaybeItem] /\ checkedInit' \in BOOLEAN
      /\ allCache' = allCache \/ allCache' = <<>>
  BY <1>1, NoItemIs DEF ForgetStep, ExpireItem, ExpireAll, ExpireCheckedInit, Close, WrapperTypes
<1> QED BY <1>1, <1>2, <1>3 DEF WrapperTypes, CoreWriteType, ReadingType

ForeignStep ==
  \E newDb \in [Key -> MaybeItem] :
    /\ ForeignWrite(newDb)
    /\ dbInited' = dbInited \/ dbInited' = TRUE

(* Another process writes to the database.                                 *)
LEMMA ForeignTyped ==
  ASSUME Typed, ForeignStep
  PROVE  WrapperTypes' /\ CoreWriteType' /\ ReadingType'
<1>1. WrapperTypes /\ CoreWriteType /\ ReadingType
  BY TypeParts DEF Typed
<1>2. PICK newDb \in [Key -> MaybeItem] : ForeignWrite(newDb) /\ (dbInited' = dbInited \/ dbInited' = TRUE)
  BY DEF ForeignStep
<1> DEFINE changed == {k \in Key : db[k] # newDb[k]}
<1>3. /\ foreign < MaxForeign /\ foreign' = foreign + 1 /\ ChangeRows(changed, newDb)
      /\ tainted' = tainted \cup changed /\ allTainted' \in BOOLEAN
      /\ UNCHANGED <<isInitialized, checkedInit, itemCache, allCache>>
  BY <1>1, <1>2 DEF ForeignWrite, cacheVars, WrapperTypes
<1>4. WrapperTypes'
  <2>1. /\ foreign' \in 0..MaxForeign /\ tainted' \in SUBSET Key
        /\ db' \in [Key -> MaybeItem]
    BY <1>1, <1>2, <1>3, WrapperAssumption DEF WrapperTypes, ChangeRows
  <2>2. dbInited' \in BOOLEAN
    BY <1>1, <1>2 DEF WrapperTypes
  <2> QED BY <1>1, <1>3, <2>1, <2>2 DEF WrapperTypes
<1>5. CoreWriteType'
  BY <1>1, <1>2 DEF ForeignWrite, CoreWriteType
<1> QED BY <1>1, <1>3, <1>4, <1>5, ChangedRowsReads

(* Every step of the wrapper and its surroundings is of one of these kinds. *)
LEMMA StepCases ==
  ASSUME Typed, Next
  PROVE  \/ StartStep
         \/ \E w \in running : ServeWrite(w) \/ WriteDone(w)
         \/ \E r \in Reader : ReadSteps(r)
         \/ ForgetStep
         \/ ForeignStep
<1>1. Queue!TypeOK /\ db \in [Key -> MaybeItem]
  BY DEF Typed, TypeOK
<1>2. CASE \E data \in DataSet : Len(enqueued) < MaxWrites /\ InitStore(data)
  BY <1>1, <1>2, InitStoreEnqueues DEF InitStore, Enqueue, StartStep
<1>3. CASE \E k \in Key, item \in Item : Len(enqueued) < MaxWrites /\ Upsert(k, item)
  BY <1>1, <1>3, UpsertEnqueues DEF Upsert, Enqueue, StartStep
<1>4. CASE TimerFires
  BY <1>4 DEF TimerFires, StartStep
<1>5. CASE \E i \in DOMAIN enqueued : WriteStep(enqueued[i])
  BY <1>5 DEF WriteStep, ServeWrite, WriteDone
<1>6. CASE \/ \E r \in Reader : All(r) \/ Initialized(r) \/ ReadStep(r)
           \/ \E r \in Reader, k \in Key : Get(r, k)
  BY <1>6 DEF ReadSteps
<1>7. CASE \/ \E k \in Key : ExpireItem(k)
           \/ ExpireAll \/ ExpireCheckedInit \/ Close
  BY <1>7 DEF ForgetStep
<1>8. ASSUME NEW k \in Key, NEW item \in Item, ForeignUpsert(k, item) PROVE ForeignStep
  <2>1. [db EXCEPT ![k] = item] \in [Key -> MaybeItem]
    BY <1>1, ItemIs
  <2> QED BY <1>8, <2>1 DEF ForeignUpsert, ForeignStep
<1>9. ASSUME NEW data \in DataSet, ForeignInit(data) PROVE ForeignStep
  BY <1>9, DataSetIs DEF ForeignInit, ForeignStep
<1> QED BY <1>2, <1>3, <1>4, <1>5, <1>6, <1>7, <1>8, <1>9 DEF Next

(* The types are inductive, given the order of the queue.                  *)
LEMMA TypedStep ==
  ASSUME Typed, QueueInOrder', [Next]_vars
  PROVE  Typed'
<1>1. WriteRuns'
  BY WriteRunsStep DEF Typed
<1>2. Queue!TypeOK'
  BY DEF QueueInOrder, Queue!Inv
<1>3. CASE Next
  <2>1. WrapperTypes' /\ CoreWriteType' /\ ReadingType'
    BY <1>3, StepCases, StartTyped, ServeWriteTyped, WriteDoneTyped, ReadStepsTyped, ForgetTyped, ForeignTyped
  <2>2. TypeOK' /\ ReadingShape' /\ AllAsksForAll'
    BY <1>2, <2>1, TypeParts, PTL
  <2> QED BY <1>1, <2>2 DEF Typed
<1>4. CASE UNCHANGED vars
  <2>1. WrapperTypes' /\ CoreWriteType' /\ ReadingType'
    BY <1>4, TypeParts DEF Typed, vars, cacheVars, dbVars, ghostVars, WrapperTypes, CoreWriteType, ReadingType
  <2>2. TypeOK' /\ ReadingShape' /\ AllAsksForAll'
    BY <1>2, <2>1, TypeParts, PTL
  <2> QED BY <1>1, <2>2 DEF Typed
<1> QED BY <1>3, <1>4

(* The wrapper begins with its types.                                      *)
LEMMA TypedInit == Init => Typed
<1> SUFFICES ASSUME Init PROVE Typed
  OBVIOUS
<1>1. WriteRuns /\ Queue!TypeOK
  BY QueueBegins
     DEF Init, QueueInOrder, WriteRuns, WriteShape, NoWrite, Queue!Init, Queue!Inv
<1>2. db \in [Key -> MaybeItem]
  BY NoItemIs, DataSetIs DEF Init
<1>3. dbInited \in BOOLEAN
  BY Zenon DEF Init
<1>4. WrapperTypes
  <2>1. foreign \in 0..MaxForeign /\ tainted \in SUBSET Key
    BY WrapperAssumption DEF Init
  <2>2. itemCache \in [Key -> MaybeItem] /\ allCache = <<>>
    BY NoItemIs DEF Init
  <2>3. isInitialized \in BOOLEAN /\ checkedInit \in BOOLEAN /\ allTainted \in BOOLEAN
    BY DEF Init
  <2> QED BY <1>2, <1>3, <2>1, <2>2, <2>3 DEF WrapperTypes
<1>5. CoreWriteType
  BY NoItemIs DEF Init, NoWrite, CoreWriteType
<1>6. Call(Idle)
  BY DEF Idle, Call, CallShape, CallType
<1>7. ReadingType
  BY <1>6 DEF Init, ReadingType
<1> QED BY <1>1, <1>4, <1>5, <1>7, TypeParts DEF Typed

(* The variables keep their types: in particular the answer to a read is   *)
(* always of the kind that was asked for.                                  *)
THEOREM TypeCorrect == Spec => []TypeOK
<1>1. Typed /\ QueueInOrder' /\ [Next]_vars => Typed'
  BY TypedStep
<1>2. Typed => TypeOK
  BY DEF Typed
<1> QED BY <1>1, <1>2, TypedInit, QueueInOrderEver, PTL DEF Spec

-----------------------------------------------------------------------------
(* Coherence, one lemma per kind of step.                                  *)

(* The answers on their way to the readers survive a change of rows that   *)
(* marks those it overtakes.                                               *)
LEMMA ChangedRowsBring ==
  ASSUME Typed, \A r \in Reader : ReadBrings(r),
         NEW changed, NEW newDb \in [Key -> MaybeItem], ChangeRows(changed, newDb),
         {k \in Key : db[k] # newDb[k]} \subseteq changed, dbInited => dbInited'
  PROVE  \A r \in Reader : ReadBrings(r)'
<1> SUFFICES ASSUME NEW r \in Reader PROVE ReadBrings(r)'
  OBVIOUS
<1>1. ReadingType /\ db \in [Key -> MaybeItem] /\ db' = newDb
  BY TypeParts DEF Typed, WrapperTypes, ChangeRows
<1>2. /\ reading'[r].op = reading[r].op /\ reading'[r].keys = reading[r].keys
      /\ reading'[r].stage = reading[r].stage /\ reading'[r].reply = reading[r].reply
      /\ ~reading'[r].dirty =>
           ~reading[r].dirty /\ (reading[r].stage = "served" => reading[r].keys \cap changed = {})
  BY <1>1, ChangedRowsReads
<1>3. CallType(reading[r]) /\ (reading[r].op = "all" => reading[r].keys = Key)
  BY <1>1 DEF ReadingType, Call
<1>4. ASSUME reading'[r].stage = "served", reading'[r].op = "get", ~reading'[r].dirty,
             NEW k \in reading'[r].keys
      PROVE  reading'[r].reply[1] \in {NoItem, db'[k]}
  <2>1. k \in Key /\ k \notin changed
    BY <1>2, <1>3, <1>4 DEF CallType
  <2> QED BY <1>1, <1>2, <1>4, <2>1 DEF ReadBrings
<1>5. ASSUME reading'[r].stage = "served", reading'[r].op = "all", ~reading'[r].dirty,
             reading'[r].reply # <<>>
      PROVE  reading'[r].reply[1] = db'
  <2>1. Key \cap changed = {}
    BY <1>2, <1>3, <1>5
  <2>2. db' = db
    BY <1>1, <2>1
  <2> QED BY <1>2, <1>5, <2>2 DEF ReadBrings
<1> QED BY <1>2, <1>4, <1>5 DEF ReadBrings

(* A write begins: what is cached is still known to the ghosts.            *)
LEMMA StartCoherent ==
  ASSUME Typed, Coherence, StartStep
  PROVE  Coherence'
<1>1. UNCHANGED <<isInitialized, itemCache, reading, db, dbInited, tainted, allTainted>>
  BY DEF StartStep, dbVars, ghostVars
<1>2. called' = called
  BY DEF StartStep, Queue!TimerFires, Queue!Enqueue
<1>3. CASE running' = running /\ coreWrite' = coreWrite /\ allCache' = allCache
  BY <1>1, <1>2, <1>3 DEF Coherence, WriteBrings, ReadBrings, ItemsFollow, ListFollows, NothingCached,
     InitializedIsPopulated, InitServed, Refreshing, MissedDeletion, UpsertUnderWay
<1>4. CASE /\ coreWrite.stage = "idle" /\ coreWrite' = [NoWrite EXCEPT !.stage = "sent"]
           /\ \E w : /\ running' = {w}
                    /\ allCache' = IF w.op = "upsert" THEN <<>> ELSE allCache
  <2>1. coreWrite'.stage = "sent"
    BY <1>4 DEF NoWrite
  <2>2. /\ ~InitServed /\ ~InitServed' /\ \A k : ~Refreshing(k) /\ ~Refreshing(k)'
    BY <1>4, <2>1 DEF InitServed, Refreshing
  <2>3. WriteBrings'
    BY <2>1 DEF WriteBrings
  <2>4. \A r \in Reader : ReadBrings(r)'
    BY <1>1 DEF Coherence, ReadBrings
  <2>5. ItemsFollow'
    BY <1>1, <2>2 DEF Coherence, ItemsFollow, MissedDeletion
  <2>6. ListFollows'
    BY <1>1, <1>4, <2>2 DEF Coherence, ListFollows, UpsertUnderWay
  <2>7. NothingCached' /\ InitializedIsPopulated'
    BY <1>1, <1>2, <1>4 DEF Coherence, NothingCached, InitializedIsPopulated
  <2> QED BY <2>3, <2>4, <2>5, <2>6, <2>7 DEF Coherence
<1> QED BY <1>3, <1>4, StartEffect

(* The database carries out the running init.                              *)
LEMMA ServeInitCoherent ==
  ASSUME Typed, Coherence, NEW w \in running, ServeWrite(w), ServeInit(w)
  PROVE  Coherence'
<1>1. /\ UNCHANGED <<running, called, isInitialized, itemCache, allCache, tainted, allTainted>>
      /\ db' = w.data /\ dbInited' = TRUE /\ w.op = "init" /\ coreWrite'.stage = "served"
  BY DEF ServeWrite, ServeInit, ChangeRows, Served, queueVars, cacheVars, ghostVars
<1>2. w.data \in [Key -> MaybeItem] /\ running = {w}
  BY <1>1, RunningWrite, DataSetIs DEF Typed, WriteRuns
<1>3. InitServed' /\ \A k : Refreshing(k)'
  BY <1>1 DEF InitServed, Refreshing
<1>4. WriteBrings'
  BY <1>1, <1>2 DEF WriteBrings
<1>5. \A r \in Reader : ReadBrings(r)'
  BY <1>1, <1>2, ChangedRowsBring DEF ServeInit, Coherence
<1>6. ItemsFollow' /\ ListFollows'
  BY <1>1, <1>3 DEF ItemsFollow, ListFollows, UpsertUnderWay
<1>7. NothingCached' /\ InitializedIsPopulated'
  BY <1>1 DEF Coherence, NothingCached, InitializedIsPopulated
<1> QED BY <1>4, <1>5, <1>6, <1>7 DEF Coherence

(* The database applies the running upsert: the list was emptied when it   *)
(* started, and no cached item is newer than the one replaced.             *)
LEMMA AppliedUpsertCoherent ==
  ASSUME Typed, Coherence, NEW w \in running, ServeWrite(w), w.op = "upsert",
         db[w.key].version < w.item.version,
         ChangeRows({w.key}, [db EXCEPT ![w.key] = w.item]),
         dbInited' = dbInited, allTainted' = allTainted,
         coreWrite'.stage = "served",
         \/ tainted' = tainted \cup {w.key} /\ coreWrite'.failed
         \/ tainted' = tainted /\ coreWrite'.reply = w.item /\ ~coreWrite'.failed
  PROVE  Coherence'
<1>1. UNCHANGED <<running, called, isInitialized, itemCache, allCache>> /\ coreWrite.stage = "sent"
  BY DEF ServeWrite, queueVars, cacheVars
<1>2. w.key \in Key /\ w.item \in Item /\ running = {w}
  BY RunningWrite DEF Typed, WriteRuns
<1>3. /\ db \in [Key -> MaybeItem] /\ itemCache \in [Key -> MaybeItem]
      /\ db' = [db EXCEPT ![w.key] = w.item]
  BY DEF Typed, TypeOK, ChangeRows
<1>4. w.item \in MaybeItem /\ w.item # NoItem /\ w.item.version \in Nat
  BY <1>2, ItemIs
<1>5. \A k \in Key : db[k].version \in Nat /\ itemCache[k].version \in Nat
  BY <1>3, MaybeItemIs
<1>6. ~InitServed /\ ~InitServed' /\ \A k : ~Refreshing(k)
  BY <1>1, <1>2 DEF InitServed, Refreshing
<1>7. WriteBrings'
  BY <1>1, <1>2, <1>3, <1>4 DEF WriteBrings
<1>8. \A r \in Reader : ReadBrings(r)'
  <2>1. [db EXCEPT ![w.key] = w.item] \in [Key -> MaybeItem]
    BY <1>3, <1>4
  <2>2. {k \in Key : db[k] # [db EXCEPT ![w.key] = w.item][k]} \subseteq {w.key}
    BY <1>3
  <2> QED BY <2>1, <2>2, ChangedRowsBring DEF Coherence
<1>9. ItemsFollow'
  <2> SUFFICES ASSUME NEW k \in Key, k \notin tainted'
               PROVE  /\ ~Refreshing(k)' /\ itemCache'[k] # NoItem => itemCache'[k] = db'[k] \/ MissedDeletion(k)'
                      /\ itemCache'[k].version <= db'[k].version
    BY DEF ItemsFollow
  <2>1. /\ k \notin tainted /\ itemCache'[k] = itemCache[k] /\ itemCache[k].version <= db[k].version
        /\ itemCache[k] # NoItem => itemCache[k] = db[k] \/ MissedDeletion(k)
    BY <1>1, <1>6 DEF Coherence, ItemsFollow
  <2>2. CASE k # w.key
    BY <1>3, <2>1, <2>2 DEF MissedDeletion
  <2>3. CASE k = w.key
    <3>1. db'[k] = w.item /\ itemCache'[k].version < w.item.version
      BY <1>3, <1>4, <1>5, <2>1, <2>3
    <3>2. ~coreWrite'.failed /\ coreWrite'.reply = w.item
      BY <1>2, <2>3
    <3>3. ~Refreshing(k)' => ~HasBody(db'[k])
      BY <1>1, <1>2, <2>3, <3>1, <3>2 DEF Refreshing, HasBody
    <3> QED BY <1>4, <1>5, <2>1, <3>1, <3>3 DEF MissedDeletion
  <2> QED BY <2>2, <2>3
<1>10. ListFollows'
  BY <1>1, <1>2 DEF Coherence, ListFollows, UpsertUnderWay
<1>11. NothingCached' /\ InitializedIsPopulated'
  BY <1>1 DEF Coherence, NothingCached, InitializedIsPopulated
<1> QED BY <1>7, <1>8, <1>9, <1>10, <1>11 DEF Coherence

(* The running write is answered and has changed nothing: an upsert of a   *)
(* version that is not newer, or a call that failed without effect.        *)
LEMMA RefusedWriteCoherent ==
  ASSUME Typed, Coherence, NEW w \in running, ServeWrite(w),
         UNCHANGED <<db, dbInited, reading, tainted, allTainted>>,
         coreWrite'.stage = "served",
         \/ coreWrite'.failed
         \/ w.op = "upsert" /\ coreWrite'.reply = db[w.key] /\ db[w.key] # NoItem
  PROVE  Coherence'
<1>1. UNCHANGED <<running, called, isInitialized, itemCache, allCache>> /\ coreWrite.stage = "sent"
  BY DEF ServeWrite, queueVars, cacheVars
<1>2. running = {w} /\ w.op \in {"init", "upsert"}
  BY RunningWrite DEF Typed, WriteRuns
<1>3. ~InitServed /\ \A k : ~Refreshing(k)
  BY <1>1 DEF InitServed, Refreshing
<1>4. WriteBrings'
  BY <1>1, <1>2 DEF WriteBrings
<1>5. \A r \in Reader : ReadBrings(r)'
  BY DEF Coherence, ReadBrings
<1>6. ItemsFollow'
  BY <1>1, <1>3 DEF Coherence, ItemsFollow, MissedDeletion
<1>7. ListFollows'
  <2>1. CASE w.op = "init"
    BY <1>1, <2>1 DEF ListFollows, InitServed, UpsertUnderWay
  <2>2. CASE w.op = "upsert"
    BY <1>1, <2>2 DEF Coherence, ListFollows, UpsertUnderWay
  <2> QED BY <1>2, <2>1, <2>2
<1>8. NothingCached' /\ InitializedIsPopulated'
  BY <1>1 DEF Coherence, NothingCached, InitializedIsPopulated
<1> QED BY <1>4, <1>5, <1>6, <1>7, <1>8 DEF Coherence

(* The database carries out a write, of which the cache knows nothing yet. *)
LEMMA ServeWriteCoherent ==
  ASSUME Typed, Coherence, NEW w \in running, ServeWrite(w)
  PROVE  Coherence'
<1>1. CASE ServeInit(w)
  BY <1>1, ServeInitCoherent
<1>2. CASE ServeUpsert(w)
  <2>1. w.key \in Key /\ w.item \in Item /\ db \in [Key -> MaybeItem] /\ w.op = "upsert"
    BY <1>2, RunningWrite DEF Typed, WriteRuns, TypeOK, ServeUpsert
  <2>2. w.item.version \in Nat /\ w.item.version > 0 /\ db[w.key].version \in Nat
    BY <2>1, ItemIs, MaybeItemIs, WrapperAssumption
  <2>3. CASE db[w.key].version >= w.item.version
    <3>1. db[w.key] # NoItem
      BY <2>2, <2>3, NoItemIs
    <3> QED BY <1>2, <2>1, <2>3, <3>1, RefusedWriteCoherent DEF ServeUpsert, Served, ghostVars
  <2>4. CASE ~(db[w.key].version >= w.item.version)
    <3>1. db[w.key].version < w.item.version
      BY <2>2, <2>4
    <3>2. coreWrite'.stage = "served" /\ coreWrite'.reply = w.item /\ ~coreWrite'.failed
      BY <1>2, <2>4 DEF ServeUpsert, Served
    <3> QED BY <1>2, <2>1, <2>4, <3>1, <3>2, AppliedUpsertCoherent DEF ServeUpsert, ghostVars
  <2> QED BY <2>3, <2>4
<1>3. CASE ServeFailure(w)
  <2>1. coreWrite'.stage = "served" /\ coreWrite'.failed /\ dbInited' = dbInited
    BY <1>3 DEF ServeFailure, Served
  <2>2. CASE UNCHANGED <<db, reading, ghostVars>>
    BY <2>1, <2>2, RefusedWriteCoherent DEF ghostVars
  <2>3. CASE /\ w.op = "upsert" /\ db[w.key].version < w.item.version
             /\ ChangeRows({w.key}, [db EXCEPT ![w.key] = w.item])
             /\ tainted' = tainted \cup {w.key}
             /\ UNCHANGED allTainted
    BY <2>1, <2>3, AppliedUpsertCoherent
  <2> QED BY <1>3, <2>2, <2>3 DEF ServeFailure
<1> QED BY <1>1, <1>2, <1>3 DEF ServeWrite

(* The callback of an init that was carried out replaces the caches; from  *)
(* then on they differ only where another process has written since.       *)
LEMMA InitDoneCoherent ==
  ASSUME Typed, Coherence, NEW w \in running, WriteDone(w), w.op = "init"
  PROVE  ItemsFollow' /\ ListFollows' /\ NothingCached'
<1>1. /\ InitDone(w) /\ coreWrite.stage = "served" /\ coreWrite'.stage = "idle"
      /\ UNCHANGED <<db, reading>> /\ w.data \in DataSet
  BY RunningWrite DEF WriteDone, dbVars, NoWrite, Typed, WriteRuns
<1>2. /\ db \in [Key -> MaybeItem] /\ w.data \in [Key -> MaybeItem]
      /\ \A k \in Key : Visible(w.data[k]) = w.data[k]
  BY <1>1, DataSetIs DEF Typed, TypeOK
<1>3. \A k \in Key : db[k].version \in Nat
  BY <1>2, MaybeItemIs
<1>4. \A k \in Key \ tainted' : db[k] = w.data[k]
  BY <1>1 DEF InitDone, Coherence, WriteBrings
<1>5. CASE Caching
  <2>1. itemCache' = w.data /\ allCache' = <<w.data>> /\ allTainted' = (tainted' # {})
    BY <1>1, <1>5 DEF InitDone
  <2>2. ItemsFollow'
    BY <1>1, <1>3, <1>4, <2>1 DEF ItemsFollow
  <2>3. ListFollows'
    BY <1>1, <1>2, <1>4, <2>1 DEF ListFollows, UpsertUnderWay
  <2> QED BY <1>5, <2>2, <2>3 DEF NothingCached
<1>6. CASE ~Caching
  <2>1. itemCache' = [k \in Key |-> NoItem] /\ allCache' = <<>>
    BY <1>1, <1>6 DEF InitDone, Coherence, NothingCached
  <2>2. ItemsFollow'
    BY <1>1, <1>3, <2>1, NoItemIs DEF ItemsFollow
  <2> QED BY <2>1, <2>2 DEF ListFollows, NothingCached
<1> QED BY <1>5, <1>6

(* The callback of an upsert caches the item that the database has, or     *)
(* nothing if it failed or the item is a deletion without a body.          *)
LEMMA UpsertDoneCoherent ==
  ASSUME Typed, Coherence, NEW w \in running, WriteDone(w), w.op = "upsert"
  PROVE  ItemsFollow' /\ ListFollows' /\ NothingCached'
<1>1. /\ UpsertDone(w) /\ coreWrite.stage = "served" /\ coreWrite'.stage = "idle"
      /\ UNCHANGED <<db, allCache, allTainted>>
      /\ running = {w} /\ w.key \in Key
  BY RunningWrite DEF WriteDone, UpsertDone, dbVars, NoWrite, Typed, WriteRuns
<1>2. db \in [Key -> MaybeItem] /\ itemCache \in [Key -> MaybeItem]
  BY DEF Typed, TypeOK
<1>3. ~InitServed /\ ~InitServed' /\ \A k : ~Refreshing(k)'
  BY <1>1 DEF InitServed, Refreshing
<1>4. ListFollows'
  BY <1>1, <1>3 DEF Coherence, ListFollows, UpsertUnderWay
<1>5. CASE ~Caching \/ coreWrite.failed \/ (coreWrite.reply.deleted /\ ~TombstoneHasBody)
  <2>1. UNCHANGED <<itemCache, tainted>>
    BY <1>1, <1>5 DEF UpsertDone
  <2>2. CASE ~Caching
    BY <1>1, <1>3, <1>4, <2>1, <2>2, NoItemIs DEF Coherence, ItemsFollow, NothingCached
  <2>3. CASE coreWrite.failed \/ (coreWrite.reply.deleted /\ ~TombstoneHasBody)
    <3>1. \A k : ~Refreshing(k)
      BY <1>3, <2>3 DEF Refreshing, HasBody
    <3> QED BY <1>1, <1>3, <1>4, <2>1, <3>1 DEF Coherence, ItemsFollow, NothingCached, MissedDeletion
  <2> QED BY <1>5, <2>2, <2>3
<1>6. CASE ~(~Caching \/ coreWrite.failed \/ (coreWrite.reply.deleted /\ ~TombstoneHasBody))
  <2>1. /\ itemCache' = [itemCache EXCEPT ![w.key] = coreWrite.reply]
        /\ tainted' = (tainted \ {w.key}) \cup coreWrite.dirty
    BY <1>1, <1>6 DEF UpsertDone
  <2>2. w.key \notin coreWrite.dirty => coreWrite.reply = db[w.key]
    BY <1>1, <1>6 DEF Coherence, WriteBrings
  <2>3. ASSUME NEW k \in Key, k \notin tainted'
        PROVE  /\ itemCache'[k] # NoItem => itemCache'[k] = db'[k] \/ MissedDeletion(k)'
               /\ itemCache'[k].version <= db'[k].version
    <3>1. CASE k = w.key
      <4>1. itemCache'[k] = db'[k]
        BY <1>1, <1>2, <2>1, <2>2, <2>3, <3>1
      <4>2. db'[k].version \in Nat
        BY <1>1, <1>2, MaybeItemIs
      <4> QED BY <4>1, <4>2
    <3>2. CASE k # w.key
      <4>1. k \notin tainted /\ itemCache'[k] = itemCache[k] /\ db' = db
        BY <1>1, <1>2, <2>1, <2>3, <3>2
      <4>2. ~Refreshing(k)
        BY <1>1, <1>3, <3>2 DEF Refreshing
      <4> QED BY <1>3, <4>1, <4>2 DEF Coherence, ItemsFollow, MissedDeletion
    <3> QED BY <3>1, <3>2
  <2>4. ItemsFollow'
    BY <2>3 DEF ItemsFollow
  <2> QED BY <1>4, <1>6, <2>4 DEF NothingCached
<1> QED BY <1>5, <1>6

(* The callback of a write brings the cache up to what the database had    *)
(* then.                                                                   *)
LEMMA WriteDoneCoherent ==
  ASSUME Typed, Coherence, NEW w \in running, WriteDone(w)
  PROVE  Coherence'
<1>1. /\ UNCHANGED <<db, dbInited, reading>> /\ coreWrite' = NoWrite /\ called' = Append(called, w)
      /\ w.op \in {"init", "upsert"}
  BY RunningWrite DEF WriteDone, dbVars, Queue!Complete, Typed, WriteRuns
<1>2. WriteBrings'
  BY <1>1 DEF NoWrite, WriteBrings
<1>3. \A r \in Reader : ReadBrings(r)'
  BY <1>1 DEF Coherence, ReadBrings
<1>4. InitializedIsPopulated'
  <2>1. called \in Seq(Write)
    BY DEF Typed, TypeOK, Queue!TypeOK
  <2>2. /\ Len(called) + 1 \in DOMAIN called' /\ called'[Len(called) + 1] = w
        /\ \A n \in DOMAIN called : n \in DOMAIN called' /\ called'[n] = called[n]
    BY <1>1, <2>1
  <2>3. CASE w.op = "init"
    BY <2>2, <2>3 DEF InitializedIsPopulated
  <2>4. CASE w.op = "upsert"
    <3>1. isInitialized' = isInitialized
      BY <2>4 DEF WriteDone, UpsertDone
    <3> QED BY <1>1, <2>2, <3>1 DEF Coherence, InitializedIsPopulated
  <2> QED BY <1>1, <2>3, <2>4
<1> QED BY <1>1, <1>2, <1>3, <1>4, InitDoneCoherent, UpsertDoneCoherent DEF Coherence

(* A question that is sent, or served, says only what the database holds.  *)
LEMMA AskedCoherent ==
  ASSUME Typed, Coherence, NEW r \in Reader,
         UNCHANGED <<queueVars, cacheVars, coreWrite, dbVars, ghostVars>>,
         \A s \in Reader \ {r} : reading'[s] = reading[s],
         ReadBrings(r)'
  PROVE  Coherence'
<1>1. \A s \in Reader : ReadBrings(s)'
  BY DEF Coherence, ReadBrings, dbVars
<1>2. WriteBrings' /\ ItemsFollow' /\ ListFollows' /\ NothingCached' /\ InitializedIsPopulated'
  BY DEF Coherence, WriteBrings, ItemsFollow, ListFollows, NothingCached, InitializedIsPopulated,
         InitServed, Refreshing, MissedDeletion, UpsertUnderWay, queueVars, cacheVars, dbVars, ghostVars
<1> QED BY <1>1, <1>2 DEF Coherence

(* The database answers a read with what it has.                           *)
LEMMA ServeReadCoherent ==
  ASSUME Typed, Coherence, NEW r \in Reader, ServeRead(r)
  PROVE  Coherence'
<1>1. /\ UNCHANGED <<queueVars, cacheVars, coreWrite, dbVars, ghostVars>>
      /\ UNCHANGED <<db, dbInited>>
  BY DEF ServeRead, dbVars
<1>2. /\ reading'[r].reply \in Answers(r)
      /\ reading'[r].op = reading[r].op /\ reading'[r].keys = reading[r].keys
      /\ \A s \in Reader \ {r} : reading'[s] = reading[s]
  BY TypeParts, ServedReads DEF Typed
<1>3. ReadBrings(r)'
  <2>1. ASSUME reading'[r].op = "get"
        PROVE  \A k \in reading'[r].keys : reading'[r].reply[1] \in {NoItem, db'[k]}
    <3>1. Call(reading[r])
      BY TypeParts DEF Typed, ReadingType
    <3>2. PICK k \in Key : reading[r].keys = {k}
      BY <1>2, <2>1, <3>1 DEF Call, CallType
    <3>3. reading'[r].reply = <<db[k]>> \/ reading'[r].reply = <<NoItem>>
      BY <1>2, <2>1, <3>2 DEF Answers
    <3> QED BY <1>1, <1>2, <3>2, <3>3
  <2>2. ASSUME reading'[r].op = "all", reading'[r].reply # <<>>
        PROVE  reading'[r].reply[1] = db'
    <3>1. reading'[r].reply = <<db>>
      BY <1>2, <2>2 DEF Answers
    <3> QED BY <1>1, <3>1
  <2>3. ASSUME reading'[r].op = "initialized", reading'[r].reply[1]
        PROVE  dbInited'
    <3>1. reading'[r].reply = <<dbInited>> \/ reading'[r].reply = <<FALSE>>
      BY <1>2, <2>3 DEF Answers
    <3>2. PICK a : reading'[r].reply = <<a>> /\ (a = dbInited \/ a = FALSE)
      BY <3>1
    <3>3. a
      BY <2>3, <3>2
    <3> QED BY <1>1, <3>2, <3>3, Zenon
  <2> QED BY <2>1, <2>2, <2>3 DEF ReadBrings
<1> QED BY <1>1, <1>2, <1>3, AskedCoherent

(* An answer to get that no write has overtaken is what the database has.  *)
LEMMA GetDoneCoherent ==
  ASSUME Typed, Coherence, NEW r \in Reader, GetDone(r)
  PROVE  WriteBrings' /\ ItemsFollow' /\ ListFollows' /\ NothingCached' /\ InitializedIsPopulated'
<1>1. /\ UNCHANGED <<running, called, isInitialized, allCache, coreWrite, db, dbInited, allTainted>>
      /\ reading[r].op = "get" /\ reading[r].stage = "served"
  BY DEF GetDone, queueVars, dbVars
<1>2. WriteBrings' /\ ListFollows' /\ InitializedIsPopulated'
  BY <1>1 DEF Coherence, WriteBrings, ListFollows, InitializedIsPopulated, InitServed, UpsertUnderWay
<1>3. CASE UNCHANGED <<itemCache, tainted>>
  BY <1>1, <1>2, <1>3 DEF Coherence, ItemsFollow, NothingCached, InitServed, Refreshing, MissedDeletion
<1>4. CASE ~UNCHANGED <<itemCache, tainted>>
  <2>1. /\ Caching /\ HasBody(reading[r].reply[1])
        /\ \E k \in reading[r].keys :
             /\ itemCache' = [itemCache EXCEPT ![k] = reading[r].reply[1]]
             /\ tainted' = IF reading[r].dirty THEN tainted \cup {k} ELSE tainted \ {k}
    BY <1>4 DEF GetDone
  <2>2. PICK k \in reading[r].keys :
             /\ itemCache' = [itemCache EXCEPT ![k] = reading[r].reply[1]]
             /\ tainted' = IF reading[r].dirty THEN tainted \cup {k} ELSE tainted \ {k}
    BY <2>1
  <2>3. k \in Key /\ db \in [Key -> MaybeItem] /\ itemCache \in [Key -> MaybeItem]
    BY DEF Typed, TypeOK
  <2>4. ~reading[r].dirty => reading[r].reply[1] = db[k]
    BY <1>1, <2>1 DEF Coherence, ReadBrings, HasBody
  <2>5. ASSUME NEW j \in Key, j \notin tainted'
        PROVE  /\ ~Refreshing(j)' /\ itemCache'[j] # NoItem => itemCache'[j] = db'[j] \/ MissedDeletion(j)'
               /\ ~InitServed' => itemCache'[j].version <= db'[j].version
    <3>1. CASE j = k
      <4>1. itemCache'[j] = db'[j]
        BY <1>1, <2>2, <2>3, <2>4, <2>5, <3>1
      <4>2. db'[j].version \in Nat
        BY <1>1, <2>3, MaybeItemIs
      <4> QED BY <4>1, <4>2
    <3>2. CASE j # k
      <4>1. j \notin tainted /\ itemCache'[j] = itemCache[j] /\ db' = db
        BY <1>1, <2>2, <2>3, <2>5, <3>2
      <4>2. (Refreshing(j)' <=> Refreshing(j)) /\ (InitServed' <=> InitServed)
        BY <1>1 DEF Refreshing, InitServed
      <4> QED BY <4>1, <4>2 DEF Coherence, ItemsFollow, MissedDeletion
    <3> QED BY <3>1, <3>2
  <2>6. ItemsFollow'
    BY <2>5 DEF ItemsFollow
  <2> QED BY <1>2, <2>1, <2>6 DEF NothingCached
<1> QED BY <1>3, <1>4

(* A list that no write has overtaken, and none is about to, is the list   *)
(* of the database.                                                        *)
LEMMA AllDoneCoherent ==
  ASSUME Typed, Coherence, NEW r \in Reader, AllDone(r)
  PROVE  WriteBrings' /\ ItemsFollow' /\ ListFollows' /\ NothingCached' /\ InitializedIsPopulated'
<1>1. /\ UNCHANGED <<running, called, isInitialized, itemCache, coreWrite, db, dbInited, tainted>>
      /\ reading[r].op = "all" /\ reading[r].stage = "served"
  BY DEF AllDone, queueVars, dbVars
<1>2. WriteBrings' /\ ItemsFollow' /\ InitializedIsPopulated'
  BY <1>1 DEF Coherence, WriteBrings, ItemsFollow, InitializedIsPopulated, InitServed, Refreshing,
              MissedDeletion
<1>3. CASE UNCHANGED <<allCache, allTainted>>
  BY <1>1, <1>2, <1>3 DEF Coherence, ListFollows, NothingCached, InitServed, UpsertUnderWay
<1>4. CASE ~UNCHANGED <<allCache, allTainted>>
  <2>1. /\ Caching /\ reading[r].reply # <<>>
        /\ allCache' = <<[k \in Key |-> Visible(reading[r].reply[1][k])]>>
        /\ allTainted' = (reading[r].dirty \/ UpsertUnderWay)
    BY <1>4 DEF AllDone
  <2>2. ~reading[r].dirty => reading[r].reply[1] = db
    BY <1>1, <2>1 DEF Coherence, ReadBrings
  <2>3. ListFollows'
    BY <1>1, <2>1, <2>2 DEF ListFollows, UpsertUnderWay
  <2> QED BY <1>2, <2>1, <2>3 DEF NothingCached
<1> QED BY <1>3, <1>4

(* A read goes on, and may put an old answer into the cache.               *)
LEMMA ReadStepsCoherent ==
  ASSUME Typed, Coherence, NEW r \in Reader, ReadSteps(r)
  PROVE  Coherence'
<1>1. ReadingType
  BY TypeParts DEF Typed
<1>2. ASSUME NEW op \in {"get", "all", "initialized"}, NEW keys \in SUBSET Key, Send(r, op, keys),
             op = "get" => \E k \in Key : keys = {k}, op = "all" => keys = Key
      PROVE  Coherence'
  <2>1. reading'[r].stage = "sent" /\ \A s \in Reader \ {r} : reading'[s] = reading[s]
    BY <1>1, <1>2, SentReads
  <2> QED BY <1>2, <2>1, AskedCoherent DEF Send, ReadBrings
<1>3. CASE All(r) \/ Initialized(r) \/ \E k \in Key : Get(r, k)
  <2>1. CASE All(r)
    BY <1>2, <2>1 DEF All
  <2>2. CASE Initialized(r)
    BY <1>2, <2>2 DEF Initialized
  <2>3. ASSUME NEW k \in Key, Get(r, k) PROVE Coherence'
    <3>1. Send(r, "get", {k}) /\ {k} \in SUBSET Key
      BY <2>3 DEF Get
    <3> QED BY <1>2, <3>1
  <2> QED BY <1>3, <2>1, <2>2, <2>3
<1>4. CASE ServeRead(r)
  BY <1>4, ServeReadCoherent
<1>5. ASSUME reading' = [reading EXCEPT ![r] = Idle], UNCHANGED <<db, dbInited>>
      PROVE  \A s \in Reader : ReadBrings(s)'
  <2>1. reading'[r].stage = "idle" /\ \A s \in Reader \ {r} : reading'[s] = reading[s]
    BY <1>1, <1>5, ReadOver
  <2> QED BY <1>5, <2>1 DEF Coherence, ReadBrings
<1>6. CASE GetDone(r)
  BY <1>5, <1>6, GetDoneCoherent DEF GetDone, dbVars, Coherence
<1>7. CASE AllDone(r)
  BY <1>5, <1>7, AllDoneCoherent DEF AllDone, dbVars, Coherence
<1>8. CASE InitializedDone(r)
  <2>1. /\ UNCHANGED <<running, called, itemCache, allCache, coreWrite, db, dbInited, tainted, allTainted>>
        /\ isInitialized' = reading[r].reply[1] /\ reading' = [reading EXCEPT ![r] = Idle]
        /\ reading[r].op = "initialized" /\ reading[r].stage = "served"
    BY <1>8 DEF InitializedDone, queueVars, dbVars, ghostVars
  <2>2. InitializedIsPopulated'
    BY <2>1 DEF Coherence, ReadBrings, InitializedIsPopulated
  <2>3. WriteBrings' /\ ItemsFollow' /\ ListFollows' /\ NothingCached'
    BY <2>1 DEF Coherence, WriteBrings, ItemsFollow, ListFollows, NothingCached, InitServed, Refreshing,
                MissedDeletion, UpsertUnderWay
  <2> QED BY <1>5, <2>1, <2>2, <2>3 DEF Coherence
<1> QED BY <1>3, <1>4, <1>6, <1>7, <1>8 DEF ReadSteps, ReadStep

(* What expires cannot be wrong.                                           *)
LEMMA ForgetCoherent ==
  ASSUME Typed, Coherence, ForgetStep
  PROVE  Coherence'
<1>1. UNCHANGED <<running, called, isInitialized, coreWrite, reading, db, dbInited, tainted, allTainted>>
  BY DEF ForgetStep, ExpireItem, ExpireAll, ExpireCheckedInit, Close, queueVars, dbVars, ghostVars
<1>2. db \in [Key -> MaybeItem] /\ itemCache \in [Key -> MaybeItem]
  BY DEF Typed, TypeOK
<1>3. /\ itemCache' \in [Key -> MaybeItem]
      /\ \A k \in Key : itemCache'[k] \in {itemCache[k], NoItem}
      /\ allCache' \in {allCache, <<>>}
  BY <1>2, NoItemIs DEF ForgetStep, ExpireItem, ExpireAll, ExpireCheckedInit, Close
<1>4. \A k \in Key : db[k].version \in Nat
  BY <1>2, MaybeItemIs
<1>5. WriteBrings' /\ (\A r \in Reader : ReadBrings(r)') /\ InitializedIsPopulated'
  BY <1>1 DEF Coherence, WriteBrings, ReadBrings, InitializedIsPopulated
<1>6. ItemsFollow'
  <2> SUFFICES ASSUME NEW k \in Key, k \notin tainted
               PROVE  /\ ~Refreshing(k)' /\ itemCache'[k] # NoItem => itemCache'[k] = db'[k] \/ MissedDeletion(k)'
                      /\ ~InitServed' => itemCache'[k].version <= db'[k].version
    BY <1>1 DEF ItemsFollow
  <2>1. (Refreshing(k)' <=> Refreshing(k)) /\ (InitServed' <=> InitServed)
    BY <1>1 DEF Refreshing, InitServed
  <2>2. CASE itemCache'[k] = itemCache[k]
    BY <1>1, <2>1, <2>2 DEF Coherence, ItemsFollow, MissedDeletion
  <2>3. CASE itemCache'[k] = NoItem
    BY <1>1, <1>4, <2>3, NoItemIs
  <2> QED BY <1>3, <2>2, <2>3
<1>7. ListFollows'
  BY <1>1, <1>3 DEF Coherence, ListFollows, InitServed, UpsertUnderWay
<1>8. NothingCached'
  BY <1>2, <1>3 DEF Coherence, NothingCached
<1> QED BY <1>5, <1>6, <1>7, <1>8 DEF Coherence

(* What another process writes becomes a known reason to differ.           *)
LEMMA ForeignCoherent ==
  ASSUME Typed, Coherence, ForeignStep
  PROVE  Coherence'
<1>1. PICK newDb \in [Key -> MaybeItem] : ForeignWrite(newDb) /\ (dbInited' = dbInited \/ dbInited' = TRUE)
  BY DEF ForeignStep
<1> DEFINE changed == {k \in Key : db[k] # newDb[k]}
<1>2. /\ UNCHANGED <<running, called, isInitialized, itemCache, allCache>>
      /\ ChangeRows(changed, newDb) /\ db' = newDb
      /\ tainted' = tainted \cup changed /\ allTainted' = (allTainted \/ changed # {})
  BY <1>1 DEF ForeignWrite, ChangeRows, queueVars, cacheVars
<1>3. /\ coreWrite'.stage = coreWrite.stage /\ coreWrite'.reply = coreWrite.reply
      /\ coreWrite'.failed = coreWrite.failed
      /\ coreWrite.stage = "served" => coreWrite'.dirty = coreWrite.dirty \cup changed
  BY <1>1 DEF ForeignWrite, Typed, TypeOK
<1>4. \A k \in Key \ changed : db'[k] = db[k]
  BY <1>2
<1>5. \A w \in running : w.op = "upsert" => w.key \in Key
  BY RunningWrite DEF Typed, WriteRuns
<1>6. WriteBrings'
  BY <1>2, <1>3, <1>4, <1>5 DEF Coherence, WriteBrings
<1>7. \A r \in Reader : ReadBrings(r)'
  BY <1>1, <1>2, ChangedRowsBring DEF Coherence
<1>8. ItemsFollow'
  <2> SUFFICES ASSUME NEW k \in Key, k \notin tainted'
               PROVE  /\ ~Refreshing(k)' /\ itemCache'[k] # NoItem => itemCache'[k] = db'[k] \/ MissedDeletion(k)'
                      /\ ~InitServed' => itemCache'[k].version <= db'[k].version
    BY DEF ItemsFollow
  <2>1. k \notin tainted /\ db'[k] = db[k] /\ itemCache'[k] = itemCache[k]
    BY <1>2, <1>4
  <2>2. (Refreshing(k)' <=> Refreshing(k)) /\ (InitServed' <=> InitServed)
    BY <1>2, <1>3 DEF Refreshing, InitServed
  <2> QED BY <2>1, <2>2 DEF Coherence, ItemsFollow, MissedDeletion
<1>9. ListFollows'
  BY <1>2, <1>3, <1>4 DEF Coherence, ListFollows, InitServed, UpsertUnderWay
<1>10. NothingCached' /\ InitializedIsPopulated'
  BY <1>1, <1>2 DEF Coherence, NothingCached, InitializedIsPopulated
<1> QED BY <1>6, <1>7, <1>8, <1>9, <1>10 DEF Coherence

(* The coherence of cache and database is inductive.                       *)
LEMMA CoherenceStep ==
  ASSUME Typed, Coherence, [Next]_vars
  PROVE  Coherence'
<1>1. CASE Next
  BY <1>1, StepCases, StartCoherent, ServeWriteCoherent, WriteDoneCoherent, ReadStepsCoherent,
     ForgetCoherent, ForeignCoherent
<1>2. CASE UNCHANGED vars
  BY <1>2 DEF Coherence, WriteBrings, ReadBrings, ItemsFollow, ListFollows, NothingCached,
     InitializedIsPopulated, InitServed, Refreshing, MissedDeletion, UpsertUnderWay,
     vars, queueVars, cacheVars, dbVars, ghostVars
<1> QED BY <1>1, <1>2

(* Empty caches are coherent.                                              *)
LEMMA CoherenceInit ==
  ASSUME Init, Typed
  PROVE  Coherence
<1>1. /\ coreWrite.stage = "idle" /\ itemCache = [k \in Key |-> NoItem] /\ allCache = <<>>
      /\ isInitialized = FALSE /\ \A r \in Reader : reading[r].stage = "idle"
  BY DEF Init, NoWrite, Idle
<1>2. \A k \in Key : db[k].version \in Nat
  BY MaybeItemIs DEF Typed, TypeOK
<1>3. ItemsFollow
  BY <1>1, <1>2, NoItemIs DEF ItemsFollow
<1> QED BY <1>1, <1>3 DEF Coherence, WriteBrings, ReadBrings, ListFollows, NothingCached, InitializedIsPopulated

-----------------------------------------------------------------------------
(* The caches and isInitialized say of the database what is so, but for    *)
(* the causes that RemembersTheDatabase names: another process, a failed   *)
(* write, an answer that a write has overtaken, a deletion without body.   *)
THEOREM RemembersTheDatabaseEver == Spec => []RemembersTheDatabase
<1>1. Typed /\ Coherence => RemembersTheDatabase
  <2> SUFFICES ASSUME Typed, Coherence PROVE RemembersTheDatabase
    OBVIOUS
  <2>1. ItemCacheCoherent
    <3> SUFFICES ASSUME NEW k \in Key, k \notin tainted, k \notin BeingWritten, itemCache[k] # NoItem
                 PROVE  itemCache[k] = db[k] \/ MissedDeletion(k)
      BY DEF ItemCacheCoherent
    <3>1. ~Refreshing(k)
      <4>1. coreWrite.stage = "served" => \A w \in running : ~(w.op = "init" \/ (w.op # "init" /\ w.key = k))
        BY DEF BeingWritten
      <4> QED BY <4>1 DEF Refreshing, InitServed
    <3> QED BY <3>1 DEF Coherence, ItemsFollow
  <2>2. AllCacheCoherent
    <3> SUFFICES ASSUME allCache # <<>>, ~allTainted, BeingWritten = {}
                 PROVE  \A k \in Key : allCache[1][k] = Visible(db[k])
      BY DEF AllCacheCoherent
    <3>1. ~InitServed
      <4>1. ASSUME coreWrite.stage = "served", NEW w \in running, w.op = "init" PROVE FALSE
        BY <4>1, WrapperAssumption DEF BeingWritten
      <4> QED BY <4>1 DEF InitServed
    <3> QED BY <3>1 DEF Coherence, ListFollows
  <2> QED BY <2>1, <2>2 DEF Coherence, RemembersTheDatabase
<1>2. Init => Typed /\ Coherence
  BY TypedInit, CoherenceInit
<1>3. Typed /\ Coherence /\ QueueInOrder' /\ [Next]_vars => Typed' /\ Coherence'
  BY TypedStep, CoherenceStep
<1> QED BY <1>1, <1>2, <1>3, QueueInOrderEver, PTL DEF Spec

(* A cached item goes back to an older one only by an init, an answer that *)
(* a write has overtaken, or where the entry had a known reason to be wrong. *)
THEOREM OnlyRacesTurnCacheBackEver == Spec => OnlyRacesTurnCacheBack
<1> DEFINE Back(k) == 0 < itemCache'[k].version /\ itemCache'[k].version < itemCache[k].version
           Excused(k) ==
             \/ coreWrite.stage = "served" /\ \E w \in running : w.op = "init"
             \/ \E r \in Reader : reading[r].op = "get" /\ k \in reading[r].keys /\ reading[r].dirty
             \/ k \in coreWrite.dirty
             \/ k \in tainted
<1>1. ASSUME Typed, Coherence, Next, NEW k \in Key, Back(k) PROVE Excused(k)
  <2>1. db \in [Key -> MaybeItem] /\ itemCache \in [Key -> MaybeItem]
    BY <1>1 DEF Typed, TypeOK
  <2>2. db[k].version \in Nat /\ itemCache[k].version \in Nat
    BY <2>1, MaybeItemIs
  <2>3. k \in tainted \/ InitServed \/ itemCache[k].version <= db[k].version
    BY <1>1 DEF Coherence, ItemsFollow
  <2>4. itemCache'[k] # itemCache[k] /\ itemCache'[k] # NoItem
    BY <1>1, <2>2, NoItemIs
  <2>5. CASE ForgetStep
    BY <2>1, <2>4, <2>5 DEF ForgetStep, ExpireItem, ExpireAll, ExpireCheckedInit, Close
  <2>6. CASE StartStep \/ ForeignStep
    BY <2>4, <2>6 DEF StartStep, ForeignStep, ForeignWrite, cacheVars
  <2>7. ASSUME NEW w \in running, ServeWrite(w) PROVE FALSE
    BY <2>4, <2>7 DEF ServeWrite, cacheVars
  <2>8. ASSUME NEW w \in running, WriteDone(w) PROVE Excused(k)
    <3>1. w.op = "init" \/ (w.op = "upsert" /\ w.key \in Key)
      BY <1>1, RunningWrite DEF Typed, WriteRuns
    <3>2. CASE w.op = "init"
      BY <2>8, <3>2 DEF WriteDone
    <3>3. CASE w.op = "upsert" /\ w.key \in Key
      <4>1. /\ ~coreWrite.failed /\ itemCache' = [itemCache EXCEPT ![w.key] = coreWrite.reply]
            /\ coreWrite.stage = "served"
        BY <2>4, <2>8, <3>3 DEF WriteDone, UpsertDone
      <4>2. k = w.key /\ itemCache'[k] = coreWrite.reply
        BY <2>1, <2>4, <3>3, <4>1
      <4>3. k \in coreWrite.dirty \/ itemCache'[k] = db[k]
        BY <1>1, <3>3, <4>1, <4>2 DEF Coherence, WriteBrings
      <4> QED BY <1>1, <2>2, <2>3, <4>3 DEF InitServed
    <3> QED BY <3>1, <3>2, <3>3
  <2>9. ASSUME NEW r \in Reader, ReadSteps(r) PROVE Excused(k)
    <3>1. GetDone(r)
      BY <2>4, <2>9 DEF ReadSteps, ReadStep, All, Initialized, Get, Send, ServeRead, AllDone,
                        InitializedDone, cacheVars
    <3>2. PICK j \in reading[r].keys :
            itemCache' = [itemCache EXCEPT ![j] = reading[r].reply[1]] /\ HasBody(reading[r].reply[1])
      BY <2>4, <3>1 DEF GetDone
    <3>3. k = j /\ itemCache'[k] = reading[r].reply[1]
      BY <2>1, <2>4, <3>2
    <3>4. reading[r].dirty \/ itemCache'[k] = db[k]
      BY <1>1, <3>1, <3>2, <3>3 DEF Coherence, ReadBrings, GetDone, HasBody
    <3>5. CASE reading[r].dirty
      BY <3>1, <3>2, <3>3, <3>5 DEF GetDone
    <3>6. CASE itemCache'[k] = db[k]
      BY <1>1, <2>2, <2>3, <3>6 DEF InitServed
    <3> QED BY <3>4, <3>5, <3>6
  <2> QED BY <1>1, <2>5, <2>6, <2>7, <2>8, <2>9, StepCases
<1>2. Typed /\ Coherence /\ [Next]_vars => [\A k \in Key : Back(k) => Excused(k)]_vars
  BY <1>1
<1>3. Init => Typed /\ Coherence
  BY TypedInit, CoherenceInit
<1>4. Typed /\ Coherence /\ QueueInOrder' /\ [Next]_vars => Typed' /\ Coherence'
  BY TypedStep, CoherenceStep
<1> QED BY <1>2, <1>3, <1>4, QueueInOrderEver, PTL DEF Spec, OnlyRacesTurnCacheBack
=============================================================================
