---------------------------- MODULE UpdateQueue ----------------------------
(***************************************************************************)
(* shared/sdk-server/src/store/UpdateQueue.ts: the queue through which     *)
(* PersistentDataStoreWrapper passes every write, "to preserve order of    *)
(* operations of async requests".                                          *)
(*                                                                         *)
(* An update function starts an asynchronous store call and is done when   *)
(* the store calls newCb.  JavaScript runs one turn of the event loop at a *)
(* time, so a turn is one action: a call of enqueue, a call of newCb, the  *)
(* firing of a setTimeout timer.  Inside a turn every nested call (an      *)
(* update function that completes at once, a callback that enqueues) is    *)
(* the last statement of its caller, so a turn with nested calls is the    *)
(* same as the corresponding actions one after the other.                  *)
(***************************************************************************)
EXTENDS Naturals, Sequences

CONSTANT Job            \* the [updateFn, cb] pairs, each enqueued at most once

VARIABLES queue,        \* this.queue
          running,      \* jobs whose fn(newCb) was called and newCb was not yet
          timers,       \* pending setTimeout(() => this.executePendingUpdates(), 0)
          enqueued,     \* history: the arguments of enqueue, in order
          started,      \* history: the jobs whose fn was called, in order
          called        \* history: the jobs whose cb was called, in order

vars == <<queue, running, timers, enqueued, started, called>>

Init ==
  /\ queue = <<>>
  /\ running = {}
  /\ timers = 0
  /\ enqueued = <<>> /\ started = <<>> /\ called = <<>>

(* executePendingUpdates() when this.queue is q: run the head, leave it in. *)
ExecutePendingUpdates(q) ==
  IF q # <<>>
  THEN /\ running' = running \cup {Head(q)}
       /\ started' = Append(started, Head(q))
  ELSE UNCHANGED <<running, started>>

(* Mutation: the length test of enqueue is dropped, it always executes. *)
EnqueueAlwaysExecutes(j) ==
  /\ \A i \in DOMAIN enqueued : enqueued[i] # j
  /\ enqueued' = Append(enqueued, j)
  /\ queue' = Append(queue, j)
  /\ ExecutePendingUpdates(queue')
  /\ UNCHANGED <<timers, called>>

Enqueue(j) ==
  /\ \A i \in DOMAIN enqueued : enqueued[i] # j
  /\ enqueued' = Append(enqueued, j)
  /\ queue' = Append(queue, j)
  /\ IF Len(queue') = 1 THEN ExecutePendingUpdates(queue')
                        ELSE UNCHANGED <<running, started>>
  /\ UNCHANGED <<timers, called>>

(* Mutation: newCb does not schedule the rest of the queue. *)
CompleteNoTimer(j) ==
  /\ j \in running
  /\ running' = running \ {j}
  /\ queue' = Tail(queue)
  /\ called' = Append(called, j)
  /\ UNCHANGED <<timers, enqueued, started>>

(* Mutation: newCb takes the newest job off the queue, not the one done. *)
CompletePops(j) ==
  /\ j \in running
  /\ running' = running \ {j}
  /\ queue' = SubSeq(queue, 1, Len(queue) - 1)
  /\ timers' = IF queue' # <<>> THEN timers + 1 ELSE timers
  /\ called' = Append(called, j)
  /\ UNCHANGED <<enqueued, started>>

(* Mutation: with more work queued, newCb schedules it and forgets cb. *)
CompleteSkipsCallback(j) ==
  /\ j \in running
  /\ running' = running \ {j}
  /\ queue' = Tail(queue)
  /\ IF queue' # <<>> THEN timers' = timers + 1 /\ UNCHANGED called
                      ELSE called' = Append(called, j) /\ UNCHANGED timers
  /\ UNCHANGED <<enqueued, started>>

(* The store is done with j and calls its newCb. *)
Complete(j) ==
  /\ j \in running
  /\ running' = running \ {j}
  /\ queue' = Tail(queue)
  /\ timers' = IF queue' # <<>> THEN timers + 1 ELSE timers
  /\ called' = Append(called, j)
  /\ UNCHANGED <<enqueued, started>>

(* Mutation: the work queue is taken to be non-empty and due at any time. *)
TimerFiresUnasked ==
  /\ timers' = timers - 1
  /\ ExecutePendingUpdates(queue)
  /\ UNCHANGED <<queue, enqueued, called>>

TimerFires ==
  /\ timers > 0
  /\ timers' = timers - 1
  /\ ExecutePendingUpdates(queue)
  /\ UNCHANGED <<queue, enqueued, called>>

Next ==
  \/ \E j \in Job : Enqueue(j) \/ Complete(j)
  \/ TimerFires

(* The event loop fires its timers, and a store answers what it was asked: *)
(* without the second the queue stops for good, by design.                 *)
Fairness == WF_vars(TimerFires) /\ WF_vars(\E j \in Job : Complete(j))

Spec == Init /\ [][Next]_vars /\ Fairness

-----------------------------------------------------------------------------
TypeOK ==
  /\ queue \in Seq(Job) /\ enqueued \in Seq(Job)
  /\ started \in Seq(Job) /\ called \in Seq(Job)
  /\ running \in SUBSET Job
  /\ timers \in Nat

(* "Overlapping execution chains" (the comment in newCb): at any time at   *)
(* most one update function is running, it is the one at the head of the   *)
(* queue, and no timer is pending that would run it a second time.         *)
NoOverlap ==
  /\ \A j \in running : queue # <<>> /\ running = {Head(queue)} /\ timers = 0
  /\ timers <= 1

(* No lost wakeup: while something is queued, it is being run or a timer   *)
(* that will run it is pending; an idle queue leaves no timer behind.      *)
NoLostWakeup ==
  /\ queue # <<>> => running # {} \/ timers > 0
  /\ queue = <<>> => running = {} /\ timers = 0

(* What was enqueued is what was called back followed by what is queued.   *)
QueueIsRest ==
  /\ Len(enqueued) = Len(called) + Len(queue)
  /\ \A i \in 1..Len(called) : called[i] = enqueued[i]
  /\ \A i \in 1..Len(queue) : queue[i] = enqueued[Len(called) + i]

(* Update functions are called in the order of enqueue, each exactly once, *)
(* and none before the one ahead of it has called back.                    *)
StartedInOrder ==
  /\ Len(started) = Len(called) + (IF running = {} THEN 0 ELSE 1)
  /\ Len(started) <= Len(enqueued)
  /\ \A i \in 1..Len(started) : started[i] = enqueued[i]

(* The conjunction that every step preserves. *)
Inv == TypeOK /\ NoOverlap /\ NoLostWakeup /\ QueueIsRest /\ StartedInOrder

-----------------------------------------------------------------------------
(* The queue serves its callers in order and serves every one of them:     *)
(* it implements FifoService, liveness included.                           *)
Service == INSTANCE FifoService WITH accepted <- enqueued, answered <- called

ImplementsFifo == Service!Spec
=============================================================================
