--------------------------- MODULE EventProcessor ---------------------------
(***************************************************************************)
(* shared/common/src/internal/events/EventProcessor.ts with the summarizer *)
(* and the context deduplicator it owns and the sender it posts with.      *)
(* JavaScript runs one handler at a time: each action is a call or a timer *)
(* callback, up to its first await; the part of flush after the await runs *)
(* with the reply it waits for.  The n-th event the application sent is n. *)
(***************************************************************************)
EXTENDS FiniteSets, Integers, Sequences, SequencesExt

CONSTANTS Context,
          Input,              \* the events that are sent: a subset of Inputs
          Nothing,
          Capacity,           \* config.eventsCapacity
          ContextKeysCapacity,
          MaxInputs,          \* bound: events sent
          MaxReports,         \* bound: periodic diagnostic events
          MaxVain             \* bound: requests that bring no final answer

Inputs == [kind : {"feature", "custom", "identify"}, context : Context,
           trackEvents : BOOLEAN,
           debug : BOOLEAN]   \* debugEventsUntilDate lies ahead

ASSUME ProcessorAssumption ==
  Input \subseteq Inputs /\ Capacity \in Nat /\ ContextKeysCapacity \in Nat \ {0}
  /\ MaxInputs \in Nat /\ MaxReports \in Nat /\ MaxVain \in Nat /\ Nothing \notin Context \cup {TRUE}

VARIABLES queue,              \* this.queue
          summary,            \* this.summarizer: the evaluations counted since the last summary
          known,              \* this.contextDeduplicator: an LruCache
          droppedEvents, deduplicatedUsers, eventsInLastBatch,
          shutdown,
          closed,             \* close() was called: no timer fires any more
          posts,              \* the calls of this.eventSender
          inputs,             \* ghost: the events accepted
          dropped             \* ghost: the outputs that found the queue full, each with the
                              \* diagnostic event that counts it, or Uncounted

vars == <<queue, summary, known, droppedEvents, deduplicatedUsers, eventsInLastBatch,
          shutdown, closed, posts, inputs, dropped>>

Cache == INSTANCE LruCache WITH Key <- Context, Value <- {TRUE},
                                MaxItems <- ContextKeysCapacity, MaxAge <- 0

(* An output stands for the inputs in from: one, or for a summary many.    *)
Id == 1..MaxInputs
Output == [kind : {"index", "identify", "custom", "feature", "debug", "summary"},
           from : SUBSET Id]
Stats == [droppedEvents : Nat, deduplicatedUsers : Nat, eventsInLastBatch : Nat]

Uncounted == 0
Dropped == [output : Output, report : Nat]

Sender == INSTANCE EventSender WITH Data <- [events : Seq(Output)] \cup Stats

(* The constructor.  The diagnostic event that it posts is left out: its   *)
(* reply is ignored.                                                       *)
Init ==
  /\ queue = <<>> /\ summary = {} /\ known = Cache!NewCache
  /\ droppedEvents = 0 /\ deduplicatedUsers = 0 /\ eventsInLastBatch = 0
  /\ shutdown = FALSE /\ closed = FALSE
  /\ posts = <<>> /\ inputs = <<>> /\ dropped = {}

-----------------------------------------------------------------------------
(* enqueue, for each of the outputs: those that find the queue full are    *)
(* dropped and counted.                                                    *)
Enqueue(outputs) ==
  LET room == Capacity - Len(queue)
      taken == IF Len(outputs) <= room THEN Len(outputs) ELSE room
  IN /\ queue' = queue \o SubSeq(outputs, 1, taken)
     /\ dropped' = dropped \cup {[output |-> outputs[k], report |-> Uncounted] : k \in taken + 1..Len(outputs)}
     /\ droppedEvents' = droppedEvents + Len(outputs) - taken

SetBeforeGet(c) ==  \* mutation: the context is entered before it is looked for
  Cache!Found(Cache!Put(known, c, TRUE, 0), c, 0) = TRUE

IsKnown(c) == Cache!Found(known, c, 0) = TRUE

ProcessContext(c) == known' = Cache!Put(Cache!Got(known, c, 0), c, TRUE, 0)

(* Index, identify and debug events have the context in them, redacted;    *)
(* custom and feature events have its kinds and keys.                      *)
MakeOutputEvent(kind, n) == [kind |-> kind, from |-> {n}]

(* What sendEvent enqueues for e, and in which order.                      *)
Outputs(e, n) ==
  LET out(kind, wanted) == IF wanted THEN <<MakeOutputEvent(kind, n)>> ELSE <<>>
  IN out("index", ~IsKnown(e.context) /\ e.kind # "identify")
     \o out(e.kind, e.kind = "feature" => e.trackEvents)
     \o out("debug", e.kind = "feature" /\ e.debug)

(* The summarizer counts evaluations, whether or not they are queued.      *)
Summarize(e, n) == summary' = IF e.kind = "feature" THEN summary \cup {n} ELSE summary

GetSummary == [kind |-> "summary", from |-> summary]

SendEvent(e) ==
  /\ ~shutdown /\ Len(inputs) < MaxInputs
  /\ LET n == Len(inputs) + 1 IN
     /\ inputs' = Append(inputs, e)
     /\ Summarize(e, n)
     /\ deduplicatedUsers' = IF IsKnown(e.context) /\ e.kind # "identify"
                             THEN deduplicatedUsers + 1 ELSE deduplicatedUsers
     /\ ProcessContext(e.context)
     /\ Enqueue(Outputs(e, n))
  /\ UNCHANGED <<eventsInLastBatch, shutdown, closed, posts>>

BatchWithoutSummary == queue  \* mutation: the summary is cleared before it is read

Batch == IF summary = {} THEN queue
         ELSE Append(queue, GetSummary)

FlushLooksAtQueue ==  \* mutation: nothing is sent if there is only a summary
  /\ ~shutdown
  /\ queue # <<>>
  /\ queue' = <<>> /\ summary' = {} /\ eventsInLastBatch' = Len(Batch)
  /\ Sender!SendEventData("AnalyticsEvents", [events |-> Batch])

FlushKeepsQueue ==  \* mutation: a copy of the queue is flushed
  /\ ~shutdown
  /\ Batch # <<>>
  /\ summary' = {} /\ eventsInLastBatch' = Len(Batch)
  /\ Sender!SendEventData("AnalyticsEvents", [events |-> Batch])
  /\ UNCHANGED queue

(* flush, up to its await.  With nothing to flush it changes nothing; nor  *)
(* does it after the shutdown, when it throws.                             *)
Flush ==
  /\ ~shutdown
  /\ Batch # <<>>
  /\ queue' = <<>> /\ summary' = {} /\ eventsInLastBatch' = Len(Batch)
  /\ Sender!SendEventData("AnalyticsEvents", [events |-> Batch])

FlushTimer ==
  /\ ~closed
  /\ Flush
  /\ UNCHANGED <<known, droppedEvents, deduplicatedUsers, shutdown, closed, inputs, dropped>>

(* flush as the application calls it: also after close.                    *)
AppFlush ==
  /\ Flush
  /\ UNCHANGED <<known, droppedEvents, deduplicatedUsers, shutdown, closed, inputs, dropped>>

Reports == {n \in DOMAIN posts : posts[n].type = "DiagnosticEvent"}

Report ==
  /\ Sender!SendEventData("DiagnosticEvent",
       [droppedEvents |-> droppedEvents, deduplicatedUsers |-> deduplicatedUsers,
        eventsInLastBatch |-> eventsInLastBatch])
  /\ droppedEvents' = 0 /\ deduplicatedUsers' = 0
  /\ dropped' = {IF d.report = Uncounted THEN [d EXCEPT !.report = Len(posts) + 1] ELSE d : d \in dropped}

DiagnosticsTimer ==
  /\ ~closed /\ Cardinality(Reports) < MaxReports
  /\ Report
  /\ UNCHANGED <<queue, summary, known, eventsInLastBatch, shutdown, closed, inputs>>

FlushUsersTimer ==
  /\ ~closed
  /\ known' = Cache!Clear(known)
  /\ UNCHANGED <<queue, summary, droppedEvents, deduplicatedUsers, eventsInLastBatch,
                 shutdown, closed, posts, inputs, dropped>>

(* close clears the timers; neither is the queue flushed nor sendEvent     *)
(* stopped.                                                                *)
Close ==
  /\ closed' = TRUE
  /\ UNCHANGED <<queue, summary, known, droppedEvents, deduplicatedUsers, eventsInLastBatch,
                 shutdown, posts, inputs, dropped>>

SettleForgetsShutdown(n) ==  \* mutation: the result of a retry is not looked at
  shutdown' = (shutdown \/ (posts'[n].stage = "FailedAndMustShutDown" /\ posts[n].canRetry
                            /\ posts[n].type = "AnalyticsEvents"))

(* tryPostingEvents after its await.  Nobody looks at the result of a      *)
(* diagnostic event.                                                       *)
Settle(n) ==
  shutdown' = (shutdown \/ (posts'[n].stage = "FailedAndMustShutDown"
                            /\ posts[n].type = "AnalyticsEvents"))

Vain == Cardinality({n \in DOMAIN posts : posts[n].stage = "waiting" \/ ~posts[n].canRetry})
        + Cardinality({n \in DOMAIN posts : posts[n].stage = "Failed"})

Answer(n) ==
  /\ Sender!Accepted(n) \/ Sender!Refused(n) \/ (Vain < MaxVain /\ Sender!TriedInVain(n))
  /\ Settle(n)
  /\ UNCHANGED <<queue, summary, known, droppedEvents, deduplicatedUsers, eventsInLastBatch,
                 closed, inputs, dropped>>

RetryUnlessShutdown(n) ==  \* mutation: after the shutdown a retry is given up, and its flush with it
  /\ ~shutdown
  /\ Sender!Retry(n)
  /\ UNCHANGED <<queue, summary, known, droppedEvents, deduplicatedUsers, eventsInLastBatch,
                 shutdown, closed, inputs, dropped>>

Retry(n) ==
  /\ Sender!Retry(n)
  /\ UNCHANGED <<queue, summary, known, droppedEvents, deduplicatedUsers, eventsInLastBatch,
                 shutdown, closed, inputs, dropped>>

Next ==
  \/ \E e \in Input : SendEvent(e)
  \/ FlushTimer \/ AppFlush \/ DiagnosticsTimer \/ FlushUsersTimer \/ Close
  \/ \E n \in DOMAIN posts : Answer(n) \/ Retry(n)

Fairness ==
  /\ WF_vars(FlushTimer)
  /\ \A n \in 1..MaxInputs + MaxReports :
       WF_vars(n \in DOMAIN posts /\ Answer(n)) /\ WF_vars(n \in DOMAIN posts /\ Retry(n))

Spec == Init /\ [][Next]_vars /\ Fairness

-----------------------------------------------------------------------------
Batches == {n \in DOMAIN posts : posts[n].type = "AnalyticsEvents"}

TypeOK ==
  /\ queue \in Seq(Output) /\ Len(queue) <= Capacity
  /\ summary \subseteq DOMAIN inputs
  /\ known \in Cache!Caches
  /\ droppedEvents \in Nat /\ deduplicatedUsers \in Nat /\ eventsInLastBatch \in 0..Capacity + 1
  /\ shutdown \in BOOLEAN /\ closed \in BOOLEAN
  /\ posts \in Seq(Sender!Posts)
  /\ \A n \in DOMAIN posts : posts[n].data \in IF n \in Batches THEN [events : Seq(Output)] ELSE Stats
  /\ \A n \in Batches : Len(posts[n].data.events) \in 1..Capacity + 1
  /\ inputs \in Seq(Input) /\ Len(inputs) <= MaxInputs
  /\ dropped \subseteq Dropped

(* All the outputs there ever were, but for those dropped: batch after     *)
(* batch, and then the queue.  A place is a batch or the queue and a       *)
(* number there.                                                           *)
InQueue == 0
Line(n) == IF n = InQueue THEN queue ELSE posts[n].data.events

Places == UNION {{n} \X DOMAIN Line(n) : n \in Batches \cup {InQueue}}
At(p) == Line(p[1])[p[2]]

Earlier(p, q) ==
  IF p[1] = q[1] THEN p[2] < q[2] ELSE p[1] # InQueue /\ (q[1] = InQueue \/ p[1] < q[1])

Rank == [kind \in {"index", "identify", "custom", "feature", "debug"} |->
           CASE kind = "index" -> 1 [] kind = "debug" -> 3 [] OTHER -> 2]

Before(o, p) ==
  \E i \in o.from, j \in p.from : i < j \/ (i = j /\ Rank[o.kind] < Rank[p.kind])

InOrder ==
  \A p, q \in Places :
    Earlier(p, q) /\ "summary" \notin {At(p).kind, At(q).kind} => Before(At(p), At(q))

(* However events, flushes and answers interleave, nothing is queued or    *)
(* posted twice, and batch after batch keeps the order of the calls; what  *)
(* is sent a second time can be told from what is new.                     *)
OnceInOrder == InOrder /\ Sender!DuplicatesAreMarked

Kept(o) == (\E p \in Places : At(p) = o) \/ (\E d \in dropped : d.output = o)

(* What the application sent has each of its outputs in a batch or in the  *)
(* queue, unless that was dropped.                                         *)
EventsKept ==
  \A n \in DOMAIN inputs :
    /\ (inputs[n].kind = "feature" => inputs[n].trackEvents) => Kept(MakeOutputEvent(inputs[n].kind, n))
    /\ inputs[n].kind = "feature" /\ inputs[n].debug => Kept(MakeOutputEvent("debug", n))

Counts(n) == {p \in Places : At(p).kind = "summary" /\ n \in At(p).from}

(* Every evaluation is counted in exactly one summary, or waits to be,     *)
(* also when the queue was full.                                           *)
EvaluationsCounted ==
  \A n \in DOMAIN inputs :
    inputs[n].kind = "feature" => IF n \in summary THEN Counts(n) = {} ELSE \E p \in Places : Counts(n) = {p}

(* Every output that was dropped is counted in one diagnostic event, or    *)
(* waits to be.                                                            *)
DropsCounted ==
  LET told(n) == Cardinality({d \in dropped : d.report = n}) IN
  /\ droppedEvents = told(Uncounted)
  /\ \A n \in Reports : posts[n].data.droppedEvents = told(n)
  /\ \A d \in dropped : d.report \in Reports \cup {Uncounted}

(* Every event accepted is in a batch or still in the queue, or was        *)
(* dropped at capacity and counted; every evaluation is in one summary.    *)
NothingLost == EventsKept /\ EvaluationsCounted /\ DropsCounted

ContextOf(o) == {inputs[n].context : n \in o.from}

Tells(o, c) == o.kind \in {"index", "identify"} /\ ContextOf(o) = {c}

(* LaunchDarkly learns of a context before it gets a custom or feature     *)
(* event that only names it: an index or identify event comes earlier in   *)
(* the stream, unless that one was dropped.                                *)
IndexedBeforeUse ==
  \A p \in Places :
    At(p).kind \in {"custom", "feature"} =>
      \A c \in ContextOf(At(p)) :
        \/ \E q \in Places : Earlier(q, p) /\ Tells(At(q), c)
        \/ \E d \in dropped : Tells(d.output, c)

(* Once LaunchDarkly has refused the SDK key for a batch, first request or *)
(* retry, no event is accepted and no batch posted any more.               *)
NothingAfterRefusal ==
  [][(\E n \in Batches : posts[n].stage = "FailedAndMustShutDown")
       => inputs' = inputs /\ Batches' = Batches]_vars

Pending == summary \cup UNION {o.from : o \in ToSet(queue)}

(* What is queued or counted is posted some time, unless the processor is  *)
(* closed or shut down.                                                    *)
EventuallyPosted == []<>(Pending = {} \/ shutdown \/ closed)

(* Every flush comes to an end if every request does.                      *)
FlushSettles == []<>(\A n \in DOMAIN posts : Sender!Settled(n))
=============================================================================
