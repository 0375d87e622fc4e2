# Verification of launchdarkly-js-core

TLA+ modules, TLC configurations and TLAPS proofs for the server side of
launchdarkly-js-core: the SDK core in `src/packages/shared/sdk-server`, contexts and
event processing in `src/packages/shared/common`, the database packages in
`src/packages/store`, and the feature stores of the edge SDKs. Paths below are relative to `src/packages/`; `sdk-server`
without more stands for `shared/sdk-server/src`.

Contents: 1 the system, 2 the modules, 3 the runs, 4 bounds, 5 fairness,
6 proofs, 7 disagreements between code and documents, 8 what is not modelled,
9 plan.

## 1. The system

An SDK client keeps a copy of the feature flags and segments of LaunchDarkly,
evaluates flags from it, and reports what it evaluated.

```
 LaunchDarkly ──stream/poll──> data source ──> DataSourceUpdates ──> feature store
                                   │                │                 (memory, or
                                   │                └─ events          wrapper + database)
                                   v                   for listeners       │
                               LDClientImpl <── variation ── Evaluator <───┘
                                   │                             └── BigSegmentsManager
                                   v
 LaunchDarkly <── EventSender <── EventProcessor (summarizer, deduplicator)
```

JavaScript runs one handler at a time. What is concurrent is what lies between
handlers: replies of the network and of databases, timers, microtasks, and other
processes that use the same database. That, and failure of any of them, is where
the hard behaviours are.

| Component | State | Operations | Interacts with | Hard because | Correct if |
|---|---|---|---|---|---|
| UpdateQueue (`sdk-server/store/UpdateQueue.ts`) | the queue | enqueue, newCb, timer | the wrapper, by callbacks | the queue is both the work and the lock | updates never overlap, all run, in order |
| PersistentDataStoreWrapper (`sdk-server/store`) | two TTL caches, isInitialized, the queue | init, upsert, delete, get, all, initialized, close | database, other processes | cache fills race with writes | a cached value is the database's, but for known races |
| InMemoryFeatureStore | the data | the same | DataSourceUpdates | it shares objects with its caller | - |
| AsyncStoreFacade | none | promises around callbacks | - | - | - |
| serialization, sortDataSet | none | what is generated on receipt and taken out for a row; the order of the rows | store | one field forgotten in one of five places | an item comes back as it was received; each item after what it refers to |
| DataSourceUpdates, DependencyTracker (`sdk-server/data_sources`) | references between items, in both directions | init, upsert | store, listeners | reads, then writes, then defers | every change is told once the call is done |
| StreamingProcessor | the event source | put, patch, delete, error, stop | platform, store, client | reconnections with calls of the store under way | the store gets what the stream brought |
| PollingProcessor, Requestor, NullUpdateProcessor | timer, ETags, stopped | poll, stop | platform, store, client | a chain of callbacks that must neither break nor fork | one chain; the store catches up |
| FileDataSource, FileLoader | timestamps, watchers, a debounce timer | load, change of a file, stop | file system, store | overlapping reads | the last content wins |
| TestData | data, clients, the builder's lists | flag builder calls, update, stop | store | built flags share lists with their builder | a flag does what its builder was told; every client has the updates |
| LDClientImpl | initState, promise | start callback, waitForInitialization, variation, flush, close | all | called back many times, in any order of errors and successes | ready once, and stays so |
| Evaluator and its helpers | none | evaluate | store, big segments | prerequisites and segments can be circular, and one series of callbacks shares what it has visited | it ends; what it depends on is what the tracker knows; a variation is served only if the prerequisites have theirs |
| Context, AttributeReference, ContextFilter | none | validity, canonical keys, redaction | Evaluator, events | three sources of private attributes in two notations | nothing private in an event; one key, one context |
| Configuration | none | validation of options | LDClientImpl, EventProcessor | options of any type, from JavaScript | what the application says is private is private |
| EventFactory, FlagsStateBuilder | none | events of evaluations, the state of all flags | LDClientImpl | what may be left out | a client can make the events it must from the state |
| EventProcessor, EventSummarizer (`shared/common/src/internal/events`) | queue, summary, statistics, shutdown | sendEvent, flush, three timers, close | sender | batches under way side by side, capacity | nothing lost or sent twice but what is counted as dropped |
| EventSender (`sdk-server/events`) | none | sendEventData with one retry | platform | a request may have got through although it failed | duplicates can be told |
| LruCache, ContextDeduplicator | linked list in arrays, key map | get, set, clear | EventProcessor, BigSegmentsManager | index arithmetic at the boundaries | keeps what was used last |
| BigSegmentsManager and its stores | cache, status, poll timer | getUserMembership, poll, close | big segment store | polls and queries overlap | a membership was true while it was asked for; the status becomes right |
| RedisCore, DynamoDBCore (`store/*`) | the connection | init, get, getAll, upsert, initialized | database, other processes | WATCH/MULTI/EXEC, writes in batches | an upsert replaces older items only and says what is there; the data of an init is there; each is answered |
| Edge stores | Akamai's cache | get, all, initialized, prefetch | key-value service | evaluations share a cache that each one empties | no payload older than the evaluations under way |

Components without state of their own are pure operators in the models (Evaluator,
serialization, sortDataSet, Context, AttributeReference, ContextFilter, Configuration,
EventFactory, FlagsStateBuilder) or are listed in `PROJECT.json` with the reason they are left out
(DiagnosticsManager, AsyncStoreFacade, the Node platform).

## 2. The modules

Every definition that models code has its lines in `PROJECT.json` under `map`;
every handler is one action: JavaScript does not interleave inside it. Definitions
marked `mutation` are deliberate mistakes. They are not part of the models; a
property is only kept if one of them violates it.

**UpdateQueue** (one action per turn of the event loop: `Enqueue`, `Complete` =
newCb, `TimerFires` = the setTimeout continuation). The length of the queue is the
code's lock: the job at its head is running. History variables `enqueued`,
`started`, `called` record the calls. **FifoService** is the abstract
specification: callers are answered in the order of their calls, each of them.

**PersistentDataStoreWrapper** composes the queue (`Queue == INSTANCE
UpdateQueue`) with the caches and an external database. A call of the database is
three steps, *sent*, *served*, *handled*; anything may happen in between: other
reads, the writes of the queue, expiry of cache entries (`Expire...`), a write or
init by another process (`Foreign...`), and a failure, possibly after the write was
applied (`ServeFailure`). The contents of an item are a function of its version.
`tainted` and `allTainted` are ghosts: they name the entries that have a *known*
reason to differ from the database, so that an invariant can say there is no other.
One reason needs no ghost: a deletion that the database keeps without a serialized form
is not cached (`MissedDeletion`, section 7).

**DependencyTracker** has the pure operators, shared by DataSourceUpdates, its
proofs and **DependencyWalk**; the latter states the recursive depth-first walk as the code has
it, level by level. **Evaluation** compares what both mark (`EvaluationChangesAreMarked`), over every
graph that its items can build.

**DataSourceUpdates** has the two paths of the code: over an in-memory store a
call reads and writes in one go and defers the rest to a microtask; over a persistent
one (`Async`) reads are answered some time, then the write is queued, then done, then
the microtask runs. `Waits` says whether the data source awaits a call before the
next (polling does, streaming does not). The data of LaunchDarkly (`service`) evolves
in the model, and the data source brings snapshots or single items of it, so every
input is one that a data source can produce. `owed` is a ghost: the flags a change
reached whose listeners were not told.

**LruCache** is the cache as a record of its arrays, with an operator for every
method; **ContextDeduplicator** is a system around it with both of its users' calls;
**RecentlyUsed** is the abstract cache: a sequence, least recently used first, of values
with the time `since` which each is there. Whether a `get` renews that time is left open
by it; that the code does is a finding (section 7).

**EventProcessor** with **EventSender** and an instance of LruCache: sendEvent,
flush from the timer and from the application, the diagnostics and the deduplication
timer, close, the answers and the retry. An output (index, custom, feature, debug,
summary) is identified by the inputs it stands for, so losing, doubling and reordering
can be told. A post that waits for an answer is an element of `posts`; there may be many.
What did not fit is in the ghost `dropped`, together with the report that counted it.

**LDClient**, **StreamingProcessor**, **PollingProcessor**, **FileDataSource** and
**EdgeStore** are composed by **ClientStart**: the client with the data source its
configuration asks for (`source`). The feature store is there what these components see
of it, DataSourceUpdates over a store: calls are done in any order, as over a persistent
store an upsert can get ahead of an init called before it (section 7, `InitNotOvertaken`).
LaunchDarkly's data is a history of changes 1, 2, ...; the store holds a subset. The ghost
`overtaken` of a call has what got ahead of it, and `lost` what an init has replaced that way.
That streaming keeps the connection for as long as the platform's event source does
is taken from how the code uses it.

* In **FileDataSource** every await of `loadAndWatch` and of a watcher's callback is a
  step (`DataLoaded`, `TimeLoaded`, `NewTimestamp`, `NewData`), and the debounce timer
  another. A file's content and its timestamp are the number of the change that
  wrote it.
* In **EdgeStore** the data is a payload in a key-value service. An evaluation is a
  record that goes from await to await (`stage`); a request is answered with any
  payload that was there between the request and the answer, with nothing, with a text
  that is no JSON, or with an error. For Akamai every evaluation begins with
  `Prefetch`, which empties the cache all of them read.

**Database** says what the update queue of several processes asks of a database they
share; **RedisCore** and **DynamoDBCore** implement it, command by command and request
by request, and **Databases** chooses one of them and breaks connections, fails requests
and ends processes. The Redis model has the connection: its queue of commands (`wire`),
those sent again after a reconnection, and `watch`, which a discarded transaction
leaves behind. The DynamoDB model has the query pages of `init`, its batches, whose
parts are served in any order, and the conditional put with the get after it.

**BigSegments** is BigSegmentsManager over an instance of LruCache and one of the two
stores: queries, the polls of the timer, of `requireStatus` and of queries, which overlap, a
database whose memberships change, and close. Redis answers a membership in two reads.

**Evaluator**, over **Serialization** over **Contexts**, and over **Operations** (the
operators of clauses), is the evaluation as operators: the
state that callbacks share (`EvalState`: events, big segment status, the memberships that
are known) is handed through, and next to it what was visited on the way. Calls that
are in each other are levels: an evaluation is a function of the level and the call
(`Evaluations`, `SegmentMatches`), that of a level uses the one below, and `Endless` tells an
evaluation that has used up `MaxDepth` levels. A series of callbacks over a list is the
sequence of what each callback left (`Series`). The walk of the tracker, the
depth-first sort and the redaction of nested objects are recursive functions in the same way. The hash is a constant function to 0..99 (`BucketOf`). **Calls** has variation,
variationDetail, allFlagsState, and the events they make. **Configuration** is what
becomes of the options, whatever their types, and how events are filtered by them.
**Serialization** has the reviver, which takes null away (`Revive`) and leaves holes in arrays,
and the replacer, which throws at these (`Throws`).
**SortDataSet** is the depth-first order of `sortDataSet`. **TestData** is the flag builder and the
data sources of clients; lists of keys have an identity, as a builder's arrays are
those of the flags it has built. **Evaluation** puts these next to each other: items arrive one by one (in the order
they can in), the application evaluates after every change, and the actions of
`TestData` change flags under two clients. `Identify` goes from an application's options
and context to the redacted context in the event.

The modules `MC*` hold the definitions that only model checking needs.
The modules `*Proofs` hold theorems: `PersistentDataStoreWrapperProofs`,
`DependencyTrackerProofs`, `EventProcessorProofs`, `ClientStartProofs`,
`BigSegmentsProofs`, `DatabasesProofs`, `EvaluationProofs` and, on top of it, `ApplicationProofs`.

## 3. The runs

| Run | Module, cfg | Shows |
|---|---|---|
| wrapper_races | MCWrapper | two queued writes, a reader, another process, failures that may have been applied: one write at the database at a time; item cache, list cache and `initialized()` differ from it only for the named causes (`RemembersTheDatabase`); cached items go back in version only by a named race |
| wrapper_progress | MCWrapper, MCWrapperLive | three writes: each is called back in order although calls fail (`FifoService` with its liveness), every read is answered |
| wrapper_all_after_upsert | MCWrapper, MCWrapperAllStale | *violation*: see section 7 |
| updates | MCDataSourceUpdates, MCUpdates | two flags and a segment in memory, or a flag and a segment over a store that answers later, for a data source that awaits its calls: the tracker's two maps agree with each other and with the store, and no change of an evaluation goes untold; over the latter, no event for a write that changed nothing |
| updates_init_overtaken | DataSourceUpdates, MCUpdatesOutOfOrder | *violation*: see section 7 |
| big_segments | BigSegments, MCBigSegments | a membership that the store answers was true between the question and the answer, but for one of Redis that is in neither list; queries end also if the store fails; the status becomes right once the store stays as it is; the cache implements **RecentlyUsed** |
| big_segments_kept | MCBigSegments, MCBigSegmentsKept | *violation*: see section 7 |
| dedup_flush_forgets | MCLruCache, MCDedupFlush | *violation*: see section 7 |
| events | MCEventProcessor, MCEvents | outputs are posted once and in order and a batch delivered twice is recognisable, an evaluation is counted in exactly one summary, dropped outputs are all counted, an index event that was not dropped precedes its uses, a refusal ends it all, everything is posted some time, every flush comes to an end. A batch that fails twice is given up by the code and counts as posted |
| client_start | ClientStart | ready exactly once and only with data, initialized for good, the promise tells the same; what the stream brought is in the store, whatever the order in which its calls are done, but for patches that got ahead of a put; one chain of polls; polling and file clients catch up; edge evaluations use no payload that was replaced before they began |
| databases | MCDatabases | an upsert never replaces a newer item, tells what the database has then, an init leaves its data there, and both are called back: but for the causes that are named in the properties |
| evaluation | MCEvaluation | evaluations end; whatever changes an answer is marked by the tracker, whose walk equals the transitive closure; variations need their prerequisites; rows come back as received, but for nulls in arrays, which throw, and in an order that works; events, flag states and redaction; test flags do as told and clients have their updates, with the exceptions of section 7 |

The queue and the LRU cache have no runs of their own: `wrapper_progress` has every
interleaving of enqueue, completion and timer and refines FifoService, and
`big_segments` and `events` use the cache as the code does.

Each property of a passing run has a mutant of the code in `PROJECT.json` that TLC
finds violated under the same configuration.

## 4. Bounds

Every bound is a CONSTANT that starts with `Max` or the size of a set.

* `wrapper_races`: one key, one reader, 2 versions, 2 writes, 1 foreign write. A race
  is between one read and one or two writes of one key. Keys are independent
  but in init and in the list, both of which treat them alike. Two
  versions make *older* and *newer* possible; the second queued write shows the timer. That
  a write is enqueued while a timer is pending takes a third one: `wrapper_progress` has it,
  and `OneWriteEver` is about any number.
* `wrapper_progress` drops the foreign writer, which no progress depends on, for a third
  write: the queue distinguishes empty, one job and more, and a completion with none, one
  or several behind it needs three.
* `updates`: two flags and a segment give prerequisites, segments in rules and
  a path of length two; two versions give change, deletion and replay. Over the persistent
  store there are one flag, one segment and four calls (`MaxAwaited`).
* `big_segments`: three keys for two slots give insertion, eviction and a moved node that is
  head or tail; one key's membership changes once. The clock runs to 2 with a maximum
  age of 1: `big_segments_kept` needs a query of the store, one of the cache and a look at
  it, at times 0, 1 and 2, and has one key for that. There is one caller, so two queries of one context at the same time are left
  out; a poll of the timer overlaps with those of the query.
* `events`: capacity 2 with events that make up to three outputs: some fit, some do
  not. A cache of one context makes every change of context an eviction. Two posts can
  overlap with a diagnostic one, with a retry each.
* `client_start`: three changes of the data; three calls of the store under way.
  A reconnection with a patch of before and one of after its put needs just these. Two files
  with two callbacks of a watcher each overlap in every way. Two evaluations
  overlap, each with two reads (`MaxReads`): a flag and one thing it refers to. With
  files and at the edge nobody calls `waitForInitialization`: what it does
  depends on the start callback alone, as the other sources show.
* `databases`: two processes, two keys, two versions, three writes and two faults: an
  upsert that reads, is overtaken, and an init of before or after; a connection that
  breaks while the commands of the last break are still to be sent again. What earlier processes have
  left and what init is called with are bounded by `Earlier` and `DataSets`; one item is
  too large for DynamoDB (`Oversize`).
* `evaluation`: three flags and two segments; `Payload` gives each item the shapes that
  make references in every place the code looks at (prerequisites, segments in rules,
  segments in segments, big segments), circular ones included. `MaxDepth`
  ends an evaluation that would not, with two levels more than there are items; objects in contexts are
  at most `MaxNesting` deep. `ArrayCutoff` is 1, so that lists of both sizes occur.
  `NoItems` and `NoTests` keep data that arrives and a test flag that is built apart:
  one of the two goes on in a behaviour; preconfigured items come before builders. A builder gets two calls in all
  and four lists (`MaxBuilderCalls`, `MaxLists`); a flag that no client gets yet has up to five
  (`MaxTargetCalls`), of which those after the second set the variations or name a context again:
  a key named for the third of three variations, which are then two and three again, is in
  two lists. `ClientOptions` has options of
  the right type, of another and out of range.

## 5. Fairness

Only steps that the platform takes of its own accord are fair; calls of the
application, changes of the data, other processes, failures and expiry are not.

* Timers fire: the event loop runs them (`TimerFires`, `FlushTimer`, `Retry`, `Timer`).
* A database answers every call, if with an error: the wrapper has no time-outs of
  its own, and without an answer the queue does stop for good (weak fairness of
  `Complete`, `WriteStep`, `ReadStep`).
* A request gets a reply or an exception (`Answer`, `Reply`): the platform's time-out.
* A big segment store, a database connection and the file system answer in the end; a broken
  connection is made again. Processes that end, and faults, are not fair.
* A watcher's callback comes with each change (`fs.watch`, once or twice), its reads are
  answered, if not always in their order, and the debounce timer fires.
* `PollingCatchesUp` assumes that the service works again and again (strong fairness
  of `GoodReply`): polls in between may fail in any way that is not final.
* Nothing is assumed of the order in which things happen.

## 6. Proofs

`PersistentDataStoreWrapperProofs` begins with **UpdateQueue** by itself, for any number
of writes. `Inv` is the conjunction of the checked invariants and `QueueIsRest` (what was
enqueued is what was called back followed by the queue). None of its parts is inductive alone: that the head of the queue is what
runs needs that no timer is pending then, which needs that a non-empty queue has
exactly one of the two; and that the started jobs are a prefix of the enqueued
needs `QueueIsRest`. Theorems: `QueueTypeCorrect`, `NoOverlapEver`, `NoLostWakeupEver`,
`StartedInOrderEver`, and `QueueServesInOrder`: every step is a step of FifoService or none
(its liveness is left to TLC).

`DependencyTrackerProofs`, for all finite sets of flags and segments, all data and all four
settings of `Async` and `Waits`:

* `TypeCorrect`, `TrackerInverseEver`: from `TypedInverse`, the types with the fact that
  the two maps are inverse. `UpdateInverse` and `RebuildInverse` are the lemmas on the
  operators. The type invariant has the one non-trivial part that an upsert
  brings exactly one item.
* `TrackerMatchesStoreEver`: once all calls are done, the tracker has the references
  of the stored data, assuming `Friendly`: the data source brings current items, and
  the store is in memory or each call is awaited. The invariant `Followed` says that
  no data under way is ahead of the service or, for upserts, behind the store
  (`Fresh`), that at most one call is under way over a persistent store
  (`OneAtATime`), and for every item that the last waiting microtask that
  touches it brings the references it has in the store, or, if there is none, the
  tracker has them (`LastTold`). `Friendly` cannot be dropped: see section 7.
* `EveryChangeToldEver`, under the same assumption: once all calls are done, no
  listener of a flag that a change reached is left untold. First, what
  `ModifiedItems` finds is the least set that has the items it begins with and is closed
  under references (`ReachBegins`, `ReachCloses`, `ReachIsLeast`; that there are enough
  rounds is the pigeonhole principle). Then `Owing`: every flag that is owed an event is
  reached, along the references *in the store*, from an item that a waiting microtask
  finds modified. A microtask goes along the references of its own moment, which
  may be others; but of each item whose references differ, `LaterMarks` says that a later
  microtask finds it modified, and up to the first such item the ways are the same
  (`Detour`). It also needs that in memory the microtask of an init sees the data that
  later upserts have changed under its hands (`SharedWithStore`), and never finds less
  modified because of that (`MarksKept`).
* `NoSpuriousEventsEver`: over a persistent store that is awaited, no event is sent for a
  write that changed nothing. In memory it does not hold: see section 7.

`PersistentDataStoreWrapperProofs`, for all keys, readers and numbers of writes: the
wrapper is a system of its own in which the queue is one part, so what is proved of the
queue has to be shown to hold there. `StepOfQueue` says that every step of
the wrapper (reads, other processes, expiry, failing calls) is a step of `UpdateQueue`
or leaves it alone; hence `QueueInOrderEver`, the queue's inductive invariant in the
wrapper. `OneWriteEver` adds `WriteRuns` (a write is at the database exactly while the
queue runs a job, and it is that job), which needs the invariant for the turn in which a
completion frees the queue and the timer starts the next.

`WritesServedSafely` is the refinement that `wrapper_progress` checks, without its
liveness: the wrapper's writes are called back once each, in the order of the calls.

On top of `QueueInOrderEver` the same module has `TypeCorrect`, `RemembersTheDatabaseEver`, `OnlyRacesTurnCacheBackEver`. What the caches hold is not
inductive: that an answer may be cached depends on what it says when it is
handled. `Coherence` adds it: a served write that did not fail has left
its items (`WriteBrings`); a served read that no write has overtaken has the rows
of the database (`ReadBrings`); and no third way leads into a cache
(`ItemsFollow`, `ListFollows`, `NothingCached`, `InitializedIsPopulated`).

`EventProcessorProofs`, for every capacity, set of inputs and number of posts:
`TypeCorrect`, `OnceInOrderEver`, `NothingLostEver`, `IndexedBeforeUseEver`,
`NothingAfterRefusalEver`. Common to them is `Grown`: every handler moves the outputs from
their places in the queue and in batches to others in the same order, and puts new
ones behind. `IndexedBeforeUse` needs `KnownIsTold` (of what the deduplicator knows, an
event is under way, answered or dropped, so that its eviction and a clear do no
harm), `NothingLost` the counts of drops by their reports (`DropsCounted`), and
`NothingAfterRefusal` that a refusal in a batch is never without `shutdown`.

`ClientStartProofs`, for any number of changes, files, callbacks and evaluations:
`TypeCorrect`, `ReadyOnceWithDataEver`, `StreamAppliedEver`, `OnePollChainEver`,
`EvaluatesFreshDataEver`. The invariant has a part for each data source; steps of the
client are shown once to tell the application one thing or nothing and to add a call
of the store or to have one done, of the oldest or not (`ClientStep`). For the stream it says
that each change it has brought is in the store, in a call or `lost`, and that an init on its way
has it, was overtaken by it or comes before a call that has it (`Secured`). For the edge, the part is `EdgeFresh`:
what the cache holds and every reply brings is not older than the oldest
payload an evaluation that overlaps may use, and an evaluation that is alone finds
its own payload in the cache (`AloneAtCache`).

`BigSegmentsProofs`, for every number of keys and queries and every size of the cache:

* `TypeCorrect`, `MembershipWasTrueEver`: a query has one call at a time, of its
  context (`CallsUnique`, `CallsFit`), and what it has read so far was so since it began
  (`SeenIsNow`).
* `ImplementsRecentlyUsedEver`: there is a sequence of slots that the two links run
  along, without repetition, and the map leads to the slot of each key (`CacheOK`). The
  lemmas on moving a slot to the tail, evicting the head and taking a free slot
  give the step of RecentlyUsed that each get and put is.

`DatabasesProofs`, for any number of processes, keys, writes and faults: `TypeCorrect`,
`UpsertsOnlyAdvanceEver`, `UpsertToldTheTruthEver`, `InitStoresTheDataEver`.

* Redis: which commands may be behind each other on the wire (`WireFits`); a read is
  watched (`ReadsWatched`); and a transaction that waits on an unbroken
  connection has a WATCH that was touched, or brings a newer item than is
  stored (`WritesWatched`). The attempt to prove `UpsertsOnlyAdvance` has corrected it:
  a break of the connection can itself let a transaction through that was
  queued without a WATCH, so that its exception (`MayGoBack`) has to name the
  connection as well as the wire. With one fault TLC does not get there, with two it does.
* DynamoDB: which requests belong to which stage of a write (`RequestsFit`); an
  upsert that was answered has put its item (`PutDone`); init knows the rows of the pages
  it has read (`PagesRead`); and what is not yet as init meant it is still under way or
  in a later batch (`BatchesGo`).

`EvaluationProofs`, for every set of flags and segments of any shape and with any
references, circular ones included, every context and every depth of calls:

* `DataFollowsEver`: the items are received ones, the tracker has their references both
  ways, the answers are those of the Evaluator for these items, whatever was received
  in whatever order. The other theorems are then about a single set of items.
* `StoredAsReceivedEver`: what `Serialize` takes out of an item is what `Process` puts
  in, part by part; an item that it does not throw at has no hole, so `Revive` finds nothing.
* `EvaluationEndsEver`, `EvaluationChangesAreMarkedEver`, `PrerequisitesHoldEver`. The
  recursive functions of the Evaluator exist and are unfolded level by level
  (`SegmentMatchesUnfold`, `EvaluationsUnfold`); there is no induction over data in it,
  the levels are numbers. Each operator of the Evaluator then has one lemma that relates
  *two* of its uses: on two sets of items that agree on all the flag refers to, and for two
  states that are in a relation that evaluation keeps (`RelatedAre`). With states that
  are the same it says that the answer does not change (`AnsweredAlike`); with `Ending`,
  that an evaluation that has not run out of levels does not; with `Alike`, that
  prerequisites are answered as they are when asked for by themselves. That there are enough
  levels is counted: each call is for a flag or a segment that no call around it is for,
  but below a big segment (`SegmentLevelsEnd`, `FlagLevelsEnd`). That the tracker's walk
  marks what can be reached is proved along the same count (`WalkLevelsMark`, `WalkIsReach`).
  The attempt to prove `PrerequisitesHold` without its exception has failed for a good reason: what a flag is served whose prerequisites are circular
  depends on the flag where the evaluation begins (`ReachesCycle`).
* `FlagsStateSupportsEventsEver`: by cases on the options, from the answer's last event
  (`LastEvent`).
* `SortedForTheStoreEver`: in a visit, the keys that it is in (which the code has taken out of
  `unvisited`, but not yet sorted) are exactly those that are still to come, and each of
  them refers to the key visited. So a prerequisite that is missing behind a key refers
  back to it (`Sorted`, `LevelsSort`).
* `CanonicalKeysDistinctEver`: a canonical key is read from its end. An encoded key has no
  colon, so the last colon ends the last kind; and of an encoded key the last character
  is told because none is encoded with a `%` at its end (`LastPart`, `LastPiece`).

`ApplicationProofs`, for every context and options of any type, and every order of calls:

* `PrivateStaysPrivateEver`: the recursive copy of a context exists, built from the deepest
  objects outwards (`CloneExists`), and the objects of the copy are those of the context
  to which nothing on the path is left out (`ObjectsCopied`, by their depth). So the leaves
  are those that are spared (`LeavesFiltered`), spared is what is not private, for options of any
  type (`AllPrivateIs`, `PrivateListedIs`), and of all paths to a leaf that are left out
  the shortest is the one that is named (`LeftOutIsNamed`). The first attempt, with the name
  of the attribute itself in the property, failed for a good reason: a reference
  `/a~b`, which is no valid escape, is named as it is written and not as the path is.
* `TestFlagsAreAsToldEver` and `TestClientsHaveUpdatesEver`: a flag that is built has no
  prerequisites and no segments, so one call evaluates it (`EvaluateOnce`, `BuiltAnswered`): by
  the first of its targets that has the key, and as these are sorted by variation it is one of
  the least (`TargetsAnswer`), or else by the first rule none of whose valid clauses is
  denied (`InClausesMatch`, `RulesEvaluated`). That is the first all of whose clauses match, which
  the documents promise, if no rule before it is one of which a clause is malformed and
  all others match (`NoneOpen`, `FirstAllMatch`). The invariant is `TestsInv`: no two targets of a builder share a
  list, and what was last told of a context is the least variation that has its key in a
  list (`Tells`). That needs *least*: `variations` can take a variation away whose lists stay,
  and come back, so a key can be in several lists, but never in one of a lesser variation than
  the last one told (`MovedTells`, for the call that names a context; `ChangesKeep` for the others).
  For the clients the invariant says that each one whose data source is known has what
  `TestData` has, and that the lists a flag was built with differ from
  those it has now only for contexts that were named since (`BuiltFrom`): a
  list is changed only by naming someone for a target that has it (`ListsStay`), and a builder
  that is new has lists that are new (`BuilderStays`).

Only model-checked:

* all liveness properties: fairness and ENABLED are beyond the prover.

The constants' assumptions (`WrapperAssumption`, `UpdatesAssumption`, `LruAssumption`,
`ProcessorAssumption`, `ClientAssumption`, `BigSegmentsAssumption`, `DatabaseAssumption`,
`DatabasesAssumption`, `OperationsAssumption`, `SerializationAssumption`, `ItemAssumption`,
`IdentifiedAssumption`, `DepthAssumption`, `AttributesAssumption`, `TestDataAssumption`,
`ConditionsAssumption`) say that bounds are
natural numbers and sets are disjoint, finite or of the values the code has. Those with
weight: a cache has at least one slot (`LruAssumption`, `ProcessorAssumption`; section 7 on
0), there is at least one file and finitely many (`ClientAssumption`; the configuration of
the file data source names them), those who write to a database are among the
processes (`DatabasesAssumption`), items have the types of `evaluation/data`
(`ItemAssumption`), levels are more than items (`DepthAssumption`), keys are
sequences of characters while kinds have no colon in them (`IdentifiedAssumption`), and
`MaxNesting` is no less than the contexts are deep, and a legacy user has strings for
what LDUser declares as strings (`AttributesAssumption`).

## 7. Disagreements between the code and its documents

With a run:

* `UpsertsShowInAll`: an `all()` that overlaps an upsert leaves a list without it in
  the cache for a whole ttl; a test says that the cache is not used for `all` after
  an upsert.
* `InitNotOvertaken`: with listeners, an upsert can be queued before an init that was
  called before it, because init reads twice first; the init then undoes it. The
  queue is there "to preserve order of operations of async requests".
* `FoundIfSeen`: after `clear()` the LRU cache still maps old keys to slots; a context
  that was not seen since the flush can be taken for known.
* `CachedNotTooLong`: `get` renews the age of what it finds (`LruCache.ts:96`), so a
  membership that is asked for often enough is cached for good; `LDBigSegmentsOptions.ts:45`
  calls `userCacheTime` the maximum length of time that it will be cached.

Without a run (the models show them, and the properties except them by name, if they
would otherwise be violated):

Store and updates

* "Once we are initialized, then the key will never be checked again": the answer to
  an older question can set `isInitialized` back to false.
* A deleted item whose row has no serialized form leaves the cache entry as it was:
  the code sets the entry named `data.key` instead of the cache key
  (`PersistentDataStoreWrapper.ts:238`; `UpsertDone`, with `TombstoneHasBody` FALSE).
* Events for writes that changed nothing: in memory, the object that init was called
  with is changed by a later upsert before the microtask of the init reads it
  (`SharedData`); over a persistent store, without waiting. With outdated items
  (`Stale`) a refused upsert replaces the references in the tracker, and
  `EveryChangeTold` does not hold.
* `EveryChangeTold` does not hold either over a persistent store whose calls are not awaited
  (streaming): the old data is read before the write is queued (`DataSourceUpdates.ts:149`), so an init
  that reads before an earlier upsert is written removes its item, and no event is sent. The run
  and the proof have `Waits` there.
* With `contextKeysCapacity: 0`, which Configuration accepts, LruCache never evicts: its
  size is 1 when it is first compared with 0 (`LruCache.ts:119`). Read from the code only;
  the models have a capacity of at least 1.
* After a clear, the LRU cache can also evict a key that was used more recently than
  another.
* `serialization.ts` changes the object it writes (the live flag). A `null` in an
  array makes the replacer throw (`HasNull`, `Throws`): such an item cannot be
  written, and `StoredAsReceived` is about reading back the others.

Client and data sources

* `waitForInitialization` called for the first time after the failure never settles;
  `api/LDClient.ts` promises a rejection.
* `onFailed` is called for a malformed message also after the client is ready; a bad file
  during the start is reported by a callback that stays for later reloads.
* The promise of `flush` is never rejected, and its callback is called twice when the
  processor throws.
* With a malformed body that has an ETag (`MalformedHasETag` TRUE) every later poll is
  answered 304 and `PollingCatchesUp` does not hold.
* FileLoader reads a file before its timestamp and watches after both: a change in
  between is missed; answers out of order keep the older content; `close` leaves the
  debounce timer (`missed`).
* The retry of a diagnostic event goes to the address of analytics events.
* Akamai: every evaluation empties the shared cache, so that overlapping ones can
  go on with different payloads, ask more than once (`cacheableStoreProvider.ts:5` speaks
  of avoiding redundant requests), and an older answer can replace a newer payload.
  `undefined` counts as initialized (`config !== null`). A rejected request rejects
  `variation` instead of giving the default, or, in `initialized`, leaves it unanswered.

Databases

* Redis: a discarded upsert leaves its WATCH, and the next init can be thrown away
  without notice; without a connection an upsert's transaction is queued unseen;
  `getAll` then calls back twice.
* DynamoDB: init and get do not catch a failing request, and the update queue stops; the
  order of `sortDataSet` is lost in batches that are written at the same time.
* Big segments: polls overlap, and an older answer sets the status for a while; close
  leaves polls under way; Redis reads a membership in two steps that can be torn.

Evaluation

* The root flag is not among the visited ones, and a circular prerequisite is an error
  but does not end the series; a big segment starts again with nothing visited, and
  through one the recursion can be endless (`EvaluationEnds` excepts it).
* An error in one clause is forgotten when the next matches (`Evaluator.ts:304` and `:399`
  say otherwise), so that a rule of test data with such a clause, unless it is the last, matches
  without it; `TestDataRuleBuilder.ts:12` says "if all of the rule's clauses match", and
  `TestFlagsAreAsTold` excepts the contexts that come to such a rule (`ComesToOpen`). A clause on a missing attribute does not match even if negated.
* `Bucketer.ts:42` and the last bucket of an experiment: `hadContext` is not looked at. A
  seed of 0 counts as none.
* `allFlagsState` with an invalid context never calls its callback; before
  initialization it says that it returns nothing, and evaluates.
* `AttributeReference.unescape`: a name that begins with an escape is not unescaped.
* A custom attribute of a legacy user with a name that is taken for a string, such as `name`, is
  one in events whatever it was (`ContextFilter.ts:132`); `AttributesAssumption` excepts it.
* An entry that is not a string empties the whole list `privateAttributes`
  (`Configuration.ts:114`); `stream`, `sendEvents` that are there but undefined count as
  false (`Configuration.ts:102`), although LDOptions calls them true by default.
* The canonical key of a user with key `org:x` is that of the organisation `x`.
* TestData: `splice(indexOf(...))` cuts off all later data sources (`TestData.ts:75`), and
  the last one if it was closed before; a built flag shares its lists with its builder, so
  a later `variationForContext` changes stores in memory without an update.

## 8. What is not modelled

* AsyncStoreFacade (promises around callbacks), DiagnosticsManager (contents of events),
  LDClientNode and the platform packages (I/O; they are the environment of the models).
* Of LDClientImpl: `secureModeHash`, the answer of flush to the application, and `track`,
  which is an input of EventProcessor.
* In RedisCore, an upsert of an item that is neither deleted nor has data: the wrapper
  serializes what it writes, so there is none.
* What becomes of the update queue and of the caller when the replacer throws on an item
  (`PersistentDataStoreWrapper.ts:230`): the wrapper's items can be written.
* Single reads that no other step depends on: `initialized` of the databases, DynamoDB's
  `getAll`. A watcher's read that fails.
* The vendored client of EdgeKV (`sdk/akamai-edgekv/src/edgekv`), which is third-party
  code; the edge SDKs' wiring of options.
* Clocks of debug events: whether one is wanted is an input.
* What a regular expression matches, which time a string is as a date, the
  hash of buckets, JSON: functions of their arguments that say nothing of the rest, and
  constants of the models. Numbers in clauses are integers.
* Listeners and callbacks of the application that throw.
* Objects that contain themselves, logging, headers, wording.

## 9. Plan

Done: UpdateQueue → wrapper over it → DataSourceUpdates with the tracker → LruCache →
EventProcessor over EventSender and LruCache → client with its data sources, files and
the edge → the databases → big segments → evaluation with its data, contexts and test
data; proofs of every safety property.

Left: liveness, for which there is only the model checker, and the parts of section 8.
