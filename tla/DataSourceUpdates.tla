------------------------- MODULE DataSourceUpdates -------------------------
(***************************************************************************)
(* shared/sdk-server/src/data_sources/DataSourceUpdates.ts: the data       *)
(* source hands every change to init or upsert, which writes it to the     *)
(* feature store and tells the listeners which flags may evaluate          *)
(* differently.  To know what changed it reads the old data first; after   *)
(* the write a microtask updates the dependency tracker and sends events.  *)
(*                                                                         *)
(* With InMemoryFeatureStore a call reads and writes in one go (Async =    *)
(* FALSE).  With a persistent store the read is answered some time later,  *)
(* then the write is queued, and the queue applies writes in order (Async  *)
(* = TRUE; module PersistentDataStoreWrapper has the details).             *)
(*                                                                         *)
(* The data source is any that follows a service in which an item's        *)
(* version grows with every change: init brings a snapshot of the service, *)
(* upsert its current item, or, if Stale, one that it had earlier.         *)
(***************************************************************************)
EXTENDS Naturals, Sequences, FiniteSets

CONSTANTS Flag, Segment,   \* the keys of the two namespaces
          Async,           \* whether the store answers later
          Waits,           \* whether the data source awaits the callback of a call
                           \* before the next one (polling does, streaming does not)
          Stale,           \* whether upsert may bring an outdated item
          MaxVersion,      \* bound: changes of an item
          MaxCalls         \* bound: calls of init and upsert

Item == Flag \cup Segment

ASSUME UpdatesAssumption ==
  /\ Flag \cap Segment = {} /\ IsFiniteSet(Item)
  /\ {Async, Waits, Stale} \subseteq BOOLEAN
  /\ MaxVersion \in Nat /\ MaxCalls \in Nat

INSTANCE DependencyTracker

(* computeDependencies: a flag refers to its prerequisites and to the      *)
(* segments of its rules, a segment to segments only; a deleted item to    *)
(* nothing.  (Data in which an item refers to itself is left out.)         *)
Deps(i) == SUBSET ((IF i \in Flag THEN Item ELSE Segment) \ {i})

None == [version |-> 0, deleted |-> TRUE, deps |-> {}]

Values(i) == [version : 1..MaxVersion, deleted : {FALSE}, deps : Deps(i)]
             \cup [version : 1..MaxVersion, deleted : {TRUE}, deps : {{}}]

Value == {None} \cup UNION {Values(i) : i \in Item}

(* What get() and all() answer for a stored value: nothing if deleted.     *)
Visible(v) == IF v.deleted THEN None ELSE v

IsTombstone(v) == v.deleted /\ v # None

VARIABLES
  service,      \* [Item -> Value]: the data at the service
  past,         \* all <<item, value>> the service ever had
  store,        \* [Item -> Value]: the data in the feature store
  listening,    \* hasEventListeners()
  reads,        \* calls that wait for the old data
  writes,       \* calls whose write the store has queued, in order
  deferred,     \* microtasks: calls whose write is done, in order
  tracker,      \* this.dependencyTracker
  calls,        \* number of calls so far
  owed,         \* ghost: flags that changed and whose listeners were not told
  spurious      \* ghost: events were sent for a write that changed nothing; not
                \* counted are a repeated delete, since it finds no old item,
                \* and writes in memory, whose data changes later (SharedData)

vars == <<service, past, store, listening, reads, writes, deferred, tracker, calls, owed, spurious>>
envVars == <<service, past, listening, calls>>

Init ==
  /\ service = [i \in Item |-> None]
  /\ past = {}
  /\ store = [i \in Item |-> None]
  /\ listening \in BOOLEAN
  /\ reads = {} /\ writes = <<>> /\ deferred = <<>>
  /\ tracker = EmptyTracker
  /\ calls = 0
  /\ owed = {} /\ spurious = FALSE

-----------------------------------------------------------------------------
(* The environment.                                                        *)

ServiceChanges(i) ==
  /\ service[i].version < MaxVersion
  /\ \E v \in Values(i) :
       /\ v.version = service[i].version + 1
       /\ service' = [service EXCEPT ![i] = v]
       /\ past' = IF Stale THEN past \cup {<<i, v>>} ELSE past
  /\ UNCHANGED <<store, listening, reads, writes, deferred, tracker, calls, owed, spurious>>

AddListener ==
  /\ ~listening /\ listening' = TRUE
  /\ UNCHANGED <<service, past, store, reads, writes, deferred, tracker, calls, owed, spurious>>

-----------------------------------------------------------------------------
(* The write of a call reaches the store.                                  *)

(* Mutation: a deleted item is merged into the one that was there.         *)
WrittenMerged(c) ==
  IF c.op = "init" THEN c.data
  ELSE [i \in Item |-> IF c.data[i].version > store[i].version
                       THEN [c.data[i] EXCEPT !.deps = @ \cup store[i].deps] ELSE store[i]]

(* What the write leaves in the store: upsert refuses what is not newer.   *)
Written(c) ==
  IF c.op = "init" THEN c.data
  ELSE [i \in Item |-> IF c.data[i].version > store[i].version THEN c.data[i] ELSE store[i]]

(* The items that evaluation sees change, for the better or to nothing.    *)
Changed(new) == {i \in Item : Visible(new[i]) # Visible(store[i])}

(* The flags whose evaluation uses one of the items, in the given data.    *)
Dependents(data, items) ==
  ModifiedItems(Rebuild([i \in Item |-> data[i].deps]), items) \cap Flag

(* InMemoryFeatureStore keeps the object that init was called with and     *)
(* upsert changes it in place: the microtask of the last init sees that.   *)
SharedData(c) ==
  [n \in DOMAIN deferred |->
     IF /\ ~Async /\ c.op = "upsert" /\ deferred[n].op = "init"
        /\ \A m \in n + 1..Len(deferred) : deferred[m].op # "init"
     THEN [deferred[n] EXCEPT !.data = store'] ELSE deferred[n]]

Apply(c) ==
  /\ store' = Written(c)
  /\ deferred' = Append(SharedData(c),
       [c EXCEPT !.changed = (store' # store \/ \E i \in Item : IsTombstone(c.data[i]))])
  /\ owed' = IF c.check THEN owed \cup Dependents(store', Changed(store')) ELSE owed

(* init(allData): data has the items of the payload, None for the others.  *)
(* upsert(kind, data): data has one item, None for the others.             *)
Call(op, data) ==
  /\ calls < MaxCalls
  /\ Waits => reads = {} /\ writes = <<>> /\ deferred = <<>>
  /\ calls' = calls + 1
  /\ LET c == [id |-> calls, op |-> op, data |-> data, check |-> listening,
               old |-> [i \in Item |-> None], flagsRead |-> FALSE, changed |-> FALSE]
     IN IF Async
        THEN /\ IF c.check THEN reads' = reads \cup {c} /\ UNCHANGED writes
                           ELSE writes' = Append(writes, c) /\ UNCHANGED reads
             /\ UNCHANGED <<store, deferred, owed>>
        ELSE /\ Apply([c EXCEPT !.old = IF c.check THEN [i \in Item |-> Visible(store[i])] ELSE @])
             /\ UNCHANGED <<reads, writes>>
  /\ UNCHANGED <<service, past, listening, tracker, spurious>>

InitCall == Call("init", [i \in Item |-> Visible(service[i])])

UpsertCall(i) ==
  \E v \in {service[i]} \cup {p[2] : p \in {q \in past : q[1] = i}} :
    v # None /\ Call("upsert", [[j \in Item |-> None] EXCEPT ![i] = v])

(* The store answers a read: get() of the item, or all() of the flags and  *)
(* then all() of the segments; the call's write is queued when it has all. *)
ReadDone(c) ==
  LET asked == IF c.op = "upsert" THEN Item ELSE IF c.flagsRead THEN Segment ELSE Flag
      read  == [c EXCEPT !.old = [i \in Item |-> IF i \in asked THEN Visible(store[i]) ELSE c.old[i]],
                         !.flagsRead = TRUE]
  IN /\ IF c.op = "init" /\ ~c.flagsRead
        THEN reads' = (reads \ {c}) \cup {read} /\ UNCHANGED writes
        ELSE reads' = reads \ {c} /\ writes' = Append(writes, read)
     /\ UNCHANGED <<envVars, store, deferred, tracker, owed, spurious>>

WriteDone ==
  /\ writes # <<>>
  /\ writes' = Tail(writes)
  /\ Apply(Head(writes))
  /\ UNCHANGED <<envVars, reads, tracker, spurious>>

-----------------------------------------------------------------------------
(* The microtask.                                                          *)

(* Mutation: only the items of the new data are looked at.                 *)
ModifiedOfNewData(c) ==
  {i \in Item : c.data[i] # None /\ c.data[i].version > c.old[i].version}

(* Mutation: an item of the same version counts as modified.               *)
ModifiedIfSame(c) ==
  {i \in Item : /\ c.old[i] # None \/ c.data[i] # None
                /\ ~(c.old[i] # None /\ c.data[i] # None /\ c.data[i].version < c.old[i].version)
                /\ c.op = "upsert" => c.data[i] # None}

(* addIfModified: an item is modified unless it is there before and after  *)
(* and has not become newer.                                               *)
Modified(c) ==
  {i \in Item : /\ c.old[i] # None \/ c.data[i] # None
                /\ ~(/\ c.old[i] # None /\ c.data[i] # None
                     /\ c.data[i].version <= c.old[i].version)
                /\ c.op = "upsert" => c.data[i] # None}

(* Mutation: init does not reset the tracker.                              *)
TrackNoReset(c) ==
  IF c.op = "init"
  THEN Rebuild([i \in Item |-> IF c.data[i] # None THEN c.data[i].deps ELSE tracker.from[i]])
  ELSE LET i == CHOOSE j \in Item : c.data[j] # None
       IN UpdateDependenciesFrom(tracker, i, c.data[i].deps)

(* The callback of the write updates the references: of all items for an   *)
(* init, of the one item for an upsert, whether the store took it or not.  *)
Track(c) ==
  IF c.op = "init" THEN Rebuild([i \in Item |-> c.data[i].deps])
  ELSE LET i == CHOOSE j \in Item : c.data[j] # None
       IN UpdateDependenciesFrom(tracker, i, c.data[i].deps)

(* The tracker is brought up to date, and then the events are sent.        *)
RunDeferred ==
  /\ deferred # <<>>
  /\ deferred' = Tail(deferred)
  /\ LET c == Head(deferred)
         events == IF c.check THEN ModifiedItems(Track(c), Modified(c)) \cap Flag ELSE {}
     IN /\ tracker' = Track(c)
        /\ owed' = owed \ events
        /\ spurious' = (spurious \/ (Async /\ events # {} /\ ~c.changed))
  /\ UNCHANGED <<envVars, store, reads, writes>>

Next ==
  \/ \E i \in Item : ServiceChanges(i) \/ UpsertCall(i)
  \/ AddListener
  \/ InitCall
  \/ \E c \in reads : ReadDone(c)
  \/ WriteDone
  \/ RunDeferred

Spec == Init /\ [][Next]_vars

-----------------------------------------------------------------------------
DataSets == {d \in [Item -> Value] : \A i \in Item : d[i] \in Values(i) \cup {None}}

(* An init says something of every item, an upsert of the one it brings.   *)
Touches(c, i) == c.op = "init" \/ c.data[i] # None

Calls ==
  {c \in [id : Nat, op : {"init", "upsert"}, data : DataSets, check : BOOLEAN,
          old : [Item -> Value], flagsRead : BOOLEAN, changed : BOOLEAN] :
     c.op = "upsert" => \E i \in Item : \A j \in Item : Touches(c, j) <=> j = i}

TypeOK ==
  /\ service \in DataSets /\ store \in DataSets
  /\ past \subseteq Item \X Value /\ \A p \in past : p[2] \in Values(p[1])
  /\ listening \in BOOLEAN /\ spurious \in BOOLEAN
  /\ reads \subseteq Calls /\ writes \in Seq(Calls) /\ deferred \in Seq(Calls)
  /\ tracker \in Trackers
  /\ calls \in 0..MaxCalls
  /\ owed \subseteq Flag

Quiet == reads = {} /\ writes = <<>> /\ deferred = <<>>

(* The two maps of the tracker never disagree, whatever was updated.       *)
TrackerInverse == MapsInverse(tracker)

(* When all calls are done, the tracker knows the references of the data   *)
(* in the store.                                                           *)
TrackerMatchesStore == Quiet => \A i \in Item : tracker.from[i] = store[i].deps

(* Nobody is left untold: when all calls are done, an event was sent for   *)
(* every flag whose own data, prerequisites or segments, directly or       *)
(* through others, were changed by a call made with listeners.             *)
EveryChangeTold == Quiet => owed = {}

(* No write is queued for the store before that of an init called earlier  *)
(* ("to preserve order of operations of async requests"): init does not    *)
(* look at versions, so it would undo the write that overtook it.          *)
InitNotOvertaken ==
  \A c \in reads, n \in DOMAIN writes : c.op = "init" => writes[n].id < c.id

(* "Upsert the same thing twice. Should only be 1 event."  Over a store    *)
(* that answers later; see spurious.                                       *)
NoSpuriousEvents == ~spurious
=============================================================================
