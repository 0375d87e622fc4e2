---------------------- MODULE DependencyTrackerProofs ----------------------
(***************************************************************************)
(* Theorems about DataSourceUpdates and its dependency tracker, for any    *)
(* items and references: the tracker's two maps are inverse to each other  *)
(* and end up with the references of the stored data, everybody who is     *)
(* owed an event is told, and over a persistent store nobody else is.      *)
(***************************************************************************)
EXTENDS DataSourceUpdates, SequenceTheorems, FiniteSetTheorems, WellFoundedInduction, TLAPS

(* updateDependenciesFrom keeps the maps inverse, whatever the references  *)
(* were before.                                                            *)
LEMMA UpdateInverse ==
  ASSUME NEW t \in Trackers, MapsInverse(t), NEW item \in Item, NEW deps \in SUBSET Item
  PROVE  /\ UpdateDependenciesFrom(t, item, deps) \in Trackers
         /\ MapsInverse(UpdateDependenciesFrom(t, item, deps))
<1> DEFINE u == UpdateDependenciesFrom(t, item, deps)
<1>1. u \in Trackers
  BY DEF UpdateDependenciesFrom, Trackers
<1>2. ASSUME NEW i \in Item, NEW j \in Item
      PROVE  j \in u.to[i] <=> i \in u.from[j]
  <2>1. CASE j = item
    <3>1. u.from[j] = deps
      BY <2>1 DEF UpdateDependenciesFrom, Trackers
    <3>2. item \in u.to[i] <=> i \in deps
      BY DEF UpdateDependenciesFrom, Trackers, MapsInverse
    <3> QED BY <2>1, <3>1, <3>2
  <2>2. CASE j # item
    <3>1. u.from[j] = t.from[j]
      BY <2>2 DEF UpdateDependenciesFrom, Trackers
    <3>2. j \in u.to[i] <=> j \in t.to[i]
      BY <2>2 DEF UpdateDependenciesFrom
    <3> QED BY <3>1, <3>2 DEF MapsInverse
  <2> QED BY <2>1, <2>2
<1> QED BY <1>1, <1>2 DEF MapsInverse

(* reset() followed by updateDependenciesFrom for every item. *)
LEMMA RebuildInverse ==
  ASSUME NEW deps \in [Item -> SUBSET Item]
  PROVE  Rebuild(deps) \in Trackers /\ MapsInverse(Rebuild(deps))
  BY DEF Rebuild, Trackers, MapsInverse

-----------------------------------------------------------------------------
(* Typing.                                                                 *)

(* What a reader may see of the data is data.                              *)
LEMMA VisibleTyped ==
  ASSUME NEW d \in DataSets
  PROVE  /\ [i \in Item |-> Visible(d[i])] \in DataSets
         /\ \A i \in Item : d[i] \in Value /\ Visible(d[i]) \in Value
<1>1. \A i \in Item : d[i] \in Values(i) \cup {None}
  BY DEF DataSets
<1>2. \A i \in Item : Visible(d[i]) \in Values(i) \cup {None}
  BY <1>1 DEF Visible
<1>3. \A i \in Item : Values(i) \cup {None} \subseteq Value
  BY DEF Value
<1> QED BY <1>1, <1>2, <1>3 DEF DataSets

(* What a call leaves in the store is data.                                *)
LEMMA WrittenTyped ==
  ASSUME NEW c \in Calls, store \in DataSets
  PROVE  Written(c) \in DataSets
  BY DEF Written, DataSets, Calls

(* What an item depends on are items.                                      *)
LEMMA DepsTyped ==
  ASSUME NEW d \in DataSets, NEW i \in Item
  PROVE  d[i].deps \in SUBSET Item
<1>1. d[i] \in Values(i) \cup {None}
  BY DEF DataSets
<1>2. ASSUME NEW v \in Values(i)
      PROVE  v.deps \in SUBSET Item
  <2>1. v.deps \in Deps(i) \cup {{}}
    BY DEF Values
  <2> QED BY <2>1 DEF Deps, Item
<1>3. None.deps \in SUBSET Item
  BY DEF None
<1> QED BY <1>1, <1>2, <1>3

(* The tracker follows a call: for what it touches, the new dependencies;  *)
(* and its two maps stay inverse.                                          *)
LEMMA TrackTyped ==
  ASSUME NEW c \in Calls, tracker \in Trackers, MapsInverse(tracker)
  PROVE  /\ Track(c) \in Trackers /\ MapsInverse(Track(c))
         /\ \A i \in Item : Track(c).from[i] = IF Touches(c, i) THEN c.data[i].deps ELSE tracker.from[i]
<1>1. \A i \in Item : c.data[i].deps \in SUBSET Item
  BY DepsTyped DEF Calls
<1>2. CASE c.op = "init"
  <2>1. Track(c) = Rebuild([i \in Item |-> c.data[i].deps])
    BY <1>2 DEF Track
  <2> QED BY <1>1, <1>2, <2>1, RebuildInverse DEF Rebuild, Touches
<1>3. CASE c.op = "upsert"
  <2>1. PICK i \in Item : \A j \in Item : Touches(c, j) <=> j = i
    BY <1>3 DEF Calls
  <2>2. \A j \in Item : c.data[j] # None <=> j = i
    BY <1>3, <2>1 DEF Touches
  <2>3. (CHOOSE j \in Item : c.data[j] # None) = i
    BY <2>2
  <2>4. Track(c) = UpdateDependenciesFrom(tracker, i, c.data[i].deps)
    BY <1>3, <2>3 DEF Track
  <2>5. \A j \in Item : Track(c).from[j] = IF j = i THEN c.data[i].deps ELSE tracker.from[j]
    BY <1>1, <2>4 DEF UpdateDependenciesFrom, Trackers
  <2> QED BY <1>1, <2>1, <2>4, <2>5, UpdateInverse
<1> QED BY <1>2, <1>3 DEF Calls

(* An init with sorted data is a call.                                     *)
LEMMA NewDataTyped ==
  ASSUME NEW c \in Calls, c.op = "init", NEW d \in DataSets
  PROVE  /\ [c EXCEPT !.data = d] \in Calls
         /\ [c EXCEPT !.data = d].op = "init"
         /\ [c EXCEPT !.data = d].data = d
  BY DEF Calls

(* The microtasks keep their order and their types when an upsert changes  *)
(* the data of the last init under its hands.                              *)
LEMMA SharedTyped ==
  ASSUME NEW c, deferred \in Seq(Calls), NEW d \in DataSets, store' = d
  PROVE  /\ SharedData(c) \in Seq(Calls)
         /\ Len(SharedData(c)) = Len(deferred)
         /\ \A n \in 1..Len(deferred) :
              \/ SharedData(c)[n] = deferred[n]
              \/ /\ ~Async /\ c.op = "upsert" /\ deferred[n].op = "init"
                 /\ SharedData(c)[n].op = "init" /\ SharedData(c)[n].data = d
<1> DEFINE changes(n) == /\ ~Async /\ c.op = "upsert" /\ deferred[n].op = "init"
                         /\ \A m \in n + 1..Len(deferred) : deferred[m].op # "init"
           new(n) == [deferred[n] EXCEPT !.data = d]
<1>1. Len(deferred) \in Nat /\ DOMAIN deferred = 1..Len(deferred)
      /\ \A n \in 1..Len(deferred) : deferred[n] \in Calls
  BY LenProperties
<1>2. SharedData(c) = [n \in 1..Len(deferred) |-> IF changes(n) THEN new(n) ELSE deferred[n]]
  BY <1>1, Zenon DEF SharedData
<1>3. \A n \in 1..Len(deferred) : changes(n) => new(n) \in Calls /\ new(n).op = "init" /\ new(n).data = d
  BY <1>1, NewDataTyped
<1> HIDE DEF changes, new
<1>4. \A n \in 1..Len(deferred) :
        /\ SharedData(c)[n] = IF changes(n) THEN new(n) ELSE deferred[n]
        /\ SharedData(c)[n] \in Calls
  BY <1>1, <1>2, <1>3
<1>5. SharedData(c) \in [1..Len(deferred) -> Calls]
  BY <1>1, <1>2, <1>4
<1>6. SharedData(c) \in Seq(Calls)
  BY <1>1, <1>5, SeqDef
<1>7. Len(SharedData(c)) = Len(deferred)
  BY <1>1, <1>5, <1>6, LenProperties
<1>8. \A n \in 1..Len(deferred) : changes(n) => ~Async /\ c.op = "upsert" /\ deferred[n].op = "init"
  BY DEF changes
<1> QED BY <1>3, <1>4, <1>6, <1>7, <1>8
-----------------------------------------------------------------------------
(* The inductive invariant of the first theorem.                           *)

TypedInverse == TypeOK /\ TrackerInverse

(* An empty tracker is its own inverse.                                    *)
LEMMA InitTyped == Init => TypedInverse
<1> SUFFICES ASSUME Init PROVE TypedInverse
  OBVIOUS
<1>1. [i \in Item |-> None] \in DataSets
  BY DEF DataSets, Value
<1>2. EmptyTracker \in Trackers /\ MapsInverse(EmptyTracker)
  BY DEF EmptyTracker, Trackers, MapsInverse
<1>3. MaxCalls \in Nat
  BY UpdatesAssumption
<1>4. <<>> \in Seq(Calls)
  BY EmptySeq
<1>5. TypeOK
  <2>1. service \in DataSets /\ store \in DataSets /\ tracker \in Trackers /\ calls \in 0..MaxCalls
    BY <1>1, <1>2, <1>3 DEF Init
  <2>2. writes \in Seq(Calls) /\ deferred \in Seq(Calls)
    BY <1>4 DEF Init
  <2> QED BY <2>1, <2>2 DEF Init, TypeOK
<1> QED BY <1>2, <1>5 DEF Init, TypedInverse, TrackerInverse

(* A write that reaches the store. *)
LEMMA ApplyTyped ==
  ASSUME TypedInverse, NEW c \in Calls, Apply(c)
  PROVE  store' \in DataSets /\ deferred' \in Seq(Calls) /\ owed' \subseteq Flag
<1>1. store' \in DataSets
  BY WrittenTyped DEF Apply, TypedInverse, TypeOK
<1>2. deferred' \in Seq(Calls)
  <2> DEFINE ch == (store' # store \/ \E i \in Item : IsTombstone(c.data[i]))
  <2>1. ch \in BOOLEAN
    OBVIOUS
  <2>2. ASSUME NEW b \in BOOLEAN
        PROVE  [c EXCEPT !.changed = b] \in Calls
    BY DEF Calls, Touches
  <2>3. [c EXCEPT !.changed = ch] \in Calls
    BY <2>1, <2>2
  <2>4. SharedData(c) \in Seq(Calls)
    BY <1>1, SharedTyped DEF TypedInverse, TypeOK
  <2>5. deferred' = Append(SharedData(c), [c EXCEPT !.changed = ch])
    BY Zenon DEF Apply
  <2> HIDE DEF ch
  <2> QED BY <2>3, <2>4, <2>5, AppendProperties
<1>3. owed' \subseteq Flag
  BY DEF Apply, TypedInverse, TypeOK, Dependents
<1> QED BY <1>1, <1>2, <1>3

(* A call begins, with a read of the old data or with its write.           *)
LEMMA CallTyped ==
  ASSUME TypedInverse, NEW op \in {"init", "upsert"}, NEW data \in DataSets, Call(op, data),
         op = "upsert" => \E i \in Item : \A j \in Item : data[j] # None <=> j = i
  PROVE  TypedInverse'
<1> DEFINE c == [id |-> calls, op |-> op, data |-> data, check |-> listening,
                 old |-> [i \in Item |-> None], flagsRead |-> FALSE, changed |-> FALSE]
           d == [c EXCEPT !.old = IF c.check THEN [i \in Item |-> Visible(store[i])] ELSE @]
<1>1. calls \in Nat /\ calls + 1 \in 0..MaxCalls /\ listening \in BOOLEAN
  BY UpdatesAssumption DEF Call, TypedInverse, TypeOK
<1>2. [i \in Item |-> None] \in [Item -> Value] /\ [i \in Item |-> Visible(store[i])] \in [Item -> Value]
  BY VisibleTyped DEF Value, TypedInverse, TypeOK
<1>3. c \in Calls
  BY <1>1, <1>2 DEF Calls, Touches
<1>4. d \in Calls
  BY <1>1, <1>2 DEF Calls, Touches
<1>5. calls' = calls + 1 /\ UNCHANGED <<service, past, listening, tracker, spurious>>
      /\ \/ reads' = reads \cup {c} /\ UNCHANGED <<writes, store, deferred, owed>>
         \/ writes' = Append(writes, c) /\ UNCHANGED <<reads, store, deferred, owed>>
         \/ Apply(d) /\ UNCHANGED <<reads, writes>>
  BY DEF Call
<1> HIDE DEF c, d
<1>6. CASE reads' = reads \cup {c} /\ UNCHANGED <<writes, store, deferred, owed>>
  BY <1>1, <1>3, <1>5, <1>6 DEF TypedInverse, TypeOK, TrackerInverse
<1>7. CASE writes' = Append(writes, c) /\ UNCHANGED <<reads, store, deferred, owed>>
  BY <1>1, <1>3, <1>5, <1>7, AppendProperties DEF TypedInverse, TypeOK, TrackerInverse
<1>8. CASE Apply(d) /\ UNCHANGED <<reads, writes>>
  BY <1>1, <1>4, <1>5, <1>8, ApplyTyped DEF TypedInverse, TypeOK, TrackerInverse
<1> QED BY <1>5, <1>6, <1>7, <1>8

(* A read of old data is answered.                                         *)
LEMMA ReadDoneTyped ==
  ASSUME TypedInverse, NEW c \in reads, ReadDone(c)
  PROVE  TypedInverse'
<1>1. PICK old \in [Item -> Value] :
        LET read == [c EXCEPT !.old = old, !.flagsRead = TRUE]
        IN /\ \/ reads' = (reads \ {c}) \cup {read} /\ UNCHANGED writes
              \/ reads' = reads \ {c} /\ writes' = Append(writes, read)
           /\ UNCHANGED <<envVars, store, deferred, tracker, owed, spurious>>
  <2> DEFINE asked == IF c.op = "upsert" THEN Item ELSE IF c.flagsRead THEN Segment ELSE Flag
             new == [i \in Item |-> IF i \in asked THEN Visible(store[i]) ELSE c.old[i]]
  <2>1. new \in [Item -> Value]
    <3>1. \A i \in Item : Visible(store[i]) \in Value
      BY VisibleTyped DEF TypedInverse, TypeOK
    <3>2. c.old \in [Item -> Value]
      BY DEF TypedInverse, TypeOK, Calls
    <3> QED BY <3>1, <3>2
  <2> WITNESS new \in [Item -> Value]
  <2> QED BY Zenon DEF ReadDone
<1>2. [c EXCEPT !.old = old, !.flagsRead = TRUE] \in Calls
  BY DEF TypedInverse, TypeOK, Calls, Touches
<1>3. reads' \subseteq Calls /\ writes' \in Seq(Calls)
  <2> DEFINE read == [c EXCEPT !.old = old, !.flagsRead = TRUE]
  <2>1. \/ reads' = (reads \ {c}) \cup {read} /\ writes' = writes
        \/ reads' = reads \ {c} /\ writes' = Append(writes, read)
    BY <1>1
  <2>2. read \in Calls
    BY <1>2
  <2> HIDE DEF read
  <2>3. reads \subseteq Calls /\ writes \in Seq(Calls)
    BY DEF TypedInverse, TypeOK
  <2>4. Append(writes, read) \in Seq(Calls)
    BY <2>2, <2>3, AppendProperties
  <2> QED BY <2>1, <2>2, <2>3, <2>4
<1>4. UNCHANGED <<envVars, store, deferred, tracker, owed, spurious>>
  BY <1>1
<1> QED BY <1>3, <1>4 DEF TypedInverse, TypeOK, TrackerInverse, envVars

(* The first element of a sequence of calls, and the others. *)
LEMMA HeadTyped ==
  ASSUME NEW s \in Seq(Calls), s # <<>>
  PROVE  Head(s) \in Calls /\ Tail(s) \in Seq(Calls)
  BY HeadTailProperties

(* The store has written, and the tracker and the listeners follow.        *)
LEMMA WriteDoneTyped ==
  ASSUME TypedInverse, WriteDone
  PROVE  TypedInverse'
<1>1. Head(writes) \in Calls /\ Tail(writes) \in Seq(Calls)
  BY HeadTyped DEF WriteDone, TypedInverse, TypeOK
<1>2. store' \in DataSets /\ deferred' \in Seq(Calls) /\ owed' \subseteq Flag
  BY <1>1, ApplyTyped DEF WriteDone
<1> QED BY <1>1, <1>2 DEF WriteDone, TypedInverse, TypeOK, TrackerInverse, envVars

(* A deferred callback runs.                                               *)
LEMMA RunDeferredTyped ==
  ASSUME TypedInverse, RunDeferred
  PROVE  TypedInverse'
<1>1. Head(deferred) \in Calls /\ Tail(deferred) \in Seq(Calls)
  BY HeadTyped DEF RunDeferred, TypedInverse, TypeOK
<1>2. tracker' \in Trackers /\ MapsInverse(tracker')
  BY <1>1, TrackTyped DEF RunDeferred, TypedInverse, TypeOK, TrackerInverse
<1>3. spurious' \in BOOLEAN /\ owed' \subseteq Flag
  BY DEF RunDeferred, TypedInverse, TypeOK
<1> QED BY <1>1, <1>2, <1>3 DEF RunDeferred, TypedInverse, TypeOK, TrackerInverse, envVars

(* An item changes at the service.                                         *)
LEMMA ServiceChangesTyped ==
  ASSUME TypedInverse, NEW i \in Item, ServiceChanges(i)
  PROVE  TypedInverse'
<1>1. PICK v \in Values(i) : /\ service' = [service EXCEPT ![i] = v]
                             /\ past' = IF Stale THEN past \cup {<<i, v>>} ELSE past
  BY DEF ServiceChanges
<1>2. Values(i) \subseteq Value
  BY DEF Value
<1>3. service' \in DataSets
  BY <1>1, <1>2 DEF TypedInverse, TypeOK, DataSets
<1>4. past' \subseteq Item \X Value /\ \A p \in past' : p[2] \in Values(p[1])
  BY <1>1, <1>2 DEF TypedInverse, TypeOK
<1> QED BY <1>3, <1>4 DEF ServiceChanges, TypedInverse, TypeOK, TrackerInverse

(* The data source calls init.                                             *)
LEMMA InitCallTyped ==
  ASSUME TypedInverse, InitCall
  PROVE  TypedInverse'
<1>1. [i \in Item |-> Visible(service[i])] \in DataSets
  BY VisibleTyped DEF TypedInverse, TypeOK
<1> QED BY <1>1, CallTyped DEF InitCall

(* What upsert may bring. *)
LEMMA UpsertValue ==
  ASSUME TypedInverse, NEW i \in Item, UpsertCall(i)
  PROVE  \E v \in Values(i) :
           /\ v # None
           /\ v = service[i] \/ <<i, v>> \in past
           /\ LET data == [[j \in Item |-> None] EXCEPT ![i] = v]
              IN data \in DataSets /\ Call("upsert", data) /\ \A j \in Item : data[j] # None <=> j = i
<1>1. PICK v \in {service[i]} \cup {p[2] : p \in {q \in past : q[1] = i}} :
        v # None /\ Call("upsert", [[j \in Item |-> None] EXCEPT ![i] = v])
  BY DEF UpsertCall
<1>2. v \in Values(i) /\ (v = service[i] \/ <<i, v>> \in past)
  BY <1>1 DEF TypedInverse, TypeOK, DataSets
<1>3. [[j \in Item |-> None] EXCEPT ![i] = v] \in DataSets
  BY <1>2 DEF DataSets, Value
<1> QED BY <1>1, <1>2, <1>3

(* The data source calls upsert for an item.                               *)
LEMMA UpsertCallTyped ==
  ASSUME TypedInverse, NEW i \in Item, UpsertCall(i)
  PROVE  TypedInverse'
  BY UpsertValue, CallTyped

(* Types and the inverse of the maps are inductive.                        *)
LEMMA StepTyped == TypedInverse /\ [Next]_vars => TypedInverse'
<1> SUFFICES ASSUME TypedInverse, [Next]_vars PROVE TypedInverse'
  OBVIOUS
<1>1. CASE AddListener
  BY <1>1 DEF AddListener, TypedInverse, TypeOK, TrackerInverse
<1>2. CASE UNCHANGED vars
  BY <1>2 DEF vars, TypedInverse, TypeOK, TrackerInverse
<1> QED BY <1>1, <1>2, ServiceChangesTyped, UpsertCallTyped, InitCallTyped, ReadDoneTyped, WriteDoneTyped, RunDeferredTyped DEF Next

(* The two maps of the tracker, from an item to what it needs and back,    *)
(* always say the same.                                                    *)
THEOREM TypedInverseEver == Spec => []TypedInverse
  BY InitTyped, StepTyped, PTL DEF Spec

(* The variables keep their types: what is in flight is always data of the *)
(* service, and an upsert always brings exactly one item.                  *)
THEOREM TypeCorrect == Spec => []TypeOK
<1>1. TypedInverse => TypeOK
  BY DEF TypedInverse
<1> QED BY <1>1, TypedInverseEver, PTL

(* The two maps of the dependency tracker are inverse to each other.       *)
THEOREM TrackerInverseEver == Spec => []TrackerInverse
<1>1. TypedInverse => TrackerInverse
  BY DEF TypedInverse
<1> QED BY <1>1, TypedInverseEver, PTL

-----------------------------------------------------------------------------
(***************************************************************************)
(* The second theorem.  Suppose the data source brings the current items,  *)
(* and either the store is in memory or every call is awaited.  Then the   *)
(* tracker knows the references of the data in the store as soon as all    *)
(* calls are done, however many there were.                                *)
(*                                                                         *)
(* The invariant says of every item: the last of the waiting microtasks    *)
(* that touch it brings the references that it has in the store; if there  *)
(* is none, the tracker has them already.  An upsert that the store        *)
(* refuses does no harm because it brings the very item that is there.     *)
(***************************************************************************)
Friendly == ~Stale /\ (Async => Waits)

OlderOrSame(v, w) == v.version < w.version \/ v = w

(* No item of the store, or of an init under way, is ahead of the service; *)
(* no upsert under way is behind the store.                                *)
Fresh ==
  /\ past = {}
  /\ \A i \in Item : OlderOrSame(store[i], service[i])
  /\ \A c \in reads \cup {writes[n] : n \in DOMAIN writes} : \A i \in Item :
       Touches(c, i) => /\ OlderOrSame(c.data[i], service[i])
                        /\ c.op = "upsert" => OlderOrSame(store[i], c.data[i])

(* At most one call is under way, or, in memory, none waits for the store. *)
OneAtATime ==
  /\ ~Async => reads = {} /\ writes = <<>>
  /\ Async => /\ reads = {} \/ writes = <<>>
              /\ \A c, d \in reads : c = d
              /\ Len(writes) <= 1
              /\ reads # {} \/ writes # <<>> => deferred = <<>>

LastTold ==
  \A i \in Item :
    \/ /\ \A n \in DOMAIN deferred : ~Touches(deferred[n], i)
       /\ tracker.from[i] = store[i].deps
    \/ \E n \in DOMAIN deferred :
         /\ Touches(deferred[n], i)
         /\ deferred[n].data[i].deps = store[i].deps
         /\ \A m \in n + 1..Len(deferred) : ~Touches(deferred[m], i)

Followed == TypedInverse /\ Fresh /\ OneAtATime /\ LastTold

(* An empty store and an empty tracker agree.                              *)
LEMMA InitFollowed == Init => Followed
<1> SUFFICES ASSUME Init PROVE Followed
  OBVIOUS
<1>1. Fresh
  BY EmptySeq DEF Init, Fresh, OlderOrSame
<1>2. OneAtATime
  BY EmptySeq DEF Init, OneAtATime
<1>3. LastTold
  BY EmptySeq DEF Init, LastTold, EmptyTracker, None
<1> QED BY <1>1, <1>2, <1>3, InitTyped DEF Followed

(* Every item of the service is of its own versions, which only grow. *)
LEMMA Versions ==
  ASSUME NEW d \in DataSets, NEW i \in Item
  PROVE  /\ d[i].version \in Nat
         /\ d[i].version = 0 <=> d[i] = None
         /\ OlderOrSame(Visible(d[i]), d[i])
<1>1. d[i] \in Values(i) \cup {None}
  BY DEF DataSets
<1>2. ASSUME NEW v \in Values(i) PROVE v.version \in Nat /\ v.version # 0
  <2>1. v.version \in 1..MaxVersion
    BY DEF Values
  <2> QED BY <2>1, UpdatesAssumption
<1>3. None.version = 0
  BY DEF None
<1> QED BY <1>1, <1>2, <1>3 DEF OlderOrSame, Visible

(* What the write of a call leaves in the store: the data of the call for  *)
(* the items it touches, unless they are there already.                    *)
LEMMA WrittenFollows ==
  ASSUME TypedInverse, NEW c \in Calls, NEW i \in Item,
         c.op = "upsert" /\ Touches(c, i) => OlderOrSame(store[i], c.data[i])
  PROVE  Written(c)[i] = IF Touches(c, i) THEN c.data[i] ELSE store[i]
<1>1. CASE c.op = "init"
  BY <1>1 DEF Written, Touches
<1>2. CASE c.op = "upsert"
  <2>1. c.data \in DataSets /\ store \in DataSets
    BY DEF TypedInverse, TypeOK, Calls
  <2>2. Written(c)[i] = IF c.data[i].version > store[i].version THEN c.data[i] ELSE store[i]
    BY <1>2 DEF Written
  <2>3. CASE Touches(c, i)
    BY <1>2, <2>1, <2>2, <2>3, Versions DEF OlderOrSame
  <2>4. CASE ~Touches(c, i)
    BY <2>1, <2>2, <2>4, Versions DEF Touches
  <2> QED BY <2>3, <2>4
<1> QED BY <1>1, <1>2 DEF Calls

(* The microtask of a written call is the last word on what it touches.    *)
LEMMA ApplyTold ==
  ASSUME TypedInverse, LastTold, NEW c \in Calls, Apply(c), tracker' = tracker,
         \A i \in Item : c.op = "upsert" /\ Touches(c, i) => OlderOrSame(store[i], c.data[i])
  PROVE  LastTold'
<1>1. \A i \in Item : store'[i] = IF Touches(c, i) THEN c.data[i] ELSE store[i]
  BY WrittenFollows DEF Apply
<1>2. store' \in DataSets /\ deferred' \in Seq(Calls)
  BY ApplyTyped
<1> DEFINE s == SharedData(c)
<1>3. /\ s \in Seq(Calls) /\ Len(s) = Len(deferred) /\ Len(s) \in Nat
      /\ \A n \in 1..Len(s) : /\ s[n] = deferred[n] \/ (s[n].op = "init" /\ deferred[n].op = "init" /\ s[n].data = store')
                              /\ \A i \in Item : Touches(s[n], i) <=> Touches(deferred[n], i)
  BY <1>2, SharedTyped, LenProperties DEF TypedInverse, TypeOK, Touches
<1>4. PICK b : deferred' = Append(s, [c EXCEPT !.changed = b])
  BY Zenon DEF Apply
<1> DEFINE last == [c EXCEPT !.changed = b]
<1>5. last.op = c.op /\ last.data = c.data
  BY DEF Calls
<1> HIDE DEF s, last
<1>6. /\ Len(deferred') = Len(s) + 1
      /\ \A n \in 1..Len(s) : deferred'[n] = s[n]
      /\ deferred'[Len(s) + 1] = last
      /\ DOMAIN deferred' = 1..Len(s) + 1 /\ DOMAIN deferred = 1..Len(s)
  <2>1. deferred' = Append(s, last)
    BY <1>4 DEF last
  <2> QED BY <1>2, <1>3, <2>1, AppendProperties, LenProperties DEF TypedInverse, TypeOK
<1>7. SUFFICES ASSUME NEW i \in Item
               PROVE  \/ /\ \A n \in 1..Len(s) + 1 : ~Touches(deferred'[n], i)
                         /\ tracker.from[i] = store'[i].deps
                      \/ \E n \in 1..Len(s) + 1 :
                           /\ Touches(deferred'[n], i)
                           /\ deferred'[n].data[i].deps = store'[i].deps
                           /\ \A m \in n + 1..Len(s) + 1 : ~Touches(deferred'[m], i)
  BY <1>6 DEF LastTold
<1>8. CASE Touches(c, i)
  <2>1. Touches(last, i) /\ last.data[i].deps = store'[i].deps
    BY <1>1, <1>5, <1>8 DEF Touches
  <2> QED BY <1>3, <1>6, <2>1
<1>9. CASE ~Touches(c, i)
  <2>1. ~Touches(last, i) /\ store'[i] = store[i]
    BY <1>1, <1>5, <1>9 DEF Touches
  <2>2. CASE \A n \in 1..Len(s) : ~Touches(deferred[n], i)
    <3>1. tracker.from[i] = store[i].deps
      BY <1>6, <2>2 DEF LastTold
    <3>2. \A n \in 1..Len(s) : ~Touches(deferred'[n], i)
      BY <1>3, <1>6, <2>2
    <3> QED BY <1>3, <1>6, <2>1, <3>1, <3>2
  <2>3. CASE ~ \A n \in 1..Len(s) : ~Touches(deferred[n], i)
    <3>1. PICK n \in 1..Len(s) : /\ Touches(deferred[n], i)
                                 /\ deferred[n].data[i].deps = store[i].deps
                                 /\ \A m \in n + 1..Len(s) : ~Touches(deferred[m], i)
      BY <1>3, <1>6, <2>3 DEF LastTold
    <3>2. Touches(deferred'[n], i) /\ deferred'[n].data[i].deps = store'[i].deps
      BY <1>3, <1>6, <2>1, <3>1
    <3>3. \A m \in n + 1..Len(s) + 1 : ~Touches(deferred'[m], i)
      <4> TAKE m \in n + 1..Len(s) + 1
      <4>1. m \in 1..Len(s) \/ m = Len(s) + 1
        BY <1>3
      <4>2. m \in 1..Len(s) => m \in n + 1..Len(s)
        BY <1>3
      <4> QED BY <1>3, <1>6, <2>1, <3>1, <4>1, <4>2
    <3> QED BY <1>3, <3>2, <3>3
  <2> QED BY <2>2, <2>3
<1> QED BY <1>8, <1>9

(* A call of a friendly data source. *)
LEMMA CallFollowed ==
  ASSUME Friendly, Followed, NEW op \in {"init", "upsert"}, NEW data \in DataSets, Call(op, data),
         op = "upsert" => \E i \in Item : \A j \in Item : data[j] # None <=> j = i,
         \A i \in Item : op = "init" \/ data[i] # None =>
           /\ OlderOrSame(data[i], service[i])
           /\ op = "upsert" => data[i] = service[i]
  PROVE  Followed'
<1> DEFINE c == [id |-> calls, op |-> op, data |-> data, check |-> listening,
                 old |-> [i \in Item |-> None], flagsRead |-> FALSE, changed |-> FALSE]
           d == [c EXCEPT !.old = IF c.check THEN [i \in Item |-> Visible(store[i])] ELSE @]
<1>1. TypedInverse'
  BY CallTyped DEF Followed
<1>2. UNCHANGED <<service, past, tracker>>
      /\ \/ Async /\ reads' = reads \cup {c} /\ UNCHANGED <<writes, store, deferred>>
         \/ Async /\ writes' = Append(writes, c) /\ UNCHANGED <<reads, store, deferred>>
         \/ ~Async /\ Apply(d) /\ UNCHANGED <<reads, writes>>
  BY DEF Call
<1>3. Async => reads = {} /\ writes = <<>> /\ deferred = <<>>
  BY DEF Call, Friendly
<1>4. c.op = op /\ c.data = data /\ d.op = op /\ d.data = data
  OBVIOUS
<1>5. d \in Calls
  <2>1. calls \in Nat /\ listening \in BOOLEAN
    BY UpdatesAssumption DEF Followed, TypedInverse, TypeOK
  <2>2. [i \in Item |-> None] \in [Item -> Value] /\ [i \in Item |-> Visible(store[i])] \in [Item -> Value]
    BY VisibleTyped DEF Value, Followed, TypedInverse, TypeOK
  <2> QED BY <2>1, <2>2 DEF Calls, Touches
<1> HIDE DEF c, d
<1>6. \A i \in Item : Touches(c, i) \/ Touches(d, i) =>
        /\ OlderOrSame(data[i], service[i])
        /\ op = "upsert" => OlderOrSame(store[i], data[i])
  BY <1>4 DEF Touches, Followed, Fresh
<1>7. CASE Async /\ reads' = reads \cup {c} /\ UNCHANGED <<writes, store, deferred>>
  <2>1. reads' = {c} /\ writes' = <<>> /\ deferred' = <<>>
    BY <1>3, <1>7
  <2>2. Fresh'
    BY <1>2, <1>4, <1>6, <1>7, <2>1, EmptySeq DEF Followed, Fresh
  <2>3. OneAtATime'
    BY <1>7, <2>1, EmptySeq DEF OneAtATime
  <2>4. LastTold'
    BY <1>2, <1>7 DEF Followed, LastTold
  <2> QED BY <1>1, <2>2, <2>3, <2>4 DEF Followed
<1>8. CASE Async /\ writes' = Append(writes, c) /\ UNCHANGED <<reads, store, deferred>>
  <2>1. reads' = {} /\ deferred' = <<>> /\ Len(writes') = 1 /\ DOMAIN writes' = 1..1 /\ writes'[1] = c
    BY <1>3, <1>8
  <2>2. Fresh'
    BY <1>2, <1>4, <1>6, <1>8, <2>1 DEF Followed, Fresh
  <2>3. OneAtATime'
    BY <1>8, <2>1 DEF OneAtATime
  <2>4. LastTold'
    BY <1>2, <1>8 DEF Followed, LastTold
  <2> QED BY <1>1, <2>2, <2>3, <2>4 DEF Followed
<1>9. CASE ~Async /\ Apply(d) /\ UNCHANGED <<reads, writes>>
  <2>1. LastTold'
    BY <1>2, <1>4, <1>5, <1>6, <1>9, ApplyTold DEF Followed
  <2>2. reads = {} /\ writes = <<>>
    BY <1>9 DEF Followed, OneAtATime
  <2>3. \A i \in Item : store'[i] = IF Touches(d, i) THEN data[i] ELSE store[i]
    BY <1>4, <1>5, <1>6, <1>9, WrittenFollows DEF Apply, Followed
  <2>4. Fresh'
    BY <1>2, <1>6, <1>9, <2>2, <2>3, EmptySeq DEF Followed, Fresh
  <2>5. OneAtATime'
    BY <1>9, <2>2 DEF OneAtATime
  <2> QED BY <1>1, <2>1, <2>4, <2>5 DEF Followed
<1> QED BY <1>2, <1>7, <1>8, <1>9

(* The data source calls init, with nothing else under way.                *)
LEMMA InitCallFollowed ==
  ASSUME Friendly, Followed, InitCall
  PROVE  Followed'
<1> DEFINE data == [i \in Item |-> Visible(service[i])]
<1>1. data \in DataSets
  BY VisibleTyped DEF Followed, TypedInverse, TypeOK
<1>2. \A i \in Item : OlderOrSame(data[i], service[i])
  BY Versions DEF Followed, TypedInverse, TypeOK
<1>3. Call("init", data)
  BY DEF InitCall
<1> HIDE DEF data
<1> QED BY <1>1, <1>2, <1>3, CallFollowed

(* The data source calls upsert, with nothing else under way.              *)
LEMMA UpsertCallFollowed ==
  ASSUME Friendly, Followed, NEW i \in Item, UpsertCall(i)
  PROVE  Followed'
<1>1. PICK v \in Values(i) :
        /\ v = service[i] \/ <<i, v>> \in past
        /\ LET data == [[j \in Item |-> None] EXCEPT ![i] = v]
           IN data \in DataSets /\ Call("upsert", data) /\ \A j \in Item : data[j] # None <=> j = i
  BY UpsertValue DEF Followed
<1> DEFINE data == [[j \in Item |-> None] EXCEPT ![i] = v]
<1>2. v = service[i] /\ data[i] = v
  BY <1>1 DEF Followed, Fresh
<1>3. data \in DataSets /\ Call("upsert", data) /\ \A j \in Item : data[j] # None <=> j = i
  BY <1>1
<1> HIDE DEF data
<1>4. \A j \in Item : data[j] # None => data[j] = service[j]
  BY <1>2, <1>3
<1> QED BY <1>3, <1>4, CallFollowed DEF OlderOrSame

(* The service changes nothing in the store or the tracker.                *)
LEMMA ServiceChangesFollowed ==
  ASSUME Friendly, Followed, NEW i \in Item, ServiceChanges(i)
  PROVE  Followed'
<1>1. TypedInverse'
  BY ServiceChangesTyped DEF Followed
<1>2. PICK v \in Values(i) : v.version = service[i].version + 1 /\ service' = [service EXCEPT ![i] = v]
  BY DEF ServiceChanges
<1>3. ASSUME NEW j \in Item, NEW w, w.version \in Nat, OlderOrSame(w, service[j])
      PROVE  OlderOrSame(w, service'[j])
  <2>1. service \in DataSets /\ service[j].version \in Nat
    BY Versions DEF Followed, TypedInverse, TypeOK
  <2> QED BY <1>2, <1>3, <2>1 DEF OlderOrSame, DataSets
<1>4. UNCHANGED <<store, reads, writes, deferred, tracker>> /\ past' = {}
  BY DEF ServiceChanges, Friendly, Followed, Fresh
<1>5. Fresh'
  <2>1. \A j \in Item : OlderOrSame(store'[j], service'[j])
    BY <1>3, <1>4, Versions DEF Followed, Fresh, TypedInverse, TypeOK
  <2>2. ASSUME NEW c \in reads \cup {writes[n] : n \in DOMAIN writes}, NEW j \in Item, Touches(c, j)
        PROVE  OlderOrSame(c.data[j], service'[j]) /\ (c.op = "upsert" => OlderOrSame(store[j], c.data[j]))
    <3>1. OlderOrSame(c.data[j], service[j]) /\ (c.op = "upsert" => OlderOrSame(store[j], c.data[j]))
      BY <2>2 DEF Followed, Fresh
    <3>2. c \in Calls
      BY LenProperties DEF Followed, TypedInverse, TypeOK
    <3>3. c.data[j].version \in Nat
      BY <3>2, Versions DEF Calls
    <3> QED BY <1>3, <3>1, <3>3
  <2> QED BY <1>4, <2>1, <2>2 DEF Fresh
<1>6. OneAtATime' /\ LastTold'
  BY <1>4 DEF Followed, OneAtATime, LastTold
<1> QED BY <1>1, <1>5, <1>6 DEF Followed

(* A read of old data is answered; the last one is followed by the write.  *)
LEMMA ReadDoneFollowed ==
  ASSUME Friendly, Followed, NEW c \in reads, ReadDone(c)
  PROVE  Followed'
<1>1. TypedInverse'
  BY ReadDoneTyped DEF Followed
<1>2. Async /\ reads = {c} /\ writes = <<>> /\ deferred = <<>>
  BY DEF Followed, OneAtATime
<1>3. PICK read : /\ read.op = c.op /\ read.data = c.data
                  /\ \/ reads' = (reads \ {c}) \cup {read} /\ UNCHANGED writes
                     \/ reads' = reads \ {c} /\ writes' = Append(writes, read)
  <2> DEFINE asked == IF c.op = "upsert" THEN Item ELSE IF c.flagsRead THEN Segment ELSE Flag
             new == [i \in Item |-> IF i \in asked THEN Visible(store[i]) ELSE c.old[i]]
             read == [c EXCEPT !.old = new, !.flagsRead = TRUE]
  <2>1. \/ reads' = (reads \ {c}) \cup {read} /\ UNCHANGED writes
        \/ reads' = reads \ {c} /\ writes' = Append(writes, read)
    BY Zenon DEF ReadDone
  <2>2. read.op = c.op /\ read.data = c.data
    BY DEF Followed, TypedInverse, TypeOK, Calls
  <2> QED BY <2>1, <2>2
<1>4. UNCHANGED <<service, past, store, deferred, tracker>>
  BY DEF ReadDone, envVars
<1>5. \/ reads' = {read} /\ writes' = <<>>
      \/ reads' = {} /\ Len(writes') = 1 /\ DOMAIN writes' = 1..1 /\ writes'[1] = read
  BY <1>2, <1>3
<1>6. \A i \in Item : Touches(read, i) => /\ OlderOrSame(read.data[i], service[i])
                                          /\ read.op = "upsert" => OlderOrSame(store[i], read.data[i])
  BY <1>3 DEF Followed, Fresh, Touches
<1>7. Fresh'
  BY <1>4, <1>5, <1>6, EmptySeq DEF Followed, Fresh
<1>8. OneAtATime'
  <2>1. deferred' = <<>> /\ (reads' = {} \/ writes' = <<>>)
    BY <1>2, <1>4, <1>5
  <2>2. Len(writes') <= 1 /\ \A a, b \in reads' : a = b
    BY <1>5, EmptySeq
  <2> QED BY <1>2, <2>1, <2>2 DEF OneAtATime
<1>9. LastTold'
  BY <1>4 DEF Followed, LastTold
<1> QED BY <1>1, <1>7, <1>8, <1>9 DEF Followed

(* The store has written; the tracker follows in a deferred turn.          *)
LEMMA WriteDoneFollowed ==
  ASSUME Friendly, Followed, WriteDone
  PROVE  Followed'
<1> DEFINE c == Head(writes)
<1>1. TypedInverse'
  BY WriteDoneTyped DEF Followed
<1>2. Async /\ reads = {} /\ reads' = {} /\ writes' = <<>>
  <2>1. Async /\ reads = {} /\ Len(writes) <= 1 /\ writes # <<>> /\ writes \in Seq(Calls)
    BY DEF Followed, OneAtATime, WriteDone, TypedInverse, TypeOK
  <2>2. Len(Tail(writes)) = 0 /\ Tail(writes) \in Seq(Calls)
    <3>1. Len(writes) \in Nat /\ Len(writes) # 0
      BY <2>1, LenProperties, EmptySeq
    <3>2. Len(Tail(writes)) = Len(writes) - 1 /\ Tail(writes) \in Seq(Calls)
      BY <2>1, HeadTailProperties
    <3> QED BY <2>1, <3>1, <3>2
  <2>3. Tail(writes) = <<>>
    BY <2>2, EmptySeq
  <2> QED BY <2>1, <2>3 DEF WriteDone
<1>3. c \in Calls /\ Apply(c) /\ UNCHANGED <<service, past, tracker>>
  BY HeadTyped DEF WriteDone, Followed, TypedInverse, TypeOK, envVars
<1>4. \A i \in Item : Touches(c, i) => /\ OlderOrSame(c.data[i], service[i])
                                       /\ c.op = "upsert" => OlderOrSame(store[i], c.data[i])
  <2>1. writes \in Seq(Calls) /\ writes # <<>>
    BY DEF Followed, TypedInverse, TypeOK, WriteDone
  <2>2. c = writes[1] /\ 1 \in DOMAIN writes
    BY <2>1, LenProperties, EmptySeq
  <2> QED BY <2>2 DEF Followed, Fresh
<1> HIDE DEF c
<1>5. LastTold'
  BY <1>3, <1>4, ApplyTold DEF Followed
<1>6. \A i \in Item : store'[i] = IF Touches(c, i) THEN c.data[i] ELSE store[i]
  BY <1>3, <1>4, WrittenFollows DEF Apply, Followed
<1>7. Fresh'
  BY <1>2, <1>3, <1>4, <1>6, EmptySeq DEF Followed, Fresh
<1>8. OneAtATime'
  BY <1>2, EmptySeq DEF OneAtATime
<1> QED BY <1>1, <1>5, <1>7, <1>8 DEF Followed

(* The deferred turn brings the tracker up to what the store has written.  *)
LEMMA RunDeferredFollowed ==
  ASSUME Friendly, Followed, RunDeferred
  PROVE  Followed'
<1> DEFINE c == Head(deferred)
           k == Len(deferred)
<1>1. TypedInverse'
  BY RunDeferredTyped DEF Followed
<1>2. UNCHANGED <<service, past, store, reads, writes>>
  BY DEF RunDeferred, envVars
<1>3. Fresh' /\ OneAtATime'
  <2>1. deferred = <<>> => deferred' = <<>>
    BY DEF RunDeferred
  <2> QED BY <1>2, <2>1 DEF RunDeferred, Followed, Fresh, OneAtATime
<1>4. /\ deferred \in Seq(Calls) /\ k \in Nat \ {0} /\ c = deferred[1] /\ c \in Calls
      /\ deferred' = Tail(deferred) /\ Len(deferred') = k - 1
      /\ \A n \in 1..k - 1 : deferred'[n] = deferred[n + 1]
      /\ DOMAIN deferred = 1..k /\ DOMAIN deferred' = 1..k - 1
  <2>1. deferred \in Seq(Calls) /\ deferred # <<>> /\ deferred' = Tail(deferred)
    BY DEF Followed, TypedInverse, TypeOK, RunDeferred
  <2> QED BY <2>1, HeadTailProperties, LenProperties, EmptySeq
<1>5. \A i \in Item : tracker'.from[i] = IF Touches(c, i) THEN c.data[i].deps ELSE tracker.from[i]
  BY <1>4, TrackTyped DEF RunDeferred, Followed, TypedInverse, TypeOK, TrackerInverse
<1>a. \A i \in Item :
        \/ /\ \A n \in 1..k : ~Touches(deferred[n], i)
           /\ tracker.from[i] = store[i].deps
        \/ \E n \in 1..k : /\ Touches(deferred[n], i) /\ deferred[n].data[i].deps = store[i].deps
                            /\ \A m \in n + 1..k : ~Touches(deferred[m], i)
  BY <1>4 DEF Followed, LastTold
<1> HIDE DEF c, k
<1>6. SUFFICES ASSUME NEW i \in Item
               PROVE  \/ /\ \A n \in 1..k - 1 : ~Touches(deferred'[n], i)
                         /\ tracker'.from[i] = store[i].deps
                      \/ \E n \in 1..k - 1 :
                           /\ Touches(deferred'[n], i)
                           /\ deferred'[n].data[i].deps = store[i].deps
                           /\ \A m \in n + 1..k - 1 : ~Touches(deferred'[m], i)
  BY <1>1, <1>2, <1>3, <1>4 DEF Followed, LastTold
<1>7. CASE /\ \A n \in 1..k : ~Touches(deferred[n], i)
           /\ tracker.from[i] = store[i].deps
  <2>1. ~Touches(c, i)
    BY <1>4, <1>7
  <2>2. \A n \in 1..k - 1 : n + 1 \in 1..k
    BY <1>4
  <2> QED BY <1>4, <1>5, <1>7, <2>1, <2>2
<1>8. ASSUME NEW n \in 1..k,
             Touches(deferred[n], i), deferred[n].data[i].deps = store[i].deps,
             \A m \in n + 1..k : ~Touches(deferred[m], i)
      PROVE  \/ /\ \A l \in 1..k - 1 : ~Touches(deferred'[l], i)
                /\ tracker'.from[i] = store[i].deps
             \/ \E l \in 1..k - 1 :
                  /\ Touches(deferred'[l], i)
                  /\ deferred'[l].data[i].deps = store[i].deps
                  /\ \A m \in l + 1..k - 1 : ~Touches(deferred'[m], i)
  <2>1. \A m \in n..k - 1 : m \in 1..k - 1 /\ m + 1 \in n + 1..k
    BY <1>4
  <2>2. \A m \in n..k - 1 : ~Touches(deferred'[m], i)
    BY <1>4, <1>8, <2>1
  <2>3. CASE n = 1
    <3>1. tracker'.from[i] = store[i].deps
      BY <1>4, <1>5, <1>8, <2>3
    <3> QED BY <2>2, <2>3, <3>1
  <2>4. CASE n # 1
    <3>1. n - 1 \in 1..k - 1 /\ (n - 1) + 1 = n
      BY <1>4, <2>4
    <3>2. deferred'[n - 1] = deferred[n]
      BY <1>4, <3>1
    <3> QED BY <1>8, <2>2, <3>1, <3>2
  <2> QED BY <2>3, <2>4
<1> QED BY <1>a, <1>7, <1>8

(* That the tracker follows the store is inductive.                        *)
LEMMA StepFollowed == Friendly /\ Followed /\ [Next]_vars => Followed'
<1> SUFFICES ASSUME Friendly, Followed, [Next]_vars PROVE Followed'
  OBVIOUS
<1>1. CASE AddListener \/ UNCHANGED vars
  <2>1. UNCHANGED <<service, past, store, reads, writes, deferred, tracker>>
    BY <1>1 DEF AddListener, vars
  <2>2. Fresh' /\ OneAtATime' /\ LastTold'
    BY <2>1 DEF Followed, Fresh, OneAtATime, LastTold
  <2> QED BY <2>2, StepTyped DEF Followed
<1> QED BY <1>1, ServiceChangesFollowed, UpsertCallFollowed, InitCallFollowed, ReadDoneFollowed, WriteDoneFollowed, RunDeferredFollowed DEF Next

(* For a data source that brings current items, over a store in memory or  *)
(* awaiting every call: when all calls are done, the tracker has the       *)
(* references of exactly the data in the store, so that the next change of *)
(* any item is announced along the right edges.                            *)
THEOREM TrackerMatchesStoreEver == Friendly => (Spec => []TrackerMatchesStore)
<1>1. Followed => TrackerMatchesStore
  BY EmptySeq DEF Followed, LastTold, TrackerMatchesStore, Quiet
<1>2. Friendly => (Spec => []Followed)
  <2> SUFFICES ASSUME Friendly PROVE Spec => []Followed
    OBVIOUS
  <2>1. Followed /\ [Next]_vars => Followed'
    BY StepFollowed
  <2> QED BY <2>1, InitFollowed, PTL DEF Spec
<1> QED BY <1>1, <1>2, PTL

-----------------------------------------------------------------------------
(***************************************************************************)
(* What the walk of the tracker reaches.  ModifiedItems is the least set   *)
(* that has the items it begins with and is closed under the references to *)
(* its items.                                                              *)
(***************************************************************************)

(* Complete induction: a set of numbers with 0 and every successor.        *)
LEMMA AllNumbers ==
  ASSUME NEW S \in SUBSET Nat, 0 \in S, \A n \in S : n + 1 \in S
  PROVE  S = Nat
<1> SUFFICES ASSUME Nat \ S # {} PROVE FALSE
  OBVIOUS
<1> DEFINE R == OpToRel(<, Nat)
<1>1. \A x, y \in Nat : <<y, x>> \in R <=> y < x
  BY DEF OpToRel
<1>2. IsWellFoundedOn(R, Nat)
  BY NatLessThanWellFounded
<1> HIDE DEF R
<1>3. PICK n \in Nat \ S : \A m \in Nat \ S : ~(<<m, n>> \in R)
  BY <1>2, WFMin
<1>4. n - 1 \in Nat /\ n - 1 < n
  BY <1>3
<1>5. n - 1 \in S
  BY <1>1, <1>3, <1>4
<1>6. (n - 1) + 1 = n
  BY <1>3
<1> QED BY <1>3, <1>5, <1>6

Spread(t, X) == X \cup UNION {t.to[i] : i \in X}

(* The first n + 1 rounds.                                                 *)
Rounds(t, items, n, g) ==
  g[0] = items /\ \A m \in Nat : m < n => g[m + 1] = Spread(t, g[m])

(* Items stay items.                                                       *)
LEMMA SpreadTyped ==
  ASSUME NEW t \in Trackers, NEW X \in SUBSET Item
  PROVE  Spread(t, X) \in SUBSET Item
  BY DEF Spread, Trackers

(* There are any number of rounds.                                         *)
LEMMA RoundsExist ==
  ASSUME NEW t \in Trackers, NEW items \in SUBSET Item, NEW n \in Nat
  PROVE  \E g \in [Nat -> SUBSET Item] : Rounds(t, items, n, g)
<1> DEFINE S == {k \in Nat : \E g \in [Nat -> SUBSET Item] : Rounds(t, items, k, g)}
<1>1. 0 \in S
  <2>1. Rounds(t, items, 0, [m \in Nat |-> items])
    BY DEF Rounds
  <2> QED BY <2>1
<1>2. ASSUME NEW k \in S PROVE k + 1 \in S
  <2>1. PICK g \in [Nat -> SUBSET Item] : Rounds(t, items, k, g)
    BY <1>2
  <2> DEFINE h == [g EXCEPT ![k + 1] = Spread(t, g[k])]
  <2>2. h \in [Nat -> SUBSET Item]
    BY SpreadTyped
  <2>3. h[0] = items
    BY <2>1 DEF Rounds
  <2>4. ASSUME NEW m \in Nat, m < k + 1 PROVE h[m + 1] = Spread(t, h[m])
    <3>1. m # k + 1 /\ (m = k \/ m < k)
      BY <2>4
    <3>2. h[m] = g[m]
      BY <3>1
    <3>3. h[m + 1] = IF m = k THEN Spread(t, g[k]) ELSE g[m + 1]
      OBVIOUS
    <3> QED BY <2>1, <3>1, <3>2, <3>3 DEF Rounds
  <2>5. Rounds(t, items, k + 1, h)
    BY <2>3, <2>4 DEF Rounds
  <2>6. k + 1 \in Nat
    BY <1>2
  <2> HIDE DEF h
  <2> QED BY <2>2, <2>5, <2>6
<1> HIDE DEF S
<1>3. S = Nat
  BY <1>1, <1>2, AllNumbers DEF S
<1> QED BY <1>3 DEF S

(* The rounds are determined.                                              *)
LEMMA RoundsAgree ==
  ASSUME NEW t, NEW items, NEW n \in Nat, NEW g, NEW h,
         Rounds(t, items, n, g), Rounds(t, items, n, h)
  PROVE  \A m \in 0..n : g[m] = h[m]
<1> DEFINE S == {k \in Nat : k <= n => g[k] = h[k]}
<1>1. 0 \in S
  BY DEF Rounds
<1>2. \A k \in S : k + 1 \in S
  BY DEF Rounds
<1> HIDE DEF S
<1>3. S = Nat
  BY <1>1, <1>2, AllNumbers DEF S
<1> QED BY <1>3 DEF S

(* Both together: the recursive function exists.                           *)
LEMMA RoundFunction ==
  ASSUME NEW t \in Trackers, NEW items \in SUBSET Item
  PROVE  \E r \in [Nat -> SUBSET Item] : \A n \in Nat : Rounds(t, items, n, r)
<1> DEFINE G(n) == CHOOSE g \in [Nat -> SUBSET Item] : Rounds(t, items, n, g)
           r == [n \in Nat |-> G(n)[n]]
<1>1. \A n \in Nat : G(n) \in [Nat -> SUBSET Item] /\ Rounds(t, items, n, G(n))
  BY RoundsExist
<1> HIDE DEF G
<1>2. r \in [Nat -> SUBSET Item]
  BY <1>1
<1>3. r[0] = items
  BY <1>1 DEF Rounds
<1>4. ASSUME NEW m \in Nat PROVE r[m + 1] = Spread(t, r[m])
  <2>1. Rounds(t, items, m, G(m + 1))
    BY <1>1 DEF Rounds
  <2>2. G(m + 1)[m] = G(m)[m]
    BY <1>1, <2>1, RoundsAgree
  <2>3. G(m + 1)[m + 1] = Spread(t, G(m + 1)[m])
    BY <1>1 DEF Rounds
  <2> QED BY <2>2, <2>3
<1> HIDE DEF r
<1>5. \A n \in Nat : Rounds(t, items, n, r)
  BY <1>3, <1>4 DEF Rounds
<1> QED BY <1>2, <1>5

(* ModifiedItems takes the last of as many rounds as there are items.      *)
LEMMA ModifiedIsLastRound ==
  ASSUME NEW t \in Trackers, NEW items \in SUBSET Item
  PROVE  \E r \in [Nat -> SUBSET Item] :
           /\ \A n \in Nat : Rounds(t, items, n, r)
           /\ ModifiedItems(t, items) = r[Cardinality(Item)]
<1> DEFINE F(g) == [n \in Nat |-> IF n = 0 THEN items
                                  ELSE g[n - 1] \cup UNION {t.to[i] : i \in g[n - 1]}]
           round == CHOOSE g : g = F(g)
<1>1. PICK r \in [Nat -> SUBSET Item] : \A n \in Nat : Rounds(t, items, n, r)
  BY RoundFunction
<1>2. r = F(r)
  <2>1. ASSUME NEW n \in Nat PROVE r[n] = F(r)[n]
    <3>1. CASE n = 0
      BY <1>1, <3>1 DEF Rounds
    <3>2. CASE n # 0
      <4>1. n - 1 \in Nat /\ n - 1 < n /\ (n - 1) + 1 = n
        BY <3>2
      <4>2. r[n] = Spread(t, r[n - 1])
        BY <1>1, <4>1 DEF Rounds
      <4> QED BY <3>2, <4>2 DEF Spread
    <3> QED BY <3>1, <3>2
  <2> QED BY <2>1
<1>3. round = F(round)
  BY <1>2
<1> HIDE DEF round
<1>4. round[0] = items
  BY <1>3
<1>5. ASSUME NEW n \in Nat PROVE round[n + 1] = Spread(t, round[n])
  <2>1. F(round)[n + 1] = round[(n + 1) - 1] \cup UNION {t.to[i] : i \in round[(n + 1) - 1]}
    OBVIOUS
  <2>2. (n + 1) - 1 = n
    OBVIOUS
  <2> QED BY <1>3, <2>1, <2>2 DEF Spread
<1>6. \A n \in Nat : Rounds(t, items, n, round)
  BY <1>4, <1>5 DEF Rounds
<1>7. Cardinality(Item) \in Nat
  BY UpdatesAssumption, FS_CardinalityType
<1>8. round[Cardinality(Item)] = r[Cardinality(Item)]
  BY <1>1, <1>6, <1>7, RoundsAgree
<1>9. ModifiedItems(t, items) = round[Cardinality(Item)]
  BY DEF ModifiedItems, round
<1> QED BY <1>1, <1>8, <1>9

(* A later round has what an earlier one had.                              *)
LEMMA RoundsGrow ==
  ASSUME NEW t \in Trackers, NEW items \in SUBSET Item, NEW r \in [Nat -> SUBSET Item],
         \A n \in Nat : Rounds(t, items, n, r), NEW m \in Nat
  PROVE  \A n \in Nat : m <= n => r[m] \subseteq r[n]
<1> DEFINE S == {n \in Nat : m <= n => r[m] \subseteq r[n]}
<1>1. 0 \in S
  OBVIOUS
<1>2. ASSUME NEW n \in S PROVE n + 1 \in S
  <2>1. n \in Nat /\ n + 1 \in Nat /\ r[n + 1] = Spread(t, r[n])
    BY <1>2 DEF Rounds
  <2>2. r[n] \subseteq r[n + 1]
    BY <2>1 DEF Spread
  <2>3. m <= n + 1 => m <= n \/ m = n + 1
    BY <2>1
  <2> QED BY <1>2, <2>1, <2>2, <2>3
<1> HIDE DEF S
<1>3. S = Nat
  BY <1>1, <1>2, AllNumbers DEF S
<1> QED BY <1>3 DEF S

(* At least one of the rounds adds nothing: each of the others adds an     *)
(* item of its own, and there are no more items than rounds.               *)
LEMMA OneRoundAddsNothing ==
  ASSUME NEW t \in Trackers, NEW items \in SUBSET Item, NEW r \in [Nat -> SUBSET Item],
         \A n \in Nat : Rounds(t, items, n, r)
  PROVE  \E n \in 0..Cardinality(Item) : r[n + 1] = r[n]
<1> DEFINE N == Cardinality(Item)
           f == [n \in 0..N |-> CHOOSE i \in Item : i \in r[n + 1] \ r[n]]
<1>1. N \in Nat /\ IsFiniteSet(Item)
  BY UpdatesAssumption, FS_CardinalityType
<1>2. IsFiniteSet(0..N) /\ N < Cardinality(0..N)
  BY <1>1, FS_Interval
<1>3. SUFFICES ASSUME \A n \in 0..N : r[n + 1] # r[n] PROVE FALSE
  OBVIOUS
<1>4. ASSUME NEW n \in 0..N PROVE \E i \in Item : i \in r[n + 1] \ r[n]
  <2>1. n \in Nat /\ n + 1 \in Nat /\ n <= n + 1
    BY <1>1
  <2>2. r[n] \subseteq r[n + 1] /\ r[n + 1] \subseteq Item
    BY <2>1, RoundsGrow
  <2>3. r[n + 1] # r[n]
    BY <1>3
  <2>4. \E i : i \in r[n + 1] /\ i \notin r[n]
    BY <2>2, <2>3
  <2> QED BY <2>2, <2>4
<1>5. f \in [0..N -> Item] /\ \A n \in 0..N : f[n] \in r[n + 1] \ r[n]
  BY <1>4
<1> HIDE DEF f
<1>6. PICK m, n \in 0..N : m # n /\ f[m] = f[n]
  BY <1>1, <1>2, <1>5, FS_PigeonHole
<1>7. ASSUME NEW k \in 0..N, NEW l \in 0..N, k < l, f[k] = f[l] PROVE FALSE
  <2>1. k + 1 \in Nat /\ l \in Nat /\ k + 1 <= l
    BY <1>1, <1>7
  <2>2. r[k + 1] \subseteq r[l]
    BY <2>1, RoundsGrow
  <2> QED BY <1>5, <1>7, <2>2
<1>8. m < n \/ n < m
  BY <1>1, <1>6
<1> QED BY <1>6, <1>7, <1>8

(* After a round that adds nothing, no round adds anything.                *)
LEMMA RoundsStay ==
  ASSUME NEW t \in Trackers, NEW items \in SUBSET Item, NEW r \in [Nat -> SUBSET Item],
         \A n \in Nat : Rounds(t, items, n, r), NEW m \in Nat, r[m + 1] = r[m]
  PROVE  \A n \in Nat : m <= n => r[n] = r[m]
<1> DEFINE S == {n \in Nat : m <= n => r[n] = r[m]}
<1>1. 0 \in S
  OBVIOUS
<1>2. ASSUME NEW n \in S PROVE n + 1 \in S
  <2>1. n \in Nat /\ n + 1 \in Nat
    BY <1>2
  <2>2. r[n + 1] = Spread(t, r[n]) /\ r[m + 1] = Spread(t, r[m])
    BY <2>1 DEF Rounds
  <2>3. m <= n + 1 => m <= n \/ m = n + 1
    BY <2>1
  <2> QED BY <1>2, <2>1, <2>2, <2>3
<1> HIDE DEF S
<1>3. S = Nat
  BY <1>1, <1>2, AllNumbers DEF S
<1> QED BY <1>3 DEF S

(* What is reached are items, those that it begins with among them.        *)
LEMMA ReachBegins ==
  ASSUME NEW t \in Trackers, NEW items \in SUBSET Item
  PROVE  items \subseteq ModifiedItems(t, items) /\ ModifiedItems(t, items) \subseteq Item
<1>1. PICK r \in [Nat -> SUBSET Item] :
        (\A n \in Nat : Rounds(t, items, n, r)) /\ ModifiedItems(t, items) = r[Cardinality(Item)]
  BY ModifiedIsLastRound
<1>2. Cardinality(Item) \in Nat
  BY UpdatesAssumption, FS_CardinalityType
<1>3. r[0] = items /\ 0 <= Cardinality(Item)
  BY <1>1, <1>2 DEF Rounds
<1>4. r[0] \subseteq r[Cardinality(Item)]
  BY <1>1, <1>2, <1>3, RoundsGrow
<1> QED BY <1>1, <1>2, <1>3, <1>4

(* What refers to something that is reached is reached.                    *)
LEMMA ReachCloses ==
  ASSUME NEW t \in Trackers, NEW items \in SUBSET Item,
         NEW i \in ModifiedItems(t, items), NEW j \in t.to[i]
  PROVE  j \in ModifiedItems(t, items)
<1> DEFINE N == Cardinality(Item)
<1>1. PICK r \in [Nat -> SUBSET Item] :
        (\A n \in Nat : Rounds(t, items, n, r)) /\ ModifiedItems(t, items) = r[N]
  BY ModifiedIsLastRound
<1>2. N \in Nat
  BY UpdatesAssumption, FS_CardinalityType
<1>3. PICK m \in 0..N : r[m + 1] = r[m]
  BY <1>1, OneRoundAddsNothing
<1>4. m \in Nat /\ m <= N /\ m <= N + 1 /\ N + 1 \in Nat
  BY <1>2, <1>3
<1>5. r[N] = r[m] /\ r[N + 1] = r[m]
  BY <1>1, <1>2, <1>3, <1>4, RoundsStay
<1>6. r[N + 1] = Spread(t, r[N])
  BY <1>1, <1>2, <1>4 DEF Rounds
<1>7. i \in r[N] => j \in Spread(t, r[N])
  BY DEF Spread
<1> QED BY <1>1, <1>5, <1>6, <1>7

(* Nothing else is reached.                                                *)
LEMMA ReachIsLeast ==
  ASSUME NEW t \in Trackers, NEW items \in SUBSET Item, NEW closed, items \subseteq closed,
         \A i \in closed \cap Item : t.to[i] \subseteq closed
  PROVE  ModifiedItems(t, items) \subseteq closed
<1>1. PICK r \in [Nat -> SUBSET Item] :
        (\A n \in Nat : Rounds(t, items, n, r)) /\ ModifiedItems(t, items) = r[Cardinality(Item)]
  BY ModifiedIsLastRound
<1>2. Cardinality(Item) \in Nat
  BY UpdatesAssumption, FS_CardinalityType
<1> DEFINE S == {n \in Nat : r[n] \subseteq closed}
<1>3. 0 \in S
  BY <1>1 DEF Rounds
<1>4. ASSUME NEW n \in S PROVE n + 1 \in S
  <2>1. n \in Nat /\ n + 1 \in Nat /\ r[n] \subseteq closed \cap Item
    BY <1>4
  <2>2. r[n + 1] = Spread(t, r[n])
    BY <1>1, <2>1 DEF Rounds
  <2>3. Spread(t, r[n]) \subseteq closed
    BY <2>1 DEF Spread
  <2> QED BY <2>1, <2>2, <2>3
<1> HIDE DEF S
<1>5. S = Nat
  BY <1>3, <1>4, AllNumbers DEF S
<1> QED BY <1>1, <1>2, <1>5 DEF S

(* What is reached grows with what one begins with.                        *)
LEMMA ReachGrows ==
  ASSUME NEW t \in Trackers, NEW X \in SUBSET Item, NEW Y \in SUBSET Item, X \subseteq Y
  PROVE  ModifiedItems(t, X) \subseteq ModifiedItems(t, Y)
<1>1. Y \subseteq ModifiedItems(t, Y)
  BY ReachBegins
<1>2. \A i \in ModifiedItems(t, Y) : t.to[i] \subseteq ModifiedItems(t, Y)
  BY ReachCloses
<1> QED BY <1>1, <1>2, ReachIsLeast

(* Nothing is reached from nothing.                                        *)
LEMMA ReachOfNothing ==
  ASSUME NEW t \in Trackers
  PROVE  ModifiedItems(t, {}) = {}
<1>1. ModifiedItems(t, {}) \subseteq {}
  BY ReachIsLeast
<1> QED BY <1>1

(* Where a tracker differs from other references: on a way along these,    *)
(* the first item whose references differ is one of those told elsewhere,  *)
(* and before it the ways are the same.                                    *)
LEMMA Detour ==
  ASSUME NEW t \in Trackers, MapsInverse(t), NEW deps \in [Item -> SUBSET Item],
         NEW X \in SUBSET Item, NEW elsewhere \in SUBSET Item,
         \A i \in Item : t.from[i] # deps[i] => i \in elsewhere,
         \A i \in elsewhere : Rebuild(deps).to[i] \subseteq elsewhere
  PROVE  ModifiedItems(Rebuild(deps), X) \subseteq ModifiedItems(t, X) \cup elsewhere
<1> DEFINE both == ModifiedItems(t, X) \cup elsewhere
<1>1. Rebuild(deps) \in Trackers
  BY RebuildInverse
<1>2. X \subseteq both
  BY ReachBegins
<1>3. ASSUME NEW i \in both \cap Item, NEW j \in Rebuild(deps).to[i] PROVE j \in both
  <2>1. j \in Item /\ i \in deps[j]
    BY DEF Rebuild
  <2>2. CASE i \in elsewhere
    BY <2>2
  <2>3. CASE i \in ModifiedItems(t, X) /\ t.from[j] = deps[j]
    <3>1. j \in t.to[i]
      BY <2>1, <2>3 DEF MapsInverse
    <3> QED BY <2>3, <3>1, ReachCloses
  <2>4. CASE t.from[j] # deps[j]
    BY <2>1, <2>4
  <2> QED BY <1>3, <2>2, <2>3, <2>4
<1> HIDE DEF both
<1>4. ModifiedItems(Rebuild(deps), X) \subseteq both
  BY <1>1, <1>2, <1>3, ReachIsLeast
<1> QED BY <1>4 DEF both

(* The same for new references, if all that have changed are told.         *)
LEMMA ReachMoves ==
  ASSUME NEW old \in [Item -> SUBSET Item], NEW new \in [Item -> SUBSET Item],
         NEW X \in SUBSET Item, NEW Y \in SUBSET Item,
         \A i \in Item : new[i] # old[i] => i \in Y
  PROVE  ModifiedItems(Rebuild(old), X)
           \subseteq ModifiedItems(Rebuild(new), X) \cup ModifiedItems(Rebuild(new), Y)
<1> DEFINE elsewhere == ModifiedItems(Rebuild(new), Y)
<1>1. Rebuild(new) \in Trackers /\ MapsInverse(Rebuild(new)) /\ Rebuild(new).from = new
  BY RebuildInverse DEF Rebuild
<1>2. Y \subseteq elsewhere /\ elsewhere \in SUBSET Item
  BY <1>1, ReachBegins
<1>3. ASSUME NEW i \in elsewhere, NEW j \in Rebuild(old).to[i] PROVE j \in elsewhere
  <2>1. i \in Item /\ j \in Item /\ i \in old[j]
    BY <1>2 DEF Rebuild
  <2>2. CASE new[j] = old[j]
    <3>1. j \in Rebuild(new).to[i]
      BY <2>1, <2>2 DEF Rebuild
    <3> QED BY <1>1, <3>1, ReachCloses
  <2>3. CASE new[j] # old[j]
    BY <1>2, <2>1, <2>3
  <2> QED BY <2>2, <2>3
<1>4. \A i \in Item : Rebuild(new).from[i] # old[i] => i \in elsewhere
  BY <1>1, <1>2
<1> HIDE DEF elsewhere
<1>5. ModifiedItems(Rebuild(old), X) \subseteq ModifiedItems(Rebuild(new), X) \cup elsewhere
  BY <1>1, <1>2, <1>3, <1>4, Detour
<1> QED BY <1>5 DEF elsewhere

-----------------------------------------------------------------------------
(***************************************************************************)
(* The third theorem.  The flags that are owed an event get it by the      *)
(* microtasks that wait: each of them is reached, along the references of  *)
(* the stored data, from an item that one of them finds modified (Owing).  *)
(* A microtask goes along the references of its own moment, but where      *)
(* these are not those of the store a later one finds the item modified    *)
(* whose references differ (LaterMarks), and before that item the ways     *)
(* are the same.                                                           *)
(***************************************************************************)
References(data) == [i \in Item |-> data[i].deps]
Graph(data) == Rebuild(References(data))

(* What a microtask will find modified.  Without listeners it looks at     *)
(* nothing and whatever it has touched may have changed.                   *)
Marks(c) == IF c.check THEN Modified(c) ELSE {i \in Item : Touches(c, i)}

(* No init under way brings an item that is behind the store.              *)
Ahead(c) == c.op = "init" => \A i \in Item : c.data[i] = None \/ OlderOrSame(store[i], c.data[i])

(* The old data of a call, as far as it was read, is that of the store.    *)
UnderWay ==
  /\ \A c \in reads \cup {writes[n] : n \in DOMAIN writes} : Ahead(c) /\ (c.check => listening)
  /\ \A c \in reads : c.flagsRead => c.op = "init" /\ \A i \in Flag : c.old[i] = Visible(store[i])
  /\ \A n \in DOMAIN writes : writes[n].check => \A i \in Item : writes[n].old[i] = Visible(store[i])

(* Listeners are not removed: later microtasks have them too.              *)
ListenersStay ==
  /\ \A n \in DOMAIN deferred : deferred[n].check => listening
  /\ \A m, n \in DOMAIN deferred : m <= n /\ deferred[m].check => deferred[n].check

IsLastInit(n) ==
  deferred[n].op = "init" /\ \A m \in n + 1..Len(deferred) : deferred[m].op # "init"

(* In memory, the data of the last init is that of the store; and what an  *)
(* init has taken away had an older version than the service has.          *)
SharedWithStore ==
  ~Async => \A n \in DOMAIN deferred :
    /\ IsLastInit(n) => \A i \in Item : deferred[n].data[i] = store[i]
    /\ deferred[n].check /\ deferred[n].op = "init" => \A i \in Item :
         deferred[n].data[i] = None /\ deferred[n].old[i] # None =>
           deferred[n].old[i].version < service[i].version

LaterMarks ==
  \A i \in Item :
    /\ tracker.from[i] # store[i].deps => \E m \in DOMAIN deferred : i \in Marks(deferred[m])
    /\ \A n \in DOMAIN deferred :
         Touches(deferred[n], i) /\ deferred[n].data[i].deps # store[i].deps =>
           \E m \in n + 1..Len(deferred) : i \in Marks(deferred[m])

Owing ==
  \A f \in owed : \E n \in DOMAIN deferred :
    deferred[n].check /\ f \in ModifiedItems(Graph(store), Modified(deferred[n]))

Announced ==
  Followed /\ UnderWay /\ ListenersStay /\ SharedWithStore /\ LaterMarks /\ Owing

(* Nothing is under way and nobody is owed anything.                       *)
LEMMA InitAnnounced == Init => Announced
<1> SUFFICES ASSUME Init PROVE Announced
  OBVIOUS
<1>1. deferred = <<>> /\ writes = <<>> /\ reads = {} /\ owed = {}
  BY DEF Init
<1>2. DOMAIN deferred = {} /\ DOMAIN writes = {}
  BY <1>1, EmptySeq
<1>3. LaterMarks
  BY <1>2 DEF Init, LaterMarks, EmptyTracker, None
<1> QED BY <1>1, <1>2, <1>3, InitFollowed DEF Announced, UnderWay, ListenersStay, SharedWithStore, Owing

(* What an item refers to, if evaluation does not see it change.           *)
LEMMA VisibleDeps ==
  ASSUME NEW d \in DataSets, NEW e \in DataSets, NEW i \in Item, Visible(d[i]) = Visible(e[i])
  PROVE  d[i].deps = e[i].deps
<1>1. \A v \in Values(i) \cup {None} : Visible(v).deps = v.deps
  <2>1. \A v \in Values(i) : v.deleted => v.deps = {}
    BY DEF Values
  <2> QED BY <2>1 DEF Visible, None
<1>2. d[i] \in Values(i) \cup {None} /\ e[i] \in Values(i) \cup {None}
  BY DEF DataSets
<1> QED BY <1>1, <1>2

(* Only what a call touches is found modified by it.                       *)
LEMMA MarksTyped ==
  ASSUME NEW c \in Calls
  PROVE  /\ Modified(c) \in SUBSET Item /\ Marks(c) \in SUBSET Item
         /\ \A i \in Marks(c) : Touches(c, i)
  BY DEF Modified, Marks, Touches, Calls

(* References to items only.                                               *)
LEMMA GraphTyped ==
  ASSUME NEW d \in DataSets
  PROVE  References(d) \in [Item -> SUBSET Item] /\ Graph(d) \in Trackers /\ MapsInverse(Graph(d))
  BY DepsTyped, RebuildInverse DEF References, Graph

(* The two conditions under which a write finds the store as its call has  *)
(* seen it: what it brings is not older, and what it has read is there.    *)
FindsStore(c) ==
  /\ Ahead(c)
  /\ \A i \in Item : c.op = "upsert" /\ Touches(c, i) => OlderOrSame(store[i], c.data[i])
  /\ c.check => \A i \in Item : c.old[i] = Visible(store[i])

(* The microtask of a write finds every item modified that the write       *)
(* changes for evaluation, and so every item whose references it changes.  *)
LEMMA ChangesMarked ==
  ASSUME TypedInverse, NEW c \in Calls, Apply(c), FindsStore(c)
  PROVE  /\ c.check => Changed(store') \subseteq Modified(c)
         /\ \A i \in Item : store'[i].deps # store[i].deps => i \in Marks(c)
<1>1. \A i \in Item : store'[i] = IF Touches(c, i) THEN c.data[i] ELSE store[i]
  BY WrittenFollows DEF Apply, FindsStore
<1>2. store \in DataSets /\ store' \in DataSets /\ c.data \in DataSets
  BY ApplyTyped DEF TypedInverse, TypeOK, Calls
<1>3. ASSUME c.check, NEW i \in Item, Visible(store'[i]) # Visible(store[i])
      PROVE  i \in Modified(c)
  <2>1. Touches(c, i) /\ store'[i] = c.data[i]
    BY <1>1, <1>3
  <2>2. c.old[i] = Visible(store[i])
    BY <1>3 DEF FindsStore
  <2>3. c.op = "upsert" => c.data[i] # None
    BY <2>1 DEF Touches
  <2>4. c.old[i] # None \/ c.data[i] # None
    BY <1>3, <2>1, <2>2 DEF Visible, None
  <2>5. ASSUME c.old[i] # None, c.data[i] # None, c.data[i].version <= c.old[i].version
        PROVE  FALSE
    <3>1. OlderOrSame(store[i], c.data[i])
      BY <2>1, <2>5 DEF FindsStore, Ahead, Calls
    <3>2. c.old[i] = store[i]
      BY <2>2, <2>5 DEF Visible
    <3>3. store[i].version \in Nat /\ c.data[i].version \in Nat
      BY <1>2, Versions
    <3>4. store[i] = c.data[i]
      BY <2>5, <3>1, <3>2, <3>3 DEF OlderOrSame
    <3> QED BY <1>3, <2>1, <3>4
  <2> QED BY <2>3, <2>4, <2>5 DEF Modified
<1>4. ASSUME NEW i \in Item, store'[i].deps # store[i].deps PROVE i \in Marks(c)
  <2>1. Visible(store'[i]) # Visible(store[i])
    BY <1>2, <1>4, VisibleDeps
  <2>2. Touches(c, i)
    BY <1>1, <1>4
  <2> QED BY <1>3, <2>1, <2>2 DEF Marks
<1> QED BY <1>3, <1>4 DEF Changed

(* The microtasks after a write: those that waited, the last init with the *)
(* data that it shares, and the microtask of the write.                    *)
AppendedTo(c) ==
  /\ Len(deferred) \in Nat /\ DOMAIN deferred = 1..Len(deferred)
  /\ Len(deferred') = Len(deferred) + 1 /\ DOMAIN deferred' = 1..Len(deferred) + 1
  /\ \A n \in 1..Len(deferred) :
       /\ deferred'[n].op = deferred[n].op /\ deferred'[n].check = deferred[n].check
       /\ deferred'[n].old = deferred[n].old
       /\ deferred'[n].data = IF ~Async /\ c.op = "upsert" /\ IsLastInit(n) THEN store'
                                                                          ELSE deferred[n].data
  /\ LET last == deferred'[Len(deferred) + 1] IN
       last.op = c.op /\ last.data = c.data /\ last.check = c.check /\ last.old = c.old

LEMMA ApplyAppends ==
  ASSUME TypedInverse, NEW c \in Calls, Apply(c)
  PROVE  AppendedTo(c)
<1>1. store' \in DataSets /\ deferred' \in Seq(Calls) /\ deferred \in Seq(Calls)
  BY ApplyTyped DEF TypedInverse, TypeOK
<1> DEFINE s == SharedData(c)
<1>2. Len(deferred) \in Nat /\ DOMAIN deferred = 1..Len(deferred)
      /\ \A n \in 1..Len(deferred) : deferred[n] \in Calls
  BY <1>1, LenProperties
<1>3. s \in Seq(Calls) /\ Len(s) = Len(deferred)
  BY <1>1, SharedTyped
<1>4. \A n \in 1..Len(deferred) :
        s[n] = IF ~Async /\ c.op = "upsert" /\ IsLastInit(n)
               THEN [deferred[n] EXCEPT !.data = store'] ELSE deferred[n]
  BY <1>2, Zenon DEF SharedData, IsLastInit
<1>5. ASSUME NEW n \in 1..Len(deferred)
      PROVE  /\ s[n].op = deferred[n].op /\ s[n].check = deferred[n].check
             /\ s[n].old = deferred[n].old
             /\ s[n].data = IF ~Async /\ c.op = "upsert" /\ IsLastInit(n) THEN store'
                                                                        ELSE deferred[n].data
  <2>1. deferred[n] \in Calls
    BY <1>2
  <2>2. \A x \in Calls : LET y == [x EXCEPT !.data = store'] IN
           y.op = x.op /\ y.check = x.check /\ y.old = x.old /\ y.data = store'
    BY DEF Calls
  <2> QED BY <1>4, <2>1, <2>2
<1>6. PICK b : deferred' = Append(s, [c EXCEPT !.changed = b])
  BY Zenon DEF Apply
<1> DEFINE last == [c EXCEPT !.changed = b]
<1>7. last.op = c.op /\ last.data = c.data /\ last.check = c.check /\ last.old = c.old
  BY DEF Calls
<1>8. deferred' = Append(s, last)
  BY <1>6
<1> HIDE DEF s, last
<1>9. /\ Len(deferred') = Len(deferred) + 1
      /\ \A n \in 1..Len(deferred) : deferred'[n] = s[n]
      /\ deferred'[Len(deferred) + 1] = last
  BY <1>2, <1>3, <1>8, AppendProperties
<1>10. DOMAIN deferred' = 1..Len(deferred) + 1
  BY <1>1, <1>9, LenProperties
<1> QED BY <1>2, <1>5, <1>7, <1>9, <1>10 DEF AppendedTo

(* Versions are numbers.                                                   *)
LEMMA ValueVersions == \A v \in Value : v.version \in Nat
<1>1. ASSUME NEW i \in Item, NEW v \in Values(i) PROVE v.version \in Nat
  <2>1. v.version \in 1..MaxVersion
    BY DEF Values
  <2> QED BY <2>1, UpdatesAssumption
<1>2. None.version \in Nat
  BY DEF None
<1> QED BY <1>1, <1>2 DEF Value

(* What waits does not find less modified after a later write than before. *)
LEMMA MarksKept ==
  ASSUME TypedInverse, NEW c \in Calls, Apply(c), FindsStore(c), SharedWithStore,
         ~Async /\ c.op = "upsert" => \A i \in Item : Touches(c, i) => c.data[i] = service[i],
         NEW n \in DOMAIN deferred
  PROVE  Marks(deferred[n]) \subseteq Marks(deferred'[n])
<1>1. AppendedTo(c)
  BY ApplyAppends
<1> DEFINE x == deferred[n]
           y == deferred'[n]
<1>2. /\ y.op = x.op /\ y.check = x.check /\ y.old = x.old
      /\ y.data = IF ~Async /\ c.op = "upsert" /\ IsLastInit(n) THEN store' ELSE x.data
  BY <1>1 DEF AppendedTo
<1>3. x \in Calls
  BY LenProperties DEF TypedInverse, TypeOK
<1>4. IsLastInit(n) => x.op = "init"
  BY DEF IsLastInit
<1>5. ~Async => /\ IsLastInit(n) => \A i \in Item : x.data[i] = store[i]
                /\ x.check /\ x.op = "init" => \A i \in Item :
                     x.data[i] = None /\ x.old[i] # None => x.old[i].version < service[i].version
  BY DEF SharedWithStore
<1>6. \A i \in Item : store'[i] = IF Touches(c, i) THEN c.data[i] ELSE store[i]
  BY WrittenFollows DEF Apply, FindsStore
<1>7. store \in DataSets /\ service \in DataSets /\ c.data \in DataSets
  BY DEF TypedInverse, TypeOK, Calls
<1> HIDE DEF x, y
<1>8. CASE ~(~Async /\ c.op = "upsert" /\ IsLastInit(n))
  <2>1. y.data = x.data
    BY <1>2, <1>8
  <2> QED BY <1>2, <2>1 DEF Marks, Modified, Touches, x, y
<1>9. CASE ~Async /\ c.op = "upsert" /\ IsLastInit(n) /\ ~x.check
  BY <1>2, <1>4, <1>9 DEF Marks, Touches, x, y
<1>10. CASE ~Async /\ c.op = "upsert" /\ IsLastInit(n) /\ x.check
  <2>1. ASSUME NEW i \in Modified(x) PROVE i \in Modified(y)
    <3>1. i \in Item /\ (x.old[i] # None \/ x.data[i] # None)
          /\ ~(x.old[i] # None /\ x.data[i] # None /\ x.data[i].version <= x.old[i].version)
      BY <2>1 DEF Modified
    <3>2. x.data[i] = store[i] /\ y.data[i] = store'[i] /\ y.old[i] = x.old[i] /\ y.op = "init"
      BY <1>2, <1>4, <1>5, <1>10, <3>1
    <3>3. CASE ~Touches(c, i)
      BY <1>6, <3>1, <3>2, <3>3 DEF Modified
    <3>4. CASE Touches(c, i)
      <4>1. store'[i] = c.data[i] /\ c.data[i] = service[i] /\ c.data[i] # None
            /\ OlderOrSame(store[i], c.data[i])
        BY <1>6, <1>10, <3>1, <3>4 DEF FindsStore, Touches
      <4>2. store[i].version \in Nat /\ c.data[i].version \in Nat
        BY <1>7, <3>1, Versions
      <4>3. store[i].version <= c.data[i].version
        BY <4>1, <4>2 DEF OlderOrSame
      <4>4. x.old[i] # None => x.old[i].version \in Nat /\ x.old[i].version < c.data[i].version
        <5>1. x.old[i] \in Value
          BY <1>3, <3>1 DEF Calls
        <5>2. \A v \in Value : v.version \in Nat
          BY ValueVersions
        <5>3. CASE store[i] = None
          BY <1>4, <1>5, <1>10, <3>1, <3>2, <4>1, <5>1, <5>2, <5>3
        <5>4. CASE store[i] # None
          <6>1. x.old[i] # None => x.old[i].version < store[i].version
            BY <3>1, <3>2, <4>2, <5>1, <5>2, <5>4
          <6> QED BY <4>2, <4>3, <5>1, <5>2, <6>1
        <5> QED BY <5>3, <5>4
      <4> QED BY <3>1, <3>2, <4>1, <4>2, <4>4 DEF Modified
    <3> QED BY <3>3, <3>4
  <2> QED BY <1>2, <1>10, <2>1 DEF Marks, x, y
<1> QED BY <1>8, <1>9, <1>10 DEF x, y

(* The last microtask is one that still waits after any earlier one.       *)
LEMMA ApplyMarks ==
  ASSUME TypedInverse, NEW c \in Calls, Apply(c), FindsStore(c), SharedWithStore, LaterMarks,
         ~Async /\ c.op = "upsert" => \A i \in Item : Touches(c, i) => c.data[i] = service[i],
         tracker' = tracker
  PROVE  LaterMarks'
<1>1. AppendedTo(c)
  BY ApplyAppends
<1> DEFINE k == Len(deferred)
<1>2. /\ k \in Nat /\ DOMAIN deferred = 1..k /\ Len(deferred') = k + 1 /\ DOMAIN deferred' = 1..k + 1
  BY <1>1 DEF AppendedTo
<1>3. \A n \in 1..k : Marks(deferred[n]) \subseteq Marks(deferred'[n])
  BY <1>2, MarksKept
<1>4. Marks(deferred'[k + 1]) = Marks(c)
  BY <1>1 DEF AppendedTo, Marks, Modified, Touches
<1>5. \A i \in Item : store'[i].deps # store[i].deps => i \in Marks(c)
  BY ChangesMarked
<1>6. ASSUME NEW i \in Item, NEW n \in 0..k, \E m \in n + 1..k : i \in Marks(deferred[m])
      PROVE  \E m \in n + 1..k + 1 : i \in Marks(deferred'[m])
  <2>1. PICK m \in n + 1..k : i \in Marks(deferred[m])
    BY <1>6
  <2>2. m \in 1..k /\ m \in n + 1..k + 1
    BY <1>2
  <2> QED BY <1>3, <2>1, <2>2
<1>7. ASSUME NEW i \in Item, NEW n \in 0..k, i \in Marks(c)
      PROVE  \E m \in n + 1..k + 1 : i \in Marks(deferred'[m])
  <2>1. k + 1 \in n + 1..k + 1
    BY <1>2
  <2> QED BY <1>4, <1>7, <2>1
<1>8. \A i \in Item : store'[i] = IF Touches(c, i) THEN c.data[i] ELSE store[i]
  BY WrittenFollows DEF Apply, FindsStore
<1>9. /\ \A n \in 1..k : deferred'[n].op = deferred[n].op
                         /\ (deferred'[n].data = deferred[n].data
                             \/ (deferred[n].op = "init" /\ deferred'[n].data = store'))
      /\ deferred'[k + 1].op = c.op /\ deferred'[k + 1].data = c.data
  BY <1>1 DEF AppendedTo, IsLastInit
<1> HIDE DEF k
<1>10. ASSUME NEW i \in Item, tracker'.from[i] # store'[i].deps
       PROVE  \E m \in DOMAIN deferred' : i \in Marks(deferred'[m])
  <2>1. 0 \in 0..k /\ 0 + 1 = 1
    BY <1>2
  <2>2. CASE store'[i].deps = store[i].deps
    <3>1. \E m \in 0 + 1..k : i \in Marks(deferred[m])
      BY <1>2, <1>10, <2>1, <2>2 DEF LaterMarks
    <3> QED BY <1>2, <1>6, <2>1, <3>1
  <2>3. CASE store'[i].deps # store[i].deps
    BY <1>2, <1>5, <1>7, <2>1, <2>3
  <2> QED BY <2>2, <2>3
<1>11. ASSUME NEW i \in Item, NEW n \in DOMAIN deferred',
              Touches(deferred'[n], i), deferred'[n].data[i].deps # store'[i].deps
       PROVE  \E m \in n + 1..Len(deferred') : i \in Marks(deferred'[m])
  <2>1. CASE n = k + 1
    BY <1>8, <1>9, <1>11, <2>1 DEF Touches
  <2>2. CASE n # k + 1
    <3>1. n \in 1..k /\ n \in 0..k
      BY <1>2, <2>2
    <3>2. deferred'[n].data = deferred[n].data /\ deferred'[n].op = deferred[n].op
      BY <1>9, <1>11, <3>1
    <3>3. Touches(deferred[n], i) /\ deferred[n].data[i].deps # store'[i].deps
      BY <1>11, <3>2 DEF Touches
    <3>4. CASE store'[i].deps = store[i].deps
      <4>1. \E m \in n + 1..k : i \in Marks(deferred[m])
        BY <1>2, <3>1, <3>3, <3>4 DEF LaterMarks, k
      <4> QED BY <1>2, <1>6, <3>1, <4>1
    <3>5. CASE store'[i].deps # store[i].deps
      BY <1>2, <1>5, <1>7, <3>1, <3>5
    <3> QED BY <3>4, <3>5
  <2> QED BY <2>1, <2>2
<1> QED BY <1>10, <1>11 DEF LaterMarks

(* Everybody who is owed an event still gets it: by the same microtask, or *)
(* by the new one if the write has changed something on the way.           *)
LEMMA ApplyOwing ==
  ASSUME TypedInverse, NEW c \in Calls, Apply(c), FindsStore(c), SharedWithStore, Owing,
         ~Async /\ c.op = "upsert" => \A i \in Item : Touches(c, i) => c.data[i] = service[i],
         \A n \in DOMAIN deferred : deferred[n].check => c.check
  PROVE  Owing'
<1>1. AppendedTo(c)
  BY ApplyAppends
<1> DEFINE k == Len(deferred)
<1>2. /\ k \in Nat /\ DOMAIN deferred = 1..k /\ DOMAIN deferred' = 1..k + 1
      /\ \A n \in 1..k : deferred'[n].check = deferred[n].check
      /\ deferred'[k + 1].check = c.check
  BY <1>1 DEF AppendedTo
<1>3. Modified(deferred'[k + 1]) = Modified(c)
  BY <1>1 DEF AppendedTo, Modified
<1>4. store \in DataSets /\ store' \in DataSets /\ deferred \in Seq(Calls) /\ deferred' \in Seq(Calls)
  BY ApplyTyped DEF TypedInverse, TypeOK
<1>5. /\ References(store) \in [Item -> SUBSET Item] /\ References(store') \in [Item -> SUBSET Item]
      /\ Graph(store') \in Trackers
  BY <1>4, GraphTyped
<1>6. k + 1 \in DOMAIN deferred'
  BY <1>2
<1> HIDE DEF k
<1>7. SUFFICES ASSUME NEW f \in owed'
               PROVE  \E n \in DOMAIN deferred' :
                        deferred'[n].check /\ f \in ModifiedItems(Graph(store'), Modified(deferred'[n]))
  BY DEF Owing
<1>8. Modified(c) \in SUBSET Item
  BY MarksTyped
<1>9. CASE f \notin owed
  <2>1. c.check /\ f \in Dependents(store', Changed(store'))
    BY <1>7, <1>9 DEF Apply
  <2>2. Changed(store') \subseteq Modified(c)
    BY <2>1, ChangesMarked
  <2>3. f \in ModifiedItems(Graph(store'), Changed(store'))
    BY <2>1 DEF Dependents, Graph, References
  <2>4. f \in ModifiedItems(Graph(store'), Modified(c))
    BY <1>5, <1>8, <2>2, <2>3, ReachGrows DEF Changed
  <2> QED BY <1>2, <1>3, <1>6, <2>1, <2>4
<1>10. CASE f \in owed
  <2>1. PICK n \in DOMAIN deferred :
          deferred[n].check /\ f \in ModifiedItems(Graph(store), Modified(deferred[n]))
    BY <1>10 DEF Owing
  <2>2. deferred[n] \in Calls /\ deferred'[n] \in Calls /\ n \in DOMAIN deferred'
        /\ deferred'[n].check /\ c.check
    BY <1>2, <1>4, <2>1, LenProperties
  <2>3. Modified(deferred[n]) \in SUBSET Item /\ Modified(deferred'[n]) \in SUBSET Item
    BY <2>2, MarksTyped
  <2>4. Modified(deferred[n]) \subseteq Modified(deferred'[n])
    BY <2>1, <2>2, MarksKept DEF Marks
  <2>5. \A i \in Item : References(store')[i] # References(store)[i] => i \in Modified(c)
    BY <2>2, ChangesMarked DEF References, Marks
  <2>6. ModifiedItems(Graph(store), Modified(deferred[n]))
          \subseteq ModifiedItems(Graph(store'), Modified(deferred[n]))
                      \cup ModifiedItems(Graph(store'), Modified(c))
    BY <1>5, <1>8, <2>3, <2>5, ReachMoves DEF Graph
  <2>7. ModifiedItems(Graph(store'), Modified(deferred[n]))
          \subseteq ModifiedItems(Graph(store'), Modified(deferred'[n]))
    BY <1>5, <2>3, <2>4, ReachGrows
  <2>8. CASE f \in ModifiedItems(Graph(store'), Modified(c))
    BY <1>2, <1>3, <1>6, <2>2, <2>8
  <2>9. CASE f \in ModifiedItems(Graph(store'), Modified(deferred'[n]))
    BY <2>2, <2>9
  <2> QED BY <2>1, <2>6, <2>7, <2>8, <2>9
<1> QED BY <1>9, <1>10

(* In memory, the data of the last init stays that of the store.           *)
LEMMA ApplyShares ==
  ASSUME TypedInverse, NEW c \in Calls, Apply(c), FindsStore(c), SharedWithStore,
         ~Async /\ c.op = "upsert" => \A i \in Item : Touches(c, i) => c.data[i] = service[i],
         ~Async /\ c.op = "init" => \A i \in Item :
           c.data[i] = None /\ Visible(store[i]) # None => store[i].version < service[i].version,
         service' = service
  PROVE  SharedWithStore'
<1>1. AppendedTo(c)
  BY ApplyAppends
<1> DEFINE k == Len(deferred)
<1>2. /\ k \in Nat /\ DOMAIN deferred = 1..k /\ Len(deferred') = k + 1 /\ DOMAIN deferred' = 1..k + 1
      /\ \A n \in 1..k : /\ deferred'[n].op = deferred[n].op /\ deferred'[n].check = deferred[n].check
                         /\ deferred'[n].old = deferred[n].old
                         /\ deferred'[n].data = IF ~Async /\ c.op = "upsert" /\ IsLastInit(n)
                                                THEN store' ELSE deferred[n].data
      /\ deferred'[k + 1].op = c.op /\ deferred'[k + 1].data = c.data
      /\ deferred'[k + 1].check = c.check /\ deferred'[k + 1].old = c.old
  BY <1>1 DEF AppendedTo
<1>3. \A i \in Item : store'[i] = IF Touches(c, i) THEN c.data[i] ELSE store[i]
  BY WrittenFollows DEF Apply, FindsStore
<1>4. c.op \in {"init", "upsert"} /\ c.check \in BOOLEAN
  BY DEF Calls
<1>5. \A n \in 1..k : IsLastInit(n) <=>
        deferred[n].op = "init" /\ \A m \in n + 1..k : deferred[m].op # "init"
  BY DEF IsLastInit
<1>6. \A n \in 1..k + 1 : IsLastInit(n)' <=>
        deferred'[n].op = "init" /\ \A m \in n + 1..k + 1 : deferred'[m].op # "init"
  BY <1>2 DEF IsLastInit
<1>7. ~Async => \A n \in 1..k :
        /\ IsLastInit(n) => \A i \in Item : deferred[n].data[i] = store[i]
        /\ deferred[n].check /\ deferred[n].op = "init" => \A i \in Item :
             deferred[n].data[i] = None /\ deferred[n].old[i] # None =>
               deferred[n].old[i].version < service[i].version
  BY <1>2 DEF SharedWithStore
<1> HIDE DEF k
<1>8. SUFFICES ASSUME ~Async, NEW n \in 1..k + 1
               PROVE  /\ IsLastInit(n)' => \A i \in Item : deferred'[n].data[i] = store'[i]
                      /\ deferred'[n].check /\ deferred'[n].op = "init" => \A i \in Item :
                           deferred'[n].data[i] = None /\ deferred'[n].old[i] # None =>
                             deferred'[n].old[i].version < service[i].version
  BY <1>2 DEF SharedWithStore
<1>9. ASSUME IsLastInit(n)', NEW i \in Item PROVE deferred'[n].data[i] = store'[i]
  <2>1. CASE n = k + 1
    BY <1>2, <1>3, <1>6, <1>9, <2>1 DEF Touches
  <2>2. CASE n # k + 1
    <3>1. n \in 1..k /\ k + 1 \in n + 1..k + 1 /\ \A m \in n + 1..k : m \in n + 1..k + 1 /\ m \in 1..k
      BY <1>2, <2>2
    <3>2. c.op = "upsert"
      BY <1>2, <1>4, <1>6, <1>9, <3>1
    <3>3. IsLastInit(n)
      BY <1>2, <1>5, <1>6, <1>9, <3>1
    <3> QED BY <1>2, <1>8, <3>1, <3>2, <3>3
  <2> QED BY <2>1, <2>2
<1>10. ASSUME deferred'[n].check, deferred'[n].op = "init", NEW i \in Item,
              deferred'[n].data[i] = None, deferred'[n].old[i] # None
       PROVE  deferred'[n].old[i].version < service[i].version
  <2>1. CASE n = k + 1
    <3>1. c.check /\ c.op = "init" /\ c.data[i] = None /\ c.old[i] # None
      BY <1>2, <1>10, <2>1
    <3>2. c.old[i] = Visible(store[i])
      BY <3>1 DEF FindsStore
    <3>3. c.old[i] = store[i]
      BY <3>1, <3>2 DEF Visible
    <3> QED BY <1>2, <1>8, <2>1, <3>1, <3>2, <3>3
  <2>2. CASE n # k + 1
    <3>1. n \in 1..k
      BY <1>2, <2>2
    <3>2. CASE deferred'[n].data = deferred[n].data
      BY <1>2, <1>7, <1>8, <1>10, <3>1, <3>2
    <3>3. CASE c.op = "upsert" /\ IsLastInit(n) /\ deferred'[n].data = store'
      <4>1. ~Touches(c, i)
        BY <1>3, <1>10, <3>3 DEF Touches
      <4>2. deferred[n].data[i] = None
        BY <1>3, <1>7, <1>8, <1>10, <3>1, <3>3, <4>1
      <4> QED BY <1>2, <1>7, <1>8, <1>10, <3>1, <4>2
    <3> QED BY <1>2, <3>1, <3>2, <3>3
  <2> QED BY <2>1, <2>2
<1> QED BY <1>9, <1>10

(* A write keeps the part of the invariant that is about microtasks.       *)
LEMMA ApplyAnnounced ==
  ASSUME Announced, NEW c \in Calls, Apply(c), FindsStore(c),
         ~Async /\ c.op = "upsert" => \A i \in Item : Touches(c, i) => c.data[i] = service[i],
         ~Async /\ c.op = "init" => \A i \in Item :
           c.data[i] = None /\ Visible(store[i]) # None => store[i].version < service[i].version,
         c.check => listening, \A n \in DOMAIN deferred : deferred[n].check => c.check,
         UNCHANGED <<service, tracker, listening>>
  PROVE  ListenersStay' /\ SharedWithStore' /\ LaterMarks' /\ Owing'
<1>1. TypedInverse /\ SharedWithStore /\ LaterMarks /\ Owing /\ ListenersStay
  BY DEF Announced, Followed
<1>2. SharedWithStore' /\ LaterMarks' /\ Owing'
  BY <1>1, ApplyShares, ApplyMarks, ApplyOwing
<1>3. AppendedTo(c)
  BY <1>1, ApplyAppends
<1> DEFINE k == Len(deferred)
<1>4. /\ k \in Nat /\ DOMAIN deferred = 1..k /\ DOMAIN deferred' = 1..k + 1
      /\ \A n \in 1..k : deferred'[n].check = deferred[n].check
      /\ deferred'[k + 1].check = c.check
  BY <1>3 DEF AppendedTo
<1> HIDE DEF k
<1>5. \A n \in 1..k + 1 : n \in 1..k \/ n = k + 1
  BY <1>4
<1>6. \A n \in DOMAIN deferred' : deferred'[n].check => listening
  BY <1>1, <1>4, <1>5 DEF ListenersStay
<1>7. ASSUME NEW m \in 1..k + 1, NEW n \in 1..k + 1, m <= n, deferred'[m].check PROVE deferred'[n].check
  <2>1. CASE m \in 1..k /\ n \in 1..k
    BY <1>1, <1>4, <1>7, <2>1 DEF ListenersStay
  <2>2. CASE m \in 1..k /\ n = k + 1
    BY <1>4, <1>7, <2>2
  <2>3. CASE m = k + 1
    <3>1. n = k + 1
      BY <1>4, <1>5, <1>7, <2>3
    <3> QED BY <1>7, <2>3, <3>1
  <2> QED BY <1>5, <2>1, <2>2, <2>3
<1>8. ListenersStay'
  BY <1>4, <1>6, <1>7 DEF ListenersStay
<1> QED BY <1>2, <1>8

(* Where the microtasks, the store and the tracker stay as they are.       *)
LEMMA MicrotasksStay ==
  ASSUME Announced, UNCHANGED <<store, deferred, tracker>>, owed' = owed,
         listening => listening',
         \A i \in Item : service[i].version \in Nat /\ service'[i].version \in Nat
                         /\ service[i].version <= service'[i].version
  PROVE  ListenersStay' /\ SharedWithStore' /\ LaterMarks' /\ Owing'
<1>1. ListenersStay'
  BY DEF Announced, ListenersStay
<1>2. LaterMarks' /\ Owing'
  BY DEF Announced, LaterMarks, Owing, Marks
<1>3. SharedWithStore'
  <2>1. ASSUME ~Async, NEW n \in DOMAIN deferred, deferred[n].check, deferred[n].op = "init", NEW i \in Item,
               deferred[n].data[i] = None, deferred[n].old[i] # None
        PROVE  deferred[n].old[i].version < service'[i].version
    <3>1. deferred[n].old[i].version < service[i].version
      BY <2>1 DEF Announced, SharedWithStore
    <3>2. deferred[n] \in Calls
      BY <2>1, LenProperties DEF Announced, Followed, TypedInverse, TypeOK
    <3>3. deferred[n].old[i].version \in Nat
      BY <3>2, ValueVersions DEF Calls
    <3> QED BY <3>1, <3>3
  <2>2. \A n \in DOMAIN deferred : IsLastInit(n)' <=> IsLastInit(n)
    BY DEF IsLastInit
  <2> QED BY <2>1, <2>2 DEF Announced, SharedWithStore
<1> QED BY <1>1, <1>2, <1>3

(* A call of a friendly data source finds the store as it sees it; over a  *)
(* persistent store nothing else is under way.                             *)
LEMMA CallAnnounced ==
  ASSUME Friendly, Announced, NEW op \in {"init", "upsert"}, NEW data \in DataSets, Call(op, data),
         op = "upsert" => \E i \in Item : \A j \in Item : data[j] # None <=> j = i,
         op = "upsert" => \A i \in Item : data[i] # None => data[i] = service[i],
         op = "init" => \A i \in Item : data[i] = Visible(service[i])
  PROVE  UnderWay' /\ ListenersStay' /\ SharedWithStore' /\ LaterMarks' /\ Owing'
<1> DEFINE c == [id |-> calls, op |-> op, data |-> data, check |-> listening,
                 old |-> [i \in Item |-> None], flagsRead |-> FALSE, changed |-> FALSE]
           d == [c EXCEPT !.old = IF c.check THEN [i \in Item |-> Visible(store[i])] ELSE @]
<1>1. UNCHANGED <<service, past, tracker, listening>>
      /\ \/ Async /\ c.check /\ reads' = reads \cup {c} /\ UNCHANGED <<writes, store, deferred, owed>>
         \/ Async /\ ~c.check /\ writes' = Append(writes, c) /\ UNCHANGED <<reads, store, deferred, owed>>
         \/ ~Async /\ Apply(d) /\ UNCHANGED <<reads, writes>>
  BY DEF Call
<1>2. Async => reads = {} /\ writes = <<>> /\ deferred = <<>>
  BY DEF Call, Friendly
<1>3. /\ c.op = op /\ c.data = data /\ c.check = listening /\ c.flagsRead = FALSE
      /\ d.op = op /\ d.data = data /\ d.check = listening
      /\ listening => d.old = [i \in Item |-> Visible(store[i])]
  OBVIOUS
<1>4. service \in DataSets /\ store \in DataSets /\ listening \in BOOLEAN
      /\ \A i \in Item : OlderOrSame(store[i], service[i])
  BY DEF Announced, Followed, Fresh, TypedInverse, TypeOK
<1>5. d \in Calls
  <2>1. calls \in Nat
    BY UpdatesAssumption DEF Announced, Followed, TypedInverse, TypeOK
  <2>2. [i \in Item |-> None] \in [Item -> Value] /\ [i \in Item |-> Visible(store[i])] \in [Item -> Value]
    BY <1>4, VisibleTyped DEF Value
  <2> QED BY <1>4, <2>1, <2>2 DEF Calls, Touches
<1> HIDE DEF c, d
<1>6. op = "init" => \A i \in Item : data[i] = None \/ OlderOrSame(store[i], data[i])
  BY <1>4 DEF Visible
<1>7. Ahead(c) /\ Ahead(d)
  BY <1>3, <1>6 DEF Ahead
<1>8. PICK x : x = c
  OBVIOUS
<1>9. CASE Async /\ UNCHANGED <<store, deferred, owed>>
  <2>1. \/ x.check /\ reads' = {x} /\ DOMAIN writes' = {}
        \/ ~x.check /\ reads' = {} /\ DOMAIN writes' = 1..1 /\ writes'[1] = x
    BY <1>1, <1>2, <1>8, <1>9, EmptySeq
  <2>2. Ahead(x)' /\ (x.check => listening') /\ x.flagsRead = FALSE
    BY <1>1, <1>3, <1>7, <1>8, <1>9 DEF Ahead
  <2>3. \A y \in reads' \cup {writes'[n] : n \in DOMAIN writes'} : y = x
    BY <2>1
  <2>4. \A y \in reads' \cup {writes'[n] : n \in DOMAIN writes'} : Ahead(y)' /\ (y.check => listening')
    BY <2>2, <2>3
  <2>5. UnderWay'
    BY <2>1, <2>2, <2>4 DEF UnderWay
  <2>6. \A i \in Item : service[i].version \in Nat /\ service'[i].version \in Nat
                        /\ service[i].version <= service'[i].version
    BY <1>1, <1>4, Versions
  <2> QED BY <1>1, <1>9, <2>5, <2>6, MicrotasksStay
<1>10. CASE ~Async /\ Apply(d) /\ UNCHANGED <<reads, writes>>
  <2>1. FindsStore(d)
    BY <1>3, <1>4, <1>7 DEF FindsStore, Touches
  <2>2. d.op = "upsert" => \A i \in Item : Touches(d, i) => d.data[i] = service[i]
    BY <1>3 DEF Touches
  <2>3. ASSUME d.op = "init", NEW i \in Item, d.data[i] = None, Visible(store[i]) # None
        PROVE  store[i].version < service[i].version
    <3>1. Visible(service[i]) = None
      BY <1>3, <2>3
    <3>2. store[i] # service[i]
      BY <2>3, <3>1
    <3> QED BY <1>4, <3>2 DEF OlderOrSame
  <2>4. \A n \in DOMAIN deferred : deferred[n].check => d.check
    BY <1>3 DEF Announced, ListenersStay
  <2>5. reads' = {} /\ writes' = <<>>
    BY <1>10 DEF Announced, Followed, OneAtATime
  <2>6. UnderWay'
    BY <2>5, EmptySeq DEF UnderWay
  <2>7. d.check => listening
    BY <1>3
  <2> QED BY <1>1, <1>5, <1>10, <2>1, <2>2, <2>3, <2>4, <2>6, <2>7, ApplyAnnounced
<1> QED BY <1>1, <1>9, <1>10

(* The data source calls init.                                             *)
LEMMA InitCallAnnounced ==
  ASSUME Friendly, Announced, InitCall
  PROVE  UnderWay' /\ ListenersStay' /\ SharedWithStore' /\ LaterMarks' /\ Owing'
<1> DEFINE data == [i \in Item |-> Visible(service[i])]
<1>1. data \in DataSets
  BY VisibleTyped DEF Announced, Followed, TypedInverse, TypeOK
<1>2. Call("init", data) /\ \A i \in Item : data[i] = Visible(service[i])
  BY DEF InitCall
<1> HIDE DEF data
<1> QED BY <1>1, <1>2, CallAnnounced

(* The data source calls upsert.                                           *)
LEMMA UpsertCallAnnounced ==
  ASSUME Friendly, Announced, NEW i \in Item, UpsertCall(i)
  PROVE  UnderWay' /\ ListenersStay' /\ SharedWithStore' /\ LaterMarks' /\ Owing'
<1>1. PICK v \in Values(i) :
        /\ v = service[i] \/ <<i, v>> \in past
        /\ LET data == [[j \in Item |-> None] EXCEPT ![i] = v]
           IN data \in DataSets /\ Call("upsert", data) /\ \A j \in Item : data[j] # None <=> j = i
  BY UpsertValue DEF Announced, Followed
<1> DEFINE data == [[j \in Item |-> None] EXCEPT ![i] = v]
<1>2. v = service[i] /\ data[i] = v
  BY <1>1 DEF Announced, Followed, Fresh
<1>3. data \in DataSets /\ Call("upsert", data) /\ \A j \in Item : data[j] # None <=> j = i
  BY <1>1
<1> HIDE DEF data
<1>4. \A j \in Item : data[j] # None => data[j] = service[j]
  BY <1>2, <1>3
<1> QED BY <1>3, <1>4, CallAnnounced

(* Versions of the service only grow.                                      *)
LEMMA ServiceGrows ==
  ASSUME TypedInverse, NEW i \in Item, ServiceChanges(i)
  PROVE  \A j \in Item : service[j].version \in Nat /\ service'[j].version \in Nat
                         /\ service[j].version <= service'[j].version
<1>1. service \in DataSets /\ service' \in DataSets
  BY ServiceChangesTyped DEF TypedInverse, TypeOK
<1>2. PICK v \in Values(i) : v.version = service[i].version + 1 /\ service' = [service EXCEPT ![i] = v]
  BY DEF ServiceChanges
<1>3. \A j \in Item : service[j].version \in Nat /\ service'[j].version \in Nat
  BY <1>1, Versions
<1>4. \A j \in Item : service'[j] = IF j = i THEN v ELSE service[j]
  BY <1>1, <1>2 DEF DataSets
<1> QED BY <1>2, <1>3, <1>4

(* What is under way stays so while the store and the calls do.            *)
LEMMA UnderWayStays ==
  ASSUME UnderWay, UNCHANGED <<store, reads, writes>>, listening => listening'
  PROVE  UnderWay'
<1>1. \A c \in reads' \cup {writes'[n] : n \in DOMAIN writes'} : Ahead(c)' /\ (c.check => listening')
  BY DEF UnderWay, Ahead
<1> QED BY <1>1 DEF UnderWay

(* An item changes at the service, or a listener is added.                 *)
LEMMA EnvironmentAnnounced ==
  ASSUME Announced, (\E i \in Item : ServiceChanges(i)) \/ AddListener \/ UNCHANGED vars
  PROVE  UnderWay' /\ ListenersStay' /\ SharedWithStore' /\ LaterMarks' /\ Owing'
<1>1. UNCHANGED <<store, reads, writes, deferred, tracker>> /\ owed' = owed /\ (listening => listening')
  BY DEF ServiceChanges, AddListener, vars
<1>2. service \in DataSets /\ TypedInverse
  BY DEF Announced, Followed, TypedInverse, TypeOK
<1>3. \A j \in Item : service[j].version \in Nat /\ service'[j].version \in Nat
                      /\ service[j].version <= service'[j].version
  <2>1. CASE \E i \in Item : ServiceChanges(i)
    BY <1>2, <2>1, ServiceGrows
  <2>2. CASE AddListener \/ UNCHANGED vars
    <3>1. service' = service
      BY <2>2 DEF AddListener, vars
    <3>2. \A j \in Item : service[j].version \in Nat
      BY <1>2, Versions
    <3> QED BY <3>1, <3>2
  <2> QED BY <2>1, <2>2
<1>4. UnderWay'
  BY <1>1, UnderWayStays DEF Announced
<1> QED BY <1>1, <1>3, <1>4, MicrotasksStay

(* A read is answered with what the store has; nothing else is under way,  *)
(* so that the store still has it when the last answer has come.           *)
LEMMA ReadDoneAnnounced ==
  ASSUME Friendly, Announced, NEW c \in reads, ReadDone(c)
  PROVE  UnderWay' /\ ListenersStay' /\ SharedWithStore' /\ LaterMarks' /\ Owing'
<1>1. c \in Calls /\ reads = {c} /\ writes = <<>> /\ service \in DataSets
  BY DEF Announced, Followed, OneAtATime, TypedInverse, TypeOK
<1>2. UNCHANGED <<envVars, store, deferred, tracker, owed>>
  BY DEF ReadDone
<1> DEFINE asked == IF c.op = "upsert" THEN Item ELSE IF c.flagsRead THEN Segment ELSE Flag
           new == [i \in Item |-> IF i \in asked THEN Visible(store[i]) ELSE c.old[i]]
           read == [c EXCEPT !.old = new, !.flagsRead = TRUE]
<1>3. /\ read.op = c.op /\ read.data = c.data /\ read.check = c.check /\ read.flagsRead = TRUE
      /\ read.old = new
  BY <1>1 DEF Calls
<1>4. IF c.op = "init" /\ ~c.flagsRead
      THEN reads' = (reads \ {c}) \cup {read} /\ UNCHANGED writes
      ELSE reads' = reads \ {c} /\ writes' = Append(writes, read)
  BY Zenon DEF ReadDone
<1>5. c.op \in {"init", "upsert"} /\ c.flagsRead \in BOOLEAN
  BY <1>1 DEF Calls
<1>6. c.op = "init" => \A i \in Flag : new[i] = Visible(store[i])
  <2>1. c.flagsRead => \A i \in Flag : c.old[i] = Visible(store[i])
    BY DEF Announced, UnderWay
  <2> QED BY <2>1 DEF Item
<1>7. c.op = "upsert" \/ c.flagsRead => \A i \in Item : new[i] = Visible(store[i])
  <2>1. c.flagsRead => c.op = "init" /\ \A i \in Flag : c.old[i] = Visible(store[i])
    BY DEF Announced, UnderWay
  <2>2. \A i \in Item : i \in Flag \/ i \in Segment
    BY DEF Item
  <2>3. CASE c.op = "upsert"
    BY <2>3
  <2>4. CASE c.flagsRead
    <3>1. c.op = "init" /\ asked = Segment
      BY <2>1, <2>4
    <3> QED BY <2>1, <2>2, <2>4, <3>1
  <2> QED BY <2>3, <2>4
<1>8. PICK x : x = read
  OBVIOUS
<1>9. x.op = c.op /\ x.data = c.data /\ x.check = c.check /\ x.old = new
  BY <1>3, <1>8
<1> HIDE DEF read, new
<1>10. \/ c.op = "init" /\ reads' = {x} /\ DOMAIN writes' = {}
       \/ (c.op = "upsert" \/ c.flagsRead) /\ reads' = {} /\ DOMAIN writes' = 1..1 /\ writes'[1] = x
  BY <1>1, <1>4, <1>5, <1>8, EmptySeq
<1>11. Ahead(x)' /\ (x.check => listening')
  <2>1. Ahead(c) /\ (c.check => listening)
    BY DEF Announced, UnderWay
  <2> QED BY <1>2, <1>9, <2>1 DEF Ahead, envVars
<1>12. \A y \in reads' \cup {writes'[n] : n \in DOMAIN writes'} : Ahead(y)' /\ (y.check => listening')
  <2>1. \A y \in reads' \cup {writes'[n] : n \in DOMAIN writes'} : y = x
    BY <1>10
  <2> QED BY <1>11, <2>1
<1>13. \A y \in reads' : y.flagsRead => y.op = "init" /\ \A i \in Flag : y.old[i] = Visible(store'[i])
  BY <1>2, <1>6, <1>9, <1>10
<1>14. \A n \in DOMAIN writes' : writes'[n].check => \A i \in Item : writes'[n].old[i] = Visible(store'[i])
  BY <1>2, <1>7, <1>9, <1>10
<1>15. UnderWay'
  BY <1>12, <1>13, <1>14 DEF UnderWay
<1>16. \A j \in Item : service[j].version \in Nat /\ service'[j].version \in Nat
                       /\ service[j].version <= service'[j].version
  BY <1>1, <1>2, Versions DEF envVars
<1> QED BY <1>2, <1>15, <1>16, MicrotasksStay DEF envVars

(* The store has written.                                                  *)
LEMMA WriteDoneAnnounced ==
  ASSUME Friendly, Announced, WriteDone
  PROVE  UnderWay' /\ ListenersStay' /\ SharedWithStore' /\ LaterMarks' /\ Owing'
<1> DEFINE c == Head(writes)
<1>1. writes \in Seq(Calls) /\ writes # <<>> /\ Apply(c)
      /\ UNCHANGED <<service, tracker, listening>> /\ reads' = reads /\ writes' = Tail(writes)
  BY DEF WriteDone, envVars, Announced, Followed, TypedInverse, TypeOK
<1>2. Async /\ reads = {} /\ Len(writes) <= 1 /\ deferred = <<>>
  BY <1>1, EmptySeq DEF Announced, Followed, OneAtATime
<1>3. c = writes[1] /\ 1 \in DOMAIN writes /\ c \in Calls
  BY <1>1, HeadTyped, LenProperties, EmptySeq
<1>4. writes' = <<>>
  <2>1. Len(writes) \in Nat /\ Len(writes) # 0
    BY <1>1, LenProperties, EmptySeq
  <2>2. Tail(writes) \in Seq(Calls) /\ Len(Tail(writes)) = Len(writes) - 1
    BY <1>1, HeadTailProperties
  <2>3. Len(Tail(writes)) = 0
    BY <1>2, <2>1, <2>2
  <2> QED BY <1>1, <2>2, <2>3, EmptySeq
<1>5. UnderWay'
  BY <1>1, <1>2, <1>4, EmptySeq DEF UnderWay
<1>6. FindsStore(c) /\ (c.check => listening)
  <2>1. Ahead(c) /\ (c.check => listening) /\ (c.check => \A i \in Item : c.old[i] = Visible(store[i]))
    BY <1>3 DEF Announced, UnderWay
  <2>2. \A i \in Item : c.op = "upsert" /\ Touches(c, i) => OlderOrSame(store[i], c.data[i])
    BY <1>3 DEF Announced, Followed, Fresh
  <2> QED BY <2>1, <2>2 DEF FindsStore
<1>7. DOMAIN deferred = {}
  BY <1>2, EmptySeq
<1> HIDE DEF c
<1> QED BY <1>1, <1>2, <1>3, <1>5, <1>6, <1>7, ApplyAnnounced

(* A microtask runs: where the tracker it leaves differs from the store, a *)
(* later one finds the item modified.                                      *)
LEMMA RunMarks ==
  ASSUME Announced, RunDeferred
  PROVE  LaterMarks'
<1> DEFINE c == deferred[1]
           k == Len(deferred)
<1>1. /\ deferred \in Seq(Calls) /\ k \in Nat \ {0} /\ c \in Calls /\ c = Head(deferred)
      /\ Len(deferred') = k - 1 /\ DOMAIN deferred = 1..k /\ DOMAIN deferred' = 1..k - 1
      /\ \A n \in 1..k - 1 : deferred'[n] = deferred[n + 1]
  <2>1. deferred \in Seq(Calls) /\ deferred # <<>> /\ deferred' = Tail(deferred)
    BY DEF Announced, Followed, TypedInverse, TypeOK, RunDeferred
  <2> QED BY <2>1, HeadTailProperties, LenProperties, EmptySeq
<1>2. tracker' = Track(c) /\ store' = store
  BY <1>1 DEF RunDeferred
<1>3. \A i \in Item : tracker'.from[i] = IF Touches(c, i) THEN c.data[i].deps ELSE tracker.from[i]
  BY <1>1, <1>2, TrackTyped DEF Announced, Followed, TypedInverse, TypeOK, TrackerInverse
<1>4. \A i \in Marks(c) : Touches(c, i)
  BY <1>1, MarksTyped
<1>5. \A i \in Item :
        /\ tracker.from[i] # store[i].deps => \E m \in 1..k : i \in Marks(deferred[m])
        /\ \A n \in 1..k : Touches(deferred[n], i) /\ deferred[n].data[i].deps # store[i].deps =>
             \E m \in n + 1..k : i \in Marks(deferred[m])
  BY <1>1 DEF Announced, LaterMarks
<1> HIDE DEF c, k
<1>6. ASSUME NEW i \in Item, NEW n \in 0..k - 1, \E m \in n + 2..k : i \in Marks(deferred[m])
      PROVE  \E m \in n + 1..k - 1 : i \in Marks(deferred'[m])
  <2>1. PICK m \in n + 2..k : i \in Marks(deferred[m])
    BY <1>6
  <2>2. m - 1 \in n + 1..k - 1 /\ m - 1 \in 1..k - 1 /\ (m - 1) + 1 = m
    BY <1>1
  <2>3. deferred'[m - 1] = deferred[m]
    BY <1>1, <2>2
  <2>4. Marks(deferred'[m - 1]) = Marks(deferred[m])
    BY <2>3
  <2> QED BY <2>1, <2>2, <2>4
<1>7. ASSUME NEW i \in Item, tracker'.from[i] # store[i].deps
      PROVE  \E m \in 1..k - 1 : i \in Marks(deferred'[m])
  <2>1. \E m \in 2..k : i \in Marks(deferred[m])
    <3>1. CASE Touches(c, i)
      <4>1. 1 \in 1..k /\ 1 + 1 = 2
        BY <1>1
      <4>2. \E m \in 1 + 1..k : i \in Marks(deferred[m])
        BY <1>3, <1>5, <1>7, <3>1, <4>1 DEF c
      <4> QED BY <4>1, <4>2
    <3>2. CASE ~Touches(c, i)
      <4>1. PICK m \in 1..k : i \in Marks(deferred[m])
        BY <1>3, <1>5, <1>7, <3>2
      <4>2. m # 1
        BY <1>4, <3>2, <4>1 DEF c
      <4>3. m \in 2..k
        BY <1>1, <4>2
      <4> QED BY <4>1, <4>3
    <3> QED BY <3>1, <3>2
  <2>2. 0 \in 0..k - 1 /\ 0 + 2 = 2 /\ 0 + 1 = 1
    BY <1>1
  <2> QED BY <1>6, <2>1, <2>2
<1>8. ASSUME NEW i \in Item, NEW n \in 1..k - 1,
             Touches(deferred'[n], i), deferred'[n].data[i].deps # store[i].deps
      PROVE  \E m \in n + 1..k - 1 : i \in Marks(deferred'[m])
  <2>1. n + 1 \in 1..k /\ n \in 0..k - 1 /\ (n + 1) + 1 = n + 2
    BY <1>1
  <2>2. Touches(deferred[n + 1], i) /\ deferred[n + 1].data[i].deps # store[i].deps
    BY <1>1, <1>8
  <2>3. \E m \in n + 2..k : i \in Marks(deferred[m])
    BY <1>5, <2>1, <2>2
  <2> QED BY <1>6, <2>1, <2>3
<1> QED BY <1>1, <1>2, <1>7, <1>8 DEF LaterMarks

(* Whom a microtask does not tell although it would have along the         *)
(* references of the store, a later one will.                              *)
LEMMA RunOwing ==
  ASSUME Announced, RunDeferred
  PROVE  Owing'
<1> DEFINE c == deferred[1]
           k == Len(deferred)
           reached(n) == ModifiedItems(Graph(store), Modified(deferred[n]))
           elsewhere == {i \in Item : \E n \in 2..k : deferred[n].check /\ i \in reached(n)}
<1>1. /\ deferred \in Seq(Calls) /\ k \in Nat \ {0} /\ c \in Calls /\ c = Head(deferred)
      /\ DOMAIN deferred = 1..k /\ DOMAIN deferred' = 1..k - 1
      /\ \A n \in 1..k : deferred[n] \in Calls
      /\ \A n \in 1..k - 1 : deferred'[n] = deferred[n + 1]
  <2>1. deferred \in Seq(Calls) /\ deferred # <<>> /\ deferred' = Tail(deferred)
    BY DEF Announced, Followed, TypedInverse, TypeOK, RunDeferred
  <2> QED BY <2>1, HeadTailProperties, LenProperties, EmptySeq
<1>2. /\ tracker' = Track(c) /\ store' = store
      /\ owed' = owed \ (IF c.check THEN ModifiedItems(Track(c), Modified(c)) \cap Flag ELSE {})
  BY <1>1 DEF RunDeferred
<1>3. Track(c) \in Trackers /\ MapsInverse(Track(c))
  BY <1>1, TrackTyped DEF Announced, Followed, TypedInverse, TypeOK, TrackerInverse
<1>4. store \in DataSets /\ owed \subseteq Flag /\ Modified(c) \in SUBSET Item
  BY <1>1, MarksTyped DEF Announced, Followed, TypedInverse, TypeOK
<1>5. References(store) \in [Item -> SUBSET Item] /\ Graph(store) \in Trackers
  BY <1>4, GraphTyped
<1>6. \A n \in 1..k : Modified(deferred[n]) \in SUBSET Item
  BY <1>1, MarksTyped
<1>7. \A n \in 1..k : c.check => deferred[n].check
  BY <1>1 DEF Announced, ListenersStay
<1>8. LaterMarks'
  BY RunMarks
<1> HIDE DEF c, k
<1>9. ASSUME c.check, NEW i \in Item, Track(c).from[i] # References(store)[i]
      PROVE  i \in elsewhere
  <2>1. PICK m \in 1..k - 1 : i \in Marks(deferred'[m])
    BY <1>1, <1>2, <1>8, <1>9 DEF LaterMarks, References
  <2>2. m + 1 \in 2..k /\ m + 1 \in 1..k /\ deferred'[m] = deferred[m + 1]
    BY <1>1
  <2>3. deferred[m + 1].check
    BY <1>7, <1>9, <2>2
  <2>4. Marks(deferred'[m]) = Marks(deferred[m + 1])
    BY <2>2
  <2>5. i \in Modified(deferred[m + 1])
    BY <2>1, <2>3, <2>4 DEF Marks
  <2>6. i \in reached(m + 1)
    BY <1>5, <1>6, <2>2, <2>5, ReachBegins
  <2> QED BY <2>2, <2>3, <2>6
<1>10. ASSUME NEW i \in elsewhere, NEW j \in Graph(store).to[i] PROVE j \in elsewhere
  <2>1. PICK n \in 2..k : deferred[n].check /\ i \in reached(n)
    BY <1>10
  <2>2. n \in 1..k
    BY <1>1
  <2>3. j \in reached(n)
    BY <1>5, <1>6, <1>10, <2>1, <2>2, ReachCloses
  <2>4. j \in Item
    BY <1>5, <1>6, <2>2, <2>3, ReachBegins
  <2> QED BY <2>1, <2>3, <2>4
<1>11. elsewhere \in SUBSET Item
  OBVIOUS
<1>12. \A f \in elsewhere : \E n \in 1..k - 1 : deferred'[n].check
                              /\ f \in ModifiedItems(Graph(store), Modified(deferred'[n]))
  <2> SUFFICES ASSUME NEW f \in elsewhere
               PROVE  \E n \in 1..k - 1 : deferred'[n].check
                        /\ f \in ModifiedItems(Graph(store), Modified(deferred'[n]))
    OBVIOUS
  <2>1. PICK n \in 2..k : deferred[n].check /\ f \in reached(n)
    OBVIOUS
  <2>2. n - 1 \in 1..k - 1 /\ (n - 1) + 1 = n
    BY <1>1
  <2>3. deferred'[n - 1] = deferred[n]
    BY <1>1, <2>2
  <2>4. Modified(deferred'[n - 1]) = Modified(deferred[n])
    BY <2>3
  <2> QED BY <2>1, <2>2, <2>3, <2>4
<1>13. \A f \in owed : \E n \in 1..k : deferred[n].check /\ f \in reached(n)
  BY <1>1 DEF Announced, Owing
<1> HIDE DEF elsewhere, reached
<1>14. ASSUME NEW f \in owed' PROVE f \in elsewhere
  <2>1. f \in owed /\ f \in Item
    BY <1>2, <1>4, <1>14 DEF Item
  <2>2. PICK n \in 1..k : deferred[n].check /\ f \in reached(n)
    BY <1>13, <2>1
  <2>3. CASE n # 1
    <3>1. n \in 2..k
      BY <1>1, <2>3
    <3> QED BY <2>1, <2>2, <3>1 DEF elsewhere
  <2>4. CASE n = 1
    <3>1. c.check /\ f \in ModifiedItems(Graph(store), Modified(c))
      BY <2>2, <2>4 DEF reached, c
    <3>2. \A i \in elsewhere : Rebuild(References(store)).to[i] \subseteq elsewhere
      BY <1>10 DEF Graph
    <3>3. ModifiedItems(Graph(store), Modified(c)) \subseteq ModifiedItems(Track(c), Modified(c)) \cup elsewhere
      BY <1>3, <1>4, <1>5, <1>9, <1>11, <3>1, <3>2, Detour DEF Graph
    <3>4. f \notin ModifiedItems(Track(c), Modified(c))
      BY <1>2, <1>4, <1>14, <2>1, <3>1
    <3> QED BY <3>1, <3>3, <3>4
  <2> QED BY <2>3, <2>4
<1> QED BY <1>1, <1>2, <1>12, <1>14 DEF Owing

(* A microtask has run: the others are those that waited behind it.        *)
LEMMA RunDeferredAnnounced ==
  ASSUME Announced, RunDeferred
  PROVE  UnderWay' /\ ListenersStay' /\ SharedWithStore' /\ LaterMarks' /\ Owing'
<1> DEFINE k == Len(deferred)
<1>1. /\ k \in Nat \ {0} /\ Len(deferred') = k - 1
      /\ DOMAIN deferred = 1..k /\ DOMAIN deferred' = 1..k - 1
      /\ \A n \in 1..k - 1 : deferred'[n] = deferred[n + 1]
  <2>1. deferred \in Seq(Calls) /\ deferred # <<>> /\ deferred' = Tail(deferred)
    BY DEF Announced, Followed, TypedInverse, TypeOK, RunDeferred
  <2> QED BY <2>1, HeadTailProperties, LenProperties, EmptySeq
<1>2. UNCHANGED <<service, store, listening, reads, writes>>
  BY DEF RunDeferred, envVars
<1>3. UnderWay'
  BY <1>2, UnderWayStays DEF Announced
<1>4. \A n \in 1..k - 1 : n + 1 \in 1..k
  BY <1>1
<1> HIDE DEF k
<1>5. ListenersStay'
  <2>1. \A n \in 1..k : deferred[n].check => listening
    BY <1>1 DEF Announced, ListenersStay
  <2>2. \A m, n \in 1..k : m <= n /\ deferred[m].check => deferred[n].check
    BY <1>1 DEF Announced, ListenersStay
  <2>3. \A m, n \in 1..k - 1 : m <= n => m + 1 <= n + 1
    BY <1>1
  <2> QED BY <1>1, <1>2, <1>4, <2>1, <2>2, <2>3 DEF ListenersStay
<1>6. ASSUME NEW n \in 1..k - 1, IsLastInit(n)' PROVE IsLastInit(n + 1)
  <2>1. deferred[n + 1].op = "init"
    BY <1>1, <1>6 DEF IsLastInit
  <2>2. ASSUME NEW m \in (n + 1) + 1..k PROVE deferred[m].op # "init"
    <3>1. m - 1 \in n + 1..k - 1 /\ m - 1 \in 1..k - 1 /\ (m - 1) + 1 = m
      BY <1>1
    <3>2. deferred'[m - 1].op # "init"
      BY <1>1, <1>6, <3>1 DEF IsLastInit
    <3> QED BY <1>1, <3>1, <3>2
  <2> QED BY <2>1, <2>2 DEF IsLastInit, k
<1>7. SharedWithStore'
  <2>1. ASSUME ~Async
        PROVE  \A n \in 1..k :
          /\ IsLastInit(n) => \A i \in Item : deferred[n].data[i] = store[i]
          /\ deferred[n].check /\ deferred[n].op = "init" => \A i \in Item :
               deferred[n].data[i] = None /\ deferred[n].old[i] # None =>
                 deferred[n].old[i].version < service[i].version
    BY <1>1, <2>1 DEF Announced, SharedWithStore
  <2> QED BY <1>1, <1>2, <1>4, <1>6, <2>1 DEF SharedWithStore
<1> QED BY <1>3, <1>5, <1>7, RunMarks, RunOwing

(* Everybody who is owed an event gets it by a microtask that waits: this  *)
(* is inductive.                                                           *)
LEMMA StepAnnounced == Friendly /\ Announced /\ [Next]_vars => Announced'
<1> SUFFICES ASSUME Friendly, Announced, [Next]_vars PROVE Announced'
  OBVIOUS
<1>1. Followed'
  BY StepFollowed DEF Announced
<1>2. UnderWay' /\ ListenersStay' /\ SharedWithStore' /\ LaterMarks' /\ Owing'
  BY EnvironmentAnnounced, UpsertCallAnnounced, InitCallAnnounced, ReadDoneAnnounced,
     WriteDoneAnnounced, RunDeferredAnnounced DEF Next
<1> QED BY <1>1, <1>2 DEF Announced

(* The same as a theorem of the specification.                             *)
LEMMA AnnouncedEver == Friendly => (Spec => []Announced)
<1> SUFFICES ASSUME Friendly PROVE Spec => []Announced
  OBVIOUS
<1>1. Announced /\ [Next]_vars => Announced'
  BY StepAnnounced
<1> QED BY <1>1, InitAnnounced, PTL DEF Spec

(* For a data source that brings current items, over a store in memory or  *)
(* awaiting every call: when all calls are done, the listeners of every    *)
(* flag that a change of data has reached, directly or through others, have *)
(* been told, however many calls overlap and whatever they change.         *)
THEOREM EveryChangeToldEver == Friendly => (Spec => []EveryChangeTold)
<1>1. Announced => EveryChangeTold
  <2> SUFFICES ASSUME Announced, Quiet PROVE owed = {}
    BY DEF EveryChangeTold
  <2>1. DOMAIN deferred = {}
    BY EmptySeq DEF Quiet
  <2> QED BY <2>1 DEF Announced, Owing
<1> QED BY <1>1, AnnouncedEver, PTL

-----------------------------------------------------------------------------
(***************************************************************************)
(* The fourth theorem is about a persistent store: since no call changes   *)
(* data that a microtask waits with, it finds something modified only if   *)
(* its own write has changed something.                                    *)
(***************************************************************************)
ChangesKnown ==
  /\ ~spurious
  /\ \A n \in DOMAIN deferred : deferred[n].check /\ Modified(deferred[n]) # {} => deferred[n].changed

(* What a write finds modified it has changed, or it is a deleted item.    *)
LEMMA ModifiedChanges ==
  ASSUME TypedInverse, NEW c \in Calls, Apply(c), FindsStore(c), c.check, NEW i \in Modified(c)
  PROVE  store'[i] # store[i] \/ IsTombstone(c.data[i])
<1>1. i \in Item /\ (c.old[i] # None \/ c.data[i] # None)
      /\ ~(c.old[i] # None /\ c.data[i] # None /\ c.data[i].version <= c.old[i].version)
      /\ Touches(c, i)
  BY MarksTyped DEF Modified, Marks
<1>2. store'[i] = c.data[i] /\ c.old[i] = Visible(store[i])
  BY <1>1, WrittenFollows DEF Apply, FindsStore
<1>3. store \in DataSets
  BY DEF TypedInverse, TypeOK
<1>4. ASSUME c.data[i] = store[i], ~IsTombstone(c.data[i]) PROVE FALSE
  <2>1. c.old[i] = c.data[i]
    BY <1>2, <1>4 DEF Visible, IsTombstone
  <2>2. c.data[i].version \in Nat
    BY <1>1, <1>3, <1>4, Versions
  <2> QED BY <1>1, <2>1, <2>2
<1> QED BY <1>2, <1>4

(* The store has written: its microtask knows whether it has changed.      *)
LEMMA WriteDoneKnown ==
  ASSUME Friendly, Announced, ChangesKnown, WriteDone
  PROVE  ChangesKnown'
<1> DEFINE c == Head(writes)
           known == store' # store \/ \E i \in Item : IsTombstone(c.data[i])
           last == [c EXCEPT !.changed = known]
<1>1. writes \in Seq(Calls) /\ writes # <<>> /\ Apply(c) /\ spurious' = spurious /\ TypedInverse
  BY DEF WriteDone, Announced, Followed, TypedInverse, TypeOK
<1>2. deferred = <<>>
  BY <1>1 DEF Announced, Followed, OneAtATime, Friendly
<1>3. c = writes[1] /\ 1 \in DOMAIN writes /\ c \in Calls
  BY <1>1, HeadTyped, LenProperties, EmptySeq
<1>4. FindsStore(c)
  <2>1. Ahead(c) /\ (c.check => \A i \in Item : c.old[i] = Visible(store[i]))
    BY <1>3 DEF Announced, UnderWay
  <2>2. \A i \in Item : c.op = "upsert" /\ Touches(c, i) => OlderOrSame(store[i], c.data[i])
    BY <1>3 DEF Announced, Followed, Fresh
  <2> QED BY <2>1, <2>2 DEF FindsStore
<1>5. last.check = c.check /\ last.op = c.op /\ last.data = c.data /\ last.old = c.old /\ last.changed = known
  BY <1>3 DEF Calls
<1>6. deferred' = Append(SharedData(c), last)
  BY <1>1, Zenon DEF Apply
<1>7. SharedData(c) \in Seq(Calls) /\ Len(SharedData(c)) = 0
  <2>1. store' \in DataSets /\ deferred \in Seq(Calls)
    BY <1>1, <1>3, ApplyTyped DEF TypedInverse, TypeOK
  <2>2. Len(deferred) = 0
    BY <1>2, EmptySeq
  <2> QED BY <1>3, <2>1, <2>2, SharedTyped
<1>8. known \in BOOLEAN
  OBVIOUS
<1>9. c.check => \A i \in Modified(c) : known
  BY <1>1, <1>3, <1>4, ModifiedChanges DEF Modified
<1> HIDE DEF c, last, known
<1>10. DOMAIN deferred' = 1..1 /\ deferred'[1] = last
  BY <1>6, <1>7, AppendProperties
<1>11. Modified(last) = Modified(c)
  BY <1>5 DEF Modified
<1> QED BY <1>1, <1>5, <1>9, <1>10, <1>11 DEF ChangesKnown

(* A microtask sends events only if it finds something modified.           *)
LEMMA RunDeferredKnown ==
  ASSUME Announced, ChangesKnown, RunDeferred
  PROVE  ChangesKnown'
<1> DEFINE c == deferred[1]
           k == Len(deferred)
           events == IF c.check THEN ModifiedItems(Track(c), Modified(c)) \cap Flag ELSE {}
<1>1. /\ deferred \in Seq(Calls) /\ k \in Nat \ {0} /\ c \in Calls /\ c = Head(deferred)
      /\ DOMAIN deferred = 1..k /\ DOMAIN deferred' = 1..k - 1
      /\ \A n \in 1..k - 1 : deferred'[n] = deferred[n + 1]
  <2>1. deferred \in Seq(Calls) /\ deferred # <<>> /\ deferred' = Tail(deferred)
    BY DEF Announced, Followed, TypedInverse, TypeOK, RunDeferred
  <2> QED BY <2>1, HeadTailProperties, LenProperties, EmptySeq
<1>2. spurious' = (spurious \/ (Async /\ events # {} /\ ~c.changed))
  BY <1>1 DEF RunDeferred
<1>3. Track(c) \in Trackers
  BY <1>1, TrackTyped DEF Announced, Followed, TypedInverse, TypeOK, TrackerInverse
<1>4. events # {} => c.check /\ Modified(c) # {}
  BY <1>3, ReachOfNothing
<1>5. c.check /\ Modified(c) # {} => c.changed
  BY <1>1 DEF ChangesKnown
<1>6. ~spurious'
  BY <1>2, <1>4, <1>5 DEF ChangesKnown
<1> HIDE DEF c, k
<1>7. ASSUME NEW n \in 1..k - 1, deferred'[n].check, Modified(deferred'[n]) # {}
      PROVE  deferred'[n].changed
  <2>1. n + 1 \in 1..k /\ deferred'[n] = deferred[n + 1]
    BY <1>1
  <2>2. Modified(deferred'[n]) = Modified(deferred[n + 1])
    BY <2>1
  <2> QED BY <1>1, <1>7, <2>1, <2>2 DEF ChangesKnown
<1> QED BY <1>1, <1>6, <1>7 DEF ChangesKnown

(* Over a persistent store, no other step touches what waits.              *)
LEMMA StepKnown ==
  Friendly /\ Async /\ Announced /\ ChangesKnown /\ [Next]_vars => ChangesKnown'
<1> SUFFICES ASSUME Friendly, Async, Announced, ChangesKnown, [Next]_vars PROVE ChangesKnown'
  OBVIOUS
<1>1. CASE UNCHANGED <<deferred, spurious>>
  BY <1>1 DEF ChangesKnown
<1>2. ASSUME \E i \in Item : ServiceChanges(i) \/ UpsertCall(i) PROVE UNCHANGED <<deferred, spurious>>
  BY <1>2 DEF ServiceChanges, UpsertCall, Call
<1>3. ASSUME AddListener \/ InitCall \/ UNCHANGED vars PROVE UNCHANGED <<deferred, spurious>>
  BY <1>3 DEF AddListener, InitCall, Call, vars
<1>4. ASSUME \E c \in reads : ReadDone(c) PROVE UNCHANGED <<deferred, spurious>>
  BY <1>4 DEF ReadDone
<1> QED BY <1>1, <1>2, <1>3, <1>4, WriteDoneKnown, RunDeferredKnown DEF Next

(* Over a persistent store whose calls are awaited: no event is sent for a *)
(* write that changed nothing, be it of an item or of all data.            *)
THEOREM NoSpuriousEventsEver == Friendly /\ Async => (Spec => []NoSpuriousEvents)
<1>1. Init => ChangesKnown
  BY EmptySeq DEF Init, ChangesKnown
<1>2. Friendly /\ Async => (Spec => [](Announced /\ ChangesKnown))
  <2> SUFFICES ASSUME Friendly, Async PROVE Spec => [](Announced /\ ChangesKnown)
    OBVIOUS
  <2>1. Announced /\ ChangesKnown /\ [Next]_vars => Announced' /\ ChangesKnown'
    BY StepAnnounced, StepKnown
  <2> QED BY <1>1, <2>1, InitAnnounced, PTL DEF Spec
<1>3. ChangesKnown => NoSpuriousEvents
  BY DEF ChangesKnown, NoSpuriousEvents
<1> QED BY <1>2, <1>3, PTL
=============================================================================
