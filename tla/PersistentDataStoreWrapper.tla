--------------------- MODULE PersistentDataStoreWrapper ---------------------
(***************************************************************************)
(* shared/sdk-server/src/store/PersistentDataStoreWrapper.ts: the feature  *)
(* store in front of a database.  Writes (init, upsert, delete) go through *)
(* an UpdateQueue; reads (get, all, initialized) go to the database at any *)
(* time, in parallel with the writes and with each other; two TTL caches   *)
(* are filled by the answers to both.                                      *)
(*                                                                         *)
(* A call to the database (the PersistentDataStore interface, "core") is   *)
(* three steps: it is sent by the wrapper, served by the database, and its *)
(* answer is handled by the wrapper.  Anything may happen in between.      *)
(*                                                                         *)
(* One data kind is modelled: flags and segments share only the fact that  *)
(* upsert clears the lists of both.  The contents of an item are a         *)
(* function of its version.  Serialized data that cannot be parsed reads   *)
(* as a deleted item (deserialize), so such items are not told apart.      *)
(***************************************************************************)
EXTENDS Naturals, Sequences, FiniteSets

CONSTANTS
  Key,                 \* keys of the kind
  Reader,              \* callers of get, all and initialized, one call each at a time
  MaxVersion,          \* bound: versions are 1..MaxVersion
  MaxWrites,           \* bound: calls of init, upsert and delete
  MaxForeign,          \* bound: writes of other processes to the same database
  Caching,             \* whether the ttl is not 0
  TombstoneHasBody,    \* whether the database keeps a serializedItem for deleted items
  CoreMayFail          \* whether calls to the database may fail

ASSUME WrapperAssumption ==
  /\ Key # {} /\ Reader # {}
  /\ MaxVersion \in Nat \ {0} /\ MaxWrites \in Nat /\ MaxForeign \in Nat
  /\ {Caching, TombstoneHasBody, CoreMayFail} \subseteq BOOLEAN

Item == [version : 1..MaxVersion, deleted : BOOLEAN]

(* Version 0 stands for "nothing": no row, no cache entry, undefined.      *)
NoItem == [version |-> 0, deleted |-> TRUE]

MaybeItem == Item \cup {NoItem}

(* What init is given: the payload of the service has no deleted items.    *)
DataSet == [Key -> {i \in MaybeItem : i.version > 0 => ~i.deleted}]

(* The calls that go through the queue; id tells equal calls apart.        *)
Write ==
  [id : 1..MaxWrites, op : {"init"}, data : DataSet] \cup
  [id : 1..MaxWrites, op : {"upsert"}, key : Key, item : Item]

VARIABLES
  queue, running, timers, enqueued, started, called,   \* of UpdateQueue
  isInitialized,       \* this.isInitialized
  itemCache,           \* this.itemCache, without its '$checkedInit' entry
  checkedInit,         \* whether this.itemCache has a '$checkedInit' entry
  allCache,            \* this.allItemsCache: <<>> or a list of items, <<[Key -> MaybeItem]>>
  coreWrite,           \* the init or upsert of the running job at the database
  reading,             \* [Reader -> the call the reader waits for]
  db, dbInited,        \* the database: its rows, and its "inited" token
  foreign,             \* number of writes of other processes so far
  tainted, allTainted  \* ghosts: cache entries with a known reason to differ from db

queueVars == <<queue, running, timers, enqueued, started, called>>
cacheVars == <<isInitialized, itemCache, checkedInit, allCache>>
dbVars    == <<db, dbInited, foreign>>
ghostVars == <<tainted, allTainted>>
vars == <<queueVars, cacheVars, coreWrite, reading, dbVars, ghostVars>>

Queue == INSTANCE UpdateQueue WITH Job <- Write

(* A read at the database: the keys it asks for, its answer, and a ghost:  *)
(* whether one of those keys was written after the read was served.        *)
Idle == [op |-> "idle", keys |-> {}, stage |-> "idle", reply |-> <<>>, dirty |-> FALSE]

(* The outstanding write: its answer, whether it failed, and a ghost: the  *)
(* keys that another process wrote after it was served.                    *)
NoWrite == [stage |-> "idle", reply |-> NoItem, failed |-> FALSE, dirty |-> {}]

Init ==
  /\ Queue!Init
  /\ isInitialized = FALSE
  /\ itemCache = [k \in Key |-> NoItem]
  /\ checkedInit = FALSE
  /\ allCache = <<>>
  /\ coreWrite = NoWrite
  /\ reading = [r \in Reader |-> Idle]
  /\ db \in {[k \in Key |-> NoItem]} \cup {d \in DataSet : \A k \in Key : d[k].version = 1}
  /\ dbInited = (\E k \in Key : db[k] # NoItem)
  /\ foreign = 0
  /\ tainted = {} /\ allTainted = FALSE

-----------------------------------------------------------------------------
(* Writes.                                                                 *)

(* The update function that this turn runs, if it runs one: upsert clears  *)
(* the lists first, then calls core.upsert; init calls core.init.          *)
RunUpdateKeepsLists ==   \* mutation: upsert does not clear allItemsCache
  IF started' # started
  THEN coreWrite' = [NoWrite EXCEPT !.stage = "sent"] /\ UNCHANGED allCache
  ELSE UNCHANGED <<coreWrite, allCache>>

RunUpdate ==
  IF started' # started
  THEN /\ coreWrite' = [NoWrite EXCEPT !.stage = "sent"]
       /\ allCache' = IF started'[Len(started')].op = "upsert" THEN <<>> ELSE allCache
  ELSE UNCHANGED <<coreWrite, allCache>>

Enqueue(w) ==
  /\ w.id = Len(enqueued) + 1
  /\ Queue!Enqueue(w)
  /\ RunUpdate
  /\ UNCHANGED <<isInitialized, itemCache, checkedInit, reading, dbVars, ghostVars>>

(* init(allData) *)
InitStore(data) == Enqueue([id |-> Len(enqueued) + 1, op |-> "init", data |-> data])

(* upsert(kind, data); delete(kind, key, version) upserts a deleted item.  *)
Upsert(k, item) ==
  Enqueue([id |-> Len(enqueued) + 1, op |-> "upsert", key |-> k, item |-> item])

TimerFires ==
  /\ Queue!TimerFires
  /\ RunUpdate
  /\ UNCHANGED <<isInitialized, itemCache, checkedInit, reading, dbVars, ghostVars>>

(* afterStoreInit: core.init has no way to report a failure.               *)
InitDone(w) ==
  /\ isInitialized' = TRUE
  /\ IF Caching
     THEN /\ checkedInit' = FALSE
          /\ allCache' = <<w.data>>
          /\ itemCache' = w.data
     ELSE UNCHANGED <<itemCache, checkedInit, allCache>>
  /\ tainted' = IF coreWrite.failed THEN Key ELSE coreWrite.dirty
  /\ allTainted' = (tainted' # {})

(* The callback of core.upsert.  For a deleted item without serializedItem *)
(* the code sets the cache entry named data.key, which nothing reads: the  *)
(* entry of cacheKey(kind, data.key) stays as it was.                      *)
UpsertDoneCachesArgument(w) ==   \* mutation: data is cached, not updatedDescriptor
  /\ IF ~Caching \/ coreWrite.failed \/ (coreWrite.reply.deleted /\ ~TombstoneHasBody)
     THEN UNCHANGED <<itemCache, tainted>>
     ELSE /\ itemCache' = [itemCache EXCEPT ![w.key] = w.item]
          /\ tainted' = (tainted \ {w.key}) \cup coreWrite.dirty
  /\ UNCHANGED <<isInitialized, checkedInit, allCache, allTainted>>

UpsertDone(w) ==
  /\ IF ~Caching \/ coreWrite.failed \/ (coreWrite.reply.deleted /\ ~TombstoneHasBody)
     THEN UNCHANGED <<itemCache, tainted>>
     ELSE /\ itemCache' = [itemCache EXCEPT ![w.key] = coreWrite.reply]
          /\ tainted' = (tainted \ {w.key}) \cup coreWrite.dirty
  /\ UNCHANGED <<isInitialized, checkedInit, allCache, allTainted>>

(* The database has answered the running write: its callback runs, then    *)
(* the newCb of the queue and the callback of the caller.                  *)
WriteDoneUnlessFailed(w) ==   \* mutation: cb() is called only if there was no error
  /\ w \in running
  /\ coreWrite.stage = "served" /\ ~coreWrite.failed
  /\ Queue!Complete(w)
  /\ IF w.op = "init" THEN InitDone(w) ELSE UpsertDone(w)
  /\ coreWrite' = NoWrite
  /\ UNCHANGED <<reading, dbVars>>

WriteDone(w) ==
  /\ w \in running
  /\ coreWrite.stage = "served"
  /\ Queue!Complete(w)
  /\ IF w.op = "init" THEN InitDone(w) ELSE UpsertDone(w)
  /\ coreWrite' = NoWrite
  /\ UNCHANGED <<reading, dbVars>>

-----------------------------------------------------------------------------
(* Reads.  A call that a cache answers changes nothing and is not a step.  *)

Send(r, op, keys) ==
  /\ reading[r] = Idle
  /\ reading' = [reading EXCEPT ![r] =
       [op |-> op, keys |-> keys, stage |-> "sent", reply |-> <<>>, dirty |-> FALSE]]
  /\ UNCHANGED <<queueVars, cacheVars, coreWrite, dbVars, ghostVars>>

Get(r, k) == itemCache[k] = NoItem /\ Send(r, "get", {k})

All(r) == allCache = <<>> /\ Send(r, "all", Key)

Initialized(r) == ~isInitialized /\ ~checkedInit /\ Send(r, "initialized", {})

HasBody(item) == item # NoItem /\ (item.deleted => TombstoneHasBody)

(* itemIfNotDeleted: what of an item all() lists.                          *)
Visible(item) == IF item.deleted THEN NoItem ELSE item

(* The callback of core.get: nothing is cached for an absent item.         *)
GetDone(r) ==
  /\ reading[r].op = "get" /\ reading[r].stage = "served"
  /\ IF Caching /\ HasBody(reading[r].reply[1])
     THEN \E k \in reading[r].keys :
            /\ itemCache' = [itemCache EXCEPT ![k] = reading[r].reply[1]]
            /\ tainted' = IF reading[r].dirty THEN tainted \cup {k} ELSE tainted \ {k}
     ELSE UNCHANGED <<itemCache, tainted>>
  /\ reading' = [reading EXCEPT ![r] = Idle]
  /\ UNCHANGED <<queueVars, isInitialized, checkedInit, allCache, coreWrite, dbVars, allTainted>>

UpsertUnderWay == coreWrite.stage = "sent" /\ \E w \in running : w.op = "upsert"

(* The callback of core.getAll: undefined (<<>>) is answered, not cached.  *)
AllDoneIfDefined(r) ==   \* mutation: an undefined answer is dropped
  /\ reading[r].op = "all" /\ reading[r].stage = "served"
  /\ reading[r].reply # <<>>
  /\ IF Caching
     THEN /\ allCache' = <<[k \in Key |-> Visible(reading[r].reply[1][k])]>>
          /\ allTainted' = (reading[r].dirty \/ UpsertUnderWay)
     ELSE UNCHANGED <<allCache, allTainted>>
  /\ reading' = [reading EXCEPT ![r] = Idle]
  /\ UNCHANGED <<queueVars, isInitialized, itemCache, checkedInit, coreWrite, dbVars, tainted>>

AllDone(r) ==
  /\ reading[r].op = "all" /\ reading[r].stage = "served"
  /\ IF Caching /\ reading[r].reply # <<>>
     THEN /\ allCache' = <<[k \in Key |-> Visible(reading[r].reply[1][k])]>>
          /\ allTainted' = (reading[r].dirty \/ UpsertUnderWay)
     ELSE UNCHANGED <<allCache, allTainted>>
  /\ reading' = [reading EXCEPT ![r] = Idle]
  /\ UNCHANGED <<queueVars, isInitialized, itemCache, checkedInit, coreWrite, dbVars, tainted>>

(* The callback of core.initialized assigns the answer, whatever has       *)
(* happened to isInitialized since the question was sent.                  *)
InitializedDone(r) ==
  /\ reading[r].op = "initialized" /\ reading[r].stage = "served"
  /\ isInitialized' = reading[r].reply[1]
  /\ checkedInit' = IF Caching /\ ~isInitialized' THEN TRUE ELSE checkedInit
  /\ reading' = [reading EXCEPT ![r] = Idle]
  /\ UNCHANGED <<queueVars, itemCache, allCache, coreWrite, dbVars, ghostVars>>

-----------------------------------------------------------------------------
(* The TTL.                                                                *)

(* A record of a TtlCache passes its expiration: get and the purge timer   *)
(* delete it.                                                              *)
ExpireItem(k) ==
  /\ itemCache[k] # NoItem
  /\ itemCache' = [itemCache EXCEPT ![k] = NoItem]
  /\ UNCHANGED <<queueVars, isInitialized, checkedInit, allCache, coreWrite, reading, dbVars, ghostVars>>

ExpireAll ==
  /\ allCache # <<>>
  /\ allCache' = <<>>
  /\ UNCHANGED <<queueVars, isInitialized, itemCache, checkedInit, coreWrite, reading, dbVars, ghostVars>>

ExpireCheckedInit ==
  /\ checkedInit
  /\ checkedInit' = FALSE
  /\ UNCHANGED <<queueVars, isInitialized, itemCache, allCache, coreWrite, reading, dbVars, ghostVars>>

(* close(): the caches are cleared; what is queued or at the database goes *)
(* on, and fills them again.                                               *)
Close ==
  /\ itemCache' = [k \in Key |-> NoItem] /\ allCache' = <<>> /\ checkedInit' = FALSE
  /\ UNCHANGED <<queueVars, isInitialized, coreWrite, reading, dbVars, ghostVars>>

-----------------------------------------------------------------------------
(* The database, as the PersistentDataStore interface describes it.        *)

(* The rows of the keys in changed become those of newDb: reads that were  *)
(* served before and are not handled yet bring an old value.               *)
ChangeRows(changed, newDb) ==
  /\ db' = newDb
  /\ reading' = [r \in Reader |->
       IF reading[r].stage = "served" /\ reading[r].keys \cap changed # {}
       THEN [reading[r] EXCEPT !.dirty = TRUE]
       ELSE reading[r]]

Served(reply, failed) ==
  coreWrite' = [stage |-> "served", reply |-> reply, failed |-> failed, dirty |-> {}]

(* core.init: all previous data is discarded, atomically.                  *)
ServeInit(w) ==
  /\ w.op = "init"
  /\ dbInited' = TRUE
  /\ ChangeRows({k \in Key : db[k] # w.data[k]}, w.data)
  /\ Served(NoItem, FALSE)
  /\ UNCHANGED ghostVars

(* core.upsert: an item that is not newer is refused, and the answer is    *)
(* the item that the database has afterwards.                              *)
ServeUpsert(w) ==
  /\ w.op = "upsert"
  /\ IF db[w.key].version >= w.item.version
     THEN /\ Served(db[w.key], FALSE)
          /\ UNCHANGED <<db, reading>>
     ELSE /\ Served(w.item, FALSE)
          /\ ChangeRows({w.key}, [db EXCEPT ![w.key] = w.item])
  /\ UNCHANGED <<dbInited, ghostVars>>

(* A call that fails: an upsert may have been applied before the failure.  *)
ServeFailure(w) ==
  /\ CoreMayFail
  /\ Served(NoItem, TRUE)
  /\ \/ UNCHANGED <<db, reading, ghostVars>>
     \/ /\ w.op = "upsert" /\ db[w.key].version < w.item.version
        /\ ChangeRows({w.key}, [db EXCEPT ![w.key] = w.item])
        /\ tainted' = tainted \cup {w.key}
        /\ UNCHANGED allTainted
  /\ UNCHANGED dbInited

ServeWrite(w) ==
  /\ w \in running
  /\ coreWrite.stage = "sent"
  /\ ServeInit(w) \/ ServeUpsert(w) \/ ServeFailure(w)
  /\ UNCHANGED <<queueVars, cacheVars, foreign>>

(* What a read finds; a failing database answers undefined or false.       *)
Answers(r) ==
  CASE reading[r].op = "get" ->
         {<<db[k]>> : k \in reading[r].keys} \cup (IF CoreMayFail THEN {<<NoItem>>} ELSE {})
    [] reading[r].op = "all" -> {<<db>>} \cup (IF CoreMayFail THEN {<<>>} ELSE {})
    [] OTHER                 -> {<<dbInited>>} \cup (IF CoreMayFail THEN {<<FALSE>>} ELSE {})

ServeRead(r) ==
  /\ reading[r].stage = "sent"
  /\ \E a \in Answers(r) : reading' = [reading EXCEPT ![r].stage = "served", ![r].reply = a]
  /\ UNCHANGED <<queueVars, cacheVars, coreWrite, dbVars, ghostVars>>

(* Another process writes to the same database: an upsert, or the init     *)
(* that every SDK instance does when it starts.                            *)
ForeignWrite(newDb) ==
  LET changed == {k \in Key : db[k] # newDb[k]}
  IN /\ foreign < MaxForeign
     /\ foreign' = foreign + 1
     /\ ChangeRows(changed, newDb)
     /\ coreWrite' = IF coreWrite.stage = "served" THEN [coreWrite EXCEPT !.dirty = @ \cup changed]
                                                   ELSE coreWrite
     /\ tainted' = tainted \cup changed
     /\ allTainted' = (allTainted \/ changed # {})
     /\ UNCHANGED <<queueVars, cacheVars>>

ForeignUpsert(k, item) ==
  /\ db[k].version < item.version
  /\ ForeignWrite([db EXCEPT ![k] = item])
  /\ UNCHANGED dbInited

ForeignInit(data) == ForeignWrite(data) /\ dbInited' = TRUE

-----------------------------------------------------------------------------
WriteStep(w) == ServeWrite(w) \/ WriteDone(w)

ReadStep(r) == ServeRead(r) \/ GetDone(r) \/ AllDone(r) \/ InitializedDone(r)

Next ==
  \/ \E data \in DataSet : Len(enqueued) < MaxWrites /\ InitStore(data)
  \/ \E k \in Key, item \in Item : Len(enqueued) < MaxWrites /\ Upsert(k, item)
  \/ TimerFires
  \/ \E i \in DOMAIN enqueued : WriteStep(enqueued[i])
  \/ \E r \in Reader : All(r) \/ Initialized(r) \/ ReadStep(r)
  \/ \E r \in Reader, k \in Key : Get(r, k)
  \/ \E k \in Key : ExpireItem(k)
  \/ ExpireAll \/ ExpireCheckedInit \/ Close
  \/ \E k \in Key, item \in Item : ForeignUpsert(k, item)
  \/ \E data \in DataSet : ForeignInit(data)

(* The event loop runs its timers, and the database answers every call.    *)
Fairness ==
  /\ WF_vars(TimerFires)
  /\ WF_vars(\E i \in DOMAIN enqueued : WriteStep(enqueued[i]))
  /\ \A r \in Reader : WF_vars(ReadStep(r))

Spec == Init /\ [][Next]_vars /\ Fairness

-----------------------------------------------------------------------------
TypeOK ==
  /\ Queue!TypeOK
  /\ isInitialized \in BOOLEAN /\ checkedInit \in BOOLEAN
  /\ itemCache \in [Key -> MaybeItem]
  /\ allCache = <<>> \/ (Len(allCache) = 1 /\ allCache[1] \in [Key -> MaybeItem])
  /\ coreWrite \in [stage : {"idle", "sent", "served"}, reply : MaybeItem,
                    failed : BOOLEAN, dirty : SUBSET Key]
  /\ \A r \in Reader :
       /\ reading[r].op \in {"idle", "get", "all", "initialized"}
       /\ reading[r].stage \in {"idle", "sent", "served"}
       /\ reading[r].keys \in SUBSET Key /\ reading[r].dirty \in BOOLEAN
       /\ reading[r].op = "get" => \E k \in Key : reading[r].keys = {k}
       /\ reading[r].stage = "served" =>
            CASE reading[r].op = "get" -> \E i \in MaybeItem : reading[r].reply = <<i>>
              [] reading[r].op = "all" -> \/ reading[r].reply = <<>>
                                          \/ \E d \in [Key -> MaybeItem] : reading[r].reply = <<d>>
              [] OTHER                 -> \E b \in BOOLEAN : reading[r].reply = <<b>>
  /\ db \in [Key -> MaybeItem] /\ dbInited \in BOOLEAN
  /\ foreign \in 0..MaxForeign
  /\ tainted \in SUBSET Key /\ allTainted \in BOOLEAN

(* At most one write of this process was sent to the database and is not   *)
(* called back (RedisCore.upsert relies on it for WATCH), and the queue    *)
(* never waits for a write that the wrapper has not sent.                  *)
OneWriteAtTheDatabase ==
  /\ Len(started) <= Len(called) + 1
  /\ coreWrite.stage # "idle" <=> running # {}

(* The queue, as the wrapper uses it, never overlaps two writes, never     *)
(* loses a wakeup, and starts and calls back what it was given in order.   *)
QueueInOrder == Queue!Inv

(* Keys whose cache entry the running write is about to bring up to date.  *)
BeingWritten ==
  IF coreWrite.stage # "served" THEN {}
  ELSE UNION {IF w.op = "init" THEN Key ELSE {w.key} : w \in running}

(* A deletion that the database keeps without a serializedItem is not      *)
(* cached: the item that was there stays (see UpsertDone).                 *)
MissedDeletion(k) == ~HasBody(db[k]) /\ itemCache[k].version < db[k].version

(* The item cache holds what the database holds, but for the keys that the *)
(* running write will refresh, for deletions it does not notice, and for   *)
(* three known causes: another process wrote, a write failed, or a get was *)
(* overtaken by a write.                                                   *)
ItemCacheCoherent ==
  \A k \in Key \ (tainted \cup BeingWritten) :
    itemCache[k] # NoItem => itemCache[k] = db[k] \/ MissedDeletion(k)

(* The cached list of all items is the list of the database, but for the   *)
(* same causes and one more: a list cached between the start of an upsert  *)
(* and the moment the database applies it.                                 *)
AllCacheCoherent ==
  allCache # <<>> /\ ~allTainted /\ BeingWritten = {} =>
    \A k \in Key : allCache[1][k] = Visible(db[k])

(* initialized() answers TRUE only if somebody has initialized the database *)
(* or an init of this process has been called back (core.init cannot report *)
(* that it failed).                                                         *)
InitializedIsPopulated ==
  isInitialized /\ (\A n \in DOMAIN called : called[n].op # "init") => dbInited

(* What the wrapper remembers of the database is so.                       *)
RemembersTheDatabase == ItemCacheCoherent /\ AllCacheCoherent /\ InitializedIsPopulated

(* A cached item is replaced by an older one only by an init, by an answer *)
(* that a later write has overtaken at the database, or when the entry had *)
(* a known reason to be wrong: answers are otherwise applied in the order  *)
(* in which the database gave them, whichever call they belong to.         *)
OnlyRacesTurnCacheBack ==
  [][\A k \in Key : 0 < itemCache'[k].version /\ itemCache'[k].version < itemCache[k].version =>
       \/ coreWrite.stage = "served" /\ \E w \in running : w.op = "init"
       \/ \E r \in Reader : reading[r].op = "get" /\ k \in reading[r].keys /\ reading[r].dirty
       \/ k \in coreWrite.dirty
       \/ k \in tainted]_vars

-----------------------------------------------------------------------------
(* Writes are called back in the order of the calls, every one of them.    *)
Service == INSTANCE FifoService WITH Job <- Write, accepted <- enqueued, answered <- called

WritesServedInOrder == Service!Spec

(* Every read that goes to the database is answered.                       *)
ReadsAnswered == \A r \in Reader : reading[r] # Idle ~> reading[r] = Idle

(* Test "after something is upserted, then the cache is not used for       *)
(* getting all values": once every write is called back, where all of them *)
(* were upserts, nobody else writes and nothing fails, a cached list shows *)
(* what was upserted.                                                      *)
UpsertsShowInAll ==
  queue = <<>> /\ allCache # <<>> /\ (\A n \in DOMAIN called : called[n].op = "upsert") =>
    \A n \in DOMAIN called : allCache[1][called[n].key] = Visible(db[called[n].key])
=============================================================================
