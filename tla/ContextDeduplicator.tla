------------------------ MODULE ContextDeduplicator ------------------------
(***************************************************************************)
(* The two users of LruCache.  BigSegmentsManager gets and sets values     *)
(* with a maximum age; shared/sdk-server/src/events/ContextDeduplicator.ts *)
(* gets and sets TRUE for the contexts it sees and clears the cache every  *)
(* contextKeysFlushInterval.                                               *)
(***************************************************************************)
EXTENDS LruCache, Sequences

CONSTANT MaxTime   \* bound: the clock

VARIABLES cache,
          now,      \* Date.now()
          answer,   \* the last call and what it answered
          cleared,  \* ghost: flush() was called before
          seen      \* ghost: keys that were set since the last flush

vars == <<cache, now, answer, cleared, seen>>

Init == cache = NewCache /\ now = 0 /\ answer = <<"", Nothing>> /\ cleared = FALSE /\ seen = {}

Set(k, v) ==
  /\ cache' = Put(cache, k, v, now)
  /\ seen' = seen \cup {k}
  /\ answer' = <<"set", Nothing>>
  /\ UNCHANGED <<now, cleared>>

Get(k) ==
  /\ answer' = <<"get", Found(cache, k, now)>>
  /\ cache' = Got(cache, k, now)
  /\ UNCHANGED <<now, cleared, seen>>

Tick == MaxAge > 0 /\ now < MaxTime /\ now' = now + 1 /\ UNCHANGED <<cache, answer, cleared, seen>>

True == CHOOSE v \in Value : TRUE

(* processContext(context): get, then set.  It answers TRUE if the context *)
(* was not found.                                                          *)
ProcessContext(k) ==
  /\ answer' = <<"use", Found(cache, k, now)>>
  /\ cache' = Put(Got(cache, k, now), k, True, now)
  /\ seen' = seen \cup {k}
  /\ UNCHANGED <<now, cleared>>

Flush ==
  /\ cache' = Clear(cache)
  /\ answer' = <<"clear", Nothing>>
  /\ seen' = {} /\ cleared' = TRUE
  /\ UNCHANGED now

Next == (\E k \in Key : Get(k) \/ ProcessContext(k) \/ \E v \in Value : Set(k, v)) \/ Tick \/ Flush

Spec == Init /\ [][Next]_vars

-----------------------------------------------------------------------------
TypeOK == /\ cache \in Caches /\ now \in 0..MaxTime /\ answer[2] \in Value \cup {Nothing}
          /\ cleared \in BOOLEAN /\ seen \subseteq Key

(* Until it is cleared for the first time, the linked list does what a     *)
(* sequence of the most recently used keys does: the same keys are found,  *)
(* with the same values, and the same keys are evicted.                    *)
List ==
  LET nth == Nth(cache) IN
  [n \in DOMAIN nth |-> [key |-> cache.keys[nth[n]], value |-> cache.values[nth[n]],
                         since |-> cache.lastUpdated[nth[n]]]]

Recent == INSTANCE RecentlyUsed WITH recent <- IF cleared THEN <<>> ELSE List,
                                     answer <- IF cleared THEN <<"clear", Nothing>> ELSE answer

ImplementsRecentlyUsed == Recent!Spec

(* Until then the map finds the slots of exactly the keys in the list.     *)
MapMatchesList ==
  ~cleared =>
    LET nth == Nth(cache) IN
    /\ \A k \in Key : cache.keyMap[k] # Nothing => cache.keys[cache.keyMap[k]] = k
    /\ {cache.keyMap[k] : k \in Key} \ {Nothing} = {nth[n] : n \in DOMAIN nth}

(* flush "forgets any cached user information, so all subsequent contexts  *)
(* will be treated as new": a context is found only if it was processed    *)
(* since the last flush.                                                   *)
FoundIfSeen == \A k \in Key : Found(cache, k, now) # Nothing => k \in seen
=============================================================================
