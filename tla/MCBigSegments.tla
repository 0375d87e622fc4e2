---------------------------- MODULE MCBigSegments ----------------------------
(***************************************************************************)
(* A TLC instance of the manager of the big segments, with the history of  *)
(* when the store last answered what the membership of each key is.        *)
(***************************************************************************)
EXTENDS BigSegments

VARIABLE answered   \* history, by key

HInit == Init /\ answered = [k \in Key |-> 0]

(* The membership of k has just come from the store.                       *)
FromStore(k) == \E n \in DOMAIN calls : MembershipAnswered(n) /\ queries[calls[n].who].key = k

HNext == Next /\ answered' = [k \in Key |-> IF FromStore(k) THEN now ELSE answered[k]]

HSpec == HInit /\ [][HNext]_<<vars, answered>>

(* userCacheTime is "the maximum length of time that the Big Segment state *)
(* for a user will be cached by the SDK": what the cache still answers has *)
(* come from the store no longer ago than that.                            *)
CachedNotTooLong == \A k \in Key : Found(cache, k, now) # Nothing => now - answered[k] <= MaxAge
=============================================================================
