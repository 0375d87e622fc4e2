---------------------------- MODULE BigSegments -----------------------------
(***************************************************************************)
(* shared/sdk-server/src/BigSegmentsManager.ts and                         *)
(* BigSegmentStatusProviderImpl.ts over LruCache, with one of the two big  *)
(* segment stores: queries of the Evaluator, the polls of the status by a  *)
(* timer, by the application and by the first queries, and the database,   *)
(* which answers when it likes.                                            *)
(*                                                                         *)
(* There is one big segment: the membership of a context (its key stands   *)
(* for the hash) is "in", "out" or, if the store has nothing of it, "none". *)
(* A manager without a store answers undefined and is left out.            *)
(***************************************************************************)
EXTENDS LruCache, FiniteSets, SequencesExt

CONSTANTS Query,        \* callers of getUserMembership, one call each at a time
          StaleAfter,   \* options.staleAfter
          AtFirst,      \* bound: the memberships there are before any change
          Varying,      \* bound: the keys whose membership changes
          MaxPolls,     \* bound: status polls that are not answered yet
          MaxTime, MaxChanges   \* bounds: the clock, and changes of the store

Poll == "a poll"   \* who calls, if no query does

ASSUME BigSegmentsAssumption ==
  /\ Value = {"in", "out", "none"} /\ AtFirst \subseteq Value /\ Varying \subseteq Key
  /\ MaxAge > 0 /\ StaleAfter > 0 /\ MaxTime \in Nat /\ Poll \notin Query

VARIABLES
  backend,     \* "redis" or "dynamodb"
  members, lastUpToDate, up, changes,   \* of the database; 0 if it was never synchronized
  calls,       \* to the database, in the order in which they were sent
  queries,
  status,      \* lastStatus, which the listener was told
  polling,     \* whether the timer is set
  cache, now,
  answer       \* of the cache

dbVars == <<backend, members, lastUpToDate, up, changes>>
vars == <<dbVars, calls, queries, status, polling, cache, now, answer>>

Unknown == [available |-> FALSE, stale |-> TRUE]   \* lastStatus is undefined

(* seen is history: the memberships the store had while it was asked.      *)
Idle == [stage |-> "idle", key |-> Nothing, membership |-> "none", status |-> "", seen |-> <<>>]

Init ==
  /\ backend \in {"redis", "dynamodb"}
  /\ members \in [Key -> AtFirst] /\ lastUpToDate = 0 /\ up = TRUE /\ changes = 0
  /\ calls = <<>> /\ queries = [q \in Query |-> Idle]
  /\ status = Unknown /\ polling = TRUE
  /\ cache = NewCache /\ now = 0 /\ answer = <<"", Nothing>>

-----------------------------------------------------------------------------
(* The manager.                                                            *)

Call(what, who) == [what |-> what, who |-> who, served |-> FALSE, failed |-> FALSE, reply |-> 0]

StatusName(s) == IF ~s.available THEN "STORE_ERROR" ELSE IF s.stale THEN "STALE" ELSE "HEALTHY"

(* A query that has a membership and a status answers; without a status it *)
(* polls first.                                                            *)
Proceed(q, query, rest) ==
  /\ queries' = [queries EXCEPT ![q] =
       IF status = Unknown THEN [query EXCEPT !.stage = "polling"]
       ELSE [query EXCEPT !.stage = "answered", !.key = Nothing, !.status = StatusName(status)]]
  /\ calls' = IF status = Unknown THEN Append(rest, Call("metadata", q)) ELSE rest

(* getUserMembership(k), up to its first await.                            *)
GetUserMembership(q, k) ==
  LET found == Found(cache, k, now) IN
  /\ queries[q].stage \in {"idle", "answered"}
  /\ answer' = <<"get", found>>
  /\ cache' = Got(cache, k, now)
  /\ \/ found # Nothing /\ Proceed(q, [Idle EXCEPT !.key = k, !.membership = found], calls)
     \/ /\ found = Nothing
        /\ queries' = [queries EXCEPT ![q] = [Idle EXCEPT !.stage = "asking", !.key = k, !.seen = <<members[k]>>]]
        /\ calls' = Append(calls, Call(IF backend = "redis" THEN "include" ELSE "user", q))
  /\ UNCHANGED <<dbVars, status, polling, now>>

NotMemberMeansExcluded(old, reply) == IF "in" \in {old, reply} THEN "in" ELSE "out"   \* mutation

(* The rules of the stores: included wins, and what is in neither list is  *)
(* not in the result.                                                      *)
MembershipOf(old, reply) == IF old = "in" THEN "in" ELSE reply

WithoutCall(n) == RemoveAt(calls, n)

(* Replies come in the order of the calls only on a connection to Redis.   *)
Arrives(n) == calls[n].served /\ (backend = "redis" => n = 1)

(* Redis is asked for the sets of included and then of excluded segments.  *)
NextHalf(n) ==
  LET q == calls[n].who IN
  /\ Arrives(n) /\ calls[n].what = "include" /\ ~calls[n].failed
  /\ calls' = Append(WithoutCall(n), Call("exclude", q))
  /\ queries' = [queries EXCEPT ![q].membership = calls[n].reply]
  /\ UNCHANGED <<dbVars, status, polling, cache, now, answer>>

(* The membership is known: it is cached.                                  *)
MembershipAnswered(n) ==
  LET q == calls[n].who
      query == [queries[q] EXCEPT !.membership = MembershipOf(@, calls[n].reply)]
  IN /\ Arrives(n) /\ calls[n].what \in {"exclude", "user"} /\ ~calls[n].failed
     /\ cache' = Put(cache, query.key, query.membership, now)
     /\ answer' = <<"set", Nothing>>
     /\ Proceed(q, query, WithoutCall(n))
     /\ UNCHANGED <<dbVars, status, polling, now>>

FailureIsNotCaught(n) ==  \* mutation: the promise of the query is never settled
  /\ Arrives(n) /\ calls[n].what # "metadata" /\ calls[n].failed
  /\ calls' = WithoutCall(n)
  /\ UNCHANGED <<dbVars, queries, status, polling, cache, now, answer>>

MembershipFailed(n) ==
  LET q == calls[n].who IN
  /\ Arrives(n) /\ calls[n].what # "metadata" /\ calls[n].failed
  /\ queries' = [queries EXCEPT ![q] = [Idle EXCEPT !.stage = "answered", !.status = "STORE_ERROR"]]
  /\ calls' = WithoutCall(n)
  /\ UNCHANGED <<dbVars, status, polling, cache, now, answer>>

DiffersInAvailability(old, new) == old = Unknown \/ old.available # new.available   \* mutation

Differs(old, new) == old # new

(* isStale of what getMetadata answered, when it has answered.             *)
StatusOf(call) ==
  IF call.failed THEN [available |-> FALSE, stale |-> FALSE]
  ELSE [available |-> TRUE, stale |-> call.reply = 0 \/ now - call.reply >= StaleAfter]

(* The second part of pollStoreAndUpdateStatus, and the query that waits.  *)
StatusAnswered(n) ==
  LET new == StatusOf(calls[n])
      q == calls[n].who
  IN /\ Arrives(n) /\ calls[n].what = "metadata"
     /\ calls' = WithoutCall(n)
     /\ status' = IF Differs(status, new) THEN new ELSE status
     /\ queries' = [p \in Query |-> IF p # q THEN queries[p]
                      ELSE [queries[p] EXCEPT !.stage = "answered", !.key = Nothing, !.status = StatusName(status')]]
     /\ UNCHANGED <<dbVars, polling, cache, now, answer>>

PollStoreAndUpdateStatus ==
  /\ Cardinality({n \in DOMAIN calls : calls[n].who \notin Query}) < MaxPolls
  /\ calls' = Append(calls, Call("metadata", Poll))
  /\ UNCHANGED <<dbVars, queries, status, polling, cache, now, answer>>

PollTimer == polling /\ PollStoreAndUpdateStatus

RequireStatus == status = Unknown /\ PollStoreAndUpdateStatus

(* close() clears the interval; what was asked is still answered.          *)
Close == polling /\ polling' = FALSE /\ UNCHANGED <<dbVars, calls, queries, status, cache, now, answer>>

-----------------------------------------------------------------------------
(* The database, and who writes to it.                                     *)

(* getMetadata: when big segments were synchronized, if they were.         *)
Metadata == lastUpToDate

(* What is under the key of a context: in Redis two sets, in DynamoDB one  *)
(* row with both lists.                                                    *)
Members(list, has) == IF has = list THEN has ELSE "none"
UserData(has) == IF "in" = has THEN Members("in", has) ELSE Members("out", has)

ServedReply(call) ==
  LET has == members[queries[call.who].key] IN
  CASE call.what = "metadata" -> Metadata
    [] call.what = "user" -> UserData(has)
    [] call.what = "include" -> Members("in", has)
    [] call.what = "exclude" -> Members("out", has)

(* Redis takes the commands of a connection in their order; the requests   *)
(* to DynamoDB overtake each other.  A closed client may fail.             *)
Serve(n) ==
  /\ ~calls[n].served
  /\ backend = "redis" => \A m \in 1..n - 1 : calls[m].served
  /\ \E failed \in IF ~up THEN {TRUE} ELSE IF polling THEN {FALSE} ELSE BOOLEAN :
       calls' = [calls EXCEPT ![n] = [@ EXCEPT !.served = TRUE, !.failed = failed,
                                               !.reply = IF failed THEN 0 ELSE ServedReply(calls[n])]]
  /\ UNCHANGED <<dbVars, queries, status, polling, cache, now, answer>>

Change ==
  /\ changes < MaxChanges /\ changes' = changes + 1
  /\ UNCHANGED <<backend, calls, status, polling, cache, now, answer>>

ChangeMembership(k, m) ==
  /\ Change /\ members[k] # m
  /\ members' = [members EXCEPT ![k] = m]
  /\ queries' = [q \in Query |-> IF queries[q].stage = "asking" /\ queries[q].key = k
                                 THEN [queries[q] EXCEPT !.seen = Append(@, m)] ELSE queries[q]]
  /\ UNCHANGED <<lastUpToDate, up>>

Synchronize == now > 0 /\ Change /\ lastUpToDate' = now /\ UNCHANGED <<members, up, queries>>

FailOrRecover == Change /\ up' = ~up /\ UNCHANGED <<members, lastUpToDate, queries>>

Tick == now < MaxTime /\ now' = now + 1 /\ UNCHANGED <<dbVars, calls, queries, status, polling, cache, answer>>

-----------------------------------------------------------------------------
Answered(n) == NextHalf(n) \/ MembershipAnswered(n) \/ MembershipFailed(n) \/ StatusAnswered(n)

Next ==
  \/ \E q \in Query, k \in Key : GetUserMembership(q, k)
  \/ \E n \in DOMAIN calls : Serve(n) \/ Answered(n)
  \/ PollTimer \/ RequireStatus \/ Close
  \/ (\E k \in Varying, m \in Value : ChangeMembership(k, m)) \/ Synchronize \/ FailOrRecover \/ Tick

(* The interval keeps firing until it is cleared, and the database or its  *)
(* client answers the oldest call.  Nothing makes the application ask.     *)
Fairness ==
  /\ WF_vars(PollTimer)
  /\ WF_vars(calls # <<>> /\ Serve(1))
  /\ WF_vars(calls # <<>> /\ Answered(1))

Spec == Init /\ [][Next]_vars /\ Fairness

-----------------------------------------------------------------------------
TypeOK ==
  /\ backend \in {"redis", "dynamodb"} /\ members \in [Key -> Value]
  /\ lastUpToDate \in 0..MaxTime /\ up \in BOOLEAN /\ now \in 0..MaxTime
  /\ \A n \in DOMAIN calls :
       /\ calls[n].what \in {"include", "exclude", "user", "metadata"} /\ calls[n].who \in Query \cup {Poll}
       /\ IF calls[n].what # "metadata" /\ calls[n].served /\ ~calls[n].failed
          THEN calls[n].reply \in Value ELSE calls[n].reply \in 0..MaxTime
  /\ queries \in [Query -> [stage : {"idle", "asking", "polling", "answered"}, key : Key \cup {Nothing},
                            membership : Value, status : {"", "STORE_ERROR", "STALE", "HEALTHY"},
                            seen : Seq(Value)]]
  /\ status \in [available : BOOLEAN, stale : BOOLEAN] /\ polling \in BOOLEAN
  /\ cache \in Caches /\ answer \in {"", "get", "set"} \X (Value \cup {Nothing})

(* A membership that was asked for was true while it was asked for.  The   *)
(* sets of included and excluded segments are read one after the other     *)
(* from Redis, so "none" means only that the context was not included at   *)
(* one time, and not excluded at a later one.                              *)
MembershipWasTrue ==
  \A q \in Query :
    LET seen == queries[q].seen
        Had(n) == seen[n] = queries[q].membership
        Torn(n, m) == n <= m /\ seen[n] # "in" /\ seen[m] # "out"
    IN queries[q].stage \in {"polling", "answered"} /\ seen # <<>> =>
         \/ \E n \in DOMAIN seen : Had(n)
         \/ /\ backend = "redis" /\ queries[q].membership = "none"
            /\ \E n, m \in DOMAIN seen : Torn(n, m)

(* Every query is answered, also when the store fails.                     *)
QueriesAnswered == \A q \in Query : queries[q].stage \in {"asking", "polling"} ~> queries[q].stage = "answered"

StoreStatus == [available |-> up, stale |-> up /\ (lastUpToDate = 0 \/ now - lastUpToDate >= StaleAfter)]

(* Polls overlap and are answered out of order; still the status that the  *)
(* listener was told ends as what the store is, unless polling stops.      *)
StatusCatchesUp == <>[](polling => status = StoreStatus)

(* The cache of memberships is a sequence of the most recently used keys.  *)
List ==
  LET nth == Nth(cache) IN
  [n \in DOMAIN nth |-> [key |-> cache.keys[nth[n]], value |-> cache.values[nth[n]],
                         since |-> cache.lastUpdated[nth[n]]]]

Recent == INSTANCE RecentlyUsed WITH recent <- List

ImplementsRecentlyUsed == Recent!Spec
=============================================================================
