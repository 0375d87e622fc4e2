---------------------------- MODULE DynamoDBCore ----------------------------
(***************************************************************************)
(* store/node-server-sdk-dynamodb/src/DynamoDBCore.ts over                 *)
(* DynamoDBClientState.ts.  The database serves each request on its own,   *)
(* item by item and in any order; there are no transactions.               *)
(***************************************************************************)
EXTENDS Database

VARIABLES requests,  \* writes and reads that are under way
          unread,    \* keys that the pages of init's query have not brought yet
          existing   \* existingNamespaceKeys

dynamoVars == <<requests, unread, existing>>

Query == [req |-> "query"]
PutRequest(k, v) == [req |-> "put_request", key |-> k, version |-> v]
DeleteRequest(k) == [req |-> "delete_request", key |-> k]
Token == [req |-> "token"]
Put(k, v) == [req |-> "put", key |-> k, version |-> v]
Get(k) == [req |-> "get", key |-> k]

BatchRequests == {"put_request", "delete_request", "token"}

TypeOKDynamo ==
  /\ \A p \in Process : \A r \in requests[p] : r.req \in BatchRequests \cup {"query", "put", "get"}
  /\ unread \in [Process -> SUBSET Keys] /\ existing \in [Process -> SUBSET Keys]

InitDynamo ==
  /\ requests = [p \in Process |-> {}]
  /\ unread = [p \in Process |-> {}] /\ existing = [p \in Process |-> {}]

Fits(k, v) == <<k, v>> \notin Oversize   \* checkSizeLimit

(* upsert; what is too large is dropped without a word.                    *)
DynamoUpsert(p, k, v) ==
  /\ IF Fits(k, v)
     THEN /\ Begin(p, [op |-> "upsert", key |-> k, version |-> v])
          /\ requests' = [requests EXCEPT ![p] = {Put(k, v)}]
     ELSE /\ write[p] = Idle /\ told' = [told EXCEPT ![p] = Silent]
          /\ UNCHANGED <<items, inited, write, others, spoiled, requests>>
  /\ UNCHANGED <<unread, existing>>

PutAlways(p, r) ==  \* mutation: no ConditionExpression
  Store(p, [items EXCEPT ![r.key] = r.version])

(* The condition is attribute_not_exists(version) OR version < :new_version. *)
PutIfNewer(p, r) ==
  IF items[r.key] < r.version
  THEN Store(p, [items EXCEPT ![r.key] = r.version])
  ELSE UNCHANGED <<items, others>>

ServePut(p) == \E r \in requests[p] :
  /\ r.req = "put"
  /\ PutIfNewer(p, r)
  /\ requests' = [requests EXCEPT ![p] = {Get(r.key)}]
  /\ UNCHANGED <<inited, write, told, spoiled, unread, existing>>

ServeGet(p) == \E r \in requests[p] :
  /\ r.req = "get"
  /\ Answer(p, items[r.key])
  /\ requests' = [requests EXCEPT ![p] = {}]
  /\ UNCHANGED <<items, inited, others, spoiled, unread, existing>>

(* init up to readExistingItems, whose pages come one by one.              *)
DynamoInit(p, data) ==
  /\ Begin(p, [op |-> "init", data |-> data])
  /\ requests' = [requests EXCEPT ![p] = {Query}]
  /\ unread' = [unread EXCEPT ![p] = Keys] /\ existing' = [existing EXCEPT ![p] = {}]

ServePage(p) == \E k \in unread[p] :
  /\ Query \in requests[p]
  /\ unread' = [unread EXCEPT ![p] = @ \ {k}]
  /\ existing' = [existing EXCEPT ![p] = IF items[k] = Absent THEN @ ELSE @ \cup {k}]
  /\ UNCHANGED <<dbVars, requests>>

KeepsTheOld(data, found) ==  \* mutation: existing data that is not in the new list stays
  {PutRequest(k, data[k]) : k \in {j \in Keys : data[j] # Absent /\ Fits(j, data[j])}} \cup {Token}

(* The operations of init; what is too large to be put is deleted.         *)
Operations(data, found) ==
  LET put == {k \in Keys : data[k] # Absent /\ Fits(k, data[k])} IN
  {PutRequest(k, data[k]) : k \in put} \cup {DeleteRequest(k) : k \in found \ put} \cup {Token}

WriteBatches(p) ==
  /\ Query \in requests[p] /\ unread[p] = {}
  /\ requests' = [requests EXCEPT ![p] = Operations(write[p].data, existing[p])]
  /\ existing' = [existing EXCEPT ![p] = {}]
  /\ UNCHANGED <<dbVars, unread>>

BatchDone(p, r) ==
  IF requests[p] = {r} /\ write[p].op = "init" THEN Answer(p, Silent) ELSE UNCHANGED <<write, told>>

(* One operation of a batch; with the last one of them init is done.       *)
ServeBatchRequest(p) == \E r \in requests[p] :
  /\ r.req \in BatchRequests
  /\ CASE r.req = "put_request" -> Store(p, [items EXCEPT ![r.key] = r.version]) /\ UNCHANGED inited
       [] r.req = "delete_request" -> Store(p, [items EXCEPT ![r.key] = Absent]) /\ UNCHANGED inited
       [] r.req = "token" -> inited' = TRUE /\ UNCHANGED <<items, others>>
  /\ requests' = [requests EXCEPT ![p] = @ \ {r}]
  /\ BatchDone(p, r)
  /\ UNCHANGED <<spoiled, unread, existing>>

DynamoServe(p) ==
  ServePut(p) \/ ServeGet(p) \/ ServePage(p) \/ WriteBatches(p) \/ ServeBatchRequest(p)

(* An operation is among the UnprocessedItems, which nobody looks at.      *)
Unprocessed(p) == \E r \in requests[p] :
  /\ r.req \in BatchRequests
  /\ requests' = [requests EXCEPT ![p] = @ \ {r}]
  /\ BatchDone(p, r)
  /\ Spoil(p, IF r = Token THEN Keys ELSE {r.key})
  /\ UNCHANGED <<items, inited, others, unread, existing>>

(* A request fails.  Only that of the put is caught: after any other the   *)
(* callback is never called, while the rest of the batches goes on.        *)
RequestFails(p) == \E r \in requests[p] :
  /\ requests' = [requests EXCEPT ![p] = IF r.req \in BatchRequests THEN @ \ {r} ELSE {}]
  /\ \/ r.req = "put" /\ Answer(p, Failed)
     \/ r.req # "put" /\ write' = [write EXCEPT ![p] = Stuck] /\ UNCHANGED told
  /\ unread' = [unread EXCEPT ![p] = {}] /\ existing' = [existing EXCEPT ![p] = {}]
  /\ UNCHANGED <<items, inited, others, spoiled>>

DynamoCrash(p) ==
  /\ Answer(p, Failed)
  /\ requests' = [requests EXCEPT ![p] = {}]
  /\ unread' = [unread EXCEPT ![p] = {}] /\ existing' = [existing EXCEPT ![p] = {}]
  /\ UNCHANGED <<items, inited, others, spoiled>>
=============================================================================
