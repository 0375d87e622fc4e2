----------------------------- MODULE Databases ------------------------------
(***************************************************************************)
(* The processes with a Redis or a DynamoDB store, and what can go wrong   *)
(* with the database and with them.                                        *)
(***************************************************************************)
EXTENDS Database

CONSTANTS Owners,
          Readers,               \* bound: processes that call getAll
          MaxWrites, MaxFaults   \* bounds: writes that are begun, faults

ASSUME DatabasesAssumption ==
  /\ Owners \subseteq Process /\ Readers \subseteq Process
  /\ MaxWrites \in Nat /\ MaxFaults \in Nat

VARIABLES backend,
          link, wire, watch, reads, answers, broken,
          requests, unread, existing,
          begun, faults

Redis == INSTANCE RedisCore
Dynamo == INSTANCE DynamoDBCore

redisVars == <<link, wire, watch, reads, answers, broken>>
dynamoVars == <<requests, unread, existing>>
vars == <<dbVars, backend, redisVars, dynamoVars, begun, faults>>

Init ==
  /\ InitDatabase /\ Redis!InitRedis /\ Dynamo!InitDynamo
  /\ backend \in {"redis", "dynamodb"}
  /\ begun = 0 /\ faults = 0

RedisStep(A) == backend = "redis" /\ A /\ UNCHANGED <<backend, dynamoVars>>
DynamoStep(A) == backend = "dynamodb" /\ A /\ UNCHANGED <<backend, redisVars>>

BeginWrite ==
  /\ begun < MaxWrites /\ begun' = begun + 1
  /\ \E p \in Process :
       \/ \E k \in Keys, v \in 1..MaxVersion :
            RedisStep(Redis!RedisUpsert(p, k, v)) \/ DynamoStep(Dynamo!DynamoUpsert(p, k, v))
       \/ \E data \in DataSets :
            RedisStep(Redis!RedisInit(p, data)) \/ DynamoStep(Dynamo!DynamoInit(p, data))
  /\ UNCHANGED faults

Read == RedisStep(\E p \in Readers : Redis!GetAll(p)) /\ UNCHANGED <<begun, faults>>

Serve(p) ==
  /\ RedisStep(Redis!Serve(p) \/ Redis!Connect(p)) \/ DynamoStep(Dynamo!DynamoServe(p))
  /\ UNCHANGED <<begun, faults>>

Fault ==
  /\ faults < MaxFaults /\ faults' = faults + 1
  /\ \E p \in Process :
       \/ RedisStep(Redis!Break(p) \/ Redis!RedisCrash(p))
       \/ DynamoStep(Dynamo!Unprocessed(p) \/ Dynamo!RequestFails(p) \/ Dynamo!DynamoCrash(p))
  /\ UNCHANGED begun

GiveUp == RedisStep(\E p \in Process : Redis!GiveUp(p)) /\ UNCHANGED <<begun, faults>>

Next == BeginWrite \/ Read \/ (\E p \in Process : Serve(p)) \/ Fault \/ GiveUp

Spec == Init /\ [][Next]_vars /\ \A p \in Process : WF_vars(Serve(p))

-----------------------------------------------------------------------------
TypeOK ==
  /\ TypeOKDatabase /\ Redis!TypeOKRedis /\ Dynamo!TypeOKDynamo
  /\ begun \in 0..MaxWrites /\ faults \in 0..MaxFaults

(* p, not being connected all the while or having to carry out an init, is *)
(* the one that takes this step.                                           *)
MayGoBack(p) ==
  \/ /\ wire'[p] # wire[p] \/ link'[p] # link[p]
     /\ Redis!NextCommand(p, "exec_init") \/ broken[p]
  \/ \E r \in requests[p] \ requests'[p] : r.req \in {"put_request", "delete_request"}

(* However the upserts of two processes overlap, none replaces an item by  *)
(* an older one; the exceptions are an init, and an upsert to Redis during *)
(* which there was no connection.                                          *)
UpsertsOnlyAdvance ==
  [][(\E k \in Keys : items'[k] < items[k]) => \E p \in Process : MayGoBack(p)]_vars

Ends(p, op) == write[p].op = op /\ write'[p] = Idle /\ told'[p] # Failed

(* What an upsert is told to be stored (and the wrapper puts in its cache) *)
(* is stored and not older than what it brought, unless another process    *)
(* has written the item meanwhile.                                         *)
UpsertToldTheTruth ==
  [][\A p \in Process : Ends(p, "upsert") =>
       LET k == write[p].key IN
       k \in others'[p] \/ (told'[p] = items'[k] /\ told'[p] >= write[p].version)]_vars

(* When the callback of init is called, the database has the data but for  *)
(* what other processes have written meanwhile, what is too large and what *)
(* a fault has kept from it.  With Redis there is one more exception: the  *)
(* WATCH of an earlier upsert.                                             *)
InitStoresTheData ==
  [][\A p \in Process : Ends(p, "init") =>
       \/ backend = "redis" /\ watch[p] = "changed"
       \/ /\ spoiled'[p] = Keys \/ inited'
          /\ \A k \in Keys \ (others'[p] \cup spoiled'[p]) :
               items'[k] = IF backend = "dynamodb" /\ ~Dynamo!Fits(k, write[p].data[k])
                           THEN Absent ELSE write[p].data[k]]_vars

(* The callback of every write is called (and the update queue goes on),   *)
(* in spite of retries, unless the process ends or a request to DynamoDB   *)
(* fails whose failure nobody catches.                                     *)
WritesAnswered ==
  \A p \in Process : []<>(write[p] \in {Idle, Stuck})
=============================================================================
