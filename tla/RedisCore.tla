----------------------------- MODULE RedisCore ------------------------------
(***************************************************************************)
(* store/node-server-sdk-redis/src/RedisCore.ts over RedisClientState.ts.  *)
(* The client (ioredis, external) has one connection and sends commands in *)
(* their order; those that have no answer when the connection breaks are   *)
(* sent again when it is back.  multi() gathers its commands on the client *)
(* and sends them with exec(), so discard() sends nothing and leaves the   *)
(* namespace watched.                                                      *)
(* Left out is an item that is given neither as deleted nor with its data, *)
(* for which upsert calls back without waiting for exec():                 *)
(* PersistentDataStoreWrapper serializes what it writes.                   *)
(***************************************************************************)
EXTENDS Database

CONSTANTS Owners   \* processes whose Redis client is their own; the others were given one

VARIABLES link,     \* initialConnection, connected, or neither
          wire,     \* commands that are not answered
          watch,    \* WATCH of the connection: of nothing, of the namespace, changed since
          reads,    \* how getAll was called: while connected, while not, or not yet
          answers,  \* how often its callback was called
          broken    \* ghost: there was no connection at some time during the write

redisVars == <<link, wire, watch, reads, answers, broken>>

Watch == [cmd |-> "watch"]
HGet(k) == [cmd |-> "hget", key |-> k]
Exec(k, v) == [cmd |-> "exec", key |-> k, version |-> v]
ExecInit(data) == [cmd |-> "exec_init", data |-> data]
HGetAll == [cmd |-> "hgetall"]

TypeOKRedis ==
  /\ link \in [Process -> {"initial", "connected", "down"}]
  /\ \A p \in Process : \A n \in DOMAIN wire[p] :
       wire[p][n].cmd \in {"watch", "hget", "exec", "exec_init", "hgetall"}
  /\ watch \in [Process -> {"none", "clean", "changed"}]
  /\ reads \in [Process -> {"none", "connected", "down"}] /\ answers \in [Process -> 0..2]
  /\ broken \in [Process -> BOOLEAN]

InitRedis ==
  /\ link = [p \in Process |-> IF p \in Owners THEN "initial" ELSE "connected"]
  /\ wire = [p \in Process |-> <<>>]
  /\ watch = [p \in Process |-> "none"]
  /\ reads = [p \in Process |-> "none"] /\ answers = [p \in Process |-> 0]
  /\ broken = [p \in Process |-> FALSE]

(* isConnected() || isInitialConnection()                                  *)
Reachable(p) == link[p] # "down"

Send(p, commands) == wire' = [wire EXCEPT ![p] = @ \o commands]
Answered(p, commands) == wire' = [wire EXCEPT ![p] = Tail(@) \o commands]
NextCommand(p, cmd) == wire[p] # <<>> /\ wire[p][1].cmd = cmd
Serves(p, cmd) == link[p] = "connected" /\ NextCommand(p, cmd)

(* upsert up to its get: without a connection get answers at once, with    *)
(* nothing, and the transaction is queued.                                 *)
UpsertCommands(p, k, v) == <<Watch, IF Reachable(p) THEN HGet(k) ELSE Exec(k, v)>>

RedisUpsert(p, k, v) ==
  /\ Begin(p, [op |-> "upsert", key |-> k, version |-> v])
  /\ Send(p, UpsertCommands(p, k, v))
  /\ broken' = [broken EXCEPT ![p] = ~Reachable(p)]
  /\ UNCHANGED <<link, watch, reads, answers>>

RedisInit(p, data) ==
  /\ Begin(p, [op |-> "init", data |-> data])
  /\ Send(p, <<ExecInit(data)>>)
  /\ broken' = [broken EXCEPT ![p] = ~Reachable(p)]
  /\ UNCHANGED <<link, watch, reads, answers>>

ServeWatch(p) ==
  /\ Serves(p, "watch")
  /\ watch' = [watch EXCEPT ![p] = IF @ = "none" THEN "clean" ELSE @]
  /\ Answered(p, <<>>)
  /\ UNCHANGED <<dbVars, link, reads, answers, broken>>

DiscardIsSilent(p, old) ==  \* mutation: after discard() the callback is not called
  IF old >= write[p].version
  THEN Answered(p, <<>>) /\ UNCHANGED <<write, told>>
  ELSE Answered(p, <<Exec(write[p].key, write[p].version)>>) /\ UNCHANGED <<write, told>>

(* The callback of upsert's get.                                           *)
Compare(p, old) ==
  IF old >= write[p].version
  THEN Answer(p, old) /\ Answered(p, <<>>)
  ELSE Answered(p, <<Exec(write[p].key, write[p].version)>>) /\ UNCHANGED <<write, told>>

ServeHGet(p) ==
  /\ Serves(p, "hget")
  /\ Compare(p, items[wire[p][1].key])
  /\ UNCHANGED <<items, inited, others, spoiled, link, watch, reads, answers, broken>>

(* A transaction that is carried out ends the WATCH of its own connection  *)
(* and fails those of the others.                                          *)
Transact(p, new) ==
  /\ Store(p, new)
  /\ watch' = [q \in Process |-> IF q = p THEN "none"
                                 ELSE IF watch[q] = "clean" THEN "changed" ELSE watch[q]]

NoRetry(p) ==  \* mutation: null replies are taken for success
  Answer(p, wire[p][1].version) /\ Answered(p, <<>>)

Retry(p) ==
  /\ Answered(p, UpsertCommands(p, wire[p][1].key, wire[p][1].version))
  /\ UNCHANGED <<write, told>>

(* The EXEC of upsert.                                                     *)
ServeExec(p) ==
  /\ Serves(p, "exec")
  /\ \/ /\ watch[p] = "changed" /\ watch' = [watch EXCEPT ![p] = "none"]
        /\ Retry(p)
        /\ UNCHANGED <<items, others>>
     \/ /\ watch[p] # "changed"
        /\ Transact(p, [items EXCEPT ![wire[p][1].key] = wire[p][1].version])
        /\ Answer(p, wire[p][1].version) /\ Answered(p, <<>>)
  /\ UNCHANGED <<inited, spoiled, link, reads, answers, broken>>

(* The EXEC of init.  The replies are not looked at: a WATCH that a        *)
(* discarded upsert has left behind can lose the data.                     *)
ServeInit(p) ==
  /\ Serves(p, "exec_init")
  /\ \/ /\ watch[p] = "changed" /\ watch' = [watch EXCEPT ![p] = "none"]
        /\ UNCHANGED <<items, inited, others>>
     \/ watch[p] # "changed" /\ Transact(p, wire[p][1].data) /\ inited' = TRUE
  /\ Answer(p, Silent) /\ Answered(p, <<>>)
  /\ UNCHANGED <<spoiled, link, reads, answers, broken>>

(* getAll; without a connection it answers from the local feature store    *)
(* and asks the database nevertheless.                                     *)
GetAll(p) ==
  /\ reads[p] = "none"
  /\ reads' = [reads EXCEPT ![p] = IF Reachable(p) THEN "connected" ELSE "down"]
  /\ answers' = [answers EXCEPT ![p] = IF Reachable(p) THEN @ ELSE @ + 1]
  /\ Send(p, <<HGetAll>>)
  /\ UNCHANGED <<dbVars, link, watch, broken>>

ServeHGetAll(p) ==
  /\ Serves(p, "hgetall")
  /\ answers' = [answers EXCEPT ![p] = @ + 1]
  /\ Answered(p, <<>>)
  /\ UNCHANGED <<dbVars, link, watch, reads, broken>>

Serve(p) == ServeWatch(p) \/ ServeHGet(p) \/ ServeExec(p) \/ ServeInit(p) \/ ServeHGetAll(p)

Connect(p) ==
  /\ link[p] # "connected" /\ link' = [link EXCEPT ![p] = "connected"]
  /\ UNCHANGED <<dbVars, wire, watch, reads, answers, broken>>

(* The connection breaks.  The server may have carried out a transaction   *)
(* whose answer is lost; it is sent again with the other commands.         *)
Break(p) ==
  /\ link[p] = "connected" /\ link' = [link EXCEPT ![p] = "down"]
  /\ \/ watch' = [watch EXCEPT ![p] = "none"] /\ UNCHANGED <<items, others>>
     \/ /\ NextCommand(p, "exec") /\ watch[p] # "changed"
        /\ Transact(p, [items EXCEPT ![wire[p][1].key] = wire[p][1].version])
  /\ broken' = [broken EXCEPT ![p] = TRUE]
  /\ UNCHANGED <<inited, write, told, spoiled, wire, reads, answers>>

(* MaxRetriesPerRequestError for a command.  upsert takes it for an absent *)
(* item, init for success, and getAll answers from the local store.        *)
GiveUp(p) ==
  /\ link[p] = "down"
  /\ \/ /\ NextCommand(p, "watch")
        /\ Answered(p, <<>>) /\ UNCHANGED <<write, told, spoiled, answers>>
     \/ /\ NextCommand(p, "hget")
        /\ Compare(p, Absent) /\ UNCHANGED <<spoiled, answers>>
     \/ /\ NextCommand(p, "exec")
        /\ Answer(p, Failed) /\ Answered(p, <<>>) /\ UNCHANGED <<spoiled, answers>>
     \/ /\ NextCommand(p, "exec_init")
        /\ Answer(p, Silent) /\ Spoil(p, Keys) /\ Answered(p, <<>>) /\ UNCHANGED answers
     \/ /\ NextCommand(p, "hgetall")
        /\ answers' = [answers EXCEPT ![p] = @ + 1]
        /\ Answered(p, <<>>) /\ UNCHANGED <<write, told, spoiled>>
  /\ UNCHANGED <<items, inited, others, link, watch, reads, broken>>

(* The process ends and starts again; what it had sent may be lost.        *)
RedisCrash(p) ==
  /\ Answer(p, Failed)
  /\ wire' = [wire EXCEPT ![p] = <<>>] /\ watch' = [watch EXCEPT ![p] = "none"]
  /\ link' = [link EXCEPT ![p] = IF p \in Owners THEN "initial" ELSE "connected"]
  /\ reads' = [reads EXCEPT ![p] = "none"] /\ answers' = [answers EXCEPT ![p] = 0]
  /\ UNCHANGED <<items, inited, others, spoiled, broken>>
=============================================================================
