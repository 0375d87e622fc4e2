-------------------------- MODULE DatabasesProofs ---------------------------
(***************************************************************************)
(* What the upserts and inits of any number of processes do to a database  *)
(* they share, for every set of keys, number of writes and of faults.      *)
(*                                                                         *)
(* With Redis the argument is about the order of the commands on a wire,   *)
(* and about WATCH: as long as the connection has held, a transaction that *)
(* waits was begun either under a WATCH that has been broken or by a       *)
(* process that has read an older item than it brings.  With DynamoDB it   *)
(* is about what the requests that are still under way leave to be done.   *)
(***************************************************************************)
EXTENDS Databases, SequenceTheorems, TLAPS

Commands ==
  [cmd : {"watch", "hgetall"}] \cup [cmd : {"hget"}, key : Keys]
    \cup [cmd : {"exec"}, key : Keys, version : 1..MaxVersion]
    \cup [cmd : {"exec_init"}, data : DataSets]

Requests ==
  [req : {"query", "token"}] \cup [req : {"delete_request", "get"}, key : Keys]
    \cup [req : {"put_request", "put"}, key : Keys, version : 1..MaxVersion]

DatabaseTyped ==
  /\ items \in [Keys -> Versions] /\ inited \in BOOLEAN
  /\ write \in [Process -> {Idle, Stuck} \cup Writes]
  /\ told \in [Process -> Silent..MaxVersion]
  /\ others \in [Process -> SUBSET Keys] /\ spoiled \in [Process -> SUBSET Keys]

RedisTyped ==
  /\ link \in [Process -> {"initial", "connected", "down"}]
  /\ wire \in [Process -> Seq(Commands)]
  /\ watch \in [Process -> {"none", "clean", "changed"}]
  /\ reads \in [Process -> {"none", "connected", "down"}] /\ answers \in [Process -> 0..2]
  /\ broken \in [Process -> BOOLEAN]

DynamoTyped ==
  /\ requests \in [Process -> SUBSET Requests]
  /\ unread \in [Process -> SUBSET Keys] /\ existing \in [Process -> SUBSET Keys]

Typed == backend \in {"redis", "dynamodb"} /\ DatabaseTyped /\ RedisTyped /\ DynamoTyped

-----------------------------------------------------------------------------
(* Redis: of one process, its write w, its wire s, its WATCH and link.     *)

Last == {"hget", "exec", "exec_init"}   \* with these a write ends or goes on

(* The commands on the wire are those of the write, or of getAll.          *)
CommandFits(w, c) ==
  /\ c.cmd = "watch" => w.op = "upsert"
  /\ c.cmd = "hget" => w.op = "upsert" /\ c.key = w.key
  /\ c.cmd = "exec" => w.op = "upsert" /\ c.key = w.key /\ c.version = w.version
  /\ c.cmd = "exec_init" => w.op = "init" /\ c.data = w.data

WireFits(w, s) ==
  /\ \A n \in 1..Len(s) : CommandFits(w, s[n])
  /\ \A m, n \in 1..Len(s) : m < n /\ s[m].cmd \in Last => s[n].cmd = "hgetall"

(* A get waits behind its WATCH or under it.                               *)
ReadsWatched(s, watched) ==
  \A n \in 1..Len(s) : s[n].cmd = "hget" =>
    watched # "none" \/ \E m \in 1..Len(s) : s[m].cmd = "watch"

(* A transaction brings a newer item, unless its WATCH will stop it.       *)
WritesWatched(s, watched, its) ==
  \A n \in 1..Len(s) : s[n].cmd = "exec" =>
    /\ \A m \in 1..Len(s) : s[m].cmd # "watch"
    /\ watched = "changed" \/ (watched = "clean" /\ its[s[n].key] < s[n].version)

RedisFits(w, s, watched, l, b, its) ==
  /\ WireFits(w, s)
  /\ l = "down" /\ w # Idle => b
  /\ ~b => ReadsWatched(s, watched) /\ WritesWatched(s, watched, its)

(* getAll was called once at most, and is answered twice at most: rd and   *)
(* an are its reads and answers.                                           *)
Counted(rd, an, s) ==
  /\ rd = "none" => an = 0 /\ \A n \in 1..Len(s) : s[n].cmd # "hgetall"
  /\ \A m, n \in 1..Len(s) : s[m].cmd = "hgetall" /\ s[n].cmd = "hgetall" => m = n
  /\ \A n \in 1..Len(s) : s[n].cmd = "hgetall" => an <= 1

-----------------------------------------------------------------------------
(* DynamoDB: of one process, its write w, its requests rs, what is unread  *)
(* and existing, and the keys that others wrote and faults spoiled.        *)

ToPut(data) == {k \in Keys : data[k] # Absent /\ Dynamo!Fits(k, data[k])}

Meant(data, k) == IF Dynamo!Fits(k, data[k]) THEN data[k] ELSE Absent

RequestsFit(w, rs) ==
  /\ w.op = "none" => rs = {}
  /\ w.op = "stuck" => \A r \in rs : r.req \in Dynamo!BatchRequests
  /\ w.op = "upsert" => rs = {Dynamo!Put(w.key, w.version)} \/ rs = {Dynamo!Get(w.key)}
  /\ w.op = "init" => rs = {Dynamo!Query} \/ rs \subseteq Dynamo!Operations(w.data, Keys)

(* After the put of an upsert the item is as new, or another's.            *)
PutDone(w, rs, ot, its) ==
  w.op = "upsert" /\ Dynamo!Get(w.key) \in rs => w.key \in ot \/ its[w.key] >= w.version

(* The pages have brought what there was.                                  *)
PagesRead(w, rs, un, ex, ot, its) ==
  w.op = "init" /\ Dynamo!Query \in rs =>
    /\ \A k \in Keys : k \notin un /\ k \notin ot => (k \in ex <=> its[k] # Absent)
    /\ \A k \in un : k \notin ex

Pending(data, k, rs) ==
  IF k \in ToPut(data) THEN Dynamo!PutRequest(k, data[k]) \in rs ELSE Dynamo!DeleteRequest(k) \in rs

(* What is not as init meant it is still under way.                        *)
BatchesGo(w, rs, ot, sp, its, ini) ==
  w.op = "init" /\ Dynamo!Query \notin rs =>
    /\ \A k \in Keys : k \notin ot /\ k \notin sp => its[k] = Meant(w.data, k) \/ Pending(w.data, k, rs)
    /\ ini \/ Dynamo!Token \in rs \/ sp = Keys

DynamoFits(w, rs, un, ex, ot, sp, its, ini) ==
  /\ RequestsFit(w, rs) /\ PutDone(w, rs, ot, its)
  /\ PagesRead(w, rs, un, ex, ot, its) /\ BatchesGo(w, rs, ot, sp, its, ini)

RedisOK ==
  backend = "redis" =>
    \A p \in Process :
      /\ RedisFits(write[p], wire[p], watch[p], link[p], broken[p], items)
      /\ Counted(reads[p], answers[p], wire[p])

DynamoOK ==
  backend = "dynamodb" =>
    \A p \in Process :
      DynamoFits(write[p], requests[p], unread[p], existing[p], others[p], spoiled[p], items, inited)

Bounded == begun \in 0..MaxWrites /\ faults \in 0..MaxFaults

Invariant == Typed /\ Bounded /\ RedisOK /\ DynamoOK

-----------------------------------------------------------------------------
(* Wires.                                                                  *)

(* t is s without its first d commands, with the commands cs after it.     *)
Follows(t, s, d, cs) ==
  /\ t \in Seq(Commands) /\ Len(t) = (Len(s) - d) + Len(cs)
  /\ \A n \in 1..Len(t) : t[n] = IF n <= Len(s) - d THEN s[n + d] ELSE cs[n - (Len(s) - d)]

(* After the first d there is nothing but a getAll.                        *)
Reads(s, d) == \A n \in 1..Len(s) : n > d => s[n].cmd = "hgetall"

(* What is sent comes after what waits.                                    *)
LEMMA Sending ==
  ASSUME NEW s \in Seq(Commands), NEW cs \in Seq(Commands)
  PROVE  Follows(s \o cs, s, 0, cs)
<1> HIDE DEF Commands
<1> QED
  BY ConcatProperties DEF Follows

(* What is answered is the first of what waits.                            *)
LEMMA Answering ==
  ASSUME NEW s \in Seq(Commands), NEW cs \in Seq(Commands), s # <<>>
  PROVE  Follows(Tail(s) \o cs, s, 1, cs)
<1>1. Tail(s) \in Seq(Commands) /\ Len(Tail(s)) = Len(s) - 1
      /\ \A n \in 1..Len(s) - 1 : Tail(s)[n] = s[n + 1]
  BY HeadTailProperties
<1>2. Len(s) \in Nat /\ Len(cs) \in Nat /\ Len(s) > 0
  BY EmptySeq
<1>3. Tail(s) \o cs \in Seq(Commands) /\ Len(Tail(s) \o cs) = (Len(s) - 1) + Len(cs)
      /\ \A n \in 1..(Len(s) - 1) + Len(cs) :
           (Tail(s) \o cs)[n] = IF n <= Len(s) - 1 THEN Tail(s)[n] ELSE cs[n - (Len(s) - 1)]
  BY <1>1, ConcatProperties
<1> QED
  BY <1>1, <1>2, <1>3 DEF Follows

(* Every command is of one kind.                                           *)
LEMMA Kinds ==
  \A c \in Commands : c.cmd \in {"watch", "hgetall", "hget", "exec", "exec_init"}
BY DEF Commands

(* An idle process waits for getAll alone.                                 *)
LEMMA IdleReads ==
  ASSUME NEW w, NEW s \in Seq(Commands), w.op \notin {"upsert", "init"}, WireFits(w, s)
  PROVE  Reads(s, 0)
<1> SUFFICES ASSUME NEW n \in 1..Len(s) PROVE s[n].cmd = "hgetall"
  BY DEF Reads
<1>1. s[n] \in Commands
  OBVIOUS
<1> QED
  BY <1>1, Kinds DEF WireFits, CommandFits

(* After the last command of a write there is no other of it.              *)
LEMMA RestReads ==
  ASSUME NEW w, NEW s \in Seq(Commands), s # <<>>, WireFits(w, s), s[1].cmd \in Last
  PROVE  Reads(s, 1)
<1>1. Len(s) \in Nat /\ Len(s) > 0
  BY EmptySeq
<1> QED
  BY <1>1 DEF Reads, WireFits

(* A getAll fits to everything.                                            *)
LEMMA ReadsFit ==
  ASSUME NEW w, NEW s, NEW t, NEW d \in 0..1, s \in Seq(Commands), Reads(s, d), Follows(t, s, d, <<>>),
         NEW watched, NEW l, NEW b, NEW its, l = "down" /\ w # Idle => b
  PROVE  RedisFits(w, t, watched, l, b, its)
<1>1. Len(<<>>) = 0 /\ Len(s) \in Nat /\ Len(t) \in Nat
  BY DEF Follows
<1>2. \A n \in 1..Len(t) : t[n].cmd = "hgetall"
  BY <1>1 DEF Reads, Follows
<1> QED
  BY <1>2 DEF RedisFits, WireFits, CommandFits, ReadsWatched, WritesWatched, Last

(* t is getAll, if anything, and then cs.                                  *)
EndsWith(t, cs) ==
  /\ Len(t) \in Nat /\ Len(cs) <= Len(t)
  /\ \A n \in 1..Len(t) : n <= Len(t) - Len(cs) => t[n].cmd = "hgetall"
  /\ \A n \in 1..Len(t) : n > Len(t) - Len(cs) => t[n] = cs[n - (Len(t) - Len(cs))]

(* What comes after reads alone.                                           *)
LEMMA ComesLast ==
  ASSUME NEW s \in Seq(Commands), NEW t, NEW d \in 0..1, NEW cs \in Seq(Commands), d <= Len(s),
         Reads(s, d), Follows(t, s, d, cs)
  PROVE  EndsWith(t, cs)
<1>1. Len(s) \in Nat /\ Len(cs) \in Nat
  OBVIOUS
<1>2. Len(t) \in Nat /\ Len(t) = (Len(s) - d) + Len(cs) /\ Len(t) - Len(cs) = Len(s) - d
  BY <1>1 DEF Follows
<1>3. ASSUME NEW n \in 1..Len(t), n <= Len(s) - d PROVE t[n].cmd = "hgetall"
  <2>1. t[n] = s[n + d] /\ n + d \in 1..Len(s) /\ n + d > d
    BY <1>1, <1>2, <1>3 DEF Follows
  <2> QED
    BY <2>1 DEF Reads
<1>4. \A n \in 1..Len(t) : ~(n <= Len(s) - d) => t[n] = cs[n - (Len(s) - d)]
  BY DEF Follows
<1> QED
  BY <1>1, <1>2, <1>3, <1>4 DEF EndsWith

(* The commands that are sent.                                             *)
LEMMA CommandsTyped ==
  /\ Redis!Watch \in Commands /\ Redis!Watch.cmd = "watch"
  /\ Redis!HGetAll \in Commands /\ Redis!HGetAll.cmd = "hgetall"
  /\ \A k \in Keys : Redis!HGet(k) \in Commands /\ Redis!HGet(k).cmd = "hget" /\ Redis!HGet(k).key = k
  /\ \A k \in Keys, v \in 1..MaxVersion :
       /\ Redis!Exec(k, v) \in Commands /\ Redis!Exec(k, v).cmd = "exec"
       /\ Redis!Exec(k, v).key = k /\ Redis!Exec(k, v).version = v
  /\ \A data \in DataSets :
       /\ Redis!ExecInit(data) \in Commands /\ Redis!ExecInit(data).cmd = "exec_init"
       /\ Redis!ExecInit(data).data = data
<1>1. Redis!Watch \in Commands /\ Redis!Watch.cmd = "watch"
  BY DEF Redis!Watch, Commands
<1>2. Redis!HGetAll \in Commands /\ Redis!HGetAll.cmd = "hgetall"
  BY DEF Redis!HGetAll, Commands
<1>3. \A k \in Keys : Redis!HGet(k) \in Commands /\ Redis!HGet(k).cmd = "hget" /\ Redis!HGet(k).key = k
  BY DEF Redis!HGet, Commands
<1>4. \A k \in Keys, v \in 1..MaxVersion :
       /\ Redis!Exec(k, v) \in Commands /\ Redis!Exec(k, v).cmd = "exec"
       /\ Redis!Exec(k, v).key = k /\ Redis!Exec(k, v).version = v
  BY DEF Redis!Exec, Commands
<1>5. \A data \in DataSets :
       /\ Redis!ExecInit(data) \in Commands /\ Redis!ExecInit(data).cmd = "exec_init"
       /\ Redis!ExecInit(data).data = data
  BY DEF Redis!ExecInit, Commands
<1> QED
  BY <1>1, <1>2, <1>3, <1>4, <1>5

(* The first commands of an upsert.                                        *)
LEMMA UpsertSent ==
  ASSUME NEW s \in Seq(Commands), NEW t, NEW d \in 0..1, d <= Len(s), Reads(s, d),
         NEW cs \in Seq(Commands), Len(cs) = 2, cs[1].cmd = "watch", cs[2].cmd \in {"hget", "exec"},
         Follows(t, s, d, cs),
         NEW w, CommandFits(w, cs[1]), CommandFits(w, cs[2]),
         NEW watched, NEW l, NEW b, NEW its, l = "down" => b, cs[2].cmd = "exec" => b
  PROVE  RedisFits(w, t, watched, l, b, its)
<1>0. EndsWith(t, cs)
  BY ComesLast
<1>1. /\ Len(t) \in Nat /\ 2 <= Len(t)
      /\ \A n \in 1..Len(t) : n <= Len(t) - 2 => t[n].cmd = "hgetall"
      /\ \A n \in 1..Len(t) : n > Len(t) - 2 => t[n] = cs[n - (Len(t) - 2)]
  BY <1>0 DEF EndsWith
<1>2. \A n \in 1..Len(t) : t[n].cmd = "hgetall" \/ (n = Len(t) - 1 /\ t[n] = cs[1]) \/ (n = Len(t) /\ t[n] = cs[2])
  BY <1>1
<1>3. \A n \in 1..Len(t) : CommandFits(w, t[n])
  BY <1>2 DEF CommandFits
<1>4. ASSUME NEW m \in 1..Len(t), NEW n \in 1..Len(t), m < n, t[m].cmd \in Last PROVE t[n].cmd = "hgetall"
  <2>1. m <= Len(t) - 1
    BY <1>1, <1>4
  <2>2. m = Len(t) - 1 => t[m].cmd = "hgetall" \/ t[m].cmd = "watch"
    BY <1>1, <1>2
  <2>3. t[m].cmd = "hgetall" \/ t[m].cmd = "watch"
    BY <1>1, <1>2, <2>1, <2>2
  <2> QED
    BY <1>4, <2>3 DEF Last
<1>5. ReadsWatched(t, watched)
  <2>1. Len(t) - 1 \in 1..Len(t) /\ t[Len(t) - 1].cmd = "watch"
    BY <1>1
  <2> QED
    BY <2>1 DEF ReadsWatched
<1>6. ~b => WritesWatched(t, watched, its)
  BY <1>2 DEF WritesWatched
<1> QED
  BY <1>3, <1>4, <1>5, <1>6 DEF RedisFits, WireFits

(* A transaction that will be refused if it is not of a newer item.        *)
Safe(c, watched, b, its) ==
  c.cmd = "exec" => b \/ watched = "changed" \/ (watched = "clean" /\ its[c.key] < c.version)

(* The transaction of an upsert, or of init.                               *)
LEMMA WriteSent ==
  ASSUME NEW s \in Seq(Commands), NEW t, NEW d \in 0..1, d <= Len(s), Reads(s, d),
         NEW cs \in Seq(Commands), Len(cs) = 1, cs[1].cmd \in {"exec", "exec_init"},
         Follows(t, s, d, cs),
         NEW w, CommandFits(w, cs[1]), NEW watched, NEW l, NEW b, NEW its, l = "down" => b,
         Safe(cs[1], watched, b, its)
  PROVE  RedisFits(w, t, watched, l, b, its)
<1>0. EndsWith(t, cs)
  BY ComesLast
<1>1. /\ Len(t) \in Nat /\ 1 <= Len(t)
      /\ \A n \in 1..Len(t) : n <= Len(t) - 1 => t[n].cmd = "hgetall"
      /\ \A n \in 1..Len(t) : n > Len(t) - 1 => t[n] = cs[n - (Len(t) - 1)]
  BY <1>0 DEF EndsWith
<1>2. ASSUME NEW n \in 1..Len(t) PROVE t[n].cmd = "hgetall" \/ (n = Len(t) /\ t[n] = cs[1])
  <2>1. CASE n <= Len(t) - 1
    BY <1>1, <2>1
  <2>2. CASE n = Len(t)
    <3>1. n > Len(t) - 1 /\ n - (Len(t) - 1) = 1
      BY <1>1, <2>2
    <3> QED
      BY <1>1, <2>2, <3>1
  <2> QED
    BY <1>1, <2>1, <2>2
<1>3. \A n \in 1..Len(t) : CommandFits(w, t[n])
  BY <1>2 DEF CommandFits
<1>4. ASSUME NEW m \in 1..Len(t), NEW n \in 1..Len(t), m < n, t[m].cmd \in Last PROVE t[n].cmd = "hgetall"
  <2>1. m <= Len(t) - 1
    BY <1>1, <1>4
  <2>2. m = Len(t) - 1 => t[m].cmd = "hgetall" \/ t[m].cmd = "watch"
    BY <1>1, <1>2
  <2>3. t[m].cmd = "hgetall" \/ t[m].cmd = "watch"
    BY <1>1, <1>2, <2>1, <2>2
  <2> QED
    BY <1>4, <2>3 DEF Last
<1>5. ReadsWatched(t, watched)
  BY <1>2 DEF ReadsWatched
<1>6. ~b => WritesWatched(t, watched, its)
  BY <1>2 DEF WritesWatched, Safe
<1> QED
  BY <1>3, <1>4, <1>5, <1>6 DEF RedisFits, WireFits

(* A WATCH or a getAll is served, or given up without a connection.        *)
LEMMA HeadGone ==
  ASSUME NEW s \in Seq(Commands), NEW t, s # <<>>, Follows(t, s, 1, <<>>),
         NEW w, NEW watched, NEW l, NEW b, NEW its, RedisFits(w, s, watched, l, b, its),
         NEW then, \/ s[1].cmd = "hgetall" /\ then = watched
                   \/ s[1].cmd = "watch" /\ (then # "none" \/ b)
  PROVE  RedisFits(w, t, then, l, b, its)
<1>1. Len(<<>>) = 0 /\ Len(s) \in Nat /\ Len(s) > 0 /\ Len(t) \in Nat /\ Len(t) = Len(s) - 1
  BY EmptySeq DEF Follows
<1>2. \A n \in 1..Len(t) : n + 1 \in 1..Len(s) /\ t[n] = s[n + 1]
  BY <1>1 DEF Follows
<1>3. WireFits(w, t)
  <2>1. WireFits(w, s)
    BY DEF RedisFits
  <2>2. \A n \in 1..Len(t) : CommandFits(w, t[n])
    BY <1>2, <2>1 DEF WireFits
  <2>3. \A m, n \in 1..Len(t) : m < n /\ t[m].cmd \in Last => t[n].cmd = "hgetall"
    <3> TAKE m, n \in 1..Len(t)
    <3>1. m < n => m + 1 < n + 1
      BY <1>1
    <3> QED
      BY <1>2, <2>1, <3>1 DEF WireFits
  <2> QED
    BY <2>2, <2>3 DEF WireFits
<1>4. CASE s[1].cmd = "hgetall" /\ then = watched
  <2>1. SUFFICES ASSUME ~b PROVE ReadsWatched(t, watched) /\ WritesWatched(t, watched, its)
    BY <1>3, <1>4 DEF RedisFits
  <2>2. ReadsWatched(s, watched) /\ WritesWatched(s, watched, its)
    BY <2>1 DEF RedisFits
  <2>3. ReadsWatched(t, watched)
    <3>1. ASSUME NEW m \in 1..Len(s), s[m].cmd = "watch" PROVE \E n \in 1..Len(t) : t[n].cmd = "watch"
      <4>1. m # 1 /\ m - 1 \in 1..Len(t) /\ (m - 1) + 1 = m
        BY <1>1, <1>4, <3>1
      <4> QED
        BY <1>2, <3>1, <4>1
    <3> QED
      BY <1>2, <2>2, <3>1 DEF ReadsWatched
  <2>4. WritesWatched(t, watched, its)
    BY <1>2, <2>2 DEF WritesWatched
  <2> QED
    BY <2>3, <2>4
<1>5. CASE s[1].cmd = "watch" /\ (then # "none" \/ b)
  <2>1. SUFFICES ASSUME ~b PROVE ReadsWatched(t, then) /\ WritesWatched(t, then, its)
    BY <1>3, <1>5 DEF RedisFits
  <2>2. WritesWatched(s, watched, its)
    BY <2>1 DEF RedisFits
  <2>3. \A n \in 1..Len(t) : t[n].cmd # "exec"
    BY <1>1, <1>2, <1>5, <2>2 DEF WritesWatched
  <2> QED
    BY <1>5, <2>1, <2>3 DEF ReadsWatched, WritesWatched
<1> QED
  BY <1>4, <1>5

(* A getAll that is sent changes nothing for the write.                    *)
LEMMA ReadSent ==
  ASSUME NEW s \in Seq(Commands), NEW cs, Len(cs) = 1, cs[1].cmd = "hgetall", NEW t, Follows(t, s, 0, cs),
         NEW w, NEW watched, NEW l, NEW b, NEW its, RedisFits(w, s, watched, l, b, its)
  PROVE  RedisFits(w, t, watched, l, b, its)
<1>1. Len(s) \in Nat
  OBVIOUS
<1>2. Len(t) = Len(s) + 1 /\ \A n \in 1..Len(t) : IF n <= Len(s) THEN t[n] = s[n] ELSE t[n] = cs[1]
  BY <1>1 DEF Follows
<1>4. \A n \in 1..Len(t) : (n \in 1..Len(s) /\ t[n] = s[n]) \/ (n = Len(t) /\ t[n].cmd = "hgetall")
  BY <1>1, <1>2
<1>5. \A n \in 1..Len(s) : n \in 1..Len(t) /\ t[n] = s[n]
  BY <1>1, <1>2
<1>6. WireFits(w, t)
  <2>1. WireFits(w, s)
    BY DEF RedisFits
  <2>2. \A n \in 1..Len(t) : CommandFits(w, t[n])
    BY <1>4, <2>1 DEF WireFits, CommandFits
  <2>3. \A m, n \in 1..Len(t) : m < n /\ t[m].cmd \in Last => t[n].cmd = "hgetall"
    <3> TAKE m, n \in 1..Len(t)
    <3>1. CASE n \in 1..Len(s) /\ m < n
      BY <1>1, <1>2, <2>1, <3>1 DEF WireFits
    <3> QED
      BY <1>4, <3>1
  <2> QED
    BY <2>2, <2>3 DEF WireFits
<1>7. ReadsWatched(s, watched) => ReadsWatched(t, watched)
  BY <1>4, <1>5 DEF ReadsWatched
<1>8. WritesWatched(s, watched, its) => WritesWatched(t, watched, its)
  BY <1>4 DEF WritesWatched
<1> QED
  BY <1>6, <1>7, <1>8 DEF RedisFits

(* What another process does with Redis, to the wire of one that waits.    *)
LEMMA OthersTransact ==
  ASSUME NEW s, NEW w, NEW watched \in {"none", "clean", "changed"}, NEW l, NEW b, NEW its, NEW new,
         RedisFits(w, s, watched, l, b, its)
  PROVE  RedisFits(w, s, IF watched = "clean" THEN "changed" ELSE watched, l, b, new)
BY DEF RedisFits, ReadsWatched, WritesWatched

(* A getAll that waits is counted, also when other commands come and go.   *)
LEMMA CountedStill ==
  ASSUME NEW s \in Seq(Commands), NEW t, NEW d \in 0..1, NEW cs \in Seq(Commands), d <= Len(s),
         Follows(t, s, d, cs), \A n \in 1..Len(cs) : cs[n].cmd # "hgetall",
         NEW rd, NEW an \in 0..2, Counted(rd, an, s)
  PROVE  Counted(rd, an, t)
<1>1. Len(s) \in Nat /\ Len(cs) \in Nat /\ Len(t) = (Len(s) - d) + Len(cs)
  BY DEF Follows
<1>2. ASSUME NEW n \in 1..Len(t), t[n].cmd = "hgetall"
      PROVE  n + d \in 1..Len(s) /\ t[n] = s[n + d]
  <2>1. CASE n <= Len(s) - d
    BY <1>1, <2>1 DEF Follows
  <2>2. CASE ~(n <= Len(s) - d)
    <3>1. t[n] = cs[n - (Len(s) - d)] /\ n - (Len(s) - d) \in 1..Len(cs)
      BY <1>1, <2>2 DEF Follows
    <3> QED
      BY <1>2, <3>1
  <2> QED
    BY <2>1, <2>2
<1>3. \A m, n \in 1..Len(t) : t[m].cmd = "hgetall" /\ t[n].cmd = "hgetall" => m = n
  <2> SUFFICES ASSUME NEW m \in 1..Len(t), NEW n \in 1..Len(t), t[m].cmd = "hgetall", t[n].cmd = "hgetall"
               PROVE  m = n
    OBVIOUS
  <2>1. m + d = n + d
    BY <1>2 DEF Counted
  <2> QED
    BY <1>1, <2>1
<1>4. /\ rd = "none" => an = 0 /\ \A n \in 1..Len(t) : t[n].cmd # "hgetall"
      /\ \A n \in 1..Len(t) : t[n].cmd = "hgetall" => an <= 1
  BY <1>2 DEF Counted
<1> QED
  BY <1>3, <1>4 DEF Counted

(* A getAll is answered.                                                   *)
LEMMA CountedDown ==
  ASSUME NEW s \in Seq(Commands), s # <<>>, s[1].cmd = "hgetall", NEW t, Follows(t, s, 1, <<>>),
         NEW rd, NEW an \in 0..2, Counted(rd, an, s)
  PROVE  an + 1 \in 0..2 /\ Counted(rd, an + 1, t)
<1>1. Len(<<>>) = 0 /\ Len(s) \in Nat /\ Len(s) > 0 /\ Len(t) = Len(s) - 1
  BY EmptySeq DEF Follows
<1>2. an <= 1 /\ rd # "none"
  BY <1>1 DEF Counted
<1>3. ASSUME NEW n \in 1..Len(t) PROVE t[n].cmd # "hgetall"
  <2>1. t[n] = s[n + 1] /\ n + 1 \in 1..Len(s) /\ 1 \in 1..Len(s) /\ n + 1 # 1
    BY <1>1 DEF Follows
  <2> QED
    BY <2>1 DEF Counted
<1> QED
  BY <1>2, <1>3 DEF Counted

CountedNow(rd, an, t) == an \in 0..2 /\ Counted(rd, an, t)

(* getAll is called.                                                       *)
LEMMA CountedUp ==
  ASSUME NEW s \in Seq(Commands), NEW t, NEW cs, Len(cs) = 1, Follows(t, s, 0, cs),
         NEW rd, NEW an \in 0..2, Counted("none", an, s), rd # "none", NEW then, then = an \/ then = an + 1
  PROVE  CountedNow(rd, then, t)
<1>1. Len(s) \in Nat /\ Len(t) = Len(s) + 1
  BY DEF Follows
<1>2. an = 0 /\ \A n \in 1..Len(s) : s[n].cmd # "hgetall"
  BY DEF Counted
<1>3. \A n \in 1..Len(t) : t[n].cmd = "hgetall" => n = Len(t)
  BY <1>1, <1>2 DEF Follows
<1> QED
  BY <1>1, <1>2, <1>3 DEF Counted, CountedNow

-----------------------------------------------------------------------------
(* Steps with Redis.                                                       *)

(* A step of p, which leaves the others alone, but for WATCH.              *)
Alone(p) ==
  \A q \in Process : q # p =>
    /\ write'[q] = write[q] /\ wire'[q] = wire[q] /\ link'[q] = link[q] /\ broken'[q] = broken[q]
    /\ reads'[q] = reads[q] /\ answers'[q] = answers[q]
    /\ \/ watch'[q] = watch[q] /\ items' = items
       \/ watch'[q] = IF watch[q] = "clean" THEN "changed" ELSE watch[q]

(* What is said of one process.                                            *)
RedisAt(p) ==
  /\ RedisFits(write[p], wire[p], watch[p], link[p], broken[p], items)
  /\ Counted(reads[p], answers[p], wire[p])

RedisThen(p) ==
  /\ RedisFits(write'[p], wire'[p], watch'[p], link'[p], broken'[p], items')
  /\ Counted(reads'[p], answers'[p], wire'[p])

(* A step that keeps what is said of p keeps what is said of the others,   *)
(* whose WATCH it may have broken.                                         *)
LEMMA RedisStepKeeps ==
  ASSUME RedisTyped, RedisOK, backend = "redis", NEW p \in Process, RedisThen(p), Alone(p)
  PROVE  RedisOK'
<1>1. ASSUME NEW q \in Process PROVE RedisThen(q)
  <2>1. CASE q = p
    BY <2>1
  <2>2. CASE q # p
    <3>1. RedisAt(q)
      BY DEF RedisOK, RedisAt
    <3>2. /\ write'[q] = write[q] /\ wire'[q] = wire[q] /\ link'[q] = link[q] /\ broken'[q] = broken[q]
          /\ reads'[q] = reads[q] /\ answers'[q] = answers[q]
      BY <2>2 DEF Alone
    <3>3. RedisFits(write[q], wire[q], watch'[q], link[q], broken[q], items')
      <4>1. RedisFits(write[q], wire[q], watch[q], link[q], broken[q], items)
        BY <3>1 DEF RedisAt
      <4>2. CASE watch'[q] = watch[q] /\ items' = items
        BY <4>1, <4>2
      <4>3. CASE watch'[q] = IF watch[q] = "clean" THEN "changed" ELSE watch[q]
        <5>1. watch[q] \in {"none", "clean", "changed"}
          BY DEF RedisTyped
        <5> QED
          BY <4>1, <4>3, <5>1, OthersTransact
      <4> QED
        BY <2>2, <4>2, <4>3 DEF Alone
    <3> QED
      BY <3>1, <3>2, <3>3 DEF RedisAt, RedisThen
  <2> QED
    BY <2>1, <2>2
<1> QED
  BY <1>1 DEF RedisOK, RedisThen

(* The wire of p, without its first d commands, has new ones.              *)
HasSent(p, d, cs) ==
  /\ wire' \in [Process -> Seq(Commands)] /\ Follows(wire'[p], wire[p], d, cs)
  /\ \A q \in Process : q # p => wire'[q] = wire[q]

(* What is sent comes at the end of the wire.                              *)
LEMMA SendSent ==
  ASSUME RedisTyped, NEW p \in Process, NEW cs \in Seq(Commands), Redis!Send(p, cs)
  PROVE  HasSent(p, 0, cs)
<1> HIDE DEF Commands
<1>1. wire \in [Process -> Seq(Commands)] /\ wire[p] \in Seq(Commands)
  BY DEF RedisTyped
<1>2. Follows(wire[p] \o cs, wire[p], 0, cs)
  BY <1>1, Sending
<1>3. wire[p] \o cs \in Seq(Commands)
  BY <1>2 DEF Follows
<1>4. wire' = [wire EXCEPT ![p] = wire[p] \o cs]
  BY DEF Redis!Send
<1> QED
  BY <1>1, <1>2, <1>3, <1>4 DEF HasSent

(* An answer takes the first command from the wire.                        *)
LEMMA AnsweredSent ==
  ASSUME RedisTyped, NEW p \in Process, NEW cs \in Seq(Commands), wire[p] # <<>>, Redis!Answered(p, cs)
  PROVE  HasSent(p, 1, cs)
<1>1. wire \in [Process -> Seq(Commands)] /\ wire[p] \in Seq(Commands)
  BY DEF RedisTyped
<1>2. Follows(Tail(wire[p]) \o cs, wire[p], 1, cs)
  BY <1>1, Answering
<1>3. Tail(wire[p]) \o cs \in Seq(Commands)
  BY <1>2 DEF Follows
<1>4. wire' = [wire EXCEPT ![p] = Tail(wire[p]) \o cs]
  BY DEF Redis!Answered
<1> QED
  BY <1>1, <1>2, <1>3, <1>4 DEF HasSent

(* A write begins, and ends.                                               *)
HasBegun(p, w) ==
  /\ DatabaseTyped' /\ write[p] = Idle /\ write'[p] = w /\ items' = items /\ inited' = inited
  /\ \A q \in Process : q # p => write'[q] = write[q] /\ others'[q] = others[q] /\ spoiled'[q] = spoiled[q]

(* A write that begins is the write of its process alone.                  *)
LEMMA BeginBegun ==
  ASSUME DatabaseTyped, NEW p \in Process, NEW w \in Writes, Begin(p, w)
  PROVE  HasBegun(p, w)
<1>1. Silent \in Silent..MaxVersion
  BY DatabaseAssumption DEF Silent
<1>2. write' \in [Process -> {Idle, Stuck} \cup Writes] /\ told' \in [Process -> Silent..MaxVersion]
  BY <1>1 DEF Begin, DatabaseTyped
<1>3. others' \in [Process -> SUBSET Keys] /\ spoiled' \in [Process -> SUBSET Keys]
  BY DEF Begin, DatabaseTyped
<1> QED
  BY <1>2, <1>3 DEF Begin, DatabaseTyped, HasBegun

(* The modules of the two stores begin writes alike.                       *)
LEMMA SameBegin == \A p, w : Redis!Begin(p, w) = Begin(p, w) /\ Dynamo!Begin(p, w) = Begin(p, w)
BY DEF Begin, Redis!Begin, Dynamo!Begin, Idle, Redis!Idle, Dynamo!Idle, Silent, Redis!Silent, Dynamo!Silent

(* The modules of the two stores answer alike.                             *)
LEMMA SameAnswer == \A p, what : Redis!Answer(p, what) = Answer(p, what) /\ Dynamo!Answer(p, what) = Answer(p, what)
BY DEF Answer, Redis!Answer, Dynamo!Answer, Idle, Redis!Idle, Dynamo!Idle

HasEnded(p, what) ==
  /\ write' \in [Process -> {Idle, Stuck} \cup Writes] /\ told' \in [Process -> Silent..MaxVersion]
  /\ write'[p] = Idle /\ told'[p] = what
  /\ \A q \in Process : q # p => write'[q] = write[q]

(* A write that is answered is over.                                       *)
LEMMA AnswerEnded ==
  ASSUME DatabaseTyped, NEW p \in Process, NEW what \in Silent..MaxVersion, Answer(p, what)
  PROVE  HasEnded(p, what)
BY DEF DatabaseTyped, Answer, HasEnded

(* The writes that begin, and the answers that are not versions.           *)
LEMMA WritesTyped ==
  /\ \A k \in Keys, v \in 1..MaxVersion : [op |-> "upsert", key |-> k, version |-> v] \in Writes
  /\ \A data \in DataSets : [op |-> "init", data |-> data] \in Writes
  /\ Silent \in Silent..MaxVersion /\ Failed \in Silent..MaxVersion /\ Versions \subseteq Silent..MaxVersion
  /\ 1..MaxVersion \subseteq Versions /\ Absent \in Versions /\ Versions \subseteq Int
  /\ \A v \in Versions : v = Absent \/ v \in 1..MaxVersion
BY DatabaseAssumption DEF Writes, Silent, Failed, Versions, Absent

(* What p sends first of an upsert.                                        *)
LEMMA FirstCommands ==
  ASSUME NEW p \in Process, NEW k \in Keys, NEW v \in 1..MaxVersion, NEW cs, cs = Redis!UpsertCommands(p, k, v)
  PROVE  /\ cs \in Seq(Commands) /\ Len(cs) = 2 /\ cs[1] = Redis!Watch
         /\ cs[2] = IF Redis!Reachable(p) THEN Redis!HGet(k) ELSE Redis!Exec(k, v)
<1> DEFINE c == IF Redis!Reachable(p) THEN Redis!HGet(k) ELSE Redis!Exec(k, v)
<1>1. c \in Commands /\ Redis!Watch \in Commands
  BY CommandsTyped
<1>2. cs = <<Redis!Watch, c>>
  BY DEF Redis!UpsertCommands
<1> HIDE DEF c
<1>3. cs \in Seq(Commands) /\ Len(cs) = 2 /\ cs[1] = Redis!Watch /\ cs[2] = c
  BY <1>1, <1>2
<1> QED
  BY <1>3 DEF c

Before == DatabaseTyped /\ RedisTyped /\ RedisOK /\ backend = "redis"
Kept == DatabaseTyped' /\ RedisTyped' /\ RedisOK'

(* What Before says of p.                                                  *)
LEMMA AtFirstHere ==
  ASSUME Before, NEW p \in Process
  PROVE  /\ DatabaseTyped /\ RedisTyped /\ RedisAt(p) /\ WireFits(write[p], wire[p])
         /\ wire[p] \in Seq(Commands) /\ answers[p] \in 0..2 /\ Len(wire[p]) \in Nat
         /\ watch[p] \in {"none", "clean", "changed"} /\ link[p] \in {"initial", "connected", "down"}
BY DEF Before, RedisOK, RedisAt, RedisFits, RedisTyped

(* Upsert sends a WATCH and its get, or, without a connection, its         *)
(* transaction.                                                            *)
LEMMA RedisUpsertKeeps ==
  ASSUME Before, NEW p \in Process, NEW k \in Keys, NEW v \in 1..MaxVersion, Redis!RedisUpsert(p, k, v)
  PROVE  Kept
<1> DEFINE w == [op |-> "upsert", key |-> k, version |-> v]
           cs == Redis!UpsertCommands(p, k, v)
<1>1. w \in Writes /\ w.op = "upsert" /\ w.key = k /\ w.version = v
  BY WritesTyped
<1>2. cs \in Seq(Commands) /\ Len(cs) = 2 /\ cs[1] = Redis!Watch
      /\ cs[2] = IF Redis!Reachable(p) THEN Redis!HGet(k) ELSE Redis!Exec(k, v)
  BY FirstCommands
<1>3. /\ Begin(p, w) /\ Redis!Send(p, cs)
      /\ broken' = [broken EXCEPT ![p] = ~Redis!Reachable(p)]
      /\ UNCHANGED <<link, watch, reads, answers>>
  BY SameBegin DEF Redis!RedisUpsert
<1> HIDE DEF w, cs
<1>4. HasBegun(p, w) /\ HasSent(p, 0, cs)
  BY <1>1, <1>2, <1>3, AtFirstHere, BeginBegun, SendSent
<1>5. Redis!Reachable(p) \in BOOLEAN /\ (Redis!Reachable(p) <=> link[p] # "down")
  BY DEF Redis!Reachable
<1>6. RedisTyped'
  BY <1>3, <1>4, <1>5 DEF Before, RedisTyped, HasSent
<1>7. Reads(wire[p], 0) /\ Follows(wire'[p], wire[p], 0, cs)
  BY <1>4, AtFirstHere, IdleReads DEF HasBegun, HasSent, Idle
<1>8. /\ cs[1].cmd = "watch" /\ cs[2].cmd \in {"hget", "exec"} /\ (cs[2].cmd = "exec" => ~Redis!Reachable(p))
      /\ CommandFits(w, cs[1]) /\ CommandFits(w, cs[2])
      /\ \A n \in 1..Len(cs) : cs[n].cmd # "hgetall"
  BY <1>1, <1>2, CommandsTyped DEF CommandFits
<1>9. RedisFits(w, wire'[p], watch[p], link[p], ~Redis!Reachable(p), items)
  <2>1. wire[p] \in Seq(Commands) /\ 0 <= Len(wire[p]) /\ 0 \in 0..1
    BY AtFirstHere
  <2>2. link[p] = "down" => ~Redis!Reachable(p)
    BY <1>5
  <2> QED
    BY <1>2, <1>7, <1>8, <2>1, <2>2, UpsertSent
<1>10. Counted(reads[p], answers[p], wire'[p])
  <2>1. wire[p] \in Seq(Commands) /\ 0 <= Len(wire[p]) /\ 0 \in 0..1
        /\ answers[p] \in 0..2 /\ Counted(reads[p], answers[p], wire[p])
    BY AtFirstHere DEF RedisAt
  <2> QED
    BY <1>2, <1>7, <1>8, <2>1, CountedStill
<1>11. RedisThen(p)
  <2>1. write'[p] = w /\ items' = items /\ watch' = watch /\ link' = link /\ reads' = reads /\ answers' = answers
    BY <1>3, <1>4 DEF HasBegun
  <2>2. broken'[p] = ~Redis!Reachable(p)
    BY <1>3 DEF Before, RedisTyped
  <2> QED
    BY <1>9, <1>10, <2>1, <2>2 DEF RedisThen
<1>12. Alone(p)
  BY <1>3, <1>4 DEF Before, RedisTyped, Alone, HasBegun, HasSent
<1> QED
  BY <1>4, <1>6, <1>11, <1>12, RedisStepKeeps DEF Before, Kept, HasBegun

(* Init sends one transaction.                                             *)
LEMMA RedisInitKeeps ==
  ASSUME Before, NEW p \in Process, NEW data \in DataSets, Redis!RedisInit(p, data)
  PROVE  Kept
<1> DEFINE w == [op |-> "init", data |-> data]
           cs == <<Redis!ExecInit(data)>>
<1>1. w \in Writes /\ w.op = "init" /\ w.data = data
  BY WritesTyped
<1>2. cs \in Seq(Commands) /\ Len(cs) = 1 /\ cs[1] = Redis!ExecInit(data)
  BY CommandsTyped
<1>3. /\ Begin(p, w) /\ Redis!Send(p, cs)
      /\ broken' = [broken EXCEPT ![p] = ~Redis!Reachable(p)]
      /\ UNCHANGED <<link, watch, reads, answers>>
  BY SameBegin DEF Redis!RedisInit
<1> HIDE DEF w, cs
<1>4. HasBegun(p, w) /\ HasSent(p, 0, cs)
  BY <1>1, <1>2, <1>3, AtFirstHere, BeginBegun, SendSent
<1>5. Redis!Reachable(p) \in BOOLEAN /\ (Redis!Reachable(p) <=> link[p] # "down")
  BY DEF Redis!Reachable
<1>6. RedisTyped'
  BY <1>3, <1>4, <1>5 DEF Before, RedisTyped, HasSent
<1>7. Reads(wire[p], 0) /\ Follows(wire'[p], wire[p], 0, cs)
  BY <1>4, AtFirstHere, IdleReads DEF HasBegun, HasSent, Idle
<1>8. /\ cs[1].cmd = "exec_init" /\ CommandFits(w, cs[1]) /\ Safe(cs[1], watch[p], ~Redis!Reachable(p), items)
      /\ \A n \in 1..Len(cs) : cs[n].cmd # "hgetall"
  BY <1>1, <1>2, CommandsTyped DEF CommandFits, Safe
<1>9. RedisFits(w, wire'[p], watch[p], link[p], ~Redis!Reachable(p), items)
  <2>1. wire[p] \in Seq(Commands) /\ 0 <= Len(wire[p]) /\ 0 \in 0..1
    BY AtFirstHere
  <2>2. link[p] = "down" => ~Redis!Reachable(p)
    BY <1>5
  <2> QED
    BY <1>2, <1>7, <1>8, <2>1, <2>2, WriteSent
<1>10. Counted(reads[p], answers[p], wire'[p])
  <2>1. wire[p] \in Seq(Commands) /\ 0 <= Len(wire[p]) /\ 0 \in 0..1
        /\ answers[p] \in 0..2 /\ Counted(reads[p], answers[p], wire[p])
    BY AtFirstHere DEF RedisAt
  <2> QED
    BY <1>2, <1>7, <1>8, <2>1, CountedStill
<1>11. RedisThen(p)
  <2>1. write'[p] = w /\ items' = items /\ watch' = watch /\ link' = link /\ reads' = reads /\ answers' = answers
    BY <1>3, <1>4 DEF HasBegun
  <2>2. broken'[p] = ~Redis!Reachable(p)
    BY <1>3 DEF Before, RedisTyped
  <2> QED
    BY <1>9, <1>10, <2>1, <2>2 DEF RedisThen
<1>12. Alone(p)
  BY <1>3, <1>4 DEF Before, RedisTyped, Alone, HasBegun, HasSent
<1> QED
  BY <1>4, <1>6, <1>11, <1>12, RedisStepKeeps DEF Before, Kept, HasBegun

(* What a write is, if it is an upsert or an init.                         *)
LEMMA WriteIs ==
  ASSUME DatabaseTyped, NEW p \in Process
  PROVE  /\ write[p].op = "upsert" => write[p].key \in Keys /\ write[p].version \in 1..MaxVersion
         /\ write[p].op = "init" => write[p].data \in DataSets
         /\ write[p] \in {Idle, Stuck} => write[p].op \notin {"upsert", "init"}
BY DEF DatabaseTyped, Writes, Idle, Stuck

(* The command that is next.                                               *)
LEMMA HeadHere ==
  ASSUME Before, NEW p \in Process, NEW cmd, Redis!NextCommand(p, cmd)
  PROVE  /\ wire[p] # <<>> /\ 1 <= Len(wire[p]) /\ 1 \in 1..Len(wire[p])
         /\ wire[p][1].cmd = cmd /\ CommandFits(write[p], wire[p][1])
<1>1. wire[p] \in Seq(Commands) /\ WireFits(write[p], wire[p])
  BY AtFirstHere
<1>2. wire[p] # <<>> /\ wire[p][1].cmd = cmd
  BY DEF Redis!NextCommand
<1>3. Len(wire[p]) \in Nat /\ 1 <= Len(wire[p])
  BY <1>1, <1>2, EmptySeq
<1> QED
  BY <1>1, <1>2, <1>3 DEF WireFits

(* A write ends with its last command.                                     *)
LEMMA WriteEnds ==
  ASSUME Before, NEW p \in Process, NEW cmd \in Last, Redis!NextCommand(p, cmd), HasSent(p, 1, <<>>),
         write'[p] = Idle, reads'[p] = reads[p], answers'[p] = answers[p]
  PROVE  RedisThen(p)
<1>1. wire[p] \in Seq(Commands) /\ 1 <= Len(wire[p]) /\ wire[p] # <<>> /\ WireFits(write[p], wire[p])
      /\ wire[p][1].cmd \in Last /\ answers[p] \in 0..2 /\ Counted(reads[p], answers[p], wire[p])
  BY AtFirstHere, HeadHere DEF RedisAt
<1>2. Follows(wire'[p], wire[p], 1, <<>>) /\ 1 \in 0..1
  BY DEF HasSent
<1>3. Reads(wire[p], 1)
  BY <1>1, RestReads
<1>4. RedisFits(Idle, wire'[p], watch'[p], link'[p], broken'[p], items')
  BY <1>1, <1>2, <1>3, ReadsFit
<1>5. <<>> \in Seq(Commands) /\ \A n \in 1..Len(<<>>) : <<>>[n].cmd # "hgetall"
  BY EmptySeq
<1>6. Counted(reads[p], answers[p], wire'[p])
  BY <1>1, <1>2, <1>5, CountedStill
<1> QED
  BY <1>4, <1>6 DEF RedisThen

(* A get is answered, and the transaction follows.                         *)
LEMMA TransactionFollows ==
  ASSUME Before, NEW p \in Process, Redis!NextCommand(p, "hget"),
         HasSent(p, 1, <<Redis!Exec(write[p].key, write[p].version)>>),
         write'[p] = write[p], reads'[p] = reads[p], answers'[p] = answers[p],
         link'[p] = link[p], broken'[p] = broken[p], watch'[p] = watch[p],
         items' = items, broken[p] \/ items[write[p].key] < write[p].version
  PROVE  RedisThen(p)
<1> DEFINE c == Redis!Exec(write[p].key, write[p].version)
           cs == <<c>>
<1>1. wire[p] \in Seq(Commands) /\ 1 <= Len(wire[p]) /\ wire[p] # <<>> /\ WireFits(write[p], wire[p])
      /\ wire[p][1].cmd = "hget" /\ answers[p] \in 0..2 /\ Counted(reads[p], answers[p], wire[p])
      /\ 1 \in 1..Len(wire[p])
  BY AtFirstHere, HeadHere DEF RedisAt
<1>2. Follows(wire'[p], wire[p], 1, cs) /\ 1 \in 0..1
  BY DEF HasSent
<1>3. Reads(wire[p], 1)
  BY <1>1, RestReads DEF Last
<1>4. write[p].op = "upsert" /\ write[p].key \in Keys /\ write[p].version \in 1..MaxVersion
  BY HeadHere, AtFirstHere, WriteIs DEF CommandFits
<1>5. c \in Commands /\ c.cmd = "exec" /\ c.key = write[p].key /\ c.version = write[p].version
  BY <1>4, CommandsTyped
<1> HIDE DEF c
<1>6. cs \in Seq(Commands) /\ Len(cs) = 1 /\ cs[1] = c
  BY <1>5
<1> HIDE DEF cs
<1>7. CommandFits(write[p], cs[1]) /\ (\A n \in 1..Len(cs) : cs[n].cmd # "hgetall")
  BY <1>4, <1>5, <1>6 DEF CommandFits
<1>8. RedisFits(write[p], wire[p], watch[p], link[p], broken[p], items) /\ write[p] # Idle
  BY <1>4, AtFirstHere, WriteIs DEF RedisAt
<1>9. link[p] = "down" => broken[p]
  BY <1>8 DEF RedisFits
<1>10. Safe(cs[1], watch[p], broken[p], items)
  <2>1. CASE broken[p]
    BY <2>1 DEF Safe
  <2>2. CASE ~broken[p]
    <3>1. ReadsWatched(wire[p], watch[p])
      BY <1>8, <2>2 DEF RedisFits
    <3>2. \A m \in 1..Len(wire[p]) : wire[p][m].cmd # "watch"
      <4> TAKE m \in 1..Len(wire[p])
      <4>1. m = 1 \/ m > 1
        BY <1>1
      <4>2. m > 1 => wire[p][m].cmd = "hgetall"
        BY <1>3 DEF Reads
      <4> QED
        BY <1>1, <4>1, <4>2
    <3>3. watch[p] # "none"
      BY <1>1, <3>1, <3>2 DEF ReadsWatched
    <3>4. watch[p] = "changed" \/ (watch[p] = "clean" /\ items[cs[1].key] < cs[1].version)
      BY <1>5, <1>6, <2>2, <3>3, AtFirstHere
    <3> QED
      BY <3>4 DEF Safe
  <2> QED
    BY <2>1, <2>2
<1>11. cs[1].cmd \in {"exec", "exec_init"}
  BY <1>5, <1>6
<1>12. RedisFits(write[p], wire'[p], watch[p], link[p], broken[p], items)
  BY <1>1, <1>2, <1>3, <1>6, <1>7, <1>9, <1>10, <1>11, WriteSent
<1>13. Counted(reads[p], answers[p], wire'[p])
  BY <1>1, <1>2, <1>6, <1>7, CountedStill
<1> QED
  BY <1>12, <1>13 DEF RedisThen

(* A WATCH is served; the get behind it is now watched.                    *)
LEMMA ServeWatchKeeps ==
  ASSUME Before, NEW p \in Process, Redis!ServeWatch(p)
  PROVE  Kept
<1>1. /\ Redis!NextCommand(p, "watch") /\ Redis!Answered(p, <<>>)
      /\ watch' = [watch EXCEPT ![p] = IF @ = "none" THEN "clean" ELSE @]
      /\ UNCHANGED <<items, inited, write, told, others, spoiled, link, reads, answers, broken>>
  BY DEF Redis!ServeWatch, Redis!Serves, Redis!dbVars
<1>2. wire[p] \in Seq(Commands) /\ 1 <= Len(wire[p]) /\ wire[p] # <<>> /\ wire[p][1].cmd = "watch"
      /\ answers[p] \in 0..2 /\ RedisAt(p) /\ RedisTyped
  BY <1>1, AtFirstHere, HeadHere
<1>3. <<>> \in Seq(Commands) /\ \A n \in 1..Len(<<>>) : <<>>[n].cmd # "hgetall"
  BY EmptySeq
<1>4. HasSent(p, 1, <<>>)
  BY <1>1, <1>2, <1>3, AnsweredSent
<1>5. watch'[p] # "none" /\ watch' \in [Process -> {"none", "clean", "changed"}]
      /\ \A q \in Process : q # p => watch'[q] = watch[q]
  BY <1>1, <1>2 DEF RedisTyped
<1>6. RedisTyped'
  BY <1>1, <1>2, <1>4, <1>5 DEF RedisTyped, HasSent
<1>7. Follows(wire'[p], wire[p], 1, <<>>) /\ 1 \in 0..1
  BY <1>4 DEF HasSent
<1>8. RedisFits(write[p], wire'[p], watch'[p], link[p], broken[p], items)
  <2>1. RedisFits(write[p], wire[p], watch[p], link[p], broken[p], items)
    BY <1>2 DEF RedisAt
  <2> QED
    BY <1>2, <1>5, <1>7, <2>1, HeadGone
<1>9. Counted(reads[p], answers[p], wire'[p])
  <2>1. Counted(reads[p], answers[p], wire[p])
    BY <1>2 DEF RedisAt
  <2> QED
    BY <1>2, <1>3, <1>7, <2>1, CountedStill
<1>10. RedisThen(p) /\ Alone(p)
  BY <1>1, <1>4, <1>5, <1>8, <1>9 DEF RedisThen, Alone, HasSent
<1>11. DatabaseTyped'
  BY <1>1 DEF Before, DatabaseTyped
<1> QED
  BY <1>6, <1>10, <1>11, RedisStepKeeps DEF Before, Kept

(* The callback of an upsert's get, with what it was told.                 *)
LEMMA CompareKeeps ==
  ASSUME Before, NEW p \in Process, Redis!NextCommand(p, "hget"), NEW old \in Versions, Redis!Compare(p, old),
         UNCHANGED <<items, inited, others, spoiled, link, watch, reads, answers, broken>>,
         broken[p] \/ old = items[write[p].key]
  PROVE  Kept
<1>1. wire[p] \in Seq(Commands) /\ wire[p] # <<>> /\ RedisTyped /\ DatabaseTyped
      /\ write[p].key \in Keys /\ write[p].version \in 1..MaxVersion
  BY AtFirstHere, HeadHere, WriteIs DEF CommandFits
<1>2. old \in Silent..MaxVersion
  BY WritesTyped
<1>3. HasSent(p, 1, <<>>) \/ HasSent(p, 1, <<Redis!Exec(write[p].key, write[p].version)>>)
      => RedisTyped'
  BY <1>1 DEF RedisTyped, HasSent
<1>4. CASE old >= write[p].version
  <2>1. Answer(p, old) /\ Redis!Answered(p, <<>>)
    BY <1>4, SameAnswer DEF Redis!Compare
  <2>2. HasEnded(p, old) /\ HasSent(p, 1, <<>>)
    BY <1>1, <1>2, <2>1, EmptySeq, AnswerEnded, AnsweredSent
  <2>3. write'[p] = Idle /\ reads'[p] = reads[p] /\ answers'[p] = answers[p] /\ "hget" \in Last
    BY <2>2 DEF HasEnded, Last
  <2>4. RedisThen(p)
    BY <2>2, <2>3, WriteEnds
  <2>5. Alone(p)
    BY <2>2 DEF Alone, HasEnded, HasSent
  <2>6. DatabaseTyped'
    BY <1>1, <2>2 DEF DatabaseTyped, HasEnded
  <2> QED
    BY <1>3, <2>2, <2>4, <2>5, <2>6, RedisStepKeeps DEF Before, Kept
<1>5. CASE ~(old >= write[p].version)
  <2> DEFINE cs == <<Redis!Exec(write[p].key, write[p].version)>>
  <2>1. Redis!Answered(p, cs) /\ UNCHANGED <<write, told>>
    BY <1>5 DEF Redis!Compare
  <2>2. cs \in Seq(Commands)
    BY <1>1, CommandsTyped
  <2>3. HasSent(p, 1, cs)
    <3> HIDE DEF cs
    <3> QED
      BY <1>1, <2>1, <2>2, AnsweredSent
  <2>4. broken[p] \/ items[write[p].key] < write[p].version
    <3>1. old \in Int /\ write[p].version \in Int
      BY <1>1, WritesTyped
    <3> QED
      BY <1>5, <3>1
  <2>5. RedisThen(p)
    BY <2>1, <2>3, <2>4, TransactionFollows
  <2>6. Alone(p)
    BY <2>1, <2>3 DEF Alone, HasSent
  <2>7. DatabaseTyped'
    BY <1>1, <2>1 DEF DatabaseTyped
  <2> QED
    BY <1>3, <2>3, <2>5, <2>6, <2>7, RedisStepKeeps DEF Before, Kept
<1> QED
  BY <1>4, <1>5

(* The get of an upsert is served.                                         *)
LEMMA ServeHGetKeeps ==
  ASSUME Before, NEW p \in Process, Redis!ServeHGet(p)
  PROVE  Kept
<1>1. /\ Redis!NextCommand(p, "hget") /\ Redis!Compare(p, items[wire[p][1].key])
      /\ UNCHANGED <<items, inited, others, spoiled, link, watch, reads, answers, broken>>
  BY DEF Redis!ServeHGet, Redis!Serves
<1>2. wire[p][1].key = write[p].key /\ write[p].key \in Keys
  BY <1>1, AtFirstHere, HeadHere, WriteIs DEF CommandFits
<1>3. items[wire[p][1].key] \in Versions
  BY <1>2, AtFirstHere DEF DatabaseTyped
<1> QED
  BY <1>1, <1>2, <1>3, CompareKeeps

(* A transaction is carried out.                                           *)
HasTransacted(p, new) ==
  /\ items' = new /\ items' \in [Keys -> Versions] /\ others' \in [Process -> SUBSET Keys]
  /\ watch' \in [Process -> {"none", "clean", "changed"}] /\ watch'[p] = "none"
  /\ \A q \in Process : q # p => watch'[q] = IF watch[q] = "clean" THEN "changed" ELSE watch[q]

(* A transaction that is carried out breaks the WATCH of the others.       *)
LEMMA TransactDone ==
  ASSUME DatabaseTyped, RedisTyped, NEW p \in Process, NEW new \in [Keys -> Versions], Redis!Transact(p, new)
  PROVE  HasTransacted(p, new)
<1>1. items' = new
      /\ others' = [q \in Process |-> IF q = p \/ write[q] = Idle THEN others[q]
                                      ELSE others[q] \cup {k \in Keys : new[k] # items[k]}]
  BY DEF Redis!Transact, Redis!Store, Idle, Redis!Idle
<1>2. watch' = [q \in Process |-> IF q = p THEN "none"
                                  ELSE IF watch[q] = "clean" THEN "changed" ELSE watch[q]]
  BY DEF Redis!Transact
<1>3. others' \in [Process -> SUBSET Keys]
  BY <1>1 DEF DatabaseTyped
<1>4. watch' \in [Process -> {"none", "clean", "changed"}]
  BY <1>2 DEF RedisTyped
<1> QED
  BY <1>1, <1>2, <1>3, <1>4 DEF HasTransacted

(* The transaction of an upsert sets one item.                             *)
LEMMA ExecSets ==
  ASSUME Before, NEW p \in Process, Redis!NextCommand(p, "exec")
  PROVE  /\ wire[p][1].key = write[p].key /\ wire[p][1].version = write[p].version
         /\ write[p].op = "upsert" /\ write[p].key \in Keys /\ write[p].version \in 1..MaxVersion
         /\ [items EXCEPT ![wire[p][1].key] = wire[p][1].version] \in [Keys -> Versions]
<1>1. /\ wire[p][1].key = write[p].key /\ wire[p][1].version = write[p].version /\ write[p].op = "upsert"
      /\ write[p].key \in Keys /\ write[p].version \in 1..MaxVersion
  BY HeadHere, AtFirstHere, WriteIs DEF CommandFits
<1>2. items \in [Keys -> Versions]
  BY AtFirstHere DEF DatabaseTyped
<1> QED
  BY <1>1, <1>2, WritesTyped

(* The transaction of an upsert is carried out, or refused and tried       *)
(* again.                                                                  *)
LEMMA ServeExecKeeps ==
  ASSUME Before, NEW p \in Process, Redis!ServeExec(p)
  PROVE  Kept
<1>1. /\ Redis!NextCommand(p, "exec") /\ link[p] = "connected"
      /\ UNCHANGED <<inited, spoiled, link, reads, answers, broken>>
  BY DEF Redis!ServeExec, Redis!Serves
<1>2. wire[p] \in Seq(Commands) /\ wire[p] # <<>> /\ RedisTyped /\ DatabaseTyped /\ 1 <= Len(wire[p])
      /\ wire[p][1].cmd = "exec" /\ WireFits(write[p], wire[p]) /\ answers[p] \in 0..2 /\ RedisAt(p)
  BY <1>1, AtFirstHere, HeadHere
<1>3. CASE /\ watch[p] = "changed" /\ watch' = [watch EXCEPT ![p] = "none"]
           /\ Redis!Retry(p) /\ UNCHANGED <<items, others>>
  <2> DEFINE cs == Redis!UpsertCommands(p, write[p].key, write[p].version)
  <2>1. Redis!Answered(p, cs) /\ UNCHANGED <<write, told>>
    BY <1>1, <1>3, ExecSets DEF Redis!Retry
  <2>2. cs \in Seq(Commands) /\ Len(cs) = 2 /\ cs[1] = Redis!Watch /\ cs[2] = Redis!HGet(write[p].key)
    BY <1>1, ExecSets, FirstCommands DEF Redis!Reachable
  <2> HIDE DEF cs
  <2>3. HasSent(p, 1, cs)
    BY <1>2, <2>1, <2>2, AnsweredSent
  <2>4. watch' \in [Process -> {"none", "clean", "changed"}] /\ \A q \in Process : q # p => watch'[q] = watch[q]
    BY <1>2, <1>3 DEF RedisTyped
  <2>5. RedisTyped'
    BY <1>1, <1>2, <2>3, <2>4 DEF RedisTyped, HasSent
  <2>6. Follows(wire'[p], wire[p], 1, cs) /\ 1 \in 0..1
    BY <2>3 DEF HasSent
  <2>7. Reads(wire[p], 1)
    BY <1>2, RestReads DEF Last
  <2>8. /\ cs[1].cmd = "watch" /\ cs[2].cmd = "hget" /\ CommandFits(write[p], cs[1]) /\ CommandFits(write[p], cs[2])
        /\ \A n \in 1..Len(cs) : cs[n].cmd # "hgetall"
    BY <1>1, <2>2, ExecSets, CommandsTyped DEF CommandFits
  <2>9. (link[p] = "down" => broken[p]) /\ cs[2].cmd \in {"hget", "exec"} /\ (cs[2].cmd = "exec" => broken[p])
    BY <1>1, <2>8
  <2>10. RedisFits(write[p], wire'[p], watch'[p], link[p], broken[p], items)
    BY <1>2, <2>2, <2>6, <2>7, <2>8, <2>9, UpsertSent
  <2>11. Counted(reads[p], answers[p], wire'[p])
    <3>1. Counted(reads[p], answers[p], wire[p])
      BY <1>2 DEF RedisAt
    <3> QED
      BY <1>2, <2>2, <2>6, <2>8, <3>1, CountedStill
  <2>12. RedisThen(p) /\ Alone(p)
    BY <1>1, <1>3, <2>1, <2>3, <2>4, <2>10, <2>11 DEF RedisThen, Alone, HasSent
  <2>13. DatabaseTyped'
    BY <1>1, <1>2, <1>3, <2>1 DEF DatabaseTyped
  <2> QED
    BY <2>5, <2>12, <2>13, RedisStepKeeps DEF Before, Kept
<1>4. CASE /\ Redis!Transact(p, [items EXCEPT ![wire[p][1].key] = wire[p][1].version])
           /\ Redis!Answer(p, wire[p][1].version) /\ Redis!Answered(p, <<>>)
  <2> DEFINE new == [items EXCEPT ![wire[p][1].key] = wire[p][1].version]
  <2>1. new \in [Keys -> Versions] /\ wire[p][1].version \in Silent..MaxVersion
    BY <1>1, ExecSets, WritesTyped
  <2> HIDE DEF new
  <2>2. HasTransacted(p, new)
    BY <1>2, <1>4, <2>1, TransactDone DEF new
  <2>3. Answer(p, wire[p][1].version)
    BY <1>4, SameAnswer
  <2>4. HasEnded(p, wire[p][1].version) /\ HasSent(p, 1, <<>>)
    BY <1>2, <1>4, <2>1, <2>3, EmptySeq, AnswerEnded, AnsweredSent
  <2>5. RedisThen(p)
    <3>1. write'[p] = Idle /\ reads'[p] = reads[p] /\ answers'[p] = answers[p] /\ "exec" \in Last
      BY <1>1, <2>4 DEF HasEnded, Last
    <3> QED
      BY <1>1, <2>4, <3>1, WriteEnds
  <2>6. Alone(p)
    BY <1>1, <2>2, <2>4 DEF Alone, HasEnded, HasSent, HasTransacted
  <2>7. DatabaseTyped'
    BY <1>1, <1>2, <2>2, <2>4 DEF DatabaseTyped, HasEnded, HasTransacted
  <2>8. RedisTyped'
    BY <1>1, <1>2, <2>2, <2>4 DEF RedisTyped, HasSent, HasTransacted
  <2> QED
    BY <2>5, <2>6, <2>7, <2>8, RedisStepKeeps DEF Before, Kept
<1> QED
  BY <1>3, <1>4 DEF Redis!ServeExec

(* The transaction of init is carried out, or refused without a word.      *)
LEMMA ServeInitKeeps ==
  ASSUME Before, NEW p \in Process, Redis!ServeInit(p)
  PROVE  Kept
<1>1. /\ Redis!NextCommand(p, "exec_init") /\ Answer(p, Silent) /\ Redis!Answered(p, <<>>)
      /\ UNCHANGED <<spoiled, link, reads, answers, broken>>
      /\ \/ watch' = [watch EXCEPT ![p] = "none"] /\ UNCHANGED <<items, inited, others>>
         \/ Redis!Transact(p, wire[p][1].data) /\ inited' = TRUE
  BY SameAnswer DEF Redis!ServeInit, Redis!Serves, Silent, Redis!Silent
<1>2. wire[p] \in Seq(Commands) /\ wire[p] # <<>> /\ RedisTyped /\ DatabaseTyped
      /\ wire[p][1].data \in DataSets
  BY <1>1, AtFirstHere, HeadHere, WriteIs DEF CommandFits
<1>3. HasEnded(p, Silent) /\ HasSent(p, 1, <<>>)
  BY <1>1, <1>2, EmptySeq, WritesTyped, AnswerEnded, AnsweredSent
<1>4. RedisThen(p)
  <2>1. write'[p] = Idle /\ reads'[p] = reads[p] /\ answers'[p] = answers[p] /\ "exec_init" \in Last
    BY <1>1, <1>3 DEF HasEnded, Last
  <2> QED
    BY <1>1, <1>3, <2>1, WriteEnds
<1>5. CASE watch' = [watch EXCEPT ![p] = "none"] /\ UNCHANGED <<items, inited, others>>
  <2>1. watch' \in [Process -> {"none", "clean", "changed"}] /\ \A q \in Process : q # p => watch'[q] = watch[q]
    BY <1>2, <1>5 DEF RedisTyped
  <2>2. Alone(p)
    BY <1>1, <1>3, <1>5, <2>1 DEF Alone, HasEnded, HasSent
  <2>3. DatabaseTyped' /\ RedisTyped'
    BY <1>1, <1>2, <1>3, <1>5, <2>1 DEF DatabaseTyped, RedisTyped, HasEnded, HasSent
  <2> QED
    BY <1>4, <2>2, <2>3, RedisStepKeeps DEF Before, Kept
<1>6. CASE Redis!Transact(p, wire[p][1].data) /\ inited' = TRUE
  <2>1. wire[p][1].data \in [Keys -> Versions]
    BY <1>2, DatabaseAssumption
  <2>2. HasTransacted(p, wire[p][1].data)
    BY <1>2, <1>6, <2>1, TransactDone
  <2>3. Alone(p)
    BY <1>1, <1>3, <2>2 DEF Alone, HasEnded, HasSent, HasTransacted
  <2>4. DatabaseTyped' /\ RedisTyped'
    BY <1>1, <1>2, <1>3, <1>6, <2>2 DEF DatabaseTyped, RedisTyped, HasEnded, HasSent, HasTransacted
  <2> QED
    BY <1>4, <2>3, <2>4, RedisStepKeeps DEF Before, Kept
<1> QED
  BY <1>1, <1>5, <1>6

(* A getAll is sent.                                                       *)
LEMMA GetAllKeeps ==
  ASSUME Before, NEW p \in Process, Redis!GetAll(p)
  PROVE  Kept
<1> DEFINE rd == IF Redis!Reachable(p) THEN "connected" ELSE "down"
           then == IF Redis!Reachable(p) THEN answers[p] ELSE answers[p] + 1
           cs == <<Redis!HGetAll>>
<1>1. /\ reads[p] = "none" /\ Redis!Send(p, cs)
      /\ reads' = [reads EXCEPT ![p] = rd] /\ answers' = [answers EXCEPT ![p] = then]
      /\ UNCHANGED <<items, inited, write, told, others, spoiled, link, watch, broken>>
  BY DEF Redis!GetAll, Redis!dbVars
<1>2. cs \in Seq(Commands) /\ Len(cs) = 1 /\ cs[1].cmd = "hgetall"
  BY CommandsTyped
<1>3. rd \in {"none", "connected", "down"} /\ rd # "none" /\ (then = answers[p] \/ then = answers[p] + 1)
  OBVIOUS
<1> HIDE DEF rd, then, cs
<1>4. wire[p] \in Seq(Commands) /\ RedisTyped /\ DatabaseTyped /\ answers[p] \in 0..2 /\ RedisAt(p)
  BY AtFirstHere
<1>5. HasSent(p, 0, cs)
  BY <1>1, <1>2, <1>4, SendSent
<1>6. Follows(wire'[p], wire[p], 0, cs)
  BY <1>5 DEF HasSent
<1>7. then \in 0..2 /\ Counted(rd, then, wire'[p])
  <2>1. Counted("none", answers[p], wire[p])
    BY <1>1, <1>4 DEF RedisAt
  <2> QED
    <3>1. CountedNow(rd, then, wire'[p])
      BY <1>2, <1>3, <1>4, <1>6, <2>1, CountedUp
    <3> QED
      BY <3>1 DEF CountedNow
<1>8. RedisFits(write[p], wire'[p], watch[p], link[p], broken[p], items)
  <2>1. RedisFits(write[p], wire[p], watch[p], link[p], broken[p], items)
    BY <1>4 DEF RedisAt
  <2> QED
    BY <1>2, <1>4, <1>6, <2>1, ReadSent
<1>9. reads' \in [Process -> {"none", "connected", "down"}] /\ reads'[p] = rd
      /\ answers' \in [Process -> 0..2] /\ answers'[p] = then
      /\ \A q \in Process : q # p => reads'[q] = reads[q] /\ answers'[q] = answers[q]
  BY <1>1, <1>3, <1>4, <1>7 DEF RedisTyped
<1>10. RedisThen(p) /\ Alone(p)
  BY <1>1, <1>5, <1>7, <1>8, <1>9 DEF RedisThen, Alone, HasSent
<1>11. DatabaseTyped' /\ RedisTyped'
  BY <1>1, <1>4, <1>5, <1>9 DEF DatabaseTyped, RedisTyped, HasSent
<1> QED
  BY <1>10, <1>11, RedisStepKeeps DEF Before, Kept

(* getAll is answered, by the database or by nobody.                       *)
LEMMA GetAllEnds ==
  ASSUME Before, NEW p \in Process, Redis!NextCommand(p, "hgetall"), Redis!Answered(p, <<>>),
         answers' = [answers EXCEPT ![p] = @ + 1],
         UNCHANGED <<items, inited, write, told, others, spoiled, link, watch, reads, broken>>
  PROVE  Kept
<1>1. wire[p] \in Seq(Commands) /\ wire[p] # <<>> /\ wire[p][1].cmd = "hgetall" /\ RedisTyped /\ DatabaseTyped
      /\ answers[p] \in 0..2 /\ RedisAt(p)
  BY AtFirstHere, HeadHere
<1>2. HasSent(p, 1, <<>>)
  BY <1>1, EmptySeq, AnsweredSent
<1>3. Follows(wire'[p], wire[p], 1, <<>>)
  BY <1>2 DEF HasSent
<1>4. RedisFits(write[p], wire'[p], watch[p], link[p], broken[p], items)
  <2>1. RedisFits(write[p], wire[p], watch[p], link[p], broken[p], items)
    BY <1>1 DEF RedisAt
  <2> QED
    BY <1>1, <1>3, <2>1, HeadGone
<1>5. answers[p] + 1 \in 0..2 /\ Counted(reads[p], answers[p] + 1, wire'[p])
  <2>1. Counted(reads[p], answers[p], wire[p])
    BY <1>1 DEF RedisAt
  <2> QED
    BY <1>1, <1>3, <2>1, CountedDown
<1>6. answers' \in [Process -> 0..2] /\ answers'[p] = answers[p] + 1
      /\ \A q \in Process : q # p => answers'[q] = answers[q]
  BY <1>1, <1>5 DEF RedisTyped
<1>7. RedisThen(p) /\ Alone(p)
  BY <1>2, <1>4, <1>5, <1>6 DEF RedisThen, Alone, HasSent
<1>8. DatabaseTyped' /\ RedisTyped'
  BY <1>1, <1>2, <1>6 DEF DatabaseTyped, RedisTyped, HasSent
<1> QED
  BY <1>7, <1>8, RedisStepKeeps DEF Before, Kept

(* A getAll is answered by the database.                                   *)
LEMMA ServeHGetAllKeeps ==
  ASSUME Before, NEW p \in Process, Redis!ServeHGetAll(p)
  PROVE  Kept
BY GetAllEnds DEF Redis!ServeHGetAll, Redis!Serves, Redis!dbVars

(* A connection is back.                                                   *)
LEMMA ConnectKeeps ==
  ASSUME Before, NEW p \in Process, Redis!Connect(p)
  PROVE  Kept
<1>1. /\ link' = [link EXCEPT ![p] = "connected"]
      /\ UNCHANGED <<items, inited, write, told, others, spoiled, wire, watch, reads, answers, broken>>
  BY DEF Redis!Connect, Redis!dbVars
<1>2. RedisTyped /\ DatabaseTyped /\ RedisAt(p)
  BY AtFirstHere
<1>3. link' \in [Process -> {"initial", "connected", "down"}] /\ link'[p] = "connected"
      /\ \A q \in Process : q # p => link'[q] = link[q]
  BY <1>1, <1>2 DEF RedisTyped
<1>4. RedisFits(write[p], wire[p], watch[p], "connected", broken[p], items)
  BY <1>2 DEF RedisAt, RedisFits
<1>5. RedisThen(p) /\ Alone(p)
  BY <1>1, <1>2, <1>3, <1>4 DEF RedisThen, RedisAt, Alone
<1>6. DatabaseTyped' /\ RedisTyped'
  BY <1>1, <1>2, <1>3 DEF DatabaseTyped, RedisTyped
<1> QED
  BY <1>5, <1>6, RedisStepKeeps DEF Before, Kept

(* A connection breaks; the write that waits is broken from now on.        *)
LEMMA BreakKeeps ==
  ASSUME Before, NEW p \in Process, Redis!Break(p)
  PROVE  Kept
<1>1. /\ link' = [link EXCEPT ![p] = "down"] /\ broken' = [broken EXCEPT ![p] = TRUE]
      /\ UNCHANGED <<inited, write, told, spoiled, wire, reads, answers>>
      /\ \/ watch' = [watch EXCEPT ![p] = "none"] /\ UNCHANGED <<items, others>>
         \/ /\ Redis!NextCommand(p, "exec")
            /\ Redis!Transact(p, [items EXCEPT ![wire[p][1].key] = wire[p][1].version])
  BY DEF Redis!Break
<1>2. RedisTyped /\ DatabaseTyped /\ RedisAt(p)
  BY AtFirstHere
<1>3. /\ link' \in [Process -> {"initial", "connected", "down"}] /\ broken' \in [Process -> BOOLEAN] /\ broken'[p] = TRUE
      /\ \A q \in Process : q # p => link'[q] = link[q] /\ broken'[q] = broken[q]
  BY <1>1, <1>2 DEF RedisTyped
<1>4. RedisFits(write[p], wire[p], watch'[p], link'[p], TRUE, items')
  BY <1>2 DEF RedisAt, RedisFits
<1>5. RedisThen(p)
  BY <1>1, <1>2, <1>3, <1>4 DEF RedisThen, RedisAt
<1>6. CASE watch' = [watch EXCEPT ![p] = "none"] /\ UNCHANGED <<items, others>>
  <2>1. watch' \in [Process -> {"none", "clean", "changed"}] /\ \A q \in Process : q # p => watch'[q] = watch[q]
    BY <1>2, <1>6 DEF RedisTyped
  <2>2. Alone(p)
    BY <1>1, <1>3, <1>6, <2>1 DEF Alone
  <2>3. DatabaseTyped' /\ RedisTyped'
    BY <1>1, <1>2, <1>3, <1>6, <2>1 DEF DatabaseTyped, RedisTyped
  <2> QED
    BY <1>5, <2>2, <2>3, RedisStepKeeps DEF Before, Kept
<1>7. CASE /\ Redis!NextCommand(p, "exec")
           /\ Redis!Transact(p, [items EXCEPT ![wire[p][1].key] = wire[p][1].version])
  <2> DEFINE new == [items EXCEPT ![wire[p][1].key] = wire[p][1].version]
  <2>1. new \in [Keys -> Versions]
    BY <1>7, ExecSets
  <2> HIDE DEF new
  <2>2. HasTransacted(p, new)
    BY <1>2, <1>7, <2>1, TransactDone DEF new
  <2>3. Alone(p)
    BY <1>1, <1>3, <2>2 DEF Alone, HasTransacted
  <2>4. DatabaseTyped' /\ RedisTyped'
    BY <1>1, <1>2, <1>3, <2>2 DEF DatabaseTyped, RedisTyped, HasTransacted
  <2> QED
    BY <1>5, <2>3, <2>4, RedisStepKeeps DEF Before, Kept
<1> QED
  BY <1>1, <1>6, <1>7

(* A process starts again.                                                 *)
LEMMA RedisCrashKeeps ==
  ASSUME Before, NEW p \in Process, Redis!RedisCrash(p)
  PROVE  Kept
<1>1. /\ Answer(p, Failed)
      /\ wire' = [wire EXCEPT ![p] = <<>>] /\ watch' = [watch EXCEPT ![p] = "none"]
      /\ link' = [link EXCEPT ![p] = IF p \in Owners THEN "initial" ELSE "connected"]
      /\ reads' = [reads EXCEPT ![p] = "none"] /\ answers' = [answers EXCEPT ![p] = 0]
      /\ UNCHANGED <<items, inited, others, spoiled, broken>>
  BY SameAnswer DEF Redis!RedisCrash, Failed, Redis!Failed
<1>2. RedisTyped /\ DatabaseTyped
  BY AtFirstHere
<1>3. HasEnded(p, Failed)
  BY <1>1, <1>2, WritesTyped, AnswerEnded
<1>4. <<>> \in Seq(Commands) /\ 1..Len(<<>>) = {}
  BY EmptySeq
<1>5. wire' \in [Process -> Seq(Commands)] /\ wire'[p] = <<>> /\ \A q \in Process : q # p => wire'[q] = wire[q]
  <2> HIDE DEF Commands
  <2> QED
    BY <1>1, <1>2, <1>4 DEF RedisTyped
<1>6. /\ watch' \in [Process -> {"none", "clean", "changed"}] /\ link' \in [Process -> {"initial", "connected", "down"}]
      /\ reads' \in [Process -> {"none", "connected", "down"}] /\ reads'[p] = "none"
      /\ answers' \in [Process -> 0..2] /\ answers'[p] = 0 /\ link'[p] # "down"
      /\ \A q \in Process : q # p => /\ watch'[q] = watch[q] /\ link'[q] = link[q]
                                     /\ reads'[q] = reads[q] /\ answers'[q] = answers[q]
  BY <1>1, <1>2 DEF RedisTyped
<1>7. RedisFits(Idle, <<>>, watch'[p], link'[p], broken[p], items)
  BY <1>4, <1>6 DEF RedisFits, WireFits, ReadsWatched, WritesWatched
<1>8. Counted("none", 0, <<>>)
  BY <1>4 DEF Counted
<1>9. RedisThen(p) /\ Alone(p)
  BY <1>1, <1>3, <1>5, <1>6, <1>7, <1>8 DEF RedisThen, Alone, HasEnded
<1>10. DatabaseTyped' /\ RedisTyped'
  BY <1>1, <1>2, <1>3, <1>5, <1>6 DEF DatabaseTyped, RedisTyped, HasEnded
<1> QED
  BY <1>9, <1>10, RedisStepKeeps DEF Before, Kept

(* The client gives up a command, which only happens to broken writes.     *)
LEMMA GiveUpKeeps ==
  ASSUME Before, NEW p \in Process, Redis!GiveUp(p)
  PROVE  Kept
<1>1. /\ link[p] = "down"
      /\ UNCHANGED <<items, inited, others, link, watch, reads, broken>>
  BY DEF Redis!GiveUp
<1>2. RedisTyped /\ DatabaseTyped /\ RedisAt(p) /\ wire[p] \in Seq(Commands)
      /\ answers[p] \in 0..2 /\ <<>> \in Seq(Commands) /\ \A n \in 1..Len(<<>>) : <<>>[n].cmd # "hgetall"
  BY AtFirstHere, EmptySeq
<1>3. write[p].op = "upsert" => broken[p]
  BY <1>1, <1>2 DEF RedisAt, RedisFits, Idle
<1>4. CASE /\ Redis!NextCommand(p, "watch") /\ Redis!Answered(p, <<>>) /\ UNCHANGED <<write, told, spoiled, answers>>
  <2>1. wire[p] # <<>> /\ wire[p][1].cmd = "watch" /\ broken[p] /\ 1 <= Len(wire[p])
    BY <1>3, <1>4, HeadHere DEF CommandFits
  <2>2. HasSent(p, 1, <<>>)
    BY <1>2, <1>4, <2>1, AnsweredSent
  <2>3. Follows(wire'[p], wire[p], 1, <<>>) /\ 1 \in 0..1
    BY <2>2 DEF HasSent
  <2>4. RedisFits(write[p], wire'[p], watch[p], link[p], broken[p], items)
    <3>1. RedisFits(write[p], wire[p], watch[p], link[p], broken[p], items)
      BY <1>2 DEF RedisAt
    <3> QED
      BY <1>2, <2>1, <2>3, <3>1, HeadGone
  <2>5. Counted(reads[p], answers[p], wire'[p])
    <3>1. Counted(reads[p], answers[p], wire[p])
      BY <1>2 DEF RedisAt
    <3> QED
      BY <1>2, <2>1, <2>3, <3>1, CountedStill
  <2>6. RedisThen(p) /\ Alone(p)
    BY <1>1, <1>4, <2>2, <2>4, <2>5 DEF RedisThen, Alone, HasSent
  <2>7. DatabaseTyped' /\ RedisTyped'
    BY <1>1, <1>2, <1>4, <2>2 DEF DatabaseTyped, RedisTyped, HasSent
  <2> QED
    BY <2>6, <2>7, RedisStepKeeps DEF Before, Kept
<1>5. CASE /\ Redis!NextCommand(p, "hget") /\ Redis!Compare(p, Absent) /\ UNCHANGED <<spoiled, answers>>
  <2>1. broken[p]
    BY <1>3, <1>5, HeadHere DEF CommandFits
  <2> QED
    BY <1>1, <1>5, <2>1, WritesTyped, CompareKeeps
<1>6. ASSUME NEW cmd \in {"exec", "exec_init"}, NEW what \in {Failed, Silent},
             Redis!NextCommand(p, cmd), Answer(p, what), Redis!Answered(p, <<>>),
             spoiled' \in [Process -> SUBSET Keys], UNCHANGED answers
      PROVE  Kept
  <2>1. wire[p] # <<>> /\ cmd \in Last
    BY <1>6, HeadHere DEF Last
  <2>2. HasEnded(p, what) /\ HasSent(p, 1, <<>>)
    BY <1>2, <1>6, <2>1, WritesTyped, AnswerEnded, AnsweredSent
  <2>3. RedisThen(p)
    <3>1. write'[p] = Idle /\ reads'[p] = reads[p] /\ answers'[p] = answers[p]
      BY <1>1, <1>6, <2>2 DEF HasEnded
    <3> QED
      BY <1>6, <2>1, <2>2, <3>1, WriteEnds
  <2>4. Alone(p)
    BY <1>1, <1>6, <2>2 DEF Alone, HasEnded, HasSent
  <2>5. DatabaseTyped' /\ RedisTyped'
    BY <1>1, <1>2, <1>6, <2>2 DEF DatabaseTyped, RedisTyped, HasEnded, HasSent
  <2> QED
    BY <2>3, <2>4, <2>5, RedisStepKeeps DEF Before, Kept
<1>7. CASE /\ Redis!NextCommand(p, "exec") /\ Redis!Answer(p, Redis!Failed) /\ Redis!Answered(p, <<>>)
           /\ UNCHANGED <<spoiled, answers>>
  <2>1. Answer(p, Failed)
    BY <1>7, SameAnswer DEF Failed, Redis!Failed
  <2>2. spoiled' \in [Process -> SUBSET Keys]
    BY <1>2, <1>7 DEF DatabaseTyped
  <2> QED
    BY <1>6, <1>7, <2>1, <2>2
<1>8. CASE /\ Redis!NextCommand(p, "exec_init") /\ Redis!Answer(p, Redis!Silent) /\ Redis!Spoil(p, Keys)
           /\ Redis!Answered(p, <<>>) /\ UNCHANGED answers
  <2>1. Answer(p, Silent)
    BY <1>8, SameAnswer DEF Silent, Redis!Silent
  <2>2. spoiled' \in [Process -> SUBSET Keys]
    BY <1>2, <1>8 DEF DatabaseTyped, Redis!Spoil
  <2> QED
    BY <1>6, <1>8, <2>1, <2>2
<1>9. CASE /\ Redis!NextCommand(p, "hgetall") /\ answers' = [answers EXCEPT ![p] = @ + 1]
           /\ Redis!Answered(p, <<>>) /\ UNCHANGED <<write, told, spoiled>>
  BY <1>1, <1>9, GetAllEnds
<1> QED
  BY <1>4, <1>5, <1>7, <1>8, <1>9 DEF Redis!GiveUp, Absent, Redis!Absent

-----------------------------------------------------------------------------
(* Requests to DynamoDB.                                                   *)

(* Every request is of one kind.                                           *)
LEMMA RequestKinds ==
  /\ Dynamo!Query.req = "query" /\ Dynamo!Token.req = "token"
  /\ \A k \in Keys : Dynamo!Get(k).req = "get" /\ Dynamo!Get(k).key = k
  /\ \A k \in Keys : Dynamo!DeleteRequest(k).req = "delete_request" /\ Dynamo!DeleteRequest(k).key = k
  /\ \A k, v : Dynamo!Put(k, v).req = "put" /\ Dynamo!Put(k, v).key = k /\ Dynamo!Put(k, v).version = v
  /\ \A k, v : /\ Dynamo!PutRequest(k, v).req = "put_request" /\ Dynamo!PutRequest(k, v).key = k
               /\ Dynamo!PutRequest(k, v).version = v
BY DEF Dynamo!Query, Dynamo!Token, Dynamo!Get, Dynamo!DeleteRequest, Dynamo!Put, Dynamo!PutRequest

(* What is asked of DynamoDB are requests.                                 *)
LEMMA RequestsTyped ==
  /\ Dynamo!Query \in Requests /\ Dynamo!Token \in Requests
  /\ \A k \in Keys : Dynamo!Get(k) \in Requests /\ Dynamo!DeleteRequest(k) \in Requests
  /\ \A k \in Keys, v \in 1..MaxVersion : Dynamo!Put(k, v) \in Requests /\ Dynamo!PutRequest(k, v) \in Requests
<1>1. Dynamo!Query \in Requests /\ Dynamo!Token \in Requests
  BY DEF Dynamo!Query, Dynamo!Token, Requests
<1>2. \A k \in Keys : Dynamo!Get(k) \in Requests /\ Dynamo!DeleteRequest(k) \in Requests
  BY DEF Dynamo!Get, Dynamo!DeleteRequest, Requests
<1>3. \A k \in Keys, v \in 1..MaxVersion : Dynamo!Put(k, v) \in Requests /\ Dynamo!PutRequest(k, v) \in Requests
  BY DEF Dynamo!Put, Dynamo!PutRequest, Requests
<1> QED
  BY <1>1, <1>2, <1>3

(* What init writes: the new items, and that old ones are gone.            *)
IsOperation(data, found, r) ==
  \/ \E k \in ToPut(data) : r = Dynamo!PutRequest(k, data[k])
  \/ \E k \in found : k \notin ToPut(data) /\ r = Dynamo!DeleteRequest(k)
  \/ r = Dynamo!Token

(* The set of operations, member by member.                                *)
LEMMA OperationsAre ==
  ASSUME NEW data, NEW found, NEW r
  PROVE  r \in Dynamo!Operations(data, found) <=> IsOperation(data, found, r)
BY DEF IsOperation, Dynamo!Operations, ToPut, Absent, Dynamo!Absent

(* The operations of init are requests of batches.                         *)
LEMMA OperationsTyped ==
  ASSUME NEW data \in DataSets, NEW found \in SUBSET Keys
  PROVE  /\ Dynamo!Operations(data, found) \subseteq Requests
         /\ Dynamo!Operations(data, found) \subseteq Dynamo!Operations(data, Keys)
         /\ \A r \in Dynamo!Operations(data, found) : r.req \in Dynamo!BatchRequests
<1>1. \A k \in ToPut(data) : k \in Keys /\ data[k] \in 1..MaxVersion
  BY DatabaseAssumption, WritesTyped DEF ToPut
<1>2. ASSUME NEW r \in Dynamo!Operations(data, found)
      PROVE  r \in Requests /\ r \in Dynamo!Operations(data, Keys) /\ r.req \in Dynamo!BatchRequests
  <2>1. CASE \E k \in ToPut(data) : r = Dynamo!PutRequest(k, data[k])
    BY <1>1, <2>1, RequestsTyped, RequestKinds, OperationsAre DEF IsOperation, Dynamo!BatchRequests
  <2>2. CASE \E k \in found : k \notin ToPut(data) /\ r = Dynamo!DeleteRequest(k)
    BY <2>2, RequestsTyped, RequestKinds, OperationsAre DEF IsOperation, Dynamo!BatchRequests
  <2>3. CASE r = Dynamo!Token
    BY <2>3, RequestsTyped, RequestKinds, OperationsAre DEF IsOperation, Dynamo!BatchRequests
  <2> QED
    BY <2>1, <2>2, <2>3, OperationsAre DEF IsOperation
<1> QED
  BY <1>2

(* What is not put is meant to be absent.                                  *)
LEMMA MeantIs ==
  ASSUME NEW data \in DataSets, NEW k \in Keys
  PROVE  /\ k \in ToPut(data) => Meant(data, k) = data[k]
         /\ k \notin ToPut(data) => Meant(data, k) = Absent
BY DEF ToPut, Meant

(* One operation of a batch is done.                                       *)
LEMMA RequestServed ==
  ASSUME NEW w, w.op = "init", w.data \in DataSets,
         NEW rs, rs \subseteq Dynamo!Operations(w.data, Keys), NEW r \in rs,
         NEW ot, NEW sp, NEW its \in [Keys -> Versions], NEW ini \in BOOLEAN, BatchesGo(w, rs, ot, sp, its, ini),
         NEW new \in [Keys -> Versions], NEW then \in BOOLEAN,
         r.req = "put_request" => new = [its EXCEPT ![r.key] = r.version] /\ then = ini,
         r.req = "delete_request" => new = [its EXCEPT ![r.key] = Absent] /\ then = ini,
         r.req = "token" => new = its /\ then
  PROVE  BatchesGo(w, rs \ {r}, ot, sp, new, then)
<1>1. \A x \in rs : x.req \in {"put_request", "delete_request", "token"}
  BY OperationsTyped DEF Dynamo!BatchRequests
<1>2. Dynamo!Query \notin rs
  BY <1>1, RequestKinds
<1>3. /\ \A k \in Keys : k \notin ot /\ k \notin sp => its[k] = Meant(w.data, k) \/ Pending(w.data, k, rs)
      /\ ini \/ Dynamo!Token \in rs \/ sp = Keys
  BY <1>2 DEF BatchesGo
<1>4. then \/ Dynamo!Token \in rs \ {r} \/ sp = Keys
  BY <1>1, <1>3, RequestKinds
<1>5. ASSUME NEW k \in Keys, k \notin ot, k \notin sp
      PROVE  new[k] = Meant(w.data, k) \/ Pending(w.data, k, rs \ {r})
  <2>1. CASE r = Dynamo!Token
    <3>1. new = its /\ \A x \in rs : x.req # "token" => x \in rs \ {r}
      BY <2>1, RequestKinds
    <3>2. Pending(w.data, k, rs) => Pending(w.data, k, rs \ {r})
      BY <3>1, RequestKinds DEF Pending
    <3> QED
      BY <1>3, <1>5, <3>1, <3>2
  <2>2. ASSUME NEW j \in ToPut(w.data), r = Dynamo!PutRequest(j, w.data[j])
        PROVE  new[k] = Meant(w.data, k) \/ Pending(w.data, k, rs \ {r})
    <3>1. r.req = "put_request" /\ r.key = j /\ r.version = w.data[j] /\ j \in Keys
      BY <2>2, RequestKinds DEF ToPut
    <3>2. new = [its EXCEPT ![j] = w.data[j]]
      BY <3>1
    <3>3. CASE k = j
      BY <2>2, <3>2, <3>3, MeantIs
    <3>4. CASE k # j
      <4>1. new[k] = its[k] /\ \A x \in rs : x.key # j => x \in rs \ {r}
        BY <3>1, <3>2, <3>4
      <4>2. Pending(w.data, k, rs) => Pending(w.data, k, rs \ {r})
        BY <3>4, <4>1, RequestKinds DEF Pending
      <4> QED
        BY <1>3, <1>5, <4>1, <4>2
    <3> QED
      BY <3>3, <3>4
  <2>3. ASSUME NEW j \in Keys, j \notin ToPut(w.data), r = Dynamo!DeleteRequest(j)
        PROVE  new[k] = Meant(w.data, k) \/ Pending(w.data, k, rs \ {r})
    <3>1. r.req = "delete_request" /\ r.key = j
      BY <2>3, RequestKinds
    <3>2. new = [its EXCEPT ![j] = Absent]
      BY <3>1
    <3>3. CASE k = j
      BY <2>3, <3>2, <3>3, MeantIs
    <3>4. CASE k # j
      <4>1. new[k] = its[k] /\ \A x \in rs : x.key # j => x \in rs \ {r}
        BY <3>1, <3>2, <3>4
      <4>2. Pending(w.data, k, rs) => Pending(w.data, k, rs \ {r})
        BY <3>4, <4>1, RequestKinds DEF Pending
      <4> QED
        BY <1>3, <1>5, <4>1, <4>2
    <3> QED
      BY <3>3, <3>4
  <2>4. r \in Dynamo!Operations(w.data, Keys)
    OBVIOUS
  <2>5. \/ \E j \in ToPut(w.data) : r = Dynamo!PutRequest(j, w.data[j])
        \/ \E j \in Keys : j \notin ToPut(w.data) /\ r = Dynamo!DeleteRequest(j)
        \/ r = Dynamo!Token
    <3>1. IsOperation(w.data, Keys, r)
      BY <2>4, OperationsAre, Zenon
    <3> QED
      BY <3>1, Zenon DEF IsOperation
  <2> QED
    BY <2>1, <2>2, <2>3, <2>5, Zenon
<1> QED
  BY <1>4, <1>5 DEF BatchesGo

(* One of them is not, and it is known what it was for.                    *)
LEMMA RequestLost ==
  ASSUME NEW w, w.op = "init", w.data \in DataSets,
         NEW rs, rs \subseteq Dynamo!Operations(w.data, Keys), NEW r \in rs,
         NEW ot, NEW sp \in SUBSET Keys, NEW its, NEW ini, BatchesGo(w, rs, ot, sp, its, ini),
         NEW then, then = sp \cup (IF r = Dynamo!Token THEN Keys ELSE {r.key})
  PROVE  BatchesGo(w, rs \ {r}, ot, then, its, ini)
<1>1. \A x \in rs : x.req \in {"put_request", "delete_request", "token"}
  BY OperationsTyped DEF Dynamo!BatchRequests
<1>2. Dynamo!Query \notin rs
  BY <1>1, RequestKinds
<1>3. /\ \A k \in Keys : k \notin ot /\ k \notin sp => its[k] = Meant(w.data, k) \/ Pending(w.data, k, rs)
      /\ ini \/ Dynamo!Token \in rs \/ sp = Keys
  BY <1>2 DEF BatchesGo
<1>4. CASE r = Dynamo!Token
  <2>1. then = Keys
    BY <1>4
  <2> QED
    BY <2>1 DEF BatchesGo
<1>5. CASE r # Dynamo!Token
  <2>1. then = sp \cup {r.key} /\ r.key \in Keys
    <3>1. r \in Dynamo!Operations(w.data, Keys) /\ ToPut(w.data) \subseteq Keys
      BY DEF ToPut
    <3>2. r.key \in Keys
      BY <1>5, <3>1, OperationsAre, RequestKinds DEF IsOperation
    <3> QED
      BY <1>5, <3>2
  <2>2. ini \/ Dynamo!Token \in rs \ {r} \/ then = Keys
    BY <1>3, <1>5, <2>1
  <2>3. ASSUME NEW k \in Keys, k \notin ot, k \notin then
        PROVE  its[k] = Meant(w.data, k) \/ Pending(w.data, k, rs \ {r})
    <3>1. k # r.key /\ k \notin sp
      BY <2>1, <2>3
    <3>2. Pending(w.data, k, rs) => Pending(w.data, k, rs \ {r})
      BY <3>1, RequestKinds DEF Pending
    <3> QED
      BY <1>3, <2>3, <3>1, <3>2
  <2> QED
    BY <2>2, <2>3 DEF BatchesGo
<1> QED
  BY <1>4, <1>5

(* What another process does with DynamoDB, to one that waits.             *)
LEMMA OthersStore ==
  ASSUME NEW w, w.op = "upsert" => w.key \in Keys, NEW rs, NEW un, NEW ex, NEW ot, NEW sp, NEW its, NEW ini,
         DynamoFits(w, rs, un, ex, ot, sp, its, ini),
         NEW other, ot \subseteq other, NEW new, NEW then, ini => then,
         w = Idle \/ \A k \in Keys : k \in other \/ new[k] = its[k]
  PROVE  DynamoFits(w, rs, un, ex, other, sp, new, then)
<1>1. CASE w = Idle
  BY <1>1 DEF DynamoFits, RequestsFit, PutDone, PagesRead, BatchesGo, Idle
<1>2. CASE \A k \in Keys : k \in other \/ new[k] = its[k]
  <2>1. RequestsFit(w, rs) /\ PutDone(w, rs, ot, its) /\ PagesRead(w, rs, un, ex, ot, its)
        /\ BatchesGo(w, rs, ot, sp, its, ini)
    BY DEF DynamoFits
  <2>2. PutDone(w, rs, other, new)
    BY <1>2, <2>1 DEF PutDone
  <2>3. PagesRead(w, rs, un, ex, other, new)
    BY <1>2, <2>1 DEF PagesRead
  <2>4. BatchesGo(w, rs, other, sp, new, then)
    BY <1>2, <2>1 DEF BatchesGo
  <2> QED
    BY <2>1, <2>2, <2>3, <2>4 DEF DynamoFits
<1> QED
  BY <1>1, <1>2

-----------------------------------------------------------------------------
(* Steps with DynamoDB.                                                    *)

DynamoBefore == DatabaseTyped /\ DynamoTyped /\ DynamoOK /\ backend = "dynamodb"
DynamoKept == DatabaseTyped' /\ DynamoTyped' /\ DynamoOK'

DynamoAt(p) ==
  DynamoFits(write[p], requests[p], unread[p], existing[p], others[p], spoiled[p], items, inited)

DynamoThen(p) ==
  DynamoFits(write'[p], requests'[p], unread'[p], existing'[p], others'[p], spoiled'[p], items', inited')

(* A step of p: what it stores, the others know of.                        *)
DynamoAlone(p) ==
  /\ \A q \in Process : q # p =>
       /\ write'[q] = write[q] /\ requests'[q] = requests[q] /\ unread'[q] = unread[q]
       /\ existing'[q] = existing[q] /\ spoiled'[q] = spoiled[q] /\ others[q] \subseteq others'[q]
       /\ write[q] = Idle \/ \A k \in Keys : k \in others'[q] \/ items'[k] = items[k]
  /\ inited => inited'

(* A step that keeps what is said of p keeps what is said of the others.   *)
LEMMA DynamoStepKeeps ==
  ASSUME DynamoBefore, NEW p \in Process, DynamoThen(p), DynamoAlone(p)
  PROVE  DynamoOK'
<1>1. ASSUME NEW q \in Process PROVE DynamoThen(q)
  <2>1. CASE q = p
    BY <2>1
  <2>2. CASE q # p
    <3>1. DynamoAt(q) /\ (write[q].op = "upsert" => write[q].key \in Keys)
      BY WriteIs DEF DynamoBefore, DynamoOK, DynamoAt
    <3>2. /\ write'[q] = write[q] /\ requests'[q] = requests[q] /\ unread'[q] = unread[q]
          /\ existing'[q] = existing[q] /\ spoiled'[q] = spoiled[q] /\ others[q] \subseteq others'[q]
          /\ write[q] = Idle \/ \A k \in Keys : k \in others'[q] \/ items'[k] = items[k]
          /\ inited => inited'
      BY <2>2 DEF DynamoAlone
    <3>3. DynamoFits(write[q], requests[q], unread[q], existing[q], others[q], spoiled[q], items, inited)
      BY <3>1 DEF DynamoAt
    <3>4. DynamoFits(write[q], requests[q], unread[q], existing[q], others'[q], spoiled[q], items', inited')
      BY <3>1, <3>2, <3>3, OthersStore
    <3> QED
      BY <3>2, <3>4 DEF DynamoThen
  <2> QED
    BY <2>1, <2>2
<1> QED
  BY <1>1 DEF DynamoOK, DynamoThen

(* A write is carried out.                                                 *)
HasStored(p, new) ==
  /\ items' = new /\ items' \in [Keys -> Versions] /\ others' \in [Process -> SUBSET Keys] /\ others'[p] = others[p]
  /\ \A q \in Process : q # p =>
       /\ others[q] \subseteq others'[q]
       /\ write[q] = Idle \/ \A k \in Keys : k \in others'[q] \/ new[k] = items[k]

(* What one process stores, the others that wait have seen written.        *)
LEMMA StoreStored ==
  ASSUME DatabaseTyped, NEW p \in Process, NEW new \in [Keys -> Versions], Dynamo!Store(p, new)
  PROVE  HasStored(p, new)
<1>1. items' = new
      /\ others' = [q \in Process |-> IF q = p \/ write[q] = Idle THEN others[q]
                                      ELSE others[q] \cup {k \in Keys : new[k] # items[k]}]
  BY DEF Dynamo!Store, Idle, Dynamo!Idle
<1>2. others' \in [Process -> SUBSET Keys]
  BY <1>1 DEF DatabaseTyped
<1> QED
  BY <1>1, <1>2 DEF HasStored

(* A step may store nothing.                                               *)
LEMMA NothingStored ==
  ASSUME DatabaseTyped, NEW p \in Process, UNCHANGED <<items, others>>
  PROVE  HasStored(p, items)
BY DEF HasStored, DatabaseTyped

(* What is known of p before a step.                                       *)
LEMMA DynamoHere ==
  ASSUME DynamoBefore, NEW p \in Process
  PROVE  /\ DatabaseTyped /\ DynamoTyped /\ DynamoAt(p)
         /\ RequestsFit(write[p], requests[p]) /\ requests[p] \in SUBSET Requests
         /\ existing[p] \in SUBSET Keys /\ unread[p] \in SUBSET Keys
BY DEF DynamoBefore, DynamoOK, DynamoAt, DynamoFits, DynamoTyped

(* A process that waits for nothing.                                       *)
LEMMA NothingAsked ==
  ASSUME NEW w \in {Idle, Stuck}, NEW rs, NEW un, NEW ex, NEW ot, NEW sp, NEW its, NEW ini,
         IF w = Idle THEN rs = {} ELSE \A r \in rs : r.req \in Dynamo!BatchRequests
  PROVE  DynamoFits(w, rs, un, ex, ot, sp, its, ini)
BY DEF DynamoFits, RequestsFit, PutDone, PagesRead, BatchesGo, Idle, Stuck

(* Upsert asks for its put, or for nothing at all if the item is too       *)
(* large.                                                                  *)
LEMMA DynamoUpsertKeeps ==
  ASSUME DynamoBefore, NEW p \in Process, NEW k \in Keys, NEW v \in 1..MaxVersion, Dynamo!DynamoUpsert(p, k, v)
  PROVE  DynamoKept
<1> DEFINE w == [op |-> "upsert", key |-> k, version |-> v]
<1>1. w \in Writes /\ w.op = "upsert" /\ w.key = k /\ w.version = v
  BY WritesTyped
<1>2. UNCHANGED <<unread, existing>> /\ DatabaseTyped /\ DynamoTyped /\ DynamoAt(p)
  BY DynamoHere DEF Dynamo!DynamoUpsert
<1>3. CASE Dynamo!Fits(k, v)
  <2>1. Begin(p, w) /\ requests' = [requests EXCEPT ![p] = {Dynamo!Put(k, v)}]
    BY <1>3, SameBegin DEF Dynamo!DynamoUpsert
  <2> HIDE DEF w
  <2>2. HasBegun(p, w)
    BY <1>1, <1>2, <2>1, BeginBegun
  <2>3. requests' \in [Process -> SUBSET Requests] /\ requests'[p] = {Dynamo!Put(k, v)}
        /\ \A q \in Process : q # p => requests'[q] = requests[q]
    BY <1>2, <2>1, RequestsTyped DEF DynamoTyped
  <2>4. \A x \in requests'[p] : x.req = "put"
    BY <2>3, RequestKinds
  <2>5. DynamoThen(p)
    <3>1. RequestsFit(w, requests'[p])
      BY <1>1, <2>3 DEF RequestsFit
    <3>2. Dynamo!Get(k) \notin requests'[p] /\ Dynamo!Query \notin requests'[p]
      BY <2>4, RequestKinds
    <3>3. write'[p] = w
      BY <2>2 DEF HasBegun
    <3> QED
      BY <1>1, <3>1, <3>2, <3>3 DEF DynamoThen, DynamoFits, PutDone, PagesRead, BatchesGo
  <2>6. DynamoAlone(p)
    BY <1>2, <2>2, <2>3 DEF DynamoAlone, HasBegun
  <2>7. DatabaseTyped' /\ DynamoTyped'
    BY <1>2, <2>2, <2>3 DEF DynamoTyped, HasBegun
  <2> QED
    BY <2>5, <2>6, <2>7, DynamoStepKeeps DEF DynamoKept
<1>4. CASE ~Dynamo!Fits(k, v)
  <2>1. told' = [told EXCEPT ![p] = Silent] /\ UNCHANGED <<items, inited, write, others, spoiled, requests>>
    BY <1>4 DEF Dynamo!DynamoUpsert, Silent, Dynamo!Silent
  <2>2. told' \in [Process -> Silent..MaxVersion]
    BY <1>2, <2>1, WritesTyped DEF DatabaseTyped
  <2>3. DatabaseTyped' /\ DynamoTyped'
    BY <1>2, <2>1, <2>2 DEF DatabaseTyped, DynamoTyped
  <2>4. DynamoThen(p) /\ DynamoAlone(p)
    BY <1>2, <2>1 DEF DynamoThen, DynamoAt, DynamoAlone
  <2> QED
    BY <2>3, <2>4, DynamoStepKeeps DEF DynamoKept
<1> QED
  BY <1>3, <1>4

(* Init begins to read what there is.                                      *)
LEMMA DynamoInitKeeps ==
  ASSUME DynamoBefore, NEW p \in Process, NEW data \in DataSets, Dynamo!DynamoInit(p, data)
  PROVE  DynamoKept
<1> DEFINE w == [op |-> "init", data |-> data]
<1>1. w \in Writes /\ w.op = "init"
  BY WritesTyped
<1>2. /\ Begin(p, w) /\ requests' = [requests EXCEPT ![p] = {Dynamo!Query}]
      /\ unread' = [unread EXCEPT ![p] = Keys] /\ existing' = [existing EXCEPT ![p] = {}]
  BY SameBegin DEF Dynamo!DynamoInit
<1> HIDE DEF w
<1>3. DatabaseTyped /\ DynamoTyped
  BY DynamoHere
<1>4. HasBegun(p, w)
  BY <1>1, <1>2, <1>3, BeginBegun
<1>5. requests' \in [Process -> SUBSET Requests] /\ requests'[p] = {Dynamo!Query}
      /\ unread' \in [Process -> SUBSET Keys] /\ unread'[p] = Keys /\ existing' \in [Process -> SUBSET Keys] /\ existing'[p] = {}
      /\ \A q \in Process : q # p =>
           requests'[q] = requests[q] /\ unread'[q] = unread[q] /\ existing'[q] = existing[q]
  BY <1>2, <1>3, RequestsTyped DEF DynamoTyped
<1>6. DynamoThen(p)
  <2>1. RequestsFit(w, requests'[p])
    BY <1>1, <1>5 DEF RequestsFit
  <2>2. write'[p] = w
    BY <1>4 DEF HasBegun
  <2> QED
    BY <1>1, <1>5, <2>1, <2>2 DEF DynamoThen, DynamoFits, PutDone, PagesRead, BatchesGo
<1>7. DynamoAlone(p)
  BY <1>4, <1>5 DEF DynamoAlone, HasBegun
<1>8. DatabaseTyped' /\ DynamoTyped'
  BY <1>4, <1>5 DEF DynamoTyped, HasBegun
<1> QED
  BY <1>6, <1>7, <1>8, DynamoStepKeeps DEF DynamoKept

(* The requests of p, and those of no other process, have changed.         *)
HasAsked(p, rs) ==
  /\ requests' \in [Process -> SUBSET Requests] /\ requests'[p] = rs
  /\ \A q \in Process : q # p => requests'[q] = requests[q]

(* A process changes its own requests.                                     *)
LEMMA RequestsAsked ==
  ASSUME DynamoTyped, NEW p \in Process, NEW rs \in SUBSET Requests, requests' = [requests EXCEPT ![p] = rs]
  PROVE  HasAsked(p, rs)
<1> HIDE DEF Requests
<1> QED
  BY DEF DynamoTyped, HasAsked

(* A put or a get is that of an upsert.                                    *)
LEMMA UpsertAsks ==
  ASSUME DynamoBefore, NEW p \in Process, NEW r \in requests[p], r.req \in {"put", "get"}
  PROVE  /\ write[p].op = "upsert" /\ write[p].key \in Keys /\ write[p].version \in 1..MaxVersion
         /\ r.key = write[p].key /\ write[p] # Idle
         /\ r.req = "put" => r.version = write[p].version
         /\ r.req = "get" => r = Dynamo!Get(write[p].key) /\ requests[p] = {r}
<1>1. RequestsFit(write[p], requests[p]) /\ DatabaseTyped
  BY DynamoHere
<1>2. write[p].op \in {"none", "stuck", "upsert", "init"}
  BY <1>1 DEF DatabaseTyped, Idle, Stuck, Writes
<1>3. write[p].op # "none" /\ write[p].op # "stuck"
  BY <1>1 DEF RequestsFit, Dynamo!BatchRequests
<1>4. write[p].op # "init"
  <2>1. SUFFICES ASSUME write[p].op = "init" PROVE FALSE
    OBVIOUS
  <2>2. write[p].data \in DataSets
    BY <1>1, <2>1, WriteIs
  <2>3. r = Dynamo!Query \/ r \in Dynamo!Operations(write[p].data, Keys)
    BY <1>1, <2>1 DEF RequestsFit
  <2>4. r.req \in {"query", "put_request", "delete_request", "token"}
    BY <2>2, <2>3, OperationsTyped, RequestKinds DEF Dynamo!BatchRequests
  <2> QED
    BY <2>4
<1>5. write[p].op = "upsert" /\ write[p].key \in Keys /\ write[p].version \in 1..MaxVersion /\ write[p] # Idle
  BY <1>1, <1>2, <1>3, <1>4, WriteIs
<1>6. requests[p] = {Dynamo!Put(write[p].key, write[p].version)} \/ requests[p] = {Dynamo!Get(write[p].key)}
  BY <1>1, <1>5 DEF RequestsFit
<1> QED
  BY <1>5, <1>6, RequestKinds

(* After a put, carried out or refused, the item is as new.                *)
LEMMA ServePutKeeps ==
  ASSUME DynamoBefore, NEW p \in Process, Dynamo!ServePut(p)
  PROVE  DynamoKept
<1>1. PICK r \in requests[p] :
        /\ r.req = "put" /\ Dynamo!PutIfNewer(p, r)
        /\ requests' = [requests EXCEPT ![p] = {Dynamo!Get(r.key)}]
        /\ UNCHANGED <<inited, write, told, spoiled, unread, existing>>
  BY DEF Dynamo!ServePut
<1>2. DatabaseTyped /\ DynamoTyped /\ write[p].op = "upsert" /\ write[p].key \in Keys
      /\ write[p].version \in 1..MaxVersion /\ r.key = write[p].key /\ r.version = write[p].version
  BY <1>1, DynamoHere, UpsertAsks
<1>3. PICK new \in [Keys -> Versions] : HasStored(p, new) /\ new[write[p].key] >= write[p].version
  <2>1. items \in [Keys -> Versions] /\ items[write[p].key] \in Int /\ write[p].version \in Int
        /\ write[p].version \in Versions
    BY <1>2, WritesTyped DEF DatabaseTyped
  <2>2. CASE items[r.key] < r.version
    <3> DEFINE new == [items EXCEPT ![r.key] = r.version]
    <3>1. new \in [Keys -> Versions] /\ new[write[p].key] = write[p].version
      BY <1>2, <2>1
    <3>2. Dynamo!Store(p, new)
      BY <1>1, <2>2 DEF Dynamo!PutIfNewer
    <3> HIDE DEF new
    <3>3. HasStored(p, new)
      BY <1>2, <3>1, <3>2, StoreStored
    <3> QED
      BY <2>1, <3>1, <3>3
  <2>3. CASE ~(items[r.key] < r.version)
    <3>1. UNCHANGED <<items, others>>
      BY <1>1, <2>3 DEF Dynamo!PutIfNewer
    <3>2. HasStored(p, items)
      BY <1>2, <3>1, NothingStored
    <3>3. items[write[p].key] >= write[p].version
      BY <1>2, <2>1, <2>3
    <3> QED
      BY <2>1, <3>2, <3>3
  <2> QED
    BY <2>2, <2>3
<1>4. HasAsked(p, {Dynamo!Get(write[p].key)})
  BY <1>1, <1>2, RequestsTyped, RequestsAsked
<1>5. DynamoThen(p)
  <2>1. items'[write[p].key] >= write[p].version
    BY <1>3 DEF HasStored
  <2>2. RequestsFit(write[p], requests'[p])
    BY <1>2, <1>4 DEF RequestsFit, HasAsked
  <2>3. write'[p] = write[p]
    BY <1>1
  <2> QED
    BY <1>2, <2>1, <2>2, <2>3 DEF DynamoThen, DynamoFits, PutDone, PagesRead, BatchesGo
<1>6. DynamoAlone(p)
  BY <1>1, <1>3, <1>4 DEF DynamoAlone, HasStored, HasAsked
<1>7. DatabaseTyped' /\ DynamoTyped'
  BY <1>1, <1>2, <1>3, <1>4 DEF DatabaseTyped, DynamoTyped, HasStored, HasAsked
<1> QED
  BY <1>5, <1>6, <1>7, DynamoStepKeeps DEF DynamoKept

(* A write of p ends, and nothing of it is under way.                      *)
LEMMA EndKeeps ==
  ASSUME DynamoBefore, NEW p \in Process, NEW what \in Silent..MaxVersion, Answer(p, what),
         requests' = [requests EXCEPT ![p] = {}],
         unread' \in [Process -> SUBSET Keys], existing' \in [Process -> SUBSET Keys],
         \A q \in Process : q # p => unread'[q] = unread[q] /\ existing'[q] = existing[q],
         UNCHANGED <<items, inited, others, spoiled>>
  PROVE  DynamoKept
<1>1. DatabaseTyped /\ DynamoTyped
  BY DynamoHere
<1>2. HasEnded(p, what)
  BY <1>1, AnswerEnded
<1>3. HasAsked(p, {})
  <2>1. {} \in SUBSET Requests
    OBVIOUS
  <2> QED
    BY <1>1, <2>1, RequestsAsked
<1>4. DynamoThen(p)
  <2>1. write'[p] = Idle /\ requests'[p] = {}
    BY <1>2, <1>3 DEF HasEnded, HasAsked
  <2> QED
    BY <2>1, NothingAsked DEF DynamoThen
<1>5. DynamoAlone(p)
  BY <1>2, <1>3 DEF DynamoAlone, HasEnded, HasAsked
<1>6. DatabaseTyped' /\ DynamoTyped'
  BY <1>1, <1>2, <1>3 DEF DatabaseTyped, DynamoTyped, HasEnded, HasAsked
<1> QED
  BY <1>4, <1>5, <1>6, DynamoStepKeeps DEF DynamoKept

(* The get of an upsert is served.                                         *)
LEMMA ServeGetKeeps ==
  ASSUME DynamoBefore, NEW p \in Process, Dynamo!ServeGet(p)
  PROVE  DynamoKept
<1>1. PICK r \in requests[p] :
        /\ r.req = "get" /\ Answer(p, items[r.key])
        /\ requests' = [requests EXCEPT ![p] = {}]
        /\ UNCHANGED <<items, inited, others, spoiled, unread, existing>>
  BY SameAnswer DEF Dynamo!ServeGet
<1>2. r.key \in Keys /\ DatabaseTyped /\ DynamoTyped
  BY <1>1, DynamoHere, UpsertAsks
<1>3. items[r.key] \in Silent..MaxVersion
  BY <1>2, WritesTyped DEF DatabaseTyped
<1>4. unread' \in [Process -> SUBSET Keys] /\ existing' \in [Process -> SUBSET Keys]
      /\ \A q \in Process : q # p => unread'[q] = unread[q] /\ existing'[q] = existing[q]
  BY <1>1, <1>2 DEF DynamoTyped
<1> QED
  BY <1>1, <1>3, <1>4, EndKeeps

(* A process starts again.                                                 *)
LEMMA DynamoCrashKeeps ==
  ASSUME DynamoBefore, NEW p \in Process, Dynamo!DynamoCrash(p)
  PROVE  DynamoKept
<1>1. /\ Answer(p, Failed) /\ requests' = [requests EXCEPT ![p] = {}]
      /\ unread' = [unread EXCEPT ![p] = {}] /\ existing' = [existing EXCEPT ![p] = {}]
      /\ UNCHANGED <<items, inited, others, spoiled>>
  BY SameAnswer DEF Dynamo!DynamoCrash, Failed, Dynamo!Failed
<1>2. unread' \in [Process -> SUBSET Keys] /\ existing' \in [Process -> SUBSET Keys]
      /\ \A q \in Process : q # p => unread'[q] = unread[q] /\ existing'[q] = existing[q]
  BY <1>1, DynamoHere DEF DynamoTyped
<1> QED
  BY <1>1, <1>2, WritesTyped, EndKeeps

(* Who asks for pages waits for an init.                                   *)
LEMMA QueryAsks ==
  ASSUME DynamoBefore, NEW p \in Process, Dynamo!Query \in requests[p]
  PROVE  write[p].op = "init" /\ write[p].data \in DataSets /\ requests[p] = {Dynamo!Query}
<1>1. RequestsFit(write[p], requests[p]) /\ DatabaseTyped
  BY DynamoHere
<1>2. write[p].op \in {"none", "stuck", "upsert", "init"}
  BY <1>1 DEF DatabaseTyped, Idle, Stuck, Writes
<1>3. write[p].op # "none" /\ write[p].op # "stuck"
  BY <1>1, RequestKinds DEF RequestsFit, Dynamo!BatchRequests
<1>4. write[p].op # "upsert"
  <2>1. write[p].op = "upsert" => write[p].key \in Keys
    BY <1>1, WriteIs
  <2> QED
    BY <1>1, <2>1, RequestKinds DEF RequestsFit
<1>5. write[p].op = "init" /\ write[p].data \in DataSets
  BY <1>1, <1>2, <1>3, <1>4, WriteIs
<1>6. Dynamo!Query \notin Dynamo!Operations(write[p].data, Keys)
  BY <1>5, OperationsTyped, RequestKinds DEF Dynamo!BatchRequests
<1> QED
  BY <1>1, <1>5, <1>6 DEF RequestsFit

(* A page of the query is read.                                            *)
LEMMA ServePageKeeps ==
  ASSUME DynamoBefore, NEW p \in Process, Dynamo!ServePage(p)
  PROVE  DynamoKept
<1>1. PICK k \in unread[p] :
        /\ Dynamo!Query \in requests[p]
        /\ unread' = [unread EXCEPT ![p] = unread[p] \ {k}]
        /\ existing' = [existing EXCEPT ![p] = IF items[k] = Absent THEN existing[p] ELSE existing[p] \cup {k}]
        /\ UNCHANGED <<items, inited, write, told, others, spoiled, requests>>
  BY DEF Dynamo!ServePage, Dynamo!dbVars, Absent, Dynamo!Absent
<1>2. DatabaseTyped /\ DynamoTyped /\ DynamoAt(p) /\ unread[p] \in SUBSET Keys /\ existing[p] \in SUBSET Keys
      /\ write[p].op = "init" /\ k \in Keys
  BY <1>1, DynamoHere, QueryAsks
<1>3. /\ unread' \in [Process -> SUBSET Keys] /\ existing' \in [Process -> SUBSET Keys]
      /\ unread'[p] = unread[p] \ {k}
      /\ existing'[p] = IF items[k] = Absent THEN existing[p] ELSE existing[p] \cup {k}
      /\ \A q \in Process : q # p => unread'[q] = unread[q] /\ existing'[q] = existing[q]
  BY <1>1, <1>2 DEF DynamoTyped
<1>4. PagesRead(write[p], requests[p], unread'[p], existing'[p], others[p], items)
  <2>1. PagesRead(write[p], requests[p], unread[p], existing[p], others[p], items)
    BY <1>2 DEF DynamoAt, DynamoFits
  <2>2. k \notin existing[p] /\ \A j \in unread'[p] : j \notin existing'[p]
    BY <1>1, <1>2, <1>3, <2>1 DEF PagesRead
  <2>3. ASSUME NEW j \in Keys, j \notin unread'[p], j \notin others[p]
        PROVE  j \in existing'[p] <=> items[j] # Absent
    <3>1. CASE j = k
      BY <1>3, <2>2, <3>1
    <3>2. CASE j # k
      BY <1>1, <1>2, <1>3, <2>1, <2>3, <3>2 DEF PagesRead
    <3> QED
      BY <3>1, <3>2
  <2> QED
    BY <2>2, <2>3 DEF PagesRead
<1>5. DynamoThen(p)
  BY <1>1, <1>2, <1>4 DEF DynamoThen, DynamoAt, DynamoFits
<1>6. DynamoAlone(p)
  BY <1>1, <1>3 DEF DynamoAlone
<1>7. DatabaseTyped' /\ DynamoTyped'
  BY <1>1, <1>2, <1>3 DEF DatabaseTyped, DynamoTyped
<1> QED
  BY <1>5, <1>6, <1>7, DynamoStepKeeps DEF DynamoKept

(* With the last page, init knows what to write and what to delete.        *)
LEMMA WriteBatchesKeeps ==
  ASSUME DynamoBefore, NEW p \in Process, Dynamo!WriteBatches(p)
  PROVE  DynamoKept
<1> DEFINE rs == Dynamo!Operations(write[p].data, existing[p])
<1>1. /\ Dynamo!Query \in requests[p] /\ unread[p] = {}
      /\ requests' = [requests EXCEPT ![p] = rs] /\ existing' = [existing EXCEPT ![p] = {}]
      /\ UNCHANGED <<items, inited, write, told, others, spoiled, unread>>
  BY DEF Dynamo!WriteBatches, Dynamo!dbVars
<1>2. DatabaseTyped /\ DynamoTyped /\ DynamoAt(p) /\ existing[p] \in SUBSET Keys
      /\ write[p].op = "init" /\ write[p].data \in DataSets
  BY <1>1, DynamoHere, QueryAsks
<1>3. /\ rs \subseteq Requests /\ rs \subseteq Dynamo!Operations(write[p].data, Keys)
      /\ \A r \in rs : r.req \in Dynamo!BatchRequests
  BY <1>2, OperationsTyped
<1>4. \A r : r \in rs <=> IsOperation(write[p].data, existing[p], r)
  BY OperationsAre
<1> HIDE DEF rs
<1>5. HasAsked(p, rs)
  <2>1. rs \in SUBSET Requests
    BY <1>3
  <2> QED
    BY <1>1, <1>2, <2>1, RequestsAsked
<1>6. Dynamo!Query \notin rs /\ Dynamo!Token \in rs
  BY <1>3, <1>4, RequestKinds DEF Dynamo!BatchRequests, IsOperation
<1>7. ASSUME NEW k \in Keys, k \notin others[p]
      PROVE  items[k] = Meant(write[p].data, k) \/ Pending(write[p].data, k, rs)
  <2>1. PagesRead(write[p], requests[p], unread[p], existing[p], others[p], items)
    BY <1>2 DEF DynamoAt, DynamoFits
  <2>2. k \in existing[p] <=> items[k] # Absent
    BY <1>1, <1>2, <1>7, <2>1 DEF PagesRead
  <2>3. CASE k \in ToPut(write[p].data)
    BY <1>4, <2>3 DEF Pending, IsOperation
  <2>4. CASE k \notin ToPut(write[p].data) /\ items[k] = Absent
    BY <1>2, <2>4, MeantIs
  <2>5. CASE k \notin ToPut(write[p].data) /\ k \in existing[p]
    BY <1>4, <2>5 DEF Pending, IsOperation
  <2> QED
    BY <2>2, <2>3, <2>4, <2>5
<1>8. DynamoThen(p)
  <2>1. RequestsFit(write[p], rs)
    BY <1>2, <1>3 DEF RequestsFit
  <2>2. BatchesGo(write[p], rs, others[p], spoiled[p], items, inited)
    BY <1>6, <1>7 DEF BatchesGo
  <2>3. PutDone(write[p], rs, others[p], items) /\ PagesRead(write[p], rs, unread[p], existing'[p], others[p], items)
    BY <1>2, <1>6 DEF PutDone, PagesRead
  <2>4. requests'[p] = rs
    BY <1>5 DEF HasAsked
  <2> QED
    BY <1>1, <2>1, <2>2, <2>3, <2>4 DEF DynamoThen, DynamoFits
<1>9. existing' \in [Process -> SUBSET Keys] /\ \A q \in Process : q # p => existing'[q] = existing[q]
  BY <1>1, <1>2 DEF DynamoTyped
<1>10. DynamoAlone(p)
  BY <1>1, <1>5, <1>9 DEF DynamoAlone, HasAsked
<1>11. DatabaseTyped' /\ DynamoTyped'
  BY <1>1, <1>2, <1>5, <1>9 DEF DatabaseTyped, DynamoTyped, HasAsked
<1> QED
  BY <1>8, <1>10, <1>11, DynamoStepKeeps DEF DynamoKept

(* Who has a request of a batch waits for an init, or for nothing any more. *)
LEMMA BatchAsks ==
  ASSUME DynamoBefore, NEW p \in Process, NEW r \in requests[p], r.req \in Dynamo!BatchRequests
  PROVE  /\ write[p] = Stuck \/ (write[p].op = "init" /\ write[p].data \in DataSets
                                 /\ requests[p] \subseteq Dynamo!Operations(write[p].data, Keys))
         /\ write[p] = Stuck => \A x \in requests[p] : x.req \in Dynamo!BatchRequests
         /\ Stuck.op = "stuck" /\ Stuck # Idle
<1>1. RequestsFit(write[p], requests[p]) /\ DatabaseTyped
  BY DynamoHere
<1>2. write[p] = Idle \/ write[p] = Stuck \/ (write[p] \in Writes /\ write[p].op \in {"upsert", "init"})
  BY <1>1 DEF DatabaseTyped, Writes
<1>3. write[p] # Idle
  BY <1>1 DEF RequestsFit, Idle
<1>4. Dynamo!Query # r
  BY RequestKinds DEF Dynamo!BatchRequests
<1>5. write[p].op # "upsert"
  <2>1. write[p].op = "upsert" => write[p].key \in Keys
    BY <1>1, WriteIs
  <2> QED
    BY <1>1, <2>1, RequestKinds DEF RequestsFit, Dynamo!BatchRequests
<1>6. Stuck.op = "stuck" /\ Stuck # Idle
  BY DEF Stuck, Idle
<1>7. write[p] = Stuck \/ (write[p].op = "init" /\ write[p].data \in DataSets)
  BY <1>1, <1>2, <1>3, <1>5, WriteIs
<1> QED
  BY <1>1, <1>4, <1>6, <1>7 DEF RequestsFit

(* After the request r of p, done or lost, p waits for the rest or has its *)
(* answer.                                                                 *)
LEMMA BatchGoesOn ==
  ASSUME DynamoBefore, NEW p \in Process, NEW r \in requests[p], r.req \in Dynamo!BatchRequests,
         requests' = [requests EXCEPT ![p] = @ \ {r}], Dynamo!BatchDone(p, r),
         UNCHANGED <<unread, existing>>,
         write[p].op = "init" =>
           BatchesGo(write[p], requests[p] \ {r}, others'[p], spoiled'[p], items', inited')
  PROVE  /\ HasAsked(p, requests[p] \ {r})
         /\ write' \in [Process -> {Idle, Stuck} \cup Writes] /\ told' \in [Process -> Silent..MaxVersion]
         /\ \A q \in Process : q # p => write'[q] = write[q]
         /\ DynamoThen(p)
<1>1. DatabaseTyped /\ DynamoTyped /\ requests[p] \in SUBSET Requests
  BY DynamoHere
<1>2. HasAsked(p, requests[p] \ {r})
  <2>1. requests[p] \ {r} \in SUBSET Requests /\ requests' = [requests EXCEPT ![p] = requests[p] \ {r}]
    BY <1>1
  <2> QED
    BY <1>1, <2>1, RequestsAsked
<1>3. CASE requests[p] = {r} /\ write[p].op = "init"
  <2>1. Answer(p, Silent)
    BY <1>3, SameAnswer DEF Dynamo!BatchDone, Silent, Dynamo!Silent
  <2>2. HasEnded(p, Silent)
    BY <1>1, <2>1, WritesTyped, AnswerEnded
  <2>3. requests'[p] = {} /\ write'[p] = Idle
    BY <1>2, <1>3, <2>2 DEF HasAsked, HasEnded
  <2>4. DynamoThen(p)
    BY <2>3, NothingAsked DEF DynamoThen
  <2> QED
    BY <1>2, <2>2, <2>4 DEF HasEnded
<1>4. CASE ~(requests[p] = {r} /\ write[p].op = "init")
  <2>1. UNCHANGED <<write, told>>
    BY <1>4 DEF Dynamo!BatchDone
  <2>2. requests'[p] = requests[p] \ {r} /\ write'[p] = write[p] /\ unread'[p] = unread[p] /\ existing'[p] = existing[p]
    BY <1>2, <2>1 DEF HasAsked
  <2>3. CASE write[p] = Stuck
    <3>1. \A x \in requests'[p] : x.req \in Dynamo!BatchRequests
      BY <2>2, <2>3, BatchAsks
    <3>2. write'[p] = Stuck /\ Stuck # Idle
      BY <2>2, <2>3, BatchAsks
    <3>3. DynamoThen(p)
      BY <3>1, <3>2, NothingAsked DEF DynamoThen
    <3> QED
      BY <1>1, <1>2, <2>1, <3>3 DEF DatabaseTyped
  <2>4. CASE write[p].op = "init"
    <3>1. write[p].data \in DataSets /\ requests[p] \subseteq Dynamo!Operations(write[p].data, Keys)
      BY <2>4, BatchAsks
    <3>2. \A x \in requests[p] \ {r} : x.req \in Dynamo!BatchRequests
      BY <3>1, OperationsTyped
    <3>3. Dynamo!Query \notin requests[p] \ {r}
      BY <3>2, RequestKinds DEF Dynamo!BatchRequests
    <3>4. RequestsFit(write[p], requests[p] \ {r})
      BY <2>4, <3>1 DEF RequestsFit
    <3>5. DynamoThen(p)
      BY <2>2, <2>4, <3>3, <3>4 DEF DynamoThen, DynamoFits, PutDone, PagesRead
    <3> QED
      BY <1>1, <1>2, <2>1, <3>5 DEF DatabaseTyped
  <2> QED
    BY <2>3, <2>4, BatchAsks
<1> QED
  BY <1>3, <1>4

(* What is left of a batch when r is done or lost is still to be done.     *)
GoesOn(p, r) ==
  write[p].op = "init" =>
    BatchesGo(write[p], requests[p] \ {r}, others'[p], spoiled'[p], items', inited')

ServesRequest(p, r) ==
  /\ r.req \in Dynamo!BatchRequests
  /\ r.req = "put_request" => Dynamo!Store(p, [items EXCEPT ![r.key] = r.version]) /\ UNCHANGED inited
  /\ r.req = "delete_request" => Dynamo!Store(p, [items EXCEPT ![r.key] = Absent]) /\ UNCHANGED inited
  /\ r.req = "token" => inited' = TRUE /\ UNCHANGED <<items, others>>
  /\ requests' = [requests EXCEPT ![p] = @ \ {r}]
  /\ Dynamo!BatchDone(p, r)
  /\ UNCHANGED <<spoiled, unread, existing>>

HasServed(p, r) ==
  HasStored(p, items') /\ inited' \in BOOLEAN /\ (inited => inited') /\ GoesOn(p, r)

(* An operation of a batch does its part of the data.                      *)
LEMMA RequestStores ==
  ASSUME DynamoBefore, NEW p \in Process, NEW r \in requests[p], ServesRequest(p, r)
  PROVE  HasServed(p, r)
<1>1. /\ r.req \in Dynamo!BatchRequests
      /\ r.req = "put_request" => Dynamo!Store(p, [items EXCEPT ![r.key] = r.version]) /\ UNCHANGED inited
      /\ r.req = "delete_request" => Dynamo!Store(p, [items EXCEPT ![r.key] = Absent]) /\ UNCHANGED inited
      /\ r.req = "token" => inited' = TRUE /\ UNCHANGED <<items, others>>
      /\ UNCHANGED spoiled
  BY DEF ServesRequest
<1>2. DatabaseTyped /\ DynamoTyped /\ DynamoAt(p) /\ r \in Requests
      /\ items \in [Keys -> Versions] /\ inited \in BOOLEAN
  BY DynamoHere DEF DatabaseTyped
<1>3. /\ r.req \in {"put_request", "delete_request", "token"}
      /\ r.req = "put_request" => r.key \in Keys /\ r.version \in 1..MaxVersion
      /\ r.req = "delete_request" => r.key \in Keys
  BY <1>1, <1>2 DEF Requests, Dynamo!BatchRequests
<1>4. PICK new \in [Keys -> Versions] :
        /\ HasStored(p, new)
        /\ r.req = "put_request" => new = [items EXCEPT ![r.key] = r.version] /\ inited' = inited
        /\ r.req = "delete_request" => new = [items EXCEPT ![r.key] = Absent] /\ inited' = inited
        /\ r.req = "token" => new = items /\ inited'
  <2>1. CASE r.req = "put_request"
    <3> DEFINE new == [items EXCEPT ![r.key] = r.version]
    <3>1. new \in [Keys -> Versions]
      BY <1>2, <1>3, <2>1, WritesTyped
    <3> HIDE DEF new
    <3>2. HasStored(p, new)
      BY <1>1, <1>2, <2>1, <3>1, StoreStored DEF new
    <3> QED
      BY <1>1, <2>1, <3>1, <3>2 DEF new
  <2>2. CASE r.req = "delete_request"
    <3> DEFINE new == [items EXCEPT ![r.key] = Absent]
    <3>1. new \in [Keys -> Versions]
      BY <1>2, <1>3, <2>2, WritesTyped
    <3> HIDE DEF new
    <3>2. HasStored(p, new)
      BY <1>1, <1>2, <2>2, <3>1, StoreStored DEF new
    <3> QED
      BY <1>1, <2>2, <3>1, <3>2 DEF new
  <2>3. CASE r.req = "token"
    BY <1>1, <1>2, <2>3, NothingStored
  <2> QED
    BY <1>3, <2>1, <2>2, <2>3
<1>5. items' = new /\ others'[p] = others[p] /\ inited' \in BOOLEAN /\ (inited => inited')
  <2>1. items' = new /\ others'[p] = others[p]
    BY <1>4 DEF HasStored
  <2>2. inited' = inited \/ inited' = TRUE
    <3>1. CASE r.req \in {"put_request", "delete_request"}
      BY <1>4, <3>1
    <3>2. CASE r.req = "token"
      BY <1>1, <3>2
    <3> QED
      BY <1>3, <3>1, <3>2, Zenon
  <2>3. inited' \in BOOLEAN /\ (inited => inited')
    BY <1>2, <2>2, Zenon
  <2> QED
    BY <2>1, <2>3
<1>6. ASSUME write[p].op = "init"
      PROVE  BatchesGo(write[p], requests[p] \ {r}, others'[p], spoiled'[p], items', inited')
  <2>1. write[p].data \in DataSets /\ requests[p] \subseteq Dynamo!Operations(write[p].data, Keys)
    BY <1>1, <1>6, BatchAsks DEF Stuck
  <2>2. BatchesGo(write[p], requests[p], others[p], spoiled[p], items, inited)
    BY <1>2 DEF DynamoAt, DynamoFits
  <2>3. BatchesGo(write[p], requests[p] \ {r}, others[p], spoiled[p], new, inited')
    BY <1>2, <1>4, <1>5, <1>6, <2>1, <2>2, RequestServed
  <2> QED
    BY <1>1, <1>5, <2>3
<1> QED
  BY <1>4, <1>5, <1>6 DEF HasServed, HasStored, GoesOn

(* An operation of a batch is done.                                        *)
LEMMA ServeBatchRequestKeeps ==
  ASSUME DynamoBefore, NEW p \in Process, Dynamo!ServeBatchRequest(p)
  PROVE  DynamoKept
<1>1. PICK r \in requests[p] : ServesRequest(p, r)
  BY DEF Dynamo!ServeBatchRequest, ServesRequest, Dynamo!BatchRequests, Absent, Dynamo!Absent
<1>2. DatabaseTyped /\ DynamoTyped
  BY DynamoHere
<1>3. /\ requests' = [requests EXCEPT ![p] = @ \ {r}] /\ r.req \in Dynamo!BatchRequests
      /\ Dynamo!BatchDone(p, r) /\ UNCHANGED <<spoiled, unread, existing>>
  BY <1>1 DEF ServesRequest
<1>4. HasServed(p, r)
  BY <1>1, RequestStores
<1>5. HasStored(p, items') /\ inited' \in BOOLEAN /\ (inited => inited')
  BY <1>4 DEF HasServed
<1>6. write[p].op = "init" =>
        BatchesGo(write[p], requests[p] \ {r}, others'[p], spoiled'[p], items', inited')
  BY <1>4 DEF HasServed, GoesOn
<1>7. /\ HasAsked(p, requests[p] \ {r})
      /\ write' \in [Process -> {Idle, Stuck} \cup Writes] /\ told' \in [Process -> Silent..MaxVersion]
      /\ \A q \in Process : q # p => write'[q] = write[q]
      /\ DynamoThen(p)
  BY <1>3, <1>6, BatchGoesOn
<1>8. DynamoAlone(p)
  BY <1>3, <1>5, <1>7 DEF DynamoAlone, HasStored, HasAsked
<1>9. DatabaseTyped' /\ DynamoTyped'
  BY <1>2, <1>3, <1>5, <1>7 DEF DatabaseTyped, DynamoTyped, HasStored, HasAsked
<1> QED
  BY <1>7, <1>8, <1>9, DynamoStepKeeps DEF DynamoKept

LosesRequest(p, r) ==
  /\ r.req \in Dynamo!BatchRequests
  /\ requests' = [requests EXCEPT ![p] = @ \ {r}]
  /\ Dynamo!BatchDone(p, r)
  /\ spoiled' = [spoiled EXCEPT ![p] = spoiled[p] \cup (IF r = Dynamo!Token THEN Keys ELSE {r.key})]
  /\ UNCHANGED <<items, inited, others, unread, existing>>

HasLost(p, r) ==
  /\ spoiled' \in [Process -> SUBSET Keys]
  /\ \A q \in Process : q # p => spoiled'[q] = spoiled[q]
  /\ GoesOn(p, r)

(* An operation that is left unprocessed spoils its part of the data.      *)
LEMMA RequestSpoils ==
  ASSUME DynamoBefore, NEW p \in Process, NEW r \in requests[p], LosesRequest(p, r)
  PROVE  HasLost(p, r)
<1>1. /\ r.req \in Dynamo!BatchRequests
      /\ spoiled' = [spoiled EXCEPT ![p] = spoiled[p] \cup (IF r = Dynamo!Token THEN Keys ELSE {r.key})]
      /\ UNCHANGED <<items, inited, others>>
  BY DEF LosesRequest
<1>2. DatabaseTyped /\ DynamoTyped /\ DynamoAt(p) /\ r \in Requests /\ spoiled[p] \in SUBSET Keys
  BY DynamoHere DEF DatabaseTyped
<1>3. r = Dynamo!Token \/ r.key \in Keys
  BY <1>1, <1>2 DEF Requests, Dynamo!Token, Dynamo!BatchRequests
<1> DEFINE more == IF r = Dynamo!Token THEN Keys ELSE {r.key}
<1>4. more \subseteq Keys
  BY <1>3
<1> HIDE DEF more
<1>5. /\ spoiled' \in [Process -> SUBSET Keys] /\ spoiled'[p] = spoiled[p] \cup more
      /\ \A q \in Process : q # p => spoiled'[q] = spoiled[q]
  <2>1. spoiled' = [spoiled EXCEPT ![p] = spoiled[p] \cup more]
    BY <1>1 DEF more
  <2> QED
    BY <1>2, <1>4, <2>1 DEF DatabaseTyped
<1>6. ASSUME write[p].op = "init"
      PROVE  BatchesGo(write[p], requests[p] \ {r}, others'[p], spoiled'[p], items', inited')
  <2>1. write[p].data \in DataSets /\ requests[p] \subseteq Dynamo!Operations(write[p].data, Keys)
    BY <1>1, <1>6, BatchAsks DEF Stuck
  <2>2. BatchesGo(write[p], requests[p], others[p], spoiled[p], items, inited)
    BY <1>2 DEF DynamoAt, DynamoFits
  <2>3. spoiled'[p] = spoiled[p] \cup (IF r = Dynamo!Token THEN Keys ELSE {r.key})
    BY <1>5 DEF more
  <2>4. BatchesGo(write[p], requests[p] \ {r}, others[p], spoiled'[p], items, inited)
    BY <1>2, <1>6, <2>1, <2>2, <2>3, RequestLost
  <2> QED
    BY <1>1, <2>4
<1> QED
  BY <1>5, <1>6 DEF HasLost, GoesOn

(* An operation of a batch is left unprocessed.                            *)
LEMMA UnprocessedKeeps ==
  ASSUME DynamoBefore, NEW p \in Process, Dynamo!Unprocessed(p)
  PROVE  DynamoKept
<1>1. PICK r \in requests[p] : LosesRequest(p, r)
  BY DEF Dynamo!Unprocessed, Dynamo!Spoil, LosesRequest
<1>2. DatabaseTyped /\ DynamoTyped
  BY DynamoHere
<1>3. /\ requests' = [requests EXCEPT ![p] = @ \ {r}] /\ r.req \in Dynamo!BatchRequests
      /\ Dynamo!BatchDone(p, r) /\ UNCHANGED <<items, inited, others, unread, existing>>
  BY <1>1 DEF LosesRequest
<1>4. HasLost(p, r)
  BY <1>1, RequestSpoils
<1>5. spoiled' \in [Process -> SUBSET Keys] /\ \A q \in Process : q # p => spoiled'[q] = spoiled[q]
  BY <1>4 DEF HasLost
<1>6. write[p].op = "init" =>
        BatchesGo(write[p], requests[p] \ {r}, others'[p], spoiled'[p], items', inited')
  BY <1>4 DEF HasLost, GoesOn
<1>7. /\ HasAsked(p, requests[p] \ {r})
      /\ write' \in [Process -> {Idle, Stuck} \cup Writes] /\ told' \in [Process -> Silent..MaxVersion]
      /\ \A q \in Process : q # p => write'[q] = write[q]
      /\ DynamoThen(p)
  BY <1>3, <1>6, BatchGoesOn
<1>8. DynamoAlone(p)
  BY <1>3, <1>5, <1>7 DEF DynamoAlone, HasAsked
<1>9. DatabaseTyped' /\ DynamoTyped'
  BY <1>2, <1>3, <1>5, <1>7 DEF DatabaseTyped, DynamoTyped, HasAsked
<1> QED
  BY <1>7, <1>8, <1>9, DynamoStepKeeps DEF DynamoKept

(* A request fails.                                                        *)
LEMMA RequestFailsKeeps ==
  ASSUME DynamoBefore, NEW p \in Process, Dynamo!RequestFails(p)
  PROVE  DynamoKept
<1>1. PICK r \in requests[p] :
        /\ requests' = [requests EXCEPT ![p] = IF r.req \in Dynamo!BatchRequests THEN requests[p] \ {r} ELSE {}]
        /\ \/ r.req = "put" /\ Answer(p, Failed)
           \/ r.req # "put" /\ write' = [write EXCEPT ![p] = Stuck] /\ UNCHANGED told
        /\ unread' = [unread EXCEPT ![p] = {}] /\ existing' = [existing EXCEPT ![p] = {}]
        /\ UNCHANGED <<items, inited, others, spoiled>>
  BY SameAnswer DEF Dynamo!RequestFails, Failed, Dynamo!Failed, Stuck, Dynamo!Stuck
<1>2. DatabaseTyped /\ DynamoTyped /\ requests[p] \in SUBSET Requests
  BY DynamoHere
<1>3. unread' \in [Process -> SUBSET Keys] /\ existing' \in [Process -> SUBSET Keys]
      /\ \A q \in Process : q # p => unread'[q] = unread[q] /\ existing'[q] = existing[q]
  BY <1>1, <1>2 DEF DynamoTyped
<1>4. CASE r.req = "put" /\ Answer(p, Failed)
  <2>1. requests' = [requests EXCEPT ![p] = {}]
    BY <1>1, <1>4 DEF Dynamo!BatchRequests
  <2> QED
    BY <1>1, <1>3, <1>4, <2>1, WritesTyped, EndKeeps
<1>5. CASE r.req # "put" /\ write' = [write EXCEPT ![p] = Stuck] /\ UNCHANGED told
  <2> DEFINE rs == IF r.req \in Dynamo!BatchRequests THEN requests[p] \ {r} ELSE {}
  <2>1. rs \in SUBSET Requests /\ \A x \in rs : x.req \in Dynamo!BatchRequests
    <3>1. CASE r.req \in Dynamo!BatchRequests
      <4>1. \A x \in requests[p] : x.req \in Dynamo!BatchRequests
        <5>1. CASE write[p] = Stuck
          BY <3>1, <5>1, BatchAsks
        <5>2. CASE write[p] # Stuck
          BY <3>1, <5>2, BatchAsks, OperationsTyped
        <5> QED
          BY <5>1, <5>2
      <4> QED
        BY <1>2, <3>1, <4>1
    <3>2. CASE r.req \notin Dynamo!BatchRequests
      BY <3>2
    <3> QED
      BY <3>1, <3>2
  <2>2. requests' = [requests EXCEPT ![p] = rs]
    BY <1>1
  <2> HIDE DEF rs
  <2>3. HasAsked(p, rs)
    BY <1>2, <2>1, <2>2, RequestsAsked
  <2>4. write' \in [Process -> {Idle, Stuck} \cup Writes] /\ write'[p] = Stuck
        /\ \A q \in Process : q # p => write'[q] = write[q]
    BY <1>2, <1>5 DEF DatabaseTyped
  <2>5. DynamoThen(p)
    <3>1. requests'[p] = rs /\ Stuck # Idle
      BY <2>3 DEF HasAsked, Stuck, Idle
    <3> QED
      BY <2>1, <2>4, <3>1, NothingAsked DEF DynamoThen
  <2>6. DynamoAlone(p)
    BY <1>1, <1>3, <2>3, <2>4 DEF DynamoAlone, HasAsked
  <2>7. DatabaseTyped' /\ DynamoTyped'
    BY <1>1, <1>2, <1>3, <1>5, <2>3, <2>4 DEF DatabaseTyped, DynamoTyped, HasAsked
  <2> QED
    BY <2>5, <2>6, <2>7, DynamoStepKeeps DEF DynamoKept
<1> QED
  BY <1>1, <1>4, <1>5

-----------------------------------------------------------------------------
(* The two stores in one program.                                          *)

(* Both stores begin with the invariant.                                   *)
LEMMA InitInvariant == Init => Invariant
<1> SUFFICES ASSUME Init PROVE Invariant
  OBVIOUS
<1>1. InitDatabase /\ Redis!InitRedis /\ Dynamo!InitDynamo /\ backend \in {"redis", "dynamodb"}
      /\ begun = 0 /\ faults = 0
  BY DEF Init
<1>2. /\ items \in [Keys -> Versions] /\ inited = FALSE /\ write = [p \in Process |-> Idle]
      /\ told = [p \in Process |-> Silent]
      /\ others = [p \in Process |-> {}] /\ spoiled = [p \in Process |-> {}]
  BY <1>1, DatabaseAssumption DEF InitDatabase
<1>3. DatabaseTyped
  BY <1>2, WritesTyped DEF DatabaseTyped
<1>4. /\ link = [p \in Process |-> IF p \in Owners THEN "initial" ELSE "connected"]
      /\ wire = [p \in Process |-> <<>>] /\ watch = [p \in Process |-> "none"]
      /\ reads = [p \in Process |-> "none"] /\ answers = [p \in Process |-> 0]
      /\ broken = [p \in Process |-> FALSE]
  BY <1>1 DEF Redis!InitRedis
<1>5. <<>> \in Seq(Commands) /\ Len(<<>>) = 0
  BY EmptySeq
<1>6. RedisTyped
  BY <1>4, <1>5 DEF RedisTyped
<1>7. requests = [p \in Process |-> {}] /\ unread = [p \in Process |-> {}] /\ existing = [p \in Process |-> {}]
  BY <1>1 DEF Dynamo!InitDynamo
<1>8. DynamoTyped
  BY <1>7 DEF DynamoTyped
<1>9. ASSUME NEW p \in Process
      PROVE  RedisFits(write[p], wire[p], watch[p], link[p], broken[p], items) /\ Counted(reads[p], answers[p], wire[p])
  <2>1. write[p] = Idle /\ wire[p] = <<>> /\ link[p] # "down" /\ answers[p] = 0
    BY <1>2, <1>4
  <2> QED
    BY <1>5, <2>1 DEF RedisFits, WireFits, ReadsWatched, WritesWatched, Counted
<1>10. ASSUME NEW p \in Process
       PROVE  DynamoFits(write[p], requests[p], unread[p], existing[p], others[p], spoiled[p], items, inited)
  BY <1>2, <1>7, NothingAsked
<1>11. Bounded
  BY <1>1, DatabasesAssumption DEF Bounded
<1> QED
  BY <1>1, <1>3, <1>6, <1>8, <1>9, <1>10, <1>11 DEF Invariant, Typed, RedisOK, DynamoOK

(* A step of a process with Redis: an action of RedisCore.                 *)
RedisActs(p) ==
  \/ \E k \in Keys, v \in 1..MaxVersion : Redis!RedisUpsert(p, k, v)
  \/ \E data \in DataSets : Redis!RedisInit(p, data)
  \/ Redis!GetAll(p) \/ Redis!Serve(p) \/ Redis!Connect(p)
  \/ Redis!Break(p) \/ Redis!RedisCrash(p) \/ Redis!GiveUp(p)

(* A step of a process with DynamoDB.                                      *)
DynamoActs(p) ==
  \/ \E k \in Keys, v \in 1..MaxVersion : Dynamo!DynamoUpsert(p, k, v)
  \/ \E data \in DataSets : Dynamo!DynamoInit(p, data)
  \/ Dynamo!DynamoServe(p)
  \/ Dynamo!Unprocessed(p) \/ Dynamo!RequestFails(p) \/ Dynamo!DynamoCrash(p)

(* A step of the program is one of these, or of none.                      *)
LEMMA Steps ==
  ASSUME Next
  PROVE  /\ begun' \in {begun, begun + 1} /\ faults' \in {faults, faults + 1}
         /\ (begun' = begun \/ begun < MaxWrites) /\ (faults' = faults \/ faults < MaxFaults)
         /\ backend' = backend
         /\ \E p \in Process :
              \/ backend = "redis" /\ RedisActs(p) /\ UNCHANGED dynamoVars
              \/ backend = "dynamodb" /\ DynamoActs(p) /\ UNCHANGED redisVars
<1>1. CASE BeginWrite
  BY <1>1 DEF BeginWrite, RedisStep, DynamoStep, RedisActs, DynamoActs
<1>2. CASE Read
  BY <1>2, DatabasesAssumption DEF Read, RedisStep, RedisActs
<1>3. CASE \E p \in Process : Serve(p)
  BY <1>3 DEF Serve, RedisStep, DynamoStep, RedisActs, DynamoActs
<1>4. CASE Fault
  BY <1>4 DEF Fault, RedisStep, DynamoStep, RedisActs, DynamoActs
<1>5. CASE GiveUp
  BY <1>5 DEF GiveUp, RedisStep, RedisActs
<1> QED
  BY <1>1, <1>2, <1>3, <1>4, <1>5 DEF Next

(* Every action of RedisCore keeps what is said of Redis.                  *)
LEMMA RedisActsKeep ==
  ASSUME Before, NEW p \in Process, RedisActs(p)
  PROVE  Kept
<1>1. CASE Redis!Serve(p)
  BY <1>1, ServeWatchKeeps, ServeHGetKeeps, ServeExecKeeps, ServeInitKeeps, ServeHGetAllKeeps DEF Redis!Serve
<1> QED
  BY <1>1, RedisUpsertKeeps, RedisInitKeeps, GetAllKeeps, ConnectKeeps, BreakKeeps, RedisCrashKeeps, GiveUpKeeps
  DEF RedisActs

(* Every action of DynamoDBCore keeps what is said of DynamoDB.            *)
LEMMA DynamoActsKeep ==
  ASSUME DynamoBefore, NEW p \in Process, DynamoActs(p)
  PROVE  DynamoKept
<1>1. CASE Dynamo!DynamoServe(p)
  BY <1>1, ServePutKeeps, ServeGetKeeps, ServePageKeeps, WriteBatchesKeeps, ServeBatchRequestKeeps
  DEF Dynamo!DynamoServe
<1> QED
  BY <1>1, DynamoUpsertKeeps, DynamoInitKeeps, UnprocessedKeeps, RequestFailsKeeps, DynamoCrashKeeps
  DEF DynamoActs

(* The invariant is inductive.                                             *)
LEMMA StepInvariant == Invariant /\ [Next]_vars => Invariant'
<1> SUFFICES ASSUME Invariant, [Next]_vars PROVE Invariant'
  OBVIOUS
<1>1. CASE Next
  <2>1. Bounded'
    BY <1>1, Steps, DatabasesAssumption DEF Invariant, Bounded
  <2>2. backend' = backend /\ backend \in {"redis", "dynamodb"}
    BY <1>1, Steps DEF Invariant, Typed
  <2>3. PICK p \in Process :
          \/ backend = "redis" /\ RedisActs(p) /\ UNCHANGED dynamoVars
          \/ backend = "dynamodb" /\ DynamoActs(p) /\ UNCHANGED redisVars
    BY <1>1, Steps
  <2>4. CASE backend = "redis" /\ RedisActs(p) /\ UNCHANGED dynamoVars
    <3>1. Before
      BY <2>4 DEF Invariant, Typed, Before
    <3>2. Kept
      BY <2>4, <3>1, RedisActsKeep
    <3>3. DynamoTyped' /\ DynamoOK'
      <4>1. DynamoTyped'
        BY <2>4 DEF Invariant, Typed, DynamoTyped, dynamoVars
      <4> QED
        BY <2>2, <2>4, <4>1 DEF DynamoOK
    <3> QED
      BY <2>1, <2>2, <3>2, <3>3 DEF Invariant, Typed, Kept
  <2>5. CASE backend = "dynamodb" /\ DynamoActs(p) /\ UNCHANGED redisVars
    <3>1. DynamoBefore
      BY <2>5 DEF Invariant, Typed, DynamoBefore
    <3>2. DynamoKept
      BY <2>5, <3>1, DynamoActsKeep
    <3>3. RedisTyped' /\ RedisOK'
      <4>1. RedisTyped'
        BY <2>5 DEF Invariant, Typed, RedisTyped, redisVars
      <4> QED
        BY <2>2, <2>5, <4>1 DEF RedisOK
    <3> QED
      BY <2>1, <2>2, <3>2, <3>3 DEF Invariant, Typed, DynamoKept
  <2> QED
    BY <2>3, <2>4, <2>5
<1>2. CASE UNCHANGED vars
  <2>1. DatabaseTyped' /\ RedisTyped' /\ DynamoTyped' /\ Bounded'
    BY <1>2 DEF vars, dbVars, redisVars, dynamoVars, Invariant, Typed, DatabaseTyped, RedisTyped, DynamoTyped, Bounded
  <2>2. RedisOK'
    BY <1>2 DEF vars, dbVars, redisVars, Invariant, RedisOK
  <2>3. DynamoOK'
    BY <1>2 DEF vars, dbVars, dynamoVars, Invariant, DynamoOK
  <2> QED
    BY <1>2, <2>1, <2>2, <2>3 DEF vars, Invariant, Typed
<1> QED
  BY <1>1, <1>2

(* Whatever the bounds, the program keeps to the invariant.                *)
THEOREM Invariance == Spec => []Invariant
BY InitInvariant, StepInvariant, PTL DEF Spec

(* The stores keep to their types: the commands and requests under way are *)
(* of the kinds the code sends, and the callback of getAll is called twice *)
(* at most.                                                                *)
THEOREM TypeCorrect == Spec => []TypeOK
<1>1. Invariant => TypeOK
  <2> SUFFICES ASSUME Invariant PROVE TypeOK
    OBVIOUS
  <2>1. DatabaseTyped /\ RedisTyped /\ DynamoTyped /\ Bounded
    BY DEF Invariant, Typed
  <2>2. TypeOKDatabase
    BY <2>1 DEF DatabaseTyped, TypeOKDatabase
  <2>3. Redis!TypeOKRedis
    <3>1. \A p \in Process : \A n \in DOMAIN wire[p] : wire[p][n] \in Commands
      BY <2>1 DEF RedisTyped
    <3> QED
      BY <2>1, <3>1, Kinds DEF RedisTyped, Redis!TypeOKRedis
  <2>4. Dynamo!TypeOKDynamo
    <3>1. \A r \in Requests : r.req \in {"query", "token", "delete_request", "get", "put_request", "put"}
      BY DEF Requests
    <3>2. \A p \in Process : \A r \in requests[p] : r \in Requests
      BY <2>1 DEF DynamoTyped
    <3> QED
      BY <2>1, <3>1, <3>2 DEF DynamoTyped, Dynamo!TypeOKDynamo, Dynamo!BatchRequests
  <2> QED
    BY <2>1, <2>2, <2>3, <2>4 DEF TypeOK, Bounded
<1> QED
  BY <1>1, Invariance, PTL

-----------------------------------------------------------------------------
(* No item goes back.                                                      *)

HasRisen == \A k \in Keys : items'[k] >= items[k]

(* With a connection all the while, the transaction of an upsert is carried *)
(* out only if the item is still as old as when it was read.               *)
LEMMA WatchedRises ==
  ASSUME Before, NEW p \in Process, ~broken[p], Redis!NextCommand(p, "exec"), watch[p] # "changed",
         items' = [items EXCEPT ![wire[p][1].key] = wire[p][1].version]
  PROVE  HasRisen
<1>1. 1 \in 1..Len(wire[p]) /\ wire[p][1].cmd = "exec"
  BY HeadHere
<1>2. WritesWatched(wire[p], watch[p], items)
  BY AtFirstHere DEF RedisAt, RedisFits
<1>3. items[wire[p][1].key] < wire[p][1].version
  BY <1>1, <1>2 DEF WritesWatched
<1>4. wire[p][1].key \in Keys /\ wire[p][1].version \in Int /\ \A k \in Keys : items[k] \in Int
  BY ExecSets, AtFirstHere, WritesTyped DEF DatabaseTyped
<1>5. items \in [Keys -> Versions]
  BY AtFirstHere DEF DatabaseTyped
<1> QED
  BY <1>3, <1>4, <1>5 DEF HasRisen

(* A step with Redis takes no item back but for the exceptions.            *)
LEMMA RedisAdvances ==
  ASSUME Before, NEW p \in Process, RedisActs(p)
  PROVE  HasRisen \/ MayGoBack(p)
<1>1. ASSUME items' = items PROVE HasRisen
  <2>1. \A k \in Keys : items[k] \in Int
    BY AtFirstHere, WritesTyped DEF DatabaseTyped
  <2> QED
    BY <1>1, <2>1 DEF HasRisen
<1>2. ASSUME NEW cmd, Redis!NextCommand(p, cmd), Redis!Answered(p, <<>>) PROVE wire'[p] # wire[p]
  <2>1. wire[p] # <<>> /\ RedisTyped /\ Len(wire[p]) \in Nat /\ <<>> \in Seq(Commands) /\ Len(<<>>) = 0
    BY <1>2, HeadHere, AtFirstHere, EmptySeq
  <2>2. HasSent(p, 1, <<>>)
    BY <1>2, <2>1, AnsweredSent
  <2>3. Len(wire'[p]) = (Len(wire[p]) - 1) + 0
    BY <2>1, <2>2 DEF HasSent, Follows
  <2> QED
    BY <2>1, <2>3
<1>3. CASE Redis!ServeExec(p) /\ items' # items
  <2>1. /\ Redis!NextCommand(p, "exec") /\ watch[p] # "changed" /\ Redis!Answered(p, <<>>)
        /\ items' = [items EXCEPT ![wire[p][1].key] = wire[p][1].version]
    BY <1>3 DEF Redis!ServeExec, Redis!Serves, Redis!Transact, Redis!Store
  <2> QED
    BY <1>2, <2>1, WatchedRises DEF MayGoBack
<1>4. CASE Redis!ServeInit(p)
  <2>1. Redis!NextCommand(p, "exec_init") /\ Redis!Answered(p, <<>>)
    BY <1>4 DEF Redis!ServeInit, Redis!Serves
  <2> QED
    BY <1>2, <2>1 DEF MayGoBack
<1>5. CASE Redis!Break(p) /\ items' # items
  <2>1. /\ Redis!NextCommand(p, "exec") /\ watch[p] # "changed"
        /\ items' = [items EXCEPT ![wire[p][1].key] = wire[p][1].version]
        /\ link[p] = "connected" /\ link' = [link EXCEPT ![p] = "down"]
    BY <1>5 DEF Redis!Break, Redis!Transact, Redis!Store
  <2>2. link'[p] # link[p]
    BY <2>1, AtFirstHere DEF RedisTyped
  <2> QED
    BY <2>1, <2>2, WatchedRises DEF MayGoBack
<1>6. items' = items \/ Redis!ServeExec(p) \/ Redis!ServeInit(p) \/ Redis!Break(p)
  BY DEF RedisActs, Redis!RedisUpsert, Redis!RedisInit, Redis!Begin, Redis!GetAll, Redis!Serve, Redis!ServeWatch,
         Redis!ServeHGet, Redis!ServeHGetAll, Redis!Connect, Redis!RedisCrash, Redis!GiveUp, Redis!dbVars
<1> QED
  BY <1>1, <1>3, <1>4, <1>5, <1>6

(* A step with DynamoDB takes no item back but for the exceptions.         *)
LEMMA DynamoAdvances ==
  ASSUME DynamoBefore, NEW p \in Process, DynamoActs(p)
  PROVE  HasRisen \/ MayGoBack(p)
<1>0. items \in [Keys -> Versions] /\ \A k \in Keys : items[k] \in Int
  BY DynamoHere, WritesTyped DEF DatabaseTyped
<1>1. ASSUME items' = items PROVE HasRisen
  BY <1>0, <1>1 DEF HasRisen
<1>2. CASE Dynamo!ServePut(p)
  <2>1. PICK r \in requests[p] : r.req = "put" /\ Dynamo!PutIfNewer(p, r)
    BY <1>2 DEF Dynamo!ServePut
  <2>2. r.key \in Keys /\ r.version \in Int
    BY <2>1, UpsertAsks
  <2>3. items' = items \/ (items[r.key] < r.version /\ items' = [items EXCEPT ![r.key] = r.version])
    BY <2>1 DEF Dynamo!PutIfNewer, Dynamo!Store
  <2> QED
    BY <1>0, <1>1, <2>2, <2>3 DEF HasRisen
<1>3. CASE Dynamo!ServeBatchRequest(p)
  <2>1. PICK r \in requests[p] :
          /\ r.req \in {"put_request", "delete_request", "token"}
          /\ r.req = "token" => items' = items
          /\ requests' = [requests EXCEPT ![p] = @ \ {r}]
    BY <1>3 DEF Dynamo!ServeBatchRequest, Dynamo!BatchRequests
  <2>2. r \in requests[p] \ requests'[p]
    BY <2>1, DynamoHere DEF DynamoTyped
  <2> QED
    BY <1>1, <2>1, <2>2 DEF MayGoBack
<1>4. items' = items \/ Dynamo!ServePut(p) \/ Dynamo!ServeBatchRequest(p)
  BY DEF DynamoActs, Dynamo!DynamoUpsert, Dynamo!DynamoInit, Dynamo!Begin, Dynamo!DynamoServe, Dynamo!ServeGet,
         Dynamo!ServePage, Dynamo!WriteBatches, Dynamo!Unprocessed, Dynamo!RequestFails, Dynamo!DynamoCrash,
         Dynamo!dbVars
<1> QED
  BY <1>1, <1>2, <1>3, <1>4

(* However many processes upsert at a time, the WATCH of Redis and the     *)
(* condition of DynamoDB keep an item from being replaced by an older one, *)
(* but for the inits and the upserts that the property names.              *)
THEOREM UpsertsOnlyAdvanceEver == Spec => UpsertsOnlyAdvance
<1> DEFINE Advances == (\E k \in Keys : items'[k] < items[k]) => \E p \in Process : MayGoBack(p)
<1>1. Invariant /\ [Next]_vars => [Advances]_vars
  <2> SUFFICES ASSUME Invariant, Next PROVE Advances
    OBVIOUS
  <2>1. PICK p \in Process :
          \/ backend = "redis" /\ RedisActs(p) /\ UNCHANGED dynamoVars
          \/ backend = "dynamodb" /\ DynamoActs(p) /\ UNCHANGED redisVars
    BY Steps
  <2>2. HasRisen \/ MayGoBack(p)
    BY <2>1, RedisAdvances, DynamoAdvances DEF Invariant, Typed, Before, DynamoBefore
  <2>3. \A k \in Keys : items[k] \in Int /\ items'[k] \in Int
    <3>1. Invariant'
      BY StepInvariant
    <3> QED
      BY <3>1, WritesTyped DEF Invariant, Typed, DatabaseTyped
  <2> QED
    BY <2>2, <2>3 DEF HasRisen
<1>2. UpsertsOnlyAdvance <=> [][Advances]_vars
  BY DEF UpsertsOnlyAdvance
<1> QED
  BY <1>1, <1>2, Invariance, PTL DEF Spec

-----------------------------------------------------------------------------
(* What a write that ends has done.                                        *)

(* A step of p leaves the writes of the others.                            *)
OwnWrite(p) == \A q \in Process : q # p => write'[q] = write[q]

(* Who changes one write leaves the others.                                *)
LEMMA WriteMoves ==
  ASSUME DatabaseTyped, NEW p \in Process,
         \/ write' = write
         \/ \E w : write' = [write EXCEPT ![p] = w]
  PROVE  OwnWrite(p)
BY DEF DatabaseTyped, OwnWrite

(* A step with Redis changes the write of its process alone.               *)
LEMMA RedisOwnWrite ==
  ASSUME Before, NEW p \in Process, RedisActs(p)
  PROVE  OwnWrite(p)
<1>1. write' = write \/ \E w : write' = [write EXCEPT ![p] = w]
  <2>1. CASE Redis!Serve(p)
    BY <2>1 DEF Redis!Serve, Redis!ServeWatch, Redis!ServeHGet, Redis!Compare, Redis!ServeExec, Redis!Retry,
       Redis!ServeInit, Redis!ServeHGetAll, Redis!Answer, Redis!dbVars
  <2>2. CASE Redis!GiveUp(p)
    BY <2>2 DEF Redis!GiveUp, Redis!Compare, Redis!Answer
  <2>3. CASE ~Redis!Serve(p) /\ ~Redis!GiveUp(p)
    BY <2>3 DEF RedisActs, Redis!RedisUpsert, Redis!RedisInit, Redis!Begin, Redis!GetAll, Redis!Connect,
       Redis!Break, Redis!RedisCrash, Redis!Answer, Redis!dbVars
  <2> QED
    BY <2>1, <2>2, <2>3
<1> QED
  BY <1>1, AtFirstHere, WriteMoves

(* A step with DynamoDB changes the write of its process alone.            *)
LEMMA DynamoOwnWrite ==
  ASSUME DynamoBefore, NEW p \in Process, DynamoActs(p)
  PROVE  OwnWrite(p)
<1>1. write' = write \/ \E w : write' = [write EXCEPT ![p] = w]
  <2>1. CASE Dynamo!DynamoServe(p)
    BY <2>1 DEF Dynamo!DynamoServe, Dynamo!ServePut, Dynamo!ServeGet, Dynamo!ServePage, Dynamo!WriteBatches,
       Dynamo!ServeBatchRequest, Dynamo!BatchDone, Dynamo!Answer, Dynamo!dbVars
  <2>2. CASE ~Dynamo!DynamoServe(p)
    BY <2>2 DEF DynamoActs, Dynamo!DynamoUpsert, Dynamo!DynamoInit, Dynamo!Begin, Dynamo!Unprocessed,
       Dynamo!RequestFails, Dynamo!DynamoCrash, Dynamo!BatchDone, Dynamo!Answer
  <2> QED
    BY <2>1, <2>2
<1> QED
  BY <1>1, DynamoHere, WriteMoves

(* A write that ends has not begun with this step, nor is it left alone.   *)
LEMMA EndsMoves ==
  ASSUME NEW p \in Process, NEW op \in {"upsert", "init"}, Ends(p, op)
  PROVE  write[p] # Idle /\ write' # write /\ write'[p] # Stuck
BY DEF Ends, Idle, Stuck

(* With Redis a write ends with the answer of its last command; with an    *)
(* upsert the answer is what is stored then.                               *)
LEMMA RedisTruth ==
  ASSUME Before, NEW p \in Process, RedisActs(p), Ends(p, "upsert")
  PROVE  told'[p] = items'[write[p].key] /\ told'[p] >= write[p].version
<1>0. /\ DatabaseTyped /\ write[p].op = "upsert" /\ write[p].key \in Keys /\ write[p].version \in 1..MaxVersion
      /\ write[p] # Idle /\ write' # write /\ told'[p] # Failed
      /\ items \in [Keys -> Versions] /\ told \in [Process -> Silent..MaxVersion]
  BY AtFirstHere, WriteIs, EndsMoves DEF Ends, DatabaseTyped
<1>1. CASE Redis!ServeHGet(p)
  <2>1. Redis!NextCommand(p, "hget") /\ Redis!Compare(p, items[wire[p][1].key]) /\ items' = items
    BY <1>1 DEF Redis!ServeHGet, Redis!Serves
  <2>2. wire[p][1].key = write[p].key
    BY <2>1, HeadHere DEF CommandFits
  <2>3. items[write[p].key] >= write[p].version /\ Answer(p, items[write[p].key])
    BY <1>0, <2>1, <2>2, SameAnswer DEF Redis!Compare
  <2> QED
    BY <1>0, <2>1, <2>3 DEF Answer
<1>2. CASE Redis!ServeExec(p)
  <2>1. Redis!NextCommand(p, "exec")
    BY <1>2 DEF Redis!ServeExec, Redis!Serves
  <2>2. wire[p][1].key = write[p].key /\ wire[p][1].version = write[p].version
    BY <2>1, ExecSets
  <2>3. items' = [items EXCEPT ![write[p].key] = write[p].version] /\ Answer(p, write[p].version)
    BY <1>0, <1>2, <2>2, SameAnswer DEF Redis!ServeExec, Redis!Transact, Redis!Store, Redis!Retry
  <2>4. told'[p] = write[p].version /\ items'[write[p].key] = write[p].version
    BY <1>0, <2>3 DEF Answer
  <2> QED
    BY <1>0, <2>4
<1>3. ~Redis!ServeInit(p)
  BY <1>0, HeadHere DEF Redis!ServeInit, Redis!Serves, CommandFits
<1>4. ~Redis!GiveUp(p)
  <2>1. SUFFICES ASSUME Redis!GiveUp(p) PROVE FALSE
    OBVIOUS
  <2>2. ~Redis!NextCommand(p, "exec_init")
    BY <1>0, HeadHere DEF CommandFits
  <2>3. ~Redis!Answer(p, Redis!Failed)
    BY <1>0, SameAnswer DEF Answer, Failed, Redis!Failed
  <2>4. Redis!Compare(p, Redis!Absent) => write' = write
    <3>1. ~(Absent >= write[p].version)
      BY <1>0 DEF Absent
    <3> QED
      BY <3>1 DEF Redis!Compare, Absent, Redis!Absent
  <2> QED
    BY <1>0, <2>1, <2>2, <2>3, <2>4 DEF Redis!GiveUp
<1>5. ~Redis!RedisCrash(p)
  BY <1>0, SameAnswer DEF Redis!RedisCrash, Answer, Failed, Redis!Failed
<1> QED
  BY <1>0, <1>1, <1>2, <1>3, <1>4, <1>5, SameBegin
  DEF RedisActs, Redis!RedisUpsert, Redis!RedisInit, Begin, Redis!GetAll, Redis!Serve, Redis!ServeWatch,
      Redis!ServeHGetAll, Redis!Connect, Redis!Break, Redis!dbVars

(* With DynamoDB the get comes after the put.                              *)
LEMMA DynamoTruth ==
  ASSUME DynamoBefore, NEW p \in Process, DynamoActs(p), Ends(p, "upsert")
  PROVE  \/ write[p].key \in others'[p]
         \/ told'[p] = items'[write[p].key] /\ told'[p] >= write[p].version
<1>0. /\ DatabaseTyped /\ write[p].op = "upsert" /\ write[p].key \in Keys /\ write[p].version \in 1..MaxVersion
      /\ write[p] # Idle /\ write' # write /\ write'[p] # Stuck /\ told'[p] # Failed
      /\ told \in [Process -> Silent..MaxVersion] /\ write \in [Process -> {Idle, Stuck} \cup Writes]
  BY DynamoHere, WriteIs, EndsMoves DEF Ends, DatabaseTyped
<1>1. CASE Dynamo!ServeGet(p)
  <2>1. PICK r \in requests[p] : r.req = "get" /\ Answer(p, items[r.key]) /\ UNCHANGED <<items, others>>
    BY <1>1, SameAnswer DEF Dynamo!ServeGet
  <2>2. r.key = write[p].key /\ Dynamo!Get(write[p].key) \in requests[p]
    BY <2>1, UpsertAsks
  <2>3. write[p].key \in others[p] \/ items[write[p].key] >= write[p].version
    BY <1>0, <2>2, DynamoHere DEF DynamoAt, DynamoFits, PutDone
  <2>4. told'[p] = items[write[p].key]
    BY <1>0, <2>1, <2>2 DEF Answer
  <2> QED
    BY <2>1, <2>3, <2>4
<1>2. \A r : Dynamo!BatchDone(p, r) => write' = write
  BY <1>0 DEF Dynamo!BatchDone
<1>3. ~Dynamo!RequestFails(p)
  <2>1. ~Dynamo!Answer(p, Dynamo!Failed)
    BY <1>0, SameAnswer DEF Answer, Failed, Dynamo!Failed
  <2>2. write' # [write EXCEPT ![p] = Dynamo!Stuck]
    BY <1>0 DEF Stuck, Dynamo!Stuck
  <2> QED
    BY <2>1, <2>2 DEF Dynamo!RequestFails
<1>4. ~Dynamo!DynamoCrash(p)
  BY <1>0, SameAnswer DEF Dynamo!DynamoCrash, Answer, Failed, Dynamo!Failed
<1> QED
  BY <1>0, <1>1, <1>2, <1>3, <1>4, SameBegin
  DEF DynamoActs, Dynamo!DynamoUpsert, Dynamo!DynamoInit, Begin, Dynamo!DynamoServe, Dynamo!ServePut,
      Dynamo!ServePage, Dynamo!WriteBatches, Dynamo!ServeBatchRequest, Dynamo!Unprocessed, Dynamo!dbVars

(* The actor of a step in which a write of p ends is p.                    *)
LEMMA OwnEnd ==
  ASSUME Invariant, Next, NEW p \in Process, NEW op \in {"upsert", "init"}, Ends(p, op)
  PROVE  \/ backend = "redis" /\ Before /\ RedisActs(p)
         \/ backend = "dynamodb" /\ DynamoBefore /\ DynamoActs(p)
<1>1. PICK q \in Process :
        \/ backend = "redis" /\ RedisActs(q) /\ UNCHANGED dynamoVars
        \/ backend = "dynamodb" /\ DynamoActs(q) /\ UNCHANGED redisVars
  BY Steps
<1>2. backend = "redis" => Before
  BY DEF Invariant, Typed, Before
<1>3. backend = "dynamodb" => DynamoBefore
  BY DEF Invariant, Typed, DynamoBefore
<1>4. OwnWrite(q)
  BY <1>1, <1>2, <1>3, RedisOwnWrite, DynamoOwnWrite
<1>5. q = p
  BY <1>4, EndsMoves DEF OwnWrite, Ends
<1> QED
  BY <1>1, <1>2, <1>3, <1>5

(* The answer with which the wrapper fills its cache is what the database  *)
(* holds, unless another process has written the item meanwhile.           *)
THEOREM UpsertToldTheTruthEver == Spec => UpsertToldTheTruth
<1> DEFINE Truth == \A p \in Process : Ends(p, "upsert") =>
              LET k == write[p].key IN
              k \in others'[p] \/ (told'[p] = items'[k] /\ told'[p] >= write[p].version)
<1>1. Invariant /\ [Next]_vars => [Truth]_vars
  <2> SUFFICES ASSUME Invariant, Next, NEW p \in Process, Ends(p, "upsert")
               PROVE  \/ write[p].key \in others'[p]
                      \/ told'[p] = items'[write[p].key] /\ told'[p] >= write[p].version
    OBVIOUS
  <2> QED
    BY OwnEnd, RedisTruth, DynamoTruth
<1>2. UpsertToldTheTruth <=> [][Truth]_vars
  BY DEF UpsertToldTheTruth
<1> QED
  BY <1>1, <1>2, Invariance, PTL DEF Spec

(* What init of p promises of the new state; with DynamoDB, what there is   *)
(* no room for is absent.                                                  *)
HasInit(p, data) ==
  /\ spoiled'[p] = Keys \/ inited'
  /\ \A k \in Keys \ (others'[p] \cup spoiled'[p]) :
       items'[k] = IF backend = "dynamodb" /\ ~Dynamo!Fits(k, data[k]) THEN Absent ELSE data[k]

(* With Redis an init that ends has stored its data, was refused by a      *)
(* WATCH that was not its own, or has been given up.                       *)
LEMMA RedisInitStores ==
  ASSUME Before, NEW p \in Process, RedisActs(p), Ends(p, "init")
  PROVE  watch[p] = "changed" \/ HasInit(p, write[p].data)
<1>0. /\ DatabaseTyped /\ write[p].op = "init" /\ write[p] # Idle /\ write' # write /\ told'[p] # Failed
      /\ told \in [Process -> Silent..MaxVersion] /\ spoiled \in [Process -> SUBSET Keys] /\ backend = "redis"
  BY AtFirstHere, EndsMoves DEF Ends, DatabaseTyped, Before
<1>1. ~Redis!NextCommand(p, "hget") /\ ~Redis!NextCommand(p, "exec")
  BY <1>0, HeadHere DEF CommandFits
<1>2. CASE Redis!ServeInit(p)
  <2>1. Redis!NextCommand(p, "exec_init")
    BY <1>2 DEF Redis!ServeInit, Redis!Serves
  <2>2. wire[p][1].data = write[p].data
    BY <2>1, HeadHere DEF CommandFits
  <2>3. watch[p] = "changed" \/ (items' = write[p].data /\ inited' = TRUE)
    BY <1>2, <2>2 DEF Redis!ServeInit, Redis!Transact, Redis!Store
  <2> QED
    BY <1>0, <2>3 DEF HasInit
<1>3. CASE Redis!GiveUp(p)
  <2>1. Redis!Spoil(p, Keys)
    BY <1>0, <1>1, <1>3 DEF Redis!GiveUp
  <2>2. spoiled'[p] = Keys
    BY <1>0, <2>1 DEF Redis!Spoil
  <2> QED
    BY <2>2 DEF HasInit
<1>4. ~Redis!RedisCrash(p)
  BY <1>0, SameAnswer DEF Redis!RedisCrash, Answer, Failed, Redis!Failed
<1> QED
  BY <1>0, <1>1, <1>2, <1>3, <1>4, SameBegin
  DEF RedisActs, Redis!RedisUpsert, Redis!RedisInit, Begin, Redis!GetAll, Redis!Serve, Redis!ServeWatch,
      Redis!ServeHGet, Redis!ServeExec, Redis!Serves, Redis!ServeHGetAll, Redis!Connect, Redis!Break, Redis!dbVars

(* After the last operation of the batches nothing is left to be done.     *)
LEMMA NothingLeft ==
  ASSUME NEW p \in Process, write[p].op = "init", NEW r, requests[p] = {r}, GoesOn(p, r),
         backend = "dynamodb"
  PROVE  HasInit(p, write[p].data)
<1>1. BatchesGo(write[p], {}, others'[p], spoiled'[p], items', inited')
  <2>1. requests[p] \ {r} = {}
    OBVIOUS
  <2>2. BatchesGo(write[p], requests[p] \ {r}, others'[p], spoiled'[p], items', inited')
    BY DEF GoesOn
  <2> QED
    BY <2>1, <2>2
<1>2. \A k \in Keys : k \notin others'[p] /\ k \notin spoiled'[p] => items'[k] = Meant(write[p].data, k)
  BY <1>1 DEF BatchesGo, Pending
<1>3. inited' \/ spoiled'[p] = Keys
  BY <1>1 DEF BatchesGo
<1> QED
  BY <1>2, <1>3 DEF HasInit, Meant

(* With DynamoDB an init ends with the last operation of its batches.      *)
LEMMA DynamoInitStores ==
  ASSUME DynamoBefore, NEW p \in Process, DynamoActs(p), Ends(p, "init")
  PROVE  HasInit(p, write[p].data)
<1>0. /\ DatabaseTyped /\ write[p].op = "init" /\ write[p] # Idle /\ write' # write /\ write'[p] # Stuck
      /\ told'[p] # Failed /\ backend = "dynamodb"
      /\ told \in [Process -> Silent..MaxVersion] /\ write \in [Process -> {Idle, Stuck} \cup Writes]
  BY DynamoHere, EndsMoves DEF Ends, DatabaseTyped, DynamoBefore
<1>1. \A r : Dynamo!BatchDone(p, r) => requests[p] = {r}
  BY <1>0 DEF Dynamo!BatchDone
<1>2. CASE Dynamo!ServeBatchRequest(p)
  <2>1. PICK r \in requests[p] : ServesRequest(p, r)
    BY <1>2 DEF Dynamo!ServeBatchRequest, ServesRequest, Dynamo!BatchRequests, Absent, Dynamo!Absent
  <2>2. HasServed(p, r)
    BY <2>1, RequestStores
  <2>3. GoesOn(p, r) /\ requests[p] = {r}
    BY <1>1, <2>1, <2>2 DEF HasServed, ServesRequest
  <2> QED
    BY <1>0, <2>3, NothingLeft
<1>3. CASE Dynamo!Unprocessed(p)
  <2>1. PICK r \in requests[p] : LosesRequest(p, r)
    BY <1>3 DEF Dynamo!Unprocessed, Dynamo!Spoil, LosesRequest
  <2>2. HasLost(p, r)
    BY <2>1, RequestSpoils
  <2>3. GoesOn(p, r) /\ requests[p] = {r}
    BY <1>1, <2>1, <2>2 DEF HasLost, LosesRequest
  <2> QED
    BY <1>0, <2>3, NothingLeft
<1>4. ~Dynamo!ServeGet(p)
  BY <1>0, UpsertAsks DEF Dynamo!ServeGet
<1>5. ~Dynamo!RequestFails(p)
  <2>1. ~Dynamo!Answer(p, Dynamo!Failed)
    BY <1>0, SameAnswer DEF Answer, Failed, Dynamo!Failed
  <2>2. write' # [write EXCEPT ![p] = Dynamo!Stuck]
    BY <1>0 DEF Stuck, Dynamo!Stuck
  <2> QED
    BY <2>1, <2>2 DEF Dynamo!RequestFails
<1>6. ~Dynamo!DynamoCrash(p)
  BY <1>0, SameAnswer DEF Dynamo!DynamoCrash, Answer, Failed, Dynamo!Failed
<1> QED
  BY <1>0, <1>2, <1>3, <1>4, <1>5, <1>6, SameBegin
  DEF DynamoActs, Dynamo!DynamoUpsert, Dynamo!DynamoInit, Begin, Dynamo!DynamoServe, Dynamo!ServePut,
      Dynamo!ServePage, Dynamo!WriteBatches, Dynamo!dbVars

(* When init calls back, what it was given is stored, and the token with   *)
(* it, but for the exceptions that the property names: whatever order the  *)
(* database takes the operations of the batches in, and whatever other     *)
(* processes do between them.                                              *)
THEOREM InitStoresTheDataEver == Spec => InitStoresTheData
<1> DEFINE Stores == \A p \in Process : Ends(p, "init") =>
       \/ backend = "redis" /\ watch[p] = "changed"
       \/ /\ spoiled'[p] = Keys \/ inited'
          /\ \A k \in Keys \ (others'[p] \cup spoiled'[p]) :
               items'[k] = IF backend = "dynamodb" /\ ~Dynamo!Fits(k, write[p].data[k])
                           THEN Dynamo!Absent ELSE write[p].data[k]
<1>1. Invariant /\ [Next]_vars => [Stores]_vars
  <2> SUFFICES ASSUME Invariant, Next, NEW p \in Process, Ends(p, "init")
               PROVE  (backend = "redis" /\ watch[p] = "changed") \/ HasInit(p, write[p].data)
    BY DEF HasInit, Absent, Dynamo!Absent
  <2> QED
    BY OwnEnd, RedisInitStores, DynamoInitStores
<1>2. InitStoresTheData <=> [][Stores]_vars
  BY DEF InitStoresTheData, Absent, Dynamo!Absent
<1> QED
  BY <1>1, <1>2, Invariance, PTL DEF Spec
=============================================================================
