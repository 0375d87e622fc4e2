------------------------ MODULE EventProcessorProofs ------------------------
(***************************************************************************)
(* Theorems about EventProcessor, for any capacity and caches.  They share *)
(* one inductive invariant, and one argument: every step moves what is in  *)
(* the queue and the batches without changing its order, and gives new     *)
(* events places behind all others.                                        *)
(***************************************************************************)
EXTENDS EventProcessor, SequenceTheorems, FiniteSetTheorems, TLAPS

(* Linking two slots of the deduplicator keeps its types and its map.      *)
LEMMA LinkTyped ==
  ASSUME NEW c \in Cache!Caches, NEW p \in Cache!Slot, NEW n \in Cache!Slot
  PROVE  Cache!Link(c, p, n) \in Cache!Caches /\ Cache!Link(c, p, n).keyMap = c.keyMap
BY DEF Cache!Link, Cache!Caches, Cache!Slot

(* A new tail keeps the types of the cache and its map.                    *)
LEMMA SetTailTyped ==
  ASSUME NEW c \in Cache!Caches, NEW i \in Cache!Slot
  PROVE  Cache!SetTail(c, i) \in Cache!Caches /\ Cache!SetTail(c, i).keyMap = c.keyMap
<1>1. CASE i = c.tail
  BY <1>1 DEF Cache!SetTail
<1>2. CASE i # c.tail
  <2>1. c.next[i] \in Cache!Slot /\ c.prev[i] \in Cache!Slot /\ c.tail \in Cache!Slot
    BY DEF Cache!Caches
  <2>2. [c EXCEPT !.head = c.next[i]] \in Cache!Caches /\ [c EXCEPT !.head = c.next[i]].keyMap = c.keyMap
    BY <2>1 DEF Cache!Caches
  <2>3. Cache!Link(c, c.prev[i], c.next[i]) \in Cache!Caches
        /\ Cache!Link(c, c.prev[i], c.next[i]).keyMap = c.keyMap
    BY <2>1, LinkTyped
  <2> DEFINE out == IF i = c.head THEN [c EXCEPT !.head = c.next[i]]
                    ELSE Cache!Link(c, c.prev[i], c.next[i])
  <2>4. out \in Cache!Caches /\ out.keyMap = c.keyMap
    BY <2>2, <2>3
  <2> HIDE DEF out
  <2>5. Cache!Link(out, c.tail, i) \in Cache!Caches /\ Cache!Link(out, c.tail, i).keyMap = c.keyMap
    BY <2>1, <2>4, LinkTyped
  <2>6. [Cache!Link(out, c.tail, i) EXCEPT !.tail = i] \in Cache!Caches
        /\ [Cache!Link(out, c.tail, i) EXCEPT !.tail = i].keyMap = c.keyMap
    BY <2>5 DEF Cache!Caches
  <2> QED
    BY <1>2, <2>6 DEF Cache!SetTail, out
<1> QED
  BY <1>1, <1>2

(* Eviction makes the cache smaller, and forgets a context at most.        *)
LEMMA EvictTyped ==
  ASSUME NEW c \in Cache!Caches, c.size > 0
  PROVE  /\ Cache!Evict(c) \in Cache!Caches /\ Cache!Evict(c).size = c.size - 1
         /\ \A k \in Context : Cache!Evict(c).keyMap[k] \in {c.keyMap[k], Nothing}
<1>1. c.next[c.head] \in Cache!Slot /\ c.size - 1 \in 0..ContextKeysCapacity /\ c.keyMap \in [Context -> Cache!Slot \cup {Nothing}]
  BY ProcessorAssumption DEF Cache!Caches
<1> DEFINE map == [k \in Context |-> IF k = c.keys[c.head] THEN Nothing ELSE c.keyMap[k]]
<1>2. map \in [Context -> Cache!Slot \cup {Nothing}] /\ \A k \in Context : map[k] \in {c.keyMap[k], Nothing}
  BY <1>1
<1> HIDE DEF map
<1>3. Cache!Evict(c) = [c EXCEPT !.head = c.next[c.head], !.size = @ - 1, !.keyMap = map]
  BY DEF Cache!Evict, map
<1> QED
  BY <1>1, <1>2, <1>3 DEF Cache!Caches

(* The fields of a cache, one by one.                                      *)
LEMMA CacheFields ==
  ASSUME NEW c \in Cache!Caches
  PROVE  /\ c.values \in [Cache!Slot -> {TRUE} \cup {Nothing}] /\ c.keys \in [Cache!Slot -> Context \cup {Nothing}]
         /\ c.lastUpdated \in [Cache!Slot -> Nat] /\ c.next \in [Cache!Slot -> Cache!Slot]
         /\ c.prev \in [Cache!Slot -> Cache!Slot] /\ c.keyMap \in [Context -> Cache!Slot \cup {Nothing}]
         /\ c.head \in Cache!Slot /\ c.tail \in Cache!Slot /\ c.size \in 0..ContextKeysCapacity
BY DEF Cache!Caches

(* An insertion makes its context known; others are known as before or     *)
(* forgotten.                                                              *)
LEMMA InsertTyped ==
  ASSUME NEW c \in Cache!Caches, NEW k \in Context
  PROVE  /\ Cache!Insert(c, k) \in Cache!Caches
         /\ Cache!Insert(c, k).keyMap[k] \in Cache!Slot
         /\ \A d \in Context \ {k} : Cache!Insert(c, k).keyMap[d] \in {c.keyMap[d], Nothing}
<1> DEFINE full == c.size = ContextKeysCapacity
           i == IF c.size = 0 THEN c.tail ELSE IF full THEN c.head ELSE c.size
           e == IF full THEN Cache!Evict(c) ELSE c
<1>0. c.size \in 0..ContextKeysCapacity /\ ContextKeysCapacity \in Nat \ {0}
      /\ c.tail \in Cache!Slot /\ c.head \in Cache!Slot
  BY CacheFields, ProcessorAssumption
<1>1. i \in Cache!Slot
  BY <1>0 DEF Cache!Slot
<1>2. e \in Cache!Caches /\ e.size + 1 \in 0..ContextKeysCapacity
      /\ \A d \in Context : e.keyMap[d] \in {c.keyMap[d], Nothing}
  <2>1. ASSUME full PROVE <1>2
    <3>1. c.size > 0 /\ e = Cache!Evict(c)
      BY <2>1, <1>0
    <3> HIDE DEF full, e
    <3> QED
      BY <3>1, <1>0, EvictTyped
  <2>2. ASSUME ~full PROVE <1>2
    BY <2>2, <1>0
  <2> QED
    BY <2>1, <2>2
<1>3. Cache!Insert(c, k) = [e EXCEPT !.keys[i] = k, !.keyMap[k] = i, !.next[e.tail] = i, !.prev[i] = e.tail,
                                     !.tail = i, !.size = @ + 1]
  BY DEF Cache!Insert
<1> HIDE DEF full, i, e
<1>4. /\ [e.keys EXCEPT ![i] = k] \in [Cache!Slot -> Context \cup {Nothing}]
      /\ [e.keyMap EXCEPT ![k] = i] \in [Context -> Cache!Slot \cup {Nothing}]
      /\ [e.next EXCEPT ![e.tail] = i] \in [Cache!Slot -> Cache!Slot]
      /\ [e.prev EXCEPT ![i] = e.tail] \in [Cache!Slot -> Cache!Slot]
  BY <1>1, <1>2, CacheFields
<1>5. Cache!Insert(c, k) = [e EXCEPT !.keys = [e.keys EXCEPT ![i] = k], !.keyMap = [e.keyMap EXCEPT ![k] = i],
                                     !.next = [e.next EXCEPT ![e.tail] = i], !.prev = [e.prev EXCEPT ![i] = e.tail],
                                     !.tail = i, !.size = e.size + 1]
  BY <1>2, <1>3 DEF Cache!Caches
<1>6. Cache!Insert(c, k) \in Cache!Caches
  <2>1. ASSUME NEW ks \in [Cache!Slot -> Context \cup {Nothing}], NEW km \in [Context -> Cache!Slot \cup {Nothing}],
               NEW nx \in [Cache!Slot -> Cache!Slot], NEW pv \in [Cache!Slot -> Cache!Slot], NEW t \in Cache!Slot,
               NEW n \in 0..ContextKeysCapacity
        PROVE  [e EXCEPT !.keys = ks, !.keyMap = km, !.next = nx, !.prev = pv, !.tail = t, !.size = n] \in Cache!Caches
    BY <1>2 DEF Cache!Caches
  <2>2. [e EXCEPT !.keys = [e.keys EXCEPT ![i] = k], !.keyMap = [e.keyMap EXCEPT ![k] = i],
                  !.next = [e.next EXCEPT ![e.tail] = i], !.prev = [e.prev EXCEPT ![i] = e.tail],
                  !.tail = i, !.size = e.size + 1] \in Cache!Caches
    BY <1>1, <1>2, <1>4, <2>1, Zenon
  <2> QED
    BY <1>5, <2>2
<1>7. Cache!Insert(c, k).keyMap = [e.keyMap EXCEPT ![k] = i]
  BY <1>2, <1>5 DEF Cache!Caches
<1> QED
  BY <1>1, <1>2, <1>6, <1>7, CacheFields

(* What is put into the cache makes no other context known.                *)
LEMMA PutTyped ==
  ASSUME NEW c \in Cache!Caches, NEW k \in Context
  PROVE  /\ Cache!Put(c, k, TRUE, 0) \in Cache!Caches
         /\ \A d \in Context \ {k} : Cache!Put(c, k, TRUE, 0).keyMap[d] \in {c.keyMap[d], Nothing}
<1> DEFINE p == IF c.keyMap[k] = Nothing THEN Cache!Insert(c, k) ELSE Cache!SetTail(c, c.keyMap[k])
<1>1. /\ p \in Cache!Caches /\ p.keyMap[k] \in Cache!Slot
      /\ \A d \in Context \ {k} : p.keyMap[d] \in {c.keyMap[d], Nothing}
  <2>1. ASSUME c.keyMap[k] = Nothing PROVE <1>1
    BY <2>1, InsertTyped
  <2>2. ASSUME c.keyMap[k] # Nothing PROVE <1>1
    <3>1. c.keyMap[k] \in Cache!Slot
      BY <2>2, CacheFields
    <3> QED
      BY <2>2, <3>1, SetTailTyped
  <2> QED
    BY <2>1, <2>2
<1>2. Cache!Put(c, k, TRUE, 0) = [p EXCEPT !.values[p.keyMap[k]] = TRUE,
                                           !.lastUpdated[p.keyMap[k]] = IF 0 > 0 THEN 0 ELSE @]
  BY DEF Cache!Put
<1> HIDE DEF p
<1> DEFINE vs == [p.values EXCEPT ![p.keyMap[k]] = TRUE]
           lu == [p.lastUpdated EXCEPT ![p.keyMap[k]] = IF 0 > 0 THEN 0 ELSE @]
<1>3. vs \in [Cache!Slot -> {TRUE} \cup {Nothing}] /\ lu \in [Cache!Slot -> Nat]
  BY <1>1, CacheFields
<1>4. Cache!Put(c, k, TRUE, 0) = [p EXCEPT !.values = vs, !.lastUpdated = lu]
  BY <1>1, <1>2 DEF Cache!Caches
<1> HIDE DEF vs, lu
<1>5. Cache!Put(c, k, TRUE, 0) \in Cache!Caches /\ Cache!Put(c, k, TRUE, 0).keyMap = p.keyMap
  BY <1>1, <1>3, <1>4 DEF Cache!Caches
<1> QED
  BY <1>1, <1>5

(* A read of the cache changes no context that is known.                   *)
LEMMA GotTyped ==
  ASSUME NEW c \in Cache!Caches, NEW k \in Context
  PROVE  Cache!Got(c, k, 0) \in Cache!Caches /\ Cache!Got(c, k, 0).keyMap = c.keyMap
<1>1. CASE ~Cache!IsFound(c, k, 0)
  BY <1>1 DEF Cache!Got
<1>2. CASE Cache!IsFound(c, k, 0)
  <2>1. c.keyMap[k] \in Cache!Slot
    BY <1>2, CacheFields DEF Cache!IsFound
  <2> DEFINE t == Cache!SetTail(c, c.keyMap[k])
  <2>2. t \in Cache!Caches /\ t.keyMap = c.keyMap
    BY <2>1, SetTailTyped
  <2>3. Cache!Got(c, k, 0) = [t EXCEPT !.lastUpdated[c.keyMap[k]] = IF 0 > 0 THEN 0 ELSE @]
    BY <1>2 DEF Cache!Got
  <2> HIDE DEF t
  <2>4. [t.lastUpdated EXCEPT ![c.keyMap[k]] = IF 0 > 0 THEN 0 ELSE @] \in [Cache!Slot -> Nat]
    BY <2>1, <2>2, CacheFields
  <2>5. ASSUME NEW lu \in [Cache!Slot -> Nat]
        PROVE  [t EXCEPT !.lastUpdated = lu] \in Cache!Caches /\ [t EXCEPT !.lastUpdated = lu].keyMap = t.keyMap
    BY <2>2 DEF Cache!Caches
  <2>6. Cache!Got(c, k, 0) = [t EXCEPT !.lastUpdated = [t.lastUpdated EXCEPT ![c.keyMap[k]] = IF 0 > 0 THEN 0 ELSE @]]
    BY <2>2, <2>3 DEF Cache!Caches
  <2> QED
    BY <2>2, <2>4, <2>5, <2>6
<1> QED
  BY <1>1, <1>2

(* clear leaves the map of the known contexts as it is, as the code does.  *)
LEMMA ClearTyped ==
  ASSUME NEW c \in Cache!Caches
  PROVE  Cache!Clear(c) \in Cache!Caches /\ Cache!Clear(c).keyMap = c.keyMap
<1>1. Cache!NewCache \in Cache!Caches
  BY ProcessorAssumption DEF Cache!NewCache, Cache!Caches, Cache!Fill, Cache!Slot
<1> QED
  BY <1>1 DEF Cache!Clear, Cache!Caches

(* What the event processor needs of its cache.                            *)
LEMMA KnownAfter ==
  ASSUME NEW c \in Cache!Caches, NEW k \in Context
  PROVE  /\ Cache!Put(Cache!Got(c, k, 0), k, TRUE, 0) \in Cache!Caches
         /\ \A d \in Context \ {k} :
              Cache!Put(Cache!Got(c, k, 0), k, TRUE, 0).keyMap[d] \in {c.keyMap[d], Nothing}
BY GotTyped, PutTyped
-----------------------------------------------------------------------------
(* What sendEvent makes of an input: three outputs at most, in the order   *)
(* index, event, debug.                                                    *)
LEMMA OutputsShape ==
  ASSUME NEW e \in Input, NEW n \in Id
  PROVE  /\ Outputs(e, n) \in Seq(Output) /\ Len(Outputs(e, n)) \in 0..3
         /\ \A k \in DOMAIN Outputs(e, n) :
              /\ Outputs(e, n)[k].from = {n} /\ Outputs(e, n)[k].kind # "summary"
              /\ Outputs(e, n)[k].kind \in {"custom", "feature"} => e.kind # "identify"
         /\ \A j, k \in DOMAIN Outputs(e, n) :
              j < k => Rank[Outputs(e, n)[j].kind] < Rank[Outputs(e, n)[k].kind]
         /\ ~IsKnown(e.context) /\ e.kind # "identify" =>
              Len(Outputs(e, n)) > 0 /\ Outputs(e, n)[1].kind = "index"
         /\ (e.kind = "feature" => e.trackEvents) =>
              \E k \in DOMAIN Outputs(e, n) : Outputs(e, n)[k] = MakeOutputEvent(e.kind, n)
         /\ e.kind = "feature" /\ e.debug =>
              \E k \in DOMAIN Outputs(e, n) : Outputs(e, n)[k] = MakeOutputEvent("debug", n)
<1> DEFINE index == ~IsKnown(e.context) /\ e.kind # "identify"
           full == e.kind = "feature" => e.trackEvents
           debug == e.kind = "feature" /\ e.debug
           x == MakeOutputEvent("index", n)
           y == MakeOutputEvent(e.kind, n)
           z == MakeOutputEvent("debug", n)
           outs == Outputs(e, n)
<1>1. e.kind \in {"feature", "custom", "identify"}
  BY ProcessorAssumption DEF Inputs
<1>2. /\ x \in Output /\ x.from = {n} /\ x.kind = "index" /\ Rank[x.kind] = 1
      /\ y \in Output /\ y.from = {n} /\ y.kind = e.kind /\ y.kind # "summary" /\ Rank[y.kind] = 2
      /\ z \in Output /\ z.from = {n} /\ z.kind = "debug" /\ Rank[z.kind] = 3
  BY <1>1 DEF MakeOutputEvent, Output, Id, Rank
<1>3. outs = (IF index THEN <<x>> ELSE <<>>) \o (IF full THEN <<y>> ELSE <<>>) \o (IF debug THEN <<z>> ELSE <<>>)
  BY DEF Outputs
<1> HIDE DEF x, y, z
<1> DEFINE s == IF index THEN <<x>> ELSE <<>>
           t == s \o (IF full THEN <<y>> ELSE <<>>)
<1>4. ASSUME NEW u \in Seq(Output), NEW v \in Output
      PROVE  /\ u \o <<>> = u /\ u \o <<v>> \in Seq(Output) /\ Len(u \o <<v>>) = Len(u) + 1
             /\ \A k \in 1..Len(u) : (u \o <<v>>)[k] = u[k]
             /\ (u \o <<v>>)[Len(u) + 1] = v
  OBVIOUS
<1>5. /\ s \in Seq(Output) /\ Len(s) = IF index THEN 1 ELSE 0
      /\ index => s[1] = x
  BY <1>2
<1> HIDE DEF index, full, debug, s
<1>6. /\ t \in Seq(Output) /\ Len(t) = IF full THEN Len(s) + 1 ELSE Len(s)
      /\ \A k \in 1..Len(s) : t[k] = s[k]
      /\ full => t[Len(s) + 1] = y
  <2>1. ASSUME full PROVE <1>6
    <3>1. t = s \o <<y>>
      BY <2>1
    <3> HIDE DEF t
    <3> QED
      BY <1>2, <1>4, <1>5, <2>1, <3>1
  <2>2. ASSUME ~full PROVE <1>6
    <3>1. t = s
      BY <1>2, <1>4, <1>5, <2>2
    <3> HIDE DEF t
    <3> QED
      BY <1>5, <2>2, <3>1
  <2> QED
    BY <2>1, <2>2
<1>7. /\ outs \in Seq(Output) /\ Len(outs) = IF debug THEN Len(t) + 1 ELSE Len(t)
      /\ \A k \in 1..Len(t) : outs[k] = t[k]
      /\ debug => outs[Len(t) + 1] = z
  <2>0. outs = t \o (IF debug THEN <<z>> ELSE <<>>)
    BY <1>3 DEF s
  <2> HIDE DEF t, outs
  <2>1. ASSUME debug PROVE <1>7
    <3>1. outs = t \o <<z>>
      BY <2>0, <2>1
    <3> QED
      BY <1>2, <1>4, <1>6, <2>1, <3>1
  <2>2. ASSUME ~debug PROVE <1>7
    <3>1. outs = t
      BY <1>2, <1>4, <1>6, <2>0, <2>2
    <3> QED
      BY <1>6, <2>2, <3>1
  <2> QED
    BY <2>1, <2>2
<1> HIDE DEF t, outs
<1>8. /\ outs \in Seq(Output) /\ Len(outs) \in 0..3
      /\ \A k \in DOMAIN outs : outs[k] \in {x, y, z}
      /\ \A j, k \in DOMAIN outs :
            j < k => (outs[j] = x /\ outs[k] \in {y, z}) \/ (outs[j] = y /\ outs[k] = z)
      /\ index => Len(outs) > 0 /\ outs[1] = x
      /\ full => \E k \in DOMAIN outs : outs[k] = y
      /\ debug => \E k \in DOMAIN outs : outs[k] = z
  <2>1. CASE index /\ full
    BY <2>1, <1>5, <1>6, <1>7
  <2>2. CASE index /\ ~full
    BY <2>2, <1>5, <1>6, <1>7
  <2>3. CASE ~index /\ full
    BY <2>3, <1>5, <1>6, <1>7
  <2>4. CASE ~index /\ ~full
    BY <2>4, <1>5, <1>6, <1>7
  <2> QED
    BY <2>1, <2>2, <2>3, <2>4
<1>9. \A k \in DOMAIN outs : /\ outs[k].from = {n} /\ outs[k].kind # "summary"
                             /\ outs[k].kind \in {"custom", "feature"} => e.kind # "identify"
  BY <1>2, <1>8
<1>10. \A j, k \in DOMAIN outs : j < k => Rank[outs[j].kind] < Rank[outs[k].kind]
  BY <1>2, <1>8
<1>11. index => Len(outs) > 0 /\ outs[1].kind = "index"
  BY <1>2, <1>8
<1> QED
  BY <1>8, <1>9, <1>10, <1>11 DEF outs, index, full, debug, y, z
-----------------------------------------------------------------------------
(* The inductive invariant.                                                *)
Typed == TypeOK /\ IsFiniteSet(dropped)

Delivery ==
  \A n \in DOMAIN posts :
    /\ posts[n].payloadId = IF n \in Batches THEN n ELSE Sender!NoId
    /\ posts[n].received \subseteq {posts[n].payloadId}

RefusalRemembered == \A n \in Batches : posts[n].stage = "FailedAndMustShutDown" => shutdown

SourceOf(o) == {i \in DOMAIN inputs : o.from = {i}}

Sourced ==
  /\ \A p \in Places :
       IF At(p).kind = "summary" THEN At(p).from \subseteq DOMAIN inputs ELSE SourceOf(At(p)) # {}
  /\ \A d \in dropped : d.output.kind # "summary" /\ SourceOf(d.output) # {}

Told(c) == (\E p \in Places : Tells(At(p), c)) \/ (\E d \in dropped : Tells(d.output, c))

KnownIsTold == \A c \in Context : known.keyMap[c] # Nothing => Told(c)

Invariant ==
  /\ Typed /\ Delivery /\ RefusalRemembered
  /\ Sourced /\ InOrder /\ KnownIsTold /\ IndexedBeforeUse
  /\ EventsKept /\ EvaluationsCounted /\ DropsCounted

-----------------------------------------------------------------------------
(* Places and their order.                                                 *)
PlacesTyped ==
  /\ \A n \in Batches \cup {InQueue} : Line(n) \in Seq(Output)
  /\ InQueue \notin Batches /\ Batches \subseteq DOMAIN posts
  /\ \A p \in Places : /\ p[1] \in Batches \cup {InQueue} /\ p[2] \in 1..Len(Line(p[1])) /\ p = <<p[1], p[2]>>
                      /\ At(p) \in Output /\ p \in Nat \X Nat
  /\ \A n \in Batches \cup {InQueue} : \A k \in 1..Len(Line(n)) : <<n, k>> \in Places

(* Every place, in the queue or in a batch, holds an output.               *)
LEMMA PlacesShape == TypeOK => PlacesTyped
<1> SUFFICES ASSUME TypeOK PROVE PlacesTyped
  OBVIOUS
<1>1. \A n \in Batches \cup {InQueue} : Line(n) \in Seq(Output)
  BY DEF TypeOK, Line, Batches
<1>2. InQueue \notin Batches /\ Batches \subseteq DOMAIN posts /\ Batches \cup {InQueue} \subseteq Nat
  BY DEF TypeOK, InQueue, Batches
<1>3. \A p \in Places : p[1] \in Batches \cup {InQueue} /\ p[2] \in 1..Len(Line(p[1])) /\ p = <<p[1], p[2]>>
  BY <1>1 DEF Places
<1>4. \A p \in Places : At(p) \in Output /\ p \in Nat \X Nat
  BY <1>1, <1>2, <1>3 DEF At
<1>5. \A n \in Batches \cup {InQueue} : \A k \in 1..Len(Line(n)) : <<n, k>> \in Places
  BY <1>1 DEF Places
<1> QED
  BY <1>1, <1>2, <1>3, <1>4, <1>5 DEF PlacesTyped

(* And so it is after a step.                                              *)
LEMMA PlacesShapeNext == TypeOK' => PlacesTyped'
BY PlacesShape, PTL

(* Earlier orders the places.                                              *)
LEMMA EarlierOrders ==
  ASSUME NEW p \in Nat \X Nat, NEW q \in Nat \X Nat
  PROVE  /\ ~Earlier(p, p)
         /\ ~(Earlier(p, q) /\ Earlier(q, p))
         /\ p = q \/ Earlier(p, q) \/ Earlier(q, p)
<1>1. /\ p[1] \in Nat /\ p[2] \in Nat /\ p = <<p[1], p[2]>>
      /\ q[1] \in Nat /\ q[2] \in Nat /\ q = <<q[1], q[2]>>
  OBVIOUS
<1> QED
  BY <1>1 DEF Earlier, InQueue

(* What a step does to the stream: m says where the output at a place goes *)
(* and a where the new ones come to be, all of them after those there were.*)
Grown(new, m, a) ==
  /\ m \in [Places -> Places'] /\ a \in [DOMAIN new -> Places']
  /\ \A q \in Places' : (\E p \in Places : q = m[p]) \/ (\E k \in DOMAIN new : q = a[k])
  /\ \A q \in Places' : /\ \A p \in Places : q = m[p] => At(q)' = At(p)
                       /\ \A k \in DOMAIN new : q = a[k] => At(q)' = new[k]
  /\ \A p, q \in Places : Earlier(p, q) => Earlier(m[p], m[q])
  /\ \A p \in Places, k \in DOMAIN new : Earlier(m[p], a[k])
  /\ \A j, k \in DOMAIN new : j < k => Earlier(a[j], a[k])

(* When the places grow, old outputs keep their order and new ones come    *)
(* after them.                                                             *)
LEMMA GrownOrder ==
  ASSUME TypeOK, TypeOK', NEW new \in Seq(Output), NEW m, NEW a, Grown(new, m, a)
  PROVE  /\ \A p, q \in Places : m[p] = m[q] => p = q
         /\ \A p, q \in Places : Earlier(m[p], m[q]) => Earlier(p, q)
         /\ \A p \in Places, k \in DOMAIN new : m[p] # a[k] /\ ~Earlier(a[k], m[p])
         /\ \A j, k \in DOMAIN new : a[j] = a[k] => j = k
         /\ \A j, k \in DOMAIN new : Earlier(a[j], a[k]) => j < k
<1>1. \A p \in Places : p \in Nat \X Nat
  BY PlacesShape DEF PlacesTyped
<1>2. \A q \in Places' : q \in Nat \X Nat
  BY PlacesShapeNext DEF PlacesTyped
<1>3. /\ \A p \in Places : m[p] \in Nat \X Nat
      /\ \A k \in DOMAIN new : a[k] \in Nat \X Nat
  BY <1>2 DEF Grown
<1>4. /\ \A p, q \in Places : Earlier(p, q) => Earlier(m[p], m[q])
      /\ \A p \in Places, k \in DOMAIN new : Earlier(m[p], a[k])
      /\ \A j, k \in DOMAIN new : j < k => Earlier(a[j], a[k])
  BY DEF Grown
<1>5. \A j \in DOMAIN new : j \in Nat
  OBVIOUS
<1>6. ASSUME NEW p \in Places, NEW q \in Places
      PROVE  (m[p] = m[q] => p = q) /\ (Earlier(m[p], m[q]) => Earlier(p, q))
  BY <1>1, <1>3, <1>4, EarlierOrders
<1>7. ASSUME NEW p \in Places, NEW k \in DOMAIN new
      PROVE  m[p] # a[k] /\ ~Earlier(a[k], m[p])
  BY <1>3, <1>4, EarlierOrders
<1>8. ASSUME NEW j \in DOMAIN new, NEW k \in DOMAIN new
      PROVE  (a[j] = a[k] => j = k) /\ (Earlier(a[j], a[k]) => j < k)
  <2>1. j = k \/ j < k \/ k < j
    BY <1>5
  <2> QED
    BY <2>1, <1>3, <1>4, EarlierOrders
<1> QED
  BY <1>6, <1>7, <1>8

-----------------------------------------------------------------------------
(* The steps, as changes of the stream.                                    *)
Same == [p \in Places |-> p]

Moved == [p \in Places |-> IF p[1] = InQueue THEN <<Len(posts) + 1, p[2]>> ELSE p]

(* A step that touches neither queue nor batches moves no output.          *)
LEMMA UnmovedGrows ==
  ASSUME Batches' = Batches, queue' = queue, \A n \in Batches : posts'[n].data = posts[n].data
  PROVE  Grown(<<>>, Same, <<>>)
<1>1. \A n \in Batches \cup {InQueue} : Line(n)' = Line(n)
  BY DEF Line
<1>2. Places' = Places
  BY <1>1 DEF Places
<1>3. \A p \in Places : At(p)' = At(p)
  BY <1>1 DEF At, Places
<1> QED
  BY <1>2, <1>3 DEF Grown, Same

(* Of the outputs of an input the first fit into the queue and the others  *)
(* are dropped.                                                            *)
LEMMA EnqueueSplits ==
  ASSUME TypeOK, NEW outputs \in Seq(Output), Enqueue(outputs)
  PROVE  \E taken \in 0..Len(outputs) :
           /\ SubSeq(outputs, 1, taken) \in Seq(Output) /\ Len(SubSeq(outputs, 1, taken)) = taken
           /\ \A k \in 1..taken : SubSeq(outputs, 1, taken)[k] = outputs[k]
           /\ queue' = queue \o SubSeq(outputs, 1, taken) /\ Len(queue) + taken <= Capacity
           /\ dropped' = dropped \cup {[output |-> outputs[k], report |-> Uncounted] : k \in taken + 1..Len(outputs)}
           /\ droppedEvents' = droppedEvents + Len(outputs) - taken
<1> DEFINE room == Capacity - Len(queue)
           taken == IF Len(outputs) <= room THEN Len(outputs) ELSE room
<1>1. Len(outputs) \in Nat /\ room \in Nat
  BY ProcessorAssumption DEF TypeOK
<1>2. taken \in 0..Len(outputs) /\ Len(queue) + taken <= Capacity
  BY <1>1, ProcessorAssumption DEF TypeOK
<1>3. /\ queue' = queue \o SubSeq(outputs, 1, taken)
      /\ dropped' = dropped \cup {[output |-> outputs[k], report |-> Uncounted] : k \in taken + 1..Len(outputs)}
      /\ droppedEvents' = droppedEvents + Len(outputs) - taken
  BY DEF Enqueue
<1> HIDE DEF taken
<1>4. /\ SubSeq(outputs, 1, taken) \in Seq(Output) /\ Len(SubSeq(outputs, 1, taken)) = taken
      /\ \A k \in 1..taken : SubSeq(outputs, 1, taken)[k] = outputs[k]
  BY <1>2
<1> QED
  BY <1>2, <1>3, <1>4

(* What is put into the queue comes after what is there.                   *)
LEMMA QueuedGrows ==
  ASSUME TypeOK, NEW new \in Seq(Output), queue' = queue \o new, posts' = posts
  PROVE  Grown(new, Same, [k \in DOMAIN new |-> <<InQueue, Len(queue) + k>>])
<1> DEFINE a == [k \in DOMAIN new |-> <<InQueue, Len(queue) + k>>]
<1>1. /\ Batches' = Batches
      /\ \A n \in Batches : Line(n)' = Line(n)
      /\ Line(InQueue)' = Line(InQueue) \o new /\ Line(InQueue) = queue
  BY PlacesShape DEF Line, Batches, PlacesTyped
<1>2. /\ queue \in Seq(Output) /\ Len(queue \o new) = Len(queue) + Len(new)
      /\ \A k \in 1..Len(queue) : (queue \o new)[k] = queue[k]
      /\ \A k \in 1..Len(new) : (queue \o new)[Len(queue) + k] = new[k]
      /\ DOMAIN new = 1..Len(new) /\ DOMAIN queue = 1..Len(queue) /\ DOMAIN (queue \o new) = 1..Len(queue) + Len(new)
      /\ Len(queue) \in Nat /\ Len(new) \in Nat
  BY DEF TypeOK
<1>3. \A q : q \in Places' <=> q \in Places \/ \E k \in DOMAIN new : q = a[k]
  <2>1. ASSUME NEW q \in Places' PROVE q \in Places \/ \E k \in DOMAIN new : q = a[k]
    <3>1. PICK n \in Batches \cup {InQueue} : q \in {n} \X DOMAIN (Line(n)')
      BY <1>1, <2>1 DEF Places
    <3>2. CASE n \in Batches
      BY <3>1, <3>2, <1>1 DEF Places
    <3>3. CASE n = InQueue
      <4>1. PICK j \in 1..Len(queue) + Len(new) : q = <<InQueue, j>>
        BY <3>1, <3>3, <1>1, <1>2
      <4>2. CASE j <= Len(queue)
        BY <4>1, <4>2, <1>1, <1>2 DEF Places
      <4>3. CASE j > Len(queue)
        <5>1. j - Len(queue) \in DOMAIN new /\ q = a[j - Len(queue)]
          BY <4>1, <4>3, <1>2
        <5> QED
          BY <5>1
      <4>4. j <= Len(queue) \/ j > Len(queue)
        BY <1>2
      <4> QED
        BY <4>2, <4>3, <4>4
    <3> QED
      BY <3>2, <3>3
  <2>2. ASSUME NEW q \in Places PROVE q \in Places'
    <3>1. PICK n \in Batches \cup {InQueue} : q \in {n} \X DOMAIN Line(n)
      BY DEF Places
    <3>2. DOMAIN Line(n) \subseteq DOMAIN (Line(n)')
      BY <1>1, <1>2
    <3> QED
      BY <3>1, <3>2, <1>1 DEF Places
  <2>3. ASSUME NEW k \in DOMAIN new PROVE a[k] \in Places'
    <3>1. a[k] \in {InQueue} \X DOMAIN (Line(InQueue)')
      BY <1>1, <1>2
    <3> QED
      BY <3>1, <1>1 DEF Places
  <2> QED
    BY <2>1, <2>2, <2>3
<1>4. \A p \in Places : At(p)' = At(p)
  <2>1. ASSUME NEW p \in Places PROVE Line(p[1])'[p[2]] = Line(p[1])[p[2]]
    <3>1. p[1] \in Batches \cup {InQueue} /\ p[2] \in 1..Len(Line(p[1]))
      BY PlacesShape DEF PlacesTyped
    <3> QED
      BY <3>1, <1>1, <1>2
  <2> QED
    BY <2>1 DEF At
<1>5. ASSUME NEW q \in Places', NEW k \in DOMAIN new, q = a[k] PROVE At(q)' = new[k]
  <2>1. q[1] = InQueue /\ q[2] = Len(queue) + k
    BY <1>5
  <2>2. Line(q[1])'[q[2]] = new[k]
    BY <2>1, <1>1, <1>2
  <2> QED
    BY <2>2 DEF At
<1>6. \A p \in Places, k \in DOMAIN new : Earlier(p, a[k])
  <2>1. ASSUME NEW p \in Places, NEW k \in DOMAIN new PROVE Earlier(p, a[k])
    <3>1. p[1] \in Batches \cup {InQueue} /\ p[2] \in 1..Len(Line(p[1]))
      BY PlacesShape DEF PlacesTyped
    <3> QED
      BY <3>1, <1>1, <1>2 DEF Earlier
  <2> QED
    BY <2>1
<1>7. \A j, k \in DOMAIN new : j < k => Earlier(a[j], a[k])
  BY <1>2 DEF Earlier
<1> QED
  BY <1>3, <1>4, <1>5, <1>6, <1>7 DEF Grown, Same

Counted == IF summary = {} THEN <<>> ELSE <<GetSummary>>

(* A flush makes one post of the queue and the summary.                    *)
LEMMA FlushPosts ==
  ASSUME TypeOK, Flush
  PROVE  LET N == Len(posts) + 1 IN
         /\ Len(posts') = N /\ DOMAIN posts = 1..Len(posts) /\ DOMAIN posts' = 1..N /\ N \in Nat \ {0}
         /\ \A n \in DOMAIN posts : posts'[n] = posts[n]
         /\ posts'[N] = [type |-> "AnalyticsEvents", data |-> [events |-> Batch], payloadId |-> N,
                         uri |-> "bulk", canRetry |-> TRUE, stage |-> "sent", received |-> {}]
         /\ Batches' = Batches \cup {N} /\ N \notin Batches /\ Batches \subseteq DOMAIN posts
         /\ queue' = <<>> /\ summary' = {} /\ eventsInLastBatch' = Len(Batch)
         /\ ~shutdown
<1> DEFINE new == [type |-> "AnalyticsEvents", data |-> [events |-> Batch], payloadId |-> Len(posts) + 1,
                   uri |-> "bulk", canRetry |-> TRUE, stage |-> "sent", received |-> {}]
<1>1. posts' = Append(posts, new) /\ queue' = <<>> /\ summary' = {} /\ eventsInLastBatch' = Len(Batch) /\ ~shutdown
  BY DEF Flush, Sender!SendEventData, Sender!FreshId
<1>2. new.type = "AnalyticsEvents"
  OBVIOUS
<1> HIDE DEF new
<1>3. /\ Len(posts') = Len(posts) + 1 /\ DOMAIN posts = 1..Len(posts) /\ DOMAIN posts' = 1..Len(posts) + 1
      /\ Len(posts) + 1 \in Nat \ {0}
      /\ \A n \in DOMAIN posts : posts'[n] = posts[n]
      /\ posts'[Len(posts) + 1] = new
  BY <1>1 DEF TypeOK
<1>4. Batches' = Batches \cup {Len(posts) + 1} /\ Len(posts) + 1 \notin Batches /\ Batches \subseteq DOMAIN posts
  BY <1>2, <1>3 DEF Batches
<1> QED
  BY <1>1, <1>3, <1>4 DEF new

(* A batch is the queue, and then the summary if it is not empty.          *)
LEMMA BatchShape ==
  ASSUME TypeOK
  PROVE  /\ Batch = queue \o Counted /\ Batch \in Seq(Output) /\ Counted \in Seq(Output)
         /\ Len(Batch) = Len(queue) + Len(Counted) /\ Len(Counted) \in 0..1 /\ Len(queue) \in Nat
         /\ \A k \in DOMAIN queue : Batch[k] = queue[k]
         /\ \A k \in DOMAIN Counted : k = 1 /\ Batch[Len(queue) + 1] = Counted[1] /\ Counted[1] = GetSummary
         /\ summary # {} => DOMAIN Counted = {1}
<1>1. queue \in Seq(Output) /\ GetSummary \in Output /\ Len(queue) \in Nat
  <2>1. DOMAIN inputs \subseteq Id
    BY ProcessorAssumption DEF TypeOK, Id
  <2> QED
    BY <2>1 DEF TypeOK, GetSummary, Output
<1>2. CASE summary = {}
  BY <1>1, <1>2 DEF Batch, Counted
<1>3. CASE summary # {}
  <2>1. Batch = Append(queue, GetSummary) /\ Counted = <<GetSummary>>
    BY <1>3 DEF Batch, Counted
  <2>2. /\ Append(queue, GetSummary) = queue \o <<GetSummary>> /\ Append(queue, GetSummary) \in Seq(Output)
        /\ Len(Append(queue, GetSummary)) = Len(queue) + 1
        /\ \A k \in DOMAIN queue : Append(queue, GetSummary)[k] = queue[k]
        /\ Append(queue, GetSummary)[Len(queue) + 1] = GetSummary
    BY <1>1
  <2>3. <<GetSummary>> \in Seq(Output) /\ Len(<<GetSummary>>) = 1 /\ DOMAIN <<GetSummary>> = {1} /\ <<GetSummary>>[1] = GetSummary
    BY <1>1
  <2> QED
    BY <1>1, <2>1, <2>2, <2>3
<1> QED
  BY <1>2, <1>3

(* A flush moves the queue into a new batch and adds the summary.          *)
LEMMA FlushGrows ==
  ASSUME TypeOK, Flush
  PROVE  Grown(Counted, Moved, [k \in DOMAIN Counted |-> <<Len(posts) + 1, Len(queue) + 1>>])
<1>0. PICK N : N = Len(posts) + 1
  OBVIOUS
<1> DEFINE a == [k \in DOMAIN Counted |-> <<N, Len(queue) + 1>>]
<1>1. /\ Batches' = Batches \cup {N} /\ N \notin Batches /\ Batches \subseteq 1..N - 1 /\ N \in Nat \ {0} /\ InQueue = 0
      /\ \A n \in Batches : Line(n)' = Line(n)
      /\ Line(N)' = Batch /\ Line(InQueue)' = <<>> /\ Line(InQueue) = queue
  BY <1>0, FlushPosts DEF Line, InQueue
<1>2. /\ \A n \in Batches \cup {InQueue} : DOMAIN Line(n) = 1..Len(Line(n))
      /\ DOMAIN queue = 1..Len(queue) /\ DOMAIN Counted = 1..Len(Counted)
      /\ Len(queue) \in Nat /\ Len(Counted) \in 0..1
      /\ DOMAIN Batch = 1..Len(queue) + Len(Counted)
  <2>1. DOMAIN Batch = 1..Len(Batch) /\ DOMAIN queue = 1..Len(queue) /\ DOMAIN Counted = 1..Len(Counted)
    BY BatchShape DEF TypeOK
  <2>2. \A n \in Batches \cup {InQueue} : DOMAIN Line(n) = 1..Len(Line(n))
    BY PlacesShape DEF PlacesTyped
  <2> QED
    BY <2>1, <2>2, BatchShape
<1>a. (\A n \in Batches : n \in Nat /\ n < N) /\ N # InQueue
  BY <1>1
<1>3. /\ \A n \in Batches : \A k : k \in DOMAIN Line(n) => <<n, k>> \in Places'
      /\ \A k \in DOMAIN Batch : <<N, k>> \in Places'
  <2>1. ASSUME NEW n \in Batches, NEW k \in DOMAIN Line(n) PROVE <<n, k>> \in Places'
    <3>1. <<n, k>> \in {n} \X DOMAIN (Line(n)') /\ n \in Batches' \cup {InQueue}
      BY <1>1
    <3> QED
      BY <3>1 DEF Places
  <2>2. ASSUME NEW k \in DOMAIN Batch PROVE <<N, k>> \in Places'
    <3>1. <<N, k>> \in {N} \X DOMAIN (Line(N)') /\ N \in Batches' \cup {InQueue}
      BY <1>1
    <3> QED
      BY <3>1 DEF Places
  <2> QED
    BY <2>1, <2>2
<1>4. ASSUME NEW p \in Places
      PROVE  /\ p[1] \in Batches \cup {InQueue} /\ p[2] \in DOMAIN Line(p[1]) /\ p[2] \in Nat
             /\ p[1] = InQueue => /\ Moved[p] = <<N, p[2]>> /\ Moved[p][1] = N /\ Moved[p][2] = p[2]
                                  /\ p[2] \in DOMAIN queue /\ Batch[p[2]] = queue[p[2]]
             /\ p[1] # InQueue => Moved[p] = p /\ p[1] \in Batches
             /\ Moved[p] \in Places'
  <2>1. p[1] \in Batches \cup {InQueue} /\ p[2] \in DOMAIN Line(p[1]) /\ p[2] \in Nat /\ p = <<p[1], p[2]>>
    BY <1>2, PlacesShape DEF PlacesTyped
  <2>2. Moved[p] = IF p[1] = InQueue THEN <<N, p[2]>> ELSE p
    BY <1>0 DEF Moved
  <2>3. p[1] = InQueue => p[2] \in DOMAIN queue /\ p[2] \in DOMAIN Batch /\ Batch[p[2]] = queue[p[2]]
    BY <2>1, <1>1, <1>2, BatchShape
  <2>4. Moved[p] \in Places'
    BY <2>1, <2>2, <2>3, <1>3
  <2> QED
    BY <2>1, <2>2, <2>3, <2>4
<1>5. ASSUME NEW k \in DOMAIN Counted
      PROVE  /\ a[k] \in Places' /\ a[k][1] = N /\ a[k][2] = Len(queue) + 1 /\ k = 1
             /\ Batch[Len(queue) + 1] = Counted[k]
  <2>1. a[k] = <<N, Len(queue) + 1>> /\ k = 1 /\ Batch[Len(queue) + 1] = Counted[k]
    BY BatchShape
  <2>2. Len(queue) + 1 \in DOMAIN Batch
    BY <1>2
  <2> QED
    BY <2>1, <2>2, <1>3
<1>6. ASSUME NEW q \in Places'
      PROVE  (\E p \in Places : q = Moved[p]) \/ (\E k \in DOMAIN Counted : q = a[k])
  <2>1. PICK n \in Batches \cup {N} \cup {InQueue} : q \in {n} \X DOMAIN (Line(n)')
    BY <1>1 DEF Places
  <2>2. CASE n \in Batches
    <3>1. q \in Places /\ q[1] = n /\ n # InQueue
      BY <2>1, <2>2, <1>1 DEF Places
    <3> QED
      BY <3>1 DEF Moved
  <2>3. CASE n = InQueue
    BY <2>1, <2>3, <1>1
  <2>4. CASE n = N
    <3>1. PICK j \in DOMAIN Batch : q = <<N, j>>
      BY <2>1, <2>4, <1>1
    <3>2. CASE j \in DOMAIN queue
      <4>1. <<InQueue, j>> \in Places
        BY <3>2, <1>1 DEF Places
      <4>2. Moved[<<InQueue, j>>] = <<N, j>>
        BY <1>0, <4>1 DEF Moved
      <4> QED
        BY <3>1, <4>1, <4>2
    <3>3. CASE j \notin DOMAIN queue
      <4>1. j = Len(queue) + 1 /\ 1 \in DOMAIN Counted
        <5>1. j \in Nat /\ j >= 1 /\ j <= Len(queue) + Len(Counted) /\ ~(j <= Len(queue))
          BY <3>1, <3>3, <1>2
        <5>2. \A x \in Nat, y \in 0..1 : j <= x + y /\ ~(j <= x) => y = 1 /\ j = x + 1
          BY <5>1
        <5>3. Len(Counted) = 1 /\ j = Len(queue) + 1
          BY <5>1, <5>2, <1>2
        <5> QED
          BY <5>3, <1>2
      <4> QED
        BY <3>1, <4>1
    <3> QED
      BY <3>2, <3>3
  <2> QED
    BY <2>1, <2>2, <2>3, <2>4
<1>7. ASSUME NEW p \in Places, NEW q \in Places, Earlier(p, q)
      PROVE  Earlier(Moved[p], Moved[q])
  <2>1. Batches \subseteq 1..N - 1 /\ N \in Nat
    BY <1>1
  <2>2. CASE p[1] = InQueue
    <3>1. q[1] = InQueue /\ p[2] < q[2]
      BY <2>2, <1>7 DEF Earlier
    <3> QED
      BY <2>2, <3>1, <1>4 DEF Earlier
  <2>3. CASE p[1] # InQueue
    <3>1. Moved[p] = p /\ p[1] \in Batches /\ p[1] < N /\ N # InQueue
      BY <2>3, <1>a, <1>4
    <3>2. CASE q[1] = InQueue
      BY <3>1, <3>2, <2>1, <1>4 DEF Earlier
    <3>3. CASE q[1] # InQueue
      BY <3>1, <3>3, <1>4, <1>7
    <3> QED
      BY <3>2, <3>3
  <2> QED
    BY <2>2, <2>3
<1>8. ASSUME NEW p \in Places, NEW k \in DOMAIN Counted
      PROVE  Earlier(Moved[p], a[k])
  <2>1. CASE p[1] = InQueue
    <3>1. Moved[p][1] = N /\ Moved[p][2] < Len(queue) + 1
      BY <2>1, <1>2, <1>4
    <3> QED
      BY <3>1, <1>5 DEF Earlier
  <2>2. CASE p[1] # InQueue
    <3>1. Moved[p] = p /\ p[1] < N /\ p[1] # N
      BY <2>2, <1>a, <1>4
    <3> QED
      BY <2>2, <3>1, <1>5 DEF Earlier
  <2> QED
    BY <2>1, <2>2
<1>9. \A j, k \in DOMAIN Counted : ~(j < k)
  BY <1>5
<1>10. Moved \in [Places -> Places'] /\ a \in [DOMAIN Counted -> Places']
  BY <1>4, <1>5 DEF Moved
<1>11. ASSUME NEW q \in Places'
       PROVE  /\ \A p \in Places : q = Moved[p] => At(q)' = At(p)
              /\ \A k \in DOMAIN Counted : q = a[k] => At(q)' = Counted[k]
  <2>1. ASSUME NEW p \in Places, q = Moved[p] PROVE Line(q[1])'[q[2]] = Line(p[1])[p[2]]
    <3>1. CASE p[1] = InQueue
      BY <2>1, <3>1, <1>1, <1>4
    <3>2. CASE p[1] # InQueue
      BY <2>1, <3>2, <1>1, <1>4
    <3> QED
      BY <3>1, <3>2
  <2>2. ASSUME NEW k \in DOMAIN Counted, q = a[k] PROVE Line(q[1])'[q[2]] = Counted[k]
    BY <2>2, <1>1, <1>5
  <2> QED
    BY <2>1, <2>2 DEF At
<1> HIDE DEF a
<1>12. Grown(Counted, Moved, a)
  BY <1>6, <1>7, <1>8, <1>9, <1>10, <1>11 DEF Grown
<1> QED
  BY <1>0, <1>12 DEF a
-----------------------------------------------------------------------------
(* What a growing stream preserves.                                        *)
InputsGrow == DOMAIN inputs \subseteq DOMAIN inputs' /\ \A i \in DOMAIN inputs : inputs'[i] = inputs[i]

DropsGrow == \A d \in dropped : \E f \in dropped' : f.output = d.output

(* The order of the inputs is kept when places grow by the outputs of a    *)
(* later input.                                                            *)
LEMMA OrderGrows ==
  ASSUME TypeOK, TypeOK', Sourced, InOrder,
         NEW new \in Seq(Output), NEW m, NEW a, Grown(new, m, a),
         \A k \in DOMAIN new : new[k].kind # "summary" => new[k].from = {Len(inputs) + 1},
         \A j, k \in DOMAIN new :
           j < k /\ "summary" \notin {new[j].kind, new[k].kind} => Rank[new[j].kind] < Rank[new[k].kind]
  PROVE  InOrder'
<1> SUFFICES ASSUME NEW p \in Places', NEW q \in Places', Earlier(p, q), At(p)'.kind # "summary", At(q)'.kind # "summary"
             PROVE  Before(At(p)', At(q)')
  BY DEF InOrder
<1>1. CASE \E p0 \in Places, q0 \in Places : p = m[p0] /\ q = m[q0]
  <2>1. PICK p0 \in Places, q0 \in Places : p = m[p0] /\ q = m[q0]
    BY <1>1
  <2>2. Earlier(p0, q0)
    BY <2>1, GrownOrder
  <2>3. At(p)' = At(p0) /\ At(q)' = At(q0)
    BY <2>1 DEF Grown
  <2> QED
    BY <2>2, <2>3 DEF InOrder
<1>2. CASE \E p0 \in Places, k \in DOMAIN new : p = m[p0] /\ q = a[k]
  <2>1. PICK p0 \in Places, k \in DOMAIN new : p = m[p0] /\ q = a[k]
    BY <1>2
  <2>2. At(p)' = At(p0) /\ At(q)' = new[k]
    BY <2>1 DEF Grown
  <2>3. PICK i \in DOMAIN inputs : At(p0).from = {i}
    BY <2>2 DEF Sourced, SourceOf
  <2>4. new[k].from = {Len(inputs) + 1} /\ i < Len(inputs) + 1
    BY <2>2 DEF TypeOK
  <2> QED
    BY <2>2, <2>3, <2>4 DEF Before
<1>3. CASE \E j \in DOMAIN new, q0 \in Places : p = a[j] /\ q = m[q0]
  BY <1>3, GrownOrder
<1>4. CASE \E j \in DOMAIN new, k \in DOMAIN new : p = a[j] /\ q = a[k]
  <2>1. PICK j \in DOMAIN new, k \in DOMAIN new : p = a[j] /\ q = a[k]
    BY <1>4
  <2>2. At(p)' = new[j] /\ At(q)' = new[k]
    BY <2>1 DEF Grown
  <2>3. j < k
    BY <2>1, GrownOrder
  <2>4. /\ new[j].from = {Len(inputs) + 1} /\ new[k].from = {Len(inputs) + 1}
        /\ Rank[new[j].kind] < Rank[new[k].kind]
    BY <2>2, <2>3
  <2> QED
    BY <2>2, <2>4 DEF Before
<1> QED
  BY <1>1, <1>2, <1>3, <1>4 DEF Grown

(* Every output is of an input, also when inputs and places grow.          *)
LEMMA SourcesGrow ==
  ASSUME TypeOK, Sourced, InputsGrow,
         NEW new \in Seq(Output), NEW m, NEW a, Grown(new, m, a),
         \A k \in DOMAIN new :
           IF new[k].kind = "summary" THEN new[k].from \subseteq DOMAIN inputs'
           ELSE \E i \in DOMAIN inputs' : new[k].from = {i},
         NEW p \in Places'
  PROVE  IF At(p)'.kind = "summary" THEN At(p)'.from \subseteq DOMAIN inputs' ELSE SourceOf(At(p))' # {}
<1>1. CASE \E q \in Places : p = m[q]
  <2>1. PICK q \in Places : At(p)' = At(q)
    BY <1>1 DEF Grown
  <2> QED
    BY <2>1 DEF Sourced, SourceOf, InputsGrow
<1>2. CASE \E k \in DOMAIN new : p = a[k]
  <2>1. PICK k \in DOMAIN new : At(p)' = new[k]
    BY <1>2 DEF Grown
  <2> QED
    BY <2>1 DEF SourceOf
<1> QED
  BY <1>1, <1>2 DEF Grown

(* What an output tells of a context does not change when inputs come.     *)
LEMMA TellingGrows ==
  ASSUME InputsGrow, NEW o, SourceOf(o) # {}, NEW c
  PROVE  ContextOf(o)' = ContextOf(o) /\ (Tells(o, c)' <=> Tells(o, c))
BY DEF InputsGrow, SourceOf, ContextOf, Tells

(* A context that has been told of stays so.                               *)
LEMMA ToldGrows ==
  ASSUME TypeOK, Sourced, InputsGrow, DropsGrow,
         NEW new, NEW m, NEW a, Grown(new, m, a), NEW c, Told(c)
  PROVE  Told(c)'
<1>1. CASE \E p \in Places : Tells(At(p), c)
  <2>1. PICK p \in Places : Tells(At(p), c)
    BY <1>1
  <2>2. m[p] \in Places' /\ At(m[p])' = At(p)
    BY DEF Grown
  <2>3. SourceOf(At(p)) # {}
    BY <2>1 DEF Sourced, Tells
  <2> QED
    BY <2>1, <2>2, <2>3, TellingGrows DEF Told
<1>2. CASE \E d \in dropped : Tells(d.output, c)
  <2>1. PICK d \in dropped : Tells(d.output, c)
    BY <1>2
  <2>2. PICK f \in dropped' : f.output = d.output
    BY DEF DropsGrow
  <2>3. SourceOf(d.output) # {}
    BY DEF Sourced
  <2> QED
    BY <2>1, <2>2, <2>3, TellingGrows DEF Told
<1> QED
  BY <1>1, <1>2 DEF Told

(* A context is told of before its events, also when places grow.          *)
LEMMA IndexedGrows ==
  ASSUME TypeOK, Sourced, IndexedBeforeUse, InputsGrow, DropsGrow,
         NEW new \in Seq(Output), NEW m, NEW a, Grown(new, m, a),
         \A k \in DOMAIN new : new[k].kind \in {"custom", "feature"} =>
           \A c \in ContextOf(new[k])' :
             \/ Told(c)
             \/ \E j \in DOMAIN new : j < k /\ Tells(new[j], c)'
             \/ \E d \in dropped' : Tells(d.output, c)'
  PROVE  IndexedBeforeUse'
<1> SUFFICES ASSUME NEW p \in Places', NEW o, o = At(p)', o.kind \in {"custom", "feature"}, NEW c \in ContextOf(o)'
             PROVE  \/ \E q \in Places' : Earlier(q, p) /\ Tells(At(q), c)'
                    \/ \E d \in dropped' : Tells(d.output, c)'
  BY DEF IndexedBeforeUse
<1>1. ASSUME NEW q \in Places, Tells(At(q), c) PROVE m[q] \in Places' /\ Tells(At(m[q]), c)'
  <2>1. PICK r \in Places' : r = m[q]
    BY DEF Grown
  <2>2. At(r)' = At(q)
    BY <2>1 DEF Grown
  <2>3. SourceOf(At(q)) # {}
    BY <1>1 DEF Sourced, Tells
  <2> QED
    BY <1>1, <2>1, <2>2, <2>3, TellingGrows
<1>2. ASSUME NEW d \in dropped, Tells(d.output, c) PROVE \E f \in dropped' : Tells(f.output, c)'
  <2>1. PICK f \in dropped' : f.output = d.output
    BY DEF DropsGrow
  <2>2. SourceOf(d.output) # {}
    BY DEF Sourced
  <2> QED
    BY <1>2, <2>1, <2>2, TellingGrows
<1>3. CASE \E p0 \in Places : p = m[p0]
  <2>1. PICK p0 \in Places : p = m[p0] /\ o = At(p0)
    BY <1>3 DEF Grown
  <2>2. c \in ContextOf(o)
    BY <2>1, TellingGrows DEF Sourced
  <2>3. \/ \E q \in Places : Earlier(q, p0) /\ Tells(At(q), c)
        \/ \E d \in dropped : Tells(d.output, c)
    BY <2>1, <2>2 DEF IndexedBeforeUse
  <2>4. \A q \in Places : Earlier(q, p0) => Earlier(m[q], p)
    BY <2>1 DEF Grown
  <2> QED
    BY <2>3, <2>4, <1>1, <1>2
<1>4. CASE \E k \in DOMAIN new : p = a[k]
  <2>1. PICK k \in DOMAIN new : p = a[k] /\ o = new[k]
    BY <1>4 DEF Grown
  <2>2. CASE Told(c)
    <3>1. \A q \in Places : Earlier(m[q], p)
      BY <2>1 DEF Grown
    <3> QED
      BY <2>2, <3>1, <1>1, <1>2 DEF Told
  <2>3. CASE \E j \in DOMAIN new : j < k /\ Tells(new[j], c)'
    <3>1. PICK j \in DOMAIN new : j < k /\ Tells(new[j], c)'
      BY <2>3
    <3>2. PICK r \in Places' : r = a[j]
      BY DEF Grown
    <3>3. At(r)' = new[j] /\ Earlier(r, p)
      BY <2>1, <3>1, <3>2 DEF Grown
    <3> QED
      BY <3>1, <3>3 DEF Tells, ContextOf
  <2> QED
    BY <2>1, <2>2, <2>3
<1> QED
  BY <1>3, <1>4 DEF Grown

(* What is kept or reported as dropped stays so.                           *)
LEMMA KeptGrows ==
  ASSUME DropsGrow, NEW new, NEW m, NEW a, Grown(new, m, a), NEW o, Kept(o)
  PROVE  Kept(o)'
<1>1. CASE \E p \in Places : At(p) = o
  <2>1. PICK p \in Places, r \in Places' : At(p) = o /\ r = m[p]
    BY <1>1 DEF Grown
  <2>2. At(r)' = o
    BY <2>1 DEF Grown
  <2> QED
    BY <2>2 DEF Kept
<1>2. CASE \E d \in dropped : d.output = o
  BY <1>2 DEF Kept, DropsGrow
<1> QED
  BY <1>1, <1>2 DEF Kept

(* The places that count an input move with the outputs.                   *)
LEMMA CountsGrow ==
  ASSUME NEW new, NEW m, NEW a, Grown(new, m, a), NEW n
  PROVE  Counts(n)' = {m[p] : p \in Counts(n)}
                      \cup {a[k] : k \in {j \in DOMAIN new : new[j].kind = "summary" /\ n \in new[j].from}}
<1>1. ASSUME NEW p \in Places PROVE m[p] \in Counts(n)' <=> p \in Counts(n)
  <2>1. PICK r \in Places' : r = m[p] /\ At(r)' = At(p)
    BY DEF Grown
  <2> QED
    BY <2>1 DEF Counts
<1>2. ASSUME NEW k \in DOMAIN new PROVE a[k] \in Counts(n)' <=> new[k].kind = "summary" /\ n \in new[k].from
  <2>1. PICK r \in Places' : r = a[k] /\ At(r)' = new[k]
    BY DEF Grown
  <2> QED
    BY <2>1 DEF Counts
<1>3. \A q \in Counts(n)' : (\E p \in Places : q = m[p]) \/ (\E k \in DOMAIN new : q = a[k])
  BY DEF Counts, Grown
<1>4. Counts(n) \subseteq Places
  BY DEF Counts
<1> QED
  BY <1>1, <1>2, <1>3, <1>4

-----------------------------------------------------------------------------
(* sendEvent.                                                              *)
LEMMA SendTyped ==
  ASSUME Typed, NEW e \in Input, SendEvent(e)
  PROVE  TypeOK'
<1>1. /\ Len(inputs) \in Nat /\ Len(inputs) + 1 \in Id /\ inputs \in Seq(Input)
      /\ inputs' = Append(inputs, e) /\ Enqueue(Outputs(e, Len(inputs) + 1)) /\ e \in Inputs
      /\ ProcessContext(e.context) /\ Summarize(e, Len(inputs) + 1)
  BY ProcessorAssumption DEF Typed, TypeOK, SendEvent, Id
<1>2. Outputs(e, Len(inputs) + 1) \in Seq(Output)
  BY <1>1, OutputsShape
<1>3. PICK outs \in Seq(Output) : outs = Outputs(e, Len(inputs) + 1)
  BY <1>2
<1>4. PICK taken \in 0..Len(outs) :
           /\ SubSeq(outs, 1, taken) \in Seq(Output) /\ Len(SubSeq(outs, 1, taken)) = taken
           /\ queue' = queue \o SubSeq(outs, 1, taken) /\ Len(queue) + taken <= Capacity
           /\ dropped' = dropped \cup {[output |-> outs[k], report |-> Uncounted] : k \in taken + 1..Len(outs)}
           /\ droppedEvents' = droppedEvents + Len(outs) - taken
  <2>1. Enqueue(outs)
    BY <1>1, <1>3
  <2> QED
    BY <2>1, EnqueueSplits DEF Typed
<1>5. queue' \in Seq(Output) /\ Len(queue') <= Capacity
  <2>1. queue \in Seq(Output)
    BY DEF Typed, TypeOK
  <2>2. \A s \in Seq(Output) : queue \o s \in Seq(Output) /\ Len(queue \o s) = Len(queue) + Len(s)
    BY <2>1
  <2> QED
    BY <1>4, <2>2
<1>6. dropped' \subseteq Dropped
  <2>1. \A k \in taken + 1..Len(outs) : outs[k] \in Output
    BY <1>3, <1>4
  <2>2. \A k \in taken + 1..Len(outs) : [output |-> outs[k], report |-> Uncounted] \in Dropped
    BY <2>1 DEF Dropped, Uncounted
  <2> QED
    BY <1>4, <2>2 DEF Typed, TypeOK
<1>7. droppedEvents' \in Nat /\ deduplicatedUsers' \in Nat
  <2>1. droppedEvents \in Nat /\ deduplicatedUsers \in Nat /\ Len(outs) \in Nat
    BY <1>3 DEF Typed, TypeOK
  <2>2. deduplicatedUsers' \in {deduplicatedUsers, deduplicatedUsers + 1}
    BY DEF SendEvent
  <2> QED
    BY <1>4, <2>1, <2>2
<1>8. known' \in Cache!Caches
  BY <1>1, KnownAfter DEF ProcessContext, Inputs, Typed, TypeOK
<1>9. summary' \subseteq DOMAIN inputs' /\ inputs' \in Seq(Input) /\ Len(inputs') <= MaxInputs
  <2>1. /\ inputs' \in Seq(Input) /\ Len(inputs') = Len(inputs) + 1
        /\ DOMAIN inputs \subseteq DOMAIN inputs' /\ Len(inputs) + 1 \in DOMAIN inputs'
    BY <1>1
  <2>2. summary' \subseteq summary \cup {Len(inputs) + 1} /\ summary \subseteq DOMAIN inputs
    BY <1>1 DEF Summarize, Typed, TypeOK
  <2> QED
    BY <1>1, <2>1, <2>2 DEF Id
<1>10. /\ UNCHANGED <<eventsInLastBatch, shutdown, closed, posts>> /\ Batches' = Batches
  BY DEF SendEvent, Batches
<1> QED
  BY <1>5, <1>6, <1>7, <1>8, <1>9, <1>10 DEF Typed, TypeOK

(* A set that grows by as many new members as an interval has.             *)
LEMMA AddedMany ==
  ASSUME NEW D, IsFiniteSet(D), NEW x \in Nat, NEW y \in Nat, x <= y,
         NEW E, ExistsBijection(x + 1..y, E), D \cap E = {}
  PROVE  IsFiniteSet(D \cup E) /\ Cardinality(D \cup E) = Cardinality(D) + y - x
<1>1. IsFiniteSet(x + 1..y) /\ Cardinality(x + 1..y) = y - x
  <2>1. x + 1 \in Int /\ y \in Int
    OBVIOUS
  <2>2. /\ IsFiniteSet(x + 1..y)
        /\ Cardinality(x + 1..y) = IF x + 1 > y THEN 0 ELSE y - (x + 1) + 1
    BY <2>1, FS_Interval, Zenon
  <2> QED
    BY <2>2
<1>2. IsFiniteSet(E) /\ Cardinality(E) = y - x
  BY <1>1, FS_Bijection
<1>3. Cardinality({}) = 0 /\ Cardinality(D) \in Nat
  BY FS_EmptySet, FS_CardinalityType
<1>4. /\ IsFiniteSet(D \cup E)
      /\ Cardinality(D \cup E) = Cardinality(D) + Cardinality(E) - Cardinality(D \cap E)
  BY <1>2, FS_Union, Zenon
<1>5. Cardinality(D \cap E) = 0
  <2>1. D \cap E = {}
    OBVIOUS
  <2> QED
    BY <1>3, <2>1, Zenon
<1> QED
  BY <1>2, <1>3, <1>4, <1>5

(* An input comes in by sendEvent.                                         *)
LEMMA SendKeeps ==
  ASSUME Invariant, NEW e \in Input, SendEvent(e)
  PROVE  Invariant'
<1>0. TypeOK /\ TypeOK' /\ Typed /\ Sourced /\ InOrder /\ KnownIsTold /\ IndexedBeforeUse
  BY SendTyped DEF Invariant, Typed
<1>1. PICK n : n = Len(inputs) + 1
  OBVIOUS
<1>2. /\ n \in Id /\ e \in Inputs /\ inputs' = Append(inputs, e) /\ posts' = posts /\ shutdown' = shutdown
      /\ Enqueue(Outputs(e, n)) /\ ProcessContext(e.context) /\ Summarize(e, n)
  BY <1>0, <1>1, ProcessorAssumption DEF TypeOK, SendEvent, Id
<1>3. /\ InputsGrow /\ n \notin DOMAIN inputs /\ DOMAIN inputs' = DOMAIN inputs \cup {n} /\ inputs'[n] = e
  BY <1>0, <1>1, <1>2 DEF TypeOK, InputsGrow
<1>4. PICK outs \in Seq(Output) :
        /\ outs = Outputs(e, n)
        /\ Len(outs) \in 0..3
        /\ \A k \in DOMAIN outs :
              /\ outs[k].from = {n} /\ outs[k].kind # "summary"
              /\ outs[k].kind \in {"custom", "feature"} => e.kind # "identify"
        /\ \A j, k \in DOMAIN outs : j < k => Rank[outs[j].kind] < Rank[outs[k].kind]
        /\ ~IsKnown(e.context) /\ e.kind # "identify" => Len(outs) > 0 /\ outs[1].kind = "index"
        /\ (e.kind = "feature" => e.trackEvents) => \E k \in DOMAIN outs : outs[k] = MakeOutputEvent(e.kind, n)
        /\ e.kind = "feature" /\ e.debug => \E k \in DOMAIN outs : outs[k] = MakeOutputEvent("debug", n)
  BY <1>2, OutputsShape
<1>5. PICK taken \in 0..Len(outs) :
           /\ SubSeq(outs, 1, taken) \in Seq(Output) /\ Len(SubSeq(outs, 1, taken)) = taken
           /\ \A k \in 1..taken : SubSeq(outs, 1, taken)[k] = outs[k]
           /\ queue' = queue \o SubSeq(outs, 1, taken) /\ Len(queue) + taken <= Capacity
           /\ dropped' = dropped \cup {[output |-> outs[k], report |-> Uncounted] : k \in taken + 1..Len(outs)}
           /\ droppedEvents' = droppedEvents + Len(outs) - taken
  <2>1. Enqueue(outs)
    BY <1>2, <1>4
  <2> QED
    BY <1>0, <2>1, EnqueueSplits
<1>6. PICK new \in Seq(Output) : /\ new = SubSeq(outs, 1, taken) /\ DOMAIN new = 1..taken
                               /\ \A k \in 1..taken : new[k] = outs[k]
  <2>1. PICK new \in Seq(Output) : new = SubSeq(outs, 1, taken)
    BY <1>5
  <2>2. DOMAIN new = 1..Len(new)
    OBVIOUS
  <2> QED
    BY <1>5, <2>1, <2>2
<1>7. PICK m, a : Grown(new, m, a)
  BY <1>0, <1>2, <1>5, <1>6, QueuedGrows
<1>8. /\ DOMAIN outs = 1..Len(outs) /\ DOMAIN new \subseteq DOMAIN outs
      /\ \A k \in DOMAIN outs : k \in DOMAIN new \/ [output |-> outs[k], report |-> Uncounted] \in dropped'
  BY <1>4, <1>5, <1>6
<1>9. DropsGrow
  BY <1>5 DEF DropsGrow
<1>10. Sourced'
  <2>1. \A k \in DOMAIN new : new[k].kind # "summary" /\ new[k].from = {n} /\ n \in DOMAIN inputs'
    BY <1>3, <1>4, <1>6, <1>8
  <2>2. ASSUME NEW p \in Places'
        PROVE  IF At(p)'.kind = "summary" THEN At(p)'.from \subseteq DOMAIN inputs' ELSE SourceOf(At(p))' # {}
    BY <1>0, <1>3, <1>7, <2>1, SourcesGrow
  <2>3. ASSUME NEW d \in dropped' PROVE d.output.kind # "summary" /\ SourceOf(d.output)' # {}
    <3>1. CASE d \in dropped
      BY <1>0, <1>3, <3>1 DEF Sourced, SourceOf
    <3>2. CASE d \notin dropped
      <4>1. PICK k \in taken + 1..Len(outs) : d = [output |-> outs[k], report |-> Uncounted]
        BY <1>5, <3>2
      <4>2. k \in DOMAIN outs /\ d.output = outs[k]
        BY <1>8, <4>1
      <4> QED
        BY <1>3, <1>4, <4>2 DEF SourceOf
    <3> QED
      BY <3>1, <3>2
  <2> QED
    BY <2>2, <2>3 DEF Sourced
<1>11. InOrder'
  <2>1. \A k \in DOMAIN new : new[k].from = {Len(inputs) + 1}
    BY <1>1, <1>4, <1>6, <1>8
  <2>2. \A j, k \in DOMAIN new : j < k => Rank[new[j].kind] < Rank[new[k].kind]
    BY <1>4, <1>6, <1>8
  <2> QED
    BY <1>0, <1>7, <2>1, <2>2, OrderGrows
<1>12. \A k \in DOMAIN outs : outs[k].kind \in {"index", "identify"} => Tells(outs[k], e.context)'
  BY <1>3, <1>4 DEF Tells, ContextOf
<1>13. IsKnown(e.context) => Told(e.context)
  <2>1. e.context \in Context /\ TRUE # Nothing
    BY <1>2, ProcessorAssumption DEF Inputs
  <2> QED
    BY <1>0, <2>1 DEF IsKnown, Cache!Found, Cache!IsFound, KnownIsTold
<1>14. Told(e.context)'
  <2>1. CASE IsKnown(e.context)
    BY <1>0, <1>3, <1>7, <1>9, <1>13, <2>1, ToldGrows
  <2>2. CASE ~IsKnown(e.context)
    <3>1. PICK k \in DOMAIN outs : outs[k].kind \in {"index", "identify"}
      BY <1>2, <1>4, <1>8, <2>2 DEF MakeOutputEvent
    <3>2. CASE k \in DOMAIN new
      <4>1. PICK r \in Places' : r = a[k] /\ At(r)' = new[k]
        BY <1>7, <3>2 DEF Grown
      <4> QED
        BY <1>6, <1>12, <3>1, <3>2, <4>1 DEF Told
    <3>3. CASE k \notin DOMAIN new
      BY <1>8, <1>12, <3>1, <3>3 DEF Told
    <3> QED
      BY <3>2, <3>3
  <2> QED
    BY <2>1, <2>2
<1>15. KnownIsTold'
  <2>1. ASSUME NEW c \in Context, c # e.context, known'.keyMap[c] # Nothing PROVE Told(c)'
    <3>1. known.keyMap[c] # Nothing
      <4>1. known \in Cache!Caches /\ e.context \in Context
        BY <1>0, <1>2 DEF Inputs, TypeOK
      <4>2. known' = Cache!Put(Cache!Got(known, e.context, 0), e.context, TRUE, 0)
        BY <1>2 DEF ProcessContext
      <4>3. known'.keyMap[c] \in {known.keyMap[c], Nothing}
        BY <2>1, <4>1, <4>2, KnownAfter
      <4> QED
        BY <2>1, <4>3
    <3> QED
      BY <1>0, <1>3, <1>7, <1>9, <3>1, ToldGrows DEF KnownIsTold
  <2> QED
    BY <1>14, <2>1 DEF KnownIsTold
<1>16. IndexedBeforeUse'
  <2>1. ASSUME NEW k \in DOMAIN new, new[k].kind \in {"custom", "feature"}, NEW c \in ContextOf(new[k])'
        PROVE  \/ Told(c)
               \/ \E j \in DOMAIN new : j < k /\ Tells(new[j], c)'
               \/ \E d \in dropped' : Tells(d.output, c)'
    <3>1. c = e.context /\ e.kind # "identify" /\ new[k] = outs[k]
      BY <1>3, <1>4, <1>6, <1>8, <2>1 DEF ContextOf
    <3>2. CASE IsKnown(e.context)
      BY <1>13, <3>1, <3>2
    <3>3. CASE ~IsKnown(e.context)
      <4>1. 1 \in DOMAIN new /\ new[1].kind = "index" /\ new[1] = outs[1] /\ 1 < k
        <5>1. taken >= 1 /\ 1 \in DOMAIN new /\ new[1] = outs[1] /\ k \in 1..taken
          BY <1>5, <1>6
        <5>2. outs[1].kind = "index" /\ outs[k].kind # "index"
          BY <1>4, <2>1, <3>1, <3>3
        <5>3. k # 1
          BY <5>2
        <5> QED
          BY <5>1, <5>2, <5>3
      <4> QED
        BY <1>8, <1>12, <3>1, <4>1
    <3> QED
      BY <3>2, <3>3
  <2> QED
    BY <1>0, <1>3, <1>7, <1>9, <2>1, IndexedGrows
<1>17. EventsKept'
  <2>1. ASSUME NEW o, NEW k \in DOMAIN outs, outs[k] = o PROVE Kept(o)'
    <3>1. CASE k \in DOMAIN new
      <4>1. PICK r \in Places' : r = a[k] /\ At(r)' = new[k]
        BY <1>7, <3>1 DEF Grown
      <4> QED
        BY <1>6, <2>1, <3>1, <4>1 DEF Kept
    <3>2. CASE k \notin DOMAIN new
      BY <1>8, <2>1, <3>2 DEF Kept
    <3> QED
      BY <3>1, <3>2
  <2>2. ASSUME NEW i \in DOMAIN inputs
        PROVE  /\ (inputs'[i].kind = "feature" => inputs'[i].trackEvents) => Kept(MakeOutputEvent(inputs[i].kind, i))'
               /\ inputs'[i].kind = "feature" /\ inputs'[i].debug => Kept(MakeOutputEvent("debug", i))'
    <3>1. inputs'[i] = inputs[i]
      BY <1>3 DEF InputsGrow
    <3>2. \A o : Kept(o) => Kept(o)'
      BY <1>7, <1>9, KeptGrows
    <3>3. /\ (inputs[i].kind = "feature" => inputs[i].trackEvents) => Kept(MakeOutputEvent(inputs[i].kind, i))
          /\ inputs[i].kind = "feature" /\ inputs[i].debug => Kept(MakeOutputEvent("debug", i))
      BY DEF Invariant, EventsKept
    <3> QED
      BY <3>1, <3>2, <3>3
  <2> QED
    BY <1>3, <1>4, <2>1, <2>2 DEF EventsKept
<1>18. EvaluationsCounted'
  <2>1. ASSUME NEW i PROVE Counts(i)' = {m[p] : p \in Counts(i)}
    <3>1. {j \in DOMAIN new : new[j].kind = "summary" /\ i \in new[j].from} = {}
      BY <1>4, <1>6, <1>8
    <3> QED
      BY <1>7, <3>1, CountsGrow
  <2>2. Counts(n) = {}
    <3>1. \A p \in Places : At(p).kind = "summary" => n \notin At(p).from
      BY <1>0, <1>3 DEF Sourced
    <3> QED
      BY <3>1 DEF Counts
  <2>3. (e.kind = "feature" => n \in summary') /\ \A i \in DOMAIN inputs : i \in summary' <=> i \in summary
    BY <1>2, <1>3 DEF Summarize
  <2>4. ASSUME NEW i \in DOMAIN inputs, inputs[i].kind = "feature"
        PROVE  IF i \in summary' THEN Counts(i)' = {} ELSE \E p \in Places' : Counts(i)' = {p}
    <3>1. IF i \in summary THEN Counts(i) = {} ELSE \E p \in Places : Counts(i) = {p}
      BY <2>4 DEF Invariant, EvaluationsCounted
    <3>2. \A p \in Places : m[p] \in Places'
      BY <1>7 DEF Grown
    <3> QED
      BY <2>1, <2>3, <3>1, <3>2
  <2>5. ASSUME NEW i \in DOMAIN inputs', inputs'[i].kind = "feature"
        PROVE  IF i \in summary' THEN Counts(i)' = {} ELSE \E p \in Places' : Counts(i)' = {p}
    <3>1. CASE i \in DOMAIN inputs
      BY <1>3, <2>4, <2>5, <3>1 DEF InputsGrow
    <3>2. CASE i = n
      BY <1>3, <2>1, <2>2, <2>3, <2>5, <3>2
    <3> QED
      BY <1>3, <3>1, <3>2
  <2> QED
    BY <2>5 DEF EvaluationsCounted
<1>19. IsFiniteSet(dropped') /\ DropsCounted'
  <2> DEFINE f == [k \in 1..Len(outs) |-> [output |-> outs[k], report |-> Uncounted]]
             E == {f[k] : k \in taken + 1..Len(outs)}
             D == {d \in dropped : d.report = Uncounted}
  <2>0. IsFiniteSet(dropped) /\ DropsCounted /\ taken \in Nat /\ Len(outs) \in Nat /\ taken <= Len(outs)
    BY <1>4, <1>5 DEF Invariant, Typed
  <2>a. \A k \in taken + 1..Len(outs) :
          /\ k \in DOMAIN outs /\ k \in Nat /\ f[k] = [output |-> outs[k], report |-> Uncounted]
          /\ f[k].output = outs[k] /\ f[k].report = Uncounted
    BY <1>8, <2>0
  <2> HIDE DEF f
  <2>1. dropped' = dropped \cup E
    <3>1. E = {[output |-> outs[k], report |-> Uncounted] : k \in taken + 1..Len(outs)}
      BY <2>a
    <3> QED
      BY <1>5, <3>1
  <2>2. \A k \in taken + 1..Len(outs) : f[k] \notin dropped
    <3>1. ASSUME NEW k \in taken + 1..Len(outs) PROVE f[k].output.from = {n}
      BY <1>4, <2>0, <2>a
    <3>2. \A d \in dropped : d.output.from # {n}
      BY <1>0, <1>3 DEF Sourced, SourceOf
    <3> QED
      BY <3>1, <3>2
  <2>3. \A j, k \in taken + 1..Len(outs) : f[j] = f[k] => j = k
    <3>1. ASSUME NEW j \in taken + 1..Len(outs), NEW k \in taken + 1..Len(outs), f[j] = f[k] PROVE j = k
      <4>1. j \in DOMAIN outs /\ k \in DOMAIN outs /\ outs[j] = outs[k] /\ j \in Nat /\ k \in Nat
        <5>1. f[j].output = outs[j] /\ f[k].output = outs[k]
          BY <2>0, <2>a
        <5> QED
          BY <2>0, <2>a, <3>1, <5>1
      <4>2. outs[j] \in Output /\ outs[j].kind \in {"index", "identify", "custom", "feature", "debug"}
        <5>1. outs[j] \in Output
          BY <4>1
        <5> QED
          BY <1>4, <4>1, <5>1 DEF Output
      <4>3. Rank[outs[j].kind] \in Nat
        BY <4>2 DEF Rank
      <4>4. ~(j < k) /\ ~(k < j)
        BY <1>4, <4>1, <4>3
      <4> QED
        BY <4>1, <4>4
    <3> QED
      BY <3>1
  <2>4. \A d \in E : d.report = Uncounted
    <3>1. \A k \in taken + 1..Len(outs) : f[k].report = Uncounted
      BY <2>0, <2>a
    <3> QED
      BY <3>1, Zenon
  <2>b. PICK x \in Nat, y \in Nat : x = taken /\ y = Len(outs) /\ x <= y
    BY <2>0
  <2>c. ExistsBijection(x + 1..y, E) /\ dropped \cap E = {} /\ D \cap E = {}
    <3> DEFINE g == [k \in x + 1..y |-> f[k]]
    <3>1. g \in Bijection(x + 1..y, E)
      BY <2>2, <2>3, <2>b DEF Bijection, Injection, Surjection, IsInjective
    <3> QED
      BY <3>1, <2>2 DEF ExistsBijection
  <2>5. IsFiniteSet(dropped')
    BY <2>0, <2>1, <2>b, <2>c, AddedMany
  <2>6. IsFiniteSet(D) /\ Cardinality(D \cup E) = Cardinality(D) + Len(outs) - taken
    <3>1. IsFiniteSet(D)
      BY <2>0, FS_Subset
    <3> HIDE DEF D, E
    <3> QED
      BY <3>1, <2>b, <2>c, AddedMany
  <2>7. {d \in dropped' : d.report = Uncounted} = D \cup E
    BY <2>1, <2>4
  <2>8. \A j : j # Uncounted => {d \in dropped' : d.report = j} = {d \in dropped : d.report = j}
    BY <2>1, <2>4
  <2>9. Reports' = Reports /\ \A r \in Reports : r # Uncounted
    BY <1>0, <1>2 DEF Reports, TypeOK, Uncounted
  <2>10. droppedEvents' = Cardinality({d \in dropped' : d.report = Uncounted})
    BY <1>5, <2>0, <2>6, <2>7 DEF DropsCounted
  <2>11. \A r \in Reports' : posts'[r].data.droppedEvents = Cardinality({d \in dropped' : d.report = r})
    BY <1>2, <2>0, <2>8, <2>9 DEF DropsCounted
  <2>12. \A d \in dropped' : d.report \in Reports' \cup {Uncounted}
    BY <2>0, <2>1, <2>4, <2>9 DEF DropsCounted
  <2> QED
    BY <2>5, <2>10, <2>11, <2>12 DEF DropsCounted
<1>20. Delivery' /\ RefusalRemembered'
  BY <1>2 DEF Invariant, Delivery, RefusalRemembered, Batches
<1> QED
  BY <1>0, <1>10, <1>11, <1>15, <1>16, <1>17, <1>18, <1>19, <1>20 DEF Invariant, Typed

-----------------------------------------------------------------------------
(* The steps that take nothing in.                                         *)
LEMMA QuietKeeps ==
  ASSUME Invariant, TypeOK', UNCHANGED inputs, known'.keyMap = known.keyMap,
         NEW new \in Seq(Output), NEW m, NEW a, Grown(new, m, a),
         \A k \in DOMAIN new : new[k].kind = "summary" /\ new[k].from \subseteq DOMAIN inputs,
         DropsGrow, \A f \in dropped' : \E d \in dropped : f.output = d.output
  PROVE  Sourced' /\ InOrder' /\ KnownIsTold' /\ IndexedBeforeUse' /\ EventsKept'
<1>1. TypeOK /\ Sourced /\ InOrder /\ KnownIsTold /\ IndexedBeforeUse /\ EventsKept /\ InputsGrow
  BY DEF Invariant, Typed, InputsGrow
<1>2. Sourced'
  <2>1. ASSUME NEW p \in Places'
        PROVE  IF At(p)'.kind = "summary" THEN At(p)'.from \subseteq DOMAIN inputs' ELSE SourceOf(At(p))' # {}
    BY <1>1, SourcesGrow
  <2>2. \A d \in dropped' : d.output.kind # "summary" /\ SourceOf(d.output)' # {}
    BY <1>1 DEF Sourced, SourceOf
  <2> QED
    BY <2>1, <2>2 DEF Sourced
<1>3. InOrder'
  <2>1. \A k \in DOMAIN new : new[k].kind = "summary"
    OBVIOUS
  <2> QED
    BY <1>1, <2>1, OrderGrows
<1>4. KnownIsTold'
  BY <1>1, ToldGrows DEF KnownIsTold
<1>5. IndexedBeforeUse'
  <2>1. \A k \in DOMAIN new : new[k].kind \notin {"custom", "feature"}
    OBVIOUS
  <2> QED
    BY <1>1, <2>1, IndexedGrows
<1>6. EventsKept'
  <2>1. \A o : Kept(o) => Kept(o)'
    BY KeptGrows
  <2>2. ASSUME NEW i \in DOMAIN inputs
        PROVE  /\ (inputs'[i].kind = "feature" => inputs'[i].trackEvents) => Kept(MakeOutputEvent(inputs[i].kind, i))'
               /\ inputs'[i].kind = "feature" /\ inputs'[i].debug => Kept(MakeOutputEvent("debug", i))'
    <3>1. /\ (inputs[i].kind = "feature" => inputs[i].trackEvents) => Kept(MakeOutputEvent(inputs[i].kind, i))
          /\ inputs[i].kind = "feature" /\ inputs[i].debug => Kept(MakeOutputEvent("debug", i))
      BY <1>1 DEF EventsKept
    <3> QED
      BY <2>1, <3>1
  <2> QED
    BY <2>2 DEF EventsKept
<1> QED
  BY <1>2, <1>3, <1>4, <1>5, <1>6

(* A flush keeps the types.                                                *)
LEMMA FlushTyped ==
  ASSUME Typed, Flush,
         UNCHANGED <<known, droppedEvents, deduplicatedUsers, shutdown, closed, inputs, dropped>>
  PROVE  TypeOK'
<1>0. TypeOK
  BY DEF Typed
<1>1. PICK N : N = Len(posts) + 1
  OBVIOUS
<1>2. /\ Batch \in Seq(Output) /\ Len(Batch) \in 1..Capacity + 1 /\ Len(Batch) \in 0..Capacity + 1
  <2>1. Batch \in Seq(Output) /\ Batch # <<>> /\ Len(Batch) = Len(queue) + Len(Counted) /\ Len(Counted) \in 0..1
        /\ Len(queue) \in Nat
    BY <1>0, BatchShape DEF Flush
  <2>2. Len(Batch) # 0 /\ Len(Batch) \in Nat
    BY <2>1
  <2>3. Len(queue) <= Capacity /\ Capacity \in Nat
    BY <1>0, ProcessorAssumption DEF TypeOK
  <2>4. \A x \in Nat, y \in 0..1 : x <= Capacity /\ x + y # 0 => x + y \in 1..Capacity + 1 /\ x + y \in 0..Capacity + 1
    BY <2>3
  <2>5. Len(Batch) \in 1..Capacity + 1 /\ Len(Batch) \in 0..Capacity + 1
    BY <2>1, <2>2, <2>3, <2>4
  <2> QED
    BY <2>1, <2>5
<1> DEFINE r == [type |-> "AnalyticsEvents", data |-> [events |-> Batch], payloadId |-> N,
                 uri |-> "bulk", canRetry |-> TRUE, stage |-> "sent", received |-> {}]
<1>3. /\ DOMAIN posts = 1..Len(posts) /\ DOMAIN posts' = 1..N /\ N \in Nat \ {0} /\ posts'[N] = r
      /\ \A n \in DOMAIN posts : posts'[n] = posts[n]
      /\ Batches' = Batches \cup {N} /\ N \notin Batches /\ Batches \subseteq DOMAIN posts
      /\ queue' = <<>> /\ summary' = {} /\ eventsInLastBatch' = Len(Batch)
  BY <1>0, <1>1, FlushPosts
<1>4. r \in Sender!Posts /\ r.data = [events |-> Batch] /\ r.data \in [events : Seq(Output)]
  BY <1>2, <1>3 DEF Sender!Posts, Sender!PostType, Sender!Status
<1> HIDE DEF r
<1>5. posts' = Append(posts, r)
  BY <1>1 DEF Flush, Sender!SendEventData, Sender!FreshId, r
<1>6. posts' \in Seq(Sender!Posts)
  BY <1>0, <1>4, <1>5 DEF TypeOK
<1>7. \A n \in DOMAIN posts' : posts'[n].data \in IF n \in Batches' THEN [events : Seq(Output)] ELSE Stats
  <2>1. ASSUME NEW n \in DOMAIN posts
        PROVE  posts'[n].data \in IF n \in Batches' THEN [events : Seq(Output)] ELSE Stats
    <3>1. n # N /\ posts'[n] = posts[n] /\ (n \in Batches' <=> n \in Batches)
      BY <1>1, <1>3
    <3>2. posts[n].data \in IF n \in Batches THEN [events : Seq(Output)] ELSE Stats
      BY <1>0 DEF TypeOK
    <3> QED
      BY <3>1, <3>2
  <2>2. posts'[N].data \in [events : Seq(Output)] /\ N \in Batches'
    BY <1>3, <1>4
  <2>3. \A n \in DOMAIN posts' : n \in DOMAIN posts \/ n = N
    BY <1>1, <1>3
  <2> QED
    BY <2>1, <2>2, <2>3
<1>8. \A n \in Batches' : Len(posts'[n].data.events) \in 1..Capacity + 1
  <2>1. ASSUME NEW n \in Batches PROVE Len(posts'[n].data.events) \in 1..Capacity + 1
    <3>1. posts'[n] = posts[n]
      BY <1>3
    <3> QED
      BY <1>0, <3>1 DEF TypeOK
  <2>2. posts'[N].data.events = Batch
    BY <1>3, <1>4
  <2> QED
    BY <1>2, <1>3, <2>1, <2>2
<1>9. queue' \in Seq(Output) /\ Len(queue') <= Capacity /\ summary' \subseteq DOMAIN inputs'
  BY <1>3, ProcessorAssumption
<1> QED
  BY <1>0, <1>2, <1>3, <1>6, <1>7, <1>8, <1>9 DEF TypeOK

(* A flush keeps the invariant.                                            *)
LEMMA FlushKeeps ==
  ASSUME Invariant, Flush,
         UNCHANGED <<known, droppedEvents, deduplicatedUsers, shutdown, closed, inputs, dropped>>
  PROVE  Invariant'
<1>0. TypeOK /\ TypeOK' /\ Typed /\ Sourced
  BY FlushTyped DEF Invariant, Typed
<1>1. PICK N : N = Len(posts) + 1
  OBVIOUS
<1>2. /\ DOMAIN posts = 1..Len(posts) /\ DOMAIN posts' = 1..N /\ N \in Nat \ {0}
      /\ posts'[N].type = "AnalyticsEvents" /\ posts'[N].payloadId = N /\ posts'[N].stage = "sent" /\ posts'[N].received = {}
      /\ \A n \in DOMAIN posts : posts'[n] = posts[n]
      /\ Batches' = Batches \cup {N} /\ N \notin Batches /\ Batches \subseteq DOMAIN posts
      /\ queue' = <<>> /\ summary' = {}
  BY <1>0, <1>1, FlushPosts
<1>3. \A n \in DOMAIN posts' : n \in DOMAIN posts \/ n = N
  BY <1>1, <1>2
<1>4. PICK new, m, a :
        /\ new \in Seq(Output) /\ new = Counted /\ Grown(new, m, a)
        /\ \A k \in DOMAIN new : k = 1 /\ new[k] = GetSummary
        /\ summary # {} => DOMAIN new = {1}
        /\ summary = {} => DOMAIN new = {}
  <2>1. Counted \in Seq(Output) /\ (\A k \in DOMAIN Counted : k = 1 /\ Counted[k] = GetSummary)
        /\ (summary # {} => DOMAIN Counted = {1})
    BY <1>0, BatchShape
  <2>2. summary = {} => DOMAIN Counted = {}
    BY DEF Counted
  <2> QED
    BY <1>0, <2>1, <2>2, FlushGrows
<1>5. \A k \in DOMAIN new : new[k].kind = "summary" /\ new[k].from = summary /\ summary \subseteq DOMAIN inputs
  BY <1>0, <1>4 DEF GetSummary, TypeOK
<1>6. Sourced' /\ InOrder' /\ KnownIsTold' /\ IndexedBeforeUse' /\ EventsKept'
  <2>1. DropsGrow /\ (\A f \in dropped' : \E d \in dropped : f.output = d.output) /\ known'.keyMap = known.keyMap
    BY DEF DropsGrow
  <2>2. \A k \in DOMAIN new : new[k].kind = "summary" /\ new[k].from \subseteq DOMAIN inputs
    BY <1>5
  <2> QED
    BY <1>0, <1>4, <2>1, <2>2, QuietKeeps
<1>7. EvaluationsCounted'
  <2>1. ASSUME NEW i \in DOMAIN inputs, inputs[i].kind = "feature"
        PROVE  \E p \in Places' : Counts(i)' = {p}
    <3>1. IF i \in summary THEN Counts(i) = {} ELSE \E p \in Places : Counts(i) = {p}
      BY <2>1 DEF Invariant, EvaluationsCounted
    <3>2. Counts(i)' = {m[p] : p \in Counts(i)}
                       \cup {a[k] : k \in {j \in DOMAIN new : new[j].kind = "summary" /\ i \in new[j].from}}
      BY <1>4, CountsGrow
    <3>3. (\A p \in Places : m[p] \in Places') /\ (\A k \in DOMAIN new : a[k] \in Places')
      BY <1>4 DEF Grown
    <3>4. CASE i \in summary
      <4>1. {j \in DOMAIN new : new[j].kind = "summary" /\ i \in new[j].from} = {1} /\ 1 \in DOMAIN new
        BY <1>4, <1>5, <3>4
      <4>2. Counts(i)' = {a[1]}
        BY <3>1, <3>2, <3>4, <4>1
      <4> QED
        BY <3>3, <4>1, <4>2
    <3>5. CASE i \notin summary
      <4>1. {j \in DOMAIN new : new[j].kind = "summary" /\ i \in new[j].from} = {}
        BY <1>5, <3>5
      <4>2. PICK p \in Places : Counts(i) = {p}
        BY <3>1, <3>5
      <4>3. Counts(i)' = {m[p]}
        BY <3>2, <4>1, <4>2
      <4> QED
        BY <3>3, <4>3
    <3> QED
      BY <3>4, <3>5
  <2> QED
    BY <1>2, <2>1 DEF EvaluationsCounted
<1>8. DropsCounted' /\ IsFiniteSet(dropped')
  <2>1. Reports' = Reports
    BY <1>1, <1>2, <1>3 DEF Reports
  <2>2. \A n \in Reports : posts'[n] = posts[n]
    BY <1>2 DEF Reports
  <2>3. DropsCounted /\ IsFiniteSet(dropped)
    BY DEF Invariant, Typed
  <2> QED
    BY <2>1, <2>2, <2>3 DEF DropsCounted
<1>9. Delivery'
  <2>1. ASSUME NEW n \in DOMAIN posts'
        PROVE  /\ posts'[n].payloadId = IF n \in Batches' THEN n ELSE Sender!NoId
               /\ posts'[n].received \subseteq {posts'[n].payloadId}
    <3>1. CASE n = N
      BY <1>2, <3>1
    <3>2. CASE n # N
      <4>1. n \in DOMAIN posts /\ posts'[n] = posts[n] /\ (n \in Batches' <=> n \in Batches)
        BY <1>2, <1>3, <3>2
      <4> QED
        BY <4>1 DEF Invariant, Delivery
    <3> QED
      BY <3>1, <3>2
  <2> QED
    BY <2>1 DEF Delivery, Sender!NoId
<1>10. RefusalRemembered'
  BY <1>2 DEF Invariant, RefusalRemembered
<1> QED
  BY <1>0, <1>6, <1>7, <1>8, <1>9, <1>10 DEF Invariant, Typed

(* A diagnostic report posts the number of dropped events.                 *)
LEMMA ReportPosts ==
  ASSUME TypeOK, Report
  PROVE  LET N == Len(posts) + 1 IN
         /\ DOMAIN posts = 1..Len(posts) /\ DOMAIN posts' = 1..N /\ N \in Nat \ {0}
         /\ \A n \in DOMAIN posts : posts'[n] = posts[n]
         /\ posts' \in Seq(Sender!Posts)
         /\ posts'[N].type = "DiagnosticEvent" /\ posts'[N].payloadId = Sender!NoId /\ posts'[N].received = {}
         /\ posts'[N].data \in Stats /\ posts'[N].data.droppedEvents = droppedEvents
         /\ Batches' = Batches /\ Reports' = Reports \cup {N} /\ N \notin Reports /\ N \notin Batches
<1> DEFINE data == [droppedEvents |-> droppedEvents, deduplicatedUsers |-> deduplicatedUsers,
                    eventsInLastBatch |-> eventsInLastBatch]
           r == [type |-> "DiagnosticEvent", data |-> data, payloadId |-> Sender!NoId,
                 uri |-> "diagnostic", canRetry |-> TRUE, stage |-> "sent", received |-> {}]
<1>1. posts' = Append(posts, r)
  BY DEF Report, Sender!SendEventData
<1>2. data \in Stats /\ data.droppedEvents = droppedEvents
  BY ProcessorAssumption DEF TypeOK, Stats
<1> HIDE DEF data
<1>3. /\ r \in Sender!Posts /\ r.type = "DiagnosticEvent" /\ r.payloadId = Sender!NoId /\ r.received = {}
      /\ r.data = data
  BY <1>2 DEF Sender!Posts, Sender!PostType, Sender!Status, Sender!NoId
<1> HIDE DEF r
<1>4. /\ Len(posts') = Len(posts) + 1 /\ DOMAIN posts = 1..Len(posts) /\ DOMAIN posts' = 1..Len(posts) + 1
      /\ Len(posts) + 1 \in Nat \ {0}
      /\ \A n \in DOMAIN posts : posts'[n] = posts[n]
      /\ posts'[Len(posts) + 1] = r /\ posts' \in Seq(Sender!Posts)
  BY <1>1, <1>3 DEF TypeOK
<1>5. \A n \in DOMAIN posts' : n \in DOMAIN posts \/ n = Len(posts) + 1
  BY <1>4
<1>6. Batches' = Batches
  BY <1>3, <1>4, <1>5 DEF Batches
<1>7. Reports' = Reports \cup {Len(posts) + 1} /\ Len(posts) + 1 \notin Reports /\ Len(posts) + 1 \notin Batches
  BY <1>3, <1>4, <1>5 DEF Reports, Batches
<1> QED
  BY <1>2, <1>3, <1>4, <1>6, <1>7

(* A report keeps the types.                                               *)
LEMMA ReportTyped ==
  ASSUME Typed, Report, UNCHANGED <<queue, summary, known, eventsInLastBatch, shutdown, closed, inputs>>
  PROVE  TypeOK'
<1>0. TypeOK
  BY DEF Typed
<1>1. PICK N : N = Len(posts) + 1
  OBVIOUS
<1>2. /\ DOMAIN posts = 1..Len(posts) /\ DOMAIN posts' = 1..N /\ N \in Nat \ {0}
      /\ \A n \in DOMAIN posts : posts'[n] = posts[n]
      /\ posts' \in Seq(Sender!Posts) /\ posts'[N].data \in Stats
      /\ Batches' = Batches /\ N \notin Batches /\ Batches \subseteq DOMAIN posts
  BY <1>0, <1>1, ReportPosts DEF Batches
<1>3. \A n \in DOMAIN posts' : posts'[n].data \in IF n \in Batches' THEN [events : Seq(Output)] ELSE Stats
  <2>1. ASSUME NEW n \in DOMAIN posts
        PROVE  posts'[n].data \in IF n \in Batches' THEN [events : Seq(Output)] ELSE Stats
    BY <1>0, <1>2 DEF TypeOK
  <2>2. \A n \in DOMAIN posts' : n \in DOMAIN posts \/ n = N
    BY <1>1, <1>2
  <2> QED
    BY <1>2, <2>1, <2>2
<1>4. \A n \in Batches' : Len(posts'[n].data.events) \in 1..Capacity + 1
  BY <1>0, <1>2 DEF TypeOK
<1>5. dropped' \subseteq Dropped
  <2>1. ASSUME NEW d \in dropped
        PROVE  (IF d.report = Uncounted THEN [d EXCEPT !.report = Len(posts) + 1] ELSE d) \in Dropped
    <3>1. d \in Dropped /\ Len(posts) + 1 \in Nat
      BY <1>0, <1>1, <1>2 DEF TypeOK
    <3> QED
      BY <3>1 DEF Dropped
  <2> QED
    BY <2>1 DEF Report
<1> QED
  BY <1>0, <1>2, <1>3, <1>4, <1>5 DEF TypeOK, Report

(* A report keeps the invariant: with it go the dropped outputs that it    *)
(* counts.                                                                 *)
LEMMA ReportKeeps ==
  ASSUME Invariant, Report, UNCHANGED <<queue, summary, known, eventsInLastBatch, shutdown, closed, inputs>>
  PROVE  Invariant'
<1>0. TypeOK /\ TypeOK' /\ Typed /\ DropsCounted /\ IsFiniteSet(dropped)
  BY ReportTyped DEF Invariant, Typed
<1>1. PICK N : N = Len(posts) + 1
  OBVIOUS
<1>2. /\ DOMAIN posts = 1..Len(posts) /\ DOMAIN posts' = 1..N /\ N \in Nat \ {0}
      /\ \A n \in DOMAIN posts : posts'[n] = posts[n]
      /\ posts'[N].payloadId = Sender!NoId /\ posts'[N].received = {} /\ posts'[N].data.droppedEvents = droppedEvents
      /\ Batches' = Batches /\ Reports' = Reports \cup {N} /\ N \notin Reports /\ N \notin Batches
      /\ Batches \subseteq DOMAIN posts /\ Reports \subseteq DOMAIN posts
  BY <1>0, <1>1, ReportPosts DEF Batches, Reports
<1> DEFINE Count(d) == IF d.report = Uncounted THEN [d EXCEPT !.report = N] ELSE d
           Waiting == {d \in dropped : d.report = Uncounted}
           Now == {d \in dropped' : d.report = N}
<1>3. dropped' = {Count(d) : d \in dropped}
  BY <1>1 DEF Report
<1>4. ASSUME NEW d \in dropped
      PROVE  /\ Count(d).output = d.output /\ d = [output |-> d.output, report |-> d.report]
             /\ Count(d).report = IF d.report = Uncounted THEN N ELSE d.report
             /\ d.report # Uncounted => Count(d) = d
             /\ d.report \in Reports \cup {Uncounted}
  <2>1. d \in Dropped
    BY <1>0 DEF TypeOK
  <2> QED
    BY <1>0, <2>1 DEF Dropped, DropsCounted
<1> HIDE DEF Count
<1>5. /\ DropsGrow /\ \A f \in dropped' : \E d \in dropped : f.output = d.output
  BY <1>3, <1>4 DEF DropsGrow
<1>6. Grown(<<>>, Same, <<>>)
  <2>1. \A n \in Batches : posts'[n].data = posts[n].data
    BY <1>2
  <2> QED
    BY <1>2, <2>1, UnmovedGrows
<1>7. PICK new, m, a : new \in Seq(Output) /\ new = <<>> /\ Grown(new, m, a)
  <2>1. <<>> \in Seq(Output)
    OBVIOUS
  <2> QED
    BY <1>6, <2>1, Zenon
<1>8. Sourced' /\ InOrder' /\ KnownIsTold' /\ IndexedBeforeUse' /\ EventsKept'
  <2>1. known'.keyMap = known.keyMap /\ DOMAIN new = {}
    BY <1>7
  <2> QED
    BY <1>0, <1>5, <1>7, <2>1, QuietKeeps
<1>9. EvaluationsCounted'
  <2>1. Places' = Places
    BY <1>2 DEF Places, Line
  <2>2. \A i : Counts(i)' = Counts(i)
    BY <1>2, <2>1 DEF Counts, At, Line, Places
  <2> QED
    BY <2>1, <2>2 DEF Invariant, EvaluationsCounted
<1>10. IsFiniteSet(dropped')
  <2> DEFINE f == [d \in dropped |-> Count(d)]
  <2>1. f \in Surjection(dropped, dropped')
    BY <1>3 DEF Surjection
  <2> QED
    BY <1>0, <2>1, FS_Surjection
<1>11. Cardinality(Now) = Cardinality(Waiting)
  <2> DEFINE f == [d \in Waiting |-> Count(d)]
  <2>1. \A d \in Waiting : Count(d) \in Now
    BY <1>3, <1>4
  <2>2. \A c \in Now : \E d \in Waiting : c = Count(d)
    <3>1. ASSUME NEW c \in Now PROVE \E d \in Waiting : c = Count(d)
      <4>1. PICK d \in dropped : c = Count(d)
        BY <1>3
      <4>2. c.report = N
        OBVIOUS
      <4> QED
        BY <1>2, <1>4, <4>1, <4>2
    <3> QED
      BY <3>1
  <2>3. \A c, d \in Waiting : Count(c) = Count(d) => c = d
    BY <1>4
  <2>4. f \in Bijection(Waiting, Now)
    BY <2>1, <2>2, <2>3 DEF Bijection, Injection, Surjection, IsInjective
  <2>5. IsFiniteSet(Waiting)
    BY <1>0, FS_Subset
  <2> QED
    BY <2>4, <2>5, FS_Bijection DEF ExistsBijection
<1>12. DropsCounted'
  <2>1. {d \in dropped' : d.report = Uncounted} = {}
    BY <1>2, <1>3, <1>4 DEF Uncounted
  <2>2. droppedEvents' = 0 /\ Cardinality({}) = 0
    BY FS_EmptySet DEF Report
  <2>3. droppedEvents' = Cardinality({d \in dropped' : d.report = Uncounted})
    BY <2>1, <2>2
  <2>4. posts'[N].data.droppedEvents = Cardinality(Now)
    BY <1>0, <1>2, <1>11 DEF DropsCounted
  <2>5. ASSUME NEW r \in Reports PROVE posts'[r].data.droppedEvents = Cardinality({d \in dropped' : d.report = r})
    <3>1. r # N /\ r # Uncounted
      BY <1>0, <1>2 DEF Uncounted
    <3>2. {d \in dropped' : d.report = r} = {d \in dropped : d.report = r}
      BY <1>3, <1>4, <3>1
    <3> QED
      BY <1>0, <1>2, <3>2 DEF DropsCounted
  <2>6. \A d \in dropped' : d.report \in Reports' \cup {Uncounted}
    BY <1>2, <1>3, <1>4
  <2> QED
    BY <1>2, <2>3, <2>4, <2>5, <2>6 DEF DropsCounted
<1>13. Delivery'
  <2>1. ASSUME NEW n \in DOMAIN posts'
        PROVE  /\ posts'[n].payloadId = IF n \in Batches' THEN n ELSE Sender!NoId
               /\ posts'[n].received \subseteq {posts'[n].payloadId}
    <3>1. CASE n = N
      BY <1>2, <3>1
    <3>2. CASE n # N
      <4>1. n \in DOMAIN posts /\ posts'[n] = posts[n]
        BY <1>1, <1>2, <3>2
      <4> QED
        BY <1>2, <4>1 DEF Invariant, Delivery
    <3> QED
      BY <3>1, <3>2
  <2> QED
    BY <2>1 DEF Delivery, Sender!NoId
<1>14. RefusalRemembered'
  BY <1>2 DEF Invariant, RefusalRemembered
<1> QED
  BY <1>0, <1>8, <1>9, <1>10, <1>12, <1>13, <1>14 DEF Invariant, Typed

(* An answer or a retry, and the steps that leave the posts alone.         *)
LEMMA AnsweredTyped ==
  ASSUME Typed, NEW n \in DOMAIN posts,
         NEW q \in Sender!Posts, q.type = posts[n].type, q.data = posts[n].data,
         posts' = [posts EXCEPT ![n] = q], shutdown' \in BOOLEAN,
         UNCHANGED <<queue, summary, known, droppedEvents, deduplicatedUsers, eventsInLastBatch,
                     closed, inputs, dropped>>
  PROVE  TypeOK' /\ Batches' = Batches /\ Reports' = Reports
         /\ DOMAIN posts' = DOMAIN posts /\ \A k \in DOMAIN posts : posts'[k].data = posts[k].data
<1>0. TypeOK
  BY DEF Typed
<1>1. /\ DOMAIN posts' = DOMAIN posts /\ posts' \in Seq(Sender!Posts)
      /\ \A k \in DOMAIN posts : posts'[k] = IF k = n THEN q ELSE posts[k]
  BY <1>0 DEF TypeOK
<1>2. \A k \in DOMAIN posts : posts'[k].data = posts[k].data /\ posts'[k].type = posts[k].type
  BY <1>1
<1>3. Batches' = Batches /\ Reports' = Reports
  BY <1>1, <1>2 DEF Batches, Reports
<1>4. \A k \in DOMAIN posts' : posts'[k].data \in IF k \in Batches' THEN [events : Seq(Output)] ELSE Stats
  BY <1>0, <1>1, <1>2, <1>3 DEF TypeOK
<1>5. \A k \in Batches' : Len(posts'[k].data.events) \in 1..Capacity + 1
  BY <1>0, <1>2, <1>3 DEF TypeOK, Batches
<1> QED
  BY <1>0, <1>1, <1>2, <1>3, <1>4, <1>5 DEF TypeOK

(* A step that moves no output keeps what is said of outputs.              *)
LEMMA StillKeeps ==
  ASSUME Invariant, TypeOK', Delivery', RefusalRemembered', Batches' = Batches, Reports' = Reports,
         \A k \in DOMAIN posts : posts'[k].data = posts[k].data,
         known'.keyMap = known.keyMap,
         UNCHANGED <<queue, summary, droppedEvents, inputs, dropped>>
  PROVE  Invariant'
<1>0. TypeOK /\ DropsCounted /\ IsFiniteSet(dropped)
  BY DEF Invariant, Typed
<1>1. Batches \subseteq DOMAIN posts /\ Reports \subseteq DOMAIN posts
  BY DEF Batches, Reports
<1>2. Grown(<<>>, Same, <<>>)
  BY <1>1, UnmovedGrows
<1>3. PICK new, m, a : new \in Seq(Output) /\ new = <<>> /\ Grown(new, m, a)
  <2>1. <<>> \in Seq(Output)
    OBVIOUS
  <2> QED
    BY <1>2, <2>1, Zenon
<1>4. Sourced' /\ InOrder' /\ KnownIsTold' /\ IndexedBeforeUse' /\ EventsKept'
  <2>1. DOMAIN new = {} /\ DropsGrow /\ (\A f \in dropped' : \E d \in dropped : f.output = d.output)
    BY <1>3 DEF DropsGrow
  <2> QED
    BY <1>0, <1>3, <2>1, QuietKeeps
<1>5. EvaluationsCounted'
  <2>1. Places' = Places
    BY <1>1 DEF Places, Line
  <2>2. \A i : Counts(i)' = Counts(i)
    BY <1>1, <2>1 DEF Counts, At, Line, Places
  <2> QED
    BY <2>1, <2>2 DEF Invariant, EvaluationsCounted
<1>6. DropsCounted' /\ IsFiniteSet(dropped')
  BY <1>0, <1>1 DEF DropsCounted
<1> QED
  BY <1>0, <1>4, <1>5, <1>6 DEF Invariant, Typed

(* What the answers and the retry do to the post they are about.           *)
LEMMA AnswerChanges ==
  ASSUME TypeOK, NEW n \in DOMAIN posts, Answer(n) \/ Retry(n)
  PROVE  \E q \in Sender!Posts :
           /\ posts' = [posts EXCEPT ![n] = q]
           /\ q.type = posts[n].type /\ q.data = posts[n].data /\ q.payloadId = posts[n].payloadId
           /\ q.received \subseteq posts[n].received \cup {posts[n].payloadId}
           /\ q.stage = "FailedAndMustShutDown" => Answer(n)
<1> DEFINE p == posts[n]
<1>0. p \in Sender!Posts
  BY DEF TypeOK
<1>a. p.received \cup {p.payloadId} \in SUBSET Nat
  BY <1>0 DEF Sender!Posts
<1> HIDE DEF p
<1>b. posts[n] = p
  BY DEF p
<1>1. CASE Answer(n)
  <2>1. CASE Sender!Accepted(n)
    <3> DEFINE q == [p EXCEPT !.stage = "Succeeded", !.received = p.received \cup {p.payloadId}]
    <3>1. posts' = [posts EXCEPT ![n] = q]
      BY <2>1 DEF Sender!Accepted, Sender!Received, TypeOK, p
    <3>2. /\ q \in Sender!Posts /\ q.type = p.type /\ q.data = p.data /\ q.payloadId = p.payloadId
          /\ q.received = p.received \cup {p.payloadId}
      BY <1>0, <1>a DEF Sender!Posts, Sender!Status
    <3> HIDE DEF q
    <3> QED
      BY <1>1, <1>b, <3>1, <3>2
  <2>2. CASE Sender!Refused(n)
    <3> DEFINE q == [p EXCEPT !.stage = "FailedAndMustShutDown"]
    <3>1. posts' = [posts EXCEPT ![n] = q]
      BY <2>2 DEF Sender!Refused, TypeOK, p
    <3>2. /\ q \in Sender!Posts /\ q.type = p.type /\ q.data = p.data /\ q.payloadId = p.payloadId
          /\ q.received = p.received
      BY <1>0 DEF Sender!Posts, Sender!Status
    <3> HIDE DEF q
    <3> QED
      BY <1>1, <1>b, <3>1, <3>2
  <2>3. CASE Sender!TriedInVain(n)
    <3>1. PICK stage \in {"waiting", "Failed"}, got \in {p.received, p.received \cup {p.payloadId}} :
            posts' = [posts EXCEPT ![n] = [p EXCEPT !.stage = stage, !.received = got]]
      BY <2>3 DEF Sender!TriedInVain, Sender!Received, TypeOK, p
    <3> DEFINE q == [p EXCEPT !.stage = stage, !.received = got]
    <3>2. /\ q \in Sender!Posts /\ q.type = p.type /\ q.data = p.data /\ q.payloadId = p.payloadId
          /\ q.received \subseteq p.received \cup {p.payloadId}
      BY <1>0, <1>a DEF Sender!Posts, Sender!Status
    <3>3. posts' = [posts EXCEPT ![n] = q]
      BY <3>1
    <3> HIDE DEF q
    <3> QED
      BY <1>1, <1>b, <3>2, <3>3
  <2> QED
    BY <1>1, <2>1, <2>2, <2>3 DEF Answer
<1>2. CASE Retry(n)
  <2> DEFINE q == [p EXCEPT !.stage = "sent", !.canRetry = FALSE, !.uri = "bulk"]
  <2>1. posts' = [posts EXCEPT ![n] = q]
    BY <1>2 DEF Retry, Sender!Retry, TypeOK, p
  <2>2. /\ q \in Sender!Posts /\ q.type = p.type /\ q.data = p.data /\ q.payloadId = p.payloadId
        /\ q.received = p.received /\ q.stage = "sent"
    BY <1>0 DEF Sender!Posts, Sender!Status
  <2> HIDE DEF q
  <2> QED
    BY <1>b, <2>1, <2>2
<1> QED
  BY <1>1, <1>2

(* The service answers a post, or the post is tried again.                 *)
LEMMA AnswerKeeps ==
  ASSUME Invariant, NEW n \in DOMAIN posts, Answer(n) \/ Retry(n)
  PROVE  Invariant' /\ Batches' = Batches
<1>0. TypeOK /\ Typed
  BY DEF Invariant, Typed
<1>1. PICK q \in Sender!Posts :
        /\ posts' = [posts EXCEPT ![n] = q]
        /\ q.type = posts[n].type /\ q.data = posts[n].data /\ q.payloadId = posts[n].payloadId
        /\ q.received \subseteq posts[n].received \cup {posts[n].payloadId}
        /\ q.stage = "FailedAndMustShutDown" => Answer(n)
  BY <1>0, AnswerChanges
<1>2. posts'[n] = q /\ DOMAIN posts' = DOMAIN posts /\ \A k \in DOMAIN posts : k # n => posts'[k] = posts[k]
  BY <1>0, <1>1 DEF TypeOK
<1>3. UNCHANGED <<queue, summary, known, droppedEvents, deduplicatedUsers, eventsInLastBatch, closed, inputs, dropped>>
  BY DEF Answer, Retry
<1>4. /\ shutdown' \in BOOLEAN /\ (shutdown => shutdown')
      /\ Answer(n) /\ q.stage = "FailedAndMustShutDown" /\ posts[n].type = "AnalyticsEvents" => shutdown'
  <2>1. CASE Answer(n)
    <3>1. shutdown' = (shutdown \/ (q.stage = "FailedAndMustShutDown" /\ posts[n].type = "AnalyticsEvents"))
      BY <1>2, <2>1 DEF Answer, Settle
    <3> QED
      BY <3>1
  <2>2. CASE ~Answer(n)
    BY <1>0, <2>2 DEF Retry, TypeOK
  <2> QED
    BY <2>1, <2>2
<1>5. /\ TypeOK' /\ Batches' = Batches /\ Reports' = Reports
      /\ \A k \in DOMAIN posts : posts'[k].data = posts[k].data
  BY <1>0, <1>1, <1>3, <1>4, AnsweredTyped
<1>6. Delivery'
  <2>1. ASSUME NEW k \in DOMAIN posts
        PROVE  /\ posts'[k].payloadId = IF k \in Batches' THEN k ELSE Sender!NoId
               /\ posts'[k].received \subseteq {posts'[k].payloadId}
    <3>1. /\ posts[k].payloadId = IF k \in Batches THEN k ELSE Sender!NoId
          /\ posts[k].received \subseteq {posts[k].payloadId}
      BY DEF Invariant, Delivery
    <3>2. CASE k = n
      BY <1>1, <1>2, <1>5, <3>1, <3>2
    <3>3. CASE k # n
      BY <1>2, <1>5, <3>1, <3>3
    <3> QED
      BY <3>2, <3>3
  <2> QED
    BY <1>2, <2>1 DEF Delivery, Sender!NoId
<1>7. RefusalRemembered'
  <2>1. ASSUME NEW k \in Batches, posts'[k].stage = "FailedAndMustShutDown" PROVE shutdown'
    <3>1. CASE k = n
      BY <1>1, <1>2, <1>4, <2>1, <3>1 DEF Batches
    <3>2. CASE k # n
      BY <1>2, <1>4, <2>1, <3>2 DEF Batches, Invariant, RefusalRemembered
    <3> QED
      BY <3>1, <3>2
  <2> QED
    BY <1>5, <2>1 DEF RefusalRemembered
<1> QED
  BY <1>3, <1>5, <1>6, <1>7, StillKeeps

(* The processor begins with the invariant.                                *)
LEMMA InitHolds == Init => Invariant
<1> SUFFICES ASSUME Init PROVE Invariant
  OBVIOUS
<1>1. /\ queue = <<>> /\ posts = <<>> /\ inputs = <<>> /\ dropped = {} /\ summary = {} /\ known = Cache!NewCache
      /\ droppedEvents = 0 /\ deduplicatedUsers = 0 /\ eventsInLastBatch = 0 /\ shutdown = FALSE /\ closed = FALSE
  BY DEF Init
<1>2. DOMAIN posts = {} /\ Batches = {} /\ Reports = {} /\ DOMAIN inputs = {} /\ Places = {}
  BY <1>1 DEF Batches, Reports, Places, Line
<1>3. Cache!NewCache \in Cache!Caches /\ \A c \in Context : Cache!NewCache.keyMap[c] = Nothing
  BY ProcessorAssumption DEF Cache!NewCache, Cache!Caches, Cache!Fill, Cache!Slot
<1>4. TypeOK
  <2>1. /\ queue \in Seq(Output) /\ Len(queue) <= Capacity /\ posts \in Seq(Sender!Posts)
        /\ inputs \in Seq(Input) /\ Len(inputs) <= MaxInputs /\ eventsInLastBatch \in 0..Capacity + 1
    BY <1>1, ProcessorAssumption
  <2> QED
    BY <1>1, <1>2, <1>3, <2>1 DEF TypeOK
<1>5. IsFiniteSet(dropped) /\ DropsCounted
  BY <1>1, <1>2, FS_EmptySet DEF DropsCounted, Uncounted
<1>6. Delivery /\ RefusalRemembered /\ Sourced /\ InOrder /\ IndexedBeforeUse /\ EventsKept /\ EvaluationsCounted
  BY <1>1, <1>2 DEF Delivery, RefusalRemembered, Sourced, InOrder, IndexedBeforeUse, EventsKept, EvaluationsCounted
<1>7. KnownIsTold
  BY <1>1, <1>3 DEF KnownIsTold
<1> QED
  BY <1>4, <1>5, <1>6, <1>7 DEF Invariant, Typed

(* The invariant is inductive.                                             *)
LEMMA StepKeeps ==
  ASSUME Invariant, [Next]_vars
  PROVE  Invariant'
<1>1. ASSUME NEW e \in Input, SendEvent(e) PROVE Invariant'
  BY <1>1, SendKeeps
<1>2. ASSUME FlushTimer \/ AppFlush PROVE Invariant'
  BY <1>2, FlushKeeps DEF FlushTimer, AppFlush
<1>3. ASSUME DiagnosticsTimer PROVE Invariant'
  BY <1>3, ReportKeeps DEF DiagnosticsTimer
<1>4. ASSUME FlushUsersTimer \/ Close \/ UNCHANGED vars PROVE Invariant'
  <2>1. /\ UNCHANGED <<queue, summary, droppedEvents, deduplicatedUsers, eventsInLastBatch,
                       shutdown, posts, inputs, dropped>>
        /\ closed' \in BOOLEAN
    BY <1>4 DEF FlushUsersTimer, Close, vars, Invariant, Typed, TypeOK
  <2>2. known' \in Cache!Caches /\ known'.keyMap = known.keyMap
    BY <1>4, ClearTyped DEF FlushUsersTimer, Close, vars, Invariant, Typed, TypeOK
  <2>3. Batches' = Batches /\ Reports' = Reports
    BY <2>1 DEF Batches, Reports
  <2>4. TypeOK'
    BY <2>1, <2>2, <2>3 DEF Invariant, Typed, TypeOK
  <2>5. Delivery' /\ RefusalRemembered'
    BY <2>1, <2>3 DEF Invariant, Delivery, RefusalRemembered
  <2> QED
    BY <2>1, <2>2, <2>3, <2>4, <2>5, StillKeeps
<1>5. ASSUME NEW n \in DOMAIN posts, Answer(n) \/ Retry(n) PROVE Invariant'
  BY <1>5, AnswerKeeps
<1> QED
  BY <1>1, <1>2, <1>3, <1>4, <1>5 DEF Next

(* The invariant is one, for any events, capacities and contexts.          *)
THEOREM Invariance == Spec => []Invariant
<1>1. Invariant /\ [Next]_vars => Invariant'
  BY StepKeeps
<1> QED
  BY <1>1, InitHolds, PTL DEF Spec

-----------------------------------------------------------------------------
(* Every variable keeps to its type.                                       *)
THEOREM TypeCorrect == Spec => []TypeOK
<1>1. Invariant => TypeOK
  BY DEF Invariant, Typed
<1> QED
  BY <1>1, Invariance, PTL

(* Nothing is queued or posted twice, the order of the calls is kept from  *)
(* batch to batch (sendEvent, flush), and what the sender sent again can   *)
(* be told by its payload id.                                              *)
THEOREM OnceInOrderEver == Spec => []OnceInOrder
<1>1. Invariant => OnceInOrder
  <2> SUFFICES ASSUME Invariant PROVE Sender!DuplicatesAreMarked
    BY DEF Invariant, OnceInOrder
  <2>1. \A n \in DOMAIN posts :
          /\ posts[n].payloadId = IF n \in Batches THEN n ELSE 0
          /\ posts[n].received \subseteq {posts[n].payloadId}
    BY DEF Invariant, Delivery, Sender!NoId
  <2>2. \A n \in DOMAIN posts : n # 0 /\ (posts[n].type = "AnalyticsEvents" => n \in Batches)
    BY DEF Invariant, Typed, TypeOK, Batches
  <2> QED
    BY <2>1, <2>2 DEF Sender!DuplicatesAreMarked
<1> QED
  BY <1>1, Invariance, PTL

(* No output is lost between the queue and the batches, no evaluation goes *)
(* uncounted or is counted twice, and what found the queue full is in one  *)
(* diagnostic event or waits to be.                                        *)
THEOREM NothingLostEver == Spec => []NothingLost
<1>1. Invariant => NothingLost
  BY DEF Invariant, NothingLost
<1> QED
  BY <1>1, Invariance, PTL

(* No custom or feature event is ahead of the event that tells LaunchDarkly*)
(* of its context, unless that one was dropped.                            *)
THEOREM IndexedBeforeUseEver == Spec => []IndexedBeforeUse
<1>1. Invariant => IndexedBeforeUse
  BY DEF Invariant
<1> QED
  BY <1>1, Invariance, PTL

(* The SDK key once refused, sendEvent takes nothing and flush posts       *)
(* nothing: a step that would is impossible.                               *)
THEOREM NothingAfterRefusalEver == Spec => NothingAfterRefusal
<1> DEFINE Quiet == (\E n \in Batches : posts[n].stage = "FailedAndMustShutDown")
                      => inputs' = inputs /\ Batches' = Batches
<1>1. Invariant /\ [Next]_vars => [Quiet]_vars
  <2> SUFFICES ASSUME Invariant, Next, \E n \in Batches : posts[n].stage = "FailedAndMustShutDown"
               PROVE  inputs' = inputs /\ Batches' = Batches
    OBVIOUS
  <2>1. shutdown
    BY DEF Invariant, RefusalRemembered
  <2>2. ~FlushTimer /\ ~AppFlush /\ \A e \in Input : ~SendEvent(e)
    BY <2>1 DEF FlushTimer, AppFlush, Flush, SendEvent
  <2>3. CASE DiagnosticsTimer
    BY <2>3, ReportPosts DEF DiagnosticsTimer, Invariant, Typed
  <2>4. CASE FlushUsersTimer \/ Close
    BY <2>4 DEF FlushUsersTimer, Close, Batches
  <2>5. ASSUME NEW n \in DOMAIN posts, Answer(n) \/ Retry(n) PROVE inputs' = inputs /\ Batches' = Batches
    BY <2>5, AnswerKeeps DEF Answer, Retry
  <2> QED
    BY <2>2, <2>3, <2>4, <2>5 DEF Next
<1> QED
  BY <1>1, Invariance, PTL DEF Spec, NothingAfterRefusal
=============================================================================
