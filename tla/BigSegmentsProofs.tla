------------------------- MODULE BigSegmentsProofs --------------------------
(***************************************************************************)
(* Two arguments about big segments, for every number of keys, queries and *)
(* calls and every size of the cache.                                      *)
(*                                                                         *)
(* The cache: the nodes from its head to its tail are a list without       *)
(* repetition, linked in both directions, and keyMap says where in it a    *)
(* key is (CacheOK).  What link, unlink and the map do to the nodes is     *)
(* stated by lemmas on sequences; with them every get and every put is the *)
(* step of RecentlyUsed.                                                   *)
(*                                                                         *)
(* The memberships: a query has one call at a time, and what it has been   *)
(* answered so far was so since it began (Asking).  A reply of the store   *)
(* thus keeps its promise whatever changed between the two reads of Redis. *)
(***************************************************************************)
EXTENDS BigSegments, SequenceTheorems, WellFoundedInduction, TLAPS

-----------------------------------------------------------------------------
(* The linked list.                                                        *)

(* s are the nodes from the head to the tail: each once, linked in both    *)
(* directions, and in the slots from 0 on.                                 *)
Chained(c, s) ==
  /\ s \in [1..c.size -> Slot]
  /\ \A m, n \in 1..c.size : s[m] = s[n] => m = n
  /\ \A n \in 1..c.size : s[n] = IF n = 1 THEN c.head ELSE c.next[s[n - 1]]
  /\ \A n \in 2..c.size : c.prev[s[n]] = s[n - 1]
  /\ c.size > 0 => s[c.size] = c.tail
  /\ \A i \in Slot : i < c.size <=> \E n \in 1..c.size : s[n] = i
  /\ c.size = 0 => c.head = 0 /\ c.tail = 0

(* A set of natural numbers that is not empty has a least one.             *)
LEMMA LeastOf ==
  ASSUME NEW S \in SUBSET Nat, S # {}
  PROVE  \E x \in S : \A y \in S : x <= y
<1> DEFINE R == OpToRel(<, Nat)
<1>1. IsWellFoundedOn(R, Nat)
  BY NatLessThanWellFounded
<1>2. \A x, y \in Nat : <<x, y>> \in R <=> x < y
  BY DEF OpToRel
<1> HIDE DEF R
<1>3. PICK x \in S : \A y \in S : ~(<<y, x>> \in R)
  BY <1>1, WFMin
<1>4. \A y \in S : x <= y
  <2> TAKE y \in S
  <2>1. x \in Nat /\ y \in Nat /\ ~(y < x)
    BY <1>2, <1>3
  <2> QED
    BY <2>1
<1> QED
  BY <1>4

(* The nodes that the list has are the only ones that Nth can answer.      *)
LEMMA NthOf ==
  ASSUME NEW c \in Caches, NEW s, Chained(c, s)
  PROVE  Nth(c) = s
<1> DEFINE Follows(t) == \A n \in 1..c.size : t[n] = IF n = 1 THEN c.head ELSE c.next[t[n - 1]]
<1> DEFINE t == Nth(c)
<1>1. s \in [1..c.size -> Slot] /\ Follows(s) /\ c.size \in Nat
  BY LruAssumption DEF Chained, Caches
<1>2. t \in [1..c.size -> Slot] /\ Follows(t)
  BY <1>1 DEF Nth
<1> HIDE DEF t
<1>3. \A n \in 1..c.size : t[n] = s[n]
  <2> DEFINE Odd == {n \in 1..c.size : t[n] # s[n]}
  <2>1. SUFFICES ASSUME Odd # {} PROVE FALSE
    OBVIOUS
  <2>2. PICK x \in Odd : \A y \in Odd : x <= y
    <3>1. Odd \in SUBSET Nat
      BY <1>1
    <3> QED
      BY <2>1, <3>1, LeastOf
  <2>3. x \in 1..c.size /\ t[x] # s[x] /\ x \in Nat
    BY <1>1, <2>2
  <2>4. x # 1
    BY <1>1, <1>2, <2>3
  <2>5. x - 1 \in 1..c.size /\ x - 1 \notin Odd
    BY <1>1, <2>2, <2>3, <2>4
  <2>6. t[x - 1] = s[x - 1]
    BY <2>5
  <2> QED
    BY <1>1, <1>2, <2>3, <2>4, <2>6
<1>4. t = s
  BY <1>1, <1>2, <1>3
<1> QED
  BY <1>4 DEF t

(* Of two caches, that they hold the same.                                 *)
SameItems(c, d) ==
  /\ d.keys = c.keys /\ d.values = c.values /\ d.lastUpdated = c.lastUpdated
  /\ d.keyMap = c.keyMap /\ d.size = c.size

(* d is c with a link from p to n.                                         *)
HasLinked(c, p, n, d) ==
  /\ d \in Caches /\ SameItems(c, d) /\ d.head = c.head /\ d.tail = c.tail
  /\ d.prev = [c.prev EXCEPT ![n] = p] /\ d.next = [c.next EXCEPT ![p] = n]

(* Linking two slots changes their two pointers and keeps the types.       *)
LEMMA LinkIs ==
  ASSUME NEW c \in Caches, NEW p \in Slot, NEW n \in Slot, NEW d, d = Link(c, p, n)
  PROVE  HasLinked(c, p, n, d)
<1> DEFINE u == [c EXCEPT !.prev[n] = p]
<1> DEFINE w == [u EXCEPT !.next[p] = n]
<1>1. u \in Caches /\ SameItems(c, u) /\ u.head = c.head /\ u.tail = c.tail
      /\ u.prev = [c.prev EXCEPT ![n] = p] /\ u.next = c.next
  BY DEF Caches, SameItems
<1> HIDE DEF u
<1>2. w \in Caches /\ SameItems(u, w) /\ w.head = u.head /\ w.tail = u.tail
      /\ w.prev = u.prev /\ w.next = [u.next EXCEPT ![p] = n]
  BY <1>1 DEF Caches, SameItems
<1>3. w = d
  BY DEF Link, u
<1> HIDE DEF w
<1> QED
  BY <1>1, <1>2, <1>3 DEF SameItems, HasLinked

(* The sequence whose m-th element went to the end.                        *)
Behind(s, m) ==
  [n \in DOMAIN s |-> IF n < m THEN s[n] ELSE IF n + 1 \in DOMAIN s THEN s[n + 1] ELSE s[m]]

(* setTail puts the node behind all others and leaves what it holds.       *)
LEMMA SetTailMoves ==
  ASSUME NEW c \in Caches, NEW s, Chained(c, s), NEW m \in 1..c.size,
         NEW d, d = SetTail(c, s[m])
  PROVE  d \in Caches /\ SameItems(c, d) /\ Chained(d, Behind(s, m))
<1> DEFINE i == s[m]
<1>a. /\ c.size \in Nat /\ c.head \in Slot /\ c.tail \in Slot
      /\ c.next \in [Slot -> Slot] /\ c.prev \in [Slot -> Slot]
  BY LruAssumption DEF Caches
<1>b. /\ s \in [1..c.size -> Slot]
      /\ \A n, k \in 1..c.size : s[n] = s[k] => n = k
      /\ \A n \in 1..c.size : s[n] = IF n = 1 THEN c.head ELSE c.next[s[n - 1]]
      /\ \A n \in 2..c.size : c.prev[s[n]] = s[n - 1]
      /\ s[c.size] = c.tail
      /\ \A j \in Slot : j < c.size <=> \E n \in 1..c.size : s[n] = j
  BY <1>a DEF Chained
<1>0. m \in Nat /\ 1 <= m /\ m <= c.size /\ DOMAIN s = 1..c.size /\ i \in Slot
  BY <1>a, <1>b
<1>1. CASE m = c.size
  <2>1. d = c
    BY <1>b, <1>1 DEF SetTail
  <2>2. Behind(s, m) = s
    BY <1>a, <1>b, <1>1 DEF Behind
  <2> QED
    BY <2>1, <2>2 DEF SameItems
<1>2. CASE m < c.size
  <2> DEFINE out == IF i = c.head THEN [c EXCEPT !.head = c.next[i]]
                    ELSE Link(c, c.prev[i], c.next[i])
             r == Behind(s, m)
             last == Link(out, c.tail, i)
             At(n) == IF n < m THEN n ELSE IF n = c.size THEN m ELSE n + 1
  <2>1. i # c.tail /\ (i = c.head <=> m = 1) /\ c.next[i] = s[m + 1] /\ s[m + 1] \in Slot
    BY <1>a, <1>b, <1>0, <1>2
  <2>2. /\ out \in Caches /\ SameItems(c, out) /\ out.tail = c.tail
        /\ out.head = (IF m = 1 THEN s[2] ELSE c.head)
        /\ out.next = (IF m = 1 THEN c.next ELSE [c.next EXCEPT ![s[m - 1]] = s[m + 1]])
        /\ out.prev = (IF m = 1 THEN c.prev ELSE [c.prev EXCEPT ![s[m + 1]] = s[m - 1]])
    <3>1. CASE m = 1
      <4>1. out = [c EXCEPT !.head = c.next[i]] /\ c.next[i] = s[2]
        BY <2>1, <3>1
      <4> QED
        BY <1>a, <2>1, <3>1, <4>1 DEF Caches, SameItems
    <3>2. CASE m # 1
      <4>1. c.prev[i] = s[m - 1] /\ s[m - 1] \in Slot
        <5>1. m \in 2..c.size /\ m - 1 \in 1..c.size
          BY <1>a, <1>0, <3>2
        <5> QED
          BY <1>b, <5>1
      <4>2. out = Link(c, s[m - 1], s[m + 1])
        BY <2>1, <3>2, <4>1
      <4> HIDE DEF out
      <4>3. HasLinked(c, s[m - 1], s[m + 1], out)
        BY <2>1, <4>1, <4>2, LinkIs
      <4> QED
        BY <3>2, <4>3 DEF HasLinked
    <3> QED
      BY <3>1, <3>2
  <2>4. d = [last EXCEPT !.tail = i]
    BY <2>1 DEF SetTail
  <2>3a. c.tail \in Slot /\ i \in Slot /\ out \in Caches /\ last = Link(out, c.tail, i)
    BY <1>a, <1>0, <2>2
  <2> HIDE DEF out, last
  <2>3. /\ last \in Caches /\ SameItems(out, last) /\ last.head = out.head
        /\ last.prev = [out.prev EXCEPT ![i] = c.tail] /\ last.next = [out.next EXCEPT ![c.tail] = i]
    <3>1. HasLinked(out, c.tail, i, last)
      BY <2>3a, LinkIs
    <3> QED
      BY <3>1 DEF HasLinked
  <2>5. /\ d \in Caches /\ SameItems(last, d) /\ d.tail = i
        /\ d.head = last.head /\ d.prev = last.prev /\ d.next = last.next
    BY <1>0, <2>3, <2>4 DEF Caches, SameItems
  <2>6. d.size = c.size /\ SameItems(c, d)
    BY <2>2, <2>3, <2>5 DEF SameItems
  <2>7. /\ r \in [1..c.size -> Slot]
        /\ \A n \in 1..c.size : At(n) \in 1..c.size /\ r[n] = s[At(n)]
    BY <1>a, <1>b, <1>0, <1>2 DEF Behind
  <2>a. /\ d.head = (IF m = 1 THEN s[2] ELSE c.head)
        /\ \A x \in Slot : d.next[x] = IF x = c.tail THEN i
                                      ELSE IF m # 1 /\ x = s[m - 1] THEN s[m + 1] ELSE c.next[x]
        /\ \A x \in Slot : d.prev[x] = IF x = i THEN c.tail
                                      ELSE IF m # 1 /\ x = s[m + 1] THEN s[m - 1] ELSE c.prev[x]
    <3>1. /\ out.next \in [Slot -> Slot] /\ last.next = [out.next EXCEPT ![c.tail] = i]
          /\ out.prev \in [Slot -> Slot] /\ last.prev = [out.prev EXCEPT ![i] = c.tail]
      BY <2>2, <2>3 DEF Caches
    <3>2. \A x \in Slot : out.next[x] = IF m # 1 /\ x = s[m - 1] THEN s[m + 1] ELSE c.next[x]
      BY <1>a, <2>2
    <3>3. \A x \in Slot : out.prev[x] = IF m # 1 /\ x = s[m + 1] THEN s[m - 1] ELSE c.prev[x]
      BY <1>a, <2>2
    <3> QED
      BY <2>2, <2>3, <2>5, <3>1, <3>2, <3>3
  <2> HIDE DEF r
  <2>8. ASSUME NEW n \in 1..c.size, NEW k \in 1..c.size, r[n] = r[k]
        PROVE  n = k
    <3>1. At(n) = At(k)
      <4>1. At(n) \in 1..c.size /\ At(k) \in 1..c.size /\ s[At(n)] = s[At(k)]
        BY <2>7, <2>8
      <4> HIDE DEF At
      <4> QED
        BY <1>b, <4>1
    <3> QED
      BY <1>a, <1>0, <1>2, <3>1
  <2>9. ASSUME NEW n \in 1..c.size PROVE r[n] = IF n = 1 THEN d.head ELSE d.next[r[n - 1]]
    <3>1. CASE n = 1
      BY <1>a, <1>b, <1>0, <1>2, <2>7, <2>a, <3>1
    <3>2. CASE n # 1
      <4>1. n - 1 \in 1..c.size /\ r[n - 1] = s[At(n - 1)] /\ r[n] = s[At(n)]
            /\ At(n - 1) \in 1..c.size /\ At(n) \in 1..c.size /\ r[n - 1] \in Slot
        BY <1>a, <2>7, <3>2
      <4>2. At(n - 1) = c.size <=> n = c.size
        BY <1>a, <1>0, <1>2, <3>2
      <4>3. CASE n = c.size
        <5>1. r[n - 1] = c.tail
          BY <1>b, <4>1, <4>2, <4>3
        <5>2. r[n] = i
          BY <1>0, <1>2, <4>1, <4>3
        <5> QED
          BY <1>a, <1>b, <2>1, <2>a, <3>2, <5>1, <5>2
      <4>4. CASE n # c.size
        <5>1. r[n - 1] # c.tail
          BY <1>a, <1>b, <4>1, <4>2, <4>4
        <5>2. CASE n = m
          <6>1. At(n - 1) = m - 1 /\ At(n) = m + 1 /\ m # 1
            BY <1>a, <1>0, <1>2, <3>2, <4>4, <5>2
          <6> QED
            BY <1>a, <2>a, <3>2, <4>1, <5>1, <6>1
        <5>3. CASE n # m
          <6>1. At(n) = At(n - 1) + 1 /\ (m # 1 => At(n - 1) # m - 1)
            BY <1>a, <1>0, <1>2, <3>2, <4>4, <5>3
          <6>2. m # 1 => r[n - 1] # s[m - 1]
            <7>1. m # 1 => m - 1 \in 1..c.size
              BY <1>a, <1>0, <1>2
            <7> QED
              BY <1>b, <4>1, <6>1, <7>1
          <6>3. d.next[r[n - 1]] = c.next[r[n - 1]]
            BY <1>a, <1>b, <2>a, <4>1, <5>1, <6>2
          <6>4. c.next[s[At(n - 1)]] = s[At(n - 1) + 1]
            <7>1. At(n) \in 1..c.size /\ At(n) # 1 /\ At(n) - 1 = At(n - 1)
              BY <1>a, <4>1, <6>1
            <7> HIDE DEF At
            <7> QED
              BY <1>b, <6>1, <7>1
          <6> QED
            BY <3>2, <4>1, <6>1, <6>3, <6>4
        <5> QED
          BY <5>2, <5>3
      <4> QED
        BY <4>3, <4>4
    <3> QED
      BY <3>1, <3>2
  <2>10. ASSUME NEW n \in 2..c.size PROVE d.prev[r[n]] = r[n - 1]
    <3>1. n - 1 \in 1..c.size /\ n \in 1..c.size
      BY <1>a
    <3>2. /\ At(n) \in 1..c.size /\ r[n] = s[At(n)] /\ r[n] \in Slot
          /\ At(n - 1) \in 1..c.size /\ r[n - 1] = s[At(n - 1)]
      BY <2>7, <3>1
    <3>3. CASE n = c.size
      BY <1>a, <1>b, <1>0, <1>2, <2>a, <3>2, <3>3
    <3>4. CASE n # c.size
      <4>1. At(n) # m
        BY <1>a, <1>0, <1>2, <3>1, <3>4
      <4>2. r[n] # i
        BY <1>b, <3>2, <4>1
      <4>3. CASE n = m
        BY <1>a, <1>0, <1>2, <2>a, <3>1, <3>2, <4>2, <4>3
      <4>4. CASE n # m
        <5>1. At(n) # m + 1 \/ m = 1
          BY <1>a, <1>0, <1>2, <3>1, <3>4, <4>4
        <5>2. m + 1 \in 1..c.size
          BY <1>a, <1>0, <1>2
        <5>3. m # 1 => r[n] # s[m + 1]
          BY <1>b, <3>2, <5>1, <5>2
        <5>4. d.prev[r[n]] = c.prev[r[n]]
          BY <2>a, <3>2, <4>2, <5>3
        <5>5. At(n) \in 2..c.size /\ At(n) - 1 = At(n - 1)
          BY <1>a, <1>0, <1>2, <3>1, <3>4, <4>4
        <5> HIDE DEF At
        <5> QED
          BY <1>b, <3>2, <5>4, <5>5
      <4> QED
        BY <4>3, <4>4
    <3> QED
      BY <3>3, <3>4
  <2>11. ASSUME NEW j \in Slot PROVE j < c.size <=> \E n \in 1..c.size : r[n] = j
    <3>1. ASSUME NEW k \in 1..c.size, s[k] = j PROVE \E n \in 1..c.size : r[n] = j
      <4> DEFINE n == IF k < m THEN k ELSE IF k = m THEN c.size ELSE k - 1
      <4>1. n \in 1..c.size /\ At(n) = k
        BY <1>a, <1>0, <1>2
      <4> QED
        BY <2>7, <3>1, <4>1
    <3> QED
      BY <1>b, <2>7, <3>1
  <2>12. r[c.size] = i
    BY <1>a, <1>0, <1>2, <2>7
  <2> QED
    <3>1. Chained(d, r)
      BY <1>a, <1>0, <1>2, <2>5, <2>6, <2>7, <2>8, <2>9, <2>10, <2>11, <2>12 DEF Chained
    <3> QED
      BY <2>5, <2>6, <3>1 DEF r
<1> QED
  BY <1>0, <1>a, <1>1, <1>2

(* The key map and the list have the same keys.                            *)
MapOK(c) ==
  /\ \A k \in Key : c.keyMap[k] # Nothing => c.keyMap[k] < c.size /\ c.keys[c.keyMap[k]] = k
  /\ \A i \in Slot : i < c.size => c.keys[i] \in Key /\ c.values[i] \in Value /\ c.keyMap[c.keys[i]] = i

(* Where a key is put that the map does not have.                          *)
FreeSlot(c) == IF c.size = MaxItems THEN c.head ELSE c.size

(* The nodes after that.                                                   *)
Inserted(c, s) ==
  IF c.size = MaxItems THEN Behind(s, 1)
  ELSE [n \in 1..c.size + 1 |-> IF n = c.size + 1 THEN c.size ELSE s[n]]

(* Eviction forgets the key of the head and moves the head on.             *)
LEMMA EvictIs ==
  ASSUME NEW c \in Caches, c.size = MaxItems, NEW e, e = Evict(c)
  PROVE  /\ e \in Caches /\ e.keys = c.keys /\ e.values = c.values /\ e.lastUpdated = c.lastUpdated
         /\ e.next = c.next /\ e.prev = c.prev /\ e.tail = c.tail
         /\ e.head = c.next[c.head] /\ e.size = MaxItems - 1
         /\ \A j \in Key : e.keyMap[j] = IF j = c.keys[c.head] THEN Nothing ELSE c.keyMap[j]
<1> DEFINE map == [k \in Key |-> IF k = c.keys[c.head] THEN Nothing ELSE c.keyMap[k]]
<1>1. map \in [Key -> Slot \cup {Nothing}]
  BY DEF Caches
<1>2. e = [c EXCEPT !.head = c.next[c.head], !.size = @ - 1, !.keyMap = map]
  BY DEF Evict
<1>3. c.next[c.head] \in Slot /\ MaxItems - 1 \in 0..MaxItems
  BY LruAssumption DEF Caches
<1>4. \A j \in Key : map[j] = IF j = c.keys[c.head] THEN Nothing ELSE c.keyMap[j]
  OBVIOUS
<1> HIDE DEF map
<1> QED
  BY <1>1, <1>2, <1>3, <1>4 DEF Caches

(* p is c with the key k in a slot that was free or is made free.          *)
HasInserted(c, k, p) ==
  /\ p \in Caches /\ p.values = c.values /\ p.lastUpdated = c.lastUpdated
  /\ FreeSlot(c) \in Slot
  /\ p.keys = [c.keys EXCEPT ![FreeSlot(c)] = k]
  /\ p.size = (IF c.size = MaxItems THEN c.size ELSE c.size + 1)
  /\ \A j \in Key : p.keyMap[j] = IF j = k THEN FreeSlot(c)
                                ELSE IF c.size = MaxItems /\ j = c.keys[c.head] THEN Nothing
                                ELSE c.keyMap[j]
  /\ p.head = (IF c.size = MaxItems THEN c.next[c.head] ELSE c.head)
  /\ p.next = [c.next EXCEPT ![c.tail] = FreeSlot(c)]
  /\ p.prev = [c.prev EXCEPT ![FreeSlot(c)] = c.tail] /\ p.tail = FreeSlot(c)

(* An insertion takes the free slot to the end of the chain, after an      *)
(* eviction if the cache is full.                                          *)
LEMMA InsertIs ==
  ASSUME NEW c \in Caches, NEW s, Chained(c, s), NEW k \in Key, NEW p, p = Insert(c, k)
  PROVE  HasInserted(c, k, p)
<1> DEFINE i == FreeSlot(c)
           e == IF c.size = MaxItems THEN Evict(c) ELSE c
<1>1. /\ e \in Caches /\ e.keys = c.keys /\ e.values = c.values /\ e.lastUpdated = c.lastUpdated
      /\ e.next = c.next /\ e.prev = c.prev /\ e.tail = c.tail
      /\ e.head = (IF c.size = MaxItems THEN c.next[c.head] ELSE c.head)
      /\ e.size = (IF c.size = MaxItems THEN c.size - 1 ELSE c.size)
      /\ \A j \in Key : e.keyMap[j] = IF c.size = MaxItems /\ j = c.keys[c.head] THEN Nothing
                                     ELSE c.keyMap[j]
  <2>1. CASE c.size = MaxItems
    <3>1. e = Evict(c)
      BY <2>1
    <3> HIDE DEF e
    <3> QED
      BY <2>1, <3>1, EvictIs
  <2>2. CASE c.size # MaxItems
    BY <2>2
  <2> QED
    BY <2>1, <2>2
<1>2. i \in Slot /\ i = (IF c.size = 0 THEN c.tail ELSE IF c.size = MaxItems THEN c.head ELSE c.size)
  <2>1. c.size = 0 => c.head = 0 /\ c.tail = 0
    BY DEF Chained
  <2>2. c.head \in Slot /\ c.tail \in Slot /\ c.size \in 0..MaxItems
    BY DEF Caches
  <2>3. c.size # MaxItems => c.size \in Slot
    BY <2>2, LruAssumption DEF Slot
  <2> QED
    BY <2>1, <2>2, <2>3, LruAssumption DEF FreeSlot
<1>3. p = [e EXCEPT !.keys[i] = k, !.keyMap[k] = i, !.next[e.tail] = i, !.prev[i] = e.tail,
                    !.tail = i, !.size = @ + 1]
  BY <1>2 DEF Insert
<1>4. e.size + 1 \in 0..MaxItems /\ e.size + 1 = (IF c.size = MaxItems THEN c.size ELSE c.size + 1)
  BY <1>1, LruAssumption DEF Caches
<1> HIDE DEF e, i
<1>5. p \in Caches /\ p.values = e.values /\ p.lastUpdated = e.lastUpdated /\ p.keys = [e.keys EXCEPT ![i] = k]
  <2> DEFINE e1 == [e EXCEPT !.keys[i] = k]
  <2> DEFINE e2 == [e1 EXCEPT !.keyMap[k] = i]
  <2> DEFINE e3 == [e2 EXCEPT !.next[e.tail] = i]
  <2> DEFINE e4 == [e3 EXCEPT !.prev[i] = e.tail]
  <2> DEFINE e5 == [e4 EXCEPT !.tail = i]
  <2> DEFINE e6 == [e5 EXCEPT !.size = @ + 1]
  <2>0. p = e6
    BY <1>3
  <2>1. e1 \in Caches /\ e1.values = e.values /\ e1.lastUpdated = e.lastUpdated
        /\ e1.keys = [e.keys EXCEPT ![i] = k] /\ e1.size = e.size
    BY <1>1, <1>2 DEF Caches
  <2> HIDE DEF e1
  <2>2. e2 \in Caches /\ e2.values = e1.values /\ e2.lastUpdated = e1.lastUpdated /\ e2.keys = e1.keys
        /\ e2.size = e1.size
    BY <1>2, <2>1 DEF Caches
  <2> HIDE DEF e2
  <2>3. e3 \in Caches /\ e3.values = e2.values /\ e3.lastUpdated = e2.lastUpdated /\ e3.keys = e2.keys
        /\ e3.size = e2.size
    <3>1. e.tail \in Slot
      BY <1>1 DEF Caches
    <3> QED
      BY <1>2, <2>2, <3>1 DEF Caches
  <2> HIDE DEF e3
  <2>4. e4 \in Caches /\ e4.values = e3.values /\ e4.lastUpdated = e3.lastUpdated /\ e4.keys = e3.keys
        /\ e4.size = e3.size
    <3>1. e.tail \in Slot
      BY <1>1 DEF Caches
    <3> QED
      BY <1>2, <2>3, <3>1 DEF Caches
  <2> HIDE DEF e4
  <2>5. e5 \in Caches /\ e5.values = e4.values /\ e5.lastUpdated = e4.lastUpdated /\ e5.keys = e4.keys
        /\ e5.size = e4.size
    BY <1>2, <2>4 DEF Caches
  <2> HIDE DEF e5
  <2>6. e5.size + 1 \in 0..MaxItems
    BY <1>4, <2>1, <2>2, <2>3, <2>4, <2>5
  <2>7. e6 \in Caches /\ e6.values = e5.values /\ e6.lastUpdated = e5.lastUpdated /\ e6.keys = e5.keys
    BY <2>5, <2>6 DEF Caches
  <2> HIDE DEF e6
  <2> QED
    BY <2>0, <2>1, <2>2, <2>3, <2>4, <2>5, <2>7
<1>6. /\ p.size = e.size + 1 /\ p.head = e.head /\ p.tail = i
      /\ p.next = [e.next EXCEPT ![e.tail] = i] /\ p.prev = [e.prev EXCEPT ![i] = e.tail]
      /\ p.keyMap = [e.keyMap EXCEPT ![k] = i]
  BY <1>1, <1>2, <1>3, <1>4 DEF Caches
<1>7. e.keyMap \in [Key -> Slot \cup {Nothing}]
  BY <1>1 DEF Caches
<1> QED
  BY <1>1, <1>2, <1>4, <1>5, <1>6, <1>7 DEF i, HasInserted

(* The new node is the last one; if there is no room, the first one is.    *)
LEMMA InsertChains ==
  ASSUME NEW c \in Caches, NEW s, Chained(c, s), NEW k \in Key, NEW p, p = Insert(c, k)
  PROVE  Chained(p, Inserted(c, s)) /\ p.size > 0 /\ Inserted(c, s)[p.size] = FreeSlot(c)
<1>1. /\ p \in Caches /\ FreeSlot(c) \in Slot
      /\ p.size = (IF c.size = MaxItems THEN c.size ELSE c.size + 1)
      /\ p.head = (IF c.size = MaxItems THEN c.next[c.head] ELSE c.head)
      /\ p.next = [c.next EXCEPT ![c.tail] = FreeSlot(c)]
      /\ p.prev = [c.prev EXCEPT ![FreeSlot(c)] = c.tail] /\ p.tail = FreeSlot(c)
  <2>1. HasInserted(c, k, p)
    BY InsertIs
  <2> QED
    BY <2>1 DEF HasInserted
<1>a. /\ c.size \in Nat /\ c.head \in Slot /\ c.tail \in Slot
      /\ c.next \in [Slot -> Slot] /\ c.prev \in [Slot -> Slot]
      /\ c.size <= MaxItems /\ MaxItems \in Nat \ {0}
  BY LruAssumption DEF Caches
<1>b. /\ s \in [1..c.size -> Slot]
      /\ \A n, j \in 1..c.size : s[n] = s[j] => n = j
      /\ \A n \in 1..c.size : s[n] = IF n = 1 THEN c.head ELSE c.next[s[n - 1]]
      /\ \A n \in 2..c.size : c.prev[s[n]] = s[n - 1]
      /\ c.size > 0 => s[c.size] = c.tail
      /\ \A i \in Slot : i < c.size <=> \E n \in 1..c.size : s[n] = i
      /\ c.size = 0 => c.head = 0 /\ c.tail = 0
  BY <1>a DEF Chained
<1>2. CASE c.size = MaxItems /\ MaxItems # 1
  <2> DEFINE out == [c EXCEPT !.head = c.next[c.head]]
             last == Link(out, c.tail, c.head)
             d == SetTail(c, s[1])
  <2>1. c.head = s[1] /\ c.tail = s[c.size] /\ c.head # c.tail /\ 1 \in 1..c.size
    BY <1>a, <1>b, <1>2
  <2>2. /\ out \in Caches /\ out.tail = c.tail /\ out.head = c.next[c.head]
        /\ out.next = c.next /\ out.prev = c.prev
    BY <1>a DEF Caches
  <2>3. d = [last EXCEPT !.tail = c.head]
    BY <2>1 DEF SetTail
  <2>4. Chained(d, Behind(s, 1)) /\ d \in Caches /\ SameItems(c, d)
    BY <2>1, SetTailMoves
  <2>c. last = Link(out, c.tail, c.head)
    OBVIOUS
  <2> HIDE DEF out, d, last
  <2>5. /\ last \in Caches /\ last.head = out.head
        /\ last.prev = [c.prev EXCEPT ![c.head] = c.tail] /\ last.next = [c.next EXCEPT ![c.tail] = c.head]
    <3>1. /\ last \in Caches /\ last.head = out.head
          /\ last.prev = [out.prev EXCEPT ![c.head] = c.tail] /\ last.next = [out.next EXCEPT ![c.tail] = c.head]
      <4>1. HasLinked(out, c.tail, c.head, last)
        BY <1>a, <2>2, <2>c, LinkIs
      <4> QED
        BY <4>1 DEF HasLinked
    <3> QED
      BY <2>2, <3>1
  <2>6. /\ d.head = c.next[c.head] /\ d.tail = c.head
        /\ d.prev = [c.prev EXCEPT ![c.head] = c.tail] /\ d.next = [c.next EXCEPT ![c.tail] = c.head]
    BY <1>a, <2>2, <2>3, <2>5 DEF Caches
  <2>7. p.size = d.size /\ p.head = d.head /\ p.tail = d.tail /\ p.next = d.next /\ p.prev = d.prev
    BY <1>1, <1>2, <2>4, <2>6 DEF FreeSlot, SameItems
  <2>8. Inserted(c, s) = Behind(s, 1)
    BY <1>2 DEF Inserted
  <2>9. Chained(p, Behind(s, 1))
    BY <2>4, <2>7 DEF Chained
  <2>10. Behind(s, 1)[p.size] = p.tail /\ p.size > 0
    BY <1>a, <1>2, <2>7, <2>9, <1>1 DEF Chained
  <2> QED
    BY <1>1, <2>8, <2>9, <2>10
<1>3. CASE c.size = MaxItems /\ MaxItems = 1
  <2>1. Slot = {0} /\ p.size = 1 /\ p.head = 0 /\ p.tail = 0
    BY <1>1, <1>a, <1>3 DEF Slot
  <2>2. Inserted(c, s) \in [1..1 -> Slot] /\ Inserted(c, s)[1] = 0
    <3>1. s \in [1..1 -> Slot] /\ s[1] = 0 /\ DOMAIN s = 1..1
      BY <1>b, <1>3, <2>1
    <3>2. Behind(s, 1) \in [1..1 -> Slot] /\ Behind(s, 1)[1] = 0
      BY <3>1 DEF Behind
    <3> QED
      BY <1>3, <3>2 DEF Inserted
  <2>3. Chained(p, Inserted(c, s))
    BY <2>1, <2>2 DEF Chained
  <2> QED
    BY <1>1, <2>1, <2>2, <2>3
<1>4. CASE c.size # MaxItems
  <2> DEFINE r == Inserted(c, s)
  <2>1. /\ r = [n \in 1..c.size + 1 |-> IF n = c.size + 1 THEN c.size ELSE s[n]]
        /\ FreeSlot(c) = c.size /\ c.size \in Slot
    BY <1>1, <1>4 DEF Inserted, FreeSlot
  <2>2. /\ r \in [1..p.size -> Slot] /\ p.size = c.size + 1 /\ r[p.size] = c.size
        /\ \A n \in 1..c.size : r[n] = s[n] /\ r[n] < c.size /\ r[n] \in Slot
    <3>1. p.size = c.size + 1 /\ c.size + 1 \in Nat
      BY <1>1, <1>a, <1>4
    <3>2. \A n \in 1..c.size : s[n] \in Slot /\ s[n] < c.size
      BY <1>b
    <3>3. \A n \in 1..p.size : n = c.size + 1 \/ n \in 1..c.size
      BY <1>a, <3>1
    <3>4. \A n \in 1..c.size : n \in 1..p.size /\ n # c.size + 1
      BY <1>a, <3>1
    <3>5. p.size \in 1..p.size
      BY <1>a, <3>1
    <3>6. r = [n \in 1..p.size |-> IF n = c.size + 1 THEN c.size ELSE s[n]]
      BY <2>1, <3>1
    <3>7. \A n \in 1..p.size : (IF n = c.size + 1 THEN c.size ELSE s[n]) \in Slot
      BY <2>1, <3>2, <3>3
    <3> HIDE DEF r
    <3> QED
      BY <3>1, <3>2, <3>4, <3>5, <3>6, <3>7
  <2>3. /\ p.head = c.head /\ p.tail = c.size
        /\ \A x \in Slot : p.next[x] = IF x = c.tail THEN c.size ELSE c.next[x]
        /\ \A x \in Slot : p.prev[x] = IF x = c.size THEN c.tail ELSE c.prev[x]
    BY <1>1, <1>a, <1>4, <2>1
  <2> HIDE DEF r
  <2>d. \A x \in Slot : x \in Nat
    BY <1>a DEF Slot
  <2>e. \A n \in 1..p.size : n \in 1..c.size \/ n = p.size
    BY <1>a, <2>2
  <2>4. ASSUME NEW m \in 1..p.size, NEW n \in 1..p.size, r[m] = r[n] PROVE m = n
    <3>1. \A j \in 1..c.size : r[j] # p.tail /\ r[j] = s[j]
      BY <1>a, <2>2, <2>3, <2>d
    <3>2. r[p.size] = p.tail
      BY <2>2, <2>3
    <3>3. CASE m \in 1..c.size /\ n \in 1..c.size
      BY <1>b, <2>4, <3>1, <3>3
    <3>4. CASE m = p.size /\ n = p.size
      BY <3>4
    <3>5. CASE m = p.size /\ n \in 1..c.size
      BY <2>4, <3>1, <3>2, <3>5
    <3>6. CASE m \in 1..c.size /\ n = p.size
      BY <2>4, <3>1, <3>2, <3>6
    <3> QED
      BY <2>e, <3>3, <3>4, <3>5, <3>6
  <2>5. ASSUME NEW n \in 1..p.size PROVE r[n] = IF n = 1 THEN p.head ELSE p.next[r[n - 1]]
    <3>1. CASE n \in 1..c.size
      <4>1. CASE n = 1
        BY <1>b, <2>2, <2>3, <3>1, <4>1
      <4>2. CASE n # 1
        <5>1. n - 1 \in 1..c.size /\ n - 1 # c.size /\ c.size \in 1..c.size
          BY <1>a, <3>1, <4>2
        <5>2. r[n - 1] = s[n - 1] /\ r[n] = s[n] /\ s[n - 1] # c.tail /\ s[n - 1] \in Slot
          BY <1>b, <2>2, <3>1, <5>1
        <5> QED
          BY <1>b, <2>3, <3>1, <4>2, <5>2
      <4> QED
        BY <4>1, <4>2
    <3>2. CASE n = c.size + 1
      <4>1. CASE c.size = 0
        BY <1>b, <2>2, <2>3, <3>2, <4>1
      <4>2. CASE c.size > 0
        <5>1. n # 1 /\ n - 1 = c.size /\ c.size \in 1..c.size
          BY <1>a, <3>2, <4>2
        <5>2. r[n - 1] = c.tail /\ r[n] = c.size
          BY <1>b, <2>2, <3>2, <4>2, <5>1
        <5> QED
          BY <1>a, <2>3, <5>1, <5>2
      <4> QED
        BY <1>a, <4>1, <4>2
    <3> QED
      BY <1>a, <2>2, <3>1, <3>2
  <2>6. ASSUME NEW n \in 2..p.size PROVE p.prev[r[n]] = r[n - 1]
    <3>1. CASE n \in 1..c.size
      <4>1. n - 1 \in 1..c.size /\ n \in 2..c.size
        BY <1>a, <3>1
      <4>2. r[n - 1] = s[n - 1] /\ r[n] = s[n] /\ r[n] # c.size /\ r[n] \in Slot
        BY <1>a, <2>2, <3>1, <4>1 DEF Slot
      <4> QED
        BY <1>b, <2>3, <4>1, <4>2
    <3>2. CASE n = c.size + 1
      <4>1. c.size > 0 /\ n - 1 = c.size /\ c.size \in 1..c.size
        BY <1>a, <3>2
      <4> QED
        BY <1>b, <2>1, <2>2, <2>3, <3>2, <4>1
    <3> QED
      BY <1>a, <2>2, <3>1, <3>2
  <2>7. ASSUME NEW i \in Slot PROVE i < p.size <=> \E n \in 1..p.size : r[n] = i
    <3>1. CASE i < c.size
      <4>1. PICK n \in 1..c.size : s[n] = i
        BY <1>b, <3>1
      <4>2. n \in 1..p.size /\ r[n] = i
        BY <1>a, <2>2, <4>1
      <4> QED
        BY <1>a, <2>2, <2>d, <3>1, <4>2
    <3>2. CASE i = c.size
      <4>1. p.size \in 1..p.size /\ r[p.size] = i
        BY <1>a, <2>2, <3>2
      <4> QED
        BY <1>a, <2>2, <3>2, <4>1
    <3>3. CASE i > c.size
      <4>1. \A n \in 1..c.size : r[n] # i
        BY <1>a, <2>2, <2>d, <3>3
      <4>2. \A n \in 1..p.size : r[n] # i
        BY <1>a, <2>2, <2>e, <3>3, <4>1
      <4>3. ~(i < p.size)
        BY <1>a, <2>2, <2>d, <3>3
      <4> QED
        BY <4>2, <4>3
    <3> QED
      BY <1>a, <2>d, <3>1, <3>2, <3>3
  <2>8. p.size > 0 /\ r[p.size] = p.tail
    BY <1>a, <2>2, <2>3
  <2>9. Chained(p, r)
    BY <1>a, <2>2, <2>4, <2>5, <2>6, <2>7, <2>8 DEF Chained
  <2> QED
    BY <2>1, <2>2, <2>8, <2>9 DEF r
<1> QED
  BY <1>2, <1>3, <1>4

-----------------------------------------------------------------------------
(* The items in the order of use.                                          *)

Item(c, i) == [key |-> c.keys[i], value |-> c.values[i], since |-> c.lastUpdated[i]]

ListOf(c, s) == [n \in 1..c.size |-> Item(c, s[n])]

Entries == [key : Key, value : Value, since : Nat]

(* The end of set and get: what is in slot i becomes v, as of the time t.  *)
Refresh(p, i, v, t) == [p EXCEPT !.values[i] = v, !.lastUpdated[i] = t]

(* A refresh changes the value and the time of one slot and no link.       *)
LEMMA RefreshIs ==
  ASSUME NEW p \in Caches, NEW i \in Slot, NEW v \in Value, NEW t \in Nat,
         NEW d, d = Refresh(p, i, v, t)
  PROVE  /\ d \in Caches /\ d.keys = p.keys /\ d.keyMap = p.keyMap /\ d.size = p.size
         /\ d.values = [p.values EXCEPT ![i] = v] /\ d.lastUpdated = [p.lastUpdated EXCEPT ![i] = t]
         /\ \A s : Chained(p, s) => Chained(d, s)
<1> DEFINE u == [p EXCEPT !.values[i] = v]
           w == [u EXCEPT !.lastUpdated[i] = t]
<1>1. /\ u \in Caches /\ u.keys = p.keys /\ u.keyMap = p.keyMap /\ u.size = p.size
      /\ u.values = [p.values EXCEPT ![i] = v] /\ u.lastUpdated = p.lastUpdated
      /\ u.head = p.head /\ u.tail = p.tail /\ u.next = p.next /\ u.prev = p.prev
  BY DEF Caches
<1> HIDE DEF u
<1>2. /\ w \in Caches /\ w.keys = u.keys /\ w.keyMap = u.keyMap /\ w.size = u.size
      /\ w.values = u.values /\ w.lastUpdated = [u.lastUpdated EXCEPT ![i] = t]
      /\ w.head = u.head /\ w.tail = u.tail /\ w.next = u.next /\ w.prev = u.prev
  BY <1>1 DEF Caches
<1>3. w = d
  BY DEF Refresh, u
<1> HIDE DEF w
<1>4. d.head = p.head /\ d.tail = p.tail /\ d.next = p.next /\ d.prev = p.prev /\ d.size = p.size
  BY <1>1, <1>2, <1>3
<1>5. \A s : Chained(p, s) => Chained(d, s)
  BY <1>4 DEF Chained
<1> QED
  BY <1>1, <1>2, <1>3, <1>5

(* A key that the map has is in the list.                                  *)
LEMMA KnownPlace ==
  ASSUME NEW c \in Caches, MapOK(c), NEW s, Chained(c, s), NEW k \in Key, c.keyMap[k] # Nothing
  PROVE  \E m \in 1..c.size : s[m] = c.keyMap[k]
<1>1. c.keyMap[k] \in Slot /\ c.keyMap[k] < c.size
  BY DEF MapOK, Caches
<1> QED
  BY <1>1 DEF Chained

(* set of a known key, or get: its item goes to the end.                   *)
LEMMA MovedIs ==
  ASSUME NEW c \in Caches, MapOK(c), NEW s, Chained(c, s), NEW k \in Key,
         NEW m \in 1..c.size, s[m] = c.keyMap[k], c.keyMap[k] # Nothing,
         NEW v \in Value, NEW t \in Nat, NEW d, d = Refresh(SetTail(c, c.keyMap[k]), c.keyMap[k], v, t)
  PROVE  /\ d \in Caches /\ MapOK(d) /\ d.size = c.size /\ Chained(d, Behind(s, m))
         /\ \A n \in 1..c.size : Item(d, Behind(s, m)[n]) =
               IF n = c.size THEN [key |-> k, value |-> v, since |-> t]
               ELSE Item(c, s[IF n < m THEN n ELSE n + 1])
<1> DEFINE i == c.keyMap[k]
           p == SetTail(c, i)
<1>1. i \in Slot /\ i < c.size /\ c.keys[i] = k
  BY DEF MapOK, Caches
<1>2. p \in Caches /\ SameItems(c, p) /\ Chained(p, Behind(s, m))
  BY SetTailMoves
<1> HIDE DEF p
<1>3. /\ d \in Caches /\ d.keys = p.keys /\ d.keyMap = p.keyMap /\ d.size = p.size
      /\ d.values = [p.values EXCEPT ![i] = v] /\ d.lastUpdated = [p.lastUpdated EXCEPT ![i] = t]
      /\ Chained(d, Behind(s, m))
  <2>1. d = Refresh(p, i, v, t)
    BY DEF p
  <2> HIDE DEF i
  <2> QED
    BY <1>1, <1>2, <2>1, RefreshIs
<1>4. /\ d.keys = c.keys /\ d.keyMap = c.keyMap /\ d.size = c.size
      /\ d.values = [c.values EXCEPT ![i] = v] /\ d.lastUpdated = [c.lastUpdated EXCEPT ![i] = t]
  BY <1>2, <1>3 DEF SameItems
<1>5. c.values \in [Slot -> Value \cup {Nothing}] /\ c.lastUpdated \in [Slot -> Nat] /\ c.size \in Nat
  BY LruAssumption DEF Caches
<1>6. MapOK(d)
  BY <1>1, <1>4, <1>5 DEF MapOK
<1>7. ASSUME NEW n \in 1..c.size
      PROVE  Item(d, Behind(s, m)[n]) = IF n = c.size THEN [key |-> k, value |-> v, since |-> t]
                                        ELSE Item(c, s[IF n < m THEN n ELSE n + 1])
  <2> DEFINE r == Behind(s, m)
             j == IF n < m THEN n ELSE n + 1
  <2>1. s \in [1..c.size -> Slot] /\ \A x, y \in 1..c.size : s[x] = s[y] => x = y
    BY DEF Chained
  <2>2. r[n] = IF n = c.size THEN i ELSE s[j]
    BY <1>5, <2>1 DEF Behind
  <2>3. CASE n = c.size
    <3>1. d.keys[i] = k /\ d.values[i] = v /\ d.lastUpdated[i] = t
      BY <1>1, <1>4, <1>5
    <3> QED
      BY <2>2, <2>3, <3>1 DEF Item
  <2>4. CASE n # c.size
    <3>1. j \in 1..c.size /\ j # m
      BY <1>5, <2>4
    <3>2. s[j] \in Slot /\ s[j] # i
      BY <2>1, <3>1
    <3>3. d.keys[s[j]] = c.keys[s[j]] /\ d.values[s[j]] = c.values[s[j]] /\ d.lastUpdated[s[j]] = c.lastUpdated[s[j]]
      BY <1>4, <1>5, <3>2
    <3> QED
      BY <2>2, <2>4, <3>3 DEF Item
  <2> QED
    BY <2>3, <2>4
<1> QED
  BY <1>3, <1>4, <1>6, <1>7

(* set of a new key: its item is added at the end, for the first one if    *)
(* there is no room.                                                       *)
LEMMA AddedIs ==
  ASSUME NEW c \in Caches, MapOK(c), NEW s, Chained(c, s), NEW k \in Key, c.keyMap[k] = Nothing,
         NEW v \in Value, NEW t \in Nat, NEW d, d = Refresh(Insert(c, k), FreeSlot(c), v, t)
  PROVE  /\ d \in Caches /\ MapOK(d) /\ d.size = (IF c.size = MaxItems THEN c.size ELSE c.size + 1)
         /\ Chained(d, Inserted(c, s))
         /\ \A n \in 1..d.size : Item(d, Inserted(c, s)[n]) =
               IF n = d.size THEN [key |-> k, value |-> v, since |-> t]
               ELSE Item(c, s[IF c.size = MaxItems THEN n + 1 ELSE n])
<1> DEFINE i == FreeSlot(c)
           p == Insert(c, k)
           r == Inserted(c, s)
<1>1. /\ p \in Caches /\ p.values = c.values /\ p.lastUpdated = c.lastUpdated /\ i \in Slot
      /\ p.keys = [c.keys EXCEPT ![i] = k]
      /\ p.size = (IF c.size = MaxItems THEN c.size ELSE c.size + 1)
      /\ \A j \in Key : p.keyMap[j] = IF j = k THEN i
                                    ELSE IF c.size = MaxItems /\ j = c.keys[c.head] THEN Nothing
                                    ELSE c.keyMap[j]
  <2>1. HasInserted(c, k, p)
    BY InsertIs
  <2> QED
    BY <2>1 DEF HasInserted
<1>2. Chained(p, r) /\ p.size > 0 /\ r[p.size] = i
  BY InsertChains
<1>a. d = Refresh(p, i, v, t)
  OBVIOUS
<1> HIDE DEF p, i, r
<1>3. /\ d \in Caches /\ d.keys = p.keys /\ d.keyMap = p.keyMap /\ d.size = p.size
      /\ d.values = [p.values EXCEPT ![i] = v] /\ d.lastUpdated = [p.lastUpdated EXCEPT ![i] = t]
      /\ Chained(d, r)
  BY <1>1, <1>2, <1>a, RefreshIs
<1>4. /\ \A x \in Slot : d.keys[x] = IF x = i THEN k ELSE c.keys[x]
      /\ \A x \in Slot : d.values[x] = IF x = i THEN v ELSE c.values[x]
      /\ \A x \in Slot : d.lastUpdated[x] = IF x = i THEN t ELSE c.lastUpdated[x]
  BY <1>1, <1>3 DEF Caches
<1>5. /\ c.size \in 0..MaxItems /\ MaxItems \in Nat \ {0} /\ Nothing \notin Slot /\ c.head \in Slot
      /\ c.keyMap \in [Key -> Slot \cup {Nothing}]
  BY LruAssumption DEF Caches
<1>6. c.size = MaxItems => i = c.head /\ c.head < c.size
  BY <1>5 DEF i, FreeSlot, Slot
<1>7. c.size # MaxItems => i = c.size
  BY DEF i, FreeSlot
<1>8. MapOK(d)
  <2>1. ASSUME NEW j \in Key, d.keyMap[j] # Nothing
        PROVE  d.keyMap[j] < d.size /\ d.keys[d.keyMap[j]] = j
    <3>1. CASE j = k
      BY <1>1, <1>3, <1>4, <1>5, <1>6, <1>7, <3>1
    <3>2. CASE j # k
      <4>1. d.keyMap[j] = c.keyMap[j] /\ c.keyMap[j] \in Slot /\ ~(c.size = MaxItems /\ j = c.keys[c.head])
        BY <1>1, <1>3, <1>5, <2>1, <3>2
      <4>2. c.keyMap[j] < c.size /\ c.keys[c.keyMap[j]] = j
        BY <2>1, <4>1 DEF MapOK
      <4>3. c.keyMap[j] # i
        BY <1>5, <1>6, <1>7, <4>1, <4>2
      <4> QED
        BY <1>1, <1>3, <1>4, <1>5, <4>1, <4>2, <4>3 DEF Slot
    <3> QED
      BY <3>1, <3>2
  <2>2. ASSUME NEW x \in Slot, x < d.size
        PROVE  d.keys[x] \in Key /\ d.values[x] \in Value /\ d.keyMap[d.keys[x]] = x
    <3>1. CASE x = i
      BY <1>1, <1>3, <1>4, <3>1
    <3>2. CASE x # i
      <4>1. x < c.size
        BY <1>1, <1>3, <1>5, <1>7, <2>2, <3>2 DEF Slot
      <4>2. c.keys[x] \in Key /\ c.values[x] \in Value /\ c.keyMap[c.keys[x]] = x
        BY <4>1 DEF MapOK
      <4>3. c.keys[x] # k
        BY <1>5, <4>2
      <4>4. c.size = MaxItems => c.keys[x] # c.keys[c.head]
        <5>1. c.size = MaxItems => c.keyMap[c.keys[c.head]] = c.head
          BY <1>5, <1>6 DEF MapOK
        <5> QED
          BY <1>6, <3>2, <4>2, <5>1
      <4> QED
        BY <1>1, <1>3, <1>4, <3>2, <4>2, <4>3, <4>4
    <3> QED
      BY <3>1, <3>2
  <2> QED
    BY <2>1, <2>2 DEF MapOK
<1>9. ASSUME NEW n \in 1..d.size
      PROVE  Item(d, r[n]) = IF n = d.size THEN [key |-> k, value |-> v, since |-> t]
                             ELSE Item(c, s[IF c.size = MaxItems THEN n + 1 ELSE n])
  <2>1. CASE n = d.size
    BY <1>1, <1>2, <1>3, <1>4, <2>1 DEF Item
  <2>2. CASE n # d.size
    <3>1. r[n] \in Slot /\ r[n] # i
      <4>1. d.size \in 1..d.size /\ r[d.size] = i
        BY <1>1, <1>2, <1>3, <1>5
      <4> QED
        BY <1>3, <2>2, <4>1 DEF Chained
    <3>2. r[n] = s[IF c.size = MaxItems THEN n + 1 ELSE n]
      <4>1. DOMAIN s = 1..c.size
        BY DEF Chained
      <4> QED
        BY <1>1, <1>3, <1>5, <2>2, <4>1 DEF r, Inserted, Behind
    <3> QED
      BY <1>4, <2>2, <3>1, <3>2 DEF Item
  <2> QED
    BY <2>1, <2>2
<1> QED
  BY <1>1, <1>3, <1>8, <1>9 DEF r

(* A sequence without its m-th element.                                    *)
HasLost(S, L, m, r) ==
  /\ r \in Seq(S) /\ Len(r) = Len(L) - 1
  /\ \A n \in 1..Len(r) : r[n] = L[IF n < m THEN n ELSE n + 1]

(* r is a and then b, which are what is before and after the m-th element. *)
Glued(L, m, r, a, b) ==
  /\ 1 <= m /\ m <= Len(L) /\ Len(r) = m - 1 + (Len(L) - m)
  /\ \A n \in 1..Len(r) : r[n] = IF n <= m - 1 THEN a[n] ELSE b[n - (m - 1)]
  /\ \A n \in 1..m - 1 : a[n] = L[n]
  /\ \A n \in 1..Len(L) - m : b[n] = L[n + m]

(* Two parts glued together are the list without the entry between them.   *)
LEMMA LostOf ==
  ASSUME NEW S, NEW L \in Seq(S), NEW m \in Nat, NEW r \in Seq(S), NEW a, NEW b, Glued(L, m, r, a, b)
  PROVE  HasLost(S, L, m, r)
<1>0. /\ Len(L) \in Nat /\ 1 <= m /\ m <= Len(L) /\ Len(r) = m - 1 + (Len(L) - m)
      /\ \A n \in 1..Len(r) : r[n] = IF n <= m - 1 THEN a[n] ELSE b[n - (m - 1)]
      /\ \A n \in 1..m - 1 : a[n] = L[n]
      /\ \A n \in 1..Len(L) - m : b[n] = L[n + m]
  BY DEF Glued
<1>1. Len(r) = Len(L) - 1
  BY <1>0
<1>2. ASSUME NEW n \in 1..Len(r) PROVE r[n] = L[IF n < m THEN n ELSE n + 1]
  <2>1. CASE n < m
    <3>1. n \in 1..m - 1 /\ n <= m - 1
      BY <1>0, <2>1
    <3> QED
      BY <1>0, <2>1, <3>1
  <2>2. CASE ~(n < m)
    <3>1. n - (m - 1) \in 1..Len(L) - m /\ ~(n <= m - 1) /\ n - (m - 1) + m = n + 1
      BY <1>0, <1>1, <2>2
    <3>2. r[n] = b[n - (m - 1)] /\ b[n - (m - 1)] = L[n - (m - 1) + m]
      BY <1>0, <3>1
    <3> QED
      BY <2>2, <3>1, <3>2
  <2> QED
    BY <2>1, <2>2
<1> QED
  BY <1>1, <1>2 DEF HasLost

(* What is left of a list without its entry m.                             *)
LEMMA RemovedIs ==
  ASSUME NEW S, NEW L \in Seq(S), NEW m \in 1..Len(L),
         NEW r, r = SubSeq(L, 1, m - 1) \o SubSeq(L, m + 1, Len(L))
  PROVE  HasLost(S, L, m, r)
<1> DEFINE a == SubSeq(L, 1, m - 1)
           b == SubSeq(L, m + 1, Len(L))
<1>0. Len(L) \in Nat /\ m \in Nat /\ 1 <= m /\ m <= Len(L)
  OBVIOUS
<1>1. a \in Seq(S) /\ Len(a) = m - 1 /\ \A n \in 1..m - 1 : a[n] = L[n]
  BY <1>0
<1>2. b \in Seq(S) /\ Len(b) = Len(L) - m /\ \A n \in 1..Len(L) - m : b[n] = L[n + m]
  BY <1>0
<1>3. r = a \o b
  OBVIOUS
<1> HIDE DEF a, b
<1>4. /\ a \o b \in Seq(S) /\ Len(a \o b) = Len(a) + Len(b)
      /\ \A n \in 1..Len(a) + Len(b) : (a \o b)[n] = IF n <= Len(a) THEN a[n] ELSE b[n - Len(a)]
  BY <1>1, <1>2, ConcatProperties, Zenon
<1>5. /\ r \in Seq(S) /\ Len(r) = m - 1 + (Len(L) - m)
      /\ \A n \in 1..Len(r) : r[n] = IF n <= m - 1 THEN a[n] ELSE b[n - (m - 1)]
  BY <1>1, <1>2, <1>3, <1>4, Zenon
<1>6. Glued(L, m, r, a, b)
  BY <1>0, <1>1, <1>2, <1>5, Zenon DEF Glued
<1> QED
  BY <1>0, <1>5, <1>6, LostOf

(* A sequence with one more element.                                       *)
HasGained(S, L, e, all) ==
  /\ all \in Seq(S) /\ Len(all) = Len(L) + 1 /\ all[Len(L) + 1] = e
  /\ \A n \in 1..Len(L) : all[n] = L[n]

(* What a list is with one entry more.                                     *)
LEMMA AppendedIs ==
  ASSUME NEW S, NEW L \in Seq(S), NEW e \in S, NEW all, all = Append(L, e)
  PROVE  HasGained(S, L, e, all)
BY AppendProperties DEF HasGained

CacheOK(c) == c \in Caches /\ MapOK(c) /\ Chained(c, Nth(c))

(* What a cache that is in order remembers.                                *)
Remembered(c) == ListOf(c, Nth(c))

(* The list that a cache stands for, entry by entry.                       *)
LEMMA ListIs ==
  ASSUME NEW c, CacheOK(c)
  PROVE  /\ Remembered(c) \in Seq(Entries) /\ Len(Remembered(c)) = c.size /\ c.size \in 0..MaxItems
         /\ \A n \in 1..c.size : Remembered(c)[n] = Item(c, Nth(c)[n]) /\ Nth(c)[n] \in Slot
<1> DEFINE s == Nth(c)
<1>1. s \in [1..c.size -> Slot] /\ c.size \in 0..MaxItems /\ MaxItems \in Nat
  BY LruAssumption DEF CacheOK, Chained, Caches
<1>3. ASSUME NEW n \in 1..c.size PROVE Item(c, s[n]) \in Entries /\ s[n] \in Slot
  <2>1. s[n] \in Slot /\ s[n] < c.size
    BY <1>1 DEF CacheOK, Chained
  <2>2. c.keys[s[n]] \in Key /\ c.values[s[n]] \in Value /\ c.lastUpdated[s[n]] \in Nat
    BY <2>1 DEF CacheOK, MapOK, Caches
  <2> QED
    BY <2>1, <2>2 DEF Item, Entries
<1> HIDE DEF s
<1>4. ListOf(c, s) \in Seq(Entries) /\ Len(ListOf(c, s)) = c.size
  BY <1>1, <1>3 DEF ListOf
<1>5. \A n \in 1..c.size : ListOf(c, s)[n] = Item(c, s[n])
  BY DEF ListOf
<1> QED
  BY <1>1, <1>3, <1>4, <1>5 DEF s, Remembered

Place(L, k) == {n \in DOMAIN L : L[n].key = k}

(* Where the key is in the list, if it is.                                 *)
LEMMA PlaceIs ==
  ASSUME NEW c, CacheOK(c), NEW k \in Key
  PROVE  /\ c.keyMap[k] = Nothing => Place(Remembered(c), k) = {}
         /\ \A m \in 1..c.size : c.keyMap[k] # Nothing /\ Nth(c)[m] = c.keyMap[k] =>
               /\ Place(Remembered(c), k) = {m}
               /\ Remembered(c)[m] = [key |-> k, value |-> c.values[c.keyMap[k]],
                                      since |-> c.lastUpdated[c.keyMap[k]]]
<1> DEFINE s == Nth(c)
           L == Remembered(c)
<1>1. /\ DOMAIN L = 1..c.size /\ c.size \in Nat
      /\ \A n \in 1..c.size : L[n] = Item(c, s[n]) /\ s[n] \in Slot
  BY ListIs, LruAssumption
<1>2. \A n \in 1..c.size : s[n] < c.size /\ c.keyMap[c.keys[s[n]]] = s[n]
  BY <1>1 DEF CacheOK, Chained, MapOK
<1>3. \A n, m \in 1..c.size : s[n] = s[m] => n = m
  BY DEF CacheOK, Chained
<1>4. Nothing \notin Slot
  BY LruAssumption
<1>5. \A n \in 1..c.size : L[n].key = c.keys[s[n]]
  <2>1. \A x : Item(c, x).key = c.keys[x]
    BY DEF Item
  <2> QED
    BY <1>1, <2>1
<1> HIDE DEF s, L
<1>6. c.keyMap[k] = Nothing => Place(L, k) = {}
  BY <1>1, <1>2, <1>4, <1>5 DEF Place
<1>7. ASSUME NEW m \in 1..c.size, c.keyMap[k] # Nothing, s[m] = c.keyMap[k]
      PROVE  Place(L, k) = {m} /\ L[m] = [key |-> k, value |-> c.values[c.keyMap[k]],
                                          since |-> c.lastUpdated[c.keyMap[k]]]
  <2>1. c.keys[s[m]] = k
    BY <1>7 DEF CacheOK, MapOK
  <2>2. Place(L, k) = {m}
    BY <1>1, <1>2, <1>3, <1>5, <1>7, <2>1 DEF Place
  <2> QED
    BY <1>1, <1>7, <2>1, <2>2 DEF Item
<1> QED
  BY <1>6, <1>7 DEF s, L

(* RecentlyUsed's Without, of any list.                                    *)
Without(L, k) ==
  LET n == CHOOSE n \in Place(L, k) : TRUE
  IN IF Place(L, k) = {} THEN L ELSE SubSeq(L, 1, n - 1) \o SubSeq(L, n + 1, Len(L))

(* The item of a known key went to the end, with another value or time.    *)
LEMMA MovedToEnd ==
  ASSUME NEW c, CacheOK(c), NEW k \in Key, c.keyMap[k] # Nothing, NEW v \in Value, NEW t \in Nat,
         NEW d, d = Refresh(SetTail(c, c.keyMap[k]), c.keyMap[k], v, t)
  PROVE  /\ CacheOK(d)
         /\ Remembered(d) = Append(Without(Remembered(c), k), [key |-> k, value |-> v, since |-> t])
         /\ Without(Remembered(c), k) \in Seq(Entries) /\ Len(Without(Remembered(c), k)) < MaxItems
<1> DEFINE s == Nth(c)
           L == Remembered(c)
           e == [key |-> k, value |-> v, since |-> t]
<1>0. /\ c \in Caches /\ MapOK(c) /\ Chained(c, s) /\ c.size \in 0..MaxItems /\ MaxItems \in Nat
      /\ L \in Seq(Entries) /\ Len(L) = c.size /\ \A n \in 1..c.size : L[n] = Item(c, s[n])
  BY ListIs, LruAssumption DEF CacheOK
<1>1. PICK m \in 1..c.size : s[m] = c.keyMap[k]
  BY <1>0, KnownPlace
<1>2. /\ d \in Caches /\ MapOK(d) /\ d.size = c.size /\ Chained(d, Behind(s, m))
      /\ \A n \in 1..c.size : Item(d, Behind(s, m)[n]) =
            IF n = c.size THEN e ELSE Item(c, s[IF n < m THEN n ELSE n + 1])
  BY <1>0, <1>1, MovedIs
<1>3. Nth(d) = Behind(s, m)
  BY <1>2, NthOf
<1>4. CacheOK(d)
  BY <1>2, <1>3 DEF CacheOK
<1>5. Place(L, k) = {m}
  BY <1>1, PlaceIs
<1> HIDE DEF L, s, e
<1>6. Without(L, k) = SubSeq(L, 1, m - 1) \o SubSeq(L, m + 1, Len(L))
  BY <1>5 DEF Without
<1>7. /\ Without(L, k) \in Seq(Entries) /\ Len(Without(L, k)) = c.size - 1
      /\ \A n \in 1..c.size - 1 : Without(L, k)[n] = L[IF n < m THEN n ELSE n + 1]
  <2>1. HasLost(Entries, L, m, Without(L, k))
    BY <1>0, <1>1, <1>6, RemovedIs
  <2> QED
    BY <1>0, <2>1 DEF HasLost
<1>8. /\ Remembered(d) \in Seq(Entries) /\ Len(Remembered(d)) = c.size
      /\ \A n \in 1..c.size : Remembered(d)[n] = IF n = c.size THEN e ELSE Item(c, s[IF n < m THEN n ELSE n + 1])
  BY <1>2, <1>3, <1>4, ListIs
<1>9. e \in Entries
  BY DEF e, Entries
<1>10. Remembered(d) = Append(Without(L, k), e)
  <2>1. c.size \in Nat /\ m \in Nat /\ 1 <= m /\ m <= c.size
    BY <1>0, <1>1
  <2>2. Append(Without(L, k), e) \in Seq(Entries) /\ Len(Append(Without(L, k), e)) = c.size
    BY <1>7, <1>9, <2>1, AppendProperties
  <2>3. ASSUME NEW n \in 1..c.size PROVE Remembered(d)[n] = Append(Without(L, k), e)[n]
    <3>1. CASE n = c.size
      <4>1. Append(Without(L, k), e)[c.size - 1 + 1] = e
        BY <1>7, <1>9, AppendProperties
      <4>2. c.size - 1 + 1 = c.size
        BY <2>1
      <4> QED
        BY <1>8, <3>1, <4>1, <4>2
    <3>2. CASE n # c.size
      <4>1. n \in 1..c.size - 1 /\ (IF n < m THEN n ELSE n + 1) \in 1..c.size
        BY <2>1, <3>2
      <4>2. Append(Without(L, k), e)[n] = Without(L, k)[n]
        BY <1>7, <1>9, <2>1, <4>1, AppendProperties
      <4> QED
        BY <1>0, <1>7, <1>8, <3>2, <4>1, <4>2
    <3> QED
      BY <3>1, <3>2
  <2> QED
    BY <1>8, <2>2, <2>3, SeqEqual
<1>11. Without(L, k) \in Seq(Entries) /\ Len(Without(L, k)) < MaxItems
  BY <1>0, <1>7
<1> QED
  BY <1>4, <1>10, <1>11 DEF L, e

(* A new key comes to the end of the list, and the oldest goes if the      *)
(* cache was full.                                                         *)
LEMMA AddedAtEnd ==
  ASSUME NEW c, CacheOK(c), NEW k \in Key, c.keyMap[k] = Nothing, NEW v \in Value, NEW t \in Nat,
         NEW d, d = Refresh(Insert(c, k), FreeSlot(c), v, t),
         NEW all, all = Append(Remembered(c), [key |-> k, value |-> v, since |-> t])
  PROVE  /\ CacheOK(d) /\ Without(Remembered(c), k) = Remembered(c)
         /\ Remembered(d) = IF Len(all) > MaxItems THEN Tail(all) ELSE all
<1> DEFINE s == Nth(c)
           L == Remembered(c)
           e == [key |-> k, value |-> v, since |-> t]
<1>0. /\ c \in Caches /\ MapOK(c) /\ Chained(c, s) /\ c.size \in 0..MaxItems /\ MaxItems \in Nat \ {0}
      /\ L \in Seq(Entries) /\ Len(L) = c.size /\ \A n \in 1..c.size : L[n] = Item(c, s[n])
  BY ListIs, LruAssumption DEF CacheOK
<1>2. /\ d \in Caches /\ MapOK(d) /\ d.size = (IF c.size = MaxItems THEN c.size ELSE c.size + 1)
      /\ Chained(d, Inserted(c, s))
      /\ \A n \in 1..d.size : Item(d, Inserted(c, s)[n]) =
            IF n = d.size THEN e ELSE Item(c, s[IF c.size = MaxItems THEN n + 1 ELSE n])
  BY <1>0, AddedIs
<1>3. Nth(d) = Inserted(c, s)
  BY <1>2, NthOf
<1>4. CacheOK(d)
  BY <1>2, <1>3 DEF CacheOK
<1>5. Without(L, k) = L
  BY PlaceIs DEF Without
<1>6. e \in Entries /\ all = Append(L, e)
  BY DEF Entries
<1> HIDE DEF L, s, e
<1>7. /\ Remembered(d) \in Seq(Entries) /\ Len(Remembered(d)) = d.size
      /\ \A n \in 1..d.size : Remembered(d)[n] =
            IF n = d.size THEN e ELSE Item(c, s[IF c.size = MaxItems THEN n + 1 ELSE n])
  BY <1>2, <1>3, <1>4, ListIs
<1>8. /\ all \in Seq(Entries) /\ Len(all) = c.size + 1
      /\ \A n \in 1..c.size + 1 : all[n] = IF n = c.size + 1 THEN e ELSE L[n]
  <2>1. /\ all \in Seq(Entries) /\ Len(all) = c.size + 1 /\ all[c.size + 1] = e
        /\ \A n \in 1..c.size : all[n] = L[n]
    <3>1. L \in Seq(Entries) /\ e \in Entries /\ Len(L) = c.size
      BY <1>0, <1>6
    <3>2. HasGained(Entries, L, e, all)
      BY <1>6, <3>1, AppendedIs
    <3> QED
      BY <3>1, <3>2, Zenon DEF HasGained
  <2>2. \A n \in 1..c.size + 1 : n = c.size + 1 \/ n \in 1..c.size
    BY <1>0
  <2>3. \A n \in 1..c.size : n # c.size + 1
    BY <1>0
  <2> QED
    BY <2>1, <2>2, <2>3
<1>9. CASE c.size = MaxItems
  <2>1. Tail(all) \in Seq(Entries) /\ Len(Tail(all)) = c.size /\ \A n \in 1..c.size : Tail(all)[n] = all[n + 1]
    BY <1>0, <1>8
  <2>2. \A n \in 1..c.size : Remembered(d)[n] = Tail(all)[n]
    BY <1>0, <1>2, <1>7, <1>8, <1>9, <2>1
  <2>3. Remembered(d) = Tail(all)
    BY <1>0, <1>2, <1>7, <1>9, <2>1, <2>2
  <2>4. Len(all) > MaxItems
    BY <1>0, <1>8, <1>9
  <2> QED
    BY <1>4, <1>5, <2>3, <2>4 DEF L
<1>10. CASE c.size # MaxItems
  <2>1. \A n \in 1..c.size + 1 : Remembered(d)[n] = all[n]
    BY <1>0, <1>2, <1>7, <1>8, <1>10
  <2>2. Remembered(d) = all
    BY <1>0, <1>2, <1>7, <1>8, <1>10, <2>1
  <2>3. ~(Len(all) > MaxItems)
    BY <1>0, <1>8, <1>10
  <2> QED
    BY <1>4, <1>5, <2>2, <2>3 DEF L
<1> QED
  BY <1>9, <1>10

-----------------------------------------------------------------------------
(* The cache of the manager is what RecentlyUsed promises.                 *)

(* The list of the refinement is the one that the cache stands for.        *)
LEMMA ListHere ==
  ASSUME CacheOK(cache)
  PROVE  List = Remembered(cache) /\ \A k : Recent!Without(k) = Without(Remembered(cache), k)
<1>1. DOMAIN Nth(cache) = 1..cache.size
  BY DEF CacheOK, Chained
<1>2. List = Remembered(cache)
  BY <1>1 DEF List, Remembered, ListOf, Item
<1>3. \A k : Recent!Without(k) = Without(Remembered(cache), k)
  <2> TAKE k
  <2> HIDE DEF List
  <2>1. Recent!Without(k) = Without(List, k)
    BY Zenon DEF Recent!Without, Without, Place
  <2> QED
    BY <1>2, <2>1
<1> QED
  BY <1>2, <1>3

(* And so it is after a step.                                              *)
LEMMA ListThen ==
  ASSUME CacheOK(cache)'
  PROVE  List' = Remembered(cache')
<1>1. DOMAIN Nth(cache') = 1..cache'.size
  BY DEF CacheOK, Chained
<1> QED
  BY <1>1 DEF List, Remembered, ListOf, Item

(* set(k, v)                                                               *)
LEMMA PutKeeps ==
  ASSUME CacheOK(cache), now \in Nat, NEW k \in Key, NEW v \in Value, cache' = Put(cache, k, v, now)
  PROVE  CacheOK(cache)' /\ Recent!Put(k, v)
<1> DEFINE L == Remembered(cache)
           e == [key |-> k, value |-> v, since |-> now]
           all == Append(Without(L, k), e)
           d == cache'
<1>0. MaxAge > 0 /\ cache \in Caches /\ Nothing \notin Slot
  BY BigSegmentsAssumption, LruAssumption DEF CacheOK
<1>1. CASE cache.keyMap[k] = Nothing
  <2> DEFINE p == Insert(cache, k)
  <2>1. p.keyMap[k] = FreeSlot(cache)
    <3>1. HasInserted(cache, k, p)
      BY InsertIs DEF CacheOK
    <3>2. p.keyMap[k] = IF k = k THEN FreeSlot(cache)
                        ELSE IF cache.size = MaxItems /\ k = cache.keys[cache.head] THEN Nothing
                        ELSE cache.keyMap[k]
      BY <3>1, Zenon DEF HasInserted
    <3> QED
      BY <3>2
  <2>2. d = [p EXCEPT !.values[p.keyMap[k]] = v, !.lastUpdated[p.keyMap[k]] = IF MaxAge > 0 THEN now ELSE @]
    BY <1>1, Zenon DEF Put
  <2> HIDE DEF p
  <2>3. d = Refresh(p, FreeSlot(cache), v, now)
    BY <1>0, <2>1, <2>2 DEF Refresh
  <2>4. d = Refresh(Insert(cache, k), FreeSlot(cache), v, now)
    BY <2>3 DEF p
  <2> DEFINE more == Append(L, e)
  <2>a. more = Append(Remembered(cache), [key |-> k, value |-> v, since |-> now])
    OBVIOUS
  <2> HIDE DEF d, e, L, more
  <2>b. /\ CacheOK(d) /\ Without(Remembered(cache), k) = Remembered(cache)
        /\ Remembered(d) = IF Len(more) > MaxItems THEN Tail(more) ELSE more
    BY <1>1, <2>4, <2>a, AddedAtEnd
  <2>5. /\ CacheOK(d) /\ Without(L, k) = L
        /\ Remembered(d) = IF Len(Append(L, e)) > MaxItems THEN Tail(Append(L, e)) ELSE Append(L, e)
    BY <2>b DEF L, more
  <2> QED
    BY <1>0, <2>5, ListHere, ListThen DEF Recent!Put, Recent!Stamp, L, e, d
<1>2. CASE cache.keyMap[k] # Nothing
  <2> DEFINE i == cache.keyMap[k]
             p == SetTail(cache, i)
  <2>1. p.keyMap[k] = i
    <3>1. PICK m \in 1..cache.size : Nth(cache)[m] = i
      BY <1>2, KnownPlace DEF CacheOK
    <3> QED
      BY <1>0, <3>1, SetTailMoves DEF CacheOK, SameItems
  <2>2. d = [p EXCEPT !.values[p.keyMap[k]] = v, !.lastUpdated[p.keyMap[k]] = IF MaxAge > 0 THEN now ELSE @]
    BY <1>2, Zenon DEF Put
  <2> HIDE DEF p, i
  <2>3. d = Refresh(p, i, v, now)
    BY <1>0, <2>1, <2>2 DEF Refresh
  <2>4. d = Refresh(SetTail(cache, cache.keyMap[k]), cache.keyMap[k], v, now)
    BY <2>3 DEF p, i
  <2> HIDE DEF d, e, L
  <2>5. /\ CacheOK(d) /\ Remembered(d) = Append(Without(L, k), e)
        /\ Without(L, k) \in Seq(Entries) /\ Len(Without(L, k)) < MaxItems
    BY <1>2, <2>4, MovedToEnd DEF L, e
  <2>6. ~(Len(Append(Without(L, k), e)) > MaxItems)
    BY <2>5, LruAssumption
  <2> QED
    BY <1>0, <2>5, <2>6, ListHere, ListThen DEF Recent!Put, Recent!Stamp, L, e, d
<1> QED
  BY <1>1, <1>2

(* get(k)                                                                  *)
LEMMA GotKeeps ==
  ASSUME CacheOK(cache), now \in Nat, NEW k \in Key, cache' = Got(cache, k, now)
  PROVE  /\ CacheOK(cache)'
         /\ \/ \E n \in Recent!Has(k) :
                  /\ Found(cache, k, now) = List[n].value /\ Found(cache, k, now) \in Value
                  /\ List' = Append(Recent!Without(k), [List[n] EXCEPT !.since = IF MaxAge > 0 THEN now ELSE 0])
            \/ Recent!Has(k) = {} /\ Found(cache, k, now) = Nothing /\ List' = List
<1> DEFINE L == Remembered(cache)
           i == cache.keyMap[k]
           d == cache'
<1>0. MaxAge > 0 /\ cache \in Caches /\ Nothing \notin Slot
  BY BigSegmentsAssumption, LruAssumption DEF CacheOK
<1>1. Recent!Has(k) = {n \in Place(L, k) : MaxAge > 0 => now - L[n].since <= MaxAge}
  BY ListHere DEF Recent!Has, Recent!Fresh, Place
<1>2. CASE i = Nothing
  <2>1. d = cache /\ Found(cache, k, now) = Nothing
    BY <1>2 DEF Got, Found, IsFound
  <2>2. Recent!Has(k) = {}
    BY <1>1, <1>2, PlaceIs
  <2> QED
    BY <2>1, <2>2, ListHere, ListThen
<1>3. CASE i # Nothing
  <2>1. PICK m \in 1..cache.size : Nth(cache)[m] = i
    BY <1>3, KnownPlace DEF CacheOK
  <2>2. /\ Place(L, k) = {m} /\ L[m] = [key |-> k, value |-> cache.values[i], since |-> cache.lastUpdated[i]]
    BY <1>3, <2>1, PlaceIs
  <2>3. i \in Slot /\ cache.values[i] \in Value
    BY <1>0, <1>3 DEF CacheOK, MapOK, Caches
  <2>4. CASE ~(now - cache.lastUpdated[i] <= MaxAge)
    <3>1. d = cache /\ Found(cache, k, now) = Nothing
      BY <1>0, <2>4 DEF Got, Found, IsFound
    <3>2. Recent!Has(k) = {}
      BY <1>0, <1>1, <2>2, <2>4
    <3> QED
      BY <3>1, <3>2, ListHere, ListThen
  <2>5. CASE now - cache.lastUpdated[i] <= MaxAge
    <3> DEFINE p == SetTail(cache, i)
               v == cache.values[i]
               e == [key |-> k, value |-> v, since |-> now]
    <3>1. Found(cache, k, now) = v
      BY <1>3, <2>5 DEF Found, IsFound
    <3>2. d = [p EXCEPT !.lastUpdated[i] = IF MaxAge > 0 THEN now ELSE @]
      BY <1>3, <2>5 DEF Got, IsFound
    <3>3. p \in Caches /\ p.values = cache.values
      BY <1>0, <2>1, SetTailMoves DEF CacheOK, SameItems
    <3> HIDE DEF p, v, d, i, L
    <3>4. d = Refresh(p, i, v, now)
      <4>1. [p EXCEPT !.values[i] = v] = p
        BY <2>3, <3>3 DEF Caches, v
      <4> QED
        BY <1>0, <3>2, <4>1 DEF Refresh
    <3>5. CacheOK(d) /\ Remembered(d) = Append(Without(L, k), e)
      BY <1>3, <2>3, <3>4, MovedToEnd DEF p, i, L, v
    <3>6. m \in Recent!Has(k)
      BY <1>1, <2>2, <2>5
    <3>7. List[m].value = v /\ [List[m] EXCEPT !.since = now] = e
      BY <2>2, ListHere DEF L, v
    <3> QED
      BY <1>0, <2>3, <3>1, <3>5, <3>6, <3>7, ListHere, ListThen DEF L, d, v
  <2> QED
    BY <2>4, <2>5
<1> QED
  BY <1>2, <1>3

-----------------------------------------------------------------------------
(* What is known while the store is asked.                                 *)

CallSet ==
  [what : {"include", "exclude", "user", "metadata"}, who : Query \cup {Poll},
   served : BOOLEAN, failed : BOOLEAN, reply : Value \cup (0..MaxTime)]

QuerySet ==
  [stage : {"idle", "asking", "polling", "answered"}, key : Key \cup {Nothing}, membership : Value,
   status : {"", "STORE_ERROR", "STALE", "HEALTHY"}, seen : Seq(Value)]

(* A query has one call at a time.                                         *)
CallsUnique ==
  \A m, n \in DOMAIN calls : calls[m].who = calls[n].who /\ calls[m].who \in Query => m = n

Had(query, m) == \E n \in DOMAIN query.seen : query.seen[n] = m
HadOther(query, m) == \E n \in DOMAIN query.seen : query.seen[n] # m

(* What a call has been answered, or a call before it, was so at a time    *)
(* since the query began.                                                  *)
Supported(call, query) ==
  /\ call.what = "include" /\ call.served /\ ~call.failed =>
       \/ call.reply = "in" /\ Had(query, "in")
       \/ call.reply = "none" /\ HadOther(query, "in")
  /\ call.what = "exclude" =>
       \/ query.membership = "in" /\ Had(query, "in")
       \/ query.membership = "none" /\ HadOther(query, "in")
  /\ call.what = "exclude" /\ call.served /\ ~call.failed =>
       \/ call.reply = "out" /\ Had(query, "out")
       \/ /\ call.reply = "none"
          /\ query.membership = "none" =>
               \E n, m \in DOMAIN query.seen : n <= m /\ query.seen[n] # "in" /\ query.seen[m] # "out"
  /\ call.what = "user" => query.membership = "none"
  /\ call.what = "user" /\ call.served /\ ~call.failed => Had(query, call.reply)

CallFits(b, call, query) ==
  /\ query.stage = IF call.what = "metadata" THEN "polling" ELSE "asking"
  /\ call.what \in {"include", "exclude"} => b = "redis"
  /\ Supported(call, query)

CallsFit ==
  \A n \in DOMAIN calls :
    IF calls[n].who \in Query THEN CallFits(backend, calls[n], queries[calls[n].who])
    ELSE calls[n].what = "metadata"

(* The last of the memberships that were seen is the one there is.         *)
SeenNow(ms, query) ==
  query.stage = "asking" =>
    /\ query.key \in Key /\ query.seen # <<>> /\ query.seen[Len(query.seen)] = ms[query.key]

SeenIsNow == \A q \in Query : SeenNow(members, queries[q])

(* MembershipWasTrue of one query.                                         *)
WasTrue(b, query) ==
  query.stage \in {"polling", "answered"} /\ query.seen # <<>> =>
    \/ Had(query, query.membership)
    \/ /\ b = "redis" /\ query.membership = "none"
       /\ \E n, m \in DOMAIN query.seen : n <= m /\ query.seen[n] # "in" /\ query.seen[m] # "out"

Asking == CallsUnique /\ CallsFit /\ SeenIsNow /\ MembershipWasTrue

Typed == TypeOK /\ calls \in Seq(CallSet)

Invariant == Typed /\ CacheOK(cache) /\ Asking

(* The property, query by query.                                           *)
LEMMA WasTrueOfAll == MembershipWasTrue <=> \A q \in Query : WasTrue(backend, queries[q])
BY DEF MembershipWasTrue, WasTrue, Had

-----------------------------------------------------------------------------
(* Calls come and go.                                                      *)

(* The calls cs are those of before, under other numbers, and new ones (0) *)
(* of which there is at most one.                                          *)
Renamed(cs, f) ==
  /\ f \in [DOMAIN cs -> Nat]
  /\ \A j \in DOMAIN cs : f[j] # 0 => f[j] \in DOMAIN calls /\ cs[j] = calls[f[j]]
  /\ \A i, j \in DOMAIN cs : f[i] = f[j] => i = j

(* A call that is answered is under way no more; the others stay as they   *)
(* are.                                                                    *)
LEMMA OneLess ==
  ASSUME calls \in Seq(CallSet), NEW n \in DOMAIN calls
  PROVE  /\ WithoutCall(n) \in Seq(CallSet)
         /\ \E f : Renamed(WithoutCall(n), f) /\ \A j \in DOMAIN WithoutCall(n) : f[j] # n /\ f[j] # 0
<1> DEFINE W == WithoutCall(n)
           f == [j \in DOMAIN W |-> IF j < n THEN j ELSE j + 1]
<1>1. n \in 1..Len(calls) /\ Len(calls) \in Nat
  OBVIOUS
<1>2. W = SubSeq(calls, 1, n - 1) \o SubSeq(calls, n + 1, Len(calls))
  BY DEF WithoutCall, RemoveAt
<1> HIDE DEF W
<1>3. /\ W \in Seq(CallSet) /\ Len(W) = Len(calls) - 1
      /\ \A j \in 1..Len(W) : W[j] = calls[IF j < n THEN j ELSE j + 1]
  <2>1. HasLost(CallSet, calls, n, W)
    BY <1>1, <1>2, RemovedIs
  <2> QED
    BY <2>1 DEF HasLost
<1>4. DOMAIN W = 1..Len(calls) - 1 /\ DOMAIN calls = 1..Len(calls)
  BY <1>3
<1>5. Renamed(W, f) /\ \A j \in DOMAIN W : f[j] # n /\ f[j] # 0
  BY <1>1, <1>3, <1>4 DEF Renamed
<1> QED
  BY <1>3, <1>5 DEF W

(* A call that is made comes to the others.                                *)
LEMMA OneMore ==
  ASSUME NEW cs \in Seq(CallSet), NEW f, Renamed(cs, f), \A j \in DOMAIN cs : f[j] # 0, NEW c \in CallSet
  PROVE  /\ Append(cs, c) \in Seq(CallSet)
         /\ \E g : /\ Renamed(Append(cs, c), g)
                   /\ \A j \in DOMAIN Append(cs, c) :
                        \/ j \in DOMAIN cs /\ g[j] = f[j]
                        \/ g[j] = 0 /\ Append(cs, c)[j] = c
<1> DEFINE a == Append(cs, c)
           g == [j \in DOMAIN a |-> IF j \in DOMAIN cs THEN f[j] ELSE 0]
<1>1. /\ a \in Seq(CallSet) /\ Len(cs) \in Nat /\ DOMAIN a = 1..Len(cs) + 1 /\ DOMAIN cs = 1..Len(cs)
      /\ a[Len(cs) + 1] = c /\ \A j \in 1..Len(cs) : a[j] = cs[j]
  OBVIOUS
<1> HIDE DEF a
<1>2. \A j \in DOMAIN a : (j \in DOMAIN cs /\ g[j] = f[j] /\ a[j] = cs[j] /\ g[j] # 0)
                          \/ (j = Len(cs) + 1 /\ g[j] = 0 /\ a[j] = c)
  BY <1>1
<1>3. g \in [DOMAIN a -> Nat]
  BY <1>1 DEF Renamed
<1> HIDE DEF g
<1>4. Renamed(a, g)
  BY <1>2, <1>3 DEF Renamed
<1> QED
  BY <1>1, <1>2, <1>4 DEF a

(* A step may make no call.                                                *)
LEMMA SameCalls ==
  ASSUME calls \in Seq(CallSet)
  PROVE  \E f : Renamed(calls, f) /\ \A j \in DOMAIN calls : f[j] # 0 /\ f[j] = j
<1> DEFINE f == [j \in DOMAIN calls |-> j]
<1>1. Renamed(calls, f) /\ \A j \in DOMAIN calls : f[j] # 0 /\ f[j] = j
  BY DEF Renamed
<1> QED
  BY <1>1

(* A step of one query q (or of none): the other queries and their calls   *)
(* stay, and a new call of q is one that fits.                             *)
LEMMA OneActs ==
  ASSUME Asking, NEW q, NEW f, Renamed(calls', f),
         \A p \in Query : p # q => queries'[p] = queries[p],
         UNCHANGED <<backend, members>>,
         \A j \in DOMAIN calls' : f[j] # 0 /\ calls[f[j]].who \in Query => calls[f[j]].who # q,
         \A j \in DOMAIN calls' : f[j] = 0 =>
            /\ calls'[j].who \in Query => calls'[j].who = q /\ CallFits(backend, calls'[j], queries'[q])
            /\ calls'[j].who \notin Query => calls'[j].what = "metadata",
         q \in Query => SeenNow(members, queries'[q]) /\ WasTrue(backend, queries'[q])
  PROVE  Asking'
<1>1. CallsUnique'
  BY DEF Asking, CallsUnique, Renamed
<1>2. CallsFit'
  <2> SUFFICES ASSUME NEW n \in DOMAIN calls'
               PROVE  IF calls'[n].who \in Query THEN CallFits(backend, calls'[n], queries'[calls'[n].who])
                      ELSE calls'[n].what = "metadata"
    BY DEF CallsFit
  <2>1. CASE f[n] = 0
    BY <2>1
  <2>2. CASE f[n] # 0
    BY <2>2 DEF Asking, CallsFit, CallFits, Renamed
  <2> QED
    BY <2>1, <2>2
<1>3. SeenIsNow'
  BY DEF Asking, SeenIsNow, SeenNow
<1>4. MembershipWasTrue'
  <2>1. \A p \in Query : WasTrue(backend, queries[p])
    BY WasTrueOfAll DEF Asking
  <2>2. \A p \in Query : WasTrue(backend, queries'[p])
    BY <2>1 DEF WasTrue
  <2> QED
    BY <2>2 DEF MembershipWasTrue, WasTrue, Had
<1> QED
  BY <1>1, <1>2, <1>3, <1>4 DEF Asking

-----------------------------------------------------------------------------
(* The steps of the manager.                                               *)

(* What the assumptions say of the constants, and the calls that the code  *)
(* makes.                                                                  *)
LEMMA ConstantsTyped ==
  /\ Value = {"in", "out", "none"} /\ Nothing \notin Key /\ Nothing \notin Value
  /\ MaxAge \in Nat /\ MaxAge > 0 /\ MaxTime \in Nat /\ Poll \notin Query
  /\ \A q \in Query : Call("metadata", q) \in CallSet /\ Call("include", q) \in CallSet
                      /\ Call("exclude", q) \in CallSet /\ Call("user", q) \in CallSet
  /\ Call("metadata", Poll) \in CallSet
  /\ Idle \in QuerySet
BY LruAssumption, BigSegmentsAssumption DEF Call, CallSet, Idle, QuerySet

(* Of the calls, what TypeOK says.                                         *)
CallsTyped ==
  \A n \in DOMAIN calls :
    /\ calls[n].what \in {"include", "exclude", "user", "metadata"} /\ calls[n].who \in Query \cup {Poll}
    /\ IF calls[n].what # "metadata" /\ calls[n].served /\ ~calls[n].failed
       THEN calls[n].reply \in Value ELSE calls[n].reply \in 0..MaxTime

(* Calls that are old, or of a kind the code makes, keep to their types.   *)
LEMMA CallsStayTyped ==
  ASSUME CallsTyped, NEW f, Renamed(calls', f),
         \A j \in DOMAIN calls' : f[j] = 0 =>
            \E what \in {"include", "exclude", "user", "metadata"}, who \in Query \cup {Poll} :
              calls'[j] = Call(what, who)
  PROVE  CallsTyped'
<1> SUFFICES ASSUME NEW j \in DOMAIN calls'
             PROVE  /\ calls'[j].what \in {"include", "exclude", "user", "metadata"}
                    /\ calls'[j].who \in Query \cup {Poll}
                    /\ IF calls'[j].what # "metadata" /\ calls'[j].served /\ ~calls'[j].failed
                       THEN calls'[j].reply \in Value ELSE calls'[j].reply \in 0..MaxTime
  BY DEF CallsTyped
<1>1. CASE f[j] # 0
  BY <1>1 DEF CallsTyped, Renamed
<1>2. CASE f[j] = 0
  BY <1>2, ConstantsTyped DEF Call
<1> QED
  BY <1>1, <1>2

(* A query that goes on keeps its membership and what was seen.            *)
LEMMA ProceedIs ==
  ASSUME Typed, NEW q \in Query, NEW query \in QuerySet, NEW rest, Proceed(q, query, rest)
  PROVE  /\ queries' \in [Query -> QuerySet] /\ \A p \in Query : p # q => queries'[p] = queries[p]
         /\ queries'[q].membership = query.membership /\ queries'[q].seen = query.seen
         /\ \/ queries'[q].stage = "polling" /\ calls' = Append(rest, Call("metadata", q))
            \/ queries'[q].stage = "answered" /\ calls' = rest
<1>0. queries \in [Query -> QuerySet]
  BY DEF Typed, TypeOK, QuerySet
<1>1. CASE status = Unknown
  <2> DEFINE next == [query EXCEPT !.stage = "polling"]
  <2>1. queries' = [queries EXCEPT ![q] = next] /\ calls' = Append(rest, Call("metadata", q))
    BY <1>1 DEF Proceed
  <2>2. next \in QuerySet /\ next.stage = "polling" /\ next.membership = query.membership /\ next.seen = query.seen
    BY DEF QuerySet
  <2> QED
    BY <1>0, <2>1, <2>2
<1>2. CASE status # Unknown
  <2> DEFINE next == [query EXCEPT !.stage = "answered", !.key = Nothing, !.status = StatusName(status)]
  <2>1. queries' = [queries EXCEPT ![q] = next] /\ calls' = rest
    BY <1>2 DEF Proceed
  <2>2. StatusName(status) \in {"", "STORE_ERROR", "STALE", "HEALTHY"}
    BY DEF StatusName
  <2>3. next \in QuerySet /\ next.stage = "answered" /\ next.membership = query.membership /\ next.seen = query.seen
    BY <2>2 DEF QuerySet
  <2> QED
    BY <1>0, <2>1, <2>3
<1> QED
  BY <1>1, <1>2

(* A step of the manager for the query q, or for nobody: of the calls that *)
(* are left none is of q, and there may be a new one.                      *)
LEMMA ManagerActs ==
  ASSUME Typed, Asking, NEW q \in Query \cup {Poll}, NEW cs \in Seq(CallSet), NEW f, Renamed(cs, f),
         \A j \in DOMAIN cs : f[j] # 0 /\ (calls[f[j]].who \in Query => calls[f[j]].who # q),
         \/ calls' = cs
         \/ \E what \in {"include", "exclude", "user", "metadata"} :
              /\ calls' = Append(cs, Call(what, q))
              /\ IF q \in Query THEN CallFits(backend, Call(what, q), queries'[q]) ELSE what = "metadata",
         UNCHANGED <<backend, members>>,
         \A p \in Query : p # q => queries'[p] = queries[p],
         q \in Query => SeenNow(members, queries'[q]) /\ WasTrue(backend, queries'[q])
  PROVE  Asking' /\ calls' \in Seq(CallSet) /\ CallsTyped'
<1>0. CallsTyped
  BY DEF Typed, TypeOK, CallsTyped
<1>1. CASE calls' = cs
  <2>1. Asking'
    <3>1. /\ Renamed(calls', f)
          /\ \A j \in DOMAIN calls' : f[j] # 0 /\ calls[f[j]].who \in Query => calls[f[j]].who # q
          /\ \A j \in DOMAIN calls' : f[j] = 0 =>
               /\ calls'[j].who \in Query => calls'[j].who = q /\ CallFits(backend, calls'[j], queries'[q])
               /\ calls'[j].who \notin Query => calls'[j].what = "metadata"
      BY <1>1
    <3> QED
      BY <3>1, OneActs
  <2>2. CallsTyped'
    BY <1>0, <1>1, CallsStayTyped
  <2> QED
    BY <1>1, <2>1, <2>2
<1>2. ASSUME NEW what \in {"include", "exclude", "user", "metadata"}, calls' = Append(cs, Call(what, q)),
             IF q \in Query THEN CallFits(backend, Call(what, q), queries'[q]) ELSE what = "metadata"
      PROVE  Asking' /\ calls' \in Seq(CallSet) /\ CallsTyped'
  <2> DEFINE c == Call(what, q)
  <2>1. c \in CallSet /\ c.who = q /\ c.what = what
    BY LruAssumption, BigSegmentsAssumption DEF Call, CallSet
  <2>2. CallFits(backend, Call(what, q), queries'[q]) <=> CallFits(backend, c, queries'[q])
    OBVIOUS
  <2> HIDE DEF c
  <2>3. /\ calls' \in Seq(CallSet)
        /\ \E g : /\ Renamed(calls', g)
                  /\ \A j \in DOMAIN calls' : \/ j \in DOMAIN cs /\ g[j] = f[j]
                                              \/ g[j] = 0 /\ calls'[j] = c
    <3>1. calls' = Append(cs, c)
      BY <1>2 DEF c
    <3> QED
      BY <2>1, <3>1, OneMore
  <2>4. PICK g : /\ Renamed(calls', g)
                 /\ \A j \in DOMAIN calls' : \/ j \in DOMAIN cs /\ g[j] = f[j]
                                             \/ g[j] = 0 /\ calls'[j] = c
    BY <2>3
  <2>5. \A j \in DOMAIN calls' : g[j] # 0 /\ calls[g[j]].who \in Query => calls[g[j]].who # q
    BY <2>4
  <2>6. \A j \in DOMAIN calls' : g[j] = 0 => calls'[j] = c
    BY <2>4
  <2>7. \A j \in DOMAIN calls' : g[j] = 0 =>
          /\ calls'[j].who \in Query => calls'[j].who = q /\ CallFits(backend, calls'[j], queries'[q])
          /\ calls'[j].who \notin Query => calls'[j].what = "metadata"
    <3> SUFFICES ASSUME NEW j \in DOMAIN calls', g[j] = 0
                 PROVE  /\ calls'[j].who \in Query => calls'[j].who = q /\ CallFits(backend, calls'[j], queries'[q])
                        /\ calls'[j].who \notin Query => calls'[j].what = "metadata"
      OBVIOUS
    <3>1. calls'[j] = c
      BY <2>6
    <3>2. CallFits(backend, c, queries'[q]) => CallFits(backend, calls'[j], queries'[q])
      BY <3>1 DEF CallFits
    <3> QED
      BY <1>2, <2>1, <2>2, <3>1, <3>2
  <2>8. Asking'
    BY <2>4, <2>5, <2>7, OneActs
  <2>9. CallsTyped'
    BY <1>0, <2>4, <2>6, CallsStayTyped DEF c
  <2> QED
    BY <2>3, <2>8, <2>9
<1> QED
  BY <1>1, <1>2

(* A query begins: it answers from the cache or asks the store.            *)
LEMMA GetUserMembershipKeeps ==
  ASSUME Invariant, NEW q \in Query, NEW k \in Key, GetUserMembership(q, k)
  PROVE  Typed' /\ Asking'
<1> DEFINE found == Found(cache, k, now)
<1>0. /\ queries \in [Query -> QuerySet] /\ calls \in Seq(CallSet) /\ now \in Nat /\ Asking /\ Typed
      /\ UNCHANGED <<backend, members, lastUpToDate, up, status, polling, now>>
      /\ queries[q].stage \in {"idle", "answered"}
  <2>1. queries \in [Query -> QuerySet] /\ calls \in Seq(CallSet) /\ now \in 0..MaxTime /\ Asking /\ Typed
    BY DEF Invariant, Typed, TypeOK, QuerySet
  <2>2. /\ UNCHANGED <<backend, members, lastUpToDate, up, status, polling, now>>
        /\ queries[q].stage \in {"idle", "answered"}
    BY DEF GetUserMembership, dbVars
  <2> QED
    BY <2>1, <2>2, ConstantsTyped
<1>1. CacheOK(cache)' /\ found \in Value \cup {Nothing}
  BY <1>0, GotKeeps DEF Invariant, GetUserMembership
<1>2. cache' \in Caches /\ answer' \in {"", "get", "set"} \X (Value \cup {Nothing})
  BY <1>1 DEF CacheOK, GetUserMembership
<1>3. PICK f : Renamed(calls, f) /\ \A j \in DOMAIN calls : f[j] # 0 /\ f[j] = j
  BY <1>0, SameCalls
<1>4. \A j \in DOMAIN calls : f[j] # 0 /\ (calls[f[j]].who \in Query => calls[f[j]].who # q)
  BY <1>0, <1>3 DEF Asking, CallsFit, CallFits
<1>5. /\ queries' \in [Query -> QuerySet] /\ \A p \in Query : p # q => queries'[p] = queries[p]
      /\ SeenNow(members, queries'[q]) /\ WasTrue(backend, queries'[q])
      /\ \/ calls' = calls
         \/ \E what \in {"include", "exclude", "user", "metadata"} :
              calls' = Append(calls, Call(what, q)) /\ CallFits(backend, Call(what, q), queries'[q])
  <2>1. CASE found # Nothing
    <3> DEFINE query == [Idle EXCEPT !.key = k, !.membership = found]
    <3>1. query \in QuerySet /\ query.seen = <<>>
      BY <1>1, <2>1, ConstantsTyped DEF QuerySet, Idle
    <3>2. Proceed(q, query, calls)
      BY <2>1 DEF GetUserMembership
    <3> HIDE DEF query
    <3>3. /\ queries' \in [Query -> QuerySet] /\ \A p \in Query : p # q => queries'[p] = queries[p]
          /\ queries'[q].seen = <<>>
          /\ \/ queries'[q].stage = "polling" /\ calls' = Append(calls, Call("metadata", q))
             \/ queries'[q].stage = "answered" /\ calls' = calls
      BY <1>0, <3>1, <3>2, ProceedIs
    <3>4. queries'[q].stage = "polling" => CallFits(backend, Call("metadata", q), queries'[q])
      BY DEF CallFits, Supported, Call
    <3> QED
      BY <3>3, <3>4 DEF SeenNow, WasTrue
  <2>2. CASE found = Nothing
    <3> DEFINE query == [Idle EXCEPT !.stage = "asking", !.key = k, !.seen = <<members[k]>>]
               what == IF backend = "redis" THEN "include" ELSE "user"
    <3>0. members[k] \in Value
      BY DEF Invariant, Typed, TypeOK
    <3>1. query \in QuerySet /\ query.seen = <<members[k]>> /\ query.stage = "asking" /\ query.key = k
          /\ query.membership = "none"
      <4> DEFINE u == [Idle EXCEPT !.stage = "asking"]
      <4> DEFINE w == [u EXCEPT !.key = k]
      <4>1. u \in QuerySet /\ u.stage = "asking" /\ u.membership = "none"
        BY ConstantsTyped DEF QuerySet, Idle
      <4> HIDE DEF u
      <4>2. w \in QuerySet /\ w.stage = "asking" /\ w.membership = "none" /\ w.key = k
        BY <4>1 DEF QuerySet
      <4> HIDE DEF w
      <4>3. <<members[k]>> \in Seq(Value)
        BY <3>0
      <4>4. query = [w EXCEPT !.seen = <<members[k]>>]
        BY DEF w, u
      <4> HIDE DEF query
      <4> QED
        BY <4>2, <4>3, <4>4 DEF QuerySet
    <3>2. queries' = [queries EXCEPT ![q] = query] /\ calls' = Append(calls, Call(what, q))
      BY <2>2, LruAssumption DEF GetUserMembership
    <3>a. what \in {"include", "exclude", "user", "metadata"} /\ (what = "include" => backend = "redis")
          /\ (what = "user" \/ what = "include")
      OBVIOUS
    <3> HIDE DEF query, what
    <3>3. /\ queries' \in [Query -> QuerySet] /\ queries'[q] = query
          /\ \A p \in Query : p # q => queries'[p] = queries[p]
      BY <1>0, <3>1, <3>2
    <3>4. SeenNow(members, queries'[q]) /\ WasTrue(backend, queries'[q])
      <4>1. Len(<<members[k]>>) = 1 /\ <<members[k]>> # <<>> /\ <<members[k]>>[1] = members[k]
        OBVIOUS
      <4>2. queries'[q].seen[Len(queries'[q].seen)] = members[k] /\ queries'[q].seen # <<>>
            /\ queries'[q].key = k /\ queries'[q].stage = "asking"
        BY <3>1, <3>3, <4>1
      <4> QED
        BY <4>2 DEF SeenNow, WasTrue
    <3>5. CallFits(backend, Call(what, q), queries'[q])
      <4>1. /\ Call(what, q).what = what /\ Call(what, q).served = FALSE
            /\ queries'[q].stage = "asking" /\ queries'[q].membership = "none"
        BY <3>1, <3>3 DEF Call
      <4> QED
        BY <3>a, <4>1 DEF CallFits, Supported
    <3> QED
      BY <3>2, <3>3, <3>4, <3>5, <3>a
  <2> QED
    BY <2>1, <2>2
<1>6. Asking' /\ calls' \in Seq(CallSet) /\ CallsTyped'
  BY <1>0, <1>3, <1>4, <1>5, ManagerActs
<1> QED
  BY <1>0, <1>2, <1>5, <1>6 DEF Invariant, Typed, TypeOK, CallsTyped, QuerySet

(* The calls that are left when the n-th is answered: none of its query.   *)
LEMMA OthersLeft ==
  ASSUME Typed, Asking, NEW n \in DOMAIN calls
  PROVE  /\ WithoutCall(n) \in Seq(CallSet) /\ calls[n].who \in Query \cup {Poll}
         /\ \E f : /\ Renamed(WithoutCall(n), f)
                   /\ \A j \in DOMAIN WithoutCall(n) :
                        f[j] # 0 /\ (calls[f[j]].who \in Query => calls[f[j]].who # calls[n].who)
<1>1. calls \in Seq(CallSet) /\ calls[n].who \in Query \cup {Poll}
  BY DEF Typed, TypeOK
<1>2. WithoutCall(n) \in Seq(CallSet)
  BY <1>1, OneLess
<1>3. PICK f : Renamed(WithoutCall(n), f) /\ \A j \in DOMAIN WithoutCall(n) : f[j] # n /\ f[j] # 0
  BY <1>1, OneLess
<1>4. \A j \in DOMAIN WithoutCall(n) : calls[f[j]].who \in Query => calls[f[j]].who # calls[n].who
  BY <1>3 DEF Asking, CallsUnique, Renamed
<1> QED
  BY <1>1, <1>2, <1>3, <1>4

(* The included segments are known; the excluded ones are asked for.       *)
LEMMA NextHalfKeeps ==
  ASSUME Invariant, NEW n \in DOMAIN calls, NextHalf(n)
  PROVE  Typed' /\ Asking'
<1> DEFINE q == calls[n].who
           reply == calls[n].reply
<1>0. /\ queries \in [Query -> QuerySet] /\ calls \in Seq(CallSet) /\ Asking /\ Typed
      /\ UNCHANGED <<backend, members, lastUpToDate, up, status, polling, now, cache, answer>>
      /\ calls[n].what = "include" /\ calls[n].served /\ ~calls[n].failed
  BY DEF Invariant, Typed, TypeOK, QuerySet, NextHalf, Arrives, dbVars
<1>1. q \in Query /\ CallFits(backend, calls[n], queries[q])
  BY <1>0 DEF Asking, CallsFit
<1>2. /\ queries[q].stage = "asking" /\ backend = "redis"
      /\ \/ reply = "in" /\ Had(queries[q], "in")
         \/ reply = "none" /\ HadOther(queries[q], "in")
  BY <1>0, <1>1 DEF CallFits, Supported
<1>3. PICK f : /\ Renamed(WithoutCall(n), f)
               /\ \A j \in DOMAIN WithoutCall(n) :
                    f[j] # 0 /\ (calls[f[j]].who \in Query => calls[f[j]].who # q)
  BY <1>0, OthersLeft
<1>4. WithoutCall(n) \in Seq(CallSet)
  BY <1>0, OthersLeft
<1> DEFINE next == [queries[q] EXCEPT !.membership = reply]
<1>5. /\ next \in QuerySet /\ next.membership = reply /\ next.seen = queries[q].seen
      /\ next.stage = "asking" /\ next.key = queries[q].key
  <2>1. queries[q] \in QuerySet /\ reply \in Value
    BY <1>0, <1>1, <1>2, ConstantsTyped
  <2> QED
    BY <1>2, <2>1 DEF QuerySet
<1>6. queries' = [queries EXCEPT ![q] = next] /\ calls' = Append(WithoutCall(n), Call("exclude", q))
  BY DEF NextHalf
<1> HIDE DEF next, q, reply
<1>7. /\ queries' \in [Query -> QuerySet] /\ queries'[q] = next
      /\ \A p \in Query : p # q => queries'[p] = queries[p]
  BY <1>0, <1>1, <1>5, <1>6
<1>8. SeenNow(members, queries'[q]) /\ WasTrue(backend, queries'[q])
  <2>1. SeenNow(members, queries[q])
    BY <1>0, <1>1 DEF Asking, SeenIsNow
  <2> QED
    BY <1>0, <1>2, <1>5, <1>7, <2>1 DEF SeenNow, WasTrue
<1>9. CallFits(backend, Call("exclude", q), queries'[q])
  <2>1. \/ reply = "in" /\ Had(next, "in")
        \/ reply = "none" /\ HadOther(next, "in")
    BY <1>2, <1>5 DEF Had, HadOther
  <2> QED
    BY <1>0, <1>2, <1>5, <1>7, <2>1 DEF CallFits, Supported, Call
<1>10. Asking' /\ calls' \in Seq(CallSet) /\ CallsTyped'
  BY <1>0, <1>1, <1>3, <1>4, <1>6, <1>7, <1>8, <1>9, ManagerActs
<1> QED
  BY <1>0, <1>7, <1>10 DEF Invariant, Typed, TypeOK, CallsTyped, QuerySet

(* The store answers for a user, and the cache takes the answer.           *)
LEMMA MembershipAnsweredKeeps ==
  ASSUME Invariant, NEW n \in DOMAIN calls, MembershipAnswered(n)
  PROVE  /\ Typed' /\ Asking'
         /\ CacheOK(cache)' /\ \E k \in Key, v \in Value : Recent!Set(k, v)
<1> DEFINE q == calls[n].who
           reply == calls[n].reply
           old == queries[q].membership
           new == MembershipOf(old, reply)
           query == [queries[q] EXCEPT !.membership = new]
<1>0. /\ queries \in [Query -> QuerySet] /\ calls \in Seq(CallSet) /\ Asking /\ Typed /\ now \in Nat
      /\ UNCHANGED <<backend, members, lastUpToDate, up, status, polling, now>>
      /\ calls[n].what \in {"exclude", "user"} /\ calls[n].served /\ ~calls[n].failed
  <2>1. queries \in [Query -> QuerySet] /\ calls \in Seq(CallSet) /\ Asking /\ Typed /\ now \in 0..MaxTime
    BY DEF Invariant, Typed, TypeOK, QuerySet
  <2>2. /\ UNCHANGED <<backend, members, lastUpToDate, up, status, polling, now>>
        /\ calls[n].what \in {"exclude", "user"} /\ calls[n].served /\ ~calls[n].failed
    BY DEF MembershipAnswered, Arrives, dbVars
  <2> QED
    BY <2>1, <2>2, ConstantsTyped
<1>1. q \in Query /\ CallFits(backend, calls[n], queries[q])
  BY <1>0 DEF Asking, CallsFit
<1>2. /\ queries[q].stage = "asking" /\ (calls[n].what = "exclude" => backend = "redis")
      /\ Supported(calls[n], queries[q])
  BY <1>0, <1>1 DEF CallFits
<1>3. PICK f : /\ Renamed(WithoutCall(n), f)
               /\ \A j \in DOMAIN WithoutCall(n) :
                    f[j] # 0 /\ (calls[f[j]].who \in Query => calls[f[j]].who # q)
  BY <1>0, OthersLeft
<1>4. WithoutCall(n) \in Seq(CallSet)
  BY <1>0, OthersLeft
<1>5. reply \in Value /\ queries[q] \in QuerySet
  BY <1>0, <1>1 DEF Typed, TypeOK
<1>6. new \in Value /\ SeenNow(members, queries[q]) /\ queries[q].key \in Key
  BY <1>0, <1>1, <1>2, <1>5, ConstantsTyped DEF MembershipOf, Asking, SeenIsNow, SeenNow
<1>7. /\ query \in QuerySet /\ query.membership = new /\ query.seen = queries[q].seen
      /\ query.key = queries[q].key
  BY <1>5, <1>6 DEF QuerySet
<1>8. /\ cache' = Put(cache, query.key, query.membership, now) /\ answer' = <<"set", Nothing>>
      /\ Proceed(q, query, WithoutCall(n))
  BY DEF MembershipAnswered
<1>9. /\ queries' \in [Query -> QuerySet] /\ \A p \in Query : p # q => queries'[p] = queries[p]
      /\ queries'[q].membership = new /\ queries'[q].seen = queries[q].seen
      /\ \/ queries'[q].stage = "polling" /\ calls' = Append(WithoutCall(n), Call("metadata", q))
         \/ queries'[q].stage = "answered" /\ calls' = WithoutCall(n)
  <2> HIDE DEF query, q, new
  <2> QED
    BY <1>0, <1>1, <1>7, <1>8, ProceedIs
<1>10. queries'[q].stage = "polling" => CallFits(backend, Call("metadata", q), queries'[q])
  BY DEF CallFits, Supported, Call
<1>11. WasTrue(backend, queries'[q]) /\ SeenNow(members, queries'[q])
  <2>1. \/ Had(queries[q], new)
        \/ /\ backend = "redis" /\ new = "none"
           /\ \E j, m \in DOMAIN queries[q].seen :
                j <= m /\ queries[q].seen[j] # "in" /\ queries[q].seen[m] # "out"
    <3>1. CASE calls[n].what = "exclude"
      BY <1>0, <1>2, <3>1, Zenon DEF Supported, MembershipOf
    <3>2. CASE calls[n].what = "user"
      BY <1>0, <1>2, <3>2 DEF Supported, MembershipOf
    <3> QED
      BY <1>0, <3>1, <3>2
  <2> HIDE DEF q, new
  <2> QED
    BY <1>0, <1>9, <2>1 DEF WasTrue, Had, SeenNow
<1>12. Asking' /\ calls' \in Seq(CallSet) /\ CallsTyped'
  <2> HIDE DEF q, new, query
  <2> QED
    BY <1>0, <1>1, <1>3, <1>4, <1>9, <1>10, <1>11, ManagerActs
<1>13. CacheOK(cache)' /\ Recent!Put(query.key, query.membership)
  <2> HIDE DEF q, new, query
  <2> QED
    BY <1>0, <1>6, <1>7, <1>8, PutKeeps DEF Invariant
<1>14. Recent!Set(query.key, query.membership)
  BY <1>0, <1>8, <1>13 DEF Recent!Set
<1> HIDE DEF q, new, query
<1>15. Typed'
  BY <1>0, <1>8, <1>9, <1>12, <1>13 DEF Invariant, Typed, TypeOK, CallsTyped, QuerySet, CacheOK
<1> QED
  BY <1>6, <1>7, <1>12, <1>13, <1>14, <1>15

(* A request for a user fails.                                             *)
LEMMA MembershipFailedKeeps ==
  ASSUME Invariant, NEW n \in DOMAIN calls, MembershipFailed(n)
  PROVE  Typed' /\ Asking'
<1> DEFINE q == calls[n].who
           next == [Idle EXCEPT !.stage = "answered", !.status = "STORE_ERROR"]
<1>0. /\ queries \in [Query -> QuerySet] /\ calls \in Seq(CallSet) /\ Asking /\ Typed
      /\ UNCHANGED <<backend, members, lastUpToDate, up, status, polling, now, cache, answer>>
      /\ calls[n].what # "metadata"
  BY DEF Invariant, Typed, TypeOK, QuerySet, MembershipFailed, dbVars
<1>1. q \in Query
  BY <1>0 DEF Asking, CallsFit
<1>3. PICK f : /\ Renamed(WithoutCall(n), f)
               /\ \A j \in DOMAIN WithoutCall(n) :
                    f[j] # 0 /\ (calls[f[j]].who \in Query => calls[f[j]].who # q)
  BY <1>0, OthersLeft
<1>4. WithoutCall(n) \in Seq(CallSet)
  BY <1>0, OthersLeft
<1>5. next \in QuerySet /\ next.seen = <<>> /\ next.stage = "answered"
  BY ConstantsTyped DEF QuerySet, Idle
<1>6. queries' = [queries EXCEPT ![q] = next] /\ calls' = WithoutCall(n)
  BY DEF MembershipFailed
<1> HIDE DEF next, q
<1>7. /\ queries' \in [Query -> QuerySet] /\ queries'[q] = next
      /\ \A p \in Query : p # q => queries'[p] = queries[p]
  BY <1>0, <1>1, <1>5, <1>6
<1>8. SeenNow(members, queries'[q]) /\ WasTrue(backend, queries'[q])
  BY <1>5, <1>7 DEF SeenNow, WasTrue
<1>9. Asking' /\ calls' \in Seq(CallSet) /\ CallsTyped'
  BY <1>0, <1>1, <1>3, <1>4, <1>6, <1>7, <1>8, ManagerActs
<1> QED
  BY <1>0, <1>7, <1>9 DEF Invariant, Typed, TypeOK, CallsTyped, QuerySet

(* The store answers for its metadata.                                     *)
LEMMA StatusAnsweredKeeps ==
  ASSUME Invariant, NEW n \in DOMAIN calls, StatusAnswered(n)
  PROVE  Typed' /\ Asking'
<1> DEFINE q == calls[n].who
           next == [queries[q] EXCEPT !.stage = "answered", !.key = Nothing, !.status = StatusName(status')]
<1>0. /\ queries \in [Query -> QuerySet] /\ calls \in Seq(CallSet) /\ Asking /\ Typed
      /\ UNCHANGED <<backend, members, lastUpToDate, up, polling, now, cache, answer>>
      /\ calls[n].what = "metadata" /\ calls' = WithoutCall(n)
      /\ status \in [available : BOOLEAN, stale : BOOLEAN]
  BY DEF Invariant, Typed, TypeOK, QuerySet, StatusAnswered, dbVars
<1>1. PICK f : /\ Renamed(WithoutCall(n), f)
               /\ \A j \in DOMAIN WithoutCall(n) :
                    f[j] # 0 /\ (calls[f[j]].who \in Query => calls[f[j]].who # q)
  BY <1>0, OthersLeft
<1>2. WithoutCall(n) \in Seq(CallSet) /\ q \in Query \cup {Poll}
  BY <1>0, OthersLeft
<1>3. status' \in [available : BOOLEAN, stale : BOOLEAN]
  <2>1. StatusOf(calls[n]) \in [available : BOOLEAN, stale : BOOLEAN]
    <3> DEFINE b == calls[n].reply = 0 \/ now - calls[n].reply >= StaleAfter
    <3>1. b \in BOOLEAN
      BY Zenon
    <3> HIDE DEF b
    <3>2. [available |-> TRUE, stale |-> b] \in [available : BOOLEAN, stale : BOOLEAN]
      BY <3>1
    <3>3. [available |-> FALSE, stale |-> FALSE] \in [available : BOOLEAN, stale : BOOLEAN]
      OBVIOUS
    <3> QED
      BY <3>2, <3>3 DEF StatusOf, b
  <2> QED
    BY <1>0, <2>1, Zenon DEF StatusAnswered
<1>4. StatusName(status') \in {"", "STORE_ERROR", "STALE", "HEALTHY"}
  BY DEF StatusName
<1>5. q \in Query => /\ next \in QuerySet /\ next.seen = queries[q].seen /\ next.stage = "answered"
                     /\ next.membership = queries[q].membership
  <2> DEFINE u == [queries[q] EXCEPT !.stage = "answered"]
  <2> DEFINE w == [u EXCEPT !.key = Nothing]
  <2> SUFFICES ASSUME q \in Query
               PROVE  /\ next \in QuerySet /\ next.seen = queries[q].seen /\ next.stage = "answered"
                      /\ next.membership = queries[q].membership
    OBVIOUS
  <2>1. queries[q] \in QuerySet
    BY <1>0
  <2>2. u \in QuerySet /\ u.seen = queries[q].seen /\ u.stage = "answered" /\ u.membership = queries[q].membership
    BY <2>1 DEF QuerySet
  <2>3. next = [w EXCEPT !.status = StatusName(status')]
    OBVIOUS
  <2> HIDE DEF u
  <2>4. w \in QuerySet /\ w.seen = queries[q].seen /\ w.stage = "answered" /\ w.membership = queries[q].membership
    BY <2>2 DEF QuerySet
  <2> HIDE DEF w, next
  <2> QED
    BY <1>4, <2>3, <2>4 DEF QuerySet
<1>6. /\ \A p \in Query : p # q => queries'[p] = queries[p]
      /\ q \in Query => queries'[q] = next
      /\ DOMAIN queries' = Query /\ queries' = [p \in Query |-> queries'[p]]
  BY DEF StatusAnswered
<1> HIDE DEF next, q
<1>7. queries' \in [Query -> QuerySet]
  <2>1. \A p \in Query : queries'[p] \in QuerySet
    BY <1>0, <1>5, <1>6
  <2> HIDE DEF QuerySet
  <2> QED
    BY <1>6, <2>1
<1>8. q \in Query => SeenNow(members, queries'[q]) /\ WasTrue(backend, queries'[q])
  <2> SUFFICES ASSUME q \in Query PROVE SeenNow(members, queries'[q]) /\ WasTrue(backend, queries'[q])
    OBVIOUS
  <2>1. queries[q].stage = "polling" /\ WasTrue(backend, queries[q])
    BY <1>0, WasTrueOfAll DEF Asking, CallsFit, CallFits, q
  <2> QED
    BY <1>0, <1>5, <1>6, <2>1 DEF SeenNow, WasTrue, Had
<1>9. Asking' /\ calls' \in Seq(CallSet) /\ CallsTyped'
  BY <1>0, <1>1, <1>2, <1>6, <1>8, ManagerActs
<1> QED
  BY <1>0, <1>3, <1>7, <1>9 DEF Invariant, Typed, TypeOK, CallsTyped, QuerySet

(* The poll of the status asks for the metadata.                           *)
LEMMA PollKeeps ==
  ASSUME Invariant, PollStoreAndUpdateStatus
  PROVE  Typed' /\ Asking'
<1>0. /\ calls \in Seq(CallSet) /\ Asking /\ Typed
      /\ UNCHANGED <<backend, members, lastUpToDate, up, queries, status, polling, now, cache, answer>>
      /\ calls' = Append(calls, Call("metadata", Poll))
  BY DEF Invariant, Typed, PollStoreAndUpdateStatus, dbVars
<1>1. PICK f : Renamed(calls, f) /\ \A j \in DOMAIN calls : f[j] # 0 /\ f[j] = j
  BY <1>0, SameCalls
<1>2. Poll \notin Query
  BY ConstantsTyped
<1>3. Asking' /\ calls' \in Seq(CallSet) /\ CallsTyped'
  <2> HIDE DEF Poll
  <2> QED
    BY <1>0, <1>1, <1>2, ManagerActs
<1> QED
  BY <1>0, <1>3 DEF Invariant, Typed, TypeOK, CallsTyped

-----------------------------------------------------------------------------
(* The steps of the database.                                              *)

(* What a call is answered is what is there when it is served.             *)
LEMMA ServedSupported ==
  ASSUME Typed, Asking, NEW n \in DOMAIN calls, calls[n].who \in Query, ~calls[n].served, calls[n].what # "metadata",
         NEW c \in CallSet, c.what = calls[n].what, c.reply = ServedReply(calls[n]), c.failed = FALSE
  PROVE  Supported(c, queries[calls[n].who]) /\ c.reply \in Value
<1> DEFINE query == queries[calls[n].who]
           has == members[query.key]
           last == Len(query.seen)
<1>1. CallFits(backend, calls[n], query) /\ SeenNow(members, query) /\ query \in QuerySet
  BY DEF Asking, CallsFit, SeenIsNow, Typed, TypeOK, QuerySet
<1>2. /\ Supported(calls[n], query) /\ query.key \in Key /\ query.seen # <<>> /\ query.seen[last] = has
  BY <1>1 DEF CallFits, SeenNow
<1>3. /\ query.seen \in Seq(Value) /\ last \in DOMAIN query.seen /\ last \in Nat
      /\ \A j \in DOMAIN query.seen : j \in Nat /\ j <= last
  <2> DEFINE seen == query.seen
  <2>1. seen \in Seq(Value) /\ seen # <<>> /\ last = Len(seen)
    BY <1>1, <1>2 DEF QuerySet
  <2> HIDE DEF query, last, seen
  <2>2. DOMAIN seen = 1..Len(seen) /\ Len(seen) \in Nat /\ Len(seen) # 0
    BY <2>1
  <2>3. last \in DOMAIN seen /\ \A j \in DOMAIN seen : j \in Nat /\ j <= last
    BY <2>1, <2>2
  <2> QED
    BY <2>1, <2>2, <2>3 DEF seen
<1>4. has \in {"in", "out", "none"}
  BY <1>2, ConstantsTyped DEF Typed, TypeOK
<1>5. calls[n].what \in {"include", "exclude", "user"}
  BY DEF Typed, TypeOK
<1>6. c.reply = (CASE calls[n].what = "user" -> UserData(has)
                   [] calls[n].what = "include" -> Members("in", has)
                   [] calls[n].what = "exclude" -> Members("out", has))
  BY <1>5 DEF ServedReply
<1> HIDE DEF query, has, last
<1>7. CASE calls[n].what = "include"
  <2>1. c.reply = IF has = "in" THEN "in" ELSE "none"
    BY <1>4, <1>6, <1>7 DEF Members
  <2> QED
    BY <1>2, <1>3, <1>7, <2>1, ConstantsTyped DEF Supported, Had, HadOther, query
<1>8. CASE calls[n].what = "exclude"
  <2>1. c.reply = IF has = "out" THEN "out" ELSE "none"
    BY <1>4, <1>6, <1>8 DEF Members
  <2>2. \/ query.membership = "in" /\ Had(query, "in")
        \/ query.membership = "none" /\ HadOther(query, "in")
    BY <1>2, <1>8 DEF Supported
  <2>3. has # "out" /\ query.membership = "none" =>
          \E j, m \in DOMAIN query.seen : j <= m /\ query.seen[j] # "in" /\ query.seen[m] # "out"
    BY <1>2, <1>3, <2>2 DEF HadOther
  <2>4. Supported(c, query)
    BY <1>2, <1>3, <1>8, <2>1, <2>2, <2>3 DEF Supported, Had
  <2> QED
    BY <2>1, <2>4, ConstantsTyped DEF query
<1>9. CASE calls[n].what = "user"
  <2>1. c.reply = has
    BY <1>4, <1>6, <1>9 DEF Members, UserData
  <2>2. Had(query, has)
    BY <1>2, <1>3 DEF Had
  <2>3. Supported(c, query)
    BY <1>2, <1>9, <2>1, <2>2 DEF Supported
  <2> QED
    BY <1>4, <2>1, <2>3, ConstantsTyped DEF query
<1> QED
  BY <1>5, <1>7, <1>8, <1>9

(* The database serves a request.                                          *)
LEMMA ServeKeeps ==
  ASSUME Invariant, NEW n \in DOMAIN calls, Serve(n)
  PROVE  Typed' /\ Asking'
<1> DEFINE q == calls[n].who
<1>0. /\ calls \in Seq(CallSet) /\ Asking /\ Typed /\ ~calls[n].served
      /\ UNCHANGED <<backend, members, lastUpToDate, up, queries, status, polling, now, cache, answer>>
  BY DEF Invariant, Typed, Serve, dbVars
<1>1. PICK failed \in BOOLEAN :
        calls' = [calls EXCEPT ![n] = [@ EXCEPT !.served = TRUE, !.failed = failed,
                                                !.reply = IF failed THEN 0 ELSE ServedReply(calls[n])]]
  BY DEF Serve
<1> DEFINE reply == IF failed THEN 0 ELSE ServedReply(calls[n])
           c == [calls[n] EXCEPT !.served = TRUE, !.failed = failed, !.reply = reply]
<1>2. /\ calls[n] \in CallSet /\ q \in Query \cup {Poll}
      /\ IF q \in Query THEN CallFits(backend, calls[n], queries[q]) ELSE calls[n].what = "metadata"
  <2>1. calls[n] \in CallSet
    BY <1>0
  <2>2. IF q \in Query THEN CallFits(backend, calls[n], queries[q]) ELSE calls[n].what = "metadata"
    BY <1>0 DEF Asking, CallsFit
  <2> QED
    BY <2>1, <2>2 DEF CallSet
<1>a. calls[n].what = "metadata" => ServedReply(calls[n]) \in 0..MaxTime
  BY DEF ServedReply, Metadata, Invariant, Typed, TypeOK
<1>b. calls[n].what # "metadata" /\ q \in Query => ServedReply(calls[n]) \in Value
  <2> SUFFICES ASSUME calls[n].what # "metadata", q \in Query PROVE ServedReply(calls[n]) \in Value
    OBVIOUS
  <2> DEFINE has == members[queries[q].key]
  <2>1. has \in Value
    BY <1>0, <1>2 DEF CallFits, Asking, SeenIsNow, SeenNow, Typed, TypeOK
  <2>2. calls[n].what \in {"include", "exclude", "user"}
    BY <1>2 DEF CallSet
  <2> QED
    BY <2>1, <2>2, ConstantsTyped DEF ServedReply, Members, UserData
<1>3. /\ c.what = calls[n].what /\ c.who = q /\ c.served /\ c.failed = failed /\ c.reply = reply
      /\ IF calls[n].what # "metadata" /\ ~failed THEN reply \in Value ELSE reply \in 0..MaxTime
      /\ c \in CallSet
  <2>1. IF calls[n].what # "metadata" /\ ~failed THEN reply \in Value ELSE reply \in 0..MaxTime
    BY <1>2, <1>a, <1>b, ConstantsTyped
  <2> HIDE DEF reply
  <2> QED
    BY <1>2, <2>1 DEF CallSet
<1>4. calls' = [calls EXCEPT ![n] = c]
  BY <1>1
<1>c. ~failed => c.reply = ServedReply(calls[n])
  BY <1>3
<1> HIDE DEF c, reply
<1>5. q \in Query => CallFits(backend, c, queries[q])
  <2> SUFFICES ASSUME q \in Query PROVE CallFits(backend, c, queries[q])
    OBVIOUS
  <2>1. CASE calls[n].what = "metadata"
    BY <1>2, <1>3, <2>1 DEF CallFits, Supported
  <2>2. CASE calls[n].what # "metadata" /\ ~failed
    BY <1>0, <1>2, <1>3, <1>c, <2>2, ServedSupported DEF CallFits
  <2>3. CASE failed
    BY <1>2, <1>3, <2>3 DEF CallFits, Supported
  <2> QED
    BY <2>1, <2>2, <2>3
<1> DEFINE f == [j \in DOMAIN calls |-> IF j = n THEN 0 ELSE j]
<1>6. /\ calls' \in Seq(CallSet) /\ DOMAIN calls' = DOMAIN calls /\ calls'[n] = c
      /\ \A j \in DOMAIN calls : j # n => calls'[j] = calls[j]
  BY <1>0, <1>3, <1>4
<1>7. Renamed(calls', f) /\ \A j \in DOMAIN calls' : f[j] = IF j = n THEN 0 ELSE j
  <2>1. \A j \in DOMAIN calls : j \in Nat /\ j # 0
    BY <1>0
  <2> QED
    BY <1>6, <2>1 DEF Renamed
<1> HIDE DEF f
<1>8. \A j \in DOMAIN calls' : f[j] # 0 /\ calls[f[j]].who \in Query => calls[f[j]].who # q
  BY <1>0, <1>6, <1>7 DEF Asking, CallsUnique
<1>9. \A j \in DOMAIN calls' : f[j] = 0 => j = n
  BY <1>0, <1>6, <1>7
<1>10. /\ calls'[n].who \in Query => calls'[n].who = q /\ CallFits(backend, calls'[n], queries'[q])
       /\ calls'[n].who \notin Query => calls'[n].what = "metadata"
  <2>1. q \in Query => CallFits(backend, calls'[n], queries'[q])
    BY <1>0, <1>5, <1>6 DEF CallFits
  <2> QED
    BY <1>2, <1>3, <1>6, <2>1
<1>11. q \in Query => SeenNow(members, queries'[q]) /\ WasTrue(backend, queries'[q])
  BY <1>0, WasTrueOfAll DEF Asking, SeenIsNow, SeenNow, WasTrue
<1>12. Asking'
  BY <1>0, <1>7, <1>8, <1>9, <1>10, <1>11, OneActs
<1>13. CallsTyped'
  <2>1. CallsTyped
    BY <1>0 DEF Typed, TypeOK, CallsTyped
  <2> QED
    BY <1>2, <1>3, <1>6, <2>1 DEF CallsTyped, CallSet
<1> QED
  BY <1>0, <1>6, <1>12, <1>13 DEF Invariant, Typed, TypeOK, CallsTyped

(* What was seen grows: what was supported stays so.                       *)
HasSeen(query, m, next) ==
  /\ next \in QuerySet /\ next.stage = query.stage /\ next.key = query.key
  /\ next.membership = query.membership
  /\ next.seen # <<>> /\ next.seen[Len(next.seen)] = m
  /\ \A call : Supported(call, query) => Supported(call, next)

(* What a waiting query could have seen grows by one membership.           *)
LEMMA SeenGrows ==
  ASSUME NEW query \in QuerySet, NEW m \in Value, NEW next,
         next = [query EXCEPT !.seen = Append(query.seen, m)]
  PROVE  HasSeen(query, m, next)
<1> DEFINE all == Append(query.seen, m)
<1>1. query.seen \in Seq(Value)
  BY DEF QuerySet
<1>2. HasGained(Value, query.seen, m, all)
  BY <1>1, AppendedIs
<1>3. Len(query.seen) \in Nat /\ DOMAIN query.seen = 1..Len(query.seen)
  BY <1>1
<1>a. next = [query EXCEPT !.seen = all]
  OBVIOUS
<1> HIDE DEF all
<1>4. all \in Seq(Value) /\ all # <<>> /\ all[Len(all)] = m
  BY <1>2, <1>3 DEF HasGained
<1>5. /\ next \in QuerySet /\ next.stage = query.stage /\ next.key = query.key
      /\ next.membership = query.membership /\ next.seen = all
  BY <1>a, <1>4 DEF QuerySet
<1>6. \A n \in DOMAIN query.seen : n \in DOMAIN next.seen /\ next.seen[n] = query.seen[n]
  <2>1. Len(all) = Len(query.seen) + 1 /\ DOMAIN all = 1..Len(all)
    BY <1>2, <1>4 DEF HasGained
  <2>2. \A n \in 1..Len(query.seen) : n \in 1..Len(all) /\ all[n] = query.seen[n]
    BY <1>2, <1>3, <2>1 DEF HasGained
  <2> QED
    BY <1>3, <1>5, <2>1, <2>2
<1>7. ASSUME NEW call, Supported(call, query) PROVE Supported(call, next)
  <2>1. \A v : Had(query, v) => Had(next, v)
    BY <1>6 DEF Had
  <2>2. \A v : HadOther(query, v) => HadOther(next, v)
    BY <1>6 DEF HadOther
  <2>3. (\E j, n \in DOMAIN query.seen : j <= n /\ query.seen[j] # "in" /\ query.seen[n] # "out")
        => \E j, n \in DOMAIN next.seen : j <= n /\ next.seen[j] # "in" /\ next.seen[n] # "out"
    BY <1>6
  <2> QED
    BY <1>5, <1>7, <2>1, <2>2, <2>3, Zenon DEF Supported
<1> QED
  BY <1>4, <1>5, <1>7 DEF HasSeen

(* A membership changes in the database; queries that wait may see either. *)
LEMMA ChangeMembershipKeeps ==
  ASSUME Invariant, NEW k \in Varying, NEW m \in Value, ChangeMembership(k, m)
  PROVE  Invariant'
<1>0. /\ queries \in [Query -> QuerySet] /\ members \in [Key -> Value] /\ k \in Key
      /\ calls \in Seq(CallSet) /\ Asking /\ Typed
  BY BigSegmentsAssumption DEF Invariant, Typed, TypeOK, QuerySet
<1>1. UNCHANGED <<backend, lastUpToDate, up, calls, status, polling, cache, now, answer>>
  BY DEF ChangeMembership, Change
<1>2. members' = [members EXCEPT ![k] = m]
  BY DEF ChangeMembership
<1> DEFINE told(q) == queries[q].stage = "asking" /\ queries[q].key = k
           next(q) == [queries[q] EXCEPT !.seen = Append(queries[q].seen, m)]
<1>3. /\ DOMAIN queries' = Query /\ queries' = [q \in Query |-> queries'[q]]
      /\ \A q \in Query : queries'[q] = IF told(q) THEN next(q) ELSE queries[q]
  BY DEF ChangeMembership
<1>4. ASSUME NEW q \in Query
      PROVE  /\ queries'[q] \in QuerySet /\ queries'[q].stage = queries[q].stage
             /\ SeenNow(members', queries'[q]) /\ WasTrue(backend, queries'[q])
  <2>1. queries[q] \in QuerySet /\ SeenNow(members, queries[q]) /\ WasTrue(backend, queries[q])
    BY <1>0, WasTrueOfAll DEF Asking, SeenIsNow
  <2>2. CASE told(q)
    <3>1. /\ queries'[q] \in QuerySet /\ queries'[q].stage = "asking" /\ queries'[q].key = k
          /\ queries'[q].seen # <<>> /\ queries'[q].seen[Len(queries'[q].seen)] = m
      <4>1. queries'[q] = [queries[q] EXCEPT !.seen = Append(queries[q].seen, m)]
        BY <1>3, <2>2
      <4> QED
        <5>1. HasSeen(queries[q], m, queries'[q])
          BY <2>1, <4>1, SeenGrows
        <5> QED
          BY <2>2, <5>1 DEF HasSeen
    <3>2. members'[k] = m
      BY <1>0, <1>2
    <3> QED
      BY <1>0, <2>2, <3>1, <3>2 DEF SeenNow, WasTrue
  <2>3. CASE ~told(q)
    <3>1. queries'[q] = queries[q]
      BY <1>3, <2>3
    <3>2. queries[q].stage = "asking" => queries[q].key # k /\ members'[queries[q].key] = members[queries[q].key]
      BY <1>0, <1>2, <2>1, <2>3 DEF SeenNow
    <3> QED
      BY <2>1, <3>1, <3>2 DEF SeenNow
  <2> QED
    BY <2>2, <2>3
<1>5. ASSUME NEW q \in Query, NEW n \in DOMAIN calls, calls[n].who = q
      PROVE  CallFits(backend, calls[n], queries'[q])
  <2>1. CallFits(backend, calls[n], queries[q]) /\ queries[q] \in QuerySet
    BY <1>0, <1>5 DEF Asking, CallsFit
  <2>2. Supported(calls[n], queries'[q])
    <3>1. CASE told(q)
      <4>1. queries'[q] = [queries[q] EXCEPT !.seen = Append(queries[q].seen, m)]
        BY <1>3, <3>1
      <4>2. Supported(calls[n], queries[q])
        BY <2>1 DEF CallFits
      <4> QED
        <5>1. HasSeen(queries[q], m, queries'[q])
          BY <2>1, <4>1, SeenGrows
        <5> QED
          BY <4>2, <5>1 DEF HasSeen
    <3>2. CASE ~told(q)
      BY <1>3, <2>1, <3>2 DEF CallFits
    <3> QED
      BY <3>1, <3>2
  <2> QED
    BY <1>4, <2>1, <2>2 DEF CallFits
<1> HIDE DEF told, next
<1>6. queries' \in [Query -> QuerySet]
  <2>1. \A q \in Query : queries'[q] \in QuerySet
    BY <1>4
  <2> HIDE DEF QuerySet
  <2> QED
    BY <1>3, <2>1
<1>7. members' \in [Key -> Value]
  BY <1>0, <1>2
<1>8. Asking'
  <2>1. CallsUnique'
    BY <1>0, <1>1 DEF Asking, CallsUnique
  <2>2. CallsFit'
    BY <1>0, <1>1, <1>5 DEF Asking, CallsFit
  <2>3. SeenIsNow'
    BY <1>4 DEF SeenIsNow
  <2>4. MembershipWasTrue'
    <3>1. \A q \in Query : WasTrue(backend', queries'[q])
      BY <1>1, <1>4
    <3> QED
      BY <3>1 DEF MembershipWasTrue, WasTrue, Had
  <2> QED
    BY <2>1, <2>2, <2>3, <2>4 DEF Asking
<1>9. Typed'
  BY <1>0, <1>1, <1>6, <1>7 DEF Typed, TypeOK, QuerySet
<1> QED
  BY <1>1, <1>8, <1>9 DEF Invariant

(* The steps that leave the calls, the queries and the members alone.      *)
LEMMA ClockAndStoreKeep ==
  ASSUME Invariant, Close \/ Synchronize \/ FailOrRecover \/ Tick
  PROVE  Invariant'
<1>1. UNCHANGED <<backend, members, calls, queries, status, cache, answer>>
  BY DEF Close, Synchronize, FailOrRecover, Tick, Change, dbVars
<1>2. lastUpToDate' \in 0..MaxTime /\ up' \in BOOLEAN /\ now' \in 0..MaxTime /\ polling' \in BOOLEAN
  <2>1. lastUpToDate \in 0..MaxTime /\ up \in BOOLEAN /\ now \in 0..MaxTime /\ polling \in BOOLEAN /\ MaxTime \in Nat
    BY ConstantsTyped DEF Invariant, Typed, TypeOK
  <2>2. CASE Close
    BY <2>1, <2>2 DEF Close, dbVars
  <2>3. CASE Synchronize
    BY <2>1, <2>3 DEF Synchronize, Change
  <2>4. CASE FailOrRecover
    BY <2>1, <2>4 DEF FailOrRecover, Change
  <2>5. CASE Tick
    BY <2>1, <2>5 DEF Tick, dbVars
  <2> QED
    BY <2>2, <2>3, <2>4, <2>5
<1>3. Asking'
  BY <1>1 DEF Invariant, Asking, CallsUnique, CallsFit, SeenIsNow, MembershipWasTrue
<1>4. Typed'
  BY <1>1, <1>2 DEF Invariant, Typed, TypeOK
<1> QED
  BY <1>1, <1>3, <1>4 DEF Invariant

-----------------------------------------------------------------------------
(* All steps.                                                              *)

(* What a step does to the cache: it is a step of RecentlyUsed, or none.   *)
LEMMA StepKeeps ==
  ASSUME Invariant, [Next]_vars
  PROVE  Invariant' /\ [Recent!Next]_(Recent!vars)
<1>1. ASSUME NEW q \in Query, NEW k \in Key, GetUserMembership(q, k)
      PROVE  Invariant' /\ Recent!Next
  <2>0. CacheOK(cache) /\ now \in Nat
    <3>1. CacheOK(cache) /\ now \in 0..MaxTime
      BY DEF Invariant, Typed, TypeOK
    <3> QED
      BY <3>1, ConstantsTyped
  <2>1. cache' = Got(cache, k, now) /\ answer' = <<"get", Found(cache, k, now)>> /\ now' = now
    BY <1>1 DEF GetUserMembership
  <2>2. /\ CacheOK(cache)'
        /\ \/ \E n \in Recent!Has(k) :
                 /\ Found(cache, k, now) = List[n].value /\ Found(cache, k, now) \in Value
                 /\ List' = Append(Recent!Without(k), [List[n] EXCEPT !.since = IF MaxAge > 0 THEN now ELSE 0])
           \/ Recent!Has(k) = {} /\ Found(cache, k, now) = Nothing /\ List' = List
    BY <2>0, <2>1, GotKeeps
  <2>3. Recent!Get(k)
    BY <2>1, <2>2 DEF Recent!Get, Recent!Stamp
  <2>4. Invariant'
    BY <1>1, <2>2, GetUserMembershipKeeps DEF Invariant
  <2> QED
    BY <2>3, <2>4 DEF Recent!Next
<1>2. ASSUME NEW n \in DOMAIN calls, MembershipAnswered(n)
      PROVE  Invariant' /\ Recent!Next
  <2>1. Typed' /\ Asking' /\ CacheOK(cache)' /\ \E k \in Key, v \in Value : Recent!Set(k, v)
    BY <1>2, MembershipAnsweredKeeps
  <2> QED
    BY <2>1 DEF Invariant, Recent!Next
<1>3. ASSUME Typed' /\ Asking', UNCHANGED <<cache, now, answer>>
      PROVE  Invariant' /\ UNCHANGED Recent!vars
  BY <1>3 DEF Invariant, Recent!vars, List
<1>4. ASSUME NEW n \in DOMAIN calls, Serve(n) \/ NextHalf(n) \/ MembershipFailed(n) \/ StatusAnswered(n)
      PROVE  Invariant' /\ UNCHANGED Recent!vars
  <2>1. Typed' /\ Asking'
    BY <1>4, ServeKeeps, NextHalfKeeps, MembershipFailedKeeps, StatusAnsweredKeeps
  <2>2. UNCHANGED <<cache, now, answer>>
    BY <1>4 DEF Serve, NextHalf, MembershipFailed, StatusAnswered
  <2> QED
    BY <1>3, <2>1, <2>2
<1>5. ASSUME PollTimer \/ RequireStatus
      PROVE  Invariant' /\ UNCHANGED Recent!vars
  <2>1. PollStoreAndUpdateStatus
    BY <1>5 DEF PollTimer, RequireStatus
  <2>2. UNCHANGED <<cache, now, answer>>
    BY <2>1 DEF PollStoreAndUpdateStatus
  <2> QED
    BY <1>3, <2>1, <2>2, PollKeeps
<1>6. ASSUME NEW k \in Varying, NEW m \in Value, ChangeMembership(k, m)
      PROVE  Invariant' /\ UNCHANGED Recent!vars
  <2>1. UNCHANGED <<cache, now, answer>>
    BY <1>6 DEF ChangeMembership, Change
  <2> QED
    BY <1>6, <2>1, ChangeMembershipKeeps DEF Recent!vars, List
<1>7. ASSUME Close \/ Synchronize \/ FailOrRecover
      PROVE  Invariant' /\ UNCHANGED Recent!vars
  <2>1. UNCHANGED <<cache, now, answer>>
    BY <1>7 DEF Close, Synchronize, FailOrRecover, Change
  <2> QED
    BY <1>7, <2>1, ClockAndStoreKeep DEF Recent!vars, List
<1>8. ASSUME Tick
      PROVE  Invariant' /\ Recent!Next
  <2>1. now < MaxTime /\ now' = now + 1 /\ UNCHANGED <<cache, answer>>
    BY <1>8 DEF Tick
  <2>2. List' = List
    BY <2>1 DEF List
  <2>3. Recent!Tick
    BY <2>1, <2>2 DEF Recent!Tick
  <2> QED
    BY <1>8, <2>3, ClockAndStoreKeep DEF Recent!Next
<1>9. ASSUME UNCHANGED vars
      PROVE  Invariant' /\ UNCHANGED Recent!vars
  <2>1. Typed' /\ Asking'
    <3>1. UNCHANGED <<backend, members, lastUpToDate, up, calls, queries, status, polling, cache, now, answer>>
      BY <1>9 DEF vars, dbVars
    <3>2. Asking'
      BY <3>1 DEF Invariant, Asking, CallsUnique, CallsFit, SeenIsNow, MembershipWasTrue
    <3>3. Typed'
      BY <3>1 DEF Invariant, Typed, TypeOK
    <3> QED
      BY <3>2, <3>3
  <2> QED
    BY <1>3, <1>9, <2>1 DEF vars
<1> QED
  BY <1>1, <1>2, <1>4, <1>5, <1>6, <1>7, <1>8, <1>9 DEF Next, Answered

(* The manager starts with an empty cache, as the abstract cache does.     *)
LEMMA StartsSo ==
  ASSUME Init
  PROVE  Invariant /\ Recent!Init
<1>1. /\ NewCache \in Caches /\ NewCache.size = 0 /\ NewCache.head = 0 /\ NewCache.tail = 0
      /\ \A k \in Key : NewCache.keyMap[k] = Nothing
  <2>1. 0 \in Slot /\ 0 \in 0..MaxItems /\ 0 \in Nat
    BY LruAssumption DEF Slot
  <2> HIDE DEF Slot
  <2>2. /\ Fill(0) \in [Slot -> Slot] /\ Fill(0) \in [Slot -> Nat]
        /\ Fill(Nothing) \in [Slot -> Value \cup {Nothing}] /\ Fill(Nothing) \in [Slot -> Key \cup {Nothing}]
    BY <2>1 DEF Fill
  <2>3. [k \in Key |-> Nothing] \in [Key -> Slot \cup {Nothing}]
    OBVIOUS
  <2> DEFINE map == [k \in Key |-> Nothing]
  <2>4. NewCache = [values |-> Fill(Nothing), keys |-> Fill(Nothing), lastUpdated |-> Fill(0),
                    next |-> Fill(0), prev |-> Fill(0), keyMap |-> map, head |-> 0, tail |-> 0, size |-> 0]
    BY DEF NewCache
  <2>5. \A k \in Key : map[k] = Nothing
    OBVIOUS
  <2> HIDE DEF map
  <2> QED
    BY <2>1, <2>2, <2>3, <2>4, <2>5 DEF Caches, map
<1>2. Chained(NewCache, <<>>)
  <2>1. <<>> \in [1..0 -> Slot] /\ 1..0 = {} /\ 2..0 = {}
    OBVIOUS
  <2>2. \A i \in Slot : ~(i < 0)
    BY LruAssumption DEF Slot
  <2> HIDE DEF Slot
  <2> QED
    BY <1>1, <2>1, <2>2 DEF Chained
<1>3. Nth(NewCache) = <<>>
  BY <1>1, <1>2, NthOf
<1>4. MapOK(NewCache)
  <2>1. \A i \in Slot : ~(i < 0)
    BY LruAssumption DEF Slot
  <2> HIDE DEF Slot
  <2> QED
    BY <1>1, <2>1 DEF MapOK
<1>5. CacheOK(cache) /\ cache = NewCache
  BY <1>1, <1>2, <1>3, <1>4 DEF CacheOK, Init
<1>6. List = <<>>
  <2>1. DOMAIN Nth(cache) = {}
    BY <1>3, <1>5
  <2>2. List \in Seq(Entries) /\ Len(List) = 0
    <3>1. List = Remembered(cache)
      BY <1>5, ListHere
    <3>2. Remembered(cache) \in Seq(Entries) /\ Len(Remembered(cache)) = cache.size
      BY <1>5, ListIs
    <3> QED
      BY <1>1, <1>5, <3>1, <3>2
  <2> HIDE DEF List
  <2> QED
    BY <2>2
<1>7. Recent!Init
  BY <1>6 DEF Init, Recent!Init
<1>8. calls = <<>> /\ calls \in Seq(CallSet) /\ DOMAIN calls = {} /\ queries = [q \in Query |-> Idle]
  <2>1. calls = <<>> /\ queries = [q \in Query |-> Idle]
    BY DEF Init
  <2>2. <<>> \in Seq(CallSet) /\ DOMAIN <<>> = {}
    BY EmptySeq
  <2> QED
    BY <2>1, <2>2
<1>9. Typed
  <2>1. members \in [Key -> Value] /\ MaxTime \in Nat /\ Idle \in QuerySet /\ 0 \in 0..MaxTime
    <3>1. members \in [Key -> AtFirst]
      BY DEF Init
    <3>2. AtFirst \subseteq Value /\ MaxTime \in Nat
      BY BigSegmentsAssumption
    <3>3. members \in [Key -> Value]
      BY <3>1, <3>2
    <3> QED
      BY <3>2, <3>3, ConstantsTyped
  <2>2. queries \in [Query -> QuerySet]
    BY <1>8, <2>1
  <2>3. status \in [available : BOOLEAN, stale : BOOLEAN] /\ polling \in BOOLEAN /\ up \in BOOLEAN
    BY DEF Init, Unknown
  <2>4. answer \in {"", "get", "set"} \X (Value \cup {Nothing})
    BY DEF Init
  <2>5. cache \in Caches
    BY <1>5 DEF CacheOK
  <2>6. backend \in {"redis", "dynamodb"} /\ lastUpToDate \in 0..MaxTime /\ now \in 0..MaxTime
    BY <2>1 DEF Init
  <2> QED
    BY <1>8, <2>1, <2>2, <2>3, <2>4, <2>5, <2>6 DEF Typed, TypeOK, QuerySet
<1>10. Asking
  <2>1. \A q \in Query : queries[q].stage = "idle"
    BY <1>8 DEF Idle
  <2>2. CallsUnique /\ CallsFit
    BY <1>8 DEF CallsUnique, CallsFit
  <2>3. SeenIsNow
    BY <2>1 DEF SeenIsNow, SeenNow
  <2>4. MembershipWasTrue
    BY <2>1 DEF MembershipWasTrue
  <2> QED
    BY <2>2, <2>3, <2>4 DEF Asking
<1> QED
  BY <1>5, <1>7, <1>9, <1>10 DEF Invariant

(* The cache is well linked, queries and calls fit, and every variable has *)
(* its type, in every state that is reached.                               *)
THEOREM Invariance == Spec => []Invariant
<1>1. Init => Invariant
  BY StartsSo
<1>2. Invariant /\ [Next]_vars => Invariant'
  BY StepKeeps
<1> QED
  BY <1>1, <1>2, PTL DEF Spec

(* Big segments: every variable keeps its type; a reply of the store is a  *)
(* membership exactly where getUserMembership was asked and did not fail.  *)
THEOREM TypeCorrect == Spec => []TypeOK
<1>1. Invariant => TypeOK
  BY DEF Invariant, Typed
<1> QED
  BY <1>1, Invariance, PTL

(* Whatever the calls, changes and failures: a membership that the manager *)
(* had from its store was there while the store was asked, except that one *)
(* which Redis has neither included nor excluded may be torn.              *)
THEOREM MembershipWasTrueEver == Spec => []MembershipWasTrue
<1>1. Invariant => MembershipWasTrue
  BY DEF Invariant, Asking
<1> QED
  BY <1>1, Invariance, PTL

(* The LruCache of the manager, with its two links of every node and its   *)
(* map, is a list of the most recently used keys: every step of the manager *)
(* that gets or sets does to the list what RecentlyUsed says, with the same *)
(* answer, and no other step touches it.                                   *)
THEOREM ImplementsRecentlyUsedEver == Spec => ImplementsRecentlyUsed
<1>1. Init => Recent!Init
  BY StartsSo
<1>2. Invariant /\ [Next]_vars => [Recent!Next]_(Recent!vars)
  BY StepKeeps
<1> QED
  BY <1>1, <1>2, Invariance, PTL DEF Spec, ImplementsRecentlyUsed, Recent!Spec
=============================================================================
