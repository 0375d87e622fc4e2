------------------------------ MODULE LruCache ------------------------------
(***************************************************************************)
(* shared/sdk-server/src/cache/LruCache.ts: a map of bounded size that     *)
(* forgets the least recently used key.  The nodes of a doubly linked list *)
(* are the indices of a few arrays; a cache is the record of its fields.   *)
(***************************************************************************)
EXTENDS Integers, TLC

CONSTANTS Key, Value,
          Nothing,         \* undefined
          MaxItems,        \* options.max
          MaxAge           \* options.maxAge, 0 if there is none

Slot == 0..MaxItems - 1

ASSUME LruAssumption ==
  /\ MaxItems \in Nat \ {0} /\ MaxAge \in Nat
  /\ Nothing \notin Key \cup Value /\ Nothing \notin Slot

Fill(x) == [i \in Slot |-> x]

NewCache ==
  [values |-> Fill(Nothing), keys |-> Fill(Nothing), lastUpdated |-> Fill(0),
   next |-> Fill(0), prev |-> Fill(0), keyMap |-> [k \in Key |-> Nothing],
   head |-> 0, tail |-> 0, size |-> 0]

Caches ==
  [values : [Slot -> Value \cup {Nothing}], keys : [Slot -> Key \cup {Nothing}],
   lastUpdated : [Slot -> Nat], next : [Slot -> Slot], prev : [Slot -> Slot],
   keyMap : [Key -> Slot \cup {Nothing}], head : Slot, tail : Slot, size : 0..MaxItems]

Link(c, p, n) == [c EXCEPT !.prev[n] = p, !.next[p] = n]

(* setTail: the node is taken out of the list and put at its end.          *)
SetTail(c, i) ==
  IF i = c.tail THEN c
  ELSE LET out == IF i = c.head THEN [c EXCEPT !.head = c.next[i]]
                  ELSE Link(c, c.prev[i], c.next[i])
       IN [Link(out, c.tail, i) EXCEPT !.tail = i]

Evict(c) ==
  [c EXCEPT !.head = c.next[c.head], !.size = @ - 1,
            !.keyMap = [k \in Key |-> IF k = c.keys[c.head] THEN Nothing ELSE c.keyMap[k]]]

(* set() of a key that the map does not have: into a free or evicted slot. *)
Insert(c, k) ==
  LET full == c.size = MaxItems
      i == IF c.size = 0 THEN c.tail ELSE IF full THEN c.head ELSE c.size
      e == IF full THEN Evict(c) ELSE c
  IN [e EXCEPT !.keys[i] = k, !.keyMap[k] = i, !.next[e.tail] = i, !.prev[i] = e.tail,
               !.tail = i, !.size = @ + 1]

Put(c, k, v, now) ==
  LET p == IF c.keyMap[k] = Nothing THEN Insert(c, k) ELSE SetTail(c, c.keyMap[k])
      i == p.keyMap[k]
  IN [p EXCEPT !.values[i] = v, !.lastUpdated[i] = IF MaxAge > 0 THEN now ELSE @]

IsFound(c, k, now) ==
  /\ c.keyMap[k] # Nothing
  /\ MaxAge > 0 => now - c.lastUpdated[c.keyMap[k]] <= MaxAge

(* get() answers Found and leaves the cache Got.                           *)
Found(c, k, now) == IF IsFound(c, k, now) THEN c.values[c.keyMap[k]] ELSE Nothing

GotRefreshesExpired(c, k, now) ==  \* mutation: asking counts even if the item has expired
  IF c.keyMap[k] = Nothing THEN c
  ELSE [SetTail(c, c.keyMap[k]) EXCEPT !.lastUpdated[c.keyMap[k]] = now]

Got(c, k, now) ==
  IF ~IsFound(c, k, now) THEN c
  ELSE LET i == c.keyMap[k]
       IN [SetTail(c, i) EXCEPT !.lastUpdated[i] = IF MaxAge > 0 THEN now ELSE @]

(* clear() leaves keyMap as it is.                                         *)
Clear(c) ==
  [NewCache EXCEPT !.keyMap = c.keyMap, !.lastUpdated = c.lastUpdated]

(* The nodes from the head on, in the order of use.                        *)
Nth(c) ==
  CHOOSE nth \in [1..c.size -> Slot] :
    \A n \in 1..c.size : nth[n] = IF n = 1 THEN c.head ELSE c.next[nth[n - 1]]
=============================================================================
