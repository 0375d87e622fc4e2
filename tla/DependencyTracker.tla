------------------------- MODULE DependencyTracker -------------------------
(***************************************************************************)
(* shared/sdk-server/src/data_sources/DependencyTracker.ts: which flags    *)
(* and segments refer to which.  A tracker is a record of its two maps;    *)
(* an item that a NamespacedDataSet has no entry for maps to the empty     *)
(* set.  An item is a pair of a namespace and a key: here, an element of   *)
(* Item.                                                                   *)
(***************************************************************************)
EXTENDS Naturals, FiniteSets

CONSTANT Item

EmptyTracker == [from |-> [i \in Item |-> {}], to |-> [i \in Item |-> {}]]

Trackers == [from : [Item -> SUBSET Item], to : [Item -> SUBSET Item]]

(* Mutation: the references of the item's old version are not removed.     *)
UpdateKeepsOld(t, item, deps) ==
  [from |-> [t.from EXCEPT ![item] = deps],
   to   |-> [i \in Item |-> IF i \in deps THEN t.to[i] \cup {item} ELSE t.to[i]]]

UpdateDependenciesFrom(t, item, deps) ==
  [from |-> [t.from EXCEPT ![item] = deps],
   to   |-> [i \in Item |->
               (t.to[i] \ (IF i \in t.from[item] THEN {item} ELSE {}))
                 \cup (IF i \in deps THEN {item} ELSE {})]]

(* reset(), then updateDependenciesFrom for the items of a data set, in    *)
(* any order: no call disturbs what another one entered.                   *)
Rebuild(deps) ==
  [from |-> deps, to |-> [i \in Item |-> {j \in Item : i \in deps[j]}]]

(* updateModifiedItems for each of the items: it marks the item and goes   *)
(* on to the items that refer to it, not entering a marked item again.     *)
(* What is marked in the end is what can be reached, in at most as many    *)
(* rounds as there are items.                                              *)
ModifiedItems(t, items) ==
  LET round[n \in Nat] ==
        IF n = 0 THEN items
        ELSE round[n - 1] \cup UNION {t.to[i] : i \in round[n - 1]}
  IN round[Cardinality(Item)]

(* The two maps are inverse to each other.                                 *)
MapsInverse(t) == \A i, j \in Item : j \in t.to[i] <=> i \in t.from[j]
=============================================================================
