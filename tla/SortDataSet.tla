---------------------------- MODULE SortDataSet -----------------------------
(***************************************************************************)
(* shared/sdk-server/src/store/sortDataSet.ts: the order in which the      *)
(* items of a data set are handed to a persistent store.                   *)
(***************************************************************************)
EXTENDS Naturals, FiniteSets, Sequences, SequencesExt

(* keys are visited one after the other; visit[acc][key] is what visiting  *)
(* a key makes of acc.                                                     *)
VisitEach(visit, acc, keys) ==
  LET after[n \in 0..Len(keys)] == IF n = 0 THEN acc ELSE visit[after[n - 1]][keys[n]]
  IN after[Len(keys)]

VisitLater(visit, prerequisites, acc, key) ==  \* mutation: the item goes before its prerequisites
  IF key \notin acc.unvisited THEN acc
  ELSE VisitEach(visit, [unvisited |-> acc.unvisited \ {key}, sorted |-> Append(acc.sorted, key)], prerequisites[key])

(* An item is taken out of the unvisited ones before its prerequisites are *)
(* visited: a cycle ends here.                                             *)
Visit(visit, prerequisites, acc, key) ==
  IF key \notin acc.unvisited THEN acc
  ELSE LET after == VisitEach(visit, [acc EXCEPT !.unvisited = @ \ {key}], prerequisites[key])
       IN [after EXCEPT !.sorted = Append(@, key)]

(* keys: in the order of the map; prerequisites: their keys, for each item *)
(* (none for a segment).  There are never more visits in each other than   *)
(* items.                                                                  *)
TopologicalSort(keys, prerequisites) ==
  LET all == ToSet(keys) \cup UNION {ToSet(prerequisites[key]) : key \in ToSet(keys)}
      visits[n \in Nat] ==
        [acc \in [unvisited : SUBSET ToSet(keys), sorted : Seq(ToSet(keys))] |-> [key \in all |->
           IF n = 0 THEN acc ELSE Visit(visits[n - 1], prerequisites, acc, key)]]
  IN VisitEach(visits[Len(keys)], [unvisited |-> ToSet(keys), sorted |-> <<>>], keys).sorted

(* Segments have the smaller priority and come first.                      *)
SortData(segments, flags, prerequisites) ==
  TopologicalSort(segments, [s \in ToSet(segments) |-> <<>>]) \o TopologicalSort(flags, prerequisites)
=============================================================================
