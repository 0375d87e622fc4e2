--------------------------- MODULE DependencyWalk ---------------------------
(***************************************************************************)
(* shared/sdk-server/src/data_sources: DependencyTracker.updateModifiedItems *)
(* as the depth-first walk that it is, and computeDependencies of          *)
(* DataSourceUpdates.ts, which says what an item refers to.                *)
(***************************************************************************)
EXTENDS DependencyTracker, SequencesExt

(* updateModifiedItems(inDependencySet, item): a marked item is not        *)
(* entered again, so the walk ends although references may be circular;    *)
(* it never has more calls in each other than there are items.             *)
UpdateModifiedItems(t, marked, item) ==
  LET walk[n \in Nat] ==
        [m \in SUBSET Item |-> [i \in Item |->
           IF n = 0 \/ i \in m THEN m ELSE FoldSet(LAMBDA j, after : walk[n - 1][after][j], m \cup {i}, t.to[i])]]
  IN walk[Cardinality(Item)][marked][item]

SegmentsOf(item) ==
  LET clauses(rule) == {n \in DOMAIN rule.clauses : rule.clauses[n].op = "segmentMatch"} IN
  UNION {UNION {ToSet(item.rules[n].clauses[m].segments) : m \in clauses(item.rules[n])} : n \in DOMAIN item.rules}

FirstClauseOnly(item) ==  \* mutation: of each rule only the first clause is looked at
  CASE item.kind = "flag" -> {p.key : p \in ToSet(item.prerequisites)}
                             \cup UNION {ToSet(item.rules[n].clauses[1].segments) : n \in DOMAIN item.rules}
    [] item.kind = "segment" -> SegmentsOf(item)
    [] OTHER -> {}

(* The prerequisites of a flag, and the segments in rules of either.       *)
ComputeDependencies(item) ==
  CASE item.kind = "flag" -> {p.key : p \in ToSet(item.prerequisites)} \cup SegmentsOf(item)
    [] item.kind = "segment" -> SegmentsOf(item)
    [] OTHER -> {}
=============================================================================
