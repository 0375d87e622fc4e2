------------------------ MODULE MCDataSourceUpdates ------------------------
(***************************************************************************)
(* TLC instances of DataSourceUpdates: over a store in memory, with the    *)
(* constants of the configuration, or over a persistent store, for a data  *)
(* source that awaits its calls and that has but one flag.                 *)
(***************************************************************************)
EXTENDS DataSourceUpdates, TLC

CONSTANT MaxAwaited   \* bound: calls over the persistent store

VARIABLE persistent

Persistent == INSTANCE DataSourceUpdates WITH Async <- TRUE, Waits <- TRUE, MaxCalls <- MaxAwaited

MCInit == persistent \in BOOLEAN /\ IF persistent THEN Persistent!Init ELSE Init

OneFlag == Cardinality({f \in Flag : service'[f] # None}) <= 1   \* bound

MCNext ==
  /\ UNCHANGED persistent
  /\ \/ ~persistent /\ Next
     \/ persistent /\ Persistent!Next /\ OneFlag

MCSpec == MCInit /\ [][MCNext]_<<vars, persistent>>

Symmetry == Permutations(Flag) \cup Permutations(Segment)
=============================================================================
