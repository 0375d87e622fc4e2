----------------------------- MODULE MCWrapper -----------------------------
(* TLC instances of PersistentDataStoreWrapper.  The keys and the readers   *)
(* are interchangeable in every property that is not a liveness property.   *)
EXTENDS PersistentDataStoreWrapper, TLC

Symmetry == Permutations(Key) \cup Permutations(Reader)
=============================================================================
