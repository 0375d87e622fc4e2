----------------------------- MODULE MCLruCache -----------------------------
(* TLC instances of the cache and the context deduplicator. *)
EXTENDS ContextDeduplicator

Symmetry == Permutations(Key)
=============================================================================
