---------------------------- MODULE MCDatabases -----------------------------
(* TLC instance of Databases: two processes, two items of which one grows   *)
(* too large for DynamoDB.                                                  *)
EXTENDS Databases, TLC

CONSTANTS p, q, a, b

MCProcess == {p, q}
MCKeys == {a, b}
MCOversize == {<<b, 2>>}
MCEarlier == {a :> 2 @@ b :> 1}
MCDataSets == {a :> 1 @@ b :> 2}
MCOwners == {p}
=============================================================================
