------------------------------ MODULE Database ------------------------------
(***************************************************************************)
(* A database that several SDK processes share, and what the update queue  *)
(* of each process (PersistentDataStoreWrapper) asks of its persistent     *)
(* data store: one init or upsert at a time, answered by a callback.  One  *)
(* kind of data; an item is its version, Absent if there is none.          *)
(***************************************************************************)
EXTENDS Integers, Sequences, FiniteSets

CONSTANTS Process, Keys, MaxVersion,
          Oversize,  \* <<key, version>>: what DynamoDB has no room for
          Earlier,   \* bound: what earlier processes have left in the database
          DataSets   \* bound: what init is called with

Absent == 0
Versions == Absent..MaxVersion

ASSUME DatabaseAssumption ==
  /\ MaxVersion \in Nat \ {0} /\ Oversize \subseteq Keys \X (1..MaxVersion)
  /\ Earlier \subseteq [Keys -> Versions] /\ DataSets \subseteq [Keys -> Versions]

VARIABLES items,    \* the namespace of the kind
          inited,   \* the $inited token
          write,    \* the write that a process waits for
          told,     \* what the callback of its last write was given
          others,   \* ghost: keys that other processes have written meanwhile
          spoiled   \* ghost: keys that a fault has kept from the write

dbVars == <<items, inited, write, told, others, spoiled>>

Failed == -1   \* the callback was given an error
Silent == -2   \* the callback was given nothing
Idle == [op |-> "none"]
Stuck == [op |-> "stuck"]   \* nobody will call back

Writes ==
  [op : {"upsert"}, key : Keys, version : 1..MaxVersion]
    \cup [op : {"init"}, data : DataSets]

TypeOKDatabase ==
  /\ items \in [Keys -> Versions] /\ inited \in BOOLEAN
  /\ \A p \in Process : write[p] \in {Idle, Stuck} \/ write[p] \in Writes
  /\ told \in [Process -> Silent..MaxVersion]
  /\ others \in [Process -> SUBSET Keys] /\ spoiled \in [Process -> SUBSET Keys]

InitDatabase ==
  /\ items \in Earlier /\ inited = FALSE
  /\ write = [p \in Process |-> Idle]
  /\ told = [p \in Process |-> Silent]
  /\ others = [p \in Process |-> {}] /\ spoiled = [p \in Process |-> {}]

Begin(p, w) ==
  /\ write[p] = Idle
  /\ write' = [write EXCEPT ![p] = w]
  /\ told' = [told EXCEPT ![p] = Silent]
  /\ others' = [others EXCEPT ![p] = {}] /\ spoiled' = [spoiled EXCEPT ![p] = {}]
  /\ UNCHANGED <<items, inited>>

Answer(p, what) == write' = [write EXCEPT ![p] = Idle] /\ told' = [told EXCEPT ![p] = what]

(* The database carries out a write of p.                                  *)
Store(p, new) ==
  /\ items' = new
  /\ others' = [q \in Process |-> IF q = p \/ write[q] = Idle THEN others[q]
                                  ELSE others[q] \cup {k \in Keys : new[k] # items[k]}]

Spoil(p, keys) == spoiled' = [spoiled EXCEPT ![p] = @ \cup keys]
=============================================================================
