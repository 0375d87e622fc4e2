------------------------------ MODULE LDClient ------------------------------
(***************************************************************************)
(* How the client starts: shared/sdk-server/src/LDClientImpl.ts between    *)
(* its data source, which calls it back, and the application, which waits. *)
(* The feature store is what the data source sees of it: DataSourceUpdates *)
(* over a store, which calls back when a call is done.  If there are       *)
(* listeners, DataSourceUpdates reads the old data before it passes a call *)
(* on, so over a persistent store a call can get ahead of earlier ones.    *)
(*                                                                         *)
(* The data of LaunchDarkly is a history of changes 1, 2, ...; the store   *)
(* has the set of those that it was given.                                 *)
(***************************************************************************)
EXTENDS Naturals, Sequences, SequencesExt

VARIABLES initState,
          promise,   \* initializedPromise
          ready,     \* how often onReady was called
          failed,    \* onFailed was called
          stopped,   \* close was called, and with it the stop of the data source
          pending,   \* calls of the feature store that are not done, oldest first
          stored,    \* what is in the feature store
          lost       \* ghost: what was in it until an init of before replaced it

clientVars == <<initState, promise, ready, failed, stopped, pending, stored, lost>>

(* overtaken is a ghost too: what got ahead of an init that lacks it.      *)
Call(change) == [op : {"init", "upsert"}, data : (SUBSET change) \ {{}}, overtaken : SUBSET change]

TypeOKClient(change) ==
  /\ initState \in {"Initializing", "Initialized", "Failed"}
  /\ promise \in {"none", "pending", "resolved", "rejected"}
  /\ ready \in Nat /\ failed \in BOOLEAN /\ stopped \in BOOLEAN
  /\ pending \in Seq(Call(change))
  /\ stored \subseteq change /\ lost \subseteq change

InitClient ==
  /\ initState = "Initializing" /\ promise = "none"
  /\ ready = 0 /\ failed = FALSE /\ stopped = FALSE
  /\ pending = <<>> /\ stored = {} /\ lost = {}

SettlePromise(how) == promise' = IF promise = "pending" THEN how ELSE promise

(* The callback given to updateProcessor.start, with an error.             *)
StartFailed ==
  /\ failed' = TRUE
  /\ IF initState = "Initialized"
     THEN UNCHANGED <<initState, promise>>
     ELSE initState' = "Failed" /\ SettlePromise("rejected")
  /\ UNCHANGED ready

(* The same without one.                                                   *)
StartSucceeded ==
  /\ IF initState = "Initialized"
     THEN UNCHANGED <<initState, promise, ready>>
     ELSE initState' = "Initialized" /\ SettlePromise("resolved") /\ ready' = ready + 1
  /\ UNCHANGED failed

(* waitForInitialization; once the client is initialized it changes        *)
(* nothing.                                                                *)
WaitForInitialization ==
  /\ initState # "Initialized" /\ promise = "none"
  /\ promise' = "pending"
  /\ UNCHANGED <<initState, ready, failed, stopped, pending, stored, lost>>

CallStore(op, data) == pending' = Append(pending, [op |-> op, data |-> data, overtaken |-> {}])

(* One of the calls is done, of the oldest or not; the store has the data. *)
(* An upsert leaves an item alone that is newer; an init replaces all.     *)
Passed(n) ==
  [m \in DOMAIN pending |->
     IF m < n /\ pending[m].op = "init"
     THEN [pending[m] EXCEPT !.overtaken = (@ \cup pending[n].data) \ pending[m].data]
     ELSE pending[m]]

StoreDone(op) ==
  \E n \in DOMAIN pending :
    LET done == pending[n] IN
    /\ done.op = op
    /\ pending' = RemoveAt(Passed(n), n)
    /\ stored' = IF op = "init" THEN done.data ELSE stored \cup done.data
    /\ lost' = IF op = "init" THEN done.overtaken ELSE lost \ done.data
    /\ UNCHANGED stopped

-----------------------------------------------------------------------------
(* The application is told that the client is ready exactly once, and the  *)
(* promise, if it was asked for in time, says the same.                    *)
ReadyOnce ==
  /\ ready = IF initState = "Initialized" THEN 1 ELSE 0
  /\ promise = "pending" => initState # "Initialized"
  /\ promise = "resolved" => initState = "Initialized"

(* The client is initialized only when the store has data of LaunchDarkly. *)
ReadyMeansData == initState = "Initialized" => stored # {}
=============================================================================
