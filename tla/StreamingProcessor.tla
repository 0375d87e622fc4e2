------------------------- MODULE StreamingProcessor -------------------------
(***************************************************************************)
(* shared/sdk-server/src/data_sources/StreamingProcessor.ts.  The event    *)
(* source is the platform's: it reconnects after an error if errorFilter   *)
(* allows it and hands over the messages of a connection in their order, a *)
(* put with all data first and then a patch or delete for each change.     *)
(***************************************************************************)
EXTENDS LDClient

CONSTANT MaxPending   \* bound: calls of the store that are not done

VARIABLES connection,
          told,       \* what this connection has brought, good or bad
          garbled,    \* ghost: a message since the last good put could not be used
          latest      \* LaunchDarkly's changes so far are 1..latest

streamVars == <<connection, told, garbled>>

InitStream == connection = "connecting" /\ told = 0 /\ garbled = FALSE

(* The platform has connected.                                             *)
Open ==
  /\ connection = "connecting"
  /\ connection' = "open" /\ told' = 0
  /\ UNCHANGED <<clientVars, garbled, latest>>

(* errorFilter with an error that is recoverable: the source reconnects.   *)
Recoverable ==
  /\ connection \in {"connecting", "open"}
  /\ connection' = "connecting"
  /\ UNCHANGED <<clientVars, told, garbled, latest>>

(* errorFilter with a status that is not: the source gives up.             *)
Unrecoverable ==
  /\ connection \in {"connecting", "open"}
  /\ connection' = "ended"
  /\ StartFailed
  /\ UNCHANGED <<stopped, pending, stored, lost, told, garbled, latest>>

(* A message whose data is missing or is no JSON.  The connection stays.   *)
Malformed ==
  /\ connection = "open" /\ told < latest
  /\ told' \in {IF told = 0 THEN latest ELSE told + 1}
  /\ garbled' = TRUE
  /\ StartFailed
  /\ UNCHANGED <<stopped, pending, stored, lost, connection, latest>>

PutCallsAtOnce ==  \* mutation: the callback does not wait for the store
  /\ connection = "open" /\ told = 0 /\ Len(pending) < MaxPending
  /\ told' = latest /\ garbled' = FALSE
  /\ CallStore("init", 1..latest)
  /\ StartSucceeded
  /\ UNCHANGED <<stopped, stored, lost, connection, latest>>

Put ==
  /\ connection = "open" /\ told = 0 /\ Len(pending) < MaxPending
  /\ told' = latest /\ garbled' = FALSE
  /\ CallStore("init", 1..latest)
  /\ UNCHANGED <<initState, promise, ready, failed, stopped, stored, lost, connection, latest>>

PatchAfterStart ==  \* mutation: until the client is initialized patches are ignored
  /\ connection = "open" /\ told > 0 /\ told < latest /\ Len(pending) < MaxPending
  /\ told' = told + 1
  /\ IF initState = "Initialized" THEN CallStore("upsert", {told + 1}) ELSE UNCHANGED pending
  /\ UNCHANGED <<initState, promise, ready, failed, stopped, stored, lost, connection, garbled, latest>>

(* A patch or a delete: both are an upsert.                                *)
Patch ==
  /\ connection = "open" /\ told > 0 /\ told < latest /\ Len(pending) < MaxPending
  /\ told' = told + 1
  /\ CallStore("upsert", {told + 1})
  /\ UNCHANGED <<initState, promise, ready, failed, stopped, stored, lost, connection, garbled, latest>>

InitDone ==
  /\ StoreDone("init") /\ StartSucceeded
  /\ UNCHANGED <<connection, told, garbled, latest>>

UpsertDone ==
  /\ StoreDone("upsert")
  /\ UNCHANGED <<initState, promise, ready, failed, connection, told, garbled, latest>>

(* close of the client stops the source.                                   *)
Stop ==
  /\ ~stopped /\ stopped' = TRUE
  /\ connection' = "ended"
  /\ UNCHANGED <<initState, promise, ready, failed, pending, stored, lost, told, garbled, latest>>

NextStream ==
  \/ Open \/ Recoverable \/ Unrecoverable \/ Malformed \/ Put \/ Patch
  \/ InitDone \/ UpsertDone \/ Stop

-----------------------------------------------------------------------------
(* Unless a message could not be used, the store has all that the          *)
(* connection has brought once its calls are done, in spite of             *)
(* reconnections that replace a store with patches under way.  The only    *)
(* changes that can be missing got ahead of an init that was called first. *)
StreamApplied ==
  connection = "open" /\ told > 0 /\ ~garbled /\ pending = <<>> => stored = (1..told) \ lost
=============================================================================
