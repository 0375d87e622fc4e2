-------------------------- MODULE PollingProcessor --------------------------
(***************************************************************************)
(* shared/sdk-server/src/data_sources/PollingProcessor.ts with its         *)
(* Requestor: poll, wait for the answer, hand the data to the store, sleep *)
(* and poll again.                                                         *)
(***************************************************************************)
EXTENDS LDClient

CONSTANT MalformedHasETag   \* a body that is no JSON can come with an ETag

VARIABLES requests,   \* requests that are not answered
          timers,     \* timers of the next poll
          etag,       \* eTagCache: the data that the last tag stands for, 0 if there is none
          refused,    \* ghost: an answer was unrecoverable
          latest      \* LaunchDarkly's changes so far are 1..latest

pollVars == <<requests, timers, etag, refused>>

Poll == requests' = requests + IF stopped THEN 0 ELSE 1

InitPoll == requests = 1 /\ timers = 0 /\ etag = 0 /\ refused = FALSE

(* An answer with data; its ETag, if it has one, is remembered.            *)
DataAndTimer ==  \* mutation: falls through to the timer
  /\ requests > 0 /\ requests' = requests - 1
  /\ etag' \in {etag, latest}
  /\ CallStore("init", 1..latest)
  /\ timers' = timers + 1
  /\ UNCHANGED <<initState, promise, ready, failed, stopped, stored, lost, refused, latest>>

ReplyData ==
  /\ requests > 0 /\ requests' = requests - 1
  /\ etag' \in {etag, latest}
  /\ CallStore("init", 1..latest)
  /\ UNCHANGED <<initState, promise, ready, failed, stopped, stored, lost, timers, refused, latest>>

NotModifiedEnds ==  \* mutation: without a body there is no next poll
  /\ requests > 0 /\ requests' = requests - 1
  /\ etag = latest
  /\ UNCHANGED <<clientVars, timers, etag, refused, latest>>

(* 304: nothing is given to the store, and the client is not called.       *)
ReplyNotModified ==
  /\ requests > 0 /\ requests' = requests - 1
  /\ etag = latest
  /\ timers' = timers + 1
  /\ UNCHANGED <<clientVars, etag, refused, latest>>

(* A body that is no JSON is reported and polled again; if it had an ETag, *)
(* the requestor remembers it all the same.                                *)
ReplyMalformed ==
  /\ requests > 0 /\ requests' = requests - 1
  /\ etag' \in {etag} \cup IF MalformedHasETag THEN {latest} ELSE {}
  /\ StartFailed
  /\ timers' = timers + 1
  /\ UNCHANGED <<stopped, pending, stored, lost, refused, latest>>

(* A recoverable status, or no answer.                                     *)
ReplyFailed ==
  /\ requests > 0 /\ requests' = requests - 1
  /\ timers' = timers + 1
  /\ UNCHANGED <<clientVars, etag, refused, latest>>

(* An unrecoverable status ends the polling.                               *)
ReplyRefused ==
  /\ requests > 0 /\ requests' = requests - 1
  /\ refused' = TRUE
  /\ StartFailed
  /\ UNCHANGED <<stopped, pending, stored, lost, timers, etag, latest>>

(* The store is done with the data: the client is called, and the next     *)
(* poll is set up.                                                         *)
PollInitDone ==
  /\ StoreDone("init") /\ StartSucceeded
  /\ timers' = timers + 1
  /\ UNCHANGED <<requests, etag, refused, latest>>

Timer ==
  /\ timers > 0 /\ timers' = timers - 1
  /\ Poll
  /\ UNCHANGED <<clientVars, etag, refused, latest>>

(* close of the client stops the processor: the timer is cleared.          *)
StopPolling ==
  /\ ~stopped /\ stopped' = TRUE
  /\ timers' = IF timers > 0 THEN timers - 1 ELSE 0
  /\ UNCHANGED <<initState, promise, ready, failed, pending, stored, lost, requests, etag, refused, latest>>

Reply == ReplyData \/ ReplyNotModified \/ ReplyMalformed \/ ReplyFailed \/ ReplyRefused

GoodReply == ReplyData \/ ReplyNotModified

NextPoll == Reply \/ PollInitDone \/ Timer \/ StopPolling

-----------------------------------------------------------------------------
(* There is one chain of request, store and timer; it breaks off only at   *)
(* an unrecoverable answer or after the stop.                              *)
OnePollChain ==
  LET links == requests + Len(pending) + timers IN
  /\ links <= 1
  /\ links = 0 => refused \/ stopped

(* If the service answers properly time and again, the client becomes      *)
(* ready and the store gets the latest data and keeps it.                  *)
PollingCatchesUp ==
  <>[](initState = "Initialized" /\ stored = 1..latest) \/ <>(refused \/ stopped)
=============================================================================
