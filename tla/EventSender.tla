---------------------------- MODULE EventSender ----------------------------
(***************************************************************************)
(* shared/sdk-server/src/events/EventSender.ts: posts to LaunchDarkly, each *)
(* tried at most twice.  The sender has no state of its own; posts is the  *)
(* sequence of its calls, with the request that each is waiting for.       *)
(***************************************************************************)
EXTENDS Naturals, Sequences

CONSTANT Data   \* what can be posted

VARIABLE posts

PostType == {"AnalyticsEvents", "DiagnosticEvent"}
Status == {"Succeeded", "Failed", "FailedAndMustShutDown"}
NoId == 0

Posts ==
  [type : PostType, data : Data,
   payloadId : Nat,                        \* NoId: the header is not sent
   uri : {"bulk", "diagnostic"},
   canRetry : BOOLEAN,
   stage : {"sent", "waiting"} \cup Status,  \* a request, the second's pause, or the result
   received : SUBSET Nat]                  \* the payload ids under which LaunchDarkly got the data

Settled(n) == posts[n].stage \in Status

(* crypto.randomUUID(): an id that no post has.                            *)
FreshId == Len(posts) + 1

SendEventData(type, data) ==
  posts' = Append(posts,
    [type |-> type, data |-> data,
     payloadId |-> IF type = "AnalyticsEvents" THEN FreshId ELSE NoId,
     uri |-> IF type = "AnalyticsEvents" THEN "bulk" ELSE "diagnostic",
     canRetry |-> TRUE, stage |-> "sent", received |-> {}])

Received(n) == posts[n].received \cup {posts[n].payloadId}

(* The reply to a request: a status up to 204, an unrecoverable status, or *)
(* neither: a recoverable status, or an exception, after which nobody      *)
(* knows whether LaunchDarkly got the data.                                *)
Accepted(n) ==
  /\ posts[n].stage = "sent"
  /\ posts' = [posts EXCEPT ![n].stage = "Succeeded", ![n].received = Received(n)]

Refused(n) ==
  /\ posts[n].stage = "sent"
  /\ posts' = [posts EXCEPT ![n].stage = "FailedAndMustShutDown"]

TriedInVain(n) ==
  /\ posts[n].stage = "sent"
  /\ \E got \in {posts[n].received, Received(n)} :
       posts' = [posts EXCEPT ![n].stage = IF posts[n].canRetry THEN "waiting" ELSE "Failed",
                              ![n].received = got]

(* A second later the same data is sent again, under the same id but       *)
(* always to eventsUri.                                                    *)
Retry(n) ==
  /\ posts[n].stage = "waiting"
  /\ posts' = [posts EXCEPT ![n].stage = "sent", ![n].canRetry = FALSE, ![n].uri = "bulk"]

-----------------------------------------------------------------------------
(* LaunchDarkly can tell a second delivery from new data: whatever reached *)
(* it more than once reached it under one payload id, and no two posts     *)
(* share an id (the sender sends a failed post again although the first    *)
(* request may have got through).                                          *)
DuplicatesAreMarked ==
  \A m, n \in DOMAIN posts :
    posts[m].type = "AnalyticsEvents" =>
      /\ \A i, j \in posts[m].received : i = j
      /\ m # n => posts[m].received \cap posts[n].received = {}
=============================================================================
