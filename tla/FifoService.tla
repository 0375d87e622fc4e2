---------------------------- MODULE FifoService ----------------------------
(***************************************************************************)
(* What a caller of UpdateQueue.enqueue(updateFn, cb) may rely on, stated  *)
(* with no queue, no event loop and no timer: requests are accepted at any *)
(* time, and they are answered one by one, in the order of acceptance, and *)
(* all of them are.                                                        *)
(***************************************************************************)
EXTENDS Naturals, Sequences

CONSTANT Job            \* the requests, each made at most once

VARIABLES accepted,     \* the requests, in the order in which they were made
          answered      \* those whose callback was called, in that order

vars == <<accepted, answered>>

Init == accepted = <<>> /\ answered = <<>>

Accept(j) ==
  /\ \A i \in DOMAIN accepted : accepted[i] # j
  /\ accepted' = Append(accepted, j)
  /\ UNCHANGED answered

(* The only request that can be answered is the oldest unanswered one. *)
Answer ==
  /\ Len(answered) < Len(accepted)
  /\ answered' = Append(answered, accepted[Len(answered) + 1])
  /\ UNCHANGED accepted

Next == (\E j \in Job : Accept(j)) \/ Answer

SafeSpec == Init /\ [][Next]_vars

Spec == SafeSpec /\ WF_vars(Answer)
=============================================================================
