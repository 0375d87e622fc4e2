-------------------------- MODULE MCEventProcessor --------------------------
(* TLC instance of the event processor: a few of the possible events. *)
EXTENDS EventProcessor

CONSTANTS a, b

Event(kind, c, track, debug) ==
  [kind |-> kind, context |-> c, trackEvents |-> track, debug |-> debug]

(* A counted evaluation and an event of the application in context a; an   *)
(* evaluation with all three outputs and an identification in context b.   *)
SomeInputs == {Event("feature", a, FALSE, FALSE), Event("custom", a, FALSE, FALSE),
               Event("feature", b, TRUE, TRUE), Event("identify", b, FALSE, FALSE)}
=============================================================================
