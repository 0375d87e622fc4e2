--------------------------- MODULE Serialization ---------------------------
(***************************************************************************)
(* shared/sdk-server/src/store/serialization.ts: what is made of a flag or *)
(* a segment when it is received or read from a persistent store, and      *)
(* when it is written there.                                               *)
(*                                                                         *)
(* "" stands for a name or kind that is not given.  A list of keys is a    *)
(* record of the array (list) and of the generated set; one of the two is  *)
(* empty.                                                                  *)
(***************************************************************************)
EXTENDS Contexts

CONSTANTS ArrayCutoff,   \* TARGET_LIST_ARRAY_CUTOFF
          Flag, Segment  \* the keys of flags and of segments

ASSUME SerializationAssumption == ArrayCutoff \in Nat

NoReference == [valid |-> FALSE, components |-> <<>>, redactionName |-> <<"none">>]

NoVariation == -1

-----------------------------------------------------------------------------
(* Flags and segments as they are received; of an object or an array that  *)
(* is compared with, no more than that it is one, and of the variations    *)
(* how many there are, and whether null is one.  An array that had a null  *)
(* when it was parsed has a hole there, which is Undefined.                *)

Strings == Seq(STRING)

Values ==
  [type : {"number"}, of : Int] \cup [type : {"string"}, of : Strings] \cup [type : {"boolean"}, of : BOOLEAN]
    \cup [type : {"object", "array", "null", "undefined"}, of : {{}}]

Clauses ==
  [op : STRING, attribute : Strings, attributeReference : {NoReference}, contextKind : STRING,
   values : SUBSET Values, segments : Seq(Segment), negate : BOOLEAN]

WeightedVariations == [variation : Nat, weight : Nat, untracked : BOOLEAN]

Rollouts ==
  [kind : {"rollout", "experiment"}, bucketBy : Strings, bucketByReference : {NoReference},
   contextKind : STRING, variations : Seq(WeightedVariations)]

IndexOrNone == Nat \cup {NoVariation}

VariationOrRollout == [variation : IndexOrNone, rollout : Seq(Rollouts)]

FlagRules ==
  [clauses : Seq(Clauses), variation : IndexOrNone, rollout : Seq(Rollouts), trackEvents : BOOLEAN]

FlagTargets == [contextKind : STRING, values : SUBSET Strings, variation : Nat]

Flags ==
  [kind : {"flag"}, on : BOOLEAN, prerequisites : Seq([key : Flag, variation : Nat]),
   targets : Seq(FlagTargets), contextTargets : Seq(FlagTargets), rules : Seq(FlagRules),
   fallthrough : VariationOrRollout, offVariation : IndexOrNone, variations : Nat,
   trackEvents : BOOLEAN, trackEventsFallthrough : BOOLEAN, debugEventsUntilDate : BOOLEAN,
   usingEnvironmentId : BOOLEAN, nullVariation : BOOLEAN]

KeyLists == [list : SUBSET Strings, set : {{}}]

SegmentTargets == [contextKind : STRING, values : KeyLists]

SegmentRules ==
  [clauses : Seq(Clauses), weight : IndexOrNone, bucketBy : Strings, bucketByReference : {NoReference},
   contextKind : STRING]

Segments ==
  [kind : {"segment"}, unbounded : BOOLEAN, unboundedContextKind : STRING, generation : BOOLEAN,
   included : KeyLists, excluded : KeyLists, includedContexts : Seq(SegmentTargets),
   excludedContexts : Seq(SegmentTargets), rules : Seq(SegmentRules)]

-----------------------------------------------------------------------------

Each(seq, Op(_)) == [n \in DOMAIN seq |-> Op(seq[n])]

(* The reviver: what is null is taken away.                                *)
ReviveClause(clause) == [clause EXCEPT !.values = {IF v.type = "null" THEN Undefined ELSE v : v \in @}]

Revive(item) ==
  LET rule(r) == [r EXCEPT !.clauses = Each(@, ReviveClause)]
  IN IF item.kind \in {"flag", "segment"} THEN [item EXCEPT !.rules = Each(@, rule)] ELSE item

Attribute(s, contextKind) == IF contextKind = "" THEN LiteralReference(s) ELSE Reference(s)

(* Without bucketBy there is no reference.                                 *)
ProcessRollout(rollout) ==
  IF rollout.bucketBy = <<>> THEN rollout
  ELSE [rollout EXCEPT !.bucketByReference = Attribute(rollout.bucketBy, rollout.contextKind)]

ProcessClause(clause) ==
  [clause EXCEPT !.attributeReference =
     IF clause.attribute = <<>> THEN Reference(<<>>) ELSE Attribute(clause.attribute, clause.contextKind)]

ProcessFlag(flag) ==
  LET rule(r) == [r EXCEPT !.rollout = Each(@, ProcessRollout), !.clauses = Each(@, ProcessClause)]
  IN [flag EXCEPT !.fallthrough.rollout = Each(@, ProcessRollout), !.rules = Each(@, rule)]

Generate(keys) ==
  IF Cardinality(keys.list) > ArrayCutoff THEN [list |-> {}, set |-> keys.list] ELSE keys

ProcessSegment(segment) ==
  LET target(t) == [t EXCEPT !.values = Generate(@)]
      rule(r) == [ProcessRollout(r) EXCEPT !.clauses = Each(@, ProcessClause)]
  IN [segment EXCEPT !.included = Generate(@), !.excluded = Generate(@),
                     !.includedContexts = Each(@, target), !.excludedContexts = Each(@, target),
                     !.rules = Each(@, rule)]

Process(item) ==
  CASE item.kind = "flag" -> ProcessFlag(item) [] item.kind = "segment" -> ProcessSegment(item) [] OTHER -> item

Deserialize(item) == Process(Revive(item))

(* The replacer: references are left out, sets become arrays again.        *)
Degenerate(keys) == IF keys.set # {} THEN [list |-> keys.set, set |-> {}] ELSE keys

ReplaceRollout(rollout) == [rollout EXCEPT !.bucketByReference = NoReference]

ReplaceClause(clause) == [clause EXCEPT !.attributeReference = NoReference]

SerializeSegmentWithoutContexts(segment) ==  \* mutation: the sets of other contexts are written as they are
  LET rule(r) == [ReplaceRollout(r) EXCEPT !.clauses = Each(@, ReplaceClause)]
  IN [segment EXCEPT !.included = Degenerate(@), !.excluded = Degenerate(@),
                     !.includedContexts = Each(@, LAMBDA t : [t EXCEPT !.values.set = {}]),
                     !.rules = Each(@, rule)]

SerializeSegment(segment) ==
  LET target(t) == [t EXCEPT !.values = Degenerate(@)]
      rule(r) == [ReplaceRollout(r) EXCEPT !.clauses = Each(@, ReplaceClause)]
  IN [segment EXCEPT !.included = Degenerate(@), !.excluded = Degenerate(@),
                     !.includedContexts = Each(@, target), !.excludedContexts = Each(@, target),
                     !.rules = Each(@, rule)]

SerializeFlag(flag) ==
  LET rule(r) == [r EXCEPT !.rollout = Each(@, ReplaceRollout), !.clauses = Each(@, ReplaceClause)]
  IN [flag EXCEPT !.fallthrough.rollout = Each(@, ReplaceRollout), !.rules = Each(@, rule)]

(* It reads properties of whatever there is, and throws at null and at     *)
(* holes in arrays.                                                        *)
HasNull(item) ==
  \/ item.kind = "flag" /\ item.nullVariation
  \/ /\ item.kind \in {"flag", "segment"}
     /\ \E r \in ToSet(item.rules) : \E clause \in ToSet(r.clauses) :
          \E v \in clause.values : v.type \in {"null", "undefined"}

Throws == [kind |-> "TypeError"]

Serialize(item) ==
  IF HasNull(item) THEN Throws
  ELSE CASE item.kind = "flag" -> SerializeFlag(item) [] item.kind = "segment" -> SerializeSegment(item) [] OTHER -> item
=============================================================================
