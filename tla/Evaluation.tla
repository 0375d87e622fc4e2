----------------------------- MODULE Evaluation -----------------------------
(***************************************************************************)
(* A client whose data changes item by item, and an application that asks  *)
(* for every flag after every change: the Evaluator over the data, next to *)
(* the dependency tracker that decides which listeners are told, the       *)
(* format of persistent stores, the contexts of events, and the flags that *)
(* an application builds for its tests.                                    *)
(***************************************************************************)
EXTENDS Calls, Configuration, DependencyWalk, SortDataSet, TestData

CONSTANTS Payload,         \* [Item -> set of items as they are received, and NoItem]
          LDContexts,      \* what the application passes to variation
          Identified,      \* what it passes to identify
          ClientOptions    \* what it configures its client with

ASSUME ItemAssumption ==
  /\ Item = Flag \cup Segment /\ Flag \cap Segment = {} /\ IsFiniteSet(Item)
  /\ \A i \in Item : Payload[i] \subseteq {NoItem} \cup IF i \in Flag THEN Flags ELSE Segments

VARIABLES items,     \* the feature store
          tracker,
          answers,   \* of the Evaluator, for each context and flag
          identified,  \* the context last identified, and the options of the client
          filtered     \* what the event of identify has of it, for each kind

evaluationVars == <<items, tracker, answers, identified, filtered>>
vars == <<evaluationVars, testVars>>

NoOne == [context |-> InvalidContext, options |-> <<>>]

Asked == {FromLDContext(c) : c \in LDContexts}

(* BigSegmentsManager can be asked for every context that is asked for,    *)
(* and says for a segment whether the context is in it.                    *)
ASSUME BigSegmentsAssumption ==
  /\ \A c \in Asked : \A kind \in Kinds(c) : KeyOf(c, kind) # <<>> => KeyOf(c, kind) \in DOMAIN GetBigSegments
  /\ \A key \in DOMAIN GetBigSegments :
       LET big == GetBigSegments[key] IN
       big.status \in DOMAIN StatusPriority /\ \A s \in DOMAIN big.membership : big.membership[s] \in BOOLEAN

(* Keys are strings.  Kinds have an order, and are not the colon that      *)
(* their regular expression leaves out.                                    *)
ASSUME IdentifiedAssumption ==
  /\ KindOrder \in [DOMAIN KindOrder -> Nat] /\ IsFiniteSet(DOMAIN KindOrder) /\ ":" \notin DOMAIN KindOrder
  /\ \A j, k \in DOMAIN KindOrder : KindOrder[j] = KindOrder[k] => j = k
  /\ \A c \in Identified :
       LET context == FromLDContext(c) IN
       context.valid =>
         /\ Kinds(context) \subseteq DOMAIN KindOrder
         /\ \A kind \in Kinds(context) : KeyOf(context, kind) \in Seq(STRING)

(* The bound is no bound on calls that are in each other for as long as    *)
(* none repeats itself.                                                    *)
ASSUME DepthAssumption == MaxDepth \in Nat /\ MaxDepth > Cardinality(Item)

(* The bound on objects in objects is none, and what a legacy user has for *)
(* the attributes that are strings, be it a custom one, is a string.       *)
ASSUME AttributesAssumption ==
  /\ MaxNesting \in Nat
  /\ \A c \in Identified :
       LET context == FromLDContext(c) IN
       context.valid =>
         \A kind \in Kinds(context) :
           LET f == context.contexts[kind] IN
           /\ \A o \in Objects(f) : Len(o[1]) < MaxNesting \/ \A name \in DOMAIN o[2] : o[2][name].type # "object"
           /\ context.legacy => \A name \in LegacyNames \cap DOMAIN f : f[name] = Str(f[name].of)

(* What contexts have for the attributes of rules has a type.              *)
ASSUME ConditionsAssumption ==
  \A c \in Asked : c.valid =>
    \A conditions \in Conditions : \A m \in ToSet(conditions) :
      LET v == ValueForKind(c, Reference(m.attribute), m.kind) IN
      IsValue(v) /\ (v.type = "array" => \A a \in v.of : IsValue(a))

AnswersOf(data) ==
  [c \in Asked |-> [f \in Flag |-> IF data[f] = NoItem THEN Evaluated(ForError("FLAG_NOT_FOUND"), EvalState)
                                   ELSE Evaluate(data, c, f)]]

Init ==
  /\ items = [i \in Item |-> NoItem] /\ tracker = EmptyTracker
  /\ answers = AnswersOf(items)
  /\ identified = NoOne /\ filtered = <<>>
  /\ TestDataInit

(* Bounds: contexts are identified, and flags are built, by an application *)
(* that has no items from elsewhere.                                       *)
NoItems == \A i \in Item : items[i] = NoItem
NoTests ==
  builder = NoBuilder /\ (\A i \in TestItem : current[i] = NoItem) /\ \A c \in Client : clientStore[c] = NoClient

Receive(i, item) ==
  /\ identified = NoOne /\ NoTests
  /\ items' = [items EXCEPT ![i] = Process(item)]
  /\ items' # items
  /\ tracker' = UpdateDependenciesFrom(tracker, i, ComputeDependencies(item))
  /\ answers' = AnswersOf(items')
  /\ UNCHANGED <<identified, filtered, testVars>>

Patch(i) == \E item \in Payload[i] \ {NoItem} : Receive(i, Revive(item))

(* A deleted item stays in the store as one that get does not show.        *)
Delete(i) == NoItem \in Payload[i] /\ Receive(i, NoItem)

(* identify: the event has what the filter leaves.  An invalid context     *)
(* makes none, and a client can be configured to send none.                *)
Identify(c, options) ==
  LET config == Configuration(options) IN
  /\ FromLDContext(c).valid /\ SendsEvents(config)
  /\ identified' = [context |-> FromLDContext(c), options |-> options]
  /\ filtered' = Filter(FromLDContext(c), ContextFilter(config))
  /\ UNCHANGED <<items, tracker, answers, testVars>>

Next ==
  \/ \E i \in Item : Patch(i) \/ Delete(i)
  \/ NoItems /\ NoTests /\ \E c \in Identified, options \in ClientOptions : Identify(c, options)
  \/ NoItems /\ identified = NoOne /\ TestDataNext /\ UNCHANGED evaluationVars

Spec == Init /\ [][Next]_vars

-----------------------------------------------------------------------------
Present == {i \in Item : items[i] # NoItem}

(* Whoever listens for changes misses none: if the answer for a flag is    *)
(* another one after a change of an item, the flag is among those that are *)
(* marked, by the walk and, alike, by the sets of DependencyTracker.       *)
EvaluationChangesAreMarked ==
  [][\A i \in Item :
       items'[i] # items[i] =>
         LET marked == UpdateModifiedItems(tracker', {}, i) IN
         /\ marked = ModifiedItems(tracker', {i})
         /\ \A c \in Asked, f \in Flag :
              answers'[c][f].res # answers[c][f].res => f \in marked]_vars

(* References through which a cycle of segments goes on without an end.    *)
Refers(i, j) == j \in ComputeDependencies(items[i])

Reaches(i, j) == j \in ModifiedItems([from |-> tracker.to, to |-> tracker.from], tracker.from[i])

BigCycle(i) == i \in Segment /\ items[i] # NoItem /\ items[i].unbounded /\ Reaches(i, i)

(* "CONSIDERATION: circular references": every evaluation ends, unless it  *)
(* can come to a big segment that refers to itself.                        *)
EvaluationEnds ==
  \A c \in Asked, f \in Flag :
    Endless(answers[c][f].st) => \E i \in Segment : Reaches(f, i) /\ BigCycle(i)

(* References through which circular ones are come to.                     *)
ReachesCycle(f) == \E g \in Flag : Reaches(f, g) /\ Reaches(g, g)

(* A flag is served by its targets, rules or fallthrough only if each of   *)
(* its prerequisites is on and, asked for by itself, has the variation     *)
(* that is required.  What a flag is whose prerequisites are circular      *)
(* depends on the flag with which the evaluation begins.                   *)
PrerequisitesHold ==
  \A c \in Asked, f \in Flag :
    answers[c][f].res.kind \in {"TARGET_MATCH", "RULE_MATCH", "FALLTHROUGH"}
      /\ ~Endless(answers[c][f].st) =>
      \A p \in ToSet(items[f].prerequisites) :
        /\ items[p.key] # NoItem /\ items[p.key].on
        /\ answers[c][p.key].res.variation = p.variation \/ ReachesCycle(p.key)

(* A persistent store gets each item once, and none before what it refers  *)
(* to: segments before flags, prerequisites before the flags they are for, *)
(* unless they refer back.                                                 *)
SortedForTheStore ==
  LET prerequisites == [f \in Flag |-> IF f \in Present
                          THEN Each(items[f].prerequisites, LAMBDA p : p.key) ELSE <<>>]
      first == {p \in Present \X (Present \cap Flag) : Refers(p[2], p[1]) /\ ~Reaches(p[1], p[2])}
  IN \A flags \in SetToAllKPermutations(Present \cap Flag) :
       ToSet(flags) = Present \cap Flag =>
       LET sorted == SortData(SetToSeq(Present \cap Segment), flags, prerequisites)
           at(i) == SelectInSeq(sorted, LAMBDA j : j = i)
       IN /\ ToSet(sorted) = Present /\ Len(sorted) = Cardinality(Present)
          /\ \A p \in first : at(p[1]) < at(p[2])

(* An item read back from a persistent store is the item written: nothing  *)
(* that evaluation uses depends on which of the two it gets.  An item that *)
(* came with a null in an array is not written at all.                     *)
StoredAsReceived ==
  \A i \in Item : IF HasNull(items[i]) THEN Serialize(items[i]) = Throws
                  ELSE Deserialize(Serialize(items[i])) = items[i]

Options == [detailsOnlyForTrackedFlags : BOOLEAN, withReasons : BOOLEAN, clientSideOnly : {FALSE}]

(* What a client is told of a flag lets it send the event that the server  *)
(* would, and answer as variationDetail does.                              *)
Supports(flags, f, event, detailed, options) ==
  /\ f \in DOMAIN flags
  /\ flags[f].variation = event.variation /\ flags[f].trackEvents = event.trackEvents
  /\ event.reason # "none" => flags[f].reason = event.reason /\ flags[f].trackReason
  /\ event.trackEvents \/ event.debug => flags[f].versioned
  /\ options.withReasons /\ flags[f].versioned => flags[f].reason = detailed.reason

(* A client that starts from allFlagsState sends the events that the       *)
(* server would: the same variation, tracked if the server tracks it, with *)
(* the reason the server gives, and with a version if there is an event;   *)
(* and with reasons it can answer as variationDetail does.                 *)
FlagsStateSupportsEvents ==
  \A c \in Asked, f \in Present \cap Flag, options \in Options :
    LET config == [offline |-> FALSE, initialized |-> TRUE, storeInitialized |-> TRUE]
    IN c.valid => Supports(AllFlagsState(items, c, options, config).flags, f,
                           Last(Variation(items, c, f, config).events),
                           Last(VariationDetail(items, c, f, config).events), options)

-----------------------------------------------------------------------------
(* What is in a context that is not an object, with the path to it.        *)
Leaves(f) ==
  UNION {{<<Append(o[1], name), o[2][name]>> : name \in {n \in DOMAIN o[2] : o[2][n].type # "object"}} : o \in Objects(f)}

Option(name) == Property(identified.options, name)

(* A list that has anything but strings in it names nothing.               *)
ListedPrivate ==
  LET listed == Option("privateAttributes") IN
  IF listed.type = "array" /\ \A entry \in listed.of : entry.type = "string"
  THEN {Reference(entry.of) : entry \in listed.of} ELSE {}

PrivateOf(kind) ==
  {r \in ListedPrivate \cup identified.context.private[kind] : r.components \notin ProtectedAttributes}

(* It is a reference to what is there, or to what that is in.              *)
RefersTo(r, path) == \E n \in 1..Len(path) : r.components = SubSeq(path, 1, n)

IsPrivate(kind, path) ==
  IF Truthy(Option("allAttributesPrivate")) THEN <<path[1]>> \notin ProtectedAttributes
  ELSE \E r \in PrivateOf(kind) : RefersTo(r, path)

(* The event of identify has of the context everything that is not         *)
(* private, and nothing that is: neither by the options of the client, nor *)
(* by _meta.privateAttributes of its kind, at whatever depth.  And every   *)
(* private attribute that was there is named, by a reference to it or to   *)
(* what it was in.                                                         *)
PrivateStaysPrivate ==
  identified # NoOne =>
  \A kind \in Kinds(identified.context) :
    LET has(f) == {l \in Leaves(f) : l[1][1] # <<"_meta">>}
        whole == has(identified.context.contexts[kind])
        redacted == InMeta(filtered[kind], <<"redactedAttributes">>)
        named == IF redacted.type = "array" THEN redacted.of ELSE {}
    IN /\ has(filtered[kind]) = {l \in whole : ~IsPrivate(kind, l[1])}
       /\ \A l \in whole : IsPrivate(kind, l[1]) =>
            \E r \in PrivateOf(kind) \cup {LiteralReference(l[1][1])} : RefersTo(r, l[1]) /\ r.redactionName \in named

(* Contexts with the same canonical key, by which they are deduplicated,   *)
(* have the same kinds and keys, except for users that have the key that   *)
(* another context is given.                                               *)
CanonicalKeysDistinct ==
  identified # NoOne =>
  \A c \in Identified :
    LET other == FromLDContext(c) IN
    /\ other.valid /\ CanonicalKey(other) = CanonicalKey(identified.context)
    /\ {"user"} \notin {Kinds(other), Kinds(identified.context)}
    => KindsAndKeys(other) = KindsAndKeys(identified.context)

(* The flags that applications build for their tests; see TestData.        *)
TestFlagsAreAsTold == BuiltAsTold({c \in Asked : c.valid})
TestClientsHaveUpdates == ClientsHaveUpdates({c \in Asked : c.valid})
=============================================================================
