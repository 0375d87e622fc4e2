------------------------------ MODULE TestData -------------------------------
(***************************************************************************)
(* shared/sdk-server/src/integrations/test_data: the flags that an         *)
(* application builds for its tests, and the clients that get them.        *)
(*                                                                         *)
(* There is one flag and one segment, and the application holds one        *)
(* TestDataFlagBuilder at a time.  A flag that was built has its lists of  *)
(* keys in common with the builder, so lists are numbered and what they    *)
(* have is kept apart, in lists.  Rules are made in one go, up to          *)
(* thenReturn.  told is history: the last variationForContext of each      *)
(* target.                                                                 *)
(***************************************************************************)
EXTENDS Evaluator

CONSTANTS TestFlag, TestSegment,   \* their keys
          Client,                  \* clients made with getFactory
          TargetKey,               \* <<kind, key>> of contexts that are targets
          Conditions,              \* sequences of [kind, attribute, values, negate], of rules
          Preconfigured,           \* [key -> items that the application brings]
          MaxVersion, MaxBuilderCalls, MaxTargetCalls, MaxLists   \* bounds: updates, calls of builders, lists there ever were

VARIABLES
  builder,      \* or NoBuilder
  builderCalls,
  lists,        \* what each list of keys has
  flagBuilder,  \* flagBuilders[TestFlag]: a clone, with the keys in place of the lists
  current,      \* currentFlags and currentSegments
  dataSources,
  clientStore,  \* feature stores in memory, or NoClient
  namedSince,        \* history: the targets that were named since the last update
  updated       \* history: the data of the last update, as it was

(* Kinds are not empty; a rule has a condition, and its values have types. *)
ASSUME TestDataAssumption ==
  /\ TestFlag # TestSegment
  /\ \A k \in TargetKey : k \in STRING \X Seq(STRING) /\ k[1] # ""
  /\ \A conditions \in Conditions :
       /\ conditions \in Seq(ToSet(conditions)) /\ conditions # <<>>
       /\ \A m \in ToSet(conditions) : m.kind # "" /\ m.negate \in BOOLEAN /\ \A v \in m.values : IsValue(v)

testVars == <<builder, builderCalls, lists, flagBuilder, current, dataSources, clientStore, namedSince, updated>>

NoBuilder == [on |-> FALSE, values |-> <<>>]
NoClient == [i \in {} |-> NoItem]
TestItem == {TestFlag, TestSegment}
NoTargets == [k \in TargetKey |-> NoVariation]

TestDataInit ==
  /\ builder = NoBuilder /\ builderCalls = 0 /\ lists = <<>> /\ flagBuilder = NoBuilder
  /\ current = [i \in TestItem |-> NoItem] /\ dataSources = <<>> /\ clientStore = [c \in Client |-> NoClient]
  /\ namedSince = {} /\ updated = current

-----------------------------------------------------------------------------
(* TestDataFlagBuilder.  A variation is given by its index or as a         *)
(* boolean.                                                                *)

VariationForBoolean == <<TRUE, FALSE>>   \* the values of a boolean flag; their indexes are 0 and 1

Index(n) == [boolean |-> FALSE, index |-> n]
ForTrue == [boolean |-> TRUE, index |-> 0]
ForFalse == [boolean |-> TRUE, index |-> 1]

SetVariations(b, values) == [b EXCEPT !.values = values]

BooleanFlag(b) ==
  IF b.values = VariationForBoolean THEN b
  ELSE [SetVariations(b, VariationForBoolean) EXCEPT !.fallthrough = 0, !.off = 1]

For(b, v) == IF v.boolean THEN BooleanFlag(b) ELSE b

NewBuilder == BooleanFlag([on |-> TRUE, values |-> <<>>, off |-> 0, fallthrough |-> 0, targets |-> <<>>, rules |-> <<>>,
                            told |-> NoTargets])

TargetingOn(b, on) == [b EXCEPT !.on = on]
FallthroughVariation(b, v) == [For(b, v) EXCEPT !.fallthrough = v.index]
OffVariation(b, v) == [For(b, v) EXCEPT !.off = v.index]
ClearRules(b) == [b EXCEPT !.rules = <<>>]
ClearAllTargets(b) == [b EXCEPT !.targets = <<>>, !.told = NoTargets]
VariationForAll(b, v) == FallthroughVariation(ClearAllTargets(ClearRules(TargetingOn(b, TRUE))), v)
ValueForAll(b, value) == VariationForAll(SetVariations(b, <<value>>), Index(0))

OnlyAdds(b, heap, kind, key, v) ==  \* mutation: the key stays with the variations it had
  LET at == <<v.index, kind>> IN
  IF at \in DOMAIN b.targets THEN [b |-> b, heap |-> [heap EXCEPT ![b.targets[at]] = @ \cup {key}]]
  ELSE [b |-> [For(b, v) EXCEPT !.targets = (at :> Len(heap) + 1) @@ @], heap |-> Append(heap, {key})]

(* The key goes to the list of its variation, and leaves those of the      *)
(* other variations that there are; an empty list goes with it.            *)
NameFor(b0, heap, kind, key, v) ==
  LET b == For(b0, v)
      at == <<v.index, kind>>
      isNew == at \notin DOMAIN b.targets
      leaves == {t \in DOMAIN b.targets : t[2] = kind /\ t[1] \in 0..Len(b.values) - 1 /\ t # at /\ key \in heap[b.targets[t]]}
      empty == {t \in leaves : heap[b.targets[t]] = {key}}
      left == [n \in DOMAIN heap |-> IF n \in {b.targets[t] : t \in leaves} THEN heap[n] \ {key} ELSE heap[n]]
      targets == [t \in (DOMAIN b.targets \ empty) \cup {at} |-> IF isNew /\ t = at THEN Len(heap) + 1 ELSE b.targets[t]]
  IN [b |-> [b EXCEPT !.targets = targets],
      heap |-> IF isNew THEN Append(left, {key}) ELSE [left EXCEPT ![b.targets[at]] = @ \cup {key}]]

(* TestDataRuleBuilder: clauses, each with in or not in, and a variation.  *)
MatchOrNot(m) ==
  [op |-> "in", attribute |-> m.attribute, attributeReference |-> Reference(m.attribute), contextKind |-> m.kind,
   values |-> m.values, segments |-> <<>>, negate |-> m.negate]

ThenReturn(b, clauses, v) ==
  [For(b, v) EXCEPT !.rules = Append(@, [clauses |-> clauses, variation |-> v.index, rollout |-> <<>>, trackEvents |-> FALSE])]

(* The properties of an object are listed by their number.                 *)
ByVariation(targets) ==
  CHOOSE s \in [1..Cardinality(targets) -> targets] :
    \A m, n \in DOMAIN s : m < n => s[m] # s[n] /\ s[m][1] <= s[n][1]

(* The flag: users have targets of their own, which their context targets  *)
(* stand for.  The lists are those of the builder.                         *)
Build(b) ==
  LET users == {t \in DOMAIN b.targets : t[2] = "user"}
      target(t) == [contextKind |-> t[2], list |-> IF t \in users THEN 0 ELSE b.targets[t], variation |-> t[1]]
      userTarget(t) == [contextKind |-> "", list |-> b.targets[t], variation |-> t[1]]
  IN [kind |-> "flag", on |-> b.on, prerequisites |-> <<>>, rules |-> b.rules,
      targets |-> Each(ByVariation(users), userTarget), contextTargets |-> Each(ByVariation(DOMAIN b.targets), target),
      fallthrough |-> [variation |-> b.fallthrough, rollout |-> <<>>], offVariation |-> b.off,
      variations |-> Len(b.values), trackEvents |-> FALSE, trackEventsFallthrough |-> FALSE,
      debugEventsUntilDate |-> FALSE, usingEnvironmentId |-> FALSE, nullVariation |-> FALSE]

(* What a flag that was built is, with what the lists have now.            *)
Read(flag, heap) ==
  LET values(t) == [contextKind |-> t.contextKind, variation |-> t.variation,
                    values |-> IF t.list = 0 THEN {} ELSE heap[t.list]]
  IN [flag EXCEPT !.targets = Each(@, values), !.contextTargets = Each(@, values)]

ReadData(data, heap) ==
  [i \in TestItem |-> IF data[i] = NoItem THEN NoItem
                      ELSE IF data[i].built THEN Read(data[i].item, heap) ELSE data[i].item]

(* Clones have lists of their own.                                         *)
Clone(b, heap) == [b EXCEPT !.targets = [t \in DOMAIN b.targets |-> heap[b.targets[t]]]]

WithLists(clone, heap) ==
  LET ts == SetToSeq(DOMAIN clone.targets) IN
  [b |-> [clone EXCEPT !.targets = [t \in DOMAIN clone.targets |-> Len(heap) + SelectInSeq(ts, LAMBDA u : u = t)]],
   heap |-> heap \o Each(ts, LAMBDA t : clone.targets[t])]

-----------------------------------------------------------------------------
(* flag(key).                                                              *)
GetFlag ==
  LET new == IF flagBuilder = NoBuilder THEN [b |-> NewBuilder, heap |-> lists] ELSE WithLists(flagBuilder, lists) IN
  /\ builder = NoBuilder \/ namedSince = {}  \* bound
  /\ builder' = new.b /\ lists' = new.heap /\ Len(new.heap) <= MaxLists
  /\ UNCHANGED <<builderCalls, flagBuilder, current, dataSources, clientStore, namedSince, updated>>

(* Bounds: there can be more calls for a flag that is not used yet, if     *)
(* they are about the variations it has and contexts it has named.         *)
CallsBuilder(further) ==
  /\ builder # NoBuilder
  /\ builderCalls < IF further /\ flagBuilder = NoBuilder THEN MaxTargetCalls ELSE MaxBuilderCalls
  /\ builderCalls' = builderCalls + 1

IsUsed == builderCalls <= MaxBuilderCalls  \* bound

(* Bound: once there are clients, only targets change.                     *)
Changes(b) ==
  /\ \A c \in Client : clientStore[c] = NoClient
  /\ CallsBuilder(b.values # builder.values) /\ builder' = b
  /\ UNCHANGED <<lists, flagBuilder, current, dataSources, clientStore, namedSince, updated>>

(* The variations that the flag has, or has then.                          *)
Choice(b) == {ForTrue, ForFalse} \cup {Index(n) : n \in 0..Len(b.values) - 1}

ChangeFlag ==
  \/ Changes(BooleanFlag(builder))
  \/ Changes(SetVariations(builder, <<1, 2, 3>>))
  \/ \E on \in BOOLEAN : Changes(TargetingOn(builder, on))
  \/ \E v \in Choice(builder) : Changes(FallthroughVariation(builder, v)) \/ Changes(OffVariation(builder, v))
  \/ \E v \in Choice(builder) : Changes(VariationForAll(builder, v))
  \/ Changes(ValueForAll(builder, 1))
  \/ Changes(ClearRules(builder)) \/ Changes(ClearAllTargets(builder))

AddRule ==
  \E conditions \in Conditions, v \in Choice(builder) :
    Changes(ThenReturn(builder, Each(conditions, MatchOrNot), v))

ForContext ==
  \E k \in TargetKey, v \in Choice(builder) :
    LET new == NameFor(builder, lists, k[1], k[2], v) IN
    /\ CallsBuilder(k \in namedSince) /\ builder' = [new.b EXCEPT !.told[k] = v.index]
    /\ lists' = new.heap /\ Len(new.heap) <= MaxLists
    /\ namedSince' = namedSince \cup {k}
    /\ UNCHANGED <<flagBuilder, current, dataSources, clientStore, updated>>

-----------------------------------------------------------------------------
(* TestData and TestDataSource.                                            *)

Version(i) == IF current[i] = NoItem THEN 0 ELSE current[i].version

(* Every data source upserts the item; a store takes it if it is newer.    *)
Propagate(i, entry) ==
  /\ entry.version <= MaxVersion[i] /\ IsUsed
  /\ current' = [current EXCEPT ![i] = entry]
  /\ clientStore' = [c \in Client |->
       IF c \in ToSet(dataSources) /\ (clientStore[c][i] = NoItem \/ clientStore[c][i].version < entry.version)
       THEN [clientStore[c] EXCEPT ![i] = entry] ELSE clientStore[c]]
  /\ updated' = ReadData(current', lists) /\ namedSince' = {}
  /\ UNCHANGED <<lists, dataSources>>

UpdateAsFirst ==  \* mutation: the version does not grow
  /\ builder # NoBuilder
  /\ Propagate(TestFlag, [version |-> 1, built |-> TRUE, item |-> Build(builder)])
  /\ flagBuilder' = Clone(builder, lists)
  /\ UNCHANGED <<builder, builderCalls>>

Update ==
  /\ builder # NoBuilder
  /\ Propagate(TestFlag, [version |-> Version(TestFlag) + 1, built |-> TRUE, item |-> Build(builder)])
  /\ flagBuilder' = Clone(builder, lists)
  /\ UNCHANGED <<builder, builderCalls>>

Preconfigure(i, config) ==
  /\ Propagate(i, [version |-> Version(i) + 1, built |-> FALSE, item |-> Process(config)])
  /\ UNCHANGED <<builder, builderCalls, flagBuilder>>

(* Bound: before there are builders.                                       *)
UsePreconfiguredFlag ==
  builder = NoBuilder /\ \E config \in Preconfigured[TestFlag] : Preconfigure(TestFlag, config)
UsePreconfiguredSegment ==
  builder = NoBuilder /\ \E config \in Preconfigured[TestSegment] : Preconfigure(TestSegment, config)

(* TestDataSource.start: the store gets the data that there is.            *)
Start(c) == clientStore' = [clientStore EXCEPT ![c] = current]

(* A client is made: its data source is known from then on, and starts.    *)
StartClient(c) ==
  /\ clientStore[c] = NoClient /\ IsUsed
  /\ dataSources' = Append(dataSources, c)
  /\ Start(c)
  /\ UNCHANGED <<builder, builderCalls, lists, flagBuilder, current, namedSince, updated>>

(* splice with one argument takes out everything from the data source on,  *)
(* and the last one if the data source is not there.                       *)
OnStop(c) ==
  LET n == SelectInSeq(dataSources, LAMBDA d : d = c)
  IN dataSources' = SubSeq(dataSources, 1, (IF n = 0 THEN Len(dataSources) ELSE n) - 1)

(* A client is closed, and with it its data source.                        *)
StopClient(c) ==
  /\ clientStore[c] # NoClient
  /\ OnStop(c)
  /\ UNCHANGED <<builder, builderCalls, lists, flagBuilder, current, clientStore, namedSince, updated>>

TestDataNext ==
  \/ GetFlag \/ ChangeFlag \/ AddRule \/ ForContext
  \/ Update \/ UsePreconfiguredFlag \/ UsePreconfiguredSegment
  \/ \E c \in Client : StartClient(c) \/ StopClient(c)

-----------------------------------------------------------------------------
(* The context has what the condition is on, and it is as it says.         *)
HoldsFor(c, clause) ==
  LET v == ValueForKind(c, clause.attributeReference, clause.contextKind)
      values == IF v.type = "array" THEN v.of ELSE {v}
      same == {a \in values \cap clause.values : a.type \notin {"object", "array"}}
  IN IsDefined(v) /\ (same # {}) # clause.negate

(* "A rule matches a user if all of the rule's clauses match".             *)
AllMatch(c, r) == \A clause \in ToSet(r.clauses) : clause.attributeReference.valid /\ HoldsFor(c, clause)

(* Whether a rule matches is open if it has clauses on what is no          *)
(* attribute, and all others match.                                        *)
IsOpen(c, r) ==
  ~AllMatch(c, r) /\ \A clause \in ToSet(r.clauses) : clause.attributeReference.valid => HoldsFor(c, clause)

FirstMatch(c) == SelectInSeq(builder.rules, LAMBDA r : AllMatch(c, r))

ComesToOpen(c) ==
  \E n \in DOMAIN builder.rules : IsOpen(c, builder.rules[n]) /\ (FirstMatch(c) = 0 \/ n < FirstMatch(c))

(* Whatever the calls of a builder and their order, a context gets the     *)
(* variation it was last named for, and no other, until the targets are    *)
(* cleared; one that was not gets the one of the first rule all of whose   *)
(* clauses match or the fallthrough, unless there is a rule before of      *)
(* which that is open.  A context of two kinds gets the first variation    *)
(* that one of them was named for.                                         *)
BuiltAsTold(contexts) ==
  builder # NoBuilder =>
  LET data == [i \in {TestFlag} |-> Read(Build(builder), lists)]
      NamedFor(c) == {builder.told[<<k, KeyOf(c, k)>>] :
                        k \in {k \in Kinds(c) : <<k, KeyOf(c, k)>> \in TargetKey}} \ {NoVariation}
      Told(c) == IF ~builder.on THEN builder.off
                 ELSE IF NamedFor(c) # {} THEN CHOOSE v \in NamedFor(c) : \A w \in NamedFor(c) : v <= w
                 ELSE IF FirstMatch(c) # 0 THEN builder.rules[FirstMatch(c)].variation
                 ELSE builder.fallthrough
  IN \A c \in contexts :
       (builder.on /\ NamedFor(c) = {} => ~ComesToOpen(c)) =>
         Evaluate(data, c, TestFlag).res.variation =
           IF Told(c) < Len(builder.values) THEN Told(c) ELSE NoVariation

(* Every client whose data source is known has the flag as it was when it  *)
(* was last updated, for every context that no builder has named since.    *)
ClientsHaveUpdates(contexts) ==
  updated[TestFlag] # NoItem =>
  LET data == {updated} \cup {ReadData(clientStore[client], lists) : client \in ToSet(dataSources)}
      Unnamed(c) == {<<k, KeyOf(c, k)>> : k \in Kinds(c)} \cap namedSince = {}
  IN \A c \in {c \in contexts : Unnamed(c)} :
       Cardinality({IF d[TestFlag] = NoItem THEN NoResult ELSE Evaluate(d, c, TestFlag).res : d \in data}) = 1
=============================================================================
