---------------------------- MODULE MCEvaluation ----------------------------
(***************************************************************************)
(* Three flags, one that there never is, and two segments, with the shapes *)
(* that matter to each other; three contexts that ask for the flags; and   *)
(* contexts with attributes that are private in different ways.            *)
(***************************************************************************)
EXTENDS Evaluation

MCFlag == {"f1", "f2", "f3", "f4"}
MCSegment == {"s1", "s2"}
MCItem == MCFlag \cup MCSegment
MCKindOrder == [kind \in {"org", "user"} |-> IF kind = "org" THEN 1 ELSE 2]

MCBucketOf == [s \in {<<>>, <<"a">>, <<"b">>, <<"n">>, <<"x">>} |-> IF s = <<"a">> THEN 10 ELSE 60]

MCNumberOf == [d \in {"0", "1", "2", "9"} |-> CASE d = "0" -> 0 [] d = "1" -> 1 [] d = "2" -> 2 [] d = "9" -> 9]
MCDateOf ==
  [s \in {<<"2023-01-01T00:00:00Z">>, <<"2023-99-01T00:00:00Z">>} |-> IF s[1] = "2023-01-01T00:00:00Z" THEN 9 ELSE NaN]
MCExpressions == [s \in {<<"n", "~">>} |-> {<<"n">>, <<"n", "n">>}]

(* Key b is not in the store of big segments, and x cannot be asked for.   *)
MCGetBigSegments ==
  [key \in {<<"a">>, <<"b">>, <<"x">>} |->
     IF key = <<"a">> THEN [status |-> "HEALTHY", found |-> TRUE, membership |-> [s \in {"s2"} |-> TRUE]]
     ELSE [status |-> IF key = <<"x">> THEN "STORE_ERROR" ELSE "STALE", found |-> FALSE, membership |-> <<>>]]

Name(s) == <<s>>

With(f, name, v) == [n \in {name} |-> v] @@ f

Keyed(s) == [n \in {<<"key">>} |-> Str(<<s>>)]

-----------------------------------------------------------------------------
(* Flags and segments.                                                     *)

NoKeys == [list |-> {}, set |-> {}]
Keys(list) == [list |-> list, set |-> {}]

Of(kind, keys) == [contextKind |-> kind, values |-> Keys(keys)]

Target(kind, keys, variation) == [contextKind |-> kind, values |-> keys, variation |-> variation]

Fixed(v) == [variation |-> v, rollout |-> <<>>]

RolledOut(kind, by, contextKind, variations) ==
  [variation |-> NoVariation,
   rollout |-> <<[kind |-> kind, bucketBy |-> by, bucketByReference |-> NoReference,
                  contextKind |-> contextKind, variations |-> variations]>>]

Weighted(v, weight, untracked) == [variation |-> v, weight |-> weight, untracked |-> untracked]

Is(attribute, op, kind, values) ==
  [op |-> op, attribute |-> attribute, attributeReference |-> NoReference, contextKind |-> kind,
   values |-> values, segments |-> <<>>, negate |-> FALSE]

In(segments, negate) ==
  [op |-> "segmentMatch", attribute |-> <<>>, attributeReference |-> NoReference, contextKind |-> "",
   values |-> {}, segments |-> segments, negate |-> negate]

Rule(clauses, to, track) ==
  [clauses |-> clauses, variation |-> to.variation, rollout |-> to.rollout, trackEvents |-> track]

Prerequisite(key, variation) == [key |-> key, variation |-> variation]

On ==
  [kind |-> "flag", on |-> TRUE, prerequisites |-> <<>>, targets |-> <<>>, contextTargets |-> <<>>,
   rules |-> <<>>, fallthrough |-> Fixed(0), offVariation |-> 1, variations |-> 2,
   trackEvents |-> FALSE, trackEventsFallthrough |-> FALSE, debugEventsUntilDate |-> FALSE,
   usingEnvironmentId |-> TRUE, nullVariation |-> FALSE]

Off == [On EXCEPT !.on = FALSE]

IsNot(attribute, op, kind, values) == [Is(attribute, op, kind, values) EXCEPT !.negate = TRUE]

(* Clauses that hold of a visitor, one for each operator.                  *)
Visits ==
  LET v1 == Str(<<"1", ".", "9", "-", "1">>)
      v2 == Str(<<"2", ".", "0", ".", "0">>)
      others == {Str(<<"v", "2">>), Str(<<"2", ".", "0", ".", "0", ".", "0">>), Str(<<"new">>)}
  IN <<Is(<<"name">>, "startsWith", "user", {Str(<<"n">>)}), Is(<<"name">>, "endsWith", "user", {Str(<<>>)}),
       Is(<<"name">>, "matches", "user", {Str(<<"n", "~">>), Str(<<"(">>)}),
       IsNot(<<"app">>, "contains", "user", {Str(<<"-", "2">>)}),
       Is(<<"app">>, "semVerLessThan", "user", {v2}), Is(<<"app">>, "semVerGreaterThan", "user", {v1}),
       IsNot(<<"app">>, "semVerEqual", "user", others \cup {v1, v2}),
       IsNot(<<"since">>, "lessThan", "user", {Num(5)}), Is(<<"since">>, "lessThanOrEqual", "user", {Num(5)}),
       IsNot(<<"since">>, "greaterThan", "user", {Str(<<"4">>)}), Is(<<"since">>, "greaterThanOrEqual", "user", {Num(5)}),
       Is(<<"since">>, "before", "user", {Str(<<"2023-01-01T00:00:00Z">>)}),
       IsNot(<<"since">>, "after", "user", {Str(<<"2023-99-01T00:00:00Z">>), Str(<<"4">>)})>>

Flags1 ==
  {NoItem, On, [Off EXCEPT !.offVariation = NoVariation],
   [On EXCEPT !.prerequisites = <<Prerequisite("f2", 0)>>],
   [On EXCEPT !.prerequisites = <<Prerequisite("f1", 0), Prerequisite("f2", 1)>>],
   [On EXCEPT !.rules = <<Rule(<<In(<<"s1">>, FALSE)>>, Fixed(1), TRUE)>>],
   [On EXCEPT !.rules = <<Rule(<<Is(<<"/">>, "in", "user", {Null}), In(<<"s1">>, TRUE)>>, Fixed(1), FALSE)>>],
   [On EXCEPT !.prerequisites = <<Prerequisite("f2", 1)>>,
              !.fallthrough = RolledOut("experiment", <<>>, "org", <<Weighted(0, 50, FALSE), Weighted(1, 50, TRUE)>>),
              !.rules = <<Rule(Visits \o <<In(<<"s2", "s1">>, FALSE)>>, Fixed(1), FALSE)>>],
   [On EXCEPT !.targets = <<Target("", {<<"a">>}, 1)>>, !.debugEventsUntilDate = TRUE,
              !.contextTargets = <<Target("org", {<<"x">>}, 2), Target("user", {}, 1)>>]}

Flags2 ==
  {NoItem, [Off EXCEPT !.offVariation = 0], [On EXCEPT !.trackEventsFallthrough = TRUE],
   [On EXCEPT !.prerequisites = <<Prerequisite("f1", 0)>>],
   [On EXCEPT !.prerequisites = <<Prerequisite("f3", 1)>>],
   [On EXCEPT !.rules = <<Rule(<<In(<<"s2">>, TRUE)>>,
                               RolledOut("rollout", <<"name">>, "user", <<Weighted(1, 50, FALSE)>>), FALSE)>>,
              !.trackEvents = TRUE]}

Flags3 ==
  {NoItem, [On EXCEPT !.prerequisites = <<Prerequisite("f2", 0), Prerequisite("f1", 0)>>, !.variations = 1],
   [On EXCEPT !.prerequisites = <<Prerequisite("f2", 0), Prerequisite("f4", 0)>>, !.nullVariation = TRUE]}

Listed ==
  [kind |-> "segment", unbounded |-> FALSE, unboundedContextKind |-> "", generation |-> FALSE,
   included |-> Keys({<<"a">>, <<"b">>}), excluded |-> NoKeys, includedContexts |-> <<>>,
   excludedContexts |-> <<>>, rules |-> <<>>]

SegmentRule(clauses, weight, by, kind) ==
  [clauses |-> clauses, weight |-> weight, bucketBy |-> by, bucketByReference |-> NoReference, contextKind |-> kind]

Big(kind, generation, rules) ==
  [Listed EXCEPT !.unbounded = TRUE, !.unboundedContextKind = kind, !.generation = generation,
                 !.included = NoKeys, !.rules = rules]

Ruled(rules) == [Listed EXCEPT !.included = NoKeys, !.rules = rules]

Segments1 ==
  {NoItem, Listed, Big("", FALSE, <<>>),
   [Listed EXCEPT !.included = NoKeys, !.excluded = Keys({<<"b">>}),
                  !.includedContexts = <<Of("org", {<<"x">>, <<"y">>})>>],
   Ruled(<<SegmentRule(<<In(<<"s1", "s2">>, FALSE)>>, NoVariation, <<>>, "")>>),
   Ruled(<<SegmentRule(<<In(<<"s2">>, TRUE)>>, 50, <<"key">>, "user")>>)}

Segments2 ==
  {NoItem, [Listed EXCEPT !.included = Keys({<<"b">>})],
   Ruled(<<SegmentRule(<<In(<<"s1">>, FALSE)>>, NoVariation, <<>>, "")>>),
   Big("", TRUE, <<SegmentRule(<<In(<<"s1">>, FALSE)>>, NoVariation, <<>>, "")>>),
   Big("org", TRUE, <<SegmentRule(<<Is(<<"kind">>, "in", "", {Str(<<"org">>), Null})>>, NoVariation, <<>>, "")>>)}

MCPayload ==
  [i \in MCItem |-> CASE i = "f1" -> Flags1 [] i = "f2" -> Flags2 [] i = "f3" -> Flags3 [] i = "f4" -> {}
                      [] i = "s1" -> Segments1 [] i = "s2" -> Segments2]

-----------------------------------------------------------------------------
(* Contexts.                                                               *)

Private(f, names) ==
  With(f, Name("_meta"), Obj([n \in {<<"privateAttributes">>} |-> [type |-> "array", of |-> {Str(s) : s \in names}]]))

Single(kind, f) == [kind |-> Str(<<kind>>), of |-> f]
Multi(f) == Single("multi", f)
Legacy(kind, f, custom, private) == [kind |-> kind, of |-> f, custom |-> custom, privateAttributeNames |-> private]

(* A user with a name, a version and a date.                               *)
Visitor ==
  With(With(With(Keyed("a"), Name("name"), Str(<<"n">>)), Name("app"), Str(<<"2", "-", "1">>)), Name("since"), Num(5))

MCLDContexts ==
  {Single("user", Visitor),
   Multi([kind \in {"org", "user"} |-> Obj(Keyed(IF kind = "org" THEN "x" ELSE "b"))]),
   Legacy(Undefined, [n \in {<<"key">>} |-> Str(<<>>)], <<>>, {})}

Address == Obj([n \in {<<"street">>, <<"city">>} |->
                  IF n = <<"city">> THEN Str(<<"c">>)
                  ELSE Obj([m \in {<<"a", "/", "b">>, <<"no">>} |-> Str(<<"s">>)])])

Person == With(With(With(Keyed("a"), Name("address"), Address), <<"/", "a">>, Str(<<"v">>)), Name("name"), Null)

MCIdentified ==
  {Single("user", Private(Person, names)) :
     names \in SUBSET {<<"/", "address", "/", "street", "/", "a", "~1", "b">>, <<"address">>, <<"key">>, <<"/", "name">>}}
  \cup {Single("org", [n \in {<<"key">>} |-> Str(key)]) :
          key \in {<<"a", ":", "user", ":", "b">>, <<"a">>, <<"a", "%", "3A", "user">>, <<"a", ":", "user">>}}
  \cup {Multi([kind \in {"org", "user"} |-> Obj(Keyed(IF kind = "org" THEN "a" ELSE "b"))]),
        Multi([kind \in {"org"} |-> Obj(Private(Keyed("a"), {<<"name">>}))]),
        Multi([kind \in {"org", "user"} |-> Obj(Private(Person, IF kind = "org" THEN {<<"name">>} ELSE {<<"address">>}))]),
        Multi([kind \in {"org"} |-> Obj(<<>>)]), Multi(<<>>), Single("kind", Keyed("a")), Single("user", <<>>),
        Legacy(Undefined, Keyed("a"), [n \in {<<"/", "a">>} |-> Str(<<"v">>)], {<<"/", "a">>}),
        Legacy(Null, <<>>, <<>>, {}), NoContext, [kind |-> Obj(<<>>), of |-> Keyed("a")]}

(* Options of the right types, of others, and out of range.                *)
MCClientOptions ==
  {<<>>, [allAttributesPrivate |-> Bool(TRUE), featureStore |-> Obj(<<>>)],
   [allAttributesPrivate |-> Str(<<"no">>), privateAttributes |-> List({}), updateProcessor |-> Returning(Null)],
   [allAttributesPrivate |-> Num(0), privateAttributes |-> List({Str(<<"/", "address", "/", "city">>), Str(<<"name">>)}),
    pollInterval |-> Num(10), eventsUri |-> Str(<<"host", "/", "/">>), unknown |-> Null],
   [privateAttributes |-> List({Str(<<"name">>), Obj(<<>>)}), diagnosticRecordingInterval |-> Num(60), logger |-> Null],
   [privateAttributes |-> Str(<<"name">>), capacity |-> Str(<<"10">>), pollInterval |-> Undefined, stream |-> Num(1)],
   [sendEvents |-> Undefined], [offline |-> Obj(<<>>)]}

-----------------------------------------------------------------------------
(* Flags for tests.                                                        *)

MCTargetKey == {<<"user", <<"a">>>>, <<"user", <<"b">>>>, <<"org", <<"x">>>>}

(* Conditions that all hold of one context and not of the others, and one  *)
(* on what is no attribute.                                                *)
NotB == [kind |-> "user", attribute |-> Name("key"), values |-> {Str(<<"b">>), Null}, negate |-> TRUE]
Named == [kind |-> "user", attribute |-> Name("name"), values |-> {Str(<<"n">>)}, negate |-> FALSE]
Meta == [kind |-> "user", attribute |-> <<"/", "_meta">>, values |-> {Null}, negate |-> FALSE]
OfOrg == [kind |-> "user", attribute |-> Name("kind"), values |-> {Str(<<"org">>)}, negate |-> FALSE]

MCConditions == {<<NotB, Named>>, <<Meta, OfOrg>>}

MCPreconfigured ==
  [i \in {"f1", "s1"} |-> IF i = "f1" THEN {[On EXCEPT !.rules = <<Rule(<<In(<<"s1">>, FALSE)>>, Fixed(1), TRUE)>>]}
                          ELSE {Listed}]

MCMaxVersion == [i \in {"f1", "s1"} |-> IF i = "f1" THEN 2 ELSE 1]

MCSymmetry == Permutations(Client)
=============================================================================
