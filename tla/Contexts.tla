------------------------------ MODULE Contexts ------------------------------
(***************************************************************************)
(* shared/common/src/Context.ts, AttributeReference.ts, ContextFilter.ts:  *)
(* what the application passes as context, what it is taken for, how the   *)
(* attributes are found, and what of it goes into events.                  *)
(*                                                                         *)
(* A string is a sequence of tokens: "/", "~", "~0", "~1", ":", "%" or     *)
(* any text without these.  A kind is one token.  A value has a type; an   *)
(* object maps names to values, and arrays are sets.  An object that       *)
(* contains itself is left out.                                            *)
(***************************************************************************)
EXTENDS Integers, Sequences, FiniteSets, SequencesExt

CONSTANTS KindOrder,   \* [kind -> its place in the alphabetical order]
          MaxNesting   \* bound: objects in objects

Str(s) == [type |-> "string", of |-> s]
Obj(f) == [type |-> "object", of |-> f]
Null == [type |-> "null", of |-> {}]
Undefined == [type |-> "undefined", of |-> {}]

IsValue(v) == v = [type |-> v.type, of |-> v.of]

IsDefined(v) == v.type \notin {"null", "undefined"}

Property(f, name) == IF name \in DOMAIN f THEN f[name] ELSE Undefined

(* f, and g where f has nothing.                                           *)
WithDefaults(f, g) == [name \in DOMAIN f \cup DOMAIN g |-> IF name \in DOMAIN f THEN f[name] ELSE g[name]]

(* What JavaScript takes for true.                                         *)
Truthy(v) ==
  CASE v.type = "boolean" -> v.of
    [] v.type = "number" -> v.of # 0
    [] v.type = "string" -> v.of # <<>>
    [] OTHER -> IsDefined(v)

-----------------------------------------------------------------------------
(* AttributeReference.ts                                                   *)

ReplaceToken(s, new) == [n \in DOMAIN s |-> IF s[n] \in DOMAIN new THEN new[s[n]] ELSE s[n]]

ToRefString(literal) == <<"/">> \o ReplaceToken(literal, [c \in {"/", "~"} |-> IF c = "/" THEN "~1" ELSE "~0"])

(* indexOf('~') is 0, which counts as none, if the escape comes first.     *)
Unescape(component) ==
  IF component # <<>> /\ component[1] \in {"~0", "~1", "~"} THEN component
  ELSE ReplaceToken(component, [c \in {"~1", "~0"} |-> IF c = "~1" THEN "/" ELSE "~"])

Split(s) ==
  FoldLeft(LAMBDA acc, t : IF t = "/" THEN Append(acc, <<>>)
                           ELSE [acc EXCEPT ![Len(acc)] = Append(@, t)], <<<<>>>>, s)

Validate(s) ==
  /\ \A n \in 1..Len(s) - 1 : ~(s[n] = "/" /\ s[n + 1] = "/") /\ ~(s[1] = "/" /\ s[n] = "~")
  /\ s[Len(s)] # "~"

Reference(s) ==
  LET components == IF s[1] # "/" THEN <<s>>
                    ELSE LET parts == Split(Tail(s)) IN [n \in DOMAIN parts |-> Unescape(parts[n])]
  IN IF s \in {<<>>, <<"/">>} \/ ~Validate(s) THEN [valid |-> FALSE, components |-> <<>>, redactionName |-> s]
     ELSE [valid |-> components[1] # <<"_meta">>, components |-> components, redactionName |-> s]

LiteralReference(s) ==
  [valid |-> s # <<>>, components |-> <<s>>,
   redactionName |-> IF s # <<>> /\ s[1] = "/" THEN ToRefString(s) ELSE s]

(* get(): one component after the other, not into arrays.                  *)
GetValue(ref, f) ==
  IF ~ref.valid THEN Undefined
  ELSE FoldLeft(LAMBDA v, name : IF v.type = "object" THEN Property(v.of, name) ELSE Undefined,
                Obj(f), ref.components)

-----------------------------------------------------------------------------
(* Context.ts.  What the application passes is NoContext or an object: the *)
(* value of its kind, and of, which is its attributes or, with more than   *)
(* one kind, what it has for each; a legacy user has custom attributes and *)
(* names of private ones besides.                                          *)

NoContext == [absent |-> TRUE]

IsSingleKind(c) == c.kind.type = "string" /\ c.kind.of # <<"multi">>
IsMultiKind(c) == c.kind.type = "string" /\ c.kind.of = <<"multi">>
IsLegacyUser(c) == ~IsDefined(c.kind)

IsContextCommon(v) == v.type = "object"

InvalidContext == [valid |-> FALSE, legacy |-> FALSE, contexts |-> <<>>, private |-> <<>>]

ValidKind(kind) == kind \notin {"kind", "not valid"}

ValidKey(f) == Property(f, <<"key">>).type = "string" /\ f[<<"key">>].of # <<>>

InMeta(f, name) ==
  LET meta == Property(f, <<"_meta">>) IN IF meta.type = "object" THEN Property(meta.of, name) ELSE Undefined

(* _meta.privateAttributes: the strings of an array.                       *)
PrivateAttributes(f) ==
  LET private == InMeta(f, <<"privateAttributes">>)
  IN IF IsDefined(private) THEN {Reference(v.of) : v \in private.of} ELSE {}

ValidContext(contexts) ==
  [valid |-> TRUE, legacy |-> FALSE, contexts |-> contexts,
   private |-> [kind \in DOMAIN contexts |-> PrivateAttributes(contexts[kind])]]

FromSingleKindContext(c) ==
  IF ValidKind(c.kind.of[1]) /\ ValidKey(c.of) THEN ValidContext([kind \in {c.kind.of[1]} |-> c.of])
  ELSE InvalidContext

(* A context with one kind only is from here on that of the kind, but it   *)
(* has no property kind.                                                   *)
FromMultiKindContext(c) ==
  LET kinds == DOMAIN c.of IN
  IF /\ kinds # {} /\ \A kind \in kinds : ValidKind(kind) /\ IsContextCommon(c.of[kind])
     /\ \A kind \in kinds : ValidKey(c.of[kind].of)
  THEN ValidContext([kind \in kinds |-> c.of[kind].of])
  ELSE InvalidContext

LegacyNames == {<<"name">>, <<"email">>}  \* and five more like these

LegacyToSingleKind(c) ==
  LET set(names) == [name \in {n \in names : IsDefined(Property(c.of, n))} |-> c.of[name]]
      fixed == [name \in {<<"kind">>, <<"key">>} |->
                  IF name = <<"kind">> THEN Str(<<"user">>) ELSE Str(c.of[<<"key">>].of)]
  IN WithDefaults(set(LegacyNames \cup {<<"anonymous">>}), WithDefaults(fixed, c.custom))

FromLegacyUser(c) ==
  IF ~IsDefined(Property(c.of, <<"key">>)) THEN InvalidContext
  ELSE [valid |-> TRUE, legacy |-> TRUE, contexts |-> [kind \in {"user"} |-> LegacyToSingleKind(c)],
        private |-> [kind \in {"user"} |-> {LiteralReference(s) : s \in c.privateAttributeNames}]]

FromLDContext(c) ==
  IF c = NoContext THEN InvalidContext
  ELSE CASE IsSingleKind(c) -> FromSingleKindContext(c)
         [] IsMultiKind(c) -> FromMultiKindContext(c)
         [] IsLegacyUser(c) -> FromLegacyUser(c)
         [] OTHER -> InvalidContext

Kinds(context) == DOMAIN context.contexts

HasKind(context, kind) == kind \in Kinds(context)

KeyOf(context, kind) == context.contexts[kind][<<"key">>].of

KindsAndKeys(context) == [kind \in Kinds(context) |-> KeyOf(context, kind)]

GetValueFromContext(ref, f) ==
  IF ~ref.valid THEN Undefined
  ELSE IF ref.components = <<<<"anonymous">>>> THEN [type |-> "boolean", of |-> Truthy(GetValue(ref, f))]
  ELSE GetValue(ref, f)

ValueForKind(context, ref, kind) ==
  IF ref.components = <<<<"kind">>>> THEN [type |-> "array", of |-> {Str(<<k>>) : k \in Kinds(context)}]
  ELSE IF HasKind(context, kind) THEN GetValueFromContext(ref, context.contexts[kind]) ELSE Undefined

EncodeColonsOnly(key) ==  \* mutation
  FlattenSeq([n \in DOMAIN key |-> IF key[n] = ":" THEN <<"%", "3A">> ELSE <<key[n]>>])

EncodeKey(key) ==
  FlattenSeq([n \in DOMAIN key |-> IF key[n] = "%" THEN <<"%", "25">>
                                   ELSE IF key[n] = ":" THEN <<"%", "3A">> ELSE <<key[n]>>])

SortedKinds(context) ==
  [n \in 1..Cardinality(Kinds(context)) |->
     CHOOSE kind \in Kinds(context) :
       Cardinality({other \in Kinds(context) : KindOrder[other] < KindOrder[kind]}) = n - 1]

CanonicalKey(context) ==
  LET kinds == SortedKinds(context)
      part(n) == (IF n = 1 THEN <<>> ELSE <<":">>) \o <<kinds[n], ":">> \o EncodeKey(KeyOf(context, kinds[n]))
  IN IF Kinds(context) = {"user"} THEN KeyOf(context, "user")
     ELSE FlattenSeq([n \in DOMAIN kinds |-> part(n)])

-----------------------------------------------------------------------------
(* ContextFilter.ts.  Config: allAttributesPrivate and privateAttributes.  *)

ProtectedAttributes == {<<<<"key">>>>, <<<<"kind">>>>, <<<<"_meta">>>>, <<<<"anonymous">>>>}

(* The objects in f, itself included, each with the path to it.            *)
Objects(f) ==
  LET inside(o) == {<<Append(o[1], name), o[2][name].of>> : name \in {n \in DOMAIN o[2] : o[2][n].type = "object"}}
      level[n \in 0..MaxNesting] == IF n = 0 THEN {<<<<>>, f>>} ELSE UNION {inside(o) : o \in level[n - 1]}
  IN UNION {level[n] : n \in 0..MaxNesting}

CloneTopLevel(f, paths) ==  \* mutation: nested objects are copied as they are
  [name \in {n \in DOMAIN f : <<n>> \notin paths} |-> f[name]]

CloneWithRedactions(f, paths) ==
  LET clone[o \in Objects(f)] ==
        [name \in {n \in DOMAIN o[2] : Append(o[1], n) \notin paths} |->
           IF o[2][name].type = "object" THEN Obj(clone[<<Append(o[1], name), o[2][name].of>>]) ELSE o[2][name]]
  IN clone[<<<<>>, f>>]

(* The paths to all that is in f.                                          *)
Places(f) == UNION {{Append(o[1], name) : name \in DOMAIN o[2]} : o \in Objects(f)}

(* What is left out and in nothing else that is, by the name of a          *)
(* reference to each: the first one, here any.                             *)
Excluded(f, references) ==
  LET paths == {r.components : r \in references}
      reference(path) == CHOOSE r \in references : r.components = path
      below(path) == \E n \in 1..Len(path) - 1 : SubSeq(path, 1, n) \in paths
  IN {reference(path).redactionName : path \in {p \in paths \cap Places(f) : ~below(p)}}

AttributesToFilter(context, kind, config) ==
  LET all == IF config.allAttributesPrivate
             THEN {LiteralReference(name) : name \in DOMAIN context.contexts[kind]}
             ELSE config.privateAttributes \cup context.private[kind]
  IN {r \in all : r.components \notin ProtectedAttributes}

FilterSingleKind(context, kind, config) ==
  LET references == AttributesToFilter(context, kind, config)
      f == context.contexts[kind]
      cloned == CloneWithRedactions(f, {r.components : r \in references})
      excluded == Excluded(f, references)
      strings == IF context.legacy
                 THEN [name \in DOMAIN cloned |-> IF name \in LegacyNames THEN Str(cloned[name].of) ELSE cloned[name]]
                 ELSE cloned
      meta == LET m == Property(cloned, <<"_meta">>) IN IF m.type = "object" THEN m.of ELSE <<>>
      kept == [name \in DOMAIN meta \ {<<"privateAttributes">>, <<"redactedAttributes">>} |-> meta[name]]
      told == IF excluded # {} THEN [name \in {<<"redactedAttributes">>} |-> [type |-> "array", of |-> excluded]]
              ELSE [name \in DOMAIN meta \cap {<<"redactedAttributes">>} |-> meta[name]]
      filtered == [name \in DOMAIN strings \ {<<"_meta">>} |-> strings[name]]
      all == WithDefaults(told, kept)
  IN IF DOMAIN all = {} THEN filtered
     ELSE WithDefaults([name \in {<<"_meta">>} |-> Obj(all)], filtered)

Filter(context, config) == [kind \in Kinds(context) |-> FilterSingleKind(context, kind, config)]
=============================================================================
