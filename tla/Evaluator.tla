----------------------------- MODULE Evaluator ------------------------------
(***************************************************************************)
(* shared/sdk-server/src/evaluation: what a flag is for a context.         *)
(*                                                                         *)
(* data: the items of the feature store by key, or NoItem.  c: a context.  *)
(* The state of an evaluation, EvalState, is handed through the calls, as  *)
(* the callbacks share it.  The values of variations and the messages are  *)
(* left out.                                                               *)
(***************************************************************************)
EXTENDS Serialization, Operations

CONSTANTS BucketOf,          \* string or number -> 0..99, in place of the hash
          GetBigSegments,    \* key of a context -> the answer of BigSegmentsManager
          MaxDepth           \* bound: calls in each other after which an evaluation has no end

NoItem == [kind |-> "none"]

(* The keys in data of items of a kind, which has a namespace of its own.  *)
KeysOf(data, kind) == {key \in DOMAIN data : data[key].kind = kind}

NoResult == [kind |-> "undecided"]

(* EvalResult.                                                             *)
Success(kind, variation) ==
  [error |-> FALSE, kind |-> kind, rule |-> 0, variation |-> variation, inExperiment |-> FALSE]
ForError(errorKind) ==
  [error |-> TRUE, kind |-> errorKind, rule |-> 0, variation |-> NoVariation, inExperiment |-> FALSE]
Malformed == ForError("MALFORMED_FLAG")

EvalState == [events |-> <<>>, status |-> "none", known |-> {}, endless |-> FALSE]

Endless(st) == st.endless

WithoutEnd(st) == [st EXCEPT !.endless = TRUE]

ForgetsVisited(visited, key) == {key}  \* mutation

(* What a circular reference is found by, for flags and for segments.      *)
Visiting(visited, key) == visited \cup {key}

-----------------------------------------------------------------------------
(* variations.ts, Bucketer.ts, evalTargets.ts                              *)

GetVariation(flag, index, kind) ==
  IF index \in 0..flag.variations - 1 THEN Success(kind, index) ELSE Malformed

GetOffVariation(flag, kind) ==
  IF flag.offVariation = NoVariation THEN Success(kind, NoVariation)
  ELSE GetVariation(flag, flag.offVariation, kind)

OrUser(kind) == IF kind = "" THEN "user" ELSE kind

GetBucketBy(reference) == IF reference = NoReference THEN Reference(<<"key">>) ELSE reference

(* The bucket, and whether there was a context.                            *)
Bucket(c, attr, kind) ==
  LET v == ValueForKind(c, attr, OrUser(kind)) IN
  IF v.type \in {"string", "number"} THEN [bucket |-> BucketOf[v.of], hadContext |-> TRUE]
  ELSE [bucket |-> 0, hadContext |-> HasKind(c, OrUser(kind))]

FirstResult(results) ==
  LET n == SelectInSeq(results, LAMBDA r : r # NoResult) IN IF n = 0 THEN NoResult ELSE results[n]

EvalTarget(flag, target, c) ==
  IF HasKind(c, OrUser(target.contextKind)) /\ KeyOf(c, OrUser(target.contextKind)) \in target.values
  THEN GetVariation(flag, target.variation, "TARGET_MATCH")
  ELSE NoResult

(* A context target for users stands for the user target of its variation. *)
EvalContextTarget(flag, target, c) ==
  IF OrUser(target.contextKind) # "user" THEN EvalTarget(flag, target, c)
  ELSE LET n == SelectInSeq(flag.targets, LAMBDA u : u.variation = target.variation)
       IN IF n = 0 THEN NoResult ELSE EvalTarget(flag, flag.targets[n], c)

EvalTargets(flag, c) ==
  FirstResult(IF flag.contextTargets = <<>>
              THEN [n \in DOMAIN flag.targets |-> EvalTarget(flag, flag.targets[n], c)]
              ELSE [n \in DOMAIN flag.contextTargets |-> EvalContextTarget(flag, flag.contextTargets[n], c)])

(* The first variation whose weights add up to more than the bucket, or    *)
(* none of them.                                                           *)
BucketedVariation(variations, bucket) ==
  LET sum[n \in 0..Len(variations)] == IF n = 0 THEN 0 ELSE sum[n - 1] + variations[n].weight
  IN SelectInSubSeq([n \in DOMAIN variations |-> sum[n]], 1, Len(variations), LAMBDA s : bucket < s)

InExperiment(result, tracked) ==
  IF tracked /\ ~result.error THEN [result EXCEPT !.inExperiment = TRUE] ELSE result

(* The nth variation, or the last if none.  The last is in the experiment  *)
(* also for those who have no context of its kind.                         *)
VariationOfRollout(rollout, flag, kind, n, hadContext) ==
  LET v == rollout.variations[IF n = 0 THEN Len(rollout.variations) ELSE n] IN
  InExperiment(GetVariation(flag, v.variation, kind),
               rollout.kind = "experiment" /\ ~v.untracked /\ (n = 0 \/ hadContext))

InBucket(rollout, flag, kind, b) ==
  VariationOfRollout(rollout, flag, kind, BucketedVariation(rollout.variations, b.bucket), b.hadContext)

Rollout(rollout, flag, c, kind) ==
  LET attr == IF rollout.kind = "experiment" THEN Reference(<<"key">>) ELSE GetBucketBy(rollout.bucketByReference)
  IN IF ~attr.valid THEN Malformed
     ELSE InBucket(rollout, flag, kind, Bucket(c, attr, rollout.contextKind))

(* A fixed variation, or a rollout if there is none.                       *)
VariationForContext(vr, flag, c, kind) ==
  IF vr.variation # NoVariation THEN GetVariation(flag, vr.variation, kind)
  ELSE IF vr.rollout = <<>> \/ vr.rollout[1].variations = <<>> THEN Malformed
  ELSE Rollout(vr.rollout[1], flag, c, kind)

-----------------------------------------------------------------------------
(* matchClause.ts, matchSegmentTargets.ts                                  *)

MaybeNegate(clause, match) == IF clause.negate THEN ~match ELSE match

(* A context without the attribute does not match, negated or not.         *)
MatchClause(clause, c) ==
  LET v == ValueForKind(c, clause.attributeReference, OrUser(clause.contextKind))
      values == IF v.type = "array" THEN v.of ELSE {v}
  IN IsDefined(v) /\ MaybeNegate(clause, \E a \in values, b \in clause.values : Execute(clause.op, a, b))

HasKey(keys, key) == IF keys.set # {} THEN key \in keys.set ELSE key \in keys.list

(* An empty key of a legacy user is not looked for.                        *)
SegmentSearch(c, contextTargets, userTargets) ==
  LET has(kind, keys) == HasKind(c, kind) /\ KeyOf(c, kind) # <<>> /\ HasKey(keys, KeyOf(c, kind))
  IN (\E t \in ToSet(contextTargets) : has(OrUser(t.contextKind), t.values)) \/ has("user", userTargets)

MatchSegmentTargets(segment, c) ==
  IF SegmentSearch(c, segment.includedContexts, segment.included) THEN "included"
  ELSE IF SegmentSearch(c, segment.excludedContexts, segment.excluded) THEN "excluded"
  ELSE "neither"

-----------------------------------------------------------------------------
(* Evaluator.ts: segments                                                  *)

StatusPriority == [none |-> 0, HEALTHY |-> 1, STALE |-> 2, STORE_ERROR |-> 3, NOT_CONFIGURED |-> 4]

UpdatedStatus(old, latest) ==
  IF StatusPriority[old] > StatusPriority[latest] THEN old ELSE latest

Match(st, match) == [error |-> FALSE, match |-> match, st |-> st]
MatchError(st) == [error |-> TRUE, match |-> FALSE, st |-> st]

EvalReasons == {"OFF", "PREREQUISITE_FAILED", "TARGET_MATCH", "RULE_MATCH", "FALLTHROUGH", "MALFORMED_FLAG"}

EvalResults == [error : BOOLEAN, kind : EvalReasons, rule : Nat, variation : Int, inExperiment : BOOLEAN]

EvalStates(keys) ==
  [events : Seq(keys \X keys \X EvalResults), status : DOMAIN StatusPriority,
   known : SUBSET DOMAIN GetBigSegments, endless : BOOLEAN]

(* A call for a segment or a flag that others are in.                      *)
Call(key, visited, st) == [key |-> key, visited |-> visited, st |-> st]

CallsFor(data, kind) ==
  [key : KeysOf(data, kind), visited : SUBSET DOMAIN data, st : EvalStates(DOMAIN data)]

(* collection.ts: the members of a collection are looked at one after the  *)
(* other until the series ends; before is what the last one has left.      *)
Series(seq, first, Ends(_), Step(_, _)) ==
  LET after[n \in 0..Len(seq)] ==
        IF n = 0 THEN first
        ELSE LET before == after[n - 1] IN IF Ends(before) THEN before ELSE Step(before, n)
  IN after[Len(seq)]

(* A series of all ends with one that neither matches nor is malformed, a  *)
(* series for the first with one that does or is.                          *)
AllEnd(before) == ~before.error /\ ~before.match
FirstEnds(before) == before.error \/ before.match

(* What a call for a segment gives, in this one, is below; a segment that  *)
(* does not exist does not match.                                          *)
TrySegment(data, below, key, visited, before) ==
  IF data[key] = NoItem THEN before
  ELSE IF key \in visited THEN MatchError(before.st)
  ELSE below[Call(key, Visiting(visited, key), before.st)]

FirstSegmentMatch(data, below, keys, visited, st) ==
  Series(keys, Match(st, FALSE), FirstEnds, LAMBDA before, n : TrySegment(data, below, keys[n], visited, before))

Negated(clause, r) == IF r.error THEN r ELSE Match(r.st, MaybeNegate(clause, r.match))

(* clauseMatchContext.                                                     *)
ClauseMatch(data, c, below, clause, visited, st) ==
  IF clause.op = "segmentMatch" THEN Negated(clause, FirstSegmentMatch(data, below, clause.segments, visited, st))
  ELSE IF ~clause.attributeReference.valid THEN MatchError(st)
  ELSE Match(st, MatchClause(clause, c))

(* A malformed clause does not end the series, and what the next clause    *)
(* says takes the place of its error.                                      *)
AllClausesMatch(data, c, below, clauses, visited, st) ==
  Series(clauses, Match(st, TRUE), AllEnd,
         LAMBDA before, n : ClauseMatch(data, c, below, clauses[n], visited, before.st))

(* A rule with a weight matches a share of what its clauses match.         *)
Weighed(c, rule, r) ==
  LET attr == GetBucketBy(rule.bucketByReference) IN
  IF r.error \/ ~r.match \/ rule.weight = NoVariation THEN r
  ELSE IF ~attr.valid THEN MatchError(r.st)
  ELSE Match(r.st, Bucket(c, attr, rule.contextKind).bucket < rule.weight)

SegmentRuleMatch(data, c, below, rule, visited, st) ==
  Weighed(c, rule, AllClausesMatch(data, c, below, rule.clauses, visited, st))

FirstRuleMatch(data, c, below, rules, visited, st) ==
  Series(rules, Match(st, FALSE), FirstEnds,
         LAMBDA before, n : SegmentRuleMatch(data, c, below, rules[n], visited, before.st))

SimpleSegmentMatch(data, c, below, key, visited, st) ==
  LET target == IF data[key].unbounded THEN "neither" ELSE MatchSegmentTargets(data[key], c)
  IN IF target # "neither" THEN Match(st, target = "included")
     ELSE FirstRuleMatch(data, c, below, data[key].rules, visited, st)

(* bigSegmentMatchContext: what is not in the membership is decided by the *)
(* rules, with no segment visited so far.                                  *)
BigSegmentMatch(data, c, below, key, membership, st) ==
  IF key \in DOMAIN membership THEN Match(st, membership[key])
  ELSE SimpleSegmentMatch(data, c, below, key, {}, st)

(* A membership that was found before is not asked for again.              *)
AskedFor(contextKey, big, st) ==
  IF contextKey \in st.known THEN st
  ELSE [st EXCEPT !.status = UpdatedStatus(@, big.status),
                  !.known = @ \cup IF big.found THEN {contextKey} ELSE {}]

(* segmentMatchContext.                                                    *)
SegmentMatch(data, c, below, key, visited, st) ==
  LET segment == data[key]
      bigSegmentKind == OrUser(segment.unboundedContextKind)
      big == GetBigSegments[KeyOf(c, bigSegmentKind)]
  IN
  IF ~segment.unbounded THEN SimpleSegmentMatch(data, c, below, key, visited, st)
  ELSE IF ~HasKind(c, bigSegmentKind) \/ KeyOf(c, bigSegmentKind) = <<>> THEN Match(st, FALSE)
  ELSE IF ~segment.generation
  THEN Match([st EXCEPT !.status = UpdatedStatus(@, "NOT_CONFIGURED")], FALSE)
  ELSE BigSegmentMatch(data, c, below, key, big.membership, AskedFor(KeyOf(c, bigSegmentKind), big, st))

(* What the calls for segments give that have at most so many others in    *)
(* each other.                                                             *)
SegmentMatches(data, c) ==
  LET matches[n \in 0..MaxDepth] ==
        [call \in CallsFor(data, "segment") |->
           IF n = 0 \/ Endless(call.st) THEN Match(WithoutEnd(call.st), FALSE)
           ELSE SegmentMatch(data, c, matches[n - 1], call.key, call.visited, call.st)]
  IN matches[MaxDepth]

-----------------------------------------------------------------------------
(* Evaluator.ts: flags                                                     *)

Evaluated(res, st) == [res |-> res, st |-> st]

PrerequisiteFailed(flag, st) ==
  [go |-> FALSE, res |-> GetOffVariation(flag, "PREREQUISITE_FAILED"), st |-> st]

VariationOnly(prereq, res) == res.variation = prereq.variation  \* mutation: it may be off

(* A flag that is off has a variation, but not for the flags it is a       *)
(* prerequisite of.                                                        *)
Met(prereq, res) == res.kind # "OFF" /\ res.variation = prereq.variation

(* What is left after an answer for a prerequisite, with its event.        *)
PrerequisiteResult(data, key, prereq, before, answer) ==
  LET st == [answer.st EXCEPT !.events = Append(@, <<prereq.key, key, answer.res>>)] IN
  IF answer.res.error THEN [go |-> FALSE, res |-> answer.res, st |-> st]
  ELSE IF ~Met(prereq, answer.res) THEN PrerequisiteFailed(data[key], st)
  ELSE [before EXCEPT !.st = st]

(* A circular reference is an error, but the next prerequisites are still  *)
(* looked at.  What a call for a flag gives, in this one, is below.        *)
CheckPrerequisite(data, below, key, prereq, visited, before) ==
  IF prereq.key \in visited THEN [before EXCEPT !.res = Malformed]
  ELSE IF data[prereq.key] = NoItem THEN PrerequisiteFailed(data[key], before.st)
  ELSE PrerequisiteResult(data, key, prereq, before,
                          below[Call(prereq.key, Visiting(visited, prereq.key), before.st)])

(* Until one fails.                                                        *)
CheckPrerequisites(data, below, key, visited, st) ==
  Series(data[key].prerequisites, [go |-> TRUE, res |-> NoResult, st |-> st], LAMBDA before : ~before.go,
         LAMBDA before, n : CheckPrerequisite(data, below, key, data[key].prerequisites[n], visited, before))

Numbered(result, n) == IF result.error THEN result ELSE [result EXCEPT !.rule = n]

(* ruleMatchContext, after the clauses of the rule.                        *)
RuleResult(flag, n, c, r) ==
  Evaluated(IF r.error THEN Malformed
            ELSE IF ~r.match THEN NoResult
            ELSE Numbered(VariationForContext(flag.rules[n], flag, c, "RULE_MATCH"), n), r.st)

(* Until one matches or is malformed.                                      *)
EvaluateRules(data, c, flag, first) ==
  Series(flag.rules, first, LAMBDA before : before.res # NoResult,
         LAMBDA before, n : RuleResult(flag, n, c, AllClausesMatch(data, c, SegmentMatches(data, c),
                                                                   flag.rules[n].clauses, {}, before.st)))

OrFallthrough(flag, c, rules) ==
  IF rules.res # NoResult THEN rules
  ELSE Evaluated(VariationForContext(flag.fallthrough, flag, c, "FALLTHROUGH"), rules.st)

AfterPrerequisites(data, c, flag, prereqs, target) ==
  IF prereqs.res # NoResult THEN Evaluated(prereqs.res, prereqs.st)
  ELSE OrFallthrough(flag, c, EvaluateRules(data, c, flag, Evaluated(target, prereqs.st)))

EvaluateInternal(data, c, below, key, visited, st) ==
  IF ~data[key].on THEN Evaluated(GetOffVariation(data[key], "OFF"), st)
  ELSE AfterPrerequisites(data, c, data[key], CheckPrerequisites(data, below, key, visited, st),
                          EvalTargets(data[key], c))

Evaluations(data, c) ==
  LET evaluations[n \in 0..MaxDepth] ==
        [call \in CallsFor(data, "flag") |->
           IF n = 0 \/ Endless(call.st) THEN Evaluated(Malformed, WithoutEnd(call.st))
           ELSE EvaluateInternal(data, c, evaluations[n - 1], call.key, call.visited, call.st)]
  IN evaluations[MaxDepth]

Evaluate(data, c, key) == Evaluations(data, c)[Call(key, {}, EvalState)]
=============================================================================
