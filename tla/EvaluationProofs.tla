------------------------ MODULE EvaluationProofs -------------------------
(***************************************************************************)
(* What module Evaluation promises of the Evaluator and the data it works  *)
(* on, for every data set, context and number of changes.                  *)
(*                                                                         *)
(* The recursive functions of the Evaluator are unfolded along MaxDepth,   *)
(* and every claim about an evaluation is one about two runs of the same   *)
(* call, one level after the other.                                        *)
(***************************************************************************)
EXTENDS Evaluation, FiniteSetTheorems, SequenceTheorems, WellFoundedInduction, TLAPS

(* Induction: a set of numbers with 0 and every successor.                 *)
LEMMA AllNumbers ==
  ASSUME NEW S \in SUBSET Nat, 0 \in S, \A n \in S : n + 1 \in S
  PROVE  S = Nat
<1> SUFFICES ASSUME Nat \ S # {} PROVE FALSE
  OBVIOUS
<1> DEFINE R == OpToRel(<, Nat)
<1>1. \A x, y \in Nat : <<y, x>> \in R <=> y < x
  BY DEF OpToRel
<1>2. IsWellFoundedOn(R, Nat)
  BY NatLessThanWellFounded
<1> HIDE DEF R
<1>3. PICK n \in Nat \ S : \A m \in Nat \ S : ~(<<m, n>> \in R)
  BY <1>2, WFMin
<1>4. n - 1 \in Nat /\ n - 1 < n
  BY <1>3
<1>5. n - 1 \in S
  BY <1>1, <1>3, <1>4
<1>6. (n - 1) + 1 = n
  BY <1>3
<1> QED BY <1>3, <1>5, <1>6

(* The same up to a number.                                                *)
LEMMA AllNumbersUpTo ==
  ASSUME NEW N \in Nat, NEW S, 0 \in S, \A n \in 0..N : n \in S /\ n < N => n + 1 \in S
  PROVE  \A n \in 0..N : n \in S
<1> DEFINE T == {n \in Nat : n <= N => n \in S}
<1>1. 0 \in T
  OBVIOUS
<1>2. ASSUME NEW n \in T PROVE n + 1 \in T
  BY <1>2
<1> HIDE DEF T
<1>3. T = Nat
  <2>1. T \in SUBSET Nat
    BY DEF T
  <2> QED BY <1>1, <1>2, <2>1, AllNumbers
<1> QED BY <1>3 DEF T

(* The first k + 1 values of a function that is defined by recursion.      *)
Follows(F, b, k, g) == g[0] = b /\ \A m \in Nat : m < k => g[m + 1] = F[m + 1][g[m]]

Recursion(F, b, g) == g = [n \in Nat |-> IF n = 0 THEN b ELSE F[n][g[n - 1]]]

RecursionTo(N, F, b, g) == g = [n \in 0..N |-> IF n = 0 THEN b ELSE F[n][g[n - 1]]]

(* A function is defined by recursion on numbers.                          *)
LEMMA NatRecursion ==
  ASSUME NEW V, NEW b \in V, NEW F \in [Nat -> [V -> V]]
  PROVE  \E g \in [Nat -> V] : Recursion(F, b, g)
<1> DEFINE S == {k \in Nat : \E g \in [Nat -> V] : Follows(F, b, k, g)}
<1>1. 0 \in S
  <2>1. Follows(F, b, 0, [m \in Nat |-> b])
    BY DEF Follows
  <2> QED BY <2>1
<1>2. ASSUME NEW k \in S PROVE k + 1 \in S
  <2>1. PICK g \in [Nat -> V] : Follows(F, b, k, g)
    BY <1>2
  <2> DEFINE h == [g EXCEPT ![k + 1] = F[k + 1][g[k]]]
  <2>2. h \in [Nat -> V]
    OBVIOUS
  <2>3. h[0] = b
    BY <2>1 DEF Follows
  <2>4. ASSUME NEW m \in Nat, m < k + 1 PROVE h[m + 1] = F[m + 1][h[m]]
    <3>1. m # k + 1 /\ (m = k \/ m < k)
      BY <2>4
    <3>2. h[m] = g[m]
      BY <3>1
    <3>3. h[m + 1] = IF m = k THEN F[k + 1][g[k]] ELSE g[m + 1]
      OBVIOUS
    <3> QED BY <2>1, <3>1, <3>2, <3>3 DEF Follows
  <2>5. Follows(F, b, k + 1, h)
    BY <2>3, <2>4 DEF Follows
  <2>6. k + 1 \in Nat
    BY <1>2
  <2> HIDE DEF h
  <2> QED BY <2>2, <2>5, <2>6
<1> HIDE DEF S
<1>3. S = Nat
  <2>1. S \in SUBSET Nat
    BY DEF S
  <2> QED BY <1>1, <1>2, <2>1, AllNumbers
<1> DEFINE G(n) == CHOOSE g \in [Nat -> V] : Follows(F, b, n, g)
           r == [n \in Nat |-> G(n)[n]]
<1>4. \A n \in Nat : G(n) \in [Nat -> V] /\ Follows(F, b, n, G(n))
  BY <1>3 DEF S
<1> HIDE DEF G
<1>5. ASSUME NEW n \in Nat, NEW k \in Nat PROVE n <= k => G(n)[n] = G(k)[n]
  <2> DEFINE A == {m \in Nat : m <= n /\ m <= k => G(n)[m] = G(k)[m]}
  <2>1. 0 \in A
    BY <1>4 DEF Follows
  <2>2. ASSUME NEW m \in A PROVE m + 1 \in A
    <3>1. m \in Nat /\ m + 1 \in Nat
      BY <2>2
    <3>2. m < n => G(n)[m + 1] = F[m + 1][G(n)[m]]
      BY <3>1, <1>4 DEF Follows
    <3>3. m < k => G(k)[m + 1] = F[m + 1][G(k)[m]]
      BY <3>1, <1>4 DEF Follows
    <3> QED BY <2>2, <3>1, <3>2, <3>3
  <2> HIDE DEF A
  <2>3. A = Nat
    <3>1. A \in SUBSET Nat
      BY DEF A
    <3> QED BY <2>1, <2>2, <3>1, AllNumbers
  <2> QED BY <2>3 DEF A
<1>6. r \in [Nat -> V]
  BY <1>4
<1>7. r[0] = b
  BY <1>4 DEF Follows
<1>8. ASSUME NEW n \in Nat PROVE r[n + 1] = F[n + 1][r[n]]
  <2>1. n + 1 \in Nat /\ n < n + 1 /\ n <= n + 1
    OBVIOUS
  <2>2. G(n + 1)[n + 1] = F[n + 1][G(n + 1)[n]]
    BY <1>4, <2>1 DEF Follows
  <2>3. G(n)[n] = G(n + 1)[n]
    BY <1>5, <2>1
  <2> QED BY <2>1, <2>2, <2>3
<1>9. ASSUME NEW n \in Nat, n # 0 PROVE r[n] = F[n][r[n - 1]]
  <2>1. n - 1 \in Nat /\ (n - 1) + 1 = n
    BY <1>9
  <2> QED BY <1>8, <2>1
<1> HIDE DEF r
<1>10. Recursion(F, b, r)
  BY <1>6, <1>7, <1>9 DEF Recursion
<1> QED BY <1>6, <1>10

(* The same up to a number.                                                *)
LEMMA BoundedRecursion ==
  ASSUME NEW N \in Nat, NEW V, NEW b \in V, NEW F \in [1..N -> [V -> V]]
  PROVE  \E g \in [0..N -> V] : RecursionTo(N, F, b, g)
<1> DEFINE F2 == [n \in Nat |-> IF n \in 1..N THEN F[n] ELSE [v \in V |-> v]]
<1>1. F2 \in [Nat -> [V -> V]]
  OBVIOUS
<1>2. \A n \in 1..N : F2[n] = F[n]
  OBVIOUS
<1> HIDE DEF F2
<1>3. PICK g \in [Nat -> V] : Recursion(F2, b, g)
  BY <1>1, NatRecursion
<1> DEFINE h == [n \in 0..N |-> g[n]]
<1>4. h \in [0..N -> V]
  OBVIOUS
<1>5. ASSUME NEW n \in 0..N PROVE h[n] = IF n = 0 THEN b ELSE F[n][h[n - 1]]
  <2>1. CASE n = 0
    BY <1>3, <2>1 DEF Recursion
  <2>2. CASE n # 0
    <3>1. n \in 1..N /\ n - 1 \in 0..N /\ n \in Nat
      BY <2>2
    <3>2. g[n] = F2[n][g[n - 1]]
      BY <1>3, <2>2, <3>1 DEF Recursion
    <3> QED BY <1>2, <2>2, <3>1, <3>2
  <2> QED BY <2>1, <2>2
<1> HIDE DEF h
<1> QED BY <1>4, <1>5 DEF RecursionTo

-----------------------------------------------------------------------------
(* Serialization.                                                          *)

(* What is generated for a rollout is taken out again.                     *)
LEMMA RolloutBack ==
  ASSUME NEW r \in Rollouts
  PROVE  ReplaceRollout(ProcessRollout(r)) = r
  BY DEF Rollouts, ReplaceRollout, ProcessRollout

(* What is generated for a clause is taken out again.                      *)
LEMMA ClauseBack ==
  ASSUME NEW c \in Clauses
  PROVE  ReplaceClause(ProcessClause(c)) = c
  BY DEF Clauses, ReplaceClause, ProcessClause

(* A list of keys becomes a set if it is long, and a list again.           *)
LEMMA KeysBack ==
  ASSUME NEW keys \in KeyLists
  PROVE  Degenerate(Generate(keys)) = keys
<1>1. keys = [list |-> keys.list, set |-> {}]
  BY DEF KeyLists
<1>2. CASE Cardinality(keys.list) > ArrayCutoff
  <2>1. keys.list # {}
    BY <1>2, FS_EmptySet, SerializationAssumption
  <2> QED BY <1>1, <1>2, <2>1 DEF Degenerate, Generate
<1>3. CASE ~(Cardinality(keys.list) > ArrayCutoff)
  BY <1>1, <1>3 DEF Degenerate, Generate
<1> QED BY <1>2, <1>3


RolloutsThere(seq) == Each(seq, ProcessRollout)
RolloutsBack(seq) == Each(seq, ReplaceRollout)
ClausesThere(seq) == Each(seq, ProcessClause)
ClausesBack(seq) == Each(seq, ReplaceClause)

(* The rollouts of a rule, there and back.                                 *)
LEMMA AllRolloutsBack ==
  ASSUME NEW seq \in Seq(Rollouts)
  PROVE  RolloutsBack(RolloutsThere(seq)) = seq
<1>1. \A n \in DOMAIN seq : seq[n] \in Rollouts
  BY ElementOfSeq, LenProperties
<1>2. \A n \in DOMAIN seq : ReplaceRollout(ProcessRollout(seq[n])) = seq[n]
  BY <1>1, RolloutBack
<1>3. RolloutsBack(RolloutsThere(seq)) = [n \in DOMAIN seq |-> ReplaceRollout(ProcessRollout(seq[n]))]
  BY DEF Each, RolloutsBack, RolloutsThere
<1>4. [n \in DOMAIN seq |-> ReplaceRollout(ProcessRollout(seq[n]))] = [n \in DOMAIN seq |-> seq[n]]
  BY <1>2
<1>5. [n \in DOMAIN seq |-> seq[n]] = seq
  OBVIOUS
<1> QED BY <1>3, <1>4, <1>5

(* The clauses of a rule, there and back.                                  *)
LEMMA AllClausesBack ==
  ASSUME NEW seq \in Seq(Clauses)
  PROVE  ClausesBack(ClausesThere(seq)) = seq
<1>1. \A n \in DOMAIN seq : seq[n] \in Clauses
  BY ElementOfSeq, LenProperties
<1>2. \A n \in DOMAIN seq : ReplaceClause(ProcessClause(seq[n])) = seq[n]
  BY <1>1, ClauseBack
<1>3. ClausesBack(ClausesThere(seq)) = [n \in DOMAIN seq |-> ReplaceClause(ProcessClause(seq[n]))]
  BY DEF Each, ClausesBack, ClausesThere
<1>4. [n \in DOMAIN seq |-> ReplaceClause(ProcessClause(seq[n]))] = [n \in DOMAIN seq |-> seq[n]]
  BY <1>2
<1>5. [n \in DOMAIN seq |-> seq[n]] = seq
  OBVIOUS
<1> QED BY <1>3, <1>4, <1>5

FlagRuleThere(r) == [r EXCEPT !.rollout = RolloutsThere(@), !.clauses = ClausesThere(@)]
FlagRuleBack(r) == [r EXCEPT !.rollout = RolloutsBack(@), !.clauses = ClausesBack(@)]
FlagRulesThere(seq) == Each(seq, FlagRuleThere)
FlagRulesBack(seq) == Each(seq, FlagRuleBack)

(* A rule of a flag, there and back.                                       *)
LEMMA FlagRuleIsBack ==
  ASSUME NEW r \in FlagRules
  PROVE  FlagRuleBack(FlagRuleThere(r)) = r
<1>1. r.rollout \in Seq(Rollouts) /\ r.clauses \in Seq(Clauses)
  BY DEF FlagRules
<1>2. RolloutsBack(RolloutsThere(r.rollout)) = r.rollout /\ ClausesBack(ClausesThere(r.clauses)) = r.clauses
  BY <1>1, AllRolloutsBack, AllClausesBack
<1>3. r = [clauses |-> r.clauses, variation |-> r.variation, rollout |-> r.rollout, trackEvents |-> r.trackEvents]
  BY DEF FlagRules
<1> QED BY <1>2, <1>3 DEF FlagRuleBack, FlagRuleThere

(* All rules of a flag, there and back.                                    *)
LEMMA AllFlagRulesBack ==
  ASSUME NEW seq \in Seq(FlagRules)
  PROVE  FlagRulesBack(FlagRulesThere(seq)) = seq
<1>1. \A n \in DOMAIN seq : seq[n] \in FlagRules
  BY ElementOfSeq, LenProperties
<1>2. \A n \in DOMAIN seq : FlagRuleBack(FlagRuleThere(seq[n])) = seq[n]
  BY <1>1, FlagRuleIsBack
<1>3. FlagRulesBack(FlagRulesThere(seq)) = [n \in DOMAIN seq |-> FlagRuleBack(FlagRuleThere(seq[n]))]
  BY DEF Each, FlagRulesBack, FlagRulesThere
<1>4. [n \in DOMAIN seq |-> FlagRuleBack(FlagRuleThere(seq[n]))] = [n \in DOMAIN seq |-> seq[n]]
  BY <1>2
<1>5. [n \in DOMAIN seq |-> seq[n]] = seq
  OBVIOUS
<1> QED BY <1>3, <1>4, <1>5

(* A flag that is written and read back is the flag that was received.     *)
LEMMA FlagBack ==
  ASSUME NEW x \in Flags
  PROVE  SerializeFlag(ProcessFlag(x)) = x
<1>1. /\ x.rules \in Seq(FlagRules)
      /\ x.fallthrough = [variation |-> x.fallthrough.variation, rollout |-> x.fallthrough.rollout]
      /\ x.fallthrough.rollout \in Seq(Rollouts)
  BY DEF Flags, VariationOrRollout
<1>2. /\ RolloutsBack(RolloutsThere(x.fallthrough.rollout)) = x.fallthrough.rollout
      /\ FlagRulesBack(FlagRulesThere(x.rules)) = x.rules
  BY <1>1, AllRolloutsBack, AllFlagRulesBack
<1>3. ProcessFlag(x) = [x EXCEPT !.fallthrough.rollout = RolloutsThere(@), !.rules = FlagRulesThere(@)]
  BY DEF ProcessFlag, RolloutsThere, FlagRulesThere, FlagRuleThere, ClausesThere
<1>4. SerializeFlag(ProcessFlag(x)) = [ProcessFlag(x) EXCEPT !.fallthrough.rollout = RolloutsBack(@), !.rules = FlagRulesBack(@)]
  BY DEF SerializeFlag, RolloutsBack, FlagRulesBack, FlagRuleBack, ClausesBack
<1> DEFINE a == [x.fallthrough EXCEPT !.rollout = RolloutsThere(@)]
           b == FlagRulesThere(x.rules)
<1>5. ProcessFlag(x) = [x EXCEPT !.fallthrough = a, !.rules = b]
  BY <1>3 DEF Flags
<1>6. a = [variation |-> x.fallthrough.variation, rollout |-> RolloutsThere(x.fallthrough.rollout)]
  BY <1>1
<1>7. ProcessFlag(x).fallthrough = a /\ ProcessFlag(x).rules = b
  BY <1>5 DEF Flags
<1>8. [a EXCEPT !.rollout = RolloutsBack(@)] = x.fallthrough
  BY <1>1, <1>2, <1>6
<1> HIDE DEF a, b
<1>9. SerializeFlag(ProcessFlag(x)) = [ProcessFlag(x) EXCEPT !.fallthrough = x.fallthrough, !.rules = x.rules]
  BY <1>2, <1>4, <1>7, <1>8, Zenon DEF b
<1>10. [[x EXCEPT !.fallthrough = a, !.rules = b] EXCEPT !.fallthrough = x.fallthrough, !.rules = x.rules] = x
  BY DEF Flags
<1> QED BY <1>5, <1>9, <1>10, Zenon

SegmentRuleThere(r) == [ProcessRollout(r) EXCEPT !.clauses = ClausesThere(@)]
SegmentRuleBack(r) == [ReplaceRollout(r) EXCEPT !.clauses = ClausesBack(@)]
SegmentRulesThere(seq) == Each(seq, SegmentRuleThere)
SegmentRulesBack(seq) == Each(seq, SegmentRuleBack)

(* A rule of a segment, there and back.                                    *)
LEMMA SegmentRuleIsBack ==
  ASSUME NEW r \in SegmentRules
  PROVE  SegmentRuleBack(SegmentRuleThere(r)) = r
<1>1. ClausesBack(ClausesThere(r.clauses)) = r.clauses
  BY AllClausesBack DEF SegmentRules
<1>2. r = [clauses |-> r.clauses, weight |-> r.weight, bucketBy |-> r.bucketBy, bucketByReference |-> NoReference,
           contextKind |-> r.contextKind]
  BY DEF SegmentRules
<1> DEFINE rule(clauses, reference) ==
             [clauses |-> clauses, weight |-> r.weight, bucketBy |-> r.bucketBy, bucketByReference |-> reference,
              contextKind |-> r.contextKind]
<1>3. PICK reference : ProcessRollout(r) = rule(r.clauses, reference)
  <2>1. PICK a : ProcessRollout(r) = [r EXCEPT !.bucketByReference = a]
    BY <1>2 DEF ProcessRollout
  <2> QED BY <1>2, <2>1
<1>4. SegmentRuleThere(r) = rule(ClausesThere(r.clauses), reference)
  <2>1. SegmentRuleThere(r) = [rule(r.clauses, reference) EXCEPT !.clauses = ClausesThere(@)]
    BY <1>3, Zenon DEF SegmentRuleThere
  <2> QED BY <2>1
<1>5. ReplaceRollout(rule(ClausesThere(r.clauses), reference)) = rule(ClausesThere(r.clauses), NoReference)
  BY DEF ReplaceRollout
<1>6. SegmentRuleBack(SegmentRuleThere(r)) = [rule(ClausesThere(r.clauses), NoReference) EXCEPT !.clauses = ClausesBack(@)]
  BY <1>4, <1>5, Zenon DEF SegmentRuleBack
<1>7. SegmentRuleBack(SegmentRuleThere(r)) = rule(r.clauses, NoReference)
  BY <1>1, <1>6
<1> QED BY <1>2, <1>7

(* All rules of a segment, there and back.                                 *)
LEMMA AllSegmentRulesBack ==
  ASSUME NEW seq \in Seq(SegmentRules)
  PROVE  SegmentRulesBack(SegmentRulesThere(seq)) = seq
<1>1. \A n \in DOMAIN seq : seq[n] \in SegmentRules
  BY ElementOfSeq, LenProperties
<1>2. \A n \in DOMAIN seq : SegmentRuleBack(SegmentRuleThere(seq[n])) = seq[n]
  BY <1>1, SegmentRuleIsBack
<1>3. SegmentRulesBack(SegmentRulesThere(seq)) = [n \in DOMAIN seq |-> SegmentRuleBack(SegmentRuleThere(seq[n]))]
  BY DEF Each, SegmentRulesBack, SegmentRulesThere
<1>4. [n \in DOMAIN seq |-> SegmentRuleBack(SegmentRuleThere(seq[n]))] = [n \in DOMAIN seq |-> seq[n]]
  BY <1>2
<1>5. [n \in DOMAIN seq |-> seq[n]] = seq
  OBVIOUS
<1> QED BY <1>3, <1>4, <1>5

TargetThere(t) == [t EXCEPT !.values = Generate(@)]
TargetBack(t) == [t EXCEPT !.values = Degenerate(@)]
TargetsThere(seq) == Each(seq, TargetThere)
TargetsBack(seq) == Each(seq, TargetBack)

(* The keys of other contexts, there and back.                             *)
LEMMA AllTargetsBack ==
  ASSUME NEW seq \in Seq(SegmentTargets)
  PROVE  TargetsBack(TargetsThere(seq)) = seq
<1>1. \A n \in DOMAIN seq : seq[n] \in SegmentTargets
  BY ElementOfSeq, LenProperties
<1>2. ASSUME NEW t \in SegmentTargets PROVE TargetBack(TargetThere(t)) = t
  <2>1. Degenerate(Generate(t.values)) = t.values
    BY KeysBack DEF SegmentTargets
  <2> QED BY <2>1 DEF TargetBack, TargetThere, SegmentTargets
<1>3. \A n \in DOMAIN seq : TargetBack(TargetThere(seq[n])) = seq[n]
  BY <1>1, <1>2
<1>4. TargetsBack(TargetsThere(seq)) = [n \in DOMAIN seq |-> TargetBack(TargetThere(seq[n]))]
  BY DEF Each, TargetsBack, TargetsThere
<1>5. [n \in DOMAIN seq |-> TargetBack(TargetThere(seq[n]))] = [n \in DOMAIN seq |-> seq[n]]
  BY <1>3
<1>6. [n \in DOMAIN seq |-> seq[n]] = seq
  OBVIOUS
<1> QED BY <1>4, <1>5, <1>6

(* A segment that is written and read back is the one that was received.   *)
LEMMA SegmentBack ==
  ASSUME NEW x \in Segments
  PROVE  SerializeSegment(ProcessSegment(x)) = x
<1> DEFINE a == Generate(x.included)
           b == Generate(x.excluded)
           c == TargetsThere(x.includedContexts)
           d == TargetsThere(x.excludedContexts)
           e == SegmentRulesThere(x.rules)
<1>1. /\ Degenerate(a) = x.included /\ Degenerate(b) = x.excluded
      /\ TargetsBack(c) = x.includedContexts /\ TargetsBack(d) = x.excludedContexts
      /\ SegmentRulesBack(e) = x.rules
  BY KeysBack, AllTargetsBack, AllSegmentRulesBack DEF Segments
<1>2. ProcessSegment(x) = [x EXCEPT !.included = Generate(@), !.excluded = Generate(@), !.includedContexts = TargetsThere(@),
                                    !.excludedContexts = TargetsThere(@), !.rules = SegmentRulesThere(@)]
  BY DEF ProcessSegment, TargetsThere, TargetThere, SegmentRulesThere, SegmentRuleThere, ClausesThere
<1>3. ProcessSegment(x) = [x EXCEPT !.included = a, !.excluded = b, !.includedContexts = c, !.excludedContexts = d, !.rules = e]
  BY <1>2 DEF Segments
<1>4. SerializeSegment(ProcessSegment(x)) =
        [ProcessSegment(x) EXCEPT !.included = Degenerate(@), !.excluded = Degenerate(@), !.includedContexts = TargetsBack(@),
                                  !.excludedContexts = TargetsBack(@), !.rules = SegmentRulesBack(@)]
  BY DEF SerializeSegment, TargetsBack, TargetBack, SegmentRulesBack, SegmentRuleBack, ClausesBack
<1>5. /\ ProcessSegment(x).included = a /\ ProcessSegment(x).excluded = b /\ ProcessSegment(x).rules = e
      /\ ProcessSegment(x).includedContexts = c /\ ProcessSegment(x).excludedContexts = d
  BY <1>3 DEF Segments
<1> HIDE DEF a, b, c, d, e
<1>6. SerializeSegment(ProcessSegment(x)) =
        [ProcessSegment(x) EXCEPT !.included = x.included, !.excluded = x.excluded, !.includedContexts = x.includedContexts,
                                  !.excludedContexts = x.excludedContexts, !.rules = x.rules]
  BY <1>1, <1>4, <1>5, Zenon
<1>7. [[x EXCEPT !.included = a, !.excluded = b, !.includedContexts = c, !.excludedContexts = d, !.rules = e]
          EXCEPT !.included = x.included, !.excluded = x.excluded, !.includedContexts = x.includedContexts,
                 !.excludedContexts = x.excludedContexts, !.rules = x.rules] = x
  BY DEF Segments
<1> QED BY <1>3, <1>6, <1>7, Zenon

-----------------------------------------------------------------------------
(* What is null.                                                           *)

NotNull(c) == \A v \in c.values : v.type \notin {"null", "undefined"}

(* A clause has holes in the place of nulls, and is as it was without.     *)
LEMMA ClauseRevived ==
  ASSUME NEW c \in Clauses
  PROVE  ReviveClause(c) \in Clauses /\ (NotNull(c) => ReviveClause(c) = c)
<1> DEFINE values == {IF v.type = "null" THEN Undefined ELSE v : v \in c.values}
<1>1. ReviveClause(c) = [c EXCEPT !.values = values]
  BY DEF ReviveClause
<1>2. c.values \in SUBSET Values
  BY DEF Clauses
<1>3. values \in SUBSET Values
  BY <1>2 DEF Values, Undefined
<1>4. NotNull(c) => values = c.values
  BY DEF NotNull
<1> HIDE DEF values
<1>5. [c EXCEPT !.values = values] \in Clauses
  BY <1>3 DEF Clauses
<1>6. [c EXCEPT !.values = c.values] = c
  BY DEF Clauses
<1> QED BY <1>1, <1>4, <1>5, <1>6

ClausesRevived(seq) == Each(seq, ReviveClause)

ClausesNotNull(seq) == \A n \in DOMAIN seq : NotNull(seq[n])

(* So are the clauses of a rule.                                           *)
LEMMA AllClausesRevived ==
  ASSUME NEW seq \in Seq(Clauses)
  PROVE  ClausesRevived(seq) \in Seq(Clauses) /\ (ClausesNotNull(seq) => ClausesRevived(seq) = seq)
<1>1. \A n \in DOMAIN seq : seq[n] \in Clauses
  BY ElementOfSeq, LenProperties
<1>2. ClausesRevived(seq) = [n \in DOMAIN seq |-> ReviveClause(seq[n])]
  BY DEF ClausesRevived, Each
<1>3. \A n \in DOMAIN seq : ReviveClause(seq[n]) \in Clauses /\ (NotNull(seq[n]) => ReviveClause(seq[n]) = seq[n])
  BY <1>1, ClauseRevived
<1>4. [n \in DOMAIN seq |-> ReviveClause(seq[n])] \in Seq(Clauses)
  BY <1>3
<1>5. ClausesNotNull(seq) => [n \in DOMAIN seq |-> ReviveClause(seq[n])] = [n \in DOMAIN seq |-> seq[n]]
  BY <1>3 DEF ClausesNotNull
<1>6. [n \in DOMAIN seq |-> seq[n]] = seq
  OBVIOUS
<1> QED BY <1>2, <1>4, <1>5, <1>6

RuleRevived(r) == [r EXCEPT !.clauses = ClausesRevived(@)]
RulesRevived(seq) == Each(seq, RuleRevived)

RulesNotNull(seq) == \A n \in DOMAIN seq : ClausesNotNull(seq[n].clauses)

(* The rules of flags.                                                     *)
LEMMA FlagRulesRevived ==
  ASSUME NEW seq \in Seq(FlagRules)
  PROVE  RulesRevived(seq) \in Seq(FlagRules) /\ (RulesNotNull(seq) => RulesRevived(seq) = seq)
<1>1. \A n \in DOMAIN seq : seq[n] \in FlagRules
  BY ElementOfSeq, LenProperties
<1>2. RulesRevived(seq) = [n \in DOMAIN seq |-> RuleRevived(seq[n])]
  BY DEF RulesRevived, Each
<1>3. ASSUME NEW r \in FlagRules
      PROVE  RuleRevived(r) \in FlagRules /\ (ClausesNotNull(r.clauses) => RuleRevived(r) = r)
  <2>1. r.clauses \in Seq(Clauses)
    BY DEF FlagRules
  <2>2. ClausesRevived(r.clauses) \in Seq(Clauses) /\ (ClausesNotNull(r.clauses) => ClausesRevived(r.clauses) = r.clauses)
    BY <2>1, AllClausesRevived
  <2> QED BY <2>2 DEF RuleRevived, FlagRules
<1>4. \A n \in DOMAIN seq :
        RuleRevived(seq[n]) \in FlagRules /\ (ClausesNotNull(seq[n].clauses) => RuleRevived(seq[n]) = seq[n])
  BY <1>1, <1>3
<1>5. [n \in DOMAIN seq |-> RuleRevived(seq[n])] \in Seq(FlagRules)
  BY <1>4
<1>6. RulesNotNull(seq) => [n \in DOMAIN seq |-> RuleRevived(seq[n])] = [n \in DOMAIN seq |-> seq[n]]
  BY <1>4 DEF RulesNotNull
<1>7. [n \in DOMAIN seq |-> seq[n]] = seq
  OBVIOUS
<1> QED BY <1>2, <1>5, <1>6, <1>7

(* And those of segments.                                                  *)
LEMMA SegmentRulesRevived ==
  ASSUME NEW seq \in Seq(SegmentRules)
  PROVE  RulesRevived(seq) \in Seq(SegmentRules) /\ (RulesNotNull(seq) => RulesRevived(seq) = seq)
<1>1. \A n \in DOMAIN seq : seq[n] \in SegmentRules
  BY ElementOfSeq, LenProperties
<1>2. RulesRevived(seq) = [n \in DOMAIN seq |-> RuleRevived(seq[n])]
  BY DEF RulesRevived, Each
<1>3. ASSUME NEW r \in SegmentRules
      PROVE  RuleRevived(r) \in SegmentRules /\ (ClausesNotNull(r.clauses) => RuleRevived(r) = r)
  <2>1. r.clauses \in Seq(Clauses)
    BY DEF SegmentRules
  <2>2. ClausesRevived(r.clauses) \in Seq(Clauses) /\ (ClausesNotNull(r.clauses) => ClausesRevived(r.clauses) = r.clauses)
    BY <2>1, AllClausesRevived
  <2> QED BY <2>2 DEF RuleRevived, SegmentRules
<1>4. \A n \in DOMAIN seq :
        RuleRevived(seq[n]) \in SegmentRules /\ (ClausesNotNull(seq[n].clauses) => RuleRevived(seq[n]) = seq[n])
  BY <1>1, <1>3
<1>5. [n \in DOMAIN seq |-> RuleRevived(seq[n])] \in Seq(SegmentRules)
  BY <1>4
<1>6. RulesNotNull(seq) => [n \in DOMAIN seq |-> RuleRevived(seq[n])] = [n \in DOMAIN seq |-> seq[n]]
  BY <1>4 DEF RulesNotNull
<1>7. [n \in DOMAIN seq |-> seq[n]] = seq
  OBVIOUS
<1> QED BY <1>2, <1>5, <1>6, <1>7

(* What can be received as an item.                                        *)
Received(i) == {NoItem} \cup IF i \in Flag THEN Flags ELSE Segments

(* An item that is parsed is one, and as it was if it has no null.         *)
LEMMA ItemRevived ==
  ASSUME NEW i \in Item, NEW x \in Received(i)
  PROVE  /\ Revive(x) \in Received(i)
         /\ x # NoItem /\ RulesNotNull(x.rules) => Revive(x) = x
         /\ x = NoItem => Revive(x) = x
<1>1. x.kind \in {"flag", "segment"} => Revive(x) = [x EXCEPT !.rules = RulesRevived(@)]
  BY DEF Revive, RulesRevived, RuleRevived, ClausesRevived
<1>2. CASE i \in Flag /\ x \in Flags
  <2>1. x.kind = "flag" /\ x.rules \in Seq(FlagRules) /\ x # NoItem
    BY <1>2 DEF Flags, NoItem
  <2>2. RulesRevived(x.rules) \in Seq(FlagRules) /\ (RulesNotNull(x.rules) => RulesRevived(x.rules) = x.rules)
    BY <2>1, FlagRulesRevived
  <2>3. Revive(x) = [x EXCEPT !.rules = RulesRevived(x.rules)]
    BY <1>1, <2>1
  <2>4. [x EXCEPT !.rules = RulesRevived(x.rules)] \in Flags /\ [x EXCEPT !.rules = x.rules] = x
    BY <1>2, <2>2 DEF Flags
  <2> QED BY <1>2, <2>1, <2>2, <2>3, <2>4 DEF Received
<1>3. CASE i \notin Flag /\ x \in Segments
  <2>1. x.kind = "segment" /\ x.rules \in Seq(SegmentRules) /\ x # NoItem
    BY <1>3 DEF Segments, NoItem
  <2>2. RulesRevived(x.rules) \in Seq(SegmentRules) /\ (RulesNotNull(x.rules) => RulesRevived(x.rules) = x.rules)
    BY <2>1, SegmentRulesRevived
  <2>3. Revive(x) = [x EXCEPT !.rules = RulesRevived(x.rules)]
    BY <1>1, <2>1
  <2>4. [x EXCEPT !.rules = RulesRevived(x.rules)] \in Segments /\ [x EXCEPT !.rules = x.rules] = x
    BY <1>3, <2>2 DEF Segments
  <2> QED BY <1>3, <2>1, <2>2, <2>3, <2>4 DEF Received
<1>4. CASE x = NoItem
  BY <1>4 DEF NoItem, Revive, Received
<1> QED BY <1>2, <1>3, <1>4 DEF Received

(* Processing adds no null to a clause and takes none from it.             *)
LEMMA ClausesThereNull ==
  ASSUME NEW seq \in Seq(Clauses), NEW n \in DOMAIN seq
  PROVE  n \in DOMAIN ClausesThere(seq) /\ ClausesThere(seq)[n].values = seq[n].values
<1>1. seq[n] \in Clauses
  BY ElementOfSeq, LenProperties
<1>2. ClausesThere(seq)[n] = ProcessClause(seq[n]) /\ DOMAIN ClausesThere(seq) = DOMAIN seq
  BY DEF ClausesThere, Each
<1>3. ProcessClause(seq[n]).values = seq[n].values
  BY <1>1 DEF ProcessClause, Clauses
<1> QED BY <1>2, <1>3

(* y is of the kind of x, and has its rules.                               *)
SameRules(x, y) ==
  /\ x.kind \in {"flag", "segment"} /\ y.kind = x.kind /\ DOMAIN y.rules = DOMAIN x.rules
  /\ \A n \in DOMAIN x.rules : x.rules[n].clauses \in Seq(Clauses) /\ y.rules[n].clauses = ClausesThere(x.rules[n].clauses)

(* What can be written of an item that was processed has no null.          *)
LEMMA WrittenHasNoNull ==
  ASSUME NEW x, NEW y, SameRules(x, y), ~HasNull(y)
  PROVE  RulesNotNull(x.rules)
<1> SUFFICES ASSUME NEW n \in DOMAIN x.rules, NEW m \in DOMAIN x.rules[n].clauses
             PROVE  NotNull(x.rules[n].clauses[m])
  BY DEF RulesNotNull, ClausesNotNull
<1> DEFINE clauses == x.rules[n].clauses
           there == y.rules[n].clauses
<1>1. clauses \in Seq(Clauses) /\ there = ClausesThere(clauses)
  BY DEF SameRules
<1>2. m \in DOMAIN there /\ there[m].values = clauses[m].values
  BY <1>1, ClausesThereNull
<1>3. y.rules[n] \in ToSet(y.rules) /\ there[m] \in ToSet(there)
  BY <1>2 DEF ToSet, SameRules
<1>4. \A r \in ToSet(y.rules) : \A clause \in ToSet(r.clauses) :
        ~ \E v \in clause.values : v.type \in {"null", "undefined"}
  BY DEF HasNull, SameRules
<1>5. ~ \E v \in there[m].values : v.type \in {"null", "undefined"}
  BY <1>3, <1>4
<1> QED BY <1>2, <1>5 DEF NotNull

(* Processing keeps the kind, and the places of rules.                     *)
LEMMA RulesThere ==
  /\ \A x \in Flags : LET y == ProcessFlag(x) IN
       /\ x.kind = "flag" /\ y.kind = "flag" /\ DOMAIN y.rules = DOMAIN x.rules
       /\ \A n \in DOMAIN x.rules : x.rules[n].clauses \in Seq(Clauses) /\ y.rules[n].clauses = ClausesThere(x.rules[n].clauses)
  /\ \A x \in Segments : LET y == ProcessSegment(x) IN
       /\ x.kind = "segment" /\ y.kind = "segment" /\ DOMAIN y.rules = DOMAIN x.rules
       /\ \A n \in DOMAIN x.rules : x.rules[n].clauses \in Seq(Clauses) /\ y.rules[n].clauses = ClausesThere(x.rules[n].clauses)
<1>1. ASSUME NEW x \in Flags
      PROVE  LET y == ProcessFlag(x) IN
             /\ x.kind = "flag" /\ y.kind = "flag" /\ DOMAIN y.rules = DOMAIN x.rules
             /\ \A n \in DOMAIN x.rules : x.rules[n].clauses \in Seq(Clauses) /\ y.rules[n].clauses = ClausesThere(x.rules[n].clauses)
  <2> DEFINE y == ProcessFlag(x)
  <2>1. x.kind = "flag" /\ y.kind = "flag" /\ y.rules = FlagRulesThere(x.rules) /\ x.rules \in Seq(FlagRules)
    <3>1. y = [x EXCEPT !.fallthrough.rollout = RolloutsThere(@), !.rules = FlagRulesThere(@)]
      BY DEF ProcessFlag, RolloutsThere, FlagRulesThere, FlagRuleThere, ClausesThere
    <3> QED BY <3>1 DEF Flags
  <2> HIDE DEF y
  <2>2. DOMAIN y.rules = DOMAIN x.rules /\ \A n \in DOMAIN x.rules : y.rules[n] = FlagRuleThere(x.rules[n])
    BY <2>1 DEF FlagRulesThere, Each
  <2>3. \A n \in DOMAIN x.rules : x.rules[n] \in FlagRules
    BY <2>1, ElementOfSeq, LenProperties
  <2>4. \A r \in FlagRules : r.clauses \in Seq(Clauses) /\ FlagRuleThere(r).clauses = ClausesThere(r.clauses)
    BY DEF FlagRules, FlagRuleThere
  <2> QED BY <2>1, <2>2, <2>3, <2>4 DEF y
<1>2. ASSUME NEW x \in Segments
      PROVE  LET y == ProcessSegment(x) IN
             /\ x.kind = "segment" /\ y.kind = "segment" /\ DOMAIN y.rules = DOMAIN x.rules
             /\ \A n \in DOMAIN x.rules : x.rules[n].clauses \in Seq(Clauses) /\ y.rules[n].clauses = ClausesThere(x.rules[n].clauses)
  <2> DEFINE y == ProcessSegment(x)
  <2>1. x.kind = "segment" /\ y.kind = "segment" /\ y.rules = SegmentRulesThere(x.rules) /\ x.rules \in Seq(SegmentRules)
    <3> DEFINE rules == SegmentRulesThere(x.rules)
    <3>1. y = [x EXCEPT !.included = Generate(@), !.excluded = Generate(@), !.includedContexts = TargetsThere(@),
                        !.excludedContexts = TargetsThere(@), !.rules = SegmentRulesThere(@)]
      BY DEF ProcessSegment, TargetsThere, TargetThere, SegmentRulesThere, SegmentRuleThere, ClausesThere
    <3> QED BY <3>1 DEF Segments
  <2> HIDE DEF y
  <2>2. DOMAIN y.rules = DOMAIN x.rules /\ \A n \in DOMAIN x.rules : y.rules[n] = SegmentRuleThere(x.rules[n])
    BY <2>1 DEF SegmentRulesThere, Each
  <2>3. \A n \in DOMAIN x.rules : x.rules[n] \in SegmentRules
    BY <2>1, ElementOfSeq, LenProperties
  <2>4. \A r \in SegmentRules : r.clauses \in Seq(Clauses) /\ SegmentRuleThere(r).clauses = ClausesThere(r.clauses)
    BY DEF SegmentRules, SegmentRuleThere, ProcessRollout
  <2> QED BY <2>1, <2>2, <2>3, <2>4 DEF y
<1> QED BY <1>1, <1>2

(* What is received, written and read back is as it was received.          *)
LEMMA ItemBack ==
  ASSUME NEW i \in Item, NEW x \in Received(i)
  PROVE  IF HasNull(Process(x)) THEN Serialize(Process(x)) = Throws
         ELSE Deserialize(Serialize(Process(x))) = Process(x)
<1> SUFFICES ASSUME ~HasNull(Process(x)) PROVE Process(Revive(Serialize(Process(x)))) = Process(x)
  BY DEF Serialize, Deserialize
<1>1. CASE i \in Flag /\ x \in Flags
  <2> DEFINE y == ProcessFlag(x)
  <2>1. /\ x.kind = "flag" /\ y.kind = "flag" /\ DOMAIN y.rules = DOMAIN x.rules
        /\ \A n \in DOMAIN x.rules : x.rules[n].clauses \in Seq(Clauses) /\ y.rules[n].clauses = ClausesThere(x.rules[n].clauses)
    BY <1>1, RulesThere
  <2>2. Process(x) = y
    BY <2>1 DEF Process
  <2> HIDE DEF y
  <2>3. Serialize(y) = SerializeFlag(y)
    BY <2>1, <2>2 DEF Serialize
  <2>4. SerializeFlag(y) = x
    BY <1>1, FlagBack DEF y
  <2>5. RulesNotNull(x.rules) /\ x # NoItem
    <3>1. SameRules(x, y)
      BY <2>1 DEF SameRules
    <3>2. ~HasNull(y)
      BY <2>2
    <3> QED BY <2>1, <3>1, <3>2, WrittenHasNoNull DEF NoItem
  <2>6. Revive(x) = x
    BY <2>5, ItemRevived
  <2> QED BY <2>2, <2>3, <2>4, <2>6
<1>2. CASE i \notin Flag /\ x \in Segments
  <2> DEFINE y == ProcessSegment(x)
  <2>1. /\ x.kind = "segment" /\ y.kind = "segment" /\ DOMAIN y.rules = DOMAIN x.rules
        /\ \A n \in DOMAIN x.rules : x.rules[n].clauses \in Seq(Clauses) /\ y.rules[n].clauses = ClausesThere(x.rules[n].clauses)
    BY <1>2, RulesThere
  <2>2. Process(x) = y
    BY <2>1 DEF Process
  <2> HIDE DEF y
  <2>3. Serialize(y) = SerializeSegment(y)
    BY <2>1, <2>2 DEF Serialize
  <2>4. SerializeSegment(y) = x
    BY <1>2, SegmentBack DEF y
  <2>5. RulesNotNull(x.rules) /\ x # NoItem
    <3>1. SameRules(x, y)
      BY <2>1 DEF SameRules
    <3>2. ~HasNull(y)
      BY <2>2
    <3> QED BY <2>1, <3>1, <3>2, WrittenHasNoNull DEF NoItem
  <2>6. Revive(x) = x
    BY <2>5, ItemRevived
  <2> QED BY <2>2, <2>3, <2>4, <2>6
<1>3. CASE x = NoItem
  <2>1. Process(x) = x /\ Serialize(x) = x /\ Revive(x) = x
    BY <1>3 DEF NoItem, Process, Serialize, Revive, HasNull
  <2> QED BY <2>1
<1> QED BY <1>1, <1>2, <1>3 DEF Received

(* Items as they are stored.                                               *)
StoredReferences == {NoReference} \cup {Reference(s) : s \in Strings} \cup {LiteralReference(s) : s \in Strings}

StoredClauses ==
  [op : STRING, attribute : Strings, attributeReference : StoredReferences, contextKind : STRING,
   values : SUBSET Values, segments : Seq(Segment), negate : BOOLEAN]

StoredRollouts ==
  [kind : {"rollout", "experiment"}, bucketBy : Strings, bucketByReference : StoredReferences,
   contextKind : STRING, variations : Seq(WeightedVariations)]

StoredVariationOrRollout == [variation : IndexOrNone, rollout : Seq(StoredRollouts)]

StoredFlagRules ==
  [clauses : Seq(StoredClauses), variation : IndexOrNone, rollout : Seq(StoredRollouts), trackEvents : BOOLEAN]

StoredFlags ==
  [kind : {"flag"}, on : BOOLEAN, prerequisites : Seq([key : Flag, variation : Nat]),
   targets : Seq(FlagTargets), contextTargets : Seq(FlagTargets), rules : Seq(StoredFlagRules),
   fallthrough : StoredVariationOrRollout, offVariation : IndexOrNone, variations : Nat,
   trackEvents : BOOLEAN, trackEventsFallthrough : BOOLEAN, debugEventsUntilDate : BOOLEAN,
   usingEnvironmentId : BOOLEAN, nullVariation : BOOLEAN]

StoredKeys == [list : SUBSET Strings, set : SUBSET Strings]

StoredTargets == [contextKind : STRING, values : StoredKeys]

StoredSegmentRules ==
  [clauses : Seq(StoredClauses), weight : IndexOrNone, bucketBy : Strings, bucketByReference : StoredReferences,
   contextKind : STRING]

StoredSegments ==
  [kind : {"segment"}, unbounded : BOOLEAN, unboundedContextKind : STRING, generation : BOOLEAN,
   included : StoredKeys, excluded : StoredKeys, includedContexts : Seq(StoredTargets),
   excludedContexts : Seq(StoredTargets), rules : Seq(StoredSegmentRules)]

Stored(i) == {NoItem} \cup IF i \in Flag THEN StoredFlags ELSE StoredSegments

(* What is generated are references.                                       *)
LEMMA AttributeStored ==
  ASSUME NEW s \in Strings, NEW kind
  PROVE  Attribute(s, kind) \in StoredReferences
  BY DEF Attribute, StoredReferences

(* A rollout as it is stored.                                             *)
LEMMA RolloutStored ==
  ASSUME NEW r \in Rollouts
  PROVE  ProcessRollout(r) \in StoredRollouts
<1>1. NoReference \in StoredReferences /\ Attribute(r.bucketBy, r.contextKind) \in StoredReferences
  BY AttributeStored DEF Rollouts, StoredReferences
<1> QED BY <1>1 DEF ProcessRollout, Rollouts, StoredRollouts

(* A clause as it is stored.                                              *)
LEMMA ClauseStored ==
  ASSUME NEW c \in Clauses
  PROVE  ProcessClause(c) \in StoredClauses
<1>1. Reference(<<>>) \in StoredReferences /\ Attribute(c.attribute, c.contextKind) \in StoredReferences
  <2>1. <<>> \in Strings
    BY DEF Strings
  <2>2. Reference(<<>>) \in StoredReferences
    BY <2>1 DEF StoredReferences
  <2>3. c.attribute \in Strings
    BY DEF Clauses
  <2> QED BY <2>2, <2>3, AttributeStored
<1> QED BY <1>1 DEF ProcessClause, Clauses, StoredClauses

(* Sequences of what is generated.                                         *)
LEMMA AllStored ==
  /\ \A seq \in Seq(Rollouts) : RolloutsThere(seq) \in Seq(StoredRollouts)
  /\ \A seq \in Seq(Clauses) : ClausesThere(seq) \in Seq(StoredClauses)
<1>1. ASSUME NEW seq \in Seq(Rollouts) PROVE RolloutsThere(seq) \in Seq(StoredRollouts)
  <2>1. \A n \in DOMAIN seq : ProcessRollout(seq[n]) \in StoredRollouts
    BY RolloutStored, ElementOfSeq, LenProperties
  <2> QED BY <2>1 DEF RolloutsThere, Each
<1>2. ASSUME NEW seq \in Seq(Clauses) PROVE ClausesThere(seq) \in Seq(StoredClauses)
  <2>1. \A n \in DOMAIN seq : ProcessClause(seq[n]) \in StoredClauses
    BY ClauseStored, ElementOfSeq, LenProperties
  <2> QED BY <2>1 DEF ClausesThere, Each
<1> QED BY <1>1, <1>2

(* The rules of a flag as they are stored.                                 *)
LEMMA FlagRulesStored ==
  ASSUME NEW seq \in Seq(FlagRules)
  PROVE  FlagRulesThere(seq) \in Seq(StoredFlagRules)
<1>1. ASSUME NEW r \in FlagRules PROVE FlagRuleThere(r) \in StoredFlagRules
  <2>1. RolloutsThere(r.rollout) \in Seq(StoredRollouts) /\ ClausesThere(r.clauses) \in Seq(StoredClauses)
    BY AllStored DEF FlagRules
  <2> QED BY <2>1 DEF FlagRuleThere, FlagRules, StoredFlagRules
<1>2. \A n \in DOMAIN seq : FlagRuleThere(seq[n]) \in StoredFlagRules
  BY <1>1, ElementOfSeq, LenProperties
<1> QED BY <1>2 DEF FlagRulesThere, Each

(* The rules of a segment as they are stored.                              *)
LEMMA SegmentRulesStored ==
  ASSUME NEW seq \in Seq(SegmentRules)
  PROVE  SegmentRulesThere(seq) \in Seq(StoredSegmentRules)
<1>1. ASSUME NEW r \in SegmentRules PROVE SegmentRuleThere(r) \in StoredSegmentRules
  <2>1. ClausesThere(r.clauses) \in Seq(StoredClauses)
    BY AllStored DEF SegmentRules
  <2>2. NoReference \in StoredReferences /\ Attribute(r.bucketBy, r.contextKind) \in StoredReferences
    BY AttributeStored DEF SegmentRules, StoredReferences
  <2>3. PICK a \in StoredReferences : ProcessRollout(r) = [r EXCEPT !.bucketByReference = a]
    BY <2>2 DEF ProcessRollout, SegmentRules
  <2>4. SegmentRuleThere(r) = [r EXCEPT !.bucketByReference = a, !.clauses = ClausesThere(@)]
    BY <2>3 DEF SegmentRuleThere, SegmentRules
  <2> QED BY <2>1, <2>4 DEF SegmentRules, StoredSegmentRules
<1>2. \A n \in DOMAIN seq : SegmentRuleThere(seq[n]) \in StoredSegmentRules
  BY <1>1, ElementOfSeq, LenProperties
<1> QED BY <1>2 DEF SegmentRulesThere, Each

(* The keys of other contexts as they are stored.                          *)
LEMMA TargetsStored ==
  ASSUME NEW seq \in Seq(SegmentTargets)
  PROVE  TargetsThere(seq) \in Seq(StoredTargets)
<1>1. ASSUME NEW t \in SegmentTargets PROVE TargetThere(t) \in StoredTargets
  BY DEF TargetThere, SegmentTargets, StoredTargets, Generate, KeyLists, StoredKeys
<1>2. \A n \in DOMAIN seq : TargetThere(seq[n]) \in StoredTargets
  BY <1>1, ElementOfSeq, LenProperties
<1> QED BY <1>2 DEF TargetsThere, Each

(* What a flag is after it was processed.                                  *)
LEMMA ProcessedFlag ==
  ASSUME NEW x \in Flags
  PROVE  ProcessFlag(x) = [x EXCEPT !.fallthrough = [x.fallthrough EXCEPT !.rollout = RolloutsThere(@)],
                                    !.rules = FlagRulesThere(x.rules)]
<1>1. ProcessFlag(x) = [x EXCEPT !.fallthrough.rollout = RolloutsThere(@), !.rules = FlagRulesThere(@)]
  BY DEF ProcessFlag, RolloutsThere, FlagRulesThere, FlagRuleThere, ClausesThere
<1> QED BY <1>1 DEF Flags

(* What a segment is after it was processed.                               *)
LEMMA ProcessedSegment ==
  ASSUME NEW x \in Segments
  PROVE  ProcessSegment(x) =
           [x EXCEPT !.included = Generate(x.included), !.excluded = Generate(x.excluded),
                     !.includedContexts = TargetsThere(x.includedContexts),
                     !.excludedContexts = TargetsThere(x.excludedContexts), !.rules = SegmentRulesThere(x.rules)]
<1>1. ProcessSegment(x) = [x EXCEPT !.included = Generate(@), !.excluded = Generate(@), !.includedContexts = TargetsThere(@),
                                    !.excludedContexts = TargetsThere(@), !.rules = SegmentRulesThere(@)]
  BY DEF ProcessSegment, TargetsThere, TargetThere, SegmentRulesThere, SegmentRuleThere, ClausesThere
<1> QED BY <1>1 DEF Segments

(* A flag as it is stored.                                                 *)
LEMMA FlagStored ==
  ASSUME NEW x \in Flags
  PROVE  ProcessFlag(x) \in StoredFlags
<1>1. /\ FlagRulesThere(x.rules) \in Seq(StoredFlagRules)
      /\ [x.fallthrough EXCEPT !.rollout = RolloutsThere(@)] \in StoredVariationOrRollout
  BY FlagRulesStored, AllStored DEF Flags, VariationOrRollout, StoredVariationOrRollout
<1> DEFINE a == [x.fallthrough EXCEPT !.rollout = RolloutsThere(@)]
           b == FlagRulesThere(x.rules)
<1> HIDE DEF a, b
<1>2. ProcessFlag(x) = [x EXCEPT !.fallthrough = a, !.rules = b]
  BY ProcessedFlag DEF a, b
<1>3. a \in StoredVariationOrRollout /\ b \in Seq(StoredFlagRules)
  BY <1>1 DEF a, b
<1> QED BY <1>2, <1>3 DEF Flags, StoredFlags

(* A segment as it is stored.                                              *)
LEMMA SegmentStored ==
  ASSUME NEW x \in Segments
  PROVE  ProcessSegment(x) \in StoredSegments
<1> DEFINE a == Generate(x.included)
           b == Generate(x.excluded)
           c == TargetsThere(x.includedContexts)
           d == TargetsThere(x.excludedContexts)
           e == SegmentRulesThere(x.rules)
<1>1. a \in StoredKeys /\ b \in StoredKeys
  BY DEF Generate, Segments, KeyLists, StoredKeys
<1>2. c \in Seq(StoredTargets) /\ d \in Seq(StoredTargets) /\ e \in Seq(StoredSegmentRules)
  BY TargetsStored, SegmentRulesStored DEF Segments
<1>3. ProcessSegment(x) = [x EXCEPT !.included = a, !.excluded = b, !.includedContexts = c, !.excludedContexts = d, !.rules = e]
  BY ProcessedSegment
<1> HIDE DEF a, b, c, d, e
<1> QED BY <1>1, <1>2, <1>3 DEF Segments, StoredSegments

(* An item as it is stored.                                                *)
LEMMA ItemStored ==
  ASSUME NEW i \in Item, NEW x \in Received(i)
  PROVE  Process(x) \in Stored(i)
<1>1. CASE x = NoItem
  BY <1>1 DEF NoItem, Process, Stored
<1>2. CASE i \in Flag /\ x \in Flags
  <2>1. x.kind = "flag"
    BY <1>2 DEF Flags
  <2> QED BY <1>2, <2>1, FlagStored DEF Process, Stored
<1>3. CASE i \notin Flag /\ x \in Segments
  <2>1. x.kind = "segment"
    BY <1>3 DEF Segments
  <2> QED BY <1>3, <2>1, SegmentStored DEF Process, Stored
<1> QED BY <1>1, <1>2, <1>3 DEF Received

(* What rules say of segments.                                             *)
RefersToSegment(rules, s) ==
  \E n \in DOMAIN rules : \E m \in DOMAIN rules[n].clauses :
    rules[n].clauses[m].op = "segmentMatch" /\ s \in ToSet(rules[n].clauses[m].segments)

(* The segments of an item are those that its rules refer to.              *)
LEMMA SegmentsOfRules ==
  ASSUME NEW item
  PROVE  \A s : s \in SegmentsOf(item) <=> RefersToSegment(item.rules, s)
  BY DEF SegmentsOf, RefersToSegment

(* Processing a clause leaves what it refers to.                           *)
LEMMA ClausesReferAlike ==
  ASSUME NEW seq \in Seq(Clauses)
  PROVE  /\ DOMAIN ClausesThere(seq) = DOMAIN seq
         /\ \A n \in DOMAIN seq : ClausesThere(seq)[n].op = seq[n].op /\ ClausesThere(seq)[n].segments = seq[n].segments
<1>1. DOMAIN ClausesThere(seq) = DOMAIN seq /\ \A n \in DOMAIN seq : ClausesThere(seq)[n] = ProcessClause(seq[n])
  BY DEF ClausesThere, Each
<1>2. \A c \in Clauses : ProcessClause(c).op = c.op /\ ProcessClause(c).segments = c.segments
  BY DEF ProcessClause, Clauses
<1>3. \A n \in DOMAIN seq : seq[n] \in Clauses
  BY ElementOfSeq, LenProperties
<1> QED BY <1>1, <1>2, <1>3

(* Rules with such clauses refer to the same segments.                     *)
LEMMA RulesReferAlike ==
  ASSUME NEW x, NEW y, DOMAIN y = DOMAIN x,
         \A n \in DOMAIN x : x[n].clauses \in Seq(Clauses) /\ y[n].clauses = ClausesThere(x[n].clauses)
  PROVE  \A s : RefersToSegment(y, s) <=> RefersToSegment(x, s)
<1>1. ASSUME NEW n \in DOMAIN x
      PROVE  /\ DOMAIN y[n].clauses = DOMAIN x[n].clauses
             /\ \A m \in DOMAIN x[n].clauses : /\ y[n].clauses[m].op = x[n].clauses[m].op
                                               /\ y[n].clauses[m].segments = x[n].clauses[m].segments
  BY ClausesReferAlike
<1> QED BY <1>1 DEF RefersToSegment

(* An item refers to what it referred to when it was received.             *)
LEMMA DependenciesKept ==
  ASSUME NEW i \in Item, NEW x \in Received(i)
  PROVE  ComputeDependencies(Process(x)) = ComputeDependencies(x)
<1>1. CASE x = NoItem
  BY <1>1 DEF NoItem, Process
<1>2. CASE x \in Flags
  <2> DEFINE y == ProcessFlag(x)
  <2>1. y.kind = "flag" /\ y.prerequisites = x.prerequisites /\ y.rules = FlagRulesThere(x.rules)
    BY <1>2, ProcessedFlag DEF Flags
  <2>2. DOMAIN y.rules = DOMAIN x.rules /\ \A n \in DOMAIN x.rules : y.rules[n] = FlagRuleThere(x.rules[n])
    BY <2>1 DEF FlagRulesThere, Each
  <2>3. x.rules \in Seq(FlagRules)
    BY <1>2 DEF Flags
  <2>4. \A n \in DOMAIN x.rules : x.rules[n] \in FlagRules
    BY <2>3, ElementOfSeq, LenProperties
  <2>5. \A n \in DOMAIN x.rules : x.rules[n].clauses \in Seq(Clauses) /\ y.rules[n].clauses = ClausesThere(x.rules[n].clauses)
    BY <2>2, <2>4 DEF FlagRules, FlagRuleThere
  <2> HIDE DEF y
  <2>6. SegmentsOf(y) = SegmentsOf(x)
    <3>1. \A s : RefersToSegment(y.rules, s) <=> RefersToSegment(x.rules, s)
      BY <2>2, <2>5, RulesReferAlike
    <3> QED BY <3>1, SegmentsOfRules
  <2>7. x.kind = "flag" /\ Process(x) = y
    BY <1>2 DEF Flags, Process, y
  <2> QED BY <2>1, <2>6, <2>7, Zenon DEF ComputeDependencies
<1>3. CASE x \in Segments
  <2> DEFINE y == ProcessSegment(x)
  <2>1. y.kind = "segment" /\ y.rules = SegmentRulesThere(x.rules)
    BY <1>3, ProcessedSegment DEF Segments
  <2>2. DOMAIN y.rules = DOMAIN x.rules /\ \A n \in DOMAIN x.rules : y.rules[n] = SegmentRuleThere(x.rules[n])
    BY <2>1 DEF SegmentRulesThere, Each
  <2>3. x.rules \in Seq(SegmentRules)
    BY <1>3 DEF Segments
  <2>4. \A n \in DOMAIN x.rules : x.rules[n] \in SegmentRules
    BY <2>3, ElementOfSeq, LenProperties
  <2>5. \A n \in DOMAIN x.rules : x.rules[n].clauses \in Seq(Clauses) /\ y.rules[n].clauses = ClausesThere(x.rules[n].clauses)
    BY <2>2, <2>4 DEF SegmentRules, SegmentRuleThere, ProcessRollout
  <2> HIDE DEF y
  <2>6. SegmentsOf(y) = SegmentsOf(x)
    <3>1. \A s : RefersToSegment(y.rules, s) <=> RefersToSegment(x.rules, s)
      BY <2>2, <2>5, RulesReferAlike
    <3> QED BY <3>1, SegmentsOfRules
  <2>7. x.kind = "segment" /\ Process(x) = y
    BY <1>3 DEF Segments, Process, y
  <2> QED BY <2>1, <2>6, <2>7 DEF ComputeDependencies
<1> QED BY <1>1, <1>2, <1>3 DEF Received

(* The rules of an item refer to segments only.                            *)
LEMMA SegmentsReferredTo ==
  ASSUME NEW rules, NEW s, RefersToSegment(rules, s), rules \in Seq(StoredFlagRules) \/ rules \in Seq(StoredSegmentRules)
  PROVE  s \in Segment
<1>1. PICK n \in DOMAIN rules : \E m \in DOMAIN rules[n].clauses : s \in ToSet(rules[n].clauses[m].segments)
  BY DEF RefersToSegment
<1>2. rules[n] \in StoredFlagRules \/ rules[n] \in StoredSegmentRules
  BY ElementOfSeq, LenProperties
<1>3. rules[n].clauses \in Seq(StoredClauses)
  BY <1>2 DEF StoredFlagRules, StoredSegmentRules
<1>4. PICK m \in DOMAIN rules[n].clauses : s \in ToSet(rules[n].clauses[m].segments)
  BY <1>1
<1>5. rules[n].clauses[m] \in StoredClauses
  BY <1>3, <1>4, ElementOfSeq, LenProperties
<1>6. rules[n].clauses[m].segments \in Seq(Segment)
  BY <1>5 DEF StoredClauses
<1> QED BY <1>4, <1>6, ElementOfSeq, LenProperties DEF ToSet

(* An item refers to items: to flags as prerequisites, and to segments.    *)
LEMMA DependenciesTyped ==
  ASSUME NEW i \in Item, NEW y \in Stored(i)
  PROVE  ComputeDependencies(y) \subseteq IF i \in Flag THEN Item ELSE Segment
<1>1. CASE y = NoItem
  BY <1>1 DEF NoItem, ComputeDependencies
<1>2. CASE i \in Flag /\ y \in StoredFlags
  <2>1. y.kind = "flag" /\ y.rules \in Seq(StoredFlagRules) /\ y.prerequisites \in Seq([key : Flag, variation : Nat])
    BY <1>2 DEF StoredFlags
  <2>2. \A s \in SegmentsOf(y) : s \in Segment
    BY <2>1, SegmentsReferredTo, SegmentsOfRules
  <2>3. \A p \in ToSet(y.prerequisites) : p.key \in Flag
    <3>1. \A n \in DOMAIN y.prerequisites : y.prerequisites[n] \in [key : Flag, variation : Nat]
      BY <2>1, ElementOfSeq, LenProperties
    <3> QED BY <3>1 DEF ToSet
  <2>4. ComputeDependencies(y) = {p.key : p \in ToSet(y.prerequisites)} \cup SegmentsOf(y)
    BY <2>1 DEF ComputeDependencies
  <2> QED BY <1>2, <2>2, <2>3, <2>4, ItemAssumption
<1>3. CASE i \notin Flag /\ y \in StoredSegments
  <2>1. y.kind = "segment" /\ y.rules \in Seq(StoredSegmentRules)
    BY <1>3 DEF StoredSegments
  <2>2. \A s \in SegmentsOf(y) : s \in Segment
    BY <2>1, SegmentsReferredTo, SegmentsOfRules
  <2>3. ComputeDependencies(y) = SegmentsOf(y)
    BY <2>1 DEF ComputeDependencies
  <2> QED BY <1>3, <2>2, <2>3
<1> QED BY <1>1, <1>2, <1>3 DEF Stored

-----------------------------------------------------------------------------
(* What the store, the tracker and the answers have to do with each other. *)

ItemsReceived ==
  /\ items = [i \in Item |-> items[i]]
  /\ \A i \in Item : \E x \in Received(i) : items[i] = Process(x)

TrackerFollows ==
  /\ tracker \in Trackers
  /\ \A i \in Item : tracker.from[i] = ComputeDependencies(items[i])
  /\ MapsInverse(tracker)

AnswersFollow == answers = AnswersOf(items)

IdentifiedFollows ==
  identified # NoOne =>
    \E c \in Identified, options \in ClientOptions :
      /\ FromLDContext(c).valid
      /\ identified = [context |-> FromLDContext(c), options |-> options]
      /\ filtered = Filter(FromLDContext(c), ContextFilter(Configuration(options)))

DataFollows == ItemsReceived /\ TrackerFollows /\ AnswersFollow /\ IdentifiedFollows

(* The tracker knows of no references in the beginning.                    *)
LEMMA TrackerBegins ==
  /\ EmptyTracker \in Trackers
  /\ \A i \in Item : EmptyTracker.from[i] = {}
  /\ MapsInverse(EmptyTracker)
  BY DEF EmptyTracker, Trackers, MapsInverse

(* The tracker follows what an item refers to now.                         *)
LEMMA TrackerUpdated ==
  ASSUME NEW t \in Trackers, MapsInverse(t), NEW i \in Item, NEW deps \in SUBSET Item
  PROVE  /\ UpdateDependenciesFrom(t, i, deps) \in Trackers
         /\ \A j \in Item : UpdateDependenciesFrom(t, i, deps).from[j] = IF j = i THEN deps ELSE t.from[j]
         /\ MapsInverse(UpdateDependenciesFrom(t, i, deps))
<1> DEFINE to == [j \in Item |-> (t.to[j] \ (IF j \in t.from[i] THEN {i} ELSE {})) \cup (IF j \in deps THEN {i} ELSE {})]
           from == [t.from EXCEPT ![i] = deps]
           u == UpdateDependenciesFrom(t, i, deps)
<1>1. u = [from |-> from, to |-> to]
  BY DEF UpdateDependenciesFrom
<1>2. t.from \in [Item -> SUBSET Item] /\ t.to \in [Item -> SUBSET Item]
  BY DEF Trackers
<1>3. to \in [Item -> SUBSET Item]
  BY <1>2
<1>4. from \in [Item -> SUBSET Item]
  BY <1>2
<1>5. \A j \in Item : from[j] = IF j = i THEN deps ELSE t.from[j]
  BY <1>2
<1>6. \A j, k \in Item : k \in to[j] <=> j \in from[k]
  BY <1>2, <1>5 DEF MapsInverse
<1> HIDE DEF from, to
<1> QED BY <1>1, <1>3, <1>4, <1>5, <1>6 DEF Trackers, MapsInverse

(* In the beginning there are no items.                                    *)
LEMMA DataBegins == Init => DataFollows
<1> SUFFICES ASSUME Init PROVE DataFollows
  OBVIOUS
<1>1. \A i \in Item : items[i] = Process(NoItem) /\ ComputeDependencies(items[i]) = {}
  BY DEF Init, Process, NoItem, ComputeDependencies
<1>2. ItemsReceived
  BY <1>1 DEF ItemsReceived, Received, Init
<1>3. TrackerFollows
  BY <1>1, TrackerBegins DEF TrackerFollows, Init
<1>4. AnswersFollow /\ IdentifiedFollows
  BY DEF AnswersFollow, IdentifiedFollows, Init
<1> QED BY <1>2, <1>3, <1>4 DEF DataFollows

(* Whether it is deleted or not, an item that is received can be.          *)
LEMMA ReceivedAny ==
  ASSUME NEW i \in Item, Patch(i) \/ Delete(i)
  PROVE  \E x \in Received(i) : Receive(i, x)
<1>1. CASE Patch(i)
  <2>1. PICK x \in Payload[i] : Receive(i, Revive(x))
    BY <1>1 DEF Patch
  <2>2. x \in Received(i)
    BY ItemAssumption DEF Received
  <2> QED BY <2>1, <2>2, ItemRevived
<1>2. CASE Delete(i)
  BY <1>2 DEF Delete, Received
<1> QED BY <1>1, <1>2

(* Every step leaves it so.                                                *)
LEMMA DataStep ==
  ASSUME DataFollows, [Next]_vars
  PROVE  DataFollows'
<1>1. ASSUME NEW i \in Item, Patch(i) \/ Delete(i) PROVE DataFollows'
  <2>1. PICK x \in Received(i) : Receive(i, x)
    BY <1>1, ReceivedAny
  <2>2. items' = [items EXCEPT ![i] = Process(x)] /\ identified' = NoOne
    BY <2>1 DEF Receive
  <2>3. items' = [j \in Item |-> items'[j]] /\ \A j \in Item : items'[j] = IF j = i THEN Process(x) ELSE items[j]
    BY <2>2 DEF DataFollows, ItemsReceived
  <2>4. ItemsReceived'
    BY <2>3 DEF DataFollows, ItemsReceived
  <2>5. ComputeDependencies(x) = ComputeDependencies(Process(x))
    BY DependenciesKept
  <2>6. ComputeDependencies(x) \in SUBSET Item
    BY <2>5, ItemStored, DependenciesTyped, ItemAssumption
  <2>7. tracker' = UpdateDependenciesFrom(tracker, i, ComputeDependencies(x))
    BY <2>1 DEF Receive
  <2>8. tracker \in Trackers /\ MapsInverse(tracker)
    BY DEF DataFollows, TrackerFollows
  <2>9. /\ tracker' \in Trackers /\ MapsInverse(tracker')
        /\ \A j \in Item : tracker'.from[j] = IF j = i THEN ComputeDependencies(x) ELSE tracker.from[j]
    BY <2>6, <2>7, <2>8, TrackerUpdated
  <2>10. \A j \in Item : tracker'.from[j] = ComputeDependencies(items'[j])
    BY <2>3, <2>5, <2>9 DEF DataFollows, TrackerFollows
  <2>11. TrackerFollows'
    BY <2>9, <2>10 DEF TrackerFollows
  <2>12. AnswersFollow' /\ IdentifiedFollows'
    BY <2>1, <2>2 DEF Receive, AnswersFollow, IdentifiedFollows
  <2> QED BY <2>4, <2>11, <2>12 DEF DataFollows
<1>2. ASSUME NEW c \in Identified, NEW options \in ClientOptions, Identify(c, options) PROVE DataFollows'
  <2>1. UNCHANGED <<items, tracker, answers>>
    BY <1>2 DEF Identify
  <2>2. IdentifiedFollows'
    BY <1>2 DEF Identify, IdentifiedFollows
  <2> QED BY <2>1, <2>2 DEF DataFollows, ItemsReceived, TrackerFollows, AnswersFollow
<1>3. ASSUME UNCHANGED evaluationVars PROVE DataFollows'
  BY <1>3 DEF evaluationVars, DataFollows, ItemsReceived, TrackerFollows, AnswersFollow, IdentifiedFollows
<1>4. UNCHANGED vars => UNCHANGED evaluationVars
  BY DEF vars
<1> QED BY <1>1, <1>2, <1>3, <1>4 DEF Next

(* The tracker has the references of the items that are stored, both ways, *)
(* and the answers are those for these items, whatever comes after what.   *)
THEOREM DataFollowsEver == Spec => []DataFollows
<1> QED BY DataBegins, DataStep, PTL DEF Spec

(* What is read back from a persistent store is what was written there,    *)
(* and nothing is written of an item with a null in an array.              *)
THEOREM StoredAsReceivedEver == Spec => []StoredAsReceived
<1>1. DataFollows => StoredAsReceived
  BY ItemBack, Zenon DEF DataFollows, ItemsReceived, StoredAsReceived
<1> QED BY <1>1, DataFollowsEver, PTL

-----------------------------------------------------------------------------
(* What the parts of an evaluation give that do not call others.           *)

Results == {r \in EvalResults : r.error => r.kind = "MALFORMED_FLAG"}

MaybeResults == Results \cup {NoResult}

(* A set of numbers has a least one.                                       *)
LEMMA LeastNumber ==
  ASSUME NEW I \in SUBSET Nat, I # {}
  PROVE  Min(I) \in I /\ \A m \in I : Min(I) <= m
<1> DEFINE R == OpToRel(<, Nat)
<1>1. \A x, y \in Nat : <<y, x>> \in R <=> y < x
  BY DEF OpToRel
<1>2. IsWellFoundedOn(R, Nat)
  BY NatLessThanWellFounded
<1> HIDE DEF R
<1>3. PICK n \in I : \A m \in I : ~(<<m, n>> \in R)
  BY <1>2, WFMin
<1>4. ASSUME NEW m \in I PROVE n <= m
  <2>1. m \in Nat /\ n \in Nat /\ ~(<<m, n>> \in R)
    BY <1>3
  <2>2. ~(m < n)
    BY <1>1, <2>1
  <2> QED BY <2>1, <2>2
<1> QED BY <1>3, <1>4 DEF Min

(* An error is a result.                                                   *)
LEMMA MalformedTyped == Malformed \in Results
<1>1. NoVariation \in Int
  BY DEF NoVariation
<1>2. "MALFORMED_FLAG" \in EvalReasons
  BY DEF EvalReasons
<1> QED BY <1>1, <1>2 DEF Malformed, ForError, Results, EvalResults

(* An index that there is gives a result, and any other an error.          *)
LEMMA GetVariationTyped ==
  ASSUME NEW flag, NEW index \in Int, NEW kind \in EvalReasons
  PROVE  GetVariation(flag, index, kind) \in Results
<1>1. Success(kind, index) \in Results
  BY DEF Success, Results, EvalResults
<1> QED BY <1>1, MalformedTyped DEF GetVariation

(* So does the off variation.                                              *)
LEMMA GetOffVariationTyped ==
  ASSUME NEW flag \in StoredFlags, NEW kind \in EvalReasons
  PROVE  GetOffVariation(flag, kind) \in Results
<1>1. flag.offVariation \in Int /\ NoVariation \in Int
  BY DEF StoredFlags, IndexOrNone, NoVariation
<1>2. Success(kind, NoVariation) \in Results
  BY <1>1 DEF Success, Results, EvalResults
<1> QED BY <1>1, <1>2, GetVariationTyped DEF GetOffVariation

(* A target gives a result or none.                                        *)
LEMMA EvalTargetTyped ==
  ASSUME NEW flag, NEW target \in FlagTargets, NEW c
  PROVE  EvalTarget(flag, target, c) \in MaybeResults
<1>1. target.variation \in Int
  BY DEF FlagTargets
<1>2. "TARGET_MATCH" \in EvalReasons
  BY DEF EvalReasons
<1>3. GetVariation(flag, target.variation, "TARGET_MATCH") \in Results
  BY <1>1, <1>2, GetVariationTyped
<1> QED BY <1>3, Zenon DEF EvalTarget, MaybeResults

(* A context target gives a result or none.                                *)
LEMMA EvalContextTargetTyped ==
  ASSUME NEW flag \in StoredFlags, NEW target \in FlagTargets, NEW c
  PROVE  EvalContextTarget(flag, target, c) \in MaybeResults
<1> DEFINE I == {i \in 1..Len(flag.targets) : flag.targets[i].variation = target.variation}
           n == IF I # {} THEN Min(I) ELSE 0
<1>1. flag.targets \in Seq(FlagTargets)
  BY DEF StoredFlags
<1>2. n # 0 => n \in 1..Len(flag.targets)
  <2>1. I \in SUBSET Nat
    BY <1>1
  <2> HIDE DEF I
  <2>2. I # {} => Min(I) \in I
    BY <2>1, LeastNumber
  <2> QED BY <2>2 DEF I
<1>3. n # 0 => flag.targets[n] \in FlagTargets
  BY <1>1, <1>2, ElementOfSeq
<1>4. EvalContextTarget(flag, target, c) =
        IF OrUser(target.contextKind) # "user" THEN EvalTarget(flag, target, c)
        ELSE IF n = 0 THEN NoResult ELSE EvalTarget(flag, flag.targets[n], c)
  BY DEF EvalContextTarget, SelectInSeq
<1> HIDE DEF n
<1> QED BY <1>3, <1>4, EvalTargetTyped DEF MaybeResults

(* The first result of many is one of them or none.                        *)
LEMMA FirstResultTyped ==
  ASSUME NEW results \in Seq(MaybeResults)
  PROVE  FirstResult(results) \in MaybeResults
<1> DEFINE I == {i \in 1..Len(results) : results[i] # NoResult}
<1>1. I \in SUBSET Nat
  BY LenProperties
<1>2. FirstResult(results) = IF (IF I # {} THEN Min(I) ELSE 0) = 0 THEN NoResult ELSE results[IF I # {} THEN Min(I) ELSE 0]
  BY DEF FirstResult, SelectInSeq
<1> HIDE DEF I
<1>3. CASE I = {}
  BY <1>2, <1>3 DEF MaybeResults
<1>4. CASE I # {}
  <2>1. Min(I) \in I
    BY <1>1, <1>4, LeastNumber
  <2>2. Min(I) \in 1..Len(results)
    BY <2>1 DEF I
  <2>3. results[Min(I)] \in MaybeResults
    BY <2>2, ElementOfSeq
  <2> QED BY <1>2, <1>4, <2>3 DEF MaybeResults
<1> QED BY <1>3, <1>4

(* The targets give a result or none.                                      *)
LEMMA EvalTargetsTyped ==
  ASSUME NEW flag \in StoredFlags, NEW c
  PROVE  EvalTargets(flag, c) \in MaybeResults
<1> DEFINE a == [n \in DOMAIN flag.targets |-> EvalTarget(flag, flag.targets[n], c)]
           b == [n \in DOMAIN flag.contextTargets |-> EvalContextTarget(flag, flag.contextTargets[n], c)]
<1>1. flag.targets \in Seq(FlagTargets) /\ flag.contextTargets \in Seq(FlagTargets)
  BY DEF StoredFlags
<1>2. \A n \in DOMAIN flag.targets : flag.targets[n] \in FlagTargets
  BY <1>1, ElementOfSeq, LenProperties
<1>3. \A n \in DOMAIN flag.contextTargets : flag.contextTargets[n] \in FlagTargets
  BY <1>1, ElementOfSeq, LenProperties
<1>4. \A n \in DOMAIN flag.targets : EvalTarget(flag, flag.targets[n], c) \in MaybeResults
  BY <1>2, EvalTargetTyped
<1>5. \A n \in DOMAIN flag.contextTargets : EvalContextTarget(flag, flag.contextTargets[n], c) \in MaybeResults
  BY <1>3, EvalContextTargetTyped
<1>6. a \in Seq(MaybeResults) /\ b \in Seq(MaybeResults)
  BY <1>1, <1>4, <1>5
<1> HIDE DEF a, b
<1>7. FirstResult(a) \in MaybeResults /\ FirstResult(b) \in MaybeResults
  BY <1>6, FirstResultTyped
<1> QED BY <1>7 DEF EvalTargets, a, b

(* What falls in a bucket is one of the variations, or none.               *)
LEMMA BucketedVariationTyped ==
  ASSUME NEW variations \in Seq(WeightedVariations), NEW bucket
  PROVE  BucketedVariation(variations, bucket) \in 0..Len(variations)
<1> DEFINE sum == CHOOSE s : s = [n \in 0..Len(variations) |-> IF n = 0 THEN 0 ELSE s[n - 1] + variations[n].weight]
           sums == [n \in DOMAIN variations |-> sum[n]]
           I == {i \in 1..Len(variations) : bucket < sums[i]}
<1>1. BucketedVariation(variations, bucket) = IF I # {} THEN Min(I) ELSE 0
  BY DEF BucketedVariation, SelectInSubSeq
<1>2. I \subseteq 1..Len(variations) /\ I \in SUBSET Nat /\ Len(variations) \in Nat
  BY LenProperties
<1> HIDE DEF I, sums, sum
<1>3. CASE I = {}
  BY <1>1, <1>2, <1>3
<1>4. CASE I # {}
  <2>1. Min(I) \in I
    BY <1>2, <1>4, LeastNumber
  <2>2. Min(I) \in 1..Len(variations)
    BY <1>2, <2>1
  <2>3. BucketedVariation(variations, bucket) = Min(I)
    BY <1>1, <1>4
  <2> QED BY <1>2, <2>2, <2>3
<1> QED BY <1>3, <1>4

(* A rollout gives a result.                                               *)
LEMMA VariationOfRolloutTyped ==
  ASSUME NEW rollout \in StoredRollouts, NEW flag, NEW kind \in EvalReasons, NEW hadContext,
         rollout.variations # <<>>, NEW n \in 0..Len(rollout.variations)
  PROVE  VariationOfRollout(rollout, flag, kind, n, hadContext) \in Results
<1> DEFINE v == rollout.variations[IF n = 0 THEN Len(rollout.variations) ELSE n]
           tracked == rollout.kind = "experiment" /\ ~v.untracked /\ (n = 0 \/ hadContext)
           r == GetVariation(flag, v.variation, kind)
<1>1. rollout.variations \in Seq(WeightedVariations)
  BY DEF StoredRollouts
<1>2. Len(rollout.variations) \in Nat /\ Len(rollout.variations) # 0
  BY <1>1, EmptySeq, LenProperties
<1>3. v \in WeightedVariations
  BY <1>1, <1>2, ElementOfSeq
<1>4. v.variation \in Int
  BY <1>3 DEF WeightedVariations
<1>5. VariationOfRollout(rollout, flag, kind, n, hadContext) = InExperiment(r, tracked)
  BY DEF VariationOfRollout
<1> HIDE DEF v, tracked
<1>6. r \in Results
  BY <1>4, GetVariationTyped
<1> HIDE DEF r
<1>7. [r EXCEPT !.inExperiment = TRUE] \in Results
  BY <1>6 DEF Results, EvalResults
<1> QED BY <1>5, <1>6, <1>7 DEF InExperiment

(* A variation or rollout gives a result.                                  *)
LEMMA VariationForContextTyped ==
  ASSUME NEW vr, vr.variation \in IndexOrNone, vr.rollout \in Seq(StoredRollouts),
         NEW flag, NEW c, NEW kind \in EvalReasons
  PROVE  VariationForContext(vr, flag, c, kind) \in Results
<1>1. CASE vr.variation # NoVariation
  <2>1. vr.variation \in Int
    BY DEF IndexOrNone, NoVariation
  <2> QED BY <1>1, <2>1, GetVariationTyped DEF VariationForContext
<1>2. Malformed \in Results
  BY MalformedTyped
<1>3. CASE vr.variation = NoVariation /\ ~(vr.rollout = <<>> \/ vr.rollout[1].variations = <<>>)
  <2> DEFINE rollout == vr.rollout[1]
             attr == IF rollout.kind = "experiment" THEN Reference(<<"key">>) ELSE GetBucketBy(rollout.bucketByReference)
             b == Bucket(c, attr, rollout.contextKind)
  <2>1. rollout \in StoredRollouts
    <3>1. 1 \in 1..Len(vr.rollout)
      BY <1>3, EmptySeq, LenProperties
    <3> QED BY <3>1, ElementOfSeq
  <2>2. VariationForContext(vr, flag, c, kind) = Rollout(rollout, flag, c, kind)
    BY <1>3 DEF VariationForContext
  <2>3. Rollout(rollout, flag, c, kind) = IF ~attr.valid THEN Malformed ELSE InBucket(rollout, flag, kind, b)
    BY DEF Rollout
  <2>4. rollout.variations \in Seq(WeightedVariations) /\ rollout.variations # <<>>
    BY <1>3, <2>1 DEF StoredRollouts
  <2> HIDE DEF rollout, attr, b
  <2>5. BucketedVariation(rollout.variations, b.bucket) \in 0..Len(rollout.variations)
    BY <2>4, BucketedVariationTyped
  <2>6. InBucket(rollout, flag, kind, b) \in Results
    BY <2>1, <2>4, <2>5, VariationOfRolloutTyped DEF InBucket
  <2> QED BY <1>2, <2>2, <2>3, <2>6
<1>4. CASE vr.variation = NoVariation /\ (vr.rollout = <<>> \/ vr.rollout[1].variations = <<>>)
  BY <1>2, <1>4 DEF VariationForContext
<1> QED BY <1>1, <1>3, <1>4

-----------------------------------------------------------------------------
(* Two evaluations that are related: for other data, after other calls or  *)
(* in the same way.                                                        *)

States == EvalStates(Item)

MatchResults == [error : BOOLEAN, match : BOOLEAN, st : States]

StoredData == {data \in [Item -> {NoItem} \cup StoredFlags \cup StoredSegments] : \A i \in Item : data[i] \in Stored(i)}

SegmentAnswers(data) == [CallsFor(data, "segment") -> MatchResults]

SameMatch(related, r1, r2) ==
  /\ r1 \in MatchResults /\ r2 \in MatchResults
  /\ r1.error = r2.error /\ r1.match = r2.match /\ <<r1.st, r2.st>> \in related

SegmentRelates(related, data1, data2, below1, below2, visited, s) ==
  /\ data1[s] = NoItem <=> data2[s] = NoItem
  /\ data1[s] # NoItem /\ s \notin visited =>
       \A p \in related : SameMatch(related, below1[Call(s, Visiting(visited, s), p[1])],
                                             below2[Call(s, Visiting(visited, s), p[2])])

(* What every part of a segment's evaluation is about.                     *)
SegmentsRelated(related, data1, data2, below1, below2) ==
  /\ related \subseteq States \X States
  /\ data1 \in StoredData /\ data2 \in StoredData
  /\ below1 \in SegmentAnswers(data1) /\ below2 \in SegmentAnswers(data2)

(* What there is a segment under is a segment.                             *)
LEMMA SegmentsOfData ==
  ASSUME NEW data \in StoredData, NEW s \in Segment
  PROVE  /\ data[s] \in Stored(s) /\ s \in Item
         /\ data[s] # NoItem => data[s] \in StoredSegments /\ s \in KeysOf(data, "segment")
<1>1. s \in Item /\ s \notin Flag
  BY ItemAssumption
<1>2. data[s] \in Stored(s) /\ DOMAIN data = Item
  BY <1>1 DEF StoredData
<1>3. data[s] # NoItem => data[s] \in StoredSegments
  BY <1>1, <1>2 DEF Stored
<1>4. data[s] \in StoredSegments => data[s].kind = "segment"
  BY DEF StoredSegments
<1> QED BY <1>1, <1>2, <1>3, <1>4 DEF KeysOf

(* A result has its parts.                                                 *)
LEMMA MatchTyped ==
  ASSUME NEW st \in States, NEW match \in BOOLEAN
  PROVE  /\ Match(st, match) \in MatchResults /\ MatchError(st) \in MatchResults
         /\ Match(st, match).error = FALSE /\ Match(st, match).match = match /\ Match(st, match).st = st
         /\ MatchError(st).error = TRUE /\ MatchError(st).match = FALSE /\ MatchError(st).st = st
  BY DEF Match, MatchError, MatchResults

(* Results with the same answer are related as their states are.           *)
LEMMA MatchRelates ==
  ASSUME NEW related \in SUBSET (States \X States), NEW s1, NEW s2, <<s1, s2>> \in related, NEW match \in BOOLEAN
  PROVE  SameMatch(related, Match(s1, match), Match(s2, match)) /\ SameMatch(related, MatchError(s1), MatchError(s2))
<1>1. s1 \in States /\ s2 \in States
  OBVIOUS
<1> QED BY <1>1, MatchTyped, ZenonT(60) DEF SameMatch

(* A segment is asked for with results.                                    *)
LEMMA TrySegmentTyped ==
  ASSUME NEW data \in StoredData, NEW below \in SegmentAnswers(data), NEW key \in Segment,
         NEW visited \in SUBSET Item, NEW before \in MatchResults
  PROVE  TrySegment(data, below, key, visited, before) \in MatchResults
<1>1. before.st \in States
  BY DEF MatchResults
<1>2. MatchError(before.st) \in MatchResults
  BY <1>1, MatchTyped
<1>3. ASSUME data[key] # NoItem PROVE below[Call(key, Visiting(visited, key), before.st)] \in MatchResults
  <2>1. key \in KeysOf(data, "segment") /\ key \in Item
    BY <1>3, SegmentsOfData
  <2>2. DOMAIN data = Item
    BY DEF StoredData
  <2>3. Visiting(visited, key) \in SUBSET DOMAIN data
    BY <2>1, <2>2 DEF Visiting
  <2>4. Call(key, Visiting(visited, key), before.st) \in CallsFor(data, "segment")
    BY <1>1, <2>1, <2>2, <2>3 DEF Call, CallsFor, States
  <2> QED BY <2>4 DEF SegmentAnswers
<1> QED BY <1>2, <1>3 DEF TrySegment

(* So it is for related results.                                           *)
LEMMA TrySegmentRelates ==
  ASSUME NEW related, NEW data1, NEW data2, NEW below1, NEW below2, NEW key, NEW visited,
         SegmentsRelated(related, data1, data2, below1, below2),
         SegmentRelates(related, data1, data2, below1, below2, visited, key),
         NEW before1, NEW before2, SameMatch(related, before1, before2)
  PROVE  SameMatch(related, TrySegment(data1, below1, key, visited, before1),
                            TrySegment(data2, below2, key, visited, before2))
<1>1. <<before1.st, before2.st>> \in related
  BY DEF SameMatch
<1>2. SameMatch(related, MatchError(before1.st), MatchError(before2.st))
  BY <1>1, MatchRelates DEF SegmentsRelated
<1>3. ASSUME data1[key] # NoItem, key \notin visited
      PROVE  SameMatch(related, below1[Call(key, Visiting(visited, key), before1.st)],
                                below2[Call(key, Visiting(visited, key), before2.st)])
  BY <1>1, <1>3, Zenon DEF SegmentRelates
<1>4. data1[key] = NoItem <=> data2[key] = NoItem
  BY DEF SegmentRelates
<1> QED BY <1>2, <1>3, <1>4 DEF TrySegment

-----------------------------------------------------------------------------
(* Series.                                                                 *)

SeriesGoes(a, N, first, E, S) ==
  a[0] = first /\ \A n \in 1..N : a[n] = IF a[n - 1] \in E THEN a[n - 1] ELSE S[n][a[n - 1]]

(* What a series gives after each of its members.                          *)
LEMMA SeriesExists ==
  ASSUME NEW N \in Nat, NEW V, NEW first \in V, NEW E, NEW S \in [1..N -> [V -> V]]
  PROVE  \E a \in [0..N -> V] : SeriesGoes(a, N, first, E, S)
<1> DEFINE F == [n \in 1..N |-> [v \in V |-> IF v \in E THEN v ELSE S[n][v]]]
<1>1. F \in [1..N -> [V -> V]]
  OBVIOUS
<1>2. \A n \in 1..N : \A v \in V : F[n][v] = IF v \in E THEN v ELSE S[n][v]
  OBVIOUS
<1> HIDE DEF F
<1>3. PICK a \in [0..N -> V] : RecursionTo(N, F, first, a)
  BY <1>1, BoundedRecursion
<1>4. a[0] = first
  BY <1>3 DEF RecursionTo
<1>5. ASSUME NEW n \in 1..N PROVE a[n] = IF a[n - 1] \in E THEN a[n - 1] ELSE S[n][a[n - 1]]
  <2>1. n \in 0..N /\ n # 0 /\ n - 1 \in 0..N
    OBVIOUS
  <2>2. a[n] = F[n][a[n - 1]]
    BY <1>3, <2>1 DEF RecursionTo
  <2> QED BY <1>2, <2>1, <2>2
<1> QED BY <1>4, <1>5 DEF SeriesGoes

(* Whatever the first one is and every step keeps, holds in the end.       *)
LEMMA SeriesKeeps ==
  ASSUME NEW N \in Nat, NEW a, NEW b, NEW Rel, <<a[0], b[0]>> \in Rel,
         \A n \in 1..N : <<a[n - 1], b[n - 1]>> \in Rel => <<a[n], b[n]>> \in Rel
  PROVE  \A n \in 0..N : <<a[n], b[n]>> \in Rel
<1> DEFINE S == {n \in 0..N : <<a[n], b[n]>> \in Rel}
<1>1. 0 \in S
  OBVIOUS
<1>2. ASSUME NEW n \in 0..N, n \in S, n < N PROVE n + 1 \in S
  <2>1. n + 1 \in 1..N /\ (n + 1) - 1 = n
    BY <1>2
  <2>2. <<a[(n + 1) - 1], b[(n + 1) - 1]>> \in Rel
    BY <1>2, <2>1
  <2> QED BY <2>1, <2>2
<1>3. \A n \in 0..N : n \in S
  <2> HIDE DEF S
  <2> QED BY <1>1, <1>2, AllNumbersUpTo
<1> QED BY <1>3

(* A series that looks for the first one.                                  *)
FirstSeries(a, N, first) ==
  /\ a \in [0..N -> MatchResults] /\ a[0] = first
  /\ \A n \in 1..N : FirstEnds(a[n - 1]) => a[n] = a[n - 1]

(* The segments of a clause are tried one after the other.                 *)
LEMMA FirstSegmentMatchUnfolds ==
  ASSUME NEW data \in StoredData, NEW below \in SegmentAnswers(data), NEW keys \in Seq(Segment),
         NEW visited \in SUBSET Item, NEW st \in States
  PROVE  \E a : /\ FirstSeries(a, Len(keys), Match(st, FALSE))
                /\ \A n \in 1..Len(keys) :
                     ~FirstEnds(a[n - 1]) => a[n] = TrySegment(data, below, keys[n], visited, a[n - 1])
                /\ FirstSegmentMatch(data, below, keys, visited, st) = a[Len(keys)]
<1> DEFINE N == Len(keys)
           V == MatchResults
           first == Match(st, FALSE)
           E == {v \in V : FirstEnds(v)}
           S == [n \in 1..N |-> [v \in V |-> TrySegment(data, below, keys[n], visited, v)]]
           P(a) == a = [n \in 0..N |-> IF n = 0 THEN first
                                       ELSE IF FirstEnds(a[n - 1]) THEN a[n - 1]
                                       ELSE TrySegment(data, below, keys[n], visited, a[n - 1])]
           after == CHOOSE a : P(a)
<1>1. N \in Nat /\ first \in V
  BY LenProperties, MatchTyped
<1>2. ASSUME NEW n \in 1..N, NEW v \in V PROVE TrySegment(data, below, keys[n], visited, v) \in V
  BY ElementOfSeq, TrySegmentTyped
<1>3. S \in [1..N -> [V -> V]] /\ \A n \in 1..N : \A v \in V : S[n][v] = TrySegment(data, below, keys[n], visited, v)
  BY <1>2
<1>4. \A v \in V : v \in E <=> FirstEnds(v)
  OBVIOUS
<1>5. FirstSegmentMatch(data, below, keys, visited, st) = after[N]
  BY DEF FirstSegmentMatch, Series
<1> HIDE DEF S, E, V, first, N
<1>6. PICK a \in [0..N -> V] : SeriesGoes(a, N, first, E, S)
  <2> HIDE DEF P, after
  <2> QED BY <1>1, <1>3, SeriesExists
<1>7. ASSUME NEW n \in 0..N
      PROVE  a[n] = IF n = 0 THEN first
                    ELSE IF FirstEnds(a[n - 1]) THEN a[n - 1]
                    ELSE TrySegment(data, below, keys[n], visited, a[n - 1])
  <2>1. CASE n = 0
    BY <1>6, <2>1 DEF SeriesGoes
  <2>2. CASE n # 0
    <3>1. n \in 1..N /\ a[n - 1] \in V
      BY <1>1, <2>2
    <3>2. a[n] = IF a[n - 1] \in E THEN a[n - 1] ELSE S[n][a[n - 1]]
      BY <1>6, <3>1 DEF SeriesGoes
    <3> HIDE DEF P, after
    <3> QED BY <1>3, <1>4, <2>2, <3>1, <3>2
  <2> QED BY <2>1, <2>2
<1>8. P(a)
  BY <1>7
<1>9. P(after)
  BY <1>8
<1> HIDE DEF after
<1>10. after[0] = first
  BY <1>1, <1>9
<1>11. ASSUME NEW n \in 1..N
       PROVE  after[n] = IF FirstEnds(after[n - 1]) THEN after[n - 1]
                         ELSE TrySegment(data, below, keys[n], visited, after[n - 1])
  BY <1>1, <1>9
<1>12. after \in [0..N -> V]
  <2> DEFINE A == {n \in 0..N : after[n] \in V}
  <2>1. 0 \in A
    BY <1>1, <1>10
  <2>2. ASSUME NEW n \in 0..N, n \in A, n < N PROVE n + 1 \in A
    <3>1. n + 1 \in 1..N /\ (n + 1) - 1 = n /\ n + 1 \in 0..N
      BY <1>1, <2>2
    <3>2. after[n + 1] = IF FirstEnds(after[n]) THEN after[n] ELSE TrySegment(data, below, keys[n + 1], visited, after[n])
      BY <1>11, <3>1
    <3>3. after[n] \in V
      BY <2>2
    <3> QED BY <1>2, <3>1, <3>2, <3>3
  <2>3. \A n \in 0..N : n \in A
    <3> HIDE DEF A
    <3> QED BY <1>1, <2>1, <2>2, AllNumbersUpTo
  <2>4. after = [n \in 0..N |-> after[n]]
    BY <1>9
  <2> HIDE DEF P
  <2> QED BY <2>3, <2>4
<1> QED BY <1>5, <1>10, <1>11, <1>12 DEF FirstSeries, N, V, first

SameMatches(related) == {p \in MatchResults \X MatchResults : SameMatch(related, p[1], p[2])}

(* Pairs of results that are the same but for their states.                *)
LEMMA SameMatchesAre ==
  ASSUME NEW related, NEW r1, NEW r2
  PROVE  <<r1, r2>> \in SameMatches(related) <=> SameMatch(related, r1, r2)
  BY DEF SameMatches, SameMatch

(* Series of pairs that are the same end alike.                            *)
LEMMA SameMatchEnds ==
  ASSUME NEW related, NEW r1, NEW r2, SameMatch(related, r1, r2)
  PROVE  (FirstEnds(r1) <=> FirstEnds(r2)) /\ (AllEnd(r1) <=> AllEnd(r2))
  BY DEF SameMatch, FirstEnds, AllEnd

(* A clause's segments match alike.                                        *)
LEMMA FirstSegmentMatchRelates ==
  ASSUME NEW related, NEW data1, NEW data2, NEW below1, NEW below2, NEW visited \in SUBSET Item,
         SegmentsRelated(related, data1, data2, below1, below2), NEW keys \in Seq(Segment),
         \A s \in ToSet(keys) : SegmentRelates(related, data1, data2, below1, below2, visited, s),
         NEW s1, NEW s2, <<s1, s2>> \in related
  PROVE  SameMatch(related, FirstSegmentMatch(data1, below1, keys, visited, s1),
                            FirstSegmentMatch(data2, below2, keys, visited, s2))
<1> DEFINE N == Len(keys)
<1>1. /\ s1 \in States /\ s2 \in States /\ N \in Nat /\ related \in SUBSET (States \X States)
      /\ data1 \in StoredData /\ data2 \in StoredData
      /\ below1 \in SegmentAnswers(data1) /\ below2 \in SegmentAnswers(data2)
  BY LenProperties DEF SegmentsRelated
<1>2. PICK a : /\ FirstSeries(a, N, Match(s1, FALSE))
               /\ \A n \in 1..N : ~FirstEnds(a[n - 1]) => a[n] = TrySegment(data1, below1, keys[n], visited, a[n - 1])
               /\ FirstSegmentMatch(data1, below1, keys, visited, s1) = a[N]
  BY <1>1, FirstSegmentMatchUnfolds
<1>3. PICK b : /\ FirstSeries(b, N, Match(s2, FALSE))
               /\ \A n \in 1..N : ~FirstEnds(b[n - 1]) => b[n] = TrySegment(data2, below2, keys[n], visited, b[n - 1])
               /\ FirstSegmentMatch(data2, below2, keys, visited, s2) = b[N]
  BY <1>1, FirstSegmentMatchUnfolds
<1>4. \A n \in 1..N : keys[n] \in ToSet(keys)
  BY DEF ToSet
<1> HIDE DEF N
<1>5. <<a[0], b[0]>> \in SameMatches(related)
  BY <1>1, <1>2, <1>3, MatchRelates, SameMatchesAre DEF FirstSeries
<1>6. ASSUME NEW n \in 1..N, <<a[n - 1], b[n - 1]>> \in SameMatches(related)
      PROVE  <<a[n], b[n]>> \in SameMatches(related)
  <2>1. SameMatch(related, a[n - 1], b[n - 1])
    BY <1>6, SameMatchesAre
  <2>2. CASE FirstEnds(a[n - 1])
    BY <1>2, <1>3, <1>6, <2>1, <2>2, SameMatchEnds DEF FirstSeries
  <2>3. CASE ~FirstEnds(a[n - 1])
    <3>1. SameMatch(related, TrySegment(data1, below1, keys[n], visited, a[n - 1]),
                             TrySegment(data2, below2, keys[n], visited, b[n - 1]))
      BY <1>4, <2>1, TrySegmentRelates
    <3> QED BY <1>2, <1>3, <2>1, <2>3, <3>1, SameMatchEnds, SameMatchesAre
  <2> QED BY <2>2, <2>3
<1>7. <<a[N], b[N]>> \in SameMatches(related)
  <2>1. \A n \in 0..N : <<a[n], b[n]>> \in SameMatches(related)
    BY <1>1, <1>5, <1>6, SeriesKeeps
  <2> QED BY <1>1, <2>1
<1>8. SameMatch(related, a[N], b[N])
  BY <1>7, SameMatchesAre
<1> QED BY <1>2, <1>3, <1>8 DEF N

(* A clause matches or does not.                                           *)
LEMMA MatchClauseTyped ==
  ASSUME NEW clause, NEW c
  PROVE  MatchClause(clause, c) \in BOOLEAN
  BY DEF MatchClause, MaybeNegate, IsDefined

ClauseRelates(related, data1, data2, below1, below2, visited, clause) ==
  clause.op = "segmentMatch" =>
    \A s \in ToSet(clause.segments) : SegmentRelates(related, data1, data2, below1, below2, visited, s)

(* A clause matches alike.                                                 *)
LEMMA ClauseMatchRelates ==
  ASSUME NEW related, NEW data1, NEW data2, NEW below1, NEW below2, NEW visited \in SUBSET Item,
         SegmentsRelated(related, data1, data2, below1, below2), NEW clause \in StoredClauses, NEW c,
         ClauseRelates(related, data1, data2, below1, below2, visited, clause),
         NEW s1, NEW s2, <<s1, s2>> \in related
  PROVE  SameMatch(related, ClauseMatch(data1, c, below1, clause, visited, s1),
                            ClauseMatch(data2, c, below2, clause, visited, s2))
<1> DEFINE r1 == FirstSegmentMatch(data1, below1, clause.segments, visited, s1)
           r2 == FirstSegmentMatch(data2, below2, clause.segments, visited, s2)
<1>1. clause.segments \in Seq(Segment) /\ clause.negate \in BOOLEAN
  BY DEF StoredClauses
<1>2. related \in SUBSET (States \X States)
  BY DEF SegmentsRelated
<1>3. CASE clause.op = "segmentMatch"
  <2>1. \A s \in ToSet(clause.segments) : SegmentRelates(related, data1, data2, below1, below2, visited, s)
    BY <1>3 DEF ClauseRelates
  <2>2. SameMatch(related, r1, r2)
    BY <1>1, <2>1, FirstSegmentMatchRelates
  <2> HIDE DEF r1, r2
  <2>3. r1.match \in BOOLEAN /\ r1.match = r2.match /\ <<r1.st, r2.st>> \in related /\ r1.error = r2.error
    BY <2>2 DEF SameMatch, MatchResults
  <2>4. MaybeNegate(clause, r1.match) \in BOOLEAN
    BY <1>1, <2>3 DEF MaybeNegate
  <2>5. SameMatch(related, Match(r1.st, MaybeNegate(clause, r1.match)), Match(r2.st, MaybeNegate(clause, r2.match)))
    BY <1>2, <2>3, <2>4, MatchRelates
  <2>6. SameMatch(related, Negated(clause, r1), Negated(clause, r2))
    BY <2>2, <2>3, <2>5 DEF Negated
  <2> QED BY <1>3, <2>6 DEF ClauseMatch, r1, r2
<1>4. CASE clause.op # "segmentMatch" /\ ~clause.attributeReference.valid
  BY <1>2, <1>4, MatchRelates DEF ClauseMatch
<1>5. CASE clause.op # "segmentMatch" /\ clause.attributeReference.valid
  <2>1. SameMatch(related, Match(s1, MatchClause(clause, c)), Match(s2, MatchClause(clause, c)))
    BY <1>2, MatchClauseTyped, MatchRelates
  <2> QED BY <1>5, <2>1 DEF ClauseMatch
<1> QED BY <1>3, <1>4, <1>5

-----------------------------------------------------------------------------
(* An evaluation has the types that it should, as it is like itself.       *)
Same == {<<st, st>> : st \in States}

(* States that are the same.                                               *)
LEMMA SameAre == \A s1, s2 : <<s1, s2>> \in Same <=> s1 = s2 /\ s1 \in States
  BY DEF Same

(* What a segment gives at the level below is like itself.                 *)
LEMMA SegmentsTyped ==
  ASSUME NEW data \in StoredData, NEW below \in SegmentAnswers(data)
  PROVE  SegmentsRelated(Same, data, data, below, below)
  BY DEF SegmentsRelated, Same

(* Segments that are referred to give results.                             *)
LEMMA SegmentTyped ==
  ASSUME NEW data \in StoredData, NEW below \in SegmentAnswers(data), NEW visited \in SUBSET Item, NEW s \in Segment
  PROVE  SegmentRelates(Same, data, data, below, below, visited, s)
<1> SUFFICES ASSUME data[s] # NoItem, NEW p \in Same
             PROVE  SameMatch(Same, below[Call(s, Visiting(visited, s), p[1])], below[Call(s, Visiting(visited, s), p[2])])
  BY DEF SegmentRelates
<1>1. s \in KeysOf(data, "segment") /\ s \in Item /\ DOMAIN data = Item
  BY SegmentsOfData DEF StoredData
<1>2. p[1] \in States /\ p[2] = p[1]
  BY DEF Same
<1>3. Visiting(visited, s) \in SUBSET Item
  BY <1>1 DEF Visiting
<1>4. Call(s, Visiting(visited, s), p[1]) \in CallsFor(data, "segment")
  BY <1>1, <1>2, <1>3 DEF Call, CallsFor, States
<1> DEFINE r == below[Call(s, Visiting(visited, s), p[1])]
<1>5. r \in MatchResults
  BY <1>4 DEF SegmentAnswers
<1> HIDE DEF r
<1>6. r.st \in States
  BY <1>5 DEF MatchResults
<1>7. SameMatch(Same, r, r)
  BY <1>5, <1>6, SameAre DEF SameMatch
<1> QED BY <1>2, <1>7 DEF r

(* A clause gives a result.                                                *)
LEMMA ClauseMatchTyped ==
  ASSUME NEW data \in StoredData, NEW below \in SegmentAnswers(data), NEW visited \in SUBSET Item,
         NEW clause \in StoredClauses, NEW c, NEW st \in States
  PROVE  ClauseMatch(data, c, below, clause, visited, st) \in MatchResults
<1>1. clause.segments \in Seq(Segment)
  BY DEF StoredClauses
<1>2. \A s \in ToSet(clause.segments) : s \in Segment
  BY <1>1, ElementOfSeq, LenProperties DEF ToSet
<1>3. ClauseRelates(Same, data, data, below, below, visited, clause)
  BY <1>2, SegmentTyped DEF ClauseRelates
<1>4. <<st, st>> \in Same
  BY SameAre
<1>5. SameMatch(Same, ClauseMatch(data, c, below, clause, visited, st), ClauseMatch(data, c, below, clause, visited, st))
  BY <1>3, <1>4, SegmentsTyped, ClauseMatchRelates
<1> QED BY <1>5 DEF SameMatch

(* A series that looks for one that does not match.                        *)
AllSeries(a, N, first) ==
  /\ a \in [0..N -> MatchResults] /\ a[0] = first
  /\ \A n \in 1..N : AllEnd(a[n - 1]) => a[n] = a[n - 1]

AllClausesMatchSeries(a, data, c, below, clauses, visited, st) ==
  /\ AllSeries(a, Len(clauses), Match(st, TRUE))
  /\ \A n \in 1..Len(clauses) :
       ~AllEnd(a[n - 1]) => a[n] = ClauseMatch(data, c, below, clauses[n], visited, a[n - 1].st)

(* The clauses of a rule are matched one after the other.                  *)
LEMMA AllClausesMatchUnfolds ==
  ASSUME NEW data \in StoredData, NEW below \in SegmentAnswers(data), NEW clauses \in Seq(StoredClauses), NEW c,
         NEW visited \in SUBSET Item, NEW st \in States
  PROVE  \E a : AllClausesMatchSeries(a, data, c, below, clauses, visited, st) /\ AllClausesMatch(data, c, below, clauses, visited, st) = a[Len(clauses)]
<1> DEFINE N == Len(clauses)
           V == MatchResults
           first == Match(st, TRUE)
           E == {v \in V : AllEnd(v)}
           S == [n \in 1..N |-> [v \in V |-> ClauseMatch(data, c, below, clauses[n], visited, v.st)]]
           P(a) == a = [n \in 0..N |-> IF n = 0 THEN first
                                       ELSE IF AllEnd(a[n - 1]) THEN a[n - 1]
                                       ELSE ClauseMatch(data, c, below, clauses[n], visited, a[n - 1].st)]
           after == CHOOSE a : P(a)
<1>1. N \in Nat /\ first \in V
  BY LenProperties, MatchTyped
<1>2. ASSUME NEW n \in 1..N, NEW v \in V PROVE ClauseMatch(data, c, below, clauses[n], visited, v.st) \in V
  <2>1. clauses[n] \in StoredClauses /\ v.st \in States
    BY ElementOfSeq DEF MatchResults
  <2> QED BY <2>1, ClauseMatchTyped
<1>3. /\ S \in [1..N -> [V -> V]]
      /\ \A n \in 1..N : \A v \in V : S[n][v] = ClauseMatch(data, c, below, clauses[n], visited, v.st)
  BY <1>2
<1>4. \A v \in V : v \in E <=> AllEnd(v)
  OBVIOUS
<1>5. AllClausesMatch(data, c, below, clauses, visited, st) = after[N]
  BY DEF AllClausesMatch, Series
<1> HIDE DEF S, E, V, first, N
<1>6. PICK a \in [0..N -> V] : SeriesGoes(a, N, first, E, S)
  <2> HIDE DEF P, after
  <2> QED BY <1>1, <1>3, SeriesExists
<1>7. ASSUME NEW n \in 0..N
      PROVE  a[n] = IF n = 0 THEN first
                    ELSE IF AllEnd(a[n - 1]) THEN a[n - 1]
                    ELSE ClauseMatch(data, c, below, clauses[n], visited, a[n - 1].st)
  <2>1. CASE n = 0
    BY <1>6, <2>1 DEF SeriesGoes
  <2>2. CASE n # 0
    <3>1. n \in 1..N /\ a[n - 1] \in V
      BY <1>1, <2>2
    <3>2. a[n] = IF a[n - 1] \in E THEN a[n - 1] ELSE S[n][a[n - 1]]
      BY <1>6, <3>1 DEF SeriesGoes
    <3> HIDE DEF P, after
    <3> QED BY <1>3, <1>4, <2>2, <3>1, <3>2
  <2> QED BY <2>1, <2>2
<1>8. P(a)
  BY <1>7
<1>9. P(after)
  BY <1>8
<1> HIDE DEF after
<1>10. after[0] = first
  BY <1>1, <1>9
<1>11. ASSUME NEW n \in 1..N
       PROVE  after[n] = IF AllEnd(after[n - 1]) THEN after[n - 1]
                         ELSE ClauseMatch(data, c, below, clauses[n], visited, after[n - 1].st)
  BY <1>1, <1>9
<1>12. after \in [0..N -> V]
  <2> DEFINE A == {n \in 0..N : after[n] \in V}
  <2>1. 0 \in A
    BY <1>1, <1>10
  <2>2. ASSUME NEW n \in 0..N, n \in A, n < N PROVE n + 1 \in A
    <3>1. n + 1 \in 1..N /\ (n + 1) - 1 = n /\ n + 1 \in 0..N
      BY <1>1, <2>2
    <3>2. after[n + 1] = IF AllEnd(after[n]) THEN after[n] ELSE ClauseMatch(data, c, below, clauses[n + 1], visited, after[n].st)
      BY <1>11, <3>1
    <3>3. after[n] \in V
      BY <2>2
    <3> QED BY <1>2, <3>1, <3>2, <3>3
  <2>3. \A n \in 0..N : n \in A
    <3> HIDE DEF A
    <3> QED BY <1>1, <2>1, <2>2, AllNumbersUpTo
  <2>4. after = [n \in 0..N |-> after[n]]
    BY <1>9
  <2> HIDE DEF P
  <2> QED BY <2>3, <2>4
<1> QED BY <1>5, <1>10, <1>11, <1>12 DEF AllSeries, AllClausesMatchSeries, N, V, first

(* The clauses of a rule match alike.                                      *)
LEMMA AllClausesMatchRelates ==
  ASSUME NEW related, NEW data1, NEW data2, NEW below1, NEW below2, NEW visited \in SUBSET Item, NEW c,
         SegmentsRelated(related, data1, data2, below1, below2),
         NEW clauses \in Seq(StoredClauses),
         \A n \in DOMAIN clauses : ClauseRelates(related, data1, data2, below1, below2, visited, clauses[n]),
         NEW s1, NEW s2, <<s1, s2>> \in related
  PROVE  SameMatch(related, AllClausesMatch(data1, c, below1, clauses, visited, s1),
                            AllClausesMatch(data2, c, below2, clauses, visited, s2))
<1> DEFINE N == Len(clauses)
<1>1. /\ s1 \in States /\ s2 \in States /\ N \in Nat /\ related \in SUBSET (States \X States)
      /\ data1 \in StoredData /\ data2 \in StoredData
      /\ below1 \in SegmentAnswers(data1) /\ below2 \in SegmentAnswers(data2)
  BY LenProperties DEF SegmentsRelated
<1>2. PICK a : AllClausesMatchSeries(a, data1, c, below1, clauses, visited, s1) /\ AllClausesMatch(data1, c, below1, clauses, visited, s1) = a[N]
  BY <1>1, AllClausesMatchUnfolds
<1>3. PICK b : AllClausesMatchSeries(b, data2, c, below2, clauses, visited, s2) /\ AllClausesMatch(data2, c, below2, clauses, visited, s2) = b[N]
  BY <1>1, AllClausesMatchUnfolds
<1>a. /\ AllSeries(a, N, Match(s1, TRUE))
      /\ \A n \in 1..N : ~AllEnd(a[n - 1]) => a[n] = ClauseMatch(data1, c, below1, clauses[n], visited, a[n - 1].st)
  BY <1>2 DEF AllClausesMatchSeries
<1>b. /\ AllSeries(b, N, Match(s2, TRUE))
      /\ \A n \in 1..N : ~AllEnd(b[n - 1]) => b[n] = ClauseMatch(data2, c, below2, clauses[n], visited, b[n - 1].st)
  BY <1>3 DEF AllClausesMatchSeries
<1>4. ASSUME NEW n \in 1..N PROVE /\ clauses[n] \in StoredClauses
                          /\ ClauseRelates(related, data1, data2, below1, below2, visited, clauses[n])
  BY ElementOfSeq, LenProperties
<1> HIDE DEF N
<1>5. <<a[0], b[0]>> \in SameMatches(related)
  BY <1>1, <1>a, <1>b, MatchRelates, SameMatchesAre DEF AllSeries
<1>6. ASSUME NEW n \in 1..N, <<a[n - 1], b[n - 1]>> \in SameMatches(related)
      PROVE  <<a[n], b[n]>> \in SameMatches(related)
  <2>1. SameMatch(related, a[n - 1], b[n - 1])
    BY <1>6, SameMatchesAre
  <2>2. CASE AllEnd(a[n - 1])
    BY <1>a, <1>b, <1>6, <2>1, <2>2, SameMatchEnds DEF AllSeries
  <2>3. CASE ~AllEnd(a[n - 1])
    <3>1. <<a[n - 1].st, b[n - 1].st>> \in related
      BY <2>1 DEF SameMatch
    <3>2. SameMatch(related, ClauseMatch(data1, c, below1, clauses[n], visited, a[n - 1].st),
                             ClauseMatch(data2, c, below2, clauses[n], visited, b[n - 1].st))
      BY <1>4, <3>1, ClauseMatchRelates
    <3> QED BY <1>a, <1>b, <2>1, <2>3, <3>2, SameMatchEnds, SameMatchesAre
  <2> QED BY <2>2, <2>3
<1>7. <<a[N], b[N]>> \in SameMatches(related)
  <2>1. \A n \in 0..N : <<a[n], b[n]>> \in SameMatches(related)
    BY <1>1, <1>5, <1>6, SeriesKeeps
  <2> QED BY <1>1, <2>1
<1>8. SameMatch(related, a[N], b[N])
  BY <1>7, SameMatchesAre
<1>9. AllClausesMatch(data1, c, below1, clauses, visited, s1) = a[N]
  BY <1>2 DEF N
<1>10. AllClausesMatch(data2, c, below2, clauses, visited, s2) = b[N]
  BY <1>3 DEF N
<1> QED BY <1>8, <1>9, <1>10

(* The clauses of a rule give a result.                                    *)
LEMMA AllClausesMatchTyped ==
  ASSUME NEW data \in StoredData, NEW below \in SegmentAnswers(data), NEW clauses \in Seq(StoredClauses), NEW c,
         NEW visited \in SUBSET Item, NEW st \in States
  PROVE  AllClausesMatch(data, c, below, clauses, visited, st) \in MatchResults
<1>1. PICK a : AllClausesMatchSeries(a, data, c, below, clauses, visited, st)
               /\ AllClausesMatch(data, c, below, clauses, visited, st) = a[Len(clauses)]
  BY AllClausesMatchUnfolds, SMTT(60)
<1>2. a \in [0..Len(clauses) -> MatchResults] /\ Len(clauses) \in Nat
  BY <1>1, LenProperties DEF AllClausesMatchSeries, AllSeries
<1> QED BY <1>1, <1>2

(* A share is taken alike.                                                 *)
LEMMA WeighedRelates ==
  ASSUME NEW related \in SUBSET (States \X States), NEW c, NEW rule, NEW r1, NEW r2, SameMatch(related, r1, r2)
  PROVE  SameMatch(related, Weighed(c, rule, r1), Weighed(c, rule, r2))
<1> DEFINE attr == GetBucketBy(rule.bucketByReference)
           b == Bucket(c, attr, rule.contextKind).bucket < rule.weight
<1>1. <<r1.st, r2.st>> \in related /\ r1.error = r2.error /\ r1.match = r2.match
  BY DEF SameMatch
<1>2. b \in BOOLEAN
  OBVIOUS
<1>3. \A r : Weighed(c, rule, r) = IF r.error \/ ~r.match \/ rule.weight = NoVariation THEN r
                                  ELSE IF ~attr.valid THEN MatchError(r.st) ELSE Match(r.st, b)
  BY DEF Weighed
<1> HIDE DEF attr, b
<1>4. SameMatch(related, MatchError(r1.st), MatchError(r2.st)) /\ SameMatch(related, Match(r1.st, b), Match(r2.st, b))
  BY <1>1, <1>2, MatchRelates
<1> QED BY <1>1, <1>3, <1>4

RuleRelates(related, data1, data2, below1, below2, visited, rule) ==
  \A n \in DOMAIN rule.clauses : ClauseRelates(related, data1, data2, below1, below2, visited, rule.clauses[n])

(* A rule of a segment matches alike.                                      *)
LEMMA SegmentRuleMatchRelates ==
  ASSUME NEW related, NEW data1, NEW data2, NEW below1, NEW below2, NEW visited \in SUBSET Item, NEW c,
         SegmentsRelated(related, data1, data2, below1, below2), NEW rule \in StoredSegmentRules,
         RuleRelates(related, data1, data2, below1, below2, visited, rule),
         NEW s1, NEW s2, <<s1, s2>> \in related
  PROVE  SameMatch(related, SegmentRuleMatch(data1, c, below1, rule, visited, s1),
                            SegmentRuleMatch(data2, c, below2, rule, visited, s2))
<1>1. rule.clauses \in Seq(StoredClauses)
  BY DEF StoredSegmentRules
<1>2. \A n \in DOMAIN rule.clauses : ClauseRelates(related, data1, data2, below1, below2, visited, rule.clauses[n])
  BY DEF RuleRelates
<1>3. SameMatch(related, AllClausesMatch(data1, c, below1, rule.clauses, visited, s1),
                         AllClausesMatch(data2, c, below2, rule.clauses, visited, s2))
  BY <1>1, <1>2, AllClausesMatchRelates
<1>4. related \in SUBSET (States \X States)
  BY DEF SegmentsRelated
<1> QED BY <1>3, <1>4, WeighedRelates DEF SegmentRuleMatch

(* A clause refers to segments.                                            *)
LEMMA ClauseTyped ==
  ASSUME NEW data \in StoredData, NEW below \in SegmentAnswers(data), NEW visited \in SUBSET Item,
         NEW clause \in StoredClauses
  PROVE  ClauseRelates(Same, data, data, below, below, visited, clause)
<1>1. clause.segments \in Seq(Segment)
  BY DEF StoredClauses
<1>2. \A s \in ToSet(clause.segments) : s \in Segment
  BY <1>1, ElementOfSeq, LenProperties DEF ToSet
<1> QED BY <1>2, SegmentTyped DEF ClauseRelates

(* A rule of a segment gives a result.                                     *)
LEMMA SegmentRuleMatchTyped ==
  ASSUME NEW data \in StoredData, NEW below \in SegmentAnswers(data), NEW visited \in SUBSET Item,
         NEW rule \in StoredSegmentRules, NEW c, NEW st \in States
  PROVE  SegmentRuleMatch(data, c, below, rule, visited, st) \in MatchResults
<1>1. rule.clauses \in Seq(StoredClauses)
  BY DEF StoredSegmentRules
<1>2. \A n \in DOMAIN rule.clauses : rule.clauses[n] \in StoredClauses
  BY <1>1, ElementOfSeq, LenProperties
<1>3. RuleRelates(Same, data, data, below, below, visited, rule)
  BY <1>2, ClauseTyped DEF RuleRelates
<1>4. <<st, st>> \in Same
  BY SameAre
<1>5. SameMatch(Same, SegmentRuleMatch(data, c, below, rule, visited, st), SegmentRuleMatch(data, c, below, rule, visited, st))
  BY <1>3, <1>4, SegmentsTyped, SegmentRuleMatchRelates
<1> QED BY <1>5 DEF SameMatch

FirstRuleMatchSeries(a, data, c, below, rules, visited, st) ==
  /\ FirstSeries(a, Len(rules), Match(st, FALSE))
  /\ \A n \in 1..Len(rules) :
       ~FirstEnds(a[n - 1]) => a[n] = SegmentRuleMatch(data, c, below, rules[n], visited, a[n - 1].st)

(* The rules of a segment are matched one after the other.                 *)
LEMMA FirstRuleMatchUnfolds ==
  ASSUME NEW data \in StoredData, NEW below \in SegmentAnswers(data), NEW rules \in Seq(StoredSegmentRules), NEW c,
         NEW visited \in SUBSET Item, NEW st \in States
  PROVE  \E a : FirstRuleMatchSeries(a, data, c, below, rules, visited, st) /\ FirstRuleMatch(data, c, below, rules, visited, st) = a[Len(rules)]
<1> DEFINE N == Len(rules)
           V == MatchResults
           first == Match(st, FALSE)
           E == {v \in V : FirstEnds(v)}
           S == [n \in 1..N |-> [v \in V |-> SegmentRuleMatch(data, c, below, rules[n], visited, v.st)]]
           P(a) == a = [n \in 0..N |-> IF n = 0 THEN first
                                       ELSE IF FirstEnds(a[n - 1]) THEN a[n - 1]
                                       ELSE SegmentRuleMatch(data, c, below, rules[n], visited, a[n - 1].st)]
           after == CHOOSE a : P(a)
<1>1. N \in Nat /\ first \in V
  BY LenProperties, MatchTyped
<1>2. ASSUME NEW n \in 1..N, NEW v \in V PROVE SegmentRuleMatch(data, c, below, rules[n], visited, v.st) \in V
  <2>1. rules[n] \in StoredSegmentRules /\ v.st \in States
    BY ElementOfSeq DEF MatchResults
  <2> QED BY <2>1, SegmentRuleMatchTyped
<1>3. /\ S \in [1..N -> [V -> V]]
      /\ \A n \in 1..N : \A v \in V : S[n][v] = SegmentRuleMatch(data, c, below, rules[n], visited, v.st)
  BY <1>2
<1>4. \A v \in V : v \in E <=> FirstEnds(v)
  OBVIOUS
<1>5. FirstRuleMatch(data, c, below, rules, visited, st) = after[N]
  BY DEF FirstRuleMatch, Series
<1> HIDE DEF S, E, V, first, N
<1>6. PICK a \in [0..N -> V] : SeriesGoes(a, N, first, E, S)
  <2> HIDE DEF P, after
  <2> QED BY <1>1, <1>3, SeriesExists
<1>7. ASSUME NEW n \in 0..N
      PROVE  a[n] = IF n = 0 THEN first
                    ELSE IF FirstEnds(a[n - 1]) THEN a[n - 1]
                    ELSE SegmentRuleMatch(data, c, below, rules[n], visited, a[n - 1].st)
  <2>1. CASE n = 0
    BY <1>6, <2>1 DEF SeriesGoes
  <2>2. CASE n # 0
    <3>1. n \in 1..N /\ a[n - 1] \in V
      BY <1>1, <2>2
    <3>2. a[n] = IF a[n - 1] \in E THEN a[n - 1] ELSE S[n][a[n - 1]]
      BY <1>6, <3>1 DEF SeriesGoes
    <3> HIDE DEF P, after
    <3> QED BY <1>3, <1>4, <2>2, <3>1, <3>2
  <2> QED BY <2>1, <2>2
<1>8. P(a)
  BY <1>7
<1>9. P(after)
  BY <1>8
<1> HIDE DEF after
<1>10. after[0] = first
  BY <1>1, <1>9
<1>11. ASSUME NEW n \in 1..N
       PROVE  after[n] = IF FirstEnds(after[n - 1]) THEN after[n - 1]
                         ELSE SegmentRuleMatch(data, c, below, rules[n], visited, after[n - 1].st)
  BY <1>1, <1>9
<1>12. after \in [0..N -> V]
  <2> DEFINE A == {n \in 0..N : after[n] \in V}
  <2>1. 0 \in A
    BY <1>1, <1>10
  <2>2. ASSUME NEW n \in 0..N, n \in A, n < N PROVE n + 1 \in A
    <3>1. n + 1 \in 1..N /\ (n + 1) - 1 = n /\ n + 1 \in 0..N
      BY <1>1, <2>2
    <3>2. after[n + 1] = IF FirstEnds(after[n]) THEN after[n] ELSE SegmentRuleMatch(data, c, below, rules[n + 1], visited, after[n].st)
      BY <1>11, <3>1
    <3>3. after[n] \in V
      BY <2>2
    <3> QED BY <1>2, <3>1, <3>2, <3>3
  <2>3. \A n \in 0..N : n \in A
    <3> HIDE DEF A
    <3> QED BY <1>1, <2>1, <2>2, AllNumbersUpTo
  <2>4. after = [n \in 0..N |-> after[n]]
    BY <1>9
  <2> HIDE DEF P
  <2> QED BY <2>3, <2>4
<1> QED BY <1>5, <1>10, <1>11, <1>12 DEF FirstSeries, FirstRuleMatchSeries, N, V, first

(* The rules of a segment match alike.                                     *)
LEMMA FirstRuleMatchRelates ==
  ASSUME NEW related, NEW data1, NEW data2, NEW below1, NEW below2, NEW visited \in SUBSET Item, NEW c,
         SegmentsRelated(related, data1, data2, below1, below2),
         NEW rules \in Seq(StoredSegmentRules),
         \A n \in DOMAIN rules : RuleRelates(related, data1, data2, below1, below2, visited, rules[n]),
         NEW s1, NEW s2, <<s1, s2>> \in related
  PROVE  SameMatch(related, FirstRuleMatch(data1, c, below1, rules, visited, s1),
                            FirstRuleMatch(data2, c, below2, rules, visited, s2))
<1> DEFINE N == Len(rules)
<1>1. /\ s1 \in States /\ s2 \in States /\ N \in Nat /\ related \in SUBSET (States \X States)
      /\ data1 \in StoredData /\ data2 \in StoredData
      /\ below1 \in SegmentAnswers(data1) /\ below2 \in SegmentAnswers(data2)
  BY LenProperties DEF SegmentsRelated
<1>2. PICK a : FirstRuleMatchSeries(a, data1, c, below1, rules, visited, s1) /\ FirstRuleMatch(data1, c, below1, rules, visited, s1) = a[N]
  BY <1>1, FirstRuleMatchUnfolds
<1>3. PICK b : FirstRuleMatchSeries(b, data2, c, below2, rules, visited, s2) /\ FirstRuleMatch(data2, c, below2, rules, visited, s2) = b[N]
  BY <1>1, FirstRuleMatchUnfolds
<1>a. /\ FirstSeries(a, N, Match(s1, FALSE))
      /\ \A n \in 1..N : ~FirstEnds(a[n - 1]) => a[n] = SegmentRuleMatch(data1, c, below1, rules[n], visited, a[n - 1].st)
  BY <1>2 DEF FirstRuleMatchSeries
<1>b. /\ FirstSeries(b, N, Match(s2, FALSE))
      /\ \A n \in 1..N : ~FirstEnds(b[n - 1]) => b[n] = SegmentRuleMatch(data2, c, below2, rules[n], visited, b[n - 1].st)
  BY <1>3 DEF FirstRuleMatchSeries
<1>4. ASSUME NEW n \in 1..N PROVE /\ rules[n] \in StoredSegmentRules
                          /\ RuleRelates(related, data1, data2, below1, below2, visited, rules[n])
  BY ElementOfSeq, LenProperties
<1> HIDE DEF N
<1>5. <<a[0], b[0]>> \in SameMatches(related)
  BY <1>1, <1>a, <1>b, MatchRelates, SameMatchesAre DEF FirstSeries
<1>6. ASSUME NEW n \in 1..N, <<a[n - 1], b[n - 1]>> \in SameMatches(related)
      PROVE  <<a[n], b[n]>> \in SameMatches(related)
  <2>1. SameMatch(related, a[n - 1], b[n - 1])
    BY <1>6, SameMatchesAre
  <2>2. CASE FirstEnds(a[n - 1])
    BY <1>a, <1>b, <1>6, <2>1, <2>2, SameMatchEnds DEF FirstSeries
  <2>3. CASE ~FirstEnds(a[n - 1])
    <3>1. <<a[n - 1].st, b[n - 1].st>> \in related
      BY <2>1 DEF SameMatch
    <3>2. SameMatch(related, SegmentRuleMatch(data1, c, below1, rules[n], visited, a[n - 1].st),
                             SegmentRuleMatch(data2, c, below2, rules[n], visited, b[n - 1].st))
      BY <1>4, <3>1, SegmentRuleMatchRelates
    <3> QED BY <1>a, <1>b, <2>1, <2>3, <3>2, SameMatchEnds, SameMatchesAre
  <2> QED BY <2>2, <2>3
<1>7. <<a[N], b[N]>> \in SameMatches(related)
  <2>1. \A n \in 0..N : <<a[n], b[n]>> \in SameMatches(related)
    BY <1>1, <1>5, <1>6, SeriesKeeps
  <2> QED BY <1>1, <2>1
<1>8. SameMatch(related, a[N], b[N])
  BY <1>7, SameMatchesAre
<1>9. FirstRuleMatch(data1, c, below1, rules, visited, s1) = a[N]
  BY <1>2 DEF N
<1>10. FirstRuleMatch(data2, c, below2, rules, visited, s2) = b[N]
  BY <1>3 DEF N
<1> QED BY <1>8, <1>9, <1>10

NotConfigured(st) == [st EXCEPT !.status = UpdatedStatus(@, "NOT_CONFIGURED")]

(* What evaluating segments makes of states leaves them related.           *)
KeptBySegments(related) ==
  \A p \in related :
    /\ \A k \in DOMAIN GetBigSegments :
         <<AskedFor(k, GetBigSegments[k], p[1]), AskedFor(k, GetBigSegments[k], p[2])>> \in related
    /\ <<NotConfigured(p[1]), NotConfigured(p[2])>> \in related

(* The rules of an item refer to related segments only.                    *)
RulesRelate(related, data1, data2, below1, below2, visited, rules) ==
  \A s \in Segment :
    RefersToSegment(rules, s) => SegmentRelates(related, data1, data2, below1, below2, visited, s)

(* So do the clauses of each rule.                                         *)
LEMMA RulesRelateEach ==
  ASSUME NEW related, NEW data1, NEW data2, NEW below1, NEW below2, NEW visited, NEW rules,
         RulesRelate(related, data1, data2, below1, below2, visited, rules),
         NEW n \in DOMAIN rules, rules[n].clauses \in Seq(StoredClauses)
  PROVE  RuleRelates(related, data1, data2, below1, below2, visited, rules[n])
<1> SUFFICES ASSUME NEW m \in DOMAIN rules[n].clauses, rules[n].clauses[m].op = "segmentMatch",
                    NEW s \in ToSet(rules[n].clauses[m].segments)
             PROVE  SegmentRelates(related, data1, data2, below1, below2, visited, s)
  BY DEF RuleRelates, ClauseRelates
<1>1. RefersToSegment(rules, s)
  BY DEF RefersToSegment
<1>2. rules[n].clauses[m] \in StoredClauses
  BY ElementOfSeq, LenProperties
<1>3. rules[n].clauses[m].segments \in Seq(Segment)
  BY <1>2 DEF StoredClauses
<1>4. s \in Segment
  BY <1>3, ElementOfSeq, LenProperties DEF ToSet
<1> QED BY <1>1, <1>4 DEF RulesRelate

(* What a segment says itself is alike, and its rules match alike.         *)
LEMMA SimpleSegmentMatchRelates ==
  ASSUME NEW related, NEW data1, NEW data2, NEW below1, NEW below2, NEW visited \in SUBSET Item, NEW c,
         SegmentsRelated(related, data1, data2, below1, below2), NEW key,
         data1[key] = data2[key], data1[key] \in StoredSegments,
         RulesRelate(related, data1, data2, below1, below2, visited, data1[key].rules),
         NEW s1, NEW s2, <<s1, s2>> \in related
  PROVE  SameMatch(related, SimpleSegmentMatch(data1, c, below1, key, visited, s1),
                            SimpleSegmentMatch(data2, c, below2, key, visited, s2))
<1> DEFINE segment == data1[key]
           target == IF segment.unbounded THEN "neither" ELSE MatchSegmentTargets(segment, c)
<1>1. segment.rules \in Seq(StoredSegmentRules)
  BY DEF StoredSegments
<1>2. \A n \in DOMAIN segment.rules : segment.rules[n] \in StoredSegmentRules
  BY <1>1, ElementOfSeq, LenProperties
<1>3. \A n \in DOMAIN segment.rules : segment.rules[n].clauses \in Seq(StoredClauses)
  BY <1>2 DEF StoredSegmentRules
<1>4. \A n \in DOMAIN segment.rules : RuleRelates(related, data1, data2, below1, below2, visited, segment.rules[n])
  BY <1>3, RulesRelateEach
<1>5. SameMatch(related, FirstRuleMatch(data1, c, below1, segment.rules, visited, s1),
                         FirstRuleMatch(data2, c, below2, segment.rules, visited, s2))
  BY <1>1, <1>4, FirstRuleMatchRelates
<1>6. SameMatch(related, Match(s1, target = "included"), Match(s2, target = "included"))
  <2>1. (target = "included") \in BOOLEAN
    OBVIOUS
  <2> HIDE DEF target
  <2> QED BY <2>1, MatchRelates DEF SegmentsRelated
<1>7. /\ SimpleSegmentMatch(data1, c, below1, key, visited, s1) =
           IF target # "neither" THEN Match(s1, target = "included")
           ELSE FirstRuleMatch(data1, c, below1, segment.rules, visited, s1)
      /\ SimpleSegmentMatch(data2, c, below2, key, visited, s2) =
           IF target # "neither" THEN Match(s2, target = "included")
           ELSE FirstRuleMatch(data2, c, below2, segment.rules, visited, s2)
  BY DEF SimpleSegmentMatch
<1> HIDE DEF target, segment
<1> QED BY <1>5, <1>6, <1>7

(* What is not in the membership is decided by the rules, alike.           *)
LEMMA BigSegmentMatchRelates ==
  ASSUME NEW related, NEW data1, NEW data2, NEW below1, NEW below2, NEW c,
         SegmentsRelated(related, data1, data2, below1, below2), NEW key,
         data1[key] = data2[key], data1[key] \in StoredSegments,
         RulesRelate(related, data1, data2, below1, below2, {}, data1[key].rules),
         NEW membership, \A s \in DOMAIN membership : membership[s] \in BOOLEAN,
         NEW s1, NEW s2, <<s1, s2>> \in related
  PROVE  SameMatch(related, BigSegmentMatch(data1, c, below1, key, membership, s1),
                            BigSegmentMatch(data2, c, below2, key, membership, s2))
<1>1. key \in DOMAIN membership =>
        SameMatch(related, Match(s1, membership[key]), Match(s2, membership[key]))
  BY MatchRelates DEF SegmentsRelated
<1>2. SameMatch(related, SimpleSegmentMatch(data1, c, below1, key, {}, s1),
                         SimpleSegmentMatch(data2, c, below2, key, {}, s2))
  <2>1. {} \in SUBSET Item
    OBVIOUS
  <2> QED BY <2>1, SimpleSegmentMatchRelates
<1> QED BY <1>1, <1>2 DEF BigSegmentMatch

SegmentCallRelates(related, data1, data2, below1, below2, visited, key) ==
  /\ data1[key] = data2[key] /\ data1[key] \in StoredSegments
  /\ RulesRelate(related, data1, data2, below1, below2, IF data1[key].unbounded THEN {} ELSE visited, data1[key].rules)

(* A segment matches alike.                                                *)
LEMMA SegmentMatchRelates ==
  ASSUME NEW related, NEW data1, NEW data2, NEW below1, NEW below2, NEW visited \in SUBSET Item, NEW c \in Asked,
         SegmentsRelated(related, data1, data2, below1, below2), KeptBySegments(related), NEW key,
         SegmentCallRelates(related, data1, data2, below1, below2, visited, key),
         NEW s1, NEW s2, <<s1, s2>> \in related
  PROVE  SameMatch(related, SegmentMatch(data1, c, below1, key, visited, s1),
                            SegmentMatch(data2, c, below2, key, visited, s2))
<1> DEFINE segment == data1[key]
           kind == OrUser(segment.unboundedContextKind)
           k == KeyOf(c, kind)
           big == GetBigSegments[k]
<1>1. data1[key] = data2[key] /\ segment \in StoredSegments /\ related \in SUBSET (States \X States)
  BY DEF SegmentCallRelates, SegmentsRelated
<1>2. \A data, below, st :
        data[key] = segment =>
        SegmentMatch(data, c, below, key, visited, st) =
          IF ~segment.unbounded THEN SimpleSegmentMatch(data, c, below, key, visited, st)
          ELSE IF ~HasKind(c, kind) \/ k = <<>> THEN Match(st, FALSE)
          ELSE IF ~segment.generation THEN Match(NotConfigured(st), FALSE)
          ELSE BigSegmentMatch(data, c, below, key, big.membership, AskedFor(k, big, st))
  BY DEF SegmentMatch, NotConfigured
<1>3. CASE ~segment.unbounded
  <2>1. RulesRelate(related, data1, data2, below1, below2, visited, segment.rules)
    BY <1>3 DEF SegmentCallRelates
  <2>2. SameMatch(related, SimpleSegmentMatch(data1, c, below1, key, visited, s1),
                           SimpleSegmentMatch(data2, c, below2, key, visited, s2))
    BY <1>1, <2>1, SimpleSegmentMatchRelates
  <2> HIDE DEF segment
  <2>3. data1[key] = segment /\ data2[key] = segment
    BY <1>1 DEF segment
  <2> QED BY <1>2, <1>3, <2>2, <2>3
<1>4. CASE segment.unbounded
  <2>1. RulesRelate(related, data1, data2, below1, below2, {}, segment.rules)
    BY <1>4 DEF SegmentCallRelates
  <2>2. ASSUME HasKind(c, kind), k # <<>>
        PROVE  /\ k \in DOMAIN GetBigSegments
               /\ \A s \in DOMAIN big.membership : big.membership[s] \in BOOLEAN
    <3>1. kind \in Kinds(c)
      BY <2>2 DEF HasKind
    <3>2. k \in DOMAIN GetBigSegments
      BY <2>2, <3>1, BigSegmentsAssumption
    <3> QED BY <3>2, BigSegmentsAssumption
  <2>3. SameMatch(related, Match(s1, FALSE), Match(s2, FALSE))
    BY <1>1, MatchRelates
  <2>4. SameMatch(related, Match(NotConfigured(s1), FALSE), Match(NotConfigured(s2), FALSE))
    <3>1. <<NotConfigured(s1), NotConfigured(s2)>> \in related
      BY DEF KeptBySegments
    <3> QED BY <1>1, <3>1, MatchRelates
  <2>5. ASSUME HasKind(c, kind), k # <<>>
        PROVE  SameMatch(related, BigSegmentMatch(data1, c, below1, key, big.membership, AskedFor(k, big, s1)),
                                  BigSegmentMatch(data2, c, below2, key, big.membership, AskedFor(k, big, s2)))
    <3>1. <<AskedFor(k, big, s1), AskedFor(k, big, s2)>> \in related
      BY <2>2, <2>5 DEF KeptBySegments
    <3>2. \A s \in DOMAIN big.membership : big.membership[s] \in BOOLEAN
      BY <2>2, <2>5
    <3>3. data1[key] \in StoredSegments
      BY <1>1
    <3> HIDE DEF big, kind, k
    <3> QED BY <1>1, <2>1, <3>1, <3>2, <3>3, BigSegmentMatchRelates DEF segment
  <2> HIDE DEF segment, kind, k, big
  <2>6. data1[key] = segment /\ data2[key] = segment
    BY <1>1 DEF segment
  <2> QED BY <1>2, <1>4, <2>3, <2>4, <2>5, <2>6
<1> QED BY <1>3, <1>4

-----------------------------------------------------------------------------
(* How states can be related.                                              *)

(* States that are the same and have not come without an end, states that  *)
(* have, and states that have or have not alike.                           *)
Ending == {<<st, st>> : st \in {s \in States : ~s.endless}}
Without == {<<st, st>> : st \in {s \in States : s.endless}}
Alike == {p \in States \X States : p[1].endless = p[2].endless}

(* Which states these are.                                                 *)
LEMMA RelatedAre ==
  \A s1, s2 : /\ <<s1, s2>> \in Ending <=> s1 = s2 /\ s1 \in States /\ ~s1.endless
              /\ <<s1, s2>> \in Without <=> s1 = s2 /\ s1 \in States /\ s1.endless
              /\ <<s1, s2>> \in Alike <=> s1 \in States /\ s2 \in States /\ s1.endless = s2.endless
<1>1. \A s1, s2 : <<s1, s2>> \in Ending <=> s1 = s2 /\ s1 \in States /\ ~s1.endless
  BY DEF Ending
<1>2. \A s1, s2 : <<s1, s2>> \in Without <=> s1 = s2 /\ s1 \in States /\ s1.endless
  BY DEF Without
<1>3. \A s1, s2 : <<s1, s2>> \in Alike <=> s1 \in States /\ s2 \in States /\ s1.endless = s2.endless
  BY DEF Alike
<1> QED BY <1>1, <1>2, <1>3

(* The worse of two states of big segments is one.                         *)
LEMMA StatusTyped ==
  ASSUME NEW old \in DOMAIN StatusPriority, NEW latest \in DOMAIN StatusPriority
  PROVE  UpdatedStatus(old, latest) \in DOMAIN StatusPriority
  BY DEF UpdatedStatus

(* Asking for a membership leaves whether there is an end.                 *)
LEMMA AskedTyped ==
  ASSUME NEW st \in States, NEW k \in DOMAIN GetBigSegments
  PROVE  AskedFor(k, GetBigSegments[k], st) \in States /\ AskedFor(k, GetBigSegments[k], st).endless = st.endless
<1> DEFINE big == GetBigSegments[k]
           status == UpdatedStatus(st.status, big.status)
           known == st.known \cup IF big.found THEN {k} ELSE {}
<1>1. status \in DOMAIN StatusPriority
  <2>1. st.status \in DOMAIN StatusPriority /\ big.status \in DOMAIN StatusPriority
    BY BigSegmentsAssumption DEF States, EvalStates
  <2> QED BY <2>1, StatusTyped
<1>2. known \in SUBSET DOMAIN GetBigSegments
  BY DEF States, EvalStates
<1>3. AskedFor(k, big, st) = IF k \in st.known THEN st ELSE [st EXCEPT !.status = status, !.known = known]
  BY DEF AskedFor
<1> HIDE DEF status, known, big
<1>4. [st EXCEPT !.status = status, !.known = known] \in States
      /\ [st EXCEPT !.status = status, !.known = known].endless = st.endless
  BY <1>1, <1>2 DEF States, EvalStates
<1> QED BY <1>3, <1>4 DEF big

(* So does a segment without a generation.                                 *)
LEMMA NotConfiguredTyped ==
  ASSUME NEW st \in States
  PROVE  NotConfigured(st) \in States /\ NotConfigured(st).endless = st.endless
<1> DEFINE status == UpdatedStatus(st.status, "NOT_CONFIGURED")
<1>1. status \in DOMAIN StatusPriority
  <2>1. st.status \in DOMAIN StatusPriority /\ "NOT_CONFIGURED" \in DOMAIN StatusPriority
    BY DEF States, EvalStates, StatusPriority
  <2> QED BY <2>1, StatusTyped
<1>2. NotConfigured(st) = [st EXCEPT !.status = status]
  BY DEF NotConfigured
<1> HIDE DEF status
<1> QED BY <1>1, <1>2 DEF States, EvalStates

(* States stay related in these ways.                                      *)
LEMMA RelatedKept ==
  KeptBySegments(Same) /\ KeptBySegments(Ending) /\ KeptBySegments(Without) /\ KeptBySegments(Alike)
<1>1. KeptBySegments(Same)
  <2> SUFFICES ASSUME NEW p \in Same
               PROVE  /\ \A k \in DOMAIN GetBigSegments :
                           <<AskedFor(k, GetBigSegments[k], p[1]), AskedFor(k, GetBigSegments[k], p[2])>> \in Same
                      /\ <<NotConfigured(p[1]), NotConfigured(p[2])>> \in Same
    BY DEF KeptBySegments
  <2>1. p[1] = p[2] /\ p[1] \in States
    BY DEF Same
  <2> QED BY <2>1, AskedTyped, NotConfiguredTyped, SameAre
<1>2. KeptBySegments(Ending)
  <2> SUFFICES ASSUME NEW p \in Ending
               PROVE  /\ \A k \in DOMAIN GetBigSegments :
                           <<AskedFor(k, GetBigSegments[k], p[1]), AskedFor(k, GetBigSegments[k], p[2])>> \in Ending
                      /\ <<NotConfigured(p[1]), NotConfigured(p[2])>> \in Ending
    BY DEF KeptBySegments
  <2>1. p[1] = p[2] /\ p[1] \in States /\ ~p[1].endless
    BY DEF Ending
  <2> QED BY <2>1, AskedTyped, NotConfiguredTyped, RelatedAre
<1>3. KeptBySegments(Without)
  <2> SUFFICES ASSUME NEW p \in Without
               PROVE  /\ \A k \in DOMAIN GetBigSegments :
                           <<AskedFor(k, GetBigSegments[k], p[1]), AskedFor(k, GetBigSegments[k], p[2])>> \in Without
                      /\ <<NotConfigured(p[1]), NotConfigured(p[2])>> \in Without
    BY DEF KeptBySegments
  <2>1. p[1] = p[2] /\ p[1] \in States /\ p[1].endless
    BY DEF Without
  <2> QED BY <2>1, AskedTyped, NotConfiguredTyped, RelatedAre
<1>4. KeptBySegments(Alike)
  <2> SUFFICES ASSUME NEW p \in Alike
               PROVE  /\ \A k \in DOMAIN GetBigSegments :
                           <<AskedFor(k, GetBigSegments[k], p[1]), AskedFor(k, GetBigSegments[k], p[2])>> \in Alike
                      /\ <<NotConfigured(p[1]), NotConfigured(p[2])>> \in Alike
    BY DEF KeptBySegments
  <2>1. p[1] \in States /\ p[2] \in States /\ p[1].endless = p[2].endless
    BY DEF Alike
  <2> QED BY <2>1, AskedTyped, NotConfiguredTyped, RelatedAre
<1> QED BY <1>1, <1>2, <1>3, <1>4

-----------------------------------------------------------------------------
(* What calls for segments give.                                           *)

SegmentLevels(m, data, c) ==
  /\ m \in [0..MaxDepth -> SegmentAnswers(data)]
  /\ \A n \in 0..MaxDepth : \A call \in CallsFor(data, "segment") :
       m[n][call] = IF n = 0 \/ Endless(call.st) THEN Match(WithoutEnd(call.st), FALSE)
                    ELSE SegmentMatch(data, c, m[n - 1], call.key, call.visited, call.st)

(* A state that has no end is a state.                                     *)
LEMMA WithoutEndTyped ==
  ASSUME NEW st \in States
  PROVE  WithoutEnd(st) \in States /\ WithoutEnd(st).endless = TRUE
  BY DEF WithoutEnd, States, EvalStates

(* A call for a segment is for one that there is.                          *)
LEMMA SegmentCallTyped ==
  ASSUME NEW data \in StoredData, NEW call \in CallsFor(data, "segment")
  PROVE  /\ call.key \in Segment /\ data[call.key] \in StoredSegments
         /\ call.visited \in SUBSET Item /\ call.st \in States
<1>1. call.key \in KeysOf(data, "segment") /\ call.visited \in SUBSET Item /\ call.st \in States
  BY DEF CallsFor, StoredData, States
<1>2. call.key \in Item /\ data[call.key].kind = "segment" /\ data[call.key] \in Stored(call.key)
  BY <1>1 DEF KeysOf, StoredData
<1>3. data[call.key] # NoItem /\ data[call.key] \notin StoredFlags
  BY <1>2 DEF NoItem, StoredFlags
<1>4. call.key \notin Flag /\ data[call.key] \in StoredSegments
  BY <1>2, <1>3 DEF Stored
<1> QED BY <1>1, <1>2, <1>4, ItemAssumption

(* Calls for segments give results if those in them do.                    *)
LEMMA SegmentMatchTyped ==
  ASSUME NEW data \in StoredData, NEW c \in Asked, NEW below \in SegmentAnswers(data),
         NEW call \in CallsFor(data, "segment")
  PROVE  SegmentMatch(data, c, below, call.key, call.visited, call.st) \in MatchResults
<1>1. /\ call.key \in Segment /\ data[call.key] \in StoredSegments
      /\ call.visited \in SUBSET Item /\ call.st \in States
  BY SegmentCallTyped
<1> DEFINE w == IF data[call.key].unbounded THEN {} ELSE call.visited
<1>2. w \in SUBSET Item
  BY <1>1
<1> HIDE DEF w
<1>3. RulesRelate(Same, data, data, below, below, w, data[call.key].rules)
  BY <1>2, SegmentTyped DEF RulesRelate
<1>4. SegmentCallRelates(Same, data, data, below, below, call.visited, call.key)
  BY <1>1, <1>3 DEF SegmentCallRelates, w
<1>5. <<call.st, call.st>> \in Same
  BY <1>1, SameAre
<1>6. SameMatch(Same, SegmentMatch(data, c, below, call.key, call.visited, call.st),
                      SegmentMatch(data, c, below, call.key, call.visited, call.st))
  BY <1>1, <1>4, <1>5, SegmentsTyped, RelatedKept, SegmentMatchRelates
<1> QED BY <1>6 DEF SameMatch

(* Calls for segments at most so many of which are in each other.          *)
LEMMA SegmentMatchesUnfold ==
  ASSUME NEW data \in StoredData, NEW c \in Asked
  PROVE  \E m : SegmentLevels(m, data, c) /\ SegmentMatches(data, c) = m[MaxDepth]
<1> DEFINE N == MaxDepth
           C == CallsFor(data, "segment")
           V == SegmentAnswers(data)
           Step(below, call) == SegmentMatch(data, c, below, call.key, call.visited, call.st)
           End(call) == Match(WithoutEnd(call.st), FALSE)
           b == [call \in C |-> End(call)]
           F == [n \in 1..N |-> [below \in V |-> [call \in C |-> IF Endless(call.st) THEN End(call) ELSE Step(below, call)]]]
           P(m) == m = [n \in 0..N |-> [call \in C |-> IF n = 0 \/ Endless(call.st) THEN End(call)
                                                       ELSE Step(m[n - 1], call)]]
           matches == CHOOSE m : P(m)
<1>1. N \in Nat
  BY DepthAssumption
<1>2. ASSUME NEW call \in C PROVE End(call) \in MatchResults
  BY SegmentCallTyped, WithoutEndTyped, MatchTyped
<1>3. ASSUME NEW call \in C, NEW below \in V PROVE Step(below, call) \in MatchResults
  BY SegmentMatchTyped
<1>4. SegmentMatches(data, c) = matches[N]
  BY DEF SegmentMatches
<1>5. V = [C -> MatchResults]
  BY DEF SegmentAnswers
<1> HIDE DEF N, C, V, Step, End
<1>6. b \in V
  BY <1>2, <1>5
<1>7. F \in [1..N -> [V -> V]]
  <2>1. ASSUME NEW below \in V
        PROVE  [call \in C |-> IF Endless(call.st) THEN End(call) ELSE Step(below, call)] \in V
    BY <1>2, <1>3, <1>5
  <2> QED BY <2>1
<1>8. \A n \in 1..N : \A below \in V : \A call \in C :
        F[n][below][call] = IF Endless(call.st) THEN End(call) ELSE Step(below, call)
  OBVIOUS
<1>9. \A call \in C : b[call] = End(call)
  OBVIOUS
<1> HIDE DEF F, b
<1>10. PICK m \in [0..N -> V] : RecursionTo(N, F, b, m)
  <2> HIDE DEF P, matches
  <2> QED BY <1>1, <1>6, <1>7, BoundedRecursion
<1>11. ASSUME NEW n \in 0..N
       PROVE  m[n] = [call \in C |-> IF n = 0 \/ Endless(call.st) THEN End(call) ELSE Step(m[n - 1], call)]
  <2> HIDE DEF P, matches
  <2>1. m[n] \in [C -> MatchResults]
    BY <1>5, <1>10
  <2>2. CASE n = 0
    <3>1. m[n] = b
      BY <1>10, <2>2 DEF RecursionTo
    <3> QED BY <1>9, <2>1, <2>2, <3>1
  <2>3. CASE n # 0
    <3>1. n \in 1..N /\ n - 1 \in 0..N
      BY <1>1, <2>3
    <3>2. m[n] = F[n][m[n - 1]] /\ m[n - 1] \in V
      BY <1>10, <2>3, <3>1 DEF RecursionTo
    <3>3. \A call \in C : m[n][call] = IF Endless(call.st) THEN End(call) ELSE Step(m[n - 1], call)
      BY <1>8, <3>1, <3>2
    <3> QED BY <2>1, <2>3, <3>3
  <2> QED BY <2>2, <2>3
<1>12. P(m)
  BY <1>11
<1>13. P(matches)
  BY <1>12
<1> HIDE DEF matches
<1>14. ASSUME NEW n \in 0..N, NEW call \in C
       PROVE  matches[n][call] = IF n = 0 \/ Endless(call.st) THEN End(call) ELSE Step(matches[n - 1], call)
  <2>1. matches[n] = [x \in C |-> IF n = 0 \/ Endless(x.st) THEN End(x) ELSE Step(matches[n - 1], x)]
    BY <1>13
  <2> HIDE DEF P
  <2> QED BY <2>1
<1>15. \A n \in 0..N : matches[n] = [call \in C |-> matches[n][call]]
  BY <1>13
<1>16. matches = [n \in 0..N |-> matches[n]]
  BY <1>13
<1> HIDE DEF P
<1>17. \A n \in 0..N : matches[n] \in V
  <2> DEFINE A == {n \in 0..N : matches[n] \in V}
  <2>1. 0 \in A
    <3>1. 0 \in 0..N
      BY <1>1
    <3>2. \A call \in C : matches[0][call] \in MatchResults
      BY <1>2, <1>14, <3>1
    <3>3. matches[0] = [call \in C |-> matches[0][call]]
      BY <1>15, <3>1
    <3>4. matches[0] \in V
      BY <1>5, <3>2, <3>3
    <3> QED BY <3>1, <3>4
  <2>2. ASSUME NEW n \in 0..N, n \in A, n < N PROVE n + 1 \in A
    <3>1. n + 1 \in 0..N /\ (n + 1) - 1 = n /\ n + 1 # 0
      BY <1>1, <2>2
    <3>2. \A call \in C : matches[n + 1][call] = IF Endless(call.st) THEN End(call) ELSE Step(matches[n], call)
      BY <1>14, <3>1
    <3>3. matches[n] \in V
      BY <2>2
    <3>4. \A call \in C : matches[n + 1][call] \in MatchResults
      BY <1>2, <1>3, <3>2, <3>3
    <3>5. matches[n + 1] = [call \in C |-> matches[n + 1][call]]
      BY <1>15, <3>1
    <3>6. matches[n + 1] \in V
      BY <1>5, <3>4, <3>5
    <3> QED BY <3>1, <3>6
  <2>3. \A n \in 0..N : n \in A
    <3> HIDE DEF A
    <3> QED BY <1>1, <2>1, <2>2, AllNumbersUpTo
  <2> QED BY <2>3
<1>18. matches \in [0..N -> V]
  BY <1>16, <1>17
<1>19. SegmentLevels(matches, data, c)
  BY <1>14, <1>18 DEF SegmentLevels, N, C, V, Step, End
<1> QED BY <1>4, <1>19 DEF N

(* Segments that two stores have alike, with all that they refer to.       *)
SegmentsAgree(U, data1, data2) ==
  /\ U \in SUBSET Segment
  /\ \A s \in U : /\ data1[s] = data2[s]
                  /\ data1[s] # NoItem => \A t \in Segment : RefersToSegment(data1[s].rules, t) => t \in U

(* Related states have come without an end alike, and go on without one.   *)
EndsAlike(related) ==
  \A p \in related : p[1].endless = p[2].endless /\ <<WithoutEnd(p[1]), WithoutEnd(p[2])>> \in related

(* Such are these relations.                                               *)
LEMMA RelatedEndAlike == EndsAlike(Same) /\ EndsAlike(Without) /\ EndsAlike(Alike)
<1>1. ASSUME NEW p \in Same PROVE p[1].endless = p[2].endless /\ <<WithoutEnd(p[1]), WithoutEnd(p[2])>> \in Same
  <2>1. p[1] = p[2] /\ p[1] \in States
    BY DEF Same
  <2> QED BY <2>1, WithoutEndTyped, SameAre
<1>2. ASSUME NEW p \in Without PROVE p[1].endless = p[2].endless /\ <<WithoutEnd(p[1]), WithoutEnd(p[2])>> \in Without
  <2>1. p[1] = p[2] /\ p[1] \in States
    BY DEF Without
  <2>2. WithoutEnd(p[1]) \in States /\ WithoutEnd(p[1]).endless = TRUE
    BY <2>1, WithoutEndTyped
  <2>3. <<WithoutEnd(p[1]), WithoutEnd(p[1])>> \in Without
    BY <2>2 DEF Without
  <2> QED BY <2>1, <2>3
<1>3. ASSUME NEW p \in Alike PROVE p[1].endless = p[2].endless /\ <<WithoutEnd(p[1]), WithoutEnd(p[2])>> \in Alike
  <2>1. p[1] \in States /\ p[2] \in States /\ p[1].endless = p[2].endless
    BY DEF Alike
  <2>2. /\ WithoutEnd(p[1]) \in States /\ WithoutEnd(p[1]).endless = TRUE
        /\ WithoutEnd(p[2]) \in States /\ WithoutEnd(p[2]).endless = TRUE
    BY <2>1, WithoutEndTyped
  <2>3. <<WithoutEnd(p[1]), WithoutEnd(p[2])>> \in Alike
    BY <2>2 DEF Alike
  <2> QED BY <2>1, <2>3
<1> QED BY <1>1, <1>2, <1>3 DEF EndsAlike

SegmentCall(m, data, c, n, s, visited, st) ==
  m[n][Call(s, visited, st)] = IF n = 0 \/ st.endless THEN Match(WithoutEnd(st), FALSE)
                               ELSE SegmentMatch(data, c, m[n - 1], s, visited, st)

(* A call for a segment that there is.                                     *)
LEMMA SegmentCallIs ==
  ASSUME NEW data \in StoredData, NEW c, NEW m, SegmentLevels(m, data, c), NEW n \in 0..MaxDepth,
         NEW s \in Segment, data[s] # NoItem, NEW visited \in SUBSET Item, NEW st \in States
  PROVE  SegmentCall(m, data, c, n, s, visited, st)
<1> DEFINE call == Call(s, visited, st)
<1>1. call.key = s /\ call.visited = visited /\ call.st = st
  BY DEF Call
<1>2. call \in CallsFor(data, "segment")
  <2>1. s \in KeysOf(data, "segment") /\ DOMAIN data = Item
    BY SegmentsOfData DEF StoredData
  <2> QED BY <2>1 DEF Call, CallsFor, States
<1> HIDE DEF call
<1>3. m[n][call] = IF n = 0 \/ Endless(call.st) THEN Match(WithoutEnd(call.st), FALSE)
                   ELSE SegmentMatch(data, c, m[n - 1], call.key, call.visited, call.st)
  BY <1>2 DEF SegmentLevels
<1> QED BY <1>1, <1>3 DEF Endless, SegmentCall, call

(* Calls for the same segment, in which there are equally many at most.    *)
LevelsRelate(related, U, data1, m1, m2, n) ==
  \A s \in U : \A visited \in SUBSET Item : \A p \in related :
    data1[s] # NoItem => SameMatch(related, m1[n][Call(s, visited, p[1])], m2[n][Call(s, visited, p[2])])

(* What such calls give relates segments.                                  *)
LEMMA LevelRelatesSegments ==
  ASSUME NEW related, NEW U, NEW data1, NEW data2, NEW m1, NEW m2, NEW n,
         SegmentsAgree(U, data1, data2), LevelsRelate(related, U, data1, m1, m2, n),
         NEW s \in U, NEW visited \in SUBSET Item
  PROVE  SegmentRelates(related, data1, data2, m1[n], m2[n], visited, s)
<1>1. data1[s] = data2[s] /\ s \in Item
  BY ItemAssumption DEF SegmentsAgree
<1>2. Visiting(visited, s) \in SUBSET Item
  BY <1>1 DEF Visiting
<1> QED BY <1>1, <1>2 DEF LevelsRelate, SegmentRelates

(* They do so for any number of calls in each other.                       *)
LEMMA SegmentLevelsRelate ==
  ASSUME NEW related \in SUBSET (States \X States), KeptBySegments(related), EndsAlike(related),
         NEW data1 \in StoredData, NEW data2 \in StoredData, NEW c \in Asked, NEW U, SegmentsAgree(U, data1, data2),
         NEW m1, NEW m2, SegmentLevels(m1, data1, c), SegmentLevels(m2, data2, c)
  PROVE  \A n \in 0..MaxDepth : LevelsRelate(related, U, data1, m1, m2, n)
<1> DEFINE A == {n \in 0..MaxDepth : LevelsRelate(related, U, data1, m1, m2, n)}
<1>1. MaxDepth \in Nat
  BY DepthAssumption
<1>2. ASSUME NEW n \in 0..MaxDepth, NEW s \in U, NEW visited \in SUBSET Item, NEW p \in related, data1[s] # NoItem
      PROVE  /\ p[1].endless = p[2].endless
             /\ m1[n][Call(s, visited, p[1])] = IF n = 0 \/ p[1].endless THEN Match(WithoutEnd(p[1]), FALSE)
                                                ELSE SegmentMatch(data1, c, m1[n - 1], s, visited, p[1])
             /\ m2[n][Call(s, visited, p[2])] = IF n = 0 \/ p[2].endless THEN Match(WithoutEnd(p[2]), FALSE)
                                                ELSE SegmentMatch(data2, c, m2[n - 1], s, visited, p[2])
  <2>1. s \in Segment /\ data1[s] = data2[s] /\ data2[s] # NoItem
    BY <1>2 DEF SegmentsAgree
  <2>2. p[1] \in States /\ p[2] \in States /\ p[1].endless = p[2].endless
    BY DEF EndsAlike
  <2>3. SegmentCall(m1, data1, c, n, s, visited, p[1])
    BY <1>2, <2>1, <2>2, SegmentCallIs
  <2>4. SegmentCall(m2, data2, c, n, s, visited, p[2])
    BY <1>2, <2>1, <2>2, SegmentCallIs
  <2> QED BY <2>2, <2>3, <2>4 DEF SegmentCall
<1>3. ASSUME NEW n \in 0..MaxDepth, NEW s \in U, NEW visited \in SUBSET Item, NEW p \in related, data1[s] # NoItem,
             n = 0 \/ p[1].endless
      PROVE  SameMatch(related, m1[n][Call(s, visited, p[1])], m2[n][Call(s, visited, p[2])])
  <2>1. p[1].endless = p[2].endless /\ <<WithoutEnd(p[1]), WithoutEnd(p[2])>> \in related
    BY DEF EndsAlike
  <2>2. m1[n][Call(s, visited, p[1])] = Match(WithoutEnd(p[1]), FALSE)
    BY <1>2, <1>3
  <2>3. m2[n][Call(s, visited, p[2])] = Match(WithoutEnd(p[2]), FALSE)
    BY <1>2, <1>3, <2>1
  <2> QED BY <2>1, <2>2, <2>3, MatchRelates, ZenonT(60)
<1>4. 0 \in A
  <2>1. 0 \in 0..MaxDepth
    BY <1>1
  <2> QED BY <1>3, <2>1 DEF LevelsRelate
<1>5. ASSUME NEW n \in 0..MaxDepth, n \in A, n < MaxDepth PROVE n + 1 \in A
  <2>1. n + 1 \in 0..MaxDepth /\ (n + 1) - 1 = n /\ n + 1 # 0
    BY <1>1, <1>5
  <2>2. ASSUME NEW s \in U, NEW visited \in SUBSET Item, NEW p \in related, data1[s] # NoItem
        PROVE  SameMatch(related, m1[n + 1][Call(s, visited, p[1])], m2[n + 1][Call(s, visited, p[2])])
    <3>1. CASE p[1].endless
      BY <1>3, <2>1, <2>2, <3>1
    <3>2. CASE ~p[1].endless
      <4>1. ~p[2].endless
        BY <3>2 DEF EndsAlike
      <4>2. m1[n + 1][Call(s, visited, p[1])] = SegmentMatch(data1, c, m1[n], s, visited, p[1])
        <5>1. m1[n + 1][Call(s, visited, p[1])] = IF n + 1 = 0 \/ p[1].endless THEN Match(WithoutEnd(p[1]), FALSE)
                                                  ELSE SegmentMatch(data1, c, m1[(n + 1) - 1], s, visited, p[1])
          BY <1>2, <2>1, <2>2
        <5> QED BY <2>1, <3>2, <5>1
      <4>3. m2[n + 1][Call(s, visited, p[2])] = SegmentMatch(data2, c, m2[n], s, visited, p[2])
        <5>1. m2[n + 1][Call(s, visited, p[2])] = IF n + 1 = 0 \/ p[2].endless THEN Match(WithoutEnd(p[2]), FALSE)
                                                  ELSE SegmentMatch(data2, c, m2[(n + 1) - 1], s, visited, p[2])
          BY <1>2, <2>1, <2>2
        <5> QED BY <2>1, <4>1, <5>1
      <4>4. s \in Segment /\ data1[s] = data2[s] /\ data1[s] \in StoredSegments
        BY <2>2, SegmentsOfData DEF SegmentsAgree
      <4>5. SegmentsRelated(related, data1, data2, m1[n], m2[n])
        BY DEF SegmentsRelated, SegmentLevels
      <4> DEFINE w == IF data1[s].unbounded THEN {} ELSE visited
      <4>6. w \in SUBSET Item
        OBVIOUS
      <4> HIDE DEF w
      <4>7. ASSUME NEW t \in Segment, RefersToSegment(data1[s].rules, t)
            PROVE  SegmentRelates(related, data1, data2, m1[n], m2[n], w, t)
        <5>1. t \in U
          BY <2>2, <4>7 DEF SegmentsAgree
        <5>2. LevelsRelate(related, U, data1, m1, m2, n)
          BY <1>5
        <5> QED BY <4>6, <5>1, <5>2, LevelRelatesSegments
      <4>8. SegmentCallRelates(related, data1, data2, m1[n], m2[n], visited, s)
        BY <4>4, <4>7 DEF SegmentCallRelates, RulesRelate, w
      <4>9. <<p[1], p[2]>> \in related
        OBVIOUS
      <4> QED BY <4>2, <4>3, <4>5, <4>8, <4>9, SegmentMatchRelates
    <3> QED BY <3>1, <3>2
  <2>3. LevelsRelate(related, U, data1, m1, m2, n + 1)
    BY <2>2 DEF LevelsRelate
  <2> QED BY <2>1, <2>3
<1>6. \A n \in 0..MaxDepth : n \in A
  <2> HIDE DEF A
  <2> QED BY <1>1, <1>4, <1>5, AllNumbersUpTo
<1> QED BY <1>6

(* Rules that refer to segments that two stores have alike match alike.    *)
LEMMA RulesMatchAlike ==
  ASSUME NEW related \in SUBSET (States \X States), KeptBySegments(related), EndsAlike(related),
         NEW data1 \in StoredData, NEW data2 \in StoredData, NEW c \in Asked, NEW U, SegmentsAgree(U, data1, data2),
         NEW rules, \A s \in Segment : RefersToSegment(rules, s) => s \in U
  PROVE  /\ SegmentsRelated(related, data1, data2, SegmentMatches(data1, c), SegmentMatches(data2, c))
         /\ RulesRelate(related, data1, data2, SegmentMatches(data1, c), SegmentMatches(data2, c), {}, rules)
<1>1. PICK m1 : SegmentLevels(m1, data1, c) /\ SegmentMatches(data1, c) = m1[MaxDepth]
  BY SegmentMatchesUnfold
<1>2. PICK m2 : SegmentLevels(m2, data2, c) /\ SegmentMatches(data2, c) = m2[MaxDepth]
  BY SegmentMatchesUnfold
<1>3. MaxDepth \in 0..MaxDepth
  BY DepthAssumption
<1>4. SegmentsRelated(related, data1, data2, m1[MaxDepth], m2[MaxDepth])
  BY <1>1, <1>2, <1>3 DEF SegmentsRelated, SegmentLevels
<1>5. LevelsRelate(related, U, data1, m1, m2, MaxDepth)
  BY <1>1, <1>2, <1>3, SegmentLevelsRelate
<1>6. ASSUME NEW s \in Segment, RefersToSegment(rules, s)
      PROVE  SegmentRelates(related, data1, data2, m1[MaxDepth], m2[MaxDepth], {}, s)
  <2>1. s \in U /\ {} \in SUBSET Item
    BY <1>6
  <2> QED BY <1>5, <2>1, LevelRelatesSegments
<1> QED BY <1>1, <1>2, <1>4, <1>6 DEF RulesRelate

-----------------------------------------------------------------------------
(* Flags.                                                                  *)

Answers == [res : Results, st : States]
MaybeAnswers == [res : MaybeResults, st : States]

SameAnswer(related, r1, r2) ==
  /\ r1 \in MaybeAnswers /\ r2 \in MaybeAnswers
  /\ r1.res = r2.res /\ <<r1.st, r2.st>> \in related

Decided(r) == r.res # NoResult

(* No result is none.                                                      *)
LEMMA ResultsDecide == NoResult \notin Results
<1>1. "undecided" \notin EvalReasons
  BY DEF EvalReasons
<1>2. NoResult.kind = "undecided"
  BY DEF NoResult
<1> QED BY <1>1, <1>2 DEF Results, EvalResults

(* Answers with the same result are related as their states are.           *)
LEMMA AnswerRelates ==
  ASSUME NEW related \in SUBSET (States \X States), NEW s1, NEW s2, <<s1, s2>> \in related, NEW res \in MaybeResults
  PROVE  SameAnswer(related, Evaluated(res, s1), Evaluated(res, s2))
<1>1. s1 \in States /\ s2 \in States
  OBVIOUS
<1>2. Evaluated(res, s1) \in MaybeAnswers /\ Evaluated(res, s1).res = res /\ Evaluated(res, s1).st = s1
  BY <1>1 DEF Evaluated, MaybeAnswers
<1>3. Evaluated(res, s2) \in MaybeAnswers /\ Evaluated(res, s2).res = res /\ Evaluated(res, s2).st = s2
  BY <1>1 DEF Evaluated, MaybeAnswers
<1> QED BY <1>2, <1>3 DEF SameAnswer

(* An answer with a state is one.                                          *)
LEMMA EvaluatedTyped ==
  ASSUME NEW res \in MaybeResults, NEW st \in States
  PROVE  Evaluated(res, st) \in MaybeAnswers /\ Evaluated(res, st).res = res /\ Evaluated(res, st).st = st
  BY DEF Evaluated, MaybeAnswers

(* A result has the number of its rule.                                    *)
LEMMA NumberedTyped ==
  ASSUME NEW result \in Results, NEW n \in Nat
  PROVE  Numbered(result, n) \in Results
  BY DEF Numbered, Results, EvalResults

(* What a rule gives after its clauses.                                    *)
RuleGives(flag, n, c, error, match) ==
  IF error THEN Malformed
  ELSE IF ~match THEN NoResult
  ELSE Numbered(VariationForContext(flag.rules[n], flag, c, "RULE_MATCH"), n)

(* It gives a result or none.                                              *)
LEMMA RuleGivesTyped ==
  ASSUME NEW flag \in StoredFlags, NEW n \in 1..Len(flag.rules), NEW c, NEW error, NEW match
  PROVE  RuleGives(flag, n, c, error, match) \in MaybeResults
<1>1. flag.rules \in Seq(StoredFlagRules)
  BY DEF StoredFlags
<1>2. flag.rules[n] \in StoredFlagRules
  BY <1>1, ElementOfSeq
<1>3. flag.rules[n].variation \in IndexOrNone /\ flag.rules[n].rollout \in Seq(StoredRollouts)
  BY <1>2 DEF StoredFlagRules
<1>4. "RULE_MATCH" \in EvalReasons
  BY DEF EvalReasons
<1>5. VariationForContext(flag.rules[n], flag, c, "RULE_MATCH") \in Results
  BY <1>3, <1>4, VariationForContextTyped
<1>6. n \in Nat
  BY <1>1
<1>7. Numbered(VariationForContext(flag.rules[n], flag, c, "RULE_MATCH"), n) \in Results
  BY <1>5, <1>6, NumberedTyped
<1> QED BY <1>7, MalformedTyped DEF RuleGives, MaybeResults

(* Related matches give related results.                                   *)
LEMMA RuleResultRelates ==
  ASSUME NEW related \in SUBSET (States \X States), NEW flag \in StoredFlags, NEW n \in 1..Len(flag.rules), NEW c,
         NEW r1, NEW r2, SameMatch(related, r1, r2)
  PROVE  SameAnswer(related, RuleResult(flag, n, c, r1), RuleResult(flag, n, c, r2))
<1>1. r1.error = r2.error /\ r1.match = r2.match /\ <<r1.st, r2.st>> \in related
  BY DEF SameMatch
<1>2. \A r : RuleResult(flag, n, c, r) = Evaluated(RuleGives(flag, n, c, r.error, r.match), r.st)
  BY DEF RuleResult, RuleGives
<1>3. RuleGives(flag, n, c, r1.error, r1.match) \in MaybeResults
  BY RuleGivesTyped
<1> QED BY <1>1, <1>2, <1>3, AnswerRelates

RuleSeries(a, N, first) ==
  /\ a \in [0..N -> MaybeAnswers] /\ a[0] = first
  /\ \A n \in 1..N : Decided(a[n - 1]) => a[n] = a[n - 1]

ClausesOf(data, c, flag, n, st) == AllClausesMatch(data, c, SegmentMatches(data, c), flag.rules[n].clauses, {}, st)

(* The clauses of a flag's rule give a result.                             *)
LEMMA ClausesOfTyped ==
  ASSUME NEW data \in StoredData, NEW c \in Asked, NEW flag \in StoredFlags, NEW n \in 1..Len(flag.rules), NEW st \in States
  PROVE  ClausesOf(data, c, flag, n, st) \in MatchResults
<1>1. flag.rules \in Seq(StoredFlagRules)
  BY DEF StoredFlags
<1>2. flag.rules[n] \in StoredFlagRules
  BY <1>1, ElementOfSeq
<1>3. flag.rules[n].clauses \in Seq(StoredClauses)
  BY <1>2 DEF StoredFlagRules
<1>4. SegmentMatches(data, c) \in SegmentAnswers(data)
  <2>1. PICK m : SegmentLevels(m, data, c) /\ SegmentMatches(data, c) = m[MaxDepth]
    BY SegmentMatchesUnfold
  <2>2. MaxDepth \in 0..MaxDepth
    BY DepthAssumption
  <2> QED BY <2>1, <2>2 DEF SegmentLevels
<1>5. {} \in SUBSET Item
  OBVIOUS
<1> QED BY <1>3, <1>4, <1>5, AllClausesMatchTyped DEF ClausesOf

(* A match gives an answer.                                                *)
LEMMA RuleResultTyped ==
  ASSUME NEW flag \in StoredFlags, NEW n \in 1..Len(flag.rules), NEW c, NEW r \in MatchResults
  PROVE  RuleResult(flag, n, c, r) \in MaybeAnswers
<1>1. r.st \in States
  BY DEF MatchResults
<1>2. RuleResult(flag, n, c, r) = Evaluated(RuleGives(flag, n, c, r.error, r.match), r.st)
  BY DEF RuleResult, RuleGives
<1>3. RuleGives(flag, n, c, r.error, r.match) \in MaybeResults
  BY RuleGivesTyped
<1> QED BY <1>1, <1>2, <1>3, EvaluatedTyped

EvaluateRulesSeries(a, data, c, flag, first) ==
  /\ RuleSeries(a, Len(flag.rules), first)
  /\ \A n \in 1..Len(flag.rules) :
       ~Decided(a[n - 1]) => a[n] = RuleResult(flag, n, c, ClausesOf(data, c, flag, n, a[n - 1].st))

(* The rules of a flag are evaluated one after the other.                  *)
LEMMA EvaluateRulesUnfolds ==
  ASSUME NEW data \in StoredData, NEW c \in Asked, NEW flag \in StoredFlags, NEW first \in MaybeAnswers
  PROVE  \E a : EvaluateRulesSeries(a, data, c, flag, first) /\ EvaluateRules(data, c, flag, first) = a[Len(flag.rules)]
<1> DEFINE N == Len(flag.rules)
           V == MaybeAnswers
           E == {v \in V : Decided(v)}
           S == [n \in 1..N |-> [v \in V |-> RuleResult(flag, n, c, ClausesOf(data, c, flag, n, v.st))]]
           P(a) == a = [n \in 0..N |-> IF n = 0 THEN first
                                       ELSE IF Decided(a[n - 1]) THEN a[n - 1]
                                       ELSE RuleResult(flag, n, c, ClausesOf(data, c, flag, n, a[n - 1].st))]
           after == CHOOSE a : P(a)
<1>1. N \in Nat /\ first \in V
  BY LenProperties DEF StoredFlags
<1>2. ASSUME NEW n \in 1..N, NEW v \in V PROVE RuleResult(flag, n, c, ClausesOf(data, c, flag, n, v.st)) \in V
  <2>1. v.st \in States
    BY DEF MaybeAnswers
  <2>2. ClausesOf(data, c, flag, n, v.st) \in MatchResults
    BY <2>1, ClausesOfTyped
  <2> QED BY <2>2, RuleResultTyped
<1>3. /\ S \in [1..N -> [V -> V]]
      /\ \A n \in 1..N : \A v \in V : S[n][v] = RuleResult(flag, n, c, ClausesOf(data, c, flag, n, v.st))
  BY <1>2
<1>4. \A v \in V : v \in E <=> Decided(v)
  OBVIOUS
<1>5. EvaluateRules(data, c, flag, first) = after[N]
  BY DEF EvaluateRules, Series, Decided, ClausesOf
<1> HIDE DEF S, E, V, N
<1>6. PICK a \in [0..N -> V] : SeriesGoes(a, N, first, E, S)
  <2> HIDE DEF P, after
  <2> QED BY <1>1, <1>3, SeriesExists
<1>7. ASSUME NEW n \in 0..N
      PROVE  a[n] = IF n = 0 THEN first
                    ELSE IF Decided(a[n - 1]) THEN a[n - 1]
                    ELSE RuleResult(flag, n, c, ClausesOf(data, c, flag, n, a[n - 1].st))
  <2>1. CASE n = 0
    BY <1>6, <2>1 DEF SeriesGoes
  <2>2. CASE n # 0
    <3>1. n \in 1..N /\ a[n - 1] \in V
      BY <1>1, <2>2
    <3>2. a[n] = IF a[n - 1] \in E THEN a[n - 1] ELSE S[n][a[n - 1]]
      BY <1>6, <3>1 DEF SeriesGoes
    <3> HIDE DEF P, after
    <3> QED BY <1>3, <1>4, <2>2, <3>1, <3>2
  <2> QED BY <2>1, <2>2
<1>8. P(a)
  BY <1>7
<1>9. P(after)
  BY <1>8
<1> HIDE DEF after
<1>10. after[0] = first
  BY <1>1, <1>9
<1>11. ASSUME NEW n \in 1..N
       PROVE  after[n] = IF Decided(after[n - 1]) THEN after[n - 1]
                         ELSE RuleResult(flag, n, c, ClausesOf(data, c, flag, n, after[n - 1].st))
  BY <1>1, <1>9
<1>12. after \in [0..N -> V]
  <2> DEFINE A == {n \in 0..N : after[n] \in V}
  <2>1. 0 \in A
    BY <1>1, <1>10
  <2>2. ASSUME NEW n \in 0..N, n \in A, n < N PROVE n + 1 \in A
    <3>1. n + 1 \in 1..N /\ (n + 1) - 1 = n /\ n + 1 \in 0..N
      BY <1>1, <2>2
    <3>2. after[n + 1] = IF Decided(after[n]) THEN after[n] ELSE RuleResult(flag, n + 1, c, ClausesOf(data, c, flag, n + 1, after[n].st))
      BY <1>11, <3>1
    <3>3. after[n] \in V
      BY <2>2
    <3> QED BY <1>2, <3>1, <3>2, <3>3
  <2>3. \A n \in 0..N : n \in A
    <3> HIDE DEF A
    <3> QED BY <1>1, <2>1, <2>2, AllNumbersUpTo
  <2>4. after = [n \in 0..N |-> after[n]]
    BY <1>9
  <2> HIDE DEF P
  <2> QED BY <2>3, <2>4
<1> QED BY <1>5, <1>10, <1>11, <1>12 DEF RuleSeries, EvaluateRulesSeries, N, V

(* The rules of a flag give related answers.                               *)
LEMMA EvaluateRulesRelates ==
  ASSUME NEW related \in SUBSET (States \X States), NEW data1 \in StoredData, NEW data2 \in StoredData, NEW c \in Asked,
         NEW flag \in StoredFlags, NEW first1, NEW first2, SameAnswer(related, first1, first2),
         SegmentsRelated(related, data1, data2, SegmentMatches(data1, c), SegmentMatches(data2, c)),
         RulesRelate(related, data1, data2, SegmentMatches(data1, c), SegmentMatches(data2, c), {}, flag.rules)
  PROVE  SameAnswer(related, EvaluateRules(data1, c, flag, first1), EvaluateRules(data2, c, flag, first2))
<1> DEFINE N == Len(flag.rules)
           Pairs == {p \in MaybeAnswers \X MaybeAnswers : SameAnswer(related, p[1], p[2])}
<1>1. first1 \in MaybeAnswers /\ first2 \in MaybeAnswers /\ N \in Nat /\ flag.rules \in Seq(StoredFlagRules)
  BY LenProperties DEF SameAnswer, StoredFlags
<1>2. PICK a : EvaluateRulesSeries(a, data1, c, flag, first1) /\ EvaluateRules(data1, c, flag, first1) = a[N]
  BY <1>1, EvaluateRulesUnfolds
<1>3. PICK b : EvaluateRulesSeries(b, data2, c, flag, first2) /\ EvaluateRules(data2, c, flag, first2) = b[N]
  BY <1>1, EvaluateRulesUnfolds
<1>4. /\ RuleSeries(a, N, first1)
      /\ \A n \in 1..N : ~Decided(a[n - 1]) => a[n] = RuleResult(flag, n, c, ClausesOf(data1, c, flag, n, a[n - 1].st))
  BY <1>2 DEF EvaluateRulesSeries
<1>5. /\ RuleSeries(b, N, first2)
      /\ \A n \in 1..N : ~Decided(b[n - 1]) => b[n] = RuleResult(flag, n, c, ClausesOf(data2, c, flag, n, b[n - 1].st))
  BY <1>3 DEF EvaluateRulesSeries
<1>6. \A r1, r2 : <<r1, r2>> \in Pairs <=> SameAnswer(related, r1, r2)
  BY DEF SameAnswer
<1>7. ASSUME NEW n \in 1..N
      PROVE  flag.rules[n].clauses \in Seq(StoredClauses) /\ n \in DOMAIN flag.rules
  <2>1. flag.rules[n] \in StoredFlagRules /\ n \in DOMAIN flag.rules
    BY <1>1, ElementOfSeq, LenProperties
  <2> QED BY <2>1 DEF StoredFlagRules
<1> DEFINE below1 == SegmentMatches(data1, c)
           below2 == SegmentMatches(data2, c)
<1>8. ASSUME NEW n \in 1..N, NEW s1, NEW s2, <<s1, s2>> \in related
      PROVE  SameMatch(related, ClausesOf(data1, c, flag, n, s1), ClausesOf(data2, c, flag, n, s2))
  <2>1. RuleRelates(related, data1, data2, below1, below2, {}, flag.rules[n])
    BY <1>7, RulesRelateEach
  <2>2. \A m \in DOMAIN flag.rules[n].clauses :
          ClauseRelates(related, data1, data2, below1, below2, {}, flag.rules[n].clauses[m])
    BY <2>1 DEF RuleRelates
  <2>3. {} \in SUBSET Item /\ flag.rules[n].clauses \in Seq(StoredClauses)
    BY <1>7
  <2>4. SegmentsRelated(related, data1, data2, below1, below2)
    OBVIOUS
  <2> HIDE DEF below1, below2
  <2>5. SameMatch(related, AllClausesMatch(data1, c, below1, flag.rules[n].clauses, {}, s1),
                           AllClausesMatch(data2, c, below2, flag.rules[n].clauses, {}, s2))
    BY <1>8, <2>2, <2>3, <2>4, AllClausesMatchRelates
  <2> QED BY <2>5 DEF ClausesOf, below1, below2
<1> HIDE DEF N, Pairs, below1, below2
<1>9. <<a[0], b[0]>> \in Pairs
  BY <1>4, <1>5, <1>6 DEF RuleSeries
<1>10. ASSUME NEW n \in 1..N, <<a[n - 1], b[n - 1]>> \in Pairs PROVE <<a[n], b[n]>> \in Pairs
  <2>1. SameAnswer(related, a[n - 1], b[n - 1])
    BY <1>6, <1>10
  <2>2. <<a[n - 1].st, b[n - 1].st>> \in related /\ (Decided(a[n - 1]) <=> Decided(b[n - 1]))
    BY <2>1 DEF SameAnswer, Decided
  <2>3. CASE Decided(a[n - 1])
    BY <1>4, <1>5, <1>10, <2>2, <2>3 DEF RuleSeries
  <2>4. CASE ~Decided(a[n - 1])
    <3>1. SameMatch(related, ClausesOf(data1, c, flag, n, a[n - 1].st), ClausesOf(data2, c, flag, n, b[n - 1].st))
      BY <1>8, <2>2
    <3>2. SameAnswer(related, RuleResult(flag, n, c, ClausesOf(data1, c, flag, n, a[n - 1].st)),
                              RuleResult(flag, n, c, ClausesOf(data2, c, flag, n, b[n - 1].st)))
      BY <3>1, RuleResultRelates DEF N
    <3> QED BY <1>4, <1>5, <1>6, <2>2, <2>4, <3>2
  <2> QED BY <2>3, <2>4
<1>11. <<a[N], b[N]>> \in Pairs
  <2>1. \A n \in 0..N : <<a[n], b[n]>> \in Pairs
    BY <1>1, <1>9, <1>10, SeriesKeeps
  <2> QED BY <1>1, <2>1
<1>12. SameAnswer(related, a[N], b[N])
  BY <1>6, <1>11
<1> QED BY <1>2, <1>3, <1>12

(* Without a rule there is the fallthrough.                                *)
LEMMA OrFallthroughRelates ==
  ASSUME NEW related \in SUBSET (States \X States), NEW flag \in StoredFlags, NEW c,
         NEW r1, NEW r2, SameAnswer(related, r1, r2)
  PROVE  /\ SameAnswer(related, OrFallthrough(flag, c, r1), OrFallthrough(flag, c, r2))
         /\ OrFallthrough(flag, c, r1).res \in Results
<1> DEFINE res == VariationForContext(flag.fallthrough, flag, c, "FALLTHROUGH")
<1>1. flag.fallthrough \in StoredVariationOrRollout
  BY DEF StoredFlags
<1>2. flag.fallthrough.variation \in IndexOrNone /\ flag.fallthrough.rollout \in Seq(StoredRollouts)
  BY <1>1 DEF StoredVariationOrRollout
<1>3. "FALLTHROUGH" \in EvalReasons
  BY DEF EvalReasons
<1>4. res \in Results
  BY <1>2, <1>3, VariationForContextTyped
<1>5. \A r : OrFallthrough(flag, c, r) = IF r.res # NoResult THEN r ELSE Evaluated(res, r.st)
  BY DEF OrFallthrough
<1> HIDE DEF res
<1>6. r1.res = r2.res /\ <<r1.st, r2.st>> \in related /\ r1.res \in MaybeResults
  BY DEF SameAnswer, MaybeAnswers
<1>7. SameAnswer(related, Evaluated(res, r1.st), Evaluated(res, r2.st))
  BY <1>4, <1>6, AnswerRelates DEF MaybeResults
<1>8. Evaluated(res, r1.st).res = res
  BY DEF Evaluated
<1> QED BY <1>4, <1>5, <1>6, <1>7, <1>8 DEF MaybeResults

-----------------------------------------------------------------------------
(* Prerequisites.                                                          *)

FlagAnswers(data) == [CallsFor(data, "flag") -> Answers]

Checks == [go : BOOLEAN, res : MaybeResults, st : States]

SameCheck(related, b1, b2) ==
  /\ b1 \in Checks /\ b2 \in Checks
  /\ b1.go = b2.go /\ b1.res = b2.res /\ <<b1.st, b2.st>> \in related

WithEvent(st, e) == [st EXCEPT !.events = Append(@, e)]

Events == Item \X Item \X EvalResults

(* States with another event each stay related.                            *)
KeptByEvents(related) == \A p \in related : \A e \in Events : <<WithEvent(p[1], e), WithEvent(p[2], e)>> \in related

FlagRelates(related, data1, data2, below1, below2, visited1, visited2, f) ==
  /\ f \in visited1 <=> f \in visited2
  /\ data1[f] = NoItem <=> data2[f] = NoItem
  /\ data1[f] # NoItem /\ f \notin visited1 =>
       \A p \in related : SameAnswer(related, below1[Call(f, Visiting(visited1, f), p[1])],
                                              below2[Call(f, Visiting(visited2, f), p[2])])
                          /\ below1[Call(f, Visiting(visited1, f), p[1])].res \in Results

FlagsRelated(related, data1, data2, below1, below2) ==
  /\ related \subseteq States \X States
  /\ data1 \in StoredData /\ data2 \in StoredData
  /\ below1 \in FlagAnswers(data1) /\ below2 \in FlagAnswers(data2)

(* What has been checked is one.                                           *)
LEMMA CheckRelates ==
  ASSUME NEW related \in SUBSET (States \X States), NEW s1, NEW s2, <<s1, s2>> \in related,
         NEW go \in BOOLEAN, NEW res \in MaybeResults
  PROVE  SameCheck(related, [go |-> go, res |-> res, st |-> s1], [go |-> go, res |-> res, st |-> s2])
<1>1. s1 \in States /\ s2 \in States
  OBVIOUS
<1> QED BY <1>1 DEF SameCheck, Checks

(* A prerequisite that is not met fails alike.                             *)
LEMMA PrerequisiteFailedRelates ==
  ASSUME NEW related \in SUBSET (States \X States), NEW s1, NEW s2, <<s1, s2>> \in related, NEW flag \in StoredFlags
  PROVE  SameCheck(related, PrerequisiteFailed(flag, s1), PrerequisiteFailed(flag, s2))
<1>1. "PREREQUISITE_FAILED" \in EvalReasons
  BY DEF EvalReasons
<1>2. GetOffVariation(flag, "PREREQUISITE_FAILED") \in MaybeResults
  BY <1>1, GetOffVariationTyped DEF MaybeResults
<1>3. FALSE \in BOOLEAN
  OBVIOUS
<1> QED BY <1>2, <1>3, CheckRelates DEF PrerequisiteFailed

(* What an answer for a prerequisite leaves is alike.                      *)
LEMMA PrerequisiteResultRelates ==
  ASSUME NEW related \in SUBSET (States \X States), KeptByEvents(related), NEW data1, NEW data2, NEW key \in Flag,
         data1[key] = data2[key], data1[key] \in StoredFlags, NEW prereq, prereq.key \in Flag,
         NEW before1, NEW before2, SameCheck(related, before1, before2),
         NEW answer1, NEW answer2, SameAnswer(related, answer1, answer2), answer1.res \in Results
  PROVE  SameCheck(related, PrerequisiteResult(data1, key, prereq, before1, answer1),
                            PrerequisiteResult(data2, key, prereq, before2, answer2))
<1> DEFINE res == answer1.res
           e == <<prereq.key, key, res>>
           s1 == WithEvent(answer1.st, e)
           s2 == WithEvent(answer2.st, e)
           failed1 == PrerequisiteFailed(data1[key], s1)
           failed2 == PrerequisiteFailed(data2[key], s2)
<1>1. answer1.res = answer2.res /\ <<answer1.st, answer2.st>> \in related
  BY DEF SameAnswer
<1>2. e \in Events
  BY ItemAssumption DEF Events, Results
<1>3. <<s1, s2>> \in related
  <2> HIDE DEF e
  <2> QED BY <1>1, <1>2 DEF KeptByEvents
<1>4. PrerequisiteResult(data1, key, prereq, before1, answer1) =
        IF res.error THEN [go |-> FALSE, res |-> res, st |-> s1]
        ELSE IF ~Met(prereq, res) THEN failed1 ELSE [before1 EXCEPT !.st = s1]
  BY DEF PrerequisiteResult, WithEvent
<1>5. PrerequisiteResult(data2, key, prereq, before2, answer2) =
        IF res.error THEN [go |-> FALSE, res |-> res, st |-> s2]
        ELSE IF ~Met(prereq, res) THEN failed2 ELSE [before2 EXCEPT !.st = s2]
  BY <1>1 DEF PrerequisiteResult, WithEvent
<1> HIDE DEF e, s1, s2
<1>6. SameCheck(related, failed1, failed2)
  BY <1>3, PrerequisiteFailedRelates
<1>7. SameCheck(related, [go |-> FALSE, res |-> res, st |-> s1], [go |-> FALSE, res |-> res, st |-> s2])
  BY <1>3, CheckRelates DEF MaybeResults
<1>8. SameCheck(related, [before1 EXCEPT !.st = s1], [before2 EXCEPT !.st = s2])
  <2>1. s1 \in States /\ s2 \in States
    BY <1>3
  <2>2. /\ before1 \in Checks /\ before2 \in Checks /\ before1.go = before2.go /\ before1.res = before2.res
    BY DEF SameCheck
  <2>3. /\ [before1 EXCEPT !.st = s1] \in Checks /\ [before1 EXCEPT !.st = s1].st = s1
        /\ [before1 EXCEPT !.st = s1].go = before1.go /\ [before1 EXCEPT !.st = s1].res = before1.res
    BY <2>1, <2>2 DEF Checks
  <2>4. /\ [before2 EXCEPT !.st = s2] \in Checks /\ [before2 EXCEPT !.st = s2].st = s2
        /\ [before2 EXCEPT !.st = s2].go = before2.go /\ [before2 EXCEPT !.st = s2].res = before2.res
    BY <2>1, <2>2 DEF Checks
  <2> QED BY <1>3, <2>2, <2>3, <2>4 DEF SameCheck
<1> HIDE DEF res, failed1, failed2
<1> QED BY <1>4, <1>5, <1>6, <1>7, <1>8

(* A prerequisite is checked alike.                                        *)
LEMMA CheckPrerequisiteRelates ==
  ASSUME NEW related, KeptByEvents(related), NEW data1, NEW data2, NEW below1, NEW below2,
         FlagsRelated(related, data1, data2, below1, below2), NEW key \in Flag,
         data1[key] = data2[key], data1[key] \in StoredFlags,
         NEW prereq, prereq.key \in Flag, NEW visited1, NEW visited2,
         FlagRelates(related, data1, data2, below1, below2, visited1, visited2, prereq.key),
         NEW before1, NEW before2, SameCheck(related, before1, before2)
  PROVE  SameCheck(related, CheckPrerequisite(data1, below1, key, prereq, visited1, before1),
                            CheckPrerequisite(data2, below2, key, prereq, visited2, before2))
<1> DEFINE answer1 == below1[Call(prereq.key, Visiting(visited1, prereq.key), before1.st)]
           answer2 == below2[Call(prereq.key, Visiting(visited2, prereq.key), before2.st)]
<1>1. related \in SUBSET (States \X States) /\ <<before1.st, before2.st>> \in related
  BY DEF FlagsRelated, SameCheck
<1>2. prereq.key \in visited1 <=> prereq.key \in visited2
  BY DEF FlagRelates
<1>3. data1[prereq.key] = NoItem <=> data2[prereq.key] = NoItem
  BY DEF FlagRelates
<1>4. SameCheck(related, [before1 EXCEPT !.res = Malformed], [before2 EXCEPT !.res = Malformed])
  <2>1. Malformed \in MaybeResults
    BY MalformedTyped DEF MaybeResults
  <2>2. before1 \in Checks /\ before2 \in Checks /\ before1.go = before2.go
    BY DEF SameCheck
  <2>3. /\ [before1 EXCEPT !.res = Malformed] \in Checks /\ [before1 EXCEPT !.res = Malformed].st = before1.st
        /\ [before1 EXCEPT !.res = Malformed].go = before1.go /\ [before1 EXCEPT !.res = Malformed].res = Malformed
    BY <2>1, <2>2 DEF Checks
  <2>4. /\ [before2 EXCEPT !.res = Malformed] \in Checks /\ [before2 EXCEPT !.res = Malformed].st = before2.st
        /\ [before2 EXCEPT !.res = Malformed].go = before2.go /\ [before2 EXCEPT !.res = Malformed].res = Malformed
    BY <2>1, <2>2 DEF Checks
  <2> QED BY <1>1, <2>2, <2>3, <2>4 DEF SameCheck
<1>5. SameCheck(related, PrerequisiteFailed(data1[key], before1.st), PrerequisiteFailed(data2[key], before2.st))
  BY <1>1, PrerequisiteFailedRelates
<1>6. ASSUME data1[prereq.key] # NoItem, prereq.key \notin visited1
      PROVE  SameCheck(related, PrerequisiteResult(data1, key, prereq, before1, answer1),
                                PrerequisiteResult(data2, key, prereq, before2, answer2))
  <2>1. PICK p \in related : p = <<before1.st, before2.st>>
    BY <1>1
  <2>2. SameAnswer(related, below1[Call(prereq.key, Visiting(visited1, prereq.key), p[1])],
                            below2[Call(prereq.key, Visiting(visited2, prereq.key), p[2])])
        /\ below1[Call(prereq.key, Visiting(visited1, prereq.key), p[1])].res \in Results
    BY <1>6, Zenon DEF FlagRelates
  <2>3. p[1] = before1.st /\ p[2] = before2.st
    BY <2>1
  <2>4. SameAnswer(related, answer1, answer2) /\ answer1.res \in Results
    BY <2>2, <2>3, Zenon
  <2> HIDE DEF answer1, answer2
  <2> QED BY <1>1, <2>4, PrerequisiteResultRelates
<1> HIDE DEF answer1, answer2
<1>7. CheckPrerequisite(data1, below1, key, prereq, visited1, before1) =
        IF prereq.key \in visited1 THEN [before1 EXCEPT !.res = Malformed]
        ELSE IF data1[prereq.key] = NoItem THEN PrerequisiteFailed(data1[key], before1.st)
        ELSE PrerequisiteResult(data1, key, prereq, before1, answer1)
  BY DEF CheckPrerequisite, answer1
<1>8. CheckPrerequisite(data2, below2, key, prereq, visited2, before2) =
        IF prereq.key \in visited2 THEN [before2 EXCEPT !.res = Malformed]
        ELSE IF data2[prereq.key] = NoItem THEN PrerequisiteFailed(data2[key], before2.st)
        ELSE PrerequisiteResult(data2, key, prereq, before2, answer2)
  BY DEF CheckPrerequisite, answer2
<1> QED BY <1>2, <1>3, <1>4, <1>5, <1>6, <1>7, <1>8

(* What there is a flag under is a flag.                                   *)
LEMMA FlagsOfData ==
  ASSUME NEW data \in StoredData, NEW f \in Flag
  PROVE  /\ data[f] \in Stored(f) /\ f \in Item
         /\ data[f] # NoItem => data[f] \in StoredFlags /\ f \in KeysOf(data, "flag")
<1>1. f \in Item
  BY ItemAssumption
<1>2. data[f] \in Stored(f) /\ DOMAIN data = Item
  BY <1>1 DEF StoredData
<1>3. data[f] # NoItem => data[f] \in StoredFlags
  BY <1>1, <1>2 DEF Stored
<1>4. data[f] \in StoredFlags => data[f].kind = "flag"
  BY DEF StoredFlags
<1> QED BY <1>1, <1>2, <1>3, <1>4 DEF KeysOf

(* A prerequisite of a flag is a flag.                                     *)
LEMMA PrerequisitesTyped ==
  ASSUME NEW flag \in StoredFlags
  PROVE  /\ flag.prerequisites \in Seq([key : Flag, variation : Nat])
         /\ \A n \in 1..Len(flag.prerequisites) : flag.prerequisites[n] \in [key : Flag, variation : Nat]
<1>1. flag.prerequisites \in Seq([key : Flag, variation : Nat])
  BY DEF StoredFlags
<1> QED BY <1>1, ElementOfSeq, LenProperties

(* A state with another event is one.                                      *)
LEMMA WithEventTyped ==
  ASSUME NEW st \in States, NEW e \in Events
  PROVE  WithEvent(st, e) \in States /\ WithEvent(st, e).endless = st.endless
<1> DEFINE events == Append(st.events, e)
<1>1. events \in Seq(Item \X Item \X EvalResults)
  BY DEF States, EvalStates, Events
<1>2. WithEvent(st, e) = [st EXCEPT !.events = events]
  BY DEF WithEvent
<1> HIDE DEF events
<1> QED BY <1>1, <1>2 DEF States, EvalStates

(* States stay related with another event.                                 *)
LEMMA RelatedKeptByEvents ==
  KeptByEvents(Same) /\ KeptByEvents(Ending) /\ KeptByEvents(Without) /\ KeptByEvents(Alike)
<1>1. ASSUME NEW p \in Same, NEW e \in Events PROVE <<WithEvent(p[1], e), WithEvent(p[2], e)>> \in Same
  <2>1. p[1] = p[2] /\ p[1] \in States
    BY DEF Same
  <2> QED BY <2>1, WithEventTyped, SameAre
<1>2. ASSUME NEW p \in Ending, NEW e \in Events PROVE <<WithEvent(p[1], e), WithEvent(p[2], e)>> \in Ending
  <2>1. p[1] = p[2] /\ p[1] \in States /\ ~p[1].endless
    BY DEF Ending
  <2>2. WithEvent(p[1], e) \in States /\ ~WithEvent(p[1], e).endless
    BY <2>1, WithEventTyped
  <2> QED BY <2>1, <2>2, RelatedAre
<1>3. ASSUME NEW p \in Without, NEW e \in Events PROVE <<WithEvent(p[1], e), WithEvent(p[2], e)>> \in Without
  <2>1. p[1] = p[2] /\ p[1] \in States /\ p[1].endless
    BY DEF Without
  <2>2. WithEvent(p[1], e) \in States /\ WithEvent(p[1], e).endless
    BY <2>1, WithEventTyped
  <2> QED BY <2>1, <2>2, RelatedAre
<1>4. ASSUME NEW p \in Alike, NEW e \in Events PROVE <<WithEvent(p[1], e), WithEvent(p[2], e)>> \in Alike
  <2>1. p[1] \in States /\ p[2] \in States /\ p[1].endless = p[2].endless
    BY DEF Alike
  <2>2. WithEvent(p[1], e) \in States /\ WithEvent(p[1], e).endless = p[1].endless
    BY <2>1, WithEventTyped
  <2>3. WithEvent(p[2], e) \in States /\ WithEvent(p[2], e).endless = p[2].endless
    BY <2>1, WithEventTyped
  <2> QED BY <2>1, <2>2, <2>3, RelatedAre
<1> QED BY <1>1, <1>2, <1>3, <1>4 DEF KeptByEvents

(* Flags that are referred to give answers.                                *)
LEMMA FlagsTyped ==
  ASSUME NEW data \in StoredData, NEW below \in FlagAnswers(data)
  PROVE  FlagsRelated(Same, data, data, below, below)
  BY DEF FlagsRelated, Same

(* So does each of them.                                                   *)
LEMMA FlagTyped ==
  ASSUME NEW data \in StoredData, NEW below \in FlagAnswers(data), NEW visited \in SUBSET Item, NEW f \in Flag
  PROVE  FlagRelates(Same, data, data, below, below, visited, visited, f)
<1> SUFFICES ASSUME data[f] # NoItem, NEW p \in Same
             PROVE  /\ SameAnswer(Same, below[Call(f, Visiting(visited, f), p[1])], below[Call(f, Visiting(visited, f), p[2])])
                    /\ below[Call(f, Visiting(visited, f), p[1])].res \in Results
  BY DEF FlagRelates
<1>1. f \in KeysOf(data, "flag") /\ f \in Item /\ DOMAIN data = Item
  BY FlagsOfData DEF StoredData
<1>2. p[1] \in States /\ p[2] = p[1]
  BY DEF Same
<1>3. Visiting(visited, f) \in SUBSET Item
  BY <1>1 DEF Visiting
<1>4. Call(f, Visiting(visited, f), p[1]) \in CallsFor(data, "flag")
  BY <1>1, <1>2, <1>3 DEF Call, CallsFor, States
<1> DEFINE r == below[Call(f, Visiting(visited, f), p[1])]
<1>5. r \in Answers
  BY <1>4 DEF FlagAnswers
<1> HIDE DEF r
<1>6. r.st \in States /\ r.res \in Results /\ r \in MaybeAnswers
  BY <1>5 DEF Answers, MaybeAnswers, MaybeResults
<1>7. SameAnswer(Same, r, r)
  BY <1>6, SameAre DEF SameAnswer
<1> QED BY <1>2, <1>6, <1>7 DEF r

(* What is left after a prerequisite has its type.                         *)
LEMMA CheckPrerequisiteTyped ==
  ASSUME NEW data \in StoredData, NEW below \in FlagAnswers(data), NEW key \in Flag, data[key] \in StoredFlags,
         NEW prereq, prereq.key \in Flag, NEW visited \in SUBSET Item, NEW before \in Checks
  PROVE  CheckPrerequisite(data, below, key, prereq, visited, before) \in Checks
<1>1. SameCheck(Same, before, before)
  <2>1. before.st \in States
    BY DEF Checks
  <2> QED BY <2>1, SameAre DEF SameCheck
<1>2. FlagRelates(Same, data, data, below, below, visited, visited, prereq.key)
  BY FlagTyped
<1>3. SameCheck(Same, CheckPrerequisite(data, below, key, prereq, visited, before),
                      CheckPrerequisite(data, below, key, prereq, visited, before))
  BY <1>1, <1>2, FlagsTyped, RelatedKeptByEvents, CheckPrerequisiteRelates
<1> QED BY <1>3 DEF SameCheck

Stopped(check) == ~check.go

Beginning(st) == [go |-> TRUE, res |-> NoResult, st |-> st]

(* Before the first prerequisite nothing is decided.                       *)
LEMMA BeginningTyped ==
  ASSUME NEW st \in States
  PROVE  Beginning(st) \in Checks /\ ~Stopped(Beginning(st)) /\ Beginning(st).res = NoResult /\ Beginning(st).st = st
  BY DEF Beginning, Checks, Stopped, MaybeResults

CheckSeries(a, N, first) ==
  /\ a \in [0..N -> Checks] /\ a[0] = first
  /\ \A n \in 1..N : Stopped(a[n - 1]) => a[n] = a[n - 1]

CheckOf(data, below, key, visited, n, before) ==
  CheckPrerequisite(data, below, key, data[key].prerequisites[n], visited, before)

(* So does each of a flag's prerequisites.                                 *)
LEMMA CheckOfTyped ==
  ASSUME NEW data \in StoredData, NEW below \in FlagAnswers(data), NEW key \in Flag, data[key] \in StoredFlags,
         NEW visited \in SUBSET Item, NEW n \in 1..Len(data[key].prerequisites), NEW before \in Checks
  PROVE  CheckOf(data, below, key, visited, n, before) \in Checks
<1>1. data[key].prerequisites[n] \in [key : Flag, variation : Nat]
  BY PrerequisitesTyped
<1>2. data[key].prerequisites[n].key \in Flag
  BY <1>1
<1> QED BY <1>2, CheckPrerequisiteTyped DEF CheckOf

PrerequisitesSeries(a, data, below, key, visited, st) ==
  /\ CheckSeries(a, Len(data[key].prerequisites), Beginning(st))
  /\ \A n \in 1..Len(data[key].prerequisites) :
       ~Stopped(a[n - 1]) => a[n] = CheckOf(data, below, key, visited, n, a[n - 1])

(* The prerequisites of a flag are checked one after the other.            *)
LEMMA CheckPrerequisitesUnfolds ==
  ASSUME NEW data \in StoredData, NEW below \in FlagAnswers(data), NEW key \in Flag, data[key] \in StoredFlags,
         NEW visited \in SUBSET Item, NEW st \in States
  PROVE  \E a : PrerequisitesSeries(a, data, below, key, visited, st) /\ CheckPrerequisites(data, below, key, visited, st) = a[Len(data[key].prerequisites)]
<1> DEFINE N == Len(data[key].prerequisites)
           V == Checks
           first == Beginning(st)
           E == {v \in V : Stopped(v)}
           S == [n \in 1..N |-> [v \in V |-> CheckOf(data, below, key, visited, n, v)]]
           P(a) == a = [n \in 0..N |-> IF n = 0 THEN first
                                       ELSE IF Stopped(a[n - 1]) THEN a[n - 1]
                                       ELSE CheckOf(data, below, key, visited, n, a[n - 1])]
           after == CHOOSE a : P(a)
<1>1. N \in Nat /\ first \in V
  BY PrerequisitesTyped, BeginningTyped, LenProperties
<1>2. ASSUME NEW n \in 1..N, NEW v \in V PROVE CheckOf(data, below, key, visited, n, v) \in V
  BY CheckOfTyped
<1>3. /\ S \in [1..N -> [V -> V]]
      /\ \A n \in 1..N : \A v \in V : S[n][v] = CheckOf(data, below, key, visited, n, v)
  BY <1>2
<1>4. \A v \in V : v \in E <=> Stopped(v)
  OBVIOUS
<1>5. CheckPrerequisites(data, below, key, visited, st) = after[N]
  BY DEF CheckPrerequisites, Series, Stopped, CheckOf, Beginning
<1> HIDE DEF S, E, V, first, N
<1>6. PICK a \in [0..N -> V] : SeriesGoes(a, N, first, E, S)
  <2> HIDE DEF P, after
  <2> QED BY <1>1, <1>3, SeriesExists
<1>7. ASSUME NEW n \in 0..N
      PROVE  a[n] = IF n = 0 THEN first
                    ELSE IF Stopped(a[n - 1]) THEN a[n - 1]
                    ELSE CheckOf(data, below, key, visited, n, a[n - 1])
  <2>1. CASE n = 0
    BY <1>6, <2>1 DEF SeriesGoes
  <2>2. CASE n # 0
    <3>1. n \in 1..N /\ a[n - 1] \in V
      BY <1>1, <2>2
    <3>2. a[n] = IF a[n - 1] \in E THEN a[n - 1] ELSE S[n][a[n - 1]]
      BY <1>6, <3>1 DEF SeriesGoes
    <3> HIDE DEF P, after
    <3> QED BY <1>3, <1>4, <2>2, <3>1, <3>2
  <2> QED BY <2>1, <2>2
<1>8. P(a)
  BY <1>7
<1>9. P(after)
  BY <1>8
<1> HIDE DEF after
<1>10. after[0] = first
  BY <1>1, <1>9
<1>11. ASSUME NEW n \in 1..N
       PROVE  after[n] = IF Stopped(after[n - 1]) THEN after[n - 1]
                         ELSE CheckOf(data, below, key, visited, n, after[n - 1])
  BY <1>1, <1>9
<1>12. after \in [0..N -> V]
  <2> DEFINE A == {n \in 0..N : after[n] \in V}
  <2>1. 0 \in A
    BY <1>1, <1>10
  <2>2. ASSUME NEW n \in 0..N, n \in A, n < N PROVE n + 1 \in A
    <3>1. n + 1 \in 1..N /\ (n + 1) - 1 = n /\ n + 1 \in 0..N
      BY <1>1, <2>2
    <3>2. after[n + 1] = IF Stopped(after[n]) THEN after[n] ELSE CheckOf(data, below, key, visited, n + 1, after[n])
      BY <1>11, <3>1
    <3>3. after[n] \in V
      BY <2>2
    <3> QED BY <1>2, <3>1, <3>2, <3>3
  <2>3. \A n \in 0..N : n \in A
    <3> HIDE DEF A
    <3> QED BY <1>1, <2>1, <2>2, AllNumbersUpTo
  <2>4. after = [n \in 0..N |-> after[n]]
    BY <1>9
  <2> HIDE DEF P
  <2> QED BY <2>3, <2>4
<1> QED BY <1>5, <1>10, <1>11, <1>12 DEF CheckSeries, PrerequisitesSeries, N, V, first

(* The prerequisites of a flag are checked alike.                          *)
LEMMA CheckPrerequisitesRelates ==
  ASSUME NEW related, KeptByEvents(related), NEW data1, NEW data2, NEW below1, NEW below2,
         FlagsRelated(related, data1, data2, below1, below2), NEW key \in Flag,
         data1[key] = data2[key], data1[key] \in StoredFlags, NEW visited1 \in SUBSET Item, NEW visited2 \in SUBSET Item,
         \A n \in 1..Len(data1[key].prerequisites) :
           FlagRelates(related, data1, data2, below1, below2, visited1, visited2, data1[key].prerequisites[n].key),
         NEW s1, NEW s2, <<s1, s2>> \in related
  PROVE  SameCheck(related, CheckPrerequisites(data1, below1, key, visited1, s1),
                            CheckPrerequisites(data2, below2, key, visited2, s2))
<1> DEFINE N == Len(data1[key].prerequisites)
           Pairs == {p \in Checks \X Checks : SameCheck(related, p[1], p[2])}
<1>1. /\ s1 \in States /\ s2 \in States /\ related \in SUBSET (States \X States)
      /\ data1 \in StoredData /\ data2 \in StoredData
      /\ below1 \in FlagAnswers(data1) /\ below2 \in FlagAnswers(data2)
  BY DEF FlagsRelated
<1>2. PICK a : /\ PrerequisitesSeries(a, data1, below1, key, visited1, s1)
               /\ CheckPrerequisites(data1, below1, key, visited1, s1) = a[N]
  BY <1>1, CheckPrerequisitesUnfolds
<1>3. PICK b : /\ PrerequisitesSeries(b, data2, below2, key, visited2, s2)
               /\ CheckPrerequisites(data2, below2, key, visited2, s2) = b[N]
  BY <1>1, CheckPrerequisitesUnfolds
<1>4. /\ CheckSeries(a, N, Beginning(s1))
      /\ \A n \in 1..N : ~Stopped(a[n - 1]) => a[n] = CheckOf(data1, below1, key, visited1, n, a[n - 1])
  BY <1>2 DEF PrerequisitesSeries
<1>5. /\ CheckSeries(b, N, Beginning(s2))
      /\ \A n \in 1..N : ~Stopped(b[n - 1]) => b[n] = CheckOf(data2, below2, key, visited2, n, b[n - 1])
  BY <1>3 DEF PrerequisitesSeries
<1>6. \A r1, r2 : <<r1, r2>> \in Pairs <=> SameCheck(related, r1, r2)
  BY DEF SameCheck
<1>7. N \in Nat
  BY PrerequisitesTyped, LenProperties
<1>8. ASSUME NEW n \in 1..N, NEW before1, NEW before2, SameCheck(related, before1, before2)
      PROVE  SameCheck(related, CheckOf(data1, below1, key, visited1, n, before1),
                                CheckOf(data2, below2, key, visited2, n, before2))
  <2> DEFINE prereq == data1[key].prerequisites[n]
  <2>1. prereq \in [key : Flag, variation : Nat]
    BY PrerequisitesTyped
  <2>2. prereq.key \in Flag
    BY <2>1
  <2>3. FlagRelates(related, data1, data2, below1, below2, visited1, visited2, prereq.key)
    OBVIOUS
  <2> HIDE DEF prereq
  <2>4. SameCheck(related, CheckPrerequisite(data1, below1, key, prereq, visited1, before1),
                           CheckPrerequisite(data2, below2, key, prereq, visited2, before2))
    BY <1>8, <2>2, <2>3, CheckPrerequisiteRelates
  <2> QED BY <2>4 DEF CheckOf, prereq
<1>9. SameCheck(related, Beginning(s1), Beginning(s2))
  BY <1>1, BeginningTyped DEF SameCheck, Beginning
<1> HIDE DEF N, Pairs
<1>10. <<a[0], b[0]>> \in Pairs
  BY <1>4, <1>5, <1>6, <1>9 DEF CheckSeries
<1>11. ASSUME NEW n \in 1..N, <<a[n - 1], b[n - 1]>> \in Pairs PROVE <<a[n], b[n]>> \in Pairs
  <2>1. SameCheck(related, a[n - 1], b[n - 1])
    BY <1>6, <1>11
  <2>2. Stopped(a[n - 1]) <=> Stopped(b[n - 1])
    BY <2>1 DEF SameCheck, Stopped
  <2>3. CASE Stopped(a[n - 1])
    BY <1>4, <1>5, <1>11, <2>2, <2>3 DEF CheckSeries
  <2>4. CASE ~Stopped(a[n - 1])
    <3>1. SameCheck(related, CheckOf(data1, below1, key, visited1, n, a[n - 1]),
                             CheckOf(data2, below2, key, visited2, n, b[n - 1]))
      BY <1>8, <2>1
    <3> QED BY <1>4, <1>5, <1>6, <2>2, <2>4, <3>1
  <2> QED BY <2>3, <2>4
<1>12. <<a[N], b[N]>> \in Pairs
  <2>1. \A n \in 0..N : <<a[n], b[n]>> \in Pairs
    BY <1>7, <1>10, <1>11, SeriesKeeps
  <2> QED BY <1>7, <2>1
<1> QED BY <1>2, <1>3, <1>6, <1>12

(* After related checks the answers are related.                           *)
LEMMA AfterPrerequisitesRelates ==
  ASSUME NEW related \in SUBSET (States \X States), NEW data1 \in StoredData, NEW data2 \in StoredData, NEW c \in Asked,
         NEW flag \in StoredFlags, NEW prereqs1, NEW prereqs2, SameCheck(related, prereqs1, prereqs2),
         NEW target \in MaybeResults,
         SegmentsRelated(related, data1, data2, SegmentMatches(data1, c), SegmentMatches(data2, c)),
         RulesRelate(related, data1, data2, SegmentMatches(data1, c), SegmentMatches(data2, c), {}, flag.rules)
  PROVE  /\ SameAnswer(related, AfterPrerequisites(data1, c, flag, prereqs1, target),
                                AfterPrerequisites(data2, c, flag, prereqs2, target))
         /\ AfterPrerequisites(data1, c, flag, prereqs1, target).res \in Results
<1>1. /\ prereqs1.res = prereqs2.res /\ <<prereqs1.st, prereqs2.st>> \in related
      /\ prereqs1.res \in MaybeResults
  BY DEF SameCheck, Checks
<1> DEFINE first1 == Evaluated(target, prereqs1.st)
           first2 == Evaluated(target, prereqs2.st)
           rules1 == EvaluateRules(data1, c, flag, first1)
           rules2 == EvaluateRules(data2, c, flag, first2)
<1>2. SameAnswer(related, first1, first2)
  BY <1>1, AnswerRelates
<1> HIDE DEF first1, first2
<1>3. SameAnswer(related, rules1, rules2)
  BY <1>2, EvaluateRulesRelates
<1> HIDE DEF rules1, rules2
<1>4. /\ SameAnswer(related, OrFallthrough(flag, c, rules1), OrFallthrough(flag, c, rules2))
      /\ OrFallthrough(flag, c, rules1).res \in Results
  BY <1>3, OrFallthroughRelates
<1>5. CASE prereqs1.res # NoResult
  <2>1. /\ AfterPrerequisites(data1, c, flag, prereqs1, target) = Evaluated(prereqs1.res, prereqs1.st)
        /\ AfterPrerequisites(data2, c, flag, prereqs2, target) = Evaluated(prereqs1.res, prereqs2.st)
    BY <1>1, <1>5 DEF AfterPrerequisites
  <2>2. SameAnswer(related, Evaluated(prereqs1.res, prereqs1.st), Evaluated(prereqs1.res, prereqs2.st))
    BY <1>1, AnswerRelates
  <2>3. prereqs1.res \in Results /\ Evaluated(prereqs1.res, prereqs1.st).res = prereqs1.res
    BY <1>1, <1>5 DEF MaybeResults, Evaluated
  <2> QED BY <2>1, <2>2, <2>3
<1>6. CASE prereqs1.res = NoResult
  <2>1. /\ AfterPrerequisites(data1, c, flag, prereqs1, target) = OrFallthrough(flag, c, rules1)
        /\ AfterPrerequisites(data2, c, flag, prereqs2, target) = OrFallthrough(flag, c, rules2)
    BY <1>1, <1>6 DEF AfterPrerequisites, rules1, rules2, first1, first2
  <2> QED BY <1>4, <2>1
<1> QED BY <1>5, <1>6

(* What a call for a flag is about.                                        *)
FlagCallRelates(related, data1, data2, c, below1, below2, visited1, visited2, key) ==
  /\ data1[key] = data2[key] /\ data1[key] \in StoredFlags
  /\ \A n \in 1..Len(data1[key].prerequisites) :
       FlagRelates(related, data1, data2, below1, below2, visited1, visited2, data1[key].prerequisites[n].key)
  /\ SegmentsRelated(related, data1, data2, SegmentMatches(data1, c), SegmentMatches(data2, c))
  /\ RulesRelate(related, data1, data2, SegmentMatches(data1, c), SegmentMatches(data2, c), {}, data1[key].rules)

(* A flag is evaluated alike.                                              *)
LEMMA EvaluateInternalRelates ==
  ASSUME NEW related, KeptByEvents(related), NEW data1, NEW data2, NEW c \in Asked, NEW below1, NEW below2,
         FlagsRelated(related, data1, data2, below1, below2), NEW key \in Flag,
         NEW visited1 \in SUBSET Item, NEW visited2 \in SUBSET Item,
         FlagCallRelates(related, data1, data2, c, below1, below2, visited1, visited2, key),
         NEW s1, NEW s2, <<s1, s2>> \in related
  PROVE  /\ SameAnswer(related, EvaluateInternal(data1, c, below1, key, visited1, s1),
                                EvaluateInternal(data2, c, below2, key, visited2, s2))
         /\ EvaluateInternal(data1, c, below1, key, visited1, s1).res \in Results
<1> DEFINE flag == data1[key]
           off == GetOffVariation(flag, "OFF")
           target == EvalTargets(flag, c)
           prereqs1 == CheckPrerequisites(data1, below1, key, visited1, s1)
           prereqs2 == CheckPrerequisites(data2, below2, key, visited2, s2)
<1>1. flag = data2[key] /\ flag \in StoredFlags /\ related \in SUBSET (States \X States)
      /\ data1 \in StoredData /\ data2 \in StoredData
  BY DEF FlagCallRelates, FlagsRelated
<1>2. off \in Results
  <2>1. "OFF" \in EvalReasons
    BY DEF EvalReasons
  <2> QED BY <1>1, <2>1, GetOffVariationTyped
<1>3. target \in MaybeResults
  BY <1>1, EvalTargetsTyped
<1>4. SameCheck(related, prereqs1, prereqs2)
  BY <1>1, CheckPrerequisitesRelates DEF FlagCallRelates
<1>5. EvaluateInternal(data1, c, below1, key, visited1, s1) =
        IF ~flag.on THEN Evaluated(off, s1) ELSE AfterPrerequisites(data1, c, flag, prereqs1, target)
  BY DEF EvaluateInternal
<1>6. EvaluateInternal(data2, c, below2, key, visited2, s2) =
        IF ~flag.on THEN Evaluated(off, s2) ELSE AfterPrerequisites(data2, c, flag, prereqs2, target)
  BY <1>1 DEF EvaluateInternal
<1>7. /\ SegmentsRelated(related, data1, data2, SegmentMatches(data1, c), SegmentMatches(data2, c))
      /\ RulesRelate(related, data1, data2, SegmentMatches(data1, c), SegmentMatches(data2, c), {}, flag.rules)
  BY DEF FlagCallRelates
<1> HIDE DEF flag, off, target, prereqs1, prereqs2
<1>8. /\ SameAnswer(related, AfterPrerequisites(data1, c, flag, prereqs1, target),
                             AfterPrerequisites(data2, c, flag, prereqs2, target))
      /\ AfterPrerequisites(data1, c, flag, prereqs1, target).res \in Results
  BY <1>1, <1>3, <1>4, <1>7, AfterPrerequisitesRelates
<1>9. SameAnswer(related, Evaluated(off, s1), Evaluated(off, s2)) /\ Evaluated(off, s1).res = off
  BY <1>1, <1>2, AnswerRelates DEF MaybeResults, Evaluated
<1> QED BY <1>2, <1>5, <1>6, <1>8, <1>9

(* A call for a flag is for one that there is.                             *)
LEMMA FlagCallTyped ==
  ASSUME NEW data \in StoredData, NEW call \in CallsFor(data, "flag")
  PROVE  /\ call.key \in Flag /\ data[call.key] \in StoredFlags
         /\ call.visited \in SUBSET Item /\ call.st \in States
<1>1. call.key \in KeysOf(data, "flag") /\ call.visited \in SUBSET Item /\ call.st \in States
  BY DEF CallsFor, StoredData, States
<1>2. call.key \in Item /\ data[call.key].kind = "flag" /\ data[call.key] \in Stored(call.key)
  BY <1>1 DEF KeysOf, StoredData
<1>3. data[call.key] # NoItem /\ data[call.key] \notin StoredSegments
  BY <1>2 DEF NoItem, StoredSegments
<1>4. call.key \in Flag /\ data[call.key] \in StoredFlags
  BY <1>2, <1>3 DEF Stored
<1> QED BY <1>1, <1>4

(* The segments of a store match or do not.                                *)
LEMMA SegmentMatchesTyped ==
  ASSUME NEW data \in StoredData, NEW c \in Asked
  PROVE  SegmentMatches(data, c) \in SegmentAnswers(data)
<1>1. PICK m : SegmentLevels(m, data, c) /\ SegmentMatches(data, c) = m[MaxDepth]
  BY SegmentMatchesUnfold
<1>2. MaxDepth \in 0..MaxDepth
  BY DepthAssumption
<1> QED BY <1>1, <1>2 DEF SegmentLevels

(* Calls for flags give answers if those in them do.                       *)
LEMMA EvaluateInternalTyped ==
  ASSUME NEW data \in StoredData, NEW c \in Asked, NEW below \in FlagAnswers(data),
         NEW call \in CallsFor(data, "flag")
  PROVE  EvaluateInternal(data, c, below, call.key, call.visited, call.st) \in Answers
<1> DEFINE key == call.key
           visited == call.visited
           st == call.st
           flag == data[key]
           matches == SegmentMatches(data, c)
<1>1. key \in Flag /\ flag \in StoredFlags /\ visited \in SUBSET Item /\ st \in States
  BY FlagCallTyped
<1>2. ASSUME NEW n \in 1..Len(flag.prerequisites)
      PROVE  FlagRelates(Same, data, data, below, below, visited, visited, flag.prerequisites[n].key)
  <2>1. flag.prerequisites[n] \in [key : Flag, variation : Nat]
    BY <1>1, PrerequisitesTyped
  <2>2. flag.prerequisites[n].key \in Flag
    BY <2>1
  <2> HIDE DEF flag, visited
  <2> QED BY <1>1, <2>2, FlagTyped
<1>3. matches \in SegmentAnswers(data)
  BY SegmentMatchesTyped
<1>4. SegmentsRelated(Same, data, data, matches, matches)
  BY <1>3, SegmentsTyped
<1>5. RulesRelate(Same, data, data, matches, matches, {}, flag.rules)
  <2>1. {} \in SUBSET Item
    OBVIOUS
  <2> HIDE DEF matches, flag
  <2> QED BY <1>3, <2>1, SegmentTyped DEF RulesRelate
<1>6. FlagCallRelates(Same, data, data, c, below, below, visited, visited, key)
  BY <1>1, <1>2, <1>4, <1>5 DEF FlagCallRelates
<1>7. <<st, st>> \in Same
  BY <1>1, SameAre
<1> HIDE DEF key, visited, st
<1> DEFINE r == EvaluateInternal(data, c, below, key, visited, st)
<1>8. SameAnswer(Same, r, r) /\ r.res \in Results
  BY <1>1, <1>6, <1>7, FlagsTyped, RelatedKeptByEvents, EvaluateInternalRelates
<1> HIDE DEF r
<1>9. r \in Answers
  BY <1>8 DEF SameAnswer, MaybeAnswers, Answers
<1> QED BY <1>9 DEF r, key, visited, st

FlagLevels(m, data, c) ==
  /\ m \in [0..MaxDepth -> FlagAnswers(data)]
  /\ \A n \in 0..MaxDepth : \A call \in CallsFor(data, "flag") :
       m[n][call] = IF n = 0 \/ Endless(call.st) THEN Evaluated(Malformed, WithoutEnd(call.st))
                    ELSE EvaluateInternal(data, c, m[n - 1], call.key, call.visited, call.st)

(* Calls for flags at most so many of which are in each other.             *)
LEMMA EvaluationsUnfold ==
  ASSUME NEW data \in StoredData, NEW c \in Asked
  PROVE  \E m : FlagLevels(m, data, c) /\ Evaluations(data, c) = m[MaxDepth]
<1> DEFINE N == MaxDepth
           C == CallsFor(data, "flag")
           V == FlagAnswers(data)
           Step(below, call) == EvaluateInternal(data, c, below, call.key, call.visited, call.st)
           End(call) == Evaluated(Malformed, WithoutEnd(call.st))
           b == [call \in C |-> End(call)]
           F == [n \in 1..N |-> [below \in V |-> [call \in C |-> IF Endless(call.st) THEN End(call) ELSE Step(below, call)]]]
           P(m) == m = [n \in 0..N |-> [call \in C |-> IF n = 0 \/ Endless(call.st) THEN End(call)
                                                       ELSE Step(m[n - 1], call)]]
           matches == CHOOSE m : P(m)
<1>1. N \in Nat
  BY DepthAssumption
<1>2. ASSUME NEW call \in C PROVE End(call) \in Answers
  BY FlagCallTyped, WithoutEndTyped, MalformedTyped DEF Evaluated, Answers
<1>3. ASSUME NEW call \in C, NEW below \in V PROVE Step(below, call) \in Answers
  BY EvaluateInternalTyped
<1>4. Evaluations(data, c) = matches[N]
  BY DEF Evaluations
<1>5. V = [C -> Answers]
  BY DEF FlagAnswers
<1> HIDE DEF N, C, V, Step, End
<1>6. b \in V
  BY <1>2, <1>5
<1>7. F \in [1..N -> [V -> V]]
  <2>1. ASSUME NEW below \in V
        PROVE  [call \in C |-> IF Endless(call.st) THEN End(call) ELSE Step(below, call)] \in V
    BY <1>2, <1>3, <1>5
  <2> QED BY <2>1
<1>8. \A n \in 1..N : \A below \in V : \A call \in C :
        F[n][below][call] = IF Endless(call.st) THEN End(call) ELSE Step(below, call)
  OBVIOUS
<1>9. \A call \in C : b[call] = End(call)
  OBVIOUS
<1> HIDE DEF F, b
<1>10. PICK m \in [0..N -> V] : RecursionTo(N, F, b, m)
  <2> HIDE DEF P, matches
  <2> QED BY <1>1, <1>6, <1>7, BoundedRecursion
<1>11. ASSUME NEW n \in 0..N
       PROVE  m[n] = [call \in C |-> IF n = 0 \/ Endless(call.st) THEN End(call) ELSE Step(m[n - 1], call)]
  <2> HIDE DEF P, matches
  <2>1. m[n] \in [C -> Answers]
    BY <1>5, <1>10
  <2>2. CASE n = 0
    <3>1. m[n] = b
      BY <1>10, <2>2 DEF RecursionTo
    <3> QED BY <1>9, <2>1, <2>2, <3>1
  <2>3. CASE n # 0
    <3>1. n \in 1..N /\ n - 1 \in 0..N
      BY <1>1, <2>3
    <3>2. m[n] = F[n][m[n - 1]] /\ m[n - 1] \in V
      BY <1>10, <2>3, <3>1 DEF RecursionTo
    <3>3. \A call \in C : m[n][call] = IF Endless(call.st) THEN End(call) ELSE Step(m[n - 1], call)
      BY <1>8, <3>1, <3>2
    <3> QED BY <2>1, <2>3, <3>3
  <2> QED BY <2>2, <2>3
<1>12. P(m)
  BY <1>11
<1>13. P(matches)
  BY <1>12
<1> HIDE DEF matches
<1>14. ASSUME NEW n \in 0..N, NEW call \in C
       PROVE  matches[n][call] = IF n = 0 \/ Endless(call.st) THEN End(call) ELSE Step(matches[n - 1], call)
  <2>1. matches[n] = [x \in C |-> IF n = 0 \/ Endless(x.st) THEN End(x) ELSE Step(matches[n - 1], x)]
    BY <1>13
  <2> HIDE DEF P
  <2> QED BY <2>1
<1>15. \A n \in 0..N : matches[n] = [call \in C |-> matches[n][call]]
  BY <1>13
<1>16. matches = [n \in 0..N |-> matches[n]]
  BY <1>13
<1> HIDE DEF P
<1>17. \A n \in 0..N : matches[n] \in V
  <2> DEFINE A == {n \in 0..N : matches[n] \in V}
  <2>1. 0 \in A
    <3>1. 0 \in 0..N
      BY <1>1
    <3>2. \A call \in C : matches[0][call] \in Answers
      BY <1>2, <1>14, <3>1
    <3>3. matches[0] = [call \in C |-> matches[0][call]]
      BY <1>15, <3>1
    <3>4. matches[0] \in V
      BY <1>5, <3>2, <3>3
    <3> QED BY <3>1, <3>4
  <2>2. ASSUME NEW n \in 0..N, n \in A, n < N PROVE n + 1 \in A
    <3>1. n + 1 \in 0..N /\ (n + 1) - 1 = n /\ n + 1 # 0
      BY <1>1, <2>2
    <3>2. \A call \in C : matches[n + 1][call] = IF Endless(call.st) THEN End(call) ELSE Step(matches[n], call)
      BY <1>14, <3>1
    <3>3. matches[n] \in V
      BY <2>2
    <3>4. \A call \in C : matches[n + 1][call] \in Answers
      BY <1>2, <1>3, <3>2, <3>3
    <3>5. matches[n + 1] = [call \in C |-> matches[n + 1][call]]
      BY <1>15, <3>1
    <3>6. matches[n + 1] \in V
      BY <1>5, <3>4, <3>5
    <3> QED BY <3>1, <3>6
  <2>3. \A n \in 0..N : n \in A
    <3> HIDE DEF A
    <3> QED BY <1>1, <2>1, <2>2, AllNumbersUpTo
  <2> QED BY <2>3
<1>18. matches \in [0..N -> V]
  BY <1>16, <1>17
<1>19. FlagLevels(matches, data, c)
  BY <1>14, <1>18 DEF FlagLevels, N, C, V, Step, End
<1> QED BY <1>4, <1>19 DEF N

FlagCall(m, data, c, n, f, visited, st) ==
  m[n][Call(f, visited, st)] = IF n = 0 \/ st.endless THEN Evaluated(Malformed, WithoutEnd(st))
                               ELSE EvaluateInternal(data, c, m[n - 1], f, visited, st)

(* A call for a flag that there is.                                        *)
LEMMA FlagCallIs ==
  ASSUME NEW data \in StoredData, NEW c, NEW m, FlagLevels(m, data, c), NEW n \in 0..MaxDepth,
         NEW f \in Flag, data[f] # NoItem, NEW visited \in SUBSET Item, NEW st \in States
  PROVE  FlagCall(m, data, c, n, f, visited, st)
<1> DEFINE call == Call(f, visited, st)
<1>1. call.key = f /\ call.visited = visited /\ call.st = st
  BY DEF Call
<1>2. call \in CallsFor(data, "flag")
  <2>1. f \in KeysOf(data, "flag") /\ DOMAIN data = Item
    BY FlagsOfData DEF StoredData
  <2> QED BY <2>1 DEF Call, CallsFor, States
<1> HIDE DEF call
<1>3. m[n][call] = IF n = 0 \/ Endless(call.st) THEN Evaluated(Malformed, WithoutEnd(call.st))
                   ELSE EvaluateInternal(data, c, m[n - 1], call.key, call.visited, call.st)
  BY <1>2 DEF FlagLevels
<1> QED BY <1>1, <1>3 DEF Endless, FlagCall, call

(* An evaluation begins with a state that has no events and an end.        *)
LEMMA EvalStateTyped == EvalState \in States /\ ~EvalState.endless
<1>1. <<>> \in Seq(Item \X Item \X EvalResults) /\ "none" \in DOMAIN StatusPriority
  BY DEF StatusPriority
<1> QED BY <1>1 DEF EvalState, States, EvalStates

(* The evaluation of a flag that there is gives an answer.                 *)
LEMMA EvaluateTyped ==
  ASSUME NEW data \in StoredData, NEW c \in Asked, NEW f \in Flag, data[f] # NoItem
  PROVE  Evaluate(data, c, f) \in Answers
<1>1. PICK m : FlagLevels(m, data, c) /\ Evaluations(data, c) = m[MaxDepth]
  BY EvaluationsUnfold
<1>2. MaxDepth \in 0..MaxDepth
  BY DepthAssumption
<1>3. m[MaxDepth] \in FlagAnswers(data)
  BY <1>1, <1>2 DEF FlagLevels
<1>4. Call(f, {}, EvalState) \in CallsFor(data, "flag")
  <2>1. f \in KeysOf(data, "flag") /\ DOMAIN data = Item
    BY FlagsOfData DEF StoredData
  <2> QED BY <2>1, EvalStateTyped DEF Call, CallsFor, States
<1> QED BY <1>1, <1>3, <1>4 DEF FlagAnswers, Evaluate

-----------------------------------------------------------------------------
(* What is reached along references.  ModifiedItems is the least set with  *)
(* the items it begins with that is closed under references.               *)
Spread(t, X) == X \cup UNION {t.to[i] : i \in X}

(* The first n + 1 rounds.                                                 *)
Rounds(t, found, n, g) ==
  g[0] = found /\ \A m \in Nat : m < n => g[m + 1] = Spread(t, g[m])

(* Items stay items.                                                       *)
LEMMA SpreadTyped ==
  ASSUME NEW t \in Trackers, NEW X \in SUBSET Item
  PROVE  Spread(t, X) \in SUBSET Item
  BY DEF Spread, Trackers

(* There are any number of rounds.                                         *)
LEMMA RoundsExist ==
  ASSUME NEW t \in Trackers, NEW found \in SUBSET Item, NEW n \in Nat
  PROVE  \E g \in [Nat -> SUBSET Item] : Rounds(t, found, n, g)
<1> DEFINE S == {k \in Nat : \E g \in [Nat -> SUBSET Item] : Rounds(t, found, k, g)}
<1>1. 0 \in S
  <2>1. Rounds(t, found, 0, [m \in Nat |-> found])
    BY DEF Rounds
  <2> QED BY <2>1
<1>2. ASSUME NEW k \in S PROVE k + 1 \in S
  <2>1. PICK g \in [Nat -> SUBSET Item] : Rounds(t, found, k, g)
    BY <1>2
  <2> DEFINE h == [g EXCEPT ![k + 1] = Spread(t, g[k])]
  <2>2. h \in [Nat -> SUBSET Item]
    BY SpreadTyped
  <2>3. h[0] = found
    BY <2>1 DEF Rounds
  <2>4. ASSUME NEW m \in Nat, m < k + 1 PROVE h[m + 1] = Spread(t, h[m])
    <3>1. m # k + 1 /\ (m = k \/ m < k)
      BY <2>4
    <3>2. h[m] = g[m]
      BY <3>1
    <3>3. h[m + 1] = IF m = k THEN Spread(t, g[k]) ELSE g[m + 1]
      OBVIOUS
    <3> QED BY <2>1, <3>1, <3>2, <3>3 DEF Rounds
  <2>5. Rounds(t, found, k + 1, h)
    BY <2>3, <2>4 DEF Rounds
  <2>6. k + 1 \in Nat
    BY <1>2
  <2> HIDE DEF h
  <2> QED BY <2>2, <2>5, <2>6
<1> HIDE DEF S
<1>3. S = Nat
  BY <1>1, <1>2, AllNumbers DEF S
<1> QED BY <1>3 DEF S

(* The rounds are determined.                                              *)
LEMMA RoundsAgree ==
  ASSUME NEW t, NEW found, NEW n \in Nat, NEW g, NEW h,
         Rounds(t, found, n, g), Rounds(t, found, n, h)
  PROVE  \A m \in 0..n : g[m] = h[m]
<1> DEFINE S == {k \in Nat : k <= n => g[k] = h[k]}
<1>1. 0 \in S
  BY DEF Rounds
<1>2. \A k \in S : k + 1 \in S
  BY DEF Rounds
<1> HIDE DEF S
<1>3. S = Nat
  BY <1>1, <1>2, AllNumbers DEF S
<1> QED BY <1>3 DEF S

(* Both together: the recursive function exists.                           *)
LEMMA RoundFunction ==
  ASSUME NEW t \in Trackers, NEW found \in SUBSET Item
  PROVE  \E r \in [Nat -> SUBSET Item] : \A n \in Nat : Rounds(t, found, n, r)
<1> DEFINE G(n) == CHOOSE g \in [Nat -> SUBSET Item] : Rounds(t, found, n, g)
           r == [n \in Nat |-> G(n)[n]]
<1>1. \A n \in Nat : G(n) \in [Nat -> SUBSET Item] /\ Rounds(t, found, n, G(n))
  BY RoundsExist
<1> HIDE DEF G
<1>2. r \in [Nat -> SUBSET Item]
  BY <1>1
<1>3. r[0] = found
  BY <1>1 DEF Rounds
<1>4. ASSUME NEW m \in Nat PROVE r[m + 1] = Spread(t, r[m])
  <2>1. Rounds(t, found, m, G(m + 1))
    BY <1>1 DEF Rounds
  <2>2. G(m + 1)[m] = G(m)[m]
    BY <1>1, <2>1, RoundsAgree
  <2>3. G(m + 1)[m + 1] = Spread(t, G(m + 1)[m])
    BY <1>1 DEF Rounds
  <2> QED BY <2>2, <2>3
<1> HIDE DEF r
<1>5. \A n \in Nat : Rounds(t, found, n, r)
  BY <1>3, <1>4 DEF Rounds
<1> QED BY <1>2, <1>5

(* ModifiedItems takes the last of as many rounds as there are items.      *)
LEMMA ModifiedIsLastRound ==
  ASSUME NEW t \in Trackers, NEW found \in SUBSET Item
  PROVE  \E r \in [Nat -> SUBSET Item] :
           /\ \A n \in Nat : Rounds(t, found, n, r)
           /\ ModifiedItems(t, found) = r[Cardinality(Item)]
<1> DEFINE F(g) == [n \in Nat |-> IF n = 0 THEN found
                                  ELSE g[n - 1] \cup UNION {t.to[i] : i \in g[n - 1]}]
           round == CHOOSE g : g = F(g)
<1>1. PICK r \in [Nat -> SUBSET Item] : \A n \in Nat : Rounds(t, found, n, r)
  BY RoundFunction
<1>2. r = F(r)
  <2>1. ASSUME NEW n \in Nat PROVE r[n] = F(r)[n]
    <3>1. CASE n = 0
      BY <1>1, <3>1 DEF Rounds
    <3>2. CASE n # 0
      <4>1. n - 1 \in Nat /\ n - 1 < n /\ (n - 1) + 1 = n
        BY <3>2
      <4>2. r[n] = Spread(t, r[n - 1])
        BY <1>1, <4>1 DEF Rounds
      <4> QED BY <3>2, <4>2 DEF Spread
    <3> QED BY <3>1, <3>2
  <2> QED BY <2>1
<1>3. round = F(round)
  BY <1>2
<1> HIDE DEF round
<1>4. round[0] = found
  BY <1>3
<1>5. ASSUME NEW n \in Nat PROVE round[n + 1] = Spread(t, round[n])
  <2>1. F(round)[n + 1] = round[(n + 1) - 1] \cup UNION {t.to[i] : i \in round[(n + 1) - 1]}
    OBVIOUS
  <2>2. (n + 1) - 1 = n
    OBVIOUS
  <2> QED BY <1>3, <2>1, <2>2 DEF Spread
<1>6. \A n \in Nat : Rounds(t, found, n, round)
  BY <1>4, <1>5 DEF Rounds
<1>7. Cardinality(Item) \in Nat
  BY ItemAssumption, FS_CardinalityType
<1>8. round[Cardinality(Item)] = r[Cardinality(Item)]
  BY <1>1, <1>6, <1>7, RoundsAgree
<1>9. ModifiedItems(t, found) = round[Cardinality(Item)]
  BY DEF ModifiedItems, round
<1> QED BY <1>1, <1>8, <1>9

(* A later round has what an earlier one had.                              *)
LEMMA RoundsGrow ==
  ASSUME NEW t \in Trackers, NEW found \in SUBSET Item, NEW r \in [Nat -> SUBSET Item],
         \A n \in Nat : Rounds(t, found, n, r), NEW m \in Nat
  PROVE  \A n \in Nat : m <= n => r[m] \subseteq r[n]
<1> DEFINE S == {n \in Nat : m <= n => r[m] \subseteq r[n]}
<1>1. 0 \in S
  OBVIOUS
<1>2. ASSUME NEW n \in S PROVE n + 1 \in S
  <2>1. n \in Nat /\ n + 1 \in Nat /\ r[n + 1] = Spread(t, r[n])
    BY <1>2 DEF Rounds
  <2>2. r[n] \subseteq r[n + 1]
    BY <2>1 DEF Spread
  <2>3. m <= n + 1 => m <= n \/ m = n + 1
    BY <2>1
  <2> QED BY <1>2, <2>1, <2>2, <2>3
<1> HIDE DEF S
<1>3. S = Nat
  BY <1>1, <1>2, AllNumbers DEF S
<1> QED BY <1>3 DEF S

(* At least one of the rounds adds nothing: each of the others adds an     *)
(* item of its own, and there are no more items than rounds.               *)
LEMMA OneRoundAddsNothing ==
  ASSUME NEW t \in Trackers, NEW found \in SUBSET Item, NEW r \in [Nat -> SUBSET Item],
         \A n \in Nat : Rounds(t, found, n, r)
  PROVE  \E n \in 0..Cardinality(Item) : r[n + 1] = r[n]
<1> DEFINE N == Cardinality(Item)
           f == [n \in 0..N |-> CHOOSE i \in Item : i \in r[n + 1] \ r[n]]
<1>1. N \in Nat /\ IsFiniteSet(Item)
  BY ItemAssumption, FS_CardinalityType
<1>2. IsFiniteSet(0..N) /\ N < Cardinality(0..N)
  BY <1>1, FS_Interval
<1>3. SUFFICES ASSUME \A n \in 0..N : r[n + 1] # r[n] PROVE FALSE
  OBVIOUS
<1>4. ASSUME NEW n \in 0..N PROVE \E i \in Item : i \in r[n + 1] \ r[n]
  <2>1. n \in Nat /\ n + 1 \in Nat /\ n <= n + 1
    BY <1>1
  <2>2. r[n] \subseteq r[n + 1] /\ r[n + 1] \subseteq Item
    BY <2>1, RoundsGrow
  <2>3. r[n + 1] # r[n]
    BY <1>3
  <2>4. \E i : i \in r[n + 1] /\ i \notin r[n]
    BY <2>2, <2>3
  <2> QED BY <2>2, <2>4
<1>5. f \in [0..N -> Item] /\ \A n \in 0..N : f[n] \in r[n + 1] \ r[n]
  BY <1>4
<1> HIDE DEF f
<1>6. PICK m, n \in 0..N : m # n /\ f[m] = f[n]
  BY <1>1, <1>2, <1>5, FS_PigeonHole
<1>7. ASSUME NEW k \in 0..N, NEW l \in 0..N, k < l, f[k] = f[l] PROVE FALSE
  <2>1. k + 1 \in Nat /\ l \in Nat /\ k + 1 <= l
    BY <1>1, <1>7
  <2>2. r[k + 1] \subseteq r[l]
    BY <2>1, RoundsGrow
  <2> QED BY <1>5, <1>7, <2>2
<1>8. m < n \/ n < m
  BY <1>1, <1>6
<1> QED BY <1>6, <1>7, <1>8

(* After a round that adds nothing, no round adds anything.                *)
LEMMA RoundsStay ==
  ASSUME NEW t \in Trackers, NEW found \in SUBSET Item, NEW r \in [Nat -> SUBSET Item],
         \A n \in Nat : Rounds(t, found, n, r), NEW m \in Nat, r[m + 1] = r[m]
  PROVE  \A n \in Nat : m <= n => r[n] = r[m]
<1> DEFINE S == {n \in Nat : m <= n => r[n] = r[m]}
<1>1. 0 \in S
  OBVIOUS
<1>2. ASSUME NEW n \in S PROVE n + 1 \in S
  <2>1. n \in Nat /\ n + 1 \in Nat
    BY <1>2
  <2>2. r[n + 1] = Spread(t, r[n]) /\ r[m + 1] = Spread(t, r[m])
    BY <2>1 DEF Rounds
  <2>3. m <= n + 1 => m <= n \/ m = n + 1
    BY <2>1
  <2> QED BY <1>2, <2>1, <2>2, <2>3
<1> HIDE DEF S
<1>3. S = Nat
  BY <1>1, <1>2, AllNumbers DEF S
<1> QED BY <1>3 DEF S

(* What is reached are items, those that it begins with among them.        *)
LEMMA ReachBegins ==
  ASSUME NEW t \in Trackers, NEW found \in SUBSET Item
  PROVE  found \subseteq ModifiedItems(t, found) /\ ModifiedItems(t, found) \subseteq Item
<1>1. PICK r \in [Nat -> SUBSET Item] :
        (\A n \in Nat : Rounds(t, found, n, r)) /\ ModifiedItems(t, found) = r[Cardinality(Item)]
  BY ModifiedIsLastRound
<1>2. Cardinality(Item) \in Nat
  BY ItemAssumption, FS_CardinalityType
<1>3. r[0] = found /\ 0 <= Cardinality(Item)
  BY <1>1, <1>2 DEF Rounds
<1>4. r[0] \subseteq r[Cardinality(Item)]
  BY <1>1, <1>2, <1>3, RoundsGrow
<1> QED BY <1>1, <1>2, <1>3, <1>4

(* What refers to something that is reached is reached.                    *)
LEMMA ReachCloses ==
  ASSUME NEW t \in Trackers, NEW found \in SUBSET Item,
         NEW i \in ModifiedItems(t, found), NEW j \in t.to[i]
  PROVE  j \in ModifiedItems(t, found)
<1> DEFINE N == Cardinality(Item)
<1>1. PICK r \in [Nat -> SUBSET Item] :
        (\A n \in Nat : Rounds(t, found, n, r)) /\ ModifiedItems(t, found) = r[N]
  BY ModifiedIsLastRound
<1>2. N \in Nat
  BY ItemAssumption, FS_CardinalityType
<1>3. PICK m \in 0..N : r[m + 1] = r[m]
  BY <1>1, OneRoundAddsNothing
<1>4. m \in Nat /\ m <= N /\ m <= N + 1 /\ N + 1 \in Nat
  BY <1>2, <1>3
<1>5. r[N] = r[m] /\ r[N + 1] = r[m]
  BY <1>1, <1>2, <1>3, <1>4, RoundsStay
<1>6. r[N + 1] = Spread(t, r[N])
  BY <1>1, <1>2, <1>4 DEF Rounds
<1>7. i \in r[N] => j \in Spread(t, r[N])
  BY DEF Spread
<1> QED BY <1>1, <1>5, <1>6, <1>7

(* Nothing else is reached.                                                *)
LEMMA ReachIsLeast ==
  ASSUME NEW t \in Trackers, NEW found \in SUBSET Item, NEW closed, found \subseteq closed,
         \A i \in closed \cap Item : t.to[i] \subseteq closed
  PROVE  ModifiedItems(t, found) \subseteq closed
<1>1. PICK r \in [Nat -> SUBSET Item] :
        (\A n \in Nat : Rounds(t, found, n, r)) /\ ModifiedItems(t, found) = r[Cardinality(Item)]
  BY ModifiedIsLastRound
<1>2. Cardinality(Item) \in Nat
  BY ItemAssumption, FS_CardinalityType
<1> DEFINE S == {n \in Nat : r[n] \subseteq closed}
<1>3. 0 \in S
  BY <1>1 DEF Rounds
<1>4. ASSUME NEW n \in S PROVE n + 1 \in S
  <2>1. n \in Nat /\ n + 1 \in Nat /\ r[n] \subseteq closed \cap Item
    BY <1>4
  <2>2. r[n + 1] = Spread(t, r[n])
    BY <1>1, <2>1 DEF Rounds
  <2>3. Spread(t, r[n]) \subseteq closed
    BY <2>1 DEF Spread
  <2> QED BY <2>1, <2>2, <2>3
<1> HIDE DEF S
<1>5. S = Nat
  BY <1>3, <1>4, AllNumbers DEF S
<1> QED BY <1>1, <1>2, <1>5 DEF S

Forward == [from |-> tracker.to, to |-> tracker.from]

(* An item reaches what it refers to, and whatever that reaches.           *)
LEMMA ReachesFollows ==
  ASSUME TrackerFollows, NEW i \in Item
  PROVE  /\ \A j \in ComputeDependencies(items[i]) : j \in Item /\ Reaches(i, j)
         /\ \A j \in Item : Reaches(i, j) => \A k \in ComputeDependencies(items[j]) : k \in Item /\ Reaches(i, k)
<1>1. Forward \in Trackers /\ \A j \in Item : Forward.to[j] = ComputeDependencies(items[j])
  BY DEF Forward, TrackerFollows, Trackers
<1>2. tracker.from[i] \in SUBSET Item /\ tracker.from[i] = ComputeDependencies(items[i])
  BY DEF TrackerFollows, Trackers
<1>3. \A j : Reaches(i, j) <=> j \in ModifiedItems(Forward, tracker.from[i])
  BY DEF Reaches, Forward
<1>4. \A j \in Item : Forward.to[j] \in SUBSET Item
  BY <1>1 DEF Trackers
<1>5. /\ tracker.from[i] \subseteq ModifiedItems(Forward, tracker.from[i])
      /\ ModifiedItems(Forward, tracker.from[i]) \subseteq Item
  BY <1>1, <1>2, ReachBegins
<1>6. ASSUME NEW j \in Item, Reaches(i, j), NEW k \in ComputeDependencies(items[j])
      PROVE  k \in Item /\ Reaches(i, k)
  <2>1. j \in ModifiedItems(Forward, tracker.from[i]) /\ k \in Forward.to[j]
    BY <1>1, <1>3, <1>6
  <2>2. k \in ModifiedItems(Forward, tracker.from[i])
    BY <1>1, <1>2, <2>1, ReachCloses
  <2> QED BY <1>3, <1>5, <2>2
<1> QED BY <1>2, <1>3, <1>5, <1>6

(* What is reached from something that is reached is reached.              *)
LEMMA ReachesOn ==
  ASSUME TrackerFollows, NEW i \in Item, NEW j \in Item, Reaches(i, j), NEW k, Reaches(j, k)
  PROVE  Reaches(i, k) /\ k \in Item
<1> DEFINE closed == ModifiedItems(Forward, tracker.from[i])
<1>1. Forward \in Trackers /\ \A x \in Item : Forward.to[x] = ComputeDependencies(items[x])
  BY DEF Forward, TrackerFollows, Trackers
<1>2. \A x \in Item : tracker.from[x] \in SUBSET Item /\ tracker.from[x] = ComputeDependencies(items[x])
  BY DEF TrackerFollows, Trackers
<1>3. \A x, y : Reaches(x, y) <=> y \in ModifiedItems(Forward, tracker.from[x])
  BY DEF Reaches, Forward
<1>4. \A x \in closed \cap Item : Forward.to[x] \subseteq closed
  <2> HIDE DEF closed
  <2>1. \A x \in Item : x \in closed => Reaches(i, x)
    BY <1>3 DEF closed
  <2>2. \A x \in Item : Reaches(i, x) => \A y \in ComputeDependencies(items[x]) : y \in Item /\ Reaches(i, y)
    BY ReachesFollows
  <2>3. \A y : Reaches(i, y) => y \in closed
    BY <1>3 DEF closed
  <2> QED BY <1>1, <2>1, <2>2, <2>3
<1>5. tracker.from[j] \subseteq closed
  <2>1. \A y \in ComputeDependencies(items[j]) : y \in Item /\ Reaches(i, y)
    BY ReachesFollows
  <2> QED BY <1>2, <1>3, <2>1
<1>6. closed \subseteq Item
  BY <1>1, <1>2, ReachBegins
<1> HIDE DEF closed
<1>7. ModifiedItems(Forward, tracker.from[j]) \subseteq closed
  BY <1>1, <1>2, <1>4, <1>5, ReachIsLeast
<1>8. k \in closed
  BY <1>3, <1>7
<1> QED BY <1>3, <1>6, <1>8 DEF closed

(* A flag refers to its prerequisites, and an item to the segments of its  *)
(* rules.                                                                  *)
LEMMA ReferencesOf ==
  ASSUME NEW data \in StoredData
  PROVE  /\ \A f \in Flag : data[f] # NoItem =>
              \A n \in 1..Len(data[f].prerequisites) : data[f].prerequisites[n].key \in ComputeDependencies(data[f])
         /\ \A i \in Item : data[i] # NoItem =>
              \A s : RefersToSegment(data[i].rules, s) => s \in ComputeDependencies(data[i])
<1>1. ASSUME NEW f \in Flag, data[f] # NoItem, NEW n \in 1..Len(data[f].prerequisites)
      PROVE  data[f].prerequisites[n].key \in ComputeDependencies(data[f])
  <2>1. data[f] \in StoredFlags
    BY <1>1, FlagsOfData
  <2>2. data[f].kind = "flag" /\ data[f].prerequisites \in Seq([key : Flag, variation : Nat])
    BY <2>1 DEF StoredFlags
  <2>3. data[f].prerequisites[n] \in ToSet(data[f].prerequisites)
    BY <2>2, LenProperties DEF ToSet
  <2> QED BY <2>2, <2>3 DEF ComputeDependencies
<1>2. ASSUME NEW i \in Item, data[i] # NoItem, NEW s, RefersToSegment(data[i].rules, s)
      PROVE  s \in ComputeDependencies(data[i])
  <2>1. s \in SegmentsOf(data[i])
    BY <1>2, SegmentsOfRules
  <2>2. data[i].kind \in {"flag", "segment"}
    <3>1. data[i] \in Stored(i)
      BY DEF StoredData
    <3> QED BY <1>2, <3>1 DEF Stored, StoredFlags, StoredSegments
  <2>3. CASE data[i].kind = "flag"
    BY <2>1, <2>3 DEF ComputeDependencies
  <2>4. CASE data[i].kind = "segment"
    BY <2>1, <2>4 DEF ComputeDependencies
  <2> QED BY <2>2, <2>3, <2>4
<1> QED BY <1>1, <1>2

(* Items that were received are stored.                                    *)
LEMMA ReceivedStored ==
  ASSUME NEW data, data = [i \in Item |-> data[i]], \A i \in Item : \E x \in Received(i) : data[i] = Process(x)
  PROVE  data \in StoredData
<1>1. \A i \in Item : data[i] \in Stored(i)
  BY ItemStored
<1>2. \A i \in Item : Stored(i) \subseteq {NoItem} \cup StoredFlags \cup StoredSegments
  BY DEF Stored
<1>3. data \in [Item -> {NoItem} \cup StoredFlags \cup StoredSegments]
  BY <1>1, <1>2
<1> QED BY <1>1, <1>3 DEF StoredData

(* So are the items of the store.                                          *)
LEMMA ItemsStored ==
  ASSUME ItemsReceived
  PROVE  items \in StoredData
  BY ReceivedStored DEF ItemsReceived

-----------------------------------------------------------------------------
(* Evaluations end: no call is in itself unless the keys that have been    *)
(* visited are forgotten on the way, which is what big segments do.        *)

CyclesEnd(root) == \A i \in Segment : Reaches(root, i) => ~BigCycle(i)

(* P are the segments whose calls a call is in; those of them that are not *)
(* known to be visited lie before a big segment.                           *)
CallsTo(root, P, s, visited) ==
  /\ P \in SUBSET Segment /\ s \in P
  /\ \A p \in P : Reaches(root, p) /\ (p = s \/ Reaches(p, s))
  /\ \A p \in P \ visited :
       \E b \in Segment : /\ items[b] # NoItem /\ items[b].unbounded
                          /\ p = b \/ Reaches(p, b)
                          /\ Reaches(b, s)

(* The next call is for a segment that no call is for yet.                 *)
LEMMA NextCall ==
  ASSUME TrackerFollows, NEW root \in Item, CyclesEnd(root), NEW P, NEW s, NEW visited \in SUBSET Item,
         CallsTo(root, P, s, visited), items[s] # NoItem,
         NEW w, w = IF items[s].unbounded THEN {} ELSE visited,
         NEW t \in Segment, t \in ComputeDependencies(items[s]), t \notin w
  PROVE  t \notin P /\ CallsTo(root, P \cup {t}, t, Visiting(w, t))
<1>1. s \in Item /\ t \in Item /\ s \in Segment /\ P \in SUBSET Segment /\ Segment \subseteq Item
  BY ItemAssumption DEF CallsTo
<1>2. Reaches(s, t)
  BY <1>1, ReachesFollows
<1>3. ASSUME NEW p \in Item, Reaches(p, s) PROVE Reaches(p, t)
  BY <1>1, <1>2, <1>3, ReachesOn
<1>4. \A p \in P : Reaches(root, p) /\ (p = s \/ Reaches(p, s))
  BY DEF CallsTo
<1>5. ASSUME NEW b \in Segment, items[b] # NoItem, items[b].unbounded, Reaches(b, t), NEW p \in P, p = b \/ Reaches(p, b)
      PROVE  p # t
  <2>1. SUFFICES ASSUME p = t PROVE FALSE
    OBVIOUS
  <2>2. b \in Item /\ p \in Item /\ Reaches(root, p)
    BY <1>1, <1>4
  <2>3. Reaches(b, b)
    BY <1>1, <1>5, <2>1, <2>2, ReachesOn
  <2>4. Reaches(root, b)
    <3>1. CASE p = b
      BY <2>2, <3>1
    <3>2. CASE Reaches(p, b)
      BY <2>2, <3>2, ReachesOn
    <3> QED BY <1>5, <3>1, <3>2
  <2>5. BigCycle(b)
    BY <1>5, <2>3 DEF BigCycle
  <2> QED BY <2>4, <2>5 DEF CyclesEnd
<1>6. ASSUME NEW p \in P, p \notin w
      PROVE  \E b \in Segment : /\ items[b] # NoItem /\ items[b].unbounded
                                /\ p = b \/ Reaches(p, b)
                                /\ Reaches(b, t)
  <2>1. CASE items[s].unbounded
    BY <1>1, <1>2, <1>4, <2>1
  <2>2. CASE ~items[s].unbounded
    <3>1. p \in P \ visited
      BY <1>6, <2>2
    <3>2. PICK b \in Segment : /\ items[b] # NoItem /\ items[b].unbounded
                               /\ p = b \/ Reaches(p, b)
                               /\ Reaches(b, s)
      BY <3>1 DEF CallsTo
    <3>3. b \in Item
      BY <1>1
    <3>4. Reaches(b, t)
      BY <1>3, <3>2, <3>3
    <3> QED BY <3>2, <3>4
  <2> QED BY <2>1, <2>2
<1>7. t \notin P
  <2>1. SUFFICES ASSUME t \in P PROVE FALSE
    OBVIOUS
  <2>2. PICK b \in Segment : /\ items[b] # NoItem /\ items[b].unbounded
                             /\ t = b \/ Reaches(t, b)
                             /\ Reaches(b, t)
    BY <1>6, <2>1
  <2> QED BY <1>5, <2>1, <2>2
<1>8. \A p \in P \cup {t} : Reaches(root, p) /\ (p = t \/ Reaches(p, t))
  <2>1. ASSUME NEW p \in P PROVE Reaches(root, p) /\ Reaches(p, t)
    <3>1. p \in Item
      BY <1>1
    <3> QED BY <1>2, <1>3, <1>4, <3>1
  <2>2. Reaches(root, t)
    <3>1. Reaches(root, s)
      BY <1>4 DEF CallsTo
    <3> QED BY <1>3, <3>1
  <2> QED BY <2>1, <2>2
<1>9. ASSUME NEW p \in (P \cup {t}) \ Visiting(w, t)
      PROVE  \E b \in Segment : /\ items[b] # NoItem /\ items[b].unbounded
                                /\ p = b \/ Reaches(p, b)
                                /\ Reaches(b, t)
  <2>1. p \in P /\ p \notin w
    BY DEF Visiting
  <2> QED BY <1>6, <2>1
<1>10. CallsTo(root, P \cup {t}, t, Visiting(w, t))
  BY <1>1, <1>8, <1>9 DEF CallsTo
<1> QED BY <1>7, <1>10

(* Calls of which there can be at least as many as there are segments that *)
(* no call is for.                                                         *)
SegmentsEnd(root, m, n) ==
  \A P, s, visited, st :
    /\ visited \in SUBSET Item /\ CallsTo(root, P, s, visited) /\ items[s] # NoItem
    /\ <<st, st>> \in Ending /\ n > Cardinality(Segment \ P)
    => SameMatch(Ending, m[n][Call(s, visited, st)], m[n][Call(s, visited, st)])

(* There is one less for the next call.                                    *)
LEMMA OneLess ==
  ASSUME NEW S, IsFiniteSet(S), NEW P, NEW t \in S, t \notin P
  PROVE  /\ Cardinality(S \ P) \in Nat
         /\ Cardinality(S \ (P \cup {t})) \in Nat
         /\ Cardinality(S \ (P \cup {t})) < Cardinality(S \ P)
<1>1. IsFiniteSet(S \ P) /\ t \in S \ P
  BY FS_Subset
<1>2. S \ (P \cup {t}) = (S \ P) \ {t}
  OBVIOUS
<1>3. Cardinality((S \ P) \ {t}) = Cardinality(S \ P) - 1 /\ IsFiniteSet((S \ P) \ {t})
  BY <1>1, FS_RemoveElement
<1>4. Cardinality(S \ P) \in Nat /\ Cardinality((S \ P) \ {t}) \in Nat
  BY <1>1, <1>3, FS_CardinalityType
<1> QED BY <1>2, <1>3, <1>4

(* There are finitely many segments and flags, and more calls than either. *)
LEMMA EnoughCalls ==
  /\ IsFiniteSet(Segment) /\ IsFiniteSet(Flag) /\ MaxDepth \in Nat /\ MaxDepth \in 0..MaxDepth
  /\ \A S : MaxDepth > Cardinality(Segment \ S) /\ MaxDepth > Cardinality(Flag \ S)
<1>1. IsFiniteSet(Item) /\ Segment \subseteq Item /\ Flag \subseteq Item
  BY ItemAssumption
<1>2. ASSUME NEW S, NEW T \in SUBSET Item PROVE MaxDepth > Cardinality(T \ S) /\ IsFiniteSet(T)
  <2>1. IsFiniteSet(T \ S) /\ Cardinality(T \ S) <= Cardinality(Item)
    BY <1>1, FS_Subset
  <2>2. Cardinality(T \ S) \in Nat /\ Cardinality(Item) \in Nat
    BY <1>1, <2>1, FS_CardinalityType
  <2>3. IsFiniteSet(T)
    BY <1>1, FS_Subset
  <2> QED BY <2>1, <2>2, <2>3, DepthAssumption
<1>3. Segment \in SUBSET Item /\ Flag \in SUBSET Item
  BY <1>1
<1>4. \A S : MaxDepth > Cardinality(Segment \ S) /\ IsFiniteSet(Segment)
  BY <1>2, <1>3
<1>5. \A S : MaxDepth > Cardinality(Flag \ S) /\ IsFiniteSet(Flag)
  BY <1>2, <1>3
<1>6. MaxDepth \in Nat /\ MaxDepth \in 0..MaxDepth
  BY DepthAssumption
<1> QED BY <1>4, <1>5, <1>6

(* All of them end.                                                        *)
LEMMA SegmentLevelsEnd ==
  ASSUME TrackerFollows, ItemsReceived, NEW c \in Asked, NEW root \in Item, CyclesEnd(root),
         NEW m, SegmentLevels(m, items, c)
  PROVE  SegmentsEnd(root, m, MaxDepth)
<1> DEFINE A == {n \in 0..MaxDepth : SegmentsEnd(root, m, n)}
<1>1. MaxDepth \in Nat /\ MaxDepth \in 0..MaxDepth /\ IsFiniteSet(Segment)
  BY EnoughCalls
<1>2. \A P : Cardinality(Segment \ P) \in Nat
  <2>1. ASSUME NEW P PROVE IsFiniteSet(Segment \ P)
    BY <1>1, FS_Subset
  <2> QED BY <2>1, FS_CardinalityType
<1>3. 0 \in A
  BY <1>1, <1>2 DEF SegmentsEnd
<1>4. ASSUME NEW n \in 0..MaxDepth, n \in A, n < MaxDepth PROVE n + 1 \in A
  <2>1. n + 1 \in 0..MaxDepth /\ (n + 1) - 1 = n /\ n + 1 # 0
    BY <1>1, <1>4
  <2>2. ASSUME NEW P, NEW s, NEW visited \in SUBSET Item, CallsTo(root, P, s, visited), items[s] # NoItem,
               NEW st, <<st, st>> \in Ending, n + 1 > Cardinality(Segment \ P)
        PROVE  SameMatch(Ending, m[n + 1][Call(s, visited, st)], m[n + 1][Call(s, visited, st)])
    <3>1. s \in Segment /\ s \in Item /\ items \in StoredData /\ items[s] \in StoredSegments
      BY <2>2, ItemsStored, SegmentsOfData DEF CallsTo
    <3>2. st \in States /\ ~st.endless
      BY <2>2, RelatedAre
    <3>3. m[n + 1][Call(s, visited, st)] = SegmentMatch(items, c, m[n], s, visited, st)
      <4>1. SegmentCall(m, items, c, n + 1, s, visited, st)
        BY <2>1, <2>2, <3>1, <3>2, SegmentCallIs
      <4> QED BY <2>1, <3>2, <4>1 DEF SegmentCall
    <3> DEFINE w == IF items[s].unbounded THEN {} ELSE visited
    <3>4. w \in SUBSET Item
      OBVIOUS
    <3>5. ASSUME NEW t \in Segment, RefersToSegment(items[s].rules, t)
          PROVE  SegmentRelates(Ending, items, items, m[n], m[n], w, t)
      <4> HIDE DEF w
      <4>1. SUFFICES ASSUME items[t] # NoItem, t \notin w, NEW p \in Ending
                     PROVE  SameMatch(Ending, m[n][Call(t, Visiting(w, t), p[1])], m[n][Call(t, Visiting(w, t), p[2])])
        BY DEF SegmentRelates
      <4>2. t \in ComputeDependencies(items[s])
        BY <2>2, <3>1, <3>5, ReferencesOf
      <4>3. t \notin P /\ CallsTo(root, P \cup {t}, t, Visiting(w, t))
        BY <2>2, <4>1, <4>2, NextCall DEF w
      <4>4. n > Cardinality(Segment \ (P \cup {t}))
        <5>1. /\ Cardinality(Segment \ P) \in Nat /\ Cardinality(Segment \ (P \cup {t})) \in Nat
              /\ Cardinality(Segment \ (P \cup {t})) < Cardinality(Segment \ P)
          BY <1>1, <4>3, OneLess
        <5>2. n \in Nat /\ n + 1 > Cardinality(Segment \ P)
          BY <1>1, <2>2
        <5> QED BY <5>1, <5>2
      <4>5. p[1] = p[2] /\ <<p[1], p[1]>> \in Ending
        <5>1. p = <<p[1], p[2]>> /\ p[1] = p[2]
          BY DEF Ending
        <5> QED BY <5>1
      <4>6. Visiting(w, t) \in SUBSET Item
        BY <3>4, ItemAssumption DEF Visiting
      <4>7. SegmentsEnd(root, m, n)
        BY <1>4
      <4> QED BY <4>1, <4>3, <4>4, <4>5, <4>6, <4>7 DEF SegmentsEnd
    <3>6. SegmentCallRelates(Ending, items, items, m[n], m[n], visited, s)
      BY <3>1, <3>5 DEF SegmentCallRelates, RulesRelate
    <3>7. SegmentsRelated(Ending, items, items, m[n], m[n])
      <4>1. Ending \subseteq States \X States
        BY DEF Ending
      <4> QED BY <3>1, <4>1 DEF SegmentsRelated, SegmentLevels
    <3>8. SameMatch(Ending, SegmentMatch(items, c, m[n], s, visited, st), SegmentMatch(items, c, m[n], s, visited, st))
      BY <2>2, <3>6, <3>7, RelatedKept, SegmentMatchRelates
    <3> QED BY <3>3, <3>8
  <2>3. SegmentsEnd(root, m, n + 1)
    BY <2>2 DEF SegmentsEnd
  <2> QED BY <2>1, <2>3
<1>5. \A n \in 0..MaxDepth : n \in A
  <2> HIDE DEF A
  <2> QED BY <1>1, <1>3, <1>4, AllNumbersUpTo
<1> QED BY <1>1, <1>5

(* The rules of an item end that are come to from where no big segment     *)
(* refers to itself.                                                       *)
LEMMA RulesEnd ==
  ASSUME TrackerFollows, ItemsReceived, NEW c \in Asked, NEW root \in Item, CyclesEnd(root),
         NEW rules, \A s \in Segment : RefersToSegment(rules, s) => Reaches(root, s)
  PROVE  /\ SegmentsRelated(Ending, items, items, SegmentMatches(items, c), SegmentMatches(items, c))
         /\ RulesRelate(Ending, items, items, SegmentMatches(items, c), SegmentMatches(items, c), {}, rules)
<1>1. items \in StoredData
  BY ItemsStored
<1>2. PICK m : SegmentLevels(m, items, c) /\ SegmentMatches(items, c) = m[MaxDepth]
  BY <1>1, SegmentMatchesUnfold
<1>3. MaxDepth \in 0..MaxDepth
  BY EnoughCalls
<1>4. SegmentsRelated(Ending, items, items, m[MaxDepth], m[MaxDepth])
  BY <1>1, <1>2, <1>3 DEF SegmentsRelated, SegmentLevels, Ending
<1>5. SegmentsEnd(root, m, MaxDepth)
  BY <1>2, SegmentLevelsEnd
<1>6. ASSUME NEW s \in Segment, RefersToSegment(rules, s)
      PROVE  SegmentRelates(Ending, items, items, m[MaxDepth], m[MaxDepth], {}, s)
  <2>1. SUFFICES ASSUME items[s] # NoItem, NEW p \in Ending
                 PROVE  SameMatch(Ending, m[MaxDepth][Call(s, Visiting({}, s), p[1])],
                                          m[MaxDepth][Call(s, Visiting({}, s), p[2])])
    BY DEF SegmentRelates
  <2>2. CallsTo(root, {s}, s, Visiting({}, s))
    BY <1>6 DEF CallsTo, Visiting
  <2>3. p[1] = p[2] /\ <<p[1], p[1]>> \in Ending
    <3>1. p = <<p[1], p[2]>> /\ p[1] = p[2]
      BY DEF Ending
    <3> QED BY <3>1
  <2>4. Visiting({}, s) \in SUBSET Item
    BY ItemAssumption DEF Visiting
  <2>5. MaxDepth > Cardinality(Segment \ {s})
    BY EnoughCalls
  <2> QED BY <1>5, <2>1, <2>2, <2>3, <2>4, <2>5 DEF SegmentsEnd
<1> QED BY <1>2, <1>4, <1>6 DEF RulesRelate

(* What is reached by the item with which the evaluation begins.           *)
From(root, i) == i = root \/ Reaches(root, i)

(* As many calls for flags as there are flags that were not visited.       *)
FlagsEnd(root, m, n) ==
  \A f, visited, st :
    /\ f \in Flag /\ From(root, f) /\ items[f] # NoItem /\ visited \in SUBSET Item
    /\ <<st, st>> \in Ending /\ n > Cardinality(Flag \ visited)
    => /\ SameAnswer(Ending, m[n][Call(f, visited, st)], m[n][Call(f, visited, st)])
       /\ m[n][Call(f, visited, st)].res \in Results

(* What an item refers to is come to from where the item is.               *)
LEMMA FromOn ==
  ASSUME TrackerFollows, NEW root \in Item, NEW i \in Item, From(root, i), NEW j \in ComputeDependencies(items[i])
  PROVE  j \in Item /\ Reaches(root, j)
  BY ReachesFollows DEF From

(* All of them end.                                                        *)
LEMMA FlagLevelsEnd ==
  ASSUME TrackerFollows, ItemsReceived, NEW c \in Asked, NEW root \in Item, CyclesEnd(root),
         NEW m, FlagLevels(m, items, c)
  PROVE  FlagsEnd(root, m, MaxDepth)
<1> DEFINE A == {n \in 0..MaxDepth : FlagsEnd(root, m, n)}
<1>1. MaxDepth \in Nat /\ MaxDepth \in 0..MaxDepth /\ IsFiniteSet(Flag)
  BY EnoughCalls
<1>2. \A P : Cardinality(Flag \ P) \in Nat
  <2>1. ASSUME NEW P PROVE IsFiniteSet(Flag \ P)
    BY <1>1, FS_Subset
  <2> QED BY <2>1, FS_CardinalityType
<1>3. 0 \in A
  BY <1>1, <1>2 DEF FlagsEnd
<1>4. ASSUME NEW n \in 0..MaxDepth, n \in A, n < MaxDepth PROVE n + 1 \in A
  <2>1. n + 1 \in 0..MaxDepth /\ (n + 1) - 1 = n /\ n + 1 # 0
    BY <1>1, <1>4
  <2>2. ASSUME NEW f \in Flag, From(root, f), items[f] # NoItem, NEW visited \in SUBSET Item,
               NEW st, <<st, st>> \in Ending, n + 1 > Cardinality(Flag \ visited)
        PROVE  /\ SameAnswer(Ending, m[n + 1][Call(f, visited, st)], m[n + 1][Call(f, visited, st)])
               /\ m[n + 1][Call(f, visited, st)].res \in Results
    <3>1. f \in Item /\ items \in StoredData /\ items[f] \in StoredFlags
      BY <2>2, ItemsStored, FlagsOfData
    <3>2. st \in States /\ ~st.endless
      BY <2>2, RelatedAre
    <3>3. m[n + 1][Call(f, visited, st)] = EvaluateInternal(items, c, m[n], f, visited, st)
      <4>1. FlagCall(m, items, c, n + 1, f, visited, st)
        BY <2>1, <2>2, <3>1, <3>2, FlagCallIs
      <4> QED BY <2>1, <3>2, <4>1 DEF FlagCall
    <3>4. ASSUME NEW k \in 1..Len(items[f].prerequisites)
          PROVE  FlagRelates(Ending, items, items, m[n], m[n], visited, visited, items[f].prerequisites[k].key)
      <4> DEFINE g == items[f].prerequisites[k].key
      <4>1. g \in Flag
        <5>1. items[f].prerequisites[k] \in [key : Flag, variation : Nat]
          BY <3>1, PrerequisitesTyped
        <5> QED BY <5>1
      <4>2. g \in ComputeDependencies(items[f])
        BY <2>2, <3>1, ReferencesOf
      <4> HIDE DEF g
      <4>3. From(root, g) /\ g \in Item
        BY <2>2, <3>1, <4>2, FromOn DEF From
      <4>4. SUFFICES ASSUME items[g] # NoItem, g \notin visited, NEW p \in Ending
                     PROVE  /\ SameAnswer(Ending, m[n][Call(g, Visiting(visited, g), p[1])],
                                                  m[n][Call(g, Visiting(visited, g), p[2])])
                            /\ m[n][Call(g, Visiting(visited, g), p[1])].res \in Results
        BY DEF FlagRelates, g
      <4>5. Visiting(visited, g) \in SUBSET Item /\ Visiting(visited, g) = visited \cup {g}
        BY <4>3 DEF Visiting
      <4>6. n > Cardinality(Flag \ Visiting(visited, g))
        <5>1. /\ Cardinality(Flag \ visited) \in Nat /\ Cardinality(Flag \ (visited \cup {g})) \in Nat
              /\ Cardinality(Flag \ (visited \cup {g})) < Cardinality(Flag \ visited)
          BY <1>1, <4>1, <4>4, OneLess
        <5>2. n \in Nat /\ n + 1 > Cardinality(Flag \ visited)
          BY <1>1, <2>2
        <5> QED BY <4>5, <5>1, <5>2
      <4>7. p[1] = p[2] /\ <<p[1], p[1]>> \in Ending
        <5>1. p = <<p[1], p[2]>> /\ p[1] = p[2]
          BY DEF Ending
        <5> QED BY <5>1
      <4>8. FlagsEnd(root, m, n)
        BY <1>4
      <4> QED BY <4>1, <4>3, <4>4, <4>5, <4>6, <4>7, <4>8 DEF FlagsEnd
    <3>5. \A s \in Segment : RefersToSegment(items[f].rules, s) => Reaches(root, s)
      <4>1. \A s : RefersToSegment(items[f].rules, s) => s \in ComputeDependencies(items[f])
        BY <2>2, <3>1, ReferencesOf
      <4> QED BY <2>2, <3>1, <4>1, FromOn
    <3>6. /\ SegmentsRelated(Ending, items, items, SegmentMatches(items, c), SegmentMatches(items, c))
          /\ RulesRelate(Ending, items, items, SegmentMatches(items, c), SegmentMatches(items, c), {}, items[f].rules)
      BY <3>5, RulesEnd
    <3>7. FlagCallRelates(Ending, items, items, c, m[n], m[n], visited, visited, f)
      BY <3>1, <3>4, <3>6 DEF FlagCallRelates
    <3>8. FlagsRelated(Ending, items, items, m[n], m[n])
      <4>1. Ending \subseteq States \X States
        BY DEF Ending
      <4> QED BY <3>1, <4>1 DEF FlagsRelated, FlagLevels
    <3>9. /\ SameAnswer(Ending, EvaluateInternal(items, c, m[n], f, visited, st),
                                EvaluateInternal(items, c, m[n], f, visited, st))
          /\ EvaluateInternal(items, c, m[n], f, visited, st).res \in Results
      BY <2>2, <3>7, <3>8, RelatedKeptByEvents, EvaluateInternalRelates
    <3> QED BY <3>3, <3>9
  <2>3. FlagsEnd(root, m, n + 1)
    BY <2>2 DEF FlagsEnd
  <2> QED BY <2>1, <2>3
<1>5. \A n \in 0..MaxDepth : n \in A
  <2> HIDE DEF A
  <2> QED BY <1>1, <1>3, <1>4, AllNumbersUpTo
<1> QED BY <1>1, <1>5

(* What the client answers for a flag.                                     *)
LEMMA WhatIsAnswered ==
  ASSUME NEW data, NEW c \in Asked, NEW f \in Flag
  PROVE  /\ data[f] = NoItem => AnswersOf(data)[c][f] = Evaluated(ForError("FLAG_NOT_FOUND"), EvalState)
         /\ data[f] # NoItem => AnswersOf(data)[c][f] = Evaluate(data, c, f)
<1>1. AnswersOf(data)[c] = [g \in Flag |-> IF data[g] = NoItem THEN Evaluated(ForError("FLAG_NOT_FOUND"), EvalState)
                                           ELSE Evaluate(data, c, g)]
  BY Zenon DEF AnswersOf
<1> QED BY <1>1, Zenon

(* The evaluation of a flag ends unless it comes to a big segment that     *)
(* refers to itself.                                                       *)
LEMMA DataEnds == DataFollows => EvaluationEnds
<1> SUFFICES ASSUME DataFollows, NEW c \in Asked, NEW f \in Flag, Endless(answers[c][f].st)
             PROVE  \E i \in Segment : Reaches(f, i) /\ BigCycle(i)
  BY DEF EvaluationEnds
<1>1. TrackerFollows /\ ItemsReceived /\ AnswersFollow /\ items \in StoredData /\ f \in Item
  BY ItemsStored, ItemAssumption DEF DataFollows
<1>2. SUFFICES ASSUME CyclesEnd(f) PROVE FALSE
  BY DEF CyclesEnd
<1>3. EvalState \in States /\ ~EvalState.endless /\ <<EvalState, EvalState>> \in Ending
  BY EvalStateTyped, RelatedAre
<1>4. CASE items[f] = NoItem
  <2>1. answers[c][f] = Evaluated(ForError("FLAG_NOT_FOUND"), EvalState)
    BY <1>1, <1>4, WhatIsAnswered DEF AnswersFollow
  <2> QED BY <1>3, <2>1 DEF Evaluated, Endless
<1>5. CASE items[f] # NoItem
  <2>1. PICK m : FlagLevels(m, items, c) /\ Evaluations(items, c) = m[MaxDepth]
    BY <1>1, EvaluationsUnfold
  <2> DEFINE r == m[MaxDepth][Call(f, {}, EvalState)]
  <2>2. answers[c][f] = r
    BY <1>1, <1>5, <2>1, WhatIsAnswered DEF AnswersFollow, Evaluate
  <2>3. FlagsEnd(f, m, MaxDepth) /\ From(f, f)
    BY <1>1, <1>2, <2>1, FlagLevelsEnd DEF From
  <2>4. MaxDepth > Cardinality(Flag \ {}) /\ {} \in SUBSET Item
    BY EnoughCalls
  <2>5. SameAnswer(Ending, r, r)
    BY <1>3, <1>5, <2>3, <2>4 DEF FlagsEnd
  <2> HIDE DEF r
  <2>6. ~r.st.endless
    BY <2>5, RelatedAre DEF SameAnswer
  <2> QED BY <2>2, <2>6 DEF Endless
<1> QED BY <1>4, <1>5

(* Every evaluation ends, whatever the client has received, unless it can  *)
(* come to a big segment that refers to itself: EvaluationEnds.            *)
THEOREM EvaluationEndsEver == Spec => []EvaluationEnds
  BY DataFollowsEver, DataEnds, PTL

-----------------------------------------------------------------------------
(* What does not refer to anything that changes is evaluated as before.    *)

(* Items that two stores have alike, with all that they refer to.          *)
ItemsAgree(U, data1, data2) ==
  /\ U \in SUBSET Item
  /\ \A i \in U : /\ data1[i] = data2[i]
                  /\ data1[i] # NoItem => ComputeDependencies(data1[i]) \subseteq U

(* Among them are segments with all that they refer to.                    *)
LEMMA ItemsAgreeOnSegments ==
  ASSUME NEW data1 \in StoredData, NEW data2, NEW U, ItemsAgree(U, data1, data2)
  PROVE  SegmentsAgree(U \cap Segment, data1, data2)
<1>1. ASSUME NEW s \in U \cap Segment, data1[s] # NoItem, NEW t \in Segment, RefersToSegment(data1[s].rules, t)
      PROVE  t \in U \cap Segment
  <2>1. s \in Item
    BY ItemAssumption
  <2>2. t \in ComputeDependencies(data1[s])
    BY <1>1, <2>1, ReferencesOf
  <2> QED BY <1>1, <2>2 DEF ItemsAgree
<1> QED BY <1>1 DEF ItemsAgree, SegmentsAgree

(* Calls for the same flag, in which there are equally many at most.       *)
FlagLevelsAgree(related, U, data1, m1, m2, n) ==
  \A f \in U \cap Flag : \A visited \in SUBSET Item : \A p \in related :
    data1[f] # NoItem =>
      /\ SameAnswer(related, m1[n][Call(f, visited, p[1])], m2[n][Call(f, visited, p[2])])
      /\ m1[n][Call(f, visited, p[1])].res \in Results

(* They are answered alike, for any number of calls in each other.         *)
LEMMA FlagLevelsRelate ==
  ASSUME NEW related \in SUBSET (States \X States), KeptBySegments(related), KeptByEvents(related), EndsAlike(related),
         NEW data1 \in StoredData, NEW data2 \in StoredData, NEW c \in Asked, NEW U, ItemsAgree(U, data1, data2),
         NEW m1, NEW m2, FlagLevels(m1, data1, c), FlagLevels(m2, data2, c)
  PROVE  \A n \in 0..MaxDepth : FlagLevelsAgree(related, U, data1, m1, m2, n)
<1> DEFINE A == {n \in 0..MaxDepth : FlagLevelsAgree(related, U, data1, m1, m2, n)}
<1>1. MaxDepth \in Nat
  BY DepthAssumption
<1>2. ASSUME NEW n \in 0..MaxDepth, NEW f \in U \cap Flag, NEW visited \in SUBSET Item, NEW p \in related, data1[f] # NoItem
      PROVE  /\ p[1].endless = p[2].endless
             /\ m1[n][Call(f, visited, p[1])] = IF n = 0 \/ p[1].endless THEN Evaluated(Malformed, WithoutEnd(p[1]))
                                                ELSE EvaluateInternal(data1, c, m1[n - 1], f, visited, p[1])
             /\ m2[n][Call(f, visited, p[2])] = IF n = 0 \/ p[2].endless THEN Evaluated(Malformed, WithoutEnd(p[2]))
                                                ELSE EvaluateInternal(data2, c, m2[n - 1], f, visited, p[2])
  <2>1. f \in Flag /\ data1[f] = data2[f] /\ data2[f] # NoItem
    BY <1>2 DEF ItemsAgree
  <2>2. p[1] \in States /\ p[2] \in States /\ p[1].endless = p[2].endless
    BY DEF EndsAlike
  <2>3. FlagCall(m1, data1, c, n, f, visited, p[1])
    BY <1>2, <2>1, <2>2, FlagCallIs
  <2>4. FlagCall(m2, data2, c, n, f, visited, p[2])
    BY <1>2, <2>1, <2>2, FlagCallIs
  <2> QED BY <2>2, <2>3, <2>4 DEF FlagCall
<1>3. ASSUME NEW n \in 0..MaxDepth, NEW f \in U \cap Flag, NEW visited \in SUBSET Item, NEW p \in related, data1[f] # NoItem,
             n = 0 \/ p[1].endless
      PROVE  /\ SameAnswer(related, m1[n][Call(f, visited, p[1])], m2[n][Call(f, visited, p[2])])
             /\ m1[n][Call(f, visited, p[1])].res \in Results
  <2>1. p[1].endless = p[2].endless /\ <<WithoutEnd(p[1]), WithoutEnd(p[2])>> \in related
    BY DEF EndsAlike
  <2>2. m1[n][Call(f, visited, p[1])] = Evaluated(Malformed, WithoutEnd(p[1]))
    BY <1>2, <1>3
  <2>3. m2[n][Call(f, visited, p[2])] = Evaluated(Malformed, WithoutEnd(p[2]))
    BY <1>2, <1>3, <2>1
  <2>4. SameAnswer(related, Evaluated(Malformed, WithoutEnd(p[1])), Evaluated(Malformed, WithoutEnd(p[2])))
    BY <2>1, MalformedTyped, AnswerRelates DEF MaybeResults
  <2>5. Evaluated(Malformed, WithoutEnd(p[1])).res = Malformed
    BY DEF Evaluated
  <2> QED BY <2>2, <2>3, <2>4, <2>5, MalformedTyped
<1>4. 0 \in A
  <2>1. 0 \in 0..MaxDepth
    BY <1>1
  <2> QED BY <1>3, <2>1 DEF FlagLevelsAgree
<1>5. ASSUME NEW n \in 0..MaxDepth, n \in A, n < MaxDepth PROVE n + 1 \in A
  <2>1. n + 1 \in 0..MaxDepth /\ (n + 1) - 1 = n /\ n + 1 # 0
    BY <1>1, <1>5
  <2>2. ASSUME NEW f \in U \cap Flag, NEW visited \in SUBSET Item, NEW p \in related, data1[f] # NoItem
        PROVE  /\ SameAnswer(related, m1[n + 1][Call(f, visited, p[1])], m2[n + 1][Call(f, visited, p[2])])
               /\ m1[n + 1][Call(f, visited, p[1])].res \in Results
    <3>1. CASE p[1].endless
      BY <1>3, <2>1, <2>2, <3>1
    <3>2. CASE ~p[1].endless
      <4>1. ~p[2].endless
        BY <3>2 DEF EndsAlike
      <4>2. m1[n + 1][Call(f, visited, p[1])] = EvaluateInternal(data1, c, m1[n], f, visited, p[1])
        BY <1>2, <2>1, <2>2, <3>2
      <4>3. m2[n + 1][Call(f, visited, p[2])] = EvaluateInternal(data2, c, m2[n], f, visited, p[2])
        <5>1. m2[n + 1][Call(f, visited, p[2])] = IF n + 1 = 0 \/ p[2].endless THEN Evaluated(Malformed, WithoutEnd(p[2]))
                                                  ELSE EvaluateInternal(data2, c, m2[(n + 1) - 1], f, visited, p[2])
          BY <1>2, <2>1, <2>2
        <5> QED BY <2>1, <4>1, <5>1
      <4>4. f \in Flag /\ f \in Item /\ data1[f] = data2[f] /\ data1[f] \in StoredFlags
            /\ ComputeDependencies(data1[f]) \subseteq U
        BY <2>2, FlagsOfData DEF ItemsAgree
      <4>5. FlagsRelated(related, data1, data2, m1[n], m2[n])
        BY DEF FlagsRelated, FlagLevels
      <4>6. ASSUME NEW k \in 1..Len(data1[f].prerequisites)
            PROVE  FlagRelates(related, data1, data2, m1[n], m2[n], visited, visited, data1[f].prerequisites[k].key)
        <5> DEFINE g == data1[f].prerequisites[k].key
        <5>1. g \in Flag
          <6>1. data1[f].prerequisites[k] \in [key : Flag, variation : Nat]
            BY <4>4, PrerequisitesTyped
          <6> QED BY <6>1
        <5>2. g \in U
          BY <2>2, <4>4, ReferencesOf
        <5> HIDE DEF g
        <5>3. data1[g] = data2[g] /\ g \in U \cap Flag /\ g \in Item
          BY <5>1, <5>2 DEF ItemsAgree
        <5>4. Visiting(visited, g) \in SUBSET Item
          BY <5>3 DEF Visiting
        <5>5. FlagLevelsAgree(related, U, data1, m1, m2, n)
          BY <1>5
        <5>6. FlagRelates(related, data1, data2, m1[n], m2[n], visited, visited, g)
          BY <5>3, <5>4, <5>5 DEF FlagLevelsAgree, FlagRelates
        <5> QED BY <5>6 DEF g
      <4>7. /\ SegmentsRelated(related, data1, data2, SegmentMatches(data1, c), SegmentMatches(data2, c))
            /\ RulesRelate(related, data1, data2, SegmentMatches(data1, c), SegmentMatches(data2, c), {}, data1[f].rules)
        <5> DEFINE rules == data1[f].rules
        <5>1. \A s \in Segment : RefersToSegment(rules, s) => s \in U \cap Segment
          BY <2>2, <4>4, ReferencesOf
        <5>2. SegmentsAgree(U \cap Segment, data1, data2)
          BY ItemsAgreeOnSegments
        <5> HIDE DEF rules
        <5>3. /\ SegmentsRelated(related, data1, data2, SegmentMatches(data1, c), SegmentMatches(data2, c))
              /\ RulesRelate(related, data1, data2, SegmentMatches(data1, c), SegmentMatches(data2, c), {}, rules)
          BY <5>1, <5>2, RulesMatchAlike
        <5> QED BY <5>3 DEF rules
      <4>8. FlagCallRelates(related, data1, data2, c, m1[n], m2[n], visited, visited, f)
        BY <4>4, <4>6, <4>7 DEF FlagCallRelates
      <4>9. <<p[1], p[2]>> \in related
        OBVIOUS
      <4>10. /\ SameAnswer(related, EvaluateInternal(data1, c, m1[n], f, visited, p[1]),
                                    EvaluateInternal(data2, c, m2[n], f, visited, p[2]))
             /\ EvaluateInternal(data1, c, m1[n], f, visited, p[1]).res \in Results
        BY <4>4, <4>5, <4>8, <4>9, EvaluateInternalRelates
      <4> QED BY <4>2, <4>3, <4>10
    <3> QED BY <3>1, <3>2
  <2>3. FlagLevelsAgree(related, U, data1, m1, m2, n + 1)
    BY <2>2 DEF FlagLevelsAgree
  <2> QED BY <2>1, <2>3
<1>6. \A n \in 0..MaxDepth : n \in A
  <2> HIDE DEF A
  <2> QED BY <1>1, <1>4, <1>5, AllNumbersUpTo
<1> QED BY <1>6

(* A flag that two stores have alike is answered alike.                    *)
LEMMA AnsweredAlike ==
  ASSUME NEW data1 \in StoredData, NEW data2 \in StoredData, NEW c \in Asked, NEW U, ItemsAgree(U, data1, data2),
         NEW f \in U \cap Flag
  PROVE  AnswersOf(data1)[c][f] = AnswersOf(data2)[c][f]
<1>1. f \in Flag /\ data1[f] = data2[f]
  BY DEF ItemsAgree
<1>2. CASE data1[f] = NoItem
  <2>1. AnswersOf(data1)[c][f] = Evaluated(ForError("FLAG_NOT_FOUND"), EvalState)
    BY <1>1, <1>2, WhatIsAnswered
  <2>2. AnswersOf(data2)[c][f] = Evaluated(ForError("FLAG_NOT_FOUND"), EvalState)
    BY <1>1, <1>2, WhatIsAnswered
  <2> QED BY <2>1, <2>2
<1>3. CASE data1[f] # NoItem
  <2>1. PICK m1 : FlagLevels(m1, data1, c) /\ Evaluations(data1, c) = m1[MaxDepth]
    BY EvaluationsUnfold
  <2>2. PICK m2 : FlagLevels(m2, data2, c) /\ Evaluations(data2, c) = m2[MaxDepth]
    BY EvaluationsUnfold
  <2> DEFINE r1 == m1[MaxDepth][Call(f, {}, EvalState)]
             r2 == m2[MaxDepth][Call(f, {}, EvalState)]
  <2>3. AnswersOf(data1)[c][f] = r1
    <3>1. AnswersOf(data1)[c][f] = Evaluate(data1, c, f)
      BY <1>1, <1>3, WhatIsAnswered
    <3> QED BY <2>1, <3>1 DEF Evaluate
  <2>4. AnswersOf(data2)[c][f] = r2
    <3>1. AnswersOf(data2)[c][f] = Evaluate(data2, c, f)
      BY <1>1, <1>3, WhatIsAnswered
    <3> QED BY <2>2, <3>1 DEF Evaluate
  <2>5. PICK p \in Same : p = <<EvalState, EvalState>>
    BY EvalStateTyped, SameAre
  <2>6. Same \in SUBSET (States \X States) /\ KeptBySegments(Same) /\ KeptByEvents(Same) /\ EndsAlike(Same)
    BY RelatedKept, RelatedKeptByEvents, RelatedEndAlike DEF Same
  <2>7. FlagLevelsAgree(Same, U, data1, m1, m2, MaxDepth)
    <3>1. \A n \in 0..MaxDepth : FlagLevelsAgree(Same, U, data1, m1, m2, n)
      BY <2>1, <2>2, <2>6, FlagLevelsRelate
    <3> QED BY <3>1, EnoughCalls
  <2>8. SameAnswer(Same, r1, r2)
    <3>1. {} \in SUBSET Item /\ p[1] = EvalState /\ p[2] = EvalState
      BY <2>5
    <3> QED BY <1>3, <2>7, <3>1 DEF FlagLevelsAgree
  <2> HIDE DEF r1, r2
  <2>9. r1 \in MaybeAnswers /\ r2 \in MaybeAnswers /\ r1.res = r2.res /\ r1.st = r2.st
    BY <2>8, SameAre DEF SameAnswer
  <2>10. r1 = r2
    BY <2>9 DEF MaybeAnswers
  <2> QED BY <2>3, <2>4, <2>10
<1> QED BY <1>2, <1>3

-----------------------------------------------------------------------------
(* The walk of DependencyTracker marks the items that are reached.         *)

(* Elements are taken one after the other until none is left.              *)
FoldSteps(g, W, base, S) ==
  /\ g \in [SUBSET S -> SUBSET Item] /\ g[{}] = base
  /\ \A s \in SUBSET S : s # {} => \E x \in s : g[s] = W[g[s \ {x}]][x]

(* What a fold is that takes sets of items.                                *)
LEMMA FoldUnfolds ==
  ASSUME NEW S \in SUBSET Item, NEW base \in SUBSET Item, NEW W \in [SUBSET Item -> [Item -> SUBSET Item]]
  PROVE  \E g : FoldSteps(g, W, base, S) /\ FoldSet(LAMBDA j, after : W[after][j], base, S) = g[S]
<1> DEFINE V == SUBSET Item
           X(s) == CHOOSE x \in s : TRUE
           F(s, r) == IF s = {} THEN base ELSE W[r][X(s)]
           Q(k, g) == \A s \in SUBSET S : Cardinality(s) <= k => g[s] = F(s, g[s \ {X(s)}])
           P(g) == g = [s \in SUBSET S |-> IF s = {} THEN base ELSE W[g[s \ {X(s)}]][X(s)]]
           iter == CHOOSE g : P(g)
           A == {k \in Nat : \E g \in [SUBSET S -> V] : Q(k, g)}
<1>1. IsFiniteSet(S) /\ Cardinality(S) \in Nat
  BY ItemAssumption, FS_Subset, FS_CardinalityType
<1>2. ASSUME NEW s \in SUBSET S
      PROVE  /\ IsFiniteSet(s) /\ Cardinality(s) \in Nat /\ Cardinality(s) <= Cardinality(S)
             /\ s \ {X(s)} \in SUBSET S
             /\ s # {} => /\ X(s) \in s /\ Cardinality(s \ {X(s)}) = Cardinality(s) - 1
                          /\ Cardinality(s) # 0
  <2>1. IsFiniteSet(s) /\ Cardinality(s) <= Cardinality(S) /\ Cardinality(s) \in Nat
    BY <1>1, FS_Subset, FS_CardinalityType
  <2>2. ASSUME s # {} PROVE X(s) \in s
    BY <2>2
  <2> HIDE DEF X
  <2>3. ASSUME s # {} PROVE Cardinality(s \ {X(s)}) = Cardinality(s) - 1 /\ Cardinality(s) # 0
    BY <2>1, <2>2, <2>3, FS_RemoveElement, FS_EmptySet
  <2> QED BY <2>1, <2>2, <2>3
<1>3. ASSUME NEW s \in SUBSET S, NEW r \in V PROVE F(s, r) \in V
  <2>1. s # {} => X(s) \in Item
    BY <1>2
  <2> HIDE DEF X
  <2> QED BY <2>1
<1>4. FoldSet(LAMBDA j, after : W[after][j], base, S) = iter[S]
  BY DEF FoldSet, MapThenFoldSet
<1>5. \A s, r : F(s, r) = IF s = {} THEN base ELSE W[r][X(s)]
  OBVIOUS
<1> HIDE DEF X, F
<1>6. 0 \in A
  <2> DEFINE g == [s \in SUBSET S |-> base]
  <2>1. g \in [SUBSET S -> V]
    OBVIOUS
  <2>2. ASSUME NEW s \in SUBSET S, Cardinality(s) <= 0 PROVE g[s] = F(s, g[s \ {X(s)}])
    <3>1. s = {}
      <4>1. Cardinality(s) \in Nat /\ (s # {} => Cardinality(s) # 0)
        BY <1>2
      <4> QED BY <2>2, <4>1
    <3> QED BY <1>5, <3>1
  <2> HIDE DEF g
  <2>3. Q(0, g)
    BY <2>2
  <2> QED BY <2>1, <2>3
<1>7. ASSUME NEW k \in A PROVE k + 1 \in A
  <2>1. k \in Nat /\ k + 1 \in Nat
    BY <1>7
  <2>2. PICK g \in [SUBSET S -> V] : Q(k, g)
    BY <1>7
  <2> DEFINE h == [s \in SUBSET S |-> IF Cardinality(s) = k + 1 THEN F(s, g[s \ {X(s)}]) ELSE g[s]]
  <2>3. \A s \in SUBSET S : F(s, g[s \ {X(s)}]) \in V /\ g[s] \in V
    BY <1>2, <1>3
  <2>4. h \in [SUBSET S -> V]
    BY <2>3
  <2>5. \A s \in SUBSET S : h[s] = IF Cardinality(s) = k + 1 THEN F(s, g[s \ {X(s)}]) ELSE g[s]
    OBVIOUS
  <2> HIDE DEF h
  <2>6. ASSUME NEW s \in SUBSET S, Cardinality(s) <= k + 1 PROVE h[s] = F(s, h[s \ {X(s)}])
    <3>1. CASE s = {}
      <4>1. Cardinality(s) <= k /\ Cardinality(s) # k + 1
        BY <2>1, <3>1, FS_EmptySet
      <4>2. h[s] = g[s] /\ g[s] = F(s, g[s \ {X(s)}])
        BY <2>2, <2>5, <4>1
      <4> QED BY <1>5, <3>1, <4>2
    <3>2. CASE s # {}
      <4> DEFINE rest == s \ {X(s)}
      <4>1. rest \in SUBSET S /\ Cardinality(rest) = Cardinality(s) - 1 /\ Cardinality(s) \in Nat /\ Cardinality(s) # 0
        BY <1>2, <3>2
      <4> HIDE DEF rest
      <4>2. Cardinality(rest) # k + 1
        BY <2>1, <2>6, <4>1
      <4>3. h[rest] = g[rest]
        BY <2>5, <4>1, <4>2
      <4>4. CASE Cardinality(s) = k + 1
        BY <2>5, <4>3, <4>4 DEF rest
      <4>5. CASE Cardinality(s) # k + 1
        <5>1. Cardinality(s) <= k
          BY <2>1, <2>6, <4>1, <4>5
        <5>2. h[s] = g[s] /\ g[s] = F(s, g[rest])
          BY <2>2, <2>5, <4>5, <5>1 DEF rest
        <5> QED BY <4>3, <5>2 DEF rest
      <4> QED BY <4>4, <4>5
    <3> QED BY <3>1, <3>2
  <2>7. Q(k + 1, h)
    BY <2>6
  <2> QED BY <2>1, <2>4, <2>7
<1>8. A = Nat
  <2> HIDE DEF A
  <2>1. A \in SUBSET Nat
    BY DEF A
  <2> QED BY <1>6, <1>7, <2>1, AllNumbers
<1>9. PICK g \in [SUBSET S -> V] : Q(Cardinality(S), g)
  BY <1>1, <1>8
<1>10. \A s \in SUBSET S : g[s] = IF s = {} THEN base ELSE W[g[s \ {X(s)}]][X(s)]
  BY <1>2, <1>5, <1>9
<1>11. P(g)
  BY <1>10
<1>12. P(iter)
  BY <1>11
<1> HIDE DEF iter, A
<1>13. \A s \in SUBSET S : iter[s] = IF s = {} THEN base ELSE W[iter[s \ {X(s)}]][X(s)]
  BY <1>12
<1>14. iter = [s \in SUBSET S |-> iter[s]]
  BY <1>12
<1> HIDE DEF P
<1>15. iter \in [SUBSET S -> V]
  <2> DEFINE B == {k \in Nat : \A s \in SUBSET S : Cardinality(s) <= k => iter[s] \in V}
  <2>1. 0 \in B
    <3>1. ASSUME NEW s \in SUBSET S, Cardinality(s) <= 0 PROVE iter[s] \in V
      <4>1. s = {}
        <5>1. Cardinality(s) \in Nat /\ (s # {} => Cardinality(s) # 0)
          BY <1>2
        <5> QED BY <3>1, <5>1
      <4> QED BY <1>13, <4>1
    <3> QED BY <3>1
  <2>2. ASSUME NEW k \in B PROVE k + 1 \in B
    <3>1. ASSUME NEW s \in SUBSET S, Cardinality(s) <= k + 1 PROVE iter[s] \in V
      <4>1. CASE s = {}
        BY <1>13, <4>1
      <4>2. CASE s # {}
        <5> DEFINE rest == s \ {X(s)}
        <5>1. rest \in SUBSET S /\ Cardinality(rest) = Cardinality(s) - 1 /\ Cardinality(s) \in Nat /\ X(s) \in s
          BY <1>2, <4>2
        <5> HIDE DEF rest
        <5>2. Cardinality(rest) <= k /\ k \in Nat
          BY <2>2, <3>1, <5>1
        <5>3. iter[rest] \in V /\ X(s) \in Item
          BY <2>2, <5>1, <5>2
        <5>4. iter[s] = W[iter[rest]][X(s)]
          BY <1>13, <4>2 DEF rest
        <5> QED BY <5>3, <5>4
      <4> QED BY <4>1, <4>2
    <3>2. k + 1 \in Nat
      BY <2>2
    <3> QED BY <3>1, <3>2
  <2>3. B = Nat
    <3> HIDE DEF B
    <3>1. B \in SUBSET Nat
      BY DEF B
    <3> QED BY <2>1, <2>2, <3>1, AllNumbers
  <2>4. \A s \in SUBSET S : iter[s] \in V
    BY <1>1, <1>2, <2>3
  <2> QED BY <1>14, <2>4
<1>16. iter[{}] = base
  BY <1>13
<1>17. ASSUME NEW s \in SUBSET S, s # {} PROVE \E x \in s : iter[s] = W[iter[s \ {x}]][x]
  BY <1>2, <1>13, <1>17
<1>18. FoldSteps(iter, W, base, S)
  BY <1>15, <1>16, <1>17 DEF FoldSteps
<1> QED BY <1>4, <1>18

Walks == [SUBSET Item -> [Item -> SUBSET Item]]

Folded(W, base, S) == FoldSet(LAMBDA j, after : W[after][j], base, S)

(* Walks with at most so many calls in each other.                         *)
WalkLevels(w, t) ==
  /\ w \in [Nat -> Walks]
  /\ \A n \in Nat : \A marked \in SUBSET Item : \A i \in Item :
       w[n][marked][i] = IF n = 0 \/ i \in marked THEN marked ELSE Folded(w[n - 1], marked \cup {i}, t.to[i])

(* A fold gives a set of items.                                            *)
LEMMA FoldedTyped ==
  ASSUME NEW S \in SUBSET Item, NEW base \in SUBSET Item, NEW W \in Walks
  PROVE  Folded(W, base, S) \in SUBSET Item
<1>1. PICK g : FoldSteps(g, W, base, S) /\ Folded(W, base, S) = g[S]
  BY FoldUnfolds DEF Walks, Folded
<1> QED BY <1>1 DEF FoldSteps

(* The walk of the tracker is one of them.                                 *)
LEMMA WalkUnfolds ==
  ASSUME NEW t \in Trackers, NEW marked \in SUBSET Item, NEW i \in Item
  PROVE  \E w : WalkLevels(w, t) /\ UpdateModifiedItems(t, marked, i) = w[Cardinality(Item)][marked][i]
<1> DEFINE V == Walks
           Level0 == [m \in SUBSET Item |-> [x \in Item |-> m]]
           Step(W) == [m \in SUBSET Item |-> [x \in Item |-> IF x \in m THEN m ELSE Folded(W, m \cup {x}, t.to[x])]]
           F == [n \in Nat |-> [W \in V |-> Step(W)]]
           P(w) == w = [n \in Nat |-> [m \in SUBSET Item |-> [x \in Item |->
                         IF n = 0 \/ x \in m THEN m ELSE Folded(w[n - 1], m \cup {x}, t.to[x])]]]
           walk == CHOOSE w : P(w)
<1>1. UpdateModifiedItems(t, marked, i) = walk[Cardinality(Item)][marked][i]
  BY DEF UpdateModifiedItems, Folded
<1>2. Level0 \in V
  BY DEF Walks
<1>3. ASSUME NEW W \in V PROVE Step(W) \in V
  <2>1. ASSUME NEW m \in SUBSET Item, NEW x \in Item PROVE Folded(W, m \cup {x}, t.to[x]) \in SUBSET Item
    BY FoldedTyped DEF Trackers
  <2>2. V = [SUBSET Item -> [Item -> SUBSET Item]]
    BY DEF Walks
  <2> HIDE DEF V
  <2> QED BY <2>1, <2>2
<1>4. F \in [Nat -> [V -> V]] /\ \A n \in Nat : \A W \in V : F[n][W] = Step(W)
  <2> HIDE DEF Step, V
  <2> QED BY <1>3
<1> HIDE DEF V, F
<1>5. PICK w \in [Nat -> V] : Recursion(F, Level0, w)
  <2> HIDE DEF Level0
  <2> QED BY <1>2, <1>4, NatRecursion
<1>6. ASSUME NEW n \in Nat
      PROVE  w[n] = [m \in SUBSET Item |-> [x \in Item |->
                       IF n = 0 \/ x \in m THEN m ELSE Folded(w[n - 1], m \cup {x}, t.to[x])]]
  <2>1. CASE n = 0
    <3>1. w[n] = Level0
      BY <1>5, <2>1 DEF Recursion
    <3> QED BY <2>1, <3>1
  <2>2. CASE n # 0
    <3>1. n - 1 \in Nat
      BY <2>2
    <3>2. w[n] = F[n][w[n - 1]] /\ w[n - 1] \in V
      BY <1>5, <2>2, <3>1 DEF Recursion
    <3>3. w[n] = Step(w[n - 1])
      BY <1>4, <3>2
    <3> QED BY <2>2, <3>3
  <2> QED BY <2>1, <2>2
<1>7. P(w)
  <2>1. w = [n \in Nat |-> w[n]]
    BY <1>5
  <2> QED BY <1>6, <2>1
<1>8. P(walk)
  BY <1>7
<1> HIDE DEF walk
<1>9. ASSUME NEW n \in Nat
      PROVE  walk[n] = [m \in SUBSET Item |-> [x \in Item |->
                          IF n = 0 \/ x \in m THEN m ELSE Folded(walk[n - 1], m \cup {x}, t.to[x])]]
  BY <1>8
<1>10. walk = [n \in Nat |-> walk[n]]
  BY <1>8
<1> HIDE DEF P
<1>11. ASSUME NEW n \in Nat, NEW m \in SUBSET Item, NEW x \in Item
       PROVE  walk[n][m][x] = IF n = 0 \/ x \in m THEN m ELSE Folded(walk[n - 1], m \cup {x}, t.to[x])
  <2>1. walk[n] = [y \in SUBSET Item |-> [z \in Item |->
                     IF n = 0 \/ z \in y THEN y ELSE Folded(walk[n - 1], y \cup {z}, t.to[z])]]
    BY <1>9
  <2> QED BY <2>1
<1>12. V = [SUBSET Item -> [Item -> SUBSET Item]]
  BY DEF V, Walks
<1>13. \A n \in Nat : walk[n] \in V
  <2> DEFINE A == {n \in Nat : walk[n] \in V}
  <2>1. 0 \in A
    <3>1. walk[0] = Level0
      <4>1. walk[0] = [m \in SUBSET Item |-> [x \in Item |->
                         IF 0 = 0 \/ x \in m THEN m ELSE Folded(walk[0 - 1], m \cup {x}, t.to[x])]]
        BY <1>9
      <4> QED BY <4>1
    <3> QED BY <1>2, <3>1 DEF V
  <2>2. ASSUME NEW n \in A PROVE n + 1 \in A
    <3>1. n \in Nat /\ n + 1 \in Nat /\ (n + 1) - 1 = n /\ n + 1 # 0 /\ walk[n] \in V
      BY <2>2
    <3>2. walk[n + 1] = Step(walk[n])
      <4>1. walk[n + 1] = [m \in SUBSET Item |-> [x \in Item |->
                             IF n + 1 = 0 \/ x \in m THEN m ELSE Folded(walk[(n + 1) - 1], m \cup {x}, t.to[x])]]
        BY <1>9, <3>1
      <4> QED BY <3>1, <4>1
    <3> HIDE DEF Step
    <3> QED BY <1>3, <3>1, <3>2 DEF V
  <2>3. A = Nat
    <3> HIDE DEF A
    <3>1. A \in SUBSET Nat
      BY DEF A
    <3> QED BY <2>1, <2>2, <3>1, AllNumbers
  <2> QED BY <2>3
<1>14. walk \in [Nat -> V]
  BY <1>10, <1>13
<1>15. WalkLevels(walk, t)
  BY <1>11, <1>14 DEF WalkLevels, V
<1> QED BY <1>1, <1>15

(* What a walk marks: the item, nothing that is not reached from it, and   *)
(* with everything that it marks whatever refers to that.                  *)
Marks(t, r, marked, i) ==
  /\ r \in SUBSET Item /\ marked \cup {i} \subseteq r
  /\ r \subseteq marked \cup ModifiedItems(t, {i})
  /\ \A k \in r \ marked : t.to[k] \subseteq r

(* With at least as many calls as there are items that are not marked, a   *)
(* walk marks what it should.                                              *)
LEMMA WalkLevelsMark ==
  ASSUME NEW t \in Trackers, NEW w, WalkLevels(w, t)
  PROVE  \A n \in Nat : \A marked \in SUBSET Item : \A i \in Item :
           n >= Cardinality(Item \ marked) => Marks(t, w[n][marked][i], marked, i)
<1> DEFINE Good(n) == \A marked \in SUBSET Item : \A i \in Item :
                        n >= Cardinality(Item \ marked) => Marks(t, w[n][marked][i], marked, i)
           A == {n \in Nat : Good(n)}
<1>1. IsFiniteSet(Item)
  BY ItemAssumption
<1>2. ASSUME NEW S \in SUBSET Item
      PROVE  IsFiniteSet(Item \ S) /\ Cardinality(Item \ S) \in Nat
  <2>1. IsFiniteSet(Item \ S)
    BY <1>1, FS_Subset
  <2> QED BY <2>1, FS_CardinalityType
<1>3. ASSUME NEW i \in Item
      PROVE  /\ {i} \subseteq ModifiedItems(t, {i}) /\ ModifiedItems(t, {i}) \subseteq Item
             /\ \A k \in ModifiedItems(t, {i}) : t.to[k] \subseteq ModifiedItems(t, {i})
  <2>1. {i} \in SUBSET Item
    OBVIOUS
  <2>2. \A k \in ModifiedItems(t, {i}) : \A j \in t.to[k] : j \in ModifiedItems(t, {i})
    BY <2>1, ReachCloses
  <2> QED BY <2>1, <2>2, ReachBegins
<1>4. ASSUME NEW i \in Item, NEW j \in t.to[i]
      PROVE  j \in Item /\ ModifiedItems(t, {j}) \subseteq ModifiedItems(t, {i})
  <2>1. j \in Item
    BY DEF Trackers
  <2>2. {j} \subseteq ModifiedItems(t, {i})
    BY <1>3
  <2>3. {j} \in SUBSET Item /\ \A k \in ModifiedItems(t, {i}) \cap Item : t.to[k] \subseteq ModifiedItems(t, {i})
    BY <1>3, <2>1
  <2> QED BY <2>1, <2>2, <2>3, ReachIsLeast
<1>5. ASSUME NEW n \in Nat, NEW marked \in SUBSET Item, NEW i \in Item, i \in marked
      PROVE  Marks(t, w[n][marked][i], marked, i)
  BY <1>5, SMTT(60) DEF WalkLevels, Marks
<1>6. Good(0)
  <2>1. ASSUME NEW marked \in SUBSET Item, NEW i \in Item, 0 >= Cardinality(Item \ marked) PROVE i \in marked
    <3>1. Cardinality(Item \ marked) = 0
      BY <1>2, <2>1
    <3>2. Item \ marked = {}
      BY <1>2, <3>1, FS_EmptySet
    <3> QED BY <3>2
  <2> QED BY <1>5, <2>1
<1>7. ASSUME NEW n \in Nat, Good(n) PROVE Good(n + 1)
  <2>1. SUFFICES ASSUME NEW marked \in SUBSET Item, NEW i \in Item, n + 1 >= Cardinality(Item \ marked)
                 PROVE  Marks(t, w[n + 1][marked][i], marked, i)
    OBVIOUS
  <2>2. CASE i \in marked
    BY <1>5, <2>2
  <2>3. CASE i \notin marked
    <3> DEFINE base == marked \cup {i}
               S == t.to[i]
    <3>1. n + 1 \in Nat /\ n + 1 # 0 /\ (n + 1) - 1 = n /\ w[n] \in Walks
      BY DEF WalkLevels
    <3>2. w[n + 1][marked][i] = Folded(w[n], base, S)
      BY <2>3, <3>1 DEF WalkLevels
    <3>3. base \in SUBSET Item /\ S \in SUBSET Item
      BY DEF Trackers
    <3>4. PICK g : FoldSteps(g, w[n], base, S) /\ Folded(w[n], base, S) = g[S]
      BY <3>1, <3>3, FoldUnfolds DEF Walks, Folded
    <3>5. ASSUME NEW after \in SUBSET Item, base \subseteq after PROVE n >= Cardinality(Item \ after)
      <4>1. /\ Cardinality(Item \ marked) \in Nat /\ Cardinality(Item \ base) \in Nat
            /\ Cardinality(Item \ base) < Cardinality(Item \ marked)
        BY <1>1, <2>3, OneLess
      <4>2. Cardinality(Item \ after) <= Cardinality(Item \ base) /\ Cardinality(Item \ after) \in Nat
        <5>1. (Item \ after) \in SUBSET (Item \ base) /\ IsFiniteSet(Item \ base)
          BY <1>2, <3>3, <3>5
        <5>2. IsFiniteSet(Item \ after) /\ Cardinality(Item \ after) <= Cardinality(Item \ base)
          BY <5>1, FS_Subset
        <5> QED BY <5>2, FS_CardinalityType
      <4> QED BY <2>1, <4>1, <4>2
    <3> DEFINE Marked(s, r) == /\ r \in SUBSET Item /\ base \cup s \subseteq r
                               /\ r \subseteq marked \cup ModifiedItems(t, {i})
                               /\ \A k \in r \ base : t.to[k] \subseteq r
               B == {k \in Nat : \A s \in SUBSET S : Cardinality(s) <= k => Marked(s, g[s])}
    <3>6. Marked({}, g[{}])
      <4>1. g[{}] = base /\ base \subseteq marked \cup ModifiedItems(t, {i})
        BY <1>3, <3>4 DEF FoldSteps
      <4> QED BY <3>3, <4>1
    <3>7. ASSUME NEW s \in SUBSET S, NEW x \in s, Marked(s \ {x}, g[s \ {x}]), g[s] = w[n][g[s \ {x}]][x]
          PROVE  Marked(s, g[s])
      <4> DEFINE after == g[s \ {x}]
      <4>1. after \in SUBSET Item /\ base \subseteq after /\ x \in Item /\ x \in t.to[i]
        BY <3>3, <3>7
      <4>2. Marks(t, w[n][after][x], after, x)
        BY <1>7, <3>5, <4>1
      <4>3. Marks(t, g[s], after, x)
        BY <3>7, <4>2
      <4>4. ModifiedItems(t, {x}) \subseteq ModifiedItems(t, {i})
        BY <1>4, <4>1
      <4>5. g[s] \in SUBSET Item /\ after \cup {x} \subseteq g[s] /\ g[s] \subseteq after \cup ModifiedItems(t, {x})
        BY <4>3 DEF Marks
      <4>6. ASSUME NEW k \in g[s] \ base PROVE t.to[k] \subseteq g[s]
        <5>1. CASE k \in after
          BY <3>7, <4>5, <5>1
        <5>2. CASE k \notin after
          BY <4>3, <5>2 DEF Marks
        <5> QED BY <5>1, <5>2
      <4>7. base \cup s \subseteq g[s] /\ g[s] \subseteq marked \cup ModifiedItems(t, {i})
        BY <3>7, <4>4, <4>5
      <4> QED BY <4>5, <4>6, <4>7
    <3> HIDE DEF Marked
    <3>8. ASSUME NEW s \in SUBSET S
          PROVE  /\ Cardinality(s) \in Nat
                 /\ \A x \in s : Cardinality(s \ {x}) = Cardinality(s) - 1
                 /\ s # {} => Cardinality(s) # 0
      <4>1. IsFiniteSet(s)
        BY <1>1, <3>3, FS_Subset
      <4> QED BY <4>1, FS_CardinalityType, FS_RemoveElement, FS_EmptySet
    <3>9. 0 \in B
      <4>1. ASSUME NEW s \in SUBSET S, Cardinality(s) <= 0 PROVE s = {}
        <5>1. Cardinality(s) \in Nat /\ (s # {} => Cardinality(s) # 0)
          BY <3>8
        <5> QED BY <4>1, <5>1
      <4> QED BY <3>6, <4>1
    <3>10. ASSUME NEW k \in B PROVE k + 1 \in B
      <4>1. ASSUME NEW s \in SUBSET S, Cardinality(s) <= k + 1 PROVE Marked(s, g[s])
        <5>1. CASE s = {}
          BY <3>6, <5>1
        <5>2. CASE s # {}
          <6>1. PICK x \in s : g[s] = w[n][g[s \ {x}]][x]
            BY <3>4, <5>2 DEF FoldSteps
          <6>2. Cardinality(s \ {x}) = Cardinality(s) - 1 /\ Cardinality(s) \in Nat /\ s \ {x} \in SUBSET S
            BY <3>8
          <6>3. Cardinality(s \ {x}) <= k
            BY <3>10, <4>1, <6>2
          <6>4. Marked(s \ {x}, g[s \ {x}])
            BY <3>10, <6>2, <6>3
          <6> QED BY <3>7, <6>1, <6>4
        <5> QED BY <5>1, <5>2
      <4>2. k + 1 \in Nat
        BY <3>10
      <4> QED BY <4>1, <4>2
    <3>11. B = Nat
      <4>1. B \in SUBSET Nat
        OBVIOUS
      <4> HIDE DEF B
      <4> QED BY <3>9, <3>10, <4>1, AllNumbers
    <3>12. Marked(S, g[S])
      <4>1. S \in SUBSET S /\ Cardinality(S) \in Nat
        BY <3>8
      <4> QED BY <3>11, <4>1
    <3> DEFINE r == g[S]
    <3>13. /\ r \in SUBSET Item /\ base \cup S \subseteq r
           /\ r \subseteq marked \cup ModifiedItems(t, {i})
           /\ \A k \in r \ base : t.to[k] \subseteq r
      BY <3>12 DEF Marked
    <3> HIDE DEF r
    <3>14. \A k \in r \ marked : t.to[k] \subseteq r
      BY <3>13
    <3>15. Marks(t, r, marked, i)
      BY <3>13, <3>14 DEF Marks
    <3> QED BY <3>2, <3>4, <3>15 DEF r
  <2> QED BY <2>2, <2>3
<1>8. A = Nat
  <2>1. 0 \in A
    BY <1>6
  <2>2. ASSUME NEW n \in A PROVE n + 1 \in A
    <3>1. n \in Nat /\ Good(n)
      BY <2>2
    <3> HIDE DEF Good
    <3> QED BY <1>7, <3>1
  <2>3. A \in SUBSET Nat
    OBVIOUS
  <2> HIDE DEF A
  <2> QED BY <2>1, <2>2, <2>3, AllNumbers
<1> QED BY <1>8

(* The walk from an item, with nothing marked, marks what is reached.      *)
LEMMA WalkIsReach ==
  ASSUME NEW t \in Trackers, NEW i \in Item
  PROVE  UpdateModifiedItems(t, {}, i) = ModifiedItems(t, {i})
<1>1. {} \in SUBSET Item /\ Item \ {} = Item /\ {i} \in SUBSET Item
  OBVIOUS
<1>2. PICK w : WalkLevels(w, t) /\ UpdateModifiedItems(t, {}, i) = w[Cardinality(Item)][{}][i]
  BY <1>1, WalkUnfolds
<1>3. Cardinality(Item) \in Nat /\ Cardinality(Item) >= Cardinality(Item)
  BY ItemAssumption, FS_CardinalityType
<1> DEFINE r == w[Cardinality(Item)][{}][i]
<1>4. Marks(t, r, {}, i)
  BY <1>1, <1>2, <1>3, WalkLevelsMark
<1> HIDE DEF r
<1>5. r \subseteq ModifiedItems(t, {i}) /\ {i} \subseteq r /\ \A k \in r \cap Item : t.to[k] \subseteq r
  BY <1>4 DEF Marks
<1>6. ModifiedItems(t, {i}) \subseteq r
  BY <1>1, <1>5, ReachIsLeast
<1> QED BY <1>2, <1>5, <1>6 DEF r

(* What does not refer to an item that is received stays as it was, with   *)
(* all that it refers to.                                                  *)
LEMMA UnmarkedAgree ==
  ASSUME NEW t \in Trackers, MapsInverse(t), NEW data1, NEW data2, NEW i \in Item,
         \A j \in Item : t.from[j] = ComputeDependencies(data2[j]),
         \A j \in Item : j # i => data1[j] = data2[j]
  PROVE  ItemsAgree(Item \ ModifiedItems(t, {i}), data1, data2)
<1> DEFINE M == ModifiedItems(t, {i})
<1>1. {i} \in SUBSET Item
  OBVIOUS
<1>2. i \in M
  BY <1>1, ReachBegins
<1>3. ASSUME NEW j \in Item, j \notin M, NEW k \in ComputeDependencies(data2[j]) PROVE k \in Item /\ k \notin M
  <2>1. k \in t.from[j] /\ k \in Item
    BY DEF Trackers
  <2>2. j \in t.to[k]
    BY <2>1 DEF MapsInverse
  <2>3. k \in M => j \in M
    BY <1>1, <2>2, ReachCloses
  <2> QED BY <1>3, <2>1, <2>3
<1> HIDE DEF M
<1>4. \A j \in Item \ M : data1[j] = data2[j]
  BY <1>2
<1> QED BY <1>3, <1>4 DEF ItemsAgree, M

(* A flag whose answer changes is among the marked ones.                   *)
LEMMA ChangesMarked ==
  ASSUME NEW t \in Trackers, MapsInverse(t), NEW data1 \in StoredData, NEW data2 \in StoredData, NEW i \in Item,
         \A j \in Item : t.from[j] = ComputeDependencies(data2[j]),
         \A j \in Item : j # i => data1[j] = data2[j],
         NEW c \in Asked, NEW f \in Flag, AnswersOf(data2)[c][f].res # AnswersOf(data1)[c][f].res
  PROVE  f \in UpdateModifiedItems(t, {}, i)
<1> DEFINE U == Item \ ModifiedItems(t, {i})
<1>1. ItemsAgree(U, data1, data2)
  BY UnmarkedAgree
<1>2. f \in Item /\ UpdateModifiedItems(t, {}, i) = ModifiedItems(t, {i})
  BY WalkIsReach, ItemAssumption
<1> HIDE DEF U
<1>3. f \in U => AnswersOf(data1)[c][f] = AnswersOf(data2)[c][f]
  BY <1>1, AnsweredAlike
<1> QED BY <1>2, <1>3 DEF U

(* Items change when one of them is received, and only that one.           *)
LEMMA OneChanges ==
  ASSUME DataFollows, [Next]_vars, NEW i \in Item, items'[i] # items[i]
  PROVE  \A j \in Item : j # i => items'[j] = items[j]
<1>1. \A j \in Item : \A x : Receive(j, x) => items' = [items EXCEPT ![j] = Process(x)]
  BY DEF Receive
<1>2. items = [j \in Item |-> items[j]]
  BY DEF DataFollows, ItemsReceived
<1>3. CASE \E j \in Item : Patch(j) \/ Delete(j)
  <2>1. PICK j \in Item : Patch(j) \/ Delete(j)
    BY <1>3
  <2>2. PICK x : Receive(j, x)
    BY <2>1 DEF Patch, Delete
  <2>3. items' = [items EXCEPT ![j] = Process(x)]
    BY <1>1, <2>2
  <2>4. \A k \in Item : k # j => items'[k] = items[k]
    BY <1>2, <2>3
  <2> QED BY <2>4
<1>4. CASE \E c \in Identified, options \in ClientOptions : Identify(c, options)
  BY <1>4 DEF Identify
<1>5. CASE NoItems /\ identified = NoOne /\ TestDataNext /\ UNCHANGED evaluationVars
  BY <1>5 DEF evaluationVars
<1>6. CASE UNCHANGED vars
  BY <1>6 DEF vars, evaluationVars
<1> QED BY <1>3, <1>4, <1>5, <1>6 DEF Next

(* So it is for a step.                                                    *)
LEMMA StepMarks ==
  ASSUME DataFollows, [Next]_vars
  PROVE  \A i \in Item :
           items'[i] # items[i] =>
             LET marked == UpdateModifiedItems(tracker', {}, i) IN
             /\ marked = ModifiedItems(tracker', {i})
             /\ \A c \in Asked, f \in Flag :
                  answers'[c][f].res # answers[c][f].res => f \in marked
<1>1. DataFollows'
  BY DataStep
<1>2. items \in StoredData /\ answers = AnswersOf(items)
  BY ItemsStored DEF DataFollows, AnswersFollow
<1>3. /\ items' \in StoredData /\ answers' = AnswersOf(items') /\ tracker' \in Trackers /\ MapsInverse(tracker')
      /\ \A j \in Item : tracker'.from[j] = ComputeDependencies(items'[j])
  <2>1. PICK data : data = items'
    OBVIOUS
  <2>2. data = [i \in Item |-> data[i]] /\ \A i \in Item : \E x \in Received(i) : data[i] = Process(x)
    BY <1>1, <2>1 DEF DataFollows, ItemsReceived
  <2>3. data \in StoredData
    BY <2>2, ReceivedStored
  <2> QED BY <1>1, <2>1, <2>3 DEF DataFollows, AnswersFollow, TrackerFollows
<1>4. PICK t, d1, d2 : t = tracker' /\ d1 = items /\ d2 = items'
  OBVIOUS
<1>5. ASSUME NEW i \in Item, d2[i] # d1[i]
      PROVE  /\ UpdateModifiedItems(t, {}, i) = ModifiedItems(t, {i})
             /\ \A c \in Asked, f \in Flag :
                  AnswersOf(d2)[c][f].res # AnswersOf(d1)[c][f].res => f \in UpdateModifiedItems(t, {}, i)
  <2>1. UpdateModifiedItems(t, {}, i) = ModifiedItems(t, {i})
    BY <1>3, <1>4, WalkIsReach
  <2>2. \A j \in Item : j # i => d2[j] = d1[j]
    BY <1>4, <1>5, OneChanges
  <2>3. ASSUME NEW c \in Asked, NEW f \in Flag, AnswersOf(d2)[c][f].res # AnswersOf(d1)[c][f].res
        PROVE  f \in UpdateModifiedItems(t, {}, i)
    BY <1>2, <1>3, <1>4, <2>2, <2>3, ChangesMarked
  <2> QED BY <2>1, <2>3
<1> QED BY <1>2, <1>3, <1>4, <1>5

(* Whoever listens for changes misses none: EvaluationChangesAreMarked.    *)
THEOREM EvaluationChangesAreMarkedEver == Spec => EvaluationChangesAreMarked
<1>1. DataFollows /\ [Next]_vars =>
        [\A i \in Item :
           items'[i] # items[i] =>
             LET marked == UpdateModifiedItems(tracker', {}, i) IN
             /\ marked = ModifiedItems(tracker', {i})
             /\ \A c \in Asked, f \in Flag :
                  answers'[c][f].res # answers[c][f].res => f \in marked]_vars
  BY StepMarks
<1> QED BY <1>1, DataFollowsEver, PTL DEF Spec, EvaluationChangesAreMarked

-----------------------------------------------------------------------------
(* What a flag is does not depend on where the evaluation begins, unless   *)
(* prerequisites are circular.                                             *)

(* Calls for the same flag, after others that it does not refer to.        *)
Independent(root, m, n1, n2) ==
  \A f, visited1, visited2, s1, s2 :
    /\ f \in Flag /\ From(root, f) /\ items[f] # NoItem
    /\ visited1 \in SUBSET Item /\ n1 > Cardinality(Flag \ visited1)
    /\ visited2 \in SUBSET Item /\ n2 > Cardinality(Flag \ visited2)
    /\ \A g \in visited1 \cup visited2 : ~Reaches(f, g)
    /\ <<s1, s2>> \in Alike
    => /\ SameAnswer(Alike, m[n1][Call(f, visited1, s1)], m[n2][Call(f, visited2, s2)])
       /\ m[n1][Call(f, visited1, s1)].res \in Results

(* No flag that is come to is circular.                                    *)
LEMMA NoneCircular ==
  ASSUME NEW root \in Flag, ~ReachesCycle(root), NEW f \in Flag, From(root, f)
  PROVE  ~Reaches(f, f)
  BY DEF ReachesCycle, From

(* The rules of a flag match alike.                                        *)
LEMMA RulesAlike ==
  ASSUME NEW related \in SUBSET (States \X States), KeptBySegments(related), EndsAlike(related),
         NEW data \in StoredData, NEW c \in Asked, NEW rules
  PROVE  /\ SegmentsRelated(related, data, data, SegmentMatches(data, c), SegmentMatches(data, c))
         /\ RulesRelate(related, data, data, SegmentMatches(data, c), SegmentMatches(data, c), {}, rules)
<1>1. SegmentsAgree(Segment, data, data)
  BY DEF SegmentsAgree
<1> QED BY <1>1, RulesMatchAlike

(* They give the same.                                                     *)
LEMMA FlagsIndependent ==
  ASSUME TrackerFollows, ItemsReceived, NEW c \in Asked, NEW root \in Flag, ~ReachesCycle(root),
         NEW m, FlagLevels(m, items, c)
  PROVE  \A n1 \in 0..MaxDepth : \A n2 \in 0..MaxDepth : Independent(root, m, n1, n2)
<1> DEFINE A == {n1 \in 0..MaxDepth : \A n2 \in 0..MaxDepth : Independent(root, m, n1, n2)}
<1>1. MaxDepth \in Nat /\ MaxDepth \in 0..MaxDepth /\ IsFiniteSet(Flag) /\ items \in StoredData /\ root \in Item
  BY EnoughCalls, ItemsStored, ItemAssumption
<1>2. \A P : Cardinality(Flag \ P) \in Nat
  <2>1. ASSUME NEW P PROVE IsFiniteSet(Flag \ P)
    BY <1>1, FS_Subset
  <2> QED BY <2>1, FS_CardinalityType
<1>3. 0 \in A
  BY <1>1, <1>2 DEF Independent
<1>4. Alike \in SUBSET (States \X States) /\ KeptBySegments(Alike) /\ KeptByEvents(Alike) /\ EndsAlike(Alike)
  BY RelatedKept, RelatedKeptByEvents, RelatedEndAlike DEF Alike
<1>5. ASSUME NEW n1 \in 0..MaxDepth, n1 \in A, n1 < MaxDepth PROVE n1 + 1 \in A
  <2>1. n1 + 1 \in 0..MaxDepth /\ (n1 + 1) - 1 = n1 /\ n1 + 1 # 0
    BY <1>1, <1>5
  <2>2. ASSUME NEW n2 \in 0..MaxDepth, NEW f \in Flag, From(root, f), items[f] # NoItem,
               NEW visited1 \in SUBSET Item, n1 + 1 > Cardinality(Flag \ visited1),
               NEW visited2 \in SUBSET Item, n2 > Cardinality(Flag \ visited2),
               \A g \in visited1 \cup visited2 : ~Reaches(f, g),
               NEW s1, NEW s2, <<s1, s2>> \in Alike
        PROVE  /\ SameAnswer(Alike, m[n1 + 1][Call(f, visited1, s1)], m[n2][Call(f, visited2, s2)])
               /\ m[n1 + 1][Call(f, visited1, s1)].res \in Results
    <3>1. f \in Item /\ items[f] \in StoredFlags
      BY <1>1, <2>2, FlagsOfData
    <3>2. s1 \in States /\ s2 \in States /\ s1.endless = s2.endless
      BY <2>2, RelatedAre
    <3>3. n2 # 0 /\ n2 - 1 \in 0..MaxDepth /\ Cardinality(Flag \ visited2) \in Nat
      <4>1. Cardinality(Flag \ visited2) \in Nat
        BY <1>2
      <4> QED BY <1>1, <2>2, <4>1
    <3>4. FlagCall(m, items, c, n1 + 1, f, visited1, s1)
      BY <1>1, <2>1, <2>2, <3>1, <3>2, FlagCallIs
    <3>5. FlagCall(m, items, c, n2, f, visited2, s2)
      BY <1>1, <2>2, <3>1, <3>2, FlagCallIs
    <3>6. CASE s1.endless
      <4>1. /\ m[n1 + 1][Call(f, visited1, s1)] = Evaluated(Malformed, WithoutEnd(s1))
            /\ m[n2][Call(f, visited2, s2)] = Evaluated(Malformed, WithoutEnd(s2))
        BY <3>2, <3>4, <3>5, <3>6 DEF FlagCall
      <4>2. <<WithoutEnd(s1), WithoutEnd(s2)>> \in Alike
        BY <3>2, WithoutEndTyped, RelatedAre
      <4>3. SameAnswer(Alike, Evaluated(Malformed, WithoutEnd(s1)), Evaluated(Malformed, WithoutEnd(s2)))
        BY <1>4, <4>2, MalformedTyped, AnswerRelates DEF MaybeResults
      <4>4. Evaluated(Malformed, WithoutEnd(s1)).res = Malformed
        BY DEF Evaluated
      <4> QED BY <4>1, <4>3, <4>4, MalformedTyped
    <3>7. CASE ~s1.endless
      <4>1. /\ m[n1 + 1][Call(f, visited1, s1)] = EvaluateInternal(items, c, m[n1], f, visited1, s1)
            /\ m[n2][Call(f, visited2, s2)] = EvaluateInternal(items, c, m[n2 - 1], f, visited2, s2)
        BY <2>1, <3>2, <3>3, <3>4, <3>5, <3>7 DEF FlagCall
      <4>2. ASSUME NEW k \in 1..Len(items[f].prerequisites)
            PROVE  FlagRelates(Alike, items, items, m[n1], m[n2 - 1], visited1, visited2, items[f].prerequisites[k].key)
        <5> DEFINE g == items[f].prerequisites[k].key
        <5>1. g \in Flag
          <6>1. items[f].prerequisites[k] \in [key : Flag, variation : Nat]
            BY <3>1, PrerequisitesTyped
          <6> QED BY <6>1
        <5>2. g \in ComputeDependencies(items[f])
          BY <1>1, <2>2, ReferencesOf
        <5> HIDE DEF g
        <5>3. From(root, g) /\ g \in Item /\ Reaches(f, g)
          BY <1>1, <2>2, <3>1, <5>2, FromOn, ReachesFollows DEF From
        <5>4. g \notin visited1 /\ g \notin visited2
          BY <2>2, <5>3
        <5>5. SUFFICES ASSUME items[g] # NoItem, NEW p \in Alike
                       PROVE  /\ SameAnswer(Alike, m[n1][Call(g, Visiting(visited1, g), p[1])],
                                                   m[n2 - 1][Call(g, Visiting(visited2, g), p[2])])
                              /\ m[n1][Call(g, Visiting(visited1, g), p[1])].res \in Results
          BY <5>4 DEF FlagRelates, g
        <5>6. /\ Visiting(visited1, g) \in SUBSET Item /\ Visiting(visited1, g) = visited1 \cup {g}
              /\ Visiting(visited2, g) \in SUBSET Item /\ Visiting(visited2, g) = visited2 \cup {g}
          BY <5>3 DEF Visiting
        <5>7. n1 > Cardinality(Flag \ Visiting(visited1, g))
          <6>1. /\ Cardinality(Flag \ visited1) \in Nat /\ Cardinality(Flag \ (visited1 \cup {g})) \in Nat
                /\ Cardinality(Flag \ (visited1 \cup {g})) < Cardinality(Flag \ visited1)
            BY <1>1, <5>1, <5>4, OneLess
          <6>2. n1 \in Nat /\ n1 + 1 > Cardinality(Flag \ visited1)
            BY <1>1, <2>2
          <6> QED BY <5>6, <6>1, <6>2
        <5>8. n2 - 1 > Cardinality(Flag \ Visiting(visited2, g))
          <6>1. /\ Cardinality(Flag \ visited2) \in Nat /\ Cardinality(Flag \ (visited2 \cup {g})) \in Nat
                /\ Cardinality(Flag \ (visited2 \cup {g})) < Cardinality(Flag \ visited2)
            BY <1>1, <5>1, <5>4, OneLess
          <6>2. n2 \in Nat /\ n2 > Cardinality(Flag \ visited2)
            BY <1>1, <2>2
          <6> QED BY <5>6, <6>1, <6>2
        <5>9. \A x \in Visiting(visited1, g) \cup Visiting(visited2, g) : ~Reaches(g, x)
          <6>1. ~Reaches(g, g)
            BY <5>1, <5>3, NoneCircular
          <6>2. ASSUME NEW x \in visited1 \cup visited2 PROVE ~Reaches(g, x)
            BY <2>2, <3>1, <5>3, ReachesOn
          <6> QED BY <5>6, <6>1, <6>2
        <5>10. <<p[1], p[2]>> \in Alike
          BY DEF Alike
        <5>11. Independent(root, m, n1, n2 - 1)
          BY <1>5, <3>3
        <5> QED BY <5>1, <5>3, <5>5, <5>6, <5>7, <5>8, <5>9, <5>10, <5>11 DEF Independent
      <4>3. /\ SegmentsRelated(Alike, items, items, SegmentMatches(items, c), SegmentMatches(items, c))
            /\ RulesRelate(Alike, items, items, SegmentMatches(items, c), SegmentMatches(items, c), {}, items[f].rules)
        BY <1>1, <1>4, RulesAlike
      <4>4. FlagCallRelates(Alike, items, items, c, m[n1], m[n2 - 1], visited1, visited2, f)
        BY <3>1, <4>2, <4>3 DEF FlagCallRelates
      <4>5. FlagsRelated(Alike, items, items, m[n1], m[n2 - 1])
        BY <1>1, <1>4, <1>5, <3>3 DEF FlagsRelated, FlagLevels
      <4>6. /\ SameAnswer(Alike, EvaluateInternal(items, c, m[n1], f, visited1, s1),
                                 EvaluateInternal(items, c, m[n2 - 1], f, visited2, s2))
            /\ EvaluateInternal(items, c, m[n1], f, visited1, s1).res \in Results
        BY <1>4, <2>2, <4>4, <4>5, EvaluateInternalRelates
      <4> QED BY <4>1, <4>6
    <3> QED BY <3>6, <3>7
  <2>3. \A n2 \in 0..MaxDepth : Independent(root, m, n1 + 1, n2)
    <3> SUFFICES ASSUME NEW n2 \in 0..MaxDepth, NEW f, NEW visited1, NEW visited2, NEW s1, NEW s2,
                        f \in Flag, From(root, f), items[f] # NoItem,
                        visited1 \in SUBSET Item, n1 + 1 > Cardinality(Flag \ visited1),
                        visited2 \in SUBSET Item, n2 > Cardinality(Flag \ visited2),
                        \A g \in visited1 \cup visited2 : ~Reaches(f, g),
                        <<s1, s2>> \in Alike
                 PROVE  /\ SameAnswer(Alike, m[n1 + 1][Call(f, visited1, s1)], m[n2][Call(f, visited2, s2)])
                        /\ m[n1 + 1][Call(f, visited1, s1)].res \in Results
      BY DEF Independent
    <3> QED BY <2>2
  <2> QED BY <2>1, <2>3
<1>6. \A n1 \in 0..MaxDepth : n1 \in A
  <2> HIDE DEF A
  <2> QED BY <1>1, <1>3, <1>5, AllNumbersUpTo
<1> QED BY <1>6

-----------------------------------------------------------------------------
(* Prerequisites hold.                                                     *)
Served == {"TARGET_MATCH", "RULE_MATCH", "FALLTHROUGH"}

(* What failed prerequisites decide is not what targets and rules do.      *)
NotServed(check) == check.res # NoResult => check.res.kind \notin Served

(* The off variation is served as such, or there is none.                  *)
LEMMA GetOffVariationIs ==
  ASSUME NEW flag, NEW kind
  PROVE  \/ GetOffVariation(flag, kind).kind = kind
         \/ GetOffVariation(flag, kind).kind = "MALFORMED_FLAG" /\ GetOffVariation(flag, kind).error
  BY DEF GetOffVariation, GetVariation, Success, Malformed, ForError

(* The answer for a prerequisite that is checked.                          *)
AnswerBelow(below, g, visited, st) == below[Call(g, Visiting(visited, g), st)]

(* A prerequisite that lets the next ones decide.                          *)
PrerequisiteMet(data, below, prereq, visited, before, after) ==
  /\ prereq.key \notin visited /\ data[prereq.key] # NoItem
  /\ before \in Checks /\ before.res = NoResult
  /\ AnswerBelow(below, prereq.key, visited, before.st) \in Answers
  /\ ~AnswerBelow(below, prereq.key, visited, before.st).res.error
  /\ Met(prereq, AnswerBelow(below, prereq.key, visited, before.st).res)
  /\ after.st.endless = AnswerBelow(below, prereq.key, visited, before.st).st.endless

(* What is below a prerequisite is an answer.                              *)
LEMMA AnswerBelowTyped ==
  ASSUME NEW data \in StoredData, NEW below \in FlagAnswers(data), NEW g \in Flag, data[g] # NoItem,
         NEW visited \in SUBSET Item, NEW st \in States
  PROVE  AnswerBelow(below, g, visited, st) \in Answers
<1>1. g \in Item /\ g \in KeysOf(data, "flag") /\ DOMAIN data = Item
  BY FlagsOfData DEF StoredData
<1>2. Visiting(visited, g) \in SUBSET Item
  BY <1>1 DEF Visiting
<1>3. Call(g, Visiting(visited, g), st) \in CallsFor(data, "flag")
  BY <1>1, <1>2 DEF Call, CallsFor, States
<1> QED BY <1>3 DEF AnswerBelow, FlagAnswers

(* Either a check decides, but not as targets do, or the prerequisite is   *)
(* met.                                                                    *)
LEMMA CheckHolds ==
  ASSUME NEW data \in StoredData, NEW below \in FlagAnswers(data), NEW key \in Flag, data[key] \in StoredFlags,
         NEW prereq, prereq.key \in Flag, NEW visited \in SUBSET Item, NEW before \in Checks, NotServed(before),
         NEW after, after = CheckPrerequisite(data, below, key, prereq, visited, before)
  PROVE  /\ NotServed(after)
         /\ after.res = NoResult => after.go = before.go /\ PrerequisiteMet(data, below, prereq, visited, before, after)
<1> DEFINE g == prereq.key
           answer == AnswerBelow(below, g, visited, before.st)
           e == <<g, key, answer.res>>
<1>1. before.st \in States /\ before.go \in BOOLEAN /\ before.res \in MaybeResults
  BY DEF Checks
<1>2. Malformed \in Results /\ Malformed.kind = "MALFORMED_FLAG" /\ "MALFORMED_FLAG" \notin Served
  BY MalformedTyped DEF Malformed, ForError, Served
<1>3. ASSUME NEW st
      PROVE  /\ PrerequisiteFailed(data[key], st).res \in Results
             /\ PrerequisiteFailed(data[key], st).res.kind \notin Served
  <2> DEFINE r == GetOffVariation(data[key], "PREREQUISITE_FAILED")
  <2>1. "PREREQUISITE_FAILED" \in EvalReasons
    BY DEF EvalReasons
  <2>2. r \in Results
    BY <2>1, GetOffVariationTyped
  <2>3. r.kind = "PREREQUISITE_FAILED" \/ r.kind = "MALFORMED_FLAG"
    BY GetOffVariationIs
  <2>4. PrerequisiteFailed(data[key], st).res = r
    BY DEF PrerequisiteFailed
  <2> HIDE DEF r
  <2> QED BY <2>2, <2>3, <2>4 DEF Served
<1>4. CASE g \in visited
  <2>1. after = [before EXCEPT !.res = Malformed]
    BY <1>4 DEF CheckPrerequisite
  <2>2. after.res = Malformed
    BY <2>1 DEF Checks
  <2> QED BY <1>2, <2>2, ResultsDecide DEF NotServed
<1>5. CASE g \notin visited /\ data[g] = NoItem
  <2>1. after = PrerequisiteFailed(data[key], before.st)
    BY <1>5 DEF CheckPrerequisite
  <2> QED BY <1>3, <2>1, ResultsDecide DEF NotServed
<1>6. CASE g \notin visited /\ data[g] # NoItem
  <2>1. after = PrerequisiteResult(data, key, prereq, before, answer)
    BY <1>6 DEF CheckPrerequisite, AnswerBelow
  <2>2. answer \in Answers
    BY <1>1, <1>6, AnswerBelowTyped
  <2>3. answer.res \in Results /\ answer.st \in States
    BY <2>2 DEF Answers
  <2>4. e \in Events
    <3>1. key \in Item /\ g \in Item /\ answer.res \in EvalResults
      BY <2>3, FlagsOfData DEF Results
    <3> QED BY <3>1 DEF Events
  <2> DEFINE st == WithEvent(answer.st, e)
  <2>5. st \in States /\ st.endless = answer.st.endless
    BY <2>3, <2>4, WithEventTyped
  <2>6. after = IF answer.res.error THEN [go |-> FALSE, res |-> answer.res, st |-> st]
                ELSE IF ~Met(prereq, answer.res) THEN PrerequisiteFailed(data[key], st)
                ELSE [before EXCEPT !.st = st]
    BY <2>1 DEF PrerequisiteResult, WithEvent
  <2> HIDE DEF answer, st, e, g
  <2>7. CASE answer.res.error
    <3>1. after = [go |-> FALSE, res |-> answer.res, st |-> st]
      BY <2>6, <2>7
    <3>2. answer.res.kind = "MALFORMED_FLAG"
      BY <2>3, <2>7 DEF Results
    <3>3. after.res = answer.res
      BY <3>1
    <3> QED BY <1>2, <2>3, <3>2, <3>3, ResultsDecide DEF NotServed
  <2>8. CASE ~answer.res.error /\ ~Met(prereq, answer.res)
    <3>1. after = PrerequisiteFailed(data[key], st)
      BY <2>6, <2>8
    <3> QED BY <1>3, <3>1, ResultsDecide DEF NotServed
  <2>9. CASE ~answer.res.error /\ Met(prereq, answer.res)
    <3>1. after = [before EXCEPT !.st = st]
      BY <2>6, <2>9
    <3>2. after.res = before.res /\ after.go = before.go /\ after.st = st
      BY <3>1 DEF Checks
    <3>3. after.res = NoResult => PrerequisiteMet(data, below, prereq, visited, before, after)
      BY <1>6, <2>2, <2>5, <2>9, <3>2 DEF PrerequisiteMet, answer, g
    <3> QED BY <3>2, <3>3 DEF NotServed
  <2> QED BY <2>7, <2>8, <2>9
<1> QED BY <1>4, <1>5, <1>6

(* What has no end when it is asked has none when it is answered.          *)
EndlessStays(data, below) ==
  \A g \in Flag : \A visited \in SUBSET Item : \A st \in States :
    data[g] # NoItem /\ st.endless => AnswerBelow(below, g, visited, st).st.endless

(* A prerequisite that is met by an answer that has an end.                *)
MetInTheEnd(data, below, prereq, visited, st) ==
  /\ prereq.key \notin visited /\ data[prereq.key] # NoItem
  /\ st \in States /\ ~st.endless
  /\ ~AnswerBelow(below, prereq.key, visited, st).res.error
  /\ Met(prereq, AnswerBelow(below, prereq.key, visited, st).res)

(* So it is for the first n prerequisites.                                 *)
MetUpTo(a, data, below, key, visited, n) ==
  /\ NotServed(a[n])
  /\ a[n].res = NoResult => a[n].go
  /\ a[n].res = NoResult /\ ~a[n].st.endless =>
       \A k \in 1..n : MetInTheEnd(data, below, data[key].prerequisites[k], visited, a[k - 1].st)

(* One more.                                                               *)
LEMMA OneMoreMet ==
  ASSUME NEW data \in StoredData, NEW below \in FlagAnswers(data), EndlessStays(data, below),
         NEW key \in Flag, data[key] \in StoredFlags, NEW visited \in SUBSET Item, NEW st, NEW a,
         PrerequisitesSeries(a, data, below, key, visited, st),
         NEW n \in 0..Len(data[key].prerequisites), n < Len(data[key].prerequisites),
         MetUpTo(a, data, below, key, visited, n)
  PROVE  MetUpTo(a, data, below, key, visited, n + 1)
<1> DEFINE N == Len(data[key].prerequisites)
           prereq == data[key].prerequisites[n + 1]
           before == a[n]
           after == a[n + 1]
<1>1. N \in Nat /\ n \in Nat /\ n + 1 \in 1..N /\ n \in 0..N /\ (n + 1) - 1 = n
  <2>1. data[key].prerequisites \in Seq([key : Flag, variation : Nat])
    BY PrerequisitesTyped
  <2>2. N \in Nat
    BY <2>1, LenProperties
  <2> QED BY <2>2
<1>2. prereq.key \in Flag
  <2>1. prereq \in [key : Flag, variation : Nat]
    BY <1>1, PrerequisitesTyped
  <2> QED BY <2>1
<1>3. before \in Checks
  BY <1>1 DEF PrerequisitesSeries, CheckSeries
<1>4. CASE Stopped(before)
  <2>1. after = before
    BY <1>1, <1>4 DEF PrerequisitesSeries, CheckSeries
  <2>2. before.res # NoResult
    BY <1>4 DEF MetUpTo, Stopped
  <2> QED BY <2>1, <2>2 DEF MetUpTo
<1>5. CASE ~Stopped(before)
  <2>1. after = CheckOf(data, below, key, visited, n + 1, before)
    BY <1>1, <1>5 DEF PrerequisitesSeries
  <2>2. after = CheckPrerequisite(data, below, key, prereq, visited, before)
    BY <2>1 DEF CheckOf
  <2>3. NotServed(before)
    BY DEF MetUpTo
  <2> HIDE DEF prereq, before, after, N
  <2>4. /\ NotServed(after)
        /\ after.res = NoResult => after.go = before.go /\ PrerequisiteMet(data, below, prereq, visited, before, after)
    BY <1>2, <1>3, <2>2, <2>3, CheckHolds
  <2>5. ASSUME after.res = NoResult PROVE after.go
    BY <1>5, <2>4, <2>5 DEF Stopped
  <2>6. ASSUME after.res = NoResult, ~after.st.endless
        PROVE  MetInTheEnd(data, below, prereq, visited, before.st) /\ before.res = NoResult /\ ~before.st.endless
    <3>1. PrerequisiteMet(data, below, prereq, visited, before, after)
      BY <2>4, <2>6
    <3>2. before.st \in States
      BY <1>3 DEF Checks
    <3>3. ~before.st.endless
      BY <1>2, <2>6, <3>1, <3>2 DEF EndlessStays, PrerequisiteMet
    <3> QED BY <3>1, <3>2, <3>3 DEF MetInTheEnd, PrerequisiteMet
  <2>7. ASSUME after.res = NoResult, ~after.st.endless, NEW k \in 1..(n + 1)
        PROVE  MetInTheEnd(data, below, data[key].prerequisites[k], visited, a[k - 1].st)
    <3>1. CASE k = n + 1
      BY <1>1, <2>6, <2>7, <3>1 DEF prereq, before
    <3>2. CASE k # n + 1
      <4>1. k \in 1..n
        BY <1>1, <3>2
      <4> QED BY <2>6, <2>7, <4>1 DEF MetUpTo, before
    <3> QED BY <3>1, <3>2
  <2> QED BY <2>4, <2>5, <2>7 DEF MetUpTo, after
<1> QED BY <1>4, <1>5

(* All of them.                                                            *)
LEMMA PrerequisitesMet ==
  ASSUME NEW data \in StoredData, NEW below \in FlagAnswers(data), EndlessStays(data, below),
         NEW key \in Flag, data[key] \in StoredFlags, NEW visited \in SUBSET Item, NEW st \in States,
         NEW check, check = CheckPrerequisites(data, below, key, visited, st)
  PROVE  /\ check \in Checks /\ NotServed(check)
         /\ check.res = NoResult /\ ~check.st.endless =>
              \A n \in 1..Len(data[key].prerequisites) : \E s : MetInTheEnd(data, below, data[key].prerequisites[n], visited, s)
<1>1. PICK a : /\ PrerequisitesSeries(a, data, below, key, visited, st)
               /\ CheckPrerequisites(data, below, key, visited, st) = a[Len(data[key].prerequisites)]
  BY CheckPrerequisitesUnfolds
<1> DEFINE N == Len(data[key].prerequisites)
           S == {n \in 0..N : MetUpTo(a, data, below, key, visited, n)}
<1>2. N \in Nat
  <2>1. data[key].prerequisites \in Seq([key : Flag, variation : Nat])
    BY PrerequisitesTyped
  <2> QED BY <2>1, LenProperties
<1>3. 0 \in S
  <2>1. a[0] = Beginning(st)
    BY <1>1 DEF PrerequisitesSeries, CheckSeries
  <2>2. a[0].res = NoResult /\ a[0].go
    BY <2>1, BeginningTyped DEF Stopped
  <2> QED BY <1>2, <2>2 DEF MetUpTo, NotServed
<1>4. ASSUME NEW n \in 0..N, n \in S, n < N PROVE n + 1 \in S
  <2>1. MetUpTo(a, data, below, key, visited, n + 1)
    BY <1>1, <1>4, OneMoreMet
  <2> QED BY <1>2, <1>4, <2>1
<1>5. N \in 0..N /\ N \in S
  <2> HIDE DEF S, N
  <2>1. \A n \in 0..N : n \in S
    BY <1>2, <1>3, <1>4, AllNumbersUpTo
  <2> QED BY <1>2, <2>1
<1>6. MetUpTo(a, data, below, key, visited, N) /\ check = a[N]
  BY <1>1, <1>5
<1>7. check \in Checks
  BY <1>1, <1>5, <1>6 DEF PrerequisitesSeries, CheckSeries
<1> QED BY <1>6, <1>7 DEF MetUpTo

(* What it takes for a flag to be served by its targets, its rules or its  *)
(* fallthrough.                                                            *)
LEMMA ServedFlag ==
  ASSUME NEW data \in StoredData, NEW c \in Asked, NEW below \in FlagAnswers(data), EndlessStays(data, below),
         NEW key \in Flag, data[key] \in StoredFlags, NEW visited \in SUBSET Item, NEW st \in States,
         NEW answer, answer = EvaluateInternal(data, c, below, key, visited, st),
         answer.res.kind \in Served, ~answer.st.endless
  PROVE  \A n \in 1..Len(data[key].prerequisites) : \E s : MetInTheEnd(data, below, data[key].prerequisites[n], visited, s)
<1> DEFINE check == CheckPrerequisites(data, below, key, visited, st)
           target == EvalTargets(data[key], c)
<1>1. data[key].on
  <2>1. SUFFICES ASSUME ~data[key].on PROVE FALSE
    OBVIOUS
  <2>2. answer.res = GetOffVariation(data[key], "OFF")
    BY <2>1 DEF EvaluateInternal, Evaluated
  <2>3. answer.res.kind = "OFF" \/ answer.res.kind = "MALFORMED_FLAG"
    BY <2>2, GetOffVariationIs
  <2> QED BY <2>3 DEF Served
<1>2. answer = AfterPrerequisites(data, c, data[key], check, target)
  BY <1>1 DEF EvaluateInternal
<1>3. target \in MaybeResults
  BY EvalTargetsTyped
<1> HIDE DEF check, target
<1>4. /\ check \in Checks /\ NotServed(check)
      /\ check.res = NoResult /\ ~check.st.endless =>
           \A n \in 1..Len(data[key].prerequisites) : \E s : MetInTheEnd(data, below, data[key].prerequisites[n], visited, s)
  BY PrerequisitesMet DEF check
<1>5. check.res = NoResult
  <2>1. check.res # NoResult => answer.res = check.res
    BY <1>2 DEF AfterPrerequisites, Evaluated
  <2> QED BY <1>4, <2>1 DEF NotServed
<1>6. ~check.st.endless
  <2>1. SUFFICES ASSUME check.st.endless PROVE FALSE
    OBVIOUS
  <2>2. check.go \in BOOLEAN /\ check.res \in MaybeResults /\ check.st \in States
    BY <1>4 DEF Checks
  <2>3. Without \in SUBSET (States \X States) /\ KeptBySegments(Without) /\ EndsAlike(Without)
    BY RelatedKept, RelatedEndAlike DEF Without
  <2>4. <<check.st, check.st>> \in Without
    BY <2>1, <2>2, RelatedAre
  <2>5. SameCheck(Without, check, check)
    BY <1>4, <2>4 DEF SameCheck
  <2>6. /\ SegmentsRelated(Without, data, data, SegmentMatches(data, c), SegmentMatches(data, c))
        /\ RulesRelate(Without, data, data, SegmentMatches(data, c), SegmentMatches(data, c), {}, data[key].rules)
    BY <2>3, RulesAlike
  <2>7. SameAnswer(Without, AfterPrerequisites(data, c, data[key], check, target),
                            AfterPrerequisites(data, c, data[key], check, target))
    BY <1>3, <2>3, <2>5, <2>6, AfterPrerequisitesRelates
  <2>8. SameAnswer(Without, answer, answer)
    BY <1>2, <2>7
  <2>9. answer.st.endless
    BY <2>8, RelatedAre DEF SameAnswer
  <2> QED BY <2>9
<1> QED BY <1>4, <1>5, <1>6

(* Calls that have no end when they begin have none in the end.            *)
LEMMA LevelsStay ==
  ASSUME NEW data \in StoredData, NEW c, NEW m, FlagLevels(m, data, c), NEW n \in 0..MaxDepth
  PROVE  m[n] \in FlagAnswers(data) /\ EndlessStays(data, m[n])
<1>1. m[n] \in FlagAnswers(data)
  BY DEF FlagLevels
<1>2. ASSUME NEW g \in Flag, NEW visited \in SUBSET Item, NEW st \in States, data[g] # NoItem, st.endless
      PROVE  AnswerBelow(m[n], g, visited, st).st.endless
  <2>1. g \in Item /\ Visiting(visited, g) \in SUBSET Item
    BY FlagsOfData DEF Visiting
  <2>2. FlagCall(m, data, c, n, g, Visiting(visited, g), st)
    BY <1>2, <2>1, FlagCallIs
  <2>3. AnswerBelow(m[n], g, visited, st) = Evaluated(Malformed, WithoutEnd(st))
    BY <1>2, <2>2 DEF FlagCall, AnswerBelow
  <2>4. WithoutEnd(st).endless = TRUE
    BY WithoutEndTyped
  <2>5. Evaluated(Malformed, WithoutEnd(st)).st = WithoutEnd(st)
    BY DEF Evaluated
  <2> QED BY <2>3, <2>4, <2>5
<1> QED BY <1>1, <1>2 DEF EndlessStays

(* A prerequisite that is met is on, and would be what it is if it was     *)
(* asked for by itself.                                                    *)
LEMMA MetIsAnswered ==
  ASSUME TrackerFollows, ItemsReceived, NEW c \in Asked, NEW m, FlagLevels(m, items, c),
         NEW prereq, prereq.key \in Flag, NEW st, MetInTheEnd(items, m[MaxDepth - 1], prereq, {}, st)
  PROVE  /\ items[prereq.key].on
         /\ m[MaxDepth][Call(prereq.key, {}, EvalState)].res.variation = prereq.variation \/ ReachesCycle(prereq.key)
<1> DEFINE g == prereq.key
           answer == AnswerBelow(m[MaxDepth - 1], g, {}, st)
<1>1. MaxDepth \in Nat /\ IsFiniteSet(Flag) /\ items \in StoredData /\ g \in Item
  BY EnoughCalls, ItemsStored, ItemAssumption
<1>2. MaxDepth # 0 /\ MaxDepth \in 0..MaxDepth /\ MaxDepth - 1 \in 0..MaxDepth /\ MaxDepth - 1 > Cardinality(Flag \ {g})
  <2>1. /\ Cardinality(Flag \ {}) \in Nat /\ Cardinality(Flag \ ({} \cup {g})) \in Nat
        /\ Cardinality(Flag \ ({} \cup {g})) < Cardinality(Flag \ {})
    BY <1>1, OneLess
  <2>2. MaxDepth > Cardinality(Flag \ {}) /\ {} \cup {g} = {g}
    BY EnoughCalls
  <2> QED BY <1>1, <2>1, <2>2
<1>3. /\ items[g] # NoItem /\ st \in States /\ ~st.endless /\ ~answer.res.error /\ Met(prereq, answer.res)
  BY DEF MetInTheEnd
<1>4. items[g] \in StoredFlags
  BY <1>1, <1>3, FlagsOfData
<1>5. Visiting({}, g) = {g} /\ {g} \in SUBSET Item
  BY <1>1 DEF Visiting
<1>6. answer = m[MaxDepth - 1][Call(g, {g}, st)]
  BY <1>5 DEF AnswerBelow
<1>7. FlagCall(m, items, c, MaxDepth - 1, g, {g}, st)
  BY <1>1, <1>2, <1>3, <1>5, FlagCallIs
<1>8. answer = EvaluateInternal(items, c, m[(MaxDepth - 1) - 1], g, {g}, st)
  <2>1. answer = IF MaxDepth - 1 = 0 \/ st.endless THEN Evaluated(Malformed, WithoutEnd(st))
                 ELSE EvaluateInternal(items, c, m[(MaxDepth - 1) - 1], g, {g}, st)
    BY <1>6, <1>7 DEF FlagCall
  <2>2. Evaluated(Malformed, WithoutEnd(st)).res.error
    BY DEF Evaluated, Malformed, ForError
  <2> HIDE DEF answer
  <2> QED BY <1>3, <2>1, <2>2
<1>9. items[g].on
  <2>1. SUFFICES ASSUME ~items[g].on PROVE FALSE
    OBVIOUS
  <2>2. answer.res = GetOffVariation(items[g], "OFF")
    BY <1>8, <2>1 DEF EvaluateInternal, Evaluated
  <2> HIDE DEF answer
  <2> QED BY <1>3, <2>2, GetOffVariationIs DEF Met
<1>10. ASSUME ~ReachesCycle(g) PROVE m[MaxDepth][Call(g, {}, EvalState)].res = answer.res
  <2>1. Independent(g, m, MaxDepth - 1, MaxDepth)
    BY <1>2, <1>10, FlagsIndependent
  <2>2. From(g, g) /\ ~Reaches(g, g)
    BY <1>10, NoneCircular DEF From
  <2>3. <<st, EvalState>> \in Alike
    <3>1. st.endless = FALSE /\ EvalState.endless = FALSE /\ EvalState \in States
      BY <1>3, EvalStateTyped, Zenon DEF States, EvalStates
    <3> QED BY <1>3, <3>1, RelatedAre
  <2>4. MaxDepth > Cardinality(Flag \ {}) /\ {} \in SUBSET Item
    BY EnoughCalls
  <2>5. \A x \in {g} \cup {} : ~Reaches(g, x)
    BY <2>2
  <2>6. SameAnswer(Alike, m[MaxDepth - 1][Call(g, {g}, st)], m[MaxDepth][Call(g, {}, EvalState)])
    BY <1>2, <1>3, <1>5, <2>1, <2>2, <2>3, <2>4, <2>5 DEF Independent
  <2> QED BY <1>6, <2>6 DEF SameAnswer
<1> HIDE DEF answer
<1>11. answer.res.variation = prereq.variation
  BY <1>3 DEF Met
<1> QED BY <1>9, <1>10, <1>11

(* Prerequisites hold for what has been received.                          *)
LEMMA DataHolds == DataFollows => PrerequisitesHold
<1> SUFFICES ASSUME DataFollows, NEW c \in Asked, NEW f \in Flag, answers[c][f].res.kind \in Served,
                    ~Endless(answers[c][f].st), NEW p \in ToSet(items[f].prerequisites)
             PROVE  /\ items[p.key] # NoItem /\ items[p.key].on
                    /\ answers[c][p.key].res.variation = p.variation \/ ReachesCycle(p.key)
  BY DEF PrerequisitesHold, Served
<1>1. TrackerFollows /\ ItemsReceived /\ AnswersFollow /\ items \in StoredData
  BY ItemsStored DEF DataFollows
<1>2. items[f] # NoItem
  <2>1. SUFFICES ASSUME items[f] = NoItem PROVE FALSE
    OBVIOUS
  <2>2. answers[c][f] = Evaluated(ForError("FLAG_NOT_FOUND"), EvalState)
    BY <1>1, <2>1, WhatIsAnswered DEF AnswersFollow
  <2>3. answers[c][f].res.kind = "FLAG_NOT_FOUND"
    BY <2>2 DEF Evaluated, ForError
  <2> QED BY <2>3 DEF Served
<1>3. items[f] \in StoredFlags
  BY <1>1, <1>2, FlagsOfData
<1>4. PICK m : FlagLevels(m, items, c) /\ Evaluations(items, c) = m[MaxDepth]
  BY <1>1, EvaluationsUnfold
<1>5. ASSUME NEW g \in Flag, items[g] # NoItem PROVE answers[c][g] = m[MaxDepth][Call(g, {}, EvalState)]
  BY <1>1, <1>4, <1>5, WhatIsAnswered DEF AnswersFollow, Evaluate
<1>6. MaxDepth # 0 /\ MaxDepth \in 0..MaxDepth /\ MaxDepth - 1 \in 0..MaxDepth /\ {} \in SUBSET Item
  <2>1. MaxDepth \in Nat /\ MaxDepth > Cardinality(Flag \ {}) /\ Cardinality(Flag \ {}) \in Nat
    <3>1. IsFiniteSet(Flag \ {})
      BY EnoughCalls, FS_Subset
    <3> QED BY <3>1, EnoughCalls, FS_CardinalityType
  <2> QED BY <2>1
<1>7. EvalState \in States /\ ~EvalState.endless
  BY EvalStateTyped
<1>8. answers[c][f] = EvaluateInternal(items, c, m[MaxDepth - 1], f, {}, EvalState)
  <2>1. FlagCall(m, items, c, MaxDepth, f, {}, EvalState)
    BY <1>1, <1>2, <1>4, <1>6, <1>7, FlagCallIs
  <2> QED BY <1>2, <1>5, <1>6, <1>7, <2>1 DEF FlagCall
<1>9. m[MaxDepth - 1] \in FlagAnswers(items) /\ EndlessStays(items, m[MaxDepth - 1])
  BY <1>1, <1>4, <1>6, LevelsStay
<1>10. \A n \in 1..Len(items[f].prerequisites) :
         \E s : MetInTheEnd(items, m[MaxDepth - 1], items[f].prerequisites[n], {}, s)
  <2>1. PICK answer : answer = answers[c][f]
    OBVIOUS
  <2>2. answer = EvaluateInternal(items, c, m[MaxDepth - 1], f, {}, EvalState) /\ answer.res.kind \in Served /\ ~answer.st.endless
    BY <1>8, <2>1 DEF Endless
  <2> QED BY <1>1, <1>3, <1>6, <1>7, <1>9, <2>2, ServedFlag
<1>11. p \in [key : Flag, variation : Nat] /\ \E s : MetInTheEnd(items, m[MaxDepth - 1], p, {}, s)
  <2>1. items[f].prerequisites \in Seq([key : Flag, variation : Nat])
    BY <1>3, PrerequisitesTyped
  <2>2. PICK n \in 1..Len(items[f].prerequisites) : p = items[f].prerequisites[n]
    BY <2>1 DEF ToSet
  <2> QED BY <1>3, <1>10, <2>2, PrerequisitesTyped
<1>12. PICK s : MetInTheEnd(items, m[MaxDepth - 1], p, {}, s)
  BY <1>11
<1>13. p.key \in Flag /\ items[p.key] # NoItem
  BY <1>11, <1>12 DEF MetInTheEnd
<1>14. /\ items[p.key].on
       /\ m[MaxDepth][Call(p.key, {}, EvalState)].res.variation = p.variation \/ ReachesCycle(p.key)
  BY <1>1, <1>4, <1>12, <1>13, MetIsAnswered
<1> QED BY <1>5, <1>13, <1>14

(* A flag is served by its targets, rules or fallthrough only if its       *)
(* prerequisites are on and have the variations that are required, also if *)
(* they are asked for by themselves: PrerequisitesHold.                    *)
THEOREM PrerequisitesHoldEver == Spec => []PrerequisitesHold
  BY DataFollowsEver, DataHolds, PTL

-----------------------------------------------------------------------------
(* What a client is told with which it starts.                             *)
Running == [offline |-> FALSE, initialized |-> TRUE, storeInitialized |-> TRUE]

(* The last event of an answer is that of the flag itself.                 *)
LEMMA LastEvent ==
  ASSUME NEW data \in StoredData, NEW c \in Asked, c.valid, NEW f \in Flag, data[f] # NoItem
  PROVE  /\ Last(Variation(data, c, f, Running).events) = EvalEvent(data[f], f, Evaluate(data, c, f).res, "none", FALSE)
         /\ Last(VariationDetail(data, c, f, Running).events) =
              EvalEvent(data[f], f, Evaluate(data, c, f).res, "none", TRUE)
<1> DEFINE r == Evaluate(data, c, f)
<1>1. r \in Answers
  BY EvaluateTyped
<1>2. r.st.events \in Seq(Item \X Item \X EvalResults)
  BY <1>1 DEF Answers, States, EvalStates
<1> HIDE DEF r
<1>3. ASSUME NEW withReasons
      PROVE  Last(AnswerOf(data, f, r, withReasons).events) = EvalEvent(data[f], f, r.res, "none", withReasons)
  <2> DEFINE OfPrerequisite(e) == EvalEvent(data[e[1]], e[1], e[3], e[2], withReasons)
             before == [n \in DOMAIN r.st.events |-> OfPrerequisite(r.st.events[n])]
             own == EvalEvent(data[f], f, r.res, "none", withReasons)
             V == {OfPrerequisite(r.st.events[n]) : n \in DOMAIN r.st.events} \cup {own}
  <2>1. AnswerOf(data, f, r, withReasons).events = Append(before, own)
    BY DEF AnswerOf, Answer
  <2> HIDE DEF own, OfPrerequisite
  <2>2. DOMAIN r.st.events = 1..Len(r.st.events) /\ Len(r.st.events) \in Nat
    BY <1>2, LenProperties
  <2>3. before \in Seq(V)
    <3>1. before \in [1..Len(r.st.events) -> V]
      BY <2>2
    <3> QED BY <2>2, <3>1, SeqDef
  <2>4. own \in V
    OBVIOUS
  <2> HIDE DEF before, V
  <2>5. Len(Append(before, own)) = Len(before) + 1 /\ Append(before, own)[Len(before) + 1] = own
    BY <2>3, <2>4, AppendProperties
  <2> QED BY <2>1, <2>5 DEF Last, own
<1>4. ASSUME NEW withReasons
      PROVE  EvaluateIfPossible(data, c, f, withReasons, Running) = AnswerOf(data, f, r, withReasons)
  BY DEF EvaluateIfPossible, VariationInternal, Running, r
<1> QED BY <1>3, <1>4 DEF Variation, VariationDetail, r

(* What the client is told of a flag supports what the server does.        *)
LEMMA ToldSupports ==
  ASSUME NEW flags, NEW f \in DOMAIN flags, NEW flag, NEW res, NEW options,
         flags[f] = AddFlag(flag, res, options)
  PROVE  Supports(flags, f, EvalEvent(flag, f, res, "none", FALSE), EvalEvent(flag, f, res, "none", TRUE), options)
<1> DEFINE meta == AddFlag(flag, res, options)
           event == EvalEvent(flag, f, res, "none", FALSE)
           detailed == EvalEvent(flag, f, res, "none", TRUE)
           experiment == IsExperiment(flag, res)
           tracked == flag.trackEvents \/ experiment
           omit == OmitDetails(flag, tracked, experiment, options)
<1>1. /\ meta.variation = res.variation /\ meta.trackEvents = tracked /\ meta.trackReason = experiment
      /\ meta.versioned = ~omit
      /\ meta.reason = IF experiment \/ (options.withReasons /\ ~omit) THEN res.kind ELSE "none"
  BY DEF AddFlag
<1>2. /\ event.variation = res.variation /\ event.trackEvents = tracked /\ event.debug = flag.debugEventsUntilDate
      /\ event.reason = IF experiment THEN res.kind ELSE "none"
      /\ detailed.reason = res.kind
  BY DEF EvalEvent
<1>3. tracked \/ flag.debugEventsUntilDate => ~omit
  BY DEF OmitDetails
<1>0. flags[f] = meta
  OBVIOUS
<1> HIDE DEF meta, event, detailed, experiment, omit
<1>4. Supports(flags, f, event, detailed, options)
  BY <1>0, <1>1, <1>2, <1>3, Zenon DEF Supports
<1> QED BY <1>4 DEF event, detailed

(* So it is for the items that have been received.                         *)
LEMMA DataSupports == DataFollows => FlagsStateSupportsEvents
<1> SUFFICES ASSUME DataFollows, NEW c \in Asked, NEW f \in Present \cap Flag, NEW options \in Options, c.valid
             PROVE  Supports(AllFlagsState(items, c, options, Running).flags, f,
                             Last(Variation(items, c, f, Running).events),
                             Last(VariationDetail(items, c, f, Running).events), options)
  BY DEF FlagsStateSupportsEvents, Running
<1>1. items \in StoredData
  BY ItemsStored DEF DataFollows
<1> DEFINE shown == {key \in DOMAIN items : items[key].kind = "flag"
                       /\ (options.clientSideOnly => items[key].usingEnvironmentId)}
           flags == AllFlagsState(items, c, options, Running).flags
<1>2. flags = [key \in shown |-> AddFlag(items[key], Evaluate(items, c, key).res, options)]
  BY DEF AllFlagsState, FlagsState, Running
<1>3. f \in Item /\ f \in Flag /\ f \in DOMAIN items /\ items[f] # NoItem
  BY <1>1 DEF Present, StoredData
<1>4. items[f].kind = "flag"
  <2>1. items[f] \in Stored(f)
    BY <1>1, <1>3 DEF StoredData
  <2>2. items[f] \in StoredFlags
    BY <1>3, <2>1 DEF Stored
  <2> QED BY <2>2 DEF StoredFlags
<1>5. ~options.clientSideOnly
  BY DEF Options
<1>6. f \in DOMAIN flags /\ flags[f] = AddFlag(items[f], Evaluate(items, c, f).res, options)
  BY <1>2, <1>3, <1>4, <1>5
<1>7. /\ Last(Variation(items, c, f, Running).events) = EvalEvent(items[f], f, Evaluate(items, c, f).res, "none", FALSE)
      /\ Last(VariationDetail(items, c, f, Running).events) =
           EvalEvent(items[f], f, Evaluate(items, c, f).res, "none", TRUE)
  BY <1>1, <1>3, LastEvent
<1> HIDE DEF flags
<1>8. Supports(flags, f, EvalEvent(items[f], f, Evaluate(items, c, f).res, "none", FALSE),
               EvalEvent(items[f], f, Evaluate(items, c, f).res, "none", TRUE), options)
  BY <1>6, ToldSupports
<1> QED BY <1>7, <1>8 DEF flags

(* What allFlagsState tells a client lets it send the events that the      *)
(* server would: FlagsStateSupportsEvents.                                 *)
THEOREM FlagsStateSupportsEventsEver == Spec => []FlagsStateSupportsEvents
  BY DataFollowsEver, DataSupports, PTL

-----------------------------------------------------------------------------
(* The order in which items are handed to a persistent store.              *)
Sortings(K) == [unvisited : SUBSET K, sorted : Seq(K)]

SortVisits(K, all) == [Sortings(K) -> [all -> Sortings(K)]]

(* What the sorting has for each key that is visited.                      *)
VisitSeries(a, K, visit, acc, keys) ==
  /\ a \in [0..Len(keys) -> Sortings(K)] /\ a[0] = acc
  /\ \A n \in 1..Len(keys) : a[n] = visit[a[n - 1]][keys[n]]

(* Keys are visited one after the other.                                   *)
LEMMA VisitEachUnfolds ==
  ASSUME NEW K, NEW all, NEW visit \in SortVisits(K, all), NEW acc \in Sortings(K), NEW keys \in Seq(all)
  PROVE  \E a : VisitSeries(a, K, visit, acc, keys) /\ VisitEach(visit, acc, keys) = a[Len(keys)]
<1> DEFINE N == Len(keys)
           V == Sortings(K)
           F == [n \in 1..N |-> [v \in V |-> visit[v][keys[n]]]]
           P(a) == a = [n \in 0..N |-> IF n = 0 THEN acc ELSE visit[a[n - 1]][keys[n]]]
           after == CHOOSE a : P(a)
<1>1. N \in Nat
  BY LenProperties
<1>2. VisitEach(visit, acc, keys) = after[N]
  BY DEF VisitEach
<1>3. ASSUME NEW n \in 1..N, NEW v \in V PROVE visit[v][keys[n]] \in V
  <2>1. keys[n] \in all
    BY ElementOfSeq
  <2>2. visit[v] \in [all -> V]
    BY DEF SortVisits
  <2> QED BY <2>1, <2>2
<1> HIDE DEF N, V
<1>4. F \in [1..N -> [V -> V]] /\ \A n \in 1..N : \A v \in V : F[n][v] = visit[v][keys[n]]
  BY <1>3
<1> HIDE DEF F
<1>5. PICK a \in [0..N -> V] : RecursionTo(N, F, acc, a)
  <2> HIDE DEF P, after
  <2> QED BY <1>1, <1>4, BoundedRecursion DEF V
<1>6. ASSUME NEW n \in 0..N PROVE a[n] = IF n = 0 THEN acc ELSE visit[a[n - 1]][keys[n]]
  <2> HIDE DEF P, after
  <2>1. CASE n = 0
    BY <1>5, <2>1 DEF RecursionTo
  <2>2. CASE n # 0
    <3>1. n \in 1..N /\ n - 1 \in 0..N
      BY <1>1, <2>2
    <3>2. a[n - 1] \in V /\ a[n] = F[n][a[n - 1]]
      BY <1>5, <2>2, <3>1 DEF RecursionTo
    <3> QED BY <1>4, <2>2, <3>1, <3>2
  <2> QED BY <2>1, <2>2
<1>7. P(a)
  BY <1>6
<1>8. P(after)
  BY <1>7
<1> HIDE DEF after
<1>9. after = [n \in 0..N |-> after[n]] /\ \A n \in 0..N : after[n] = IF n = 0 THEN acc ELSE visit[after[n - 1]][keys[n]]
  BY <1>8
<1> HIDE DEF P
<1>10. \A n \in 0..N : after[n] \in V
  <2> DEFINE A == {n \in 0..N : after[n] \in V}
  <2>1. 0 \in A
    BY <1>1, <1>9 DEF V
  <2>2. ASSUME NEW n \in 0..N, n \in A, n < N PROVE n + 1 \in A
    <3>1. n + 1 \in 1..N /\ (n + 1) - 1 = n /\ n + 1 \in 0..N /\ n + 1 # 0
      BY <1>1, <2>2
    <3>2. after[n + 1] = visit[after[n]][keys[n + 1]]
      BY <1>9, <3>1
    <3> QED BY <1>3, <2>2, <3>1, <3>2
  <2> HIDE DEF A
  <2>3. \A n \in 0..N : n \in A
    BY <1>1, <2>1, <2>2, AllNumbersUpTo
  <2> QED BY <2>3 DEF A
<1>11. VisitSeries(after, K, visit, acc, keys)
  <2>1. \A n \in 1..N : n \in 0..N /\ n # 0
    BY <1>1
  <2>2. 0 \in 0..N
    BY <1>1
  <2> QED BY <1>9, <1>10, <2>1, <2>2 DEF VisitSeries, N, V
<1> QED BY <1>2, <1>11 DEF N

(* Prerequisites have keys among all that there are.                       *)
KeysListed(K, all, prerequisites) == K \subseteq all /\ \A k \in K : prerequisites[k] \in Seq(all)

(* A visit of a key sorts.                                                 *)
LEMMA VisitTyped ==
  ASSUME NEW K, NEW all, NEW prerequisites, KeysListed(K, all, prerequisites),
         NEW visit \in SortVisits(K, all), NEW acc \in Sortings(K), NEW key \in all
  PROVE  Visit(visit, prerequisites, acc, key) \in Sortings(K)
<1>1. CASE key \notin acc.unvisited
  BY <1>1 DEF Visit
<1>2. CASE key \in acc.unvisited
  <2> DEFINE first == [acc EXCEPT !.unvisited = @ \ {key}]
             after == VisitEach(visit, first, prerequisites[key])
  <2>1. key \in K /\ first \in Sortings(K) /\ prerequisites[key] \in Seq(all)
    BY <1>2 DEF Sortings, KeysListed
  <2>2. Visit(visit, prerequisites, acc, key) = [after EXCEPT !.sorted = Append(@, key)]
    BY <1>2 DEF Visit
  <2> HIDE DEF first
  <2>3. PICK a : VisitSeries(a, K, visit, first, prerequisites[key]) /\ after = a[Len(prerequisites[key])]
    BY <2>1, VisitEachUnfolds
  <2>4. Len(prerequisites[key]) \in 0..Len(prerequisites[key])
    BY <2>1, LenProperties
  <2> HIDE DEF after
  <2>5. after \in Sortings(K)
    BY <2>3, <2>4 DEF VisitSeries
  <2>6. Append(after.sorted, key) \in Seq(K)
    BY <2>1, <2>5, AppendProperties DEF Sortings
  <2> QED BY <2>2, <2>5, <2>6 DEF Sortings
<1> QED BY <1>1, <1>2

(* Visits with at most so many in each other.                              *)
SortLevels(w, K, all, prerequisites) ==
  /\ w \in [Nat -> SortVisits(K, all)]
  /\ \A n \in Nat : \A acc \in Sortings(K) : \A key \in all :
       w[n][acc][key] = IF n = 0 THEN acc ELSE Visit(w[n - 1], prerequisites, acc, key)

AllKeys(keys, prerequisites) == ToSet(keys) \cup UNION {ToSet(prerequisites[key]) : key \in ToSet(keys)}

(* The sorting is one of them.                                             *)
LEMMA SortUnfolds ==
  ASSUME NEW keys, NEW prerequisites, KeysListed(ToSet(keys), AllKeys(keys, prerequisites), prerequisites)
  PROVE  \E w : /\ SortLevels(w, ToSet(keys), AllKeys(keys, prerequisites), prerequisites)
                /\ TopologicalSort(keys, prerequisites) =
                     VisitEach(w[Len(keys)], [unvisited |-> ToSet(keys), sorted |-> <<>>], keys).sorted
<1> DEFINE K == ToSet(keys)
           all == AllKeys(keys, prerequisites)
           V == SortVisits(K, all)
           S == Sortings(K)
           Level0 == [acc \in S |-> [key \in all |-> acc]]
           Step(v) == [acc \in S |-> [key \in all |-> Visit(v, prerequisites, acc, key)]]
           F == [n \in Nat |-> [v \in V |-> Step(v)]]
           P(w) == w = [n \in Nat |-> [acc \in S |-> [key \in all |->
                         IF n = 0 THEN acc ELSE Visit(w[n - 1], prerequisites, acc, key)]]]
           visits == CHOOSE w : P(w)
<1>1. TopologicalSort(keys, prerequisites) =
        VisitEach(visits[Len(keys)], [unvisited |-> K, sorted |-> <<>>], keys).sorted
  BY DEF TopologicalSort, Sortings, AllKeys
<1> HIDE DEF K, all, S
<1>2. V = [S -> [all -> S]]
  BY DEF SortVisits, S
<1>3. ASSUME NEW v \in V, NEW acc \in S, NEW key \in all PROVE Visit(v, prerequisites, acc, key) \in S
  BY VisitTyped DEF S, K, all
<1> HIDE DEF V
<1>4. Level0 \in V
  BY <1>2
<1>5. ASSUME NEW v \in V PROVE Step(v) \in V
  BY <1>2, <1>3
<1>6. F \in [Nat -> [V -> V]] /\ \A n \in Nat : \A v \in V : F[n][v] = Step(v)
  <2> HIDE DEF Step
  <2> QED BY <1>5
<1> HIDE DEF F
<1>7. PICK w \in [Nat -> V] : Recursion(F, Level0, w)
  <2> HIDE DEF Level0
  <2> QED BY <1>4, <1>6, NatRecursion
<1>8. ASSUME NEW n \in Nat
      PROVE  w[n] = [acc \in S |-> [key \in all |-> IF n = 0 THEN acc ELSE Visit(w[n - 1], prerequisites, acc, key)]]
  <2>1. CASE n = 0
    <3>1. w[n] = Level0
      BY <1>7, <2>1 DEF Recursion
    <3> QED BY <2>1, <3>1
  <2>2. CASE n # 0
    <3>1. n - 1 \in Nat
      BY <2>2
    <3>2. w[n] = F[n][w[n - 1]] /\ w[n - 1] \in V
      BY <1>7, <2>2, <3>1 DEF Recursion
    <3>3. w[n] = Step(w[n - 1])
      BY <1>6, <3>2
    <3> QED BY <2>2, <3>3
  <2> QED BY <2>1, <2>2
<1>9. P(w)
  <2>1. w = [n \in Nat |-> w[n]]
    BY <1>7
  <2> QED BY <1>8, <2>1
<1>10. P(visits)
  BY <1>9
<1> HIDE DEF visits
<1>11. ASSUME NEW n \in Nat
       PROVE  visits[n] = [acc \in S |-> [key \in all |-> IF n = 0 THEN acc ELSE Visit(visits[n - 1], prerequisites, acc, key)]]
  BY <1>10
<1>12. visits = [n \in Nat |-> visits[n]]
  BY <1>10
<1> HIDE DEF P
<1>13. ASSUME NEW n \in Nat, NEW acc \in S, NEW key \in all
       PROVE  visits[n][acc][key] = IF n = 0 THEN acc ELSE Visit(visits[n - 1], prerequisites, acc, key)
  <2>1. visits[n] = [x \in S |-> [y \in all |-> IF n = 0 THEN x ELSE Visit(visits[n - 1], prerequisites, x, y)]]
    BY <1>11
  <2> QED BY <2>1
<1>14. \A n \in Nat : visits[n] \in V
  <2> DEFINE A == {n \in Nat : visits[n] \in V}
  <2>1. 0 \in A
    <3>1. visits[0] = Level0
      <4>1. visits[0] = [acc \in S |-> [key \in all |-> IF 0 = 0 THEN acc ELSE Visit(visits[0 - 1], prerequisites, acc, key)]]
        BY <1>11
      <4> QED BY <4>1
    <3> QED BY <1>4, <3>1
  <2>2. ASSUME NEW n \in A PROVE n + 1 \in A
    <3>1. n \in Nat /\ n + 1 \in Nat /\ (n + 1) - 1 = n /\ n + 1 # 0 /\ visits[n] \in V
      BY <2>2
    <3>2. visits[n + 1] = Step(visits[n])
      <4>1. visits[n + 1] = [acc \in S |-> [key \in all |->
                               IF n + 1 = 0 THEN acc ELSE Visit(visits[(n + 1) - 1], prerequisites, acc, key)]]
        BY <1>11, <3>1
      <4> QED BY <3>1, <4>1
    <3> HIDE DEF Step
    <3> QED BY <1>5, <3>1, <3>2
  <2>3. A = Nat
    <3> HIDE DEF A
    <3>1. A \in SUBSET Nat
      BY DEF A
    <3> QED BY <2>1, <2>2, <3>1, AllNumbers
  <2> QED BY <2>3
<1>15. visits \in [Nat -> V]
  BY <1>12, <1>14
<1>16. SortLevels(visits, K, all, prerequisites)
  BY <1>13, <1>15 DEF SortLevels, V, S
<1> QED BY <1>1, <1>16 DEF K, all

Once(s) == \A m, n \in 1..Len(s) : s[m] = s[n] => m = n

(* Each key comes after its prerequisites unless they refer back to it, of *)
(* which R knows.                                                          *)
InOrder(s, K, prerequisites, R) ==
  \A n \in 1..Len(s) : \A y \in K :
    y \in ToSet(prerequisites[s[n]]) => (\E m \in 1..(n - 1) : s[m] = y) \/ <<y, s[n]>> \in R

(* A key more at the end.                                                  *)
LEMMA OneMoreSorted ==
  ASSUME NEW K, NEW prerequisites, NEW R, NEW s \in Seq(K), NEW key \in K, key \notin ToSet(s),
         Once(s), InOrder(s, K, prerequisites, R),
         \A y \in K : y \in ToSet(prerequisites[key]) => y \in ToSet(s) \/ <<y, key>> \in R
  PROVE  /\ Append(s, key) \in Seq(K) /\ ToSet(Append(s, key)) = ToSet(s) \cup {key}
         /\ Once(Append(s, key)) /\ InOrder(Append(s, key), K, prerequisites, R)
<1> DEFINE N == Len(s)
           r == Append(s, key)
<1>1. N \in Nat /\ DOMAIN s = 1..N
  BY LenProperties
<1>2. /\ r \in Seq(K) /\ Len(r) = N + 1 /\ DOMAIN r = 1..(N + 1) /\ r[N + 1] = key
      /\ \A n \in 1..N : r[n] = s[n]
  <2>1. r \in Seq(K) /\ Len(r) = N + 1 /\ r[N + 1] = key /\ \A n \in 1..N : r[n] = s[n]
    BY AppendProperties
  <2> HIDE DEF r
  <2> QED BY <2>1, LenProperties
<1> HIDE DEF r, N
<1>3. \A y : y \in ToSet(s) <=> \E n \in 1..N : s[n] = y
  BY <1>1 DEF ToSet
<1>4. \A y : y \in ToSet(r) <=> \E n \in 1..(N + 1) : r[n] = y
  BY <1>2 DEF ToSet
<1>5. ToSet(r) = ToSet(s) \cup {key}
  BY <1>1, <1>2, <1>3, <1>4
<1>6. Once(r)
  <2>1. ASSUME NEW m \in 1..(N + 1), NEW n \in 1..(N + 1), r[m] = r[n] PROVE m = n
    <3>1. CASE m \in 1..N /\ n \in 1..N
      BY <1>2, <2>1, <3>1 DEF Once, N
    <3>2. CASE ~(m \in 1..N /\ n \in 1..N)
      BY <1>1, <1>2, <1>3, <2>1, <3>2
    <3> QED BY <3>1, <3>2
  <2> QED BY <1>2, <2>1 DEF Once
<1>7. InOrder(r, K, prerequisites, R)
  <2>1. ASSUME NEW n \in 1..(N + 1), NEW y \in K, y \in ToSet(prerequisites[r[n]])
        PROVE  (\E m \in 1..(n - 1) : r[m] = y) \/ <<y, r[n]>> \in R
    <3>1. CASE n = N + 1
      <4>1. r[n] = key
        BY <1>2, <3>1
      <4>2. y \in ToSet(s) \/ <<y, key>> \in R
        BY <2>1, <4>1
      <4>3. CASE y \in ToSet(s)
        <5>1. PICK m \in 1..N : s[m] = y
          BY <1>3, <4>3
        <5>2. m \in 1..(n - 1) /\ r[m] = y
          BY <1>1, <1>2, <3>1, <5>1
        <5> QED BY <5>2
      <4> QED BY <4>1, <4>2, <4>3
    <3>2. CASE n # N + 1
      <4>1. n \in 1..N /\ r[n] = s[n]
        BY <1>1, <1>2, <3>2
      <4>2. (\E m \in 1..(n - 1) : s[m] = y) \/ <<y, s[n]>> \in R
        BY <2>1, <4>1 DEF InOrder, N
      <4>3. \A m \in 1..(n - 1) : r[m] = s[m]
        BY <1>1, <1>2, <4>1
      <4> QED BY <4>1, <4>2, <4>3
    <3> QED BY <3>1, <3>2
  <2> QED BY <1>2, <2>1 DEF InOrder
<1> QED BY <1>2, <1>5, <1>6, <1>7 DEF r

(* G are the keys whose visits a visit is in.                              *)
Sorted(acc, G, K, prerequisites, R) ==
  /\ acc \in Sortings(K) /\ G \in SUBSET K
  /\ K = acc.unvisited \cup G \cup ToSet(acc.sorted)
  /\ acc.unvisited \cap G = {} /\ acc.unvisited \cap ToSet(acc.sorted) = {} /\ G \cap ToSet(acc.sorted) = {}
  /\ Once(acc.sorted) /\ InOrder(acc.sorted, K, prerequisites, R)

(* A visit of a key that all of them refer to.                             *)
VisitSorts(after, acc, key, G, K, prerequisites, R) ==
  Sorted(after, G, K, prerequisites, R) /\ after.unvisited \subseteq acc.unvisited \ {key}

VisitsSort(visit, n, K, all, prerequisites, R) ==
  \A acc \in Sortings(K) : \A key \in all : \A G \in SUBSET K :
    /\ Sorted(acc, G, K, prerequisites, R) /\ \A g \in G : <<g, key>> \in R
    /\ n >= Cardinality(acc.unvisited)
    => VisitSorts(visit[acc][key], acc, key, G, K, prerequisites, R)

(* Several keys that all of them refer to.                                 *)
EachReferred(G, keys, R) == \A g \in G : \A m \in 1..Len(keys) : <<g, keys[m]>> \in R

EachSorted(after, acc, keys, G, K, prerequisites, R) ==
  Sorted(after, G, K, prerequisites, R) /\ after.unvisited \subseteq acc.unvisited \ ToSet(keys)

(* They are visited one after the other.                                   *)
LEMMA VisitsOfEachSort ==
  ASSUME NEW K, IsFiniteSet(K), NEW all, NEW prerequisites, NEW R, NEW visit \in SortVisits(K, all), NEW n \in Nat,
         VisitsSort(visit, n, K, all, prerequisites, R),
         NEW acc, NEW G, Sorted(acc, G, K, prerequisites, R), n >= Cardinality(acc.unvisited),
         NEW keys \in Seq(all), EachReferred(G, keys, R)
  PROVE  EachSorted(VisitEach(visit, acc, keys), acc, keys, G, K, prerequisites, R)
<1> DEFINE N == Len(keys)
<1>1. N \in Nat /\ N \in 0..N /\ DOMAIN keys = 1..N
  BY LenProperties
<1>2. acc \in Sortings(K) /\ acc.unvisited \in SUBSET K /\ G \in SUBSET K
  BY DEF Sorted, Sortings
<1>3. PICK a : VisitSeries(a, K, visit, acc, keys) /\ VisitEach(visit, acc, keys) = a[N]
  BY <1>2, VisitEachUnfolds
<1> DEFINE A == {i \in 0..N : /\ Sorted(a[i], G, K, prerequisites, R)
                              /\ a[i].unvisited \subseteq acc.unvisited \ {keys[m] : m \in 1..i}}
<1>4. 0 \in A
  <2>1. a[0] = acc
    BY <1>3 DEF VisitSeries
  <2> QED BY <1>1, <2>1
<1>5. ASSUME NEW i \in 0..N, i \in A, i < N PROVE i + 1 \in A
  <2>1. i + 1 \in 1..N /\ i + 1 \in 0..N /\ (i + 1) - 1 = i
    BY <1>1, <1>5
  <2>2. a[i + 1] = visit[a[i]][keys[i + 1]] /\ a[i] \in Sortings(K)
    BY <1>1, <1>3, <2>1 DEF VisitSeries
  <2>3. keys[i + 1] \in all
    BY <2>1, ElementOfSeq
  <2>4. Sorted(a[i], G, K, prerequisites, R) /\ a[i].unvisited \subseteq acc.unvisited \ {keys[m] : m \in 1..i}
    BY <1>5
  <2>5. n >= Cardinality(a[i].unvisited)
    <3>1. IsFiniteSet(acc.unvisited)
      BY <1>2, FS_Subset
    <3>2. a[i].unvisited \in SUBSET acc.unvisited
      BY <2>4
    <3>3. Cardinality(a[i].unvisited) <= Cardinality(acc.unvisited) /\ IsFiniteSet(a[i].unvisited)
      BY <3>1, <3>2, FS_Subset
    <3>4. Cardinality(a[i].unvisited) \in Nat /\ Cardinality(acc.unvisited) \in Nat
      BY <3>1, <3>3, FS_CardinalityType
    <3> QED BY <3>3, <3>4
  <2>6. VisitSorts(a[i + 1], a[i], keys[i + 1], G, K, prerequisites, R)
    BY <1>2, <2>1, <2>2, <2>3, <2>4, <2>5 DEF VisitsSort, EachReferred
  <2>7. \A m \in 1..(i + 1) : m \in 1..i \/ m = i + 1
    BY <1>1
  <2>8. a[i + 1].unvisited \subseteq acc.unvisited \ {keys[m] : m \in 1..(i + 1)}
    BY <2>4, <2>6, <2>7 DEF VisitSorts
  <2> QED BY <2>1, <2>6, <2>8 DEF VisitSorts
<1>6. N \in A
  <2> HIDE DEF A
  <2>1. \A i \in 0..N : i \in A
    BY <1>1, <1>4, <1>5, AllNumbersUpTo
  <2> QED BY <1>1, <2>1
<1>7. ToSet(keys) = {keys[m] : m \in 1..N}
  BY <1>1 DEF ToSet
<1> QED BY <1>3, <1>6, <1>7 DEF EachSorted

(* R has for each key what it refers to, and what that refers to.          *)
Referred(K, prerequisites, R) ==
  \A x \in K : /\ \A y \in ToSet(prerequisites[x]) : <<x, y>> \in R
               /\ \A y \in K : <<x, y>> \in R => \A z \in ToSet(prerequisites[y]) : <<x, z>> \in R

(* A visit, with one more in it.                                           *)
LEMMA OneMoreVisit ==
  ASSUME NEW K, IsFiniteSet(K), NEW all, NEW prerequisites, KeysListed(K, all, prerequisites),
         NEW R, Referred(K, prerequisites, R), NEW visit \in SortVisits(K, all), NEW n \in Nat,
         VisitsSort(visit, n, K, all, prerequisites, R),
         NEW acc, NEW key \in all, NEW G, Sorted(acc, G, K, prerequisites, R), \A g \in G : <<g, key>> \in R,
         n + 1 >= Cardinality(acc.unvisited)
  PROVE  VisitSorts(Visit(visit, prerequisites, acc, key), acc, key, G, K, prerequisites, R)
<1>1. CASE key \notin acc.unvisited
  BY <1>1 DEF Visit, VisitSorts
<1>2. CASE key \in acc.unvisited
  <2> DEFINE first == [acc EXCEPT !.unvisited = @ \ {key}]
             after == VisitEach(visit, first, prerequisites[key])
             result == [after EXCEPT !.sorted = Append(@, key)]
             H == G \cup {key}
             keys == prerequisites[key]
  <2>1. acc \in Sortings(K) /\ acc.unvisited \in SUBSET K /\ acc.sorted \in Seq(K) /\ key \in K
    BY <1>2 DEF Sorted, Sortings
  <2>2. first \in Sortings(K) /\ first.unvisited = acc.unvisited \ {key} /\ first.sorted = acc.sorted
    BY <2>1 DEF Sortings
  <2>3. Visit(visit, prerequisites, acc, key) = result
    BY <1>2 DEF Visit
  <2>4. keys \in Seq(all) /\ \A y : y \in ToSet(keys) <=> \E m \in 1..Len(keys) : keys[m] = y
    <3>1. keys \in Seq(all)
      BY <2>1 DEF KeysListed
    <3>2. DOMAIN keys = 1..Len(keys)
      BY <3>1, LenProperties
    <3> QED BY <3>1, <3>2 DEF ToSet
  <2> HIDE DEF first, keys
  <2>5. Sorted(first, H, K, prerequisites, R)
    BY <1>2, <2>1, <2>2 DEF Sorted
  <2>6. n >= Cardinality(first.unvisited)
    <3>1. IsFiniteSet(acc.unvisited)
      BY <2>1, FS_Subset
    <3>2. Cardinality(acc.unvisited \ {key}) = Cardinality(acc.unvisited) - 1 /\ Cardinality(acc.unvisited) \in Nat
      BY <1>2, <3>1, FS_RemoveElement, FS_CardinalityType
    <3> QED BY <2>2, <3>2
  <2>7. \A g \in H : \A y \in ToSet(keys) : <<g, y>> \in R
    BY <2>1 DEF Referred, keys, Sorted
  <2>8. Sorted(after, H, K, prerequisites, R) /\ after.unvisited \subseteq first.unvisited \ ToSet(keys)
    <3>1. EachReferred(H, keys, R)
      BY <2>4, <2>7 DEF EachReferred
    <3>2. after = VisitEach(visit, first, keys)
      BY DEF keys
    <3>3. keys \in Seq(all) /\ Sorted(first, H, K, prerequisites, R) /\ n >= Cardinality(first.unvisited)
      BY <2>4, <2>5, <2>6
    <3> HIDE DEF after, H, result
    <3>4. EachSorted(VisitEach(visit, first, keys), first, keys, H, K, prerequisites, R)
      BY <3>1, <3>3, VisitsOfEachSort
    <3> QED BY <3>2, <3>4 DEF EachSorted
  <2> HIDE DEF after
  <2>9. after \in Sortings(K) /\ after.sorted \in Seq(K) /\ after.unvisited \in SUBSET K
    BY <2>8 DEF Sorted, Sortings
  <2>10. key \notin ToSet(after.sorted) /\ Once(after.sorted) /\ InOrder(after.sorted, K, prerequisites, R)
    BY <2>8 DEF Sorted
  <2>11. ASSUME NEW y \in K, y \in ToSet(prerequisites[key]) PROVE y \in ToSet(after.sorted) \/ <<y, key>> \in R
    <3>1. y \notin after.unvisited
      BY <2>8, <2>11 DEF keys
    <3>2. y \in G \/ y = key \/ y \in ToSet(after.sorted)
      BY <2>8, <3>1 DEF Sorted
    <3>3. y = key => <<y, key>> \in R
      BY <2>1, <2>11 DEF Referred
    <3> QED BY <3>2, <3>3
  <2>12. /\ Append(after.sorted, key) \in Seq(K) /\ ToSet(Append(after.sorted, key)) = ToSet(after.sorted) \cup {key}
         /\ Once(Append(after.sorted, key)) /\ InOrder(Append(after.sorted, key), K, prerequisites, R)
    BY <2>1, <2>9, <2>10, <2>11, OneMoreSorted
  <2>13. result \in Sortings(K) /\ result.unvisited = after.unvisited /\ result.sorted = Append(after.sorted, key)
    BY <2>9, <2>12 DEF Sortings
  <2> HIDE DEF result
  <2>14. G \in SUBSET K /\ key \notin G
    BY <1>2 DEF Sorted
  <2>15. /\ K = after.unvisited \cup H \cup ToSet(after.sorted)
         /\ after.unvisited \cap H = {} /\ after.unvisited \cap ToSet(after.sorted) = {} /\ H \cap ToSet(after.sorted) = {}
    BY <2>8 DEF Sorted
  <2>16. Sorted(result, G, K, prerequisites, R)
    <3>1. K = result.unvisited \cup G \cup ToSet(result.sorted)
      BY <2>12, <2>13, <2>15
    <3>2. /\ result.unvisited \cap G = {} /\ result.unvisited \cap ToSet(result.sorted) = {}
          /\ G \cap ToSet(result.sorted) = {}
      BY <2>12, <2>13, <2>14, <2>15
    <3> QED BY <2>12, <2>13, <2>14, <3>1, <3>2 DEF Sorted
  <2>17. result.unvisited \subseteq acc.unvisited \ {key}
    BY <2>2, <2>8, <2>13
  <2> QED BY <2>3, <2>16, <2>17 DEF VisitSorts
<1> QED BY <1>1, <1>2

(* Visits with as many in each other as there are keys to visit.           *)
LEMMA LevelsSort ==
  ASSUME NEW K, IsFiniteSet(K), NEW all, NEW prerequisites, KeysListed(K, all, prerequisites),
         NEW R, Referred(K, prerequisites, R), NEW w, SortLevels(w, K, all, prerequisites)
  PROVE  \A n \in Nat : VisitsSort(w[n], n, K, all, prerequisites, R)
<1> DEFINE A == {n \in Nat : VisitsSort(w[n], n, K, all, prerequisites, R)}
<1>1. 0 \in A
  <2>1. ASSUME NEW acc \in Sortings(K), NEW key \in all, NEW G \in SUBSET K, Sorted(acc, G, K, prerequisites, R),
               0 >= Cardinality(acc.unvisited)
        PROVE  VisitSorts(w[0][acc][key], acc, key, G, K, prerequisites, R)
    <3>1. w[0][acc][key] = acc
      BY DEF SortLevels
    <3>2. acc.unvisited \in SUBSET K
      BY DEF Sortings
    <3>3. IsFiniteSet(acc.unvisited)
      BY <3>2, FS_Subset
    <3>4. Cardinality(acc.unvisited) \in Nat
      BY <3>3, FS_CardinalityType
    <3>5. acc.unvisited = {}
      BY <2>1, <3>3, <3>4, FS_EmptySet
    <3> QED BY <2>1, <3>1, <3>5 DEF VisitSorts
  <2> QED BY <2>1 DEF VisitsSort
<1>2. ASSUME NEW n \in A PROVE n + 1 \in A
  <2>1. n \in Nat /\ n + 1 \in Nat /\ n + 1 # 0 /\ (n + 1) - 1 = n /\ VisitsSort(w[n], n, K, all, prerequisites, R)
    BY <1>2
  <2>2. w[n] \in SortVisits(K, all)
    BY <2>1 DEF SortLevels
  <2>3. ASSUME NEW acc \in Sortings(K), NEW key \in all, NEW G \in SUBSET K, Sorted(acc, G, K, prerequisites, R),
               \A g \in G : <<g, key>> \in R, n + 1 >= Cardinality(acc.unvisited)
        PROVE  VisitSorts(w[n + 1][acc][key], acc, key, G, K, prerequisites, R)
    <3>1. w[n + 1][acc][key] = Visit(w[n], prerequisites, acc, key)
      BY <2>1 DEF SortLevels
    <3>2. VisitSorts(Visit(w[n], prerequisites, acc, key), acc, key, G, K, prerequisites, R)
      BY <2>1, <2>2, <2>3, OneMoreVisit
    <3> QED BY <3>1, <3>2
  <2> QED BY <2>1, <2>3 DEF VisitsSort
<1> HIDE DEF A
<1>3. A = Nat
  <2>1. A \in SUBSET Nat
    BY DEF A
  <2> QED BY <1>1, <1>2, <2>1, AllNumbers
<1> QED BY <1>3 DEF A

(* A finite set has a sequence of its elements.                            *)
LEMMA SetToSeqLists ==
  ASSUME NEW S, IsFiniteSet(S)
  PROVE  SetToSeq(S) \in Seq(S) /\ ToSet(SetToSeq(S)) = S
<1> DEFINE n == Cardinality(S)
           s == SetToSeq(S)
<1>1. n \in Nat
  BY FS_CardinalityType
<1>2. \E f : f \in [1..n -> S] /\ IsInjective(f)
  <2>1. PICK f : f \in Bijection(1..n, S)
    BY FS_CardinalityType DEF ExistsBijection
  <2> QED BY <2>1 DEF Bijection, Injection
<1>3. s \in [1..n -> S] /\ IsInjective(s)
  BY <1>2 DEF SetToSeq
<1> HIDE DEF n, s
<1>4. s \in Injection(1..n, S)
  BY <1>3 DEF Injection
<1>5. Cardinality(1..n) = n
  <2>1. 1 \in Int /\ n \in Int
    BY <1>1
  <2>2. Cardinality(1..n) = IF 1 > n THEN 0 ELSE n - 1 + 1
    BY <2>1, FS_Interval
  <2> QED BY <1>1, <2>2
<1>6. s \in Surjection(1..n, S)
  BY <1>4, <1>5, FS_Injection DEF n
<1>7. s \in Seq(S)
  BY <1>1, <1>3, SeqDef
<1>8. \A x \in S : \E i \in 1..n : s[i] = x
  BY <1>6 DEF Surjection
<1> QED BY <1>3, <1>7, <1>8 DEF ToSet, s

(* A sequence is one of its own elements, which are no more than it has.   *)
LEMMA ElementsOf ==
  ASSUME NEW W, NEW s \in Seq(W), NEW V, ToSet(s) \subseteq V
  PROVE  s \in Seq(V) /\ Len(s) \in Nat /\ \A x : x \in ToSet(s) <=> \E n \in 1..Len(s) : s[n] = x
<1>1. Len(s) \in Nat /\ DOMAIN s = 1..Len(s) /\ s \in [1..Len(s) -> W]
  BY LenProperties
<1>2. \A n \in 1..Len(s) : s[n] \in V
  BY <1>1 DEF ToSet
<1>3. s \in [1..Len(s) -> V]
  BY <1>1, <1>2
<1> QED BY <1>1, <1>3, SeqDef DEF ToSet

(* A sequence that has each of its elements once has as many as it is long.*)
LEMMA OnceCounts ==
  ASSUME NEW K, NEW s \in Seq(K), ToSet(s) = K
  PROVE  /\ IsFiniteSet(K) /\ Cardinality(K) <= Len(s)
         /\ Once(s) => Len(s) = Cardinality(K)
<1> DEFINE n == Len(s)
<1>1. n \in Nat /\ s \in [1..n -> K] /\ DOMAIN s = 1..n /\ \A x \in K : \E i \in 1..n : s[i] = x
  BY ElementsOf, LenProperties
<1>2. s \in Surjection(1..n, K)
  BY <1>1 DEF Surjection
<1>3. ExistsSurjection(1..n, K)
  BY <1>2 DEF ExistsSurjection
<1>4. IsFiniteSet(K) /\ Cardinality(K) <= n
  BY <1>1, <1>3, FS_NatSurjection, FS_SurjCardinalityBound
<1>5. ASSUME Once(s) PROVE Cardinality(K) = n
  <2>1. s \in Injection(1..n, K)
    BY <1>1, <1>5 DEF Once, Injection, IsInjective
  <2>2. ExistsBijection(1..n, K)
    BY <1>2, <2>1 DEF ExistsBijection, Bijection
  <2> QED BY <1>1, <2>2, FS_CountingElements
<1> QED BY <1>4, <1>5

(* What is sorted has each of the keys once, after its prerequisites if    *)
(* they do not refer back.                                                 *)
SortedKeys(s, K, prerequisites, R) ==
  /\ s \in Seq(K) /\ ToSet(s) = K /\ Once(s) /\ Len(s) = Cardinality(K)
  /\ InOrder(s, K, prerequisites, R)

(* That is what TopologicalSort gives.                                     *)
LEMMA SortSorts ==
  ASSUME NEW W, NEW keys \in Seq(W), NEW prerequisites, \A k \in ToSet(keys) : prerequisites[k] \in Seq(W),
         NEW R, Referred(ToSet(keys), prerequisites, R)
  PROVE  SortedKeys(TopologicalSort(keys, prerequisites), ToSet(keys), prerequisites, R)
<1> DEFINE K == ToSet(keys)
           all == AllKeys(keys, prerequisites)
           N == Len(keys)
           start == [unvisited |-> K, sorted |-> <<>>]
<1>1. K \subseteq all /\ \A k \in K : ToSet(prerequisites[k]) \subseteq all
  BY DEF AllKeys
<1>2. KeysListed(K, all, prerequisites) /\ keys \in Seq(all) /\ keys \in Seq(K) /\ N \in Nat
  <2>1. ASSUME NEW k \in K PROVE prerequisites[k] \in Seq(all)
    <3> HIDE DEF all
    <3> QED BY <1>1, ElementsOf
  <2>2. keys \in Seq(all) /\ N \in Nat
    BY <1>1, ElementsOf
  <2>3. keys \in Seq(K)
    BY ElementsOf
  <2> QED BY <1>1, <2>1, <2>2, <2>3 DEF KeysListed
<1>3. IsFiniteSet(K) /\ Cardinality(K) <= N
  BY <1>2, OnceCounts
<1>4. PICK w : SortLevels(w, K, all, prerequisites) /\ TopologicalSort(keys, prerequisites) = VisitEach(w[N], start, keys).sorted
  BY <1>2, SortUnfolds
<1> HIDE DEF K, all
<1>5. VisitsSort(w[N], N, K, all, prerequisites, R) /\ w[N] \in SortVisits(K, all)
  <2>1. \A n \in Nat : VisitsSort(w[n], n, K, all, prerequisites, R)
    BY <1>2, <1>3, <1>4, LevelsSort DEF K
  <2>2. w[N] \in SortVisits(K, all)
    BY <1>2, <1>4 DEF SortLevels
  <2> QED BY <1>2, <2>1, <2>2
<1>6. start \in Sortings(K) /\ start.unvisited = K /\ start.sorted = <<>> /\ Len(<<>>) = 0 /\ ToSet(<<>>) = {}
  <2>1. <<>> \in Seq(K) /\ Len(<<>>) = 0
    BY EmptySeq
  <2> QED BY <2>1 DEF Sortings, ToSet
<1> HIDE DEF start
<1>7. Once(<<>>) /\ InOrder(<<>>, K, prerequisites, R)
  <2>1. 1..Len(<<>>) = {}
    BY <1>6
  <2> QED BY <2>1, Zenon DEF Once, InOrder
<1>8. Sorted(start, {}, K, prerequisites, R)
  BY <1>6, <1>7 DEF Sorted
<1> DEFINE end == VisitEach(w[N], start, keys)
<1>9. Sorted(end, {}, K, prerequisites, R) /\ end.unvisited \subseteq start.unvisited \ ToSet(keys)
  <2> DEFINE G == {}
             visit == w[N]
  <2>1. EachReferred(G, keys, R)
    BY DEF EachReferred
  <2>2. N >= Cardinality(start.unvisited)
    <3>1. Cardinality(K) \in Nat
      BY <1>3, FS_CardinalityType
    <3> QED BY <1>2, <1>3, <1>6, <3>1
  <2>3. keys \in Seq(all) /\ N \in Nat /\ IsFiniteSet(K)
    BY <1>2, <1>3
  <2>4. Sorted(start, G, K, prerequisites, R)
    BY <1>8
  <2>5. VisitsSort(visit, N, K, all, prerequisites, R) /\ visit \in SortVisits(K, all)
    BY <1>5
  <2> HIDE DEF N, G, end, visit
  <2>6. EachSorted(VisitEach(visit, start, keys), start, keys, G, K, prerequisites, R)
    BY <2>1, <2>2, <2>3, <2>4, <2>5, VisitsOfEachSort
  <2> QED BY <2>6 DEF G, end, visit, EachSorted
<1> HIDE DEF end
<1>10. end.unvisited = {}
  BY <1>6, <1>9 DEF K
<1>11. end.sorted \in Seq(K) /\ ToSet(end.sorted) = K /\ Once(end.sorted) /\ InOrder(end.sorted, K, prerequisites, R)
  BY <1>9, <1>10 DEF Sorted, Sortings
<1>12. SortedKeys(end.sorted, K, prerequisites, R)
  BY <1>11, OnceCounts DEF SortedKeys
<1> QED BY <1>4, <1>12 DEF K, end

(* Where an element is.                                                    *)
At(s, x) == SelectInSeq(s, LAMBDA j : j = x)

(* Where an element is that a sequence has once.                           *)
LEMMA WhereOnce ==
  ASSUME NEW W, NEW s \in Seq(W), Once(s), NEW n \in 1..Len(s), NEW x, s[n] = x
  PROVE  At(s, x) = n
<1> DEFINE I == {i \in 1..Len(s) : s[i] = x}
<1>1. At(s, x) = IF I # {} THEN Min(I) ELSE 0
  BY DEF At, SelectInSeq
<1>2. n \in I /\ \A i \in I : i = n
  BY DEF Once
<1>3. I \in SUBSET Nat
  BY LenProperties
<1> HIDE DEF I
<1>4. Min(I) \in I
  BY <1>2, <1>3, LeastNumber
<1> QED BY <1>1, <1>2, <1>4

(* A flag refers to other flags as its prerequisites only.                 *)
LEMMA FlagsReferredTo ==
  ASSUME NEW flag \in StoredFlags, NEW g \in Flag, g \in ComputeDependencies(flag)
  PROVE  \E n \in 1..Len(flag.prerequisites) : flag.prerequisites[n].key = g
<1>1. flag.kind = "flag" /\ flag.rules \in Seq(StoredFlagRules) /\ flag.prerequisites \in Seq([key : Flag, variation : Nat])
  BY DEF StoredFlags
<1>2. g \notin SegmentsOf(flag)
  <2>1. g \notin Segment
    BY ItemAssumption
  <2> QED BY <1>1, <2>1, SegmentsReferredTo, SegmentsOfRules
<1>3. ComputeDependencies(flag) = {p.key : p \in ToSet(flag.prerequisites)} \cup SegmentsOf(flag)
  BY <1>1 DEF ComputeDependencies
<1>4. PICK p \in ToSet(flag.prerequisites) : p.key = g
  BY <1>2, <1>3
<1>5. DOMAIN flag.prerequisites = 1..Len(flag.prerequisites)
  BY <1>1, LenProperties
<1> QED BY <1>4, <1>5 DEF ToSet

PrerequisiteKeys == [f \in Flag |-> IF f \in Present THEN Each(items[f].prerequisites, LAMBDA p : p.key) ELSE <<>>]

Reached == {p \in Item \X Item : Reaches(p[1], p[2])}

(* The keys of prerequisites are flags that the flag refers to.            *)
LEMMA PrerequisiteKeysAre ==
  ASSUME DataFollows, NEW f \in Present \cap Flag
  PROVE  /\ PrerequisiteKeys[f] \in Seq(Flag)
         /\ \A g \in ToSet(PrerequisiteKeys[f]) : g \in Flag /\ g \in ComputeDependencies(items[f])
         /\ \A g \in Flag : g \in ComputeDependencies(items[f]) => g \in ToSet(PrerequisiteKeys[f])
<1> DEFINE s == items[f].prerequisites
           keys == PrerequisiteKeys[f]
<1>1. items \in StoredData /\ items[f] # NoItem /\ f \in Flag
  BY ItemsStored DEF DataFollows, Present
<1>2. items[f] \in StoredFlags
  BY <1>1, FlagsOfData
<1>3. s \in Seq([key : Flag, variation : Nat]) /\ \A n \in 1..Len(s) : s[n] \in [key : Flag, variation : Nat]
  BY <1>2, PrerequisitesTyped
<1>4. Len(s) \in Nat /\ DOMAIN s = 1..Len(s)
  BY <1>3, LenProperties
<1>5. keys = [n \in DOMAIN s |-> s[n].key]
  BY DEF PrerequisiteKeys, Each
<1>6. \A n \in 1..Len(s) : s[n].key \in ComputeDependencies(items[f])
  BY <1>1, ReferencesOf
<1>7. \A g \in Flag : g \in ComputeDependencies(items[f]) => \E n \in 1..Len(s) : s[n].key = g
  BY <1>2, FlagsReferredTo
<1> HIDE DEF s, keys
<1>8. keys \in [1..Len(s) -> Flag]
  BY <1>3, <1>4, <1>5
<1>9. keys \in Seq(Flag)
  BY <1>4, <1>8, SeqDef
<1>10. \A g : g \in ToSet(keys) <=> \E n \in 1..Len(s) : s[n].key = g
  BY <1>4, <1>5 DEF ToSet
<1>11. \A g \in ToSet(keys) : g \in Flag
  BY <1>3, <1>10
<1> QED BY <1>6, <1>7, <1>9, <1>10, <1>11 DEF keys

(* The two parts of the sorted items.                                      *)
LEMMA PartsSorted ==
  ASSUME DataFollows, NEW flags \in SetToAllKPermutations(Present \cap Flag), ToSet(flags) = Present \cap Flag
  PROVE  \E s1, s2 :
           /\ SortData(SetToSeq(Present \cap Segment), flags, PrerequisiteKeys) = s1 \o s2
           /\ s1 \in Seq(Present \cap Segment) /\ ToSet(s1) = Present \cap Segment /\ Once(s1)
           /\ Len(s1) = Cardinality(Present \cap Segment)
           /\ SortedKeys(s2, Present \cap Flag, PrerequisiteKeys, Reached)
<1> DEFINE P == Present \cap Segment
           Q == Present \cap Flag
           segments == SetToSeq(P)
           none == [s \in ToSet(segments) |-> <<>>]
           s1 == TopologicalSort(segments, none)
           s2 == TopologicalSort(flags, PrerequisiteKeys)
<1>1. IsFiniteSet(P) /\ P \subseteq Item
  <2>1. P \in SUBSET Item /\ IsFiniteSet(Item)
    BY ItemAssumption DEF Present
  <2> QED BY <2>1, FS_Subset
<1>2. segments \in Seq(P) /\ ToSet(segments) = P
  BY <1>1, SetToSeqLists
<1>3. flags \in Seq(Q)
  <2>1. PICK S \in SUBSET Q : flags \in [1..Cardinality(S) -> S]
    BY DEF SetToAllKPermutations, SetToSeqs
  <2>2. IsFiniteSet(S)
    <3>1. S \in SUBSET Item /\ IsFiniteSet(Item)
      BY ItemAssumption DEF Present
    <3> QED BY <3>1, FS_Subset
  <2>3. Cardinality(S) \in Nat /\ flags \in [1..Cardinality(S) -> Q]
    BY <2>1, <2>2, FS_CardinalityType
  <2> QED BY <2>3, SeqDef
<1>4. SortData(segments, flags, PrerequisiteKeys) = s1 \o s2
  BY DEF SortData
<1>5. SortedKeys(s1, P, none, {})
  <2>1. \A k \in P : none[k] \in Seq(P) /\ ToSet(none[k]) = {}
    <3>1. <<>> \in Seq(P)
      BY EmptySeq
    <3>2. ToSet(<<>>) = {}
      BY DEF ToSet
    <3>3. none = [s \in P |-> <<>>]
      BY <1>2
    <3> HIDE DEF none
    <3> QED BY <3>1, <3>2, <3>3
  <2>2. Referred(P, none, {})
    BY <2>1, Zenon DEF Referred
  <2> HIDE DEF segments, none, P
  <2>3. \A k \in ToSet(segments) : none[k] \in Seq(P)
    BY <1>2, <2>1
  <2>4. Referred(ToSet(segments), none, {})
    BY <1>2, <2>2
  <2>5. SortedKeys(TopologicalSort(segments, none), ToSet(segments), none, {})
    BY <1>2, <2>3, <2>4, SortSorts
  <2> QED BY <1>2, <2>5
<1>6. SortedKeys(s2, Q, PrerequisiteKeys, Reached)
  <2>1. TrackerFollows
    BY DEF DataFollows
  <2>2. \A f \in Q : f \in Item /\ f \in Flag
    BY ItemAssumption
  <2>3. \A f \in Flag : f \in Item
    BY ItemAssumption
  <2>4. ASSUME NEW f \in Q, NEW g \in ToSet(PrerequisiteKeys[f]) PROVE <<f, g>> \in Reached
    <3>1. g \in Flag /\ g \in ComputeDependencies(items[f])
      BY PrerequisiteKeysAre
    <3>2. Reaches(f, g)
      BY <2>1, <2>2, <3>1, ReachesFollows
    <3> QED BY <2>2, <2>3, <3>1, <3>2 DEF Reached
  <2>5. ASSUME NEW f \in Q, NEW g \in Q, <<f, g>> \in Reached, NEW h \in ToSet(PrerequisiteKeys[g])
        PROVE  <<f, h>> \in Reached
    <3>1. h \in Flag /\ h \in ComputeDependencies(items[g])
      BY PrerequisiteKeysAre
    <3>2. Reaches(f, g)
      BY <2>5 DEF Reached
    <3>3. Reaches(f, h)
      BY <2>1, <2>2, <3>1, <3>2, ReachesFollows
    <3> QED BY <2>2, <2>3, <3>1, <3>3 DEF Reached
  <2>6. Referred(Q, PrerequisiteKeys, Reached)
    BY <2>4, <2>5 DEF Referred
  <2>7. \A k \in Q : PrerequisiteKeys[k] \in Seq(Flag)
    BY PrerequisiteKeysAre
  <2>8. flags \in Seq(Flag)
    BY <1>3, ElementsOf
  <2>9. ToSet(flags) = Q
    OBVIOUS
  <2> HIDE DEF Q
  <2>10. \A k \in ToSet(flags) : PrerequisiteKeys[k] \in Seq(Flag)
    BY <2>7, <2>9
  <2>11. Referred(ToSet(flags), PrerequisiteKeys, Reached)
    BY <2>6, <2>9
  <2>12. SortedKeys(TopologicalSort(flags, PrerequisiteKeys), ToSet(flags), PrerequisiteKeys, Reached)
    BY <2>8, <2>10, <2>11, SortSorts
  <2> QED BY <2>9, <2>12
<1> HIDE DEF s1, s2
<1>7. s1 \in Seq(P) /\ ToSet(s1) = P /\ Once(s1) /\ Len(s1) = Cardinality(P)
  BY <1>5 DEF SortedKeys
<1> QED BY <1>4, <1>6, <1>7

(* s is s1 and s2, one after the other.                                    *)
Joined(s, s1, s2, W) ==
  /\ s \in Seq(W) /\ Len(s1) \in Nat /\ Len(s2) \in Nat /\ Len(s) = Len(s1) + Len(s2)
  /\ \A n \in 1..Len(s1) : s[n] = s1[n]
  /\ \A n \in 1..Len(s2) : s[Len(s1) + n] = s2[n]
  /\ ToSet(s) = ToSet(s1) \cup ToSet(s2) /\ Once(s)

(* An element that comes later has the greater index.                      *)
LEMMA AtLater ==
  ASSUME NEW W, NEW s \in Seq(W), Once(s), NEW m \in 1..Len(s), NEW n \in 1..Len(s), m < n,
         NEW x, s[m] = x, NEW y, s[n] = y
  PROVE  At(s, x) < At(s, y)
<1>1. At(s, x) = m
  BY WhereOnce
<1>2. At(s, y) = n
  BY WhereOnce
<1> QED BY <1>1, <1>2

(* Sequences with nothing in common, one after the other.                  *)
LEMMA OneAfterTheOther ==
  ASSUME NEW P, NEW Q, P \cap Q = {}, NEW s1 \in Seq(P), NEW s2 \in Seq(Q), Once(s1), Once(s2)
  PROVE  Joined(s1 \o s2, s1, s2, P \cup Q)
<1> DEFINE s == s1 \o s2
           L == Len(s1)
           M == Len(s2)
<1>1. s1 \in Seq(P \cup Q) /\ s2 \in Seq(P \cup Q)
  <2>1. ToSet(s1) \subseteq P \cup Q
    BY ElementOfSeq, LenProperties DEF ToSet
  <2>2. ToSet(s2) \subseteq P \cup Q
    BY ElementOfSeq, LenProperties DEF ToSet
  <2> QED BY <2>1, <2>2, ElementsOf
<1>2. /\ L \in Nat /\ M \in Nat /\ s \in Seq(P \cup Q) /\ Len(s) = L + M
      /\ \A i \in 1..(L + M) : s[i] = IF i <= L THEN s1[i] ELSE s2[i - L]
  BY <1>1, ConcatProperties, LenProperties
<1>3. /\ \A n \in 1..L : s1[n] \in P
      /\ \A n \in 1..M : s2[n] \in Q
  BY ElementOfSeq
<1>4. DOMAIN s1 = 1..L /\ DOMAIN s2 = 1..M /\ DOMAIN s = 1..(L + M)
  <2>1. DOMAIN s = 1..Len(s)
    BY <1>2, LenProperties
  <2> QED BY <1>2, <2>1, LenProperties
<1>5. Once(s1) /\ Once(s2)
  OBVIOUS
<1>6. /\ \A m, n \in 1..L : s1[m] = s1[n] => m = n
      /\ \A m, n \in 1..M : s2[m] = s2[n] => m = n
  BY <1>5 DEF Once
<1>7. \A x : /\ x \in ToSet(s) <=> \E n \in 1..(L + M) : s[n] = x
             /\ x \in ToSet(s1) <=> \E n \in 1..L : s1[n] = x
             /\ x \in ToSet(s2) <=> \E n \in 1..M : s2[n] = x
  BY <1>4 DEF ToSet
<1> HIDE DEF s, L, M
<1>8. /\ \A n \in 1..L : n \in 1..(L + M) /\ s[n] = s1[n]
      /\ \A n \in 1..M : L + n \in 1..(L + M) /\ s[L + n] = s2[n]
  <2>1. ASSUME NEW n \in 1..L PROVE n \in 1..(L + M) /\ s[n] = s1[n]
    BY <1>2
  <2>2. ASSUME NEW n \in 1..M PROVE L + n \in 1..(L + M) /\ s[L + n] = s2[n]
    <3>1. L + n \in 1..(L + M) /\ ~(L + n <= L) /\ (L + n) - L = n
      BY <1>2
    <3> QED BY <1>2, <3>1
  <2> QED BY <2>1, <2>2
<1>9. \A i \in 1..(L + M) : i \in 1..L \/ (i - L \in 1..M /\ L + (i - L) = i)
  BY <1>2
<1>10. ToSet(s) = ToSet(s1) \cup ToSet(s2)
  <2>1. ASSUME NEW x \in ToSet(s) PROVE x \in ToSet(s1) \cup ToSet(s2)
    <3>1. PICK n \in 1..(L + M) : s[n] = x
      BY <1>7
    <3>2. CASE n \in 1..L
      BY <1>7, <1>8, <3>1, <3>2
    <3>3. CASE n - L \in 1..M /\ L + (n - L) = n
      <4>1. s2[n - L] = x
        BY <1>8, <3>1, <3>3
      <4> QED BY <1>7, <3>3, <4>1
    <3> QED BY <1>9, <3>2, <3>3
  <2>2. ASSUME NEW x \in ToSet(s1) PROVE x \in ToSet(s)
    BY <1>7, <1>8
  <2>3. ASSUME NEW x \in ToSet(s2) PROVE x \in ToSet(s)
    BY <1>7, <1>8
  <2> QED BY <2>1, <2>2, <2>3
<1>11. Once(s)
  <2>1. ASSUME NEW m \in 1..(L + M), NEW n \in 1..(L + M), s[m] = s[n] PROVE m = n
    <3>1. CASE m \in 1..L /\ n \in 1..L
      BY <1>6, <1>8, <2>1, <3>1
    <3>2. CASE m \in 1..L /\ n - L \in 1..M /\ L + (n - L) = n
      <4>1. s[m] = s1[m] /\ s[n] = s2[n - L]
        BY <1>8, <3>2
      <4> QED BY <1>3, <2>1, <3>2, <4>1
    <3>3. CASE n \in 1..L /\ m - L \in 1..M /\ L + (m - L) = m
      <4>1. s[n] = s1[n] /\ s[m] = s2[m - L]
        BY <1>8, <3>3
      <4> QED BY <1>3, <2>1, <3>3, <4>1
    <3>4. CASE m - L \in 1..M /\ L + (m - L) = m /\ n - L \in 1..M /\ L + (n - L) = n
      <4>1. s[m] = s2[m - L] /\ s[n] = s2[n - L]
        BY <1>8, <3>4
      <4>2. m - L = n - L
        BY <1>6, <2>1, <3>4, <4>1
      <4> QED BY <1>2, <4>2
    <3> QED BY <1>9, <3>1, <3>2, <3>3, <3>4
  <2> QED BY <1>2, <2>1 DEF Once
<1> QED BY <1>2, <1>8, <1>10, <1>11 DEF s, L, M, Joined

(* The items of the store are sorted.                                      *)
LEMMA DataSorted == DataFollows => SortedForTheStore
<1> DEFINE first == {p \in Present \X (Present \cap Flag) : Refers(p[2], p[1]) /\ ~Reaches(p[1], p[2])}
           P == Present \cap Segment
           Q == Present \cap Flag
<1> SUFFICES ASSUME DataFollows, NEW flags \in SetToAllKPermutations(Q), ToSet(flags) = Q,
                    NEW sorted, sorted = SortData(SetToSeq(P), flags, PrerequisiteKeys)
             PROVE  /\ ToSet(sorted) = Present /\ Len(sorted) = Cardinality(Present)
                    /\ \A p \in first : SelectInSeq(sorted, LAMBDA j : j = p[1]) < SelectInSeq(sorted, LAMBDA j : j = p[2])
  BY DEF SortedForTheStore, PrerequisiteKeys
<1>1. PICK s1, s2 :
        /\ sorted = s1 \o s2
        /\ s1 \in Seq(P) /\ ToSet(s1) = P /\ Once(s1)
        /\ Len(s1) = Cardinality(P)
        /\ SortedKeys(s2, Q, PrerequisiteKeys, Reached)
  BY PartsSorted
<1>2. P \cap Q = {} /\ Present = P \cup Q /\ IsFiniteSet(P) /\ IsFiniteSet(Q)
  <2>1. P \in SUBSET Item /\ Q \in SUBSET Item /\ IsFiniteSet(Item)
    BY ItemAssumption DEF Present
  <2>2. P \cap Q = {} /\ Present = P \cup Q
    BY ItemAssumption DEF Present
  <2> QED BY <2>1, <2>2, FS_Subset
<1>3. /\ s2 \in Seq(Q) /\ ToSet(s2) = Q /\ Once(s2) /\ Len(s2) = Cardinality(Q)
      /\ InOrder(s2, Q, PrerequisiteKeys, Reached)
  BY <1>1 DEF SortedKeys
<1> DEFINE L == Len(s1)
           M == Len(s2)
<1>4. Joined(sorted, s1, s2, Present)
  <2> HIDE DEF P, Q
  <2>1. Joined(s1 \o s2, s1, s2, P \cup Q)
    BY <1>1, <1>2, <1>3, OneAfterTheOther
  <2> QED BY <1>1, <1>2, <2>1
<1>0. /\ sorted \in Seq(Present) /\ L \in Nat /\ M \in Nat /\ Len(sorted) = L + M
      /\ \A n \in 1..L : sorted[n] = s1[n]
      /\ \A n \in 1..M : sorted[L + n] = s2[n]
      /\ ToSet(sorted) = ToSet(s1) \cup ToSet(s2) /\ Once(sorted)
  BY <1>4 DEF Joined
<1>5. Cardinality(Present) = Cardinality(P) + Cardinality(Q)
  <2> HIDE DEF P, Q
  <2>1. Cardinality(P \cup Q) = Cardinality(P) + Cardinality(Q) - Cardinality(P \cap Q)
    BY <1>2, FS_Union
  <2>2. Cardinality(P \cap Q) = 0
    BY <1>2, FS_EmptySet
  <2>3. Cardinality(P) \in Nat /\ Cardinality(Q) \in Nat
    BY <1>2, FS_CardinalityType
  <2> QED BY <1>2, <2>1, <2>2, <2>3
<1>6. ToSet(sorted) = Present /\ Len(sorted) = Cardinality(Present)
  BY <1>1, <1>2, <1>3, <1>0, <1>5
<1>7. /\ \A x \in P : \E n \in 1..L : s1[n] = x
      /\ \A x \in Q : \E n \in 1..M : s2[n] = x
  <2>1. \A x : x \in ToSet(s1) <=> \E n \in 1..Len(s1) : s1[n] = x
    BY <1>1, ElementsOf
  <2>2. \A x : x \in ToSet(s2) <=> \E n \in 1..Len(s2) : s2[n] = x
    BY <1>3, ElementsOf
  <2> QED BY <1>1, <1>3, <2>1, <2>2
<1>8. ASSUME NEW p \in first
      PROVE  \E m, n \in 1..(L + M) : m < n /\ sorted[m] = p[1] /\ sorted[n] = p[2]
  <2>1. p[1] \in Present /\ p[2] \in Q /\ p[1] \in ComputeDependencies(items[p[2]]) /\ ~Reaches(p[1], p[2])
    BY DEF Refers
  <2> HIDE DEF first, L, M
  <2>2. PICK k \in 1..M : s2[k] = p[2]
    BY <1>7, <2>1
  <2>3. sorted[L + k] = p[2] /\ L + k \in 1..(L + M)
    <3>1. L \in Nat /\ M \in Nat
      BY <1>0
    <3>2. sorted[L + k] = p[2]
      BY <1>0, <2>2
    <3>3. L + k \in 1..(L + M)
      BY <3>1
    <3> QED BY <3>2, <3>3
  <2>4. CASE p[1] \in P
    <3>1. PICK m \in 1..L : s1[m] = p[1]
      BY <1>7, <2>4
    <3>2. sorted[m] = p[1]
      BY <1>0, <3>1
    <3>3. m \in 1..(L + M) /\ m < L + k
      <4>1. L \in Nat /\ M \in Nat
        BY <1>0
      <4> QED BY <4>1
    <3> QED BY <2>3, <3>2, <3>3
  <2>5. CASE p[1] \in Q
    <3>1. p[1] \in ToSet(PrerequisiteKeys[s2[k]])
      BY <2>1, <2>2, <2>5, PrerequisiteKeysAre
    <3>2. <<p[1], s2[k]>> \notin Reached
      BY <2>1, <2>2 DEF Reached
    <3>3. PICK m \in 1..(k - 1) : s2[m] = p[1]
      BY <1>3, <2>2, <2>5, <3>1, <3>2 DEF InOrder, M
    <3>4. m \in 1..M /\ L + m \in 1..(L + M) /\ L + m < L + k
      BY <1>0, <2>2, <3>3
    <3>5. sorted[L + m] = p[1]
      BY <1>0, <3>3, <3>4
    <3> QED BY <2>3, <3>4, <3>5
  <2> QED BY <1>2, <2>1, <2>4, <2>5
<1>9. ASSUME NEW p \in first
      PROVE  SelectInSeq(sorted, LAMBDA j : j = p[1]) < SelectInSeq(sorted, LAMBDA j : j = p[2])
  <2>1. PICK m, n \in 1..Len(sorted) : m < n /\ sorted[m] = p[1] /\ sorted[n] = p[2]
    <3>1. PICK m, n \in 1..(L + M) : m < n /\ sorted[m] = p[1] /\ sorted[n] = p[2]
      BY <1>8
    <3> QED BY <1>0, <3>1
  <2>2. sorted \in Seq(Present) /\ Once(sorted)
    BY <1>0
  <2>3. At(sorted, p[1]) < At(sorted, p[2])
    <3> HIDE DEF first
    <3> QED BY <2>1, <2>2, AtLater
  <2> QED BY <2>3 DEF At
<1> QED BY <1>6, <1>9

(* A persistent store gets each item once, and none before what it refers  *)
(* to, in whatever order flags are listed: SortedForTheStore.              *)
THEOREM SortedForTheStoreEver == Spec => []SortedForTheStore
  BY DataFollowsEver, DataSorted, PTL

-----------------------------------------------------------------------------
(* The canonical keys of contexts.                                         *)

(* The parts of a sequence, one after the other.                           *)
Concatenation(g, W, s) ==
  /\ g \in [0..Len(s) -> Seq(W)] /\ g[0] = <<>>
  /\ \A n \in 1..Len(s) : g[n] = g[n - 1] \o s[n]

(* FlattenSeq gives the last one.                                          *)
LEMMA FlattenUnfolds ==
  ASSUME NEW W, NEW s \in Seq(Seq(W))
  PROVE  \E g : Concatenation(g, W, s) /\ FlattenSeq(s) = g[Len(s)]
<1> DEFINE N == Len(s)
           V == Seq(W)
           F == [n \in 1..N |-> [v \in V |-> v \o s[n]]]
           P(a) == a = [n \in 1..N |-> IF n = 1 THEN s[n] ELSE a[n - 1] \o s[n]]
           flatten == CHOOSE a : P(a)
<1>1. N \in Nat /\ <<>> \in V
  BY LenProperties
<1>2. \A n \in 1..N : s[n] \in V
  BY ElementOfSeq
<1>3. FlattenSeq(s) = IF N = 0 THEN s ELSE flatten[N]
  BY DEF FlattenSeq
<1>4. N = 0 => s = <<>>
  BY EmptySeq
<1> HIDE DEF N, V
<1>5. \A n \in 1..N : \A v \in V : v \o s[n] \in V
  BY <1>2 DEF V
<1>6. F \in [1..N -> [V -> V]] /\ \A n \in 1..N : \A v \in V : F[n][v] = v \o s[n]
  BY <1>5
<1> HIDE DEF F
<1>7. PICK g \in [0..N -> V] : RecursionTo(N, F, <<>>, g)
  <2> DEFINE b == <<>>
  <2>1. b \in V
    BY <1>1
  <2> HIDE DEF P, flatten, b
  <2>2. \E g \in [0..N -> V] : RecursionTo(N, F, b, g)
    BY <1>1, <1>6, <2>1, BoundedRecursion
  <2> QED BY <2>2 DEF b
<1>8. g[0] = <<>>
  BY <1>1, <1>7 DEF RecursionTo
<1>9. ASSUME NEW n \in 1..N PROVE g[n] = g[n - 1] \o s[n]
  <2> HIDE DEF P, flatten
  <2>1. n \in 0..N /\ n - 1 \in 0..N /\ n # 0
    BY <1>1
  <2>2. g[n - 1] \in V /\ g[n] = F[n][g[n - 1]]
    BY <1>7, <2>1 DEF RecursionTo
  <2> QED BY <1>6, <2>2
<1> DEFINE f == [n \in 1..N |-> g[n]]
<1>10. P(f)
  <2>1. ASSUME NEW n \in 1..N PROVE g[n] = IF n = 1 THEN s[n] ELSE f[n - 1] \o s[n]
    <3>1. CASE n = 1
      <4> HIDE DEF P, flatten, f
      <4>1. 1 \in 1..N /\ 1 - 1 = 0
        BY <3>1
      <4>2. g[1] = g[1 - 1] \o s[1]
        BY <1>9, <4>1
      <4>3. g[1] = <<>> \o s[1] /\ s[1] \in V
        BY <1>2, <1>8, <4>1, <4>2
      <4>4. <<>> \o s[1] = s[1]
        BY <4>3 DEF V
      <4> QED BY <3>1, <4>3, <4>4
    <3>2. CASE n # 1
      <4>1. n - 1 \in 1..N
        BY <1>1, <3>2
      <4> QED BY <1>9, <3>2, <4>1
    <3> QED BY <3>1, <3>2
  <2> QED BY <2>1
<1>11. P(flatten)
  <2> HIDE DEF f
  <2> QED BY <1>10
<1> HIDE DEF f, flatten
<1>12. \A n \in 1..N : flatten[n] = IF n = 1 THEN s[n] ELSE flatten[n - 1] \o s[n]
  BY <1>11
<1> HIDE DEF P
<1> DEFINE S == {n \in 0..N : n = 0 \/ flatten[n] = g[n]}
<1>13. ASSUME NEW n \in S, n < N PROVE n + 1 \in S
  <2>1. n + 1 \in 1..N /\ (n + 1) - 1 = n /\ n \in 0..N
    BY <1>1, <1>13
  <2>2. flatten[n + 1] = IF n + 1 = 1 THEN s[n + 1] ELSE flatten[n] \o s[n + 1]
    BY <1>12, <2>1
  <2>3. g[n + 1] = g[n] \o s[n + 1]
    BY <1>9, <2>1
  <2>4. CASE n = 0
    <3>1. n + 1 = 1 /\ 1 \in 1..N
      BY <2>1, <2>4
    <3>2. g[1] = <<>> \o s[1] /\ flatten[1] = s[1] /\ s[1] \in V
      BY <1>2, <1>8, <2>2, <2>3, <2>4, <3>1
    <3>3. <<>> \o s[1] = s[1]
      BY <3>2 DEF V
    <3> QED BY <2>1, <3>1, <3>2, <3>3
  <2>5. CASE n # 0
    <3>1. flatten[n] = g[n]
      BY <1>13, <2>5
    <3>2. n + 1 # 1
      BY <2>1, <2>5
    <3>3. flatten[n + 1] = g[n + 1]
      BY <2>2, <2>3, <3>1, <3>2
    <3>4. n + 1 \in 0..N
      BY <2>1
    <3> QED BY <3>3, <3>4
  <2> QED BY <2>4, <2>5
<1>14. \A n \in 0..N : n \in S
  <2>1. 0 \in S
    BY <1>1
  <2>2. \A n \in 0..N : n \in S /\ n < N => n + 1 \in S
    BY <1>13
  <2> HIDE DEF S
  <2> QED BY <1>1, <2>1, <2>2, AllNumbersUpTo
<1>15. FlattenSeq(s) = g[N]
  BY <1>1, <1>3, <1>4, <1>8, <1>14
<1> QED BY <1>7, <1>8, <1>9, <1>15 DEF Concatenation, N, V

(* A character of a key, as it is encoded.                                 *)
Piece(t) == IF t = "%" THEN <<"%", "25">> ELSE IF t = ":" THEN <<"%", "3A">> ELSE <<t>>

Pieces(key) == [n \in DOMAIN key |-> Piece(key[n])]

Signs == {"%", "25", "3A"}

(* An encoded key has no colon.                                            *)
LEMMA Encoded ==
  ASSUME NEW T, NEW key \in Seq(T)
  PROVE  /\ EncodeKey(key) = FlattenSeq(Pieces(key)) /\ Len(Pieces(key)) = Len(key)
         /\ Pieces(key) \in Seq(Seq((T \cup Signs) \ {":"}))
<1>1. EncodeKey(key) = FlattenSeq(Pieces(key))
  BY DEF EncodeKey, Pieces, Piece
<1>2. DOMAIN key = 1..Len(key) /\ Len(key) \in Nat
  BY LenProperties
<1>3. ASSUME NEW n \in 1..Len(key) PROVE Piece(key[n]) \in Seq((T \cup Signs) \ {":"})
  <2> DEFINE R == (T \cup Signs) \ {":"}
  <2>1. key[n] \in T
    BY ElementOfSeq
  <2>2. "%" \in R /\ "25" \in R /\ "3A" \in R
    BY DEF Signs
  <2>3. key[n] # ":" => key[n] \in R
    BY <2>1
  <2> HIDE DEF R
  <2>4. <<"%", "25">> \in Seq(R) /\ <<"%", "3A">> \in Seq(R)
    BY <2>2
  <2>5. key[n] # ":" => <<key[n]>> \in Seq(R)
    BY <2>3
  <2>6. Piece(key[n]) \in Seq(R)
    BY <2>4, <2>5 DEF Piece
  <2> QED BY <2>6 DEF R
<1>4. Pieces(key) = [n \in 1..Len(key) |-> Piece(key[n])]
  BY <1>2 DEF Pieces
<1>5. Pieces(key) \in Seq(Seq((T \cup Signs) \ {":"}))
  <2> DEFINE R == Seq((T \cup Signs) \ {":"})
  <2> HIDE DEF R
  <2> QED BY <1>2, <1>3, <1>4, IsASeq DEF R
<1> QED BY <1>1, <1>2, <1>4, <1>5

(* Sequences that begin with as much begin with the same.                  *)
LEMMA ConcatCancels ==
  ASSUME NEW W, NEW a \in Seq(W), NEW b \in Seq(W), NEW p \in Seq(W), NEW q \in Seq(W),
         a \o p = b \o q, Len(a) = Len(b)
  PROVE  a = b /\ p = q
<1>1. /\ Len(a) \in Nat /\ Len(p) \in Nat /\ Len(q) \in Nat
      /\ Len(a \o p) = Len(a) + Len(p) /\ Len(b \o q) = Len(b) + Len(q)
  BY LenProperties
<1>2. Len(p) = Len(q)
  BY <1>1
<1>3. ASSUME NEW n \in 1..Len(a) PROVE a[n] = b[n]
  <2>1. (a \o p)[n] = a[n] /\ (b \o q)[n] = b[n]
    OBVIOUS
  <2> QED BY <2>1
<1>4. ASSUME NEW n \in 1..Len(p) PROVE p[n] = q[n]
  <2>1. Len(a) + n \in 1..(Len(a) + Len(p)) /\ ~(Len(a) + n <= Len(a)) /\ (Len(a) + n) - Len(a) = n
    BY <1>1
  <2>2. (a \o p)[Len(a) + n] = p[n]
    BY <1>1, <2>1
  <2>3. (b \o q)[Len(a) + n] = q[n]
    BY <1>1, <1>2, <2>1
  <2> QED BY <2>2, <2>3
<1>5. a = b
  BY <1>3, SeqEqual
<1>6. p = q
  BY <1>2, <1>4, SeqEqual
<1> QED BY <1>5, <1>6

EndsPlain(a) == a = <<>> \/ a[Len(a)] # "%"

(* An encoded character is one or two, the last of which is no percent     *)
(* sign.                                                                   *)
LEMMA PieceIs ==
  ASSUME NEW W, NEW t, Piece(t) \in Seq(W)
  PROVE  /\ Len(Piece(t)) = 1 \/ (Len(Piece(t)) = 2 /\ Piece(t)[1] = "%")
         /\ Piece(t)[Len(Piece(t))] # "%"
<1>1. CASE t = "%"
  <2>1. Piece(t) = <<"%", "25">>
    BY <1>1 DEF Piece
  <2> QED BY <2>1
<1>2. CASE t = ":"
  <2>1. Piece(t) = <<"%", "3A">>
    BY <1>2 DEF Piece
  <2> QED BY <2>1
<1>3. CASE t # "%" /\ t # ":"
  <2>1. Piece(t) = <<t>>
    BY <1>3 DEF Piece
  <2> QED BY <1>3, <2>1
<1> QED BY <1>1, <1>2, <1>3

(* A character is told from how it is encoded.                             *)
LEMMA PieceDecodes ==
  ASSUME NEW t, NEW u, Piece(t) = Piece(u)
  PROVE  t = u
<1> DEFINE Is(x) == CASE x = "%" -> Piece(x) = <<"%", "25">> [] x = ":" -> Piece(x) = <<"%", "3A">> [] OTHER -> Piece(x) = <<x>>
<1>1. \A a, b, c : <<a, b>> # <<c>>
  <2> SUFFICES ASSUME NEW a, NEW b, NEW c, <<a, b>> = <<c>> PROVE FALSE
    OBVIOUS
  <2>1. Len(<<a, b>>) = 2 /\ Len(<<c>>) = 1
    OBVIOUS
  <2> QED BY <2>1
<1>2. \A a, b : <<a>> = <<b>> => a = b
  OBVIOUS
<1>3. \A a, b, c, d : <<a, b>> = <<c, d>> => b = d
  OBVIOUS
<1>4. \A x : /\ x = "%" => Piece(x) = <<"%", "25">>
             /\ x = ":" => Piece(x) = <<"%", "3A">>
             /\ x # "%" /\ x # ":" => Piece(x) = <<x>>
  BY DEF Piece
<1> HIDE DEF Is
<1>5. CASE t \in {"%", ":"} /\ u \in {"%", ":"}
  BY <1>3, <1>4, <1>5
<1>6. CASE t \notin {"%", ":"} /\ u \notin {"%", ":"}
  BY <1>2, <1>4, <1>6
<1>7. CASE t \in {"%", ":"} /\ u \notin {"%", ":"}
  BY <1>1, <1>4, <1>7
<1>8. CASE t \notin {"%", ":"} /\ u \in {"%", ":"}
  BY <1>1, <1>4, <1>8
<1> QED BY <1>5, <1>6, <1>7, <1>8

(* What comes before two characters is not one more with one less after.   *)
LEMMA NoHalfPiece ==
  ASSUME NEW W, NEW a \in Seq(W), NEW b \in Seq(W), EndsPlain(b), NEW p \in Seq(W), NEW q \in Seq(W),
         a \o p = b \o q, Len(p) = 2, p[1] = "%", Len(q) = 1
  PROVE  FALSE
<1>0. \A x, y \in Seq(W) : Len(x \o y) = Len(x) + Len(y) /\ Len(x) \in Nat
  BY LenProperties
<1>1. /\ Len(a) \in Nat /\ Len(b) \in Nat
      /\ Len(a \o p) = Len(a) + Len(p) /\ Len(b \o q) = Len(b) + Len(q)
  BY <1>0
<1>2. Len(b) = Len(a) + 1
  BY <1>1
<1>3. Len(b) \in 1..Len(b) /\ Len(b) \in 1..(Len(a) + Len(p)) /\ ~(Len(b) <= Len(a)) /\ Len(b) - Len(a) = 1
  BY <1>1, <1>2
<1>4. (b \o q)[Len(b)] = b[Len(b)]
  BY <1>1, <1>3
<1>5. (a \o p)[Len(b)] = p[1]
  BY <1>1, <1>3
<1>6. b # <<>>
  BY <1>3
<1> QED BY <1>4, <1>5, <1>6 DEF EndsPlain

(* The last character is told from how a key is encoded.                   *)
LEMMA LastPiece ==
  ASSUME NEW W, NEW a \in Seq(W), NEW b \in Seq(W), EndsPlain(a), EndsPlain(b),
         NEW t, Piece(t) \in Seq(W), NEW u, Piece(u) \in Seq(W), a \o Piece(t) = b \o Piece(u)
  PROVE  a = b /\ t = u
<1> DEFINE p == Piece(t)
           q == Piece(u)
<1>1. /\ Len(p) = 1 \/ (Len(p) = 2 /\ p[1] = "%")
      /\ Len(q) = 1 \/ (Len(q) = 2 /\ q[1] = "%")
  BY PieceIs
<1>2. p \in Seq(W) /\ q \in Seq(W) /\ a \o p = b \o q
  OBVIOUS
<1> HIDE DEF p, q
<1>3. ~(Len(p) = 2 /\ p[1] = "%" /\ Len(q) = 1)
  BY <1>2, NoHalfPiece
<1>4. ~(Len(q) = 2 /\ q[1] = "%" /\ Len(p) = 1)
  BY <1>2, NoHalfPiece
<1>5. Len(p) = Len(q)
  BY <1>1, <1>3, <1>4
<1>6. /\ Len(a) \in Nat /\ Len(b) \in Nat /\ Len(p) \in Nat
      /\ Len(a \o p) = Len(a) + Len(p) /\ Len(b \o q) = Len(b) + Len(q)
  BY <1>2, LenProperties
<1>7. Len(a) = Len(b)
  BY <1>2, <1>5, <1>6
<1>8. a = b /\ p = q
  BY <1>2, <1>7, ConcatCancels
<1> QED BY <1>8, PieceDecodes DEF p, q

(* What is encoded of a key.                                               *)
Encoding(g, T, key) == Concatenation(g, (T \cup Signs) \ {":"}, Pieces(key))

(* The encoding of a key ends with it.                                     *)
LEMMA EncodeUnfolds ==
  ASSUME NEW T, NEW key \in Seq(T)
  PROVE  \E g : Encoding(g, T, key) /\ EncodeKey(key) = g[Len(key)]
<1> DEFINE W == (T \cup Signs) \ {":"}
           s == Pieces(key)
<1>1. EncodeKey(key) = FlattenSeq(s) /\ Len(s) = Len(key) /\ s \in Seq(Seq(W))
  BY Encoded
<1> HIDE DEF W, s
<1>2. \E g : Concatenation(g, W, s) /\ FlattenSeq(s) = g[Len(s)]
  BY <1>1, FlattenUnfolds
<1> QED BY <1>1, <1>2 DEF Encoding, W, s

(* The encoding grows by a character.                                      *)
LEMMA EncodingGrows ==
  ASSUME NEW T, NEW key \in Seq(T), NEW g, Encoding(g, T, key), NEW n \in 1..Len(key)
  PROVE  /\ g[n - 1] \in Seq((T \cup Signs) \ {":"}) /\ Piece(key[n]) \in Seq((T \cup Signs) \ {":"})
         /\ g[n] = g[n - 1] \o Piece(key[n])
<1> DEFINE W == (T \cup Signs) \ {":"}
           s == Pieces(key)
<1>1. Len(s) = Len(key) /\ s \in Seq(Seq(W))
  BY Encoded
<1>2. s[n] = Piece(key[n])
  <2>1. n \in DOMAIN key
    BY LenProperties
  <2> QED BY <2>1 DEF Pieces
<1> HIDE DEF W, s
<1>3. g \in [0..Len(s) -> Seq(W)] /\ \A i \in 1..Len(s) : g[i] = g[i - 1] \o s[i]
  BY DEF Encoding, Concatenation, W, s
<1>4. n \in 1..Len(s) /\ n - 1 \in 0..Len(s)
  BY <1>1, LenProperties
<1>5. s[n] \in Seq(W)
  BY <1>1, <1>4, ElementOfSeq
<1>6. g[n - 1] \in Seq(W) /\ g[n] = g[n - 1] \o s[n]
  BY <1>3, <1>4
<1> QED BY <1>2, <1>5, <1>6 DEF W

(* What is encoded so far ends with no percent sign, and is not empty.     *)
LEMMA EncodingEnds ==
  ASSUME NEW T, NEW key \in Seq(T), NEW g, Encoding(g, T, key), NEW n \in 0..Len(key)
  PROVE  /\ g[n] \in Seq((T \cup Signs) \ {":"}) /\ EndsPlain(g[n])
         /\ n # 0 => g[n] # <<>>
<1> DEFINE W == (T \cup Signs) \ {":"}
<1>1. CASE n = 0
  <2>1. g[0] = <<>>
    BY DEF Encoding, Concatenation
  <2> QED BY <1>1, <2>1 DEF EndsPlain
<1>2. CASE n # 0
  <2>1. n \in 1..Len(key)
    BY <1>2, LenProperties
  <2>2. g[n - 1] \in Seq(W) /\ Piece(key[n]) \in Seq(W) /\ g[n] = g[n - 1] \o Piece(key[n])
    BY <2>1, EncodingGrows
  <2> DEFINE a == g[n - 1]
             p == Piece(key[n])
  <2>3. (Len(p) = 1 \/ Len(p) = 2) /\ p[Len(p)] # "%"
    BY <2>2, PieceIs
  <2> HIDE DEF W, a, p
  <2>4. a \in Seq(W) /\ p \in Seq(W) /\ g[n] = a \o p
    BY <2>2 DEF a, p
  <2>5. Len(a) \in Nat /\ Len(p) \in Nat /\ Len(a \o p) = Len(a) + Len(p) /\ a \o p \in Seq(W)
    BY <2>4, LenProperties
  <2>8. (Len(p) = 1 \/ Len(p) = 2) /\ Len(a) \in Nat /\ Len(p) \in Nat
    BY <2>3, <2>5
  <2>6. (a \o p)[Len(a \o p)] = p[Len(p)]
    <3>1. Len(a) + Len(p) \in 1..(Len(a) + Len(p)) /\ ~(Len(a) + Len(p) <= Len(a)) /\ (Len(a) + Len(p)) - Len(a) = Len(p)
      <4>1. \A x \in Nat, y \in {1, 2} : x + y \in 1..(x + y) /\ ~(x + y <= x) /\ (x + y) - x = y
        OBVIOUS
      <4> QED BY <2>8, <4>1
    <3> QED BY <2>4, <2>5, <3>1
  <2>7. a \o p # <<>>
    <3>1. Len(a) + Len(p) # 0
      BY <2>8
    <3>2. Len(a \o p) # 0
      BY <2>5, <3>1
    <3> QED BY <3>2
  <2> QED BY <1>2, <2>3, <2>4, <2>5, <2>6, <2>7 DEF EndsPlain, W
<1> QED BY <1>1, <1>2

(* What is encoded is empty only if nothing is.                            *)
LEMMA EncodingEmpty ==
  ASSUME NEW T, NEW key \in Seq(T), NEW g, Encoding(g, T, key)
  PROVE  g[0] = <<>> /\ \A n \in 0..Len(key) : g[n] = <<>> => n = 0
<1>1. ASSUME NEW n \in 0..Len(key), n # 0 PROVE g[n] # <<>>
  BY <1>1, EncodingEnds
<1>2. g[0] = <<>>
  BY DEF Encoding, Concatenation
<1> QED BY <1>1, <1>2

(* A key is told from how it is encoded.                                   *)
LEMMA KeyDecodes ==
  ASSUME NEW T, NEW key \in Seq(T), NEW other \in Seq(T), EncodeKey(key) = EncodeKey(other)
  PROVE  key = other
<1> DEFINE W == (T \cup Signs) \ {":"}
<1>1. PICK g : Encoding(g, T, key) /\ EncodeKey(key) = g[Len(key)]
  BY EncodeUnfolds
<1>2. PICK h : Encoding(h, T, other) /\ EncodeKey(other) = h[Len(other)]
  BY EncodeUnfolds
<1>3. Len(key) \in Nat /\ Len(other) \in Nat
  BY LenProperties
<1> DEFINE M == Len(key)
           N == Len(other)
           S == {m \in 0..M : \A n \in 0..N : g[m] = h[n] => m = n /\ \A i \in 1..m : key[i] = other[i]}
<1>4. 0 \in S
  <2> SUFFICES ASSUME NEW n \in 0..N, g[0] = h[n] PROVE n = 0
    BY <1>3
  <2>1. g[0] = <<>>
    BY <1>1, EncodingEmpty
  <2>2. \A i \in 0..N : h[i] = <<>> => i = 0
    BY <1>2, EncodingEmpty
  <2> QED BY <2>1, <2>2
<1>5. ASSUME NEW m \in S, m < M PROVE m + 1 \in S
  <2>0. m \in 0..M /\ m + 1 \in 0..M /\ m + 1 \in 1..M /\ (m + 1) - 1 = m
    BY <1>3, <1>5
  <2> SUFFICES ASSUME NEW n \in 0..N, g[m + 1] = h[n] PROVE m + 1 = n /\ \A i \in 1..(m + 1) : key[i] = other[i]
    BY <2>0
  <2>1. g[m + 1] # <<>>
    <3>1. \A i \in 0..M : g[i] = <<>> => i = 0
      BY <1>1, EncodingEmpty
    <3>2. m + 1 # 0
      BY <2>0
    <3> QED BY <2>0, <3>1, <3>2
  <2>2. n # 0
    <3>1. h[0] = <<>>
      BY <1>2, EncodingEmpty
    <3> QED BY <2>1, <3>1
  <2>3. n \in 1..N /\ n - 1 \in 0..N
    BY <1>3, <2>2
  <2>4. g[m] \in Seq(W) /\ Piece(key[m + 1]) \in Seq(W) /\ g[m + 1] = g[m] \o Piece(key[m + 1])
    <3>1. PICK k \in 1..M : k = m + 1 /\ k - 1 = m
      BY <2>0
    <3>2. g[k - 1] \in Seq(W) /\ Piece(key[k]) \in Seq(W) /\ g[k] = g[k - 1] \o Piece(key[k])
      BY <1>1, EncodingGrows
    <3> QED BY <3>1, <3>2
  <2>5. h[n - 1] \in Seq(W) /\ Piece(other[n]) \in Seq(W) /\ h[n] = h[n - 1] \o Piece(other[n])
    BY <1>2, <2>3, EncodingGrows
  <2>6. EndsPlain(g[m])
    BY <1>1, <2>0, EncodingEnds
  <2>7. EndsPlain(h[n - 1])
    BY <1>2, <2>3, EncodingEnds
  <2>8. g[m] \o Piece(key[m + 1]) = h[n - 1] \o Piece(other[n])
    BY <2>4, <2>5
  <2> HIDE DEF W, S, M, N
  <2>9. g[m] = h[n - 1] /\ key[m + 1] = other[n]
    <3> DEFINE a == g[m]
               b == h[n - 1]
               t == key[m + 1]
               u == other[n]
    <3>1. /\ a \in Seq(W) /\ b \in Seq(W) /\ EndsPlain(a) /\ EndsPlain(b)
          /\ Piece(t) \in Seq(W) /\ Piece(u) \in Seq(W) /\ a \o Piece(t) = b \o Piece(u)
      BY <2>4, <2>5, <2>6, <2>7, <2>8
    <3> HIDE DEF a, b, t, u
    <3>2. a = b /\ t = u
      BY <3>1, LastPiece
    <3> QED BY <3>2 DEF a, b, t, u
  <2>10. m = n - 1 /\ \A i \in 1..m : key[i] = other[i]
    BY <2>3, <2>9 DEF S
  <2>11. m + 1 = n
    BY <2>3, <2>10
  <2>12. \A i \in 1..(m + 1) : i \in 1..m \/ i = m + 1
    BY <2>0 DEF M
  <2> QED BY <2>9, <2>10, <2>11, <2>12
<1>6. \A m \in 0..M : m \in S
  <2>1. \A m \in 0..M : m \in S /\ m < M => m + 1 \in S
    BY <1>5
  <2> HIDE DEF S
  <2> QED BY <1>3, <1>4, <2>1, AllNumbersUpTo
<1>7. M = N /\ \A i \in 1..M : key[i] = other[i]
  <2>1. M \in 0..M /\ N \in 0..N
    BY <1>3
  <2>2. M \in S
    BY <1>6, <2>1
  <2>3. g[M] = h[N]
    BY <1>1, <1>2
  <2> QED BY <2>1, <2>2, <2>3
<1> QED BY <1>7, SeqEqual

(* What two sequences are, one after the other.                            *)
LEMMA ConcatIs ==
  ASSUME NEW W, NEW s \in Seq(W), NEW t \in Seq(W)
  PROVE  /\ s \o t \in Seq(W) /\ Len(s) \in Nat /\ Len(t) \in Nat /\ Len(s \o t) = Len(s) + Len(t)
         /\ \A n \in 1..Len(s) : (s \o t)[n] = s[n]
         /\ \A n \in 1..Len(t) : (s \o t)[Len(s) + n] = t[n]
<1>1. s \o t \in Seq(W) /\ Len(s) \in Nat /\ Len(t) \in Nat /\ Len(s \o t) = Len(s) + Len(t)
  BY LenProperties
<1>2. ASSUME NEW n \in 1..Len(s) PROVE (s \o t)[n] = s[n]
  OBVIOUS
<1>3. ASSUME NEW n \in 1..Len(t) PROVE (s \o t)[Len(s) + n] = t[n]
  <2>1. Len(s) + n \in 1..(Len(s) + Len(t)) /\ ~(Len(s) + n <= Len(s)) /\ (Len(s) + n) - Len(s) = n
    BY <1>1
  <2> QED BY <1>1, <2>1
<1> QED BY <1>1, <1>2, <1>3

(* A colon is not in the key of the last part.                             *)
LEMMA NoColonAfter ==
  ASSUME NEW W, NEW x \in Seq(W), NEW y \in Seq(W), NEW d \in Seq(W \ {":"}), NEW e \in Seq(W),
         Len(x) < Len(y), y # <<>>, y[Len(y)] = ":", x \o d = y \o e
  PROVE  FALSE
<1>1. /\ Len(x) \in Nat /\ Len(y) \in Nat /\ Len(d) \in Nat /\ Len(e) \in Nat
      /\ d \in Seq(W)
  BY LenProperties
<1>2. \A s, t \in Seq(W) : Len(s \o t) = Len(s) + Len(t)
  BY LenProperties
<1>3. Len(x) + Len(d) = Len(y) + Len(e)
  BY <1>1, <1>2
<1> DEFINE n == Len(y) - Len(x)
<1>4. /\ n \in 1..Len(d) /\ Len(y) \in 1..(Len(x) + Len(d)) /\ ~(Len(y) <= Len(x))
      /\ Len(y) \in 1..Len(y) /\ Len(y) \in 1..(Len(y) + Len(e))
  BY <1>1, <1>3
<1>5. (x \o d)[Len(y)] = d[n]
  <2>1. (x \o d)[Len(x) + n] = d[n]
    <3> HIDE DEF n
    <3> QED BY <1>1, <1>4, ConcatIs
  <2>2. Len(x) + n = Len(y)
    BY <1>1
  <2> QED BY <2>1, <2>2
<1>6. (y \o e)[Len(y)] = y[Len(y)]
  BY <1>1, <1>4
<1>7. d[n] \in W \ {":"}
  BY <1>4, ElementOfSeq
<1> QED BY <1>5, <1>6, <1>7

(* Nothing is between sequences and their concatenation.                   *)
LEMMA ConcatAssociates ==
  ASSUME NEW W, NEW a \in Seq(W), NEW b \in Seq(W), NEW c \in Seq(W)
  PROVE  a \o (b \o c) = (a \o b) \o c
  OBVIOUS

(* Two last parts that are the same put together.                          *)
SamePart(a, j, d, b, k, e) == (a \o <<j, ":">>) \o d = (b \o <<k, ":">>) \o e

(* The last part of a canonical key is told from the whole.                *)
LEMMA LastPart ==
  ASSUME NEW W, NEW a \in Seq(W), NEW b \in Seq(W), NEW j \in W, NEW k \in W, ":" \in W,
         NEW d \in Seq(W \ {":"}), NEW e \in Seq(W \ {":"}),
         SamePart(a, j, d, b, k, e)
  PROVE  a = b /\ j = k /\ d = e
<1> DEFINE p == <<j, ":">>
           q == <<k, ":">>
           x == a \o p
           y == b \o q
<1>1. p \in Seq(W) /\ q \in Seq(W) /\ Len(p) = 2 /\ Len(q) = 2 /\ p[2] = ":" /\ q[2] = ":"
  OBVIOUS
<1>0. d \in Seq(W) /\ e \in Seq(W)
  <2>1. \A z \in Seq(W \ {":"}) : z \in Seq(W)
    OBVIOUS
  <2> QED BY <2>1
<1>2. d \in Seq(W) /\ e \in Seq(W) /\ x \o d = y \o e
  BY <1>0 DEF SamePart
<1>3. p = q => j = k
  OBVIOUS
<1> HIDE DEF p, q
<1>4. ASSUME NEW s \in Seq(W), NEW t \in Seq(W), Len(t) = 2, t[2] = ":"
      PROVE  /\ s \o t \in Seq(W) /\ Len(s) \in Nat /\ Len(s \o t) = Len(s) + 2 /\ s \o t # <<>>
             /\ (s \o t)[Len(s \o t)] = ":"
  <2>1. s \o t \in Seq(W) /\ Len(s) \in Nat /\ Len(s \o t) = Len(s) + 2 /\ 2 \in 1..Len(t)
    <3>1. s \o t \in Seq(W) /\ Len(s) \in Nat /\ Len(s \o t) = Len(s) + Len(t)
      BY ConcatIs
    <3> QED BY <1>4, <3>1
  <2>3. (s \o t)[Len(s) + 2] = t[2]
    BY <2>1, ConcatIs
  <2>4. s \o t # <<>>
    <3>1. Len(s) + 2 # 0
      BY <2>1
    <3>2. Len(s \o t) # 0
      BY <2>1, <3>1
    <3> QED BY <3>2
  <2> QED BY <1>4, <2>1, <2>3, <2>4
<1>5. x \in Seq(W) /\ Len(a) \in Nat /\ Len(x) = Len(a) + 2 /\ x # <<>> /\ x[Len(x)] = ":"
  BY <1>1, <1>4
<1>6. y \in Seq(W) /\ Len(b) \in Nat /\ Len(y) = Len(b) + 2 /\ y # <<>> /\ y[Len(y)] = ":"
  BY <1>1, <1>4
<1>7. x = a \o p /\ y = b \o q
  OBVIOUS
<1> HIDE DEF x, y
<1>8. ~(Len(x) < Len(y))
  BY <1>2, <1>5, <1>6, NoColonAfter
<1>9. ~(Len(y) < Len(x))
  BY <1>2, <1>5, <1>6, NoColonAfter
<1>10. Len(x) = Len(y) /\ Len(a) = Len(b)
  <2>1. Len(x) \in Nat /\ Len(y) \in Nat
    BY <1>5, <1>6
  <2>2. Len(x) = Len(y)
    BY <1>8, <1>9, <2>1
  <2> QED BY <1>5, <1>6, <2>2
<1>11. x = y /\ d = e
  BY <1>2, <1>5, <1>6, <1>10, ConcatCancels
<1>12. a = b /\ p = q
  <2>1. a \o p = b \o q
    BY <1>7, <1>11
  <2>2. Len(a) = Len(b) /\ p \in Seq(W) /\ q \in Seq(W)
    BY <1>1, <1>10
  <2> QED BY <2>1, <2>2, ConcatCancels
<1> QED BY <1>3, <1>11, <1>12

(* The kinds of a context are sorted, each once.                           *)
LEMMA KindsSorted ==
  ASSUME NEW context, Kinds(context) \subseteq DOMAIN KindOrder
  PROVE  SortedKinds(context) \in Seq(Kinds(context)) /\ ToSet(SortedKinds(context)) = Kinds(context)
<1> DEFINE K == Kinds(context)
           Less(k) == {j \in K : KindOrder[j] < KindOrder[k]}
           N == Cardinality(K)
           R == 0..(N - 1)
<1>1. /\ IsFiniteSet(K) /\ KindOrder \in [DOMAIN KindOrder -> Nat]
      /\ \A j, k \in K : KindOrder[j] = KindOrder[k] => j = k
  BY IdentifiedAssumption, FS_Subset
<1>2. \A k \in K : KindOrder[k] \in Nat
  BY <1>1
<1> DEFINE rank == [k \in K |-> Cardinality(Less(k))]
<1> HIDE DEF K
<1>3. N \in Nat
  BY <1>1, FS_CardinalityType
<1>4. \A k \in K : IsFiniteSet(Less(k)) /\ Less(k) \in SUBSET K
  BY <1>1, FS_Subset
<1>5. \A k \in K : Cardinality(Less(k)) \in Nat
  BY <1>4, FS_CardinalityType
<1>6. ASSUME NEW S, NEW T, IsFiniteSet(T), S \in SUBSET T, NEW x \in T, x \notin S
      PROVE  Cardinality(S) < Cardinality(T)
  <2>1. Cardinality(S) <= Cardinality(T) /\ (Cardinality(S) = Cardinality(T) => S = T) /\ IsFiniteSet(S)
    BY <1>6, FS_Subset
  <2>2. Cardinality(S) # Cardinality(T)
    BY <1>6, <2>1
  <2>3. Cardinality(S) \in Nat /\ Cardinality(T) \in Nat
    BY <1>6, <2>1, FS_CardinalityType
  <2> QED BY <2>1, <2>2, <2>3
<1>7. ASSUME NEW k \in K PROVE Cardinality(Less(k)) \in R
  <2>1. k \notin Less(k)
    BY <1>2
  <2> DEFINE S == Less(k)
  <2>2. S \in SUBSET K /\ k \notin S
    BY <2>1
  <2> HIDE DEF S, N
  <2>3. Cardinality(S) < Cardinality(K)
    BY <1>1, <1>6, <2>2
  <2>4. Cardinality(S) \in Nat /\ Cardinality(S) < N
    BY <1>5, <2>3 DEF S, N
  <2>5. Cardinality(S) \in 0..(N - 1)
    BY <1>3, <2>4
  <2> QED BY <2>5 DEF S
<1>8. ASSUME NEW j \in K, NEW k \in K, KindOrder[j] < KindOrder[k] PROVE Cardinality(Less(j)) < Cardinality(Less(k))
  <2>1. Less(j) \in SUBSET Less(k)
    BY <1>2, <1>8
  <2>2. j \in Less(k) /\ j \notin Less(j)
    BY <1>2, <1>8
  <2> DEFINE S == Less(j)
             T == Less(k)
  <2>3. IsFiniteSet(T)
    BY <1>4
  <2>4. S \in SUBSET T /\ j \in T /\ j \notin S
    BY <2>1, <2>2
  <2> HIDE DEF S, T
  <2>5. Cardinality(S) < Cardinality(T)
    BY <1>6, <2>3, <2>4
  <2> QED BY <2>5 DEF S, T
<1>9. ASSUME NEW j \in K, NEW k \in K, Cardinality(Less(j)) = Cardinality(Less(k)) PROVE j = k
  <2>1. ~(KindOrder[j] < KindOrder[k])
    <3>1. Cardinality(Less(j)) \in Nat /\ Cardinality(Less(k)) \in Nat
      BY <1>5
    <3>2. ~(Cardinality(Less(j)) < Cardinality(Less(k)))
      BY <1>9, <3>1
    <3> QED BY <1>8, <3>2
  <2>2. ~(KindOrder[k] < KindOrder[j])
    <3>1. Cardinality(Less(j)) \in Nat /\ Cardinality(Less(k)) \in Nat
      BY <1>5
    <3>2. ~(Cardinality(Less(k)) < Cardinality(Less(j)))
      BY <1>9, <3>1
    <3> QED BY <1>8, <3>2
  <2>3. KindOrder[j] = KindOrder[k]
    BY <1>2, <2>1, <2>2
  <2> QED BY <1>1, <2>3
<1>10. rank \in [K -> R] /\ \A k \in K : rank[k] = Cardinality(Less(k))
  <2> HIDE DEF Less, R
  <2> QED BY <1>7
<1>11. \A j, k \in K : rank[j] = rank[k] => j = k
  <2> HIDE DEF rank, Less
  <2> QED BY <1>9, <1>10
<1> HIDE DEF rank, Less, R, N
<1>12. rank \in Injection(K, R)
  BY <1>10, <1>11 DEF Injection, IsInjective
<1>13. IsFiniteSet(R) /\ Cardinality(R) = N
  BY <1>3, FS_Interval DEF R
<1>14. rank \in Surjection(K, R)
  BY <1>12, <1>13, FS_Injection DEF N
<1>15. \A n \in R : \E k \in K : rank[k] = n
  BY <1>14 DEF Surjection
<1> DEFINE At2(n) == CHOOSE k \in K : Cardinality(Less(k)) = n - 1
<1>16. ASSUME NEW n \in 1..N PROVE At2(n) \in K /\ Cardinality(Less(At2(n))) = n - 1
  <2>1. n - 1 \in R
    BY <1>3 DEF R
  <2>2. \E k \in K : Cardinality(Less(k)) = n - 1
    BY <1>10, <1>15, <2>1
  <2> QED BY <2>2
<1>17. SortedKinds(context) = [n \in 1..N |-> At2(n)]
  BY DEF SortedKinds, K, N, Less
<1> DEFINE s == SortedKinds(context)
<1>18. s \in [1..N -> K] /\ \A n \in 1..N : s[n] = At2(n)
  <2> HIDE DEF At2
  <2> QED BY <1>16, <1>17
<1>19. s \in Seq(K) /\ DOMAIN s = 1..N
  <2> HIDE DEF s
  <2> QED BY <1>3, <1>18, SeqDef
<1>20. ASSUME NEW k \in K PROVE \E n \in 1..N : s[n] = k
  <2>1. PICK n \in 1..N : Cardinality(Less(k)) = n - 1
    <3>1. rank[k] \in 0..(N - 1)
      BY <1>10 DEF R
    <3>2. rank[k] + 1 \in 1..N /\ (rank[k] + 1) - 1 = rank[k]
      BY <1>3, <3>1
    <3> QED BY <1>10, <3>2
  <2>2. s[n] \in K /\ Cardinality(Less(s[n])) = n - 1
    <3> HIDE DEF s, At2
    <3> QED BY <1>16, <1>18
  <2> HIDE DEF s
  <2>3. s[n] = k
    BY <1>9, <2>1, <2>2
  <2> QED BY <2>3
<1>21. ToSet(s) = K
  <2> HIDE DEF s, At2
  <2> QED BY <1>18, <1>19, <1>20 DEF ToSet
<1> QED BY <1>19, <1>21 DEF K

Tokens == STRING \cup Signs \cup {":"} \cup DOMAIN KindOrder

(* Contexts of which the canonical key can be told.                        *)
Described(context) ==
  Kinds(context) \subseteq DOMAIN KindOrder /\ \A kind \in Kinds(context) : KeyOf(context, kind) \in Seq(STRING)

EncodedKey(context, kind) == EncodeKey(KeyOf(context, kind))

(* An encoded key has no colon.                                            *)
LEMMA EncodedKeyIs ==
  ASSUME NEW context, Described(context), NEW kind \in Kinds(context)
  PROVE  EncodedKey(context, kind) \in Seq(Tokens \ {":"})
<1> DEFINE key == KeyOf(context, kind)
           W == (STRING \cup Signs) \ {":"}
<1>1. key \in Seq(STRING)
  BY DEF Described
<1> HIDE DEF key
<1>2. PICK g : Encoding(g, STRING, key) /\ EncodeKey(key) = g[Len(key)]
  BY <1>1, EncodeUnfolds
<1>3. g[Len(key)] \in Seq(W)
  <2>1. Len(key) \in 0..Len(key)
    BY <1>1, LenProperties
  <2> QED BY <1>1, <1>2, <2>1, EncodingEnds
<1>4. W \subseteq Tokens \ {":"}
  BY DEF Tokens
<1> HIDE DEF W
<1>5. g[Len(key)] \in Seq(Tokens \ {":"})
  <2> DEFINE V == Tokens \ {":"}
  <2>1. W \subseteq V
    BY <1>4
  <2> HIDE DEF V
  <2>2. g[Len(key)] \in Seq(V)
    BY <1>3, <2>1, SeqMonotonic
  <2> QED BY <2>2 DEF V
<1> QED BY <1>2, <1>5 DEF EncodedKey, key

(* What is before the nth kind in a canonical key.                         *)
Before(g, n) == IF n = 1 THEN <<>> ELSE g[n - 1] \o <<":">>

(* A canonical key, kind by kind.                                          *)
Canonical(g, context, k) ==
  /\ k \in Seq(DOMAIN KindOrder) /\ ToSet(k) = Kinds(context)
  /\ g \in [0..Len(k) -> Seq(Tokens)] /\ g[0] = <<>>
  /\ \A n \in 1..Len(k) : g[n] = (Before(g, n) \o <<k[n], ":">>) \o EncodedKey(context, k[n])

(* The first of four sequences may be put before the second first.         *)
Associates(a, b, c, d) == a \o ((b \o c) \o d) = ((a \o b) \o c) \o d

(* A part that is put together is what is put together of the parts.       *)
LEMMA PartAssociates ==
  ASSUME NEW W, NEW a \in Seq(W), NEW b \in Seq(W), NEW c \in Seq(W), NEW d \in Seq(W)
  PROVE  Associates(a, b, c, d)
<1>1. b \o c \in Seq(W) /\ a \o b \in Seq(W) 
  BY ConcatIs
<1> DEFINE bc == b \o c
<1>2. a \o (bc \o d) = (a \o bc) \o d
  <2> HIDE DEF bc
  <2> QED BY <1>1, ConcatAssociates DEF bc
<1>3. a \o (b \o c) = (a \o b) \o c
  BY ConcatAssociates
<1> QED BY <1>2, <1>3 DEF Associates

(* The canonical key is the last of them.                                  *)
LEMMA CanonicalUnfolds ==
  ASSUME NEW context, Described(context), Kinds(context) # {"user"}
  PROVE  \E g, k : Canonical(g, context, k) /\ CanonicalKey(context) = g[Len(k)]
<1> DEFINE k == SortedKinds(context)
           sep(n) == IF n = 1 THEN <<>> ELSE <<":">>
           part(n) == (sep(n) \o <<k[n], ":">>) \o EncodedKey(context, k[n])
           s == [n \in DOMAIN k |-> part(n)]
<1>1. CanonicalKey(context) = FlattenSeq(s)
  BY DEF CanonicalKey, EncodedKey
<1>2. k \in Seq(Kinds(context)) /\ ToSet(k) = Kinds(context)
  BY KindsSorted DEF Described
<1> HIDE DEF k
<1>3. Len(k) \in Nat /\ DOMAIN k = 1..Len(k)
  BY <1>2, LenProperties
<1>4. ASSUME NEW n \in 1..Len(k)
      PROVE  /\ k[n] \in Kinds(context) /\ sep(n) \in Seq(Tokens) /\ <<k[n], ":">> \in Seq(Tokens)
             /\ EncodedKey(context, k[n]) \in Seq(Tokens)
  <2>1. k[n] \in Kinds(context)
    BY <1>2, ElementOfSeq
  <2>2. k[n] \in Tokens /\ ":" \in Tokens
    BY <2>1 DEF Described, Tokens
  <2>3. EncodedKey(context, k[n]) \in Seq(Tokens \ {":"})
    BY <2>1, EncodedKeyIs
  <2>4. EncodedKey(context, k[n]) \in Seq(Tokens)
    <3> DEFINE V == Tokens \ {":"}
    <3>1. V \subseteq Tokens
      OBVIOUS
    <3> HIDE DEF V
    <3>2. EncodedKey(context, k[n]) \in Seq(V)
      BY <2>3 DEF V
    <3> QED BY <3>1, <3>2, SeqMonotonic
  <2> QED BY <2>1, <2>2, <2>4
<1>5. ASSUME NEW n \in 1..Len(k) PROVE part(n) \in Seq(Tokens)
  <2>1. sep(n) \o <<k[n], ":">> \in Seq(Tokens)
    BY <1>4, ConcatIs
  <2> HIDE DEF sep
  <2> QED BY <1>4, <2>1, ConcatIs
<1> HIDE DEF part
<1>6. s \in Seq(Seq(Tokens)) /\ Len(s) = Len(k) /\ \A n \in 1..Len(k) : s[n] = part(n)
  <2> DEFINE V == Seq(Tokens)
  <2>1. \A n \in 1..Len(k) : part(n) \in V
    BY <1>5
  <2> HIDE DEF V
  <2>2. [n \in 1..Len(k) |-> part(n)] \in Seq(V)
    BY <1>3, <2>1, IsASeq
  <2>3. s = [n \in 1..Len(k) |-> part(n)]
    BY <1>3
  <2> QED BY <1>3, <2>2, <2>3 DEF V
<1> HIDE DEF s
<1>7. PICK g : Concatenation(g, Tokens, s) /\ FlattenSeq(s) = g[Len(s)]
  BY <1>6, FlattenUnfolds
<1>8. g \in [0..Len(k) -> Seq(Tokens)] /\ g[0] = <<>> /\ \A n \in 1..Len(k) : g[n] = g[n - 1] \o part(n)
  BY <1>6, <1>7 DEF Concatenation
<1>9. ASSUME NEW n \in 1..Len(k) PROVE g[n] = (Before(g, n) \o <<k[n], ":">>) \o EncodedKey(context, k[n])
  <2>1. g[n] = g[n - 1] \o ((sep(n) \o <<k[n], ":">>) \o EncodedKey(context, k[n]))
    BY <1>8 DEF part
  <2>2. n - 1 \in 0..Len(k) /\ (n = 1 => n - 1 = 0)
    BY <1>3
  <2>3. g[n - 1] \in Seq(Tokens)
    BY <1>8, <2>2
  <2>4. g[n - 1] \o sep(n) = Before(g, n)
    <3>1. CASE n = 1
      <4>1. g[n - 1] = <<>> /\ sep(n) = <<>> /\ Before(g, n) = <<>>
        BY <1>8, <2>2, <3>1 DEF Before
      <4>2. <<>> \o <<>> = <<>>
        OBVIOUS
      <4> QED BY <4>1, <4>2
    <3>2. CASE n # 1
      BY <3>2 DEF Before
    <3> QED BY <3>1, <3>2
  <2> HIDE DEF sep
  <2>5. g[n] = ((g[n - 1] \o sep(n)) \o <<k[n], ":">>) \o EncodedKey(context, k[n])
    <3> DEFINE p == <<k[n], ":">>
               d == EncodedKey(context, k[n])
               a == g[n - 1]
               b == sep(n)
    <3>1. p \in Seq(Tokens) /\ d \in Seq(Tokens) /\ a \in Seq(Tokens) /\ b \in Seq(Tokens)
      BY <1>4, <2>3
    <3>2. g[n] = a \o ((b \o p) \o d)
      BY <2>1
    <3> HIDE DEF p, d, a, b
    <3>3. Associates(a, b, p, d)
      BY <3>1, PartAssociates
    <3>4. g[n] = ((a \o b) \o p) \o d
      BY <3>2, <3>3 DEF Associates
    <3> QED BY <3>4 DEF p, d, a, b
  <2> QED BY <2>4, <2>5
<1>10. k \in Seq(DOMAIN KindOrder)
  BY <1>2, SeqMonotonic DEF Described
<1>11. Canonical(g, context, k)
  BY <1>2, <1>8, <1>9, <1>10 DEF Canonical
<1> QED BY <1>1, <1>6, <1>7, <1>11

(* What is put together for a kind, which is not nothing.                  *)
Grown(g, context, k, n) ==
  /\ Before(g, n) \in Seq(Tokens) /\ k[n] \in Tokens /\ EncodedKey(context, k[n]) \in Seq(Tokens \ {":"})
  /\ g[n] = (Before(g, n) \o <<k[n], ":">>) \o EncodedKey(context, k[n])
  /\ g[n] # <<>> /\ k[n] \in Kinds(context)

(* A canonical key grows with every kind.                                  *)
LEMMA CanonicalGrows ==
  ASSUME NEW context, Described(context), NEW g, NEW k, Canonical(g, context, k), NEW n \in 1..Len(k)
  PROVE  Grown(g, context, k, n)
<1>1. /\ k \in Seq(DOMAIN KindOrder) /\ ToSet(k) = Kinds(context)
      /\ g \in [0..Len(k) -> Seq(Tokens)]
      /\ \A i \in 1..Len(k) : g[i] = (Before(g, i) \o <<k[i], ":">>) \o EncodedKey(context, k[i])
  BY DEF Canonical
<1>2. Len(k) \in Nat /\ n - 1 \in 0..Len(k) /\ n \in DOMAIN k
  BY <1>1, LenProperties
<1>3. k[n] \in Kinds(context)
  BY <1>1, <1>2 DEF ToSet
<1>4. k[n] \in Tokens /\ ":" \in Tokens
  BY <1>3 DEF Described, Tokens
<1>5. Before(g, n) \in Seq(Tokens)
  <2>1. CASE n = 1
    BY <2>1 DEF Before
  <2>2. CASE n # 1
    <3>1. g[n - 1] \in Seq(Tokens) /\ <<":">> \in Seq(Tokens)
      BY <1>1, <1>2, <1>4
    <3>2. g[n - 1] \o <<":">> \in Seq(Tokens)
      <4> DEFINE a == g[n - 1]
                 c == <<":">>
      <4> HIDE DEF a, c
      <4>1. a \in Seq(Tokens) /\ c \in Seq(Tokens)
        BY <3>1 DEF a, c
      <4>2. a \o c \in Seq(Tokens)
        BY <4>1, ConcatIs
      <4> QED BY <4>2 DEF a, c
    <3> QED BY <2>2, <3>2 DEF Before
  <2> QED BY <2>1, <2>2
<1>6. EncodedKey(context, k[n]) \in Seq(Tokens \ {":"})
  BY <1>3, EncodedKeyIs
<1>7. g[n] = (Before(g, n) \o <<k[n], ":">>) \o EncodedKey(context, k[n])
  BY <1>1
<1>8. g[n] # <<>>
  <2> DEFINE a == Before(g, n)
             p == <<k[n], ":">>
             d == EncodedKey(context, k[n])
             V == Tokens \ {":"}
  <2>1. a \in Seq(Tokens) /\ p \in Seq(Tokens) /\ Len(p) = 2 /\ g[n] = (a \o p) \o d
    BY <1>4, <1>5, <1>7
  <2>2. d \in Seq(V) /\ V \subseteq Tokens
    BY <1>6
  <2> HIDE DEF a, p, d, V
  <2>3. d \in Seq(Tokens)
    BY <2>2, SeqMonotonic
  <2>4. a \o p \in Seq(Tokens) /\ Len(a) \in Nat /\ Len(a \o p) = Len(a) + 2
    <3>1. a \o p \in Seq(Tokens) /\ Len(a) \in Nat /\ Len(a \o p) = Len(a) + Len(p)
      BY <2>1, ConcatIs
    <3> QED BY <2>1, <3>1
  <2> DEFINE x == a \o p
  <2> HIDE DEF x
  <2>5. Len(x \o d) = Len(x) + Len(d) /\ Len(d) \in Nat
    BY <2>3, <2>4, ConcatIs DEF x
  <2>6. Len(x \o d) # 0
    BY <2>4, <2>5 DEF x
  <2>7. x \o d # <<>>
    BY <2>6
  <2> QED BY <2>1, <2>7 DEF x
<1> QED BY <1>3, <1>4, <1>5, <1>6, <1>7, <1>8 DEF Grown

(* A canonical key is told apart, kind by kind.                            *)
LEMMA PartDecodes ==
  ASSUME NEW c, Described(c), NEW g, NEW k, Canonical(g, c, k), NEW m \in 1..Len(k),
         NEW d, Described(d), NEW h, NEW l, Canonical(h, d, l), NEW n \in 1..Len(l),
         g[m] = h[n]
  PROVE  /\ k[m] = l[n] /\ EncodedKey(c, k[m]) = EncodedKey(d, l[n])
         /\ (m = 1) = (n = 1) /\ g[m - 1] = h[n - 1]
<1> DEFINE a == Before(g, m)
           b == Before(h, n)
           e == EncodedKey(c, k[m])
           f == EncodedKey(d, l[n])
           i == k[m]
           j == l[n]
<1>1. Grown(g, c, k, m)
  BY CanonicalGrows
<1>2. Grown(h, d, l, n)
  BY CanonicalGrows
<1>3. /\ a \in Seq(Tokens) /\ i \in Tokens /\ e \in Seq(Tokens \ {":"})
      /\ b \in Seq(Tokens) /\ j \in Tokens /\ f \in Seq(Tokens \ {":"})
      /\ (a \o <<i, ":">>) \o e = (b \o <<j, ":">>) \o f /\ ":" \in Tokens
  BY <1>1, <1>2 DEF Grown, Tokens
<1>4. a = b /\ i = j /\ e = f
  <2> HIDE DEF a, b, e, f, i, j
  <2>1. SamePart(a, i, e, b, j, f)
    BY <1>3 DEF SamePart
  <2> QED BY <1>3, <2>1, LastPart
<1>5. Len(k) \in Nat /\ Len(l) \in Nat
  BY LenProperties DEF Canonical
<1>6. /\ m - 1 \in 0..Len(k) /\ n - 1 \in 0..Len(l) /\ (m = 1 => m - 1 = 0) /\ (n = 1 => n - 1 = 0)
  BY <1>5
<1>7. /\ g[0] = <<>> /\ h[0] = <<>> /\ g[m - 1] \in Seq(Tokens) /\ h[n - 1] \in Seq(Tokens) /\ <<":">> \in Seq(Tokens)
  <2>1. g \in [0..Len(k) -> Seq(Tokens)] /\ g[0] = <<>> /\ h \in [0..Len(l) -> Seq(Tokens)] /\ h[0] = <<>>
    BY DEF Canonical
  <2>2. g[m - 1] \in Seq(Tokens)
    BY <1>6, <2>1
  <2>3. h[n - 1] \in Seq(Tokens)
    BY <1>6, <2>1
  <2> QED BY <1>3, <2>1, <2>2, <2>3
<1>8. \A s \in Seq(Tokens) : s \o <<":">> # <<>>
  <2> SUFFICES ASSUME NEW s \in Seq(Tokens) PROVE s \o <<":">> # <<>>
    OBVIOUS
  <2>1. Len(s \o <<":">>) = Len(s) + 1 /\ Len(s) \in Nat
    BY <1>7, ConcatIs
  <2>2. Len(s \o <<":">>) # 0
    BY <2>1
  <2> QED BY <2>2
<1>9. \A s, t \in Seq(Tokens) : s \o <<":">> = t \o <<":">> => s = t
  <2> SUFFICES ASSUME NEW s \in Seq(Tokens), NEW t \in Seq(Tokens), s \o <<":">> = t \o <<":">> PROVE s = t
    OBVIOUS
  <2> DEFINE q == <<":">>
  <2>1. q \in Seq(Tokens) /\ s \o q = t \o q
    BY <1>7
  <2> HIDE DEF q
  <2>2. Len(s \o q) = Len(s) + Len(q) /\ Len(s) \in Nat /\ Len(q) \in Nat
    BY <2>1, ConcatIs
  <2>3. Len(t \o q) = Len(t) + Len(q) /\ Len(t) \in Nat
    BY <2>1, ConcatIs
  <2>4. Len(s) = Len(t)
    BY <2>1, <2>2, <2>3
  <2> QED BY <2>1, <2>4, ConcatCancels
<1>10. CASE m = 1 /\ n = 1
  BY <1>4, <1>6, <1>7, <1>10
<1>11. CASE m # 1 /\ n # 1
  <2>1. g[m - 1] \o <<":">> = h[n - 1] \o <<":">>
    BY <1>4, <1>11 DEF Before
  <2> QED BY <1>4, <1>7, <1>9, <1>11, <2>1
<1>12. CASE m = 1 /\ n # 1
  <2>1. h[n - 1] \o <<":">> = <<>>
    BY <1>4, <1>12 DEF Before
  <2> QED BY <1>7, <1>8, <2>1
<1>13. CASE m # 1 /\ n = 1
  <2>1. g[m - 1] \o <<":">> = <<>>
    BY <1>4, <1>13 DEF Before
  <2> QED BY <1>7, <1>8, <2>1
<1> QED BY <1>10, <1>11, <1>12, <1>13

(* The kinds and keys are told from a canonical key.                       *)
LEMMA CanonicalDecodes ==
  ASSUME NEW c, Described(c), NEW g, NEW k, Canonical(g, c, k),
         NEW d, Described(d), NEW h, NEW l, Canonical(h, d, l),
         g[Len(k)] = h[Len(l)]
  PROVE  KindsAndKeys(c) = KindsAndKeys(d)
<1> DEFINE M == Len(k)
           N == Len(l)
           S == {m \in 0..M : \A n \in 0..N : g[m] = h[n] =>
                   m = n /\ \A i \in 1..m : k[i] = l[i] /\ EncodedKey(c, k[i]) = EncodedKey(d, l[i])}
<1>1. M \in Nat /\ N \in Nat
  BY LenProperties DEF Canonical
<1>2. g[0] = <<>> /\ h[0] = <<>>
  BY DEF Canonical
<1>3. (\A m \in 1..M : g[m] # <<>>) /\ \A n \in 1..N : h[n] # <<>>
  <2>1. ASSUME NEW m \in 1..M PROVE g[m] # <<>>
    BY CanonicalGrows, ZenonT(60) DEF Grown
  <2>2. ASSUME NEW n \in 1..N PROVE h[n] # <<>>
    BY CanonicalGrows, ZenonT(60) DEF Grown
  <2> QED BY <2>1, <2>2
<1>4. 0 \in S
  <2> SUFFICES ASSUME NEW n \in 0..N, g[0] = h[n] PROVE n = 0
    BY <1>1
  <2>1. n \in 1..N \/ n = 0
    BY <1>1
  <2> QED BY <1>2, <1>3, <2>1
<1>5. ASSUME NEW m \in S, m < M PROVE m + 1 \in S
  <2>1. m \in 0..M /\ m + 1 \in 0..M /\ m + 1 \in 1..M
    BY <1>1, <1>5
  <2> SUFFICES ASSUME NEW n \in 0..N, g[m + 1] = h[n]
               PROVE  m + 1 = n /\ \A i \in 1..(m + 1) : k[i] = l[i] /\ EncodedKey(c, k[i]) = EncodedKey(d, l[i])
    BY <2>1
  <2>2. PICK r \in 1..M : r = m + 1 /\ r - 1 = m
    BY <2>1
  <2>3. n \in 1..N /\ n - 1 \in 0..N
    <3>1. n # 0
      BY <1>2, <1>3, <2>1
    <3> QED BY <1>1, <3>1
  <2>4. k[r] = l[n] /\ EncodedKey(c, k[r]) = EncodedKey(d, l[n]) /\ g[r - 1] = h[n - 1]
    <3>1. g[r] = h[n]
      BY <2>2
    <3> HIDE DEF S
    <3> QED BY <2>3, <3>1, PartDecodes
  <2>5. m = n - 1 /\ \A i \in 1..m : k[i] = l[i] /\ EncodedKey(c, k[i]) = EncodedKey(d, l[i])
    BY <2>2, <2>3, <2>4
  <2>6. m + 1 = n /\ r = n
    BY <2>2, <2>3, <2>5
  <2>7. \A i \in 1..(m + 1) : i \in 1..m \/ i = r
    BY <2>1, <2>2
  <2> HIDE DEF S
  <2> QED BY <2>4, <2>5, <2>6, <2>7
<1>6. \A m \in 0..M : m \in S
  <2>1. \A m \in 0..M : m \in S /\ m < M => m + 1 \in S
    BY <1>5
  <2> HIDE DEF S
  <2> QED BY <1>1, <1>4, <2>1, AllNumbersUpTo
<1>7. M = N /\ \A i \in 1..M : k[i] = l[i] /\ EncodedKey(c, k[i]) = EncodedKey(d, l[i])
  <2>1. M \in 0..M /\ N \in 0..N
    BY <1>1
  <2>2. M \in S
    BY <1>6, <2>1
  <2> QED BY <2>1, <2>2
<1> HIDE DEF S, M, N
<1>8. k \in Seq(DOMAIN KindOrder) /\ l \in Seq(DOMAIN KindOrder)
  BY DEF Canonical
<1>9. k = l
  BY <1>7, <1>8, SeqEqual DEF M, N
<1>10. Kinds(c) = ToSet(k) /\ Kinds(d) = ToSet(k)
  BY <1>9 DEF Canonical
<1>11. ASSUME NEW kind \in Kinds(c) PROVE KeyOf(c, kind) = KeyOf(d, kind)
  <2>1. PICK i \in 1..M : k[i] = kind
    BY <1>8, <1>10, ElementsOf DEF M
  <2>2. EncodeKey(KeyOf(c, kind)) = EncodeKey(KeyOf(d, kind))
    BY <1>7, <1>9, <2>1 DEF EncodedKey
  <2>3. KeyOf(c, kind) \in Seq(STRING) /\ KeyOf(d, kind) \in Seq(STRING)
    BY <1>10 DEF Described
  <2> QED BY <2>2, <2>3, KeyDecodes
<1> QED BY <1>10, <1>11 DEF KindsAndKeys

(* Contexts that were identified have canonical keys that tell them apart. *)
LEMMA DataTold == DataFollows => CanonicalKeysDistinct
<1> SUFFICES ASSUME DataFollows, identified # NoOne, NEW c \in Identified,
                    FromLDContext(c).valid, CanonicalKey(FromLDContext(c)) = CanonicalKey(identified.context),
                    {"user"} \notin {Kinds(FromLDContext(c)), Kinds(identified.context)}
             PROVE  KindsAndKeys(FromLDContext(c)) = KindsAndKeys(identified.context)
  BY DEF CanonicalKeysDistinct
<1>1. PICK x \in Identified : FromLDContext(x).valid /\ identified.context = FromLDContext(x)
  BY DEF DataFollows, IdentifiedFollows
<1> DEFINE a == FromLDContext(c)
           b == FromLDContext(x)
<1>2. Described(a) /\ Described(b)
  BY <1>1, IdentifiedAssumption DEF Described
<1>3. CanonicalKey(a) = CanonicalKey(b) /\ Kinds(a) # {"user"} /\ Kinds(b) # {"user"}
  BY <1>1
<1> HIDE DEF a, b
<1>4. PICK g, k : Canonical(g, a, k) /\ CanonicalKey(a) = g[Len(k)]
  BY <1>2, <1>3, CanonicalUnfolds
<1>5. PICK h, l : Canonical(h, b, l) /\ CanonicalKey(b) = h[Len(l)]
  BY <1>2, <1>3, CanonicalUnfolds
<1>6. KindsAndKeys(a) = KindsAndKeys(b)
  <2>1. g[Len(k)] = h[Len(l)]
    BY <1>3, <1>4, <1>5
  <2> QED BY <1>2, <1>4, <1>5, <2>1, CanonicalDecodes
<1> QED BY <1>1, <1>6 DEF a, b

(* Deduplication by canonical key takes no context for another of other    *)
(* kinds or keys, however keys are made up: CanonicalKeysDistinct.         *)
THEOREM CanonicalKeysDistinctEver == Spec => []CanonicalKeysDistinct
  BY DataFollowsEver, DataTold, PTL
=============================================================================
