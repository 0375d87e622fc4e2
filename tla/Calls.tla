------------------------------- MODULE Calls --------------------------------
(***************************************************************************)
(* The calls of shared/sdk-server/src/LDClientImpl.ts that evaluate flags, *)
(* and the events and flag states that they make (EventFactory.ts,         *)
(* isExperiment.ts, FlagsStateBuilder.ts).  An answer is the number of a   *)
(* variation, "default" or "null".                                         *)
(***************************************************************************)
EXTENDS Evaluator

IsExperiment(flag, res) ==
  \/ res.inExperiment
  \/ res.kind = "RULE_MATCH" /\ flag.rules[res.rule].trackEvents
  \/ res.kind = "FALLTHROUGH" /\ flag.trackEventsFallthrough

EvalEvent(flag, key, res, prereqOf, withReasons) ==
  LET addExperimentData == IsExperiment(flag, res) IN
  [key |-> key, versioned |-> TRUE, variation |-> res.variation, prereqOf |-> prereqOf,
   trackEvents |-> flag.trackEvents \/ addExperimentData,
   reason |-> IF withReasons \/ addExperimentData THEN res.kind ELSE "none",
   debug |-> flag.debugEventsUntilDate]

UnknownFlagEvent(key) ==
  [key |-> key, versioned |-> FALSE, variation |-> NoVariation, prereqOf |-> "none",
   trackEvents |-> FALSE, reason |-> "none", debug |-> FALSE]

Answer(value, events) == [value |-> value, events |-> events]

(* The events of the prerequisites come first.                             *)
AnswerOf(data, key, r, withReasons) ==
  LET OfPrerequisite(e) == EvalEvent(data[e[1]], e[1], e[3], e[2], withReasons) IN
  Answer(IF r.res.variation = NoVariation THEN "default" ELSE ToString(r.res.variation),
         Append([n \in DOMAIN r.st.events |-> OfPrerequisite(r.st.events[n])],
                EvalEvent(data[key], key, r.res, "none", withReasons)))

VariationInternal(data, context, key, withReasons) ==
  IF ~context.valid THEN Answer("default", <<>>)
  ELSE IF data[key] = NoItem THEN Answer("default", <<UnknownFlagEvent(key)>>)
  ELSE AnswerOf(data, key, Evaluate(data, context, key), withReasons)

EvaluateIfPossible(data, context, key, withReasons, config) ==
  IF (~config.initialized /\ ~config.storeInitialized) \/ config.offline THEN Answer("default", <<>>)
  ELSE VariationInternal(data, context, key, withReasons)

(* What differs is that variationDetail also makes events with reasons.    *)
Variation(data, context, key, config) == EvaluateIfPossible(data, context, key, FALSE, config)
VariationDetail(data, context, key, config) == EvaluateIfPossible(data, context, key, TRUE, config)

OmitForUntrackedFlags(flag, trackEvents, trackReason, options) ==  \* mutation
  options.detailsOnlyForTrackedFlags /\ ~flag.trackEvents

OmitDetails(flag, trackEvents, trackReason, options) ==
  options.detailsOnlyForTrackedFlags /\ ~trackEvents /\ ~trackReason /\ ~flag.debugEventsUntilDate

AddFlag(flag, res, options) ==
  LET trackReason == IsExperiment(flag, res)
      trackEvents == flag.trackEvents \/ trackReason
      omitDetails == OmitDetails(flag, trackEvents, trackReason, options)
  IN [value |-> IF res.variation = NoVariation THEN "null" ELSE ToString(res.variation),
      variation |-> res.variation,
      versioned |-> ~omitDetails,
      reason |-> IF trackReason \/ (options.withReasons /\ ~omitDetails) THEN res.kind ELSE "none",
      trackEvents |-> trackEvents, trackReason |-> trackReason, debug |-> flag.debugEventsUntilDate]

FlagsState(valid, flags) == [valid |-> valid, flags |-> flags]

(* Without data it evaluates what there is, but the state is not valid.    *)
AllFlagsState(data, context, options, config) ==
  IF config.offline \/ ~context.valid THEN FlagsState(FALSE, <<>>)
  ELSE LET shown == {key \in DOMAIN data : data[key].kind = "flag"
                       /\ (options.clientSideOnly => data[key].usingEnvironmentId)}
       IN FlagsState(config.initialized \/ config.storeInitialized,
            [key \in shown |-> AddFlag(data[key], Evaluate(data, context, key).res, options)])
=============================================================================
