------------------------------ MODULE EdgeStore ------------------------------
(***************************************************************************)
(* Evaluations at an edge network, where the feature store is a read-only  *)
(* view of a key-value service to which LaunchDarkly writes all data as    *)
(* one payload.  Cloudflare's and Vercel's SDK ask the service for every   *)
(* item; Akamai's puts a cache in between that each evaluation empties and *)
(* fills again before it begins.  Evaluations interleave at every await.   *)
(***************************************************************************)
EXTENDS LDClient, Integers, FiniteSets

CONSTANTS Evaluation,   \* calls of variation, variationDetail or allFlagsState
          MaxReads      \* bound: what one evaluation reads of the store

VARIABLES latest,       \* the payloads 1..latest were written, one after the other
          akamai,       \* the SDK is Akamai's
          cache,        \* CacheableStoreProvider.cache
          evaluations,
          begun,        \* ghost: the payload when it began
          oldest,       \* ghost: when the first began that overlapped with it
          alone,        \* ghost: no other evaluation has overlapped with it
          fetched       \* ghost: how often it got a payload of the service

edgeVars == <<akamai, cache, evaluations, begun, oldest, alone, fetched>>

(* What a provider answers besides payloads.                               *)
Nothing == 0    \* undefined in the case of Akamai, null otherwise
Garbled == -1   \* a text that is no JSON
Error == -2     \* the promise is rejected
Awaited == -3

Stage == {"begin", "prefetch", "initialized", "get", "all", "answered", "rejected", "unanswered"}
Settled == {"answered", "rejected", "unanswered"}

TypeOKEdge ==
  /\ akamai \in BOOLEAN /\ cache \in Garbled..latest
  /\ evaluations \in [Evaluation -> [stage : Stage, reply : Awaited..latest, asked : 0..latest,
                                      reads : Nat, used : SUBSET (1..latest)]]
  /\ begun \in [Evaluation -> 0..latest] /\ oldest \in [Evaluation -> 0..latest]
  /\ alone \in [Evaluation -> BOOLEAN] /\ fetched \in [Evaluation -> Nat]

InitEdge(isAkamai) ==
  /\ akamai = isAkamai /\ cache = Nothing
  /\ evaluations = [e \in Evaluation |->
       [stage |-> "begin", reply |-> Nothing, asked |-> 0, reads |-> 0, used |-> {}]]
  /\ begun = [e \in Evaluation |-> 0] /\ oldest = begun
  /\ alone = [e \in Evaluation |-> TRUE] /\ fetched = [e \in Evaluation |-> 0]

(* An evaluation v is from now on waiting for the answer to a request, or, *)
(* what the cache has being no empty text, for the next turn.              *)
Request(v, stage) == [v EXCEPT !.stage = stage, !.reply = Awaited, !.asked = latest]

CacheableGet(v, stage, cached) ==
  IF cached # Nothing THEN [v EXCEPT !.stage = stage, !.reply = cached] ELSE Request(v, stage)

EdgeGet(v) == Request(v, "get")
EdgeAll(v) == Request(v, "all")
EdgeInitialized(v) == Request(v, "initialized")

AkamaiGet(v) == CacheableGet(v, "get", cache)
AkamaiAll(v) == CacheableGet(v, "all", cache)
AkamaiInitialized(v) == CacheableGet(v, "initialized", cache)

(* The store is asked for the flag, for all flags, or for what the flag    *)
(* refers to.                                                              *)
Reads(v) ==
  LET counted == [v EXCEPT !.reads = @ + 1]
  IN {IF akamai THEN AkamaiGet(counted) ELSE EdgeGet(counted)}
     \cup IF v.reads > 0 THEN {} ELSE {IF akamai THEN AkamaiAll(counted) ELSE EdgeAll(counted)}

(* Before NullUpdateProcessor has called back the store is asked first     *)
(* whether it is initialized.                                              *)
EvaluateIfPossible(v) ==
  IF initState = "Initialized" THEN Reads(v)
  ELSE {IF akamai THEN AkamaiInitialized(v) ELSE EdgeInitialized(v)}

Becomes(e, v) == evaluations' = [evaluations EXCEPT ![e] = v]

PrefetchKeepsCache(e) ==  \* mutation: what is in the cache is not fetched again
  /\ Becomes(e, CacheableGet(evaluations[e], "prefetch", cache))
  /\ UNCHANGED cache

(* prefetchPayloadFromOriginStore.                                         *)
Prefetch(e) ==
  /\ cache' = Nothing
  /\ Becomes(e, CacheableGet(evaluations[e], "prefetch", Nothing))

Running == {e \in Evaluation : evaluations[e].stage \notin Settled \cup {"begin"}}

Least(S) == CHOOSE n \in S : \A m \in S : n <= m

AkamaiVariation(e) == akamai /\ Prefetch(e)

EdgeVariation(e) ==
  /\ ~akamai
  /\ \E v \in EvaluateIfPossible(evaluations[e]) : Becomes(e, v)
  /\ UNCHANGED cache

Begin(e) ==
  /\ evaluations[e].stage = "begin"
  /\ AkamaiVariation(e) \/ EdgeVariation(e)
  /\ begun' = [begun EXCEPT ![e] = latest]
  /\ oldest' = [oldest EXCEPT ![e] = Least({latest} \cup {begun[f] : f \in Running})]
  /\ alone' = [f \in Evaluation |-> alone[f] /\ (f \in Running \cup {e} => Running = {})]
  /\ UNCHANGED <<clientVars, latest, akamai, fetched>>

(* What the service can answer: a payload that was there between the       *)
(* request and the answer, or none that can be used.                       *)
Answers(v) == (v.asked..latest) \cup {Nothing, Garbled, Error}

(* The cache takes what is answered, and nothing from an error.            *)
Cached(reply) == IF akamai /\ reply # Error THEN cache' = reply ELSE UNCHANGED cache

Fetched(e) ==
  /\ evaluations[e].stage \notin Settled /\ evaluations[e].reply = Awaited
  /\ \E reply \in Answers(evaluations[e]) :
       /\ Becomes(e, [evaluations[e] EXCEPT !.reply = reply, !.asked = 0])
       /\ Cached(reply)
       /\ fetched' = [fetched EXCEPT ![e] = IF reply > Nothing THEN @ + 1 ELSE @]
  /\ UNCHANGED <<clientVars, latest, akamai, begun, oldest, alone>>

Replied(e, stages) == evaluations[e].stage \in stages /\ evaluations[e].reply # Awaited

EndsAs(e, v, stage) == Becomes(e, [v EXCEPT !.stage = stage, !.reply = Nothing])

(* After the await of Akamai's variation, whose promise an error rejects.  *)
Prefetched(e) ==
  /\ Replied(e, {"prefetch"})
  /\ IF evaluations[e].reply = Error THEN EndsAs(e, evaluations[e], "rejected")
     ELSE \E v \in EvaluateIfPossible(evaluations[e]) : Becomes(e, v)

(* config !== null                                                         *)
HasConfig(reply) == akamai \/ reply # Nothing

(* Whether the store is initialized: if not, the answer is the default.    *)
(* Nobody catches an error, and the callback is never called.              *)
InitializedDone(e) ==
  /\ Replied(e, {"initialized"})
  /\ IF evaluations[e].reply = Error THEN EndsAs(e, evaluations[e], "unanswered")
     ELSE IF ~HasConfig(evaluations[e].reply) THEN EndsAs(e, evaluations[e], "answered")
     ELSE \E v \in Reads(evaluations[e]) : Becomes(e, v)

(* What cannot be parsed is handled as an error, for which get calls back  *)
(* with null and all with no flags; without a flag there is no evaluation. *)
Deserialized(reply) == IF reply > Nothing THEN {reply} ELSE {}

ReadDone(e) ==
  /\ Replied(e, {"get", "all"})
  /\ LET v == [evaluations[e] EXCEPT !.used = @ \cup Deserialized(evaluations[e].reply)] IN
     \/ EndsAs(e, v, "answered")
     \/ /\ v.used # {} /\ v.reads < MaxReads
        /\ \E w \in Reads(v) : Becomes(e, w)

Continues(e) ==
  /\ Prefetched(e) \/ InitializedDone(e) \/ ReadDone(e)
  /\ UNCHANGED <<clientVars, latest, akamai, cache, begun, oldest, alone, fetched>>

NextEdge == \E e \in Evaluation : Begin(e) \/ Fetched(e) \/ Continues(e)

-----------------------------------------------------------------------------
(* An evaluation uses no payload that was replaced before it, or another   *)
(* that overlapped with it, began.  With Akamai's cache, and nothing else  *)
(* overlapping, it uses one payload and asks for it once.                  *)
EvaluatesFreshData ==
  \A e \in Evaluation :
    /\ \A n \in evaluations[e].used : oldest[e] <= n
    /\ akamai /\ alone[e] => Cardinality(evaluations[e].used) <= 1 /\ fetched[e] <= 1
=============================================================================
