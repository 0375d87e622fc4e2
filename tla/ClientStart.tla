---------------------------- MODULE ClientStart ----------------------------
(***************************************************************************)
(* The client with the data source that its configuration asks for:        *)
(* streaming, polling, files, or none (offline or useLdd).  At an edge     *)
(* network there is none, and the store is a view of a key-value service.  *)
(***************************************************************************)
EXTENDS LDClient, FiniteSets

CONSTANTS MaxLatest,    \* bound: changes of the data
          MaxPending, MalformedHasETag,
          Path, MaxHandlers,  \* of FileDataSource, which is given at least one file
          Evaluation, MaxReads  \* of EdgeStore

ASSUME ClientAssumption ==
  MaxLatest \in Nat \ {0} /\ MaxPending \in Nat \ {0} /\ MalformedHasETag \in BOOLEAN
  /\ Path # {} /\ IsFiniteSet(Path) /\ MaxHandlers \in Nat
  /\ IsFiniteSet(Evaluation) /\ MaxReads \in Nat

VARIABLES source,       \* config.updateProcessor, config.stream, config.offline or config.useLdd
          latest,
          connection, told, garbled,
          requests, timers, etag, refused,
          files, bad, loading, watch, fileData, fileTimestamps, handlers, debounce, initCallback, missed,
          akamai, cache, evaluations, begun, oldest, alone, fetched

Streaming == INSTANCE StreamingProcessor
Polling == INSTANCE PollingProcessor
File == INSTANCE FileDataSource
Edge == INSTANCE EdgeStore

streamVars == <<connection, told, garbled>>
pollVars == <<requests, timers, etag, refused>>
fileVars == <<files, bad, loading, watch, fileData, fileTimestamps, handlers, debounce, initCallback, missed>>
edgeVars == <<akamai, cache, evaluations, begun, oldest, alone, fetched>>
vars == <<clientVars, source, latest, streamVars, pollVars, fileVars, edgeVars>>

NoStream == connection = "none" /\ told = 0 /\ garbled = FALSE
NoPoll == requests = 0 /\ timers = 0 /\ etag = 0 /\ refused = FALSE

Init ==
  /\ InitClient /\ latest = 1
  /\ \/ source = "stream" /\ Streaming!InitStream /\ NoPoll /\ File!NoFiles /\ Edge!InitEdge(FALSE)
     \/ source = "poll" /\ Polling!InitPoll /\ NoStream /\ File!NoFiles /\ Edge!InitEdge(FALSE)
     \/ source = "file" /\ File!InitFiles /\ NoStream /\ NoPoll /\ Edge!InitEdge(FALSE)
     \/ /\ source \in {"null", "edge"} /\ NoStream /\ File!NoFiles
        /\ timers = 1 /\ requests = 0 /\ etag = 0 /\ refused = FALSE
        /\ \E isAkamai \in BOOLEAN : Edge!InitEdge(isAkamai /\ source = "edge")

Change ==
  /\ latest < MaxLatest /\ latest' = latest + 1
  /\ IF source = "file" THEN \E p \in Path : File!WriteFile(p) ELSE UNCHANGED <<clientVars, fileVars>>
  /\ UNCHANGED <<source, streamVars, pollVars, edgeVars>>

(* Bound: with files, and at the edge, nobody waits; what becomes of the   *)
(* promise depends on the calls of the data source only.                   *)
Wait ==
  /\ source \notin {"file", "edge"} /\ WaitForInitialization
  /\ UNCHANGED <<source, latest, streamVars, pollVars, fileVars, edgeVars>>

Stream == source = "stream" /\ Streaming!NextStream /\ UNCHANGED <<source, pollVars, fileVars, edgeVars>>

PollStep(A) == source = "poll" /\ A /\ UNCHANGED <<source, streamVars, fileVars, edgeVars>>

FileStep(A) == source = "file" /\ A /\ UNCHANGED <<source, streamVars, pollVars, edgeVars>>

EdgeStep == source = "edge" /\ Edge!NextEdge /\ UNCHANGED <<source, streamVars, pollVars, fileVars>>

(* NullUpdateProcessor: a timer calls back without data; stop does not     *)
(* clear it.                                                               *)
NullTimer ==
  /\ source \in {"null", "edge"} /\ timers = 1 /\ timers' = 0
  /\ StartSucceeded
  /\ UNCHANGED <<stopped, pending, stored, lost, source, latest, streamVars, requests, etag, refused, fileVars, edgeVars>>

Next == Change \/ Wait \/ Stream \/ PollStep(Polling!NextPoll) \/ FileStep(File!NextFiles) \/ EdgeStep \/ NullTimer

Spec ==
  /\ Init /\ [][Next]_vars
  /\ WF_vars(PollStep(Polling!Timer)) /\ WF_vars(PollStep(Polling!PollInitDone))
  /\ WF_vars(PollStep(Polling!Reply))
  /\ SF_vars(PollStep(Polling!GoodReply))
  /\ WF_vars(FileStep(File!Loads)) /\ WF_vars(FileStep(File!OldestHandler))
  /\ WF_vars(FileStep(File!DebounceFires)) /\ WF_vars(FileStep(File!FileInitDone))

-----------------------------------------------------------------------------
TypeOK ==
  /\ TypeOKClient(1..latest)
  /\ source \in {"stream", "poll", "file", "null", "edge"} /\ latest \in 1..MaxLatest
  /\ connection \in {"none", "connecting", "open", "ended"} /\ told \in 0..latest /\ garbled \in BOOLEAN
  /\ requests \in 0..1 /\ timers \in 0..1 /\ etag \in 0..latest /\ refused \in BOOLEAN
  /\ IF source = "file" THEN File!TypeOKFiles ELSE File!NoFiles
  /\ Edge!TypeOKEdge

(* See LDClient, StreamingProcessor, PollingProcessor, FileDataSource and  *)
(* EdgeStore.                                                              *)
ReadyOnceWithData == ReadyOnce /\ (source \notin {"null", "edge"} => ReadyMeansData)
StreamApplied == Streaming!StreamApplied
OnePollChain == source = "poll" => Polling!OnePollChain
FilesCatchUp == source = "file" => File!FilesCatchUp
EvaluatesFreshData == Edge!EvaluatesFreshData
PollingCatchesUp == source = "poll" => Polling!PollingCatchesUp
=============================================================================
