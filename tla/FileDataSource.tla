--------------------------- MODULE FileDataSource ---------------------------
(***************************************************************************)
(* shared/sdk-server/src/data_sources/FileDataSource.ts with its           *)
(* FileLoader.ts: read all files and their timestamps, hand the data to    *)
(* the store, then watch the files, and 10 ms after a change hand the data *)
(* to the store again.                                                     *)
(*                                                                         *)
(* The contents and the timestamp of a file are the number of the change   *)
(* that wrote it last, and the data of the store the set of these numbers. *)
(* A file that cannot be parsed, or whose keys another file has, is bad.   *)
(***************************************************************************)
EXTENDS LDClient, FiniteSets, SequencesExt

CONSTANTS Path,          \* options.paths
          MaxPending,    \* bound: calls of the store that are not done
          MaxHandlers    \* bound: calls of a watcher's callback that are not done

VARIABLES
  files,          \* [Path -> what was written last]
  bad,            \* the changes that left a bad file
  loading,        \* [Path -> the read of loadAndWatch]
  watch,          \* "no": no autoUpdate, "later", "on", "closed"
  fileData, fileTimestamps,
  handlers,       \* calls of a watcher's callback, each at an await
  debounce,       \* debounceHandle: "none", or "timer" while its timer runs
  initCallback,   \* is present
  missed,         \* ghost: files whose data is older than a read or a change says
  latest          \* the number of changes so far

fileVars == <<files, bad, loading, watch, fileData, fileTimestamps, handlers, debounce, initCallback, missed>>

(* An await of the time stamp or the contents; got is 0 before the answer. *)
Await(path, step) == [path |-> path, step |-> step, got |-> 0, data |-> 0]

InitFiles ==
  /\ files = [p \in Path |-> 1] /\ bad = {} /\ watch \in {"no", "later"}
  /\ loading = [p \in Path |-> Await(p, "data")]
  /\ fileData = [p \in Path |-> 0] /\ fileTimestamps = [p \in Path |-> 0]
  /\ handlers = <<>> /\ debounce = "none" /\ initCallback = TRUE /\ missed = {}

NoFiles ==
  /\ files = <<>> /\ bad = {} /\ loading = <<>> /\ watch = "no"
  /\ fileData = <<>> /\ fileTimestamps = <<>>
  /\ handlers = <<>> /\ debounce = "none" /\ initCallback = FALSE /\ missed = {}

TypeOKFiles ==
  LET change == 1..latest
      Reads(step) == [path : Path, step : step, got : 0..latest, data : 0..latest]
  IN
  /\ files \in [Path -> change] /\ bad \subseteq change /\ watch \in {"no", "later", "on", "closed"}
  /\ loading \in [Path -> Reads({"data", "time", "loaded", "failed", "done"})]
  /\ fileData \in [Path -> 0..latest] /\ fileTimestamps \in [Path -> 0..latest]
  /\ handlers \in Seq(Reads({"time", "data"})) /\ debounce \in {"none", "timer"}
  /\ initCallback \in BOOLEAN /\ missed \subseteq Path

-----------------------------------------------------------------------------
(* Somebody writes a file; a watcher calls back, perhaps more than once.   *)

CallsBack(p) == handlers' = IF watch = "on" THEN Append(handlers, Await(p, "time")) ELSE handlers

WriteFile(p) ==
  /\ watch = "on" => Len(handlers) < MaxHandlers
  /\ files' = [files EXCEPT ![p] = latest']
  /\ bad' \in {bad, bad \cup {latest'}}
  /\ CallsBack(p)
  /\ missed' = IF watch # "on" /\ loading[p].step # "data" THEN missed \cup {p} ELSE missed
  /\ UNCHANGED <<clientVars, loading, watch, fileData, fileTimestamps, debounce, initCallback>>

CalledAgain(p) ==
  /\ watch = "on" /\ Len(handlers) < MaxHandlers
  /\ CallsBack(p)
  /\ UNCHANGED <<clientVars, files, bad, loading, watch, fileData, fileTimestamps, debounce, initCallback, missed, latest>>

-----------------------------------------------------------------------------
(* processFileData, called in a turn that has set fileData; an exception   *)
(* goes to the callback of start, while that is present.                   *)
ProcessFileData ==
  LET data == {fileData'[p] : p \in Path} IN
  IF data \cap bad # {}
  THEN /\ UNCHANGED pending
       /\ IF initCallback THEN StartFailed ELSE UNCHANGED <<initState, promise, ready, failed>>
  ELSE CallStore("init", data) /\ UNCHANGED <<initState, promise, ready, failed>>

(* The file system answers with the data, and the timestamp is asked for,  *)
(* and then with the timestamp.                                            *)
DataLoaded(p) ==
  /\ loading[p].step = "data"
  /\ loading' = [loading EXCEPT ![p] = [Await(p, "time") EXCEPT !.data = files[p]]]
  /\ UNCHANGED <<clientVars, files, bad, watch, fileData, fileTimestamps, handlers, debounce, initCallback, missed, latest>>

TimeLoaded(p) ==
  /\ loading[p].step = "time"
  /\ loading' = [loading EXCEPT ![p].step = "loaded", ![p].got = files[p]]
  /\ UNCHANGED <<clientVars, files, bad, watch, fileData, fileTimestamps, handlers, debounce, initCallback, missed, latest>>

(* A file cannot be read: loadAndWatch ends, and start reports it.         *)
LoadFails ==
  /\ \E p \in Path : loading[p].step \in {"data", "time"}
  /\ loading' = [p \in Path |-> Await(p, "failed")]
  /\ StartFailed
  /\ UNCHANGED <<stopped, pending, stored, lost, files, bad, watch, fileData, fileTimestamps, handlers, debounce,
                 initCallback, missed, latest>>

(* Everything is there: the callback, and then the watchers.               *)
AllLoaded ==
  /\ \A p \in Path : loading[p].step = "loaded"
  /\ Len(pending) < MaxPending
  /\ loading' = [p \in Path |-> Await(p, "done")]
  /\ fileData' = [p \in Path |-> loading[p].data]
  /\ fileTimestamps' = [p \in Path |-> loading[p].got]
  /\ ProcessFileData
  /\ watch' = IF watch = "later" THEN "on" ELSE watch
  /\ UNCHANGED <<stopped, stored, lost, files, bad, handlers, debounce, initCallback, missed, latest>>

-----------------------------------------------------------------------------
(* The callback of a watcher.                                              *)

Answer(n) ==
  /\ handlers[n].got = 0
  /\ handlers' = [handlers EXCEPT ![n].got = files[handlers[n].path]]
  /\ UNCHANGED <<clientVars, files, bad, loading, watch, fileData, fileTimestamps, debounce, initCallback, missed, latest>>

SameTimestamp(n) ==
  LET h == handlers[n] IN
  /\ h.step = "time" /\ h.got # 0 /\ h.got = fileTimestamps[h.path]
  /\ handlers' = RemoveAt(handlers, n)
  /\ UNCHANGED <<clientVars, files, bad, loading, watch, fileData, fileTimestamps, debounce, initCallback, missed, latest>>

NewTimestamp(n) ==
  LET h == handlers[n] IN
  /\ h.step = "time" /\ h.got # 0 /\ h.got # fileTimestamps[h.path]
  /\ fileTimestamps' = [fileTimestamps EXCEPT ![h.path] = h.got]
  /\ handlers' = [handlers EXCEPT ![n] = Await(h.path, "data")]
  /\ UNCHANGED <<clientVars, files, bad, loading, watch, fileData, debounce, initCallback, missed, latest>>

(* The data is kept, also if it is older than what is there, and the timer *)
(* is set unless it is set already.                                        *)
NewData(n) ==
  LET h == handlers[n] IN
  /\ h.step = "data" /\ h.got # 0
  /\ fileData' = [fileData EXCEPT ![h.path] = h.got]
  /\ missed' = IF h.got < fileData[h.path] THEN missed \cup {h.path} ELSE missed \ {h.path}
  /\ debounce' = IF debounce = "none" THEN "timer" ELSE debounce
  /\ handlers' = RemoveAt(handlers, n)
  /\ UNCHANGED <<clientVars, files, bad, loading, watch, fileTimestamps, initCallback, latest>>

DebounceKeepsHandle ==  \* mutation: the handle is not cleared, so no timer is ever set again
  /\ debounce = "timer" /\ debounce' = "handle"
  /\ Len(pending) < MaxPending
  /\ UNCHANGED fileData
  /\ ProcessFileData
  /\ UNCHANGED <<stopped, stored, lost, files, bad, loading, watch, fileTimestamps, handlers, initCallback, missed, latest>>

DebounceFires ==
  /\ debounce = "timer" /\ debounce' = "none"
  /\ Len(pending) < MaxPending
  /\ UNCHANGED fileData
  /\ ProcessFileData
  /\ UNCHANGED <<stopped, stored, lost, files, bad, loading, watch, fileTimestamps, handlers, initCallback, missed, latest>>

(* The store is done: start's callback is called, once.                    *)
FileInitDone ==
  /\ StoreDone("init")
  /\ IF initCallback THEN StartSucceeded ELSE UNCHANGED <<initState, promise, ready, failed>>
  /\ initCallback' = FALSE
  /\ UNCHANGED <<files, bad, loading, watch, fileData, fileTimestamps, handlers, debounce, missed, latest>>

(* close of the client closes the watchers there are; the timer, the calls *)
(* under way and watchers that are set up later stay.                      *)
StopFiles ==
  /\ ~stopped /\ stopped' = TRUE
  /\ watch' = IF watch = "on" THEN "closed" ELSE watch
  /\ UNCHANGED <<initState, promise, ready, failed, pending, stored, lost, files, bad, loading, fileData, fileTimestamps,
                 handlers, debounce, initCallback, missed, latest>>

Handle(n) == Answer(n) \/ SameTimestamp(n) \/ NewTimestamp(n) \/ NewData(n)

Loads == (\E p \in DOMAIN loading : DataLoaded(p) \/ TimeLoaded(p)) \/ AllLoaded

OldestHandler == handlers # <<>> /\ Handle(1)

NextFiles ==
  \/ Loads \/ LoadFails \/ DebounceFires \/ FileInitDone \/ StopFiles
  \/ \E n \in DOMAIN handlers : Handle(n)
  \/ \E p \in DOMAIN files : CalledAgain(p)

-----------------------------------------------------------------------------
(* While the files are watched, the store ends with what is in them.       *)
(* Three ways to miss a change are known: it comes after the first read of *)
(* the file and before the watchers, the answers of two reads change       *)
(* places, or the calls of the store do.                                   *)
FilesCatchUp ==
  <>[](watch = "on" /\ missed = {} /\ lost = {} /\ {files[p] : p \in Path} \cap bad = {} =>
         stored = {files[p] : p \in Path})
=============================================================================
