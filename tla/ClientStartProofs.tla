-------------------------- MODULE ClientStartProofs --------------------------
(***************************************************************************)
(* Theorems about ClientStart, for any number of changes, files, watchers' *)
(* callbacks and evaluations.  What all sources have in common is proved   *)
(* once: a step of the client tells the application something or nothing,  *)
(* and adds a call of the store, works one off, or leaves the store alone. *)
(***************************************************************************)
EXTENDS ClientStart, SequenceTheorems, FiniteSetTheorems, WellFoundedInduction, TLAPS

Source == {"stream", "poll", "file", "null", "edge"}

(* What belongs to the stream changes with the stream only.                *)
StreamOnly == (source = "stream") <=> (connection # "none")

(* The watchers, their callbacks and the timer come after the first data.  *)
FilesLoaded ==
  source = "file" =>
    /\ \A p \in Path : loading[p].step \in {"time", "loaded"} => loading[p].data # 0
    /\ IF watch \in {"no", "later"} THEN handlers = <<>> /\ debounce = "none"
       ELSE \A p \in Path : fileData[p] # 0

-----------------------------------------------------------------------------
(* Evaluations at the edge.  Of those that overlap, none has an oldest     *)
(* payload beyond the begin of another, and nothing that the cache or an   *)
(* answer has is older than that.                                          *)

Running == Edge!Running

BeginsAnew ==
  \A e \in Evaluation : evaluations[e].stage = "begin" =>
    evaluations[e].reply = 0 /\ evaluations[e].used = {} /\ fetched[e] = 0

Overlaps == \A e, f \in Running : oldest[e] <= begun[f]

AsksFresh ==
  \A e \in Running : evaluations[e].reply = Edge!Awaited => begun[e] <= evaluations[e].asked

RepliesFresh ==
  \A e \in Running : evaluations[e].reply > 0 => oldest[e] <= evaluations[e].reply

CacheFresh == cache > 0 => \A e \in Running : oldest[e] <= cache

OnlyAkamaiCaches == ~akamai => cache = 0

(* An evaluation that nothing overlaps with finds in the cache what it     *)
(* fetched itself, and nothing before it has fetched something.            *)
AloneAt(e) ==
  LET v == evaluations[e] IN
  /\ Running = {e}
  /\ v.reply > 0 => v.reply = cache
  /\ v.reply = Edge!Awaited => cache = 0
  /\ v.used \subseteq {cache} /\ fetched[e] <= 1
  /\ cache <= 0 => v.used = {} /\ fetched[e] = 0

AloneAtCache == \A e \in Running : akamai /\ alone[e] => AloneAt(e)

EdgeFresh ==
  /\ BeginsAnew /\ Overlaps /\ AsksFresh /\ RepliesFresh /\ CacheFresh
  /\ OnlyAkamaiCaches /\ AloneAtCache /\ EvaluatesFreshData

(* Every change that the connection has brought is in the store, is lost   *)
(* there, or is on its way; and an init on its way will not undo it: it    *)
(* has it, or was overtaken by it, or comes before it.                     *)
Brought(c) == c \in stored \cup lost \/ \E m \in DOMAIN pending : c \in pending[m].data

Survives(i, c) ==
  \/ c \in pending[i].data \cup pending[i].overtaken
  \/ \E m \in DOMAIN pending : i < m /\ c \in pending[m].data

Secured(c) == Brought(c) /\ \A i \in DOMAIN pending : pending[i].op = "init" => Survives(i, c)

NoMoreThan(S) ==
  /\ stored \subseteq S /\ lost \subseteq S
  /\ \A m \in DOMAIN pending : pending[m].data \subseteq S /\ pending[m].overtaken \subseteq S

Apart ==
  /\ stored \cap lost = {}
  /\ \A m \in DOMAIN pending : pending[m].data \cap pending[m].overtaken = {}

BroughtByStream ==
  connection = "open" /\ told > 0 /\ ~garbled => NoMoreThan(1..told) /\ \A c \in 1..told : Secured(c)

(* The invariant, by component.                                            *)
ClientOK == TypeOKClient(1..latest) /\ ReadyOnceWithData

StreamOK ==
  /\ connection \in {"none", "connecting", "open", "ended"}
  /\ told \in 0..latest /\ garbled \in BOOLEAN
  /\ StreamOnly /\ (source = "stream" => Apart /\ BroughtByStream)

PollOK ==
  /\ requests \in 0..1 /\ timers \in 0..1 /\ etag \in 0..latest /\ refused \in BOOLEAN
  /\ OnePollChain

FileOK == (IF source = "file" THEN File!TypeOKFiles ELSE File!NoFiles) /\ FilesLoaded

EdgeOK == Edge!TypeOKEdge /\ EdgeFresh

Invariant ==
  /\ source \in Source /\ latest \in 1..MaxLatest
  /\ ClientOK /\ StreamOK /\ PollOK /\ FileOK /\ EdgeOK

-----------------------------------------------------------------------------
(* The data sources share the client's operations.                         *)

(* The streaming processor tells client and store what the client model    *)
(* says.                                                                   *)
LEMMA SharedByStream ==
  /\ Streaming!StartFailed <=> StartFailed
  /\ Streaming!StartSucceeded <=> StartSucceeded
  /\ \A op, data : Streaming!CallStore(op, data) <=> CallStore(op, data)
  /\ \A op : Streaming!StoreDone(op) <=> StoreDone(op)
<1>1. Streaming!StartFailed <=> StartFailed
  BY DEF Streaming!StartFailed, StartFailed, Streaming!SettlePromise, SettlePromise
<1>2. Streaming!StartSucceeded <=> StartSucceeded
  BY DEF Streaming!StartSucceeded, StartSucceeded, Streaming!SettlePromise, SettlePromise
<1>3. \A op, data : Streaming!CallStore(op, data) <=> CallStore(op, data)
  BY DEF Streaming!CallStore, CallStore
<1>4. \A op : Streaming!StoreDone(op) <=> StoreDone(op)
  BY DEF Streaming!StoreDone, StoreDone, Streaming!Passed, Passed, Streaming!RemoveAt, RemoveAt
<1> QED
  BY <1>1, <1>2, <1>3, <1>4

(* So does the polling processor.                                          *)
LEMMA SharedByPoll ==
  /\ Polling!StartFailed <=> StartFailed
  /\ Polling!StartSucceeded <=> StartSucceeded
  /\ \A op, data : Polling!CallStore(op, data) <=> CallStore(op, data)
  /\ \A op : Polling!StoreDone(op) <=> StoreDone(op)
<1>1. Polling!StartFailed <=> StartFailed
  BY DEF Polling!StartFailed, StartFailed, Polling!SettlePromise, SettlePromise
<1>2. Polling!StartSucceeded <=> StartSucceeded
  BY DEF Polling!StartSucceeded, StartSucceeded, Polling!SettlePromise, SettlePromise
<1>3. \A op, data : Polling!CallStore(op, data) <=> CallStore(op, data)
  BY DEF Polling!CallStore, CallStore
<1>4. \A op : Polling!StoreDone(op) <=> StoreDone(op)
  BY DEF Polling!StoreDone, StoreDone, Polling!Passed, Passed, Polling!RemoveAt, RemoveAt
<1> QED
  BY <1>1, <1>2, <1>3, <1>4

(* So does the file data source.                                           *)
LEMMA SharedByFile ==
  /\ File!StartFailed <=> StartFailed
  /\ File!StartSucceeded <=> StartSucceeded
  /\ \A op, data : File!CallStore(op, data) <=> CallStore(op, data)
  /\ \A op : File!StoreDone(op) <=> StoreDone(op)
<1>1. File!StartFailed <=> StartFailed
  BY DEF File!StartFailed, StartFailed, File!SettlePromise, SettlePromise
<1>2. File!StartSucceeded <=> StartSucceeded
  BY DEF File!StartSucceeded, StartSucceeded, File!SettlePromise, SettlePromise
<1>3. \A op, data : File!CallStore(op, data) <=> CallStore(op, data)
  BY DEF File!CallStore, CallStore
<1>4. \A op : File!StoreDone(op) <=> StoreDone(op)
  BY DEF File!StoreDone, StoreDone, File!Passed, Passed, File!RemoveAt, RemoveAt
<1> QED
  BY <1>1, <1>2, <1>3, <1>4

-----------------------------------------------------------------------------
(* What a step does to the client.                                         *)

telling == <<initState, promise, ready, failed>>
Waits ==
  /\ initState # "Initialized" /\ promise = "none" /\ promise' = "pending"
  /\ UNCHANGED <<initState, ready, failed>>
Tells == UNCHANGED telling \/ StartFailed \/ Waits

Quiet == Tells /\ UNCHANGED <<pending, stored, lost>>
CallsStore(op) ==
  Tells /\ UNCHANGED <<stored, lost>> /\ \E data \in (SUBSET (1..latest)) \ {{}} : CallStore(op, data)
WorksOff(op) == StoreDone(op) /\ (Tells \/ (StartSucceeded /\ op = "init"))
StartsEmpty == StartSucceeded /\ UNCHANGED <<pending, stored, lost>> /\ source \in {"null", "edge"}

ClientStep ==
  \/ Quiet \/ StartsEmpty
  \/ \E op \in {"init", "upsert"} : CallsStore(op) \/ WorksOff(op)

TellingOK ==
  /\ initState \in {"Initializing", "Initialized", "Failed"}
  /\ promise \in {"none", "pending", "resolved", "rejected"}
  /\ ready \in Nat /\ failed \in BOOLEAN
  /\ ReadyOnce

(* A data source that tells of its start keeps to the order of telling.    *)
LEMMA TellingKeeps ==
  ASSUME TellingOK, Tells \/ StartSucceeded
  PROVE  TellingOK'
<1>1. CASE UNCHANGED telling
  BY <1>1 DEF TellingOK, ReadyOnce, telling
<1>2. CASE StartFailed
  BY <1>2 DEF TellingOK, ReadyOnce, StartFailed, SettlePromise
<1>3. CASE Waits
  BY <1>3 DEF TellingOK, ReadyOnce, Waits
<1>4. CASE StartSucceeded
  BY <1>4 DEF TellingOK, ReadyOnce, StartSucceeded, SettlePromise
<1> QED
  BY <1>1, <1>2, <1>3, <1>4 DEF Tells

(* Only the success of the data source makes the client initialized.       *)
LEMMA NotStarted ==
  ASSUME Tells, initState' = "Initialized"
  PROVE  initState = "Initialized"
BY DEF Tells, telling, StartFailed, Waits

(* Calls with data of a set are calls with data of a larger one.           *)
LEMMA CallsGrow ==
  ASSUME NEW S, NEW T, S \subseteq T
  PROVE  Seq(Call(S)) \subseteq Seq(Call(T))
<1>1. Call(S) \subseteq Call(T)
  BY DEF Call
<1> QED
  BY <1>1

(* What a sequence is without one of its elements.                         *)
LEMMA RemovedAt ==
  ASSUME NEW S, NEW s \in Seq(S), NEW n \in DOMAIN s
  PROVE  LET r == RemoveAt(s, n) IN
         /\ r \in Seq(S) /\ Len(r) = Len(s) - 1 /\ DOMAIN r = 1..(Len(s) - 1)
         /\ \A i \in DOMAIN r : r[i] = IF i < n THEN s[i] ELSE s[i + 1]
<1> DEFINE front == SubSeq(s, 1, n - 1)
           back == SubSeq(s, n + 1, Len(s))
<1>1. n \in 1..Len(s) /\ Len(s) \in Nat
  OBVIOUS
<1>2. front \in Seq(S) /\ Len(front) = n - 1 /\ \A i \in 1..(n - 1) : front[i] = s[i]
  BY <1>1, SubSeqProperties
<1>3. /\ back \in Seq(S) /\ Len(back) = Len(s) - n
      /\ \A i \in 1..(Len(s) - n) : back[i] = s[n + i]
  BY <1>1, SubSeqProperties
<1> DEFINE r == front \o back
<1> HIDE DEF front, back
<1>4. r \in Seq(S) /\ Len(r) = Len(s) - 1
  BY <1>1, <1>2, <1>3, ConcatProperties
<1>5. DOMAIN r = 1..(Len(s) - 1)
  BY <1>1, <1>4
<1>6. ASSUME NEW i \in DOMAIN r PROVE r[i] = IF i < n THEN s[i] ELSE s[i + 1]
  <2>1. i \in 1..(Len(s) - 1)
    BY <1>5, <1>6
  <2>2. CASE i < n
    <3>1. r[i] = front[i]
      BY <1>1, <1>2, <1>3, <2>1, <2>2, ConcatProperties
    <3> QED
      BY <1>1, <1>2, <2>1, <2>2, <3>1
  <2>3. CASE ~(i < n)
    <3>1. r[i] = back[i - (n - 1)]
      BY <1>1, <1>2, <1>3, <2>1, <2>3, ConcatProperties
    <3>2. i - (n - 1) \in 1..(Len(s) - n) /\ n + (i - (n - 1)) = i + 1
      BY <1>1, <2>1, <2>3
    <3> QED
      BY <1>3, <2>3, <3>1, <3>2
  <2> QED
    BY <2>2, <2>3
<1> QED
  BY <1>4, <1>5, <1>6 DEF RemoveAt, front, back

(* A call adds its data to what is on the way.                             *)
LEMMA CallCounts ==
  ASSUME NEW S, pending \in Seq(Call(S)), NEW op \in {"init", "upsert"},
         NEW data \in (SUBSET S) \ {{}}, CallStore(op, data), UNCHANGED <<stored, lost>>
  PROVE  /\ pending' \in Seq(Call(S)) /\ Len(pending') = Len(pending) + 1
         /\ Apart => Apart'
         /\ \A T : NoMoreThan(T) /\ data \subseteq T => NoMoreThan(T)'
         /\ \A c : c \in data \/ (op = "upsert" /\ Secured(c)) => Secured(c)'
<1> DEFINE d == [op |-> op, data |-> data, overtaken |-> {}]
           n == Len(pending) + 1
<1>1. d \in Call(S) /\ d.op = op /\ d.data = data /\ d.overtaken = {}
  BY DEF Call
<1> HIDE DEF d
<1>2. pending' = Append(pending, d)
  BY DEF CallStore, d
<1>3. /\ pending' \in Seq(Call(S)) /\ Len(pending') = Len(pending) + 1
      /\ DOMAIN pending = 1..Len(pending) /\ DOMAIN pending' = 1..n /\ n \in Nat
      /\ \A i \in DOMAIN pending : pending'[i] = pending[i]
      /\ pending'[n] = d
  BY <1>1, <1>2
<1>4. \A i \in DOMAIN pending' : i = n \/ i \in DOMAIN pending
  BY <1>3
<1>5. \A i \in DOMAIN pending : i < n /\ i \in DOMAIN pending'
  BY <1>3
<1>6. n \in DOMAIN pending'
  BY <1>3
<1> HIDE DEF n
<1>7. Apart => Apart'
  BY <1>1, <1>3, <1>4 DEF Apart
<1>8. ASSUME NEW T, NoMoreThan(T), data \subseteq T PROVE NoMoreThan(T)'
  <2>1. ASSUME NEW m \in DOMAIN pending' PROVE pending'[m].data \subseteq T /\ pending'[m].overtaken \subseteq T
    BY <1>1, <1>3, <1>4, <1>8, <2>1 DEF NoMoreThan
  <2> QED
    BY <1>8, <2>1 DEF NoMoreThan
<1>9. ASSUME NEW c, c \in data PROVE Secured(c)'
  <2>1. Brought(c)'
    BY <1>1, <1>3, <1>6, <1>9 DEF Brought
  <2>2. ASSUME NEW i \in DOMAIN pending' PROVE Survives(i, c)'
    BY <1>1, <1>3, <1>4, <1>5, <1>6, <1>9, <2>2 DEF Survives
  <2> QED
    BY <2>1, <2>2 DEF Secured
<1>10. ASSUME NEW c, op = "upsert", Secured(c) PROVE Secured(c)'
  <2>1. Brought(c)'
    BY <1>3, <1>5, <1>10 DEF Secured, Brought
  <2>2. ASSUME NEW i \in DOMAIN pending', pending'[i].op = "init" PROVE Survives(i, c)'
    <3>1. i \in DOMAIN pending /\ pending'[i] = pending[i]
      BY <1>1, <1>3, <1>4, <1>10, <2>2
    <3>2. Survives(i, c)
      BY <1>10, <2>2, <3>1 DEF Secured
    <3> QED
      BY <1>3, <1>5, <3>1, <3>2 DEF Survives
  <2> QED
    BY <2>1, <2>2 DEF Secured
<1> QED
  BY <1>3, <1>7, <1>8, <1>9, <1>10

(* A call that is done, before or after others, has brought what was       *)
(* expected of it.                                                         *)
LEMMA DoneCounts ==
  ASSUME NEW S, pending \in Seq(Call(S)), stored \subseteq S, lost \subseteq S,
         NEW op \in {"init", "upsert"}, StoreDone(op)
  PROVE  /\ pending' \in Seq(Call(S)) /\ Len(pending') = Len(pending) - 1
         /\ stored' \subseteq S /\ lost' \subseteq S /\ (op = "init" \/ stored # {} => stored' # {})
         /\ Apart => Apart'
         /\ \A T : NoMoreThan(T) => NoMoreThan(T)'
         /\ \A c : Secured(c) => Secured(c)'
<1>1. PICK n \in DOMAIN pending :
        /\ pending[n].op = op
        /\ pending' = RemoveAt(Passed(n), n)
        /\ stored' = IF op = "init" THEN pending[n].data ELSE stored \cup pending[n].data
        /\ lost' = IF op = "init" THEN pending[n].overtaken ELSE lost \ pending[n].data
  BY DEF StoreDone
<1> DEFINE q == Passed(n)
           At(i) == IF i < n THEN i ELSE i + 1
           Now(m) == IF m < n THEN m ELSE m - 1
<1>2. /\ Len(pending) \in Nat /\ DOMAIN pending = 1..Len(pending) /\ n \in 1..Len(pending)
      /\ \A m \in DOMAIN pending : pending[m] \in Call(S)
  OBVIOUS
<1>3. /\ q \in Seq(Call(S)) /\ Len(q) = Len(pending) /\ DOMAIN q = DOMAIN pending
      /\ \A m \in DOMAIN pending :
           /\ q[m].op = pending[m].op /\ q[m].data = pending[m].data
           /\ q[m].overtaken = IF m < n /\ pending[m].op = "init"
                               THEN (pending[m].overtaken \cup pending[n].data) \ pending[m].data
                               ELSE pending[m].overtaken
  <2>1. \A m \in DOMAIN pending :
          /\ q[m] \in Call(S)
          /\ q[m].op = pending[m].op /\ q[m].data = pending[m].data
          /\ q[m].overtaken = IF m < n /\ pending[m].op = "init"
                              THEN (pending[m].overtaken \cup pending[n].data) \ pending[m].data
                              ELSE pending[m].overtaken
    BY <1>2 DEF Passed, Call
  <2>2. q \in [1..Len(pending) -> Call(S)]
    BY <1>2, <2>1 DEF Passed
  <2> HIDE DEF q
  <2>3. q \in Seq(Call(S)) /\ Len(q) = Len(pending) /\ DOMAIN q = DOMAIN pending
    BY <1>2, <2>1, <2>2
  <2> QED
    BY <2>1, <2>3
<1> HIDE DEF q
<1>4. /\ pending' \in Seq(Call(S)) /\ Len(pending') = Len(pending) - 1
      /\ DOMAIN pending' = 1..(Len(pending) - 1)
      /\ \A i \in DOMAIN pending' : pending'[i] = q[At(i)]
  <2>1. pending' = RemoveAt(q, n) /\ n \in DOMAIN q
    BY <1>1, <1>3 DEF q
  <2>2. /\ pending' \in Seq(Call(S)) /\ Len(pending') = Len(q) - 1 /\ DOMAIN pending' = 1..(Len(q) - 1)
        /\ \A i \in DOMAIN pending' : pending'[i] = IF i < n THEN q[i] ELSE q[i + 1]
    BY <1>3, <2>1, RemovedAt
  <2> QED
    BY <1>3, <2>2
<1>5. \A i \in DOMAIN pending' : At(i) \in DOMAIN pending /\ At(i) # n
  BY <1>2, <1>4
<1>6. \A m \in DOMAIN pending : m # n => Now(m) \in DOMAIN pending' /\ At(Now(m)) = m
  BY <1>2, <1>4
<1>7. \A i \in DOMAIN pending' : \A m \in DOMAIN pending : m # n /\ At(i) < m => i < Now(m)
  BY <1>2, <1>4
<1>8. \A i \in DOMAIN pending' :
        /\ pending'[i].op = pending[At(i)].op /\ pending'[i].data = pending[At(i)].data
        /\ pending'[i].overtaken =
             IF At(i) < n /\ pending[At(i)].op = "init"
             THEN (pending[At(i)].overtaken \cup pending[n].data) \ pending[At(i)].data
             ELSE pending[At(i)].overtaken
  BY <1>3, <1>4, <1>5
<1>9. \A m \in DOMAIN pending : m # n => pending'[Now(m)].data = pending[m].data
  BY <1>6, <1>8
<1>10. /\ stored' \subseteq S /\ lost' \subseteq S
       /\ op = "init" \/ stored # {} => stored' # {}
  BY <1>1, <1>2 DEF Call
<1> HIDE DEF At, Now
<1>11. ASSUME Apart PROVE Apart'
  <2>1. stored' \cap lost' = {}
    BY <1>1, <1>11 DEF Apart
  <2>2. ASSUME NEW i \in DOMAIN pending' PROVE pending'[i].data \cap pending'[i].overtaken = {}
    BY <1>5, <1>8, <1>11, <2>2 DEF Apart
  <2> QED
    BY <2>1, <2>2 DEF Apart
<1>12. ASSUME NEW T, NoMoreThan(T) PROVE NoMoreThan(T)'
  <2>1. stored' \subseteq T /\ lost' \subseteq T
    BY <1>1, <1>12 DEF NoMoreThan
  <2>2. ASSUME NEW i \in DOMAIN pending' PROVE pending'[i].data \subseteq T /\ pending'[i].overtaken \subseteq T
    BY <1>1, <1>5, <1>8, <1>12, <2>2 DEF NoMoreThan
  <2> QED
    BY <2>1, <2>2 DEF NoMoreThan
<1>13. ASSUME NEW c, Secured(c) PROVE Secured(c)'
  <2>1. Brought(c)'
    <3>1. CASE op = "init"
      <4>1. Survives(n, c)
        BY <1>1, <1>13, <3>1 DEF Secured
      <4>2. CASE c \in pending[n].data \cup pending[n].overtaken
        BY <1>1, <3>1, <4>2 DEF Brought
      <4>3. ASSUME NEW m \in DOMAIN pending, n < m, c \in pending[m].data PROVE Brought(c)'
        BY <1>2, <1>6, <1>9, <4>3 DEF Brought
      <4> QED
        BY <4>1, <4>2, <4>3 DEF Survives
    <3>2. CASE op = "upsert"
      <4>1. CASE c \in stored \cup lost \cup pending[n].data
        BY <1>1, <3>2, <4>1 DEF Brought
      <4>2. ASSUME NEW m \in DOMAIN pending, m # n, c \in pending[m].data PROVE Brought(c)'
        BY <1>6, <1>9, <4>2 DEF Brought
      <4> QED
        BY <1>13, <4>1, <4>2 DEF Secured, Brought
    <3> QED
      BY <3>1, <3>2
  <2>2. ASSUME NEW i \in DOMAIN pending', pending'[i].op = "init" PROVE Survives(i, c)'
    <3>1. At(i) \in DOMAIN pending /\ pending[At(i)].op = "init"
      BY <1>5, <1>8, <2>2
    <3>2. Survives(At(i), c)
      BY <1>13, <3>1 DEF Secured
    <3>3. CASE c \in pending[At(i)].data \cup pending[At(i)].overtaken
      BY <1>8, <2>2, <3>1, <3>3 DEF Survives
    <3>4. ASSUME NEW m \in DOMAIN pending, At(i) < m, c \in pending[m].data PROVE Survives(i, c)'
      <4>1. CASE m = n
        BY <1>8, <2>2, <3>1, <3>4, <4>1 DEF Survives
      <4>2. CASE m # n
        BY <1>6, <1>7, <1>9, <2>2, <3>4, <4>2 DEF Survives
      <4> QED
        BY <4>1, <4>2
    <3> QED
      BY <3>2, <3>3, <3>4 DEF Survives
  <2> QED
    BY <2>1, <2>2 DEF Secured
<1> QED
  BY <1>4, <1>10, <1>11, <1>12, <1>13

(* A step of the client, or of telling it something, keeps what is said of *)
(* the client.                                                             *)
LEMMA ClientKeeps ==
  ASSUME ClientOK, latest \in Nat, latest' \in Nat, latest <= latest', source' = source,
         stopped' \in BOOLEAN, ClientStep
  PROVE  ClientOK'
<1>1. /\ TellingOK /\ pending \in Seq(Call(1..latest)) /\ stored \subseteq 1..latest /\ lost \subseteq 1..latest
      /\ source \notin {"null", "edge"} => ReadyMeansData
  BY DEF ClientOK, TypeOKClient, ReadyOnceWithData, TellingOK
<1>2. 1..latest \subseteq 1..latest'
  OBVIOUS
<1>3. TellingOK'
  BY <1>1, TellingKeeps DEF ClientStep, Quiet, StartsEmpty, CallsStore, WorksOff
<1> DEFINE Kept == /\ pending' \in Seq(Call(1..latest)) /\ stored' \subseteq 1..latest /\ lost' \subseteq 1..latest
                   /\ source \notin {"null", "edge"} => (initState' = "Initialized" => stored' # {})
<1>4. SUFFICES Kept
  <2> SUFFICES /\ pending' \in Seq(Call(1..latest')) /\ stored' \subseteq 1..latest' /\ lost' \subseteq 1..latest'
               /\ source \notin {"null", "edge"} => ReadyMeansData'
    BY <1>3 DEF ClientOK, TypeOKClient, ReadyOnceWithData, TellingOK, ReadyMeansData
  <2>1. Seq(Call(1..latest)) \subseteq Seq(Call(1..latest'))
    BY <1>2, CallsGrow
  <2> QED
    BY <1>2, <1>4, <2>1 DEF ReadyMeansData
<1>5. CASE Quiet
  BY <1>1, <1>5, NotStarted DEF Quiet, ReadyMeansData
<1>6. CASE StartsEmpty
  BY <1>1, <1>6 DEF StartsEmpty
<1>7. ASSUME NEW op \in {"init", "upsert"}, CallsStore(op) PROVE Kept
  <2>1. PICK data \in (SUBSET (1..latest)) \ {{}} : CallStore(op, data)
    BY <1>7 DEF CallsStore
  <2>2. stored' = stored /\ lost' = lost /\ Tells
    BY <1>7 DEF CallsStore
  <2>3. pending' \in Seq(Call(1..latest))
    BY <1>1, <2>1, <2>2, CallCounts
  <2> QED
    BY <1>1, <2>2, <2>3, NotStarted DEF ReadyMeansData
<1>8. ASSUME NEW op \in {"init", "upsert"}, WorksOff(op) PROVE Kept
  <2>1. /\ pending' \in Seq(Call(1..latest)) /\ stored' \subseteq 1..latest /\ lost' \subseteq 1..latest
        /\ op = "init" \/ stored # {} => stored' # {}
    BY <1>1, <1>8, DoneCounts DEF WorksOff
  <2>2. op = "init" \/ Tells
    BY <1>8 DEF WorksOff
  <2> QED
    BY <1>1, <2>1, <2>2, NotStarted DEF ReadyMeansData
<1> QED
  BY <1>5, <1>6, <1>7, <1>8 DEF ClientStep

-----------------------------------------------------------------------------
(* What a step leaves alone stays as it should be, whatever else changes.  *)

Grows ==
  /\ latest \in Nat /\ latest' \in Nat /\ latest <= latest' /\ source' = source
  /\ stopped' \in BOOLEAN /\ (stopped => stopped')

(* A step that is not of the streaming processor leaves what is said of    *)
(* it.                                                                     *)
LEMMA StreamStill ==
  ASSUME StreamOK, Grows, UNCHANGED streamVars, source = "stream" => UNCHANGED <<pending, stored, lost>>
  PROVE  StreamOK'
<1>1. /\ UNCHANGED <<connection, told, garbled>> /\ source' = source /\ 0..latest \subseteq 0..latest'
  BY DEF streamVars, Grows
<1>2. source = "stream" => Apart' /\ BroughtByStream'
  <2> SUFFICES ASSUME source = "stream" PROVE Apart' /\ BroughtByStream'
    OBVIOUS
  <2>1. Apart /\ BroughtByStream
    BY DEF StreamOK
  <2>2. Apart'
    BY <2>1 DEF Apart
  <2>3. \A T : NoMoreThan(T) => NoMoreThan(T)'
    BY DEF NoMoreThan
  <2>4. \A c : Secured(c) => Secured(c)'
    BY DEF Secured, Brought, Survives
  <2> QED
    BY <1>1, <2>1, <2>2, <2>3, <2>4 DEF BroughtByStream
<1> QED
  BY <1>1, <1>2 DEF StreamOK, StreamOnly

(* A step that is not of the polling processor leaves what is said of it.  *)
LEMMA PollStill ==
  ASSUME PollOK, Grows, UNCHANGED pollVars, source = "poll" => UNCHANGED pending
  PROVE  PollOK'
BY DEF PollOK, Grows, pollVars, OnePollChain, Polling!OnePollChain

(* Sequences over a set are sequences over a larger one.                   *)
LEMMA SequencesGrow ==
  ASSUME NEW S, NEW T, S \subseteq T
  PROVE  Seq(S) \subseteq Seq(T)
OBVIOUS

ReadingUpTo(step, n) == [path : Path, step : step, got : 0..n, data : 0..n]
Reading(step) == ReadingUpTo(step, latest)
Loads == {"data", "time", "loaded", "failed", "done"}
Handles == {"time", "data"}

FilesTypedUpTo(n) ==
  /\ files \in [Path -> 1..n] /\ bad \subseteq 1..n /\ watch \in {"no", "later", "on", "closed"}
  /\ loading \in [Path -> ReadingUpTo(Loads, n)]
  /\ fileData \in [Path -> 0..n] /\ fileTimestamps \in [Path -> 0..n]
  /\ handlers \in Seq(ReadingUpTo(Handles, n)) /\ debounce \in {"none", "timer"}
  /\ initCallback \in BOOLEAN /\ missed \subseteq Path

FilesTyped == FilesTypedUpTo(latest)

FileGoes ==
  /\ \A p \in Path : loading[p].step \in {"time", "loaded"} => loading[p].data # 0
  /\ IF watch \in {"no", "later"} THEN handlers = <<>> /\ debounce = "none"
     ELSE \A p \in Path : fileData[p] # 0

(* What is said of the file data source, in two parts.                     *)
LEMMA FileParts ==
  ASSUME source = "file"
  PROVE  FileOK <=> FilesTyped /\ FileGoes
BY DEF FileOK, File!TypeOKFiles, FilesLoaded, FilesTyped, FilesTypedUpTo, FileGoes, Reading, ReadingUpTo, Loads, Handles

(* What is read of the files so far is also of the files as they are       *)
(* later.                                                                  *)
LEMMA FilesGrow ==
  ASSUME NEW m \in Nat, NEW n \in Nat, m <= n, FilesTypedUpTo(m)
  PROVE  FilesTypedUpTo(n)
<1>1. 0..m \subseteq 0..n /\ 1..m \subseteq 1..n
  OBVIOUS
<1>2. \A step : ReadingUpTo(step, m) \subseteq ReadingUpTo(step, n)
  BY <1>1 DEF ReadingUpTo
<1>3. Seq(ReadingUpTo(Handles, m)) \subseteq Seq(ReadingUpTo(Handles, n))
  BY <1>2, SequencesGrow
<1>4. loading \in [Path -> ReadingUpTo(Loads, n)]
  BY <1>2 DEF FilesTypedUpTo
<1> QED
  BY <1>1, <1>3, <1>4 DEF FilesTypedUpTo

(* A step that is not of the file data source leaves what is said of it.   *)
LEMMA FileStill ==
  ASSUME FileOK, Grows, UNCHANGED fileVars
  PROVE  FileOK'
<1>1. source' = source
  BY DEF Grows
<1>2. /\ UNCHANGED <<files, bad, loading, watch, fileData>>
      /\ UNCHANGED <<fileTimestamps, handlers, debounce, initCallback, missed>>
  BY DEF fileVars
<1>3. FilesLoaded'
  BY <1>1, <1>2 DEF FileOK, FilesLoaded
<1>4. CASE source = "file"
  <2>1. FilesTypedUpTo(latest')
    BY <1>4, FileParts, FilesGrow DEF FilesTyped, Grows
  <2>2. File!TypeOKFiles'
    BY <1>2, <2>1 DEF File!TypeOKFiles, FilesTypedUpTo, ReadingUpTo, Loads, Handles
  <2> QED
    BY <1>1, <1>3, <1>4, <2>2 DEF FileOK
<1>5. CASE source # "file"
  BY <1>1, <1>2, <1>3, <1>5 DEF FileOK, File!NoFiles
<1> QED
  BY <1>4, <1>5

(* A step that is not of an edge SDK leaves what is said of it.            *)
LEMMA EdgeStill ==
  ASSUME EdgeOK, Grows, UNCHANGED edgeVars
  PROVE  EdgeOK'
<1>1. /\ UNCHANGED <<akamai, cache, evaluations, begun, oldest, alone, fetched>>
  BY DEF edgeVars
<1>2. /\ 0..latest \subseteq 0..latest' /\ 1..latest \subseteq 1..latest'
      /\ Edge!Garbled..latest \subseteq Edge!Garbled..latest'
      /\ Edge!Awaited..latest \subseteq Edge!Awaited..latest'
  BY DEF Grows, Edge!Garbled, Edge!Awaited
<1>3. Edge!TypeOKEdge'
  <2> DEFINE V(n) == [stage : Edge!Stage, reply : Edge!Awaited..n, asked : 0..n, reads : Nat,
                      used : SUBSET (1..n)]
  <2>1. V(latest) \subseteq V(latest')
    BY <1>2
  <2>2. evaluations \in [Evaluation -> V(latest')]
    <3>1. evaluations \in [Evaluation -> V(latest)]
      BY DEF EdgeOK, Edge!TypeOKEdge
    <3> HIDE DEF V
    <3> QED
      BY <2>1, <3>1
  <2>3. /\ akamai \in BOOLEAN /\ cache \in Edge!Garbled..latest'
        /\ begun \in [Evaluation -> 0..latest'] /\ oldest \in [Evaluation -> 0..latest']
        /\ alone \in [Evaluation -> BOOLEAN] /\ fetched \in [Evaluation -> Nat]
    BY <1>2 DEF EdgeOK, Edge!TypeOKEdge
  <2> QED
    BY <1>1, <2>2, <2>3 DEF Edge!TypeOKEdge, Edge!Stage, Edge!Garbled, Edge!Awaited
<1>4. Running' = Running
  BY <1>1 DEF Running, Edge!Running
<1>5. EdgeFresh'
  BY <1>1, <1>4, Zenon DEF EdgeOK, EdgeFresh, BeginsAnew, Overlaps, AsksFresh, RepliesFresh, CacheFresh,
    OnlyAkamaiCaches, AloneAtCache, AloneAt, EvaluatesFreshData, Edge!EvaluatesFreshData, Edge!Awaited
<1> QED
  BY <1>3, <1>5 DEF EdgeOK

(* The invariant of the whole comes from those of the parts.               *)
LEMMA Combines ==
  ASSUME Invariant, Grows, latest' \in 1..MaxLatest, ClientStep, StreamOK', PollOK', FileOK', EdgeOK'
  PROVE  Invariant'
<1>1. ClientOK'
  BY ClientKeeps DEF Invariant, Grows
<1> QED
  BY <1>1 DEF Invariant, Grows, Source

-----------------------------------------------------------------------------
(* StreamingProcessor.                                                     *)

(* Every action of the streaming processor.                                *)
LEMMA StreamingStep ==
  ASSUME Invariant, source = "stream", Streaming!NextStream, source' = source
  PROVE  ClientStep /\ Grows /\ latest' = latest /\ StreamOK'
<1>1. /\ latest \in Nat \ {0} /\ stopped \in BOOLEAN /\ told \in 0..latest /\ garbled \in BOOLEAN
      /\ pending \in Seq(Call(1..latest)) /\ stored \subseteq 1..latest /\ lost \subseteq 1..latest
      /\ connection \in {"connecting", "open", "ended"}
      /\ Apart /\ BroughtByStream
  BY DEF Invariant, ClientOK, TypeOKClient, StreamOK, StreamOnly
<1>2. SUFFICES /\ ClientStep /\ latest' = latest /\ stopped' \in BOOLEAN /\ (stopped => stopped')
               /\ connection' \in {"connecting", "open", "ended"}
               /\ told' \in 0..latest /\ garbled' \in BOOLEAN /\ Apart' /\ BroughtByStream'
  BY <1>1, <1>2 DEF Grows, StreamOK, StreamOnly
<1> DEFINE Here == latest' = latest /\ stopped' \in BOOLEAN /\ (stopped => stopped')
                   /\ connection' \in {"connecting", "open", "ended"}
                   /\ told' \in 0..latest /\ garbled' \in BOOLEAN
<1>a. UNCHANGED <<pending, stored, lost>> => Apart'
  BY <1>1 DEF Apart
<1>b. connection' # "open" \/ told' = 0 \/ garbled' => BroughtByStream'
  BY DEF BroughtByStream
<1>3. CASE Streaming!Open
  <2>1. Quiet
    BY <1>3 DEF Streaming!Open, Streaming!clientVars, Quiet, Tells, telling
  <2>2. Here /\ told' = 0
    BY <1>1, <1>3 DEF Streaming!Open, Streaming!clientVars
  <2> QED
    BY <1>1, <1>a, <1>b, <2>1, <2>2 DEF ClientStep, Quiet
<1>4. CASE Streaming!Recoverable
  <2>1. Quiet
    BY <1>4 DEF Streaming!Recoverable, Streaming!clientVars, Quiet, Tells, telling
  <2>2. Here /\ connection' # "open"
    BY <1>1, <1>4 DEF Streaming!Recoverable, Streaming!clientVars
  <2> QED
    BY <1>1, <1>a, <1>b, <2>1, <2>2 DEF ClientStep, Quiet
<1>5. CASE Streaming!Unrecoverable
  <2>1. Quiet
    BY <1>5, SharedByStream DEF Streaming!Unrecoverable, Quiet, Tells
  <2>2. Here /\ connection' # "open"
    BY <1>1, <1>5 DEF Streaming!Unrecoverable
  <2> QED
    BY <1>1, <1>a, <1>b, <2>1, <2>2 DEF ClientStep, Quiet
<1>6. CASE Streaming!Malformed
  <2>1. Quiet
    BY <1>6, SharedByStream DEF Streaming!Malformed, Quiet, Tells
  <2>2. Here /\ garbled'
    BY <1>1, <1>6 DEF Streaming!Malformed
  <2> QED
    BY <1>1, <1>a, <1>b, <2>1, <2>2 DEF ClientStep, Quiet
<1>7. CASE Streaming!Put
  <2>1. CallStore("init", 1..latest) /\ UNCHANGED <<stored, lost>> /\ UNCHANGED telling
    BY <1>7, SharedByStream DEF Streaming!Put, telling
  <2>2. 1..latest \in (SUBSET (1..latest)) \ {{}}
    <3>1. 1 \in 1..latest
      BY <1>1
    <3> QED
      BY <3>1
  <2>3. CallsStore("init")
    BY <2>1, <2>2 DEF CallsStore, Tells
  <2>4. /\ Apart' /\ \A c \in 1..latest : Secured(c)'
        /\ \A T : T = 1..latest => NoMoreThan(T)'
    <3>1. ASSUME NEW T, T = 1..latest PROVE NoMoreThan(T)
      <4>1. \A m \in DOMAIN pending : pending[m] \in Call(1..latest)
        BY <1>1
      <4> QED
        BY <1>1, <3>1, <4>1 DEF NoMoreThan, Call
    <3>2. /\ Apart' /\ \A T : NoMoreThan(T) /\ 1..latest \subseteq T => NoMoreThan(T)'
          /\ \A c : c \in 1..latest => Secured(c)'
      BY <1>1, <2>1, <2>2, CallCounts
    <3> QED
      BY <3>1, <3>2
  <2>5. Here /\ told' = latest
    <3>1. /\ connection' = connection /\ latest' = latest /\ stopped' = stopped
          /\ told' = latest /\ garbled' = FALSE
      BY <1>7 DEF Streaming!Put
    <3>2. latest \in 0..latest
      BY <1>1
    <3> QED
      BY <1>1, <3>1, <3>2
  <2>6. BroughtByStream'
    <3>1. \A c \in 1..told' : Secured(c)'
      BY <2>4, <2>5
    <3>2. NoMoreThan(1..told)'
      BY <2>4, <2>5 DEF NoMoreThan
    <3> QED
      BY <3>1, <3>2 DEF BroughtByStream
  <2> QED
    BY <2>3, <2>4, <2>5, <2>6 DEF ClientStep
<1>8. CASE Streaming!Patch
  <2>1. CallStore("upsert", {told + 1}) /\ UNCHANGED <<stored, lost>> /\ UNCHANGED telling
    BY <1>8, SharedByStream DEF Streaming!Patch, telling
  <2>2. {told + 1} \in (SUBSET (1..latest)) \ {{}}
    BY <1>1, <1>8 DEF Streaming!Patch
  <2>3. CallsStore("upsert")
    BY <2>1, <2>2 DEF CallsStore, Tells
  <2>4. /\ Apart'
        /\ \A T : NoMoreThan(T) /\ told + 1 \in T => NoMoreThan(T)'
        /\ \A c : c = told + 1 \/ Secured(c) => Secured(c)'
    BY <1>1, <2>1, <2>2, CallCounts
  <2>5. Here /\ told' = told + 1 /\ told > 0 /\ garbled' = garbled /\ connection = "open"
    BY <1>1, <1>8 DEF Streaming!Patch
  <2>6. (1..told) \cup {told + 1} = 1..(told + 1)
    BY <1>1, <2>5
  <2>7. BroughtByStream'
    <3> SUFFICES ASSUME ~garbled PROVE NoMoreThan(1..told)' /\ \A c \in 1..told' : Secured(c)'
      BY <2>5, Zenon DEF BroughtByStream
    <3>1. NoMoreThan(1..told) /\ \A c \in 1..told : Secured(c)
      BY <1>1, <2>5 DEF BroughtByStream
    <3>2. \A T : T = 1..(told + 1) => NoMoreThan(T)'
      <4>1. \A T : T = 1..(told + 1) => NoMoreThan(T) /\ told + 1 \in T
        BY <1>1, <2>6, <3>1 DEF NoMoreThan
      <4> QED
        BY <2>4, <4>1
    <3>3. NoMoreThan(1..told)'
      BY <2>5, <3>2 DEF NoMoreThan
    <3>4. ASSUME NEW c \in 1..told' PROVE Secured(c)'
      <4>1. c \in 1..told \/ c = told + 1
        BY <1>1, <2>5
      <4> QED
        BY <2>4, <3>1, <4>1
    <3> QED
      BY <3>3, <3>4
  <2> QED
    BY <1>1, <2>3, <2>4, <2>5, <2>7 DEF ClientStep
<1>9. CASE Streaming!InitDone
  <2>1. StoreDone("init") /\ StartSucceeded
    BY <1>9, SharedByStream DEF Streaming!InitDone
  <2>2. /\ WorksOff("init") /\ Apart'
        /\ \A T : NoMoreThan(T) => NoMoreThan(T)'
        /\ \A c : Secured(c) => Secured(c)'
    BY <1>1, <2>1, DoneCounts DEF WorksOff
  <2>3. Here /\ UNCHANGED <<connection, told, garbled>>
    BY <1>1, <1>9, <2>1 DEF Streaming!InitDone, StoreDone
  <2>4. BroughtByStream'
    BY <1>1, <2>2, <2>3 DEF BroughtByStream
  <2> QED
    BY <1>1, <2>2, <2>3, <2>4 DEF ClientStep
<1>10. CASE Streaming!UpsertDone
  <2>1. StoreDone("upsert") /\ UNCHANGED telling
    BY <1>10, SharedByStream DEF Streaming!UpsertDone, telling
  <2>2. /\ WorksOff("upsert") /\ Apart'
        /\ \A T : NoMoreThan(T) => NoMoreThan(T)'
        /\ \A c : Secured(c) => Secured(c)'
    BY <1>1, <2>1, DoneCounts DEF WorksOff, Tells
  <2>3. Here /\ UNCHANGED <<connection, told, garbled>>
    BY <1>1, <1>10, <2>1 DEF Streaming!UpsertDone, StoreDone
  <2>4. BroughtByStream'
    BY <1>1, <2>2, <2>3 DEF BroughtByStream
  <2> QED
    BY <1>1, <2>2, <2>3, <2>4 DEF ClientStep
<1>11. CASE Streaming!Stop
  <2>1. Quiet
    BY <1>11 DEF Streaming!Stop, Quiet, Tells, telling
  <2>2. Here /\ connection' # "open"
    BY <1>1, <1>11 DEF Streaming!Stop
  <2> QED
    BY <1>1, <1>a, <1>b, <2>1, <2>2 DEF ClientStep, Quiet
<1> QED
  BY <1>3, <1>4, <1>5, <1>6, <1>7, <1>8, <1>9, <1>10, <1>11 DEF Streaming!NextStream

-----------------------------------------------------------------------------
(* PollingProcessor.                                                       *)

(* Every action of the polling processor.                                  *)
LEMMA PollingStep ==
  ASSUME Invariant, source = "poll", Polling!NextPoll, source' = source
  PROVE  ClientStep /\ Grows /\ latest' = latest /\ PollOK'
<1>1. /\ latest \in Nat \ {0} /\ stopped \in BOOLEAN /\ requests \in 0..1 /\ timers \in 0..1
      /\ etag \in 0..latest /\ refused \in BOOLEAN /\ Len(pending) \in Nat
      /\ pending \in Seq(Call(1..latest)) /\ stored \subseteq 1..latest /\ lost \subseteq 1..latest
      /\ requests + Len(pending) + timers <= 1
      /\ requests + Len(pending) + timers = 0 => refused \/ stopped
  BY DEF Invariant, ClientOK, TypeOKClient, PollOK, OnePollChain, Polling!OnePollChain
<1> DEFINE Chain == /\ requests' + Len(pending') + timers' <= 1
                    /\ requests' + Len(pending') + timers' = 0 => refused' \/ stopped'
           Here == /\ latest' = latest /\ stopped' \in BOOLEAN /\ (stopped => stopped')
                   /\ requests' \in 0..1 /\ timers' \in 0..1 /\ etag' \in 0..latest /\ refused' \in BOOLEAN
                   /\ Chain
<1>2. SUFFICES ClientStep /\ Here
  BY <1>1, <1>2 DEF Grows, PollOK, OnePollChain, Polling!OnePollChain
<1>3. CASE Polling!ReplyData
  <2>1. CallStore("init", 1..latest) /\ UNCHANGED <<stored, lost>> /\ UNCHANGED telling
    BY <1>3, SharedByPoll DEF Polling!ReplyData, telling
  <2>2. 1..latest \in (SUBSET (1..latest)) \ {{}}
    <3>1. 1 \in 1..latest
      BY <1>1
    <3> QED
      BY <3>1
  <2>3. CallsStore("init")
    BY <2>1, <2>2 DEF CallsStore, Tells
  <2>4. Len(pending') = Len(pending) + 1
    BY <1>1, <2>1, <2>2, CallCounts
  <2>5. Here
    BY <1>1, <1>3, <2>4 DEF Polling!ReplyData
  <2> QED
    BY <2>3, <2>5 DEF ClientStep
<1>4. CASE Polling!ReplyNotModified
  <2>1. Quiet
    BY <1>4 DEF Polling!ReplyNotModified, Polling!clientVars, Quiet, Tells, telling
  <2>2. Here
    BY <1>1, <1>4 DEF Polling!ReplyNotModified, Polling!clientVars
  <2> QED
    BY <2>1, <2>2 DEF ClientStep
<1>5. CASE Polling!ReplyMalformed
  <2>1. Quiet
    BY <1>5, SharedByPoll DEF Polling!ReplyMalformed, Quiet, Tells
  <2>2. Here
    BY <1>1, <1>5 DEF Polling!ReplyMalformed
  <2> QED
    BY <2>1, <2>2 DEF ClientStep
<1>6. CASE Polling!ReplyFailed
  <2>1. Quiet
    BY <1>6 DEF Polling!ReplyFailed, Polling!clientVars, Quiet, Tells, telling
  <2>2. Here
    BY <1>1, <1>6 DEF Polling!ReplyFailed, Polling!clientVars
  <2> QED
    BY <2>1, <2>2 DEF ClientStep
<1>7. CASE Polling!ReplyRefused
  <2>1. Quiet
    BY <1>7, SharedByPoll DEF Polling!ReplyRefused, Quiet, Tells
  <2>2. Here
    BY <1>1, <1>7 DEF Polling!ReplyRefused
  <2> QED
    BY <2>1, <2>2 DEF ClientStep
<1>8. CASE Polling!PollInitDone
  <2>1. StoreDone("init") /\ StartSucceeded
    BY <1>8, SharedByPoll DEF Polling!PollInitDone
  <2>2. WorksOff("init") /\ Len(pending') = Len(pending) - 1
    BY <1>1, <2>1, DoneCounts DEF WorksOff
  <2>3. pending # <<>> /\ Len(pending) > 0 /\ stopped' = stopped
    BY <1>1, <2>1 DEF StoreDone
  <2>4. Here
    BY <1>1, <1>8, <2>2, <2>3 DEF Polling!PollInitDone
  <2> QED
    BY <2>2, <2>4 DEF ClientStep
<1>9. CASE Polling!Timer
  <2>1. Quiet
    BY <1>9 DEF Polling!Timer, Polling!clientVars, Quiet, Tells, telling
  <2>2. Here
    BY <1>1, <1>9 DEF Polling!Timer, Polling!Poll, Polling!clientVars
  <2> QED
    BY <2>1, <2>2 DEF ClientStep
<1>10. CASE Polling!StopPolling
  <2>1. Quiet
    BY <1>10 DEF Polling!StopPolling, Quiet, Tells, telling
  <2>2. Here
    BY <1>1, <1>10 DEF Polling!StopPolling
  <2> QED
    BY <2>1, <2>2 DEF ClientStep
<1> QED
  BY <1>3, <1>4, <1>5, <1>6, <1>7, <1>8, <1>9, <1>10 DEF Polling!NextPoll, Polling!Reply

-----------------------------------------------------------------------------
(* FileDataSource.                                                         *)

(* A sequence without one member.                                          *)
LEMMA RemoveAtTyped ==
  ASSUME NEW S, NEW s \in Seq(S), NEW n \in DOMAIN s
  PROVE  File!RemoveAt(s, n) \in Seq(S)
<1>1. n \in 1..Len(s) /\ Len(s) \in Nat
  OBVIOUS
<1>2. SubSeq(s, 1, n - 1) \in Seq(S)
  BY <1>1, SubSeqProperties
<1>3. SubSeq(s, n + 1, Len(s)) \in Seq(S)
  BY <1>1, SubSeqProperties
<1> QED
  BY <1>2, <1>3, ConcatProperties DEF File!RemoveAt

(* A file operation that is waited for has brought nothing yet.            *)
LEMMA AwaitTyped ==
  ASSUME latest \in Nat, NEW p \in Path, NEW S, NEW step \in S
  PROVE  File!Await(p, step) \in Reading(S) /\ File!Await(p, step).step = step
         /\ File!Await(p, step).got = 0
BY DEF File!Await, Reading, ReadingUpTo

(* The data of all files is handed to the store, or an error is told.      *)
LEMMA ProcessTells ==
  ASSUME latest \in Nat, NEW data \in [Path -> 1..latest], fileData' = data,
         UNCHANGED <<stored, lost>>, File!ProcessFileData
  PROVE  ClientStep
<1>1. {data[p] : p \in Path} \in (SUBSET (1..latest)) \ {{}}
  BY ClientAssumption
<1>2. \A p \in Path : fileData'[p] = data[p]
  OBVIOUS
<1>3. \/ pending' = pending /\ (StartFailed \/ UNCHANGED telling)
      \/ CallStore("init", {data[p] : p \in Path}) /\ UNCHANGED telling
  BY <1>2, SharedByFile DEF File!ProcessFileData, telling
<1> QED
  BY <1>1, <1>3 DEF ClientStep, Quiet, CallsStore, Tells

FileKept ==
  /\ ClientStep /\ latest' = latest
  /\ stopped' \in BOOLEAN /\ (stopped => stopped')
  /\ FilesTyped' /\ FileGoes'

(* The first reads.                                                        *)
LEMMA DataLoadedKeeps ==
  ASSUME FilesTyped, FileGoes, latest \in Nat, stopped \in BOOLEAN, NEW p \in Path, File!DataLoaded(p)
  PROVE  FileKept
<1>1. File!Await(p, "time") \in Reading(Loads) /\ File!Await(p, "time").step = "time"
  BY AwaitTyped DEF Loads
<1> DEFINE r == [File!Await(p, "time") EXCEPT !.data = files[p]]
<1>2. r \in Reading(Loads) /\ r.data = files[p] /\ files[p] \in 1..latest
  <2>1. files[p] \in 1..latest /\ files[p] \in 0..latest
    BY DEF FilesTyped, FilesTypedUpTo, Reading
  <2> QED
    BY <1>1, <2>1 DEF Reading, ReadingUpTo
<1>3. loading' = [loading EXCEPT ![p] = r]
  BY DEF File!DataLoaded
<1> HIDE DEF r
<1>4. loading' \in [Path -> Reading(Loads)]
  BY <1>2, <1>3 DEF FilesTyped, FilesTypedUpTo, Reading
<1>5. \A q \in Path : loading'[q] = IF q = p THEN r ELSE loading[q]
  BY <1>3 DEF FilesTyped, FilesTypedUpTo, Reading
<1>6. /\ UNCHANGED <<initState, promise, ready, failed, stopped, pending, stored, lost>>
      /\ UNCHANGED <<files, bad, watch, fileData, fileTimestamps, handlers, debounce, initCallback, missed, latest>>
  BY DEF File!DataLoaded, File!clientVars
<1>7. FilesTyped'
  BY <1>4, <1>6 DEF FilesTyped, FilesTypedUpTo, Reading, ReadingUpTo, Handles, Loads
<1>8. FileGoes'
  BY <1>2, <1>5, <1>6 DEF FileGoes
<1> QED
  BY <1>6, <1>7, <1>8 DEF FileKept, ClientStep, Quiet, Tells, telling

(* The time stamp of a file is read at the start.                          *)
LEMMA TimeLoadedKeeps ==
  ASSUME FilesTyped, FileGoes, latest \in Nat, stopped \in BOOLEAN, NEW p \in Path, File!TimeLoaded(p)
  PROVE  FileKept
<1>1. loading[p] \in Reading(Loads) /\ files[p] \in 0..latest /\ loading[p].step = "time"
  BY DEF FilesTyped, FilesTypedUpTo, Reading, File!TimeLoaded
<1> DEFINE r == [[loading[p] EXCEPT !.step = "loaded"] EXCEPT !.got = files[p]]
<1>2. r \in Reading(Loads) /\ r.data = loading[p].data
  BY <1>1 DEF Reading, ReadingUpTo, Loads
<1>3. loading' = [loading EXCEPT ![p] = r]
  BY Zenon DEF File!TimeLoaded, FilesTyped, FilesTypedUpTo, Reading
<1> HIDE DEF r
<1>4. loading' \in [Path -> Reading(Loads)]
  BY <1>2, <1>3 DEF FilesTyped, FilesTypedUpTo, Reading
<1>5. \A q \in Path : loading'[q] = IF q = p THEN r ELSE loading[q]
  BY <1>3 DEF FilesTyped, FilesTypedUpTo, Reading
<1>6. /\ UNCHANGED <<initState, promise, ready, failed, stopped, pending, stored, lost>>
      /\ UNCHANGED <<files, bad, watch, fileData, fileTimestamps, handlers, debounce, initCallback, missed, latest>>
  BY DEF File!TimeLoaded, File!clientVars
<1>7. FilesTyped'
  BY <1>4, <1>6 DEF FilesTyped, FilesTypedUpTo, Reading, ReadingUpTo, Handles, Loads
<1>8. FileGoes'
  BY <1>1, <1>2, <1>5, <1>6 DEF FileGoes
<1> QED
  BY <1>6, <1>7, <1>8 DEF FileKept, ClientStep, Quiet, Tells, telling

(* A file cannot be read at the start.                                     *)
LEMMA LoadFailsKeeps ==
  ASSUME FilesTyped, FileGoes, latest \in Nat, stopped \in BOOLEAN, File!LoadFails
  PROVE  FileKept
<1>1. \A p \in Path : File!Await(p, "failed") \in Reading(Loads) /\ File!Await(p, "failed").step = "failed"
  BY AwaitTyped DEF Loads
<1>2. loading' = [p \in Path |-> File!Await(p, "failed")]
  BY DEF File!LoadFails
<1>3. loading' \in [Path -> Reading(Loads)] /\ \A p \in Path : loading'[p].step = "failed"
  BY <1>1, <1>2
<1>4. /\ StartFailed /\ UNCHANGED <<stopped, pending, stored, lost>>
      /\ UNCHANGED <<files, bad, watch, fileData, fileTimestamps, handlers, debounce, initCallback, missed, latest>>
  BY SharedByFile DEF File!LoadFails
<1>5. FilesTyped'
  BY <1>3, <1>4 DEF FilesTyped, FilesTypedUpTo, Reading, ReadingUpTo, Handles, Loads
<1>6. FileGoes'
  BY <1>3, <1>4 DEF FileGoes
<1> QED
  BY <1>4, <1>5, <1>6 DEF FileKept, ClientStep, Quiet, Tells

(* All files are read at the start.                                        *)
LEMMA AllLoadedKeeps ==
  ASSUME FilesTyped, FileGoes, latest \in Nat, stopped \in BOOLEAN, File!AllLoaded
  PROVE  FileKept
<1>1. \A p \in Path : File!Await(p, "done") \in Reading(Loads) /\ File!Await(p, "done").step = "done"
  BY AwaitTyped DEF Loads
<1>2. loading' = [p \in Path |-> File!Await(p, "done")]
  BY DEF File!AllLoaded
<1>3. loading' \in [Path -> Reading(Loads)] /\ \A p \in Path : loading'[p].step = "done"
  BY <1>1, <1>2
<1>4. \A p \in Path : loading[p].data \in 1..latest /\ loading[p].got \in 0..latest
  <2> TAKE p \in Path
  <2>1. loading[p] \in Reading(Loads) /\ loading[p].step = "loaded"
    BY DEF FilesTyped, FilesTypedUpTo, Reading, File!AllLoaded
  <2> QED
    BY <2>1 DEF FileGoes, Reading, ReadingUpTo
<1> DEFINE data == [p \in Path |-> loading[p].data]
<1>5. data \in [Path -> 1..latest] /\ fileData' = data
      /\ fileTimestamps' \in [Path -> 0..latest]
  BY <1>4 DEF File!AllLoaded
<1> HIDE DEF data
<1>6. /\ File!ProcessFileData /\ UNCHANGED <<stored, lost>> /\ stopped' = stopped
      /\ watch' = (IF watch = "later" THEN "on" ELSE watch)
      /\ UNCHANGED <<files, bad, handlers, debounce, initCallback, missed, latest>>
  BY DEF File!AllLoaded
<1>7. ClientStep
  BY <1>5, <1>6, ProcessTells
<1>8. FilesTyped'
  BY <1>3, <1>5, <1>6 DEF FilesTyped, FilesTypedUpTo, Reading, ReadingUpTo, Handles, Loads
<1>9. FileGoes'
  BY <1>3, <1>5, <1>6 DEF FileGoes, FilesTyped, FilesTypedUpTo, Reading
<1> QED
  BY <1>6, <1>7, <1>8, <1>9 DEF FileKept

(* The timer, the store and the stop.                                      *)
LEMMA DebounceFiresKeeps ==
  ASSUME FilesTyped, FileGoes, latest \in Nat, stopped \in BOOLEAN, File!DebounceFires
  PROVE  FileKept
<1>1. /\ File!ProcessFileData /\ debounce = "timer" /\ debounce' = "none" /\ fileData' = fileData
      /\ UNCHANGED <<stopped, stored, lost, files, bad, loading, watch, fileTimestamps, handlers, initCallback, missed, latest>>
  BY DEF File!DebounceFires
<1>2. fileData \in [Path -> 1..latest]
  <2>1. \A p \in Path : fileData[p] # 0 /\ fileData[p] \in 0..latest
    BY <1>1 DEF FileGoes, FilesTyped, FilesTypedUpTo, Reading
  <2> QED
    BY <2>1 DEF FilesTyped, FilesTypedUpTo, Reading
<1>3. ClientStep
  BY <1>1, <1>2, ProcessTells
<1>4. FilesTyped'
  BY <1>1 DEF FilesTyped, FilesTypedUpTo, Reading, ReadingUpTo, Handles, Loads
<1>5. FileGoes'
  BY <1>1 DEF FileGoes
<1> QED
  BY <1>1, <1>3, <1>4, <1>5 DEF FileKept

(* The store has the data of the files.                                    *)
LEMMA FileInitDoneKeeps ==
  ASSUME FilesTyped, FileGoes, latest \in Nat, stopped \in BOOLEAN, File!FileInitDone
  PROVE  FileKept
<1>1. /\ StoreDone("init") /\ (StartSucceeded \/ UNCHANGED telling) /\ initCallback' = FALSE
      /\ UNCHANGED <<files, bad, loading, watch, fileData, fileTimestamps, handlers, debounce, missed, latest>>
  BY SharedByFile DEF File!FileInitDone, telling
<1>2. FilesTyped'
  BY <1>1 DEF FilesTyped, FilesTypedUpTo, Reading, ReadingUpTo, Handles, Loads
<1>3. FileGoes'
  BY <1>1 DEF FileGoes
<1>4. ClientStep /\ stopped' = stopped
  BY <1>1 DEF ClientStep, WorksOff, Tells, StoreDone
<1> QED
  BY <1>1, <1>2, <1>3, <1>4 DEF FileKept

(* The file data source is stopped.                                        *)
LEMMA StopFilesKeeps ==
  ASSUME FilesTyped, FileGoes, latest \in Nat, stopped \in BOOLEAN, File!StopFiles
  PROVE  FileKept
<1>1. /\ stopped' = TRUE /\ watch' = (IF watch = "on" THEN "closed" ELSE watch)
      /\ UNCHANGED <<initState, promise, ready, failed, pending, stored, lost, files, bad, loading, fileData>>
      /\ UNCHANGED <<fileTimestamps, handlers, debounce, initCallback, missed, latest>>
  BY DEF File!StopFiles
<1>2. FilesTyped'
  BY <1>1 DEF FilesTyped, FilesTypedUpTo, Reading, ReadingUpTo, Handles, Loads
<1>3. FileGoes'
  BY <1>1 DEF FileGoes
<1> QED
  BY <1>1, <1>2, <1>3 DEF FileKept, ClientStep, Quiet, Tells, telling

(* The callbacks of the watchers: there is none before the first data.     *)
LEMMA HandlerTyped ==
  ASSUME FilesTyped, FileGoes, latest \in Nat, NEW n \in DOMAIN handlers
  PROVE  /\ n \in 1..Len(handlers) /\ handlers[n] \in Reading(Handles) /\ handlers[n].path \in Path
         /\ watch \notin {"no", "later"} /\ \A p \in Path : fileData[p] # 0
<1>1. n \in 1..Len(handlers) /\ handlers[n] \in Reading(Handles) /\ handlers # <<>>
  BY DEF FilesTyped, FilesTypedUpTo, Reading
<1> QED
  BY <1>1 DEF FileGoes, Reading, ReadingUpTo

(* A step of a callback changes the callbacks, or what has been read.      *)
LEMMA HandlingKeeps ==
  ASSUME FilesTyped, FileGoes, latest \in Nat, stopped \in BOOLEAN,
         watch \notin {"no", "later"}, NEW p \in Path, NEW t \in 0..latest, NEW d \in 1..latest,
         handlers' \in Seq(Reading(Handles)),
         fileTimestamps' \in {fileTimestamps, [fileTimestamps EXCEPT ![p] = t]},
         fileData' \in {fileData, [fileData EXCEPT ![p] = d]},
         debounce' \in {"none", "timer"}, missed' \subseteq Path,
         UNCHANGED <<initState, promise, ready, failed, stopped, pending, stored, lost>>,
         UNCHANGED <<files, bad, loading, watch, initCallback, latest>>
  PROVE  FileKept
<1>1. fileTimestamps' \in [Path -> 0..latest]
  BY DEF FilesTyped, FilesTypedUpTo, Reading
<1>2. fileData' \in [Path -> 0..latest] /\ \A q \in Path : fileData'[q] # 0
  <2>1. d \in 0..latest /\ d # 0
    OBVIOUS
  <2>2. CASE fileData' = fileData
    BY <2>2 DEF FilesTyped, FilesTypedUpTo, Reading, FileGoes
  <2>3. CASE fileData' = [fileData EXCEPT ![p] = d]
    BY <2>1, <2>3 DEF FilesTyped, FilesTypedUpTo, Reading, FileGoes
  <2> QED
    BY <2>2, <2>3
<1>3. FilesTyped'
  BY <1>1, <1>2 DEF FilesTyped, FilesTypedUpTo, Reading, ReadingUpTo, Handles, Loads
<1>4. FileGoes'
  BY <1>2 DEF FileGoes
<1> QED
  BY <1>3, <1>4 DEF FileKept, ClientStep, Quiet, Tells, telling

(* A file operation is answered.                                           *)
LEMMA AnswerKeeps ==
  ASSUME FilesTyped, FileGoes, latest \in Nat, stopped \in BOOLEAN, NEW n \in DOMAIN handlers, File!Answer(n)
  PROVE  FileKept
<1>1. /\ n \in 1..Len(handlers) /\ handlers[n] \in Reading(Handles) /\ handlers[n].path \in Path
      /\ watch \notin {"no", "later"} /\ \A p \in Path : fileData[p] # 0
  BY HandlerTyped
<1>2. files[handlers[n].path] \in 0..latest /\ files[handlers[n].path] \in 1..latest
  BY <1>1 DEF FilesTyped, FilesTypedUpTo, Reading
<1> DEFINE h == [handlers[n] EXCEPT !.got = files[handlers[n].path]]
<1>3. h \in Reading(Handles)
  BY <1>1, <1>2 DEF Reading, ReadingUpTo
<1>4. handlers' = [handlers EXCEPT ![n] = h]
  BY DEF File!Answer
<1> HIDE DEF h
<1>5. handlers' \in Seq(Reading(Handles))
  BY <1>1, <1>3, <1>4 DEF FilesTyped, FilesTypedUpTo, Reading
<1>6. /\ UNCHANGED <<initState, promise, ready, failed, stopped, pending, stored, lost>>
      /\ UNCHANGED <<files, bad, loading, watch, fileData, fileTimestamps, debounce, initCallback, missed, latest>>
  BY DEF File!Answer, File!clientVars
<1>7. debounce \in {"none", "timer"} /\ missed \subseteq Path
  BY DEF FilesTyped, FilesTypedUpTo, Reading
<1> QED
  BY <1>1, <1>2, <1>5, <1>6, <1>7, HandlingKeeps

(* A handler finds that its file is as it was.                             *)
LEMMA SameTimestampKeeps ==
  ASSUME FilesTyped, FileGoes, latest \in Nat, stopped \in BOOLEAN, NEW n \in DOMAIN handlers, File!SameTimestamp(n)
  PROVE  FileKept
<1>1. /\ n \in 1..Len(handlers) /\ handlers[n] \in Reading(Handles) /\ handlers[n].path \in Path
      /\ watch \notin {"no", "later"}
  BY HandlerTyped
<1>2. files[handlers[n].path] \in 0..latest /\ files[handlers[n].path] \in 1..latest
  BY <1>1 DEF FilesTyped, FilesTypedUpTo, Reading
<1>3. handlers' \in Seq(Reading(Handles))
  BY <1>1, RemoveAtTyped DEF FilesTyped, FilesTypedUpTo, Reading, File!SameTimestamp
<1>4. /\ UNCHANGED <<initState, promise, ready, failed, stopped, pending, stored, lost>>
      /\ UNCHANGED <<files, bad, loading, watch, fileData, fileTimestamps, debounce, initCallback, missed, latest>>
  BY DEF File!SameTimestamp, File!clientVars
<1>5. debounce \in {"none", "timer"} /\ missed \subseteq Path
  BY DEF FilesTyped, FilesTypedUpTo, Reading
<1> QED
  BY <1>1, <1>2, <1>3, <1>4, <1>5, HandlingKeeps

(* A handler finds a new time stamp and reads the file.                    *)
LEMMA NewTimestampKeeps ==
  ASSUME FilesTyped, FileGoes, latest \in Nat, stopped \in BOOLEAN, NEW n \in DOMAIN handlers, File!NewTimestamp(n)
  PROVE  FileKept
<1> DEFINE p == handlers[n].path
<1>1. /\ n \in 1..Len(handlers) /\ handlers[n] \in Reading(Handles) /\ p \in Path
      /\ watch \notin {"no", "later"}
  BY HandlerTyped
<1>2. files[p] \in 1..latest /\ handlers[n].got \in 0..latest
  BY <1>1 DEF FilesTyped, FilesTypedUpTo, Reading, ReadingUpTo
<1>3. File!Await(p, "data") \in Reading(Handles)
  BY <1>1, AwaitTyped DEF Handles
<1>4. handlers' = [handlers EXCEPT ![n] = File!Await(p, "data")]
  BY DEF File!NewTimestamp
<1>5. handlers' \in Seq(Reading(Handles))
  BY <1>1, <1>3, <1>4 DEF FilesTyped, FilesTypedUpTo, Reading
<1>6. /\ UNCHANGED <<initState, promise, ready, failed, stopped, pending, stored, lost>>
      /\ UNCHANGED <<files, bad, loading, watch, fileData, debounce, initCallback, missed, latest>>
      /\ fileTimestamps' = [fileTimestamps EXCEPT ![p] = handlers[n].got]
  BY DEF File!NewTimestamp, File!clientVars
<1>7. debounce \in {"none", "timer"} /\ missed \subseteq Path
  BY DEF FilesTyped, FilesTypedUpTo, Reading
<1> HIDE DEF p
<1> QED
  BY <1>1, <1>2, <1>5, <1>6, <1>7, HandlingKeeps

(* A handler has read its file; with nothing else pending all the data is  *)
(* processed.                                                              *)
LEMMA NewDataKeeps ==
  ASSUME FilesTyped, FileGoes, latest \in Nat, stopped \in BOOLEAN, NEW n \in DOMAIN handlers, File!NewData(n)
  PROVE  FileKept
<1> DEFINE p == handlers[n].path
           d == handlers[n].got
<1>1. /\ n \in 1..Len(handlers) /\ handlers[n] \in Reading(Handles) /\ p \in Path
      /\ watch \notin {"no", "later"}
  BY HandlerTyped
<1>2. d \in 1..latest /\ d \in 0..latest
  BY <1>1 DEF File!NewData, Reading, ReadingUpTo
<1>3. handlers' \in Seq(Reading(Handles))
  BY <1>1, RemoveAtTyped DEF FilesTyped, FilesTypedUpTo, Reading, File!NewData
<1>4. /\ UNCHANGED <<initState, promise, ready, failed, stopped, pending, stored, lost>>
      /\ UNCHANGED <<files, bad, loading, watch, fileTimestamps, initCallback, latest>>
      /\ fileData' = [fileData EXCEPT ![p] = d]
  BY DEF File!NewData, File!clientVars
<1>5. debounce' \in {"none", "timer"} /\ missed' \subseteq Path
  BY <1>1 DEF FilesTyped, FilesTypedUpTo, Reading, File!NewData
<1> HIDE DEF p, d
<1> QED
  BY <1>1, <1>2, <1>3, <1>4, <1>5, HandlingKeeps

(* The watcher calls back for a file it watches.                           *)
LEMMA CallsBackTyped ==
  ASSUME FilesTyped, latest \in Nat, NEW p \in Path, File!CallsBack(p)
  PROVE  /\ handlers' \in Seq(Reading(Handles))
         /\ watch # "on" => handlers' = handlers
<1>1. File!Await(p, "time") \in Reading(Handles)
  BY AwaitTyped DEF Handles
<1> QED
  BY <1>1 DEF File!CallsBack, FilesTyped, FilesTypedUpTo, Reading

(* The watcher calls back once more, and another handler starts.           *)
LEMMA CalledAgainKeeps ==
  ASSUME FilesTyped, FileGoes, latest \in Nat, stopped \in BOOLEAN, NEW p \in Path, File!CalledAgain(p)
  PROVE  FileKept
<1>1. handlers' \in Seq(Reading(Handles)) /\ watch \notin {"no", "later"}
  BY CallsBackTyped DEF File!CalledAgain
<1>2. files[p] \in 1..latest /\ files[p] \in 0..latest
  BY DEF FilesTyped, FilesTypedUpTo, Reading
<1>3. /\ UNCHANGED <<initState, promise, ready, failed, stopped, pending, stored, lost>>
      /\ UNCHANGED <<files, bad, loading, watch, fileData, fileTimestamps, debounce, initCallback, missed, latest>>
  BY DEF File!CalledAgain, File!clientVars
<1>4. debounce \in {"none", "timer"} /\ missed \subseteq Path
  BY DEF FilesTyped, FilesTypedUpTo, Reading
<1> QED
  BY <1>1, <1>2, <1>3, <1>4, HandlingKeeps

(* Every action of the file data source.                                   *)
LEMMA FilesStep ==
  ASSUME Invariant, source = "file", File!NextFiles, source' = source
  PROVE  ClientStep /\ Grows /\ latest' = latest /\ FileOK'
<1>1. latest \in Nat /\ stopped \in BOOLEAN /\ FilesTyped /\ FileGoes
  BY FileParts DEF Invariant, ClientOK, TypeOKClient
<1>2. DOMAIN loading = Path /\ DOMAIN files = Path
  BY <1>1 DEF FilesTyped, FilesTypedUpTo, Reading
<1>3. FileKept
  <2>1. ASSUME NEW p \in Path, File!DataLoaded(p) \/ File!TimeLoaded(p) \/ File!CalledAgain(p)
        PROVE  FileKept
    BY <1>1, <2>1, DataLoadedKeeps, TimeLoadedKeeps, CalledAgainKeeps
  <2>2. ASSUME NEW n \in DOMAIN handlers, File!Handle(n) PROVE FileKept
    BY <1>1, <2>2, AnswerKeeps, SameTimestampKeeps, NewTimestampKeeps, NewDataKeeps DEF File!Handle
  <2>3. CASE File!AllLoaded \/ File!LoadFails \/ File!DebounceFires \/ File!FileInitDone \/ File!StopFiles
    BY <1>1, <2>3, AllLoadedKeeps, LoadFailsKeeps, DebounceFiresKeeps, FileInitDoneKeeps, StopFilesKeeps
  <2> QED
    BY <1>2, <2>1, <2>2, <2>3 DEF File!NextFiles, File!Loads
<1>4. FileOK'
  BY <1>3, FileParts DEF FileKept, FileOK, File!TypeOKFiles, FilesLoaded, FilesTyped, FilesTypedUpTo, FileGoes, Reading, ReadingUpTo, Loads, Handles
<1> QED
  BY <1>1, <1>3, <1>4 DEF FileKept, Grows

-----------------------------------------------------------------------------
(* What everybody can do: the data changes, the application waits.         *)

(* A file is written; what has been read is of its past.                   *)
LEMMA WriteFileKeeps ==
  ASSUME Invariant, source = "file", source' = source, latest' = latest + 1,
         NEW p \in Path, File!WriteFile(p)
  PROVE  FileOK'
<1>1. latest \in Nat /\ FilesTyped /\ FileGoes /\ FilesTypedUpTo(latest')
  BY FileParts, FilesGrow DEF Invariant, FilesTyped
<1>2. /\ files' = [files EXCEPT ![p] = latest'] /\ bad' \in {bad, bad \cup {latest'}}
      /\ File!CallsBack(p) /\ missed' \in {missed, missed \cup {p}}
      /\ UNCHANGED <<loading, watch, fileData, fileTimestamps, debounce, initCallback>>
  BY DEF File!WriteFile
<1>3. handlers' \in Seq(Reading(Handles)) /\ (watch # "on" => handlers' = handlers)
  BY <1>1, <1>2, CallsBackTyped
<1>4. handlers' \in Seq(ReadingUpTo(Handles, latest'))
  <2>1. ReadingUpTo(Handles, latest) \subseteq ReadingUpTo(Handles, latest')
    BY <1>1 DEF ReadingUpTo
  <2>2. Seq(ReadingUpTo(Handles, latest)) \subseteq Seq(ReadingUpTo(Handles, latest'))
    BY <2>1, SequencesGrow
  <2> QED
    BY <1>3, <2>2 DEF Reading
<1>5. files' \in [Path -> 1..latest'] /\ bad' \subseteq 1..latest' /\ missed' \subseteq Path
  <2>1. latest' \in 1..latest'
    BY <1>1
  <2> QED
    BY <1>1, <1>2, <2>1 DEF FilesTypedUpTo
<1>6. FilesTyped'
  BY <1>1, <1>2, <1>4, <1>5 DEF FilesTyped, FilesTypedUpTo, ReadingUpTo, Loads, Handles
<1>7. FileGoes'
  BY <1>1, <1>2, <1>3 DEF FileGoes
<1> QED
  BY <1>6, <1>7 DEF FileOK, File!TypeOKFiles, FilesLoaded, FilesTyped, FilesTypedUpTo, FileGoes,
    ReadingUpTo, Loads, Handles

(* The data changes at the service or in a file.                           *)
LEMMA ChangeKeeps ==
  ASSUME Invariant, Change
  PROVE  Invariant'
<1>1. latest \in Nat /\ MaxLatest \in Nat /\ stopped \in BOOLEAN
  BY ClientAssumption DEF Invariant, ClientOK, TypeOKClient
<1>2. /\ UNCHANGED <<initState, promise, ready, failed, stopped, pending, stored, lost>>
      /\ UNCHANGED <<source, streamVars, pollVars, edgeVars>>
      /\ latest' = latest + 1 /\ latest < MaxLatest
  BY DEF Change, clientVars, File!WriteFile, File!clientVars
<1>3. Grows /\ latest' \in 1..MaxLatest
  BY <1>1, <1>2 DEF Grows, Invariant
<1>4. ClientStep
  BY <1>2 DEF ClientStep, Quiet, Tells, telling
<1>5. StreamOK' /\ PollOK' /\ EdgeOK'
  BY <1>2, <1>3, StreamStill, PollStill, EdgeStill DEF Invariant
<1>6. FileOK'
  <2>1. CASE source = "file"
    BY <1>2, <2>1, WriteFileKeeps DEF Change
  <2>2. CASE source # "file"
    BY <1>3, <2>2, FileStill DEF Change, Invariant
  <2> QED
    BY <2>1, <2>2
<1> QED
  BY <1>3, <1>4, <1>5, <1>6, Combines

(* The application waits for the client.                                   *)
LEMMA WaitKeeps ==
  ASSUME Invariant, Wait
  PROVE  Invariant'
<1>1. latest \in Nat /\ stopped \in BOOLEAN
  BY DEF Invariant, ClientOK, TypeOKClient
<1>2. /\ Waits /\ UNCHANGED <<stopped, pending, stored, lost>>
      /\ UNCHANGED <<source, latest, streamVars, pollVars, fileVars, edgeVars>>
  BY DEF Wait, WaitForInitialization, Waits
<1>3. Grows /\ latest' \in 1..MaxLatest
  BY <1>1, <1>2 DEF Grows, Invariant
<1>4. ClientStep
  BY <1>2 DEF ClientStep, Quiet, Tells
<1> QED
  BY <1>2, <1>3, <1>4, StreamStill, PollStill, FileStill, EdgeStill, Combines DEF Invariant

(* A step of a client that streams.                                        *)
LEMMA StreamKeeps ==
  ASSUME Invariant, Stream
  PROVE  Invariant'
<1>1. /\ ClientStep /\ Grows /\ latest' = latest /\ StreamOK' /\ source = "stream"
      /\ UNCHANGED <<source, pollVars, fileVars, edgeVars>>
  BY StreamingStep DEF Stream
<1>2. latest' \in 1..MaxLatest
  BY <1>1 DEF Invariant
<1> QED
  BY <1>1, <1>2, PollStill, FileStill, EdgeStill, Combines DEF Invariant

(* A step of a client that polls.                                          *)
LEMMA PollKeeps ==
  ASSUME Invariant, PollStep(Polling!NextPoll)
  PROVE  Invariant'
<1>1. /\ ClientStep /\ Grows /\ latest' = latest /\ PollOK' /\ source = "poll"
      /\ UNCHANGED <<source, streamVars, fileVars, edgeVars>>
  BY PollingStep DEF PollStep
<1>2. latest' \in 1..MaxLatest
  BY <1>1 DEF Invariant
<1> QED
  BY <1>1, <1>2, StreamStill, FileStill, EdgeStill, Combines DEF Invariant

(* A step of a client that reads files.                                    *)
LEMMA FileKeeps ==
  ASSUME Invariant, FileStep(File!NextFiles)
  PROVE  Invariant'
<1>1. /\ ClientStep /\ Grows /\ latest' = latest /\ FileOK' /\ source = "file"
      /\ UNCHANGED <<source, streamVars, pollVars, edgeVars>>
  BY FilesStep DEF FileStep
<1>2. latest' \in 1..MaxLatest
  BY <1>1 DEF Invariant
<1> QED
  BY <1>1, <1>2, StreamStill, PollStill, EdgeStill, Combines DEF Invariant

(* A client without a data source is ready.                                *)
LEMMA NullTimerKeeps ==
  ASSUME Invariant, NullTimer
  PROVE  Invariant'
<1>1. latest \in Nat /\ stopped \in BOOLEAN
  BY DEF Invariant, ClientOK, TypeOKClient
<1>2. /\ StartsEmpty /\ timers' = 0 /\ source \in {"null", "edge"}
      /\ UNCHANGED <<stopped, pending, stored, lost, source, latest, streamVars, requests, etag, refused, fileVars, edgeVars>>
  BY DEF NullTimer, StartsEmpty
<1>3. Grows /\ latest' \in 1..MaxLatest
  BY <1>1, <1>2 DEF Grows, Invariant
<1>4. ClientStep
  BY <1>2 DEF ClientStep
<1>5. PollOK'
  BY <1>2 DEF PollOK, OnePollChain, Invariant
<1> QED
  BY <1>2, <1>3, <1>4, <1>5, StreamStill, FileStill, EdgeStill, Combines DEF Invariant

-----------------------------------------------------------------------------
(* EdgeStore.                                                              *)

(* The least member of a set of numbers.                                   *)
LEMMA LeastIs ==
  ASSUME NEW S \in SUBSET Nat, S # {}
  PROVE  Edge!Least(S) \in S /\ \A m \in S : Edge!Least(S) <= m
<1> DEFINE R == OpToRel(<, Nat)
<1>1. \A x, y \in Nat : <<y, x>> \in R <=> y < x
  BY DEF OpToRel
<1>2. IsWellFoundedOn(R, Nat)
  BY NatLessThanWellFounded
<1> HIDE DEF R
<1>3. PICK x \in S : \A y \in S : ~(<<y, x>> \in R)
  BY <1>2, WFMin
<1>4. \A y \in S : x <= y
  <2> TAKE y \in S
  <2>1. x \in Nat /\ y \in Nat /\ ~(y < x)
    BY <1>1, <1>3
  <2> QED
    BY <2>1
<1> QED
  BY <1>3, <1>4 DEF Edge!Least

Value == [stage : Edge!Stage, reply : Edge!Awaited..latest, asked : 0..latest, reads : Nat,
          used : SUBSET (1..latest)]

Asking == {"prefetch", "initialized", "get", "all"}

(* An evaluation v goes on as w: it has an answer if the cache has one.    *)
Goes(v, w, cached) ==
  /\ w \in Value /\ w.used = v.used /\ w.stage \in Asking
  /\ IF cached # 0 THEN w.reply = cached ELSE w.reply = Edge!Awaited /\ w.asked = latest

Waiting(v, stage, reply) == [v EXCEPT !.stage = stage, !.reply = reply]

(* An evaluation that waits for a reply keeps what it has used.            *)
LEMMA WaitingTyped ==
  ASSUME latest \in Nat, NEW v \in Value, NEW stage \in Edge!Stage, NEW reply \in Edge!Awaited..latest
  PROVE  /\ Waiting(v, stage, reply) \in Value
         /\ Waiting(v, stage, reply).stage = stage /\ Waiting(v, stage, reply).reply = reply
         /\ Waiting(v, stage, reply).asked = v.asked /\ Waiting(v, stage, reply).used = v.used
<1> DEFINE u == [v EXCEPT !.stage = stage]
           w == [u EXCEPT !.reply = reply]
<1>1. u \in Value /\ u.stage = stage /\ u.asked = v.asked /\ u.used = v.used
  BY DEF Value
<1>2. Waiting(v, stage, reply) = w
  BY DEF Waiting
<1> HIDE DEF u
<1>3. w \in Value /\ w.stage = stage /\ w.reply = reply /\ w.asked = v.asked /\ w.used = v.used
  BY <1>1 DEF Value
<1> HIDE DEF w
<1> QED
  BY <1>2, <1>3

(* A request goes to the edge service.                                     *)
LEMMA RequestGoes ==
  ASSUME latest \in Nat, NEW v \in Value, NEW stage \in Asking
  PROVE  Goes(v, Edge!Request(v, stage), 0)
<1> DEFINE u == Waiting(v, stage, Edge!Awaited)
           w == [u EXCEPT !.asked = latest]
<1>1. stage \in Edge!Stage /\ Edge!Awaited \in Edge!Awaited..latest
  BY DEF Asking, Edge!Stage, Edge!Awaited
<1>2. u \in Value /\ u.stage = stage /\ u.reply = Edge!Awaited /\ u.used = v.used
  BY <1>1, WaitingTyped
<1>3. Edge!Request(v, stage) = w
  BY DEF Edge!Request, Waiting
<1> HIDE DEF u
<1>4. w \in Value /\ w.stage = stage /\ w.reply = Edge!Awaited /\ w.used = v.used /\ w.asked = latest
  BY <1>2 DEF Value
<1> HIDE DEF w
<1> QED
  BY <1>3, <1>4 DEF Goes

(* A read is served by the cache, or goes to the edge service.             *)
LEMMA CacheableGoes ==
  ASSUME latest \in Nat, NEW v \in Value, NEW stage \in Asking, NEW cached \in Edge!Garbled..latest
  PROVE  Goes(v, Edge!CacheableGet(v, stage, cached), cached)
<1>1. CASE cached = 0
  BY <1>1, RequestGoes DEF Edge!CacheableGet, Edge!Nothing
<1>2. CASE cached # 0
  <2> DEFINE w == Waiting(v, stage, cached)
  <2>1. stage \in Edge!Stage /\ cached \in Edge!Awaited..latest
    BY DEF Asking, Edge!Stage, Edge!Awaited, Edge!Garbled
  <2>2. w \in Value /\ w.stage = stage /\ w.reply = cached /\ w.used = v.used
    BY <2>1, WaitingTyped
  <2>3. Edge!CacheableGet(v, stage, cached) = w
    BY <1>2 DEF Edge!CacheableGet, Edge!Nothing, Waiting
  <2> HIDE DEF w
  <2> QED
    BY <1>2, <2>2, <2>3 DEF Goes
<1> QED
  BY <1>1, <1>2

(* The reads of an evaluation go on.                                       *)
LEMMA ReadsGo ==
  ASSUME latest \in Nat, Edge!TypeOKEdge, OnlyAkamaiCaches, NEW v \in Value, NEW w \in Edge!Reads(v)
  PROVE  Goes(v, w, cache)
<1> DEFINE counted == [v EXCEPT !.reads = v.reads + 1]
<1>1. counted \in Value /\ counted.used = v.used
  BY DEF Value
<1>2. /\ cache \in Edge!Garbled..latest /\ akamai \in BOOLEAN /\ (~akamai => cache = 0)
      /\ "get" \in Asking /\ "all" \in Asking
  BY DEF Edge!TypeOKEdge, OnlyAkamaiCaches, Asking
<1>3. \/ akamai /\ (w = Edge!CacheableGet(counted, "get", cache) \/ w = Edge!CacheableGet(counted, "all", cache))
      \/ ~akamai /\ (w = Edge!Request(counted, "get") \/ w = Edge!Request(counted, "all"))
  BY DEF Edge!Reads, Edge!AkamaiGet, Edge!AkamaiAll, Edge!EdgeGet, Edge!EdgeAll
<1> HIDE DEF counted
<1>4. Goes(counted, w, cache)
  BY <1>1, <1>2, <1>3, CacheableGoes, RequestGoes
<1> QED
  BY <1>1, <1>4 DEF Goes

(* An evaluation ends or goes on to what it still needs.                   *)
LEMMA EvaluateGoes ==
  ASSUME latest \in Nat, Edge!TypeOKEdge, OnlyAkamaiCaches, NEW v \in Value,
         NEW w \in Edge!EvaluateIfPossible(v)
  PROVE  Goes(v, w, cache)
<1>1. /\ cache \in Edge!Garbled..latest /\ akamai \in BOOLEAN /\ (~akamai => cache = 0)
      /\ "initialized" \in Asking
  BY DEF Edge!TypeOKEdge, OnlyAkamaiCaches, Asking
<1>2. CASE w \in Edge!Reads(v)
  BY <1>2, ReadsGo
<1>3. CASE akamai /\ w = Edge!CacheableGet(v, "initialized", cache)
  BY <1>1, <1>3, CacheableGoes
<1>4. CASE ~akamai /\ w = Edge!Request(v, "initialized")
  BY <1>1, <1>4, RequestGoes
<1> QED
  BY <1>1, <1>2, <1>3, <1>4 DEF Edge!EvaluateIfPossible, Edge!AkamaiInitialized, Edge!EdgeInitialized

(* An evaluation that ends has used what it had used.                      *)
LEMMA EndsTyped ==
  ASSUME latest \in Nat, NEW v \in Value, NEW stage \in Edge!Settled
  PROVE  /\ Waiting(v, stage, 0) \in Value /\ Waiting(v, stage, 0).stage = stage
         /\ Waiting(v, stage, 0).reply = 0 /\ Waiting(v, stage, 0).used = v.used
<1>1. stage \in Edge!Stage /\ 0 \in Edge!Awaited..latest
  BY DEF Edge!Settled, Edge!Stage, Edge!Awaited
<1> QED
  BY <1>1, WaitingTyped

EdgeTyped ==
  /\ akamai \in BOOLEAN /\ cache \in Edge!Garbled..latest /\ evaluations \in [Evaluation -> Value]
  /\ begun \in [Evaluation -> 0..latest] /\ oldest \in [Evaluation -> 0..latest]
  /\ alone \in [Evaluation -> BOOLEAN] /\ fetched \in [Evaluation -> Nat]

(* What is said of an edge SDK, in two parts.                              *)
LEMMA EdgeParts == EdgeOK <=> EdgeTyped /\ EdgeFresh
BY DEF EdgeOK, EdgeTyped, Edge!TypeOKEdge, Value

(* The evaluations that run are those that have begun and not ended.       *)
LEMMA RunningIs ==
  Running = {e \in Evaluation : evaluations[e].stage # "begin" /\ evaluations[e].stage \notin Edge!Settled}
BY DEF Running, Edge!Running

(* The edge model counts as this module does.                              *)
LEMMA SameCardinality == \A S : Edge!Cardinality(S) = Cardinality(S)
BY DEF Edge!Cardinality, Cardinality

(* Of one evaluation no two run.                                           *)
LEMMA AtMostOne ==
  ASSUME NEW n, NEW S \in SUBSET {n}
  PROVE  Edge!Cardinality(S) <= 1
<1>1. S = {} \/ S = {n}
  OBVIOUS
<1>2. Cardinality({}) = 0 /\ Cardinality({n}) = 1
  BY FS_EmptySet, FS_Singleton
<1>3. Cardinality(S) <= 1
  BY <1>1, <1>2
<1> QED
  BY <1>3, SameCardinality

Continued(v, w) ==
  /\ w \in Value /\ w.used \subseteq v.used \cup Edge!Deserialized(v.reply)
  /\ \/ w.stage \in Edge!Settled /\ w.reply = 0
     \/ /\ w.stage \in Asking
        /\ IF cache # 0 THEN w.reply = cache ELSE w.reply = Edge!Awaited /\ w.asked = latest

(* An evaluation goes on with what it was answered, or comes to its end.   *)
LEMMA ContinuedKeeps ==
  ASSUME EdgeOK, latest \in Nat, latest' = latest, NEW e \in Running, NEW w,
         evaluations[e].reply # Edge!Awaited, Continued(evaluations[e], w),
         evaluations' = [evaluations EXCEPT ![e] = w],
         UNCHANGED <<akamai, cache, begun, oldest, alone, fetched>>
  PROVE  EdgeOK'
<1>1. EdgeTyped /\ EdgeFresh /\ e \in Evaluation /\ Edge!Awaited = -3 /\ Edge!Garbled = -1
  BY EdgeParts, RunningIs DEF Edge!Awaited, Edge!Garbled
<1> DEFINE v == evaluations[e]
<1>2. v \in Value /\ w \in Value /\ \A f \in Evaluation : evaluations'[f] = IF f = e THEN w ELSE evaluations[f]
  BY <1>1 DEF EdgeTyped, Continued
<1>3. EdgeTyped'
  BY <1>1, <1>2 DEF EdgeTyped, Value, Edge!Garbled, Edge!Awaited, Edge!Stage
<1>4. Running' \subseteq Running /\ (e \in Running' => w.stage \in Asking)
  <2>1. Running' = {f \in Evaluation : evaluations'[f].stage # "begin" /\ evaluations'[f].stage \notin Edge!Settled}
    BY DEF Running, Edge!Running, Edge!Settled
  <2> QED
    BY <1>2, <2>1, RunningIs DEF Continued
<1>5. w.stage # "begin" /\ w.reply \in Edge!Awaited..latest
  BY <1>2 DEF Continued, Edge!Settled, Asking, Value
<1>6. BeginsAnew'
  BY <1>1, <1>2, <1>5 DEF EdgeFresh, BeginsAnew
<1>7. Overlaps'
  BY <1>1, <1>4 DEF EdgeFresh, Overlaps
<1>8. Running \subseteq Evaluation /\ \A f \in Evaluation : begun[f] \in 0..latest /\ oldest[f] \in 0..latest
  BY <1>1, RunningIs DEF EdgeTyped
<1>9. AsksFresh'
  <2> SUFFICES ASSUME NEW f \in Running', evaluations'[f].reply = -3
               PROVE  begun[f] <= evaluations'[f].asked
    BY <1>1 DEF AsksFresh, Edge!Awaited
  <2>1. CASE f # e
    BY <1>1, <1>2, <1>4, <1>8, <2>1 DEF EdgeFresh, AsksFresh
  <2>2. CASE f = e
    <3>1. w.asked = latest
      BY <1>1, <1>2, <1>4, <2>2 DEF Continued, Asking, Edge!Settled, EdgeTyped
    <3> QED
      BY <1>1, <1>2, <1>8, <2>2, <3>1
  <2> QED
    BY <2>1, <2>2
<1>10. cache \in -1..latest /\ (w.reply > 0 => e \in Running /\ w.reply = cache)
       /\ (w.reply = -3 => cache = 0 \/ cache = -3)
  BY <1>1 DEF Continued, EdgeTyped
<1>11. RepliesFresh'
  <2> SUFFICES ASSUME NEW f \in Running', evaluations'[f].reply > 0
               PROVE  oldest[f] <= evaluations'[f].reply
    BY DEF RepliesFresh
  <2>1. CASE f # e
    BY <1>1, <1>2, <1>4, <1>8, <2>1 DEF EdgeFresh, RepliesFresh
  <2>2. CASE f = e
    BY <1>1, <1>2, <1>10, <2>2 DEF EdgeFresh, CacheFresh
  <2> QED
    BY <2>1, <2>2
<1>12. CacheFresh' /\ OnlyAkamaiCaches'
  BY <1>1, <1>4 DEF EdgeFresh, CacheFresh, OnlyAkamaiCaches
<1>13. ASSUME akamai, alone[e]
       PROVE  /\ Running = {e} /\ w.used \subseteq {cache} /\ fetched[e] <= 1
              /\ (cache <= 0 => w.used = {} /\ fetched[e] = 0)
  <2>1. /\ Running = {e} /\ (v.reply > 0 => v.reply = cache) /\ v.used \subseteq {cache} /\ fetched[e] <= 1
        /\ (cache <= 0 => v.used = {} /\ fetched[e] = 0)
    BY <1>1, <1>13 DEF EdgeFresh, AloneAtCache, AloneAt
  <2>2. v.reply \in -3..latest
    BY <1>1, <1>2 DEF Value
  <2>3. w.used \subseteq v.used \cup (IF v.reply > 0 THEN {v.reply} ELSE {})
    BY DEF Continued, Edge!Deserialized, Edge!Nothing
  <2> HIDE DEF v
  <2> QED
    BY <1>10, <2>1, <2>2, <2>3
<1>14. AloneAtCache'
  <2> SUFFICES ASSUME NEW f \in Running', akamai, alone[f] PROVE AloneAt(f)'
    BY DEF AloneAtCache
  <2>1. f = e
    BY <1>1, <1>4 DEF EdgeFresh, AloneAtCache, AloneAt
  <2>2. Running' = {e}
    BY <1>4, <1>13, <2>1
  <2> QED
    BY <1>1, <1>2, <1>10, <1>13, <2>1, <2>2 DEF AloneAt, Edge!Awaited
<1>15. \A n \in w.used : oldest[e] <= n
  <2> TAKE n \in w.used
  <2>1. n \in v.used \/ (n = v.reply /\ v.reply > 0)
    BY DEF Continued, Edge!Deserialized, Edge!Nothing
  <2>2. \A m \in v.used : oldest[e] <= m
    BY <1>1 DEF EdgeFresh, EvaluatesFreshData, Edge!EvaluatesFreshData
  <2>3. v.reply > 0 => oldest[e] <= v.reply
    BY <1>1 DEF EdgeFresh, RepliesFresh
  <2> QED
    BY <2>1, <2>2, <2>3
<1>16. akamai /\ alone[e] => Edge!Cardinality(w.used) <= 1 /\ fetched[e] <= 1
  BY <1>13, AtMostOne
<1>17. EvaluatesFreshData'
  <2> SUFFICES ASSUME NEW f \in Evaluation
               PROVE  /\ \A n \in evaluations'[f].used : oldest[f] <= n
                      /\ akamai /\ alone[f] => Edge!Cardinality(evaluations'[f].used) <= 1 /\ fetched[f] <= 1
    BY DEF EvaluatesFreshData, Edge!EvaluatesFreshData
  <2>1. CASE f = e
    BY <1>2, <1>15, <1>16, <2>1
  <2>2. CASE f # e
    BY <1>1, <1>2, <2>2 DEF EdgeFresh, EvaluatesFreshData, Edge!EvaluatesFreshData
  <2> QED
    BY <2>1, <2>2
<1>18. EdgeFresh'
  BY <1>6, <1>7, <1>9, <1>11, <1>12, <1>14, <1>17 DEF EdgeFresh
<1> QED
  BY <1>3, <1>18 DEF EdgeOK, EdgeTyped, Edge!TypeOKEdge, Value

Answering(v, reply) == [v EXCEPT !.reply = reply, !.asked = 0]

(* An evaluation that has its reply keeps what it has used.                *)
LEMMA AnsweringTyped ==
  ASSUME latest \in Nat, NEW v \in Value, NEW reply \in Edge!Awaited..latest
  PROVE  /\ Answering(v, reply) \in Value /\ Answering(v, reply).stage = v.stage
         /\ Answering(v, reply).reply = reply /\ Answering(v, reply).used = v.used
<1> DEFINE u == [v EXCEPT !.reply = reply]
           w == [u EXCEPT !.asked = 0]
<1>1. u \in Value /\ u.stage = v.stage /\ u.reply = reply /\ u.used = v.used
  BY DEF Value
<1>2. Answering(v, reply) = w
  BY DEF Answering
<1> HIDE DEF u
<1>3. w \in Value /\ w.stage = v.stage /\ w.reply = reply /\ w.used = v.used
  BY <1>1 DEF Value
<1> HIDE DEF w
<1> QED
  BY <1>2, <1>3

(* The service answers, and Akamai's cache takes the answer.               *)
LEMMA FetchedKeeps ==
  ASSUME EdgeOK, latest \in Nat, latest' = latest, NEW e \in Evaluation, Edge!Fetched(e)
  PROVE  EdgeOK'
<1> DEFINE v == evaluations[e]
<1>1. EdgeTyped /\ EdgeFresh /\ v \in Value /\ Edge!Awaited = -3 /\ Edge!Error = -2 /\ Edge!Garbled = -1
      /\ Edge!Nothing = 0 /\ v.stage \notin Edge!Settled /\ v.reply = -3
  BY EdgeParts DEF Edge!Awaited, Edge!Error, Edge!Garbled, Edge!Nothing, EdgeTyped, Edge!Fetched
<1>2. e \in Running
  BY <1>1, RunningIs DEF EdgeFresh, BeginsAnew
<1>3. PICK reply \in Edge!Answers(v) :
        /\ Edge!Becomes(e, [v EXCEPT !.reply = reply, !.asked = 0]) /\ Edge!Cached(reply)
        /\ fetched' = [fetched EXCEPT ![e] = IF reply > Edge!Nothing THEN @ + 1 ELSE @]
  BY DEF Edge!Fetched
<1>4. UNCHANGED <<akamai, begun, oldest, alone>>
  BY DEF Edge!Fetched
<1>5. v.asked \in 0..latest /\ reply \in -2..latest /\ (reply > 0 => v.asked <= reply)
  <2>1. v.asked \in 0..latest
    BY <1>1 DEF Value
  <2>2. reply \in (v.asked..latest) \cup {0, -1, -2}
    BY <1>1 DEF Edge!Answers
  <2> QED
    BY <2>1, <2>2
<1> DEFINE w == Answering(v, reply)
<1>6. w \in Value /\ w.stage = v.stage /\ w.reply = reply /\ w.used = v.used
  <2>1. reply \in Edge!Awaited..latest
    BY <1>1, <1>5
  <2> QED
    BY <1>1, <2>1, AnsweringTyped
<1>7. evaluations' = [evaluations EXCEPT ![e] = w]
  BY <1>3 DEF Edge!Becomes, Answering
<1> HIDE DEF w
<1>8. \A f \in Evaluation : evaluations'[f] = IF f = e THEN w ELSE evaluations[f]
  BY <1>1, <1>7 DEF EdgeTyped
<1>9. /\ fetched' \in [Evaluation -> Nat] /\ fetched'[e] = IF reply > 0 THEN fetched[e] + 1 ELSE fetched[e]
      /\ \A f \in Evaluation : f # e => fetched'[f] = fetched[f]
  BY <1>1, <1>3, <1>5 DEF EdgeTyped
<1>10. /\ cache' = IF akamai /\ reply # -2 THEN reply ELSE cache
       /\ cache \in -1..latest /\ cache' \in -1..latest /\ akamai \in BOOLEAN
  <2>1. cache' = IF akamai /\ reply # -2 THEN reply ELSE cache
    BY <1>1, <1>3 DEF Edge!Cached
  <2>2. cache \in -1..latest /\ akamai \in BOOLEAN
    BY <1>1 DEF EdgeTyped
  <2> QED
    BY <1>5, <2>1, <2>2
<1>11. EdgeTyped'
  <2>1. evaluations' \in [Evaluation -> Value]
    BY <1>1, <1>6, <1>7 DEF EdgeTyped
  <2> QED
    BY <1>1, <1>4, <1>9, <1>10, <2>1 DEF EdgeTyped, Value, Edge!Garbled, Edge!Awaited, Edge!Stage
<1>12. Running' = Running
  <2>1. Running' = {f \in Evaluation : evaluations'[f].stage # "begin" /\ evaluations'[f].stage \notin Edge!Settled}
    BY DEF Running, Edge!Running, Edge!Settled
  <2>2. \A f \in Evaluation : evaluations'[f].stage = evaluations[f].stage
    BY <1>6, <1>8
  <2> QED
    BY <2>1, <2>2, RunningIs
<1>13. Running \subseteq Evaluation /\ \A f \in Evaluation : begun[f] \in 0..latest /\ oldest[f] \in 0..latest
  BY <1>1, RunningIs DEF EdgeTyped
<1>14. reply > 0 => begun[e] <= reply /\ \A f \in Running : oldest[f] <= reply
  <2>1. begun[e] <= v.asked /\ \A f \in Running : oldest[f] <= begun[e]
    BY <1>1, <1>2 DEF EdgeFresh, AsksFresh, Overlaps
  <2> HIDE DEF v
  <2> QED
    BY <1>2, <1>5, <1>13, <2>1
<1>15. BeginsAnew'
  <2>1. v.stage # "begin"
    BY <1>2, RunningIs
  <2> QED
    BY <1>1, <1>6, <1>8, <1>9, <2>1 DEF EdgeFresh, BeginsAnew
<1>16. Overlaps'
  BY <1>1, <1>4, <1>12 DEF EdgeFresh, Overlaps
<1>17. AsksFresh'
  <2> SUFFICES ASSUME NEW f \in Running, evaluations'[f].reply = -3
               PROVE  begun[f] <= evaluations'[f].asked
    BY <1>1, <1>4, <1>12 DEF AsksFresh, Edge!Awaited
  <2>1. f # e
    BY <1>5, <1>6, <1>8, <1>13
  <2> QED
    BY <1>1, <1>8, <1>13, <2>1 DEF EdgeFresh, AsksFresh
<1>18. RepliesFresh'
  <2> SUFFICES ASSUME NEW f \in Running, evaluations'[f].reply > 0
               PROVE  oldest[f] <= evaluations'[f].reply
    BY <1>4, <1>12 DEF RepliesFresh
  <2>1. CASE f = e
    BY <1>6, <1>8, <1>13, <1>14, <2>1
  <2>2. CASE f # e
    BY <1>1, <1>8, <1>13, <2>2 DEF EdgeFresh, RepliesFresh
  <2> QED
    BY <2>1, <2>2
<1>19. CacheFresh' /\ OnlyAkamaiCaches'
  BY <1>1, <1>4, <1>10, <1>12, <1>14 DEF EdgeFresh, CacheFresh, OnlyAkamaiCaches
<1>20. AloneAtCache' /\ (akamai /\ alone[e] => v.used = {} /\ fetched'[e] <= 1)
  <2>1. ASSUME NEW f \in Running, akamai, alone[f]
        PROVE  f = e /\ Running = {e} /\ cache = 0 /\ v.used = {} /\ fetched[e] = 0
    BY <1>1, <1>2, <2>1 DEF EdgeFresh, AloneAtCache, AloneAt
  <2>2. ASSUME akamai, alone[e]
        PROVE  fetched'[e] = (IF reply > 0 THEN 1 ELSE 0) /\ v.used = {} /\ Running = {e}
               /\ cache' = (IF reply # -2 THEN reply ELSE 0)
    BY <1>2, <1>9, <1>10, <2>1, <2>2
  <2>3. ASSUME NEW f \in Running, akamai, alone[f] PROVE AloneAt(f)'
    <3>1. f = e /\ alone[e] /\ Running' = {e}
      BY <1>12, <2>1, <2>3
    <3> HIDE DEF v
    <3> QED
      BY <1>1, <1>5, <1>6, <1>8, <1>9, <1>10, <2>2, <2>3, <3>1 DEF AloneAt, Edge!Awaited
  <2>4. AloneAtCache'
    BY <1>4, <1>12, <2>3 DEF AloneAtCache
  <2> QED
    BY <1>5, <2>2, <2>4
<1>21. EvaluatesFreshData'
  <2> SUFFICES ASSUME NEW f \in Evaluation
               PROVE  /\ \A n \in evaluations'[f].used : oldest[f] <= n
                      /\ akamai /\ alone[f] => Edge!Cardinality(evaluations'[f].used) <= 1 /\ fetched'[f] <= 1
    BY <1>4 DEF EvaluatesFreshData, Edge!EvaluatesFreshData
  <2>1. evaluations'[f].used = evaluations[f].used
    BY <1>6, <1>8
  <2>2. (\A n \in evaluations[f].used : oldest[f] <= n)
        /\ (akamai /\ alone[f] => Edge!Cardinality(evaluations[f].used) <= 1 /\ fetched[f] <= 1)
    BY <1>1 DEF EdgeFresh, EvaluatesFreshData, Edge!EvaluatesFreshData
  <2>3. f = e /\ akamai /\ alone[f] => fetched'[f] <= 1
    BY <1>20
  <2> QED
    BY <1>9, <2>1, <2>2, <2>3
<1>22. EdgeFresh'
  BY <1>15, <1>16, <1>17, <1>18, <1>19, <1>20, <1>21 DEF EdgeFresh
<1> QED
  BY <1>11, <1>22 DEF EdgeOK, EdgeTyped, Edge!TypeOKEdge, Value

(* An evaluation begins; with Akamai it has emptied the cache.             *)
LEMMA BeginKeeps ==
  ASSUME EdgeOK, latest \in Nat, latest' = latest, NEW e \in Evaluation, Edge!Begin(e)
  PROVE  EdgeOK'
<1> DEFINE v == evaluations[e]
<1>1. EdgeTyped /\ EdgeFresh /\ v \in Value /\ Edge!Awaited = -3 /\ Edge!Garbled = -1 /\ Edge!Nothing = 0
      /\ v.stage = "begin" /\ v.used = {} /\ fetched[e] = 0
  BY EdgeParts DEF Edge!Awaited, Edge!Garbled, Edge!Nothing, EdgeTyped, Edge!Begin, EdgeFresh, BeginsAnew
<1>2. Running \subseteq Evaluation /\ e \notin Running /\ Edge!Running = Running
      /\ \A f \in Evaluation : begun[f] \in 0..latest /\ oldest[f] \in 0..latest /\ alone[f] \in BOOLEAN
  BY <1>1, RunningIs DEF EdgeTyped, Running
<1>3. PICK w : Goes(v, w, 0) /\ evaluations' = [evaluations EXCEPT ![e] = w] /\ cache' = 0
  <2>1. CASE Edge!AkamaiVariation(e)
    <3>1. Goes(v, Edge!CacheableGet(v, "prefetch", 0), 0)
      BY <1>1, CacheableGoes DEF Asking
    <3>2. /\ evaluations' = [evaluations EXCEPT ![e] = Edge!CacheableGet(v, "prefetch", 0)]
          /\ cache' = 0
      BY <2>1 DEF Edge!AkamaiVariation, Edge!Prefetch, Edge!Becomes, Edge!Nothing
    <3> HIDE DEF v
    <3> QED
      BY <3>1, <3>2
  <2>2. CASE Edge!EdgeVariation(e)
    <3>1. ~akamai /\ cache' = cache
      BY <2>2 DEF Edge!EdgeVariation
    <3>2. cache = 0
      BY <1>1, <3>1 DEF EdgeFresh, OnlyAkamaiCaches
    <3>3. PICK w \in Edge!EvaluateIfPossible(v) : evaluations' = [evaluations EXCEPT ![e] = w]
      BY <2>2 DEF Edge!EdgeVariation, Edge!Becomes
    <3>4. Goes(v, w, cache)
      BY <1>1, EvaluateGoes DEF EdgeOK, EdgeFresh
    <3> QED
      BY <3>1, <3>2, <3>3, <3>4
  <2> QED
    BY <2>1, <2>2 DEF Edge!Begin
<1>4. w \in Value /\ w.used = {} /\ w.stage \in Asking /\ w.reply = -3 /\ w.asked = latest
  BY <1>1, <1>3 DEF Goes
<1> HIDE DEF v
<1>5. \A f \in Evaluation : evaluations'[f] = IF f = e THEN w ELSE evaluations[f]
  BY <1>1, <1>3 DEF EdgeTyped
<1> DEFINE S == {latest} \cup {begun[f] : f \in Running}
           l == Edge!Least(S)
<1>6. l \in 0..latest /\ \A f \in Running : l <= begun[f]
  <2>1. S \in SUBSET Nat /\ S # {} /\ latest \in S /\ \A m \in S : m \in 0..latest
    BY <1>2
  <2> HIDE DEF S
  <2>2. l \in S /\ \A m \in S : l <= m
    BY <2>1, LeastIs
  <2>3. \A f \in Running : begun[f] \in S
    BY DEF S
  <2> QED
    BY <2>1, <2>2, <2>3
<1>7. /\ begun' = [begun EXCEPT ![e] = latest] /\ oldest' = [oldest EXCEPT ![e] = l]
      /\ alone' = [f \in Evaluation |-> alone[f] /\ (f \in Running \cup {e} => Running = {})]
      /\ UNCHANGED <<akamai, fetched>>
  BY <1>2 DEF Edge!Begin
<1> HIDE DEF l
<1>8. /\ begun' \in [Evaluation -> 0..latest] /\ oldest' \in [Evaluation -> 0..latest]
      /\ alone' \in [Evaluation -> BOOLEAN]
      /\ \A f \in Evaluation : begun'[f] = (IF f = e THEN latest ELSE begun[f])
                             /\ oldest'[f] = (IF f = e THEN l ELSE oldest[f])
  <2>1. latest \in 0..latest
    OBVIOUS
  <2>2. alone' \in [Evaluation -> BOOLEAN]
    BY <1>7
  <2> QED
    BY <1>1, <1>6, <1>7, <2>1, <2>2 DEF EdgeTyped
<1>9. \A f \in Evaluation : alone'[f] => alone[f] /\ (f \in Running \cup {e} => Running = {})
  BY <1>2, <1>7
<1>10. EdgeTyped'
  <2>1. evaluations' \in [Evaluation -> Value]
    BY <1>1, <1>3, <1>4 DEF EdgeTyped
  <2>2. cache' \in Edge!Garbled..latest
    BY <1>1, <1>3
  <2> QED
    BY <1>1, <1>7, <1>8, <2>1, <2>2 DEF EdgeTyped, Value, Edge!Garbled, Edge!Awaited, Edge!Stage
<1>11. Running' = Running \cup {e}
  <2>1. Running' = {f \in Evaluation : evaluations'[f].stage # "begin" /\ evaluations'[f].stage \notin Edge!Settled}
    BY DEF Running, Edge!Running, Edge!Settled
  <2>2. w.stage # "begin" /\ w.stage \notin Edge!Settled
    BY <1>4 DEF Asking, Edge!Settled
  <2> QED
    BY <1>5, <2>1, <2>2, RunningIs
<1>12. BeginsAnew'
  <2>1. w.stage # "begin"
    BY <1>4 DEF Asking
  <2> QED
    BY <1>1, <1>5, <1>7, <2>1 DEF EdgeFresh, BeginsAnew
<1>13. Overlaps'
  <2> SUFFICES ASSUME NEW f \in Running \cup {e}, NEW g \in Running \cup {e}
               PROVE  oldest'[f] <= begun'[g]
    BY <1>11 DEF Overlaps
  <2>1. f \in Evaluation /\ g \in Evaluation
    BY <1>2
  <2>2. f \in Running /\ g \in Running => oldest[f] <= begun[g]
    BY <1>1 DEF EdgeFresh, Overlaps
  <2> QED
    BY <1>2, <1>6, <1>8, <2>1, <2>2
<1>14. AsksFresh'
  <2> SUFFICES ASSUME NEW f \in Running \cup {e}, evaluations'[f].reply = -3
               PROVE  begun'[f] <= evaluations'[f].asked
    BY <1>1, <1>11 DEF AsksFresh, Edge!Awaited
  <2> QED
    BY <1>1, <1>2, <1>4, <1>5, <1>8 DEF EdgeFresh, AsksFresh
<1>15. RepliesFresh'
  <2> SUFFICES ASSUME NEW f \in Running \cup {e}, evaluations'[f].reply > 0
               PROVE  oldest'[f] <= evaluations'[f].reply
    BY <1>11 DEF RepliesFresh
  <2> QED
    BY <1>1, <1>2, <1>4, <1>5, <1>8 DEF EdgeFresh, RepliesFresh
<1>16. CacheFresh' /\ OnlyAkamaiCaches'
  BY <1>3 DEF CacheFresh, OnlyAkamaiCaches
<1>17. AloneAtCache'
  <2> SUFFICES ASSUME NEW f \in Running \cup {e}, alone'[f] PROVE AloneAt(f)'
    BY <1>11 DEF AloneAtCache
  <2>1. Running = {} /\ f = e /\ Running' = {e}
    BY <1>2, <1>9, <1>11
  <2> QED
    BY <1>1, <1>3, <1>4, <1>5, <1>7, <2>1 DEF AloneAt, Edge!Awaited
<1>18. EvaluatesFreshData'
  <2> SUFFICES ASSUME NEW f \in Evaluation
               PROVE  /\ \A n \in evaluations'[f].used : oldest'[f] <= n
                      /\ akamai /\ alone'[f] => Edge!Cardinality(evaluations'[f].used) <= 1 /\ fetched[f] <= 1
    BY <1>7 DEF EvaluatesFreshData, Edge!EvaluatesFreshData
  <2>1. (\A n \in evaluations[f].used : oldest[f] <= n)
        /\ (akamai /\ alone[f] => Edge!Cardinality(evaluations[f].used) <= 1 /\ fetched[f] <= 1)
    BY <1>1 DEF EdgeFresh, EvaluatesFreshData, Edge!EvaluatesFreshData
  <2>2. CASE f # e
    BY <1>5, <1>8, <1>9, <2>1, <2>2
  <2>3. CASE f = e
    <3>1. Edge!Cardinality({}) <= 1
      BY AtMostOne
    <3> QED
      BY <1>1, <1>4, <1>5, <2>3, <3>1
  <2> QED
    BY <2>2, <2>3
<1>19. EdgeFresh'
  BY <1>12, <1>13, <1>14, <1>15, <1>16, <1>17, <1>18 DEF EdgeFresh
<1> QED
  BY <1>10, <1>19 DEF EdgeOK, EdgeTyped, Edge!TypeOKEdge, Value

(* An evaluation that goes on has used what it was given before.           *)
LEMMA GoesContinues ==
  ASSUME NEW v, NEW u, NEW w, u.used \subseteq v.used \cup Edge!Deserialized(v.reply), Goes(u, w, cache)
  PROVE  Continued(v, w)
BY DEF Goes, Continued

(* An evaluation that ends has used what it was given before.              *)
LEMMA EndContinues ==
  ASSUME latest \in Nat, NEW v, NEW u \in Value, u.used \subseteq v.used \cup Edge!Deserialized(v.reply),
         NEW stage \in Edge!Settled
  PROVE  Continued(v, Waiting(u, stage, 0))
BY EndsTyped DEF Continued

(* An evaluation continues with its reply.                                 *)
LEMMA ContinuesKeeps ==
  ASSUME EdgeOK, latest \in Nat, latest' = latest, NEW e \in Evaluation, Edge!Continues(e)
  PROVE  EdgeOK'
<1> DEFINE v == evaluations[e]
           u == [v EXCEPT !.used = v.used \cup Edge!Deserialized(v.reply)]
<1>1. EdgeTyped /\ EdgeFresh /\ v \in Value /\ Edge!TypeOKEdge /\ OnlyAkamaiCaches
  BY EdgeParts DEF EdgeTyped, EdgeOK, EdgeFresh
<1>2. /\ v.reply # Edge!Awaited /\ v.stage \in Asking
      /\ UNCHANGED <<akamai, cache, begun, oldest, alone, fetched>>
  BY DEF Edge!Continues, Edge!Prefetched, Edge!InitializedDone, Edge!ReadDone, Edge!Replied, Asking
<1>3. e \in Running
  BY <1>2, RunningIs DEF Asking, Edge!Settled
<1>4. u \in Value /\ u.used = v.used \cup Edge!Deserialized(v.reply)
  <2>1. v.used \cup Edge!Deserialized(v.reply) \in SUBSET (1..latest)
    BY <1>1 DEF Value, Edge!Deserialized, Edge!Nothing, Edge!Awaited
  <2> QED
    BY <1>1, <2>1 DEF Value
<1>5. {"answered", "rejected", "unanswered"} = Edge!Settled
  BY DEF Edge!Settled
<1>6. SUFFICES \E w : Continued(v, w) /\ evaluations' = [evaluations EXCEPT ![e] = w]
  BY <1>2, <1>3, ContinuedKeeps
<1>7. CASE Edge!Prefetched(e)
  <2>1. CASE evaluations' = [evaluations EXCEPT ![e] = Waiting(v, "rejected", 0)]
    BY <1>1, <1>5, <2>1, EndContinues
  <2>2. ASSUME NEW w \in Edge!EvaluateIfPossible(v), evaluations' = [evaluations EXCEPT ![e] = w]
        PROVE  \E x : Continued(v, x) /\ evaluations' = [evaluations EXCEPT ![e] = x]
    <3>1. Goes(v, w, cache)
      BY <1>1, <2>2, EvaluateGoes
    <3> HIDE DEF v
    <3> QED
      BY <2>2, <3>1, GoesContinues
  <2> QED
    BY <1>7, <2>1, <2>2 DEF Edge!Prefetched, Edge!EndsAs, Edge!Becomes, Waiting, Edge!Nothing
<1>8. CASE Edge!InitializedDone(e)
  <2>1. ASSUME NEW stage \in Edge!Settled, evaluations' = [evaluations EXCEPT ![e] = Waiting(v, stage, 0)]
        PROVE  \E x : Continued(v, x) /\ evaluations' = [evaluations EXCEPT ![e] = x]
    BY <1>1, <2>1, EndContinues
  <2>2. ASSUME NEW w \in Edge!Reads(v), evaluations' = [evaluations EXCEPT ![e] = w]
        PROVE  \E x : Continued(v, x) /\ evaluations' = [evaluations EXCEPT ![e] = x]
    <3>1. Goes(v, w, cache)
      BY <1>1, <2>2, ReadsGo
    <3> HIDE DEF v
    <3> QED
      BY <2>2, <3>1, GoesContinues
  <2> QED
    BY <1>5, <1>8, <2>1, <2>2 DEF Edge!InitializedDone, Edge!EndsAs, Edge!Becomes, Waiting, Edge!Nothing
<1>9. CASE Edge!ReadDone(e)
  <2>1. CASE evaluations' = [evaluations EXCEPT ![e] = Waiting(u, "answered", 0)]
    <3> HIDE DEF u
    <3> QED
      BY <1>4, <1>5, <2>1, EndContinues
  <2>2. ASSUME NEW w \in Edge!Reads(u), evaluations' = [evaluations EXCEPT ![e] = w]
        PROVE  \E x : Continued(v, x) /\ evaluations' = [evaluations EXCEPT ![e] = x]
    <3> HIDE DEF u
    <3>1. Goes(u, w, cache)
      BY <1>1, <1>4, <2>2, ReadsGo
    <3> HIDE DEF v
    <3> QED
      BY <1>4, <2>2, <3>1, GoesContinues
  <2> QED
    BY <1>9, <2>1, <2>2 DEF Edge!ReadDone, Edge!EndsAs, Edge!Becomes, Waiting, Edge!Nothing
<1> QED
  BY <1>7, <1>8, <1>9 DEF Edge!Continues

(* A step of an edge SDK.                                                  *)
LEMMA EdgeKeeps ==
  ASSUME Invariant, EdgeStep
  PROVE  Invariant'
<1>1. /\ latest \in Nat /\ stopped \in BOOLEAN /\ source = "edge"
      /\ UNCHANGED <<source, streamVars, pollVars, fileVars>>
  BY DEF EdgeStep, Invariant, ClientOK, TypeOKClient
<1>2. PICK e \in Evaluation : Edge!Begin(e) \/ Edge!Fetched(e) \/ Edge!Continues(e)
  BY DEF EdgeStep, Edge!NextEdge
<1>3. UNCHANGED <<initState, promise, ready, failed, stopped, pending, stored, lost, latest>>
  BY <1>2 DEF Edge!Begin, Edge!Fetched, Edge!Continues, Edge!clientVars
<1>4. Grows /\ latest' \in 1..MaxLatest
  BY <1>1, <1>3 DEF Grows, Invariant
<1>5. ClientStep
  BY <1>3 DEF ClientStep, Quiet, Tells, telling
<1>6. EdgeOK'
  BY <1>1, <1>2, <1>3, BeginKeeps, FetchedKeeps, ContinuesKeeps DEF Invariant
<1> QED
  BY <1>1, <1>3, <1>4, <1>5, <1>6, StreamStill, PollStill, FileStill, Combines DEF Invariant

-----------------------------------------------------------------------------
(* The invariant is inductive.                                             *)
LEMMA StepKeeps ==
  ASSUME Invariant, [Next]_vars
  PROVE  Invariant'
<1>1. CASE Next
  BY <1>1, ChangeKeeps, WaitKeeps, StreamKeeps, PollKeeps, FileKeeps, EdgeKeeps, NullTimerKeeps DEF Next
<1>2. CASE UNCHANGED vars
  <2>1. /\ UNCHANGED <<initState, promise, ready, failed, stopped, pending, stored, lost>>
        /\ UNCHANGED <<source, latest, streamVars, pollVars, fileVars, edgeVars>>
    BY <1>2 DEF vars, clientVars
  <2>2. Grows /\ latest' \in 1..MaxLatest
    BY <2>1 DEF Grows, Invariant, ClientOK, TypeOKClient
  <2>3. ClientStep
    BY <2>1 DEF ClientStep, Quiet, Tells, telling
  <2> QED
    BY <2>1, <2>2, <2>3, StreamStill, PollStill, FileStill, EdgeStill, Combines DEF Invariant
<1> QED
  BY <1>1, <1>2

(* An edge SDK begins with nothing evaluated.                              *)
LEMMA EdgeInit ==
  ASSUME latest = 1, NEW isAkamai \in BOOLEAN, Edge!InitEdge(isAkamai)
  PROVE  EdgeOK
<1>1. /\ akamai \in BOOLEAN /\ cache = 0 /\ Edge!Nothing = 0
      /\ evaluations = [e \in Evaluation |->
           [stage |-> "begin", reply |-> 0, asked |-> 0, reads |-> 0, used |-> {}]]
      /\ begun = [e \in Evaluation |-> 0] /\ oldest = [e \in Evaluation |-> 0]
      /\ alone = [e \in Evaluation |-> TRUE] /\ fetched = [e \in Evaluation |-> 0]
  BY DEF Edge!InitEdge, Edge!Nothing
<1>2. EdgeTyped
  <2>1. [stage |-> "begin", reply |-> 0, asked |-> 0, reads |-> 0, used |-> {}] \in Value
    BY DEF Value, Edge!Stage, Edge!Awaited
  <2> QED
    BY <1>1, <2>1 DEF EdgeTyped, Edge!Garbled
<1>3. Running = {}
  BY <1>1, RunningIs
<1>4. \A e \in Evaluation : /\ evaluations[e].reply = 0 /\ evaluations[e].used = {} /\ fetched[e] = 0
  BY <1>1
<1>5. EvaluatesFreshData
  <2>1. Edge!Cardinality({}) <= 1
    BY AtMostOne
  <2> SUFFICES ASSUME NEW e \in Evaluation
               PROVE  /\ \A n \in evaluations[e].used : oldest[e] <= n
                      /\ akamai /\ alone[e] => Edge!Cardinality(evaluations[e].used) <= 1 /\ fetched[e] <= 1
    BY DEF EvaluatesFreshData, Edge!EvaluatesFreshData
  <2>2. evaluations[e].used = {} /\ fetched[e] = 0
    BY <1>4
  <2> QED
    BY <2>1, <2>2
<1>6. BeginsAnew /\ Overlaps /\ AsksFresh /\ RepliesFresh /\ CacheFresh /\ OnlyAkamaiCaches /\ AloneAtCache
  BY <1>1, <1>3, <1>4 DEF BeginsAnew, Overlaps, AsksFresh, RepliesFresh, CacheFresh, OnlyAkamaiCaches, AloneAtCache
<1> QED
  BY <1>2, <1>5, <1>6, EdgeParts DEF EdgeFresh

(* The program begins with the invariant.                                  *)
LEMMA InitHolds == Init => Invariant
<1> SUFFICES ASSUME Init PROVE Invariant
  OBVIOUS
<1>1. latest = 1 /\ latest \in 1..MaxLatest /\ InitClient /\ source \in Source
  <2>1. latest = 1 /\ InitClient /\ source \in Source
    BY Zenon DEF Init, Source
  <2> QED
    BY <2>1, ClientAssumption
<1>0. /\ IF source = "stream" THEN Streaming!InitStream ELSE NoStream
      /\ source = "poll" => Polling!InitPoll
      /\ source # "poll" => timers \in {0, 1} /\ requests = 0 /\ etag = 0 /\ refused = FALSE
      /\ IF source = "file" THEN File!InitFiles ELSE File!NoFiles
      /\ \E isAkamai \in BOOLEAN : Edge!InitEdge(isAkamai)
  <2>1. CASE source = "stream" /\ Streaming!InitStream /\ NoPoll /\ File!NoFiles /\ Edge!InitEdge(FALSE)
    BY <2>1 DEF NoPoll
  <2>2. CASE source = "poll" /\ Polling!InitPoll /\ NoStream /\ File!NoFiles /\ Edge!InitEdge(FALSE)
    BY <2>2
  <2>3. CASE source = "file" /\ File!InitFiles /\ NoStream /\ NoPoll /\ Edge!InitEdge(FALSE)
    BY <2>3 DEF NoPoll
  <2>4. CASE /\ source \in {"null", "edge"} /\ NoStream /\ File!NoFiles
             /\ timers = 1 /\ requests = 0 /\ etag = 0 /\ refused = FALSE
             /\ \E isAkamai \in BOOLEAN : Edge!InitEdge(isAkamai /\ source = "edge")
    <3>1. PICK isAkamai \in BOOLEAN : Edge!InitEdge(isAkamai /\ source = "edge")
      BY <2>4
    <3>2. (isAkamai /\ source = "edge") \in BOOLEAN
      OBVIOUS
    <3>3. \E b \in BOOLEAN : Edge!InitEdge(b)
      BY <3>1, <3>2, Zenon
    <3> QED
      BY <2>4, <3>3
  <2> QED
    BY <2>1, <2>2, <2>3, <2>4 DEF Init
<1>2. ClientOK
  <2>1. <<>> \in Seq(Call(1..latest))
    OBVIOUS
  <2> QED
    BY <1>1, <2>1 DEF InitClient, ClientOK, TypeOKClient, ReadyOnceWithData, ReadyOnce, ReadyMeansData
<1>3. EdgeOK
  BY <1>0, <1>1, EdgeInit
<1>4. StreamOK
  <2>1. /\ connection \in {"none", "connecting"} /\ told = 0 /\ garbled = FALSE
        /\ (source = "stream") <=> (connection # "none")
    BY <1>0 DEF Streaming!InitStream, NoStream
  <2>2. Apart /\ BroughtByStream
    BY <1>1, <2>1 DEF InitClient, Apart, BroughtByStream
  <2>3. garbled \in BOOLEAN /\ told \in 0..latest
    <3>1. garbled \in BOOLEAN
      BY <2>1, Zenon
    <3> QED
      BY <1>1, <2>1, <3>1
  <2> QED
    BY <2>1, <2>2, <2>3 DEF StreamOK, StreamOnly
<1>5. PollOK
  <2>1. /\ requests \in 0..1 /\ timers \in 0..1 /\ etag = 0 /\ refused = FALSE
        /\ source = "poll" => requests = 1 /\ timers = 0
    BY <1>0 DEF Polling!InitPoll
  <2>2. refused \in BOOLEAN /\ etag \in 0..latest
    <3>1. refused \in BOOLEAN
      BY <2>1, Zenon
    <3> QED
      BY <1>1, <2>1, <3>1
  <2>3. OnePollChain
    <3>1. Len(pending) = 0
      BY <1>1 DEF InitClient
    <3> QED
      BY <2>1, <3>1 DEF OnePollChain, Polling!OnePollChain
  <2> QED
    BY <2>1, <2>2, <2>3 DEF PollOK
<1>6. FileOK
  <2>1. CASE source = "file"
    <3>1. /\ files = [p \in Path |-> 1] /\ bad = {} /\ watch \in {"no", "later"}
          /\ loading = [p \in Path |-> File!Await(p, "data")]
          /\ fileData = [p \in Path |-> 0] /\ fileTimestamps = [p \in Path |-> 0]
          /\ handlers = <<>> /\ debounce = "none" /\ initCallback = TRUE /\ missed = {}
      BY <1>0, <2>1 DEF File!InitFiles
    <3>2. \A p \in Path : File!Await(p, "data") \in Reading(Loads) /\ File!Await(p, "data").step = "data"
      BY <1>1, AwaitTyped DEF Loads
    <3>3. loading \in [Path -> Reading(Loads)] /\ \A p \in Path : loading[p].step = "data"
      BY <3>1, <3>2
    <3>4. <<>> \in Seq(Reading(Handles))
      OBVIOUS
    <3>5. FilesTyped
      BY <1>1, <3>1, <3>3, <3>4 DEF FilesTyped, FilesTypedUpTo, Reading
    <3>6. FileGoes
      BY <3>1, <3>3 DEF FileGoes
    <3> QED
      BY <2>1, <3>5, <3>6, FileParts
  <2>2. CASE source # "file"
    BY <1>0, <2>2 DEF FileOK, FilesLoaded
  <2> QED
    BY <2>1, <2>2
<1> QED
  BY <1>1, <1>2, <1>3, <1>4, <1>5, <1>6 DEF Invariant

(* The invariant of the client and all of its data sources.                *)
THEOREM Invariance == Spec => []Invariant
<1>1. Invariant /\ [Next]_vars => Invariant'
  BY StepKeeps
<1> QED
  BY <1>1, InitHolds, PTL DEF Spec

(* All variables keep their types, for the source that is configured and   *)
(* for the others, which stay as they began.                               *)
THEOREM TypeCorrect == Spec => []TypeOK
<1>1. Invariant => TypeOK
  BY DEF Invariant, ClientOK, StreamOK, PollOK, FileOK, EdgeOK, TypeOK, Source
<1> QED
  BY <1>1, Invariance, PTL

(* The application is told once that the client is ready, the promise says *)
(* the same, and the store has data by then, whatever the data source      *)
(* reports, in whatever order, and wherever the data comes from.           *)
THEOREM ReadyOnceWithDataEver == Spec => []ReadyOnceWithData
<1>1. Invariant => ReadyOnceWithData
  BY DEF Invariant, ClientOK
<1> QED
  BY <1>1, Invariance, PTL

(* After any reconnections, errors and delays of the store, which may do   *)
(* the calls in any order, it has what the connection has brought once all *)
(* are done, but for what got ahead of an init.                            *)
THEOREM StreamAppliedEver == Spec => []StreamApplied
<1>1. Invariant => StreamApplied
  <2> SUFFICES ASSUME Invariant, connection = "open", told > 0, ~garbled, pending = <<>>
               PROVE  stored = (1..told) \ lost
    BY DEF StreamApplied, Streaming!StreamApplied
  <2>1. Apart /\ NoMoreThan(1..told) /\ \A c \in 1..told : Brought(c)
    BY DEF Invariant, StreamOK, StreamOnly, BroughtByStream, Secured
  <2>2. \A c \in 1..told : c \in stored \cup lost
    BY <2>1 DEF Brought
  <2> QED
    BY <2>1, <2>2 DEF Apart, NoMoreThan
<1> QED
  BY <1>1, Invariance, PTL

(* Polling is one chain of request, store and timer, which no answer       *)
(* doubles and only a refusal or the stop breaks off.                      *)
THEOREM OnePollChainEver == Spec => []OnePollChain
<1>1. Invariant => OnePollChain
  BY DEF Invariant, PollOK
<1> QED
  BY <1>1, Invariance, PTL

(* At the edge, however many evaluations overlap, none uses a payload that *)
(* was replaced before it and all that overlap with it began; alone, it    *)
(* uses one payload and asks for it once.                                  *)
THEOREM EvaluatesFreshDataEver == Spec => []EvaluatesFreshData
<1>1. Invariant => EvaluatesFreshData
  BY DEF Invariant, EdgeOK, EdgeFresh
<1> QED
  BY <1>1, Invariance, PTL
=============================================================================
