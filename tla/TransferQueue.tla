--------------------------- MODULE TransferQueue ---------------------------
(***************************************************************************)
(* The transfer queue of tq/transfer_queue.go.  Goroutines: the caller of  *)
(* Watch, Add and Wait; the collector (collectBatches); one batch          *)
(* goroutine at a time (enqueueAndCollectRetriesFor), which also stands    *)
(* for the result goroutine that addToAdapter starts and the batch         *)
(* goroutine waits for; the error collector; the readers of the Watch      *)
(* channels.  The LFS server and the adapter answer in any way the         *)
(* constants allow.                                                        *)
(*                                                                         *)
(* Only the first tuple of a chain is ever enqueued, so a batch is a set   *)
(* of OIDs.  Batches are sets because every batch is sorted by size before *)
(* it is sent and its results come back in any order; what Concat's order  *)
(* decides (retries first) is kept.  The progress meter is left out.       *)
(***************************************************************************)
EXTENDS Integers, Sequences, FiniteSets

CONSTANTS
  Oids,              \* object ids
  Tuples,            \* the *objectTuple values that Add may be called with
  OidOf,             \* OidOf[t] is t.Oid
  Watchers,          \* channels that Watch may hand out
  AdapterNames,      \* transfer adapters registered in the manifest
  ServerNames,       \* adapter names a batch response may carry
  MissingOids,       \* objects added with Missing set (no local file)
  BatchSize,         \* q.batchSize
  BufferDepth,       \* q.bufferDepth
  MaxRetries,        \* q.rc.MaxRetries
  Upload,            \* q.direction == Upload
  Standalone,        \* manifest.standaloneTransferAgent != ""
  BeginMayFail,      \* adapter.Begin may return an error
  BatchErrors,       \* kinds of error Batch() may return
  Verdicts,          \* what the server may answer for an object
  TransferOutcomes   \* results an adapter may deliver

\* Kinds of error: retriable, retriable after the server's Retry-After, others.
ErrorKinds == {"retriable", "later", "fatal"}

\* The entry a batch response holds for an object of the request.
AllVerdicts == {"error", "unknown", "expired", "noaction", "transfer", "omitted"}

ASSUME ConstantsAssumption ==
  /\ IsFiniteSet(Oids) /\ IsFiniteSet(Tuples) /\ IsFiniteSet(Watchers)
  /\ OidOf \in [Tuples -> Oids]
  /\ MissingOids \subseteq Oids
  /\ BatchSize \in Nat \ {0} /\ BufferDepth \in Nat \ {0} /\ MaxRetries \in Nat
  /\ Upload \in BOOLEAN /\ Standalone \in BOOLEAN /\ BeginMayFail \in BOOLEAN
  /\ BatchErrors \subseteq ErrorKinds
  /\ Verdicts \subseteq AllVerdicts
  /\ TransferOutcomes \subseteq ErrorKinds \cup {"ok", "unprocessable"}
  /\ "basic" \in AdapterNames /\ "none" \notin AdapterNames \cup ServerNames
  /\ "none" \notin Oids

VARIABLES
  \* ---- the goroutine that calls Watch, Add and Wait
  caller,        \* where it is
  hand,          \* OIDs it is sending to incoming
  duplicate,     \* the tuple an Add is announcing to the watchers
  toAnnounce,    \* watchers that still have to get it
  \* ---- shared state
  transfers,     \* q.transfers: the chain of tuples of each OID
  completed,     \* OIDs whose chain is completed
  wq,            \* q.wait.wq
  counter,       \* q.wait.counter
  incoming,      \* q.incoming, a buffered channel
  incomingClosed,
  watchers,      \* q.watchers
  watchLen,      \* items buffered in each Watch channel
  errorc,        \* error received and not yet appended by the error collector
  errors,        \* q.errors
  unsupportedContentType,
  rc,            \* q.rc.count
  readyTime,     \* ReadyTime of each OID's first tuple
  adapter, adapterInProgress,
  \* ---- collectBatches
  collector, closing, next, pending, collected,
  \* ---- the batch goroutine and its result goroutine
  batcher,
  stage,         \* what has become of each object of the running batch
  batchErr,      \* the error enqueueAndCollectRetriesFor returned
  notifying,     \* <<watcher, tuple>> pairs still to be sent
  \* ---- outside the queue
  begun,         \* the adapter whose Begin succeeded and End was not called
  coolDown,      \* OIDs the server has asked not to be asked about yet
  \* ---- history
  outcome,       \* what became of each OID
  notified       \* how often each tuple was sent to each watcher

callerVars  == <<caller, hand, duplicate, toAnnounce>>
collectVars == <<collector, closing, next, pending, collected>>
batchVars   == <<batcher, stage, batchErr, notifying>>
waitVars    == <<wq, counter>>
watchVars   == <<watchers, watchLen, notified>>
errorVars   == <<errorc, errors, unsupportedContentType>>
retryVars   == <<rc, readyTime, coolDown>>
adapterVars == <<adapter, adapterInProgress, begun>>
chainVars   == <<transfers, completed>>
incomingVars == <<incoming, incomingClosed>>

vars == <<callerVars, collectVars, batchVars, waitVars, watchVars, errorVars,
          retryVars, adapterVars, chainVars, incomingVars, outcome>>

CallerStates    == {"ready", "announce", "send", "waiting", "joining", "closing", "returned"}
CollectorStates == {"fill", "select", "drain", "merge", "sleep", "exited"}
BatcherStates   == {"idle", "call", "objects", "results", "report", "done"}
Stages == AllVerdicts \cup {"idle", "todo", "accepted", "absent", "inflight",
                            "notifying", "rechan", "retry"}
Outcomes == {"new", "queued", "completed", "present", "failed", "abandoned"}
ErrorCauses == Oids \cup {"batch", "adapter", "add"}

Elems(s) == {s[i] : i \in 1..Len(s)}

Distinct(s) == \A i, j \in 1..Len(s) : s[i] = s[j] => i = j

\* Objects of the running batch that have reached stage s.
At(s) == {o \in Oids : stage[o] = s}

MoveAll(from, to) == [o \in Oids |-> IF o \in from THEN to ELSE stage[o]]

\* q.trMutex is held while the completion of an object is announced.
TrMutexHeld == At("notifying") # {}

Init ==
  /\ caller = "ready" /\ hand = {} /\ duplicate = {} /\ toAnnounce = {}
  /\ transfers = [o \in Oids |-> {}] /\ completed = {}
  /\ wq = 0 /\ counter = 0
  /\ incoming = <<>> /\ incomingClosed = FALSE
  /\ watchers = {} /\ watchLen = [w \in Watchers |-> 0]
  /\ errorc = "none" /\ errors = {} /\ unsupportedContentType = FALSE
  /\ rc = [o \in Oids |-> 0] /\ readyTime = [o \in Oids |-> "past"]
  /\ adapter = "none" /\ adapterInProgress = FALSE /\ begun = "none"
  /\ collector = "fill" /\ closing = FALSE
  /\ next = {} /\ pending = {} /\ collected = {}
  /\ batcher = "idle" /\ stage = [o \in Oids |-> "idle"]
  /\ batchErr = "none" /\ notifying = {}
  /\ coolDown = {}
  /\ outcome = [o \in Oids |-> "new"]
  /\ notified = [w \in Watchers |-> [t \in Tuples |-> 0]]

-----------------------------------------------------------------------------
(* abortableWaitGroup *)

WaitAdd(n) == wq' = wq + n /\ counter' = counter + n

\* Mutant: one Done for a whole batch.
WaitDoneOnce(n) == wq' = wq - 1 /\ counter' = counter - 1

WaitDone(n) == wq' = wq - n /\ counter' = counter - n

\* The wait group is released by what counter holds; counter keeps its value.
WaitAbort == wq' = wq - counter /\ counter' = counter

(* Sending on errorc hands the error to the error collector's receive. *)
SendError(e) ==
  /\ errorc = "none"
  /\ errorc' = e
  /\ UNCHANGED <<errors, unsupportedContentType>>

\* One send of tuple t on the channel of watcher w.
SendWatch(w, t) ==
  /\ watchLen[w] < BatchSize
  /\ watchLen' = [watchLen EXCEPT ![w] = @ + 1]
  /\ notified' = [notified EXCEPT ![w][t] = @ + 1]
  /\ UNCHANGED watchers

(* retryCounter *)

CanRetry(o) == rc[o] < MaxRetries

\* enqueueRetry for every object of os; kind tells which clock gates the retry.
EnqueueRetry(os, kind) ==
  /\ rc' = [o \in Oids |-> IF o \in os THEN rc[o] + 1 ELSE rc[o]]
  /\ readyTime' = [o \in Oids |-> IF o \in os THEN kind ELSE readyTime[o]]

-----------------------------------------------------------------------------
(* The caller: Watch, Add, Wait. *)

\* Watch before the first Add.
Watch(w) ==
  /\ caller = "ready"
  /\ \A o \in Oids : transfers[o] = {}
  /\ w \notin watchers
  /\ watchers' = watchers \cup {w}
  /\ UNCHANGED <<watchLen, notified>>
  /\ UNCHANGED <<callerVars, collectVars, batchVars, waitVars, errorVars,
                 retryVars, adapterVars, chainVars, incomingVars, outcome>>

\* Add with an error: it is only reported.
AddError ==
  /\ caller = "ready"
  /\ "add" \notin errors
  /\ SendError("add")
  /\ UNCHANGED <<callerVars, collectVars, batchVars, waitVars, watchVars,
                 retryVars, adapterVars, chainVars, incomingVars, outcome>>

Fresh(t) == /\ caller = "ready"
            /\ ~TrMutexHeld
            /\ t \notin transfers[OidOf[t]]

\* Mutant: remember does not look for an earlier tuple of the OID.
AddAlwaysNew(t) ==
  LET o == OidOf[t] IN
  /\ Fresh(t)
  /\ transfers' = [transfers EXCEPT ![o] = @ \cup {t}]
  /\ WaitAdd(1)
  /\ outcome' = [outcome EXCEPT ![o] = "queued"]
  /\ caller' = "send" /\ hand' = {o}
  /\ UNCHANGED <<duplicate, toAnnounce, completed>>
  /\ UNCHANGED <<collectVars, batchVars, watchVars, errorVars, retryVars,
                 adapterVars, incomingVars>>

\* Add of the first tuple of an OID, up to its send on incoming.
AddNew(t) ==
  LET o == OidOf[t] IN
  /\ Fresh(t)
  /\ transfers[o] = {}
  /\ transfers' = [transfers EXCEPT ![o] = {t}]
  /\ WaitAdd(1)
  /\ outcome' = [outcome EXCEPT ![o] = "queued"]
  /\ caller' = "send" /\ hand' = {o}
  /\ UNCHANGED <<duplicate, toAnnounce, completed>>
  /\ UNCHANGED <<collectVars, batchVars, watchVars, errorVars, retryVars,
                 adapterVars, incomingVars>>

SendIncoming ==
  /\ caller = "send"
  /\ Len(incoming) < BufferDepth
  /\ \E o \in hand : incoming' = Append(incoming, o)
  /\ caller' = "ready" /\ hand' = {}
  /\ UNCHANGED <<duplicate, toAnnounce, incomingClosed>>
  /\ UNCHANGED <<collectVars, batchVars, waitVars, watchVars, errorVars,
                 retryVars, adapterVars, chainVars, outcome>>

\* Mutant: a duplicate is announced whether or not its object is completed.
AddDuplicateAnnounced(t) ==
  LET o == OidOf[t] IN
  /\ Fresh(t)
  /\ transfers[o] # {}
  /\ transfers' = [transfers EXCEPT ![o] = @ \cup {t}]
  /\ IF watchers # {}
     THEN caller' = "announce" /\ duplicate' = {t} /\ toAnnounce' = watchers
     ELSE UNCHANGED <<caller, duplicate, toAnnounce>>
  /\ UNCHANGED <<hand, completed>>
  /\ UNCHANGED <<collectVars, batchVars, waitVars, watchVars, errorVars,
                 retryVars, adapterVars, incomingVars, outcome>>

\* Add of a further tuple of an OID: announced at once if the OID is completed.
AddDuplicate(t) ==
  LET o == OidOf[t] IN
  /\ Fresh(t)
  /\ transfers[o] # {}
  /\ transfers' = [transfers EXCEPT ![o] = @ \cup {t}]
  /\ IF o \in completed /\ watchers # {}
     THEN caller' = "announce" /\ duplicate' = {t} /\ toAnnounce' = watchers
     ELSE UNCHANGED <<caller, duplicate, toAnnounce>>
  /\ UNCHANGED <<hand, completed>>
  /\ UNCHANGED <<collectVars, batchVars, waitVars, watchVars, errorVars,
                 retryVars, adapterVars, incomingVars, outcome>>

AnnounceDuplicate(w) ==
  /\ caller = "announce"
  /\ w \in toAnnounce
  /\ \E t \in duplicate : SendWatch(w, t)
  /\ toAnnounce' = toAnnounce \ {w}
  /\ IF toAnnounce = {w} THEN caller' = "ready" /\ duplicate' = {}
                         ELSE UNCHANGED <<caller, duplicate>>
  /\ UNCHANGED hand
  /\ UNCHANGED <<collectVars, batchVars, waitVars, errorVars, retryVars,
                 adapterVars, chainVars, incomingVars, outcome>>

\* Wait: close(q.incoming).
CallWait ==
  /\ caller = "ready"
  /\ caller' = "waiting"
  /\ incomingClosed' = TRUE
  /\ UNCHANGED <<hand, duplicate, toAnnounce, incoming>>
  /\ UNCHANGED <<collectVars, batchVars, waitVars, watchVars, errorVars,
                 retryVars, adapterVars, chainVars, outcome>>

\* Wait: q.wait.Wait().
JoinTransfers ==
  /\ caller = "waiting"
  /\ wq = 0
  /\ caller' = "joining"
  /\ UNCHANGED <<hand, duplicate, toAnnounce>>
  /\ UNCHANGED <<collectVars, batchVars, waitVars, watchVars, errorVars,
                 retryVars, adapterVars, chainVars, incomingVars, outcome>>

\* finishAdapter: End of an adapter that is in progress.
FinishAdapter ==
  IF adapterInProgress
  THEN adapter' = "none" /\ adapterInProgress' = FALSE /\ begun' = "none"
  ELSE UNCHANGED adapterVars

\* Mutant: Wait does not wait for the collector.
JoinNobody ==
  /\ caller = "joining"
  /\ FinishAdapter
  /\ caller' = "closing"
  /\ UNCHANGED <<hand, duplicate, toAnnounce>>
  /\ UNCHANGED <<collectVars, batchVars, waitVars, watchVars, errorVars,
                 retryVars, chainVars, incomingVars, outcome>>

\* Wait: collectorWait.Wait(), finishAdapter, close errorc and the watchers.
JoinCollector ==
  /\ caller = "joining"
  /\ collector = "exited"
  /\ FinishAdapter
  /\ caller' = "closing"
  /\ UNCHANGED <<hand, duplicate, toAnnounce>>
  /\ UNCHANGED <<collectVars, batchVars, waitVars, watchVars, errorVars,
                 retryVars, chainVars, incomingVars, outcome>>

\* errorc and the Watch channels are closed.
ChannelsClosed == caller \in {"closing", "returned"}

\* Wait: errorwait.Wait() and return.
WaitReturn ==
  /\ caller = "closing"
  /\ errorc = "none"
  /\ caller' = "returned"
  /\ UNCHANGED <<hand, duplicate, toAnnounce>>
  /\ UNCHANGED <<collectVars, batchVars, waitVars, watchVars, errorVars,
                 retryVars, adapterVars, chainVars, incomingVars, outcome>>

-----------------------------------------------------------------------------
(* errorCollector, and the readers of the Watch channels. *)

CollectError ==
  /\ errorc # "none"
  /\ errors' = errors \cup {errorc}
  /\ errorc' = "none"
  /\ UNCHANGED unsupportedContentType
  /\ UNCHANGED <<callerVars, collectVars, batchVars, waitVars, watchVars,
                 retryVars, adapterVars, chainVars, incomingVars, outcome>>

ReadWatch(w) ==
  /\ watchLen[w] > 0
  /\ watchLen' = [watchLen EXCEPT ![w] = @ - 1]
  /\ UNCHANGED <<watchers, notified>>
  /\ UNCHANGED <<callerVars, collectVars, batchVars, waitVars, errorVars,
                 retryVars, adapterVars, chainVars, incomingVars, outcome>>

-----------------------------------------------------------------------------
(* collectBatches and collectPendingUntil. *)

FillLoop == collector = "fill" /\ ~closing /\ Cardinality(next) < BatchSize

FillOne ==
  /\ FillLoop
  /\ incoming # <<>>
  /\ next' = next \cup {Head(incoming)}
  /\ incoming' = Tail(incoming)
  /\ UNCHANGED <<collector, closing, pending, collected, incomingClosed>>
  /\ UNCHANGED <<callerVars, batchVars, waitVars, watchVars, errorVars,
                 retryVars, adapterVars, chainVars, outcome>>

FillClosed ==
  /\ FillLoop
  /\ incoming = <<>> /\ incomingClosed
  /\ closing' = TRUE
  /\ UNCHANGED <<collector, next, pending, collected>>
  /\ UNCHANGED <<callerVars, batchVars, waitVars, watchVars, errorVars,
                 retryVars, adapterVars, chainVars, incomingVars, outcome>>

\* The batch goroutine starts; with an empty batch it is done at once.
StartBatch ==
  /\ collector = "fill"
  /\ closing \/ Cardinality(next) >= BatchSize
  /\ collector' = "select"
  /\ stage' = MoveAll(next, "todo")
  /\ batcher' = IF next = {} THEN "done" ELSE "call"
  /\ batchErr' = "none"
  /\ next' = {} /\ collected' = {}
  /\ UNCHANGED <<closing, pending, notifying>>
  /\ UNCHANGED <<callerVars, waitVars, watchVars, errorVars, retryVars,
                 adapterVars, chainVars, incomingVars, outcome>>

CollectOne ==
  /\ collector = "select"
  /\ incoming # <<>>
  /\ collected' = collected \cup {Head(incoming)}
  /\ incoming' = Tail(incoming)
  /\ UNCHANGED <<collector, closing, next, pending, incomingClosed>>
  /\ UNCHANGED <<callerVars, batchVars, waitVars, watchVars, errorVars,
                 retryVars, adapterVars, chainVars, outcome>>

CollectClosed ==
  /\ collector = "select"
  /\ incoming = <<>> /\ incomingClosed
  /\ collector' = "drain"
  /\ UNCHANGED <<closing, next, pending, collected>>
  /\ UNCHANGED <<callerVars, batchVars, waitVars, watchVars, errorVars,
                 retryVars, adapterVars, chainVars, incomingVars, outcome>>

\* The done branch of the select returns closing = FALSE even after a close.
CollectDone ==
  /\ collector \in {"select", "drain"}
  /\ batcher = "done"
  /\ closing' = (collector = "drain")
  /\ collector' = "merge"
  /\ UNCHANGED <<next, pending, collected>>
  /\ UNCHANGED <<callerVars, batchVars, waitVars, watchVars, errorVars,
                 retryVars, adapterVars, chainVars, incomingVars, outcome>>

\* A batch that failed for good stops the collector.
AbortQueue ==
  /\ collector = "merge"
  /\ batchErr = "fatal"
  /\ WaitAbort
  /\ outcome' = [o \in Oids |-> IF outcome[o] = "queued" THEN "abandoned" ELSE outcome[o]]
  /\ collector' = "exited"
  /\ batcher' = "idle"
  /\ UNCHANGED <<closing, next, pending, collected, stage, batchErr, notifying>>
  /\ UNCHANGED <<callerVars, watchVars, errorVars, retryVars, adapterVars,
                 chainVars, incomingVars>>

Ready(os) == {o \in os : readyTime[o] = "past"}

\* The batches that Concat may return as "left": as many ready objects as fit,
\* those of an earlier class (retries, then pending, then collected) first.
Left(b1, b2, b3) ==
  {l \in SUBSET Ready(b1 \cup b2 \cup b3) :
     /\ Cardinality(l) <= BatchSize
     /\ \/ l = Ready(b1 \cup b2 \cup b3)
        \/ /\ Cardinality(l) = BatchSize
           /\ l \cap (b2 \cup b3) # {} => Ready(b1) \subseteq l
           /\ l \cap b3 # {} => Ready(b2) \subseteq l}

\* Mutant: the collector ends although objects are pending.
ConcatAndExit ==
  /\ collector = "merge"
  /\ batchErr # "fatal"
  /\ \E left \in Left(At("retry"), pending, collected) :
       /\ next' = left
       /\ pending' = (At("retry") \cup pending \cup collected) \ left
       /\ collected' = {}
       /\ collector' = IF left = {} /\ closing THEN "exited" ELSE "fill"
  /\ stage' = MoveAll(At("retry"), "idle")
  /\ batcher' = "idle"
  /\ UNCHANGED <<closing, batchErr, notifying>>
  /\ UNCHANGED <<callerVars, waitVars, watchVars, errorVars, retryVars,
                 adapterVars, chainVars, incomingVars, outcome>>

ConcatBatches ==
  /\ collector = "merge"
  /\ batchErr # "fatal"
  /\ \E left \in Left(At("retry"), pending, collected) :
       LET right == (At("retry") \cup pending \cup collected) \ left IN
       /\ next' = left /\ pending' = right /\ collected' = {}
       /\ collector' = IF left = {} /\ right # {} THEN "sleep"
                       ELSE IF left = {} /\ closing THEN "exited" ELSE "fill"
  /\ stage' = MoveAll(At("retry"), "idle")
  /\ batcher' = "idle"
  /\ UNCHANGED <<closing, batchErr, notifying>>
  /\ UNCHANGED <<callerVars, waitVars, watchVars, errorVars, retryVars,
                 adapterVars, chainVars, incomingVars, outcome>>

\* time.Sleep(minWait) ends when the first pending object is ready.
WakeUp ==
  /\ collector = "sleep"
  /\ Ready(pending) # {}
  /\ collector' = "fill"
  /\ UNCHANGED <<closing, next, pending, collected>>
  /\ UNCHANGED <<callerVars, batchVars, waitVars, watchVars, errorVars,
                 retryVars, adapterVars, chainVars, incomingVars, outcome>>

-----------------------------------------------------------------------------
(* enqueueAndCollectRetriesFor. *)

\* Objects of a failed request that are retried, and those that are given up.
Kept(e) == {o \in At("todo") : CanRetry(o) /\ e \in {"retriable", "later"}}
Lost(e) == At("todo") \ Kept(e)

\* Batch() fails; the error is returned unless every object is scheduled for
\* the server's Retry-After.
BatchFails(e) ==
  LET scheduled == e = "later" /\ Lost(e) = {} IN
  /\ batcher = "call" /\ ~Standalone
  /\ EnqueueRetry(Kept(e), IF e = "later" THEN "retryAfter" ELSE "backoff")
  /\ coolDown' = IF e = "later" THEN coolDown \cup Kept(e) ELSE coolDown
  /\ WaitDone(Cardinality(Lost(e)))
  /\ outcome' = [o \in Oids |-> IF o \in Lost(e) THEN "failed" ELSE outcome[o]]
  /\ stage' = [o \in Oids |-> IF o \in Kept(e) THEN "retry"
                              ELSE IF o \in Lost(e) THEN "idle" ELSE stage[o]]
  /\ batchErr' = IF scheduled THEN "none" ELSE "retriable"
  /\ batcher' = IF scheduled THEN "done" ELSE "report"
  /\ UNCHANGED notifying
  /\ UNCHANGED <<callerVars, collectVars, watchVars, errorVars, adapterVars,
                 chainVars, incomingVars>>

\* Objects that are missing here and that the server wants.
NoSource(v) == {o \in At("todo") \cap MissingOids : v[o] \in {"transfer", "expired"}}

\* A response is an error for the whole queue if an upload has no source.
BatchAborts(v) ==
  /\ batcher = "call" /\ ~Standalone
  /\ Upload /\ NoSource(v) # {}
  /\ stage' = MoveAll(At("todo"), "idle")
  /\ batchErr' = "fatal"
  /\ batcher' = "report"
  /\ UNCHANGED notifying
  /\ UNCHANGED <<callerVars, collectVars, waitVars, watchVars, errorVars,
                 retryVars, adapterVars, chainVars, incomingVars, outcome>>

\* NewAdapterOrDefault: a name that is not registered (or empty) means basic.
AdapterFor(n) == IF n \in AdapterNames THEN n ELSE "basic"

\* useAdapter: an adapter of another name than the response's is ended first.
UseAdapter(n) ==
  IF adapter = n THEN UNCHANGED adapterVars
  ELSE /\ adapter' = AdapterFor(n)
       /\ adapterInProgress' = FALSE
       /\ begun' = IF adapterInProgress THEN "none" ELSE begun

\* A response with an entry for each object that v does not omit.  Without
\* any entry the batch ends here.
BatchAnswers(v, n) ==
  /\ batcher = "call"
  /\ Standalone => \A o \in At("todo") : v[o] = "noaction"
  /\ ~(Upload /\ ~Standalone /\ NoSource(v) # {})
  /\ stage' = [o \in Oids |-> IF stage[o] # "todo" THEN stage[o]
                              ELSE IF v[o] = "omitted" THEN "idle" ELSE v[o]]
  /\ IF \A o \in At("todo") : v[o] = "omitted"
     THEN batcher' = "done" /\ UNCHANGED adapterVars
     ELSE batcher' = "objects" /\ UseAdapter(n)
  /\ UNCHANGED <<batchErr, notifying>>
  /\ UNCHANGED <<callerVars, collectVars, waitVars, watchVars, errorVars,
                 retryVars, chainVars, incomingVars, outcome>>

Settle(o, what) ==
  /\ WaitDone(1)
  /\ outcome' = [outcome EXCEPT ![o] = what]
  /\ stage' = [stage EXCEPT ![o] = "idle"]

\* Mutant: no continue after the error of an object.
RejectAndAccept(o) ==
  /\ batcher = "objects"
  /\ stage[o] \in {"error", "unknown"}
  /\ SendError(o)
  /\ WaitDone(1)
  /\ outcome' = [outcome EXCEPT ![o] = "failed"]
  /\ stage' = [stage EXCEPT ![o] = "accepted"]
  /\ UNCHANGED <<batcher, batchErr, notifying>>
  /\ UNCHANGED <<callerVars, collectVars, watchVars, retryVars, adapterVars,
                 chainVars, incomingVars>>

\* The entry is an error, names an unknown OID, or has expired with no retry left.
RejectObject(o) ==
  /\ batcher = "objects"
  /\ \/ stage[o] \in {"error", "unknown"}
     \/ stage[o] = "expired" /\ ~CanRetry(o)
  /\ SendError(o)
  /\ Settle(o, "failed")
  /\ UNCHANGED <<batcher, batchErr, notifying>>
  /\ UNCHANGED <<callerVars, collectVars, watchVars, retryVars, adapterVars,
                 chainVars, incomingVars>>

RetryExpired(o) ==
  /\ batcher = "objects"
  /\ stage[o] = "expired" /\ CanRetry(o)
  /\ EnqueueRetry({o}, "backoff")
  /\ stage' = [stage EXCEPT ![o] = "retry"]
  /\ UNCHANGED <<batcher, batchErr, notifying, coolDown>>
  /\ UNCHANGED <<callerVars, collectVars, waitVars, watchVars, errorVars,
                 adapterVars, chainVars, incomingVars, outcome>>

\* No action: nothing to transfer.
SkipObject(o) ==
  /\ batcher = "objects"
  /\ stage[o] = "noaction" /\ ~Standalone
  /\ Settle(o, "present")
  /\ UNCHANGED <<batcher, batchErr, notifying>>
  /\ UNCHANGED <<callerVars, collectVars, watchVars, errorVars, retryVars,
                 adapterVars, chainVars, incomingVars>>

AcceptObject(o) ==
  /\ batcher = "objects"
  /\ stage[o] = "transfer" \/ (stage[o] = "noaction" /\ Standalone)
  /\ stage' = [stage EXCEPT ![o] = "accepted"]
  /\ UNCHANGED <<batcher, batchErr, notifying>>
  /\ UNCHANGED <<callerVars, collectVars, waitVars, watchVars, errorVars,
                 retryVars, adapterVars, chainVars, incomingVars, outcome>>

AllObjectsSeen == \A o \in Oids : stage[o] \notin AllVerdicts

(* addToAdapter. *)

\* Begin fails: one error, and every transfer of the batch is given up.
BeginFails ==
  /\ batcher = "objects" /\ AllObjectsSeen
  /\ ~adapterInProgress /\ BeginMayFail
  /\ SendError("adapter")
  /\ WaitDone(Cardinality(At("accepted")))
  /\ outcome' = [o \in Oids |-> IF stage[o] = "accepted" THEN "failed" ELSE outcome[o]]
  /\ stage' = MoveAll(At("accepted"), "idle")
  /\ batcher' = "results"
  /\ UNCHANGED <<batchErr, notifying>>
  /\ UNCHANGED <<callerVars, collectVars, watchVars, retryVars, adapterVars,
                 chainVars, incomingVars>>

\* The adapter is begun if need be; uploads whose file is gone or has another
\* size fail without reaching it (partitionTransfers).
AddToAdapter(absent) ==
  /\ batcher = "objects" /\ AllObjectsSeen
  /\ absent \subseteq At("accepted")
  /\ absent # {} => Upload
  /\ adapterInProgress' = TRUE
  /\ begun' = IF adapterInProgress THEN begun ELSE adapter
  /\ stage' = [o \in Oids |-> IF stage[o] # "accepted" THEN stage[o]
                              ELSE IF o \in absent THEN "absent" ELSE "inflight"]
  /\ batcher' = "results"
  /\ UNCHANGED <<batchErr, notifying, adapter>>
  /\ UNCHANGED <<callerVars, collectVars, waitVars, watchVars, errorVars,
                 retryVars, chainVars, incomingVars, outcome>>

(* handleTransferResult: the missing files first, then the adapter's results. *)

ResultArrives(o, r) ==
  /\ batcher = "results"
  /\ ~TrMutexHeld
  /\ \/ stage[o] = "absent" /\ r = "fatal"
     \/ stage[o] = "inflight" /\ r \in TransferOutcomes /\ At("absent") = {}

\* Sent on the retries channel; a Retry-After is noted on the tuple.
ResultRetry(o, r) ==
  /\ ResultArrives(o, r)
  /\ r \in {"retriable", "later"} /\ CanRetry(o)
  /\ stage' = [stage EXCEPT ![o] = "rechan"]
  /\ readyTime' = IF r = "later" THEN [readyTime EXCEPT ![o] = "retryAfter"] ELSE readyTime
  /\ coolDown' = IF r = "later" THEN coolDown \cup {o} ELSE coolDown
  /\ UNCHANGED <<batcher, batchErr, notifying, rc>>
  /\ UNCHANGED <<callerVars, collectVars, waitVars, watchVars, errorVars,
                 adapterVars, chainVars, incomingVars, outcome>>

ResultError(o, r) ==
  /\ ResultArrives(o, r)
  /\ r = "fatal" \/ (r \in {"retriable", "later"} /\ ~CanRetry(o))
  /\ SendError(o)
  /\ Settle(o, "failed")
  /\ UNCHANGED <<batcher, batchErr, notifying>>
  /\ UNCHANGED <<callerVars, collectVars, watchVars, retryVars, adapterVars,
                 chainVars, incomingVars>>

\* A 422 answer is not reported through errorc.
ResultUnprocessable(o) ==
  /\ ResultArrives(o, "unprocessable")
  /\ unsupportedContentType' = TRUE
  /\ Settle(o, "failed")
  /\ UNCHANGED <<batcher, batchErr, notifying, errorc, errors>>
  /\ UNCHANGED <<callerVars, collectVars, watchVars, retryVars, adapterVars,
                 chainVars, incomingVars>>

\* Success: completed is set and the chain is announced, all under trMutex.
ResultOk(o) ==
  /\ ResultArrives(o, "ok")
  /\ completed' = completed \cup {o}
  /\ notifying' = watchers \X transfers[o]
  /\ stage' = [stage EXCEPT ![o] = "notifying"]
  /\ UNCHANGED <<batcher, batchErr, transfers>>
  /\ UNCHANGED <<callerVars, collectVars, waitVars, watchVars, errorVars,
                 retryVars, adapterVars, incomingVars, outcome>>

AnnounceResult(w, t) ==
  /\ <<w, t>> \in notifying
  /\ SendWatch(w, t)
  /\ notifying' = notifying \ {<<w, t>>}
  /\ UNCHANGED <<batcher, stage, batchErr>>
  /\ UNCHANGED <<callerVars, collectVars, waitVars, errorVars, retryVars,
                 adapterVars, chainVars, incomingVars, outcome>>

FinishResult(o) ==
  /\ stage[o] = "notifying"
  /\ notifying = {}
  /\ Settle(o, "completed")
  /\ UNCHANGED <<batcher, batchErr, notifying>>
  /\ UNCHANGED <<callerVars, collectVars, watchVars, errorVars, retryVars,
                 adapterVars, chainVars, incomingVars>>

\* for t := range retries { enqueueRetry(t, nil, nil) }
TakeRetry(o) ==
  /\ batcher = "results"
  /\ stage[o] = "rechan"
  /\ EnqueueRetry({o}, "backoff")
  /\ stage' = [stage EXCEPT ![o] = "retry"]
  /\ UNCHANGED <<batcher, batchErr, notifying, coolDown>>
  /\ UNCHANGED <<callerVars, collectVars, waitVars, watchVars, errorVars,
                 adapterVars, chainVars, incomingVars, outcome>>

BatchDone ==
  /\ batcher = "results"
  /\ \A o \in Oids : stage[o] \in {"idle", "retry"}
  /\ batcher' = "done"
  /\ UNCHANGED <<stage, batchErr, notifying>>
  /\ UNCHANGED <<callerVars, collectVars, waitVars, watchVars, errorVars,
                 retryVars, adapterVars, chainVars, incomingVars, outcome>>

\* Mutant: the error of the batch is not sent to errorc.
SwallowBatchError ==
  /\ batcher = "report"
  /\ batcher' = "done"
  /\ UNCHANGED <<stage, batchErr, notifying>>
  /\ UNCHANGED <<callerVars, collectVars, waitVars, watchVars, errorVars,
                 retryVars, adapterVars, chainVars, incomingVars, outcome>>

\* The goroutine of collectBatches reports the error of the batch.
ReportBatchError ==
  /\ batcher = "report"
  /\ SendError("batch")
  /\ batcher' = "done"
  /\ UNCHANGED <<stage, batchErr, notifying>>
  /\ UNCHANGED <<callerVars, collectVars, waitVars, watchVars, retryVars,
                 adapterVars, chainVars, incomingVars, outcome>>

-----------------------------------------------------------------------------
(* The clock. *)

BackoffElapses(o) ==
  /\ readyTime[o] = "backoff"
  /\ readyTime' = [readyTime EXCEPT ![o] = "past"]
  /\ UNCHANGED <<rc, coolDown>>
  /\ UNCHANGED <<callerVars, collectVars, batchVars, waitVars, watchVars,
                 errorVars, adapterVars, chainVars, incomingVars, outcome>>

RetryAfterElapses(o) ==
  /\ o \in coolDown
  /\ coolDown' = coolDown \ {o}
  /\ readyTime' = IF readyTime[o] = "retryAfter"
                  THEN [readyTime EXCEPT ![o] = "past"] ELSE readyTime
  /\ UNCHANGED rc
  /\ UNCHANGED <<callerVars, collectVars, batchVars, waitVars, watchVars,
                 errorVars, adapterVars, chainVars, incomingVars, outcome>>

-----------------------------------------------------------------------------

Add == \/ AddError
       \/ \E t \in Tuples : AddNew(t) \/ AddDuplicate(t)
       \/ SendIncoming
       \/ \E w \in Watchers : AnnounceDuplicate(w)

Wait == CallWait \/ JoinTransfers \/ JoinCollector \/ WaitReturn

CollectBatches ==
  \/ FillOne \/ FillClosed \/ StartBatch
  \/ CollectOne \/ CollectClosed \/ CollectDone
  \/ AbortQueue \/ ConcatBatches \/ WakeUp

EnqueueAndCollectRetries ==
  \/ \E e \in BatchErrors : BatchFails(e)
  \/ \E v \in [At("todo") -> Verdicts] :
       BatchAborts(v) \/ \E n \in ServerNames : BatchAnswers(v, n)
  \/ \E o \in Oids : RejectObject(o) \/ RetryExpired(o) \/ SkipObject(o) \/ AcceptObject(o)
  \/ BeginFails
  \/ \E absent \in SUBSET Oids : AddToAdapter(absent)
  \/ \E o \in Oids : TakeRetry(o)
  \/ BatchDone \/ ReportBatchError

HandleTransferResult ==
  \/ \E o \in Oids, r \in ErrorKinds : ResultRetry(o, r) \/ ResultError(o, r)
  \/ \E o \in Oids : ResultUnprocessable(o) \/ ResultOk(o) \/ FinishResult(o)
  \/ \E w \in Watchers, t \in Tuples : AnnounceResult(w, t)

Clock == \E o \in Oids : BackoffElapses(o) \/ RetryAfterElapses(o)

\* After Wait has returned nothing is left to do.
Terminated == caller = "returned" /\ UNCHANGED vars

Next ==
  \/ \E w \in Watchers : Watch(w)
  \/ Add \/ Wait
  \/ CollectError
  \/ \E w \in Watchers : ReadWatch(w)
  \/ CollectBatches
  \/ EnqueueAndCollectRetries
  \/ HandleTransferResult
  \/ Clock
  \/ Terminated

Spec == Init /\ [][Next]_vars

\* Goroutines run, the server and the adapter answer, watchers are read, time
\* passes; a select whose two branches are ready does not pick the same one
\* for ever.
Fairness ==
  /\ WF_vars(Add) /\ WF_vars(Wait)
  /\ WF_vars(CollectError)
  /\ \A w \in Watchers : WF_vars(ReadWatch(w))
  /\ WF_vars(CollectBatches) /\ SF_vars(CollectClosed)
  /\ WF_vars(EnqueueAndCollectRetries)
  /\ WF_vars(HandleTransferResult)
  /\ \A o \in Oids : WF_vars(BackoffElapses(o)) /\ WF_vars(RetryAfterElapses(o))

FairSpec == Spec /\ Fairness
-----------------------------------------------------------------------------
(* Properties. *)

\* Type invariant of the queue's state.
TypeOK ==
  /\ caller \in CallerStates /\ hand \in SUBSET Oids
  /\ duplicate \in SUBSET Tuples /\ toAnnounce \in SUBSET Watchers
  /\ transfers \in [Oids -> SUBSET Tuples] /\ completed \in SUBSET Oids
  /\ wq \in Int /\ counter \in Int
  /\ incoming \in Seq(Oids) /\ incomingClosed \in BOOLEAN
  /\ watchers \in SUBSET Watchers /\ watchLen \in [Watchers -> 0..BatchSize]
  /\ errorc \in ErrorCauses \cup {"none"} /\ errors \in SUBSET ErrorCauses
  /\ unsupportedContentType \in BOOLEAN
  /\ rc \in [Oids -> Nat] /\ readyTime \in [Oids -> {"past", "backoff", "retryAfter"}]
  /\ adapter \in AdapterNames \cup {"none"} /\ adapterInProgress \in BOOLEAN
  /\ begun \in AdapterNames \cup {"none"} /\ coolDown \in SUBSET Oids
  /\ collector \in CollectorStates /\ closing \in BOOLEAN
  /\ next \in SUBSET Oids /\ pending \in SUBSET Oids /\ collected \in SUBSET Oids
  /\ batcher \in BatcherStates /\ stage \in [Oids -> Stages]
  /\ batchErr \in {"none", "retriable", "fatal"}
  /\ notifying \in SUBSET (Watchers \X Tuples)
  /\ outcome \in [Oids -> Outcomes] /\ notified \in [Watchers -> [Tuples -> Nat]]

Queued == {o \in Oids : outcome[o] = "queued"}

\* Objects of the running batch, and objects anything still holds.
InBatch == {o \in Oids : stage[o] # "idle"}

Held == hand \cup Elems(incoming) \cup next \cup pending \cup collected \cup InBatch

\* The wait group never goes negative (Done would panic), and as long as the
\* queue is not aborted and the server answers for every object it counts
\* exactly the objects that the caller, a channel or a batch still holds: no
\* object is dropped without its Done, none is done while it is held.
WaitGroupCountsHeld ==
  /\ wq >= 0
  /\ batchErr # "fatal" /\ "omitted" \notin Verdicts => wq = Cardinality(Held)

\* An object is in one place only: the caller's hand, incoming, the next batch,
\* the pending or collected items, or the running batch.  Two places would mean
\* two concurrent transfers of the same object and two Done calls.
HeldInOnePlace ==
  /\ Distinct(incoming)
  /\ hand \cap (Elems(incoming) \cup next \cup pending \cup collected \cup InBatch) = {}
  /\ Elems(incoming) \cap (next \cup pending \cup collected \cup InBatch) = {}
  /\ next \cap (pending \cup collected \cup InBatch) = {}
  /\ pending \cap (collected \cup InBatch) = {}
  /\ collected \cap InBatch = {}

\* Watch: every tuple added for a completed object is announced to every
\* watcher exactly once, whether it was added before, while or after the
\* object completed, and no tuple of another object is announced.
AnnouncedExactlyOnce ==
  \A w \in watchers, t \in Tuples :
    /\ notified[w][t] <= 1
    /\ notified[w][t] = 1 => OidOf[t] \in completed
    /\ caller = "returned" /\ t \in transfers[OidOf[t]] /\ OidOf[t] \in completed
         => notified[w][t] = 1

\* When Wait has returned, every object that was added has been transferred or
\* was not needed, or else Errors() holds an error that accounts for it; the
\* exception is a 422 answer, which only sets unsupportedContentType.
NoSilentLoss ==
  caller = "returned" =>
    \A o \in Oids :
      \/ outcome[o] \in {"new", "completed", "present"}
      \/ outcome[o] = "failed"
           /\ (errors \cap {o, "batch", "adapter"} # {} \/ unsupportedContentType)
      \/ outcome[o] = "abandoned" /\ "batch" \in errors

\* No goroutine sends on errorc or on a Watch channel after Wait has closed it
\* (the send would panic).
NoSendOnClosed ==
  [][ /\ errorc' # errorc /\ errorc' # "none" => ~ChannelsClosed
      /\ notified' # notified => ~ChannelsClosed ]_vars

\* Wait returns: the collector, the batches and their results, blocked as they
\* may be on incoming, on errorc or on a slow watcher and asleep until a retry is
\* ready, let every object reach its Done and end once incoming is closed.
WaitReturns == <>(caller = "returned")

\* What the queue promises: see TransferPromise.
Promise == INSTANCE TransferPromise WITH
  fate     <- outcome,
  closed   <- incomingClosed,
  stopped  <- (collector = "exited" /\ batchErr = "fatal"),
  returned <- (caller = "returned")

\* The queue implements its promise: each object is accepted once and only
\* before Wait, resolved once and for good, and Wait does not return while an
\* accepted object is unresolved; nothing is resolved after an abort.
KeepsPromise == Promise!Spec

=============================================================================
