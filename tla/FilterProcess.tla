--------------------------- MODULE FilterProcess ---------------------------
(***************************************************************************)
(* The long-running filter of commands/command_filter_process.go with its  *)
(* delayed smudge: Git asks for the paths of a checkout, the filter delays *)
(* those whose object is not local and adds them to a transfer queue, and  *)
(* Git then asks for the available ones until the list is empty.  A        *)
(* goroutine of the filter (infiniteTransferBuffer) moves what the queue   *)
(* announces to the channel that the list reads.                           *)
(*                                                                         *)
(* The queue is what TransferPromise says of it, with the announcements of *)
(* TransferQueue: an object is resolved once, each tuple of a completed    *)
(* object is announced once to each watcher that is registered then, Wait  *)
(* closes the watchers when nothing is unresolved, and an error of a batch *)
(* stops the queue for good.  Git asks for a path once per checkout and    *)
(* for a listed path again without delay; an empty list ends the checkout. *)
(* A Git that does not offer the delay capability asks for each path once, *)
(* with its content, and there is no queue.                                *)
(***************************************************************************)
EXTENDS Integers, Sequences, FiniteSets, SequencesExt

CONSTANTS
  Paths,         \* paths of the work tree
  Oids, OidOf,   \* the object that each path's pointer names
  PlainPaths,    \* paths that are never downloaded: no pointer, empty, skipped, excluded
  BatchSize,     \* capacity of a Watch channel and of q.incoming
  SkipDownloadErrors, \* lfs.skipdownloaderrors
  Offers,        \* sets of capabilities that a Git may offer
  MaxCheckouts   \* bound: checkouts that one Git process makes

ASSUME FilterAssumption ==
  /\ IsFiniteSet(Paths) /\ PlainPaths \subseteq Paths /\ OidOf \in [Paths -> Oids]
  /\ BatchSize \in Nat \ {0} /\ MaxCheckouts \in Nat \ {0}
  /\ SkipDownloadErrors \in BOOLEAN

VARIABLES
  \* ---- Git
  git,         \* "start", "idle", in the "checkout", "finish"ing the delayed paths, "closed", or "dead"
  checkouts,   \* checkouts so far
  todo,        \* paths it has not asked for yet
  delayed,     \* paths it was told to ask for later
  listed,      \* paths the last list told it to ask for now
  result,      \* what it was given for each path
  \* ---- the filter's loop
  supportsDelay, \* the delay capability was negotiated
  cmd,         \* "none", "add", "announce" (a duplicate), "poll", "block", "reply" (readAvailable)
  path,        \* the path, in a set, that "add" and "announce" are about
  ts,          \* what readAvailable has accumulated
  ptrs,        \* paths whose pointer it keeps
  \* ---- the transfer queue q, if there is one
  q,           \* "none", "open", "wait" (Wait was called), "closed" (it closed the watchers)
  added,       \* paths added to it
  unresolved, complete, \* OIDs
  stopped,     \* an error ended its collector
  watching,    \* the buffer's Watch channel is registered
  handling,    \* the object, in a set, whose completion is announced under trMutex
  toSend,      \* its paths that are still to be announced
  \* ---- infiniteTransferBuffer
  buffer,      \* "none", "start" (Watch not called yet), "run", "drain", "done"
  watch,       \* the contents of the Watch channel
  watchClosed,
  pending,
  \* ---- the object store
  store        \* what the file of each object is

gitVars    == <<git, checkouts, todo, delayed, listed, result>>
filterVars == <<supportsDelay, cmd, path, ts, ptrs>>
queueVars  == <<q, added, unresolved, complete, stopped, watching, handling, toSend>>
bufferVars == <<buffer, watch, watchClosed, pending>>
vars == <<gitVars, filterVars, queueVars, bufferVars, store>>

\* A file of another size than the pointer's is "short".
Files == {"absent", "valid", "short"}

Init ==
  /\ git = "start" /\ checkouts = 0 /\ todo = {} /\ delayed = {} /\ listed = {}
  /\ result = [p \in Paths |-> "none"]
  /\ supportsDelay = FALSE /\ cmd = "none" /\ path = {} /\ ts = <<>> /\ ptrs = {}
  /\ q = "none" /\ added = {} /\ unresolved = {} /\ complete = {}
  /\ stopped = FALSE /\ watching = FALSE /\ handling = {} /\ toSend = {}
  /\ buffer = "none" /\ watch = <<>> /\ watchClosed = FALSE /\ pending = <<>>
  /\ store \in [Oids -> Files]

-----------------------------------------------------------------------------
(* The handshake: a Git of another version, or without clean and smudge, ends it. *)

\* NegotiateCapabilities: what the filter asks for must be on offer.
Negotiated(offer) == {"clean", "smudge"} \cup (offer \cap {"delay"}) \subseteq offer

Handshake(versionOk, offer) ==
  /\ git = "start"
  /\ git' = IF versionOk /\ Negotiated(offer) THEN "idle" ELSE "dead"
  /\ supportsDelay' = (versionOk /\ "delay" \in offer)
  /\ UNCHANGED <<checkouts, todo, delayed, listed, result>>
  /\ UNCHANGED <<cmd, path, ts, ptrs, queueVars, bufferVars, store>>

\* Git closes the pipe: Scan finds the end of the requests, and the filter exits.
ClosePipe ==
  /\ git = "idle" /\ cmd = "none"
  /\ git' = "closed"
  /\ UNCHANGED <<checkouts, todo, delayed, listed, result>>
  /\ UNCHANGED <<filterVars, queueVars, bufferVars, store>>

-----------------------------------------------------------------------------
(* Git: a checkout of some paths, and its end when nothing was delayed. *)

StartCheckout(ps) ==
  /\ git = "idle" /\ checkouts < MaxCheckouts /\ ps # {}
  /\ git' = "checkout" /\ checkouts' = checkouts + 1
  /\ todo' = ps /\ delayed' = {} /\ listed' = {}
  /\ result' = [p \in Paths |-> "none"]
  /\ UNCHANGED <<filterVars, queueVars, bufferVars, store>>

FinishCheckout ==
  /\ git = "checkout" /\ cmd = "none" /\ todo = {}
  /\ git' = IF delayed = {} THEN "idle" ELSE "finish"
  /\ UNCHANGED <<checkouts, todo, delayed, listed, result>>
  /\ UNCHANGED <<filterVars, queueVars, bufferVars, store>>

\* command=clean between checkouts moves the object's file into place unless it
\* is there, and exits if it is there with another size.
Clean(o) ==
  /\ git = "idle" /\ store[o] # "valid"
  /\ store' = [store EXCEPT ![o] = IF @ = "absent" THEN "valid" ELSE @]
  /\ git' = IF store[o] = "short" THEN "dead" ELSE git
  /\ UNCHANGED <<checkouts, todo, delayed, listed, result>>
  /\ UNCHANGED <<filterVars, queueVars, bufferVars>>

-----------------------------------------------------------------------------
(* command=smudge *)

\* The queue, closeOnce and the channel are made for the first smudge, and anew
\* after a list for which nothing was available.
NewQueue ==
  IF q # "none" \/ ~supportsDelay THEN UNCHANGED <<queueVars, bufferVars>>
  ELSE /\ q' = "open" /\ added' = {} /\ unresolved' = {} /\ complete' = {}
       /\ stopped' = FALSE /\ watching' = FALSE /\ handling' = {} /\ toSend' = {}
       /\ buffer' = "start" /\ watch' = <<>> /\ watchClosed' = FALSE /\ pending' = <<>>

\* GitFilter.Smudge: the object's file afterwards.  One of the wrong size is removed,
\* and what is missing then is downloaded if the call may and can.
SmudgedFile(o, downloads) == IF store[o] = "valid" \/ downloads THEN "valid" ELSE "absent"

\* What Git is told: an error ends a Git for which the filter is required.
StatusFromErr(fails) == IF fails THEN "error" ELSE "success"
DelayedStatusFromErr(fails) == IF StatusFromErr(fails) = "success" THEN "delayed" ELSE "error"

\* can-delay=1, the object is not wanted or has a file: written at once.  This
\* smudge may not download, so that it fails for a file of the wrong size.
SmudgeAtOnce(p) ==
  LET o == OidOf[p]
      plain == p \in PlainPaths
      fails == ~plain /\ SmudgedFile(o, FALSE) = "absent" IN
  /\ git = "checkout" /\ supportsDelay /\ cmd = "none" /\ p \in todo
  /\ plain \/ store[o] # "absent"
  /\ NewQueue
  /\ todo' = todo \ {p}
  /\ result' = [result EXCEPT ![p] = IF plain THEN "plain" ELSE IF fails THEN "error" ELSE "valid"]
  /\ git' = IF StatusFromErr(fails) = "error" THEN "dead" ELSE git
  /\ store' = IF plain THEN store ELSE [store EXCEPT ![o] = SmudgedFile(o, FALSE)]
  /\ UNCHANGED <<checkouts, delayed, listed, filterVars>>

\* can-delay=1, the object has no file: the filter is going to add it.
SmudgeLater(p) ==
  /\ git = "checkout" /\ supportsDelay /\ cmd = "none" /\ p \in todo
  /\ p \notin PlainPaths /\ store[OidOf[p]] = "absent"
  /\ NewQueue
  /\ todo' = todo \ {p}
  /\ cmd' = "add" /\ path' = {p}
  /\ UNCHANGED <<git, checkouts, delayed, listed, result, supportsDelay, ts, ptrs, store>>

\* Mutant: only the first path of an object is remembered.
AnswerDelayedOnce(p) ==
  /\ ptrs' = IF \E r \in ptrs : OidOf[r] = OidOf[p] THEN ptrs ELSE ptrs \cup {p}
  /\ delayed' = delayed \cup {p}
  /\ cmd' = "none" /\ path' = {}

\* The pointer is kept and Git is told status=delayed.
AnswerDelayed(p) ==
  /\ ptrs' = ptrs \cup {p}
  /\ delayed' = IF DelayedStatusFromErr(FALSE) = "delayed" THEN delayed \cup {p} ELSE delayed
  /\ cmd' = "none" /\ path' = {}

\* q.Add of a new object.  Once the collector has stopped, the object stays in
\* q.incoming, and the filter blocks when that is full.
AddNew(p) ==
  LET o == OidOf[p] IN
  /\ cmd = "add" /\ p \in path /\ handling = {}
  /\ \A r \in added : OidOf[r] # o
  /\ stopped => Cardinality(unresolved) < BatchSize
  /\ added' = added \cup {p} /\ unresolved' = unresolved \cup {o}
  /\ AnswerDelayed(p)
  /\ UNCHANGED <<git, checkouts, todo, listed, result, supportsDelay, ts, store, bufferVars>>
  /\ UNCHANGED <<q, complete, stopped, watching, handling, toSend>>

\* q.Add of an object it knows: the path is announced with the object, or by the
\* filter itself if the object has arrived since the filter looked for its file.
AddDuplicate(p) ==
  LET o == OidOf[p] IN
  /\ cmd = "add" /\ p \in path /\ handling = {}
  /\ \E r \in added : OidOf[r] = o
  /\ added' = added \cup {p}
  /\ IF o \in complete /\ watching
     THEN cmd' = "announce" /\ UNCHANGED <<path, ptrs, delayed>>
     ELSE AnswerDelayed(p)
  /\ UNCHANGED <<git, checkouts, todo, listed, result, supportsDelay, ts, store, bufferVars>>
  /\ UNCHANGED <<q, unresolved, complete, stopped, watching, handling, toSend>>

Announce(p) ==
  /\ cmd = "announce" /\ p \in path /\ Len(watch) < BatchSize
  /\ watch' = Append(watch, p)
  /\ AnswerDelayed(p)
  /\ UNCHANGED <<git, checkouts, todo, listed, result, supportsDelay, ts, store, queueVars>>
  /\ UNCHANGED <<buffer, watchClosed, pending>>

Forget(p) == ptrs' = ptrs \ {p}

\* incomingOrCached: Git sends no content for a listed path, which is written from
\* the pointer that was kept.
Cached(p) == p \in ptrs

\* can-delay=0 for a listed path.  When its download fails the filter writes the
\* pointer, and exits if it may not skip errors.
SmudgeNow(p, downloads) ==
  LET o == OidOf[p]
      fails == Cached(p) /\ SmudgedFile(o, downloads) = "absent" IN
  /\ git = "finish" /\ cmd = "none" /\ p \in listed
  /\ downloads => Cached(p) /\ store[o] # "valid"
  /\ NewQueue
  /\ listed' = listed \ {p}
  /\ Forget(p)
  /\ store' = IF Cached(p) THEN [store EXCEPT ![o] = SmudgedFile(o, downloads)] ELSE store
  /\ result' = [result EXCEPT ![p] =
                 IF ~Cached(p) THEN "empty" ELSE IF fails THEN "pointer" ELSE "valid"]
  /\ git' = IF fails /\ ~SkipDownloadErrors THEN "dead" ELSE git
  /\ UNCHANGED <<checkouts, todo, delayed, supportsDelay, cmd, path, ts>>

\* Without the delay capability: the content comes with the request, and what is
\* not local is downloaded by a queue of its own before the answer.
SmudgeDirect(p, downloads) ==
  LET o == OidOf[p]
      plain == p \in PlainPaths
      fails == ~plain /\ SmudgedFile(o, downloads) = "absent" IN
  /\ git = "checkout" /\ ~supportsDelay /\ p \in todo
  /\ downloads => ~plain /\ store[o] # "valid"
  /\ NewQueue
  /\ todo' = todo \ {p}
  /\ store' = IF plain THEN store ELSE [store EXCEPT ![o] = SmudgedFile(o, downloads)]
  /\ result' = [result EXCEPT ![p] = IF plain THEN "plain" ELSE IF fails THEN "pointer" ELSE "valid"]
  /\ git' = IF fails /\ ~SkipDownloadErrors THEN "dead" ELSE git
  /\ UNCHANGED <<checkouts, delayed, listed, filterVars>>

-----------------------------------------------------------------------------
(* command=list_available_blobs *)

\* Mutant: Wait is called only when there is something to wait for.
WaitIfAdded == q' = IF q = "open" /\ added # {} THEN "wait" ELSE q

\* closeOnce.Do(go q.Wait()): the first list after the queue was made.
CloseOnce == q' = IF q = "open" THEN "wait" ELSE q

CallList ==
  /\ git = "finish" /\ cmd = "none" /\ listed = {}
  /\ CloseOnce
  /\ cmd' = "poll" /\ ts' = <<>>
  /\ UNCHANGED <<gitVars, supportsDelay, path, ptrs, bufferVars, store>>
  /\ UNCHANGED <<added, unresolved, complete, stopped, watching, handling, toSend>>

\* What Git is told: the paths that were available or, when the channel is
\* closed and gave nothing, those whose pointer is still kept.  Mutant: only
\* the former.
Pathnames == ToSet(ts)
NamesAvailable == Pathnames

Names == IF ts = <<>> THEN ptrs ELSE Pathnames

DropQueue == q' = IF ts = <<>> THEN "none" ELSE q

Reply ==
  /\ cmd = "reply"
  /\ DropQueue
  /\ listed' = Names
  /\ delayed' = delayed \ Names
  /\ git' = IF Names = {} THEN "idle" ELSE git
  /\ cmd' = "none" /\ ts' = <<>>
  /\ UNCHANGED <<checkouts, todo, result, supportsDelay, path, ptrs, bufferVars, store>>
  /\ UNCHANGED <<added, unresolved, complete, stopped, watching, handling, toSend>>

\* readAvailable receives from the goroutine that is sending pending[0]; the
\* second, blocking receive is the last one.  (What the goroutine read from watch
\* and can send at once passes through pending here.)
ReadOne ==
  /\ cmd \in {"poll", "block"} /\ buffer \in {"run", "drain"} /\ pending # <<>>
  /\ ts' = Append(ts, Head(pending))
  /\ pending' = Tail(pending)
  /\ cmd' = IF cmd = "block" THEN "reply" ELSE "poll"
  /\ UNCHANGED <<gitVars, supportsDelay, path, ptrs, queueVars, buffer, watch, watchClosed, store>>

\* The default case: nobody is ready to send, not even one that is about to.
PollEmpty ==
  /\ cmd = "poll" /\ buffer # "done"
  /\ cmd' = IF ts = <<>> THEN "block" ELSE "reply"
  /\ UNCHANGED <<gitVars, supportsDelay, path, ts, ptrs, queueVars, bufferVars, store>>

ReadClosed ==
  /\ cmd \in {"poll", "block"} /\ buffer = "done"
  /\ cmd' = "reply"
  /\ UNCHANGED <<gitVars, supportsDelay, path, ts, ptrs, queueVars, bufferVars, store>>

-----------------------------------------------------------------------------
(* The transfer queue, by its promise. *)

\* The goroutines end with the process.
Running == git \notin {"closed", "dead"}

\* The adapter moves the file into place before it reports the transfer.
Download(o) ==
  /\ Running /\ o \in unresolved \ handling /\ ~stopped /\ store[o] # "valid"
  /\ store' = [store EXCEPT ![o] = "valid"]
  /\ UNCHANGED <<gitVars, filterVars, queueVars, bufferVars>>

\* The watchers are those that are registered now.
Complete(o) ==
  /\ Running /\ o \in unresolved /\ ~stopped /\ store[o] = "valid" /\ handling = {}
  /\ complete' = complete \cup {o}
  /\ handling' = {o}
  /\ toSend' = IF watching THEN {p \in added : OidOf[p] = o} ELSE {}
  /\ UNCHANGED <<gitVars, filterVars, bufferVars, store>>
  /\ UNCHANGED <<q, added, unresolved, stopped, watching>>

SendWatch(p) ==
  /\ Running /\ p \in toSend /\ Len(watch) < BatchSize
  /\ toSend' = toSend \ {p}
  /\ watch' = Append(watch, p)
  /\ UNCHANGED <<gitVars, filterVars, buffer, watchClosed, pending, store>>
  /\ UNCHANGED <<q, added, unresolved, complete, stopped, watching, handling>>

Completed ==
  /\ Running /\ handling # {} /\ toSend = {}
  /\ unresolved' = unresolved \ handling /\ handling' = {}
  /\ UNCHANGED <<gitVars, filterVars, bufferVars, store>>
  /\ UNCHANGED <<q, added, complete, stopped, watching, toSend>>

\* An object that fails, or that the server has no action for, is not announced.
Fail(o) ==
  /\ Running /\ o \in unresolved \ handling /\ ~stopped
  /\ unresolved' = unresolved \ {o}
  /\ UNCHANGED <<gitVars, filterVars, bufferVars, store>>
  /\ UNCHANGED <<q, added, complete, stopped, watching, handling, toSend>>

\* A batch error that cannot be retried: Abort releases what is waited for.
Stop ==
  /\ Running /\ unresolved # {} /\ handling = {} /\ ~stopped
  /\ stopped' = TRUE /\ unresolved' = {}
  /\ UNCHANGED <<gitVars, filterVars, bufferVars, store>>
  /\ UNCHANGED <<q, added, complete, watching, handling, toSend>>

\* The rest of Wait.
CloseWatchers ==
  /\ Running /\ q = "wait" /\ unresolved = {}
  /\ q' = "closed" /\ watchClosed' = watching
  /\ UNCHANGED <<gitVars, filterVars, buffer, watch, pending, store>>
  /\ UNCHANGED <<added, unresolved, complete, stopped, watching, handling, toSend>>

-----------------------------------------------------------------------------
(* infiniteTransferBuffer, a goroutine that is started with the queue. *)

RegisterWatch ==
  /\ Running /\ buffer = "start"
  /\ buffer' = "run" /\ watching' = TRUE
  /\ UNCHANGED <<gitVars, filterVars, watch, watchClosed, pending, store>>
  /\ UNCHANGED <<q, added, unresolved, complete, stopped, handling, toSend>>

BufferRead ==
  /\ Running /\ buffer = "run" /\ watch # <<>>
  /\ pending' = Append(pending, Head(watch)) /\ watch' = Tail(watch)
  /\ UNCHANGED <<gitVars, filterVars, queueVars, buffer, watchClosed, store>>

\* What is pending is sent first, even if that blocks.
CloseAfterPending == buffer' = IF pending = <<>> THEN "done" ELSE "drain"

BufferClosing ==
  /\ Running /\ buffer \in {"run", "drain"} /\ watchClosed /\ watch = <<>>
  /\ buffer = "drain" => pending = <<>>
  /\ CloseAfterPending
  /\ UNCHANGED <<gitVars, filterVars, queueVars, watch, watchClosed, pending, store>>

-----------------------------------------------------------------------------
GitStep ==
  \/ FinishCheckout \/ CallList
  \/ \E p \in Paths : SmudgeAtOnce(p) \/ SmudgeLater(p)
  \/ \E p \in Paths, downloads \in BOOLEAN : SmudgeNow(p, downloads) \/ SmudgeDirect(p, downloads)

FilterStep ==
  \/ \E p \in Paths : AddNew(p) \/ AddDuplicate(p) \/ Announce(p)
  \/ ReadOne \/ PollEmpty \/ ReadClosed \/ Reply

BufferStep == RegisterWatch \/ BufferRead \/ BufferClosing

QueueStep == Completed \/ CloseWatchers \/ \E p \in Paths : SendWatch(p)

Resolve(o) == Complete(o) \/ Fail(o)

Next ==
  \/ \E versionOk \in BOOLEAN, offer \in Offers : Handshake(versionOk, offer)
  \/ ClosePipe
  \/ \E ps \in SUBSET Paths : StartCheckout(ps)
  \/ \E o \in Oids : Clean(o) \/ Download(o) \/ Resolve(o)
  \/ GitStep \/ FilterStep \/ BufferStep \/ QueueStep \/ Stop

Spec == Init /\ [][Next]_vars

\* Git goes on with a checkout it has begun; the goroutines are scheduled; the
\* queue resolves each object in the end.
FairSpec ==
  /\ Spec
  /\ WF_vars(GitStep) /\ WF_vars(FilterStep) /\ WF_vars(BufferStep) /\ WF_vars(QueueStep)
  /\ \A o \in Oids : WF_vars(Resolve(o))

-----------------------------------------------------------------------------

\* The list that ends a checkout ends it for every path: when Git is told that
\* nothing more comes, no path that was answered with status=delayed is left, also
\* if its object failed, if the queue stopped, or if it was complete before the
\* buffer had registered with Watch.
NothingLeftDelayed == git = "idle" => delayed = {} /\ listed = {} /\ ptrs = {}

\* Git sends no content with its second request for a delayed path: the pointer
\* that was kept for the path is still there then, or the file would be written
\* empty.
NoEmptyFile == \A p \in Paths : result[p] # "empty"

\* The ways to wait for ever: Watch registers after Wait has closed the watchers,
\* and an object is added after an error stopped the queue.
WatchLate == q = "closed" /\ watching /\ ~watchClosed
AddedAfterStop == stopped /\ unresolved # {}

\* Every checkout ends, or Git dies of an error, apart from those two ways.
CheckoutEnds ==
  (git \in {"checkout", "finish"}) ~>
     (git \in {"idle", "dead"} \/ WatchLate \/ AddedAfterStop)

=============================================================================
