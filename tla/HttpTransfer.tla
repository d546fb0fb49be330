---------------------------- MODULE HttpTransfer ----------------------------
(***************************************************************************)
(* The transfers over HTTP: basic downloads with their resumable partial   *)
(* file, basic uploads and tus.io uploads, with the verification that      *)
(* follows an upload (tq/basic_download.go, basic_upload.go, tus_upload.go,*)
(* verify.go).                                                             *)
(*                                                                         *)
(* The module follows one object.  A worker is a worker of some git-lfs    *)
(* process; workers of different processes share the file system and the   *)
(* server.  A content is a sequence of bytes: byte n of the object is n,   *)
(* any other byte is 0.  A worker whose transfer failed may be given the   *)
(* object again: the queue's retries are the subject of TransferQueue.     *)
(***************************************************************************)
EXTENDS Integers, Sequences

CONSTANTS
  HttpWorkers,
  Size,           \* bytes of the object
  MaxFaults       \* bound: failures and misbehaviours of network, server and disk

ASSUME HttpTransferAssumption == Size \in Nat \ {0} /\ MaxFaults \in Nat

VARIABLES
  mode,           \* the adapter in use: "download", "upload" or "tus"
  verifies,       \* the server's answer to the batch request names a verify action
  store,          \* the object's file in the local store, or NoFile
  part,           \* incomplete/OID.part, or NoFile
  remote,         \* the server's copy, partial while a tus upload is incomplete
  task,           \* what each worker does
  reported,       \* workers whose last transfer ended without an error
  resent,         \* a PATCH that had begun was sent a second time
  faults          \* failures so far

httpVars == <<mode, verifies, store, part, remote, task, reported, resent, faults>>

NoFile == <<-1>>          \* no content has this byte
Right == [n \in 1..Size |-> n]

\* tmp: the temporary file; hash: the bytes the hash has seen; from: the byte the
\* request starts at; pos: bytes of the body that are through; tries: verifications.
NoJob == [phase |-> "idle", tmp |-> <<>>, hash |-> <<>>, from |-> 0, pos |-> 0,
          tries |-> 0, seek |-> FALSE]

\* NewAdapterOrDefault: the adapter that the server's answer names.
HttpInit ==
  /\ mode \in {"download", "upload", "tus"} /\ verifies \in BOOLEAN
  /\ store = IF mode = "download" THEN NoFile ELSE Right
  /\ remote = IF mode = "download" THEN Right ELSE <<>>
  /\ part = NoFile /\ task = [w \in HttpWorkers |-> NoJob]
  /\ reported = {} /\ resent = FALSE /\ faults = 0

Fault == faults < MaxFaults /\ faults' = faults + 1
Set(w, j) == task' = [task EXCEPT ![w] = j]
Ends(w, ok) == reported' = IF ok THEN reported \cup {w} ELSE reported
At(w, phase) == task[w].phase = phase

\* Rel, Actions.Get and a failure to open or create a file: nothing was done yet.
CannotStart(w) ==
  /\ At(w, "idle") /\ w \notin reported /\ Fault
  /\ UNCHANGED <<mode, verifies, store, part, remote, task, reported, resent>>

-----------------------------------------------------------------------------
(* Basic download *)

\* Mutant: a partial file that is too long is kept.
ResumableAny(content) == Len(content) > 0

Resumable(content) == Len(content) > 0 /\ Len(content) < Size - 1

\* DoTransfer up to the request: the partial file becomes the temporary file, and is
\* read into the hash, or emptied.
StartDownload(w) ==
  LET found == IF part = NoFile THEN <<>> ELSE part
      tmp   == IF Resumable(found) THEN found ELSE <<>> IN
  /\ mode = "download" /\ At(w, "idle") /\ w \notin reported
  /\ Set(w, [NoJob EXCEPT !.phase = "get", !.tmp = tmp, !.hash = tmp, !.from = Len(tmp)])
  /\ part' = NoFile
  /\ UNCHANGED <<mode, verifies, store, remote, reported, resent, faults>>

\* Any error of download: the temporary file becomes the partial file again.
DownloadFails(w, j) ==
  /\ Set(w, NoJob) /\ part' = j.tmp /\ Ends(w, FALSE)
  /\ UNCHANGED <<mode, verifies, store, remote, resent>>

\* Mutant: the file keeps the bytes of the attempt before.
RestartKeepsFile(j) == [j EXCEPT !.from = 0, !.hash = <<>>, !.pos = 0]

\* Seek and Truncate, then the whole object.
Restart(j) == [j EXCEPT !.tmp = <<>>, !.from = 0, !.hash = <<>>, !.pos = 0]

\* No response, 429 with a Retry-After header, or any other status of an error.
GetRefused(w) ==
  /\ At(w, "get") /\ Fault
  /\ DownloadFails(w, task[w])

\* 429 without a Retry-After header: the index expression panics, the process is gone
\* and its deferred call removes the temporary file.
\* A crash leaves the temporary file behind, which no later process looks for.
Dies(w) ==
  /\ ~At(w, "idle") /\ Fault
  /\ Set(w, NoJob) /\ Ends(w, FALSE)
  /\ UNCHANGED <<mode, verifies, store, part, remote, resent>>

\* 416, or 206 with another start or none: request the whole object.
GetFromStart(w) ==
  /\ At(w, "get") /\ task[w].from > 0 /\ Fault
  /\ Set(w, Restart(task[w]))
  /\ UNCHANGED <<mode, verifies, store, part, remote, reported, resent>>

\* 206 for the bytes that were asked for.
GetPartial(w) ==
  /\ At(w, "get") /\ task[w].from > 0
  /\ Set(w, [task[w] EXCEPT !.phase = "body", !.pos = task[w].from])
  /\ UNCHANGED <<mode, verifies, store, part, remote, reported, resent, faults>>

\* 200: the server sends everything, whatever was asked for.
GetAll(w) ==
  /\ At(w, "get")
  /\ Set(w, [(IF task[w].from > 0 THEN Restart(task[w]) ELSE task[w]) EXCEPT !.phase = "body"])
  /\ UNCHANGED <<mode, verifies, store, part, remote, reported, resent, faults>>

\* CopyWithCallback through the HashingReader: the file and the hash get the byte.
Copied(j, b) == [j EXCEPT !.tmp = Append(@, b), !.hash = Append(@, b), !.pos = @ + 1]

ReadBody(w) ==
  /\ At(w, "body") /\ task[w].pos < Size
  /\ Set(w, Copied(task[w], task[w].pos + 1))
  /\ UNCHANGED <<mode, verifies, store, part, remote, reported, resent, faults>>

ReadBadByte(w) ==
  /\ At(w, "body") /\ task[w].pos < Size /\ Fault
  /\ Set(w, Copied(task[w], 0))
  /\ UNCHANGED <<mode, verifies, store, part, remote, reported, resent>>

\* The RetriableReader's error, a write that fails, or a body that ends too early.
ReadFails(w) ==
  /\ At(w, "body") /\ task[w].pos < Size /\ Fault
  /\ DownloadFails(w, task[w])

HashMatches(j) == j.hash = Right

\* The whole body is read: compare the hash and rename the file to its place.
FinishDownload(w) ==
  /\ At(w, "body") /\ task[w].pos = Size
  /\ IF HashMatches(task[w])
     THEN /\ store' = task[w].tmp
          /\ Set(w, NoJob) /\ Ends(w, TRUE)
          /\ UNCHANGED <<mode, verifies, part, remote, resent>>
     ELSE DownloadFails(w, task[w])
  /\ UNCHANGED faults

\* Close fails: an error, whether the object is there or not.
CloseFails(w) ==
  /\ At(w, "body") /\ task[w].pos = Size /\ HashMatches(task[w]) /\ Fault
  /\ DownloadFails(w, task[w])

\* The rename fails: no error if the object is there by another process.
RenameFails(w) ==
  /\ At(w, "body") /\ task[w].pos = Size /\ HashMatches(task[w]) /\ Fault
  /\ IF store # NoFile
     THEN /\ Set(w, NoJob) /\ Ends(w, TRUE)
          /\ UNCHANGED <<mode, verifies, store, part, remote, resent>>
     ELSE DownloadFails(w, task[w])

-----------------------------------------------------------------------------
(* Uploads *)

UploadFails(w) ==
  /\ Set(w, NoJob) /\ Ends(w, FALSE)
  /\ UNCHANGED <<mode, verifies, store, part, resent>>

\* An upload that the server has taken is verified, if the server asks for it.
ToVerify(w) ==
  IF verifies THEN Set(w, [NoJob EXCEPT !.phase = "verify"]) /\ UNCHANGED reported
  ELSE Set(w, NoJob) /\ Ends(w, TRUE)

\* The PUT request: its body is always the file from its start, also when makeRequest
\* sends it again with credentials.
StartUpload(w) ==
  /\ mode = "upload" /\ At(w, "idle") /\ w \notin reported
  /\ Set(w, [NoJob EXCEPT !.phase = "put"])
  /\ UNCHANGED <<mode, verifies, store, part, remote, reported, resent, faults>>

Put(w) ==
  /\ At(w, "put")
  /\ remote' = store /\ ToVerify(w)
  /\ UNCHANGED <<mode, verifies, store, part, resent, faults>>

\* 422 ends the transfer for good, all others are retried; a lost response may
\* follow an upload that the server has.
PutRefused(w) ==
  /\ At(w, "put") /\ Fault
  /\ remote' \in {remote, store}
  /\ UploadFails(w)

\* The server keeps less than it was sent.
PutDamaged(w) ==
  /\ At(w, "put") /\ Fault
  /\ remote' = SubSeq(store, 1, Size - 1) /\ ToVerify(w)
  /\ UNCHANGED <<mode, verifies, store, part, resent>>

VerifyTries == 3

Verify(w) ==
  /\ At(w, "verify") /\ remote = Right
  /\ Set(w, NoJob) /\ Ends(w, TRUE)
  /\ UNCHANGED <<mode, verifies, store, part, remote, resent, faults>>

\* Mutant: the last attempt's error is forgotten.
VerifyGivenUpAsDone(w) ==
  IF task[w].tries + 1 = VerifyTries THEN Set(w, NoJob) /\ Ends(w, TRUE)
  ELSE Set(w, [task[w] EXCEPT !.tries = @ + 1]) /\ UNCHANGED reported

VerifyAgain(w) ==
  IF task[w].tries + 1 = VerifyTries THEN Set(w, NoJob) /\ Ends(w, FALSE)
  ELSE Set(w, [task[w] EXCEPT !.tries = @ + 1]) /\ UNCHANGED reported

\* The server has not the object, or does not answer.
VerifyRefused(w) ==
  /\ At(w, "verify") /\ remote # Right /\ VerifyAgain(w)
  /\ UNCHANGED <<mode, verifies, store, part, remote, resent, faults>>

VerifyLost(w) ==
  /\ At(w, "verify") /\ Fault /\ VerifyAgain(w)
  /\ UNCHANGED <<mode, verifies, store, part, remote, resent>>

-----------------------------------------------------------------------------
(* tus.io upload *)

\* HEAD: the server's offset; all of it means that there is nothing to do.
HeadOffset(w) ==
  /\ mode = "tus" /\ At(w, "idle") /\ w \notin reported
  /\ IF Len(remote) >= Size THEN Set(w, NoJob) /\ Ends(w, TRUE)
     ELSE Set(w, [NoJob EXCEPT !.phase = "patch", !.from = Len(remote)]) /\ UNCHANGED reported
  /\ UNCHANGED <<mode, verifies, store, part, remote, resent, faults>>

\* The server takes a PATCH at its own offset only, and one at a time.
StartPatch(w) ==
  /\ At(w, "patch")
  /\ IF task[w].from = Len(remote) /\ \A v \in HttpWorkers : ~At(v, "sending")
     THEN /\ Set(w, [task[w] EXCEPT !.phase = "sending", !.seek = TRUE, !.pos = task[w].from])
          /\ UNCHANGED <<mode, verifies, store, part, reported, resent>>
     ELSE UploadFails(w)
  /\ UNCHANGED <<remote, faults>>

\* The start callback seeks to the offset at the first read only.
SendByte(w) == IF task[w].seek THEN task[w].pos + 1 ELSE task[w].pos - task[w].from + 1

SendPatch(w) ==
  /\ At(w, "sending") /\ task[w].pos < Size
  /\ remote' = Append(remote, SendByte(w))
  /\ Set(w, [task[w] EXCEPT !.pos = @ + 1])
  /\ UNCHANGED <<mode, verifies, store, part, reported, resent, faults>>

EndPatch(w) ==
  /\ At(w, "sending") /\ task[w].pos = Size
  /\ ToVerify(w)
  /\ UNCHANGED <<mode, verifies, store, part, remote, resent, faults>>

\* The server keeps less than it was sent: neither the status 204 nor the offset in the answer
\* is looked at.
PatchShortened(w) ==
  /\ At(w, "sending") /\ task[w].pos = Size /\ Fault
  /\ \E n \in task[w].from..(Len(remote) - 1) : remote' = SubSeq(remote, 1, n)
  /\ ToVerify(w)
  /\ UNCHANGED <<mode, verifies, store, part, resent>>

\* The connection breaks, or a status of an error; what was sent may be kept.
PatchFails(w) ==
  /\ task[w].phase \in {"patch", "sending"} /\ Fault /\ UNCHANGED remote
  /\ UploadFails(w)

\* A redirect after the body was begun: the client rewinds the body and sends it to
\* the new place with the same headers.
PatchRedirected(w) ==
  /\ At(w, "sending") /\ task[w].pos = task[w].from /\ task[w].seek /\ Fault
  /\ Set(w, [task[w] EXCEPT !.seek = FALSE])
  /\ resent' = (resent \/ task[w].from > 0)
  /\ UNCHANGED <<mode, verifies, store, part, remote, reported>>

-----------------------------------------------------------------------------
Step(w) ==
  \/ StartDownload(w) \/ GetPartial(w) \/ GetAll(w) \/ ReadBody(w) \/ FinishDownload(w)
  \/ StartUpload(w) \/ Put(w) \/ Verify(w) \/ VerifyRefused(w)
  \/ HeadOffset(w) \/ StartPatch(w) \/ SendPatch(w) \/ EndPatch(w)

Failure(w) ==
  \/ CannotStart(w) \/ GetRefused(w) \/ GetFromStart(w) \/ ReadBadByte(w) \/ ReadFails(w)
  \/ CloseFails(w) \/ RenameFails(w) \/ Dies(w) \/ PutRefused(w) \/ PutDamaged(w)
  \/ VerifyLost(w) \/ PatchShortened(w) \/ PatchFails(w) \/ PatchRedirected(w)

HttpNext == \E w \in HttpWorkers : Step(w) \/ Failure(w)

\* Every worker goes on with its transfer, and is given the object again.
HttpSpec == HttpInit /\ [][HttpNext]_httpVars /\ \A w \in HttpWorkers : WF_httpVars(Step(w))

-----------------------------------------------------------------------------
\* A file of the local store always has the content that its name promises, whatever
\* was resumed, restarted, damaged or downloaded twice at once (basic_download.go).
StoreValid == store \in {NoFile, Right}

\* A transfer that is reported as done is done: the object is in the local store, or on
\* the server.  Two exceptions: a server that keeps less than the upload which it answers (that
\* step is a fault) and names no verify action, and a tus upload that was resumed and redirected
\* (tus_upload.go:120).
SuccessMeansDone ==
  [][\/ reported' \subseteq reported
     \/ mode = "download" /\ store' = Right
     \/ mode # "download" /\ remote' = Right
     \/ mode # "download" /\ ~verifies /\ faults' # faults
     \/ mode = "tus" /\ resent]_httpVars

\* Once the failures end every transfer is done: no partial file that an earlier attempt
\* left, too long or damaged (basic_download.go:79-94), and no beginning that the server
\* kept (tus_upload.go:59-74) makes the attempts fail for ever.
EventuallyTransferred == <>[](reported = HttpWorkers)
=============================================================================
