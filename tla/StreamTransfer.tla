--------------------------- MODULE StreamTransfer ---------------------------
(***************************************************************************)
(* The transfers that keep one conversation open for many objects: the     *)
(* pure SSH protocol (tq/ssh.go over ssh/connection.go and protocol.go)    *)
(* and the custom transfer processes (tq/custom.go), of which the          *)
(* standalone file agent is one (lfshttp/standalone/standalone.go).        *)
(*                                                                         *)
(* What the other side has sent and the client has not read is in `wire`.  *)
(* The answer to a request is put there as the request is sent, whole: a   *)
(* worker waits for it and shares the conversation with nobody but the     *)
(* batch requests, which take turns with worker 0.  The module is about    *)
(* the answers that are left on the wire when a transfer ends early: the   *)
(* requests that follow read them as theirs.                               *)
(***************************************************************************)
EXTENDS Integers, FiniteSets, Sequences, SequencesExt

CONSTANTS
  Oids,
  NumWorkers,
  MaxRequests,    \* bound: transfers and batch requests of a worker
  MaxFaults       \* bound: failures and misbehaviours

None == "none"
Bad  == "bad"

ASSUME StreamTransferAssumption ==
  /\ NumWorkers \in Nat \ {0} /\ MaxRequests \in Nat /\ MaxFaults \in Nat
  /\ None \notin Oids /\ Bad \notin Oids

Workers == 0..(NumWorkers - 1)

VARIABLES
  mode,       \* adapter and direction; "file" is the standalone agent's custom transfer
  verifies,   \* a custom upload has a verify action
  store,      \* content of each object's file in the local store: None, an object or Bad
  remote,     \* the server's content of each object
  count,      \* conversations that were started: connections or processes 0..count-1
  ctx,        \* workers that were started, and TRUE if they got a conversation
  wire,       \* per conversation, packets or messages not read yet
  ended,      \* conversations that were shut down
  job,        \* what each worker does
  requests,   \* requests of each worker so far
  outOfStep,  \* workers that left an answer half read
  reported,   \* objects whose transfer ended well: "yes", "stale" if its worker was out of step
  phase,      \* of the adapter: "begin", "failed", "work", "end", "done", "crashed"
  faults

objects == <<store, remote>>
conv == <<count, ctx, wire, ended>>
vars == <<mode, verifies, objects, conv, job, requests, outOfStep, reported, phase, faults>>

\* A packet or a message: its kind, what it is about and the content it brings.
P(k, v) == [k |-> k, v |-> v, c |-> None]
NoJob == [op |-> "idle", oid |-> None, at |-> "", status |-> "", sizes |-> 0, got |-> None]

Downloads == {"ssh get", "custom get", "file get"}
Ssh == mode \in {"ssh get", "ssh put"}
FileAgent == mode \in {"file get", "file put"}

\* The repository that the standalone agent serves may hold a damaged file.
Init ==
  /\ mode \in Downloads \cup {"ssh put", "custom put", "file put"}
  /\ verifies \in (IF mode = "custom put" THEN BOOLEAN ELSE {FALSE})
  /\ store = [o \in Oids |-> IF mode \in Downloads THEN None ELSE o]
  /\ remote \in {r \in [Oids -> Oids \cup {None, Bad}] :
                   \A o \in Oids : IF FileAgent THEN r[o] \in {None, Bad, o}
                                  ELSE r[o] = IF mode \in Downloads THEN o ELSE None}
  /\ count = IF Ssh THEN 1 ELSE 0
  /\ ctx = <<>> /\ wire = [w \in Workers |-> <<>>] /\ ended = {}
  /\ job = [w \in Workers |-> NoJob] /\ requests = [w \in Workers |-> 0]
  /\ outOfStep = {} /\ reported = [o \in Oids |-> "no"] /\ phase = "begin" /\ faults = 0

Fault == faults < MaxFaults /\ faults' = faults + 1
Idle(w) == job[w].op = "idle"
Waits(w, op, at) == phase = "work" /\ job[w].op \in op /\ job[w].at = at /\ wire[w] # <<>>
Next1(w) == Head(wire[w])
Set(w, j) == job' = [job EXCEPT ![w] = j]
Take(w) == wire' = [wire EXCEPT ![w] = Tail(@)]

\* The request and, if one is needed, its verification have a turn at the connection each.
Unsent(o) == [NoJob EXCEPT !.op = "verify", !.oid = o, !.at = "send"]

\* DoTransfer or the batch request returns, without an error if ok.  An upload that waited
\* for the batch request goes on.
Return(w, ok) ==
  /\ Set(w, IF job[w].op = "batch" /\ job[w].oid # None THEN Unsent(job[w].oid) ELSE NoJob)
  /\ reported' = IF ok THEN [reported EXCEPT ![job[w].oid] = IF w \in outOfStep THEN "stale" ELSE "yes"]
                 ELSE reported
LeavesStep(w) == outOfStep' = outOfStep \cup {w}

-----------------------------------------------------------------------------
(* Starting *)

\* WorkerStarting: SetConnectionCountAtLeast and its negotiation, or a process and the
\* exchange of the init message.
WorkerStarting ==
  LET w == Len(ctx) IN
  /\ phase = "begin" /\ w < NumWorkers
  /\ count' = IF w < count THEN count ELSE w + 1
  /\ ctx' = Append(ctx, TRUE)
  /\ UNCHANGED <<mode, verifies, reported, objects, wire, ended, job, requests, outOfStep, phase, faults>>

\* The error of a connection is not looked at, the worker's context is nil; that of a
\* process aborts it and ends Begin.  An adapter that did not begin is not ended.
WorkerStartFails ==
  LET w == Len(ctx) IN
  /\ phase = "begin" /\ w < NumWorkers /\ w >= count /\ Fault
  /\ IF Ssh THEN ctx' = Append(ctx, FALSE) /\ UNCHANGED phase
     ELSE phase' = "failed" /\ UNCHANGED ctx
  /\ UNCHANGED <<mode, verifies, reported, objects, count, wire, ended, job, requests, outOfStep>>

AllStarted ==
  /\ phase = "begin" /\ Len(ctx) = NumWorkers
  /\ phase' = "work"
  /\ UNCHANGED <<mode, verifies, reported, objects, conv, job, requests, outOfStep, faults>>

\* Lock on a connection that is nil: the process panics.
NilConnection(w) ==
  /\ phase = "work" /\ Ssh /\ ~ctx[w + 1]
  /\ phase' = "crashed"
  /\ UNCHANGED <<mode, verifies, reported, objects, conv, job, requests, outOfStep, faults>>

-----------------------------------------------------------------------------
(* Requests and their answers *)

\* The queue gives an object to one worker at a time, until it is transferred.
Request(w, op, o, answer) ==
  /\ phase = "work" /\ ctx[w + 1] /\ requests[w] < MaxRequests
  /\ o \in Oids => reported[o] = "no" /\ \A v \in Workers \ {w} : job[v].oid # o
  /\ requests' = [requests EXCEPT ![w] = @ + 1]
  /\ wire' = [wire EXCEPT ![w] = @ \o answer]
  /\ Set(w, [NoJob EXCEPT !.op = op, !.oid = o, !.at = "status"])

\* A conversation whose other side is gone answers no more.
Gone(w) == wire[w] # <<>> /\ Last(wire[w]).k = "eof"

Text == P("text", None)
Data(c) == [P("data", None) EXCEPT !.c = c]
Status(s) == P("status", s)
Delim == P("delim", None)
Flush == P("flush", None)
Refusal == <<Status("bad"), Delim, Text, Flush>>

\* What a server that fails may send: garbage, a status alone, the end of the connection.
Failures == {Refusal, <<Text, Flush>>, <<P("eof", None)>>}
GetAnswer(c) == <<Status("ok"), P("size", None), Delim, Data(c), Flush>>
GetFailures(o) ==
  Failures \cup {GetAnswer(Bad), <<Status("ok"), Flush>>, <<Status("ok"), Delim, Data(o), Flush>>,
                 <<Status("ok"), P("size", None), P("size", None), Delim, Data(o), Flush>>}

StartGet(w, o) ==
  /\ mode = "ssh get" /\ Idle(w) /\ ~Gone(w)
  /\ \/ Request(w, "get", o, GetAnswer(remote[o])) /\ UNCHANGED faults
     \/ \E a \in GetFailures(o) : Request(w, "get", o, a) /\ Fault
  /\ UNCHANGED <<mode, verifies, reported, objects, count, ctx, ended, outOfStep, phase>>

\* SendMessageWithData: an error of reading the file ends the data and is forgotten.
StartPut(w, o) ==
  /\ mode = "ssh put" /\ Idle(w) /\ ~Gone(w)
  /\ \/ /\ Request(w, "put", o, <<Status("ok"), Flush>>)
        /\ remote' = [remote EXCEPT ![o] = o] /\ UNCHANGED faults
     \/ /\ Request(w, "put", o, <<Status("ok"), Flush>>)
        /\ remote' = [remote EXCEPT ![o] = Bad] /\ Fault
     \/ /\ \E a \in Failures : Request(w, "put", o, a)
        /\ Fault /\ UNCHANGED remote
  /\ UNCHANGED <<mode, verifies, reported, store, count, ctx, ended, outOfStep, phase>>

\* batchInternal: the queue's batch request over connection 0, which it may get between an
\* upload of worker 0 and its verification.
StartBatch(w) ==
  /\ Ssh /\ w = 0 /\ (Idle(w) \/ job[w].at = "send") /\ ~Gone(w)
  /\ \/ Request(w, "batch", job[w].oid, <<Status("ok"), Delim, Text, Flush>>) /\ UNCHANGED faults
     \/ \E a \in Failures : Request(w, "batch", job[w].oid, a) /\ Fault
  /\ UNCHANGED <<mode, verifies, reported, objects, count, ctx, ended, outOfStep, phase>>

\* Mutant: the status of put-object is enough.
AfterPutUnverified(w) == Return(w, TRUE)

\* The put was accepted: doUpload gives the connection back, verifyUpload asks for it again.
AfterPut(w) == Set(w, Unsent(job[w].oid)) /\ UNCHANGED reported

VerifyAnswer(o) == IF remote[o] = o THEN <<Status("ok"), Flush>> ELSE Refusal

SendVerify(w) ==
  /\ phase = "work" /\ job[w].at = "send"
  /\ Set(w, [job[w] EXCEPT !.at = "status"])
  /\ \/ /\ wire' = [wire EXCEPT ![w] = @ \o (IF Gone(w) THEN <<>> ELSE VerifyAnswer(job[w].oid))]
        /\ UNCHANGED faults
     \/ ~Gone(w) /\ Fault /\ \E a \in Failures : wire' = [wire EXCEPT ![w] = @ \o a]
  /\ UNCHANGED <<mode, verifies, reported, objects, count, ctx, ended, requests, outOfStep, phase>>

-----------------------------------------------------------------------------
(* ReadStatusWithData and ReadStatusWithLines, packet by packet *)

SshOps == {"get", "put", "verify", "batch"}

ReadStatus(w) ==
  /\ Waits(w, SshOps, "status") /\ Next1(w).k = "status"
  /\ Take(w) /\ Set(w, [job[w] EXCEPT !.at = "args", !.status = Next1(w).v])
  /\ UNCHANGED <<mode, verifies, reported, objects, count, ctx, ended, requests, outOfStep, phase, faults>>

\* A packet that is no status, a flush packet before the delimiter of data, or the end
\* of the connection, which stays.
ProtocolError(w) ==
  /\ \/ Waits(w, SshOps, "status") /\ Next1(w).k # "status"
     \/ Waits(w, {"get"}, "args") /\ Next1(w).k = "flush"
     \/ \E at \in {"args", "lines", "drain", "copy"} :
          Waits(w, SshOps, at) /\ Next1(w).k = "eof"
  /\ IF Next1(w).k = "eof" THEN UNCHANGED wire ELSE Take(w)
  /\ Return(w, FALSE) /\ LeavesStep(w)
  /\ UNCHANGED <<mode, verifies, objects, count, ctx, ended, requests, phase, faults>>

ReadArg(w) ==
  /\ Waits(w, SshOps, "args") /\ Next1(w).k \notin {"delim", "flush", "eof"}
  /\ Take(w)
  /\ Set(w, [job[w] EXCEPT !.sizes = IF Next1(w).k = "size" THEN @ + 1 ELSE @])
  /\ UNCHANGED <<mode, verifies, reported, objects, count, ctx, ended, requests, outOfStep, phase, faults>>

\* doDownload at the data: drain them after a refusal, else copy them.
AfterDelim(j) == [j EXCEPT !.at = IF j.status # "ok" THEN "drain" ELSE "copy"]

ReadDelim(w) ==
  LET j == job[w] IN
  /\ Waits(w, SshOps, "args") /\ Next1(w).k = "delim" /\ Take(w)
  /\ IF j.op # "get" THEN Set(w, [j EXCEPT !.at = "lines"]) /\ UNCHANGED <<reported, outOfStep>>
     ELSE IF j.status = "ok" /\ j.sizes # 1 THEN Return(w, FALSE) /\ LeavesStep(w)
     ELSE Set(w, AfterDelim(j)) /\ UNCHANGED <<reported, outOfStep>>
  /\ UNCHANGED <<mode, verifies, objects, count, ctx, ended, requests, phase, faults>>

\* Text lines, the text of a refusal, or data into the temporary file and the hash.
ReadData(w) ==
  LET j == job[w] IN
  /\ \E at \in {"lines", "drain", "copy"} : Waits(w, SshOps, at)
  /\ Next1(w).k \notin {"flush", "eof"}
  /\ Take(w)
  /\ Set(w, [j EXCEPT !.got = IF j.at # "copy" THEN @
                              ELSE IF @ = None /\ Next1(w).k = "data" THEN Next1(w).c ELSE Bad])
  /\ UNCHANGED <<mode, verifies, reported, objects, count, ctx, ended, requests, outOfStep, phase, faults>>

\* The temporary file cannot be written.
CopyFails(w) ==
  /\ Waits(w, {"get"}, "copy") /\ Fault
  /\ Return(w, FALSE) /\ LeavesStep(w)
  /\ UNCHANGED <<mode, verifies, objects, conv, requests, phase>>

HashMatches(j) == j.got = j.oid

\* The end of the data of get-object: rename the file if the hash is right.
EndGet(w) ==
  /\ \E at \in {"copy", "drain"} : Waits(w, {"get"}, at)
  /\ Next1(w).k = "flush" /\ Take(w)
  /\ LET good == job[w].at = "copy" /\ HashMatches(job[w]) IN
     /\ Return(w, good)
     /\ store' = IF good THEN [store EXCEPT ![job[w].oid] = job[w].got] ELSE store
  /\ UNCHANGED <<mode, verifies, remote, count, ctx, ended, requests, outOfStep, phase, faults>>

\* Mutant: an answer without lines is not expected.
EndLinesAfterDelim(w) ==
  /\ Waits(w, {"put", "verify", "batch"}, "lines") /\ Next1(w).k = "flush"
  /\ Take(w) /\ Return(w, job[w].op = "verify" /\ job[w].status = "ok")
  /\ UNCHANGED <<mode, verifies, objects, count, ctx, ended, requests, outOfStep, phase, faults>>

\* The end of an answer of lines: put-object goes on with verify-object.
EndLines(w) ==
  /\ \E at \in {"args", "lines"} : Waits(w, {"put", "verify", "batch"}, at)
  /\ Next1(w).k = "flush"
  /\ Take(w)
  /\ IF job[w].op = "put" /\ job[w].status = "ok" THEN AfterPut(w)
     ELSE Return(w, job[w].op = "verify" /\ job[w].status = "ok")
  /\ UNCHANGED <<mode, verifies, objects, count, ctx, ended, requests, outOfStep, phase, faults>>

-----------------------------------------------------------------------------
(* Custom transfer processes *)

Complete(o, c) == [P("complete", o) EXCEPT !.c = c]

\* The process's messages: progress and complete.  A process that fails sends an error, a wrong object, no event, or exits.
CustomFailures(o) ==
  {<<P("error", o)>>, <<P("junk", o), Complete(o, o)>>, <<P("progress", o), P("eof", None)>>}
   \cup {<<P("progress", x), Complete(o, o)>> : x \in Oids \ {o}}

StartCustom(w, o) ==
  /\ ~Ssh /\ ~FileAgent /\ Idle(w) /\ ~Gone(w)
  /\ \/ /\ \E a \in {<<P("progress", o), Complete(o, o)>>, <<Complete(o, o)>>} :
             Request(w, "custom", o, a)
        /\ remote' = [remote EXCEPT ![o] = o] /\ UNCHANGED faults
     \/ /\ Request(w, "custom", o, <<Complete(o, Bad)>>) /\ Fault
        /\ remote' = IF mode = "custom put" THEN [remote EXCEPT ![o] = Bad] ELSE remote
     \/ /\ \E a \in CustomFailures(o) : Request(w, "custom", o, a)
        /\ Fault /\ UNCHANGED remote
  /\ UNCHANGED <<mode, verifies, reported, store, count, ctx, ended, outOfStep, phase>>

\* The standalone agent: an object is there if a file of its size is.  The file is linked
\* or copied, whole or not at all.
StartUploadToFile(w, o) ==
  /\ mode = "file put" /\ Idle(w)
  /\ \/ /\ Request(w, "custom", o, <<Complete(o, None)>>) /\ UNCHANGED faults
        /\ remote' = IF remote[o] # None THEN remote ELSE [remote EXCEPT ![o] = o]
     \/ Request(w, "custom", o, <<P("error", o)>>) /\ Fault /\ UNCHANGED remote
  /\ UNCHANGED <<mode, verifies, reported, store, count, ctx, ended, outOfStep, phase>>

StartDownloadFromFile(w, o) ==
  /\ mode = "file get" /\ Idle(w)
  /\ \/ /\ Request(w, "custom", o, <<IF remote[o] = None THEN P("error", o) ELSE Complete(o, remote[o])>>)
        /\ UNCHANGED faults
     \/ Request(w, "custom", o, <<P("error", o)>>) /\ Fault
  /\ UNCHANGED <<mode, verifies, reported, objects, count, ctx, ended, outOfStep, phase>>

ReadProgress(w) ==
  /\ Waits(w, {"custom"}, "status") /\ Next1(w) = P("progress", job[w].oid) /\ Take(w)
  /\ UNCHANGED <<mode, verifies, reported, objects, count, ctx, ended, job, requests, outOfStep, phase, faults>>

\* complete for this object: check the hash of the file and move it, or verify.
ReadComplete(w) ==
  LET o == job[w].oid
      j == [job[w] EXCEPT !.got = Next1(w).c] IN
  /\ Waits(w, {"custom"}, "status") /\ Next1(w).k = "complete" /\ Next1(w).v = o
  /\ Take(w)
  /\ IF mode \in Downloads
     THEN /\ Return(w, HashMatches(j))
          /\ store' = IF HashMatches(j) THEN [store EXCEPT ![o] = j.got] ELSE store
     ELSE Return(w, ~verifies \/ remote[o] = o) /\ UNCHANGED store
  /\ UNCHANGED <<mode, verifies, remote, count, ctx, ended, requests, outOfStep, phase, faults>>

\* complete with an error is the end of the process's answer.
ReadError(w) ==
  /\ Waits(w, {"custom"}, "status") /\ Next1(w) = P("error", job[w].oid)
  /\ Take(w) /\ Return(w, FALSE)
  /\ UNCHANGED <<mode, verifies, objects, count, ctx, ended, requests, outOfStep, phase, faults>>

\* Another object, an event that is not known or the end of the output: the transfer
\* ends before its own complete message was read.
ReadInvalid(w) ==
  /\ Waits(w, {"custom"}, "status")
  /\ Next1(w).k \in {"junk", "eof"} \/ Next1(w).v # job[w].oid
  /\ IF Next1(w).k = "eof" THEN UNCHANGED wire ELSE Take(w)
  /\ Return(w, FALSE) /\ LeavesStep(w)
  /\ UNCHANGED <<mode, verifies, objects, count, ctx, ended, requests, phase, faults>>

-----------------------------------------------------------------------------
(* Ending *)

WorkersEnd ==
  /\ phase = "work" /\ \A w \in Workers : Idle(w)
  /\ phase' = "end"
  /\ UNCHANGED <<mode, verifies, reported, objects, conv, job, requests, outOfStep, faults>>

\* WorkerEnding of a process: terminate, or kill it when that fails or takes 30 seconds.
TerminateProcess(w) ==
  /\ phase = "end" /\ ~Ssh /\ w < count /\ w \notin ended
  /\ ended' = ended \cup {w}
  /\ UNCHANGED <<mode, verifies, reported, objects, count, ctx, wire, job, requests, outOfStep, phase, faults>>

\* Mutant: the exit status of ssh is taken for the answer to quit.
EndsWellNever(answer) == FALSE

\* ReadStatus: any status and nothing else.
EndsWell(answer) == Len(answer) > 1 /\ answer[1].k = "status" /\ answer[2] = Flush

\* Shutdown: End of the connections in their order, until one answers quit badly.
EndConnection ==
  LET w == Cardinality(ended) IN
  /\ phase = "end" /\ Ssh /\ w < count
  /\ ended' = ended \cup {w}
  /\ \/ /\ wire' = [wire EXCEPT ![w] = @ \o (IF Gone(w) THEN <<>> ELSE <<Status("ok"), Flush>>)]
        /\ UNCHANGED faults
     \/ ~Gone(w) /\ Fault /\ \E a \in Failures : wire' = [wire EXCEPT ![w] = @ \o a]
  /\ phase' = IF EndsWell(wire'[w]) THEN phase ELSE "done"
  /\ UNCHANGED <<mode, verifies, reported, objects, count, ctx, job, requests, outOfStep>>

AllEnded ==
  /\ phase = "end" /\ ended = 0..(count - 1)
  /\ phase' = "done"
  /\ UNCHANGED <<mode, verifies, reported, objects, conv, job, requests, outOfStep, faults>>

-----------------------------------------------------------------------------
Read(w) ==
  \/ ReadStatus(w) \/ ProtocolError(w) \/ ReadArg(w) \/ ReadDelim(w) \/ ReadData(w)
  \/ EndGet(w) \/ EndLines(w) \/ SendVerify(w)
  \/ ReadProgress(w) \/ ReadComplete(w) \/ ReadError(w) \/ ReadInvalid(w)

Next ==
  \/ WorkerStarting \/ WorkerStartFails \/ AllStarted
  \/ \E w \in Workers : NilConnection(w)
  \/ \E w \in Workers, o \in Oids : StartGet(w, o)
  \/ \E w \in Workers, o \in Oids : StartPut(w, o)
  \/ \E w \in Workers : StartBatch(w)
  \/ \E w \in Workers, o \in Oids : StartCustom(w, o)
  \/ \E w \in Workers, o \in Oids : StartUploadToFile(w, o)
  \/ \E w \in Workers, o \in Oids : StartDownloadFromFile(w, o)
  \/ \E w \in Workers : Read(w)
  \/ \E w \in Workers : CopyFails(w)
  \/ WorkersEnd \/ (\E w \in Workers : TerminateProcess(w)) \/ EndConnection \/ AllEnded

\* A worker reads on while there is something to read, and sends what it has to.
Spec == Init /\ [][Next]_vars /\ \A w \in Workers : WF_vars(Read(w))

-----------------------------------------------------------------------------
\* What is reported as transferred is there, and no file of the local store has another
\* object's content, even when a worker reads the answers to earlier requests.  An upload
\* is only as good as its verification, and a worker that is out of step may take an
\* older answer for it (ssh.go:283-302, custom.go:302-323).
TransferredIsThere ==
  \A o \in Oids :
    /\ store[o] \in {None, o}
    /\ mode \in Downloads /\ reported[o] # "no" => store[o] = o
    /\ mode = "ssh put" /\ reported[o] = "yes" => remote[o] = o
    /\ mode = "file put" /\ reported[o] # "no" => remote[o] # None
    /\ mode = "custom put" /\ verifies /\ reported[o] # "no" => remote[o] = o

\* Shutdown ends every connection and process that was started.  The exceptions are the
\* code's: the connections after one that is out of step, or whose server fails at quit, are
\* left running (connection.go:104-109), and so are the processes of an adapter whose Begin
\* failed, which is never "done" (adapterbase.go:92-96).
ShutdownComplete ==
  phase = "done" =>
    \/ ended = 0..(count - 1)
    \/ Ssh /\ \E w \in 0..(count - 1) : ended = 0..w /\ (w \in outOfStep \/ wire[w] \in Failures)

\* No worker waits for a packet that an earlier transfer has read already: every
\* transfer ends, in step or out of step (protocol.go:179-252).
TransferReturns == \A w \in Workers : ~Idle(w) ~> (Idle(w) \/ phase = "crashed")
=============================================================================
