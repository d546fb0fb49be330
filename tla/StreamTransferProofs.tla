------------------------ MODULE StreamTransferProofs ------------------------
(***************************************************************************)
(* Proofs about StreamTransfer, for any objects, workers, requests and     *)
(* failures.  StreamInv is the inductive invariant and says what can be    *)
(* left unread: nothing but the rest of the answer to the running request, *)
(* unless the worker has left an answer half read before.                  *)
(***************************************************************************)
EXTENDS StreamTransfer, FiniteSetTheorems, SequenceTheorems, TLAPS

Contents == Oids \cup {None, Bad}
Values == Oids \cup {None, "ok", "bad"}
Kinds == {"status", "size", "text", "data", "delim", "flush", "eof",
          "progress", "complete", "error", "junk"}
Packet == [k : Kinds, v : Values, c : Contents]
StreamJob ==
  [op : {"idle", "get", "put", "verify", "batch", "custom"}, oid : Oids \cup {None},
   at : {"", "send", "status", "args", "lines", "drain", "copy"}, status : Values \cup {""},
   sizes : Nat, got : Contents]

StreamTypes ==
  /\ mode \in Downloads \cup {"ssh put", "custom put", "file put"} /\ verifies \in BOOLEAN
  /\ store \in [Oids -> Contents] /\ remote \in [Oids -> Contents]
  /\ count \in 0..NumWorkers /\ ctx \in Seq(BOOLEAN) /\ ended \subseteq Workers
  /\ wire \in [Workers -> Seq(Packet)] /\ job \in [Workers -> StreamJob]
  /\ outOfStep \subseteq Workers /\ reported \in [Oids -> {"no", "yes", "stale"}]
  /\ phase \in {"begin", "failed", "work", "end", "done", "crashed"}

\* What a worker does is what the adapter in use does, to an object.
OfAdapter(j, m) ==
  /\ j.op = "get" => m = "ssh get"
  /\ j.op \in {"put", "verify"} => m = "ssh put"
  /\ j.op = "batch" => m \in {"ssh get", "ssh put"} /\ (j.oid # None => m = "ssh put")
  /\ j.op = "idle" => j.oid = None
  /\ j.at = "send" => j.op = "verify"
  /\ j.op = "custom" => m \notin {"ssh get", "ssh put"}
  /\ j.op \notin {"idle", "batch"} => j.oid \in Oids

\* The rest of one answer: it ends with its only flush packet.
Whole(s) ==
  s # <<>> /\ s[Len(s)].k = "flush" /\ \A i \in 1..(Len(s) - 1) : s[i].k # "flush"
EndOfOutput(s) == s # <<>> /\ s[1].k = "eof"

\* A connection that is in step has nothing on it but the rest of the answer to the request
\* of its worker, and nothing between an upload and its verification; the answer to verify-object tells what the server has.
InStep(w) ==
  Ssh /\ w \notin outOfStep /\ w \notin ended =>
    /\ Idle(w) \/ job[w].at = "send" => wire[w] = <<>>
    /\ ~Idle(w) /\ job[w].at # "send" =>
         Whole(wire[w]) \/ (EndOfOutput(wire[w]) /\ job[w].at = "status")
    /\ job[w].op = "verify" =>
         IF job[w].at = "status" THEN wire[w] \in Failures \cup {VerifyAnswer(job[w].oid)}
         ELSE job[w].status = "ok" => remote[job[w].oid] = job[w].oid

\* The standalone agent answers each upload with one message, and complete is true.
AgentInStep(w) ==
  mode = "file put" =>
    /\ Idle(w) => wire[w] = <<>>
    /\ ~Idle(w) => \/ wire[w] = <<Complete(job[w].oid, None)>> /\ remote[job[w].oid] # None
                   \/ wire[w] = <<P("error", job[w].oid)>>

\* What a worker does after a request: the upload that waited for a batch request goes on.
After(j) == IF j.op = "batch" /\ j.oid # None THEN Unsent(j.oid) ELSE NoJob

WorkerFits(w) == OfAdapter(job[w], mode) /\ InStep(w) /\ AgentInStep(w)

\* Outside the working phase nobody has a request; connections end in their order.
Ending ==
  /\ phase \in {"begin", "end", "done"} => \A w \in Workers : Idle(w)
  /\ phase \in {"begin", "work"} => ended = {}
  /\ Ssh /\ phase = "end" => \E n \in 0..count : ended = 0..(n - 1)

StreamInv ==
  /\ StreamTypes /\ (\A w \in Workers : WorkerFits(w)) /\ Ending
  /\ TransferredIsThere /\ ShutdownComplete

-----------------------------------------------------------------------------
(* Packets and answers *)

\* The kinds of packets.
LEMMA PacketType ==
  ASSUME NEW k \in Kinds, NEW v \in Values, NEW c \in Contents
  PROVE  /\ P(k, v) \in Packet /\ [P(k, v) EXCEPT !.c = c] \in Packet
         /\ P(k, v).k = k /\ P(k, v).v = v /\ P(k, v).c = None
         /\ [P(k, v) EXCEPT !.c = c].k = k /\ [P(k, v) EXCEPT !.c = c].v = v
         /\ [P(k, v) EXCEPT !.c = c].c = c
  BY DEF P, Packet, Values, Contents, None

\* The packets of the ssh protocol.
LEMMA SshPackets ==
  ASSUME NEW c \in Contents, NEW s \in {"ok", "bad"}
  PROVE  /\ Text \in Packet /\ Text.k = "text" /\ Delim \in Packet /\ Delim.k = "delim"
         /\ Flush \in Packet /\ Flush.k = "flush" /\ Data(c) \in Packet /\ Data(c).k = "data"
         /\ Status(s) \in Packet /\ Status(s).k = "status" /\ Status(s).v = s
         /\ P("eof", None) \in Packet /\ P("eof", None).k = "eof"
         /\ P("size", None) \in Packet /\ P("size", None).k = "size"
<1>1. None \in Values /\ s \in Values /\ None \in Contents
  BY DEF Values, Contents
<1>2. {"text", "delim", "flush", "data", "status", "eof", "size"} \subseteq Kinds
  BY DEF Kinds
<1>3. \A k \in {"text", "delim", "flush", "eof", "size"} : P(k, None) \in Packet /\ P(k, None).k = k
  BY <1>1, <1>2 DEF P, Packet
<1>4. Data(c) \in Packet /\ Data(c).k = "data"
  BY <1>1, <1>2, PacketType DEF Data
<1>5. Status(s) \in Packet /\ Status(s).k = "status" /\ Status(s).v = s
  BY <1>1, <1>2, PacketType DEF Status
<1> QED
  BY <1>3, <1>4, <1>5 DEF Text, Delim, Flush

\* Reading a packet that is no flush packet leaves the rest of the answer; the flush packet is
\* the last one.
LEMMA WholeTail ==
  ASSUME NEW s \in Seq(Packet), Whole(s)
  PROVE  /\ Tail(s) \in Seq(Packet)
         /\ Head(s).k # "flush" => Whole(Tail(s))
         /\ Head(s).k = "flush" => Tail(s) = <<>> /\ s[Len(s)].k = "flush" /\ Len(s) = 1
<1>1. Len(s) \in Nat \ {0} /\ Head(s) = s[1] /\ Len(Tail(s)) = Len(s) - 1 /\ Tail(s) \in Seq(Packet)
  BY DEF Whole
<1>2. \A i \in 1..Len(Tail(s)) : Tail(s)[i] = s[i + 1]
  BY <1>1
<1>3. CASE Head(s).k = "flush"
  BY <1>1, <1>3 DEF Whole
<1>4. CASE Head(s).k # "flush"
  <2>1. Len(s) # 1
    BY <1>1, <1>4 DEF Whole
  <2>2. Tail(s)[Len(Tail(s))].k = "flush" /\ \A i \in 1..(Len(Tail(s)) - 1) : Tail(s)[i].k # "flush"
    BY <1>1, <1>2, <2>1 DEF Whole
  <2>3. Len(Tail(s)) # 0 /\ Tail(s) # <<>>
    BY <1>1, <2>1
  <2> QED
    BY <1>1, <1>4, <2>2, <2>3 DEF Whole
<1> QED
  BY <1>3, <1>4

\* Whatever the server answers is the whole of an answer, or the end of the connection.
LEMMA AnswersAreWhole ==
  ASSUME NEW o \in Contents, NEW c \in Contents,
         NEW a \in GetFailures(o) \cup {GetAnswer(c), <<Status("ok"), Flush>>,
                                          <<Status("ok"), Delim, Text, Flush>>}
  PROVE  a \in Seq(Packet) /\ (Whole(a) \/ EndOfOutput(a))
<1>1. o \in Contents /\ Bad \in Contents
  BY DEF Contents
<1>2. PICK d \in Contents :
        a \in {Refusal, <<Text, Flush>>, <<P("eof", None)>>, GetAnswer(d),
               <<Status("ok"), Flush>>, <<Status("ok"), Delim, Data(d), Flush>>,
               <<Status("ok"), P("size", None), P("size", None), Delim, Data(d), Flush>>,
               <<Status("ok"), Delim, Text, Flush>>}
  BY <1>1 DEF GetFailures, Failures
<1>0. /\ Status("ok") \in Packet /\ Status("ok").k = "status"
      /\ Delim \in Packet /\ Delim.k = "delim" /\ Text \in Packet /\ Text.k = "text"
      /\ Flush \in Packet /\ Flush.k = "flush" /\ Data(d) \in Packet /\ Data(d).k = "data"
      /\ P("size", None) \in Packet /\ P("size", None).k = "size"
  BY SshPackets
<1>3. CASE a = <<P("eof", None)>>
  <2>1. P("eof", None) \in Packet /\ P("eof", None).k = "eof"
    BY SshPackets
  <2> QED
    BY <1>3, <2>1 DEF EndOfOutput
<1>4. CASE a = Refusal
  <2>1. /\ Status("bad") \in Packet /\ Status("bad").k = "status"
        /\ Delim \in Packet /\ Delim.k = "delim" /\ Text \in Packet /\ Text.k = "text"
        /\ Flush \in Packet /\ Flush.k = "flush"
    BY SshPackets
  <2> QED
    BY <1>4, <2>1 DEF Whole, Refusal
<1>5. CASE a = GetAnswer(d)
  BY <1>5, <1>0 DEF Whole, GetAnswer
<1>6. CASE a = <<Text, Flush>>
  BY <1>6, <1>0 DEF Whole
<1>7. CASE a = <<Status("ok"), Flush>>
  BY <1>7, <1>0 DEF Whole
<1>9. CASE a = <<Status("ok"), Delim, Data(d), Flush>>
  BY <1>9, <1>0 DEF Whole
<1>10. CASE a = <<Status("ok"), Delim, Text, Flush>>
  BY <1>10, <1>0 DEF Whole
<1>8. CASE a = <<Status("ok"), P("size", None), P("size", None), Delim, Data(d), Flush>>
  BY <1>8, <1>0 DEF Whole
<1> QED
  BY <1>2, <1>3, <1>4, <1>5, <1>6, <1>7, <1>8, <1>9, <1>10

-----------------------------------------------------------------------------
(* Steps of one worker *)

\* A worker's step reaches the other workers only by what the server has, and of an object
\* that none of them works on.
LEMMA BystanderFits ==
  ASSUME StreamTypes, StreamTypes', mode' = mode,
         NEW v \in Workers, WorkerFits(v), job'[v] = job[v], wire'[v] = wire[v],
         v \in outOfStep' <=> v \in outOfStep, v \in ended => v \in ended',
         \A o \in Oids : remote'[o] = remote[o] \/ job[v].oid # o
  PROVE  WorkerFits(v)'
<1>1. OfAdapter(job[v], mode)'
  BY DEF WorkerFits, OfAdapter
<1>2. InStep(v)'
  <2>1. job[v].op = "verify" => remote'[job[v].oid] = remote[job[v].oid]
    BY DEF WorkerFits, OfAdapter
  <2> QED
    BY <2>1
    DEF WorkerFits, InStep, Ssh, Idle, VerifyAnswer, Failures, Refusal, Status, Flush, Delim, Text, P
<1>3. AgentInStep(v)'
  <2>1. mode = "file put" /\ ~Idle(v) => job[v].oid \in Oids /\ remote'[job[v].oid] = remote[job[v].oid]
    BY DEF WorkerFits, OfAdapter, Idle, StreamTypes, StreamJob
  <2> QED
    BY <2>1 DEF WorkerFits, AgentInStep, Idle, Complete, P
<1> QED
  BY <1>1, <1>2, <1>3 DEF WorkerFits

\* What is to be shown of a step that a worker takes while the adapter works.
LEMMA WorkerStep ==
  ASSUME StreamInv, NEW w \in Workers, phase = "work", StreamTypes',
         mode' = mode, count' = count, ended' = ended, phase' = phase,
         \A v \in Workers \ {w} : /\ job'[v] = job[v] /\ wire'[v] = wire[v]
                                  /\ v \in outOfStep' <=> v \in outOfStep,
         \A o \in Oids : remote'[o] = remote[o] \/ \A v \in Workers \ {w} : job[v].oid # o,
         WorkerFits(w)', TransferredIsThere'
  PROVE  StreamInv'
<1>1. ASSUME NEW v \in Workers PROVE WorkerFits(v)'
  <2>1. CASE v = w
    BY <2>1
  <2>2. CASE v # w
    BY <2>2, BystanderFits DEF StreamInv
  <2> QED
    BY <2>1, <2>2
<1>2. Ending' /\ ShutdownComplete'
  BY DEF StreamInv, Ending, ShutdownComplete
<1>3. (\A v \in Workers : WorkerFits(v))'
  BY <1>1 DEF Workers
<1> QED
  BY <1>2, <1>3 DEF StreamInv

\* The promise is kept by a step that reports nothing, and changes on the server only what is
\* not reported.
LEMMA NothingReported ==
  ASSUME TransferredIsThere, mode' = mode, verifies' = verifies, store' = store,
         reported' = reported, \A o \in Oids : remote'[o] = remote[o] \/ reported[o] = "no"
  PROVE  TransferredIsThere'
  BY DEF TransferredIsThere, Downloads

-----------------------------------------------------------------------------
(* Requests *)

\* A worker that has a new request is the only one at its object.
LEMMA RequestEffect ==
  ASSUME StreamInv, NEW w \in Workers, NEW op \in {"get", "put", "batch", "custom"},
         NEW o \in Oids \cup {None}, NEW answer \in Seq(Packet), Request(w, op, o, answer)
  PROVE  /\ phase = "work"
         /\ job' \in [Workers -> StreamJob] /\ wire' \in [Workers -> Seq(Packet)]
         /\ job'[w].op = op /\ job'[w].oid = o /\ job'[w].at = "status"
         /\ wire'[w] = wire[w] \o answer
         /\ \A v \in Workers \ {w} : job'[v] = job[v] /\ wire'[v] = wire[v]
         /\ o \in Oids => reported[o] = "no" /\ \A v \in Workers \ {w} : job[v].oid # o
<1>1. [NoJob EXCEPT !.op = op, !.oid = o, !.at = "status"] \in StreamJob
  BY DEF NoJob, StreamJob, Contents, Values
<1>2. job' = [job EXCEPT ![w] = [NoJob EXCEPT !.op = op, !.oid = o, !.at = "status"]]
  BY DEF Request, Set
<1>3. wire' = [wire EXCEPT ![w] = wire[w] \o answer] /\ wire[w] \in Seq(Packet)
  BY DEF Request, StreamInv, StreamTypes
<1>4. wire[w] \o answer \in Seq(Packet)
  BY <1>3
<1>5. job'[w] = [NoJob EXCEPT !.op = op, !.oid = o, !.at = "status"]
  BY <1>2 DEF StreamInv, StreamTypes
<1>6. job'[w].op = op /\ job'[w].oid = o /\ job'[w].at = "status"
  BY <1>5 DEF NoJob
<1>7. job' \in [Workers -> StreamJob] /\ wire' \in [Workers -> Seq(Packet)]
  BY <1>1, <1>2, <1>3, <1>4 DEF StreamInv, StreamTypes
<1>8. \A v \in Workers \ {w} : job'[v] = job[v] /\ wire'[v] = wire[v]
  BY <1>2, <1>3 DEF StreamInv, StreamTypes
<1>9. wire'[w] = wire[w] \o answer
  BY <1>3 DEF StreamInv, StreamTypes
<1>10. phase = "work" /\ (o \in Oids => reported[o] = "no" /\ \A v \in Workers \ {w} : job[v].oid # o)
  BY DEF Request
<1> QED
  BY <1>6, <1>7, <1>8, <1>9, <1>10

\* A request over ssh by a worker that is idle, or between an upload and its verification.
LEMMA SshRequest ==
  ASSUME StreamInv, NEW w \in Workers, Ssh, Idle(w) \/ job[w].at = "send",
         NEW op \in {"get", "put", "batch"}, NEW o \in Oids \cup {None},
         NEW answer \in Seq(Packet), Whole(answer) \/ EndOfOutput(answer),
         Request(w, op, o, answer),
         op = "get" => o \in Oids /\ mode = "ssh get", op = "put" => o \in Oids /\ mode = "ssh put",
         o # None => op # "batch" \/ mode = "ssh put",
         remote' \in [Oids -> Contents], \A x \in Oids : remote'[x] = remote[x] \/ x = o,
         UNCHANGED <<mode, verifies, reported, store, count, ctx, ended, outOfStep, phase>>
  PROVE  StreamInv'
<1>1. /\ phase = "work"
      /\ job' \in [Workers -> StreamJob] /\ wire' \in [Workers -> Seq(Packet)]
      /\ job'[w].op = op /\ job'[w].oid = o /\ job'[w].at = "status"
      /\ wire'[w] = wire[w] \o answer
      /\ \A v \in Workers \ {w} : job'[v] = job[v] /\ wire'[v] = wire[v]
      /\ o \in Oids => reported[o] = "no" /\ \A v \in Workers \ {w} : job[v].oid # o
  <2>1. op \in {"get", "put", "batch", "custom"}
    OBVIOUS
  <2> QED
    BY <2>1, RequestEffect, Zenon
<1>2. StreamTypes'
  BY <1>1 DEF StreamInv, StreamTypes
<1>3. InStep(w)'
  <2>1. SUFFICES ASSUME w \notin outOfStep PROVE InStep(w)'
    BY DEF InStep
  <2>2. wire[w] = <<>>
    BY <1>1, <2>1 DEF StreamInv, WorkerFits, InStep, Ending
  <2>3. wire'[w] = answer
    BY <1>1, <2>2, ConcatEmptySeq
  <2> QED
    BY <1>1, <2>3 DEF InStep, Idle
<1>4. OfAdapter(job[w], mode)' /\ AgentInStep(w)'
  BY <1>1 DEF OfAdapter, AgentInStep, Ssh
<1>5. TransferredIsThere'
  BY <1>1, NothingReported DEF StreamInv
<1> QED
  BY <1>1, <1>2, <1>3, <1>4, <1>5, WorkerStep DEF WorkerFits

\* get-object, put-object and batch.
LEMMA SshStarts ==
  ASSUME StreamInv, NEW w \in Workers,
         StartBatch(w) \/ \E o \in Oids : StartGet(w, o) \/ StartPut(w, o)
  PROVE  StreamInv'
<1>0. None \in Contents /\ Bad \in Contents /\ Oids \subseteq Contents /\ remote \in [Oids -> Contents]
  BY DEF Contents, StreamInv, StreamTypes
<1>1. CASE StartBatch(w)
  <2>1. PICK a \in Failures \cup {<<Status("ok"), Delim, Text, Flush>>} :
          Request(w, "batch", job[w].oid, a)
    BY <1>1 DEF StartBatch
  <2>3. job[w].oid \in Oids \cup {None} /\ (job[w].oid # None => mode = "ssh put")
    BY <1>1 DEF StartBatch, StreamInv, StreamTypes, StreamJob, WorkerFits, OfAdapter, Idle
  <2>2. a \in Seq(Packet) /\ (Whole(a) \/ EndOfOutput(a))
    BY <1>0, <2>1, AnswersAreWhole DEF GetFailures
  <2> QED
    BY <1>0, <1>1, <2>1, <2>2, <2>3, SshRequest DEF StartBatch, objects
<1>2. ASSUME NEW o \in Oids, StartGet(w, o) PROVE StreamInv'
  <2>1. PICK a \in GetFailures(o) \cup {GetAnswer(remote[o])} : Request(w, "get", o, a)
    BY <1>2 DEF StartGet
  <2>2. a \in Seq(Packet) /\ (Whole(a) \/ EndOfOutput(a))
    BY <1>0, <2>1, AnswersAreWhole
  <2> QED
    BY <1>0, <1>2, <2>1, <2>2, SshRequest DEF StartGet, objects, Ssh
<1>3. ASSUME NEW o \in Oids, StartPut(w, o) PROVE StreamInv'
  <2>1. PICK a \in Failures \cup {<<Status("ok"), Flush>>} : Request(w, "put", o, a)
    BY <1>3 DEF StartPut
  <2>2. a \in Seq(Packet) /\ (Whole(a) \/ EndOfOutput(a))
    BY <1>0, <2>1, AnswersAreWhole DEF GetFailures
  <2>3. remote' \in [Oids -> Contents] /\ \A x \in Oids : remote'[x] = remote[x] \/ x = o
    BY <1>0, <1>3 DEF StartPut
  <2> QED
    BY <1>3, <2>1, <2>2, <2>3, SshRequest DEF StartPut, Ssh
<1> QED
  BY <1>1, <1>2, <1>3

\* A request to a custom transfer process or to the standalone agent.
LEMMA CustomRequest ==
  ASSUME StreamInv, NEW w \in Workers, ~Ssh, Idle(w), NEW o \in Oids,
         NEW answer \in Seq(Packet), Request(w, "custom", o, answer),
         remote' \in [Oids -> Contents], \A x \in Oids : remote'[x] = remote[x] \/ x = o,
         mode = "file put" => \/ answer = <<Complete(o, None)>> /\ remote'[o] # None
                              \/ answer = <<P("error", o)>>,
         UNCHANGED <<mode, verifies, reported, store, count, ctx, ended, outOfStep, phase>>
  PROVE  StreamInv'
<1>1. /\ phase = "work"
      /\ job' \in [Workers -> StreamJob] /\ wire' \in [Workers -> Seq(Packet)]
      /\ job'[w].op = "custom" /\ job'[w].oid = o /\ job'[w].at = "status"
      /\ wire'[w] = wire[w] \o answer
      /\ \A v \in Workers \ {w} : job'[v] = job[v] /\ wire'[v] = wire[v]
      /\ o \in Oids => reported[o] = "no" /\ \A v \in Workers \ {w} : job[v].oid # o
  <2>1. "custom" \in {"get", "put", "batch", "custom"} /\ o \in Oids \cup {None}
    OBVIOUS
  <2> QED
    BY <2>1, RequestEffect, Zenon
<1>2. StreamTypes'
  BY <1>1 DEF StreamInv, StreamTypes
<1>3. AgentInStep(w)'
  <2>1. SUFFICES ASSUME mode = "file put" PROVE AgentInStep(w)'
    BY DEF AgentInStep
  <2>2. wire[w] = <<>>
    BY <2>1 DEF StreamInv, WorkerFits, AgentInStep
  <2>3. wire'[w] = answer
    BY <1>1, <2>2, ConcatEmptySeq
  <2> QED
    BY <1>1, <2>1, <2>3 DEF AgentInStep, Idle, Complete, P
<1>4. OfAdapter(job[w], mode)' /\ InStep(w)'
  BY <1>1 DEF OfAdapter, InStep, Ssh
<1>5. TransferredIsThere'
  BY <1>1, NothingReported DEF StreamInv
<1> QED
  BY <1>1, <1>2, <1>3, <1>4, <1>5, WorkerStep DEF WorkerFits

\* The messages of a process about an object.
LEMMA Messages ==
  ASSUME NEW o \in Oids, NEW c \in Contents
  PROVE  /\ <<Complete(o, c)>> \in Seq(Packet) /\ <<P("error", o)>> \in Seq(Packet)
         /\ <<P("progress", o), Complete(o, c)>> \in Seq(Packet)
         /\ CustomFailures(o) \subseteq Seq(Packet)
<1>1. /\ Complete(o, c) \in Packet /\ Complete(o, o) \in Packet
      /\ \A x \in Oids : /\ P("progress", x) \in Packet
                        /\ P("error", x) \in Packet /\ P("junk", x) \in Packet
      /\ P("eof", None) \in Packet
  BY DEF Complete, P, Packet, Kinds, Values, Contents
<1>2. \A p, q \in Packet : <<p>> \in Seq(Packet) /\ <<p, q>> \in Seq(Packet)
  OBVIOUS
<1>3. CustomFailures(o) \subseteq Seq(Packet)
  BY <1>1, <1>2 DEF CustomFailures
<1> QED
  BY <1>1, <1>2, <1>3

\* The starts of custom transfers.
LEMMA CustomStarts ==
  ASSUME StreamInv, NEW w \in Workers, NEW o \in Oids,
         StartCustom(w, o) \/ StartUploadToFile(w, o) \/ StartDownloadFromFile(w, o)
  PROVE  StreamInv'
<1>0. None \in Contents /\ Bad \in Contents /\ Oids \subseteq Contents /\ remote \in [Oids -> Contents]
  BY DEF Contents, StreamInv, StreamTypes
<1>1. /\ \A c \in Contents : /\ <<Complete(o, c)>> \in Seq(Packet)
                            /\ <<P("progress", o), Complete(o, c)>> \in Seq(Packet)
      /\ <<P("error", o)>> \in Seq(Packet) /\ CustomFailures(o) \subseteq Seq(Packet)
  BY <1>0, Messages
<1>2. CASE StartCustom(w, o)
  <2>1. PICK a \in {<<P("progress", o), Complete(o, o)>>, <<Complete(o, o)>>, <<Complete(o, Bad)>>}
                     \cup CustomFailures(o) : Request(w, "custom", o, a)
    BY <1>2 DEF StartCustom
  <2>2. a \in Seq(Packet)
    BY <1>0, <1>1, <2>1
  <2>3. remote' \in [Oids -> Contents] /\ \A x \in Oids : remote'[x] = remote[x] \/ x = o
    BY <1>0, <1>2 DEF StartCustom
  <2>4. ~Ssh /\ mode # "file put" /\ Idle(w)
    BY <1>2 DEF StartCustom, FileAgent
  <2>5. UNCHANGED <<mode, verifies, reported, store, count, ctx, ended, outOfStep, phase>>
    BY <1>2 DEF StartCustom
  <2> QED
    BY <2>1, <2>2, <2>3, <2>4, <2>5, CustomRequest
<1>3. CASE StartUploadToFile(w, o)
  <2>1. ~Ssh /\ Idle(w) /\ mode = "file put"
    BY <1>3 DEF StartUploadToFile, Ssh
  <2>2. remote' \in [Oids -> Contents] /\ \A x \in Oids : remote'[x] = remote[x] \/ x = o
    BY <1>0, <1>3 DEF StartUploadToFile
  <2>3. PICK a \in {<<Complete(o, None)>>, <<P("error", o)>>} :
          Request(w, "custom", o, a) /\ (a = <<P("error", o)>> \/ remote'[o] # None)
    BY <1>0, <1>3, StreamTransferAssumption DEF StartUploadToFile
  <2>4. a \in Seq(Packet)
    BY <1>0, <1>1, <2>3
  <2>5. UNCHANGED <<mode, verifies, reported, store, count, ctx, ended, outOfStep, phase>>
    BY <1>3 DEF StartUploadToFile
  <2> QED
    BY <2>1, <2>2, <2>3, <2>4, <2>5, CustomRequest
<1>4. CASE StartDownloadFromFile(w, o)
  <2>1. ~Ssh /\ Idle(w) /\ mode # "file put"
    BY <1>4 DEF StartDownloadFromFile, Ssh
  <2>2. PICK a \in {<<Complete(o, remote[o])>>, <<P("error", o)>>} : Request(w, "custom", o, a)
    BY <1>4 DEF StartDownloadFromFile
  <2>3. a \in Seq(Packet)
    BY <1>0, <1>1, <2>2
  <2>4. /\ UNCHANGED <<mode, verifies, reported, store, count, ctx, ended, outOfStep, phase>>
        /\ remote' = remote
    BY <1>4 DEF StartDownloadFromFile, objects
  <2> QED
    BY <1>0, <2>1, <2>2, <2>3, <2>4, CustomRequest
<1> QED
  BY <1>2, <1>3, <1>4

-----------------------------------------------------------------------------
(* Reading *)

\* Reading a packet or message, if there is one.
LEMMA TakeEffect ==
  ASSUME StreamInv, NEW w \in Workers, wire[w] # <<>>
  PROVE  /\ wire[w] \in Seq(Packet) /\ Next1(w) \in Packet /\ Next1(w) = wire[w][1]
         /\ Take(w) => /\ wire' \in [Workers -> Seq(Packet)] /\ wire'[w] = Tail(wire[w])
                       /\ \A v \in Workers \ {w} : wire'[v] = wire[v]
<1>1. wire \in [Workers -> Seq(Packet)] /\ wire[w] \in Seq(Packet)
  BY DEF StreamInv, StreamTypes
<1>2. Head(wire[w]) \in Packet /\ Head(wire[w]) = wire[w][1] /\ Tail(wire[w]) \in Seq(Packet)
  BY <1>1
<1> QED
  BY <1>1, <1>2 DEF Next1, Take

\* What a worker does changes.
LEMMA SetEffect ==
  ASSUME StreamInv, NEW w \in Workers, NEW j \in StreamJob, Set(w, j)
  PROVE  /\ job' \in [Workers -> StreamJob] /\ job'[w] = j
         /\ \A v \in Workers \ {w} : job'[v] = job[v]
  BY DEF StreamInv, StreamTypes, Set

\* What a worker does after a request.
LEMMA AfterType ==
  ASSUME NEW j \in StreamJob
  PROVE  /\ After(j) \in StreamJob /\ After(j).status = ""
         /\ j.op # "batch" \/ j.oid = None => After(j).op = "idle" /\ After(j).oid = None /\ After(j).at = ""
         /\ j.op = "batch" /\ j.oid # None =>
              After(j).op = "verify" /\ After(j).oid = j.oid /\ After(j).at = "send"
<1>1. /\ NoJob \in StreamJob /\ NoJob.op = "idle" /\ NoJob.oid = None /\ NoJob.at = ""
      /\ NoJob.status = ""
  BY DEF NoJob, StreamJob, Contents, Values
<1>2. ASSUME j.oid \in Oids
      PROVE  /\ Unsent(j.oid) \in StreamJob /\ Unsent(j.oid).op = "verify"
             /\ Unsent(j.oid).oid = j.oid /\ Unsent(j.oid).at = "send" /\ Unsent(j.oid).status = ""
  BY <1>2 DEF Unsent, NoJob, StreamJob, Contents, Values
<1>3. j.oid \in Oids \cup {None}
  BY DEF StreamJob
<1> QED
  BY <1>1, <1>2, <1>3 DEF After

\* After a request a worker fits if nothing is left for it to read.
LEMMA IdleFits ==
  ASSUME StreamInv, NEW w \in Workers, job'[w] = After(job[w]), mode' = mode,
         (Ssh /\ w \notin outOfStep)' => wire'[w] = <<>>, mode' = "file put" => wire'[w] = <<>>
  PROVE  WorkerFits(w)'
<1>1. job[w] \in StreamJob /\ WorkerFits(w) /\ job[w].oid \in Oids \cup {None}
  BY DEF StreamInv, StreamTypes, StreamJob
<1>2. OfAdapter(job[w], mode)'
  <2>1. CASE job[w].op # "batch" \/ job[w].oid = None
    BY <1>1, <2>1, AfterType DEF OfAdapter
  <2>2. CASE job[w].op = "batch" /\ job[w].oid # None
    <3>1. mode = "ssh put" /\ job[w].oid \in Oids
      BY <1>1, <2>2 DEF OfAdapter, WorkerFits
    <3>2. After(job[w]).op = "verify" /\ After(job[w]).oid = job[w].oid /\ After(job[w]).at = "send"
      BY <1>1, <2>2, AfterType
    <3> QED
      BY <3>1, <3>2 DEF OfAdapter
  <2> QED
    BY <2>1, <2>2
<1>3. InStep(w)'
  BY <1>1, AfterType DEF InStep, Idle
<1>4. AgentInStep(w)'
  BY <1>1, AfterType DEF AgentInStep, Idle, WorkerFits, OfAdapter
<1> QED
  BY <1>2, <1>3, <1>4 DEF WorkerFits

\* A transfer fails and leaves its answer half read.
LEMMA OutOfStep ==
  ASSUME StreamInv, NEW w \in Workers, phase = "work", mode # "file put",
         Return(w, FALSE), LeavesStep(w), wire' = wire \/ (wire[w] # <<>> /\ Take(w)),
         UNCHANGED <<mode, verifies, store, remote, count, ctx, ended, phase>>
  PROVE  StreamInv'
<1>1. After(job[w]) \in StreamJob
  BY AfterType DEF StreamInv, StreamTypes
<1>2. /\ job' \in [Workers -> StreamJob] /\ job'[w] = After(job[w]) /\ reported' = reported
      /\ \A v \in Workers \ {w} : job'[v] = job[v]
  BY <1>1, SetEffect DEF Return, After
<1>3. wire' \in [Workers -> Seq(Packet)] /\ \A v \in Workers \ {w} : wire'[v] = wire[v]
  BY TakeEffect DEF StreamInv, StreamTypes
<1>4. outOfStep' = outOfStep \cup {w}
  BY DEF LeavesStep
<1>5. StreamTypes'
  BY <1>2, <1>3, <1>4 DEF StreamInv, StreamTypes
<1>6. WorkerFits(w)'
  BY <1>2, <1>4, IdleFits
<1>7. TransferredIsThere'
  BY <1>2, NothingReported DEF StreamInv
<1> QED
  BY <1>2, <1>3, <1>4, <1>5, <1>6, <1>7, WorkerStep

\* A worker reads on in the answer to its request.
LEMMA ReadsOn ==
  ASSUME StreamInv, NEW w \in Workers, phase = "work", wire[w] # <<>>, job[w].op \in SshOps,
         Next1(w).k \notin {"flush", "eof"}, Take(w),
         NEW j \in StreamJob, Set(w, j), j.op = job[w].op, j.oid = job[w].oid,
         j.at \notin {"send", "status"}, job[w].at # "send",
         j.status = IF job[w].at = "status" THEN Next1(w).v ELSE job[w].status,
         UNCHANGED <<mode, verifies, reported, store, remote, count, ctx, ended, outOfStep, phase>>
  PROVE  StreamInv'
<1>1. /\ wire[w] \in Seq(Packet) /\ Next1(w) = wire[w][1]
      /\ wire' \in [Workers -> Seq(Packet)] /\ wire'[w] = Tail(wire[w])
      /\ \A v \in Workers \ {w} : wire'[v] = wire[v]
  BY TakeEffect
<1>2. /\ job' \in [Workers -> StreamJob] /\ job'[w] = j
      /\ \A v \in Workers \ {w} : job'[v] = job[v]
  BY SetEffect
<1>3. WorkerFits(w)
  BY DEF StreamInv
<1>4. Ssh /\ mode # "file put" /\ ~Idle(w)
  BY <1>3 DEF WorkerFits, OfAdapter, Ssh, SshOps, Idle
<1>5. StreamTypes'
  BY <1>1, <1>2 DEF StreamInv, StreamTypes
<1>6. InStep(w)'
  <2>1. SUFFICES ASSUME w \notin outOfStep PROVE InStep(w)'
    BY DEF InStep
  <2>0. w \notin ended
    BY DEF StreamInv, Ending
  <2>2. Whole(wire[w])
    BY <1>1, <1>3, <1>4, <2>0, <2>1 DEF WorkerFits, InStep, EndOfOutput
  <2>3. Whole(wire'[w])
    BY <1>1, <2>2, WholeTail DEF Next1
  <2>4. j.op = "verify" /\ j.status = "ok" => remote[j.oid] = j.oid
    <3>1. CASE job[w].at = "status" /\ j.op = "verify"
      <4>1. wire[w] \in Failures \cup {VerifyAnswer(j.oid)}
        BY <1>3, <1>4, <2>0, <2>1, <3>1 DEF WorkerFits, InStep
      <4>2. j.status = wire[w][1].v
        BY <1>1, <3>1
      <4>3. remote[j.oid] # j.oid => wire[w][1] \in {Status("bad"), Text, P("eof", None)}
        BY <4>1 DEF VerifyAnswer, Refusal, Failures
      <4>4. Status("bad").v # "ok" /\ Text.v # "ok" /\ P("eof", None).v # "ok"
        BY DEF Status, Text, P, None
      <4> QED
        BY <4>2, <4>3, <4>4
    <3>2. CASE job[w].at # "status" /\ j.op = "verify"
      BY <1>3, <1>4, <2>0, <2>1, <3>2 DEF WorkerFits, InStep
    <3> QED
      BY <3>1, <3>2
  <2> QED
    BY <1>2, <1>4, <2>3, <2>4 DEF InStep, Idle
<1>7. WorkerFits(w)'
  BY <1>2, <1>3, <1>4, <1>6 DEF WorkerFits, OfAdapter, AgentInStep
<1>8. TransferredIsThere'
  BY NothingReported DEF StreamInv
<1> QED
  BY <1>1, <1>2, <1>5, <1>7, <1>8, WorkerStep

\* ReadStatus, ReadArg and ReadData.
LEMMA PacketsRead ==
  ASSUME StreamInv, NEW w \in Workers, ReadStatus(w) \/ ReadArg(w) \/ ReadData(w)
  PROVE  StreamInv'
<1>1. job[w] \in StreamJob /\ Bad \in Contents
  BY DEF StreamInv, StreamTypes, Contents
<1>2. wire[w] # <<>> /\ phase = "work" /\ job[w].op \in SshOps
  BY DEF ReadStatus, ReadArg, ReadData, Waits
<1>3. Next1(w) \in Packet
  BY <1>2, TakeEffect
<1>4. UNCHANGED <<mode, verifies, reported, store, remote, count, ctx, ended, outOfStep, phase>>
  BY DEF ReadStatus, ReadArg, ReadData, objects
<1>5. CASE ReadStatus(w)
  <2> DEFINE j == [job[w] EXCEPT !.at = "args", !.status = Next1(w).v]
  <2>1. /\ j \in StreamJob /\ j.op = job[w].op /\ j.oid = job[w].oid /\ j.at \notin {"send", "status"}
        /\ j.status = Next1(w).v
    BY <1>1, <1>3 DEF StreamJob, Packet
  <2>2. Set(w, j) /\ Take(w) /\ job[w].at = "status" /\ Next1(w).k = "status"
    BY <1>5 DEF ReadStatus, Waits
  <2> QED
    BY <1>2, <1>4, <2>1, <2>2, ReadsOn
<1>6. CASE ReadArg(w)
  <2> DEFINE n == IF Next1(w).k = "size" THEN job[w].sizes + 1 ELSE job[w].sizes
             j == [job[w] EXCEPT !.sizes = n]
  <2>0. n \in Nat
    <3>1. job[w].sizes \in Nat
      BY <1>1 DEF StreamJob
    <3> QED
      BY <3>1
  <2>1. Set(w, j) /\ Take(w) /\ job[w].at = "args" /\ Next1(w).k \notin {"delim", "flush", "eof"}
    BY <1>6 DEF ReadArg, Waits
  <2>2. /\ j \in StreamJob /\ j.op = job[w].op /\ j.oid = job[w].oid /\ j.at \notin {"send", "status"}
        /\ j.status = job[w].status
    <3> HIDE DEF n
    <3>1. j \in StreamJob
      BY <1>1, <2>0 DEF StreamJob
    <3>2. j.op = job[w].op /\ j.oid = job[w].oid /\ j.at = job[w].at /\ j.status = job[w].status
      BY <1>1 DEF StreamJob
    <3> QED
      BY <2>1, <3>1, <3>2
  <2> QED
    BY <1>2, <1>4, <2>1, <2>2, ReadsOn
<1>7. CASE ReadData(w)
  <2> DEFINE got == IF job[w].at # "copy" THEN job[w].got
                    ELSE IF job[w].got = None /\ Next1(w).k = "data" THEN Next1(w).c ELSE Bad
             j == [job[w] EXCEPT !.got = got]
  <2>0. got \in Contents
    BY <1>1, <1>3 DEF StreamJob, Packet
  <2>1. /\ Set(w, j) /\ Take(w)
        /\ job[w].at \in {"lines", "drain", "copy"} /\ Next1(w).k \notin {"flush", "eof"}
    BY <1>7 DEF ReadData, Waits
  <2>2. /\ j \in StreamJob /\ j.op = job[w].op /\ j.oid = job[w].oid /\ j.at \notin {"send", "status"}
        /\ j.status = job[w].status
    <3> HIDE DEF got
    <3> QED
      BY <1>1, <2>0, <2>1 DEF StreamJob
  <2> QED
    BY <1>2, <1>4, <2>1, <2>2, ReadsOn
<1> QED
  BY <1>5, <1>6, <1>7

\* A request over ssh is never one to the standalone agent.
LEMMA SshIsNoAgent ==
  ASSUME StreamInv, NEW w \in Workers, job[w].op \in SshOps
  PROVE  mode # "file put" /\ Ssh /\ ~Idle(w)
  BY DEF StreamInv, WorkerFits, OfAdapter, SshOps, Ssh, Idle

\* ReadDelim, ProtocolError and CopyFails.
LEMMA AnswersLeft ==
  ASSUME StreamInv, NEW w \in Workers, ReadDelim(w) \/ ProtocolError(w) \/ CopyFails(w)
  PROVE  StreamInv'
<1>1. job[w] \in StreamJob
  BY DEF StreamInv, StreamTypes
<1>2. wire[w] # <<>> /\ phase = "work" /\ job[w].op \in SshOps
  BY DEF ReadDelim, ProtocolError, CopyFails, Waits, SshOps
<1>3. mode # "file put"
  BY <1>2, SshIsNoAgent
<1>4. UNCHANGED <<mode, verifies, store, remote, count, ctx, ended, phase>>
  BY DEF ReadDelim, ProtocolError, CopyFails, objects, conv
<1>5. CASE ProtocolError(w) \/ CopyFails(w)
  <2>1. Return(w, FALSE) /\ LeavesStep(w) /\ (wire' = wire \/ Take(w))
    BY <1>5 DEF ProtocolError, CopyFails, conv
  <2> QED
    BY <1>2, <1>3, <1>4, <2>1, OutOfStep
<1>6. CASE ReadDelim(w) /\ Return(w, FALSE) /\ LeavesStep(w)
  <2>1. Take(w)
    BY <1>6 DEF ReadDelim
  <2> QED
    BY <1>2, <1>3, <1>4, <1>6, <2>1, OutOfStep
<1>7. CASE ReadDelim(w) /\ ~(Return(w, FALSE) /\ LeavesStep(w))
  <2> DEFINE j == IF job[w].op # "get" THEN [job[w] EXCEPT !.at = "lines"] ELSE AfterDelim(job[w])
  <2>1. /\ Set(w, j) /\ UNCHANGED <<reported, outOfStep>> /\ Take(w)
        /\ job[w].at = "args" /\ Next1(w).k = "delim"
    BY <1>7 DEF ReadDelim, Waits
  <2>2. /\ j \in StreamJob /\ j.op = job[w].op /\ j.oid = job[w].oid /\ j.at \notin {"send", "status"}
        /\ j.status = job[w].status
    BY <1>1 DEF StreamJob, AfterDelim
  <2> QED
    BY <1>2, <1>4, <2>1, <2>2, ReadsOn
<1> QED
  BY <1>5, <1>6, <1>7

\* The end of a transfer whose answer was read.
LEMMA ReturnEffect ==
  ASSUME StreamInv, NEW w \in Workers, NEW ok \in BOOLEAN, Return(w, ok), job[w].oid \in Oids \/ ~ok
  PROVE  /\ job' \in [Workers -> StreamJob] /\ job'[w] = After(job[w])
         /\ \A v \in Workers \ {w} : job'[v] = job[v]
         /\ reported' \in [Oids -> {"no", "yes", "stale"}]
         /\ \A o \in Oids : reported'[o] = reported[o] \/ (o = job[w].oid /\ ok)
         /\ w \in outOfStep => \A o \in Oids : reported'[o] = reported[o] \/ reported'[o] = "stale"
<1>1. After(job[w]) \in StreamJob
  BY AfterType DEF StreamInv, StreamTypes
<1>2. /\ job' \in [Workers -> StreamJob] /\ job'[w] = After(job[w])
      /\ \A v \in Workers \ {w} : job'[v] = job[v]
  BY <1>1, SetEffect DEF Return, After
<1>3. /\ reported' \in [Oids -> {"no", "yes", "stale"}]
      /\ \A o \in Oids : reported'[o] = reported[o] \/ (o = job[w].oid /\ ok)
      /\ w \in outOfStep => \A o \in Oids : reported'[o] = reported[o] \/ reported'[o] = "stale"
  BY DEF Return, StreamInv, StreamTypes
<1> QED
  BY <1>2, <1>3

\* The file of a download is renamed only if its hash is right.
LEMMA GetEnds ==
  ASSUME StreamInv, NEW w \in Workers, EndGet(w)
  PROVE  StreamInv'
<1> DEFINE good == job[w].at = "copy" /\ HashMatches(job[w])
<1>1. /\ wire[w] # <<>> /\ phase = "work" /\ job[w].op = "get" /\ job[w].at # "status"
      /\ job[w].at # "send" /\ Next1(w).k = "flush" /\ Take(w) /\ Return(w, good)
      /\ store' = IF good THEN [store EXCEPT ![job[w].oid] = job[w].got] ELSE store
      /\ UNCHANGED <<mode, verifies, remote, count, ctx, ended, outOfStep, phase>>
  BY DEF EndGet, Waits
<1>2. WorkerFits(w) /\ mode = "ssh get" /\ job[w].oid \in Oids /\ job[w] \in StreamJob
  BY <1>1 DEF StreamInv, StreamTypes, WorkerFits, OfAdapter
<1>3. /\ wire[w] \in Seq(Packet) /\ wire' \in [Workers -> Seq(Packet)] /\ wire'[w] = Tail(wire[w])
      /\ \A v \in Workers \ {w} : wire'[v] = wire[v]
  BY <1>1, TakeEffect
<1>4. /\ job' \in [Workers -> StreamJob] /\ job'[w] = After(job[w])
      /\ \A v \in Workers \ {w} : job'[v] = job[v]
      /\ reported' \in [Oids -> {"no", "yes", "stale"}]
      /\ \A o \in Oids : reported'[o] = reported[o] \/ (o = job[w].oid /\ good)
  <2>1. good \in BOOLEAN
    OBVIOUS
  <2> QED
    BY <1>1, <1>2, <2>1, ReturnEffect
<1>5. /\ store' \in [Oids -> Contents]
      /\ \A o \in Oids : store'[o] = store[o] \/ store'[o] = o
      /\ good => store'[job[w].oid] = job[w].oid
  BY <1>1, <1>2 DEF StreamInv, StreamTypes, HashMatches, StreamJob
<1>6. StreamTypes'
  BY <1>1, <1>3, <1>4, <1>5 DEF StreamInv, StreamTypes
<1>7. w \notin outOfStep => wire'[w] = <<>>
  <2>1. SUFFICES ASSUME w \notin outOfStep PROVE wire'[w] = <<>>
    OBVIOUS
  <2>2. Whole(wire[w])
    BY <1>1, <1>2, <2>1 DEF WorkerFits, InStep, Ssh, Idle, StreamInv, Ending
  <2> QED
    BY <1>1, <1>3, <2>2, WholeTail DEF Next1
<1>8. WorkerFits(w)'
  BY <1>1, <1>2, <1>4, <1>7, IdleFits
<1>9. TransferredIsThere'
  <2> HIDE DEF good
  <2>1. \A o \in Oids : reported'[o] = reported[o] \/ (o = job[w].oid /\ good)
    BY <1>4
  <2>2. mode = "ssh get" /\ mode' = mode /\ verifies' = verifies
    BY <1>1, <1>2
  <2>3. TransferredIsThere
    BY DEF StreamInv
  <2> QED
    BY <1>5, <2>1, <2>2, <2>3 DEF TransferredIsThere, Downloads
<1> QED
  BY <1>1, <1>3, <1>4, <1>6, <1>8, <1>9, WorkerStep

\* The answer to verify-object is the whole of an answer.
LEMMA VerifyAnswerType ==
  ASSUME NEW o
  PROVE  VerifyAnswer(o) \in Seq(Packet) /\ Whole(VerifyAnswer(o))
<1>1. VerifyAnswer(o) \in {Refusal, <<Status("ok"), Flush>>}
  BY DEF VerifyAnswer
<1>2. /\ Status("ok") \in Packet /\ Status("ok").k = "status"
      /\ Status("bad") \in Packet /\ Status("bad").k = "status"
      /\ Delim \in Packet /\ Delim.k = "delim" /\ Text \in Packet /\ Text.k = "text"
      /\ Flush \in Packet /\ Flush.k = "flush"
  BY SshPackets DEF Contents
<1>3. CASE VerifyAnswer(o) = Refusal
  BY <1>2, <1>3 DEF Refusal, Whole
<1>4. CASE VerifyAnswer(o) = <<Status("ok"), Flush>>
  BY <1>2, <1>4 DEF Whole
<1> QED
  BY <1>1, <1>3, <1>4

\* put-object was accepted and is verified; a verification, a refusal or a batch request ends.
LEMMA LinesEnd ==
  ASSUME StreamInv, NEW w \in Workers, EndLines(w)
  PROVE  StreamInv'
<1>1. /\ wire[w] # <<>> /\ phase = "work" /\ job[w].op \in {"put", "verify", "batch"}
      /\ job[w].at \in {"args", "lines"} /\ Next1(w).k = "flush"
      /\ UNCHANGED <<mode, verifies, store, remote, count, ctx, ended, outOfStep, phase>>
  BY DEF EndLines, Waits, objects
<1>2. WorkerFits(w) /\ Ssh /\ mode # "file put" /\ ~Idle(w) /\ job[w] \in StreamJob
  BY <1>1, SshIsNoAgent DEF StreamInv, StreamTypes, SshOps
<1>3. w \notin outOfStep => Whole(wire[w]) /\ wire[w] \in Seq(Packet)
  BY <1>1, <1>2 DEF WorkerFits, InStep, StreamInv, StreamTypes, Ending
<1>4. w \notin outOfStep => Tail(wire[w]) = <<>> /\ wire[w][Len(wire[w])].k = "flush"
  BY <1>1, <1>3, WholeTail DEF Next1
<1>5. CASE job[w].op = "put" /\ job[w].status = "ok"
  <2>1. Set(w, Unsent(job[w].oid)) /\ reported' = reported /\ Take(w)
    BY <1>5 DEF EndLines, AfterPut
  <2>2. job[w].oid \in Oids /\ mode = "ssh put"
    BY <1>2, <1>5 DEF WorkerFits, OfAdapter
  <2>3. /\ Unsent(job[w].oid) \in StreamJob /\ Unsent(job[w].oid).op = "verify"
        /\ Unsent(job[w].oid).oid = job[w].oid /\ Unsent(job[w].oid).at = "send"
        /\ Unsent(job[w].oid).status = ""
    BY <2>2 DEF Unsent, NoJob, StreamJob, Contents, Values
  <2>4. /\ job' \in [Workers -> StreamJob] /\ job'[w] = Unsent(job[w].oid)
        /\ \A v \in Workers \ {w} : job'[v] = job[v]
    BY <2>1, <2>3, SetEffect
  <2>5. /\ wire' \in [Workers -> Seq(Packet)] /\ wire'[w] = Tail(wire[w])
        /\ \A v \in Workers \ {w} : wire'[v] = wire[v]
    BY <1>1, <2>1, TakeEffect
  <2>6. WorkerFits(w)'
    BY <1>1, <1>2, <1>4, <2>2, <2>3, <2>4, <2>5 DEF WorkerFits, OfAdapter, InStep, AgentInStep, Idle
  <2>7. StreamTypes'
    BY <1>1, <2>1, <2>4, <2>5 DEF StreamInv, StreamTypes
  <2>8. TransferredIsThere'
    BY <1>1, <2>1, NothingReported DEF StreamInv
  <2> QED
    BY <1>1, <2>4, <2>5, <2>6, <2>7, <2>8, WorkerStep
<1>6. CASE ~(job[w].op = "put" /\ job[w].status = "ok")
  <2> DEFINE ok == job[w].op = "verify" /\ job[w].status = "ok"
  <2>1. Take(w) /\ Return(w, ok)
    BY <1>6 DEF EndLines
  <2>2. /\ wire' \in [Workers -> Seq(Packet)] /\ wire'[w] = Tail(wire[w])
        /\ \A v \in Workers \ {w} : wire'[v] = wire[v]
    BY <1>1, <2>1, TakeEffect
  <2>3. ok \in BOOLEAN /\ (ok => job[w].oid \in Oids /\ mode = "ssh put")
    BY <1>2 DEF WorkerFits, OfAdapter
  <2>4. /\ job' \in [Workers -> StreamJob] /\ job'[w] = After(job[w])
        /\ \A v \in Workers \ {w} : job'[v] = job[v]
        /\ reported' \in [Oids -> {"no", "yes", "stale"}]
        /\ \A o \in Oids : reported'[o] = reported[o] \/ (o = job[w].oid /\ ok)
        /\ w \in outOfStep => \A o \in Oids : reported'[o] = reported[o] \/ reported'[o] = "stale"
    BY <2>1, <2>3, ReturnEffect
  <2>5. StreamTypes'
    BY <1>1, <2>2, <2>4 DEF StreamInv, StreamTypes
  <2>6. WorkerFits(w)'
    BY <1>1, <1>2, <1>4, <2>2, <2>4, IdleFits
  <2>7. ok /\ w \notin outOfStep => remote[job[w].oid] = job[w].oid
    BY <1>1, <1>2 DEF WorkerFits, InStep, StreamInv, Ending
  <2>8. TransferredIsThere'
    BY <1>1, <2>3, <2>4, <2>7 DEF StreamInv, TransferredIsThere, Downloads
  <2> QED
    BY <1>1, <2>2, <2>4, <2>5, <2>6, <2>8, WorkerStep
<1> QED
  BY <1>5, <1>6

\* An answer is put on a connection; one that is in step has nothing else on it.
LEMMA AnswerPut ==
  ASSUME StreamInv, NEW w \in Workers, NEW a \in Seq(Packet), wire' = [wire EXCEPT ![w] = @ \o a]
  PROVE  /\ wire' \in [Workers -> Seq(Packet)] /\ wire'[w] = wire[w] \o a
         /\ \A v \in Workers \ {w} : wire'[v] = wire[v]
         /\ wire[w] = <<>> => wire'[w] = a
<1>1. wire \in [Workers -> Seq(Packet)] /\ wire[w] \in Seq(Packet)
  BY DEF StreamInv, StreamTypes
<1>2. wire[w] \o a \in Seq(Packet)
  BY <1>1
<1>3. wire'[w] = wire[w] \o a
  BY <1>1
<1>4. wire[w] = <<>> => wire'[w] = a
  BY <1>3, ConcatEmptySeq
<1> QED
  BY <1>1, <1>2, <1>3, <1>4

\* Failures are whole answers or the end of the connection, and no status that is good.
LEMMA FailureType ==
  ASSUME NEW a \in Failures \cup {<<Status("ok"), Flush>>}
  PROVE  a \in Seq(Packet) /\ (Whole(a) \/ EndOfOutput(a))
<1>1. None \in Contents
  BY DEF Contents
<1> QED
  BY <1>1, AnswersAreWhole DEF GetFailures

\* verify-object: its answer is the only thing on a connection that is in step.
LEMMA VerifySent ==
  ASSUME StreamInv, NEW w \in Workers, SendVerify(w)
  PROVE  StreamInv'
<1> DEFINE j == [job[w] EXCEPT !.at = "status"]
<1>1. /\ phase = "work" /\ job[w].at = "send" /\ Set(w, j)
      /\ UNCHANGED <<mode, verifies, reported, store, remote, count, ctx, ended, outOfStep, phase>>
  BY DEF SendVerify, objects
<1>2. WorkerFits(w) /\ job[w] \in StreamJob /\ w \notin ended
  BY <1>1 DEF StreamInv, StreamTypes, Ending
<1>3. job[w].op = "verify" /\ job[w].oid \in Oids /\ mode = "ssh put"
  BY <1>1, <1>2 DEF WorkerFits, OfAdapter
<1>4. j \in StreamJob /\ j.op = "verify" /\ j.oid = job[w].oid /\ j.at = "status"
  BY <1>2, <1>3 DEF StreamJob
<1> HIDE DEF j
<1>5. /\ job' \in [Workers -> StreamJob] /\ job'[w] = j
      /\ \A v \in Workers \ {w} : job'[v] = job[v]
  BY <1>1, <1>4, SetEffect
<1>6. \E a \in Failures \cup {VerifyAnswer(job[w].oid), <<>>} :
        wire' = [wire EXCEPT ![w] = @ \o a] /\ (a = <<>> => Gone(w))
  <2>1. ASSUME NEW a \in Failures \cup {VerifyAnswer(job[w].oid)} PROVE a # <<>>
    BY <2>1 DEF Failures, Refusal, VerifyAnswer
  <2> QED
    BY <2>1 DEF SendVerify
<1>7. PICK a \in Failures \cup {VerifyAnswer(job[w].oid), <<>>} :
        wire' = [wire EXCEPT ![w] = @ \o a] /\ (a = <<>> => Gone(w))
  BY <1>6
<1>8. a \in Seq(Packet) /\ (a = <<>> \/ Whole(a) \/ EndOfOutput(a))
  <2>1. <<>> \in Seq(Packet)
    OBVIOUS
  <2>2. CASE a \in Failures
    BY <2>2, FailureType
  <2> QED
    BY <1>7, <2>1, <2>2, VerifyAnswerType
<1>9. /\ wire' \in [Workers -> Seq(Packet)] /\ wire'[w] = wire[w] \o a
      /\ \A v \in Workers \ {w} : wire'[v] = wire[v]
      /\ wire[w] = <<>> => wire'[w] = a
  BY <1>7, <1>8, AnswerPut
<1>10. InStep(w)'
  <2>1. SUFFICES ASSUME w \notin outOfStep PROVE InStep(w)'
    BY <1>1 DEF InStep
  <2>2. wire[w] = <<>>
    BY <1>1, <1>2, <1>3, <2>1 DEF WorkerFits, InStep, Ssh
  <2>3. wire'[w] = a /\ a # <<>>
    BY <1>7, <1>9, <2>2 DEF Gone
  <2>5. wire'[w] \in (Failures \cup {VerifyAnswer(job[w].oid)})'
    BY <1>1, <1>4, <1>5, <1>7, <2>3 DEF VerifyAnswer, Failures, Refusal, Status, Flush, Delim, Text, P
  <2> QED
    BY <1>4, <1>5, <1>8, <2>3, <2>5 DEF InStep, Idle
<1>11. WorkerFits(w)'
  BY <1>1, <1>2, <1>3, <1>4, <1>5, <1>10 DEF WorkerFits, OfAdapter, AgentInStep
<1>12. StreamTypes'
  BY <1>1, <1>5, <1>9 DEF StreamInv, StreamTypes
<1>13. TransferredIsThere'
  BY <1>1, NothingReported DEF StreamInv
<1> QED
  BY <1>1, <1>5, <1>9, <1>11, <1>12, <1>13, WorkerStep

\* The messages of a process: progress, complete, an error, or something else.
LEMMA MessagesRead ==
  ASSUME StreamInv, NEW w \in Workers,
         ReadProgress(w) \/ ReadComplete(w) \/ ReadError(w) \/ ReadInvalid(w)
  PROVE  StreamInv'
<1>1. wire[w] # <<>> /\ phase = "work" /\ job[w].op = "custom"
  BY DEF ReadProgress, ReadComplete, ReadError, ReadInvalid, Waits
<1>2. /\ WorkerFits(w) /\ ~Ssh /\ ~Idle(w) /\ job[w].oid \in Oids /\ job[w] \in StreamJob
      /\ mode \notin {"ssh get", "ssh put"}
  BY <1>1 DEF StreamInv, StreamTypes, WorkerFits, OfAdapter, Ssh, Idle
<1>3. /\ wire[w] \in Seq(Packet) /\ Next1(w) \in Packet /\ Next1(w) = wire[w][1]
      /\ Take(w) => /\ wire' \in [Workers -> Seq(Packet)] /\ wire'[w] = Tail(wire[w])
                    /\ \A v \in Workers \ {w} : wire'[v] = wire[v]
  BY <1>1, TakeEffect
<1>4. mode = "file put" =>
        /\ Next1(w) \in {Complete(job[w].oid, None), P("error", job[w].oid)}
        /\ Next1(w).k = "complete" => remote[job[w].oid] # None
        /\ Next1(w).v = job[w].oid /\ Next1(w).k \in {"complete", "error"}
        /\ Tail(wire[w]) = <<>>
  <2>1. SUFFICES ASSUME mode = "file put"
                 PROVE  /\ Next1(w) \in {Complete(job[w].oid, None), P("error", job[w].oid)}
                        /\ Next1(w).k = "complete" => remote[job[w].oid] # None
                        /\ Next1(w).v = job[w].oid /\ Next1(w).k \in {"complete", "error"}
                        /\ Tail(wire[w]) = <<>>
    OBVIOUS
  <2>2. /\ Complete(job[w].oid, None).k = "complete" /\ Complete(job[w].oid, None).v = job[w].oid
        /\ P("error", job[w].oid).k = "error" /\ P("error", job[w].oid).v = job[w].oid
    BY DEF Complete, P
  <2>3. \/ wire[w] = <<Complete(job[w].oid, None)>> /\ remote[job[w].oid] # None
        \/ wire[w] = <<P("error", job[w].oid)>>
    BY <1>2, <2>1 DEF WorkerFits, AgentInStep
  <2>4. wire[w][1] \in {Complete(job[w].oid, None), P("error", job[w].oid)} /\ Tail(wire[w]) = <<>>
    <3>1. Len(wire[w]) = 1 /\ wire[w][1] \in {Complete(job[w].oid, None), P("error", job[w].oid)}
      BY <2>3
    <3>2. Tail(wire[w]) \in Seq(Packet) /\ Len(Tail(wire[w])) = 0
      BY <1>1, <1>3, <3>1
    <3> QED
      BY <3>1, <3>2, EmptySeq
  <2>5. wire[w][1].k = "complete" => remote[job[w].oid] # None
    BY <2>2, <2>3
  <2> QED
    BY <1>3, <2>2, <2>4, <2>5
<1>5. CASE ReadProgress(w)
  <2>1. /\ Next1(w) = P("progress", job[w].oid) /\ Take(w)
        /\ UNCHANGED <<mode, verifies, reported, store, remote, count, ctx, ended, job, outOfStep, phase>>
    BY <1>5 DEF ReadProgress, objects
  <2>2. P("progress", job[w].oid).k = "progress"
    BY DEF P
  <2>3. mode # "file put"
    BY <1>4, <2>1, <2>2
  <2>4. WorkerFits(w)'
    BY <1>2, <2>1, <2>3 DEF WorkerFits, OfAdapter, InStep, AgentInStep, Ssh
  <2>5. StreamTypes'
    BY <1>3, <2>1 DEF StreamInv, StreamTypes
  <2>6. TransferredIsThere'
    BY <2>1, NothingReported DEF StreamInv
  <2> QED
    BY <1>1, <1>3, <2>1, <2>4, <2>5, <2>6, WorkerStep
<1>6. CASE ReadComplete(w)
  <2> DEFINE right == HashMatches([job[w] EXCEPT !.got = Next1(w).c])
             ok == IF mode \in Downloads THEN right ELSE ~verifies \/ remote[job[w].oid] = job[w].oid
  <2>1. /\ Next1(w).k = "complete" /\ Next1(w).v = job[w].oid /\ Take(w)
        /\ UNCHANGED <<mode, verifies, remote, count, ctx, ended, outOfStep, phase>>
    BY <1>6 DEF ReadComplete
  <2>2. right <=> Next1(w).c = job[w].oid
    BY <1>2 DEF HashMatches, StreamJob
  <2>3. [job[w] EXCEPT !.got = Next1(w).c].got = Next1(w).c
    BY <1>2 DEF StreamJob
  <2>4. /\ Return(w, ok)
        /\ store' = IF mode \in Downloads /\ right THEN [store EXCEPT ![job[w].oid] = Next1(w).c]
                    ELSE store
    BY <1>6, <2>3 DEF ReadComplete
  <2>5. /\ store' \in [Oids -> Contents]
        /\ \A o \in Oids : store'[o] = store[o] \/ store'[o] = o
        /\ mode \in Downloads /\ ok => store'[job[w].oid] = job[w].oid
        /\ mode \notin Downloads => store' = store
    BY <1>2, <1>3, <2>2, <2>4 DEF StreamInv, StreamTypes, Packet
  <2>6. /\ ok \in BOOLEAN /\ (mode = "file put" => remote[job[w].oid] # None)
        /\ mode = "custom put" /\ verifies /\ ok => remote[job[w].oid] = job[w].oid
    BY <1>4, <2>1 DEF StreamInv, StreamTypes, HashMatches, Downloads
  <2> HIDE DEF ok
  <2>7. /\ job' \in [Workers -> StreamJob] /\ job'[w] = After(job[w])
        /\ \A v \in Workers \ {w} : job'[v] = job[v]
        /\ reported' \in [Oids -> {"no", "yes", "stale"}]
        /\ \A o \in Oids : reported'[o] = reported[o] \/ (o = job[w].oid /\ ok)
    BY <1>2, <2>4, <2>6, ReturnEffect
  <2>8. StreamTypes'
    BY <1>3, <2>1, <2>5, <2>7 DEF StreamInv, StreamTypes
  <2>9. WorkerFits(w)'
    BY <1>2, <1>3, <1>4, <2>1, <2>7, IdleFits DEF Ssh
  <2>10. TransferredIsThere'
    BY <1>2, <2>1, <2>5, <2>6, <2>7 DEF StreamInv, TransferredIsThere, Downloads
  <2> QED
    BY <1>1, <1>3, <2>1, <2>7, <2>8, <2>9, <2>10, WorkerStep
<1>7. CASE ReadError(w)
  <2>1. /\ Take(w) /\ Return(w, FALSE)
        /\ UNCHANGED <<mode, verifies, store, remote, count, ctx, ended, outOfStep, phase>>
    BY <1>7 DEF ReadError, objects
  <2>2. /\ job' \in [Workers -> StreamJob] /\ job'[w] = After(job[w])
        /\ \A v \in Workers \ {w} : job'[v] = job[v]
    BY <2>1, ReturnEffect
  <2>3. reported' = reported
    BY <2>1 DEF Return
  <2>4. StreamTypes'
    BY <1>3, <2>1, <2>2, <2>3 DEF StreamInv, StreamTypes
  <2>5. WorkerFits(w)'
    BY <1>2, <1>3, <1>4, <2>1, <2>2, IdleFits DEF Ssh
  <2>6. TransferredIsThere'
    BY <2>1, <2>3, NothingReported DEF StreamInv
  <2> QED
    BY <1>1, <1>3, <2>1, <2>2, <2>4, <2>5, <2>6, WorkerStep
<1>8. CASE ReadInvalid(w)
  <2>1. /\ Return(w, FALSE) /\ LeavesStep(w) /\ (wire' = wire \/ Take(w))
        /\ Next1(w).k \in {"junk", "eof"} \/ Next1(w).v # job[w].oid
        /\ UNCHANGED <<mode, verifies, store, remote, count, ctx, ended, phase>>
    BY <1>8 DEF ReadInvalid, objects
  <2>2. mode # "file put"
    BY <1>4, <2>1
  <2> QED
    BY <1>1, <2>1, <2>2, OutOfStep
<1> QED
  BY <1>5, <1>6, <1>7, <1>8

-----------------------------------------------------------------------------
(* Beginning and ending *)

\* A step that changes only the phase and the conversations that were started or ended.
LEMMA OutsideWork ==
  ASSUME StreamInv, StreamTypes', ended \subseteq ended',
         UNCHANGED <<mode, verifies, store, remote, job, outOfStep, reported>>,
         \A w \in Workers : wire'[w] = wire[w] \/ (Ssh /\ w \in ended')
  PROVE  (\A w \in Workers : WorkerFits(w))' /\ TransferredIsThere'
<1>1. ASSUME NEW w \in Workers PROVE WorkerFits(w)'
  <2>1. CASE wire'[w] = wire[w]
    BY <2>1, BystanderFits DEF StreamInv
  <2>2. CASE Ssh /\ w \in ended'
    BY <2>2 DEF StreamInv, WorkerFits, OfAdapter, InStep, AgentInStep, Ssh
  <2> QED
    BY <2>1, <2>2
<1>2. TransferredIsThere'
  BY NothingReported DEF StreamInv
<1> QED
  BY <1>1, <1>2 DEF Workers

\* WorkerStarting, its failure, and the ends of Begin and of the work.
LEMMA Beginnings ==
  ASSUME StreamInv,
         \/ WorkerStarting \/ WorkerStartFails \/ AllStarted \/ WorkersEnd
         \/ \E w \in Workers : NilConnection(w)
  PROVE  StreamInv'
<1>0. ctx \in Seq(BOOLEAN) /\ count \in 0..NumWorkers /\ NumWorkers \in Nat
  BY StreamTransferAssumption DEF StreamInv, StreamTypes
<1>1. /\ Len(ctx) \in Nat
      /\ Append(ctx, TRUE) \in Seq(BOOLEAN) /\ Append(ctx, FALSE) \in Seq(BOOLEAN)
  BY <1>0, LenProperties, AppendProperties
<1>2. UNCHANGED <<mode, verifies, store, remote, wire, job, outOfStep, reported, ended>>
  BY DEF WorkerStarting, WorkerStartFails, AllStarted, WorkersEnd, NilConnection, objects, conv
<1>3. ctx' \in Seq(BOOLEAN) /\ count' \in 0..NumWorkers
  <2>1. CASE WorkerStarting
    <3>1. ctx' = Append(ctx, TRUE) /\ Len(ctx) < NumWorkers /\ (count' = count \/ count' = Len(ctx) + 1)
      BY <2>1 DEF WorkerStarting
    <3>2. count' \in 0..NumWorkers
      BY <1>0, <1>1, <3>1
    <3> QED
      BY <1>1, <3>1, <3>2
  <2>2. CASE WorkerStartFails
    BY <1>0, <1>1, <2>2 DEF WorkerStartFails
  <2>3. CASE AllStarted \/ WorkersEnd \/ \E w \in Workers : NilConnection(w)
    BY <1>0, <2>3 DEF AllStarted, WorkersEnd, NilConnection, conv
  <2> QED
    BY <2>1, <2>2, <2>3
<1>4. /\ phase' \in {"begin", "failed", "work", "end", "crashed"} /\ phase \in {"begin", "work"}
      /\ phase' \in {"begin", "end"} => \A w \in Workers : Idle(w)
      /\ phase' = "end" /\ Ssh => \A w \in Workers : Idle(w)
  BY DEF WorkerStarting, WorkerStartFails, AllStarted, WorkersEnd, NilConnection, StreamInv, Ending
<1>5. StreamTypes'
  BY <1>2, <1>3, <1>4 DEF StreamInv, StreamTypes
<1>6. Ending'
  <2>1. ended = {} /\ ended = 0..(0 - 1) /\ 0 \in 0..count'
    BY <1>0, <1>3, <1>4 DEF StreamInv, Ending
  <2> QED
    BY <1>2, <1>4, <2>1 DEF Ending, Idle
<1>7. ShutdownComplete'
  BY <1>4 DEF ShutdownComplete
<1> QED
  BY <1>2, <1>5, <1>6, <1>7, OutsideWork DEF StreamInv

\* Shutdown goes on to the next connection unless this one is out of step or its server fails:
\* what is in step has nothing but the answer to quit on it.
LEMMA Endings ==
  ASSUME StreamInv,
         EndConnection \/ AllEnded \/ \E w \in Workers : TerminateProcess(w)
  PROVE  StreamInv'
<1>1. count \in 0..NumWorkers /\ NumWorkers \in Nat /\ ended \subseteq Workers
  BY StreamTransferAssumption DEF StreamInv, StreamTypes
<1>2. /\ UNCHANGED <<mode, verifies, store, remote, job, outOfStep, reported, count, ctx>>
      /\ phase = "end"
  BY DEF EndConnection, AllEnded, TerminateProcess, objects, conv
<1>3. \A w \in Workers : Idle(w) /\ Idle(w)'
  BY <1>2 DEF StreamInv, Ending, Idle
<1>4. CASE EndConnection
  <2>1. /\ Ssh /\ Cardinality(ended) < count /\ ended' = ended \cup {Cardinality(ended)}
        /\ phase' = IF EndsWell(wire'[Cardinality(ended)]) THEN phase ELSE "done"
    BY <1>4 DEF EndConnection
  <2>2. PICK n \in 0..count : ended = 0..(n - 1)
    BY <1>2, <2>1 DEF StreamInv, Ending
  <2>3. Cardinality(ended) = n
    BY <1>1, <2>2, FS_Interval
  <2>4. /\ n < count /\ n + 1 \in 0..count /\ ended' = 0..((n + 1) - 1) /\ ended' = 0..n
        /\ n \in Workers /\ n \in 0..(count - 1) /\ n \notin ended /\ n \in ended'
    BY <1>1, <2>1, <2>2, <2>3 DEF Workers
  <2>5. PICK a \in Failures \cup {<<Status("ok"), Flush>>, <<>>} :
          wire' = [wire EXCEPT ![n] = @ \o a] /\ (a = <<>> => Gone(n))
    <3>1. \A a \in Failures \cup {<<Status("ok"), Flush>>} : a # <<>>
      BY DEF Failures, Refusal
    <3> QED
      BY <1>4, <2>3, <3>1 DEF EndConnection
  <2>6. a \in Seq(Packet)
    <3>1. <<>> \in Seq(Packet)
      OBVIOUS
    <3> QED
      BY <2>5, <3>1, FailureType
  <2>7. /\ wire' \in [Workers -> Seq(Packet)]
        /\ \A v \in Workers \ {n} : wire'[v] = wire[v]
        /\ wire[n] = <<>> => wire'[n] = a
    BY <2>4, <2>5, <2>6, AnswerPut
  <2>8. n \notin outOfStep => EndsWell(wire'[n]) \/ wire'[n] \in Failures
    <3>1. SUFFICES ASSUME n \notin outOfStep PROVE EndsWell(wire'[n]) \/ wire'[n] \in Failures
      OBVIOUS
    <3>2. wire[n] = <<>>
      BY <1>3, <2>1, <2>4, <3>1 DEF StreamInv, WorkerFits, InStep
    <3>3. wire'[n] = a /\ a # <<>>
      BY <2>5, <2>7, <3>2 DEF Gone
    <3>4. EndsWell(<<Status("ok"), Flush>>)
      BY DEF EndsWell, Status, P
    <3> QED
      BY <2>5, <3>3, <3>4
  <2>9. StreamTypes'
    BY <1>2, <2>1, <2>3, <2>4, <2>7 DEF StreamInv, StreamTypes
  <2>10. Ending'
    BY <1>2, <1>3, <2>1, <2>3, <2>4 DEF Ending, Ssh
  <2>11. ShutdownComplete'
    <3>1. Failures' = Failures
      BY DEF Failures, Refusal, Status, Flush, Delim, Text, P
    <3> QED
      BY <1>2, <2>1, <2>3, <2>4, <2>8, <3>1 DEF ShutdownComplete, Ssh
  <2> QED
    BY <1>2, <2>1, <2>4, <2>7, <2>9, <2>10, <2>11, OutsideWork DEF StreamInv
<1>5. CASE AllEnded
  <2>1. ended = 0..(count - 1) /\ phase' = "done" /\ ended' = ended /\ wire' = wire
    BY <1>5 DEF AllEnded, conv
  <2>2. StreamTypes'
    BY <1>2, <2>1 DEF StreamInv, StreamTypes
  <2>3. Ending' /\ ShutdownComplete'
    BY <1>2, <1>3, <2>1 DEF Ending, ShutdownComplete
  <2> QED
    BY <1>2, <2>1, <2>2, <2>3, OutsideWork DEF StreamInv
<1>6. ASSUME NEW w \in Workers, TerminateProcess(w) PROVE StreamInv'
  <2>1. ~Ssh /\ ended' = ended \cup {w} /\ phase' = phase /\ wire' = wire
    BY <1>6 DEF TerminateProcess
  <2>2. StreamTypes'
    BY <1>2, <2>1 DEF StreamInv, StreamTypes
  <2>3. Ending' /\ ShutdownComplete'
    BY <1>2, <1>3, <2>1 DEF Ending, ShutdownComplete, Ssh
  <2> QED
    BY <1>2, <2>1, <2>2, <2>3, OutsideWork DEF StreamInv
<1> QED
  BY <1>4, <1>5, <1>6

-----------------------------------------------------------------------------
(* The theorems *)

\* The initial states.
LEMMA StreamInit ==
  ASSUME Init
  PROVE  StreamInv
<1>1. /\ mode \in Downloads \cup {"ssh put", "custom put", "file put"} /\ verifies \in BOOLEAN
      /\ store = [o \in Oids |-> IF mode \in Downloads THEN None ELSE o]
      /\ remote \in [Oids -> Contents] /\ count = IF Ssh THEN 1 ELSE 0
      /\ ctx = <<>> /\ wire = [w \in Workers |-> <<>>] /\ ended = {}
      /\ job = [w \in Workers |-> NoJob] /\ outOfStep = {}
      /\ reported = [o \in Oids |-> "no"] /\ phase = "begin"
  BY DEF Init, Contents
<1>0. count \in {0, 1}
  BY DEF Init
<1>2. NoJob \in StreamJob /\ NoJob.op = "idle"
  BY DEF NoJob, StreamJob, Contents, Values
<1>3. \A w \in Workers : wire[w] = <<>> /\ Idle(w)
  BY <1>1, <1>2 DEF Idle
<1>4. StreamTypes
  <2>1. count \in 0..NumWorkers
    BY <1>0, StreamTransferAssumption
  <2>2. store \in [Oids -> Contents]
    BY <1>1 DEF Contents
  <2>3. wire \in [Workers -> Seq(Packet)]
    BY <1>1, EmptySeq
  <2>5. ctx \in Seq(BOOLEAN)
    BY <1>1, EmptySeq
  <2>4. job \in [Workers -> StreamJob] /\ reported \in [Oids -> {"no", "yes", "stale"}]
    BY <1>1, <1>2
  <2> QED
    BY <1>1, <2>1, <2>2, <2>3, <2>4, <2>5 DEF StreamTypes
<1>5. \A w \in Workers : WorkerFits(w)
  BY <1>1, <1>2, <1>3 DEF WorkerFits, OfAdapter, InStep, AgentInStep, Idle, NoJob
<1>6. Ending /\ ShutdownComplete
  BY <1>1, <1>3 DEF Ending, ShutdownComplete
<1>7. TransferredIsThere
  BY <1>1 DEF TransferredIsThere
<1> QED
  BY <1>4, <1>5, <1>6, <1>7 DEF StreamInv

\* Every step keeps the invariant.
LEMMA StreamStep ==
  ASSUME StreamInv, Next
  PROVE  StreamInv'
<1>1. ASSUME NEW w \in Workers, Read(w) PROVE StreamInv'
  BY <1>1, PacketsRead, AnswersLeft, GetEnds, LinesEnd, VerifySent, MessagesRead DEF Read
<1>2. ASSUME NEW w \in Workers, NEW o \in Oids,
             StartCustom(w, o) \/ StartUploadToFile(w, o) \/ StartDownloadFromFile(w, o)
      PROVE  StreamInv'
  BY <1>2, CustomStarts
<1> QED
  BY <1>1, <1>2, SshStarts, AnswersLeft, Beginnings, Endings DEF Next

\* A step that changes nothing.
LEMMA StreamStutter ==
  ASSUME StreamInv, UNCHANGED vars
  PROVE  StreamInv'
<1>1. UNCHANGED <<mode, verifies, store, remote, wire, job, outOfStep, reported, count, ctx, ended, phase>>
  BY DEF vars, objects, conv
<1>2. StreamTypes'
  BY <1>1 DEF StreamInv, StreamTypes
<1>3. Ending' /\ ShutdownComplete'
  BY <1>1 DEF StreamInv, Ending, ShutdownComplete, Idle, Ssh, Failures, Refusal, Status, Flush, Delim, Text, P
<1> QED
  BY <1>1, <1>2, <1>3, OutsideWork DEF StreamInv

\* The invariant of the conversations (tq/ssh.go, tq/custom.go, ssh/connection.go).
THEOREM StreamInvariant ==
  Spec => []StreamInv
<1>1. Init => StreamInv
  BY StreamInit
<1>2. StreamInv /\ [Next]_vars => StreamInv'
  BY StreamStep, StreamStutter
<1> QED
  BY <1>1, <1>2, PTL DEF Spec

\* Whatever answers earlier transfers left on a connection or in a process's output, a file of
\* the store has its object's content, and what is reported as transferred is there; an upload
\* over ssh if its worker was in step (ssh.go:283-302, custom.go:302-323).
THEOREM StreamedIsThere ==
  Spec => []TransferredIsThere
<1>1. StreamInv => TransferredIsThere
  BY DEF StreamInv
<1> QED
  BY <1>1, StreamInvariant, PTL

\* Shutdown leaves no connection or process that was started but the connections after one
\* that is out of step or whose server fails at quit (connection.go:104-109).
THEOREM ShutdownEndsAll ==
  Spec => []ShutdownComplete
<1>1. StreamInv => ShutdownComplete
  BY DEF StreamInv
<1> QED
  BY <1>1, StreamInvariant, PTL
=============================================================================
