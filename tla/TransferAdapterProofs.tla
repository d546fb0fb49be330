----------------------- MODULE TransferAdapterProofs -----------------------
(***************************************************************************)
(* Proofs about TransferAdapter, for any set of transfers, any number of   *)
(* workers, any capacity of jobChan and any number of Begin calls: the     *)
(* pool keeps the contract of the Adapter interface, and one worker alone  *)
(* makes the first login.  The contract rests on an exact account of where *)
(* every transfer is: jobWait counts the transfers that are still to be    *)
(* fed, in a channel or in a worker's hands, none of them twice.           *)
(*                                                                         *)
(* And about HttpTransfer, what such a worker does over HTTP, for any      *)
(* number of workers, any size of the object and any number of failures.   *)
(* HttpInv is the inductive invariant: what a worker hashes is what it     *)
(* writes, a worker is only in a phase of the adapter in use, and the      *)
(* server's part of a tus upload is a beginning of the object to which one *)
(* worker at a time adds.                                                  *)
(***************************************************************************)
EXTENDS TransferAdapter, HttpTransfer, FiniteSetTheorems, SequenceTheorems, TLAPS

QueueStates  == {"idle", "begin", "failed", "begun", "collect", "end", "joined", "ended"}
Busy         == {"request", "transfer", "result", "done"}
WorkerStates == Busy \cup {"none", "auth", "ready", "loop", "ending", "stopped"}

TypeOK ==
  /\ queue \in QueueStates /\ begins \in 0..MaxBegins /\ starting \in 0..Concurrency
  /\ given \in SUBSET Jobs /\ answered \in SUBSET Jobs /\ toFeed \in SUBSET Jobs
  /\ authWait \in Int /\ jobWait \in Int
  /\ jobChan \in [Begins -> Seq(Jobs)]
  /\ feeder \in {"none", "send", "wait"} /\ resultsClosed \in BOOLEAN
  /\ worker \in [Workers -> WorkerStates] /\ range \in [Workers -> 0..MaxBegins]
  /\ job \in [Workers -> SUBSET Jobs]

Elems(s) == {s[i] : i \in 1..Len(s)}
Distinct(s) == \A i, j \in 1..Len(s) : s[i] = s[j] => i = j

\* The transfers in a channel, those that workers hold, and all that jobWait counts.
InChan == {j \in Jobs : \E b \in Begins : j \in Elems(jobChan[b])}
InHand == {j \in Jobs : \E w \in Workers : j \in job[w]}
Out    == toFeed \cup InChan \cup InHand

\* Only the channel of the last Begin is in use, and workers range over some channel.
Places ==
  /\ queue # "idle" => begins \in Begins
  /\ \A w \in Workers : worker[w] # "none" => begins \in Begins
  /\ \A w \in Workers : worker[w] \in Busy \cup {"loop"} => range[w] \in Begins
  /\ \A b \in Begins : b # begins => jobChan[b] = <<>>
  /\ \A w \in Workers : worker[w] \in Busy => \E j \in Jobs : job[w] = {j}
  /\ \A w \in Workers : worker[w] \notin Busy => job[w] = {}

\* A transfer that was given and is not done is in one place.
OnePlace ==
  /\ \A b \in Begins : Distinct(jobChan[b])
  /\ toFeed \cap (InChan \cup InHand) = {} /\ InChan \cap InHand = {}
  /\ \A v, w \in Workers : v # w => job[v] \cap job[w] = {}

\* What was given and is not answered is somewhere; only a worker between its result and
\* its Done holds a transfer that is answered.
Answers ==
  /\ Out \subseteq given /\ answered \subseteq given /\ given \ answered \subseteq Out
  /\ (toFeed \cup InChan) \cap answered = {}
  /\ \A w \in Workers : worker[w] # "done" => job[w] \cap answered = {}
  /\ \A w \in Workers : worker[w] = "done" => job[w] \subseteq answered

\* The queue reads the results of one Add before it goes on.
Rounds ==
  /\ queue \in {"idle", "begin", "failed"} => given = {}
  /\ queue # "collect" => feeder = "none"
  /\ feeder = "none" => Out = {}
  /\ feeder = "wait" => toFeed = {}
  /\ queue = "collect" => (feeder = "none" <=> resultsClosed)

JobWaitCounts == jobWait = Cardinality(Out)

\* No worker but the first goes on before the first login.
Waiting ==
  /\ begins = 0 => \A w \in Workers : worker[w] = "none"
  /\ begins = 1 /\ authWait > 0 =>
       \A w \in Workers : w[2] # 0 => worker[w] \in {"none", "auth"}

IInv == TypeOK /\ Places /\ OnePlace /\ Answers /\ Rounds /\ JobWaitCounts /\ Waiting

USE DEF queueVars, chanVars, feedVars, workerVars, history

-----------------------------------------------------------------------------
(* Sequences *)

\* A send on a channel adds one transfer to what the channel holds.
LEMMA ElemsAppend ==
  ASSUME NEW S, NEW s \in Seq(S), NEW e \in S
  PROVE  /\ Elems(Append(s, e)) = Elems(s) \cup {e}
         /\ Distinct(s) /\ e \notin Elems(s) => Distinct(Append(s, e))
  BY DEF Elems, Distinct

\* A receive from a channel takes one transfer out of it.
LEMMA ElemsTail ==
  ASSUME NEW S, NEW s \in Seq(S), s # <<>>, Distinct(s)
  PROVE  /\ Head(s) \in S /\ Tail(s) \in Seq(S)
         /\ Elems(s) = Elems(Tail(s)) \cup {Head(s)} /\ Head(s) \notin Elems(Tail(s))
         /\ Distinct(Tail(s))
<1>1. Len(s) \in Nat \ {0} /\ Tail(s) \in Seq(S) /\ Len(Tail(s)) = Len(s) - 1
  OBVIOUS
<1>2. Head(s) = s[1] /\ \A i \in 1..Len(Tail(s)) : Tail(s)[i] = s[i + 1]
  OBVIOUS
<1>3. \A i \in 1..Len(s) : i # 1 => i - 1 \in 1..Len(Tail(s)) /\ Tail(s)[i - 1] = s[i]
  BY <1>1, <1>2
<1>4. Elems(s) \subseteq Elems(Tail(s)) \cup {Head(s)}
  <2> SUFFICES ASSUME NEW i \in 1..Len(s), i # 1 PROVE s[i] \in Elems(Tail(s))
    BY <1>2 DEF Elems
  <2> QED
    BY <1>3 DEF Elems
<1>5. Elems(Tail(s)) \cup {Head(s)} \subseteq Elems(s)
  BY <1>1, <1>2 DEF Elems
<1>6. Head(s) \notin Elems(Tail(s)) /\ Distinct(Tail(s))
  BY <1>1, <1>2 DEF Elems, Distinct
<1> QED
  BY <1>1, <1>2, <1>4, <1>5, <1>6

-----------------------------------------------------------------------------
(* Types and places *)

\* Types and places hold at the start.
LEMMA TypeInit == Init => TypeOK /\ Places
<1> SUFFICES ASSUME Init PROVE TypeOK /\ Places
  OBVIOUS
<1>1. jobChan \in [Begins -> Seq(Jobs)]
  BY DEF Init
<1>2. /\ worker \in [Workers -> WorkerStates] /\ range \in [Workers -> 0..MaxBegins]
      /\ job \in [Workers -> SUBSET Jobs]
  BY AdapterAssumption DEF Init, WorkerStates, None
<1>3. begins \in 0..MaxBegins /\ starting \in 0..Concurrency /\ authWait \in Int /\ jobWait \in Int
  BY AdapterAssumption DEF Init
<1>4. TypeOK
  BY <1>1, <1>2, <1>3 DEF Init, TypeOK, QueueStates
<1> QED
  BY <1>4, AdapterAssumption DEF Init, Places, None, Busy, Begins

\* Types are kept by every step.
LEMMA TypeStep == TypeOK /\ Places /\ Rounds /\ [Next]_vars => TypeOK'
<1> SUFFICES ASSUME TypeOK, Places, Rounds, [Next]_vars PROVE TypeOK'
  OBVIOUS
<1> USE AdapterAssumption DEF TypeOK
<1>1. ASSUME Begin PROVE TypeOK'
  BY <1>1 DEF Begin, QueueStates
<1>2. ASSUME StartWorker PROVE TypeOK'
  <2>1. worker' \in [Workers -> WorkerStates]
    BY <1>2 DEF StartWorker, WorkerStates
  <2>2. starting' \in 0..Concurrency
    BY <1>2 DEF StartWorker
  <2>3. UNCHANGED <<queue, begins, given, answered, toFeed, authWait, jobWait, jobChan, feeder,
                    resultsClosed, range, job>>
    BY <1>2 DEF StartWorker
  <2> QED
    BY <2>1, <2>2, <2>3
<1>3. ASSUME StartFails PROVE TypeOK'
  BY <1>3 DEF StartFails, QueueStates
<1>4. ASSUME Begun PROVE TypeOK'
  BY <1>4 DEF Begun, QueueStates
<1>5. ASSUME GiveUp PROVE TypeOK'
  BY <1>5 DEF GiveUp, QueueStates
<1>6. ASSUME NEW js \in SUBSET Jobs, Add(js) PROVE TypeOK'
  <2>1. Cardinality(js) \in Nat
    BY FS_Subset, FS_CardinalityType
  <2>2. jobWait' \in Int
    BY <1>6, <2>1 DEF Add
  <2>3. given' \in SUBSET Jobs /\ toFeed' \in SUBSET Jobs
    BY <1>6 DEF Add
  <2> QED
    BY <1>6, <2>2, <2>3 DEF Add, QueueStates
<1>7. ASSUME Collected PROVE TypeOK'
  BY <1>7 DEF Collected, QueueStates
<1>8. ASSUME CallEnd PROVE TypeOK'
  BY <1>8 DEF CallEnd, QueueStates
<1>9. ASSUME CloseJobChan PROVE TypeOK'
  BY <1>9 DEF CloseJobChan, QueueStates
<1>10. ASSUME EndReturn PROVE TypeOK'
  BY <1>10 DEF EndReturn, QueueStates
<1>11. ASSUME NEW j \in Jobs, Feed(j) PROVE TypeOK'
  <2>1. begins \in Begins /\ jobChan[begins] \in Seq(Jobs)
    BY <1>11 DEF Feed, Rounds, Places
  <2>2. Append(jobChan[begins], j) \in Seq(Jobs)
    BY <2>1
  <2>3. jobChan' \in [Begins -> Seq(Jobs)]
    BY <1>11, <2>2 DEF Feed
  <2> QED
    BY <1>11, <2>3 DEF Feed
<1>12. ASSUME FedAll PROVE TypeOK'
  BY <1>12 DEF FedAll
<1>13. ASSUME CloseResults PROVE TypeOK'
  BY <1>13 DEF CloseResults
<1>14. ASSUME NEW w \in Workers, AuthPassed(w) PROVE TypeOK'
  BY <1>14 DEF AuthPassed, WorkerStates, Busy
<1>15. ASSUME NEW w \in Workers, EnterLoop(w) PROVE TypeOK'
  BY <1>15 DEF EnterLoop, WorkerStates, Busy
<1>16. ASSUME NEW w \in Workers, TakeJob(w) PROVE TypeOK'
  <2>1. range[w] \in Begins /\ jobChan[range[w]] \in Seq(Jobs) /\ jobChan[range[w]] # <<>>
    BY <1>16 DEF TakeJob, Places
  <2>2. Head(jobChan[range[w]]) \in Jobs /\ Tail(jobChan[range[w]]) \in Seq(Jobs)
    BY <2>1
  <2>3. jobChan' \in [Begins -> Seq(Jobs)] /\ job' \in [Workers -> SUBSET Jobs]
    BY <1>16, <2>2 DEF TakeJob
  <2> QED
    BY <1>16, <2>3 DEF TakeJob, WorkerStates, Busy
<1>17. ASSUME NEW w \in Workers, Respond(w) PROVE TypeOK'
  BY <1>17 DEF Respond, SignalAuth, WorkerStates, Busy
<1>18. ASSUME NEW w \in Workers, FirstRead(w) PROVE TypeOK'
  BY <1>18 DEF FirstRead, SignalAuth
<1>19. ASSUME NEW w \in Workers, Transferred(w) PROVE TypeOK'
  BY <1>19 DEF Transferred, WorkerStates, Busy
<1>20. ASSUME NEW w \in Workers, SendResult(w) PROVE TypeOK'
  BY <1>20 DEF SendResult, WorkerStates, Busy
<1>21. ASSUME NEW w \in Workers, JobDone(w) PROVE TypeOK'
  BY <1>21 DEF JobDone, WorkerStates, None
<1>22. ASSUME NEW w \in Workers, LeaveLoop(w) PROVE TypeOK'
  BY <1>22 DEF LeaveLoop, SignalAuth, WorkerStates
<1>23. ASSUME NEW w \in Workers, WorkerStops(w) PROVE TypeOK'
  BY <1>23 DEF WorkerStops, WorkerStates, Busy
<1>24. CASE UNCHANGED vars
  BY <1>24 DEF vars
<1> QED
  BY <1>1, <1>2, <1>3, <1>4, <1>5, <1>6, <1>7, <1>8, <1>9, <1>10, <1>11, <1>12,
     <1>13, <1>14, <1>15, <1>16, <1>17, <1>18, <1>19, <1>20, <1>21, <1>22, <1>23, <1>24
     DEF Next, Queue, Feeder, Worker, Terminated

\* Places are kept by every step.
LEMMA PlacesStep == TypeOK /\ Places /\ Rounds /\ [Next]_vars => Places'
<1> SUFFICES ASSUME TypeOK, Places, Rounds, [Next]_vars PROVE Places'
  OBVIOUS
<1> USE AdapterAssumption DEF TypeOK, Places
<1>1. ASSUME Begin PROVE Places'
  <2>1. \A b \in Begins : jobChan[b] = <<>>
    <3> SUFFICES ASSUME NEW b \in Begins, jobChan[b] # <<>> PROVE FALSE
      OBVIOUS
    <3>1. Head(jobChan[b]) \in Elems(jobChan[b])
      BY DEF Elems
    <3> QED
      BY <1>1, <3>1 DEF Begin, Rounds, Out, InChan, QueueStates
  <2>2. begins' \in Begins
    BY <1>1 DEF Begin, Begins
  <2> QED
    BY <1>1, <2>1, <2>2 DEF Begin
<1>2. ASSUME StartWorker PROVE Places'
  <2>1. \A v \in Workers : job[v] = {}
    BY <1>2 DEF StartWorker, Rounds, Out, InHand
  <2>2. \A v \in Workers : worker[v] \notin Busy
    BY <2>1
  <2>3. \A v \in Workers : worker'[v] = worker[v] \/ worker'[v] \in {"auth", "ready"}
    BY <1>2 DEF StartWorker
  <2>4. begins \in Begins /\ UNCHANGED <<queue, begins, range, job, jobChan>>
    BY <1>2 DEF StartWorker
  <2> QED
    BY <2>1, <2>2, <2>3, <2>4 DEF Busy
<1>3. ASSUME StartFails PROVE Places'
  BY <1>3 DEF StartFails, Busy
<1>4. ASSUME Begun PROVE Places'
  BY <1>4 DEF Begun, Busy
<1>5. ASSUME GiveUp PROVE Places'
  BY <1>5 DEF GiveUp, Busy
<1>6. ASSUME NEW js \in SUBSET Jobs, Add(js) PROVE Places'
  BY <1>6 DEF Add, Busy
<1>7. ASSUME Collected PROVE Places'
  BY <1>7 DEF Collected, Busy
<1>8. ASSUME CallEnd PROVE Places'
  BY <1>8 DEF CallEnd, Busy
<1>9. ASSUME CloseJobChan PROVE Places'
  BY <1>9 DEF CloseJobChan, Busy
<1>10. ASSUME EndReturn PROVE Places'
  BY <1>10 DEF EndReturn, Busy
<1>11. ASSUME NEW j \in Jobs, Feed(j) PROVE Places'
  BY <1>11 DEF Feed, Busy
<1>12. ASSUME FedAll PROVE Places'
  BY <1>12 DEF FedAll, Busy
<1>13. ASSUME CloseResults PROVE Places'
  BY <1>13 DEF CloseResults, Busy
<1>14. ASSUME NEW w \in Workers, AuthPassed(w) PROVE Places'
  BY <1>14 DEF AuthPassed, Busy
<1>15. ASSUME NEW w \in Workers, EnterLoop(w) PROVE Places'
  BY <1>15 DEF EnterLoop, Busy
<1>16. ASSUME NEW w \in Workers, TakeJob(w) PROVE Places'
  <2>1. range[w] \in Begins /\ jobChan[range[w]] \in Seq(Jobs) /\ jobChan[range[w]] # <<>>
    BY <1>16 DEF TakeJob
  <2>2. Head(jobChan[range[w]]) \in Jobs /\ range[w] = begins
    BY <2>1
  <2>3. \A v \in Workers : v # w => worker'[v] = worker[v] /\ job'[v] = job[v]
    BY <1>16 DEF TakeJob
  <2>4. worker'[w] \in {"result", "request"} /\ job'[w] = {Head(jobChan[range[w]])}
    BY <1>16 DEF TakeJob
  <2>5. UNCHANGED <<range, queue, begins>>
    BY <1>16 DEF TakeJob
  <2>6. \A b \in Begins : b # begins => jobChan'[b] = <<>>
    BY <1>16, <2>2 DEF TakeJob
  <2>7. \A v \in Workers : worker'[v] \in Busy => \E j \in Jobs : job'[v] = {j}
    BY <2>2, <2>3, <2>4
  <2>8. \A v \in Workers : worker'[v] \in Busy \cup {"loop"} => range'[v] \in Begins
    BY <2>1, <2>3, <2>4, <2>5
  <2>9. \A v \in Workers : worker'[v] \notin Busy => job'[v] = {}
    BY <2>3, <2>4 DEF Busy
  <2> QED
    BY <2>1, <2>2, <2>5, <2>6, <2>7, <2>8, <2>9
<1>17. ASSUME NEW w \in Workers, Respond(w) PROVE Places'
  BY <1>17 DEF Respond, Busy
<1>18. ASSUME NEW w \in Workers, FirstRead(w) PROVE Places'
  BY <1>18 DEF FirstRead, Busy
<1>19. ASSUME NEW w \in Workers, Transferred(w) PROVE Places'
  BY <1>19 DEF Transferred, Busy
<1>20. ASSUME NEW w \in Workers, SendResult(w) PROVE Places'
  BY <1>20 DEF SendResult, Busy
<1>21. ASSUME NEW w \in Workers, JobDone(w) PROVE Places'
  BY <1>21 DEF JobDone, Busy, None
<1>22. ASSUME NEW w \in Workers, LeaveLoop(w) PROVE Places'
  BY <1>22 DEF LeaveLoop, Busy
<1>23. ASSUME NEW w \in Workers, WorkerStops(w) PROVE Places'
  BY <1>23 DEF WorkerStops, Busy
<1>24. CASE UNCHANGED vars
  BY <1>24 DEF vars
<1> QED
  BY <1>1, <1>2, <1>3, <1>4, <1>5, <1>6, <1>7, <1>8, <1>9, <1>10, <1>11, <1>12,
     <1>13, <1>14, <1>15, <1>16, <1>17, <1>18, <1>19, <1>20, <1>21, <1>22, <1>23, <1>24
     DEF Next, Queue, Feeder, Worker, Terminated

-----------------------------------------------------------------------------
(* How transfers move *)

\* A step that moves no transfer.
Stay == UNCHANGED <<toFeed, jobChan, job>>

\* Where nothing moves, everything stays in its place.
LEMMA StayPlaces ==
  ASSUME Stay
  PROVE  InChan' = InChan /\ InHand' = InHand /\ Out' = Out /\ (OnePlace => OnePlace')
  BY DEF Stay, InChan, InHand, Out, OnePlace

\* Feed moves a transfer from Add's goroutine to the channel.
LEMMA FeedMoves ==
  ASSUME TypeOK, Places, OnePlace, Rounds, NEW j \in Jobs, Feed(j)
  PROVE  /\ j \in toFeed /\ toFeed' = toFeed \ {j}
         /\ InChan' = InChan \cup {j} /\ InHand' = InHand /\ Out' = Out
         /\ OnePlace'
<1> USE DEF TypeOK
<1>1. j \in toFeed /\ toFeed' = toFeed \ {j} /\ job' = job
  BY DEF Feed
<1>2. begins \in Begins
  BY DEF Feed, Rounds, Places
<1>3. /\ jobChan'[begins] = Append(jobChan[begins], j)
      /\ \A b \in Begins : b # begins => jobChan'[b] = jobChan[b]
  BY <1>2 DEF Feed
<1>4. j \notin Elems(jobChan[begins])
  BY <1>1, <1>2 DEF OnePlace, InChan
<1>5. /\ Elems(jobChan'[begins]) = Elems(jobChan[begins]) \cup {j}
      /\ Distinct(jobChan'[begins])
  BY <1>2, <1>3, <1>4, ElemsAppend DEF OnePlace
<1>6. InChan' = InChan \cup {j}
  BY <1>2, <1>3, <1>5 DEF InChan
<1>7. InHand' = InHand
  BY <1>1 DEF InHand
<1>8. \A b \in Begins : Distinct(jobChan'[b])
  BY <1>3, <1>5 DEF OnePlace
<1>9. OnePlace'
  BY <1>1, <1>6, <1>7, <1>8 DEF OnePlace
<1> QED
  BY <1>1, <1>6, <1>7, <1>9 DEF Out

\* TakeJob moves a transfer from the channel to a worker.
LEMMA TakeMoves ==
  ASSUME TypeOK, Places, OnePlace, NEW w \in Workers, TakeJob(w)
  PROVE  \E h \in Jobs :
           /\ h \in InChan /\ InChan' = InChan \ {h}
           /\ job'[w] = {h} /\ \A v \in Workers : v # w => job'[v] = job[v]
           /\ InHand' = InHand \cup {h} /\ toFeed' = toFeed /\ Out' = Out
           /\ OnePlace'
<1> USE DEF TypeOK
<1> DEFINE b == range[w]
           c == jobChan[b]
           h == Head(c)
<1>1. b \in Begins /\ c \in Seq(Jobs) /\ c # <<>> /\ Distinct(c) /\ job[w] = {}
  BY DEF TakeJob, Places, OnePlace, Busy
<1>2. /\ h \in Jobs /\ Elems(c) = Elems(Tail(c)) \cup {h} /\ h \notin Elems(Tail(c))
      /\ Distinct(Tail(c))
  BY <1>1, ElemsTail
<1>3. /\ jobChan'[b] = Tail(c) /\ \A a \in Begins : a # b => jobChan'[a] = jobChan[a]
      /\ job'[w] = {h} /\ \A v \in Workers : v # w => job'[v] = job[v]
      /\ toFeed' = toFeed
  BY <1>1 DEF TakeJob
<1>4. \A a \in Begins : a # b => Elems(jobChan[a]) = {}
  BY <1>1 DEF Places, Elems
<1> HIDE DEF b, c, h
<1>5. InChan' = InChan \ {h} /\ h \in InChan
  <2>1. InChan = Elems(c)
    <3>1. Elems(c) \subseteq Jobs
      BY <1>1 DEF Elems
    <3> QED
      BY <1>1, <1>4, <3>1 DEF InChan, c
  <2>2. InChan' = Elems(Tail(c))
    <3>1. \A a \in Begins : a # b => Elems(jobChan'[a]) = {}
      BY <1>3, <1>4
    <3>2. Elems(Tail(c)) \subseteq Jobs
      BY <1>1 DEF Elems
    <3> QED
      BY <1>1, <1>3, <3>1, <3>2 DEF InChan
  <2> QED
    BY <1>2, <2>1, <2>2
<1>6. InHand' = InHand \cup {h}
  BY <1>1, <1>2, <1>3 DEF InHand
<1>7. \A a \in Begins : Distinct(jobChan'[a])
  BY <1>2, <1>3 DEF OnePlace
<1>8. \A v \in Workers : h \notin job[v]
  BY <1>2, <1>5 DEF OnePlace, InHand
<1>9. OnePlace'
  <2>1. toFeed' \cap (InChan' \cup InHand') = {} /\ InChan' \cap InHand' = {}
    BY <1>3, <1>5, <1>6 DEF OnePlace
  <2>2. \A u, v \in Workers : u # v => job'[u] \cap job'[v] = {}
    BY <1>3, <1>8 DEF OnePlace
  <2> QED
    BY <1>7, <2>1, <2>2 DEF OnePlace
<1>10. Out' = Out
  BY <1>3, <1>5, <1>6 DEF Out
<1> QED
  BY <1>2, <1>3, <1>5, <1>6, <1>9, <1>10

\* JobDone lets go of the worker's transfer.
LEMMA DoneMoves ==
  ASSUME TypeOK, Places, OnePlace, NEW w \in Workers, JobDone(w)
  PROVE  \E j \in Jobs :
           /\ job[w] = {j} /\ job'[w] = {} /\ \A v \in Workers : v # w => job'[v] = job[v]
           /\ InChan' = InChan /\ toFeed' = toFeed
           /\ j \in Out /\ Out' = Out \ {j}
           /\ OnePlace'
<1> USE DEF TypeOK
<1>1. PICK j \in Jobs : job[w] = {j}
  BY DEF JobDone, Places, Busy
<1>2. /\ job'[w] = {} /\ \A v \in Workers : v # w => job'[v] = job[v]
      /\ toFeed' = toFeed /\ jobChan' = jobChan
  BY DEF JobDone, None
<1>3. InChan' = InChan
  BY <1>2 DEF InChan
<1>4. InHand' = InHand \ {j} /\ j \in InHand
  BY <1>1, <1>2 DEF InHand, OnePlace
<1>5. OnePlace'
  <2>1. \A u, v \in Workers : u # v => job'[u] \cap job'[v] = {}
    BY <1>2 DEF OnePlace
  <2> QED
    BY <1>2, <1>3, <1>4, <2>1 DEF OnePlace
<1>6. j \in Out /\ Out' = Out \ {j}
  BY <1>2, <1>3, <1>4 DEF Out, OnePlace
<1> QED
  BY <1>1, <1>2, <1>3, <1>5, <1>6

\* Add gives its goroutine a set of transfers while no other is anywhere.
LEMMA AddMoves ==
  ASSUME Rounds, OnePlace, NEW js \in SUBSET Jobs, Add(js)
  PROVE  /\ Out = {} /\ InChan' = {} /\ InHand' = {} /\ toFeed' = js /\ Out' = js
         /\ job' = job /\ OnePlace'
<1>1. Out = {} /\ toFeed' = js /\ job' = job /\ jobChan' = jobChan
  BY DEF Add, Rounds
<1>2. InChan' = {} /\ InHand' = {}
  BY <1>1 DEF Out, InChan, InHand
<1> QED
  BY <1>1, <1>2 DEF Out, OnePlace

\* No transfer is ever in two places.
LEMMA OnePlaceStep == TypeOK /\ Places /\ Rounds /\ OnePlace /\ [Next]_vars => OnePlace'
<1> SUFFICES ASSUME TypeOK, Places, Rounds, OnePlace, [Next]_vars PROVE OnePlace'
  OBVIOUS
<1>a. Stay => OnePlace'
  BY StayPlaces
<1>1. ASSUME Begin PROVE OnePlace'
  BY <1>1, <1>a DEF Begin, Stay
<1>2. ASSUME StartWorker PROVE OnePlace'
  BY <1>2, <1>a DEF StartWorker, Stay
<1>3. ASSUME StartFails PROVE OnePlace'
  BY <1>3, <1>a DEF StartFails, Stay
<1>4. ASSUME Begun PROVE OnePlace'
  BY <1>4, <1>a DEF Begun, Stay
<1>5. ASSUME GiveUp PROVE OnePlace'
  BY <1>5, <1>a DEF GiveUp, Stay
<1>6. ASSUME NEW js \in SUBSET Jobs, Add(js) PROVE OnePlace'
  BY <1>6, AddMoves
<1>7. ASSUME Collected PROVE OnePlace'
  BY <1>7, <1>a DEF Collected, Stay
<1>8. ASSUME CallEnd PROVE OnePlace'
  BY <1>8, <1>a DEF CallEnd, Stay
<1>9. ASSUME CloseJobChan PROVE OnePlace'
  BY <1>9, <1>a DEF CloseJobChan, Stay
<1>10. ASSUME EndReturn PROVE OnePlace'
  BY <1>10, <1>a DEF EndReturn, Stay
<1>11. ASSUME NEW j \in Jobs, Feed(j) PROVE OnePlace'
  BY <1>11, FeedMoves
<1>12. ASSUME FedAll PROVE OnePlace'
  BY <1>12, <1>a DEF FedAll, Stay
<1>13. ASSUME CloseResults PROVE OnePlace'
  BY <1>13, <1>a DEF CloseResults, Stay
<1>14. ASSUME NEW w \in Workers, AuthPassed(w) PROVE OnePlace'
  BY <1>14, <1>a DEF AuthPassed, Stay
<1>15. ASSUME NEW w \in Workers, EnterLoop(w) PROVE OnePlace'
  BY <1>15, <1>a DEF EnterLoop, Stay
<1>16. ASSUME NEW w \in Workers, TakeJob(w) PROVE OnePlace'
  BY <1>16, TakeMoves
<1>17. ASSUME NEW w \in Workers, Respond(w) PROVE OnePlace'
  BY <1>17, <1>a DEF Respond, Stay
<1>18. ASSUME NEW w \in Workers, FirstRead(w) PROVE OnePlace'
  BY <1>18, <1>a DEF FirstRead, Stay
<1>19. ASSUME NEW w \in Workers, Transferred(w) PROVE OnePlace'
  BY <1>19, <1>a DEF Transferred, Stay
<1>20. ASSUME NEW w \in Workers, SendResult(w) PROVE OnePlace'
  BY <1>20, <1>a DEF SendResult, Stay
<1>21. ASSUME NEW w \in Workers, JobDone(w) PROVE OnePlace'
  BY <1>21, DoneMoves
<1>22. ASSUME NEW w \in Workers, LeaveLoop(w) PROVE OnePlace'
  BY <1>22, <1>a DEF LeaveLoop, Stay
<1>23. ASSUME NEW w \in Workers, WorkerStops(w) PROVE OnePlace'
  BY <1>23, <1>a DEF WorkerStops, Stay
<1>24. CASE UNCHANGED vars
  BY <1>24, <1>a DEF vars, Stay
<1> QED
  BY <1>1, <1>2, <1>3, <1>4, <1>5, <1>6, <1>7, <1>8, <1>9, <1>10, <1>11, <1>12,
     <1>13, <1>14, <1>15, <1>16, <1>17, <1>18, <1>19, <1>20, <1>21, <1>22, <1>23, <1>24
     DEF Next, Queue, Feeder, Worker, Terminated

\* Every transfer is answered while a worker holds it, and once.
LEMMA AnswersStep ==
  TypeOK /\ Places /\ Rounds /\ OnePlace /\ Answers /\ [Next]_vars => Answers'
<1> SUFFICES ASSUME TypeOK, Places, Rounds, OnePlace, Answers, [Next]_vars PROVE Answers'
  OBVIOUS
<1>a. ASSUME Stay, UNCHANGED <<given, answered, worker>> PROVE Answers'
  BY <1>a, StayPlaces DEF Answers, Stay
<1>b. ASSUME NEW w \in Workers, worker[w] # "done", Stay, UNCHANGED <<given, answered>>,
             NEW s, s # "done", worker' = [worker EXCEPT ![w] = s]
      PROVE  Answers'
  <2>1. \A v \in Workers : worker'[v] = IF v = w THEN s ELSE worker[v]
    BY <1>b DEF TypeOK
  <2>2. \A v \in Workers : (worker'[v] = "done") <=> (worker[v] = "done")
    BY <1>b, <2>1
  <2> QED
    BY <1>b, <2>2, StayPlaces DEF Answers, Stay
<1>1. ASSUME Begin PROVE Answers'
  BY <1>1, <1>a DEF Begin, Stay
<1>2. ASSUME StartWorker PROVE Answers'
  <2>1. \A v \in Workers : job[v] = {}
    BY <1>2 DEF StartWorker, Rounds, Out, InHand, TypeOK
  <2>2. Stay /\ UNCHANGED <<given, answered>>
    BY <1>2 DEF StartWorker, Stay
  <2>3. job' = job
    BY <2>2 DEF Stay
  <2> QED
    BY <2>1, <2>2, <2>3, StayPlaces DEF Answers, Stay
<1>3. ASSUME StartFails PROVE Answers'
  BY <1>3, <1>a DEF StartFails, Stay
<1>4. ASSUME Begun PROVE Answers'
  BY <1>4, <1>a DEF Begun, Stay
<1>5. ASSUME GiveUp PROVE Answers'
  BY <1>5, <1>a DEF GiveUp, Stay
<1>6. ASSUME NEW js \in SUBSET Jobs, Add(js) PROVE Answers'
  <2>1. /\ Out = {} /\ InChan' = {} /\ InHand' = {} /\ toFeed' = js /\ Out' = js
        /\ job' = job
    BY <1>6, AddMoves
  <2>2. js \cap given = {} /\ given' = given \cup js /\ UNCHANGED <<answered, worker>>
    BY <1>6 DEF Add
  <2> QED
    BY <2>1, <2>2 DEF Answers
<1>7. ASSUME Collected PROVE Answers'
  BY <1>7, <1>a DEF Collected, Stay
<1>8. ASSUME CallEnd PROVE Answers'
  BY <1>8, <1>a DEF CallEnd, Stay
<1>9. ASSUME CloseJobChan PROVE Answers'
  BY <1>9, <1>a DEF CloseJobChan, Stay
<1>10. ASSUME EndReturn PROVE Answers'
  BY <1>10, <1>a DEF EndReturn, Stay
<1>11. ASSUME NEW j \in Jobs, Feed(j) PROVE Answers'
  <2>1. UNCHANGED <<given, answered, worker, job>>
    BY <1>11 DEF Feed
  <2> QED
    BY <1>11, <2>1, FeedMoves DEF Answers
<1>12. ASSUME FedAll PROVE Answers'
  BY <1>12, <1>a DEF FedAll, Stay
<1>13. ASSUME CloseResults PROVE Answers'
  BY <1>13, <1>a DEF CloseResults, Stay
<1>14. ASSUME NEW w \in Workers, AuthPassed(w) PROVE Answers'
  BY <1>14, <1>b DEF AuthPassed, Stay
<1>15. ASSUME NEW w \in Workers, EnterLoop(w) PROVE Answers'
  BY <1>15, <1>b DEF EnterLoop, Stay
<1>16. ASSUME NEW w \in Workers, TakeJob(w) PROVE Answers'
  <2>1. PICK h \in Jobs :
          /\ h \in InChan /\ InChan' = InChan \ {h}
          /\ job'[w] = {h} /\ \A v \in Workers : v # w => job'[v] = job[v]
          /\ toFeed' = toFeed /\ Out' = Out
    BY <1>16, TakeMoves
  <2>2. /\ UNCHANGED <<given, answered>>
        /\ worker'[w] # "done" /\ \A v \in Workers : v # w => worker'[v] = worker[v]
    BY <1>16 DEF TakeJob, TypeOK
  <2> QED
    BY <2>1, <2>2 DEF Answers
<1>17. ASSUME NEW w \in Workers, Respond(w) PROVE Answers'
  BY <1>17, <1>b DEF Respond, Stay
<1>18. ASSUME NEW w \in Workers, FirstRead(w) PROVE Answers'
  BY <1>18, <1>a DEF FirstRead, Stay
<1>19. ASSUME NEW w \in Workers, Transferred(w) PROVE Answers'
  BY <1>19, <1>b DEF Transferred, Stay
<1>20. ASSUME NEW w \in Workers, SendResult(w) PROVE Answers'
  <2>1. Stay /\ given' = given /\ answered' = answered \cup job[w]
    BY <1>20 DEF SendResult, Stay
  <2>2. /\ worker[w] = "result" /\ worker'[w] = "done"
        /\ \A v \in Workers : v # w => worker'[v] = worker[v]
    BY <1>20 DEF SendResult, TypeOK
  <2>3. /\ InChan' = InChan /\ InHand' = InHand /\ Out' = Out /\ toFeed' = toFeed
        /\ job' = job
    BY <2>1, StayPlaces DEF Stay
  <2>4. job[w] \subseteq InHand
    BY DEF InHand, TypeOK
  <2>5. answered' \subseteq given' /\ given' \ answered' \subseteq Out' /\ Out' \subseteq given'
    BY <2>1, <2>3, <2>4 DEF Answers, Out
  <2>6. (toFeed' \cup InChan') \cap answered' = {}
    BY <2>1, <2>3, <2>4 DEF Answers, OnePlace
  <2>7. \A v \in Workers : worker'[v] # "done" => job'[v] \cap answered' = {}
    BY <2>1, <2>2, <2>3 DEF Answers, OnePlace
  <2>8. \A v \in Workers : worker'[v] = "done" => job'[v] \subseteq answered'
    BY <2>1, <2>2, <2>3 DEF Answers
  <2> QED
    BY <2>5, <2>6, <2>7, <2>8 DEF Answers
<1>21. ASSUME NEW w \in Workers, JobDone(w) PROVE Answers'
  <2>1. PICK j \in Jobs :
          /\ job[w] = {j} /\ job'[w] = {} /\ \A v \in Workers : v # w => job'[v] = job[v]
          /\ InChan' = InChan /\ toFeed' = toFeed /\ Out' = Out \ {j}
    BY <1>21, DoneMoves
  <2>2. /\ UNCHANGED <<given, answered>> /\ worker[w] = "done"
        /\ \A v \in Workers : v # w => worker'[v] = worker[v]
    BY <1>21 DEF JobDone, TypeOK
  <2>3. j \in answered
    BY <2>1, <2>2 DEF Answers
  <2>4. \A v \in Workers : worker'[v] # "done" => job'[v] \cap answered' = {}
    BY <2>1, <2>2 DEF Answers
  <2>5. \A v \in Workers : worker'[v] = "done" => job'[v] \subseteq answered'
    BY <2>1, <2>2 DEF Answers
  <2> QED
    BY <2>1, <2>2, <2>3, <2>4, <2>5 DEF Answers
<1>22. ASSUME NEW w \in Workers, LeaveLoop(w) PROVE Answers'
  BY <1>22, <1>b DEF LeaveLoop, Stay
<1>23. ASSUME NEW w \in Workers, WorkerStops(w) PROVE Answers'
  BY <1>23, <1>b DEF WorkerStops, Stay
<1>24. CASE UNCHANGED vars
  BY <1>24, <1>a DEF vars, Stay
<1> QED
  BY <1>1, <1>2, <1>3, <1>4, <1>5, <1>6, <1>7, <1>8, <1>9, <1>10, <1>11, <1>12,
     <1>13, <1>14, <1>15, <1>16, <1>17, <1>18, <1>19, <1>20, <1>21, <1>22, <1>23, <1>24
     DEF Next, Queue, Feeder, Worker, Terminated

\* jobWait counts what is given to Add and not done.
LEMMA CountStep ==
  TypeOK /\ Places /\ Rounds /\ OnePlace /\ JobWaitCounts /\ [Next]_vars => JobWaitCounts'
<1> SUFFICES ASSUME TypeOK, Places, Rounds, OnePlace, JobWaitCounts, [Next]_vars PROVE JobWaitCounts'
  OBVIOUS
<1>a. ASSUME Stay, jobWait' = jobWait PROVE JobWaitCounts'
  BY <1>a, StayPlaces DEF JobWaitCounts
<1>b. IsFiniteSet(Out)
  <2>1. Out \subseteq Jobs
    BY DEF Out, InChan, InHand, TypeOK
  <2> QED
    BY <2>1, FS_Subset, AdapterAssumption
<1>1. ASSUME Begin PROVE JobWaitCounts'
  BY <1>1, <1>a DEF Begin, Stay
<1>2. ASSUME StartWorker PROVE JobWaitCounts'
  BY <1>2, <1>a DEF StartWorker, Stay
<1>3. ASSUME StartFails PROVE JobWaitCounts'
  BY <1>3, <1>a DEF StartFails, Stay
<1>4. ASSUME Begun PROVE JobWaitCounts'
  BY <1>4, <1>a DEF Begun, Stay
<1>5. ASSUME GiveUp PROVE JobWaitCounts'
  BY <1>5, <1>a DEF GiveUp, Stay
<1>6. ASSUME NEW js \in SUBSET Jobs, Add(js) PROVE JobWaitCounts'
  <2>1. Out = {} /\ Out' = js
    BY <1>6, AddMoves
  <2>2. Cardinality(Out) = 0 /\ Cardinality(js) \in Nat
    BY <2>1, FS_EmptySet, FS_Subset, FS_CardinalityType, AdapterAssumption
  <2> QED
    BY <1>6, <2>1, <2>2 DEF Add, JobWaitCounts
<1>7. ASSUME Collected PROVE JobWaitCounts'
  BY <1>7, <1>a DEF Collected, Stay
<1>8. ASSUME CallEnd PROVE JobWaitCounts'
  BY <1>8, <1>a DEF CallEnd, Stay
<1>9. ASSUME CloseJobChan PROVE JobWaitCounts'
  BY <1>9, <1>a DEF CloseJobChan, Stay
<1>10. ASSUME EndReturn PROVE JobWaitCounts'
  BY <1>10, <1>a DEF EndReturn, Stay
<1>11. ASSUME NEW j \in Jobs, Feed(j) PROVE JobWaitCounts'
  BY <1>11, FeedMoves DEF Feed, JobWaitCounts
<1>12. ASSUME FedAll PROVE JobWaitCounts'
  BY <1>12, <1>a DEF FedAll, Stay
<1>13. ASSUME CloseResults PROVE JobWaitCounts'
  BY <1>13, <1>a DEF CloseResults, Stay
<1>14. ASSUME NEW w \in Workers, AuthPassed(w) PROVE JobWaitCounts'
  BY <1>14, <1>a DEF AuthPassed, Stay
<1>15. ASSUME NEW w \in Workers, EnterLoop(w) PROVE JobWaitCounts'
  BY <1>15, <1>a DEF EnterLoop, Stay
<1>16. ASSUME NEW w \in Workers, TakeJob(w) PROVE JobWaitCounts'
  <2>1. Out' = Out /\ jobWait' = jobWait
    BY <1>16, TakeMoves DEF TakeJob
  <2> QED
    BY <2>1 DEF JobWaitCounts
<1>17. ASSUME NEW w \in Workers, Respond(w) PROVE JobWaitCounts'
  BY <1>17, <1>a DEF Respond, Stay
<1>18. ASSUME NEW w \in Workers, FirstRead(w) PROVE JobWaitCounts'
  BY <1>18, <1>a DEF FirstRead, Stay
<1>19. ASSUME NEW w \in Workers, Transferred(w) PROVE JobWaitCounts'
  BY <1>19, <1>a DEF Transferred, Stay
<1>20. ASSUME NEW w \in Workers, SendResult(w) PROVE JobWaitCounts'
  BY <1>20, <1>a DEF SendResult, Stay
<1>21. ASSUME NEW w \in Workers, JobDone(w) PROVE JobWaitCounts'
  <2>1. PICK j \in Jobs : j \in Out /\ Out' = Out \ {j}
    BY <1>21, DoneMoves
  <2>2. Cardinality(Out') = Cardinality(Out) - 1
    BY <1>b, <2>1, FS_RemoveElement
  <2> QED
    BY <1>21, <2>2 DEF JobDone, JobWaitCounts
<1>22. ASSUME NEW w \in Workers, LeaveLoop(w) PROVE JobWaitCounts'
  BY <1>22, <1>a DEF LeaveLoop, Stay
<1>23. ASSUME NEW w \in Workers, WorkerStops(w) PROVE JobWaitCounts'
  BY <1>23, <1>a DEF WorkerStops, Stay
<1>24. CASE UNCHANGED vars
  BY <1>24, <1>a DEF vars, Stay
<1> QED
  BY <1>1, <1>2, <1>3, <1>4, <1>5, <1>6, <1>7, <1>8, <1>9, <1>10, <1>11, <1>12,
     <1>13, <1>14, <1>15, <1>16, <1>17, <1>18, <1>19, <1>20, <1>21, <1>22, <1>23, <1>24
     DEF Next, Queue, Feeder, Worker, Terminated

\* The queue has all results of one Add before it goes on, and End leaves nothing behind.
LEMMA RoundsStep ==
  TypeOK /\ Places /\ Rounds /\ OnePlace /\ JobWaitCounts /\ [Next]_vars => Rounds'
<1> SUFFICES ASSUME TypeOK, Places, Rounds, OnePlace, JobWaitCounts, [Next]_vars PROVE Rounds'
  OBVIOUS
<1>a. ASSUME Out' \subseteq Out, toFeed' \subseteq toFeed,
             UNCHANGED <<queue, given, feeder, resultsClosed>>
      PROVE  Rounds'
  BY <1>a DEF Rounds
<1>b. Stay => Out' = Out /\ toFeed' = toFeed
  BY StayPlaces DEF Stay
<1>1. ASSUME Begin PROVE Rounds'
  BY <1>1, <1>b DEF Begin, Stay, Rounds, TypeOK
<1>2. ASSUME StartWorker PROVE Rounds'
  BY <1>2, <1>a, <1>b DEF StartWorker, Stay
<1>3. ASSUME StartFails PROVE Rounds'
  BY <1>3, <1>b DEF StartFails, Stay, Rounds, TypeOK
<1>4. ASSUME Begun PROVE Rounds'
  BY <1>4, <1>b DEF Begun, Stay, Rounds, TypeOK
<1>5. ASSUME GiveUp PROVE Rounds'
  BY <1>5, <1>b DEF GiveUp, Stay, Rounds, TypeOK
<1>6. ASSUME NEW js \in SUBSET Jobs, Add(js) PROVE Rounds'
  BY <1>6 DEF Add, Rounds
<1>7. ASSUME Collected PROVE Rounds'
  BY <1>7, <1>b DEF Collected, Stay, Rounds, TypeOK
<1>8. ASSUME CallEnd PROVE Rounds'
  BY <1>8, <1>b DEF CallEnd, Stay, Rounds, TypeOK
<1>9. ASSUME CloseJobChan PROVE Rounds'
  BY <1>9, <1>b DEF CloseJobChan, Stay, Rounds, TypeOK
<1>10. ASSUME EndReturn PROVE Rounds'
  BY <1>10, <1>b DEF EndReturn, Stay, Rounds, TypeOK
<1>11. ASSUME NEW j \in Jobs, Feed(j) PROVE Rounds'
  <2>1. Out' = Out /\ toFeed' \subseteq toFeed
    BY <1>11, FeedMoves
  <2> QED
    BY <1>11, <1>a, <2>1 DEF Feed
<1>12. ASSUME FedAll PROVE Rounds'
  BY <1>12, <1>b DEF FedAll, Stay, Rounds
<1>13. ASSUME CloseResults PROVE Rounds'
  <2>1. Out \subseteq Jobs
    BY DEF Out, InChan, InHand, TypeOK
  <2>2. IsFiniteSet(Out)
    BY <2>1, FS_Subset, AdapterAssumption
  <2>3. Out = {}
    BY <1>13, <2>2, FS_EmptySet DEF CloseResults, JobWaitCounts
  <2>4. Stay
    BY <1>13 DEF CloseResults, Stay
  <2> QED
    BY <1>13, <1>b, <2>3, <2>4 DEF CloseResults, Rounds
<1>14. ASSUME NEW w \in Workers, AuthPassed(w) PROVE Rounds'
  BY <1>14, <1>a, <1>b DEF AuthPassed, Stay
<1>15. ASSUME NEW w \in Workers, EnterLoop(w) PROVE Rounds'
  BY <1>15, <1>a, <1>b DEF EnterLoop, Stay
<1>16. ASSUME NEW w \in Workers, TakeJob(w) PROVE Rounds'
  <2>1. Out' = Out /\ toFeed' = toFeed
    BY <1>16, TakeMoves
  <2> QED
    BY <1>16, <1>a, <2>1 DEF TakeJob
<1>17. ASSUME NEW w \in Workers, Respond(w) PROVE Rounds'
  BY <1>17, <1>a, <1>b DEF Respond, Stay
<1>18. ASSUME NEW w \in Workers, FirstRead(w) PROVE Rounds'
  BY <1>18, <1>a, <1>b DEF FirstRead, Stay
<1>19. ASSUME NEW w \in Workers, Transferred(w) PROVE Rounds'
  BY <1>19, <1>a, <1>b DEF Transferred, Stay
<1>20. ASSUME NEW w \in Workers, SendResult(w) PROVE Rounds'
  BY <1>20, <1>a, <1>b DEF SendResult, Stay
<1>21. ASSUME NEW w \in Workers, JobDone(w) PROVE Rounds'
  <2>1. Out' \subseteq Out /\ toFeed' = toFeed
    BY <1>21, DoneMoves
  <2> QED
    BY <1>21, <1>a, <2>1 DEF JobDone
<1>22. ASSUME NEW w \in Workers, LeaveLoop(w) PROVE Rounds'
  BY <1>22, <1>a, <1>b DEF LeaveLoop, Stay
<1>23. ASSUME NEW w \in Workers, WorkerStops(w) PROVE Rounds'
  BY <1>23, <1>a, <1>b DEF WorkerStops, Stay
<1>24. CASE UNCHANGED vars
  BY <1>24, <1>a, <1>b DEF vars, Stay
<1> QED
  BY <1>1, <1>2, <1>3, <1>4, <1>5, <1>6, <1>7, <1>8, <1>9, <1>10, <1>11, <1>12,
     <1>13, <1>14, <1>15, <1>16, <1>17, <1>18, <1>19, <1>20, <1>21, <1>22, <1>23, <1>24
     DEF Next, Queue, Feeder, Worker, Terminated

\* Until the first login only worker 0 goes on: the others wait for authWait.
LEMMA WaitingStep == TypeOK /\ Places /\ Waiting /\ [Next]_vars => Waiting'
<1> SUFFICES ASSUME TypeOK, Places, Waiting, [Next]_vars PROVE Waiting'
  OBVIOUS
<1>a. ASSUME UNCHANGED <<begins, worker>>, authWait' <= authWait, authWait' \in Int PROVE Waiting'
  BY <1>a DEF Waiting, TypeOK
<1>b. ASSUME NEW w \in Workers, worker[w] \notin {"none", "auth"}, begins' = begins,
             authWait' <= authWait, authWait' \in Int,
             \A v \in Workers : v = w \/ worker'[v] = worker[v]
      PROVE  Waiting'
  <2>1. begins # 0
    BY <1>b DEF Places, Begins
  <2> QED
    BY <1>b, <2>1 DEF Waiting, TypeOK
<1>c. ASSUME NEW w \in Workers, SignalAuth(w) PROVE authWait' <= authWait /\ authWait' \in Int
  BY <1>c DEF SignalAuth, TypeOK
<1>1. ASSUME Begin PROVE Waiting'
  BY <1>1 DEF Begin, Waiting, TypeOK
<1>2. ASSUME StartWorker PROVE Waiting'
  <2>1. begins \in Begins /\ UNCHANGED <<begins, authWait>>
    BY <1>2 DEF StartWorker, Places
  <2>2. \A v \in Workers : \/ worker'[v] = worker[v]
                           \/ v = <<begins, starting>> /\ (starting # 0 => worker'[v] = "auth")
    BY <1>2 DEF StartWorker, TypeOK
  <2>3. \A v \in Workers : v[2] # 0 => worker'[v] = worker[v] \/ worker'[v] = "auth"
    BY <2>2
  <2> QED
    BY <2>1, <2>3 DEF Waiting, Begins
<1>3. ASSUME StartFails PROVE Waiting'
  BY <1>3, <1>a DEF StartFails, TypeOK
<1>4. ASSUME Begun PROVE Waiting'
  BY <1>4, <1>a DEF Begun, TypeOK
<1>5. ASSUME GiveUp PROVE Waiting'
  BY <1>5, <1>a DEF GiveUp, TypeOK
<1>6. ASSUME NEW js \in SUBSET Jobs, Add(js) PROVE Waiting'
  BY <1>6, <1>a DEF Add, TypeOK
<1>7. ASSUME Collected PROVE Waiting'
  BY <1>7, <1>a DEF Collected, TypeOK
<1>8. ASSUME CallEnd PROVE Waiting'
  BY <1>8, <1>a DEF CallEnd, TypeOK
<1>9. ASSUME CloseJobChan PROVE Waiting'
  BY <1>9, <1>a DEF CloseJobChan, TypeOK
<1>10. ASSUME EndReturn PROVE Waiting'
  BY <1>10, <1>a DEF EndReturn, TypeOK
<1>11. ASSUME NEW j \in Jobs, Feed(j) PROVE Waiting'
  BY <1>11, <1>a DEF Feed, TypeOK
<1>12. ASSUME FedAll PROVE Waiting'
  BY <1>12, <1>a DEF FedAll, TypeOK
<1>13. ASSUME CloseResults PROVE Waiting'
  BY <1>13, <1>a DEF CloseResults, TypeOK
<1>14. ASSUME NEW w \in Workers, AuthPassed(w) PROVE Waiting'
  <2>1. begins # 0 /\ begins' = begins /\ authWait' = 0
    BY <1>14 DEF AuthPassed, Places, Begins
  <2> QED
    BY <2>1 DEF Waiting
<1>15. ASSUME NEW w \in Workers, EnterLoop(w) PROVE Waiting'
  <2>1. worker[w] \notin {"none", "auth"} /\ begins' = begins
    BY <1>15 DEF EnterLoop
  <2>2. \A v \in Workers : v = w \/ worker'[v] = worker[v]
    BY <1>15 DEF EnterLoop, TypeOK
  <2>3. authWait' <= authWait /\ authWait' \in Int
    BY <1>15 DEF EnterLoop, TypeOK
  <2> QED
    BY <1>b, <2>1, <2>2, <2>3
<1>16. ASSUME NEW w \in Workers, TakeJob(w) PROVE Waiting'
  <2>1. worker[w] \notin {"none", "auth"} /\ begins' = begins
    BY <1>16 DEF TakeJob
  <2>2. \A v \in Workers : v = w \/ worker'[v] = worker[v]
    BY <1>16 DEF TakeJob, TypeOK
  <2>3. authWait' <= authWait /\ authWait' \in Int
    BY <1>16 DEF TakeJob, TypeOK
  <2> QED
    BY <1>b, <2>1, <2>2, <2>3
<1>17. ASSUME NEW w \in Workers, Respond(w) PROVE Waiting'
  <2>1. worker[w] \notin {"none", "auth"} /\ begins' = begins
    BY <1>17 DEF Respond
  <2>2. \A v \in Workers : v = w \/ worker'[v] = worker[v]
    BY <1>17 DEF Respond, TypeOK
  <2>3. authWait' <= authWait /\ authWait' \in Int
    BY <1>17, <1>c DEF Respond, TypeOK
  <2> QED
    BY <1>b, <2>1, <2>2, <2>3
<1>18. ASSUME NEW w \in Workers, FirstRead(w) PROVE Waiting'
  BY <1>18, <1>a, <1>c DEF FirstRead, TypeOK
<1>19. ASSUME NEW w \in Workers, Transferred(w) PROVE Waiting'
  <2>1. worker[w] \notin {"none", "auth"} /\ begins' = begins
    BY <1>19 DEF Transferred
  <2>2. \A v \in Workers : v = w \/ worker'[v] = worker[v]
    BY <1>19 DEF Transferred, TypeOK
  <2>3. authWait' <= authWait /\ authWait' \in Int
    BY <1>19 DEF Transferred, TypeOK
  <2> QED
    BY <1>b, <2>1, <2>2, <2>3
<1>20. ASSUME NEW w \in Workers, SendResult(w) PROVE Waiting'
  <2>1. worker[w] \notin {"none", "auth"} /\ begins' = begins
    BY <1>20 DEF SendResult
  <2>2. \A v \in Workers : v = w \/ worker'[v] = worker[v]
    BY <1>20 DEF SendResult, TypeOK
  <2>3. authWait' <= authWait /\ authWait' \in Int
    BY <1>20 DEF SendResult, TypeOK
  <2> QED
    BY <1>b, <2>1, <2>2, <2>3
<1>21. ASSUME NEW w \in Workers, JobDone(w) PROVE Waiting'
  <2>1. worker[w] \notin {"none", "auth"} /\ begins' = begins
    BY <1>21 DEF JobDone
  <2>2. \A v \in Workers : v = w \/ worker'[v] = worker[v]
    BY <1>21 DEF JobDone, TypeOK
  <2>3. authWait' <= authWait /\ authWait' \in Int
    BY <1>21 DEF JobDone, TypeOK
  <2> QED
    BY <1>b, <2>1, <2>2, <2>3
<1>22. ASSUME NEW w \in Workers, LeaveLoop(w) PROVE Waiting'
  <2>1. worker[w] \notin {"none", "auth"} /\ begins' = begins
    BY <1>22 DEF LeaveLoop
  <2>2. \A v \in Workers : v = w \/ worker'[v] = worker[v]
    BY <1>22 DEF LeaveLoop, TypeOK
  <2>3. authWait' <= authWait /\ authWait' \in Int
    BY <1>22, <1>c DEF LeaveLoop, TypeOK
  <2> QED
    BY <1>b, <2>1, <2>2, <2>3
<1>23. ASSUME NEW w \in Workers, WorkerStops(w) PROVE Waiting'
  <2>1. worker[w] \notin {"none", "auth"} /\ begins' = begins
    BY <1>23 DEF WorkerStops
  <2>2. \A v \in Workers : v = w \/ worker'[v] = worker[v]
    BY <1>23 DEF WorkerStops, TypeOK
  <2>3. authWait' <= authWait /\ authWait' \in Int
    BY <1>23 DEF WorkerStops, TypeOK
  <2> QED
    BY <1>b, <2>1, <2>2, <2>3
<1>24. CASE UNCHANGED vars
  BY <1>24, <1>a DEF vars, TypeOK
<1> QED
  BY <1>1, <1>2, <1>3, <1>4, <1>5, <1>6, <1>7, <1>8, <1>9, <1>10, <1>11, <1>12,
     <1>13, <1>14, <1>15, <1>16, <1>17, <1>18, <1>19, <1>20, <1>21, <1>22, <1>23, <1>24
     DEF Next, Queue, Feeder, Worker, Terminated

-----------------------------------------------------------------------------
(* Theorems *)

\* IInv holds at the start and is preserved by every step.
LEMMA Inductive == Spec => []IInv
<1>1. Init => IInv
  <2> SUFFICES ASSUME Init PROVE IInv
    OBVIOUS
  <2>1. TypeOK /\ Places
    BY TypeInit
  <2>2. \A b \in Begins : Elems(jobChan[b]) = {} /\ Distinct(jobChan[b])
    BY DEF Init, Elems, Distinct
  <2>3. InChan = {} /\ InHand = {} /\ Out = {}
    BY <2>2 DEF Init, InChan, InHand, Out, None
  <2>4. OnePlace
    BY <2>2, <2>3 DEF Init, OnePlace, None
  <2>5. Answers /\ Rounds
    BY <2>3 DEF Init, Answers, Rounds, None
  <2>6. JobWaitCounts
    BY <2>3, FS_EmptySet DEF Init, JobWaitCounts
  <2>7. Waiting
    BY DEF Init, Waiting
  <2> QED
    BY <2>1, <2>4, <2>5, <2>6, <2>7 DEF IInv
<1>2. IInv /\ [Next]_vars => IInv'
  BY TypeStep, PlacesStep, OnePlaceStep, AnswersStep, RoundsStep, CountStep, WaitingStep DEF IInv
<1> QED
  BY <1>1, <1>2, PTL DEF Spec

\* Until worker 0 has signalled that it is authenticated, no other worker has a request
\* under way.
THEOREM FirstLoginAlone == Spec => []OnlyFirstWorkerUntilSignal
<1>1. IInv => OnlyFirstWorkerUntilSignal
  BY DEF IInv, Waiting, OnlyFirstWorkerUntilSignal
<1> QED
  BY <1>1, Inductive, PTL

\* Every step of the pool is a step of the contract or leaves it unchanged.
LEMMA ContractStep == IInv /\ [Next]_vars => [Contract!Next]_(Contract!vars)
<1> SUFFICES ASSUME IInv, [Next]_vars PROVE [Contract!Next]_(Contract!vars)
  OBVIOUS
<1> USE DEF Contract!vars
<1>a. TypeOK /\ Places /\ OnePlace /\ Answers /\ Rounds
  BY DEF IInv
<1>b. feeder = "none" => given = answered
  BY <1>a DEF Rounds, Answers
<1>c. ASSUME UNCHANGED <<given, answered>>, (queue' = "ended") <=> (queue = "ended")
      PROVE  UNCHANGED Contract!vars
  BY <1>c
<1>d. ASSUME UNCHANGED <<given, answered>>, queue' = "ended", feeder = "none" PROVE Contract!Next
  BY <1>b, <1>d DEF Contract!Next, Contract!End
<1>1. ASSUME Begin PROVE [Contract!Next]_(Contract!vars)
  BY <1>1, <1>c DEF Begin
<1>2. ASSUME StartWorker PROVE [Contract!Next]_(Contract!vars)
  BY <1>2, <1>c DEF StartWorker
<1>3. ASSUME StartFails PROVE [Contract!Next]_(Contract!vars)
  BY <1>3, <1>c DEF StartFails
<1>4. ASSUME Begun PROVE [Contract!Next]_(Contract!vars)
  BY <1>4, <1>c DEF Begun
<1>5. ASSUME GiveUp PROVE [Contract!Next]_(Contract!vars)
  BY <1>5, <1>a, <1>d DEF GiveUp, Rounds
<1>6. ASSUME NEW js \in SUBSET Jobs, Add(js) PROVE [Contract!Next]_(Contract!vars)
  <2>1. queue = "begun" /\ queue' = "collect" /\ given = answered
    BY <1>6, <1>a, <1>b DEF Add, Rounds
  <2>2. Contract!Give(js)
    BY <1>6, <2>1 DEF Add, Contract!Give
  <2> QED
    BY <2>2 DEF Contract!Next
<1>7. ASSUME Collected PROVE [Contract!Next]_(Contract!vars)
  BY <1>7, <1>c DEF Collected
<1>8. ASSUME CallEnd PROVE [Contract!Next]_(Contract!vars)
  BY <1>8, <1>c DEF CallEnd
<1>9. ASSUME CloseJobChan PROVE [Contract!Next]_(Contract!vars)
  BY <1>9, <1>c DEF CloseJobChan
<1>10. ASSUME EndReturn PROVE [Contract!Next]_(Contract!vars)
  BY <1>10, <1>a, <1>d DEF EndReturn, Rounds
<1>11. ASSUME NEW j \in Jobs, Feed(j) PROVE [Contract!Next]_(Contract!vars)
  BY <1>11, <1>c DEF Feed
<1>12. ASSUME FedAll PROVE [Contract!Next]_(Contract!vars)
  BY <1>12, <1>c DEF FedAll
<1>13. ASSUME CloseResults PROVE [Contract!Next]_(Contract!vars)
  BY <1>13, <1>c DEF CloseResults
<1>14. ASSUME NEW w \in Workers, AuthPassed(w) PROVE [Contract!Next]_(Contract!vars)
  BY <1>14, <1>c DEF AuthPassed
<1>15. ASSUME NEW w \in Workers, EnterLoop(w) PROVE [Contract!Next]_(Contract!vars)
  BY <1>15, <1>c DEF EnterLoop
<1>16. ASSUME NEW w \in Workers, TakeJob(w) PROVE [Contract!Next]_(Contract!vars)
  BY <1>16, <1>c DEF TakeJob
<1>17. ASSUME NEW w \in Workers, Respond(w) PROVE [Contract!Next]_(Contract!vars)
  BY <1>17, <1>c DEF Respond
<1>18. ASSUME NEW w \in Workers, FirstRead(w) PROVE [Contract!Next]_(Contract!vars)
  BY <1>18, <1>c DEF FirstRead
<1>19. ASSUME NEW w \in Workers, Transferred(w) PROVE [Contract!Next]_(Contract!vars)
  BY <1>19, <1>c DEF Transferred
<1>20. ASSUME NEW w \in Workers, SendResult(w) PROVE [Contract!Next]_(Contract!vars)
  <2>1. PICK j \in Jobs : job[w] = {j}
    BY <1>20, <1>a DEF SendResult, Places, Busy
  <2>2. j \in Out /\ j \in given \ answered
    BY <1>20, <1>a, <2>1 DEF SendResult, Answers, Out, InHand
  <2>3. queue = "collect"
    BY <1>a, <2>2 DEF Rounds
  <2>4. Contract!Answer(j)
    BY <1>20, <2>1, <2>2, <2>3 DEF SendResult, Contract!Answer
  <2> QED
    BY <2>4 DEF Contract!Next
<1>21. ASSUME NEW w \in Workers, JobDone(w) PROVE [Contract!Next]_(Contract!vars)
  BY <1>21, <1>c DEF JobDone
<1>22. ASSUME NEW w \in Workers, LeaveLoop(w) PROVE [Contract!Next]_(Contract!vars)
  BY <1>22, <1>c DEF LeaveLoop
<1>23. ASSUME NEW w \in Workers, WorkerStops(w) PROVE [Contract!Next]_(Contract!vars)
  BY <1>23, <1>c DEF WorkerStops
<1>24. CASE UNCHANGED vars
  BY <1>24, <1>c DEF vars
<1> QED
  BY <1>1, <1>2, <1>3, <1>4, <1>5, <1>6, <1>7, <1>8, <1>9, <1>10, <1>11, <1>12,
     <1>13, <1>14, <1>15, <1>16, <1>17, <1>18, <1>19, <1>20, <1>21, <1>22, <1>23, <1>24
     DEF Next, Queue, Feeder, Worker, Terminated

\* The pool implements the contract of the Adapter interface: every transfer given to Add
\* is answered once, before the next Add and before End returns.
THEOREM ContractKept == Spec => KeepsContract
<1>1. Init => Contract!Init
  BY DEF Init, Contract!Init
<1> QED
  BY <1>1, ContractStep, Inductive, PTL DEF Spec, KeepsContract, Contract!Spec

-----------------------------------------------------------------------------
(* Transfers over HTTP *)

Phases == {"idle", "get", "body", "put", "verify", "patch", "sending"}

JobType == [phase : Phases, tmp : Seq(Int), hash : Seq(Int), from : Nat, pos : Nat,
            tries : Nat, seek : BOOLEAN]

HttpTypes ==
  /\ mode \in {"download", "upload", "tus"} /\ verifies \in BOOLEAN
  /\ store \in Seq(Int) /\ part \in Seq(Int) /\ remote \in Seq(Int)
  /\ task \in [HttpWorkers -> JobType]
  /\ reported \in SUBSET HttpWorkers /\ resent \in BOOLEAN

PhasesOf(m) ==
  IF m = "download" THEN {"idle", "get", "body"}
  ELSE IF m = "upload" THEN {"idle", "put", "verify"}
  ELSE {"idle", "patch", "sending", "verify"}

\* The hash has seen exactly the bytes of the temporary file, also of a resumed one,
\* and the phase is one of the adapter in use.
Fits(j, m) == j \in JobType /\ j.tmp = j.hash /\ j.phase \in PhasesOf(m)

JobsFit == \A w \in HttpWorkers : Fits(task[w], mode)

\* What an upload sends.
SourceKept == mode # "download" => store = Right

Sending(w) == task[w].phase = "sending"

\* A tus upload that was not sent again has a beginning of the object on the server, one
\* worker at a time adds to it, and that one's position is the server's offset.
TusPrefix ==
  mode = "tus" /\ ~resent =>
    /\ Len(remote) <= Size
    /\ \A n \in 1..Len(remote) : remote[n] = n
    /\ \A w \in HttpWorkers : Sending(w) =>
         /\ task[w].pos = Len(remote)
         /\ task[w].seek \/ task[w].from = 0
         /\ \A v \in HttpWorkers : Sending(v) => v = w

Counted == faults \in Nat

HttpInv == HttpTypes /\ JobsFit /\ StoreValid /\ SourceKept /\ TusPrefix /\ Counted

-----------------------------------------------------------------------------
(* The values of a job *)

\* What the contents are.
LEMMA RightType == Right \in Seq(Int) /\ Len(Right) = Size /\ NoFile \in Seq(Int)
  BY HttpTransferAssumption DEF Right, NoFile

\* A content of the object's size whose bytes are the object's is the object.
LEMMA RightIsUnique ==
  ASSUME NEW c \in Seq(Int), Len(c) = Size, \A n \in 1..Len(c) : c[n] = n
  PROVE  c = Right
<1>1. c = [n \in 1..Size |-> c[n]]
  OBVIOUS
<1> QED
  BY <1>1 DEF Right

\* A beginning of a content.
LEMMA CutSequence ==
  ASSUME NEW c \in Seq(Int), NEW m \in Nat, NEW n \in m..(Len(c) - 1)
  PROVE  /\ SubSeq(c, 1, n) \in Seq(Int) /\ Len(SubSeq(c, 1, n)) = n
         /\ \A i \in 1..n : SubSeq(c, 1, n)[i] = c[i]
  OBVIOUS

\* A worker without a transfer.
LEMMA NoJobFits ==
  ASSUME NEW m
  PROVE  Fits(NoJob, m) /\ NoJob.phase = "idle"
<1>1. NoJob \in JobType
  BY DEF NoJob, JobType, Phases
<1>2. NoJob.phase = "idle" /\ NoJob.tmp = NoJob.hash
  BY DEF NoJob
<1> QED
  BY <1>1, <1>2 DEF Fits, PhasesOf

\* What StartDownload gives a worker.
LEMMA GetFits ==
  ASSUME NEW c \in Seq(Int)
  PROVE  Fits([NoJob EXCEPT !.phase = "get", !.tmp = c, !.hash = c, !.from = Len(c)], "download")
<1> DEFINE n == Len(c)
           j == [NoJob EXCEPT !.phase = "get", !.tmp = c, !.hash = c, !.from = n]
<1>1. n \in Nat /\ "get" \in Phases
  BY DEF Phases
<1> HIDE DEF n
<1>2. j \in JobType
  BY <1>1, NoJobFits DEF JobType, Fits
<1>3. j.phase = "get" /\ j.tmp = j.hash
  BY DEF NoJob
<1> QED
  BY <1>2, <1>3 DEF Fits, PhasesOf, n

\* Restart empties the file and the hash.
LEMMA RestartFits ==
  ASSUME NEW j, NEW m, Fits(j, m)
  PROVE  Fits(Restart(j), m) /\ Restart(j).phase = j.phase
<1> DEFINE e == <<>>
<1>1. e \in Seq(Int) /\ j \in JobType
  BY DEF Fits
<1> HIDE DEF e
<1>2. [j EXCEPT !.tmp = e, !.from = 0, !.hash = e, !.pos = 0] \in JobType
  BY <1>1 DEF JobType
<1>3. Restart(j).phase = j.phase /\ Restart(j).tmp = Restart(j).hash
  BY <1>1 DEF Restart, JobType
<1> QED
  BY <1>2, <1>3 DEF Fits, Restart, e

\* Copied adds a byte to the file and to the hash.
LEMMA CopiedFits ==
  ASSUME NEW j, NEW m, Fits(j, m), NEW b \in Int
  PROVE  Fits(Copied(j, b), m) /\ Copied(j, b).phase = j.phase
<1> DEFINE t == Append(j.tmp, b)
           h == Append(j.hash, b)
           n == j.pos + 1
<1>1. t \in Seq(Int) /\ h \in Seq(Int) /\ n \in Nat /\ j \in JobType
  BY DEF JobType, Fits
<1> HIDE DEF t, h, n
<1>2. [j EXCEPT !.tmp = t, !.hash = h, !.pos = n] \in JobType
  BY <1>1 DEF JobType
<1>3. /\ Copied(j, b).phase = j.phase
      /\ j.tmp = j.hash => Copied(j, b).tmp = Copied(j, b).hash
  BY <1>1 DEF Copied, JobType
<1> QED
  BY <1>2, <1>3 DEF Fits, Copied, t, h, n

\* A step that changes the phase only, or the phase with a position.
LEMMA PhaseFits ==
  ASSUME NEW j, NEW m, Fits(j, m), NEW f \in PhasesOf(m), NEW n \in Nat
  PROVE  /\ Fits([j EXCEPT !.phase = f], m)
         /\ Fits([j EXCEPT !.phase = f, !.pos = n], m)
         /\ Fits([j EXCEPT !.phase = f, !.from = n], m)
         /\ Fits([j EXCEPT !.phase = f, !.seek = TRUE, !.pos = n], m)
         /\ [j EXCEPT !.phase = f].phase = f
         /\ [j EXCEPT !.phase = f, !.pos = n].phase = f
         /\ [j EXCEPT !.phase = f, !.from = n].phase = f
         /\ LET k == [j EXCEPT !.phase = f, !.seek = TRUE, !.pos = n]
            IN  k.phase = f /\ k.pos = n /\ k.seek
<1>1. f \in Phases /\ j \in JobType
  BY DEF Phases, PhasesOf, Fits
<1>2. /\ [j EXCEPT !.phase = f] \in JobType
      /\ [j EXCEPT !.phase = f, !.pos = n] \in JobType
      /\ [j EXCEPT !.phase = f, !.from = n] \in JobType
      /\ [j EXCEPT !.phase = f, !.seek = TRUE, !.pos = n] \in JobType
  BY <1>1 DEF JobType
<1> QED
  BY <1>1, <1>2 DEF Fits, JobType

\* A step within a phase that counts a verification, a sent byte, or forgets the offset.
LEMMA CountFits ==
  ASSUME NEW j, NEW m, Fits(j, m)
  PROVE  /\ Fits([j EXCEPT !.tries = @ + 1], m)
         /\ Fits([j EXCEPT !.pos = @ + 1], m)
         /\ Fits([j EXCEPT !.seek = FALSE], m)
         /\ [j EXCEPT !.tries = @ + 1].phase = j.phase
         /\ LET k == [j EXCEPT !.pos = @ + 1]
            IN  k.phase = j.phase /\ k.pos = j.pos + 1 /\ k.seek = j.seek /\ k.from = j.from
         /\ LET k == [j EXCEPT !.seek = FALSE]
            IN  k.phase = j.phase /\ k.pos = j.pos /\ k.from = j.from
<1> DEFINE n == j.tries + 1
           p == j.pos + 1
<1>1. n \in Nat /\ p \in Nat /\ j \in JobType
  BY DEF JobType, Fits
<1> HIDE DEF n, p
<1>2. /\ [j EXCEPT !.tries = n] \in JobType
      /\ [j EXCEPT !.pos = p] \in JobType
      /\ [j EXCEPT !.seek = FALSE] \in JobType
  BY <1>1 DEF JobType
<1>3. /\ [j EXCEPT !.tries = n].phase = j.phase /\ [j EXCEPT !.tries = n].tmp = j.tmp
      /\ [j EXCEPT !.tries = n].hash = j.hash
      /\ LET k == [j EXCEPT !.pos = p]
         IN  /\ k.phase = j.phase /\ k.pos = p /\ k.seek = j.seek /\ k.from = j.from
             /\ k.tmp = j.tmp /\ k.hash = j.hash
      /\ LET k == [j EXCEPT !.seek = FALSE]
         IN  /\ k.phase = j.phase /\ k.pos = j.pos /\ k.from = j.from
             /\ k.tmp = j.tmp /\ k.hash = j.hash
  BY <1>1 DEF JobType
<1> QED
  BY <1>2, <1>3 DEF Fits, n, p

\* What Set leaves behind.
LEMMA SetFits ==
  ASSUME HttpTypes, JobsFit, mode' = mode, NEW w \in HttpWorkers, NEW j, Fits(j, mode), Set(w, j)
  PROVE  /\ task' \in [HttpWorkers -> JobType] /\ JobsFit'
         /\ task'[w] = j /\ \A v \in HttpWorkers : v # w => task'[v] = task[v]
<1>1. task' \in [HttpWorkers -> JobType]
  BY DEF HttpTypes, Fits, Set
<1>2. task'[w] = j /\ \A v \in HttpWorkers : v # w => task'[v] = task[v]
  BY DEF HttpTypes, Set
<1>3. \A v \in HttpWorkers : Fits(task'[v], mode)
  BY <1>2 DEF JobsFit
<1> QED
  BY <1>1, <1>2, <1>3 DEF JobsFit

-----------------------------------------------------------------------------
(* Types, hashes and phases *)

\* The parts of TypeOK besides the jobs.
Rest ==
  /\ mode \in {"download", "upload", "tus"} /\ verifies \in BOOLEAN
  /\ store \in Seq(Int) /\ part \in Seq(Int) /\ remote \in Seq(Int)
  /\ reported \in SUBSET HttpWorkers /\ resent \in BOOLEAN

\* The initial states are typed.
LEMMA HttpTypeInit == HttpInit => HttpTypes /\ JobsFit
<1> SUFFICES ASSUME HttpInit PROVE HttpTypes /\ JobsFit
  OBVIOUS
<1>1. <<>> \in Seq(Int)
  OBVIOUS
<1>2. \A w \in HttpWorkers : task[w] = NoJob
  BY DEF HttpInit
<1>3. Fits(NoJob, mode)
  BY NoJobFits
<1>4. Rest
  BY <1>1, RightType DEF HttpInit, Rest
<1> QED
  BY <1>2, <1>3, <1>4 DEF HttpTypes, Rest, JobsFit, Fits, HttpInit

\* Every action keeps the types, keeps the hash and the file alike, and stays within the
\* phases of the adapter.
LEMMA HttpTypeStep == HttpTypes /\ JobsFit /\ SourceKept /\ [HttpNext]_httpVars => HttpTypes' /\ JobsFit'
<1> SUFFICES ASSUME HttpTypes, JobsFit, SourceKept, [HttpNext]_httpVars PROVE HttpTypes' /\ JobsFit'
  OBVIOUS
<1>a. Rest /\ \A w \in HttpWorkers : Fits(task[w], mode) /\ task[w] \in JobType
  BY DEF HttpTypes, Rest, JobsFit
<1>b. ASSUME Rest', task' \in [HttpWorkers -> JobType], JobsFit' PROVE HttpTypes' /\ JobsFit'
  BY <1>b DEF HttpTypes, Rest
<1>c. Fits(NoJob, mode) /\ NoJob.phase = "idle"
  BY NoJobFits
<1>d. ASSUME NEW w \in HttpWorkers, NEW j, Fits(j, mode), Set(w, j), mode' = mode
      PROVE  task' \in [HttpWorkers -> JobType] /\ JobsFit'
  BY <1>d, SetFits
<1>e. ASSUME NEW w \in HttpWorkers, NEW j, Fits(j, mode), DownloadFails(w, j)
      PROVE  Rest' /\ task' \in [HttpWorkers -> JobType] /\ JobsFit'
  <2>1. Rest'
    BY <1>a, <1>e DEF DownloadFails, Rest, Ends, Fits, JobType
  <2> QED
    BY <1>c, <1>d, <1>e, <2>1 DEF DownloadFails
<1>f. ASSUME NEW w \in HttpWorkers, UploadFails(w), remote' \in Seq(Int)
      PROVE  Rest' /\ task' \in [HttpWorkers -> JobType] /\ JobsFit'
  <2>1. Rest'
    BY <1>a, <1>f DEF UploadFails, Rest, Ends
  <2> QED
    BY <1>c, <1>d, <1>f, <2>1 DEF UploadFails
<1>g. ASSUME NEW w \in HttpWorkers, ToVerify(w), mode \in {"upload", "tus"}, mode' = mode
      PROVE  /\ reported' \in SUBSET HttpWorkers
             /\ task' \in [HttpWorkers -> JobType] /\ JobsFit'
  <2>1. Fits([NoJob EXCEPT !.phase = "verify"], mode)
    <3>1. "verify" \in PhasesOf(mode)
      BY <1>g DEF PhasesOf
    <3> QED
      BY <1>c, <3>1, PhaseFits
  <2> QED
    BY <1>a, <1>c, <1>d, <1>g, <2>1 DEF ToVerify, Ends, Rest
<1>h. ASSUME NEW w \in HttpWorkers, VerifyAgain(w), mode' = mode
      PROVE  /\ reported' \in SUBSET HttpWorkers
             /\ task' \in [HttpWorkers -> JobType] /\ JobsFit'
  <2>1. Fits([task[w] EXCEPT !.tries = @ + 1], mode)
    BY <1>a, CountFits
  <2> QED
    BY <1>a, <1>c, <1>d, <1>h, <2>1 DEF VerifyAgain, Ends, Rest
<1>1. ASSUME NEW w \in HttpWorkers, StartDownload(w) PROVE HttpTypes' /\ JobsFit'
  <2> DEFINE found == IF part = NoFile THEN <<>> ELSE part
             tmp   == IF Resumable(found) THEN found ELSE <<>>
  <2>1. tmp \in Seq(Int)
    BY <1>a DEF Rest
  <2>2. Rest'
    BY <1>a, <1>1, RightType DEF StartDownload, Rest
  <2> HIDE DEF tmp
  <2>3. Fits([NoJob EXCEPT !.phase = "get", !.tmp = tmp, !.hash = tmp, !.from = Len(tmp)],
             "download")
    BY <2>1, GetFits
  <2> QED
    BY <1>b, <1>d, <1>1, <2>2, <2>3 DEF StartDownload, tmp
<1>2. ASSUME NEW w \in HttpWorkers, GetPartial(w) PROVE HttpTypes' /\ JobsFit'
  <2>1. "body" \in PhasesOf(mode) /\ task[w].from \in Nat
    BY <1>a, <1>2 DEF GetPartial, At, Fits, JobType, PhasesOf
  <2>2. Fits([task[w] EXCEPT !.phase = "body", !.pos = task[w].from], mode)
    BY <1>a, <2>1, PhaseFits
  <2>3. Rest'
    BY <1>a, <1>2 DEF GetPartial, Rest
  <2> QED
    BY <1>b, <1>d, <1>2, <2>2, <2>3 DEF GetPartial
<1>3. ASSUME NEW w \in HttpWorkers, GetAll(w) PROVE HttpTypes' /\ JobsFit'
  <2> DEFINE k == IF task[w].from > 0 THEN Restart(task[w]) ELSE task[w]
  <2>1. Fits(k, mode) /\ k.phase = "get"
    BY <1>a, <1>3, RestartFits DEF GetAll, At
  <2>2. Rest'
    BY <1>a, <1>3 DEF GetAll, Rest
  <2> HIDE DEF k
  <2>3. Fits([k EXCEPT !.phase = "body"], mode)
    <3>1. "body" \in PhasesOf(mode)
      BY <2>1 DEF Fits, PhasesOf
    <3> QED
      BY <2>1, <3>1, PhaseFits
  <2> QED
    BY <1>b, <1>d, <1>3, <2>2, <2>3 DEF GetAll, k
<1>4. ASSUME NEW w \in HttpWorkers, ReadBody(w) PROVE HttpTypes' /\ JobsFit'
  <2>1. Fits(Copied(task[w], task[w].pos + 1), mode)
    BY <1>4, <1>a, CopiedFits DEF JobType
  <2>2. Rest'
    BY <1>a, <1>4 DEF ReadBody, Rest
  <2> QED
    BY <1>b, <1>d, <1>4, <2>1, <2>2 DEF ReadBody
<1>5. ASSUME NEW w \in HttpWorkers, FinishDownload(w) PROVE HttpTypes' /\ JobsFit'
  <2>1. CASE HashMatches(task[w])
    <3>1. Rest'
      BY <1>a, <1>5, <2>1 DEF FinishDownload, Rest, Ends, JobType
    <3> QED
      BY <1>b, <1>c, <1>d, <1>5, <2>1, <3>1 DEF FinishDownload
  <2>2. CASE ~HashMatches(task[w])
    BY <1>a, <1>b, <1>e, <1>5, <2>2 DEF FinishDownload
  <2> QED
    BY <2>1, <2>2
<1>6. ASSUME NEW w \in HttpWorkers, StartUpload(w) PROVE HttpTypes' /\ JobsFit'
  <2>1. "put" \in PhasesOf(mode)
    BY <1>6 DEF StartUpload, PhasesOf
  <2>2. Fits([NoJob EXCEPT !.phase = "put"], mode)
    BY <1>c, <2>1, PhaseFits
  <2>3. Rest'
    BY <1>a, <1>6 DEF StartUpload, Rest
  <2> QED
    BY <1>b, <1>d, <1>6, <2>2, <2>3 DEF StartUpload
<1>7. ASSUME NEW w \in HttpWorkers, Put(w) PROVE HttpTypes' /\ JobsFit'
  <2>1. mode \in {"upload", "tus"}
    BY <1>a, <1>7 DEF Put, At, Fits, PhasesOf, Rest
  <2>2. reported' \in SUBSET HttpWorkers /\ task' \in [HttpWorkers -> JobType] /\ JobsFit'
    BY <1>g, <1>7, <2>1 DEF Put
  <2>3. Rest'
    BY <1>a, <1>7, <2>2 DEF Put, Rest
  <2> QED
    BY <1>b, <2>2, <2>3
<1>8. ASSUME NEW w \in HttpWorkers, Verify(w) PROVE HttpTypes' /\ JobsFit'
  <2>1. Rest'
    BY <1>a, <1>8 DEF Verify, Rest, Ends
  <2> QED
    BY <1>b, <1>c, <1>d, <1>8, <2>1 DEF Verify
<1>9. ASSUME NEW w \in HttpWorkers, VerifyRefused(w) PROVE HttpTypes' /\ JobsFit'
  <2>1. reported' \in SUBSET HttpWorkers /\ task' \in [HttpWorkers -> JobType] /\ JobsFit'
    BY <1>h, <1>9 DEF VerifyRefused
  <2>2. Rest'
    BY <1>a, <1>9, <2>1 DEF VerifyRefused, Rest
  <2> QED
    BY <1>b, <2>1, <2>2
<1>10. ASSUME NEW w \in HttpWorkers, HeadOffset(w) PROVE HttpTypes' /\ JobsFit'
  <2>1. Len(remote) \in Nat /\ "patch" \in PhasesOf(mode)
    BY <1>a, <1>10 DEF Rest, HeadOffset, PhasesOf
  <2>2. Fits([NoJob EXCEPT !.phase = "patch", !.from = Len(remote)], mode)
    BY <1>c, <2>1, PhaseFits
  <2>3. Rest'
    BY <1>a, <1>10 DEF HeadOffset, Rest, Ends
  <2> QED
    BY <1>b, <1>c, <1>d, <1>10, <2>2, <2>3 DEF HeadOffset
<1>11. ASSUME NEW w \in HttpWorkers, StartPatch(w) PROVE HttpTypes' /\ JobsFit'
  <2>1. Fits([task[w] EXCEPT !.phase = "sending", !.seek = TRUE, !.pos = task[w].from], mode)
    <3>1. "sending" \in PhasesOf(mode) /\ task[w].from \in Nat /\ task[w].tmp = task[w].hash
      BY <1>a, <1>11 DEF StartPatch, At, Fits, JobType, PhasesOf
    <3> QED
      BY <1>a, <3>1, PhaseFits
  <2>2. CASE task[w].from = Len(remote) /\ \A v \in HttpWorkers : ~At(v, "sending")
    <3>1. Rest'
      BY <1>a, <1>11, <2>2 DEF StartPatch, Rest
    <3> QED
      BY <1>b, <1>d, <1>11, <2>1, <2>2, <3>1 DEF StartPatch
  <2>3. CASE ~(task[w].from = Len(remote) /\ \A v \in HttpWorkers : ~At(v, "sending"))
    BY <1>a, <1>b, <1>f, <1>11, <2>3 DEF StartPatch, Rest
  <2> QED
    BY <2>2, <2>3
<1>12. ASSUME NEW w \in HttpWorkers, SendPatch(w) PROVE HttpTypes' /\ JobsFit'
  <2>1. SendByte(w) \in Int
    BY <1>a DEF SendByte, JobType
  <2>2. Fits([task[w] EXCEPT !.pos = @ + 1], mode)
    BY <1>a, CountFits
  <2>3. Rest'
    BY <1>a, <1>12, <2>1 DEF SendPatch, Rest
  <2> QED
    BY <1>b, <1>d, <1>12, <2>2, <2>3 DEF SendPatch
<1>13. ASSUME NEW w \in HttpWorkers, EndPatch(w) PROVE HttpTypes' /\ JobsFit'
  <2>1. mode \in {"upload", "tus"}
    BY <1>a, <1>13 DEF EndPatch, At, Fits, PhasesOf, Rest
  <2>2. reported' \in SUBSET HttpWorkers /\ task' \in [HttpWorkers -> JobType] /\ JobsFit'
    BY <1>g, <1>13, <2>1 DEF EndPatch
  <2>3. Rest'
    BY <1>a, <1>13, <2>2 DEF EndPatch, Rest
  <2> QED
    BY <1>b, <2>2, <2>3
<1>14. ASSUME NEW w \in HttpWorkers, CannotStart(w) PROVE HttpTypes' /\ JobsFit'
  BY <1>a, <1>14 DEF CannotStart, HttpTypes, JobsFit
<1>15. ASSUME NEW w \in HttpWorkers, GetRefused(w) PROVE HttpTypes' /\ JobsFit'
  BY <1>a, <1>b, <1>e, <1>15 DEF GetRefused
<1>16. ASSUME NEW w \in HttpWorkers, GetFromStart(w) PROVE HttpTypes' /\ JobsFit'
  <2>1. Fits(Restart(task[w]), mode)
    BY <1>16, <1>a, RestartFits
  <2>2. Rest'
    BY <1>a, <1>16 DEF GetFromStart, Rest
  <2> QED
    BY <1>b, <1>d, <1>16, <2>1, <2>2 DEF GetFromStart
<1>17. ASSUME NEW w \in HttpWorkers, ReadBadByte(w) PROVE HttpTypes' /\ JobsFit'
  <2>1. Fits(Copied(task[w], 0), mode)
    BY <1>17, <1>a, CopiedFits
  <2>2. Rest'
    BY <1>a, <1>17 DEF ReadBadByte, Rest
  <2> QED
    BY <1>b, <1>d, <1>17, <2>1, <2>2 DEF ReadBadByte
<1>18. ASSUME NEW w \in HttpWorkers, ReadFails(w) PROVE HttpTypes' /\ JobsFit'
  BY <1>a, <1>b, <1>e, <1>18 DEF ReadFails
<1>19. ASSUME NEW w \in HttpWorkers, RenameFails(w) PROVE HttpTypes' /\ JobsFit'
  <2>1. CASE store # NoFile
    <3>1. Rest'
      BY <1>a, <1>19, <2>1 DEF RenameFails, Rest, Ends
    <3> QED
      BY <1>b, <1>c, <1>d, <1>19, <2>1, <3>1 DEF RenameFails
  <2>2. CASE store = NoFile
    BY <1>a, <1>b, <1>e, <1>19, <2>2 DEF RenameFails
  <2> QED
    BY <2>1, <2>2
<1>20. ASSUME NEW w \in HttpWorkers, Dies(w) PROVE HttpTypes' /\ JobsFit'
  <2>1. Rest'
    BY <1>a, <1>20 DEF Dies, Rest, Ends
  <2> QED
    BY <1>b, <1>c, <1>d, <1>20, <2>1 DEF Dies
<1>21. ASSUME NEW w \in HttpWorkers, PutRefused(w) PROVE HttpTypes' /\ JobsFit'
  <2>1. remote' \in Seq(Int)
    BY <1>a, <1>21 DEF PutRefused, Rest
  <2> QED
    BY <1>b, <1>f, <1>21, <2>1 DEF PutRefused
<1>22. ASSUME NEW w \in HttpWorkers, PutDamaged(w) PROVE HttpTypes' /\ JobsFit'
  <2>1. mode \in {"upload", "tus"}
    BY <1>a, <1>22 DEF PutDamaged, At, Fits, PhasesOf, Rest
  <2>2. reported' \in SUBSET HttpWorkers /\ task' \in [HttpWorkers -> JobType] /\ JobsFit'
    BY <1>g, <1>22, <2>1 DEF PutDamaged
  <2>3. SubSeq(store, 1, Size - 1) \in Seq(Int)
    BY <2>1, RightType, HttpTransferAssumption DEF SourceKept
  <2>4. Rest'
    BY <1>a, <1>22, <2>2, <2>3 DEF PutDamaged, Rest
  <2> QED
    BY <1>b, <2>2, <2>4
<1>23. ASSUME NEW w \in HttpWorkers, VerifyLost(w) PROVE HttpTypes' /\ JobsFit'
  <2>1. reported' \in SUBSET HttpWorkers /\ task' \in [HttpWorkers -> JobType] /\ JobsFit'
    BY <1>h, <1>23 DEF VerifyLost
  <2>2. Rest'
    BY <1>a, <1>23, <2>1 DEF VerifyLost, Rest
  <2> QED
    BY <1>b, <2>1, <2>2
<1>24. ASSUME NEW w \in HttpWorkers, PatchFails(w) PROVE HttpTypes' /\ JobsFit'
  BY <1>a, <1>b, <1>f, <1>24 DEF PatchFails, Rest
<1>25. ASSUME NEW w \in HttpWorkers, PatchRedirected(w) PROVE HttpTypes' /\ JobsFit'
  <2>1. Fits([task[w] EXCEPT !.seek = FALSE], mode)
    BY <1>25, <1>a, CountFits
  <2>2. Rest'
    BY <1>a, <1>25 DEF PatchRedirected, Rest
  <2> QED
    BY <1>b, <1>d, <1>25, <2>1, <2>2 DEF PatchRedirected
<1>27. ASSUME NEW w \in HttpWorkers, CloseFails(w) PROVE HttpTypes' /\ JobsFit'
  BY <1>a, <1>b, <1>e, <1>27 DEF CloseFails
<1>28. ASSUME NEW w \in HttpWorkers, PatchShortened(w) PROVE HttpTypes' /\ JobsFit'
  <2>1. mode \in {"upload", "tus"}
    BY <1>a, <1>28 DEF PatchShortened, At, Fits, PhasesOf, Rest
  <2>2. reported' \in SUBSET HttpWorkers /\ task' \in [HttpWorkers -> JobType] /\ JobsFit'
    BY <1>g, <1>28, <2>1 DEF PatchShortened
  <2>3. remote' \in Seq(Int)
    BY <1>a, <1>28, CutSequence DEF PatchShortened, Rest, JobType
  <2>4. Rest'
    BY <1>a, <1>28, <2>2, <2>3 DEF PatchShortened, Rest
  <2> QED
    BY <1>b, <2>2, <2>4
<1>26. CASE UNCHANGED httpVars
  BY <1>a, <1>26 DEF httpVars, HttpTypes, JobsFit
<1> QED
  BY <1>1, <1>2, <1>3, <1>4, <1>5, <1>6, <1>7, <1>8, <1>9, <1>10, <1>11, <1>12, <1>13,
     <1>14, <1>15, <1>16, <1>17, <1>18, <1>19, <1>20, <1>21, <1>22, <1>23, <1>24, <1>25, <1>26,
     <1>27, <1>28 DEF HttpNext, Step, Failure

-----------------------------------------------------------------------------
(* The local store *)

\* A file reaches the store only with the hash of the object, hence with its bytes, and
\* an upload leaves the store alone.
LEMMA StoreStep == HttpTypes /\ JobsFit /\ StoreValid /\ SourceKept /\ [HttpNext]_httpVars => StoreValid' /\ SourceKept'
<1> SUFFICES ASSUME HttpTypes, JobsFit, StoreValid, SourceKept, [HttpNext]_httpVars
             PROVE  StoreValid' /\ SourceKept'
  OBVIOUS
<1>1. ASSUME UNCHANGED <<mode, store>> PROVE StoreValid' /\ SourceKept'
  BY <1>1 DEF StoreValid, SourceKept
<1>2. ASSUME NEW w \in HttpWorkers, FinishDownload(w) PROVE StoreValid' /\ SourceKept'
  <2>1. CASE HashMatches(task[w])
    <3>1. store' = Right /\ mode' = mode
      BY <1>2, <2>1 DEF FinishDownload, HashMatches, JobsFit, Fits
    <3> QED
      BY <3>1 DEF StoreValid, SourceKept
  <2>2. CASE ~HashMatches(task[w])
    BY <1>1, <1>2, <2>2 DEF FinishDownload, DownloadFails
  <2> QED
    BY <2>1, <2>2
<1>3. ASSUME NEW w \in HttpWorkers, Step(w), ~FinishDownload(w) PROVE UNCHANGED <<mode, store>>
  BY <1>3 DEF Step, StartDownload, GetPartial, GetAll, ReadBody, StartUpload, Put, Verify,
     VerifyRefused, HeadOffset, StartPatch, SendPatch, EndPatch, UploadFails
<1>4. ASSUME NEW w \in HttpWorkers, Failure(w) PROVE UNCHANGED <<mode, store>>
  BY <1>4 DEF Failure, CannotStart, GetRefused, GetFromStart, ReadBadByte, ReadFails,
     CloseFails, RenameFails, Dies, PutRefused, PutDamaged, VerifyLost, PatchShortened, PatchFails,
     PatchRedirected, DownloadFails, UploadFails
<1> QED
  BY <1>1, <1>2, <1>3, <1>4 DEF HttpNext, httpVars

-----------------------------------------------------------------------------
(* The server's part of a tus upload *)

\* The beginning of the object on the server grows by the object's next byte only.
LEMMA TusStep == HttpInv /\ [HttpNext]_httpVars => TusPrefix'
<1> SUFFICES ASSUME HttpInv, [HttpNext]_httpVars, mode' = "tus", ~resent' PROVE TusPrefix'
  BY DEF TusPrefix
<1>a. HttpTypes' /\ JobsFit' /\ HttpTypes /\ JobsFit /\ SourceKept /\ TusPrefix
  BY HttpTypeStep DEF HttpInv
<1>b. mode = "tus" /\ ~resent
  <2>1. ASSUME NEW w \in HttpWorkers, Step(w) PROVE mode' = mode /\ resent' = resent
    BY <2>1 DEF Step, StartDownload, GetPartial, GetAll, ReadBody, FinishDownload, DownloadFails,
       StartUpload, Put, Verify, VerifyRefused, HeadOffset, StartPatch, SendPatch, EndPatch,
       UploadFails
  <2>2. ASSUME NEW w \in HttpWorkers, Failure(w), ~PatchRedirected(w)
        PROVE  mode' = mode /\ resent' = resent
    BY <2>2 DEF Failure, CannotStart, GetRefused, GetFromStart, ReadBadByte, ReadFails,
       CloseFails, RenameFails, Dies, PutRefused, PutDamaged, VerifyLost, PatchShortened, PatchFails,
       DownloadFails, UploadFails
  <2>3. ASSUME NEW w \in HttpWorkers, PatchRedirected(w) PROVE mode' = mode /\ ~resent
    BY <2>3, <1>a DEF PatchRedirected, HttpTypes
  <2> QED
    BY <2>1, <2>2, <2>3 DEF HttpNext, httpVars
<1>c. /\ Len(remote) <= Size
      /\ \A n \in 1..Len(remote) : remote[n] = n
      /\ \A w \in HttpWorkers : Sending(w) =>
           /\ task[w].pos = Len(remote)
           /\ task[w].seek \/ task[w].from = 0
           /\ \A v \in HttpWorkers : Sending(v) => v = w
  BY <1>a, <1>b DEF TusPrefix
<1>d. \A w \in HttpWorkers : task[w].phase \in {"idle", "patch", "sending", "verify"}
  BY <1>a, <1>b DEF JobsFit, Fits, PhasesOf
<1>e. ASSUME NEW w \in HttpWorkers, NEW j, Fits(j, mode), Set(w, j), remote' = remote,
             j.phase # "sending"
      PROVE  TusPrefix'
  <2>1. task'[w] = j /\ \A v \in HttpWorkers : v # w => task'[v] = task[v]
    BY <1>a, <1>b, <1>e, SetFits
  <2> QED
    BY <1>c, <1>e, <2>1 DEF TusPrefix, Sending
<1>f. ASSUME NEW w \in HttpWorkers, Set(w, NoJob), remote' = remote PROVE TusPrefix'
  BY <1>e, <1>f, NoJobFits
<1>g. ASSUME NEW w \in HttpWorkers, ToVerify(w), remote' = remote PROVE TusPrefix'
  <2>1. "verify" \in PhasesOf(mode) /\ Fits(NoJob, mode)
    BY <1>b, NoJobFits DEF PhasesOf
  <2>2. Fits([NoJob EXCEPT !.phase = "verify"], mode)
    BY <2>1, PhaseFits
  <2>3. [NoJob EXCEPT !.phase = "verify"].phase # "sending"
    BY DEF NoJob
  <2> QED
    BY <1>e, <1>f, <1>g, <2>2, <2>3 DEF ToVerify
<1>h. ASSUME NEW w \in HttpWorkers, VerifyAgain(w), At(w, "verify"), remote' = remote PROVE TusPrefix'
  <2>1. LET k == [task[w] EXCEPT !.tries = @ + 1] IN Fits(k, mode) /\ k.phase = "verify"
    BY <1>a, <1>h, CountFits DEF JobsFit, At
  <2> QED
    BY <1>e, <1>f, <1>h, <2>1 DEF VerifyAgain
<1>1. ASSUME NEW w \in HttpWorkers, HeadOffset(w) PROVE TusPrefix'
  <2>1. "patch" \in PhasesOf(mode) /\ Fits(NoJob, mode) /\ Len(remote) \in Nat
    BY <1>a, <1>b, NoJobFits DEF PhasesOf, HttpTypes
  <2>2. Fits([NoJob EXCEPT !.phase = "patch", !.from = Len(remote)], mode)
    BY <2>1, PhaseFits
  <2>3. [NoJob EXCEPT !.phase = "patch", !.from = Len(remote)].phase # "sending"
    BY DEF NoJob
  <2> QED
    BY <1>1, <1>e, <1>f, <2>2, <2>3 DEF HeadOffset
<1>2. ASSUME NEW w \in HttpWorkers, StartPatch(w) PROVE TusPrefix'
  <2>1. CASE task[w].from = Len(remote) /\ \A v \in HttpWorkers : ~At(v, "sending")
    <3> DEFINE k == [task[w] EXCEPT !.phase = "sending", !.seek = TRUE, !.pos = task[w].from]
    <3>1. "sending" \in PhasesOf(mode) /\ Fits(task[w], mode) /\ task[w].from \in Nat
      BY <1>a, <1>b DEF PhasesOf, JobsFit, Fits, JobType
    <3>2. Fits(k, mode) /\ k.phase = "sending" /\ k.pos = task[w].from /\ k.seek
      <4>1. Fits(k, mode)
        BY <3>1, PhaseFits
      <4>2. k.phase = "sending" /\ k.pos = task[w].from /\ k.seek
        BY <3>1 DEF Fits, JobType
      <4> QED
        BY <4>1, <4>2
    <3>3. Set(w, k) /\ remote' = remote
      BY <1>2, <2>1 DEF StartPatch
    <3> HIDE DEF k
    <3>4. task'[w] = k /\ \A v \in HttpWorkers : v # w => task'[v] = task[v]
      BY <1>a, <1>b, <3>2, <3>3, SetFits
    <3> QED
      BY <1>c, <2>1, <3>2, <3>3, <3>4 DEF TusPrefix, Sending, At
  <2>2. CASE ~(task[w].from = Len(remote) /\ \A v \in HttpWorkers : ~At(v, "sending"))
    BY <1>2, <1>f, <2>2 DEF StartPatch, UploadFails
  <2> QED
    BY <2>1, <2>2
<1>3. ASSUME NEW w \in HttpWorkers, SendPatch(w) PROVE TusPrefix'
  <2> DEFINE k == [task[w] EXCEPT !.pos = @ + 1]
  <2>1. /\ Sending(w) /\ task[w].pos = Len(remote) /\ Len(remote) < Size
        /\ task[w].seek \/ task[w].from = 0
        /\ \A v \in HttpWorkers : Sending(v) => v = w
        /\ Fits(task[w], mode) /\ task[w].pos \in Nat /\ remote \in Seq(Int)
    BY <1>3, <1>a, <1>c DEF SendPatch, At, Sending, JobsFit, Fits, JobType, HttpTypes
  <2>2. SendByte(w) = Len(remote) + 1
    BY <2>1 DEF SendByte
  <2>3. /\ Fits(k, mode) /\ k.phase = task[w].phase /\ k.pos = task[w].pos + 1
        /\ k.seek = task[w].seek /\ k.from = task[w].from
    BY <2>1, CountFits
  <2>4. Set(w, k) /\ remote' = Append(remote, Len(remote) + 1)
    BY <1>3, <2>2 DEF SendPatch
  <2> HIDE DEF k
  <2>5. task'[w] = k /\ \A v \in HttpWorkers : v # w => task'[v] = task[v]
    BY <1>a, <1>b, <2>3, <2>4, SetFits
  <2>6. Len(remote') = Len(remote) + 1 /\ Len(remote') <= Size
    BY <2>1, <2>4, HttpTransferAssumption
  <2>7. \A n \in 1..Len(remote') : remote'[n] = n
    BY <1>c, <2>1, <2>4
  <2> QED
    BY <2>1, <2>3, <2>5, <2>6, <2>7 DEF TusPrefix, Sending
<1>4. ASSUME NEW w \in HttpWorkers, PatchRedirected(w) PROVE TusPrefix'
  <2> DEFINE k == [task[w] EXCEPT !.seek = FALSE]
  <2>1. /\ Sending(w) /\ Fits(task[w], mode) /\ task[w].from = 0
        /\ task[w].pos = Len(remote) /\ remote' = remote /\ Set(w, k)
        /\ \A v \in HttpWorkers : Sending(v) => v = w
    BY <1>4, <1>a, <1>b, <1>c DEF PatchRedirected, At, Sending, JobsFit, Fits, JobType
  <2>2. Fits(k, mode) /\ k.phase = task[w].phase /\ k.pos = task[w].pos /\ k.from = task[w].from
    BY <2>1, CountFits
  <2> HIDE DEF k
  <2>3. task'[w] = k /\ \A v \in HttpWorkers : v # w => task'[v] = task[v]
    BY <1>a, <1>b, <2>1, <2>2, SetFits
  <2> QED
    BY <1>c, <2>1, <2>2, <2>3 DEF TusPrefix, Sending
<1>5. ASSUME NEW w \in HttpWorkers, EndPatch(w) PROVE TusPrefix'
  BY <1>5, <1>g DEF EndPatch
<1>6. ASSUME NEW w \in HttpWorkers, Verify(w) \/ Dies(w) \/ PatchFails(w) PROVE TusPrefix'
  BY <1>6, <1>f DEF Verify, Dies, PatchFails, UploadFails
<1>7. ASSUME NEW w \in HttpWorkers, VerifyRefused(w) \/ VerifyLost(w) PROVE TusPrefix'
  BY <1>7, <1>h DEF VerifyRefused, VerifyLost
<1>8. ASSUME NEW w \in HttpWorkers, CannotStart(w) PROVE TusPrefix'
  BY <1>8, <1>a DEF CannotStart, TusPrefix, Sending
<1>9. ASSUME NEW w \in HttpWorkers,
             \/ StartDownload(w) \/ GetPartial(w) \/ GetAll(w) \/ ReadBody(w) \/ FinishDownload(w)
             \/ StartUpload(w) \/ Put(w) \/ GetRefused(w) \/ GetFromStart(w) \/ ReadBadByte(w)
             \/ ReadFails(w) \/ CloseFails(w) \/ RenameFails(w) \/ PutRefused(w) \/ PutDamaged(w)
      PROVE  FALSE
  BY <1>9, <1>b, <1>d DEF StartDownload, GetPartial, GetAll, ReadBody, FinishDownload, StartUpload,
     Put, GetRefused, GetFromStart, ReadBadByte, ReadFails, CloseFails, RenameFails, PutRefused,
     PutDamaged, At
<1>11. ASSUME NEW w \in HttpWorkers, PatchShortened(w) PROVE TusPrefix'
  <2> DEFINE k == IF verifies THEN [NoJob EXCEPT !.phase = "verify"] ELSE NoJob
  <2>1. Sending(w) /\ \A v \in HttpWorkers : Sending(v) => v = w
    BY <1>11, <1>c DEF PatchShortened, At, Sending
  <2>2. PICK n \in task[w].from..(Len(remote) - 1) : remote' = SubSeq(remote, 1, n)
    BY <1>11 DEF PatchShortened
  <2>3. task[w].from \in Nat /\ remote \in Seq(Int)
    BY <1>a DEF JobsFit, Fits, JobType, HttpTypes
  <2>4. Len(remote') = n /\ n \in Nat /\ n < Len(remote) /\ \A i \in 1..n : remote'[i] = remote[i]
    BY <2>2, <2>3, CutSequence
  <2>5. Len(remote') <= Size /\ \A i \in 1..Len(remote') : remote'[i] = i
    BY <1>c, <2>3, <2>4, HttpTransferAssumption
  <2>6. "verify" \in PhasesOf(mode) /\ Fits(NoJob, mode) /\ NoJob.phase = "idle"
    BY <1>b, NoJobFits DEF PhasesOf
  <2>7. Fits([NoJob EXCEPT !.phase = "verify"], mode)
    BY <2>6, PhaseFits
  <2>8. Fits(k, mode) /\ k.phase # "sending"
    BY <2>6, <2>7 DEF NoJob
  <2>9. Set(w, k)
    BY <1>11 DEF PatchShortened, ToVerify
  <2> HIDE DEF k
  <2>10. task'[w] = k /\ \A v \in HttpWorkers : v # w => task'[v] = task[v]
    BY <1>a, <1>b, <2>8, <2>9, SetFits
  <2>11. \A v \in HttpWorkers : ~Sending(v)'
    BY <2>1, <2>8, <2>10 DEF Sending
  <2> QED
    BY <2>5, <2>11 DEF TusPrefix
<1>10. CASE UNCHANGED httpVars
  BY <1>10, <1>a DEF httpVars, TusPrefix, Sending
<1> QED
  BY <1>1, <1>2, <1>3, <1>4, <1>5, <1>6, <1>7, <1>8, <1>9, <1>10, <1>11
  DEF HttpNext, Step, Failure

-----------------------------------------------------------------------------
(* Theorems *)

\* Failures are counted.
LEMMA FaultStep == Counted /\ [HttpNext]_httpVars => Counted'
<1> SUFFICES ASSUME Counted, [HttpNext]_httpVars PROVE Counted'
  OBVIOUS
<1>1. ASSUME NEW w \in HttpWorkers, Step(w) PROVE faults' = faults
  BY <1>1 DEF Step, StartDownload, GetPartial, GetAll, ReadBody, FinishDownload, StartUpload, Put,
     Verify, VerifyRefused, HeadOffset, StartPatch, SendPatch, EndPatch
<1>2. ASSUME NEW w \in HttpWorkers, Failure(w) PROVE faults' = faults + 1
  BY <1>2 DEF Failure, CannotStart, GetRefused, GetFromStart, ReadBadByte, ReadFails, CloseFails,
     RenameFails, Dies, PutRefused, PutDamaged, VerifyLost, PatchShortened, PatchFails,
     PatchRedirected, Fault
<1>3. CASE UNCHANGED httpVars
  BY <1>3 DEF httpVars, Counted
<1> QED
  BY <1>1, <1>2, <1>3 DEF HttpNext, Counted

\* HttpInv holds at the start and is preserved by every step, of any worker.
LEMMA HttpInductive == HttpSpec => []HttpInv
<1>1. HttpInit => HttpInv
  <2> SUFFICES ASSUME HttpInit PROVE HttpInv
    OBVIOUS
  <2>1. HttpTypes /\ JobsFit
    BY HttpTypeInit
  <2>2. StoreValid /\ SourceKept
    BY DEF HttpInit, StoreValid, SourceKept
  <2>3. TusPrefix
    BY NoJobFits, HttpTransferAssumption DEF HttpInit, TusPrefix, Sending
  <2>4. Counted
    BY DEF HttpInit, Counted
  <2> QED
    BY <2>1, <2>2, <2>3, <2>4 DEF HttpInv
<1>2. HttpInv /\ [HttpNext]_httpVars => HttpInv'
  BY HttpTypeStep, StoreStep, TusStep, FaultStep DEF HttpInv
<1> QED
  BY <1>1, <1>2, PTL DEF HttpSpec

\* A file of the local store always has the content that its name promises: a download
\* goes to the store only by FinishDownload, whose hash is of the file's own bytes.
THEOREM StoreIsValid == HttpSpec => []StoreValid
<1>1. HttpInv => StoreValid
  BY DEF HttpInv
<1> QED
  BY <1>1, HttpInductive, PTL

\* A transfer that a worker reports as done is done, except for the two cases that
\* SuccessMeansDone names.
THEOREM SuccessIsDone == HttpSpec => SuccessMeansDone
<1> DEFINE Done ==
      \/ reported' \subseteq reported
      \/ mode = "download" /\ store' = Right
      \/ mode # "download" /\ remote' = Right
      \/ mode # "download" /\ ~verifies /\ faults' # faults
      \/ mode = "tus" /\ resent
<1>1. HttpInv /\ [HttpNext]_httpVars => [Done]_httpVars
  <2> SUFFICES ASSUME HttpInv, [HttpNext]_httpVars PROVE Done
    OBVIOUS
  <2>a. HttpTypes /\ JobsFit /\ StoreValid /\ SourceKept /\ TusPrefix
    BY DEF HttpInv
  <2>b. \A w \in HttpWorkers : task[w].tmp = task[w].hash /\ task[w].phase \in PhasesOf(mode)
    BY <2>a DEF JobsFit, Fits
  <2>1. ASSUME NEW w \in HttpWorkers, FinishDownload(w) PROVE Done
    <3>1. mode = "download"
      BY <2>1, <2>a, <2>b DEF FinishDownload, At, PhasesOf, HttpTypes
    <3> QED
      BY <2>1, <2>b, <3>1 DEF FinishDownload, HashMatches, DownloadFails, Ends
  <2>2. ASSUME NEW w \in HttpWorkers, RenameFails(w) PROVE Done
    <3>1. mode = "download"
      BY <2>2, <2>a, <2>b DEF RenameFails, At, PhasesOf, HttpTypes
    <3> QED
      BY <2>2, <2>a, <3>1 DEF RenameFails, DownloadFails, Ends, StoreValid
  <2>3. ASSUME NEW w \in HttpWorkers, Put(w) PROVE Done
    <3>1. mode = "upload"
      BY <2>3, <2>a, <2>b DEF Put, At, PhasesOf, HttpTypes
    <3> QED
      BY <2>3, <2>a, <3>1 DEF Put, SourceKept
  <2>f. Fault => faults' # faults
    BY DEF Fault, HttpInv, Counted
  <2>10. ASSUME NEW w \in HttpWorkers, PutDamaged(w) \/ PatchShortened(w) PROVE Done
    <3>1. mode # "download"
      BY <2>10, <2>a, <2>b DEF PutDamaged, PatchShortened, At, PhasesOf
    <3> QED
      BY <2>10, <2>f, <3>1 DEF PutDamaged, PatchShortened, ToVerify
  <2>4. ASSUME NEW w \in HttpWorkers, Verify(w) PROVE Done
    <3>1. mode # "download"
      BY <2>4, <2>b DEF Verify, At, PhasesOf
    <3> QED
      BY <2>4, <3>1 DEF Verify
  <2>5. ASSUME NEW w \in HttpWorkers, HeadOffset(w) PROVE Done
    <3>1. CASE Len(remote) >= Size /\ ~resent
      <4>1. Len(remote) = Size /\ remote \in Seq(Int) /\ \A n \in 1..Len(remote) : remote[n] = n
        BY <2>5, <2>a, <3>1, HttpTransferAssumption DEF HeadOffset, TusPrefix, HttpTypes
      <4>2. remote = Right
        BY <4>1, RightIsUnique
      <4> QED
        BY <2>5, <4>2 DEF HeadOffset
    <3>2. CASE ~(Len(remote) >= Size) \/ resent
      BY <2>5, <3>2 DEF HeadOffset
    <3> QED
      BY <3>1, <3>2
  <2>6. ASSUME NEW w \in HttpWorkers, EndPatch(w) PROVE Done
    <3>1. mode = "tus"
      BY <2>6, <2>a, <2>b DEF EndPatch, At, PhasesOf, HttpTypes
    <3>2. CASE ~resent
      <4>1. Len(remote) = Size /\ remote \in Seq(Int) /\ \A n \in 1..Len(remote) : remote[n] = n
        BY <2>6, <2>a, <3>1, <3>2 DEF EndPatch, At, TusPrefix, Sending, HttpTypes
      <4>2. remote = Right
        BY <4>1, RightIsUnique
      <4> QED
        BY <2>6, <3>1, <4>2 DEF EndPatch
    <3> QED
      BY <3>1, <3>2
  <2>7. ASSUME NEW w \in HttpWorkers, Step(w), ~FinishDownload(w), ~Put(w), ~Verify(w),
               ~HeadOffset(w), ~EndPatch(w)
        PROVE  reported' = reported
    BY <2>7 DEF Step, StartDownload, GetPartial, GetAll, ReadBody, StartUpload, VerifyRefused,
       VerifyAgain, StartPatch, SendPatch, UploadFails, Ends
  <2>8. ASSUME NEW w \in HttpWorkers, Failure(w), ~RenameFails(w), ~PutDamaged(w), ~PatchShortened(w)
        PROVE  reported' = reported
    BY <2>8 DEF Failure, CannotStart, GetRefused, GetFromStart, ReadBadByte, ReadFails, CloseFails, Dies,
       PutRefused, VerifyLost, VerifyAgain, PatchFails, PatchRedirected, DownloadFails,
       UploadFails, Ends
  <2>9. CASE UNCHANGED httpVars
    BY <2>9 DEF httpVars
  <2> QED
    BY <2>1, <2>2, <2>3, <2>4, <2>5, <2>6, <2>7, <2>8, <2>9, <2>10 DEF HttpNext
<1> QED
  BY <1>1, HttpInductive, PTL DEF HttpSpec, SuccessMeansDone
=============================================================================
