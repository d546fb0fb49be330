-------------------------- MODULE TransferAdapter --------------------------
(***************************************************************************)
(* adapterBase of tq/adapterbase.go: the pool of workers every core        *)
(* transfer adapter uses.  Begin starts the workers, Add hands transfers   *)
(* to a goroutine that feeds them to jobChan, worker 0 authenticates first *)
(* and End waits for everything.  The caller is the transfer queue: it     *)
(* drains the results of one Add before the next, calls Begin again on the *)
(* same adapter when Begin has failed, and End only after a Begin that     *)
(* succeeded.                                                              *)
(***************************************************************************)
EXTENDS Integers, Sequences, FiniteSets

CONSTANTS
  Jobs,          \* transfers
  Concurrency,   \* cfg.ConcurrentTransfers()
  ChanDepth,     \* capacity of jobChan
  MaxBegins,     \* bound: how often Begin is called
  InvalidJobs,   \* transfers of negative size
  StartMayFail,  \* transferImpl.WorkerStarting may return an error
  AuthKinds      \* when DoTransfer may call authOkFunc

\* On a successful response (basic download, custom), or before any response, on
\* the first read of the request's body (basic and tus upload).
AuthSignals == {"response", "firstRead"}

ASSUME AdapterAssumption ==
  /\ IsFiniteSet(Jobs) /\ InvalidJobs \subseteq Jobs
  /\ Concurrency \in Nat \ {0} /\ ChanDepth \in Nat \ {0} /\ MaxBegins \in Nat \ {0}
  /\ StartMayFail \in BOOLEAN /\ AuthKinds \subseteq AuthSignals

\* A worker goroutine is named by the Begin that started it and its number.
Begins  == 1..MaxBegins
Workers == Begins \X (0..Concurrency - 1)

VARIABLES
  authOn,        \* when this adapter's DoTransfer calls authOkFunc
  \* ---- the transfer queue
  queue,         \* what it is doing with the adapter
  begins,        \* Begin calls so far; a.jobChan is the channel of the last one
  starting,      \* the worker that Begin starts next
  given,         \* transfers it has passed to Add
  \* ---- shared
  authWait, workerWait, jobWait,
  jobChan,       \* the channel that each Begin made
  chanClosed,    \* Begins whose channel is closed
  resultsClosed,
  \* ---- the goroutine of Add
  feeder, toFeed,
  \* ---- workers
  worker,        \* where each worker is
  range,         \* the channel it ranges over
  job,           \* the transfer it holds
  signalAuth,    \* signalAuthOnResponse
  \* ---- history
  answered       \* transfers whose result was sent

queueVars  == <<queue, begins, starting, given, authOn>>
chanVars   == <<jobChan, chanClosed>>
feedVars   == <<feeder, toFeed, resultsClosed>>
workerVars == <<worker, range, job, signalAuth>>
history    == <<answered>>
vars == <<queueVars, chanVars, feedVars, workerVars, history,
          authWait, workerWait, jobWait>>

None == {}  \* job[w] holds at most one transfer

Init ==
  /\ authOn \in AuthKinds
  /\ queue = "idle" /\ begins = 0 /\ starting = 0 /\ given = {}
  /\ authWait = 0 /\ workerWait = 0 /\ jobWait = 0
  /\ jobChan = [b \in Begins |-> <<>>] /\ chanClosed = {}
  /\ feeder = "none" /\ toFeed = {} /\ resultsClosed = FALSE
  /\ worker = [w \in Workers |-> "none"] /\ range = [w \in Workers |-> 0]
  /\ job = [w \in Workers |-> None] /\ signalAuth = [w \in Workers |-> FALSE]
  /\ answered = {}

-----------------------------------------------------------------------------
(* Begin. *)

Begin ==
  /\ queue \in {"idle", "failed"}
  /\ begins < MaxBegins
  /\ begins' = begins + 1
  /\ starting' = 0
  /\ workerWait' = workerWait + Concurrency
  /\ authWait' = authWait + 1
  /\ queue' = "begin"
  /\ UNCHANGED <<given, authOn, chanVars, feedVars, workerVars, history, jobWait>>

\* Mutant: worker 1 does not wait for the first login either.
StartWorkerEager ==
  LET w == <<begins, starting>> IN
  /\ queue = "begin" /\ starting < Concurrency
  /\ worker' = [worker EXCEPT ![w] = IF starting > 1 THEN "auth" ELSE "ready"]
  /\ signalAuth' = [signalAuth EXCEPT ![w] = starting = 0]
  /\ starting' = starting + 1
  /\ UNCHANGED <<queue, begins, given, authOn, range, job>>
  /\ UNCHANGED <<chanVars, feedVars, history, authWait, workerWait, jobWait>>

\* WorkerStarting succeeds and the worker's goroutine starts.
StartWorker ==
  LET w == <<begins, starting>> IN
  /\ queue = "begin" /\ starting < Concurrency
  /\ worker' = [worker EXCEPT ![w] = IF starting > 0 THEN "auth" ELSE "ready"]
  /\ signalAuth' = [signalAuth EXCEPT ![w] = starting = 0]
  /\ starting' = starting + 1
  /\ UNCHANGED <<queue, begins, given, authOn, range, job>>
  /\ UNCHANGED <<chanVars, feedVars, history, authWait, workerWait, jobWait>>

\* WorkerStarting fails: Begin returns the error and leaves the rest as it is.
StartFails ==
  /\ queue = "begin" /\ starting < Concurrency
  /\ StartMayFail
  /\ queue' = "failed"
  /\ UNCHANGED <<begins, starting, given, authOn>>
  /\ UNCHANGED <<chanVars, feedVars, workerVars, history, authWait, workerWait, jobWait>>

Begun ==
  /\ queue = "begin" /\ starting = Concurrency
  /\ queue' = "begun"
  /\ UNCHANGED <<begins, starting, given, authOn>>
  /\ UNCHANGED <<chanVars, feedVars, workerVars, history, authWait, workerWait, jobWait>>

\* The queue has no further batch for an adapter that never began.
GiveUp ==
  /\ queue = "failed"
  /\ queue' = "ended"
  /\ UNCHANGED <<begins, starting, given, authOn>>
  /\ UNCHANGED <<chanVars, feedVars, workerVars, history, authWait, workerWait, jobWait>>

-----------------------------------------------------------------------------
(* Add, and the goroutine it starts. *)

Add(js) ==
  /\ queue = "begun"
  /\ js \cap given = {}
  /\ given' = given \cup js
  /\ jobWait' = jobWait + Cardinality(js)
  /\ feeder' = "send" /\ toFeed' = js /\ resultsClosed' = FALSE
  /\ queue' = "collect"
  /\ UNCHANGED <<begins, starting, authOn, chanVars, workerVars, history, authWait, workerWait>>

Feed(j) ==
  /\ feeder = "send" /\ j \in toFeed
  /\ Len(jobChan[begins]) < ChanDepth
  /\ jobChan' = [jobChan EXCEPT ![begins] = Append(@, j)]
  /\ toFeed' = toFeed \ {j}
  /\ UNCHANGED <<feeder, resultsClosed, chanClosed>>
  /\ UNCHANGED <<queueVars, workerVars, history, authWait, workerWait, jobWait>>

FedAll ==
  /\ feeder = "send" /\ toFeed = {}
  /\ feeder' = "wait"
  /\ UNCHANGED <<toFeed, resultsClosed>>
  /\ UNCHANGED <<queueVars, chanVars, workerVars, history, authWait, workerWait, jobWait>>

\* Mutant: results is closed as soon as everything is fed.
CloseResultsEarly ==
  /\ feeder = "wait"
  /\ feeder' = "none" /\ resultsClosed' = TRUE
  /\ UNCHANGED toFeed
  /\ UNCHANGED <<queueVars, chanVars, workerVars, history, authWait, workerWait, jobWait>>

\* jobWait.Wait(); close(results)
CloseResults ==
  /\ feeder = "wait" /\ jobWait = 0
  /\ feeder' = "none" /\ resultsClosed' = TRUE
  /\ UNCHANGED toFeed
  /\ UNCHANGED <<queueVars, chanVars, workerVars, history, authWait, workerWait, jobWait>>

\* The queue has read every result of the batch.
Collected ==
  /\ queue = "collect" /\ resultsClosed
  /\ queue' = "begun"
  /\ UNCHANGED <<begins, starting, given, authOn>>
  /\ UNCHANGED <<chanVars, feedVars, workerVars, history, authWait, workerWait, jobWait>>

-----------------------------------------------------------------------------
(* worker. *)

\* authWait.Wait()
AuthPassed(w) ==
  /\ worker[w] = "auth" /\ authWait = 0
  /\ worker' = [worker EXCEPT ![w] = "ready"]
  /\ UNCHANGED <<range, job, signalAuth>>
  /\ UNCHANGED <<queueVars, chanVars, feedVars, history, authWait, workerWait, jobWait>>

\* range a.jobChan: the channel of the last Begin at this moment.
EnterLoop(w) ==
  /\ worker[w] = "ready"
  /\ worker' = [worker EXCEPT ![w] = "loop"]
  /\ range' = [range EXCEPT ![w] = begins]
  /\ UNCHANGED <<job, signalAuth>>
  /\ UNCHANGED <<queueVars, chanVars, feedVars, history, authWait, workerWait, jobWait>>

\* A transfer of invalid size fails without DoTransfer.
TakeJob(w) ==
  LET c == jobChan[range[w]] IN
  /\ worker[w] = "loop" /\ c # <<>>
  /\ job' = [job EXCEPT ![w] = {Head(c)}]
  /\ jobChan' = [jobChan EXCEPT ![range[w]] = Tail(c)]
  /\ worker' = [worker EXCEPT ![w] = IF Head(c) \in InvalidJobs THEN "result" ELSE "request"]
  /\ UNCHANGED <<range, signalAuth, chanClosed>>
  /\ UNCHANGED <<queueVars, feedVars, history, authWait, workerWait, jobWait>>

\* authCallback, where the worker has one.
SignalAuth(w) ==
  /\ authWait' = IF signalAuth[w] THEN authWait - 1 ELSE authWait
  /\ signalAuth' = [signalAuth EXCEPT ![w] = FALSE]

\* The server answers the request with success.
Respond(w) ==
  /\ worker[w] = "request"
  /\ worker' = [worker EXCEPT ![w] = "transfer"]
  /\ IF authOn = "response" THEN SignalAuth(w) ELSE UNCHANGED <<authWait, signalAuth>>
  /\ UNCHANGED <<range, job, answered>>
  /\ UNCHANGED <<queueVars, chanVars, feedVars, workerWait, jobWait>>

\* The body of the request is read, before any response.
FirstRead(w) ==
  /\ worker[w] = "request" /\ authOn = "firstRead"
  /\ signalAuth[w]
  /\ SignalAuth(w)
  /\ UNCHANGED <<worker, range, job>>
  /\ UNCHANGED <<queueVars, chanVars, feedVars, history, workerWait, jobWait>>

\* DoTransfer returns, with an error or not.
Transferred(w) ==
  /\ worker[w] \in {"request", "transfer"}
  /\ worker' = [worker EXCEPT ![w] = "result"]
  /\ UNCHANGED <<range, job, signalAuth>>
  /\ UNCHANGED <<queueVars, chanVars, feedVars, history, authWait, workerWait, jobWait>>

\* job.Done: the result, then the wait group.
SendResult(w) ==
  /\ worker[w] = "result"
  /\ answered' = answered \cup job[w]
  /\ worker' = [worker EXCEPT ![w] = "done"]
  /\ UNCHANGED <<range, job, signalAuth>>
  /\ UNCHANGED <<queueVars, chanVars, feedVars, authWait, workerWait, jobWait>>

JobDone(w) ==
  /\ worker[w] = "done"
  /\ jobWait' = jobWait - 1
  /\ job' = [job EXCEPT ![w] = None]
  /\ worker' = [worker EXCEPT ![w] = "loop"]
  /\ UNCHANGED <<range, signalAuth>>
  /\ UNCHANGED <<queueVars, chanVars, feedVars, history, authWait, workerWait>>

\* Mutant: worker 0 does not wake the others when no response has.
LeaveLoopSilently(w) ==
  /\ worker[w] = "loop"
  /\ range[w] \in chanClosed /\ jobChan[range[w]] = <<>>
  /\ worker' = [worker EXCEPT ![w] = "ending"]
  /\ UNCHANGED <<range, job, signalAuth, authWait>>
  /\ UNCHANGED <<queueVars, chanVars, feedVars, history, workerWait, jobWait>>

\* The channel is closed and empty; worker 0 releases the others if it has not.
LeaveLoop(w) ==
  /\ worker[w] = "loop"
  /\ range[w] \in chanClosed /\ jobChan[range[w]] = <<>>
  /\ SignalAuth(w)
  /\ worker' = [worker EXCEPT ![w] = "ending"]
  /\ UNCHANGED <<range, job>>
  /\ UNCHANGED <<queueVars, chanVars, feedVars, history, workerWait, jobWait>>

\* WorkerEnding and workerWait.Done().
WorkerStops(w) ==
  /\ worker[w] = "ending"
  /\ worker' = [worker EXCEPT ![w] = "stopped"]
  /\ workerWait' = workerWait - 1
  /\ UNCHANGED <<range, job, signalAuth>>
  /\ UNCHANGED <<queueVars, chanVars, feedVars, history, authWait, jobWait>>

-----------------------------------------------------------------------------
(* End. *)

CallEnd ==
  /\ queue = "begun"
  /\ queue' = "end"
  /\ UNCHANGED <<begins, starting, given, authOn>>
  /\ UNCHANGED <<chanVars, feedVars, workerVars, history, authWait, workerWait, jobWait>>

\* jobWait.Wait(); close(a.jobChan)
CloseJobChan ==
  /\ queue = "end" /\ jobWait = 0
  /\ chanClosed' = chanClosed \cup {begins}
  /\ queue' = "joined"
  /\ UNCHANGED <<begins, starting, given, authOn, jobChan>>
  /\ UNCHANGED <<feedVars, workerVars, history, authWait, workerWait, jobWait>>

\* workerWait.Wait()
EndReturn ==
  /\ queue = "joined" /\ workerWait = 0
  /\ queue' = "ended"
  /\ UNCHANGED <<begins, starting, given, authOn>>
  /\ UNCHANGED <<chanVars, feedVars, workerVars, history, authWait, workerWait, jobWait>>

-----------------------------------------------------------------------------

Queue == \/ Begin \/ StartWorker \/ StartFails \/ Begun \/ GiveUp
         \/ \E js \in SUBSET Jobs : Add(js)
         \/ Collected \/ CallEnd \/ CloseJobChan \/ EndReturn

Feeder == (\E j \in Jobs : Feed(j)) \/ FedAll \/ CloseResults

Worker(w) == \/ AuthPassed(w) \/ EnterLoop(w) \/ TakeJob(w) \/ Respond(w) \/ FirstRead(w)
             \/ Transferred(w) \/ SendResult(w) \/ JobDone(w) \/ LeaveLoop(w) \/ WorkerStops(w)

Terminated == queue = "ended" /\ UNCHANGED vars

Next == Queue \/ Feeder \/ (\E w \in Workers : Worker(w)) \/ Terminated

Spec == Init /\ [][Next]_vars

\* Goroutines run and transfers end; the queue sooner or later ends an adapter
\* it has nothing more to add to.
Fairness == /\ WF_vars(Queue) /\ SF_vars(CallEnd)
            /\ WF_vars(Feeder)
            /\ \A w \in Workers : WF_vars(Worker(w))

FairSpec == Spec /\ Fairness
-----------------------------------------------------------------------------
(* Properties. *)

\* Until worker 0 has signalled that it is authenticated it is the only one with
\* a request under way; this holds while the wait groups are those of one Begin.
OnlyFirstWorkerUntilSignal ==
  begins = 1 =>
    \A w \in Workers : authWait > 0 /\ worker[w] = "request" => w[2] = 0

\* "This call blocks until all items have been processed": and no longer.
EndReturns == queue = "end" ~> queue = "ended"

\* What the transfer queue relies on: see AdapterPromise.
Contract == INSTANCE AdapterPromise WITH ended <- (queue = "ended")

\* The pool implements the Adapter interface's contract: each transfer is
\* answered once, before the next Add and before End returns.
KeepsContract == Contract!Spec
=============================================================================
