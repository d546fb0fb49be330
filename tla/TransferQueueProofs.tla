------------------------ MODULE TransferQueueProofs ------------------------
(***************************************************************************)
(* Proofs about TransferQueue, for any number of objects, tuples and       *)
(* watchers and any batch size, buffer depth and retry limit.              *)
(***************************************************************************)
EXTENDS TransferQueue, FiniteSetTheorems, TLAPS

\* Stages an object of the running batch may be in, by where the batch
\* goroutine is.
StagesMatch ==
  \A o \in Oids :
    /\ stage[o] # "omitted"
    /\ batcher = "idle" => stage[o] = "idle"
    /\ batcher = "call" => stage[o] \in {"idle", "todo"}
    /\ batcher = "objects" => stage[o] \in AllVerdicts \cup {"idle", "accepted", "retry"}
    /\ batcher = "results" => stage[o] \in {"idle", "absent", "inflight", "notifying", "rechan", "retry"}
    /\ batcher \in {"report", "done"} => stage[o] \in {"idle", "retry"}

\* The batch goroutine runs only while the collector waits for it, and a batch
\* that failed for good leaves nothing to retry.
Phases ==
  /\ StagesMatch
  /\ batcher = "idle" <=> collector \in {"fill", "sleep", "exited"}
  /\ collector = "merge" => batcher = "done"
  /\ batchErr = "fatal" =>
       /\ collector \in {"select", "drain", "merge", "exited"}
       /\ batcher \in {"report", "done", "idle"}
       /\ \A o \in Oids : stage[o] = "idle"
  /\ collector \in {"fill", "sleep"} => collected = {}
  /\ collector \notin {"fill", "exited"} => next = {}
  /\ hand # {} <=> caller = "send"
  /\ \A p, q \in hand : p = q

\* Only objects that were added and are not resolved are held; what is held
\* nowhere is resolved, unless a response omitted it or the queue is aborted.
HeldAreQueued ==
  /\ \A o \in Oids : outcome[o] = "new" <=> transfers[o] = {}
  /\ \A o \in Held : outcome[o] # "new"
  /\ ~(collector = "exited" /\ batchErr = "fatal") => Held \subseteq Queued
  /\ batchErr # "fatal" /\ "omitted" \notin Verdicts => Queued \subseteq Held

\* The wait group counts the unresolved objects, and counter agrees with it
\* until the queue is aborted.
WaitCountsQueued ==
  /\ wq = Cardinality(Queued)
  /\ ~(collector = "exited" /\ batchErr = "fatal") => counter = wq

IInv == TypeOK /\ Phases /\ HeldInOnePlace /\ HeldAreQueued /\ WaitCountsQueued

\* The step resolves the objects of os, which are unresolved and belong to the
\* running batch, and calls Done n times.
Resolves(os, n) ==
  /\ batcher \in {"call", "objects", "results"}
  /\ os \in SUBSET InBatch /\ os \in SUBSET Queued
  /\ InBatch' = InBatch \ os /\ Queued' = Queued \ os
  /\ \A o \in Oids : outcome'[o] = "new" <=> outcome[o] = "new"
  /\ wq' = wq - n /\ counter' = counter - n

USE DEF callerVars, collectVars, batchVars, waitVars, watchVars, errorVars,
        retryVars, adapterVars, chainVars, incomingVars

\* A send on a Watch channel keeps the types of what it changes.
LEMMA SendWatchType ==
  ASSUME TypeOK, NEW w \in Watchers, NEW t \in Tuples, SendWatch(w, t)
  PROVE  /\ watchLen' \in [Watchers -> 0..BatchSize]
         /\ notified' \in [Watchers -> [Tuples -> Nat]]
         /\ watchers' = watchers
<1>1. notified[w] \in [Tuples -> Nat] /\ notified[w][t] \in Nat
  BY DEF TypeOK
<1> QED
  BY <1>1, ConstantsAssumption DEF SendWatch, TypeOK

\* TypeOK is preserved by every step of the queue.
LEMMA TypeStep == TypeOK /\ [Next]_vars => TypeOK'
<1> SUFFICES ASSUME TypeOK, [Next]_vars PROVE TypeOK'
  OBVIOUS
<1> USE ConstantsAssumption DEF TypeOK
<1>1. ASSUME NEW w \in Watchers, Watch(w) PROVE TypeOK'
  BY <1>1 DEF Watch
<1>2. CASE AddError
  BY <1>2 DEF AddError, SendError, ErrorCauses
<1>3. ASSUME NEW t \in Tuples, AddNew(t) PROVE TypeOK'
  BY <1>3 DEF AddNew, Fresh, WaitAdd, CallerStates, Outcomes
<1>4. ASSUME NEW t \in Tuples, AddDuplicate(t) PROVE TypeOK'
  BY <1>4 DEF AddDuplicate, Fresh, CallerStates
<1>5. CASE SendIncoming
  BY <1>5 DEF SendIncoming, CallerStates
<1>6. ASSUME NEW w \in Watchers, AnnounceDuplicate(w) PROVE TypeOK'
  BY <1>6, SendWatchType DEF AnnounceDuplicate, CallerStates
<1>7. CASE CallWait
  BY <1>7 DEF CallWait, CallerStates
<1>8. CASE JoinTransfers
  BY <1>8 DEF JoinTransfers, CallerStates
<1>9. CASE JoinCollector
  BY <1>9 DEF JoinCollector, FinishAdapter, CallerStates
<1>10. CASE WaitReturn
  BY <1>10 DEF WaitReturn, CallerStates
<1>11. CASE CollectError
  BY <1>11 DEF CollectError
<1>12. ASSUME NEW w \in Watchers, ReadWatch(w) PROVE TypeOK'
  BY <1>12 DEF ReadWatch
<1>13. CASE FillOne
  BY <1>13 DEF FillOne, FillLoop
<1>14. CASE FillClosed
  BY <1>14 DEF FillClosed, FillLoop
<1>15. CASE StartBatch
  BY <1>15 DEF StartBatch, MoveAll, Stages, CollectorStates, BatcherStates
<1>16. CASE CollectOne
  BY <1>16 DEF CollectOne
<1>17. CASE CollectClosed
  BY <1>17 DEF CollectClosed, CollectorStates
<1>18. CASE CollectDone
  BY <1>18 DEF CollectDone, CollectorStates
<1>19. CASE AbortQueue
  BY <1>19 DEF AbortQueue, WaitAbort, CollectorStates, BatcherStates, Outcomes
<1>20. CASE ConcatBatches
  BY <1>20 DEF ConcatBatches, Left, Ready, At, MoveAll, Stages, CollectorStates, BatcherStates
<1>21. CASE WakeUp
  BY <1>21 DEF WakeUp, CollectorStates
<1>22. ASSUME NEW e \in BatchErrors, BatchFails(e) PROVE TypeOK'
  BY <1>22 DEF BatchFails, Kept, Lost, EnqueueRetry, WaitDone, At, Stages, BatcherStates, Outcomes
<1>23. ASSUME NEW v \in [At("todo") -> Verdicts], BatchAborts(v) PROVE TypeOK'
  BY <1>23 DEF BatchAborts, MoveAll, Stages, BatcherStates
<1>24. ASSUME NEW v \in [At("todo") -> Verdicts], NEW n \in ServerNames, BatchAnswers(v, n) PROVE TypeOK'
  BY <1>24 DEF BatchAnswers, UseAdapter, AdapterFor, At, Stages, AllVerdicts, BatcherStates
<1>25. ASSUME NEW o \in Oids, RejectObject(o) PROVE TypeOK'
  BY <1>25 DEF RejectObject, SendError, Settle, WaitDone, Stages, Outcomes, ErrorCauses
<1>26. ASSUME NEW o \in Oids, RetryExpired(o) PROVE TypeOK'
  BY <1>26 DEF RetryExpired, EnqueueRetry, Stages
<1>27. ASSUME NEW o \in Oids, SkipObject(o) PROVE TypeOK'
  BY <1>27 DEF SkipObject, Settle, WaitDone, Stages, Outcomes
<1>28. ASSUME NEW o \in Oids, AcceptObject(o) PROVE TypeOK'
  BY <1>28 DEF AcceptObject, Stages
<1>29. CASE BeginFails
  BY <1>29 DEF BeginFails, SendError, WaitDone, MoveAll, At, Stages, Outcomes, BatcherStates, ErrorCauses
<1>30. ASSUME NEW absent \in SUBSET Oids, AddToAdapter(absent) PROVE TypeOK'
  BY <1>30 DEF AddToAdapter, Stages, BatcherStates
<1>31. ASSUME NEW o \in Oids, TakeRetry(o) PROVE TypeOK'
  BY <1>31 DEF TakeRetry, EnqueueRetry, Stages
<1>32. CASE BatchDone
  BY <1>32 DEF BatchDone, BatcherStates
<1>33. CASE ReportBatchError
  BY <1>33 DEF ReportBatchError, SendError, ErrorCauses, BatcherStates
<1>34. ASSUME NEW o \in Oids, NEW r \in ErrorKinds, ResultRetry(o, r) PROVE TypeOK'
  BY <1>34 DEF ResultRetry, Stages
<1>35. ASSUME NEW o \in Oids, NEW r \in ErrorKinds, ResultError(o, r) PROVE TypeOK'
  BY <1>35 DEF ResultError, SendError, Settle, WaitDone, Stages, Outcomes, ErrorCauses
<1>36. ASSUME NEW o \in Oids, ResultUnprocessable(o) PROVE TypeOK'
  BY <1>36 DEF ResultUnprocessable, Settle, WaitDone, Stages, Outcomes
<1>37. ASSUME NEW o \in Oids, ResultOk(o) PROVE TypeOK'
  BY <1>37 DEF ResultOk, Stages
<1>38. ASSUME NEW o \in Oids, FinishResult(o) PROVE TypeOK'
  BY <1>38 DEF FinishResult, Settle, WaitDone, Stages, Outcomes
<1>39. ASSUME NEW w \in Watchers, NEW t \in Tuples, AnnounceResult(w, t) PROVE TypeOK'
  BY <1>39, SendWatchType DEF AnnounceResult
<1>40. ASSUME NEW o \in Oids, BackoffElapses(o) PROVE TypeOK'
  BY <1>40 DEF BackoffElapses
<1>41. ASSUME NEW o \in Oids, RetryAfterElapses(o) PROVE TypeOK'
  BY <1>41 DEF RetryAfterElapses
<1>42. CASE UNCHANGED vars
  BY <1>42 DEF vars
<1> QED
  BY <1>1, <1>2, <1>3, <1>4, <1>5, <1>6, <1>7, <1>8, <1>9, <1>10, <1>11, <1>12, <1>13, <1>14, <1>15, <1>16, <1>17, <1>18, <1>19, <1>20, <1>21, <1>22, <1>23, <1>24, <1>25, <1>26, <1>27, <1>28, <1>29, <1>30, <1>31, <1>32, <1>33, <1>34, <1>35, <1>36, <1>37, <1>38, <1>39, <1>40, <1>41, <1>42
     DEF Next, Add, Wait, CollectBatches, EnqueueAndCollectRetries,
         HandleTransferResult, Clock, Terminated, vars

\* The phases of caller, collector and batch goroutine are kept.
LEMMA PhasesStep == TypeOK /\ Phases /\ [Next]_vars => Phases'
<1> SUFFICES ASSUME TypeOK, Phases, [Next]_vars PROVE Phases'
  OBVIOUS
<1> USE ConstantsAssumption DEF TypeOK, Phases, StagesMatch
<1>1. ASSUME NEW w \in Watchers, Watch(w) PROVE Phases'
  BY <1>1 DEF Watch
<1>2. CASE AddError
  BY <1>2 DEF AddError
<1>3. ASSUME NEW t \in Tuples, AddNew(t) PROVE Phases'
  BY <1>3 DEF AddNew, Fresh
<1>4. ASSUME NEW t \in Tuples, AddDuplicate(t) PROVE Phases'
  BY <1>4 DEF AddDuplicate, Fresh
<1>5. CASE SendIncoming
  BY <1>5 DEF SendIncoming
<1>6. ASSUME NEW w \in Watchers, AnnounceDuplicate(w) PROVE Phases'
  BY <1>6 DEF AnnounceDuplicate
<1>7. CASE CallWait
  BY <1>7 DEF CallWait
<1>8. CASE JoinTransfers
  BY <1>8 DEF JoinTransfers
<1>9. CASE JoinCollector
  BY <1>9 DEF JoinCollector
<1>10. CASE WaitReturn
  BY <1>10 DEF WaitReturn
<1>11. CASE CollectError
  BY <1>11 DEF CollectError
<1>12. ASSUME NEW w \in Watchers, ReadWatch(w) PROVE Phases'
  BY <1>12 DEF ReadWatch
<1>13. CASE FillOne
  BY <1>13 DEF FillOne, FillLoop
<1>14. CASE FillClosed
  BY <1>14 DEF FillClosed, FillLoop
<1>15. CASE StartBatch
  BY <1>15 DEF StartBatch, MoveAll
<1>16. CASE CollectOne
  BY <1>16 DEF CollectOne
<1>17. CASE CollectClosed
  BY <1>17 DEF CollectClosed
<1>18. CASE CollectDone
  BY <1>18 DEF CollectDone
<1>19. CASE AbortQueue
  BY <1>19 DEF AbortQueue
<1>20. CASE ConcatBatches
  BY <1>20 DEF ConcatBatches, At, MoveAll
<1>21. CASE WakeUp
  BY <1>21 DEF WakeUp
<1>22. ASSUME NEW e \in BatchErrors, BatchFails(e) PROVE Phases'
  BY <1>22 DEF BatchFails, Kept, Lost, At, CanRetry
<1>23. ASSUME NEW v \in [At("todo") -> Verdicts], BatchAborts(v) PROVE Phases'
  BY <1>23 DEF BatchAborts, MoveAll, At, CollectorStates
<1>24. ASSUME NEW v \in [At("todo") -> Verdicts], NEW n \in ServerNames, BatchAnswers(v, n) PROVE Phases'
  BY <1>24 DEF BatchAnswers, At, AllVerdicts
<1>25. ASSUME NEW o \in Oids, RejectObject(o) PROVE Phases'
  BY <1>25 DEF RejectObject, Settle
<1>26. ASSUME NEW o \in Oids, RetryExpired(o) PROVE Phases'
  BY <1>26 DEF RetryExpired
<1>27. ASSUME NEW o \in Oids, SkipObject(o) PROVE Phases'
  BY <1>27 DEF SkipObject, Settle
<1>28. ASSUME NEW o \in Oids, AcceptObject(o) PROVE Phases'
  BY <1>28 DEF AcceptObject, AllVerdicts
<1>29. CASE BeginFails
  BY <1>29 DEF BeginFails, MoveAll, At, AllObjectsSeen, AllVerdicts
<1>30. ASSUME NEW absent \in SUBSET Oids, AddToAdapter(absent) PROVE Phases'
  BY <1>30 DEF AddToAdapter, AllObjectsSeen, AllVerdicts
<1>31. ASSUME NEW o \in Oids, TakeRetry(o) PROVE Phases'
  BY <1>31 DEF TakeRetry
<1>32. CASE BatchDone
  BY <1>32 DEF BatchDone
<1>33. CASE ReportBatchError
  BY <1>33 DEF ReportBatchError
<1>34. ASSUME NEW o \in Oids, NEW r \in ErrorKinds, ResultRetry(o, r) PROVE Phases'
  BY <1>34 DEF ResultRetry, ResultArrives
<1>35. ASSUME NEW o \in Oids, NEW r \in ErrorKinds, ResultError(o, r) PROVE Phases'
  BY <1>35 DEF ResultError, Settle, ResultArrives
<1>36. ASSUME NEW o \in Oids, ResultUnprocessable(o) PROVE Phases'
  BY <1>36 DEF ResultUnprocessable, Settle, ResultArrives
<1>37. ASSUME NEW o \in Oids, ResultOk(o) PROVE Phases'
  BY <1>37 DEF ResultOk, ResultArrives
<1>38. ASSUME NEW o \in Oids, FinishResult(o) PROVE Phases'
  BY <1>38 DEF FinishResult, Settle
<1>39. ASSUME NEW w \in Watchers, NEW t \in Tuples, AnnounceResult(w, t) PROVE Phases'
  BY <1>39 DEF AnnounceResult
<1>40. ASSUME NEW o \in Oids, BackoffElapses(o) PROVE Phases'
  BY <1>40 DEF BackoffElapses
<1>41. ASSUME NEW o \in Oids, RetryAfterElapses(o) PROVE Phases'
  BY <1>41 DEF RetryAfterElapses
<1>42. CASE UNCHANGED vars
  BY <1>42 DEF vars
<1> QED
  BY <1>1, <1>2, <1>3, <1>4, <1>5, <1>6, <1>7, <1>8, <1>9, <1>10, <1>11,
     <1>12, <1>13, <1>14, <1>15, <1>16, <1>17, <1>18, <1>19, <1>20, <1>21, <1>22,
     <1>23, <1>24, <1>25, <1>26, <1>27, <1>28, <1>29, <1>30, <1>31, <1>32, <1>33,
     <1>34, <1>35, <1>36, <1>37, <1>38, <1>39, <1>40, <1>41, <1>42
     DEF Next, Add, Wait, CollectBatches, EnqueueAndCollectRetries,
         HandleTransferResult, Clock, Terminated, vars

\* Sending an item on a channel adds it to what the channel holds.
LEMMA ElemsAppend ==
  ASSUME NEW s \in Seq(Oids), NEW o \in Oids
  PROVE  /\ Elems(Append(s, o)) = Elems(s) \cup {o}
         /\ Distinct(s) /\ o \notin Elems(s) => Distinct(Append(s, o))
BY DEF Elems, Distinct

\* Receiving an item from a channel without duplicates removes that item.
LEMMA ElemsTail ==
  ASSUME NEW s \in Seq(Oids), s # <<>>, Distinct(s)
  PROVE  /\ Head(s) \in Oids
         /\ Elems(s) = Elems(Tail(s)) \cup {Head(s)}
         /\ Head(s) \notin Elems(Tail(s))
         /\ Distinct(Tail(s))
<1>1. Len(s) \in Nat \ {0} /\ Tail(s) \in Seq(Oids) /\ Len(Tail(s)) = Len(s) - 1
  OBVIOUS
<1>2. Head(s) = s[1] /\ \A i \in 1..Len(Tail(s)) : Tail(s)[i] = s[i + 1]
  OBVIOUS
<1>3. Head(s) \in Oids
  BY <1>1, <1>2
<1>4. Elems(s) \subseteq Elems(Tail(s)) \cup {Head(s)}
  <2> SUFFICES ASSUME NEW i \in 1..Len(s), i # 1 PROVE s[i] \in Elems(Tail(s))
    BY <1>2 DEF Elems
  <2>1. i - 1 \in 1..Len(Tail(s)) /\ Tail(s)[i - 1] = s[i]
    BY <1>1, <1>2
  <2> QED
    BY <2>1 DEF Elems
<1>5. Elems(Tail(s)) \cup {Head(s)} \subseteq Elems(s)
  BY <1>1, <1>2 DEF Elems
<1>6. Head(s) \notin Elems(Tail(s))
  BY <1>1, <1>2 DEF Elems, Distinct
<1>7. Distinct(Tail(s))
  <2> SUFFICES ASSUME NEW i \in 1..Len(Tail(s)), NEW j \in 1..Len(Tail(s)),
                      Tail(s)[i] = Tail(s)[j]
               PROVE  i = j
    BY DEF Distinct
  <2>1. i + 1 \in 1..Len(s) /\ j + 1 \in 1..Len(s) /\ s[i + 1] = s[j + 1]
    BY <1>1, <1>2
  <2> QED
    BY <2>1 DEF Distinct
<1> QED
  BY <1>3, <1>4, <1>5, <1>6, <1>7

\* Every step moves an object from one place to another or lets go of it.
LEMMA OnePlaceStep == TypeOK /\ Phases /\ HeldAreQueued /\ HeldInOnePlace /\ [Next]_vars => HeldInOnePlace'
<1> SUFFICES ASSUME TypeOK, Phases, HeldAreQueued, HeldInOnePlace, [Next]_vars PROVE HeldInOnePlace'
  OBVIOUS
<1> USE ConstantsAssumption DEF TypeOK, Phases, HeldInOnePlace, InBatch
<1>1. ASSUME NEW w \in Watchers, Watch(w) PROVE HeldInOnePlace'
  BY <1>1 DEF Watch
<1>2. CASE AddError
  BY <1>2 DEF AddError
<1>3. ASSUME NEW t \in Tuples, AddNew(t) PROVE HeldInOnePlace'
  BY <1>3 DEF AddNew, Fresh, Held, HeldAreQueued
<1>4. ASSUME NEW t \in Tuples, AddDuplicate(t) PROVE HeldInOnePlace'
  BY <1>4 DEF AddDuplicate
<1>5. CASE SendIncoming
  <2>1. PICK o \in hand : incoming' = Append(incoming, o) /\ hand' = {}
    BY <1>5 DEF SendIncoming
  <2>2. Elems(incoming)' = Elems(incoming) \cup {o} /\ Distinct(incoming)'
    BY <2>1, ElemsAppend
  <2> QED
    BY <1>5, <2>1, <2>2 DEF SendIncoming
<1>6. ASSUME NEW w \in Watchers, AnnounceDuplicate(w) PROVE HeldInOnePlace'
  BY <1>6 DEF AnnounceDuplicate
<1>7. CASE CallWait
  BY <1>7 DEF CallWait
<1>8. CASE JoinTransfers
  BY <1>8 DEF JoinTransfers
<1>9. CASE JoinCollector
  BY <1>9 DEF JoinCollector
<1>10. CASE WaitReturn
  BY <1>10 DEF WaitReturn
<1>11. CASE CollectError
  BY <1>11 DEF CollectError
<1>12. ASSUME NEW w \in Watchers, ReadWatch(w) PROVE HeldInOnePlace'
  BY <1>12 DEF ReadWatch
<1>13. CASE FillOne
  <2>1. /\ Elems(incoming) = Elems(incoming)' \cup {Head(incoming)}
        /\ Head(incoming) \notin Elems(incoming)' /\ Distinct(incoming)'
    BY <1>13, ElemsTail DEF FillOne
  <2> QED
    BY <1>13, <2>1 DEF FillOne
<1>14. CASE FillClosed
  BY <1>14 DEF FillClosed
<1>15. CASE StartBatch
  BY <1>15 DEF StartBatch, MoveAll, StagesMatch
<1>16. CASE CollectOne
  <2>1. /\ Elems(incoming) = Elems(incoming)' \cup {Head(incoming)}
        /\ Head(incoming) \notin Elems(incoming)' /\ Distinct(incoming)'
    BY <1>16, ElemsTail DEF CollectOne
  <2> QED
    BY <1>16, <2>1 DEF CollectOne
<1>17. CASE CollectClosed
  BY <1>17 DEF CollectClosed
<1>18. CASE CollectDone
  BY <1>18 DEF CollectDone
<1>19. CASE AbortQueue
  BY <1>19 DEF AbortQueue
<1>20. CASE ConcatBatches
  BY <1>20 DEF ConcatBatches, MoveAll, At, Left, Ready, StagesMatch
<1>21. CASE WakeUp
  BY <1>21 DEF WakeUp
<1>22. ASSUME NEW e \in BatchErrors, BatchFails(e) PROVE HeldInOnePlace'
  BY <1>22 DEF BatchFails, Kept, Lost, At
<1>23. ASSUME NEW v \in [At("todo") -> Verdicts], BatchAborts(v) PROVE HeldInOnePlace'
  BY <1>23 DEF BatchAborts, MoveAll, At
<1>24. ASSUME NEW v \in [At("todo") -> Verdicts], NEW n \in ServerNames, BatchAnswers(v, n) PROVE HeldInOnePlace'
  BY <1>24 DEF BatchAnswers, At
<1>25. ASSUME NEW o \in Oids, RejectObject(o) PROVE HeldInOnePlace'
  BY <1>25 DEF RejectObject, Settle
<1>26. ASSUME NEW o \in Oids, RetryExpired(o) PROVE HeldInOnePlace'
  BY <1>26 DEF RetryExpired
<1>27. ASSUME NEW o \in Oids, SkipObject(o) PROVE HeldInOnePlace'
  BY <1>27 DEF SkipObject, Settle
<1>28. ASSUME NEW o \in Oids, AcceptObject(o) PROVE HeldInOnePlace'
  BY <1>28 DEF AcceptObject
<1>29. CASE BeginFails
  BY <1>29 DEF BeginFails, MoveAll, At
<1>30. ASSUME NEW absent \in SUBSET Oids, AddToAdapter(absent) PROVE HeldInOnePlace'
  BY <1>30 DEF AddToAdapter
<1>31. ASSUME NEW o \in Oids, TakeRetry(o) PROVE HeldInOnePlace'
  BY <1>31 DEF TakeRetry
<1>32. CASE BatchDone
  BY <1>32 DEF BatchDone
<1>33. CASE ReportBatchError
  BY <1>33 DEF ReportBatchError
<1>34. ASSUME NEW o \in Oids, NEW r \in ErrorKinds, ResultRetry(o, r) PROVE HeldInOnePlace'
  BY <1>34 DEF ResultRetry, ResultArrives
<1>35. ASSUME NEW o \in Oids, NEW r \in ErrorKinds, ResultError(o, r) PROVE HeldInOnePlace'
  BY <1>35 DEF ResultError, Settle
<1>36. ASSUME NEW o \in Oids, ResultUnprocessable(o) PROVE HeldInOnePlace'
  BY <1>36 DEF ResultUnprocessable, Settle
<1>37. ASSUME NEW o \in Oids, ResultOk(o) PROVE HeldInOnePlace'
  BY <1>37 DEF ResultOk, ResultArrives
<1>38. ASSUME NEW o \in Oids, FinishResult(o) PROVE HeldInOnePlace'
  BY <1>38 DEF FinishResult, Settle
<1>39. ASSUME NEW w \in Watchers, NEW t \in Tuples, AnnounceResult(w, t) PROVE HeldInOnePlace'
  BY <1>39 DEF AnnounceResult
<1>40. ASSUME NEW o \in Oids, BackoffElapses(o) PROVE HeldInOnePlace'
  BY <1>40 DEF BackoffElapses
<1>41. ASSUME NEW o \in Oids, RetryAfterElapses(o) PROVE HeldInOnePlace'
  BY <1>41 DEF RetryAfterElapses
<1>42. CASE UNCHANGED vars
  BY <1>42 DEF vars
<1> QED
  BY <1>1, <1>2, <1>3, <1>4, <1>5, <1>6, <1>7, <1>8, <1>9, <1>10, <1>11,
     <1>12, <1>13, <1>14, <1>15, <1>16, <1>17, <1>18, <1>19, <1>20, <1>21, <1>22,
     <1>23, <1>24, <1>25, <1>26, <1>27, <1>28, <1>29, <1>30, <1>31, <1>32, <1>33,
     <1>34, <1>35, <1>36, <1>37, <1>38, <1>39, <1>40, <1>41, <1>42
     DEF Next, Add, Wait, CollectBatches, EnqueueAndCollectRetries,
         HandleTransferResult, Clock, Terminated, vars

\* Settling an object of the running batch resolves an unresolved object.
LEMMA SettleResolves ==
  ASSUME TypeOK, Phases, HeldAreQueued, NEW o \in Oids,
         NEW f \in {"completed", "present", "failed"}, Settle(o, f),
         stage[o] \notin {"idle", "todo", "retry"}
  PROVE  Resolves({o}, 1)
<1>1. {o} \in SUBSET InBatch /\ batcher \in {"call", "objects", "results"}
  BY DEF InBatch, TypeOK, BatcherStates, Phases, StagesMatch
<1>2. o \in Queued
  BY <1>1 DEF HeldAreQueued, Held, Phases
<1>3. /\ InBatch' = InBatch \ {o} /\ Queued' = Queued \ {o}
      /\ wq' = wq - 1 /\ counter' = counter - 1
  BY <1>1 DEF Settle, WaitDone, InBatch, Queued, TypeOK
<1>4. \A p \in Oids : outcome'[p] = "new" <=> outcome[p] = "new"
  BY <1>2 DEF Settle, Queued, TypeOK
<1> QED
  BY <1>1, <1>2, <1>3, <1>4 DEF Resolves

\* A failed request resolves the objects it gives up.
LEMMA BatchFailsResolves ==
  ASSUME TypeOK, Phases, HeldAreQueued, NEW e \in BatchErrors, BatchFails(e)
  PROVE  Resolves(Lost(e), Cardinality(Lost(e)))
<1>1. Lost(e) \in SUBSET InBatch /\ batcher \in {"call", "objects", "results"}
  BY DEF BatchFails, Lost, At, InBatch
<1>2. Lost(e) \subseteq Queued
  BY <1>1 DEF HeldAreQueued, Held, Phases
<1>3. InBatch' = InBatch \ Lost(e) /\ Queued' = Queued \ Lost(e)
  BY <1>1 DEF BatchFails, Lost, Kept, At, InBatch, Queued
<1>4. \A p \in Oids : outcome'[p] = "new" <=> outcome[p] = "new"
  BY <1>2 DEF BatchFails, Queued
<1>5. wq' = wq - Cardinality(Lost(e)) /\ counter' = counter - Cardinality(Lost(e))
  BY DEF BatchFails, WaitDone
<1> QED
  BY <1>1, <1>2, <1>3, <1>4, <1>5 DEF Resolves

\* An adapter that cannot begin resolves the transfers of the batch.
LEMMA BeginFailsResolves ==
  ASSUME TypeOK, Phases, HeldAreQueued, BeginFails
  PROVE  Resolves(At("accepted"), Cardinality(At("accepted")))
<1>1. At("accepted") \in SUBSET InBatch /\ batcher \in {"call", "objects", "results"}
  BY DEF BeginFails, At, InBatch
<1>2. At("accepted") \subseteq Queued
  BY <1>1 DEF HeldAreQueued, Held, Phases
<1>3. InBatch' = InBatch \ At("accepted") /\ Queued' = Queued \ At("accepted")
  BY <1>1 DEF BeginFails, At, MoveAll, InBatch, Queued
<1>4. \A p \in Oids : outcome'[p] = "new" <=> outcome[p] = "new"
  BY <1>2 DEF BeginFails, Queued, At
<1>5. /\ wq' = wq - Cardinality(At("accepted"))
      /\ counter' = counter - Cardinality(At("accepted"))
  BY DEF BeginFails, WaitDone
<1> QED
  BY <1>1, <1>2, <1>3, <1>4, <1>5 DEF Resolves

\* Resolving objects of the running batch lets go of them.
LEMMA ResolveHeld ==
  ASSUME TypeOK, Phases, HeldInOnePlace, HeldAreQueued,
         NEW os, NEW n, Resolves(os, n),
         UNCHANGED <<hand, incoming, next, pending, collected, transfers, collector>>
  PROVE  HeldAreQueued'
<1> USE DEF Resolves
<1>1. Held' = Held \ os
  BY DEF Held, HeldInOnePlace
<1>2. collector # "exited" /\ batchErr # "fatal"
  BY DEF Phases
<1>3. Held \subseteq Oids /\ Held' \subseteq Oids
  BY <1>1 DEF Held, InBatch, TypeOK, Elems
<1> QED
  BY <1>1, <1>2, <1>3 DEF HeldAreQueued

\* An object is let go exactly when it is resolved.
LEMMA HeldAreQueuedStep == TypeOK /\ Phases /\ HeldInOnePlace /\ HeldAreQueued /\ [Next]_vars => HeldAreQueued'
<1> SUFFICES ASSUME TypeOK, Phases, HeldInOnePlace, HeldAreQueued, [Next]_vars PROVE HeldAreQueued'
  OBVIOUS
<1> USE ConstantsAssumption
<1>1. ASSUME NEW w \in Watchers, Watch(w) PROVE HeldAreQueued'
  BY <1>1 DEF Watch, TypeOK, Phases, HeldAreQueued, Held, InBatch, Queued
<1>2. CASE AddError
  BY <1>2 DEF AddError, TypeOK, Phases, HeldAreQueued, Held, InBatch, Queued
<1>3. ASSUME NEW t \in Tuples, AddNew(t) PROVE HeldAreQueued'
  BY <1>3 DEF AddNew, Fresh, TypeOK, Phases, HeldAreQueued, Held, InBatch, Queued
<1>4. ASSUME NEW t \in Tuples, AddDuplicate(t) PROVE HeldAreQueued'
  BY <1>4 DEF AddDuplicate, Fresh, TypeOK, Phases, HeldAreQueued, Held, InBatch, Queued
<1>5. CASE SendIncoming
  <2>1. PICK o \in hand : incoming' = Append(incoming, o) /\ hand' = {}
    BY <1>5 DEF SendIncoming
  <2>2. Elems(incoming)' = Elems(incoming) \cup {o} /\ hand = {o}
    BY <2>1, ElemsAppend DEF TypeOK, Phases
  <2>3. Held' = Held
    BY <1>5, <2>1, <2>2 DEF SendIncoming, Held, InBatch
  <2> QED
    BY <1>5, <2>3 DEF SendIncoming, HeldAreQueued, Queued
<1>6. ASSUME NEW w \in Watchers, AnnounceDuplicate(w) PROVE HeldAreQueued'
  BY <1>6 DEF AnnounceDuplicate, TypeOK, Phases, HeldAreQueued, Held, InBatch, Queued
<1>7. CASE CallWait
  BY <1>7 DEF CallWait, TypeOK, Phases, HeldAreQueued, Held, InBatch, Queued
<1>8. CASE JoinTransfers
  BY <1>8 DEF JoinTransfers, TypeOK, Phases, HeldAreQueued, Held, InBatch, Queued
<1>9. CASE JoinCollector
  BY <1>9 DEF JoinCollector, TypeOK, Phases, HeldAreQueued, Held, InBatch, Queued
<1>10. CASE WaitReturn
  BY <1>10 DEF WaitReturn, TypeOK, Phases, HeldAreQueued, Held, InBatch, Queued
<1>11. CASE CollectError
  BY <1>11 DEF CollectError, TypeOK, Phases, HeldAreQueued, Held, InBatch, Queued
<1>12. ASSUME NEW w \in Watchers, ReadWatch(w) PROVE HeldAreQueued'
  BY <1>12 DEF ReadWatch, TypeOK, Phases, HeldAreQueued, Held, InBatch, Queued
<1>13. CASE FillOne
  <2>1. Elems(incoming) = Elems(incoming)' \cup {Head(incoming)}
    BY <1>13, ElemsTail DEF FillOne, HeldInOnePlace, TypeOK
  <2> QED
    BY <1>13, <2>1 DEF FillOne, TypeOK, Phases, HeldAreQueued, Held, InBatch, Queued
<1>14. CASE FillClosed
  BY <1>14 DEF FillClosed, TypeOK, Phases, HeldAreQueued, Held, InBatch, Queued
<1>15. CASE StartBatch
  BY <1>15 DEF StartBatch, MoveAll, StagesMatch, TypeOK, Phases, HeldAreQueued, Held, InBatch, Queued
<1>16. CASE CollectOne
  <2>1. Elems(incoming) = Elems(incoming)' \cup {Head(incoming)}
    BY <1>16, ElemsTail DEF CollectOne, HeldInOnePlace, TypeOK
  <2> QED
    BY <1>16, <2>1 DEF CollectOne, TypeOK, Phases, HeldAreQueued, Held, InBatch, Queued
<1>17. CASE CollectClosed
  BY <1>17 DEF CollectClosed, TypeOK, Phases, HeldAreQueued, Held, InBatch, Queued
<1>18. CASE CollectDone
  BY <1>18 DEF CollectDone, TypeOK, Phases, HeldAreQueued, Held, InBatch, Queued
<1>19. CASE AbortQueue
  BY <1>19 DEF AbortQueue, TypeOK, Phases, HeldAreQueued, Held, InBatch, Queued
<1>20. CASE ConcatBatches
  BY <1>20 DEF ConcatBatches, MoveAll, At, Left, Ready, StagesMatch, TypeOK, Phases, HeldAreQueued, Held, InBatch, Queued
<1>21. CASE WakeUp
  BY <1>21 DEF WakeUp, TypeOK, Phases, HeldAreQueued, Held, InBatch, Queued
<1>22. ASSUME NEW e \in BatchErrors, BatchFails(e) PROVE HeldAreQueued'
  <2>1. UNCHANGED <<hand, incoming, next, pending, collected, transfers, collector>>
    BY <1>22 DEF BatchFails
  <2> QED
    BY <1>22, <2>1, BatchFailsResolves, ResolveHeld
<1>23. ASSUME NEW v \in [At("todo") -> Verdicts], BatchAborts(v) PROVE HeldAreQueued'
  BY <1>23 DEF BatchAborts, MoveAll, At, TypeOK, Phases, HeldAreQueued, Held, InBatch, Queued
<1>24. ASSUME NEW v \in [At("todo") -> Verdicts], NEW n \in ServerNames, BatchAnswers(v, n) PROVE HeldAreQueued'
  <2>1. InBatch' \subseteq InBatch /\ batcher # "idle"
    BY <1>24 DEF BatchAnswers, At, InBatch
  <2>2. ASSUME "omitted" \notin Verdicts PROVE InBatch' = InBatch
    <3>1. \A p \in At("todo") : v[p] \notin {"idle", "omitted"}
      BY <2>2 DEF AllVerdicts
    <3> QED
      BY <1>24, <3>1 DEF BatchAnswers, At, InBatch
  <2> QED
    BY <1>24, <2>1, <2>2 DEF BatchAnswers, HeldAreQueued, Held, Queued
<1>25. ASSUME NEW o \in Oids, RejectObject(o) PROVE HeldAreQueued'
  <2>1. \E f \in {"completed", "present", "failed"} : Settle(o, f)
    BY <1>25 DEF RejectObject
  <2>2. stage[o] \notin {"idle", "todo", "retry"}
    BY <1>25 DEF RejectObject
  <2>3. UNCHANGED <<hand, incoming, next, pending, collected, transfers, collector>>
    BY <1>25 DEF RejectObject
  <2> QED
    BY <2>1, <2>2, <2>3, SettleResolves, ResolveHeld
<1>26. ASSUME NEW o \in Oids, RetryExpired(o) PROVE HeldAreQueued'
  BY <1>26 DEF RetryExpired, TypeOK, Phases, HeldAreQueued, Held, InBatch, Queued
<1>27. ASSUME NEW o \in Oids, SkipObject(o) PROVE HeldAreQueued'
  <2>1. \E f \in {"completed", "present", "failed"} : Settle(o, f)
    BY <1>27 DEF SkipObject
  <2>2. stage[o] \notin {"idle", "todo", "retry"}
    BY <1>27 DEF SkipObject
  <2>3. UNCHANGED <<hand, incoming, next, pending, collected, transfers, collector>>
    BY <1>27 DEF SkipObject
  <2> QED
    BY <2>1, <2>2, <2>3, SettleResolves, ResolveHeld
<1>28. ASSUME NEW o \in Oids, AcceptObject(o) PROVE HeldAreQueued'
  BY <1>28 DEF AcceptObject, TypeOK, Phases, HeldAreQueued, Held, InBatch, Queued
<1>29. CASE BeginFails
  <2>1. UNCHANGED <<hand, incoming, next, pending, collected, transfers, collector>>
    BY <1>29 DEF BeginFails
  <2> QED
    BY <1>29, <2>1, BeginFailsResolves, ResolveHeld
<1>30. ASSUME NEW absent \in SUBSET Oids, AddToAdapter(absent) PROVE HeldAreQueued'
  BY <1>30 DEF AddToAdapter, TypeOK, Phases, HeldAreQueued, Held, InBatch, Queued
<1>31. ASSUME NEW o \in Oids, TakeRetry(o) PROVE HeldAreQueued'
  BY <1>31 DEF TakeRetry, TypeOK, Phases, HeldAreQueued, Held, InBatch, Queued
<1>32. CASE BatchDone
  BY <1>32 DEF BatchDone, TypeOK, Phases, HeldAreQueued, Held, InBatch, Queued
<1>33. CASE ReportBatchError
  BY <1>33 DEF ReportBatchError, TypeOK, Phases, HeldAreQueued, Held, InBatch, Queued
<1>34. ASSUME NEW o \in Oids, NEW r \in ErrorKinds, ResultRetry(o, r) PROVE HeldAreQueued'
  BY <1>34 DEF ResultRetry, ResultArrives, TypeOK, Phases, HeldAreQueued, Held, InBatch, Queued
<1>35. ASSUME NEW o \in Oids, NEW r \in ErrorKinds, ResultError(o, r) PROVE HeldAreQueued'
  <2>1. \E f \in {"completed", "present", "failed"} : Settle(o, f)
    BY <1>35 DEF ResultError
  <2>2. stage[o] \notin {"idle", "todo", "retry"}
    BY <1>35 DEF ResultError, ResultArrives
  <2>3. UNCHANGED <<hand, incoming, next, pending, collected, transfers, collector>>
    BY <1>35 DEF ResultError
  <2> QED
    BY <2>1, <2>2, <2>3, SettleResolves, ResolveHeld
<1>36. ASSUME NEW o \in Oids, ResultUnprocessable(o) PROVE HeldAreQueued'
  <2>1. \E f \in {"completed", "present", "failed"} : Settle(o, f)
    BY <1>36 DEF ResultUnprocessable
  <2>2. stage[o] \notin {"idle", "todo", "retry"}
    BY <1>36 DEF ResultUnprocessable, ResultArrives
  <2>3. UNCHANGED <<hand, incoming, next, pending, collected, transfers, collector>>
    BY <1>36 DEF ResultUnprocessable
  <2> QED
    BY <2>1, <2>2, <2>3, SettleResolves, ResolveHeld
<1>37. ASSUME NEW o \in Oids, ResultOk(o) PROVE HeldAreQueued'
  BY <1>37 DEF ResultOk, ResultArrives, TypeOK, Phases, HeldAreQueued, Held, InBatch, Queued
<1>38. ASSUME NEW o \in Oids, FinishResult(o) PROVE HeldAreQueued'
  <2>1. \E f \in {"completed", "present", "failed"} : Settle(o, f)
    BY <1>38 DEF FinishResult
  <2>2. stage[o] \notin {"idle", "todo", "retry"}
    BY <1>38 DEF FinishResult
  <2>3. UNCHANGED <<hand, incoming, next, pending, collected, transfers, collector>>
    BY <1>38 DEF FinishResult
  <2> QED
    BY <2>1, <2>2, <2>3, SettleResolves, ResolveHeld
<1>39. ASSUME NEW w \in Watchers, NEW t \in Tuples, AnnounceResult(w, t) PROVE HeldAreQueued'
  BY <1>39 DEF AnnounceResult, TypeOK, Phases, HeldAreQueued, Held, InBatch, Queued
<1>40. ASSUME NEW o \in Oids, BackoffElapses(o) PROVE HeldAreQueued'
  BY <1>40 DEF BackoffElapses, TypeOK, Phases, HeldAreQueued, Held, InBatch, Queued
<1>41. ASSUME NEW o \in Oids, RetryAfterElapses(o) PROVE HeldAreQueued'
  BY <1>41 DEF RetryAfterElapses, TypeOK, Phases, HeldAreQueued, Held, InBatch, Queued
<1>42. CASE UNCHANGED vars
  BY <1>42 DEF vars, HeldAreQueued, Held, InBatch, Queued
<1> QED
  BY <1>1, <1>2, <1>3, <1>4, <1>5, <1>6, <1>7, <1>8, <1>9, <1>10, <1>11,
     <1>12, <1>13, <1>14, <1>15, <1>16, <1>17, <1>18, <1>19, <1>20, <1>21, <1>22,
     <1>23, <1>24, <1>25, <1>26, <1>27, <1>28, <1>29, <1>30, <1>31, <1>32, <1>33,
     <1>34, <1>35, <1>36, <1>37, <1>38, <1>39, <1>40, <1>41, <1>42
     DEF Next, Add, Wait, CollectBatches, EnqueueAndCollectRetries,
         HandleTransferResult, Clock, Terminated, vars

\* The number of unresolved objects after a step that resolves some of them.
LEMMA ResolveCount ==
  ASSUME NEW os \in SUBSET Queued
  PROVE  Cardinality(Queued \ os) = Cardinality(Queued) - Cardinality(os)
<1>1. IsFiniteSet(Queued)
  BY ConstantsAssumption, FS_Subset DEF Queued
<1>2. IsFiniteSet(os) /\ IsFiniteSet(Queued \ os)
  BY <1>1, FS_Subset
<1>3. (Queued \ os) \cup os = Queued /\ (Queued \ os) \cap os = {}
  OBVIOUS
<1>4. /\ Cardinality(Queued \ os) \in Nat /\ Cardinality(os) \in Nat
      /\ Cardinality((Queued \ os) \cap os) = 0
  BY <1>2, <1>3, FS_CardinalityType, FS_EmptySet
<1>5. Cardinality((Queued \ os) \cup os)
        = Cardinality(Queued \ os) + Cardinality(os) - Cardinality((Queued \ os) \cap os)
  BY <1>2, FS_Union
<1> QED
  BY <1>3, <1>4, <1>5

\* A step that resolves n objects and calls Done n times keeps the count.
LEMMA ResolveWait ==
  ASSUME TypeOK, Phases, WaitCountsQueued, NEW os, Resolves(os, Cardinality(os)),
         UNCHANGED collector
  PROVE  WaitCountsQueued'
<1>1. Cardinality(Queued') = Cardinality(Queued) - Cardinality(os)
  BY ResolveCount DEF Resolves
<1>2. collector # "exited"
  BY DEF Phases, Resolves
<1> QED
  BY <1>1, <1>2 DEF WaitCountsQueued, Resolves

\* The wait group counts the unresolved objects after every step.
LEMMA WaitCountsStep == TypeOK /\ Phases /\ HeldAreQueued /\ WaitCountsQueued /\ [Next]_vars => WaitCountsQueued'
<1> SUFFICES ASSUME TypeOK, Phases, HeldAreQueued, WaitCountsQueued, [Next]_vars PROVE WaitCountsQueued'
  OBVIOUS
<1> USE ConstantsAssumption
<1>1. ASSUME NEW w \in Watchers, Watch(w) PROVE WaitCountsQueued'
  BY <1>1 DEF Watch, WaitCountsQueued, Queued, TypeOK, Phases
<1>2. CASE AddError
  BY <1>2 DEF AddError, WaitCountsQueued, Queued, TypeOK, Phases
<1>3. ASSUME NEW t \in Tuples, AddNew(t) PROVE WaitCountsQueued'
  <2>1. OidOf[t] \in Oids /\ OidOf[t] \notin Queued
    BY <1>3 DEF AddNew, HeldAreQueued, Queued
  <2>2. Queued' = Queued \cup {OidOf[t]}
    BY <1>3, <2>1 DEF AddNew, Queued, TypeOK
  <2>3. IsFiniteSet(Queued)
    BY FS_Subset DEF Queued
  <2>4. Cardinality(Queued') = Cardinality(Queued) + 1
    BY <2>1, <2>2, <2>3, FS_AddElement
  <2> QED
    BY <1>3, <2>4 DEF AddNew, WaitAdd, WaitCountsQueued
<1>4. ASSUME NEW t \in Tuples, AddDuplicate(t) PROVE WaitCountsQueued'
  BY <1>4 DEF AddDuplicate, WaitCountsQueued, Queued, TypeOK, Phases
<1>5. CASE SendIncoming
  BY <1>5 DEF SendIncoming, WaitCountsQueued, Queued, TypeOK, Phases
<1>6. ASSUME NEW w \in Watchers, AnnounceDuplicate(w) PROVE WaitCountsQueued'
  BY <1>6 DEF AnnounceDuplicate, WaitCountsQueued, Queued, TypeOK, Phases
<1>7. CASE CallWait
  BY <1>7 DEF CallWait, WaitCountsQueued, Queued, TypeOK, Phases
<1>8. CASE JoinTransfers
  BY <1>8 DEF JoinTransfers, WaitCountsQueued, Queued, TypeOK, Phases
<1>9. CASE JoinCollector
  BY <1>9 DEF JoinCollector, WaitCountsQueued, Queued, TypeOK, Phases
<1>10. CASE WaitReturn
  BY <1>10 DEF WaitReturn, WaitCountsQueued, Queued, TypeOK, Phases
<1>11. CASE CollectError
  BY <1>11 DEF CollectError, WaitCountsQueued, Queued, TypeOK, Phases
<1>12. ASSUME NEW w \in Watchers, ReadWatch(w) PROVE WaitCountsQueued'
  BY <1>12 DEF ReadWatch, WaitCountsQueued, Queued, TypeOK, Phases
<1>13. CASE FillOne
  BY <1>13 DEF FillOne, WaitCountsQueued, Queued, TypeOK, Phases
<1>14. CASE FillClosed
  BY <1>14 DEF FillClosed, WaitCountsQueued, Queued, TypeOK, Phases
<1>15. CASE StartBatch
  BY <1>15 DEF StartBatch, MoveAll, WaitCountsQueued, Queued, TypeOK, Phases
<1>16. CASE CollectOne
  BY <1>16 DEF CollectOne, WaitCountsQueued, Queued, TypeOK, Phases
<1>17. CASE CollectClosed
  BY <1>17 DEF CollectClosed, WaitCountsQueued, Queued, TypeOK, Phases
<1>18. CASE CollectDone
  BY <1>18 DEF CollectDone, WaitCountsQueued, Queued, TypeOK, Phases
<1>19. CASE AbortQueue
  <2>1. Queued' = {} /\ counter = wq /\ wq \in Int
    BY <1>19 DEF AbortQueue, Queued, WaitCountsQueued, TypeOK
  <2>2. Cardinality(Queued') = 0
    BY <2>1, FS_EmptySet
  <2> QED
    BY <1>19, <2>1, <2>2 DEF AbortQueue, WaitAbort, WaitCountsQueued
<1>20. CASE ConcatBatches
  BY <1>20 DEF ConcatBatches, WaitCountsQueued, Queued, TypeOK, Phases
<1>21. CASE WakeUp
  BY <1>21 DEF WakeUp, WaitCountsQueued, Queued, TypeOK, Phases
<1>22. ASSUME NEW e \in BatchErrors, BatchFails(e) PROVE WaitCountsQueued'
  BY <1>22, BatchFailsResolves, ResolveWait DEF BatchFails
<1>23. ASSUME NEW v \in [At("todo") -> Verdicts], BatchAborts(v) PROVE WaitCountsQueued'
  BY <1>23 DEF BatchAborts, WaitCountsQueued, Queued, TypeOK, Phases
<1>24. ASSUME NEW v \in [At("todo") -> Verdicts], NEW n \in ServerNames, BatchAnswers(v, n) PROVE WaitCountsQueued'
  BY <1>24 DEF BatchAnswers, WaitCountsQueued, Queued, TypeOK, Phases
<1>25. ASSUME NEW o \in Oids, RejectObject(o) PROVE WaitCountsQueued'
  <2>1. \E f \in {"completed", "present", "failed"} : Settle(o, f)
    BY <1>25 DEF RejectObject
  <2>2. stage[o] \notin {"idle", "todo", "retry"}
    BY <1>25 DEF RejectObject
  <2>3. Resolves({o}, 1) /\ Cardinality({o}) = 1
    BY <2>1, <2>2, SettleResolves, FS_Singleton
  <2> QED
    BY <1>25, <2>3, ResolveWait DEF RejectObject
<1>26. ASSUME NEW o \in Oids, RetryExpired(o) PROVE WaitCountsQueued'
  BY <1>26 DEF RetryExpired, WaitCountsQueued, Queued, TypeOK, Phases
<1>27. ASSUME NEW o \in Oids, SkipObject(o) PROVE WaitCountsQueued'
  <2>1. \E f \in {"completed", "present", "failed"} : Settle(o, f)
    BY <1>27 DEF SkipObject
  <2>2. stage[o] \notin {"idle", "todo", "retry"}
    BY <1>27 DEF SkipObject
  <2>3. Resolves({o}, 1) /\ Cardinality({o}) = 1
    BY <2>1, <2>2, SettleResolves, FS_Singleton
  <2> QED
    BY <1>27, <2>3, ResolveWait DEF SkipObject
<1>28. ASSUME NEW o \in Oids, AcceptObject(o) PROVE WaitCountsQueued'
  BY <1>28 DEF AcceptObject, WaitCountsQueued, Queued, TypeOK, Phases
<1>29. CASE BeginFails
  BY <1>29, BeginFailsResolves, ResolveWait DEF BeginFails
<1>30. ASSUME NEW absent \in SUBSET Oids, AddToAdapter(absent) PROVE WaitCountsQueued'
  BY <1>30 DEF AddToAdapter, WaitCountsQueued, Queued, TypeOK, Phases
<1>31. ASSUME NEW o \in Oids, TakeRetry(o) PROVE WaitCountsQueued'
  BY <1>31 DEF TakeRetry, WaitCountsQueued, Queued, TypeOK, Phases
<1>32. CASE BatchDone
  BY <1>32 DEF BatchDone, WaitCountsQueued, Queued, TypeOK, Phases
<1>33. CASE ReportBatchError
  BY <1>33 DEF ReportBatchError, WaitCountsQueued, Queued, TypeOK, Phases
<1>34. ASSUME NEW o \in Oids, NEW r \in ErrorKinds, ResultRetry(o, r) PROVE WaitCountsQueued'
  BY <1>34 DEF ResultRetry, WaitCountsQueued, Queued, TypeOK, Phases
<1>35. ASSUME NEW o \in Oids, NEW r \in ErrorKinds, ResultError(o, r) PROVE WaitCountsQueued'
  <2>1. \E f \in {"completed", "present", "failed"} : Settle(o, f)
    BY <1>35 DEF ResultError
  <2>2. stage[o] \notin {"idle", "todo", "retry"}
    BY <1>35 DEF ResultError, ResultArrives
  <2>3. Resolves({o}, 1) /\ Cardinality({o}) = 1
    BY <2>1, <2>2, SettleResolves, FS_Singleton
  <2> QED
    BY <1>35, <2>3, ResolveWait DEF ResultError
<1>36. ASSUME NEW o \in Oids, ResultUnprocessable(o) PROVE WaitCountsQueued'
  <2>1. \E f \in {"completed", "present", "failed"} : Settle(o, f)
    BY <1>36 DEF ResultUnprocessable
  <2>2. stage[o] \notin {"idle", "todo", "retry"}
    BY <1>36 DEF ResultUnprocessable, ResultArrives
  <2>3. Resolves({o}, 1) /\ Cardinality({o}) = 1
    BY <2>1, <2>2, SettleResolves, FS_Singleton
  <2> QED
    BY <1>36, <2>3, ResolveWait DEF ResultUnprocessable
<1>37. ASSUME NEW o \in Oids, ResultOk(o) PROVE WaitCountsQueued'
  BY <1>37 DEF ResultOk, WaitCountsQueued, Queued, TypeOK, Phases
<1>38. ASSUME NEW o \in Oids, FinishResult(o) PROVE WaitCountsQueued'
  <2>1. \E f \in {"completed", "present", "failed"} : Settle(o, f)
    BY <1>38 DEF FinishResult
  <2>2. stage[o] \notin {"idle", "todo", "retry"}
    BY <1>38 DEF FinishResult
  <2>3. Resolves({o}, 1) /\ Cardinality({o}) = 1
    BY <2>1, <2>2, SettleResolves, FS_Singleton
  <2> QED
    BY <1>38, <2>3, ResolveWait DEF FinishResult
<1>39. ASSUME NEW w \in Watchers, NEW t \in Tuples, AnnounceResult(w, t) PROVE WaitCountsQueued'
  BY <1>39 DEF AnnounceResult, WaitCountsQueued, Queued, TypeOK, Phases
<1>40. ASSUME NEW o \in Oids, BackoffElapses(o) PROVE WaitCountsQueued'
  BY <1>40 DEF BackoffElapses, WaitCountsQueued, Queued, TypeOK, Phases
<1>41. ASSUME NEW o \in Oids, RetryAfterElapses(o) PROVE WaitCountsQueued'
  BY <1>41 DEF RetryAfterElapses, WaitCountsQueued, Queued, TypeOK, Phases
<1>42. CASE UNCHANGED vars
  BY <1>42 DEF vars, WaitCountsQueued, Queued
<1> QED
  BY <1>1, <1>2, <1>3, <1>4, <1>5, <1>6, <1>7, <1>8, <1>9, <1>10, <1>11,
     <1>12, <1>13, <1>14, <1>15, <1>16, <1>17, <1>18, <1>19, <1>20, <1>21, <1>22,
     <1>23, <1>24, <1>25, <1>26, <1>27, <1>28, <1>29, <1>30, <1>31, <1>32, <1>33,
     <1>34, <1>35, <1>36, <1>37, <1>38, <1>39, <1>40, <1>41, <1>42
     DEF Next, Add, Wait, CollectBatches, EnqueueAndCollectRetries,
         HandleTransferResult, Clock, Terminated, vars

\* The inductive invariant holds in every reachable state of the queue.
THEOREM InductiveInvariant == Spec => []IInv
<1>1. Init => IInv
  <2> SUFFICES ASSUME Init PROVE IInv
    OBVIOUS
  <2> USE ConstantsAssumption DEF Init
  <2>1. TypeOK
    <3>1. /\ incoming \in Seq(Oids) /\ watchLen \in [Watchers -> 0..BatchSize]
          /\ notified \in [Watchers -> [Tuples -> Nat]]
          /\ stage \in [Oids -> Stages] /\ outcome \in [Oids -> Outcomes]
      BY DEF Stages, Outcomes
    <3>2. /\ transfers \in [Oids -> SUBSET Tuples] /\ rc \in [Oids -> Nat]
          /\ readyTime \in [Oids -> {"past", "backoff", "retryAfter"}]
      OBVIOUS
    <3>3. caller \in CallerStates /\ collector \in CollectorStates /\ batcher \in BatcherStates
      BY DEF CallerStates, CollectorStates, BatcherStates
    <3>4. wq \in Int /\ counter \in Int /\ notifying \in SUBSET (Watchers \X Tuples)
      OBVIOUS
    <3> QED
      BY <3>1, <3>2, <3>3, <3>4 DEF TypeOK
  <2>2. Phases
    BY DEF Phases, StagesMatch
  <2>3. Held = {} /\ Queued = {}
    BY DEF Held, InBatch, Elems, Queued
  <2>4. HeldInOnePlace
    BY DEF HeldInOnePlace, InBatch, Elems, Distinct
  <2>5. HeldAreQueued
    BY <2>3 DEF HeldAreQueued
  <2>6. WaitCountsQueued
    BY <2>3, FS_EmptySet DEF WaitCountsQueued
  <2> QED
    BY <2>1, <2>2, <2>4, <2>5, <2>6 DEF IInv
<1>2. IInv /\ [Next]_vars => IInv'
  BY TypeStep, PhasesStep, OnePlaceStep, HeldAreQueuedStep, WaitCountsStep DEF IInv
<1> QED
  BY <1>1, <1>2, PTL DEF Spec

\* Every variable of the queue keeps its type.
THEOREM TypeCorrect == Spec => []TypeOK
<1>1. IInv => TypeOK
  BY DEF IInv
<1> QED
  BY <1>1, InductiveInvariant, PTL

\* No object is in two places at once, so none is transferred twice at the same
\* time.
THEOREM OnePlace == Spec => []HeldInOnePlace
<1>1. IInv => HeldInOnePlace
  BY DEF IInv
<1> QED
  BY <1>1, InductiveInvariant, PTL

\* The wait group counts exactly the objects that are held, and is never
\* negative.
THEOREM WaitGroupExact == Spec => []WaitGroupCountsHeld
<1>1. IInv => WaitGroupCountsHeld
  <2> SUFFICES ASSUME IInv PROVE WaitGroupCountsHeld
    OBVIOUS
  <2>1. IsFiniteSet(Queued)
    BY ConstantsAssumption, FS_Subset DEF Queued
  <2>2. wq \in Nat
    BY <2>1, FS_CardinalityType DEF IInv, WaitCountsQueued
  <2>3. batchErr # "fatal" /\ "omitted" \notin Verdicts => Held = Queued
    BY DEF IInv, HeldAreQueued
  <2> QED
    BY <2>2, <2>3 DEF IInv, WaitCountsQueued, WaitGroupCountsHeld
<1> QED
  BY <1>1, InductiveInvariant, PTL

-----------------------------------------------------------------------------
(***************************************************************************)
(* TransferQueue implements TransferPromise, never sends on a channel that *)
(* Wait has closed, loses no object silently and announces every tuple of  *)
(* a completed object exactly once.                                        *)
(***************************************************************************)

\* How far Wait has come: what it has closed and joined.
WaitPhases ==
  /\ incomingClosed <=> caller \in {"waiting", "joining", "closing", "returned"}
  /\ caller \in {"joining", "closing", "returned"} => Queued = {}
  /\ caller \in {"closing", "returned"} => collector = "exited"
  /\ notifying # {} => \E o \in Oids : stage[o] = "notifying"

\* Wait's phases are kept by every step.
LEMMA WaitPhasesStep == IInv /\ WaitPhases /\ [Next]_vars => WaitPhases'
<1> SUFFICES ASSUME IInv, WaitPhases, [Next]_vars PROVE WaitPhases'
  OBVIOUS
<1> USE ConstantsAssumption
<1>1. ASSUME NEW w \in Watchers, Watch(w) PROVE WaitPhases'
  BY <1>1 DEF Watch, IInv, WaitPhases, TypeOK, Queued
<1>2. CASE AddError
  BY <1>2 DEF AddError, IInv, WaitPhases, TypeOK, Queued
<1>3. ASSUME NEW t \in Tuples, AddNew(t) PROVE WaitPhases'
  BY <1>3 DEF AddNew, Fresh, IInv, WaitPhases, TypeOK, Queued
<1>4. ASSUME NEW t \in Tuples, AddDuplicate(t) PROVE WaitPhases'
  BY <1>4 DEF AddDuplicate, Fresh, IInv, WaitPhases, TypeOK, Queued
<1>5. CASE SendIncoming
  BY <1>5 DEF SendIncoming, IInv, WaitPhases, TypeOK, Queued
<1>6. ASSUME NEW w \in Watchers, AnnounceDuplicate(w) PROVE WaitPhases'
  BY <1>6 DEF AnnounceDuplicate, IInv, WaitPhases, TypeOK, Queued
<1>7. CASE CallWait
  BY <1>7 DEF CallWait, IInv, WaitPhases, TypeOK, Queued
<1>8. CASE JoinTransfers
  <2>1. IsFiniteSet(Queued)
    BY FS_Subset DEF Queued
  <2>2. Queued = {}
    BY <1>8, <2>1, FS_EmptySet DEF JoinTransfers, IInv, WaitCountsQueued
  <2> QED
    BY <1>8, <2>2 DEF JoinTransfers, WaitPhases, Queued
<1>9. CASE JoinCollector
  BY <1>9 DEF JoinCollector, IInv, WaitPhases, TypeOK, Queued
<1>10. CASE WaitReturn
  BY <1>10 DEF WaitReturn, IInv, WaitPhases, TypeOK, Queued
<1>11. CASE CollectError
  BY <1>11 DEF CollectError, IInv, WaitPhases, TypeOK, Queued
<1>12. ASSUME NEW w \in Watchers, ReadWatch(w) PROVE WaitPhases'
  BY <1>12 DEF ReadWatch, IInv, WaitPhases, TypeOK, Queued
<1>13. CASE FillOne
  BY <1>13 DEF FillOne, IInv, WaitPhases, TypeOK, Queued
<1>14. CASE FillClosed
  BY <1>14 DEF FillClosed, IInv, WaitPhases, TypeOK, Queued
<1>15. CASE StartBatch
  BY <1>15 DEF StartBatch, MoveAll, Phases, StagesMatch, IInv, WaitPhases, TypeOK, Queued
<1>16. CASE CollectOne
  BY <1>16 DEF CollectOne, IInv, WaitPhases, TypeOK, Queued
<1>17. CASE CollectClosed
  BY <1>17 DEF CollectClosed, IInv, WaitPhases, TypeOK, Queued
<1>18. CASE CollectDone
  BY <1>18 DEF CollectDone, IInv, WaitPhases, TypeOK, Queued
<1>19. CASE AbortQueue
  BY <1>19 DEF AbortQueue, IInv, WaitPhases, TypeOK, Queued
<1>20. CASE ConcatBatches
  BY <1>20 DEF ConcatBatches, MoveAll, At, Phases, StagesMatch, IInv, WaitPhases, TypeOK, Queued
<1>21. CASE WakeUp
  BY <1>21 DEF WakeUp, IInv, WaitPhases, TypeOK, Queued
<1>22. ASSUME NEW e \in BatchErrors, BatchFails(e) PROVE WaitPhases'
  <2>1. Queued' = Queued \ Lost(e)
    BY <1>22, BatchFailsResolves DEF IInv, Resolves
  <2> QED
    BY <1>22, <2>1 DEF BatchFails, WaitPhases, IInv, Phases, StagesMatch
<1>23. ASSUME NEW v \in [At("todo") -> Verdicts], BatchAborts(v) PROVE WaitPhases'
  BY <1>23 DEF BatchAborts, MoveAll, At, Phases, StagesMatch, IInv, WaitPhases, TypeOK, Queued
<1>24. ASSUME NEW v \in [At("todo") -> Verdicts], NEW n \in ServerNames, BatchAnswers(v, n) PROVE WaitPhases'
  BY <1>24 DEF BatchAnswers, Phases, StagesMatch, IInv, WaitPhases, TypeOK, Queued
<1>25. ASSUME NEW o \in Oids, RejectObject(o) PROVE WaitPhases'
  <2>1. \E f \in {"completed", "present", "failed"} : Settle(o, f)
    BY <1>25 DEF RejectObject
  <2>2. stage[o] \notin {"idle", "todo", "retry"}
    BY <1>25 DEF RejectObject
  <2>3. Resolves({o}, 1)
    BY <2>1, <2>2, SettleResolves DEF IInv
  <2>4. Queued' = Queued \ {o}
    BY <2>3 DEF Resolves
  <2> QED
    BY <1>25, <2>1, <2>4 DEF RejectObject, Settle, ResultArrives, TrMutexHeld, At, WaitPhases, IInv, TypeOK
<1>26. ASSUME NEW o \in Oids, RetryExpired(o) PROVE WaitPhases'
  BY <1>26 DEF RetryExpired, IInv, WaitPhases, TypeOK, Queued
<1>27. ASSUME NEW o \in Oids, SkipObject(o) PROVE WaitPhases'
  <2>1. \E f \in {"completed", "present", "failed"} : Settle(o, f)
    BY <1>27 DEF SkipObject
  <2>2. stage[o] \notin {"idle", "todo", "retry"}
    BY <1>27 DEF SkipObject
  <2>3. Resolves({o}, 1)
    BY <2>1, <2>2, SettleResolves DEF IInv
  <2>4. Queued' = Queued \ {o}
    BY <2>3 DEF Resolves
  <2> QED
    BY <1>27, <2>1, <2>4 DEF SkipObject, Settle, ResultArrives, TrMutexHeld, At, WaitPhases, IInv, TypeOK
<1>28. ASSUME NEW o \in Oids, AcceptObject(o) PROVE WaitPhases'
  BY <1>28 DEF AcceptObject, IInv, WaitPhases, TypeOK, Queued
<1>29. CASE BeginFails
  <2>1. Queued' = Queued \ At("accepted")
    BY <1>29, BeginFailsResolves DEF IInv, Resolves
  <2> QED
    BY <1>29, <2>1 DEF BeginFails, WaitPhases, IInv, Phases, StagesMatch, AllVerdicts
<1>30. ASSUME NEW absent \in SUBSET Oids, AddToAdapter(absent) PROVE WaitPhases'
  BY <1>30 DEF AddToAdapter, Phases, StagesMatch, IInv, WaitPhases, TypeOK, Queued
<1>31. ASSUME NEW o \in Oids, TakeRetry(o) PROVE WaitPhases'
  BY <1>31 DEF TakeRetry, IInv, WaitPhases, TypeOK, Queued
<1>32. CASE BatchDone
  BY <1>32 DEF BatchDone, IInv, WaitPhases, TypeOK, Queued
<1>33. CASE ReportBatchError
  BY <1>33 DEF ReportBatchError, IInv, WaitPhases, TypeOK, Queued
<1>34. ASSUME NEW o \in Oids, NEW r \in ErrorKinds, ResultRetry(o, r) PROVE WaitPhases'
  BY <1>34 DEF ResultRetry, ResultArrives, IInv, WaitPhases, TypeOK, Queued
<1>35. ASSUME NEW o \in Oids, NEW r \in ErrorKinds, ResultError(o, r) PROVE WaitPhases'
  <2>1. \E f \in {"completed", "present", "failed"} : Settle(o, f)
    BY <1>35 DEF ResultError
  <2>2. stage[o] \notin {"idle", "todo", "retry"}
    BY <1>35 DEF ResultError, ResultArrives
  <2>3. Resolves({o}, 1)
    BY <2>1, <2>2, SettleResolves DEF IInv
  <2>4. Queued' = Queued \ {o}
    BY <2>3 DEF Resolves
  <2> QED
    BY <1>35, <2>1, <2>4 DEF ResultError, Settle, ResultArrives, TrMutexHeld, At, WaitPhases, IInv, TypeOK
<1>36. ASSUME NEW o \in Oids, ResultUnprocessable(o) PROVE WaitPhases'
  <2>1. \E f \in {"completed", "present", "failed"} : Settle(o, f)
    BY <1>36 DEF ResultUnprocessable
  <2>2. stage[o] \notin {"idle", "todo", "retry"}
    BY <1>36 DEF ResultUnprocessable, ResultArrives
  <2>3. Resolves({o}, 1)
    BY <2>1, <2>2, SettleResolves DEF IInv
  <2>4. Queued' = Queued \ {o}
    BY <2>3 DEF Resolves
  <2> QED
    BY <1>36, <2>1, <2>4 DEF ResultUnprocessable, Settle, ResultArrives, TrMutexHeld, At, WaitPhases, IInv, TypeOK
<1>37. ASSUME NEW o \in Oids, ResultOk(o) PROVE WaitPhases'
  BY <1>37 DEF ResultOk, IInv, WaitPhases, TypeOK, Queued
<1>38. ASSUME NEW o \in Oids, FinishResult(o) PROVE WaitPhases'
  <2>1. \E f \in {"completed", "present", "failed"} : Settle(o, f)
    BY <1>38 DEF FinishResult
  <2>2. stage[o] \notin {"idle", "todo", "retry"}
    BY <1>38 DEF FinishResult
  <2>3. Resolves({o}, 1)
    BY <2>1, <2>2, SettleResolves DEF IInv
  <2>4. Queued' = Queued \ {o}
    BY <2>3 DEF Resolves
  <2> QED
    BY <1>38, <2>1, <2>4 DEF FinishResult, Settle, ResultArrives, TrMutexHeld, At, WaitPhases, IInv, TypeOK
<1>39. ASSUME NEW w \in Watchers, NEW t \in Tuples, AnnounceResult(w, t) PROVE WaitPhases'
  BY <1>39 DEF AnnounceResult, IInv, WaitPhases, TypeOK, Queued
<1>40. ASSUME NEW o \in Oids, BackoffElapses(o) PROVE WaitPhases'
  BY <1>40 DEF BackoffElapses, IInv, WaitPhases, TypeOK, Queued
<1>41. ASSUME NEW o \in Oids, RetryAfterElapses(o) PROVE WaitPhases'
  BY <1>41 DEF RetryAfterElapses, IInv, WaitPhases, TypeOK, Queued
<1>42. CASE UNCHANGED vars
  BY <1>42 DEF vars, WaitPhases, Queued
<1> QED
  BY <1>1, <1>2, <1>3, <1>4, <1>5, <1>6, <1>7, <1>8, <1>9, <1>10, <1>11,
     <1>12, <1>13, <1>14, <1>15, <1>16, <1>17, <1>18, <1>19, <1>20, <1>21, <1>22,
     <1>23, <1>24, <1>25, <1>26, <1>27, <1>28, <1>29, <1>30, <1>31, <1>32, <1>33,
     <1>34, <1>35, <1>36, <1>37, <1>38, <1>39, <1>40, <1>41, <1>42
     DEF Next, Add, Wait, CollectBatches, EnqueueAndCollectRetries,
         HandleTransferResult, Clock, Terminated, vars

\* Both invariants hold in every reachable state.
LEMMA Reachable == Spec => [](IInv /\ WaitPhases)
<1>1. Init => WaitPhases
  BY DEF Init, WaitPhases
<1> QED
  BY <1>1, WaitPhasesStep, InductiveInvariant, PTL DEF Spec

\* Every step of the queue is a step of its promise or leaves it unchanged.
LEMMA PromiseStep == IInv /\ WaitPhases /\ [Next]_vars => [Promise!Next]_(Promise!vars)
<1> SUFFICES ASSUME IInv, WaitPhases, [Next]_vars PROVE [Promise!Next]_(Promise!vars)
  OBVIOUS
<1> USE ConstantsAssumption DEF IInv, WaitPhases, Phases
<1>a. ASSUME NEW os \in SUBSET Queued, NEW f \in {"completed", "present", "failed"},
             os # {}, batcher \in {"call", "objects", "results"},
             outcome' = [o \in Oids |-> IF o \in os THEN f ELSE outcome[o]],
             UNCHANGED <<incomingClosed, collector, caller>>
      PROVE  Promise!Next
  <2>1. collector # "exited" /\ caller # "returned"
    BY <1>a
  <2>2. Promise!Resolve(os, f)
    BY <1>a, <2>1 DEF Promise!Resolve
  <2> QED
    BY <1>a, <2>2 DEF Promise!Next, Promise!Unresolved, Promise!Resolutions, Queued
<1>1. ASSUME NEW w \in Watchers, Watch(w) PROVE [Promise!Next]_(Promise!vars)
  BY <1>1 DEF Watch, Promise!vars
<1>2. ASSUME AddError PROVE [Promise!Next]_(Promise!vars)
  BY <1>2 DEF AddError, Promise!vars
<1>3. ASSUME NEW t \in Tuples, AddNew(t) PROVE [Promise!Next]_(Promise!vars)
  <2>1. Promise!Accept(OidOf[t])
    BY <1>3 DEF AddNew, Fresh, HeldAreQueued, TypeOK, Promise!Accept
  <2> QED
    BY <2>1 DEF Promise!Next
<1>4. ASSUME NEW t \in Tuples, AddDuplicate(t) PROVE [Promise!Next]_(Promise!vars)
  BY <1>4 DEF AddDuplicate, Fresh, Promise!vars
<1>5. ASSUME SendIncoming PROVE [Promise!Next]_(Promise!vars)
  BY <1>5 DEF SendIncoming, Promise!vars
<1>6. ASSUME NEW w \in Watchers, AnnounceDuplicate(w) PROVE [Promise!Next]_(Promise!vars)
  BY <1>6 DEF AnnounceDuplicate, Promise!vars
<1>7. ASSUME CallWait PROVE [Promise!Next]_(Promise!vars)
  <2>1. Promise!Close
    BY <1>7 DEF CallWait, Promise!Close
  <2> QED
    BY <2>1 DEF Promise!Next
<1>8. ASSUME JoinTransfers PROVE [Promise!Next]_(Promise!vars)
  BY <1>8 DEF JoinTransfers, Promise!vars
<1>9. ASSUME JoinCollector PROVE [Promise!Next]_(Promise!vars)
  BY <1>9 DEF JoinCollector, Promise!vars
<1>10. ASSUME WaitReturn PROVE [Promise!Next]_(Promise!vars)
  <2>1. Promise!Return
    BY <1>10 DEF WaitReturn, Promise!Return, Promise!Unresolved, Queued
  <2> QED
    BY <2>1 DEF Promise!Next
<1>11. ASSUME CollectError PROVE [Promise!Next]_(Promise!vars)
  BY <1>11 DEF CollectError, Promise!vars
<1>12. ASSUME NEW w \in Watchers, ReadWatch(w) PROVE [Promise!Next]_(Promise!vars)
  BY <1>12 DEF ReadWatch, Promise!vars
<1>13. ASSUME FillOne PROVE [Promise!Next]_(Promise!vars)
  BY <1>13 DEF FillOne, Promise!vars
<1>14. ASSUME FillClosed PROVE [Promise!Next]_(Promise!vars)
  BY <1>14 DEF FillClosed, Promise!vars
<1>15. ASSUME StartBatch PROVE [Promise!Next]_(Promise!vars)
  BY <1>15 DEF StartBatch, Promise!vars
<1>16. ASSUME CollectOne PROVE [Promise!Next]_(Promise!vars)
  BY <1>16 DEF CollectOne, Promise!vars
<1>17. ASSUME CollectClosed PROVE [Promise!Next]_(Promise!vars)
  BY <1>17 DEF CollectClosed, Promise!vars
<1>18. ASSUME CollectDone PROVE [Promise!Next]_(Promise!vars)
  BY <1>18 DEF CollectDone, Promise!vars
<1>19. ASSUME AbortQueue PROVE [Promise!Next]_(Promise!vars)
  <2>1. Promise!Stop
    BY <1>19 DEF AbortQueue, Promise!Stop, Promise!Unresolved
  <2> QED
    BY <2>1 DEF Promise!Next
<1>20. ASSUME ConcatBatches PROVE [Promise!Next]_(Promise!vars)
  BY <1>20 DEF ConcatBatches, Promise!vars
<1>21. ASSUME WakeUp PROVE [Promise!Next]_(Promise!vars)
  BY <1>21 DEF WakeUp, Promise!vars
<1>22. ASSUME NEW e \in BatchErrors, BatchFails(e) PROVE [Promise!Next]_(Promise!vars)
  <2>1. Lost(e) \in SUBSET Queued /\ batcher \in {"call", "objects", "results"}
    BY <1>22, BatchFailsResolves DEF Resolves
  <2>2. outcome' = [o \in Oids |-> IF o \in Lost(e) THEN "failed" ELSE outcome[o]]
    BY <1>22 DEF BatchFails, At
  <2>3. UNCHANGED <<incomingClosed, collector, caller>>
    BY <1>22 DEF BatchFails
  <2>4. CASE Lost(e) # {}
    BY <1>a, <2>1, <2>2, <2>3, <2>4
  <2>5. CASE Lost(e) = {}
    <3>1. outcome' = outcome
      BY <2>2, <2>5 DEF TypeOK
    <3>2. collector # "exited"
      BY <2>1
    <3> QED
      BY <2>3, <3>1, <3>2 DEF Promise!vars
  <2> QED
    BY <2>4, <2>5
<1>23. ASSUME NEW v \in [At("todo") -> Verdicts], BatchAborts(v) PROVE [Promise!Next]_(Promise!vars)
  BY <1>23 DEF BatchAborts, Promise!vars
<1>24. ASSUME NEW v \in [At("todo") -> Verdicts], NEW n \in ServerNames, BatchAnswers(v, n) PROVE [Promise!Next]_(Promise!vars)
  BY <1>24 DEF BatchAnswers, Promise!vars
<1>25. ASSUME NEW o \in Oids, RejectObject(o) PROVE [Promise!Next]_(Promise!vars)
  <2>1. PICK f \in {"completed", "present", "failed"} : Settle(o, f)
    BY <1>25 DEF RejectObject
  <2>2. stage[o] \notin {"idle", "todo", "retry"}
    BY <1>25 DEF RejectObject
  <2>3. {o} \in SUBSET Queued /\ batcher \in {"call", "objects", "results"}
    BY <2>1, <2>2, SettleResolves DEF Resolves
  <2>4. outcome' = [p \in Oids |-> IF p \in {o} THEN f ELSE outcome[p]]
    BY <2>1 DEF Settle, TypeOK
  <2>5. UNCHANGED <<incomingClosed, collector, caller>>
    BY <1>25 DEF RejectObject
  <2> QED
    BY <1>a, <2>3, <2>4, <2>5
<1>26. ASSUME NEW o \in Oids, RetryExpired(o) PROVE [Promise!Next]_(Promise!vars)
  BY <1>26 DEF RetryExpired, Promise!vars
<1>27. ASSUME NEW o \in Oids, SkipObject(o) PROVE [Promise!Next]_(Promise!vars)
  <2>1. PICK f \in {"completed", "present", "failed"} : Settle(o, f)
    BY <1>27 DEF SkipObject
  <2>2. stage[o] \notin {"idle", "todo", "retry"}
    BY <1>27 DEF SkipObject
  <2>3. {o} \in SUBSET Queued /\ batcher \in {"call", "objects", "results"}
    BY <2>1, <2>2, SettleResolves DEF Resolves
  <2>4. outcome' = [p \in Oids |-> IF p \in {o} THEN f ELSE outcome[p]]
    BY <2>1 DEF Settle, TypeOK
  <2>5. UNCHANGED <<incomingClosed, collector, caller>>
    BY <1>27 DEF SkipObject
  <2> QED
    BY <1>a, <2>3, <2>4, <2>5
<1>28. ASSUME NEW o \in Oids, AcceptObject(o) PROVE [Promise!Next]_(Promise!vars)
  BY <1>28 DEF AcceptObject, Promise!vars
<1>29. ASSUME BeginFails PROVE [Promise!Next]_(Promise!vars)
  <2>1. At("accepted") \in SUBSET Queued /\ batcher \in {"call", "objects", "results"}
    BY <1>29, BeginFailsResolves DEF Resolves
  <2>2. outcome' = [o \in Oids |-> IF o \in At("accepted") THEN "failed" ELSE outcome[o]]
    BY <1>29 DEF BeginFails, At
  <2>3. UNCHANGED <<incomingClosed, collector, caller>>
    BY <1>29 DEF BeginFails
  <2>4. CASE At("accepted") # {}
    BY <1>a, <2>1, <2>2, <2>3, <2>4
  <2>5. CASE At("accepted") = {}
    <3>1. outcome' = outcome
      BY <2>2, <2>5 DEF TypeOK
    <3>2. collector # "exited"
      BY <2>1
    <3> QED
      BY <2>3, <3>1, <3>2 DEF Promise!vars
  <2> QED
    BY <2>4, <2>5
<1>30. ASSUME NEW absent \in SUBSET Oids, AddToAdapter(absent) PROVE [Promise!Next]_(Promise!vars)
  BY <1>30 DEF AddToAdapter, Promise!vars
<1>31. ASSUME NEW o \in Oids, TakeRetry(o) PROVE [Promise!Next]_(Promise!vars)
  BY <1>31 DEF TakeRetry, Promise!vars
<1>32. ASSUME BatchDone PROVE [Promise!Next]_(Promise!vars)
  BY <1>32 DEF BatchDone, Promise!vars
<1>33. ASSUME ReportBatchError PROVE [Promise!Next]_(Promise!vars)
  BY <1>33 DEF ReportBatchError, Promise!vars
<1>34. ASSUME NEW o \in Oids, NEW r \in ErrorKinds, ResultRetry(o, r) PROVE [Promise!Next]_(Promise!vars)
  BY <1>34 DEF ResultRetry, Promise!vars
<1>35. ASSUME NEW o \in Oids, NEW r \in ErrorKinds, ResultError(o, r) PROVE [Promise!Next]_(Promise!vars)
  <2>1. PICK f \in {"completed", "present", "failed"} : Settle(o, f)
    BY <1>35 DEF ResultError
  <2>2. stage[o] \notin {"idle", "todo", "retry"}
    BY <1>35 DEF ResultError, ResultArrives
  <2>3. {o} \in SUBSET Queued /\ batcher \in {"call", "objects", "results"}
    BY <2>1, <2>2, SettleResolves DEF Resolves
  <2>4. outcome' = [p \in Oids |-> IF p \in {o} THEN f ELSE outcome[p]]
    BY <2>1 DEF Settle, TypeOK
  <2>5. UNCHANGED <<incomingClosed, collector, caller>>
    BY <1>35 DEF ResultError
  <2> QED
    BY <1>a, <2>3, <2>4, <2>5
<1>36. ASSUME NEW o \in Oids, ResultUnprocessable(o) PROVE [Promise!Next]_(Promise!vars)
  <2>1. PICK f \in {"completed", "present", "failed"} : Settle(o, f)
    BY <1>36 DEF ResultUnprocessable
  <2>2. stage[o] \notin {"idle", "todo", "retry"}
    BY <1>36 DEF ResultUnprocessable, ResultArrives
  <2>3. {o} \in SUBSET Queued /\ batcher \in {"call", "objects", "results"}
    BY <2>1, <2>2, SettleResolves DEF Resolves
  <2>4. outcome' = [p \in Oids |-> IF p \in {o} THEN f ELSE outcome[p]]
    BY <2>1 DEF Settle, TypeOK
  <2>5. UNCHANGED <<incomingClosed, collector, caller>>
    BY <1>36 DEF ResultUnprocessable
  <2> QED
    BY <1>a, <2>3, <2>4, <2>5
<1>37. ASSUME NEW o \in Oids, ResultOk(o) PROVE [Promise!Next]_(Promise!vars)
  BY <1>37 DEF ResultOk, Promise!vars
<1>38. ASSUME NEW o \in Oids, FinishResult(o) PROVE [Promise!Next]_(Promise!vars)
  <2>1. PICK f \in {"completed", "present", "failed"} : Settle(o, f)
    BY <1>38 DEF FinishResult
  <2>2. stage[o] \notin {"idle", "todo", "retry"}
    BY <1>38 DEF FinishResult
  <2>3. {o} \in SUBSET Queued /\ batcher \in {"call", "objects", "results"}
    BY <2>1, <2>2, SettleResolves DEF Resolves
  <2>4. outcome' = [p \in Oids |-> IF p \in {o} THEN f ELSE outcome[p]]
    BY <2>1 DEF Settle, TypeOK
  <2>5. UNCHANGED <<incomingClosed, collector, caller>>
    BY <1>38 DEF FinishResult
  <2> QED
    BY <1>a, <2>3, <2>4, <2>5
<1>39. ASSUME NEW w \in Watchers, NEW t \in Tuples, AnnounceResult(w, t) PROVE [Promise!Next]_(Promise!vars)
  BY <1>39 DEF AnnounceResult, Promise!vars
<1>40. ASSUME NEW o \in Oids, BackoffElapses(o) PROVE [Promise!Next]_(Promise!vars)
  BY <1>40 DEF BackoffElapses, Promise!vars
<1>41. ASSUME NEW o \in Oids, RetryAfterElapses(o) PROVE [Promise!Next]_(Promise!vars)
  BY <1>41 DEF RetryAfterElapses, Promise!vars
<1>42. CASE UNCHANGED vars
  BY <1>42 DEF vars, Promise!vars
<1> QED
  BY <1>1, <1>2, <1>3, <1>4, <1>5, <1>6, <1>7, <1>8, <1>9, <1>10, <1>11,
     <1>12, <1>13, <1>14, <1>15, <1>16, <1>17, <1>18, <1>19, <1>20, <1>21, <1>22,
     <1>23, <1>24, <1>25, <1>26, <1>27, <1>28, <1>29, <1>30, <1>31, <1>32, <1>33,
     <1>34, <1>35, <1>36, <1>37, <1>38, <1>39, <1>40, <1>41, <1>42
     DEF Next, Add, Wait, CollectBatches, EnqueueAndCollectRetries,
         HandleTransferResult, Clock, Terminated, vars

\* The transfer queue implements TransferPromise.
THEOREM Refinement == Spec => KeepsPromise
<1>1. Init => Promise!Init
  BY DEF Init, Promise!Init
<1> QED
  BY <1>1, PromiseStep, Reachable, PTL DEF Spec, KeepsPromise, Promise!Spec

\* The part of NoSendOnClosed that a single step has to satisfy.
OpenForSends ==
  /\ errorc' # errorc /\ errorc' # "none" => ~ChannelsClosed
  /\ notified' # notified => ~ChannelsClosed

\* No step sends on a channel that Wait has closed.
LEMMA SendStep == IInv /\ WaitPhases /\ [Next]_vars => OpenForSends
<1> SUFFICES ASSUME IInv, WaitPhases, [Next]_vars PROVE OpenForSends
  OBVIOUS
<1> USE DEF OpenForSends, ChannelsClosed
<1>a. batcher # "idle" => ~ChannelsClosed
  BY DEF IInv, Phases, WaitPhases
<1>1. ASSUME NEW w \in Watchers, Watch(w) PROVE OpenForSends
  BY <1>1 DEF Watch
<1>2. CASE AddError
  BY <1>2 DEF AddError, SendError
<1>3. ASSUME NEW t \in Tuples, AddNew(t) PROVE OpenForSends
  BY <1>3 DEF AddNew
<1>4. ASSUME NEW t \in Tuples, AddDuplicate(t) PROVE OpenForSends
  BY <1>4 DEF AddDuplicate
<1>5. CASE SendIncoming
  BY <1>5 DEF SendIncoming
<1>6. ASSUME NEW w \in Watchers, AnnounceDuplicate(w) PROVE OpenForSends
  BY <1>6 DEF AnnounceDuplicate
<1>7. CASE CallWait
  BY <1>7 DEF CallWait
<1>8. CASE JoinTransfers
  BY <1>8 DEF JoinTransfers
<1>9. CASE JoinCollector
  BY <1>9 DEF JoinCollector
<1>10. CASE WaitReturn
  BY <1>10 DEF WaitReturn
<1>11. CASE CollectError
  BY <1>11 DEF CollectError
<1>12. ASSUME NEW w \in Watchers, ReadWatch(w) PROVE OpenForSends
  BY <1>12 DEF ReadWatch
<1>13. CASE FillOne
  BY <1>13 DEF FillOne
<1>14. CASE FillClosed
  BY <1>14 DEF FillClosed
<1>15. CASE StartBatch
  BY <1>15 DEF StartBatch
<1>16. CASE CollectOne
  BY <1>16 DEF CollectOne
<1>17. CASE CollectClosed
  BY <1>17 DEF CollectClosed
<1>18. CASE CollectDone
  BY <1>18 DEF CollectDone
<1>19. CASE AbortQueue
  BY <1>19 DEF AbortQueue
<1>20. CASE ConcatBatches
  BY <1>20 DEF ConcatBatches
<1>21. CASE WakeUp
  BY <1>21 DEF WakeUp
<1>22. ASSUME NEW e \in BatchErrors, BatchFails(e) PROVE OpenForSends
  BY <1>22 DEF BatchFails
<1>23. ASSUME NEW v \in [At("todo") -> Verdicts], BatchAborts(v) PROVE OpenForSends
  BY <1>23 DEF BatchAborts
<1>24. ASSUME NEW v \in [At("todo") -> Verdicts], NEW n \in ServerNames, BatchAnswers(v, n) PROVE OpenForSends
  BY <1>24 DEF BatchAnswers
<1>25. ASSUME NEW o \in Oids, RejectObject(o) PROVE OpenForSends
  BY <1>25, <1>a DEF RejectObject
<1>26. ASSUME NEW o \in Oids, RetryExpired(o) PROVE OpenForSends
  BY <1>26 DEF RetryExpired
<1>27. ASSUME NEW o \in Oids, SkipObject(o) PROVE OpenForSends
  BY <1>27 DEF SkipObject
<1>28. ASSUME NEW o \in Oids, AcceptObject(o) PROVE OpenForSends
  BY <1>28 DEF AcceptObject
<1>29. CASE BeginFails
  BY <1>29, <1>a DEF BeginFails
<1>30. ASSUME NEW absent \in SUBSET Oids, AddToAdapter(absent) PROVE OpenForSends
  BY <1>30 DEF AddToAdapter
<1>31. ASSUME NEW o \in Oids, TakeRetry(o) PROVE OpenForSends
  BY <1>31 DEF TakeRetry
<1>32. CASE BatchDone
  BY <1>32 DEF BatchDone
<1>33. CASE ReportBatchError
  BY <1>33, <1>a DEF ReportBatchError
<1>34. ASSUME NEW o \in Oids, NEW r \in ErrorKinds, ResultRetry(o, r) PROVE OpenForSends
  BY <1>34 DEF ResultRetry, ResultArrives
<1>35. ASSUME NEW o \in Oids, NEW r \in ErrorKinds, ResultError(o, r) PROVE OpenForSends
  BY <1>35, <1>a DEF ResultError, ResultArrives
<1>36. ASSUME NEW o \in Oids, ResultUnprocessable(o) PROVE OpenForSends
  BY <1>36 DEF ResultUnprocessable, ResultArrives
<1>37. ASSUME NEW o \in Oids, ResultOk(o) PROVE OpenForSends
  BY <1>37 DEF ResultOk, ResultArrives
<1>38. ASSUME NEW o \in Oids, FinishResult(o) PROVE OpenForSends
  BY <1>38 DEF FinishResult
<1>39. ASSUME NEW w \in Watchers, NEW t \in Tuples, AnnounceResult(w, t) PROVE OpenForSends
  <2>1. batcher # "idle"
    BY <1>39 DEF AnnounceResult, WaitPhases, IInv, Phases, StagesMatch
  <2> QED
    BY <1>39, <1>a, <2>1 DEF AnnounceResult
<1>40. ASSUME NEW o \in Oids, BackoffElapses(o) PROVE OpenForSends
  BY <1>40 DEF BackoffElapses
<1>41. ASSUME NEW o \in Oids, RetryAfterElapses(o) PROVE OpenForSends
  BY <1>41 DEF RetryAfterElapses
<1>42. CASE UNCHANGED vars
  BY <1>42 DEF vars
<1> QED
  BY <1>1, <1>2, <1>3, <1>4, <1>5, <1>6, <1>7, <1>8, <1>9, <1>10, <1>11,
     <1>12, <1>13, <1>14, <1>15, <1>16, <1>17, <1>18, <1>19, <1>20, <1>21, <1>22,
     <1>23, <1>24, <1>25, <1>26, <1>27, <1>28, <1>29, <1>30, <1>31, <1>32, <1>33,
     <1>34, <1>35, <1>36, <1>37, <1>38, <1>39, <1>40, <1>41, <1>42
     DEF Next, Add, Wait, CollectBatches, EnqueueAndCollectRetries,
         HandleTransferResult, Clock, Terminated, vars

\* No goroutine sends on errorc or a Watch channel after Wait has closed it.
THEOREM SendsOnOpenChannels == Spec => NoSendOnClosed
<1>1. IInv /\ WaitPhases /\ [Next]_vars
        => [ /\ errorc' # errorc /\ errorc' # "none" => ~ChannelsClosed
             /\ notified' # notified => ~ChannelsClosed ]_vars
  BY SendStep DEF OpenForSends
<1> QED
  BY <1>1, Reachable, PTL DEF Spec, NoSendOnClosed

-----------------------------------------------------------------------------
(* No object is lost silently *)

\* The errors that Errors() has or is about to have.
Reported == (errors \cup {errorc}) \ {"none"}

\* Every failure is accounted for: by an error that is reported, by the error of the
\* batch that the batch goroutine is about to report, or by unsupportedContentType.
Accounted ==
  /\ \A o \in Oids : outcome[o] = "failed" =>
       \/ batcher = "report" \/ unsupportedContentType = TRUE
       \/ Reported \cap {o, "batch", "adapter"} # {}
  /\ \A o \in Oids : outcome[o] = "abandoned" => "batch" \in Reported
  /\ batchErr = "fatal" => batcher = "report" \/ "batch" \in Reported
  /\ caller = "returned" => errorc = "none"

\* The only steps that touch the errors.
LEMMA ErrorSteps ==
  ASSUME [Next]_vars
  PROVE  \/ UNCHANGED errorVars
         \/ \E e : SendError(e)
         \/ CollectError
         \/ \E o \in Oids : ResultUnprocessable(o)
<1>1. CASE \E w \in Watchers : Watch(w) \/ ReadWatch(w)
  BY <1>1 DEF Watch, ReadWatch
<1>2. CASE Add
  BY <1>2 DEF Add, AddError, AddNew, AddDuplicate, SendIncoming, AnnounceDuplicate
<1>3. CASE Wait
  BY <1>3 DEF Wait, CallWait, JoinTransfers, JoinCollector, WaitReturn
<1>4. CASE CollectBatches
  BY <1>4 DEF CollectBatches, FillOne, FillClosed, StartBatch, CollectOne, CollectClosed,
     CollectDone, AbortQueue, ConcatBatches, WakeUp
<1>5. CASE EnqueueAndCollectRetries
  BY <1>5 DEF EnqueueAndCollectRetries, BatchFails, BatchAborts, BatchAnswers, RejectObject,
     RetryExpired, SkipObject, AcceptObject, BeginFails, AddToAdapter, TakeRetry, BatchDone,
     ReportBatchError
<1>6. CASE HandleTransferResult
  BY <1>6 DEF HandleTransferResult, ResultRetry, ResultError, ResultOk, FinishResult,
     AnnounceResult
<1>7. CASE Clock
  BY <1>7 DEF Clock, BackoffElapses, RetryAfterElapses
<1>8. CASE UNCHANGED vars
  BY <1>8 DEF vars
<1> QED
  BY <1>1, <1>2, <1>3, <1>4, <1>5, <1>6, <1>7, <1>8 DEF Next, Terminated

\* An error that was reported stays reported: the collector of the errors takes an error
\* from errorc before the next one is sent.
LEMMA ReportedGrows ==
  ASSUME TypeOK, [Next]_vars
  PROVE  /\ Reported \subseteq Reported'
         /\ unsupportedContentType = TRUE => unsupportedContentType' = TRUE
<1>1. CASE UNCHANGED errorVars
  BY <1>1 DEF Reported
<1>2. ASSUME NEW e, SendError(e)
      PROVE  Reported \subseteq Reported' /\ unsupportedContentType' = unsupportedContentType
  BY <1>2 DEF SendError, Reported
<1>3. CASE CollectError
  BY <1>3 DEF CollectError, Reported
<1>4. ASSUME NEW o \in Oids, ResultUnprocessable(o)
      PROVE  Reported \subseteq Reported' /\ unsupportedContentType' = TRUE
  BY <1>4 DEF ResultUnprocessable, Reported
<1> QED
  BY <1>1, <1>2, <1>3, <1>4, ErrorSteps

\* Wait returns only once the collector of the errors has taken the last one.
LEMMA ReturnStep ==
  ASSUME [Next]_vars, caller # "returned", caller' = "returned"
  PROVE  errorc' = "none" /\ UNCHANGED <<outcome, batcher, batchErr>>
<1>1. CASE \E w \in Watchers : Watch(w) \/ ReadWatch(w)
  BY <1>1 DEF Watch, ReadWatch
<1>2. CASE Add
  BY <1>2 DEF Add, AddError, AddNew, AddDuplicate, SendIncoming, AnnounceDuplicate
<1>3. CASE Wait
  BY <1>3 DEF Wait, CallWait, JoinTransfers, JoinCollector, WaitReturn
<1>4. CASE CollectBatches
  BY <1>4 DEF CollectBatches, FillOne, FillClosed, StartBatch, CollectOne, CollectClosed,
     CollectDone, AbortQueue, ConcatBatches, WakeUp
<1>5. CASE EnqueueAndCollectRetries
  BY <1>5 DEF EnqueueAndCollectRetries, BatchFails, BatchAborts, BatchAnswers, RejectObject,
     RetryExpired, SkipObject, AcceptObject, BeginFails, AddToAdapter, TakeRetry, BatchDone,
     ReportBatchError
<1>6. CASE HandleTransferResult
  BY <1>6 DEF HandleTransferResult, ResultRetry, ResultError, ResultUnprocessable, ResultOk,
     FinishResult, AnnounceResult
<1>7. CASE Clock
  BY <1>7 DEF Clock, BackoffElapses, RetryAfterElapses
<1>8. CASE CollectError \/ UNCHANGED vars
  BY <1>8 DEF CollectError, vars
<1> QED
  BY <1>1, <1>2, <1>3, <1>4, <1>5, <1>6, <1>7, <1>8 DEF Next, Terminated

\* Accounted is kept by every step.
LEMMA AccountedStep == IInv /\ WaitPhases /\ Accounted /\ [Next]_vars => Accounted'
<1> SUFFICES ASSUME IInv, WaitPhases, Accounted, [Next]_vars PROVE Accounted'
  OBVIOUS
<1>a. TypeOK /\ Phases /\ HeldAreQueued /\ TypeOK'
  BY TypeStep DEF IInv
<1>b. /\ Reported \subseteq Reported'
      /\ unsupportedContentType = TRUE => unsupportedContentType' = TRUE
  BY <1>a, ReportedGrows
<1>c. caller' = "returned" => errorc' = "none"
  <2>1. CASE caller = "returned"
    BY <2>1, SendStep DEF OpenForSends, ChannelsClosed, Accounted
  <2> QED
    BY <2>1, ReturnStep
<1>d. ASSUME batcher # "report" \/ batcher' = "report", NEW os \in SUBSET Oids,
             \A o \in Oids \ os : outcome'[o] \in {"failed", "abandoned"} => outcome'[o] = outcome[o],
             \A o \in os : outcome'[o] # "abandoned",
             \/ os = {} \/ batcher' = "report" \/ unsupportedContentType' = TRUE
             \/ \A o \in os : Reported' \cap {o, "batch", "adapter"} # {},
             batchErr' = "fatal" => batchErr = "fatal" \/ batcher' = "report"
      PROVE  Accounted'
  BY <1>b, <1>c, <1>d DEF Accounted
<1>e. ASSUME UNCHANGED <<outcome, batchErr>>, batcher' = batcher \/ batcher # "report"
      PROVE  Accounted'
  BY <1>b, <1>c, <1>e DEF Accounted
<1>1. CASE \E w \in Watchers : Watch(w) \/ ReadWatch(w)
  BY <1>1, <1>e DEF Watch, ReadWatch
<1>2. CASE AddError \/ SendIncoming \/ Wait
  BY <1>2, <1>e DEF AddError, SendIncoming, Wait, CallWait, JoinTransfers, JoinCollector, WaitReturn
<1>3. CASE \E w \in Watchers : AnnounceDuplicate(w)
  BY <1>3, <1>e DEF AnnounceDuplicate
<1>4. CASE \E t \in Tuples : AddDuplicate(t)
  BY <1>4, <1>e DEF AddDuplicate
<1>5. ASSUME NEW t \in Tuples, AddNew(t) PROVE Accounted'
  <2>1. /\ \A o \in Oids : outcome'[o] \in {"failed", "abandoned"} => outcome'[o] = outcome[o]
        /\ UNCHANGED <<batcher, batchErr>>
    BY <1>5, <1>a DEF AddNew, TypeOK
  <2> QED
    BY <1>b, <1>c, <2>1 DEF Accounted
<1>6. CASE FillOne \/ FillClosed \/ CollectOne \/ CollectClosed \/ CollectDone \/ WakeUp
  BY <1>6, <1>e DEF FillOne, FillClosed, CollectOne, CollectClosed, CollectDone, WakeUp
<1>7. CASE StartBatch
  <2>1. batcher = "idle" /\ batchErr' = "none" /\ outcome' = outcome
    BY <1>7, <1>a DEF StartBatch, Phases
  <2> QED
    BY <1>b, <1>c, <2>1 DEF Accounted
<1>8. CASE AbortQueue
  <2>1. "batch" \in Reported' /\ batcher # "report"
    BY <1>8, <1>a, <1>b DEF AbortQueue, Phases, Accounted
  <2>2. \A o \in Oids : outcome'[o] = "failed" => outcome[o] = "failed"
    BY <1>8, <1>a DEF AbortQueue, TypeOK
  <2> QED
    BY <1>b, <1>c, <2>1, <2>2 DEF Accounted
<1>9. CASE ConcatBatches
  BY <1>9, <1>a, <1>e DEF ConcatBatches, Phases
<1>10. ASSUME NEW e \in BatchErrors, BatchFails(e) PROVE Accounted'
  <2>1. /\ \A o \in Oids \ Lost(e) : outcome'[o] = outcome[o]
        /\ \A o \in Lost(e) : outcome'[o] = "failed"
        /\ Lost(e) \in SUBSET Oids
        /\ Lost(e) = {} \/ batcher' = "report"
        /\ batcher = "call" /\ batchErr' # "fatal"
    BY <1>10, <1>a DEF BatchFails, Lost, At, TypeOK
  <2> QED
    BY <1>d, <2>1
<1>11. ASSUME NEW v \in [At("todo") -> Verdicts], BatchAborts(v) PROVE Accounted'
  BY <1>11, <1>b, <1>c DEF BatchAborts, Accounted
<1>12. ASSUME NEW v \in [At("todo") -> Verdicts], NEW n \in ServerNames, BatchAnswers(v, n)
       PROVE  Accounted'
  BY <1>12, <1>e DEF BatchAnswers
<1>13. ASSUME NEW o \in Oids, RejectObject(o) \/ \E r \in ErrorKinds : ResultError(o, r)
       PROVE  Accounted'
  <2>1. SendError(o) /\ Settle(o, "failed") /\ UNCHANGED <<batcher, batchErr>>
    BY <1>13 DEF RejectObject, ResultError
  <2>2. o \in Reported'
    BY <2>1, ConstantsAssumption DEF SendError, Reported
  <2>3. /\ \A p \in Oids \ {o} : outcome'[p] = outcome[p]
        /\ outcome'[o] = "failed"
    BY <2>1, <1>a DEF Settle, TypeOK
  <2> QED
    BY <1>b, <1>c, <2>1, <2>2, <2>3 DEF Accounted
<1>14. ASSUME NEW o \in Oids, RetryExpired(o) \/ AcceptObject(o) \/ TakeRetry(o)
                              \/ \E r \in ErrorKinds : ResultRetry(o, r)
       PROVE  Accounted'
  BY <1>14, <1>e DEF RetryExpired, AcceptObject, TakeRetry, ResultRetry
<1>15. ASSUME NEW o \in Oids, SkipObject(o) \/ FinishResult(o) PROVE Accounted'
  <2>1. \E f \in {"present", "completed"} : Settle(o, f)
    BY <1>15 DEF SkipObject, FinishResult
  <2>2. \A p \in Oids : outcome'[p] \in {"failed", "abandoned"} => outcome'[p] = outcome[p]
    BY <2>1, <1>a DEF Settle, TypeOK
  <2> QED
    BY <1>15, <1>b, <1>c, <2>2 DEF SkipObject, FinishResult, Accounted
<1>16. CASE BeginFails
  <2>1. "adapter" \in Reported'
    BY <1>16 DEF BeginFails, SendError, Reported
  <2>2. \A p \in Oids \ At("accepted") : outcome'[p] = outcome[p]
    BY <1>16, <1>a DEF BeginFails, At, TypeOK
  <2>3. \A p \in At("accepted") : outcome'[p] = "failed"
    BY <1>16, <1>a DEF BeginFails, At, TypeOK
  <2>4. batcher = "objects" /\ batchErr' = batchErr
    BY <1>16 DEF BeginFails
  <2> QED
    BY <1>b, <1>c, <2>1, <2>2, <2>3, <2>4 DEF Accounted
<1>17. CASE BatchDone \/ \E absent \in SUBSET Oids : AddToAdapter(absent)
  BY <1>17, <1>e DEF BatchDone, AddToAdapter
<1>18. CASE ReportBatchError
  <2>1. "batch" \in Reported'
    BY <1>18 DEF ReportBatchError, SendError, Reported
  <2>2. UNCHANGED <<outcome, batchErr>>
    BY <1>18 DEF ReportBatchError
  <2> QED
    BY <1>b, <1>c, <2>1, <2>2 DEF Accounted
<1>19. ASSUME NEW o \in Oids, ResultUnprocessable(o) PROVE Accounted'
  <2>1. unsupportedContentType' = TRUE /\ UNCHANGED <<batcher, batchErr>>
    BY <1>19 DEF ResultUnprocessable
  <2>2. \A p \in Oids : outcome'[p] = "abandoned" => outcome[p] = "abandoned"
    BY <1>19, <1>a DEF ResultUnprocessable, Settle, TypeOK
  <2> QED
    BY <1>b, <1>c, <2>1, <2>2 DEF Accounted
<1>20. CASE \E o \in Oids : ResultOk(o)
  BY <1>20, <1>e DEF ResultOk
<1>21. CASE CollectError \/ \E w \in Watchers, t \in Tuples : AnnounceResult(w, t)
  BY <1>21, <1>e DEF CollectError, AnnounceResult
<1>22. CASE Clock \/ UNCHANGED vars
  BY <1>22, <1>e DEF Clock, BackoffElapses, RetryAfterElapses, vars
<1> QED
  BY <1>1, <1>2, <1>3, <1>4, <1>5, <1>6, <1>7, <1>8, <1>9, <1>10, <1>11, <1>12, <1>13, <1>14,
     <1>15, <1>16, <1>17, <1>18, <1>19, <1>20, <1>21, <1>22
     DEF Next, Add, CollectBatches, EnqueueAndCollectRetries, HandleTransferResult, Terminated

\* When Wait has returned, an object that was added and not transferred has an error.
THEOREM NothingLostSilently == Spec => []NoSilentLoss
<1>1. Init => Accounted
  BY DEF Init, Accounted
<1>2. Spec => []Accounted
  BY <1>1, AccountedStep, Reachable, PTL DEF Spec
<1>3. IInv /\ WaitPhases /\ Accounted => NoSilentLoss
  <2> SUFFICES ASSUME IInv, WaitPhases, Accounted, caller = "returned", NEW o \in Oids,
                      outcome[o] \notin {"new", "completed", "present"}
               PROVE  \/ /\ outcome[o] = "failed"
                         /\ errors \cap {o, "batch", "adapter"} # {} \/ unsupportedContentType
                      \/ outcome[o] = "abandoned" /\ "batch" \in errors
    BY DEF NoSilentLoss
  <2>1. batcher # "report" /\ Reported \subseteq errors
    BY DEF IInv, Phases, WaitPhases, Accounted, Reported
  <2>2. outcome[o] \in {"failed", "abandoned"}
    BY DEF IInv, TypeOK, Outcomes, WaitPhases, Queued
  <2> QED
    BY <2>1, <2>2 DEF Accounted
<1> QED
  BY <1>2, <1>3, Reachable, PTL

-----------------------------------------------------------------------------
(* Every tuple of a completed object is announced exactly once *)

\* Tuple t of a completed object was sent to watcher w, or is one of the pairs that the
\* result goroutine still has to send, or is the duplicate that Add is announcing; and it
\* is only one of these.
AnnouncedOnce(w, t) ==
  LET finished == <<w, t>> \in notifying
      repeated == t \in duplicate /\ w \in toAnnounce IN
  /\ notified[w][t] \in {0, 1}
  /\ (t \in transfers[OidOf[t]] /\ OidOf[t] \in completed)
       <=> (notified[w][t] = 1 \/ finished \/ repeated)
  /\ ~(finished /\ repeated)
  /\ notified[w][t] = 1 => ~finished /\ ~repeated

\* A completed object is resolved, or its completion is being announced.
CompletedSettled ==
  \A o \in completed : outcome[o] = "completed" \/ stage[o] = "notifying"

WatchInv ==
  /\ \A o \in Oids : \A t \in transfers[o] : OidOf[t] = o
  /\ caller # "announce" => duplicate = {} /\ toAnnounce = {}
  /\ \A t, u \in duplicate : t = u
  /\ toAnnounce \subseteq watchers /\ notifying \subseteq watchers \X Tuples
  /\ \A w \in Watchers, t \in Tuples : w \notin watchers => notified[w][t] = 0
  /\ \A w \in watchers, t \in Tuples : AnnouncedOnce(w, t)

\* The completion of an object is announced once: a step that resolves an object takes
\* one that is unresolved.
LEMMA CompletedStep == IInv /\ WaitPhases /\ CompletedSettled /\ [Next]_vars => CompletedSettled'
<1> SUFFICES ASSUME IInv, WaitPhases, CompletedSettled, [Next]_vars PROVE CompletedSettled'
  OBVIOUS
<1>a. TypeOK /\ Phases /\ HeldAreQueued
  BY DEF IInv
<1>b. ASSUME completed' = completed,
             \A o \in Oids : outcome[o] = "completed" => outcome'[o] = "completed",
             \A o \in Oids : stage[o] = "notifying" => stage'[o] = "notifying" \/ outcome'[o] = "completed"
      PROVE  CompletedSettled'
  BY <1>a, <1>b DEF CompletedSettled, TypeOK
<1>c. ASSUME UNCHANGED <<completed, outcome, stage>> PROVE CompletedSettled'
  BY <1>c DEF CompletedSettled
<1>d. ASSUME NEW o \in Oids, NEW f \in {"completed", "present", "failed"}, Settle(o, f),
             stage[o] \notin {"idle", "todo", "retry"}, completed' = completed,
             stage[o] = "notifying" => f = "completed"
      PROVE  CompletedSettled'
  <2>1. outcome[o] = "queued"
    BY <1>a, <1>d, SettleResolves DEF Resolves, Queued
  <2> QED
    BY <1>a, <1>b, <1>d, <2>1 DEF Settle, TypeOK
<1>1. CASE \E w \in Watchers : Watch(w) \/ ReadWatch(w)
  BY <1>1, <1>c DEF Watch, ReadWatch
<1>2. CASE AddError \/ SendIncoming \/ Wait
  BY <1>2, <1>c DEF AddError, SendIncoming, Wait, CallWait, JoinTransfers, JoinCollector, WaitReturn
<1>3. CASE \E w \in Watchers : AnnounceDuplicate(w)
  BY <1>3, <1>c DEF AnnounceDuplicate
<1>4. CASE \E t \in Tuples : AddDuplicate(t)
  BY <1>4, <1>c DEF AddDuplicate
<1>5. ASSUME NEW t \in Tuples, AddNew(t) PROVE CompletedSettled'
  <2>1. outcome[OidOf[t]] = "new"
    BY <1>5, <1>a, ConstantsAssumption DEF AddNew, HeldAreQueued
  <2> QED
    BY <1>5, <1>a, <1>b, <2>1 DEF AddNew, TypeOK
<1>6. CASE FillOne \/ FillClosed \/ CollectOne \/ CollectClosed \/ CollectDone \/ WakeUp
  BY <1>6, <1>c DEF FillOne, FillClosed, CollectOne, CollectClosed, CollectDone, WakeUp
<1>7. CASE StartBatch
  BY <1>7, <1>a, <1>b DEF StartBatch, MoveAll, Phases, StagesMatch, TypeOK
<1>8. CASE AbortQueue
  BY <1>8, <1>a, <1>b DEF AbortQueue, TypeOK
<1>9. CASE ConcatBatches
  BY <1>9, <1>a, <1>b DEF ConcatBatches, MoveAll, At, TypeOK
<1>10. ASSUME NEW e \in BatchErrors, BatchFails(e) PROVE CompletedSettled'
  <2>1. Lost(e) \subseteq Queued
    BY <1>10, <1>a, BatchFailsResolves DEF Resolves
  <2> QED
    BY <1>10, <1>a, <1>b, <2>1 DEF BatchFails, Kept, Lost, At, Queued, TypeOK
<1>11. ASSUME NEW v \in [At("todo") -> Verdicts], BatchAborts(v) PROVE CompletedSettled'
  BY <1>11, <1>a, <1>b DEF BatchAborts, MoveAll, At, TypeOK
<1>12. ASSUME NEW v \in [At("todo") -> Verdicts], NEW n \in ServerNames, BatchAnswers(v, n)
       PROVE  CompletedSettled'
  BY <1>12, <1>a, <1>b DEF BatchAnswers, At, TypeOK
<1>13. ASSUME NEW o \in Oids, RejectObject(o) \/ SkipObject(o) PROVE CompletedSettled'
  BY <1>13, <1>d DEF RejectObject, SkipObject
<1>14. ASSUME NEW o \in Oids, RetryExpired(o) \/ AcceptObject(o) \/ TakeRetry(o)
       PROVE  CompletedSettled'
  BY <1>14, <1>a, <1>b DEF RetryExpired, AcceptObject, TakeRetry, TypeOK
<1>15. CASE BeginFails
  <2>1. At("accepted") \subseteq Queued
    BY <1>15, <1>a, BeginFailsResolves DEF Resolves
  <2> QED
    BY <1>15, <1>a, <1>b, <2>1 DEF BeginFails, MoveAll, At, Queued, TypeOK
<1>16. ASSUME NEW absent \in SUBSET Oids, AddToAdapter(absent) PROVE CompletedSettled'
  BY <1>16, <1>a, <1>b DEF AddToAdapter, TypeOK
<1>17. CASE BatchDone \/ ReportBatchError
  BY <1>17, <1>c DEF BatchDone, ReportBatchError
<1>18. ASSUME NEW o \in Oids, NEW r \in ErrorKinds, ResultRetry(o, r) PROVE CompletedSettled'
  BY <1>18, <1>a, <1>b DEF ResultRetry, ResultArrives, TypeOK
<1>19. ASSUME NEW o \in Oids, NEW r \in ErrorKinds, ResultError(o, r) PROVE CompletedSettled'
  BY <1>19, <1>d DEF ResultError, ResultArrives
<1>20. ASSUME NEW o \in Oids, ResultUnprocessable(o) PROVE CompletedSettled'
  BY <1>20, <1>d DEF ResultUnprocessable, ResultArrives
<1>21. ASSUME NEW o \in Oids, ResultOk(o) PROVE CompletedSettled'
  BY <1>21, <1>a DEF ResultOk, CompletedSettled, TypeOK
<1>22. ASSUME NEW o \in Oids, FinishResult(o) PROVE CompletedSettled'
  BY <1>22, <1>d DEF FinishResult
<1>23. CASE CollectError \/ \E w \in Watchers, t \in Tuples : AnnounceResult(w, t)
  BY <1>23, <1>c DEF CollectError, AnnounceResult
<1>24. CASE Clock \/ UNCHANGED vars
  BY <1>24, <1>c DEF Clock, BackoffElapses, RetryAfterElapses, vars
<1> QED
  BY <1>1, <1>2, <1>3, <1>4, <1>5, <1>6, <1>7, <1>8, <1>9, <1>10, <1>11, <1>12, <1>13, <1>14,
     <1>15, <1>16, <1>17, <1>18, <1>19, <1>20, <1>21, <1>22, <1>23, <1>24
     DEF Next, Add, CollectBatches, EnqueueAndCollectRetries, HandleTransferResult, Terminated

\* What a send on a Watch channel counts.
LEMMA SendWatchCounts ==
  ASSUME TypeOK, NEW w \in Watchers, NEW t \in Tuples, SendWatch(w, t)
  PROVE  /\ notified'[w][t] = notified[w][t] + 1
         /\ \A x \in Watchers, u \in Tuples : <<x, u>> # <<w, t>> => notified'[x][u] = notified[x][u]
<1>1. notified \in [Watchers -> [Tuples -> Nat]]
  BY DEF TypeOK
<1> QED
  BY <1>1 DEF SendWatch

\* WatchInv is kept by every step.
LEMMA WatchStep ==
  IInv /\ WaitPhases /\ CompletedSettled /\ WatchInv /\ [Next]_vars => WatchInv'
<1> SUFFICES ASSUME IInv, WaitPhases, CompletedSettled, WatchInv, [Next]_vars PROVE WatchInv'
  OBVIOUS
<1>a. TypeOK /\ Phases /\ HeldAreQueued
  BY DEF IInv
<1>b. ASSUME UNCHANGED <<duplicate, toAnnounce, transfers, completed, watchers, notified, notifying>>,
             caller = "announce" <=> caller' = "announce"
      PROVE  WatchInv'
  BY <1>b DEF WatchInv, AnnouncedOnce
<1>1. ASSUME NEW w \in Watchers, Watch(w) PROVE WatchInv'
  <2>1. \A o \in Oids : transfers[o] = {}
    BY <1>1 DEF Watch
  <2>2. \A t \in Tuples : AnnouncedOnce(w, t)'
    <3> SUFFICES ASSUME NEW t \in Tuples PROVE AnnouncedOnce(w, t)'
      OBVIOUS
    <3>1. notified'[w][t] = 0 /\ duplicate' = {} /\ notifying' = notifying /\ transfers' = transfers
      BY <1>1 DEF Watch, WatchInv
    <3>2. notifying = {}
      <4>1. \A o \in Oids : stage[o] # "notifying"
        BY <1>a, <2>1 DEF HeldAreQueued, Held, InBatch
      <4> QED
        BY <4>1 DEF WaitPhases
    <3> QED
      BY <2>1, <3>1, <3>2, ConstantsAssumption DEF AnnouncedOnce
  <2>3. UNCHANGED <<caller, duplicate, toAnnounce, transfers, completed, notified, notifying>>
    BY <1>1 DEF Watch
  <2>4. watchers' = watchers \cup {w}
    BY <1>1 DEF Watch
  <2>5. \A x \in watchers, t \in Tuples : AnnouncedOnce(x, t)'
    BY <2>3 DEF WatchInv, AnnouncedOnce
  <2>6. notifying' \subseteq watchers' \X Tuples /\ toAnnounce' \subseteq watchers'
    BY <2>3, <2>4 DEF WatchInv
  <2> QED
    BY <2>2, <2>3, <2>4, <2>5, <2>6 DEF WatchInv
<1>2. CASE AddError \/ SendIncoming \/ Wait
  BY <1>2, <1>b DEF AddError, SendIncoming, Wait, CallWait, JoinTransfers, JoinCollector, WaitReturn
<1>3. ASSUME NEW t \in Tuples, AddNew(t) PROVE WatchInv'
  <2> DEFINE o == OidOf[t]
  <2>1. o \in Oids /\ outcome[o] = "new" /\ transfers[o] = {}
    BY <1>3, <1>a, ConstantsAssumption DEF AddNew, HeldAreQueued
  <2>2. o \notin completed
    BY <1>a, <2>1 DEF CompletedSettled, HeldAreQueued, Held, InBatch
  <2>3. UNCHANGED <<duplicate, toAnnounce, completed, watchers, notified, notifying>>
    BY <1>3 DEF AddNew
  <2>4. transfers' = [transfers EXCEPT ![o] = {t}] /\ caller = "ready" /\ caller' = "send"
    BY <1>3 DEF AddNew, Fresh
  <2>5. \A p \in Oids : transfers'[p] = IF p = o THEN {t} ELSE transfers[p]
    BY <1>a, <2>4 DEF TypeOK
  <2>6. \A x \in watchers, u \in Tuples : AnnouncedOnce(x, u)'
    <3> SUFFICES ASSUME NEW x \in watchers, NEW u \in Tuples PROVE AnnouncedOnce(x, u)'
      OBVIOUS
    <3>1. OidOf[u] \in Oids /\ AnnouncedOnce(x, u)
      BY ConstantsAssumption DEF WatchInv
    <3>2. OidOf[u] \in completed => transfers'[OidOf[u]] = transfers[OidOf[u]]
      BY <2>2, <2>5, <3>1
    <3> QED
      BY <2>3, <3>1, <3>2 DEF AnnouncedOnce
  <2>7. \A p \in Oids : \A u \in transfers'[p] : OidOf[u] = p
    BY <2>5 DEF WatchInv
  <2> QED
    BY <2>3, <2>4, <2>6, <2>7 DEF WatchInv
<1>4. ASSUME NEW t \in Tuples, AddDuplicate(t) PROVE WatchInv'
  <2> DEFINE o == OidOf[t]
  <2>1. /\ o \in Oids /\ t \notin transfers[o] /\ caller = "ready"
        /\ duplicate = {} /\ toAnnounce = {}
    BY <1>4, ConstantsAssumption DEF AddDuplicate, Fresh, WatchInv
  <2>2. UNCHANGED <<completed, watchers, notified, notifying>>
    BY <1>4 DEF AddDuplicate
  <2>3. transfers' = [transfers EXCEPT ![o] = @ \cup {t}]
    BY <1>4 DEF AddDuplicate
  <2>4. \A p \in Oids : transfers'[p] = IF p = o THEN transfers[p] \cup {t} ELSE transfers[p]
    BY <1>a, <2>3 DEF TypeOK
  <2>5. \/ /\ o \in completed /\ watchers # {}
           /\ caller' = "announce" /\ duplicate' = {t} /\ toAnnounce' = watchers
        \/ ~(o \in completed /\ watchers # {}) /\ UNCHANGED <<caller, duplicate, toAnnounce>>
    BY <1>4 DEF AddDuplicate
  <2>6. \A x \in watchers, u \in Tuples : AnnouncedOnce(x, u)'
    <3> SUFFICES ASSUME NEW x \in watchers, NEW u \in Tuples PROVE AnnouncedOnce(x, u)'
      OBVIOUS
    <3>1. OidOf[u] \in Oids /\ AnnouncedOnce(x, u)
      BY ConstantsAssumption DEF WatchInv
    <3>2. CASE u = t
      BY <2>1, <2>2, <2>4, <2>5, <3>1, <3>2 DEF AnnouncedOnce
    <3>3. CASE u # t
      <4>1. u \in transfers'[OidOf[u]] <=> u \in transfers[OidOf[u]]
        BY <2>4, <3>1, <3>3
      <4>2. ~(u \in duplicate /\ x \in toAnnounce) /\ ~(u \in duplicate' /\ x \in toAnnounce')
        BY <2>1, <2>5, <3>3
      <4> QED
        BY <2>2, <3>1, <4>1, <4>2 DEF AnnouncedOnce
    <3> QED
      BY <3>2, <3>3
  <2>7. \A p \in Oids : \A u \in transfers'[p] : OidOf[u] = p
    <3>1. \A p \in Oids : \A u \in transfers[p] : OidOf[u] = p
      BY DEF WatchInv
    <3> QED
      BY <2>4, <3>1
  <2> QED
    BY <2>1, <2>2, <2>5, <2>6, <2>7 DEF WatchInv
<1>5. ASSUME NEW w \in Watchers, AnnounceDuplicate(w) PROVE WatchInv'
  <2>1. PICK t \in duplicate : SendWatch(w, t)
    BY <1>5 DEF AnnounceDuplicate
  <2>2. t \in Tuples /\ duplicate = {t} /\ w \in toAnnounce /\ w \in watchers
    BY <1>5, <1>a DEF AnnounceDuplicate, WatchInv, TypeOK
  <2>3. UNCHANGED <<transfers, completed, watchers, notifying>>
    BY <1>5, <2>1 DEF AnnounceDuplicate, SendWatch
  <2>4. /\ notified'[w][t] = notified[w][t] + 1
        /\ \A x \in Watchers, u \in Tuples : <<x, u>> # <<w, t>> => notified'[x][u] = notified[x][u]
    BY <1>a, <2>1, <2>2, SendWatchCounts
  <2>5. /\ toAnnounce' = toAnnounce \ {w}
        /\ \/ toAnnounce = {w} /\ caller' = "ready" /\ duplicate' = {}
           \/ toAnnounce # {w} /\ caller' = caller /\ duplicate' = duplicate
        /\ caller = "announce"
    BY <1>5 DEF AnnounceDuplicate
  <2>6. \A x \in watchers, u \in Tuples : AnnouncedOnce(x, u)'
    <3> SUFFICES ASSUME NEW x \in watchers, NEW u \in Tuples PROVE AnnouncedOnce(x, u)'
      OBVIOUS
    <3>1. AnnouncedOnce(x, u) /\ x \in Watchers
      BY <1>a DEF WatchInv, TypeOK
    <3>2. CASE x = w /\ u = t
      <4>1. notified[w][t] = 0 /\ <<w, t>> \notin notifying
        BY <2>2, <3>1, <3>2 DEF AnnouncedOnce
      <4>2. notified'[w][t] = 1 /\ ~(t \in duplicate' /\ w \in toAnnounce')
        BY <2>4, <2>5, <4>1
      <4>3. t \in transfers[OidOf[t]] /\ OidOf[t] \in completed
        BY <2>2, <3>1, <3>2 DEF AnnouncedOnce
      <4> QED
        BY <2>3, <3>2, <4>1, <4>2, <4>3 DEF AnnouncedOnce
    <3>3. CASE ~(x = w /\ u = t)
      <4>1. notified'[x][u] = notified[x][u]
        BY <2>4, <3>1, <3>3
      <4>2. (u \in duplicate' /\ x \in toAnnounce') <=> (u \in duplicate /\ x \in toAnnounce)
        BY <2>2, <2>5, <3>3
      <4> QED
        BY <2>3, <3>1, <4>1, <4>2 DEF AnnouncedOnce
    <3> QED
      BY <3>2, <3>3
  <2>7. \A x \in Watchers, u \in Tuples : x \notin watchers => notified'[x][u] = 0
    BY <2>2, <2>4 DEF WatchInv
  <2> QED
    BY <2>2, <2>3, <2>5, <2>6, <2>7 DEF WatchInv
<1>6. ASSUME NEW o \in Oids, ResultOk(o) PROVE WatchInv'
  <2>0. transfers[o] \subseteq Tuples
    BY <1>a DEF TypeOK
  <2>1. o \notin completed /\ notifying = {}
    <3>1. /\ batcher = "results" /\ stage[o] \in {"absent", "inflight"}
          /\ \A p \in Oids : stage[p] # "notifying"
      BY <1>6 DEF ResultOk, ResultArrives, TrMutexHeld, At
    <3>2. outcome[o] = "queued"
      BY <1>a, <3>1 DEF HeldAreQueued, Held, InBatch, Queued, Phases
    <3> QED
      BY <3>1, <3>2 DEF CompletedSettled, WaitPhases
  <2>2. /\ UNCHANGED <<caller, duplicate, toAnnounce, transfers, watchers, notified>>
        /\ completed' = completed \cup {o} /\ notifying' = watchers \X transfers[o]
    BY <1>6 DEF ResultOk
  <2>3. \A x \in watchers, u \in Tuples : AnnouncedOnce(x, u)'
    <3> SUFFICES ASSUME NEW x \in watchers, NEW u \in Tuples PROVE AnnouncedOnce(x, u)'
      OBVIOUS
    <3>1. AnnouncedOnce(x, u) /\ OidOf[u] \in Oids
      BY ConstantsAssumption DEF WatchInv
    <3>2. <<x, u>> \in notifying' <=> u \in transfers[o]
      BY <2>2
    <3>3. CASE OidOf[u] = o
      BY <2>1, <2>2, <3>1, <3>2, <3>3 DEF AnnouncedOnce
    <3>4. CASE OidOf[u] # o
      <4>1. u \notin transfers[o]
        BY <3>4 DEF WatchInv
      <4> QED
        BY <2>1, <2>2, <3>1, <3>2, <3>4, <4>1 DEF AnnouncedOnce
    <3> QED
      BY <3>3, <3>4
  <2> QED
    BY <2>0, <2>2, <2>3 DEF WatchInv
<1>7. ASSUME NEW w \in Watchers, NEW t \in Tuples, AnnounceResult(w, t) PROVE WatchInv'
  <2>1. /\ <<w, t>> \in notifying /\ notifying' = notifying \ {<<w, t>>}
        /\ UNCHANGED <<caller, duplicate, toAnnounce, transfers, completed, watchers>>
    BY <1>7 DEF AnnounceResult, SendWatch
  <2>2. /\ notified'[w][t] = notified[w][t] + 1
        /\ \A x \in Watchers, u \in Tuples : <<x, u>> # <<w, t>> => notified'[x][u] = notified[x][u]
    BY <1>7, <1>a, SendWatchCounts DEF AnnounceResult
  <2>3. w \in watchers
    BY <2>1 DEF WatchInv
  <2>4. \A x \in watchers, u \in Tuples : AnnouncedOnce(x, u)'
    <3> SUFFICES ASSUME NEW x \in watchers, NEW u \in Tuples PROVE AnnouncedOnce(x, u)'
      OBVIOUS
    <3>1. AnnouncedOnce(x, u) /\ x \in Watchers
      BY <1>a DEF WatchInv, TypeOK
    <3>2. CASE x = w /\ u = t
      <4>1. notified[w][t] = 0 /\ ~(t \in duplicate /\ w \in toAnnounce)
        BY <2>1, <3>1, <3>2 DEF AnnouncedOnce
      <4>2. notified'[w][t] = 1 /\ <<w, t>> \notin notifying'
        BY <2>1, <2>2, <4>1
      <4>3. t \in transfers[OidOf[t]] /\ OidOf[t] \in completed
        BY <2>1, <3>1, <3>2 DEF AnnouncedOnce
      <4> QED
        BY <2>1, <3>2, <4>1, <4>2, <4>3 DEF AnnouncedOnce
    <3>3. CASE ~(x = w /\ u = t)
      <4>1. notified'[x][u] = notified[x][u] /\ (<<x, u>> \in notifying' <=> <<x, u>> \in notifying)
        BY <2>1, <2>2, <3>1, <3>3
      <4> QED
        BY <2>1, <3>1, <4>1 DEF AnnouncedOnce
    <3> QED
      BY <3>2, <3>3
  <2>5. \A x \in Watchers, u \in Tuples : x \notin watchers => notified'[x][u] = 0
    BY <2>2, <2>3 DEF WatchInv
  <2> QED
    BY <2>1, <2>4, <2>5 DEF WatchInv
<1>8. CASE CollectError \/ \E w \in Watchers : ReadWatch(w)
  BY <1>8, <1>b DEF CollectError, ReadWatch
<1>9. CASE CollectBatches
  BY <1>9, <1>b DEF CollectBatches, FillOne, FillClosed, StartBatch, CollectOne, CollectClosed,
     CollectDone, AbortQueue, ConcatBatches, WakeUp
<1>10. CASE EnqueueAndCollectRetries
  BY <1>10, <1>b DEF EnqueueAndCollectRetries, BatchFails, BatchAborts, BatchAnswers, RejectObject,
     RetryExpired, SkipObject, AcceptObject, BeginFails, AddToAdapter, TakeRetry, BatchDone,
     ReportBatchError
<1>11. CASE \/ \E o \in Oids, r \in ErrorKinds : ResultRetry(o, r) \/ ResultError(o, r)
            \/ \E o \in Oids : ResultUnprocessable(o) \/ FinishResult(o)
  BY <1>11, <1>b DEF ResultRetry, ResultError, ResultUnprocessable, FinishResult
<1>12. CASE Clock \/ UNCHANGED vars
  BY <1>12, <1>b DEF Clock, BackoffElapses, RetryAfterElapses, vars
<1> QED
  BY <1>1, <1>2, <1>3, <1>4, <1>5, <1>6, <1>7, <1>8, <1>9, <1>10, <1>11, <1>12
     DEF Next, Add, HandleTransferResult, Terminated

\* Every tuple of a completed object is announced to every watcher exactly once.
THEOREM AnnouncementsExact == Spec => []AnnouncedExactlyOnce
<1>1. Init => CompletedSettled /\ WatchInv
  <2> SUFFICES ASSUME Init PROVE WatchInv
    BY DEF Init, CompletedSettled
  <2>1. \A w \in Watchers, t \in Tuples : notified[w][t] = 0
    BY DEF Init
  <2> QED
    BY <2>1 DEF Init, WatchInv
<1>2. Spec => [](CompletedSettled /\ WatchInv)
  BY <1>1, CompletedStep, WatchStep, Reachable, PTL DEF Spec
<1>3. IInv /\ WaitPhases /\ CompletedSettled /\ WatchInv => AnnouncedExactlyOnce
  <2> SUFFICES ASSUME IInv, WaitPhases, WatchInv, NEW w \in watchers, NEW t \in Tuples
               PROVE  /\ notified[w][t] <= 1
                      /\ notified[w][t] = 1 => OidOf[t] \in completed
                      /\ caller = "returned" /\ t \in transfers[OidOf[t]] /\ OidOf[t] \in completed
                           => notified[w][t] = 1
    BY DEF AnnouncedExactlyOnce
  <2>1. AnnouncedOnce(w, t)
    BY DEF WatchInv
  <2>2. caller = "returned" => notifying = {} /\ duplicate = {}
    BY DEF IInv, Phases, StagesMatch, WaitPhases, WatchInv
  <2>3. notified[w][t] <= 1
    BY <2>1 DEF AnnouncedOnce
  <2> QED
    BY <2>1, <2>2, <2>3 DEF AnnouncedOnce
<1> QED
  BY <1>2, <1>3, Reachable, PTL
=============================================================================
