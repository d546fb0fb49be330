------------------------- MODULE FilterProcessProofs -------------------------
(***************************************************************************)
(* The delayed smudge for any number of paths, objects and checkouts: the  *)
(* list that ends a checkout leaves no path delayed, and no file is        *)
(* written empty.                                                          *)
(*                                                                         *)
(* Both rest on what the filter may announce.  A path that waits anywhere  *)
(* between the queue and Git (toSend, watch, pending, ts) is still delayed *)
(* and waits in one place only, so that the list that names it finds its   *)
(* pointer and no later list names it again.  A path whose object is not   *)
(* complete is delayed too, so that the completion announces no path that  *)
(* Git has had.  And a list without names is only given when the channel   *)
(* is closed and all of these places are empty.                            *)
(***************************************************************************)
EXTENDS FilterProcess, SequenceTheorems, TLAPS

GitTypes ==
  /\ git \in {"start", "idle", "checkout", "finish", "closed", "dead"}
  /\ todo \subseteq Paths /\ delayed \subseteq Paths /\ listed \subseteq Paths
  /\ result \in [Paths -> {"none", "plain", "error", "valid", "pointer", "empty"}]
  /\ supportsDelay \in BOOLEAN
  /\ cmd \in {"none", "add", "announce", "poll", "block", "reply"}
  /\ path \subseteq Paths /\ ts \in Seq(Paths) /\ ptrs \subseteq Paths

QueueTypes ==
  /\ q \in {"none", "open", "wait", "closed"}
  /\ added \subseteq Paths /\ unresolved \subseteq Oids /\ complete \subseteq Oids
  /\ handling \subseteq Oids /\ toSend \subseteq Paths
  /\ buffer \in {"none", "start", "run", "drain", "done"}
  /\ watch \in Seq(Paths) /\ pending \in Seq(Paths)

TypeOK == GitTypes /\ QueueTypes

\* No element of a sequence occurs twice.
Distinct(s) == \A i, j \in 1..Len(s) : s[i] = s[j] => i = j

\* Where the filter's loop can be in each phase of Git.
Loop ==
  /\ cmd \in {"add", "announce"} => git = "checkout" /\ q = "open" /\ supportsDelay
  /\ cmd \in {"poll", "block", "reply"} => git = "finish" /\ listed = {}
  /\ cmd \notin {"add", "announce"} => path = {}
  /\ cmd \notin {"poll", "block", "reply"} => ts = <<>>
  /\ q \in {"wait", "closed"} => git \notin {"start", "idle", "checkout"}
  /\ git \in {"start", "idle", "checkout"} => listed = {}
  /\ git \in {"start", "idle"} => delayed = {}

\* The pointers that are kept are those of the delayed and the listed paths; a path that
\* Git has not been answered yet is not delayed, and the loop is about one path at a time.
Pointers ==
  /\ ptrs = delayed \cup listed /\ delayed \cap listed = {}
  /\ (todo \cup path) \cap delayed = {} /\ todo \cap path = {}
  /\ \A p, r \in path : p = r

\* The objects of the queue: a complete one is unresolved only while it is announced.
Objects ==
  /\ complete \cap unresolved \subseteq handling /\ handling \subseteq unresolved
  /\ \A o \in complete \cup unresolved : \E p \in added : OidOf[p] = o
  /\ toSend # {} => handling # {}
  /\ q \in {"none", "closed"} => unresolved = {}

\* A closed channel has nothing left in it.
Closed ==
  /\ watchClosed => q \in {"none", "closed"}
  /\ buffer = "done" => watchClosed /\ watch = <<>> /\ pending = <<>>
  /\ cmd = "reply" /\ ts = <<>> => buffer = "done"

\* What waits to be listed is delayed, its object is complete, and it waits in one place.
Waiting == toSend \cup ToSet(watch) \cup ToSet(pending) \cup ToSet(ts)

Announced ==
  /\ Waiting \subseteq delayed
  /\ \A p \in Waiting : OidOf[p] \in complete
  /\ toSend \cap (ToSet(watch) \cup ToSet(pending) \cup ToSet(ts)) = {}
  /\ ToSet(watch) \cap (ToSet(pending) \cup ToSet(ts)) = {}
  /\ ToSet(pending) \cap ToSet(ts) = {}
  /\ Distinct(watch) /\ Distinct(pending)
  /\ cmd = "announce" => \A p \in path : OidOf[p] \in complete
  /\ q # "none" => \A p \in added : OidOf[p] \in complete \/ p \in delayed

IInv == TypeOK /\ Loop /\ Pointers /\ Objects /\ Closed /\ Announced /\ NoEmptyFile

-----------------------------------------------------------------------------
(* Sequences *)

\* The elements of a sequence, by position.
LEMMA ToSetByIndex == ASSUME NEW S, NEW s \in Seq(S)
                      PROVE  ToSet(s) = {s[i] : i \in 1..Len(s)} /\ ToSet(s) \subseteq S
<1>1. DOMAIN s = 1..Len(s)
  OBVIOUS
<1>2. \A i \in 1..Len(s) : s[i] \in S
  OBVIOUS
<1> QED
  BY <1>1, <1>2 DEF ToSet

\* The empty sequence is the one without elements.
LEMMA ToSetEmpty == /\ ToSet(<<>>) = {} /\ Distinct(<<>>)
                    /\ \A S : \A s \in Seq(S) : ToSet(s) = {} => s = <<>>
<1>1. ToSet(<<>>) = {} /\ Distinct(<<>>)
  BY DEF ToSet, Distinct
<1>2. ASSUME NEW S, NEW s \in Seq(S), s # <<>> PROVE s[1] \in ToSet(s)
  <2>1. 1 \in 1..Len(s)
    BY <1>2
  <2> QED
    BY <2>1, ToSetByIndex
<1> QED
  BY <1>1, <1>2

\* A send on a channel adds one path to it.
LEMMA ToSetAppend ==
  ASSUME NEW S, NEW s \in Seq(S), NEW e \in S
  PROVE  /\ Append(s, e) \in Seq(S) /\ ToSet(Append(s, e)) = ToSet(s) \cup {e}
         /\ Distinct(s) /\ e \notin ToSet(s) => Distinct(Append(s, e))
<1>1. Append(s, e) \in Seq(S)
  OBVIOUS
<1>2. ToSet(Append(s, e)) = {Append(s, e)[i] : i \in 1..Len(Append(s, e))}
  BY <1>1, ToSetByIndex
<1>3. ToSet(s) = {s[i] : i \in 1..Len(s)}
  BY ToSetByIndex
<1> QED
  BY <1>1, <1>2, <1>3 DEF Distinct

\* A receive takes one path out of it.
LEMMA ToSetTail ==
  ASSUME NEW S, NEW s \in Seq(S), s # <<>>, Distinct(s)
  PROVE  /\ Head(s) \in S /\ Tail(s) \in Seq(S)
         /\ ToSet(s) = ToSet(Tail(s)) \cup {Head(s)} /\ Head(s) \notin ToSet(Tail(s))
         /\ Distinct(Tail(s))
<1>1. Len(s) \in Nat \ {0} /\ Tail(s) \in Seq(S) /\ Len(Tail(s)) = Len(s) - 1
  OBVIOUS
<1>2. Head(s) = s[1] /\ \A i \in 1..Len(Tail(s)) : Tail(s)[i] = s[i + 1]
  OBVIOUS
<1>3. \A i \in 1..Len(s) : i # 1 => i - 1 \in 1..Len(Tail(s)) /\ Tail(s)[i - 1] = s[i]
  BY <1>1, <1>2
<1>4. ToSet(s) = {s[i] : i \in 1..Len(s)} /\ ToSet(Tail(s)) = {Tail(s)[i] : i \in 1..Len(Tail(s))}
  BY <1>1, ToSetByIndex
<1>5. ToSet(s) \subseteq ToSet(Tail(s)) \cup {Head(s)}
  <2> SUFFICES ASSUME NEW i \in 1..Len(s), i # 1 PROVE s[i] \in ToSet(Tail(s))
    BY <1>2, <1>4
  <2> QED
    BY <1>3, <1>4
<1>6. ToSet(Tail(s)) \cup {Head(s)} \subseteq ToSet(s)
  BY <1>1, <1>2, <1>4
<1>7. Head(s) \notin ToSet(Tail(s)) /\ Distinct(Tail(s))
  BY <1>1, <1>2, <1>4 DEF Distinct
<1> QED
  BY <1>1, <1>2, <1>5, <1>6, <1>7

\* NewQueue where there is none: an empty one.
MakesQueue ==
  /\ q = "none" /\ supportsDelay /\ q' = "open"
  /\ added' = {} /\ unresolved' = {} /\ complete' = {} /\ handling' = {} /\ toSend' = {}
  /\ buffer' = "start" /\ watch' = <<>> /\ watchClosed' = FALSE /\ pending' = <<>>

\* NewQueue leaves the queue as it is, or makes one.
LEMMA NewQueueCases ==
  NewQueue => \/ (q # "none" \/ ~supportsDelay) /\ UNCHANGED <<queueVars, bufferVars>>
              \/ MakesQueue
BY DEF NewQueue, MakesQueue

\* The types of a new queue.
LEMMA NewQueueTypes == QueueTypes /\ NewQueue => QueueTypes'
<1> SUFFICES ASSUME QueueTypes, NewQueue PROVE QueueTypes'
  OBVIOUS
<1>1. CASE UNCHANGED <<queueVars, bufferVars>>
  BY <1>1 DEF QueueTypes, queueVars, bufferVars
<1>2. CASE MakesQueue
  BY <1>2 DEF QueueTypes, MakesQueue
<1> QED
  BY <1>1, <1>2, NewQueueCases

\* status=delayed: the pointer is kept and Git is to ask again.
LEMMA DelayedAnswer ==
  ASSUME NEW p, AnswerDelayed(p)
  PROVE  /\ ptrs' = ptrs \cup {p} /\ delayed' = delayed \cup {p}
         /\ cmd' = "none" /\ path' = {}
BY DEF AnswerDelayed, DelayedStatusFromErr, StatusFromErr

-----------------------------------------------------------------------------
(* The invariant, part by part *)

\* Types.
LEMMA TypeOKStep == TypeOK /\ [Next]_vars => TypeOK'
<1> SUFFICES ASSUME TypeOK, [Next]_vars PROVE TypeOK'
  OBVIOUS
<1>1. ASSUME NEW v \in BOOLEAN, NEW offer \in Offers, Handshake(v, offer) PROVE TypeOK'
  BY <1>1 DEF Handshake, queueVars, bufferVars, TypeOK, GitTypes, QueueTypes
<1>2. ASSUME ClosePipe PROVE TypeOK'
  BY <1>2 DEF ClosePipe, filterVars, queueVars, bufferVars, TypeOK, GitTypes, QueueTypes
<1>3. ASSUME NEW ps \in SUBSET Paths, StartCheckout(ps) PROVE TypeOK'
  BY <1>3 DEF StartCheckout, filterVars, queueVars, bufferVars, TypeOK, GitTypes, QueueTypes
<1>4. ASSUME NEW o \in Oids, Clean(o) PROVE TypeOK'
  BY <1>4 DEF Clean, filterVars, queueVars, bufferVars, TypeOK, GitTypes, QueueTypes
<1>5. ASSUME NEW o \in Oids, Download(o) PROVE TypeOK'
  BY <1>5 DEF Download, gitVars, filterVars, queueVars, bufferVars, TypeOK, GitTypes, QueueTypes
<1>6. ASSUME NEW o \in Oids, Complete(o) PROVE TypeOK'
  BY <1>6 DEF Complete, gitVars, filterVars, bufferVars, TypeOK, GitTypes, QueueTypes
<1>7. ASSUME NEW o \in Oids, Fail(o) PROVE TypeOK'
  BY <1>7 DEF Fail, gitVars, filterVars, bufferVars, TypeOK, GitTypes, QueueTypes
<1>8. ASSUME FinishCheckout PROVE TypeOK'
  BY <1>8 DEF FinishCheckout, filterVars, queueVars, bufferVars, TypeOK, GitTypes, QueueTypes
<1>9. ASSUME CallList PROVE TypeOK'
  BY <1>9 DEF CallList, CloseOnce, gitVars, bufferVars, TypeOK, GitTypes, QueueTypes
<1>10. ASSUME NEW p \in Paths, SmudgeAtOnce(p) PROVE TypeOK'
  <2>1. QueueTypes'
    BY <1>10, NewQueueTypes DEF SmudgeAtOnce, TypeOK
  <2>2. GitTypes'
    BY <1>10 DEF SmudgeAtOnce, filterVars, TypeOK, GitTypes
  <2> QED
    BY <2>1, <2>2 DEF TypeOK
<1>11. ASSUME NEW p \in Paths, SmudgeLater(p) PROVE TypeOK'
  <2>1. QueueTypes'
    BY <1>11, NewQueueTypes DEF SmudgeLater, TypeOK
  <2>2. GitTypes'
    BY <1>11 DEF SmudgeLater, filterVars, TypeOK, GitTypes
  <2> QED
    BY <2>1, <2>2 DEF TypeOK
<1>12. ASSUME NEW p \in Paths, NEW d \in BOOLEAN, SmudgeNow(p, d) PROVE TypeOK'
  <2>1. QueueTypes'
    BY <1>12, NewQueueTypes DEF SmudgeNow, TypeOK
  <2>2. GitTypes'
    BY <1>12 DEF SmudgeNow, Forget, Cached, filterVars, TypeOK, GitTypes
  <2> QED
    BY <2>1, <2>2 DEF TypeOK
<1>13. ASSUME NEW p \in Paths, NEW d \in BOOLEAN, SmudgeDirect(p, d) PROVE TypeOK'
  <2>1. QueueTypes'
    BY <1>13, NewQueueTypes DEF SmudgeDirect, TypeOK
  <2>2. GitTypes'
    BY <1>13 DEF SmudgeDirect, filterVars, TypeOK, GitTypes
  <2> QED
    BY <2>1, <2>2 DEF TypeOK
<1>14. ASSUME NEW p \in Paths, AddNew(p) PROVE TypeOK'
  <2>1. OidOf[p] \in Oids
    BY FilterAssumption
  <2> QED
    BY <1>14, <2>1 DEF AddNew, AnswerDelayed, bufferVars, TypeOK, GitTypes, QueueTypes
<1>15. ASSUME NEW p \in Paths, AddDuplicate(p) PROVE TypeOK'
  BY <1>15 DEF AddDuplicate, AnswerDelayed, DelayedStatusFromErr, StatusFromErr, bufferVars, TypeOK, GitTypes, QueueTypes
<1>16. ASSUME NEW p \in Paths, Announce(p) PROVE TypeOK'
  BY <1>16 DEF Announce, AnswerDelayed, DelayedStatusFromErr, StatusFromErr, queueVars, TypeOK, GitTypes, QueueTypes
<1>17. ASSUME ReadOne PROVE TypeOK'
  BY <1>17 DEF ReadOne, gitVars, queueVars, TypeOK, GitTypes, QueueTypes
<1>18. ASSUME PollEmpty PROVE TypeOK'
  BY <1>18 DEF PollEmpty, gitVars, queueVars, bufferVars, TypeOK, GitTypes, QueueTypes
<1>19. ASSUME ReadClosed PROVE TypeOK'
  BY <1>19 DEF ReadClosed, gitVars, queueVars, bufferVars, TypeOK, GitTypes, QueueTypes
<1>20. ASSUME Reply PROVE TypeOK'
  <2>1. Names \subseteq Paths
    BY ToSetByIndex DEF Names, Pathnames, TypeOK, GitTypes
  <2>2. q' \in {"none", "open", "wait", "closed"} /\ <<>> \in Seq(Paths)
    BY <1>20 DEF Reply, DropQueue, TypeOK, QueueTypes
  <2>3. GitTypes'
    BY <1>20, <2>1, <2>2 DEF Reply, TypeOK, GitTypes
  <2>4. QueueTypes'
    BY <1>20, <2>2 DEF Reply, bufferVars, TypeOK, QueueTypes
  <2> QED
    BY <2>3, <2>4 DEF TypeOK
<1>21. ASSUME RegisterWatch PROVE TypeOK'
  BY <1>21 DEF RegisterWatch, gitVars, filterVars, TypeOK, GitTypes, QueueTypes
<1>22. ASSUME BufferRead PROVE TypeOK'
  BY <1>22 DEF BufferRead, gitVars, filterVars, queueVars, TypeOK, GitTypes, QueueTypes
<1>23. ASSUME BufferClosing PROVE TypeOK'
  BY <1>23 DEF BufferClosing, CloseAfterPending, gitVars, filterVars, queueVars, TypeOK, GitTypes, QueueTypes
<1>24. ASSUME Completed PROVE TypeOK'
  BY <1>24 DEF Completed, gitVars, filterVars, bufferVars, TypeOK, GitTypes, QueueTypes
<1>25. ASSUME CloseWatchers PROVE TypeOK'
  BY <1>25 DEF CloseWatchers, gitVars, filterVars, TypeOK, GitTypes, QueueTypes
<1>26. ASSUME NEW p \in Paths, SendWatch(p) PROVE TypeOK'
  BY <1>26 DEF SendWatch, gitVars, filterVars, TypeOK, GitTypes, QueueTypes
<1>27. ASSUME Stop PROVE TypeOK'
  BY <1>27 DEF Stop, gitVars, filterVars, bufferVars, TypeOK, GitTypes, QueueTypes
<1>28. ASSUME UNCHANGED vars PROVE TypeOK'
  BY <1>28 DEF vars, gitVars, filterVars, queueVars, bufferVars, TypeOK, GitTypes, QueueTypes
<1> QED
  BY <1>1, <1>2, <1>3, <1>4, <1>5, <1>6, <1>7, <1>8, <1>9, <1>10, <1>11, <1>12, <1>13, <1>14, <1>15,
     <1>16, <1>17, <1>18, <1>19, <1>20, <1>21, <1>22, <1>23, <1>24, <1>25, <1>26, <1>27, <1>28
     DEF Next, GitStep, FilterStep, BufferStep, QueueStep, Resolve

\* The loop, Git and the queue go through their phases together.
LEMMA LoopStep == TypeOK /\ Loop /\ Pointers /\ [Next]_vars => Loop'
<1> SUFFICES ASSUME TypeOK, Loop, Pointers, [Next]_vars PROVE Loop'
  OBVIOUS
<1>a. ASSUME UNCHANGED <<git, cmd, q, listed, path, delayed, supportsDelay, ts>> PROVE Loop'
  BY <1>a DEF Loop
<1>1. ASSUME NEW v \in BOOLEAN, NEW offer \in Offers, Handshake(v, offer) PROVE Loop'
  BY <1>1 DEF Handshake, queueVars, bufferVars, Loop
<1>2. ASSUME ClosePipe PROVE Loop'
  BY <1>2 DEF ClosePipe, filterVars, queueVars, bufferVars, Loop
<1>3. ASSUME NEW ps \in SUBSET Paths, StartCheckout(ps) PROVE Loop'
  BY <1>3 DEF StartCheckout, filterVars, queueVars, bufferVars, Loop
<1>4. ASSUME NEW o \in Oids, Clean(o) PROVE Loop'
  BY <1>4 DEF Clean, filterVars, queueVars, bufferVars, Loop
<1>5. ASSUME NEW o \in Oids, Download(o) PROVE Loop'
  BY <1>5, <1>a DEF Download, gitVars, filterVars, queueVars, bufferVars
<1>6. ASSUME NEW o \in Oids, Complete(o) PROVE Loop'
  BY <1>6, <1>a DEF Complete, gitVars, filterVars, bufferVars
<1>7. ASSUME NEW o \in Oids, Fail(o) PROVE Loop'
  BY <1>7, <1>a DEF Fail, gitVars, filterVars, bufferVars
<1>8. ASSUME FinishCheckout PROVE Loop'
  BY <1>8 DEF FinishCheckout, filterVars, queueVars, bufferVars, Loop
<1>9. ASSUME CallList PROVE Loop'
  BY <1>9 DEF CallList, CloseOnce, gitVars, bufferVars, Loop
<1>10. ASSUME NEW p \in Paths, SmudgeAtOnce(p) PROVE Loop'
  <2>1. CASE UNCHANGED <<queueVars, bufferVars>>
    BY <1>10, <2>1 DEF SmudgeAtOnce, filterVars, queueVars, bufferVars, Loop, TypeOK, GitTypes
  <2>2. CASE MakesQueue
    BY <1>10, <2>2 DEF SmudgeAtOnce, filterVars, MakesQueue, Loop, TypeOK, GitTypes
  <2> QED
    BY <1>10, <2>1, <2>2, NewQueueCases DEF SmudgeAtOnce
<1>11. ASSUME NEW p \in Paths, SmudgeLater(p) PROVE Loop'
  <2>1. q' \in {"none", "open", "wait", "closed"} /\ q' # "none" /\ (q' = q \/ q' = "open")
    <3>1. QueueTypes'
      BY <1>11, NewQueueTypes DEF SmudgeLater, TypeOK
    <3>2. (q' = q /\ q # "none") \/ q' = "open"
      BY <1>11, NewQueueCases DEF SmudgeLater, MakesQueue, queueVars
    <3> QED
      BY <3>1, <3>2 DEF QueueTypes
  <2> QED
    BY <1>11, <2>1 DEF SmudgeLater, Loop
<1>12. ASSUME NEW p \in Paths, NEW d \in BOOLEAN, SmudgeNow(p, d) PROVE Loop'
  <2>1. CASE UNCHANGED <<queueVars, bufferVars>>
    BY <1>12, <2>1 DEF SmudgeNow, filterVars, queueVars, bufferVars, Loop, TypeOK, GitTypes
  <2>2. CASE MakesQueue
    BY <1>12, <2>2 DEF SmudgeNow, filterVars, MakesQueue, Loop, TypeOK, GitTypes
  <2> QED
    BY <1>12, <2>1, <2>2, NewQueueCases DEF SmudgeNow
<1>13. ASSUME NEW p \in Paths, NEW d \in BOOLEAN, SmudgeDirect(p, d) PROVE Loop'
  <2>1. UNCHANGED <<queueVars, bufferVars>>
    BY <1>13, NewQueueCases DEF SmudgeDirect, MakesQueue
  <2> QED
    BY <1>13, <2>1 DEF SmudgeDirect, filterVars, queueVars, Loop
<1>14. ASSUME NEW p \in Paths, AddNew(p) PROVE Loop'
  <2>1. /\ ptrs' = ptrs \cup {p} /\ delayed' = delayed \cup {p} /\ cmd' = "none" /\ path' = {}
    BY <1>14, DelayedAnswer DEF AddNew
  <2> QED
    BY <1>14, <2>1 DEF AddNew, bufferVars, Loop
<1>15. ASSUME NEW p \in Paths, AddDuplicate(p) PROVE Loop'
  <2>1. CASE OidOf[p] \in complete /\ watching
    BY <1>15, <2>1 DEF AddDuplicate, bufferVars, Loop
  <2>2. CASE ~(OidOf[p] \in complete /\ watching)
    <3>1. /\ ptrs' = ptrs \cup {p} /\ delayed' = delayed \cup {p} /\ cmd' = "none" /\ path' = {}
      BY <1>15, <2>2, DelayedAnswer DEF AddDuplicate
    <3> QED
      BY <1>15, <3>1 DEF AddDuplicate, bufferVars, Loop
  <2> QED
    BY <2>1, <2>2
<1>16. ASSUME NEW p \in Paths, Announce(p) PROVE Loop'
  <2>1. /\ ptrs' = ptrs \cup {p} /\ delayed' = delayed \cup {p} /\ cmd' = "none" /\ path' = {}
    BY <1>16, DelayedAnswer DEF Announce
  <2> QED
    BY <1>16, <2>1 DEF Announce, queueVars, Loop
<1>17. ASSUME ReadOne PROVE Loop'
  BY <1>17 DEF ReadOne, gitVars, queueVars, Loop
<1>18. ASSUME PollEmpty PROVE Loop'
  BY <1>18 DEF PollEmpty, gitVars, queueVars, bufferVars, Loop
<1>19. ASSUME ReadClosed PROVE Loop'
  BY <1>19 DEF ReadClosed, gitVars, queueVars, bufferVars, Loop
<1>20. ASSUME Reply PROVE Loop'
  <2>1. CASE Names = {}
    <3>1. ts = <<>> /\ ptrs = {}
      BY <2>1, ToSetEmpty DEF Names, Pathnames, TypeOK, GitTypes
    <3> QED
      BY <1>20, <2>1, <3>1 DEF Reply, DropQueue, Loop, Pointers
  <2>2. CASE Names # {}
    BY <1>20, <2>2 DEF Reply, DropQueue, Loop
  <2> QED
    BY <2>1, <2>2
<1>21. ASSUME RegisterWatch PROVE Loop'
  BY <1>21, <1>a DEF RegisterWatch, gitVars, filterVars
<1>22. ASSUME BufferRead PROVE Loop'
  BY <1>22, <1>a DEF BufferRead, gitVars, filterVars, queueVars
<1>23. ASSUME BufferClosing PROVE Loop'
  BY <1>23, <1>a DEF BufferClosing, gitVars, filterVars, queueVars
<1>24. ASSUME Completed PROVE Loop'
  BY <1>24, <1>a DEF Completed, gitVars, filterVars, bufferVars
<1>25. ASSUME CloseWatchers PROVE Loop'
  BY <1>25 DEF CloseWatchers, gitVars, filterVars, Loop
<1>26. ASSUME NEW p \in Paths, SendWatch(p) PROVE Loop'
  BY <1>26, <1>a DEF SendWatch, gitVars, filterVars
<1>27. ASSUME Stop PROVE Loop'
  BY <1>27, <1>a DEF Stop, gitVars, filterVars, bufferVars
<1>28. ASSUME UNCHANGED vars PROVE Loop'
  BY <1>28, <1>a DEF vars, gitVars, filterVars, queueVars, bufferVars
<1> QED
  BY <1>1, <1>2, <1>3, <1>4, <1>5, <1>6, <1>7, <1>8, <1>9, <1>10, <1>11, <1>12, <1>13, <1>14, <1>15,
     <1>16, <1>17, <1>18, <1>19, <1>20, <1>21, <1>22, <1>23, <1>24, <1>25, <1>26, <1>27, <1>28
     DEF Next, GitStep, FilterStep, BufferStep, QueueStep, Resolve

\* The pointers are those of the delayed and listed paths.
LEMMA PointersStep == TypeOK /\ Loop /\ Pointers /\ Announced /\ [Next]_vars => Pointers'
<1> SUFFICES ASSUME TypeOK, Loop, Pointers, Announced, [Next]_vars PROVE Pointers'
  OBVIOUS
<1>a. ASSUME UNCHANGED <<ptrs, delayed, listed, todo, path>> PROVE Pointers'
  BY <1>a DEF Pointers
<1>1. ASSUME NEW v \in BOOLEAN, NEW offer \in Offers, Handshake(v, offer) PROVE Pointers'
  BY <1>1, <1>a DEF Handshake, queueVars, bufferVars
<1>2. ASSUME ClosePipe PROVE Pointers'
  BY <1>2, <1>a DEF ClosePipe, filterVars, queueVars, bufferVars
<1>3. ASSUME NEW ps \in SUBSET Paths, StartCheckout(ps) PROVE Pointers'
  BY <1>3 DEF StartCheckout, filterVars, Loop, Pointers
<1>4. ASSUME NEW o \in Oids, Clean(o) PROVE Pointers'
  BY <1>4, <1>a DEF Clean, filterVars, queueVars, bufferVars
<1>5. ASSUME NEW o \in Oids, Download(o) PROVE Pointers'
  BY <1>5, <1>a DEF Download, gitVars, filterVars, queueVars, bufferVars
<1>6. ASSUME NEW o \in Oids, Complete(o) PROVE Pointers'
  BY <1>6, <1>a DEF Complete, gitVars, filterVars, bufferVars
<1>7. ASSUME NEW o \in Oids, Fail(o) PROVE Pointers'
  BY <1>7, <1>a DEF Fail, gitVars, filterVars, bufferVars
<1>8. ASSUME FinishCheckout PROVE Pointers'
  BY <1>8, <1>a DEF FinishCheckout, filterVars, queueVars, bufferVars
<1>9. ASSUME CallList PROVE Pointers'
  BY <1>9, <1>a DEF CallList, gitVars, bufferVars
<1>10. ASSUME NEW p \in Paths, SmudgeAtOnce(p) PROVE Pointers'
  BY <1>10 DEF SmudgeAtOnce, NewQueue, filterVars, Pointers
<1>11. ASSUME NEW p \in Paths, SmudgeLater(p) PROVE Pointers'
  BY <1>11 DEF SmudgeLater, Pointers
<1>12. ASSUME NEW p \in Paths, NEW d \in BOOLEAN, SmudgeNow(p, d) PROVE Pointers'
  BY <1>12 DEF SmudgeNow, Forget, Cached, Pointers
<1>13. ASSUME NEW p \in Paths, NEW d \in BOOLEAN, SmudgeDirect(p, d) PROVE Pointers'
  BY <1>13 DEF SmudgeDirect, filterVars, Pointers
<1>14. ASSUME NEW p \in Paths, AddNew(p) PROVE Pointers'
  <2>1. /\ ptrs' = ptrs \cup {p} /\ delayed' = delayed \cup {p} /\ cmd' = "none" /\ path' = {}
    BY <1>14, DelayedAnswer DEF AddNew
  <2> QED
    BY <1>14, <2>1 DEF AddNew, bufferVars, Loop, Pointers
<1>15. ASSUME NEW p \in Paths, AddDuplicate(p) PROVE Pointers'
  <2>1. CASE OidOf[p] \in complete /\ watching
    BY <1>15, <2>1 DEF AddDuplicate, bufferVars, Loop, Pointers
  <2>2. CASE ~(OidOf[p] \in complete /\ watching)
    <3>1. /\ ptrs' = ptrs \cup {p} /\ delayed' = delayed \cup {p} /\ cmd' = "none" /\ path' = {}
      BY <1>15, <2>2, DelayedAnswer DEF AddDuplicate
    <3> QED
      BY <1>15, <3>1 DEF AddDuplicate, bufferVars, Loop, Pointers
  <2> QED
    BY <2>1, <2>2
<1>16. ASSUME NEW p \in Paths, Announce(p) PROVE Pointers'
  <2>1. /\ ptrs' = ptrs \cup {p} /\ delayed' = delayed \cup {p} /\ cmd' = "none" /\ path' = {}
    BY <1>16, DelayedAnswer DEF Announce
  <2> QED
    BY <1>16, <2>1 DEF Announce, queueVars, Loop, Pointers
<1>17. ASSUME ReadOne PROVE Pointers'
  BY <1>17, <1>a DEF ReadOne, gitVars, queueVars
<1>18. ASSUME PollEmpty PROVE Pointers'
  BY <1>18, <1>a DEF PollEmpty, gitVars, queueVars, bufferVars
<1>19. ASSUME ReadClosed PROVE Pointers'
  BY <1>19, <1>a DEF ReadClosed, gitVars, queueVars, bufferVars
<1>20. ASSUME Reply PROVE Pointers'
  <2>1. listed = {} /\ ptrs = delayed
    BY <1>20 DEF Reply, Loop, Pointers
  <2>2. Names \subseteq delayed
    BY <2>1 DEF Names, Pathnames, Announced, Waiting
  <2> QED
    BY <1>20, <2>1, <2>2 DEF Reply, Pointers
<1>21. ASSUME RegisterWatch PROVE Pointers'
  BY <1>21, <1>a DEF RegisterWatch, gitVars, filterVars
<1>22. ASSUME BufferRead PROVE Pointers'
  BY <1>22, <1>a DEF BufferRead, gitVars, filterVars, queueVars
<1>23. ASSUME BufferClosing PROVE Pointers'
  BY <1>23, <1>a DEF BufferClosing, gitVars, filterVars, queueVars
<1>24. ASSUME Completed PROVE Pointers'
  BY <1>24, <1>a DEF Completed, gitVars, filterVars, bufferVars
<1>25. ASSUME CloseWatchers PROVE Pointers'
  BY <1>25, <1>a DEF CloseWatchers, gitVars, filterVars
<1>26. ASSUME NEW p \in Paths, SendWatch(p) PROVE Pointers'
  BY <1>26, <1>a DEF SendWatch, gitVars, filterVars
<1>27. ASSUME Stop PROVE Pointers'
  BY <1>27, <1>a DEF Stop, gitVars, filterVars, bufferVars
<1>28. ASSUME UNCHANGED vars PROVE Pointers'
  BY <1>28, <1>a DEF vars, gitVars, filterVars, queueVars, bufferVars
<1> QED
  BY <1>1, <1>2, <1>3, <1>4, <1>5, <1>6, <1>7, <1>8, <1>9, <1>10, <1>11, <1>12, <1>13, <1>14, <1>15,
     <1>16, <1>17, <1>18, <1>19, <1>20, <1>21, <1>22, <1>23, <1>24, <1>25, <1>26, <1>27, <1>28
     DEF Next, GitStep, FilterStep, BufferStep, QueueStep, Resolve

\* The objects of the queue.
LEMMA ObjectsStep == TypeOK /\ Loop /\ Closed /\ Objects /\ [Next]_vars => Objects'
<1> SUFFICES ASSUME TypeOK, Loop, Closed, Objects, [Next]_vars PROVE Objects'
  OBVIOUS
<1>a. ASSUME UNCHANGED <<complete, unresolved, handling, added, toSend, q>> PROVE Objects'
  BY <1>a DEF Objects
<1>1. ASSUME NEW v \in BOOLEAN, NEW offer \in Offers, Handshake(v, offer) PROVE Objects'
  BY <1>1, <1>a DEF Handshake, queueVars, bufferVars
<1>2. ASSUME ClosePipe PROVE Objects'
  BY <1>2, <1>a DEF ClosePipe, filterVars, queueVars, bufferVars
<1>3. ASSUME NEW ps \in SUBSET Paths, StartCheckout(ps) PROVE Objects'
  BY <1>3, <1>a DEF StartCheckout, filterVars, queueVars, bufferVars
<1>4. ASSUME NEW o \in Oids, Clean(o) PROVE Objects'
  BY <1>4, <1>a DEF Clean, filterVars, queueVars, bufferVars
<1>5. ASSUME NEW o \in Oids, Download(o) PROVE Objects'
  BY <1>5, <1>a DEF Download, gitVars, filterVars, queueVars, bufferVars
<1>6. ASSUME NEW o \in Oids, Complete(o) PROVE Objects'
  BY <1>6 DEF Complete, gitVars, filterVars, bufferVars, Objects
<1>7. ASSUME NEW o \in Oids, Fail(o) PROVE Objects'
  BY <1>7 DEF Fail, gitVars, filterVars, bufferVars, Objects
<1>8. ASSUME FinishCheckout PROVE Objects'
  BY <1>8, <1>a DEF FinishCheckout, filterVars, queueVars, bufferVars
<1>9. ASSUME CallList PROVE Objects'
  BY <1>9 DEF CallList, CloseOnce, gitVars, bufferVars, Objects
<1>10. ASSUME NEW p \in Paths, SmudgeAtOnce(p) PROVE Objects'
  <2>1. CASE UNCHANGED <<queueVars, bufferVars>>
    BY <1>10, <2>1 DEF SmudgeAtOnce, filterVars, queueVars, bufferVars, Objects
  <2>2. CASE MakesQueue
    BY <1>10, <2>2 DEF SmudgeAtOnce, filterVars, MakesQueue, Objects
  <2> QED
    BY <1>10, <2>1, <2>2, NewQueueCases DEF SmudgeAtOnce
<1>11. ASSUME NEW p \in Paths, SmudgeLater(p) PROVE Objects'
  <2>1. CASE UNCHANGED <<queueVars, bufferVars>>
    BY <1>11, <2>1 DEF SmudgeLater, filterVars, queueVars, bufferVars, Objects
  <2>2. CASE MakesQueue
    BY <1>11, <2>2 DEF SmudgeLater, filterVars, MakesQueue, Objects
  <2> QED
    BY <1>11, <2>1, <2>2, NewQueueCases DEF SmudgeLater
<1>12. ASSUME NEW p \in Paths, NEW d \in BOOLEAN, SmudgeNow(p, d) PROVE Objects'
  <2>1. CASE UNCHANGED <<queueVars, bufferVars>>
    BY <1>12, <2>1 DEF SmudgeNow, filterVars, queueVars, bufferVars, Objects
  <2>2. CASE MakesQueue
    BY <1>12, <2>2 DEF SmudgeNow, filterVars, MakesQueue, Objects
  <2> QED
    BY <1>12, <2>1, <2>2, NewQueueCases DEF SmudgeNow
<1>13. ASSUME NEW p \in Paths, NEW d \in BOOLEAN, SmudgeDirect(p, d) PROVE Objects'
  <2>1. CASE UNCHANGED <<queueVars, bufferVars>>
    BY <1>13, <2>1 DEF SmudgeDirect, filterVars, queueVars, bufferVars, Objects
  <2>2. CASE MakesQueue
    BY <1>13, <2>2 DEF SmudgeDirect, filterVars, MakesQueue, Objects
  <2> QED
    BY <1>13, <2>1, <2>2, NewQueueCases DEF SmudgeDirect
<1>14. ASSUME NEW p \in Paths, AddNew(p) PROVE Objects'
  <2>1. q = "open" /\ q' = q
    BY <1>14 DEF AddNew, Loop
  <2>2. OidOf[p] \notin complete
    BY <1>14 DEF AddNew, Objects
  <2> QED
    BY <1>14, <2>1, <2>2 DEF AddNew, Objects
<1>15. ASSUME NEW p \in Paths, AddDuplicate(p) PROVE Objects'
  BY <1>15 DEF AddDuplicate, AnswerDelayed, DelayedStatusFromErr, StatusFromErr, bufferVars, Objects
<1>16. ASSUME NEW p \in Paths, Announce(p) PROVE Objects'
  BY <1>16, <1>a DEF Announce, queueVars
<1>17. ASSUME ReadOne PROVE Objects'
  BY <1>17, <1>a DEF ReadOne, gitVars, queueVars
<1>18. ASSUME PollEmpty PROVE Objects'
  BY <1>18, <1>a DEF PollEmpty, gitVars, queueVars, bufferVars
<1>19. ASSUME ReadClosed PROVE Objects'
  BY <1>19, <1>a DEF ReadClosed, gitVars, queueVars, bufferVars
<1>20. ASSUME Reply PROVE Objects'
  <2>1. q' = "none" => q \in {"none", "closed"}
    BY <1>20 DEF Reply, DropQueue, Closed
  <2>2. q' = "closed" => q = "closed"
    BY <1>20 DEF Reply, DropQueue
  <2> QED
    BY <1>20, <2>1, <2>2 DEF Reply, Objects
<1>21. ASSUME RegisterWatch PROVE Objects'
  BY <1>21, <1>a DEF RegisterWatch, gitVars, filterVars
<1>22. ASSUME BufferRead PROVE Objects'
  BY <1>22, <1>a DEF BufferRead, gitVars, filterVars, queueVars
<1>23. ASSUME BufferClosing PROVE Objects'
  BY <1>23, <1>a DEF BufferClosing, gitVars, filterVars, queueVars
<1>24. ASSUME Completed PROVE Objects'
  BY <1>24 DEF Completed, gitVars, filterVars, bufferVars, Objects
<1>25. ASSUME CloseWatchers PROVE Objects'
  BY <1>25 DEF CloseWatchers, gitVars, filterVars, Objects
<1>26. ASSUME NEW p \in Paths, SendWatch(p) PROVE Objects'
  BY <1>26 DEF SendWatch, gitVars, filterVars, Objects
<1>27. ASSUME Stop PROVE Objects'
  BY <1>27 DEF Stop, gitVars, filterVars, bufferVars, Objects
<1>28. ASSUME UNCHANGED vars PROVE Objects'
  BY <1>28, <1>a DEF vars, gitVars, filterVars, queueVars, bufferVars
<1> QED
  BY <1>1, <1>2, <1>3, <1>4, <1>5, <1>6, <1>7, <1>8, <1>9, <1>10, <1>11, <1>12, <1>13, <1>14, <1>15,
     <1>16, <1>17, <1>18, <1>19, <1>20, <1>21, <1>22, <1>23, <1>24, <1>25, <1>26, <1>27, <1>28
     DEF Next, GitStep, FilterStep, BufferStep, QueueStep, Resolve

\* A closed channel has nothing left in it.
LEMMA ClosedStep == TypeOK /\ Loop /\ Objects /\ Closed /\ [Next]_vars => Closed'
<1> SUFFICES ASSUME TypeOK, Loop, Objects, Closed, [Next]_vars PROVE Closed'
  OBVIOUS
<1>a. ASSUME UNCHANGED <<watchClosed, q, buffer, watch, pending, cmd, ts>> PROVE Closed'
  BY <1>a DEF Closed
<1>1. ASSUME NEW v \in BOOLEAN, NEW offer \in Offers, Handshake(v, offer) PROVE Closed'
  BY <1>1, <1>a DEF Handshake, queueVars, bufferVars
<1>2. ASSUME ClosePipe PROVE Closed'
  BY <1>2, <1>a DEF ClosePipe, filterVars, queueVars, bufferVars
<1>3. ASSUME NEW ps \in SUBSET Paths, StartCheckout(ps) PROVE Closed'
  BY <1>3, <1>a DEF StartCheckout, filterVars, queueVars, bufferVars
<1>4. ASSUME NEW o \in Oids, Clean(o) PROVE Closed'
  BY <1>4, <1>a DEF Clean, filterVars, queueVars, bufferVars
<1>5. ASSUME NEW o \in Oids, Download(o) PROVE Closed'
  BY <1>5, <1>a DEF Download, gitVars, filterVars, queueVars, bufferVars
<1>6. ASSUME NEW o \in Oids, Complete(o) PROVE Closed'
  BY <1>6, <1>a DEF Complete, gitVars, filterVars, bufferVars
<1>7. ASSUME NEW o \in Oids, Fail(o) PROVE Closed'
  BY <1>7, <1>a DEF Fail, gitVars, filterVars, bufferVars
<1>8. ASSUME FinishCheckout PROVE Closed'
  BY <1>8, <1>a DEF FinishCheckout, filterVars, queueVars, bufferVars
<1>9. ASSUME CallList PROVE Closed'
  BY <1>9 DEF CallList, CloseOnce, gitVars, bufferVars, Closed
<1>10. ASSUME NEW p \in Paths, SmudgeAtOnce(p) PROVE Closed'
  <2>1. CASE UNCHANGED <<queueVars, bufferVars>>
    BY <1>10, <2>1 DEF SmudgeAtOnce, filterVars, queueVars, bufferVars, Closed
  <2>2. CASE MakesQueue
    BY <1>10, <2>2 DEF SmudgeAtOnce, filterVars, MakesQueue, Closed
  <2> QED
    BY <1>10, <2>1, <2>2, NewQueueCases DEF SmudgeAtOnce
<1>11. ASSUME NEW p \in Paths, SmudgeLater(p) PROVE Closed'
  <2>1. CASE UNCHANGED <<queueVars, bufferVars>>
    BY <1>11, <2>1 DEF SmudgeLater, filterVars, queueVars, bufferVars, Closed
  <2>2. CASE MakesQueue
    BY <1>11, <2>2 DEF SmudgeLater, filterVars, MakesQueue, Closed
  <2> QED
    BY <1>11, <2>1, <2>2, NewQueueCases DEF SmudgeLater
<1>12. ASSUME NEW p \in Paths, NEW d \in BOOLEAN, SmudgeNow(p, d) PROVE Closed'
  <2>1. CASE UNCHANGED <<queueVars, bufferVars>>
    BY <1>12, <2>1 DEF SmudgeNow, filterVars, queueVars, bufferVars, Closed
  <2>2. CASE MakesQueue
    BY <1>12, <2>2 DEF SmudgeNow, filterVars, MakesQueue, Closed
  <2> QED
    BY <1>12, <2>1, <2>2, NewQueueCases DEF SmudgeNow
<1>13. ASSUME NEW p \in Paths, NEW d \in BOOLEAN, SmudgeDirect(p, d) PROVE Closed'
  <2>1. CASE UNCHANGED <<queueVars, bufferVars>>
    BY <1>13, <2>1 DEF SmudgeDirect, filterVars, queueVars, bufferVars, Closed
  <2>2. CASE MakesQueue
    BY <1>13, <2>2 DEF SmudgeDirect, filterVars, MakesQueue, Closed
  <2> QED
    BY <1>13, <2>1, <2>2, NewQueueCases DEF SmudgeDirect
<1>14. ASSUME NEW p \in Paths, AddNew(p) PROVE Closed'
  <2>1. cmd' = "none"
    BY <1>14, DelayedAnswer DEF AddNew
  <2> QED
    BY <1>14, <2>1 DEF AddNew, bufferVars, Closed
<1>15. ASSUME NEW p \in Paths, AddDuplicate(p) PROVE Closed'
  <2>1. cmd' \in {"none", "announce"}
    BY <1>15, DelayedAnswer DEF AddDuplicate
  <2> QED
    BY <1>15, <2>1 DEF AddDuplicate, bufferVars, Closed
<1>16. ASSUME NEW p \in Paths, Announce(p) PROVE Closed'
  <2>1. q = "open" /\ q' = q
    BY <1>16 DEF Announce, queueVars, Loop
  <2>2. ~watchClosed /\ buffer # "done"
    BY <2>1 DEF Closed
  <2>3. cmd' = "none"
    BY <1>16, DelayedAnswer DEF Announce
  <2> QED
    BY <1>16, <2>1, <2>2, <2>3 DEF Announce, Closed
<1>17. ASSUME ReadOne PROVE Closed'
  <2>1. ts' # <<>>
    BY <1>17 DEF ReadOne, TypeOK, GitTypes
  <2> QED
    BY <1>17, <2>1 DEF ReadOne, queueVars, Closed
<1>18. ASSUME PollEmpty PROVE Closed'
  BY <1>18 DEF PollEmpty, gitVars, queueVars, bufferVars, Closed
<1>19. ASSUME ReadClosed PROVE Closed'
  BY <1>19 DEF ReadClosed, gitVars, queueVars, bufferVars, Closed
<1>20. ASSUME Reply PROVE Closed'
  BY <1>20 DEF Reply, DropQueue, bufferVars, Closed
<1>21. ASSUME RegisterWatch PROVE Closed'
  BY <1>21 DEF RegisterWatch, gitVars, filterVars, Closed
<1>22. ASSUME BufferRead PROVE Closed'
  BY <1>22 DEF BufferRead, gitVars, filterVars, queueVars, Closed
<1>23. ASSUME BufferClosing PROVE Closed'
  BY <1>23 DEF BufferClosing, CloseAfterPending, gitVars, filterVars, queueVars, Closed
<1>24. ASSUME Completed PROVE Closed'
  BY <1>24, <1>a DEF Completed, gitVars, filterVars, bufferVars
<1>25. ASSUME CloseWatchers PROVE Closed'
  BY <1>25 DEF CloseWatchers, gitVars, filterVars, Closed
<1>26. ASSUME NEW p \in Paths, SendWatch(p) PROVE Closed'
  <2>1. unresolved # {}
    BY <1>26 DEF SendWatch, Objects
  <2>2. q \notin {"none", "closed"}
    BY <2>1 DEF Objects
  <2> QED
    BY <1>26, <2>2 DEF SendWatch, filterVars, Closed
<1>27. ASSUME Stop PROVE Closed'
  BY <1>27, <1>a DEF Stop, gitVars, filterVars, bufferVars
<1>28. ASSUME UNCHANGED vars PROVE Closed'
  BY <1>28, <1>a DEF vars, gitVars, filterVars, queueVars, bufferVars
<1> QED
  BY <1>1, <1>2, <1>3, <1>4, <1>5, <1>6, <1>7, <1>8, <1>9, <1>10, <1>11, <1>12, <1>13, <1>14, <1>15,
     <1>16, <1>17, <1>18, <1>19, <1>20, <1>21, <1>22, <1>23, <1>24, <1>25, <1>26, <1>27, <1>28
     DEF Next, GitStep, FilterStep, BufferStep, QueueStep, Resolve

\* A listed path has its pointer.
LEMMA NoEmptyFileStep == TypeOK /\ Pointers /\ NoEmptyFile /\ [Next]_vars => NoEmptyFile'
<1> SUFFICES ASSUME TypeOK, Pointers, NoEmptyFile, [Next]_vars PROVE NoEmptyFile'
  OBVIOUS
<1>a. ASSUME UNCHANGED <<result>> PROVE NoEmptyFile'
  BY <1>a DEF NoEmptyFile
<1>1. ASSUME NEW v \in BOOLEAN, NEW offer \in Offers, Handshake(v, offer) PROVE NoEmptyFile'
  BY <1>1, <1>a DEF Handshake, queueVars, bufferVars
<1>2. ASSUME ClosePipe PROVE NoEmptyFile'
  BY <1>2, <1>a DEF ClosePipe, filterVars, queueVars, bufferVars
<1>3. ASSUME NEW ps \in SUBSET Paths, StartCheckout(ps) PROVE NoEmptyFile'
  BY <1>3 DEF StartCheckout, filterVars, queueVars, bufferVars, NoEmptyFile
<1>4. ASSUME NEW o \in Oids, Clean(o) PROVE NoEmptyFile'
  BY <1>4, <1>a DEF Clean, filterVars, queueVars, bufferVars
<1>5. ASSUME NEW o \in Oids, Download(o) PROVE NoEmptyFile'
  BY <1>5, <1>a DEF Download, gitVars, filterVars, queueVars, bufferVars
<1>6. ASSUME NEW o \in Oids, Complete(o) PROVE NoEmptyFile'
  BY <1>6, <1>a DEF Complete, gitVars, filterVars, bufferVars
<1>7. ASSUME NEW o \in Oids, Fail(o) PROVE NoEmptyFile'
  BY <1>7, <1>a DEF Fail, gitVars, filterVars, bufferVars
<1>8. ASSUME FinishCheckout PROVE NoEmptyFile'
  BY <1>8, <1>a DEF FinishCheckout, filterVars, queueVars, bufferVars
<1>9. ASSUME CallList PROVE NoEmptyFile'
  BY <1>9, <1>a DEF CallList, gitVars, bufferVars
<1>10. ASSUME NEW p \in Paths, SmudgeAtOnce(p) PROVE NoEmptyFile'
  BY <1>10 DEF SmudgeAtOnce, NoEmptyFile, TypeOK, GitTypes
<1>11. ASSUME NEW p \in Paths, SmudgeLater(p) PROVE NoEmptyFile'
  BY <1>11, <1>a DEF SmudgeLater
<1>12. ASSUME NEW p \in Paths, NEW d \in BOOLEAN, SmudgeNow(p, d) PROVE NoEmptyFile'
  <2>1. Cached(p)
    BY <1>12 DEF SmudgeNow, Cached, Pointers
  <2> QED
    BY <1>12, <2>1 DEF SmudgeNow, NoEmptyFile, TypeOK, GitTypes
<1>13. ASSUME NEW p \in Paths, NEW d \in BOOLEAN, SmudgeDirect(p, d) PROVE NoEmptyFile'
  BY <1>13 DEF SmudgeDirect, NoEmptyFile, TypeOK, GitTypes
<1>14. ASSUME NEW p \in Paths, AddNew(p) PROVE NoEmptyFile'
  BY <1>14, <1>a DEF AddNew, bufferVars
<1>15. ASSUME NEW p \in Paths, AddDuplicate(p) PROVE NoEmptyFile'
  BY <1>15, <1>a DEF AddDuplicate, bufferVars
<1>16. ASSUME NEW p \in Paths, Announce(p) PROVE NoEmptyFile'
  BY <1>16, <1>a DEF Announce, queueVars
<1>17. ASSUME ReadOne PROVE NoEmptyFile'
  BY <1>17, <1>a DEF ReadOne, gitVars, queueVars
<1>18. ASSUME PollEmpty PROVE NoEmptyFile'
  BY <1>18, <1>a DEF PollEmpty, gitVars, queueVars, bufferVars
<1>19. ASSUME ReadClosed PROVE NoEmptyFile'
  BY <1>19, <1>a DEF ReadClosed, gitVars, queueVars, bufferVars
<1>20. ASSUME Reply PROVE NoEmptyFile'
  BY <1>20, <1>a DEF Reply, bufferVars
<1>21. ASSUME RegisterWatch PROVE NoEmptyFile'
  BY <1>21, <1>a DEF RegisterWatch, gitVars, filterVars
<1>22. ASSUME BufferRead PROVE NoEmptyFile'
  BY <1>22, <1>a DEF BufferRead, gitVars, filterVars, queueVars
<1>23. ASSUME BufferClosing PROVE NoEmptyFile'
  BY <1>23, <1>a DEF BufferClosing, gitVars, filterVars, queueVars
<1>24. ASSUME Completed PROVE NoEmptyFile'
  BY <1>24, <1>a DEF Completed, gitVars, filterVars, bufferVars
<1>25. ASSUME CloseWatchers PROVE NoEmptyFile'
  BY <1>25, <1>a DEF CloseWatchers, gitVars, filterVars
<1>26. ASSUME NEW p \in Paths, SendWatch(p) PROVE NoEmptyFile'
  BY <1>26, <1>a DEF SendWatch, gitVars, filterVars
<1>27. ASSUME Stop PROVE NoEmptyFile'
  BY <1>27, <1>a DEF Stop, gitVars, filterVars, bufferVars
<1>28. ASSUME UNCHANGED vars PROVE NoEmptyFile'
  BY <1>28, <1>a DEF vars, gitVars, filterVars, queueVars, bufferVars
<1> QED
  BY <1>1, <1>2, <1>3, <1>4, <1>5, <1>6, <1>7, <1>8, <1>9, <1>10, <1>11, <1>12, <1>13, <1>14, <1>15,
     <1>16, <1>17, <1>18, <1>19, <1>20, <1>21, <1>22, <1>23, <1>24, <1>25, <1>26, <1>27, <1>28
     DEF Next, GitStep, FilterStep, BufferStep, QueueStep, Resolve

\* What waits to be listed is delayed, and waits once.
LEMMA AnnouncedStep == TypeOK /\ Loop /\ Pointers /\ Objects /\ Closed /\ Announced /\ [Next]_vars => Announced'
<1> SUFFICES ASSUME TypeOK, Loop, Pointers, Objects, Closed, Announced, [Next]_vars PROVE Announced'
  OBVIOUS
<1>a. ASSUME UNCHANGED <<toSend, watch, pending, ts, complete, added, delayed>>,
             q' # "none" => q # "none", cmd' = "announce" => UNCHANGED <<cmd, path>>
      PROVE  Announced'
  <2>1. Waiting' = Waiting
    BY <1>a DEF Waiting
  <2> QED
    BY <1>a, <2>1 DEF Announced
<1>b. ASSUME UNCHANGED <<toSend, watch, pending, ts, complete, q>>, NEW p \in Paths,
             delayed' = delayed \cup {p}, added' = added \cup {p}, cmd' = "none"
      PROVE  Announced'
  <2>1. Waiting' = Waiting
    BY <1>b DEF Waiting
  <2> QED
    BY <1>b, <2>1 DEF Announced
<1>c. ToSet(watch) \subseteq Paths /\ ToSet(pending) \subseteq Paths /\ ToSet(ts) \subseteq Paths
  BY ToSetByIndex DEF TypeOK, GitTypes, QueueTypes
<1>1. ASSUME NEW v \in BOOLEAN, NEW offer \in Offers, Handshake(v, offer) PROVE Announced'
  BY <1>1, <1>a DEF Handshake, queueVars, bufferVars
<1>2. ASSUME ClosePipe PROVE Announced'
  BY <1>2, <1>a DEF ClosePipe, filterVars, queueVars, bufferVars
<1>3. ASSUME NEW ps \in SUBSET Paths, StartCheckout(ps) PROVE Announced'
  <2>1. delayed = {}
    BY <1>3 DEF StartCheckout, Loop
  <2> QED
    BY <1>3, <1>a, <2>1 DEF StartCheckout, filterVars, queueVars, bufferVars
<1>4. ASSUME NEW o \in Oids, Clean(o) PROVE Announced'
  BY <1>4, <1>a DEF Clean, filterVars, queueVars, bufferVars
<1>5. ASSUME NEW o \in Oids, Download(o) PROVE Announced'
  BY <1>5, <1>a DEF Download, gitVars, filterVars, queueVars, bufferVars
<1>6. ASSUME NEW o \in Oids, Complete(o) PROVE Announced'
  <2>1. /\ complete' = complete \cup {o} /\ toSend' \subseteq {p \in added : OidOf[p] = o}
        /\ UNCHANGED <<watch, pending, ts, added, q, delayed, cmd, path>>
    BY <1>6 DEF Complete, gitVars, filterVars, bufferVars
  <2>2. o \notin complete /\ q # "none"
    BY <1>6 DEF Complete, Objects
  <2>3. \A p \in toSend' : p \in delayed /\ OidOf[p] = o /\ p \notin Waiting
    BY <2>1, <2>2 DEF Announced
  <2>4. Waiting' \subseteq Waiting \cup toSend'
    BY <2>1 DEF Waiting
  <2>5. ToSet(watch) \subseteq Waiting /\ ToSet(pending) \subseteq Waiting /\ ToSet(ts) \subseteq Waiting
    BY DEF Waiting
  <2>6. Waiting' \subseteq delayed /\ \A p \in Waiting' : OidOf[p] \in complete'
    BY <2>1, <2>3, <2>4 DEF Announced
  <2>7. toSend' \cap (ToSet(watch) \cup ToSet(pending) \cup ToSet(ts)) = {}
    BY <2>3, <2>5
  <2> QED
    BY <2>1, <2>6, <2>7 DEF Announced
<1>7. ASSUME NEW o \in Oids, Fail(o) PROVE Announced'
  BY <1>7, <1>a DEF Fail, gitVars, filterVars, bufferVars
<1>8. ASSUME FinishCheckout PROVE Announced'
  BY <1>8, <1>a DEF FinishCheckout, filterVars, queueVars, bufferVars
<1>9. ASSUME CallList PROVE Announced'
  <2>1. ts = <<>> /\ q' # "none" => q # "none"
    BY <1>9 DEF CallList, CloseOnce, Loop
  <2>2. ts = <<>>
    BY <1>9 DEF CallList, Loop
  <2> QED
    BY <1>9, <1>a, <2>1, <2>2 DEF CallList, gitVars, bufferVars
<1>10. ASSUME NEW p \in Paths, SmudgeAtOnce(p) PROVE Announced'
  <2>1. UNCHANGED <<ts, delayed>> /\ cmd' # "announce" /\ ts = <<>>
    BY <1>10 DEF SmudgeAtOnce, filterVars, Loop
  <2>2. CASE UNCHANGED <<queueVars, bufferVars>>
    BY <1>a, <2>1, <2>2 DEF queueVars, bufferVars
  <2>3. CASE MakesQueue
    <3>1. Waiting' = {} /\ watch' = <<>> /\ pending' = <<>> /\ toSend' = {} /\ ts' = <<>>
      BY <2>1, <2>3, ToSetEmpty DEF MakesQueue, Waiting
    <3> QED
      BY <2>1, <2>3, <3>1, ToSetEmpty DEF Announced, MakesQueue
  <2> QED
    BY <1>10, <2>2, <2>3, NewQueueCases DEF SmudgeAtOnce
<1>11. ASSUME NEW p \in Paths, SmudgeLater(p) PROVE Announced'
  <2>1. UNCHANGED <<ts, delayed>> /\ cmd' # "announce" /\ ts = <<>>
    BY <1>11 DEF SmudgeLater, filterVars, Loop
  <2>2. CASE UNCHANGED <<queueVars, bufferVars>>
    BY <1>a, <2>1, <2>2 DEF queueVars, bufferVars
  <2>3. CASE MakesQueue
    <3>1. Waiting' = {} /\ watch' = <<>> /\ pending' = <<>> /\ toSend' = {} /\ ts' = <<>>
      BY <2>1, <2>3, ToSetEmpty DEF MakesQueue, Waiting
    <3> QED
      BY <2>1, <2>3, <3>1, ToSetEmpty DEF Announced, MakesQueue
  <2> QED
    BY <1>11, <2>2, <2>3, NewQueueCases DEF SmudgeLater
<1>12. ASSUME NEW p \in Paths, NEW d \in BOOLEAN, SmudgeNow(p, d) PROVE Announced'
  <2>1. UNCHANGED <<ts, delayed>> /\ cmd' # "announce" /\ ts = <<>>
    BY <1>12 DEF SmudgeNow, filterVars, Loop
  <2>2. CASE UNCHANGED <<queueVars, bufferVars>>
    BY <1>a, <2>1, <2>2 DEF queueVars, bufferVars
  <2>3. CASE MakesQueue
    <3>1. Waiting' = {} /\ watch' = <<>> /\ pending' = <<>> /\ toSend' = {} /\ ts' = <<>>
      BY <2>1, <2>3, ToSetEmpty DEF MakesQueue, Waiting
    <3> QED
      BY <2>1, <2>3, <3>1, ToSetEmpty DEF Announced, MakesQueue
  <2> QED
    BY <1>12, <2>2, <2>3, NewQueueCases DEF SmudgeNow
<1>13. ASSUME NEW p \in Paths, NEW d \in BOOLEAN, SmudgeDirect(p, d) PROVE Announced'
  <2>1. UNCHANGED <<queueVars, bufferVars>>
    BY <1>13, NewQueueCases DEF SmudgeDirect, MakesQueue
  <2> QED
    BY <1>13, <1>a, <2>1 DEF SmudgeDirect, filterVars, queueVars, bufferVars
<1>14. ASSUME NEW p \in Paths, AddNew(p) PROVE Announced'
  BY <1>14, <1>b, DelayedAnswer DEF AddNew, bufferVars
<1>15. ASSUME NEW p \in Paths, AddDuplicate(p) PROVE Announced'
  <2>1. CASE OidOf[p] \in complete /\ watching
    <3>1. UNCHANGED <<toSend, watch, pending, ts, complete, q, delayed, path>> /\ added' = added \cup {p}
      BY <1>15, <2>1 DEF AddDuplicate, bufferVars
    <3>2. Waiting' = Waiting
      BY <3>1 DEF Waiting
    <3>3. \A r \in path : OidOf[r] \in complete
      BY <1>15, <2>1 DEF AddDuplicate, Pointers
    <3> QED
      BY <2>1, <3>1, <3>2, <3>3 DEF Announced
  <2>2. CASE ~(OidOf[p] \in complete /\ watching)
    <3>1. delayed' = delayed \cup {p} /\ cmd' = "none"
      BY <1>15, <2>2, DelayedAnswer DEF AddDuplicate
    <3> QED
      BY <1>15, <1>b, <3>1 DEF AddDuplicate, bufferVars
  <2> QED
    BY <2>1, <2>2
<1>16. ASSUME NEW p \in Paths, Announce(p) PROVE Announced'
  <2>1. /\ delayed' = delayed \cup {p} /\ cmd' = "none" /\ watch' = Append(watch, p)
        /\ UNCHANGED <<toSend, pending, ts, complete, added, q>>
    BY <1>16, DelayedAnswer DEF Announce, queueVars
  <2>2. p \notin delayed /\ OidOf[p] \in complete
    BY <1>16 DEF Announce, Pointers, Announced
  <2>3. p \notin toSend /\ p \notin ToSet(watch) /\ p \notin ToSet(pending) /\ p \notin ToSet(ts)
    BY <2>2 DEF Announced, Waiting
  <2>4. ToSet(watch') = ToSet(watch) \cup {p} /\ Distinct(watch')
    BY <2>1, <2>3, ToSetAppend DEF TypeOK, QueueTypes, Announced
  <2>5. Waiting' = Waiting \cup {p}
    BY <2>1, <2>4 DEF Waiting
  <2> QED
    BY <2>1, <2>2, <2>3, <2>4, <2>5 DEF Announced
<1>17. ASSUME ReadOne PROVE Announced'
  <2> DEFINE h == Head(pending)
  <2>1. /\ ts' = Append(ts, h) /\ pending' = Tail(pending) /\ pending # <<>> /\ cmd' # "announce"
        /\ UNCHANGED <<toSend, watch, complete, added, q, delayed>>
    BY <1>17 DEF ReadOne, gitVars, queueVars
  <2>2. /\ h \in Paths /\ ToSet(pending) = ToSet(pending') \cup {h} /\ h \notin ToSet(pending')
        /\ Distinct(pending')
    BY <2>1, ToSetTail DEF TypeOK, QueueTypes, Announced
  <2> HIDE DEF h
  <2>3. h \notin toSend /\ h \notin ToSet(watch) /\ h \notin ToSet(ts)
    BY <2>2 DEF Announced
  <2>4. ToSet(ts') = ToSet(ts) \cup {h}
    BY <2>1, <2>2, ToSetAppend DEF TypeOK, GitTypes
  <2>5. Waiting' = Waiting
    BY <2>1, <2>2, <2>4 DEF Waiting
  <2> QED
    BY <2>1, <2>2, <2>3, <2>4, <2>5 DEF Announced
<1>18. ASSUME PollEmpty PROVE Announced'
  BY <1>18, <1>a DEF PollEmpty, gitVars, queueVars, bufferVars
<1>19. ASSUME ReadClosed PROVE Announced'
  BY <1>19, <1>a DEF ReadClosed, gitVars, queueVars, bufferVars
<1>20. ASSUME Reply PROVE Announced'
  <2>1. /\ delayed' = delayed \ Names /\ cmd' = "none" /\ ts' = <<>>
        /\ UNCHANGED <<toSend, watch, pending, complete, added>>
    BY <1>20 DEF Reply, bufferVars
  <2>2. CASE ts = <<>>
    <3>1. q' = "none" /\ buffer = "done" /\ q \in {"none", "closed"}
      BY <1>20, <2>2 DEF Reply, DropQueue, Closed
    <3>2. toSend = {} /\ watch = <<>> /\ pending = <<>>
      BY <3>1 DEF Objects, Closed
    <3>3. Waiting' = {}
      BY <2>1, <3>2, ToSetEmpty DEF Waiting
    <3> QED
      BY <2>1, <3>1, <3>2, <3>3, ToSetEmpty DEF Announced
  <2>3. CASE ts # <<>>
    <3>1. Names = ToSet(ts) /\ q' = q
      BY <1>20, <2>3 DEF Reply, DropQueue, Names, Pathnames
    <3>2. ToSet(ts') = {}
      BY <2>1, ToSetEmpty
    <3>3. Waiting' \subseteq Waiting /\ Waiting' \cap ToSet(ts) = {}
      BY <2>1, <3>2 DEF Waiting, Announced
    <3>4. \A p \in ToSet(ts) : OidOf[p] \in complete
      BY DEF Announced, Waiting
    <3>5. Waiting' \subseteq delayed'
      BY <2>1, <3>1, <3>3 DEF Announced
    <3>6. q' # "none" => \A p \in added' : OidOf[p] \in complete' \/ p \in delayed'
      BY <2>1, <3>1, <3>4 DEF Announced
    <3> QED
      BY <2>1, <3>2, <3>3, <3>5, <3>6 DEF Announced
  <2> QED
    BY <2>2, <2>3
<1>21. ASSUME RegisterWatch PROVE Announced'
  BY <1>21, <1>a DEF RegisterWatch, gitVars, filterVars
<1>22. ASSUME BufferRead PROVE Announced'
  <2> DEFINE h == Head(watch)
  <2>1. /\ pending' = Append(pending, h) /\ watch' = Tail(watch) /\ watch # <<>>
        /\ UNCHANGED <<toSend, ts, complete, added, q, delayed, cmd, path>>
    BY <1>22 DEF BufferRead, gitVars, filterVars, queueVars
  <2>2. /\ h \in Paths /\ ToSet(watch) = ToSet(watch') \cup {h} /\ h \notin ToSet(watch')
        /\ Distinct(watch')
    BY <2>1, ToSetTail DEF TypeOK, QueueTypes, Announced
  <2> HIDE DEF h
  <2>3. h \notin toSend /\ h \notin ToSet(pending) /\ h \notin ToSet(ts)
    BY <2>2 DEF Announced
  <2>4. ToSet(pending') = ToSet(pending) \cup {h} /\ Distinct(pending')
    BY <2>1, <2>2, <2>3, ToSetAppend DEF TypeOK, QueueTypes, Announced
  <2>5. Waiting' = Waiting
    BY <2>1, <2>2, <2>4 DEF Waiting
  <2> QED
    BY <2>1, <2>2, <2>3, <2>4, <2>5 DEF Announced
<1>23. ASSUME BufferClosing PROVE Announced'
  BY <1>23, <1>a DEF BufferClosing, gitVars, filterVars, queueVars
<1>24. ASSUME Completed PROVE Announced'
  BY <1>24, <1>a DEF Completed, gitVars, filterVars, bufferVars
<1>25. ASSUME CloseWatchers PROVE Announced'
  BY <1>25, <1>a DEF CloseWatchers, gitVars, filterVars
<1>26. ASSUME NEW p \in Paths, SendWatch(p) PROVE Announced'
  <2>1. /\ toSend' = toSend \ {p} /\ watch' = Append(watch, p) /\ p \in toSend
        /\ UNCHANGED <<pending, ts, complete, added, q, delayed, cmd, path>>
    BY <1>26 DEF SendWatch, gitVars, filterVars
  <2>2. p \notin ToSet(watch) /\ p \notin ToSet(pending) /\ p \notin ToSet(ts)
    BY <2>1 DEF Announced
  <2>3. ToSet(watch') = ToSet(watch) \cup {p} /\ Distinct(watch')
    BY <2>1, <2>2, ToSetAppend DEF TypeOK, QueueTypes, Announced
  <2>4. Waiting' = Waiting
    BY <2>1, <2>3 DEF Waiting
  <2> QED
    BY <2>1, <2>2, <2>3, <2>4 DEF Announced
<1>27. ASSUME Stop PROVE Announced'
  BY <1>27, <1>a DEF Stop, gitVars, filterVars, bufferVars
<1>28. ASSUME UNCHANGED vars PROVE Announced'
  BY <1>28, <1>a DEF vars, gitVars, filterVars, queueVars, bufferVars
<1> QED
  BY <1>1, <1>2, <1>3, <1>4, <1>5, <1>6, <1>7, <1>8, <1>9, <1>10, <1>11, <1>12, <1>13, <1>14, <1>15,
     <1>16, <1>17, <1>18, <1>19, <1>20, <1>21, <1>22, <1>23, <1>24, <1>25, <1>26, <1>27, <1>28
     DEF Next, GitStep, FilterStep, BufferStep, QueueStep, Resolve

-----------------------------------------------------------------------------
(* Theorems *)

\* The invariant holds at the start and is kept by every step.
LEMMA Inductive == Spec => []IInv
<1>1. Init => IInv
  <2> SUFFICES ASSUME Init PROVE IInv
    OBVIOUS
  <2>1. TypeOK
    <3>1. <<>> \in Seq(Paths)
      OBVIOUS
    <3>2. GitTypes
      BY <3>1 DEF Init, GitTypes
    <3>3. QueueTypes
      BY <3>1 DEF Init, QueueTypes
    <3> QED
      BY <3>2, <3>3 DEF TypeOK
  <2>2. Waiting = {}
    BY ToSetEmpty DEF Init, Waiting
  <2>3. Loop /\ Pointers /\ Objects /\ Closed
    BY DEF Init, Loop, Pointers, Objects, Closed
  <2>4. Announced
    BY <2>2, ToSetEmpty DEF Init, Announced
  <2>5. NoEmptyFile
    BY DEF Init, NoEmptyFile
  <2> QED
    BY <2>1, <2>3, <2>4, <2>5 DEF IInv
<1>2. IInv /\ [Next]_vars => IInv'
  BY TypeOKStep, LoopStep, PointersStep, ObjectsStep, ClosedStep, AnnouncedStep, NoEmptyFileStep
     DEF IInv
<1> QED
  BY <1>1, <1>2, PTL DEF Spec

\* When Git is told that nothing more comes, no path is left delayed, listed or with its
\* pointer kept.
THEOREM ListEndsCheckout == Spec => []NothingLeftDelayed
<1>1. IInv => NothingLeftDelayed
  BY DEF IInv, Loop, Pointers, NothingLeftDelayed
<1> QED
  BY <1>1, Inductive, PTL

\* Every listed path still has its pointer when Git asks for it again.
THEOREM DelayedFileWritten == Spec => []NoEmptyFile
BY Inductive, PTL DEF IInv

=============================================================================
