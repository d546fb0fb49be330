--------------------------- MODULE LockingProofs ---------------------------
(***************************************************************************)
(* Proofs about file locking, for any number of users, paths and locks and *)
(* any page size: what is in the lock cache between commands, what a paged *)
(* list holds at its end, what a verified push respects, and which files   *)
(* are writable.                                                           *)
(*                                                                         *)
(* The inductive invariant has a part about the server's locks and, for    *)
(* each user, parts about that user's clone and running command.  A step   *)
(* of one user reaches another only through the locks, and in one of two   *)
(* ways: locks of others are made, and locks end (BystanderKeeps).         *)
(*                                                                         *)
(* The lock cache is a key/value store, and the last part is about its     *)
(* file, for any processes, keys, values and number of changes.            *)
(***************************************************************************)
EXTENDS Locking, KVStore, FiniteSetTheorems, WellFoundedInduction, TLAPS

Kinds  == {"idle", "lock", "unlock", "locks", "verify", "push"}
Phases == {"next", "locked", "found", "unlocked", "page", "end", "scan", "pushed"}
Lock   == [path : Paths, owner : Users]
Cache  == [path : [Paths -> Nat], ids : SUBSET Nat]
Lists  == [remote : SUBSET Nat, verifiable : SUBSET Nat]
Command ==
  [kind : Kinds, phase : Phases, args : SUBSET Paths, force : BOOLEAN, limit : Nat,
   id : Nat, ok : BOOLEAN, made : SUBSET Nat, cursor : Nat, ours : SUBSET Nat,
   theirs : SUBSET Nat, verify : VerifyStates, versions : SUBSET Versions, left : SUBSET Versions,
   seen : SUBSET (Oids \X Contents), unowned : SUBSET Paths]

\* IDs are given out in order and keep their path and owner.
ServerTypes ==
  /\ \E n \in Nat : DOMAIN lockOf = 1..n
  /\ lockOf \in [DOMAIN lockOf -> Lock]
  /\ held \subseteq DOMAIN lockOf

CloneTypes ==
  /\ lockcache \in [Users -> Cache] /\ listing \in [Users -> Lists]
  /\ writable \in [Users -> SUBSET Paths] /\ dirty \in [Users -> SUBSET Paths]
  /\ changed \in [Users -> SUBSET Versions] /\ verifyState \in [Users -> VerifyStates]

CommandTypes ==
  /\ op \in [Users -> Command] /\ mem \in [Users -> Cache]
  /\ commands \in [Users -> Nat] /\ stable \in [Users -> SUBSET Nat]

HistoryTypes ==
  /\ unsaved \in SUBSET Nat /\ broken \in SUBSET Nat /\ foreign \in [Users -> SUBSET Paths]

LockingTypes == ServerTypes /\ CloneTypes /\ CommandTypes /\ HistoryTypes

\* A path has one lock at most.
Locks ==
  /\ \A i \in held, j \in held : lockOf[i].path = lockOf[j].path => i = j
  /\ \A u \in Users : stable[u] \subseteq held
  /\ broken \subseteq DOMAIN lockOf

\* What the fields of a command mean in each of its phases.
Shape(u) ==
  LET o == op[u] IN
  /\ o.kind = "idle" => o.phase = "next"
  /\ o.phase = "locked" => o.kind = "lock"
  /\ o.phase \in {"found", "unlocked"} => o.kind = "unlock"
  /\ o.phase = "page" => o.kind \in {"locks", "verify", "push"}
  /\ o.phase = "end" => o.kind \in {"locks", "verify"}
  /\ o.phase \in {"scan", "pushed"} => o.kind = "push"
  /\ o.kind \in {"lock", "unlock"} => o.phase \in {"next", "locked", "found", "unlocked"}
  /\ o.phase \in {"found", "locked", "unlocked"} => o.id \in DOMAIN lockOf
  /\ o.made \subseteq DOMAIN lockOf
  /\ o.ours \subseteq DOMAIN lockOf /\ o.theirs \subseteq DOMAIN lockOf
  /\ \A i \in o.ours : lockOf[i].owner = u
  /\ \A i \in o.theirs : lockOf[i].owner # u
  /\ o.kind = "push" => o.limit = 0

\* A list has every lock that stayed and is before its cursor, and all of them when
\* it has ended without having been cut short.
Complete(u) ==
  LET o == op[u]
      got == o.ours \cup o.theirs IN
  /\ o.phase = "page" /\ o.limit = 0 => \A i \in stable[u] : i \in got \/ i >= o.cursor
  /\ o.phase = "end" /\ o.limit = 0 =>
       /\ stable[u] \subseteq got
       /\ stable[u] \subseteq (IF o.kind = "locks" THEN listing[u].remote ELSE listing[u].verifiable)
  /\ o.kind = "push" /\ o.phase \in {"scan", "pushed"} /\ o.ok /\ o.verify # "disabled" =>
       stable[u] \subseteq got \cap listing[u].verifiable

\* The scan looks up the first version of a blob that it comes to, of the kinds that it names.
TwinOf(v, vs) == \E w \in vs : w.path # v.path /\ Blob(w) = Blob(v)

\* What the scan of a push has seen are the versions it has come to, and it has reported every path
\* it has looked up and found locked by another.
Verified(u) ==
  LET o == op[u] IN
  /\ o.phase = "page" => o.left = o.versions /\ o.ok /\ o.seen = {}
  /\ o.kind = "push" /\ o.phase \in {"scan", "pushed"} =>
       /\ o.left \subseteq o.versions /\ o.seen \subseteq {Blob(w) : w \in o.versions \ o.left}
       /\ \A i \in o.theirs, v \in o.versions \ o.left :
            lockOf[i].path = v.path /\ v.content \in {"pointer", "plain"} =>
              v.path \in o.unowned \/ TwinOf(v, o.versions)
  /\ o.phase = "pushed" =>
       /\ \A v \in o.left : v.content = "large"
       /\ o.unowned = {} \/ o.verify # "enabled"

\* Own locks are in lockcache.db, or will be when the running command ends.
OwnInDb(u) ==
  LET o == op[u] IN
  \A i \in Owned(u) :
    \/ i \in unsaved
    \/ lockcache[u].path[lockOf[i].path] = i
    \/ o.kind = "lock" /\ (i \in o.made \/ (o.phase = "locked" /\ i = o.id))

\* Own locks are in the running command's copy; a lock command misses only the one whose
\* response is under way, and a list has those that it was sent and that are still held.
OwnInMem(u) ==
  LET o == op[u] IN
  /\ o.kind \in {"lock", "unlock"} =>
       \A i \in Owned(u) :
         i \in unsaved \/ mem[u].path[lockOf[i].path] = i \/ (o.phase = "locked" /\ i = o.id)
  /\ o.kind = "locks" => mem[u] = lockcache[u]
  /\ o.kind = "verify" =>
       \A i \in (o.ours \cup o.theirs) \cap held : mem[u].path[lockOf[i].path] = i
  /\ o.kind \in {"locks", "verify", "push"} => Owned(u) \subseteq stable[u]
  /\ o.phase \in {"locked", "unlocked"} =>
       \A i \in Owned(u) : i # o.id => lockOf[i].path # lockOf[o.id].path
  /\ o.phase = "unlocked" => o.id \notin held

\* An entry of a cache is a lock of the path it is under, known by its ID as well.
Entries(c) ==
  \A p \in Paths : c.path[p] # 0 =>
    c.path[p] \in c.ids \cap DOMAIN lockOf /\ lockOf[c.path[p]].path = p

\* A lock of u that is still held, or that ended behind u's back.
Mine(u, i) == lockOf[i].owner = u /\ i \in held \cup broken

\* Why a lockable path may be writable for u.
Excused(u, p) == p \in foreign[u] \/ \E i \in held \cup broken : lockOf[i].path = p /\ lockOf[i].owner = u

\* The lock that the running command has just given up, before it knows.
GivenUp(u, i) == op[u].phase = "unlocked" /\ i = op[u].id /\ lockOf[i].owner = u

\* Entries of the caches, and write flags, have an excuse or go with the running command.
Flags(u) ==
  LET o == op[u] IN
  /\ Entries(lockcache[u]) /\ Entries(mem[u])
  /\ \A p \in Paths : lockcache[u].path[p] # 0 =>
       \/ p \in foreign[u]
       \/ Mine(u, lockcache[u].path[p])
       \/ /\ o.kind = "unlock" /\ lockOf[lockcache[u].path[p]].owner = u
          /\ lockcache[u].path[p] \in o.made \/ GivenUp(u, lockcache[u].path[p])
  /\ \A p \in Paths : mem[u].path[p] # 0 =>
       \/ p \in foreign[u]
       \/ Mine(u, mem[u].path[p])
       \/ GivenUp(u, mem[u].path[p])
       \/ o.kind \in {"verify", "push"} /\ mem[u].path[p] \in o.theirs
  /\ \A p \in LockableIn(writable[u]) :
       Excused(u, p) \/ (o.phase = "unlocked" /\ lockOf[o.id].path = p /\ lockOf[o.id].owner = u)
  /\ o.phase = "locked" => Mine(u, o.id)

UserInv(u) == Shape(u) /\ Complete(u) /\ Verified(u) /\ OwnInDb(u) /\ OwnInMem(u) /\ Flags(u)

IInv == LockingTypes /\ Locks /\ \A u \in Users : UserInv(u)

-----------------------------------------------------------------------------
(* The server's pages. *)

\* A nonempty set of numbers has a least element, which Min returns.
LEMMA MinIsLeast ==
  ASSUME NEW S \in SUBSET Nat, S # {}
  PROVE  Min(S) \in S /\ \A n \in S : Min(S) <= n
<1>1. PICK m \in S : \A n \in S : ~(<<n, m>> \in OpToRel(<, Nat))
  BY NatLessThanWellFounded, WFMin
<1>2. \A n \in S : m <= n
  <2> SUFFICES ASSUME NEW n \in S PROVE m <= n
    OBVIOUS
  <2>1. ~(n < m)
    BY <1>1 DEF OpToRel
  <2> QED
    BY <2>1
<1> QED
  BY <1>2 DEF Min

\* A page of the server holds locks that exist, and the next cursor is at or before every
\* lock from the old cursor on that the page leaves out.
LEMMA PageCovers ==
  ASSUME ServerTypes, NEW c \in Nat
  PROVE  /\ ServerPage(c) \subseteq held
         /\ ServerCursor(c) \in Nat
         /\ \A i \in held : i >= c =>
              i \in ServerPage(c) \/ (ServerCursor(c) # 0 /\ ServerCursor(c) <= i)
<1> DEFINE rest == {i \in held : i >= c} \ ServerPage(c)
<1>1. held \subseteq Nat \ {0}
  BY DEF ServerTypes
<1>2. ServerPage(c) \subseteq held
  BY DEF ServerPage, Smallest
<1>3. CASE rest = {}
  <2>1. ServerCursor(c) = 0
    BY <1>3 DEF ServerCursor
  <2> QED
    BY <1>2, <1>3, <2>1
<1>4. CASE rest # {}
  <2>1. ServerCursor(c) = Min(rest)
    BY <1>4 DEF ServerCursor
  <2>2. rest \in SUBSET Nat
    BY <1>1
  <2>3. Min(rest) \in rest /\ \A i \in rest : Min(rest) <= i
    BY <1>4, <2>2, MinIsLeast
  <2> QED
    BY <1>1, <1>2, <2>1, <2>3
<1> QED
  BY <1>3, <1>4

-----------------------------------------------------------------------------
(* A step of one user, seen by another. *)

SameFor(v) ==
  /\ op'[v] = op[v] /\ mem'[v] = mem[v] /\ lockcache'[v] = lockcache[v] /\ listing'[v] = listing[v]
  /\ writable'[v] = writable[v] /\ verifyState'[v] = verifyState[v] /\ foreign'[v] = foreign[v]

\* Locks of others are made; a lock that ends is another's, or is known as broken.
AroundFor(v) ==
  /\ \A i \in DOMAIN lockOf : i \in DOMAIN lockOf' /\ lockOf'[i] = lockOf[i]
  /\ \A i \in held' : i \in held \/ (i \notin DOMAIN lockOf /\ lockOf'[i].owner # v)
  /\ \A i \in held : i \in held' \/ lockOf[i].owner # v \/ i \in broken'
  /\ stable'[v] \subseteq stable[v] /\ \A i \in stable[v] : i \in held' => i \in stable'[v]
  /\ unsaved \subseteq unsaved' /\ broken \subseteq broken'

\* What others do to the locks keeps the invariant of a user who does nothing.
LEMMA BystanderKeeps ==
  ASSUME LockingTypes, Locks, NEW v \in Users, UserInv(v), SameFor(v), AroundFor(v)
  PROVE  UserInv(v)'
<1> DEFINE o == op[v]
<1>t. /\ o \in Command /\ held \subseteq DOMAIN lockOf /\ broken \subseteq DOMAIN lockOf
      /\ mem[v] \in Cache /\ lockcache[v] \in Cache /\ lockOf \in [DOMAIN lockOf -> Lock]
      /\ stable[v] \subseteq held
  BY DEF LockingTypes, ServerTypes, CommandTypes, CloneTypes, Locks
<1>s. op'[v] = o /\ op[v] = o /\ mem'[v] = mem[v] /\ lockcache'[v] = lockcache[v] /\ listing'[v] = listing[v]
      /\ writable'[v] = writable[v] /\ verifyState'[v] = verifyState[v] /\ foreign'[v] = foreign[v]
  BY DEF SameFor
<1> HIDE DEF o
<1>1. Shape(v)'
  BY <1>t, <1>s DEF AroundFor, UserInv, Shape
<1>2. Complete(v)'
  BY <1>t, <1>s DEF AroundFor, UserInv, Complete
<1>3. Verified(v)'
  BY <1>t, <1>s DEF AroundFor, UserInv, Verified, Shape
<1>o. \A i \in Owned(v)' : i \in Owned(v) /\ lockOf'[i] = lockOf[i] /\ i \in held
  BY <1>t DEF AroundFor, Owned
<1>4. OwnInDb(v)'
  BY <1>t, <1>s, <1>o DEF AroundFor, UserInv, OwnInDb
<1>5. OwnInMem(v)'
  BY <1>t, <1>s, <1>o DEF AroundFor, UserInv, OwnInMem, Shape, Owned
<1>6. Flags(v)'
  <2>1. Entries(lockcache[v])' /\ Entries(mem[v])'
    BY <1>t, <1>s DEF AroundFor, UserInv, Flags, Entries
  <2>m. \A i \in DOMAIN lockOf : Mine(v, i) => Mine(v, i)'
    BY <1>t DEF AroundFor, Mine
  <2>g. \A i \in DOMAIN lockOf : GivenUp(v, i) => GivenUp(v, i)'
    BY <1>t, <1>s DEF AroundFor, GivenUp
  <2>e. \A p \in Paths : Excused(v, p) => Excused(v, p)'
    <3> SUFFICES ASSUME NEW p \in Paths, Excused(v, p), p \notin foreign[v] PROVE Excused(v, p)'
      BY <1>s DEF Excused
    <3>1. PICK i \in held \cup broken : lockOf[i].path = p /\ lockOf[i].owner = v
      BY DEF Excused
    <3>2. i \in held' \cup broken' /\ lockOf'[i] = lockOf[i]
      BY <1>t, <3>1 DEF AroundFor
    <3> QED
      BY <3>1, <3>2 DEF Excused
  <2>d. \A p \in Paths : lockcache[v].path[p] # 0 => lockcache[v].path[p] \in DOMAIN lockOf
    BY DEF UserInv, Flags, Entries
  <2>n. \A p \in Paths : mem[v].path[p] # 0 => mem[v].path[p] \in DOMAIN lockOf
    BY DEF UserInv, Flags, Entries
  <2>2. \A p \in Paths : lockcache'[v].path[p] # 0 =>
          \/ p \in foreign'[v]
          \/ Mine(v, lockcache[v].path[p])'
          \/ /\ o.kind = "unlock" /\ lockOf'[lockcache[v].path[p]].owner = v
             /\ lockcache[v].path[p] \in o.made \/ GivenUp(v, lockcache[v].path[p])'
    BY <1>s, <2>m, <2>g, <2>d DEF UserInv, Flags, AroundFor
  <2>3. \A p \in Paths : mem'[v].path[p] # 0 =>
          \/ p \in foreign'[v]
          \/ Mine(v, mem[v].path[p])'
          \/ GivenUp(v, mem[v].path[p])'
          \/ (o.kind \in {"verify", "push"} /\ mem[v].path[p] \in o.theirs)
    BY <1>s, <2>m, <2>g, <2>n DEF UserInv, Flags
  <2>4. \A p \in LockableIn(writable'[v]) :
          Excused(v, p)' \/ (o.phase = "unlocked" /\ lockOf'[o.id].path = p /\ lockOf'[o.id].owner = v)
    <3>1. \A p \in LockableIn(writable'[v]) : p \in Paths
      BY LockingAssumption DEF LockableIn
    <3>2. o.phase = "unlocked" => lockOf'[o.id] = lockOf[o.id]
      BY <1>s DEF UserInv, Shape, AroundFor
    <3> QED
      BY <1>s, <2>e, <3>1, <3>2 DEF UserInv, Flags
  <2>5. op'[v].phase = "locked" => Mine(v, op[v].id)'
    BY <1>s, <2>m DEF UserInv, Shape, Flags
  <2> QED
    BY <1>s, <2>1, <2>2, <2>3, <2>4, <2>5 DEF Flags
<1> QED
  BY <1>1, <1>2, <1>3, <1>4, <1>5, <1>6 DEF UserInv

\* A step keeps the invariant if it keeps the types and the locks, the invariant of the user
\* who takes it, and leaves the others alone.
LEMMA StepKeeps ==
  ASSUME IInv, NEW u \in Users, LockingTypes', Locks', UserInv(u)',
         \A v \in Users \ {u} : SameFor(v) /\ AroundFor(v)
  PROVE  IInv'
<1>1. \A v \in Users \ {u} : UserInv(v)'
  BY BystanderKeeps DEF IInv
<1> QED
  BY <1>1 DEF IInv

-----------------------------------------------------------------------------
(* The work tree and the ends of commands. *)

\* A user who changes neither the locks nor the history leaves every other user alone.
LEMMA QuietAround ==
  ASSUME IInv, UNCHANGED serverVars, unsaved \subseteq unsaved', broken \subseteq broken',
         NEW v \in Users, stable'[v] = stable[v]
  PROVE  AroundFor(v)
BY DEF AroundFor, serverVars, IInv, Locks, LockingTypes, CommandTypes

\* The work tree's steps touch the write flags only, and give one to a lockable path only
\* when the cache has a lock for it.
LEMMA WorkTreeKeeps ==
  ASSUME IInv, NEW u \in Users, NEW w \in SUBSET Paths,
         writable' = [writable EXCEPT ![u] = w],
         dirty' \in [Users -> SUBSET Paths], changed' \in [Users -> SUBSET Versions],
         commands' \in [Users -> Nat],
         \A p \in LockableIn(w) : p \in writable[u] \/ (Idle(u) /\ lockcache[u].path[p] # 0),
         UNCHANGED <<serverVars, lockcache, listing, verifyState, op, mem, stable, historyVars>>
  PROVE  IInv'
<1> USE DEF serverVars, historyVars
<1>1. LockingTypes'
  <2>1. writable' \in [Users -> SUBSET Paths]
    BY DEF IInv, LockingTypes, CloneTypes
  <2> QED
    BY <2>1 DEF IInv, LockingTypes, ServerTypes, CloneTypes, CommandTypes, HistoryTypes
<1>2. Locks'
  BY DEF IInv, Locks
<1>3. \A v \in Users \ {u} : SameFor(v) /\ AroundFor(v)
  BY QuietAround DEF SameFor, IInv, LockingTypes, CloneTypes
<1>w. writable'[u] = w
  BY DEF IInv, LockingTypes, CloneTypes
<1>4. Shape(u)' /\ Complete(u)' /\ Verified(u)' /\ OwnInDb(u)' /\ OwnInMem(u)'
  BY DEF IInv, UserInv, Shape, Complete, Verified, OwnInDb, OwnInMem, Owned
<1>5. Flags(u)'
  <2>1. Entries(lockcache[u])' /\ Entries(mem[u])'
    BY DEF IInv, UserInv, Flags, Entries
  <2>2. \A p \in LockableIn(w) :
          Excused(u, p) \/ (op[u].phase = "unlocked" /\ lockOf[op[u].id].path = p
                            /\ lockOf[op[u].id].owner = u)
    <3> SUFFICES ASSUME NEW p \in LockableIn(w), p \notin writable[u] PROVE Excused(u, p)
      BY DEF IInv, UserInv, Flags, LockableIn
    <3>1. op[u].kind = "idle" /\ op[u].phase = "next" /\ lockcache[u].path[p] # 0 /\ p \in Paths
      BY DEF Idle, IInv, UserInv, Shape, LockableIn
    <3>2. p \in foreign[u] \/ Mine(u, lockcache[u].path[p])
      BY <3>1 DEF IInv, UserInv, Flags
    <3>3. lockOf[lockcache[u].path[p]].path = p
      BY <3>1 DEF IInv, UserInv, Flags, Entries
    <3> QED
      BY <3>2, <3>3 DEF Mine, Excused
  <2> QED
    BY <1>w, <2>1, <2>2 DEF IInv, UserInv, Flags, Excused, Mine, GivenUp
<1> QED
  BY <1>1, <1>2, <1>3, <1>4, <1>5, StepKeeps DEF UserInv

\* A command may end, and leave the cache c behind, if c has every lock of its user but the
\* unsaved ones, and every entry of c is excused.
LEMMA EndKeeps ==
  ASSUME IInv, NEW u \in Users, NEW c \in Cache, NEW f \in SUBSET Paths,
         op' = [op EXCEPT ![u] = NoOp], mem' = [mem EXCEPT ![u] = NoCache],
         lockcache' = [lockcache EXCEPT ![u] = c], op[u].phase # "unlocked",
         unsaved \subseteq unsaved', unsaved' \in SUBSET Nat,
         broken \subseteq broken', broken' \subseteq DOMAIN lockOf,
         foreign' = [foreign EXCEPT ![u] = f], foreign[u] \subseteq f,
         Entries(c),
         \A i \in Owned(u) : i \in unsaved' \/ c.path[lockOf[i].path] = i,
         \A p \in Paths : c.path[p] # 0 =>
           p \in f \/ (lockOf[c.path[p]].owner = u /\ c.path[p] \in held \cup broken'),
         UNCHANGED <<serverVars, listing, writable, dirty, changed, verifyState, commands, stable>>
  PROVE  IInv'
<1> USE DEF serverVars
<1>n. NoOp \in Command /\ NoCache \in Cache
  BY DEF NoOp, NoCache, Command, Cache, Kinds, Phases, VerifyStates
<1>1. LockingTypes'
  <2>1. op' \in [Users -> Command] /\ mem' \in [Users -> Cache] /\ lockcache' \in [Users -> Cache]
    BY <1>n DEF IInv, LockingTypes, CloneTypes, CommandTypes
  <2>2. foreign' \in [Users -> SUBSET Paths]
    BY DEF IInv, LockingTypes, HistoryTypes
  <2>3. broken' \in SUBSET Nat
    BY DEF IInv, LockingTypes, ServerTypes
  <2> QED
    BY <2>1, <2>2, <2>3 DEF IInv, LockingTypes, ServerTypes, CloneTypes, CommandTypes, HistoryTypes
<1>2. Locks'
  BY DEF IInv, Locks
<1>3. \A v \in Users \ {u} : SameFor(v) /\ AroundFor(v)
  BY QuietAround DEF SameFor, IInv, LockingTypes, CloneTypes, CommandTypes, HistoryTypes
<1>o. /\ op'[u] = NoOp /\ mem'[u] = NoCache /\ lockcache'[u] = c /\ foreign'[u] = f
      /\ NoOp.kind = "idle" /\ NoOp.phase = "next"
      /\ NoOp.made = {} /\ NoOp.ours = {} /\ NoOp.theirs = {}
  BY DEF IInv, LockingTypes, CloneTypes, CommandTypes, HistoryTypes, NoOp
<1>4. Shape(u)' /\ Complete(u)' /\ Verified(u)'
  BY <1>o DEF Shape, Complete, Verified
<1>5. OwnInDb(u)' /\ OwnInMem(u)'
  BY <1>o DEF OwnInDb, OwnInMem, Owned
<1>6. Flags(u)'
  <2>1. Entries(lockcache[u])'
    BY <1>o DEF Entries
  <2>2. \A p \in Paths : NoCache.path[p] = 0
    BY DEF NoCache
  <2>3. Entries(mem[u])'
    BY <1>o, <2>2 DEF Entries
  <2>4. \A p \in LockableIn(writable[u]) : Excused(u, p)'
    BY <1>o DEF IInv, UserInv, Flags, Excused
  <2> QED
    BY <1>o, <2>1, <2>2, <2>3, <2>4 DEF Flags, Mine
<1> QED
  BY <1>1, <1>2, <1>3, <1>4, <1>5, <1>6, StepKeeps DEF UserInv

\* An argument of lock or unlock may fail, if a lock whose request was under way is noted as
\* unsaved or broken.
LEMMA FailKeeps ==
  ASSUME IInv, NEW u \in Users, NEW a \in SUBSET Paths, op[u].kind \in {"lock", "unlock"},
         Failed(u, [op[u] EXCEPT !.args = a]),
         op[u].phase = "locked" => op[u].id \in unsaved',
         op[u].phase = "unlocked" => op[u].id \in broken',
         unsaved \subseteq unsaved', unsaved' \in SUBSET Nat,
         broken \subseteq broken', broken' \subseteq DOMAIN lockOf,
         UNCHANGED <<serverVars, cloneVars, mem, commands, stable, foreign>>
  PROVE  IInv'
<1> USE DEF serverVars, cloneVars
<1> DEFINE o == [op[u] EXCEPT !.args = a, !.phase = "next", !.id = 0, !.ok = FALSE]
<1>t. op[u] \in Command
  BY DEF IInv, LockingTypes, CommandTypes
<1>n. o \in Command
  BY <1>t DEF Command, Phases
<1>p. op' = [op EXCEPT ![u] = o]
  BY <1>t DEF Failed, Command
<1>f. /\ o.kind = op[u].kind /\ o.phase = "next" /\ o.made = op[u].made
      /\ o.ours = op[u].ours /\ o.theirs = op[u].theirs /\ o.limit = op[u].limit
  BY <1>t DEF Command
<1> HIDE DEF o
<1>1. LockingTypes'
  <2>1. op' \in [Users -> Command]
    BY <1>n, <1>p DEF IInv, LockingTypes, CommandTypes
  <2>3. broken' \in SUBSET Nat
    BY DEF IInv, LockingTypes, ServerTypes
  <2> QED
    BY <2>1, <2>3 DEF IInv, LockingTypes, ServerTypes, CloneTypes, CommandTypes, HistoryTypes
<1>2. Locks'
  BY DEF IInv, Locks
<1>3. \A v \in Users \ {u} : SameFor(v) /\ AroundFor(v)
  BY <1>p, QuietAround DEF SameFor, IInv, LockingTypes, CloneTypes, CommandTypes, HistoryTypes
<1>o. op'[u] = o
  BY <1>p DEF IInv, LockingTypes, CommandTypes
<1>4. Shape(u)' /\ Complete(u)' /\ Verified(u)'
  BY <1>o, <1>f DEF Shape, Complete, Verified, IInv, UserInv
<1>5. OwnInDb(u)' /\ OwnInMem(u)'
  BY <1>o, <1>f DEF OwnInDb, OwnInMem, Owned, IInv, UserInv
<1>6. Flags(u)'
  <2>1. Entries(lockcache[u])' /\ Entries(mem[u])'
    BY DEF Entries, IInv, UserInv, Flags
  <2>2. \A i \in DOMAIN lockOf : Mine(u, i) \/ GivenUp(u, i) => Mine(u, i)'
    BY DEF Mine, GivenUp
  <2>3. \A p \in LockableIn(writable[u]) : Excused(u, p)'
    <3> SUFFICES ASSUME NEW p \in LockableIn(writable[u]) PROVE Excused(u, p)'
      OBVIOUS
    <3>1. CASE Excused(u, p)
      BY <3>1 DEF Excused
    <3>2. CASE op[u].phase = "unlocked" /\ lockOf[op[u].id].path = p /\ lockOf[op[u].id].owner = u
      BY <3>2 DEF Excused
    <3> QED
      BY <3>1, <3>2 DEF IInv, UserInv, Flags
  <2>d. \A p \in Paths : lockcache[u].path[p] # 0 => lockcache[u].path[p] \in DOMAIN lockOf
    BY DEF IInv, UserInv, Flags, Entries
  <2>m. \A p \in Paths : mem[u].path[p] # 0 => mem[u].path[p] \in DOMAIN lockOf
    BY DEF IInv, UserInv, Flags, Entries
  <2>4. \A p \in Paths : lockcache[u].path[p] # 0 =>
          p \in foreign[u] \/ Mine(u, lockcache[u].path[p])'
          \/ (o.kind = "unlock" /\ lockOf[lockcache[u].path[p]].owner = u /\ lockcache[u].path[p] \in o.made)
    BY <1>f, <2>2, <2>d DEF IInv, UserInv, Flags
  <2>5. \A p \in Paths : mem[u].path[p] # 0 =>
          p \in foreign[u] \/ Mine(u, mem[u].path[p])'
    BY <1>f, <2>2, <2>m DEF IInv, UserInv, Flags
  <2> QED
    BY <1>o, <1>f, <2>1, <2>3, <2>4, <2>5 DEF Flags
<1> QED
  BY <1>1, <1>2, <1>3, <1>4, <1>5, <1>6, StepKeeps DEF UserInv

\* The hooks and edits of a user.
LEMMA WorkTreeStep ==
  ASSUME IInv, NEW u \in Users,
         \/ \E p \in Paths : Edit(u, p)
         \/ \E ps \in SUBSET Paths, d \in BOOLEAN : PostCheckout(u, ps, d)
         \/ \E c \in [Paths -> Contents] : PostCommit(u, c)
         \/ \E ps \in SUBSET Paths : PostMerge(u, ps)
  PROVE  IInv'
<1>t. /\ writable \in [Users -> SUBSET Paths] /\ dirty \in [Users -> SUBSET Paths]
      /\ changed \in [Users -> SUBSET Versions] /\ commands \in [Users -> Nat]
  BY DEF IInv, LockingTypes, CloneTypes, CommandTypes
<1>1. ASSUME NEW p \in Paths, Edit(u, p) PROVE IInv'
  <2>1. commands' \in [Users -> Nat] /\ dirty' \in [Users -> SUBSET Paths]
    BY <1>1, <1>t DEF Edit, Counted
  <2>2. writable' = [writable EXCEPT ![u] = writable[u]]
    BY <1>1, <1>t DEF Edit
  <2>3. writable[u] \in SUBSET Paths /\ changed' \in [Users -> SUBSET Versions]
        /\ \A q \in LockableIn(writable[u]) : q \in writable[u]
    BY <1>1, <1>t DEF Edit, LockableIn
  <2> QED
    BY <1>1, <2>1, <2>2, <2>3, WorkTreeKeeps DEF Edit
<1>2. ASSUME NEW ps \in SUBSET Paths, NEW fl \in SUBSET Paths, Idle(u)
      PROVE  /\ FixSingleFileWriteFlags(u, ps, fl) \in SUBSET Paths
             /\ fl \subseteq writable[u] \cup ps =>
                  \A p \in LockableIn(FixSingleFileWriteFlags(u, ps, fl)) :
                    p \in writable[u] \/ (Idle(u) /\ lockcache[u].path[p] # 0)
  BY <1>2, LockingAssumption
  DEF FixSingleFileWriteFlags, LockableIn, IsFileLockedByCurrentCommitter
<1>3. ASSUME NEW ps \in SUBSET Paths, NEW d \in BOOLEAN, PostCheckout(u, ps, d) PROVE IInv'
  <2> DEFINE all == IF d THEN Paths ELSE ps
             w == FixSingleFileWriteFlags(u, all, writable[u] \cup ps)
  <2>1. commands' \in [Users -> Nat] /\ Idle(u)
    BY <1>3, <1>t DEF PostCheckout, Hook, Counted
  <2>2. writable' = [writable EXCEPT ![u] = w]
    BY <1>3, <1>t DEF PostCheckout, FixAllLockableFileWriteFlags
  <2>3. all \in SUBSET Paths /\ ps \subseteq all /\ writable[u] \cup ps \in SUBSET Paths
    BY <1>t
  <2>4. w \in SUBSET Paths /\ \A p \in LockableIn(w) : p \in writable[u] \/ (Idle(u) /\ lockcache[u].path[p] # 0)
    BY <1>2, <2>1, <2>3
  <2> HIDE DEF w
  <2> QED
    BY <1>3, <1>t, <2>1, <2>2, <2>4, WorkTreeKeeps DEF PostCheckout
<1>4. ASSUME NEW c \in [Paths -> Contents], PostCommit(u, c) PROVE IInv'
  <2> DEFINE w == FixSingleFileWriteFlags(u, dirty[u], writable[u])
  <2>1. /\ commands' \in [Users -> Nat] /\ Idle(u)
        /\ dirty' \in [Users -> SUBSET Paths] /\ changed' \in [Users -> SUBSET Versions]
    <3>1. {[path |-> p, content |-> c[p]] : p \in dirty[u]} \in SUBSET Versions
      BY <1>t DEF Versions
    <3> QED
      BY <1>4, <1>t, <3>1 DEF PostCommit, Hook, Counted
  <2>2. writable' = [writable EXCEPT ![u] = w]
    BY <1>4, <1>t DEF PostCommit
  <2>4. w \in SUBSET Paths /\ \A p \in LockableIn(w) : p \in writable[u] \/ (Idle(u) /\ lockcache[u].path[p] # 0)
    BY <1>2, <1>t, <2>1
  <2> HIDE DEF w
  <2> QED
    BY <1>4, <2>1, <2>2, <2>4, WorkTreeKeeps DEF PostCommit
<1>5. ASSUME NEW ps \in SUBSET Paths, PostMerge(u, ps) PROVE IInv'
  <2> DEFINE w == FixSingleFileWriteFlags(u, Paths, writable[u] \cup ps)
  <2>1. commands' \in [Users -> Nat] /\ Idle(u)
    BY <1>5, <1>t DEF PostMerge, Hook, Counted
  <2>2. writable' = [writable EXCEPT ![u] = w]
    BY <1>5, <1>t DEF PostMerge, FixAllLockableFileWriteFlags
  <2>4. w \in SUBSET Paths /\ \A p \in LockableIn(w) : p \in writable[u] \/ (Idle(u) /\ lockcache[u].path[p] # 0)
    BY <1>2, <1>t, <2>1
  <2> HIDE DEF w
  <2> QED
    BY <1>5, <1>t, <2>1, <2>2, <2>4, WorkTreeKeeps DEF PostMerge
<1> QED
  BY <1>1, <1>3, <1>4, <1>5

\* The ends of lock, unlock and push, and of the lists.
LEMMA EndStep ==
  ASSUME IInv, NEW u \in Users,
         \/ EndLockCommand(u)
         \/ \E j \in BOOLEAN : ListFails(u, j)
         \/ EndList(u)
         \/ VerifyFails(u) /\ op[u].verify = "enabled"
         \/ PushRefused(u)
         \/ PushDone(u)
  PROVE  IInv'
<1>t. /\ op[u] \in Command /\ mem[u] \in Cache /\ lockcache[u] \in Cache
      /\ lockcache \in [Users -> Cache] /\ foreign \in [Users -> SUBSET Paths]
      /\ unsaved \in SUBSET Nat /\ held \subseteq DOMAIN lockOf /\ DOMAIN lockOf \subseteq Nat
      /\ broken \subseteq DOMAIN lockOf /\ lockOf \in [DOMAIN lockOf -> Lock]
  BY DEF IInv, LockingTypes, ServerTypes, CloneTypes, CommandTypes, HistoryTypes, Locks
<1>i. Shape(u) /\ Complete(u) /\ OwnInDb(u) /\ OwnInMem(u) /\ Flags(u)
  BY DEF IInv, UserInv
<1>e. Entries(lockcache[u]) /\ Entries(mem[u])
  BY <1>i DEF Flags
<1>d. lockcache = [lockcache EXCEPT ![u] = lockcache[u]] /\ foreign = [foreign EXCEPT ![u] = foreign[u]]
  BY <1>t
\* The cache on disk stays, for a command that made and gave up no lock.
<1>q. op[u].kind \in {"locks", "verify", "push"} =>
        /\ op[u].phase # "unlocked"
        /\ \A i \in Owned(u) : i \in unsaved \/ lockcache[u].path[lockOf[i].path] = i
        /\ \A p \in Paths : lockcache[u].path[p] # 0 =>
             p \in foreign[u] \/ (lockOf[lockcache[u].path[p]].owner = u /\ lockcache[u].path[p] \in held \cup broken)
  BY <1>i DEF Shape, OwnInDb, Flags, Mine
<1>x. ASSUME ExitProcess(u), op[u].kind \in {"locks", "verify", "push"},
             UNCHANGED <<serverVars, listing, writable, dirty, changed, verifyState, commands,
                         stable, historyVars>>
      PROVE  IInv'
  <2>1. op' = [op EXCEPT ![u] = NoOp] /\ mem' = [mem EXCEPT ![u] = NoCache]
        /\ lockcache' = [lockcache EXCEPT ![u] = lockcache[u]] /\ foreign' = [foreign EXCEPT ![u] = foreign[u]]
        /\ unsaved' = unsaved /\ broken' = broken
    BY <1>x, <1>d DEF ExitProcess, historyVars
  <2>2. lockcache[u] \in Cache /\ foreign[u] \in SUBSET Paths
    BY <1>t
  <2>3. /\ \A i \in Owned(u) : i \in unsaved' \/ lockcache[u].path[lockOf[i].path] = i
        /\ \A p \in Paths : lockcache[u].path[p] # 0 =>
             p \in foreign[u] \/ (lockOf[lockcache[u].path[p]].owner = u /\ lockcache[u].path[p] \in held \cup broken')
        /\ unsaved \subseteq unsaved' /\ unsaved' \in SUBSET Nat
        /\ broken \subseteq broken' /\ broken' \subseteq DOMAIN lockOf /\ op[u].phase # "unlocked"
    BY <1>x, <1>q, <1>t, <2>1
  <2> QED
    BY <1>x, <1>e, <2>1, <2>2, <2>3, EndKeeps
<1>1. ASSUME EndLockCommand(u) PROVE IInv'
  <2>p. op[u].kind \in {"lock", "unlock"} /\ op[u].phase = "next"
    BY <1>1 DEF EndLockCommand
  <2>1. CASE op[u].ok
    <3>1. op' = [op EXCEPT ![u] = NoOp] /\ mem' = [mem EXCEPT ![u] = NoCache]
          /\ lockcache' = [lockcache EXCEPT ![u] = mem[u]] /\ foreign' = [foreign EXCEPT ![u] = foreign[u]]
          /\ unsaved' = unsaved /\ broken' = broken
      BY <1>1, <2>1, <1>d DEF EndLockCommand, CloseClient, historyVars
    <3>2. \A i \in Owned(u) : i \in unsaved \/ mem[u].path[lockOf[i].path] = i
      BY <1>i, <2>p DEF OwnInMem
    <3>3. \A p \in Paths : mem[u].path[p] # 0 =>
             p \in foreign[u] \/ (lockOf[mem[u].path[p]].owner = u /\ mem[u].path[p] \in held \cup broken)
      BY <1>i, <2>p DEF Flags, Mine, GivenUp
    <3>4. mem[u] \in Cache /\ foreign[u] \in SUBSET Paths
      BY <1>t
    <3>5. /\ \A i \in Owned(u) : i \in unsaved' \/ mem[u].path[lockOf[i].path] = i
          /\ \A p \in Paths : mem[u].path[p] # 0 =>
               p \in foreign[u] \/ (lockOf[mem[u].path[p]].owner = u /\ mem[u].path[p] \in held \cup broken')
          /\ unsaved \subseteq unsaved' /\ unsaved' \in SUBSET Nat
          /\ broken \subseteq broken' /\ broken' \subseteq DOMAIN lockOf /\ op[u].phase # "unlocked"
      BY <1>t, <2>p, <3>1, <3>2, <3>3
    <3> QED
      BY <1>1, <1>e, <3>1, <3>4, <3>5, EndKeeps DEF EndLockCommand
  <2>2. CASE ~op[u].ok
    <3>1. op' = [op EXCEPT ![u] = NoOp] /\ mem' = [mem EXCEPT ![u] = NoCache]
          /\ lockcache' = [lockcache EXCEPT ![u] = lockcache[u]] /\ foreign' = [foreign EXCEPT ![u] = foreign[u]]
          /\ unsaved' = unsaved \cup (op[u].made \cap held)
          /\ broken' = broken \cup (op[u].made \ held)
      BY <1>1, <2>2, <1>d DEF EndLockCommand, ExitProcess
    <3>m. op[u].made \subseteq DOMAIN lockOf
      BY <1>i DEF Shape
    <3>5. unsaved' \in SUBSET Nat /\ broken' \subseteq DOMAIN lockOf
      BY <1>t, <3>1, <3>m
    <3>2. \A i \in Owned(u) : i \in unsaved' \/ lockcache[u].path[lockOf[i].path] = i
      BY <1>i, <2>p, <3>1 DEF OwnInDb, Owned
    <3>3. \A p \in Paths : lockcache[u].path[p] # 0 =>
             p \in foreign[u] \/ (lockOf[lockcache[u].path[p]].owner = u /\ lockcache[u].path[p] \in held \cup broken')
      BY <1>i, <2>p, <3>1 DEF Flags, Mine, GivenUp
    <3>4. lockcache[u] \in Cache /\ foreign[u] \in SUBSET Paths
      BY <1>t
    <3> QED
      BY <1>1, <1>e, <1>t, <2>p, <3>1, <3>2, <3>3, <3>4, <3>5, EndKeeps DEF EndLockCommand
  <2> QED
    BY <2>1, <2>2
\* A list that was cut short, or not, is saved with what it has; what it lacks is noted.
<1>s. ASSUME op[u].kind \in {"locks", "verify"},
             CloseClient(u), UNCHANGED broken,
             \/ op[u].kind = "locks" /\ UNCHANGED <<unsaved, foreign>>
             \/ /\ op[u].kind = "verify"
                /\ foreign' = [foreign EXCEPT ![u] = @ \cup {lockOf[i].path : i \in op[u].theirs}]
                /\ unsaved \subseteq unsaved' /\ unsaved' \in SUBSET Nat
                /\ \A i \in Owned(u) : i \in unsaved' \/ mem[u].path[lockOf[i].path] = i,
             UNCHANGED <<serverVars, listing, writable, dirty, changed, verifyState, commands, stable>>
      PROVE  IInv'
  <2>1. CASE op[u].kind = "locks"
    <3>1. op' = [op EXCEPT ![u] = NoOp] /\ mem' = [mem EXCEPT ![u] = NoCache]
          /\ lockcache' = [lockcache EXCEPT ![u] = lockcache[u]] /\ foreign' = [foreign EXCEPT ![u] = foreign[u]]
          /\ unsaved' = unsaved /\ broken' = broken
      BY <1>s, <1>i, <1>d, <2>1 DEF CloseClient, OwnInMem
    <3>2. lockcache[u] \in Cache /\ foreign[u] \in SUBSET Paths
      BY <1>t
    <3>3. /\ \A i \in Owned(u) : i \in unsaved' \/ lockcache[u].path[lockOf[i].path] = i
          /\ \A p \in Paths : lockcache[u].path[p] # 0 =>
               p \in foreign[u] \/ (lockOf[lockcache[u].path[p]].owner = u /\ lockcache[u].path[p] \in held \cup broken')
          /\ unsaved \subseteq unsaved' /\ unsaved' \in SUBSET Nat
          /\ broken \subseteq broken' /\ broken' \subseteq DOMAIN lockOf /\ op[u].phase # "unlocked"
      BY <1>s, <1>q, <1>t, <2>1, <3>1
    <3> QED
      BY <1>s, <1>e, <3>1, <3>2, <3>3, EndKeeps
  <2>2. CASE op[u].kind = "verify"
    <3> DEFINE f == foreign[u] \cup {lockOf[i].path : i \in op[u].theirs}
    <3>1. op' = [op EXCEPT ![u] = NoOp] /\ mem' = [mem EXCEPT ![u] = NoCache]
          /\ lockcache' = [lockcache EXCEPT ![u] = mem[u]] /\ foreign' = [foreign EXCEPT ![u] = f]
          /\ unsaved \subseteq unsaved' /\ broken' = broken
      BY <1>s, <1>t, <2>2 DEF CloseClient
    <3>2. mem[u] \in Cache /\ f \in SUBSET Paths /\ foreign[u] \subseteq f
      BY <1>t, <1>i DEF Shape, Lock
    <3>3. \A p \in Paths : mem[u].path[p] # 0 =>
             p \in f \/ (lockOf[mem[u].path[p]].owner = u /\ mem[u].path[p] \in held \cup broken')
      <4> SUFFICES ASSUME NEW p \in Paths, mem[u].path[p] # 0,
                          ~(lockOf[mem[u].path[p]].owner = u /\ mem[u].path[p] \in held \cup broken')
                   PROVE p \in f
        OBVIOUS
      <4>1. p \in foreign[u] \/ mem[u].path[p] \in op[u].theirs
        BY <1>i, <1>s, <2>2 DEF Flags, Mine, GivenUp, Shape
      <4>2. lockOf[mem[u].path[p]].path = p
        BY <1>e DEF Entries
      <4> QED
        BY <4>1, <4>2
    <3>4. op[u].phase # "unlocked"
      BY <1>i, <2>2 DEF Shape
    <3>5. \A i \in Owned(u) : i \in unsaved' \/ mem[u].path[lockOf[i].path] = i
      BY <1>s, <2>2
    <3>6. unsaved' \in SUBSET Nat
      BY <1>s, <2>2
    <3> HIDE DEF f
    <3> QED
      BY <1>s, <1>e, <1>t, <3>1, <3>2, <3>3, <3>4, <3>5, <3>6, EndKeeps
  <2> QED
    BY <1>s, <2>1, <2>2
<1>u. ASSUME SaveTruncated(u), op[u].kind \in {"locks", "verify"},
             UNCHANGED <<serverVars, listing, writable, dirty, changed, verifyState, commands, stable>>
      PROVE  IInv'
  <2>1. op[u].kind = "verify" =>
          /\ unsaved \subseteq unsaved' /\ unsaved' \in SUBSET Nat
          /\ \A i \in Owned(u) : i \in unsaved' \/ mem[u].path[lockOf[i].path] = i
    BY <1>u, <1>t DEF SaveTruncated, Owned
  <2> QED
    BY <1>u, <1>s, <2>1 DEF SaveTruncated
<1>2. ASSUME NEW j \in BOOLEAN, ListFails(u, j) PROVE IInv'
  <2>1. op[u].kind \in {"locks", "verify"}
    BY <1>2, <1>i DEF ListFails, Shape
  <2>2. CASE j = TRUE
    BY <1>2, <1>u, <2>1, <2>2 DEF ListFails
  <2>3. CASE j = FALSE
    BY <1>2, <1>x, <2>1, <2>3 DEF ListFails
  <2> QED
    BY <2>2, <2>3
<1>3. ASSUME EndList(u) PROVE IInv'
  <2>1. op[u].kind \in {"locks", "verify"} /\ op[u].phase = "end"
    BY <1>3, <1>i DEF EndList, Shape
  <2>2. CASE op[u].limit = 0
    <3>1. op[u].kind = "verify" => \A i \in Owned(u) : mem[u].path[lockOf[i].path] = i
      BY <1>i, <2>1, <2>2 DEF Complete, OwnInMem, Owned
    <3> QED
      BY <1>3, <1>s, <1>t, <2>1, <2>2, <3>1 DEF EndList
  <2>3. CASE op[u].limit # 0
    BY <1>3, <1>u, <2>1, <2>3 DEF EndList
  <2> QED
    BY <2>2, <2>3
<1>4. ASSUME VerifyFails(u), op[u].verify = "enabled" PROVE IInv'
  BY <1>4, <1>x DEF VerifyFails
<1>5. ASSUME PushRefused(u) PROVE IInv'
  BY <1>5, <1>x DEF PushRefused, Scanned
<1>6. ASSUME PushDone(u) PROVE IInv'
  BY <1>6, <1>x DEF PushDone
<1> QED
  BY <1>1, <1>2, <1>3, <1>4, <1>5, <1>6

\* An argument of lock or unlock fails.
LEMMA FailStep ==
  ASSUME IInv, NEW u \in Users,
         \/ \E p \in Paths : LockPathFails(u, p)
         \/ \E p \in Paths : LockRequest(u, p) /\ \E j \in held : lockOf[j].path = p
         \/ LockResponseLost(u)
         \/ \E p \in Paths : UnlockFind(u, p)
              /\ (UnlockAbortIfFileModified(u, p) \/ Cardinality({i \in held : lockOf[i].path = p}) # 1)
         \/ UnlockRefused(u)
         \/ UnlockResponseLost(u)
  PROVE  IInv'
<1>t. /\ op[u] \in Command /\ op[u].args \in SUBSET Paths
      /\ unsaved \in SUBSET Nat /\ broken \subseteq DOMAIN lockOf
  BY DEF IInv, LockingTypes, CommandTypes, HistoryTypes, Locks, Command
<1>i. op[u].phase \in {"locked", "unlocked"} => op[u].id \in DOMAIN lockOf /\ op[u].id \in Nat
  BY <1>t DEF IInv, UserInv, Shape, Command
<1>s. op[u] = [op[u] EXCEPT !.args = op[u].args]
  BY <1>t DEF Command
<1>1. ASSUME NEW p \in Paths, LockPathFails(u, p) PROVE IInv'
  <2>1. Failed(u, [op[u] EXCEPT !.args = op[u].args \ {p}]) /\ op[u].args \ {p} \in SUBSET Paths
    BY <1>1, <1>t DEF LockPathFails
  <2> QED
    BY <1>1, <1>t, <2>1, FailKeeps DEF LockPathFails, historyVars
<1>2. ASSUME NEW p \in Paths, LockRequest(u, p), \E j \in held : lockOf[j].path = p PROVE IInv'
  <2>1. Failed(u, [op[u] EXCEPT !.args = op[u].args \ {p}]) /\ op[u].args \ {p} \in SUBSET Paths
    BY <1>2, <1>t DEF LockRequest
  <2> QED
    BY <1>2, <1>t, <2>1, FailKeeps DEF LockRequest, historyVars
<1>3. ASSUME LockResponseLost(u) PROVE IInv'
  <2>1. Failed(u, [op[u] EXCEPT !.args = op[u].args])
    BY <1>3, <1>s DEF LockResponseLost
  <2>2. unsaved' \in SUBSET Nat /\ unsaved \subseteq unsaved' /\ op[u].id \in unsaved'
    BY <1>3, <1>t, <1>i DEF LockResponseLost
  <2> QED
    BY <1>3, <1>t, <2>1, <2>2, FailKeeps DEF LockResponseLost
<1>4. ASSUME NEW p \in Paths, UnlockFind(u, p),
             UnlockAbortIfFileModified(u, p) \/ Cardinality({i \in held : lockOf[i].path = p}) # 1
      PROVE  IInv'
  <2>1. Failed(u, [op[u] EXCEPT !.args = op[u].args \ {p}]) /\ op[u].args \ {p} \in SUBSET Paths
    BY <1>4, <1>t DEF UnlockFind
  <2> QED
    BY <1>4, <1>t, <2>1, FailKeeps DEF UnlockFind, historyVars
<1>5. ASSUME UnlockRefused(u) PROVE IInv'
  <2>1. Failed(u, [op[u] EXCEPT !.args = op[u].args])
    BY <1>5, <1>s DEF UnlockRefused
  <2> QED
    BY <1>5, <1>t, <2>1, FailKeeps DEF UnlockRefused, historyVars
<1>6. ASSUME UnlockResponseLost(u) PROVE IInv'
  <2>1. Failed(u, [op[u] EXCEPT !.args = op[u].args])
    BY <1>6, <1>s DEF UnlockResponseLost
  <2>2. broken' \subseteq DOMAIN lockOf /\ broken \subseteq broken' /\ op[u].id \in broken'
    BY <1>6, <1>t, <1>i DEF UnlockResponseLost
  <2> QED
    BY <1>6, <1>t, <2>1, <2>2, FailKeeps DEF UnlockResponseLost
<1> QED
  BY <1>1, <1>2, <1>3, <1>4, <1>5, <1>6

-----------------------------------------------------------------------------
(* Commands begin. *)

\* How a command may begin: lock and unlock with the cache that is on disk, a list and a push
\* with the locks held now as the ones to be found.
Begins(u, o, m, s) ==
  /\ o.made = {} /\ o.ours = {} /\ o.theirs = {} /\ o.cursor = 0
  /\ o.left = o.versions /\ o.seen = {}
  /\ \/ /\ o.kind \in {"lock", "unlock"} /\ m = lockcache[u]
        /\ o.phase \in {"next", "found"}
        /\ o.phase = "found" => o.kind = "unlock" /\ o.id \in DOMAIN lockOf
     \/ /\ o.kind \in {"locks", "verify", "push"} /\ s = held /\ o.phase = "page"
        /\ o.kind = "locks" => m = lockcache[u]
        /\ o.kind = "push" => o.limit = 0
        /\ o.ok
     \/ /\ o.kind = "push" /\ s = held /\ o.phase = "scan" /\ o.limit = 0 /\ o.ok
        /\ o.verify = "disabled"

\* A command that begins like this keeps the invariant.
LEMMA BeginKeeps ==
  ASSUME IInv, NEW u \in Users, Idle(u), NEW o \in Command, NEW m \in {lockcache[u], NoCache},
         NEW s \in {stable[u], held}, Begins(u, o, m, s),
         op' = [op EXCEPT ![u] = o], mem' = [mem EXCEPT ![u] = m],
         stable' = [stable EXCEPT ![u] = s], commands' \in [Users -> Nat],
         UNCHANGED <<serverVars, cloneVars, historyVars>>
  PROVE  IInv'
<1> USE DEF serverVars, cloneVars, historyVars
<1>n. NoCache \in Cache /\ m \in Cache /\ s \in SUBSET Nat
  BY DEF NoCache, Cache, IInv, LockingTypes, CloneTypes, CommandTypes, ServerTypes
<1>1. LockingTypes'
  <2>1. op' \in [Users -> Command] /\ mem' \in [Users -> Cache] /\ stable' \in [Users -> SUBSET Nat]
    BY <1>n DEF IInv, LockingTypes, CommandTypes
  <2> QED
    BY <2>1 DEF IInv, LockingTypes, ServerTypes, CloneTypes, CommandTypes, HistoryTypes
<1>o. op'[u] = o /\ mem'[u] = m /\ stable'[u] = s /\ \A v \in Users \ {u} : stable'[v] = stable[v]
  BY DEF IInv, LockingTypes, CommandTypes
<1>2. Locks'
  BY <1>o DEF IInv, Locks
<1>3. \A v \in Users \ {u} : SameFor(v) /\ AroundFor(v)
  BY <1>o, QuietAround DEF SameFor, IInv, LockingTypes, CommandTypes
<1>i. op[u].kind = "idle" /\ op[u].phase = "next"
  BY DEF Idle, IInv, UserInv, Shape
<1>4. Shape(u)'
  BY <1>o DEF Shape, Begins
<1>5. Complete(u)'
  <2>1. s = held => s \subseteq Nat
    BY <1>n
  <2> QED
    BY <1>o, <2>1 DEF Complete, Begins
<1>6. Verified(u)'
  BY <1>o DEF Verified, Begins, IInv, LockingTypes, CloneTypes, VerifyStates
<1>7. OwnInDb(u)'
  BY <1>o, <1>i DEF OwnInDb, Owned, IInv, UserInv
<1>8. OwnInMem(u)'
  BY <1>o, <1>i DEF OwnInMem, OwnInDb, Owned, Begins, IInv, UserInv
<1>9. Flags(u)'
  <2>z. \A p \in Paths : NoCache.path[p] = 0
    BY DEF NoCache
  <2>1. Entries(lockcache[u])' /\ Entries(m)
    BY <2>z DEF Entries, IInv, UserInv, Flags
  <2>m. Entries(mem[u])'
    BY <1>o, <2>1 DEF Entries
  <2>2. \A p \in Paths : lockcache[u].path[p] # 0 => p \in foreign[u] \/ Mine(u, lockcache[u].path[p])
    BY <1>i DEF IInv, UserInv, Flags
  <2>3. \A p \in Paths : m.path[p] # 0 => p \in foreign[u] \/ Mine(u, m.path[p])
    BY <2>2, <2>z
  <2>4. \A p \in LockableIn(writable[u]) : Excused(u, p)
    BY <1>i DEF IInv, UserInv, Flags
  <2>5. o.phase # "locked"
    BY DEF Begins
  <2> QED
    BY <1>o, <2>1, <2>m, <2>2, <2>3, <2>4, <2>5 DEF Flags, Mine, Excused
<1> QED
  BY <1>1, <1>2, <1>3, <1>4, <1>5, <1>6, <1>7, <1>8, <1>9, StepKeeps DEF UserInv

\* The beginnings of the commands.
LEMMA BeginStep ==
  ASSUME IInv, NEW u \in Users,
         \/ \E ps \in SUBSET Paths : StartLock(u, ps)
         \/ \E ps \in SUBSET Paths, f \in BOOLEAN : StartUnlock(u, ps, f)
         \/ \E i \in DOMAIN lockOf, f \in BOOLEAN : StartUnlockById(u, i, f)
         \/ \E l \in Limits : StartList(u, "verify", l)
         \/ StartList(u, "locks", 0)
         \/ StartPush(u)
  PROVE  IInv'
<1>t. /\ commands \in [Users -> Nat] /\ op \in [Users -> Command] /\ DOMAIN lockOf \subseteq Nat
      /\ stable \in [Users -> SUBSET Nat] /\ changed[u] \in SUBSET Versions /\ verifyState[u] \in VerifyStates
  BY DEF IInv, LockingTypes, ServerTypes, CommandTypes, CloneTypes
<1>c. Counted(u) => commands' \in [Users -> Nat]
  BY <1>t DEF Counted
<1>s. stable = [stable EXCEPT ![u] = stable[u]]
  BY <1>t
<1>1. ASSUME NEW ps \in SUBSET Paths, StartLock(u, ps) PROVE IInv'
  <2> DEFINE o == [NoOp EXCEPT !.kind = "lock", !.args = ps]
  <2>1. o \in Command /\ Begins(u, o, lockcache[u], stable[u])
    BY DEF NoOp, Command, Kinds, Phases, VerifyStates, Begins
  <2>2. op' = [op EXCEPT ![u] = o] /\ mem' = [mem EXCEPT ![u] = lockcache[u]] /\ Idle(u)
        /\ commands' \in [Users -> Nat] /\ UNCHANGED <<serverVars, cloneVars, historyVars>>
        /\ stable' = [stable EXCEPT ![u] = stable[u]]
    BY <1>1, <1>c, <1>s DEF StartLock, Begin
  <2> HIDE DEF o
  <2> QED
    BY <2>1, <2>2, BeginKeeps
<1>2. ASSUME NEW ps \in SUBSET Paths, NEW f \in BOOLEAN, StartUnlock(u, ps, f) PROVE IInv'
  <2> DEFINE o == [NoOp EXCEPT !.kind = "unlock", !.args = ps, !.force = f]
  <2>1. o \in Command /\ Begins(u, o, lockcache[u], stable[u])
    BY DEF NoOp, Command, Kinds, Phases, VerifyStates, Begins
  <2>2. op' = [op EXCEPT ![u] = o] /\ mem' = [mem EXCEPT ![u] = lockcache[u]] /\ Idle(u)
        /\ commands' \in [Users -> Nat] /\ UNCHANGED <<serverVars, cloneVars, historyVars>>
        /\ stable' = [stable EXCEPT ![u] = stable[u]]
    BY <1>2, <1>c, <1>s DEF StartUnlock, Begin
  <2> HIDE DEF o
  <2> QED
    BY <2>1, <2>2, BeginKeeps
<1>3. ASSUME NEW i \in DOMAIN lockOf, NEW f \in BOOLEAN, StartUnlockById(u, i, f) PROVE IInv'
  <2> DEFINE o == [NoOp EXCEPT !.kind = "unlock", !.phase = "found", !.id = i, !.force = f]
  <2>1. o \in Command /\ Begins(u, o, lockcache[u], stable[u])
    BY <1>t DEF NoOp, Command, Kinds, Phases, VerifyStates, Begins
  <2>2. op' = [op EXCEPT ![u] = o] /\ mem' = [mem EXCEPT ![u] = lockcache[u]] /\ Idle(u)
        /\ commands' \in [Users -> Nat] /\ UNCHANGED <<serverVars, cloneVars, historyVars>>
        /\ stable' = [stable EXCEPT ![u] = stable[u]]
    BY <1>3, <1>c, <1>s DEF StartUnlockById, Begin
  <2> HIDE DEF o
  <2> QED
    BY <2>1, <2>2, BeginKeeps
<1>4. ASSUME NEW k \in {"locks", "verify"}, NEW l \in Nat, StartList(u, k, l) PROVE IInv'
  <2> DEFINE o == [NoOp EXCEPT !.kind = k, !.phase = "page", !.limit = l]
             m == IF k = "verify" THEN NoCache ELSE lockcache[u]
  <2>1. o \in Command /\ Begins(u, o, m, held)
    BY DEF NoOp, Command, Kinds, Phases, VerifyStates, Begins
  <2>2. op' = [op EXCEPT ![u] = o] /\ mem' = [mem EXCEPT ![u] = m] /\ Idle(u)
        /\ commands' \in [Users -> Nat] /\ UNCHANGED <<serverVars, cloneVars, historyVars>>
        /\ stable' = [stable EXCEPT ![u] = held] /\ m \in {lockcache[u], NoCache}
    BY <1>4, <1>c DEF StartList, Begin
  <2> HIDE DEF o, m
  <2> QED
    BY <2>1, <2>2, BeginKeeps
<1>5. ASSUME StartPush(u) PROVE IInv'
  <2> DEFINE o == [NoOp EXCEPT !.kind = "push", !.versions = changed[u], !.left = changed[u],
                               !.verify = verifyState[u],
                               !.phase = IF verifyState[u] = "disabled" THEN "scan" ELSE "page"]
  <2>1. o \in Command /\ Begins(u, o, NoCache, held)
    BY <1>t DEF NoOp, Command, Kinds, Phases, VerifyStates, Begins
  <2>2. op' = [op EXCEPT ![u] = o] /\ mem' = [mem EXCEPT ![u] = NoCache] /\ Idle(u)
        /\ commands' \in [Users -> Nat] /\ UNCHANGED <<serverVars, cloneVars, historyVars>>
        /\ stable' = [stable EXCEPT ![u] = held]
    BY <1>5, <1>c DEF StartPush, Begin
  <2> HIDE DEF o
  <2> QED
    BY <2>1, <2>2, BeginKeeps
<1> QED
  BY <1>1, <1>2, <1>3, <1>4, <1>5, LockingAssumption

-----------------------------------------------------------------------------
(* The requests and responses of lock and unlock. *)

\* The server makes a lock, with an ID that no lock has had.
LEMMA NewLock ==
  ASSUME ServerTypes, NEW u \in Users, NEW p \in Paths, NEW i, i = Cardinality(DOMAIN lockOf) + 1,
         lockOf' = [j \in 1..i |-> IF j = i THEN [path |-> p, owner |-> u] ELSE lockOf[j]],
         held' = held \cup {i}
  PROVE  /\ i \in Nat /\ i \notin DOMAIN lockOf /\ DOMAIN lockOf' = DOMAIN lockOf \cup {i}
         /\ lockOf'[i].path = p /\ lockOf'[i].owner = u
         /\ \A j \in DOMAIN lockOf : lockOf'[j] = lockOf[j]
         /\ ServerTypes'
<1>1. PICK n \in Nat : DOMAIN lockOf = 1..n
  BY DEF ServerTypes
<1>2. Cardinality(1..n) = n
  BY FS_Interval
<1>3. i = n + 1 /\ i \in Nat /\ i \notin DOMAIN lockOf /\ 1..i = 1..n \cup {i}
  BY <1>1, <1>2
<1>4. DOMAIN lockOf' = 1..i /\ DOMAIN lockOf' = DOMAIN lockOf \cup {i}
  BY <1>1, <1>3
<1>5. lockOf'[i] = [path |-> p, owner |-> u] /\ \A j \in DOMAIN lockOf : lockOf'[j] = lockOf[j]
  BY <1>1, <1>3
<1>6. lockOf' \in [DOMAIN lockOf' -> Lock]
  BY <1>3, <1>4, <1>5 DEF ServerTypes, Lock
<1>7. ServerTypes'
  BY <1>3, <1>4, <1>6 DEF ServerTypes
<1> QED
  BY <1>3, <1>4, <1>5, <1>7

\* A lock request that the server grants.
LEMMA LockRequestStep ==
  ASSUME IInv, NEW u \in Users, NEW p \in Paths, LockRequest(u, p),
         ~(\E j \in held : lockOf[j].path = p)
  PROVE  IInv'
<1> USE DEF cloneVars, historyVars
<1> DEFINE i == Cardinality(DOMAIN lockOf) + 1
           o == [op[u] EXCEPT !.args = @ \ {p}, !.phase = "locked", !.id = i]
<1>a. /\ lockOf' = [j \in 1..i |-> IF j = i THEN [path |-> p, owner |-> u] ELSE lockOf[j]]
      /\ held' = held \cup {i} /\ op' = [op EXCEPT ![u] = o]
      /\ op[u].kind = "lock" /\ op[u].phase = "next"
      /\ UNCHANGED <<cloneVars, mem, commands, stable, historyVars>>
  BY DEF LockRequest
<1>s. /\ i \in Nat /\ i \notin DOMAIN lockOf /\ DOMAIN lockOf' = DOMAIN lockOf \cup {i}
      /\ lockOf'[i].path = p /\ lockOf'[i].owner = u
      /\ \A j \in DOMAIN lockOf : lockOf'[j] = lockOf[j]
      /\ ServerTypes'
  BY <1>a, NewLock DEF IInv, LockingTypes
<1>t. op[u] \in Command /\ op \in [Users -> Command] /\ held \subseteq DOMAIN lockOf
      /\ broken \subseteq DOMAIN lockOf /\ stable[u] \subseteq held
  BY DEF IInv, LockingTypes, CommandTypes, ServerTypes, Locks
<1> HIDE DEF i
<1>n. o \in Command
  BY <1>s, <1>t DEF Command, Phases
<1>f. /\ o.kind = "lock" /\ o.phase = "locked" /\ o.made = op[u].made /\ o.id = i
      /\ o.ours = op[u].ours /\ o.theirs = op[u].theirs /\ o.limit = op[u].limit
  BY <1>t, <1>a DEF Command
<1> HIDE DEF o
<1>o. op'[u] = o /\ \A v \in Users \ {u} : op'[v] = op[v]
  BY <1>t, <1>a
<1>1. LockingTypes'
  <2>1. op' \in [Users -> Command]
    BY <1>n, <1>t, <1>a
  <2> QED
    BY <1>a, <1>s, <2>1 DEF IInv, LockingTypes, CloneTypes, CommandTypes, HistoryTypes
<1>2. Locks'
  BY <1>a, <1>s, <1>t DEF IInv, Locks
<1>3. \A v \in Users \ {u} : SameFor(v) /\ AroundFor(v)
  BY <1>a, <1>s, <1>t, <1>o DEF SameFor, AroundFor
<1>u. Shape(u) /\ OwnInDb(u) /\ OwnInMem(u) /\ Flags(u)
  BY DEF IInv, UserInv
<1>w. \A j \in Owned(u)' : j = i \/ (j \in Owned(u) /\ j \in held /\ lockOf'[j] = lockOf[j])
  BY <1>a, <1>s, <1>t DEF Owned
<1>4. Shape(u)'
  BY <1>a, <1>s, <1>f, <1>o, <1>u DEF Shape
<1>5. Complete(u)' /\ Verified(u)'
  BY <1>f, <1>o DEF Complete, Verified
<1>7. OwnInDb(u)'
  BY <1>a, <1>f, <1>o, <1>u, <1>w DEF OwnInDb
<1>8. OwnInMem(u)'
  BY <1>a, <1>s, <1>t, <1>f, <1>o, <1>u, <1>w DEF OwnInMem
<1>9. Flags(u)'
  <2>1. Entries(lockcache[u])' /\ Entries(mem[u])'
    BY <1>a, <1>s, <1>u DEF Entries, Flags
  <2>2. \A j \in DOMAIN lockOf : Mine(u, j) => Mine(u, j)'
    BY <1>a, <1>s DEF Mine
  <2>3. \A q \in Paths : lockcache[u].path[q] # 0 =>
          q \in foreign[u] \/ (lockcache[u].path[q] \in DOMAIN lockOf /\ Mine(u, lockcache[u].path[q]))
    BY <1>a, <1>u DEF Flags, Entries
  <2>4. \A q \in Paths : mem[u].path[q] # 0 =>
          q \in foreign[u] \/ (mem[u].path[q] \in DOMAIN lockOf /\ Mine(u, mem[u].path[q]))
    BY <1>a, <1>u DEF Flags, Entries, GivenUp
  <2>5. \A q \in LockableIn(writable[u]) : Excused(u, q)'
    <3> SUFFICES ASSUME NEW q \in LockableIn(writable[u]), q \notin foreign[u] PROVE Excused(u, q)'
      BY <1>a DEF Excused
    <3>1. PICK j \in held \cup broken : lockOf[j].path = q /\ lockOf[j].owner = u
      BY <1>a, <1>u DEF Flags, Excused
    <3>2. j \in held' \cup broken' /\ lockOf'[j] = lockOf[j]
      BY <1>a, <1>s, <1>t
    <3> QED
      BY <3>1, <3>2 DEF Excused
  <2>6. /\ \A q \in Paths : lockcache'[u].path[q] # 0 => q \in foreign'[u] \/ Mine(u, lockcache[u].path[q])'
        /\ \A q \in Paths : mem'[u].path[q] # 0 => q \in foreign'[u] \/ Mine(u, mem[u].path[q])'
    BY <1>a, <2>2, <2>3, <2>4
  <2>7. \A q \in LockableIn(writable'[u]) : Excused(u, q)'
    BY <1>a, <2>5
  <2>8. Mine(u, op[u].id)'
    BY <1>a, <1>s, <1>f, <1>o DEF Mine
  <2> QED
    BY <2>1, <2>6, <2>7, <2>8 DEF Flags
<1> QED
  BY <1>1, <1>2, <1>3, <1>4, <1>5, <1>7, <1>8, <1>9, StepKeeps DEF UserInv

\* The answer to a lock request: the lock is cached and its file is writable.
LEMMA LockResponseStep ==
  ASSUME IInv, NEW u \in Users, LockResponse(u)
  PROVE  IInv'
<1> USE DEF serverVars, historyVars
<1> DEFINE k == op[u].id
           o == [op[u] EXCEPT !.phase = "next", !.id = 0, !.made = @ \cup {k}]
           c == CacheAdd(mem[u], k)
           w == writable[u] \cup {lockOf[k].path}
<1>a. /\ op' = [op EXCEPT ![u] = o] /\ mem' = [mem EXCEPT ![u] = c]
      /\ writable' = [writable EXCEPT ![u] = w]
      /\ op[u].kind = "lock" /\ op[u].phase = "locked"
      /\ UNCHANGED <<serverVars, lockcache, listing, dirty, changed, verifyState, commands, stable, historyVars>>
  BY DEF LockResponse, IInv, LockingTypes, CloneTypes, CommandTypes
<1>u. Shape(u) /\ OwnInDb(u) /\ OwnInMem(u) /\ Flags(u)
  BY DEF IInv, UserInv
<1>t. /\ op \in [Users -> Command] /\ op[u] \in Command /\ held \subseteq DOMAIN lockOf
      /\ mem \in [Users -> Cache] /\ mem[u] \in Cache /\ writable \in [Users -> SUBSET Paths]
      /\ k \in DOMAIN lockOf /\ k \in Nat /\ lockOf[k].path \in Paths /\ Mine(u, k)
      /\ lockOf \in [DOMAIN lockOf -> Lock] /\ DOMAIN lockOf \subseteq Nat \ {0}
  <2>1. /\ op \in [Users -> Command] /\ op[u] \in Command /\ held \subseteq DOMAIN lockOf
        /\ mem \in [Users -> Cache] /\ mem[u] \in Cache /\ writable \in [Users -> SUBSET Paths]
        /\ lockOf \in [DOMAIN lockOf -> Lock] /\ DOMAIN lockOf \subseteq Nat \ {0}
    BY DEF IInv, LockingTypes, CommandTypes, CloneTypes, ServerTypes
  <2>2. k \in DOMAIN lockOf /\ Mine(u, k)
    BY <1>a, <1>u DEF Shape, Flags
  <2> QED
    BY <2>1, <2>2 DEF Lock
<1>n. o \in Command /\ w \in SUBSET Paths
  BY <1>t DEF Command, Phases
<1>c. c \in Cache
  BY <1>t DEF CacheAdd, Cache
<1>e. c.ids = mem[u].ids \cup {k}
      /\ \A q \in Paths : c.path[q] = IF q = lockOf[k].path THEN k ELSE mem[u].path[q]
  BY <1>t DEF CacheAdd, Cache
<1>f. /\ o.kind = "lock" /\ o.phase = "next" /\ o.made = op[u].made \cup {k}
      /\ o.ours = op[u].ours /\ o.theirs = op[u].theirs /\ o.limit = op[u].limit
  BY <1>t, <1>a DEF Command
<1> HIDE DEF o, c
<1>o. op'[u] = o /\ mem'[u] = c /\ writable'[u] = w
      /\ \A v \in Users \ {u} : op'[v] = op[v] /\ mem'[v] = mem[v] /\ writable'[v] = writable[v]
  BY <1>t, <1>a
<1>1. LockingTypes'
  <2>1. op' \in [Users -> Command] /\ mem' \in [Users -> Cache] /\ writable' \in [Users -> SUBSET Paths]
    BY <1>n, <1>c, <1>t, <1>a
  <2> QED
    BY <1>a, <2>1 DEF IInv, LockingTypes, ServerTypes, CloneTypes, CommandTypes, HistoryTypes
<1>2. Locks'
  BY <1>a DEF IInv, Locks
<1>3. \A v \in Users \ {u} : SameFor(v) /\ AroundFor(v)
  BY <1>a, <1>o, QuietAround DEF SameFor
<1>4. Shape(u)'
  BY <1>a, <1>t, <1>f, <1>o, <1>u DEF Shape
<1>5. Complete(u)' /\ Verified(u)'
  BY <1>f, <1>o DEF Complete, Verified
<1>7. OwnInDb(u)'
  BY <1>a, <1>f, <1>o, <1>u DEF OwnInDb, Owned
<1>8. OwnInMem(u)'
  <2>1. \A i \in Owned(u) : i = k \/ lockOf[i].path # lockOf[k].path
    BY <1>a, <1>u DEF OwnInMem
  <2>2. \A i \in Owned(u) : i \in held /\ lockOf[i].path \in Paths
    BY <1>t DEF Owned, Lock
  <2>3. \A i \in Owned(u) : i \in unsaved \/ c.path[lockOf[i].path] = i
    BY <1>a, <1>e, <1>u, <2>1, <2>2 DEF OwnInMem
  <2> QED
    BY <1>a, <1>f, <1>o, <2>3 DEF OwnInMem, Owned
<1>9. Flags(u)'
  <2>1. Entries(lockcache[u])' /\ Entries(mem[u])'
    BY <1>a, <1>e, <1>o, <1>t, <1>u DEF Entries, Flags
  <2>3. \A q \in Paths : lockcache[u].path[q] # 0 => q \in foreign[u] \/ Mine(u, lockcache[u].path[q])
    BY <1>a, <1>u DEF Flags
  <2>4. \A q \in Paths : c.path[q] # 0 => q \in foreign[u] \/ Mine(u, c.path[q])
    BY <1>a, <1>e, <1>t, <1>u DEF Flags, GivenUp
  <2>5. \A q \in LockableIn(w) : Excused(u, q)
    BY <1>a, <1>t, <1>u DEF Flags, Excused, Mine, LockableIn
  <2>6. /\ \A q \in Paths : lockcache'[u].path[q] # 0 => q \in foreign'[u] \/ Mine(u, lockcache[u].path[q])'
        /\ \A q \in Paths : mem'[u].path[q] # 0 => q \in foreign'[u] \/ Mine(u, mem[u].path[q])'
    BY <1>a, <1>o, <2>3, <2>4 DEF Mine
  <2>e. \A q \in Paths : Excused(u, q) => Excused(u, q)'
    BY <1>a DEF Excused
  <2>7. \A q \in LockableIn(writable'[u]) : Excused(u, q)'
    BY <1>n, <1>o, <2>5, <2>e DEF LockableIn
  <2>8. op'[u].phase # "locked"
    BY <1>f, <1>o
  <2> QED
    BY <2>1, <2>6, <2>7, <2>8 DEF Flags
<1> QED
  BY <1>1, <1>2, <1>3, <1>4, <1>5, <1>7, <1>8, <1>9, StepKeeps DEF UserInv

\* unlock has found the ID of a lock.
LEMMA UnlockFindStep ==
  ASSUME IInv, NEW u \in Users, NEW p \in Paths, UnlockFind(u, p),
         ~(UnlockAbortIfFileModified(u, p) \/ Cardinality({i \in held : lockOf[i].path = p}) # 1)
  PROVE  IInv'
<1> USE DEF serverVars, cloneVars, historyVars
<1> DEFINE ids == {i \in held : lockOf[i].path = p}
           k == Min(ids)
           o == [op[u] EXCEPT !.args = @ \ {p}, !.phase = "found", !.id = k]
<1>a. /\ op' = [op EXCEPT ![u] = o] /\ op[u].kind = "unlock" /\ op[u].phase = "next"
      /\ UNCHANGED <<serverVars, cloneVars, mem, commands, stable, historyVars>>
  BY DEF UnlockFind
<1>t. /\ op \in [Users -> Command] /\ op[u] \in Command /\ held \subseteq DOMAIN lockOf
      /\ DOMAIN lockOf \subseteq Nat
  BY DEF IInv, LockingTypes, CommandTypes, ServerTypes
<1>k. k \in held
  <2>1. ids # {}
    BY FS_EmptySet
  <2> QED
    BY <1>t, <2>1, MinIsLeast
<1> HIDE DEF k
<1>n. o \in Command
  BY <1>t, <1>k DEF Command, Phases
<1>f. /\ o.kind = "unlock" /\ o.phase = "found" /\ o.made = op[u].made /\ o.id = k
      /\ o.ours = op[u].ours /\ o.theirs = op[u].theirs /\ o.limit = op[u].limit
  BY <1>t, <1>a DEF Command
<1> HIDE DEF o
<1>o. op'[u] = o /\ \A v \in Users \ {u} : op'[v] = op[v]
  BY <1>t, <1>a
<1>1. LockingTypes'
  <2>1. op' \in [Users -> Command]
    BY <1>n, <1>t, <1>a
  <2> QED
    BY <1>a, <2>1 DEF IInv, LockingTypes, ServerTypes, CloneTypes, CommandTypes, HistoryTypes
<1>2. Locks'
  BY <1>a DEF IInv, Locks
<1>3. \A v \in Users \ {u} : SameFor(v) /\ AroundFor(v)
  BY <1>a, <1>o, QuietAround DEF SameFor
<1>u. Shape(u) /\ OwnInDb(u) /\ OwnInMem(u) /\ Flags(u)
  BY DEF IInv, UserInv
<1>4. Shape(u)'
  BY <1>a, <1>t, <1>k, <1>f, <1>o, <1>u DEF Shape
<1>5. Complete(u)' /\ Verified(u)'
  BY <1>f, <1>o DEF Complete, Verified
<1>7. OwnInDb(u)' /\ OwnInMem(u)'
  BY <1>a, <1>f, <1>o, <1>u DEF OwnInDb, OwnInMem, Owned
<1>9. Flags(u)'
  <2>1. Entries(lockcache[u])' /\ Entries(mem[u])'
    BY <1>a, <1>u DEF Entries, Flags
  <2>2. /\ \A q \in Paths : lockcache'[u].path[q] # 0 =>
             \/ q \in foreign'[u] \/ Mine(u, lockcache[u].path[q])'
             \/ (lockOf'[lockcache'[u].path[q]].owner = u /\ lockcache'[u].path[q] \in op'[u].made)
        /\ \A q \in Paths : mem'[u].path[q] # 0 => q \in foreign'[u] \/ Mine(u, mem[u].path[q])'
    BY <1>a, <1>f, <1>o, <1>u DEF Flags, Mine, GivenUp
  <2>3. \A q \in LockableIn(writable'[u]) : Excused(u, q)'
    BY <1>a, <1>u DEF Flags, Excused
  <2> QED
    BY <1>f, <1>o, <2>1, <2>2, <2>3 DEF Flags
<1> QED
  BY <1>1, <1>2, <1>3, <1>4, <1>5, <1>7, <1>9, StepKeeps DEF UserInv

\* An unlock request that the server grants: the lock ends, and its owner knows of it or it
\* is broken.
LEMMA UnlockRequestStep ==
  ASSUME IInv, NEW u \in Users, UnlockRequest(u)
  PROVE  IInv'
<1> USE DEF cloneVars
<1> DEFINE k == op[u].id
           o == [op[u] EXCEPT !.phase = "unlocked"]
<1>a. /\ op' = [op EXCEPT ![u] = o] /\ op[u].kind = "unlock" /\ op[u].phase = "found" /\ k \in held
      /\ held' = held \ {k} /\ lockOf' = lockOf
      /\ stable' = [v \in Users |-> stable[v] \ {k}]
      /\ broken' = IF lockOf[k].owner = u THEN broken ELSE broken \cup {k}
      /\ UNCHANGED <<cloneVars, mem, commands, unsaved, foreign>>
  BY DEF UnlockRequest, ServerUnlock
<1>t. /\ op \in [Users -> Command] /\ op[u] \in Command /\ held \subseteq DOMAIN lockOf
      /\ DOMAIN lockOf \subseteq Nat /\ stable \in [Users -> SUBSET Nat]
      /\ broken \subseteq DOMAIN lockOf /\ \A v \in Users : stable[v] \subseteq held
      /\ broken \in SUBSET Nat /\ lockOf \in [DOMAIN lockOf -> Lock]
  BY DEF IInv, LockingTypes, CommandTypes, ServerTypes, HistoryTypes, Locks
<1>n. o \in Command
  BY <1>t DEF Command, Phases
<1>f. /\ o.kind = "unlock" /\ o.phase = "unlocked" /\ o.made = op[u].made /\ o.id = k
      /\ o.ours = op[u].ours /\ o.theirs = op[u].theirs /\ o.limit = op[u].limit
  BY <1>t, <1>a DEF Command
<1> HIDE DEF o
<1>o. op'[u] = o /\ \A v \in Users \ {u} : op'[v] = op[v]
  BY <1>t, <1>a
<1>1. LockingTypes'
  <2>1. op' \in [Users -> Command] /\ stable' \in [Users -> SUBSET Nat] /\ broken' \in SUBSET Nat
    BY <1>n, <1>t, <1>a
  <2>2. ServerTypes'
    BY <1>a, <1>t DEF IInv, LockingTypes, ServerTypes
  <2> QED
    BY <1>a, <2>1, <2>2 DEF IInv, LockingTypes, CloneTypes, CommandTypes, HistoryTypes
<1>2. Locks'
  BY <1>a, <1>t DEF IInv, Locks
<1>3. \A v \in Users \ {u} : SameFor(v) /\ AroundFor(v)
  BY <1>a, <1>o, <1>t DEF SameFor, AroundFor
<1>u. Shape(u) /\ OwnInDb(u) /\ OwnInMem(u) /\ Flags(u) /\ Locks
  BY DEF IInv, UserInv
<1>4. Shape(u)'
  BY <1>a, <1>t, <1>f, <1>o, <1>u DEF Shape
<1>5. Complete(u)' /\ Verified(u)'
  BY <1>f, <1>o DEF Complete, Verified
<1>7. OwnInDb(u)'
  BY <1>a, <1>f, <1>o, <1>u DEF OwnInDb, Owned
<1>8. OwnInMem(u)'
  BY <1>a, <1>f, <1>o, <1>u DEF OwnInMem, Owned, Locks
<1>9. Flags(u)'
  <2>1. Entries(lockcache[u])' /\ Entries(mem[u])'
    BY <1>a, <1>u DEF Entries, Flags
  <2>m. \A i \in DOMAIN lockOf : Mine(u, i) => Mine(u, i)' \/ GivenUp(u, i)'
    BY <1>a, <1>f, <1>o DEF Mine, GivenUp
  <2>g. \A i \in DOMAIN lockOf : ~GivenUp(u, i)
    BY <1>a DEF GivenUp
  <2>d. \A q \in Paths : lockcache[u].path[q] # 0 => lockcache[u].path[q] \in DOMAIN lockOf
    BY <1>u DEF Flags, Entries
  <2>n. \A q \in Paths : mem[u].path[q] # 0 => mem[u].path[q] \in DOMAIN lockOf
    BY <1>u DEF Flags, Entries
  <2>2. \A q \in Paths : lockcache'[u].path[q] # 0 =>
          \/ q \in foreign'[u]
          \/ Mine(u, lockcache[u].path[q])'
          \/ /\ op'[u].kind = "unlock" /\ lockOf'[lockcache[u].path[q]].owner = u
             /\ lockcache[u].path[q] \in op'[u].made \/ GivenUp(u, lockcache[u].path[q])'
    <3>1. \A q \in Paths : lockcache[u].path[q] # 0 =>
            \/ q \in foreign[u] \/ Mine(u, lockcache[u].path[q])
            \/ (lockOf[lockcache[u].path[q]].owner = u /\ lockcache[u].path[q] \in op[u].made)
      BY <1>u, <2>d, <2>g DEF Flags
    <3>2. \A i \in DOMAIN lockOf : Mine(u, i) => lockOf[i].owner = u
      BY DEF Mine
    <3> QED
      BY <1>a, <1>f, <1>o, <2>m, <2>d, <3>1, <3>2
  <2>3. \A q \in Paths : mem'[u].path[q] # 0 =>
          q \in foreign'[u] \/ Mine(u, mem[u].path[q])' \/ GivenUp(u, mem[u].path[q])'
    <3>1. \A q \in Paths : mem[u].path[q] # 0 => q \in foreign[u] \/ Mine(u, mem[u].path[q])
      BY <1>a, <1>u, <2>n, <2>g DEF Flags
    <3> QED
      BY <1>a, <2>m, <2>n, <3>1
  <2>4. \A q \in LockableIn(writable'[u]) :
          Excused(u, q)' \/ (op'[u].phase = "unlocked" /\ lockOf'[op'[u].id].path = q
                             /\ lockOf'[op'[u].id].owner = u)
    BY <1>a, <1>f, <1>o, <1>u DEF Flags, Excused
  <2>5. op'[u].phase = "unlocked"
    BY <1>f, <1>o
  <2> QED
    BY <1>a, <2>1, <2>2, <2>3, <2>4, <2>5 DEF Flags
<1> QED
  BY <1>1, <1>2, <1>3, <1>4, <1>5, <1>7, <1>8, <1>9, StepKeeps DEF UserInv

\* The answer to an unlock request: the lock leaves the cache, and its file is read-only if the
\* answer names it.
LEMMA UnlockResponseStep ==
  ASSUME IInv, NEW u \in Users, NEW b \in BOOLEAN, UnlockResponse(u, b)
  PROVE  IInv'
<1> USE DEF serverVars, historyVars
<1> DEFINE k == op[u].id
           o == [op[u] EXCEPT !.phase = "next", !.id = 0, !.made = @ \cup {k}]
           c == CacheRemoveById(mem[u], k)
           w == IF b THEN writable[u] \ LockableIn({lockOf[k].path}) ELSE writable[u]
           br == IF b THEN broken ELSE broken \cup {k}
<1>a. /\ op' = [op EXCEPT ![u] = o] /\ mem' = [mem EXCEPT ![u] = c]
      /\ writable' = [writable EXCEPT ![u] = w] /\ broken' = br
      /\ op[u].kind = "unlock" /\ op[u].phase = "unlocked"
      /\ UNCHANGED <<serverVars, lockcache, listing, dirty, changed, verifyState, commands, stable, unsaved, foreign>>
  BY DEF UnlockResponse, IInv, LockingTypes, CloneTypes, CommandTypes
<1>u. Shape(u) /\ OwnInDb(u) /\ OwnInMem(u) /\ Flags(u)
  BY DEF IInv, UserInv
<1>t. /\ op \in [Users -> Command] /\ op[u] \in Command /\ held \subseteq DOMAIN lockOf
      /\ mem \in [Users -> Cache] /\ mem[u] \in Cache /\ writable \in [Users -> SUBSET Paths]
      /\ k \in DOMAIN lockOf /\ k \in Nat /\ lockOf[k].path \in Paths
      /\ lockOf \in [DOMAIN lockOf -> Lock] /\ DOMAIN lockOf \subseteq Nat \ {0}
  <2>1. /\ op \in [Users -> Command] /\ op[u] \in Command /\ held \subseteq DOMAIN lockOf
        /\ mem \in [Users -> Cache] /\ mem[u] \in Cache /\ writable \in [Users -> SUBSET Paths]
        /\ lockOf \in [DOMAIN lockOf -> Lock] /\ DOMAIN lockOf \subseteq Nat \ {0}
    BY DEF IInv, LockingTypes, CommandTypes, CloneTypes, ServerTypes
  <2>2. k \in DOMAIN lockOf
    BY <1>a, <1>u DEF Shape
  <2> QED
    BY <2>1, <2>2 DEF Lock
<1>n. /\ o \in Command /\ w \in SUBSET Paths /\ w \subseteq writable[u]
      /\ broken \subseteq br /\ br \subseteq broken \cup {k}
  BY <1>t DEF Command, Phases
<1>c. c \in Cache
  BY <1>t DEF CacheRemoveById, Cache
\* Nothing of the lock is left in the cache, and nothing else has changed.
<1>e. \A q \in Paths :
        /\ c.path[q] # 0 => c.path[q] = mem[u].path[q] /\ c.path[q] # k /\ c.path[q] \in c.ids
        /\ q # lockOf[k].path => c.path[q] = mem[u].path[q]
  <2>1. \A q \in Paths : mem[u].path[q] # 0 => mem[u].path[q] \in mem[u].ids /\ lockOf[mem[u].path[q]].path = q
    BY <1>u DEF Flags, Entries
  <2>2. CASE k \notin mem[u].ids
    BY <2>1, <2>2 DEF CacheRemoveById
  <2>3. CASE k \in mem[u].ids
    <3>1. c.ids = mem[u].ids \ {k}
          /\ \A q \in Paths : c.path[q] = IF q = lockOf[k].path THEN 0 ELSE mem[u].path[q]
      BY <1>t, <2>3 DEF CacheRemoveById, Cache
    <3> QED
      BY <2>1, <3>1
  <2> QED
    BY <2>2, <2>3
<1>f. /\ o.kind = "unlock" /\ o.phase = "next" /\ o.made = op[u].made \cup {k}
      /\ o.ours = op[u].ours /\ o.theirs = op[u].theirs /\ o.limit = op[u].limit
  BY <1>t, <1>a DEF Command
<1>b. \A q \in LockableIn(w) : q \in LockableIn(writable[u]) /\ (lockOf[k].path = q => k \in br)
  BY LockingAssumption DEF LockableIn
<1> HIDE DEF o, c, w, br
<1>o. op'[u] = o /\ mem'[u] = c /\ writable'[u] = w
      /\ \A v \in Users \ {u} : op'[v] = op[v] /\ mem'[v] = mem[v] /\ writable'[v] = writable[v]
  BY <1>t, <1>a
<1>1. LockingTypes'
  <2>1. op' \in [Users -> Command] /\ mem' \in [Users -> Cache] /\ writable' \in [Users -> SUBSET Paths]
    BY <1>n, <1>c, <1>t, <1>a
  <2> QED
    BY <1>a, <1>n, <1>t, <2>1 DEF IInv, LockingTypes, ServerTypes, CloneTypes, CommandTypes, HistoryTypes
<1>2. Locks'
  BY <1>a, <1>n, <1>t DEF IInv, Locks
<1>3. \A v \in Users \ {u} : SameFor(v) /\ AroundFor(v)
  BY <1>a, <1>n, <1>o, QuietAround DEF SameFor
<1>4. Shape(u)'
  BY <1>a, <1>t, <1>f, <1>o, <1>u DEF Shape
<1>5. Complete(u)' /\ Verified(u)'
  BY <1>f, <1>o DEF Complete, Verified
<1>7. OwnInDb(u)'
  BY <1>a, <1>f, <1>o, <1>u DEF OwnInDb, Owned
<1>8. OwnInMem(u)'
  <2>1. \A i \in Owned(u) : i \in held /\ lockOf[i].path \in Paths /\ lockOf[i].path # lockOf[k].path
    BY <1>a, <1>t, <1>u DEF OwnInMem, Owned, Lock
  <2>3. \A i \in Owned(u) : i \in unsaved \/ c.path[lockOf[i].path] = i
    BY <1>a, <1>e, <1>u, <2>1 DEF OwnInMem
  <2> QED
    BY <1>a, <1>f, <1>o, <2>3 DEF OwnInMem, Owned
<1>9. Flags(u)'
  <2>1. Entries(lockcache[u])' /\ Entries(mem[u])'
    BY <1>a, <1>e, <1>o, <1>u DEF Entries, Flags
  <2>3. \A q \in Paths : lockcache[u].path[q] # 0 =>
          \/ q \in foreign[u] \/ Mine(u, lockcache[u].path[q])
          \/ (lockOf[lockcache[u].path[q]].owner = u /\ lockcache[u].path[q] \in op[u].made \cup {k})
    BY <1>u DEF Flags, GivenUp
  <2>4. \A q \in Paths : c.path[q] # 0 => q \in foreign[u] \/ Mine(u, c.path[q])
    BY <1>a, <1>e, <1>u DEF Flags, GivenUp
  <2>5. \A q \in LockableIn(w) :
          Excused(u, q) \/ (lockOf[k].path = q /\ lockOf[k].owner = u /\ k \in br)
    BY <1>b, <1>u DEF Flags
  <2>6. /\ \A q \in Paths : lockcache'[u].path[q] # 0 =>
             \/ q \in foreign'[u] \/ Mine(u, lockcache[u].path[q])'
             \/ (lockOf'[lockcache'[u].path[q]].owner = u /\ lockcache'[u].path[q] \in op'[u].made)
        /\ \A q \in Paths : mem'[u].path[q] # 0 => q \in foreign'[u] \/ Mine(u, mem[u].path[q])'
    BY <1>a, <1>n, <1>f, <1>o, <2>3, <2>4 DEF Mine
  <2>e. \A q \in Paths : Excused(u, q) => Excused(u, q)'
    BY <1>a, <1>n DEF Excused
  <2>7. \A q \in LockableIn(writable'[u]) : Excused(u, q)'
    <3>1. \A q \in LockableIn(w) : q \in Paths
      BY LockingAssumption DEF LockableIn
    <3>2. \A q : lockOf[k].path = q /\ lockOf[k].owner = u /\ k \in broken' => Excused(u, q)'
      BY <1>a DEF Excused
    <3> QED
      BY <1>a, <1>o, <2>5, <2>e, <3>1, <3>2
  <2>8. op'[u].phase # "locked" /\ op'[u].kind = "unlock"
    BY <1>f, <1>o
  <2> QED
    BY <2>1, <2>6, <2>7, <2>8 DEF Flags
<1> QED
  BY <1>1, <1>2, <1>3, <1>4, <1>5, <1>7, <1>8, <1>9, StepKeeps DEF UserInv

-----------------------------------------------------------------------------
(* Lists and pushes. *)

\* Locks of different paths that are put into a cache are found there under their paths, and
\* the entries of the other paths stay.
LEMMA CacheAddAllEntries ==
  ASSUME NEW c \in Cache, NEW is \in SUBSET (DOMAIN lockOf), DOMAIN lockOf \subseteq Nat \ {0},
         lockOf \in [DOMAIN lockOf -> Lock],
         \A i \in is, j \in is : lockOf[i].path = lockOf[j].path => i = j
  PROVE  /\ CacheAddAll(c, is) \in Cache
         /\ CacheAddAll(c, is).ids = c.ids \cup is
         /\ \A i \in is : CacheAddAll(c, is).path[lockOf[i].path] = i
         /\ \A p \in Paths : (\A i \in is : lockOf[i].path # p) => CacheAddAll(c, is).path[p] = c.path[p]
<1> DEFINE at(p) == {i \in is : lockOf[i].path = p}
           new(p) == IF at(p) = {} THEN c.path[p] ELSE Max(at(p))
           n == CacheAddAll(c, is)
<1>1. n = [path |-> [p \in Paths |-> new(p)], ids |-> c.ids \cup is]
  BY DEF CacheAddAll
<1>2. \A i \in Nat : Max({i}) = i
  BY DEF Max
<1>3. \A i \in is : lockOf[i].path \in Paths /\ at(lockOf[i].path) = {i}
  BY DEF Lock
<1>4. \A i \in is : new(lockOf[i].path) = i
  BY <1>2, <1>3
<1>5. \A p \in Paths : (\A i \in is : lockOf[i].path # p) => new(p) = c.path[p]
  OBVIOUS
<1>6. \A p \in Paths : new(p) \in Nat
  BY <1>4, <1>5 DEF Cache
<1> HIDE DEF new
<1>7. n \in Cache
  BY <1>1, <1>6 DEF Cache
<1>8. n.ids = c.ids \cup is /\ \A p \in Paths : n.path[p] = new(p)
  BY <1>1
<1> HIDE DEF n
<1>9. \A i \in is : n.path[lockOf[i].path] = i
  BY <1>3, <1>4, <1>8
<1>10. \A p \in Paths : (\A i \in is : lockOf[i].path # p) => n.path[p] = c.path[p]
  BY <1>5, <1>8
<1> QED
  BY <1>7, <1>8, <1>9, <1>10 DEF n

\* One page of a list.
LEMMA ListPageStep ==
  ASSUME IInv, NEW u \in Users, ListPage(u)
  PROVE  IInv'
<1> USE DEF serverVars, historyVars
<1> DEFINE o == op[u]
           room == o.limit - Cardinality(o.ours \cup o.theirs)
           page == Page(u, o.kind, o.cursor)
           ours == Cut(o.limit, page.ours, room)
           theirs == Cut(o.limit, page.theirs, room - Cardinality(ours))
           full == o.limit > 0 /\ Cardinality(ours \cup theirs) >= room
           next == NextPhase(o, full, page.next)
           got == [o EXCEPT !.ours = @ \cup ours, !.theirs = @ \cup theirs,
                            !.cursor = page.next, !.phase = next]
           new == IF o.kind = "locks" THEN mem[u] ELSE CacheAddAll(mem[u], ours \cup theirs)
<1>t. /\ op \in [Users -> Command] /\ o \in Command /\ held \subseteq DOMAIN lockOf
      /\ mem \in [Users -> Cache] /\ mem[u] \in Cache /\ stable[u] \subseteq held
      /\ listing \in [Users -> Lists] /\ listing[u] \in Lists
      /\ lockOf \in [DOMAIN lockOf -> Lock] /\ DOMAIN lockOf \subseteq Nat \ {0}
  BY DEF IInv, LockingTypes, CommandTypes, CloneTypes, ServerTypes, Locks
<1>u. Shape(u) /\ Complete(u) /\ Verified(u) /\ OwnInDb(u) /\ OwnInMem(u) /\ Flags(u)
  BY DEF IInv, UserInv
<1>a. /\ o.phase = "page" /\ op' = [op EXCEPT ![u] = got] /\ mem' = [mem EXCEPT ![u] = new]
      /\ IF o.limit = 0 /\ got.phase # "page"
         THEN WriteLocksToCacheFile(u, o.kind, got.ours \cup got.theirs) ELSE UNCHANGED listing
      /\ UNCHANGED <<serverVars, lockcache, writable, dirty, changed, verifyState, commands, stable, historyVars>>
  BY <1>t DEF ListPage
<1>p. /\ page.ours = {i \in ServerPage(o.cursor) : lockOf[i].owner = u}
      /\ page.theirs = {i \in ServerPage(o.cursor) : lockOf[i].owner # u}
      /\ page.next = ServerCursor(o.cursor)
  BY DEF Page, Search, SearchVerifiable, Ours, Theirs
<1>l. o.cursor \in Nat /\ o.limit \in Nat
  BY <1>t DEF Command
<1>c. /\ ServerPage(o.cursor) \subseteq held
      /\ ServerCursor(o.cursor) \in Nat
      /\ \A i \in held : i >= o.cursor =>
           i \in ServerPage(o.cursor) \/ (ServerCursor(o.cursor) # 0 /\ ServerCursor(o.cursor) <= i)
  BY <1>l, PageCovers DEF IInv, LockingTypes
<1> HIDE DEF page
<1>r. /\ \A i \in ours : i \in held /\ lockOf[i].owner = u
      /\ \A i \in theirs : i \in held /\ lockOf[i].owner # u
      /\ o.limit = 0 => ours \cup theirs = ServerPage(o.cursor)
  <2>1. \A l, is, r : Cut(l, is, r) \subseteq is /\ (l = 0 => Cut(l, is, r) = is)
    BY DEF Cut, Smallest
  <2>2. ours \subseteq page.ours /\ theirs \subseteq page.theirs
        /\ (o.limit = 0 => ours = page.ours /\ theirs = page.theirs)
    BY <2>1
  <2> QED
    BY <1>p, <1>c, <2>2
<1>x. /\ next \in {"page", "scan", "end"}
      /\ next = "scan" => o.kind = "push"
      /\ next = "end" => o.kind # "push"
      /\ o.limit = 0 => (next = "page" <=> page.next # 0)
  BY <1>l DEF NextPhase
<1>z. page.next \in Nat
  BY <1>p, <1>c
<1> HIDE DEF ours, theirs, next
<1>n. got \in Command
  <2>1. o.ours \cup ours \in SUBSET Nat /\ o.theirs \cup theirs \in SUBSET Nat
    BY <1>t, <1>r DEF Command
  <2>2. next \in Phases
    BY <1>x DEF Phases
  <2> QED
    BY <1>t, <1>z, <2>1, <2>2 DEF Command
<1>f. /\ got.kind = o.kind /\ got.phase = next /\ got.made = o.made /\ got.limit = o.limit
      /\ got.ours = o.ours \cup ours /\ got.theirs = o.theirs \cup theirs /\ got.cursor = page.next
      /\ got.versions = o.versions /\ got.left = o.left /\ got.seen = o.seen
      /\ got.verify = o.verify /\ got.ok = o.ok
  BY <1>t DEF Command
<1>k. o.kind \in {"locks", "verify", "push"}
  BY <1>a, <1>u DEF Shape
<1>m. /\ new \in Cache
      /\ o.kind = "locks" => new = mem[u]
      /\ o.kind # "locks" =>
           /\ new.ids = mem[u].ids \cup ours \cup theirs
           /\ \A i \in ours \cup theirs : new.path[lockOf[i].path] = i
           /\ \A p \in Paths : (\A i \in ours \cup theirs : lockOf[i].path # p) =>
                new.path[p] = mem[u].path[p]
  <2>1. ours \cup theirs \in SUBSET (DOMAIN lockOf)
        /\ \A i \in ours \cup theirs, j \in ours \cup theirs : lockOf[i].path = lockOf[j].path => i = j
    BY <1>t, <1>r DEF IInv, Locks
  <2> DEFINE is == ours \cup theirs
  <2>2. /\ CacheAddAll(mem[u], is) \in Cache
        /\ CacheAddAll(mem[u], is).ids = mem[u].ids \cup is
        /\ \A i \in is : CacheAddAll(mem[u], is).path[lockOf[i].path] = i
        /\ \A p \in Paths : (\A i \in is : lockOf[i].path # p) =>
             CacheAddAll(mem[u], is).path[p] = mem[u].path[p]
    BY <1>t, <2>1, CacheAddAllEntries
  <2> QED
    BY <1>t, <2>2
<1> HIDE DEF got, new
<1>o. op'[u] = got /\ mem'[u] = new /\ \A v \in Users \ {u} : op'[v] = op[v] /\ mem'[v] = mem[v]
  BY <1>t, <1>a
<1>g. /\ listing' \in [Users -> Lists]
      /\ \A v \in Users \ {u} : listing'[v] = listing[v]
      /\ o.limit = 0 /\ next # "page" =>
           (IF o.kind = "locks" THEN listing'[u].remote ELSE listing'[u].verifiable)
             = got.ours \cup got.theirs
  <2>1. CASE o.limit = 0 /\ next # "page"
    <3> DEFINE all == got.ours \cup got.theirs
               ls == IF o.kind = "locks" THEN [listing[u] EXCEPT !.remote = all]
                     ELSE [listing[u] EXCEPT !.verifiable = all]
    <3>1. all \in SUBSET Nat
      BY <1>n DEF Command
    <3>2. listing' = [listing EXCEPT ![u] = ls]
      BY <1>a, <1>f, <1>t, <2>1 DEF WriteLocksToCacheFile
    <3>3. ls \in Lists /\ (IF o.kind = "locks" THEN ls.remote ELSE ls.verifiable) = all
      BY <1>t, <3>1 DEF Lists
    <3> HIDE DEF ls
    <3> QED
      BY <1>t, <3>2, <3>3
  <2>2. CASE ~(o.limit = 0 /\ next # "page")
    BY <1>a, <1>f, <1>t, <2>2
  <2> QED
    BY <2>1, <2>2
<1>1. LockingTypes'
  <2>1. op' \in [Users -> Command] /\ mem' \in [Users -> Cache]
    BY <1>n, <1>m, <1>t, <1>a
  <2> QED
    BY <1>a, <1>g, <2>1 DEF IInv, LockingTypes, ServerTypes, CloneTypes, CommandTypes, HistoryTypes
<1>2. Locks'
  BY <1>a DEF IInv, Locks
<1>3. \A v \in Users \ {u} : SameFor(v) /\ AroundFor(v)
  BY <1>a, <1>o, <1>g, QuietAround DEF SameFor
<1>4. Shape(u)'
  BY <1>a, <1>t, <1>r, <1>f, <1>x, <1>k, <1>o, <1>u DEF Shape
<1>5. Complete(u)'
  <2>1. o.limit = 0 => \A i \in stable[u] :
          i \in got.ours \cup got.theirs \/ (got.cursor # 0 /\ i >= got.cursor)
    <3> SUFFICES ASSUME o.limit = 0, NEW i \in stable[u], i \notin got.ours \cup got.theirs
                 PROVE  got.cursor # 0 /\ i >= got.cursor
      OBVIOUS
    <3>1. i \in held /\ i \in Nat /\ i >= o.cursor /\ i \notin ServerPage(o.cursor)
      BY <1>a, <1>f, <1>r, <1>t, <1>u DEF Complete
    <3>2. ServerCursor(o.cursor) # 0 /\ ServerCursor(o.cursor) <= i
      BY <1>c, <3>1
    <3> QED
      BY <1>c, <1>f, <1>p, <3>1, <3>2
  <2>2. o.limit = 0 /\ next # "page" => stable[u] \subseteq got.ours \cup got.theirs
    BY <1>f, <1>x, <2>1
  <2>3. o.kind = "push" => o.limit = 0
    BY <1>u DEF Shape
  <2> QED
    BY <1>a, <1>f, <1>g, <1>o, <1>x, <2>1, <2>2, <2>3 DEF Complete
<1>6. Verified(u)'
  BY <1>a, <1>f, <1>o, <1>x, <1>u DEF Verified
<1>7. OwnInDb(u)'
  BY <1>a, <1>f, <1>k, <1>o, <1>u DEF OwnInDb, Owned
<1>8. OwnInMem(u)'
  <2>1. o.kind = "verify" =>
          \A i \in (got.ours \cup got.theirs) \cap held : new.path[lockOf[i].path] = i
    <3> SUFFICES ASSUME o.kind = "verify", NEW i \in held, i \in got.ours \cup got.theirs
                 PROVE  new.path[lockOf[i].path] = i
      OBVIOUS
    <3>1. CASE \E j \in ours \cup theirs : lockOf[j].path = lockOf[i].path
      BY <1>m, <1>r, <3>1 DEF IInv, Locks
    <3>2. CASE \A j \in ours \cup theirs : lockOf[j].path # lockOf[i].path
      <4>1. i \in o.ours \cup o.theirs /\ lockOf[i].path \in Paths
        BY <1>f, <1>t, <3>2 DEF Lock
      <4> QED
        BY <1>m, <1>u, <3>2, <4>1 DEF OwnInMem
    <3> QED
      BY <3>1, <3>2
  <2> QED
    BY <1>a, <1>f, <1>k, <1>m, <1>o, <1>u, <1>x, <2>1 DEF OwnInMem, Owned
<1>9. Flags(u)'
  <2>d. \A p \in Paths : new.path[p] = mem[u].path[p]
          \/ (o.kind # "locks" /\ \E i \in ours \cup theirs : lockOf[i].path = p /\ new.path[p] = i)
    BY <1>m
  <2>i. mem[u].ids \subseteq new.ids /\ (o.kind # "locks" => ours \cup theirs \subseteq new.ids)
    BY <1>m
  <2>1. Entries(lockcache[u])' /\ Entries(mem[u])'
    <3>1. \A p \in Paths : new.path[p] # 0 =>
            new.path[p] \in new.ids \cap DOMAIN lockOf /\ lockOf[new.path[p]].path = p
      BY <1>r, <1>t, <1>u, <2>d, <2>i DEF Entries, Flags
    <3> QED
      BY <1>a, <1>o, <1>u, <3>1 DEF Entries, Flags
  <2>3. \A p \in Paths : lockcache[u].path[p] # 0 => p \in foreign[u] \/ Mine(u, lockcache[u].path[p])
    BY <1>k, <1>u DEF Flags
  <2>4. \A p \in Paths : new.path[p] # 0 =>
          p \in foreign[u] \/ Mine(u, new.path[p])
          \/ (got.kind \in {"verify", "push"} /\ new.path[p] \in got.theirs)
    <3>1. \A i \in ours : Mine(u, i)
      BY <1>r DEF Mine
    <3>2. \A p \in Paths : mem[u].path[p] # 0 =>
            p \in foreign[u] \/ Mine(u, mem[u].path[p])
            \/ (o.kind \in {"verify", "push"} /\ mem[u].path[p] \in o.theirs)
      BY <1>a, <1>u DEF Flags, GivenUp
    <3> QED
      BY <1>f, <1>k, <2>d, <3>1, <3>2
  <2>5. \A p \in LockableIn(writable[u]) : Excused(u, p)
    BY <1>a, <1>u DEF Flags
  <2>6. /\ \A p \in Paths : lockcache'[u].path[p] # 0 => p \in foreign'[u] \/ Mine(u, lockcache[u].path[p])'
        /\ \A p \in Paths : mem'[u].path[p] # 0 =>
             p \in foreign'[u] \/ Mine(u, mem[u].path[p])'
             \/ (op'[u].kind \in {"verify", "push"} /\ mem'[u].path[p] \in op'[u].theirs)
    BY <1>a, <1>o, <2>3, <2>4 DEF Mine
  <2>7. \A p \in LockableIn(writable'[u]) : Excused(u, p)'
    BY <1>a, <2>5 DEF Excused
  <2>8. op'[u].phase # "locked"
    BY <1>f, <1>o, <1>x
  <2> QED
    BY <2>1, <2>6, <2>7, <2>8 DEF Flags
<1> QED
  BY <1>1, <1>2, <1>3, <1>4, <1>5, <1>6, <1>7, <1>8, <1>9, StepKeeps DEF UserInv

\* A push that goes on leaves the caches, the flags and what it knows of the locks alone.
LEMMA PushKeeps ==
  ASSUME IInv, NEW u \in Users, op[u].kind = "push", NEW o \in Command,
         op' = [op EXCEPT ![u] = o], o.kind = "push", o.phase \in {"scan", "pushed"},
         o.limit = op[u].limit, o.made = op[u].made, o.ours = op[u].ours, o.theirs = op[u].theirs,
         changed' \in [Users -> SUBSET Versions], verifyState' \in [Users -> VerifyStates],
         \A v \in Users \ {u} : verifyState'[v] = verifyState[v],
         Complete(u)', Verified(u)',
         UNCHANGED <<serverVars, lockcache, listing, writable, dirty, mem, commands, stable, historyVars>>
  PROVE  IInv'
<1> USE DEF serverVars, historyVars
<1>1. LockingTypes'
  <2>1. op' \in [Users -> Command]
    BY DEF IInv, LockingTypes, CommandTypes
  <2> QED
    BY <2>1 DEF IInv, LockingTypes, ServerTypes, CloneTypes, CommandTypes, HistoryTypes
<1>2. Locks'
  BY DEF IInv, Locks
<1>o. op'[u] = o /\ \A v \in Users \ {u} : op'[v] = op[v]
  BY DEF IInv, LockingTypes, CommandTypes
<1>3. \A v \in Users \ {u} : SameFor(v) /\ AroundFor(v)
  BY <1>o, QuietAround DEF SameFor
<1>u. Shape(u) /\ OwnInDb(u) /\ OwnInMem(u) /\ Flags(u)
  BY DEF IInv, UserInv
<1>4. Shape(u)'
  BY <1>o, <1>u DEF Shape
<1>5. OwnInDb(u)' /\ OwnInMem(u)'
  BY <1>o, <1>u DEF OwnInDb, OwnInMem, Owned
<1>6. Flags(u)'
  <2>0. op[u].phase # "unlocked"
    BY <1>u DEF Shape
  <2>1. Entries(lockcache[u])' /\ Entries(mem[u])'
    BY <1>u DEF Entries, Flags
  <2>2. /\ \A p \in Paths : lockcache'[u].path[p] # 0 => p \in foreign'[u] \/ Mine(u, lockcache[u].path[p])'
        /\ \A p \in Paths : mem'[u].path[p] # 0 =>
             p \in foreign'[u] \/ Mine(u, mem[u].path[p])' \/ mem'[u].path[p] \in op'[u].theirs
    BY <1>o, <1>u, <2>0 DEF Flags, Mine, GivenUp
  <2>3. \A p \in LockableIn(writable'[u]) : Excused(u, p)'
    BY <1>u, <2>0 DEF Flags, Excused
  <2> QED
    BY <1>o, <2>1, <2>2, <2>3 DEF Flags
<1> QED
  BY <1>1, <1>2, <1>3, <1>4, <1>5, <1>6, StepKeeps DEF UserInv

\* A push goes on without a complete list, looks up a path, or is allowed.
LEMMA PushStep ==
  ASSUME IInv, NEW u \in Users,
         \/ VerifyNotImplemented(u)
         \/ VerifyFails(u) /\ op[u].verify # "enabled"
         \/ \E v \in Versions : PrepareUpload(u, v)
         \/ PushAllowed(u)
  PROVE  IInv'
<1> USE DEF serverVars, cloneVars, historyVars
<1>t. /\ op \in [Users -> Command] /\ op[u] \in Command /\ changed \in [Users -> SUBSET Versions]
      /\ verifyState \in [Users -> VerifyStates] /\ OidOf \in [Paths -> Oids]
  BY LockingAssumption DEF IInv, LockingTypes, CommandTypes, CloneTypes
<1>u. Shape(u) /\ Complete(u) /\ Verified(u)
  BY DEF IInv, UserInv
<1> DEFINE s == [op[u] EXCEPT !.phase = "scan", !.ok = FALSE]
<1>s. /\ s \in Command /\ s.kind = op[u].kind /\ s.phase = "scan" /\ s.ok = FALSE
      /\ s.limit = op[u].limit /\ s.made = op[u].made
      /\ s.ours = op[u].ours /\ s.theirs = op[u].theirs
      /\ s.versions = op[u].versions /\ s.left = op[u].left /\ s.seen = op[u].seen
  BY <1>t DEF Command, Phases
<1> HIDE DEF s
<1>1. ASSUME op[u].kind = "push", op[u].phase = "page", op' = [op EXCEPT ![u] = s],
             changed' = changed, verifyState' \in [Users -> VerifyStates],
             \A v \in Users \ {u} : verifyState'[v] = verifyState[v],
             UNCHANGED <<serverVars, lockcache, listing, writable, dirty, mem, commands, stable, historyVars>>
      PROVE  IInv'
  <2>1. op'[u] = s
    BY <1>1, <1>t
  <2>2. Complete(u)'
    BY <1>s, <1>1, <2>1 DEF Complete
  <2>3. Verified(u)'
    BY <1>s, <1>1, <1>u, <2>1 DEF Verified
  <2> QED
    BY <1>1, <1>s, <1>t, <2>2, <2>3, PushKeeps
<1>2. ASSUME VerifyNotImplemented(u) PROVE IInv'
  <2>1. verifyState' \in [Users -> VerifyStates]
        /\ \A v \in Users \ {u} : verifyState'[v] = verifyState[v]
    BY <1>2, <1>t DEF VerifyNotImplemented, VerifyStates
  <2> QED
    BY <1>1, <1>2, <2>1 DEF VerifyNotImplemented, s
<1>3. ASSUME VerifyFails(u), op[u].verify # "enabled" PROVE IInv'
  BY <1>1, <1>3, <1>t DEF VerifyFails, s
<1>4. ASSUME NEW v \in Versions, PrepareUpload(u, v) PROVE IInv'
  <2> DEFINE un == IF LookedUp(op[u], v) /\ LockedByThem(u, v.path) THEN op[u].unowned \cup {v.path}
                   ELSE op[u].unowned
             sn == op[u].seen \cup {Blob(v)}
             lf == op[u].left \ {v}
             o == [op[u] EXCEPT !.left = lf, !.unowned = un, !.seen = sn]
  <2>1. /\ op[u].kind = "push" /\ op[u].phase = "scan" /\ v \in op[u].left /\ op' = [op EXCEPT ![u] = o]
        /\ UNCHANGED <<serverVars, cloneVars, mem, commands, stable, historyVars>>
    BY <1>4, <1>t DEF PrepareUpload
  <2>2. un \in SUBSET Paths /\ sn \in SUBSET (Oids \X Contents) /\ lf \in SUBSET Versions
    BY <1>t DEF Command, Versions, Blob
  <2>3. /\ v.content \in {"pointer", "plain"} /\ Blob(v) \notin op[u].seen =>
             v.path \in un \/ \A i \in op[u].theirs : lockOf[i].path # v.path
        /\ op[u].unowned \subseteq un
    BY DEF LockedByThem, LookedUp
  <2> HIDE DEF un
  <2>5. /\ o \in Command /\ o.kind = op[u].kind /\ o.phase = op[u].phase /\ o.ok = op[u].ok
        /\ o.limit = op[u].limit /\ o.made = op[u].made /\ o.verify = op[u].verify
        /\ o.ours = op[u].ours /\ o.theirs = op[u].theirs /\ o.versions = op[u].versions
        /\ o.left = lf /\ o.seen = sn /\ o.unowned = un
    BY <1>t, <2>2 DEF Command
  <2>t. op[u].versions \in SUBSET Versions
    BY <1>t DEF Command
  <2> HIDE DEF o
  <2>6. op'[u] = o
    BY <1>t, <2>1
  <2>7. Complete(u)'
    BY <1>u, <2>1, <2>5, <2>6 DEF Complete
  <2>8. Verified(u)'
    <3> DEFINE old == op[u].versions \ op[u].left
               new == o.versions \ o.left
    <3>1. old \subseteq new /\ new \subseteq old \cup {v}
      BY <2>5
    <3>2. v \in new /\ o.left \subseteq o.versions
      BY <1>u, <2>1, <2>5 DEF Verified
    <3>3. sn \subseteq {Blob(w) : w \in new}
      BY <1>u, <2>1, <3>1, <3>2 DEF Verified
    <3>4. Blob(v) \in op[u].seen => TwinOf(v, op[u].versions)
      <4> SUFFICES ASSUME Blob(v) \in op[u].seen PROVE TwinOf(v, op[u].versions)
        OBVIOUS
      <4>1. PICK w \in old : Blob(w) = Blob(v)
        BY <1>u, <2>1 DEF Verified
      <4>2. w \in Versions /\ w # v /\ w.content = v.content
        BY <2>1, <2>t, <4>1 DEF Blob
      <4>3. w.path # v.path
        BY <4>2 DEF Versions
      <4> QED
        BY <4>1, <4>3 DEF TwinOf
    <3>5. \A i \in op[u].theirs, w \in old :
            lockOf[i].path = w.path /\ w.content \in {"pointer", "plain"} =>
              w.path \in op[u].unowned \/ TwinOf(w, op[u].versions)
      BY <1>u, <2>1 DEF Verified
    <3>6. \A i \in op[u].theirs, w \in new :
            lockOf[i].path = w.path /\ w.content \in {"pointer", "plain"} =>
              w.path \in un \/ TwinOf(w, op[u].versions)
      BY <2>3, <3>1, <3>4, <3>5
    <3> QED
      BY <2>1, <2>5, <2>6, <3>2, <3>3, <3>6 DEF Verified
  <2> QED
    BY <1>t, <2>1, <2>5, <2>7, <2>8, PushKeeps
<1>5. ASSUME PushAllowed(u) PROVE IInv'
  <2> DEFINE o == [op[u] EXCEPT !.phase = "pushed"]
  <2>1. /\ op[u].kind = "push" /\ op[u].phase = "scan"
        /\ \A v \in op[u].left : v.content = "large"
        /\ op[u].unowned = {} \/ op[u].verify # "enabled"
        /\ op' = [op EXCEPT ![u] = o] /\ changed' = [changed EXCEPT ![u] = {}]
        /\ UNCHANGED <<serverVars, lockcache, listing, writable, dirty, verifyState, mem, commands, stable, historyVars>>
    BY <1>5 DEF PushAllowed, Scanned
  <2>2. /\ o \in Command /\ o.kind = op[u].kind /\ o.phase = "pushed" /\ o.ok = op[u].ok
        /\ o.limit = op[u].limit /\ o.made = op[u].made /\ o.verify = op[u].verify
        /\ o.ours = op[u].ours /\ o.theirs = op[u].theirs /\ o.versions = op[u].versions
        /\ o.left = op[u].left /\ o.seen = op[u].seen /\ o.unowned = op[u].unowned
    BY <1>t DEF Command, Phases
  <2> HIDE DEF o
  <2>3. op'[u] = o /\ changed' \in [Users -> SUBSET Versions]
    BY <1>t, <2>1
  <2>4. Complete(u)'
    BY <1>u, <2>1, <2>2, <2>3 DEF Complete
  <2>5. Verified(u)'
    BY <1>u, <2>1, <2>2, <2>3 DEF Verified
  <2> QED
    BY <1>t, <2>1, <2>2, <2>3, <2>4, <2>5, PushKeeps
<1> QED
  BY <1>2, <1>3, <1>4, <1>5

-----------------------------------------------------------------------------
(* The invariant, and what follows from it. *)

\* The invariant holds in a clone where no command has run, with no locks on the server.
LEMMA InitHolds == Init => IInv
<1> SUFFICES ASSUME Init PROVE IInv
  OBVIOUS
<1>n. NoOp \in Command /\ NoCache \in Cache /\ \A p \in Paths : NoCache.path[p] = 0
  BY DEF NoOp, NoCache, Command, Cache, Kinds, Phases, VerifyStates
<1>l. DOMAIN lockOf = 1..0 /\ held = {}
  BY DEF Init
<1>1. ServerTypes
  <2>1. 0 \in Nat /\ 1..0 = {}
    OBVIOUS
  <2>2. lockOf \in [DOMAIN lockOf -> Lock]
    BY <1>l, <2>1 DEF Init
  <2> QED
    BY <1>l, <2>1, <2>2 DEF ServerTypes
<1>2. CloneTypes /\ CommandTypes /\ HistoryTypes
  BY <1>n, LockingAssumption DEF Init, CloneTypes, CommandTypes, HistoryTypes, Lists, VerifyStates, LockableIn
<1>3. Locks
  BY DEF Init, Locks
<1>4. ASSUME NEW u \in Users PROVE UserInv(u)
  <2>1. op[u] = NoOp /\ mem[u] = NoCache /\ lockcache[u] = NoCache /\ writable[u] = Paths \ LockableIn(Paths)
    BY DEF Init
  <2>2. /\ NoOp.kind = "idle" /\ NoOp.phase = "next" /\ NoOp.made = {}
        /\ NoOp.ours = {} /\ NoOp.theirs = {}
    BY DEF NoOp
  <2>3. Shape(u) /\ Complete(u) /\ Verified(u)
    BY <2>1, <2>2 DEF Shape, Complete, Verified
  <2>4. OwnInDb(u) /\ OwnInMem(u)
    BY <1>l, <2>1, <2>2 DEF OwnInDb, OwnInMem, Owned
  <2>5. Flags(u)
    BY <1>n, <2>1, <2>2, LockingAssumption DEF Flags, Entries, LockableIn
  <2> QED
    BY <2>3, <2>4, <2>5 DEF UserInv
<1> QED
  BY <1>1, <1>2, <1>3, <1>4 DEF IInv, LockingTypes

\* Every step keeps the invariant.
LEMMA NextKeeps == IInv /\ [Next]_vars => IInv'
<1> SUFFICES ASSUME IInv, [Next]_vars PROVE IInv'
  OBVIOUS
<1>0. CASE UNCHANGED vars
  <2> USE <1>0 DEF vars, serverVars, cloneVars, historyVars
  <2>1. LockingTypes'
    BY DEF IInv, LockingTypes, ServerTypes, CloneTypes, CommandTypes, HistoryTypes
  <2>2. Locks'
    BY DEF IInv, Locks
  <2>3. \A v \in Users : SameFor(v) /\ AroundFor(v)
    BY QuietAround DEF SameFor
  <2> QED
    BY <2>1, <2>2, <2>3, BystanderKeeps DEF IInv
<1>1. ASSUME NEW u \in Users, NEW ps \in SUBSET Paths, StartLock(u, ps) PROVE IInv'
  BY <1>1, BeginStep
<1>2. ASSUME NEW u \in Users, NEW ps \in SUBSET Paths, NEW f \in BOOLEAN, StartUnlock(u, ps, f)
      PROVE  IInv'
  BY <1>2, BeginStep
<1>3. ASSUME NEW u \in Users, NEW i \in DOMAIN lockOf, NEW f \in BOOLEAN, StartUnlockById(u, i, f)
      PROVE  IInv'
  BY <1>3, BeginStep
<1>4. ASSUME NEW u \in Users, NEW l \in Limits, StartList(u, "verify", l) PROVE IInv'
  BY <1>4, BeginStep
<1>5. ASSUME NEW u \in Users, StartList(u, "locks", 0) \/ StartPush(u) PROVE IInv'
  BY <1>5, BeginStep
<1>6. ASSUME NEW u \in Users, NEW p \in Paths, LockPathFails(u, p) PROVE IInv'
  BY <1>6, FailStep
<1>7. ASSUME NEW u \in Users, NEW p \in Paths, LockRequest(u, p) PROVE IInv'
  BY <1>7, FailStep, LockRequestStep
<1>8. ASSUME NEW u \in Users, NEW p \in Paths, UnlockFind(u, p) PROVE IInv'
  BY <1>8, FailStep, UnlockFindStep
<1>9. ASSUME NEW u \in Users, LockResponseLost(u) \/ UnlockRefused(u) \/ UnlockResponseLost(u)
      PROVE  IInv'
  BY <1>9, FailStep
<1>10. ASSUME NEW u \in Users, LockResponse(u) PROVE IInv'
  BY <1>10, LockResponseStep
<1>11. ASSUME NEW u \in Users, UnlockRequest(u) PROVE IInv'
  BY <1>11, UnlockRequestStep
<1>12. ASSUME NEW u \in Users, NEW c \in BOOLEAN, UnlockResponse(u, c) PROVE IInv'
  BY <1>12, UnlockResponseStep
<1>13. ASSUME NEW u \in Users, ListPage(u) PROVE IInv'
  BY <1>13, ListPageStep
<1>14. ASSUME NEW u \in Users, NEW j \in BOOLEAN, ListFails(u, j) PROVE IInv'
  BY <1>14, EndStep
<1>15. ASSUME NEW u \in Users, EndLockCommand(u) \/ EndList(u) \/ PushRefused(u) \/ PushDone(u)
       PROVE  IInv'
  BY <1>15, EndStep
<1>16. ASSUME NEW u \in Users, VerifyFails(u) PROVE IInv'
  BY <1>16, EndStep, PushStep
<1>17. ASSUME NEW u \in Users, VerifyNotImplemented(u) \/ PushAllowed(u) PROVE IInv'
  BY <1>17, PushStep
<1>18. ASSUME NEW u \in Users, NEW v \in Versions, PrepareUpload(u, v) PROVE IInv'
  BY <1>18, PushStep
<1>19. ASSUME NEW u \in Users, NEW p \in Paths, Edit(u, p) PROVE IInv'
  BY <1>19, WorkTreeStep
<1>20. ASSUME NEW u \in Users, NEW ps \in SUBSET Paths, NEW d \in BOOLEAN, PostCheckout(u, ps, d)
       PROVE  IInv'
  BY <1>20, WorkTreeStep
<1>21. ASSUME NEW u \in Users, NEW c \in [Paths -> Contents], PostCommit(u, c) PROVE IInv'
  BY <1>21, WorkTreeStep
<1>22. ASSUME NEW u \in Users, NEW ps \in SUBSET Paths, PostMerge(u, ps) PROVE IInv'
  BY <1>22, WorkTreeStep
<1>23. CASE Next
  BY <1>1, <1>2, <1>3, <1>4, <1>5, <1>6, <1>7, <1>8, <1>9, <1>10, <1>11, <1>12, <1>13, <1>14,
     <1>15, <1>16, <1>17, <1>18, <1>19, <1>20, <1>21, <1>22, <1>23 DEF Next
<1> QED
  BY <1>0, <1>23

\* The invariant holds in every reachable state.
LEMMA Invariant == Spec => []IInv
BY InitHolds, NextKeeps, PTL DEF Spec

\* The fields of every clone, command and lock stay of their types.
THEOREM TypeCorrect == Spec => []LockingTypes
<1>1. IInv => LockingTypes
  BY DEF IInv
<1> QED
  BY <1>1, Invariant, PTL

\* Between commands, and for any number of users and locks, a lock that a user holds is in the
\* user's lockcache.db, but for the locks that a lost response or a failed or limited command
\* left out of it: Close of locking.Client and the commands' os.Exit lose no other.
THEOREM OwnLocksStayCached == Spec => []OwnLocksCached
<1>1. IInv => OwnLocksCached
  BY DEF IInv, UserInv, OwnInDb, OwnLocksCached, Idle
<1> QED
  BY <1>1, Invariant, PTL

\* Whatever the page size, and however locks come and go between the pages, a list that was
\* not cut short has every lock that was held all along (SearchLocks and SearchLocksVerifiable).
THEOREM ListsAreComplete == Spec => []ListingComplete
<1>1. IInv => ListingComplete
  BY DEF IInv, UserInv, Complete, ListingComplete
<1> QED
  BY <1>1, Invariant, PTL

\* No push that must verify goes through with a pointer or a small file that is new to the remote,
\* at a path that another user held locked from the push's start to its end, unless the push has
\* the same blob under another path: the scan names a blob once, and the locks of that path are
\* looked up in a complete list.
THEOREM PushesRespectLocks == Spec => []PushRespectsLocks
<1>1. IInv => PushRespectsLocks
  <2> SUFFICES ASSUME IInv, NEW u \in Users, op[u].phase = "pushed", op[u].verify = "enabled", op[u].ok,
                      NEW i \in Theirs(u, stable[u]), NEW v \in op[u].versions, lockOf[i].path = v.path,
                      v.content \notin {"known", "empty", "large"}
               PROVE  TwinOf(v, op[u].versions)
    BY DEF PushRespectsLocks, TwinOf
  <2>1. Shape(u) /\ Complete(u) /\ Verified(u)
    BY DEF IInv, UserInv
  <2>2. i \in stable[u] /\ lockOf[i].owner # u
    BY DEF Theirs, Ours
  <2>3. op[u].kind = "push" /\ op[u].unowned = {} /\ v \notin op[u].left
    BY <2>1 DEF Shape, Verified
  <2>4. i \in op[u].theirs
    BY <2>1, <2>2, <2>3 DEF Complete, Shape
  <2>5. v.content \in {"pointer", "plain"}
    BY LockingAssumption DEF IInv, LockingTypes, CommandTypes, Command, Versions, AllContents
  <2> QED
    BY <2>1, <2>3, <2>4, <2>5 DEF Verified
<1> QED
  BY <1>1, Invariant, PTL

\* A lockable file that one user holds locked is writable for no other user between commands,
\* unless the other's lock of it ended behind the other's back or locks --verify put a foreign
\* lock into the other's cache: the commands and the hooks set no other write flag.
THEOREM OthersFilesAreReadOnly == Spec => []NoForeignWrite
<1>1. IInv => NoForeignWrite
  <2> SUFFICES ASSUME IInv, NEW u \in Users, NEW i \in held, Idle(u), lockOf[i].owner # u,
                      lockOf[i].path \in LockableIn(writable[u]), lockOf[i].path \notin foreign[u]
               PROVE  \E j \in broken : lockOf[j].path = lockOf[i].path /\ lockOf[j].owner = u
    BY DEF NoForeignWrite
  <2>1. op[u].phase = "next"
    BY DEF Idle, IInv, UserInv, Shape
  <2>2. Excused(u, lockOf[i].path)
    BY <2>1 DEF IInv, UserInv, Flags
  <2>3. PICK j \in held \cup broken : lockOf[j].path = lockOf[i].path /\ lockOf[j].owner = u
    BY <2>2 DEF Excused
  <2>4. j \notin held
    BY <2>3 DEF IInv, Locks
  <2> QED
    BY <2>3, <2>4
<1> QED
  BY <1>1, Invariant, PTL

-----------------------------------------------------------------------------
(* The file of the lock cache *)

Changes == [key : Keys, value : Values \cup {nil}]

\* The indices of the changes to key k in log l, and the last of a set of them.
IndicesOf(l, k) == {i \in 1..Len(l) : l[i].key = k}

LastOf(is) == CHOOSE i \in is : \A j \in is : j <= i

Less == {ss \in Nat \X Nat : ss[1] < ss[2]}

-----------------------------------------------------------------------------
(* The replay of a log. *)

\* The order of the naturals is well-founded, as a set of pairs.
LEMMA LessWellFounded == IsWellFoundedOn(Less, Nat)
BY NatLessThanWellFounded DEF OpToRel, Less

\* A non-empty set of indices of a log has a last one.
LEMMA LastExists ==
  ASSUME NEW n \in Nat, NEW S \in SUBSET (1..n), S # {}
  PROVE  \E m \in S : \A j \in S : j <= m
<1> DEFINE T == {n - i : i \in S}
<1>1. T \subseteq Nat
  OBVIOUS
<1>2. PICK s \in S : TRUE
  OBVIOUS
<1>3. n - s \in T
  OBVIOUS
<1>4. \E x \in T : \A y \in T : ~(<<y, x>> \in Less)
  <2> HIDE DEF T
  <2> QED BY <1>1, <1>3, WFMin, LessWellFounded, Zenon
<1>5. PICK x \in T : \A y \in T : ~(<<y, x>> \in Less)
  BY <1>4
<1>6. \A y \in T : ~(y < x)
  BY <1>1, <1>5 DEF Less
<1>7. PICK m \in S : x = n - m
  OBVIOUS
<1>8. ASSUME NEW j \in S
      PROVE  j <= m
  <2>1. n - j \in T
    OBVIOUS
  <2>2. ~(n - j < n - m)
    BY <2>1, <1>6, <1>7
  <2> QED BY <2>2
<1> QED BY <1>8

\* LastOf is the greatest element where there is one.
LEMMA LastIs ==
  ASSUME NEW is \in SUBSET Nat, NEW m \in is, \A j \in is : j <= m
  PROVE  LastOf(is) = m
<1>1. LastOf(is) \in is /\ \A j \in is : j <= LastOf(is)
  BY DEF LastOf
<1>2. LastOf(is) <= m /\ m <= LastOf(is)
  BY <1>1
<1>3. LastOf(is) \in Nat /\ m \in Nat
  BY <1>1
<1> QED BY <1>2, <1>3

\* The last change to a key that a log changes is one of its changes.
LEMMA LastIn ==
  ASSUME NEW l \in Seq(Changes), NEW k, IndicesOf(l, k) # {}
  PROVE  /\ LastOf(IndicesOf(l, k)) \in IndicesOf(l, k)
         /\ LastOf(IndicesOf(l, k)) \in 1..Len(l)
<1>1. IndicesOf(l, k) \in SUBSET (1..Len(l)) /\ Len(l) \in Nat
  BY DEF IndicesOf
<1>2. \E m \in IndicesOf(l, k) : \A j \in IndicesOf(l, k) : j <= m
  BY <1>1, LastExists
<1>3. LastOf(IndicesOf(l, k)) \in IndicesOf(l, k)
  BY <1>2 DEF LastOf
<1> QED BY <1>1, <1>3

\* What the replay leaves under a key.
LEMMA ApplyAt ==
  ASSUME NEW l, NEW d, NEW k \in Keys
  PROVE  ApplyLog(l, d)[k] = IF IndicesOf(l, k) = {} THEN d[k]
                             ELSE l[LastOf(IndicesOf(l, k))].value
BY DEF ApplyLog, IndicesOf, LastOf

\* Replaying a log on a database gives a database.
LEMMA ApplyType ==
  ASSUME NEW l \in Seq(Changes), NEW d \in Databases
  PROVE  ApplyLog(l, d) \in Databases
<1>1. ASSUME NEW k \in Keys
      PROVE  ApplyLog(l, d)[k] \in Values \cup {nil}
  <2>1. CASE IndicesOf(l, k) = {}
    BY <2>1, ApplyAt DEF Databases
  <2>2. CASE IndicesOf(l, k) # {}
    <3>1. l[LastOf(IndicesOf(l, k))] \in Changes
      BY <2>2, LastIn
    <3>2. ApplyLog(l, d)[k] = l[LastOf(IndicesOf(l, k))].value
      BY <2>2, ApplyAt
    <3> QED BY <3>1, <3>2 DEF Changes
  <2> QED BY <2>1, <2>2
<1>2. ApplyLog(l, d) = [k \in Keys |-> ApplyLog(l, d)[k]]
  BY DEF ApplyLog
<1> HIDE DEF ApplyLog
<1> QED BY <1>1, <1>2 DEF Databases

\* Replaying an empty log changes nothing.
LEMMA ApplyEmpty ==
  ASSUME NEW d \in Databases
  PROVE  ApplyLog(<<>>, d) = d
<1>1. \A k \in Keys : IndicesOf(<<>>, k) = {}
  BY DEF IndicesOf
<1>2. ApplyLog(<<>>, d) = [k \in Keys |-> d[k]]
  BY <1>1 DEF ApplyLog, IndicesOf
<1> QED BY <1>2 DEF Databases

\* Two databases with the same values are the same.
LEMMA SameDatabase ==
  ASSUME NEW d \in Databases, NEW e \in Databases, \A k \in Keys : d[k] = e[k]
  PROVE  d = e
BY DEF Databases

\* Replaying a log with one more change is replaying it and making the change.
LEMMA ApplyAppend ==
  ASSUME NEW l \in Seq(Changes), NEW c \in Changes, NEW d \in Databases
  PROVE  ApplyLog(Append(l, c), d) = [ApplyLog(l, d) EXCEPT ![c.key] = c.value]
<1> DEFINE m == Append(l, c)
           e == [ApplyLog(l, d) EXCEPT ![c.key] = c.value]
<1>1. /\ m \in Seq(Changes) /\ Len(l) \in Nat /\ Len(m) = Len(l) + 1
      /\ m[Len(l) + 1] = c /\ \A i \in 1..Len(l) : m[i] = l[i]
  OBVIOUS
<1>2. ApplyLog(m, d) \in Databases /\ ApplyLog(l, d) \in Databases
  BY <1>1, ApplyType
<1>3. e \in Databases /\ e[c.key] = c.value
      /\ \A k \in Keys : k # c.key => e[k] = ApplyLog(l, d)[k]
  BY <1>2 DEF Databases, Changes
<1> HIDE DEF m, e
<1>4. ASSUME NEW k \in Keys
      PROVE  ApplyLog(m, d)[k] = e[k]
  <2>1. CASE k = c.key
    <3>1. Len(l) + 1 \in IndicesOf(m, k)
      BY <1>1, <2>1 DEF IndicesOf
    <3>2. IndicesOf(m, k) \in SUBSET Nat /\ \A j \in IndicesOf(m, k) : j <= Len(l) + 1
      BY <1>1 DEF IndicesOf
    <3>3. LastOf(IndicesOf(m, k)) = Len(l) + 1
      BY <3>1, <3>2, LastIs
    <3>4. ApplyLog(m, d)[k] = m[LastOf(IndicesOf(m, k))].value
      BY <3>1, ApplyAt
    <3> QED BY <3>3, <3>4, <1>1, <1>3, <2>1
  <2>2. CASE k # c.key
    <3>1. IndicesOf(m, k) = IndicesOf(l, k)
      BY <1>1, <2>2 DEF IndicesOf
    <3>2. IndicesOf(l, k) # {} =>
            m[LastOf(IndicesOf(l, k))] = l[LastOf(IndicesOf(l, k))]
      BY <1>1, LastIn
    <3>3. ApplyLog(m, d)[k] = ApplyLog(l, d)[k]
      BY <3>1, <3>2, ApplyAt
    <3> QED BY <3>3, <1>3, <2>2
  <2> QED BY <2>1, <2>2
<1>5. ApplyLog(m, d) = e
  BY <1>2, <1>3, <1>4, SameDatabase
<1> QED BY <1>5 DEF m, e

\* The log r removes each key that the database d has a value for, and removes it once.
Clears(r, d) ==
  /\ \A i \in 1..Len(r) : r[i].value = nil
  /\ \A i, j \in 1..Len(r) : r[i].key = r[j].key => i = j
  /\ \A k \in Keys : d[k] # nil <=> \E i \in 1..Len(r) : r[i].key = k

\* Replaying the removal of every key that a replay has left leaves nothing.
LEMMA ApplyRemovals ==
  ASSUME NEW l \in Seq(Changes), NEW d \in Databases, NEW r \in Seq(Changes),
         Clears(r, ApplyLog(l, d))
  PROVE  ApplyLog(l \o r, d) = EmptyDb
<1>0. /\ \A i \in 1..Len(r) : r[i].value = nil
      /\ \A i, j \in 1..Len(r) : r[i].key = r[j].key => i = j
      /\ \A k \in Keys : ApplyLog(l, d)[k] # nil <=> \E i \in 1..Len(r) : r[i].key = k
  BY DEF Clears
<1> DEFINE m == l \o r
<1>1. /\ m \in Seq(Changes) /\ Len(l) \in Nat /\ Len(r) \in Nat
      /\ Len(m) = Len(l) + Len(r)
      /\ \A i \in 1..Len(l) : m[i] = l[i]
      /\ \A i \in 1..Len(r) : m[Len(l) + i] = r[i]
  OBVIOUS
<1>2. ApplyLog(m, d) \in Databases /\ EmptyDb \in Databases
  BY <1>1, ApplyType DEF Databases, EmptyDb
<1> HIDE DEF m
<1>3. ASSUME NEW k \in Keys
      PROVE  ApplyLog(m, d)[k] = nil
  <2>1. CASE \E i \in 1..Len(r) : r[i].key = k
    <3>1. PICK i \in 1..Len(r) : r[i].key = k
      BY <2>1
    <3>2. Len(l) + i \in IndicesOf(m, k)
      BY <1>1, <3>1 DEF IndicesOf
    <3>3. ASSUME NEW j \in IndicesOf(m, k)
          PROVE  j <= Len(l) + i
      <4>1. j \in 1..Len(l) + Len(r) /\ m[j].key = k
        BY <1>1 DEF IndicesOf
      <4>2. CASE j <= Len(l)
        BY <1>1, <4>1, <4>2, <3>1
      <4>3. CASE j > Len(l)
        <5>1. j - Len(l) \in 1..Len(r) /\ j = Len(l) + (j - Len(l))
          BY <1>1, <4>1, <4>3
        <5>2. m[j] = r[j - Len(l)]
          BY <1>1, <5>1
        <5>3. j - Len(l) = i
          BY <1>0, <5>1, <5>2, <4>1, <3>1
        <5> QED BY <5>1, <5>3
      <4> QED BY <4>1, <4>2, <4>3, <1>1
    <3>4. IndicesOf(m, k) \in SUBSET Nat
      BY <1>1 DEF IndicesOf
    <3>5. LastOf(IndicesOf(m, k)) = Len(l) + i
      BY <3>2, <3>3, <3>4, LastIs
    <3>6. ApplyLog(m, d)[k] = m[LastOf(IndicesOf(m, k))].value
      BY <3>2, ApplyAt
    <3> QED BY <1>0, <1>1, <3>1, <3>5, <3>6
  <2>2. CASE ~ \E i \in 1..Len(r) : r[i].key = k
    <3>1. ASSUME NEW j \in 1..Len(m), m[j].key = k
          PROVE  j \in 1..Len(l)
      <4>1. CASE j > Len(l)
        <5>1. j - Len(l) \in 1..Len(r) /\ j = Len(l) + (j - Len(l))
          BY <1>1, <4>1
        <5>2. m[j] = r[j - Len(l)]
          BY <1>1, <5>1
        <5> QED BY <5>1, <5>2, <2>2, <3>1
      <4> QED BY <4>1, <1>1
    <3>2. IndicesOf(m, k) = IndicesOf(l, k)
      BY <1>1, <3>1 DEF IndicesOf
    <3>3. IndicesOf(l, k) # {} =>
            m[LastOf(IndicesOf(l, k))] = l[LastOf(IndicesOf(l, k))]
      BY <1>1, LastIn
    <3>4. ApplyLog(m, d)[k] = ApplyLog(l, d)[k]
      BY <3>2, <3>3, ApplyAt
    <3> QED BY <1>0, <2>2, <3>4
  <2> QED BY <2>1, <2>2
<1>4. \A k \in Keys : EmptyDb[k] = nil
  BY DEF EmptyDb
<1>5. ApplyLog(m, d) = EmptyDb
  BY <1>2, <1>3, <1>4, SameDatabase
<1> QED BY <1>5 DEF m

-----------------------------------------------------------------------------
(* The state of the processes and the file. *)

\* A process that has no store holds nothing.
ClosedIsEmpty ==
  \A p \in Procs : pc[p] = "none" =>
    version[p] = 0 /\ log[p] = <<>> /\ db[p] = EmptyDb /\ base[p] = EmptyDb

CopyInv == TypeOK /\ ClosedIsEmpty /\ CopyIsBasePlusLog

\* The empty database is a database, and not a missing one.
LEMMA EmptyDbType == EmptyDb \in Databases /\ \A d \in Databases : d # <<>>
<1>1. EmptyDb \in Databases
  BY DEF EmptyDb, Databases
<1>2. ASSUME NEW d \in Databases, d = <<>>
      PROVE  FALSE
  <2>1. DOMAIN d = Keys /\ Keys # {}
    BY KVAssumption DEF Databases
  <2>2. DOMAIN <<>> = {}
    OBVIOUS
  <2> QED BY <2>1, <2>2, <1>2
<1> QED BY <1>1, <1>2

\* A removal list is a log of removals, one for each key present.
LEMMA RemovalsType ==
  ASSUME TypeOK, NEW p \in Procs, NEW r \in Removals(p)
  PROVE  r \in Seq(Changes) /\ Clears(r, db[p])
<1> DEFINE present == {k \in Keys : db[p][k] # nil}
<1> DEFINE n == Cardinality(present)
<1>0. n \in Nat
  BY KVAssumption, FS_Subset, FS_CardinalityType
<1>1. PICK f \in [1..n -> present] :
        /\ r = [i \in DOMAIN f |-> [key |-> f[i], value |-> nil]]
        /\ IsInjective(f) /\ {f[i] : i \in DOMAIN f} = present
  BY DEF Removals
<1> HIDE DEF n
<1>2. n \in Nat /\ DOMAIN f = 1..n /\ \A i \in 1..n : f[i] \in Keys /\ f[i] \in present
  BY <1>0, <1>1
<1>3. r = [i \in 1..n |-> [key |-> f[i], value |-> nil]]
  BY <1>1, <1>2
<1>4. r \in [1..n -> Changes]
  BY <1>2, <1>3 DEF Changes
<1>5. r \in Seq(Changes) /\ Len(r) = n
  BY <1>2, <1>4
<1>6. \A i \in 1..n : r[i].key = f[i] /\ r[i].value = nil
  BY <1>3
<1>7. \A i, j \in 1..n : f[i] = f[j] => i = j
  BY <1>1, <1>2 DEF IsInjective
<1>8. \A k \in Keys : db[p][k] # nil <=> \E i \in 1..n : f[i] = k
  BY <1>1, <1>2
<1> HIDE DEF present
<1> QED BY <1>5, <1>6, <1>7, <1>8 DEF Clears

\* What a load leaves: the own changes on top of what is now the base.
LEMMA LoadKeepsCopy ==
  ASSUME TypeOK, CopyIsBasePlusLog, NEW p \in Procs, LoadAndMerge(p)
  PROVE  /\ db' \in [Procs -> Databases] /\ base' \in [Procs -> Databases]
         /\ version' \in [Procs -> Nat]
         /\ \A q \in Procs : db'[q] = ApplyLog(log[q], base'[q])
         /\ \A q \in Procs : q # p => db'[q] = db[q] /\ base'[q] = base[q] /\ version'[q] = version[q]
<1>1. CASE Loads(p)
  <2>1. disk.d \in Databases /\ disk.v \in Nat
    BY <1>1 DEF TypeOK, Loads, Readable
  <2>2. log[p] \in Seq(Changes)
    BY DEF TypeOK, Changes
  <2>3. ApplyLog(log[p], disk.d) \in Databases
    BY <2>1, <2>2, ApplyType
  <2>4. /\ db' = [db EXCEPT ![p] = ApplyLog(log[p], disk.d)]
        /\ base' = [base EXCEPT ![p] = disk.d]
        /\ version' = [version EXCEPT ![p] = disk.v]
    BY <1>1 DEF LoadAndMerge
  <2> QED BY <2>1, <2>3, <2>4 DEF TypeOK, CopyIsBasePlusLog
<1>2. CASE ~Loads(p)
  BY <1>2 DEF LoadAndMerge, TypeOK, CopyIsBasePlusLog
<1> QED BY <1>1, <1>2

\* Every step keeps the copies exact.
LEMMA CopyStep == CopyInv /\ [KVNext]_kvVars => CopyInv'
<1> SUFFICES ASSUME CopyInv, [KVNext]_kvVars
             PROVE  CopyInv'
  OBVIOUS
<1> USE DEF CopyInv
<1>1. ASSUME NEW p \in Procs, NewStore(p)
      PROVE  CopyInv'
  <2>1. LoadAndMerge(p) /\ pc[p] = "none" /\ pc' = [pc EXCEPT ![p] = "open"]
        /\ suspect' \subseteq suspect \cup Procs /\ UNCHANGED <<log, changes, disk, saved, torn>>
    BY <1>1 DEF NewStore
  <2>2. TypeOK'
    BY <2>1, LoadKeepsCopy DEF TypeOK, PcStates
  <2>3. ClosedIsEmpty'
    BY <2>1, LoadKeepsCopy DEF ClosedIsEmpty, TypeOK
  <2>4. CopyIsBasePlusLog'
    BY <2>1, LoadKeepsCopy DEF CopyIsBasePlusLog
  <2> QED BY <2>2, <2>3, <2>4
<1>2. ASSUME NEW p \in Procs, NEW k \in Keys, NEW v \in Values \cup {nil}, Change(p, k, v)
      PROVE  CopyInv'
  <2> DEFINE c == [key |-> k, value |-> v]
  <2>1. c \in Changes /\ log[p] \in Seq(Changes) /\ base[p] \in Databases /\ db[p] \in Databases
    BY DEF Changes, TypeOK
  <2>2. /\ db' = [db EXCEPT ![p] = [db[p] EXCEPT ![k] = v]]
        /\ log' = [log EXCEPT ![p] = Append(log[p], c)]
        /\ changes[p] < MaxChanges[p] /\ changes' = [changes EXCEPT ![p] = changes[p] + 1]
        /\ pc[p] = "open" /\ UNCHANGED <<pc, version, disk, base, saved, suspect, torn>>
    BY <1>2 DEF Change
  <2>3. Append(log[p], c) \in Seq(Changes) /\ [db[p] EXCEPT ![k] = v] \in Databases
    BY <2>1 DEF Databases
  <2>4. ApplyLog(Append(log[p], c), base[p]) = [db[p] EXCEPT ![k] = v]
    <3>1. ApplyLog(Append(log[p], c), base[p])
            = [ApplyLog(log[p], base[p]) EXCEPT ![c.key] = c.value]
      BY <2>1, ApplyAppend
    <3> QED BY <3>1 DEF CopyIsBasePlusLog
  <2> HIDE DEF c
  <2>5. TypeOK'
    <3>1. changes[p] + 1 \in Nat
      BY DEF TypeOK
    <3>2. log' \in [Procs -> Seq(Changes)] /\ db' \in [Procs -> Databases]
          /\ changes' \in [Procs -> Nat]
      BY <2>2, <2>3, <3>1 DEF TypeOK, Changes
    <3> QED BY <2>2, <3>2 DEF TypeOK, Changes
  <2>6. ClosedIsEmpty'
    BY <2>2 DEF ClosedIsEmpty, TypeOK
  <2>7. CopyIsBasePlusLog'
    BY <2>2, <2>4 DEF CopyIsBasePlusLog, TypeOK
  <2> QED BY <2>5, <2>6, <2>7
<1>3. ASSUME NEW p \in Procs, RemoveAll(p)
      PROVE  CopyInv'
  <2>1. PICK r \in Removals(p) : log' = [log EXCEPT ![p] = log[p] \o r]
    BY <1>3 DEF RemoveAll
  <2>2. /\ db' = [db EXCEPT ![p] = EmptyDb] /\ changes' = [changes EXCEPT ![p] = MaxChanges[p]]
        /\ pc[p] = "open" /\ UNCHANGED <<pc, version, disk, base, saved, suspect, torn>>
    BY <1>3 DEF RemoveAll
  <2>3. log[p] \in Seq(Changes) /\ base[p] \in Databases /\ db[p] = ApplyLog(log[p], base[p])
    BY DEF Changes, TypeOK, CopyIsBasePlusLog
  <2>4. ApplyLog(log[p] \o r, base[p]) = EmptyDb
    <3>1. r \in Seq(Changes) /\ Clears(r, ApplyLog(log[p], base[p]))
      BY <2>3, RemovalsType
    <3> QED
      BY <2>3, <3>1, ApplyRemovals
  <2>5. log[p] \o r \in Seq(Changes)
    BY <2>3, RemovalsType
  <2>6. TypeOK'
    <3>1. db' \in [Procs -> Databases] /\ changes' \in [Procs -> Nat]
      BY <2>2, EmptyDbType, KVAssumption DEF TypeOK
    <3>2. log' \in [Procs -> Seq(Changes)]
      <4>1. log \in [Procs -> Seq(Changes)]
        BY DEF TypeOK, Changes
      <4> QED BY <2>1, <2>5, <4>1
    <3> QED BY <2>2, <3>1, <3>2 DEF TypeOK, Changes
  <2>7. ClosedIsEmpty'
    BY <2>1, <2>2 DEF ClosedIsEmpty, TypeOK
  <2>8. CopyIsBasePlusLog'
    BY <2>1, <2>2, <2>4 DEF CopyIsBasePlusLog, TypeOK
  <2> QED BY <2>6, <2>7, <2>8
<1>4. ASSUME NEW p \in Procs, Peek(p)
      PROVE  CopyInv'
  <2>1. LoadAndMerge(p) /\ pc[p] = "open"
        /\ pc' = [pc EXCEPT ![p] = IF IsEmpty(disk) THEN "truncated" ELSE "peeked"]
        /\ suspect' \subseteq suspect \cup Procs /\ UNCHANGED <<log, changes, disk, saved, torn>>
    BY <1>4 DEF Peek
  <2>2. TypeOK'
    BY <2>1, LoadKeepsCopy DEF TypeOK, PcStates
  <2>3. ClosedIsEmpty'
    BY <2>1, LoadKeepsCopy DEF ClosedIsEmpty, TypeOK
  <2>4. CopyIsBasePlusLog'
    BY <2>1, LoadKeepsCopy DEF CopyIsBasePlusLog
  <2> QED BY <2>2, <2>3, <2>4
<1>5. ASSUME NEW p \in Procs, Truncate(p)
      PROVE  CopyInv'
  BY <1>5 DEF Truncate, TypeOK, PcStates, NoData, ClosedIsEmpty, CopyIsBasePlusLog
<1>6. ASSUME NEW p \in Procs, WriteVersion(p)
      PROVE  CopyInv'
  <2>1. TypeOK'
    <3>1. pc' \in [Procs -> PcStates] /\ version' \in [Procs -> Nat]
      BY <1>6 DEF WriteVersion, TypeOK, PcStates
    <3>2. disk' \in [v : Nat, d : Databases \cup {<<>>}]
      BY <1>6, <3>1 DEF WriteVersion, TypeOK
    <3> QED BY <1>6, <3>1, <3>2 DEF WriteVersion, TypeOK
  <2>2. ClosedIsEmpty' /\ CopyIsBasePlusLog'
    BY <1>6 DEF WriteVersion, TypeOK, ClosedIsEmpty, CopyIsBasePlusLog
  <2> QED BY <2>1, <2>2
<1>7. ASSUME NEW p \in Procs, WriteData(p)
      PROVE  CopyInv'
  <2>1. /\ disk' = [disk EXCEPT !.d = db[p]] /\ base' = [base EXCEPT ![p] = db[p]]
        /\ saved' \in {db[p], ApplyLog(log[p], saved)} /\ log' = [log EXCEPT ![p] = <<>>]
        /\ pc[p] = "half" /\ pc' = [pc EXCEPT ![p] = "open"]
        /\ UNCHANGED <<db, version, changes, suspect, torn>>
    BY <1>7 DEF WriteData
  <2>2. db[p] \in Databases /\ ApplyLog(<<>>, db[p]) = db[p]
    BY ApplyEmpty DEF TypeOK
  <2>3. ApplyLog(log[p], saved) \in Databases
    BY ApplyType DEF TypeOK, Changes
  <2>4. TypeOK'
    <3>1. pc' \in [Procs -> PcStates] /\ base' \in [Procs -> Databases] /\ saved' \in Databases
      BY <2>1, <2>2, <2>3 DEF TypeOK, PcStates
    <3>2. log' \in [Procs -> Seq(Changes)]
      <4>1. log \in [Procs -> Seq(Changes)]
        BY DEF TypeOK, Changes
      <4>2. <<>> \in Seq(Changes)
        OBVIOUS
      <4> QED BY <2>1, <4>1, <4>2
    <3>3. disk' \in [v : Nat, d : Databases \cup {<<>>}]
      BY <2>1, <2>2 DEF TypeOK
    <3> QED BY <2>1, <3>1, <3>2, <3>3 DEF TypeOK, Changes
  <2>5. ClosedIsEmpty'
    BY <2>1 DEF ClosedIsEmpty, TypeOK
  <2>6. CopyIsBasePlusLog'
    BY <2>1, <2>2 DEF CopyIsBasePlusLog, TypeOK
  <2> QED BY <2>4, <2>5, <2>6
<1>8. ASSUME NEW p \in Procs, Crash(p)
      PROVE  CopyInv'
  <2>1. ApplyLog(<<>>, EmptyDb) = EmptyDb /\ EmptyDb \in Databases
    BY EmptyDbType, ApplyEmpty
  <2>2. TypeOK'
    <3>1. pc' \in [Procs -> PcStates] /\ db' \in [Procs -> Databases]
          /\ base' \in [Procs -> Databases] /\ version' \in [Procs -> Nat]
      BY <1>8, <2>1 DEF Crash, TypeOK, PcStates
    <3>2. log' \in [Procs -> Seq(Changes)]
      <4>1. log \in [Procs -> Seq(Changes)]
        BY DEF TypeOK, Changes
      <4>2. <<>> \in Seq(Changes)
        OBVIOUS
      <4> QED BY <1>8, <4>1, <4>2 DEF Crash
    <3>3. torn' \in BOOLEAN
      BY <1>8, Zenon DEF Crash
    <3> QED BY <1>8, <3>1, <3>2, <3>3 DEF Crash, TypeOK, Changes
  <2>3. ClosedIsEmpty'
    BY <1>8 DEF Crash, ClosedIsEmpty, TypeOK
  <2>4. CopyIsBasePlusLog'
    BY <1>8, <2>1 DEF Crash, CopyIsBasePlusLog, TypeOK
  <2> QED BY <2>2, <2>3, <2>4
<1>9. CASE UNCHANGED kvVars
  BY <1>9 DEF kvVars, TypeOK, ClosedIsEmpty, CopyIsBasePlusLog
<1> QED BY <1>1, <1>2, <1>3, <1>4, <1>5, <1>6, <1>7, <1>8, <1>9 DEF KVNext, Save

\* NewStore on a missing file: nothing loaded, nothing logged.
LEMMA CopyInit == KVInit => CopyInv
<1> SUFFICES ASSUME KVInit
             PROVE  CopyInv
  OBVIOUS
<1>1. ApplyLog(<<>>, EmptyDb) = EmptyDb /\ EmptyDb \in Databases
  BY EmptyDbType, ApplyEmpty
<1>2. TypeOK
  <2>1. /\ pc \in [Procs -> PcStates] /\ db \in [Procs -> Databases]
        /\ base \in [Procs -> Databases] /\ saved \in Databases
    BY <1>1 DEF KVInit, PcStates
  <2>2. version \in [Procs -> Nat] /\ changes \in [Procs -> Nat]
    BY KVAssumption DEF KVInit
  <2>3. log \in [Procs -> Seq(Changes)]
    BY DEF KVInit
  <2>4. disk \in [v : Nat, d : Databases \cup {<<>>}]
    BY DEF KVInit, NoData
  <2>5. torn \in BOOLEAN /\ suspect \subseteq Procs
    BY DEF KVInit
  <2> QED BY <2>1, <2>2, <2>3, <2>4, <2>5 DEF TypeOK, Changes
<1> QED BY <1>1, <1>2 DEF KVInit, CopyInv, ClosedIsEmpty, CopyIsBasePlusLog

\* The state of the store keeps its type.
THEOREM StoreTypeCorrect == KVSpec => []TypeOK
<1>1. CopyInv => TypeOK
  BY DEF CopyInv
<1> QED BY <1>1, CopyInit, CopyStep, PTL DEF KVSpec

\* Set, Remove, RemoveAll, Save and the merges of Save: the copy in memory is
\* always the database last loaded or saved with the unsaved changes on top.
THEOREM CopyExact == KVSpec => []CopyIsBasePlusLog
<1>1. CopyInv => CopyIsBasePlusLog
  BY DEF CopyInv
<1> QED BY <1>1, CopyInit, CopyStep, PTL DEF KVSpec

-----------------------------------------------------------------------------
(* Saves that overlap, and those that do not. *)

Writing(p) == pc[p] \in {"truncated", "half"}

\* The process has loaded the file since saves last overlapped.
Clean(q) == pc[q] # "none" /\ q \notin suspect

AllSuspect == \A q \in Procs : ~Clean(q)

\* Nothing was ever saved.
Virgin == disk = NoData /\ saved = EmptyDb /\ \A q \in Procs : version[q] = 0

\* What is missing in the file, a process is about to write; what is there was saved last.
FileState ==
  /\ disk.v = 0 => Virgin \/ \E p \in Procs : pc[p] = "truncated"
  /\ disk.d = <<>> => Virgin \/ \E p \in Procs : Writing(p)
  /\ disk.d # <<>> => disk.d = saved

\* A process whose save nothing overlaps has seen all earlier saves, and no clean process is ahead.
Current(p) ==
  /\ \A q \in Procs : Saving(q) => q = p
  /\ p \notin suspect => base[p] = saved
  /\ pc[p] = "peeked" => Readable(disk) /\ version[p] = disk.v
  /\ pc[p] = "truncated" => disk = NoData
  /\ pc[p] = "half" => disk.v = version[p] /\ disk.v # 0 /\ disk.d = <<>>
  /\ \A q \in Procs : Clean(q) /\ q # p =>
       /\ version[q] <= version[p]
       /\ pc[p] = "half" => version[q] < version[p]
       /\ pc[p] = "peeked" /\ version[q] = disk.v => base[q] = disk.d

SaverCurrent == \A p \in Procs : Saving(p) => AllSuspect \/ Current(p)

\* While no process saves, no clean process is ahead of the file.
FileNewest ==
  (\A p \in Procs : ~Saving(p)) =>
    \A q \in Procs : Clean(q) =>
      /\ version[q] <= disk.v
      /\ Readable(disk) /\ version[q] = disk.v => base[q] = disk.d

\* Version 0 is that of a process which has loaded nothing.
ZeroIsEmpty == \A p \in Procs : version[p] = 0 => base[p] = EmptyDb /\ pc[p] # "half"

Orderly == FileState /\ SaverCurrent /\ FileNewest /\ ZeroIsEmpty
SaveInv == CopyInv /\ (~torn => Orderly)

\* Before the first save the file is empty and every version is 0.
LEMMA SaveInit == KVInit => SaveInv
<1> SUFFICES ASSUME KVInit
             PROVE  SaveInv
  OBVIOUS
<1>1. FileState
  BY DEF KVInit, FileState, Virgin, NoData
<1>2. SaverCurrent /\ FileNewest /\ ZeroIsEmpty
  BY DEF KVInit, SaverCurrent, FileNewest, ZeroIsEmpty, Saving, Clean
<1> QED BY <1>1, <1>2, CopyInit DEF SaveInv, Orderly

\* While no process saves, the file is whole or was never written.
LEMMA WholeOrVirgin ==
  ASSUME FileState, \A p \in Procs : ~Saving(p)
  PROVE  Virgin \/ (Readable(disk) /\ disk.d = saved)
BY DEF FileState, Saving, Writing, Readable

\* NewStore: a process that opens the store is clean, unless a save may still overlap another.
LEMMA OpenStep ==
  ASSUME CopyInv, CopyInv', Orderly, NEW p \in Procs, NewStore(p)
  PROVE  Orderly'
<1>0. TypeOK /\ TypeOK'
  BY DEF CopyInv
<1>1. /\ pc[p] = "none" /\ pc' = [pc EXCEPT ![p] = "open"] /\ LoadAndMerge(p)
      /\ UNCHANGED <<log, changes, disk, saved, torn>>
      /\ version[p] = 0 /\ base[p] = EmptyDb
      /\ IsEmpty(disk) \/ Readable(disk)
      /\ suspect' = IF \E q \in suspect : Saving(q) THEN suspect \cup {p} ELSE suspect
  BY DEF NewStore, CopyInv, ClosedIsEmpty
<1>2. \A q \in Procs : q # p => version'[q] = version[q] /\ base'[q] = base[q] /\ pc'[q] = pc[q]
  BY <1>0, <1>1, LoadKeepsCopy DEF CopyInv, TypeOK
<1>3. \/ disk = NoData /\ version'[p] = 0 /\ base'[p] = EmptyDb
      \/ Readable(disk) /\ version'[p] = disk.v /\ base'[p] = disk.d
  <2>1. CASE Readable(disk)
    BY <1>0, <1>1, <2>1 DEF LoadAndMerge, Loads, Readable, TypeOK
  <2>2. CASE ~Readable(disk)
    BY <1>1, <2>2 DEF LoadAndMerge, Loads, IsEmpty
  <2> QED BY <2>1, <2>2
<1>4. /\ pc'[p] = "open" /\ ~Saving(p) /\ ~Saving(p)' /\ ~Writing(p) /\ ~Writing(p)'
      /\ \A q \in Procs : q # p => (Saving(q)' <=> Saving(q)) /\ (Writing(q)' <=> Writing(q))
                                   /\ (Clean(q)' <=> Clean(q))
  BY <1>0, <1>1, <1>2 DEF Saving, Writing, Clean, TypeOK
<1>5. FileState'
  <2>1. Virgin => Virgin'
    BY <1>1, <1>2, <1>3 DEF Virgin, Readable, NoData
  <2>2. \A q \in Procs : pc[q] = "truncated" => pc'[q] = "truncated"
    BY <1>1, <1>2
  <2> QED BY <1>1, <1>4, <2>1, <2>2 DEF Orderly, FileState
<1>6. ASSUME NEW q \in Procs, Saving(q)'
      PROVE  AllSuspect' \/ Current(q)'
  <2>1. q # p /\ Saving(q)
    BY <1>4, <1>6
  <2>2. CASE AllSuspect
    <3>1. q \in suspect
      BY <1>0, <2>1, <2>2 DEF AllSuspect, Clean, Saving
    <3>2. p \in suspect'
      BY <1>1, <2>1, <3>1
    <3> QED BY <1>4, <2>2, <3>2 DEF AllSuspect, Clean
  <2>3. CASE Current(q)
    <3>1. CASE q \in suspect
      <4>1. ~Clean(p)'
        BY <1>1, <2>1, <3>1 DEF Clean
      <4> QED BY <1>1, <1>2, <1>4, <2>1, <2>3, <3>1, <4>1 DEF Current, Readable
    <3>2. CASE q \notin suspect
      <4>1. /\ version'[p] <= version[q] /\ ~(pc[q] = "half")
            /\ pc[q] = "peeked" /\ version'[p] = disk.v => base'[p] = disk.d
        BY <1>0, <1>1, <1>3, <2>1, <2>3 DEF Current, Saving, Readable, NoData, TypeOK, IsEmpty
      <4>2. UNCHANGED suspect
        BY <1>1, <2>3, <3>2, <1>0 DEF Current, TypeOK
      <4> QED BY <1>1, <1>2, <1>4, <2>1, <2>3, <3>2, <4>1, <4>2 DEF Current, Readable
    <3> QED BY <3>1, <3>2
  <2> QED BY <2>1, <2>2, <2>3 DEF Orderly, SaverCurrent
<1>7. SaverCurrent'
  BY <1>6 DEF SaverCurrent
<1>8. FileNewest'
  <2> SUFFICES ASSUME \A q \in Procs : ~Saving(q)', NEW q \in Procs, Clean(q)'
               PROVE  (version[q] <= disk.v /\ (Readable(disk) /\ version[q] = disk.v => base[q] = disk.d))'
    BY DEF FileNewest
  <2>1. CASE q = p
    BY <1>0, <1>1, <1>3, <2>1 DEF TypeOK, NoData, Readable
  <2>2. CASE q # p
    BY <1>1, <1>2, <1>4, <2>2 DEF Orderly, FileNewest, Readable
  <2> QED BY <2>1, <2>2
<1>9. ZeroIsEmpty'
  BY <1>2, <1>3, <1>4 DEF Orderly, ZeroIsEmpty, Readable
<1> QED BY <1>5, <1>7, <1>8, <1>9 DEF Orderly

\* Save, its look at the file: beside another save it makes every process suspect; alone it leaves
\* the process with the newest version.
LEMMA PeekStep ==
  ASSUME CopyInv, CopyInv', Orderly, NEW p \in Procs, Peek(p)
  PROVE  Orderly'
<1>0. TypeOK /\ TypeOK'
  BY DEF CopyInv
<1>1. /\ pc[p] = "open" /\ LoadAndMerge(p) /\ UNCHANGED <<log, changes, disk, saved, torn>>
      /\ pc' = [pc EXCEPT ![p] = IF IsEmpty(disk) THEN "truncated" ELSE "peeked"]
      /\ suspect' = IF \E q \in Procs : Saving(q) THEN {q \in Procs : pc[q] # "none"}
                    ELSE IF Loads(p) THEN suspect \ {p} ELSE suspect
  BY DEF Peek
<1>2. \A q \in Procs : q # p => version'[q] = version[q] /\ base'[q] = base[q] /\ pc'[q] = pc[q]
  BY <1>0, <1>1, LoadKeepsCopy DEF CopyInv, TypeOK
<1>3. IF Loads(p) THEN version'[p] = disk.v /\ base'[p] = disk.d
                  ELSE version'[p] = version[p] /\ base'[p] = base[p]
  BY <1>0, <1>1 DEF LoadAndMerge, TypeOK
<1>4. /\ ~Saving(p) /\ Saving(p)' /\ ~Writing(p) /\ pc'[p] = (IF IsEmpty(disk) THEN "truncated" ELSE "peeked")
      /\ \A q \in Procs : q # p => (Saving(q)' <=> Saving(q)) /\ (Writing(q)' <=> Writing(q))
  BY <1>0, <1>1, <1>2 DEF Saving, Writing, TypeOK
<1>5. FileState'
  <2>1. Virgin => Virgin'
    BY <1>1, <1>2, <1>3 DEF Virgin, Readable, NoData, Loads
  <2>2. \A q \in Procs : (pc[q] = "truncated" => pc'[q] = "truncated") /\ (Writing(q) => Writing(q)')
    BY <1>1, <1>2, <1>4
  <2> QED BY <1>1, <2>1, <2>2 DEF Orderly, FileState
<1>6. ZeroIsEmpty'
  BY <1>2, <1>3, <1>4 DEF Orderly, ZeroIsEmpty, Readable, Loads
<1>7. FileNewest'
  BY <1>4 DEF FileNewest
<1>8. SaverCurrent'
  <2>1. CASE \E q \in Procs : Saving(q)
    <3>1. \A q \in Procs : pc'[q] # "none" => q \in suspect'
      BY <1>1, <1>2, <2>1
    <3> QED BY <3>1 DEF SaverCurrent, AllSuspect, Clean
  <2>2. CASE \A q \in Procs : ~Saving(q)
    <3>1. \A q \in Procs : Saving(q)' => q = p
      BY <1>4, <2>2
    <3>2. suspect' = IF Loads(p) THEN suspect \ {p} ELSE suspect
      BY <1>1, <2>2
    <3>3. \A q \in Procs : q # p => (Clean(q)' <=> Clean(q))
      BY <1>2, <3>2 DEF Clean
    <3>4. p \notin suspect => Clean(p)
      BY <1>1 DEF Clean
    <3>5. \A q \in Procs : Clean(q) =>
            /\ version[q] <= disk.v
            /\ Readable(disk) /\ version[q] = disk.v => base[q] = disk.d
      BY <2>2 DEF Orderly, FileNewest
    <3>6. CASE Virgin
      <4>1. ~Loads(p) /\ IsEmpty(disk) /\ pc'[p] = "truncated" /\ base'[p] = saved /\ version'[p] = 0
        BY <1>3, <1>4, <3>6 DEF Virgin, Loads, Readable, NoData, IsEmpty, Orderly, ZeroIsEmpty
      <4>2. \A q \in Procs : version'[q] = 0
        BY <1>2, <3>6, <4>1 DEF Virgin
      <4>3. Current(p)'
        BY <1>1, <3>1, <3>6, <4>1, <4>2 DEF Current, Virgin
      <4> QED BY <3>1, <4>3 DEF SaverCurrent
    <3>7. CASE Readable(disk) /\ disk.d = saved
      <4>1. ~IsEmpty(disk) /\ pc'[p] = "peeked"
        BY <1>4, <3>7 DEF Readable, IsEmpty, NoData
      <4>2. version'[p] = disk.v /\ (p \notin suspect' => base'[p] = saved)
        <5>1. CASE Loads(p)
          BY <1>3, <3>7, <5>1
        <5>2. CASE ~Loads(p)
          BY <1>3, <3>2, <3>4, <3>5, <3>7, <5>2 DEF Loads
        <5> QED BY <5>1, <5>2
      <4>3. ASSUME NEW q \in Procs, Clean(q)', q # p
            PROVE  /\ version'[q] <= version'[p]
                   /\ version'[q] = disk'.v => base'[q] = disk'.d
        BY <1>1, <1>2, <3>3, <3>5, <3>7, <4>2, <4>3
      <4>4. Current(p)'
        BY <1>1, <3>1, <3>7, <4>1, <4>2, <4>3 DEF Current, Readable
      <4> QED BY <3>1, <4>4 DEF SaverCurrent
    <3> QED BY <2>2, <3>6, <3>7, WholeOrVirgin DEF Orderly
  <2> QED BY <2>1, <2>2
<1> QED BY <1>5, <1>6, <1>7, <1>8 DEF Orderly

\* Save, the truncation of the file.
LEMMA TruncateStep ==
  ASSUME CopyInv, CopyInv', Orderly, NEW p \in Procs, Truncate(p)
  PROVE  Orderly'
<1>0. TypeOK /\ TypeOK'
  BY DEF CopyInv
<1>1. /\ pc[p] = "peeked" /\ disk' = NoData /\ pc' = [pc EXCEPT ![p] = "truncated"]
      /\ UNCHANGED <<db, log, version, changes, base, saved, suspect, torn>>
  BY DEF Truncate
<1>2. /\ pc'[p] = "truncated" /\ Saving(p) /\ Saving(p)' /\ Writing(p)'
      /\ \A q \in Procs : q # p => pc'[q] = pc[q]
      /\ \A q \in Procs : (Saving(q)' <=> Saving(q)) /\ (Clean(q)' <=> Clean(q))
  BY <1>0, <1>1 DEF Saving, Writing, Clean, TypeOK
<1>3. FileState' /\ FileNewest' /\ ZeroIsEmpty'
  BY <1>1, <1>2 DEF FileState, FileNewest, Orderly, ZeroIsEmpty, NoData
<1>4. CASE AllSuspect
  <2>1. AllSuspect'
    BY <1>0, <1>1, <1>4 DEF AllSuspect, Clean, TypeOK
  <2> QED BY <1>3, <2>1 DEF Orderly, SaverCurrent
<1>5. CASE Current(p)
  <2>1. Current(p)'
    BY <1>1, <1>2, <1>5 DEF Current
  <2>2. \A q \in Procs : Saving(q)' => q = p
    BY <1>2, <1>5 DEF Current
  <2> QED BY <1>3, <2>1, <2>2 DEF Orderly, SaverCurrent
<1> QED BY <1>2, <1>3, <1>4, <1>5 DEF Orderly, SaverCurrent

\* Save, the version: it is newer than that of every clean process.
LEMMA VersionStep ==
  ASSUME CopyInv, CopyInv', Orderly, NEW p \in Procs, WriteVersion(p)
  PROVE  Orderly'
<1>0. TypeOK /\ TypeOK'
  BY DEF CopyInv
<1>1. /\ pc[p] = "truncated" /\ version' = [version EXCEPT ![p] = version[p] + 1]
      /\ disk' = [disk EXCEPT !.v = version'[p]] /\ pc' = [pc EXCEPT ![p] = "half"]
      /\ UNCHANGED <<db, log, changes, base, saved, suspect, torn>>
  BY DEF WriteVersion
<1>2. /\ pc'[p] = "half" /\ Saving(p) /\ Saving(p)' /\ Writing(p)'
      /\ \A q \in Procs : q # p => pc'[q] = pc[q]
      /\ \A q \in Procs : (Saving(q)' <=> Saving(q)) /\ (Clean(q)' <=> Clean(q))
  BY <1>0, <1>1 DEF Saving, Writing, Clean, TypeOK
<1>3. /\ version'[p] = version[p] + 1 /\ version[p] \in Nat
      /\ disk'.v = version'[p] /\ disk'.d = disk.d
      /\ \A q \in Procs : q # p => version'[q] = version[q] /\ version[q] \in Nat
  BY <1>0, <1>1 DEF TypeOK
<1>4. FileState' /\ FileNewest' /\ ZeroIsEmpty'
  BY <1>1, <1>2, <1>3 DEF FileState, FileNewest, Orderly, ZeroIsEmpty
<1>5. CASE AllSuspect
  <2>1. AllSuspect'
    BY <1>0, <1>1, <1>5 DEF AllSuspect, Clean, TypeOK
  <2> QED BY <1>4, <2>1 DEF Orderly, SaverCurrent
<1>6. CASE Current(p)
  <2>1. Current(p)'
    BY <1>1, <1>2, <1>3, <1>6 DEF Current, NoData
  <2>2. \A q \in Procs : Saving(q)' => q = p
    BY <1>2, <1>6 DEF Current
  <2> QED BY <1>4, <2>1, <2>2 DEF Orderly, SaverCurrent
<1> QED BY <1>2, <1>4, <1>5, <1>6 DEF Orderly, SaverCurrent

\* Save, the database.
LEMMA DataStep ==
  ASSUME CopyInv, CopyInv', Orderly, NEW p \in Procs, WriteData(p)
  PROVE  Orderly'
<1>0. TypeOK /\ TypeOK'
  BY DEF CopyInv
<1>1. /\ pc[p] = "half" /\ disk' = [disk EXCEPT !.d = db[p]]
      /\ base' = [base EXCEPT ![p] = db[p]]
      /\ saved' = IF p \in suspect THEN db[p] ELSE ApplyLog(log[p], saved)
      /\ pc' = [pc EXCEPT ![p] = "open"] /\ UNCHANGED <<db, version, changes, suspect, torn>>
  BY DEF WriteData
<1>2. /\ pc'[p] = "open" /\ Saving(p) /\ ~Saving(p)' /\ ~Writing(p)' /\ base'[p] = db[p]
      /\ \A q \in Procs : q # p => pc'[q] = pc[q] /\ base'[q] = base[q]
                                   /\ (Saving(q)' <=> Saving(q)) /\ (Writing(q)' <=> Writing(q))
      /\ \A q \in Procs : Clean(q)' <=> Clean(q)
  BY <1>0, <1>1 DEF Saving, Writing, Clean, TypeOK
<1>3. AllSuspect \/ Current(p)
  BY <1>2 DEF Orderly, SaverCurrent
<1>4. disk'.v = disk.v /\ disk'.d = db[p] /\ db[p] \in Databases /\ db[p] # <<>>
  BY <1>0, <1>1, EmptyDbType DEF TypeOK
<1>5. saved' = db[p]
  <2>1. CASE p \in suspect
    BY <1>1, <2>1
  <2>2. CASE p \notin suspect
    <3>1. base[p] = saved
      BY <1>1, <1>3, <2>2 DEF AllSuspect, Clean, Current
    <3> QED BY <1>1, <2>2, <3>1 DEF CopyInv, CopyIsBasePlusLog
  <2> QED BY <2>1, <2>2
<1>6. version[p] # 0
  BY <1>1 DEF Orderly, ZeroIsEmpty
<1>7. FileState'
  <2>1. CASE disk.v = 0
    <3>1. ~Virgin
      BY <1>6 DEF Virgin
    <3>2. \E q \in Procs : pc'[q] = "truncated"
      BY <1>1, <1>2, <2>1, <3>1 DEF Orderly, FileState
    <3> QED BY <1>4, <1>5, <3>2 DEF FileState
  <2>2. CASE disk.v # 0
    BY <1>4, <1>5, <2>2 DEF FileState
  <2> QED BY <2>1, <2>2
<1>8. ZeroIsEmpty'
  BY <1>1, <1>2, <1>6 DEF Orderly, ZeroIsEmpty
<1>9. CASE AllSuspect
  <2>1. AllSuspect'
    BY <1>0, <1>1, <1>9 DEF AllSuspect, Clean, TypeOK
  <2> QED BY <1>7, <1>8, <2>1 DEF Orderly, SaverCurrent, FileNewest, AllSuspect
<1>10. CASE Current(p)
  <2>1. \A q \in Procs : ~Saving(q)'
    BY <1>2, <1>10 DEF Current
  <2>2. ASSUME NEW q \in Procs, Clean(q)'
        PROVE  version'[q] <= disk'.v /\ (version'[q] = disk'.v => base'[q] = disk'.d)
    <3>1. disk.v = version[p]
      BY <1>1, <1>10 DEF Current
    <3>2. CASE q = p
      BY <1>0, <1>1, <1>2, <1>4, <3>1, <3>2 DEF TypeOK
    <3>3. CASE q # p
      <4>1. version[q] < version[p]
        BY <1>1, <1>2, <1>10, <2>2, <3>3 DEF Current
      <4> QED BY <1>0, <1>1, <1>4, <3>1, <4>1 DEF TypeOK
    <3> QED BY <3>2, <3>3
  <2>3. SaverCurrent' /\ FileNewest'
    BY <2>1, <2>2 DEF SaverCurrent, FileNewest
  <2> QED BY <1>7, <1>8, <2>3 DEF Orderly
<1> QED BY <1>3, <1>9, <1>10

\* A process that ends outside Save changes nothing for the others.
LEMMA CrashStep ==
  ASSUME CopyInv, CopyInv', Orderly, NEW p \in Procs, Crash(p), ~Saving(p)
  PROVE  Orderly'
<1>0. TypeOK /\ TypeOK'
  BY DEF CopyInv
<1>1. /\ pc[p] # "none" /\ pc' = [pc EXCEPT ![p] = "none"]
      /\ base' = [base EXCEPT ![p] = EmptyDb] /\ version' = [version EXCEPT ![p] = 0]
      /\ suspect' = suspect \ {p} /\ UNCHANGED <<changes, disk, saved>>
  BY DEF Crash
<1>2. /\ pc'[p] = "none" /\ ~Saving(p)' /\ ~Writing(p) /\ ~Clean(p)' /\ version'[p] = 0 /\ base'[p] = EmptyDb
      /\ \A q \in Procs : q # p => pc'[q] = pc[q] /\ base'[q] = base[q] /\ version'[q] = version[q]
                                   /\ (Saving(q)' <=> Saving(q)) /\ (Writing(q)' <=> Writing(q))
                                   /\ (Clean(q)' <=> Clean(q))
  BY <1>0, <1>1 DEF Saving, Writing, Clean, TypeOK
<1>3. FileState'
  <2>1. Virgin => Virgin'
    BY <1>1, <1>2 DEF Virgin
  <2>2. \A q \in Procs : (pc[q] = "truncated" => pc'[q] = "truncated") /\ (Writing(q) => Writing(q)')
    BY <1>2 DEF Writing
  <2> QED BY <1>1, <2>1, <2>2 DEF Orderly, FileState
<1>4. ZeroIsEmpty'
  BY <1>2 DEF Orderly, ZeroIsEmpty
<1>5. FileNewest'
  BY <1>1, <1>2 DEF Orderly, FileNewest
<1>6. ASSUME NEW q \in Procs, Saving(q)'
      PROVE  AllSuspect' \/ Current(q)'
  <2>1. q # p /\ Saving(q)
    BY <1>2, <1>6
  <2>2. AllSuspect => AllSuspect'
    BY <1>2 DEF AllSuspect
  <2>3. Current(q) => Current(q)'
    BY <1>1, <1>2, <2>1 DEF Current
  <2> QED BY <2>1, <2>2, <2>3 DEF Orderly, SaverCurrent
<1> QED BY <1>3, <1>4, <1>5, <1>6 DEF Orderly, SaverCurrent

\* Every step keeps the file in order, as long as no process is killed within Save.
LEMMA SaveStep == SaveInv /\ [KVNext]_kvVars => SaveInv'
<1> SUFFICES ASSUME SaveInv, [KVNext]_kvVars
             PROVE  SaveInv'
  OBVIOUS
<1>0. CopyInv /\ CopyInv'
  BY CopyStep DEF SaveInv
<1> SUFFICES ASSUME ~torn'
             PROVE  Orderly'
  BY <1>0 DEF SaveInv
<1>1. torn => torn'
  BY DEF KVNext, Save, NewStore, Change, RemoveAll, Peek, Truncate, WriteVersion, WriteData, Crash, kvVars
<1>2. Orderly
  BY <1>1 DEF SaveInv
<1>3. ASSUME UNCHANGED <<pc, version, disk, base, saved, suspect>>
      PROVE  Orderly'
  BY <1>2, <1>3 DEF Orderly, FileState, SaverCurrent, FileNewest, ZeroIsEmpty, AllSuspect, Current,
                    Virgin, Clean, Saving, Writing, Readable
<1>4. ASSUME NEW p \in Procs, NEW k \in Keys, NEW v \in Values \cup {nil}, Change(p, k, v)
      PROVE  Orderly'
  BY <1>3, <1>4 DEF Change
<1>5. ASSUME NEW p \in Procs, RemoveAll(p)
      PROVE  Orderly'
  BY <1>3, <1>5 DEF RemoveAll
<1>6. ASSUME NEW p \in Procs, Crash(p)
      PROVE  Orderly'
  <2>1. ~Saving(p)
    BY <1>6 DEF Crash
  <2> QED BY <1>0, <1>2, <1>6, <2>1, CrashStep
<1>7. CASE UNCHANGED kvVars
  BY <1>3, <1>7 DEF kvVars
<1> QED BY <1>0, <1>2, <1>4, <1>5, <1>6, <1>7, OpenStep, PeekStep, TruncateStep, VersionStep, DataStep
        DEF KVNext, Save

\* Save beside any other saves: a process that has loaded the file since saves last overlapped
\* and finds its own version in it finds the database it knows.
THEOREM VersionsTellApart == KVSpec => []SameVersionSameData
<1>1. SaveInv => SameVersionSameData
  <2> SUFFICES ASSUME SaveInv, ~torn, NEW p \in Procs \ suspect, pc[p] = "open",
                      Readable(disk), disk.v = version[p]
               PROVE  disk.d = base[p]
    BY DEF SameVersionSameData
  <2>1. Orderly /\ Clean(p)
    BY DEF SaveInv, Clean
  <2>2. CASE \A q \in Procs : ~Saving(q)
    BY <2>1, <2>2 DEF Orderly, FileNewest
  <2>3. ASSUME NEW q \in Procs, Saving(q)
        PROVE  disk.d = base[p]
    <3>1. Current(q) /\ q # p
      BY <2>1, <2>3 DEF Orderly, SaverCurrent, AllSuspect, Saving
    <3>2. pc[q] = "peeked"
      BY <2>3, <3>1 DEF Current, Saving, Readable, NoData
    <3> QED BY <2>1, <3>1, <3>2 DEF Current
  <2> QED BY <2>2, <2>3
<1> QED BY <1>1, SaveInit, SaveStep, PTL DEF KVSpec

\* Save beside any other saves: no change of a save that nothing overlapped is lost, if its process
\* had loaded the file since saves last overlapped; the file holds what such saves leave one after the other.
THEOREM Serializable == KVSpec => []NoLostUpdate
<1>1. SaveInv => NoLostUpdate
  <2> SUFFICES ASSUME SaveInv, ~torn, \A p \in Procs : ~Saving(p), ~IsEmpty(disk)
               PROVE  Readable(disk) /\ disk.d = saved
    BY DEF NoLostUpdate
  <2> QED BY WholeOrVirgin DEF SaveInv, Orderly, Virgin, IsEmpty
<1> QED BY <1>1, SaveInit, SaveStep, PTL DEF KVSpec
=============================================================================
