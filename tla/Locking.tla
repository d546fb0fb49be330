------------------------------ MODULE Locking ------------------------------
(***************************************************************************)
(* File locking: the client of locking/ with its cache of locks, the       *)
(* commands lock, unlock and locks, the write flags that the commands and  *)
(* the post-checkout, post-commit and post-merge hooks keep, and the lock  *)
(* verification of a push (commands/lockverifier.go, uploader.go).         *)
(*                                                                         *)
(* Each user has one clone and runs one command at a time; the commands of *)
(* different users interleave at every request to the server.  The server  *)
(* is external: it is modelled by what the client expects of it, creates   *)
(* at most one lock for a path and pages its lists.  A request can fail    *)
(* before or after the server acted on it.                                 *)
(***************************************************************************)
EXTENDS Integers, FiniteSets, FiniteSetsExt

CONSTANTS
  Users, Paths,
  Oids, OidOf,     \* what the committed versions of each path hold
  Contents,        \* how a version may be committed: kinds of AllContents
  Lockable,        \* paths that match a lockable pattern
  SshUsers,        \* users whose remote offers the pure SSH protocol
  PageSize,        \* locks in one response of the server
  Limits,          \* values of --limit, 0 for none
  MaxLocks,        \* bound: locks that are ever created
  MaxCommands      \* bound: commands, hooks and edits of each user

\* What the scan of a push meets at a path that a commit changed: a pointer, a small or a large file
\* that is none, the pointer of an empty file, or a blob that the remote has already (a version
\* restored or copied, or a deletion, which has no blob at all).
AllContents == {"pointer", "plain", "large", "empty", "known"}

ASSUME LockingAssumption ==
  /\ IsFiniteSet(Users) /\ IsFiniteSet(Paths) /\ SshUsers \subseteq Users
  /\ OidOf \in [Paths -> Oids] /\ Lockable \subseteq Paths /\ Contents \subseteq AllContents
  /\ PageSize \in Nat \ {0} /\ Limits \subseteq Nat
  /\ MaxLocks \in Nat \ {0} /\ MaxCommands \in [Users -> Nat]

VARIABLES
  \* ---- the server
  held,       \* IDs of the locks that exist
  lockOf,     \* path and owner of every lock ever created
  \* ---- each user's clone
  lockcache,  \* lockcache.db: the lock under each path key, and the ID keys
  listing,    \* the last lists written under cache/locks, for --cached: "remote" and "verifiable"
  writable,   \* paths with the write flag
  dirty,      \* paths with uncommitted changes
  changed,    \* versions of paths in commits that are not pushed
  verifyState, \* lfs.<url>.locksverify: "unknown", "enabled", "disabled"
  \* ---- each user's running command
  op, mem,    \* the command, and its copy of the lock cache
  commands,   \* commands of each user so far
  \* ---- history
  stable,     \* locks held since the running list of each user began
  unsaved,    \* own locks whose creation a failed command or response left uncached
  broken,     \* locks that ended without their owner's clone being told
  foreign     \* paths for which the cache was saved with another user's lock

serverVars  == <<held, lockOf>>
cloneVars   == <<lockcache, listing, writable, dirty, changed, verifyState>>
historyVars == <<unsaved, broken, foreign>>
vars == <<serverVars, cloneVars, op, mem, commands, stable, historyVars>>

Ids == 1..MaxLocks
NoCache == [path |-> [p \in Paths |-> 0], ids |-> {}]
NoOp == [kind |-> "idle", phase |-> "next", args |-> {}, force |-> FALSE,
         limit |-> 0, id |-> 0, ok |-> TRUE, made |-> {}, cursor |-> 0, ours |-> {},
         theirs |-> {}, verify |-> "unknown", versions |-> {}, left |-> {}, seen |-> {},
         unowned |-> {}]

\* getVerifyStateFor: set, unset for a host that is known to support locks, or unset.
VerifyStates == {"unknown", "enabled", "disabled"}

Versions == [path : Paths, content : Contents]
Blob(v)  == <<OidOf[v.path], v.content>>

\* The files that a lockable pattern of .gitattributes matches.
LockableIn(ps) == ps \cap Lockable

Init ==
  /\ held = {} /\ lockOf = <<>>
  /\ lockcache = [u \in Users |-> NoCache]
  /\ listing = [u \in Users |-> [remote |-> {}, verifiable |-> {}]]
  /\ writable = [u \in Users |-> Paths \ LockableIn(Paths)]
  /\ dirty = [u \in Users |-> {}] /\ changed = [u \in Users |-> {}]
  /\ \E v \in VerifyStates \ {"disabled"} : verifyState = [u \in Users |-> v]
  /\ op = [u \in Users |-> NoOp] /\ mem = [u \in Users |-> NoCache]
  /\ commands = [u \in Users |-> 0]
  /\ stable = [u \in Users |-> {}] /\ unsaved = {} /\ broken = {}
  /\ foreign = [u \in Users |-> {}]

Idle(u)    == op[u].kind = "idle"
Owned(u)   == {i \in held : lockOf[i].owner = u}
Smallest(S, n) == {i \in S : Cardinality({j \in S : j < i}) < n}

-----------------------------------------------------------------------------
(* The server. *)

\* One response to a list request: the locks from the cursor on, and the next cursor.
ServerPage(cursor) == Smallest({i \in held : i >= cursor}, PageSize)
ServerCursor(cursor) ==
  LET rest == {i \in held : i >= cursor} \ ServerPage(cursor) IN IF rest = {} THEN 0 ELSE Min(rest)

\* A lock ends: lists that run see it no more.
ServerUnlock(i) ==
  /\ held' = held \ {i} /\ UNCHANGED lockOf
  /\ stable' = [u \in Users |-> stable[u] \ {i}]

-----------------------------------------------------------------------------
(* The lock cache: a lock under its path and under its ID. *)

CacheAdd(c, i) == [path |-> [c.path EXCEPT ![lockOf[i].path] = i], ids |-> c.ids \cup {i}]

CacheAddAll(c, is) ==
  [path |-> [p \in Paths |-> LET at == {i \in is : lockOf[i].path = p}
                             IN IF at = {} THEN c.path[p] ELSE Max(at)],
   ids |-> c.ids \cup is]

CacheRemoveById(c, i) ==
  IF i \notin c.ids THEN c
  ELSE [path |-> [c.path EXCEPT ![lockOf[i].path] = 0], ids |-> c.ids \ {i}]

\* searchLocalLocks with a path filter, as IsFileLockedByCurrentCommitter asks.
IsFileLockedByCurrentCommitter(c, p) == c.path[p] # 0

-----------------------------------------------------------------------------
(* Commands begin with newLockClient, which loads the cache, and end with  *)
(* the deferred Close, which saves it, unless they leave through os.Exit.  *)

Counted(u) == commands[u] < MaxCommands[u] /\ commands' = [commands EXCEPT ![u] = @ + 1]

Begin(u, o) ==
  /\ Idle(u) /\ Counted(u)
  /\ op' = [op EXCEPT ![u] = o]

StartLock(u, ps) ==
  /\ Begin(u, [NoOp EXCEPT !.kind = "lock", !.args = ps])
  /\ mem' = [mem EXCEPT ![u] = lockcache[u]]
  /\ UNCHANGED <<serverVars, cloneVars, stable, historyVars>>

StartUnlock(u, ps, force) ==
  /\ Begin(u, [NoOp EXCEPT !.kind = "unlock", !.args = ps, !.force = force])
  /\ mem' = [mem EXCEPT ![u] = lockcache[u]]
  /\ UNCHANGED <<serverVars, cloneVars, stable, historyVars>>

\* unlock --id: what unlockAbortIfFileModifiedById returns is not looked at.
StartUnlockById(u, i, force) ==
  /\ Begin(u, [NoOp EXCEPT !.kind = "unlock", !.phase = "found", !.id = i, !.force = force])
  /\ mem' = [mem EXCEPT ![u] = lockcache[u]]
  /\ UNCHANGED <<serverVars, cloneVars, stable, historyVars>>

\* The next argument failed and the command goes on without it.
Failed(u, o) == op' = [op EXCEPT ![u] = [o EXCEPT !.phase = "next", !.id = 0, !.ok = FALSE]]

\* Mutant: the deferred Close does not run.
CloseClientForgets(u) ==
  /\ op' = [op EXCEPT ![u] = NoOp] /\ mem' = [mem EXCEPT ![u] = NoCache]
  /\ UNCHANGED lockcache

CloseClient(u) ==
  /\ op' = [op EXCEPT ![u] = NoOp] /\ mem' = [mem EXCEPT ![u] = NoCache]
  /\ lockcache' = [lockcache EXCEPT ![u] = mem[u]]

\* os.Exit and Exit: no deferred call runs.
ExitProcess(u) ==
  /\ op' = [op EXCEPT ![u] = NoOp] /\ mem' = [mem EXCEPT ![u] = NoCache]
  /\ UNCHANGED lockcache

\* The arguments of lock or unlock are done: exit status 2 if one of them failed.
EndLockCommand(u) ==
  LET o == op[u] IN
  /\ o.kind \in {"lock", "unlock"} /\ o.phase = "next" /\ o.args = {}
  /\ IF o.ok THEN CloseClient(u) /\ UNCHANGED historyVars
     ELSE /\ ExitProcess(u)
          /\ unsaved' = unsaved \cup (o.made \cap held)
          /\ broken' = broken \cup (o.made \ held)
          /\ UNCHANGED foreign
  /\ UNCHANGED <<serverVars, listing, writable, dirty, changed, verifyState, commands, stable>>

-----------------------------------------------------------------------------
(* git lfs lock *)

\* lockPath rejects the argument: a directory, or outside of the repository.
LockPathFails(u, p) ==
  LET o == op[u] IN
  /\ o.kind \in {"lock", "unlock"} /\ o.phase = "next" /\ p \in o.args /\ ~o.force
  /\ Failed(u, [o EXCEPT !.args = @ \ {p}])
  /\ UNCHANGED <<serverVars, cloneVars, mem, commands, stable, historyVars>>

\* The request: refused if the path is locked, by whomever.
LockRequest(u, p) ==
  LET o == op[u]
      i == Cardinality(DOMAIN lockOf) + 1
      taken == \E j \in held : lockOf[j].path = p IN
  /\ o.kind = "lock" /\ o.phase = "next" /\ p \in o.args /\ i \in Ids
  /\ IF taken
     THEN Failed(u, [o EXCEPT !.args = @ \ {p}]) /\ UNCHANGED serverVars
     ELSE /\ held' = held \cup {i}
          /\ lockOf' = [j \in 1..i |-> IF j = i THEN [path |-> p, owner |-> u] ELSE lockOf[j]]
          /\ op' = [op EXCEPT ![u] = [o EXCEPT !.args = @ \ {p}, !.phase = "locked", !.id = i]]
  /\ UNCHANGED <<cloneVars, mem, commands, stable, historyVars>>

LockResponse(u) ==
  LET o == op[u] IN
  /\ o.kind = "lock" /\ o.phase = "locked"
  /\ op' = [op EXCEPT ![u] = [o EXCEPT !.phase = "next", !.id = 0, !.made = @ \cup {o.id}]]
  /\ mem' = [mem EXCEPT ![u] = CacheAdd(@, o.id)]
  /\ writable' = [writable EXCEPT ![u] = @ \cup {lockOf[o.id].path}]
  /\ UNCHANGED <<serverVars, lockcache, listing, dirty, changed, verifyState>>
  /\ UNCHANGED <<commands, stable, historyVars>>

\* A response that is lost, undecodable, or without a lock and a message.
LockResponseLost(u) ==
  LET o == op[u] IN
  /\ o.kind = "lock" /\ o.phase = "locked"
  /\ Failed(u, o)
  /\ unsaved' = unsaved \cup {o.id}
  /\ UNCHANGED <<serverVars, cloneVars, mem, commands, stable, broken, foreign>>

-----------------------------------------------------------------------------
(* git lfs unlock *)

UnlockAbortIfFileModified(u, p) == p \in dirty[u] /\ ~op[u].force

\* The path's checks, then lockIdFromPath.
UnlockFind(u, p) ==
  LET o == op[u]
      ids == {i \in held : lockOf[i].path = p} IN
  /\ o.kind = "unlock" /\ o.phase = "next" /\ p \in o.args
  /\ IF UnlockAbortIfFileModified(u, p) \/ Cardinality(ids) # 1
     THEN Failed(u, [o EXCEPT !.args = @ \ {p}])
     ELSE op' = [op EXCEPT ![u] = [o EXCEPT !.args = @ \ {p}, !.phase = "found", !.id = Min(ids)]]
  /\ UNCHANGED <<serverVars, cloneVars, mem, commands, stable, historyVars>>

\* Only the HTTP client sends the force flag.
SentForce(u) == op[u].force /\ u \notin SshUsers

\* The server knows the lock no more, or it is another user's.
UnlockRefused(u) ==
  LET o == op[u] IN
  /\ o.kind = "unlock" /\ o.phase = "found"
  /\ o.id \notin held \/ (lockOf[o.id].owner # u /\ ~SentForce(u))
  /\ Failed(u, o)
  /\ UNCHANGED <<serverVars, cloneVars, mem, commands, stable, historyVars>>

UnlockRequest(u) ==
  LET o == op[u] IN
  /\ o.kind = "unlock" /\ o.phase = "found" /\ o.id \in held
  /\ lockOf[o.id].owner = u \/ SentForce(u)
  /\ ServerUnlock(o.id)
  /\ op' = [op EXCEPT ![u] = [o EXCEPT !.phase = "unlocked"]]
  /\ broken' = IF lockOf[o.id].owner = u THEN broken ELSE broken \cup {o.id}
  /\ UNCHANGED <<cloneVars, mem, commands, unsaved, foreign>>

\* Mutant: the file keeps its write flag.
UnlockResponseKeepsFlag(u, carriesLock) ==
  LET o == op[u] IN
  /\ o.kind = "unlock" /\ o.phase = "unlocked"
  /\ op' = [op EXCEPT ![u] = [o EXCEPT !.phase = "next", !.id = 0, !.made = @ \cup {o.id}]]
  /\ mem' = [mem EXCEPT ![u] = CacheRemoveById(@, o.id)]
  /\ UNCHANGED <<serverVars, cloneVars, commands, stable, historyVars>>

\* Only a response that carries the lock, as each one of the SSH protocol does, names the file.
UnlockResponse(u, carriesLock) ==
  LET o == op[u] IN
  /\ o.kind = "unlock" /\ o.phase = "unlocked" /\ (carriesLock \/ u \notin SshUsers)
  /\ op' = [op EXCEPT ![u] = [o EXCEPT !.phase = "next", !.id = 0, !.made = @ \cup {o.id}]]
  /\ mem' = [mem EXCEPT ![u] = CacheRemoveById(@, o.id)]
  /\ IF carriesLock
     THEN writable' = [writable EXCEPT ![u] = @ \ LockableIn({lockOf[o.id].path})] /\ UNCHANGED broken
     ELSE broken' = broken \cup {o.id} /\ UNCHANGED writable
  /\ UNCHANGED <<serverVars, lockcache, listing, dirty, changed, verifyState>>
  /\ UNCHANGED <<commands, stable, unsaved, foreign>>

UnlockResponseLost(u) ==
  LET o == op[u] IN
  /\ o.kind = "unlock" /\ o.phase = "unlocked"
  /\ Failed(u, o)
  /\ broken' = broken \cup {o.id}
  /\ UNCHANGED <<serverVars, cloneVars, mem, commands, stable, unsaved, foreign>>

-----------------------------------------------------------------------------
(* Lists: "locks" (SearchLocks), "verify" (locks --verify) and the "push"  *)
(* that verifies (SearchLocksVerifiable, the latter without a limit and on *)
(* a client that is never closed).                                         *)

StartList(u, kind, limit) ==
  /\ Begin(u, [NoOp EXCEPT !.kind = kind, !.phase = "page", !.limit = limit])
  /\ mem' = [mem EXCEPT ![u] = IF kind = "verify" THEN NoCache ELSE lockcache[u]]
  /\ stable' = [stable EXCEPT ![u] = held]
  /\ UNCHANGED <<serverVars, cloneVars, historyVars>>

\* pre-push of every unpushed version.  The state of the verification is read once, and nothing
\* is asked when it is disabled.
StartPush(u) ==
  /\ changed[u] # {}
  /\ Begin(u, [NoOp EXCEPT !.kind = "push", !.versions = changed[u], !.left = changed[u],
                           !.verify = verifyState[u],
                           !.phase = IF verifyState[u] = "disabled" THEN "scan" ELSE "page"])
  /\ mem' = [mem EXCEPT ![u] = NoCache]
  /\ stable' = [stable EXCEPT ![u] = held]
  /\ UNCHANGED <<serverVars, cloneVars, historyVars>>

Ours(u, is)   == {i \in is : lockOf[i].owner = u}
Theirs(u, is) == is \ Ours(u, is)

\* Mutant: the list ends with the first page.
NextPhaseFirstPage(o, full, cursor) == "end"

NextPhase(o, full, cursor) ==
  IF ~full /\ cursor # 0 THEN "page" ELSE IF o.kind = "push" THEN "scan" ELSE "end"

\* Search and SearchVerifiable: one request, and the server's page with the next cursor.
Search(cursor) == [locks |-> ServerPage(cursor), next |-> ServerCursor(cursor)]
SearchVerifiable(u, cursor) ==
  [ours |-> Ours(u, ServerPage(cursor)), theirs |-> Theirs(u, ServerPage(cursor)),
   next |-> ServerCursor(cursor)]

\* A plain list does not tell whose a lock is; the model keeps the two apart for both kinds.
Page(u, kind, cursor) ==
  IF kind = "locks"
  THEN LET list == Search(cursor)
       IN [ours |-> Ours(u, list.locks), theirs |-> Theirs(u, list.locks), next |-> list.next]
  ELSE SearchVerifiable(u, cursor)

WriteLocksToCacheFile(u, kind, is) ==
  listing' = [listing EXCEPT ![u] = IF kind = "locks" THEN [@ EXCEPT !.remote = is]
                                    ELSE [@ EXCEPT !.verifiable = is]]

Cut(limit, is, room) == IF limit = 0 THEN is ELSE Smallest(is, room)

\* One page: our locks, then theirs, until the limit is reached.  A complete
\* list without a limit is written for --cached.
ListPage(u) ==
  LET o == op[u]
      room == o.limit - Cardinality(o.ours \cup o.theirs)
      page == Page(u, o.kind, o.cursor)
      ours == Cut(o.limit, page.ours, room)
      theirs == Cut(o.limit, page.theirs, room - Cardinality(ours))
      full == o.limit > 0 /\ Cardinality(ours \cup theirs) >= room
      got == [o EXCEPT !.ours = @ \cup ours, !.theirs = @ \cup theirs,
                       !.cursor = page.next, !.phase = NextPhase(o, full, page.next)] IN
  /\ o.phase = "page" /\ (o.cursor = 0 \/ o.cursor \in held)
  /\ op' = [op EXCEPT ![u] = got]
  /\ mem' = [mem EXCEPT ![u] = IF o.kind = "locks" THEN @ ELSE CacheAddAll(@, ours \cup theirs)]
  /\ IF o.limit = 0 /\ got.phase # "page"
     THEN WriteLocksToCacheFile(u, o.kind, got.ours \cup got.theirs) ELSE UNCHANGED listing
  /\ UNCHANGED <<serverVars, lockcache, writable, dirty, changed, verifyState, commands, stable, historyVars>>

\* What Close of a list that was cut short leaves out of the cache.
SaveTruncated(u) ==
  /\ CloseClient(u)
  /\ IF op[u].kind = "locks" THEN UNCHANGED <<unsaved, foreign>>
     ELSE /\ unsaved' = unsaved \cup {i \in Owned(u) : mem[u].path[lockOf[i].path] # i}
          /\ foreign' = [foreign EXCEPT ![u] = @ \cup {lockOf[i].path : i \in op[u].theirs}]
  /\ UNCHANGED broken

\* An error, the server's message for a cursor that is gone, or a refusal: locks and
\* verify exit, but with --json they return as if nothing had happened.
ListFails(u, json) ==
  LET o == op[u] IN
  /\ o.phase = "page" /\ o.kind # "push"
  /\ IF json THEN SaveTruncated(u) ELSE ExitProcess(u) /\ UNCHANGED historyVars
  /\ UNCHANGED <<serverVars, listing, writable, dirty, changed, verifyState, commands, stable>>

\* The command ends and the cache is saved; a limited list has left out some of it.
EndList(u) ==
  LET o == op[u] IN
  /\ o.phase = "end"
  /\ IF o.limit = 0
     THEN /\ CloseClient(u)
          /\ foreign' = IF o.kind = "locks" THEN foreign
                        ELSE [foreign EXCEPT ![u] = @ \cup {lockOf[i].path : i \in o.theirs}]
          /\ UNCHANGED <<unsaved, broken>>
     ELSE SaveTruncated(u)
  /\ UNCHANGED <<serverVars, listing, writable, dirty, changed, verifyState, commands, stable>>

-----------------------------------------------------------------------------
(* git push: verification, the scan of the pushed paths, and the report. *)

\* The locking API is not implemented: the configuration turns verification off for later
\* pushes, and this one goes on, as it was started, with the locks it has got.
VerifyNotImplemented(u) ==
  LET o == op[u] IN
  /\ o.kind = "push" /\ o.phase = "page"
  /\ verifyState' = [verifyState EXCEPT ![u] = "disabled"]
  /\ op' = [op EXCEPT ![u] = [o EXCEPT !.phase = "scan", !.ok = FALSE]]
  /\ UNCHANGED <<serverVars, lockcache, listing, writable, dirty, changed>>
  /\ UNCHANGED <<mem, commands, stable, historyVars>>

\* Another error ends a push that must verify and is a warning otherwise.
VerifyFails(u) ==
  LET o == op[u] IN
  /\ o.kind = "push" /\ o.phase = "page"
  /\ IF o.verify = "enabled" THEN ExitProcess(u)
     ELSE op' = [op EXCEPT ![u] = [o EXCEPT !.phase = "scan", !.ok = FALSE]] /\ UNCHANGED <<lockcache, mem>>
  /\ UNCHANGED <<serverVars, listing, writable, dirty, changed, verifyState>>
  /\ UNCHANGED <<commands, stable, historyVars>>

LockedByThem(u, p) == \E i \in op[u].theirs : lockOf[i].path = p

\* Mutant: locks are not looked up.
PrepareUploadUnchecked(u, v) ==
  LET o == op[u] IN
  /\ o.kind = "push" /\ o.phase = "scan" /\ v \in o.left
  /\ op' = [op EXCEPT ![u] = [o EXCEPT !.left = @ \ {v}, !.seen = @ \cup {Blob(v)}]]
  /\ UNCHANGED <<serverVars, cloneVars, mem, commands, stable, historyVars>>

\* rev-list names a blob once, if the remote does not have it, under one of its paths; prepareUpload
\* passes over empty pointers, and the names of blobs that are no pointers come by FoundLockable.
LookedUp(o, v) == v.content \in {"pointer", "plain", "large"} /\ Blob(v) \notin o.seen

\* The scanner comes to a version.
PrepareUpload(u, v) ==
  LET o == op[u] IN
  /\ o.kind = "push" /\ o.phase = "scan" /\ v \in o.left
  /\ op' = [op EXCEPT ![u] =
       [o EXCEPT !.left = @ \ {v},
                 !.unowned = IF LookedUp(o, v) /\ LockedByThem(u, v.path) THEN @ \cup {v.path} ELSE @,
                 !.seen = @ \cup {Blob(v)}]]
  /\ UNCHANGED <<serverVars, cloneVars, mem, commands, stable, historyVars>>

\* The scan has returned.  It does not wait for the goroutine that is told of large files.
Scanned(o) == o.kind = "push" /\ o.phase = "scan" /\ \A v \in o.left : v.content = "large"

\* ReportErrors: transfer errors, and locks of others when verification is enabled,
\* make pre-push fail; otherwise Git pushes.
PushRefused(u) ==
  /\ Scanned(op[u])
  /\ ExitProcess(u)
  /\ UNCHANGED <<serverVars, listing, writable, dirty, changed, verifyState>>
  /\ UNCHANGED <<commands, stable, historyVars>>

PushAllowed(u) ==
  LET o == op[u] IN
  /\ Scanned(o)
  /\ o.unowned = {} \/ o.verify # "enabled"
  /\ op' = [op EXCEPT ![u] = [o EXCEPT !.phase = "pushed"]]
  /\ changed' = [changed EXCEPT ![u] = {}]
  /\ UNCHANGED <<serverVars, lockcache, listing, writable, dirty, verifyState>>
  /\ UNCHANGED <<mem, commands, stable, historyVars>>

PushDone(u) ==
  /\ op[u].kind = "push" /\ op[u].phase = "pushed"
  /\ ExitProcess(u)
  /\ UNCHANGED <<serverVars, listing, writable, dirty, changed, verifyState>>
  /\ UNCHANGED <<commands, stable, historyVars>>

-----------------------------------------------------------------------------
(* The work tree.  Git writes files with the write flag, and its hooks set *)
(* the flags of lockable files by the lock cache.                          *)

FixSingleFileWriteFlags(u, ps, flags) ==
  (flags \ LockableIn(ps))
  \cup {p \in LockableIn(ps) : IsFileLockedByCurrentCommitter(lockcache[u], p)}

FixAllLockableFileWriteFlags(u, flags) == FixSingleFileWriteFlags(u, Paths, flags)

Hook(u) == Idle(u) /\ Counted(u)

Edit(u, p) ==
  /\ p \in writable[u] \ dirty[u] /\ Counted(u)
  /\ dirty' = [dirty EXCEPT ![u] = @ \cup {p}]
  /\ UNCHANGED <<serverVars, lockcache, listing, writable, changed, verifyState, op, mem, stable, historyVars>>

\* post-checkout of another revision: the changed files, or every file when they
\* cannot be found out.
PostCheckout(u, ps, diffFails) ==
  /\ Hook(u) /\ ps \cap dirty[u] = {}
  /\ writable' = [writable EXCEPT ![u] =
       IF diffFails THEN FixAllLockableFileWriteFlags(u, @ \cup ps)
       ELSE FixSingleFileWriteFlags(u, ps, @ \cup ps)]
  /\ UNCHANGED <<serverVars, lockcache, listing, dirty, changed, verifyState, op, mem, stable, historyVars>>

\* post-commit: the files of the commit, each committed in some way.
PostCommit(u, content) ==
  /\ Hook(u) /\ dirty[u] # {}
  /\ writable' = [writable EXCEPT ![u] = FixSingleFileWriteFlags(u, dirty[u], @)]
  /\ dirty' = [dirty EXCEPT ![u] = {}]
  /\ changed' = [changed EXCEPT ![u] = @ \cup {[path |-> p, content |-> content[p]] : p \in dirty[u]}]
  /\ UNCHANGED <<serverVars, lockcache, listing, verifyState, op, mem, stable, historyVars>>

\* post-merge: every file.
PostMerge(u, ps) ==
  /\ Hook(u) /\ ps \cap dirty[u] = {}
  /\ writable' = [writable EXCEPT ![u] = FixAllLockableFileWriteFlags(u, @ \cup ps)]
  /\ UNCHANGED <<serverVars, lockcache, listing, dirty, changed, verifyState, op, mem, stable, historyVars>>

-----------------------------------------------------------------------------
Next ==
  \/ \E u \in Users, ps \in (SUBSET Paths) \ {{}} : StartLock(u, ps)
  \/ \E u \in Users, ps \in (SUBSET Paths) \ {{}}, f \in BOOLEAN : StartUnlock(u, ps, f)
  \/ \E u \in Users, i \in DOMAIN lockOf, f \in BOOLEAN : StartUnlockById(u, i, f)
  \/ \E u \in Users : EndLockCommand(u)
  \/ \E u \in Users, p \in Paths : LockPathFails(u, p)
  \/ \E u \in Users, p \in Paths : LockRequest(u, p)
  \/ \E u \in Users : LockResponse(u)
  \/ \E u \in Users : LockResponseLost(u)
  \/ \E u \in Users, p \in Paths : UnlockFind(u, p)
  \/ \E u \in Users : UnlockRefused(u)
  \/ \E u \in Users : UnlockRequest(u)
  \/ \E u \in Users, c \in BOOLEAN : UnlockResponse(u, c)
  \/ \E u \in Users : UnlockResponseLost(u)
  \/ \E u \in Users, l \in Limits : StartList(u, "verify", l)
  \/ \E u \in Users : StartList(u, "locks", 0)
  \/ \E u \in Users : StartPush(u)
  \/ \E u \in Users : ListPage(u)
  \/ \E u \in Users, j \in BOOLEAN : ListFails(u, j)
  \/ \E u \in Users : EndList(u)
  \/ \E u \in Users : VerifyNotImplemented(u)
  \/ \E u \in Users : VerifyFails(u)
  \/ \E u \in Users, v \in Versions : PrepareUpload(u, v)
  \/ \E u \in Users : PushRefused(u)
  \/ \E u \in Users : PushAllowed(u)
  \/ \E u \in Users : PushDone(u)
  \/ \E u \in Users, p \in Paths : Edit(u, p)
  \/ \E u \in Users, ps \in SUBSET Paths, d \in BOOLEAN : PostCheckout(u, ps, d)
  \/ \E u \in Users, c \in [Paths -> Contents] : PostCommit(u, c)
  \/ \E u \in Users, ps \in SUBSET Paths : PostMerge(u, ps)

Spec == Init /\ [][Next]_vars
-----------------------------------------------------------------------------
(* Properties. *)

\* Between commands, a lock that a user holds is in the user's cache, so that the
\* hooks keep its file writable.  The exceptions are the locks whose response was
\* lost, the ones made by a lock command that failed for another path (it leaves
\* through os.Exit, past the deferred Close), and what locks --verify dropped when it
\* was limited or failed under --json.
OwnLocksCached ==
  \A u \in Users : Idle(u) =>
    \A i \in Owned(u) : i \in unsaved \/ lockcache[u].path[lockOf[i].path] = i

\* A complete list has every lock that existed all the time it was made, although
\* locks come and go between its pages: the list for --cached, the cache and the
\* check of a push rest on it.
ListingComplete ==
  \A u \in Users :
    LET o == op[u] IN
    /\ o.phase = "end" /\ o.limit = 0 =>
         stable[u] \subseteq (IF o.kind = "locks" THEN listing[u].remote ELSE listing[u].verifiable)
    /\ o.kind = "push" /\ o.phase = "scan" /\ o.ok /\ o.verify # "disabled" =>
         stable[u] \subseteq (o.ours \cup o.theirs) \cap listing[u].verifiable

\* A push that must verify does not go through with a new version of a path which another user held
\* locked from its start to its end.  The exceptions are what the scan does not look up: a blob that
\* the remote has, an empty file, one that the push has under another path as well, and a large file
\* that Git LFS does not manage, of which the report may come too late; and a server that answers
\* that it does not implement locking.
PushRespectsLocks ==
  \A u \in Users :
    LET o == op[u] IN
    o.phase = "pushed" /\ o.verify = "enabled" /\ o.ok =>
      \A i \in Theirs(u, stable[u]), v \in o.versions : lockOf[i].path = v.path =>
        \/ v.content \in {"known", "empty", "large"}
        \/ \E w \in o.versions : w.path # v.path /\ Blob(w) = Blob(v)

\* A lockable file that one user holds locked is not writable for another who is
\* not in the middle of a command, unless a lock of the other was forced open, or ended without an
\* answer or with one that did not name its file, or the other's cache was filled with this user's
\* lock by locks --verify.
NoForeignWrite ==
  \A u \in Users, i \in held :
    LET p == lockOf[i].path IN
    Idle(u) /\ lockOf[i].owner # u /\ p \in LockableIn(writable[u]) =>
      \/ p \in foreign[u]
      \/ \E j \in broken : lockOf[j].path = p /\ lockOf[j].owner = u
=============================================================================
