----------------------------- MODULE Repository -----------------------------
(***************************************************************************)
(* One clone and its remote: what push, prune, fetch, pull, checkout and   *)
(* fsck do to the objects in .git/lfs/objects, on the server and in the    *)
(* working tree, over a history of commits, branches, stashes, worktrees   *)
(* and objects that are damaged on disk.                                   *)
(*                                                                         *)
(* Git is external.  A commit is its parents, its tree (an object for each *)
(* path) and its day; the scanners are modelled by which commits and paths *)
(* the git commands they run report.  Push, prune, fetch, pull and fsck    *)
(* are processes that interleave with one another and with the user, who  *)
(* may commit, stash and move HEAD at any time.  The remote neither        *)
(* deletes branches nor collects garbage while push or prune runs.         *)
(***************************************************************************)
EXTENDS Integers, Sequences, FiniteSets, SequencesExt

CONSTANTS
  Oids, NoOid,
  PathOrder,     \* the paths, in the order of a tree
  Branches, Main,
  Operations,    \* what a scenario bounds, "total" for all together
  Scenarios      \* bound: settings, the trees to commit, and how often each operation runs

Paths == Range(PathOrder)
Trees == [Paths -> Oids \cup {NoOid}]

\* The settings lfs.fetchrecent* and lfs.prune* of fetch and prune.
FetchPruneConfig(s) ==
  /\ {s.refsDays, s.commitsDays, s.offset} \subseteq Nat
  /\ {s.remoteRefs, s.verifyAlways} \subseteq BOOLEAN

ASSUME RepositoryAssumption ==
  /\ NoOid \notin Oids /\ Main \in Branches
  /\ PathOrder \in Seq(Paths) /\ IsInjective(PathOrder)
  /\ \A s \in Scenarios :
       /\ s.script \in Seq(Trees) /\ Len(s.script) > 0
       /\ s.limit \in [Operations -> Nat]
       /\ s.exclude \subseteq Paths                   \* lfs.fetchexclude
       /\ FetchPruneConfig(s)
       /\ {s.allowMissing, s.mergeEdits, s.lsRemoteFails, s.cloned} \subseteq BOOLEAN
       /\ s.installed \in BOOLEAN                     \* filter.lfs.clean is configured
       /\ s.writeFails \in BOOLEAN                    \* files of the working tree may not be writable
       /\ s.pruneArgs \subseteq [force : BOOLEAN, recent : BOOLEAN, dryRun : BOOLEAN,
                                 verify : {"default", "ask", "never"}]
       /\ s.fsckArgs \subseteq BOOLEAN \X BOOLEAN     \* --dry-run, and whether the index is checked

VARIABLES
  conf, left,      \* the scenario, and what is left of its operations
  \* ---- git
  commits, next,   \* the commits, and how much of the script is committed
  branch, cur,     \* local branches (0: none) and the one HEAD is on
  linked,          \* HEAD of a linked worktree
  stash,           \* the stashes, oldest first: their base, index and work-in-progress trees
  remote, tracking, \* the remote's branches, and refs/remotes
  day,
  \* ---- objects and files
  store, server,   \* objects in .git/lfs/objects, and on the server
  damaged,         \* objects in the store with the right size and other content
  staged,          \* the index, as a set of one tree, or {} when it is HEAD's tree
  wt,              \* the working tree's files
  \* ---- commands
  push, prune, fetch, pull, fsck,
  \* ---- history
  ever,            \* objects that were on the server at some time
  blind,           \* a push could not tell which of its tracking refs still exist
  recentFetch,     \* what the last fetch --recent before a prune asked for, and when
  sound            \* objects that a complete fsck covered, and that were not damaged since

gitVars  == <<commits, next, branch, cur, linked, stash, day>>
refVars  == <<remote, tracking>>
history  == <<ever, blind, recentFetch>>
checkVars == <<damaged, staged, fsck, sound>>
vars == <<conf, checkVars, left, gitVars, refVars, store, server, wt, push, prune, fetch, pull, history>>

--------------------------------------------------------------------------
(* Commits and the git commands that the scanners run *)

NoFetch == [oids |-> {}, day |-> 0]
Diff(new, old) == {new[p] : p \in {q \in Paths : new[q] # old[q]}} \ {NoOid}
EmptyTree == [p \in Paths |-> NoOid]
ObjectsIn(tree) == Range(tree) \ {NoOid}

Ancestors[c \in 1..Len(commits)] ==
  {c} \cup UNION {Ancestors[p] : p \in Range(commits[c].parents)}

Reach(C) == UNION {Ancestors[c] : c \in C \ {0}}
Objects(C) == UNION {ObjectsIn(commits[c].tree) : c \in C}

ParentTree(c) == IF commits[c].parents = <<>> THEN EmptyTree
                 ELSE commits[commits[c].parents[1]].tree

\* git log -p shows no diff of a merge.
IsMerge(c) == Len(commits[c].parents) > 1
Additions(c) == IF IsMerge(c) THEN {} ELSE Diff(commits[c].tree, ParentTree(c))
Deletions(c) == IF IsMerge(c) THEN {} ELSE Diff(ParentTree(c), commits[c].tree)

HEAD == branch[cur]
LsTree(c) == commits[c].tree
HeadTree == LsTree(HEAD)
Index == IF staged = {} THEN HeadTree ELSE CHOOSE tree \in staged : TRUE
Tips == Range(branch) \ {0}
WorktreeHEADs == {HEAD, linked} \ {0}
CommitDate(c) == commits[c].day
TrackingTips == Range(tracking) \ {0}

\* Paths in the order of a tree.
Place(p) == CHOOSE i \in 1..Len(PathOrder) : PathOrder[i] = p
IsFirst(p, P) == p \in P /\ \A q \in P : Place(p) <= Place(q)
FirstOf(P) == CHOOSE p \in P : IsFirst(p, P)

\* rev-list reports a blob once, with the first path it meets; the scanner filters on it.
FirstPath(tree, o) == FirstOf({p \in Paths : tree[p] = o})

ScanRef(c, exclude) ==
  {o \in ObjectsIn(commits[c].tree) : FirstPath(commits[c].tree, o) \notin exclude}

NewestWith(C, o) ==
  CHOOSE c \in C : /\ o \in ObjectsIn(commits[c].tree)
                   /\ \A d \in C : o \in ObjectsIn(commits[d].tree) => d <= c

Stashed == Range(stash)
StashObjects == UNION {ObjectsIn(s.wip) \cup ObjectsIn(s.idx) : s \in Stashed}

\* refs/stash is the newest stash; the others are only in its reflog.
RefsStash == IF stash = <<>> THEN {} ELSE {Last(stash)}

\* ScanAll: every object of every ref, refs/stash included.
ScanAll(exclude) ==
  LET C == Reach(Tips \cup TrackingTips \cup {s.base : s \in RefsStash})
  IN {o \in Objects(C) : FirstPath(commits[NewestWith(C, o)].tree, o) \notin exclude}
     \cup UNION {{o \in ObjectsIn(s.wip) \cup ObjectsIn(s.idx) :
                    FirstPath(IF o \in ObjectsIn(s.wip) THEN s.wip ELSE s.idx, o) \notin exclude}
                  : s \in RefsStash}

ScanTree(c, exclude) == {LsTree(c)[p] : p \in Paths \ exclude} \ {NoOid}

ScanUnpushed == UNION {Additions(c) : c \in Reach(Tips) \ Reach(TrackingTips)}

\* The work in progress against its base, and the index against its base.
ScanStashed == UNION {Diff(s.wip, commits[s.base].tree) \cup Diff(s.idx, commits[s.base].tree)
                       : s \in Stashed}

ScanPreviousVersions(c, since) ==
  UNION {Deletions(d) : d \in {e \in Reach({c}) : CommitDate(e) >= since}}

\* ScanMultiRangeToRemote: rev-list --objects leaves out what the edge commits hold.
ScanRangeToRemote(tip, bases, skipped) ==
  LET out  == Reach(bases \cup IF skipped = {} THEN TrackingTips ELSE skipped)
      in   == Reach({tip}) \ out
      edge == out \cap UNION {Range(commits[c].parents) : c \in in}
  IN Objects(in) \ Objects(edge)

RecentBranches(since) ==
  {c \in Tips \cup (IF conf.remoteRefs THEN TrackingTips ELSE {}) : CommitDate(c) >= since}

RecentTips(days) == {HEAD} \cup IF days > 0 THEN RecentBranches(day - days) ELSE {}

--------------------------------------------------------------------------
(* Initial states: a clone of one commit, with or without its objects *)

IdlePush  == [kind |-> "none", updates |-> {}, refs |-> {}, bases |-> {},
              tip |-> [b \in Branches |-> 0], skipped |-> {}, queue |-> {}, uploaded |-> {}, missing |-> FALSE, err |-> FALSE]
IdlePrune == [phase |-> "idle", todo |-> {}, force |-> FALSE, recent |-> FALSE,
              verify |-> FALSE, dryRun |-> FALSE, local |-> {}, retained |-> {},
              reachable |-> {}, prunable |-> {}, late |-> {}]
IdleFetch == [kind |-> "none", todo |-> {}, ok |-> TRUE, prune |-> FALSE]
IdlePull  == [on |-> FALSE, tree |-> EmptyTree, todo |-> {}, ptr |-> [o \in Oids |-> {}], queued |-> {},
              done |-> {}, failed |-> {}, watch |-> {}, skipped |-> {}, touched |-> {}, trusted |-> {}]
IdleFsck  == [phase |-> "idle", dryRun |-> FALSE, useIndex |-> FALSE, todo |-> {},
              corrupt |-> <<>>, scope |-> {}]

Pointer(o) == <<"pointer", o>>
Content(o) == <<"content", o>>
Corrupt(o) == <<"corrupt", o>>
Absent     == <<"absent", NoOid>>
Edited     == <<"edited", NoOid>>
CutOff     == <<"cut off", NoOid>>    \* what a checkout leaves that fails while it writes

\* readLocalFile copies what is in the store; nobody compares it with its name.
ReadLocalFile(o) == IF o \in damaged THEN Corrupt(o) ELSE Content(o)

\* GitFilter.Smudge without a download: the content if it is local, the pointer if not.
Smudged(o, have) == IF o \in have THEN ReadLocalFile(o) ELSE Pointer(o)
FilesOf(tree, have) ==
  [p \in Paths |-> IF tree[p] = NoOid THEN Absent ELSE Smudged(tree[p], have)]

\* git lfs clone: git clone with filters that leave the pointers, before the pull that follows.
CloneWithoutFilters(tree) == FilesOf(tree, {})

Init ==
  /\ conf \in Scenarios /\ left = conf.limit
  /\ commits = <<[parents |-> <<>>, tree |-> conf.script[1], day |-> 0]>> /\ next = 2
  /\ branch = [b \in Branches |-> IF b = Main THEN 1 ELSE 0] /\ cur = Main
  /\ linked = 0 /\ stash = <<>> /\ remote = branch /\ tracking = branch /\ day = 0
  /\ server = ObjectsIn(conf.script[1]) /\ store = (IF conf.cloned THEN server ELSE {})
  /\ damaged = {} /\ staged = {} /\ fsck = IdleFsck /\ sound = {}
  /\ wt = IF conf.cloned THEN FilesOf(conf.script[1], store) ELSE CloneWithoutFilters(conf.script[1])
  /\ push = IdlePush /\ prune = IdlePrune /\ fetch = IdleFetch /\ pull = IdlePull
  /\ ever = server /\ blind = FALSE /\ recentFetch = NoFetch

Use(op) ==
  /\ left[op] > 0 /\ left["total"] > 0
  /\ left' = [left EXCEPT ![op] = @ - 1, !["total"] = @ - 1]

\* History: objects that the user took into use, or whose commit HEAD left, while prune ran; paths
\* whose entry in HEAD or in the index changed while pull ran.
DuringPrune(oids) ==
  prune' = IF prune.phase = "idle" THEN prune ELSE [prune EXCEPT !.late = @ \cup oids]
DuringPull(tree) ==
  pull' = IF pull.on THEN [pull EXCEPT !.touched = @ \cup {p \in Paths : tree[p] # HeadTree[p]}] ELSE pull
HeadMoves(tree) == DuringPrune(ObjectsIn(tree) \cup ObjectsIn(HeadTree)) /\ DuringPull(tree)

--------------------------------------------------------------------------
(* The user *)

NewCommit(parents, tree) ==
  /\ commits' = Append(commits, [parents |-> parents, tree |-> tree, day |-> day])
  /\ branch' = [branch EXCEPT ![cur] = Len(commits) + 1]
  /\ HeadMoves(tree) /\ recentFetch' = NoFetch

\* Files that a tree changes are rewritten through the smudge filter, others stay.
CheckedOut(tree, have) ==
  [p \in Paths |-> IF tree[p] = HeadTree[p] THEN wt[p]
                  ELSE FilesOf(tree, IF conf.installed THEN have ELSE {})[p]]

\* git add of the files of the next tree, through the clean filter: an object that has a file
\* keeps it, damaged or not.
Add(tree) ==
  /\ conf.installed /\ tree # HeadTree
  /\ store' = store \cup Diff(tree, HeadTree)
  /\ wt' = [p \in Paths |-> IF tree[p] = HeadTree[p] THEN wt[p]
                            ELSE IF tree[p] = NoOid THEN Absent ELSE Content(tree[p])]
  /\ next' = next + 1

Stage ==
  /\ Use("stage") /\ staged = {} /\ next <= Len(conf.script)
  /\ Add(conf.script[next]) /\ staged' = {conf.script[next]} /\ DuringPull(conf.script[next])
  /\ UNCHANGED <<conf, damaged, fsck, sound, commits, branch, cur, linked, stash, day, refVars, server,
                 push, prune, fetch, history>>

\* git commit of what is staged, or of the next tree.
Commit ==
  /\ Use("commit")
  /\ \/ /\ staged # {} /\ NewCommit(<<HEAD>>, Index) /\ UNCHANGED <<store, wt, next>>
     \/ /\ staged = {} /\ next <= Len(conf.script)
        /\ NewCommit(<<HEAD>>, conf.script[next]) /\ Add(conf.script[next])
  /\ staged' = {}
  /\ UNCHANGED <<conf, damaged, fsck, sound, cur, linked, stash, day, refVars, server, push, fetch, ever, blind>>

\* A merge takes each path from one of its sides; mergeEdits also commits the next tree.
Merge(b) ==
  /\ staged = {} /\ Use("merge")
  /\ branch[b] # 0 /\ branch[b] \notin Reach({HEAD}) /\ HEAD \notin Reach({branch[b]})
  /\ LET theirs == commits[branch[b]].tree
     IN \/ /\ ~conf.mergeEdits
           /\ \E tree \in [Paths -> Oids \cup {NoOid}] :
                /\ \A p \in Paths : tree[p] \in {HeadTree[p], theirs[p]}
                /\ NewCommit(<<HEAD, branch[b]>>, tree)
                /\ wt' = CheckedOut(tree, store)
           /\ UNCHANGED <<next, store>>
        \/ /\ conf.mergeEdits /\ conf.installed /\ next <= Len(conf.script)
           /\ NewCommit(<<HEAD, branch[b]>>, conf.script[next])
           /\ store' = store \cup Diff(conf.script[next], HeadTree)
           /\ wt' = CheckedOut(conf.script[next], store')
           /\ next' = next + 1
  /\ UNCHANGED <<conf, checkVars, cur, linked, stash, day, refVars, server, push, fetch, ever, blind>>

\* git stash: one tree is staged, the next is in the working tree.
Stash ==
  /\ conf.installed /\ staged = {} /\ Use("stash") /\ next + 1 <= Len(conf.script)
  /\ stash' = Append(stash, [base |-> HEAD, idx |-> conf.script[next], wip |-> conf.script[next + 1]])
  /\ DuringPrune(ObjectsIn(conf.script[next]) \cup ObjectsIn(conf.script[next + 1]))
  /\ store' = store \cup Diff(conf.script[next], HeadTree) \cup Diff(conf.script[next + 1], HeadTree)
  /\ next' = next + 2 /\ recentFetch' = NoFetch
  /\ UNCHANGED <<conf, checkVars, commits, branch, cur, linked, day, refVars, server, wt, push, fetch,
                 pull, ever, blind>>

\* git checkout of another branch, created at HEAD when there is none.
Switch(b) ==
  /\ staged = {} /\ Use("switch") /\ b # cur
  /\ cur' = b /\ branch' = [branch EXCEPT ![b] = IF @ = 0 THEN HEAD ELSE @]
  /\ wt' = CheckedOut(commits[branch'[b]].tree, store)
  /\ HeadMoves(commits[branch'[b]].tree) /\ recentFetch' = NoFetch
  /\ UNCHANGED <<conf, checkVars, commits, next, linked, stash, day, refVars, store, server, push,
                 fetch, ever, blind>>

\* git worktree add
AddWorktree(b) ==
  /\ Use("worktree") /\ branch[b] # 0 /\ linked' = branch[b]
  /\ DuringPrune(ObjectsIn(LsTree(branch[b])))
  /\ UNCHANGED <<conf, checkVars, commits, next, branch, cur, stash, day, refVars, store, server, wt,
                 push, fetch, pull, history>>

\* A program writes a file of the working tree.
Edit(p) ==
  /\ Use("edit") /\ wt' = [wt EXCEPT ![p] = Edited]
  /\ UNCHANGED <<conf, checkVars, gitVars, refVars, store, server, push, prune, fetch, pull, history>>

Tick ==
  /\ Use("tick") /\ day' = day + 1
  /\ UNCHANGED <<conf, checkVars, commits, next, branch, cur, linked, stash, refVars, store, server, wt,
                 push, prune, fetch, pull, history>>

--------------------------------------------------------------------------
(* The remote *)

RemoteIdle == push.kind = "none" /\ prune.phase = "idle"

\* Someone deletes a branch of the remote; refs/remotes keeps it.
DeleteRemoteBranch(b) ==
  /\ RemoteIdle /\ Use("delete") /\ remote[b] # 0
  /\ remote' = [remote EXCEPT ![b] = 0]
  /\ UNCHANGED <<conf, checkVars, gitVars, tracking, store, server, wt, push, prune, fetch, pull, history>>

\* The server drops what no branch of the remote needs.
CollectGarbage ==
  /\ RemoteIdle /\ Use("gc")
  /\ server' = server \cap Objects(Reach(Range(remote)))
  /\ UNCHANGED <<conf, checkVars, gitVars, refVars, store, wt, push, prune, fetch, pull, history>>

\* git fetch --prune
GitFetchPrune ==
  /\ RemoteIdle /\ Use("gitfetch") /\ tracking' = remote /\ recentFetch' = NoFetch
  /\ UNCHANGED <<conf, checkVars, gitVars, remote, store, server, wt, push, prune, fetch, pull,
                 ever, blind>>

--------------------------------------------------------------------------
(* git push with the pre-push hook, and git lfs push *)

\* Variant for mutation: every tracking ref is skipped.
SkipAllTracked(listed) == TrackingTips

\* calcSkippedRefs: tracking refs whose branch the remote still has; an ls-remote
\* that fails reports none.
calcSkippedRefs(listed) == {tracking[b] : b \in {c \in Branches : listed[c] # 0}} \ {0}

\* What git ls-remote reports: every branch, or nothing when it fails.
NoRefs == [b \in Branches |-> 0]
RemoteRefs == {remote} \cup (IF conf.lsRemoteFails THEN {NoRefs} ELSE {})

StartPush(kind, B, bases) ==
  /\ push.kind = "none" /\ Use("push")
  /\ \E listed \in RemoteRefs :
       LET skipped == calcSkippedRefs(listed)
       IN /\ push' = [IdlePush EXCEPT !.kind = kind, !.updates = B, !.refs = B,
                                      !.tip = branch, !.bases = bases, !.skipped = skipped]
          /\ blind' = (blind \/ (kind = "hook" /\ skipped = {} /\ TrackingTips # {}))
  /\ UNCHANGED <<conf, checkVars, gitVars, refVars, store, server, wt, prune, fetch, pull, ever,
                 recentFetch>>

\* The remote's sides of the updates, except where nothing changes.
RightSides(B) == {remote[b] : b \in {c \in B : branch[c] # remote[c]}} \ {0}

\* prePushCommand: git starts the hook with the branches to update.
PrePush(B) ==
  /\ B # {} /\ \A b \in B : branch[b] # 0 /\ branch[b] # remote[b]
  /\ StartPush("hook", B, RightSides(B))

\* Every local branch with --all, or the named one.
lfsPushRefs(all) == {b \in Branches : branch[b] # 0 /\ (all \/ b = cur)}

\* uploadsBetweenRefAndRemote: the remote's side is not known.  push --object-id is left out.
LfsPush(all) == StartPush(IF all THEN "all" ELSE "lfs", lfsPushRefs(all), {})

ScanRefWithDeleted(tip) == Objects(Reach({tip}))

\* uploadLeftOrAll: --all asks for every object, a push for those of its range.
PushScan(b) ==
  /\ push.kind # "none" /\ push.queue = {} /\ b \in push.refs
  /\ LET tip   == push.tip[b]
         found == (IF push.kind = "all" THEN ScanRefWithDeleted(tip)
                   ELSE ScanRangeToRemote(tip, push.bases, push.skipped)) \ push.uploaded
     IN push' = [push EXCEPT !.queue = found, !.uploaded = @ \cup found, !.refs = @ \ {b}]
  /\ UNCHANGED <<conf, checkVars, left, gitVars, refVars, store, server, wt, prune, fetch, pull, history>>

\* uploadTransfer and the queue: nothing to do when the server has the object, and an
\* error when nobody has it or the server finds it damaged.  ensureFile cleans a working file only to discard the result.
PushUpload(o) ==
  /\ o \in push.queue
  /\ push' = [push EXCEPT !.queue = @ \ {o},
                          !.missing = @ \/ o \notin (server \cup store),
                          !.err = @ \/ o \in damaged \ server]
  /\ server' = IF o \in store \ damaged THEN server \cup {o} ELSE server
  /\ ever' = ever \cup server'
  /\ UNCHANGED <<conf, checkVars, left, gitVars, refVars, store, wt, prune, fetch, pull, blind,
                 recentFetch>>

PushUploadFails(o) ==
  /\ o \in push.queue /\ o \notin server /\ Use("fault")
  /\ push' = [push EXCEPT !.queue = @ \ {o}, !.err = TRUE]
  /\ UNCHANGED <<conf, checkVars, gitVars, refVars, store, server, wt, prune, fetch, pull, history>>

\* ReportErrors: the hook fails on errors, and on missing objects unless they are allowed.
HookSucceeds == ~push.err /\ (~push.missing \/ conf.allowMissing)

\* git updates the remote's refs when the hook succeeds, and the tracking refs with them.
PushEnd ==
  /\ push.kind # "none" /\ push.refs = {} /\ push.queue = {}
  /\ LET Moved(refs) == [b \in Branches |-> IF b \in push.updates THEN push.tip[b] ELSE refs[b]]
     IN IF push.kind = "hook" /\ HookSucceeds
        THEN remote' = Moved(remote) /\ tracking' = Moved(tracking) /\ recentFetch' = NoFetch
        ELSE UNCHANGED <<refVars, recentFetch>>
  /\ push' = IdlePush
  /\ UNCHANGED <<conf, checkVars, left, gitVars, store, server, wt, prune, fetch, pull, ever, blind>>

--------------------------------------------------------------------------
(* git lfs prune *)

StartPrune(force, recent, verify, dryRun) ==
  /\ prune.phase = "idle"
  /\ prune' = [IdlePrune EXCEPT !.phase = "scan", !.force = force, !.verify = verify,
                 !.recent = recent \/ force, !.dryRun = dryRun,
                 !.todo = {"local", "refs", "unpushed", "worktree", "stashed"}
                          \cup IF verify THEN {"reachable"} ELSE {}]

\* --verify-remote asks for verification, --no-verify-remote never verifies.
PruneCommand(force, recent, verify, dryRun) ==
  /\ Use("prune")
  /\ StartPrune(force, recent,
                verify # "never" /\ (conf.verifyAlways \/ verify = "ask"), dryRun)
  /\ UNCHANGED <<conf, checkVars, gitVars, refVars, store, server, wt, push, fetch, pull, history>>

\* Variants for mutation: a window without the offset, the unpushed commits of HEAD only,
\* the work in progress of a stash without its index.
NoOffsetDays(pr) == IF pr.recent THEN 0 ELSE conf.refsDays
UnpushedOfHead == UNION {Additions(c) : c \in Reach({HEAD}) \ Reach(TrackingTips)}
StashedFirstParent == UNION {Diff(s.wip, commits[s.base].tree) : s \in Stashed}

RefsDays(pr) == IF pr.recent \/ conf.refsDays = 0 THEN 0 ELSE conf.refsDays + conf.offset

RetainedAtRef(c) == ScanRef(c, conf.exclude)

RetainedPrevious(c) ==
  ScanPreviousVersions(c, CommitDate(c) - (conf.commitsDays + conf.offset))

\* pruneTaskGetRetainedCurrentAndRecentRefs: HEAD unless --force, recent refs and their
\* previous versions unless --recent.
RetainedCurrentAndRecentRefs ==
  LET recent == RecentTips(RefsDays(prune))
  IN (UNION {RetainedAtRef(c) : c \in recent \ (IF prune.force THEN {HEAD} ELSE {})})
     \cup IF prune.recent \/ conf.commitsDays = 0 THEN {}
          ELSE UNION {RetainedPrevious(c) : c \in recent}

RetainedWorktree ==
  IF prune.force THEN {} ELSE UNION {RetainedAtRef(c) : c \in WorktreeHEADs \ {HEAD}}

RetainedUnpushed == ScanUnpushed

RetainedStashed == ScanStashed

LocalObjects == store
ReachableObjects == ScanAll(conf.exclude)

\* One task reports all it finds; the tasks run in any order.
PruneTask(t) ==
  /\ t \in prune.todo
  /\ LET done == [prune EXCEPT !.todo = @ \ {t}]
     IN prune' = CASE t = "local"     -> [done EXCEPT !.local = LocalObjects]
                   [] t = "refs"      -> [done EXCEPT !.retained = @ \cup RetainedCurrentAndRecentRefs]
                   [] t = "unpushed"  -> [done EXCEPT !.retained = @ \cup RetainedUnpushed]
                   [] t = "worktree"  -> [done EXCEPT !.retained = @ \cup RetainedWorktree]
                   [] t = "stashed"   -> [done EXCEPT !.retained = @ \cup RetainedStashed]
                   [] t = "reachable" -> [done EXCEPT !.reachable = ReachableObjects]
  /\ UNCHANGED <<conf, checkVars, left, gitVars, refVars, store, server, wt, push, fetch, pull, history>>

\* A scan that fails, a crash or an interrupt ends prune wherever it is.
PruneStops ==
  /\ prune.phase # "idle" /\ Use("fault") /\ prune' = IdlePrune
  /\ UNCHANGED <<conf, checkVars, gitVars, refVars, store, server, wt, push, fetch, pull, history>>

\* pruneCheckVerified: a reachable object that the remote does not have ends prune.
Verified(prunable) == prunable \cap prune.reachable \subseteq server

PruneSelect ==
  /\ prune.phase = "scan" /\ prune.todo = {}
  /\ LET prunable == prune.local \ prune.retained
     IN prune' = IF (prune.verify /\ ~Verified(prunable)) \/ prunable = {} \/ prune.dryRun
                 THEN IdlePrune
                 ELSE [prune EXCEPT !.phase = "delete", !.prunable = prunable]
  /\ UNCHANGED <<conf, checkVars, left, gitVars, refVars, store, server, wt, push, fetch, pull, history>>

\* What the checkout of HEAD or of a linked worktree uses, unless at an excluded path.
UsedIn(tree) == {o \in ObjectsIn(tree) : \A p \in Paths : tree[p] = o => p \notin conf.exclude}
UsedBy(c) == UsedIn(commits[c].tree)

\* pruneDeleteFiles: a file that cannot be removed is reported and left.
PruneDelete(o) ==
  /\ prune.phase = "delete" /\ o \in prune.prunable
  /\ prune' = IF prune.prunable = {o} THEN IdlePrune ELSE [prune EXCEPT !.prunable = @ \ {o}]
  /\ \/ store' = store \ {o} /\ damaged' = damaged \ {o} /\ UNCHANGED left
     \/ Use("fault") /\ UNCHANGED <<store, damaged>>
  /\ UNCHANGED <<conf, staged, fsck, sound, gitVars, refVars, server, wt, push, fetch, pull, history>>

--------------------------------------------------------------------------
(* git lfs fetch *)

ObjectExists(o) == o \in store

\* readyAndMissingPointers: each object once, and only if it is not there already.
Missing(want) == {o \in want : ~ObjectExists(o)}

PointersForRef(c) == ScanTree(c, conf.exclude)

PreviousVersions(c) == ScanPreviousVersions(c, CommitDate(c) - conf.commitsDays)

RecentObjects ==
  LET recent == RecentTips(conf.refsDays)
  IN (UNION {PointersForRef(c) : c \in recent})
     \cup IF conf.commitsDays = 0 THEN {}
          ELSE UNION {PreviousVersions(c) : c \in recent}

\* --all ignores the filter: the history of the refs that it was given, or of every ref.
PointersForRefs(C) == Objects(Reach(C))
FetchAll == ScanAll({})

\* fetchRef, fetchRecent, fetchRefs, fetchAll.
FetchStart(kind, thenPrune) ==
  /\ fetch.kind = "none" /\ Use("fetch")
  /\ LET want == CASE kind = "ref"    -> PointersForRef(HEAD)
                   [] kind = "recent" -> PointersForRef(HEAD) \cup RecentObjects
                   [] kind = "refs"   -> PointersForRefs({HEAD})
                   [] kind = "all"    -> FetchAll
     IN /\ fetch' = [IdleFetch EXCEPT !.kind = kind, !.todo = Missing(want),
                                   !.prune = thenPrune]
        /\ recentFetch' = IF kind = "recent" /\ prune.phase = "idle"
                          THEN [oids |-> want, day |-> day] ELSE recentFetch
  /\ UNCHANGED <<conf, checkVars, gitVars, refVars, store, server, wt, push, prune, pull, ever, blind>>

FetchDownload(o) ==
  /\ o \in fetch.todo
  /\ fetch' = [fetch EXCEPT !.todo = @ \ {o}, !.ok = @ /\ o \in server]
  /\ store' = IF o \in server THEN store \cup {o} ELSE store
  /\ damaged' = IF o \in server THEN damaged \ {o} ELSE damaged
  /\ UNCHANGED <<conf, staged, fsck, sound, left, gitVars, refVars, server, wt, push, prune, pull, history>>

\* fetchCommand: prune follows even a fetch that failed.
FetchEnd ==
  /\ fetch.kind # "none" /\ fetch.todo = {}
  /\ IF fetch.prune THEN StartPrune(FALSE, FALSE, conf.verifyAlways, FALSE)
     ELSE UNCHANGED prune
  /\ fetch' = IdleFetch
  /\ UNCHANGED <<conf, checkVars, left, gitVars, refVars, store, server, wt, push, pull, history>>

--------------------------------------------------------------------------
(* git lfs pull and git lfs checkout *)

\* How the checkout of one file goes: the file cannot be read or opened, or its writing is cut off.
Faults == {"none"} \cup IF conf.writeFails THEN {"open", "write"} ELSE {}

\* singleCheckout.Run: a file that is neither missing nor this pointer is left alone, and without
\* the filters noOpCheckout.Run leaves every file alone.
ToWrite(file, o) == conf.installed /\ file \in {Absent, Pointer(o)}
Run(file, o, have, fault) ==
  CASE ~ToWrite(file, o) \/ fault = "open" -> file
    [] ToWrite(file, o) /\ fault = "write" -> CutOff
    [] OTHER                               -> Smudged(o, have)

\* It prints an error when that fails, or when the content is not local, and goes on.
RunFails(file, o, have, fault) == ToWrite(file, o) /\ (fault # "none" \/ o \notin have)

\* checkoutCommand
Checkout(P) ==
  /\ Use("checkout")
  /\ \E fault \in [P -> Faults] :
       wt' = [p \in Paths |-> IF p \in P /\ HeadTree[p] # NoOid
                             THEN Run(wt[p], HeadTree[p], store, fault[p]) ELSE wt[p]]
  /\ UNCHANGED <<conf, checkVars, gitVars, refVars, store, server, push, prune, fetch, pull, history>>

\* The pointers of a commit; the scanner reports them in the order of its tree.
PathsToPull(tree) == {p \in Paths \ conf.exclude : tree[p] # NoOid}

\* pull reads HEAD once, and goes by that commit.
PullStart ==
  /\ ~pull.on /\ Use("pull")
  /\ pull' = [IdlePull EXCEPT !.on = TRUE, !.tree = HeadTree, !.todo = PathsToPull(HeadTree),
                 !.trusted = {p \in Paths : HeadTree[p] \in sound /\ wt[p] # Corrupt(HeadTree[p])}]
  /\ UNCHANGED <<conf, checkVars, gitVars, refVars, store, server, wt, push, prune, fetch, history>>

\* Variant for mutation: Seen does not append the path.
SeenForgets(o, p) == pull.ptr[o]

\* pointerMap.Seen: a path whose object is being downloaded waits for it too.
Seen(o) == pull.ptr[o] # {}
SeenPointers(o, p) == pull.ptr[o] \cup {p}

\* The scanner's callback, for one path.  The queue announces a finished object again.
PullScan(p) ==
  /\ pull.on /\ IsFirst(p, pull.todo)
  /\ LET o == pull.tree[p]
         rest == [pull EXCEPT !.todo = @ \ {p}]
     IN \/ Seen(o) /\ pull' = [rest EXCEPT !.ptr[o] = SeenPointers(o, p)] /\ UNCHANGED wt
        \/ /\ ~Seen(o) /\ ObjectExists(o)
           /\ \E fault \in Faults :
                /\ wt' = [wt EXCEPT ![p] = Run(@, o, store, fault)]
                /\ pull' = [rest EXCEPT !.skipped = @ \cup {q \in {p} : RunFails(wt[p], o, store, fault)}]
        \/ /\ ~Seen(o) /\ ~ObjectExists(o) /\ UNCHANGED wt
           /\ pull' = [rest EXCEPT !.ptr[o] = {p}, !.queued = @ \cup {o},
                                   !.watch = IF o \in pull.done THEN @ \cup {o} ELSE @]
  /\ UNCHANGED <<conf, checkVars, left, gitVars, refVars, store, server, push, prune, fetch, history>>

PullDownload(o) ==
  /\ pull.on /\ o \in pull.queued \ (pull.done \cup pull.failed)
  /\ \/ /\ o \in server /\ store' = store \cup {o} /\ damaged' = damaged \ {o} /\ UNCHANGED left
        /\ pull' = [pull EXCEPT !.done = @ \cup {o}, !.watch = @ \cup {o}]
     \/ /\ o \notin server /\ UNCHANGED <<left, store, damaged>>
        /\ pull' = [pull EXCEPT !.failed = @ \cup {o}]
     \/ /\ o \in server /\ Use("fault") /\ UNCHANGED <<store, damaged>>
        /\ pull' = [pull EXCEPT !.failed = @ \cup {o}]
  /\ UNCHANGED <<conf, staged, fsck, sound, gitVars, refVars, server, wt, push, prune, fetch, history>>

\* The goroutine that watches the queue: every path waiting for the object is checked out.
PullWatch(o) ==
  /\ o \in pull.watch
  /\ \E fault \in [pull.ptr[o] -> Faults] :
       /\ wt' = [p \in Paths |-> IF p \in pull.ptr[o] THEN Run(wt[p], o, store, fault[p]) ELSE wt[p]]
       /\ pull' = [pull EXCEPT !.watch = @ \ {o}, !.ptr[o] = {},
                     !.skipped = @ \cup {p \in pull.ptr[o] : RunFails(wt[p], o, store, fault[p])}]
  /\ UNCHANGED <<conf, checkVars, left, gitVars, refVars, store, server, push, prune, fetch, history>>

PullDone == /\ pull.on /\ pull.todo = {} /\ pull.watch = {}
            /\ pull.queued \subseteq pull.done \cup pull.failed

PullEnd ==
  /\ PullDone /\ pull' = IdlePull
  /\ UNCHANGED <<conf, checkVars, left, gitVars, refVars, store, server, wt, push, prune, fetch, history>>

--------------------------------------------------------------------------
(* git lfs fsck --objects *)

\* The disk damages an object's file and leaves its size.
Damage(o) ==
  /\ Use("damage") /\ o \in store \ damaged
  /\ damaged' = damaged \cup {o} /\ sound' = sound \ {o}
  /\ fsck' = [fsck EXCEPT !.scope = @ \ {o}]
  /\ pull' = [pull EXCEPT !.trusted = {p \in @ : pull.tree[p] # o}]
  /\ UNCHANGED <<conf, staged, gitVars, refVars, store, server, wt, push, prune, fetch, history>>

\* A report of a scan: the path it is sorted by, the name of the object, the object.
\* ScanRef reports every object under its first path.
RefOids ==
  {<<p, p, HeadTree[p]>> : p \in {q \in PathsToPull(HeadTree) : FirstPath(HeadTree, HeadTree[q]) = q}}

\* What git diff-index reports against HEAD, and what of it is a blob.
DiffIndex == {p \in Paths : Index[p] # HeadTree[p]}
RevListIndex == {p \in DiffIndex : Index[p] # NoOid}
FilesFor(o) == {p \in RevListIndex : Index[p] = o}

\* A blob that several paths stage is reported for each of its names; the names that diff-index
\* has not printed yet are missed.
ScanIndex(late) ==
  {<<FirstOf(FilesFor(Index[p])), p, Index[p]>> : p \in RevListIndex \ (conf.exclude \cup late)}
LateNames == {p \in RevListIndex : FirstOf(FilesFor(Index[p])) # p}

FsckStart(dryRun, useIndex) ==
  /\ fsck.phase = "idle" /\ Use("fsck")
  /\ fsck' = [IdleFsck EXCEPT !.phase = "check", !.dryRun = dryRun, !.useIndex = useIndex,
                 !.todo = RefOids, !.scope = UsedBy(HEAD)]
  /\ UNCHANGED <<conf, damaged, staged, sound, gitVars, refVars, store, server, wt, push, prune, fetch,
                 pull, history>>

FsckPointer(o) == o \in store \ damaged

FsckCheck ==
  /\ fsck.phase = "check"
  /\ \E r \in fsck.todo :
       /\ IsFirst(r[1], {t[1] : t \in fsck.todo})
       /\ fsck' = [fsck EXCEPT !.todo = @ \ {r},
                     !.corrupt = IF FsckPointer(r[3]) THEN @ ELSE Append(@, r[3])]
  /\ UNCHANGED <<conf, damaged, staged, sound, left, gitVars, refVars, store, server, wt, push, prune,
                 fetch, pull, history>>

\* The index is compared with HEAD as it is now, which need not be the commit that was scanned.
FsckIndex ==
  /\ fsck.phase = "check" /\ fsck.todo = {} /\ fsck.useIndex
  /\ \E late \in SUBSET LateNames :
       fsck' = [fsck EXCEPT !.todo = ScanIndex(late), !.useIndex = FALSE,
                  !.scope = @ \cup {o \in UsedIn(Index) : FilesFor(o) # {}}]
  /\ UNCHANGED <<conf, damaged, staged, sound, left, gitVars, refVars, store, server, wt, push, prune,
                 fetch, pull, history>>

\* The end of a fsck that leaves nothing damaged behind.
FsckOK(f) == fsck' = IdleFsck /\ sound' = sound \cup f.scope

FsckReport ==
  /\ fsck.phase = "check" /\ fsck.todo = {} /\ ~fsck.useIndex
  /\ IF fsck.corrupt = <<>> THEN FsckOK(fsck)
     ELSE /\ fsck' = IF fsck.dryRun THEN IdleFsck ELSE [fsck EXCEPT !.phase = "repair"]
          /\ UNCHANGED sound
  /\ UNCHANGED <<conf, damaged, staged, left, gitVars, refVars, store, server, wt, push, prune, fetch,
                 pull, history>>

\* The corrupt objects move to lfs/bad one by one, whatever their files hold by now; one that has
\* no file, because it was missing or is on the list twice, ends the command.
FsckRepair ==
  /\ fsck.phase = "repair"
  /\ LET o == Head(fsck.corrupt)
         rest == [fsck EXCEPT !.corrupt = Tail(@)]
     IN IF o \in store
        THEN /\ store' = store \ {o} /\ damaged' = damaged \ {o}
             /\ IF rest.corrupt = <<>> THEN FsckOK(rest) ELSE fsck' = rest /\ UNCHANGED sound
        ELSE fsck' = IdleFsck /\ UNCHANGED <<store, damaged, sound>>
  /\ UNCHANGED <<conf, staged, left, gitVars, refVars, server, wt, push, prune, fetch, pull, history>>

--------------------------------------------------------------------------
Next ==
  \/ Stage \/ Commit \/ Stash \/ Tick
  \/ \E b \in Branches : Merge(b) \/ Switch(b) \/ AddWorktree(b) \/ DeleteRemoteBranch(b)
  \/ \E p \in Paths : Edit(p)
  \/ CollectGarbage \/ GitFetchPrune
  \/ \E B \in SUBSET Branches : PrePush(B)
  \/ \E all \in BOOLEAN : LfsPush(all)
  \/ \E b \in Branches : PushScan(b)
  \/ \E o \in Oids : PushUpload(o) \/ PushUploadFails(o)
  \/ PushEnd
  \/ \E a \in conf.pruneArgs : PruneCommand(a.force, a.recent, a.verify, a.dryRun)
  \/ \E t \in prune.todo : PruneTask(t)
  \/ PruneStops \/ PruneSelect
  \/ \E o \in Oids : PruneDelete(o)
  \/ \E a \in conf.fetchArgs : FetchStart(a[1], a[2])
  \/ \E o \in Oids : FetchDownload(o)
  \/ FetchEnd
  \/ \E P \in SUBSET Paths : Checkout(P)
  \/ PullStart \/ (\E p \in pull.todo : PullScan(p))
  \/ \E o \in Oids : PullDownload(o) \/ PullWatch(o)
  \/ PullEnd
  \/ \E o \in Oids : Damage(o)
  \/ \E a \in conf.fsckArgs : FsckStart(a[1], a[2])
  \/ FsckCheck \/ FsckIndex \/ FsckReport \/ FsckRepair

Spec == Init /\ [][Next]_vars

--------------------------------------------------------------------------
(* Properties *)

\* Everything that the remote's branches need is on the server, unless missing objects
\* were allowed or a push could not list the remote's branches (or found that all the
\* branches it tracks are gone): then revListArgs trusts every tracking ref, the ones
\* of deleted branches too, and leaves out objects that the server has dropped.
PushedIsOnServer ==
  ~conf.allowMissing /\ ~blind => Objects(Reach(Range(remote))) \subseteq server

Pruned == IF prune' # prune THEN store \ store' ELSE {}

MergeObjects ==
  UNION {ObjectsIn(commits[c].tree) \ Objects(Range(commits[c].parents))
           : c \in {d \in 1..Len(commits) : IsMerge(d)}}

\* prune deletes the only copy of nothing that a branch needs: the object has been on
\* the server, and is there now when prune verified it (lfs.pruneverifyremotealways,
\* --verify-remote).  An object at an excluded path is not verified, an object that only a merge
\* introduced is not seen by git log, and what is committed while prune runs may come too late
\* for the task that looks for it.
PrunesOnlyPushed ==
  [][~conf.allowMissing =>
       \A o \in (Pruned \cap Objects(Reach(Tips))) \ (MergeObjects \cup prune.late) :
         o \in ever /\ (prune.verify /\ conf.exclude = {} => o \in server)]_vars

\* prune keeps what a stash can restore, and without --force what the checkouts use, though its
\* tasks read HEAD, the worktrees and the stashes one by one while the user goes on; what is
\* stashed, checked out or left while prune runs is not counted.
PruneKeepsUsed ==
  [][/\ Pruned \cap (StashObjects \ UNION {ObjectsIn(commits[s.base].tree) : s \in Stashed})
          \subseteq prune.late
     /\ ~prune.force => Pruned \cap UNION {UsedBy(c) : c \in WorktreeHEADs} \subseteq prune.late]_vars

\* What fetch --recent asked for is not pruned within lfs.pruneoffsetdays, by a later prune
\* without --recent or --force, as long as no ref moved.
FetchedRecentKept ==
  [][~prune.recent /\ conf.exclude = {} /\ day <= recentFetch.day + conf.offset =>
       Pruned \cap recentFetch.oids = {}]_vars

\* git lfs ls-files: what is staged, then the other files of HEAD, each with a mark that says
\* whether the working tree has a file of the object's size; a file that somebody wrote has not.
LsFilesMarker(p, o) == IF wt[p] \in {Content(o), Corrupt(o)} THEN "*" ELSE "-"
LsFiles == {<<p, LsFilesMarker(p, Index[p])>> : p \in {q \in Paths : Index[q] # NoOid}}

\* When a pull reports success ls-files marks every file that it checks out as present, except
\* those that it has printed an error for, though the scanner, the queue's watcher, prune, fsck and
\* the user go on concurrently and several paths may share an object; and once fsck was content or
\* has repaired the store, a pull writes no damaged file.  Without the filters a pull succeeds and
\* writes nothing; it leaves a file alone that somebody wrote or that an earlier failure cut off,
\* and it answers for no path that the user changed while it ran.
PullComplete ==
  PullDone =>
    /\ pull.failed = {} /\ conf.installed =>
         \A p \in Paths \ (conf.exclude \cup pull.skipped \cup pull.touched) :
           wt[p] \notin {Edited, CutOff} => <<p, "-">> \notin LsFiles
    /\ \A p \in pull.trusted \ pull.touched : wt[p] # Corrupt(HeadTree[p])
=============================================================================
