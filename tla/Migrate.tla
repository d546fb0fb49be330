------------------------------ MODULE Migrate -------------------------------
(***************************************************************************)
(* git lfs migrate import, export and info in a repository that install,   *)
(* track and untrack set up (module Setup) and in which the user commits   *)
(* and pushes.  A migration rewrites commits one by one, parents first,    *)
(* and then moves the refs one by one; it may fail or be killed between    *)
(* any two of these steps and be run again.                                *)
(*                                                                         *)
(* Git objects are identified by their contents: commits and tags are      *)
(* numbered, and writing one that exists gives its number.  The tree of a  *)
(* commit is flattened to its paths and the lines of the top-level         *)
(* .gitattributes; a blob is raw or a pointer.  A commit carries the       *)
(* number of the commit it was first made as, which stands for the author, *)
(* the dates and the message that a rewrite keeps.                         *)
(***************************************************************************)
EXTENDS Setup

CONSTANTS
  Oids, NoBlob,
  Small,          \* objects of a size below --above, as pointers are
  LocalRefs,      \* refs/heads and refs/tags in the order of for-each-ref
  TagRefs,
  Remotes,        \* refs/remotes/origin, by the branch they follow
  NoRef,
  Scenarios       \* bound: history, options, and how often each command runs

Branches == Range(LocalRefs) \ TagRefs
Blobs == [oid : Oids, ptr : BOOLEAN]

Trees == [files : [Paths -> Blobs \cup {NoBlob}], attrs : Seq(Lines)]
Values == [t : {"commit", "tag"}, n : Nat]   \* what a ref or a tag names

\* A history whose commits are numbered in order, parents first.
GoodCommits(cs) ==
  /\ cs \in Seq([made : Nat, parents : Seq(Nat), tree : Trees])
  /\ \A i \in 1..Len(cs) : cs[i].made = i /\ cs[i].parents \in Seq(1..(i - 1))

\* Tags of commits, and of tags that were made before them.
GoodTags(ts, cs) ==
  /\ ts \in Seq([name : TagRefs, type : {"commit", "tag"}, obj : Values])
  /\ \A i \in 1..Len(ts) :
       /\ ts[i].obj.t = ts[i].type
       /\ ts[i].obj.n \in IF ts[i].type = "commit" THEN 1..Len(cs) ELSE 1..(i - 1)

\* The refs of refs/tags name commits or tags, of whatever name; all others name commits.
GoodRefs(ts, cs, rf) ==
  /\ rf \in [Range(LocalRefs) \cup Remotes -> Values \cup {NoRef}]
  /\ \A r \in DOMAIN rf : rf[r] # NoRef =>
       IF rf[r].t = "commit" THEN rf[r].n \in 1..Len(cs) ELSE r \in TagRefs /\ rf[r].n \in 1..Len(ts)

PointersIn(files) == {files[p].oid : p \in {q \in Paths : files[q] # NoBlob /\ files[q].ptr}}

\* The objects of a repository that was pushed with the hook: those of commits that refs/remotes or the
\* remote's branches reach are on the server, the others there or in the store.
ObjectsThere(c) ==
  LET pointers(i) == PointersIn(c.commits[i].tree.files)
  IN /\ \A i \in 1..Len(c.commits) : pointers(i) \subseteq c.store \cup c.server
     /\ \E D \in SUBSET (1..Len(c.commits)) :
          /\ \A i \in D : Range(c.commits[i].parents) \subseteq D /\ pointers(i) \subseteq c.server
          /\ \A b \in DOMAIN c.remote : c.remote[b] \in D
          /\ \A r \in Remotes : c.refs[r] # NoRef => c.refs[r].n \in D

ASSUME MigrateAssumption ==
  /\ LocalRefs \in Seq(Range(LocalRefs))
  /\ TagRefs \subseteq Range(LocalRefs) /\ Small \subseteq Oids
  /\ Remotes \cap Range(LocalRefs) = {} /\ NoBlob \notin Blobs \cup Oids /\ NoRef \notin Values
  /\ \A c \in Scenarios :
       /\ c.hooks \in [Range(HookTypes) -> HookTexts]
       /\ c.filter \in [Scopes -> [FilterKeys -> FilterTexts]]
       /\ GoodCommits(c.commits) /\ GoodTags(c.tags, c.commits) /\ GoodRefs(c.tags, c.commits, c.refs)
       /\ c.head \in Branches /\ c.refs[c.head] # NoRef
       /\ \A b \in DOMAIN c.remote : c.remote[b] \in 1..Len(c.commits)
       /\ \A b \in (DOMAIN c.remote) \cup {c.head} : \E r \in Remotes : c.follows[r] = b
       /\ c.hooks[PrePush] \in {"ours", "old"} => ObjectsThere(c)
       /\ c.edits \subseteq [Paths -> Oids \cup {NoBlob}]
       /\ \A opt \in c.options :
            /\ opt.cmd \in {"import", "export", "info"}
            /\ opt.args \cup opt.includeRefs \cup opt.excludeRefs \subseteq DOMAIN c.refs

VARIABLES
  conf, left,       \* the scenario, and the commands it has left
  commits, tags,    \* git objects
  refs, head,       \* refs/*, and the branch that is checked out
  remote,           \* the remote's branches
  store, server,    \* LFS objects in .git/lfs/objects, and on the server
  objectMap,        \* the file of --object-map, NoRef when there is none
  run,              \* the migration that is running
  \* ---- history
  target,           \* what each local ref is meant to name: commits, as they were first made
  ownHook           \* there was a pre-push hook of the user's, or none although there were pointers

gitVars == <<commits, tags, refs, head, remote>>
objVars == <<store, server>>
history == <<target, ownHook>>
vars == <<setupVars, conf, left, gitVars, objVars, objectMap, run, history>>

--------------------------------------------------------------------------
(* Git objects *)

IsCommit(v) == v.t = "commit"
CommitRef(n) == [t |-> "commit", n |-> n]
TagRef(n) == [t |-> "tag", n |-> n]

PeelTag[i \in 1..Len(tags)] == IF IsCommit(tags[i].obj) THEN tags[i].obj.n ELSE PeelTag[tags[i].obj.n]
Peel(v) == IF IsCommit(v) THEN v.n ELSE PeelTag[v.n]

Ancestors[c \in 1..Len(commits)] ==
  {c} \cup UNION {Ancestors[p] : p \in Range(commits[c].parents)}
ReachIn(rf, R) == UNION {Ancestors[Peel(rf[r])] : r \in {s \in R : rf[s] # NoRef}}
Reach(R) == ReachIn(refs, R)

HeadTree == commits[Peel(refs[head])].tree
Contents(files) == [p \in Paths |-> IF files[p] = NoBlob THEN NoBlob ELSE files[p].oid]
Pointers(C) == UNION {PointersIn(commits[c].tree.files) : c \in C}

\* Writing an object: its number, and the objects with it.
NumberOf(objs, o) ==
  IF \E i \in 1..Len(objs) : objs[i] = o THEN CHOOSE i \in 1..Len(objs) : objs[i] = o ELSE Len(objs) + 1
Written(objs, o) == IF \E i \in 1..Len(objs) : objs[i] = o THEN objs ELSE Append(objs, o)

--------------------------------------------------------------------------
(* The user: commits, pushes, and the commands of Setup *)

NoRun == [pc |-> "idle"]
Running == run.pc # "idle"

\* The clean filter: copyToTemp finds out whether the content is a pointer already, which is then
\* written as it is.
CopyToTemp(b) == IF b.ptr THEN "pointer" ELSE "content"
Clean(b) == IF CopyToTemp(b) = "pointer" THEN b ELSE [b EXCEPT !.ptr = TRUE]

\* git add: a file that changed, or that track touched, goes through the filter if it has one.
Changed(oids) ==
  LET old == HeadTree.files
  IN {p \in Paths : oids[p] # NoBlob /\ (old[p] = NoBlob \/ old[p].oid # oids[p] \/ p \in touched)}
Filtered(oids) == {p \in Changed(oids) : FilterIsLfs(wattrs, p) /\ Cleans}
Staged(oids) ==
  LET Add(p) == IF p \in Changed(oids) THEN [oid |-> oids[p], ptr |-> p \in Filtered(oids)] ELSE HeadTree.files[p]
  IN [p \in Paths |-> IF oids[p] = NoBlob THEN NoBlob ELSE Add(p)]

\* The filter installs the hooks when git starts it.
RunFilter(files) == IF files # {} THEN InstallHooks(FALSE) ELSE UNCHANGED hooks

Use(cmd) == left[cmd] > 0 /\ left' = [left EXCEPT ![cmd] = @ - 1]

\* The user commits, also while a migration runs.  A commit made while it moves refs may get lost:
\* then the branch is meant to name either the commit or what it named before.
Overtakes == run.pc = "refs"

Commit ==
  /\ Use("commit")
  /\ \E oids \in conf.edits :
       LET n == Len(commits) + 1
           tree == [files |-> Staged(oids), attrs |-> wattrs]
       IN /\ tree # HeadTree
          /\ RunFilter(Filtered(oids))
          /\ commits' = Append(commits, [made |-> n, parents |-> <<Peel(refs[head])>>, tree |-> tree])
          /\ refs' = [refs EXCEPT ![head] = CommitRef(n)]
          /\ target' = [target EXCEPT ![head] = {n} \cup (IF Overtakes THEN @ ELSE {})]
          /\ store' = store \cup {oids[p] : p \in Filtered(oids)}
  /\ touched' = {}
  /\ UNCHANGED <<filter, access, wattrs, conf, tags, head, remote, server, objectMap, run, ownHook>>

OnRemote == UNION {Ancestors[remote[b]] : b \in DOMAIN remote}

\* The refs of refs/remotes whose branch the remote still has; all of them when there is none.
SkippedRefs ==
  LET there == {r \in Remotes : refs[r] # NoRef /\ conf.follows[r] \in DOMAIN remote}
  IN IF there = {} THEN Remotes ELSE there

\* The objects that the pre-push hook uploads: those of commits that neither these refs reach nor the
\* branch on the remote.
PushedObjects ==
  LET bases == {remote[b] : b \in (DOMAIN remote) \cap {head}}
  IN Pointers(Ancestors[Peel(refs[head])] \ (Reach(SkippedRefs) \cup UNION {Ancestors[c] : c \in bases}))

\* git push --force of the current branch, which fails with the hook when an object is nowhere.
GitPush ==
  /\ Use("push") /\ ~Running
  /\ IF hooks[PrePush] \in {"ours", "old"}
     THEN PushedObjects \subseteq store \cup server /\ server' = server \cup PushedObjects
     ELSE UNCHANGED server
  /\ remote' = [b \in (DOMAIN remote) \cup {head} |-> IF b = head THEN Peel(refs[head]) ELSE remote[b]]
  /\ refs' = [r \in DOMAIN refs |-> IF r \in Remotes /\ conf.follows[r] = head THEN refs[head] ELSE refs[r]]
  /\ UNCHANGED <<setupVars, conf, commits, tags, head, store, objectMap, run, history>>

\* Somebody else pushes a commit on top of a branch of the remote.
RemoteCommit ==
  /\ Use("remote")
  /\ \E b \in DOMAIN remote :
       /\ commits' = Append(commits, [commits[remote[b]] EXCEPT !.made = Len(commits) + 1, !.parents = <<remote[b]>>])
       /\ remote' = [remote EXCEPT ![b] = Len(commits) + 1]
  /\ UNCHANGED <<setupVars, conf, tags, refs, head, objVars, objectMap, run, history>>

SetupCommand ==
  /\ Use("setup") /\ ~Running
  /\ \/ \E scope \in Scopes, skip \in BOOLEAN, force \in conf.force : Install(scope, skip, force)
     \/ \E force \in conf.force : Update(force)
     \/ \E scope \in Scopes : Uninstall(scope)
     \/ \E pat \in Patterns : Track(pat, {p \in Paths : HeadTree.files[p] # NoBlob})
     \/ \E pat \in Patterns : Untrack(pat)
  /\ ownHook' = (ownHook \/ hooks'[PrePush] \in {"none", "user"})
  /\ UNCHANGED <<conf, gitVars, objVars, objectMap, run, target>>

--------------------------------------------------------------------------
(* Which commits a migration takes *)

Hardcore(opt) == opt.includeRefs \cup opt.excludeRefs # {}
Unpublished(opt) == ~Hardcore(opt) /\ ~opt.everything

Dirty == wattrs # HeadTree.attrs \/ Staged(Contents(HeadTree.files)) # HeadTree.files

\* Combinations of options that end the command.
Refused(opt) ==
  \/ opt.everything /\ (opt.args # {} \/ Hardcore(opt))
  \/ opt.fixup /\ (opt.include # <<>> \/ opt.exclude # <<>>)
  \/ opt.cmd = "import" /\ opt.above /\ (opt.include # <<>> \/ opt.exclude # <<>> \/ opt.fixup)
  \/ opt.cmd = "export" /\ opt.include = <<>>

\* Mutant: the remote is not fetched.
NeverFetch(opt) == refs

\* git fetch, which does not happen with --skip-fetch or when no ref of the remote is needed.
Fetch(opt) ==
  [r \in DOMAIN refs |->
     IF /\ Unpublished(opt) /\ ~opt.skipFetch
        /\ r \in Remotes /\ conf.follows[r] \in DOMAIN remote
     THEN CommitRef(remote[conf.follows[r]]) ELSE refs[r]]

\* The branches of the remote: by ls-remote, or those in refs/remotes with --skip-fetch.
GetRemoteRefs(opt) ==
  {r \in Remotes : IF opt.skipFetch THEN refs[r] # NoRef ELSE conf.follows[r] \in DOMAIN remote}

IncludeRefs(opt) ==
  IF opt.everything THEN {r \in DOMAIN refs : refs[r] # NoRef}
  ELSE IF opt.args = {} /\ ~Hardcore(opt) THEN {head} ELSE opt.args \cup opt.includeRefs

ExcludeRefs(opt) == IF Unpublished(opt) THEN GetRemoteRefs(opt) ELSE opt.excludeRefs

CommitsToMigrate(opt, rf) == ReachIn(rf, IncludeRefs(opt)) \ ReachIn(rf, ExcludeRefs(opt))

Unresolved(opt) == \E r \in (IncludeRefs(opt) \cup opt.excludeRefs) : refs[r] = NoRef

NewRun(opt, rf) ==
  [pc |-> IF opt.cmd = "export" THEN "download" ELSE "rewrite", opt |-> opt,
   todo |-> CommitsToMigrate(opt, rf), cache |-> <<>>,
   entries |-> <<>>, exts |-> <<>>, counted |-> {}, list |-> <<>>, listed |-> <<>>, stack |-> <<>>, seen |-> {}]

\* import, export, info: the checks, the hooks, the fetch and the list of commits.  git status, which
\* import and export ask about the working tree, gives files that were touched to the filter.
\* The file of the object map must be new.
StartMigrate ==
  /\ Use("migrate") /\ ~Running
  /\ \E opt \in conf.options :
       /\ opt.cmd # "info" => ~Dirty \/ opt.yes
       /\ CASE opt.cmd = "import" -> InstallHooks(FALSE)
            [] opt.cmd = "export" -> RunFilter(Filtered(Contents(HeadTree.files)))
            [] opt.cmd = "info"   -> UNCHANGED hooks
       /\ refs' = IF Refused(opt) \/ Unresolved(opt) THEN refs ELSE Fetch(opt)
       /\ IF Refused(opt) \/ Unresolved(opt) \/ (opt.map /\ objectMap # NoRef)
          THEN UNCHANGED <<run, objectMap>>
          ELSE /\ run' = NewRun(opt, Fetch(opt))
               /\ objectMap' = IF opt.map THEN {} ELSE objectMap
  /\ UNCHANGED <<filter, access, wattrs, touched, conf, commits, tags, head, remote, objVars, history>>

--------------------------------------------------------------------------
(* Rewriting commits *)

MatchesAny(pats, p) == \E i \in 1..Len(pats) : Matches(pats[i], p)
Allows(opt, p) == (opt.include = <<>> \/ MatchesAny(opt.include, p)) /\ ~MatchesAny(opt.exclude, p)

\* export: objects of the commits' pointers whose (one) reported name the filter allows.
\* An object with several names is reported under any one of them.
Downloadable(some) ==
  {o \in Pointers(run.todo) :
     LET names == {p \in Paths : \E c \in run.todo : commits[c].tree.files[p] = [oid |-> o, ptr |-> TRUE]}
     IN IF some THEN \E p \in names : Allows(run.opt, p) ELSE \A p \in names : Allows(run.opt, p)}

Download ==
  /\ run.pc = "download"
  /\ \E D \in SUBSET Downloadable(TRUE) :
       /\ Downloadable(FALSE) \subseteq D
       /\ store' = store \cup (D \cap server)
       /\ run' = IF D \subseteq store \cup server THEN [run EXCEPT !.pc = "rewrite"] ELSE NoRun
  /\ UNCHANGED <<setupVars, conf, left, gitVars, server, objectMap, history>>

\* import's pattern for a file it converts: its extension, unless --above chose it by size.
ExtOf(opt, p) == Line(IF Ext[p] # NoExt /\ ~opt.above THEN Ext[p] ELSE p, "lfs")

\* OrderedSet: what is already there keeps its place.
AddTo(lines, line) == IF \E i \in 1..Len(lines) : lines[i] = line THEN lines ELSE Append(lines, line)
Union(theirs, ours) == FoldLeft(AddTo, <<>>, theirs \o ours)

\* import leaves small files to --above, and files that .gitattributes does not give it to --fixup.
Converts(opt, attrs, p, b) ==
  /\ opt.above => ~b.ptr /\ b.oid \notin Small
  /\ opt.fixup => FilterIsLfs(attrs, p)

\* info counts every entry once; with --fixup only raw files that .gitattributes gives to Git LFS.
Counts(opt, attrs, p, b) == opt.cmd = "info" /\ (opt.fixup => ~b.ptr /\ FilterIsLfs(attrs, p))

RewriteBlob(opt, attrs, p, b) ==
  CASE opt.cmd = "import" /\ Converts(opt, attrs, p, b) -> Clean(b)
    [] opt.cmd = "export" -> [b EXCEPT !.ptr = FALSE]
    [] OTHER -> b

\* Mutant: a cache of entries by path alone.
PathKey(p, b) == <<p>>

EntryKey(p, b) == <<p, b>>

Blob(c, p) == commits[c].tree.files[p]

\* The entries of commit c that the filter lets through, and those of them that are not in the cache.
Rewritten(c) == {p \in Paths : Blob(c, p) # NoBlob /\ Allows(run.opt, p)}
Uncached(c) == {p \in Rewritten(c) : EntryKey(p, Blob(c, p)) \notin DOMAIN run.entries}

NewBlob(c, p) == RewriteBlob(run.opt, commits[c].tree.attrs, p, Blob(c, p))

\* One entry of a tree: copied when filtered, taken from the cache by path and blob, or rewritten.
RewriteEntry(c, p) ==
  CASE p \notin Rewritten(c) -> Blob(c, p)
    [] p \in Uncached(c)     -> NewBlob(c, p)
    [] OTHER                 -> run.entries[EntryKey(p, Blob(c, p))]

\* What rewriteTree leaves in the cache of entries, and what the callback on blobs notes of them.
CachedEntries(c) ==
  [key \in (DOMAIN run.entries) \cup {EntryKey(p, Blob(c, p)) : p \in Uncached(c)} |->
     IF key \in DOMAIN run.entries THEN run.entries[key] ELSE NewBlob(c, key[1])]
Noted(c, exts) ==
  LET New(p) == /\ p \in Uncached(c) /\ run.opt.cmd = "import"
                /\ Converts(run.opt, commits[c].tree.attrs, p, Blob(c, p))
      Note(lines, p) == IF New(p) THEN AddTo(lines, ExtOf(run.opt, p)) ELSE lines
  IN FoldLeft(Note, exts, PathOrder)
Counted(c) ==
  run.counted \cup {EntryKey(p, Blob(c, p)) :
    p \in {q \in Uncached(c) : Counts(run.opt, commits[c].tree.attrs, q, Blob(c, q))}}

\* Mutant: the patterns are collected for each commit afresh.
FreshPatterns(c) ==
  [files |-> [p \in Paths |-> RewriteEntry(c, p)], entries |-> CachedEntries(c),
   exts |-> Noted(c, <<>>), counted |-> Counted(c)]

\* The files of commit c and the caches after rewriteTree, which visits a path once.
RewriteTree(c) ==
  [files |-> [p \in Paths |-> RewriteEntry(c, p)], entries |-> CachedEntries(c),
   exts |-> Noted(c, run.exts), counted |-> Counted(c)]

LinesFor(pats, kind) == [i \in 1..Len(pats) |-> Line(pats[i], kind)]
TrackedFromFilter(opt) == LinesFor(opt.include, "lfs") \o LinesFor(opt.exclude, "unset")
TrackedFromExportFilter(opt) == LinesFor(opt.include, "unspecified") \o LinesFor(opt.exclude, "lfs")

Ours(opt, exts) ==
  IF opt.cmd = "export" THEN TrackedFromExportFilter(opt)
  ELSE IF TrackedFromFilter(opt) # <<>> THEN TrackedFromFilter(opt) ELSE exts

\* The callback on the root of a rewritten tree.
TreeCallback(opt, exts, attrs) ==
  IF opt.cmd = "info" \/ opt.fixup \/ Ours(opt, exts) = <<>> THEN attrs ELSE Union(attrs, Ours(opt, exts))

\* Mutant: rewritten commits keep their parents.
KeepParents(parents) == parents

MapParents(parents) == [i \in 1..Len(parents) |-> IF parents[i] \in DOMAIN run.cache
                                                  THEN run.cache[parents[i]] ELSE parents[i]]

CacheCommit(c, n) == [d \in (DOMAIN run.cache) \cup {c} |-> IF d = c THEN n ELSE run.cache[d]]

\* export reads the object of every pointer that its callback is given from the store.
MissingObjects(c) ==
  {Blob(c, p).oid : p \in {q \in Uncached(c) : run.opt.cmd = "export" /\ Blob(c, q).ptr}} \ store

RewriteCommit ==
  /\ run.pc = "rewrite"
  /\ \E c \in run.todo :
       LET acc == RewriteTree(c)
           new == [commits[c] EXCEPT !.parents = MapParents(@),
                     !.tree = [files |-> acc.files, attrs |-> TreeCallback(run.opt, acc.exts, @.attrs)]]
           n == NumberOf(commits, new)
       IN /\ Range(commits[c].parents) \cap run.todo = {}
          /\ IF MissingObjects(c) # {}
             THEN run' = NoRun /\ UNCHANGED <<commits, store, objectMap>>
             ELSE /\ commits' = Written(commits, new)
                  /\ store' = store \cup (PointersIn(acc.files) \ PointersIn(commits[c].tree.files))
                  /\ objectMap' = IF run.opt.map /\ n # c THEN objectMap \cup {<<c, n>>} ELSE objectMap
                  /\ run' = [run EXCEPT !.todo = @ \ {c}, !.cache = CacheCommit(c, n), !.entries = acc.entries,
                                        !.exts = acc.exts, !.counted = acc.counted]
  /\ UNCHANGED <<setupVars, conf, left, tags, refs, head, remote, server, history>>

--------------------------------------------------------------------------
(* Moving refs *)

\* info is done; import and export list the local refs, and what they name now.
EndRewrite ==
  /\ run.pc = "rewrite" /\ run.todo = {}
  /\ run' = IF run.opt.cmd = "info" THEN NoRun ELSE [run EXCEPT !.pc = "refs", !.list = LocalRefs, !.listed = refs]
  /\ UNCHANGED <<setupVars, conf, left, gitVars, objVars, objectMap, history>>

\* updateOneRef is entered for the next ref of the list, once for each ref.
ToUpdate(r) == run.listed[r] # NoRef /\ r \notin run.seen

NextRef ==
  /\ run.pc = "refs" /\ run.stack = <<>> /\ run.list # <<>>
  /\ LET r == Head(run.list)
     IN run' = IF ToUpdate(r) THEN [run EXCEPT !.list = Tail(@), !.seen = @ \cup {r}, !.stack = <<r>>]
               ELSE [run EXCEPT !.list = Tail(@)]
  /\ UNCHANGED <<setupVars, conf, left, gitVars, objVars, objectMap, history>>

Top == Last(run.stack)
TagOf(r) == tags[run.listed[r].n]
NestedTag(r) == r \in TagRefs /\ ~IsCommit(run.listed[r]) /\ TagOf(r).type = "tag"
InnerRef(r) == tags[TagOf(r).obj.n].name

\* A tag that claims to be of a tag and is of a commit, which UpdateOneRef leaves behind when the inner
\* tag's ref is a lightweight one: the command panics.
BadTag(r) == NestedTag(r) /\ IsCommit(TagOf(r).obj)

\* A tag of a tag: the ref named by the inner tag comes first, and must exist.  It is looked up now.
UpdateInnerTag ==
  /\ run.pc = "refs" /\ run.stack # <<>> /\ NestedTag(Top)
  /\ \/ BadTag(Top) /\ run' = NoRun
     \/ /\ ~BadTag(Top) /\ InnerRef(Top) \notin run.seen
        /\ LET inner == InnerRef(Top)
           IN run' = IF refs[inner] = NoRef THEN NoRun
                     ELSE [run EXCEPT !.stack = Append(@, inner), !.seen = @ \cup {inner}, !.listed[inner] = refs[inner]]
  /\ UNCHANGED <<setupVars, conf, left, gitVars, objVars, objectMap, history>>

InCache(v) == IsCommit(v) /\ v.n \in DOMAIN run.cache

\* What the ref, as it was listed, moves to, for a nested tag whatever its inner ref names now; NoRef when it
\* stays.  update-ref is given no old value.
NewObject(r) ==
  CASE NestedTag(r) -> refs[InnerRef(r)]
    [] IsCommit(run.listed[r]) -> IF InCache(run.listed[r]) THEN CommitRef(run.cache[run.listed[r].n]) ELSE NoRef
    [] OTHER -> IF InCache(TagOf(r).obj) THEN CommitRef(run.cache[TagOf(r).obj.n]) ELSE NoRef

UpdateOneRef ==
  /\ run.pc = "refs" /\ run.stack # <<>>
  /\ NestedTag(Top) => ~BadTag(Top) /\ InnerRef(Top) \in run.seen
  /\ LET to == NewObject(Top)
         tag == [TagOf(Top) EXCEPT !.obj = to]
     IN \/ to = NoRef /\ UNCHANGED <<tags, refs>>
        \/ to # NoRef /\ IsCommit(run.listed[Top]) /\ refs' = [refs EXCEPT ![Top] = to] /\ UNCHANGED tags
        \/ /\ to # NoRef /\ ~IsCommit(run.listed[Top])
           /\ tags' = Written(tags, tag)
           /\ refs' = [refs EXCEPT ![Top] = TagRef(NumberOf(tags, tag))]
  /\ run' = [run EXCEPT !.stack = Front(@)]
  /\ UNCHANGED <<setupVars, conf, left, commits, head, remote, objVars, objectMap, history>>

\* prune with no window of days: objects at HEAD, and those that unpushed commits add to their parent.
\* git log -p shows nothing of a merge.
IsMerge(c) == Len(commits[c].parents) > 1
Brought(c) == PointersIn(commits[c].tree.files) \ Pointers(Range(commits[c].parents))
Added(c) == IF IsMerge(c) THEN {} ELSE Brought(c)

\* Mutant: objects at HEAD only.
RetainedAtHead == PointersIn(HeadTree.files)

Retained == PointersIn(HeadTree.files) \cup UNION {Added(c) : c \in Reach(Range(LocalRefs)) \ Reach(Remotes)}

CheckoutNonBare == wattrs' = HeadTree.attrs /\ touched' = {}

\* git checkout --force, and for export the prune.
EndMigrate ==
  /\ run.pc = "refs" /\ run.stack = <<>> /\ run.list = <<>>
  /\ CheckoutNonBare
  /\ store' = IF run.opt.cmd = "export" THEN store \cap Retained ELSE store
  /\ run' = NoRun
  /\ UNCHANGED <<hooks, filter, access, conf, left, gitVars, server, objectMap, history>>

\* The command is killed, or a git command it runs fails.
Kill ==
  /\ Use("kill") /\ Running
  /\ run' = NoRun
  /\ UNCHANGED <<setupVars, conf, gitVars, objVars, objectMap, history>>

--------------------------------------------------------------------------
(* import --no-rewrite: one commit on top, for files that a line with a filter names *)

CleanEntries(files, F) == [p \in Paths |-> IF p \in F THEN Clean(files[p]) ELSE files[p]]

FiltersOf(attrs, p) == \E i \in 1..Len(attrs) : Matches(attrs[i].pat, p) /\ HasFilter(attrs[i])

\* The user says yes when the working tree is dirty, and its changes are lost.
ImportNoRewrite ==
  /\ Use("norewrite") /\ ~Running
  /\ InstallHooks(FALSE)
  /\ \E files \in (SUBSET Paths) \ {{}} :
       LET old == HeadTree.files
           new == CleanEntries(old, files)
           n == Len(commits) + 1
       IN /\ \A p \in files : FiltersOf(wattrs, p) /\ old[p] # NoBlob
          /\ commits' = Append(commits, [made |-> n, parents |-> <<Peel(refs[head])>>,
                                         tree |-> [files |-> new, attrs |-> HeadTree.attrs]])
          /\ refs' = [refs EXCEPT ![head] = CommitRef(n)]
          /\ target' = [target EXCEPT ![head] = {n}]
          /\ store' = store \cup (PointersIn(new) \ PointersIn(old))
  /\ CheckoutNonBare
  /\ UNCHANGED <<filter, access, conf, tags, head, remote, server, objectMap, run, ownHook>>

--------------------------------------------------------------------------
(* Specification *)

Init ==
  /\ conf \in Scenarios
  /\ left = conf.limit
  /\ SetupInit(conf.hooks, conf.filter, conf.access)
  /\ commits = conf.commits /\ tags = conf.tags /\ refs = conf.refs /\ head = conf.head
  /\ remote = conf.remote
  /\ store = conf.store /\ server = conf.server
  /\ wattrs = HeadTree.attrs
  /\ objectMap = NoRef /\ run = NoRun
  /\ target = [r \in Range(LocalRefs) |-> IF refs[r] = NoRef THEN {} ELSE {Peel(refs[r])}]
  /\ ownHook = (hooks[PrePush] = "user" \/ (hooks[PrePush] \in {"none", "empty"} /\ Pointers(1..Len(commits)) # {}))

UserNext == Commit \/ GitPush \/ RemoteCommit \/ SetupCommand \/ Kill
MigrateNext ==
  \/ StartMigrate \/ Download \/ RewriteCommit \/ EndRewrite
  \/ NextRef \/ UpdateInnerTag \/ UpdateOneRef \/ EndMigrate \/ ImportNoRewrite

Next == UserNext \/ MigrateNext
Spec == Init /\ [][Next]_vars

--------------------------------------------------------------------------
(* Properties *)

\* The commit differs from the one first made only in how files are stored and in .gitattributes.
Faithful(c) ==
  LET made == commits[commits[c].made]
      mine == commits[c].parents
  IN /\ Contents(commits[c].tree.files) = Contents(made.tree.files)
     /\ Len(mine) = Len(made.parents)
     /\ \A i \in 1..Len(mine) : commits[mine[i]].made = commits[made.parents[i]].made

\* Tags that were tagged, whose refs still name them when migrations start: the ref of an inner tag's name
\* names that tag, or is gone, and so on inwards.  After git tag -f it names another.
FirstNested(r) ==
  conf.refs[r] # NoRef /\ conf.refs[r].t = "tag" /\ conf.tags[conf.refs[r].n].type = "tag"
FirstInner(r) == conf.tags[conf.refs[r].n].obj
Linked(S) ==
  \A r \in S : FirstNested(r) =>
    LET inner == conf.tags[FirstInner(r).n].name
    IN inner \in S /\ conf.refs[inner] \in {NoRef, FirstInner(r)}
Own == Branches \cup UNION {S \in SUBSET TagRefs : Linked(S)}

\* Whatever a migration has done when it ends, fails or is killed, every branch and tag names the
\* commit it named before, with the same ancestors and the same contents of every file: rewriting,
\* the caches of Rewriter and the moves of refUpdater change how files are stored and nothing else.
\* Excepted are a tag of a tag whose inner tag's ref was moved by git tag -f, which follows that ref, and
\* commits that the user made while refs moved, which may get lost; all ancestors are faithful even so.
HistoryKept ==
  \A r \in Range(LocalRefs) : refs[r] # NoRef =>
    /\ r \in Own => commits[Peel(refs[r])].made \in target[r]
    /\ \A c \in Ancestors[Peel(refs[r])] : Faithful(c)

\* When refUpdater has been through all refs, no ref that names a migrated commit still reaches the
\* old version of one: branches, annotated tags and tags of tags all moved, and commits are linked to
\* their rewritten parents.  A run that takes both versions of a commit, which a partial migration or
\* one that was killed while it moved refs leaves behind, is excepted: it may keep them apart.  So are
\* tags of tags whose inner tag's ref was moved before.
NoOldHistoryLeft ==
  /\ run.pc = "refs" /\ run.list = <<>> /\ run.stack = <<>>
  /\ \A c, d \in DOMAIN run.cache : commits[c].made = commits[d].made => c = d
  =>
    \A r \in Own :
      refs[r] # NoRef /\ Peel(refs[r]) \in (DOMAIN run.cache) \cup Range(run.cache) =>
        \A c \in Ancestors[Peel(refs[r])] \cap DOMAIN run.cache : run.cache[c] = c

\* Every pointer of a local ref has its object in the store or on the server, and every pointer of the
\* remote's branches on the server: what import converts is stored before a ref names it, the hook that
\* import and track install uploads it, and the prune that ends an export takes nothing that is needed.
\* A repository whose pre-push hook is the user's own, or was uninstalled, is excepted, and so is an object
\* that a merge has and none of its parents: the prune may take the only copy.
MergeObjects == UNION {Brought(c) : c \in {d \in 1..Len(commits) : IsMerge(d)}}

ObjectsSurvive ==
  ~ownHook =>
    /\ Pointers(Reach(Range(LocalRefs))) \subseteq store \cup server \cup MergeObjects
    /\ Pointers(OnRemote) \subseteq server

\* import gives every file it converts a line in the .gitattributes of the same commit that makes it an
\* LFS file, whichever files the caches made it skip.  A file that the commit's own lines take out of
\* LFS is excepted, and so is import with --exclude alone, which writes only lines for what it excludes.
MigratedIsTracked ==
  run.pc = "refs" /\ run.opt.cmd = "import" /\ ~run.opt.fixup
    /\ (run.opt.include # <<>> \/ run.opt.exclude = <<>>) =>
    \A c \in DOMAIN run.cache, p \in Paths :
      LET old == commits[c].tree
          new == commits[run.cache[c]].tree
          out == \E i \in 1..Len(old.attrs) : Matches(old.attrs[i].pat, p) /\ old.attrs[i].kind \in {"unset", "unspecified"}
      IN new.files[p] # old.files[p] /\ ~out => FilterIsLfs(new.attrs, p)

\* A migration that was given neither --everything nor refs of its own moves a branch only to
\* commits that keep everything it shared with the remote, or with what refs/remotes knows of it when
\* --skip-fetch is given: published commits are not rewritten.
PublishedKept ==
  [][run.pc = "refs" /\ Unpublished(run.opt) =>
       LET published == IF run.opt.skipFetch THEN Reach(Remotes) ELSE OnRemote
       IN \A r \in Branches : refs'[r] # refs[r] =>
            Ancestors[Peel(refs[r])] \cap published \subseteq (Ancestors[Peel(refs[r])])']_vars

\* fsck --pointers: a file of commit c must be a pointer when a line gives it to Git LFS and no line,
\* wherever it stands, gives it to another filter or to none.
TreeFilterAllows(attrs, p) ==
  /\ \E i \in 1..Len(attrs) : attrs[i].kind = "lfs" /\ Matches(attrs[i].pat, p)
  /\ ~ \E i \in 1..Len(attrs) : HasFilter(attrs[i]) /\ attrs[i].kind # "lfs" /\ Matches(attrs[i].pat, p)

NotPointers(tree) == {p \in Paths : tree.files[p] # NoBlob /\ ~tree.files[p].ptr /\ TreeFilterAllows(tree.attrs, p)}

\* fsck of one revision looks at its own tree only, and reports every file that should be a pointer.
ScanRefByTree(end) == {end}
DoFsckPointers(end) == UNION {{<<c, p>> : p \in NotPointers(commits[c].tree)} : c \in ScanRefByTree(end)}

\* What the manual says of --fixup, as fsck --pointers would see it: the rewritten commits hold no file
\* that their own .gitattributes give to Git LFS and that is not a pointer.
FixupConverts ==
  run.pc = "refs" /\ run.opt.fixup => \A c \in DOMAIN run.cache : DoFsckPointers(run.cache[c]) = {}
=============================================================================
