-------------------------- MODULE RepositoryProofs --------------------------
(***************************************************************************)
(* Proofs about Repository, for any history of commits, branches, stashes  *)
(* and objects, any settings, and a user, push, prune, fetch, pull and     *)
(* fsck that interleave in any way: what a push leaves on the server, what *)
(* prune keeps, and what a pull leaves in the working tree.                *)
(*                                                                         *)
(* Ancestors is a recursive function.  It is shown to give the least set   *)
(* that holds a commit and the parents of its members (AncestorsAbove),    *)
(* from which all that is needed about histories follows.  The inductive   *)
(* invariant has a part for each of the commands and one for the files of  *)
(* the working tree; a step is proved for the parts whose state it touches *)
(* and leaves the others by the lemmas named ...Stays.                     *)
(***************************************************************************)
EXTENDS Repository, WellFoundedInduction, TLAPS

-----------------------------------------------------------------------------
(* Histories *)

Commits == [parents : Seq(Nat), tree : Trees, day : Nat]

\* The parents of a commit come before it.
IsHistory(cs) ==
  /\ cs \in Seq(Commits)
  /\ \A c \in 1..Len(cs) : \A p \in Range(cs[c].parents) : p \in 1..(c - 1)

\* What the recursive definition says, and its value.
IsAncestors(cs, f) == f = [c \in 1..Len(cs) |-> {c} \cup UNION {f[p] : p \in Range(cs[c].parents)}]
AncestorsIn(cs) == CHOOSE f : IsAncestors(cs, f)

\* The least set of commits that has c and the parents of its members.
Closed(cs, S) == \A c \in S : Range(cs[c].parents) \subseteq S
Above(cs, c) ==
  {d \in 1..Len(cs) : \A S \in SUBSET (1..Len(cs)) : c \in S /\ Closed(cs, S) => d \in S}

\* The commits that C reaches, and the objects in their trees.
From(cs, C) == UNION {AncestorsIn(cs)[c] : c \in C \ {0}}
Held(cs, C) == UNION {ObjectsIn(cs[c].tree) : c \in From(cs, C)}

-----------------------------------------------------------------------------
(* The inductive invariant *)

Numbers == 0..Len(commits)
Tasks == {"local", "refs", "unpushed", "worktree", "stashed", "reachable"}
Files == {"pointer", "content", "corrupt", "absent", "edited", "cut off"} \X (Oids \cup {NoOid})

GitTypes ==
  /\ conf \in Scenarios /\ IsHistory(commits) /\ next \in Nat \ {0} /\ day \in Nat
  /\ branch \in [Branches -> Numbers] /\ cur \in Branches /\ HEAD # 0
  /\ linked \in Numbers
  /\ stash \in Seq([base : Numbers \ {0}, idx : Trees, wip : Trees])
  /\ remote \in [Branches -> Numbers] /\ tracking \in [Branches -> Numbers]

FileTypes ==
  /\ store \subseteq Oids /\ wt \in [Paths -> Files]
  /\ staged = {} \/ \E tree \in Trees : staged = {tree}

PushType ==
  push \in [kind : {"none", "hook", "lfs", "all"}, updates : SUBSET Branches,
            refs : SUBSET Branches, bases : SUBSET Numbers, tip : [Branches -> Numbers],
            skipped : SUBSET Numbers, queue : SUBSET Oids, uploaded : SUBSET Oids,
            missing : BOOLEAN, err : BOOLEAN]

PruneType ==
  prune \in [phase : {"idle", "scan", "delete"}, todo : SUBSET Tasks, force : BOOLEAN,
             recent : BOOLEAN, verify : BOOLEAN, dryRun : BOOLEAN, local : SUBSET Oids,
             retained : SUBSET Oids, reachable : SUBSET Oids, prunable : SUBSET Oids, late : SUBSET Oids]

PullType ==
  pull \in [on : BOOLEAN, tree : Trees, todo : SUBSET Paths, ptr : [Oids -> SUBSET Paths],
            queued : SUBSET Oids, done : SUBSET Oids, failed : SUBSET Oids, watch : SUBSET Oids,
            skipped : SUBSET Paths, touched : SUBSET Paths, trusted : SUBSET Paths]

FsckType ==
  fsck \in [phase : {"idle", "check", "repair"}, dryRun : BOOLEAN, useIndex : BOOLEAN,
            todo : SUBSET (Paths \X Paths \X Oids), corrupt : Seq(Oids), scope : SUBSET Oids]

TypeOK == GitTypes /\ FileTypes /\ PushType /\ PruneType /\ PullType /\ FsckType

\* The file of a path in the index has its object, unless somebody edited it or a checkout of it
\* failed; a file that is not staged may also be the pointer.
FileFits(i, h, file) ==
  i # NoOid => \/ file \in {Edited, CutOff, Content(i), Corrupt(i)}
               \/ i = h /\ file = Pointer(i)
WorkingTree == \A p \in Paths : FileFits(Index[p], HeadTree[p], wt[p])

\* A damaged object that fsck answers for is still to be checked, or was found corrupt.
Checked ==
  /\ sound \cap damaged = {}
  /\ fsck.phase # "idle" =>
       \A o \in fsck.scope \cap damaged :
         (\E r \in fsck.todo : r[3] = o) \/ (\E i \in 1..Len(fsck.corrupt) : fsck.corrupt[i] = o)
  /\ fsck.phase = "repair" => fsck.todo = {} /\ fsck.corrupt # <<>>

\* A tracking ref is that of the remote's branch as long as there is one; its objects, and
\* those of the remote's branches, were on the server.
Published ==
  /\ \A b \in Branches : remote[b] # 0 => tracking[b] = remote[b]
  /\ server \subseteq ever
  /\ ~conf.allowMissing => Held(commits, Range(tracking)) \subseteq ever
  /\ ~conf.allowMissing /\ ~blind => Held(commits, Range(remote)) \subseteq server

\* A push leaves out what commits hold that the remote has, or once had when it is blind; what
\* the branches it has scanned hold besides is uploaded, on its way, or the push fails.
Pushing ==
  push.kind = "hook" =>
    /\ push.bases \subseteq Range(remote) /\ push.skipped \subseteq Range(tracking)
    /\ ~blind => push.skipped \subseteq Range(remote) /\ (push.skipped = {} => TrackingTips = {})
    /\ ~conf.allowMissing =>
         \A b \in push.updates \ push.refs : Held(commits, {push.tip[b]}) \subseteq ever \cup push.uploaded
    /\ ~conf.allowMissing /\ ~blind =>
         \A b \in push.updates \ push.refs : Held(commits, {push.tip[b]}) \subseteq server \cup push.uploaded
    /\ ~push.missing /\ ~push.err => push.uploaded \subseteq push.queue \cup server

\* What the tasks of prune have retained so far, but for what came late, and what it deletes.
Done(t) == prune.phase # "idle" /\ t \notin prune.todo
Keeping ==
  /\ prune.force => prune.recent
  /\ Done("stashed") => ScanStashed \subseteq prune.retained \cup prune.late
  /\ ~prune.force /\ Done("refs") => RetainedAtRef(HEAD) \subseteq prune.retained \cup prune.late
  /\ ~prune.force /\ Done("worktree") =>
       \A c \in WorktreeHEADs \ {HEAD} : RetainedAtRef(c) \subseteq prune.retained \cup prune.late
  /\ ~conf.allowMissing /\ Done("unpushed") =>
       Held(commits, Range(branch)) \ MergeObjects \subseteq prune.retained \cup ever \cup prune.late
  /\ prune.verify /\ conf.exclude = {} /\ Done("reachable") =>
       Held(commits, Range(branch)) \subseteq prune.reachable \cup prune.late
  /\ Done("refs") /\ ~prune.recent /\ conf.exclude = {} /\ day <= recentFetch.day + conf.offset =>
       recentFetch.oids \subseteq prune.retained
  /\ prune.phase = "delete" =>
       /\ prune.todo = {} /\ prune.prunable \cap prune.retained = {}
       /\ prune.verify => prune.prunable \cap prune.reachable \subseteq server

\* What fetch --recent asks for on day d.
RecentAt(d) == {HEAD} \cup IF conf.refsDays > 0 THEN RecentBranches(d - conf.refsDays) ELSE {}
WantedAt(d) ==
  (UNION {PointersForRef(c) : c \in RecentAt(d)})
    \cup IF conf.commitsDays = 0 THEN {} ELSE UNION {PreviousVersions(c) : c \in RecentAt(d)}
Recent == \E d \in Nat : recentFetch.day = d /\ recentFetch.oids \subseteq WantedAt(d)

\* A path waits for the object it has in the commit that is pulled; an object that waits is
\* downloaded or announced.
PullQueue ==
  /\ \A o \in Oids : \A p \in pull.ptr[o] : pull.tree[p] = o
  /\ pull.todo \subseteq PathsToPull(pull.tree) /\ pull.watch \subseteq pull.done
  /\ \A o \in Oids : pull.ptr[o] # {} => o \in pull.queued /\ (o \in pull.watch \/ o \notin pull.done)

\* A path that the user leaves alone is that of HEAD.  When pull checks it out it is still to be
\* scanned, waits, has got an error, or has its file; and that of a sound object is not damaged.
PullFiles ==
  \A p \in Paths \ pull.touched :
    /\ HeadTree[p] = pull.tree[p]
    /\ p \in pull.trusted => pull.tree[p] \notin damaged /\ wt[p] # Corrupt(pull.tree[p])
    /\ p \in PathsToPull(pull.tree) =>
         \/ p \in pull.todo \cup pull.skipped \/ p \in pull.ptr[pull.tree[p]]
         \/ ~ToWrite(wt[p], pull.tree[p])

Pulling ==
  /\ ~pull.on => pull.watch = {}
  /\ pull.on => PullQueue /\ PullFiles

IInv == TypeOK /\ WorkingTree /\ Checked /\ Published /\ Pushing /\ Keeping /\ Recent /\ Pulling

-----------------------------------------------------------------------------
(* Lemmas about histories *)

\* The model's function is the one that AncestorsIn names.
LEMMA AncestorsAre == Ancestors = AncestorsIn(commits)
BY DEF Ancestors, AncestorsIn, IsAncestors

\* The same in the next state.
LEMMA AncestorsArePrimed == Ancestors' = AncestorsIn(commits')
BY DEF Ancestors, AncestorsIn, IsAncestors

Less == {ss \in Nat \X Nat : ss[1] < ss[2]}

\* The order of the naturals is well-founded, as a set of pairs.
LEMMA LessWellFounded == IsWellFoundedOn(Less, Nat)
BY NatLessThanWellFounded DEF OpToRel, Less

\* Parents are commits, and earlier ones.
LEMMA ParentsBefore ==
  ASSUME NEW cs, IsHistory(cs)
  PROVE  /\ Len(cs) \in Nat
         /\ \A c \in 1..Len(cs) : \A p \in Range(cs[c].parents) :
              p \in Nat /\ c \in Nat /\ p < c /\ p \in 1..Len(cs)
<1>1. Len(cs) \in Nat
  BY DEF IsHistory
<1>2. \A c \in 1..Len(cs) : \A p \in Range(cs[c].parents) : p \in 1..(c - 1)
  BY DEF IsHistory
<1> QED BY <1>1, <1>2

\* What a commit is.
LEMMA CommitType ==
  ASSUME NEW cs, IsHistory(cs), NEW c \in 1..Len(cs)
  PROVE  cs[c].parents \in Seq(Nat) /\ cs[c].tree \in Trees /\ cs[c].day \in Nat
<1>1. cs[c] \in Commits
  BY DEF IsHistory
<1> QED BY <1>1 DEF Commits

\* The sets Above satisfy the equation.
LEMMA AboveStep ==
  ASSUME NEW cs, IsHistory(cs), NEW c \in 1..Len(cs)
  PROVE  Above(cs, c) = {c} \cup UNION {Above(cs, p) : p \in Range(cs[c].parents)}
<1> DEFINE N == 1..Len(cs)
           U == {c} \cup UNION {Above(cs, p) : p \in Range(cs[c].parents)}
<1>1. \A d \in N : Range(cs[d].parents) \subseteq N
  BY ParentsBefore
<1>2. c \in Above(cs, c)
  BY DEF Above
<1>3. ASSUME NEW p \in Range(cs[c].parents) PROVE Above(cs, p) \subseteq Above(cs, c)
  BY <1>3 DEF Above, Closed
<1>4. Above(cs, c) \subseteq U
  <2>1. U \in SUBSET N
    BY DEF Above
  <2>2. Closed(cs, U)
    <3> SUFFICES ASSUME NEW d \in U, NEW q \in Range(cs[d].parents) PROVE q \in U
      BY DEF Closed
    <3>1. CASE d = c
      <4>1. q \in Above(cs, q)
        BY <1>1, <2>1 DEF Above
      <4> QED BY <4>1, <3>1
    <3>2. CASE d # c
      <4>1. PICK p \in Range(cs[c].parents) : d \in Above(cs, p)
        BY <3>2
      <4>2. q \in Above(cs, p)
        BY <4>1, <1>1 DEF Above, Closed
      <4> QED BY <4>2
    <3> QED BY <3>1, <3>2
  <2> HIDE DEF U
  <2>3. c \in U
    BY DEF U
  <2> QED BY <2>1, <2>2, <2>3 DEF Above
<1> QED BY <1>2, <1>3, <1>4

\* The recursive function gives them: it is shown by its least value that differs.
LEMMA AncestorsAbove ==
  ASSUME NEW cs, IsHistory(cs)
  PROVE  /\ DOMAIN AncestorsIn(cs) = 1..Len(cs)
         /\ \A c \in 1..Len(cs) : AncestorsIn(cs)[c] = Above(cs, c)
<1> DEFINE f == AncestorsIn(cs)
           g == [c \in 1..Len(cs) |-> Above(cs, c)]
<1>1. IsAncestors(cs, g)
  <2>1. \A c \in 1..Len(cs) : g[c] = {c} \cup UNION {g[p] : p \in Range(cs[c].parents)}
    <3> SUFFICES ASSUME NEW c \in 1..Len(cs)
                 PROVE g[c] = {c} \cup UNION {g[p] : p \in Range(cs[c].parents)}
      OBVIOUS
    <3>1. \A p \in Range(cs[c].parents) : g[p] = Above(cs, p)
      BY ParentsBefore
    <3>2. {g[p] : p \in Range(cs[c].parents)} = {Above(cs, p) : p \in Range(cs[c].parents)}
      BY <3>1
    <3> QED BY <3>2, AboveStep
  <2> QED BY <2>1 DEF IsAncestors
<1>2. IsAncestors(cs, f)
  <2> HIDE DEF g
  <2> QED BY <1>1, Zenon DEF AncestorsIn
<1>3. DOMAIN f = 1..Len(cs)
  <2> HIDE DEF f
  <2> QED BY <1>2 DEF IsAncestors
<1>4. \A c \in 1..Len(cs) : f[c] = {c} \cup UNION {f[p] : p \in Range(cs[c].parents)}
  <2> HIDE DEF f
  <2> QED BY <1>2 DEF IsAncestors
<1>5. \A c \in 1..Len(cs) : f[c] = Above(cs, c)
  <2> HIDE DEF f, g
  <2> DEFINE B == {c \in 1..Len(cs) : f[c] # Above(cs, c)}
  <2>1. SUFFICES ASSUME B # {} PROVE FALSE
    OBVIOUS
  <2>2. B \subseteq Nat
    BY DEF IsHistory
  <2>3. PICK c \in B : \A d \in B : ~(<<d, c>> \in Less)
    <3> HIDE DEF B
    <3>1. PICK b : b \in B
      BY <2>1
    <3> QED BY <2>2, <3>1, WFMin, LessWellFounded, Zenon
  <2>4. \A p \in Range(cs[c].parents) : f[p] = Above(cs, p)
    <3> SUFFICES ASSUME NEW p \in Range(cs[c].parents) PROVE f[p] = Above(cs, p)
      OBVIOUS
    <3>1. p \in 1..Len(cs) /\ p < c /\ c \in Nat /\ p \in Nat
      BY ParentsBefore
    <3> QED BY <2>3, <3>1 DEF Less
  <2>5. {f[p] : p \in Range(cs[c].parents)} = {Above(cs, p) : p \in Range(cs[c].parents)}
    BY <2>4
  <2> QED BY <2>5, <1>4, AboveStep
<1> QED BY <1>3, <1>5

\* They satisfy the equation.
LEMMA AncestorsStep ==
  ASSUME NEW cs, IsHistory(cs), NEW c \in 1..Len(cs)
  PROVE  AncestorsIn(cs)[c] = {c} \cup UNION {AncestorsIn(cs)[p] : p \in Range(cs[c].parents)}
<1>1. \A p \in Range(cs[c].parents) : AncestorsIn(cs)[p] = Above(cs, p)
  BY AncestorsAbove, ParentsBefore
<1>2. {AncestorsIn(cs)[p] : p \in Range(cs[c].parents)} = {Above(cs, p) : p \in Range(cs[c].parents)}
  BY <1>1
<1>3. AncestorsIn(cs)[c] = Above(cs, c)
  BY AncestorsAbove
<1>4. Above(cs, c) = {c} \cup UNION {Above(cs, p) : p \in Range(cs[c].parents)}
  BY AboveStep
<1> QED BY <1>2, <1>3, <1>4

\* A history holds its commits, and with a commit its parents.
LEMMA FromFacts ==
  ASSUME NEW cs, IsHistory(cs), NEW C \in SUBSET (0..Len(cs))
  PROVE  /\ From(cs, C) \in SUBSET (1..Len(cs)) /\ C \ {0} \subseteq From(cs, C)
         /\ \A c \in From(cs, C) : Range(cs[c].parents) \subseteq From(cs, C)
<1>0. Len(cs) \in Nat /\ \A c \in 1..Len(cs) : Range(cs[c].parents) \subseteq 1..Len(cs)
  BY ParentsBefore
<1>1. From(cs, C) = UNION {Above(cs, c) : c \in C \ {0}}
  <2>1. \A c \in C \ {0} : AncestorsIn(cs)[c] = Above(cs, c)
    BY <1>0, AncestorsAbove
  <2> QED BY <2>1 DEF From
<1>2. \A c \in C \ {0} : c \in Above(cs, c)
  BY <1>0 DEF Above
<1>3. From(cs, C) \in SUBSET (1..Len(cs)) /\ C \ {0} \subseteq From(cs, C)
  BY <1>1, <1>2 DEF Above
<1>4. ASSUME NEW c \in From(cs, C), NEW p \in Range(cs[c].parents)
      PROVE  p \in From(cs, C)
  <2>1. PICK a \in C \ {0} : c \in Above(cs, a)
    BY <1>1
  <2>2. p \in Above(cs, a)
    BY <1>0, <1>3, <2>1 DEF Above, Closed
  <2> QED BY <1>1, <2>2
<1> QED BY <1>3, <1>4

\* More commits reach more.
LEMMA FromMonotone ==
  ASSUME NEW cs, NEW C, NEW D, C \ {0} \subseteq D
  PROVE  From(cs, C) \subseteq From(cs, D) /\ Held(cs, C) \subseteq Held(cs, D)
BY DEF From, Held

\* Histories are joined.
LEMMA FromUnion ==
  ASSUME NEW cs, NEW C, NEW D
  PROVE  /\ From(cs, C \cup D) = From(cs, C) \cup From(cs, D)
         /\ Held(cs, C \cup D) = Held(cs, C) \cup Held(cs, D)
BY DEF From, Held

\* The objects of a history are objects.
LEMMA HeldAreOids ==
  ASSUME NEW cs, IsHistory(cs), NEW C \in SUBSET (0..Len(cs))
  PROVE  Held(cs, C) \subseteq Oids
<1>1. From(cs, C) \in SUBSET (1..Len(cs))
  BY FromFacts
<1>2. \A c \in 1..Len(cs) : cs[c].tree \in Trees
  BY CommitType
<1>3. \A tree \in Trees : ObjectsIn(tree) \subseteq Oids
  BY DEF Trees, ObjectsIn, Range
<1> QED BY <1>1, <1>2, <1>3 DEF Held

\* A new commit leaves the history of the others as it was.
LEMMA HeldStays ==
  ASSUME NEW cs, NEW ds, IsHistory(cs), IsHistory(ds), Len(ds) = Len(cs) + 1,
         \A c \in 1..Len(cs) : ds[c] = cs[c],
         NEW C \in SUBSET (0..Len(cs))
  PROVE  From(ds, C) = From(cs, C) /\ Held(ds, C) = Held(cs, C)
<1>0. /\ Len(cs) \in Nat /\ 1..Len(cs) \subseteq 1..Len(ds)
      /\ \A c \in 1..Len(cs) : Range(cs[c].parents) \subseteq 1..Len(cs)
  BY ParentsBefore
<1>1. ASSUME NEW c \in 1..Len(cs)
      PROVE  Above(ds, c) = Above(cs, c)
  <2>1. ASSUME NEW d \in Above(ds, c)
        PROVE  d \in Above(cs, c)
    <3>1. Closed(ds, 1..Len(cs))
      BY <1>0 DEF Closed
    <3>2. d \in 1..Len(cs)
      BY <1>0, <3>1, <2>1 DEF Above
    <3>3. ASSUME NEW S \in SUBSET (1..Len(cs)), c \in S, Closed(cs, S)
          PROVE  d \in S
      <4>1. S \in SUBSET (1..Len(ds)) /\ Closed(ds, S)
        BY <1>0, <3>3 DEF Closed
      <4> QED BY <4>1, <3>3, <2>1 DEF Above
    <3> QED BY <3>2, <3>3 DEF Above
  <2>2. ASSUME NEW d \in Above(cs, c)
        PROVE  d \in Above(ds, c)
    <3>1. d \in 1..Len(ds)
      BY <1>0, <2>2 DEF Above
    <3>2. ASSUME NEW S \in SUBSET (1..Len(ds)), c \in S, Closed(ds, S)
          PROVE  d \in S
      <4> DEFINE T == S \cap (1..Len(cs))
      <4>1. T \in SUBSET (1..Len(cs)) /\ c \in T /\ Closed(cs, T)
        BY <1>0, <3>2 DEF Closed
      <4> QED BY <4>1, <2>2 DEF Above
    <3> QED BY <3>1, <3>2 DEF Above
  <2> QED BY <2>1, <2>2
<1>2. \A c \in C \ {0} : AncestorsIn(ds)[c] = AncestorsIn(cs)[c]
  <2> SUFFICES ASSUME NEW c \in C \ {0} PROVE AncestorsIn(ds)[c] = AncestorsIn(cs)[c]
    OBVIOUS
  <2>1. c \in 1..Len(cs) /\ c \in 1..Len(ds)
    BY <1>0
  <2> QED BY <1>1, <2>1, AncestorsAbove
<1>3. From(ds, C) = From(cs, C)
  BY <1>2 DEF From
<1>4. From(cs, C) \in SUBSET (1..Len(cs))
  BY FromFacts
<1> QED BY <1>3, <1>4 DEF Held

\* The model's operators in these terms.
LEMMA ReachIs ==
  ASSUME NEW C
  PROVE  Reach(C) = From(commits, C) /\ Objects(Reach(C)) = Held(commits, C)
BY AncestorsAre DEF Reach, Objects, From, Held

-----------------------------------------------------------------------------
(* The order of paths, and trees *)

\* A set of paths has a first one.
LEMMA FirstOfIn ==
  ASSUME NEW P \in SUBSET Paths, P # {}
  PROVE  FirstOf(P) \in P
<1>1. \A p \in Paths : Place(p) \in Nat
  <2> SUFFICES ASSUME NEW p \in Paths PROVE Place(p) \in Nat
    OBVIOUS
  <2>1. \E i \in 1..Len(PathOrder) : PathOrder[i] = p
    BY RepositoryAssumption DEF Paths, Range
  <2>2. Place(p) \in 1..Len(PathOrder)
    BY <2>1 DEF Place
  <2> QED BY <2>2
<1> DEFINE T == {Place(p) : p \in P}
<1>2. T \subseteq Nat /\ T # {}
  BY <1>1
<1>3. PICK x \in T : \A y \in T : ~(<<y, x>> \in Less)
  <2> HIDE DEF T
  <2>1. PICK t : t \in T
    BY <1>2
  <2> QED BY <1>2, <2>1, WFMin, LessWellFounded, Zenon
<1>4. PICK p \in P : x = Place(p)
  OBVIOUS
<1>5. ASSUME NEW q \in P
      PROVE  Place(p) <= Place(q)
  <2>1. Place(q) \in T /\ Place(q) \in Nat /\ Place(p) \in Nat
    BY <1>1
  <2>2. ~(Place(q) < Place(p))
    BY <1>3, <1>4, <2>1 DEF Less
  <2> QED BY <2>1, <2>2
<1>6. \E q \in P : IsFirst(q, P)
  BY <1>5 DEF IsFirst
<1> QED BY <1>6, Zenon DEF FirstOf

\* The first path of an object in a tree has the object.
LEMMA FirstPathHas ==
  ASSUME NEW tree \in Trees, NEW o \in ObjectsIn(tree)
  PROVE  FirstPath(tree, o) \in Paths /\ tree[FirstPath(tree, o)] = o
<1> DEFINE P == {p \in Paths : tree[p] = o}
<1>1. P # {}
  BY DEF Trees, ObjectsIn, Range
<1>2. FirstOf(P) \in P
  BY <1>1, FirstOfIn
<1> QED BY <1>2 DEF FirstPath

\* Objects in trees are objects.
LEMMA TreeOids ==
  ASSUME NEW tree \in Trees
  PROVE  /\ ObjectsIn(tree) = {tree[p] : p \in Paths} \ {NoOid}
         /\ ObjectsIn(tree) \subseteq Oids
         /\ \A p \in Paths : tree[p] \in Oids \cup {NoOid}
         /\ EmptyTree \in Trees
BY DEF Trees, ObjectsIn, Range, EmptyTree

\* What a tree changes are objects of it.
LEMMA DiffOids ==
  ASSUME NEW new \in Trees, NEW old
  PROVE  Diff(new, old) \subseteq ObjectsIn(new) /\ Diff(new, old) \subseteq Oids
BY TreeOids DEF Diff

\* What uses an object without an excluded path, ScanRef reports.
LEMMA UsedIsScanned ==
  ASSUME GitTypes, NEW c \in Numbers \ {0}
  PROVE  UsedBy(c) \subseteq RetainedAtRef(c)
<1>1. c \in 1..Len(commits) /\ commits[c].tree \in Trees
  BY CommitType, ParentsBefore DEF GitTypes, Numbers
<1>2. \A o \in ObjectsIn(commits[c].tree) :
         /\ FirstPath(commits[c].tree, o) \in Paths
         /\ commits[c].tree[FirstPath(commits[c].tree, o)] = o
  BY <1>1, FirstPathHas
<1> QED BY <1>2 DEF UsedBy, UsedIn, RetainedAtRef, ScanRef

\* HEAD is a commit with a tree, and so is the index.
LEMMA HeadType ==
  ASSUME GitTypes
  PROVE  /\ HEAD \in 1..Len(commits) /\ HEAD \in Numbers \ {0} /\ HEAD \in Range(branch)
         /\ HeadTree \in Trees /\ Len(commits) \in Nat
<1>1. Len(commits) \in Nat
  BY ParentsBefore DEF GitTypes
<1>2. HEAD \in Numbers \ {0}
  BY DEF GitTypes, HEAD
<1>3. HEAD \in Range(branch)
  BY DEF GitTypes, HEAD, Range
<1>4. HEAD \in 1..Len(commits)
  BY <1>1, <1>2 DEF Numbers
<1>5. HeadTree \in Trees
  BY <1>4, CommitType DEF HeadTree, LsTree, GitTypes
<1> QED BY <1>1, <1>2, <1>3, <1>4, <1>5

\* The index is a tree.
LEMMA IndexType ==
  ASSUME GitTypes, FileTypes
  PROVE  Index \in Trees
<1>1. CASE staged = {}
  BY <1>1, HeadType DEF Index
<1>2. CASE staged # {}
  <2>1. PICK tree \in Trees : staged = {tree}
    BY <1>2 DEF FileTypes
  <2> QED BY <1>2, <2>1 DEF Index
<1> QED BY <1>1, <1>2

-----------------------------------------------------------------------------
(* Which steps touch what *)

\* The steps that change the repository, its refs or the remote's.
LEMMA GitTouched ==
  ASSUME Next
  PROVE  \/ UNCHANGED <<conf, gitVars, refVars>>
         \/ Stage \/ Commit \/ Stash \/ Tick \/ GitFetchPrune \/ PushEnd
         \/ \E b \in Branches : Merge(b) \/ Switch(b) \/ AddWorktree(b) \/ DeleteRemoteBranch(b)
BY DEF Next, gitVars, refVars, history, checkVars, Edit, CollectGarbage, PrePush, LfsPush,
  StartPush, PushScan, PushUpload, PushUploadFails, PruneCommand, PruneTask, PruneStops,
  PruneSelect, PruneDelete, FetchStart, FetchDownload, FetchEnd, Checkout, PullStart, PullScan,
  PullDownload, PullWatch, PullEnd, Damage, FsckStart, FsckCheck, FsckIndex, FsckReport, FsckRepair

\* The steps that change the checkout of HEAD.
LEMMA CommitsTouched ==
  ASSUME Next
  PROVE  \/ UNCHANGED <<conf, commits, branch, cur>>
         \/ Commit
         \/ \E b \in Branches : Merge(b) \/ Switch(b)
BY DEF Next, gitVars, refVars, history, checkVars, Stage, Stash, Tick, AddWorktree,
  DeleteRemoteBranch, Edit, CollectGarbage, GitFetchPrune, PrePush, LfsPush, StartPush, PushScan,
  PushUpload, PushUploadFails, PushEnd, PruneCommand, PruneTask, PruneStops, PruneSelect,
  PruneDelete, FetchStart, FetchDownload, FetchEnd, Checkout, PullStart, PullScan, PullDownload,
  PullWatch, PullEnd, Damage, FsckStart, FsckCheck, FsckIndex, FsckReport, FsckRepair

\* The steps that change the store or the files of the working tree.
LEMMA FilesTouched ==
  ASSUME Next
  PROVE  \/ UNCHANGED <<staged, commits, branch, cur, wt, store>>
         \/ Stage \/ Commit \/ Stash \/ FsckRepair
         \/ \E b \in Branches : Merge(b) \/ Switch(b)
         \/ \E p \in Paths : Edit(p)
         \/ \E o \in Oids : PruneDelete(o) \/ FetchDownload(o) \/ PullDownload(o) \/ PullWatch(o)
         \/ \E P \in SUBSET Paths : Checkout(P)
         \/ \E p \in pull.todo : PullScan(p)
BY DEF Next, gitVars, refVars, history, checkVars, Tick, AddWorktree, DeleteRemoteBranch,
  CollectGarbage, GitFetchPrune, PrePush, LfsPush, StartPush, PushScan, PushUpload, PushUploadFails,
  PushEnd, PruneCommand, PruneTask, PruneStops, PruneSelect, FetchStart, FetchEnd, PullStart,
  PullEnd, Damage, FsckStart, FsckCheck, FsckIndex, FsckReport

\* The steps of a push, and those that change what it is compared with.
LEMMA PushTouched ==
  ASSUME Next
  PROVE  \/ UNCHANGED <<conf, commits, remote, tracking, server, ever, blind, push>>
         \/ Commit \/ CollectGarbage \/ GitFetchPrune \/ PushEnd
         \/ \E b \in Branches : Merge(b) \/ DeleteRemoteBranch(b) \/ PushScan(b)
         \/ \E B \in SUBSET Branches : PrePush(B)
         \/ \E all \in BOOLEAN : LfsPush(all)
         \/ \E o \in Oids : PushUpload(o) \/ PushUploadFails(o)
BY DEF Next, gitVars, refVars, history, checkVars, Stage, Stash, Tick, Switch, AddWorktree, Edit,
  PruneCommand, PruneTask, PruneStops, PruneSelect, PruneDelete, FetchStart, FetchDownload,
  FetchEnd, Checkout, PullStart, PullScan, PullDownload, PullWatch, PullEnd, Damage, FsckStart,
  FsckCheck, FsckIndex, FsckReport, FsckRepair

\* The steps of prune.
LEMMA PruneTouched ==
  ASSUME Next
  PROVE  \/ UNCHANGED prune
         \/ Commit \/ Stash \/ PruneStops \/ PruneSelect \/ FetchEnd
         \/ \E b \in Branches : Merge(b) \/ Switch(b) \/ AddWorktree(b)
         \/ \E a \in conf.pruneArgs : PruneCommand(a.force, a.recent, a.verify, a.dryRun)
         \/ \E t \in prune.todo : PruneTask(t)
         \/ \E o \in Oids : PruneDelete(o)
BY DEF Next, gitVars, refVars, history, checkVars, Stage, Tick, DeleteRemoteBranch, Edit, CollectGarbage, GitFetchPrune, PrePush, LfsPush, StartPush,
  PushScan, PushUpload, PushUploadFails, PushEnd, FetchStart, FetchDownload, Checkout, PullStart,
  PullScan, PullDownload, PullWatch, PullEnd, Damage, FsckStart, FsckCheck, FsckIndex, FsckReport,
  FsckRepair

\* The steps of prune, and those that change what it is compared with.
LEMMA KeepingTouched ==
  ASSUME Next
  PROVE  \/ UNCHANGED <<conf, commits, branch, cur, linked, stash, day, ever, server, recentFetch, prune>>
         \/ Stage \/ Commit \/ Stash \/ Tick \/ CollectGarbage \/ GitFetchPrune \/ PushEnd \/ PruneStops \/ PruneSelect \/ FetchEnd
         \/ \E b \in Branches : Merge(b) \/ Switch(b) \/ AddWorktree(b)
         \/ \E o \in Oids : PushUpload(o) \/ PruneDelete(o)
         \/ \E a \in conf.pruneArgs : PruneCommand(a.force, a.recent, a.verify, a.dryRun)
         \/ \E t \in prune.todo : PruneTask(t)
         \/ \E a \in conf.fetchArgs : FetchStart(a[1], a[2])
BY DEF Next, gitVars, refVars, history, checkVars, DeleteRemoteBranch, Edit, PrePush, LfsPush,
  StartPush, PushScan, PushUploadFails, FetchDownload, Checkout, PullStart, PullScan, PullDownload,
  PullWatch, PullEnd, Damage, FsckStart, FsckCheck, FsckIndex, FsckReport, FsckRepair

\* The steps that change what fetch --recent asked for, or would ask for.
LEMMA RecentTouched ==
  ASSUME Next
  PROVE  \/ UNCHANGED <<conf, commits, branch, cur, tracking, recentFetch>>
         \/ Commit \/ Stash \/ GitFetchPrune \/ PushEnd
         \/ \E b \in Branches : Merge(b) \/ Switch(b)
         \/ \E a \in conf.fetchArgs : FetchStart(a[1], a[2])
BY DEF Next, gitVars, refVars, history, checkVars, Stage, Tick, AddWorktree, DeleteRemoteBranch,
  Edit, CollectGarbage, PrePush, LfsPush, StartPush, PushScan, PushUpload, PushUploadFails,
  PruneCommand, PruneTask, PruneStops, PruneSelect, PruneDelete, FetchDownload, FetchEnd, Checkout,
  PullStart, PullScan, PullDownload, PullWatch, PullEnd, Damage, FsckStart, FsckCheck, FsckIndex,
  FsckReport, FsckRepair

\* The steps of a pull, and those that change what it is compared with.
LEMMA PullTouched ==
  ASSUME Next
  PROVE  \/ UNCHANGED <<conf, commits, branch, cur, wt, store, damaged, pull>>
         \/ Stage \/ Commit \/ Stash \/ PullStart \/ PullEnd \/ FsckRepair
         \/ \E b \in Branches : Merge(b) \/ Switch(b)
         \/ \E p \in Paths : Edit(p)
         \/ \E o \in Oids : PruneDelete(o) \/ FetchDownload(o) \/ PullDownload(o) \/ PullWatch(o) \/ Damage(o)
         \/ \E P \in SUBSET Paths : Checkout(P)
         \/ \E p \in pull.todo : PullScan(p)
BY DEF Next, gitVars, refVars, history, checkVars, Tick, AddWorktree, DeleteRemoteBranch,
  CollectGarbage, GitFetchPrune, PrePush, LfsPush, StartPush, PushScan, PushUpload, PushUploadFails,
  PushEnd, PruneCommand, PruneTask, PruneStops, PruneSelect, FetchStart, FetchEnd, FsckStart,
  FsckCheck, FsckIndex, FsckReport

\* The steps that change what is damaged, or what fsck knows of it.
LEMMA FsckTouched ==
  ASSUME Next
  PROVE  \/ UNCHANGED <<damaged, fsck, sound>>
         \/ FsckCheck \/ FsckIndex \/ FsckReport \/ FsckRepair
         \/ \E o \in Oids : PruneDelete(o) \/ FetchDownload(o) \/ PullDownload(o) \/ Damage(o)
         \/ \E a \in conf.fsckArgs : FsckStart(a[1], a[2])
BY DEF Next, gitVars, refVars, history, checkVars, Stage, Commit, Stash, Tick, Merge, Switch,
  AddWorktree, DeleteRemoteBranch, Edit, CollectGarbage, GitFetchPrune, PrePush, LfsPush, StartPush,
  PushScan, PushUpload, PushUploadFails, PushEnd, PruneCommand, PruneTask, PruneStops, PruneSelect,
  FetchStart, FetchEnd, Checkout, PullStart, PullScan, PullWatch, PullEnd
-----------------------------------------------------------------------------
(* A new commit, and the types of git's state *)

\* What the operations commit, stage and stash are trees.
LEMMA ScriptTrees ==
  ASSUME conf \in Scenarios, NEW i \in Nat \ {0}, i <= Len(conf.script)
  PROVE  conf.script[i] \in Trees
<1>1. conf.script \in Seq(Trees)
  BY RepositoryAssumption
<1> QED BY <1>1

\* A commit or a merge appends a commit whose parents are there.
LEMMA CommitAppends ==
  ASSUME GitTypes, FileTypes, Commit \/ \E b \in Branches : Merge(b)
  PROVE  /\ \E parents \in Seq(1..Len(commits)), tree \in Trees :
              NewCommit(parents, tree) /\ Range(parents) \subseteq Range(branch)
         /\ next' \in Nat \ {0} /\ UNCHANGED <<conf, cur, linked, stash, day, refVars>>
<1>1. HEAD \in 1..Len(commits) /\ Index \in Trees /\ HEAD \in Range(branch)
  BY HeadType, IndexType
<1>2. <<HEAD>> \in Seq(1..Len(commits)) /\ Range(<<HEAD>>) \subseteq Range(branch)
  <2> HIDE DEF HEAD
  <2>1. <<HEAD>> \in Seq(1..Len(commits))
    BY <1>1
  <2>2. Range(<<HEAD>>) = {HEAD}
    BY DEF Range
  <2> QED BY <1>1, <2>1, <2>2
<1>3. next \in Nat \ {0} /\ conf \in Scenarios
  BY DEF GitTypes
<1>4. CASE Commit
  <2>1. UNCHANGED <<conf, cur, linked, stash, day, refVars>>
    BY <1>4 DEF Commit
  <2>2. \/ NewCommit(<<HEAD>>, Index) /\ next' = next
        \/ next <= Len(conf.script) /\ NewCommit(<<HEAD>>, conf.script[next]) /\ next' = next + 1
    BY <1>4 DEF Commit, Add
  <2>3. next <= Len(conf.script) => conf.script[next] \in Trees
    BY <1>3, ScriptTrees
  <2>4. next' \in Nat \ {0}
    BY <2>2, <1>3
  <2>5. \E tree \in Trees : NewCommit(<<HEAD>>, tree)
    BY <2>2, <2>3, <1>1, Zenon
  <2> QED BY <1>2, <2>1, <2>4, <2>5, Zenon
<1>5. ASSUME NEW b \in Branches, Merge(b)
      PROVE  /\ \E parents \in Seq(1..Len(commits)), tree \in Trees :
                  NewCommit(parents, tree) /\ Range(parents) \subseteq Range(branch)
             /\ next' \in Nat \ {0} /\ UNCHANGED <<conf, cur, linked, stash, day, refVars>>
  <2>1. branch[b] \in 1..Len(commits)
    BY <1>5, HeadType DEF Merge, GitTypes, Numbers
  <2>2. <<HEAD, branch[b]>> \in Seq(1..Len(commits)) /\ Range(<<HEAD, branch[b]>>) \subseteq Range(branch)
    <3> HIDE DEF HEAD
    <3>1. <<HEAD, branch[b]>> \in Seq(1..Len(commits))
      BY <1>1, <2>1
    <3>2. branch[b] \in Range(branch)
      BY <1>5 DEF GitTypes, Range
    <3>3. Range(<<HEAD, branch[b]>>) = {HEAD, branch[b]}
      BY DEF Range
    <3> QED BY <1>1, <3>1, <3>2, <3>3
  <2>3. \/ \E tree \in Trees : NewCommit(<<HEAD, branch[b]>>, tree) /\ next' = next
        \/ next <= Len(conf.script) /\ NewCommit(<<HEAD, branch[b]>>, conf.script[next]) /\ next' = next + 1
    BY <1>5 DEF Merge, Trees
  <2>4. UNCHANGED <<conf, cur, linked, stash, day, refVars>>
    BY <1>5 DEF Merge, checkVars
  <2>5. next <= Len(conf.script) => conf.script[next] \in Trees
    BY <1>3, ScriptTrees
  <2>6. next' \in Nat \ {0}
    BY <2>3, <1>3
  <2>7. \E tree \in Trees : NewCommit(<<HEAD, branch[b]>>, tree)
    BY <2>3, <2>5, Zenon
  <2> QED BY <2>2, <2>4, <2>6, <2>7, Zenon
<1> QED BY <1>4, <1>5

\* The history grows by it, and the branch moves.
LEMMA CommitGrows ==
  ASSUME GitTypes, FileTypes, Commit \/ \E b \in Branches : Merge(b)
  PROVE  /\ IsHistory(commits') /\ Len(commits') = Len(commits) + 1 /\ Len(commits) \in Nat
         /\ \A c \in 1..Len(commits) : commits'[c] = commits[c]
         /\ commits'[Len(commits) + 1].tree \in Trees
         /\ branch' = [branch EXCEPT ![cur] = Len(commits) + 1] /\ recentFetch' = NoFetch
         /\ Numbers \subseteq Numbers' /\ Len(commits) + 1 \in Numbers' \ {0}
<1>1. PICK parents \in Seq(1..Len(commits)), tree \in Trees : NewCommit(parents, tree)
  BY CommitAppends
<1> DEFINE new == [parents |-> parents, tree |-> tree, day |-> day]
           n == Len(commits)
<1>2. n \in Nat /\ commits \in Seq(Commits) /\ day \in Nat
  BY ParentsBefore DEF GitTypes, IsHistory
<1>3. new \in Commits
  <2>1. parents \in Seq(Nat)
    BY <1>2
  <2> QED BY <1>2, <2>1 DEF Commits
<1>4. commits' = Append(commits, new)
  BY <1>1 DEF NewCommit
<1> HIDE DEF new
<1>5. /\ commits' \in Seq(Commits) /\ Len(commits') = n + 1 /\ commits'[n + 1] = new
      /\ \A c \in 1..n : commits'[c] = commits[c]
  BY <1>2, <1>3, <1>4
<1>6. IsHistory(commits')
  <2> SUFFICES ASSUME NEW c \in 1..(n + 1), NEW p \in Range(commits'[c].parents)
               PROVE  p \in 1..(c - 1)
    BY <1>5 DEF IsHistory
  <2>1. CASE c \in 1..n
    BY <2>1, <1>5 DEF GitTypes, IsHistory
  <2>2. CASE c = n + 1
    <3>1. p \in Range(parents)
      BY <2>2, <1>5 DEF new
    <3>2. p \in 1..n
      BY <3>1 DEF Range
    <3> QED BY <2>2, <3>2, <1>2
  <2> QED BY <2>1, <2>2, <1>2
<1>7. Numbers \subseteq Numbers' /\ n + 1 \in Numbers' \ {0}
  BY <1>2, <1>5 DEF Numbers
<1>8. commits'[n + 1].tree \in Trees
  BY <1>5 DEF new
<1> QED BY <1>1, <1>2, <1>5, <1>6, <1>7, <1>8 DEF NewCommit

\* The types of the repository, its refs and the remote's.
LEMMA GitTypesStep ==
  ASSUME GitTypes, FileTypes, PushType, Next
  PROVE  GitTypes'
<1>1. CASE UNCHANGED <<conf, gitVars, refVars>>
  BY <1>1 DEF gitVars, refVars, GitTypes, Numbers, HEAD
<1>2. CASE Commit \/ \E b \in Branches : Merge(b)
  <2>1. /\ IsHistory(commits') /\ Numbers \subseteq Numbers' /\ Len(commits) + 1 \in Numbers' \ {0}
        /\ branch' = [branch EXCEPT ![cur] = Len(commits) + 1]
        /\ next' \in Nat \ {0} /\ UNCHANGED <<conf, cur, linked, stash, day, refVars>>
    BY <1>2, CommitGrows, CommitAppends
  <2>2. branch' \in [Branches -> Numbers'] /\ HEAD' # 0
    BY <2>1 DEF GitTypes, HEAD
  <2>3. linked' \in Numbers' /\ remote' \in [Branches -> Numbers'] /\ tracking' \in [Branches -> Numbers']
    BY <2>1 DEF GitTypes, refVars
  <2>4. stash' \in Seq([base : Numbers' \ {0}, idx : Trees, wip : Trees])
    <3> DEFINE R == [base : Numbers \ {0}, idx : Trees, wip : Trees]
               S == [base : Numbers' \ {0}, idx : Trees, wip : Trees]
    <3>1. R \subseteq S
      BY <2>1
    <3>2. stash \in Seq(R) /\ stash' = stash
      BY <2>1 DEF GitTypes
    <3> HIDE DEF R, S
    <3>3. stash \in Seq(S)
      BY <3>1, <3>2
    <3> QED BY <3>2, <3>3 DEF S
  <2> QED BY <2>1, <2>2, <2>3, <2>4 DEF GitTypes
<1>3. CASE Stage \/ Tick
  <2>1. UNCHANGED <<conf, commits, branch, cur, linked, stash, refVars>>
    BY <1>3 DEF Stage, Tick
  <2>2. next' \in Nat \ {0} /\ day' \in Nat
    BY <1>3 DEF Stage, Tick, Add, GitTypes
  <2> QED BY <2>1, <2>2 DEF GitTypes, refVars, Numbers, HEAD
<1>4. CASE Stash
  <2>1. UNCHANGED <<conf, commits, branch, cur, linked, day, refVars>>
    BY <1>4 DEF Stash
  <2>2. next' \in Nat \ {0}
    BY <1>4 DEF Stash, GitTypes
  <2>3. HEAD \in Numbers \ {0}
    BY HeadType
  <2>4. conf.script[next] \in Trees /\ conf.script[next + 1] \in Trees
    <3>1. next \in Nat \ {0} /\ next + 1 <= Len(conf.script) /\ conf \in Scenarios
      BY <1>4 DEF Stash, GitTypes
    <3>2. Len(conf.script) \in Nat
      BY <3>1, RepositoryAssumption
    <3> QED BY <3>1, <3>2, ScriptTrees
  <2>5. stash' \in Seq([base : Numbers \ {0}, idx : Trees, wip : Trees])
    <3>1. [base |-> HEAD, idx |-> conf.script[next], wip |-> conf.script[next + 1]]
            \in [base : Numbers \ {0}, idx : Trees, wip : Trees]
      BY <2>3, <2>4
    <3> QED BY <1>4, <3>1 DEF Stash, GitTypes
  <2> QED BY <2>1, <2>2, <2>5 DEF GitTypes, refVars, Numbers, HEAD
<1>5. ASSUME NEW b \in Branches, Switch(b) \/ AddWorktree(b) \/ DeleteRemoteBranch(b)
      PROVE  GitTypes'
  <2>1. UNCHANGED <<conf, commits, next, stash, day>>
    BY <1>5 DEF Switch, AddWorktree, DeleteRemoteBranch, gitVars
  <2>2. CASE Switch(b)
    <3>1. branch' \in [Branches -> Numbers] /\ cur' \in Branches /\ branch'[cur'] # 0
      BY <2>2, HeadType DEF Switch, GitTypes
    <3> QED BY <2>1, <2>2, <3>1 DEF Switch, GitTypes, refVars, Numbers, HEAD
  <2>3. CASE AddWorktree(b)
    BY <2>1, <2>3 DEF AddWorktree, GitTypes, refVars, Numbers, HEAD
  <2>4. CASE DeleteRemoteBranch(b)
    <3>1. remote' \in [Branches -> Numbers]
      BY <2>4, HeadType DEF DeleteRemoteBranch, GitTypes, Numbers
    <3> QED BY <2>1, <2>4, <3>1 DEF DeleteRemoteBranch, GitTypes, gitVars, Numbers, HEAD
  <2> QED BY <1>5, <2>2, <2>3, <2>4
<1>6. CASE GitFetchPrune
  BY <1>6 DEF GitFetchPrune, GitTypes, gitVars, Numbers, HEAD
<1>7. CASE PushEnd
  <2>1. remote' \in [Branches -> Numbers] /\ tracking' \in [Branches -> Numbers]
    BY <1>7 DEF PushEnd, GitTypes, PushType, refVars
  <2> QED BY <1>7, <2>1 DEF PushEnd, GitTypes, gitVars, Numbers, HEAD
<1> QED BY <1>1, <1>2, <1>3, <1>4, <1>5, <1>6, <1>7, GitTouched
-----------------------------------------------------------------------------
(* The types of the files and of the commands *)

\* What the smudge filter writes.
LEMMA SmudgedFiles ==
  ASSUME NEW o \in Oids, NEW have
  PROVE  /\ Smudged(o, have) \in {Pointer(o), Content(o), Corrupt(o)}
         /\ {Pointer(o), Content(o), Corrupt(o), Absent, Edited, CutOff} \subseteq Files
<1>1. Smudged(o, have) \in {Pointer(o), Content(o), Corrupt(o)}
  BY DEF Smudged, ReadLocalFile
<1>2. Pointer(o) \in Files /\ Content(o) \in Files /\ Corrupt(o) \in Files
  BY DEF Pointer, Content, Corrupt, Files
<1>3. Absent \in Files /\ Edited \in Files /\ CutOff \in Files
  BY DEF Absent, Edited, CutOff, Files
<1> QED BY <1>1, <1>2, <1>3

\* The files of a tree.
LEMMA FilesOfTree ==
  ASSUME NEW tree \in Trees, NEW have
  PROVE  /\ FilesOf(tree, have) \in [Paths -> Files]
         /\ \A p \in Paths : tree[p] # NoOid =>
              FilesOf(tree, have)[p] \in {Pointer(tree[p]), Content(tree[p]), Corrupt(tree[p])}
<1>1. \A p \in Paths : tree[p] # NoOid => tree[p] \in Oids
  BY TreeOids
<1>2. Absent \in Files
  BY DEF Absent, Files
<1> HIDE DEF Files
<1> QED BY <1>1, <1>2, SmudgedFiles DEF FilesOf

\* Files that somebody writes.
LEMMA EditedFile == Edited \in Files /\ Absent \in Files
BY DEF Edited, Absent, Files

\* The kinds of files differ.
LEMMA FileKinds ==
  ASSUME NEW o
  PROVE  /\ {Edited, CutOff} \cap {Absent, Pointer(o), Content(o), Corrupt(o)} = {}
         /\ {Absent, Pointer(o)} \cap {Content(o), Corrupt(o)} = {} /\ Content(o) # Corrupt(o)
BY DEF Edited, CutOff, Absent, Pointer, Content, Corrupt

\* A checkout changes a file that is missing or the pointer; unless it fails the file has its
\* object afterwards, and no damaged one of a sound object.
LEMMA RunWrites ==
  ASSUME NEW file, NEW o \in Oids, NEW have, NEW fault
  PROVE  LET new == Run(file, o, have, fault)
         IN /\ new \in {file, CutOff, Pointer(o), Content(o), Corrupt(o)}
            /\ ~ToWrite(file, o) => new = file
            /\ ToWrite(new, o) => RunFails(file, o, have, fault)
            /\ o \notin damaged /\ file # Corrupt(o) => new # Corrupt(o)
<1>1. Run(file, o, have, fault) =
        IF ~ToWrite(file, o) \/ fault = "open" THEN file
        ELSE IF fault = "write" THEN CutOff ELSE Smudged(o, have)
  BY DEF Run
<1>2. CASE ~ToWrite(file, o)
  BY <1>1, <1>2
<1>3. CASE ToWrite(file, o) /\ fault \in {"open", "write"}
  BY <1>1, <1>3, FileKinds DEF RunFails
<1>4. CASE ToWrite(file, o) /\ fault \notin {"open", "write"}
  BY <1>1, <1>4, FileKinds DEF RunFails, Smudged, ReadLocalFile, ToWrite
<1> QED BY <1>2, <1>3, <1>4

\* It leaves a file.
LEMMA RunFiles ==
  ASSUME NEW file \in Files, NEW o \in Oids, NEW have, NEW fault
  PROVE  Run(file, o, have, fault) \in Files
<1> HIDE DEF Files
<1> QED BY RunWrites, SmudgedFiles

\* The paths that pull and fsck visit have objects.
LEMMA PullPaths ==
  ASSUME NEW tree \in Trees
  PROVE  PathsToPull(tree) \subseteq Paths /\ \A p \in PathsToPull(tree) : tree[p] \in Oids
BY TreeOids DEF PathsToPull

\* So have those that a pull has still to scan.
LEMMA PulledPaths ==
  ASSUME PullType, Pulling, pull.on, NEW p \in pull.todo
  PROVE  p \in PathsToPull(pull.tree) /\ p \in Paths /\ pull.tree[p] \in Oids
<1>1. pull.tree \in Trees /\ p \in PathsToPull(pull.tree)
  BY DEF PullType, Pulling, PullQueue
<1> QED BY <1>1, PullPaths

\* The types of the store and of the working tree.
LEMMA FileTypesStep ==
  ASSUME TypeOK, Pulling, Next
  PROVE  FileTypes'
<1>1. GitTypes /\ FileTypes /\ HeadTree \in Trees /\ Index \in Trees
  BY HeadType, IndexType DEF TypeOK
<1>2. store \subseteq Oids /\ wt \in [Paths -> Files] /\ (staged = {} \/ \E tree \in Trees : staged = {tree})
  BY <1>1 DEF FileTypes
<1>3. next \in Nat \ {0} /\ conf \in Scenarios
  BY <1>1 DEF GitTypes
<1>4. \A i \in Nat \ {0} : i <= Len(conf.script) => conf.script[i] \in Trees
  BY <1>3, ScriptTrees
<1>5. \A tree \in Trees : Diff(tree, HeadTree) \subseteq Oids
  BY DiffOids
<1>6. \A tree \in Trees : \A have : CheckedOut(tree, have) \in [Paths -> Files]
  <2> SUFFICES ASSUME NEW tree \in Trees, NEW have PROVE CheckedOut(tree, have) \in [Paths -> Files]
    OBVIOUS
  <2>1. FilesOf(tree, IF conf.installed THEN have ELSE {}) \in [Paths -> Files]
    BY FilesOfTree
  <2> HIDE DEF Files
  <2> QED BY <1>2, <2>1 DEF CheckedOut
<1>7. \A tree \in Trees : Add(tree) => store' \subseteq Oids /\ wt' \in [Paths -> Files]
  <2> SUFFICES ASSUME NEW tree \in Trees, Add(tree)
               PROVE  store' \subseteq Oids /\ wt' \in [Paths -> Files]
    OBVIOUS
  <2>1. \A p \in Paths : tree[p] # NoOid => Content(tree[p]) \in Files
    BY TreeOids, SmudgedFiles
  <2> HIDE DEF Files
  <2>2. wt' \in [Paths -> Files]
    BY <1>2, <2>1, EditedFile DEF Add
  <2>3. store' \subseteq Oids
    BY <1>2, <1>5 DEF Add
  <2> QED BY <2>2, <2>3
<1> HIDE DEF Files
<1>8. CASE UNCHANGED <<staged, commits, branch, cur, wt, store>>
  BY <1>1, <1>8 DEF FileTypes
<1>9. CASE Stage
  <2>1. conf.script[next] \in Trees
    BY <1>3, <1>4, <1>9 DEF Stage
  <2> QED BY <2>1, <1>7, <1>9 DEF Stage, FileTypes
<1>10. CASE Commit
  <2>1. CASE UNCHANGED <<store, wt>>
    BY <1>2, <1>10, <2>1 DEF Commit, FileTypes
  <2>2. CASE next <= Len(conf.script) /\ Add(conf.script[next])
    <3>1. conf.script[next] \in Trees
      BY <1>3, <1>4, <2>2
    <3> QED BY <3>1, <2>2, <1>7, <1>10 DEF Commit, FileTypes
  <2> QED BY <1>10, <2>1, <2>2 DEF Commit
<1>11. CASE Stash
  <2>1. conf.script[next] \in Trees /\ conf.script[next + 1] \in Trees
    <3>1. next + 1 <= Len(conf.script) /\ Len(conf.script) \in Nat
      BY <1>3, <1>11, RepositoryAssumption DEF Stash
    <3> QED BY <1>3, <1>4, <3>1
  <2> QED BY <1>2, <1>5, <1>11, <2>1 DEF Stash, FileTypes, checkVars
<1>12. ASSUME NEW b \in Branches, Merge(b)
       PROVE  FileTypes'
  <2>1. \/ \E tree \in Trees : wt' = CheckedOut(tree, store) /\ store' = store
        \/ /\ next <= Len(conf.script) /\ store' = store \cup Diff(conf.script[next], HeadTree)
           /\ wt' = CheckedOut(conf.script[next], store')
    BY <1>12 DEF Merge, Trees
  <2>2. store' \subseteq Oids /\ wt' \in [Paths -> Files]
    BY <2>1, <1>2, <1>3, <1>4, <1>5, <1>6
  <2> QED BY <1>2, <1>12, <2>2 DEF Merge, FileTypes, checkVars
<1>13. ASSUME NEW b \in Branches, Switch(b)
       PROVE  FileTypes'
  <2>1. branch'[b] \in 1..Len(commits)
    BY <1>1, <1>13, HeadType DEF Switch, GitTypes, Numbers
  <2>2. commits[branch'[b]].tree \in Trees
    BY <1>1, <2>1, CommitType DEF GitTypes
  <2> QED BY <1>2, <1>6, <1>13, <2>2 DEF Switch, FileTypes, checkVars
<1>14. ASSUME NEW p \in Paths, Edit(p)
       PROVE  FileTypes'
  BY <1>2, <1>14, EditedFile DEF Edit, FileTypes, checkVars
<1>15. ASSUME NEW o \in Oids, PruneDelete(o) \/ FetchDownload(o) \/ PullDownload(o)
       PROVE  FileTypes'
  BY <1>2, <1>15 DEF PruneDelete, FetchDownload, PullDownload, FileTypes, checkVars
<1>16. ASSUME NEW o \in Oids, PullWatch(o)
       PROVE  FileTypes'
  <2>1. \A p \in Paths : \A fault : Run(wt[p], o, store, fault) \in Files
    BY <1>2, RunFiles
  <2> QED BY <1>2, <1>16, <2>1 DEF PullWatch, FileTypes, checkVars
<1>17. ASSUME NEW P \in SUBSET Paths, Checkout(P)
       PROVE  FileTypes'
  <2>1. \A p \in Paths : HeadTree[p] # NoOid => \A fault : Run(wt[p], HeadTree[p], store, fault) \in Files
    BY <1>1, <1>2, RunFiles, TreeOids
  <2> QED BY <1>2, <1>17, <2>1 DEF Checkout, FileTypes, checkVars
<1>18. ASSUME NEW p \in pull.todo, PullScan(p)
       PROVE  FileTypes'
  <2>1. p \in Paths /\ pull.tree[p] \in Oids
    BY <1>1, <1>18, PulledPaths DEF PullScan, TypeOK, Pulling
  <2>2. \A fault : Run(wt[p], pull.tree[p], store, fault) \in Files
    BY <1>2, <2>1, RunFiles
  <2> QED BY <1>2, <1>18, <2>1, <2>2 DEF PullScan, FileTypes, checkVars
<1>19. CASE FsckRepair
  BY <1>2, <1>19 DEF FsckRepair, FileTypes
<1> QED BY <1>8, <1>9, <1>10, <1>11, <1>12, <1>13, <1>14, <1>15, <1>16, <1>17, <1>18, <1>19, FilesTouched

\* What a stash is, and the newest.
LEMMA StashTypes ==
  ASSUME GitTypes
  PROVE  /\ \A s \in Stashed : s.base \in Numbers \ {0} /\ s.wip \in Trees /\ s.idx \in Trees
         /\ RefsStash \subseteq Stashed
<1>1. stash \in Seq([base : Numbers \ {0}, idx : Trees, wip : Trees])
  BY DEF GitTypes
<1> DEFINE R == [base : Numbers \ {0}, idx : Trees, wip : Trees]
<1>2. \A s \in Stashed : s \in R
  <2> HIDE DEF R
  <2>1. stash \in Seq(R)
    BY <1>1 DEF R
  <2> QED BY <2>1 DEF Stashed, Range
<1>3. RefsStash \subseteq Stashed
  BY <1>1 DEF RefsStash, Stashed, Range, Last
<1> QED BY <1>2, <1>3

\* The refs of the repository are commits.
LEMMA RefsAreNumbers ==
  ASSUME GitTypes
  PROVE  /\ Range(branch) \subseteq Numbers /\ Range(remote) \subseteq Numbers
         /\ Range(tracking) \subseteq Numbers /\ Tips \subseteq Numbers \ {0}
         /\ TrackingTips \subseteq Numbers \ {0} /\ WorktreeHEADs \subseteq Numbers \ {0}
         /\ {s.base : s \in RefsStash} \subseteq Numbers \ {0}
<1>1. Range(branch) \subseteq Numbers /\ Range(remote) \subseteq Numbers /\ Range(tracking) \subseteq Numbers
  BY DEF GitTypes, Range
<1>2. HEAD \in Numbers \ {0} /\ linked \in Numbers
  BY HeadType DEF GitTypes
<1>3. \A s \in RefsStash : s.base \in Numbers \ {0}
  BY StashTypes
<1> QED BY <1>1, <1>2, <1>3 DEF Tips, TrackingTips, WorktreeHEADs

\* The commits that are reached are commits, and their objects are objects.
LEMMA ReachType ==
  ASSUME GitTypes, NEW C \in SUBSET Numbers
  PROVE  /\ Reach(C) \in SUBSET (1..Len(commits)) /\ Objects(Reach(C)) \subseteq Oids
         /\ \A c \in Reach(C) : Range(commits[c].parents) \subseteq Reach(C)
<1>1. IsHistory(commits) /\ C \in SUBSET (0..Len(commits))
  BY DEF GitTypes, Numbers
<1>2. Reach(C) = From(commits, C) /\ Objects(Reach(C)) = Held(commits, C)
  BY ReachIs
<1> QED BY <1>1, <1>2, FromFacts, HeldAreOids

\* What a commit adds and deletes are objects.
LEMMA ChangesAreOids ==
  ASSUME GitTypes, NEW c \in 1..Len(commits)
  PROVE  Additions(c) \subseteq Oids /\ Deletions(c) \subseteq Oids /\ ParentTree(c) \in Trees
<1>1. commits[c].tree \in Trees /\ commits[c].parents \in Seq(Nat)
  BY CommitType DEF GitTypes
<1>2. ParentTree(c) \in Trees
  <2>1. CASE commits[c].parents = <<>>
    BY <1>1, <2>1, TreeOids DEF ParentTree
  <2>2. CASE commits[c].parents # <<>>
    <3>1. commits[c].parents[1] \in Range(commits[c].parents)
      BY <1>1, <2>2 DEF Range
    <3>2. commits[c].parents[1] \in 1..Len(commits)
      BY <3>1, ParentsBefore DEF GitTypes
    <3>3. commits[commits[c].parents[1]].tree \in Trees
      BY <3>2, CommitType DEF GitTypes
    <3> QED BY <2>2, <3>3 DEF ParentTree
  <2> QED BY <2>1, <2>2
<1> QED BY <1>1, <1>2, DiffOids DEF Additions, Deletions

\* What the scanners report are objects.
LEMMA ScansAreOids ==
  ASSUME GitTypes
  PROVE  /\ ScanUnpushed \subseteq Oids /\ ScanStashed \subseteq Oids
         /\ \A exclude : ScanAll(exclude) \subseteq Oids
         /\ \A c \in Numbers \ {0} : \A since : ScanPreviousVersions(c, since) \subseteq Oids
         /\ \A c \in Numbers \ {0} : RetainedAtRef(c) \subseteq Oids
<1>1. Len(commits) \in Nat /\ \A c \in Numbers \ {0} : c \in 1..Len(commits)
  BY HeadType DEF Numbers
<1>2. ScanUnpushed \subseteq Oids
  <2>1. Reach(Tips) \in SUBSET (1..Len(commits))
    BY RefsAreNumbers, ReachType
  <2> QED BY <2>1, ChangesAreOids DEF ScanUnpushed
<1>3. /\ \A s \in Stashed : s.wip \in Trees /\ s.idx \in Trees
      /\ RefsStash \subseteq Stashed
  BY StashTypes
<1>4. ScanStashed \subseteq Oids
  BY <1>3, DiffOids DEF ScanStashed
<1>5. ASSUME NEW exclude PROVE ScanAll(exclude) \subseteq Oids
  <2>1. Objects(Reach(Tips \cup TrackingTips \cup {s.base : s \in RefsStash})) \subseteq Oids
    <3>1. (Tips \cup TrackingTips \cup {s.base : s \in RefsStash}) \in SUBSET Numbers
      BY RefsAreNumbers
    <3> QED BY <3>1, ReachType
  <2>2. \A s \in RefsStash : ObjectsIn(s.wip) \subseteq Oids /\ ObjectsIn(s.idx) \subseteq Oids
    BY <1>3, TreeOids
  <2> QED BY <2>1, <2>2 DEF ScanAll
<1>6. ASSUME NEW c \in Numbers \ {0}, NEW since PROVE ScanPreviousVersions(c, since) \subseteq Oids
  <2>1. Reach({c}) \in SUBSET (1..Len(commits))
    BY ReachType
  <2> QED BY <2>1, ChangesAreOids DEF ScanPreviousVersions
<1>7. ASSUME NEW c \in Numbers \ {0} PROVE RetainedAtRef(c) \subseteq Oids
  <2>1. commits[c].tree \in Trees
    BY <1>1, CommitType DEF GitTypes
  <2> QED BY <2>1, TreeOids DEF RetainedAtRef, ScanRef
<1> QED BY <1>2, <1>4, <1>5, <1>6, <1>7

\* The recent refs are commits.
LEMMA RecentAreNumbers ==
  ASSUME GitTypes, NEW days
  PROVE  RecentTips(days) \subseteq Numbers \ {0} /\ HEAD \in RecentTips(days)
BY HeadType, RefsAreNumbers DEF RecentTips, RecentBranches

\* The type of a push.
LEMMA PushTypeStep ==
  ASSUME TypeOK, Next
  PROVE  PushType'
<1>0. GitTypes /\ FileTypes /\ PushType
  BY DEF TypeOK
<1>1. CASE UNCHANGED <<conf, commits, remote, tracking, server, ever, blind, push>>
  BY <1>0, <1>1 DEF PushType, Numbers
<1>2. CASE Commit \/ \E b \in Branches : Merge(b)
  <2>1. Numbers \subseteq Numbers' /\ push' = push
    BY <1>0, <1>2, CommitGrows DEF Commit, Merge
  <2> QED BY <1>0, <2>1 DEF PushType
<1>3. CASE CollectGarbage \/ GitFetchPrune \/ \E b \in Branches : DeleteRemoteBranch(b)
  BY <1>0, <1>3 DEF PushType, CollectGarbage, GitFetchPrune, DeleteRemoteBranch, gitVars, Numbers
<1>4. ASSUME NEW kind \in {"hook", "lfs", "all"}, NEW B \in SUBSET Branches, NEW bases \in SUBSET Numbers,
             StartPush(kind, B, bases)
      PROVE  PushType'
  <2>1. PICK listed \in RemoteRefs :
          push' = [IdlePush EXCEPT !.kind = kind, !.updates = B, !.refs = B,
                                   !.tip = branch, !.bases = bases, !.skipped = calcSkippedRefs(listed)]
    BY <1>4 DEF StartPush
  <2>2. calcSkippedRefs(listed) \subseteq Numbers /\ branch \in [Branches -> Numbers]
    BY <1>0 DEF calcSkippedRefs, GitTypes
  <2>3. Numbers' = Numbers
    BY <1>4 DEF StartPush, gitVars, Numbers
  <2> QED BY <2>1, <2>2, <2>3 DEF PushType, IdlePush
<1>5. ASSUME NEW B \in SUBSET Branches, PrePush(B)
      PROVE  PushType'
  <2>1. RightSides(B) \subseteq Numbers
    BY <1>0 DEF RightSides, GitTypes
  <2> QED BY <1>4, <1>5, <2>1 DEF PrePush
<1>6. ASSUME NEW all \in BOOLEAN, LfsPush(all)
      PROVE  PushType'
  <2>1. lfsPushRefs(all) \in SUBSET Branches
    BY DEF lfsPushRefs
  <2> QED BY <1>4, <1>6, <2>1 DEF LfsPush
<1>7. ASSUME NEW b \in Branches, PushScan(b)
      PROVE  PushType'
  <2> DEFINE out == push.bases \cup IF push.skipped = {} THEN TrackingTips ELSE push.skipped
  <2>1. push.tip[b] \in Numbers
    BY <1>0 DEF PushType
  <2>2. Reach({push.tip[b]}) \in SUBSET (1..Len(commits)) /\ Objects(Reach({push.tip[b]})) \subseteq Oids
    BY <1>0, <2>1, ReachType
  <2>3. ScanRangeToRemote(push.tip[b], push.bases, push.skipped) \subseteq Oids
    BY <2>2 DEF ScanRangeToRemote, Objects
  <2>4. PICK found \in SUBSET Oids :
          push' = [push EXCEPT !.queue = found, !.uploaded = @ \cup found, !.refs = @ \ {b}]
    BY <1>7, <2>2, <2>3 DEF PushScan, ScanRefWithDeleted
  <2>5. Numbers' = Numbers
    BY <1>7 DEF PushScan, gitVars, Numbers
  <2> QED BY <1>0, <2>4, <2>5 DEF PushType
<1>8. ASSUME NEW o \in Oids, PushUpload(o) \/ PushUploadFails(o)
      PROVE  PushType'
  <2>1. Numbers' = Numbers
    BY <1>8 DEF PushUpload, PushUploadFails, gitVars, Numbers
  <2>2. push' = [push EXCEPT !.queue = push'.queue, !.missing = push'.missing, !.err = push'.err]
        /\ push'.queue \subseteq Oids /\ push'.missing \in BOOLEAN /\ push'.err \in BOOLEAN
    BY <1>0, <1>8 DEF PushUpload, PushUploadFails, PushType
  <2> QED BY <1>0, <2>1, <2>2 DEF PushType
<1>9. CASE PushEnd
  <2>1. Numbers' = Numbers /\ push' = IdlePush
    BY <1>9 DEF PushEnd, gitVars, Numbers
  <2>2. 0 \in Numbers
    BY <1>0, HeadType DEF Numbers
  <2> QED BY <2>1, <2>2 DEF PushType, IdlePush
<1> QED BY <1>1, <1>2, <1>3, <1>5, <1>6, <1>7, <1>8, <1>9, PushTouched

\* What the user takes into use are objects.
LEMMA UserMoves ==
  ASSUME GitTypes, FileTypes, Commit \/ Stash \/ \E b \in Branches : Merge(b) \/ Switch(b) \/ AddWorktree(b)
  PROVE  \E oids \in SUBSET Oids : DuringPrune(oids)
<1>1. HeadTree \in Trees /\ \A tree \in Trees : ObjectsIn(tree) \subseteq Oids
  BY HeadType, TreeOids
<1>2. ASSUME NEW tree \in Trees, HeadMoves(tree)
      PROVE  \E oids \in SUBSET Oids : DuringPrune(oids)
  <2>1. ObjectsIn(tree) \cup ObjectsIn(HeadTree) \in SUBSET Oids
    BY <1>1
  <2> QED BY <1>2, <2>1, Zenon DEF HeadMoves
<1>3. CASE Commit \/ \E b \in Branches : Merge(b)
  <2>1. PICK parents \in Seq(1..Len(commits)), tree \in Trees : NewCommit(parents, tree)
    BY <1>3, CommitAppends
  <2> QED BY <1>2, <2>1 DEF NewCommit
<1>4. CASE Stash
  <2>1. conf.script[next] \in Trees /\ conf.script[next + 1] \in Trees
    <3>1. next \in Nat \ {0} /\ next + 1 <= Len(conf.script) /\ conf \in Scenarios
      BY <1>4 DEF Stash, GitTypes
    <3>2. Len(conf.script) \in Nat
      BY <3>1, RepositoryAssumption
    <3> QED BY <3>1, <3>2, ScriptTrees
  <2>2. ObjectsIn(conf.script[next]) \cup ObjectsIn(conf.script[next + 1]) \in SUBSET Oids
    BY <1>1, <2>1
  <2> QED BY <1>4, <2>2, Zenon DEF Stash
<1>5. ASSUME NEW b \in Branches, Switch(b)
      PROVE  \E oids \in SUBSET Oids : DuringPrune(oids)
  <2>1. branch'[b] \in 1..Len(commits)
    BY <1>5, HeadType DEF Switch, GitTypes, Numbers
  <2>2. commits[branch'[b]].tree \in Trees
    BY <2>1, CommitType DEF GitTypes
  <2> QED BY <1>2, <1>5, <2>2 DEF Switch
<1>6. ASSUME NEW b \in Branches, AddWorktree(b)
      PROVE  \E oids \in SUBSET Oids : DuringPrune(oids)
  <2>1. branch[b] \in 1..Len(commits)
    BY <1>6, HeadType DEF AddWorktree, GitTypes, Numbers
  <2>2. ObjectsIn(LsTree(branch[b])) \in SUBSET Oids
    BY <1>1, <2>1, CommitType DEF GitTypes, LsTree
  <2> QED BY <1>6, <2>2, Zenon DEF AddWorktree
<1> QED BY <1>3, <1>4, <1>5, <1>6

\* The type of prune.
LEMMA PruneTypeStep ==
  ASSUME TypeOK, Next
  PROVE  PruneType'
<1>0. GitTypes /\ FileTypes /\ PruneType
  BY DEF TypeOK
<1>1. CASE UNCHANGED prune
  BY <1>0, <1>1 DEF PruneType
<1>2. ASSUME NEW force \in BOOLEAN, NEW recent \in BOOLEAN, NEW verify \in BOOLEAN, NEW dryRun \in BOOLEAN,
             StartPrune(force, recent, verify, dryRun)
      PROVE  PruneType'
  BY <1>2 DEF StartPrune, IdlePrune, PruneType, Tasks
<1>3. conf \in Scenarios /\ conf.verifyAlways \in BOOLEAN
  BY <1>0, RepositoryAssumption DEF GitTypes, FetchPruneConfig
<1>4. ASSUME NEW a \in conf.pruneArgs, PruneCommand(a.force, a.recent, a.verify, a.dryRun)
      PROVE  PruneType'
  <2>1. a \in [force : BOOLEAN, recent : BOOLEAN, dryRun : BOOLEAN, verify : {"default", "ask", "never"}]
    BY <1>3, <1>4, RepositoryAssumption
  <2>2. (a.verify # "never" /\ (conf.verifyAlways \/ a.verify = "ask")) \in BOOLEAN
    OBVIOUS
  <2> QED BY <1>2, <1>4, <2>1, <2>2 DEF PruneCommand
<1>5. CASE FetchEnd
  BY <1>0, <1>1, <1>2, <1>3, <1>5 DEF FetchEnd
<1>6. ASSUME NEW t \in prune.todo, PruneTask(t)
      PROVE  PruneType'
  <2>1. RetainedCurrentAndRecentRefs \subseteq Oids
    <3>1. \A c \in RecentTips(RefsDays(prune)) : RetainedAtRef(c) \subseteq Oids /\ RetainedPrevious(c) \subseteq Oids
      BY <1>0, ScansAreOids, RecentAreNumbers DEF RetainedPrevious
    <3> DEFINE A == UNION {RetainedAtRef(c) : c \in RecentTips(RefsDays(prune)) \ (IF prune.force THEN {HEAD} ELSE {})}
               B == UNION {RetainedPrevious(c) : c \in RecentTips(RefsDays(prune))}
    <3>2. A \subseteq Oids /\ B \subseteq Oids
      BY <3>1
    <3>3. RetainedCurrentAndRecentRefs = A \cup IF prune.recent \/ conf.commitsDays = 0 THEN {} ELSE B
      BY DEF RetainedCurrentAndRecentRefs
    <3> HIDE DEF A, B
    <3> QED BY <3>2, <3>3
  <2>2. RetainedWorktree \subseteq Oids
    BY <1>0, ScansAreOids, RefsAreNumbers DEF RetainedWorktree
  <2>3. RetainedUnpushed \subseteq Oids /\ RetainedStashed \subseteq Oids /\ ReachableObjects \subseteq Oids
    BY <1>0, ScansAreOids DEF RetainedUnpushed, RetainedStashed, ReachableObjects
  <2>4. LocalObjects \subseteq Oids
    BY <1>0 DEF LocalObjects, FileTypes
  <2>5. t \in Tasks
    BY <1>0 DEF PruneType
  <2> QED BY <1>0, <1>6, <2>1, <2>2, <2>3, <2>4, <2>5 DEF PruneTask, PruneType, Tasks
<1>7. CASE PruneStops
  BY <1>7 DEF PruneStops, IdlePrune, PruneType
<1>8. CASE PruneSelect
  BY <1>0, <1>8 DEF PruneSelect, IdlePrune, PruneType
<1>9. ASSUME NEW o \in Oids, PruneDelete(o)
      PROVE  PruneType'
  BY <1>0, <1>9 DEF PruneDelete, IdlePrune, PruneType
<1>10. ASSUME NEW oids \in SUBSET Oids, DuringPrune(oids)
       PROVE  PruneType'
  BY <1>0, <1>10 DEF DuringPrune, PruneType
<1>11. CASE Commit \/ Stash \/ \E b \in Branches : Merge(b) \/ Switch(b) \/ AddWorktree(b)
  <2>1. \E oids \in SUBSET Oids : DuringPrune(oids)
    BY <1>0, <1>11, UserMoves
  <2> QED BY <1>10, <2>1
<1> QED BY <1>1, <1>4, <1>5, <1>6, <1>7, <1>8, <1>9, <1>11, PruneTouched

\* The type of a pull.
LEMMA PullTypeStep ==
  ASSUME TypeOK, Pulling, Next
  PROVE  PullType'
<1>0. GitTypes /\ PullType
  BY DEF TypeOK
<1>1. CASE UNCHANGED pull
  BY <1>0, <1>1 DEF PullType
<1>2. CASE \E o \in Oids : Damage(o)
  BY <1>0, <1>2 DEF Damage, PullType
<1>3. CASE \E tree : DuringPull(tree)
  BY <1>0, <1>3 DEF DuringPull, PullType
<1>4. CASE PullStart
  <2>1. HeadTree \in Trees /\ PathsToPull(HeadTree) \subseteq Paths
    BY <1>0, HeadType, PullPaths
  <2> HIDE DEF HeadTree, PathsToPull
  <2>2. \E T \in SUBSET Paths :
          pull' = [on |-> TRUE, tree |-> HeadTree, todo |-> PathsToPull(HeadTree), ptr |-> [o \in Oids |-> {}],
                   queued |-> {}, done |-> {}, failed |-> {}, watch |-> {}, skipped |-> {}, touched |-> {},
                   trusted |-> T]
    BY <1>4 DEF PullStart, IdlePull
  <2> QED BY <2>1, <2>2 DEF PullType
<1>5. ASSUME NEW p \in pull.todo, PullScan(p)
      PROVE  PullType'
  <2>1. p \in Paths /\ pull.tree[p] \in Oids
    BY <1>0, <1>5, PulledPaths DEF PullScan
  <2> DEFINE o == pull.tree[p]
             rest == [pull EXCEPT !.todo = @ \ {p}]
  <2>2. rest \in [on : BOOLEAN, tree : Trees, todo : SUBSET Paths, ptr : [Oids -> SUBSET Paths],
                  queued : SUBSET Oids, done : SUBSET Oids, failed : SUBSET Oids, watch : SUBSET Oids,
                  skipped : SUBSET Paths, touched : SUBSET Paths, trusted : SUBSET Paths]
    BY <1>0 DEF PullType
  <2>3. \/ pull' = [rest EXCEPT !.ptr[o] = pull.ptr[o] \cup {p}]
        \/ \E S \in SUBSET {p} : pull' = [rest EXCEPT !.skipped = @ \cup S]
        \/ \E W \in {pull.watch, pull.watch \cup {o}} :
             pull' = [rest EXCEPT !.ptr[o] = {p}, !.queued = @ \cup {o}, !.watch = W]
    BY <1>5 DEF PullScan, SeenPointers
  <2>4. pull.ptr[o] \subseteq Paths /\ pull.watch \subseteq Oids
    BY <1>0, <2>1 DEF PullType
  <2> HIDE DEF rest, o
  <2>5. o \in Oids
    BY <2>1 DEF o
  <2>6. CASE pull' = [rest EXCEPT !.ptr[o] = pull.ptr[o] \cup {p}]
    BY <2>1, <2>2, <2>4, <2>5, <2>6 DEF PullType
  <2>7. ASSUME NEW S \in SUBSET {p}, pull' = [rest EXCEPT !.skipped = @ \cup S]
        PROVE  PullType'
    BY <2>1, <2>2, <2>7 DEF PullType
  <2>8. ASSUME NEW W \in SUBSET Oids,
               pull' = [rest EXCEPT !.ptr[o] = {p}, !.queued = @ \cup {o}, !.watch = W]
        PROVE  PullType'
    BY <2>1, <2>2, <2>5, <2>8 DEF PullType
  <2>9. pull.watch \in SUBSET Oids /\ pull.watch \cup {o} \in SUBSET Oids
    BY <2>4, <2>5
  <2> QED BY <2>3, <2>6, <2>7, <2>8, <2>9
<1>6. ASSUME NEW o \in Oids, PullDownload(o) \/ PullWatch(o)
      PROVE  PullType'
  <2>1. CASE PullDownload(o)
    <3>1. \/ pull' = [pull EXCEPT !.done = @ \cup {o}, !.watch = @ \cup {o}]
          \/ pull' = [pull EXCEPT !.failed = @ \cup {o}]
      BY <2>1 DEF PullDownload
    <3>2. CASE pull' = [pull EXCEPT !.done = @ \cup {o}, !.watch = @ \cup {o}]
      BY <1>0, <3>2 DEF PullType
    <3>3. CASE pull' = [pull EXCEPT !.failed = @ \cup {o}]
      BY <1>0, <3>3 DEF PullType
    <3> QED BY <3>1, <3>2, <3>3
  <2>2. CASE PullWatch(o)
    <3>1. PICK fault \in [pull.ptr[o] -> Faults] :
            pull' = [pull EXCEPT !.watch = @ \ {o}, !.ptr[o] = {},
                       !.skipped = @ \cup {p \in pull.ptr[o] : RunFails(wt[p], o, store, fault[p])}]
      BY <2>2 DEF PullWatch
    <3> DEFINE S == {p \in pull.ptr[o] : RunFails(wt[p], o, store, fault[p])}
    <3>2. S \subseteq Paths
      BY <1>0, <1>6 DEF PullType
    <3>3. pull' = [pull EXCEPT !.watch = @ \ {o}, !.ptr[o] = {}, !.skipped = @ \cup S]
      BY <3>1
    <3> HIDE DEF S
    <3> QED BY <1>0, <3>2, <3>3 DEF PullType
  <2> QED BY <1>6, <2>1, <2>2
<1>7. CASE PullEnd
  <2>1. EmptyTree \in Trees
    BY DEF EmptyTree, Trees
  <2> QED BY <1>7, <2>1 DEF PullEnd, IdlePull, PullType
<1>8. CASE \/ Stash \/ FsckRepair \/ (\E p \in Paths : Edit(p)) \/ (\E P \in SUBSET Paths : Checkout(P))
           \/ \E o \in Oids : FetchDownload(o) \/ PruneDelete(o)
  BY <1>1, <1>8 DEF Stash, FsckRepair, Edit, FetchDownload, PruneDelete, Checkout
<1>9. CASE \/ Stage \/ Commit \/ \E b \in Branches : Merge(b) \/ Switch(b)
  BY <1>3, <1>9 DEF Stage, Commit, Merge, Switch, NewCommit, HeadMoves
<1> QED BY <1>1, <1>2, <1>4, <1>5, <1>6, <1>7, <1>8, <1>9, PullTouched

\* The type of fsck.
LEMMA FsckTypeStep ==
  ASSUME TypeOK, Checked, Next
  PROVE  FsckType'
<1>0. GitTypes /\ FileTypes /\ FsckType /\ HeadTree \in Trees /\ Index \in Trees
  BY HeadType, IndexType DEF TypeOK
<1>i. IdleFsck \in [phase : {"idle"}, dryRun : {FALSE}, useIndex : {FALSE}, todo : {{}},
                    corrupt : {<<>>}, scope : {{}}]
      /\ <<>> \in Seq(Oids)
  BY DEF IdleFsck
<1>1. CASE UNCHANGED fsck
  BY <1>0, <1>1 DEF FsckType
<1>2. CASE \E o \in Oids : Damage(o)
  BY <1>0, <1>2 DEF Damage, FsckType
<1>3. CASE \E o \in Oids : PruneDelete(o) \/ FetchDownload(o) \/ PullDownload(o)
  BY <1>1, <1>3 DEF PruneDelete, FetchDownload, PullDownload
<1>4. ASSUME NEW a \in conf.fsckArgs, FsckStart(a[1], a[2])
      PROVE  FsckType'
  <2>1. a \in BOOLEAN \X BOOLEAN
    BY <1>0, RepositoryAssumption DEF GitTypes
  <2>2. RefOids \subseteq Paths \X Paths \X Oids
    BY <1>0, PullPaths DEF RefOids
  <2>3. UsedBy(HEAD) \subseteq Oids
    BY <1>0, TreeOids DEF UsedBy, UsedIn, HeadTree, LsTree
  <2> QED BY <1>4, <1>i, <2>1, <2>2, <2>3 DEF FsckStart, FsckType
<1>5. CASE FsckCheck
  <2>1. PICK r \in fsck.todo :
          fsck' = [fsck EXCEPT !.todo = @ \ {r},
                     !.corrupt = IF FsckPointer(r[3]) THEN @ ELSE Append(@, r[3])]
    BY <1>5 DEF FsckCheck
  <2>2. r[3] \in Oids /\ fsck.corrupt \in Seq(Oids)
    BY <1>0 DEF FsckType
  <2>3. Append(fsck.corrupt, r[3]) \in Seq(Oids)
    BY <2>2
  <2> QED BY <1>0, <2>1, <2>2, <2>3 DEF FsckType
<1>6. CASE FsckIndex
  <2>1. PICK late : fsck' = [fsck EXCEPT !.todo = ScanIndex(late), !.useIndex = FALSE,
                               !.scope = @ \cup {o \in UsedIn(Index) : FilesFor(o) # {}}]
    BY <1>6 DEF FsckIndex
  <2>2. ScanIndex(late) \subseteq Paths \X Paths \X Oids
    <3> SUFFICES ASSUME NEW p \in RevListIndex
                 PROVE  <<FirstOf(FilesFor(Index[p])), p, Index[p]>> \in Paths \X Paths \X Oids
      BY DEF ScanIndex
    <3>1. p \in Paths /\ Index[p] \in Oids
      BY <1>0, TreeOids DEF RevListIndex, DiffIndex
    <3>2. FilesFor(Index[p]) \in SUBSET Paths /\ FilesFor(Index[p]) # {}
      BY DEF FilesFor, RevListIndex, DiffIndex
    <3>3. FirstOf(FilesFor(Index[p])) \in Paths
      BY <3>2, FirstOfIn
    <3> QED BY <3>1, <3>3
  <2>3. UsedIn(Index) \subseteq Oids
    BY <1>0, TreeOids DEF UsedIn
  <2> QED BY <1>0, <2>1, <2>2, <2>3 DEF FsckType
<1>7. CASE FsckReport
  BY <1>0, <1>7, <1>i DEF FsckReport, FsckOK, FsckType
<1>8. CASE FsckRepair
  <2>1. Tail(fsck.corrupt) \in Seq(Oids)
    BY <1>0, <1>8 DEF FsckRepair, FsckType, Checked
  <2>2. fsck' = IdleFsck \/ fsck' = [fsck EXCEPT !.corrupt = Tail(@)]
    BY <1>8 DEF FsckRepair, FsckOK
  <2> QED BY <1>0, <1>i, <2>1, <2>2 DEF FsckType
<1> QED BY <1>1, <1>2, <1>3, <1>4, <1>5, <1>6, <1>7, <1>8, FsckTouched

\* Every step keeps the types.
LEMMA TypeStep ==
  ASSUME TypeOK, Checked, Pulling, Next
  PROVE  TypeOK'
<1>1. GitTypes' /\ FileTypes'
  BY GitTypesStep, FileTypesStep DEF TypeOK
<1> QED BY <1>1, PushTypeStep, PruneTypeStep, PullTypeStep, FsckTypeStep DEF TypeOK

-----------------------------------------------------------------------------
(* The working tree *)

\* A new commit is that of HEAD.
LEMMA NewHead ==
  ASSUME GitTypes, NEW parents, NEW tree, NewCommit(parents, tree), cur' = cur
  PROVE  HeadTree' = tree
<1>1. Len(commits) \in Nat /\ commits \in Seq(Commits) /\ branch \in [Branches -> Numbers] /\ cur \in Branches
  BY ParentsBefore DEF GitTypes, IsHistory
<1>2. branch'[cur'] = Len(commits) + 1
  BY <1>1 DEF NewCommit
<1>3. commits'[Len(commits) + 1] = [parents |-> parents, tree |-> tree, day |-> day]
  BY <1>1 DEF NewCommit
<1> QED BY <1>2, <1>3 DEF HeadTree, LsTree, HEAD

\* A checkout of a file, whichever commit it goes by.
LEMMA FitsRun ==
  ASSUME NEW i, NEW h, NEW o \in Oids, NEW file, NEW have, NEW fault, FileFits(i, h, file)
  PROVE  FileFits(i, h, Run(file, o, have, fault))
<1>1. CASE ~ToWrite(file, o) \/ i = NoOid
  BY <1>1, RunWrites DEF FileFits
<1>2. CASE ToWrite(file, o) /\ i # NoOid
  <2>1. file \in {Absent, Pointer(o)} /\ i = h /\ file = Pointer(i)
    <3>1. file \in {Absent, Pointer(o)}
      BY <1>2 DEF ToWrite
    <3>2. file[1] \in {"absent", "pointer"}
      BY <3>1 DEF Absent, Pointer
    <3>3. Edited[1] = "edited" /\ CutOff[1] = "cut off" /\ Content(i)[1] = "content" /\ Corrupt(i)[1] = "corrupt"
      BY DEF Edited, CutOff, Content, Corrupt
    <3>4. file \notin {Edited, CutOff, Content(i), Corrupt(i)}
      BY <3>2, <3>3
    <3> QED BY <1>2, <3>1, <3>4 DEF FileFits
  <2>2. i = o
    BY <2>1 DEF Absent, Pointer
  <2> QED BY <2>1, <2>2, RunWrites DEF FileFits
<1> QED BY <1>1, <1>2

\* Another tree is checked out.
LEMMA FitsCheckedOut ==
  ASSUME TypeOK, WorkingTree, staged = {}, NEW tree \in Trees, NEW have, NEW p \in Paths
  PROVE  FileFits(tree[p], tree[p], CheckedOut(tree, have)[p])
<1>1. FileFits(HeadTree[p], HeadTree[p], wt[p])
  BY DEF WorkingTree, Index
<1>2. CheckedOut(tree, have)[p] = IF tree[p] = HeadTree[p] THEN wt[p]
                                  ELSE FilesOf(tree, IF conf.installed THEN have ELSE {})[p]
  BY DEF CheckedOut
<1> QED BY <1>1, <1>2, FilesOfTree DEF FileFits

\* The files of another tree are added.
LEMMA FitsAdd ==
  ASSUME WorkingTree, staged = {}, NEW tree, Add(tree), NEW p \in Paths, NEW h, tree[p] = HeadTree[p] => h = tree[p]
  PROVE  FileFits(tree[p], h, wt'[p])
<1>1. FileFits(HeadTree[p], HeadTree[p], wt[p])
  BY DEF WorkingTree, Index
<1>2. wt'[p] = IF tree[p] = HeadTree[p] THEN wt[p]
               ELSE IF tree[p] = NoOid THEN Absent ELSE Content(tree[p])
  BY DEF Add
<1> QED BY <1>1, <1>2 DEF FileFits

\* The files of the index are there, in every state.
LEMMA WorkingTreeStep ==
  ASSUME TypeOK, WorkingTree, Pulling, Next
  PROVE  WorkingTree'
<1>0. GitTypes /\ FileTypes /\ PullType /\ wt \in [Paths -> Files]
  BY DEF TypeOK, FileTypes
<1>1. next \in Nat \ {0} /\ (next <= Len(conf.script) => conf.script[next] \in Trees)
  BY <1>0, ScriptTrees DEF GitTypes
<1>2. CASE UNCHANGED <<staged, commits, branch, cur, wt>>
  BY <1>2 DEF WorkingTree, Index, HeadTree, LsTree, HEAD
<1>3. CASE Stash \/ FsckRepair \/ \E o \in Oids : PruneDelete(o) \/ FetchDownload(o) \/ PullDownload(o)
  BY <1>2, <1>3 DEF Stash, FsckRepair, PruneDelete, FetchDownload, PullDownload, checkVars, gitVars
<1>4. CASE Stage
  <2>1. HeadTree' = HeadTree /\ Index' = conf.script[next]
    BY <1>4 DEF Stage, HeadTree, LsTree, HEAD, Index
  <2> HIDE DEF HeadTree, Index
  <2> QED BY <1>4, <2>1, FitsAdd DEF Stage, WorkingTree
<1>5. CASE Commit
  <2>1. cur' = cur /\ staged' = {} /\ Index' = HeadTree'
    BY <1>5 DEF Commit, Index
  <2>2. CASE staged # {} /\ NewCommit(<<HEAD>>, Index) /\ UNCHANGED wt
    <3>1. HeadTree' = Index
      BY <1>0, <2>1, <2>2, NewHead
    <3> QED BY <2>1, <2>2, <3>1 DEF WorkingTree, FileFits
  <2>3. CASE staged = {} /\ NewCommit(<<HEAD>>, conf.script[next]) /\ Add(conf.script[next])
    <3>1. HeadTree' = conf.script[next]
      BY <1>0, <2>1, <2>3, NewHead
    <3> QED BY <2>1, <2>3, <3>1, FitsAdd DEF WorkingTree
  <2> QED BY <1>5, <2>2, <2>3 DEF Commit
<1>6. ASSUME NEW b \in Branches, Merge(b)
      PROVE  WorkingTree'
  <2>1. staged = {} /\ staged' = {} /\ cur' = cur /\ Index' = HeadTree'
    BY <1>6 DEF Merge, checkVars, Index
  <2>2. \E tree \in Trees : \E have : NewCommit(<<HEAD, branch[b]>>, tree) /\ wt' = CheckedOut(tree, have)
    BY <1>1, <1>6 DEF Merge, Trees
  <2>3. PICK tree \in Trees : \E have : NewCommit(<<HEAD, branch[b]>>, tree) /\ wt' = CheckedOut(tree, have)
    BY <2>2
  <2>4. HeadTree' = tree
    BY <1>0, <2>1, <2>3, NewHead
  <2> QED BY <2>1, <2>3, <2>4, FitsCheckedOut DEF WorkingTree
<1>7. ASSUME NEW b \in Branches, Switch(b)
      PROVE  WorkingTree'
  <2>1. branch'[b] \in 1..Len(commits)
    BY <1>0, <1>7, HeadType DEF Switch, GitTypes, Numbers
  <2>2. commits[branch'[b]].tree \in Trees
    BY <1>0, <2>1, CommitType DEF GitTypes
  <2>3. staged = {} /\ staged' = {} /\ HeadTree' = commits[branch'[b]].tree /\ Index' = HeadTree'
    BY <1>7 DEF Switch, checkVars, Index, HeadTree, LsTree, HEAD
  <2>4. wt' = CheckedOut(commits[branch'[b]].tree, store)
    BY <1>7 DEF Switch
  <2> QED BY <2>2, <2>3, <2>4, FitsCheckedOut DEF WorkingTree
<1>8. ASSUME HeadTree' = HeadTree, Index' = Index,
             \A p \in Paths : \/ wt'[p] = wt[p]
                              \/ wt'[p] = Edited
                              \/ \E o \in Oids : \E have, fault : wt'[p] = Run(wt[p], o, have, fault)
      PROVE  WorkingTree'
  <2> SUFFICES ASSUME NEW p \in Paths PROVE FileFits(Index[p], HeadTree[p], wt'[p])
    BY <1>8 DEF WorkingTree
  <2>1. FileFits(Index[p], HeadTree[p], wt[p])
    BY DEF WorkingTree
  <2>2. CASE wt'[p] = Edited
    BY <2>2 DEF FileFits
  <2>3. CASE wt'[p] = wt[p]
    BY <2>1, <2>3
  <2>4. CASE \E o \in Oids : \E have, fault : wt'[p] = Run(wt[p], o, have, fault)
    BY <2>1, <2>4, FitsRun
  <2> QED BY <1>8, <2>2, <2>3, <2>4
<1>9. CASE \/ (\E p \in Paths : Edit(p)) \/ (\E P \in SUBSET Paths : Checkout(P))
           \/ (\E p \in pull.todo : PullScan(p)) \/ \E o \in Oids : PullWatch(o)
  <2>1. UNCHANGED <<staged, commits, branch, cur>>
    BY <1>9 DEF Edit, Checkout, PullScan, PullWatch, checkVars, gitVars
  <2>2. HeadTree' = HeadTree /\ Index' = Index
    BY <2>1 DEF Index, HeadTree, LsTree, HEAD
  <2>3. CASE \E p \in Paths : Edit(p)
    BY <1>0, <1>8, <2>2, <2>3 DEF Edit
  <2>4. ASSUME NEW P \in SUBSET Paths, Checkout(P)
        PROVE  WorkingTree'
    <3>1. \A p \in Paths : HeadTree[p] # NoOid => HeadTree[p] \in Oids
      BY <1>0, HeadType, TreeOids
    <3>2. PICK fault : wt' = [p \in Paths |-> IF p \in P /\ HeadTree[p] # NoOid
                                             THEN Run(wt[p], HeadTree[p], store, fault[p]) ELSE wt[p]]
      BY <2>4 DEF Checkout
    <3>3. \A p \in Paths : \/ wt'[p] = wt[p]
                           \/ HeadTree[p] \in Oids /\ wt'[p] = Run(wt[p], HeadTree[p], store, fault[p])
      BY <3>1, <3>2
    <3> HIDE DEF HeadTree, Run
    <3>4. \A p \in Paths : \/ wt'[p] = wt[p]
                           \/ \E o \in Oids : \E have, f : wt'[p] = Run(wt[p], o, have, f)
      BY <3>3
    <3> QED BY <1>8, <2>2, <3>4
  <2>5. ASSUME NEW p \in pull.todo, PullScan(p)
        PROVE  WorkingTree'
    <3>1. p \in Paths /\ pull.tree[p] \in Oids
      BY <1>0, <2>5, PulledPaths DEF PullScan
    <3>2. wt' = wt \/ \E fault : wt' = [wt EXCEPT ![p] = Run(@, pull.tree[p], store, fault)]
      BY <2>5 DEF PullScan
    <3> HIDE DEF Run
    <3>3. \A q \in Paths : \/ wt'[q] = wt[q]
                           \/ \E o \in Oids : \E have, f : wt'[q] = Run(wt[q], o, have, f)
      BY <1>0, <3>1, <3>2
    <3> QED BY <1>8, <2>2, <3>3
  <2>6. ASSUME NEW o \in Oids, PullWatch(o)
        PROVE  WorkingTree'
    <3>1. PICK fault : wt' = [p \in Paths |-> IF p \in pull.ptr[o] THEN Run(wt[p], o, store, fault[p]) ELSE wt[p]]
      BY <2>6 DEF PullWatch
    <3>2. \A p \in Paths : wt'[p] = wt[p] \/ wt'[p] = Run(wt[p], o, store, fault[p])
      BY <3>1
    <3> HIDE DEF Run
    <3>3. \A p \in Paths : \/ wt'[p] = wt[p]
                           \/ \E x \in Oids : \E have, f : wt'[p] = Run(wt[p], x, have, f)
      BY <3>2
    <3> QED BY <1>8, <2>2, <3>3
  <2> QED BY <1>9, <2>3, <2>4, <2>5, <2>6
<1> QED BY <1>2, <1>3, <1>4, <1>5, <1>6, <1>7, <1>9, FilesTouched

-----------------------------------------------------------------------------
(* fsck *)

\* The scan of HEAD reports what the checkout of HEAD uses.
LEMMA RefOidsHave ==
  ASSUME GitTypes, NEW o \in UsedBy(HEAD)
  PROVE  \E r \in RefOids : r[3] = o
<1> DEFINE q == FirstPath(HeadTree, o)
<1>1. HeadTree \in Trees /\ o \in ObjectsIn(HeadTree) /\ \A p \in Paths : HeadTree[p] = o => p \notin conf.exclude
  BY HeadType DEF UsedBy, UsedIn, HeadTree, LsTree
<1>2. q \in Paths /\ HeadTree[q] = o
  BY <1>1, FirstPathHas
<1>3. o # NoOid
  BY <1>1, TreeOids
<1>4. q \in PathsToPull(HeadTree) /\ FirstPath(HeadTree, HeadTree[q]) = q
  BY <1>1, <1>2, <1>3 DEF PathsToPull
<1> HIDE DEF q
<1>5. <<q, q, HeadTree[q]>> \in RefOids
  BY <1>4 DEF RefOids
<1> QED BY <1>2, <1>5

\* The scan of the index reports what is staged and used, whichever names it misses.
LEMMA ScanIndexHas ==
  ASSUME GitTypes, FileTypes, NEW late \in SUBSET LateNames, NEW o \in UsedIn(Index), FilesFor(o) # {}
  PROVE  \E r \in ScanIndex(late) : r[3] = o
<1> DEFINE p == FirstOf(FilesFor(o))
<1>1. FilesFor(o) \in SUBSET Paths
  BY DEF FilesFor, RevListIndex, DiffIndex
<1>2. p \in FilesFor(o)
  BY <1>1, FirstOfIn
<1> HIDE DEF p
<1>3. p \in RevListIndex /\ Index[p] = o /\ p \in Paths
  BY <1>1, <1>2 DEF FilesFor
<1>4. p \notin conf.exclude
  BY <1>3 DEF UsedIn
<1>5. p \notin late
  BY <1>3 DEF LateNames, p
<1>6. <<FirstOf(FilesFor(Index[p])), p, Index[p]>> \in ScanIndex(late)
  BY <1>3, <1>4, <1>5 DEF ScanIndex
<1> QED BY <1>3, <1>6

\* Every step keeps what fsck knows.
LEMMA CheckedStep ==
  ASSUME TypeOK, Checked, Next
  PROVE  Checked'
<1>0. GitTypes /\ FileTypes /\ FsckType
  BY DEF TypeOK
<1>i. IdleFsck.phase = "idle"
  BY DEF IdleFsck
<1>1. ASSUME UNCHANGED <<fsck, sound>>, damaged' \subseteq damaged
      PROVE  Checked'
  BY <1>1 DEF Checked
<1>2. CASE UNCHANGED <<damaged, fsck, sound>> \/ \E o \in Oids : PruneDelete(o) \/ FetchDownload(o) \/ PullDownload(o)
  <2>1. UNCHANGED <<fsck, sound>> /\ damaged' \subseteq damaged
    BY <1>2 DEF PruneDelete, FetchDownload, PullDownload
  <2> QED BY <1>1, <2>1
<1>3. ASSUME NEW o \in Oids, Damage(o)
      PROVE  Checked'
  <2>1. fsck' = [fsck EXCEPT !.scope = fsck.scope \ {o}]
    BY <1>3 DEF Damage
  <2>2. /\ fsck'.scope = fsck.scope \ {o} /\ fsck'.phase = fsck.phase /\ fsck'.todo = fsck.todo
        /\ fsck'.corrupt = fsck.corrupt
    BY <1>0, <2>1 DEF FsckType
  <2> QED BY <1>3, <2>2 DEF Damage, Checked
<1>4. ASSUME NEW a \in conf.fsckArgs, FsckStart(a[1], a[2])
      PROVE  Checked'
  <2>1. fsck'.phase = "check" /\ fsck'.todo = RefOids /\ fsck'.scope = UsedBy(HEAD)
    BY <1>4 DEF FsckStart, IdleFsck
  <2>2. UNCHANGED <<damaged, sound>>
    BY <1>4 DEF FsckStart
  <2> QED BY <1>0, <2>1, <2>2, RefOidsHave DEF Checked
<1>5. CASE FsckCheck
  <2>1. PICK r \in fsck.todo :
          fsck' = [fsck EXCEPT !.todo = @ \ {r},
                     !.corrupt = IF FsckPointer(r[3]) THEN @ ELSE Append(@, r[3])]
    BY <1>5 DEF FsckCheck
  <2>2. UNCHANGED <<damaged, sound>> /\ fsck.phase = "check"
    BY <1>5 DEF FsckCheck
  <2>3. /\ fsck'.phase = "check" /\ fsck'.scope = fsck.scope /\ fsck'.todo = fsck.todo \ {r}
        /\ fsck'.corrupt = IF FsckPointer(r[3]) THEN fsck.corrupt ELSE Append(fsck.corrupt, r[3])
    BY <1>0, <2>1, <2>2 DEF FsckType
  <2>4. fsck.corrupt \in Seq(Oids) /\ r[3] \in Oids
    BY <1>0 DEF FsckType
  <2>5. /\ Append(fsck.corrupt, r[3]) \in Seq(Oids)
        /\ Len(Append(fsck.corrupt, r[3])) = Len(fsck.corrupt) + 1 /\ Len(fsck.corrupt) \in Nat
        /\ Append(fsck.corrupt, r[3])[Len(fsck.corrupt) + 1] = r[3]
        /\ \A i \in 1..Len(fsck.corrupt) : Append(fsck.corrupt, r[3])[i] = fsck.corrupt[i]
    BY <2>4
  <2>6. r[3] \in damaged => \E i \in 1..Len(fsck'.corrupt) : fsck'.corrupt[i] = r[3]
    BY <2>3, <2>5 DEF FsckPointer
  <2>7. \A o : (\E i \in 1..Len(fsck.corrupt) : fsck.corrupt[i] = o) => \E i \in 1..Len(fsck'.corrupt) : fsck'.corrupt[i] = o
    BY <2>3, <2>5
  <2> QED BY <2>2, <2>3, <2>6, <2>7 DEF Checked
<1>6. CASE FsckIndex
  <2>1. PICK late \in SUBSET LateNames :
          fsck' = [fsck EXCEPT !.todo = ScanIndex(late), !.useIndex = FALSE,
                     !.scope = @ \cup {o \in UsedIn(Index) : FilesFor(o) # {}}]
    BY <1>6 DEF FsckIndex
  <2>2. UNCHANGED <<damaged, sound>> /\ fsck.phase = "check" /\ fsck.todo = {}
    BY <1>6 DEF FsckIndex
  <2>3. /\ fsck'.phase = "check" /\ fsck'.corrupt = fsck.corrupt /\ fsck'.todo = ScanIndex(late)
        /\ fsck'.scope = fsck.scope \cup {o \in UsedIn(Index) : FilesFor(o) # {}}
    BY <1>0, <2>1, <2>2 DEF FsckType
  <2> QED BY <1>0, <2>2, <2>3, ScanIndexHas DEF Checked
<1>7. CASE FsckReport
  <2>1. UNCHANGED damaged /\ fsck.phase = "check" /\ fsck.todo = {} /\ fsck.corrupt \in Seq(Oids)
    BY <1>0, <1>7 DEF FsckReport, FsckType
  <2>2. CASE fsck.corrupt = <<>> /\ FsckOK(fsck)
    <3>1. fsck.scope \cap damaged = {}
      BY <2>1, <2>2 DEF Checked
    <3> QED BY <1>i, <2>1, <2>2, <3>1 DEF FsckOK, Checked
  <2>3. CASE fsck.corrupt # <<>> /\ UNCHANGED sound /\ fsck' = IF fsck.dryRun THEN IdleFsck ELSE [fsck EXCEPT !.phase = "repair"]
    BY <1>0, <1>i, <2>1, <2>3 DEF Checked, FsckType
  <2> QED BY <1>7, <2>2, <2>3 DEF FsckReport
<1>8. CASE FsckRepair
  <2> DEFINE o == Head(fsck.corrupt)
             rest == [fsck EXCEPT !.corrupt = Tail(@)]
  <2>1. fsck.phase = "repair" /\ fsck.todo = {} /\ fsck.corrupt # <<>> /\ fsck.corrupt \in Seq(Oids)
    BY <1>0, <1>8 DEF FsckRepair, FsckType, Checked
  <2>2. \A i \in 1..Len(fsck.corrupt) :
          fsck.corrupt[i] = o \/ \E j \in 1..Len(Tail(fsck.corrupt)) : Tail(fsck.corrupt)[j] = fsck.corrupt[i]
    <3> SUFFICES ASSUME NEW i \in 1..Len(fsck.corrupt), fsck.corrupt[i] # o
                 PROVE  \E j \in 1..Len(Tail(fsck.corrupt)) : Tail(fsck.corrupt)[j] = fsck.corrupt[i]
      OBVIOUS
    <3>1. i # 1 /\ Len(fsck.corrupt) \in Nat
      BY <2>1
    <3>2. i - 1 \in 1..Len(Tail(fsck.corrupt)) /\ Tail(fsck.corrupt)[i - 1] = fsck.corrupt[i]
      BY <2>1, <3>1
    <3> QED BY <3>2
  <2>3. /\ rest.phase = "repair" /\ rest.todo = {} /\ rest.scope = fsck.scope /\ rest.corrupt = Tail(fsck.corrupt)
    BY <1>0, <2>1 DEF FsckType
  <2>4. \A x \in fsck.scope \cap (damaged \ {o}) : \E j \in 1..Len(rest.corrupt) : rest.corrupt[j] = x
    <3>1. \A x \in fsck.scope \cap damaged : \E i \in 1..Len(fsck.corrupt) : fsck.corrupt[i] = x
      BY <2>1 DEF Checked
    <3> HIDE DEF o, rest
    <3> QED BY <2>2, <2>3, <3>1
  <2>5. \/ damaged' = damaged \ {o} /\ rest.corrupt = <<>> /\ FsckOK(rest)
        \/ damaged' = damaged \ {o} /\ rest.corrupt # <<>> /\ fsck' = rest /\ UNCHANGED sound
        \/ fsck' = IdleFsck /\ UNCHANGED <<damaged, sound>>
    BY <1>8 DEF FsckRepair
  <2> HIDE DEF o, rest
  <2>6. CASE damaged' = damaged \ {o} /\ rest.corrupt = <<>> /\ FsckOK(rest)
    <3>1. fsck.scope \cap (damaged \ {o}) = {}
      BY <2>4, <2>6
    <3> QED BY <1>i, <2>3, <2>6, <3>1 DEF FsckOK, Checked
  <2>7. CASE damaged' = damaged \ {o} /\ rest.corrupt # <<>> /\ fsck' = rest /\ UNCHANGED sound
    BY <2>3, <2>4, <2>7 DEF Checked
  <2>8. CASE fsck' = IdleFsck /\ UNCHANGED <<damaged, sound>>
    BY <1>i, <2>8 DEF Checked
  <2> QED BY <2>5, <2>6, <2>7, <2>8
<1> QED BY <1>2, <1>3, <1>4, <1>5, <1>6, <1>7, <1>8, FsckTouched

-----------------------------------------------------------------------------
(* Push *)

\* What is held is held by one of the commits.
LEMMA HeldByOne ==
  ASSUME NEW cs, NEW C, NEW o \in Held(cs, C)
  PROVE  \E c \in C \ {0} : o \in Held(cs, {c})
<1>1. PICK d \in From(cs, C) : o \in ObjectsIn(cs[d].tree)
  BY DEF Held
<1>2. PICK c \in C \ {0} : d \in AncestorsIn(cs)[c]
  BY DEF From
<1>3. d \in From(cs, {c})
  BY <1>2 DEF From
<1> QED BY <1>1, <1>3 DEF Held

\* The range scan misses only what the commits it leaves out hold.
LEMMA RangeToRemote ==
  ASSUME NEW tip, NEW bases, NEW skipped
  PROVE  Held(commits, {tip}) \subseteq
           ScanRangeToRemote(tip, bases, skipped)
             \cup Held(commits, bases \cup IF skipped = {} THEN TrackingTips ELSE skipped)
<1> DEFINE X == bases \cup IF skipped = {} THEN TrackingTips ELSE skipped
           out == Reach(X)
           in == Reach({tip}) \ out
           edge == out \cap UNION {Range(commits[c].parents) : c \in in}
<1>1. ScanRangeToRemote(tip, bases, skipped) = Objects(in) \ Objects(edge)
  BY DEF ScanRangeToRemote
<1>2. Objects(Reach({tip})) \subseteq Objects(in) \cup Objects(out)
  BY DEF Objects
<1>3. Objects(edge) \subseteq Objects(out)
  BY DEF Objects
<1>4. Objects(out) = Held(commits, X) /\ Objects(Reach({tip})) = Held(commits, {tip})
  <2> HIDE DEF X
  <2> QED BY ReachIs
<1> QED BY <1>1, <1>2, <1>3, <1>4

\* A commit leaves what the refs hold.
LEMMA HeldAfterCommit ==
  ASSUME GitTypes, FileTypes, Commit \/ \E b \in Branches : Merge(b)
  PROVE  \A C \in SUBSET Numbers : From(commits', C) = From(commits, C) /\ Held(commits', C) = Held(commits, C)
<1>1. /\ IsHistory(commits) /\ IsHistory(commits') /\ Len(commits') = Len(commits) + 1
      /\ \A c \in 1..Len(commits) : commits'[c] = commits[c]
  BY CommitGrows DEF GitTypes
<1> QED BY <1>1, HeldStays DEF Numbers

\* The refs of the remote are tracked.
LEMMA RemoteIsTracked ==
  ASSUME GitTypes, Published
  PROVE  Range(remote) \ {0} \subseteq Range(tracking)
BY DEF GitTypes, Published, Range

\* The steps of the repository, of the remote and of push keep what is on the server.
LEMMA PushStep ==
  ASSUME TypeOK, Published, Pushing, Next
  PROVE  Published' /\ Pushing'
<1>0. GitTypes /\ FileTypes /\ PushType
  BY DEF TypeOK
<1>r. /\ Range(remote) \subseteq Numbers /\ Range(tracking) \subseteq Numbers
      /\ Range(remote) \ {0} \subseteq Range(tracking)
  BY <1>0, RefsAreNumbers, RemoteIsTracked
<1>i. IdlePush.kind = "none"
  BY DEF IdlePush
<1>1. CASE UNCHANGED <<conf, commits, remote, tracking, server, ever, blind, push>>
  BY <1>1 DEF Published, Pushing, TrackingTips
<1>2. CASE Commit \/ \E b \in Branches : Merge(b)
  <2>1. UNCHANGED <<conf, remote, tracking, server, ever, blind, push>>
    BY <1>2 DEF Commit, Merge, refVars
  <2>2. \A C \in SUBSET Numbers : Held(commits', C) = Held(commits, C)
    BY <1>0, <1>2, HeldAfterCommit
  <2>3. /\ Held(commits', Range(remote)) = Held(commits, Range(remote))
        /\ Held(commits', Range(tracking)) = Held(commits, Range(tracking))
    BY <1>r, <2>2
  <2>4. Published'
    BY <2>1, <2>3 DEF Published
  <2>5. \A b \in Branches : push.tip[b] \in Numbers
    BY <1>0 DEF PushType
  <2>6. \A b \in Branches : Held(commits', {push.tip[b]}) = Held(commits, {push.tip[b]})
    BY <2>2, <2>5
  <2>7. push.updates \subseteq Branches
    BY <1>0 DEF PushType
  <2>8. Pushing'
    BY <2>1, <2>6, <2>7 DEF Pushing, TrackingTips
  <2> QED BY <2>4, <2>8
<1>3. ASSUME NEW b \in Branches, DeleteRemoteBranch(b)
      PROVE  Published' /\ Pushing'
  <2>1. /\ push'.kind = "none" /\ UNCHANGED <<conf, commits, tracking, server, ever, blind>>
        /\ remote' = [remote EXCEPT ![b] = 0]
    BY <1>3 DEF DeleteRemoteBranch, RemoteIdle, gitVars, history
  <2>2. Range(remote') \ {0} \subseteq Range(remote)
    BY <1>0, <2>1 DEF GitTypes, Range
  <2>3. Held(commits, Range(remote')) \subseteq Held(commits, Range(remote))
    BY <2>2, FromMonotone
  <2>4. \A c \in Branches : remote'[c] # 0 => remote[c] # 0 /\ remote'[c] = remote[c]
    BY <1>0, <2>1 DEF GitTypes
  <2> QED BY <2>1, <2>3, <2>4 DEF Published, Pushing
<1>4. CASE CollectGarbage
  <2>1. /\ push'.kind = "none" /\ UNCHANGED <<conf, commits, remote, tracking, ever, blind>>
        /\ server' = server \cap Held(commits, Range(remote))
    BY <1>4, ReachIs DEF CollectGarbage, RemoteIdle, gitVars, refVars, history
  <2> QED BY <2>1 DEF Published, Pushing
<1>5. CASE GitFetchPrune
  <2>1. /\ push'.kind = "none" /\ UNCHANGED <<conf, commits, remote, server, ever, blind>>
        /\ tracking' = remote
    BY <1>5 DEF GitFetchPrune, RemoteIdle, gitVars
  <2>2. Held(commits, Range(remote)) \subseteq Held(commits, Range(tracking))
    BY <1>r, FromMonotone
  <2> QED BY <2>1, <2>2 DEF Published, Pushing
<1>6. ASSUME NEW kind, NEW B \in SUBSET Branches, StartPush(kind, B, RightSides(B)) \/ (kind # "hook" /\ StartPush(kind, B, {}))
      PROVE  Published' /\ Pushing'
  <2>1. UNCHANGED <<conf, commits, remote, tracking, server, ever>>
    BY <1>6 DEF StartPush, gitVars, refVars
  <2>2. PICK listed \in RemoteRefs : \E bases :
          /\ kind = "hook" => bases = RightSides(B)
          /\ push' = [IdlePush EXCEPT !.kind = kind, !.updates = B, !.refs = B, !.tip = branch,
                                      !.bases = bases, !.skipped = calcSkippedRefs(listed)]
          /\ blind' = (blind \/ (kind = "hook" /\ calcSkippedRefs(listed) = {} /\ TrackingTips # {}))
    BY <1>6 DEF StartPush
  <2>3. Published'
    BY <2>1, <2>2 DEF Published
  <2>4. /\ push'.kind = kind /\ push'.updates = B /\ push'.refs = B
        /\ kind = "hook" => push'.bases = RightSides(B)
        /\ push'.skipped = calcSkippedRefs(listed) /\ push'.uploaded = {}
    BY <2>2 DEF IdlePush
  <2>5. RightSides(B) \subseteq Range(remote)
    BY <1>0 DEF RightSides, GitTypes, Range
  <2>6. calcSkippedRefs(listed) \subseteq Range(tracking)
    BY <1>0 DEF calcSkippedRefs, GitTypes, Range
  <2>7. calcSkippedRefs(listed) \subseteq Range(remote)
    <3>1. listed = remote \/ listed = NoRefs
      BY <2>2 DEF RemoteRefs
    <3>2. CASE listed = remote
      BY <1>0, <3>2 DEF calcSkippedRefs, GitTypes, Range, Published
    <3>3. CASE listed = NoRefs
      BY <3>3 DEF calcSkippedRefs, NoRefs
    <3> QED BY <3>1, <3>2, <3>3
  <2>8. TrackingTips' = TrackingTips
    BY <2>1 DEF TrackingTips
  <2> HIDE DEF TrackingTips
  <2>9. Pushing'
    BY <2>1, <2>2, <2>4, <2>5, <2>6, <2>7, <2>8 DEF Pushing
  <2> QED BY <2>3, <2>9
<1>7. CASE (\E B \in SUBSET Branches : PrePush(B)) \/ \E all \in BOOLEAN : LfsPush(all)
  BY <1>6, <1>7 DEF PrePush, LfsPush, lfsPushRefs
<1>8. ASSUME NEW b \in Branches, PushScan(b)
      PROVE  Published' /\ Pushing'
  <2> DEFINE X == push.bases \cup IF push.skipped = {} THEN TrackingTips ELSE push.skipped
             tip == push.tip[b]
             found == (IF push.kind = "all" THEN ScanRefWithDeleted(tip)
                       ELSE ScanRangeToRemote(tip, push.bases, push.skipped)) \ push.uploaded
  <2>1. UNCHANGED <<conf, commits, remote, tracking, server, ever, blind>>
    BY <1>8 DEF PushScan, gitVars, refVars, history
  <2>2. Published'
    BY <2>1 DEF Published
  <2>3. push' = [push EXCEPT !.queue = found, !.uploaded = @ \cup found, !.refs = @ \ {b}] /\ push.queue = {}
    BY <1>8 DEF PushScan
  <2> HIDE DEF found
  <2>4. /\ push'.kind = push.kind /\ push'.updates = push.updates /\ push'.refs = push.refs \ {b}
        /\ push'.bases = push.bases /\ push'.skipped = push.skipped /\ push'.tip = push.tip
        /\ push'.uploaded = push.uploaded \cup found /\ push'.queue = found
        /\ push'.missing = push.missing /\ push'.err = push.err
    BY <1>0, <2>3 DEF PushType
  <2>5. SUFFICES ASSUME push.kind = "hook" PROVE Pushing'
    BY <2>2, <2>4 DEF Pushing
  <2>6. Held(commits, {tip}) \subseteq push'.uploaded \cup Held(commits, X)
    <3>1. ScanRangeToRemote(tip, push.bases, push.skipped) \subseteq push'.uploaded
      BY <2>4, <2>5 DEF found
    <3> QED BY <3>1, RangeToRemote
  <2>7. X \ {0} \subseteq Range(tracking) /\ (~blind => X \ {0} \subseteq Range(remote))
    BY <1>r, <2>5 DEF Pushing, TrackingTips
  <2>8. ~conf.allowMissing => Held(commits, X) \subseteq ever
    <3> HIDE DEF X
    <3>1. Held(commits, X) \subseteq Held(commits, Range(tracking))
      BY <2>7, FromMonotone
    <3> QED BY <3>1 DEF Published
  <2>9. ~conf.allowMissing /\ ~blind => Held(commits, X) \subseteq server
    <3> HIDE DEF X
    <3>1. ~blind => Held(commits, X) \subseteq Held(commits, Range(remote))
      BY <2>7, FromMonotone
    <3> QED BY <3>1 DEF Published
  <2>10. /\ ~conf.allowMissing => Held(commits, {tip}) \subseteq ever \cup push'.uploaded
         /\ ~conf.allowMissing /\ ~blind => Held(commits, {tip}) \subseteq server \cup push'.uploaded
    BY <2>6, <2>8, <2>9
  <2>11. TrackingTips' = TrackingTips
    BY <2>1 DEF TrackingTips
  <2> HIDE DEF X, TrackingTips
  <2> QED BY <2>1, <2>3, <2>4, <2>5, <2>10, <2>11 DEF Pushing
<1>9. ASSUME NEW o \in Oids, PushUpload(o) \/ PushUploadFails(o)
      PROVE  Published' /\ Pushing'
  <2>1. UNCHANGED <<conf, commits, remote, tracking, blind>> /\ server \subseteq server' /\ ever \subseteq ever'
    BY <1>9 DEF PushUpload, PushUploadFails, gitVars, refVars, history
  <2>2. server' \subseteq ever'
    BY <1>9 DEF PushUpload, PushUploadFails, history, Published
  <2>3. Published'
    BY <2>1, <2>2 DEF Published
  <2>4. /\ push'.kind = push.kind /\ push'.updates = push.updates /\ push'.refs = push.refs
        /\ push'.bases = push.bases /\ push'.skipped = push.skipped /\ push'.tip = push.tip
        /\ push'.uploaded = push.uploaded /\ push'.queue = push.queue \ {o}
    BY <1>0, <1>9 DEF PushUpload, PushUploadFails, PushType
  <2>5. ~push'.missing /\ ~push'.err => ~push.missing /\ ~push.err /\ o \in server'
    BY <1>0, <1>9 DEF PushUpload, PushUploadFails, PushType
  <2>6. TrackingTips' = TrackingTips
    BY <2>1 DEF TrackingTips
  <2> HIDE DEF TrackingTips
  <2>7. Pushing'
    BY <2>1, <2>4, <2>5, <2>6 DEF Pushing
  <2> QED BY <2>3, <2>7
<1>10. CASE PushEnd
  <2>1. UNCHANGED <<conf, commits, server, ever, blind>> /\ push' = IdlePush
    BY <1>10 DEF PushEnd, gitVars
  <2>2. Pushing'
    BY <1>i, <2>1 DEF Pushing
  <2>3. CASE UNCHANGED refVars
    BY <2>1, <2>2, <2>3 DEF Published, refVars
  <2>4. CASE /\ push.kind = "hook" /\ HookSucceeds
             /\ remote' = [b \in Branches |-> IF b \in push.updates THEN push.tip[b] ELSE remote[b]]
             /\ tracking' = [b \in Branches |-> IF b \in push.updates THEN push.tip[b] ELSE tracking[b]]
    <3>1. push.refs = {} /\ push.queue = {} /\ push.updates \subseteq Branches
      BY <1>0, <1>10 DEF PushEnd, PushType
    <3>2. ~conf.allowMissing => push.uploaded \subseteq server
      BY <2>4, <3>1 DEF HookSucceeds, Pushing
    <3>3. /\ ~conf.allowMissing => \A b \in push.updates : Held(commits, {push.tip[b]}) \subseteq ever
          /\ ~conf.allowMissing /\ ~blind => \A b \in push.updates : Held(commits, {push.tip[b]}) \subseteq server
      BY <2>4, <3>1, <3>2 DEF Pushing, Published
    <3>4. \A b \in Branches : remote'[b] # 0 => tracking'[b] = remote'[b]
      BY <2>4 DEF Published
    <3>5. ASSUME ~conf.allowMissing PROVE Held(commits, Range(tracking')) \subseteq ever
      <4> SUFFICES ASSUME NEW o \in Held(commits, Range(tracking')) PROVE o \in ever
        OBVIOUS
      <4>1. PICK c \in Range(tracking') : o \in Held(commits, {c})
        BY HeldByOne
      <4>2. (\E b \in push.updates : c = push.tip[b]) \/ c \in Range(tracking)
        BY <1>0, <2>4, <4>1 DEF GitTypes, Range
      <4>3. c \in Range(tracking) => Held(commits, {c}) \subseteq Held(commits, Range(tracking))
        BY FromMonotone
      <4> QED BY <3>3, <3>5, <4>1, <4>2, <4>3 DEF Published
    <3>6. ASSUME ~conf.allowMissing, ~blind PROVE Held(commits, Range(remote')) \subseteq server
      <4> SUFFICES ASSUME NEW o \in Held(commits, Range(remote')) PROVE o \in server
        OBVIOUS
      <4>1. PICK c \in Range(remote') : o \in Held(commits, {c})
        BY HeldByOne
      <4>2. (\E b \in push.updates : c = push.tip[b]) \/ c \in Range(remote)
        BY <1>0, <2>4, <4>1 DEF GitTypes, Range
      <4>3. c \in Range(remote) => Held(commits, {c}) \subseteq Held(commits, Range(remote))
        BY FromMonotone
      <4> QED BY <3>3, <3>6, <4>1, <4>2, <4>3 DEF Published
    <3>7. Published'
      BY <2>1, <3>4, <3>5, <3>6 DEF Published
    <3> QED BY <2>2, <3>7
  <2> QED BY <1>10, <2>3, <2>4 DEF PushEnd
<1> QED BY <1>1, <1>2, <1>3, <1>4, <1>5, <1>7, <1>8, <1>9, <1>10, PushTouched

-----------------------------------------------------------------------------
(* Prune *)

\* An object that a history holds was added by one of its commits, unless a merge introduced
\* an object: the oldest commit with it is not a merge that has it from a parent.
LEMMA Origin ==
  ASSUME GitTypes, NEW C \in SUBSET Numbers, NEW o \in Held(commits, C) \ MergeObjects
  PROVE  \E c \in From(commits, C) : o \in Additions(c)
<1> DEFINE S == {c \in From(commits, C) : o \in ObjectsIn(commits[c].tree)}
<1>1. /\ IsHistory(commits) /\ From(commits, C) \in SUBSET (1..Len(commits)) /\ Len(commits) \in Nat
      /\ \A c \in From(commits, C) : Range(commits[c].parents) \subseteq From(commits, C)
  BY FromFacts, HeadType DEF GitTypes, Numbers
<1>2. S \subseteq Nat /\ S # {}
  BY <1>1 DEF Held
<1>3. PICK c \in S : \A d \in S : ~(<<d, c>> \in Less)
  <2> HIDE DEF S
  <2>1. PICK b : b \in S
    BY <1>2
  <2> QED BY <1>2, <2>1, WFMin, LessWellFounded, Zenon
<1>4. c \in 1..Len(commits) /\ commits[c].tree \in Trees /\ commits[c].parents \in Seq(Nat) /\ o # NoOid
  BY <1>1, CommitType DEF ObjectsIn
<1>5. \A p \in Range(commits[c].parents) : o \notin ObjectsIn(commits[p].tree)
  <2> SUFFICES ASSUME NEW p \in Range(commits[c].parents), o \in ObjectsIn(commits[p].tree) PROVE FALSE
    OBVIOUS
  <2>1. p \in S
    BY <1>1
  <2>2. p \in Nat /\ c \in Nat /\ p < c
    BY <1>1, <1>4, ParentsBefore
  <2> QED BY <1>3, <2>1, <2>2 DEF Less
<1>6. ~IsMerge(c)
  <2> SUFFICES ASSUME IsMerge(c) PROVE FALSE
    OBVIOUS
  <2>1. o \notin Objects(Range(commits[c].parents))
    BY <1>5 DEF Objects
  <2>2. o \in MergeObjects
    BY <1>4, <2>1 DEF MergeObjects
  <2> QED BY <2>2
<1>7. PICK p \in Paths : commits[c].tree[p] = o
  BY <1>4, TreeOids
<1>8. ParentTree(c)[p] # o
  <2>1. CASE commits[c].parents = <<>>
    BY <1>4, <2>1 DEF ParentTree, EmptyTree
  <2>2. CASE commits[c].parents # <<>>
    <3>1. commits[c].parents[1] \in Range(commits[c].parents)
      BY <1>4, <2>2 DEF Range
    <3>2. commits[c].parents[1] \in 1..Len(commits)
      BY <1>1, <1>4, <3>1, ParentsBefore
    <3>3. commits[commits[c].parents[1]].tree \in Trees
      BY <1>1, <3>2, CommitType
    <3>4. o \notin ObjectsIn(commits[commits[c].parents[1]].tree)
      BY <1>5, <3>1
    <3> QED BY <1>4, <2>2, <3>3, <3>4, TreeOids DEF ParentTree
  <2> QED BY <2>1, <2>2
<1>9. o \in Additions(c)
  BY <1>4, <1>6, <1>7, <1>8 DEF Additions, Diff
<1> QED BY <1>9

\* What the branches need is found as unpushed, or has been on the server.
LEMMA UnpushedFound ==
  ASSUME TypeOK, Published, ~conf.allowMissing
  PROVE  Held(commits, Range(branch)) \ MergeObjects \subseteq ScanUnpushed \cup ever
<1>0. GitTypes /\ Range(branch) \subseteq Numbers /\ Range(tracking) \subseteq Numbers
  BY RefsAreNumbers DEF TypeOK
<1> SUFFICES ASSUME NEW o \in Held(commits, Range(branch)) \ MergeObjects
             PROVE  o \in ScanUnpushed \cup ever
  OBVIOUS
<1>1. PICK c \in From(commits, Range(branch)) : o \in Additions(c)
  BY <1>0, Origin
<1>2. Reach(Tips) = From(commits, Range(branch)) /\ Reach(TrackingTips) = From(commits, Range(tracking))
  BY ReachIs DEF From, Tips, TrackingTips
<1>3. CASE c \in Reach(TrackingTips)
  <2>1. c \in 1..Len(commits)
    BY <1>0, <1>2, <1>3, FromFacts DEF GitTypes, Numbers
  <2>2. o \in ObjectsIn(commits[c].tree)
    <3>1. commits[c].tree \in Trees
      BY <1>0, <2>1, CommitType DEF GitTypes
    <3> QED BY <1>1, <3>1, DiffOids DEF Additions
  <2>3. o \in Held(commits, Range(tracking))
    BY <1>2, <1>3, <2>2 DEF Held
  <2> QED BY <2>3 DEF Published
<1>4. CASE c \notin Reach(TrackingTips)
  BY <1>1, <1>2, <1>4 DEF ScanUnpushed
<1> QED BY <1>3, <1>4

\* What the branches need is found as reachable when nothing is excluded.
LEMMA ReachableFound ==
  ASSUME GitTypes, conf.exclude = {}
  PROVE  Held(commits, Range(branch)) \subseteq ReachableObjects
<1> DEFINE X == Tips \cup TrackingTips \cup {s.base : s \in RefsStash}
<1>1. Range(branch) \ {0} \subseteq X
  BY DEF Tips
<1>2. Held(commits, Range(branch)) \subseteq Objects(Reach(X))
  <2> HIDE DEF X
  <2> QED BY <1>1, ReachIs, FromMonotone
<1>3. Objects(Reach(X)) \subseteq ScanAll({})
  BY DEF ScanAll
<1> QED BY <1>2, <1>3 DEF ReachableObjects

\* What fetch --recent asks for, prune retains, for as many days as the offset.
LEMMA RecentRetained ==
  ASSUME GitTypes, conf.exclude = {}, ~prune.recent, ~prune.force, NEW d \in Nat, day <= d + conf.offset
  PROVE  WantedAt(d) \subseteq RetainedCurrentAndRecentRefs
<1>0. conf.refsDays \in Nat /\ conf.commitsDays \in Nat /\ conf.offset \in Nat /\ day \in Nat
  BY RepositoryAssumption DEF GitTypes, FetchPruneConfig
<1>1. \A c \in Numbers \ {0} : c \in 1..Len(commits) /\ commits[c].tree \in Trees /\ commits[c].day \in Nat
  BY HeadType, CommitType DEF GitTypes, Numbers
<1>2. RecentAt(d) \subseteq RecentTips(RefsDays(prune))
  <2>1. CASE conf.refsDays = 0
    BY <2>1 DEF RecentAt, RecentTips
  <2>2. CASE conf.refsDays > 0
    <3>1. RefsDays(prune) = conf.refsDays + conf.offset /\ RefsDays(prune) > 0
      BY <1>0, <2>2 DEF RefsDays
    <3>2. \A c \in RecentBranches(d - conf.refsDays) : c \in RecentBranches(day - RefsDays(prune))
      <4> SUFFICES ASSUME NEW c \in RecentBranches(d - conf.refsDays)
                   PROVE  CommitDate(c) >= day - RefsDays(prune)
        BY DEF RecentBranches
      <4>1. c \in Numbers \ {0} /\ CommitDate(c) >= d - conf.refsDays
        BY RefsAreNumbers DEF RecentBranches
      <4>2. CommitDate(c) \in Nat
        BY <1>1, <4>1 DEF CommitDate
      <4> QED BY <1>0, <3>1, <4>1, <4>2
    <3> QED BY <3>1, <3>2 DEF RecentAt, RecentTips
  <2> QED BY <1>0, <2>1, <2>2
<1>3. RecentTips(RefsDays(prune)) \subseteq Numbers \ {0}
  BY RecentAreNumbers
<1>4. \A c \in Numbers \ {0} : PointersForRef(c) \subseteq RetainedAtRef(c)
  BY <1>1, TreeOids DEF PointersForRef, ScanTree, LsTree, RetainedAtRef, ScanRef
<1>5. \A c \in Numbers \ {0} : PreviousVersions(c) \subseteq RetainedPrevious(c)
  <2> SUFFICES ASSUME NEW c \in Numbers \ {0} PROVE PreviousVersions(c) \subseteq RetainedPrevious(c)
    OBVIOUS
  <2>1. CommitDate(c) \in Nat /\ \A e \in Reach({c}) : CommitDate(e) \in Nat
    <3>1. Reach({c}) \in SUBSET (1..Len(commits))
      BY ReachType
    <3>2. \A e \in 1..Len(commits) : CommitDate(e) \in Nat
      BY CommitType DEF GitTypes, CommitDate
    <3> QED BY <1>1, <3>1, <3>2
  <2>2. \A e \in Reach({c}) : CommitDate(e) >= CommitDate(c) - conf.commitsDays =>
                              CommitDate(e) >= CommitDate(c) - (conf.commitsDays + conf.offset)
    BY <1>0, <2>1
  <2> QED BY <2>2 DEF PreviousVersions, RetainedPrevious, ScanPreviousVersions
<1> DEFINE R == RecentTips(RefsDays(prune))
           A == UNION {RetainedAtRef(c) : c \in R}
           B == UNION {RetainedPrevious(c) : c \in R}
<1>6. RetainedCurrentAndRecentRefs = A \cup IF conf.commitsDays = 0 THEN {} ELSE B
  BY DEF RetainedCurrentAndRecentRefs
<1>7. UNION {PointersForRef(c) : c \in RecentAt(d)} \subseteq A
  BY <1>2, <1>3, <1>4
<1>8. UNION {PreviousVersions(c) : c \in RecentAt(d)} \subseteq B
  BY <1>2, <1>3, <1>5
<1> HIDE DEF A, B
<1> QED BY <1>6, <1>7, <1>8 DEF WantedAt

\* Keeping holds of a prune that does not run.
LEMMA KeepingIdle ==
  ASSUME prune'.phase = "idle", prune'.force => prune'.recent
  PROVE  Keeping'
BY DEF Keeping, Done

\* Prune keeps what it has retained while the repository does not change; the server may gain
\* objects, and what fetch --recent asked for may be forgotten.
LEMMA KeepingStays ==
  ASSUME Keeping, UNCHANGED <<conf, commits, branch, cur, linked, stash, day, prune>>,
         server \subseteq server', ever \subseteq ever',
         recentFetch' = recentFetch \/ recentFetch' = NoFetch
  PROVE  Keeping'
<1>1. \/ UNCHANGED recentFetch
      \/ recentFetch'.oids = {}
  BY DEF NoFetch
<1> QED BY <1>1 DEF Keeping, Done, ScanStashed, Stashed, HEAD, WorktreeHEADs, RetainedAtRef, ScanRef, MergeObjects,
             IsMerge, Objects

\* A step of prune: more is retained, and a task that ends has retained what it must.
LEMMA KeepingTask ==
  ASSUME TypeOK, Published, Keeping, Recent, NEW t \in prune.todo, PruneTask(t)
  PROVE  Keeping'
<1>0. GitTypes /\ PruneType /\ t \in Tasks
  BY DEF TypeOK, PruneType
<1>1. UNCHANGED <<conf, commits, branch, cur, linked, stash, day, server, ever, recentFetch>>
  BY DEF PruneTask, gitVars, history
<1>2. /\ prune'.phase = prune.phase /\ prune'.force = prune.force /\ prune'.recent = prune.recent
      /\ prune'.verify = prune.verify /\ prune'.todo = prune.todo \ {t} /\ prune.retained \subseteq prune'.retained
      /\ prune'.late = prune.late
      /\ t # "reachable" => prune'.reachable = prune.reachable
  BY <1>0 DEF PruneTask, PruneType, Tasks
<1>3. /\ t = "refs" => RetainedCurrentAndRecentRefs \subseteq prune'.retained
      /\ t = "unpushed" => ScanUnpushed \subseteq prune'.retained
      /\ t = "worktree" => RetainedWorktree \subseteq prune'.retained
      /\ t = "stashed" => ScanStashed \subseteq prune'.retained
      /\ t = "reachable" => prune'.reachable = ReachableObjects
  BY <1>0 DEF PruneTask, PruneType, Tasks, RetainedUnpushed, RetainedStashed
<1>4. prune.phase # "delete"
  BY DEF Keeping
<1>5. t = "stashed" => ScanStashed \subseteq prune'.retained
  BY <1>3
<1>6. t = "refs" /\ ~prune.force => RetainedAtRef(HEAD) \subseteq prune'.retained
  <2>1. HEAD \in RecentTips(RefsDays(prune))
    BY <1>0, RecentAreNumbers
  <2> HIDE DEF HEAD, RecentTips
  <2>2. ~prune.force => RetainedAtRef(HEAD) \subseteq RetainedCurrentAndRecentRefs
    BY <2>1 DEF RetainedCurrentAndRecentRefs
  <2> QED BY <1>3, <2>2
<1>7. t = "worktree" /\ ~prune.force =>
        \A c \in WorktreeHEADs \ {HEAD} : RetainedAtRef(c) \subseteq prune'.retained
  BY <1>3 DEF RetainedWorktree
<1>8. ~conf.allowMissing /\ t = "unpushed" =>
        Held(commits, Range(branch)) \ MergeObjects \subseteq prune'.retained \cup ever
  BY <1>3, UnpushedFound
<1>9. conf.exclude = {} /\ t = "reachable" => Held(commits, Range(branch)) \subseteq prune'.reachable
  BY <1>0, <1>3, ReachableFound
<1>10. t = "refs" /\ ~prune.recent /\ conf.exclude = {} /\ day <= recentFetch.day + conf.offset =>
         recentFetch.oids \subseteq prune'.retained
  <2> SUFFICES ASSUME t = "refs", ~prune.recent, conf.exclude = {}, day <= recentFetch.day + conf.offset
               PROVE  recentFetch.oids \subseteq prune'.retained
    OBVIOUS
  <2>1. PICK d \in Nat : recentFetch.day = d /\ recentFetch.oids \subseteq WantedAt(d)
    BY DEF Recent
  <2>2. ~prune.force
    BY DEF Keeping
  <2>3. WantedAt(d) \subseteq RetainedCurrentAndRecentRefs
    BY <1>0, <2>1, <2>2, RecentRetained
  <2> QED BY <1>3, <2>1, <2>3
<1> DEFINE K(pr) ==
      /\ pr.phase # "idle" /\ "stashed" \notin pr.todo => ScanStashed \subseteq pr.retained \cup pr.late
      /\ ~pr.force /\ pr.phase # "idle" /\ "refs" \notin pr.todo =>
           RetainedAtRef(HEAD) \subseteq pr.retained \cup pr.late
      /\ ~pr.force /\ pr.phase # "idle" /\ "worktree" \notin pr.todo =>
           \A c \in WorktreeHEADs \ {HEAD} : RetainedAtRef(c) \subseteq pr.retained \cup pr.late
      /\ ~conf.allowMissing /\ pr.phase # "idle" /\ "unpushed" \notin pr.todo =>
           Held(commits, Range(branch)) \ MergeObjects \subseteq pr.retained \cup ever \cup pr.late
      /\ pr.verify /\ conf.exclude = {} /\ pr.phase # "idle" /\ "reachable" \notin pr.todo =>
           Held(commits, Range(branch)) \subseteq pr.reachable \cup pr.late
      /\ pr.phase # "idle" /\ "refs" \notin pr.todo /\ ~pr.recent /\ conf.exclude = {}
           /\ day <= recentFetch.day + conf.offset => recentFetch.oids \subseteq pr.retained
<1>11. K(prune)
  BY DEF Keeping, Done
<1>12. K(prune')
  <2> HIDE DEF HEAD, WorktreeHEADs, MergeObjects, ScanStashed, RetainedAtRef
  <2> QED BY <1>2, <1>5, <1>6, <1>7, <1>8, <1>9, <1>10, <1>11
<1>13. prune'.force => prune'.recent
  BY <1>2 DEF Keeping
<1> QED BY <1>1, <1>2, <1>4, <1>12, <1>13 DEF Keeping, Done, ScanStashed, Stashed, HEAD, WorktreeHEADs, RetainedAtRef, ScanRef,
             MergeObjects, IsMerge, Objects

\* What the user takes into use, or leaves, while prune runs comes late.
LEMMA KeepingLate ==
  ASSUME PruneType, Keeping, UNCHANGED <<conf, server, ever, day>>, NEW X, DuringPrune(X),
         recentFetch' = recentFetch \/ recentFetch' = NoFetch,
         ScanStashed' \subseteq ScanStashed \cup X,
         RetainedAtRef(HEAD)' \subseteq RetainedAtRef(HEAD) \cup X,
         \A c \in WorktreeHEADs' \ {HEAD'} :
           \/ RetainedAtRef(c)' \subseteq X
           \/ c \in WorktreeHEADs \ {HEAD} /\ RetainedAtRef(c)' = RetainedAtRef(c),
         Held(commits', Range(branch')) \subseteq Held(commits, Range(branch)) \cup X,
         MergeObjects \subseteq MergeObjects'
  PROVE  Keeping'
<1>1. CASE prune.phase = "idle"
  BY <1>1, KeepingIdle DEF DuringPrune, Keeping
<1>2. CASE prune.phase # "idle"
  <2>1. /\ prune'.phase = prune.phase /\ prune'.prunable = prune.prunable /\ prune'.force = prune.force
        /\ prune'.recent = prune.recent /\ prune'.verify = prune.verify /\ prune'.todo = prune.todo
        /\ prune'.retained = prune.retained /\ prune'.reachable = prune.reachable
        /\ prune'.late = prune.late \cup X
    BY <1>2 DEF DuringPrune, PruneType
  <2>2. \/ UNCHANGED recentFetch
        \/ recentFetch'.oids = {}
    BY DEF NoFetch
  <2> HIDE DEF ScanStashed, WorktreeHEADs, HEAD, MergeObjects
  <2>3. \A t : Done(t)' = Done(t)
    BY <2>1 DEF Done
  <2>4. Done("stashed")' => ScanStashed' \subseteq prune'.retained \cup prune'.late
    BY <2>1, <2>3 DEF Keeping
  <2>5. ~prune'.force /\ Done("refs")' => RetainedAtRef(HEAD)' \subseteq prune'.retained \cup prune'.late
    BY <2>1, <2>3 DEF Keeping
  <2>6. ASSUME ~prune'.force, Done("worktree")', NEW c \in WorktreeHEADs' \ {HEAD'}
        PROVE  RetainedAtRef(c)' \subseteq prune'.retained \cup prune'.late
    BY <2>1, <2>3, <2>6 DEF Keeping
  <2>7. ~conf.allowMissing /\ Done("unpushed")' =>
          Held(commits', Range(branch')) \ MergeObjects' \subseteq prune'.retained \cup ever \cup prune'.late
    BY <2>1, <2>3 DEF Keeping
  <2>8. prune'.verify /\ conf.exclude = {} /\ Done("reachable")' =>
          Held(commits', Range(branch')) \subseteq prune'.reachable \cup prune'.late
    BY <2>1, <2>3 DEF Keeping
  <2>9. Done("refs")' /\ ~prune'.recent /\ conf.exclude = {} /\ day <= recentFetch'.day + conf.offset =>
          recentFetch'.oids \subseteq prune'.retained
    BY <2>1, <2>2, <2>3 DEF Keeping
  <2>10. /\ prune'.force => prune'.recent
         /\ prune'.phase = "delete" =>
              /\ prune'.todo = {} /\ prune'.prunable \cap prune'.retained = {}
              /\ prune'.verify => prune'.prunable \cap prune'.reachable \subseteq server'
    BY <2>1 DEF Keeping
  <2> QED BY <2>4, <2>5, <2>6, <2>7, <2>8, <2>9, <2>10 DEF Keeping
<1> QED BY <1>1, <1>2

\* A scan of a commit reports objects of its tree.
LEMMA RetainedIsHeld ==
  ASSUME NEW c
  PROVE  RetainedAtRef(c) \subseteq ObjectsIn(commits[c].tree)
BY DEF RetainedAtRef, ScanRef

\* After a commit or a merge.
LEMMA KeepingCommit ==
  ASSUME TypeOK, Keeping, Commit \/ \E b \in Branches : Merge(b)
  PROVE  Keeping'
<1>0. GitTypes /\ FileTypes /\ PruneType
  BY DEF TypeOK
<1>1. PICK parents \in Seq(1..Len(commits)), tree \in Trees :
        NewCommit(parents, tree) /\ Range(parents) \subseteq Range(branch)
  BY <1>0, CommitAppends
<1> DEFINE n == Len(commits)
           X == ObjectsIn(tree) \cup ObjectsIn(HeadTree)
<1>2. UNCHANGED <<conf, cur, linked, stash, day, server, ever>>
  BY DEF Commit, Merge
<1>3. /\ n \in Nat /\ Len(commits') = n + 1 /\ IsHistory(commits) /\ IsHistory(commits')
      /\ \A c \in 1..n : commits'[c] = commits[c]
      /\ branch' = [branch EXCEPT ![cur] = n + 1] /\ recentFetch' = NoFetch
  BY <1>0, CommitGrows DEF GitTypes
<1>4. /\ HEAD' = n + 1 /\ commits'[n + 1].tree = tree /\ commits'[n + 1].parents = parents
      /\ HEAD \in 1..n /\ cur \in Branches
  <2>1. HEAD' = n + 1 /\ cur \in Branches
    BY <1>0, <1>2, <1>3 DEF HEAD, GitTypes
  <2>2. HeadTree' = tree
    BY <1>0, <1>1, <1>2, NewHead
  <2>3. HeadTree' = commits'[HEAD'].tree
    BY DEF HeadTree, LsTree
  <2>4. commits'[n + 1] = [parents |-> parents, tree |-> tree, day |-> day]
    BY <1>1, <1>3 DEF NewCommit, IsHistory
  <2> QED BY <1>0, <2>1, <2>2, <2>3, <2>4, HeadType
<1>5. DuringPrune(X)
  BY <1>1 DEF NewCommit, HeadMoves
<1>6. \A c \in 1..n : RetainedAtRef(c)' = RetainedAtRef(c)
  BY <1>2, <1>3 DEF RetainedAtRef, ScanRef
<1>7. ScanStashed' = ScanStashed
  <2>1. \A x \in Stashed : x.base \in 1..n
    BY <1>0, <1>3, StashTypes DEF Numbers
  <2>2. Stashed' = Stashed
    BY <1>2 DEF Stashed
  <2>3. \A x \in Stashed : commits'[x.base] = commits[x.base]
    BY <1>3, <2>1
  <2> HIDE DEF Stashed
  <2> QED BY <2>2, <2>3 DEF ScanStashed
<1>8. RetainedAtRef(HEAD)' \subseteq X
  <2>1. RetainedAtRef(HEAD)' \subseteq ObjectsIn(commits'[HEAD'].tree)
    BY DEF RetainedAtRef, ScanRef
  <2> QED BY <1>4, <2>1
<1>9. ASSUME NEW c \in WorktreeHEADs' \ {HEAD'}
      PROVE  RetainedAtRef(c)' \subseteq X \/ (c \in WorktreeHEADs \ {HEAD} /\ RetainedAtRef(c)' = RetainedAtRef(c))
  <2>1. c = linked /\ c # 0
    BY <1>2 DEF WorktreeHEADs
  <2>2. c \in 1..n
    BY <1>0, <1>3, <2>1 DEF GitTypes, Numbers
  <2>3. RetainedAtRef(c)' = RetainedAtRef(c)
    BY <1>6, <2>2
  <2>4. CASE c = HEAD
    <3>1. RetainedAtRef(c) \subseteq ObjectsIn(HeadTree)
      BY <2>4, RetainedIsHeld DEF HeadTree, LsTree
    <3> QED BY <2>3, <3>1
  <2>5. CASE c # HEAD
    BY <2>1, <2>3, <2>5 DEF WorktreeHEADs
  <2> QED BY <2>4, <2>5
<1>10. Held(commits', Range(branch')) \subseteq Held(commits, Range(branch)) \cup X
  <2> SUFFICES ASSUME NEW o \in Held(commits', Range(branch')) PROVE o \in Held(commits, Range(branch)) \cup X
    OBVIOUS
  <2>1. PICK d \in From(commits', Range(branch')) : o \in ObjectsIn(commits'[d].tree)
    BY DEF Held
  <2>2. CASE d = n + 1
    BY <1>4, <2>1, <2>2
  <2>3. CASE d # n + 1
    <3>1. PICK c \in Range(branch') \ {0} : d \in AncestorsIn(commits')[c]
      BY DEF From
    <3>2. Range(branch') \subseteq 0..Len(commits')
      BY <1>0, <1>3 DEF Range, GitTypes, Numbers
    <3>3. c \in 1..Len(commits')
      <4>1. c \in 0..Len(commits') /\ c # 0
        BY <3>2
      <4>2. Len(commits') \in Nat
        BY <1>3
      <4> QED BY <4>1, <4>2
    <3>4. AncestorsIn(commits')[c] = {c} \cup UNION {AncestorsIn(commits')[p] : p \in Range(commits'[c].parents)}
      BY <1>3, <3>3, AncestorsStep
    <3>5. Range(branch) \in SUBSET Numbers
      BY <1>0, RefsAreNumbers
    <3>6. CASE c \in Range(branch)
      <4>1. d \in From(commits', Range(branch))
        BY <3>1, <3>6 DEF From
      <4>2. o \in Held(commits', Range(branch))
        BY <2>1, <4>1 DEF Held
      <4> QED BY <1>0, <3>5, <4>2, HeldAfterCommit
    <3>7. CASE c \notin Range(branch)
      <4>1. c = n + 1
        BY <1>0, <1>3, <3>1, <3>7 DEF Range, GitTypes
      <4>2. PICK p \in Range(commits'[c].parents) : d \in AncestorsIn(commits')[p]
        BY <2>3, <3>1, <3>4, <4>1
      <4>3. Range(commits'[c].parents) \subseteq Range(branch)
        BY <1>1, <1>4, <4>1
      <4>4. p # 0
        BY <1>3, <3>3, <4>2, ParentsBefore
      <4>5. d \in From(commits', Range(branch))
        BY <4>2, <4>3, <4>4 DEF From
      <4>6. o \in Held(commits', Range(branch))
        BY <2>1, <4>5 DEF Held
      <4> QED BY <1>0, <3>5, <4>6, HeldAfterCommit
    <3> QED BY <3>6, <3>7
  <2> QED BY <2>2, <2>3
<1>11. MergeObjects \subseteq MergeObjects'
  <2> SUFFICES ASSUME NEW o \in MergeObjects PROVE o \in MergeObjects'
    OBVIOUS
  <2>1. PICK c \in 1..n : IsMerge(c) /\ o \in ObjectsIn(commits[c].tree) \ Objects(Range(commits[c].parents))
    BY DEF MergeObjects
  <2>2. commits'[c] = commits[c] /\ c \in 1..Len(commits') /\ Range(commits[c].parents) \subseteq 1..n
    BY <1>3, <2>1, ParentsBefore
  <2>3. \A p \in Range(commits[c].parents) : commits'[p] = commits[p]
    BY <1>3, <2>2
  <2>4. o \notin UNION {ObjectsIn(commits'[p].tree) : p \in Range(commits'[c].parents)}
    BY <2>1, <2>2, <2>3 DEF Objects
  <2>5. Len(commits'[c].parents) > 1 /\ o \in ObjectsIn(commits'[c].tree)
    BY <2>1, <2>2 DEF IsMerge
  <2> QED BY <2>2, <2>4, <2>5 DEF MergeObjects, Objects, IsMerge
<1> HIDE DEF X, n
<1> QED BY <1>0, <1>2, <1>3, <1>5, <1>7, <1>8, <1>9, <1>10, <1>11, KeepingLate

\* The steps of the user.
LEMMA KeepingUser ==
  ASSUME TypeOK, Keeping, Recent,
         \/ Stage \/ Commit \/ Stash \/ Tick
         \/ \E b \in Branches : Merge(b) \/ Switch(b) \/ AddWorktree(b)
  PROVE  Keeping'
<1>0. GitTypes /\ FileTypes /\ PruneType
  BY DEF TypeOK
<1>1. CASE Stage
  BY <1>1, KeepingStays DEF Stage, history
<1>2. CASE Commit \/ \E b \in Branches : Merge(b)
  BY <1>2, KeepingCommit
<1>3. CASE Tick
  <2>1. UNCHANGED <<conf, commits, branch, cur, linked, stash, prune, server, ever, recentFetch>> /\ day' = day + 1
    BY <1>3 DEF Tick, history
  <2>2. PICK d \in Nat : recentFetch.day = d
    BY DEF Recent
  <2>3. conf.offset \in Nat /\ day \in Nat
    BY <1>0, RepositoryAssumption DEF GitTypes, FetchPruneConfig
  <2>4. day' <= recentFetch.day + conf.offset => day <= recentFetch.day + conf.offset
    BY <2>1, <2>2, <2>3
  <2> QED BY <2>1, <2>4 DEF Keeping, Done, ScanStashed, Stashed, HEAD, WorktreeHEADs, RetainedAtRef, ScanRef,
             MergeObjects, IsMerge, Objects
<1>4. CASE Stash
  <2> DEFINE idx == conf.script[next]
             wip == conf.script[next + 1]
             new == [base |-> HEAD, idx |-> idx, wip |-> wip]
             X == ObjectsIn(idx) \cup ObjectsIn(wip)
  <2>1. /\ UNCHANGED <<conf, commits, branch, cur, linked, day, server, ever>> /\ recentFetch' = NoFetch
        /\ stash' = Append(stash, new) /\ DuringPrune(X)
    BY <1>4 DEF Stash
  <2>2. idx \in Trees /\ wip \in Trees
    <3>1. next \in Nat \ {0} /\ next + 1 <= Len(conf.script) /\ conf \in Scenarios
      BY <1>0, <1>4 DEF Stash, GitTypes
    <3>2. Len(conf.script) \in Nat
      BY <3>1, RepositoryAssumption
    <3> QED BY <3>1, <3>2, ScriptTrees
  <2>3. new.base = HEAD /\ new.idx = idx /\ new.wip = wip
    OBVIOUS
  <2> HIDE DEF idx, wip, new
  <2>4. \A x \in Stashed' : x \in Stashed \/ x = new
    BY <1>0, <2>1 DEF Stashed, Range, GitTypes
  <2>5. Diff(wip, commits[HEAD].tree) \subseteq X /\ Diff(idx, commits[HEAD].tree) \subseteq X
    BY <2>2, DiffOids
  <2> HIDE DEF X, HEAD, Stashed
  <2>6. ScanStashed' \subseteq ScanStashed \cup X
    BY <2>1, <2>3, <2>4, <2>5 DEF ScanStashed
  <2>7. HEAD' = HEAD /\ WorktreeHEADs' = WorktreeHEADs /\ MergeObjects' = MergeObjects
    BY <2>1 DEF HEAD, WorktreeHEADs, MergeObjects, IsMerge, Objects
  <2>8. \A c : RetainedAtRef(c)' = RetainedAtRef(c)
    BY <2>1 DEF RetainedAtRef, ScanRef
  <2>9. RetainedAtRef(HEAD)' = RetainedAtRef(HEAD)
    BY <2>1, <2>7 DEF RetainedAtRef, ScanRef
  <2> QED BY <1>0, <2>1, <2>6, <2>7, <2>8, <2>9, KeepingLate
<1>5. ASSUME NEW b \in Branches, Switch(b)
      PROVE  Keeping'
  <2> DEFINE tree == commits[branch'[b]].tree
             X == ObjectsIn(tree) \cup ObjectsIn(HeadTree)
  <2>1. /\ UNCHANGED <<conf, commits, linked, stash, day, server, ever>> /\ recentFetch' = NoFetch
        /\ cur' = b /\ branch' = [branch EXCEPT ![b] = IF @ = 0 THEN HEAD ELSE @] /\ DuringPrune(X)
    BY <1>5 DEF Switch, HeadMoves
  <2>2. HEAD' = branch'[b]
    BY <2>1 DEF HEAD
  <2>3. Range(branch') \ {0} \subseteq Range(branch)
    <3> HIDE DEF HEAD
    <3> QED BY <1>0, <2>1, HeadType DEF Range, GitTypes
  <2>4. Held(commits', Range(branch')) \subseteq Held(commits, Range(branch))
    BY <2>1, <2>3, FromMonotone
  <2>5. ScanStashed' = ScanStashed /\ MergeObjects' = MergeObjects
    BY <2>1 DEF ScanStashed, Stashed, MergeObjects, IsMerge, Objects
  <2>6. \A c : RetainedAtRef(c)' = RetainedAtRef(c)
    BY <2>1 DEF RetainedAtRef, ScanRef
  <2>7. RetainedAtRef(HEAD)' \subseteq X
    <3>1. RetainedAtRef(HEAD)' \subseteq ObjectsIn(commits'[HEAD'].tree)
      BY DEF RetainedAtRef, ScanRef
    <3> QED BY <2>1, <2>2, <3>1
  <2>8. ASSUME NEW c \in WorktreeHEADs' \ {HEAD'}
        PROVE  RetainedAtRef(c)' \subseteq X \/ (c \in WorktreeHEADs \ {HEAD} /\ RetainedAtRef(c)' = RetainedAtRef(c))
    <3>1. c = linked /\ c # 0
      BY <2>1 DEF WorktreeHEADs
    <3>2. CASE c = HEAD
      <4>1. RetainedAtRef(c) \subseteq ObjectsIn(HeadTree)
        BY <3>2, RetainedIsHeld DEF HeadTree, LsTree
      <4> QED BY <2>6, <4>1
    <3>3. CASE c # HEAD
      BY <2>6, <3>1, <3>3 DEF WorktreeHEADs
    <3> QED BY <3>2, <3>3
  <2> HIDE DEF X
  <2> QED BY <1>0, <2>1, <2>4, <2>5, <2>7, <2>8, KeepingLate
<1>6. ASSUME NEW b \in Branches, AddWorktree(b)
      PROVE  Keeping'
  <2> DEFINE X == ObjectsIn(LsTree(branch[b]))
  <2>1. /\ UNCHANGED <<conf, commits, branch, cur, stash, day, server, ever, recentFetch>>
        /\ linked' = branch[b] /\ DuringPrune(X)
    BY <1>6 DEF AddWorktree, history
  <2>2. HEAD' = HEAD /\ ScanStashed' = ScanStashed /\ MergeObjects' = MergeObjects
    BY <2>1 DEF HEAD, ScanStashed, Stashed, MergeObjects, IsMerge, Objects
  <2>3. \A c : RetainedAtRef(c)' = RetainedAtRef(c)
    BY <2>1 DEF RetainedAtRef, ScanRef
  <2>4. RetainedAtRef(HEAD)' = RetainedAtRef(HEAD)
    BY <2>1, <2>2 DEF RetainedAtRef, ScanRef
  <2>5. ASSUME NEW c \in WorktreeHEADs' \ {HEAD'}
        PROVE  RetainedAtRef(c)' \subseteq X
    <3>1. c = branch[b]
      BY <2>1, <2>5 DEF WorktreeHEADs
    <3> QED BY <2>3, <3>1, RetainedIsHeld DEF LsTree
  <2> HIDE DEF X
  <2> QED BY <1>0, <2>1, <2>2, <2>4, <2>5, KeepingLate
<1> QED BY <1>1, <1>2, <1>3, <1>4, <1>5, <1>6

\* Every step keeps what prune has retained.
LEMMA KeepingStep ==
  ASSUME TypeOK, Published, Keeping, Recent, Next
  PROVE  Keeping'
<1>0. GitTypes /\ PruneType
  BY DEF TypeOK
<1>i. IdlePrune.phase = "idle" /\ IdlePrune.force = FALSE
  BY DEF IdlePrune
<1>1. CASE UNCHANGED <<conf, commits, branch, cur, linked, stash, day, ever, server, recentFetch, prune>>
  BY <1>1, KeepingStays
<1>2. CASE CollectGarbage \/ GitFetchPrune
  <2>1. prune' = prune /\ prune.phase = "idle"
    BY <1>2 DEF CollectGarbage, GitFetchPrune, RemoteIdle
  <2>2. prune.force => prune.recent
    BY DEF Keeping
  <2> QED BY <2>1, <2>2, KeepingIdle
<1>14. CASE \/ Stage \/ Commit \/ Stash \/ Tick
            \/ \E b \in Branches : Merge(b) \/ Switch(b) \/ AddWorktree(b)
  BY <1>14, KeepingUser
<1>3. ASSUME NEW o \in Oids, PushUpload(o)
      PROVE  Keeping'
  BY <1>3, KeepingStays DEF PushUpload, gitVars
<1>4. CASE PushEnd
  BY <1>4, KeepingStays DEF PushEnd, gitVars
<1>5. ASSUME NEW a \in conf.fetchArgs, FetchStart(a[1], a[2])
      PROVE  Keeping'
  <2>1. UNCHANGED <<conf, commits, branch, cur, linked, stash, day, prune, server, ever>>
        /\ (prune.phase # "idle" => UNCHANGED recentFetch)
    BY <1>5 DEF FetchStart, gitVars
  <2>2. prune.force => prune.recent
    BY DEF Keeping
  <2>3. CASE prune.phase = "idle"
    BY <2>1, <2>2, <2>3, KeepingIdle
  <2>4. CASE prune.phase # "idle"
    BY <2>1, <2>4, KeepingStays
  <2> QED BY <2>3, <2>4
<1>6. ASSUME NEW force, NEW recent, NEW verify, NEW dryRun, StartPrune(force, recent, verify, dryRun)
      PROVE  Keeping'
  <2>1. /\ prune'.phase = "scan" /\ prune'.force = force /\ prune'.verify = verify /\ prune'.recent = (recent \/ force)
        /\ {"refs", "unpushed", "worktree", "stashed"} \subseteq prune'.todo
        /\ verify => "reachable" \in prune'.todo
    BY <1>6 DEF StartPrune, IdlePrune
  <2> QED BY <2>1 DEF Keeping, Done
<1>7. CASE FetchEnd
  <2>1. CASE fetch.prune
    BY <1>6, <1>7, <2>1 DEF FetchEnd
  <2>2. CASE ~fetch.prune
    BY <1>7, <2>2, KeepingStays DEF FetchEnd, gitVars, history
  <2> QED BY <2>1, <2>2
<1>8. CASE \E a \in conf.pruneArgs : PruneCommand(a.force, a.recent, a.verify, a.dryRun)
  BY <1>6, <1>8 DEF PruneCommand
<1>9. ASSUME NEW t \in prune.todo, PruneTask(t)
      PROVE  Keeping'
  BY <1>9, KeepingTask
<1>10. CASE prune' = IdlePrune
  BY <1>i, <1>10, KeepingIdle
<1>11. CASE PruneStops
  BY <1>10, <1>11 DEF PruneStops
<1>12. CASE PruneSelect
  <2> DEFINE prunable == prune.local \ prune.retained
  <2>1. UNCHANGED <<conf, commits, branch, cur, linked, stash, day, server, ever, recentFetch>> /\ prune.todo = {} /\ prune.phase = "scan"
    BY <1>12 DEF PruneSelect, gitVars, history
  <2>2. \/ prune' = IdlePrune
        \/ prune' = [prune EXCEPT !.phase = "delete", !.prunable = prunable] /\ (prune.verify => Verified(prunable))
    BY <1>12 DEF PruneSelect
  <2>3. CASE prune' = [prune EXCEPT !.phase = "delete", !.prunable = prunable] /\ (prune.verify => Verified(prunable))
    <3>1. /\ prune'.phase = "delete" /\ prune'.prunable = prunable /\ prune'.force = prune.force
          /\ prune'.recent = prune.recent /\ prune'.verify = prune.verify /\ prune'.todo = {}
          /\ prune'.retained = prune.retained /\ prune'.reachable = prune.reachable /\ prune'.late = prune.late
      BY <1>0, <2>1, <2>3 DEF PruneType
    <3> QED BY <2>1, <2>3, <3>1 DEF Verified, Keeping, Done, ScanStashed, Stashed, HEAD, WorktreeHEADs, RetainedAtRef, ScanRef,
             MergeObjects, IsMerge, Objects
  <2> QED BY <1>10, <2>2, <2>3
<1>13. ASSUME NEW o \in Oids, PruneDelete(o)
       PROVE  Keeping'
  <2>1. UNCHANGED <<conf, commits, branch, cur, linked, stash, day, server, ever, recentFetch>>
    BY <1>13 DEF PruneDelete, gitVars, history
  <2>2. \/ prune' = IdlePrune
        \/ prune' = [prune EXCEPT !.prunable = @ \ {o}]
    BY <1>13 DEF PruneDelete
  <2>3. CASE prune' = [prune EXCEPT !.prunable = @ \ {o}]
    <3>1. /\ prune'.phase = prune.phase /\ prune'.prunable \subseteq prune.prunable /\ prune'.force = prune.force
          /\ prune'.recent = prune.recent /\ prune'.verify = prune.verify /\ prune'.todo = prune.todo
          /\ prune'.retained = prune.retained /\ prune'.reachable = prune.reachable /\ prune'.late = prune.late
      BY <1>0, <2>3 DEF PruneType
    <3> QED BY <2>1, <3>1 DEF Keeping, Done, ScanStashed, Stashed, HEAD, WorktreeHEADs, RetainedAtRef, ScanRef,
             MergeObjects, IsMerge, Objects
  <2> QED BY <1>10, <2>2, <2>3
<1> QED BY <1>1, <1>2, <1>3, <1>4, <1>5, <1>7, <1>8, <1>9, <1>11, <1>12, <1>13, <1>14, KeepingTouched

\* What fetch --recent would ask for on a day only changes with the refs.
LEMMA WantedStays ==
  ASSUME UNCHANGED <<conf, commits, branch, cur, tracking>>, NEW d
  PROVE  WantedAt(d)' = WantedAt(d)
<1>1. Ancestors' = Ancestors
  BY AncestorsAre, AncestorsArePrimed
<1>2. RecentAt(d)' = RecentAt(d)
  BY DEF RecentAt, RecentBranches, HEAD, Tips, TrackingTips, CommitDate
<1>3. \A c : PointersForRef(c)' = PointersForRef(c)
  BY DEF PointersForRef, ScanTree, LsTree
<1>4. \A c : PreviousVersions(c)' = PreviousVersions(c)
  BY <1>1 DEF PreviousVersions, ScanPreviousVersions, Reach, CommitDate, Deletions, IsMerge, ParentTree
<1> HIDE DEF RecentAt, PointersForRef, PreviousVersions
<1> QED BY <1>2, <1>3, <1>4 DEF WantedAt

\* Every step keeps what fetch --recent asked for among what it would ask for again.
LEMMA RecentStep ==
  ASSUME TypeOK, Recent, Next
  PROVE  Recent'
<1>0. GitTypes
  BY DEF TypeOK
<1>1. CASE recentFetch' = NoFetch
  BY <1>1 DEF Recent, NoFetch
<1>2. CASE UNCHANGED <<conf, commits, branch, cur, tracking, recentFetch>>
  BY <1>2, WantedStays DEF Recent
<1>3. CASE Commit \/ Stash \/ GitFetchPrune \/ \E b \in Branches : Merge(b) \/ Switch(b)
  BY <1>1, <1>3 DEF Commit, Stash, GitFetchPrune, Merge, Switch, NewCommit
<1>4. CASE PushEnd
  BY <1>1, <1>2, <1>4 DEF PushEnd, gitVars, refVars
<1>5. ASSUME NEW a \in conf.fetchArgs, FetchStart(a[1], a[2])
      PROVE  Recent'
  <2>1. UNCHANGED <<conf, commits, branch, cur, tracking>> /\ day \in Nat
    BY <1>0, <1>5 DEF FetchStart, gitVars, refVars, GitTypes
  <2>2. recentFetch' = recentFetch \/ recentFetch' = [oids |-> PointersForRef(HEAD) \cup RecentObjects, day |-> day]
    BY <1>5 DEF FetchStart
  <2>3. CASE recentFetch' = [oids |-> PointersForRef(HEAD) \cup RecentObjects, day |-> day]
    <3>1. RecentAt(day) = RecentTips(conf.refsDays) /\ HEAD \in RecentAt(day)
      BY DEF RecentAt, RecentTips
    <3>2. PointersForRef(HEAD) \cup RecentObjects \subseteq WantedAt(day)
      <4> HIDE DEF HEAD, RecentAt, RecentTips, PointersForRef
      <4> QED BY <3>1 DEF RecentObjects, WantedAt
    <3>3. PICK d \in Nat : d = day
      BY <2>1
    <3>4. WantedAt(d)' = WantedAt(d)
      BY <2>1, WantedStays
    <3>5. recentFetch'.day = d /\ recentFetch'.oids \subseteq WantedAt(d)'
      BY <2>3, <3>2, <3>3, <3>4
    <3> QED BY <3>5 DEF Recent
  <2> QED BY <1>2, <2>1, <2>2, <2>3
<1> QED BY <1>2, <1>3, <1>4, <1>5, RecentTouched

-----------------------------------------------------------------------------
(* Pull *)

\* Pulling holds of a pull that does not run.
LEMMA PullingOff ==
  ASSUME ~pull'.on, pull'.watch = {}
  PROVE  Pulling'
BY DEF Pulling

\* The tree of HEAD does not change while the commits and branches do not.
LEMMA HeadStays ==
  ASSUME UNCHANGED <<commits, branch, cur>>
  PROVE  HEAD' = HEAD /\ HeadTree' = HeadTree
BY DEF HEAD, HeadTree, LsTree

\* The queue of a pull.
SameQueue ==
  /\ pull'.on = pull.on /\ pull'.tree = pull.tree /\ pull'.todo = pull.todo /\ pull'.ptr = pull.ptr
  /\ pull'.queued = pull.queued /\ pull'.done = pull.done /\ pull'.watch = pull.watch

\* A pull goes on when the files that it answers for stay, get their object or are edited.
LEMMA PullingStays ==
  ASSUME Pulling, conf' = conf, SameQueue, pull'.skipped = pull.skipped,
         pull.touched \subseteq pull'.touched, pull'.trusted \subseteq pull.trusted,
         \A p \in pull'.trusted : pull.tree[p] \in damaged' => pull.tree[p] \in damaged,
         \A p \in Paths \ pull'.touched :
           /\ HeadTree'[p] = HeadTree[p]
           /\ wt'[p] # wt[p] => /\ HeadTree[p] = pull.tree[p] /\ ~ToWrite(wt[p], pull.tree[p]) => ~ToWrite(wt'[p], pull.tree[p])
                                /\ HeadTree[p] = pull.tree[p] /\ pull.tree[p] \notin damaged /\ wt[p] # Corrupt(pull.tree[p])
                                     => wt'[p] # Corrupt(pull.tree[p])
  PROVE  Pulling'
<1>1. CASE ~pull.on
  BY <1>1, PullingOff DEF Pulling, SameQueue
<1>2. CASE pull.on
  <2>1. PullQueue /\ PullFiles
    BY <1>2 DEF Pulling
  <2>2. PathsToPull(pull.tree)' = PathsToPull(pull.tree)
    BY DEF PathsToPull, SameQueue
  <2>3. PullQueue'
    <3> HIDE DEF PathsToPull
    <3> QED BY <2>1, <2>2 DEF PullQueue, SameQueue
  <2> HIDE DEF HeadTree, PathsToPull
  <2>4. PullFiles'
    <3> SUFFICES ASSUME NEW p \in Paths \ pull'.touched
                 PROVE  /\ HeadTree'[p] = pull'.tree[p]
                        /\ p \in pull'.trusted => pull'.tree[p] \notin damaged' /\ wt'[p] # Corrupt(pull'.tree[p])
                        /\ p \in PathsToPull(pull.tree)' =>
                             \/ p \in pull'.todo \cup pull'.skipped \/ p \in pull'.ptr[pull'.tree[p]]
                             \/ ~ToWrite(wt[p], pull.tree[p])'
      BY DEF PullFiles
    <3>1. /\ HeadTree[p] = pull.tree[p]
          /\ p \in pull.trusted => pull.tree[p] \notin damaged /\ wt[p] # Corrupt(pull.tree[p])
          /\ p \in PathsToPull(pull.tree) =>
               \/ p \in pull.todo \cup pull.skipped \/ p \in pull.ptr[pull.tree[p]]
               \/ ~ToWrite(wt[p], pull.tree[p])
      BY <2>1 DEF PullFiles
    <3>2. pull'.tree[p] = pull.tree[p] /\ (ToWrite(wt[p], pull.tree[p])' <=> ToWrite(wt'[p], pull.tree[p]))
      BY DEF SameQueue, ToWrite
    <3> HIDE DEF ToWrite
    <3>3. HeadTree'[p] = pull'.tree[p]
      BY <3>1, <3>2
    <3>4. ~ToWrite(wt[p], pull.tree[p]) => ~ToWrite(wt'[p], pull.tree[p])
      BY <3>1
    <3>5. p \in pull'.trusted => pull.tree[p] \notin damaged' /\ wt'[p] # Corrupt(pull.tree[p])
      BY <3>1
    <3> QED BY <2>2, <3>1, <3>2, <3>3, <3>4, <3>5 DEF SameQueue
  <2> QED BY <1>2, <2>3, <2>4 DEF Pulling, SameQueue
<1> QED BY <1>1, <1>2

\* The user moves HEAD or the index: only the paths that it touches change.
LEMMA PullingUser ==
  ASSUME PullType, Pulling, NEW tree, DuringPull(tree), conf' = conf, damaged' = damaged,
         \A p \in Paths : tree[p] = HeadTree[p] => HeadTree'[p] = HeadTree[p] /\ wt'[p] = wt[p]
  PROVE  Pulling'
<1>1. CASE ~pull.on
  BY <1>1, PullingOff DEF DuringPull, Pulling
<1>2. CASE pull.on
  <2> HIDE DEF HeadTree
  <2>1. /\ pull'.on = pull.on /\ pull'.tree = pull.tree /\ pull'.todo = pull.todo /\ pull'.ptr = pull.ptr
        /\ pull'.queued = pull.queued /\ pull'.done = pull.done /\ pull'.watch = pull.watch
        /\ pull'.skipped = pull.skipped /\ pull'.trusted = pull.trusted
        /\ pull'.touched = pull.touched \cup {p \in Paths : tree[p] # HeadTree[p]}
    BY <1>2 DEF DuringPull, PullType
  <2>2. \A p \in Paths \ pull'.touched : HeadTree'[p] = HeadTree[p] /\ wt'[p] = wt[p]
    BY <2>1
  <2>3. SameQueue
    BY <2>1 DEF SameQueue
  <2> HIDE DEF SameQueue
  <2> QED BY <2>1, <2>2, <2>3, PullingStays
<1> QED BY <1>1, <1>2

\* So it is for each of the user's steps.
LEMMA PullingUserStep ==
  ASSUME TypeOK, Pulling, Stage \/ Commit \/ \E b \in Branches : Merge(b) \/ Switch(b)
  PROVE  Pulling'
<1>0. GitTypes /\ FileTypes /\ PullType
  BY DEF TypeOK
<1>1. conf' = conf /\ damaged' = damaged
  BY DEF Stage, Commit, Merge, Switch, checkVars
<1>2. ASSUME NEW tree, DuringPull(tree), HeadTree' \in {HeadTree, tree},
             \A p \in Paths : tree[p] = HeadTree[p] => wt'[p] = wt[p]
      PROVE  Pulling'
  BY <1>0, <1>1, <1>2, PullingUser
<1>3. CASE Stage
  <2>1. HeadTree' = HeadTree
    BY <1>3, HeadStays DEF Stage
  <2> HIDE DEF HeadTree
  <2>2. DuringPull(conf.script[next]) /\ \A p \in Paths : conf.script[next][p] = HeadTree[p] => wt'[p] = wt[p]
    BY <1>3 DEF Stage, Add
  <2> QED BY <1>2, <2>1, <2>2
<1>4. CASE Commit
  <2>1. PICK tree : /\ NewCommit(<<HEAD>>, tree) /\ cur' = cur
                    /\ \A p \in Paths : tree[p] = HeadTree[p] => wt'[p] = wt[p]
    <3> HIDE DEF HeadTree, HEAD, Index, NewCommit
    <3> QED BY <1>4 DEF Commit, Add
  <2>2. HeadTree' = tree
    BY <1>0, <2>1, NewHead
  <2> HIDE DEF HeadTree
  <2> QED BY <1>2, <2>1, <2>2 DEF NewCommit, HeadMoves
<1>5. ASSUME NEW b \in Branches, Merge(b)
      PROVE  Pulling'
  <2>1. PICK tree : /\ NewCommit(<<HEAD, branch[b]>>, tree) /\ cur' = cur
                    /\ \E have : wt' = CheckedOut(tree, have)
    <3> HIDE DEF HeadTree, HEAD, NewCommit, CheckedOut
    <3> QED BY <1>5 DEF Merge
  <2>2. HeadTree' = tree
    BY <1>0, <2>1, NewHead
  <2> HIDE DEF HeadTree
  <2>3. \A p \in Paths : tree[p] = HeadTree[p] => wt'[p] = wt[p]
    BY <2>1 DEF CheckedOut
  <2> QED BY <1>2, <2>1, <2>2, <2>3 DEF NewCommit, HeadMoves
<1>6. ASSUME NEW b \in Branches, Switch(b)
      PROVE  Pulling'
  <2> DEFINE tree == commits[branch'[b]].tree
  <2>1. HeadTree' = tree
    BY <1>6 DEF Switch, HeadTree, LsTree, HEAD
  <2>2. DuringPull(tree) /\ wt' = CheckedOut(tree, store)
    BY <1>6 DEF Switch, HeadMoves
  <2> HIDE DEF tree, HeadTree
  <2>3. \A p \in Paths : tree[p] = HeadTree[p] => wt'[p] = wt[p]
    BY <2>2 DEF CheckedOut
  <2> QED BY <1>2, <2>1, <2>2, <2>3
<1> QED BY <1>3, <1>4, <1>5, <1>6

\* The parts of Pulling, for a step that changes the queue: what it does to a path that the user
\* leaves alone.
LEMMA PullingMoves ==
  ASSUME Pulling, pull.on, UNCHANGED <<conf, commits, branch, cur, damaged>>, pull'.on = pull.on,
         pull'.tree = pull.tree, pull'.touched = pull.touched, pull'.trusted = pull.trusted, PullQueue',
         \A p \in Paths \ pull.touched : p \in PathsToPull(pull.tree) =>
           \/ p \in pull'.todo \cup pull'.skipped \/ p \in pull'.ptr[pull.tree[p]]
           \/ ~ToWrite(wt'[p], pull.tree[p]),
         \A p \in Paths : pull.tree[p] \notin damaged /\ wt[p] # Corrupt(pull.tree[p])
                            => wt'[p] # Corrupt(pull.tree[p])
  PROVE  Pulling'
<1>1. HeadTree' = HeadTree
  BY HeadStays
<1>2. PathsToPull(pull.tree)' = PathsToPull(pull.tree)
  BY DEF PathsToPull
<1>3. \A p : ToWrite(wt[p], pull.tree[p])' <=> ToWrite(wt'[p], pull.tree[p])
  BY DEF ToWrite
<1> HIDE DEF HeadTree, PathsToPull, ToWrite
<1>4. PullFiles'
  BY <1>1, <1>2, <1>3 DEF Pulling, PullFiles
<1> QED BY <1>4 DEF Pulling

\* The scanner's callback.
LEMMA PullingScan ==
  ASSUME TypeOK, Pulling, NEW p \in pull.todo, PullScan(p)
  PROVE  Pulling'
<1>0. PullType /\ pull.on /\ PullQueue /\ PullFiles /\ wt \in [Paths -> Files]
  BY DEF TypeOK, FileTypes, PullScan, Pulling
<1>1. p \in PathsToPull(pull.tree) /\ p \in Paths /\ pull.tree[p] \in Oids
  BY <1>0, PulledPaths
<1>2. UNCHANGED <<conf, commits, branch, cur, store, damaged>>
  BY DEF PullScan, gitVars, checkVars
<1>3. PathsToPull(pull.tree)' = {q \in Paths \ conf.exclude : pull'.tree[q] # NoOid}
  BY <1>2 DEF PathsToPull
<1>4. \A q \in PathsToPull(pull.tree) : pull.tree[q] \in Oids
  BY <1>0, PullPaths DEF PullType
<1> DEFINE o == pull.tree[p]
           rest == [pull EXCEPT !.todo = @ \ {p}]
<1>5. /\ rest.on = pull.on /\ rest.tree = pull.tree /\ rest.todo = pull.todo \ {p} /\ rest.ptr = pull.ptr
      /\ rest.queued = pull.queued /\ rest.done = pull.done /\ rest.watch = pull.watch
      /\ rest.skipped = pull.skipped /\ rest.touched = pull.touched
      /\ rest.trusted = pull.trusted /\ pull.ptr \in [Oids -> SUBSET Paths]
  BY <1>0 DEF PullType
<1>6. CASE pull.ptr[o] # {} /\ pull' = [rest EXCEPT !.ptr[o] = pull.ptr[o] \cup {p}] /\ UNCHANGED wt
  <2>1. /\ pull'.on = pull.on /\ pull'.tree = pull.tree /\ pull'.todo = pull.todo \ {p}
        /\ pull'.queued = pull.queued /\ pull'.done = pull.done /\ pull'.watch = pull.watch
        /\ pull'.skipped = pull.skipped /\ pull'.touched = pull.touched
        /\ pull'.trusted = pull.trusted /\ pull'.ptr = [pull.ptr EXCEPT ![o] = pull.ptr[o] \cup {p}]
    BY <1>0, <1>6 DEF PullType
  <2>2. pull'.ptr[o] = pull.ptr[o] \cup {p} /\ \A x \in Oids \ {o} : pull'.ptr[x] = pull.ptr[x]
    BY <1>1, <1>5, <2>1
  <2>3. \A x \in Oids : \A q \in pull'.ptr[x] : pull.tree[q] = x
    BY <1>0, <2>2 DEF PullQueue
  <2>4. \A x \in Oids : pull'.ptr[x] # {} => x \in pull.queued /\ (x \in pull.watch \/ x \notin pull.done)
    BY <1>0, <1>1, <1>6, <2>2 DEF PullQueue
  <2>5. PullQueue'
    BY <1>0, <1>3, <2>1, <2>3, <2>4 DEF PullQueue, PathsToPull
  <2> HIDE DEF PathsToPull
  <2>6. \A q \in Paths \ pull.touched : q \in PathsToPull(pull.tree) =>
          q \in pull'.todo \cup pull'.skipped \/ q \in pull'.ptr[pull.tree[q]] \/ ~ToWrite(wt[q], pull.tree[q])
    <3> HIDE DEF ToWrite
    <3> SUFFICES ASSUME NEW q \in Paths \ pull.touched, q \in PathsToPull(pull.tree)
                 PROVE  \/ q \in pull'.todo \cup pull'.skipped \/ q \in pull'.ptr[pull.tree[q]]
                        \/ ~ToWrite(wt[q], pull.tree[q])
      OBVIOUS
    <3>1. pull.ptr[pull.tree[q]] \subseteq pull'.ptr[pull.tree[q]]
      BY <1>4, <2>2
    <3> QED BY <1>0, <2>1, <2>2, <3>1 DEF PullFiles
  <2> QED BY <1>0, <1>2, <1>6, <2>1, <2>5, <2>6, PullingMoves
<1>7. ASSUME pull.ptr[o] = {}, o \in store, NEW fault \in Faults, wt' = [wt EXCEPT ![p] = Run(@, o, store, fault)],
             pull' = [rest EXCEPT !.skipped = @ \cup {q \in {p} : RunFails(wt[p], o, store, fault)}]
      PROVE  Pulling'
  <2>1. /\ pull'.on = pull.on /\ pull'.tree = pull.tree /\ pull'.todo = pull.todo \ {p} /\ pull'.ptr = pull.ptr
        /\ pull'.queued = pull.queued /\ pull'.done = pull.done /\ pull'.watch = pull.watch
        /\ pull'.skipped = pull.skipped \cup {q \in {p} : RunFails(wt[p], o, store, fault)}
        /\ pull'.touched = pull.touched /\ pull'.trusted = pull.trusted
    <3> HIDE DEF RunFails
    <3> QED BY <1>0, <1>7 DEF PullType
  <2>2. PullQueue'
    BY <1>0, <1>3, <2>1 DEF PullQueue, PathsToPull
  <2>3. wt'[p] = Run(wt[p], o, store, fault) /\ \A q \in Paths \ {p} : wt'[q] = wt[q]
    BY <1>0, <1>1, <1>7
  <2>4. /\ ToWrite(wt'[p], o) => RunFails(wt[p], o, store, fault)
        /\ o \notin damaged /\ wt[p] # Corrupt(o) => wt'[p] # Corrupt(o)
    <3>1. o \in Oids
      BY <1>1
    <3> HIDE DEF o, ToWrite, RunFails
    <3>2. /\ ToWrite(Run(wt[p], o, store, fault), o) => RunFails(wt[p], o, store, fault)
          /\ o \notin damaged /\ wt[p] # Corrupt(o) => Run(wt[p], o, store, fault) # Corrupt(o)
      BY <3>1, RunWrites
    <3> QED BY <2>3, <3>2
  <2> HIDE DEF PathsToPull, RunFails, ToWrite, Run
  <2>5. \A q \in Paths \ pull.touched : q \in PathsToPull(pull.tree) =>
          q \in pull'.todo \cup pull'.skipped \/ q \in pull'.ptr[pull.tree[q]] \/ ~ToWrite(wt'[q], pull.tree[q])
    BY <1>0, <2>1, <2>3, <2>4 DEF PullFiles
  <2>6. \A q \in Paths : pull.tree[q] \notin damaged /\ wt[q] # Corrupt(pull.tree[q]) => wt'[q] # Corrupt(pull.tree[q])
    BY <2>3, <2>4
  <2> QED BY <1>0, <1>2, <2>1, <2>2, <2>5, <2>6, PullingMoves
<1>8. CASE /\ pull.ptr[o] = {} /\ UNCHANGED wt
           /\ pull' = [rest EXCEPT !.ptr[o] = {p}, !.queued = @ \cup {o},
                                   !.watch = IF o \in pull.done THEN @ \cup {o} ELSE @]
  <2>1. /\ pull'.on = pull.on /\ pull'.tree = pull.tree /\ pull'.todo = pull.todo \ {p}
        /\ pull'.queued = pull.queued \cup {o}
        /\ pull'.done = pull.done /\ pull'.watch = (IF o \in pull.done THEN pull.watch \cup {o} ELSE pull.watch)
        /\ pull'.skipped = pull.skipped /\ pull'.touched = pull.touched
        /\ pull'.trusted = pull.trusted /\ pull'.ptr = [pull.ptr EXCEPT ![o] = {p}]
    BY <1>0, <1>8 DEF PullType
  <2>2. pull'.ptr[o] = {p} /\ \A x \in Oids \ {o} : pull'.ptr[x] = pull.ptr[x]
    BY <1>1, <1>5, <2>1
  <2>3. \A x \in Oids : \A q \in pull'.ptr[x] : pull.tree[q] = x
    BY <1>0, <2>2 DEF PullQueue
  <2>4. \A x \in Oids : pull'.ptr[x] # {} => x \in pull'.queued /\ (x \in pull'.watch \/ x \notin pull'.done)
    BY <1>0, <1>1, <2>1, <2>2 DEF PullQueue
  <2>5. pull'.watch \subseteq pull'.done
    BY <1>0, <2>1 DEF PullQueue
  <2>6. PullQueue'
    BY <1>0, <1>3, <2>1, <2>3, <2>4, <2>5 DEF PullQueue, PathsToPull
  <2> HIDE DEF PathsToPull
  <2>7. \A q \in Paths \ pull.touched : q \in PathsToPull(pull.tree) =>
          q \in pull'.todo \cup pull'.skipped \/ q \in pull'.ptr[pull.tree[q]] \/ ~ToWrite(wt[q], pull.tree[q])
    <3> HIDE DEF ToWrite
    <3> SUFFICES ASSUME NEW q \in Paths \ pull.touched, q \in PathsToPull(pull.tree)
                 PROVE  \/ q \in pull'.todo \cup pull'.skipped \/ q \in pull'.ptr[pull.tree[q]]
                        \/ ~ToWrite(wt[q], pull.tree[q])
      OBVIOUS
    <3>1. pull.ptr[pull.tree[q]] \subseteq pull'.ptr[pull.tree[q]]
      BY <1>4, <1>8, <2>2
    <3> QED BY <1>0, <2>1, <2>2, <3>1 DEF PullFiles
  <2> QED BY <1>0, <1>2, <1>8, <2>1, <2>6, <2>7, PullingMoves
<1> QED BY <1>6, <1>7, <1>8 DEF PullScan, Seen, SeenPointers, ObjectExists

\* The watcher checks out the paths that wait for an object.
LEMMA PullingWatch ==
  ASSUME TypeOK, Pulling, NEW o \in Oids, PullWatch(o)
  PROVE  Pulling'
<1>0. PullType /\ pull.on /\ PullQueue /\ PullFiles /\ wt \in [Paths -> Files] /\ o \in pull.watch
  BY DEF TypeOK, FileTypes, PullWatch, Pulling
<1>1. UNCHANGED <<conf, commits, branch, cur, store, damaged>>
  BY DEF PullWatch, gitVars, checkVars
<1>2. PathsToPull(pull.tree)' = {q \in Paths \ conf.exclude : pull'.tree[q] # NoOid}
  BY <1>1 DEF PathsToPull
<1>3. \A q \in PathsToPull(pull.tree) : pull.tree[q] \in Oids
  BY <1>0, PullPaths DEF PullType
<1>4. PICK fault \in [pull.ptr[o] -> Faults] :
        /\ wt' = [p \in Paths |-> IF p \in pull.ptr[o] THEN Run(wt[p], o, store, fault[p]) ELSE wt[p]]
        /\ pull' = [pull EXCEPT !.watch = @ \ {o}, !.ptr[o] = {},
                      !.skipped = @ \cup {p \in pull.ptr[o] : RunFails(wt[p], o, store, fault[p])}]
  BY DEF PullWatch
<1> DEFINE S == {p \in pull.ptr[o] : RunFails(wt[p], o, store, fault[p])}
<1>5. pull' = [pull EXCEPT !.watch = @ \ {o}, !.ptr[o] = {}, !.skipped = @ \cup S]
  BY <1>4
<1>6. \A p \in pull.ptr[o] : p \in S <=> RunFails(wt[p], o, store, fault[p])
  OBVIOUS
<1> HIDE DEF S
<1>7. /\ pull'.on = pull.on /\ pull'.tree = pull.tree /\ pull'.todo = pull.todo /\ pull'.queued = pull.queued
      /\ pull'.done = pull.done /\ pull'.watch = pull.watch \ {o} /\ pull'.ptr = [pull.ptr EXCEPT ![o] = {}]
      /\ pull'.skipped = pull.skipped \cup S /\ pull'.touched = pull.touched /\ pull'.trusted = pull.trusted
  BY <1>0, <1>5 DEF PullType
<1>8. pull'.ptr[o] = {} /\ \A x \in Oids \ {o} : pull'.ptr[x] = pull.ptr[x]
  BY <1>0, <1>7 DEF PullType
<1>9. \A p \in pull.ptr[o] : pull.tree[p] = o /\ p \in Paths
  BY <1>0 DEF PullQueue, PullType
<1>10. PullQueue'
  <2>1. /\ \A x \in Oids : \A p \in pull'.ptr[x] : pull.tree[p] = x
        /\ \A x \in Oids : pull'.ptr[x] # {} => x \in pull.queued /\ (x \in pull'.watch \/ x \notin pull.done)
    BY <1>0, <1>7, <1>8 DEF PullQueue
  <2> QED BY <1>0, <1>2, <1>7, <2>1 DEF PullQueue, PathsToPull
<1>11. \A p \in Paths : wt'[p] = IF p \in pull.ptr[o] THEN Run(wt[p], o, store, fault[p]) ELSE wt[p]
  BY <1>4
<1>12. \A p \in pull.ptr[o] :
         /\ ToWrite(wt'[p], o) => RunFails(wt[p], o, store, fault[p])
         /\ o \notin damaged /\ wt[p] # Corrupt(o) => wt'[p] # Corrupt(o)
  BY <1>9, <1>11, RunWrites
<1> HIDE DEF PathsToPull, ToWrite, RunFails, Run
<1>13. \A p \in Paths \ pull.touched : p \in PathsToPull(pull.tree) =>
         p \in pull'.todo \cup pull'.skipped \/ p \in pull'.ptr[pull.tree[p]] \/ ~ToWrite(wt'[p], pull.tree[p])
  <2> SUFFICES ASSUME NEW p \in Paths \ pull.touched, p \in PathsToPull(pull.tree)
               PROVE  \/ p \in pull'.todo \cup pull'.skipped \/ p \in pull'.ptr[pull.tree[p]]
                      \/ ~ToWrite(wt'[p], pull.tree[p])
    OBVIOUS
  <2>1. \/ p \in pull.todo \cup pull.skipped \/ p \in pull.ptr[pull.tree[p]]
        \/ ~ToWrite(wt[p], pull.tree[p])
    BY <1>0 DEF PullFiles
  <2>2. CASE p \in pull.ptr[o]
    BY <1>6, <1>7, <1>9, <1>12, <2>2
  <2>3. CASE p \notin pull.ptr[o]
    BY <1>3, <1>7, <1>8, <1>11, <2>1, <2>3
  <2> QED BY <2>2, <2>3
<1>14. \A p \in Paths : pull.tree[p] \notin damaged /\ wt[p] # Corrupt(pull.tree[p]) => wt'[p] # Corrupt(pull.tree[p])
  BY <1>9, <1>11, <1>12
<1> QED BY <1>0, <1>1, <1>7, <1>10, <1>13, <1>14, PullingMoves

\* Every step keeps what a pull has done.
LEMMA PullingStep ==
  ASSUME TypeOK, Checked, Pulling, Next
  PROVE  Pulling'
<1>0. GitTypes /\ PullType /\ FileTypes /\ pull.trusted \subseteq Paths /\ HeadTree \in Trees
  BY HeadType DEF TypeOK, PullType
<1>1. CASE UNCHANGED <<conf, commits, branch, cur, wt, pull>> /\ damaged' \subseteq damaged
  <2>1. HeadTree' = HeadTree /\ SameQueue
    BY <1>1, HeadStays DEF SameQueue
  <2> HIDE DEF HeadTree, SameQueue
  <2> QED BY <1>1, <2>1, PullingStays
<1>2. CASE Stage \/ Commit \/ \E b \in Branches : Merge(b) \/ Switch(b)
  BY <1>2, PullingUserStep
<1>3. ASSUME NEW p \in Paths, Edit(p)
      PROVE  Pulling'
  <2>1. UNCHANGED <<conf, commits, branch, cur, pull, damaged>> /\ \A q \in Paths : wt'[q] = wt[q] \/ wt'[q] = Edited
    BY <1>0, <1>3 DEF Edit, FileTypes, gitVars, checkVars
  <2>2. HeadTree' = HeadTree /\ SameQueue
    BY <2>1, HeadStays DEF SameQueue
  <2>3. \A o : ~ToWrite(Edited, o) /\ Edited # Corrupt(o)
    BY FileKinds DEF ToWrite
  <2> HIDE DEF HeadTree, SameQueue, ToWrite
  <2> QED BY <2>1, <2>2, <2>3, PullingStays
<1>4. ASSUME NEW P \in SUBSET Paths, Checkout(P)
      PROVE  Pulling'
  <2>1. UNCHANGED <<conf, commits, branch, cur, pull, damaged>>
    BY <1>4 DEF Checkout, gitVars, checkVars
  <2>2. HeadTree' = HeadTree /\ SameQueue
    BY <2>1, HeadStays DEF SameQueue
  <2> HIDE DEF HeadTree, SameQueue
  <2>3. PICK fault \in [P -> Faults] :
          wt' = [p \in Paths |-> IF p \in P /\ HeadTree[p] # NoOid
                                THEN Run(wt[p], HeadTree[p], store, fault[p]) ELSE wt[p]]
    BY <1>4 DEF Checkout
  <2>4. ASSUME NEW p \in Paths, wt'[p] # wt[p], HeadTree[p] = pull.tree[p]
        PROVE  /\ ~ToWrite(wt[p], pull.tree[p]) => ~ToWrite(wt'[p], pull.tree[p])
               /\ pull.tree[p] \notin damaged /\ wt[p] # Corrupt(pull.tree[p]) => wt'[p] # Corrupt(pull.tree[p])
    <3>1. HeadTree[p] \in Oids /\ wt'[p] = Run(wt[p], HeadTree[p], store, fault[p])
      BY <1>0, <2>3, <2>4, TreeOids
    <3> HIDE DEF ToWrite
    <3> QED BY <2>4, <3>1, RunWrites
  <2> HIDE DEF ToWrite
  <2> QED BY <2>1, <2>2, <2>4, PullingStays
<1>5. CASE FsckRepair \/ \E o \in Oids : PruneDelete(o) \/ FetchDownload(o)
  <2>1. UNCHANGED <<conf, commits, branch, cur, wt, pull>> /\ damaged' \subseteq damaged
    BY <1>5 DEF FsckRepair, PruneDelete, FetchDownload, gitVars
  <2> QED BY <1>1, <2>1
<1>6. CASE PullStart
  <2>1. UNCHANGED <<conf, commits, branch, cur, wt, damaged>>
    BY <1>6 DEF PullStart, gitVars, checkVars
  <2>2. HeadTree' = HeadTree /\ PathsToPull(HeadTree)' = PathsToPull(HeadTree)
    BY <2>1, HeadStays DEF PathsToPull
  <2> HIDE DEF HeadTree
  <2>3. /\ pull'.on /\ pull'.tree = HeadTree /\ pull'.todo = PathsToPull(HeadTree)
        /\ pull'.ptr = [o \in Oids |-> {}] /\ pull'.done = {} /\ pull'.watch = {}
        /\ pull'.trusted = {p \in Paths : HeadTree[p] \in sound /\ wt[p] # Corrupt(HeadTree[p])}
    BY <1>6 DEF PullStart, IdlePull
  <2>4. sound \cap damaged = {}
    BY DEF Checked
  <2>5. PathsToPull(pull.tree)' = PathsToPull(HeadTree)
    BY <2>1, <2>3 DEF PathsToPull
  <2> HIDE DEF PathsToPull
  <2>6. PullQueue'
    BY <2>3, <2>5 DEF PullQueue
  <2>7. PullFiles'
    BY <2>1, <2>2, <2>3, <2>4, <2>5 DEF PullFiles
  <2> QED BY <2>3, <2>6, <2>7 DEF Pulling
<1>7. ASSUME NEW p \in pull.todo, PullScan(p)
      PROVE  Pulling'
  BY <1>7, PullingScan
<1>8. ASSUME NEW o \in Oids, PullDownload(o)
      PROVE  Pulling'
  <2>1. UNCHANGED <<conf, commits, branch, cur, wt>> /\ pull.on /\ damaged' \subseteq damaged
    BY <1>8 DEF PullDownload, gitVars
  <2>2. HeadTree' = HeadTree
    BY <2>1, HeadStays
  <2> HIDE DEF HeadTree
  <2>3. CASE pull' = [pull EXCEPT !.failed = @ \cup {o}]
    <3>1. SameQueue /\ pull'.skipped = pull.skipped /\ pull'.touched = pull.touched /\ pull'.trusted = pull.trusted
      BY <1>0, <2>3 DEF PullType, SameQueue
    <3> HIDE DEF SameQueue
    <3> QED BY <2>1, <2>2, <3>1, PullingStays
  <2>4. CASE pull' = [pull EXCEPT !.done = @ \cup {o}, !.watch = @ \cup {o}]
    <3>1. /\ pull'.on = pull.on /\ pull'.tree = pull.tree /\ pull'.todo = pull.todo /\ pull'.ptr = pull.ptr
          /\ pull'.queued = pull.queued /\ pull'.done = pull.done \cup {o} /\ pull'.watch = pull.watch \cup {o}
          /\ pull'.skipped = pull.skipped /\ pull'.touched = pull.touched /\ pull'.trusted = pull.trusted
      BY <1>0, <2>4 DEF PullType
    <3>2. PathsToPull(pull.tree)' = PathsToPull(pull.tree)
      BY <2>1, <3>1 DEF PathsToPull
    <3>3. \A p : ToWrite(wt[p], pull.tree[p])' <=> ToWrite(wt[p], pull.tree[p])
      BY <2>1, <3>1 DEF ToWrite
    <3> HIDE DEF PathsToPull, ToWrite
    <3>4. PullQueue'
      BY <2>1, <3>1, <3>2 DEF PullQueue, Pulling
    <3>5. PullFiles'
      BY <2>1, <2>2, <3>1, <3>2, <3>3 DEF PullFiles, Pulling
    <3> QED BY <2>1, <3>1, <3>4, <3>5 DEF Pulling
  <2> QED BY <1>8, <2>3, <2>4 DEF PullDownload
<1>9. ASSUME NEW o \in Oids, PullWatch(o)
      PROVE  Pulling'
  BY <1>9, PullingWatch
<1>10. CASE PullEnd
  BY <1>10, PullingOff DEF PullEnd, IdlePull
<1>11. ASSUME NEW o \in Oids, Damage(o)
       PROVE  Pulling'
  <2>1. UNCHANGED <<conf, commits, branch, cur, wt>> /\ damaged' = damaged \cup {o}
    BY <1>11 DEF Damage, gitVars
  <2>2. pull' = [pull EXCEPT !.trusted = {p \in @ : pull.tree[p] # o}]
    BY <1>11 DEF Damage
  <2>3. HeadTree' = HeadTree
    BY <2>1, HeadStays
  <2> HIDE DEF HeadTree
  <2>4. /\ SameQueue /\ pull'.skipped = pull.skipped /\ pull'.touched = pull.touched
        /\ pull'.trusted = {p \in pull.trusted : pull.tree[p] # o}
    BY <1>0, <2>2 DEF PullType, SameQueue
  <2> HIDE DEF SameQueue
  <2> QED BY <2>1, <2>3, <2>4, PullingStays
<1>12. CASE Stash
  BY <1>1, <1>12 DEF Stash, checkVars
<1>13. CASE UNCHANGED <<conf, commits, branch, cur, wt, store, damaged, pull>>
  BY <1>1, <1>13
<1> QED BY <1>2, <1>3, <1>4, <1>5, <1>6, <1>7, <1>8, <1>9, <1>10, <1>11, <1>12, <1>13, PullTouched

-----------------------------------------------------------------------------
(* The invariant *)

\* The initial states satisfy the invariant.
LEMMA InitIInv ==
  ASSUME Init
  PROVE  IInv
<1> DEFINE first == conf.script[1]
           new == [parents |-> <<>>, tree |-> first, day |-> 0]
<1>1. conf \in Scenarios /\ first \in Trees /\ Main \in Branches /\ conf.limit \in [Operations -> Nat]
  <2>1. conf \in Scenarios
    BY DEF Init
  <2>2. conf.script \in Seq(Trees) /\ Len(conf.script) > 0
    BY <2>1, RepositoryAssumption
  <2> QED BY <2>1, <2>2, RepositoryAssumption
<1> HIDE DEF first
<1>2. new \in Commits /\ new.parents = <<>> /\ new.tree = first
  <2>1. <<>> \in Seq(Nat)
    OBVIOUS
  <2> QED BY <1>1, <2>1 DEF Commits
<1>3. commits = <<new>>
  BY DEF Init, first
<1> HIDE DEF new
<1>4. commits \in Seq(Commits) /\ Len(commits) = 1 /\ commits[1] = new
  BY <1>2, <1>3
<1>5. IsHistory(commits)
  BY <1>2, <1>4 DEF IsHistory, Range
<1>6. Numbers = {0, 1}
  BY <1>4 DEF Numbers
<1>7. /\ branch \in [Branches -> Numbers] /\ branch[Main] = 1 /\ cur = Main /\ remote = branch
      /\ tracking = branch /\ HEAD = 1
  BY <1>1, <1>6 DEF Init, HEAD
<1>8. GitTypes
  <2>1. <<>> \in Seq([base : Numbers \ {0}, idx : Trees, wip : Trees])
    OBVIOUS
  <2> QED BY <1>1, <1>5, <1>6, <1>7, <2>1 DEF GitTypes, Init
<1>9. HeadTree = first /\ Index = first /\ ObjectsIn(first) \subseteq Oids
  BY <1>1, <1>2, <1>4, <1>7, TreeOids DEF HeadTree, LsTree, Index, Init
<1>10. \E have : wt = FilesOf(first, have)
  BY DEF Init, CloneWithoutFilters, first
<1>11. wt \in [Paths -> Files] /\ WorkingTree
  BY <1>1, <1>9, <1>10, FilesOfTree DEF WorkingTree, FileFits
<1>12. FileTypes
  BY <1>9, <1>11 DEF FileTypes, Init, first
<1>13. PushType /\ push.kind = "none"
  BY <1>6 DEF PushType, Init, IdlePush
<1>14. PruneType /\ prune.phase = "idle" /\ ~prune.force
  BY DEF PruneType, Init, IdlePrune
<1>15. PullType /\ ~pull.on /\ pull.watch = {}
  <2>1. EmptyTree \in Trees
    BY DEF EmptyTree, Trees
  <2> QED BY <2>1 DEF PullType, Init, IdlePull
<1>16. FsckType /\ fsck.phase = "idle"
  <2>1. <<>> \in Seq(Oids)
    OBVIOUS
  <2> QED BY <2>1 DEF FsckType, Init, IdleFsck
<1>17. Held(commits, Range(branch)) \subseteq ObjectsIn(first)
  <2>1. From(commits, Range(branch)) \in SUBSET (1..Len(commits))
    BY <1>5, <1>8, FromFacts, RefsAreNumbers DEF Numbers
  <2> QED BY <1>2, <1>4, <2>1 DEF Held
<1>18. Published
  BY <1>7, <1>17 DEF Published, Init, first
<1>19. Checked
  BY <1>16 DEF Checked, Init
<1>20. Recent
  BY DEF Recent, Init, NoFetch
<1> QED BY <1>8, <1>11, <1>12, <1>13, <1>14, <1>15, <1>16, <1>18, <1>19, <1>20
        DEF IInv, TypeOK, Pushing, Keeping, Done, Pulling

\* A step that changes nothing keeps it.
LEMMA StutterIInv ==
  ASSUME IInv, UNCHANGED vars
  PROVE  IInv'
<1>1. /\ UNCHANGED <<conf, commits, next, branch, cur, linked, stash, day, remote, tracking, store, server, wt>>
      /\ UNCHANGED <<damaged, staged, fsck, sound, push, prune, fetch, pull, ever, blind, recentFetch>>
  BY DEF vars, gitVars, refVars, history, checkVars
<1>2. TypeOK'
  BY <1>1 DEF IInv, TypeOK, GitTypes, FileTypes, PushType, PruneType, PullType, FsckType, Numbers, HEAD
<1>3. WorkingTree' /\ Checked' /\ Published' /\ Pushing'
  BY <1>1 DEF IInv, WorkingTree, Checked, Published, Pushing, Index, HeadTree, LsTree, HEAD, TrackingTips
<1>4. Keeping'
  BY <1>1, KeepingStays DEF IInv
<1>5. Recent'
  BY <1>1, WantedStays DEF IInv, Recent
<1>6. Pulling'
  BY <1>1 DEF IInv, Pulling, PullQueue, PullFiles, PathsToPull, ToWrite, HeadTree, LsTree, HEAD
<1> QED BY <1>2, <1>3, <1>4, <1>5, <1>6 DEF IInv

\* The invariant of the repository: types, files, what is published, retained and pulled.
THEOREM Invariant == Spec => []IInv
<1>1. Init => IInv
  BY InitIInv
<1>2. ASSUME IInv, [Next]_vars PROVE IInv'
  <2>1. CASE UNCHANGED vars
    BY <1>2, <2>1, StutterIInv
  <2>2. CASE Next
    <3>1. TypeOK /\ WorkingTree /\ Checked /\ Published /\ Pushing /\ Keeping /\ Recent /\ Pulling
      BY <1>2 DEF IInv
    <3>2. TypeOK' /\ WorkingTree' /\ Checked'
      BY <2>2, <3>1, TypeStep, WorkingTreeStep, CheckedStep
    <3>3. Published' /\ Pushing' /\ Keeping' /\ Recent' /\ Pulling'
      BY <2>2, <3>1, PushStep, KeepingStep, RecentStep, PullingStep
    <3> QED BY <3>2, <3>3 DEF IInv
  <2> QED BY <1>2, <2>1, <2>2
<1> QED BY <1>1, <1>2, PTL DEF Spec

-----------------------------------------------------------------------------
(* The properties *)

\* Whatever pushes, deletions, garbage collections and prunes happened, what the remote's branches
\* need is on the server.
THEOREM PushCorrect == Spec => []PushedIsOnServer
<1>1. IInv => PushedIsOnServer
  BY ReachIs DEF IInv, Published, PushedIsOnServer
<1> QED BY <1>1, Invariant, PTL

\* A pull that reports success leaves every file in place that it checks out and that the user does
\* not change meanwhile, unless it printed an error for it, and no damaged one of a sound object.
THEOREM PullCorrect == Spec => []PullComplete
<1>1. ASSUME IInv PROVE PullComplete
  <2> SUFFICES ASSUME PullDone PROVE PullComplete
    BY DEF PullComplete
  <2>0. /\ GitTypes /\ FileTypes /\ WorkingTree /\ PullQueue /\ PullFiles /\ pull.todo = {} /\ pull.watch = {}
        /\ pull.queued \subseteq pull.done \cup pull.failed /\ HeadTree \in Trees /\ pull.trusted \subseteq Paths
    BY <1>1, HeadType DEF IInv, TypeOK, PullType, Pulling, PullDone
  <2> HIDE DEF HeadTree, Index
  <2>1. ASSUME pull.failed = {}, conf.installed, NEW p \in Paths \ (conf.exclude \cup pull.skipped \cup pull.touched),
               wt[p] \notin {Edited, CutOff}, <<p, "-">> \in LsFiles
        PROVE  FALSE
    <3>1. Index[p] # NoOid /\ wt[p] \notin {Content(Index[p]), Corrupt(Index[p])}
      BY <2>1 DEF LsFiles, LsFilesMarker
    <3>2. Index[p] = HeadTree[p] /\ wt[p] = Pointer(HeadTree[p])
      BY <2>0, <2>1, <3>1 DEF WorkingTree, FileFits
    <3>3. HeadTree[p] = pull.tree[p] /\ HeadTree[p] \in Oids
      BY <2>0, <2>1, <3>1, <3>2, TreeOids DEF PullFiles
    <3>4. p \in PathsToPull(pull.tree) /\ ToWrite(wt[p], pull.tree[p])
      BY <2>1, <3>1, <3>2, <3>3 DEF PathsToPull, ToWrite
    <3>5. p \in pull.ptr[pull.tree[p]]
      BY <2>0, <2>1, <3>4 DEF PullFiles
    <3>6. pull.tree[p] \in pull.queued /\ pull.tree[p] \notin pull.done
      BY <2>0, <3>3, <3>5 DEF PullQueue
    <3> QED BY <2>0, <2>1, <3>6
  <2>2. \A p \in pull.trusted \ pull.touched : wt[p] # Corrupt(HeadTree[p])
    BY <2>0 DEF PullFiles
  <2> QED BY <2>1, <2>2 DEF PullComplete
<1> QED BY <1>1, Invariant, PTL

\* Only prune's deletions take objects away while they change prune.
LEMMA PrunedByDelete ==
  ASSUME Next, NEW o \in Pruned
  PROVE  prune.phase = "delete" /\ o \in prune.prunable
<1>1. prune' # prune /\ o \in store \ store'
  BY DEF Pruned
<1>2. CASE \/ \E a \in conf.pruneArgs : PruneCommand(a.force, a.recent, a.verify, a.dryRun)
           \/ \E t \in prune.todo : PruneTask(t)
           \/ PruneStops \/ PruneSelect \/ FetchEnd
  BY <1>1, <1>2 DEF PruneCommand, PruneTask, PruneStops, PruneSelect, FetchEnd
<1>3. CASE \E x \in Oids : PruneDelete(x)
  BY <1>1, <1>3 DEF PruneDelete
<1>4. CASE Commit \/ Stash \/ \E b \in Branches : Merge(b) \/ Switch(b) \/ AddWorktree(b)
  BY <1>1, <1>4 DEF Commit, Add, Stash, Merge, Switch, AddWorktree
<1> QED BY <1>1, <1>2, <1>3, <1>4, PruneTouched

\* What is deleted was not retained, and all tasks have ended.
LEMMA DeletedWasNotRetained ==
  ASSUME IInv, Next, NEW o \in Pruned
  PROVE  /\ o \in prune.prunable /\ o \notin prune.retained /\ prune.phase = "delete" /\ \A t \in Tasks : Done(t)
BY PrunedByDelete DEF IInv, Keeping, Done

\* prune deletes no only copy of what a branch needs, but for what only a merge introduced and what
\* is committed or left while prune runs.
THEOREM PruneCorrect == Spec => PrunesOnlyPushed
<1> DEFINE A == ~conf.allowMissing =>
                  \A o \in (Pruned \cap Objects(Reach(Tips))) \ (MergeObjects \cup prune.late) :
                    o \in ever /\ (prune.verify /\ conf.exclude = {} => o \in server)
<1>1. ASSUME IInv, [Next]_vars PROVE [A]_vars
  <2> SUFFICES ASSUME Next, ~conf.allowMissing,
                      NEW o \in (Pruned \cap Objects(Reach(Tips))) \ (MergeObjects \cup prune.late)
               PROVE  o \in ever /\ (prune.verify /\ conf.exclude = {} => o \in server)
    BY <1>1
  <2>1. /\ o \in prune.prunable /\ o \notin prune.retained /\ prune.phase = "delete"
        /\ Done("unpushed") /\ Done("reachable")
    BY <1>1, DeletedWasNotRetained DEF Tasks
  <2>2. o \in Held(commits, Range(branch))
    <3>1. Objects(Reach(Tips)) = Held(commits, Tips)
      BY ReachIs
    <3>2. Held(commits, Tips) \subseteq Held(commits, Range(branch))
      BY FromMonotone DEF Tips
    <3> QED BY <3>1, <3>2
  <2> HIDE DEF Pruned, MergeObjects
  <2>3. o \in ever
    BY <1>1, <2>1, <2>2 DEF IInv, Keeping
  <2>4. prune.verify /\ conf.exclude = {} => o \in server
    BY <1>1, <2>1, <2>2 DEF IInv, Keeping
  <2> QED BY <2>3, <2>4
<1> QED BY <1>1, Invariant, PTL DEF Spec, PrunesOnlyPushed

\* prune keeps what stashes restore and what the checkouts use, but for what comes while it runs.
THEOREM PruneKeeps == Spec => PruneKeepsUsed
<1> DEFINE A == /\ Pruned \cap (StashObjects \ UNION {ObjectsIn(commits[s.base].tree) : s \in Stashed})
                     \subseteq prune.late
                /\ ~prune.force => Pruned \cap UNION {UsedBy(c) : c \in WorktreeHEADs} \subseteq prune.late
<1>1. ASSUME IInv, [Next]_vars PROVE [A]_vars
  <2> SUFFICES ASSUME Next, NEW o \in Pruned, o \notin prune.late
               PROVE  /\ o \notin StashObjects \ UNION {ObjectsIn(commits[s.base].tree) : s \in Stashed}
                      /\ ~prune.force => o \notin UNION {UsedBy(c) : c \in WorktreeHEADs}
    BY <1>1
  <2>0. GitTypes
    BY <1>1 DEF IInv, TypeOK
  <2>1. /\ o \in prune.prunable /\ o \notin prune.retained /\ prune.phase = "delete"
        /\ Done("refs") /\ Done("worktree") /\ Done("stashed")
    BY <1>1, DeletedWasNotRetained DEF Tasks
  <2> HIDE DEF Pruned
  <2>2. StashObjects \ UNION {ObjectsIn(commits[s.base].tree) : s \in Stashed} \subseteq ScanStashed
    <3> SUFFICES ASSUME NEW x, NEW s \in Stashed, x \in ObjectsIn(s.wip) \cup ObjectsIn(s.idx),
                        x \notin ObjectsIn(commits[s.base].tree)
                 PROVE  x \in Diff(s.wip, commits[s.base].tree) \cup Diff(s.idx, commits[s.base].tree)
      BY DEF StashObjects, ScanStashed
    <3>1. s.wip \in Trees /\ s.idx \in Trees /\ s.base \in Numbers \ {0}
      BY <2>0, StashTypes
    <3>2. commits[s.base].tree \in Trees
      BY <2>0, <3>1, HeadType, CommitType DEF GitTypes, Numbers
    <3> QED BY <3>1, <3>2, TreeOids DEF Diff
  <2>3. ScanStashed \subseteq prune.retained \cup prune.late
    BY <1>1, <2>1 DEF IInv, Keeping
  <2>4. ASSUME ~prune.force, NEW c \in WorktreeHEADs PROVE o \notin UsedBy(c)
    <3>1. RetainedAtRef(c) \subseteq prune.retained \cup prune.late
      BY <1>1, <2>1, <2>4 DEF IInv, Keeping
    <3>2. UsedBy(c) \subseteq RetainedAtRef(c)
      BY <2>0, <2>4, UsedIsScanned, RefsAreNumbers
    <3> QED BY <2>1, <3>1, <3>2
  <2> QED BY <2>1, <2>2, <2>3, <2>4
<1> QED BY <1>1, Invariant, PTL DEF Spec, PruneKeepsUsed

\* prune keeps what fetch --recent fetched, for the days of the offset.
THEOREM RecentKept == Spec => FetchedRecentKept
<1> DEFINE A == ~prune.recent /\ conf.exclude = {} /\ day <= recentFetch.day + conf.offset =>
                  Pruned \cap recentFetch.oids = {}
<1>1. ASSUME IInv, [Next]_vars PROVE [A]_vars
  <2> SUFFICES ASSUME Next, ~prune.recent, conf.exclude = {}, day <= recentFetch.day + conf.offset,
                      NEW o \in Pruned
               PROVE  o \notin recentFetch.oids
    BY <1>1
  <2>1. o \notin prune.retained /\ Done("refs")
    BY <1>1, DeletedWasNotRetained DEF Tasks
  <2> QED BY <1>1, <2>1 DEF IInv, Keeping
<1> QED BY <1>1, Invariant, PTL DEF Spec, FetchedRecentKept
=============================================================================

