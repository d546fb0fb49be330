--------------------------- MODULE MCRepository ---------------------------
(* Scenarios of a few commands each, over two paths that may share objects. *)
EXTENDS Repository, TLC

CONSTANTS o1, o2, o3, pa, pb, main, topic

MCPathOrder == <<pa, pb>>
MCOperations == {"total", "commit", "merge", "stash", "switch", "worktree", "edit", "tick",
                 "delete", "gc", "gitfetch", "push", "prune", "fetch", "checkout", "pull", "fault",
                 "stage", "damage", "fsck"}

Tree(x, y) == pa :> x @@ pb :> y
None == [op \in MCOperations |-> 0]
Once(ops) == [op \in ops |-> 1]
Args(force, recent, verify, dryRun) ==
  [force |-> force, recent |-> recent, verify |-> verify, dryRun |-> dryRun]
Plain == Args(FALSE, FALSE, "default", FALSE)
Force == Args(TRUE, FALSE, "default", FALSE)

Base == [script |-> <<Tree(o1, NoOid)>>, limit |-> None, cloned |-> TRUE, exclude |-> {},
         refsDays |-> 0, commitsDays |-> 0, offset |-> 0, remoteRefs |-> TRUE,
         allowMissing |-> FALSE, verifyAlways |-> FALSE, mergeEdits |-> FALSE,
         lsRemoteFails |-> FALSE, installed |-> TRUE, writeFails |-> FALSE, pruneArgs |-> {Plain}, fetchArgs |-> {<<"ref", FALSE>>},
         fsckArgs |-> {<<FALSE, TRUE>>}]

\* Two branches, merged, pushed together or alone while the remote deletes and collects.
Pushes == {[Base EXCEPT
  !.script = <<Tree(o1, NoOid), Tree(o2, NoOid), Tree(o1, o3)>>,
  !.allowMissing = m[1], !.lsRemoteFails = m[2], !.cloned = ~m[1],
  !.limit = "total" :> 6 @@ "commit" :> 2 @@ "switch" :> 2 @@ "push" :> 2
            @@ Once({"merge", "delete", "gc", "gitfetch", "fault"}) @@ None] :
  m \in {<<FALSE, FALSE>>, <<TRUE, FALSE>>, <<FALSE, TRUE>>}}

\* A merge that adds an object of its own.
Merges == {[Base EXCEPT
  !.script = <<Tree(o1, NoOid), Tree(o2, NoOid), Tree(o1, o1), Tree(o3, o1)>>, !.mergeEdits = TRUE,
  !.limit = "total" :> 6 @@ "commit" :> 2 @@ "switch" :> 2 @@ Once({"merge", "prune"}) @@ None,
  !.pruneArgs = {Force}]}

\* prune beside a push, with objects that the server may have dropped.
Prunes == {[Base EXCEPT
  !.script = <<Tree(o1, NoOid), Tree(o2, NoOid), Tree(o2, o3)>>, !.verifyAlways = v,
  !.limit = "total" :> 5 @@ "commit" :> 2
            @@ Once({"push", "switch", "delete", "gc", "prune", "fault"}) @@ None,
  !.pruneArgs = {IF v THEN Force ELSE Args(TRUE, FALSE, "never", FALSE)}] : v \in BOOLEAN}

\* Recent refs and commits, over days.
Recents == {[Base EXCEPT
  !.script = <<Tree(o1, NoOid), Tree(o2, NoOid), Tree(o3, m[4])>>,
  !.refsDays = m[1], !.commitsDays = m[2], !.offset = 1, !.remoteRefs = m[3],
  !.limit = "total" :> 5 @@ "commit" :> 2 @@ "tick" :> 2
            @@ Once({"switch", "push", "prune", "fetch"}) @@ None,
  !.pruneArgs = {Plain},
  !.fetchArgs = {<<"recent", FALSE>>}] :
  m \in {<<1, 0, TRUE, o2>>, <<1, 1, FALSE, NoOid>>}}

\* Stashes, a worktree and an excluded path.
Stashes == {[Base EXCEPT
  !.script = <<Tree(o1, o1), Tree(o2, o1), Tree(o3, o1)>>, !.exclude = e,
  !.limit = "total" :> 5
            @@ Once({"commit", "stash", "switch", "worktree", "push", "prune"}) @@ None,
  !.pruneArgs = {Plain, Force, Args(FALSE, TRUE, "ask", TRUE)}] : e \in {{}, {pa}}}

\* pull and checkout of two paths with one or two objects, with fetch and prune at once.
Pulls == {[Base EXCEPT
  !.script = <<m[1]>>, !.exclude = m[2], !.cloned = FALSE,
  !.limit = "total" :> 4
            @@ Once({"pull", "checkout", "edit", "prune", "fetch", "fault"}) @@ None,
  !.pruneArgs = {Plain, Force},
  !.fetchArgs = {<<"ref", TRUE>>, <<"all", FALSE>>}] :
  m \in {<<Tree(o1, o1), {}>>, <<Tree(o1, o1), {pa}>>, <<Tree(o1, o2), {}>>}}

\* Two pulls of files that cannot be written, and without the filters.
Unwritable == {[Base EXCEPT
  !.script = <<m>>, !.cloned = FALSE, !.writeFails = i, !.installed = i,
  !.limit = "total" :> 3 @@ "pull" :> 2 @@ Once({"checkout", "fetch", "prune"}) @@ None,
  !.pruneArgs = {Force}] : m \in {Tree(o1, o1), Tree(o1, o2)}, i \in BOOLEAN}

\* The user stages, commits and switches beside a pull and a prune.
Moves == {[Base EXCEPT
  !.script = <<Tree(o1, o1), m>>, !.cloned = FALSE,
  !.limit = "total" :> 5 @@ "switch" :> 2 @@ Once({"pull", "stage", "commit", "prune", "checkout"}) @@ None] :
  m \in {Tree(o2, o1), Tree(NoOid, o1)}}

\* The server has dropped what pull and fetch ask for.
Losses == {[Base EXCEPT !.cloned = FALSE,
  !.limit = "total" :> 4 @@ Once({"delete", "gc", "pull", "fetch"}) @@ None]}

\* fsck of objects that are damaged or missing beside fetch and pull.
Damages == {[Base EXCEPT
  !.script = <<m[1]>>, !.exclude = m[2], !.cloned = FALSE,
  !.limit = "total" :> 5 @@ "damage" :> 2 @@ Once({"fetch", "fsck", "pull"}) @@ None,
  !.fetchArgs = {<<"refs", FALSE>>}, !.fsckArgs = {<<FALSE, FALSE>>}] :
  m \in {<<Tree(o1, o2), {}>>, <<Tree(o1, o1), {pa}>>}}

\* fsck of an object whose first path is excluded and staged anew.
Shadows == {[Base EXCEPT
  !.script = <<Tree(o1, o1), Tree(o2, o1)>>, !.exclude = {pa}, !.cloned = FALSE,
  !.limit = "total" :> 5 @@ Once({"stage", "fetch", "damage", "fsck", "pull"}) @@ None,
  !.fetchArgs = {<<"refs", FALSE>>}]}

\* fsck of what is staged, beside prune and a push of damaged objects.
Stages == {[Base EXCEPT
  !.script = <<Tree(o1, NoOid), m>>,
  !.limit = "total" :> 5 @@ Once({"damage", "stage", "commit", "push", "prune", "fsck"}) @@ None,
  !.fsckArgs = {<<FALSE, TRUE>>, <<TRUE, TRUE>>}] : m \in {Tree(o2, o2), Tree(o1, o1)}}

MCScenarios == Pushes \cup Merges \cup Prunes \cup Recents \cup Stashes \cup Pulls \cup Unwritable \cup Moves \cup Losses
               \cup Damages \cup Shadows \cup Stages
=============================================================================
