------------------------------ MODULE MCMigrate ------------------------------
(* Small histories with branches, a merge and tags of tags, and the commands run on them. *)
EXTENDS Migrate, TLC

CONSTANTS o1, o2, o3, p, q, xe, main, topic, before, tagged, after, origin, prePush, postMerge

MCPathOrder == <<p, q>>
MCExt == p :> xe @@ q :> NoExt
MCHookTypes == <<prePush, postMerge>>
MCLocalRefs == <<main, topic, before, tagged, after>>

Cmds == {"commit", "push", "remote", "setup", "migrate", "kill", "norewrite"}
None == [c \in Cmds |-> 0]

Raw(o) == [oid |-> o, ptr |-> FALSE]
Ptr(o) == [oid |-> o, ptr |-> TRUE]
Tree(x, y, attrs) == [files |-> p :> x @@ q :> y, attrs |-> attrs]
Com(n, parents, tree) == [made |-> n, parents |-> parents, tree |-> tree]

\* Two branches that meet in a merge.
Merged(attrs) ==
  <<Com(1, <<>>, Tree(Raw(o1), NoBlob, attrs)), Com(2, <<1>>, Tree(Raw(o2), NoBlob, attrs)),
    Com(3, <<1>>, Tree(Raw(o1), Raw(o1), attrs)), Com(4, <<2, 3>>, Tree(Raw(o2), Raw(o1), attrs))>>

\* A tag of commit 2, and two tags of that tag.
Tags == <<[name |-> tagged, type |-> "commit", obj |-> CommitRef(2)],
          [name |-> before, type |-> "tag", obj |-> TagRef(1)],
          [name |-> after, type |-> "tag", obj |-> TagRef(1)]>>
\* git tag -f has moved the inner tag, or replaced it by a lightweight one; outer tags stay.
Retags == Append(Tags, [name |-> tagged, type |-> "commit", obj |-> CommitRef(3)])
Refs(m, t, o) == main :> m @@ topic :> t @@ origin :> o
                 @@ [r \in {before, tagged, after} |-> NoRef]
TagRefsOf(in) == before :> TagRef(2) @@ tagged :> in @@ after :> TagRef(3)

Opt == [cmd |-> "import", everything |-> FALSE, args |-> {}, includeRefs |-> {}, excludeRefs |-> {},
        skipFetch |-> FALSE, include |-> <<>>, exclude |-> <<>>, above |-> FALSE, fixup |-> FALSE,
        yes |-> TRUE, map |-> FALSE]
All == [Opt EXCEPT !.everything = TRUE]
Export(i, e) == [All EXCEPT !.cmd = "export", !.include = i, !.exclude = e]

NoFilter == [s \in Scopes |-> [k \in FilterKeys |-> "none"]]
Installed == [NoFilter EXCEPT !["global"] = [k \in FilterKeys |-> "ours"]]

Base == [commits |-> Merged(<<>>), tags |-> Tags,
         refs |-> TagRefsOf(TagRef(1)) @@ Refs(CommitRef(4), CommitRef(3), NoRef),
         head |-> main, remote |-> <<>>, follows |-> origin :> main,
         store |-> {}, server |-> {}, edits |-> {p :> o3 @@ q :> o1}, force |-> {FALSE},
         hooks |-> prePush :> "none" @@ postMerge :> "none", filter |-> Installed, access |-> "none",
         options |-> {All}, limit |-> None]

\* Imports of everything, of a branch, of some files or of large ones, run again after a kill.
Imports == {[Base EXCEPT !.options = O, !.limit = "migrate" :> 2 @@ "kill" :> 1 @@ "commit" :> 1 @@ None] :
  O \in {{All, [All EXCEPT !.map = TRUE]}, {[All EXCEPT !.include = <<xe>>], Opt}, {[All EXCEPT !.above = TRUE]},
         {[All EXCEPT !.include = <<xe>>, !.exclude = <<q>>, !.map = TRUE], [All EXCEPT !.cmd = "info"]},
         {[Opt EXCEPT !.args = {topic}], [Opt EXCEPT !.includeRefs = {main}, !.excludeRefs = {topic}]}}}

\* The inner tag's ref is gone, names another tag or a commit; the outer tag has a lightweight tag of its own.
Replaced == {[Base EXCEPT !.tags = Retags, !.refs = TagRefsOf(v) @@ Base.refs,
    !.limit = "migrate" :> 2 @@ "commit" :> 1 @@ None] : v \in {NoRef, TagRef(4), CommitRef(3), TagRef(3)}}

\* Part of the history is on the remote, which moves on.
Published == {[Base EXCEPT !.remote = main :> n, !.refs[origin] = CommitRef(1),
    !.options = {Opt, [Opt EXCEPT !.skipFetch = TRUE], [Opt EXCEPT !.args = {topic}], All},
    !.limit = "migrate" :> 1 @@ "remote" :> 1 @@ "push" :> 1 @@ "commit" :> 1 @@ None] : n \in {1, 2}}

\* Exports of a history with pointers, some of whose objects are only on the server, or nowhere.
LfsLines == <<Line(xe, "lfs"), Line(q, "lfs")>>
Pointed(y) ==
  <<Com(1, <<>>, Tree(Ptr(o1), NoBlob, LfsLines)), Com(2, <<1>>, Tree(Ptr(o2), NoBlob, LfsLines)),
    Com(3, <<1>>, Tree(Ptr(o1), Ptr(y), LfsLines)), Com(4, <<2, 3>>, Tree(Ptr(o2), Ptr(y), LfsLines))>>
Exports == {[Base EXCEPT !.commits = Pointed(m[3]),
    !.remote = main :> 2, !.refs[origin] = CommitRef(2), !.hooks[prePush] = m[1],
    !.store = m[2], !.server = {o1, o2},
    !.options = {Export(<<xe>>, <<>>), Export(<<xe>>, <<q>>), Export(<<q>>, <<>>), Export(<<>>, <<>>),
                 [Export(<<xe>>, <<>>) EXCEPT !.everything = FALSE], [All EXCEPT !.include = <<xe>>]},
    !.limit = "migrate" :> 2 @@ "push" :> 1 @@ "kill" :> 1 @@ None] :
  m \in {<<"ours", {o3}, o3>>, <<"ours", {o2}, o1>>, <<"user", {o1}, o3>>}}

\* Setting up, tracking, committing, importing and pushing, with hooks and filters in any state.
Line1 == <<Com(1, <<>>, Tree(Raw(o1), NoBlob, <<Line(xe, "other")>>)),
           Com(2, <<1>>, Tree(Raw(o2), Raw(o1), <<Line(xe, "other"), Line(q, "unset")>>))>>
Setups == {[Base EXCEPT !.commits = Line1, !.tags = <<>>, !.refs = Refs(CommitRef(2), NoRef, NoRef),
    !.hooks = prePush :> m[1] @@ postMerge :> m[2], !.filter["global"] = m[3], !.access = m[4], !.force = m[5],
    !.options = {Opt, [Opt EXCEPT !.everything = TRUE, !.args = {main}], [Opt EXCEPT !.args = {topic}],
                 [Opt EXCEPT !.fixup = TRUE]},
    !.limit = "setup" :> 2 @@ "commit" :> 1 @@ "migrate" :> 1 @@ "push" :> 1 @@ "norewrite" :> 1 @@ None] :
  m \in {<<"old", "empty", [k \in FilterKeys |-> "old"], "private", {FALSE}>>,
         <<"none", "user", "required" :> "user" @@ [k \in FilterKeys |-> "none"], "other", BOOLEAN>>,
         <<"none", "old", "clean" :> "user" @@ [k \in FilterKeys |-> "skip"], "basic", {FALSE}>>}}

\* Exports beside a merge that has an object of its own, which the next commit drops.
MergeBrings ==
  <<Com(1, <<>>, Tree(Ptr(o1), NoBlob, LfsLines)), Com(2, <<1>>, Tree(Ptr(o1), Ptr(o1), LfsLines)),
    Com(3, <<1>>, Tree(Ptr(o2), NoBlob, LfsLines)), Com(4, <<2, 3>>, Tree(Ptr(o3), Ptr(o1), LfsLines)),
    Com(5, <<4>>, Tree(Ptr(o1), Ptr(o1), LfsLines))>>
Merges == {[Base EXCEPT !.commits = MergeBrings, !.tags = <<>>, !.refs = Refs(CommitRef(5), CommitRef(3), NoRef),
    !.hooks[prePush] = "ours", !.store = {o1, o2, o3}, !.options = {Export(<<q>>, <<>>), Export(<<xe>>, <<>>)},
    !.limit = "migrate" :> 2 @@ "push" :> 1 @@ None]}

MCScenarios == Imports \cup Replaced \cup Published \cup Exports \cup Merges \cup Setups

\* A file that later commits give to Git LFS: for --fixup.
Fixups == {[Base EXCEPT !.commits =
    <<Com(1, <<>>, Tree(Raw(o1), NoBlob, <<>>)), Com(2, <<1>>, Tree(Raw(o1), Raw(o2), <<Line(xe, "lfs")>>))>>,
    !.tags = <<>>, !.refs = Refs(CommitRef(2), NoRef, NoRef),
    !.options = {[All EXCEPT !.fixup = TRUE]}, !.limit = "migrate" :> 1 @@ None]}
=============================================================================
