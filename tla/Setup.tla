------------------------------- MODULE Setup --------------------------------
(***************************************************************************)
(* How a repository is set up for Git LFS: the hooks in .git/hooks, the    *)
(* filter.lfs section of the git configuration, the access keys, and the   *)
(* lines of the .gitattributes file in the working tree.  The commands are *)
(* install, update, uninstall, track and untrack.                          *)
(*                                                                         *)
(* What is in a hook or a filter key is one of a few kinds of text: what   *)
(* this version writes, what an older one wrote, or what the user put      *)
(* there.  A line of .gitattributes is a pattern and what it says of the   *)
(* filter attribute.                                                       *)
(***************************************************************************)
EXTENDS Integers, Sequences, SequencesExt

CONSTANTS
  HookTypes,      \* the hooks, in the order of LoadHooks
  PrePush,        \* the first of them, and the one that has older texts
  PathOrder,      \* the files of a tree, in its order
  NoExt, Ext      \* a path's extension pattern, NoExt for none

Paths == Range(PathOrder)
Patterns == Paths \cup {Ext[p] : p \in {q \in Paths : Ext[q] # NoExt}}

ASSUME SetupAssumption ==
  /\ HookTypes \in Seq(Range(HookTypes)) /\ HookTypes # <<>> /\ PrePush = Head(HookTypes)
  /\ IsInjective(HookTypes) /\ IsInjective(PathOrder)
  /\ DOMAIN Ext = Paths /\ NoExt \notin Paths

VARIABLES
  hooks,     \* text of each hook
  filter,    \* text of each filter.lfs key, by scope
  access,    \* the value of lfs.<url>.access
  wattrs,    \* lines of .gitattributes in the working tree
  touched    \* files git will look at again although nobody changed them

setupVars == <<hooks, filter, access, wattrs, touched>>

HookTexts == {"none", "empty", "ours", "old", "user"}
FilterKeys == {"clean", "smudge", "process", "required"}
FilterTexts == {"none", "ours", "skip", "old", "user"}
Scopes == {"global", "local"}
Kinds == {"lfs", "unset", "unspecified", "other"}
Lines == [pat : Patterns, kind : Kinds]

--------------------------------------------------------------------------
(* Hooks *)

\* LoadHooks: only the pre-push hook has texts of older versions.
Upgradeable(h) == IF h = PrePush THEN {"old"} ELSE {}

\* An existing hook counts as ours when it is empty or its text is the current one or an older one of ours.
MatchesCurrent(h) == hooks[h] \in {"ours", "empty"} \cup Upgradeable(h)

InstallErrs(h, force) == ~force /\ hooks[h] # "none" /\ ~MatchesCurrent(h)
UninstallErrs(h) == hooks[h] = "none" \/ ~MatchesCurrent(h)

\* The hooks a loop over all of them gets through before the first error.
BeforeFirst(erring) ==
  {HookTypes[i] : i \in {j \in 1..Len(HookTypes) : \A k \in 1..j : HookTypes[k] \notin erring}}

Installable(force) == BeforeFirst({h \in Range(HookTypes) : InstallErrs(h, force)})
Uninstallable == BeforeFirst({h \in Range(HookTypes) : UninstallErrs(h)})

InstallHooks(force) ==
  hooks' = [h \in Range(HookTypes) |-> IF h \in Installable(force) THEN "ours" ELSE hooks[h]]

UninstallHooks ==
  hooks' = [h \in Range(HookTypes) |-> IF h \in Uninstallable THEN "none" ELSE hooks[h]]

--------------------------------------------------------------------------
(* The filter.lfs section *)

Property(k, skip) == IF skip /\ k \in {"smudge", "process"} THEN "skip" ELSE "ours"

FilterUpgradeable(k, skip) ==
  CASE k = "required" -> {}
    [] k = "clean"    -> IF skip THEN {"ours"} ELSE {"old"}
    [] OTHER          -> {"old"} \cup (IF skip THEN {"ours"} ELSE {"skip"})

ShouldReset(value, k, skip) == value = "none" \/ value \in FilterUpgradeable(k, skip)

SetErrs(scope, k, skip, force) ==
  ~force /\ ~ShouldReset(filter[scope][k], k, skip) /\ filter[scope][k] # Property(k, skip)

\* The keys are a Go map: those that come before one that errs are any of the others.
FilterInstall(scope, skip, force, K) ==
  LET bad == {k \in FilterKeys : SetErrs(scope, k, skip, force)}
  IN /\ IF bad = {} THEN K = FilterKeys ELSE K \subseteq FilterKeys \ bad
     /\ filter' = [filter EXCEPT ![scope] =
                     [k \in FilterKeys |-> IF k \in K THEN Property(k, skip) ELSE @[k]]]

\* git runs the filter of the narrowest scope that has one.
Effective(k) == IF filter["local"][k] # "none" THEN filter["local"][k] ELSE filter["global"][k]
Cleans == Effective("process") \in {"ours", "skip", "old"} \/ Effective("clean") \in {"ours", "old"}

--------------------------------------------------------------------------
(* Lines of .gitattributes *)

Line(pat, kind) == [pat |-> pat, kind |-> kind]
Matches(pat, p) == pat = p \/ pat = Ext[p]
HasFilter(line) == line.kind # "other"

\* The last line that says something of the filter decides.
FilterIsLfs(attrs, p) ==
  LET Hit(l) == Matches(l.pat, p) /\ HasFilter(l)
      hits == SelectSeq(attrs, Hit)
  IN hits # <<>> /\ Last(hits).kind = "lfs"

\* track: any line with a filter attribute makes its pattern known.
Known(attrs, pat) == \E i \in 1..Len(attrs) : attrs[i].pat = pat /\ HasFilter(attrs[i])

TrackedLines(attrs, pat) ==
  LET same == {i \in 1..Len(attrs) : attrs[i].pat = pat}
      first == CHOOSE i \in same : \A j \in same : i <= j
  IN IF Known(attrs, pat) THEN attrs
     ELSE IF same # {} THEN [attrs EXCEPT ![first] = Line(pat, "lfs")]
     ELSE Append(attrs, Line(pat, "lfs"))

UntrackedLines(attrs, pat) ==
  LET Keep(l) == ~(l.kind = "lfs" /\ l.pat = pat) IN SelectSeq(attrs, Keep)

\* What git diffs as modified after track: files of the pattern, unless it was known or its line was only changed.
Touches(attrs, pat, tracked) ==
  IF \E i \in 1..Len(attrs) : attrs[i].pat = pat THEN {} ELSE {p \in tracked : Matches(pat, p)}

--------------------------------------------------------------------------
(* Commands *)

SetupInit(h, f, a) ==
  /\ hooks = h /\ filter = f /\ access = a /\ touched = {}

\* update: private access keys become basic, others that are not basic go; then the hooks.
FixAccess == access' = IF access \in {"private", "basic"} THEN "basic" ELSE "none"

Update(force) ==
  /\ FixAccess
  /\ InstallHooks(force)
  /\ UNCHANGED <<filter, wattrs, touched>>

\* install: the filter first, and the hooks only when all of its keys are set.
Install(scope, skip, force) ==
  \E K \in SUBSET FilterKeys :
    /\ FilterInstall(scope, skip, force, K)
    /\ IF K = FilterKeys THEN InstallHooks(force) /\ FixAccess ELSE UNCHANGED <<hooks, access>>
    /\ UNCHANGED <<wattrs, touched>>

\* uninstall: the whole section of the scope, then the hooks.
Uninstall(scope) ==
  /\ filter' = [filter EXCEPT ![scope] = [k \in FilterKeys |-> "none"]]
  /\ UninstallHooks
  /\ UNCHANGED <<access, wattrs, touched>>

\* track and untrack go on when the hooks cannot be installed.
Track(pat, tracked) ==
  /\ InstallHooks(FALSE)
  /\ wattrs' = TrackedLines(wattrs, pat)
  /\ touched' = touched \cup Touches(wattrs, pat, tracked)
  /\ UNCHANGED <<filter, access>>

Untrack(pat) ==
  /\ InstallHooks(FALSE)
  /\ wattrs' = UntrackedLines(wattrs, pat)
  /\ UNCHANGED <<filter, access, touched>>
=============================================================================
