--------------------------- MODULE MigrateProofs ---------------------------
(***************************************************************************)
(* Proofs about migrations, for any history, refs, tags and options of a   *)
(* repository that MigrateAssumption describes.                            *)
(***************************************************************************)
EXTENDS Migrate, FunctionTheorems, SequenceTheorems, WellFoundedInduction, TLAPS

Files == [Paths -> Blobs \cup {NoBlob}]
Local == Range(LocalRefs)

\* A sequence of anything.
IsSeq(s) == s \in Seq(Range(s))

\* Commit c of cs has its fields, and parents that come before it.
Sound(cs, c) ==
  /\ cs[c] = [made |-> cs[c].made, parents |-> cs[c].parents,
              tree |-> [files |-> cs[c].tree.files, attrs |-> cs[c].tree.attrs]]
  /\ cs[c].made \in 1..Len(cs) /\ cs[c].parents \in Seq(1..(c - 1)) /\ cs[c].tree.files \in Files

\* Faithful, of commit c of cs.
Kept(cs, c) ==
  LET made == cs[cs[c].made]
      mine == cs[c].parents
  IN /\ Contents(cs[c].tree.files) = Contents(made.tree.files)
     /\ Len(mine) = Len(made.parents)
     /\ \A i \in 1..Len(mine) : cs[mine[i]].made = cs[made.parents[i]].made

IsHistory(cs) == IsSeq(cs) /\ \A c \in 1..Len(cs) : Sound(cs, c) /\ Kept(cs, c)

\* What the recursive definition says, and its value.
IsAncestors(cs, f) == f = [c \in 1..Len(cs) |-> {c} \cup UNION {f[p] : p \in Range(cs[c].parents)}]
AncestorsIn(cs) == CHOOSE f : IsAncestors(cs, f)

\* The least set of commits that has c and the parents of its members.
Closed(cs, S) == \A c \in S : Range(cs[c].parents) \subseteq S
Above(cs, c) ==
  {d \in 1..Len(cs) : \A S \in SUBSET (1..Len(cs)) : c \in S /\ Closed(cs, S) => d \in S}

\* Tags of n commits, and of tags that come before them.
IsTags(ts, n) ==
  /\ IsSeq(ts)
  /\ \A i \in 1..Len(ts) :
       /\ ts[i] = [name |-> ts[i].name, type |-> ts[i].type, obj |-> ts[i].obj]
       /\ ts[i].name \in TagRefs /\ ts[i].obj \in Values /\ ts[i].type \in {"commit", "tag"}
       /\ IsCommit(ts[i].obj) => ts[i].obj.n \in 1..n
       /\ ~IsCommit(ts[i].obj) => ts[i].type = "tag" /\ ts[i].obj.n \in 1..(i - 1)

\* What the recursive definition of PeelTag says, for the first k tags, and its value.
PeelsFirst(ts, k, f) ==
  f = [i \in 1..k |-> IF IsCommit(ts[i].obj) THEN ts[i].obj.n ELSE f[ts[i].obj.n]]
PeelIn(ts) == CHOOSE f : PeelsFirst(ts, Len(ts), f)

-----------------------------------------------------------------------------
(* Sequences *)

Less == {ss \in Nat \X Nat : ss[1] < ss[2]}

\* The order of the naturals is well-founded, as a set of pairs.
LEMMA LessWellFounded == IsWellFoundedOn(Less, Nat)
BY NatLessThanWellFounded DEF OpToRel, Less

\* A set of numbers has a least one.
LEMMA LeastExists ==
  ASSUME NEW B \in SUBSET Nat, B # {}
  PROVE  \E c \in B : \A d \in B : ~(d < c)
<1>1. PICK b : b \in B
  OBVIOUS
<1>2. \E c \in B : \A d \in B : ~(<<d, c>> \in Less)
  BY <1>1, WFMin, LessWellFounded, Zenon
<1> QED BY <1>2 DEF Less

\* A sequence of anything has a length, and appending to it keeps what it has.
LEMMA Appended ==
  ASSUME NEW s, IsSeq(s), NEW x
  PROVE  /\ Len(s) \in Nat /\ IsSeq(Append(s, x)) /\ Len(Append(s, x)) = Len(s) + 1
         /\ Append(s, x)[Len(s) + 1] = x /\ \A i \in 1..Len(s) : Append(s, x)[i] = s[i]
<1> DEFINE S == Range(s) \cup {x}
<1>1. s \in Seq(S) /\ x \in S
  <2>1. s \in Seq(Range(s)) /\ Range(s) \subseteq S
    BY DEF IsSeq
  <2> QED BY <2>1, SeqMonotonic
<1>2. /\ Len(s) \in Nat /\ Append(s, x) \in Seq(S) /\ Len(Append(s, x)) = Len(s) + 1
      /\ Append(s, x)[Len(s) + 1] = x /\ \A i \in 1..Len(s) : Append(s, x)[i] = s[i]
  <2> HIDE DEF S
  <2> QED BY <1>1, AppendProperties
<1>3. IsSeq(Append(s, x))
  <2> HIDE DEF S
  <2> QED BY <1>2, SeqOfRange DEF IsSeq
<1> QED BY <1>2, <1>3

\* A sequence of some type is one of anything.
LEMMA TypedIsSeq ==
  ASSUME NEW S, NEW s \in Seq(S)
  PROVE  IsSeq(s) /\ Len(s) \in Nat /\ \A i \in 1..Len(s) : s[i] \in S
<1>1. IsSeq(s)
  BY SeqOfRange DEF IsSeq
<1> QED BY <1>1

-----------------------------------------------------------------------------
(* Tags *)

\* A tag's fields.
LEMMA TagFacts ==
  ASSUME NEW ts, NEW n, IsTags(ts, n), NEW i \in 1..Len(ts)
  PROVE  /\ Len(ts) \in Nat /\ ts[i] = [name |-> ts[i].name, type |-> ts[i].type, obj |-> ts[i].obj]
         /\ ts[i].name \in TagRefs /\ ts[i].obj \in Values /\ ts[i].type \in {"commit", "tag"}
         /\ IsCommit(ts[i].obj) => ts[i].obj.n \in 1..n
         /\ ~IsCommit(ts[i].obj) => ts[i].type = "tag" /\ ts[i].obj.n \in 1..(i - 1) /\ ts[i].obj.n \in 1..Len(ts)
<1>1. Len(ts) \in Nat
  BY DEF IsTags, IsSeq
<1>2. /\ ts[i] = [name |-> ts[i].name, type |-> ts[i].type, obj |-> ts[i].obj]
      /\ ts[i].name \in TagRefs /\ ts[i].obj \in Values /\ ts[i].type \in {"commit", "tag"}
  BY DEF IsTags
<1>3. /\ IsCommit(ts[i].obj) => ts[i].obj.n \in 1..n
      /\ ~IsCommit(ts[i].obj) => ts[i].type = "tag" /\ ts[i].obj.n \in 1..(i - 1)
  BY DEF IsTags
<1>4. ~IsCommit(ts[i].obj) => ts[i].obj.n \in 1..Len(ts)
  BY <1>1, <1>3
<1> QED BY <1>1, <1>2, <1>3, <1>4

\* The recursive definition has a value, by the least number of tags that it would not have one for.
LEMMA PeelExists ==
  ASSUME NEW ts, NEW n \in Nat, IsTags(ts, n)
  PROVE  \E f : PeelsFirst(ts, Len(ts), f)
<1> DEFINE Some(k) == \E f : PeelsFirst(ts, k, f)
           B == {k \in 0..Len(ts) : ~Some(k)}
<1>0. Len(ts) \in Nat
  BY DEF IsTags, IsSeq
<1>1. SUFFICES ASSUME B # {} PROVE FALSE
  BY <1>0
<1>2. B \in SUBSET Nat
  BY <1>0
<1>3. PICK k \in B : \A d \in B : ~(d < k)
  <2> HIDE DEF B
  <2> QED BY <1>1, <1>2, LeastExists
<1>4. k # 0
  <2>1. PeelsFirst(ts, 0, <<>>)
    BY DEF PeelsFirst
  <2> QED BY <2>1, <1>3
<1>5. k \in 1..Len(ts) /\ k - 1 \in 0..Len(ts) /\ k \in Nat /\ Some(k - 1)
  BY <1>0, <1>3, <1>4
<1>6. PICK f : PeelsFirst(ts, k - 1, f)
  BY <1>5
<1> DEFINE v == IF IsCommit(ts[k].obj) THEN ts[k].obj.n ELSE f[ts[k].obj.n]
           g == [i \in 1..k |-> IF i = k THEN v ELSE f[i]]
<1>7. \A i \in 1..(k - 1) : f[i] = IF IsCommit(ts[i].obj) THEN ts[i].obj.n ELSE f[ts[i].obj.n]
  BY <1>6 DEF PeelsFirst
<1>8. \A i \in 1..k : ~IsCommit(ts[i].obj) => ts[i].obj.n \in 1..(i - 1)
  <2> SUFFICES ASSUME NEW i \in 1..k, ~IsCommit(ts[i].obj) PROVE ts[i].obj.n \in 1..(i - 1)
    OBVIOUS
  <2>1. i \in 1..Len(ts)
    BY <1>0, <1>5
  <2> QED BY <2>1, TagFacts
<1>9. \A i \in 1..k : g[i] = IF IsCommit(ts[i].obj) THEN ts[i].obj.n ELSE g[ts[i].obj.n]
  <2> SUFFICES ASSUME NEW i \in 1..k
               PROVE  g[i] = IF IsCommit(ts[i].obj) THEN ts[i].obj.n ELSE g[ts[i].obj.n]
    OBVIOUS
  <2>1. ~IsCommit(ts[i].obj) => g[ts[i].obj.n] = f[ts[i].obj.n]
    BY <1>5, <1>8
  <2>2. i # k => i \in 1..(k - 1)
    BY <1>5
  <2> QED BY <1>7, <2>1, <2>2
<1>10. PeelsFirst(ts, k, g)
  BY <1>9 DEF PeelsFirst
<1> QED BY <1>3, <1>10

\* PeelTag in these terms, in a state and the next.
LEMMA PeelTagIs == PeelTag = PeelIn(tags)
BY DEF PeelTag, PeelIn, PeelsFirst

\* The same in the next state.
LEMMA PeelTagIsPrimed == PeelTag' = PeelIn(tags')
BY DEF PeelTag, PeelIn, PeelsFirst

\* What it gives: a commit.
LEMMA PeelFacts ==
  ASSUME NEW ts, NEW n \in Nat, IsTags(ts, n)
  PROVE  \A i \in 1..Len(ts) :
           /\ PeelIn(ts)[i] = IF IsCommit(ts[i].obj) THEN ts[i].obj.n ELSE PeelIn(ts)[ts[i].obj.n]
           /\ PeelIn(ts)[i] \in 1..n
<1> DEFINE f == PeelIn(ts)
<1>1. PeelsFirst(ts, Len(ts), f)
  BY PeelExists, Zenon DEF PeelIn
<1> HIDE DEF f
<1>2. \A i \in 1..Len(ts) : f[i] = IF IsCommit(ts[i].obj) THEN ts[i].obj.n ELSE f[ts[i].obj.n]
  BY <1>1 DEF PeelsFirst
<1>3. \A i \in 1..Len(ts) : f[i] \in 1..n
  <2> DEFINE B == {i \in 1..Len(ts) : f[i] \notin 1..n}
  <2>0. Len(ts) \in Nat
    BY DEF IsTags, IsSeq
  <2>1. SUFFICES ASSUME B # {} PROVE FALSE
    OBVIOUS
  <2>2. B \in SUBSET Nat
    BY <2>0
  <2>3. PICK i \in B : \A d \in B : ~(d < i)
    <3> HIDE DEF B
    <3> QED BY <2>1, <2>2, LeastExists
  <2>4. IsCommit(ts[i].obj) => ts[i].obj.n \in 1..n
    BY <2>3, TagFacts
  <2>5. ~IsCommit(ts[i].obj) => ts[i].obj.n \in 1..(i - 1)
    BY <2>3, TagFacts
  <2>6. ~IsCommit(ts[i].obj) => f[ts[i].obj.n] \in 1..n
    BY <2>0, <2>3, <2>5
  <2> QED BY <1>2, <2>4, <2>6
<1> QED BY <1>2, <1>3 DEF f

\* A new tag leaves the others as they were.
LEMMA PeelStays ==
  ASSUME NEW ts, NEW us, NEW n \in Nat, NEW m \in Nat, IsTags(ts, n), IsTags(us, m),
         Len(ts) <= Len(us), \A i \in 1..Len(ts) : us[i] = ts[i]
  PROVE  \A i \in 1..Len(ts) : PeelIn(us)[i] = PeelIn(ts)[i]
<1> DEFINE f == PeelIn(ts)
           g == PeelIn(us)
           B == {i \in 1..Len(ts) : g[i] # f[i]}
<1>0. Len(ts) \in Nat /\ Len(us) \in Nat
  BY DEF IsTags, IsSeq
<1>1. \A i \in 1..Len(ts) : f[i] = IF IsCommit(ts[i].obj) THEN ts[i].obj.n ELSE f[ts[i].obj.n]
  BY PeelFacts
<1>2. \A i \in 1..Len(us) : g[i] = IF IsCommit(us[i].obj) THEN us[i].obj.n ELSE g[us[i].obj.n]
  BY PeelFacts
<1> HIDE DEF f, g
<1>3. SUFFICES ASSUME B # {} PROVE FALSE
  BY DEF f, g
<1>4. B \in SUBSET Nat
  BY <1>0
<1>5. PICK i \in B : \A d \in B : ~(d < i)
  <2> HIDE DEF B
  <2> QED BY <1>3, <1>4, LeastExists
<1>6. ~IsCommit(ts[i].obj) => ts[i].obj.n \in 1..(i - 1)
  BY <1>5, TagFacts
<1>7. ~IsCommit(ts[i].obj) => g[ts[i].obj.n] = f[ts[i].obj.n]
  BY <1>0, <1>5, <1>6
<1>8. i \in 1..Len(us) /\ us[i] = ts[i]
  BY <1>0
<1> QED BY <1>1, <1>2, <1>7, <1>8

-----------------------------------------------------------------------------
(* Histories *)

\* The model's function is the one that AncestorsIn names.
LEMMA AncestorsAre == Ancestors = AncestorsIn(commits)
BY DEF Ancestors, AncestorsIn, IsAncestors

\* The same in the next state.
LEMMA AncestorsArePrimed == Ancestors' = AncestorsIn(commits')
BY DEF Ancestors, AncestorsIn, IsAncestors

\* Parents are commits, and earlier ones.
LEMMA ParentsBefore ==
  ASSUME NEW cs, IsHistory(cs)
  PROVE  /\ Len(cs) \in Nat
         /\ \A c \in 1..Len(cs) : \A p \in Range(cs[c].parents) :
              p \in Nat /\ c \in Nat /\ p < c /\ p \in 1..Len(cs)
<1>1. Len(cs) \in Nat
  BY DEF IsHistory, IsSeq
<1>2. ASSUME NEW c \in 1..Len(cs), NEW p \in Range(cs[c].parents)
      PROVE  p \in 1..(c - 1)
  <2>1. cs[c].parents \in Seq(1..(c - 1))
    BY DEF IsHistory, Sound
  <2> QED BY <2>1 DEF Range
<1> QED BY <1>1, <1>2

\* The sets Above satisfy the equation.
LEMMA AboveStep ==
  ASSUME NEW cs, IsHistory(cs), NEW c \in 1..Len(cs)
  PROVE  Above(cs, c) = {c} \cup UNION {Above(cs, p) : p \in Range(cs[c].parents)}
<1> DEFINE N == 1..Len(cs)
           U == {c} \cup UNION {Above(cs, p) : p \in Range(cs[c].parents)}
<1>1. \A d \in N : Range(cs[d].parents) \subseteq N
  BY ParentsBefore
<1>2. c \in Above(cs, c)
  BY DEF Above
<1>3. ASSUME NEW p \in Range(cs[c].parents) PROVE Above(cs, p) \subseteq Above(cs, c)
  BY <1>3 DEF Above, Closed
<1>4. Above(cs, c) \subseteq U
  <2>1. U \in SUBSET N
    BY DEF Above
  <2>2. Closed(cs, U)
    <3> SUFFICES ASSUME NEW d \in U, NEW q \in Range(cs[d].parents) PROVE q \in U
      BY DEF Closed
    <3>1. CASE d = c
      <4>1. q \in Above(cs, q)
        BY <1>1, <2>1 DEF Above
      <4> QED BY <4>1, <3>1
    <3>2. CASE d # c
      <4>1. PICK p \in Range(cs[c].parents) : d \in Above(cs, p)
        BY <3>2
      <4>2. q \in Above(cs, p)
        BY <4>1, <1>1 DEF Above, Closed
      <4> QED BY <4>2
    <3> QED BY <3>1, <3>2
  <2> HIDE DEF U
  <2>3. c \in U
    BY DEF U
  <2> QED BY <2>1, <2>2, <2>3 DEF Above
<1> QED BY <1>2, <1>3, <1>4

\* The recursive function gives them: it is shown by its least value that differs.
LEMMA AncestorsAbove ==
  ASSUME NEW cs, IsHistory(cs)
  PROVE  /\ DOMAIN AncestorsIn(cs) = 1..Len(cs)
         /\ \A c \in 1..Len(cs) : AncestorsIn(cs)[c] = Above(cs, c)
<1> DEFINE f == AncestorsIn(cs)
           g == [c \in 1..Len(cs) |-> Above(cs, c)]
<1>1. IsAncestors(cs, g)
  <2>1. \A c \in 1..Len(cs) : g[c] = {c} \cup UNION {g[p] : p \in Range(cs[c].parents)}
    <3> SUFFICES ASSUME NEW c \in 1..Len(cs)
                 PROVE g[c] = {c} \cup UNION {g[p] : p \in Range(cs[c].parents)}
      OBVIOUS
    <3>1. \A p \in Range(cs[c].parents) : g[p] = Above(cs, p)
      BY ParentsBefore
    <3>2. {g[p] : p \in Range(cs[c].parents)} = {Above(cs, p) : p \in Range(cs[c].parents)}
      BY <3>1
    <3> QED BY <3>2, AboveStep
  <2> QED BY <2>1 DEF IsAncestors
<1>2. IsAncestors(cs, f)
  <2> HIDE DEF g
  <2> QED BY <1>1, Zenon DEF AncestorsIn
<1>3. DOMAIN f = 1..Len(cs)
  <2> HIDE DEF f
  <2> QED BY <1>2 DEF IsAncestors
<1>4. \A c \in 1..Len(cs) : f[c] = {c} \cup UNION {f[p] : p \in Range(cs[c].parents)}
  <2> HIDE DEF f
  <2> QED BY <1>2 DEF IsAncestors
<1>5. \A c \in 1..Len(cs) : f[c] = Above(cs, c)
  <2> HIDE DEF f, g
  <2> DEFINE B == {c \in 1..Len(cs) : f[c] # Above(cs, c)}
  <2>1. SUFFICES ASSUME B # {} PROVE FALSE
    OBVIOUS
  <2>2. B \in SUBSET Nat
    BY ParentsBefore
  <2>3. PICK c \in B : \A d \in B : ~(d < c)
    <3> HIDE DEF B
    <3> QED BY <2>1, <2>2, LeastExists
  <2>4. \A p \in Range(cs[c].parents) : f[p] = Above(cs, p)
    <3> SUFFICES ASSUME NEW p \in Range(cs[c].parents) PROVE f[p] = Above(cs, p)
      OBVIOUS
    <3>1. p \in 1..Len(cs) /\ p < c /\ c \in Nat /\ p \in Nat
      BY ParentsBefore
    <3> QED BY <2>3, <3>1
  <2>5. {f[p] : p \in Range(cs[c].parents)} = {Above(cs, p) : p \in Range(cs[c].parents)}
    BY <2>4
  <2> QED BY <2>5, <1>4, AboveStep
<1> QED BY <1>3, <1>5

\* A commit is its own ancestor, and the parents of an ancestor are ancestors.
LEMMA AncestorFacts ==
  ASSUME NEW cs, IsHistory(cs), NEW c \in 1..Len(cs)
  PROVE  /\ AncestorsIn(cs)[c] \in SUBSET (1..Len(cs)) /\ c \in AncestorsIn(cs)[c]
         /\ \A d \in AncestorsIn(cs)[c] : Range(cs[d].parents) \subseteq AncestorsIn(cs)[c]
         /\ AncestorsIn(cs)[c] = {c} \cup UNION {AncestorsIn(cs)[p] : p \in Range(cs[c].parents)}
<1>0. Len(cs) \in Nat /\ \A d \in 1..Len(cs) : Range(cs[d].parents) \subseteq 1..Len(cs)
  BY ParentsBefore
<1>1. \A d \in 1..Len(cs) : AncestorsIn(cs)[d] = Above(cs, d)
  BY AncestorsAbove
<1>2. Above(cs, c) \in SUBSET (1..Len(cs)) /\ c \in Above(cs, c)
  BY <1>0 DEF Above
<1>3. ASSUME NEW d \in Above(cs, c), NEW p \in Range(cs[d].parents)
      PROVE  p \in Above(cs, c)
  BY <1>0, <1>2 DEF Above, Closed
<1>4. {AncestorsIn(cs)[p] : p \in Range(cs[c].parents)} = {Above(cs, p) : p \in Range(cs[c].parents)}
  BY <1>0, <1>1
<1> QED BY <1>1, <1>2, <1>3, <1>4, AboveStep

\* More commits leave the history of the others as it was.
LEMMA AncestorsStay ==
  ASSUME NEW cs, NEW ds, IsHistory(cs), IsHistory(ds), Len(cs) <= Len(ds),
         \A c \in 1..Len(cs) : ds[c] = cs[c]
  PROVE  \A c \in 1..Len(cs) : AncestorsIn(ds)[c] = AncestorsIn(cs)[c]
<1>0. /\ Len(cs) \in Nat /\ 1..Len(cs) \subseteq 1..Len(ds)
      /\ \A c \in 1..Len(cs) : Range(cs[c].parents) \subseteq 1..Len(cs)
  BY ParentsBefore
<1>1. ASSUME NEW c \in 1..Len(cs)
      PROVE  Above(ds, c) = Above(cs, c)
  <2>1. ASSUME NEW d \in Above(ds, c)
        PROVE  d \in Above(cs, c)
    <3>1. Closed(ds, 1..Len(cs))
      BY <1>0 DEF Closed
    <3>2. d \in 1..Len(cs)
      BY <1>0, <3>1, <2>1 DEF Above
    <3>3. ASSUME NEW S \in SUBSET (1..Len(cs)), c \in S, Closed(cs, S)
          PROVE  d \in S
      <4>1. S \in SUBSET (1..Len(ds)) /\ Closed(ds, S)
        BY <1>0, <3>3 DEF Closed
      <4> QED BY <4>1, <3>3, <2>1 DEF Above
    <3> QED BY <3>2, <3>3 DEF Above
  <2>2. ASSUME NEW d \in Above(cs, c)
        PROVE  d \in Above(ds, c)
    <3>1. d \in 1..Len(ds)
      BY <1>0, <2>2 DEF Above
    <3>2. ASSUME NEW S \in SUBSET (1..Len(ds)), c \in S, Closed(ds, S)
          PROVE  d \in S
      <4> DEFINE T == S \cap (1..Len(cs))
      <4>1. T \in SUBSET (1..Len(cs)) /\ c \in T /\ Closed(cs, T)
        BY <1>0, <3>2 DEF Closed
      <4> QED BY <4>1, <2>2 DEF Above
    <3> QED BY <3>1, <3>2 DEF Above
  <2> QED BY <2>1, <2>2
<1> QED BY <1>0, <1>1, AncestorsAbove

\* A commit that may be added to a history: one that is made first, or a version of one that was.
Addable(cs, x) ==
  /\ x = [made |-> x.made, parents |-> x.parents,
          tree |-> [files |-> x.tree.files, attrs |-> x.tree.attrs]]
  /\ x.parents \in Seq(1..Len(cs)) /\ x.tree.files \in Files /\ x.made \in 1..(Len(cs) + 1)
  /\ x.made # Len(cs) + 1 =>
       /\ Contents(x.tree.files) = Contents(cs[x.made].tree.files)
       /\ Len(x.parents) = Len(cs[x.made].parents)
       /\ \A i \in 1..Len(x.parents) : cs[x.parents[i]].made = cs[cs[x.made].parents[i]].made

\* The history ds is cs, or has more commits.
Extends(cs, ds) == IsHistory(ds) /\ Len(cs) <= Len(ds) /\ \A c \in 1..Len(cs) : ds[c] = cs[c]

\* Adding it gives a history.
LEMMA HistoryGrows ==
  ASSUME NEW cs, IsHistory(cs), NEW x, Addable(cs, x), NEW ds, ds = Append(cs, x)
  PROVE  Extends(cs, ds) /\ Len(ds) = Len(cs) + 1 /\ ds[Len(cs) + 1] = x
<1>0. /\ x = [made |-> x.made, parents |-> x.parents,
              tree |-> [files |-> x.tree.files, attrs |-> x.tree.attrs]]
      /\ x.parents \in Seq(1..Len(cs)) /\ x.tree.files \in Files /\ x.made \in 1..(Len(cs) + 1)
      /\ x.made # Len(cs) + 1 =>
           /\ Contents(x.tree.files) = Contents(cs[x.made].tree.files)
           /\ Len(x.parents) = Len(cs[x.made].parents)
           /\ \A i \in 1..Len(x.parents) : cs[x.parents[i]].made = cs[cs[x.made].parents[i]].made
  BY DEF Addable
<1>1. /\ Len(cs) \in Nat /\ IsSeq(ds) /\ Len(ds) = Len(cs) + 1
      /\ ds[Len(cs) + 1] = x /\ \A c \in 1..Len(cs) : ds[c] = cs[c]
  BY Appended DEF IsHistory
<1>2. ASSUME NEW c \in 1..Len(cs)
      PROVE  Sound(ds, c) /\ Kept(ds, c)
  <2>1. Sound(cs, c) /\ Kept(cs, c) /\ ds[c] = cs[c]
    BY <1>1 DEF IsHistory
  <2>2. cs[c].made \in 1..Len(cs) /\ ds[cs[c].made] = cs[cs[c].made]
    BY <1>1, <2>1 DEF Sound
  <2>3. Sound(ds, c)
    BY <1>1, <2>1 DEF Sound
  <2>4. \A i \in 1..Len(cs[c].parents) : cs[c].parents[i] \in 1..Len(cs)
    BY <1>1, <2>1 DEF Sound
  <2>5. Sound(cs, cs[c].made)
    BY <2>2 DEF IsHistory
  <2>6. \A i \in 1..Len(cs[c].parents) : cs[cs[c].made].parents[i] \in 1..Len(cs)
    <3>1. /\ Len(cs[cs[c].made].parents) = Len(cs[c].parents)
          /\ cs[cs[c].made].parents \in Seq(1..(cs[c].made - 1))
      BY <2>1, <2>5 DEF Sound, Kept
    <3>2. \A i \in 1..Len(cs[c].parents) : cs[cs[c].made].parents[i] \in 1..(cs[c].made - 1)
      BY <3>1, TypedIsSeq
    <3> QED BY <1>1, <2>2, <3>2
  <2>7. Kept(ds, c)
    <3> DEFINE m == cs[c].made
    <3>1. ds[c] = cs[c] /\ ds[m] = cs[m] /\ ds[ds[c].made] = cs[m]
      BY <2>1, <2>2
    <3>2. \A i \in 1..Len(cs[c].parents) :
            ds[cs[c].parents[i]] = cs[cs[c].parents[i]] /\ ds[cs[m].parents[i]] = cs[cs[m].parents[i]]
      BY <1>1, <2>4, <2>6
    <3>3. /\ Contents(cs[c].tree.files) = Contents(cs[m].tree.files)
          /\ Len(cs[c].parents) = Len(cs[m].parents)
          /\ \A i \in 1..Len(cs[c].parents) : cs[cs[c].parents[i]].made = cs[cs[m].parents[i]].made
      BY <2>1 DEF Kept
    <3>4. \A i \in 1..Len(ds[c].parents) : ds[ds[c].parents[i]].made = ds[ds[m].parents[i]].made
      <4> SUFFICES ASSUME NEW i \in 1..Len(cs[c].parents) PROVE ds[cs[c].parents[i]].made = ds[cs[m].parents[i]].made
        BY <3>1, Zenon
      <4> QED BY <3>2, <3>3, Zenon
    <3> HIDE DEF m
    <3> QED BY ONLY <3>1, <3>3, <3>4 DEF Kept
  <2> QED BY <2>3, <2>7
<1>3. Sound(ds, Len(cs) + 1)
  <2>1. x.parents \in Seq(1..((Len(cs) + 1) - 1))
    BY <1>0, <1>1
  <2> QED BY <1>0, <1>1, <2>1 DEF Sound
<1>4. CASE x.made = Len(cs) + 1
  <2>1. Kept(ds, Len(cs) + 1)
    BY <1>1, <1>4 DEF Kept
  <2> QED BY <1>1, <1>2, <1>3, <2>1 DEF IsHistory, Extends
<1>5. CASE x.made # Len(cs) + 1
  <2>1. x.made \in 1..Len(cs) /\ Sound(cs, x.made) /\ ds[x.made] = cs[x.made]
    BY <1>0, <1>1, <1>5 DEF IsHistory
  <2>2. \A i \in 1..Len(x.parents) :
          x.parents[i] \in 1..Len(cs) /\ cs[x.made].parents[i] \in 1..Len(cs)
    BY <1>0, <1>1, <1>5, <2>1 DEF Sound
  <2>3. Kept(ds, Len(cs) + 1)
    BY <1>0, <1>1, <1>5, <2>1, <2>2 DEF Kept
  <2> QED BY <1>1, <1>2, <1>3, <2>3 DEF IsHistory, Extends
<1> QED BY <1>1, <1>4, <1>5

-----------------------------------------------------------------------------
(* The inductive invariant *)

\* Refs of commits, and in refs/tags of tags.
IsRefs(rf, ts, n) ==
  /\ rf \in [Local \cup Remotes -> Values \cup {NoRef}]
  /\ \A r \in Local \cup Remotes : rf[r] # NoRef =>
       /\ IsCommit(rf[r]) => rf[r].n \in 1..n
       /\ ~IsCommit(rf[r]) => r \in TagRefs /\ rf[r].n \in 1..Len(ts)

GitOK(cs, ts, rf) == IsHistory(cs) /\ IsTags(ts, Len(cs)) /\ IsRefs(rf, ts, Len(cs))

\* The commit that v names, and what it was first made as.
PeelOf(ts, v) == IF IsCommit(v) THEN v.n ELSE PeelIn(ts)[v.n]
Made(cs, ts, v) == cs[PeelOf(ts, v)].made

\* FirstNested, FirstInner, Linked and Own, of scenario cf.
FirstTag(cf, r) == cf.tags[cf.refs[r].n]
NestedIn(cf, r) == cf.refs[r] # NoRef /\ cf.refs[r].t = "tag" /\ FirstTag(cf, r).type = "tag"
InnerIn(cf, r) == cf.tags[FirstTag(cf, r).obj.n].name
LinkedIn(cf, S) ==
  \A r \in S : NestedIn(cf, r) =>
    InnerIn(cf, r) \in S /\ cf.refs[InnerIn(cf, r)] \in {NoRef, FirstTag(cf, r).obj}
OwnIn(cf) == Branches \cup UNION {S \in SUBSET TagRefs : LinkedIn(cf, S)}

\* A tag with value v is as it was first: lightweight, of a commit, or of a tag of the same name.
ShapeOf(cf, ts, r, v) ==
  /\ cf.refs[r] # NoRef /\ v.t = cf.refs[r].t
  /\ ~IsCommit(v) => ts[v.n].name = FirstTag(cf, r).name /\ ts[v.n].type = FirstTag(cf, r).type
  /\ NestedIn(cf, r) => ~IsCommit(ts[v.n].obj) /\ ts[ts[v.n].obj.n].name = InnerIn(cf, r)

\* Branches and tags that are as they were first name what they are meant to.
NamedAs(cf, cs, ts, r, v, tg) == (r \in TagRefs => ShapeOf(cf, ts, r, v)) /\ Made(cs, ts, v) \in tg[r]
Named(cf, cs, ts, rf, tg) == \A r \in OwnIn(cf) : rf[r] # NoRef => NamedAs(cf, cs, ts, r, rf[r], tg)

\* A tag of a tag is meant to name what the inner tag is.
TargetOK(cf, tg) ==
  /\ tg = [r \in Local |-> tg[r]]
  /\ \A r \in OwnIn(cf) \cap TagRefs :
       NestedIn(cf, r) /\ cf.refs[InnerIn(cf, r)] # NoRef => tg[r] = tg[InnerIn(cf, r)]

\* What a migration has cached: versions of the same commit, and of the same blob.
CacheOK(cs, cache) ==
  \A c \in DOMAIN cache : c \in 1..Len(cs) /\ cache[c] \in 1..Len(cs) /\ cs[cache[c]].made = cs[c].made
EntriesOK(entries) ==
  \A key \in DOMAIN entries : key \in Paths \X Blobs /\ entries[key] \in Blobs /\ entries[key].oid = key[2].oid

RunFields == {"pc", "opt", "todo", "cache", "entries", "exts", "counted", "list", "listed", "stack", "seen"}

\* What it has listed are refs, which are still there.
MovesOK(q, cs, ts, rf) ==
  /\ IsRefs(q.listed, ts, Len(cs))
  /\ \A r \in Local \cup Remotes : q.listed[r] # NoRef => rf[r] # NoRef
  /\ \A i \in 1..Len(q.stack) : q.listed[q.stack[i]] # NoRef
  /\ \A r \in q.seen : r \in Local /\ rf[r] # NoRef

RunOK(q, cs, ts, rf) ==
  q # NoRun =>
    /\ q = [f \in RunFields |-> q[f]]
    /\ q.pc \in {"download", "rewrite", "refs"}
    /\ q.todo \subseteq 1..Len(cs) /\ CacheOK(cs, q.cache) /\ EntriesOK(q.entries)
    /\ q.list \in Seq(Local) /\ q.stack \in Seq(Local)
    /\ q.pc # "refs" => q.stack = <<>> /\ q.seen = {}
    /\ q.pc = "refs" => MovesOK(q, cs, ts, rf)

\* What it has listed was meant.
ListedOK(cf, cs, ts, q, tg) == q.pc = "refs" => Named(cf, cs, ts, q.listed, tg)

HeadOK(hd, rf) == hd \in Branches /\ rf[hd] # NoRef
RemoteOK(cs, rm) == \A b \in DOMAIN rm : rm[b] \in 1..Len(cs)

MigrateInv ==
  /\ conf \in Scenarios
  /\ GitOK(commits, tags, refs) /\ HeadOK(head, refs) /\ RemoteOK(commits, remote)
  /\ TargetOK(conf, target) /\ Named(conf, commits, tags, refs, target)
  /\ RunOK(run, commits, tags, refs) /\ ListedOK(conf, commits, tags, run, target)

-----------------------------------------------------------------------------
(* What the parts of the invariant say, and how they stay *)

\* The local refs, and which of them are branches.
LEMMA RefSets ==
  /\ TagRefs \subseteq Local /\ Branches = Local \ TagRefs /\ Remotes \cap Local = {}
  /\ NoRef \notin Values /\ NoBlob \notin Blobs /\ NoBlob \notin Oids /\ LocalRefs \in Seq(Local)
BY MigrateAssumption DEF Local, Branches

\* Own in these terms.
LEMMA OwnIs == Own = OwnIn(conf)
<1>1. \A r : FirstNested(r) <=> NestedIn(conf, r)
  BY DEF FirstNested, NestedIn, FirstTag
<1>2. \A r : FirstInner(r) = FirstTag(conf, r).obj /\ conf.tags[FirstInner(r).n].name = InnerIn(conf, r)
  BY DEF FirstInner, FirstTag, InnerIn
<1>3. \A S : Linked(S) <=> LinkedIn(conf, S)
  BY <1>1, <1>2 DEF Linked, LinkedIn
<1> QED BY <1>3 DEF Own, OwnIn

\* They are local refs.
LEMMA OwnLocal ==
  ASSUME NEW cf
  PROVE  OwnIn(cf) \subseteq Local /\ Branches \subseteq OwnIn(cf)
BY RefSets DEF OwnIn

\* A tag of a tag that is as it was first: the inner tag's ref names the inner tag, an earlier one.
LEMMA OwnInner ==
  ASSUME NEW cf \in Scenarios, NEW r \in OwnIn(cf), r \in TagRefs, NestedIn(cf, r)
  PROVE  /\ InnerIn(cf, r) \in OwnIn(cf) /\ InnerIn(cf, r) \in TagRefs
         /\ cf.refs[InnerIn(cf, r)] # NoRef =>
              /\ cf.refs[InnerIn(cf, r)] = FirstTag(cf, r).obj /\ cf.refs[InnerIn(cf, r)].t = "tag"
              /\ cf.refs[r].n \in Nat /\ cf.refs[InnerIn(cf, r)].n \in Nat
              /\ cf.refs[InnerIn(cf, r)].n < cf.refs[r].n
              /\ FirstTag(cf, InnerIn(cf, r)).name = InnerIn(cf, r)
<1> DEFINE s == InnerIn(cf, r)
           v == FirstTag(cf, r).obj
<1>1. PICK S \in SUBSET TagRefs : LinkedIn(cf, S) /\ r \in S
  BY RefSets DEF OwnIn
<1>2. s \in S /\ cf.refs[s] \in {NoRef, v}
  BY <1>1 DEF LinkedIn
<1>3. GoodTags(cf.tags, cf.commits) /\ GoodRefs(cf.tags, cf.commits, cf.refs)
  BY MigrateAssumption
<1>4. cf.refs[r].n \in 1..Len(cf.tags) /\ Len(cf.tags) \in Nat
  <2>1. r \in DOMAIN cf.refs
    BY <1>3, RefSets DEF GoodRefs, Local
  <2> QED BY <1>3, <2>1 DEF GoodRefs, GoodTags, NestedIn
<1>5. v.t = "tag" /\ v.n \in 1..(cf.refs[r].n - 1)
  BY <1>3, <1>4 DEF GoodTags, FirstTag, NestedIn
<1>6. cf.refs[s] = v => FirstTag(cf, s).name = s
  BY DEF FirstTag, InnerIn
<1>7. s \in OwnIn(cf) /\ s \in TagRefs
  BY <1>1, <1>2 DEF OwnIn
<1> HIDE DEF s, v
<1> QED BY <1>2, <1>4, <1>5, <1>6, <1>7 DEF s, v

\* A value of a ref names a commit.
LEMMA PeelOfRef ==
  ASSUME NEW cs, NEW ts, NEW rf, GitOK(cs, ts, rf), NEW r \in Local \cup Remotes, rf[r] # NoRef
  PROVE  /\ PeelOf(ts, rf[r]) \in 1..Len(cs) /\ Len(cs) \in Nat
         /\ rf[r] \in Values /\ rf[r] = [t |-> rf[r].t, n |-> rf[r].n]
         /\ ~IsCommit(rf[r]) => rf[r].t = "tag" /\ r \in TagRefs /\ rf[r].n \in 1..Len(ts)
<1>1. rf[r] \in Values
  BY DEF GitOK, IsRefs
<1>2. Len(cs) \in Nat
  BY ParentsBefore DEF GitOK
<1>3. IsCommit(rf[r]) => rf[r].n \in 1..Len(cs)
  BY DEF GitOK, IsRefs
<1>4. ~IsCommit(rf[r]) => rf[r].n \in 1..Len(ts) /\ r \in TagRefs
  BY DEF GitOK, IsRefs
<1>5. ~IsCommit(rf[r]) => PeelIn(ts)[rf[r].n] \in 1..Len(cs)
  BY <1>2, <1>4, PeelFacts DEF GitOK
<1>6. ~IsCommit(rf[r]) => rf[r].t = "tag"
  BY <1>1 DEF Values, IsCommit
<1>7. rf[r] = [t |-> rf[r].t, n |-> rf[r].n]
  BY <1>1 DEF Values
<1> QED BY <1>1, <1>2, <1>3, <1>4, <1>5, <1>6, <1>7 DEF PeelOf

\* A branch, and a ref of a remote, names a commit.
LEMMA BranchIsCommit ==
  ASSUME NEW cs, NEW ts, NEW rf, GitOK(cs, ts, rf), NEW r \in Branches \cup Remotes, rf[r] # NoRef
  PROVE  IsCommit(rf[r]) /\ rf[r].n \in 1..Len(cs) /\ rf[r] = CommitRef(rf[r].n) /\ PeelOf(ts, rf[r]) = rf[r].n
<1>1. r \in Local \cup Remotes /\ r \notin TagRefs
  BY RefSets
<1>2. IsCommit(rf[r])
  BY <1>1, PeelOfRef
<1>3. rf[r].n \in 1..Len(cs)
  BY <1>1, <1>2, PeelOfRef DEF PeelOf
<1>4. rf[r] = CommitRef(rf[r].n)
  BY <1>1, <1>2, PeelOfRef DEF CommitRef, IsCommit
<1> QED BY <1>2, <1>3, <1>4 DEF PeelOf

\* What a running migration has listed is as good as the refs.
LEMMA ListedGit ==
  ASSUME NEW cs, NEW ts, NEW rf, GitOK(cs, ts, rf), NEW q, RunOK(q, cs, ts, rf), q.pc = "refs"
  PROVE  GitOK(cs, ts, q.listed) /\ MovesOK(q, cs, ts, rf)
<1>1. q # NoRun
  BY DEF NoRun
<1> QED BY <1>1 DEF RunOK, MovesOK, GitOK

\* New commits leave what tags and refs name as it was.
LEMMA SameNames ==
  ASSUME NEW cs, NEW ds, NEW ts, NEW rf, GitOK(cs, ts, rf), Extends(cs, ds)
  PROVE  /\ GitOK(ds, ts, rf)
         /\ \A cf, tg : Named(cf, cs, ts, rf, tg) => Named(cf, ds, ts, rf, tg)
<1>0. /\ Len(cs) \in Nat /\ Len(ds) \in Nat /\ 1..Len(cs) \subseteq 1..Len(ds)
      /\ \A c \in 1..Len(cs) : ds[c] = cs[c]
  BY ParentsBefore DEF GitOK, Extends
<1>1. IsTags(ts, Len(ds))
  BY <1>0 DEF GitOK, IsTags
<1>2. IsRefs(rf, ts, Len(ds))
  BY <1>0 DEF GitOK, IsRefs
<1>3. \A r \in Local : rf[r] # NoRef => Made(ds, ts, rf[r]) = Made(cs, ts, rf[r])
  BY <1>0, PeelOfRef DEF Made
<1>4. ASSUME NEW cf, NEW tg, Named(cf, cs, ts, rf, tg) PROVE Named(cf, ds, ts, rf, tg)
  BY <1>3, <1>4, OwnLocal DEF Named, NamedAs
<1> QED BY <1>1, <1>2, <1>4 DEF GitOK, Extends

\* The same of all that is kept.
LEMMA MoreCommits ==
  ASSUME NEW cs, NEW ds, NEW ts, NEW rf, GitOK(cs, ts, rf), Extends(cs, ds)
  PROVE  /\ GitOK(ds, ts, rf)
         /\ \A cf, tg : Named(cf, cs, ts, rf, tg) => Named(cf, ds, ts, rf, tg)
         /\ \A rm : RemoteOK(cs, rm) => RemoteOK(ds, rm)
         /\ \A q : RunOK(q, cs, ts, rf) => RunOK(q, ds, ts, rf)
         /\ \A cf, q, tg : RunOK(q, cs, ts, rf) /\ ListedOK(cf, cs, ts, q, tg) => ListedOK(cf, ds, ts, q, tg)
<1>0. /\ Len(cs) \in Nat /\ Len(ds) \in Nat /\ 1..Len(cs) \subseteq 1..Len(ds)
      /\ \A c \in 1..Len(cs) : ds[c] = cs[c]
  BY ParentsBefore DEF GitOK, Extends
<1>1. \A rm : RemoteOK(cs, rm) => RemoteOK(ds, rm)
  BY <1>0 DEF RemoteOK
<1>2. \A cache : CacheOK(cs, cache) => CacheOK(ds, cache)
  BY <1>0 DEF CacheOK
<1>3. ASSUME NEW q, RunOK(q, cs, ts, rf) PROVE RunOK(q, ds, ts, rf)
  <2>1. q.pc = "refs" => MovesOK(q, ds, ts, rf)
    BY <1>3, SameNames, ListedGit DEF MovesOK, GitOK
  <2> QED BY <1>0, <1>2, <1>3, <2>1 DEF RunOK
<1>4. ASSUME NEW cf, NEW q, NEW tg, RunOK(q, cs, ts, rf), ListedOK(cf, cs, ts, q, tg)
      PROVE  ListedOK(cf, ds, ts, q, tg)
  BY <1>4, SameNames, ListedGit DEF ListedOK
<1> QED BY <1>1, <1>3, <1>4, SameNames

\* Refs move: to commits, and in refs/tags to tags.
Moved(cs, ts, rf, rg) ==
  /\ rg \in [Local \cup Remotes -> Values \cup {NoRef}]
  /\ \A r \in Local \cup Remotes :
       \/ rg[r] = rf[r]
       \/ /\ rg[r] # NoRef /\ (IsCommit(rg[r]) => rg[r].n \in 1..Len(cs))
          /\ ~IsCommit(rg[r]) => r \in TagRefs /\ rg[r].n \in 1..Len(ts)

\* They may.
LEMMA RefsMove ==
  ASSUME NEW cs, NEW ts, NEW rf, NEW rg, GitOK(cs, ts, rf), Moved(cs, ts, rf, rg)
  PROVE  /\ GitOK(cs, ts, rg)
         /\ \A hd : HeadOK(hd, rf) => HeadOK(hd, rg)
         /\ \A q : RunOK(q, cs, ts, rf) => RunOK(q, cs, ts, rg)
<1>0. \A r \in Local \cup Remotes : rf[r] # NoRef => rg[r] # NoRef
  BY DEF Moved
<1>1. \A r \in Local \cup Remotes : rg[r] # NoRef =>
       /\ IsCommit(rg[r]) => rg[r].n \in 1..Len(cs)
       /\ ~IsCommit(rg[r]) => r \in TagRefs /\ rg[r].n \in 1..Len(ts)
  BY DEF GitOK, IsRefs, Moved
<1>2. IsRefs(rg, ts, Len(cs))
  BY <1>1 DEF IsRefs, Moved
<1>3. \A hd : HeadOK(hd, rf) => HeadOK(hd, rg)
  BY <1>0, RefSets DEF HeadOK
<1>4. ASSUME NEW q, RunOK(q, cs, ts, rf) PROVE RunOK(q, cs, ts, rg)
  <2>1. MovesOK(q, cs, ts, rf) => MovesOK(q, cs, ts, rg)
    BY <1>0 DEF MovesOK
  <2> QED BY <1>4, <2>1 DEF RunOK
<1> QED BY <1>2, <1>3, <1>4 DEF GitOK

\* Nothing else matters than what local refs name.
LEMMA NamedLocal ==
  ASSUME NEW cf, NEW cs, NEW ts, NEW rf, NEW rg, NEW tg, Named(cf, cs, ts, rf, tg), \A r \in Local : rg[r] = rf[r]
  PROVE  Named(cf, cs, ts, rg, tg)
BY OwnLocal DEF Named

\* One ref moves.
LEMMA OneNamed ==
  ASSUME NEW cf, NEW cs, NEW ts, NEW rf, NEW rg, NEW tg, NEW th, NEW r, Named(cf, cs, ts, rf, tg),
         \A s \in Local \ {r} : rg[s] = rf[s] /\ th[s] = tg[s],
         r \in OwnIn(cf) /\ rg[r] # NoRef => NamedAs(cf, cs, ts, r, rg[r], th)
  PROVE  Named(cf, cs, ts, rg, th)
<1> SUFFICES ASSUME NEW s \in OwnIn(cf), rg[s] # NoRef PROVE NamedAs(cf, cs, ts, s, rg[s], th)
  BY DEF Named
<1>1. s \in Local
  BY OwnLocal
<1>2. CASE s # r
  BY <1>1, <1>2 DEF Named, NamedAs
<1> QED BY <1>2

\* New tags leave the others as they were.
TagsExtend(ts, us) == Len(ts) <= Len(us) /\ \A i \in 1..Len(ts) : us[i] = ts[i]

\* So refs name what they named.
LEMMA SamePeel ==
  ASSUME NEW cs, NEW ts, NEW us, NEW rf, GitOK(cs, ts, rf), IsTags(us, Len(cs)), TagsExtend(ts, us),
         NEW r \in Local \cup Remotes, rf[r] # NoRef
  PROVE  PeelOf(us, rf[r]) = PeelOf(ts, rf[r])
<1>0. Len(cs) \in Nat /\ IsTags(ts, Len(cs))
  BY ParentsBefore DEF GitOK
<1>1. \A i \in 1..Len(ts) : PeelIn(us)[i] = PeelIn(ts)[i]
  BY <1>0, PeelStays DEF TagsExtend
<1>2. ~IsCommit(rf[r]) => rf[r].n \in 1..Len(ts)
  BY PeelOfRef
<1> QED BY <1>1, <1>2 DEF PeelOf

\* The same of all that is kept.
LEMMA SameTags ==
  ASSUME NEW cs, NEW ts, NEW us, NEW rf, GitOK(cs, ts, rf), IsTags(us, Len(cs)), TagsExtend(ts, us)
  PROVE  /\ GitOK(cs, us, rf)
         /\ \A r \in Local \cup Remotes : rf[r] # NoRef => PeelOf(us, rf[r]) = PeelOf(ts, rf[r])
         /\ \A cf \in Scenarios : \A tg : Named(cf, cs, ts, rf, tg) => Named(cf, cs, us, rf, tg)
<1>0. Len(cs) \in Nat /\ Len(ts) \in Nat /\ Len(us) \in Nat /\ 1..Len(ts) \subseteq 1..Len(us) /\ IsTags(ts, Len(cs))
  BY ParentsBefore DEF GitOK, IsTags, IsSeq, TagsExtend
<1>1. \A i \in 1..Len(ts) : us[i] = ts[i] /\ PeelIn(us)[i] = PeelIn(ts)[i]
  BY <1>0, PeelStays DEF TagsExtend
<1>2. GitOK(cs, us, rf)
  BY <1>0 DEF GitOK, IsRefs
<1>3. ASSUME NEW r \in Local \cup Remotes, rf[r] # NoRef PROVE PeelOf(us, rf[r]) = PeelOf(ts, rf[r])
  BY <1>3, SamePeel
<1>4. ASSUME NEW cf \in Scenarios, NEW tg, Named(cf, cs, ts, rf, tg) PROVE Named(cf, cs, us, rf, tg)
  <2> SUFFICES ASSUME NEW r \in OwnIn(cf), rf[r] # NoRef PROVE NamedAs(cf, cs, us, r, rf[r], tg)
    BY DEF Named
  <2>1. r \in Local /\ r \in Local \cup Remotes /\ NamedAs(cf, cs, ts, r, rf[r], tg)
    BY <1>4, OwnLocal DEF Named
  <2>2. Made(cs, us, rf[r]) \in tg[r]
    BY <1>3, <2>1 DEF NamedAs, Made
  <2>3. ASSUME r \in TagRefs PROVE ShapeOf(cf, us, r, rf[r])
    <3> DEFINE v == rf[r]
    <3>0. ShapeOf(cf, ts, r, v)
      BY <2>1, <2>3 DEF NamedAs
    <3>1. ~IsCommit(v) => v.n \in 1..Len(ts)
      BY <2>1, PeelOfRef
    <3>2. NestedIn(cf, r) => ~IsCommit(v)
      BY <3>0 DEF ShapeOf, NestedIn, IsCommit
    <3>3. ~IsCommit(v) => us[v.n] = ts[v.n]
      BY <1>1, <3>1
    <3>4. NestedIn(cf, r) => ts[v.n].obj.n \in 1..Len(ts)
      <4> SUFFICES ASSUME NestedIn(cf, r) PROVE ts[v.n].obj.n \in 1..Len(ts)
        OBVIOUS
      <4>1. v.n \in 1..Len(ts) /\ ~IsCommit(ts[v.n].obj)
        BY <3>0, <3>1, <3>2 DEF ShapeOf
      <4> QED BY <1>0, <4>1, TagFacts
    <3> HIDE DEF v
    <3>5. NestedIn(cf, r) => ~IsCommit(us[v.n].obj) /\ us[us[v.n].obj.n].name = InnerIn(cf, r)
      BY <1>1, <3>0, <3>2, <3>3, <3>4 DEF ShapeOf
    <3> QED BY <3>0, <3>3, <3>5 DEF ShapeOf, v
  <2> QED BY <2>2, <2>3 DEF NamedAs
<1> QED BY <1>2, <1>3, <1>4

\* The same of what a migration has listed.
LEMMA MoreTags ==
  ASSUME NEW cs, NEW ts, NEW us, NEW rf, GitOK(cs, ts, rf), IsTags(us, Len(cs)), TagsExtend(ts, us)
  PROVE  /\ \A q : RunOK(q, cs, ts, rf) => RunOK(q, cs, us, rf)
         /\ \A cf \in Scenarios : \A q, tg :
              RunOK(q, cs, ts, rf) /\ ListedOK(cf, cs, ts, q, tg) => ListedOK(cf, cs, us, q, tg)
<1>1. ASSUME NEW q, RunOK(q, cs, ts, rf) PROVE RunOK(q, cs, us, rf)
  <2>1. q.pc = "refs" => MovesOK(q, cs, us, rf)
    BY <1>1, SameTags, ListedGit DEF MovesOK, GitOK
  <2> QED BY <1>1, <2>1 DEF RunOK
<1>2. ASSUME NEW cf \in Scenarios, NEW q, NEW tg, RunOK(q, cs, ts, rf), ListedOK(cf, cs, ts, q, tg)
      PROVE  ListedOK(cf, cs, us, q, tg)
  BY <1>2, SameTags, ListedGit DEF ListedOK
<1> QED BY <1>1, <1>2

-----------------------------------------------------------------------------
(* The user's commands *)

\* The model's operator in these terms.
LEMMA PeelIs == \A v : Peel(v) = PeelOf(tags, v)
BY PeelTagIs DEF Peel, PeelOf

\* HEAD is on a commit.
LEMMA HeadFacts ==
  ASSUME MigrateInv
  PROVE  /\ head \in Local /\ head \in Branches /\ refs[head] # NoRef /\ IsCommit(refs[head])
         /\ Peel(refs[head]) \in 1..Len(commits) /\ HeadTree.files \in Files
<1>1. head \in Branches /\ refs[head] # NoRef /\ head \in Local
  BY RefSets DEF MigrateInv, HeadOK
<1>2. IsCommit(refs[head]) /\ Peel(refs[head]) \in 1..Len(commits)
  BY <1>1, BranchIsCommit, PeelIs DEF MigrateInv
<1>3. Sound(commits, Peel(refs[head]))
  BY <1>2 DEF MigrateInv, GitOK, IsHistory
<1> QED BY <1>1, <1>2, <1>3 DEF HeadTree, Sound

\* A commit on top of HEAD, with its number and its fields.
NewOnTop(files, attrs) ==
  [made |-> Len(commits) + 1, parents |-> <<Peel(refs[head])>>, tree |-> [files |-> files, attrs |-> attrs]]

\* It adds to the history.
LEMMA OnTopExtends ==
  ASSUME MigrateInv, NEW files \in Files, NEW attrs, commits' = Append(commits, NewOnTop(files, attrs))
  PROVE  /\ Extends(commits, commits') /\ Len(commits) \in Nat /\ Len(commits') = Len(commits) + 1
         /\ commits'[Len(commits) + 1] = NewOnTop(files, attrs)
<1> DEFINE x == NewOnTop(files, attrs)
<1>0. IsHistory(commits) /\ Len(commits) \in Nat
  BY ParentsBefore DEF MigrateInv, GitOK
<1>1. /\ x.made = Len(commits) + 1 /\ x.parents \in Seq(1..Len(commits)) /\ x.tree.files = files
      /\ x = [made |-> x.made, parents |-> x.parents, tree |-> [files |-> x.tree.files, attrs |-> x.tree.attrs]]
      /\ x.made \in 1..(Len(commits) + 1)
  BY <1>0, HeadFacts DEF NewOnTop
<1> HIDE DEF x
<1>2. Addable(commits, x)
  BY <1>0, <1>1 DEF Addable
<1> QED BY <1>0, <1>2, HistoryGrows DEF x

\* HEAD's branch moves to it, and is meant to name it; while refs move, also what it was meant to before.
LEMMA CommitOnTop ==
  ASSUME MigrateInv, NEW files \in Files, NEW attrs, commits' = Append(commits, NewOnTop(files, attrs)),
         refs' = [refs EXCEPT ![head] = CommitRef(Len(commits) + 1)],
         NEW T, target' = [target EXCEPT ![head] = {Len(commits) + 1} \cup T],
         run.pc = "refs" => target[head] \subseteq T,
         UNCHANGED <<conf, tags, head, remote, run>>
  PROVE  MigrateInv'
<1> DEFINE n == Len(commits) + 1
<1>0. GitOK(commits, tags, refs) /\ Len(commits) \in Nat /\ conf \in Scenarios
  BY ParentsBefore DEF MigrateInv, GitOK
<1>1. NewOnTop(files, attrs).made = n
  BY DEF NewOnTop
<1>2. Extends(commits, commits') /\ Len(commits') = n /\ commits'[n] = NewOnTop(files, attrs)
  BY OnTopExtends
<1>3. /\ GitOK(commits', tags, refs) /\ RemoteOK(commits', remote) /\ Named(conf, commits', tags, refs, target)
      /\ RunOK(run, commits', tags, refs) /\ ListedOK(conf, commits', tags, run, target)
  BY <1>0, <1>2, MoreCommits DEF MigrateInv
<1>4. /\ refs' \in [Local \cup Remotes -> Values \cup {NoRef}]
      /\ \A r \in (Local \cup Remotes) \ {head} : refs'[r] = refs[r]
      /\ refs'[head] = CommitRef(n) /\ refs'[head] # NoRef /\ IsCommit(refs'[head]) /\ refs'[head].n = n
  <2>1. refs \in [Local \cup Remotes -> Values \cup {NoRef}] /\ head \in Local \cup Remotes
    BY <1>0, HeadFacts DEF GitOK, IsRefs
  <2>2. CommitRef(n) \in Values /\ CommitRef(n) # NoRef /\ IsCommit(CommitRef(n)) /\ CommitRef(n).n = n
    BY <1>0, RefSets DEF CommitRef, Values, IsCommit
  <2> QED BY <2>1, <2>2
<1>5. GitOK(commits', tags, refs') /\ HeadOK(head, refs') /\ RunOK(run, commits', tags, refs')
  <2>1. Moved(commits', tags, refs, refs')
    BY <1>0, <1>2, <1>4, HeadFacts DEF Moved
  <2> QED BY <1>3, <1>4, <2>1, RefsMove DEF MigrateInv
<1>6. head \in Local /\ head \notin TagRefs
  BY HeadFacts, RefSets
<1>7. /\ target' = [r \in Local |-> target'[r]] /\ target'[head] = {n} \cup T
      /\ \A r \in Local \ {head} : target'[r] = target[r]
  <2>1. target = [r \in Local |-> target[r]]
    BY DEF MigrateInv, TargetOK
  <2> QED BY <1>6, <2>1
<1>8. TargetOK(conf, target')
  <2>1. ASSUME NEW r \in OwnIn(conf) \cap TagRefs, NestedIn(conf, r), conf.refs[InnerIn(conf, r)] # NoRef
        PROVE  target'[r] = target'[InnerIn(conf, r)]
    <3>1. r \in Local \ {head} /\ InnerIn(conf, r) \in Local \ {head}
      BY <1>0, <1>6, <2>1, OwnInner, RefSets
    <3>2. target[r] = target[InnerIn(conf, r)]
      BY <2>1 DEF MigrateInv, TargetOK
    <3> QED BY <1>7, <3>1, <3>2
  <2> QED BY <1>7, <2>1 DEF TargetOK
<1>9. Named(conf, commits', tags, refs', target')
  <2>1. Made(commits', tags, refs'[head]) \in target'[head]
    BY <1>1, <1>2, <1>4, <1>7 DEF Made, PeelOf
  <2>2. NamedAs(conf, commits', tags, head, refs'[head], target')
    BY <1>6, <2>1 DEF NamedAs
  <2>3. \A s \in Local \ {head} : refs'[s] = refs[s] /\ target'[s] = target[s]
    BY <1>4, <1>7
  <2>4. Named(conf, commits', tags, refs, target)
    BY <1>3
  <2>5. head \in OwnIn(conf) /\ refs'[head] # NoRef => NamedAs(conf, commits', tags, head, refs'[head], target')
    BY <2>2
  <2> QED BY ONLY <2>3, <2>4, <2>5, OneNamed
<1>10. ASSUME run.pc = "refs" PROVE Named(conf, commits', tags, run.listed, target')
  <2>1. Named(conf, commits', tags, run.listed, target)
    BY <1>3, <1>10 DEF ListedOK
  <2>2. head \in OwnIn(conf) /\ run.listed[head] # NoRef => NamedAs(conf, commits', tags, head, run.listed[head], target')
    BY <1>6, <1>7, <1>10, <2>1 DEF Named, NamedAs
  <2> QED BY <1>7, <2>1, <2>2, OneNamed
<1> QED BY <1>0, <1>3, <1>5, <1>8, <1>9, <1>10 DEF MigrateInv, ListedOK

\* What git stages are files.
LEMMA StagedFiles ==
  ASSUME MigrateInv, NEW oids \in conf.edits
  PROVE  Staged(oids) \in Files
<1>1. oids \in [Paths -> Oids \cup {NoBlob}]
  BY MigrateAssumption DEF MigrateInv
<1>2. \A p \in Paths : oids[p] # NoBlob => [oid |-> oids[p], ptr |-> p \in Filtered(oids)] \in Blobs
  BY <1>1 DEF Blobs
<1>3. \A p \in Paths : HeadTree.files[p] \in Blobs \cup {NoBlob}
  BY HeadFacts DEF Files
<1> QED BY <1>2, <1>3 DEF Staged, Files

\* git commit.
LEMMA CommitKeeps ==
  ASSUME MigrateInv, Commit
  PROVE  MigrateInv'
<1>1. PICK oids \in conf.edits :
        LET n == Len(commits) + 1
            tree == [files |-> Staged(oids), attrs |-> wattrs]
        IN /\ commits' = Append(commits, [made |-> n, parents |-> <<Peel(refs[head])>>, tree |-> tree])
           /\ refs' = [refs EXCEPT ![head] = CommitRef(n)]
           /\ target' = [target EXCEPT ![head] = {n} \cup (IF Overtakes THEN @ ELSE {})]
  BY DEF Commit
<1>3. Staged(oids) \in Files
  BY StagedFiles
<1>4. UNCHANGED <<conf, tags, head, remote, run>>
  BY DEF Commit
<1>5. commits' = Append(commits, NewOnTop(Staged(oids), wattrs))
  BY <1>1 DEF NewOnTop
<1> DEFINE T == IF Overtakes THEN target[head] ELSE {}
<1>6. target' = [target EXCEPT ![head] = {Len(commits) + 1} \cup T] /\ (run.pc = "refs" => target[head] \subseteq T)
  BY <1>1 DEF Overtakes
<1> HIDE DEF T
<1> QED BY <1>1, <1>3, <1>4, <1>5, <1>6, CommitOnTop

\* What import --no-rewrite converts are files.
LEMMA CleanedFiles ==
  ASSUME MigrateInv, NEW F \in SUBSET Paths, \A p \in F : HeadTree.files[p] # NoBlob
  PROVE  CleanEntries(HeadTree.files, F) \in Files
<1>1. HeadTree.files \in Files
  BY HeadFacts
<1>2. \A p \in F : HeadTree.files[p] \in Blobs
  BY <1>1 DEF Files
<1>3. \A b \in Blobs : Clean(b) \in Blobs
  BY DEF Clean, CopyToTemp, Blobs
<1> QED BY <1>1, <1>2, <1>3 DEF CleanEntries, Files

\* import --no-rewrite.
LEMMA ImportNoRewriteKeeps ==
  ASSUME MigrateInv, ImportNoRewrite
  PROVE  MigrateInv'
<1>1. PICK files \in (SUBSET Paths) \ {{}} :
        LET old == HeadTree.files
            new == CleanEntries(old, files)
            n == Len(commits) + 1
        IN /\ \A p \in files : FiltersOf(wattrs, p) /\ old[p] # NoBlob
           /\ commits' = Append(commits, [made |-> n, parents |-> <<Peel(refs[head])>>,
                                          tree |-> [files |-> new, attrs |-> HeadTree.attrs]])
           /\ refs' = [refs EXCEPT ![head] = CommitRef(n)]
           /\ target' = [target EXCEPT ![head] = {n}]
  BY DEF ImportNoRewrite
<1>2. CleanEntries(HeadTree.files, files) \in Files
  BY <1>1, CleanedFiles
<1>3. UNCHANGED <<conf, tags, head, remote, run>>
  BY DEF ImportNoRewrite
<1>4. commits' = Append(commits, NewOnTop(CleanEntries(HeadTree.files, files), HeadTree.attrs))
  BY <1>1 DEF NewOnTop
<1> DEFINE T == {}
<1>5. target' = [target EXCEPT ![head] = {Len(commits) + 1} \cup T] /\ run.pc # "refs"
  BY <1>1 DEF ImportNoRewrite, Running
<1> HIDE DEF T
<1> QED BY <1>1, <1>2, <1>3, <1>4, <1>5, CommitOnTop

\* git push.
LEMMA GitPushKeeps ==
  ASSUME MigrateInv, GitPush
  PROVE  MigrateInv'
<1>0. /\ remote' = [b \in (DOMAIN remote) \cup {head} |-> IF b = head THEN Peel(refs[head]) ELSE remote[b]]
      /\ refs' = [r \in DOMAIN refs |-> IF r \in Remotes /\ conf.follows[r] = head THEN refs[head] ELSE refs[r]]
      /\ UNCHANGED <<conf, commits, tags, head, run, target>>
  BY DEF GitPush, history
<1>1. GitOK(commits, tags, refs) /\ refs \in [Local \cup Remotes -> Values \cup {NoRef}]
  BY DEF MigrateInv, GitOK, IsRefs
<1>2. /\ refs' \in [Local \cup Remotes -> Values \cup {NoRef}]
      /\ \A r \in Local \cup Remotes : refs'[r] = refs[r] \/ (r \in Remotes /\ refs'[r] = refs[head])
  BY <1>0, <1>1, HeadFacts
<1>3. refs[head] # NoRef /\ IsCommit(refs[head]) /\ refs[head].n \in 1..Len(commits)
  BY <1>1, HeadFacts, BranchIsCommit
<1>4. GitOK(commits, tags, refs') /\ HeadOK(head, refs') /\ RunOK(run, commits, tags, refs')
  <2>1. Moved(commits, tags, refs, refs')
    BY <1>2, <1>3 DEF Moved
  <2> QED BY <1>1, <1>2, <2>1, RefsMove DEF MigrateInv
<1>5. RemoteOK(commits, remote')
  BY <1>0, HeadFacts DEF MigrateInv, RemoteOK
<1>6. Named(conf, commits, tags, refs', target)
  <2>1. \A r \in Local : refs'[r] = refs[r]
    BY <1>2, RefSets
  <2> QED BY <2>1, NamedLocal DEF MigrateInv
<1> QED BY <1>0, <1>4, <1>5, <1>6 DEF MigrateInv

\* A commit of somebody else on the remote.
LEMMA RemoteCommitKeeps ==
  ASSUME MigrateInv, RemoteCommit
  PROVE  MigrateInv'
<1>1. PICK b \in DOMAIN remote :
       /\ commits' = Append(commits, [commits[remote[b]] EXCEPT !.made = Len(commits) + 1, !.parents = <<remote[b]>>])
       /\ remote' = [remote EXCEPT ![b] = Len(commits) + 1]
  BY DEF RemoteCommit
<1>2. UNCHANGED <<conf, tags, refs, head, run, target>>
  BY DEF RemoteCommit, history
<1> DEFINE y == commits[remote[b]]
           x == [y EXCEPT !.made = Len(commits) + 1, !.parents = <<remote[b]>>]
<1>3. GitOK(commits, tags, refs) /\ Len(commits) \in Nat /\ remote[b] \in 1..Len(commits)
  BY ParentsBefore DEF MigrateInv, GitOK, RemoteOK
<1>4. y = [made |-> y.made, parents |-> y.parents, tree |-> [files |-> y.tree.files, attrs |-> y.tree.attrs]]
      /\ y.tree.files \in Files
  BY <1>3 DEF GitOK, IsHistory, Sound
<1>5. x = [made |-> Len(commits) + 1, parents |-> <<remote[b]>>,
           tree |-> [files |-> y.tree.files, attrs |-> y.tree.attrs]]
  <2> HIDE DEF y
  <2>1. [y EXCEPT !.made = Len(commits) + 1, !.parents = <<remote[b]>>] =
          [f \in DOMAIN y |-> IF f = "parents" THEN <<remote[b]>> ELSE IF f = "made" THEN Len(commits) + 1 ELSE y[f]]
    OBVIOUS
  <2>2. DOMAIN y = {"made", "parents", "tree"} /\ y.tree = [files |-> y.tree.files, attrs |-> y.tree.attrs]
    BY <1>4
  <2> QED BY <2>1, <2>2
<1>6. commits' = Append(commits, x)
  BY <1>1
<1> HIDE DEF x, y
<1>7. /\ x.made = Len(commits) + 1 /\ x.parents \in Seq(1..Len(commits)) /\ x.tree.files \in Files
      /\ x = [made |-> x.made, parents |-> x.parents, tree |-> [files |-> x.tree.files, attrs |-> x.tree.attrs]]
      /\ x.made \in 1..(Len(commits) + 1)
  BY <1>3, <1>4, <1>5
<1>8. Extends(commits, commits') /\ Len(commits') = Len(commits) + 1
  <2>1. Addable(commits, x)
    BY <1>7 DEF Addable
  <2> QED BY <1>3, <1>6, <2>1, HistoryGrows DEF GitOK
<1>9. /\ GitOK(commits', tags, refs) /\ RemoteOK(commits', remote) /\ Named(conf, commits', tags, refs, target)
      /\ RunOK(run, commits', tags, refs) /\ ListedOK(conf, commits', tags, run, target)
  BY <1>3, <1>8, MoreCommits DEF MigrateInv
<1>10. RemoteOK(commits', remote')
  BY <1>1, <1>3, <1>8, <1>9 DEF RemoteOK
<1> QED BY <1>2, <1>9, <1>10 DEF MigrateInv

-----------------------------------------------------------------------------
(* A migration *)

\* A step that changes only the migration.
LEMMA OnlyRun ==
  ASSUME MigrateInv, UNCHANGED <<conf, commits, tags, refs, head, remote, target>>,
         RunOK(run', commits, tags, refs), ListedOK(conf, commits, tags, run', target)
  PROVE  MigrateInv'
BY DEF MigrateInv

\* No migration.
LEMMA NoRunOK ==
  ASSUME NEW cf, NEW cs, NEW ts, NEW rf, NEW tg
  PROVE  RunOK(NoRun, cs, ts, rf) /\ ListedOK(cf, cs, ts, NoRun, tg)
BY DEF RunOK, ListedOK, NoRun

\* install, update, uninstall, track and untrack.
LEMMA SetupKeeps ==
  ASSUME MigrateInv, SetupCommand
  PROVE  MigrateInv'
<1>1. UNCHANGED <<conf, commits, tags, refs, head, remote, run, target>>
  BY DEF SetupCommand, gitVars
<1> QED BY <1>1 DEF MigrateInv

\* The migration is killed.
LEMMA KillKeeps ==
  ASSUME MigrateInv, Kill
  PROVE  MigrateInv'
BY OnlyRun, NoRunOK DEF Kill, gitVars, history

\* The checkout at the end.
LEMMA EndMigrateKeeps ==
  ASSUME MigrateInv, EndMigrate
  PROVE  MigrateInv'
BY OnlyRun, NoRunOK DEF EndMigrate, gitVars, history

\* A migration that is running.
LEMMA RunFacts ==
  ASSUME MigrateInv, run.pc # "idle"
  PROVE  /\ run = [f \in RunFields |-> run[f]] /\ run.pc \in {"download", "rewrite", "refs"}
         /\ run.todo \subseteq 1..Len(commits) /\ CacheOK(commits, run.cache) /\ EntriesOK(run.entries)
         /\ run.list \in Seq(Local) /\ run.stack \in Seq(Local)
         /\ run.pc # "refs" => run.stack = <<>> /\ run.seen = {}
         /\ run.pc = "refs" => /\ MovesOK(run, commits, tags, refs) /\ GitOK(commits, tags, run.listed)
                               /\ Named(conf, commits, tags, run.listed, target)
<1>1. run # NoRun
  BY DEF NoRun
<1>2. run.pc = "refs" => GitOK(commits, tags, run.listed)
  BY ListedGit DEF MigrateInv
<1> QED BY <1>1, <1>2 DEF MigrateInv, RunOK, ListedOK

\* The objects that export reads.
LEMMA DownloadKeeps ==
  ASSUME MigrateInv, Download
  PROVE  MigrateInv'
<1>1. UNCHANGED <<conf, commits, tags, refs, head, remote, target>>
      /\ (run' = NoRun \/ run' = [run EXCEPT !.pc = "rewrite"]) /\ run.pc # "idle" /\ run.pc # "refs"
  BY DEF Download, gitVars, history
<1>2. CASE run' = [run EXCEPT !.pc = "rewrite"]
  <2>1. RunOK(run', commits, tags, refs) /\ ListedOK(conf, commits, tags, run', target)
    BY <1>1, <1>2, RunFacts DEF RunOK, RunFields, ListedOK
  <2> QED BY <1>1, <2>1, OnlyRun
<1> QED BY <1>1, <1>2, NoRunOK, OnlyRun

\* All commits are rewritten: the refs are listed.
LEMMA EndRewriteKeeps ==
  ASSUME MigrateInv, EndRewrite
  PROVE  MigrateInv'
<1>1. UNCHANGED <<conf, commits, tags, refs, head, remote, target>>
      /\ (run' = NoRun \/ run' = [run EXCEPT !.pc = "refs", !.list = LocalRefs, !.listed = refs])
      /\ run.pc # "idle" /\ run.pc # "refs"
  BY DEF EndRewrite, gitVars, history
<1>2. CASE run' = [run EXCEPT !.pc = "refs", !.list = LocalRefs, !.listed = refs]
  <2>0. /\ run'.pc = "refs" /\ run'.list = LocalRefs /\ run'.listed = refs /\ run'.stack = <<>> /\ run'.seen = {}
        /\ run'.todo = run.todo /\ run'.cache = run.cache /\ run'.entries = run.entries
        /\ run' = [f \in RunFields |-> run'[f]]
    BY <1>1, <1>2, RunFacts DEF RunFields
  <2>1. MovesOK(run', commits, tags, refs)
    BY <2>0 DEF MovesOK, MigrateInv, GitOK
  <2>2. RunOK(run', commits, tags, refs)
    BY <1>1, <2>0, <2>1, RunFacts, RefSets DEF RunOK
  <2>3. ListedOK(conf, commits, tags, run', target)
    BY <2>0 DEF ListedOK, MigrateInv
  <2> QED BY <1>1, <2>2, <2>3, OnlyRun
<1> QED BY <1>1, <1>2, NoRunOK, OnlyRun

\* A step that moves on in the lists.
LEMMA OnlyLists ==
  ASSUME MigrateInv, run.pc = "refs", run' = [f \in RunFields |-> run'[f]],
         run'.list \in Seq(Local), run'.stack \in Seq(Local),
         \A i \in 1..Len(run'.stack) : run.listed[run'.stack[i]] # NoRef,
         \A r \in run'.seen : r \in Local /\ refs[r] # NoRef,
         \A f \in RunFields \ {"list", "stack", "seen"} : run'[f] = run[f]
  PROVE  RunOK(run', commits, tags, refs) /\ ListedOK(conf, commits, tags, run', target)
<1>1. /\ run'.pc = "refs" /\ run'.listed = run.listed
      /\ run'.todo = run.todo /\ run'.cache = run.cache /\ run'.entries = run.entries
  BY DEF RunFields
<1>2. MovesOK(run', commits, tags, refs)
  BY <1>1, RunFacts DEF MovesOK
<1>3. RunOK(run', commits, tags, refs)
  BY <1>1, <1>2, RunFacts DEF RunOK
<1>4. ListedOK(conf, commits, tags, run', target)
  BY <1>1, RunFacts DEF ListedOK
<1> QED BY <1>3, <1>4

\* The next ref.
LEMMA NextRefKeeps ==
  ASSUME MigrateInv, NextRef
  PROVE  MigrateInv'
<1> DEFINE r == Head(run.list)
<1>1. /\ UNCHANGED <<conf, commits, tags, refs, head, remote, target>>
      /\ run.pc = "refs" /\ run.stack = <<>> /\ run.list # <<>>
      /\ \/ run' = [run EXCEPT !.list = Tail(@)]
         \/ ToUpdate(r) /\ run' = [run EXCEPT !.list = Tail(@), !.seen = @ \cup {r}, !.stack = <<r>>]
  BY DEF NextRef, gitVars, history
<1>2. r \in Local /\ Tail(run.list) \in Seq(Local) /\ (ToUpdate(r) => run.listed[r] # NoRef /\ refs[r] # NoRef)
  BY <1>1, RunFacts DEF ToUpdate, MovesOK
<1>3. /\ run = [f \in RunFields |-> run[f]] /\ \A s \in run.seen : s \in Local /\ refs[s] # NoRef
      /\ run.stack \in Seq(Local) /\ \A i \in 1..Len(run.stack) : run.listed[run.stack[i]] # NoRef
  BY <1>1, RunFacts DEF MovesOK
<1> HIDE DEF r
<1>4. CASE run' = [run EXCEPT !.list = Tail(@)]
  <2>1. /\ run'.list = Tail(run.list) /\ run'.stack = run.stack /\ run'.seen = run.seen
        /\ run' = [f \in RunFields |-> run'[f]] /\ \A f \in RunFields \ {"list", "stack", "seen"} : run'[f] = run[f]
    BY <1>3, <1>4 DEF RunFields
  <2>2. RunOK(run', commits, tags, refs) /\ ListedOK(conf, commits, tags, run', target)
    BY <1>1, <1>2, <1>3, <2>1, OnlyLists
  <2> QED BY <1>1, <2>2, OnlyRun
<1>5. CASE ToUpdate(r) /\ run' = [run EXCEPT !.list = Tail(@), !.seen = @ \cup {r}, !.stack = <<r>>]
  <2> DEFINE st == <<r>>
             seen == run.seen \cup {r}
  <2>0. st \in Seq(Local) /\ \A i \in 1..Len(st) : run.listed[st[i]] # NoRef
    BY <1>2, <1>5
  <2>1. \A s \in seen : s \in Local /\ refs[s] # NoRef
    BY <1>2, <1>3, <1>5
  <2>2. /\ run'.list = Tail(run.list) /\ run'.stack = st /\ run'.seen = seen
        /\ run' = [f \in RunFields |-> run'[f]] /\ \A f \in RunFields \ {"list", "stack", "seen"} : run'[f] = run[f]
    BY <1>3, <1>5 DEF RunFields
  <2> HIDE DEF st, seen
  <2>3. RunOK(run', commits, tags, refs) /\ ListedOK(conf, commits, tags, run', target)
    BY <1>1, <1>2, <2>0, <2>1, <2>2, OnlyLists
  <2> QED BY <1>1, <2>3, OnlyRun
<1> QED BY <1>1, <1>4, <1>5

\* The ref on top of the stack.
LEMMA TopFacts ==
  ASSUME MigrateInv, run.pc = "refs", run.stack # <<>>
  PROVE  Top \in Local /\ run.listed[Top] # NoRef /\ refs[Top] # NoRef /\ Front(run.stack) \in Seq(Local)
         /\ \A i \in 1..Len(Front(run.stack)) : run.listed[Front(run.stack)[i]] # NoRef
<1> DEFINE st == run.stack
<1>1. /\ st \in Seq(Local) /\ st # <<>> /\ Len(st) \in Nat /\ Len(st) > 0
      /\ \A i \in 1..Len(st) : run.listed[st[i]] # NoRef /\ refs[st[i]] # NoRef
  <2>1. st \in Seq(Local) /\ MovesOK(run, commits, tags, refs)
    BY RunFacts
  <2> QED BY <2>1 DEF MovesOK
<1> HIDE DEF st
<1>2. Front(st) = [i \in 1..(Len(st) - 1) |-> st[i]]
  BY <1>1 DEF Front
<1>3. Front(st) \in Seq(Local) /\ Len(Front(st)) = Len(st) - 1
  BY <1>1, <1>2
<1>4. Top = st[Len(st)]
  BY DEF Top, st, Last
<1> QED BY <1>1, <1>2, <1>3, <1>4 DEF st

\* A ref that was listed as a tag of a tag, and the ref of the inner one.
LEMMA NestedFacts ==
  ASSUME MigrateInv, run.pc = "refs", NEW r \in Local, run.listed[r] # NoRef, NestedTag(r)
  PROVE  /\ run.listed[r].n \in 1..Len(tags) /\ TagOf(r) = tags[run.listed[r].n] /\ r \in TagRefs
         /\ ~BadTag(r) => /\ TagOf(r).obj.n \in 1..Len(tags) /\ ~IsCommit(TagOf(r).obj)
                          /\ InnerRef(r) \in TagRefs /\ InnerRef(r) \in Local
<1>1. GitOK(commits, tags, run.listed) /\ ~IsCommit(run.listed[r]) /\ TagOf(r).type = "tag" /\ r \in TagRefs
  BY RunFacts DEF NestedTag
<1>2. run.listed[r].n \in 1..Len(tags)
  BY <1>1, PeelOfRef
<1>3. ASSUME ~BadTag(r)
      PROVE  TagOf(r).obj.n \in 1..Len(tags) /\ ~IsCommit(TagOf(r).obj)
  <2>1. ~IsCommit(TagOf(r).obj)
    BY <1>3 DEF BadTag
  <2> QED BY <1>1, <1>2, <2>1, TagFacts DEF GitOK, TagOf
<1>4. ASSUME ~BadTag(r)
      PROVE  InnerRef(r) \in TagRefs /\ InnerRef(r) \in Local
  BY <1>1, <1>3, <1>4, TagFacts, RefSets DEF GitOK, InnerRef
<1> QED BY <1>1, <1>2, <1>3, <1>4 DEF TagOf

\* The inner tag comes first.
LEMMA UpdateInnerTagKeeps ==
  ASSUME MigrateInv, UpdateInnerTag
  PROVE  MigrateInv'
<1> DEFINE r == InnerRef(Top)
           st == Append(run.stack, r)
           seen == run.seen \cup {r}
           listed == [run.listed EXCEPT ![r] = refs[r]]
<1>1. /\ UNCHANGED <<conf, commits, tags, refs, head, remote, target>>
      /\ run.pc = "refs" /\ run.stack # <<>> /\ NestedTag(Top)
      /\ \/ run' = NoRun
         \/ /\ ~BadTag(Top) /\ refs[r] # NoRef
            /\ run' = [run EXCEPT !.stack = st, !.seen = seen, !.listed = listed]
  BY DEF UpdateInnerTag, gitVars, history
<1>2. CASE /\ ~BadTag(Top) /\ refs[r] # NoRef
           /\ run' = [run EXCEPT !.stack = st, !.seen = seen, !.listed = listed]
  <2>1. r \in Local
    BY <1>1, <1>2, TopFacts, NestedFacts
  <2>2. run.stack \in Seq(Local) /\ MovesOK(run, commits, tags, refs) /\ Named(conf, commits, tags, run.listed, target)
    BY <1>1, RunFacts
  <2>3. /\ IsRefs(run.listed, tags, Len(commits)) /\ IsRefs(refs, tags, Len(commits))
        /\ \A s \in Local \cup Remotes : run.listed[s] # NoRef => refs[s] # NoRef
        /\ \A s \in run.seen : s \in Local /\ refs[s] # NoRef
        /\ \A i \in 1..Len(run.stack) : run.listed[run.stack[i]] # NoRef
        /\ Named(conf, commits, tags, refs, target)
    BY <2>2 DEF MovesOK, MigrateInv, GitOK
  <2> HIDE DEF r
  <2>4. listed[r] = refs[r] /\ \A s \in (Local \cup Remotes) \ {r} : listed[s] = run.listed[s]
    BY <2>1, <2>3 DEF IsRefs
  <2>5. IsRefs(listed, tags, Len(commits))
    <3>1. listed \in [Local \cup Remotes -> Values \cup {NoRef}]
      BY <2>1, <2>3 DEF IsRefs
    <3> HIDE DEF listed
    <3>2. \A s \in Local \cup Remotes : listed[s] = refs[s] \/ listed[s] = run.listed[s]
      BY <2>4
    <3> QED BY <2>3, <3>1, <3>2 DEF IsRefs
  <2>6. st \in Seq(Local) /\ \A i \in 1..Len(st) : listed[st[i]] # NoRef
    <3>1. /\ st \in Seq(Local) /\ Len(st) = Len(run.stack) + 1 /\ st[Len(run.stack) + 1] = r
          /\ \A i \in 1..Len(run.stack) : st[i] = run.stack[i] /\ run.stack[i] \in Local
      BY <2>1, <2>2, AppendProperties
    <3> HIDE DEF st, listed
    <3> QED BY <1>2, <2>2, <2>3, <2>4, <3>1
  <2>7. Named(conf, commits, tags, listed, target)
    <3> HIDE DEF listed
    <3>1. r \in OwnIn(conf) /\ listed[r] # NoRef => NamedAs(conf, commits, tags, r, listed[r], target)
      BY <2>3, <2>4 DEF Named
    <3> QED BY <2>2, <2>4, <3>1, OneNamed
  <2> HIDE DEF st, listed
  <2>8. /\ run'.pc = "refs" /\ run'.list = run.list /\ run'.listed = listed /\ run'.stack = st /\ run'.seen = seen
        /\ run'.todo = run.todo /\ run'.cache = run.cache /\ run'.entries = run.entries
        /\ run' = [f \in RunFields |-> run'[f]]
    BY <1>1, <1>2, RunFacts DEF RunFields
  <2>9. MovesOK(run', commits, tags, refs)
    <3>1. \A s \in Local \cup Remotes : listed[s] # NoRef => refs[s] # NoRef
      BY <2>3, <2>4
    <3> QED BY <1>2, <2>1, <2>3, <2>5, <2>6, <2>8, <3>1 DEF MovesOK
  <2>10. RunOK(run', commits, tags, refs) /\ ListedOK(conf, commits, tags, run', target)
    BY <1>1, <2>6, <2>7, <2>8, <2>9, RunFacts DEF RunOK, ListedOK
  <2> QED BY <1>1, <2>10, OnlyRun
<1> QED BY <1>1, <1>2, NoRunOK, OnlyRun

\* An object that is written has its number, and those there were keep theirs.
LEMMA WrittenFacts ==
  ASSUME NEW objs, IsSeq(objs), NEW x
  PROVE  /\ NumberOf(objs, x) \in 1..Len(Written(objs, x)) /\ Written(objs, x)[NumberOf(objs, x)] = x
         /\ Written(objs, x) = objs \/ (Written(objs, x) = Append(objs, x) /\ NumberOf(objs, x) = Len(objs) + 1)
<1>1. Len(objs) \in Nat /\ Len(Append(objs, x)) = Len(objs) + 1 /\ Append(objs, x)[Len(objs) + 1] = x
  BY Appended
<1>2. CASE \E i \in 1..Len(objs) : objs[i] = x
  BY <1>2 DEF Written, NumberOf
<1>3. CASE ~ \E i \in 1..Len(objs) : objs[i] = x
  BY <1>1, <1>3 DEF Written, NumberOf
<1> QED BY <1>2, <1>3

\* A tag of a commit or of a tag, which may claim to be of a tag when it is of a commit.
WellTag(cs, ts, x) ==
  /\ x = [name |-> x.name, type |-> x.type, obj |-> x.obj]
  /\ x.name \in TagRefs /\ x.obj \in Values /\ x.type \in {"commit", "tag"}
  /\ IsCommit(x.obj) => x.obj.n \in 1..Len(cs)
  /\ ~IsCommit(x.obj) => x.type = "tag" /\ x.obj.n \in 1..Len(ts)

\* Writing it keeps the tags.
LEMMA TagWritten ==
  ASSUME NEW cs, NEW ts, NEW rf, GitOK(cs, ts, rf), NEW x, WellTag(cs, ts, x),
         NEW us, us = Written(ts, x), NEW k, k = NumberOf(ts, x)
  PROVE  /\ IsTags(us, Len(cs)) /\ TagsExtend(ts, us) /\ k \in 1..Len(us) /\ us[k] = x
         /\ PeelIn(us)[k] = PeelOf(ts, x.obj)
<1>0. IsTags(ts, Len(cs)) /\ Len(cs) \in Nat /\ IsSeq(ts) /\ Len(ts) \in Nat
  BY ParentsBefore DEF GitOK, IsTags, IsSeq
<1>2. k \in 1..Len(us) /\ us[k] = x
  BY <1>0, WrittenFacts
<1>3. us = ts \/ (us = Append(ts, x) /\ k = Len(ts) + 1)
  BY <1>0, WrittenFacts
<1>4. IsSeq(us) /\ Len(us) \in Nat /\ Len(ts) <= Len(us) /\ \A i \in 1..Len(ts) : us[i] = ts[i]
  <2>1. CASE us = ts
    BY <1>0, <2>1
  <2>2. CASE us = Append(ts, x)
    BY <1>0, <2>2, Appended
  <2> QED BY <1>3, <2>1, <2>2
<1>5. \A i \in 1..Len(us) : i \in 1..Len(ts) \/ (i = k /\ i = Len(ts) + 1)
  BY <1>0, <1>3, Appended
<1>6. IsTags(us, Len(cs))
  <2>1. ASSUME NEW i \in 1..Len(us)
        PROVE  /\ us[i] = [name |-> us[i].name, type |-> us[i].type, obj |-> us[i].obj]
               /\ us[i].name \in TagRefs /\ us[i].obj \in Values /\ us[i].type \in {"commit", "tag"}
               /\ IsCommit(us[i].obj) => us[i].obj.n \in 1..Len(cs)
               /\ ~IsCommit(us[i].obj) => us[i].type = "tag" /\ us[i].obj.n \in 1..(i - 1)
    <3>1. CASE i \in 1..Len(ts)
      BY <1>0, <1>4, <3>1 DEF IsTags
    <3>2. CASE i = k /\ i = Len(ts) + 1
      <4>1. us[i] = x /\ 1..(i - 1) = 1..Len(ts)
        BY <1>0, <1>2, <3>2
      <4> QED BY <4>1 DEF WellTag
    <3> QED BY <1>5, <3>1, <3>2
  <2> QED BY <1>4, <2>1 DEF IsTags
<1>7. \A i \in 1..Len(ts) : PeelIn(us)[i] = PeelIn(ts)[i]
  BY <1>0, <1>4, <1>6, PeelStays
<1>8. PeelIn(us)[k] = PeelOf(ts, x.obj)
  <2>1. PeelIn(us)[k] = IF IsCommit(x.obj) THEN x.obj.n ELSE PeelIn(us)[x.obj.n]
    BY <1>0, <1>2, <1>6, PeelFacts
  <2>2. ~IsCommit(x.obj) => x.obj.n \in 1..Len(ts)
    BY DEF WellTag
  <2> QED BY <1>7, <2>1, <2>2 DEF PeelOf
<1> QED BY <1>2, <1>4, <1>6, <1>8 DEF TagsExtend

\* Which of the cases of NewObject it is.
LEMMA NewObjectIs ==
  ASSUME MigrateInv, UpdateOneRef, NewObject(Top) # NoRef
  PROVE  /\ NewObject(Top) \in Values
         /\ IsCommit(NewObject(Top)) => NewObject(Top).n \in 1..Len(commits)
         /\ ~IsCommit(NewObject(Top)) => NestedTag(Top) /\ NewObject(Top).n \in 1..Len(tags)
         /\ \/ /\ ~NestedTag(Top) /\ PeelOf(tags, run.listed[Top]) \in DOMAIN run.cache
               /\ PeelOf(tags, NewObject(Top)) = run.cache[PeelOf(tags, run.listed[Top])]
            \/ /\ NestedTag(Top) /\ InnerRef(Top) \in TagRefs /\ InnerRef(Top) \in Local
               /\ ~IsCommit(TagOf(Top).obj) /\ refs[InnerRef(Top)] # NoRef /\ NewObject(Top) = refs[InnerRef(Top)]
<1> DEFINE r == Top
           to == NewObject(r)
           v == run.listed[r]
<1>0. /\ run.pc = "refs" /\ run.stack # <<>> /\ run.pc # "idle" /\ to # NoRef
      /\ NestedTag(r) => ~BadTag(r) /\ InnerRef(r) \in run.seen
  BY DEF UpdateOneRef
<1>1. /\ GitOK(commits, tags, refs) /\ GitOK(commits, tags, run.listed) /\ r \in Local /\ v # NoRef
      /\ Len(commits) \in Nat /\ MovesOK(run, commits, tags, refs) /\ CacheOK(commits, run.cache)
  BY <1>0, TopFacts, RunFacts, ParentsBefore DEF MigrateInv, GitOK
<1>2. CASE NestedTag(r)
  <2> DEFINE s == InnerRef(r)
  <2>1. s \in Local /\ s \in TagRefs /\ ~IsCommit(TagOf(r).obj) /\ to = refs[s]
    <3>1. to = refs[s]
      BY <1>2 DEF NewObject, NestedTag
    <3> QED BY <1>0, <1>1, <1>2, <3>1, NestedFacts
  <2>2. refs[s] # NoRef
    BY <1>0, <1>2, <1>1 DEF MovesOK
  <2> HIDE DEF s, to, r
  <2>3. to \in Values /\ (IsCommit(to) => to.n \in 1..Len(commits)) /\ (~IsCommit(to) => to.n \in 1..Len(tags))
    BY <1>1, <2>1, <2>2 DEF GitOK, IsRefs
  <2> QED BY <1>2, <2>1, <2>2, <2>3 DEF s, to, r
<1>3. CASE ~NestedTag(r)
  <2> DEFINE c == IF IsCommit(v) THEN v.n ELSE TagOf(r).obj.n
  <2>1. c \in DOMAIN run.cache /\ to = CommitRef(run.cache[c])
    BY <1>0, <1>3 DEF NewObject, InCache
  <2>2. PeelOf(tags, v) = c
    <3>1. CASE IsCommit(v)
      BY <3>1 DEF PeelOf
    <3>2. CASE ~IsCommit(v)
      <4>1. v.n \in 1..Len(tags) /\ IsTags(tags, Len(commits)) /\ IsCommit(TagOf(r).obj) /\ TagOf(r) = tags[v.n]
        BY <1>0, <1>1, <1>3, <3>2, PeelOfRef DEF GitOK, TagOf, NewObject, InCache
      <4>2. PeelIn(tags)[v.n] = TagOf(r).obj.n
        BY <1>1, <4>1, PeelFacts
      <4> QED BY <3>2, <4>2 DEF PeelOf
    <3> QED BY <3>1, <3>2
  <2>3. run.cache[c] \in 1..Len(commits)
    BY <1>1, <2>1 DEF CacheOK
  <2> HIDE DEF c, to, r, v
  <2>4. to \in Values /\ IsCommit(to) /\ to.n = run.cache[c] /\ PeelOf(tags, to) = run.cache[c]
    BY <1>1, <2>1, <2>3 DEF CommitRef, Values, IsCommit, PeelOf
  <2> QED BY <1>3, <2>1, <2>2, <2>3, <2>4 DEF to, r, v
<1> QED BY <1>2, <1>3

\* What updateOneRef writes for an annotated tag.
LEMMA TagIsWell ==
  ASSUME MigrateInv, UpdateOneRef, NewObject(Top) # NoRef, ~IsCommit(run.listed[Top])
  PROVE  LET tag == [TagOf(Top) EXCEPT !.obj = NewObject(Top)]
         IN /\ WellTag(commits, tags, tag) /\ tag.obj = NewObject(Top)
            /\ tag.name = TagOf(Top).name /\ tag.type = TagOf(Top).type
<1> DEFINE r == Top
           to == NewObject(r)
           old == TagOf(r)
           tag == [old EXCEPT !.obj = to]
<1>0. /\ GitOK(commits, tags, run.listed) /\ r \in Local /\ run.listed[r] # NoRef /\ run.pc # "idle"
  BY TopFacts, RunFacts DEF UpdateOneRef
<1>1. run.listed[r].n \in 1..Len(tags) /\ old = tags[run.listed[r].n] /\ IsTags(tags, Len(commits)) /\ r \in TagRefs
  BY <1>0, PeelOfRef DEF GitOK, TagOf
<1>2. /\ old = [name |-> old.name, type |-> old.type, obj |-> old.obj]
      /\ old.name \in TagRefs /\ old.type \in {"commit", "tag"}
  BY <1>1, TagFacts
<1>3. /\ to \in Values /\ (IsCommit(to) => to.n \in 1..Len(commits))
      /\ ~IsCommit(to) => old.type = "tag" /\ to.n \in 1..Len(tags)
  BY NewObjectIs DEF NestedTag
<1>4. tag = [name |-> old.name, type |-> old.type, obj |-> to]
  <2>1. tag = [old EXCEPT !.obj = to]
    OBVIOUS
  <2> HIDE DEF old, to, r, tag
  <2>2. tag = [f \in DOMAIN old |-> IF f = "obj" THEN to ELSE old[f]] /\ DOMAIN old = {"name", "type", "obj"}
    BY <1>2, <2>1
  <2> QED BY <1>1, <2>2
<1>5. tag.obj = to /\ tag.name = old.name /\ tag.type = old.type
  <2> HIDE DEF old, to, r, tag
  <2> QED BY <1>4
<1>6. WellTag(commits, tags, tag)
  <2> HIDE DEF old, to, r, tag
  <2> QED BY <1>2, <1>3, <1>4, <1>5 DEF WellTag
<1> QED BY <1>5, <1>6

\* Where updateOneRef moves the ref, by the commits that are named: to the new version of the commit that was
\* listed, or for a tag of a tag to the commit that its inner ref names.  It stays a tag of its name and
\* type, or lightweight.  Other refs stay.
LEMMA RefMoved ==
  ASSUME MigrateInv, UpdateOneRef
  PROVE  /\ Top \in Local /\ run.listed[Top] # NoRef /\ refs[Top] # NoRef /\ refs'[Top] # NoRef
         /\ IsTags(tags', Len(commits)) /\ TagsExtend(tags, tags') /\ Moved(commits, tags', refs, refs')
         /\ \A s \in (Local \cup Remotes) \ {Top} :
              refs'[s] = refs[s] /\ (refs[s] # NoRef => PeelOf(tags', refs'[s]) = PeelOf(tags, refs[s]))
         /\ NewObject(Top) = NoRef => UNCHANGED <<tags, refs>>
         /\ NewObject(Top) # NoRef =>
              /\ PeelOf(tags', refs'[Top]) = PeelOf(tags, NewObject(Top))
              /\ refs'[Top].t = run.listed[Top].t
              /\ ~IsCommit(refs'[Top]) =>
                   LET x == tags'[refs'[Top].n]
                   IN x.name = TagOf(Top).name /\ x.type = TagOf(Top).type /\ x.obj = NewObject(Top)
<1> DEFINE r == Top
           to == NewObject(r)
           tag == [TagOf(r) EXCEPT !.obj = to]
           v == run.listed[r]
<1>0. /\ run.pc = "refs" /\ run.stack # <<>>
      /\ \/ to = NoRef /\ UNCHANGED <<tags, refs>>
         \/ to # NoRef /\ IsCommit(v) /\ refs' = [refs EXCEPT ![r] = to] /\ tags' = tags
         \/ /\ to # NoRef /\ ~IsCommit(v) /\ tags' = Written(tags, tag)
            /\ refs' = [refs EXCEPT ![r] = TagRef(NumberOf(tags, tag))]
  BY DEF UpdateOneRef
<1>1. /\ GitOK(commits, tags, refs) /\ GitOK(commits, tags, run.listed) /\ r \in Local /\ refs[r] # NoRef /\ v # NoRef
      /\ refs \in [Local \cup Remotes -> Values \cup {NoRef}] /\ IsTags(tags, Len(commits)) /\ Len(tags) \in Nat
  BY <1>0, TopFacts, RunFacts DEF MigrateInv, GitOK, IsRefs, IsTags, IsSeq
<1>2. v.t = "tag" \/ v.t = "commit"
  <2>1. v \in Values
    BY <1>1 DEF GitOK, IsRefs
  <2> QED BY <2>1 DEF Values
<1>3. CASE to = NoRef /\ UNCHANGED <<tags, refs>>
  <2>1. TagsExtend(tags, tags') /\ Moved(commits, tags', refs, refs')
    BY <1>1, <1>3 DEF TagsExtend, Moved
  <2> QED BY <1>1, <1>3, <2>1
<1>4. CASE to # NoRef /\ IsCommit(v) /\ refs' = [refs EXCEPT ![r] = to] /\ tags' = tags
  <2>1. to \in Values /\ IsCommit(to) /\ to.n \in 1..Len(commits)
    BY <1>4, NewObjectIs DEF NestedTag
  <2> HIDE DEF r, to, v
  <2>2. /\ refs'[r] = to /\ \A s \in (Local \cup Remotes) \ {r} : refs'[s] = refs[s]
        /\ refs' \in [Local \cup Remotes -> Values \cup {NoRef}]
    BY <1>1, <1>4, <2>1
  <2>3. TagsExtend(tags, tags') /\ Moved(commits, tags', refs, refs')
    BY <1>1, <1>4, <2>1, <2>2 DEF TagsExtend, Moved
  <2>4. refs'[r].t = v.t /\ IsCommit(refs'[r])
    BY <1>4, <2>1, <2>2 DEF IsCommit
  <2> QED BY <1>1, <1>4, <2>2, <2>3, <2>4 DEF r, to, v
<1>5. CASE /\ to # NoRef /\ ~IsCommit(v) /\ tags' = Written(tags, tag)
           /\ refs' = [refs EXCEPT ![r] = TagRef(NumberOf(tags, tag))]
  <2> DEFINE k == NumberOf(tags, tag)
  <2>1. WellTag(commits, tags, tag) /\ tag.obj = to /\ tag.name = TagOf(r).name /\ tag.type = TagOf(r).type
    BY <1>5, TagIsWell
  <2>2. r \in TagRefs
    BY <1>1, <1>5, PeelOfRef
  <2> HIDE DEF r, to, tag, v
  <2>3. /\ IsTags(tags', Len(commits)) /\ TagsExtend(tags, tags') /\ k \in 1..Len(tags') /\ tags'[k] = tag
        /\ PeelIn(tags')[k] = PeelOf(tags, to)
    BY <1>1, <1>5, <2>1, TagWritten
  <2>4. k \in Nat
    <3>1. Len(tags') \in Nat
      BY <2>3 DEF IsTags, IsSeq
    <3> QED BY <2>3, <3>1
  <2> HIDE DEF k
  <2>5. TagRef(k) \in Values /\ TagRef(k) # NoRef /\ ~IsCommit(TagRef(k)) /\ TagRef(k).n = k /\ TagRef(k).t = "tag"
    BY <2>4, RefSets DEF TagRef, Values, IsCommit
  <2>6. /\ refs'[r] = TagRef(k) /\ \A s \in (Local \cup Remotes) \ {r} : refs'[s] = refs[s]
        /\ refs' \in [Local \cup Remotes -> Values \cup {NoRef}]
    BY <1>1, <1>5, <2>5 DEF k
  <2>7. Moved(commits, tags', refs, refs')
    BY <1>1, <2>2, <2>3, <2>5, <2>6 DEF Moved
  <2>8. \A s \in Local \cup Remotes : refs[s] # NoRef => PeelOf(tags', refs[s]) = PeelOf(tags, refs[s])
    <3>1. GitOK(commits, tags, refs) /\ IsTags(tags', Len(commits)) /\ TagsExtend(tags, tags')
      BY <1>1, <2>3
    <3>2. SUFFICES ASSUME NEW s \in Local \cup Remotes, refs[s] # NoRef
                   PROVE  PeelOf(tags', refs[s]) = PeelOf(tags, refs[s])
      OBVIOUS
    <3> QED BY <3>1, <3>2, SamePeel
  <2>9. refs'[r].t = v.t /\ PeelOf(tags', refs'[r]) = PeelOf(tags, to) /\ tags'[refs'[r].n] = tag
    BY <1>2, <1>5, <2>3, <2>5, <2>6 DEF IsCommit, PeelOf
  <2> QED BY <1>1, <1>5, <2>1, <2>3, <2>5, <2>6, <2>7, <2>8, <2>9 DEF r, to, v
<1> QED BY <1>0, <1>3, <1>4, <1>5

\* An own tag of a tag, whose inner ref the migration has been at: the inner ref names a tag of its own name.
LEMMA InnerIsOwn ==
  ASSUME MigrateInv, run.pc = "refs", NEW r \in OwnIn(conf), run.listed[r] # NoRef, NestedTag(r),
         refs[InnerRef(r)] # NoRef
  PROVE  /\ NestedIn(conf, r) /\ InnerRef(r) = InnerIn(conf, r) /\ InnerRef(r) \in OwnIn(conf) /\ InnerRef(r) \in TagRefs
         /\ conf.refs[InnerRef(r)] # NoRef /\ target[r] = target[InnerRef(r)]
         /\ Made(commits, tags, refs[InnerRef(r)]) \in target[r]
         /\ ~IsCommit(refs[InnerRef(r)]) /\ tags[refs[InnerRef(r)].n].name = InnerIn(conf, r)
<1> DEFINE s == InnerIn(conf, r)
           v == run.listed[r]
<1>1. ShapeOf(conf, tags, r, v) /\ r \in TagRefs /\ ~IsCommit(v) /\ TagOf(r).type = "tag" /\ conf \in Scenarios
  BY RunFacts DEF Named, NamedAs, NestedTag, MigrateInv
<1>2. v.t = "tag"
  <2>1. r \in Local \cup Remotes
    BY RefSets, OwnLocal
  <2>2. GitOK(commits, tags, run.listed)
    BY RunFacts
  <2>3. v \in Values
    BY <2>1, <2>2 DEF GitOK, IsRefs
  <2> QED BY <1>1, <2>3 DEF Values, IsCommit
<1>3. NestedIn(conf, r)
  BY <1>1, <1>2 DEF ShapeOf, NestedIn, TagOf
<1>4. InnerRef(r) = s
  BY <1>1, <1>3 DEF ShapeOf, InnerRef, TagOf
<1>5. s \in OwnIn(conf) /\ s \in TagRefs
  BY <1>1, <1>3, OwnInner
<1>6. ShapeOf(conf, tags, s, refs[s]) /\ Made(commits, tags, refs[s]) \in target[s]
  BY <1>4, <1>5 DEF MigrateInv, Named, NamedAs
<1>7. conf.refs[s] # NoRef
  BY <1>6 DEF ShapeOf
<1>8. conf.refs[s].t = "tag" /\ FirstTag(conf, s).name = s
  BY <1>1, <1>3, <1>7, OwnInner
<1>9. target[r] = target[s]
  BY <1>1, <1>3, <1>7 DEF MigrateInv, TargetOK
<1>10. ~IsCommit(refs[s]) /\ tags[refs[s].n].name = s
  BY <1>6, <1>8 DEF ShapeOf, IsCommit
<1> QED BY <1>3, <1>4, <1>5, <1>6, <1>7, <1>9, <1>10

\* What it moves to is what is meant.
LEMMA MovedAsMeant ==
  ASSUME MigrateInv, UpdateOneRef, Top \in OwnIn(conf), NewObject(Top) # NoRef
  PROVE  NamedAs(conf, commits, tags', Top, refs'[Top], target)
<1> DEFINE r == Top
           to == NewObject(r)
           v == run.listed[r]
           w == refs'[r]
<1>0. /\ run.pc = "refs" /\ run.pc # "idle" /\ run.stack # <<>> /\ v # NoRef /\ r \in Local /\ r \in OwnIn(conf)
      /\ conf \in Scenarios
      /\ NamedAs(conf, commits, tags, r, v, target) /\ GitOK(commits, tags, run.listed) /\ CacheOK(commits, run.cache)
  <2>1. run.pc = "refs" /\ run.stack # <<>>
    BY DEF UpdateOneRef
  <2> QED BY <2>1, TopFacts, RunFacts DEF Named, MigrateInv
<1>1. /\ PeelOf(tags', w) = PeelOf(tags, to) /\ w.t = v.t
      /\ ~IsCommit(w) => /\ tags'[w.n].name = TagOf(r).name /\ tags'[w.n].type = TagOf(r).type
                         /\ tags'[w.n].obj = to
      /\ TagsExtend(tags, tags')
  BY RefMoved
<1>2. IsCommit(w) <=> IsCommit(v)
  BY <1>1 DEF IsCommit
<1>3. r \in TagRefs =>
        /\ conf.refs[r] # NoRef /\ w.t = conf.refs[r].t
        /\ ~IsCommit(w) => tags'[w.n].name = FirstTag(conf, r).name /\ tags'[w.n].type = FirstTag(conf, r).type
  BY <1>0, <1>1, <1>2 DEF NamedAs, ShapeOf, TagOf
<1>4. CASE ~NestedTag(r)
  <2>1. PeelOf(tags, v) \in DOMAIN run.cache /\ PeelOf(tags, to) = run.cache[PeelOf(tags, v)]
    BY <1>4, NewObjectIs
  <2>2. Made(commits, tags', w) = Made(commits, tags, v)
    BY <1>0, <1>1, <2>1 DEF CacheOK, Made
  <2>3. ASSUME r \in TagRefs PROVE ~NestedIn(conf, r)
    BY <1>0, <1>4, <2>3 DEF NamedAs, ShapeOf, NestedIn, NestedTag, TagOf, IsCommit
  <2> HIDE DEF r, w, v, to
  <2> QED BY <1>0, <1>3, <2>2, <2>3 DEF NamedAs, ShapeOf, r, w
<1>5. CASE NestedTag(r)
  <2> DEFINE s == InnerRef(r)
  <2>1. refs[s] # NoRef /\ to = refs[s] /\ s \in Local
    BY <1>5, NewObjectIs
  <2>2. /\ NestedIn(conf, r) /\ s = InnerIn(conf, r) /\ Made(commits, tags, refs[s]) \in target[r]
        /\ ~IsCommit(refs[s]) /\ tags[refs[s].n].name = InnerIn(conf, r)
    BY <1>0, <1>5, <2>1, InnerIsOwn
  <2>3. ~IsCommit(v)
    BY <1>5 DEF NestedTag
  <2>4. tags'[refs[s].n] = tags[refs[s].n]
    <3>1. refs[s].n \in 1..Len(tags)
      BY <2>1, <2>2, PeelOfRef DEF MigrateInv
    <3> QED BY <1>1, <3>1 DEF TagsExtend
  <2>5. Made(commits, tags', w) \in target[r]
    BY <1>1, <2>1, <2>2 DEF Made
  <2> HIDE DEF r, w, v, to, s
  <2>6. ~IsCommit(tags'[w.n].obj) /\ tags'[tags'[w.n].obj.n].name = InnerIn(conf, r)
    BY <1>1, <1>2, <2>1, <2>2, <2>3, <2>4
  <2> QED BY <1>3, <2>5, <2>6 DEF NamedAs, ShapeOf, r, w
<1> QED BY <1>4, <1>5

\* updateOneRef: a branch or a lightweight tag moves to the new version of its commit, an annotated tag
\* is written again, and a tag of a tag with the tag its inner ref names now.
LEMMA UpdateOneRefKeeps ==
  ASSUME MigrateInv, UpdateOneRef
  PROVE  MigrateInv'
<1> DEFINE r == Top
<1>0. /\ run.pc = "refs" /\ run.pc # "idle" /\ run.stack # <<>> /\ run' = [run EXCEPT !.stack = Front(@)]
      /\ UNCHANGED <<conf, commits, head, remote, target>>
  BY DEF UpdateOneRef, history
<1>1. /\ r \in Local /\ IsTags(tags', Len(commits)) /\ TagsExtend(tags, tags') /\ Moved(commits, tags', refs, refs')
      /\ \A s \in (Local \cup Remotes) \ {r} : refs'[s] = refs[s]
      /\ NewObject(r) = NoRef => UNCHANGED <<tags, refs>>
  BY RefMoved
<1>2. GitOK(commits, tags, refs) /\ conf \in Scenarios /\ Named(conf, commits, tags, refs, target)
  BY DEF MigrateInv
<1>3. RunOK(run', commits, tags, refs) /\ ListedOK(conf, commits, tags, run', target)
  <2>1. /\ run'.list = run.list /\ run'.stack = Front(run.stack) /\ run'.seen = run.seen
        /\ run' = [f \in RunFields |-> run'[f]] /\ \A f \in RunFields \ {"list", "stack", "seen"} : run'[f] = run[f]
    BY <1>0, RunFacts DEF RunFields
  <2>2. /\ run.list \in Seq(Local) /\ Front(run.stack) \in Seq(Local)
        /\ \A i \in 1..Len(Front(run.stack)) : run.listed[Front(run.stack)[i]] # NoRef
        /\ \A s \in run.seen : s \in Local /\ refs[s] # NoRef
    BY <1>0, TopFacts, RunFacts DEF MovesOK
  <2> QED BY <1>0, <2>1, <2>2, OnlyLists
<1>4. /\ GitOK(commits, tags', refs) /\ Named(conf, commits, tags', refs, target)
      /\ RunOK(run', commits, tags', refs) /\ ListedOK(conf, commits, tags', run', target)
  BY <1>1, <1>2, <1>3, SameTags, MoreTags
<1>5. GitOK(commits, tags', refs') /\ HeadOK(head, refs') /\ RunOK(run', commits, tags', refs')
  BY <1>1, <1>4, RefsMove DEF MigrateInv
<1>6. Named(conf, commits, tags', refs', target)
  <2>1. CASE NewObject(r) = NoRef
    BY <1>1, <1>2, <2>1
  <2>2. CASE NewObject(r) # NoRef
    <3>1. r \in OwnIn(conf) /\ refs'[r] # NoRef => NamedAs(conf, commits, tags', r, refs'[r], target)
      BY <2>2, MovedAsMeant
    <3> HIDE DEF r
    <3>2. \A s \in Local \ {r} : refs'[s] = refs[s] /\ target[s] = target[s]
      BY <1>1
    <3> QED BY <1>4, <3>1, <3>2, OneNamed
  <2> QED BY <2>1, <2>2
<1> QED BY <1>0, <1>2, <1>4, <1>5, <1>6 DEF MigrateInv

-----------------------------------------------------------------------------
(* Rewriting a commit *)

\* Every blob is rewritten to one of the same content.
LEMMA RewriteBlobKeeps ==
  ASSUME NEW opt, NEW attrs, NEW p, NEW b \in Blobs
  PROVE  RewriteBlob(opt, attrs, p, b) \in Blobs /\ RewriteBlob(opt, attrs, p, b).oid = b.oid
<1>1. Clean(b) \in Blobs /\ Clean(b).oid = b.oid
  BY DEF Clean, CopyToTemp, Blobs
<1>2. [b EXCEPT !.ptr = FALSE] \in Blobs /\ [b EXCEPT !.ptr = FALSE].oid = b.oid
  BY DEF Blobs
<1>3. RewriteBlob(opt, attrs, p, b) \in {Clean(b), [b EXCEPT !.ptr = FALSE], b}
  BY DEF RewriteBlob
<1> QED BY <1>1, <1>2, <1>3

\* The entries of a tree, from the cache or not, keep their contents, and so does the cache.
LEMMA EntriesKept ==
  ASSUME MigrateInv, run.pc # "idle", NEW c \in 1..Len(commits)
  PROVE  /\ EntriesOK(CachedEntries(c)) /\ [p \in Paths |-> RewriteEntry(c, p)] \in Files
         /\ Contents([p \in Paths |-> RewriteEntry(c, p)]) = Contents(commits[c].tree.files)
<1>0. commits[c].tree.files \in Files /\ EntriesOK(run.entries)
  BY RunFacts DEF MigrateInv, GitOK, IsHistory, Sound
<1>1. \A p \in Paths : Blob(c, p) = commits[c].tree.files[p] /\ Blob(c, p) \in Blobs \cup {NoBlob}
  BY <1>0 DEF Blob, Files
<1>2. \A p \in Rewritten(c) : p \in Paths /\ Blob(c, p) \in Blobs
  BY <1>1 DEF Rewritten
<1>3. \A p \in Rewritten(c) : NewBlob(c, p) \in Blobs /\ NewBlob(c, p).oid = Blob(c, p).oid
  BY <1>2, RewriteBlobKeeps DEF NewBlob
<1>4. \A p \in Rewritten(c) : p \in Uncached(c) \/ EntryKey(p, Blob(c, p)) \in DOMAIN run.entries
  BY DEF Uncached
<1>5. \A p \in Paths :
        \/ RewriteEntry(c, p) = Blob(c, p)
        \/ /\ RewriteEntry(c, p) \in Blobs /\ RewriteEntry(c, p).oid = Blob(c, p).oid
           /\ Blob(c, p) \in Blobs
  <2> SUFFICES ASSUME NEW p \in Paths, p \in Rewritten(c)
               PROVE  /\ RewriteEntry(c, p) \in Blobs /\ RewriteEntry(c, p).oid = Blob(c, p).oid
                      /\ Blob(c, p) \in Blobs
    BY DEF RewriteEntry, Uncached
  <2>1. CASE p \in Uncached(c)
    BY <1>2, <1>3, <2>1 DEF RewriteEntry
  <2>2. CASE p \notin Uncached(c)
    <3> DEFINE key == EntryKey(p, Blob(c, p))
    <3>1. key \in DOMAIN run.entries /\ RewriteEntry(c, p) = run.entries[key]
      BY <1>4, <2>2 DEF RewriteEntry
    <3>2. run.entries[key] \in Blobs /\ run.entries[key].oid = key[2].oid
      BY <1>0, <3>1 DEF EntriesOK
    <3>3. key[2] = Blob(c, p)
      BY DEF EntryKey
    <3> QED BY <1>2, <3>1, <3>2, <3>3
  <2> QED BY <2>1, <2>2
<1> DEFINE files == [p \in Paths |-> RewriteEntry(c, p)]
<1>6. files \in Files
  BY <1>1, <1>5 DEF Files
<1>7. Contents(files) = Contents(commits[c].tree.files)
  <2>1. \A p \in Paths : (files[p] = NoBlob) <=> (Blob(c, p) = NoBlob)
    BY <1>5, RefSets
  <2>2. \A p \in Paths : files[p] # NoBlob => files[p].oid = Blob(c, p).oid
    BY <1>5
  <2> HIDE DEF files
  <2> QED BY <1>1, <2>1, <2>2 DEF Contents
<1>8. EntriesOK(CachedEntries(c))
  <2> DEFINE K == {EntryKey(p, Blob(c, p)) : p \in Uncached(c)}
  <2>1. CachedEntries(c) = [key \in (DOMAIN run.entries) \cup K |->
                              IF key \in DOMAIN run.entries THEN run.entries[key] ELSE NewBlob(c, key[1])]
    BY DEF CachedEntries
  <2>2. \A key \in K : /\ key \in Paths \X Blobs /\ NewBlob(c, key[1]) \in Blobs
                         /\ NewBlob(c, key[1]).oid = key[2].oid
    <3> SUFFICES ASSUME NEW p \in Uncached(c)
                 PROVE  LET key == EntryKey(p, Blob(c, p))
                        IN /\ key \in Paths \X Blobs /\ NewBlob(c, key[1]) \in Blobs
                           /\ NewBlob(c, key[1]).oid = key[2].oid
      OBVIOUS
    <3>1. p \in Rewritten(c)
      BY DEF Uncached
    <3> QED BY <1>2, <1>3, <3>1 DEF EntryKey
  <2> HIDE DEF K
  <2> QED BY <1>0, <2>1, <2>2 DEF EntriesOK
<1> QED BY <1>6, <1>7, <1>8

\* The new parents are versions of the old ones.
LEMMA ParentsMapped ==
  ASSUME MigrateInv, run.pc # "idle", NEW ps \in Seq(1..Len(commits))
  PROVE  /\ MapParents(ps) \in Seq(1..Len(commits)) /\ Len(MapParents(ps)) = Len(ps)
         /\ \A i \in 1..Len(ps) : commits[MapParents(ps)[i]].made = commits[ps[i]].made
<1>1. CacheOK(commits, run.cache) /\ Len(ps) \in Nat /\ \A i \in 1..Len(ps) : ps[i] \in 1..Len(commits)
  BY RunFacts
<1> DEFINE F(i) == IF ps[i] \in DOMAIN run.cache THEN run.cache[ps[i]] ELSE ps[i]
<1>2. \A i \in 1..Len(ps) : F(i) \in 1..Len(commits) /\ commits[F(i)].made = commits[ps[i]].made
  BY <1>1 DEF CacheOK
<1>3. MapParents(ps) = [i \in 1..Len(ps) |-> F(i)]
  BY DEF MapParents
<1> HIDE DEF F
<1>4. MapParents(ps) \in Seq(1..Len(commits)) /\ Len(MapParents(ps)) = Len(ps)
  BY <1>1, <1>2, <1>3
<1> QED BY <1>2, <1>3, <1>4

\* A commit with its tree and parents rewritten is a version of it.
LEMMA RewrittenIsVersion ==
  ASSUME MigrateInv, run.pc # "idle", NEW c \in 1..Len(commits), NEW attrs, NEW x,
         x = [commits[c] EXCEPT !.parents = MapParents(@),
                !.tree = [files |-> [p \in Paths |-> RewriteEntry(c, p)], attrs |-> attrs]]
  PROVE  Addable(commits, x) /\ x.made = commits[c].made /\ x.made \in 1..Len(commits)
<1> DEFINE y == commits[c]
           files == [p \in Paths |-> RewriteEntry(c, p)]
           tree == [files |-> files, attrs |-> attrs]
           ps == MapParents(y.parents)
<1>0. IsHistory(commits) /\ Sound(commits, c) /\ Kept(commits, c) /\ Len(commits) \in Nat
  BY ParentsBefore DEF MigrateInv, GitOK, IsHistory
<1>1. /\ y = [made |-> y.made, parents |-> y.parents, tree |-> y.tree] /\ y.made \in 1..Len(commits)
      /\ y.parents \in Seq(1..(c - 1))
  BY <1>0 DEF Sound
<1>2. y.parents \in Seq(1..Len(commits))
  BY <1>0, <1>1, SeqMonotonic
<1>3. ps \in Seq(1..Len(commits)) /\ Len(ps) = Len(y.parents)
      /\ \A i \in 1..Len(ps) : commits[ps[i]].made = commits[y.parents[i]].made
  BY <1>2, ParentsMapped
<1>4. files \in Files /\ Contents(files) = Contents(y.tree.files)
  BY EntriesKept
<1>5. x = [made |-> y.made, parents |-> ps, tree |-> tree]
  <2>1. x = [y EXCEPT !.parents = ps, !.tree = tree]
    OBVIOUS
  <2> HIDE DEF y, ps, tree, files
  <2>2. x = [f \in DOMAIN y |-> IF f = "tree" THEN tree ELSE IF f = "parents" THEN ps ELSE y[f]]
        /\ DOMAIN y = {"made", "parents", "tree"}
    BY <1>1, <2>1
  <2> QED BY <2>2
<1>6. /\ x.made = y.made /\ x.parents = ps /\ x.tree.files = files
      /\ x = [made |-> x.made, parents |-> x.parents, tree |-> [files |-> x.tree.files, attrs |-> x.tree.attrs]]
  <2> HIDE DEF y, ps, files
  <2> QED BY ONLY <1>5
<1>7. /\ Contents(y.tree.files) = Contents(commits[y.made].tree.files)
      /\ Len(y.parents) = Len(commits[y.made].parents)
      /\ \A i \in 1..Len(y.parents) : commits[y.parents[i]].made = commits[commits[y.made].parents[i]].made
  BY <1>0 DEF Kept
<1> HIDE DEF y, ps, tree, files
<1>8. Addable(commits, x)
  <2>1. x.made \in 1..(Len(commits) + 1)
    BY <1>0, <1>1, <1>6
  <2> QED BY <1>3, <1>4, <1>6, <1>7, <2>1 DEF Addable
<1> QED BY <1>1, <1>6, <1>8 DEF y

\* rewriteCommit.
LEMMA RewriteCommitKeeps ==
  ASSUME MigrateInv, RewriteCommit
  PROVE  MigrateInv'
<1>0. /\ UNCHANGED <<conf, tags, refs, head, remote, target>> /\ run.pc = "rewrite" /\ run.pc # "idle"
      /\ GitOK(commits, tags, refs) /\ IsHistory(commits) /\ IsSeq(commits) /\ Len(commits) \in Nat
  BY ParentsBefore DEF RewriteCommit, history, MigrateInv, GitOK, IsHistory
<1>1. CASE run' = NoRun /\ commits' = commits
  BY <1>0, <1>1, NoRunOK, OnlyRun
<1>2. CASE ~(run' = NoRun /\ commits' = commits)
  <2>1. PICK c \in run.todo :
          LET acc == RewriteTree(c)
              new == [commits[c] EXCEPT !.parents = MapParents(@),
                        !.tree = [files |-> acc.files, attrs |-> TreeCallback(run.opt, acc.exts, @.attrs)]]
              n == NumberOf(commits, new)
          IN /\ commits' = Written(commits, new)
             /\ run' = [run EXCEPT !.todo = @ \ {c}, !.cache = CacheCommit(c, n), !.entries = acc.entries,
                                   !.exts = acc.exts, !.counted = acc.counted]
    BY <1>2 DEF RewriteCommit
  <2> DEFINE acc == RewriteTree(c)
             attrs == TreeCallback(run.opt, acc.exts, commits[c].tree.attrs)
             files == [p \in Paths |-> RewriteEntry(c, p)]
             x == [commits[c] EXCEPT !.parents = MapParents(@), !.tree = [files |-> files, attrs |-> attrs]]
             n == NumberOf(commits, x)
  <2>2. /\ commits' = Written(commits, x) /\ acc.entries = CachedEntries(c)
        /\ run' = [run EXCEPT !.todo = @ \ {c}, !.cache = CacheCommit(c, n), !.entries = acc.entries,
                              !.exts = acc.exts, !.counted = acc.counted]
    <3>1. acc.files = files /\ acc.entries = CachedEntries(c)
      BY DEF RewriteTree
    <3> HIDE DEF files, acc
    <3> QED BY <2>1, <3>1 DEF acc
  <2>3. c \in 1..Len(commits)
    BY <1>0, RunFacts
  <2> HIDE DEF attrs
  <2>4. Addable(commits, x) /\ x.made = commits[c].made /\ EntriesOK(CachedEntries(c))
    BY <1>0, <2>3, RewrittenIsVersion, EntriesKept
  <2> HIDE DEF x, n, acc
  <2>5. Extends(commits, commits') /\ n \in 1..Len(commits') /\ commits'[n] = x
    <3>1. n \in 1..Len(commits') /\ commits'[n] = x /\ (commits' = commits \/ commits' = Append(commits, x))
      BY <1>0, <2>2, WrittenFacts DEF n
    <3>2. CASE commits' = commits
      BY <1>0, <3>1, <3>2 DEF Extends
    <3>3. CASE commits' = Append(commits, x)
      BY <1>0, <2>4, <3>1, <3>3, HistoryGrows
    <3> QED BY <3>1, <3>2, <3>3
  <2>6. /\ GitOK(commits', tags, refs) /\ RemoteOK(commits', remote) /\ Named(conf, commits', tags, refs, target)
        /\ RunOK(run, commits', tags, refs)
    BY <1>0, <2>5, MoreCommits DEF MigrateInv
  <2>7. /\ CacheOK(commits', CacheCommit(c, n))
    <3>1. c \in 1..Len(commits') /\ commits'[c] = commits[c]
      BY <1>0, <2>3, <2>5, ParentsBefore DEF Extends
    <3>2. CacheOK(commits', run.cache)
      BY <1>0, <2>6 DEF RunOK, NoRun
    <3> QED BY <2>4, <2>5, <3>1, <3>2 DEF CacheOK, CacheCommit
  <2>8. RunOK(run', commits', tags, refs) /\ ListedOK(conf, commits', tags, run', target)
    <3>1. run # NoRun
      BY <1>0 DEF NoRun
    <3> HIDE DEF RunFields
    <3>2. /\ run'.pc = run.pc /\ run'.todo = run.todo \ {c} /\ run'.cache = CacheCommit(c, n)
          /\ run'.entries = CachedEntries(c) /\ run'.list = run.list /\ run'.stack = run.stack
          /\ run'.seen = run.seen /\ run' = [f \in RunFields |-> run'[f]]
      BY <2>2, <2>6, <3>1 DEF RunOK, RunFields
    <3> QED BY <1>0, <2>4, <2>6, <2>7, <3>1, <3>2 DEF RunOK, ListedOK
  <2> QED BY <1>0, <2>6, <2>8 DEF MigrateInv
<1> QED BY <1>1, <1>2

-----------------------------------------------------------------------------
(* The start *)

\* The refs after a fetch.
LEMMA FetchMoves ==
  ASSUME MigrateInv, NEW opt
  PROVE  /\ Moved(commits, tags, refs, Fetch(opt)) /\ GitOK(commits, tags, Fetch(opt))
         /\ \A r \in Local : Fetch(opt)[r] = refs[r]
<1>0. GitOK(commits, tags, refs) /\ refs \in [Local \cup Remotes -> Values \cup {NoRef}] /\ Len(commits) \in Nat
  BY ParentsBefore DEF MigrateInv, GitOK, IsRefs
<1>1. \A b \in DOMAIN remote : /\ CommitRef(remote[b]) \in Values /\ CommitRef(remote[b]) # NoRef
                               /\ IsCommit(CommitRef(remote[b])) /\ CommitRef(remote[b]).n \in 1..Len(commits)
  BY <1>0, RefSets DEF MigrateInv, RemoteOK, CommitRef, Values, IsCommit
<1>2. /\ Fetch(opt) \in [Local \cup Remotes -> Values \cup {NoRef}]
      /\ \A r \in Local \cup Remotes :
           \/ Fetch(opt)[r] = refs[r]
           \/ r \in Remotes /\ \E b \in DOMAIN remote : Fetch(opt)[r] = CommitRef(remote[b])
  BY <1>0, <1>1 DEF Fetch
<1>3. Moved(commits, tags, refs, Fetch(opt))
  BY <1>1, <1>2 DEF Moved
<1>4. GitOK(commits, tags, Fetch(opt))
  BY <1>0, <1>3, RefsMove
<1> QED BY <1>2, <1>3, <1>4, RefSets

\* What refs reach are commits.
LEMMA ReachCommits ==
  ASSUME GitOK(commits, tags, refs), NEW rf, GitOK(commits, tags, rf), NEW R, R \subseteq Local \cup Remotes
  PROVE  ReachIn(rf, R) \subseteq 1..Len(commits)
<1>1. ASSUME NEW r \in R, rf[r] # NoRef
      PROVE  Ancestors[Peel(rf[r])] \subseteq 1..Len(commits)
  <2>1. r \in Local \cup Remotes
    OBVIOUS
  <2>2. Peel(rf[r]) \in 1..Len(commits)
    BY <1>1, <2>1, PeelOfRef, PeelIs
  <2> QED BY <2>2, AncestorFacts, AncestorsAre DEF GitOK
<1> QED BY <1>1 DEF ReachIn

\* The refs of the options are refs.
LEMMA IncludedRefs ==
  ASSUME MigrateInv, NEW opt \in conf.options
  PROVE  IncludeRefs(opt) \subseteq Local \cup Remotes
<1>1. DOMAIN conf.refs = Local \cup Remotes /\ opt.args \cup opt.includeRefs \subseteq DOMAIN conf.refs
  BY MigrateAssumption DEF MigrateInv, GoodRefs, Local
<1>2. DOMAIN refs = Local \cup Remotes /\ head \in Local
  BY HeadFacts DEF MigrateInv, GitOK, IsRefs
<1> QED BY <1>1, <1>2 DEF IncludeRefs

\* import, export and info.
LEMMA StartMigrateKeeps ==
  ASSUME MigrateInv, StartMigrate
  PROVE  MigrateInv'
<1>1. PICK opt \in conf.options :
        /\ refs' = refs \/ refs' = Fetch(opt)
        /\ run' = run \/ (refs' = Fetch(opt) /\ run' = NewRun(opt, Fetch(opt)))
  BY DEF StartMigrate
<1>2. UNCHANGED <<conf, commits, tags, head, remote, target>>
  BY DEF StartMigrate, history
<1>3. /\ Moved(commits, tags, refs, Fetch(opt)) /\ GitOK(commits, tags, Fetch(opt))
      /\ \A r \in Local : Fetch(opt)[r] = refs[r]
  BY FetchMoves
<1>4. GitOK(commits, tags, refs) /\ GitOK(commits, tags, refs') /\ HeadOK(head, refs') /\ RunOK(run, commits, tags, refs')
  <2>1. CASE refs' = refs
    BY <2>1 DEF MigrateInv
  <2>2. CASE refs' = Fetch(opt)
    BY <1>3, <2>2, RefsMove DEF MigrateInv
  <2> QED BY <1>1, <2>1, <2>2
<1>5. Named(conf, commits, tags, refs', target)
  <2>1. \A r \in Local : refs'[r] = refs[r]
    BY <1>1, <1>3
  <2> QED BY <2>1, NamedLocal DEF MigrateInv
<1>6. /\ RunOK(NewRun(opt, Fetch(opt)), commits, tags, Fetch(opt))
      /\ ListedOK(conf, commits, tags, NewRun(opt, Fetch(opt)), target)
  <2>1. IncludeRefs(opt) \subseteq Local \cup Remotes
    BY IncludedRefs
  <2>2. CommitsToMigrate(opt, Fetch(opt)) \subseteq 1..Len(commits)
    BY <1>3, <1>4, <2>1, ReachCommits DEF CommitsToMigrate
  <2> DEFINE q == NewRun(opt, Fetch(opt))
  <2>3. /\ q.pc \in {"download", "rewrite"} /\ q.todo = CommitsToMigrate(opt, Fetch(opt)) /\ q.cache = <<>>
        /\ q.entries = <<>> /\ q.list = <<>> /\ q.stack = <<>> /\ q.seen = {} /\ q = [f \in RunFields |-> q[f]]
    BY DEF NewRun, RunFields
  <2> HIDE DEF q
  <2>4. CacheOK(commits, q.cache) /\ EntriesOK(q.entries)
    BY <2>3 DEF CacheOK, EntriesOK
  <2>5. q.list \in Seq(Local) /\ q.stack \in Seq(Local)
    BY <2>3
  <2> QED BY <2>2, <2>3, <2>4, <2>5 DEF RunOK, ListedOK, q
<1>7. RunOK(run', commits, tags, refs') /\ ListedOK(conf, commits, tags, run', target)
  BY <1>1, <1>4, <1>6 DEF MigrateInv
<1> QED BY <1>2, <1>4, <1>5, <1>7 DEF MigrateInv

\* The scenarios.
LEMMA InitHolds ==
  ASSUME Init
  PROVE  MigrateInv
<1>0. /\ conf \in Scenarios /\ commits = conf.commits /\ tags = conf.tags /\ refs = conf.refs
      /\ head = conf.head /\ remote = conf.remote /\ run = NoRun
      /\ target = [r \in Local |-> IF refs[r] = NoRef THEN {} ELSE {Peel(refs[r])}]
  BY DEF Init, Local
<1>1. /\ GoodCommits(commits) /\ GoodTags(tags, commits) /\ GoodRefs(tags, commits, refs)
      /\ HeadOK(head, refs) /\ RemoteOK(commits, remote)
  BY <1>0, MigrateAssumption DEF HeadOK, RemoteOK
<1>2. IsHistory(commits) /\ \A c \in 1..Len(commits) : commits[c].made = c
  <2>1. IsSeq(commits) /\ Len(commits) \in Nat
        /\ \A c \in 1..Len(commits) : commits[c] \in [made : Nat, parents : Seq(Nat), tree : Trees]
    BY <1>1, TypedIsSeq DEF GoodCommits
  <2>2. \A c \in 1..Len(commits) : commits[c].made = c /\ commits[c].parents \in Seq(1..(c - 1))
    BY <1>1 DEF GoodCommits
  <2>3. \A c \in 1..Len(commits) : Sound(commits, c)
    BY <2>1, <2>2 DEF Sound, Trees, Files
  <2>4. \A c \in 1..Len(commits) : Kept(commits, c)
    BY <2>2 DEF Kept
  <2> QED BY <2>1, <2>2, <2>3, <2>4 DEF IsHistory
<1>3. IsTags(tags, Len(commits))
  <2>1. IsSeq(tags) /\ \A i \in 1..Len(tags) : tags[i] \in [name : TagRefs, type : {"commit", "tag"}, obj : Values]
    BY <1>1, TypedIsSeq DEF GoodTags
  <2>2. \A i \in 1..Len(tags) :
          /\ tags[i].obj.t = tags[i].type
          /\ tags[i].obj.n \in IF tags[i].type = "commit" THEN 1..Len(commits) ELSE 1..(i - 1)
    BY <1>1 DEF GoodTags
  <2>3. \A i \in 1..Len(tags) :
          /\ IsCommit(tags[i].obj) => tags[i].obj.n \in 1..Len(commits)
          /\ ~IsCommit(tags[i].obj) => tags[i].type = "tag" /\ tags[i].obj.n \in 1..(i - 1)
    BY <2>1, <2>2 DEF IsCommit
  <2> QED BY <2>1, <2>3 DEF IsTags
<1>4. IsRefs(refs, tags, Len(commits))
  <2>1. refs \in [Local \cup Remotes -> Values \cup {NoRef}]
    BY <1>1 DEF GoodRefs, Local
  <2>2. \A r \in Local \cup Remotes : refs[r] # NoRef =>
          /\ IsCommit(refs[r]) => refs[r].n \in 1..Len(commits)
          /\ ~IsCommit(refs[r]) => r \in TagRefs /\ refs[r].n \in 1..Len(tags)
    BY <1>1, <2>1 DEF GoodRefs, IsCommit
  <2> QED BY <2>1, <2>2 DEF IsRefs
<1>6. GitOK(commits, tags, refs)
  BY <1>2, <1>3, <1>4 DEF GitOK
<1>7. ASSUME NEW r \in Local, refs[r] # NoRef
      PROVE  target[r] = {PeelOf(tags, refs[r])} /\ Made(commits, tags, refs[r]) \in target[r]
  <2>1. r \in Local \cup Remotes
    OBVIOUS
  <2>2. PeelOf(tags, refs[r]) \in 1..Len(commits)
    BY <1>6, <1>7, <2>1, PeelOfRef
  <2>3. target[r] = {PeelOf(tags, refs[r])}
    BY <1>0, <1>7, PeelIs
  <2> QED BY <1>2, <2>2, <2>3 DEF Made
<1>8. ASSUME NEW r \in OwnIn(conf), refs[r] # NoRef, r \in TagRefs
      PROVE  ShapeOf(conf, tags, r, refs[r])
  <2>1. NestedIn(conf, r) => ~IsCommit(tags[refs[r].n].obj)
    <3> SUFFICES ASSUME NestedIn(conf, r) PROVE ~IsCommit(tags[refs[r].n].obj)
      OBVIOUS
    <3>1. r \in Local \cup Remotes /\ ~IsCommit(refs[r]) /\ tags[refs[r].n].type = "tag"
      BY <1>0, <1>8, RefSets DEF NestedIn, FirstTag, IsCommit
    <3>2. refs[r].n \in 1..Len(tags)
      BY <1>6, <1>8, <3>1, PeelOfRef
    <3> QED BY <1>1, <3>1, <3>2 DEF GoodTags, IsCommit
  <2> QED BY <1>0, <1>8, <2>1 DEF ShapeOf, FirstTag, InnerIn
<1>9. Named(conf, commits, tags, refs, target)
  BY <1>7, <1>8, OwnLocal DEF Named, NamedAs
<1>10. TargetOK(conf, target)
  <2>1. ASSUME NEW r \in OwnIn(conf) \cap TagRefs, NestedIn(conf, r), conf.refs[InnerIn(conf, r)] # NoRef
        PROVE  target[r] = target[InnerIn(conf, r)]
    <3> DEFINE s == InnerIn(conf, r)
    <3>1. s \in Local /\ r \in Local /\ refs[s] # NoRef /\ refs[r] # NoRef
      BY <1>0, <2>1, OwnInner, RefSets DEF NestedIn
    <3>2. refs[s] = tags[refs[r].n].obj /\ ~IsCommit(refs[s]) /\ ~IsCommit(refs[r])
      BY <1>0, <2>1, OwnInner DEF FirstTag, NestedIn, IsCommit
    <3> HIDE DEF s
    <3>3. refs[r].n \in 1..Len(tags) /\ Len(commits) \in Nat
      <4>1. r \in Local \cup Remotes
        BY <3>1
      <4>2. ~IsCommit(refs[r]) => refs[r].n \in 1..Len(tags)
        BY <1>4, <3>1, <4>1 DEF IsRefs
      <4> QED BY <1>2, <3>2, <4>2, ParentsBefore
    <3>4. PeelIn(tags)[refs[r].n] = PeelIn(tags)[refs[s].n]
      BY <1>3, <3>2, <3>3, PeelFacts
    <3>5. PeelOf(tags, refs[r]) = PeelOf(tags, refs[s])
      BY <3>2, <3>4 DEF PeelOf
    <3> QED BY <1>7, <3>1, <3>5 DEF s
  <2>2. target = [r \in Local |-> target[r]]
    BY <1>0
  <2> QED BY <2>1, <2>2 DEF TargetOK
<1> QED BY <1>0, <1>1, <1>6, <1>9, <1>10, NoRunOK DEF MigrateInv

-----------------------------------------------------------------------------
(* The theorem *)

\* Every step keeps the invariant.
LEMMA StepKeeps ==
  ASSUME MigrateInv, [Next]_vars
  PROVE  MigrateInv'
<1>1. CASE UNCHANGED vars
  BY <1>1 DEF vars, gitVars, history, MigrateInv
<1>2. CASE UserNext
  BY <1>2, CommitKeeps, GitPushKeeps, RemoteCommitKeeps, SetupKeeps, KillKeeps DEF UserNext
<1>3. CASE MigrateNext
  BY <1>3, StartMigrateKeeps, DownloadKeeps, RewriteCommitKeeps, EndRewriteKeeps, NextRefKeeps,
     UpdateInnerTagKeeps, UpdateOneRefKeeps, EndMigrateKeeps, ImportNoRewriteKeeps DEF MigrateNext
<1> QED BY <1>1, <1>2, <1>3 DEF Next

\* The invariant gives the property.
LEMMA InvKept ==
  ASSUME MigrateInv
  PROVE  HistoryKept
<1> SUFFICES ASSUME NEW r \in Local, refs[r] # NoRef
             PROVE  /\ r \in Own => commits[Peel(refs[r])].made \in target[r]
                    /\ \A c \in Ancestors[Peel(refs[r])] : Faithful(c)
  BY DEF HistoryKept, Local
<1>1. GitOK(commits, tags, refs) /\ IsHistory(commits) /\ r \in Local \cup Remotes
  BY DEF MigrateInv, GitOK
<1>2. Peel(refs[r]) \in 1..Len(commits)
  BY <1>1, PeelOfRef, PeelIs
<1>3. r \in Own => commits[Peel(refs[r])].made \in target[r]
  BY PeelIs, OwnIs DEF MigrateInv, Named, NamedAs, Made
<1>4. \A c \in 1..Len(commits) : Faithful(c)
  BY <1>1 DEF IsHistory, Kept, Faithful
<1>5. Ancestors[Peel(refs[r])] \subseteq 1..Len(commits)
  BY <1>1, <1>2, AncestorFacts, AncestorsAre
<1> QED BY <1>3, <1>4, <1>5

\* A migration that ends, fails or is killed at any point, and is run again, leaves every branch and tag
\* on the commit it named, with the ancestors and the contents it had: what Rewriter and refUpdater
\* change is how files are stored.  For any history with merges, tags of tags and options; a tag of a tag
\* whose inner tag's ref was moved by git tag -f may follow that ref, and a branch on which the user
\* commits while refs move may lose the commit, but whatever they name has faithful ancestors.
THEOREM HistoryStays == Spec => []HistoryKept
<1>1. Init => MigrateInv
  BY InitHolds
<1>2. MigrateInv /\ [Next]_vars => MigrateInv'
  BY StepKeeps
<1>3. MigrateInv => HistoryKept
  BY InvKept
<1> QED BY <1>1, <1>2, <1>3, PTL DEF Spec

-----------------------------------------------------------------------------
(* Objects *)

\* The pointers of commit c of cs and of its ancestors have their objects in S.
Held(cs, c, S) == \A d \in AncestorsIn(cs)[c] : PointersIn(cs[d].tree.files) \subseteq S

\* Objects that a merge of cs has and none of its parents, and those that are where they should be.
BroughtIn(cs, c) == PointersIn(cs[c].tree.files) \ UNION {PointersIn(cs[p].tree.files) : p \in Range(cs[c].parents)}
MergeIn(cs) == UNION {BroughtIn(cs, c) : c \in {d \in 1..Len(cs) : Len(cs[d].parents) > 1}}
There(cs, st, sv) == st \cup sv \cup MergeIn(cs)

\* The objects of what refs, the remote and a migration name.
ObjectsOK(cs, ts, rf, rm, q, st, sv) ==
  /\ \A r \in Local : rf[r] # NoRef => Held(cs, PeelOf(ts, rf[r]), There(cs, st, sv))
  /\ \A r \in Remotes : rf[r] # NoRef => Held(cs, PeelOf(ts, rf[r]), sv)
  /\ \A b \in DOMAIN rm : Held(cs, rm[b], sv)
  /\ q # NoRun => /\ \A c \in q.todo : Held(cs, c, There(cs, st, sv))
                  /\ \A c \in DOMAIN q.cache : Held(cs, q.cache[c], There(cs, st, sv))

\* Without the hook there are no pointers.
Bare(cs, hook) == hook \in {"none", "empty"} => \A c \in 1..Len(cs) : PointersIn(cs[c].tree.files) = {}

\* Only import makes pointers, and it has the hook.
ImportHas(q, hook) ==
  q # NoRun =>
    \/ q.opt.cmd = "import" /\ hook \notin {"none", "empty"}
    \/ q.opt.cmd # "import" /\ \A key \in DOMAIN q.entries : q.entries[key].ptr => key[2].ptr

ObjInv ==
  /\ hooks \in [Range(HookTypes) -> HookTexts]
  /\ hooks[PrePush] = "user" => ownHook
  /\ ImportHas(run, hooks[PrePush])
  /\ ~ownHook => Bare(commits, hooks[PrePush]) /\ ObjectsOK(commits, tags, refs, remote, run, store, server)

\* More commits and more objects take nothing away.
LEMMA HeldStays ==
  ASSUME NEW cs, NEW ds, IsHistory(cs), Extends(cs, ds), NEW c \in 1..Len(cs), NEW S, NEW T, S \subseteq T,
         Held(cs, c, S)
  PROVE  Held(ds, c, T)
<1>1. AncestorsIn(ds)[c] = AncestorsIn(cs)[c]
  BY AncestorsStay DEF Extends
<1>2. AncestorsIn(cs)[c] \in SUBSET (1..Len(cs))
  BY AncestorFacts
<1>3. \A d \in AncestorsIn(cs)[c] : ds[d] = cs[d]
  BY <1>2 DEF Extends
<1> QED BY <1>1, <1>3 DEF Held

\* The merges stay.
LEMMA MergesStay ==
  ASSUME NEW cs, NEW ds, IsHistory(cs), Extends(cs, ds), NEW st, NEW sv, NEW su, NEW sw,
         st \subseteq su, sv \subseteq sw
  PROVE  There(cs, st, sv) \subseteq There(ds, su, sw)
<1>1. ASSUME NEW c \in 1..Len(cs), Len(cs[c].parents) > 1
      PROVE  BroughtIn(cs, c) \subseteq MergeIn(ds)
  <2>1. Len(cs) \in Nat /\ Range(cs[c].parents) \subseteq 1..Len(cs)
    BY ParentsBefore
  <2>2. c \in 1..Len(ds) /\ ds[c] = cs[c]
    <3>1. Len(ds) \in Nat /\ Len(cs) <= Len(ds)
      BY ParentsBefore DEF Extends
    <3> QED BY <2>1, <3>1 DEF Extends
  <2>3. \A p \in Range(cs[c].parents) : ds[p] = cs[p]
    BY <2>1 DEF Extends
  <2>4. BroughtIn(ds, c) = BroughtIn(cs, c)
    BY <2>2, <2>3 DEF BroughtIn
  <2> QED BY <1>1, <2>2, <2>4 DEF MergeIn
<1>2. MergeIn(cs) \subseteq MergeIn(ds)
  BY <1>1 DEF MergeIn
<1> QED BY <1>2 DEF There

\* The same of all that is named.
LEMMA ObjectsStay ==
  ASSUME NEW cs, NEW ds, NEW ts, NEW rf, NEW rm, NEW q, NEW st, NEW sv, NEW su, NEW sw,
         GitOK(cs, ts, rf), RemoteOK(cs, rm), RunOK(q, cs, ts, rf), Extends(cs, ds), st \subseteq su, sv \subseteq sw,
         ObjectsOK(cs, ts, rf, rm, q, st, sv)
  PROVE  ObjectsOK(ds, ts, rf, rm, q, su, sw)
<1>0. IsHistory(cs)
  BY DEF GitOK
<1> DEFINE S == There(cs, st, sv)
           T == There(ds, su, sw)
<1>1. S \subseteq T
  BY <1>0, MergesStay
<1>2. \A c \in 1..Len(cs) : (Held(cs, c, S) => Held(ds, c, T)) /\ (Held(cs, c, sv) => Held(ds, c, sw))
  <2> HIDE DEF S, T
  <2> QED BY <1>0, <1>1, HeldStays
<1>3. \A r \in Local \cup Remotes : rf[r] # NoRef => PeelOf(ts, rf[r]) \in 1..Len(cs)
  BY PeelOfRef
<1>4. \A b \in DOMAIN rm : rm[b] \in 1..Len(cs)
  BY DEF RemoteOK
<1>5. q # NoRun => q.todo \subseteq 1..Len(cs) /\ \A c \in DOMAIN q.cache : q.cache[c] \in 1..Len(cs)
  BY DEF RunOK, CacheOK
<1> QED BY <1>2, <1>3, <1>4, <1>5 DEF ObjectsOK

\* A commit whose own objects are there, on top of others.
LEMMA HeldOnTop ==
  ASSUME NEW cs, IsHistory(cs), NEW c \in 1..Len(cs), NEW S, PointersIn(cs[c].tree.files) \subseteq S,
         \A p \in Range(cs[c].parents) : Held(cs, p, S)
  PROVE  Held(cs, c, S)
<1>1. AncestorsIn(cs)[c] = {c} \cup UNION {AncestorsIn(cs)[p] : p \in Range(cs[c].parents)}
  BY AncestorFacts
<1> QED BY <1>1 DEF Held

\* The parents of a commit.
LEMMA HeldParents ==
  ASSUME NEW cs, IsHistory(cs), NEW c \in 1..Len(cs), NEW S, Held(cs, c, S)
  PROVE  /\ PointersIn(cs[c].tree.files) \subseteq S
         /\ \A p \in Range(cs[c].parents) : p \in 1..Len(cs) /\ Held(cs, p, S)
<1>1. AncestorsIn(cs)[c] = {c} \cup UNION {AncestorsIn(cs)[p] : p \in Range(cs[c].parents)}
  BY AncestorFacts
<1> QED BY <1>1, ParentsBefore DEF Held

-----------------------------------------------------------------------------
(* The pre-push hook *)

\* The hook comes first, so that no other keeps it from being installed.
LEMMA PrePushFirst ==
  /\ PrePush \in Range(HookTypes)
  /\ \A erring : PrePush \in BeforeFirst(erring) <=> PrePush \notin erring
<1>1. Len(HookTypes) \in Nat /\ Len(HookTypes) > 0 /\ HookTypes[1] = PrePush /\ DOMAIN HookTypes = 1..Len(HookTypes)
  BY SetupAssumption
<1>2. PrePush \in Range(HookTypes)
  BY <1>1 DEF Range
<1>3. ASSUME NEW erring, PrePush \notin erring PROVE PrePush \in BeforeFirst(erring)
  BY <1>1, <1>3 DEF BeforeFirst
<1>4. ASSUME NEW erring, PrePush \in BeforeFirst(erring) PROVE PrePush \notin erring
  BY <1>1, <1>4 DEF BeforeFirst
<1> QED BY <1>2, <1>3, <1>4

\* installHooks(false).
LEMMA HooksInstalled ==
  ASSUME hooks \in [Range(HookTypes) -> HookTexts], InstallHooks(FALSE)
  PROVE  /\ hooks' \in [Range(HookTypes) -> HookTexts]
         /\ hooks'[PrePush] = IF hooks[PrePush] = "user" THEN "user" ELSE "ours"
<1>1. hooks' = [h \in Range(HookTypes) |-> IF h \in Installable(FALSE) THEN "ours" ELSE hooks[h]]
  BY DEF InstallHooks
<1>2. hooks' \in [Range(HookTypes) -> HookTexts]
  BY <1>1 DEF HookTexts
<1>3. PrePush \in Installable(FALSE) <=> ~InstallErrs(PrePush, FALSE)
  BY PrePushFirst DEF Installable
<1>4. InstallErrs(PrePush, FALSE) <=> hooks[PrePush] = "user"
  <2>1. hooks[PrePush] \in HookTexts
    BY PrePushFirst
  <2> QED BY <2>1 DEF InstallErrs, MatchesCurrent, Upgradeable, HookTexts
<1> QED BY <1>1, <1>2, <1>3, <1>4, PrePushFirst

\* The hook after any command of Setup: installed, removed, or as it was.
LEMMA HookAfterSetup ==
  ASSUME hooks \in [Range(HookTypes) -> HookTexts], SetupCommand
  PROVE  hooks' \in [Range(HookTypes) -> HookTexts] /\ hooks'[PrePush] \in {hooks[PrePush], "ours", "none"}
<1>1. \/ \E force \in conf.force : InstallHooks(force)
      \/ InstallHooks(FALSE) \/ UninstallHooks \/ UNCHANGED hooks
  BY DEF SetupCommand, Install, Update, Uninstall, Track, Untrack
<1>2. \A force : InstallHooks(force) => hooks' \in [Range(HookTypes) -> HookTexts]
                                       /\ hooks'[PrePush] \in {hooks[PrePush], "ours", "none"}
  BY PrePushFirst DEF InstallHooks, HookTexts
<1>3. UninstallHooks => hooks' \in [Range(HookTypes) -> HookTexts]
                       /\ hooks'[PrePush] \in {hooks[PrePush], "ours", "none"}
  BY PrePushFirst DEF UninstallHooks, HookTexts
<1> QED BY <1>1, <1>2, <1>3

-----------------------------------------------------------------------------
(* Objects and the user's commands *)

\* The tree at HEAD.
LEMMA HeadHeld ==
  ASSUME MigrateInv, NEW S, Held(commits, Peel(refs[head]), S)
  PROVE  PointersIn(HeadTree.files) \subseteq S
<1>1. Peel(refs[head]) \in 1..Len(commits) /\ IsHistory(commits)
  BY HeadFacts DEF MigrateInv, GitOK
<1> QED BY <1>1, HeldParents DEF HeadTree

LEMMA HeadThere ==
  ASSUME MigrateInv, ObjectsOK(commits, tags, refs, remote, run, store, server)
  PROVE  PointersIn(HeadTree.files) \subseteq There(commits, store, server)
<1>1. Held(commits, Peel(refs[head]), There(commits, store, server))
  BY HeadFacts, PeelIs DEF ObjectsOK
<1> QED BY <1>1, HeadHeld

\* A commit on top of HEAD whose objects are there.
LEMMA ObjectsOnTop ==
  ASSUME MigrateInv, MigrateInv', NEW files \in Files, NEW attrs, commits' = Append(commits, NewOnTop(files, attrs)),
         refs' = [refs EXCEPT ![head] = CommitRef(Len(commits) + 1)],
         UNCHANGED <<tags, remote, run, server>>, store \subseteq store',
         PointersIn(files) \subseteq There(commits, store', server),
         ObjectsOK(commits, tags, refs, remote, run, store, server)
  PROVE  ObjectsOK(commits', tags', refs', remote', run', store', server')
<1> DEFINE n == Len(commits) + 1
           S == There(commits', store', server)
<1>0. /\ GitOK(commits, tags, refs) /\ RemoteOK(commits, remote) /\ RunOK(run, commits, tags, refs)
      /\ IsHistory(commits) /\ IsHistory(commits')
  BY DEF MigrateInv, GitOK
<1>1. /\ Extends(commits, commits') /\ Len(commits) \in Nat /\ Len(commits') = n
      /\ commits'[n] = NewOnTop(files, attrs)
  BY OnTopExtends
<1>2. ObjectsOK(commits', tags, refs, remote, run, store', server)
  BY <1>0, <1>1, ObjectsStay
<1>3. PeelOf(tags, refs[head]) = Peel(refs[head]) /\ refs[head] # NoRef /\ head \in Local /\ head \notin Remotes
  BY HeadFacts, PeelIs, RefSets
<1>4. Held(commits', Peel(refs[head]), S)
  BY <1>2, <1>3 DEF ObjectsOK
<1>5. Held(commits', n, S)
  <2> HIDE DEF S
  <2>1. commits'[n].tree.files = files /\ commits'[n].parents = <<Peel(refs[head])>>
    BY <1>1 DEF NewOnTop
  <2>2. Range(commits'[n].parents) = {Peel(refs[head])}
    BY <2>1 DEF Range
  <2>3. There(commits, store', server) \subseteq S
    BY <1>0, <1>1, MergesStay DEF S
  <2>4. n \in 1..Len(commits') /\ PointersIn(commits'[n].tree.files) \subseteq S
    BY <1>1, <2>1, <2>3
  <2> QED BY <1>0, <1>4, <2>2, <2>4, HeldOnTop
<1>6. /\ refs'[head] = CommitRef(n) /\ \A r \in (Local \cup Remotes) \ {head} : refs'[r] = refs[r]
      /\ PeelOf(tags, CommitRef(n)) = n
  <2>1. refs \in [Local \cup Remotes -> Values \cup {NoRef}]
    BY <1>0 DEF GitOK, IsRefs
  <2>2. PeelOf(tags, CommitRef(n)) = n
    BY DEF PeelOf, IsCommit, CommitRef
  <2> QED BY <1>3, <2>1, <2>2
<1> QED BY <1>2, <1>3, <1>5, <1>6 DEF ObjectsOK

\* The commits are as bare as they were, when a new one has no pointers.
LEMMA BareStays ==
  ASSUME NEW cs, NEW ds, NEW x, IsHistory(cs), ds = Append(cs, x), NEW hook,
         hook \in {"none", "empty"} => Bare(cs, hook) /\ PointersIn(x.tree.files) = {}
  PROVE  Bare(ds, hook)
<1>1. /\ Len(cs) \in Nat /\ Len(ds) = Len(cs) + 1
      /\ ds[Len(cs) + 1] = x /\ \A c \in 1..Len(cs) : ds[c] = cs[c]
  BY Appended DEF IsHistory
<1>2. ASSUME hook \in {"none", "empty"}, NEW c \in 1..Len(ds) PROVE PointersIn(ds[c].tree.files) = {}
  <2>1. CASE c \in 1..Len(cs)
    BY <1>1, <1>2, <2>1 DEF Bare
  <2>2. CASE c = Len(cs) + 1
    BY <1>1, <1>2, <2>2
  <2>3. c \in 1..Len(cs) \/ c = Len(cs) + 1
    <3>1. c \in 1..(Len(cs) + 1)
      BY <1>1
    <3> QED BY <1>1, <3>1
  <2> QED BY <2>1, <2>2, <2>3
<1> QED BY <1>2 DEF Bare

\* ImportHas, when the hook is installed or stays.
LEMMA ImportStays ==
  ASSUME NEW q, NEW old, NEW new, ImportHas(q, old), new \in {old, "ours", "user"}
  PROVE  ImportHas(q, new)
BY DEF ImportHas

\* git commit: a file that becomes a pointer has gone through the filter, which stored its object and
\* installed the hook.
LEMMA CommitObjects ==
  ASSUME MigrateInv, MigrateInv', ObjInv, Commit
  PROVE  ObjInv'
<1>1. PICK oids \in conf.edits :
        LET n == Len(commits) + 1
            tree == [files |-> Staged(oids), attrs |-> wattrs]
        IN /\ RunFilter(Filtered(oids))
           /\ commits' = Append(commits, [made |-> n, parents |-> <<Peel(refs[head])>>, tree |-> tree])
           /\ refs' = [refs EXCEPT ![head] = CommitRef(n)]
           /\ store' = store \cup {oids[p] : p \in Filtered(oids)}
  BY DEF Commit
<1> DEFINE files == Staged(oids)
<1>2. files \in Files /\ UNCHANGED <<tags, remote, run, server, ownHook>>
  BY StagedFiles DEF Commit
<1>3. commits' = Append(commits, NewOnTop(files, wattrs)) /\ NewOnTop(files, wattrs).tree.files = files
  BY <1>1 DEF NewOnTop
<1>4. store' = store \cup {oids[p] : p \in Filtered(oids)}
  BY <1>1
<1>5. /\ hooks' \in [Range(HookTypes) -> HookTexts] /\ hooks'[PrePush] \in {hooks[PrePush], "ours"}
      /\ hooks'[PrePush] \in {"none", "empty"} => Filtered(oids) = {} /\ hooks'[PrePush] = hooks[PrePush]
  BY <1>1, HooksInstalled DEF ObjInv, RunFilter
<1>6. PointersIn(files) \subseteq {oids[p] : p \in Filtered(oids)} \cup PointersIn(HeadTree.files)
  <2> SUFFICES ASSUME NEW p \in Paths, files[p] # NoBlob, files[p].ptr
               PROVE  files[p].oid \in {oids[q] : q \in Filtered(oids)} \/ HeadTree.files[p] = files[p]
    BY DEF PointersIn
  <2>1. files[p] = IF p \in Changed(oids) THEN [oid |-> oids[p], ptr |-> p \in Filtered(oids)] ELSE HeadTree.files[p]
    BY DEF Staged
  <2> HIDE DEF files
  <2>2. ASSUME p \notin Filtered(oids), p \in Changed(oids) PROVE FALSE
    <3>1. (p \in Filtered(oids)) = FALSE
      BY <2>2
    <3>2. files[p] = [oid |-> oids[p], ptr |-> FALSE]
      BY <2>1, <2>2, <3>1
    <3> QED BY <3>2
  <2>3. ASSUME p \in Filtered(oids) PROVE files[p].oid = oids[p]
    <3>1. p \in Changed(oids)
      BY <2>3 DEF Filtered
    <3> QED BY <2>1, <3>1
  <2> QED BY <2>1, <2>2, <2>3
<1> HIDE DEF files
<1>7. ImportHas(run', hooks'[PrePush])
  BY <1>2, <1>5, ImportStays DEF ObjInv
<1>8. ASSUME ~ownHook'
      PROVE  Bare(commits', hooks'[PrePush]) /\ ObjectsOK(commits', tags', refs', remote', run', store', server')
  <2>1. Bare(commits, hooks[PrePush]) /\ ObjectsOK(commits, tags, refs, remote, run, store, server)
    BY <1>2, <1>8 DEF ObjInv
  <2>2. hooks'[PrePush] \in {"none", "empty"} => Bare(commits, hooks'[PrePush]) /\ PointersIn(files) = {}
    <3>1. Peel(refs[head]) \in 1..Len(commits)
      BY HeadFacts
    <3>2. Filtered(oids) = {} => PointersIn(files) \subseteq PointersIn(HeadTree.files)
      BY <1>6
    <3> QED BY <1>5, <2>1, <3>1, <3>2 DEF Bare, HeadTree
  <2>3. Bare(commits', hooks'[PrePush])
    BY <1>3, <2>2, BareStays DEF MigrateInv, GitOK
  <2>4. PointersIn(HeadTree.files) \subseteq There(commits, store, server)
    BY <2>1, HeadThere
  <2>5. PointersIn(files) \subseteq There(commits, store', server) /\ store \subseteq store'
    BY <1>4, <1>6, <2>4 DEF There
  <2> QED BY <1>1, <1>2, <1>3, <2>1, <2>3, <2>5, ObjectsOnTop
<1> QED BY <1>2, <1>5, <1>7, <1>8 DEF ObjInv

\* import --no-rewrite: what it converts is stored.
LEMMA ImportNoRewriteObjects ==
  ASSUME MigrateInv, MigrateInv', ObjInv, ImportNoRewrite
  PROVE  ObjInv'
<1>1. PICK F \in (SUBSET Paths) \ {{}} :
        LET old == HeadTree.files
            new == CleanEntries(old, F)
            n == Len(commits) + 1
        IN /\ \A p \in F : FiltersOf(wattrs, p) /\ old[p] # NoBlob
           /\ commits' = Append(commits, [made |-> n, parents |-> <<Peel(refs[head])>>,
                                          tree |-> [files |-> new, attrs |-> HeadTree.attrs]])
           /\ refs' = [refs EXCEPT ![head] = CommitRef(n)]
           /\ store' = store \cup (PointersIn(new) \ PointersIn(old))
  BY DEF ImportNoRewrite
<1> DEFINE files == CleanEntries(HeadTree.files, F)
<1>2. files \in Files /\ UNCHANGED <<tags, remote, run, server, ownHook>> /\ InstallHooks(FALSE)
  BY <1>1, CleanedFiles DEF ImportNoRewrite
<1>3. /\ commits' = Append(commits, NewOnTop(files, HeadTree.attrs))
      /\ NewOnTop(files, HeadTree.attrs).tree.files = files
  BY <1>1 DEF NewOnTop
<1>4. store' = store \cup (PointersIn(files) \ PointersIn(HeadTree.files))
  BY <1>1
<1>5. hooks' \in [Range(HookTypes) -> HookTexts] /\ hooks'[PrePush] = IF hooks[PrePush] = "user" THEN "user" ELSE "ours"
  BY <1>2, HooksInstalled DEF ObjInv
<1> HIDE DEF files
<1>6. ImportHas(run', hooks'[PrePush])
  BY <1>2, <1>5, ImportStays DEF ObjInv
<1>7. ASSUME ~ownHook'
      PROVE  Bare(commits', hooks'[PrePush]) /\ ObjectsOK(commits', tags', refs', remote', run', store', server')
  <2>1. ObjectsOK(commits, tags, refs, remote, run, store, server)
    BY <1>2, <1>7 DEF ObjInv
  <2>2. PointersIn(HeadTree.files) \subseteq There(commits, store, server)
    BY <2>1, HeadThere
  <2>3. PointersIn(files) \subseteq There(commits, store', server) /\ store \subseteq store'
    BY <1>4, <2>2 DEF There
  <2>4. Bare(commits', hooks'[PrePush])
    BY <1>5 DEF Bare
  <2> QED BY <1>1, <1>2, <1>3, <2>1, <2>3, <2>4, ObjectsOnTop
<1> QED BY <1>2, <1>5, <1>6, <1>7 DEF ObjInv

\* git push: the hook uploads what the remote lacks.
LEMMA GitPushObjects ==
  ASSUME MigrateInv, MigrateInv', ObjInv, GitPush
  PROVE  ObjInv'
<1>1. /\ server' = IF hooks[PrePush] \in {"ours", "old"} THEN server \cup PushedObjects ELSE server
      /\ remote' = [b \in (DOMAIN remote) \cup {head} |-> IF b = head THEN Peel(refs[head]) ELSE remote[b]]
      /\ refs' = [r \in DOMAIN refs |-> IF r \in Remotes /\ conf.follows[r] = head THEN refs[head] ELSE refs[r]]
      /\ UNCHANGED <<hooks, commits, tags, store, run, ownHook>>
  BY DEF GitPush, history, setupVars
<1>2. /\ GitOK(commits, tags, refs) /\ RemoteOK(commits, remote) /\ RunOK(run, commits, tags, refs)
      /\ IsHistory(commits) /\ Extends(commits, commits) /\ DOMAIN refs = Local \cup Remotes
  BY ParentsBefore DEF MigrateInv, GitOK, Extends, IsRefs
<1>3. /\ PeelOf(tags, refs[head]) = Peel(refs[head]) /\ refs[head] # NoRef /\ head \in Local
      /\ Peel(refs[head]) \in 1..Len(commits)
  BY HeadFacts, PeelIs
<1>4. ASSUME ~ownHook
      PROVE  ObjectsOK(commits, tags, refs', remote', run, store, server')
  <2>0. Bare(commits, hooks[PrePush]) /\ ObjectsOK(commits, tags, refs, remote, run, store, server)
    BY <1>4 DEF ObjInv
  <2>1. ObjectsOK(commits, tags, refs, remote, run, store, server')
    BY <1>1, <1>2, <2>0, ObjectsStay
  <2>2. Held(commits, Peel(refs[head]), server')
    <3> DEFINE A == AncestorsIn(commits)[Peel(refs[head])]
    <3>1. A \in SUBSET (1..Len(commits))
      BY <1>2, <1>3, AncestorFacts
    <3>2. CASE hooks[PrePush] \in {"ours", "old"}
      <4> DEFINE bases == {remote[b] : b \in (DOMAIN remote) \cap {head}}
                 E == Reach(SkippedRefs) \cup UNION {Ancestors[c] : c \in bases}
      <4>1. \A d \in UNION {Ancestors[c] : c \in bases} : PointersIn(commits[d].tree.files) \subseteq server
        BY <2>0, AncestorsAre DEF ObjectsOK, Held
      <4>2. \A d \in Reach(SkippedRefs) : PointersIn(commits[d].tree.files) \subseteq server
        <5>1. SkippedRefs \subseteq Remotes
          BY DEF SkippedRefs
        <5> SUFFICES ASSUME NEW r \in Remotes, refs[r] # NoRef, NEW d \in Ancestors[Peel(refs[r])]
                     PROVE  PointersIn(commits[d].tree.files) \subseteq server
          BY <5>1 DEF Reach, ReachIn
        <5> QED BY <2>0, PeelIs, AncestorsAre DEF ObjectsOK, Held
      <4>3. PushedObjects = UNION {PointersIn(commits[d].tree.files) : d \in A \ E}
        BY AncestorsAre DEF PushedObjects, Pointers
      <4> HIDE DEF A, E
      <4>4. \A d \in A \ E : PointersIn(commits[d].tree.files) \subseteq PushedObjects
        BY <4>3
      <4>5. \A d \in E : PointersIn(commits[d].tree.files) \subseteq server
        BY <4>1, <4>2 DEF E
      <4>6. \A d \in A : PointersIn(commits[d].tree.files) \subseteq server'
        BY <1>1, <3>2, <4>4, <4>5
      <4> QED BY <4>6 DEF Held, A
    <3>3. CASE hooks[PrePush] \notin {"ours", "old"}
      <4>1. hooks[PrePush] \in {"none", "empty"}
        BY <1>4, <3>3, PrePushFirst DEF ObjInv, HookTexts
      <4> QED BY <2>0, <3>1, <4>1 DEF Bare, Held
    <3> QED BY <3>2, <3>3
  <2>3. \A r \in Local : refs'[r] = refs[r]
    BY <1>1, <1>2, RefSets
  <2>4. \A r \in Remotes : refs'[r] = refs[r] \/ refs'[r] = refs[head]
    BY <1>1, <1>2
  <2> QED BY <1>1, <1>3, <2>1, <2>2, <2>3, <2>4 DEF ObjectsOK
<1> QED BY <1>1, <1>4 DEF ObjInv

\* A commit on the remote has the objects of the one below it.
LEMMA RemoteCommitObjects ==
  ASSUME MigrateInv, MigrateInv', ObjInv, RemoteCommit
  PROVE  ObjInv'
<1>1. PICK b \in DOMAIN remote :
       /\ commits' = Append(commits, [commits[remote[b]] EXCEPT !.made = Len(commits) + 1, !.parents = <<remote[b]>>])
       /\ remote' = [remote EXCEPT ![b] = Len(commits) + 1]
  BY DEF RemoteCommit
<1>2. UNCHANGED <<hooks, tags, refs, run, store, server, ownHook>>
  BY DEF RemoteCommit, history, setupVars, objVars
<1> DEFINE y == commits[remote[b]]
           x == [y EXCEPT !.made = Len(commits) + 1, !.parents = <<remote[b]>>]
           n == Len(commits) + 1
<1>3. /\ GitOK(commits, tags, refs) /\ RemoteOK(commits, remote) /\ RunOK(run, commits, tags, refs)
      /\ IsHistory(commits) /\ IsHistory(commits') /\ IsSeq(commits) /\ remote[b] \in 1..Len(commits)
  BY DEF MigrateInv, GitOK, IsHistory, RemoteOK
<1>4. y = [made |-> y.made, parents |-> y.parents, tree |-> [files |-> y.tree.files, attrs |-> y.tree.attrs]]
  BY <1>3 DEF IsHistory, Sound
<1>5. x.parents = <<remote[b]>> /\ x.tree = y.tree
  <2> HIDE DEF y
  <2>1. x = [f \in DOMAIN y |-> IF f = "parents" THEN <<remote[b]>> ELSE IF f = "made" THEN Len(commits) + 1 ELSE y[f]]
    OBVIOUS
  <2>2. DOMAIN y = {"made", "parents", "tree"}
    BY <1>4
  <2> HIDE DEF x
  <2> QED BY <2>1, <2>2
<1>6. commits' = Append(commits, x)
  BY <1>1
<1> HIDE DEF x
<1>7. /\ Len(commits) \in Nat /\ Len(commits') = n /\ commits'[n] = x
      /\ \A c \in 1..Len(commits) : commits'[c] = commits[c]
  BY <1>3, <1>6, Appended
<1>8. Extends(commits, commits')
  BY <1>3, <1>7 DEF Extends
<1>9. ASSUME ~ownHook
      PROVE  Bare(commits', hooks[PrePush]) /\ ObjectsOK(commits', tags, refs, remote', run, store, server)
  <2>0. Bare(commits, hooks[PrePush]) /\ ObjectsOK(commits, tags, refs, remote, run, store, server)
    BY <1>9 DEF ObjInv
  <2>1. ObjectsOK(commits', tags, refs, remote, run, store, server)
    BY <1>3, <1>8, <2>0, ObjectsStay
  <2>2. Held(commits', remote[b], server) /\ Held(commits, remote[b], server)
    BY <2>0, <2>1 DEF ObjectsOK
  <2>3. PointersIn(x.tree.files) \subseteq server
    BY <1>3, <1>5, <2>2, HeldParents
  <2>4. Range(x.parents) = {remote[b]}
    BY <1>5 DEF Range
  <2>5. Held(commits', n, server)
    BY <1>3, <1>7, <2>2, <2>3, <2>4, HeldOnTop
  <2>6. ObjectsOK(commits', tags, refs, remote', run, store, server)
    BY <1>1, <2>1, <2>5 DEF ObjectsOK
  <2>7. Bare(commits', hooks[PrePush])
    <3>1. hooks[PrePush] \in {"none", "empty"} => PointersIn(x.tree.files) = {}
      BY <1>3, <1>5, <2>0 DEF Bare
    <3> QED BY <1>3, <1>6, <2>0, <3>1, BareStays
  <2> QED BY <2>6, <2>7
<1> QED BY <1>2, <1>9 DEF ObjInv

\* install, update, uninstall, track and untrack.
LEMMA SetupObjects ==
  ASSUME MigrateInv, MigrateInv', ObjInv, SetupCommand
  PROVE  ObjInv'
<1>1. /\ UNCHANGED <<commits, tags, refs, remote, run, store, server>> /\ run.pc = "idle"
      /\ ownHook' = (ownHook \/ hooks'[PrePush] \in {"none", "user"})
  BY DEF SetupCommand, gitVars, objVars, Running
<1>2. hooks' \in [Range(HookTypes) -> HookTexts] /\ hooks'[PrePush] \in {hooks[PrePush], "ours", "none"}
  BY HookAfterSetup DEF ObjInv
<1>3. run = NoRun
  BY <1>1 DEF MigrateInv, RunOK
<1>4. ImportHas(run', hooks'[PrePush])
  BY <1>1, <1>3 DEF ImportHas
<1>5. ~ownHook' => ~ownHook /\ hooks'[PrePush] \in {hooks[PrePush], "ours"}
  BY <1>1, <1>2
<1>6. ~ownHook' => Bare(commits', hooks'[PrePush])
  BY <1>1, <1>5 DEF ObjInv, Bare
<1> QED BY <1>1, <1>2, <1>4, <1>5, <1>6 DEF ObjInv

-----------------------------------------------------------------------------
(* Objects and a migration *)

\* A step that changes only where the migration is, or ends it, and may add to the store.
LEMMA RunObjects ==
  ASSUME MigrateInv, MigrateInv', ObjInv,
         UNCHANGED <<hooks, commits, tags, refs, remote, server, ownHook>>, store \subseteq store',
         run' # NoRun => /\ run # NoRun
                         /\ run'.opt = run.opt /\ run'.todo = run.todo
                         /\ run'.cache = run.cache /\ run'.entries = run.entries
  PROVE  ObjInv'
<1>1. /\ GitOK(commits, tags, refs) /\ RemoteOK(commits, remote) /\ RunOK(run, commits, tags, refs)
      /\ Extends(commits, commits)
  BY ParentsBefore DEF MigrateInv, GitOK, Extends
<1>2. ImportHas(run', hooks[PrePush])
  BY DEF ObjInv, ImportHas
<1>3. ASSUME ~ownHook
      PROVE  ObjectsOK(commits, tags, refs, remote, run', store', server)
  <2>1. ObjectsOK(commits, tags, refs, remote, run, store', server)
    BY <1>1, <1>3, ObjectsStay DEF ObjInv
  <2> QED BY <2>1 DEF ObjectsOK
<1> QED BY <1>2, <1>3 DEF ObjInv

\* What the invariant says of steps of a migration that runs.
LEMMA RunIs ==
  ASSUME MigrateInv, run.pc # "idle"
  PROVE  run # NoRun
BY DEF NoRun

\* The migration is killed.
LEMMA KillObjects ==
  ASSUME MigrateInv, MigrateInv', ObjInv, Kill
  PROVE  ObjInv'
BY RunObjects DEF Kill, setupVars, gitVars, objVars, history

\* export gets the objects it reads.
LEMMA DownloadObjects ==
  ASSUME MigrateInv, MigrateInv', ObjInv, Download
  PROVE  ObjInv'
<1>1. /\ UNCHANGED <<hooks, commits, tags, refs, remote, server, ownHook>> /\ run.pc # "idle"
      /\ (run' = NoRun \/ run' = [run EXCEPT !.pc = "rewrite"]) /\ store \subseteq store'
  BY DEF Download, setupVars, gitVars, history
<1>2. CASE run' = [run EXCEPT !.pc = "rewrite"]
  <2>1. run = [f \in RunFields |-> run[f]] /\ run # NoRun
    BY <1>1, RunFacts, RunIs
  <2>2. run'.opt = run.opt /\ run'.todo = run.todo /\ run'.cache = run.cache /\ run'.entries = run.entries
    BY <1>2, <2>1 DEF RunFields
  <2> QED BY <1>1, <2>1, <2>2, RunObjects
<1> QED BY <1>1, <1>2, RunObjects

\* All commits are rewritten.
LEMMA EndRewriteObjects ==
  ASSUME MigrateInv, MigrateInv', ObjInv, EndRewrite
  PROVE  ObjInv'
<1>1. /\ UNCHANGED <<hooks, commits, tags, refs, remote, server, ownHook, store>> /\ run.pc # "idle"
      /\ run' = NoRun \/ run' = [run EXCEPT !.pc = "refs", !.list = LocalRefs, !.listed = refs]
  BY DEF EndRewrite, setupVars, gitVars, objVars, history
<1>2. CASE run' = [run EXCEPT !.pc = "refs", !.list = LocalRefs, !.listed = refs]
  <2>1. run = [f \in RunFields |-> run[f]] /\ run # NoRun
    BY <1>1, RunFacts, RunIs
  <2>2. run'.opt = run.opt /\ run'.todo = run.todo /\ run'.cache = run.cache /\ run'.entries = run.entries
    BY <1>2, <2>1 DEF RunFields
  <2> QED BY <1>1, <2>1, <2>2, RunObjects
<1> QED BY <1>1, <1>2, RunObjects

\* The next ref.
LEMMA NextRefObjects ==
  ASSUME MigrateInv, MigrateInv', ObjInv, NextRef
  PROVE  ObjInv'
<1> DEFINE r == Head(run.list)
<1>1. /\ UNCHANGED <<hooks, commits, tags, refs, remote, server, ownHook, store>> /\ run.pc # "idle"
      /\ \/ run' = [run EXCEPT !.list = Tail(@)]
         \/ run' = [run EXCEPT !.list = Tail(@), !.seen = @ \cup {r}, !.stack = <<r>>]
  BY DEF NextRef, setupVars, gitVars, objVars, history
<1>2. run = [f \in RunFields |-> run[f]] /\ run # NoRun
  BY <1>1, RunFacts, RunIs
<1>3. run'.opt = run.opt /\ run'.todo = run.todo /\ run'.cache = run.cache /\ run'.entries = run.entries
  BY <1>1, <1>2 DEF RunFields
<1> QED BY <1>1, <1>2, <1>3, RunObjects

\* The inner tag comes first.
LEMMA UpdateInnerTagObjects ==
  ASSUME MigrateInv, MigrateInv', ObjInv, UpdateInnerTag
  PROVE  ObjInv'
<1> DEFINE r == InnerRef(Top)
<1>1. /\ UNCHANGED <<hooks, commits, tags, refs, remote, server, ownHook, store>> /\ run.pc # "idle"
      /\ \/ run' = NoRun
         \/ run' = [run EXCEPT !.stack = Append(@, r), !.seen = @ \cup {r}, !.listed[r] = refs[r]]
  BY DEF UpdateInnerTag, setupVars, gitVars, objVars, history
<1>2. run = [f \in RunFields |-> run[f]] /\ run # NoRun
  BY <1>1, RunFacts, RunIs
<1> HIDE DEF r
<1>3. run' # NoRun =>
        run'.opt = run.opt /\ run'.todo = run.todo /\ run'.cache = run.cache /\ run'.entries = run.entries
  BY <1>1, <1>2 DEF RunFields
<1> QED BY <1>1, <1>2, <1>3, RunObjects

\* Ancestors of ancestors.
LEMMA AncestorsNest ==
  ASSUME NEW cs, IsHistory(cs), NEW c \in 1..Len(cs), NEW d \in AncestorsIn(cs)[c]
  PROVE  d \in 1..Len(cs) /\ AncestorsIn(cs)[d] \subseteq AncestorsIn(cs)[c]
<1> DEFINE A == AncestorsIn(cs)[c]
<1>1. A \in SUBSET (1..Len(cs)) /\ d \in A /\ Closed(cs, A)
  BY AncestorFacts DEF Closed
<1>2. AncestorsIn(cs)[d] = Above(cs, d)
  BY <1>1, AncestorsAbove
<1> HIDE DEF A
<1>3. Above(cs, d) \subseteq A
  BY <1>1 DEF Above
<1> QED BY <1>1, <1>2, <1>3 DEF A

\* The prune that ends an export keeps what is only in the store.  Where an object first comes up in
\* what local refs reach, either refs/remotes reach it, and it is on the server, or an unpushed commit
\* adds it to its parents, which git log shows of all but merges.
LEMMA PruneKeeps ==
  ASSUME MigrateInv, ObjectsOK(commits, tags, refs, remote, run, store, server),
         NEW c \in Reach(Local), NEW o \in PointersIn(commits[c].tree.files), o \notin server
  PROVE  o \in Retained \cup MergeIn(commits)
<1> DEFINE L == Reach(Local)
           R == Reach(Remotes)
           B == {e \in L : o \in PointersIn(commits[e].tree.files)}
<1>0. GitOK(commits, tags, refs) /\ IsHistory(commits) /\ Len(commits) \in Nat
  BY ParentsBefore DEF MigrateInv, GitOK
<1>1. L \subseteq 1..Len(commits)
  BY <1>0, ReachCommits DEF Reach
<1>2. \A e \in L : Range(commits[e].parents) \subseteq L
  <2> SUFFICES ASSUME NEW r \in Local, refs[r] # NoRef, NEW e \in Ancestors[Peel(refs[r])]
               PROVE  Range(commits[e].parents) \subseteq Ancestors[Peel(refs[r])]
    BY DEF Reach, ReachIn
  <2>1. r \in Local \cup Remotes
    OBVIOUS
  <2>2. Peel(refs[r]) \in 1..Len(commits)
    BY <1>0, <2>1, PeelOfRef, PeelIs
  <2> QED BY <1>0, <2>2, AncestorFacts, AncestorsAre
<1>3. \A e \in R : PointersIn(commits[e].tree.files) \subseteq server
  <2> SUFFICES ASSUME NEW r \in Remotes, refs[r] # NoRef, NEW e \in Ancestors[Peel(refs[r])]
               PROVE  PointersIn(commits[e].tree.files) \subseteq server
    BY DEF Reach, ReachIn
  <2> QED BY PeelIs, AncestorsAre DEF ObjectsOK, Held
<1>4. PICK e \in B : \A d \in B : ~(d < e)
  <2>1. B \in SUBSET Nat /\ c \in B
    BY <1>0, <1>1
  <2> HIDE DEF B
  <2> QED BY <2>1, LeastExists
<1>5. e \in L \ R
  BY <1>3, <1>4
<1>6. o \in BroughtIn(commits, e)
  <2>1. e \in 1..Len(commits) /\ commits[e].parents \in Seq(1..(e - 1)) /\ e \in Nat
    <3>1. e \in 1..Len(commits) /\ e \in Nat
      BY <1>0, <1>1, <1>5
    <3> QED BY <1>0, <3>1 DEF IsHistory, Sound
  <2>2. \A p \in Range(commits[e].parents) : p \in L /\ p < e
    <3>1. \A p \in Range(commits[e].parents) : p \in 1..(e - 1)
      BY <2>1 DEF Range
    <3> QED BY <1>2, <1>5, <2>1, <3>1
  <2>3. \A p \in Range(commits[e].parents) : o \notin PointersIn(commits[p].tree.files)
    BY <1>4, <2>2
  <2> QED BY <1>4, <2>3 DEF BroughtIn
<1>7. e \in 1..Len(commits)
  BY <1>1, <1>5
<1> HIDE DEF L, R
<1>8. CASE Len(commits[e].parents) > 1
  BY <1>6, <1>7, <1>8 DEF MergeIn
<1>9. CASE ~(Len(commits[e].parents) > 1)
  <2>1. Added(e) = BroughtIn(commits, e)
    BY <1>9 DEF Added, IsMerge, Brought, BroughtIn, Pointers
  <2> QED BY <1>5, <1>6, <2>1 DEF Retained, L, R, Local
<1> QED BY <1>8, <1>9

\* The end of a migration.
LEMMA EndMigrateObjects ==
  ASSUME MigrateInv, MigrateInv', ObjInv, EndMigrate
  PROVE  ObjInv'
<1>1. /\ UNCHANGED <<hooks, commits, tags, refs, remote, server, ownHook>> /\ run' = NoRun
      /\ store' = store \/ store' = store \cap Retained
  BY DEF EndMigrate, gitVars, history
<1>2. ASSUME ~ownHook, store' = store \cap Retained
      PROVE  ObjectsOK(commits, tags, refs, remote, NoRun, store', server)
  <2>0. ObjectsOK(commits, tags, refs, remote, run, store, server)
    BY <1>2 DEF ObjInv
  <2>1. ASSUME NEW r \in Local, refs[r] # NoRef
        PROVE  Held(commits, PeelOf(tags, refs[r]), There(commits, store', server))
    <3> SUFFICES ASSUME NEW d \in AncestorsIn(commits)[PeelOf(tags, refs[r])],
                        NEW o \in PointersIn(commits[d].tree.files), o \notin server
                 PROVE  o \in store' \cup MergeIn(commits)
      BY DEF Held, There
    <3>1. o \in store \cup MergeIn(commits)
      BY <2>0, <2>1 DEF ObjectsOK, Held, There
    <3>2. d \in Reach(Local)
      BY <2>1, PeelIs, AncestorsAre DEF Reach, ReachIn
    <3> QED BY <1>2, <2>0, <3>1, <3>2, PruneKeeps
  <2> QED BY <2>0, <2>1 DEF ObjectsOK
<1>3. ASSUME store' = store PROVE ObjInv'
  BY <1>1, <1>3, RunObjects
<1>4. ASSUME store' = store \cap Retained PROVE ObjInv'
  BY <1>1, <1>2, <1>4 DEF ObjInv, ImportHas
<1> QED BY <1>1, <1>3, <1>4

\* An ancestor has its objects where the commit has them.
LEMMA HeldAncestor ==
  ASSUME NEW cs, IsHistory(cs), NEW c \in 1..Len(cs), NEW S, Held(cs, c, S), NEW d \in AncestorsIn(cs)[c]
  PROVE  Held(cs, d, S)
<1>1. AncestorsIn(cs)[d] \subseteq AncestorsIn(cs)[c]
  BY AncestorsNest
<1> QED BY <1>1 DEF Held

\* The start of a migration: the hook is installed before a commit is rewritten, and what a fetch brings
\* is on the server.
LEMMA StartMigrateObjects ==
  ASSUME MigrateInv, MigrateInv', ObjInv, StartMigrate
  PROVE  ObjInv'
<1>1. PICK opt \in conf.options :
        /\ CASE opt.cmd = "import" -> InstallHooks(FALSE)
             [] opt.cmd = "export" -> RunFilter(Filtered(Contents(HeadTree.files)))
             [] opt.cmd = "info"   -> UNCHANGED hooks
        /\ refs' = refs \/ refs' = Fetch(opt)
        /\ run' = run \/ (refs' = Fetch(opt) /\ run' = NewRun(opt, Fetch(opt)))
  BY DEF StartMigrate
<1>2. UNCHANGED <<commits, tags, remote, store, server, ownHook>> /\ run = NoRun
  BY DEF StartMigrate, objVars, history, Running, MigrateInv, RunOK
<1>3. /\ GitOK(commits, tags, refs) /\ GitOK(commits, tags, Fetch(opt)) /\ IsHistory(commits)
      /\ \A r \in Local : Fetch(opt)[r] = refs[r]
  BY FetchMoves DEF MigrateInv, GitOK
<1>4. /\ hooks' \in [Range(HookTypes) -> HookTexts] /\ hooks'[PrePush] \in {hooks[PrePush], "ours"}
      /\ opt.cmd = "import" => hooks'[PrePush] \notin {"none", "empty"}
  <2>1. opt.cmd \in {"import", "export", "info"}
    BY MigrateAssumption DEF MigrateInv
  <2>2. CASE opt.cmd = "import"
    BY <1>1, <2>2, HooksInstalled DEF ObjInv
  <2>3. CASE opt.cmd = "export"
    BY <1>1, <2>3, HooksInstalled DEF ObjInv, RunFilter
  <2>4. CASE opt.cmd = "info"
    BY <1>1, <2>4 DEF ObjInv
  <2> QED BY <2>1, <2>2, <2>3, <2>4
<1> DEFINE q == NewRun(opt, Fetch(opt))
<1>5. q.opt = opt /\ q.todo = CommitsToMigrate(opt, Fetch(opt)) /\ q.cache = <<>> /\ q.entries = <<>>
  BY DEF NewRun
<1>6. ImportHas(run', hooks'[PrePush])
  <2>1. ImportHas(q, hooks'[PrePush])
    <3> HIDE DEF q
    <3>1. DOMAIN q.entries = {}
      BY <1>5
    <3> QED BY <1>4, <1>5, <3>1 DEF ImportHas
  <2>2. ImportHas(NoRun, hooks'[PrePush])
    BY DEF ImportHas
  <2> QED BY <1>1, <1>2, <2>1, <2>2
<1> HIDE DEF q
<1>7. ASSUME ~ownHook
      PROVE  Bare(commits, hooks'[PrePush]) /\ ObjectsOK(commits, tags, refs', remote, run', store, server)
  <2> DEFINE S == There(commits, store, server)
  <2>0. Bare(commits, hooks[PrePush]) /\ ObjectsOK(commits, tags, refs, remote, run, store, server)
    BY <1>7 DEF ObjInv
  <2>1. Bare(commits, hooks'[PrePush])
    BY <1>4, <2>0 DEF Bare
  <2>2. \A r \in Remotes : refs'[r] # NoRef => Held(commits, PeelOf(tags, refs'[r]), server)
    <3>1. \A r \in Remotes : refs'[r] = refs[r] \/ \E b \in DOMAIN remote : refs'[r] = CommitRef(remote[b])
      <4>1. \A r \in Remotes : Fetch(opt)[r] = refs[r] \/ \E b \in DOMAIN remote : Fetch(opt)[r] = CommitRef(remote[b])
        BY <1>3 DEF GitOK, IsRefs, Fetch
      <4> QED BY <1>1, <4>1
    <3>2. \A b \in DOMAIN remote : PeelOf(tags, CommitRef(remote[b])) = remote[b]
      BY DEF PeelOf, CommitRef, IsCommit
    <3> QED BY <2>0, <3>1, <3>2 DEF ObjectsOK
  <2>3. \A r \in Local : refs'[r] # NoRef => Held(commits, PeelOf(tags, refs'[r]), S)
    BY <1>1, <1>3, <2>0 DEF ObjectsOK
  <2>4. ASSUME refs' = Fetch(opt), NEW c \in q.todo PROVE Held(commits, c, S)
    <3>1. IncludeRefs(opt) \subseteq Local \cup Remotes
      BY IncludedRefs
    <3>2. PICK r \in Local \cup Remotes : refs'[r] # NoRef /\ c \in Ancestors[Peel(refs'[r])]
      BY <1>5, <2>4, <3>1 DEF CommitsToMigrate, ReachIn
    <3>3. c \in AncestorsIn(commits)[PeelOf(tags, refs'[r])]
      BY <3>2, PeelIs, AncestorsAre
    <3>4. PeelOf(tags, refs'[r]) \in 1..Len(commits)
      BY <1>3, <2>4, <3>2, PeelOfRef
    <3>5. Held(commits, PeelOf(tags, refs'[r]), S)
      <4>1. \A d : Held(commits, d, server) => Held(commits, d, S)
        BY DEF Held, There
      <4> QED BY <2>2, <2>3, <3>2, <4>1
    <3> HIDE DEF S
    <3> QED BY <1>3, <3>3, <3>4, <3>5, HeldAncestor
  <2>5. run' # NoRun => /\ \A c \in run'.todo : Held(commits, c, S)
                        /\ \A c \in DOMAIN run'.cache : Held(commits, run'.cache[c], S)
    <3>1. run' # NoRun => run' = q /\ refs' = Fetch(opt)
      BY <1>1, <1>2 DEF q
    <3>2. DOMAIN q.cache = {}
      BY <1>5
    <3> QED BY <2>4, <3>1, <3>2
  <2> QED BY <2>0, <2>1, <2>2, <2>3, <2>5 DEF ObjectsOK
<1> QED BY <1>2, <1>4, <1>6, <1>7 DEF ObjInv

\* updateOneRef: the ref moves to what is cached, or to what another ref names.
LEMMA UpdateOneRefObjects ==
  ASSUME MigrateInv, MigrateInv', ObjInv, UpdateOneRef
  PROVE  ObjInv'
<1>1. /\ UNCHANGED <<hooks, commits, remote, store, server, ownHook>> /\ run.pc # "idle"
      /\ run' = [run EXCEPT !.stack = Front(@)]
  BY DEF UpdateOneRef, setupVars, objVars, history
<1>2. run = [f \in RunFields |-> run[f]] /\ run # NoRun
  BY <1>1, RunFacts, RunIs
<1>3. run'.opt = run.opt /\ run'.todo = run.todo /\ run'.cache = run.cache /\ run'.entries = run.entries
  BY <1>1, <1>2 DEF RunFields
<1>4. ImportHas(run', hooks[PrePush])
  BY <1>2, <1>3 DEF ObjInv, ImportHas
<1>5. ASSUME ~ownHook
      PROVE  ObjectsOK(commits, tags', refs', remote, run', store, server)
  <2> DEFINE S == There(commits, store, server)
             r == Top
             D(s) == PeelOf(tags', refs'[s])
             C(s) == PeelOf(tags, refs[s])
  <2>0. ObjectsOK(commits, tags, refs, remote, run, store, server)
    BY <1>5 DEF ObjInv
  <2>1. /\ r \in Local /\ refs[r] # NoRef
        /\ \A s \in (Local \cup Remotes) \ {r} : refs'[s] = refs[s] /\ (refs[s] # NoRef => D(s) = C(s))
        /\ \/ D(r) = C(r)
           \/ \E c \in DOMAIN run.cache : D(r) = run.cache[c]
           \/ InnerRef(r) \in Local /\ refs[InnerRef(r)] # NoRef /\ D(r) = C(InnerRef(r))
    <3>1. CASE NewObject(Top) = NoRef
      BY <3>1, RefMoved
    <3>2. CASE NewObject(Top) # NoRef
      BY <3>2, RefMoved, NewObjectIs
    <3> QED BY <3>1, <3>2
  <2>2. /\ \A s \in Local : refs[s] # NoRef => Held(commits, C(s), S)
        /\ \A s \in Remotes : refs[s] # NoRef => Held(commits, C(s), server)
        /\ \A c \in DOMAIN run.cache : Held(commits, run.cache[c], S)
    BY <1>2, <2>0 DEF ObjectsOK
  <2>3. \A s \in Remotes : s \in (Local \cup Remotes) \ {r}
    BY <2>1, RefSets
  <2> HIDE DEF r, C, D, S
  <2>4. Held(commits, D(r), S)
    BY <2>1, <2>2
  <2>5. \A s \in Local : refs'[s] # NoRef => Held(commits, D(s), S)
    BY <2>1, <2>2, <2>4
  <2>6. \A s \in Remotes : refs'[s] # NoRef => Held(commits, D(s), server)
    BY <2>1, <2>2, <2>3
  <2> QED BY <1>2, <1>3, <2>0, <2>5, <2>6 DEF ObjectsOK, S, D
<1> QED BY <1>1, <1>4, <1>5 DEF ObjInv

\* A rewritten commit: its number, its pointers and its parents, and the migration after it.
LEMMA RewriteFacts ==
  ASSUME MigrateInv, MigrateInv', RewriteCommit, run' # NoRun \/ commits' # commits
  PROVE  \E c \in run.todo : \E n \in 1..Len(commits') : \E files :
           /\ c \in 1..Len(commits) /\ files = [p \in Paths |-> RewriteEntry(c, p)]
           /\ Extends(commits, commits') /\ commits'[n].tree.files = files
           /\ commits'[n].parents = MapParents(commits[c].parents)
           /\ Range(commits[c].parents) \cap run.todo = {}
           /\ commits' = commits \/ (n = Len(commits) + 1 /\ commits' = Append(commits, commits'[n]))
           /\ store' = store \cup (PointersIn(files) \ PointersIn(commits[c].tree.files))
           /\ run # NoRun /\ run'.opt = run.opt /\ run'.todo = run.todo \ {c}
           /\ run'.cache = CacheCommit(c, n) /\ run'.entries = CachedEntries(c)
           /\ run'.pc = run.pc /\ run'.listed = run.listed /\ run'.seen = run.seen /\ run'.stack = run.stack
<1>0. run.pc # "idle" /\ IsHistory(commits) /\ IsSeq(commits) /\ IsHistory(commits')
  BY DEF RewriteCommit, MigrateInv, GitOK, IsHistory
<1>1. PICK c \in run.todo :
        LET acc == RewriteTree(c)
            new == [commits[c] EXCEPT !.parents = MapParents(@),
                      !.tree = [files |-> acc.files, attrs |-> TreeCallback(run.opt, acc.exts, @.attrs)]]
            n == NumberOf(commits, new)
        IN /\ Range(commits[c].parents) \cap run.todo = {}
           /\ commits' = Written(commits, new)
           /\ store' = store \cup (PointersIn(acc.files) \ PointersIn(commits[c].tree.files))
           /\ run' = [run EXCEPT !.todo = @ \ {c}, !.cache = CacheCommit(c, n), !.entries = acc.entries,
                                 !.exts = acc.exts, !.counted = acc.counted]
  BY DEF RewriteCommit
<1> DEFINE acc == RewriteTree(c)
           attrs == TreeCallback(run.opt, acc.exts, commits[c].tree.attrs)
           files == [p \in Paths |-> RewriteEntry(c, p)]
           tree == [files |-> files, attrs |-> attrs]
           y == commits[c]
           ps == MapParents(y.parents)
           x == [commits[c] EXCEPT !.parents = MapParents(@), !.tree = [files |-> files, attrs |-> attrs]]
           n == NumberOf(commits, x)
<1>2. /\ commits' = Written(commits, x) /\ acc.entries = CachedEntries(c)
      /\ Range(commits[c].parents) \cap run.todo = {}
      /\ store' = store \cup (PointersIn(files) \ PointersIn(commits[c].tree.files))
      /\ run' = [run EXCEPT !.todo = @ \ {c}, !.cache = CacheCommit(c, n), !.entries = acc.entries,
                            !.exts = acc.exts, !.counted = acc.counted]
  <2>1. acc.files = files /\ acc.entries = CachedEntries(c)
    BY DEF RewriteTree
  <2> HIDE DEF files, acc
  <2> QED BY <1>1, <2>1 DEF acc
<1>3. c \in 1..Len(commits)
  BY <1>0, RunFacts
<1>4. x.parents = ps /\ x.tree.files = files
  <2>0. Sound(commits, c)
    BY <1>0, <1>3 DEF IsHistory
  <2>1. x = [y EXCEPT !.parents = ps, !.tree = tree]
    OBVIOUS
  <2>2. tree.files = files
    OBVIOUS
  <2>3. DOMAIN y = {"made", "parents", "tree"}
    <3>1. y = [made |-> y.made, parents |-> y.parents, tree |-> [files |-> y.tree.files, attrs |-> y.tree.attrs]]
      BY <2>0 DEF Sound
    <3> HIDE DEF y
    <3> QED BY <3>1
  <2> HIDE DEF x, y, ps, tree, files
  <2>4. x = [f \in DOMAIN y |-> IF f = "tree" THEN tree ELSE IF f = "parents" THEN ps ELSE y[f]]
    BY <2>1
  <2> QED BY <2>2, <2>3, <2>4
<1> HIDE DEF attrs
<1>5. Addable(commits, x)
  BY <1>0, <1>3, RewrittenIsVersion
<1> HIDE DEF x, acc
<1>6. /\ n \in 1..Len(commits') /\ commits'[n] = x
      /\ commits' = commits \/ (commits' = Append(commits, x) /\ n = Len(commits) + 1)
  BY <1>0, <1>2, WrittenFacts
<1> HIDE DEF n
<1>7. Extends(commits, commits')
  <2>1. CASE commits' = commits
    BY <1>0, <2>1, ParentsBefore DEF Extends
  <2>2. CASE commits' = Append(commits, x)
    BY <1>0, <1>5, <2>2, HistoryGrows
  <2> QED BY <1>6, <2>1, <2>2
<1>8. /\ run # NoRun /\ run'.opt = run.opt /\ run'.todo = run.todo \ {c}
      /\ run'.cache = CacheCommit(c, n) /\ run'.entries = CachedEntries(c)
      /\ run'.pc = run.pc /\ run'.listed = run.listed /\ run'.seen = run.seen /\ run'.stack = run.stack
  <2>1. run # NoRun /\ run = [f \in RunFields |-> run[f]]
    BY <1>0, RunFacts, RunIs
  <2> QED BY <1>2, <2>1 DEF RunFields
<1> HIDE DEF files, ps, y
<1> QED BY <1>2, <1>3, <1>4, <1>6, <1>7, <1>8 DEF files, ps, y

\* Without import no entry becomes a pointer.
LEMMA NoNewPointers ==
  ASSUME MigrateInv, run.pc # "idle", NEW c \in 1..Len(commits), run.opt.cmd # "import",
         \A key \in DOMAIN run.entries : run.entries[key].ptr => key[2].ptr
  PROVE  /\ \A p \in Paths : RewriteEntry(c, p) # NoBlob /\ RewriteEntry(c, p).ptr =>
                               Blob(c, p) # NoBlob /\ Blob(c, p).ptr
         /\ \A key \in DOMAIN CachedEntries(c) : CachedEntries(c)[key].ptr => key[2].ptr
<1>0. commits[c].tree.files \in Files
  BY DEF MigrateInv, GitOK, IsHistory, Sound
<1>1. \A p \in Rewritten(c) : p \in Paths /\ Blob(c, p) \in Blobs /\ Blob(c, p) # NoBlob
  BY <1>0 DEF Rewritten, Blob, Files
<1>2. \A b \in Blobs : \A p, attrs : RewriteBlob(run.opt, attrs, p, b) \in {b, [b EXCEPT !.ptr = FALSE]}
  BY DEF RewriteBlob
<1>3. \A b \in Blobs : ~ [b EXCEPT !.ptr = FALSE].ptr
  BY DEF Blobs
<1>4. \A p \in Rewritten(c) : NewBlob(c, p).ptr => Blob(c, p).ptr
  <2> SUFFICES ASSUME NEW p \in Rewritten(c), NewBlob(c, p).ptr PROVE Blob(c, p).ptr
    OBVIOUS
  <2>1. NewBlob(c, p) \in {Blob(c, p), [Blob(c, p) EXCEPT !.ptr = FALSE]}
    BY <1>1, <1>2 DEF NewBlob
  <2> QED BY <1>1, <1>3, <2>1
<1>5. ASSUME NEW p \in Paths, RewriteEntry(c, p) # NoBlob, RewriteEntry(c, p).ptr
      PROVE  Blob(c, p) # NoBlob /\ Blob(c, p).ptr
  <2>1. CASE p \notin Rewritten(c)
    BY <1>5, <2>1 DEF RewriteEntry, Uncached
  <2>2. CASE p \in Uncached(c)
    <3>1. p \in Rewritten(c) /\ RewriteEntry(c, p) = NewBlob(c, p)
      BY <2>2 DEF RewriteEntry, Uncached
    <3> QED BY <1>1, <1>4, <1>5, <3>1
  <2>3. CASE p \in Rewritten(c) /\ p \notin Uncached(c)
    <3> DEFINE key == EntryKey(p, Blob(c, p))
    <3>1. key \in DOMAIN run.entries /\ RewriteEntry(c, p) = run.entries[key] /\ key[2] = Blob(c, p)
      BY <2>3 DEF RewriteEntry, Uncached, EntryKey
    <3> QED BY <1>1, <1>5, <2>3, <3>1
  <2> QED BY <2>1, <2>2, <2>3
<1>6. ASSUME NEW key \in DOMAIN CachedEntries(c), CachedEntries(c)[key].ptr
      PROVE  key[2].ptr
  <2>1. CASE key \in DOMAIN run.entries
    BY <1>6, <2>1 DEF CachedEntries
  <2>2. CASE key \notin DOMAIN run.entries
    <3>1. PICK p \in Uncached(c) : key = EntryKey(p, Blob(c, p))
      BY <1>6, <2>2 DEF CachedEntries
    <3>2. CachedEntries(c)[key] = NewBlob(c, key[1])
      BY <1>6, <2>2 DEF CachedEntries
    <3>3. key[1] = p /\ key[2] = Blob(c, p) /\ p \in Rewritten(c)
      BY <3>1 DEF EntryKey, Uncached
    <3> QED BY <1>4, <1>6, <3>2, <3>3
  <2> QED BY <2>1, <2>2
<1> QED BY <1>5, <1>6

\* rewriteCommit: what becomes a pointer is stored, and the new commit is on top of parents whose objects
\* are there.
LEMMA RewriteCommitObjects ==
  ASSUME MigrateInv, MigrateInv', ObjInv, RewriteCommit
  PROVE  ObjInv'
<1>0. /\ UNCHANGED <<hooks, tags, refs, remote, server, ownHook>> /\ run.pc # "idle"
      /\ GitOK(commits, tags, refs) /\ RemoteOK(commits, remote) /\ RunOK(run, commits, tags, refs)
      /\ IsHistory(commits) /\ IsHistory(commits')
      /\ run' = NoRun => store \subseteq store'
  BY DEF RewriteCommit, setupVars, history, MigrateInv, GitOK
<1>1. CASE run' = NoRun /\ commits' = commits
  BY <1>0, <1>1, RunObjects
<1>2. CASE run' # NoRun \/ commits' # commits
  <2>1. PICK c \in run.todo : \E n \in 1..Len(commits') : \E files :
           /\ c \in 1..Len(commits) /\ files = [p \in Paths |-> RewriteEntry(c, p)]
           /\ Extends(commits, commits') /\ commits'[n].tree.files = files
           /\ commits'[n].parents = MapParents(commits[c].parents)
           /\ commits' = commits \/ (n = Len(commits) + 1 /\ commits' = Append(commits, commits'[n]))
           /\ store' = store \cup (PointersIn(files) \ PointersIn(commits[c].tree.files))
           /\ run # NoRun /\ run'.opt = run.opt /\ run'.todo = run.todo \ {c}
           /\ run'.cache = CacheCommit(c, n) /\ run'.entries = CachedEntries(c)
    BY <1>2, RewriteFacts
  <2>2. PICK n \in 1..Len(commits'), files \in {[p \in Paths |-> RewriteEntry(c, p)]} :
           /\ c \in 1..Len(commits) /\ files = [p \in Paths |-> RewriteEntry(c, p)]
           /\ Extends(commits, commits') /\ commits'[n].tree.files = files
           /\ commits'[n].parents = MapParents(commits[c].parents)
           /\ commits' = commits \/ (n = Len(commits) + 1 /\ commits' = Append(commits, commits'[n]))
           /\ store' = store \cup (PointersIn(files) \ PointersIn(commits[c].tree.files))
           /\ run # NoRun /\ run'.opt = run.opt /\ run'.todo = run.todo \ {c}
           /\ run'.cache = CacheCommit(c, n) /\ run'.entries = CachedEntries(c)
    BY <2>1
  <2>3. ImportHas(run', hooks[PrePush])
    <3>1. CASE run.opt.cmd = "import"
      BY <2>2, <3>1 DEF ObjInv, ImportHas
    <3>2. CASE run.opt.cmd # "import"
      <4>1. \A key \in DOMAIN run.entries : run.entries[key].ptr => key[2].ptr
        BY <2>2, <3>2 DEF ObjInv, ImportHas
      <4> QED BY <1>0, <2>2, <3>2, <4>1, NoNewPointers DEF ImportHas
    <3> QED BY <3>1, <3>2
  <2>4. ASSUME hooks[PrePush] \in {"none", "empty"}, PointersIn(commits[c].tree.files) = {}
        PROVE  PointersIn(files) = {}
    <3>1. run.opt.cmd # "import" /\ \A key \in DOMAIN run.entries : run.entries[key].ptr => key[2].ptr
      BY <2>2, <2>4 DEF ObjInv, ImportHas
    <3>2. \A p \in Paths : files[p] # NoBlob /\ files[p].ptr => Blob(c, p) # NoBlob /\ Blob(c, p).ptr
      BY <1>0, <2>2, <3>1, NoNewPointers
    <3> QED BY <2>4, <3>2 DEF PointersIn, Blob
  <2>5. ASSUME ~ownHook
        PROVE  Bare(commits', hooks[PrePush]) /\ ObjectsOK(commits', tags, refs, remote, run', store', server)
    <3> DEFINE S == There(commits', store', server)
    <3>0. Bare(commits, hooks[PrePush]) /\ ObjectsOK(commits, tags, refs, remote, run, store, server)
      BY <2>5 DEF ObjInv
    <3>1. Bare(commits', hooks[PrePush])
      <4>1. CASE commits' = commits
        BY <3>0, <4>1
      <4>2. CASE commits' = Append(commits, commits'[n])
        <5>1. hooks[PrePush] \in {"none", "empty"} => PointersIn(commits'[n].tree.files) = {}
          BY <2>2, <2>4, <3>0 DEF Bare
        <5> QED BY <1>0, <3>0, <4>2, <5>1, BareStays
      <4> QED BY <2>2, <4>1, <4>2
    <3>2. ObjectsOK(commits', tags, refs, remote, run, store', server)
      <4>1. Extends(commits, commits') /\ store \subseteq store' /\ server \subseteq server
        BY <2>2
      <4> QED BY ONLY <1>0, <3>0, <4>1, ObjectsStay
    <3>3. Held(commits', c, S) /\ \A d \in DOMAIN run.cache : Held(commits', run.cache[d], S)
      BY <2>2, <3>2 DEF ObjectsOK
    <3>4. c \in 1..Len(commits') /\ commits'[c] = commits[c]
      BY <1>0, <2>2, ParentsBefore DEF Extends
    <3>5. /\ PointersIn(commits[c].tree.files) \subseteq S
          /\ \A p \in Range(commits[c].parents) : Held(commits', p, S)
      <4> HIDE DEF S
      <4> QED BY <1>0, <3>3, <3>4, HeldParents
    <3>6. PointersIn(commits'[n].tree.files) \subseteq S
      BY <2>2, <3>5 DEF There
    <3>7. \A p \in Range(commits'[n].parents) : Held(commits', p, S)
      <4> HIDE DEF S
      <4>1. \A p \in Range(commits'[n].parents) :
              \/ p \in Range(commits[c].parents)
              \/ \E d \in DOMAIN run.cache : p = run.cache[d]
        <5> DEFINE ps == commits[c].parents
        <5>1. ps \in Seq(1..(c - 1))
          BY <1>0, <2>2 DEF IsHistory, Sound
        <5>2. Len(ps) \in Nat /\ DOMAIN ps = 1..Len(ps)
          BY <5>1
        <5> HIDE DEF ps
        <5>3. \A p \in Range(MapParents(ps)) : p \in Range(ps) \/ \E d \in DOMAIN run.cache : p = run.cache[d]
          BY <5>2 DEF MapParents, Range
        <5> QED BY <2>2, <5>3 DEF ps
      <4> QED BY <3>3, <3>5, <4>1
    <3>8. Held(commits', n, S)
      <4> HIDE DEF S
      <4> QED BY <1>0, <3>6, <3>7, HeldOnTop
    <3>9. \A d \in DOMAIN run'.cache : Held(commits', run'.cache[d], S)
      BY <2>2, <3>3, <3>8 DEF CacheCommit
    <3> QED BY <2>2, <3>1, <3>2, <3>9 DEF ObjectsOK
  <2> QED BY <1>0, <2>3, <2>5 DEF ObjInv
<1> QED BY <1>1, <1>2

\* The scenarios: a repository with the hook has its objects, one without it no pointers.
LEMMA InitObjects ==
  ASSUME Init
  PROVE  ObjInv
<1>0. MigrateInv /\ GitOK(commits, tags, refs) /\ IsHistory(commits)
  BY InitHolds DEF MigrateInv, GitOK
<1>1. /\ conf \in Scenarios /\ commits = conf.commits /\ refs = conf.refs /\ remote = conf.remote
      /\ store = conf.store /\ server = conf.server /\ hooks = conf.hooks /\ run = NoRun
      /\ ownHook = (hooks[PrePush] = "user" \/ (hooks[PrePush] \in {"none", "empty"} /\ Pointers(1..Len(commits)) # {}))
  BY DEF Init, SetupInit
<1>2. hooks \in [Range(HookTypes) -> HookTexts]
  BY <1>1, MigrateAssumption
<1>3. ImportHas(run, hooks[PrePush])
  BY <1>1 DEF ImportHas
<1>4. ASSUME ~ownHook
      PROVE  Bare(commits, hooks[PrePush]) /\ ObjectsOK(commits, tags, refs, remote, run, store, server)
  <2>0. \A r \in Local \cup Remotes : refs[r] # NoRef => PeelOf(tags, refs[r]) \in 1..Len(commits)
    BY <1>0, PeelOfRef
  <2>1. \A b \in DOMAIN remote : remote[b] \in 1..Len(commits)
    BY <1>0 DEF MigrateInv, RemoteOK
  <2>2. \A c \in 1..Len(commits) : AncestorsIn(commits)[c] \in SUBSET (1..Len(commits))
    BY <1>0, AncestorFacts
  <2>3. CASE hooks[PrePush] \in {"none", "empty"}
    <3>1. \A c \in 1..Len(commits) : PointersIn(commits[c].tree.files) = {}
      BY <1>1, <1>4, <2>3 DEF Pointers
    <3>2. \A c \in 1..Len(commits) : \A S : Held(commits, c, S)
      BY <2>2, <3>1 DEF Held
    <3> QED BY <1>1, <2>0, <2>1, <3>1, <3>2 DEF Bare, ObjectsOK
  <2>4. CASE hooks[PrePush] \in {"ours", "old"}
    <3>1. ObjectsThere(conf)
      BY <1>1, <2>4, MigrateAssumption
    <3>2. \A c \in 1..Len(commits) : PointersIn(commits[c].tree.files) \subseteq store \cup server
      BY <1>1, <3>1 DEF ObjectsThere
    <3>3. PICK D \in SUBSET (1..Len(commits)) :
            /\ \A i \in D : Range(commits[i].parents) \subseteq D /\ PointersIn(commits[i].tree.files) \subseteq server
            /\ \A b \in DOMAIN remote : remote[b] \in D
            /\ \A r \in Remotes : refs[r] # NoRef => refs[r].n \in D
      BY <1>1, <3>1 DEF ObjectsThere
    <3>4. \A c \in 1..Len(commits) : Held(commits, c, There(commits, store, server))
      BY <2>2, <3>2 DEF Held, There
    <3>5. \A c \in D : Held(commits, c, server)
      <4> SUFFICES ASSUME NEW c \in D PROVE AncestorsIn(commits)[c] \subseteq D
        BY <3>3 DEF Held
      <4>1. AncestorsIn(commits)[c] = Above(commits, c) /\ Closed(commits, D)
        BY <1>0, <3>3, AncestorsAbove DEF Closed
      <4> QED BY <4>1 DEF Above
    <3>6. \A r \in Remotes : refs[r] # NoRef => PeelOf(tags, refs[r]) = refs[r].n
      BY <1>0, BranchIsCommit
    <3> QED BY <1>1, <2>0, <2>4, <3>3, <3>4, <3>5, <3>6 DEF Bare, ObjectsOK
  <2> QED BY <1>1, <1>2, <1>4, <2>3, <2>4, PrePushFirst DEF HookTexts
<1> QED BY <1>1, <1>2, <1>3, <1>4 DEF ObjInv

\* Every step keeps the invariant.
LEMMA StepObjects ==
  ASSUME MigrateInv, MigrateInv', ObjInv, [Next]_vars
  PROVE  ObjInv'
<1>1. CASE UNCHANGED vars
  BY <1>1 DEF vars, setupVars, gitVars, objVars, history, ObjInv
<1>2. CASE UserNext
  BY <1>2, CommitObjects, GitPushObjects, RemoteCommitObjects, SetupObjects, KillObjects DEF UserNext
<1>3. CASE MigrateNext
  BY <1>3, StartMigrateObjects, DownloadObjects, RewriteCommitObjects, EndRewriteObjects, NextRefObjects,
     UpdateInnerTagObjects, UpdateOneRefObjects, EndMigrateObjects, ImportNoRewriteObjects DEF MigrateNext
<1> QED BY <1>1, <1>2, <1>3 DEF Next

\* The invariant gives the property.
LEMMA ObjectsAreThere ==
  ASSUME MigrateInv, ObjInv
  PROVE  ObjectsSurvive
<1> DEFINE S == There(commits, store, server)
<1> SUFFICES ASSUME ~ownHook
             PROVE  /\ Pointers(Reach(Local)) \subseteq S
                    /\ Pointers(OnRemote) \subseteq server
  <2>1. MergeObjects = MergeIn(commits)
    BY DEF MergeObjects, MergeIn, IsMerge, Brought, BroughtIn, Pointers
  <2> QED BY <2>1 DEF ObjectsSurvive, Local, There
<1>0. ObjectsOK(commits, tags, refs, remote, run, store, server)
  BY DEF ObjInv
<1> HIDE DEF S
<1>1. \A r \in Local : refs[r] # NoRef =>
        \A d \in Ancestors[Peel(refs[r])] : PointersIn(commits[d].tree.files) \subseteq S
  BY <1>0, PeelIs, AncestorsAre DEF ObjectsOK, Held, S
<1>2. \A b \in DOMAIN remote :
        \A d \in Ancestors[remote[b]] : PointersIn(commits[d].tree.files) \subseteq server
  BY <1>0, AncestorsAre DEF ObjectsOK, Held
<1>3. Pointers(Reach(Local)) \subseteq S
  BY <1>1 DEF Pointers, Reach, ReachIn
<1>4. Pointers(OnRemote) \subseteq server
  BY <1>2 DEF Pointers, OnRemote
<1> QED BY <1>3, <1>4

\* No migration, commit, push or prune loses an object that a local ref needs or leaves the remote with a
\* pointer to nothing, whatever is rewritten, fails or is killed in between, unless the user has a pre-push
\* hook of their own or has taken ours away, and but for objects that a merge has and none of its parents,
\* which the prune at the end of an export may take.
THEOREM ObjectsStaySafe == Spec => []ObjectsSurvive
<1>1. Init => MigrateInv /\ ObjInv
  BY InitHolds, InitObjects
<1>2. MigrateInv /\ ObjInv /\ [Next]_vars => MigrateInv' /\ ObjInv'
  BY StepKeeps, StepObjects
<1>3. MigrateInv /\ ObjInv => ObjectsSurvive
  BY ObjectsAreThere
<1> QED BY <1>1, <1>2, <1>3, PTL DEF Spec

-----------------------------------------------------------------------------
(* What a migration takes and leaves *)

\* The published commits: those of refs/remotes with --skip-fetch, those of the remote's branches otherwise.
PublishedIn(cs, rf, rm, opt) ==
  IF opt.skipFetch THEN UNION {AncestorsIn(cs)[rf[r].n] : r \in {s \in Remotes : rf[s] # NoRef}}
  ELSE UNION {AncestorsIn(cs)[rm[b]] : b \in DOMAIN rm}

\* They are not rewritten, and a rewritten commit has those its old version has.
PublishedLeft(cs, rf, rm, q) ==
  Unpublished(q.opt) =>
    LET P == PublishedIn(cs, rf, rm, q.opt)
    IN /\ q.todo \cap P = {}
       /\ \A c \in DOMAIN q.cache : AncestorsIn(cs)[c] \cap P \subseteq AncestorsIn(cs)[q.cache[c]]

\* The commits of a migration.  No way leads out of them and back, and when there are no two versions of
\* one commit among them, the rewritten ones are below no old one that has changed.
Taken(q) == q.todo \cup DOMAIN q.cache
Apart(cs, T) == \A c \in T : \A p \in Range(cs[c].parents) \ T : AncestorsIn(cs)[p] \cap T = {}
Single(cs, T) == \A c, d \in T : cs[c].made = cs[d].made => c = d
Renewed(cs, q) ==
  Single(cs, Taken(q)) =>
    \A c \in DOMAIN q.cache : \A d \in AncestorsIn(cs)[q.cache[c]] \cap Taken(q) :
      d \in DOMAIN q.cache /\ q.cache[d] = d

RewriteOK(cs, rf, rm, q) ==
  q # NoRun => /\ q.todo \cap DOMAIN q.cache = {} /\ PublishedLeft(cs, rf, rm, q)
               /\ Apart(cs, Taken(q)) /\ Renewed(cs, q)

\* Every branch of the remote is followed by a ref of refs/remotes.
Followed == head = conf.head /\ DOMAIN remote \subseteq (DOMAIN conf.remote) \cup {head}

\* The inner tag was tagged before the outer one.
Below(cf, r, s) ==
  r \in OwnIn(cf) /\ cf.refs[r].n \in Nat /\ cf.refs[s].n \in Nat /\ cf.refs[r].n < cf.refs[s].n

\* A ref that updateOneRef is done with names nothing that was migrated and not rewritten.
Current(ts, rf, cache, r) == PeelOf(ts, rf[r]) \in DOMAIN cache => PeelOf(ts, rf[r]) \in Range(cache)

\* A ref that it is not done with is as it was listed, but for commits of the user on top of a branch.
Waits(q, r) == r \notin q.seen \/ \E i \in 1..Len(q.stack) : r = q.stack[i]
AsListed(cs, rf, rm, q, r) ==
  \/ rf[r] = q.listed[r]
  \/ /\ r \in Branches /\ q.listed[r] # NoRef /\ rf[r].n \notin DOMAIN q.cache
     /\ Unpublished(q.opt) =>
          AncestorsIn(cs)[rf[r].n] \cap PublishedIn(cs, rf, rm, q.opt) \subseteq AncestorsIn(cs)[q.listed[r].n]

\* While refs are moved: every branch, and every tag that is as it was tagged, will be or is done with.
RefOK(cs, ts, rf, rm, q, r) ==
  rf[r] # NoRef => /\ r \in q.seen \/ \E i \in 1..Len(q.list) : r = q.list[i]
                   /\ Waits(q, r) => AsListed(cs, rf, rm, q, r)
                   /\ ~Waits(q, r) => Current(ts, rf, q.cache, r)
StackOK(cf, q) ==
  /\ \A i \in 1..Len(q.stack) : q.stack[i] \in q.seen
  /\ \A i \in 1..Len(q.stack) : \A j \in 1..Len(q.stack) :
       i < j /\ q.stack[i] \in OwnIn(cf) => Below(cf, q.stack[j], q.stack[i])

RefsOK(cf, cs, ts, rf, rm, q) ==
  q # NoRun /\ q.pc = "refs" =>
    q.todo = {} /\ StackOK(cf, q) /\ \A r \in OwnIn(cf) : RefOK(cs, ts, rf, rm, q, r)

OldInv == Followed /\ RewriteOK(commits, refs, remote, run) /\ RefsOK(conf, commits, tags, refs, remote, run)

\* More commits on the same refs/remotes and remote.
LEMMA PublishedSame ==
  ASSUME NEW cs, NEW ds, NEW ts, NEW rf, NEW rg, NEW rm, GitOK(cs, ts, rf), RemoteOK(cs, rm), Extends(cs, ds),
         \A r \in Remotes : rg[r] = rf[r], NEW opt
  PROVE  PublishedIn(ds, rg, rm, opt) = PublishedIn(cs, rf, rm, opt)
<1>1. \A c \in 1..Len(cs) : AncestorsIn(ds)[c] = AncestorsIn(cs)[c]
  BY AncestorsStay DEF Extends, GitOK
<1>2. \A r \in Remotes : rf[r] # NoRef => rf[r].n \in 1..Len(cs)
  BY BranchIsCommit
<1>3. {r \in Remotes : rg[r] # NoRef} = {r \in Remotes : rf[r] # NoRef}
  OBVIOUS
<1>4. {AncestorsIn(ds)[rg[r].n] : r \in {s \in Remotes : rg[s] # NoRef}} =
      {AncestorsIn(cs)[rf[r].n] : r \in {s \in Remotes : rf[s] # NoRef}}
  BY <1>1, <1>2, <1>3
<1>5. {AncestorsIn(ds)[rm[b]] : b \in DOMAIN rm} = {AncestorsIn(cs)[rm[b]] : b \in DOMAIN rm}
  BY <1>1 DEF RemoteOK
<1> QED BY <1>4, <1>5 DEF PublishedIn

\* The migration is where it was, and of the commits there were no more are published.
LEMMA RewriteStays ==
  ASSUME NEW cs, NEW ds, NEW rf, NEW rg, NEW rm, NEW rn, NEW q, NEW u, NEW rh, IsHistory(cs), Extends(cs, ds),
         NEW th, RunOK(q, cs, th, rh), RewriteOK(cs, rf, rm, q),
         u # NoRun => q # NoRun /\ u.opt = q.opt /\ u.todo = q.todo /\ u.cache = q.cache,
         PublishedIn(ds, rg, rn, q.opt) \cap (1..Len(cs)) \subseteq PublishedIn(cs, rf, rm, q.opt)
  PROVE  RewriteOK(ds, rg, rn, u)
<1> SUFFICES ASSUME u # NoRun
             PROVE  /\ q.todo \cap DOMAIN q.cache = {} /\ PublishedLeft(ds, rg, rn, u)
                    /\ Apart(ds, Taken(q)) /\ Renewed(ds, u)
  BY DEF RewriteOK, Taken
<1>0. /\ q # NoRun /\ u.opt = q.opt /\ u.todo = q.todo /\ u.cache = q.cache /\ Taken(u) = Taken(q)
      /\ q.todo \cap DOMAIN q.cache = {} /\ PublishedLeft(cs, rf, rm, q) /\ Apart(cs, Taken(q)) /\ Renewed(cs, q)
  BY DEF RewriteOK, Taken
<1>1. /\ q.todo \subseteq 1..Len(cs) /\ Taken(q) \subseteq 1..Len(cs)
      /\ \A c \in DOMAIN q.cache : c \in 1..Len(cs) /\ q.cache[c] \in 1..Len(cs)
  BY <1>0 DEF RunOK, CacheOK, Taken
<1>2. \A c \in 1..Len(cs) : /\ AncestorsIn(ds)[c] = AncestorsIn(cs)[c] /\ AncestorsIn(cs)[c] \in SUBSET (1..Len(cs))
                            /\ ds[c] = cs[c] /\ Range(cs[c].parents) \subseteq 1..Len(cs)
  BY AncestorsStay, AncestorFacts, ParentsBefore DEF Extends
<1>3. PublishedLeft(ds, rg, rn, u)
  BY <1>0, <1>1, <1>2 DEF PublishedLeft
<1>4. Apart(ds, Taken(q))
  <2> SUFFICES ASSUME NEW c \in Taken(q), NEW p \in Range(ds[c].parents) \ Taken(q)
               PROVE  AncestorsIn(ds)[p] \cap Taken(q) = {}
    BY DEF Apart
  <2>1. p \in Range(cs[c].parents) \ Taken(q) /\ AncestorsIn(ds)[p] = AncestorsIn(cs)[p]
    BY <1>1, <1>2
  <2> QED BY <1>0, <2>1 DEF Apart
<1>5. Renewed(ds, u)
  <2>1. Single(ds, Taken(q)) => Single(cs, Taken(q))
    BY <1>1, <1>2 DEF Single
  <2> QED BY <1>0, <1>1, <1>2, <2>1 DEF Renewed
<1> QED BY <1>0, <1>3, <1>4, <1>5

\* So does a ref that waits.
LEMMA WaitingStays ==
  ASSUME NEW cs, NEW ds, NEW ts, NEW rf, NEW rg, NEW rm, NEW rn, NEW q, NEW u, NEW r \in Local,
         GitOK(cs, ts, rf), GitOK(cs, ts, q.listed), Extends(cs, ds), rf[r] # NoRef, rg[r] = rf[r],
         u.listed[r] = q.listed[r], u.cache = q.cache, u.opt = q.opt, AsListed(cs, rf, rm, q, r),
         PublishedIn(ds, rg, rn, q.opt) \cap (1..Len(cs)) \subseteq PublishedIn(cs, rf, rm, q.opt)
  PROVE  AsListed(ds, rg, rn, u, r)
<1>1. CASE rf[r] = q.listed[r]
  BY <1>1 DEF AsListed
<1>2. CASE rf[r] # q.listed[r]
  <2>1. r \in Branches /\ q.listed[r] # NoRef /\ rf[r].n \notin DOMAIN q.cache
    BY <1>2 DEF AsListed
  <2>2. rf[r].n \in 1..Len(cs) /\ q.listed[r].n \in 1..Len(cs) /\ IsHistory(cs)
    BY <2>1, BranchIsCommit DEF GitOK
  <2>3. /\ AncestorsIn(ds)[rf[r].n] = AncestorsIn(cs)[rf[r].n] /\ AncestorsIn(cs)[rf[r].n] \in SUBSET (1..Len(cs))
        /\ AncestorsIn(ds)[q.listed[r].n] = AncestorsIn(cs)[q.listed[r].n]
    <3>1. \A c \in 1..Len(cs) : AncestorsIn(ds)[c] = AncestorsIn(cs)[c]
      BY <2>2, AncestorsStay DEF Extends
    <3>2. AncestorsIn(cs)[rf[r].n] \in SUBSET (1..Len(cs))
      BY <2>2, AncestorFacts
    <3> QED BY <2>2, <3>1, <3>2
  <2>4. Unpublished(q.opt) =>
          AncestorsIn(ds)[rf[r].n] \cap PublishedIn(ds, rg, rn, q.opt) \subseteq AncestorsIn(ds)[q.listed[r].n]
    BY <1>2, <2>3 DEF AsListed
  <2> QED BY <2>1, <2>4 DEF AsListed
<1> QED BY <1>1, <1>2

\* Published commits are commits.
LEMMA PublishedThere ==
  ASSUME MigrateInv, NEW opt
  PROVE  PublishedIn(commits, refs, remote, opt) \subseteq 1..Len(commits)
<1>1. GitOK(commits, tags, refs) /\ IsHistory(commits) /\ RemoteOK(commits, remote)
  BY DEF MigrateInv, GitOK
<1>2. \A r \in Remotes : refs[r] # NoRef => AncestorsIn(commits)[refs[r].n] \subseteq 1..Len(commits)
  BY <1>1, BranchIsCommit, AncestorFacts
<1>3. \A b \in DOMAIN remote : AncestorsIn(commits)[remote[b]] \subseteq 1..Len(commits)
  BY <1>1, AncestorFacts DEF RemoteOK
<1> QED BY <1>2, <1>3 DEF PublishedIn

\* What RefsOK says while refs are moved.
LEMMA MovingRefs ==
  ASSUME MigrateInv, OldInv, run.pc = "refs"
  PROVE  /\ run # NoRun /\ run.todo = {} /\ StackOK(conf, run)
         /\ GitOK(commits, tags, refs) /\ GitOK(commits, tags, run.listed) /\ IsHistory(commits)
         /\ \A r \in run.seen : r \in Local /\ refs[r] # NoRef
<1>1. run # NoRun
  BY RunIs
<1>2. MovesOK(run, commits, tags, refs) /\ GitOK(commits, tags, run.listed)
  BY RunFacts
<1> QED BY <1>1, <1>2 DEF OldInv, RefsOK, MovesOK, MigrateInv, GitOK

LEMMA MovingRef ==
  ASSUME MigrateInv, OldInv, run.pc = "refs", NEW r \in OwnIn(conf), refs[r] # NoRef
  PROVE  /\ r \in Local /\ (r \in run.seen \/ \E i \in 1..Len(run.list) : r = run.list[i])
         /\ Waits(run, r) => AsListed(commits, refs, remote, run, r)
         /\ ~Waits(run, r) => Current(tags, refs, run.cache, r)
<1>1. RefOK(commits, tags, refs, remote, run, r)
  BY RunIs DEF OldInv, RefsOK
<1> QED BY <1>1, OwnLocal DEF RefOK

\* A step that leaves the refs of the remote, and at most ends the migration or moves it on.
LEMMA OldStays ==
  ASSUME MigrateInv, MigrateInv', OldInv, UNCHANGED <<conf, head, remote>>, Extends(commits, commits'),
         \A r \in Remotes : refs'[r] = refs[r],
         run' # NoRun => run # NoRun /\ run'.opt = run.opt /\ run'.todo = run.todo /\ run'.cache = run.cache,
         RefsOK(conf, commits', tags', refs', remote, run')
  PROVE  OldInv'
<1>1. /\ GitOK(commits, tags, refs) /\ IsHistory(commits) /\ RemoteOK(commits, remote) /\ RunOK(run, commits, tags, refs)
      /\ RewriteOK(commits, refs, remote, run)
  BY DEF MigrateInv, GitOK, OldInv
<1>2. PublishedIn(commits', refs', remote, run.opt) = PublishedIn(commits, refs, remote, run.opt)
  BY <1>1, PublishedSame
<1>3. RewriteOK(commits', refs', remote, run')
  <2> DEFINE P == PublishedIn(commits, refs, remote, run.opt)
             Q == PublishedIn(commits', refs', remote, run.opt)
  <2>1. Q \cap (1..Len(commits)) \subseteq P
    BY <1>2
  <2> QED BY <1>1, <2>1, RewriteStays
<1> QED BY <1>3 DEF OldInv, Followed

\* A history is one that it extends.
LEMMA SameExtends ==
  ASSUME MigrateInv
  PROVE  Extends(commits, commits) /\ IsHistory(commits) /\ Len(commits) \in Nat
BY ParentsBefore DEF MigrateInv, GitOK, Extends

\* A commit on top of HEAD, also of a branch that waits.
LEMMA OnTopOld ==
  ASSUME MigrateInv, MigrateInv', OldInv, NEW files \in Files, NEW attrs,
         commits' = Append(commits, NewOnTop(files, attrs)), refs' = [refs EXCEPT ![head] = CommitRef(Len(commits) + 1)],
         UNCHANGED <<conf, tags, head, remote, run>>
  PROVE  OldInv'
<1> DEFINE n == Len(commits) + 1
           A(c) == AncestorsIn(commits)[c]
           B(c) == AncestorsIn(commits')[c]
           P == PublishedIn(commits, refs, remote, run.opt)
<1>1. /\ Extends(commits, commits') /\ Len(commits) \in Nat /\ Len(commits') = n
      /\ commits'[n] = NewOnTop(files, attrs) /\ IsHistory(commits')
  BY OnTopExtends DEF Extends
<1>2. /\ refs'[head] = CommitRef(n) /\ \A r \in (Local \cup Remotes) \ {head} : refs'[r] = refs[r]
      /\ head \notin Remotes /\ head \in Branches /\ refs[head] # NoRef
  <2>1. refs \in [Local \cup Remotes -> Values \cup {NoRef}] /\ head \in Local /\ head \notin Remotes
    BY HeadFacts, RefSets DEF MigrateInv, GitOK, IsRefs
  <2> QED BY <2>1, HeadFacts
<1>3. \A r \in Remotes : refs'[r] = refs[r]
  BY <1>2
<1>4. ASSUME run.pc = "refs" PROVE RefsOK(conf, commits', tags, refs', remote, run)
  <2>1. /\ run # NoRun /\ run.todo = {} /\ StackOK(conf, run)
        /\ GitOK(commits, tags, refs) /\ GitOK(commits, tags, run.listed) /\ IsHistory(commits)
    BY <1>4, MovingRefs
  <2>2. n \notin DOMAIN run.cache
    <3>1. CacheOK(commits, run.cache)
      BY <1>4, RunFacts
    <3> QED BY <1>1, <3>1 DEF CacheOK
  <2>3. PublishedIn(commits', refs', remote, run.opt) = P /\ P \subseteq 1..Len(commits)
    <3>1. RemoteOK(commits, remote) /\ Extends(commits, commits')
      BY <1>1 DEF MigrateInv
    <3>2. PublishedIn(commits', refs', remote, run.opt) = P
      BY ONLY <1>3, <2>1, <3>1, PublishedSame
    <3>3. P \subseteq 1..Len(commits)
      BY PublishedThere
    <3> QED BY <3>2, <3>3
  <2>4. RefOK(commits', tags, refs', remote, run, head)
    <3>1. head \in OwnIn(conf)
      BY <1>2, OwnLocal
    <3>2. /\ head \in run.seen \/ \E i \in 1..Len(run.list) : head = run.list[i]
          /\ Waits(run, head) => AsListed(commits, refs, remote, run, head)
      BY <1>2, <1>4, <3>1, MovingRef
    <3>3. IsCommit(refs'[head]) /\ refs'[head].n = n /\ PeelOf(tags, refs'[head]) = n
      BY <1>2 DEF CommitRef, IsCommit, PeelOf
    <3>4. Current(tags, refs', run.cache, head)
      BY <2>2, <3>3 DEF Current
    <3>5. ASSUME Waits(run, head) PROVE AsListed(commits', refs', remote, run, head)
      <4>1. /\ run.listed[head] # NoRef
            /\ Unpublished(run.opt) => A(refs[head].n) \cap P \subseteq A(run.listed[head].n)
        BY <1>2, <3>2, <3>5 DEF AsListed
      <4>2. /\ refs[head].n \in 1..Len(commits) /\ run.listed[head].n \in 1..Len(commits)
            /\ Peel(refs[head]) = refs[head].n
        BY <1>2, <2>1, <4>1, BranchIsCommit, PeelIs
      <4>3. B(refs[head].n) = A(refs[head].n) /\ B(run.listed[head].n) = A(run.listed[head].n)
        <5>1. \A c \in 1..Len(commits) : AncestorsIn(commits')[c] = AncestorsIn(commits)[c]
          BY <1>1, <2>1, AncestorsStay DEF Extends
        <5> QED BY <4>2, <5>1
      <4>4. B(n) = {n} \cup B(refs[head].n)
        <5>1. commits'[n].parents = <<refs[head].n>>
          BY <1>1, <4>2 DEF NewOnTop
        <5>2. Range(commits'[n].parents) = {refs[head].n} /\ n \in 1..Len(commits')
          BY <1>1, <5>1 DEF Range
        <5>3. AncestorsIn(commits')[n] = {n} \cup UNION {AncestorsIn(commits')[p] : p \in Range(commits'[n].parents)}
          <6> HIDE DEF n
          <6> QED BY ONLY <1>1, <5>2, AncestorFacts
        <5> QED BY <5>2, <5>3
      <4>5. n \notin P
        BY <1>1, <2>3
      <4> HIDE DEF A, B, P, n
      <4>6. Unpublished(run.opt) => B(n) \cap P \subseteq B(run.listed[head].n)
        BY <4>1, <4>3, <4>4, <4>5
      <4> QED BY <1>2, <2>2, <2>3, <3>3, <4>1, <4>6 DEF AsListed, B
    <3> QED BY <3>2, <3>4, <3>5 DEF RefOK
  <2>5. ASSUME NEW r \in OwnIn(conf) \ {head} PROVE RefOK(commits', tags, refs', remote, run, r)
    <3> SUFFICES ASSUME refs'[r] # NoRef PROVE RefOK(commits', tags, refs', remote, run, r)
      BY DEF RefOK
    <3>1. r \in Local /\ refs'[r] = refs[r] /\ refs[r] # NoRef
      BY <1>2, OwnLocal
    <3>2. /\ r \in run.seen \/ \E i \in 1..Len(run.list) : r = run.list[i]
          /\ Waits(run, r) => AsListed(commits, refs, remote, run, r)
          /\ ~Waits(run, r) => Current(tags, refs, run.cache, r)
      BY <1>4, <3>1, MovingRef
    <3>3. PublishedIn(commits', refs', remote, run.opt) \cap (1..Len(commits)) \subseteq PublishedIn(commits, refs, remote, run.opt)
      BY <2>3
    <3>4. Waits(run, r) => AsListed(commits', refs', remote, run, r)
      BY <1>1, <2>1, <3>1, <3>2, <3>3, WaitingStays
    <3>5. ~Waits(run, r) => Current(tags, refs', run.cache, r)
      BY <3>1, <3>2 DEF Current
    <3> QED BY <3>2, <3>4, <3>5 DEF RefOK
  <2> QED BY <2>1, <2>4, <2>5 DEF RefsOK
<1>5. RefsOK(conf, commits', tags, refs', remote, run)
  BY <1>4 DEF RefsOK
<1> QED BY <1>1, <1>3, <1>5, OldStays

\* git commit.
LEMMA CommitOld ==
  ASSUME MigrateInv, MigrateInv', OldInv, Commit
  PROVE  OldInv'
<1>1. PICK oids \in conf.edits :
        /\ commits' = Append(commits, NewOnTop(Staged(oids), wattrs))
        /\ refs' = [refs EXCEPT ![head] = CommitRef(Len(commits) + 1)]
  BY DEF Commit, NewOnTop
<1>2. Staged(oids) \in Files /\ UNCHANGED <<conf, tags, head, remote, run>>
  BY StagedFiles DEF Commit
<1> QED BY <1>1, <1>2, OnTopOld

\* import --no-rewrite.
LEMMA ImportNoRewriteOld ==
  ASSUME MigrateInv, MigrateInv', OldInv, ImportNoRewrite
  PROVE  OldInv'
<1>1. PICK F \in (SUBSET Paths) \ {{}} :
        /\ \A p \in F : HeadTree.files[p] # NoBlob
        /\ commits' = Append(commits, NewOnTop(CleanEntries(HeadTree.files, F), HeadTree.attrs))
        /\ refs' = [refs EXCEPT ![head] = CommitRef(Len(commits) + 1)]
  BY DEF ImportNoRewrite, NewOnTop
<1>2. CleanEntries(HeadTree.files, F) \in Files
  BY <1>1, CleanedFiles
<1>3. UNCHANGED <<conf, tags, head, remote, run>>
  BY DEF ImportNoRewrite
<1> QED BY <1>1, <1>2, <1>3, OnTopOld

\* git push, when there is no migration.
LEMMA GitPushOld ==
  ASSUME MigrateInv, MigrateInv', OldInv, GitPush
  PROVE  OldInv'
<1>1. /\ UNCHANGED <<conf, tags, head, run>> /\ run.pc = "idle" /\ DOMAIN remote' = (DOMAIN remote) \cup {head}
  BY DEF GitPush, Running
<1>2. run' = NoRun
  BY <1>1 DEF MigrateInv, RunOK
<1> QED BY <1>1, <1>2 DEF OldInv, Followed, RewriteOK, RefsOK

\* A commit on the remote is a new one.
LEMMA RemoteCommitOld ==
  ASSUME MigrateInv, MigrateInv', OldInv, RemoteCommit
  PROVE  OldInv'
<1>1. PICK b \in DOMAIN remote :
       /\ commits' = Append(commits, [commits[remote[b]] EXCEPT !.made = Len(commits) + 1, !.parents = <<remote[b]>>])
       /\ remote' = [remote EXCEPT ![b] = Len(commits) + 1]
  BY DEF RemoteCommit
<1>2. UNCHANGED <<conf, tags, refs, head, run>>
  BY DEF RemoteCommit
<1> DEFINE y == commits[remote[b]]
           x == [y EXCEPT !.made = Len(commits) + 1, !.parents = <<remote[b]>>]
           n == Len(commits) + 1
<1>3. /\ GitOK(commits, tags, refs) /\ RemoteOK(commits, remote) /\ RunOK(run, commits, tags, refs)
      /\ IsHistory(commits) /\ IsHistory(commits') /\ IsSeq(commits) /\ remote[b] \in 1..Len(commits)
  BY DEF MigrateInv, GitOK, IsHistory, RemoteOK
<1>4. x.parents = <<remote[b]>>
  <2>1. y = [made |-> y.made, parents |-> y.parents, tree |-> [files |-> y.tree.files, attrs |-> y.tree.attrs]]
    BY <1>3 DEF IsHistory, Sound
  <2> HIDE DEF y
  <2>2. x = [f \in DOMAIN y |-> IF f = "parents" THEN <<remote[b]>> ELSE IF f = "made" THEN Len(commits) + 1 ELSE y[f]]
    OBVIOUS
  <2>3. DOMAIN y = {"made", "parents", "tree"}
    BY <2>1
  <2> HIDE DEF x
  <2> QED BY <2>2, <2>3
<1>5. commits' = Append(commits, x)
  BY <1>1
<1> HIDE DEF x, y
<1>6. /\ Len(commits) \in Nat /\ Len(commits') = n /\ commits'[n] = x
      /\ \A c \in 1..Len(commits) : commits'[c] = commits[c]
  BY <1>3, <1>5, Appended
<1>7. Extends(commits, commits')
  BY <1>3, <1>6 DEF Extends
<1>8. AncestorsIn(commits')[n] = {n} \cup AncestorsIn(commits')[remote[b]]
  <2>1. Range(commits'[n].parents) = {remote[b]} /\ n \in 1..Len(commits')
    BY <1>4, <1>6 DEF Range
  <2> QED BY <1>3, <2>1, AncestorFacts
<1>9. \A opt : PublishedIn(commits', refs, remote', opt) \cap (1..Len(commits)) \subseteq PublishedIn(commits', refs, remote, opt)
  <2>1. n \notin 1..Len(commits)
    BY <1>6
  <2>2. DOMAIN remote' = DOMAIN remote /\ remote'[b] = n /\ \A e \in DOMAIN remote \ {b} : remote'[e] = remote[e]
    BY <1>1
  <2>3. \A e \in DOMAIN remote' : AncestorsIn(commits')[remote'[e]] \cap (1..Len(commits)) \subseteq AncestorsIn(commits')[remote[e]]
    BY <1>8, <2>1, <2>2
  <2> QED BY <2>2, <2>3 DEF PublishedIn
<1>10. RewriteOK(commits', refs, remote', run)
  <2>1. PublishedIn(commits', refs, remote, run.opt) = PublishedIn(commits, refs, remote, run.opt)
    BY <1>3, <1>7, PublishedSame
  <2>2. PublishedIn(commits', refs, remote', run.opt) \cap (1..Len(commits)) \subseteq PublishedIn(commits, refs, remote, run.opt)
    BY <1>9, <2>1
  <2>3. RewriteOK(commits, refs, remote, run)
    BY DEF OldInv
  <2> QED BY <1>3, <1>7, <2>2, <2>3, RewriteStays
<1>11. DOMAIN remote' = DOMAIN remote
  BY <1>1
<1>12. ASSUME run.pc = "refs" PROVE RefsOK(conf, commits', tags, refs, remote', run)
  <2>1. /\ run # NoRun /\ run.todo = {} /\ StackOK(conf, run)
        /\ GitOK(commits, tags, refs) /\ GitOK(commits, tags, run.listed)
    BY <1>12, MovingRefs
  <2>2. PublishedIn(commits', refs, remote', run.opt) \cap (1..Len(commits)) \subseteq PublishedIn(commits, refs, remote, run.opt)
    <3>1. PublishedIn(commits', refs, remote, run.opt) = PublishedIn(commits, refs, remote, run.opt)
      BY <1>3, <1>7, PublishedSame
    <3> QED BY <1>9, <3>1
  <2>3. ASSUME NEW r \in OwnIn(conf), refs[r] # NoRef PROVE RefOK(commits', tags, refs, remote', run, r)
    <3>1. /\ r \in Local /\ (r \in run.seen \/ \E i \in 1..Len(run.list) : r = run.list[i])
          /\ Waits(run, r) => AsListed(commits, refs, remote, run, r)
          /\ ~Waits(run, r) => Current(tags, refs, run.cache, r)
      BY <1>12, <2>3, MovingRef
    <3>2. r \in Local
      BY OwnLocal
    <3>3. Waits(run, r) => AsListed(commits', refs, remote', run, r)
      BY <1>7, <2>1, <2>2, <2>3, <3>1, <3>2, WaitingStays
    <3> QED BY <3>1, <3>3 DEF RefOK
  <2> QED BY <2>1, <2>3 DEF RefsOK, RefOK
<1>13. RefsOK(conf, commits', tags, refs, remote', run)
  BY <1>12 DEF RefsOK
<1> QED BY <1>2, <1>10, <1>11, <1>13 DEF OldInv, Followed

\* A step of a migration that changes no git object and no ref.
LEMMA RunOld ==
  ASSUME MigrateInv, MigrateInv', OldInv, UNCHANGED <<conf, commits, tags, refs, head, remote>>,
         run' # NoRun => /\ run # NoRun /\ run'.opt = run.opt /\ run'.todo = run.todo /\ run'.cache = run.cache
                         /\ RefsOK(conf, commits, tags, refs, remote, run')
  PROVE  OldInv'
<1>1. RefsOK(conf, commits', tags', refs', remote, run')
  BY DEF RefsOK
<1>2. Extends(commits, commits')
  BY SameExtends
<1> QED BY <1>1, <1>2, OldStays

\* install, update, uninstall, track and untrack.
LEMMA SetupOld ==
  ASSUME MigrateInv, MigrateInv', OldInv, SetupCommand
  PROVE  OldInv'
BY RunOld DEF SetupCommand, gitVars, OldInv

\* A kill.
LEMMA KillOld ==
  ASSUME MigrateInv, MigrateInv', OldInv, Kill
  PROVE  OldInv'
BY RunOld DEF Kill, gitVars

\* The end.
LEMMA EndMigrateOld ==
  ASSUME MigrateInv, MigrateInv', OldInv, EndMigrate
  PROVE  OldInv'
BY RunOld DEF EndMigrate, gitVars

\* The download for an export.
LEMMA DownloadOld ==
  ASSUME MigrateInv, MigrateInv', OldInv, Download
  PROVE  OldInv'
<1>1. /\ UNCHANGED <<conf, commits, tags, refs, head, remote>> /\ run.pc = "download"
      /\ (run' = NoRun \/ run' = [run EXCEPT !.pc = "rewrite"])
  BY DEF Download, gitVars
<1>2. CASE run' = [run EXCEPT !.pc = "rewrite"]
  <2>1. run = [f \in RunFields |-> run[f]] /\ run # NoRun
    BY <1>1, RunFacts, RunIs
  <2>2. /\ run'.opt = run.opt /\ run'.todo = run.todo /\ run'.cache = run.cache
        /\ run'.pc = "rewrite"
    BY <1>2, <2>1 DEF RunFields
  <2>3. RefsOK(conf, commits, tags, refs, remote, run')
    BY <2>2 DEF RefsOK
  <2> QED BY <1>1, <2>1, <2>2, <2>3, RunOld
<1> QED BY <1>1, <1>2, RunOld

\* All commits are rewritten: every local ref is on the list, and listed as it is.
LEMMA EndRewriteOld ==
  ASSUME MigrateInv, MigrateInv', OldInv, EndRewrite
  PROVE  OldInv'
<1>1. /\ UNCHANGED <<conf, commits, tags, refs, head, remote>> /\ run.pc = "rewrite" /\ run.todo = {}
      /\ (run' = NoRun \/ run' = [run EXCEPT !.pc = "refs", !.list = LocalRefs, !.listed = refs])
  BY DEF EndRewrite, gitVars
<1>2. CASE run' = [run EXCEPT !.pc = "refs", !.list = LocalRefs, !.listed = refs]
  <2>1. run = [f \in RunFields |-> run[f]] /\ run # NoRun /\ run.seen = {} /\ run.stack = <<>>
    BY <1>1, RunFacts, RunIs
  <2>2. /\ run'.opt = run.opt /\ run'.todo = run.todo /\ run'.cache = run.cache
        /\ run'.pc = "refs" /\ run'.seen = {} /\ run'.stack = <<>> /\ run'.list = LocalRefs /\ run'.listed = refs
    BY <1>2, <2>1 DEF RunFields
  <2>3. \A r \in Local : \E i \in 1..Len(LocalRefs) : r = LocalRefs[i]
    BY RefSets DEF Local, Range
  <2>4. \A r \in OwnIn(conf) : RefOK(commits, tags, refs, remote, run', r)
    BY <2>2, <2>3, OwnLocal DEF RefOK, Waits, AsListed
  <2>5. StackOK(conf, run')
    BY <2>2 DEF StackOK
  <2>6. RefsOK(conf, commits, tags, refs, remote, run')
    BY <1>1, <2>2, <2>4, <2>5 DEF RefsOK
  <2> QED BY <1>1, <2>1, <2>2, <2>6, RunOld
<1> QED BY <1>1, <1>2, RunOld

\* The next ref.
LEMMA NextRefOld ==
  ASSUME MigrateInv, MigrateInv', OldInv, NextRef
  PROVE  OldInv'
<1> DEFINE h == Head(run.list)
           L == Tail(run.list)
<1>1. /\ UNCHANGED <<conf, commits, tags, refs, head, remote>>
      /\ run.pc = "refs" /\ run.stack = <<>> /\ run.list # <<>>
      /\ \/ ~ToUpdate(h) /\ run' = [run EXCEPT !.list = L]
         \/ ToUpdate(h) /\ run' = [run EXCEPT !.list = L, !.seen = @ \cup {h}, !.stack = <<h>>]
  BY DEF NextRef, gitVars
<1>2. run = [f \in RunFields |-> run[f]] /\ run # NoRun /\ run.list \in Seq(Local)
  BY <1>1, RunFacts, RunIs
<1>3. \A r : (\E i \in 1..Len(run.list) : r = run.list[i]) => r = h \/ \E i \in 1..Len(L) : r = L[i]
  <2>1. /\ run.list # <<>> /\ h = run.list[1] /\ Len(L) = Len(run.list) - 1 /\ Len(run.list) \in Nat /\ Len(run.list) > 0
        /\ \A i \in 1..Len(L) : L[i] = run.list[i + 1]
    BY <1>1, <1>2
  <2> HIDE DEF h, L
  <2>2. ASSUME NEW i \in 1..Len(run.list), run.list[i] # h
        PROVE  \E j \in 1..Len(L) : run.list[i] = L[j]
    <3>1. i - 1 \in 1..Len(L) /\ L[i - 1] = run.list[i]
      BY <2>1, <2>2
    <3> QED BY <3>1
  <2> QED BY <2>2
<1>4. run.todo = {}
  BY <1>1, MovingRefs
<1>5. ~ \E i \in 1..Len(run.stack) : TRUE
  BY <1>1
<1> HIDE DEF h, L
<1>6. ASSUME NEW r \in OwnIn(conf), refs[r] # NoRef
      PROVE  /\ r \in run.seen \/ r = h \/ \E i \in 1..Len(L) : r = L[i]
             /\ r \notin run.seen => AsListed(commits, refs, remote, run, r) /\ run.listed[r] # NoRef
             /\ r \in run.seen => Current(tags, refs, run.cache, r)
  <2>1. /\ r \in run.seen \/ \E i \in 1..Len(run.list) : r = run.list[i]
        /\ Waits(run, r) => AsListed(commits, refs, remote, run, r)
        /\ ~Waits(run, r) => Current(tags, refs, run.cache, r)
    BY <1>1, <1>6, MovingRef
  <2> QED BY <1>3, <1>5, <1>6, <2>1 DEF Waits, AsListed
<1>7. CASE ~ToUpdate(h) /\ run' = [run EXCEPT !.list = L]
  <2>1. /\ run'.opt = run.opt /\ run'.todo = run.todo /\ run'.cache = run.cache /\ run'.listed = run.listed
        /\ run'.pc = "refs" /\ run'.seen = run.seen /\ run'.stack = <<>> /\ run'.list = L
    BY <1>1, <1>2, <1>7 DEF RunFields
  <2>2. ASSUME NEW r \in OwnIn(conf), refs[r] # NoRef PROVE RefOK(commits, tags, refs, remote, run', r)
    <3>1. r \in run.seen \/ \E i \in 1..Len(L) : r = L[i]
      BY <1>6, <1>7, <2>2 DEF ToUpdate
    <3>2. Waits(run', r) <=> r \notin run.seen
      BY <2>1 DEF Waits
    <3>3. AsListed(commits, refs, remote, run', r) <=> AsListed(commits, refs, remote, run, r)
      BY <2>1 DEF AsListed
    <3> QED BY <1>6, <2>1, <2>2, <3>1, <3>2, <3>3 DEF RefOK
  <2>3. StackOK(conf, run')
    BY <2>1 DEF StackOK
  <2>4. RefsOK(conf, commits, tags, refs, remote, run')
    BY <1>4, <2>1, <2>2, <2>3 DEF RefsOK, RefOK
  <2> QED BY <1>1, <1>2, <2>1, <2>4, RunOld
<1>8. CASE ToUpdate(h) /\ run' = [run EXCEPT !.list = L, !.seen = @ \cup {h}, !.stack = <<h>>]
  <2>1. /\ run'.opt = run.opt /\ run'.todo = run.todo /\ run'.cache = run.cache /\ run'.listed = run.listed
        /\ run'.pc = "refs" /\ run'.seen = run.seen \cup {h} /\ run'.stack = <<h>> /\ run'.list = L
    BY <1>1, <1>2, <1>8 DEF RunFields
  <2>2. Len(run'.stack) = 1 /\ run'.stack[1] = h
    BY <2>1
  <2>3. ASSUME NEW r \in OwnIn(conf), refs[r] # NoRef PROVE RefOK(commits, tags, refs, remote, run', r)
    <3>1. r \in run'.seen \/ \E i \in 1..Len(L) : r = L[i]
      BY <1>6, <2>1, <2>3
    <3>2. Waits(run', r) <=> r \notin run.seen
      <4>1. (\E i \in 1..Len(run'.stack) : r = run'.stack[i]) <=> r = h
        BY <2>2
      <4> QED BY <1>8, <2>1, <4>1 DEF Waits, ToUpdate
    <3>3. AsListed(commits, refs, remote, run', r) <=> AsListed(commits, refs, remote, run, r)
      BY <2>1 DEF AsListed
    <3> QED BY <1>6, <2>1, <2>3, <3>1, <3>2, <3>3 DEF RefOK
  <2>4. StackOK(conf, run')
    BY <2>1, <2>2 DEF StackOK
  <2>5. RefsOK(conf, commits, tags, refs, remote, run')
    BY <1>4, <2>1, <2>3, <2>4 DEF RefsOK, RefOK
  <2> QED BY <1>1, <1>2, <2>1, <2>5, RunOld
<1> QED BY <1>1, <1>7, <1>8

\* The inner tag comes before every ref that waits for it: tags of tags that are as they were tagged end.
LEMMA InnerBelow ==
  ASSUME MigrateInv, OldInv, run.pc = "refs", run.stack # <<>>, NestedTag(Top), refs[InnerRef(Top)] # NoRef,
         NEW i \in 1..Len(run.stack), run.stack[i] \in OwnIn(conf)
  PROVE  Below(conf, InnerRef(Top), run.stack[i]) /\ run.stack[i] # InnerRef(Top)
<1> DEFINE st == run.stack
<1>1. st \in Seq(Local) /\ Len(st) \in Nat /\ Len(st) > 0 /\ Top = st[Len(st)]
  BY RunFacts DEF Top, Last
<1>2. i < Len(st) => Below(conf, Top, st[i])
  BY <1>1, MovingRefs DEF StackOK
<1> HIDE DEF st
<1>3. i = Len(st) \/ i < Len(st)
  BY <1>1 DEF st
<1>4. Top \in OwnIn(conf) /\ run.listed[Top] # NoRef
  BY <1>1, <1>2, <1>3, TopFacts DEF Below, st
<1>5. Below(conf, InnerRef(Top), Top)
  <2>1. /\ NestedIn(conf, Top) /\ InnerRef(Top) = InnerIn(conf, Top) /\ InnerRef(Top) \in OwnIn(conf)
        /\ conf.refs[InnerRef(Top)] # NoRef /\ Top \in TagRefs /\ conf \in Scenarios
    BY <1>4, InnerIsOwn DEF NestedTag, MigrateInv
  <2>2. /\ conf.refs[Top].n \in Nat /\ conf.refs[InnerIn(conf, Top)].n \in Nat
        /\ conf.refs[InnerIn(conf, Top)].n < conf.refs[Top].n
    BY <1>4, <2>1, OwnInner
  <2> QED BY <2>1, <2>2 DEF Below
<1>6. Below(conf, InnerRef(Top), st[i])
  BY <1>1, <1>2, <1>3, <1>5 DEF Below
<1> QED BY <1>6 DEF Below, st

\* The inner tag comes first.
LEMMA UpdateInnerTagOld ==
  ASSUME MigrateInv, MigrateInv', OldInv, UpdateInnerTag
  PROVE  OldInv'
<1> DEFINE r == InnerRef(Top)
           st == Append(run.stack, r)
<1>1. /\ UNCHANGED <<conf, commits, tags, refs, head, remote>>
      /\ run.pc = "refs" /\ run.stack # <<>> /\ NestedTag(Top)
      /\ \/ run' = NoRun
         \/ /\ refs[r] # NoRef /\ r \notin run.seen /\ ~BadTag(Top)
            /\ run' = [run EXCEPT !.stack = st, !.seen = @ \cup {r}, !.listed[r] = refs[r]]
  BY DEF UpdateInnerTag, gitVars
<1>2. run = [f \in RunFields |-> run[f]] /\ run # NoRun /\ run.stack \in Seq(Local)
  BY <1>1, RunFacts, RunIs
<1>3. CASE /\ refs[r] # NoRef /\ r \notin run.seen /\ ~BadTag(Top)
           /\ run' = [run EXCEPT !.stack = st, !.seen = @ \cup {r}, !.listed[r] = refs[r]]
  <2>1. r \in Local
    BY <1>1, <1>3, TopFacts, NestedFacts
  <2>2. /\ Len(run.stack) \in Nat /\ Len(st) = Len(run.stack) + 1 /\ st[Len(run.stack) + 1] = r
        /\ \A i \in 1..Len(run.stack) : st[i] = run.stack[i]
    <3> HIDE DEF r
    <3> QED BY <1>2, <2>1
  <2>3. \A i \in 1..Len(run.stack) : run.stack[i] \in OwnIn(conf) => Below(conf, r, run.stack[i])
    BY <1>1, <1>3, InnerBelow
  <2> HIDE DEF r, st
  <2>4. /\ run'.opt = run.opt /\ run'.todo = run.todo /\ run'.cache = run.cache
        /\ run'.pc = "refs" /\ run'.seen = run.seen \cup {r} /\ run'.stack = st /\ run'.list = run.list
        /\ run'.listed = [run.listed EXCEPT ![r] = refs[r]]
    BY <1>1, <1>2, <1>3 DEF RunFields
  <2>5. run'.listed[r] = refs[r] /\ \A s \in Local \ {r} : run'.listed[s] = run.listed[s]
    <3>1. DOMAIN run.listed = Local \cup Remotes
      BY <1>1, RunFacts DEF GitOK, IsRefs
    <3> QED BY <2>1, <2>4, <3>1
  <2>6. run.todo = {} /\ StackOK(conf, run)
    BY <1>1, MovingRefs
  <2>7. \A s : (\E i \in 1..Len(st) : s = st[i]) <=> s = r \/ \E i \in 1..Len(run.stack) : s = run.stack[i]
    <3>1. \A i \in 1..Len(st) : i \in 1..Len(run.stack) \/ i = Len(run.stack) + 1
      BY <2>2
    <3>2. \A i \in 1..Len(run.stack) : i \in 1..Len(st)
      BY <2>2
    <3>3. Len(run.stack) + 1 \in 1..Len(st)
      BY <2>2
    <3> QED BY <2>2, <3>1, <3>2, <3>3
  <2>8. StackOK(conf, run')
    <3>1. \A i \in 1..Len(st) : st[i] \in run'.seen
      BY <2>4, <2>6, <2>7 DEF StackOK
    <3>2. ASSUME NEW i \in 1..Len(st), NEW j \in 1..Len(st), i < j, st[i] \in OwnIn(conf)
          PROVE  Below(conf, st[j], st[i])
      <4>1. i \in 1..Len(run.stack) /\ (j \in 1..Len(run.stack) \/ j = Len(run.stack) + 1)
        BY <2>2, <3>2
      <4> QED BY <2>2, <2>3, <2>6, <3>2, <4>1 DEF StackOK
    <3> QED BY <2>4, <3>1, <3>2 DEF StackOK
  <2>9. ASSUME NEW s \in OwnIn(conf), refs[s] # NoRef PROVE RefOK(commits, tags, refs, remote, run', s)
    <3>1. /\ s \in Local /\ (s \in run.seen \/ \E i \in 1..Len(run.list) : s = run.list[i])
          /\ Waits(run, s) => AsListed(commits, refs, remote, run, s)
          /\ ~Waits(run, s) => Current(tags, refs, run.cache, s)
      BY <1>1, <2>9, MovingRef
    <3>2. CASE s = r
      BY <2>4, <2>5, <2>7, <3>2 DEF RefOK, Waits, AsListed
    <3>3. CASE s # r
      <4>1. Waits(run', s) <=> Waits(run, s)
        <5>1. (\E i \in 1..Len(st) : s = st[i]) <=> \E i \in 1..Len(run.stack) : s = run.stack[i]
          BY <2>7, <3>3
        <5>2. run'.stack = st /\ (s \in run'.seen <=> s \in run.seen)
          BY <2>4, <3>3
        <5> QED BY <5>1, <5>2 DEF Waits
      <4>2. AsListed(commits, refs, remote, run', s) <=> AsListed(commits, refs, remote, run, s)
        <5>1. run'.listed[s] = run.listed[s]
          BY <2>5, <3>3, OwnLocal
        <5> QED BY <2>4, <5>1 DEF AsListed
      <4> QED BY <2>4, <3>1, <4>1, <4>2 DEF RefOK
    <3> QED BY <3>2, <3>3
  <2>10. RefsOK(conf, commits, tags, refs, remote, run')
    BY <2>4, <2>6, <2>8, <2>9 DEF RefsOK, RefOK
  <2> QED BY <1>1, <1>2, <2>4, <2>10, RunOld
<1> QED BY <1>1, <1>3, RunOld

\* A ref that stays names nothing that was migrated when it was listed.
LEMMA StayedIsCurrent ==
  ASSUME MigrateInv, run.pc = "refs", NEW r \in Local, run.listed[r] # NoRef, ~NestedTag(r), NewObject(r) = NoRef
  PROVE  PeelOf(tags, run.listed[r]) \notin DOMAIN run.cache
<1> DEFINE v == run.listed[r]
<1>1. \A n \in Nat : CommitRef(n) # NoRef
  BY RefSets DEF CommitRef, Values
<1>2. \A c \in DOMAIN run.cache : run.cache[c] \in Nat
  BY RunFacts, ParentsBefore DEF CacheOK
<1>3. CASE IsCommit(v)
  <2>1. v.n \notin DOMAIN run.cache
    BY <1>1, <1>2, <1>3 DEF NewObject, InCache
  <2> QED BY <1>3, <2>1 DEF PeelOf
<1>4. CASE ~IsCommit(v)
  <2> DEFINE old == TagOf(r)
  <2>1. GitOK(commits, tags, run.listed) /\ r \in Local \cup Remotes
    BY RunFacts
  <2>2. v.n \in 1..Len(tags) /\ old = tags[v.n] /\ IsTags(tags, Len(commits)) /\ Len(commits) \in Nat /\ r \in TagRefs
    BY <1>4, <2>1, PeelOfRef DEF GitOK, TagOf
  <2>3. old.type # "tag"
    BY <1>4, <2>2 DEF NestedTag
  <2>4. IsCommit(old.obj)
    <3>1. ~IsCommit(tags[v.n].obj) => tags[v.n].type = "tag"
      <4> HIDE DEF v
      <4> QED BY <2>2, TagFacts
    <3> QED BY <2>2, <2>3, <3>1
  <2>5. old.obj.n \notin DOMAIN run.cache
    BY <1>1, <1>2, <1>4, <2>4 DEF NewObject, InCache
  <2>6. PeelIn(tags)[v.n] = old.obj.n
    BY <2>2, <2>4, PeelFacts
  <2> QED BY <1>4, <2>5, <2>6 DEF PeelOf
<1> QED BY <1>3, <1>4

\* updateOneRef: the ref is done with, by the cache or by its inner ref, which was done with before.
LEMMA UpdateOneRefOld ==
  ASSUME MigrateInv, MigrateInv', OldInv, UpdateOneRef
  PROVE  OldInv'
<1> DEFINE r == Top
           st == Front(run.stack)
           D(s) == PeelOf(tags', refs'[s])
           C(s) == PeelOf(tags, refs[s])
<1>0. /\ run.pc = "refs" /\ run.stack # <<>> /\ run' = [run EXCEPT !.stack = Front(@)]
      /\ NestedTag(r) => InnerRef(r) \in run.seen
      /\ UNCHANGED <<conf, commits, head, remote>>
  BY DEF UpdateOneRef
<1>1. run = [f \in RunFields |-> run[f]] /\ run # NoRun /\ run.stack \in Seq(Local)
  BY <1>0, RunFacts, RunIs
<1>2. /\ run'.opt = run.opt /\ run'.todo = run.todo /\ run'.cache = run.cache /\ run'.listed = run.listed
      /\ run'.pc = "refs" /\ run'.seen = run.seen /\ run'.stack = st /\ run'.list = run.list
  BY <1>0, <1>1 DEF RunFields
<1>3. /\ run.todo = {} /\ StackOK(conf, run) /\ GitOK(commits, tags, refs) /\ GitOK(commits, tags, run.listed)
      /\ \A s \in run.seen : s \in Local /\ refs[s] # NoRef
  BY <1>0, MovingRefs
<1>4. /\ Len(run.stack) \in Nat /\ Len(run.stack) > 0 /\ Len(st) = Len(run.stack) - 1 /\ r = run.stack[Len(run.stack)]
      /\ \A i \in 1..Len(st) : st[i] = run.stack[i]
  <2> DEFINE S == run.stack
  <2>1. S \in Seq(Local) /\ S # <<>> /\ Len(S) \in Nat /\ Len(S) > 0
    BY <1>0, <1>1
  <2> HIDE DEF S
  <2>2. Front(S) = [i \in 1..(Len(S) - 1) |-> S[i]]
    BY <2>1 DEF Front
  <2>3. Front(S) \in Seq(Local) /\ Len(Front(S)) = Len(S) - 1
    BY <2>1, <2>2
  <2> QED BY <2>1, <2>2, <2>3 DEF S, Top, Last
<1>5. /\ r \in Local /\ run.listed[r] # NoRef /\ refs[r] # NoRef
      /\ \A s \in (Local \cup Remotes) \ {r} : refs'[s] = refs[s] /\ (refs[s] # NoRef => D(s) = C(s))
      /\ NewObject(r) = NoRef => UNCHANGED <<tags, refs>>
      /\ NewObject(r) # NoRef =>
           \/ \E c \in DOMAIN run.cache : D(r) = run.cache[c]
           \/ NestedTag(r) /\ refs[InnerRef(r)] # NoRef /\ D(r) = C(InnerRef(r))
  <2>1. CASE NewObject(r) = NoRef
    BY <2>1, RefMoved
  <2>2. CASE NewObject(r) # NoRef
    BY <2>2, RefMoved, NewObjectIs
  <2> QED BY <2>1, <2>2
<1>6. /\ Len(run.stack) \in 1..Len(run.stack) /\ r \in run.seen
      /\ \A i \in 1..Len(st) : i \in 1..Len(run.stack) /\ i < Len(run.stack)
  BY <1>3, <1>4 DEF StackOK
<1>7. ASSUME r \in OwnIn(conf) PROVE \A i \in 1..Len(st) : st[i] # r
  <2> SUFFICES ASSUME NEW i \in 1..Len(st), st[i] = r PROVE FALSE
    OBVIOUS
  <2>1. Below(conf, run.stack[Len(run.stack)], run.stack[i])
    BY <1>3, <1>4, <1>6, <1>7 DEF StackOK
  <2> QED BY <1>4, <2>1 DEF Below
<1>8. ASSUME r \in OwnIn(conf), NestedTag(r)
      PROVE  Current(tags, refs, run.cache, InnerRef(r)) /\ refs[InnerRef(r)] # NoRef
  <2>1. InnerRef(r) \in run.seen /\ refs[InnerRef(r)] # NoRef
    BY <1>0, <1>3, <1>8
  <2>2. InnerRef(r) \in OwnIn(conf)
    BY <1>0, <1>5, <1>8, <2>1, InnerIsOwn
  <2>3. ~Waits(run, InnerRef(r))
    <3>1. \A i \in 1..Len(run.stack) : run.stack[i] \in OwnIn(conf) => run.stack[i] # InnerRef(r)
      BY <1>0, <1>8, <2>1, InnerBelow
    <3> HIDE DEF r
    <3> QED BY <2>1, <2>2, <3>1 DEF Waits
  <2> HIDE DEF r
  <2> QED BY <1>0, <2>1, <2>2, <2>3, MovingRef
<1>9. ASSUME r \in OwnIn(conf) PROVE Current(tags', refs', run.cache, r)
  <2>1. CASE NewObject(r) = NoRef
    <3>1. ~NestedTag(r)
      <4>1. NestedTag(r) => NewObject(r) = refs[InnerRef(r)]
        BY DEF NewObject, NestedTag
      <4> QED BY <1>8, <1>9, <2>1, <4>1
    <3>2. PeelOf(tags, run.listed[r]) \notin DOMAIN run.cache
      BY <1>0, <1>5, <2>1, <3>1, StayedIsCurrent
    <3>3. AsListed(commits, refs, remote, run, r)
      <4>1. Waits(run, r)
        BY <1>4, <1>6 DEF Waits
      <4> HIDE DEF r
      <4> QED BY <1>0, <1>5, <1>9, <4>1, MovingRef
    <3>4. C(r) \notin DOMAIN run.cache
      <4>1. CASE refs[r] = run.listed[r]
        BY <3>2, <4>1
      <4>2. CASE refs[r] # run.listed[r]
        <5>1. r \in Branches /\ refs[r].n \notin DOMAIN run.cache
          BY <3>3, <4>2 DEF AsListed
        <5>2. PeelOf(tags, refs[r]) = refs[r].n
          <6> HIDE DEF r
          <6> QED BY <1>3, <1>5, <5>1, BranchIsCommit
        <5> QED BY <5>1, <5>2
      <4> QED BY <4>1, <4>2
    <3> QED BY <1>5, <2>1, <3>4 DEF Current
  <2>2. CASE NewObject(r) # NoRef
    <3>1. CASE \E c \in DOMAIN run.cache : D(r) = run.cache[c]
      BY <3>1 DEF Current, Range
    <3>2. CASE NestedTag(r) /\ D(r) = C(InnerRef(r))
      BY <1>8, <1>9, <3>2 DEF Current
    <3> QED BY <1>5, <2>2, <3>1, <3>2
  <2> QED BY <2>1, <2>2
<1>10. /\ Extends(commits, commits) /\ RemoteOK(commits, remote)
       /\ \A s \in Remotes : refs'[s] = refs[s]
  BY <1>5, SameExtends, RefSets DEF MigrateInv
<1>11. PublishedIn(commits, refs', remote, run.opt) \cap (1..Len(commits)) \subseteq PublishedIn(commits, refs, remote, run.opt)
  BY <1>3, <1>10, PublishedSame
<1>12. \A s \in run.seen \ {r} : D(s) = C(s)
  BY <1>3, <1>5
<1> HIDE DEF r, st, C, D
<1>13. StackOK(conf, run')
  BY <1>2, <1>3, <1>4, <1>6 DEF StackOK
<1>14. RefOK(commits, tags', refs', remote, run', r) \/ r \notin OwnIn(conf)
  <2> SUFFICES ASSUME r \in OwnIn(conf) PROVE RefOK(commits, tags', refs', remote, run', r)
    OBVIOUS
  <2>1. ~Waits(run', r)
    BY <1>2, <1>6, <1>7 DEF Waits
  <2> QED BY <1>2, <1>6, <1>9, <2>1 DEF RefOK
<1>15. ASSUME NEW s \in OwnIn(conf), s # r, refs'[s] # NoRef PROVE RefOK(commits, tags', refs', remote, run', s)
  <2>1. s \in Local /\ refs'[s] = refs[s] /\ refs[s] # NoRef
    BY <1>5, <1>15, OwnLocal
  <2>2. /\ s \in run.seen \/ \E i \in 1..Len(run.list) : s = run.list[i]
        /\ Waits(run, s) => AsListed(commits, refs, remote, run, s)
        /\ ~Waits(run, s) => Current(tags, refs, run.cache, s)
    BY <1>0, <2>1, MovingRef
  <2>3. Waits(run', s) <=> Waits(run, s)
    <3>1. \A i \in 1..Len(run.stack) : i \in 1..Len(st) \/ i = Len(run.stack)
      BY <1>4
    <3>2. (\E i \in 1..Len(st) : s = st[i]) <=> \E i \in 1..Len(run.stack) : s = run.stack[i]
      BY <1>4, <1>6, <1>15, <3>1
    <3> QED BY <1>2, <3>2 DEF Waits
  <2>4. Waits(run, s) => AsListed(commits, refs', remote, run', s)
    BY <1>2, <1>3, <1>10, <1>11, <2>1, <2>2, WaitingStays
  <2>5. ~Waits(run, s) => Current(tags', refs', run.cache, s)
    <3>1. ~Waits(run, s) => s \in run.seen \ {r}
      BY <1>15 DEF Waits
    <3> QED BY <1>12, <2>2, <3>1 DEF Current, C, D
  <2> QED BY <1>2, <2>2, <2>3, <2>4, <2>5 DEF RefOK
<1>16. RefsOK(conf, commits, tags', refs', remote, run')
  <2>1. \A s \in OwnIn(conf) : RefOK(commits, tags', refs', remote, run', s)
    BY <1>14, <1>15 DEF RefOK
  <2> QED BY <1>2, <1>3, <1>13, <2>1 DEF RefsOK
<1>17. RefsOK(conf, commits', tags', refs', remote, run') /\ Extends(commits, commits') /\ UNCHANGED <<conf, head, remote>>
  BY <1>0, <1>10, <1>16
<1> QED BY <1>1, <1>2, <1>10, <1>17, OldStays

\* rewriteCommit: the new commit is on the new versions of the parents that are rewritten, and on the other
\* parents, which are below nothing that the migration takes.
LEMMA RewriteCommitOld ==
  ASSUME MigrateInv, MigrateInv', OldInv, RewriteCommit
  PROVE  OldInv'
<1>0. /\ UNCHANGED <<conf, tags, refs, head, remote>> /\ run.pc = "rewrite"
      /\ GitOK(commits, tags, refs) /\ RemoteOK(commits, remote) /\ RunOK(run, commits, tags, refs)
      /\ IsHistory(commits) /\ IsHistory(commits') /\ RewriteOK(commits, refs, remote, run)
  BY DEF RewriteCommit, MigrateInv, GitOK, OldInv
<1>1. CASE run' = NoRun /\ commits' = commits
  BY <1>0, <1>1, RunOld
<1>2. CASE run' # NoRun \/ commits' # commits
  <2>1. PICK c \in run.todo : \E n \in 1..Len(commits') :
           /\ c \in 1..Len(commits) /\ Extends(commits, commits')
           /\ commits'[n].parents = MapParents(commits[c].parents)
           /\ Range(commits[c].parents) \cap run.todo = {}
           /\ run # NoRun /\ run'.opt = run.opt /\ run'.todo = run.todo \ {c} /\ run'.cache = CacheCommit(c, n)
           /\ run'.pc = run.pc
    BY <1>2, RewriteFacts
  <2>2. PICK n \in 1..Len(commits') :
           /\ c \in 1..Len(commits) /\ Extends(commits, commits')
           /\ commits'[n].parents = MapParents(commits[c].parents)
           /\ Range(commits[c].parents) \cap run.todo = {}
           /\ run # NoRun /\ run'.opt = run.opt /\ run'.todo = run.todo \ {c} /\ run'.cache = CacheCommit(c, n)
           /\ run'.pc = run.pc
    BY <2>1
  <2>3. run'.pc = "rewrite" /\ run' # NoRun
    BY <1>0, <2>2 DEF NoRun
  <2>4. RefsOK(conf, commits', tags, refs, remote, run')
    BY <2>3 DEF RefsOK
  <2> DEFINE K == DOMAIN run.cache
             T == Taken(run)
             A(d) == AncestorsIn(commits')[d]
             P == PublishedIn(commits', refs, remote, run.opt)
             ps == commits[c].parents
  <2>5. RewriteOK(commits', refs, remote, run)
    <3>1. PublishedIn(commits', refs, remote, run.opt) \cap (1..Len(commits)) \subseteq PublishedIn(commits, refs, remote, run.opt)
      BY <1>0, <2>2, PublishedSame
    <3> QED BY <1>0, <2>2, <3>1, RewriteStays
  <2>6. /\ run.todo \cap K = {} /\ Apart(commits', T) /\ Renewed(commits', run) /\ PublishedLeft(commits', refs, remote, run)
    BY <2>2, <2>5 DEF RewriteOK
  <2>7. /\ DOMAIN run'.cache = K \cup {c} /\ run'.cache[c] = n /\ c \notin K /\ \A d \in K : run'.cache[d] = run.cache[d]
        /\ Taken(run') = T
    BY <2>2, <2>6 DEF CacheCommit, Taken
  <2>8. /\ Len(commits) \in Nat /\ c \in 1..Len(commits') /\ commits'[c] = commits[c]
        /\ ps \in Seq(1..(c - 1)) /\ Len(ps) \in Nat /\ DOMAIN ps = 1..Len(ps)
    <3>1. Sound(commits, c)
      BY <1>0, <2>2 DEF IsHistory
    <3> QED BY <1>0, <2>2, <3>1, ParentsBefore DEF Extends, Sound
  <2> HIDE DEF ps, A, P
  <2>9. A(c) = {c} \cup UNION {A(p) : p \in Range(ps)}
    BY <1>0, <2>8, AncestorFacts DEF A, ps
  <2>10. A(n) = {n} \cup UNION {A(p) : p \in Range(commits'[n].parents)}
    BY <1>0, AncestorFacts DEF A
  <2>11. \A p \in Range(ps) : (IF p \in K THEN run.cache[p] ELSE p) \in Range(commits'[n].parents)
    <3>1. commits'[n].parents = [i \in 1..Len(ps) |-> IF ps[i] \in K THEN run.cache[ps[i]] ELSE ps[i]]
      BY <2>2 DEF ps, MapParents
    <3> HIDE DEF K
    <3> QED BY <2>8, <3>1 DEF Range
  <2>12. \A m \in Range(commits'[n].parents) : \E p \in Range(ps) : m = IF p \in K THEN run.cache[p] ELSE p
    <3>1. commits'[n].parents = [i \in 1..Len(ps) |-> IF ps[i] \in K THEN run.cache[ps[i]] ELSE ps[i]]
      BY <2>2 DEF ps, MapParents
    <3> HIDE DEF K
    <3> QED BY <2>8, <3>1 DEF Range
  <2>13. PublishedLeft(commits', refs, remote, run')
    <3> SUFFICES ASSUME Unpublished(run.opt)
                 PROVE  /\ run'.todo \cap P = {}
                        /\ \A d \in DOMAIN run'.cache : A(d) \cap P \subseteq A(run'.cache[d])
      BY <2>2 DEF PublishedLeft, P, A
    <3>1. run.todo \cap P = {} /\ \A d \in K : A(d) \cap P \subseteq A(run.cache[d])
      BY <2>6 DEF PublishedLeft, P, A
    <3>2. A(c) \cap P \subseteq A(n)
      <4> SUFFICES ASSUME NEW d \in A(c), d \in P PROVE d \in A(n)
        OBVIOUS
      <4>1. d # c
        BY <3>1
      <4>2. PICK p \in Range(ps) : d \in A(p)
        BY <2>9, <4>1
      <4>3. d \in A(IF p \in K THEN run.cache[p] ELSE p)
        BY <3>1, <4>2
      <4> HIDE DEF K
      <4> QED BY <2>10, <2>11, <4>3
    <3> QED BY <2>2, <2>7, <3>1, <3>2
  <2>14. Renewed(commits', run')
    <3> SUFFICES ASSUME Single(commits', T), NEW e \in DOMAIN run'.cache, NEW d \in A(run'.cache[e]), d \in T
                 PROVE  d \in DOMAIN run'.cache /\ run'.cache[d] = d
      BY <2>7 DEF Renewed, A
    <3>1. \A f \in K : \A g \in A(run.cache[f]) \cap T : g \in K /\ run.cache[g] = g
      BY <2>6 DEF Renewed, A
    <3>2. CASE e \in K
      BY <2>7, <3>1, <3>2
    <3>3. CASE e = c
      <4>1. d \in A(n)
        BY <2>7, <3>3
      <4>2. CASE d = n
        <5>1. commits'[n].made = commits'[c].made
          <6>1. CacheOK(commits', run'.cache)
            BY <2>3 DEF MigrateInv, RunOK
          <6> QED BY <2>7, <6>1 DEF CacheOK
        <5>2. c \in T
          BY DEF Taken
        <5>3. d = c
          BY <4>2, <5>1, <5>2 DEF Single
        <5> QED BY <2>7, <4>2, <5>3
      <4>3. CASE d # n
        <5>1. PICK m \in Range(commits'[n].parents) : d \in A(m)
          BY <2>10, <4>1, <4>3
        <5>2. PICK p \in Range(ps) : m = IF p \in K THEN run.cache[p] ELSE p
          BY <2>12
        <5>3. CASE p \in K
          BY <2>7, <3>1, <5>1, <5>2, <5>3
        <5>4. CASE p \notin K
          <6>1. p \notin T
            BY <2>2, <5>2, <5>4 DEF Taken, ps
          <6>2. c \in T /\ p \in Range(commits'[c].parents) \ T
            BY <2>8, <5>2, <6>1 DEF Taken, ps
          <6>3. A(p) \cap T = {}
            BY <2>6, <6>2 DEF Apart, A
          <6> QED BY <5>1, <5>2, <5>4, <6>3
        <5> QED BY <5>3, <5>4
      <4> QED BY <4>2, <4>3
    <3> QED BY <2>7, <3>2, <3>3
  <2>15. RewriteOK(commits', refs, remote, run')
    BY <2>2, <2>6, <2>7, <2>13, <2>14 DEF RewriteOK
  <2> QED BY <1>0, <2>4, <2>15 DEF OldInv, Followed
<1> QED BY <1>1, <1>2

\* What is excluded has the published commits: every branch of the remote is fetched, or refs/remotes is
\* taken as it is.
LEMMA ExcludedPublished ==
  ASSUME MigrateInv, OldInv, NEW opt, Unpublished(opt)
  PROVE  PublishedIn(commits, Fetch(opt), remote, opt) \subseteq ReachIn(Fetch(opt), ExcludeRefs(opt))
<1> DEFINE F == Fetch(opt)
           E == ExcludeRefs(opt)
<1>0. /\ GitOK(commits, tags, refs) /\ GitOK(commits, tags, F) /\ DOMAIN refs = Local \cup Remotes
      /\ \A b \in DOMAIN remote : remote[b] \in Nat
  BY FetchMoves, ParentsBefore DEF MigrateInv, GitOK, IsRefs, RemoteOK
<1>1. E = {r \in Remotes : IF opt.skipFetch THEN refs[r] # NoRef ELSE conf.follows[r] \in DOMAIN remote}
  BY DEF ExcludeRefs, GetRemoteRefs
<1>2. ASSUME NEW r \in E, F[r] # NoRef
      PROVE  AncestorsIn(commits)[PeelOf(tags, F[r])] \subseteq ReachIn(F, E)
  <2> HIDE DEF E, F
  <2> QED BY <1>2, PeelIs, AncestorsAre DEF ReachIn
<1>3. CASE opt.skipFetch
  <2>1. \A r \in Remotes : F[r] = refs[r]
    BY <1>0, <1>3 DEF Fetch
  <2>2. \A r \in Remotes : F[r] # NoRef => r \in E /\ PeelOf(tags, F[r]) = F[r].n
    BY <1>0, <1>1, <1>3, <2>1, BranchIsCommit
  <2> HIDE DEF E, F
  <2> QED BY <1>2, <1>3, <2>2 DEF PublishedIn, F, E
<1>4. CASE ~opt.skipFetch
  <2>1. ASSUME NEW b \in DOMAIN remote
        PROVE  \E r \in E : F[r] # NoRef /\ PeelOf(tags, F[r]) = remote[b]
    <3>1. b \in (DOMAIN conf.remote) \cup {conf.head}
      BY DEF OldInv, Followed
    <3>2. PICK r \in Remotes : conf.follows[r] = b
      BY <3>1, MigrateAssumption DEF MigrateInv
    <3>3. r \in E /\ F[r] = CommitRef(remote[b])
      BY <1>0, <1>1, <1>4, <3>2 DEF Fetch
    <3>4. CommitRef(remote[b]) # NoRef /\ PeelOf(tags, CommitRef(remote[b])) = remote[b]
      BY <1>0, RefSets DEF CommitRef, Values, PeelOf, IsCommit
    <3> HIDE DEF E, F
    <3> QED BY <3>3, <3>4
  <2> HIDE DEF E, F
  <2>2. \A b \in DOMAIN remote : AncestorsIn(commits)[remote[b]] \subseteq ReachIn(F, E)
    BY <1>2, <2>1
  <2> QED BY <1>4, <2>2 DEF PublishedIn, E, F
<1> QED BY <1>3, <1>4

\* The start: the commits to migrate are what is included and not excluded.
LEMMA StartMigrateOld ==
  ASSUME MigrateInv, MigrateInv', OldInv, StartMigrate
  PROVE  OldInv'
<1>1. PICK opt \in conf.options :
        run' = run \/ (refs' = Fetch(opt) /\ run' = NewRun(opt, Fetch(opt)))
  BY DEF StartMigrate
<1>2. UNCHANGED <<conf, commits, tags, head, remote>> /\ run = NoRun
  BY DEF StartMigrate, Running, MigrateInv, RunOK
<1>3. CASE run' = NoRun
  BY <1>2, <1>3 DEF OldInv, Followed, RewriteOK, RefsOK
<1>4. CASE run' # NoRun
  <2> DEFINE F == Fetch(opt)
             q == NewRun(opt, F)
             I == IncludeRefs(opt)
             E == ExcludeRefs(opt)
             T == ReachIn(F, I) \ ReachIn(F, E)
  <2>1. /\ refs' = F /\ run' = q
        /\ q.opt = opt /\ q.todo = T /\ q.cache = <<>> /\ q.pc # "refs"
    BY <1>1, <1>2, <1>4 DEF NewRun, CommitsToMigrate
  <2>2. GitOK(commits, tags, F) /\ IsHistory(commits)
    BY FetchMoves DEF GitOK
  <2>3. I \subseteq Local \cup Remotes /\ E \subseteq Local \cup Remotes
    <3>1. DOMAIN conf.refs = Local \cup Remotes /\ opt.excludeRefs \subseteq DOMAIN conf.refs
      BY MigrateAssumption DEF MigrateInv, GoodRefs, Local
    <3> QED BY <3>1, IncludedRefs DEF ExcludeRefs, GetRemoteRefs
  <2> HIDE DEF F, I, E
  <2>4. \A r \in Local \cup Remotes : F[r] # NoRef =>
          /\ Peel(F[r]) \in 1..Len(commits) /\ Ancestors[Peel(F[r])] = AncestorsIn(commits)[Peel(F[r])]
    BY <2>2, PeelOfRef, PeelIs, AncestorsAre
  <2>5. Apart(commits, T)
    <3> SUFFICES ASSUME NEW c \in T, NEW p \in Range(commits[c].parents), p \notin T
                 PROVE  AncestorsIn(commits)[p] \subseteq ReachIn(F, E)
      BY DEF Apart
    <3>1. PICK i \in I : F[i] # NoRef /\ c \in Ancestors[Peel(F[i])]
      BY DEF ReachIn
    <3>2. p \in Ancestors[Peel(F[i])]
      BY <2>2, <2>3, <2>4, <3>1, AncestorFacts
    <3>3. p \in ReachIn(F, E)
      BY <3>1, <3>2 DEF ReachIn
    <3>4. PICK e \in E : F[e] # NoRef /\ p \in Ancestors[Peel(F[e])]
      BY <3>3 DEF ReachIn
    <3>5. AncestorsIn(commits)[p] \subseteq Ancestors[Peel(F[e])]
      BY <2>2, <2>3, <2>4, <3>4, AncestorsNest
    <3> QED BY <3>4, <3>5 DEF ReachIn
  <2>6. Unpublished(opt) => T \cap PublishedIn(commits, F, remote, opt) = {}
    BY ExcludedPublished DEF F, E
  <2> HIDE DEF T, q
  <2>7. RewriteOK(commits, F, remote, q)
    <3>1. DOMAIN q.cache = {} /\ Taken(q) = T
      BY <2>1 DEF Taken
    <3> QED BY <2>1, <2>5, <2>6, <3>1 DEF RewriteOK, PublishedLeft, Renewed
  <2>8. RefsOK(conf, commits, tags, F, remote, q)
    BY <2>1 DEF RefsOK
  <2> QED BY <1>2, <2>1, <2>7, <2>8 DEF OldInv, Followed
<1> QED BY <1>3, <1>4

\* The scenarios.
LEMMA InitOld ==
  ASSUME Init
  PROVE  OldInv
BY DEF Init, OldInv, Followed, RewriteOK, RefsOK

\* Every step keeps the invariant.
LEMMA StepOld ==
  ASSUME MigrateInv, MigrateInv', OldInv, [Next]_vars
  PROVE  OldInv'
<1>1. CASE UNCHANGED vars
  BY <1>1 DEF vars, gitVars, OldInv, Followed
<1>2. CASE UserNext
  BY <1>2, CommitOld, GitPushOld, RemoteCommitOld, SetupOld, KillOld DEF UserNext
<1>3. CASE MigrateNext
  BY <1>3, StartMigrateOld, DownloadOld, RewriteCommitOld, EndRewriteOld, NextRefOld,
     UpdateInnerTagOld, UpdateOneRefOld, EndMigrateOld, ImportNoRewriteOld DEF MigrateNext
<1> QED BY <1>1, <1>2, <1>3 DEF Next

\* The invariant gives the property.
LEMMA OldIsLeft ==
  ASSUME MigrateInv, OldInv
  PROVE  NoOldHistoryLeft
<1> SUFFICES ASSUME run.pc = "refs", run.list = <<>>, run.stack = <<>>,
                    \A c, d \in DOMAIN run.cache : commits[c].made = commits[d].made => c = d,
                    NEW r \in OwnIn(conf), refs[r] # NoRef, Peel(refs[r]) \in (DOMAIN run.cache) \cup Range(run.cache),
                    NEW d \in Ancestors[Peel(refs[r])] \cap DOMAIN run.cache
             PROVE  run.cache[d] = d
  BY OwnIs DEF NoOldHistoryLeft
<1>1. run # NoRun
  BY RunIs
<1>2. Current(tags, refs, run.cache, r) /\ run.todo = {}
  <2>1. ~ \E i \in 1..Len(run.list) : TRUE
    OBVIOUS
  <2>2. ~Waits(run, r)
    BY <2>1, MovingRef DEF Waits
  <2> QED BY <2>2, MovingRefs, MovingRef
<1>3. Peel(refs[r]) \in Range(run.cache)
  BY <1>2, PeelIs DEF Current
<1>4. PICK c \in DOMAIN run.cache : Peel(refs[r]) = run.cache[c]
  BY <1>3 DEF Range
<1>5. Taken(run) = DOMAIN run.cache /\ Renewed(commits, run)
  BY <1>1, <1>2 DEF Taken, OldInv, RewriteOK
<1>6. Single(commits, Taken(run))
  BY <1>5 DEF Single
<1> QED BY <1>4, <1>5, <1>6, AncestorsAre DEF Renewed

\* The invariant gives the property of every step.
LEMMA PublishedStep ==
  ASSUME MigrateInv, MigrateInv', OldInv, [Next]_vars, run.pc = "refs", Unpublished(run.opt),
         NEW r \in Branches, refs'[r] # refs[r]
  PROVE  LET published == IF run.opt.skipFetch THEN Reach(Remotes) ELSE OnRemote
         IN Ancestors[Peel(refs[r])] \cap published \subseteq (Ancestors[Peel(refs[r])])'
<1> DEFINE P == PublishedIn(commits, refs, remote, run.opt)
           C == refs[r].n
           A(c) == AncestorsIn(commits)[c]
<1>1. Commit \/ UpdateOneRef
  <2>1. CASE UNCHANGED vars
    BY <2>1 DEF vars, gitVars
  <2>2. CASE UserNext
    <3>1. r \notin Remotes /\ r \in DOMAIN refs
      BY RefSets DEF MigrateInv, GitOK, IsRefs
    <3> QED BY <2>2, <3>1 DEF UserNext, GitPush, RemoteCommit, SetupCommand, Kill, gitVars, Running
  <2>3. CASE MigrateNext
    BY <2>3 DEF MigrateNext, StartMigrate, Download, RewriteCommit, EndRewrite, NextRef, UpdateInnerTag,
         EndMigrate, ImportNoRewrite, gitVars, Running
  <2> QED BY <2>1, <2>2, <2>3 DEF Next
<1>2. /\ r \in Local /\ r \notin TagRefs /\ ~NestedTag(r) /\ r \in Local \cup Remotes /\ r \in OwnIn(conf)
      /\ GitOK(commits, tags, refs) /\ IsHistory(commits)
  BY RefSets, OwnLocal DEF NestedTag, MigrateInv, GitOK
<1>3. refs[r] # NoRef
  <2>1. CASE Commit
    <3>1. refs' = [refs EXCEPT ![head] = CommitRef(Len(commits) + 1)]
      BY <2>1 DEF Commit
    <3> QED BY <3>1, HeadFacts
  <2>2. CASE UpdateOneRef
    BY <1>2, <2>2, RefMoved
  <2> QED BY <1>1, <2>1, <2>2
<1>4. C \in 1..Len(commits) /\ PeelOf(tags, refs[r]) = C
  BY <1>2, <1>3, BranchIsCommit
<1>5. A(C) \cap P \subseteq AncestorsIn(commits')[PeelOf(tags', refs'[r])]
  <2>1. CASE Commit
    <3>1. PICK oids \in conf.edits :
            /\ commits' = Append(commits, NewOnTop(Staged(oids), wattrs))
            /\ refs' = [refs EXCEPT ![head] = CommitRef(Len(commits) + 1)]
      BY <2>1 DEF Commit, NewOnTop
    <3> DEFINE n == Len(commits) + 1
    <3>2. /\ Extends(commits, commits') /\ Len(commits) \in Nat /\ Len(commits') = n
          /\ commits'[n] = NewOnTop(Staged(oids), wattrs) /\ IsHistory(commits')
      BY <3>1, StagedFiles, OnTopExtends DEF Extends
    <3>3. r = head /\ refs'[r] = CommitRef(n)
      <4>1. r \in DOMAIN refs
        BY <1>2 DEF GitOK, IsRefs
      <4> QED BY <3>1, <4>1
    <3>4. PeelOf(tags', refs'[r]) = n
      BY <3>3 DEF CommitRef, PeelOf, IsCommit
    <3>5. commits'[n].parents = <<C>>
      BY <1>4, <3>2, <3>3, PeelIs DEF NewOnTop
    <3>6. Range(commits'[n].parents) = {C} /\ n \in 1..Len(commits')
      BY <3>2, <3>5 DEF Range
    <3>7. AncestorsIn(commits')[n] = {n} \cup UNION {AncestorsIn(commits')[p] : p \in Range(commits'[n].parents)}
      <4> HIDE DEF n, C
      <4> QED BY ONLY <3>2, <3>6, AncestorFacts
    <3>8. \A c \in 1..Len(commits) : AncestorsIn(commits')[c] = AncestorsIn(commits)[c]
      BY <1>2, <3>2, AncestorsStay DEF Extends
    <3> HIDE DEF n, C, P
    <3> QED BY <1>4, <3>4, <3>6, <3>7, <3>8
  <2>2. CASE UpdateOneRef
    <3>1. r = Top /\ run # NoRun /\ commits' = commits /\ run.stack # <<>> /\ run.listed[Top] # NoRef
      BY <1>2, <2>2, RefMoved, RunIs DEF UpdateOneRef
    <3>2. NewObject(Top) # NoRef
      BY <2>2, RefMoved
    <3> DEFINE E == run.listed[r].n
    <3>3. E \in 1..Len(commits) /\ PeelOf(tags, run.listed[r]) = E
      BY <3>1, RunFacts, BranchIsCommit
    <3>4. E \in DOMAIN run.cache /\ PeelOf(tags', refs'[r]) = run.cache[E]
      BY <1>2, <2>2, <3>1, <3>2, <3>3, RefMoved, NewObjectIs
    <3>5. A(E) \cap P \subseteq A(run.cache[E])
      BY <3>1, <3>4 DEF OldInv, RewriteOK, PublishedLeft
    <3>6. AsListed(commits, refs, remote, run, r)
      <4>1. run.stack \in Seq(Local) /\ Len(run.stack) \in 1..Len(run.stack) /\ Top = run.stack[Len(run.stack)]
        BY <3>1, RunFacts DEF Top, Last
      <4>2. Waits(run, r)
        BY <3>1, <4>1 DEF Waits
      <4> QED BY <1>2, <1>3, <4>2, MovingRef
    <3>7. A(C) \cap P \subseteq A(E)
      BY <3>6 DEF AsListed
    <3> HIDE DEF A, C, E, P
    <3>8. A(C) \cap P \subseteq A(run.cache[E])
      BY <3>5, <3>7
    <3> QED BY <3>1, <3>4, <3>8 DEF A
  <2> QED BY <1>1, <2>1, <2>2
<1>6. Ancestors[Peel(refs[r])] = A(C)
  BY <1>4, PeelIs, AncestorsAre
<1>7. (Ancestors[Peel(refs[r])])' = AncestorsIn(commits')[PeelOf(tags', refs'[r])]
  <2>1. (Peel(refs[r]))' = PeelOf(tags', refs'[r])
    BY PeelTagIsPrimed DEF Peel, PeelOf
  <2> QED BY <2>1, AncestorsArePrimed
<1>8. (IF run.opt.skipFetch THEN Reach(Remotes) ELSE OnRemote) = P
  <2>1. Reach(Remotes) = UNION {AncestorsIn(commits)[refs[s].n] : s \in {t \in Remotes : refs[t] # NoRef}}
    <3>1. \A s \in Remotes : refs[s] # NoRef => Ancestors[Peel(refs[s])] = AncestorsIn(commits)[refs[s].n]
      BY BranchIsCommit, PeelIs, AncestorsAre DEF MigrateInv
    <3> QED BY <3>1 DEF Reach, ReachIn
  <2>2. OnRemote = UNION {AncestorsIn(commits)[remote[b]] : b \in DOMAIN remote}
    BY AncestorsAre DEF OnRemote
  <2> QED BY <2>1, <2>2 DEF PublishedIn
<1> HIDE DEF P, C, A
<1> QED BY <1>5, <1>6, <1>7, <1>8

\* After refUpdater has been through all refs, no ref that names a migrated commit reaches an old version:
\* branches, annotated tags and tags of tags, in any order of their names, all moved.  A tag of a tag whose
\* inner tag's ref was moved by git tag -f is excepted.
THEOREM OldHistoryGone == Spec => []NoOldHistoryLeft
<1>1. Init => MigrateInv /\ OldInv
  BY InitHolds, InitOld
<1>2. MigrateInv /\ OldInv /\ [Next]_vars => MigrateInv' /\ OldInv'
  BY StepKeeps, StepOld
<1>3. MigrateInv /\ OldInv => NoOldHistoryLeft
  BY OldIsLeft
<1> QED BY <1>1, <1>2, <1>3, PTL DEF Spec

\* A migration without --everything and refs of its own moves a branch only to commits that keep what it
\* shared with the remote, also when the remote moves on and the user commits meanwhile.
THEOREM PublishedStays == Spec => PublishedKept
<1> DEFINE Moves ==
      run.pc = "refs" /\ Unpublished(run.opt) =>
        LET published == IF run.opt.skipFetch THEN Reach(Remotes) ELSE OnRemote
        IN \A r \in Branches : refs'[r] # refs[r] =>
             Ancestors[Peel(refs[r])] \cap published \subseteq (Ancestors[Peel(refs[r])])'
<1>1. Init => MigrateInv /\ OldInv
  BY InitHolds, InitOld
<1>2. MigrateInv /\ OldInv /\ [Next]_vars => MigrateInv' /\ OldInv'
  BY StepKeeps, StepOld
<1>3. MigrateInv /\ OldInv /\ [Next]_vars => Moves
  BY StepKeeps, PublishedStep
<1> QED BY <1>1, <1>2, <1>3, PTL DEF Spec, PublishedKept
=============================================================================
