------------------------------ MODULE KVStore ------------------------------
(***************************************************************************)
(* The key/value store of tools/kv/keyvaluestore.go: several processes,    *)
(* each with its own copy of the database and a log of unsaved changes,    *)
(* share one file.  Save peeks at the version in the file, merges if it is *)
(* not the version held, truncates the file and writes version and         *)
(* database one after the other; nothing locks the file.                   *)
(***************************************************************************)
EXTENDS Integers, Sequences, FiniteSets, Functions

CONSTANTS
  Procs,       \* processes
  Keys, Values,
  MaxChanges   \* bound: changes that each process makes

nil == "nil"   \* no value

ASSUME KVAssumption == MaxChanges \in [Procs -> Nat] /\ nil \notin Values /\ Keys # {} /\ IsFiniteSet(Keys)

VARIABLES
  pc,       \* what each process is doing
  db,       \* k.db
  log,      \* k.log: the unsaved changes, in order
  version,  \* k.version
  changes,  \* changes made so far by each process
  disk,     \* what the file holds: a version and a database, each possibly missing
  \* ---- history
  base,     \* the database each process last loaded or saved
  saved,    \* what the finished saves would leave one after the other
  suspect,  \* processes that had the store open while saves overlapped, and have not loaded it since
  torn      \* a process has died within Save

kvVars == <<pc, db, log, version, changes, disk, base, saved, suspect, torn>>

Databases == [Keys -> Values \cup {nil}]
EmptyDb   == [k \in Keys |-> nil]
NoData    == [v |-> 0, d |-> <<>>]

IsEmpty(f) == f = NoData
\* gob can decode the version, and then the database.
Readable(f) == f.v # 0 /\ f.d # <<>>

PcStates == {"none", "open", "peeked", "truncated", "half"}

KVInit ==
  /\ pc = [p \in Procs |-> "none"]
  /\ db = [p \in Procs |-> EmptyDb] /\ base = [p \in Procs |-> EmptyDb]
  /\ log = [p \in Procs |-> <<>>]
  /\ version = [p \in Procs |-> 0] /\ changes = [p \in Procs |-> 0]
  /\ disk = NoData /\ saved = EmptyDb /\ suspect = {} /\ torn = FALSE

\* Replays the changes in l onto d.
ApplyLog(l, d) ==
  [k \in Keys |->
     LET is == {i \in 1..Len(l) : l[i].key = k} IN
     IF is = {} THEN d[k] ELSE l[CHOOSE i \in is : \A j \in is : j <= i].value]

Saving(p) == pc[p] \in {"peeked", "truncated", "half"}

\* The version in the file is not the one held.
Loads(p) == Readable(disk) /\ disk.v # version[p]

\* Mutant: the database of the file replaces the unsaved changes.
MergeForgetsLog(p) ==
  IF Loads(p)
  THEN /\ db' = [db EXCEPT ![p] = disk.d]
       /\ base' = [base EXCEPT ![p] = disk.d]
       /\ version' = [version EXCEPT ![p] = disk.v]
  ELSE UNCHANGED <<db, base, version>>

\* Mutant: a difference of one version is overlooked.
MergeIfNewer(p) ==
  IF Readable(disk) /\ disk.v > version[p] + 1
  THEN /\ db' = [db EXCEPT ![p] = ApplyLog(log[p], disk.d)]
       /\ base' = [base EXCEPT ![p] = disk.d]
       /\ version' = [version EXCEPT ![p] = disk.v]
  ELSE UNCHANGED <<db, base, version>>

\* loadAndMergeReaderIfNeeded on a file that can be read.
LoadAndMerge(p) ==
  IF Loads(p)
  THEN /\ db' = [db EXCEPT ![p] = ApplyLog(log[p], disk.d)]
       /\ base' = [base EXCEPT ![p] = disk.d]
       /\ version' = [version EXCEPT ![p] = disk.v]
  ELSE UNCHANGED <<db, base, version>>

\* NewStore.  A file that is missing or empty is fine, one that cannot be
\* decoded is an error, and the process goes without a store.
NewStore(p) ==
  /\ pc[p] = "none"
  /\ IsEmpty(disk) \/ Readable(disk)
  /\ LoadAndMerge(p)
  /\ pc' = [pc EXCEPT ![p] = "open"]
  /\ suspect' = IF \E q \in suspect : Saving(q) THEN suspect \cup {p} ELSE suspect
  /\ UNCHANGED <<log, changes, disk, saved, torn>>

\* Set and Remove (a change to nil).
Change(p, k, v) ==
  /\ pc[p] = "open" /\ changes[p] < MaxChanges[p]
  /\ db' = [db EXCEPT ![p][k] = v]
  /\ log' = [log EXCEPT ![p] = Append(@, [key |-> k, value |-> v])]
  /\ changes' = [changes EXCEPT ![p] = @ + 1]
  /\ UNCHANGED <<pc, version, disk, base, saved, suspect, torn>>

\* The removals that RemoveAll logs, in any order: only keys of the own copy.
Removals(p) ==
  LET held == {k \in Keys : db[p][k] # nil} IN
  {[i \in DOMAIN f |-> [key |-> f[i], value |-> nil]] :
     f \in {g \in [1..Cardinality(held) -> held] : IsInjective(g) /\ {g[i] : i \in DOMAIN g} = held}}

RemoveAll(p) ==
  /\ pc[p] = "open" /\ changes[p] < MaxChanges[p]
  /\ \E r \in Removals(p) : log' = [log EXCEPT ![p] = @ \o r]
  /\ db' = [db EXCEPT ![p] = EmptyDb]
  /\ changes' = [changes EXCEPT ![p] = MaxChanges[p]]
  /\ UNCHANGED <<pc, version, disk, base, saved, suspect, torn>>

\* Save: open, look at the size and merge.  An error of the merge is ignored.
Peek(p) ==
  /\ pc[p] = "open" /\ log[p] # <<>>
  /\ LoadAndMerge(p)
  /\ suspect' = IF \E q \in Procs : Saving(q) THEN {q \in Procs : pc[q] # "none"}
                ELSE IF Loads(p) THEN suspect \ {p} ELSE suspect
  /\ pc' = [pc EXCEPT ![p] = IF IsEmpty(disk) THEN "truncated" ELSE "peeked"]
  /\ UNCHANGED <<log, changes, disk, saved, torn>>

Truncate(p) ==
  /\ pc[p] = "peeked"
  /\ disk' = NoData
  /\ pc' = [pc EXCEPT ![p] = "truncated"]
  /\ UNCHANGED <<db, log, version, changes, base, saved, suspect, torn>>

\* Mutant: the version is not incremented.
WriteSameVersion(p) ==
  /\ pc[p] = "truncated"
  /\ version' = [version EXCEPT ![p] = IF @ = 0 THEN 1 ELSE @]
  /\ disk' = [disk EXCEPT !.v = version'[p]]
  /\ pc' = [pc EXCEPT ![p] = "half"]
  /\ UNCHANGED <<db, log, changes, base, saved, suspect, torn>>

WriteVersion(p) ==
  /\ pc[p] = "truncated"
  /\ version' = [version EXCEPT ![p] = @ + 1]
  /\ disk' = [disk EXCEPT !.v = version'[p]]
  /\ pc' = [pc EXCEPT ![p] = "half"]
  /\ UNCHANGED <<db, log, changes, base, saved, suspect, torn>>

WriteData(p) ==
  /\ pc[p] = "half"
  /\ disk' = [disk EXCEPT !.d = db[p]]
  /\ base' = [base EXCEPT ![p] = db[p]]
  /\ saved' = IF p \in suspect THEN db[p] ELSE ApplyLog(log[p], saved)
  /\ log' = [log EXCEPT ![p] = <<>>]
  /\ pc' = [pc EXCEPT ![p] = "open"]
  /\ UNCHANGED <<db, version, changes, suspect, torn>>

\* The process ends or is killed, also within Save; what it had not written is
\* gone.  The bound on changes counts what the next process makes, too.
Crash(p) ==
  /\ pc[p] # "none"
  /\ pc' = [pc EXCEPT ![p] = "none"]
  /\ db' = [db EXCEPT ![p] = EmptyDb] /\ base' = [base EXCEPT ![p] = EmptyDb]
  /\ log' = [log EXCEPT ![p] = <<>>] /\ version' = [version EXCEPT ![p] = 0]
  /\ torn' = (torn \/ Saving(p)) /\ suspect' = suspect \ {p}
  /\ UNCHANGED <<changes, disk, saved>>

Save(p) == Peek(p) \/ Truncate(p) \/ WriteVersion(p) \/ WriteData(p)

KVNext == \E p \in Procs :
          \/ NewStore(p)
          \/ \E k \in Keys, v \in Values \cup {nil} : Change(p, k, v)
          \/ RemoveAll(p)
          \/ Save(p)
          \/ Crash(p)

KVSpec == KVInit /\ [][KVNext]_kvVars
-----------------------------------------------------------------------------
(* Properties. *)

\* Type invariant.
TypeOK ==
  /\ pc \in [Procs -> PcStates] /\ db \in [Procs -> Databases]
  /\ log \in [Procs -> Seq([key : Keys, value : Values \cup {nil}])]
  /\ version \in [Procs -> Nat] /\ changes \in [Procs -> Nat]
  /\ disk \in [v : Nat, d : Databases \cup {<<>>}]
  /\ base \in [Procs -> Databases] /\ saved \in Databases
  /\ suspect \subseteq Procs /\ torn \in BOOLEAN

\* When no process is saving, the file holds what the finished saves would have left one after the
\* other, each with exactly the changes its process had logged.  Nothing locks the file, so this is
\* said of saves that did not overlap, by processes that have loaded the file since saves last
\* overlapped while they had it open; the save of another one starts the count anew with what it
\* wrote.  A process killed within Save leaves a file without (all) its contents, and then updates
\* are lost.
NoLostUpdate ==
  ~torn /\ (\A p \in Procs : ~Saving(p)) /\ ~IsEmpty(disk) => Readable(disk) /\ disk.d = saved

\* Merging never loses a change of the own session: the copy in memory is the
\* loaded database with the unsaved changes replayed, also when the file was torn.
CopyIsBasePlusLog == \A p \in Procs : db[p] = ApplyLog(log[p], base[p])

\* "optimistic locking to determine whether the db on disk has been modified by another process": a
\* process that finds its own version in the file finds the database it loaded or saved under that
\* version, also after saves of others have overlapped, if it has loaded the file since then.
SameVersionSameData ==
  ~torn => \A p \in Procs \ suspect :
    pc[p] = "open" /\ Readable(disk) /\ disk.v = version[p] => disk.d = base[p]
=============================================================================
