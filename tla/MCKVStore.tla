----------------------------- MODULE MCKVStore -----------------------------
(* Instances of KVStore for TLC: two of the processes, and the keys, are interchangeable. *)
EXTENDS KVStore, TLC

CONSTANTS p1, p2, p3, k1, k2, x

Bounds == [p \in Procs |-> IF p = p1 THEN 1 ELSE 2]

Symmetric == Permutations(Procs \ {p1}) \cup Permutations(Keys)
=============================================================================
