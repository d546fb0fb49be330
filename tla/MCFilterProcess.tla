-------------------------- MODULE MCFilterProcess --------------------------
(***************************************************************************)
(* Instances of FilterProcess for TLC: p1 and p2 are of one object, p3 of  *)
(* another, p4 is not a pointer.                                           *)
(***************************************************************************)
EXTENDS FilterProcess

CONSTANTS a, b, p1, p2, p3, p4

MCPaths == {p1, p2, p3, p4}
MCOids == {a, b}
MCOidOf == [p \in MCPaths |-> IF p \in {p1, p2} THEN a ELSE b]
=============================================================================
