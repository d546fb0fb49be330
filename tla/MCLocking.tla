----------------------------- MODULE MCLocking -----------------------------
(* Two users with a lockable and a plain path that hold the same object. *)
EXTENDS Locking, TLC

CONSTANTS u1, u2, a, b, obj

MCUsers == {u1, u2}
MCPaths == {a, b}
MCMaxCommands == u1 :> 3 @@ u2 :> 1
MCOidOf == [p \in MCPaths |-> obj]
=============================================================================
