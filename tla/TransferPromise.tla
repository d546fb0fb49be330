-------------------------- MODULE TransferPromise --------------------------
(***************************************************************************)
(* What a transfer queue promises to its caller, without goroutines,       *)
(* batches or retries: an object is accepted, resolved once, and Wait      *)
(* returns when no accepted object is unresolved.                          *)
(***************************************************************************)
CONSTANT Oids

VARIABLES
  fate,      \* what has become of each object
  closed,    \* Wait has been called
  stopped,   \* the queue gave up after an error it cannot recover from
  returned   \* Wait has returned

vars == <<fate, closed, stopped, returned>>

Resolutions == {"completed", "present", "failed"}

Unresolved == {o \in Oids : fate[o] = "queued"}

Init ==
  /\ fate = [o \in Oids |-> "new"]
  /\ closed = FALSE /\ stopped = FALSE /\ returned = FALSE

Accept(o) ==
  /\ ~closed
  /\ fate[o] = "new"
  /\ fate' = [fate EXCEPT ![o] = "queued"]
  /\ UNCHANGED <<closed, stopped, returned>>

\* One object is resolved, or all those that the same failure concerns.
Resolve(os, f) ==
  /\ ~stopped /\ ~returned
  /\ fate' = [o \in Oids |-> IF o \in os THEN f ELSE fate[o]]
  /\ UNCHANGED <<closed, stopped, returned>>

Stop ==
  /\ ~stopped /\ ~returned
  /\ fate' = [o \in Oids |-> IF o \in Unresolved THEN "abandoned" ELSE fate[o]]
  /\ stopped' = TRUE
  /\ UNCHANGED <<closed, returned>>

Close ==
  /\ ~closed
  /\ closed' = TRUE
  /\ UNCHANGED <<fate, stopped, returned>>

Return ==
  /\ closed /\ ~returned
  /\ Unresolved = {}
  /\ returned' = TRUE
  /\ UNCHANGED <<fate, closed, stopped>>

Next ==
  \/ \E o \in Oids : Accept(o)
  \/ \E os \in SUBSET Unresolved, f \in Resolutions : Resolve(os, f)
  \/ Stop \/ Close \/ Return

Spec == Init /\ [][Next]_vars
=============================================================================
