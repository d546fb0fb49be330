-------------------------- MODULE AdapterPromise --------------------------
(***************************************************************************)
(* The contract of the Adapter interface (tq/transfer.go) that the         *)
(* transfer queue relies on: every transfer given to Add is answered once, *)
(* and End returns when nothing is left to answer.                         *)
(***************************************************************************)
CONSTANT Jobs

VARIABLES
  given,     \* transfers passed to Add
  answered,  \* transfers whose result was sent
  ended      \* End has returned

vars == <<given, answered, ended>>

Init == given = {} /\ answered = {} /\ ended = FALSE

\* The next Add comes after the results of the last one.
Give(js) ==
  /\ ~ended
  /\ given = answered
  /\ js \cap given = {}
  /\ given' = given \cup js
  /\ UNCHANGED <<answered, ended>>

Answer(j) ==
  /\ ~ended
  /\ j \in given \ answered
  /\ answered' = answered \cup {j}
  /\ UNCHANGED <<given, ended>>

End ==
  /\ given = answered
  /\ ended' = TRUE
  /\ UNCHANGED <<given, answered>>

Next ==
  \/ \E js \in SUBSET Jobs : Give(js)
  \/ \E j \in Jobs : Answer(j)
  \/ End

Spec == Init /\ [][Next]_vars
=============================================================================
