-------------------------- MODULE MCTransferQueue --------------------------
(***************************************************************************)
(* Instances of TransferQueue for TLC: up to three tuples, two of them of  *)
(* the same object.                                                        *)
(***************************************************************************)
EXTENDS TransferQueue

CONSTANTS a, b, t1, t2, t3

MCOids == {a, b}
MCTuples == {t1, t2, t3}
MCOidOf == [t \in MCTuples |-> IF t = t3 THEN b ELSE a]
=============================================================================
