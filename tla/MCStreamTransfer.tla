-------------------------- MODULE MCStreamTransfer --------------------------
(* Two objects and two conversations: an answer of one object is left for the *)
(* other, and the worker of the second may start without a connection.        *)
EXTENDS StreamTransfer

CONSTANTS o1, o2

MCOids == {o1, o2}
=============================================================================
