------------------------- MODULE MCTransferAdapter -------------------------
(* Instances of TransferAdapter for TLC. *)
EXTENDS TransferAdapter

CONSTANTS j1, j2, j3

=============================================================================
