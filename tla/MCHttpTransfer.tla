--------------------------- MODULE MCHttpTransfer ---------------------------
(* Two processes and an object of four bytes: its partial files of one and two *)
(* bytes are resumed, those of three and four are not.                         *)
EXTENDS HttpTransfer

CONSTANTS w1, w2

MCWorkers == {w1, w2}
=============================================================================
