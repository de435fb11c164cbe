--------------------------- MODULE MCSessionState ---------------------------
(* A small instance of SessionState: two closures that differ.              *)
EXTENDS SessionState

CONSTANTS w1, w2

MCWorks == {w1, w2}
=============================================================================
