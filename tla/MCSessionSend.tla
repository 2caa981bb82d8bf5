--------------------------- MODULE MCSessionSend ---------------------------
(* Instances of SessionSend for TLC.                                       *)
EXTENDS SessionSend

CONSTANTS t1, t2, p1, p2, p3
=============================================================================
