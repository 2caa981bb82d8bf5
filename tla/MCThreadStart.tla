--------------------------- MODULE MCThreadStart ---------------------------
(* An instance of ThreadStart for TLC.                                     *)
EXTENDS ThreadStart

CONSTANTS t1, t2

MCThreads == {t1, t2}
MCThreadId == [t \in MCThreads |-> IF t = t1 THEN 1 ELSE 2]
=============================================================================
