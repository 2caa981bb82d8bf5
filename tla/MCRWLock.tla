------------------------------ MODULE MCRWLock ------------------------------
(* Instances of RWLock for TLC.                                            *)
EXTENDS RWLock

CONSTANTS t1, t2, t3

MCThreads2 == {t1, t2}
MCThreads3 == {t1, t2, t3}

MCThreadId2 == [t \in MCThreads2 |-> IF t = t1 THEN 1 ELSE 2]
MCThreadId3 == [t \in MCThreads3 |-> IF t = t1 THEN 1 ELSE IF t = t2 THEN 2 ELSE 3]
=============================================================================
