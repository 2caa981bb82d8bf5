--------------------------- MODULE MCTaskManager ---------------------------
(* Instances of TaskManager for TLC.                                       *)
EXTENDS TaskManager

CONSTANTS c1, c2, m1, m2

MCOneManager == [c \in Callers |-> m1]
MCTwoManagers == [c \in Callers |-> IF c = c1 THEN m1 ELSE m2]
=============================================================================
