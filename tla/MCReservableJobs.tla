-------------------------- MODULE MCReservableJobs --------------------------
(* Instances of ReservableJobs for TLC.                                    *)
EXTENDS ReservableJobs

CONSTANTS t1, t2, s1, s2, j1, j2, j3, j4

MCJobs == {j1, j2, j3, j4}

\* The last job goes to a serializer of its own, or to the one of the others.
MCTargets == [j \in MCJobs |-> IF j = j4 THEN s2 ELSE s1]
MCTarget == [j \in MCJobs |-> s1]
=============================================================================
