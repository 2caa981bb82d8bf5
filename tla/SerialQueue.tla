---------------------------- MODULE SerialQueue ----------------------------
(***************************************************************************)
(* What a job serializer promises: the jobs pushed to one serializer run   *)
(* one at a time, in the order they were queued, each exactly once.        *)
(* Different serializers are independent.                                  *)
(***************************************************************************)
EXTENDS Sequences, Naturals

CONSTANTS Serializers, Jobs, Target

VARIABLES
  queue,     \* jobs queued at a serializer, the first one running or next
  running,   \* whether the first one is running
  executed   \* jobs that have finished

vars == <<queue, running, executed>>

Init ==
  /\ queue = [s \in Serializers |-> <<>>]
  /\ running = [s \in Serializers |-> FALSE]
  /\ executed = {}

Fresh(j) ==
  /\ j \notin executed
  /\ \A s \in Serializers : \A i \in 1 .. Len(queue[s]) : queue[s][i] # j

Enqueue(j) ==
  /\ Fresh(j)
  /\ queue' = [queue EXCEPT ![Target[j]] = Append(@, j)]
  /\ UNCHANGED <<running, executed>>

Begin(s) ==
  /\ ~running[s] /\ queue[s] # <<>>
  /\ running' = [running EXCEPT ![s] = TRUE]
  /\ UNCHANGED <<queue, executed>>

Finish(s) ==
  /\ running[s]
  /\ running' = [running EXCEPT ![s] = FALSE]
  /\ queue' = [queue EXCEPT ![s] = Tail(@)]
  /\ executed' = executed \cup {Head(queue[s])}

Next ==
  \/ \E j \in Jobs : Enqueue(j)
  \/ \E s \in Serializers : Begin(s) \/ Finish(s)

Spec == Init /\ [][Next]_vars
=============================================================================
