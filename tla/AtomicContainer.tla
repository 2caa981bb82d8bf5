--------------------------- MODULE AtomicContainer ---------------------------
(***************************************************************************)
(* What LockQueue, LockStack and LockPriorityQueue promise the threads     *)
(* that share one: every call takes effect in one step, Clear(popped) by   *)
(* giving its caller all the items there are.                              *)
(***************************************************************************)
EXTENDS Containers

CONSTANTS Threads, Items

VARIABLES
  kind,    \* which of the classes the container is
  items,   \* the items, the next to be popped first
  last     \* the last call: its thread, and what it was given

vars == <<kind, items, last>>

Init ==
  /\ kind \in Kinds
  /\ items = <<>>
  /\ last = <<>>

Do(t, result) ==
  /\ items' = result.items
  /\ last' = <<t, result.gives>>
  /\ UNCHANGED kind

Next ==
  \E t \in Threads :
    \/ \E m \in Members(kind) \ {"ClearTo"}, x \in Items : Do(t, Call(kind, m, x, items))
    \/ "ClearTo" \in Members(kind) /\ Do(t, Result(<<>>, items))

Spec == Init /\ [][Next]_vars
=============================================================================
