----------------------------- MODULE Containers -----------------------------
(***************************************************************************)
(* What the members of LockQueue, LockStack and LockPriorityQueue do to    *)
(* the standard container they wrap.  A container is the sequence of its   *)
(* items in the order in which pop() takes them, so that front() and top() *)
(* are its head.  A member that has no effect in any program, because its  *)
(* template cannot be instantiated, is left out: LockStack::Pop, Top and   *)
(* Clear(popped), LockPriorityQueue::TryPop(item) and Peek.                *)
(***************************************************************************)
EXTENDS Integers, Sequences, SequencesExt

T0 == 0   \* T(), a null pointer for the pointers the library keeps in them

Kinds == {"queue", "stack", "priority"}

\* The members of each class.  "ClearTo" is Clear(popped).
Members(kind) ==
  {"Push", "TryPeek", "Clear", "SetNew"} \cup
    CASE kind = "queue"    -> {"Pop", "TryPop", "Front", "ClearTo"}
      [] kind = "stack"    -> {"TryPop"}
      [] kind = "priority" -> {"Pop", "TryPopIf", "PopAll", "ClearTo", "size"}

\* The members that open a read guard; the others open a write guard.
Reads == {"Front", "TryPeek", "size"}

\* The container after a call, and what the call gives to its caller.
Result(s, r) == [items |-> s, gives |-> r]

Take(s) == Result(Tail(s), <<Head(s)>>)

LockQueue(member, x, s) ==
  CASE member = "Push"                 -> Result(Append(s, x), <<>>)
    [] member = "Pop"                  -> IF s = <<>> THEN Result(s, <<T0>>) ELSE Take(s)
    [] member = "TryPop"               -> IF s = <<>> THEN Result(s, <<>>) ELSE Take(s)
    [] member = "Front"                -> Result(s, IF s = <<>> THEN <<T0>> ELSE <<Head(s)>>)
    [] member = "TryPeek"              -> Result(s, IF s = <<>> THEN <<>> ELSE <<Head(s)>>)
    [] member \in {"Clear", "SetNew"}  -> Result(<<>>, <<>>)

LockStack(member, x, s) ==
  CASE member = "Push"                 -> Result(<<x>> \o s, <<>>)
    [] member = "TryPop"               -> IF s = <<>> THEN Result(s, <<>>) ELSE Take(s)
    [] member = "TryPeek"              -> Result(s, IF s = <<>> THEN <<>> ELSE <<Head(s)>>)
    [] member \in {"Clear", "SetNew"}  -> Result(<<>>, <<>>)

\* The conditions of TryPop and PopAll are of the form x <= item.
LockPriorityQueue(member, x, s) ==
  LET n == Cardinality({i \in DOMAIN s : \A k \in 1 .. i : x <= s[k]})
  IN CASE member = "Push"                -> Result(SortSeq(Append(s, x), >), <<>>)
       [] member = "Pop"                 -> IF s = <<>> THEN Result(s, <<T0>>) ELSE Take(s)
       [] member = "TryPopIf"            -> IF n = 0 THEN Result(s, <<>>) ELSE Take(s)
       [] member = "PopAll"              -> Result(SubSeq(s, n + 1, Len(s)), SubSeq(s, 1, n))
       [] member = "TryPeek"             -> Result(s, IF s = <<>> THEN <<>> ELSE <<Head(s)>>)
       [] member \in {"Clear", "SetNew"} -> Result(<<>>, <<>>)
       [] member = "size"                -> Result(s, <<Len(s)>>)

Call(kind, member, x, s) ==
  CASE kind = "queue"    -> LockQueue(member, x, s)
    [] kind = "stack"    -> LockStack(member, x, s)
    [] kind = "priority" -> LockPriorityQueue(member, x, s)
=============================================================================
