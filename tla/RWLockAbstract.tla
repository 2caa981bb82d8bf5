--------------------------- MODULE RWLockAbstract ---------------------------
(***************************************************************************)
(* What a reentrant read-write lock promises its callers: a write guard is *)
(* granted in one step when no other thread holds a guard, a read guard    *)
(* when no other thread holds a write guard, and guards of one thread end  *)
(* innermost first.  RWLock is shown to implement this.                    *)
(***************************************************************************)
EXTENDS Integers

CONSTANTS Threads, MaxDepth

VARIABLES depth, readGuards, writeGuards

vars == <<depth, readGuards, writeGuards>>

Levels == 1 .. MaxDepth

Init ==
  /\ depth = [t \in Threads |-> 0]
  /\ readGuards = {}
  /\ writeGuards = {}

GrantWrite(t) ==
  /\ \A u \in Threads \ {t}, i \in Levels : <<u, i>> \notin readGuards \cup writeGuards
  /\ depth' = [depth EXCEPT ![t] = @ + 1]
  /\ writeGuards' = writeGuards \cup {<<t, depth[t] + 1>>}
  /\ UNCHANGED readGuards

GrantRead(t) ==
  /\ \A u \in Threads \ {t}, i \in Levels : <<u, i>> \notin writeGuards
  /\ depth' = [depth EXCEPT ![t] = @ + 1]
  /\ readGuards' = readGuards \cup {<<t, depth[t] + 1>>}
  /\ UNCHANGED writeGuards

End(t) ==
  /\ depth[t] > 0
  /\ depth' = [depth EXCEPT ![t] = @ - 1]
  /\ readGuards' = readGuards \ {<<t, depth[t]>>}
  /\ writeGuards' = writeGuards \ {<<t, depth[t]>>}

Next == \E t \in Threads : GrantWrite(t) \/ GrantRead(t) \/ End(t)

Spec == Init /\ [][Next]_vars
=============================================================================
