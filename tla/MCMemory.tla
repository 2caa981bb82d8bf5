------------------------------ MODULE MCMemory ------------------------------
(* Instances of Memory for TLC: the layouts of the code, and small ones.   *)
EXTENDS Memory

CONSTANTS t1, t2, t3, b1, b2, b3

MCSymmetry == Permutations({t1, t2, t3}) \cup Permutations({b1, b2, b3})

MCCodeLayouts == {BigLayout, SmallLayout}

MCLayouts ==
  MCCodeLayouts \cup
  {[min |-> m, max |-> 24,
    sections |-> <<[end |-> 8, block |-> a], [end |-> 16, block |-> b], [end |-> 24, block |-> c]>>] :
   m \in {1, 3}, a \in {1, 3, 4}, b \in {1, 5}, c \in {2, 9}}
=============================================================================
