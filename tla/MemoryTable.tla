---------------------------- MODULE MemoryTable ----------------------------
(***************************************************************************)
(* The constructor of Memory: init_memory_pool for every section, making   *)
(* the pools and filling _poolTable.  A pool is written to the entries     *)
(* from tableKey to its own size, so that the table is given by the first  *)
(* entry of every pool.                                                    *)
(***************************************************************************)
EXTENDS MemoryLayout

CONSTANT Layouts

ASSUME LayoutsAssumption ==
  \A layout \in Layouts :
    /\ layout.min \in Nat \ {0}
    /\ \A i \in DOMAIN layout.sections :
         /\ layout.sections[i].block \in Nat \ {0}
         /\ layout.sections[i].end \in 0 .. layout.max

VARIABLES
  layout,
  section,   \* the call of init_memory_pool the constructor is in
  pos,
  tableKey,
  pools,     \* _pools
  firstKey   \* the first entry of _poolTable each pool was written to

tableVars == <<layout, section, pos, tableKey, pools, firstKey>>

TableInit ==
  /\ layout \in Layouts
  /\ section = 1
  /\ pos = layout.min
  /\ tableKey = 0
  /\ pools = << >>
  /\ firstKey = << >>

Current == layout.sections[section]

\* The constructor has returned.
Constructed == section > Len(layout.sections)

\* _poolTable[k].
Table(k) ==
  LET written == {i \in DOMAIN pools : firstKey[i] <= k /\ k <= pools[i]}
  IN  IF written = {} THEN NoPool ELSE pools[Max(written)]

\* Mutant: a pool's own size is skipped when the next one is written.
KeyAfterSkips(size) == size + 2

\* The entry after the last one a pool is written to.
KeyAfter(size) == size + 1

\* One iteration of the for loop of init_memory_pool.
NewPool ==
  /\ ~Constructed
  /\ pos <= Current.end
  /\ pools' = Append(pools, pos)
  /\ firstKey' = Append(firstKey, tableKey)
  /\ tableKey' = Max({tableKey, KeyAfter(pos)})
  /\ pos' = pos + Current.block
  /\ UNCHANGED <<layout, section>>

\* The loop ends; pos and tableKey are passed on to the next section.
NextSection ==
  /\ ~Constructed
  /\ pos > Current.end
  /\ section' = section + 1
  /\ UNCHANGED <<layout, pos, tableKey, pools, firstKey>>

Construct == NewPool \/ NextSection

-----------------------------------------------------------------------------
TableTypeOK ==
  /\ layout \in Layouts
  /\ section \in 1 .. Len(layout.sections) + 1
  /\ pos \in Nat
  /\ tableKey \in 0 .. layout.max + 1
  /\ pools \in Seq(1 .. layout.max)
  /\ firstKey \in Seq(0 .. layout.max)

\* What the loops of the constructor compute (Memory.cpp:94-107): every size is
\* mapped to the smallest pool that fits, and the sizes above the last pool have
\* no entry.
TableIsLeast ==
  LET all == Pools(layout)
  IN  /\ {pools[i] : i \in DOMAIN pools} = all
      /\ \A k \in 0 .. layout.max : Table(k) = LeastPool(all, k)
=============================================================================
