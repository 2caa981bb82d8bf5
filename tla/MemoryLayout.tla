---------------------------- MODULE MemoryLayout ----------------------------
(***************************************************************************)
(* The size classes of the pooled memory (Memory.cpp), as functions of a   *)
(* layout: the smallest pool, the sections [end, block] that the           *)
(* constructor passes to init_memory_pool, in order, and MAX_ALLOC_SIZE.   *)
(* A pool is named by its block size.                                      *)
(***************************************************************************)
EXTENDS Integers, Sequences, FiniteSetsExt

\* CoreDef.h defines USE_BIG_MEMORY_BLOCK.
BigLayout ==
  [min |-> 32, max |-> 8192,
   sections |-> <<[end |-> 1024, block |-> 32], [end |-> 2048, block |-> 128],
                  [end |-> 4096, block |-> 256], [end |-> 8192, block |-> 512]>>]

\* The other branch of the #ifdef.
SmallLayout ==
  [min |-> 32, max |-> 4096,
   sections |-> <<[end |-> 1024, block |-> 32], [end |-> 2048, block |-> 128],
                  [end |-> 4096, block |-> 256]>>]

\* An entry of _poolTable that was never assigned.
NoPool == 0

\* How many pools a section that starts at pos makes.
SectionPools(pos, section) ==
  IF pos > section.end THEN 0 ELSE (section.end - pos) \div section.block + 1

\* The value of pos at the start of section i.
Start(layout, i) ==
  LET from[j \in 1 .. i] ==
        IF j = 1 THEN layout.min
        ELSE LET section == layout.sections[j - 1]
             IN  from[j - 1] + section.block * SectionPools(from[j - 1], section)
  IN  from[i]

Pools(layout) ==
  UNION {{Start(layout, i) + k * layout.sections[i].block :
            k \in 0 .. SectionPools(Start(layout, i), layout.sections[i]) - 1} :
         i \in DOMAIN layout.sections}

\* The smallest pool whose blocks hold n bytes.
LeastPool(pools, n) ==
  LET fit == {p \in pools : p >= n}
  IN  IF fit = {} THEN NoPool ELSE Min(fit)
=============================================================================
