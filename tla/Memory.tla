------------------------------- MODULE Memory -------------------------------
(***************************************************************************)
(* Memory (Memory.cpp, MemoryPool.cpp) and an ObjectPool (ObjectPool.h):   *)
(* once Memory is constructed, threads call Allocate and Release, through  *)
(* xxnew, make_shared and the allocators, and make and release objects of  *)
(* a pool of their own; a block may be released by another thread than the *)
(* one that allocated it.  The lists of free blocks are SLISTs, whose push *)
(* and pop are atomic; the two counters of a pool are atomic, each by      *)
(* itself.                                                                 *)
(***************************************************************************)
EXTENDS MemoryTable, FiniteSets, SequencesExt

CONSTANTS
  Threads,
  Blocks,      \* bound: what _aligned_malloc can hand out
  NoBlock,     \* nullptr
  Sizes,       \* the sizes callers ask for
  HeaderSize,  \* sizeof(MemoryHeader)
  ObjectSize,  \* sizeof(Type) of the ObjectPool
  CountMod     \* bound: 2^32 in the code, the range of the counters

ASSUME MemoryAssumption ==
  /\ NoBlock \notin Blocks
  /\ Sizes \subseteq Nat /\ HeaderSize \in Nat /\ ObjectSize \in Nat
  /\ CountMod \in Nat /\ CountMod > 2 * Cardinality(Blocks) + 2

\* The pool of the ObjectPool has a name apart, since its block size may be that of
\* a pool of Memory.  BigBlock stands for the blocks above MAX_ALLOC_SIZE.
ObjectPool == -1
BigBlock == -2
s_allocSize == ObjectSize + HeaderSize

VARIABLES
  home,        \* the pool that made each block, NoPool when the system has it
  allocSize,   \* _allocSize in the header of each block
  free,        \* the SLIST of each pool
  useCount,
  poolCount,
  held,        \* the blocks callers have
  objects,     \* those that ObjectPool::make_shared gave out
  pc,          \* where each thread is in Allocate or Release
  at,          \* the pool of the call
  block,       \* the header of the call
  want,        \* the size it attaches
  crashed      \* an entry of _poolTable that has no pool was used

counts == <<useCount, poolCount>>
owners == <<held, objects>>
blockVars == <<home, allocSize, free, counts, owners, pc, at, block, want, crashed>>
vars == <<tableVars, blockVars>>

Init ==
  /\ TableInit
  /\ home = [b \in Blocks |-> NoPool]
  /\ allocSize = [b \in Blocks |-> 0]
  /\ free = [p \in Pools(layout) \cup {ObjectPool} |-> << >>]
  /\ useCount = [p \in DOMAIN free |-> 0]
  /\ poolCount = [p \in DOMAIN free |-> 0]
  /\ held = {} /\ objects = {}
  /\ pc = [t \in Threads |-> "idle"]
  /\ at = [t \in Threads |-> NoPool]
  /\ block = [t \in Threads |-> NoBlock]
  /\ want = [t \in Threads |-> 0]
  /\ crashed = FALSE

At(t, where) == Constructed /\ ~crashed /\ pc[t] = where
Goto(t, where) == pc' = [pc EXCEPT ![t] = where]
FetchAdd(count, p) == count' = [count EXCEPT ![p] = (@ + 1) % CountMod]
FetchSub(count, p) == count' = [count EXCEPT ![p] = (@ - 1) % CountMod]

\* ::_aligned_malloc gives a block that nobody has.
Malloc(b, p) ==
  /\ home[b] = NoPool
  /\ home' = [home EXCEPT ![b] = p]

\* _allocSize of a pool.
BlockSize(p) == IF p = ObjectPool THEN s_allocSize ELSE p

\* Mutants: the head of the list is read and left there, a reused block stays in
\* the count of the pool, the header is reset before its size is read.
PopLeaves(list) == list
ReusedForgotten(count, p) == UNCHANGED count
PoolOfReset(b) == Table(0)

\* What ::InterlockedPopEntrySList leaves.
Pop(list) == Tail(list)
Reused(count, p) == FetchSub(count, p)
PoolOf(b) == Table(allocSize[b])

-----------------------------------------------------------------------------
\* Allocate of a size above MAX_ALLOC_SIZE: alloc_big and AttachHeader.
AllocateBig(t, size) ==
  /\ At(t, "idle") /\ size + HeaderSize > layout.max
  /\ \E b \in Blocks :
       /\ Malloc(b, BigBlock)
       /\ allocSize' = [allocSize EXCEPT ![b] = size + HeaderSize]
       /\ held' = held \cup {b}
  /\ UNCHANGED <<free, counts, objects, pc, at, block, want, crashed>>

\* MemoryPool::Acquire of pool p up to the header, for a call that will attach
\* size n: a popped one, or a new one when the list was empty.
Acquire(t, p, n) ==
  /\ at' = [at EXCEPT ![t] = p]
  /\ want' = [want EXCEPT ![t] = n]
  /\ \/ /\ free[p] # << >>
        /\ block' = [block EXCEPT ![t] = Head(free[p])]
        /\ free' = [free EXCEPT ![p] = Pop(@)]
        /\ Goto(t, "pool_sub")
        /\ UNCHANGED <<home, allocSize>>
     \/ /\ free[p] = << >>
        /\ \E b \in Blocks :
             /\ Malloc(b, p)
             /\ allocSize' = [allocSize EXCEPT ![b] = BlockSize(p)]
             /\ block' = [block EXCEPT ![t] = b]
        /\ Goto(t, "use_add")
        /\ UNCHANGED free
  /\ UNCHANGED <<counts, owners, crashed>>

\* Allocate of any other size.
Allocate(t, size) ==
  /\ At(t, "idle") /\ size + HeaderSize <= layout.max
  /\ LET p == Table(size + HeaderSize)
     IN  \/ p # NoPool /\ Acquire(t, p, size + HeaderSize)
         \/ /\ p = NoPool
            /\ crashed' = TRUE
            /\ UNCHANGED <<home, allocSize, free, counts, owners, pc, at, block, want>>

\* ObjectPool::make_shared.
MakeShared(t) ==
  /\ At(t, "idle")
  /\ Acquire(t, ObjectPool, s_allocSize)

\* _poolCount.fetch_sub(1) after a pop.
PoolSub(t) ==
  /\ At(t, "pool_sub")
  /\ Reused(poolCount, at[t])
  /\ Goto(t, "use_add")
  /\ UNCHANGED <<home, allocSize, free, useCount, owners, at, block, want, crashed>>

\* _useCount.fetch_add(1), AttachHeader and the return to the caller.
UseAdd(t) ==
  /\ At(t, "use_add")
  /\ FetchAdd(useCount, at[t])
  /\ allocSize' = [allocSize EXCEPT ![block[t]] = want[t]]
  /\ held' = held \cup {block[t]}
  /\ objects' = objects \cup (IF at[t] = ObjectPool THEN {block[t]} ELSE {})
  /\ Goto(t, "idle")
  /\ at' = [at EXCEPT ![t] = NoPool]
  /\ block' = [block EXCEPT ![t] = NoBlock]
  /\ want' = [want EXCEPT ![t] = 0]
  /\ UNCHANGED <<home, free, poolCount, crashed>>

-----------------------------------------------------------------------------
\* Release of a block above MAX_ALLOC_SIZE: free_big.
ReleaseBig(t, b) ==
  /\ At(t, "idle") /\ b \in held \ objects
  /\ allocSize[b] > layout.max
  /\ held' = held \ {b}
  /\ home' = [home EXCEPT ![b] = NoPool]
  /\ allocSize' = [allocSize EXCEPT ![b] = 0]
  /\ UNCHANGED <<free, counts, objects, pc, at, block, want, crashed>>

\* MemoryPool::Release of pool p up to the push: the size in the header is reset.
Push(t, b, p) ==
  /\ held' = held \ {b}
  /\ objects' = objects \ {b}
  /\ allocSize' = [allocSize EXCEPT ![b] = 0]
  /\ free' = [free EXCEPT ![p] = <<b>> \o @]
  /\ at' = [at EXCEPT ![t] = p]
  /\ Goto(t, "pool_add")
  /\ UNCHANGED <<home, counts, block, want, crashed>>

\* Release of a pooled block: the pool is found by the size in its header.
Release(t, b) ==
  /\ At(t, "idle") /\ b \in held \ objects
  /\ allocSize[b] <= layout.max
  /\ Push(t, b, PoolOf(b))

\* The last pointer to an object goes: ObjectPool::Release, to its own pool.
ReleaseObject(t, b) ==
  /\ At(t, "idle") /\ b \in objects
  /\ Push(t, b, ObjectPool)

\* _poolCount.fetch_add(1).
PoolAdd(t) ==
  /\ At(t, "pool_add")
  /\ FetchAdd(poolCount, at[t])
  /\ Goto(t, "use_sub")
  /\ UNCHANGED <<home, allocSize, free, useCount, owners, at, block, want, crashed>>

\* _useCount.fetch_sub(1).
UseSub(t) ==
  /\ At(t, "use_sub")
  /\ FetchSub(useCount, at[t])
  /\ Goto(t, "idle")
  /\ at' = [at EXCEPT ![t] = NoPool]
  /\ UNCHANGED <<home, allocSize, free, poolCount, owners, block, want, crashed>>

ThreadStep(t) ==
  \/ \E size \in Sizes : AllocateBig(t, size) \/ Allocate(t, size)
  \/ \E b \in Blocks : ReleaseBig(t, b) \/ Release(t, b) \/ ReleaseObject(t, b)
  \/ MakeShared(t) \/ PoolSub(t) \/ UseAdd(t) \/ PoolAdd(t) \/ UseSub(t)

Next ==
  \/ Construct /\ UNCHANGED blockVars
  \/ (\E t \in Threads : ThreadStep(t)) /\ UNCHANGED tableVars

Spec == Init /\ [][Next]_vars

-----------------------------------------------------------------------------
\* The pools, those of Memory by the size of their blocks.
AllPools == DOMAIN free

TypeOK ==
  /\ TableTypeOK
  /\ home \in [Blocks -> AllPools \cup {NoPool, BigBlock}]
  /\ allocSize \in [Blocks -> Nat]
  /\ free \in [AllPools -> Seq(Blocks)]
  /\ useCount \in [AllPools -> 0 .. CountMod - 1]
  /\ poolCount \in [AllPools -> 0 .. CountMod - 1]
  /\ objects \subseteq held /\ held \subseteq Blocks
  /\ pc \in [Threads -> {"idle", "pool_sub", "use_add", "pool_add", "use_sub"}]
  /\ at \in [Threads -> AllPools \cup {NoPool}]
  /\ block \in [Threads -> Blocks \cup {NoBlock}]
  /\ want \in [Threads -> Nat]
  /\ crashed \in BOOLEAN

\* Whatever the layout, the table that the constructor leaves maps every size to
\* the smallest pool that fits (Memory.cpp:94-107).
ConstructorMapsLeast == [][Constructed' => Constructed \/ TableIsLeast']_vars

\* A block stays with the pool it was made for: in use it is as large as the
\* caller asked for, however often it was reused for other sizes, and the size
\* AttachHeader wrote, which is not the pool's, leads back to that pool; blocks of
\* Memory and of an ObjectPool do not mix (Memory.cpp:47-61, 69-80,
\* ObjectPool.h:18, 33).
BlockKeepsPool ==
  /\ \A b \in held : home[b] = BigBlock \/ allocSize[b] <= BlockSize(home[b])
  /\ \A p \in AllPools : \A b \in Range(free[p]) : home[b] = p

\* A block is in one place: with a caller, in the hands of one thread, or once in
\* one list (MemoryPool.cpp:27, 40).
BlockInOnePlace ==
  /\ TypeOK
  /\ \A p \in AllPools : IsInjective(free[p])
  /\ \A p, q \in AllPools : p # q => Range(free[p]) \cap Range(free[q]) = {}
  /\ \A p \in AllPools : Range(free[p]) \cap held = {}
  /\ \A t \in Threads :
       block[t] # NoBlock =>
         /\ block[t] \notin held
         /\ \A p \in AllPools : block[t] \notin Range(free[p])
         /\ \A u \in Threads \ {t} : block[u] # block[t]

InCall(p, where) == Cardinality({t \in Threads : pc[t] \in where /\ at[t] = p})

\* The counters are right up to the calls in progress, also when they have wrapped
\* around below 0: once no thread is in Allocate or Release they are the length
\* of the list and the number of blocks outside (MemoryPool.cpp:30-33, 56-59).
CountsAccount ==
  \A p \in AllPools :
    /\ poolCount[p] = (Len(free[p]) + InCall(p, {"pool_sub"}) - InCall(p, {"pool_add"})) % CountMod
    /\ useCount[p] = Cardinality({b \in held : home[b] = p})
                       + InCall(p, {"pool_add", "use_sub"})

\* Memory.cpp:49: it is the sizes above MAX_ALLOC_SIZE that are not pooled; every
\* other size has a pool.
SizeHasPool == ~crashed
=============================================================================
