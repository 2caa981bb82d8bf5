---------------------------- MODULE RWLockProofs ----------------------------
(* Proofs about RWLock.                                                    *)
EXTENDS RWLock, FiniteSetTheorems, TLAPS

Slots == Threads \X (1 .. MaxDepth)

\* A set of guards is finite, and its size fits the 16-bit counts.
LEMMA GuardCount ==
  ASSUME NEW S \in SUBSET Slots
  PROVE  /\ IsFiniteSet(S)
         /\ Cardinality(S) \in 0 .. RADIX - 1
<1>1. IsFiniteSet(1 .. MaxDepth) /\ Cardinality(1 .. MaxDepth) = MaxDepth
  BY FS_Interval, WidthAssumption
<1>2. /\ IsFiniteSet(Slots)
      /\ Cardinality(Slots) = Cardinality(Threads) * MaxDepth
  BY <1>1, FS_Product, ThreadsAssumption, Zenon DEF Slots
<1>3. QED
  BY <1>2, FS_Subset, FS_CardinalityType, WidthAssumption, ThreadIdAssumption

\* Opening a guard adds one to the size of its set, and the sum still fits.
LEMMA GuardAdded ==
  ASSUME NEW S \in SUBSET Slots, NEW g \in Slots, g \notin S
  PROVE  /\ S \cup {g} \in SUBSET Slots
         /\ Cardinality(S \cup {g}) = Cardinality(S) + 1
         /\ Cardinality(S) + 1 \in 0 .. RADIX - 1
<1>1. S \cup {g} \in SUBSET Slots
  OBVIOUS
<1>2. Cardinality(S \cup {g}) = Cardinality(S) + 1
  BY GuardCount, FS_AddElement
<1>3. QED
  BY <1>1, <1>2, GuardCount

\* Ending a guard takes one off the size of its set, which was not zero.
LEMMA GuardRemoved ==
  ASSUME NEW S \in SUBSET Slots, NEW g \in S
  PROVE  /\ S \ {g} \in SUBSET Slots
         /\ Cardinality(S \ {g}) = Cardinality(S) - 1
         /\ Cardinality(S) > 0 /\ Cardinality(S) # 0
<1>1. Cardinality(S \ {g}) = Cardinality(S) - 1
  BY GuardCount, FS_RemoveElement
<1>2. Cardinality(S) # 0
  BY GuardCount, FS_EmptySet
<1>3. QED
  BY <1>1, <1>2, GuardCount

\* Counts within the 16 bits are not wrapped.
LEMMA NoWrap ==
  ASSUME NEW n \in 0 .. RADIX - 1
  PROVE  n % RADIX = n
BY ThreadIdAssumption

\* A count of zero means there is no guard of that kind.
LEMMA GuardsZero ==
  ASSUME NEW S \in SUBSET Slots, Cardinality(S) = 0
  PROVE  S = {}
BY GuardCount, FS_EmptySet

\* The level above a thread's depth is free.
LEMMA NewSlot ==
  ASSUME GuardsNest, NEW t \in Threads, depth[t] \in 0 .. MaxDepth - 1
  PROVE  /\ <<t, depth[t] + 1>> \in Slots
         /\ <<t, depth[t] + 1>> \notin readGuards
         /\ <<t, depth[t] + 1>> \notin writeGuards
<1>1. depth[t] + 1 \in 1 .. MaxDepth /\ ~(depth[t] + 1 <= depth[t])
  BY WidthAssumption
<1>2. QED
  BY <1>1 DEF GuardsNest, Guards, Slots

\* A thread inside the lock has a guard, of one kind or the other.
LEMMA HolderHasGuard ==
  ASSUME IInv, NEW t \in Threads, Holds(t)
  PROVE  Reads(t) \/ Writes(t)
<1>1. 1 \in 1 .. MaxDepth /\ 1 <= depth[t]
  BY WidthAssumption DEF IInv, TypeOK, Holds
<1>2. <<t, 1>> \in Guards
  BY <1>1 DEF IInv, GuardsNest
<1>3. QED
  BY <1>1, <1>2 DEF Guards, Reads, Writes

-----------------------------------------------------------------------------
\* The constructed lock, flag EMPTY and _writeCount 0, satisfies the invariant.
LEMMA InitIInv == Init => IInv
<1> SUFFICES ASSUME Init PROVE IInv
  OBVIOUS
<1> USE DEF Init
<1>1. TypeOK
  BY ThreadIdAssumption, WidthAssumption DEF TypeOK, EMPTY, Control, Crashes
<1>2. GuardsNest /\ ReadsInnermost /\ CrashOnlyByMisuse
  BY WidthAssumption DEF GuardsNest, ReadsInnermost, Reads, Guards, CrashOnlyByMisuse, NoMisuseCrash
<1>3. FlagCountsReads /\ CountMatches
  BY FS_EmptySet DEF FlagCountsReads, CountMatches, EMPTY
<1>4. FlagNamesOwner /\ CallsInProgress
  BY ThreadIdAssumption DEF FlagNamesOwner, CallsInProgress, Owner, Writes, EMPTY
<1>5. QED
  BY <1>1, <1>2, <1>3, <1>4 DEF IInv

\* WriteLock's entry, which nests when the caller already owns the lock, keeps the invariant.
LEMMA WriteLockIInv ==
  ASSUME IInv, NEW t \in Threads, WriteLock(t)
  PROVE  IInv'
<1> USE DEF IInv, WriteLock, IsOwner, At, Goto
<1>1. TypeOK'
  BY DEF TypeOK, Control
<1>2. GuardsNest' /\ CrashOnlyByMisuse'
  BY DEF GuardsNest, Guards, CrashOnlyByMisuse, NoMisuseCrash
<1>3. ReadsInnermost'
  BY DEF ReadsInnermost, Reads, TypeOK
<1>4. FlagCountsReads'
  BY DEF FlagCountsReads
<1>5. FlagNamesOwner'
  BY Zenon DEF FlagNamesOwner, Owner, Writes, Holds, TypeOK
<1>6. CountMatches'
  BY DEF CountMatches, TypeOK
<1>7. CallsInProgress'
  BY DEF CallsInProgress, FlagNamesOwner, Owner, Writes, TypeOK
<1>8. QED
  BY <1>1, <1>2, <1>3, <1>4, <1>5, <1>6, <1>7

\* WriteLock's compare-exchange from EMPTY keeps the invariant.
LEMMA WriteLockSpinIInv ==
  ASSUME IInv, NEW t \in Threads, WriteLockSpin(t)
  PROVE  IInv'
<1> USE DEF IInv, WriteLockSpin, At, Goto
<1>1. /\ readGuards = {}
      /\ \A u \in Threads : ~Owner(u)
  <2>1. readGuards = {}
    <3>1. readGuards \in SUBSET Slots /\ Cardinality(readGuards) = 0
      BY DEF TypeOK, FlagCountsReads, EMPTY, Slots
    <3>2. QED
      BY <3>1, GuardsZero
  <2>2. \A u \in Threads : ThreadId[u] # 0
    BY ThreadIdAssumption
  <2>3. QED
    BY <2>1, <2>2 DEF FlagNamesOwner, EMPTY
<1>2. \A u \in Threads : ~Holds(u)
  <2>1. \A u \in Threads : ~Reads(u) /\ ~Writes(u)
    BY <1>1 DEF Reads, Owner
  <2>2. QED
    BY <2>1, HolderHasGuard
<1>3. TypeOK'
  <2>1. TLS_Id[t] = ThreadId[t] /\ ThreadId[t] \in 1 .. RADIX - 1
    BY ThreadIdAssumption, Zenon DEF TypeOK
  <2>2. TLS_Id[t] \in 0 .. RADIX - 1 /\ 0 \in 0 .. RADIX - 1
    BY <2>1, ThreadIdAssumption
  <2>3. QED
    BY <2>2 DEF TypeOK, Control
<1>4. GuardsNest' /\ CrashOnlyByMisuse'
  BY DEF GuardsNest, Guards, CrashOnlyByMisuse, NoMisuseCrash
<1>5. ReadsInnermost'
  BY <1>1 DEF ReadsInnermost, Reads
<1>6. FlagCountsReads'
  BY DEF FlagCountsReads, EMPTY
<1>7. FlagNamesOwner'
  BY <1>1, <1>2, ThreadIdAssumption DEF FlagNamesOwner, Owner, Writes, Holds, TypeOK
<1>8. CountMatches'
  BY DEF CountMatches, TypeOK
<1>9. CallsInProgress'
  BY <1>1, <1>2 DEF CallsInProgress, Owner, Writes, TypeOK, EMPTY
<1>10. QED
  BY <1>3, <1>4, <1>5, <1>6, <1>7, <1>8, <1>9

\* The increment of _writeCount after a won compare-exchange keeps the invariant.
LEMMA WriteLockCountIInv ==
  ASSUME IInv, NEW t \in Threads, WriteLockCount(t)
  PROVE  IInv'
<1> DEFINE g == <<t, depth[t] + 1>>
<1> USE DEF IInv, WriteLockCount, At, Goto, EnterWrite
<1>1. /\ Owner(t)
      /\ depth[t] \in 0 .. MaxDepth - 1
      /\ g \in Slots /\ g \notin readGuards /\ g \notin writeGuards
  <2>1. Owner(t)
    BY DEF Owner
  <2>2. depth[t] \in 0 .. MaxDepth - 1
    <3>1. depth[t] \in 0 .. MaxDepth /\ depth[t] < MaxDepth
      BY Zenon DEF CallsInProgress, TypeOK
    <3>2. QED
      BY <3>1, WidthAssumption
  <2>3. QED
    BY <2>1, <2>2, WidthAssumption, NewSlot
<1>2. \A u \in Threads : u # t => ~Holds(u) /\ ~Owner(u)
  BY <1>1, ThreadIdAssumption DEF FlagNamesOwner
<1>3. \A u \in Threads : pc[u] # "w_release"
  BY <1>2 DEF CallsInProgress, TypeOK, Owner, Writes
<1>4. /\ writeGuards' \subseteq Slots
      /\ writeCount' \in 0 .. RADIX - 1
      /\ writeCount' = Cardinality(writeGuards')
  <2>1. writeGuards \in SUBSET Slots /\ writeCount = Cardinality(writeGuards)
    BY <1>3 DEF CountMatches, TypeOK, Slots
  <2>2. /\ writeGuards \cup {g} \in SUBSET Slots
        /\ Cardinality(writeGuards \cup {g}) = writeCount + 1
        /\ writeCount + 1 \in 0 .. RADIX - 1
    BY <1>1, <2>1, GuardAdded
  <2>3. QED
    BY <2>2, NoWrap
<1>5. TypeOK'
  BY <1>1, <1>4 DEF TypeOK, Control, Slots
<1>6. GuardsNest' /\ CrashOnlyByMisuse'
  BY <1>1, WidthAssumption DEF GuardsNest, Guards, CrashOnlyByMisuse, NoMisuseCrash, TypeOK
<1>7. ReadsInnermost'
  BY <1>1 DEF ReadsInnermost, Reads, TypeOK
<1>8. FlagCountsReads'
  BY DEF FlagCountsReads
<1>9. FlagNamesOwner'
  BY <1>1, <1>2, WidthAssumption DEF FlagNamesOwner, Owner, Writes, Holds, TypeOK, Slots
<1>10. CountMatches'
  BY <1>3, <1>4 DEF CountMatches, TypeOK
<1>11. CallsInProgress'
  BY <1>1, <1>2, <1>3 DEF CallsInProgress, Owner, Writes, TypeOK
<1>12. QED
  BY <1>5, <1>6, <1>7, <1>8, <1>9, <1>10, <1>11

\* A read guard is opened: the count goes up by one and the owner stays.
LEMMA ReadEntered ==
  ASSUME IInv, NEW t \in Threads, depth[t] < MaxDepth, EnterRead(t),
         lockFlag' = FetchAdd(lockFlag)
  PROVE  /\ depth[t] \in 0 .. MaxDepth - 1
         /\ readGuards' \subseteq Slots
         /\ lockFlag' = [w |-> lockFlag.w, r |-> lockFlag.r + 1]
         /\ lockFlag' \in [w : 0 .. RADIX - 1, r : 0 .. RADIX - 1]
         /\ lockFlag'.r = Cardinality(readGuards')
         /\ GuardsNest'
         /\ depth' \in [Threads -> 0 .. MaxDepth]
<1> DEFINE g == <<t, depth[t] + 1>>
<1>1. depth[t] \in 0 .. MaxDepth - 1
  <2>1. depth[t] \in 0 .. MaxDepth
    BY DEF IInv, TypeOK
  <2>2. QED
    BY <2>1, WidthAssumption
<1>2. g \in Slots /\ g \notin readGuards /\ g \notin writeGuards
  BY <1>1, NewSlot DEF IInv
<1>3. readGuards \in SUBSET Slots /\ lockFlag.r = Cardinality(readGuards)
  BY DEF IInv, TypeOK, FlagCountsReads, Slots
<1>4. /\ readGuards \cup {g} \in SUBSET Slots
      /\ Cardinality(readGuards \cup {g}) = lockFlag.r + 1
      /\ lockFlag.r + 1 \in 0 .. RADIX - 1
  BY <1>2, <1>3, GuardAdded, Zenon
<1>5. readGuards' = readGuards \cup {g}
  BY DEF EnterRead
<1>6. lockFlag \in [w : 0 .. RADIX - 1, r : 0 .. RADIX - 1]
  BY DEF IInv, TypeOK
<1>7. lockFlag.r + 1 < RADIX
  BY <1>4, ThreadIdAssumption
<1>8. lockFlag' = [w |-> lockFlag.w, r |-> lockFlag.r + 1]
  BY <1>6, <1>7 DEF FetchAdd
<1>9. GuardsNest'
  BY <1>1, <1>2, WidthAssumption DEF IInv, GuardsNest, Guards, EnterRead, TypeOK
<1>10. depth' \in [Threads -> 0 .. MaxDepth]
  <2>1. depth[t] + 1 \in 0 .. MaxDepth
    BY <1>1, WidthAssumption
  <2>2. QED
    BY <2>1 DEF IInv, TypeOK, EnterRead
<1>11. QED
  BY <1>1, <1>4, <1>5, <1>6, <1>8, <1>9, <1>10

\* Either way a read guard is granted: nobody else owns the lock.
LEMMA ReadGranted ==
  ASSUME IInv, NEW t \in Threads, pc[t] \in {"r_own", "r_cas"},
         \A u \in Threads : u # t => ~Owner(u),
         lockFlag' = FetchAdd(lockFlag), EnterRead(t), Goto(t, "idle"),
         UNCHANGED <<writeCount, TLS_Id, expected, crashed>>
  PROVE  IInv'
<1> USE DEF IInv, Goto
<1>1. depth[t] < MaxDepth
  BY Zenon DEF CallsInProgress
<1>2. /\ depth[t] \in 0 .. MaxDepth - 1
      /\ readGuards' \subseteq Slots
      /\ lockFlag' = [w |-> lockFlag.w, r |-> lockFlag.r + 1]
      /\ lockFlag' \in [w : 0 .. RADIX - 1, r : 0 .. RADIX - 1]
      /\ lockFlag'.r = Cardinality(readGuards')
      /\ GuardsNest'
      /\ depth' \in [Threads -> 0 .. MaxDepth]
  BY <1>1, ReadEntered
<1>4. \A u \in Threads : pc[u] # "w_release"
  BY DEF CallsInProgress, TypeOK, Owner, Writes
<1> USE DEF EnterRead
<1>5. TypeOK'
  BY <1>2 DEF TypeOK, Control, Slots
<1>6. ReadsInnermost'
  <2> SUFFICES ASSUME ~WriteUnderRead, NEW u \in Threads, Reads(u)'
               PROVE  /\ pc'[u] \notin {"w_spin", "w_count"}
                      /\ \A i, j \in 1 .. MaxDepth :
                           <<u, i>> \in writeGuards' /\ <<u, j>> \in readGuards' => i < j
    BY DEF ReadsInnermost
  <2>1. CASE u = t
    <3>1. pc'[t] = "idle"
      BY DEF TypeOK
    <3>2. \A i \in 1 .. MaxDepth : <<t, i>> \in writeGuards => i < depth[t] + 1
      BY <1>2 DEF GuardsNest, Guards
    <3>3. \A j \in 1 .. MaxDepth :
            <<t, j>> \in readGuards' => <<t, j>> \in readGuards \/ j = depth[t] + 1
      OBVIOUS
    <3>4. QED
      BY <2>1, <3>1, <3>2, <3>3 DEF ReadsInnermost, Reads
  <2>2. CASE u # t
    BY <2>2, Zenon DEF ReadsInnermost, Reads, TypeOK
  <2>3. QED
    BY <2>1, <2>2
<1>7. FlagNamesOwner'
  <2>1. \A u \in Threads : Owner(u)' <=> Owner(u)
    BY DEF Owner, Writes, TypeOK
  <2>2. \A u \in Threads : u # t => (Holds(u)' <=> Holds(u))
    BY DEF Holds, TypeOK
  <2>3. lockFlag'.w = lockFlag.w
    BY <1>2
  <2>4. QED
    BY <2>1, <2>2, <2>3 DEF FlagNamesOwner
<1>8. CountMatches'
  BY <1>4 DEF CountMatches, TypeOK
<1>9. CallsInProgress'
  BY <1>4 DEF CallsInProgress, Owner, Writes, TypeOK
<1>10. QED
  BY <1>2, <1>5, <1>6, <1>7, <1>8, <1>9
  DEF FlagCountsReads, CrashOnlyByMisuse, NoMisuseCrash

\* ReadLock by the thread that holds the write lock keeps the invariant.
LEMMA ReadLockOwnIInv ==
  ASSUME IInv, NEW t \in Threads, ReadLockOwn(t)
  PROVE  IInv'
<1>1. pc[t] = "r_own" /\ Owner(t)
  BY Zenon DEF ReadLockOwn, At, IInv, CallsInProgress
<1>2. \A u \in Threads : u # t => ~Owner(u)
  BY <1>1, ThreadIdAssumption DEF IInv, FlagNamesOwner
<1>3. QED
  BY <1>1, <1>2, ReadGranted DEF ReadLockOwn

\* ReadLock's compare-exchange, won or lost, keeps the invariant.
LEMMA ReadLockSpinIInv ==
  ASSUME IInv, NEW t \in Threads, ReadLockSpin(t)
  PROVE  IInv'
<1>1. CASE lockFlag = [w |-> 0, r |-> expected[t]]
  <2>1. \A u \in Threads : ThreadId[u] # 0
    BY ThreadIdAssumption
  <2>2. \A u \in Threads : ~Owner(u)
    BY <1>1, <2>1 DEF IInv, FlagNamesOwner
  <2>3. pc[t] = "r_cas"
    BY DEF ReadLockSpin, Matches, At
  <2>4. QED
    BY <1>1, <2>2, <2>3, ReadGranted DEF ReadLockSpin, Matches
<1>2. CASE lockFlag # [w |-> 0, r |-> expected[t]]
  <2> USE <1>2 DEF IInv, ReadLockSpin, Matches, At, Goto
  <2>1. TypeOK'
    BY DEF TypeOK, Control
  <2>2. GuardsNest' /\ CrashOnlyByMisuse' /\ FlagCountsReads'
    BY DEF GuardsNest, Guards, CrashOnlyByMisuse, NoMisuseCrash, FlagCountsReads
  <2>3. ReadsInnermost'
    BY DEF ReadsInnermost, Reads, TypeOK
  <2>4. FlagNamesOwner'
    BY Zenon DEF FlagNamesOwner, Owner, Writes, Holds, TypeOK
  <2>5. CountMatches'
    BY DEF CountMatches, TypeOK
  <2>6. CallsInProgress'
    BY DEF CallsInProgress, Owner, Writes, TypeOK
  <2>7. QED
    BY <2>1, <2>2, <2>3, <2>4, <2>5, <2>6
<1>3. QED
  BY <1>1, <1>2

\* ReadLock's load of the expected count keeps the invariant.
LEMMA ReadLockLoadIInv ==
  ASSUME IInv, NEW t \in Threads, ReadLockLoad(t)
  PROVE  IInv'
<1> USE DEF IInv, ReadLockLoad, At, Goto
<1>1. TypeOK'
  BY DEF TypeOK, Control
<1>2. GuardsNest' /\ CrashOnlyByMisuse' /\ FlagCountsReads'
  BY DEF GuardsNest, Guards, CrashOnlyByMisuse, NoMisuseCrash, FlagCountsReads
<1>3. ReadsInnermost'
  BY DEF ReadsInnermost, Reads, TypeOK
<1>4. FlagNamesOwner'
  BY Zenon DEF FlagNamesOwner, Owner, Writes, Holds, TypeOK
<1>5. CountMatches'
  BY DEF CountMatches, TypeOK
<1>6. CallsInProgress'
  BY DEF CallsInProgress, Owner, Writes, TypeOK
<1>7. QED
  BY <1>1, <1>2, <1>3, <1>4, <1>5, <1>6

\* ReadLock's entry keeps the invariant.
LEMMA ReadLockIInv ==
  ASSUME IInv, NEW t \in Threads, ReadLock(t)
  PROVE  IInv'
<1> USE DEF IInv, ReadLock, IsOwner, At, Goto
<1>1. TypeOK'
  BY DEF TypeOK, Control
<1>2. GuardsNest' /\ CrashOnlyByMisuse' /\ FlagCountsReads'
  BY DEF GuardsNest, Guards, CrashOnlyByMisuse, NoMisuseCrash, FlagCountsReads
<1>3. ReadsInnermost'
  BY DEF ReadsInnermost, Reads, TypeOK
<1>4. FlagNamesOwner'
  BY Zenon DEF FlagNamesOwner, Owner, Writes, Holds, TypeOK
<1>5. CountMatches'
  BY DEF CountMatches, TypeOK
<1>6. CallsInProgress'
  BY DEF CallsInProgress, FlagNamesOwner, Owner, Writes, TypeOK
<1>7. QED
  BY <1>1, <1>2, <1>3, <1>4, <1>5, <1>6

\* The assertion of a spin that runs out of time keeps the invariant.
LEMMA SpinTimeoutIInv ==
  ASSUME IInv, NEW t \in Threads, SpinTimeout(t)
  PROVE  IInv'
<1> USE DEF IInv, SpinTimeout, Matches, AssertCrash
<1>1. TypeOK'
  BY DEF TypeOK, Crashes
<1>2. GuardsNest' /\ CrashOnlyByMisuse' /\ FlagCountsReads'
  BY DEF GuardsNest, Guards, CrashOnlyByMisuse, NoMisuseCrash, FlagCountsReads
<1>3. ReadsInnermost' /\ FlagNamesOwner' /\ CountMatches' /\ CallsInProgress'
  BY DEF ReadsInnermost, Reads, FlagNamesOwner, Owner, Writes, Holds, CountMatches,
         CallsInProgress
<1>4. QED
  BY <1>1, <1>2, <1>3

\* The innermost guard of a thread ends.
LEMMA GuardLeft ==
  ASSUME IInv, NEW t \in Threads, <<t, depth[t]>> \in Guards, Leave(t)
  PROVE  /\ GuardsNest'
         /\ depth[t] \in 1 .. MaxDepth
         /\ depth' \in [Threads -> 0 .. MaxDepth]
<1>1. depth[t] \in 1 .. MaxDepth
  BY DEF IInv, TypeOK, Guards
<1>2. depth[t] - 1 \in 0 .. MaxDepth
  BY <1>1, WidthAssumption
<1>3. depth' \in [Threads -> 0 .. MaxDepth]
  BY <1>2 DEF IInv, TypeOK, Leave
<1>4. GuardsNest'
  <2>1. readGuards' \cap writeGuards' = {}
    BY DEF IInv, GuardsNest, Leave
  <2>2. ASSUME NEW u \in Threads, NEW i \in 1 .. MaxDepth
        PROVE  <<u, i>> \in Guards' <=> i <= depth'[u]
    <3>1. <<u, i>> \in Guards <=> i <= depth[u]
      BY DEF IInv, GuardsNest
    <3>2. <<u, i>> \in Guards' <=> <<u, i>> \in Guards /\ <<u, i>> # <<t, depth[t]>>
      BY DEF Guards, Leave
    <3>3. CASE u = t
      <4>1. depth'[t] = depth[t] - 1
        BY DEF IInv, TypeOK, Leave
      <4>2. QED
        BY <1>1, <3>1, <3>2, <3>3, <4>1, WidthAssumption
    <3>4. CASE u # t
      <4>1. depth'[u] = depth[u]
        BY <3>4 DEF IInv, TypeOK, Leave
      <4>2. QED
        BY <3>1, <3>2, <3>4, <4>1
    <3>5. QED
      BY <3>3, <3>4
  <2>3. QED
    BY <2>1, <2>2 DEF GuardsNest
<1>5. QED
  BY <1>1, <1>3, <1>4

\* ReadUnlock's fetch_sub keeps the invariant.
LEMMA ReadUnlockIInv ==
  ASSUME IInv, NEW t \in Threads, ReadUnlock(t)
  PROVE  IInv'
<1> DEFINE g == <<t, depth[t]>>
<1>1. g \in readGuards /\ g \notin writeGuards /\ g \in Guards
  BY DEF IInv, ReadUnlock, GuardsNest, Guards
<1>2. /\ readGuards \ {g} \in SUBSET Slots
      /\ Cardinality(readGuards \ {g}) = lockFlag.r - 1
      /\ lockFlag.r > 0 /\ lockFlag.r # 0
  <2>1. readGuards \in SUBSET Slots /\ lockFlag.r = Cardinality(readGuards)
    BY DEF IInv, TypeOK, Slots, FlagCountsReads
  <2>2. QED
    BY <1>1, <2>1, GuardRemoved
<1>3. /\ Leave(t)
      /\ UNCHANGED <<pc, crashed, writeCount, TLS_Id, expected>>
      /\ lockFlag' = FetchSub(lockFlag)
  BY <1>2 DEF ReadUnlock
<1>4. /\ GuardsNest'
      /\ depth[t] \in 1 .. MaxDepth
      /\ depth' \in [Threads -> 0 .. MaxDepth]
  BY <1>1, <1>3, GuardLeft
<1>5. /\ readGuards' = readGuards \ {g}
      /\ writeGuards' = writeGuards
  BY <1>1, <1>3 DEF Leave
<1>6. /\ lockFlag' = [w |-> lockFlag.w, r |-> lockFlag.r - 1]
      /\ lockFlag' \in [w : 0 .. RADIX - 1, r : 0 .. RADIX - 1]
  <2>1. lockFlag \in [w : 0 .. RADIX - 1, r : 0 .. RADIX - 1]
    BY DEF IInv, TypeOK
  <2>2. lockFlag.r - 1 \in 0 .. RADIX - 1
    BY <1>2, <2>1, ThreadIdAssumption
  <2>3. QED
    BY <1>2, <1>3, <2>1, <2>2 DEF FetchSub
<1>7. TypeOK'
  BY <1>3, <1>4, <1>5, <1>6 DEF IInv, TypeOK
<1>8. ReadsInnermost'
  BY <1>3, <1>5, Zenon DEF IInv, ReadsInnermost, Reads
<1>9. FlagCountsReads'
  BY <1>2, <1>5, <1>6 DEF FlagCountsReads
<1>10. FlagNamesOwner'
  <2>1. \A u \in Threads : Owner(u)' <=> Owner(u)
    BY <1>3, <1>5 DEF Owner, Writes
  <2>2. \A u \in Threads : Holds(u)' => Holds(u)
    <3>1. \A u \in Threads : u # t => depth'[u] = depth[u]
      BY <1>3 DEF Leave, IInv, TypeOK
    <3>2. QED
      BY <1>4, <3>1 DEF Holds
  <2>3. lockFlag'.w = lockFlag.w
    BY <1>6
  <2>4. QED
    BY <2>1, <2>2, <2>3 DEF IInv, FlagNamesOwner
<1>11. CountMatches'
  BY <1>3, <1>5 DEF IInv, CountMatches
<1>12. CallsInProgress'
  <2>1. pc[t] = "idle"
    BY DEF ReadUnlock, At
  <2>2. \A u \in Threads : u # t => depth'[u] = depth[u]
    BY <1>3 DEF Leave, IInv, TypeOK
  <2>3. \A u \in Threads : Owner(u)' <=> Owner(u)
    BY <1>3, <1>5 DEF Owner, Writes
  <2>4. \A u \in Threads : pc[u] # "w_release"
    BY <1>2, Zenon DEF IInv, CallsInProgress
  <2>5. QED
    BY <1>3, <1>5, <2>1, <2>2, <2>3, <2>4 DEF IInv, CallsInProgress
<1>13. QED
  BY <1>3, <1>4, <1>7, <1>8, <1>9, <1>10, <1>11, <1>12
  DEF IInv, CrashOnlyByMisuse, NoMisuseCrash

\* What holds of the thread whose innermost guard is a write guard.
LEMMA WriterInside ==
  ASSUME IInv, NEW t \in Threads, <<t, depth[t]>> \in writeGuards
  PROVE  /\ <<t, depth[t]>> \in Guards /\ <<t, depth[t]>> \notin readGuards
         /\ depth[t] \in 1 .. MaxDepth
         /\ Writes(t) /\ Owner(t)
         /\ \A u \in Threads : u # t => ~Owner(u) /\ ~Writes(u) /\ ~Holds(u)
         /\ \A u \in Threads : u # t => pc[u] # "w_release" /\ pc[u] # "r_own"
<1>1. <<t, depth[t]>> \in Guards /\ <<t, depth[t]>> \notin readGuards
  BY DEF IInv, GuardsNest, Guards
<1>2. depth[t] \in 1 .. MaxDepth
  BY DEF IInv, TypeOK
<1>3. Writes(t) /\ Owner(t)
  BY <1>2 DEF Writes, Owner
<1>4. \A u \in Threads : u # t => ~Owner(u) /\ ~Writes(u) /\ ~Holds(u)
  BY <1>3, ThreadIdAssumption DEF IInv, FlagNamesOwner, Owner
<1>5. \A u \in Threads : u # t => pc[u] # "w_release" /\ pc[u] # "r_own"
  BY <1>4 DEF IInv, CallsInProgress, TypeOK, Writes
<1>6. QED
  BY <1>1, <1>2, <1>3, <1>4, <1>5

\* The assertion of WriteUnlock fires only below a read guard of the writer.
LEMMA WriteUnlockMisuse ==
  ASSUME IInv, NEW t \in Threads, <<t, depth[t]>> \in writeGuards, lockFlag.r # 0
  PROVE  WriteUnderRead
<1>1. readGuards # {}
  <2>1. Cardinality({}) = 0
    BY FS_EmptySet
  <2>2. QED
    BY <2>1 DEF IInv, FlagCountsReads
<1>2. PICK u \in Threads, j \in 1 .. MaxDepth : <<u, j>> \in readGuards
  <2>1. PICK g \in readGuards : TRUE
    BY <1>1
  <2>2. PICK u \in Threads, j \in 1 .. MaxDepth : g = <<u, j>>
    BY <2>1 DEF IInv, TypeOK
  <2>3. QED
    BY <2>1, <2>2
<1>3. j <= depth[u] /\ depth[u] \in 0 .. MaxDepth
  BY <1>2 DEF IInv, GuardsNest, Guards, TypeOK
<1>4. Holds(u)
  BY <1>3 DEF Holds
<1>5. u = t /\ depth[t] \in 1 .. MaxDepth
  BY <1>4, WriterInside
<1>6. SUFFICES ASSUME ~WriteUnderRead PROVE FALSE
  BY UsageAssumption
<1>7. depth[t] < j
  BY <1>2, <1>5, <1>6 DEF IInv, ReadsInnermost, Reads
<1>8. QED
  BY <1>3, <1>5, <1>7

\* WriteUnlock's decrement of _writeCount keeps the invariant.
LEMMA WriteUnlockIInv ==
  ASSUME IInv, NEW t \in Threads, WriteUnlock(t)
  PROVE  IInv'
<1> DEFINE g == <<t, depth[t]>>
<1>1. /\ g \in writeGuards /\ pc[t] = "idle" /\ crashed = "none"
      /\ UNCHANGED <<lockFlag, TLS_Id, expected>>
  BY DEF WriteUnlock, Last, At
<1>2. /\ g \in Guards /\ g \notin readGuards
      /\ depth[t] \in 1 .. MaxDepth
      /\ Writes(t) /\ Owner(t)
      /\ \A u \in Threads : u # t => ~Owner(u) /\ ~Writes(u) /\ ~Holds(u)
      /\ \A u \in Threads : u # t => pc[u] # "w_release" /\ pc[u] # "r_own"
  BY <1>1, WriterInside
<1>3. CASE lockFlag.r # 0
  <2>1. WriteUnderRead
    BY <1>1, <1>3, WriteUnlockMisuse
  <2>2. /\ UNCHANGED <<lockFlag, writeCount, TLS_Id, pc, expected, depth, readGuards, writeGuards>>
        /\ crashed' = "THREAD_LOCK_INVALID_WRITE_UNLOCK_ORDER"
    BY <1>3 DEF WriteUnlock, Last, AssertCrash
  <2>3. TypeOK'
    BY <2>2 DEF IInv, TypeOK, Crashes
  <2>4. GuardsNest' /\ ReadsInnermost' /\ FlagCountsReads' /\ CrashOnlyByMisuse'
    BY <2>1, <2>2 DEF IInv, GuardsNest, Guards, ReadsInnermost, FlagCountsReads, CrashOnlyByMisuse
  <2>5. FlagNamesOwner' /\ CountMatches' /\ CallsInProgress'
    BY <2>2 DEF IInv, FlagNamesOwner, Owner, Writes, Holds, CountMatches, CallsInProgress
  <2>6. QED
    BY <2>3, <2>4, <2>5 DEF IInv
<1>4. CASE lockFlag.r = 0
  <2>1. /\ writeCount' = (writeCount - 1) % RADIX
        /\ crashed' = "none"
    BY <1>1, <1>4 DEF WriteUnlock, Last
  <2>2. /\ writeGuards \in SUBSET Slots
        /\ writeCount = Cardinality(writeGuards)
        /\ writeCount \in 0 .. RADIX - 1
    BY <1>1, <1>2 DEF IInv, TypeOK, Slots, CountMatches
  <2>3. /\ Cardinality(writeGuards \ {g}) = writeCount - 1
        /\ writeCount # 0
    BY <1>1, <2>2, GuardRemoved
  <2>4. writeCount - 1 \in 0 .. RADIX - 1
    BY <2>2, <2>3, ThreadIdAssumption
  <2>5. writeCount' = writeCount - 1
    BY <2>1, <2>4, NoWrap
  <2>6. CASE writeCount' = 0
    <3>1. /\ pc' = [pc EXCEPT ![t] = "w_release"]
          /\ UNCHANGED <<lockFlag, TLS_Id, expected, depth, readGuards, writeGuards>>
      BY <1>4, <2>6 DEF WriteUnlock, Last, Goto
    <3>2. TypeOK'
      BY <2>1, <2>4, <2>5, <3>1 DEF IInv, TypeOK, Control, Crashes
    <3>3. GuardsNest' /\ FlagCountsReads' /\ CrashOnlyByMisuse'
      BY <2>1, <3>1 DEF IInv, GuardsNest, Guards, FlagCountsReads, CrashOnlyByMisuse, NoMisuseCrash
    <3>4. ReadsInnermost'
      BY <3>1 DEF IInv, ReadsInnermost, Reads, TypeOK
    <3>5. \A u \in Threads : Owner(u)' <=> Owner(u)
      BY <1>2, <3>1, Zenon DEF Owner, Writes, IInv, TypeOK
    <3>6. FlagNamesOwner'
      BY <3>1, <3>5 DEF IInv, FlagNamesOwner, Holds
    <3>7. CountMatches'
      <4>1. Cardinality(writeGuards) = 1
        BY <2>2, <2>5, <2>6
      <4>2. pc'[t] = "w_release"
        BY <3>1 DEF IInv, TypeOK
      <4>3. QED
        BY <2>6, <3>1, <4>1, <4>2 DEF CountMatches
    <3>8. CallsInProgress'
      BY <1>1, <1>4, <3>1, <3>5 DEF IInv, CallsInProgress, TypeOK
    <3>9. QED
      BY <3>2, <3>3, <3>4, <3>6, <3>7, <3>8 DEF IInv
  <2>7. CASE writeCount' # 0
    <3>1. /\ Leave(t)
          /\ UNCHANGED <<lockFlag, TLS_Id, expected, pc>>
      BY <1>4, <2>7 DEF WriteUnlock, Last
    <3>2. /\ writeGuards' = writeGuards \ {g}
          /\ readGuards' = readGuards
      BY <1>2, <3>1 DEF Leave
    <3>3. GuardsNest' /\ depth' \in [Threads -> 0 .. MaxDepth]
      BY <1>2, <3>1, GuardLeft
    <3>4. TypeOK'
      BY <2>1, <2>4, <2>5, <3>1, <3>2, <3>3 DEF IInv, TypeOK, Crashes
    <3>5. FlagCountsReads' /\ CrashOnlyByMisuse' /\ ReadsInnermost'
      BY <2>1, <3>1, <3>2, Zenon
      DEF IInv, FlagCountsReads, CrashOnlyByMisuse, NoMisuseCrash, ReadsInnermost, Reads
    <3>6. Writes(t)'
      <4>1. writeGuards \ {g} # {}
        BY <2>3, <2>5, <2>7, FS_EmptySet, Zenon
      <4>2. PICK h \in writeGuards : h # g
        BY <4>1
      <4>3. PICK u \in Threads, i \in 1 .. MaxDepth : h = <<u, i>>
        BY <4>2 DEF IInv, TypeOK
      <4>4. u = t
        BY <1>2, <4>2, <4>3 DEF Writes
      <4>5. QED
        BY <3>2, <4>2, <4>3, <4>4 DEF Writes
    <3>7. \A u \in Threads : Owner(u)' <=> Owner(u)
      BY <1>2, <3>1, <3>2, <3>6 DEF Owner, Writes
    <3>8. \A u \in Threads : u # t => depth'[u] = depth[u]
      BY <3>1 DEF Leave, IInv, TypeOK
    <3>9. FlagNamesOwner'
      BY <1>2, <3>1, <3>7, <3>8 DEF IInv, FlagNamesOwner, Holds
    <3>10. CountMatches'
      BY <1>1, <1>2, <2>3, <2>5, <3>1, <3>2 DEF CountMatches
    <3>11. CallsInProgress'
      BY <1>1, <1>2, <3>1, <3>7, <3>8 DEF IInv, CallsInProgress
    <3>12. QED
      BY <3>3, <3>4, <3>5, <3>9, <3>10, <3>11 DEF IInv
  <2>8. QED
    BY <2>6, <2>7
<1>5. QED
  BY <1>3, <1>4

\* WriteUnlock's store of EMPTY after the last write guard keeps the invariant.
LEMMA WriteUnlockStoreIInv ==
  ASSUME IInv, NEW t \in Threads, WriteUnlockStore(t)
  PROVE  IInv'
<1> DEFINE g == <<t, depth[t]>>
<1>1. /\ pc[t] = "w_release" /\ lockFlag.r = 0 /\ g \in writeGuards
      /\ lockFlag' = EMPTY /\ Leave(t) /\ pc' = [pc EXCEPT ![t] = "idle"]
      /\ UNCHANGED <<writeCount, TLS_Id, expected, crashed>>
  BY DEF WriteUnlockStore, At, Goto, IInv, CallsInProgress
<1>2. /\ g \in Guards /\ g \notin readGuards
      /\ depth[t] \in 1 .. MaxDepth
      /\ Writes(t) /\ Owner(t)
      /\ \A u \in Threads : u # t => ~Owner(u) /\ ~Writes(u) /\ ~Holds(u)
      /\ \A u \in Threads : u # t => pc[u] # "w_release" /\ pc[u] # "r_own"
  BY <1>1, WriterInside
<1>3. writeCount = 0 /\ Cardinality(writeGuards) = 1
  BY <1>1 DEF IInv, CountMatches
<1>4. writeGuards' = {} /\ readGuards' = {} /\ Cardinality({}) = 0
  <2>1. writeGuards \in SUBSET Slots /\ readGuards \in SUBSET Slots
    BY DEF IInv, TypeOK, Slots
  <2>2. readGuards = {}
    BY <1>1, <2>1, GuardsZero, Zenon DEF IInv, FlagCountsReads
  <2>3. writeGuards \ {g} \in SUBSET Slots /\ Cardinality(writeGuards \ {g}) = 0
    BY <1>1, <1>3, <2>1, GuardRemoved
  <2>4. writeGuards \ {g} = {}
    BY <2>3, GuardsZero
  <2>5. QED
    BY <1>1, <2>2, <2>4, FS_EmptySet DEF Leave
<1>5. GuardsNest' /\ depth' \in [Threads -> 0 .. MaxDepth]
  BY <1>1, <1>2, GuardLeft
<1>6. TypeOK'
  <2>1. 0 \in 0 .. RADIX - 1
    BY ThreadIdAssumption
  <2>2. QED
    BY <1>1, <1>4, <1>5, <2>1, Zenon DEF IInv, TypeOK, EMPTY, Control
<1>7. FlagCountsReads' /\ ReadsInnermost' /\ CrashOnlyByMisuse'
  BY <1>1, <1>4 DEF IInv, FlagCountsReads, EMPTY, ReadsInnermost, Reads, CrashOnlyByMisuse,
                    NoMisuseCrash
<1>8. \A u \in Threads : ~Owner(u)'
  BY <1>1, <1>2, <1>4 DEF Owner, Writes, IInv, TypeOK
<1>9. FlagNamesOwner'
  <2>1. \A u \in Threads : ThreadId[u] # 0
    BY ThreadIdAssumption
  <2>2. QED
    BY <1>1, <1>8, <2>1 DEF FlagNamesOwner, EMPTY
<1>10. CountMatches'
  BY <1>1, <1>2, <1>3, <1>4 DEF CountMatches, IInv, TypeOK
<1>11. CallsInProgress'
  <2>1. \A u \in Threads : u # t => depth'[u] = depth[u]
    BY <1>1 DEF Leave, IInv, TypeOK
  <2>2. \A u \in Threads : pc'[u] # "w_release" /\ pc'[u] # "r_own"
    BY <1>1, <1>2 DEF IInv, TypeOK
  <2>3. QED
    BY <1>1, <1>8, <2>1, <2>2 DEF IInv, CallsInProgress, TypeOK
<1>12. QED
  BY <1>5, <1>6, <1>7, <1>9, <1>10, <1>11 DEF IInv

\* A stuttering step keeps the invariant.
LEMMA StutterIInv ==
  ASSUME IInv, UNCHANGED vars
  PROVE  IInv'
BY Zenon DEF vars, IInv, TypeOK, GuardsNest, Guards, ReadsInnermost, Reads, FlagCountsReads,
       FlagNamesOwner, Owner, Writes, Holds, CountMatches, CallsInProgress,
       CrashOnlyByMisuse, NoMisuseCrash

\* Every step of the lock keeps the invariant: one case per action.
LEMMA NextIInv ==
  ASSUME IInv, Next
  PROVE  IInv'
<1> PICK t \in Threads : Proceed(t) \/ Request(t) \/ SpinTimeout(t)
  BY DEF Next
<1>1. CASE Proceed(t)
  BY <1>1, WriteLockSpinIInv, WriteLockCountIInv, WriteUnlockIInv, WriteUnlockStoreIInv,
     ReadLockOwnIInv, ReadLockLoadIInv, ReadLockSpinIInv, ReadUnlockIInv DEF Proceed
<1>2. CASE Request(t)
  BY <1>2, WriteLockIInv, ReadLockIInv DEF Request
<1>3. CASE SpinTimeout(t)
  BY <1>3, SpinTimeoutIInv
<1>4. QED
  BY <1>1, <1>2, <1>3

-----------------------------------------------------------------------------
\* Whatever the number of threads and of nested guards, every reachable state
\* of the lock satisfies the inductive invariant.
THEOREM Inductive == Spec => []IInv
<1>1. IInv /\ [Next]_vars => IInv'
  BY NextIInv, StutterIInv
<1>2. QED
  BY <1>1, InitIInv, PTL DEF Spec

\* The words stay within their 16-bit halves and every thread within its code.
THEOREM TypeCorrect == Spec => []TypeOK
<1>1. IInv => TypeOK
  BY DEF IInv
<1>2. QED
  BY <1>1, Inductive, PTL

\* A writer excludes every other holder, readers included.
THEOREM Exclusion == Spec => []MutualExclusion
<1>1. IInv => MutualExclusion
  BY DEF IInv, FlagNamesOwner, MutualExclusion, Owner
<1>2. QED
  BY <1>1, Inductive, PTL

\* Callers that open no write guard inside a read guard never meet the misuse
\* assertions of the two unlock functions.
THEOREM NoMisuse ==
  ASSUME ~WriteUnderRead
  PROVE  Spec => []NoMisuseCrash
<1>1. IInv => NoMisuseCrash
  BY DEF IInv, CrashOnlyByMisuse
<1>2. QED
  BY <1>1, Inductive, PTL

\* Such callers never wait for a guard of their own.
THEOREM NoSelfWait ==
  ASSUME ~WriteUnderRead
  PROVE  Spec => []HolderNeverBlocked
<1>1. IInv => HolderNeverBlocked
  <2> SUFFICES ASSUME IInv, NEW t \in Threads, Holds(t)
               PROVE  /\ pc[t] # "w_spin"
                      /\ pc[t] \in {"r_load", "r_cas"} => lockFlag.w = 0
    BY DEF HolderNeverBlocked
  <2>1. Reads(t) \/ Writes(t)
    BY HolderHasGuard
  <2>2. pc[t] # "w_spin"
    BY <2>1, Zenon DEF IInv, CallsInProgress, ReadsInnermost, Owner
  <2>3. pc[t] \in {"r_load", "r_cas"} => lockFlag.w = 0
    BY Zenon DEF IInv, CallsInProgress, FlagNamesOwner
  <2>4. QED
    BY <2>2, <2>3
<1>2. QED
  BY <1>1, Inductive, PTL

\* Once the last guard has ended the lock is as good as new.
THEOREM Released == Spec => []FreeWhenUnused
<1>1. IInv => FreeWhenUnused
  <2> SUFFICES ASSUME IInv, Guards = {},
                      \A t \in Threads : pc[t] \in {"idle", "w_spin", "r_load", "r_cas"}
               PROVE  lockFlag = EMPTY /\ writeCount = 0
    BY DEF FreeWhenUnused
  <2>1. readGuards = {} /\ writeGuards = {} /\ Cardinality({}) = 0
    BY FS_EmptySet DEF Guards
  <2>2. \A t \in Threads : ~Owner(t)
    BY <2>1 DEF Owner, Writes
  <2>3. lockFlag.w = 0 /\ lockFlag.r = 0 /\ writeCount = 0
    BY <2>1, <2>2 DEF IInv, FlagNamesOwner, FlagCountsReads, CountMatches
  <2>4. lockFlag = [w |-> lockFlag.w, r |-> lockFlag.r]
    BY DEF IInv, TypeOK
  <2>5. QED
    BY <2>3, <2>4 DEF EMPTY
<1>2. QED
  BY <1>1, Inductive, PTL

-----------------------------------------------------------------------------
\* In a state where t is the only owner no other thread has a guard.
LEMMA OwnerAlone ==
  ASSUME IInv, NEW t \in Threads, Owner(t)
  PROVE  \A u \in Threads \ {t}, i \in 1 .. MaxDepth : <<u, i>> \notin Guards
<1>1. \A u \in Threads \ {t} : depth[u] \in 0 .. MaxDepth /\ ~(depth[u] > 0)
  BY DEF IInv, FlagNamesOwner, Holds, TypeOK
<1>2. \A u \in Threads \ {t}, i \in 1 .. MaxDepth : ~(i <= depth[u])
  BY <1>1
<1>3. QED
  BY <1>2, Zenon DEF IInv, GuardsNest

\* Each step of the lock is a grant, the end of a guard, or invisible to the
\* callers.
LEMMA StepImplements ==
  ASSUME IInv, Next
  PROVE  Abstract!Next \/ UNCHANGED Abstract!vars
<1> PICK t \in Threads : Proceed(t) \/ Request(t) \/ SpinTimeout(t)
  BY DEF Next
<1>1. CASE WriteLockCount(t)
  <2>1. Owner(t)
    BY <1>1 DEF WriteLockCount, At, Owner
  <2>2. Abstract!GrantWrite(t)
    BY <1>1, <2>1, OwnerAlone
    DEF WriteLockCount, EnterWrite, Abstract!GrantWrite, Abstract!Levels, Guards
  <2>3. QED
    BY <2>2 DEF Abstract!Next
<1>2. CASE ReadLockOwn(t)
  <2>1. Owner(t)
    BY <1>2, Zenon DEF ReadLockOwn, At, IInv, CallsInProgress
  <2>2. Abstract!GrantRead(t)
    BY <1>2, <2>1, OwnerAlone
    DEF ReadLockOwn, EnterRead, Abstract!GrantRead, Abstract!Levels, Guards
  <2>3. QED
    BY <2>2 DEF Abstract!Next
<1>3. CASE ReadLockSpin(t) /\ lockFlag = [w |-> 0, r |-> expected[t]]
  <2>1. \A u \in Threads : ThreadId[u] # 0
    BY ThreadIdAssumption
  <2>2. \A u \in Threads : ~Writes(u)
    BY <1>3, <2>1 DEF IInv, FlagNamesOwner, Owner
  <2>3. Abstract!GrantRead(t)
    BY <1>3, <2>2
    DEF ReadLockSpin, Matches, EnterRead, Abstract!GrantRead, Abstract!Levels, Writes
  <2>4. QED
    BY <2>3 DEF Abstract!Next
<1>4. CASE WriteUnlock(t) \/ WriteUnlockStore(t) \/ ReadUnlock(t)
  <2>1. \/ UNCHANGED Abstract!vars
        \/ Leave(t) /\ <<t, depth[t]>> \in Guards
    BY <1>4 DEF WriteUnlock, Last, WriteUnlockStore, ReadUnlock, AssertCrash, At, IInv,
                CallsInProgress, Abstract!vars, Guards
  <2>2. <<t, depth[t]>> \in Guards => depth[t] > 0
    BY DEF IInv, TypeOK, Guards
  <2>3. QED
    BY <2>1, <2>2 DEF Leave, Abstract!End, Abstract!Next
<1>5. CASE \/ WriteLockSpin(t) \/ ReadLockLoad(t) \/ Request(t) \/ SpinTimeout(t)
           \/ ReadLockSpin(t) /\ lockFlag # [w |-> 0, r |-> expected[t]]
  BY <1>5 DEF WriteLockSpin, ReadLockLoad, Request, WriteLock, IsOwner, ReadLock,
              SpinTimeout, AssertCrash, ReadLockSpin, Matches, Abstract!vars
<1>6. QED
  BY <1>1, <1>2, <1>3, <1>4, <1>5 DEF Proceed

\* The lock implements the abstract reentrant read-write lock.
THEOREM Refinement == Spec => Implements
<1>1. Init => Abstract!Init
  BY DEF Init, Abstract!Init
<1>2. IInv /\ [Next]_vars => [Abstract!Next]_(Abstract!vars)
  BY StepImplements DEF vars, Abstract!vars
<1>3. QED
  BY <1>1, <1>2, Inductive, PTL DEF Spec, Implements, Abstract!Spec
=============================================================================
