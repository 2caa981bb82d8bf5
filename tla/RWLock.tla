------------------------------- MODULE RWLock -------------------------------
(***************************************************************************)
(* The reentrant read-write spin lock of RWLock.h / RWLock.cpp, taken and  *)
(* released through the scoped guards of Lock.h.                           *)
(*                                                                         *)
(* _lockFlag is one 32-bit atomic word [WWWW'RRRR].  It is modelled by its *)
(* two 16-bit digits, the writer's thread id w and the read count r, with  *)
(* the carry and the borrow between them; RADIX stands for 2^16.  Each     *)
(* atomic access of the code (load, compare_exchange, fetch_add, fetch_sub,*)
(* store) is an action of its own, so that threads interleave between      *)
(* them.  readGuards and writeGuards record the live guards as pairs of a  *)
(* thread and a nesting level: scopes end in the reverse order they began. *)
(***************************************************************************)
EXTENDS Integers, FiniteSets

CONSTANTS
  Threads,         \* threads that use the lock
  ThreadId,        \* the id TaskManager hands to each thread
  RADIX,           \* 2^16 in the code: the base of both halves of _lockFlag
  MaxDepth,        \* bound: guards one thread nests on this lock
  WriteUnderRead   \* whether callers ask for a write guard inside a read guard

ASSUME ThreadsAssumption == IsFiniteSet(Threads)

\* TaskManager.cpp:5-7: ids start at 1 and each thread gets a fresh one.
ASSUME ThreadIdAssumption ==
  /\ RADIX \in Nat \ {0}
  /\ ThreadId \in [Threads -> 1 .. RADIX - 1]
  /\ \A t, u \in Threads : ThreadId[t] = ThreadId[u] => t = u

\* Neither the read count nor _writeCount can reach the end of its 16 bits.
ASSUME WidthAssumption ==
  /\ MaxDepth \in Nat
  /\ Cardinality(Threads) * MaxDepth < RADIX

ASSUME UsageAssumption == WriteUnderRead \in BOOLEAN

VARIABLES
  lockFlag,     \* _lockFlag, as [w |-> thread id, r |-> read count]
  writeCount,   \* _writeCount
  TLS_Id,       \* thread-local id of every thread
  pc,           \* what each thread is about to do in the lock's code
  expected,     \* ReadLock's local variable of that name
  depth,        \* number of live guards of each thread
  readGuards,   \* live ReadLock guards, <<thread, level>>
  writeGuards,  \* live WriteLock guards, <<thread, level>>
  crashed       \* the error AssertCrash ended the process with, or "none"

vars == <<lockFlag, writeCount, TLS_Id, pc, expected, depth, readGuards,
          writeGuards, crashed>>

EMPTY == [w |-> 0, r |-> 0]

Control == {"idle", "w_spin", "w_count", "w_release", "r_own", "r_load", "r_cas"}

Crashes == {"none", "THREAD_LOCK_TIMEOUT",
            "THREAD_LOCK_INVALID_WRITE_UNLOCK_ORDER",
            "THREAD_LOCK_MULTIPLE_READ_UNLOCK"}

\* _lockFlag.fetch_add(1) and fetch_sub(1) on the two halves of the word.
FetchAdd(f) ==
  IF f.r + 1 < RADIX THEN [f EXCEPT !.r = @ + 1]
                     ELSE [w |-> (f.w + 1) % RADIX, r |-> 0]

FetchSub(f) ==
  IF f.r > 0 THEN [f EXCEPT !.r = @ - 1]
             ELSE [w |-> (f.w - 1) % RADIX, r |-> RADIX - 1]

\* Mutant: the owner is not recognised.
OwnerMissed(t) == FALSE

\* The test of the first load: the calling thread is the writer.
IsOwner(t) == lockFlag.w = TLS_Id[t]

\* Mutant: only the read half of the word is compared.
MatchesHalf(t) == lockFlag.r = expected[t]

\* The compare_exchange of ReadLock finds the whole word as expected.
Matches(t) == lockFlag = [w |-> 0, r |-> expected[t]]

\* Mutants: the first unlock of a nest releases, and _writeCount-- in place of
\* --_writeCount.
LastAlways(before, after) == TRUE
LastPostfix(before, after) == before = 0

\* --_writeCount == 0.
Last(before, after) == after = 0

Guards == readGuards \cup writeGuards

Holds(t) == depth[t] > 0
Reads(t) == \E i \in 1 .. MaxDepth : <<t, i>> \in readGuards
Writes(t) == \E i \in 1 .. MaxDepth : <<t, i>> \in writeGuards

\* The constructor of a guard returns, the destructor of a guard returns.
EnterRead(t) ==
  /\ readGuards' = readGuards \cup {<<t, depth[t] + 1>>}
  /\ depth' = [depth EXCEPT ![t] = @ + 1]
  /\ UNCHANGED writeGuards

EnterWrite(t) ==
  /\ writeGuards' = writeGuards \cup {<<t, depth[t] + 1>>}
  /\ depth' = [depth EXCEPT ![t] = @ + 1]
  /\ UNCHANGED readGuards

Leave(t) ==
  /\ readGuards' = readGuards \ {<<t, depth[t]>>}
  /\ writeGuards' = writeGuards \ {<<t, depth[t]>>}
  /\ depth' = [depth EXCEPT ![t] = @ - 1]

At(t, where) == crashed = "none" /\ pc[t] = where

Goto(t, where) == pc' = [pc EXCEPT ![t] = where]

AssertCrash(error) ==
  /\ crashed' = error
  /\ UNCHANGED <<pc, depth, readGuards, writeGuards>>

Init ==
  /\ lockFlag = EMPTY
  /\ writeCount = 0
  /\ TLS_Id = ThreadId
  /\ pc = [t \in Threads |-> "idle"]
  /\ expected = [t \in Threads |-> 0]
  /\ depth = [t \in Threads |-> 0]
  /\ readGuards = {}
  /\ writeGuards = {}
  /\ crashed = "none"

-----------------------------------------------------------------------------
\* WriteLock: the first load decides between the owner's path and the spin.
WriteLock(t) ==
  /\ At(t, "idle")
  /\ depth[t] < MaxDepth
  /\ WriteUnderRead \/ ~Reads(t)
  /\ Goto(t, IF IsOwner(t) THEN "w_count" ELSE "w_spin")
  /\ UNCHANGED <<lockFlag, writeCount, TLS_Id, expected, depth, readGuards,
                 writeGuards, crashed>>

\* The compare_exchange of the spin loop succeeds; a failure changes nothing.
WriteLockSpin(t) ==
  /\ At(t, "w_spin")
  /\ lockFlag = EMPTY
  /\ lockFlag' = [w |-> TLS_Id[t], r |-> 0]
  /\ Goto(t, "w_count")
  /\ UNCHANGED <<writeCount, TLS_Id, expected, depth, readGuards, writeGuards,
                 crashed>>

\* _writeCount++ and return, on either path.
WriteLockCount(t) ==
  /\ At(t, "w_count")
  /\ writeCount' = (writeCount + 1) % RADIX
  /\ EnterWrite(t)
  /\ Goto(t, "idle")
  /\ UNCHANGED <<lockFlag, TLS_Id, expected, crashed>>

\* WriteUnlock up to the test of the decremented _writeCount.
WriteUnlock(t) ==
  /\ At(t, "idle")
  /\ <<t, depth[t]>> \in writeGuards
  /\ \/ /\ lockFlag.r # 0
        /\ AssertCrash("THREAD_LOCK_INVALID_WRITE_UNLOCK_ORDER")
        /\ UNCHANGED writeCount
     \/ /\ lockFlag.r = 0
        /\ writeCount' = (writeCount - 1) % RADIX
        /\ \/ /\ Last(writeCount, writeCount')
              /\ Goto(t, "w_release")
              /\ UNCHANGED <<depth, readGuards, writeGuards>>
           \/ /\ ~Last(writeCount, writeCount')
              /\ Leave(t)
              /\ UNCHANGED pc
        /\ UNCHANGED crashed
  /\ UNCHANGED <<lockFlag, TLS_Id, expected>>

\* _lockFlag.store(EMPTY).
WriteUnlockStore(t) ==
  /\ At(t, "w_release")
  /\ lockFlag' = EMPTY
  /\ Leave(t)
  /\ Goto(t, "idle")
  /\ UNCHANGED <<writeCount, TLS_Id, expected, crashed>>

\* ReadLock: the first load decides between the owner's path and the spin.
ReadLock(t) ==
  /\ At(t, "idle")
  /\ depth[t] < MaxDepth
  /\ Goto(t, IF IsOwner(t) THEN "r_own" ELSE "r_load")
  /\ UNCHANGED <<lockFlag, writeCount, TLS_Id, expected, depth, readGuards,
                 writeGuards, crashed>>

ReadLockOwn(t) ==
  /\ At(t, "r_own")
  /\ lockFlag' = FetchAdd(lockFlag)
  /\ EnterRead(t)
  /\ Goto(t, "idle")
  /\ UNCHANGED <<writeCount, TLS_Id, expected, crashed>>

ReadLockLoad(t) ==
  /\ At(t, "r_load")
  /\ expected' = [expected EXCEPT ![t] = lockFlag.r]
  /\ Goto(t, "r_cas")
  /\ UNCHANGED <<lockFlag, writeCount, TLS_Id, depth, readGuards, writeGuards,
                 crashed>>

\* compare_exchange(expected, expected + 1) against the whole word.
ReadLockSpin(t) ==
  /\ At(t, "r_cas")
  /\ \/ /\ Matches(t)
        /\ lockFlag' = FetchAdd(lockFlag)
        /\ EnterRead(t)
        /\ Goto(t, "idle")
     \/ /\ ~Matches(t)
        /\ Goto(t, "r_load")
        /\ UNCHANGED <<lockFlag, depth, readGuards, writeGuards>>
  /\ UNCHANGED <<writeCount, TLS_Id, expected, crashed>>

ReadUnlock(t) ==
  /\ At(t, "idle")
  /\ <<t, depth[t]>> \in readGuards
  /\ lockFlag' = FetchSub(lockFlag)
  /\ \/ /\ lockFlag.r = 0
        /\ AssertCrash("THREAD_LOCK_MULTIPLE_READ_UNLOCK")
     \/ /\ lockFlag.r # 0
        /\ Leave(t)
        /\ UNCHANGED <<pc, crashed>>
  /\ UNCHANGED <<writeCount, TLS_Id, expected>>

\* TIMEOUT_TICK passed without a successful compare_exchange.
SpinTimeout(t) ==
  /\ \/ At(t, "w_spin") /\ lockFlag # EMPTY
     \/ At(t, "r_cas") /\ ~Matches(t)
  /\ AssertCrash("THREAD_LOCK_TIMEOUT")
  /\ UNCHANGED <<lockFlag, writeCount, TLS_Id, expected>>

\* The steps a thread inside the lock's code, or inside a guard, goes on with.
Proceed(t) ==
  \/ WriteLockSpin(t)
  \/ WriteLockCount(t)
  \/ WriteUnlock(t)
  \/ WriteUnlockStore(t)
  \/ ReadLockOwn(t)
  \/ ReadLockLoad(t)
  \/ ReadLockSpin(t)
  \/ ReadUnlock(t)

Request(t) == WriteLock(t) \/ ReadLock(t)

Next == \E t \in Threads : Proceed(t) \/ Request(t) \/ SpinTimeout(t)

Spec == Init /\ [][Next]_vars

\* Guards are scopes that end, and a scheduled thread goes on spinning.  Only
\* calls of the lock are optional.
LiveSpec ==
  /\ Spec
  /\ \A t \in Threads : WF_vars(Proceed(t))

-----------------------------------------------------------------------------
TypeOK ==
  /\ lockFlag \in [w : 0 .. RADIX - 1, r : 0 .. RADIX - 1]
  /\ writeCount \in 0 .. RADIX - 1
  /\ TLS_Id = ThreadId
  /\ pc \in [Threads -> Control]
  /\ expected \in [Threads -> 0 .. RADIX - 1]
  /\ depth \in [Threads -> 0 .. MaxDepth]
  /\ readGuards \subseteq Threads \X (1 .. MaxDepth)
  /\ writeGuards \subseteq Threads \X (1 .. MaxDepth)
  /\ crashed \in Crashes

\* While a thread is inside a WRITE_LOCK scope no other thread is inside any
\* scope of the same lock (RWLock.cpp:20-31, 78-90).
MutualExclusion ==
  \A t, u \in Threads : Writes(t) /\ t # u => ~Holds(u)

\* With scoped guards, and no write guard asked for inside a read guard, the
\* two misuse assertions of WriteUnlock and ReadUnlock never fire
\* (RWLock.cpp:51-54, 107-110): reentrancy of a writer, as its own reader too,
\* is balanced by the counts the unlock functions test.
NoMisuseCrash == crashed \in {"none", "THREAD_LOCK_TIMEOUT"}

\* A thread that already holds a guard never finds itself waiting: a writer's
\* nested calls take the owner's path, and a reader's nested ReadLock meets no
\* writer.  Otherwise it would wait for itself until THREAD_LOCK_TIMEOUT
\* (RWLock.cpp:36-40, 92-96).
HolderNeverBlocked ==
  \A t \in Threads : Holds(t) =>
    /\ pc[t] # "w_spin"
    /\ pc[t] \in {"r_load", "r_cas"} => lockFlag.w = 0

\* When the last guard is gone the lock is back in its initial state, so the
\* next thread can take it (RWLock.cpp:57-63, 105).
FreeWhenUnused ==
  (Guards = {} /\ \A t \in Threads : pc[t] \in {"idle", "w_spin", "r_load", "r_cas"})
    => lockFlag = EMPTY /\ writeCount = 0

\* The lock does not need its timeout to go on: if some thread spins for ever in
\* a process that no timeout has ended, other threads are granted guards for ever
\* (RWLock.cpp:18-43, 77-99).
Spinning(t) == pc[t] \in {"w_spin", "r_load", "r_cas"}

SpinOnlyBehindProgress ==
  <>[](crashed = "none" /\ \E t \in Threads : Spinning(t))
    => []<><<Guards' # Guards /\ Guards \subseteq Guards'>>_vars

\* What the comment of WriteUnlock says of its assertion: it fires when another
\* thread is reading while this one writes (RWLock.cpp:48-50).
InvalidOrderMeansOtherReader ==
  crashed = "THREAD_LOCK_INVALID_WRITE_UNLOCK_ORDER" =>
    \E t, u \in Threads : t # u /\ Writes(t) /\ Reads(u)

\* RWLock implements the abstract lock: each guard is granted in one step, at
\* a moment when the abstract lock may grant it.
Abstract == INSTANCE RWLockAbstract
Implements == Abstract!Spec

-----------------------------------------------------------------------------
(* The inductive invariant behind the safety properties.                   *)

\* The thread whose id is in the flag, seen from the thread's own state.
Owner(t) == Writes(t) \/ pc[t] = "w_count"

\* Each level up to a thread's depth is one live guard.
GuardsNest ==
  /\ readGuards \cap writeGuards = {}
  /\ \A t \in Threads, i \in 1 .. MaxDepth : <<t, i>> \in Guards <=> i <= depth[t]

\* No write guard is opened inside a read guard, unless callers do so.
ReadsInnermost ==
  WriteUnderRead \/
    \A t \in Threads : Reads(t) =>
      /\ pc[t] \notin {"w_spin", "w_count"}
      /\ \A i, j \in 1 .. MaxDepth :
           <<t, i>> \in writeGuards /\ <<t, j>> \in readGuards => i < j

\* The low half of the flag counts the live read guards.
FlagCountsReads == lockFlag.r = Cardinality(readGuards)

\* The high half of the flag names the owner, and only the owner holds guards.
FlagNamesOwner ==
  /\ \A t \in Threads : Owner(t) <=> lockFlag.w = ThreadId[t]
  /\ lockFlag.w # 0 => \E t \in Threads : Owner(t)
  /\ \A t, u \in Threads : Owner(t) /\ t # u => ~Holds(u)

\* _writeCount counts the owner's write guards; between its decrement to 0 and
\* the store of EMPTY there is one guard left to end.
CountMatches ==
  IF \E t \in Threads : pc[t] = "w_release"
  THEN writeCount = 0 /\ Cardinality(writeGuards) = 1
  ELSE writeCount = Cardinality(writeGuards)

\* What a thread in the middle of a call may rely on.
CallsInProgress ==
  \A t \in Threads :
    /\ pc[t] \in {"w_spin", "w_count", "r_own", "r_load", "r_cas"} => depth[t] < MaxDepth
    /\ pc[t] \in {"w_spin", "r_load", "r_cas"} => ~Owner(t)
    /\ pc[t] = "r_own" => Owner(t)
    /\ pc[t] = "w_release" => lockFlag.r = 0 /\ <<t, depth[t]>> \in writeGuards

\* Only callers that open a write guard inside a read guard meet an assertion.
CrashOnlyByMisuse == WriteUnderRead \/ NoMisuseCrash

IInv ==
  /\ TypeOK
  /\ GuardsNest
  /\ ReadsInnermost
  /\ FlagCountsReads
  /\ FlagNamesOwner
  /\ CountMatches
  /\ CallsInProgress
  /\ CrashOnlyByMisuse
=============================================================================
