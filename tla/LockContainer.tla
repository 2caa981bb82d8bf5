--------------------------- MODULE LockContainer ---------------------------
(***************************************************************************)
(* A container of LockQueue.h, LockStack.h or LockPriorityQueue.h shared   *)
(* by threads.  The standard container inside is not safe by itself: a     *)
(* call reads it in one step and leaves it changed in a later one.  What   *)
(* makes the call atomic is the guard it opens first, for which the        *)
(* promise of RWLock is used.  Clear(popped) keeps its own guard while it  *)
(* calls Pop, which opens another one, until Pop returns T().              *)
(***************************************************************************)
EXTENDS Containers

CONSTANTS
  Threads,
  Items,      \* what is pushed, ordered by priority
  MaxItems    \* bound: items in the container

ASSUME ContainerAssumption == Items \subseteq Nat /\ MaxItems \in Nat

VARIABLES
  kind,       \* which of the classes the container is
  items,      \* _queue, _stack or _pq
  call,       \* the call each thread is in: [member, x]
  at,         \* "idle", "guard", "read", "write" or "unguard"
  seen,       \* the items a thread has read in its call
  clearing,   \* threads in Clear(popped)
  popped,     \* their vectors
  last,       \* the last call to take effect: its thread, and what it was given
  depth, readGuards, writeGuards   \* _lock

lockVars == <<depth, readGuards, writeGuards>>
vars == <<kind, items, call, at, seen, clearing, popped, last, lockVars>>

Lock == INSTANCE RWLockAbstract WITH MaxDepth <- 2

Goto(t, where) == at' = [at EXCEPT ![t] = where]
SetCall(t, m, x) == call' = [call EXCEPT ![t] = [member |-> m, x |-> x]]
NoCall == [member |-> "none", x |-> T0]

Init ==
  /\ kind \in Kinds
  /\ items = <<>>
  /\ call = [t \in Threads |-> NoCall]
  /\ at = [t \in Threads |-> "idle"]
  /\ seen = [t \in Threads |-> <<>>]
  /\ clearing = {}
  /\ popped = [t \in Threads |-> <<>>]
  /\ last = <<>>
  /\ Lock!Init

-----------------------------------------------------------------------------
\* A thread calls a member.
Begin(t, m, x) ==
  /\ at[t] = "idle"
  /\ m = "Push" => Len(items) + Cardinality({u \in Threads : at[u] # "idle"}) < MaxItems
  /\ SetCall(t, m, x)
  /\ Goto(t, "guard")
  /\ UNCHANGED <<kind, items, seen, clearing, popped, last, lockVars>>

\* Mutant: a reader's guard is enough for every member.
OpensReader(t) ==
  Lock!GrantRead(t)

\* Mutant: the lock is not reentrant.
OpensOnce(t) ==
  /\ depth[t] = 0
  /\ IF call[t].member \in Reads THEN Lock!GrantRead(t) ELSE Lock!GrantWrite(t)

\* _READ_LOCK or _WRITE_LOCK, the first statement of every member.
Opens(t) ==
  IF call[t].member \in Reads THEN Lock!GrantRead(t) ELSE Lock!GrantWrite(t)

\* With the guard, Clear(popped) calls Pop.
Guard(t) ==
  /\ at[t] = "guard"
  /\ Opens(t)
  /\ IF call[t].member = "ClearTo"
       THEN clearing' = clearing \cup {t} /\ SetCall(t, "Pop", T0) /\ UNCHANGED at
       ELSE Goto(t, "read") /\ UNCHANGED <<clearing, call>>
  /\ UNCHANGED <<kind, items, seen, popped, last>>

\* The call looks at the container ...
Read(t) ==
  /\ at[t] = "read"
  /\ seen' = [seen EXCEPT ![t] = items]
  /\ Goto(t, "write")
  /\ UNCHANGED <<kind, items, call, clearing, popped, last, lockVars>>

\* ... and changes it by what it saw.
Write(t) ==
  LET result == Call(kind, call[t].member, call[t].x, seen[t])
      end == t \notin clearing \/ result.gives = <<T0>>
  IN /\ at[t] = "write"
     /\ items' = IF call[t].member \in Reads THEN items ELSE result.items
     /\ last' = IF ~end THEN last
                ELSE <<t, IF t \in clearing THEN popped[t] ELSE result.gives>>
     /\ popped' = [popped EXCEPT ![t] = IF end THEN <<>> ELSE @ \o result.gives]
     /\ seen' = [seen EXCEPT ![t] = <<>>]
     /\ IF end /\ t \in clearing THEN SetCall(t, "ClearTo", T0) ELSE UNCHANGED call
     /\ Goto(t, "unguard")
     /\ UNCHANGED <<kind, clearing, lockVars>>

\* The guard is destroyed as the member returns.  Clear(popped) calls Pop
\* again after an item, and returns after T().
Unguard(t) ==
  /\ at[t] = "unguard"
  /\ Lock!End(t)
  /\ Goto(t, IF depth[t] = 1 THEN "idle"
             ELSE IF call[t].member = "ClearTo" THEN "unguard" ELSE "guard")
  /\ clearing' = IF depth[t] = 1 THEN clearing \ {t} ELSE clearing
  /\ call' = IF depth[t] = 1 THEN [call EXCEPT ![t] = NoCall] ELSE call
  /\ UNCHANGED <<kind, items, seen, popped, last>>

Proceed(t) == Guard(t) \/ Read(t) \/ Write(t) \/ Unguard(t)

Next ==
  \E t \in Threads :
    \/ \E m \in Members(kind) :
         \E x \in IF m \in {"Push", "TryPopIf", "PopAll"} THEN Items ELSE {T0} : Begin(t, m, x)
    \/ Proceed(t)

Spec == Init /\ [][Next]_vars

\* Threads are scheduled.
LiveSpec == Spec /\ \A t \in Threads : WF_vars(Proceed(t))

-----------------------------------------------------------------------------
\* The items Clear(popped) has taken so far still count as items of the
\* container, since no other thread can look at it.
Taken == {t \in Threads : popped[t] # <<>>}

Atomic == INSTANCE AtomicContainer WITH
  items <- IF Taken = {} THEN items ELSE popped[CHOOSE t \in Taken : TRUE] \o items

\* A call on a shared container takes effect at once, Clear(popped) with its
\* many calls of Pop included, so that JobSerializer::ExecuteJobs gets all
\* the jobs of the moment in their order (LockQueue.h:92-110, JobSerializer.cpp:13).
ActsAtomically == Atomic!Spec

\* Clear(popped) returns once it has its guard, however many threads push:
\* Pop opens a second guard in the same thread (LockQueue.h:25, 108-109).
ClearEnds == \A t \in Threads : t \in clearing ~> t \notin clearing
=============================================================================
