---------------------------- MODULE ThreadStart ----------------------------
(***************************************************************************)
(* The start of a library thread (_init_tls of TaskManager.cpp and of      *)
(* TaskManagerEx.cpp) on top of the lock of GSendBufferManager: the thread *)
(* takes its SendBuffer under that lock, and only then gets its TLS_Id.    *)
(* Until then TLS_Id is UNSIGNED_INVALID (CoreTLS.cpp:9).  Once started,   *)
(* the thread uses the lock whenever it changes its SendBuffer.            *)
(***************************************************************************)
EXTENDS RWLock

VARIABLE stage   \* of each thread: "new", "pop" in GSendBufferManager->Pop(), "ready"

UNSIGNED_INVALID == 0   \* TLS_Id of a thread that was not given one

StartInit ==
  /\ lockFlag = EMPTY
  /\ writeCount = 0
  /\ TLS_Id = [t \in Threads |-> UNSIGNED_INVALID]
  /\ pc = [t \in Threads |-> "idle"]
  /\ expected = [t \in Threads |-> 0]
  /\ depth = [t \in Threads |-> 0]
  /\ readGuards = {}
  /\ writeGuards = {}
  /\ crashed = "none"
  /\ stage = [t \in Threads |-> "new"]

\* GSendBufferManager->Pop() opens its write guard.
PopLocks(t) ==
  /\ stage[t] = "new"
  /\ WriteLock(t)
  /\ stage' = [stage EXCEPT ![t] = "pop"]

\* Pop() has returned: TLS_Id = id.
SetId(t) ==
  /\ stage[t] = "pop" /\ At(t, "idle") /\ ~Holds(t)
  /\ TLS_Id' = [TLS_Id EXCEPT ![t] = ThreadId[t]]
  /\ stage' = [stage EXCEPT ![t] = "ready"]
  /\ UNCHANGED <<lockFlag, writeCount, pc, expected, depth, readGuards, writeGuards,
                 crashed>>

LockStep(t) ==
  /\ \/ Proceed(t)
     \/ SpinTimeout(t)
     \/ stage[t] = "ready" /\ Request(t)
  /\ UNCHANGED stage

StartNext == \E t \in Threads : PopLocks(t) \/ SetId(t) \/ LockStep(t)

StartSpec ==
  /\ StartInit
  /\ [][StartNext]_<<vars, stage>>

\* The lock a starting thread takes excludes other holders.  The comment at
\* TaskManager.cpp:5 gives this as the reason why ids are never 0.
StartKeepsExclusion == MutualExclusion
=============================================================================
