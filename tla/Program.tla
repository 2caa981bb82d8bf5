------------------------------ MODULE Program ------------------------------
(***************************************************************************)
(* The programs the repository builds on the library, TestServer and       *)
(* TestClient, from InitNetCore to the destructors that run after main:    *)
(* which threads there are, what they touch and when main takes it away.   *)
(*                                                                         *)
(* Both mains have one shape.  The differences are kept: the server has    *)
(* TaskManagerEx, one loop on several threads, a reserved flush and a      *)
(* shared pointer to its SessionManager; the client has TaskManager, a     *)
(* thread for I/O, one that flushes, and raw pointers it deletes.          *)
(* Sleeps are left out: they order nothing.  "off" is a plain bool that is *)
(* read once a round, between calls the compiler cannot see into.          *)
(***************************************************************************)
EXTENDS Integers

CONSTANTS
  ServerThreads,  \* the count TestServer gives to AddTask
  Sessions        \* bound: the sessions that ever connect

ASSUME ProgramAssumption == ServerThreads \in Nat /\ ServerThreads >= 2

VARIABLES
  kind,           \* which of the programs this is
  mainAt,         \* where main is
  alive,          \* the globals and main's locals that exist
  off,
  tasks,          \* the length of _tasks
  at,             \* where every thread is in its loop
  adding,         \* the session a thread is about to add, as a set
  holders,        \* the threads with a TLS_SendBuffer; main is 0
  flushJob,       \* the reserved FlushSessions of the server
  sessions,       \* SessionManager::_sessions
  nowConnected,   \* the sessions with _connected
  reserved        \* the sessions with packets in _reserved

mainVars == <<mainAt, alive, off, tasks>>
sessionVars == <<flushJob, sessions, nowConnected, reserved>>
programVars == <<kind, mainVars, at, adding, holders, sessionVars>>

TaskCount == IF kind = "server" THEN ServerThreads ELSE 2
Workers == 1 .. TaskCount
Loop(w) == IF kind = "client" /\ w = 2 THEN "flush" ELSE "iocp"

CoreGlobals == {"GLogger", "GMemory", "GSendBufferManager", "GGlobalJobWorker"}

\* Objects with static storage: GCoreGlobal, the pools of ObjectPool, and the
\* server's shared pointer.
Statics == {"GCoreGlobal", "s_pool"} \cup (IF kind = "server" THEN {"GSessionManager"} ELSE {})

ProgramInit ==
  /\ kind \in {"server", "client"}
  /\ mainAt = "init"
  /\ alive = {"GCoreGlobal", "s_pool"}
  /\ off = FALSE
  /\ tasks = 0
  /\ at = [w \in Workers |-> "none"]
  /\ adding = [w \in Workers |-> {}]
  /\ holders = {}
  /\ flushJob = "none"
  /\ sessions = {} /\ nowConnected = {} /\ reserved = {}

-----------------------------------------------------------------------------
\* InitNetCore: CoreGlobal::_init.
InitNetCore ==
  /\ mainAt = "init"
  /\ alive' = alive \cup CoreGlobals
  /\ mainAt' = "setup"
  /\ UNCHANGED <<kind, off, tasks, at, adding, holders, sessionVars>>

\* The managers, the core and the service are created.
Setup ==
  /\ mainAt = "setup"
  /\ alive' = alive \cup {"GPacketManager", "GSessionManager", "core", "service"}
  /\ mainAt' = "start"
  /\ UNCHANGED <<kind, off, tasks, at, adding, holders, sessionVars>>

\* The service's Start fails, or the task manager is constructed, which gives
\* main its thread-local send buffer.
StartFails ==
  /\ mainAt = "start"
  /\ mainAt' = "return"
  /\ UNCHANGED <<kind, alive, off, tasks, at, adding, holders, sessionVars>>

StartManager ==
  /\ mainAt = "start"
  /\ alive' = alive \cup {"manager"}
  /\ holders' = holders \cup {0}
  /\ mainAt' = "add"
  /\ UNCHANGED <<kind, off, tasks, at, adding, sessionVars>>

AddTask ==
  /\ mainAt = "add" /\ tasks + 1 \in Workers
  /\ tasks' = tasks + 1
  /\ at' = [at EXCEPT ![tasks + 1] = "init"]
  /\ UNCHANGED <<kind, mainAt, alive, off, adding, holders, sessionVars>>

\* The server reserves one FlushSessions before it reads its first line.
TasksAdded ==
  /\ mainAt = "add" /\ tasks + 1 \notin Workers
  /\ flushJob' = IF kind = "server" THEN "waiting" ELSE flushJob
  /\ mainAt' = "input"
  /\ UNCHANGED <<kind, alive, off, tasks, at, adding, holders, sessions, nowConnected,
                 reserved>>

\* A line of input: a packet for every connected session, or "stop".
SendLine ==
  /\ mainAt = "input"
  /\ reserved' = reserved \cup nowConnected
  /\ UNCHANGED <<kind, mainVars, at, adding, holders, flushJob, sessions, nowConnected>>

StopLine ==
  /\ mainAt = "input"
  /\ nowConnected' = IF kind = "client" THEN {} ELSE nowConnected
  /\ off' = TRUE
  /\ mainAt' = "join"
  /\ UNCHANGED <<kind, alive, tasks, at, adding, holders, flushJob, sessions, reserved>>

\* Mutant: threads are not waited for.
TasksEndedUntested == TRUE

TasksEnded == \A w \in 1 .. tasks : at[w] = "ended"

JoinAllTasks ==
  /\ mainAt = "join"
  /\ TasksEnded
  /\ mainAt' = "delete"
  /\ UNCHANGED <<kind, alive, off, tasks, at, adding, holders, sessionVars>>

\* The service is stopped, and what main created with new is deleted.
StopAndDelete ==
  /\ mainAt = "delete"
  /\ alive' = alive \ ({"GPacketManager", "GSessionManager"} \ Statics)
  /\ mainAt' = "return"
  /\ UNCHANGED <<kind, off, tasks, at, adding, holders, sessionVars>>

\* main returns: the task manager joins again, the locals are gone.
Return ==
  /\ mainAt = "return"
  /\ TasksEnded
  /\ alive' = alive \ {"manager", "service", "core"}
  /\ mainAt' = "tls"
  /\ UNCHANGED <<kind, off, tasks, at, adding, holders, sessionVars>>

\* The thread-local objects of main go before the static ones.
MainTLS ==
  /\ mainAt = "tls"
  /\ holders' = holders \ {0}
  /\ mainAt' = "statics"
  /\ UNCHANGED <<kind, alive, off, tasks, at, adding, sessionVars>>

\* Static objects of different translation units go in an unspecified order;
\* ~CoreGlobal deletes the globals of the library.
DestroyStatic(x) ==
  /\ mainAt = "statics"
  /\ x \in alive \cap Statics
  /\ alive' = alive \ ({x} \cup IF x = "GCoreGlobal" THEN CoreGlobals ELSE {})
  /\ mainAt' = IF Statics \cap alive = {x} THEN "done" ELSE "statics"
  /\ UNCHANGED <<kind, off, tasks, at, adding, holders, sessionVars>>

-----------------------------------------------------------------------------
\* A new thread: _init_tls.
InitTLS(w) ==
  /\ at[w] = "init"
  /\ holders' = holders \cup {w}
  /\ at' = [at EXCEPT ![w] = Loop(w)]
  /\ UNCHANGED <<kind, mainVars, adding, sessionVars>>

AfterIocp == IF kind = "server" THEN "work" ELSE "test"

\* ProcessQueuedCompletionStatus: a timeout or a packet, a session that gets
\* connected and calls OnConnected, or one whose disconnect has completed.
ProcessOther(w) ==
  /\ at[w] = "iocp"
  /\ at' = [at EXCEPT ![w] = AfterIocp]
  /\ UNCHANGED <<kind, mainVars, adding, holders, sessionVars>>

ProcessConnect(w, s) ==
  /\ at[w] = "iocp"
  /\ s \notin sessions \cup nowConnected \cup UNION {adding[v] : v \in Workers}
  /\ nowConnected' = nowConnected \cup {s}
  /\ adding' = [adding EXCEPT ![w] = {s}]
  /\ at' = [at EXCEPT ![w] = "add"]
  /\ UNCHANGED <<kind, mainVars, holders, flushJob, sessions, reserved>>

\* OnConnected: GSessionManager->AddSession.  Nothing ever takes it out again.
AddSession(w) ==
  /\ at[w] = "add"
  /\ sessions' = sessions \cup adding[w]
  /\ adding' = [adding EXCEPT ![w] = {}]
  /\ at' = [at EXCEPT ![w] = AfterIocp]
  /\ UNCHANGED <<kind, mainVars, holders, flushJob, nowConnected, reserved>>

SessionEnds(w, s) ==
  /\ at[w] = "iocp" /\ s \in nowConnected
  /\ nowConnected' = nowConnected \ {s}
  /\ at' = [at EXCEPT ![w] = AfterIocp]
  /\ UNCHANGED <<kind, mainVars, adding, holders, flushJob, sessions, reserved>>

\* Mutant: the test of IsConnected is negated.
FlushableNegated == sessions \ nowConnected

\* The sessions FlushSessions calls Flush on.
Flushable == sessions \cap nowConnected

\* FlushSessions, under the manager's mutex: Flush empties _reserved when there
\* are bytes enough or enough time has passed.
FlushSessions(due) ==
  /\ reserved' = reserved \ due
  /\ UNCHANGED <<sessions, nowConnected>>

\* DoWorkJob: GGlobalJobWorker has no serializer queued, since the only job is
\* executed by the thread that pushes it.
DoWorkJob(w) ==
  /\ at[w] = "work"
  /\ at' = [at EXCEPT ![w] = "check"]
  /\ UNCHANGED <<kind, mainVars, adding, holders, sessionVars>>

\* CheckReservedJob: the job is not due or is gone, or it is pushed and executed.
CheckNothing(w) ==
  /\ at[w] = "check"
  /\ at' = [at EXCEPT ![w] = "test"]
  /\ UNCHANGED <<kind, mainVars, adding, holders, sessionVars>>

CheckFlush(w) ==
  /\ at[w] = "check" /\ flushJob = "waiting"
  /\ flushJob' = "executed"
  /\ \E due \in SUBSET Flushable : FlushSessions(due)
  /\ at' = [at EXCEPT ![w] = "test"]
  /\ UNCHANGED <<kind, mainVars, adding, holders>>

\* The client's second thread.
FlushLoop(w) ==
  /\ at[w] = "flush"
  /\ \E due \in SUBSET Flushable : FlushSessions(due)
  /\ at' = [at EXCEPT ![w] = "test"]
  /\ UNCHANGED <<kind, mainVars, adding, holders, flushJob>>

\* Mutant: the thread that flushes does not test off.
LeaveLoopForgotten(w) == off /\ Loop(w) = "iocp"

\* if (off) break;
LeaveLoop(w) == off

TestOff(w) ==
  /\ at[w] = "test"
  /\ at' = [at EXCEPT ![w] = IF LeaveLoop(w) THEN "exit" ELSE Loop(w)]
  /\ UNCHANGED <<kind, mainVars, adding, holders, sessionVars>>

\* The thread ends: its send buffer goes back to GSendBufferManager.
EndTask(w) ==
  /\ at[w] = "exit"
  /\ holders' = holders \ {w}
  /\ at' = [at EXCEPT ![w] = "ended"]
  /\ UNCHANGED <<kind, mainVars, adding, sessionVars>>

-----------------------------------------------------------------------------
MainStep ==
  \/ InitNetCore \/ Setup \/ StartFails \/ StartManager \/ AddTask \/ TasksAdded
  \/ JoinAllTasks \/ StopAndDelete \/ Return \/ MainTLS
  \/ \E x \in {"GCoreGlobal", "s_pool", "GSessionManager"} : DestroyStatic(x)

Round(w) ==
  \/ InitTLS(w) \/ ProcessOther(w) \/ AddSession(w) \/ DoWorkJob(w)
  \/ CheckNothing(w) \/ CheckFlush(w) \/ FlushLoop(w) \/ TestOff(w) \/ EndTask(w)
  \/ \E s \in Sessions : ProcessConnect(w, s) \/ SessionEnds(w, s)

Done ==
  /\ mainAt = "done"
  /\ UNCHANGED programVars

ProgramNext ==
  \/ MainStep \/ SendLine \/ StopLine \/ Done
  \/ \E w \in Workers : Round(w)

ProgramSpec == ProgramInit /\ [][ProgramNext]_programVars

\* A round in which enough time has passed to flush everything.
FlushAll(w) == FlushLoop(w) /\ reserved' = reserved \ Flushable

\* Threads are scheduled, completions are waited for 200 ms at most, and time
\* passes for the thread that flushes.  Nobody has to type.
Fairness ==
  /\ WF_programVars(MainStep)
  /\ \A w \in 1 .. ServerThreads :
       WF_programVars(w \in Workers /\ Round(w)) /\ SF_programVars(w \in Workers /\ FlushAll(w))

ProgramLiveSpec == ProgramSpec /\ Fairness

-----------------------------------------------------------------------------
ProgramTypeOK ==
  /\ alive \subseteq Statics \cup CoreGlobals
       \cup {"GPacketManager", "GSessionManager", "core", "service", "manager"}
  /\ off \in BOOLEAN
  /\ tasks \in 0 .. TaskCount
  /\ at \in [Workers -> {"none", "init", "iocp", "add", "work", "check", "flush", "test",
                         "exit", "ended"}]
  /\ adding \in [Workers -> SUBSET Sessions]
  /\ holders \subseteq {0} \cup Workers
  /\ sessions \cup nowConnected \cup reserved \subseteq Sessions

\* What a thread, or main, is about to touch at the place where it is.
Used ==
  [init  |-> {"manager", "GSendBufferManager"},
   iocp  |-> {"core", "service", "GPacketManager", "GSessionManager", "GMemory"},
   add   |-> {"GSessionManager", "GMemory"},
   work  |-> {"manager", "GGlobalJobWorker"},
   check |-> {"manager", "GGlobalJobWorker", "GSessionManager", "s_pool"},
   flush |-> {"GSessionManager"},
   exit  |-> {"manager", "GSendBufferManager"},
   input |-> {"service", "GSessionManager", "GMemory", "GSendBufferManager"}]

Uses(place) == IF place \in DOMAIN Used THEN Used[place] ELSE {}

\* No thread touches a global or a local of main that main has destroyed, and
\* whoever holds a send buffer finds the manager it goes back to: the joins in
\* JoinAllTasks and in the destructor come before every delete
\* (TestServer.cpp:98, TestClient.cpp:103, CoreGlobal.cpp:47).
InUseIsAlive ==
  /\ ProgramTypeOK
  /\ \A w \in Workers : Uses(at[w]) \subseteq alive
  /\ mainAt = "input" => Uses(mainAt) \subseteq alive
  /\ holders # {} => "GSendBufferManager" \in alive

\* After "stop" every loop is left and the program ends (TestServer.cpp:70,
\* TestClient.cpp:61, 74).
StopEnds == mainAt = "join" ~> mainAt = "done"

\* In the client a packet that is reserved leaves the session, unless the
\* session is disconnected or the program is stopped first
\* (TestClient.cpp:70, TestClient/SessionManager.h:54).
ClientFlushes ==
  \A s \in Sessions :
    kind = "client" /\ s \in reserved ~> s \notin reserved \/ s \notin nowConnected \/ off

\* The same of the server, whose main reserves FlushSessions only once: it does
\* not hold.
ServerFlushes ==
  \A s \in Sessions :
    kind = "server" /\ s \in reserved ~> s \notin reserved \/ s \notin nowConnected \/ off

\* What "Delete GMemory last" (CoreGlobal.cpp:49) is for: pooled objects are
\* released before GMemory is deleted.  The sessions of the server's
\* SessionManager are not when its shared pointer is destroyed after
\* GCoreGlobal.
MemoryIsLast ==
  mainAt = "statics" /\ "GSessionManager" \in alive \cap Statics => "GMemory" \in alive
=============================================================================
