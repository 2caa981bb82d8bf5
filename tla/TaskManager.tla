---------------------------- MODULE TaskManager ----------------------------
(***************************************************************************)
(* TaskManager.h / TaskManager.cpp: threads numbered by a static counter,  *)
(* their entries in _tasks, and joining them.                              *)
(*                                                                         *)
(* Callers use one manager each and may use it concurrently.  Its mutex    *)
(* covers AddTask and JoinTask; _task_done and JoinAllTasks run without    *)
(* it.  A thread is named by its id.  What _init_tls does with the send    *)
(* buffers is in ThreadStart and SendBuffer.                               *)
(***************************************************************************)
EXTENDS Integers, FiniteSets

CONSTANTS
  Callers,     \* threads that call TaskManager
  Joiners,     \* the callers that join
  Managers,    \* TaskManager objects; all share the static _taskId
  ManagerOf,   \* the manager each caller uses
  MaxId,       \* bound: the last id handed out
  Counts,      \* bound: the counts passed to AddTask
  NULL

ASSUME CallersAssumption ==
  /\ Joiners \subseteq Callers
  /\ ManagerOf \in [Callers -> Managers]
  /\ MaxId \in Nat /\ Cardinality(Managers) \in 0 .. MaxId - 1
  /\ NULL \notin Callers \cup 1 .. MaxId

VARIABLES
  taskId,    \* _taskId
  lock,      \* the caller that holds each manager's mutex, or NULL
  tasks,     \* each manager's _tasks: id |-> [joinable, done]
  thread,    \* how far each thread is
  call,      \* the call each caller is in
  returned,  \* what AddTask calls have returned, with the ids they created
  joined,    \* how often JoinTask has returned true for an id
  failed     \* the exception that ended the process, or "none"

vars == <<taskId, lock, tasks, thread, call, returned, joined, failed>>

Ids == 1 .. MaxId
Idle == [op |-> "idle"]

At(c, op) == failed = "none" /\ call[c].op = op

SetCall(c, r) == call' = [call EXCEPT ![c] = r]

HasEntry(m, k) == k \in DOMAIN tasks[m]

SetEntry(m, k, e) ==
  tasks' = [tasks EXCEPT ![m] = [i \in DOMAIN @ \cup {k} |-> IF i = k THEN e ELSE @[i]]]

\* The ids a caller of m was given: every one of the range is taken for a task.
Known(m) == UNION {r.first .. r.last : r \in {x \in returned : x.manager = m}}

\* Each constructor takes an id for the main thread, which has no entry.
Init ==
  /\ taskId = 1 + Cardinality(Managers)
  /\ lock = [m \in Managers |-> NULL]
  /\ tasks = [m \in Managers |-> [k \in {} |-> NULL]]
  /\ thread = [k \in Ids |-> "none"]
  /\ call = [c \in Callers |-> Idle]
  /\ returned = {}
  /\ joined = [k \in Ids |-> 0]
  /\ failed = "none"

-----------------------------------------------------------------------------
\* AddTask(task, count): the lock, and first = _taskId.load().
AddTask(c, n) ==
  /\ At(c, "idle")
  /\ lock[ManagerOf[c]] = NULL
  /\ taskId <= MaxId
  /\ lock' = [lock EXCEPT ![ManagerOf[c]] = c]
  /\ SetCall(c, [op |-> "create", count |-> n, first |-> taskId, made |-> {}])
  /\ UNCHANGED <<taskId, tasks, thread, returned, joined, failed>>

\* _get_new_task_id() and the constructor of std::thread.
CreateThread(c) ==
  /\ At(c, "create")
  /\ Cardinality(call[c].made) < call[c].count
  /\ taskId <= MaxId
  /\ taskId' = taskId + 1
  /\ thread' = [thread EXCEPT ![taskId] = "init"]
  /\ SetCall(c, [call[c] EXCEPT !.op = "insert", !.made = @ \cup {taskId}])
  /\ UNCHANGED <<lock, tasks, returned, joined, failed>>

\* Mutant: the entry is made for the counter's value after the increment.
IsNextId(c, k) == k = taskId

\* The id of the thread just created.
IsNewId(c, k) == k \in call[c].made /\ \A i \in call[c].made : i <= k

\* _tasks.insert of the thread just created.
InsertEntry(c) ==
  /\ At(c, "insert")
  /\ \E k \in Ids :
       /\ IsNewId(c, k)
       /\ SetEntry(ManagerOf[c], k, [joinable |-> TRUE, done |-> FALSE])
  /\ SetCall(c, [call[c] EXCEPT !.op = "create"])
  /\ UNCHANGED <<taskId, lock, thread, returned, joined, failed>>

\* Mutant: the last id is not corrected for the increment.
LastIdPast == taskId

LastId == taskId - 1

\* AddTask returns: the id itself for one task, else first and _taskId.load() - 1.
AddTaskReturns(c) ==
  /\ At(c, "create")
  /\ Cardinality(call[c].made) = call[c].count
  /\ \E first, last \in 0 .. MaxId :
       /\ IF call[c].count = 1 THEN {first} = call[c].made /\ last = first
                               ELSE first = call[c].first /\ last = LastId
       /\ returned' = returned \cup
            {[manager |-> ManagerOf[c], made |-> call[c].made, first |-> first, last |-> last]}
  /\ lock' = [lock EXCEPT ![ManagerOf[c]] = NULL]
  /\ SetCall(c, Idle)
  /\ UNCHANGED <<taskId, tasks, thread, joined, failed>>

\* The thread's function: _init_tls(id), then the task, which is external.
InitTls(k) ==
  /\ failed = "none" /\ thread[k] = "init"
  /\ thread' = [thread EXCEPT ![k] = "task"]
  /\ UNCHANGED <<taskId, lock, tasks, call, returned, joined, failed>>

TaskFunctionReturns(k) ==
  /\ failed = "none" /\ thread[k] = "task"
  /\ thread' = [thread EXCEPT ![k] = "done"]
  /\ UNCHANGED <<taskId, lock, tasks, call, returned, joined, failed>>

\* _task_done: _tasks.at(TLS_Id) without the lock.  It throws, on a thread with
\* no handler, when the entry is not there; it may also miss an entry while an
\* insert is rehashing the table (a data race).
TaskDone(k) ==
  /\ failed = "none" /\ thread[k] = "done"
  /\ \/ /\ \E m \in Managers :
             HasEntry(m, k) /\ SetEntry(m, k, [tasks[m][k] EXCEPT !.done = TRUE])
        /\ thread' = [thread EXCEPT ![k] = "clear"]
        /\ UNCHANGED failed
     \/ /\ (\E c \in Callers : call[c].op = "insert") \/ \A m \in Managers : ~HasEntry(m, k)
        /\ failed' = "out_of_range"
        /\ UNCHANGED <<tasks, thread>>
  /\ UNCHANGED <<taskId, lock, call, returned, joined>>

ThreadEnds(k) ==
  /\ failed = "none" /\ thread[k] = "clear"
  /\ thread' = [thread EXCEPT ![k] = "ended"]
  /\ UNCHANGED <<taskId, lock, tasks, call, returned, joined, failed>>

\* JoinTask reads the entry under the lock and goes on to join, with the lock
\* held, only for a finished task.  Otherwise it returns false, a no-op.
JoinTask(c, k) ==
  LET m == ManagerOf[c]
  IN /\ At(c, "idle") /\ c \in Joiners
     /\ lock[m] = NULL
     /\ k \in Known(m)
     /\ \/ /\ ~HasEntry(m, k)
           /\ failed' = "out_of_range"
           /\ UNCHANGED <<lock, call>>
        \/ /\ HasEntry(m, k) /\ tasks[m][k].done /\ tasks[m][k].joinable
           /\ lock' = [lock EXCEPT ![m] = c]
           /\ SetCall(c, [op |-> "join", id |-> k])
           /\ UNCHANGED failed
     /\ UNCHANGED <<taskId, tasks, thread, returned, joined>>

\* std::thread::join returns, or throws when the thread is not joinable any more.
Join(c, k) ==
  \/ /\ tasks[ManagerOf[c]][k].joinable
     /\ thread[k] = "ended"
     /\ SetEntry(ManagerOf[c], k, [tasks[ManagerOf[c]][k] EXCEPT !.joinable = FALSE])
     /\ UNCHANGED failed
  \/ /\ ~tasks[ManagerOf[c]][k].joinable
     /\ failed' = "not_joinable"
     /\ UNCHANGED tasks

JoinTaskReturns(c) ==
  /\ At(c, "join")
  /\ Join(c, call[c].id)
  /\ joined' = [joined EXCEPT ![call[c].id] = IF failed' = "none" THEN @ + 1 ELSE @]
  /\ lock' = [lock EXCEPT ![ManagerOf[c]] = NULL]
  /\ SetCall(c, Idle)
  /\ UNCHANGED <<taskId, thread, returned>>

\* JoinAllTasks iterates over _tasks without the lock.  Every entry present at
\* the start is visited; one inserted meanwhile may be.
JoinAllTasks(c) ==
  /\ At(c, "idle") /\ c \in Joiners
  /\ SetCall(c, [op |-> "joinAll", todo |-> DOMAIN tasks[ManagerOf[c]], at |-> NULL])
  /\ UNCHANGED <<taskId, lock, tasks, thread, returned, joined, failed>>

\* Mutant: the loop comes back to the entry it has joined.
AdvanceStays(todo, k) == todo

Advance(todo, k) == todo \ {k}

\* One turn of the loop up to the test of joinable().
JoinAllVisit(c, k) ==
  /\ At(c, "joinAll") /\ call[c].at = NULL
  /\ HasEntry(ManagerOf[c], k)
  /\ k \in call[c].todo \/ tasks[ManagerOf[c]][k].joinable
  /\ SetCall(c, [call[c] EXCEPT !.todo = Advance(@, k),
                               !.at = IF tasks[ManagerOf[c]][k].joinable THEN k ELSE NULL])
  /\ UNCHANGED <<taskId, lock, tasks, thread, returned, joined, failed>>

JoinAllJoins(c) ==
  /\ At(c, "joinAll") /\ call[c].at # NULL
  /\ Join(c, call[c].at)
  /\ SetCall(c, [call[c] EXCEPT !.at = NULL])
  /\ UNCHANGED <<taskId, lock, thread, returned, joined>>

JoinAllReturns(c) ==
  /\ At(c, "joinAll") /\ call[c].at = NULL /\ call[c].todo = {}
  /\ SetCall(c, Idle)
  /\ UNCHANGED <<taskId, lock, tasks, thread, returned, joined, failed>>

-----------------------------------------------------------------------------
Proceed(c) ==
  \/ CreateThread(c)
  \/ InsertEntry(c)
  \/ AddTaskReturns(c)
  \/ JoinTaskReturns(c)
  \/ \E k \in Ids : JoinAllVisit(c, k)
  \/ JoinAllJoins(c)
  \/ JoinAllReturns(c)

Run(k) == InitTls(k) \/ TaskFunctionReturns(k) \/ TaskDone(k) \/ ThreadEnds(k)

Request(c) ==
  \/ \E n \in Counts : AddTask(c, n)
  \/ \E k \in Ids : JoinTask(c, k)
  \/ JoinAllTasks(c)

Next ==
  \/ \E c \in Callers : Proceed(c) \/ Request(c)
  \/ \E k \in Ids : Run(k)

Spec == Init /\ [][Next]_vars

\* Threads are scheduled, and the functions given to AddTask return.  A caller
\* goes on with the call it is in; new calls are optional.
LiveSpec ==
  /\ Spec
  /\ \A c \in Callers : WF_vars(Proceed(c))
  /\ \A k \in Ids : WF_vars(Run(k))

-----------------------------------------------------------------------------
TypeOK ==
  /\ taskId \in 1 .. MaxId + 1
  /\ lock \in [Managers -> Callers \cup {NULL}]
  /\ \A m \in Managers :
       /\ DOMAIN tasks[m] \subseteq Ids
       /\ \A k \in DOMAIN tasks[m] : tasks[m][k] \in [joinable : BOOLEAN, done : BOOLEAN]
  /\ thread \in [Ids -> {"none", "init", "task", "done", "clear", "ended"}]
  /\ \A c \in Callers : call[c].op \in {"idle", "create", "insert", "join", "joinAll"}
  /\ joined \in [Ids -> Nat]
  /\ failed \in {"none", "out_of_range", "not_joinable"}

\* JoinTask returns true at most once for a task, and only after its thread has
\* ended; with one joining caller the tests of joinable() are enough to join no
\* thread twice, without a lock in JoinAllTasks (TaskManager.cpp:77, 86-92).
JoinedOnceEnded ==
  /\ failed # "not_joinable"
  /\ \A k \in Ids : joined[k] <= 1 /\ (joined[k] = 1 => thread[k] = "ended")

\* Every thread is in the table of exactly one manager, or about to be inserted
\* by exactly one caller that holds the lock: none is forgotten and left to a
\* std::thread destructor, and each is joined as JoinedOnceEnded says
\* (TaskManager.cpp:31-39, 57-65, 77, 86-92).
ThreadsAccounted ==
  /\ TypeOK
  /\ JoinedOnceEnded
  /\ \A k \in Ids : thread[k] # "none" =>
       \E x \in Managers \cup Callers :
         {x} = {m \in Managers : HasEntry(m, k)} \cup
               {c \in Callers : /\ call[c].op = "insert" /\ k \in call[c].made
                                /\ lock[ManagerOf[c]] = c
                                /\ ~HasEntry(ManagerOf[c], k)}

\* A range AddTask returns holds exactly the ids of the tasks that call
\* created, as TaskManager.h:29 says (TaskManager.cpp:53, 68).
RangeIsExact ==
  \A r \in returned : r.first .. r.last = r.made

\* JoinAllTasks, and a JoinTask that holds the lock, return: _task_done needs no
\* lock, so that no joined thread waits for its joiner (TaskManager.cpp:117).
JoinReturns ==
  \A c \in Callers :
    call[c].op \in {"join", "joinAll"} ~> (call[c].op = "idle" \/ failed # "none")

\* TaskManager.h:9: "Task id will remained until destructor of TaskManager is
\* called", so _task_done finds the entry of its own id.
TaskIdRemains ==
  \A k \in Ids : thread[k] = "done" => \E m \in Managers : HasEntry(m, k)

IsRunning(m, k) == tasks[m][k].done

\* TaskManager.h:36: IsRunning is true if the task is still running, false
\* otherwise.
IsRunningSaysSo ==
  \A m \in Managers : \A k \in DOMAIN tasks[m] :
    /\ thread[k] = "task" => IsRunning(m, k)
    /\ thread[k] = "ended" => ~IsRunning(m, k)
=============================================================================
