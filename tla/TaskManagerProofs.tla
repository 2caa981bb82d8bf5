-------------------------- MODULE TaskManagerProofs --------------------------
(***************************************************************************)
(* Proofs about TaskManager, for any callers, managers, counts and ids.    *)
(* ThreadsAccounted needs to know that an AddTask in progress holds the    *)
(* lock (LockInv) and has entries for all its threads but the newest       *)
(* (TableInv), that entries are not removed (EntryInv), and that with one  *)
(* joining caller an entry that was seen joinable stays so until that      *)
(* caller joins it (JoinInv).                                              *)
(***************************************************************************)
EXTENDS TaskManager, TLAPS

\* What is assumed of the callers: one of them joins; there is one manager.
OneJoiner == \A c, d \in Joiners : c = d
OneManager == \A c, d \in Callers : ManagerOf[c] = ManagerOf[d]

Entry == [joinable : BOOLEAN, done : BOOLEAN]
Tables == UNION {[D -> Entry] : D \in SUBSET Ids}

Adding == [op : {"create", "insert"}, count : Counts, first : 1 .. MaxId + 1, made : SUBSET Ids]
Joining == [op : {"join"}, id : Ids]
JoiningAll == [op : {"joinAll"}, todo : SUBSET Ids, at : Ids \cup {NULL}]

TypeInv ==
  /\ taskId \in 1 .. MaxId + 1
  /\ lock \in [Managers -> Callers \cup {NULL}]
  /\ tasks \in [Managers -> Tables]
  /\ thread \in [Ids -> {"none", "init", "task", "done", "clear", "ended"}]
  /\ call \in [Callers -> {Idle} \cup Adding \cup Joining \cup JoiningAll]
  /\ joined \in [Ids -> Nat]
  /\ failed \in {"none", "out_of_range", "not_joinable"}

Makes(c) == call[c].op \in {"create", "insert"}

\* The calls that hold their manager's lock, and the ids in use.
LockInv ==
  /\ \A c \in Callers : call[c].op \in {"create", "insert", "join"} => lock[ManagerOf[c]] = c
  /\ \A k \in Ids : thread[k] # "none" <=> Cardinality(Managers) < k /\ k < taskId
  /\ Cardinality(Managers) < taskId

Pending(c, k) == call[c].op = "insert" /\ IsNewId(c, k)

\* Where the threads' entries are.
TableInv ==
  /\ \A c \in Callers : Makes(c) => \A k \in call[c].made : thread[k] # "none"
  /\ \A c \in Callers : call[c].op = "create" => call[c].made \subseteq DOMAIN tasks[ManagerOf[c]]
  /\ \A c \in Callers : call[c].op = "insert" =>
       \E k \in call[c].made : IsNewId(c, k) /\ call[c].made \ {k} \subseteq DOMAIN tasks[ManagerOf[c]]
  /\ \A m \in Managers : \A k \in DOMAIN tasks[m] : thread[k] # "none"
  /\ \A m, n \in Managers : \A k \in Ids : HasEntry(m, k) /\ HasEntry(n, k) => m = n
  /\ \A c \in Callers, m \in Managers : \A k \in Ids : Pending(c, k) => ~HasEntry(m, k)
  /\ \A c, d \in Callers : \A k \in Ids : Pending(c, k) /\ Pending(d, k) => c = d
  /\ \A k \in Ids : thread[k] # "none" =>
       (\E m \in Managers : HasEntry(m, k)) \/ \E c \in Callers : Pending(c, k)

\* A joining caller has found an entry, and entries are not removed.
SeesEntry(c) ==
  /\ call[c].op = "join" => HasEntry(ManagerOf[c], call[c].id)
  /\ call[c].op = "joinAll" /\ call[c].at # NULL => HasEntry(ManagerOf[c], call[c].at)

EntryInv == \A c \in Callers : SeesEntry(c)

Joinable(m, k) == HasEntry(m, k) /\ tasks[m][k].joinable

\* What the one joining caller has seen is still so.
SeesJoinable(c) ==
  /\ call[c].op \in {"join", "joinAll"} => c \in Joiners
  /\ call[c].op = "join" => Joinable(ManagerOf[c], call[c].id)
  /\ call[c].op = "joinAll" /\ call[c].at # NULL => Joinable(ManagerOf[c], call[c].at)

\* What is left of a thread that was joined.
Left(k) ==
  joined[k] # 0 =>
    /\ joined[k] = 1 /\ thread[k] = "ended"
    /\ \E m \in Managers : HasEntry(m, k) /\ ~tasks[m][k].joinable

JoinInv ==
  /\ failed # "not_joinable"
  /\ \A c \in Callers : SeesJoinable(c)
  /\ \A k \in Ids : Left(k)

\* With one manager an AddTask in progress has all ids since it began.
RangeInv ==
  /\ \A c \in Callers : Makes(c) => call[c].first <= taskId /\ call[c].made = call[c].first .. taskId - 1
  /\ RangeIsExact

-----------------------------------------------------------------------------
\* What a manager's table holds.
LEMMA TableFacts ==
  ASSUME TypeInv, NEW m \in Managers
  PROVE  /\ tasks[m] \in [DOMAIN tasks[m] -> Entry] /\ DOMAIN tasks[m] \subseteq Ids
         /\ \A k \in DOMAIN tasks[m] : tasks[m][k] \in Entry
<1>1. PICK D \in SUBSET Ids : tasks[m] \in [D -> Entry]
  BY DEF Tables, TypeInv
<1> HIDE DEF Entry, Ids
<1> QED BY <1>1

\* An insertion or assignment in _tasks changes one entry.
LEMMA SetEntryGives ==
  ASSUME TypeInv, NEW m \in Managers, NEW k \in Ids, NEW e \in Entry, SetEntry(m, k, e)
  PROVE  /\ tasks' \in [Managers -> Tables]
         /\ DOMAIN tasks'[m] = DOMAIN tasks[m] \cup {k}
         /\ tasks'[m][k] = e
         /\ \A n \in Managers \ {m} : tasks'[n] = tasks[n]
         /\ \A i \in DOMAIN tasks[m] \ {k} : tasks'[m][i] = tasks[m][i]
<1> HIDE DEF Entry, Ids
<1>1. PICK t : t = [i \in DOMAIN tasks[m] \cup {k} |-> IF i = k THEN e ELSE tasks[m][i]]
  BY Zenon
<1>2. t \in Tables
  BY <1>1, TableFacts DEF Tables
<1> QED BY <1>1, <1>2 DEF SetEntry, TypeInv

\* What the record of a call is, by its op.
LEMMA CallFacts ==
  ASSUME TypeInv, NEW c \in Callers
  PROVE  /\ call[c].op \in {"idle", "create", "insert", "join", "joinAll"}
         /\ Makes(c) => call[c] \in Adding
         /\ call[c].op = "join" => call[c] \in Joining
         /\ call[c].op = "joinAll" => call[c] \in JoiningAll
         /\ Idle.op = "idle"
<1>1. /\ call[c] = Idle => call[c].op = "idle"
      /\ call[c] \in Adding => call[c].op \in {"create", "insert"}
      /\ call[c] \in Joining => call[c].op = "join"
      /\ call[c] \in JoiningAll => call[c].op = "joinAll"
      /\ Idle.op = "idle"
  BY DEF Idle, Adding, Joining, JoiningAll
<1> QED BY <1>1 DEF Makes, TypeInv

\* A call that goes on to another step.
LEMMA SetCallGives ==
  ASSUME TypeInv, NEW c \in Callers, NEW r, SetCall(c, r)
  PROVE  /\ call'[c] = r /\ \A d \in Callers \ {c} : call'[d] = call[d]
         /\ r \in {Idle} \cup Adding \cup Joining \cup JoiningAll =>
              call' \in [Callers -> {Idle} \cup Adding \cup Joining \cup JoiningAll]
BY DEF TypeInv, SetCall

-----------------------------------------------------------------------------
\* AddTask's steps.
LEMMA AddTaskGives ==
  ASSUME TypeInv, NEW c \in Callers, NEW n \in Counts, AddTask(c, n)
  PROVE  /\ TypeInv' /\ call[c].op = "idle" /\ lock[ManagerOf[c]] = NULL
         /\ lock' = [lock EXCEPT ![ManagerOf[c]] = c]
         /\ call'[c].op = "create" /\ call'[c].made = {} /\ call'[c].first = taskId /\ call'[c].count = n
         /\ \A d \in Callers \ {c} : call'[d] = call[d]
         /\ UNCHANGED <<taskId, tasks, thread, returned, joined, failed>>
BY CallersAssumption, SetCallGives DEF TypeInv, Adding, AddTask, At

\* The new thread has the next id.
LEMMA CreateThreadGives ==
  ASSUME TypeInv, NEW c \in Callers, CreateThread(c)
  PROVE  /\ TypeInv' /\ call[c].op = "create" /\ taskId \in Ids /\ taskId' = taskId + 1
         /\ thread' = [thread EXCEPT ![taskId] = "init"]
         /\ call'[c].op = "insert" /\ call'[c].made = call[c].made \cup {taskId}
         /\ call'[c].first = call[c].first /\ call'[c].count = call[c].count /\ call[c].made \subseteq Ids
         /\ \A d \in Callers \ {c} : call'[d] = call[d]
         /\ UNCHANGED <<lock, tasks, returned, joined, failed>>
<1> PICK r : r = [call[c] EXCEPT !.op = "insert", !.made = @ \cup {taskId}]
  OBVIOUS
<1>1. /\ call[c].op = "create" /\ taskId <= MaxId /\ taskId' = taskId + 1
      /\ thread' = [thread EXCEPT ![taskId] = "init"]
      /\ SetCall(c, r) /\ UNCHANGED <<lock, tasks, returned, joined, failed>>
  BY DEF CreateThread, At
<1>2. taskId \in Ids /\ taskId' \in 1 .. MaxId + 1
  BY <1>1, CallersAssumption DEF TypeInv, Ids
<1>3. call[c] \in Adding
  BY <1>1, CallFacts DEF Makes
<1>4. /\ r \in Adding /\ r.op = "insert" /\ r.made = call[c].made \cup {taskId}
      /\ r.first = call[c].first /\ r.count = call[c].count /\ call[c].made \subseteq Ids
  <2> HIDE DEF Ids
  <2> QED BY <1>2, <1>3, Zenon DEF Adding
<1>5. call'[c] = r /\ (\A d \in Callers \ {c} : call'[d] = call[d])
      /\ call' \in [Callers -> {Idle} \cup Adding \cup Joining \cup JoiningAll]
  BY <1>1, <1>4, SetCallGives
<1>6. thread' \in [Ids -> {"none", "init", "task", "done", "clear", "ended"}]
  BY <1>1, Zenon DEF TypeInv
<1> QED BY <1>1, <1>2, <1>4, <1>5, <1>6 DEF TypeInv

\* The newest thread of the call gets its entry.
LEMMA InsertEntryGives ==
  ASSUME TypeInv, NEW c \in Callers, InsertEntry(c)
  PROVE  /\ TypeInv' /\ call[c].op = "insert"
         /\ \E k \in Ids : /\ IsNewId(c, k)
                           /\ DOMAIN tasks'[ManagerOf[c]] = DOMAIN tasks[ManagerOf[c]] \cup {k}
                           /\ \A i \in DOMAIN tasks[ManagerOf[c]] \ {k} :
                                tasks'[ManagerOf[c]][i] = tasks[ManagerOf[c]][i]
         /\ \A n \in Managers \ {ManagerOf[c]} : tasks'[n] = tasks[n]
         /\ call'[c].op = "create" /\ call'[c].made = call[c].made /\ call'[c].first = call[c].first
         /\ call'[c].count = call[c].count
         /\ \A d \in Callers \ {c} : call'[d] = call[d]
         /\ UNCHANGED <<taskId, lock, thread, returned, joined, failed>>
<1> PICK e : e = [joinable |-> TRUE, done |-> FALSE]
  BY Zenon
<1>1. PICK k \in Ids : IsNewId(c, k) /\ SetEntry(ManagerOf[c], k, e)
  BY DEF InsertEntry
<1>2. e \in Entry /\ ManagerOf[c] \in Managers
  BY CallersAssumption DEF Entry
<1>3. call[c] \in Adding
  BY CallFacts DEF Makes, InsertEntry, At
<1>4. /\ tasks' \in [Managers -> Tables] /\ (\A n \in Managers \ {ManagerOf[c]} : tasks'[n] = tasks[n])
      /\ DOMAIN tasks'[ManagerOf[c]] = DOMAIN tasks[ManagerOf[c]] \cup {k}
      /\ \A i \in DOMAIN tasks[ManagerOf[c]] \ {k} : tasks'[ManagerOf[c]][i] = tasks[ManagerOf[c]][i]
  BY <1>1, <1>2, SetEntryGives
<1> QED BY <1>1, <1>4, <1>3, SetCallGives DEF TypeInv, Adding, InsertEntry, At

\* AddTask gives the lock back.
LEMMA AddTaskReturnsGives ==
  ASSUME TypeInv, NEW c \in Callers, AddTaskReturns(c)
  PROVE  /\ TypeInv' /\ call[c].op = "create" /\ lock' = [lock EXCEPT ![ManagerOf[c]] = NULL]
         /\ call'[c].op = "idle" /\ \A d \in Callers \ {c} : call'[d] = call[d]
         /\ UNCHANGED <<taskId, tasks, thread, joined, failed>>
<1>1. /\ call[c].op = "create" /\ lock' = [lock EXCEPT ![ManagerOf[c]] = NULL] /\ SetCall(c, Idle)
      /\ UNCHANGED <<taskId, tasks, thread, joined, failed>>
  BY DEF AddTaskReturns, At
<1>2. call'[c] = Idle /\ (\A d \in Callers \ {c} : call'[d] = call[d])
      /\ call' \in [Callers -> {Idle} \cup Adding \cup Joining \cup JoiningAll]
  BY <1>1, SetCallGives
<1>3. TypeInv'
  BY <1>1, <1>2, Zenon DEF TypeInv
<1> QED BY <1>1, <1>2, <1>3, CallFacts

\* What a thread's own step leaves of the rest.
LeavesTables ==
  /\ \A i \in Ids : /\ thread'[i] # "none" <=> thread[i] # "none"
                    /\ thread[i] = "ended" => thread'[i] = "ended"
  /\ \A m \in Managers : /\ DOMAIN tasks'[m] = DOMAIN tasks[m]
                         /\ \A i \in DOMAIN tasks[m] : tasks'[m][i].joinable <=> tasks[m][i].joinable

\* The steps of a thread: they change its own state, and done in its entry.
LEMMA RunGives ==
  ASSUME TypeInv, NEW k \in Ids, Run(k)
  PROVE  /\ TypeInv' /\ LeavesTables /\ UNCHANGED <<taskId, lock, call, returned, joined>>
         /\ failed = "none" /\ failed' \in {"none", "out_of_range"}
<1>1. CASE InitTls(k) \/ TaskFunctionReturns(k) \/ ThreadEnds(k)
  <2>1. /\ thread[k] \in {"init", "task", "clear"} /\ UNCHANGED <<taskId, lock, tasks, call, returned, joined, failed>>
        /\ failed = "none" /\ \E at \in {"task", "done", "ended"} : thread' = [thread EXCEPT ![k] = at]
    BY <1>1 DEF InitTls, TaskFunctionReturns, ThreadEnds
  <2> QED BY <2>1 DEF TypeInv, LeavesTables
<1>2. ASSUME NEW m \in Managers, HasEntry(m, k), SetEntry(m, k, [tasks[m][k] EXCEPT !.done = TRUE]),
             thread[k] = "done", thread' = [thread EXCEPT ![k] = "clear"],
             UNCHANGED <<taskId, lock, call, returned, joined, failed>>
      PROVE  TypeInv' /\ LeavesTables
  <2> PICK e : e = [tasks[m][k] EXCEPT !.done = TRUE]
    BY Zenon
  <2>1. k \in DOMAIN tasks[m] /\ tasks[m][k] \in Entry
    BY <1>2, TableFacts DEF HasEntry
  <2>2. e \in Entry /\ (e.joinable <=> tasks[m][k].joinable)
    BY <2>1, Zenon DEF Entry
  <2>3. /\ tasks' \in [Managers -> Tables] /\ tasks'[m][k] = e
        /\ DOMAIN tasks'[m] = DOMAIN tasks[m] \cup {k}
        /\ (\A n \in Managers \ {m} : tasks'[n] = tasks[n])
        /\ \A i \in DOMAIN tasks[m] \ {k} : tasks'[m][i] = tasks[m][i]
    BY <1>2, <2>2, SetEntryGives
  <2>4. \A n \in Managers : /\ DOMAIN tasks'[n] = DOMAIN tasks[n]
                            /\ \A i \in DOMAIN tasks[n] : tasks'[n][i].joinable <=> tasks[n][i].joinable
    BY <2>1, <2>2, <2>3, Zenon
  <2> QED BY <1>2, <2>4, <2>3 DEF LeavesTables, TypeInv
<1>3. CASE TaskDone(k)
  BY <1>3, <1>2, Zenon DEF TaskDone, TypeInv, LeavesTables
<1> QED BY <1>1, <1>3 DEF Run

\* std::thread::join.
LEMMA JoinGives ==
  ASSUME TypeInv, NEW c \in Callers, NEW k \in Ids, HasEntry(ManagerOf[c], k), Join(c, k)
  PROVE  /\ tasks' \in [Managers -> Tables] /\ failed' \in {failed, "not_joinable"}
         /\ \A m \in Managers : DOMAIN tasks'[m] = DOMAIN tasks[m]
         /\ Joinable(ManagerOf[c], k) =>
              failed' = failed /\ thread[k] = "ended" /\ ~tasks'[ManagerOf[c]][k].joinable
         /\ \A m \in Managers : \A i \in DOMAIN tasks[m] : m # ManagerOf[c] \/ i # k => tasks'[m][i] = tasks[m][i]
<1> PICK m \in Managers : m = ManagerOf[c]
  BY CallersAssumption
<1> PICK e : e = [tasks[m][k] EXCEPT !.joinable = FALSE]
  BY Zenon
<1>1. k \in DOMAIN tasks[m] /\ tasks[m][k] \in Entry
  BY TableFacts DEF HasEntry
<1>2. CASE ~tasks[m][k].joinable
  BY <1>2 DEF TypeInv, Join, Joinable
<1>3. CASE tasks[m][k].joinable
  <2>1. SetEntry(m, k, e) /\ failed' = failed /\ thread[k] = "ended"
    BY <1>3 DEF Join
  <2>2. e \in Entry /\ ~e.joinable
    BY <1>1, Zenon DEF Entry
  <2>3. /\ tasks' \in [Managers -> Tables] /\ tasks'[m][k] = e
        /\ DOMAIN tasks'[m] = DOMAIN tasks[m] \cup {k}
        /\ (\A n \in Managers \ {m} : tasks'[n] = tasks[n])
        /\ \A i \in DOMAIN tasks[m] \ {k} : tasks'[m][i] = tasks[m][i]
    BY <2>1, <2>2, SetEntryGives
  <2>4. \A n \in Managers : DOMAIN tasks'[n] = DOMAIN tasks[n]
    BY <1>1, <2>3
  <2>5. \A n \in Managers : \A i \in DOMAIN tasks[n] : n # m \/ i # k => tasks'[n][i] = tasks[n][i]
    BY <2>3
  <2> QED BY <2>1, <2>2, <2>3, <2>4, <2>5
<1> QED BY <1>2, <1>3

\* JoinTask goes on to join with the lock, or throws.
LEMMA JoinTaskGives ==
  ASSUME TypeInv, NEW c \in Callers, NEW k \in Ids, JoinTask(c, k)
  PROVE  /\ TypeInv' /\ call[c].op = "idle" /\ UNCHANGED <<taskId, tasks, thread, returned, joined>>
         /\ \/ failed' = "out_of_range" /\ UNCHANGED <<lock, call>>
            \/ /\ c \in Joiners /\ Joinable(ManagerOf[c], k) /\ UNCHANGED failed
               /\ lock[ManagerOf[c]] = NULL /\ lock' = [lock EXCEPT ![ManagerOf[c]] = c]
               /\ call'[c].op = "join" /\ call'[c].id = k /\ \A d \in Callers \ {c} : call'[d] = call[d]
<1>1. call[c].op = "idle" /\ c \in Joiners /\ lock[ManagerOf[c]] = NULL /\ UNCHANGED <<taskId, tasks, thread, returned, joined>>
  BY DEF JoinTask, At
<1>2. CASE failed' = "out_of_range" /\ UNCHANGED <<lock, call>>
  BY <1>1, <1>2 DEF TypeInv
<1>3. CASE /\ HasEntry(ManagerOf[c], k) /\ tasks[ManagerOf[c]][k].joinable
           /\ lock' = [lock EXCEPT ![ManagerOf[c]] = c]
           /\ SetCall(c, [op |-> "join", id |-> k]) /\ UNCHANGED failed
  <2>1. lock' \in [Managers -> Callers \cup {NULL}]
    BY <1>3, Zenon DEF TypeInv
  <2> QED BY <1>1, <1>3, <2>1, SetCallGives DEF Joinable, TypeInv, Joining
<1> QED BY <1>2, <1>3 DEF JoinTask

\* JoinTask returns true, or join throws.
LEMMA JoinTaskReturnsGives ==
  ASSUME TypeInv, NEW c \in Callers, JoinTaskReturns(c), HasEntry(ManagerOf[c], call[c].id)
  PROVE  /\ TypeInv' /\ call[c].op = "join" /\ call[c].id \in Ids /\ Join(c, call[c].id) /\ failed = "none"
         /\ Joinable(ManagerOf[c], call[c].id) => joined' = [joined EXCEPT ![call[c].id] = @ + 1]
         /\ lock' = [lock EXCEPT ![ManagerOf[c]] = NULL]
         /\ call'[c].op = "idle" /\ \A d \in Callers \ {c} : call'[d] = call[d]
         /\ UNCHANGED <<taskId, thread, returned>>
<1>1. /\ call[c].op = "join" /\ Join(c, call[c].id) /\ lock' = [lock EXCEPT ![ManagerOf[c]] = NULL] /\ failed = "none"
      /\ SetCall(c, Idle) /\ UNCHANGED <<taskId, thread, returned>>
      /\ joined' = [joined EXCEPT ![call[c].id] = IF failed' = "none" THEN @ + 1 ELSE @]
  BY DEF JoinTaskReturns, At
<1>2. call[c].id \in Ids
  BY <1>1, CallFacts DEF Joining
<1>3. tasks' \in [Managers -> Tables] /\ failed' \in {failed, "not_joinable"}
  BY <1>1, <1>2, JoinGives
<1>4. Joinable(ManagerOf[c], call[c].id) => joined' = [joined EXCEPT ![call[c].id] = @ + 1]
  <2>1. Joinable(ManagerOf[c], call[c].id) => failed' = "none"
    BY <1>1, <1>2, JoinGives
  <2> QED BY <1>1, <2>1
<1>5. call'[c] = Idle /\ (\A d \in Callers \ {c} : call'[d] = call[d])
      /\ call' \in [Callers -> {Idle} \cup Adding \cup Joining \cup JoiningAll]
  BY <1>1, SetCallGives
<1>6. joined' \in [Ids -> Nat]
  BY <1>1, <1>2 DEF TypeInv
<1>7. TypeInv'
  BY <1>1, <1>3, <1>5, <1>6, Zenon DEF TypeInv
<1> QED BY <1>1, <1>2, <1>4, <1>5, <1>7, CallFacts

\* JoinAllTasks but for the joins: c is in the loop, at an entry it has seen joinable.
LoopStep(c) ==
  /\ UNCHANGED <<taskId, lock, tasks, thread, returned, joined, failed>>
  /\ call[c].op \in {"idle", "joinAll"} /\ call'[c].op \in {"idle", "joinAll"}
  /\ call'[c].op = "joinAll" => c \in Joiners \/ call[c].op = "joinAll"
  /\ call'[c].op = "joinAll" /\ call'[c].at # NULL => Joinable(ManagerOf[c], call'[c].at)
  /\ \A d \in Callers \ {c} : call'[d] = call[d]

\* The loop begins, goes on, and ends.
LEMMA LoopGives ==
  ASSUME TypeInv, NEW c \in Callers,
         JoinAllTasks(c) \/ (\E k \in Ids : JoinAllVisit(c, k)) \/ JoinAllReturns(c)
  PROVE  TypeInv' /\ LoopStep(c)
<1>1. UNCHANGED <<taskId, lock, tasks, thread, returned, joined, failed>>
  BY Zenon DEF JoinAllTasks, JoinAllVisit, JoinAllReturns
<1>2. ASSUME NEW r \in JoiningAll, SetCall(c, r), call[c].op \in {"idle", "joinAll"},
             c \in Joiners \/ call[c].op = "joinAll", r.at # NULL => Joinable(ManagerOf[c], r.at)
      PROVE  TypeInv' /\ LoopStep(c)
  BY <1>2, <1>1, SetCallGives DEF JoiningAll, TypeInv, LoopStep
<1>3. CASE JoinAllTasks(c)
  BY <1>2, <1>3, TableFacts, CallersAssumption DEF JoiningAll, JoinAllTasks, At
<1>4. ASSUME NEW k \in Ids, JoinAllVisit(c, k) PROVE TypeInv' /\ LoopStep(c)
  <2>1. PICK at \in Ids \cup {NULL} : at = IF tasks[ManagerOf[c]][k].joinable THEN k ELSE NULL
    OBVIOUS
  <2>2. PICK r : r = [call[c] EXCEPT !.todo = Advance(@, k), !.at = at]
    OBVIOUS
  <2>3. call[c] \in JoiningAll /\ call[c].op = "joinAll" /\ HasEntry(ManagerOf[c], k)
    BY <1>4, CallFacts, Zenon DEF JoinAllVisit, At
  <2>4. r \in JoiningAll /\ r.at = at
    <3> HIDE DEF Ids
    <3> QED BY <2>2, <2>3, Zenon DEF JoiningAll, Advance
  <2>5. SetCall(c, r)
    BY <1>4, <2>1, <2>2, Zenon DEF JoinAllVisit
  <2> QED BY <1>2, <2>3, <2>4, <2>5, <2>1 DEF Joinable
<1>5. CASE JoinAllReturns(c)
  BY <1>5, <1>1, SetCallGives, CallFacts DEF JoinAllReturns, At, TypeInv, LoopStep
<1> QED BY <1>3, <1>4, <1>5

\* The loop joins the thread of an entry.
LEMMA JoinAllJoinsGives ==
  ASSUME TypeInv, NEW c \in Callers, JoinAllJoins(c), HasEntry(ManagerOf[c], call[c].at)
  PROVE  /\ TypeInv' /\ call[c].op = "joinAll" /\ call[c].at \in Ids /\ Join(c, call[c].at) /\ failed = "none"
         /\ call'[c].op = "joinAll" /\ call'[c].at = NULL /\ \A d \in Callers \ {c} : call'[d] = call[d]
         /\ UNCHANGED <<taskId, lock, thread, returned, joined>>
<1> PICK r : r = [call[c] EXCEPT !.at = NULL]
  BY Zenon
<1>1. call'[c] = r /\ (\A d \in Callers \ {c} : call'[d] = call[d])
      /\ call' \in [Callers -> {Idle} \cup Adding \cup Joining \cup JoiningAll]
  BY SetCallGives, CallFacts DEF JoiningAll, JoinAllJoins, At
<1> QED BY <1>1, JoinGives, CallFacts DEF TypeInv, JoiningAll, JoinAllJoins, At

-----------------------------------------------------------------------------
\* The lock: who is in one of its sections holds it.  A step that gives the lock to c
\* or takes it from c leaves the other callers theirs.
LEMMA LockInvNext ==
  ASSUME TypeInv, LockInv, EntryInv, [Next]_vars
  PROVE  TypeInv' /\ LockInv'
<1>1. /\ \A d \in Callers : d # NULL /\ ManagerOf[d] \in Managers
      /\ lock \in [Managers -> Callers \cup {NULL}]
  BY CallersAssumption DEF TypeInv
<1>2. ASSUME NEW c \in Callers, \A d \in Callers \ {c} : call'[d] = call[d],
             call'[c].op \notin {"create", "insert", "join"},
             lock' = lock \/ (call[c].op \in {"create", "insert", "join"} /\ lock' = [lock EXCEPT ![ManagerOf[c]] = NULL])
      PROVE  \A d \in Callers : call'[d].op \in {"create", "insert", "join"} => lock'[ManagerOf[d]] = d
  BY <1>1, <1>2 DEF LockInv
<1>3. ASSUME NEW c \in Callers, \A d \in Callers \ {c} : call'[d] = call[d],
             lock[ManagerOf[c]] = NULL, lock' = [lock EXCEPT ![ManagerOf[c]] = c]
      PROVE  \A d \in Callers : call'[d].op \in {"create", "insert", "join"} => lock'[ManagerOf[d]] = d
  BY <1>1, <1>3 DEF LockInv
<1>4. ASSUME NEW c \in Callers, \A d \in Callers \ {c} : call'[d] = call[d],
             call[c].op \in {"create", "insert", "join"}, lock' = lock
      PROVE  \A d \in Callers : call'[d].op \in {"create", "insert", "join"} => lock'[ManagerOf[d]] = d
  BY <1>1, <1>4 DEF LockInv
<1>5. ASSUME UNCHANGED <<thread, taskId>>
      PROVE  /\ \A k \in Ids : thread'[k] # "none" <=> Cardinality(Managers) < k /\ k < taskId'
             /\ Cardinality(Managers) < taskId'
  BY <1>5 DEF LockInv
<1>6. ASSUME NEW c \in Callers, NEW n \in Counts, AddTask(c, n) PROVE TypeInv' /\ LockInv'
  BY <1>3, <1>5, <1>6, AddTaskGives DEF LockInv
<1>7. ASSUME NEW c \in Callers, CreateThread(c) PROVE TypeInv' /\ LockInv'
  <2>1. /\ TypeInv' /\ call[c].op = "create" /\ taskId \in Ids /\ taskId' = taskId + 1
        /\ thread' = [thread EXCEPT ![taskId] = "init"]
        /\ (\A d \in Callers \ {c} : call'[d] = call[d]) /\ lock' = lock
    BY <1>7, CreateThreadGives
  <2>2. \A k \in Ids : thread'[k] # "none" <=> Cardinality(Managers) < k /\ k < taskId'
    <3> TAKE k \in Ids
    <3>1. CASE k = taskId
      BY <2>1, <3>1, CallersAssumption DEF TypeInv, Ids, LockInv
    <3>2. CASE k # taskId
      <4>1. thread'[k] = thread[k]
        BY <2>1, <3>2 DEF TypeInv
      <4> QED BY <2>1, <3>2, <4>1, CallersAssumption DEF LockInv, Ids
    <3> QED BY <3>1, <3>2
  <2> QED BY <1>4, <2>1, <2>2, CallersAssumption DEF LockInv, Ids
<1>8. ASSUME NEW c \in Callers, InsertEntry(c) PROVE TypeInv' /\ LockInv'
  BY <1>4, <1>5, <1>8, InsertEntryGives DEF LockInv
<1>9. ASSUME NEW c \in Callers, AddTaskReturns(c) PROVE TypeInv' /\ LockInv'
  BY <1>2, <1>5, <1>9, AddTaskReturnsGives DEF LockInv
<1>10. ASSUME NEW c \in Callers, JoinTaskReturns(c) PROVE TypeInv' /\ LockInv'
  <2>1. HasEntry(ManagerOf[c], call[c].id)
    BY <1>10 DEF JoinTaskReturns, At, EntryInv, SeesEntry
  <2> QED BY <1>2, <1>5, <1>10, <2>1, JoinTaskReturnsGives DEF LockInv
<1>11. ASSUME NEW c \in Callers, JoinAllTasks(c) \/ (\E k \in Ids : JoinAllVisit(c, k)) \/ JoinAllReturns(c)
       PROVE  TypeInv' /\ LockInv'
  BY <1>11, <1>2, <1>5, LoopGives DEF LoopStep, LockInv
<1>12. ASSUME NEW c \in Callers, JoinAllJoins(c) PROVE TypeInv' /\ LockInv'
  <2>1. HasEntry(ManagerOf[c], call[c].at)
    BY <1>12 DEF JoinAllJoins, At, EntryInv, SeesEntry
  <2> QED BY <1>2, <1>5, <1>12, <2>1, JoinAllJoinsGives DEF LockInv
<1>13. ASSUME NEW c \in Callers, NEW k \in Ids, JoinTask(c, k) PROVE TypeInv' /\ LockInv'
  BY <1>13, <1>3, <1>5, JoinTaskGives DEF LockInv
<1>14. ASSUME NEW k \in Ids, Run(k) PROVE TypeInv' /\ LockInv'
  BY <1>14, RunGives DEF LeavesTables, LockInv
<1>15. CASE UNCHANGED vars
  BY <1>15 DEF vars, TypeInv, LockInv
<1> QED BY <1>6, <1>7, <1>8, <1>9, <1>10, <1>11, <1>12, <1>13, <1>14, <1>15 DEF Next, Proceed, Request

\* A step that removes no entry and begins no join without one.
LEMMA EntryKept ==
  ASSUME TypeInv, EntryInv, \A m \in Managers : DOMAIN tasks[m] \subseteq DOMAIN tasks'[m],
         \A d \in Callers : \/ call'[d] = call[d]
                            \/ call'[d].op \notin {"join", "joinAll"}
                            \/ call'[d].op = "joinAll" /\ (call'[d].at # NULL => HasEntry(ManagerOf[d], call'[d].at))
                            \/ call'[d].op = "join" /\ HasEntry(ManagerOf[d], call'[d].id)
  PROVE  EntryInv'
<1> SUFFICES ASSUME NEW d \in Callers PROVE SeesEntry(d)'
  BY DEF EntryInv
<1> QED BY CallersAssumption DEF SeesEntry, HasEntry, EntryInv

\* Each step.
LEMMA EntryInvNext ==
  ASSUME TypeInv, EntryInv, [Next]_vars
  PROVE  EntryInv'
<1>1. ASSUME NEW c \in Callers, NEW n \in Counts, AddTask(c, n) PROVE EntryInv'
  BY <1>1, AddTaskGives, EntryKept
<1>2. ASSUME NEW c \in Callers, CreateThread(c) PROVE EntryInv'
  BY <1>2, CreateThreadGives, EntryKept
<1>3. ASSUME NEW c \in Callers, InsertEntry(c) PROVE EntryInv'
  BY <1>3, InsertEntryGives, EntryKept
<1>4. ASSUME NEW c \in Callers, AddTaskReturns(c) PROVE EntryInv'
  BY <1>4, AddTaskReturnsGives, EntryKept
<1>5. ASSUME NEW c \in Callers, JoinTaskReturns(c) PROVE EntryInv'
  <2>1. HasEntry(ManagerOf[c], call[c].id)
    BY <1>5 DEF JoinTaskReturns, At, EntryInv, SeesEntry
  <2> QED BY <1>5, <2>1, EntryKept, JoinGives, JoinTaskReturnsGives
<1>6. ASSUME NEW c \in Callers, JoinAllTasks(c) \/ (\E k \in Ids : JoinAllVisit(c, k)) \/ JoinAllReturns(c)
      PROVE  EntryInv'
  BY <1>6, LoopGives, EntryKept DEF LoopStep, Joinable
<1>7. ASSUME NEW c \in Callers, JoinAllJoins(c) PROVE EntryInv'
  BY <1>7, JoinAllJoinsGives, JoinGives, EntryKept DEF JoinAllJoins, At, EntryInv, SeesEntry
<1>8. ASSUME NEW c \in Callers, NEW k \in Ids, JoinTask(c, k) PROVE EntryInv'
  BY <1>8, JoinTaskGives, EntryKept DEF Joinable
<1>9. ASSUME NEW k \in Ids, Run(k) PROVE EntryInv'
  BY <1>9, RunGives, EntryKept DEF LeavesTables
<1>10. CASE UNCHANGED vars
  BY <1>10, EntryKept DEF vars
<1> QED BY <1>1, <1>2, <1>3, <1>4, <1>5, <1>6, <1>7, <1>8, <1>9, <1>10 DEF Next, Proceed, Request

-----------------------------------------------------------------------------
\* A step that inserts nothing and starts no thread.
LEMMA TableKept ==
  ASSUME TypeInv, TableInv, \A m \in Managers : DOMAIN tasks'[m] = DOMAIN tasks[m],
         \A k \in Ids : thread'[k] # "none" <=> thread[k] # "none",
         \A d \in Callers : \/ call'[d] = call[d]
                            \/ call[d].op # "insert" /\ call'[d].op \notin {"create", "insert"}
                            \/ call[d].op # "insert" /\ call'[d].op = "create" /\ call'[d].made = {}
  PROVE  TableInv'
<1>1. \A d \in Callers : \A k \in Ids : Pending(d, k)' <=> Pending(d, k)
  BY DEF Pending, IsNewId
<1>2. \A d \in Callers : Makes(d)' => \A k \in call'[d].made : thread'[k] # "none"
  BY CallFacts DEF TableInv, Makes, Adding
<1> QED BY <1>1, <1>2, TableFacts, CallersAssumption DEF TableInv, HasEntry, IsNewId

\* A thread that is created is the newest of its call and has no entry yet.
LEMMA TableAfterCreate ==
  ASSUME TypeInv, LockInv, TableInv, NEW c \in Callers, CreateThread(c)
  PROVE  TableInv'
<1>1. PICK t \in Ids : t = taskId
  BY CreateThreadGives
<1>2. /\ call[c].op = "create" /\ call[c].made \subseteq Ids
      /\ thread' = [thread EXCEPT ![t] = "init"]
      /\ call'[c].op = "insert" /\ call'[c].made = call[c].made \cup {t}
      /\ (\A d \in Callers \ {c} : call'[d] = call[d])
      /\ UNCHANGED <<lock, tasks>>
  BY <1>1, CreateThreadGives
<1>3. thread[t] = "none" /\ (\A k \in Ids : k # t => thread'[k] = thread[k]) /\ thread'[t] # "none"
  BY <1>1, <1>2, CallersAssumption DEF LockInv, TypeInv, Ids
<1>4. \A k \in call[c].made : thread[k] # "none" /\ k < t
  BY <1>1, <1>2 DEF TableInv, LockInv, Makes
<1>5. \A m \in Managers : ~HasEntry(m, t) /\ \A k \in Ids : HasEntry(m, k)' <=> HasEntry(m, k)
  BY <1>2, <1>3 DEF HasEntry, TableInv
<1>6. \A d \in Callers : \A k \in Ids : Pending(d, k)' <=> Pending(d, k) \/ (d = c /\ k = t)
  BY <1>2, <1>4, CallersAssumption DEF Pending, IsNewId, Ids
<1>7. \A d \in Callers : Makes(d)' => \A k \in call'[d].made : thread'[k] # "none"
  BY <1>2, <1>3, <1>4, CallFacts DEF TableInv, Makes, Adding
<1>8. \A d \in Callers : call'[d].op = "create" => call'[d].made \subseteq DOMAIN tasks'[ManagerOf[d]]
  BY <1>2 DEF TableInv
<1>9. \A d \in Callers : call'[d].op = "insert" =>
         \E k \in call'[d].made : IsNewId(d, k)' /\ call'[d].made \ {k} \subseteq DOMAIN tasks'[ManagerOf[d]]
  BY <1>2, <1>4, CallersAssumption DEF TableInv, IsNewId, Ids
<1>10. \A m \in Managers : \A k \in DOMAIN tasks'[m] : thread'[k] # "none"
  BY <1>2, <1>3, TableFacts DEF TableInv
<1>11. \A m, n \in Managers : \A k \in Ids : HasEntry(m, k)' /\ HasEntry(n, k)' => m = n
  BY <1>5 DEF TableInv
<1>12. \A d \in Callers, m \in Managers : \A k \in Ids : Pending(d, k)' => ~HasEntry(m, k)'
  BY <1>5, <1>6 DEF TableInv
<1>13. \A d, e \in Callers : \A k \in Ids : Pending(d, k)' /\ Pending(e, k)' => d = e
  BY <1>6, <1>3 DEF TableInv, Pending, IsNewId, Makes
<1>14. \A k \in Ids : thread'[k] # "none" =>
         (\E m \in Managers : HasEntry(m, k)') \/ \E d \in Callers : Pending(d, k)'
  BY <1>3, <1>5, <1>6 DEF TableInv
<1> QED BY <1>7, <1>8, <1>9, <1>10, <1>11, <1>12, <1>13, <1>14 DEF TableInv

\* Its entry is made in the table of the call's manager.
LEMMA TableAfterInsert ==
  ASSUME TypeInv, TableInv, NEW c \in Callers, InsertEntry(c)
  PROVE  TableInv'
<1>1. PICK M \in Managers : M = ManagerOf[c]
  BY CallersAssumption
<1>2. /\ call[c].op = "insert" /\ (\A n \in Managers \ {M} : tasks'[n] = tasks[n])
      /\ call'[c].op = "create" /\ call'[c].made = call[c].made /\ thread' = thread
      /\ (\A d \in Callers \ {c} : call'[d] = call[d])
  BY <1>1, InsertEntryGives
<1>3. PICK k \in Ids : IsNewId(c, k) /\ DOMAIN tasks'[M] = DOMAIN tasks[M] \cup {k}
  BY <1>1, InsertEntryGives
<1>4. Pending(c, k) /\ k \in call[c].made /\ thread[k] # "none" /\ \A i \in Ids : IsNewId(c, i) => i = k
  <2>1. Pending(c, k) /\ k \in call[c].made /\ thread[k] # "none"
    BY <1>2, <1>3 DEF Pending, IsNewId, TableInv, Makes
  <2> QED BY <1>3, <2>1, CallersAssumption DEF IsNewId, Ids
<1>5. \A m \in Managers : \A i \in Ids : HasEntry(m, i)' <=> HasEntry(m, i) \/ (m = M /\ i = k)
  BY <1>2, <1>3 DEF HasEntry
<1>6. \A d \in Callers : \A i \in Ids : Pending(d, i)' <=> Pending(d, i) /\ d # c
  BY <1>2 DEF Pending, IsNewId
<1>7. \A d \in Callers : Makes(d)' => \A i \in call'[d].made : thread'[i] # "none"
  BY <1>2 DEF TableInv, Makes
<1>8. \A d \in Callers : call'[d].op = "create" => call'[d].made \subseteq DOMAIN tasks'[ManagerOf[d]]
  <2> TAKE d \in Callers
  <2>1. CASE d = c
    <3>1. call[c].made \ {k} \subseteq DOMAIN tasks[M]
      BY <1>1, <1>2, <1>4, CallFacts DEF TableInv, Adding, Makes
    <3> QED BY <1>1, <1>2, <1>3, <2>1, <3>1
  <2>2. CASE d # c
    BY <1>2, <1>3, <2>2, CallersAssumption DEF TableInv
  <2> QED BY <2>1, <2>2
<1>9. \A d \in Callers : call'[d].op = "insert" =>
        \E i \in call'[d].made : IsNewId(d, i)' /\ call'[d].made \ {i} \subseteq DOMAIN tasks'[ManagerOf[d]]
  BY <1>2, <1>3, CallersAssumption DEF TableInv, IsNewId
<1>10. \A m \in Managers : \A i \in DOMAIN tasks'[m] : thread'[i] # "none"
  BY <1>2, <1>3, <1>4 DEF TableInv
<1>11. \A m, n \in Managers : \A i \in Ids : HasEntry(m, i)' /\ HasEntry(n, i)' => m = n
  BY <1>4, <1>5 DEF TableInv
<1>12. \A d \in Callers, m \in Managers : \A i \in Ids : Pending(d, i)' => ~HasEntry(m, i)'
  BY <1>4, <1>5, <1>6 DEF TableInv
<1>13. \A d, e \in Callers : \A i \in Ids : Pending(d, i)' /\ Pending(e, i)' => d = e
  BY <1>6 DEF TableInv
<1>14. \A i \in Ids : thread'[i] # "none" =>
         (\E m \in Managers : HasEntry(m, i)') \/ \E d \in Callers : Pending(d, i)'
  BY <1>4, <1>2, <1>5, <1>6 DEF Pending, TableInv
<1> QED BY <1>7, <1>8, <1>9, <1>10, <1>11, <1>12, <1>13, <1>14, Zenon DEF TableInv

\* Each step keeps the entries where they are due.
LEMMA TableInvNext ==
  ASSUME TypeInv, LockInv, TableInv, EntryInv, [Next]_vars
  PROVE  TableInv'
<1>1. \A d \in Callers : call[d].op = "idle" \/ call[d].op = "joinAll" \/ call[d].op = "join" => call[d].op # "insert"
  OBVIOUS
<1>2. ASSUME NEW c \in Callers, NEW n \in Counts, AddTask(c, n) PROVE TableInv'
  BY <1>2, AddTaskGives, TableKept
<1>3. ASSUME NEW c \in Callers, CreateThread(c) PROVE TableInv'
  BY <1>3, TableAfterCreate
<1>4. ASSUME NEW c \in Callers, InsertEntry(c) PROVE TableInv'
  BY <1>4, TableAfterInsert
<1>5. ASSUME NEW c \in Callers, AddTaskReturns(c) PROVE TableInv'
  BY <1>5, AddTaskReturnsGives, TableKept
<1>6. ASSUME NEW c \in Callers, JoinTaskReturns(c) PROVE TableInv'
  <2>1. HasEntry(ManagerOf[c], call[c].id)
    BY <1>6 DEF JoinTaskReturns, At, EntryInv, SeesEntry
  <2> QED BY <1>6, <2>1, TableKept, JoinGives, JoinTaskReturnsGives
<1>7. ASSUME NEW c \in Callers, JoinAllTasks(c) \/ (\E k \in Ids : JoinAllVisit(c, k)) \/ JoinAllReturns(c)
      PROVE  TableInv'
  BY <1>7, LoopGives, TableKept DEF LoopStep
<1>8. ASSUME NEW c \in Callers, JoinAllJoins(c) PROVE TableInv'
  BY <1>8, JoinAllJoinsGives, JoinGives, TableKept DEF JoinAllJoins, At, EntryInv, SeesEntry
<1>9. ASSUME NEW c \in Callers, NEW k \in Ids, JoinTask(c, k) PROVE TableInv'
  BY <1>9, JoinTaskGives, TableKept
<1>10. ASSUME NEW k \in Ids, Run(k) PROVE TableInv'
  BY <1>10, RunGives, TableKept DEF LeavesTables
<1>11. CASE UNCHANGED vars
  BY <1>11, TableKept DEF vars
<1> QED BY <1>2, <1>3, <1>4, <1>5, <1>6, <1>7, <1>8, <1>9, <1>10, <1>11 DEF Next, Proceed, Request

-----------------------------------------------------------------------------
\* A step that joins nothing and begins or goes on with no join.
LEMMA JoinKept ==
  ASSUME TypeInv, JoinInv, joined' = joined, failed' # "not_joinable",
         \A m \in Managers : \A k \in DOMAIN tasks[m] :
           k \in DOMAIN tasks'[m] /\ (tasks'[m][k].joinable <=> tasks[m][k].joinable),
         \A k \in Ids : thread[k] = "ended" => thread'[k] = "ended",
         \A d \in Callers : call'[d] = call[d] \/ call'[d].op \notin {"join", "joinAll"}
  PROVE  JoinInv'
<1>1. \A m \in Managers : \A k : Joinable(m, k) => Joinable(m, k)'
  BY DEF Joinable, HasEntry
<1>2. ASSUME NEW d \in Callers PROVE SeesJoinable(d)'
  BY <1>1, CallersAssumption DEF JoinInv, SeesJoinable
<1>3. ASSUME NEW k \in Ids PROVE Left(k)'
  BY DEF JoinInv, Left, HasEntry
<1> QED BY <1>2, <1>3 DEF JoinInv

\* The one joining caller joins thread k, which nobody has joined.
LEMMA JoinOnce ==
  ASSUME OneJoiner, TypeInv, TableInv, JoinInv, NEW c \in Callers, c \in Joiners, NEW k \in Ids,
         Joinable(ManagerOf[c], k), Join(c, k), UNCHANGED thread,
         \A d \in Callers \ {c} : call'[d] = call[d],
         call'[c].op = "idle" \/ (call'[c].op = "joinAll" /\ call'[c].at = NULL),
         joined' = joined \/ joined' = [joined EXCEPT ![k] = @ + 1]
  PROVE  JoinInv'
<1>1. PICK M \in Managers : M = ManagerOf[c]
  BY CallersAssumption
<1>2. /\ failed' = failed /\ thread[k] = "ended" /\ ~tasks'[M][k].joinable /\ HasEntry(M, k)
      /\ \A m \in Managers : DOMAIN tasks'[m] = DOMAIN tasks[m]
      /\ \A m \in Managers : \A i \in DOMAIN tasks[m] : m # M \/ i # k => tasks'[m][i] = tasks[m][i]
  BY <1>1, JoinGives DEF Joinable
<1>3. joined[k] = 0
  BY <1>2, <1>1 DEF TableInv, JoinInv, Left, Joinable
<1>4. ASSUME NEW i \in Ids PROVE Left(i)'
  BY <1>3, <1>2 DEF TypeInv, HasEntry, Left, JoinInv
<1> QED BY <1>2, <1>4 DEF JoinInv, SeesJoinable, OneJoiner

\* Each step, with one joining caller.
LEMMA JoinInvNext ==
  ASSUME OneJoiner, TypeInv, LockInv, TableInv, JoinInv, [Next]_vars
  PROVE  JoinInv'
<1>1. failed # "not_joinable"
  BY DEF JoinInv
<1>2. ASSUME NEW c \in Callers, NEW n \in Counts, AddTask(c, n) PROVE JoinInv'
  BY <1>1, <1>2, AddTaskGives, JoinKept
<1>3. ASSUME NEW c \in Callers, CreateThread(c) PROVE JoinInv'
  <2>1. /\ taskId \in Ids /\ thread' = [thread EXCEPT ![taskId] = "init"] /\ call'[c].op = "insert"
        /\ (\A d \in Callers \ {c} : call'[d] = call[d]) /\ UNCHANGED <<tasks, joined, failed>>
    BY <1>3, CreateThreadGives
  <2>2. thread[taskId] = "none"
    BY <2>1, CallersAssumption DEF LockInv, Ids
  <2>3. \A k \in Ids : thread[k] = "ended" => thread'[k] = "ended"
    BY <2>1, <2>2 DEF TypeInv
  <2> QED BY <1>1, <2>1, <2>3, JoinKept
<1>4. ASSUME NEW c \in Callers, InsertEntry(c) PROVE JoinInv'
  <2>1. PICK M \in Managers : M = ManagerOf[c]
    BY CallersAssumption
  <2>2. /\ call[c].op = "insert" /\ (\A n \in Managers \ {M} : tasks'[n] = tasks[n])
        /\ call'[c].op = "create" /\ (\A d \in Callers \ {c} : call'[d] = call[d])
        /\ UNCHANGED <<thread, joined, failed>>
    BY <1>4, <2>1, InsertEntryGives
  <2>3. PICK k \in Ids : /\ IsNewId(c, k) /\ DOMAIN tasks'[M] = DOMAIN tasks[M] \cup {k}
                         /\ \A i \in DOMAIN tasks[M] \ {k} : tasks'[M][i] = tasks[M][i]
    BY <1>4, <2>1, InsertEntryGives
  <2>4. k \notin DOMAIN tasks[M]
    BY <2>2, <2>3 DEF TableInv, Pending, HasEntry
  <2>5. \A m \in Managers : \A i \in DOMAIN tasks[m] :
          i \in DOMAIN tasks'[m] /\ (tasks'[m][i].joinable <=> tasks[m][i].joinable)
    BY <2>2, <2>3, <2>4
  <2> QED BY <1>1, <2>2, <2>5, JoinKept
<1>5. ASSUME NEW c \in Callers, AddTaskReturns(c) PROVE JoinInv'
  BY <1>1, <1>5, AddTaskReturnsGives, JoinKept
<1>6. ASSUME NEW c \in Callers, JoinTaskReturns(c) PROVE JoinInv'
  <2>1. Joinable(ManagerOf[c], call[c].id) /\ c \in Joiners
    BY <1>6 DEF JoinTaskReturns, At, JoinInv, SeesJoinable
  <2>2. PICK k \in Ids : k = call[c].id
    BY <1>6, <2>1, JoinTaskReturnsGives DEF Joinable
  <2>3. /\ Join(c, k) /\ thread' = thread /\ joined' = [joined EXCEPT ![k] = @ + 1]
        /\ call'[c].op = "idle" /\ \A d \in Callers \ {c} : call'[d] = call[d]
    BY <1>6, <2>1, <2>2, JoinTaskReturnsGives DEF Joinable
  <2> QED BY <2>1, <2>2, <2>3, JoinOnce, Zenon
<1>7. ASSUME NEW c \in Callers, JoinAllTasks(c) \/ (\E k \in Ids : JoinAllVisit(c, k)) \/ JoinAllReturns(c)
      PROVE  JoinInv'
  <2>1. LoopStep(c)
    BY <1>7, LoopGives
  <2>2. \A m, k : Joinable(m, k) <=> Joinable(m, k)'
    BY <2>1 DEF LoopStep, Joinable, HasEntry
  <2>3. \A d \in Callers : SeesJoinable(d)'
    BY <2>1, <2>2 DEF JoinInv, LoopStep, SeesJoinable
  <2> QED BY <1>1, <2>1, <2>3 DEF LoopStep, JoinInv, Left, HasEntry
<1>8. ASSUME NEW c \in Callers, JoinAllJoins(c) PROVE JoinInv'
  <2>1. Joinable(ManagerOf[c], call[c].at) /\ c \in Joiners
    BY <1>8 DEF JoinAllJoins, At, JoinInv, SeesJoinable
  <2>2. PICK k \in Ids : k = call[c].at
    BY <1>8, <2>1, JoinAllJoinsGives DEF Joinable
  <2> QED BY <1>8, <2>1, <2>2, JoinOnce, JoinAllJoinsGives DEF Joinable
<1>9. ASSUME NEW c \in Callers, NEW k \in Ids, JoinTask(c, k) PROVE JoinInv'
  <2>1. CASE failed' = "out_of_range" /\ UNCHANGED call
    BY <1>9, <2>1, JoinTaskGives, JoinKept
  <2>2. CASE /\ c \in Joiners /\ Joinable(ManagerOf[c], k) /\ UNCHANGED <<failed, tasks, thread, joined>>
             /\ call'[c].op = "join" /\ call'[c].id = k /\ \A d \in Callers \ {c} : call'[d] = call[d]
    <3>1. \A m, i : Joinable(m, i) <=> Joinable(m, i)'
      BY <2>2 DEF Joinable, HasEntry
    <3> QED BY <1>1, <2>2, <3>1 DEF JoinInv, Left, HasEntry, SeesJoinable
  <2> QED BY <1>9, <2>1, <2>2, JoinTaskGives
<1>10. ASSUME NEW k \in Ids, Run(k) PROVE JoinInv'
  BY <1>10, RunGives, JoinKept DEF LeavesTables
<1>11. CASE UNCHANGED vars
  BY <1>1, <1>11, JoinKept DEF vars
<1> QED BY <1>2, <1>3, <1>4, <1>5, <1>6, <1>7, <1>8, <1>9, <1>10, <1>11 DEF Next, Proceed, Request

-----------------------------------------------------------------------------
IInv == TypeInv /\ LockInv /\ EntryInv /\ TableInv

\* No thread is started and nobody is in a call.
LEMMA IInvInit == Init => IInv /\ JoinInv
<1> SUFFICES ASSUME Init PROVE IInv /\ JoinInv
  OBVIOUS
<1>1. Cardinality(Managers) \in Nat /\ Cardinality(Managers) < MaxId /\ MaxId \in Nat
  BY CallersAssumption
<1>2. \A m \in Managers : tasks[m] \in Tables /\ DOMAIN tasks[m] = {}
  <2> PICK none : none = [k \in {} |-> NULL]
    OBVIOUS
  <2>1. none \in [{} -> Entry] /\ {} \in SUBSET Ids
    OBVIOUS
  <2>2. none \in Tables /\ DOMAIN none = {}
    BY <2>1 DEF Tables
  <2> QED BY <2>2 DEF Init
<1>3. \A c \in Callers : call[c] = Idle /\ call[c].op = "idle"
  BY DEF Init, Idle
<1>4. TypeInv
  BY <1>1, <1>2 DEF Init, TypeInv
<1>5. \A k \in Ids : thread[k] = "none" /\ joined[k] = 0 /\ ~(Cardinality(Managers) < k /\ k < taskId)
  BY <1>1 DEF Init, Ids
<1>6. LockInv
  BY <1>1, <1>3, <1>5 DEF Init, LockInv
<1>7. TableInv
  BY <1>2, <1>3, <1>5 DEF TableInv, Makes, Pending, HasEntry
<1>8. JoinInv
  BY <1>3, <1>5 DEF Init, JoinInv, SeesJoinable, Left
<1> QED BY <1>4, <1>6, <1>7, <1>8, <1>3 DEF IInv, EntryInv, SeesEntry

\* Each step, whoever joins.
LEMMA IInvNext == IInv /\ [Next]_vars => IInv'
  BY LockInvNext, EntryInvNext, TableInvNext DEF IInv

\* What the invariants say of ThreadsAccounted.
LEMMA IInvGives == IInv /\ JoinInv => ThreadsAccounted
<1> SUFFICES ASSUME IInv, JoinInv PROVE ThreadsAccounted
  OBVIOUS
<1>1. TypeInv /\ LockInv /\ TableInv /\ JoinInv
  BY DEF IInv
<1>2. TypeOK
  BY <1>1, TableFacts, CallFacts DEF Entry, TypeInv, TypeOK
<1>3. ASSUME NEW k \in Ids, thread[k] # "none"
      PROVE  \E x \in Managers \cup Callers :
               {x} = {m \in Managers : HasEntry(m, k)} \cup
                     {c \in Callers : /\ call[c].op = "insert" /\ k \in call[c].made
                                      /\ lock[ManagerOf[c]] = c
                                      /\ ~HasEntry(ManagerOf[c], k)}
  <2> PICK P : P = {c \in Callers : /\ call[c].op = "insert" /\ k \in call[c].made
                                    /\ lock[ManagerOf[c]] = c /\ ~HasEntry(ManagerOf[c], k)}
    BY Zenon
  <2>1. \A c \in Callers : c \in P <=> Pending(c, k)
    <3> TAKE c \in Callers
    <3>1. ASSUME Pending(c, k) PROVE c \in P
      BY <1>1, <3>1, CallersAssumption DEF Pending, IsNewId, TableInv, LockInv
    <3>2. ASSUME c \in P PROVE Pending(c, k)
      BY <1>1, <3>2 DEF TableInv, HasEntry, Pending
    <3> QED BY <3>1, <3>2
  <2> QED BY <1>1, <1>3, <2>1 DEF TableInv
<1> QED BY <1>2, <1>3, <1>1 DEF ThreadsAccounted, JoinInv, Left, JoinedOnceEnded

\* However many callers add tasks to however many managers, no thread is forgotten and
\* none is joined twice, if one caller does the joining (TaskManager.cpp:31-39, 57-65,
\* 77, 86-92).
THEOREM NoThreadForgotten == ASSUME OneJoiner PROVE Spec => []ThreadsAccounted
<1>1. IInv /\ JoinInv /\ [Next]_vars => JoinInv'
  BY JoinInvNext DEF IInv
<1> QED BY <1>1, IInvInit, IInvNext, IInvGives, PTL DEF Spec

-----------------------------------------------------------------------------
\* With one manager its lock keeps the others from taking ids.
LEMMA RangeInvNext ==
  ASSUME OneManager, TypeInv, LockInv, EntryInv, RangeInv, [Next]_vars
  PROVE  RangeInv'
<1>1. \A c, d \in Callers : call[c].op \in {"create", "insert", "join"} /\ call[d].op \in {"create", "insert", "join"} => c = d
  BY DEF OneManager, LockInv
<1>2. ASSUME UNCHANGED <<taskId, returned>>,
             \A d \in Callers : call'[d] = call[d] \/ call'[d].op \notin {"create", "insert"}
      PROVE  RangeInv'
  BY <1>2 DEF RangeInv, RangeIsExact, Makes
<1>3. ASSUME NEW c \in Callers, NEW n \in Counts, AddTask(c, n) PROVE RangeInv'
  <2>1. /\ call'[c].made = {} /\ call'[c].first = taskId /\ (\A d \in Callers \ {c} : call'[d] = call[d])
        /\ UNCHANGED <<taskId, returned>>
    BY <1>3, AddTaskGives
  <2>2. taskId <= taskId /\ {} = taskId .. taskId - 1
    BY DEF TypeInv
  <2> QED BY <2>1, <2>2, Zenon DEF RangeInv, RangeIsExact, Makes
<1>4. ASSUME NEW c \in Callers, CreateThread(c) PROVE RangeInv'
  <2>1. /\ call[c].op = "create" /\ taskId' = taskId + 1 /\ call'[c].made = call[c].made \cup {taskId}
        /\ call'[c].first = call[c].first /\ (\A d \in Callers \ {c} : call'[d] = call[d])
        /\ UNCHANGED returned
    BY <1>4, CreateThreadGives
  <2>2. call[c].first <= taskId /\ call[c].made = call[c].first .. taskId - 1
    BY <2>1 DEF RangeInv, Makes
  <2>3. call'[c].first <= taskId' /\ call'[c].made = call'[c].first .. taskId' - 1
    BY <2>1, <2>2, CallersAssumption, CallFacts DEF Adding, Makes, TypeInv
  <2> QED BY <1>1, <2>1, <2>3 DEF RangeInv, RangeIsExact, Makes
<1>5. ASSUME NEW c \in Callers, InsertEntry(c) PROVE RangeInv'
  BY <1>5, InsertEntryGives DEF RangeInv, RangeIsExact, Makes
<1>6. ASSUME NEW c \in Callers, AddTaskReturns(c) PROVE RangeInv'
  <2>1. PICK first \in 0 .. MaxId, last \in 0 .. MaxId :
          /\ IF call[c].count = 1 THEN {first} = call[c].made /\ last = first
                                  ELSE first = call[c].first /\ last = LastId
          /\ returned' = returned \cup
               {[manager |-> ManagerOf[c], made |-> call[c].made, first |-> first, last |-> last]}
    BY <1>6 DEF AddTaskReturns
  <2>2. first .. last = call[c].made
    <3>1. CASE call[c].count = 1
      BY <2>1, <3>1, CallersAssumption
    <3>2. CASE call[c].count # 1
      BY <1>6, <2>1, <3>2, AddTaskReturnsGives, Zenon DEF RangeInv, Makes, LastId
    <3> QED BY <3>1, <3>2
  <2> QED BY <1>6, <2>2, <2>1, AddTaskReturnsGives DEF RangeInv, RangeIsExact, Makes
<1>7. ASSUME NEW c \in Callers, JoinTaskReturns(c) PROVE RangeInv'
  <2>1. HasEntry(ManagerOf[c], call[c].id)
    BY <1>7 DEF JoinTaskReturns, At, EntryInv, SeesEntry
  <2> QED BY <1>2, <1>7, <2>1, JoinTaskReturnsGives, Zenon
<1>8. ASSUME NEW c \in Callers, JoinAllTasks(c) \/ (\E k \in Ids : JoinAllVisit(c, k)) \/ JoinAllReturns(c)
      PROVE  RangeInv'
  BY <1>2, <1>8, LoopGives DEF LoopStep
<1>9. ASSUME NEW c \in Callers, JoinAllJoins(c) PROVE RangeInv'
  BY <1>9, <1>2, JoinAllJoinsGives DEF JoinAllJoins, At, EntryInv, SeesEntry
<1>10. ASSUME NEW c \in Callers, NEW k \in Ids, JoinTask(c, k) PROVE RangeInv'
  BY <1>2, <1>10, JoinTaskGives
<1>11. ASSUME NEW k \in Ids, Run(k) PROVE RangeInv'
  BY <1>2, <1>11, RunGives
<1>12. CASE UNCHANGED vars
  BY <1>2, <1>12 DEF vars
<1> QED BY <1>3, <1>4, <1>5, <1>6, <1>7, <1>8, <1>9, <1>10, <1>11, <1>12 DEF Next, Proceed, Request

\* With one manager a range is what the call has made, whatever other callers do at the
\* same time (TaskManager.cpp:53, 68).
THEOREM RangesAreExact == ASSUME OneManager PROVE Spec => []RangeIsExact
<1>1. Init => RangeInv
  BY DEF Init, Idle, RangeInv, RangeIsExact, Makes
<1>2. IInv /\ RangeInv /\ [Next]_vars => RangeInv'
  BY RangeInvNext DEF IInv
<1>3. RangeInv => RangeIsExact
  BY DEF RangeInv
<1> QED BY <1>1, <1>2, <1>3, IInvInit, IInvNext, PTL DEF Spec
=============================================================================
