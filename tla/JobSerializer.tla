--------------------------- MODULE JobSerializer ---------------------------
(***************************************************************************)
(* JobSerializer and the serializer queue of GlobalJobWorker               *)
(* (JobSerializer.h/.cpp, JobWorker.h/.cpp): jobs pushed to one serializer *)
(* by any thread run one at a time, in order, on whichever thread has the  *)
(* serializer.                                                             *)
(*                                                                         *)
(* A thread runs library code at two levels: ExecuteJobs of the serializer *)
(* in its TLS_CurrentJobSerializer (execAt), and a Push, made from a job's *)
(* body or from outside (pushAt).  A Push below ExecuteJobs never executes *)
(* inline, so there are no further levels.  LockQueue's operations run     *)
(* under its write lock and are single steps.  Ticks are left out: whether *)
(* ExecuteJobs has used up its time is a choice.                           *)
(***************************************************************************)
EXTENDS Integers, Sequences, FiniteSets

CONSTANTS
  Threads,
  Workers,       \* the threads that keep calling DoJobs
  Serializers,
  Jobs,          \* bound: the jobs ever pushed, each once
  Target,        \* the serializer each job is pushed to
  NULL

ASSUME JobsAssumption ==
  /\ IsFiniteSet(Threads)
  /\ Workers \subseteq Threads
  /\ Target \in [Jobs -> Serializers]
  /\ NULL \notin Serializers \cup Jobs

VARIABLES
  queuedCount,               \* _queuedCount of every serializer
  jobs,                      \* _jobs of every serializer
  jobQueue,                  \* GlobalJobWorker::_jobQueue
  TLS_CurrentJobSerializer,
  execAt,                    \* where a thread is in ExecuteJobs
  batch,                     \* its local jobs, those not finished yet
  currentCount,              \* its local currentCount
  pushAt,                    \* where a thread is in Push
  pushing,                   \* the job it pushes
  prevCount,                 \* its local prevCount
  pushed,                    \* jobs whose Push was called
  executed                   \* jobs whose Execute returned

execVars == <<execAt, batch, currentCount, TLS_CurrentJobSerializer>>
pushVars == <<pushAt, pushing, prevCount>>
vars == <<queuedCount, jobs, jobQueue, execVars, pushVars, pushed, executed>>

ExecControl == {"no", "clear", "next", "body", "sub", "again"}
PushControl == {"no", "queue", "hand"}

AtRest(t) == execAt[t] = "no" /\ pushAt[t] = "no"
InJob(t) == execAt[t] = "body" /\ pushAt[t] = "no"

Init ==
  /\ queuedCount = [s \in Serializers |-> 0]
  /\ jobs = [s \in Serializers |-> <<>>]
  /\ jobQueue = <<>>
  /\ TLS_CurrentJobSerializer = [t \in Threads |-> NULL]
  /\ execAt = [t \in Threads |-> "no"]
  /\ batch = [t \in Threads |-> <<>>]
  /\ currentCount = [t \in Threads |-> 0]
  /\ pushAt = [t \in Threads |-> "no"]
  /\ pushing = [t \in Threads |-> NULL]
  /\ prevCount = [t \in Threads |-> 0]
  /\ pushed = {}
  /\ executed = {}

\* ExecuteJobs is entered and left by thread t.
BeginExecute(t, s) ==
  /\ execAt' = [execAt EXCEPT ![t] = "clear"]
  /\ TLS_CurrentJobSerializer' = [TLS_CurrentJobSerializer EXCEPT ![t] = s]
  /\ UNCHANGED <<batch, currentCount>>

EndExecute(t) ==
  /\ execAt' = [execAt EXCEPT ![t] = "no"]
  /\ TLS_CurrentJobSerializer' = [TLS_CurrentJobSerializer EXCEPT ![t] = NULL]
  /\ currentCount' = [currentCount EXCEPT ![t] = 0]
  /\ UNCHANGED batch

\* Push returns, and its locals are gone.
EndPush(t) ==
  /\ pushAt' = [pushAt EXCEPT ![t] = "no"]
  /\ pushing' = [pushing EXCEPT ![t] = NULL]
  /\ prevCount' = [prevCount EXCEPT ![t] = 0]

\* Mutants: prevCount is not tested, a serializer is read but not popped, the
\* count to take off is read from _queuedCount, a serializer is not queued.
FirstIgnored(t) == TRUE
PopPeeks(q) == q
TakenLoads(s) == queuedCount[s]
AddJobSerializerForgets(s) == UNCHANGED jobQueue

\* The Push that finds the count at 0 takes charge of the serializer.
First(t) == prevCount[t] = 0

\* What DoJobs leaves of _jobQueue, and the count ExecuteJobs will take off.
Pop(q) == Tail(q)
Taken(s) == Len(jobs[s])

AddJobSerializer(s) == jobQueue' = Append(jobQueue, s)

-----------------------------------------------------------------------------
\* Push: the fetch_add.
Push(t, j) ==
  /\ AtRest(t) \/ InJob(t)
  /\ j \notin pushed
  /\ pushed' = pushed \cup {j}
  /\ pushing' = [pushing EXCEPT ![t] = j]
  /\ prevCount' = [prevCount EXCEPT ![t] = queuedCount[Target[j]]]
  /\ queuedCount' = [queuedCount EXCEPT ![Target[j]] = @ + 1]
  /\ pushAt' = [pushAt EXCEPT ![t] = "queue"]
  /\ UNCHANGED <<jobs, jobQueue, execVars, executed>>

\* Push: the job enters _jobs.  The rest of Push is local to the thread: it
\* returns, or executes the serializer itself, or is about to hand it on.
PushJobs(t) ==
  LET s == Target[pushing[t]] IN
  /\ pushAt[t] = "queue"
  /\ jobs' = [jobs EXCEPT ![s] = Append(@, pushing[t])]
  /\ \/ /\ ~First(t)
        /\ EndPush(t)
        /\ UNCHANGED execVars
     \/ /\ First(t)
        /\ TLS_CurrentJobSerializer[t] = NULL
        /\ EndPush(t)
        /\ BeginExecute(t, s)
     \/ /\ First(t)
        /\ TLS_CurrentJobSerializer[t] # NULL
        /\ pushAt' = [pushAt EXCEPT ![t] = "hand"]
        /\ UNCHANGED <<pushing, prevCount, execVars>>
  /\ UNCHANGED <<queuedCount, jobQueue, pushed, executed>>

PushHandOff(t) ==
  /\ pushAt[t] = "hand"
  /\ AddJobSerializer(Target[pushing[t]])
  /\ EndPush(t)
  /\ UNCHANGED <<queuedCount, jobs, execVars, pushed, executed>>

\* DoJobs: one round of its loop that finds a serializer.
DoJobs(t) ==
  /\ AtRest(t)
  /\ jobQueue # <<>>
  /\ jobQueue' = Pop(jobQueue)
  /\ BeginExecute(t, Head(jobQueue))
  /\ UNCHANGED <<queuedCount, jobs, pushVars, pushed, executed>>

\* ExecuteJobs: _jobs.Clear(OUT jobs).
ExecuteClear(t) ==
  LET s == TLS_CurrentJobSerializer[t] IN
  /\ execAt[t] = "clear"
  /\ batch' = [batch EXCEPT ![t] = jobs[s]]
  /\ currentCount' = [currentCount EXCEPT ![t] = Taken(s)]
  /\ jobs' = [jobs EXCEPT ![s] = <<>>]
  /\ execAt' = [execAt EXCEPT ![t] = "next"]
  /\ UNCHANGED <<queuedCount, jobQueue, TLS_CurrentJobSerializer, pushVars, pushed,
                 executed>>

\* The loop over the local jobs: job->Execute() is called, and returns.
ExecuteNext(t) ==
  /\ execAt[t] = "next"
  /\ execAt' = [execAt EXCEPT ![t] = IF batch[t] = <<>> THEN "sub" ELSE "body"]
  /\ UNCHANGED <<queuedCount, jobs, jobQueue, batch, currentCount,
                 TLS_CurrentJobSerializer, pushVars, pushed, executed>>

ExecuteReturn(t) ==
  /\ InJob(t)
  /\ executed' = executed \cup {Head(batch[t])}
  /\ batch' = [batch EXCEPT ![t] = Tail(@)]
  /\ execAt' = [execAt EXCEPT ![t] = "next"]
  /\ UNCHANGED <<queuedCount, jobs, jobQueue, currentCount, TLS_CurrentJobSerializer,
                 pushVars, pushed>>

\* _queuedCount.fetch_sub(currentCount), and the end if nothing was added.
ExecuteSub(t) ==
  LET s == TLS_CurrentJobSerializer[t] IN
  /\ execAt[t] = "sub"
  /\ queuedCount' = [queuedCount EXCEPT ![s] = @ - currentCount[t]]
  /\ \/ /\ queuedCount[s] = currentCount[t]
        /\ EndExecute(t)
     \/ /\ queuedCount[s] # currentCount[t]
        /\ execAt' = [execAt EXCEPT ![t] = "again"]
        /\ UNCHANGED <<batch, currentCount, TLS_CurrentJobSerializer>>
  /\ UNCHANGED <<jobs, jobQueue, pushVars, pushed, executed>>

\* There is time for another round.
ExecuteAgain(t) ==
  /\ execAt[t] = "again"
  /\ execAt' = [execAt EXCEPT ![t] = "clear"]
  /\ UNCHANGED <<queuedCount, jobs, jobQueue, batch, currentCount,
                 TLS_CurrentJobSerializer, pushVars, pushed, executed>>

\* TLS_GlobalJobsExecutionMaxTickCount has passed: hand the serializer on.
ExecuteHandOff(t) ==
  /\ execAt[t] = "again"
  /\ AddJobSerializer(TLS_CurrentJobSerializer[t])
  /\ EndExecute(t)
  /\ UNCHANGED <<queuedCount, jobs, pushVars, pushed, executed>>

\* The steps a thread inside Push or ExecuteJobs goes on with.
Proceed(t) ==
  \/ PushJobs(t)
  \/ PushHandOff(t)
  \/ ExecuteClear(t)
  \/ ExecuteNext(t)
  \/ ExecuteReturn(t)
  \/ ExecuteSub(t)
  \/ ExecuteAgain(t)
  \/ ExecuteHandOff(t)

Next ==
  \E t \in Threads :
    \/ Proceed(t)
    \/ DoJobs(t)
    \/ \E j \in Jobs : Push(t, j)

Spec == Init /\ [][Next]_vars

\* Jobs return, threads are scheduled, and the worker threads call DoJobs in a
\* loop.  Other threads need not, and nobody has to push.
Fairness ==
  /\ \A t \in Threads : WF_vars(Proceed(t))
  /\ \A t \in Workers : WF_vars(DoJobs(t))

LiveSpec == Spec /\ Fairness

-----------------------------------------------------------------------------
TypeOK ==
  /\ queuedCount \in [Serializers -> Nat]
  /\ jobs \in [Serializers -> Seq(Jobs)]
  /\ jobQueue \in Seq(Serializers)
  /\ TLS_CurrentJobSerializer \in [Threads -> Serializers \cup {NULL}]
  /\ execAt \in [Threads -> ExecControl]
  /\ batch \in [Threads -> Seq(Jobs)]
  /\ currentCount \in [Threads -> Nat]
  /\ pushAt \in [Threads -> PushControl]
  /\ pushing \in [Threads -> Jobs \cup {NULL}]
  /\ prevCount \in [Threads -> Nat]
  /\ pushed \subseteq Jobs
  /\ executed \subseteq Jobs

\* The threads and the places in _jobQueue that have serializer s to execute.
Executors(s) == {t \in Threads : TLS_CurrentJobSerializer[t] = s}
Starters(s) ==
  {t \in Threads :
     /\ pushAt[t] # "no" /\ prevCount[t] = 0
     /\ Target[pushing[t]] = s}
Places(s) == {i \in DOMAIN jobQueue : jobQueue[i] = s}

\* A serializer with jobs accounted for is in exactly one pair of hands, and
\* an idle one in nobody's: it is never executed by two threads, never queued
\* twice, and never forgotten (JobSerializer.cpp:23-41, 56-71).
OneHolder ==
  TypeOK /\ \A s \in Serializers :
    Cardinality(Executors(s)) + Cardinality(Starters(s)) + Cardinality(Places(s))
      = IF queuedCount[s] = 0 THEN 0 ELSE 1

\* The threads between the fetch_add and the _jobs.Push of serializer s.
Pending(s) ==
  {t \in Threads : pushAt[t] = "queue" /\ Target[pushing[t]] = s}

\* _queuedCount accounts for every job that was announced and not yet taken
\* off the count: queued ones, the batch being executed, pushes half done.
CountAccounts ==
  \A s \in Serializers :
    queuedCount[s] = Len(jobs[s]) + Cardinality(Pending(s))
      + IF \E t \in Executors(s) : execAt[t] \in {"next", "body", "sub"}
        THEN currentCount[CHOOSE t \in Executors(s) : TRUE]
        ELSE 0

\* Every pushed job is executed, as long as jobs return and some worker keeps
\* calling DoJobs: no wake-up is lost between Push and ExecuteJobs.
PushedIsExecuted == \A j \in Jobs : j \in pushed ~> j \in executed

\* The serializers implement serial queues.
QueueOf == [s \in Serializers |->
  IF Executors(s) = {} THEN jobs[s]
                       ELSE batch[CHOOSE t \in Executors(s) : TRUE] \o jobs[s]]
RunningIn == [s \in Serializers |-> \E t \in Executors(s) : execAt[t] = "body"]

Serial == INSTANCE SerialQueue WITH queue <- QueueOf, running <- RunningIn
Implements == Serial!Spec
=============================================================================
