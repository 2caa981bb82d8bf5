---------------------- MODULE JobSerializerRefinement ----------------------
(***************************************************************************)
(* JobSerializer implements SerialQueue: the proof that Implements holds,  *)
(* for any sets of threads, serializers and jobs.  A serializer's queue is *)
(* the batch of the one thread that executes it, followed by _jobs, which  *)
(* is why OneHolder is needed; a job enters the queue at the push into     *)
(* _jobs, and JobInv says that it is not there yet.                        *)
(***************************************************************************)
EXTENDS JobSerializerProofs

-----------------------------------------------------------------------------
\* Where a job can be: it is pushed once, and until it enters _jobs it is nowhere
\* else.
FreshJob(j) ==
  /\ j \notin executed
  /\ \A s \in Serializers : \A i \in 1 .. Len(jobs[s]) : jobs[s][i] # j
  /\ \A t \in Threads : \A i \in 1 .. Len(batch[t]) : batch[t][i] # j

JobInv ==
  /\ \A t \in Threads : pushAt[t] = "queue" => pushing[t] \in pushed /\ FreshJob(pushing[t])
  /\ \A t, u \in Threads :
       pushAt[t] = "queue" /\ pushAt[u] = "queue" /\ pushing[t] = pushing[u] => t = u
  /\ \A j \in Jobs \ pushed : FreshJob(j)

\* A step that moves jobs along, from _jobs to a batch to the executed ones, leaves
\* a job that was nowhere nowhere.
LEMMA MovesNothingNew ==
  ASSUME IInv, NEW t \in Threads,
         ExecuteClear(t) \/ ExecuteNext(t) \/ ExecuteReturn(t) \/ ExecuteSub(t)
           \/ ExecuteAgain(t) \/ ExecuteHandOff(t),
         NEW j, FreshJob(j)
  PROVE  FreshJob(j)'
<1>1. CASE ExecuteClear(t)
  <2>1. TLS_CurrentJobSerializer[t] \in Serializers
    BY <1>1 DEF ExecuteClear, IInv, TypeOK, Control
  <2>2. PICK r \in Serializers : r = TLS_CurrentJobSerializer[t]
    BY <2>1
  <2>3. /\ batch' = [batch EXCEPT ![t] = jobs[r]] /\ jobs' = [jobs EXCEPT ![r] = <<>>]
        /\ executed' = executed
    BY <1>1, <2>2 DEF ExecuteClear
  <2>4. \A s \in Serializers : jobs'[s] = jobs[s] \/ jobs'[s] = <<>>
    BY <2>3 DEF IInv, TypeOK
  <2>5. \A s \in Serializers : \A i \in 1 .. Len(jobs'[s]) : jobs'[s][i] # j
    BY <2>4 DEF FreshJob
  <2>6. \A u \in Threads : batch'[u] = batch[u] \/ batch'[u] = jobs[r]
    BY <2>3 DEF IInv, TypeOK
  <2> QED BY <2>3, <2>5, <2>6 DEF FreshJob
<1>2. CASE ExecuteReturn(t)
  <2>1. batch[t] \in Seq(Jobs) /\ batch[t] # <<>>
    BY <1>2 DEF ExecuteReturn, InJob, IInv, Control, TypeOK
  <2>2. /\ Len(Tail(batch[t])) = Len(batch[t]) - 1 /\ Len(batch[t]) \in Nat \ {0}
        /\ Head(batch[t]) = batch[t][1]
        /\ \A i \in 1 .. Len(Tail(batch[t])) : Tail(batch[t])[i] = batch[t][i + 1]
    BY <2>1, HeadTailProperties, EmptySeq
  <2>3. \A i \in 1 .. Len(Tail(batch[t])) : Tail(batch[t])[i] # j
    BY <2>2 DEF FreshJob
  <2>4. /\ jobs' = jobs /\ executed' = executed \cup {Head(batch[t])}
        /\ batch' = [batch EXCEPT ![t] = Tail(batch[t])]
    BY <1>2 DEF ExecuteReturn
  <2>5. \A u \in Threads : \A i \in 1 .. Len(batch'[u]) : batch'[u][i] # j
    BY <2>3, <2>4 DEF FreshJob, IInv, TypeOK
  <2>6. Head(batch[t]) # j
    BY <2>2 DEF FreshJob
  <2> QED BY <2>4, <2>5, <2>6 DEF FreshJob
<1>3. CASE ExecuteNext(t) \/ ExecuteSub(t) \/ ExecuteAgain(t) \/ ExecuteHandOff(t)
  BY <1>3 DEF ExecuteNext, ExecuteSub, ExecuteAgain, ExecuteHandOff, EndExecute, FreshJob
<1> QED BY <1>1, <1>2, <1>3

\* A job is pushed once, so the job that enters _jobs is not there yet.
LEMMA JobInvNext == IInv /\ JobInv /\ [Next]_vars => JobInv'
<1> SUFFICES ASSUME IInv, JobInv, [Next]_vars PROVE JobInv'
  OBVIOUS
<1>1. ASSUME NEW t \in Threads, NEW j \in Jobs, Push(t, j) PROVE JobInv'
  <2>1. \A k : FreshJob(k)' <=> FreshJob(k)
    BY <1>1 DEF Push, execVars, FreshJob
  <2>2. /\ j \notin pushed /\ pushed' = pushed \cup {j}
        /\ pushing' = [pushing EXCEPT ![t] = j] /\ pushAt' = [pushAt EXCEPT ![t] = "queue"]
        /\ pushing \in [Threads -> Jobs \cup {NULL}] /\ pushAt \in [Threads -> PushControl]
    BY <1>1 DEF Push, IInv, TypeOK
  <2>3. \A u \in Threads : pushAt'[u] = "queue" => pushing'[u] \in pushed' /\ FreshJob(pushing'[u])
    BY <2>2 DEF JobInv
  <2>4. \A u \in Threads : pushAt'[u] = "queue" => FreshJob(pushing[u])'
    BY <2>1, <2>2, <2>3 DEF FreshJob
  <2>5. \A u, v \in Threads :
          pushAt'[u] = "queue" /\ pushAt'[v] = "queue" /\ pushing'[u] = pushing'[v] => u = v
    BY <2>2 DEF JobInv
  <2>6. \A k \in Jobs \ pushed' : FreshJob(k)'
    BY <2>1, <2>2 DEF JobInv
  <2> QED BY <2>3, <2>4, <2>5, <2>6 DEF JobInv
<1>2. ASSUME NEW t \in Threads, PushJobs(t) PROVE JobInv'
  <2> PICK j : j = pushing[t]
    OBVIOUS
  <2>1. /\ pushAt[t] = "queue" /\ j \in Jobs /\ j \in pushed /\ Target[j] \in Serializers
        /\ jobs' = [jobs EXCEPT ![Target[j]] = Append(@, j)]
        /\ UNCHANGED <<batch, executed, pushed>>
    BY <1>2, JobsAssumption DEF PushJobs, BeginExecute, execVars, JobInv, IInv, TypeOK, Control
  <2>2. \A u \in Threads : u # t => pushAt'[u] = pushAt[u] /\ pushing'[u] = pushing[u]
    BY <1>2 DEF PushJobs, EndPush, IInv, TypeOK
  <2>3. pushAt'[t] # "queue"
    BY <1>2 DEF PushJobs, EndPush, IInv, TypeOK
  <2>4. ASSUME NEW k, k # j, FreshJob(k) PROVE FreshJob(k)'
    <3>1. ASSUME NEW s \in Serializers, NEW i \in 1 .. Len(jobs'[s]) PROVE jobs'[s][i] # k
      <4>1. jobs[s] \in Seq(Jobs) /\ Len(jobs[s]) \in Nat
        BY LenProperties DEF IInv, TypeOK
      <4>2. CASE s # Target[j]
        BY <2>1, <2>4, <3>1, <4>2 DEF FreshJob, IInv, TypeOK
      <4>3. CASE s = Target[j]
        <5>1. jobs'[s] = Append(jobs[s], j)
          BY <2>1, <4>3 DEF IInv, TypeOK
        <5>2. i = Len(jobs[s]) + 1 \/ i \in 1 .. Len(jobs[s])
          BY <2>1, <3>1, <4>1, <5>1, AppendProperties
        <5> QED BY <2>1, <2>4, <4>1, <5>1, <5>2, AppendProperties DEF FreshJob
      <4> QED BY <4>2, <4>3
    <3> QED BY <2>1, <2>4, <3>1 DEF FreshJob
  <2>5. ASSUME NEW u \in Threads, pushAt'[u] = "queue"
        PROVE  pushing'[u] \in pushed' /\ FreshJob(pushing[u])'
    <3>1. u # t /\ pushAt[u] = "queue" /\ pushing'[u] = pushing[u]
      BY <2>2, <2>3, <2>5
    <3>2. pushing[u] # j /\ FreshJob(pushing[u]) /\ pushing[u] \in pushed
      BY <2>1, <3>1 DEF JobInv
    <3>3. PICK k : k = pushing[u]
      OBVIOUS
    <3>4. FreshJob(k)'
      BY <2>4, <3>2, <3>3
    <3> QED BY <2>1, <3>1, <3>2, <3>3, <3>4 DEF FreshJob
  <2>6. \A k \in Jobs \ pushed' : FreshJob(k)'
    BY <2>1, <2>4 DEF JobInv
  <2>7. \A u, v \in Threads :
          pushAt'[u] = "queue" /\ pushAt'[v] = "queue" /\ pushing'[u] = pushing'[v] => u = v
    BY <2>2, <2>3 DEF JobInv
  <2> QED BY <2>5, <2>6, <2>7 DEF JobInv
<1>3. ASSUME NEW t \in Threads,
             PushHandOff(t) \/ DoJobs(t) \/ ExecuteClear(t) \/ ExecuteNext(t) \/ ExecuteReturn(t)
               \/ ExecuteSub(t) \/ ExecuteAgain(t) \/ ExecuteHandOff(t)
      PROVE  JobInv'
  <2>1. pushed' = pushed
    BY <1>3 DEF PushHandOff, DoJobs, ExecuteClear, ExecuteNext, ExecuteReturn, ExecuteSub,
       ExecuteAgain, ExecuteHandOff
  <2>2. \A u \in Threads :
          pushAt'[u] = "queue" => pushAt[u] = "queue" /\ pushing'[u] = pushing[u]
    BY <1>3 DEF PushHandOff, EndPush, DoJobs, ExecuteClear, ExecuteNext, ExecuteReturn, ExecuteSub,
       ExecuteAgain, ExecuteHandOff, pushVars, IInv, TypeOK
  <2>3. ASSUME NEW k, FreshJob(k) PROVE FreshJob(k)'
    <3>1. CASE PushHandOff(t) \/ DoJobs(t)
      BY <2>3, <3>1 DEF PushHandOff, DoJobs, BeginExecute, execVars, FreshJob
    <3> QED BY <1>3, <2>3, <3>1, MovesNothingNew
  <2>4. ASSUME NEW u \in Threads, pushAt'[u] = "queue"
        PROVE  pushing'[u] \in pushed' /\ FreshJob(pushing[u])'
    <3>1. pushAt[u] = "queue" /\ pushing'[u] = pushing[u] /\ pushing[u] \in pushed /\ FreshJob(pushing[u])
      BY <2>2, <2>4 DEF JobInv
    <3>2. PICK k : k = pushing[u]
      OBVIOUS
    <3>3. FreshJob(k)'
      BY <2>3, <3>1, <3>2
    <3> QED BY <2>1, <3>1, <3>2, <3>3 DEF FreshJob
  <2>5. \A k \in Jobs \ pushed' : FreshJob(k)'
    BY <2>1, <2>3 DEF JobInv
  <2>6. \A u, v \in Threads :
          pushAt'[u] = "queue" /\ pushAt'[v] = "queue" /\ pushing'[u] = pushing'[v] => u = v
    BY <2>2 DEF JobInv
  <2> QED BY <2>4, <2>5, <2>6 DEF JobInv
<1>4. CASE UNCHANGED vars
  BY <1>4 DEF vars, execVars, pushVars, JobInv, FreshJob
<1> QED BY <1>1, <1>2, <1>3, <1>4 DEF Next, Proceed

-----------------------------------------------------------------------------
\* The queue a serializer stands for is its executor's batch and what is queued
\* behind it.
LEMMA MappedState ==
  ASSUME NEW s \in Serializers
  PROVE  /\ RunningIn[s] \in BOOLEAN
         /\ Executors(s) = {} => QueueOf[s] = jobs[s] /\ ~RunningIn[s]
         /\ \A u : Executors(s) = {u} => /\ QueueOf[s] = batch[u] \o jobs[s]
                                         /\ RunningIn[s] <=> execAt[u] = "body"
BY ChooseOnly, Zenon DEF QueueOf, RunningIn

\* The same of the next state.
LEMMA MappedNext ==
  ASSUME NEW s \in Serializers
  PROVE  /\ RunningIn'[s] \in BOOLEAN
         /\ Executors(s)' = {} => QueueOf'[s] = jobs'[s] /\ ~RunningIn'[s]
         /\ \A u : Executors(s)' = {u} => /\ QueueOf'[s] = batch'[u] \o jobs'[s]
                                          /\ RunningIn'[s] <=> execAt'[u] = "body"
BY ChooseOnly, Zenon DEF QueueOf, RunningIn

OneExecutor(s) == Executors(s) = {} \/ \E t \in Threads : Executors(s) = {t}

\* The invariant leaves a serializer no two executors.
LEMMA IInvOneExecutor == IInv => \A s \in Serializers : OneExecutor(s)
BY DEF IInv, HolderInv, Free, HeldOnce, OneExecutor

\* A thread that has no batch enters or leaves ExecuteJobs, or nobody does.
SameHands(s, t) ==
  \/ /\ Executors(s)' = Executors(s)
     /\ \A u \in Executors(s) : batch'[u] = batch[u] /\ (execAt'[u] = "body" <=> execAt[u] = "body")
  \/ Executors(s) = {} /\ Executors(s)' = {t} /\ batch'[t] = <<>> /\ execAt'[t] # "body"
  \/ Executors(s) = {t} /\ Executors(s)' = {} /\ batch[t] = <<>> /\ execAt[t] # "body"

\* Appending to what is queued appends to the whole queue.
LEMMA AppendBehind ==
  \A a, b \in Seq(Jobs) : \A j \in Jobs : a \o Append(b, j) = Append(a \o b, j)
<1> TAKE a, b \in Seq(Jobs)
<1> TAKE j \in Jobs
<1>1. <<j>> \in Seq(Jobs) /\ a \o b \in Seq(Jobs)
  BY ConcatProperties
<1>2. Append(b, j) = b \o <<j>> /\ Append(a \o b, j) = (a \o b) \o <<j>>
  BY <1>1, AppendIsConcat
<1> QED BY <1>1, <1>2, ConcatAssociative

\* What is in a batch and the jobs queued behind it.
LEMMA WholeQueue ==
  \A a, b \in Seq(Jobs) :
    /\ Len(a) \in Nat /\ Len(b) \in Nat /\ Len(a \o b) = Len(a) + Len(b)
    /\ \A k \in 1 .. Len(a) + Len(b) : (a \o b)[k] = IF k <= Len(a) THEN a[k] ELSE b[k - Len(a)]
BY ConcatProperties, LenProperties

\* The first job of a batch is the first of the queue, and the rest is the rest.
LEMMA HeadTailConcat ==
  \A a, b \in Seq(Jobs) : a # <<>> => Head(a \o b) = Head(a) /\ Tail(a \o b) = Tail(a) \o b
<1> TAKE a, b \in Seq(Jobs)
<1> HAVE a # <<>>
<1> PICK c : c = a \o b
  BY Zenon
<1>1. /\ Len(a) \in Nat \ {0} /\ Len(b) \in Nat /\ c \in Seq(Jobs) /\ Len(c) = Len(a) + Len(b)
      /\ \A k \in 1 .. Len(a) + Len(b) : c[k] = IF k <= Len(a) THEN a[k] ELSE b[k - Len(a)]
  BY EmptySeq, WholeQueue, ConcatProperties
<1>2. c # <<>>
  BY <1>1, EmptySeq
<1>3. /\ Tail(a) \in Seq(Jobs) /\ Len(Tail(a)) = Len(a) - 1
      /\ \A i \in 1 .. Len(Tail(a)) : Tail(a)[i] = a[i + 1]
  BY HeadTailProperties
<1>4. /\ Tail(c) \in Seq(Jobs) /\ Len(Tail(c)) = Len(c) - 1
      /\ \A i \in 1 .. Len(Tail(c)) : Tail(c)[i] = c[i + 1]
  BY <1>1, <1>2, HeadTailProperties
<1> PICK d : d = Tail(a) \o b
  BY Zenon
<1>5. /\ d \in Seq(Jobs) /\ Len(d) = Len(a) - 1 + Len(b)
      /\ \A k \in 1 .. Len(a) - 1 + Len(b) : d[k] = IF k <= Len(a) - 1 THEN Tail(a)[k] ELSE b[k - (Len(a) - 1)]
  BY <1>1, <1>3, WholeQueue, ConcatProperties
<1>6. ASSUME NEW i \in 1 .. Len(Tail(c)) PROVE Tail(c)[i] = d[i]
  <2>1. i \in 1 .. Len(a) - 1 + Len(b) /\ i + 1 \in 1 .. Len(a) + Len(b) /\ Tail(c)[i] = c[i + 1]
    BY <1>1, <1>4
  <2>2. CASE i <= Len(a) - 1
    BY <1>1, <1>3, <1>5, <2>1, <2>2
  <2>3. CASE ~(i <= Len(a) - 1)
    <3>1. i + 1 - Len(a) = i - (Len(a) - 1)
      BY <1>1, <2>1
    <3> QED BY <1>1, <1>5, <2>1, <2>3, <3>1
  <2> QED BY <2>2, <2>3
<1>7. Tail(c) = d
  BY <1>1, <1>4, <1>5, <1>6, SeqEqual
<1>8. Head(c) = Head(a)
  <2>1. c[1] = a[1]
    BY <1>1
  <2> QED BY <1>1, <1>2, <2>1
<1> QED BY <1>7, <1>8

\* Who executes a serializer does not matter to its queue.
LEMMA SameHandsSameQueue ==
  ASSUME IInv, NEW s \in Serializers, NEW t \in Threads, SameHands(s, t)
  PROVE  /\ RunningIn'[s] = RunningIn[s]
         /\ jobs'[s] = jobs[s] => QueueOf'[s] = QueueOf[s]
         /\ \A j \in Jobs : jobs'[s] = Append(jobs[s], j) => QueueOf'[s] = Append(QueueOf[s], j)
<1>1. jobs[s] \in Seq(Jobs) /\ \A u \in Threads : batch[u] \in Seq(Jobs)
  BY DEF IInv, TypeOK
<1>2. <<>> \o jobs[s] = jobs[s] /\ \A j \in Jobs : <<>> \o Append(jobs[s], j) = Append(jobs[s], j)
  BY <1>1, ConcatEmptySeq, AppendProperties
<1>3. Executors(s) = {} \/ \E u \in Threads : Executors(s) = {u}
  BY IInvOneExecutor DEF OneExecutor
<1>4. RunningIn[s] \in BOOLEAN /\ RunningIn'[s] \in BOOLEAN
  BY MappedState, MappedNext, Zenon
<1>5. CASE Executors(s) = {} /\ Executors(s)' = {}
  BY <1>4, <1>5, MappedState, MappedNext, Zenon
<1>6. CASE Executors(s) = {} /\ Executors(s)' = {t} /\ batch'[t] = <<>> /\ execAt'[t] # "body"
  <2>1. QueueOf[s] = jobs[s] /\ ~RunningIn[s]
    BY <1>6, MappedState, Zenon
  <2>2. QueueOf'[s] = batch'[t] \o jobs'[s] /\ (RunningIn'[s] <=> execAt'[t] = "body")
    BY <1>6, MappedNext, Zenon
  <2>3. QueueOf'[s] = <<>> \o jobs'[s] /\ ~RunningIn'[s]
    BY <1>6, <2>2
  <2> QED BY <1>2, <1>4, <2>1, <2>3
<1>7. CASE Executors(s) = {t} /\ Executors(s)' = {} /\ batch[t] = <<>> /\ execAt[t] # "body"
  <2>1. QueueOf[s] = batch[t] \o jobs[s] /\ (RunningIn[s] <=> execAt[t] = "body")
    BY <1>7, MappedState, Zenon
  <2>2. QueueOf[s] = <<>> \o jobs[s] /\ ~RunningIn[s]
    BY <1>7, <2>1
  <2>3. QueueOf'[s] = jobs'[s] /\ ~RunningIn'[s]
    BY <1>7, MappedNext, Zenon
  <2> QED BY <1>2, <1>4, <2>2, <2>3
<1>8. ASSUME NEW u \in Threads, Executors(s) = {u}, Executors(s)' = {u},
             batch'[u] = batch[u], execAt'[u] = "body" <=> execAt[u] = "body"
      PROVE  /\ RunningIn'[s] = RunningIn[s]
             /\ jobs'[s] = jobs[s] => QueueOf'[s] = QueueOf[s]
             /\ \A j \in Jobs : jobs'[s] = Append(jobs[s], j) => QueueOf'[s] = Append(QueueOf[s], j)
  <2>1. QueueOf[s] = batch[u] \o jobs[s] /\ (RunningIn[s] <=> execAt[u] = "body")
    BY <1>8, MappedState, Zenon
  <2>2. QueueOf'[s] = batch'[u] \o jobs'[s] /\ (RunningIn'[s] <=> execAt'[u] = "body")
    BY <1>8, MappedNext, Zenon
  <2>3. ASSUME NEW j \in Jobs PROVE batch[u] \o Append(jobs[s], j) = Append(batch[u] \o jobs[s], j)
    <3>1. batch[u] \in Seq(Jobs) /\ jobs[s] \in Seq(Jobs)
      BY <1>1
    <3> QED BY <3>1, AppendBehind, Zenon
  <2>4. RunningIn'[s] = RunningIn[s]
    <3>1. RunningIn'[s] <=> RunningIn[s]
      BY <1>8, <2>1, <2>2
    <3> QED BY <1>4, <3>1
  <2>5. QueueOf'[s] = batch[u] \o jobs'[s]
    BY <1>8, <2>2
  <2> QED BY <2>1, <2>3, <2>4, <2>5, Zenon
<1> QED BY <1>3, <1>5, <1>6, <1>7, <1>8 DEF SameHands

\* QueueOf and RunningIn are functions of the serializers.
LEMMA MappedFunctions ==
  /\ QueueOf = [s \in Serializers |-> QueueOf[s]] /\ RunningIn = [s \in Serializers |-> RunningIn[s]]
  /\ QueueOf' = [s \in Serializers |-> QueueOf'[s]] /\ RunningIn' = [s \in Serializers |-> RunningIn'[s]]
BY DEF QueueOf, RunningIn

\* A step that leaves every queue and who is running alone is no step of the queues.
LEMMA Stutters ==
  ASSUME IInv, NEW t \in Threads, \A s \in Serializers : SameHands(s, t),
         jobs' = jobs, executed' = executed
  PROVE  UNCHANGED Serial!vars
<1>1. \A s \in Serializers : QueueOf'[s] = QueueOf[s] /\ RunningIn'[s] = RunningIn[s]
  BY SameHandsSameQueue
<1>2. QueueOf' = QueueOf /\ RunningIn' = RunningIn
  BY <1>1, MappedFunctions
<1> QED BY <1>2 DEF Serial!vars

\* A thread enters ExecuteJobs without a batch.
LEMMA EntersHands ==
  ASSUME IInv, NEW t \in Threads, NEW s \in Serializers, OneExecutor(s)',
         NEW r \in Serializers, BeginExecute(t, r), execAt[t] = "no"
  PROVE  SameHands(s, t)
<1>1. batch' = batch /\ batch[t] = <<>> /\ TLS_CurrentJobSerializer[t] = NULL
  BY DEF BeginExecute, IInv, Control
<1>2. /\ execAt'[t] = "clear" /\ TLS_CurrentJobSerializer'[t] = r
      /\ \A u \in Threads : u # t => /\ execAt'[u] = execAt[u]
                                     /\ TLS_CurrentJobSerializer'[u] = TLS_CurrentJobSerializer[u]
  BY DEF BeginExecute, IInv, TypeOK
<1>3. t \notin Executors(s) /\ Executors(s)' \ {t} = Executors(s) \ {t}
  <2>1. t \notin Executors(s)
    BY <1>1, JobsAssumption DEF Executors
  <2> QED BY <1>2, <2>1 DEF Executors
<1>4. CASE t \in Executors(s)'
  <2>1. Executors(s) = {} /\ Executors(s)' = {t}
    BY <1>3, <1>4 DEF OneExecutor
  <2> QED BY <1>1, <1>2, <2>1 DEF SameHands
<1>5. CASE t \notin Executors(s)'
  <2>1. Executors(s)' = Executors(s) /\ Executors(s) \subseteq Threads \ {t}
    BY <1>3, <1>5 DEF Executors
  <2> QED BY <1>1, <1>2, <2>1 DEF SameHands
<1> QED BY <1>4, <1>5

\* A thread leaves ExecuteJobs without a batch.
LEMMA LeavesHands ==
  ASSUME IInv, NEW t \in Threads, NEW s \in Serializers, OneExecutor(s),
         EndExecute(t), execAt[t] \in {"sub", "again"}
  PROVE  SameHands(s, t)
<1>1. batch' = batch /\ batch[t] = <<>>
  BY DEF EndExecute, IInv, Control
<1>2. /\ TLS_CurrentJobSerializer'[t] = NULL
      /\ \A u \in Threads : u # t => /\ execAt'[u] = execAt[u]
                                     /\ TLS_CurrentJobSerializer'[u] = TLS_CurrentJobSerializer[u]
  BY DEF EndExecute, IInv, TypeOK
<1>3. t \notin Executors(s)' /\ Executors(s)' \ {t} = Executors(s) \ {t}
  <2>1. t \notin Executors(s)'
    BY <1>2, JobsAssumption DEF Executors
  <2> QED BY <1>2, <2>1 DEF Executors
<1>4. CASE t \in Executors(s)
  <2>1. Executors(s) = {t} /\ Executors(s)' = {}
    BY <1>3, <1>4 DEF OneExecutor
  <2> QED BY <1>1, <2>1 DEF SameHands
<1>5. CASE t \notin Executors(s)
  <2>1. Executors(s)' = Executors(s) /\ Executors(s) \subseteq Threads \ {t}
    BY <1>3, <1>5 DEF Executors
  <2> QED BY <1>1, <1>2, <2>1 DEF SameHands
<1> QED BY <1>4, <1>5

\* Outside of the steps that begin or end a job the executors keep their batches.
LEMMA PushKeepsHands ==
  ASSUME IInv, NEW t \in Threads, NEW s \in Serializers, OneExecutor(s)',
         (\E j \in Jobs : Push(t, j)) \/ PushJobs(t) \/ PushHandOff(t) \/ DoJobs(t)
  PROVE  SameHands(s, t)
<1>1. CASE UNCHANGED execVars
  BY <1>1 DEF execVars, SameHands, Executors
<1>2. CASE PushJobs(t) /\ ~(UNCHANGED execVars)
  <2>1. /\ BeginExecute(t, Target[pushing[t]]) /\ TLS_CurrentJobSerializer[t] = NULL
        /\ pushAt[t] = "queue"
    BY <1>2, Zenon DEF PushJobs
  <2>2. execAt[t] = "no" /\ pushing[t] # NULL
    BY <2>1 DEF IInv, Control
  <2>3. Target[pushing[t]] \in Serializers
    BY <2>2, JobsAssumption DEF IInv, TypeOK
  <2> QED BY <2>1, <2>2, <2>3, EntersHands
<1>3. CASE DoJobs(t)
  <2>1. jobQueue \in Seq(Serializers) /\ jobQueue # <<>> /\ BeginExecute(t, Head(jobQueue)) /\ execAt[t] = "no"
    BY <1>3 DEF DoJobs, AtRest, IInv, TypeOK
  <2>2. Head(jobQueue) \in Serializers
    BY <2>1, HeadTailProperties
  <2> QED BY <2>1, <2>2, EntersHands
<1>4. ASSUME NEW j \in Jobs, Push(t, j) PROVE UNCHANGED execVars
  BY <1>4, Zenon DEF Push
<1>5. CASE PushHandOff(t)
  BY <1>1, <1>5, Zenon DEF PushHandOff
<1> QED BY <1>1, <1>2, <1>3, <1>4, <1>5, Zenon

\* So do the steps at the end of ExecuteJobs, when the batch is done.
LEMMA ExecuteKeepsHands ==
  ASSUME IInv, NEW t \in Threads, NEW s \in Serializers, OneExecutor(s),
         ExecuteSub(t) \/ ExecuteAgain(t) \/ ExecuteHandOff(t)
  PROVE  SameHands(s, t)
<1>1. CASE EndExecute(t) /\ execAt[t] \in {"sub", "again"}
  BY <1>1, LeavesHands, Zenon
<1>2. ASSUME UNCHANGED <<batch, TLS_CurrentJobSerializer>>,
             execAt[t] # "body", execAt' = [execAt EXCEPT ![t] = "again"] \/ execAt' = [execAt EXCEPT ![t] = "clear"]
      PROVE  SameHands(s, t)
  <2>1. \A u \in Threads : execAt'[u] = "body" <=> execAt[u] = "body"
    BY <1>2 DEF IInv, TypeOK
  <2>2. Executors(s)' = Executors(s) /\ Executors(s) \subseteq Threads
    BY <1>2 DEF Executors
  <2> QED BY <1>2, <2>1, <2>2 DEF SameHands
<1>3. CASE ExecuteSub(t)
  BY <1>1, <1>2, <1>3 DEF ExecuteSub
<1>4. CASE ExecuteAgain(t)
  BY <1>2, <1>4 DEF ExecuteAgain
<1>5. CASE ExecuteHandOff(t)
  BY <1>1, <1>5 DEF ExecuteHandOff
<1> QED BY <1>3, <1>4, <1>5

\* PushJobs puts a job that is nowhere yet at the end of its serializer's queue.
LEMMA PushJobsEnqueues ==
  ASSUME IInv, JobInv, NEW t \in Threads, PushJobs(t),
         \A s \in Serializers : OneExecutor(s)'
  PROVE  \E j \in Jobs : Serial!Enqueue(j)
<1> PICK j : j = pushing[t]
  OBVIOUS
<1> PICK r : r = Target[j]
  OBVIOUS
<1>1. /\ pushAt[t] = "queue" /\ j \in Jobs /\ r \in Serializers /\ FreshJob(j)
      /\ jobs' = [jobs EXCEPT ![r] = Append(@, j)] /\ executed' = executed
      /\ jobs \in [Serializers -> Seq(Jobs)] /\ batch \in [Threads -> Seq(Jobs)]
  BY JobsAssumption DEF PushJobs, JobInv, IInv, TypeOK, Control
<1>2. \A s \in Serializers :
        RunningIn'[s] = RunningIn[s] /\ QueueOf'[s] = IF s = r THEN Append(QueueOf[s], j) ELSE QueueOf[s]
  <2> TAKE s \in Serializers
  <2>1. SameHands(s, t)
    BY PushKeepsHands
  <2>2. jobs'[s] = IF s = r THEN Append(jobs[s], j) ELSE jobs[s]
    BY <1>1
  <2> QED BY <1>1, <2>1, <2>2, SameHandsSameQueue, Zenon
<1>3. RunningIn' = RunningIn /\ QueueOf' = [QueueOf EXCEPT ![r] = Append(@, j)]
  <2>1. RunningIn' = RunningIn
    BY <1>2, MappedFunctions
  <2>2. QueueOf' = [s \in Serializers |-> IF s = r THEN Append(QueueOf[s], j) ELSE QueueOf[s]]
    BY <1>2, MappedFunctions
  <2> QED BY <1>1, <2>1, <2>2, MappedFunctions, Zenon
<1>4. ASSUME NEW s \in Serializers, NEW i \in 1 .. Len(QueueOf[s]) PROVE QueueOf[s][i] # j
  <2>1. CASE Executors(s) = {}
    <3>1. QueueOf[s] = jobs[s]
      BY <2>1, MappedState, Zenon
    <3> QED BY <1>1, <1>4, <3>1 DEF FreshJob
  <2>2. ASSUME NEW u \in Threads, Executors(s) = {u} PROVE QueueOf[s][i] # j
    <3>1. QueueOf[s] = batch[u] \o jobs[s] /\ batch[u] \in Seq(Jobs) /\ jobs[s] \in Seq(Jobs)
      BY <1>1, <2>2, MappedState
    <3> PICK a, b, q : a = batch[u] /\ b = jobs[s] /\ q = a \o b
      BY Zenon
    <3>2. /\ Len(a) \in Nat /\ Len(b) \in Nat /\ Len(q) = Len(a) + Len(b)
          /\ \A k \in 1 .. Len(a) + Len(b) : q[k] = IF k <= Len(a) THEN a[k] ELSE b[k - Len(a)]
      BY <3>1, WholeQueue, Zenon
    <3>3. QueueOf[s] = q /\ i \in 1 .. Len(a) + Len(b)
      BY <1>4, <3>1, <3>2, Zenon
    <3>4. /\ \A k \in 1 .. Len(a) : a[k] # j
          /\ \A k \in 1 .. Len(b) : b[k] # j
      BY <1>1, Zenon DEF FreshJob
    <3>5. CASE i <= Len(a)
      BY <3>2, <3>3, <3>4, <3>5
    <3>6. CASE ~(i <= Len(a))
      <4>0. \A x, y \in Nat : \A k \in 1 .. x + y : ~(k <= x) => k - x \in 1 .. y
        OBVIOUS
      <4>1. i - Len(a) \in 1 .. Len(b)
        BY <3>2, <3>3, <3>6, <4>0, Zenon
      <4>2. q[i] = b[i - Len(a)]
        BY <3>2, <3>3, <3>6
      <4> QED BY <3>3, <3>4, <4>1, <4>2
    <3> QED BY <3>5, <3>6
  <2> QED BY <2>1, <2>2 DEF IInv, HolderInv, Free, HeldOnce
<1>5. Serial!Enqueue(j)
  BY <1>1, <1>3, <1>4 DEF Serial!Enqueue, Serial!Fresh, FreshJob
<1> QED BY <1>1, <1>5

\* Clear moves the queued jobs to the batch and leaves the queue as a whole alone.
LEMMA ClearStutters ==
  ASSUME IInv, NEW t \in Threads, ExecuteClear(t)
  PROVE  UNCHANGED Serial!vars
<1> PICK r : r = TLS_CurrentJobSerializer[t]
  OBVIOUS
<1>1. /\ r \in Serializers /\ execAt[t] = "clear" /\ execAt' = [execAt EXCEPT ![t] = "next"]
      /\ batch' = [batch EXCEPT ![t] = jobs[r]] /\ jobs' = [jobs EXCEPT ![r] = <<>>]
      /\ UNCHANGED <<TLS_CurrentJobSerializer, executed>> /\ batch[t] = <<>>
      /\ jobs \in [Serializers -> Seq(Jobs)] /\ batch \in [Threads -> Seq(Jobs)]
      /\ execAt \in [Threads -> ExecControl]
  BY DEF ExecuteClear, IInv, TypeOK, Control
<1>2. ASSUME NEW s \in Serializers
      PROVE  Executors(s)' = Executors(s) /\ (s = r => Executors(s) = {t}) /\ (s # r => t \notin Executors(s))
  <2>1. Executors(s)' = Executors(s) /\ (t \in Executors(s) <=> s = r)
    BY <1>1 DEF Executors
  <2> QED BY <2>1 DEF IInv, HolderInv, Free, HeldOnce
<1>3. ASSUME NEW s \in Serializers
      PROVE  QueueOf'[s] = QueueOf[s] /\ RunningIn'[s] = RunningIn[s]
  <2>1. CASE s # r
    <3>1. jobs'[s] = jobs[s]
      BY <1>1, <2>1
    <3>2. \A u \in Executors(s) : batch'[u] = batch[u] /\ execAt'[u] = execAt[u]
      BY <1>1, <1>2, <2>1 DEF Executors
    <3>3. SameHands(s, t)
      BY <1>2, <3>2 DEF SameHands
    <3> QED BY <3>1, <3>3, SameHandsSameQueue
  <2>2. CASE s = r
    <3>0. Executors(s) = {t} /\ Executors(s)' = {t}
      BY <1>2, <2>2
    <3>1. QueueOf[s] = batch[t] \o jobs[s] /\ (RunningIn[s] <=> execAt[t] = "body") /\ RunningIn[s] \in BOOLEAN
      BY <3>0, MappedState, Zenon
    <3>2. QueueOf'[s] = batch'[t] \o jobs'[s] /\ (RunningIn'[s] <=> execAt'[t] = "body") /\ RunningIn'[s] \in BOOLEAN
      BY <3>0, MappedNext, Zenon
    <3>3. batch'[t] = jobs[s] /\ jobs'[s] = <<>> /\ batch[t] = <<>> /\ jobs[s] \in Seq(Jobs)
      BY <1>1, <2>2
    <3>4. <<>> \o jobs[s] = jobs[s] /\ jobs[s] \o <<>> = jobs[s]
      BY <3>3, ConcatEmptySeq
    <3>5. QueueOf'[s] = QueueOf[s]
      BY <3>1, <3>2, <3>3, <3>4
    <3>6. ~RunningIn'[s] /\ ~RunningIn[s]
      BY <1>1, <3>1, <3>2
    <3> QED BY <3>1, <3>2, <3>5, <3>6
  <2> QED BY <2>1, <2>2
<1>4. QueueOf' = QueueOf /\ RunningIn' = RunningIn
  BY <1>3, MappedFunctions
<1> QED BY <1>1, <1>4 DEF Serial!vars

\* The loop of ExecuteJobs begins the first job of the queue, unless the batch is done.
LEMMA NextBegins ==
  ASSUME IInv, NEW t \in Threads, ExecuteNext(t)
  PROVE  (\E s \in Serializers : Serial!Begin(s)) \/ UNCHANGED Serial!vars
<1> PICK r : r = TLS_CurrentJobSerializer[t]
  OBVIOUS
<1>1. /\ r \in Serializers /\ execAt[t] = "next"
      /\ UNCHANGED <<jobs, batch, TLS_CurrentJobSerializer, executed>>
      /\ execAt' = [execAt EXCEPT ![t] = IF batch[t] = <<>> THEN "sub" ELSE "body"]
      /\ execAt \in [Threads -> ExecControl] /\ batch[t] \in Seq(Jobs) /\ jobs[r] \in Seq(Jobs)
  BY DEF ExecuteNext, IInv, TypeOK, Control
<1>2. ASSUME NEW s \in Serializers
      PROVE  /\ Executors(s)' = Executors(s)
             /\ s = r => Executors(s) = {t}
             /\ s # r => t \notin Executors(s)
             /\ Executors(s) \subseteq Threads
  <2>1. Executors(s)' = Executors(s) /\ (t \in Executors(s) <=> s = r) /\ Executors(s) \subseteq Threads
    BY <1>1 DEF Executors
  <2> QED BY <2>1 DEF IInv, HolderInv, Free, HeldOnce
<1>3. CASE batch[t] = <<>>
  <2>1. \A u \in Threads : execAt'[u] = "body" <=> execAt[u] = "body"
    BY <1>1, <1>3
  <2>2. \A s \in Serializers : SameHands(s, t)
    BY <1>1, <1>2, <2>1 DEF SameHands
  <2> QED BY <1>1, <2>2, Stutters
<1>4. CASE batch[t] # <<>>
  <2>1. /\ QueueOf[r] = batch[t] \o jobs[r] /\ QueueOf'[r] = batch'[t] \o jobs'[r]
        /\ RunningIn[r] <=> execAt[t] = "body"
        /\ RunningIn'[r] <=> execAt'[t] = "body"
        /\ RunningIn[r] \in BOOLEAN /\ RunningIn'[r] \in BOOLEAN
    <3>1. Executors(r) = {t} /\ Executors(r)' = {t}
      BY <1>1, <1>2
    <3>2. /\ QueueOf[r] = batch[t] \o jobs[r]
          /\ (RunningIn[r] <=> execAt[t] = "body") /\ RunningIn[r] \in BOOLEAN
      BY <1>1, <3>1, MappedState, Zenon
    <3>3. /\ QueueOf'[r] = batch'[t] \o jobs'[r]
          /\ (RunningIn'[r] <=> execAt'[t] = "body") /\ RunningIn'[r] \in BOOLEAN
      BY <1>1, <3>1, MappedNext, Zenon
    <3> QED BY <3>2, <3>3
  <2>2. ~RunningIn[r] /\ RunningIn'[r] = TRUE /\ QueueOf'[r] = QueueOf[r]
    BY <1>1, <1>4, <2>1
  <2>3. QueueOf[r] # <<>>
    <3>1. Len(batch[t]) \in Nat \ {0} /\ Len(jobs[r]) \in Nat
      BY <1>1, <1>4, EmptySeq, LenProperties
    <3>2. Len(QueueOf[r]) = Len(batch[t]) + Len(jobs[r])
      BY <1>1, <2>1, WholeQueue
    <3>3. \A m \in Nat \ {0}, n \in Nat : m + n # 0
      OBVIOUS
    <3>4. Len(QueueOf[r]) # 0
      BY <3>1, <3>2, <3>3, Zenon
    <3>5. Len(<<>>) = 0
      OBVIOUS
    <3> QED BY <3>4, <3>5, Zenon
  <2>4. ASSUME NEW s \in Serializers, s # r
        PROVE  QueueOf'[s] = QueueOf[s] /\ RunningIn'[s] = RunningIn[s]
    <3>1. \A u \in Executors(s) : batch'[u] = batch[u] /\ execAt'[u] = execAt[u]
      BY <1>1, <1>2, <2>4
    <3>2. SameHands(s, t)
      BY <1>2, <3>1 DEF SameHands
    <3> QED BY <1>1, <3>2, SameHandsSameQueue
  <2>5. QueueOf' = QueueOf
    BY <2>2, <2>4, MappedFunctions
  <2>6. RunningIn' = [RunningIn EXCEPT ![r] = TRUE]
    BY <1>1, <2>2, <2>4, MappedFunctions
  <2> QED BY <1>1, <2>2, <2>3, <2>5, <2>6, Zenon DEF Serial!Begin
<1> QED BY <1>3, <1>4

\* The job that returns was the first of its serializer's queue.
LEMMA ReturnFinishes ==
  ASSUME IInv, NEW t \in Threads, ExecuteReturn(t)
  PROVE  \E s \in Serializers : Serial!Finish(s)
<1> PICK r : r = TLS_CurrentJobSerializer[t]
  OBVIOUS
<1>1. /\ r \in Serializers /\ execAt[t] = "body" /\ batch[t] # <<>>
      /\ UNCHANGED <<jobs, TLS_CurrentJobSerializer>>
      /\ executed' = executed \cup {Head(batch[t])}
      /\ execAt' = [execAt EXCEPT ![t] = "next"] /\ batch' = [batch EXCEPT ![t] = Tail(@)]
      /\ execAt \in [Threads -> ExecControl] /\ batch \in [Threads -> Seq(Jobs)]
      /\ batch[t] \in Seq(Jobs) /\ jobs[r] \in Seq(Jobs)
  BY DEF ExecuteReturn, InJob, IInv, TypeOK, Control
<1>2. ASSUME NEW s \in Serializers
      PROVE  /\ Executors(s)' = Executors(s)
             /\ s = r => Executors(s) = {t}
             /\ s # r => t \notin Executors(s)
             /\ Executors(s) \subseteq Threads
  <2>1. Executors(s)' = Executors(s) /\ (t \in Executors(s) <=> s = r) /\ Executors(s) \subseteq Threads
    BY <1>1 DEF Executors
  <2> QED BY <2>1 DEF IInv, HolderInv, Free, HeldOnce
<1>3. /\ QueueOf[r] = batch[t] \o jobs[r] /\ QueueOf'[r] = Tail(batch[t]) \o jobs[r]
      /\ RunningIn[r] /\ RunningIn'[r] = FALSE
  <2>1. Executors(r) = {t} /\ Executors(r)' = {t}
    BY <1>1, <1>2
  <2>2. QueueOf[r] = batch[t] \o jobs[r] /\ (RunningIn[r] <=> execAt[t] = "body")
    BY <1>1, <2>1, MappedState, Zenon
  <2>3. /\ QueueOf'[r] = batch'[t] \o jobs'[r]
        /\ (RunningIn'[r] <=> execAt'[t] = "body") /\ RunningIn'[r] \in BOOLEAN
    BY <1>1, <2>1, MappedNext, Zenon
  <2>4. batch'[t] = Tail(batch[t]) /\ jobs' = jobs /\ execAt'[t] = "next"
    BY <1>1
  <2>5. QueueOf'[r] = Tail(batch[t]) \o jobs[r] /\ ~RunningIn'[r]
    BY <2>3, <2>4
  <2> QED BY <1>1, <2>2, <2>3, <2>5
<1>4. Head(QueueOf[r]) = Head(batch[t]) /\ QueueOf'[r] = Tail(QueueOf[r])
  <2>1. /\ Head(batch[t] \o jobs[r]) = Head(batch[t])
        /\ Tail(batch[t] \o jobs[r]) = Tail(batch[t]) \o jobs[r]
    BY <1>1, HeadTailConcat
  <2> QED BY <1>3, <2>1, Zenon
<1>5. ASSUME NEW s \in Serializers, s # r
      PROVE  QueueOf'[s] = QueueOf[s] /\ RunningIn'[s] = RunningIn[s]
  <2>1. \A u \in Executors(s) : batch'[u] = batch[u] /\ execAt'[u] = execAt[u]
    BY <1>1, <1>2, <1>5
  <2>2. SameHands(s, t)
    BY <1>2, <2>1 DEF SameHands
  <2> QED BY <1>1, <2>2, SameHandsSameQueue
<1>6. QueueOf' = [QueueOf EXCEPT ![r] = Tail(@)]
  BY <1>1, <1>4, <1>5, MappedFunctions
<1>7. RunningIn' = [RunningIn EXCEPT ![r] = FALSE]
  BY <1>1, <1>3, <1>5, MappedFunctions
<1> QED BY <1>1, <1>3, <1>4, <1>6, <1>7, Zenon DEF Serial!Finish

\* The jobs of every serializer run one at a time, in the order they were queued and
\* once each, although they run on whichever thread has the serializer and new ones
\* are pushed all the while (JobSerializer.cpp:12-71).
THEOREM SerializerImplementsQueue == Spec => Implements
<1>1. Init => JobInv /\ Serial!Init
  <2> SUFFICES ASSUME Init PROVE JobInv /\ Serial!Init
    OBVIOUS
  <2>1. \A s \in Serializers : Executors(s) = {} /\ jobs[s] = <<>>
    BY JobsAssumption DEF Init, Executors
  <2>2. QueueOf = [s \in Serializers |-> <<>>] /\ RunningIn = [s \in Serializers |-> FALSE]
    BY <2>1 DEF QueueOf, RunningIn
  <2>3. JobInv
    BY DEF Init, JobInv, FreshJob
  <2> QED BY <2>2, <2>3 DEF Init, Serial!Init
<1>2. IInv /\ IInv' /\ JobInv /\ [Next]_vars => [Serial!Next]_(Serial!vars)
  <2> SUFFICES ASSUME IInv, IInv', JobInv, [Next]_vars PROVE [Serial!Next]_(Serial!vars)
    OBVIOUS
  <2>0. \A s \in Serializers : OneExecutor(s)'
    BY DEF IInv, HolderInv, Free, HeldOnce, OneExecutor
  <2>1. ASSUME NEW t \in Threads, PushJobs(t) PROVE Serial!Next
    BY <2>0, <2>1, PushJobsEnqueues DEF Serial!Next
  <2>2. ASSUME NEW t \in Threads,
               \/ \E j \in Jobs : Push(t, j)
               \/ PushHandOff(t) \/ DoJobs(t) \/ ExecuteSub(t) \/ ExecuteAgain(t) \/ ExecuteHandOff(t)
        PROVE  UNCHANGED Serial!vars
    <3>1. jobs' = jobs /\ executed' = executed
      BY <2>2 DEF Push, PushHandOff, DoJobs, ExecuteSub, ExecuteAgain, ExecuteHandOff
    <3>2. \A s \in Serializers : SameHands(s, t)
      BY <2>0, <2>2, PushKeepsHands, ExecuteKeepsHands, IInvOneExecutor
    <3> QED BY <3>1, <3>2, Stutters
  <2>3. ASSUME NEW t \in Threads, ExecuteClear(t) PROVE UNCHANGED Serial!vars
    BY <2>3, ClearStutters
  <2>4. ASSUME NEW t \in Threads, ExecuteNext(t) PROVE [Serial!Next]_(Serial!vars)
    BY <2>4, NextBegins DEF Serial!Next
  <2>5. ASSUME NEW t \in Threads, ExecuteReturn(t) PROVE Serial!Next
    BY <2>5, ReturnFinishes DEF Serial!Next
  <2>6. CASE UNCHANGED vars
    BY <2>6 DEF vars, execVars, Serial!vars, QueueOf, RunningIn, Executors
  <2> QED BY <2>1, <2>2, <2>3, <2>4, <2>5, <2>6 DEF Next, Proceed
<1> QED BY <1>1, <1>2, IInvInit, IInvNext, JobInvNext, PTL DEF Spec, Implements, Serial!Spec
=============================================================================
