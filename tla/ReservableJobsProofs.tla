----------------------- MODULE ReservableJobsProofs -----------------------
(***************************************************************************)
(* The reserved jobs use the serializers as JobSerializer says callers do, *)
(* so what is proved of JobSerializer holds with them; the only thing to   *)
(* know is that what they push are jobs (ReservedInv). That they enter in  *)
(* the order of their ticks needs more: one thread at a time checks the    *)
(* queue (CheckInv), a job leaves it once (PopInv), and what that thread   *)
(* has left to push are the last jobs popped (OrderInv).                   *)
(***************************************************************************)
EXTENDS ReservableJobs, JobSerializerRefinement

-----------------------------------------------------------------------------
\* What the serializers need of the reserved jobs: only jobs are pushed.
ReservedInv ==
  /\ reservableQueue \subseteq Reservables /\ IsFiniteSet(reservableQueue)
  /\ checkAt \in [Threads -> {"no", "pop", "loop", "push"}]
  /\ due \in [Threads -> Seq(Reservables)]
  /\ \A t \in Threads : checkAt[t] = "push" => due[t] # <<>>

\* A function on 1 .. n is a sequence.
LEMMA FunctionSeq == \A S : \A n \in Nat : \A q \in [1 .. n -> S] : q \in Seq(S)
BY SeqDef

\* A thread in CheckReservedJob takes reserved jobs, and pushes one at a time.
LEMMA ReservedInvNext == ReservedInv /\ [RNext]_allVars => ReservedInv'
<1> SUFFICES ASSUME ReservedInv, [RNext]_allVars PROVE ReservedInv'
  OBVIOUS
<1>1. ASSUME NEW t \in Threads, CheckPop(t) PROVE ReservedInv'
  <2> PICK ripe : ripe = {j \in reservableQueue : executionTick[j] <= nowTick[t]}
    BY Zenon
  <2>1. /\ checkAt' = [checkAt EXCEPT ![t] = "loop"] /\ reservableQueue' = reservableQueue \ ripe
        /\ \E q \in Injection(1 .. Cardinality(ripe), ripe) : due' = [due EXCEPT ![t] = q]
    BY <1>1, Zenon DEF CheckPop, Bijection
  <2>2. /\ ripe \in SUBSET reservableQueue /\ reservableQueue' \in SUBSET reservableQueue
        /\ IsFiniteSet(reservableQueue)
    BY <2>1 DEF ReservedInv
  <2>3. Cardinality(ripe) \in Nat /\ IsFiniteSet(reservableQueue')
    BY <2>2, FS_Subset, FS_CardinalityType
  <2>4. PICK q \in Injection(1 .. Cardinality(ripe), ripe) : due' = [due EXCEPT ![t] = q]
    BY <2>1, Zenon
  <2>5. q \in Seq(Reservables)
    <3>1. q \in [1 .. Cardinality(ripe) -> ripe]
      BY <2>4 DEF Injection
    <3>2. q \in [1 .. Cardinality(ripe) -> Reservables]
      BY <2>2, <3>1 DEF ReservedInv
    <3> QED BY <2>3, <3>2, FunctionSeq
  <2> QED BY <2>1, <2>2, <2>3, <2>4, <2>5 DEF ReservedInv
<1>2. ASSUME NEW t \in Threads, CheckCanceled(t) \/ PushJobToSerializer(t) PROVE ReservedInv'
  <2>1. due[t] \in Seq(Reservables) /\ due[t] # <<>>
    BY <1>2 DEF CheckCanceled, PushJobToSerializer, ReservedInv
  <2>2. Tail(due[t]) \in Seq(Reservables)
    BY <2>1, HeadTailProperties
  <2>3. CASE CheckCanceled(t)
    BY <2>1, <2>2, <2>3, Zenon DEF CheckCanceled, ReservedInv
  <2>4. CASE PushJobToSerializer(t)
    BY <2>2, <2>4 DEF PushJobToSerializer, ReservedInv
  <2> QED BY <1>2, <2>3, <2>4
<1>3. ASSUME NEW t \in Threads, NEW j \in Jobs, NEW at, PushReservableJob(t, j, at) PROVE ReservedInv'
  BY <1>3, FS_AddElement, Zenon DEF PushReservableJob, ReservedInv
<1>4. ASSUME NEW t \in Threads, CheckEnd(t) \/ CheckReservedJob(t) PROVE ReservedInv'
  BY <1>4, Zenon DEF CheckEnd, CheckReservedJob, ReservedInv
<1>5. ASSUME NEW t \in Threads, SerializerStep(t) PROVE ReservedInv'
  BY <1>5 DEF SerializerStep, ReservedInv
<1>6. ASSUME NEW t \in Threads, NEW j \in Jobs, PushDirectly(t, j) PROVE ReservedInv'
  BY <1>6 DEF PushDirectly, reserveVars, ReservedInv
<1>7. ASSUME NEW t \in Threads, DoWork(t) PROVE ReservedInv'
  BY <1>7 DEF DoWork, reserveVars, ReservedInv
<1>8. ASSUME NEW j \in Jobs, Cancel(j) PROVE ReservedInv'
  BY <1>8 DEF Cancel, ReservedInv
<1>9. CASE Tick \/ UNCHANGED allVars
  BY <1>9 DEF Tick, allVars, reserveVars, ReservedInv
<1> QED BY <1>1, <1>2, <1>3, <1>4, <1>5, <1>6, <1>7, <1>8, <1>9 DEF RNext, Continue

\* Seen from the serializers, a step of the reserved jobs is a step of a thread that
\* pushes or works, or no step.
LEMMA ReservedStep == ReservedInv /\ [RNext]_allVars => [Next]_vars
<1> SUFFICES ASSUME ReservedInv, [RNext]_allVars PROVE [Next]_vars
  OBVIOUS
<1>1. ASSUME NEW t \in Threads, SerializerStep(t) \/ DoWork(t) PROVE Next
  BY <1>1 DEF SerializerStep, DoWork, Next
<1>2. ASSUME NEW t \in Threads, PushJobToSerializer(t) PROVE Next
  <2>1. Head(due[t]) \in Jobs
    <3>1. due[t] \in Seq(Reservables) /\ due[t] # <<>>
      BY <1>2 DEF PushJobToSerializer, ReservedInv
    <3> QED BY <3>1, HeadTailProperties, ReservablesAssumption
  <2> QED BY <1>2, <2>1 DEF PushJobToSerializer, Next
<1>3. ASSUME NEW t \in Threads, NEW j \in Jobs, PushDirectly(t, j) PROVE Next
  BY <1>3 DEF PushDirectly, Next
<1>4. ASSUME NEW t \in Threads, CheckPop(t) \/ CheckCanceled(t) \/ CheckEnd(t) \/ CheckReservedJob(t)
      PROVE  UNCHANGED vars
  BY <1>4 DEF CheckPop, CheckCanceled, CheckEnd, CheckReservedJob
<1>5. ASSUME NEW t \in Threads, NEW j \in Jobs, NEW at, PushReservableJob(t, j, at)
      PROVE  UNCHANGED vars
  BY <1>5 DEF PushReservableJob
<1>6. ASSUME NEW j \in Jobs, Cancel(j) PROVE UNCHANGED vars
  BY <1>6 DEF Cancel
<1>7. CASE Tick \/ UNCHANGED allVars
  BY <1>7 DEF Tick, allVars
<1> QED BY <1>1, <1>2, <1>3, <1>4, <1>5, <1>6, <1>7 DEF RNext, Continue

\* Reserved jobs use the serializers as any other caller does: whatever holds of
\* JobSerializer holds below GlobalJobWorker's reservable half.
THEOREM ReservedJobsUseSerializers == RSpec => Spec
<1>1. RInit => Init /\ ReservedInv
  BY FS_EmptySet, EmptySeq DEF RInit, ReservedInv
<1> QED BY <1>1, ReservedInvNext, ReservedStep, PTL DEF RSpec, Spec

\* The same with reserved jobs, whose pushes may execute a serializer below
\* CheckReservedJob (JobWorker.cpp:20-60).
THEOREM ReservedHaveOneHolder == RSpec => [](OneHolder /\ CountAccounts)
BY ReservedJobsUseSerializers, SerializerHasOneHolder, PTL

\* With them, too, the serializers implement serial queues.
THEOREM ReservedImplementQueue == RSpec => Implements
BY ReservedJobsUseSerializers, SerializerImplementsQueue, PTL
-----------------------------------------------------------------------------
\* Where a thread is: at most one checks the queue, it has the flag and pushes one
\* job at a time, and a reserved job is pushed by no other.
CheckInv ==
  /\ executingReservables \in BOOLEAN
  /\ \A t \in Threads :
       /\ checkAt[t] # "no" => executingReservables
       /\ checkAt[t] \in {"no", "pop"} => due[t] = <<>>
       /\ checkAt[t] \in {"pop", "push"} => AtRest(t)
       /\ pushAt[t] # "no" => execAt[t] \in {"no", "body"}
       /\ pushAt[t] = "queue" /\ pushing[t] \in Reservables => checkAt[t] = "loop"
  /\ \A t, u \in Threads : checkAt[t] # "no" /\ checkAt[u] # "no" => t = u

\* The steps of a thread inside Push or ExecuteJobs are its own, and none of them
\* leaves it before the push of a job to _jobs.
LEMMA ProceedLocal ==
  ASSUME TypeOK, NEW t \in Threads, Proceed(t),
         pushAt[t] # "no" => execAt[t] \in {"no", "body"}
  PROVE  /\ ~AtRest(t)
         /\ \A u \in Threads \ {t} : /\ execAt'[u] = execAt[u] /\ pushAt'[u] = pushAt[u]
                                     /\ pushing'[u] = pushing[u]
         /\ pushAt'[t] # "queue"
         /\ pushAt'[t] # "no" => execAt'[t] \in {"no", "body"}
<1> USE DEF TypeOK, AtRest, PushControl, ExecControl
<1>1. CASE PushJobs(t)
  BY <1>1 DEF PushJobs, EndPush, BeginExecute, execVars
<1>2. CASE PushHandOff(t)
  BY <1>2 DEF PushHandOff, EndPush, execVars
<1>3. CASE ExecuteClear(t)
  BY <1>3 DEF ExecuteClear, pushVars
<1>4. CASE ExecuteNext(t)
  BY <1>4 DEF ExecuteNext, pushVars
<1>5. CASE ExecuteReturn(t)
  BY <1>5 DEF ExecuteReturn, InJob, pushVars
<1>6. CASE ExecuteSub(t)
  BY <1>6 DEF ExecuteSub, EndExecute, pushVars
<1>7. CASE ExecuteAgain(t)
  BY <1>7 DEF ExecuteAgain, pushVars
<1>8. CASE ExecuteHandOff(t)
  BY <1>8 DEF ExecuteHandOff, EndExecute, pushVars
<1> QED BY <1>1, <1>2, <1>3, <1>4, <1>5, <1>6, <1>7, <1>8 DEF Proceed

\* The exchange lets one thread check the queue at a time, and it gives the flag back
\* when the last push has returned.
LEMMA CheckInvNext == TypeOK /\ ReservedInv /\ CheckInv /\ [RNext]_allVars => CheckInv'
<1> SUFFICES ASSUME TypeOK, ReservedInv, CheckInv, [RNext]_allVars PROVE CheckInv'
  OBVIOUS
<1>1. ASSUME NEW t \in Threads, CheckPop(t) PROVE CheckInv'
  <2>1. /\ checkAt[t] = "pop" /\ checkAt' = [checkAt EXCEPT ![t] = "loop"]
        /\ \E q : due' = [due EXCEPT ![t] = q]
        /\ UNCHANGED <<vars, executingReservables>>
    BY <1>1, Zenon DEF CheckPop
  <2> QED BY <2>1 DEF CheckInv, ReservedInv, AtRest, vars, execVars, pushVars
<1>2. ASSUME NEW t \in Threads, CheckCanceled(t) PROVE CheckInv'
  BY <1>2 DEF CheckCanceled, CheckInv, ReservedInv, AtRest, vars, execVars, pushVars
<1>3. ASSUME NEW t \in Threads, NEW j, PushJobToSerializer(t) \/ PushDirectly(t, j) PROVE CheckInv'
  <2>1. CASE PushJobToSerializer(t)
    BY <1>3, <2>1 DEF PushJobToSerializer, Push, CheckInv, ReservedInv, AtRest, InJob, TypeOK, execVars
  <2>2. CASE PushDirectly(t, j)
    BY <1>3, <2>2 DEF PushDirectly, InUserCode, Push, CheckInv, ReservedInv, AtRest, InJob, TypeOK,
                      execVars, reserveVars
  <2> QED BY <1>3, <2>1, <2>2
<1>4. ASSUME NEW t \in Threads, CheckEnd(t) PROVE CheckInv'
  BY <1>4, Zenon DEF CheckEnd, StoreFalse, CheckInv, ReservedInv, AtRest, vars, execVars, pushVars
<1>5. ASSUME NEW t \in Threads, CheckReservedJob(t) PROVE CheckInv'
  BY <1>5 DEF CheckReservedJob, Exchange, CheckInv, ReservedInv, AtRest, vars, execVars, pushVars
<1>6. ASSUME NEW t \in Threads, SerializerStep(t) PROVE CheckInv'
  <2>1. /\ ~AtRest(t)
        /\ \A u \in Threads \ {t} : /\ execAt'[u] = execAt[u] /\ pushAt'[u] = pushAt[u]
                                    /\ pushing'[u] = pushing[u]
        /\ pushAt'[t] # "queue"
        /\ pushAt'[t] # "no" => execAt'[t] \in {"no", "body"}
    BY <1>6, ProceedLocal DEF SerializerStep, CheckInv
  <2>2. UNCHANGED <<executingReservables, checkAt, due>>
    BY <1>6 DEF SerializerStep
  <2> QED BY <2>1, <2>2 DEF CheckInv, AtRest
<1>7. ASSUME NEW t \in Threads, DoWork(t) PROVE CheckInv'
  BY <1>7 DEF DoWork, DoJobs, BeginExecute, CheckInv, AtRest, TypeOK, reserveVars, pushVars
<1>8. ASSUME NEW t \in Threads, NEW j \in Jobs, NEW at, PushReservableJob(t, j, at) PROVE CheckInv'
  BY <1>8 DEF PushReservableJob, CheckInv, AtRest, vars, execVars, pushVars
<1>9. CASE Tick \/ (\E j \in Jobs : Cancel(j)) \/ UNCHANGED allVars
  BY <1>9 DEF Tick, Cancel, allVars, reserveVars, CheckInv, AtRest, vars, execVars, pushVars
<1> QED BY <1>1, <1>2, <1>3, <1>4, <1>5, <1>6, <1>7, <1>8, <1>9 DEF RNext, Continue
-----------------------------------------------------------------------------
OnceEach(q) == \A i, k \in DOMAIN q : q[i] = q[k] => i = k
Among(x, q) == \E i \in DOMAIN q : q[i] = x

\* What was popped before the jobs thread t still has to push.
Handled(t) == Len(popped) - Len(due[t])
Entering(t) == pushAt[t] = "queue" /\ pushing[t] \in Reservables

\* A reserved job leaves the queue once.
PopInv ==
  /\ Reserved \subseteq Reservables
  /\ reservableQueue \subseteq Reserved
  /\ popped \in Seq(Reservables)
  /\ OnceEach(popped)
  /\ \A i \in DOMAIN popped : popped[i] \in Reserved \ reservableQueue

\* The jobs still to push are the last ones popped, in their order; before them comes
\* the one that is being pushed, and before that one all that have entered.
OrderInv ==
  /\ entered \in Seq(Reservables)
  /\ \A i, k \in DOMAIN entered :
       i < k => PositionIn(popped, entered[i]) < PositionIn(popped, entered[k])
  /\ \A i \in DOMAIN entered : Among(entered[i], popped)
  /\ \A t \in Threads :
       /\ Handled(t) \in Nat
       /\ \A i \in DOMAIN due[t] : due[t][i] = popped[Handled(t) + i]
       /\ \A i \in DOMAIN entered : PositionIn(popped, entered[i]) <= Handled(t)
       /\ Entering(t) =>
            /\ Among(pushing[t], popped)
            /\ PositionIn(popped, pushing[t]) <= Handled(t)
            /\ \A i \in DOMAIN entered :
                 PositionIn(popped, entered[i]) < PositionIn(popped, pushing[t])

\* PositionIn finds a place of what is in the sequence,
LEMMA PositionFinds ==
  ASSUME NEW q, NEW x, Among(x, q)
  PROVE  PositionIn(q, x) \in DOMAIN q /\ q[PositionIn(q, x)] = x
BY DEF Among, PositionIn

\* its only place if nothing is in it twice,
LEMMA PositionUnique ==
  ASSUME NEW q, OnceEach(q), NEW i \in DOMAIN q
  PROVE  Among(q[i], q) /\ PositionIn(q, q[i]) = i
<1>1. Among(q[i], q)
  BY DEF Among
<1> QED BY <1>1, PositionFinds DEF OnceEach

\* and the place stays when the sequence grows.
LEMMA PositionKept ==
  ASSUME NEW S, NEW q \in Seq(S), NEW r \in Seq(S), OnceEach(q), OnceEach(q \o r),
         NEW x, Among(x, q)
  PROVE  Among(x, q \o r) /\ PositionIn(q \o r, x) = PositionIn(q, x)
<1>1. PICK i \in DOMAIN q : q[i] = x
  BY DEF Among
<1>2. i \in 1 .. Len(q) /\ Len(q) \in Nat /\ Len(r) \in Nat
  BY <1>1, LenProperties
<1>3. i \in DOMAIN (q \o r) /\ (q \o r)[i] = q[i]
  <2>1. i \in 1 .. Len(q) + Len(r) /\ i <= Len(q)
    BY <1>2
  <2>2. /\ q \o r \in Seq(S) /\ Len(q \o r) = Len(q) + Len(r)
        /\ (q \o r)[i] = IF i <= Len(q) THEN q[i] ELSE r[i - Len(q)]
    BY <2>1, ConcatProperties
  <2>3. DOMAIN (q \o r) = 1 .. Len(q \o r)
    BY <2>2, LenProperties
  <2> QED BY <2>1, <2>2, <2>3
<1>4. PositionIn(q, q[i]) = i /\ PositionIn(q \o r, (q \o r)[i]) = i /\ Among((q \o r)[i], q \o r)
  BY <1>3, PositionUnique, Zenon
<1> QED BY <1>1, <1>3, <1>4

\* What popped is after CheckPop took the jobs q.
PopConcat(q) ==
  /\ popped \o q \in Seq(Reservables)
  /\ DOMAIN popped = 1 .. Len(popped) /\ Len(popped) \in Nat
  /\ DOMAIN (popped \o q) = 1 .. Len(popped) + Len(q) /\ Len(popped \o q) = Len(popped) + Len(q)
  /\ \A i \in 1 .. Len(popped) + Len(q) :
       (popped \o q)[i] = IF i <= Len(popped) THEN popped[i] ELSE q[i - Len(popped)]

\* A job is reserved once, and the one thread that checks the queue takes it out.
LEMMA PopInvNext == ReservedInv /\ PopInv /\ [RNext]_allVars => PopInv'
<1> SUFFICES ASSUME ReservedInv, PopInv, [RNext]_allVars PROVE PopInv'
  OBVIOUS
<1>1. ASSUME NEW t \in Threads, CheckPop(t) PROVE PopInv'
  <2> PICK ripe : ripe = {j \in reservableQueue : executionTick[j] <= nowTick[t]}
    BY Zenon
  <2>1. PICK q \in Injection(1 .. Cardinality(ripe), ripe) :
          popped' = popped \o q /\ reservableQueue' = reservableQueue \ ripe /\ UNCHANGED executionTick
    BY <1>1, Zenon DEF CheckPop, Bijection
  <2>2. ripe \in SUBSET reservableQueue /\ ripe \in SUBSET Reservables /\ Cardinality(ripe) \in Nat
    BY FS_Subset, FS_CardinalityType DEF ReservedInv, PopInv
  <2>3. /\ q \in Seq(Reservables) /\ DOMAIN q = 1 .. Len(q) /\ Len(q) \in Nat
        /\ OnceEach(q) /\ \A i \in DOMAIN q : q[i] \in ripe
    <3>1. q \in [1 .. Cardinality(ripe) -> ripe] /\ OnceEach(q)
      BY <2>1 DEF Injection, IsInjective, OnceEach
    <3>2. q \in [1 .. Cardinality(ripe) -> Reservables]
      BY <2>2, <3>1
    <3>3. q \in Seq(Reservables)
      BY <2>2, <3>2, FunctionSeq, Zenon
    <3> QED BY <3>1, <3>3, LenProperties
  <2>4. PopConcat(q)
    BY <2>3, ConcatProperties DEF PopInv, PopConcat
  <2>5. \A i \in DOMAIN popped' : popped'[i] \in Reserved \ reservableQueue'
    BY <2>1, <2>2, <2>3, <2>4 DEF PopConcat, PopInv, Reserved
  <2>6. OnceEach(popped')
    <3> SUFFICES ASSUME NEW i \in DOMAIN popped', NEW k \in DOMAIN popped', popped'[i] = popped'[k], i < k
                 PROVE  FALSE
      BY <2>1, <2>4 DEF OnceEach, PopConcat
    <3>1. CASE k <= Len(popped)
      BY <2>1, <2>4, <3>1 DEF PopConcat, PopInv, OnceEach
    <3>2. CASE i <= Len(popped) /\ k > Len(popped)
      BY <2>1, <2>2, <2>3, <2>4, <3>2 DEF PopConcat, PopInv
    <3>3. CASE i > Len(popped)
      BY <2>1, <2>3, <2>4, <3>3 DEF PopConcat, OnceEach
    <3> QED BY <2>1, <2>4, <3>1, <3>2, <3>3 DEF PopConcat
  <2> QED BY <2>1, <2>4, <2>5, <2>6 DEF PopInv, PopConcat, Reserved
<1>2. ASSUME NEW t \in Threads, NEW j \in Jobs, NEW at, PushReservableJob(t, j, at) PROVE PopInv'
  <2>1. /\ j \in Reservables \ Reserved /\ DOMAIN executionTick' = Reserved \cup {j}
        /\ reservableQueue' = reservableQueue \cup {j} /\ UNCHANGED popped
    BY <1>2 DEF PushReservableJob
  <2> QED BY <2>1 DEF PopInv, Reserved, OnceEach
<1>3. CASE UNCHANGED <<reservableQueue, executionTick, popped>>
  BY <1>3 DEF PopInv, Reserved, OnceEach
<1>4. ASSUME NEW t \in Threads, Continue(t), ~CheckPop(t)
      PROVE  UNCHANGED <<reservableQueue, executionTick, popped>>
  BY <1>4 DEF Continue, SerializerStep, CheckCanceled, PushJobToSerializer, CheckEnd
<1>5. ASSUME NEW t \in Threads, DoWork(t) \/ CheckReservedJob(t) \/ \E j \in Jobs : PushDirectly(t, j)
      PROVE  UNCHANGED <<reservableQueue, executionTick, popped>>
  BY <1>5 DEF DoWork, CheckReservedJob, PushDirectly, reserveVars
<1>6. CASE Tick \/ (\E j \in Jobs : Cancel(j)) \/ UNCHANGED allVars
  BY <1>3, <1>6 DEF Tick, Cancel, allVars, reserveVars
<1> QED BY <1>1, <1>2, <1>3, <1>4, <1>5, <1>6 DEF RNext

\* While a thread is about to put a job into _jobs nobody else has jobs to push.
LEMMA OnlyOneEnters ==
  ASSUME CheckInv, ReservedInv, NEW t \in Threads, checkAt[t] # "no", NEW u \in Threads, u # t
  PROVE  due[u] = <<>> /\ ~Entering(u)
BY DEF CheckInv, ReservedInv, Entering

\* A pop comes when all that was popped before is pushed; a push takes the first of
\* what is left; and it has put its job into _jobs before the next one.
LEMMA OrderInvNext ==
  ASSUME TypeOK, ReservedInv, ReservedInv', CheckInv, PopInv, PopInv', OrderInv, [RNext]_allVars
  PROVE  OrderInv'
<1> USE DEF Handled
<1>0. /\ Len(popped) \in Nat /\ DOMAIN popped = 1 .. Len(popped)
      /\ DOMAIN entered = 1 .. Len(entered) /\ Len(entered) \in Nat
      /\ \A u \in Threads : Len(due[u]) \in Nat /\ DOMAIN due[u] = 1 .. Len(due[u])
  BY LenProperties DEF PopInv, OrderInv, ReservedInv
<1>1. ASSUME NEW t \in Threads, CheckPop(t) PROVE OrderInv'
  <2>1. PICK q : popped' = popped \o q /\ due' = [due EXCEPT ![t] = q]
    BY <1>1, Zenon DEF CheckPop
  <2>2. /\ checkAt[t] = "pop" /\ UNCHANGED <<entered, pushAt, pushing>> /\ due[t] = <<>>
        /\ ~Entering(t)
    BY <1>1 DEF CheckPop, vars, pushVars, CheckInv, AtRest, Entering
  <2>3. q \in Seq(Reservables) /\ Len(q) \in Nat /\ DOMAIN q = 1 .. Len(q) /\ due'[t] = q
    <3>1. due'[t] = q /\ due'[t] \in Seq(Reservables)
      BY <2>1 DEF ReservedInv
    <3> QED BY <3>1, LenProperties
  <2>4. PopConcat(q)
    BY <1>0, <2>3, ConcatProperties, LenProperties DEF PopInv, PopConcat
  <2>5. \A u \in Threads : due[u] = <<>> /\ ~Entering(u) /\ Len(due[u]) = 0 /\ ~Entering(u)'
    <3> TAKE u \in Threads
    <3>1. due[u] = <<>> /\ ~Entering(u)
      BY <2>2, OnlyOneEnters
    <3>2. Len(<<>>) = 0
      BY EmptySeq
    <3> QED BY <2>2, <3>1, <3>2 DEF Entering
  <2>6. \A i \in DOMAIN entered : /\ Among(entered[i], popped')
                                  /\ PositionIn(popped', entered[i]) = PositionIn(popped, entered[i])
                                  /\ PositionIn(popped, entered[i]) \in 1 .. Len(popped)
    <3> TAKE i \in DOMAIN entered
    <3>1. Among(entered[i], popped) /\ OnceEach(popped) /\ OnceEach(popped \o q) /\ popped \in Seq(Reservables)
      BY <2>1 DEF OrderInv, PopInv
    <3> QED BY <1>0, <2>1, <2>3, <3>1, PositionKept, PositionFinds
  <2>7. ASSUME NEW u \in Threads
        PROVE  /\ Handled(u)' \in Nat /\ Len(popped) <= Handled(u)'
               /\ \A i \in DOMAIN due'[u] : due'[u][i] = popped'[Handled(u)' + i]
    <3>1. CASE u = t
      <4>1. Handled(u)' = Len(popped)
        <5>1. Len(popped') = Len(popped) + Len(q) /\ due'[u] = q
          BY <2>1, <2>3, <2>4, <3>1 DEF PopConcat
        <5>2. (Len(popped) + Len(q)) - Len(q) = Len(popped)
          BY <1>0, <2>3
        <5> QED BY <5>1, <5>2
      <4>2. \A i \in 1 .. Len(q) : q[i] = (popped \o q)[Len(popped) + i]
        <5> TAKE i \in 1 .. Len(q)
        <5>1. /\ Len(popped) + i \in 1 .. Len(popped) + Len(q) /\ ~(Len(popped) + i <= Len(popped))
              /\ (Len(popped) + i) - Len(popped) = i
          BY <1>0, <2>3
        <5>2. (popped \o q)[Len(popped) + i] = q[(Len(popped) + i) - Len(popped)]
          BY <2>4, <5>1 DEF PopConcat
        <5> QED BY <5>1, <5>2
      <4>3. due'[u] = q /\ DOMAIN due'[u] = 1 .. Len(q) /\ popped' = popped \o q
        BY <2>1, <2>3, <3>1
      <4> HIDE DEF Handled
      <4> QED BY <1>0, <4>1, <4>2, <4>3
    <3>2. CASE u # t
      <4>1. due'[u] = <<>> /\ Len(due'[u]) = 0 /\ DOMAIN due'[u] = {}
        <5>1. due'[u] = due[u] /\ due[u] = <<>>
          BY <2>1, <2>5, <3>2 DEF ReservedInv
        <5> QED BY <5>1, EmptySeq
      <4>2. Len(popped') = Len(popped) + Len(q)
        BY <2>1, <2>4 DEF PopConcat
      <4>3. Handled(u)' = Len(popped) + Len(q)
        BY <1>0, <2>3, <4>1, <4>2
      <4> HIDE DEF Handled
      <4> QED BY <1>0, <2>3, <4>1, <4>3
    <3> QED BY <3>1, <3>2
  <2> HIDE DEF Handled
  <2>8. \A u \in Threads, i \in DOMAIN entered : PositionIn(popped', entered[i]) <= Handled(u)'
    BY <1>0, <2>6, <2>7
  <2> QED BY <2>2, <2>5, <2>6, <2>7, <2>8 DEF OrderInv
<1>2. ASSUME NEW t \in Threads, CheckCanceled(t) \/ PushJobToSerializer(t), due'[t] = Tail(due[t])
      PROVE  OrderInv'
  <2>1. /\ due[t] # <<>> /\ due' = [due EXCEPT ![t] = Tail(@)] /\ UNCHANGED <<popped, entered>>
        /\ checkAt[t] # "no" /\ ~Entering(t)
    <3>1. CASE CheckCanceled(t)
      BY <1>2, <3>1 DEF CheckCanceled, AtRest, Entering, ReservedInv
    <3>2. CASE PushJobToSerializer(t)
      BY <1>2, <3>2 DEF PushJobToSerializer, CheckInv, AtRest, Entering, ReservedInv
    <3> QED BY <1>2, <3>1, <3>2
  <2>2. /\ Len(due'[t]) = Len(due[t]) - 1 /\ Len(due[t]) >= 1 /\ Head(due[t]) = due[t][1]
        /\ \A i \in 1 .. Len(due'[t]) : due'[t][i] = due[t][i + 1]
        /\ DOMAIN due'[t] = 1 .. Len(due'[t])
    <3>1. due[t] \in Seq(Reservables) /\ due'[t] \in Seq(Reservables)
      BY DEF ReservedInv
    <3> QED BY <1>0, <1>2, <2>1, <3>1, HeadTailProperties, EmptySeq, LenProperties
  <2>3. Handled(t)' = Handled(t) + 1 /\ Handled(t) \in Nat /\ Handled(t)' <= Len(popped)
    <3>1. \A a, b \in Nat : b >= 1 /\ a - b \in Nat => a - (b - 1) = (a - b) + 1 /\ a - (b - 1) <= a
      OBVIOUS
    <3>2. Len(popped) - Len(due[t]) \in Nat
      BY DEF OrderInv
    <3>3. Len(popped') - Len(due'[t]) = Len(popped) - (Len(due[t]) - 1)
      BY <2>1, <2>2, Zenon
    <3> QED BY <1>0, <2>2, <3>1, <3>2, <3>3
  <2>4. \A u \in Threads \ {t} : due'[u] = due[u] /\ Handled(u)' = Handled(u) /\ Handled(u) = Len(popped)
    <3> TAKE u \in Threads \ {t}
    <3>1. due[u] = <<>> /\ Len(<<>>) = 0
      BY <2>1, OnlyOneEnters, EmptySeq
    <3> QED BY <1>0, <2>1, <3>1 DEF ReservedInv
  <2>5. \A i \in DOMAIN due'[t] : due'[t][i] = popped'[Handled(t)' + i]
    <3> SUFFICES ASSUME NEW i \in 1 .. Len(due'[t]) PROVE due'[t][i] = popped[Handled(t)' + i]
      BY <2>1, <2>2, Zenon
    <3>1. i + 1 \in DOMAIN due[t]
      BY <1>0, <2>2
    <3> HIDE DEF Handled
    <3>2. Handled(t)' + i = Handled(t) + (i + 1)
      BY <1>0, <2>2, <2>3
    <3> QED BY <2>2, <3>1, <3>2 DEF OrderInv
  <2>6. /\ Among(Head(due[t]), popped) /\ PositionIn(popped, Head(due[t])) = Handled(t) + 1
    <3>1. Head(due[t]) = popped[Handled(t) + 1] /\ Handled(t) + 1 \in DOMAIN popped /\ OnceEach(popped)
      <4>1. 1 \in DOMAIN due[t]
        BY <1>0, <2>2
      <4> HIDE DEF Handled
      <4>2. due[t][1] = popped[Handled(t) + 1] /\ OnceEach(popped)
        BY <4>1 DEF OrderInv, PopInv
      <4>3. Handled(t) + 1 \in 1 .. Len(popped)
        BY <1>0, <2>3
      <4> QED BY <1>0, <2>2, <4>2, <4>3
    <3> QED BY <3>1, PositionUnique, Zenon
  <2>7. \A u \in Threads : Entering(u)' => u = t /\ pushing'[t] = Head(due[t])
    <3> TAKE u \in Threads
    <3>1. ~Entering(u)
      BY <2>1, OnlyOneEnters
    <3>2. CASE CheckCanceled(t)
      BY <3>1, <3>2 DEF CheckCanceled, vars, pushVars, Entering
    <3>3. CASE PushJobToSerializer(t)
      BY <3>1, <3>3 DEF PushJobToSerializer, Push, Entering, TypeOK
    <3> QED BY <1>2, <3>2, <3>3
  <2> HIDE DEF Handled
  <2>8. \A u \in Threads : /\ Handled(u)' \in Nat /\ Handled(u) <= Handled(u)'
                           /\ \A i \in DOMAIN due'[u] : due'[u][i] = popped'[Handled(u)' + i]
    <3> TAKE u \in Threads
    <3>1. CASE u = t
      BY <2>3, <2>5, <3>1
    <3>2. CASE u # t
      BY <1>0, <2>1, <2>4, <3>2 DEF OrderInv
    <3> QED BY <3>1, <3>2
  <2>9. \A i \in DOMAIN entered : PositionIn(popped, entered[i]) \in Nat
    BY <1>0, PositionFinds DEF OrderInv
  <2>10. \A u \in Threads, i \in DOMAIN entered : PositionIn(popped, entered[i]) <= Handled(u)'
    <3> TAKE u \in Threads, i \in DOMAIN entered
    <3>1. PositionIn(popped, entered[i]) <= Handled(u) /\ Handled(u) \in Nat
      BY DEF OrderInv
    <3> QED BY <2>8, <2>9, <3>1
  <2>11. \A u \in Threads : Entering(u)' =>
           /\ Among(pushing'[u], popped) /\ PositionIn(popped, pushing'[u]) <= Handled(u)'
           /\ \A i \in DOMAIN entered : PositionIn(popped, entered[i]) < PositionIn(popped, pushing'[u])
    <3> SUFFICES ASSUME Entering(t)'
                 PROVE  /\ Among(pushing'[t], popped) /\ PositionIn(popped, pushing'[t]) <= Handled(t)'
                        /\ \A i \in DOMAIN entered : PositionIn(popped, entered[i]) < PositionIn(popped, pushing'[t])
      BY <2>7
    <3>1. pushing'[t] = Head(due[t])
      BY <2>7
    <3>2. \A i \in DOMAIN entered : PositionIn(popped, entered[i]) <= Handled(t)
      BY DEF OrderInv
    <3> QED BY <2>3, <2>6, <2>9, <3>1, <3>2
  <2> QED BY <2>1, <2>8, <2>10, <2>11, Zenon DEF OrderInv
<1>3. ASSUME UNCHANGED <<popped, entered, due>>, \A u \in Threads : Entering(u)' => Entering(u) /\ pushing'[u] = pushing[u]
      PROVE  OrderInv'
  BY <1>3 DEF OrderInv
<1>4. ASSUME NEW t \in Threads, SerializerStep(t) PROVE OrderInv'
  <2>1. /\ UNCHANGED <<popped, due>> /\ entered' = IF Entering(t) THEN Append(entered, pushing[t]) ELSE entered
    BY <1>4 DEF SerializerStep, Entering
  <2>2. /\ \A u \in Threads \ {t} : pushAt'[u] = pushAt[u] /\ pushing'[u] = pushing[u]
        /\ pushAt'[t] # "queue"
    BY <1>4, ProceedLocal, Zenon DEF SerializerStep, CheckInv
  <2>3. CASE ~Entering(t)
    BY <1>3, <2>1, <2>2, <2>3 DEF Entering
  <2>4. CASE Entering(t)
    <3>1. \A u \in Threads : ~Entering(u)' /\ (u # t => Len(due[u]) = 0)
      <4>1. checkAt[t] # "no"
        BY <2>4 DEF CheckInv, Entering
      <4> QED BY <2>2, <4>1, OnlyOneEnters, EmptySeq DEF Entering
    <3>2. /\ entered' \in Seq(Reservables) /\ Len(entered') = Len(entered) + 1
          /\ DOMAIN entered' = 1 .. Len(entered) + 1
          /\ \A i \in DOMAIN entered : entered'[i] = entered[i]
          /\ entered'[Len(entered) + 1] = pushing[t]
      BY <1>0, <2>1, <2>4, AppendProperties, LenProperties DEF Entering, OrderInv
    <3>3. \A u \in Threads : PositionIn(popped, pushing[t]) <= Handled(u)
      <4>1. PositionIn(popped, pushing[t]) \in 1 .. Len(popped)
        BY <1>0, <2>4, PositionFinds DEF OrderInv
      <4>2. PositionIn(popped, pushing[t]) <= Handled(t)
        BY <2>4 DEF OrderInv
      <4> QED BY <1>0, <3>1, <4>1, <4>2
    <3> HIDE DEF Handled
    <3>4. \A i \in DOMAIN entered' : i \in DOMAIN entered \/ i = Len(entered) + 1
      BY <1>0, <3>2
    <3>5. \A i \in DOMAIN entered' : \A u \in Threads :
            Among(entered'[i], popped) /\ PositionIn(popped, entered'[i]) <= Handled(u)
      BY <2>4, <3>2, <3>3, <3>4 DEF OrderInv
    <3>6. \A i, k \in DOMAIN entered' : i < k => PositionIn(popped, entered'[i]) < PositionIn(popped, entered'[k])
      BY <1>0, <2>4, <3>2, <3>4 DEF OrderInv
    <3>7. \A u \in Threads : Handled(u)' = Handled(u)
      BY <2>1 DEF Handled
    <3> QED BY <2>1, <3>1, <3>2, <3>5, <3>6, <3>7, Zenon DEF OrderInv
  <2> QED BY <2>3, <2>4
<1>5. ASSUME NEW t \in Threads, NEW j, PushDirectly(t, j) PROVE OrderInv'
  BY <1>3, <1>5, Zenon DEF PushDirectly, Push, Entering, TypeOK, reserveVars
<1>6. ASSUME NEW t \in Threads, CheckCanceled(t), due'[t] # Tail(due[t]) PROVE OrderInv'
  BY <1>3, <1>6 DEF CheckCanceled, Entering, ReservedInv, vars, pushVars
<1>7. ASSUME NEW t \in Threads, PushJobToSerializer(t) PROVE due'[t] = Tail(due[t])
  BY <1>7 DEF PushJobToSerializer, ReservedInv
<1>8. ASSUME NEW t \in Threads, DoWork(t) \/ CheckReservedJob(t) \/ CheckEnd(t) PROVE OrderInv'
  BY <1>3, <1>8 DEF DoWork, DoJobs, CheckReservedJob, CheckEnd, Entering, reserveVars, vars, pushVars
<1>9. ASSUME NEW t \in Threads, NEW j \in Jobs, NEW at, PushReservableJob(t, j, at) PROVE OrderInv'
  BY <1>3, <1>9 DEF PushReservableJob, Entering, vars, pushVars
<1>10. CASE Tick \/ (\E j \in Jobs : Cancel(j)) \/ UNCHANGED allVars
  BY <1>3, <1>10, Zenon DEF Tick, Cancel, allVars, reserveVars, Entering, vars, pushVars
<1> QED BY <1>1, <1>2, <1>4, <1>5, <1>6, <1>7, <1>8, <1>9, <1>10 DEF RNext, Continue

\* Ticks and canceled jobs are what RTypeOK says.
ClockInv ==
  /\ tick \in 0 .. MaxTick
  /\ nowTick \in [Threads -> 0 .. MaxTick]
  /\ \A j \in Reserved : executionTick[j] \in 0 .. MaxTick
  /\ canceled \subseteq Reserved

\* Every thread reads the clock, and a job's tick is set when it is reserved.
LEMMA ClockInvNext == ClockInv /\ [RNext]_allVars => ClockInv'
<1> SUFFICES ASSUME ClockInv, [RNext]_allVars PROVE ClockInv'
  OBVIOUS
<1>1. ASSUME NEW t \in Threads, NEW j \in Jobs, NEW at \in 0 .. MaxTick, PushReservableJob(t, j, at)
      PROVE  ClockInv'
  <2>1. /\ executionTick' = [k \in Reserved \cup {j} |-> IF k = j THEN at ELSE executionTick[k]]
        /\ UNCHANGED <<tick, nowTick, canceled>>
    BY <1>1 DEF PushReservableJob
  <2> QED BY <2>1 DEF ClockInv, Reserved
<1>2. CASE Tick
  BY <1>2, ReservablesAssumption DEF Tick, ClockInv, Reserved
<1>3. ASSUME NEW j \in Jobs, Cancel(j) PROVE ClockInv'
  BY <1>3 DEF Cancel, ClockInv, Reserved
<1>4. ASSUME NEW t \in Threads, CheckReservedJob(t) \/ CheckEnd(t) PROVE ClockInv'
  BY <1>4, ReservablesAssumption DEF CheckReservedJob, CheckEnd, ClockInv, Reserved
<1>5. CASE UNCHANGED <<tick, nowTick, executionTick, canceled>>
  BY <1>5 DEF ClockInv, Reserved
<1>6. ASSUME NEW t \in Threads, Continue(t), ~CheckEnd(t)
      PROVE  UNCHANGED <<tick, nowTick, executionTick, canceled>>
  BY <1>6, Zenon DEF Continue, SerializerStep, CheckPop, CheckCanceled, PushJobToSerializer
<1>7. ASSUME NEW t \in Threads, DoWork(t) \/ \E j \in Jobs : PushDirectly(t, j)
      PROVE  UNCHANGED <<tick, nowTick, executionTick, canceled>>
  BY <1>7 DEF DoWork, PushDirectly, reserveVars
<1>8. CASE UNCHANGED allVars
  BY <1>5, <1>8 DEF allVars, reserveVars
<1> QED BY <1>1, <1>2, <1>3, <1>4, <1>5, <1>6, <1>7, <1>8 DEF RNext

RInv == ReservedInv /\ CheckInv /\ PopInv /\ OrderInv /\ ClockInv

\* Before anything is reserved all of it holds.
LEMMA RInvInit == RInit => RInv
<1> SUFFICES ASSUME RInit PROVE RInv
  OBVIOUS
<1>1. <<>> \in Seq(Reservables) /\ Len(<<>>) = 0 /\ DOMAIN <<>> = {} /\ IsFiniteSet({})
  BY EmptySeq, FS_EmptySet
<1>2. ReservedInv
  BY <1>1 DEF RInit, ReservedInv
<1>3. CheckInv
  BY <1>1, Zenon DEF RInit, Init, CheckInv
<1>4. PopInv
  BY <1>1 DEF RInit, PopInv, Reserved, OnceEach
<1>5. OrderInv
  BY <1>1 DEF RInit, Init, OrderInv, Handled, Entering
<1>6. ClockInv
  BY <1>1, ReservablesAssumption DEF RInit, ClockInv, Reserved
<1> QED BY <1>2, <1>3, <1>4, <1>5, <1>6 DEF RInv

\* The parts of the invariant rest on each other.
LEMMA RInvNext == TypeOK /\ RInv /\ [RNext]_allVars => RInv'
BY ReservedInvNext, CheckInvNext, PopInvNext, OrderInvNext, ClockInvNext DEF RInv

\* It says that jobs entered in the order they were popped.
LEMMA RInvGives == TypeOK /\ RInv => TickOrderKept
<1> SUFFICES ASSUME TypeOK, RInv PROVE TickOrderKept
  OBVIOUS
<1>1. RTypeOK
  BY DEF RTypeOK, RInv, ReservedInv, CheckInv, PopInv, ClockInv
<1> QED BY <1>1 DEF TickOrderKept, RInv, OrderInv

\* Reserved jobs enter their serializer in the order they left _reservableQueue,
\* whichever threads check the queue and execute what they push (JobWorker.cpp:20-60).
THEOREM ReservedEnterInOrder == RSpec => []TickOrderKept
<1>1. OneHolder => TypeOK
  BY DEF OneHolder
<1> QED BY <1>1, ReservedHaveOneHolder, RInvInit, RInvNext, RInvGives, PTL DEF RSpec

-----------------------------------------------------------------------------
\* Job j is canceled, and no thread has tested it before that and is about to push it.
Out(j) == j \in canceled /\ j \notin pushed /\ ~Chosen(j)

\* The only push of a reserved job is that of a thread that has tested it.
LEMMA OutStaysOut ==
  ASSUME NEW j \in Reservables, ReservedInv, Out(j), [RNext]_allVars
  PROVE  Out(j)'
<1>1. ASSUME NEW t \in Threads, CheckPop(t) PROVE Out(j)'
  <2>1. /\ checkAt[t] = "pop" /\ checkAt' = [checkAt EXCEPT ![t] = "loop"]
        /\ \E q : due' = [due EXCEPT ![t] = q]
        /\ UNCHANGED <<pushed, canceled>>
    BY <1>1, Zenon DEF CheckPop, vars
  <2> QED BY <2>1 DEF Out, Chosen, ReservedInv
<1>2. ASSUME NEW t \in Threads, CheckCanceled(t) PROVE Out(j)'
  BY <1>2 DEF CheckCanceled, NotCanceled, Out, Chosen, ReservedInv, vars
<1>3. ASSUME NEW t \in Threads, PushJobToSerializer(t) PROVE Out(j)'
  BY <1>3 DEF PushJobToSerializer, Push, Out, Chosen, ReservedInv
<1>4. ASSUME NEW t \in Threads, CheckEnd(t) \/ CheckReservedJob(t) PROVE Out(j)'
  BY <1>4 DEF CheckEnd, CheckReservedJob, Out, Chosen, ReservedInv, vars
<1>5. ASSUME UNCHANGED <<checkAt, due, pushed>>, canceled \subseteq canceled' PROVE Out(j)'
  BY <1>5 DEF Out, Chosen
<1>6. ASSUME NEW t \in Threads, SerializerStep(t) PROVE UNCHANGED <<checkAt, due, pushed, canceled>>
  BY <1>6, Zenon DEF SerializerStep, Proceed, PushJobs, PushHandOff, ExecuteClear, ExecuteNext,
                     ExecuteReturn, ExecuteSub, ExecuteAgain, ExecuteHandOff
<1>7. ASSUME NEW t \in Threads, NEW k \in Jobs, PushDirectly(t, k) PROVE Out(j)'
  BY <1>7 DEF PushDirectly, Push, Out, Chosen, reserveVars
<1>8. ASSUME NEW t \in Threads, DoWork(t) PROVE UNCHANGED <<checkAt, due, pushed, canceled>>
  BY <1>8 DEF DoWork, DoJobs, reserveVars
<1>9. ASSUME NEW t \in Threads, NEW k \in Jobs, NEW at, PushReservableJob(t, k, at)
      PROVE  UNCHANGED <<checkAt, due, pushed, canceled>>
  BY <1>9 DEF PushReservableJob, vars
<1>10. ASSUME NEW k \in Jobs, Cancel(k) PROVE Out(j)'
  BY <1>5, <1>10 DEF Cancel, vars
<1>11. CASE Tick \/ UNCHANGED allVars
  BY <1>5, <1>11 DEF Tick, allVars, reserveVars, vars
<1> QED BY <1>1, <1>2, <1>3, <1>4, <1>5, <1>6, <1>7, <1>8, <1>9, <1>10, <1>11 DEF RNext, Continue

\* A reserved job that is canceled before a thread has tested it is never pushed
\* (ReservableJob.cpp:3-16).
THEOREM CanceledIsNotPushed == RSpec => CanceledStaysOut
<1>1. ASSUME NEW j \in Reservables
      PROVE  RSpec => [](j \in canceled /\ j \notin pushed /\ ~Chosen(j) => [](j \notin pushed))
  <2>1. ReservedInv /\ Out(j) /\ [RNext]_allVars => Out(j)'
    BY OutStaysOut
  <2>2. /\ j \in canceled /\ j \notin pushed /\ ~Chosen(j) => Out(j)
        /\ Out(j) => j \notin pushed
    BY DEF Out
  <2>3. RInit => ReservedInv
    BY RInvInit DEF RInv
  <2> QED BY <2>1, <2>2, <2>3, ReservedInvNext, PTL DEF RSpec
<1> QED BY <1>1 DEF CanceledStaysOut
=============================================================================
