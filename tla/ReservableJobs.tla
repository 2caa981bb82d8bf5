--------------------------- MODULE ReservableJobs ---------------------------
(***************************************************************************)
(* Reserved jobs (ReservableJob.h/.cpp and the reservable half of          *)
(* GlobalJobWorker), on top of the serializers they end up in.             *)
(*                                                                         *)
(* A reserved job waits in _reservableQueue for its tick; the one thread   *)
(* that won _executingReservables takes the jobs that are due and pushes   *)
(* them.  Such a Push may execute the serializer on the spot, which is why *)
(* the thread goes through all the steps of JobSerializer before it takes  *)
(* the next job.  PushReservableJob gives the job a shared pointer to its  *)
(* serializer, so the owner a reserved job is pushed to is alive.          *)
(***************************************************************************)
EXTENDS JobSerializer, Functions

CONSTANTS
  Reservables,   \* the jobs that are reserved, the others are pushed directly
  MaxTick,       \* bound: the last tick
  MaxDirect      \* bound: how many of the others

ASSUME ReservablesAssumption ==
  /\ Reservables \subseteq Jobs
  /\ MaxTick \in Nat /\ MaxDirect \in Nat

VARIABLES
  tick,                  \* GetTickCount64()
  reservableQueue,       \* _reservableQueue, a set: its order is the ticks'
  executionTick,         \* _executionTick of every reserved job
  canceled,              \* jobs whose Cancel was called
  executingReservables,  \* _executingReservables
  checkAt,               \* where a thread is in CheckReservedJob
  nowTick,               \* its argument
  due,                   \* its local jobs, those not handled yet
  popped,                \* history: the order in which jobs left the queue
  entered                \* history: the order in which they entered _jobs

reserveVars == <<tick, reservableQueue, executionTick, canceled,
                 executingReservables, checkAt, nowTick, due, popped, entered>>
allVars == <<vars, reserveVars>>

Reserved == DOMAIN executionTick

RInit ==
  /\ Init
  /\ tick = 0
  /\ reservableQueue = {}
  /\ executionTick = <<>>
  /\ canceled = {}
  /\ executingReservables = FALSE
  /\ checkAt = [t \in Threads |-> "no"]
  /\ nowTick = [t \in Threads |-> 0]
  /\ due = [t \in Threads |-> <<>>]
  /\ popped = <<>>
  /\ entered = <<>>

\* A thread in user code: outside of the library, or inside a job's body.
InUserCode(t) == (AtRest(t) /\ checkAt[t] = "no") \/ InJob(t)

-----------------------------------------------------------------------------
Tick ==
  /\ tick < MaxTick
  /\ tick' = tick + 1
  /\ UNCHANGED <<vars, reservableQueue, executionTick, canceled,
                 executingReservables, checkAt, nowTick, due, popped, entered>>

\* PushReservableJob and AddReservableJob.  The tick may have gone on since it was
\* read.
PushReservableJob(t, j, at) ==
  /\ InUserCode(t)
  /\ j \in Reservables \ Reserved
  /\ executionTick' = [k \in Reserved \cup {j} |-> IF k = j THEN at ELSE executionTick[k]]
  /\ reservableQueue' = reservableQueue \cup {j}
  /\ UNCHANGED <<vars, tick, canceled, executingReservables, checkAt, nowTick, due,
                 popped, entered>>

Cancel(j) ==
  /\ j \in Reserved \ canceled
  /\ canceled' = canceled \cup {j}
  /\ UNCHANGED <<vars, tick, reservableQueue, executionTick, executingReservables,
                 checkAt, nowTick, due, popped, entered>>

\* Mutants: the result of the exchange is not tested, nor is _canceled, and the
\* flag is not given back.
ExchangeIgnored == TRUE
PushedAnyway(j) == TRUE
StoreForgotten == executingReservables

Exchange == ~executingReservables
NotCanceled(j) == j \notin canceled
StoreFalse == FALSE

\* CheckReservedJob: the exchange.  A thread that loses it returns at once.
CheckReservedJob(t) ==
  /\ AtRest(t) /\ checkAt[t] = "no"
  /\ Exchange
  /\ executingReservables' = TRUE
  /\ nowTick' = [nowTick EXCEPT ![t] = tick]
  /\ checkAt' = [checkAt EXCEPT ![t] = "pop"]
  /\ UNCHANGED <<vars, tick, reservableQueue, executionTick, canceled, due, popped,
                 entered>>

\* The jobs that are due are popped, earliest first; equal ticks in any order.
ByTick(q) ==
  \A i, k \in DOMAIN q : i < k => executionTick[q[i]] <= executionTick[q[k]]

CheckPop(t) ==
  LET ripe == {j \in reservableQueue : executionTick[j] <= nowTick[t]} IN
  /\ checkAt[t] = "pop"
  /\ \E q \in Bijection(1 .. Cardinality(ripe), ripe) :
       /\ ByTick(q)
       /\ due' = [due EXCEPT ![t] = q]
       /\ popped' = popped \o q
  /\ reservableQueue' = reservableQueue \ ripe
  /\ checkAt' = [checkAt EXCEPT ![t] = "loop"]
  /\ UNCHANGED <<vars, tick, executionTick, canceled, executingReservables, nowTick,
                 entered>>

\* PushJobToSerializer: the test of _canceled.
CheckCanceled(t) ==
  /\ AtRest(t) /\ checkAt[t] = "loop" /\ due[t] # <<>>
  /\ \/ /\ ~NotCanceled(Head(due[t]))
        /\ due' = [due EXCEPT ![t] = Tail(@)]
        /\ UNCHANGED checkAt
     \/ /\ NotCanceled(Head(due[t]))
        /\ checkAt' = [checkAt EXCEPT ![t] = "push"]
        /\ UNCHANGED due
  /\ UNCHANGED <<vars, tick, reservableQueue, executionTick, canceled,
                 executingReservables, nowTick, popped, entered>>

\* PushJobToSerializer: owner->Push, which starts with its fetch_add.
PushJobToSerializer(t) ==
  /\ checkAt[t] = "push"
  /\ Push(t, Head(due[t]))
  /\ due' = [due EXCEPT ![t] = Tail(@)]
  /\ checkAt' = [checkAt EXCEPT ![t] = "loop"]
  /\ UNCHANGED <<tick, reservableQueue, executionTick, canceled,
                 executingReservables, nowTick, popped, entered>>

\* _executingReservables.store(false).
CheckEnd(t) ==
  /\ AtRest(t) /\ checkAt[t] = "loop" /\ due[t] = <<>>
  /\ executingReservables' = StoreFalse
  /\ checkAt' = [checkAt EXCEPT ![t] = "no"]
  /\ nowTick' = [nowTick EXCEPT ![t] = 0]
  /\ UNCHANGED <<vars, tick, reservableQueue, executionTick, canceled, due, popped,
                 entered>>

\* The steps of JobSerializer.
SerializerStep(t) ==
  /\ Proceed(t)
  /\ entered' = IF pushAt[t] = "queue" /\ pushing[t] \in Reservables
                  THEN Append(entered, pushing[t]) ELSE entered
  /\ UNCHANGED <<tick, reservableQueue, executionTick, canceled,
                 executingReservables, checkAt, nowTick, due, popped>>

DoWork(t) ==
  /\ checkAt[t] = "no"
  /\ DoJobs(t)
  /\ UNCHANGED reserveVars

PushDirectly(t, j) ==
  /\ InUserCode(t) /\ j \notin Reservables
  /\ Cardinality(pushed \ Reservables) < MaxDirect
  /\ Push(t, j)
  /\ UNCHANGED reserveVars

Continue(t) ==
  \/ SerializerStep(t)
  \/ CheckPop(t)
  \/ CheckCanceled(t)
  \/ PushJobToSerializer(t)
  \/ CheckEnd(t)

RNext ==
  \/ Tick
  \/ \E j \in Jobs : Cancel(j)
  \/ \E t \in Threads :
       \/ Continue(t)
       \/ DoWork(t)
       \/ CheckReservedJob(t)
       \/ \E j \in Jobs : PushDirectly(t, j)
       \/ \E j \in Jobs, at \in 0 .. MaxTick : PushReservableJob(t, j, at)

RSpec == RInit /\ [][RNext]_allVars

\* Time passes, and the worker threads call CheckReservedJob and DoJobs in turn
\* in their loop, so neither call keeps them from the other.  A worker may lose
\* the exchange for ever to another thread, but then that thread checks the
\* queue again and again.
RLiveSpec ==
  /\ RSpec
  /\ WF_allVars(Tick)
  /\ \A t \in Threads : WF_allVars(Continue(t))
  /\ \A t \in Workers : SF_allVars(DoWork(t)) /\ WF_allVars(CheckReservedJob(t))

-----------------------------------------------------------------------------
RTypeOK ==
  /\ TypeOK
  /\ tick \in 0 .. MaxTick
  /\ Reserved \subseteq Reservables
  /\ \A j \in Reserved : executionTick[j] \in 0 .. MaxTick
  /\ reservableQueue \cup canceled \subseteq Reserved
  /\ executingReservables \in BOOLEAN
  /\ checkAt \in [Threads -> {"no", "pop", "loop", "push"}]
  /\ nowTick \in [Threads -> 0 .. MaxTick]
  /\ due \in [Threads -> Seq(Reservables)]

PositionIn(q, j) == CHOOSE i \in DOMAIN q : q[i] = j

\* Reserved jobs of one serializer enter it in the order they left the
\* reservable queue, that is by tick, although any thread may check the queue
\* (JobWorker.cpp:20, 48).
TickOrderKept ==
  RTypeOK /\ \A i, k \in DOMAIN entered :
    i < k /\ Target[entered[i]] = Target[entered[k]]
    => PositionIn(popped, entered[i]) < PositionIn(popped, entered[k])

\* A job that is canceled while it waits, in the queue or among the jobs a
\* thread has taken but not tested, is never pushed (ReservableJob.cpp:7).
Chosen(j) == \E t \in Threads : checkAt[t] = "push" /\ Head(due[t]) = j

CanceledStaysOut ==
  \A j \in Reservables :
    [](j \in canceled /\ j \notin pushed /\ ~Chosen(j) => [](j \notin pushed))

\* What the comment on Cancel says: a job that is canceled will not be added
\* to its serializer (ReservableJob.h:54).
CancelStopsPush ==
  [][\A j \in canceled : j \notin pushed => j \notin pushed']_allVars

\* A reserved job that nobody cancels is executed.
ReservedIsExecuted ==
  \A j \in Reservables : j \in Reserved ~> (j \in executed \/ j \in canceled)
=============================================================================
