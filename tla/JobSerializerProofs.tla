------------------------ MODULE JobSerializerProofs ------------------------
(***************************************************************************)
(* Proofs about JobSerializer, for any finite set of threads and any sets  *)
(* of serializers and jobs.  OneHolder and CountAccounts                   *)
(* are proved together: without the holder nobody knows that the count     *)
(* taken off belongs to the one batch there is, and without the count a    *)
(* fetch_sub could leave a serializer with jobs to nobody.  IInv adds what *)
(* a thread's locals say about where it is, and where every job is.        *)
(***************************************************************************)
EXTENDS JobSerializer, FiniteSetTheorems, SequenceTheorems, TLAPS

Control ==
  \A t \in Threads :
    /\ execAt[t] = "no" <=> TLS_CurrentJobSerializer[t] = NULL
    /\ execAt[t] = "body" => batch[t] # <<>>
    /\ execAt[t] \in {"no", "clear", "sub", "again"} => batch[t] = <<>>
    /\ pushAt[t] = "no" <=> pushing[t] = NULL
    /\ pushAt[t] = "hand" => prevCount[t] = 0

Free(s) == Executors(s) = {} /\ Starters(s) = {} /\ Places(s) = {}

HeldOnce(s) ==
  \/ \E t \in Threads : Executors(s) = {t} /\ Starters(s) = {} /\ Places(s) = {}
  \/ \E t \in Threads : Executors(s) = {} /\ Starters(s) = {t} /\ Places(s) = {}
  \/ \E i \in Nat : Executors(s) = {} /\ Starters(s) = {} /\ Places(s) = {i}

HolderInv ==
  \A s \in Serializers : IF queuedCount[s] = 0 THEN Free(s) ELSE HeldOnce(s)

Announced(s) == Len(jobs[s]) + Cardinality(Pending(s))
TakenBy(t) == IF execAt[t] \in {"next", "body", "sub"} THEN currentCount[t] ELSE 0

CountInv ==
  \A s \in Serializers :
    /\ Executors(s) = {} => queuedCount[s] = Announced(s)
    /\ \A t \in Executors(s) : queuedCount[s] = Announced(s) + TakenBy(t)

IInv == TypeOK /\ Control /\ HolderInv /\ CountInv

-----------------------------------------------------------------------------
\* Sets with at most one element: their size, and what CHOOSE finds.
LEMMA ChooseOnly ==
  ASSUME NEW S, NEW x, S = {x}
  PROVE  (CHOOSE y \in S : TRUE) = x
OBVIOUS

\* The threads inside Push of a serializer are finitely many.
LEMMA PendingFinite == \A s : IsFiniteSet(Pending(s)) /\ Cardinality(Pending(s)) \in Nat
<1> TAKE s
<1>1. Pending(s) \in SUBSET Threads
  BY DEF Pending
<1> QED BY <1>1, JobsAssumption, FS_Subset, FS_CardinalityType

\* The inductive invariant says what the two properties say: of a serializer that is
\* accounted for there is one holder, and its count is what is queued and taken.
LEMMA IInvGives == IInv => OneHolder /\ CountAccounts
<1> SUFFICES ASSUME IInv PROVE OneHolder /\ CountAccounts
  OBVIOUS
<1>1. OneHolder
  <2> SUFFICES ASSUME NEW s \in Serializers
               PROVE  Cardinality(Executors(s)) + Cardinality(Starters(s)) + Cardinality(Places(s))
                        = IF queuedCount[s] = 0 THEN 0 ELSE 1
    BY DEF OneHolder, IInv
  <2>1. Cardinality({}) = 0 /\ \A x : Cardinality({x}) = 1
    BY FS_EmptySet, FS_Singleton
  <2>2. IF queuedCount[s] = 0 THEN Free(s) ELSE HeldOnce(s)
    BY DEF IInv, HolderInv
  <2>3. CASE queuedCount[s] = 0
    BY <2>1, <2>2, <2>3 DEF Free
  <2>4. CASE queuedCount[s] # 0
    <3>1. HeldOnce(s)
      BY <2>2, <2>4
    <3>2. CASE \E t \in Threads : Executors(s) = {t} /\ Starters(s) = {} /\ Places(s) = {}
      <4>1. Cardinality(Executors(s)) = 1
        BY <2>1, <3>2
      <4> QED BY <2>1, <2>4, <3>2, <4>1
    <3>3. CASE \E t \in Threads : Executors(s) = {} /\ Starters(s) = {t} /\ Places(s) = {}
      <4>1. Cardinality(Starters(s)) = 1
        BY <2>1, <3>3, Zenon
      <4> QED BY <2>1, <2>4, <3>3, <4>1
    <3>4. CASE \E i \in Nat : Executors(s) = {} /\ Starters(s) = {} /\ Places(s) = {i}
      <4>1. Cardinality(Places(s)) = 1
        BY <2>1, <3>4
      <4> QED BY <2>1, <2>4, <3>4, <4>1
    <3> QED BY <3>1, <3>2, <3>3, <3>4 DEF HeldOnce
  <2> QED BY <2>3, <2>4
<1>2. CountAccounts
  <2> SUFFICES ASSUME NEW s \in Serializers
               PROVE  queuedCount[s] = Len(jobs[s]) + Cardinality(Pending(s))
                        + IF \E t \in Executors(s) : execAt[t] \in {"next", "body", "sub"}
                          THEN currentCount[CHOOSE t \in Executors(s) : TRUE]
                          ELSE 0
    BY DEF CountAccounts
  <2>1. /\ Executors(s) = {} => queuedCount[s] = Announced(s)
        /\ \A t \in Executors(s) : queuedCount[s] = Announced(s) + TakenBy(t)
    BY DEF IInv, CountInv
  <2>2. Executors(s) = {} \/ \E t \in Threads : Executors(s) = {t}
    BY DEF IInv, HolderInv, Free, HeldOnce
  <2>3. Announced(s) = Len(jobs[s]) + Cardinality(Pending(s)) /\ Announced(s) \in Nat
    BY PendingFinite, LenProperties DEF Announced, IInv, TypeOK
  <2>4. CASE Executors(s) = {}
    BY <2>1, <2>3, <2>4
  <2>5. ASSUME NEW t \in Threads, Executors(s) = {t}
        PROVE  queuedCount[s] = Len(jobs[s]) + Cardinality(Pending(s))
                 + IF \E u \in Executors(s) : execAt[u] \in {"next", "body", "sub"}
                   THEN currentCount[CHOOSE u \in Executors(s) : TRUE]
                   ELSE 0
    <3>1. (CHOOSE u \in Executors(s) : TRUE) = t
      BY <2>5, ChooseOnly
    <3> QED BY <2>1, <2>3, <2>5, <3>1 DEF TakenBy
  <2> QED BY <2>2, <2>4, <2>5, Zenon
<1> QED BY <1>1, <1>2

\* Constructed serializers with empty queues satisfy the invariant.
LEMMA IInvInit == Init => IInv
<1> SUFFICES ASSUME Init PROVE IInv
  OBVIOUS
<1> USE DEF Init
<1>1. TypeOK
  <2>1. jobs \in [Serializers -> Seq(Jobs)] /\ batch \in [Threads -> Seq(Jobs)]
    BY EmptySeq
  <2>2. jobQueue \in Seq(Serializers)
    BY EmptySeq
  <2> QED BY <2>1, <2>2 DEF TypeOK, ExecControl, PushControl
<1>2. Control
  BY DEF Control
<1>3. \A s \in Serializers : Free(s) /\ Pending(s) = {}
  BY JobsAssumption DEF Free, Executors, Starters, Places, Pending
<1>4. HolderInv
  BY <1>3 DEF HolderInv
<1>5. CountInv
  <2>1. \A s \in Serializers : Announced(s) = 0
    <3> TAKE s \in Serializers
    <3>1. Len(jobs[s]) = 0
      OBVIOUS
    <3>2. Cardinality(Pending(s)) = 0
      BY <1>3, FS_EmptySet, Zenon
    <3> QED BY <3>1, <3>2 DEF Announced
  <2> QED BY <1>3, <2>1 DEF CountInv, Free
<1> QED BY <1>1, <1>2, <1>4, <1>5 DEF IInv
-----------------------------------------------------------------------------
\* Push announces its job, and takes charge if it found the count at 0.
LEMMA PushKeeps ==
  ASSUME IInv, NEW t \in Threads, NEW j \in Jobs, Push(t, j)
  PROVE  IInv'
<1> DEFINE r == Target[j]
<1>0. /\ r \in Serializers /\ j # NULL
      /\ pushAt[t] = "no" /\ pushing[t] = NULL
  BY JobsAssumption DEF Push, AtRest, InJob, IInv, Control
<1>1. TypeOK'
  BY <1>0 DEF Push, IInv, TypeOK, execVars, PushControl
<1>2. Control'
  BY <1>0 DEF Push, IInv, TypeOK, Control, execVars
<1>3. \A s \in Serializers :
        /\ Executors(s)' = Executors(s) /\ Places(s)' = Places(s)
        /\ Starters(s)' = IF s = r /\ queuedCount[r] = 0 THEN Starters(s) \cup {t} ELSE Starters(s)
        /\ Pending(s)' = IF s = r THEN Pending(s) \cup {t} ELSE Pending(s)
        /\ t \notin Pending(s)
  <2> TAKE s \in Serializers
  <2>1. Executors(s)' = Executors(s) /\ Places(s)' = Places(s)
    BY DEF Push, execVars, Executors, Places
  <2>2. Starters(s)' = IF s = r /\ queuedCount[r] = 0 THEN Starters(s) \cup {t} ELSE Starters(s)
    BY <1>0 DEF Push, Starters, IInv, TypeOK
  <2>3. Pending(s)' = IF s = r THEN Pending(s) \cup {t} ELSE Pending(s)
    BY <1>0 DEF Push, Pending, IInv, TypeOK
  <2> QED BY <1>0, <2>1, <2>2, <2>3 DEF Pending
<1>4. queuedCount' = [queuedCount EXCEPT ![r] = @ + 1] /\ queuedCount \in [Serializers -> Nat]
  BY DEF Push, IInv, TypeOK
<1> HIDE DEF r
<1>5. HolderInv'
  <2> SUFFICES ASSUME NEW s \in Serializers
               PROVE  IF queuedCount'[s] = 0 THEN Free(s)' ELSE HeldOnce(s)'
    BY DEF HolderInv
  <2>1. IF queuedCount[s] = 0 THEN Free(s) ELSE HeldOnce(s)
    BY DEF IInv, HolderInv
  <2>2. CASE s = r /\ queuedCount[r] = 0
    BY <1>0, <1>3, <1>4, <2>1, <2>2 DEF Free, HeldOnce
  <2>3. CASE ~(s = r /\ queuedCount[r] = 0)
    <3>1. queuedCount'[s] = 0 <=> queuedCount[s] = 0
      BY <1>0, <1>4, <2>3
    <3> QED BY <1>3, <2>1, <2>3, <3>1 DEF Free, HeldOnce
  <2> QED BY <2>2, <2>3
<1>6. CountInv'
  <2> SUFFICES ASSUME NEW s \in Serializers
               PROVE  /\ Executors(s)' = {} => queuedCount'[s] = Announced(s)'
                      /\ \A u \in Executors(s)' : queuedCount'[s] = Announced(s)' + TakenBy(u)'
    BY DEF CountInv
  <2>1. Announced(s)' = IF s = r THEN Announced(s) + 1 ELSE Announced(s)
    <3>1. Cardinality(Pending(s)') = Cardinality(Pending(s)) + IF s = r THEN 1 ELSE 0
      BY <1>3, PendingFinite, FS_AddElement
    <3>2. jobs' = jobs /\ Len(jobs[s]) \in Nat /\ Cardinality(Pending(s)) \in Nat
      BY PendingFinite, LenProperties DEF Push, IInv, TypeOK
    <3> QED BY <3>1, <3>2 DEF Announced
  <2>2. \A u \in Executors(s) : TakenBy(u)' = TakenBy(u) /\ TakenBy(u) \in Nat
    BY DEF Push, execVars, Executors, TakenBy, IInv, TypeOK
  <2>3. Announced(s) \in Nat
    BY PendingFinite, LenProperties DEF Announced, IInv, TypeOK
  <2> QED BY <1>0, <1>3, <1>4, <2>1, <2>2, <2>3 DEF IInv, CountInv
<1> QED BY <1>1, <1>2, <1>5, <1>6 DEF IInv

\* The job enters _jobs.  A thread that pushed to an idle serializer outside of
\* ExecuteJobs turns from its starter into its executor.
LEMMA PushJobsKeeps ==
  ASSUME IInv, NEW t \in Threads, PushJobs(t)
  PROVE  IInv'
<1> DEFINE r == Target[pushing[t]]
           Enters == First(t) /\ TLS_CurrentJobSerializer[t] = NULL
<1>0. /\ r \in Serializers /\ pushing[t] \in Jobs /\ r # NULL
      /\ pushAt[t] = "queue" /\ jobs' = [jobs EXCEPT ![r] = Append(@, pushing[t])]
      /\ queuedCount' = queuedCount
  BY JobsAssumption DEF PushJobs, IInv, Control, TypeOK
<1>1. TypeOK'
  <2>1. jobs' \in [Serializers -> Seq(Jobs)]
    BY <1>0, AppendProperties DEF IInv, TypeOK
  <2>2. UNCHANGED execVars \/ BeginExecute(t, r)
    BY DEF PushJobs
  <2>3. /\ TLS_CurrentJobSerializer' \in [Threads -> Serializers \cup {NULL}]
        /\ execAt' \in [Threads -> ExecControl] /\ batch' \in [Threads -> Seq(Jobs)]
        /\ currentCount' \in [Threads -> Nat]
    BY <1>0, <2>2, Zenon DEF BeginExecute, execVars, IInv, TypeOK, ExecControl
  <2>4. EndPush(t) \/ (pushAt' = [pushAt EXCEPT ![t] = "hand"] /\ UNCHANGED <<pushing, prevCount>>)
    BY DEF PushJobs
  <2>5. /\ pushAt' \in [Threads -> PushControl] /\ pushing' \in [Threads -> Jobs \cup {NULL}]
        /\ prevCount' \in [Threads -> Nat]
    <3>1. /\ pushAt \in [Threads -> PushControl] /\ pushing \in [Threads -> Jobs \cup {NULL}]
          /\ prevCount \in [Threads -> Nat]
      BY DEF IInv, TypeOK
    <3> QED BY <2>4, <3>1 DEF EndPush, PushControl
  <2> QED BY <1>0, <2>1, <2>3, <2>5, Zenon DEF PushJobs, IInv, TypeOK
<1>2. Control'
  <2> USE DEF IInv, TypeOK, Control
  <2>1. CASE ~First(t)
    BY <1>0, <2>1, Zenon DEF PushJobs, EndPush, execVars
  <2>2. CASE Enters
    <3>1. EndPush(t) /\ BeginExecute(t, r) /\ execAt[t] = "no"
      BY <2>2 DEF PushJobs
    <3> HIDE DEF r
    <3> QED BY <1>0, <3>1 DEF EndPush, BeginExecute
  <2>3. CASE First(t) /\ ~Enters
    BY <1>0, <2>3 DEF PushJobs, execVars, First
  <2> QED BY <2>1, <2>2, <2>3
<1>3. \A s \in Serializers :
        /\ Places(s)' = Places(s)
        /\ Executors(s)' = IF s = r /\ Enters THEN Executors(s) \cup {t} ELSE Executors(s)
        /\ Starters(s)' = IF s = r /\ Enters THEN Starters(s) \ {t} ELSE Starters(s)
        /\ Pending(s)' = IF s = r THEN Pending(s) \ {t} ELSE Pending(s)
        /\ t \in Pending(r)
        /\ Enters => t \in Starters(r)
  <2> TAKE s \in Serializers
  <2>1. Places(s)' = Places(s)
    BY DEF PushJobs, Places
  <2>2. Executors(s)' = IF s = r /\ Enters THEN Executors(s) \cup {t} ELSE Executors(s)
    BY <1>0, JobsAssumption DEF PushJobs, EndPush, BeginExecute, Executors, IInv, TypeOK, execVars
  <2>3. Starters(s)' = IF s = r /\ Enters THEN Starters(s) \ {t} ELSE Starters(s)
    BY <1>0 DEF PushJobs, EndPush, Starters, First, IInv, TypeOK
  <2>4. Pending(s)' = IF s = r THEN Pending(s) \ {t} ELSE Pending(s)
    BY <1>0, Zenon DEF PushJobs, EndPush, Pending, IInv, TypeOK
  <2>5. t \in Pending(r) /\ (Enters => t \in Starters(r))
    BY <1>0 DEF Pending, Starters, First
  <2> QED BY <2>1, <2>2, <2>3, <2>4, <2>5
<1>4. \A u \in Threads : IF u = t /\ Enters THEN TakenBy(u)' = 0 ELSE TakenBy(u)' = TakenBy(u)
  BY <1>0 DEF PushJobs, EndPush, BeginExecute, TakenBy, IInv, TypeOK, execVars
<1>5. \A s \in Serializers : Announced(s)' = Announced(s)
  <2> TAKE s \in Serializers
  <2>1. Cardinality(Pending(s)') = IF s = r THEN Cardinality(Pending(s)) - 1
                                            ELSE Cardinality(Pending(s))
    BY <1>3, PendingFinite, FS_RemoveElement
  <2>2. Len(jobs'[s]) = IF s = r THEN Len(jobs[s]) + 1 ELSE Len(jobs[s])
    BY <1>0, AppendProperties, LenProperties DEF IInv, TypeOK
  <2>3. Len(jobs[s]) \in Nat /\ Cardinality(Pending(s)) \in Nat
    BY PendingFinite, LenProperties DEF IInv, TypeOK
  <2>4. Announced(s)' = Len(jobs'[s]) + Cardinality(Pending(s)')
    BY DEF Announced
  <2>5. Announced(s) = Len(jobs[s]) + Cardinality(Pending(s))
    BY DEF Announced
  <2> QED BY <2>1, <2>2, <2>3, <2>4, <2>5
<1>6. Enters => Executors(r) = {} /\ Starters(r) = {t} /\ Places(r) = {}
  BY <1>0, <1>3 DEF IInv, HolderInv, Free, HeldOnce
<1> HIDE DEF r, Enters
<1>7. HolderInv'
  <2> SUFFICES ASSUME NEW s \in Serializers
               PROVE  IF queuedCount[s] = 0 THEN Free(s)' ELSE HeldOnce(s)'
    BY <1>0 DEF HolderInv
  <2>1. IF queuedCount[s] = 0 THEN Free(s) ELSE HeldOnce(s)
    BY DEF IInv, HolderInv
  <2>2. CASE s = r /\ Enters
    BY <1>3, <1>6, <2>1, <2>2 DEF Free, HeldOnce
  <2>3. CASE ~(s = r /\ Enters)
    BY <1>3, <2>1, <2>3 DEF Free, HeldOnce
  <2> QED BY <2>2, <2>3
<1>8. CountInv'
  <2> SUFFICES ASSUME NEW s \in Serializers
               PROVE  /\ Executors(s)' = {} => queuedCount[s] = Announced(s)'
                      /\ \A u \in Executors(s)' : queuedCount[s] = Announced(s)' + TakenBy(u)'
    BY <1>0 DEF CountInv
  <2>1. queuedCount[s] \in Nat /\ Executors(s) \subseteq Threads
    BY DEF Executors, IInv, TypeOK
  <2>2. CASE s = r /\ Enters
    BY <1>3, <1>4, <1>5, <1>6, <2>1, <2>2 DEF IInv, CountInv
  <2>3. CASE ~(s = r /\ Enters)
    <3>1. Enters => t \notin Executors(s)
      BY JobsAssumption DEF Enters, Executors
    <3> QED BY <1>3, <1>4, <1>5, <2>1, <2>3, <3>1 DEF IInv, CountInv
  <2> QED BY <2>2, <2>3
<1> QED BY <1>1, <1>2, <1>7, <1>8 DEF IInv

\* The starter of a serializer that cannot run it hands it to _jobQueue.
LEMMA PushHandOffKeeps ==
  ASSUME IInv, NEW t \in Threads, PushHandOff(t)
  PROVE  IInv'
<1> DEFINE r == Target[pushing[t]]
           n == Len(jobQueue) + 1
<1>0. /\ r \in Serializers /\ pushing[t] \in Jobs
      /\ pushAt[t] = "hand" /\ prevCount[t] = 0 /\ jobQueue' = Append(jobQueue, r)
      /\ UNCHANGED <<queuedCount, jobs, execVars>>
  BY JobsAssumption DEF PushHandOff, AddJobSerializer, IInv, Control, TypeOK
<1>1. TypeOK'
  <2>1. jobQueue' \in Seq(Serializers)
    BY <1>0, AppendProperties DEF IInv, TypeOK
  <2> QED BY <1>0, <2>1 DEF PushHandOff, EndPush, IInv, TypeOK, execVars, PushControl
<1>2. Control'
  BY <1>0 DEF PushHandOff, EndPush, IInv, TypeOK, Control, execVars
<1>3. \A s \in Serializers :
        /\ Places(s)' = IF s = r THEN Places(s) \cup {n} ELSE Places(s)
        /\ Executors(s)' = Executors(s)
        /\ Starters(s)' = IF s = r THEN Starters(s) \ {t} ELSE Starters(s)
        /\ Pending(s)' = Pending(s)
  <2> TAKE s \in Serializers
  <2>1. Places(s)' = IF s = r THEN Places(s) \cup {n} ELSE Places(s)
    <3>1. /\ jobQueue \in Seq(Serializers) /\ Len(jobQueue) \in Nat
          /\ DOMAIN jobQueue = 1 .. Len(jobQueue) /\ DOMAIN jobQueue' = 1 .. n
      BY <1>0, AppendProperties, LenProperties DEF IInv, TypeOK
    <3>2. jobQueue'[n] = r /\ \A i \in 1 .. Len(jobQueue) : jobQueue'[i] = jobQueue[i]
      BY <1>0, <3>1, AppendProperties
    <3> HIDE DEF r
    <3> QED BY <3>1, <3>2 DEF Places
  <2>2. Executors(s)' = Executors(s)
    BY <1>0 DEF Executors, execVars
  <2>3. Starters(s)' = IF s = r THEN Starters(s) \ {t} ELSE Starters(s)
    BY <1>0 DEF PushHandOff, EndPush, Starters, IInv, TypeOK
  <2>4. Pending(s)' = Pending(s)
    BY <1>0 DEF PushHandOff, EndPush, Pending, IInv, TypeOK
  <2> QED BY <2>1, <2>2, <2>3, <2>4
<1>4. n \in Nat /\ Executors(r) = {} /\ Starters(r) = {t} /\ Places(r) = {} /\ queuedCount[r] # 0
  <2>1. t \in Starters(r) /\ n \in Nat
    BY <1>0, LenProperties DEF Starters, IInv, TypeOK
  <2> QED BY <1>0, <2>1 DEF IInv, HolderInv, Free, HeldOnce
<1> HIDE DEF r, n
<1>5. HolderInv'
  <2> SUFFICES ASSUME NEW s \in Serializers
               PROVE  IF queuedCount[s] = 0 THEN Free(s)' ELSE HeldOnce(s)'
    BY <1>0 DEF HolderInv
  <2>1. IF queuedCount[s] = 0 THEN Free(s) ELSE HeldOnce(s)
    BY DEF IInv, HolderInv
  <2>2. CASE s = r
    BY <1>3, <1>4, <2>2 DEF HeldOnce
  <2>3. CASE s # r
    BY <1>3, <2>1, <2>3 DEF Free, HeldOnce
  <2> QED BY <2>2, <2>3
<1>6. CountInv'
  BY <1>0, <1>3 DEF IInv, CountInv, Announced, TakenBy, execVars
<1> QED BY <1>1, <1>2, <1>5, <1>6 DEF IInv

\* A worker takes the first serializer of _jobQueue; the others move up.
LEMMA DoJobsKeeps ==
  ASSUME IInv, NEW t \in Threads, DoJobs(t)
  PROVE  IInv'
<1> PICK h : h = Head(jobQueue)
  OBVIOUS
<1>0. /\ jobQueue \in Seq(Serializers) /\ jobQueue # <<>> /\ jobQueue' = Tail(jobQueue)
      /\ h \in Serializers /\ h # NULL /\ h = jobQueue[1] /\ Len(jobQueue) \in Nat \ {0}
      /\ jobQueue' \in Seq(Serializers)
      /\ DOMAIN jobQueue = 1 .. Len(jobQueue) /\ DOMAIN jobQueue' = 1 .. Len(jobQueue) - 1
      /\ \A i \in 1 .. Len(jobQueue) - 1 : jobQueue'[i] = jobQueue[i + 1]
  <2>1. jobQueue \in Seq(Serializers) /\ jobQueue # <<>> /\ jobQueue' = Tail(jobQueue)
    BY DEF DoJobs, Pop, IInv, TypeOK
  <2> QED BY <2>1, HeadTailProperties, EmptySeq, LenProperties, JobsAssumption
<1>a. /\ execAt[t] = "no" /\ TLS_CurrentJobSerializer[t] = NULL
      /\ BeginExecute(t, h) /\ UNCHANGED <<queuedCount, jobs, pushVars, pushed, executed>>
  BY DEF DoJobs, AtRest, IInv, Control
<1>1. TypeOK'
  BY <1>0, <1>a DEF BeginExecute, IInv, TypeOK, pushVars, ExecControl
<1>2. Control'
  BY <1>0, <1>a DEF BeginExecute, IInv, TypeOK, Control, pushVars
<1>3. \A s \in Serializers :
        /\ Executors(s)' = IF s = h THEN Executors(s) \cup {t} ELSE Executors(s)
        /\ Starters(s)' = Starters(s) /\ Pending(s)' = Pending(s)
        /\ t \notin Executors(s)
  <2> TAKE s \in Serializers
  <2>1. Executors(s)' = IF s = h THEN Executors(s) \cup {t} ELSE Executors(s)
    BY <1>0, <1>a, JobsAssumption DEF BeginExecute, Executors, IInv, TypeOK
  <2>2. Starters(s)' = Starters(s) /\ Pending(s)' = Pending(s)
    BY <1>a DEF Starters, Pending, pushVars
  <2> QED BY <1>a, <2>1, <2>2, JobsAssumption DEF Executors
<1>4. /\ Places(h) = {1} /\ Places(h)' = {} /\ Executors(h) = {} /\ Starters(h) = {}
      /\ queuedCount[h] # 0
  <2>1. 1 \in Places(h)
    BY <1>0 DEF Places
  <2>2. Places(h) = {1} /\ Executors(h) = {} /\ Starters(h) = {} /\ queuedCount[h] # 0
    BY <1>0, <2>1 DEF IInv, HolderInv, Free, HeldOnce
  <2>3. \A i \in 1 .. Len(jobQueue) - 1 : jobQueue'[i] # h
    <3> SUFFICES ASSUME NEW i \in 1 .. Len(jobQueue) - 1, jobQueue'[i] = h PROVE FALSE
      OBVIOUS
    <3>1. i + 1 \in Places(h)
      BY <1>0 DEF Places
    <3> QED BY <2>2, <3>1
  <2>4. Places(h)' = {}
    BY <1>0, <2>3 DEF Places
  <2> QED BY <2>2, <2>4
<1>5. ASSUME NEW s \in Serializers, s # h
      PROVE  /\ Places(s) = {} => Places(s)' = {}
             /\ \A i \in Nat : Places(s) = {i} => i - 1 \in Nat /\ Places(s)' = {i - 1}
  <2>1. \A i \in 1 .. Len(jobQueue) - 1 : i \in Places(s)' <=> i + 1 \in Places(s)
    BY <1>0 DEF Places
  <2>2. Places(s)' \subseteq 1 .. Len(jobQueue) - 1 /\ Places(s) \subseteq 2 .. Len(jobQueue)
    BY <1>0, <1>5 DEF Places
  <2>3. Places(s) = {} => Places(s)' = {}
    BY <1>0, <2>1, <2>2
  <2>4. ASSUME NEW i \in Nat, Places(s) = {i}
        PROVE  i - 1 \in Nat /\ Places(s)' = {i - 1}
    <3>1. i \in 2 .. Len(jobQueue)
      BY <2>2, <2>4
    <3>2. i - 1 \in Places(s)'
      BY <1>0, <2>1, <2>4, <3>1
    <3>3. \A k \in Places(s)' : k = i - 1
      BY <1>0, <2>1, <2>2, <2>4, <3>1
    <3> QED BY <3>1, <3>2, <3>3
  <2> QED BY <2>3, <2>4
<1>6. HolderInv'
  <2> SUFFICES ASSUME NEW s \in Serializers
               PROVE  IF queuedCount[s] = 0 THEN Free(s)' ELSE HeldOnce(s)'
    BY <1>a DEF HolderInv
  <2>1. IF queuedCount[s] = 0 THEN Free(s) ELSE HeldOnce(s)
    BY DEF IInv, HolderInv
  <2>2. CASE s = h
    BY <1>3, <1>4, <2>2 DEF HeldOnce
  <2>3. CASE s # h /\ queuedCount[s] = 0
    BY <1>3, <1>5, <2>1, <2>3 DEF Free
  <2>4. CASE s # h /\ queuedCount[s] # 0
    <3>1. CASE Places(s) = {}
      BY <1>3, <1>5, <2>1, <2>4, <3>1 DEF HeldOnce
    <3>2. ASSUME NEW i \in Nat, Places(s) = {i} PROVE HeldOnce(s)'
      <4>1. Executors(s) = {} /\ Starters(s) = {}
        BY <2>1, <2>4, <3>2 DEF HeldOnce
      <4> QED BY <1>3, <1>5, <2>4, <3>2, <4>1 DEF HeldOnce
    <3> QED BY <2>1, <2>4, <3>1, <3>2 DEF HeldOnce
  <2> QED BY <2>2, <2>3, <2>4
<1>7. CountInv'
  <2> SUFFICES ASSUME NEW s \in Serializers
               PROVE  /\ Executors(s)' = {} => queuedCount[s] = Announced(s)'
                      /\ \A u \in Executors(s)' : queuedCount[s] = Announced(s)' + TakenBy(u)'
    BY <1>a DEF CountInv
  <2>1. Announced(s)' = Announced(s) /\ queuedCount[s] \in Nat
    BY <1>a, <1>3 DEF Announced, IInv, TypeOK
  <2>2. TakenBy(t)' = 0
    BY <1>a DEF TakenBy, BeginExecute, IInv, TypeOK
  <2>3. \A u \in Threads : u # t => TakenBy(u)' = TakenBy(u)
    BY <1>a DEF TakenBy, BeginExecute, IInv, TypeOK
  <2>4. Executors(s) \subseteq Threads
    BY DEF Executors
  <2>5. CASE s = h
    BY <1>3, <1>4, <2>1, <2>2, <2>5 DEF IInv, CountInv
  <2>6. CASE s # h
    BY <1>3, <2>1, <2>3, <2>4, <2>6 DEF IInv, CountInv
  <2> QED BY <2>5, <2>6
<1> QED BY <1>1, <1>2, <1>6, <1>7 DEF IInv

\* The steps of ExecuteJobs between its beginning and its end leave the serializer
\* where it is.  Clear moves what was queued to the batch.
LEMMA ExecuteKeeps ==
  ASSUME IInv, NEW t \in Threads,
         ExecuteClear(t) \/ ExecuteNext(t) \/ ExecuteReturn(t) \/ ExecuteAgain(t)
  PROVE  IInv'
<1> DEFINE r == TLS_CurrentJobSerializer[t]
<1>0. /\ UNCHANGED <<queuedCount, jobQueue, TLS_CurrentJobSerializer, pushVars, pushed>>
      /\ r \in Serializers /\ execAt[t] \in {"clear", "next", "body", "again"}
  BY DEF ExecuteClear, ExecuteNext, ExecuteReturn, ExecuteAgain, InJob, IInv, Control, TypeOK
<1>1. \A s \in Serializers :
        /\ Executors(s)' = Executors(s) /\ Starters(s)' = Starters(s)
        /\ Places(s)' = Places(s) /\ Pending(s)' = Pending(s)
  BY <1>0 DEF Executors, Starters, Places, Pending, pushVars
<1>2. HolderInv'
  BY <1>0, <1>1 DEF IInv, HolderInv, Free, HeldOnce
<1>3. Executors(r) = {t}
  <2>1. t \in Executors(r)
    BY DEF Executors
  <2> QED BY <1>0, <2>1 DEF IInv, HolderInv, Free, HeldOnce
<1>4. \A s \in Serializers : s # r => t \notin Executors(s)
  BY DEF Executors
<1>5. CASE ExecuteClear(t)
  <2>1. /\ execAt[t] = "clear" /\ batch' = [batch EXCEPT ![t] = jobs[r]]
        /\ currentCount' = [currentCount EXCEPT ![t] = Len(jobs[r])]
        /\ jobs' = [jobs EXCEPT ![r] = <<>>] /\ execAt' = [execAt EXCEPT ![t] = "next"]
        /\ executed' = executed
    BY <1>5 DEF ExecuteClear, Taken
  <2>2. /\ jobs \in [Serializers -> Seq(Jobs)] /\ Len(jobs[r]) \in Nat
        /\ <<>> \in Seq(Jobs) /\ Len(<<>>) = 0
    BY <1>0, LenProperties, EmptySeq DEF IInv, TypeOK
  <2>3. TypeOK'
    <3>1. jobs' \in [Serializers -> Seq(Jobs)] /\ batch' \in [Threads -> Seq(Jobs)]
      BY <1>0, <2>1, <2>2 DEF IInv, TypeOK
    <3> QED BY <1>0, <2>1, <2>2, <3>1 DEF IInv, TypeOK, ExecControl, pushVars
  <2>4. Control'
    BY <1>0, <2>1 DEF IInv, TypeOK, Control, pushVars
  <2>5. CountInv'
    <3> SUFFICES ASSUME NEW s \in Serializers
                 PROVE  /\ Executors(s) = {} => queuedCount[s] = Announced(s)'
                        /\ \A u \in Executors(s) : queuedCount[s] = Announced(s)' + TakenBy(u)'
      BY <1>0, <1>1 DEF CountInv
    <3>1. \A u \in Threads : u # t => TakenBy(u)' = TakenBy(u)
      BY <2>1 DEF TakenBy, IInv, TypeOK
    <3>2. TakenBy(t) = 0 /\ TakenBy(t)' = Len(jobs[r])
      BY <2>1 DEF TakenBy, IInv, TypeOK
    <3>3. s # r => Announced(s)' = Announced(s)
      BY <1>1, <2>1, <2>2 DEF Announced
    <3>4. CASE s = r
      <4>1. Len(jobs'[s]) = 0 /\ Pending(s)' = Pending(s) /\ Cardinality(Pending(s)) \in Nat
        BY <1>0, <1>1, <2>1, <2>2, <3>4, PendingFinite
      <4>2. Announced(s) = Len(jobs[s]) + Cardinality(Pending(s)) /\ Announced(s)' = Cardinality(Pending(s))
        BY <4>1 DEF Announced
      <4>3. queuedCount[s] = Announced(s)
        <5>1. t \in Executors(s) /\ TakenBy(t) = 0 /\ Len(jobs[s]) \in Nat
          BY <1>3, <2>2, <3>2, <3>4
        <5>2. queuedCount[s] = Announced(s) + TakenBy(t)
          BY <5>1 DEF IInv, CountInv
        <5> HIDE DEF r
        <5> QED BY <4>1, <4>2, <5>1, <5>2
      <4>4. Executors(s) = {t} /\ TakenBy(t)' = Len(jobs[s]) /\ Len(jobs[s]) \in Nat
        BY <1>3, <2>2, <3>2, <3>4
      <4> HIDE DEF r
      <4> QED BY <4>1, <4>2, <4>3, <4>4
    <3>5. CASE s # r
      <4>1. Executors(s) \subseteq Threads \ {t}
        BY <1>4, <3>5 DEF Executors
      <4> QED BY <3>1, <3>3, <3>5, <4>1 DEF IInv, CountInv
    <3> QED BY <3>4, <3>5
  <2> QED BY <1>2, <2>3, <2>4, <2>5 DEF IInv
<1>6. CASE ExecuteNext(t) \/ ExecuteReturn(t) \/ ExecuteAgain(t)
  <2>1. UNCHANGED <<jobs, currentCount>>
    BY <1>6 DEF ExecuteNext, ExecuteReturn, ExecuteAgain
  <2>2. /\ batch' \in [Threads -> Seq(Jobs)] /\ executed' \subseteq Jobs
        /\ execAt' \in [Threads -> ExecControl]
    <3>1. CASE ExecuteReturn(t)
      <4>1. batch[t] \in Seq(Jobs) /\ batch[t] # <<>>
        BY <3>1 DEF ExecuteReturn, InJob, IInv, Control, TypeOK
      <4>2. Head(batch[t]) \in Jobs /\ Tail(batch[t]) \in Seq(Jobs)
        BY <4>1, HeadTailProperties
      <4> QED BY <3>1, <4>2 DEF ExecuteReturn, IInv, TypeOK, ExecControl
    <3>2. CASE ExecuteNext(t) \/ ExecuteAgain(t)
      BY <3>2, Zenon DEF ExecuteNext, ExecuteAgain, IInv, TypeOK, ExecControl
    <3> QED BY <1>6, <3>1, <3>2
  <2>3. TypeOK'
    BY <1>0, <2>1, <2>2 DEF IInv, TypeOK, pushVars
  <2>4. Control'
    BY <1>0, <1>6 DEF ExecuteNext, ExecuteReturn, ExecuteAgain, InJob, IInv, TypeOK, Control, pushVars
  <2>5. \A u \in Threads : TakenBy(u)' = TakenBy(u)
    BY <1>6 DEF ExecuteNext, ExecuteReturn, ExecuteAgain, InJob, TakenBy, IInv, TypeOK
  <2>6. \A s \in Serializers : Announced(s)' = Announced(s) /\ Executors(s) \subseteq Threads
    BY <1>1, <2>1, Zenon DEF Announced, Executors
  <2>7. CountInv'
    BY <1>0, <1>1, <2>5, <2>6 DEF IInv, CountInv
  <2> QED BY <1>2, <2>3, <2>4, <2>7 DEF IInv
<1> QED BY <1>5, <1>6

\* The count of the batch is taken off.  If nothing is left nobody has the
\* serializer; the next Push will find the count at 0.
LEMMA ExecuteSubKeeps ==
  ASSUME IInv, NEW t \in Threads, ExecuteSub(t)
  PROVE  IInv'
<1> PICK r : r = TLS_CurrentJobSerializer[t]
  OBVIOUS
<1> DEFINE Ends == queuedCount[r] = currentCount[t]
<1>0. /\ r \in Serializers /\ r # NULL /\ execAt[t] = "sub"
      /\ queuedCount' = [queuedCount EXCEPT ![r] = @ - currentCount[t]]
      /\ UNCHANGED <<jobs, jobQueue, batch, pushVars, pushed, executed>>
      /\ IF Ends THEN EndExecute(t)
                 ELSE /\ execAt' = [execAt EXCEPT ![t] = "again"]
                      /\ UNCHANGED <<currentCount, TLS_CurrentJobSerializer>>
  BY JobsAssumption DEF ExecuteSub, EndExecute, IInv, Control, TypeOK
<1>1. Executors(r) = {t} /\ Starters(r) = {} /\ Places(r) = {}
  <2>1. t \in Executors(r)
    BY DEF Executors
  <2> QED BY <1>0, <2>1 DEF IInv, HolderInv, Free, HeldOnce
<1>2. /\ queuedCount[r] = Announced(r) + currentCount[t]
      /\ Announced(r) \in Nat /\ currentCount[t] \in Nat /\ queuedCount \in [Serializers -> Nat]
  <2>1. Announced(r) \in Nat
    BY <1>0, PendingFinite, LenProperties DEF Announced, IInv, TypeOK
  <2>2. TakenBy(t) = currentCount[t] /\ currentCount[t] \in Nat /\ queuedCount \in [Serializers -> Nat]
    BY <1>0 DEF TakenBy, IInv, TypeOK
  <2> QED BY <1>0, <1>1, <2>1, <2>2 DEF IInv, CountInv
<1>3. \A s \in Serializers :
        /\ Executors(s)' = IF s = r /\ Ends THEN {} ELSE Executors(s)
        /\ Starters(s)' = Starters(s) /\ Places(s)' = Places(s) /\ Pending(s)' = Pending(s)
  <2> TAKE s \in Serializers
  <2>1. Starters(s)' = Starters(s) /\ Places(s)' = Places(s) /\ Pending(s)' = Pending(s)
    BY <1>0 DEF Starters, Places, Pending, pushVars
  <2>2. CASE ~Ends
    BY <1>0, <2>1, <2>2 DEF Executors
  <2>3. CASE Ends
    <3>1. Executors(s)' = Executors(s) \ {t}
      BY <1>0, <2>3, JobsAssumption DEF EndExecute, Executors, IInv, TypeOK
    <3>2. s # r => t \notin Executors(s)
      BY DEF Executors
    <3> QED BY <1>1, <2>1, <2>3, <3>1, <3>2
  <2> QED BY <2>2, <2>3
<1>4. TypeOK'
  <2>1. queuedCount' \in [Serializers -> Nat]
    BY <1>0, <1>2
  <2>2. /\ TLS_CurrentJobSerializer' \in [Threads -> Serializers \cup {NULL}]
        /\ execAt' \in [Threads -> ExecControl] /\ currentCount' \in [Threads -> Nat]
    <3>1. /\ TLS_CurrentJobSerializer \in [Threads -> Serializers \cup {NULL}]
          /\ execAt \in [Threads -> ExecControl] /\ currentCount \in [Threads -> Nat]
      BY DEF IInv, TypeOK
    <3>2. CASE Ends
      BY <1>0, <3>1, <3>2 DEF EndExecute, ExecControl
    <3>3. CASE ~Ends
      BY <1>0, <3>1, <3>3 DEF ExecControl
    <3> QED BY <3>2, <3>3
  <2> QED BY <1>0, <2>1, <2>2 DEF IInv, TypeOK, pushVars
<1>5. Control'
  <2>1. CASE Ends
    BY <1>0, <2>1 DEF EndExecute, IInv, TypeOK, Control, pushVars
  <2>2. CASE ~Ends
    BY <1>0, <2>2 DEF IInv, TypeOK, Control, pushVars
  <2> QED BY <2>1, <2>2
<1>6. \A u \in Threads : IF u = t THEN TakenBy(u)' = 0 ELSE TakenBy(u)' = TakenBy(u)
  BY <1>0 DEF EndExecute, TakenBy, IInv, TypeOK
<1>7. \A s \in Serializers : Announced(s)' = Announced(s) /\ Executors(s) \subseteq Threads
  BY <1>0, <1>3 DEF Announced, Executors
<1>8. \A s \in Serializers : s # r => t \notin Executors(s)
  BY DEF Executors
<1>9. Ends <=> queuedCount'[r] = 0
  BY <1>0, <1>2
<1> HIDE DEF Ends
<1>10. HolderInv'
  <2> SUFFICES ASSUME NEW s \in Serializers
               PROVE  IF queuedCount'[s] = 0 THEN Free(s)' ELSE HeldOnce(s)'
    BY DEF HolderInv
  <2>1. IF queuedCount[s] = 0 THEN Free(s) ELSE HeldOnce(s)
    BY DEF IInv, HolderInv
  <2>2. CASE s = r
    BY <1>1, <1>3, <1>9, <2>2 DEF Free, HeldOnce
  <2>3. CASE s # r
    BY <1>0, <1>2, <1>3, <2>1, <2>3 DEF Free, HeldOnce
  <2> QED BY <2>2, <2>3
<1>11. CountInv'
  <2> SUFFICES ASSUME NEW s \in Serializers
               PROVE  /\ Executors(s)' = {} => queuedCount'[s] = Announced(s)'
                      /\ \A u \in Executors(s)' : queuedCount'[s] = Announced(s)' + TakenBy(u)'
    BY DEF CountInv
  <2>1. CASE s = r
    <3>1. queuedCount'[s] = Announced(s)' /\ Announced(s)' \in Nat /\ TakenBy(t)' = 0
      BY <1>0, <1>2, <1>6, <1>7, <2>1
    <3>2. Executors(s)' \subseteq {t}
      BY <1>1, <1>3, <2>1
    <3> QED BY <3>1, <3>2
  <2>2. CASE s # r
    <3>1. queuedCount'[s] = queuedCount[s] /\ Executors(s)' = Executors(s)
      BY <1>0, <1>2, <1>3, <2>2
    <3> QED BY <1>6, <1>7, <1>8, <2>2, <3>1 DEF IInv, CountInv
  <2> QED BY <2>1, <2>2
<1> QED BY <1>4, <1>5, <1>10, <1>11 DEF IInv

\* A thread whose time is up hands the serializer, with what was pushed meanwhile,
\* to _jobQueue.
LEMMA ExecuteHandOffKeeps ==
  ASSUME IInv, NEW t \in Threads, ExecuteHandOff(t)
  PROVE  IInv'
<1> PICK r : r = TLS_CurrentJobSerializer[t]
  OBVIOUS
<1> PICK n : n = Len(jobQueue) + 1
  OBVIOUS
<1>0. /\ r \in Serializers /\ r # NULL /\ execAt[t] = "again"
      /\ jobQueue' = Append(jobQueue, r) /\ EndExecute(t)
      /\ UNCHANGED <<queuedCount, jobs, pushVars, pushed, executed>>
  BY JobsAssumption DEF ExecuteHandOff, AddJobSerializer, IInv, Control, TypeOK
<1>1. /\ Executors(r) = {t} /\ Starters(r) = {} /\ Places(r) = {}
      /\ queuedCount[r] # 0 /\ n \in Nat
  <2>1. t \in Executors(r) /\ n \in Nat
    BY LenProperties DEF Executors, IInv, TypeOK
  <2> QED BY <1>0, <2>1 DEF IInv, HolderInv, Free, HeldOnce
<1>2. \A s \in Serializers :
        /\ Executors(s)' = IF s = r THEN {} ELSE Executors(s)
        /\ Places(s)' = IF s = r THEN {n} ELSE Places(s)
        /\ Starters(s)' = Starters(s) /\ Pending(s)' = Pending(s)
        /\ s # r => t \notin Executors(s)
  <2> TAKE s \in Serializers
  <2>1. Executors(s)' = Executors(s) \ {t}
    BY <1>0, JobsAssumption DEF EndExecute, Executors, IInv, TypeOK
  <2>2. Places(s)' = IF s = r THEN Places(s) \cup {n} ELSE Places(s)
    <3>1. /\ jobQueue \in Seq(Serializers) /\ Len(jobQueue) \in Nat
          /\ DOMAIN jobQueue = 1 .. Len(jobQueue) /\ DOMAIN jobQueue' = 1 .. n
      BY <1>0, AppendProperties, LenProperties DEF IInv, TypeOK
    <3>2. jobQueue'[n] = r /\ \A i \in 1 .. Len(jobQueue) : jobQueue'[i] = jobQueue[i]
      BY <1>0, <3>1, AppendProperties
    <3> QED BY <3>1, <3>2 DEF Places
  <2>3. Starters(s)' = Starters(s) /\ Pending(s)' = Pending(s)
    BY <1>0 DEF Starters, Pending, pushVars
  <2>4. s # r => t \notin Executors(s)
    BY DEF Executors
  <2> QED BY <1>1, <2>1, <2>2, <2>3, <2>4, Zenon
<1>3. TypeOK'
  <2>1. jobQueue' \in Seq(Serializers)
    BY <1>0, AppendProperties DEF IInv, TypeOK
  <2> QED BY <1>0, <2>1 DEF EndExecute, IInv, TypeOK, ExecControl, pushVars
<1>4. Control'
  BY <1>0 DEF EndExecute, IInv, TypeOK, Control, pushVars
<1>5. HolderInv'
  <2> SUFFICES ASSUME NEW s \in Serializers
               PROVE  IF queuedCount[s] = 0 THEN Free(s)' ELSE HeldOnce(s)'
    BY <1>0 DEF HolderInv
  <2>1. IF queuedCount[s] = 0 THEN Free(s) ELSE HeldOnce(s)
    BY DEF IInv, HolderInv
  <2>2. CASE s = r
    BY <1>1, <1>2, <2>2 DEF HeldOnce
  <2>3. CASE s # r
    BY <1>2, <2>1, <2>3 DEF Free, HeldOnce
  <2> QED BY <2>2, <2>3
<1>6. CountInv'
  <2> SUFFICES ASSUME NEW s \in Serializers
               PROVE  /\ Executors(s)' = {} => queuedCount[s] = Announced(s)'
                      /\ \A u \in Executors(s)' : queuedCount[s] = Announced(s)' + TakenBy(u)'
    BY <1>0 DEF CountInv
  <2>1. Announced(s)' = Announced(s) /\ Announced(s) \in Nat
    BY <1>0, <1>2, PendingFinite, LenProperties DEF Announced, IInv, TypeOK
  <2>2. TakenBy(t) = 0 /\ \A u \in Threads : u # t => TakenBy(u)' = TakenBy(u)
    BY <1>0 DEF EndExecute, TakenBy, IInv, TypeOK
  <2>3. Executors(s) \subseteq Threads
    BY DEF Executors
  <2>4. CASE s = r
    BY <1>1, <1>2, <2>1, <2>2, <2>4 DEF IInv, CountInv
  <2>5. CASE s # r
    BY <1>2, <2>1, <2>2, <2>3, <2>5 DEF IInv, CountInv
  <2> QED BY <2>4, <2>5
<1> QED BY <1>3, <1>4, <1>5, <1>6 DEF IInv

\* Every step of the serializers preserves the invariant.
LEMMA IInvNext == IInv /\ [Next]_vars => IInv'
<1> SUFFICES ASSUME IInv, [Next]_vars PROVE IInv'
  OBVIOUS
<1>1. CASE Next
  BY <1>1, PushKeeps, PushJobsKeeps, PushHandOffKeeps, DoJobsKeeps, ExecuteKeeps,
     ExecuteSubKeeps, ExecuteHandOffKeeps DEF Next, Proceed
<1>2. CASE UNCHANGED vars
  <2> USE <1>2 DEF vars, execVars, pushVars
  <2>1. TypeOK' /\ Control'
    BY DEF IInv, TypeOK, Control
  <2>2. \A s : /\ Executors(s)' = Executors(s) /\ Starters(s)' = Starters(s)
               /\ Places(s)' = Places(s) /\ Pending(s)' = Pending(s)
    BY Zenon DEF Executors, Starters, Places, Pending
  <2>3. HolderInv'
    BY <2>2 DEF IInv, HolderInv, Free, HeldOnce
  <2>4. CountInv'
    BY <2>2 DEF IInv, CountInv, Announced, TakenBy
  <2> QED BY <2>1, <2>3, <2>4 DEF IInv
<1> QED BY <1>1, <1>2

\* Whatever threads push and whoever runs the queue: a serializer with jobs is in one
\* pair of hands, so two jobs of one serializer never run at once and none is
\* forgotten (JobSerializer.cpp:23-71), and its count is that of its jobs.
THEOREM SerializerHasOneHolder == Spec => [](OneHolder /\ CountAccounts)
BY IInvInit, IInvNext, IInvGives, PTL DEF Spec
=============================================================================
