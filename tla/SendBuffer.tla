----------------------------- MODULE SendBuffer -----------------------------
(***************************************************************************)
(* SendBuffer, SendBufferManager and PacketWrapper::Serialize: every thread*)
(* reserves space for its packets in a buffer of its own, takes another    *)
(* from the pool when that one is full, and the buffer it lets go returns  *)
(* to the pool through the deleter of its shared_ptr.  The pool's lock is  *)
(* the RWLock of its own module, so that Push and Pop are single steps.    *)
(*                                                                         *)
(* handed counts how often each byte of a buffer was given to a packet: a  *)
(* WSABUF points to those bytes until the send has completed.              *)
(***************************************************************************)
EXTENDS Integers, Sequences, SequencesExt

CONSTANTS
  Threads,
  Buffers,            \* SendBuffer objects that may be allocated
  NULL,
  MAX_BUFFER_SIZE,    \* 4096 in the code
  HEADER,             \* sizeof(PacketHeader)
  U16, U32,           \* 2^16 and 2^32 in the code
  DataSizes,          \* sizes passed to Serialize
  RawSizes,           \* sizes passed to SendRaw
  MaxUsed             \* bound: how far _usedSize is followed

ASSUME SizesAssumption ==
  /\ HEADER \in Nat /\ U16 \in Nat /\ U32 \in Nat /\ MaxUsed \in Nat
  /\ MAX_BUFFER_SIZE \in 1 .. MaxUsed
  /\ MaxUsed < U32 /\ U16 > 0
  /\ DataSizes \subseteq 0 .. U16 - 1
  /\ RawSizes \subseteq 0 .. U32 - 1
  /\ NULL \notin Buffers \cup DataSizes

VARIABLES
  pool,            \* _buffers
  TLS_SendBuffer,  \* each thread's buffer, or NULL
  old,             \* the buffer a thread's assignment is about to let go, or NULL
  request,         \* the data size of the packet a thread is making, or NULL
  usedSize,        \* _usedSize of every buffer
  allocated,       \* buffers that were made with xxnew
  handed,          \* how often each byte of a buffer was handed out
  crashed          \* APP_SENDBUFFER_SIZE_OVERFLOW

vars == <<pool, TLS_SendBuffer, old, request, usedSize, allocated, handed, crashed>>

FreeSize(b) == (MAX_BUFFER_SIZE - usedSize[b]) % U32

Init ==
  /\ pool = <<>>
  /\ TLS_SendBuffer = [t \in Threads |-> NULL]
  /\ old = [t \in Threads |-> NULL]
  /\ request = [t \in Threads |-> NULL]
  /\ usedSize = [b \in Buffers |-> 0]
  /\ allocated = {}
  /\ handed = [b \in Buffers |-> [i \in 0 .. MaxUsed - 1 |-> 0]]
  /\ crashed = FALSE

-----------------------------------------------------------------------------
\* Mutant: Pop leaves the buffer in the pool.
PopKeeps(b) ==
  /\ IF pool # <<>> THEN b = Last(pool) ELSE b \notin allocated
  /\ allocated' = allocated \cup {b}
  /\ UNCHANGED pool

\* SendBufferManager::Pop returns b: the last one pushed, or a new one.
Pop(b) ==
  \/ /\ pool # <<>>
     /\ b = Last(pool)
     /\ pool' = Front(pool)
     /\ UNCHANGED allocated
  \/ /\ pool = <<>>
     /\ b \notin allocated
     /\ allocated' = allocated \cup {b}
     /\ UNCHANGED pool

\* Mutant: a buffer comes back to the pool as good as new.
PushResets(b) ==
  /\ pool' = Append(pool, b)
  /\ usedSize' = [usedSize EXCEPT ![b] = 0]

\* The deleter _push and SendBufferManager::Push.
Push(b) ==
  /\ pool' = Append(pool, b)
  /\ UNCHANGED usedSize

\* SendBuffer::Reserve.
Take(t, n) ==
  LET b == TLS_SendBuffer[t]
  IN \/ /\ n > MAX_BUFFER_SIZE
        /\ crashed' = TRUE
        /\ UNCHANGED <<usedSize, handed>>
     \/ /\ n <= MAX_BUFFER_SIZE
        /\ usedSize[b] + n <= MaxUsed
        /\ usedSize' = [usedSize EXCEPT ![b] = (@ + n) % U32]
        /\ handed' = [handed EXCEPT ![b] =
             [i \in DOMAIN @ |-> IF i \in usedSize[b] .. usedSize[b] + n - 1 THEN @[i] + 1 ELSE @[i]]]
        /\ UNCHANGED crashed

Idle(t) == ~crashed /\ request[t] = NULL /\ TLS_SendBuffer[t] # NULL

\* _init_tls of the task managers.
StartThread(t) ==
  /\ ~crashed
  /\ TLS_SendBuffer[t] = NULL /\ old[t] = NULL
  /\ \E b \in Buffers :
       /\ Pop(b)
       /\ TLS_SendBuffer' = [TLS_SendBuffer EXCEPT ![t] = b]
  /\ UNCHANGED <<old, request, usedSize, handed, crashed>>

\* Mutant: the size is that of the data.
PacketSizeBare(n) == n % U16

\* The size Serialize computes in a uint16.
PacketSize(n) ==
  (HEADER + n) % U16

\* Serialize, up to the test of FreeSize in SendBufferManager::Reserve; when the
\* buffer is too small, TLS_SendBuffer = Pop() keeps the old one until it is done.
Serialize(t, n) ==
  /\ Idle(t)
  /\ request' = [request EXCEPT ![t] = n]
  /\ \/ /\ PacketSize(n) > FreeSize(TLS_SendBuffer[t])
        /\ \E b \in Buffers :
             /\ Pop(b)
             /\ TLS_SendBuffer' = [TLS_SendBuffer EXCEPT ![t] = b]
        /\ old' = [old EXCEPT ![t] = TLS_SendBuffer[t]]
     \/ /\ PacketSize(n) <= FreeSize(TLS_SendBuffer[t])
        /\ UNCHANGED <<pool, allocated, TLS_SendBuffer, old>>
  /\ UNCHANGED <<usedSize, handed, crashed>>

\* The assignment lets the old buffer go: its last reference runs the deleter.
ReleaseOld(t) ==
  /\ ~crashed /\ old[t] # NULL
  /\ Push(old[t])
  /\ old' = [old EXCEPT ![t] = NULL]
  /\ UNCHANGED <<TLS_SendBuffer, request, allocated, handed, crashed>>

\* TLS_SendBuffer->Reserve(size) and the copy of the packet.
Reserve(t) ==
  /\ ~crashed /\ request[t] # NULL /\ old[t] = NULL
  /\ Take(t, PacketSize(request[t]))
  /\ request' = [request EXCEPT ![t] = NULL]
  /\ UNCHANGED <<pool, TLS_SendBuffer, old, allocated>>

\* PacketSession::SendRaw reserves in the thread's buffer without testing FreeSize.
SendRaw(t, n) ==
  /\ Idle(t)
  /\ Take(t, n)
  /\ UNCHANGED <<pool, TLS_SendBuffer, old, request, allocated>>

\* The thread ends: the destructor of its TLS_SendBuffer runs the deleter.
EndThread(t) ==
  /\ Idle(t)
  /\ Push(TLS_SendBuffer[t])
  /\ TLS_SendBuffer' = [TLS_SendBuffer EXCEPT ![t] = NULL]
  /\ UNCHANGED <<old, request, allocated, handed, crashed>>

Next ==
  \E t \in Threads :
    \/ StartThread(t)
    \/ \E n \in DataSizes : Serialize(t, n)
    \/ ReleaseOld(t)
    \/ Reserve(t)
    \/ \E n \in RawSizes : SendRaw(t, n)
    \/ EndThread(t)

Spec == Init /\ [][Next]_vars

-----------------------------------------------------------------------------
TypeOK ==
  /\ pool \in Seq(Buffers)
  /\ TLS_SendBuffer \in [Threads -> Buffers \cup {NULL}]
  /\ old \in [Threads -> Buffers \cup {NULL}]
  /\ request \in [Threads -> DataSizes \cup {NULL}]
  /\ usedSize \in [Buffers -> 0 .. MaxUsed]
  /\ allocated \subseteq Buffers
  /\ crashed \in BOOLEAN

\* The buffers that threads have and let go.
Held(b) == \E t \in Threads : b \in {TLS_SendBuffer[t], old[t]}
InPool(b) == \E i \in DOMAIN pool : pool[i] = b

\* A buffer is in one place: with one thread, being let go by one thread, or in
\* the pool once.  SendBuffer::Reserve has no lock and relies on it
\* (SendBuffer.h:6, SendBufferManager.cpp:34-36, SendBufferManager.h:43, 61).
OneOwner ==
  /\ TypeOK
  /\ \A b \in Buffers : b \in allocated <=> Held(b) \/ InPool(b)
  /\ \A b \in Buffers : ~(Held(b) /\ InPool(b))
  /\ \A i, j \in DOMAIN pool : pool[i] = pool[j] => i = j
  /\ \A t, u \in Threads :
       /\ t # u /\ TLS_SendBuffer[t] # NULL => TLS_SendBuffer[t] # TLS_SendBuffer[u]
       /\ t # u /\ old[t] # NULL => old[t] # old[u]
       /\ old[t] # NULL => old[t] # TLS_SendBuffer[u]

\* No byte is handed to two packets, whichever threads the buffer goes through:
\* a WSABUF that waits in a send queue keeps its bytes though nothing keeps its
\* buffer out of the pool (SendBuffer.cpp:26-29, PacketWrapper.h:51-55).
BytesHandedOnce ==
  \A b \in Buffers : \A i \in DOMAIN handed[b] : handed[b][i] <= 1

\* SendBuffer.cpp:22: that size > FreeSize() "not occurs" in SendBuffer::Reserve.
ReserveFits == \A b \in Buffers : usedSize[b] <= MAX_BUFFER_SIZE
=============================================================================
