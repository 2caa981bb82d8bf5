-------------------------- MODULE SendBufferProofs --------------------------
(***************************************************************************)
(* Proofs about the send buffers, by themselves and below PacketStream,    *)
(* for any threads, buffers and sizes. To be inductive, OneOwner needs     *)
(* that a thread with a buffer to let go is still inside Serialize, and    *)
(* BytesHandedOnce that the bytes above _usedSize are untouched.           *)
(* HandedAsSent needs what the bytes on the wire are (Framed), and where   *)
(* OnRecv is in them (AtPacket).                                           *)
(***************************************************************************)
EXTENDS PacketStream, SequenceTheorems, TLAPS

IInv ==
  /\ OneOwner
  /\ \A t \in Threads : /\ old[t] # NULL => request[t] # NULL
                        /\ request[t] # NULL => TLS_SendBuffer[t] # NULL

BytesInv ==
  /\ usedSize \in [Buffers -> 0 .. MaxUsed]
  /\ handed \in [Buffers -> [0 .. MaxUsed - 1 -> {0, 1}]]
  /\ \A b \in Buffers : \A i \in 0 .. MaxUsed - 1 : i >= usedSize[b] => handed[b][i] = 0

-----------------------------------------------------------------------------
\* Sizes that fit are not changed by the wrap-around, and a packet size is a Nat.
LEMMA ModSmall == \A x, m \in Nat : x < m => x % m = x
OBVIOUS

\* The size Serialize asks Reserve for is a number.
LEMMA PacketSizeNat == \A n \in DataSizes : PacketSize(n) \in Nat
BY SizesAssumption DEF PacketSize

\* What Take does to the type of _usedSize.
LEMMA TakeType ==
  ASSUME TypeOK, NEW t \in Threads, NEW n \in Nat, TLS_SendBuffer[t] \in Buffers, Take(t, n)
  PROVE  usedSize' \in [Buffers -> 0 .. MaxUsed] /\ crashed' \in BOOLEAN
<1>1. CASE crashed' = TRUE /\ UNCHANGED <<usedSize, handed>>
  BY <1>1 DEF TypeOK
<1>2. CASE n <= MAX_BUFFER_SIZE /\ ~(crashed' = TRUE /\ UNCHANGED <<usedSize, handed>>)
  <2> DEFINE b == TLS_SendBuffer[t]
  <2>1. usedSize[b] + n <= MaxUsed /\ usedSize' = [usedSize EXCEPT ![b] = (@ + n) % U32] /\ UNCHANGED crashed
    BY <1>2 DEF Take
  <2>2. usedSize[b] + n \in Nat /\ usedSize[b] + n < U32
    BY <2>1, SizesAssumption DEF TypeOK
  <2>3. (usedSize[b] + n) % U32 = usedSize[b] + n
    BY <2>2, ModSmall, SizesAssumption
  <2> QED BY <2>1, <2>2, <2>3 DEF TypeOK
<1> QED BY <1>1, <1>2, Zenon DEF Take

\* What Pop and Push do to the pool.
LEMMA PopMoves ==
  ASSUME TypeOK, NEW b \in Buffers, Pop(b)
  PROVE  \/ /\ pool' \in Seq(Buffers) /\ allocated' = allocated
            /\ Len(pool) \in DOMAIN pool /\ b = pool[Len(pool)]
            /\ DOMAIN pool' = DOMAIN pool \ {Len(pool)}
            /\ \A i \in DOMAIN pool' : pool'[i] = pool[i]
         \/ pool' = pool /\ b \notin allocated /\ allocated' = allocated \cup {b}
<1>1. CASE pool # <<>> /\ b = Last(pool) /\ pool' = Front(pool) /\ UNCHANGED allocated
  <2>1. Len(pool) \in Nat \ {0} /\ DOMAIN pool = 1 .. Len(pool)
    BY <1>1 DEF TypeOK
  <2>2. pool' = SubSeq(pool, 1, Len(pool) - 1)
    BY <1>1 DEF Front
  <2>3. Len(pool') = Len(pool) - 1 /\ pool' \in Seq(Buffers) /\ \A i \in 1 .. Len(pool) - 1 : pool'[i] = pool[i]
    BY <2>1, <2>2 DEF TypeOK
  <2>4. DOMAIN pool' = 1 .. Len(pool) - 1
    BY <2>1, <2>3
  <2>5. DOMAIN pool' = DOMAIN pool \ {Len(pool)}
    BY <2>1, <2>4
  <2>6. b = pool[Len(pool)]
    BY <1>1 DEF Last
  <2> QED BY <1>1, <2>1, <2>3, <2>4, <2>5, <2>6
<1> QED BY <1>1 DEF Pop, TypeOK

\* Push moves a buffer from its last owner to the pool and moves no other.
LEMMA PushMoves ==
  ASSUME TypeOK, NEW b \in Buffers, Push(b)
  PROVE  /\ pool' \in Seq(Buffers) /\ usedSize' = usedSize
         /\ DOMAIN pool' = DOMAIN pool \cup {Len(pool) + 1}
         /\ Len(pool) + 1 \notin DOMAIN pool
         /\ pool'[Len(pool) + 1] = b
         /\ \A i \in DOMAIN pool : pool'[i] = pool[i]
BY DEF Push, TypeOK

-----------------------------------------------------------------------------
\* The state before the first packet satisfies the invariant of the buffers.
LEMMA IInvInit == Init => IInv
<1> SUFFICES ASSUME Init PROVE IInv
  OBVIOUS
<1>1. TypeOK
  <2>1. pool \in Seq(Buffers)
    BY EmptySeq DEF Init
  <2>5. allocated \subseteq Buffers /\ crashed \in BOOLEAN
    BY Zenon DEF Init
  <2>2. TLS_SendBuffer \in [Threads -> Buffers \cup {NULL}] /\ old \in [Threads -> Buffers \cup {NULL}]
    BY DEF Init
  <2>3. request \in [Threads -> DataSizes \cup {NULL}]
    BY DEF Init
  <2>4. usedSize \in [Buffers -> 0 .. MaxUsed]
    BY SizesAssumption DEF Init
  <2> QED BY <2>1, <2>2, <2>3, <2>4, <2>5 DEF TypeOK
<1>2. \A b \in Buffers : ~Held(b) /\ ~InPool(b)
  BY SizesAssumption DEF Init, Held, InPool
<1> QED BY <1>1, <1>2 DEF Init, IInv, OneOwner

\* A thread takes b in exchange for the buffer it had, or in place of none, and will
\* let go of the old one.
LEMMA PopKeepsOwners ==
  ASSUME IInv, NEW t \in Threads, NEW b \in Buffers, Pop(b), old[t] = NULL,
         TLS_SendBuffer' = [TLS_SendBuffer EXCEPT ![t] = b],
         old' = [old EXCEPT ![t] = TLS_SendBuffer[t]],
         request' \in [Threads -> DataSizes \cup {NULL}],
         TLS_SendBuffer[t] # NULL => request'[t] # NULL,
         \A u \in Threads \ {t} : request'[u] = request[u],
         UNCHANGED <<usedSize, crashed>>
  PROVE  IInv'
<1> USE SizesAssumption
<1>1. TypeOK /\ ~Held(b)
  <2>1. TypeOK
    BY DEF IInv, OneOwner
  <2>2. InPool(b) \/ b \notin allocated
    BY <2>1, PopMoves DEF InPool
  <2> QED BY <2>1, <2>2 DEF IInv, OneOwner
<1>2. \A u \in Threads : TLS_SendBuffer[u] # b /\ old[u] # b
  BY <1>1 DEF Held
<1>3. pool' \in Seq(Buffers) /\ allocated' \subseteq Buffers
  BY <1>1, PopMoves DEF TypeOK
<1>4. TypeOK'
  BY <1>1, <1>3 DEF TypeOK
<1>5. \A c \in Buffers : Held(c)' <=> Held(c) \/ c = b
  BY <1>1 DEF Held, TypeOK
<1>6. \A c \in Buffers : InPool(c)' <=> InPool(c) /\ c # b
  <2>1. \A i, j \in DOMAIN pool : pool[i] = pool[j] => i = j
    BY DEF IInv, OneOwner
  <2>2. b \notin allocated => ~InPool(b)
    BY DEF IInv, OneOwner
  <2> QED BY <1>1, <2>1, <2>2, PopMoves DEF InPool
<1>7. \A c \in Buffers : c \in allocated' <=> c \in allocated \/ c = b
  <2>1. InPool(b) => b \in allocated
    BY DEF IInv, OneOwner
  <2> QED BY <1>1, <2>1, PopMoves DEF InPool
<1>8. \A i, j \in DOMAIN pool' : pool'[i] = pool'[j] => i = j
  BY <1>1, PopMoves DEF IInv, OneOwner
<1>9. \A u, v \in Threads :
        /\ u # v /\ TLS_SendBuffer'[u] # NULL => TLS_SendBuffer'[u] # TLS_SendBuffer'[v]
        /\ u # v /\ old'[u] # NULL => old'[u] # old'[v]
        /\ old'[u] # NULL => old'[u] # TLS_SendBuffer'[v]
  BY <1>1, <1>2 DEF IInv, OneOwner, TypeOK
<1>10. \A u \in Threads : /\ old'[u] # NULL => request'[u] # NULL
                          /\ request'[u] # NULL => TLS_SendBuffer'[u] # NULL
  BY <1>1 DEF IInv, TypeOK
<1>11. \A c \in Buffers : (c \in allocated' <=> Held(c)' \/ InPool(c)') /\ ~(Held(c)' /\ InPool(c)')
  BY <1>1, <1>5, <1>6, <1>7 DEF IInv, OneOwner
<1> QED BY <1>4, <1>8, <1>9, <1>10, <1>11 DEF IInv, OneOwner

\* A thread lets go of buffer b, which is its own or the one it had before.
LEMMA PushKeepsOwners ==
  ASSUME IInv, NEW t \in Threads, NEW b \in Buffers, Push(b),
         \/ /\ b = old[t]
            /\ old' = [old EXCEPT ![t] = NULL]
            /\ UNCHANGED TLS_SendBuffer
         \/ /\ b = TLS_SendBuffer[t] /\ old[t] = NULL /\ request[t] = NULL
            /\ TLS_SendBuffer' = [TLS_SendBuffer EXCEPT ![t] = NULL]
            /\ UNCHANGED old,
         UNCHANGED <<request, allocated, crashed>>
  PROVE  IInv'
<1> USE SizesAssumption
<1>1. TypeOK /\ Held(b) /\ ~InPool(b)
  BY DEF IInv, OneOwner, Held
<1>2. TypeOK'
  BY <1>1, PushMoves, Zenon DEF TypeOK
<1>3. \A c \in Buffers : Held(c)' <=> Held(c) /\ c # b
  <2> SUFFICES ASSUME NEW c \in Buffers PROVE Held(c)' <=> Held(c) /\ c # b
    OBVIOUS
  <2>1. b # NULL /\ c # NULL
    OBVIOUS
  <2>2. CASE b = old[t] /\ old' = [old EXCEPT ![t] = NULL] /\ UNCHANGED TLS_SendBuffer
    <3>1. \A u \in Threads : TLS_SendBuffer[u] # b /\ (u # t => old[u] # b)
      BY <2>1, <2>2 DEF IInv, OneOwner
    <3> QED BY <1>1, <2>1, <2>2, <3>1 DEF Held, TypeOK
  <2>3. CASE b = TLS_SendBuffer[t] /\ TLS_SendBuffer' = [TLS_SendBuffer EXCEPT ![t] = NULL] /\ UNCHANGED old
    <3>1. \A u \in Threads : old[u] # b /\ (u # t => TLS_SendBuffer[u] # b)
      BY <2>1, <2>3 DEF IInv, OneOwner
    <3> QED BY <1>1, <2>1, <2>3, <3>1 DEF Held, TypeOK
  <2> QED BY <2>2, <2>3
<1>4. \A c \in Buffers : InPool(c)' <=> InPool(c) \/ c = b
  BY <1>1, PushMoves DEF InPool
<1>5. \A i, j \in DOMAIN pool' : pool'[i] = pool'[j] => i = j
  <2>1. \A i \in DOMAIN pool : pool[i] # b
    BY <1>1 DEF InPool
  <2>2. \A i, j \in DOMAIN pool : pool[i] = pool[j] => i = j
    BY DEF IInv, OneOwner
  <2> QED BY <1>1, <2>1, <2>2, PushMoves
<1>6. \A u, v \in Threads :
        /\ u # v /\ TLS_SendBuffer'[u] # NULL => TLS_SendBuffer'[u] # TLS_SendBuffer'[v]
        /\ u # v /\ old'[u] # NULL => old'[u] # old'[v]
        /\ old'[u] # NULL => old'[u] # TLS_SendBuffer'[v]
  <2>1. \A u \in Threads : /\ old'[u] \in {old[u], NULL}
                           /\ TLS_SendBuffer'[u] \in {TLS_SendBuffer[u], NULL}
    BY <1>1 DEF TypeOK
  <2> QED BY <2>1 DEF IInv, OneOwner
<1>7. \A u \in Threads : /\ old'[u] # NULL => request'[u] # NULL
                         /\ request'[u] # NULL => TLS_SendBuffer'[u] # NULL
  BY <1>1 DEF IInv, TypeOK
<1>8. \A c \in Buffers : (c \in allocated' <=> Held(c)' \/ InPool(c)') /\ ~(Held(c)' /\ InPool(c)')
  BY <1>1, <1>3, <1>4 DEF IInv, OneOwner
<1> QED BY <1>2, <1>5, <1>6, <1>7, <1>8 DEF IInv, OneOwner

\* A step that moves no buffer.
LEMMA StayKeepsOwners ==
  ASSUME IInv, UNCHANGED <<pool, TLS_SendBuffer, old, allocated>>,
         request' \in [Threads -> DataSizes \cup {NULL}],
         \A t \in Threads : /\ old[t] # NULL => request'[t] # NULL
                            /\ request'[t] # NULL => TLS_SendBuffer[t] # NULL,
         usedSize' \in [Buffers -> 0 .. MaxUsed], crashed' \in BOOLEAN
  PROVE  IInv'
<1>1. TypeOK'
  BY DEF IInv, OneOwner, TypeOK
<1>2. \A b \in Buffers : (Held(b)' <=> Held(b)) /\ (InPool(b)' <=> InPool(b))
  BY DEF Held, InPool
<1> QED BY <1>1, <1>2 DEF IInv, OneOwner

\* Every step of the threads and of the deleter keeps the ownership of the buffers.
LEMMA IInvNext == IInv /\ [Next]_vars => IInv'
<1> SUFFICES ASSUME IInv, [Next]_vars PROVE IInv'
  OBVIOUS
<1> USE SizesAssumption
<1>0. TypeOK
  BY DEF IInv, OneOwner
<1>1. ASSUME NEW t \in Threads, StartThread(t) PROVE IInv'
  <2>1. PICK b \in Buffers : Pop(b) /\ TLS_SendBuffer' = [TLS_SendBuffer EXCEPT ![t] = b]
    BY <1>1, Zenon DEF StartThread
  <2>2. old' = [old EXCEPT ![t] = TLS_SendBuffer[t]] /\ old[t] = NULL /\ TLS_SendBuffer[t] = NULL
    BY <1>0, <1>1 DEF StartThread, TypeOK
  <2> QED BY <1>0, <1>1, <2>1, <2>2, PopKeepsOwners, Zenon DEF StartThread, TypeOK
<1>2. ASSUME NEW t \in Threads, NEW n \in DataSizes, Serialize(t, n) PROVE IInv'
  <2>1. old[t] = NULL /\ TLS_SendBuffer[t] # NULL
    BY <1>2 DEF Serialize, Idle, IInv
  <2>2. request' = [request EXCEPT ![t] = n] /\ request' \in [Threads -> DataSizes \cup {NULL}] /\ n # NULL
    BY <1>0, <1>2 DEF Serialize, TypeOK
  <2>3. CASE UNCHANGED <<pool, allocated, TLS_SendBuffer, old>>
    BY <1>0, <1>2, <2>1, <2>2, <2>3, StayKeepsOwners DEF Serialize, TypeOK, IInv
  <2>4. ASSUME NEW b \in Buffers, Pop(b), TLS_SendBuffer' = [TLS_SendBuffer EXCEPT ![t] = b],
               old' = [old EXCEPT ![t] = TLS_SendBuffer[t]]
        PROVE  IInv'
    BY <1>0, <1>2, <2>1, <2>2, <2>4, PopKeepsOwners, Zenon DEF Serialize, TypeOK
  <2> QED BY <1>2, <2>3, <2>4 DEF Serialize
<1>3. ASSUME NEW t \in Threads, ReleaseOld(t) PROVE IInv'
  BY <1>0, <1>3, PushKeepsOwners, Zenon DEF ReleaseOld, TypeOK
<1>4. ASSUME NEW t \in Threads, Reserve(t) PROVE IInv'
  <2>1. request[t] \in DataSizes /\ old[t] = NULL
    BY <1>0, <1>4 DEF Reserve, TypeOK
  <2>2. CASE TLS_SendBuffer[t] \in Buffers
    BY <1>0, <1>4, <2>1, <2>2, TakeType, PacketSizeNat, StayKeepsOwners, Zenon
    DEF Reserve, TypeOK, IInv
  <2> QED BY <1>0, <1>4, <2>2 DEF Reserve, TypeOK, IInv
<1>5. ASSUME NEW t \in Threads, NEW n \in RawSizes, SendRaw(t, n) PROVE IInv'
  BY <1>0, <1>5, TakeType, StayKeepsOwners DEF SendRaw, Idle, TypeOK, IInv
<1>6. ASSUME NEW t \in Threads, EndThread(t) PROVE IInv'
  BY <1>0, <1>6, PushKeepsOwners, Zenon DEF EndThread, Idle, TypeOK, IInv
<1>7. CASE UNCHANGED vars
  BY <1>0, <1>7, StayKeepsOwners DEF vars, TypeOK, IInv
<1> QED BY <1>1, <1>2, <1>3, <1>4, <1>5, <1>6, <1>7 DEF Next

-----------------------------------------------------------------------------
\* Reserve hands out bytes from _usedSize on, and moves it behind them.
LEMMA TakeKeepsBytes ==
  ASSUME BytesInv, NEW t \in Threads, NEW n \in Nat, TLS_SendBuffer[t] \in Buffers, Take(t, n)
  PROVE  BytesInv'
<1> DEFINE b == TLS_SendBuffer[t]
<1>1. CASE UNCHANGED <<usedSize, handed>>
  BY <1>1 DEF BytesInv
<1>2. CASE ~UNCHANGED <<usedSize, handed>>
  <2> DEFINE more == [i \in DOMAIN handed[b] |->
                IF i \in usedSize[b] .. usedSize[b] + n - 1 THEN handed[b][i] + 1 ELSE handed[b][i]]
  <2>1. /\ usedSize[b] + n <= MaxUsed
        /\ usedSize' = [usedSize EXCEPT ![b] = (@ + n) % U32]
        /\ handed' = [handed EXCEPT ![b] = more]
    BY <1>2 DEF Take
  <2>2. usedSize[b] \in 0 .. MaxUsed /\ handed[b] \in [0 .. MaxUsed - 1 -> {0, 1}]
    BY DEF BytesInv
  <2>3. (usedSize[b] + n) % U32 = usedSize[b] + n
    <3> HIDE DEF more
    <3>0. usedSize[b] + n <= MaxUsed /\ usedSize[b] \in 0 .. MaxUsed
      BY <2>1, <2>2
    <3>1. usedSize[b] + n \in Nat /\ usedSize[b] + n < U32 /\ U32 \in Nat
      BY <3>0, SizesAssumption
    <3> QED BY <3>1, ModSmall
  <2>4. \A i \in 0 .. MaxUsed - 1 :
          /\ more[i] \in {0, 1}
          /\ i >= usedSize[b] + n => more[i] = 0
    BY <2>2, SizesAssumption DEF BytesInv
  <2>5. more \in [0 .. MaxUsed - 1 -> {0, 1}]
    BY <2>2, <2>4, Zenon
  <2>6. usedSize' \in [Buffers -> 0 .. MaxUsed] /\ handed' \in [Buffers -> [0 .. MaxUsed - 1 -> {0, 1}]]
    <3> HIDE DEF more
    <3>1. usedSize[b] + n \in 0 .. MaxUsed
      BY <2>1, <2>2, SizesAssumption
    <3>2. usedSize' = [usedSize EXCEPT ![b] = usedSize[b] + n]
      BY <2>1, <2>3, Zenon
    <3>3. usedSize' \in [Buffers -> 0 .. MaxUsed]
      BY <3>1, <3>2 DEF BytesInv
    <3>4. handed' \in [Buffers -> [0 .. MaxUsed - 1 -> {0, 1}]]
      BY <2>1, <2>5 DEF BytesInv
    <3> QED BY <3>3, <3>4
  <2>7. ASSUME NEW c \in Buffers, NEW i \in 0 .. MaxUsed - 1, i >= usedSize'[c] PROVE handed'[c][i] = 0
    <3> HIDE DEF more
    <3>1. CASE c = b
      BY <2>1, <2>3, <2>4, <2>7, <3>1 DEF BytesInv
    <3>2. CASE c # b
      BY <2>1, <2>7, <3>2 DEF BytesInv
    <3> QED BY <3>1, <3>2
  <2> QED BY <2>6, <2>7 DEF BytesInv
<1> QED BY <1>1, <1>2

\* Every step keeps the bytes handed out below the used size of the buffer, each at most once.
LEMMA BytesNext == IInv /\ BytesInv /\ [Next]_vars => BytesInv'
<1> SUFFICES ASSUME IInv, BytesInv, [Next]_vars PROVE BytesInv'
  OBVIOUS
<1>0. TypeOK
  BY DEF IInv, OneOwner
<1>1. UNCHANGED <<usedSize, handed>> => BytesInv'
  BY DEF BytesInv
<1>2. ASSUME NEW t \in Threads, Reserve(t) PROVE BytesInv'
  <2>1. request[t] \in DataSizes /\ TLS_SendBuffer[t] \in Buffers
    BY <1>0, <1>2 DEF Reserve, TypeOK, IInv
  <2> QED BY <1>2, <2>1, PacketSizeNat, TakeKeepsBytes DEF Reserve
<1>3. ASSUME NEW t \in Threads, NEW n \in RawSizes, SendRaw(t, n) PROVE BytesInv'
  <2>1. n \in Nat /\ TLS_SendBuffer[t] \in Buffers
    BY <1>0, <1>3, SizesAssumption DEF SendRaw, Idle, TypeOK
  <2> QED BY <1>3, <2>1, TakeKeepsBytes DEF SendRaw
<1> QED
  BY <1>1, <1>2, <1>3 DEF Next, vars, StartThread, Serialize, ReleaseOld, EndThread, Push

\* PacketStream adds the way to the peer and changes nothing of the buffers.
LEMMA StreamSteps == [StreamNext]_allVars => [Next]_vars
BY Zenon DEF StreamNext, SendSide, Post, ReceiveSide, ProcessRecv, OnRecvPacket, OnRecvReturns,
             allVars, Next

-----------------------------------------------------------------------------
\* However many threads come, go and exchange buffers through the pool, a buffer is
\* always with one thread or in the pool once: Reserve needs no lock
\* (SendBuffer.h:6, SendBufferManager.cpp:34-36, SendBufferManager.h:43, 61).
THEOREM BufferHasOneOwner == StreamSpec => []OneOwner
<1>1. StreamInit => IInv
  BY IInvInit DEF StreamInit
<1>2. IInv /\ [StreamNext]_allVars => IInv'
  BY IInvNext, StreamSteps
<1>3. IInv => OneOwner
  BY DEF IInv
<1> QED BY <1>1, <1>2, <1>3, PTL DEF StreamSpec

\* No byte of a buffer is ever given to two packets, for every buffer size, header
\* size and mix of Serialize and SendRaw (SendBuffer.cpp:26-29, PacketWrapper.h:51).
THEOREM NoByteTwice == StreamSpec => []BytesHandedOnce
<1>1. StreamInit => IInv /\ BytesInv
  BY IInvInit, SizesAssumption DEF StreamInit, Init, BytesInv
<1>2. IInv /\ BytesInv /\ [StreamNext]_allVars => (IInv /\ BytesInv)'
  BY IInvNext, BytesNext, StreamSteps
<1>3. ASSUME BytesInv PROVE BytesHandedOnce
  <2> SUFFICES ASSUME NEW b \in Buffers, NEW i \in DOMAIN handed[b] PROVE handed[b][i] <= 1
    BY DEF BytesHandedOnce
  <2>1. handed[b] \in [0 .. MaxUsed - 1 -> {0, 1}]
    BY <1>3 DEF BytesInv
  <2>2. handed[b][i] \in {0, 1}
    BY <2>1, Zenon
  <2> QED BY <2>2
<1> QED BY <1>1, <1>2, <1>3, PTL DEF StreamSpec

-----------------------------------------------------------------------------
(***************************************************************************)
(* The packets on the wire.  StreamInv says that every byte is in the      *)
(* middle of its whole packet, the packets in the order sent, and that as  *)
(* long as no receive was cut OnRecv is where a packet ends.               *)
(***************************************************************************)
\* No size wraps around in the uint16 of the header, whose own size is not 0.
SizesFit == HEADER > 0 /\ \A n \in DataSizes : HEADER + n < U16

Byte == Nat \X Nat
Call == Nat \X BOOLEAN

SizeOf(s, k) == HEADER + s[k]

\* Byte n of w is byte i of packet k, and the others of packet k are around it.
ByteOf(n, k, i, w, s) ==
  /\ w[n] = <<k, i>>
  /\ \A j \in 1 .. SizeOf(s, k) : n - i + j \in 1 .. Len(w) /\ w[n - i + j] = <<k, j>>
  /\ i = SizeOf(s, k) /\ n < Len(w) => w[n + 1] = <<k + 1, 1>>
  /\ n = Len(w) => k = Len(s) /\ i = SizeOf(s, k)
  /\ n = 1 => k = 1 /\ i = 1

Framed(w, s) ==
  /\ \A n \in 1 .. Len(w) : \E k \in 1 .. Len(s) : \E i \in 1 .. SizeOf(s, k) : ByteOf(n, k, i, w, s)
  /\ Len(w) = 0 => Len(s) = 0

\* The first n bytes of w are the first g packets.
EndsAt(n, g, w, s) ==
  \/ n = 0 /\ g = 0
  \/ n \in 1 .. Len(w) /\ g \in 1 .. Len(s) /\ w[n] = <<g, SizeOf(s, g)>>

\* OnRecv is behind as many packets as it has handed on, and the receive ends with one.
AtPacket(at, n, p, calls, w, s) ==
  /\ EndsAt(at + p, Len(calls), w, s)
  /\ \E g \in Nat : EndsAt(at + n, g, w, s)
  /\ p <= n
  /\ \A i \in DOMAIN calls : calls[i] = <<i, TRUE>>

StreamInv ==
  /\ sent \in Seq(DataSizes) /\ wire \in Seq(Byte) /\ got \in Seq(Call)
  /\ received \in Nat /\ len \in Nat /\ processed \in Nat
  /\ Framed(wire, sent)
  /\ received + len <= Len(wire)
  /\ len = 0 => processed = 0
  /\ ~cut => AtPacket(received, len, processed, got, wire, sent)

\* The size in the header is the size of the packet.
LEMMA SizeIsKept ==
  ASSUME SizesFit, NEW n \in DataSizes
  PROVE  PacketSize(n) = HEADER + n /\ HEADER + n \in Nat /\ HEADER + n > 0 /\ n \in Nat
<1>1. n \in Nat /\ HEADER \in Nat /\ HEADER > 0 /\ U16 \in Nat /\ HEADER + n < U16
  BY SizesAssumption DEF SizesFit
<1> QED BY <1>1, ModSmall DEF PacketSize

\* A packet behind the others.
LEMMA FramedLonger ==
  ASSUME NEW s, NEW w, NEW s2, NEW w2, NEW z \in Nat, z > 0, Len(w) \in Nat, Len(s) \in Nat, Framed(w, s),
         Len(w2) = Len(w) + z, Len(s2) = Len(s) + 1,
         \A n \in 1 .. Len(w) : w2[n] = w[n],
         \A i \in 1 .. z : w2[Len(w) + i] = <<Len(s) + 1, i>>,
         \A k \in 1 .. Len(s) : SizeOf(s2, k) = SizeOf(s, k) /\ SizeOf(s, k) \in Nat,
         SizeOf(s2, Len(s) + 1) = z
  PROVE  Framed(w2, s2) /\ \A n, g : EndsAt(n, g, w, s) => EndsAt(n, g, w2, s2)
<1>1. ASSUME NEW n, NEW g, EndsAt(n, g, w, s) PROVE EndsAt(n, g, w2, s2)
  <2>1. CASE n \in 1 .. Len(w) /\ g \in 1 .. Len(s) /\ w[n] = <<g, SizeOf(s, g)>>
    <3>1. n \in 1 .. Len(w2) /\ g \in 1 .. Len(s2)
      BY <2>1
    <3>2. w2[n] = <<g, SizeOf(s2, g)>>
      BY <2>1
    <3> QED BY <3>1, <3>2 DEF EndsAt
  <2> QED BY <1>1, <2>1 DEF EndsAt
<1>2. ASSUME NEW n \in 1 .. Len(w), NEW k \in 1 .. Len(s), NEW i \in 1 .. SizeOf(s, k), ByteOf(n, k, i, w, s)
      PROVE  ByteOf(n, k, i, w2, s2)
  <2>0. n \in Nat /\ n <= Len(w) /\ SizeOf(s2, k) = SizeOf(s, k)
    OBVIOUS
  <2>1. w2[n] = <<k, i>>
    BY <1>2 DEF ByteOf
  <2>2. ASSUME NEW j \in 1 .. SizeOf(s, k) PROVE n - i + j \in 1 .. Len(w2) /\ w2[n - i + j] = <<k, j>>
    <3>1. n - i + j \in 1 .. Len(w) /\ w[n - i + j] = <<k, j>>
      BY <1>2, Zenon DEF ByteOf
    <3>2. \A m \in 1 .. Len(w) : m \in 1 .. Len(w2)
      OBVIOUS
    <3> QED BY <3>1, <3>2, Zenon
  <2>3. ASSUME i = SizeOf(s, k) PROVE w2[n + 1] = <<k + 1, 1>>
    <3>1. CASE n < Len(w)
      <4>1. n + 1 \in 1 .. Len(w)
        BY <3>1
      <4>2. w[n + 1] = <<k + 1, 1>>
        BY <1>2, <2>3, <3>1, Zenon DEF ByteOf
      <4> QED BY <4>1, <4>2
    <3>2. CASE n = Len(w)
      <4>1. k = Len(s)
        BY <1>2, <3>2 DEF ByteOf
      <4>2. w2[Len(w) + 1] = <<Len(s) + 1, 1>>
        OBVIOUS
      <4> QED BY <3>2, <4>1, <4>2
    <3> QED BY <2>0, <3>1, <3>2
  <2>4. n = 1 => k = 1 /\ i = 1
    BY <1>2 DEF ByteOf
  <2>5. n # Len(w2)
    BY <2>0
  <2> QED BY <2>0, <2>1, <2>2, <2>3, <2>4, <2>5, Zenon DEF ByteOf
<1>3. ASSUME NEW i \in 1 .. z PROVE ByteOf(Len(w) + i, Len(s) + 1, i, w2, s2)
  <2>1. ASSUME NEW j \in 1 .. z
        PROVE  (Len(w) + i) - i + j \in 1 .. Len(w2) /\ w2[(Len(w) + i) - i + j] = <<Len(s) + 1, j>>
    <3>1. (Len(w) + i) - i + j = Len(w) + j /\ Len(w) + j \in 1 .. Len(w) + z
      OBVIOUS
    <3> QED BY <3>1
  <2>2. Len(w) + i = Len(w2) => i = z
    OBVIOUS
  <2>3. i = z => ~(Len(w) + i < Len(w2))
    OBVIOUS
  <2>4. Len(w) + i = 1 => Len(s) + 1 = 1 /\ i = 1
    BY DEF Framed
  <2> QED BY <2>1, <2>2, <2>3, <2>4 DEF ByteOf
<1>4. ASSUME NEW n \in 1 .. Len(w2)
      PROVE  \E k \in 1 .. Len(s2) : \E i \in 1 .. SizeOf(s2, k) : ByteOf(n, k, i, w2, s2)
  <2>1. CASE n \in 1 .. Len(w)
    <3>1. PICK k \in 1 .. Len(s), i \in Int : i \in 1 .. SizeOf(s, k) /\ ByteOf(n, k, i, w, s)
      BY <2>1 DEF Framed
    <3>2. k \in 1 .. Len(s2) /\ i \in 1 .. SizeOf(s2, k)
      BY <3>1
    <3> QED BY <1>2, <2>1, <3>1, <3>2
  <2>2. CASE n \notin 1 .. Len(w)
    <3>1. n - Len(w) \in 1 .. z /\ Len(w) + (n - Len(w)) = n /\ Len(s) + 1 \in 1 .. Len(s2)
      BY <2>2
    <3>2. ByteOf(Len(w) + (n - Len(w)), Len(s) + 1, n - Len(w), w2, s2)
      BY <1>3, <3>1
    <3> QED BY <3>1, <3>2, Zenon
  <2> QED BY <2>1, <2>2
<1>5. Len(w2) # 0
  OBVIOUS
<1> QED BY <1>1, <1>4, <1>5 DEF Framed

\* What Post does to the two sequences.
LEMMA FramedAppend ==
  ASSUME NEW s \in Seq(DataSizes), NEW w \in Seq(Byte), Framed(w, s), NEW d \in DataSizes, SizesFit,
         NEW b, b = [i \in 1 .. HEADER + d |-> <<Len(s) + 1, i>>]
  PROVE  /\ Append(s, d) \in Seq(DataSizes) /\ w \o b \in Seq(Byte)
         /\ Framed(w \o b, Append(s, d))
         /\ Len(w) <= Len(w \o b)
         /\ \A n, g : EndsAt(n, g, w, s) => EndsAt(n, g, w \o b, Append(s, d))
<1>1. PICK z \in Nat : z = HEADER + d /\ z > 0
  BY SizeIsKept
<1>2. Len(w) \in Nat /\ Len(s) \in Nat
  BY LenProperties
<1>3. b \in Seq(Byte) /\ Len(b) = z /\ \A i \in 1 .. z : b[i] = <<Len(s) + 1, i>>
  <2>1. \A i \in 1 .. z : <<Len(s) + 1, i>> \in Byte
    BY <1>2 DEF Byte
  <2>2. b = [i \in 1 .. z |-> <<Len(s) + 1, i>>]
    BY <1>1
  <2>3. b \in [1 .. z -> Byte] /\ DOMAIN b = 1 .. z
    BY <2>1, <2>2
  <2>4. \A S : \A n \in Nat : \A q \in [1 .. n -> S] : q \in Seq(S)
    BY SeqDef
  <2>5. b \in Seq(Byte)
    BY <2>3, <2>4, Zenon
  <2>6. DOMAIN b = 1 .. Len(b) /\ Len(b) \in Nat
    BY <2>5, LenProperties, Zenon
  <2>7. \A m, n \in Nat : 1 .. m = 1 .. n => m = n
    OBVIOUS
  <2>8. Len(b) = z
    BY <2>3, <2>6, <2>7, Zenon
  <2> QED BY <2>2, <2>5, <2>8, Zenon
<1> HIDE DEF Byte
<1>4. PICK w2 : w2 = w \o b
  BY Zenon
<1>5. /\ w2 \in Seq(Byte) /\ Len(w2) = Len(w) + z
      /\ \A n \in 1 .. Len(w) : w2[n] = w[n]
      /\ \A i \in 1 .. z : w2[Len(w) + i] = <<Len(s) + 1, i>>
  <2>1. /\ w2 \in Seq(Byte) /\ Len(w2) = Len(w) + Len(b)
        /\ \A i \in 1 .. Len(w) + Len(b) : w2[i] = IF i <= Len(w) THEN w[i] ELSE b[i - Len(w)]
    BY <1>3, <1>4, ConcatProperties, Zenon
  <2>2. ASSUME NEW n \in 1 .. Len(w) PROVE w2[n] = w[n]
    <3>1. n \in 1 .. Len(w) + z /\ n <= Len(w)
      BY <1>2
    <3> QED BY <1>3, <2>1, <3>1, Zenon
  <2>3. ASSUME NEW i \in 1 .. z PROVE w2[Len(w) + i] = <<Len(s) + 1, i>>
    <3>1. Len(w) + i \in 1 .. Len(w) + z /\ ~(Len(w) + i <= Len(w)) /\ (Len(w) + i) - Len(w) = i
      BY <1>2
    <3>2. w2[Len(w) + i] = b[(Len(w) + i) - Len(w)]
      BY <1>3, <2>1, <3>1, Zenon
    <3> QED BY <1>3, <3>1, <3>2
  <2> QED BY <1>3, <2>1, <2>2, <2>3, Zenon
<1>6. PICK s2 : s2 = Append(s, d)
  BY Zenon
<1>7. /\ s2 \in Seq(DataSizes) /\ Len(s2) = Len(s) + 1 /\ s2[Len(s) + 1] = d
      /\ \A k \in 1 .. Len(s) : s2[k] = s[k]
  BY <1>6, AppendProperties
<1>8. \A k \in 1 .. Len(s) : SizeOf(s2, k) = SizeOf(s, k) /\ SizeOf(s, k) \in Nat
  <2> TAKE k \in 1 .. Len(s)
  <2>1. s[k] \in DataSizes
    BY ElementOfSeq
  <2> QED BY <1>7, <2>1, SizeIsKept, Zenon DEF SizeOf
<1>9. SizeOf(s2, Len(s) + 1) = z
  BY <1>1, <1>7 DEF SizeOf
<1>10. Framed(w2, s2) /\ \A n, g : EndsAt(n, g, w, s) => EndsAt(n, g, w2, s2)
  BY <1>1, <1>2, <1>5, <1>7, <1>8, <1>9, FramedLonger, Zenon
<1>11. Len(w) <= Len(w2)
  BY <1>2, <1>5
<1> QED BY <1>4, <1>5, <1>6, <1>7, <1>10, <1>11, Zenon

\* Behind the first g packets is the whole of the next one.
LEMMA NextPacket ==
  ASSUME NEW s \in Seq(DataSizes), NEW w \in Seq(Byte), Framed(w, s), SizesFit,
         NEW n \in Nat, NEW g \in Nat, EndsAt(n, g, w, s), n < Len(w)
  PROVE  /\ w[n + 1] = <<g + 1, 1>> /\ g + 1 \in 1 .. Len(s)
         /\ s[g + 1] \in DataSizes /\ SizeOf(s, g + 1) \in Nat /\ SizeOf(s, g + 1) >= 1
         /\ \A j \in 1 .. SizeOf(s, g + 1) : n + j \in 1 .. Len(w) /\ w[n + j] = <<g + 1, j>>
<1>1. Len(w) \in Nat /\ Len(s) \in Nat /\ n + 1 \in 1 .. Len(w)
  BY LenProperties
<1>2. w[n + 1] = <<g + 1, 1>>
  <2>1. CASE n = 0 /\ g = 0
    <3>1. PICK k \in 1 .. Len(s), i \in Int : i \in 1 .. SizeOf(s, k) /\ ByteOf(1, k, i, w, s)
      BY <1>1, <2>1 DEF Framed
    <3> QED BY <2>1, <3>1 DEF ByteOf
  <2>2. CASE n \in 1 .. Len(w) /\ w[n] = <<g, SizeOf(s, g)>>
    <3>1. PICK k \in 1 .. Len(s), i \in Int : i \in 1 .. SizeOf(s, k) /\ ByteOf(n, k, i, w, s)
      BY <2>2 DEF Framed
    <3>2. k = g /\ i = SizeOf(s, g)
      BY <2>2, <3>1 DEF ByteOf
    <3> QED BY <3>1, <3>2 DEF ByteOf
  <2> QED BY <2>1, <2>2 DEF EndsAt
<1>3. PICK k \in 1 .. Len(s), i \in Int : i \in 1 .. SizeOf(s, k) /\ ByteOf(n + 1, k, i, w, s)
  BY <1>1 DEF Framed
<1>4. k = g + 1 /\ i = 1
  BY <1>2, <1>3 DEF ByteOf
<1>5. s[g + 1] \in DataSizes /\ SizeOf(s, g + 1) \in Nat /\ SizeOf(s, g + 1) >= 1
  <2>1. s[g + 1] \in DataSizes
    BY <1>3, <1>4, ElementOfSeq
  <2> QED BY <2>1, SizeIsKept DEF SizeOf
<1>6. ASSUME NEW j \in 1 .. SizeOf(s, g + 1) PROVE n + j \in 1 .. Len(w) /\ w[n + j] = <<g + 1, j>>
  <2>1. (n + 1) - 1 + j \in 1 .. Len(w) /\ w[(n + 1) - 1 + j] = <<g + 1, j>>
    BY <1>3, <1>4 DEF ByteOf
  <2>2. (n + 1) - 1 + j = n + j
    BY <1>5
  <2> QED BY <2>1, <2>2
<1> QED BY <1>2, <1>3, <1>4, <1>5, <1>6

\* and a later place where packets end is behind that one.
LEMMA NoEndInside ==
  ASSUME NEW s \in Seq(DataSizes), NEW w \in Seq(Byte), Framed(w, s), SizesFit,
         NEW n \in Nat, NEW g \in Nat, EndsAt(n, g, w, s), n < Len(w),
         NEW m \in Nat, NEW h \in Nat, EndsAt(m, h, w, s), n < m
  PROVE  n + SizeOf(s, g + 1) <= m
<1>0. SizeOf(s, g + 1) \in Nat /\ \A j \in 1 .. SizeOf(s, g + 1) : w[n + j] = <<g + 1, j>>
  BY NextPacket
<1> PICK z : z = SizeOf(s, g + 1)
  OBVIOUS
<1>1. z \in Nat /\ \A j \in 1 .. z : w[n + j] = <<g + 1, j>>
  BY <1>0
<1> SUFFICES ASSUME m < n + z PROVE FALSE
  BY <1>1
<1>2. m - n \in 1 .. z /\ n + (m - n) = m /\ m - n # z
  BY <1>1
<1>3. w[m] = <<g + 1, m - n>>
  BY <1>1, <1>2
<1>4. w[m] = <<h, SizeOf(s, h)>>
  BY DEF EndsAt
<1>5. h = g + 1 /\ m - n = SizeOf(s, h)
  BY <1>3, <1>4
<1> QED BY <1>2, <1>5

\* A receive that is not cut ends where a packet ends.
LEMMA BoundaryEnds ==
  ASSUME NEW s \in Seq(DataSizes), NEW w \in Seq(Byte), Framed(w, s), SizesFit,
         NEW n \in 1 .. Len(w), n = Len(w) \/ w[n + 1][2] = 1
  PROVE  \E g \in Nat : EndsAt(n, g, w, s)
<1>1. PICK k \in 1 .. Len(s), i \in Int : i \in 1 .. SizeOf(s, k) /\ ByteOf(n, k, i, w, s)
  BY DEF Framed
<1>2. Len(s) \in Nat /\ k \in Nat /\ s[k] \in DataSizes
  BY LenProperties, ElementOfSeq
<1>3. SizeOf(s, k) \in Nat
  BY <1>2, SizeIsKept DEF SizeOf
<1>4. i = SizeOf(s, k)
  <2> SUFFICES ASSUME i # SizeOf(s, k) PROVE FALSE
    OBVIOUS
  <2>1. n # Len(w)
    BY <1>1 DEF ByteOf
  <2>2. i + 1 \in 1 .. SizeOf(s, k) /\ n - i + (i + 1) = n + 1 /\ i + 1 # 1
    BY <1>1, <1>3
  <2>3. w[n - i + (i + 1)] = <<k, i + 1>>
    BY <1>1, <2>2 DEF ByteOf
  <2>4. w[n + 1] = <<k, i + 1>>
    BY <2>2, <2>3
  <2>5. w[n + 1][2] = i + 1
    BY <2>4
  <2> QED BY <2>1, <2>2, <2>5
<1>5. EndsAt(n, k, w, s)
  BY <1>1, <1>4 DEF EndsAt, ByteOf
<1> QED BY <1>2, <1>5

\* Nothing is sent at first.
LEMMA StreamInvInit == StreamInit => StreamInv
<1> SUFFICES ASSUME StreamInit PROVE StreamInv
  OBVIOUS
<1>1. \A S : <<>> \in Seq(S)
  BY EmptySeq
<1>2. Len(<<>>) = 0 /\ DOMAIN <<>> = {}
  BY EmptySeq
<1>3. Framed(wire, sent)
  BY <1>2 DEF StreamInit, Framed
<1>4. received + len = 0 /\ received + processed = 0
  BY DEF StreamInit
<1>5. AtPacket(received, len, processed, got, wire, sent)
  BY <1>2, <1>4 DEF StreamInit, AtPacket, EndsAt
<1> QED BY <1>1, <1>2, <1>3, <1>4, <1>5 DEF StreamInit, StreamInv

\* A call of OnRecvPacket behind the others.
LEMMA CallsGrow ==
  ASSUME NEW q \in Seq(Call), NEW e \in Call, NEW r, r = Append(q, e)
  PROVE  /\ Len(r) = Len(q) + 1 /\ DOMAIN r = 1 .. Len(q) + 1 /\ DOMAIN q = 1 .. Len(q)
         /\ r[Len(q) + 1] = e /\ \A i \in 1 .. Len(q) : r[i] = q[i]
BY AppendProperties, LenProperties

\* Each step, with sizes that fit.
LEMMA StreamInvNext ==
  ASSUME SizesFit, TypeOK, StreamInv, [StreamNext]_allVars
  PROVE  StreamInv'
<1>0. /\ sent \in Seq(DataSizes) /\ wire \in Seq(Byte) /\ got \in Seq(Call)
      /\ received \in Nat /\ len \in Nat /\ processed \in Nat /\ Framed(wire, sent)
      /\ Len(wire) \in Nat /\ Len(sent) \in Nat /\ Len(got) \in Nat /\ received + len <= Len(wire)
  BY LenProperties DEF StreamInv
<1>1. ASSUME NEW t \in Threads, Post(t) PROVE StreamInv'
  <2>1. request[t] \in DataSizes
    BY <1>1 DEF Post, Reserve, TypeOK
  <2> PICK d \in DataSizes : d = request[t]
    BY <2>1
  <2>2. PICK b : b = [i \in 1 .. HEADER + d |-> <<Len(sent) + 1, i>>]
    BY Zenon
  <2>3. /\ sent' = Append(sent, d) /\ wire' = wire \o b /\ UNCHANGED <<received, len, processed, got, cut>>
    BY <1>1, <2>2, SizeIsKept DEF Post
  <2>4. /\ sent' \in Seq(DataSizes) /\ wire' \in Seq(Byte) /\ Framed(wire', sent')
        /\ Len(wire) <= Len(wire')
        /\ \A n, g : EndsAt(n, g, wire, sent) => EndsAt(n, g, wire', sent')
    BY <1>0, <2>2, <2>3, FramedAppend, Zenon
  <2>5. Len(wire') \in Nat
    BY <2>4, LenProperties
  <2>6. received + len <= Len(wire')
    BY <1>0, <2>4, <2>5
  <2>7. ~cut' => AtPacket(received', len', processed', got', wire', sent')
    BY <2>3, <2>4, Zenon DEF StreamInv, AtPacket
  <2> QED BY <1>0, <2>3, <2>4, <2>6, <2>7 DEF StreamInv
<1>2. ASSUME NEW n \in 1 .. RecvFreeSize, ProcessRecv(n) PROVE StreamInv'
  <2>1. /\ len = 0 /\ len' = n /\ received + n <= Len(wire) /\ cut' = (cut \/ ~Boundary(received + n))
        /\ UNCHANGED <<sent, wire, received, processed, got>>
    BY <1>2 DEF ProcessRecv
  <2>2. n \in Nat /\ n >= 1 /\ received + n \in 1 .. Len(wire)
    BY <1>0, <1>2, <2>1, StreamAssumption DEF RecvFreeSize
  <2>3. processed = 0
    BY <2>1 DEF StreamInv
  <2>4. ASSUME ~cut'
        PROVE  \E g \in Nat : EndsAt(received + n, g, wire, sent)
    <3>1. Boundary(received + n)
      BY <2>1, <2>4, Zenon
    <3> QED BY <1>0, <2>2, <3>1, BoundaryEnds DEF Boundary
  <2>5. ~cut' => ~cut
    BY <2>1, Zenon
  <2>6. ~cut' => AtPacket(received', len', processed', got', wire', sent')
    <3> SUFFICES ASSUME ~cut' PROVE AtPacket(received', len', processed', got', wire', sent')
      OBVIOUS
    <3>1. AtPacket(received, len, processed, got, wire, sent)
      BY <2>5 DEF StreamInv
    <3>2. processed <= n
      BY <2>2, <2>3
    <3>3. AtPacket(received, n, processed, got, wire, sent)
      BY <2>4, <3>1, <3>2, Zenon DEF AtPacket
    <3> QED BY <2>1, <3>3, Zenon
  <2>7. len' \in Nat /\ received' + len' <= Len(wire') /\ len' # 0
    BY <2>1, <2>2
  <2> QED BY <1>0, <2>1, <2>6, <2>7 DEF StreamInv
<1>3. CASE OnRecvPacket
  <2> PICK m : m = received + processed
    OBVIOUS
  <2> PICK g : g = Len(got)
    BY Zenon
  <2> PICK byte : byte = wire[m + 1]
    OBVIOUS
  <2>1. /\ len > 0 /\ processed < len /\ UNCHANGED <<sent, wire, received, len, cut>>
        /\ \E size \in SizesAt(byte) :
             /\ got' = Append(got, <<byte[1], /\ byte[2] = 1 /\ processed + size <= len
                                              /\ size = HEADER + sent[byte[1]]>>)
             /\ processed' = processed + size
    BY <1>3, Zenon DEF OnRecvPacket, More
  <2>2. PICK size \in SizesAt(byte), whole \in BOOLEAN :
          /\ got' = Append(got, <<byte[1], whole>>) /\ processed' = processed + size
          /\ whole <=> byte[2] = 1 /\ processed + size <= len /\ size = HEADER + sent[byte[1]]
    BY <2>1, Zenon
  <2>3. m \in Nat /\ m < received + len /\ m < Len(wire) /\ m + 1 \in 1 .. Len(wire) /\ g \in Nat
    BY <1>0, <2>1
  <2>4. byte \in Byte
    BY <1>0, <2>3, ElementOfSeq
  <2>5. size \in Nat
    <3>1. CASE size \in 0 .. U16 - 1
      BY <3>1, SizesAssumption
    <3>2. PICK k \in 1 .. Len(sent), i \in Int : i \in 1 .. SizeOf(sent, k) /\ ByteOf(m + 1, k, i, wire, sent)
      BY <1>0, <2>3 DEF Framed
    <3>3. byte[1] = k /\ sent[k] \in DataSizes
      BY <1>0, <3>2, ElementOfSeq DEF ByteOf
    <3> QED BY <2>2, <3>1, <3>3, PacketSizeNat DEF SizesAt
  <2>6. got' \in Seq(Call) /\ processed' \in Nat
    <3>1. <<byte[1], whole>> \in Call
      BY <2>4 DEF Byte, Call
    <3>2. got' \in Seq(Call)
      BY <1>0, <2>2, <3>1, AppendProperties
    <3> QED BY <1>0, <2>2, <2>5, <3>2
  <2>7. ASSUME ~cut'
        PROVE  /\ EndsAt(received + processed', Len(got'), wire, sent)
               /\ processed' <= len
               /\ \A i \in DOMAIN got' : got'[i] = <<i, TRUE>>
    <3>0. ~cut
      BY <2>1, <2>7
    <3>1. EndsAt(m, g, wire, sent) /\ \A i \in DOMAIN got : got[i] = <<i, TRUE>>
      BY <3>0, Zenon DEF StreamInv, AtPacket
    <3>2. PICK h \in Nat : EndsAt(received + len, h, wire, sent)
      BY <3>0 DEF StreamInv, AtPacket
    <3> PICK z : z = SizeOf(sent, g + 1)
      OBVIOUS
    <3>3. /\ byte = <<g + 1, 1>> /\ g + 1 \in 1 .. Len(sent) /\ sent[g + 1] \in DataSizes /\ z \in Nat /\ z >= 1
          /\ m + z \in 1 .. Len(wire) /\ wire[m + z] = <<g + 1, z>>
      <4>1. /\ wire[m + 1] = <<g + 1, 1>> /\ g + 1 \in 1 .. Len(sent) /\ sent[g + 1] \in DataSizes
            /\ SizeOf(sent, g + 1) \in Nat /\ SizeOf(sent, g + 1) >= 1
            /\ \A j \in 1 .. SizeOf(sent, g + 1) : m + j \in 1 .. Len(wire) /\ wire[m + j] = <<g + 1, j>>
        BY <1>0, <2>3, <3>1, NextPacket
      <4>2. z \in 1 .. SizeOf(sent, g + 1)
        BY <4>1
      <4> QED BY <4>1, <4>2
    <3>4. m + z <= received + len
      <4>1. received + len \in Nat
        BY <1>0
      <4> QED BY <1>0, <2>3, <3>1, <3>2, <4>1, NoEndInside
    <3>5. processed + z <= len
      BY <1>0, <3>3, <3>4
    <3>6. z = HEADER + sent[g + 1] /\ PacketSize(sent[g + 1]) = z /\ sent[g + 1] \in Nat /\ HEADER \in Nat
      BY <3>3, SizeIsKept, SizesAssumption, Zenon DEF SizeOf
    <3>7. processed + HEADER <= len
      <4>1. \A a, b, n, k \in Nat : a + (b + n) <= k => a + b <= k
        OBVIOUS
      <4> QED BY <1>0, <3>5, <3>6, <4>1
    <3>8. size = z
      BY <2>2, <3>3, <3>6, <3>7 DEF SizesAt
    <3>9. whole
      BY <2>2, <3>3, <3>5, <3>6, <3>8
    <3>10. got' = Append(got, <<g + 1, TRUE>>) /\ processed' = processed + z
      <4>1. whole = TRUE /\ byte[1] = g + 1
        BY <3>3, <3>9
      <4> QED BY <2>2, <3>8, <4>1, Zenon
    <3>11. /\ Len(got') = g + 1 /\ DOMAIN got' = 1 .. g + 1 /\ DOMAIN got = 1 .. g
           /\ got'[g + 1] = <<g + 1, TRUE>> /\ \A i \in 1 .. g : got'[i] = got[i]
      <4>1. g + 1 \in Nat
        BY <2>3
      <4>2. <<g + 1, TRUE>> \in Call
        BY <4>1, Zenon DEF Call
      <4>3. got \in Seq(Call) /\ got' = Append(got, <<g + 1, TRUE>>) /\ g = Len(got)
        BY <1>0, <3>10
      <4>4. PICK e \in Call : e = <<g + 1, TRUE>>
        BY <4>2, Zenon
      <4>5. got' = Append(got, e)
        BY <4>3, <4>4
      <4>6. /\ Len(got') = Len(got) + 1 /\ DOMAIN got' = 1 .. Len(got) + 1 /\ DOMAIN got = 1 .. Len(got)
            /\ got'[Len(got) + 1] = e /\ \A i \in 1 .. Len(got) : got'[i] = got[i]
        <5>1. got \in Seq(Call)
          BY <4>3
        <5>2. PICK calls : calls = got'
          OBVIOUS
        <5>3. /\ Len(calls) = Len(got) + 1 /\ DOMAIN calls = 1 .. Len(got) + 1 /\ DOMAIN got = 1 .. Len(got)
              /\ calls[Len(got) + 1] = e /\ \A i \in 1 .. Len(got) : calls[i] = got[i]
          BY <4>5, <5>1, <5>2, CallsGrow
        <5> QED BY <5>2, <5>3, Zenon
      <4> QED BY <4>3, <4>4, <4>6, Zenon
    <3>12. \A i \in 1 .. g + 1 : got'[i] = <<i, TRUE>>
      <4>1. \A i \in 1 .. g + 1 : i = g + 1 \/ i \in 1 .. g
        BY <2>3
      <4> QED BY <3>1, <3>11, <4>1, Zenon
    <3>13. received + processed' = m + z
      BY <1>0, <3>3, <3>10
    <3>14. EndsAt(received + processed', Len(got'), wire, sent)
      BY <3>3, <3>11, <3>13 DEF EndsAt
    <3> QED BY <3>5, <3>10, <3>11, <3>12, <3>14, Zenon
  <2>8. ~cut' => \E h \in Nat : EndsAt(received + len, h, wire, sent)
    BY <2>1 DEF StreamInv, AtPacket
  <2>9. ~cut' => AtPacket(received', len', processed', got', wire', sent')
    BY <2>1, <2>7, <2>8, Zenon DEF AtPacket
  <2>10. len' # 0
    BY <1>0, <2>1
  <2> QED BY <1>0, <2>1, <2>6, <2>9, <2>10 DEF StreamInv
<1>4. CASE OnRecvReturns
  <2>1. /\ ~(processed < len) /\ received' = received + len /\ len' = 0 /\ processed' = 0
        /\ UNCHANGED <<sent, wire, got, cut>>
    BY <1>4 DEF OnRecvReturns, More
  <2>2. received' \in Nat /\ received' + len' = received + len /\ received' + processed' = received + len
    BY <1>0, <2>1
  <2>3. ~cut => processed = len
    BY <1>0, <2>1 DEF StreamInv, AtPacket
  <2>4. ~cut' => AtPacket(received', len', processed', got', wire', sent')
    <3> SUFFICES ASSUME ~cut' PROVE AtPacket(received', len', processed', got', wire', sent')
      OBVIOUS
    <3>1. AtPacket(received, len, len, got, wire, sent)
      BY <2>1, <2>3 DEF StreamInv
    <3>2. EndsAt(received + len, Len(got), wire, sent) /\ \A i \in DOMAIN got : got[i] = <<i, TRUE>>
      BY <3>1, Zenon DEF AtPacket
    <3>3. EndsAt(received' + processed', Len(got'), wire', sent') /\ EndsAt(received' + len', Len(got'), wire', sent')
      BY <2>1, <2>2, <3>2
    <3>4. processed' <= len' /\ Len(got') \in Nat
      BY <1>0, <2>1
    <3> QED BY <2>1, <3>2, <3>3, <3>4, Zenon DEF AtPacket
  <2>5. received' + len' <= Len(wire')
    BY <1>0, <2>1, <2>2
  <2> QED BY <1>0, <2>1, <2>2, <2>4, <2>5 DEF StreamInv
<1>5. CASE UNCHANGED streamVars
  BY <1>5 DEF streamVars, StreamInv
<1> QED BY <1>1, <1>2, <1>3, <1>4, <1>5 DEF StreamNext, SendSide, ReceiveSide, allVars

\* If no packet is so large that its size wraps around in the header, TCP may cut the
\* stream between any packets and every one is handed to OnRecvPacket as it was sent
\* (PacketWrapper.h:39, PacketSession.cpp:77-94, Session.cpp:240).
THEOREM PacketsHandedAsSent == ASSUME SizesFit PROVE StreamSpec => []HandedAsSent
<1>1. StreamInit => IInv /\ StreamInv
  BY IInvInit, StreamInvInit DEF StreamInit
<1>2. IInv /\ StreamInv /\ [StreamNext]_allVars => (IInv /\ StreamInv)'
  BY IInvNext, StreamSteps, StreamInvNext DEF IInv, OneOwner
<1>3. StreamInv => HandedAsSent
  <2> SUFFICES ASSUME StreamInv, ~cut, len = 0, received > 0 PROVE wire[received][1] = Len(got)
    BY Zenon DEF HandedAsSent, StreamInv, AtPacket
  <2>1. received + processed = received /\ received # 0
    BY DEF StreamInv
  <2>2. wire[received] = <<Len(got), SizeOf(sent, Len(got))>>
    BY <2>1 DEF StreamInv, AtPacket, EndsAt
  <2> QED BY <2>2
<1> QED BY <1>1, <1>2, <1>3, PTL DEF StreamSpec
=============================================================================
