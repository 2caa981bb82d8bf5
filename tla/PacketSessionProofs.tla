------------------------ MODULE PacketSessionProofs ------------------------
(***************************************************************************)
(* Proofs about the send path, of a Session by itself and below a          *)
(* PacketSession, for any sets of threads and packets.  OneSender is not   *)
(* inductive: nothing in it keeps a second thread from winning the         *)
(* exchange.  SendInv adds that the flag is set while a thread is in       *)
(* _register_send, and is not set before the session is connected.  What   *)
(* becomes of the packets follows from it: PostInv and FlushInv.           *)
(***************************************************************************)
EXTENDS PacketSession, SequenceTheorems, TLAPS

InRegister(t) == pc[t] # "idle"

SendInv ==
  /\ state \in {"new", "open", "closed"}
  /\ sending \in BOOLEAN
  /\ pc \in [Threads -> {"idle", "register", "move", "post", "end"}]
  /\ \A t \in Threads : InRegister(t) => sending
  /\ \A t, u \in Threads : InRegister(t) /\ InRegister(u) => t = u
  /\ ~EarlySend /\ state = "new" => ~sending
  /\ ~EarlySend /\ state = "open" /\ sending => \E t \in Threads : InRegister(t)

\* The invariant of the send path says in particular that _sending has one owner.
LEMMA SendInvGives == SendInv => OneSender
BY DEF SendInv, InRegister, OneSender, SendingHasSender, IsConnected

\* A session as constructed, with _sending false, satisfies the invariant.
LEMMA SendInvInit == Init => SendInv
BY Zenon DEF Init, SendInv, InRegister

\* Whoever calls _send, with however many packets: the exchange lets one thread in.
LEMMA SendKeeps == ASSUME SendInv, NEW t \in Threads, NEW buffers, Send(t, buffers) PROVE SendInv'
<1>1. CASE sending
  <2>1. UNCHANGED <<state, pc>> /\ sending' = TRUE
    BY <1>1 DEF Send, Exchange, Goto, SendInv
  <2> QED BY <1>1, <2>1 DEF SendInv, InRegister
<1>2. CASE ~sending
  <2>1. pc' = [pc EXCEPT ![t] = "register"] /\ sending' = TRUE /\ state' = state
    BY <1>2 DEF Send, Exchange, Goto
  <2>2. \A u \in Threads : ~InRegister(u)
    BY <1>2 DEF SendInv
  <2>3. EarlySend \/ state # "new"
    BY DEF Send
  <2> QED BY <2>1, <2>2, <2>3 DEF SendInv, InRegister
<1> QED BY <1>1, <1>2 DEF SendInv

\* A thread in _register_send: it gives the flag back at the end, or leaves early
\* because the session is not connected.
LEMMA RegisterKeeps == ASSUME SendInv, NEW t \in Threads, Register(t) PROVE SendInv'
<1> USE DEF SendInv, InRegister, Goto, IsConnected
<1>1. CASE RegisterSend(t)
  BY <1>1 DEF RegisterSend
<1>2. CASE MoveSegments(t)
  BY <1>2 DEF MoveSegments
<1>3. CASE WSASend(t)
  BY <1>3 DEF WSASend
<1>4. CASE RegisterEnd(t)
  BY <1>4, Zenon DEF RegisterEnd
<1> QED BY <1>1, <1>2, <1>3, <1>4 DEF Register

\* Connecting, a completed send, disconnecting and _clear keep the invariant.
LEMMA EnvironmentKeeps == SendInv /\ Environment => SendInv'
BY DEF Environment, SetConnected, ProcessSend, Disconnect, Clear, SendInv, InRegister, IsConnected

\* A step of the packet session that leaves the send path alone keeps the invariant.
LEMMA UnchangedKeeps == SendInv /\ UNCHANGED vars => SendInv'
BY DEF vars, SendInv, InRegister

-----------------------------------------------------------------------------
\* However many threads call _send on a session while it connects, fails and is
\* closed, one at a time is in _register_send and uses _sendEvent, and, when callers
\* wait for the connection, the flag is not left set behind (Session.cpp:45-50,
\* 134-158).
THEOREM SessionHasOneSender == Spec => []OneSender
<1>1. SendInv /\ [Next]_vars => SendInv'
  BY SendKeeps, RegisterKeeps, EnvironmentKeeps, UnchangedKeeps, Zenon DEF Next
<1> QED BY SendInvInit, SendInvGives, <1>1, PTL DEF Spec

-----------------------------------------------------------------------------
(***************************************************************************)
(* The order of the packets.  PostInv says of the three places a packet    *)
(* can be in, _sendQueue, the segments not posted yet and posted, that     *)
(* each has its packets in the order they were accepted, and all of one    *)
(* place before all of the next.                                           *)
(***************************************************************************)
Ordered(q, of) == \A i, k \in DOMAIN q : i < k => PlaceIn(of, q[i]) < PlaceIn(of, q[k])
Precedes(q, r, of) == \A i \in DOMAIN q, k \in DOMAIN r : PlaceIn(of, q[i]) < PlaceIn(of, r[k])
InLine(q, r, s, of) ==
  /\ Ordered(q, of) /\ Ordered(r, of) /\ Ordered(s, of)
  /\ Precedes(q, r, of) /\ Precedes(q, s, of) /\ Precedes(r, s, of)

PostInv ==
  /\ TypeOK
  /\ IsInjective(accepted)
  /\ (\A t \in Threads : pc[t] \notin {"post", "end"}) => segments = <<>>
  /\ ToSet(posted) \cup ToSet(Unposted) \cup ToSet(sendQueue) = ToSet(accepted) \ dropped
  /\ dropped \subseteq ToSet(accepted)
  /\ InLine(posted, Unposted, sendQueue, accepted)

\* PlaceIn finds where a packet is,
LEMMA PlaceFinds ==
  ASSUME NEW q, NEW x \in ToSet(q)
  PROVE  PlaceIn(q, x) \in DOMAIN q /\ q[PlaceIn(q, x)] = x
BY DEF ToSet, PlaceIn

\* which in a sequence without repetition is one place,
LEMMA PlaceUnique ==
  ASSUME NEW q, IsInjective(q), NEW i \in DOMAIN q
  PROVE  PlaceIn(q, q[i]) = i
<1>1. q[i] \in ToSet(q)
  BY DEF ToSet
<1> QED BY <1>1, PlaceFinds DEF IsInjective

\* What a concatenation consists of.
LEMMA Concatenated ==
  ASSUME NEW S, NEW q \in Seq(S), NEW r \in Seq(S)
  PROVE  /\ q \o r \in Seq(S)
         /\ DOMAIN q = 1 .. Len(q) /\ DOMAIN r = 1 .. Len(r) /\ Len(q) \in Nat /\ Len(r) \in Nat
         /\ DOMAIN (q \o r) = 1 .. Len(q) + Len(r)
         /\ \A i \in DOMAIN q : (q \o r)[i] = q[i]
         /\ \A i \in DOMAIN r : Len(q) + i \in DOMAIN (q \o r) /\ (q \o r)[Len(q) + i] = r[i]
         /\ \A i \in DOMAIN (q \o r) : i \in DOMAIN q \/ i - Len(q) \in DOMAIN r
<1>1. /\ q \o r \in Seq(S) /\ Len(q \o r) = Len(q) + Len(r)
      /\ \A i \in 1 .. Len(q) + Len(r) : (q \o r)[i] = IF i <= Len(q) THEN q[i] ELSE r[i - Len(q)]
  BY ConcatProperties
<1>2. /\ DOMAIN q = 1 .. Len(q) /\ DOMAIN r = 1 .. Len(r) /\ Len(q) \in Nat /\ Len(r) \in Nat
      /\ DOMAIN (q \o r) = 1 .. Len(q \o r)
  BY <1>1, LenProperties
<1>3. \A i \in DOMAIN q : (q \o r)[i] = q[i]
  BY <1>1, <1>2
<1>4. \A i \in DOMAIN r : Len(q) + i \in DOMAIN (q \o r) /\ (q \o r)[Len(q) + i] = r[i]
  <2> TAKE i \in DOMAIN r
  <2>1. /\ Len(q) + i \in 1 .. Len(q) + Len(r) /\ ~(Len(q) + i <= Len(q)) /\ (Len(q) + i) - Len(q) = i
    BY <1>2
  <2>2. (q \o r)[Len(q) + i] = r[(Len(q) + i) - Len(q)]
    BY <1>1, <2>1
  <2> QED BY <1>1, <1>2, <2>1, <2>2
<1> QED BY <1>1, <1>2, <1>3, <1>4

\* Its elements are those of the two,
LEMMA ToSetConcat ==
  ASSUME NEW S, NEW q \in Seq(S), NEW r \in Seq(S)
  PROVE  ToSet(q \o r) = ToSet(q) \cup ToSet(r)
<1>1. \A i \in DOMAIN q : i \in DOMAIN (q \o r)
  BY Concatenated
<1>2. \A i \in DOMAIN (q \o r) : i \in DOMAIN q \/ (i - Len(q) \in DOMAIN r /\ Len(q) + (i - Len(q)) = i)
  BY Concatenated
<1>3. ASSUME NEW x \in ToSet(q \o r) PROVE x \in ToSet(q) \cup ToSet(r)
  <2>1. PICK i \in DOMAIN (q \o r) : x = (q \o r)[i]
    BY <1>3 DEF ToSet
  <2>2. CASE i \in DOMAIN q
    BY <2>1, <2>2, Concatenated DEF ToSet
  <2>3. CASE i - Len(q) \in DOMAIN r /\ Len(q) + (i - Len(q)) = i
    <3>1. (q \o r)[Len(q) + (i - Len(q))] = r[i - Len(q)]
      BY <2>3, Concatenated
    <3> QED BY <2>1, <2>3, <3>1 DEF ToSet
  <2> QED BY <1>2, <2>2, <2>3
<1>4. ASSUME NEW x \in ToSet(q) PROVE x \in ToSet(q \o r)
  <2>1. PICK i \in DOMAIN q : x = q[i]
    BY <1>4 DEF ToSet
  <2> QED BY <1>1, <2>1, Concatenated DEF ToSet
<1>5. ASSUME NEW x \in ToSet(r) PROVE x \in ToSet(q \o r)
  <2>1. PICK i \in DOMAIN r : x = r[i]
    BY <1>5 DEF ToSet
  <2>2. Len(q) + i \in DOMAIN (q \o r) /\ (q \o r)[Len(q) + i] = x
    BY <2>1, Concatenated
  <2> QED BY <2>2 DEF ToSet
<1> QED BY <1>3, <1>4, <1>5

\* and it is in order if each is and the first comes before the second.
LEMMA OrderedConcat ==
  ASSUME NEW S, NEW q \in Seq(S), NEW r \in Seq(S), NEW of, Ordered(q, of), Ordered(r, of), Precedes(q, r, of)
  PROVE  Ordered(q \o r, of)
<1> SUFFICES ASSUME NEW i \in DOMAIN (q \o r), NEW k \in DOMAIN (q \o r), i < k
             PROVE  PlaceIn(of, (q \o r)[i]) < PlaceIn(of, (q \o r)[k])
  BY DEF Ordered
<1>1. i \in Nat /\ k \in Nat /\ Len(q) \in Nat /\ DOMAIN q = 1 .. Len(q) /\ DOMAIN r = 1 .. Len(r)
  BY Concatenated
<1>2. \A n \in DOMAIN (q \o r) \ DOMAIN q : n - Len(q) \in DOMAIN r /\ (q \o r)[n] = r[n - Len(q)] /\ n > Len(q)
  <2> TAKE n \in DOMAIN (q \o r) \ DOMAIN q
  <2>1. n - Len(q) \in DOMAIN r /\ Len(q) + (n - Len(q)) = n /\ n > Len(q)
    BY Concatenated
  <2>2. (q \o r)[Len(q) + (n - Len(q))] = r[n - Len(q)]
    BY <2>1, Concatenated
  <2> QED BY <2>1, <2>2
<1>3. \A n \in DOMAIN q : (q \o r)[n] = q[n]
  BY Concatenated
<1>4. CASE k \in DOMAIN q
  <2>1. i \in DOMAIN q
    BY <1>1, <1>2, <1>4
  <2> QED BY <1>3, <1>4, <2>1 DEF Ordered
<1>5. CASE i \in DOMAIN q /\ k \notin DOMAIN q
  BY <1>2, <1>3, <1>5 DEF Precedes
<1>6. CASE i \notin DOMAIN q /\ k \notin DOMAIN q
  <2>1. i - Len(q) < k - Len(q)
    BY <1>1
  <2> QED BY <1>2, <1>6, <2>1 DEF Ordered
<1> QED BY <1>4, <1>5, <1>6

\* Packets that are added keep the places of the others.
LEMMA PlaceKept ==
  ASSUME NEW S, NEW q \in Seq(S), NEW r \in Seq(S), IsInjective(q), IsInjective(r), ToSet(q) \cap ToSet(r) = {}
  PROVE  /\ IsInjective(q \o r)
         /\ \A x \in ToSet(q) : PlaceIn(q \o r, x) = PlaceIn(q, x) /\ PlaceIn(q, x) \in 1 .. Len(q)
         /\ \A i \in DOMAIN r : PlaceIn(q \o r, r[i]) = Len(q) + i
<1>1. IsInjective(q \o r)
  <2> SUFFICES ASSUME NEW i \in DOMAIN (q \o r), NEW k \in DOMAIN (q \o r), (q \o r)[i] = (q \o r)[k]
               PROVE  i = k
    BY DEF IsInjective
  <2>1. \A n \in DOMAIN (q \o r) :
          \/ n \in DOMAIN q /\ (q \o r)[n] = q[n] /\ q[n] \in ToSet(q)
          \/ /\ n - Len(q) \in DOMAIN r /\ (q \o r)[n] = r[n - Len(q)] /\ r[n - Len(q)] \in ToSet(r)
    <3> TAKE n \in DOMAIN (q \o r)
    <3>1. CASE n \in DOMAIN q
      BY <3>1, Concatenated DEF ToSet
    <3>2. CASE n \notin DOMAIN q
      <4>1. n - Len(q) \in DOMAIN r /\ Len(q) + (n - Len(q)) = n
        BY <3>2, Concatenated
      <4>2. (q \o r)[Len(q) + (n - Len(q))] = r[n - Len(q)]
        BY <4>1, Concatenated
      <4> QED BY <4>1, <4>2 DEF ToSet
    <3> QED BY <3>1, <3>2
  <2>2. i \in Nat /\ k \in Nat /\ Len(q) \in Nat
    BY Concatenated
  <2>3. CASE i \in DOMAIN q /\ k \in DOMAIN q
    BY <2>3, Concatenated DEF IsInjective
  <2>4. CASE i - Len(q) \in DOMAIN r /\ k - Len(q) \in DOMAIN r /\ (q \o r)[i] \notin ToSet(q) /\ (q \o r)[k] \notin ToSet(q)
    <3>1. r[i - Len(q)] = r[k - Len(q)]
      BY <2>1, <2>4
    <3>2. i - Len(q) = k - Len(q)
      BY <2>4, <3>1 DEF IsInjective
    <3> QED BY <2>2, <3>2
  <2> QED BY <2>1, <2>3, <2>4
<1>2. ASSUME NEW x \in ToSet(q) PROVE PlaceIn(q \o r, x) = PlaceIn(q, x) /\ PlaceIn(q, x) \in 1 .. Len(q)
  <2>1. PlaceIn(q, x) \in DOMAIN q /\ q[PlaceIn(q, x)] = x
    BY PlaceFinds
  <2>2. PlaceIn(q, x) \in DOMAIN (q \o r) /\ (q \o r)[PlaceIn(q, x)] = x
    BY <2>1, Concatenated
  <2>3. PlaceIn(q \o r, (q \o r)[PlaceIn(q, x)]) = PlaceIn(q, x)
    BY <1>1, <2>2, PlaceUnique, Zenon
  <2>4. DOMAIN q = 1 .. Len(q)
    BY LenProperties
  <2> QED BY <2>1, <2>2, <2>3, <2>4
<1>3. ASSUME NEW i \in DOMAIN r PROVE PlaceIn(q \o r, r[i]) = Len(q) + i
  <2>1. Len(q) + i \in DOMAIN (q \o r) /\ (q \o r)[Len(q) + i] = r[i]
    BY Concatenated
  <2> QED BY <1>1, <2>1, PlaceUnique, Zenon
<1> QED BY <1>1, <1>2, <1>3

\* A part of the accepted packets stays in line when others are accepted behind them.
LEMMA InLineKept ==
  ASSUME NEW S, NEW a \in Seq(S), NEW b \in Seq(S), IsInjective(a), IsInjective(b), ToSet(a) \cap ToSet(b) = {},
         NEW q \in Seq(S), NEW r \in Seq(S), NEW s \in Seq(S), InLine(q, r, s, a),
         ToSet(q) \cup ToSet(r) \cup ToSet(s) \subseteq ToSet(a)
  PROVE  InLine(q, r, s \o b, a \o b)
<1>1. /\ \A x \in ToSet(a) : PlaceIn(a \o b, x) = PlaceIn(a, x) /\ PlaceIn(a, x) \in 1 .. Len(a)
      /\ \A i \in DOMAIN b : PlaceIn(a \o b, b[i]) = Len(a) + i
      /\ Len(a) \in Nat /\ DOMAIN b = 1 .. Len(b)
  <2>1. Len(a) \in Nat /\ DOMAIN b = 1 .. Len(b)
    BY LenProperties
  <2>2. /\ \A x \in ToSet(a) : PlaceIn(a \o b, x) = PlaceIn(a, x) /\ PlaceIn(a, x) \in 1 .. Len(a)
        /\ \A i \in DOMAIN b : PlaceIn(a \o b, b[i]) = Len(a) + i
    BY PlaceKept, Zenon
  <2> QED BY <2>1, <2>2
<1>2. /\ \A i \in DOMAIN q : q[i] \in ToSet(a)
      /\ \A i \in DOMAIN r : r[i] \in ToSet(a)
      /\ \A i \in DOMAIN s : s[i] \in ToSet(a)
  BY Zenon DEF ToSet
<1>3. Ordered(q, a \o b) /\ Ordered(r, a \o b) /\ Ordered(s, a \o b)
  BY <1>1, <1>2 DEF InLine, Ordered
<1>4. Precedes(q, r, a \o b) /\ Precedes(q, s, a \o b) /\ Precedes(r, s, a \o b)
  BY <1>1, <1>2 DEF InLine, Precedes
<1>5. Precedes(q, b, a \o b) /\ Precedes(r, b, a \o b) /\ Precedes(s, b, a \o b)
  BY <1>1, <1>2 DEF Precedes
<1>6. Ordered(b, a \o b)
  BY <1>1 DEF Ordered
<1>7. Ordered(s \o b, a \o b)
  BY <1>3, <1>5, <1>6, OrderedConcat
<1>8. ASSUME NEW x \in Seq(S), Precedes(x, s, a \o b), Precedes(x, b, a \o b)
      PROVE  Precedes(x, s \o b, a \o b)
  <2> SUFFICES ASSUME NEW i \in DOMAIN x, NEW k \in DOMAIN (s \o b)
               PROVE  PlaceIn(a \o b, x[i]) < PlaceIn(a \o b, (s \o b)[k])
    BY DEF Precedes
  <2>1. CASE k \in DOMAIN s
    BY <1>8, <2>1, Concatenated DEF Precedes
  <2>2. CASE k \notin DOMAIN s
    <3>1. k - Len(s) \in DOMAIN b /\ Len(s) + (k - Len(s)) = k
      BY <2>2, Concatenated
    <3>2. (s \o b)[Len(s) + (k - Len(s))] = b[k - Len(s)]
      BY <3>1, Concatenated
    <3> QED BY <1>8, <3>1, <3>2 DEF Precedes
  <2> QED BY <2>1, <2>2
<1> QED BY <1>3, <1>4, <1>5, <1>7, <1>8 DEF InLine

\* Packets in line are in one place each.
LEMMA InLineApart ==
  ASSUME NEW q, NEW r, NEW s, NEW S, NEW a \in Seq(S), InLine(q, r, s, a),
         ToSet(q) \cup ToSet(r) \cup ToSet(s) \subseteq ToSet(a)
  PROVE  ToSet(q) \cap ToSet(r) = {} /\ ToSet(q) \cap ToSet(s) = {} /\ ToSet(r) \cap ToSet(s) = {}
<1>1. \A x \in ToSet(a) : ~(PlaceIn(a, x) < PlaceIn(a, x))
  <2> TAKE x \in ToSet(a)
  <2>1. PlaceIn(a, x) \in DOMAIN a /\ DOMAIN a = 1 .. Len(a)
    BY PlaceFinds, LenProperties
  <2> QED BY <2>1
<1>2. ASSUME NEW v, NEW w, Precedes(v, w, a), ToSet(v) \subseteq ToSet(a) PROVE ToSet(v) \cap ToSet(w) = {}
  <2> SUFFICES ASSUME NEW x \in ToSet(v), x \in ToSet(w) PROVE FALSE
    OBVIOUS
  <2>1. PICK i \in DOMAIN v : x = v[i]
    BY DEF ToSet
  <2>2. PICK k \in DOMAIN w : x = w[k]
    BY DEF ToSet
  <2>3. PlaceIn(a, x) < PlaceIn(a, x)
    BY <1>2, <2>1, <2>2, Zenon DEF Precedes
  <2>4. x \in ToSet(a)
    BY <1>2
  <2> QED BY <1>1, <2>3, <2>4
<1>3. ToSet(q) \subseteq ToSet(a) /\ ToSet(r) \subseteq ToSet(a)
  OBVIOUS
<1>4. Precedes(q, r, a) /\ Precedes(q, s, a) /\ Precedes(r, s, a)
  BY DEF InLine
<1> QED BY <1>2, <1>3, <1>4

\* _send, which adds new packets at the end of the queue.
LEMMA SendKeepsOrder ==
  ASSUME PostInv, NEW t \in Threads, NEW buffers \in Seq(Packets), Send(t, buffers),
         IsInjective(buffers), ToSet(buffers) \cap ToSet(accepted) = {}
  PROVE  PostInv'
<1>1. /\ sendQueue' = sendQueue \o buffers /\ accepted' = accepted \o buffers /\ sending' = TRUE
      /\ UNCHANGED <<state, segments, inFlight, closing, posted, dropped>>
      /\ \E to \in {"idle", "register"} : pc' = [pc EXCEPT ![t] = to]
      /\ pc[t] = "idle"
  BY Zenon DEF Send, Goto
<1>2. TypeOK'
  BY <1>1, ConcatProperties DEF PostInv, TypeOK
<1>3. Unposted' = Unposted /\ (segments' = <<>> \/ \E u \in Threads : pc'[u] \in {"post", "end"})
  BY <1>1 DEF PostInv, TypeOK, Unposted
<1>4. Unposted \in Seq(Packets)
  BY EmptySeq DEF PostInv, TypeOK, Unposted
<1>5. /\ ToSet(sendQueue') = ToSet(sendQueue) \cup ToSet(buffers)
      /\ ToSet(accepted') = ToSet(accepted) \cup ToSet(buffers)
  BY <1>1, ToSetConcat DEF PostInv, TypeOK
<1>6. IsInjective(accepted')
  BY <1>1, PlaceKept DEF PostInv, TypeOK
<1>7. InLine(posted, Unposted, sendQueue', accepted')
  BY <1>1, <1>4, InLineKept, Zenon DEF PostInv, TypeOK
<1>8. ToSet(posted) \cup ToSet(Unposted) \cup ToSet(sendQueue') = ToSet(accepted') \ dropped
  BY <1>5 DEF PostInv
<1> QED BY <1>1, <1>2, <1>3, <1>5, <1>6, <1>7, <1>8 DEF PostInv

\* _register_send moves the queue to the segments, and these to WSASend or nowhere.
LEMMA RegisterKeepsOrder ==
  ASSUME PostInv, SendInv, NEW t \in Threads, Register(t)
  PROVE  PostInv'
<1>0. /\ ToSet(<<>>) = {} /\ <<>> \in Seq(Packets)
      /\ \A q, of : Ordered(<<>>, of) /\ Precedes(<<>>, q, of) /\ Precedes(q, <<>>, of)
      /\ \A q \in Seq(Packets) : <<>> \o q = q /\ q \o <<>> = q
  BY EmptySeq, ConcatEmptySeq DEF ToSet, Ordered, Precedes
<1>1. CASE RegisterSend(t)
  <2>1. /\ pc[t] = "register" /\ \E to \in {"idle", "move"} : pc' = [pc EXCEPT ![t] = to]
        /\ UNCHANGED <<state, sending, sendQueue, segments, inFlight, closing, accepted, posted, dropped>>
    BY <1>1, Zenon DEF RegisterSend, Goto
  <2>2. Unposted' = Unposted /\ (segments' = <<>> \/ \E u \in Threads : pc'[u] \in {"post", "end"})
    BY <2>1 DEF PostInv, TypeOK, Unposted
  <2>3. TypeOK'
    BY <2>1 DEF PostInv, TypeOK
  <2> QED BY <2>1, <2>2, <2>3 DEF PostInv
<1>2. CASE MoveSegments(t)
  <2>1. /\ pc[t] = "move" /\ pc' = [pc EXCEPT ![t] = "post"] /\ segments' = segments \o sendQueue
        /\ sendQueue' = <<>> /\ UNCHANGED <<state, sending, inFlight, closing, accepted, posted, dropped>>
    BY <1>2 DEF MoveSegments, Goto, ClearQueue
  <2>2. \A u \in Threads : pc[u] \notin {"post", "end"}
    BY <2>1 DEF SendInv, InRegister
  <2>3. segments = <<>> /\ Unposted = <<>> /\ sendQueue \in Seq(Packets)
    BY <2>2 DEF PostInv, TypeOK, Unposted
  <2>4. pc'[t] = "post" /\ segments' = sendQueue /\ Unposted' = sendQueue
    BY <1>0, <2>1, <2>3 DEF PostInv, TypeOK, Unposted
  <2>5. TypeOK'
    BY <1>0, <2>1, <2>3, <2>4 DEF PostInv, TypeOK
  <2>6. InLine(posted, sendQueue, <<>>, accepted)
    BY <1>0 DEF PostInv, InLine
  <2>7. ToSet(posted) \cup ToSet(sendQueue) \cup ToSet(<<>>) = ToSet(accepted) \ dropped
    BY <1>0, <2>3 DEF PostInv
  <2> QED BY <2>1, <2>4, <2>5, <2>6, <2>7 DEF PostInv
<1>3. CASE WSASend(t)
  <2>1. /\ pc[t] = "post" /\ pc' = [pc EXCEPT ![t] = "end"] /\ inFlight < MaxInFlight
        /\ UNCHANGED <<state, sending, sendQueue, segments, closing, accepted>>
    BY <1>3 DEF WSASend, Goto
  <2>2. \A u \in Threads : pc[u] = "post" => u = t
    BY <2>1 DEF SendInv, InRegister
  <2>3. Unposted = segments /\ Unposted' = <<>> /\ pc'[t] = "end"
    BY <2>1, <2>2 DEF PostInv, TypeOK, Unposted
  <2>4. /\ segments \in Seq(Packets) /\ posted \in Seq(Packets) /\ accepted \in Seq(Packets)
        /\ ToSet(posted) \cup ToSet(segments) \cup ToSet(sendQueue) = ToSet(accepted) \ dropped
        /\ InLine(posted, segments, sendQueue, accepted)
    BY <2>3 DEF PostInv, TypeOK
  <2>5. CASE inFlight' = inFlight + 1 /\ posted' = posted \o segments /\ UNCHANGED dropped
    <3>1. TypeOK'
      BY <2>1, <2>4, <2>5, ConcatProperties, SendAssumption DEF PostInv, TypeOK
    <3>2. ToSet(posted') = ToSet(posted) \cup ToSet(segments)
      BY <2>4, <2>5, ToSetConcat
    <3>3. Ordered(posted', accepted)
      BY <2>4, <2>5, OrderedConcat DEF InLine
    <3>4. Precedes(posted', sendQueue, accepted)
      <4>1. ASSUME NEW i \in DOMAIN posted' PROVE posted'[i] \in ToSet(posted) \/ posted'[i] \in ToSet(segments)
        BY <3>2 DEF ToSet
      <4> QED BY <2>4, <4>1 DEF InLine, Precedes, ToSet
    <3>5. InLine(posted', <<>>, sendQueue, accepted)
      BY <1>0, <2>4, <3>3, <3>4 DEF InLine
    <3> QED BY <1>0, <2>1, <2>3, <2>4, <2>5, <3>1, <3>2, <3>5 DEF PostInv
  <2>6. CASE dropped' = dropped \cup ToSet(segments) /\ UNCHANGED <<inFlight, posted>>
    <3>1. TypeOK'
      BY <2>1, <2>4, <2>6 DEF PostInv, TypeOK, ToSet
    <3>2. ToSet(posted) \cup ToSet(sendQueue) = ToSet(accepted) \ dropped'
      BY <2>4, <2>6, InLineApart
    <3>3. InLine(posted, <<>>, sendQueue, accepted)
      BY <1>0, <2>4 DEF InLine
    <3> QED BY <1>0, <2>1, <2>3, <2>4, <2>6, <3>1, <3>2, <3>3 DEF PostInv
  <2> QED BY <1>3, <2>5, <2>6 DEF WSASend
<1>4. CASE RegisterEnd(t)
  <2>1. /\ pc[t] = "end" /\ pc' = [pc EXCEPT ![t] = "idle"] /\ segments' = <<>> /\ sending' = FALSE
        /\ UNCHANGED <<state, sendQueue, inFlight, closing, accepted, posted, dropped>>
    BY <1>4 DEF RegisterEnd, Goto
  <2>2. Unposted = <<>> /\ Unposted' = <<>>
    BY <2>1 DEF PostInv, TypeOK, SendInv, InRegister, Unposted
  <2>3. TypeOK'
    BY <1>0, <2>1, Zenon DEF PostInv, TypeOK
  <2> QED BY <2>1, <2>2, <2>3 DEF PostInv
<1> QED BY <1>1, <1>2, <1>3, <1>4 DEF Register

\* _clear drops the queue; the other events leave the packets where they are.
LEMMA EnvironmentKeepsOrder == PostInv /\ Environment => PostInv'
<1> SUFFICES ASSUME PostInv, Environment PROVE PostInv'
  OBVIOUS
<1>1. CASE Clear
  <2>1. /\ dropped' = dropped \cup ToSet(sendQueue) /\ sendQueue' = <<>> /\ state' = "closed" /\ closing' = FALSE
        /\ UNCHANGED <<sending, segments, pc, inFlight, accepted, posted>>
    BY <1>1 DEF Clear
  <2>2. /\ ToSet(<<>>) = {} /\ <<>> \in Seq(Packets)
        /\ \A q, of : Ordered(<<>>, of) /\ Precedes(q, <<>>, of)
    BY EmptySeq DEF ToSet, Ordered, Precedes
  <2>3. TypeOK' /\ Unposted' = Unposted
    <3>1. ToSet(sendQueue) \subseteq Packets /\ sendQueue' \in Seq(Packets)
      BY <2>1, <2>2, ElementOfSeq DEF PostInv, TypeOK, ToSet
    <3>2. dropped' \subseteq Packets
      BY <2>1, <3>1, Zenon DEF PostInv, TypeOK
    <3>3. Unposted' = Unposted
      BY <2>1, Zenon DEF Unposted
    <3> QED BY <2>1, <3>1, <3>2, <3>3, Zenon DEF PostInv, TypeOK
  <2>4. /\ ToSet(posted) \cup ToSet(Unposted) \cup ToSet(sendQueue) = ToSet(accepted) \ dropped
        /\ InLine(posted, Unposted, sendQueue, accepted) /\ accepted \in Seq(Packets)
    BY DEF PostInv, TypeOK
  <2>5. ToSet(posted) \cup ToSet(Unposted) = ToSet(accepted) \ dropped'
    BY <2>1, <2>4, InLineApart
  <2>6. InLine(posted, Unposted, <<>>, accepted)
    BY <2>2, <2>4 DEF InLine
  <2> QED BY <2>1, <2>2, <2>3, <2>4, <2>5, <2>6 DEF PostInv
<1>2. CASE SetConnected \/ ProcessSend \/ Disconnect
  <2>1. UNCHANGED <<sending, sendQueue, segments, pc, accepted, posted, dropped>>
    BY <1>2 DEF SetConnected, ProcessSend, Disconnect
  <2>2. TypeOK'
    <3>1. inFlight' \in 0 .. MaxInFlight
      BY <1>2, SendAssumption DEF SetConnected, ProcessSend, Disconnect, PostInv, TypeOK
    <3>2. state' \in {"new", "open", "closed"} /\ closing' \in BOOLEAN
      BY <1>2, Zenon DEF SetConnected, ProcessSend, Disconnect, PostInv, TypeOK
    <3> QED BY <2>1, <3>1, <3>2, Zenon DEF PostInv, TypeOK
  <2> QED BY <2>1, <2>2 DEF PostInv, Unposted
<1> QED BY <1>1, <1>2 DEF Environment

\* A session as constructed has no packets.
LEMMA PostInvInit == Init => PostInv
<1> SUFFICES ASSUME Init PROVE PostInv
  OBVIOUS
<1>1. <<>> \in Seq(Packets) /\ ToSet(<<>>) = {} /\ DOMAIN <<>> = {}
  BY EmptySeq DEF ToSet
<1>2. TypeOK
  <2>1. inFlight \in 0 .. MaxInFlight
    BY SendAssumption DEF Init
  <2>2. pc \in [Threads -> {"idle", "register", "move", "post", "end"}]
    BY DEF Init
  <2> QED BY <1>1, <2>1, <2>2, Zenon DEF Init, TypeOK
<1>3. Unposted = <<>>
  BY DEF Init, Unposted
<1> QED BY <1>1, <1>2, <1>3 DEF Init, PostInv, InLine, Ordered, Precedes, IsInjective

\* Steps that do nothing to the send path.
LEMMA PostInvUnchanged == PostInv /\ UNCHANGED vars => PostInv'
BY DEF vars, PostInv, TypeOK, Unposted

\* The places in line are one sequence in order.
LEMMA PostInvGives == PostInv => PostedInOrder
<1> SUFFICES ASSUME PostInv PROVE PostedInOrder
  OBVIOUS
<1>1. /\ posted \in Seq(Packets) /\ Unposted \in Seq(Packets) /\ sendQueue \in Seq(Packets)
      /\ InLine(posted, Unposted, sendQueue, accepted)
  BY EmptySeq DEF PostInv, TypeOK, Unposted
<1>2. posted \o Unposted \in Seq(Packets) /\ ToSet(posted \o Unposted) = ToSet(posted) \cup ToSet(Unposted)
  BY <1>1, Concatenated, ToSetConcat
<1>3. Ordered(posted \o Unposted, accepted) /\ Ordered(sendQueue, accepted)
  BY <1>1, OrderedConcat DEF InLine
<1>4. Precedes(posted \o Unposted, sendQueue, accepted)
  <2>1. \A i \in DOMAIN (posted \o Unposted) :
          (posted \o Unposted)[i] \in ToSet(posted) \/ (posted \o Unposted)[i] \in ToSet(Unposted)
    BY <1>2 DEF ToSet
  <2> QED BY <1>1, <2>1 DEF InLine, Precedes, ToSet
<1>5. Ordered((posted \o Unposted) \o sendQueue, accepted)
  BY <1>1, <1>2, <1>3, <1>4, OrderedConcat, Zenon
<1>6. ToSet((posted \o Unposted) \o sendQueue) = ToSet(accepted) \ dropped
  <2>1. \A q, r \in Seq(Packets) : ToSet(q \o r) = ToSet(q) \cup ToSet(r)
    BY ToSetConcat
  <2>2. ToSet((posted \o Unposted) \o sendQueue) = ToSet(posted \o Unposted) \cup ToSet(sendQueue)
    BY <1>1, <1>2, <2>1, Zenon
  <2> QED BY <1>2, <2>2 DEF PostInv
<1> QED BY <1>5, <1>6 DEF PostedInOrder, Ordered

\* A session whose callers give _send new packets one at a time posts them in the
\* order they came in, each once, but for those that were dropped (Session.cpp:40-48,
\* 134-158).
THEOREM SessionPostsInOrder == Spec => []PostedInOrder
<1>1. SendInv /\ PostInv /\ [Next]_vars => SendInv' /\ PostInv'
  <2> SUFFICES ASSUME SendInv, PostInv, [Next]_vars PROVE SendInv' /\ PostInv'
    OBVIOUS
  <2>1. ASSUME NEW t \in Threads, NEW p \in Packets, NewPacket(p), Send(t, <<p>>) PROVE PostInv'
    <3>1. <<p>> \in Seq(Packets) /\ ToSet(<<p>>) = {p} /\ IsInjective(<<p>>)
      BY DEF ToSet, IsInjective
    <3>2. p \notin ToSet(accepted)
      BY <2>1 DEF NewPacket
    <3> QED BY <2>1, <3>1, <3>2, SendKeepsOrder, Zenon
  <2> QED BY <2>1, SendKeeps, RegisterKeeps, EnvironmentKeeps, UnchangedKeeps,
             RegisterKeepsOrder, EnvironmentKeepsOrder, PostInvUnchanged, Zenon DEF Next
<1> QED BY SendInvInit, PostInvInit, PostInvGives, <1>1, PTL DEF Spec

-----------------------------------------------------------------------------
(***************************************************************************)
(* The packets on their way to _send.  FlushInv says where in sent the     *)
(* reserved packets and the lists of the flushing threads are, and that    *)
(* these and the accepted packets have nothing in common.                  *)
(***************************************************************************)
Taken == UNION {ToSet(list[t]) : t \in Threads}

\* What is reserved is the end of sent.
AtEnd(q, of) ==
  /\ Len(q) <= Len(of)
  /\ \A i \in DOMAIN q : q[i] = of[Len(of) - Len(q) + i]

FlushInv ==
  /\ reserved \in Seq(Packets)
  /\ reservedBytes \in 0 .. MaxBytes
  /\ dt \in 0 .. MIN_TICK
  /\ list \in [Threads -> Seq(Packets)]
  /\ flushing \in [Threads -> {"no", "lock", "send"}]
  /\ sent \in Seq(Packets)
  /\ IsInjective(sent)
  /\ AtEnd(reserved, sent)
  /\ ToSet(reserved) \cap ToSet(accepted) = {}
  /\ ToSet(sent) = ToSet(accepted) \cup ToSet(reserved) \cup Taken
  /\ \A t \in Threads :
       /\ IsPiece(list[t], sent)
       /\ flushing[t] # "send" => list[t] = <<>>
       /\ ToSet(list[t]) \cap (ToSet(accepted) \cup ToSet(reserved)) = {}
       /\ \A u \in Threads \ {t} : ToSet(list[t]) \cap ToSet(list[u]) = {}

\* The end of a sequence is a suffix of it,
LEMMA EndIsSuffix ==
  ASSUME NEW S, NEW q \in Seq(S), NEW of \in Seq(S), AtEnd(q, of)
  PROVE  IsSuffix(q, of)
<1>1. Len(q) \in Nat /\ Len(of) \in Nat /\ DOMAIN q = 1 .. Len(q) /\ DOMAIN of = 1 .. Len(of) /\ Len(q) <= Len(of)
  BY LenProperties DEF AtEnd
<1>2. /\ Reverse(q) = [i \in 1 .. Len(q) |-> q[(Len(q) - i) + 1]]
      /\ Reverse(of) = [i \in 1 .. Len(of) |-> of[(Len(of) - i) + 1]]
  BY DEF Reverse
<1>3. Reverse(q) \in Seq(S) /\ Reverse(of) \in Seq(S) /\ Len(Reverse(q)) = Len(q) /\ Len(Reverse(of)) = Len(of)
  <2>1. \A i \in 1 .. Len(q) : (Len(q) - i) + 1 \in 1 .. Len(q)
    BY <1>1
  <2>2. \A i \in 1 .. Len(of) : (Len(of) - i) + 1 \in 1 .. Len(of)
    BY <1>1
  <2>3. Reverse(q) \in [1 .. Len(q) -> S] /\ Reverse(of) \in [1 .. Len(of) -> S]
    BY <1>2, <2>1, <2>2, ElementOfSeq
  <2>4. Reverse(q) \in Seq(S) /\ Reverse(of) \in Seq(S)
    BY <1>1, <2>3, SeqDef, Zenon
  <2>5. DOMAIN Reverse(q) = 1 .. Len(Reverse(q)) /\ Len(Reverse(q)) \in Nat
    BY <2>4, LenProperties
  <2>6. DOMAIN Reverse(of) = 1 .. Len(Reverse(of)) /\ Len(Reverse(of)) \in Nat
    BY <2>4, LenProperties
  <2>7. DOMAIN Reverse(q) = 1 .. Len(q) /\ DOMAIN Reverse(of) = 1 .. Len(of)
    BY <2>3
  <2>8. \A m, n \in Nat : 1 .. m = 1 .. n => m = n
    OBVIOUS
  <2> QED BY <1>1, <2>4, <2>5, <2>6, <2>7, <2>8, Zenon
<1>4. \A i \in 1 .. Len(q) : Reverse(q)[i] = Reverse(of)[i]
  <2> TAKE i \in 1 .. Len(q)
  <2>1. /\ (Len(q) - i) + 1 \in DOMAIN q /\ i \in 1 .. Len(of)
        /\ (Len(of) - Len(q)) + ((Len(q) - i) + 1) = (Len(of) - i) + 1
    BY <1>1
  <2>2. q[(Len(q) - i) + 1] = of[(Len(of) - i) + 1]
    <3>1. PICK k : k = (Len(q) - i) + 1
      OBVIOUS
    <3>2. q[k] = of[Len(of) - Len(q) + k]
      BY <2>1, <3>1 DEF AtEnd
    <3> QED BY <2>1, <3>1, <3>2
  <2> QED BY <1>2, <2>1, <2>2
<1>5. SubSeq(Reverse(q), 1, Len(q)) = SubSeq(Reverse(of), 1, Len(q))
  BY <1>1, <1>3, <1>4
<1> QED BY <1>1, <1>3, <1>5 DEF IsSuffix, IsPrefix

\* and a piece of it.
LEMMA EndIsPiece ==
  ASSUME NEW S, NEW q \in Seq(S), NEW of \in Seq(S), AtEnd(q, of)
  PROVE  IsPiece(q, of)
<1>1. Len(q) \in Nat /\ Len(of) \in Nat /\ DOMAIN q = 1 .. Len(q) /\ DOMAIN of = 1 .. Len(of) /\ Len(q) <= Len(of)
  BY LenProperties DEF AtEnd
<1>2. CASE q = <<>>
  BY <1>2 DEF IsPiece
<1>3. CASE q # <<>>
  <2>1. Len(q) >= 1
    BY <1>1, <1>3, EmptySeq
  <2>2. PICK i : i = Len(of) - Len(q) + 1
    OBVIOUS
  <2>3. i \in DOMAIN of /\ Len(of) \in DOMAIN of /\ (Len(of) - i) + 1 = Len(q)
    BY <1>1, <2>1, <2>2
  <2>4. SubSeq(of, i, Len(of)) = [k \in 1 .. Len(q) |-> of[i + k - 1]]
    BY <2>3
  <2>5. \A k \in 1 .. Len(q) : i + k - 1 = Len(of) - Len(q) + k
    BY <1>1, <2>2
  <2>6. q = [k \in 1 .. Len(q) |-> q[k]]
    BY <1>1, LenProperties
  <2>7. q = SubSeq(of, i, Len(of))
    BY <1>1, <2>4, <2>5, <2>6 DEF AtEnd
  <2> QED BY <2>3, <2>7, Zenon DEF IsPiece
<1> QED BY <1>2, <1>3

\* What is sent later leaves the pieces and adds to the end.
LEMMA AppendKeepsPieces ==
  ASSUME NEW S, NEW of \in Seq(S), NEW p \in S
  PROVE  /\ \A q : IsPiece(q, of) => IsPiece(q, Append(of, p))
         /\ \A q \in Seq(S) : AtEnd(q, of) => AtEnd(Append(q, p), Append(of, p))
<1>1. /\ Append(of, p) \in Seq(S) /\ Len(Append(of, p)) = Len(of) + 1 /\ Len(of) \in Nat
      /\ DOMAIN of = 1 .. Len(of) /\ DOMAIN Append(of, p) = 1 .. Len(of) + 1
      /\ \A i \in 1 .. Len(of) : Append(of, p)[i] = of[i]
      /\ Append(of, p)[Len(of) + 1] = p
  BY AppendProperties, LenProperties
<1>2. ASSUME NEW q, IsPiece(q, of) PROVE IsPiece(q, Append(of, p))
  <2>1. CASE q = <<>>
    BY <2>1 DEF IsPiece
  <2>2. ASSUME NEW i \in DOMAIN of, NEW k \in DOMAIN of, q = SubSeq(of, i, k) PROVE IsPiece(q, Append(of, p))
    <3>1. i \in DOMAIN Append(of, p) /\ k \in DOMAIN Append(of, p)
      BY <1>1
    <3>2. \A n \in 1 .. (k - i) + 1 : i + n - 1 \in 1 .. Len(of)
      BY <1>1
    <3>3. SubSeq(of, i, k) = SubSeq(Append(of, p), i, k)
      BY <1>1, <3>2
    <3> QED BY <2>2, <3>1, <3>3, Zenon DEF IsPiece
  <2> QED BY <1>2, <2>1, <2>2, Zenon DEF IsPiece
<1>3. ASSUME NEW q \in Seq(S), AtEnd(q, of) PROVE AtEnd(Append(q, p), Append(of, p))
  <2>1. /\ Len(Append(q, p)) = Len(q) + 1 /\ Len(q) \in Nat
        /\ DOMAIN q = 1 .. Len(q) /\ DOMAIN Append(q, p) = 1 .. Len(q) + 1
        /\ \A i \in 1 .. Len(q) : Append(q, p)[i] = q[i]
        /\ Append(q, p)[Len(q) + 1] = p
    BY AppendProperties, LenProperties
  <2>2. Len(q) <= Len(of)
    BY <1>3 DEF AtEnd
  <2>3. \A i \in 1 .. Len(q) + 1 :
          Append(q, p)[i] = Append(of, p)[(Len(of) + 1) - (Len(q) + 1) + i]
    <3> TAKE i \in 1 .. Len(q) + 1
    <3>1. CASE i = Len(q) + 1
      BY <1>1, <2>1, <2>2, <3>1
    <3>2. CASE i \in 1 .. Len(q)
      <4>1. /\ (Len(of) + 1) - (Len(q) + 1) + i = Len(of) - Len(q) + i
            /\ Len(of) - Len(q) + i \in 1 .. Len(of)
        BY <1>1, <2>1, <2>2, <3>2
      <4>2. q[i] = of[Len(of) - Len(q) + i]
        BY <1>3, <2>1, <3>2 DEF AtEnd
      <4> QED BY <1>1, <2>1, <3>2, <4>1, <4>2
    <3>3. \A n \in Nat : \A k \in 1 .. n + 1 : k = n + 1 \/ k \in 1 .. n
      OBVIOUS
    <3> QED BY <2>1, <3>1, <3>2, <3>3, Zenon
  <2>4. Len(q) + 1 <= Len(of) + 1
    BY <1>1, <2>1, <2>2
  <2> QED BY <1>1, <2>1, <2>3, <2>4 DEF AtEnd
<1> QED BY <1>2, <1>3

\* A piece of a sequence without repetition has none.
LEMMA PieceInjective ==
  ASSUME NEW S, NEW of \in Seq(S), IsInjective(of), NEW q, IsPiece(q, of)
  PROVE  IsInjective(q)
<1>1. CASE q = <<>>
  BY <1>1 DEF IsInjective
<1>2. ASSUME NEW i \in DOMAIN of, NEW k \in DOMAIN of, q = SubSeq(of, i, k) PROVE IsInjective(q)
  <2>1. DOMAIN of = 1 .. Len(of) /\ Len(of) \in Nat
    BY LenProperties
  <2>2. q = [n \in 1 .. (k - i) + 1 |-> of[i + n - 1]]
    BY <1>2
  <2>3. \A n \in 1 .. (k - i) + 1 : i + n - 1 \in DOMAIN of
    BY <2>1
  <2>4. \A m, n \in 1 .. (k - i) + 1 : i + m - 1 = i + n - 1 => m = n
    BY <2>1
  <2> QED BY <2>2, <2>3, <2>4 DEF IsInjective
<1> QED BY <1>1, <1>2 DEF IsPiece

\* The elements of a sequence that grows by one.
LEMMA ToSetAppend ==
  ASSUME NEW S, NEW q \in Seq(S), NEW p \in S
  PROVE  /\ ToSet(Append(q, p)) = ToSet(q) \cup {p}
         /\ IsInjective(q) /\ p \notin ToSet(q) => IsInjective(Append(q, p))
<1>1. /\ Len(Append(q, p)) = Len(q) + 1 /\ Len(q) \in Nat
      /\ DOMAIN q = 1 .. Len(q) /\ DOMAIN Append(q, p) = 1 .. Len(q) + 1
      /\ \A i \in 1 .. Len(q) : Append(q, p)[i] = q[i]
      /\ Append(q, p)[Len(q) + 1] = p
  BY AppendProperties, LenProperties
<1>2. /\ \A i \in DOMAIN Append(q, p) : i \in DOMAIN q \/ i = Len(q) + 1
      /\ Len(q) + 1 \in DOMAIN Append(q, p) /\ \A i \in DOMAIN q : i \in DOMAIN Append(q, p)
  BY <1>1
<1>3. ToSet(Append(q, p)) = ToSet(q) \cup {p}
  BY <1>1, <1>2 DEF ToSet
<1>4. ASSUME IsInjective(q), p \notin ToSet(q) PROVE IsInjective(Append(q, p))
  <2>1. \A i \in DOMAIN q : q[i] # p
    BY <1>4 DEF ToSet
  <2> QED BY <1>1, <1>2, <1>4, <2>1 DEF IsInjective
<1> QED BY <1>3, <1>4

\* A step that leaves the way to _send alone.
LEMMA FlushInvUnchanged == FlushInv /\ UNCHANGED <<packetVars, accepted>> => FlushInv'
BY DEF FlushInv, Taken, packetVars

\* Send and SendRaw reserve.
LEMMA ReserveKeeps ==
  ASSUME FlushInv, NEW t \in Threads, NEW p \in Packets, SendPacket(t, p) \/ SendRaw(t)
  PROVE  FlushInv'
<1>1. CASE SendRaw(t)
  <2>1. UNCHANGED <<vars, reserved, dt, list, flushing, sent>> /\ reservedBytes' \in 0 .. MaxBytes
    BY <1>1, FlushAssumption DEF SendRaw, FlushInv
  <2> QED BY <2>1 DEF FlushInv, Taken, vars
<1>2. CASE SendPacket(t, p)
  <2>1. /\ p \notin ToSet(sent) /\ reserved' = Append(reserved, p) /\ sent' = Append(sent, p)
        /\ UNCHANGED <<dt, list, flushing, accepted>> /\ reservedBytes' \in 0 .. MaxBytes
    BY <1>2, FlushAssumption DEF SendPacket, FlushInv, vars
  <2>2. /\ reserved \in Seq(Packets) /\ sent \in Seq(Packets) /\ AtEnd(reserved, sent) /\ IsInjective(sent)
        /\ p \notin ToSet(accepted) /\ p \notin Taken
    BY <2>1 DEF FlushInv
  <2>3. /\ reserved' \in Seq(Packets) /\ sent' \in Seq(Packets) /\ AtEnd(reserved', sent')
        /\ \A u \in Threads : IsPiece(list[u], sent')
    BY <2>1, <2>2, AppendProperties, AppendKeepsPieces DEF FlushInv
  <2>4. /\ ToSet(reserved') = ToSet(reserved) \cup {p} /\ ToSet(sent') = ToSet(sent) \cup {p}
        /\ IsInjective(sent')
    BY <2>1, <2>2, ToSetAppend
  <2>5. \A u \in Threads : p \notin ToSet(list[u])
    BY <2>2 DEF Taken
  <2>6. Taken' = Taken
    BY <2>1 DEF Taken
  <2> QED BY <2>1, <2>2, <2>3, <2>4, <2>5, <2>6 DEF FlushInv
<1> QED BY <1>1, <1>2

\* The locked part of Flush makes the reserved packets the thread's list.
LEMMA TakeKeeps ==
  ASSUME FlushInv, NEW t \in Threads, Flush(t) \/ FlushTake(t)
  PROVE  FlushInv'
<1>1. CASE UNCHANGED <<reserved, reservedBytes, dt, list, sent, accepted>> /\ flushing[t] # "send"
           /\ \E at \in {"no", "lock"} : flushing' = [flushing EXCEPT ![t] = at]
  BY <1>1 DEF FlushInv, Taken
<1>2. CASE /\ flushing[t] = "lock" /\ list' = [list EXCEPT ![t] = reserved] /\ reserved' = <<>>
           /\ reservedBytes' = 0 /\ dt' = 0 /\ flushing' = [flushing EXCEPT ![t] = "send"]
           /\ UNCHANGED <<sent, accepted>>
  <2>1. list[t] = <<>> /\ list'[t] = reserved /\ (\A u \in Threads \ {t} : list'[u] = list[u])
    BY <1>2 DEF FlushInv
  <2>2. ToSet(<<>>) = {} /\ <<>> \in Seq(Packets) /\ AtEnd(<<>>, sent)
    BY EmptySeq, LenProperties DEF ToSet, AtEnd, FlushInv
  <2>3. Taken' = Taken \cup ToSet(reserved)
    <3>1. \A x : x \in Taken' <=> \E u \in Threads : x \in ToSet(list'[u])
      BY DEF Taken
    <3>2. \A x : x \in Taken <=> \E u \in Threads : x \in ToSet(list[u])
      BY DEF Taken
    <3>3. \A x : x \in Taken' <=> x \in Taken \/ x \in ToSet(reserved)
      BY <2>1, <2>2, <3>1, <3>2
    <3> QED BY <3>3
  <2>4. IsPiece(reserved, sent)
    BY EndIsPiece DEF FlushInv
  <2>5. /\ reserved' \in Seq(Packets) /\ reservedBytes' \in 0 .. MaxBytes /\ dt' \in 0 .. MIN_TICK
        /\ list' \in [Threads -> Seq(Packets)] /\ flushing' \in [Threads -> {"no", "lock", "send"}]
        /\ \A u \in Threads : flushing'[u] # "send" => list'[u] = <<>>
    BY <1>2, <2>2, FlushAssumption DEF FlushInv
  <2>6. \A u \in Threads : IsPiece(list'[u], sent)
    BY <2>1, <2>4 DEF FlushInv
  <2>7. ToSet(sent) = ToSet(accepted) \cup ToSet(reserved') \cup Taken'
    BY <1>2, <2>2, <2>3 DEF FlushInv
  <2>8. \A u \in Threads : /\ ToSet(list'[u]) \cap (ToSet(accepted) \cup ToSet(reserved')) = {}
                           /\ \A v \in Threads \ {u} : ToSet(list'[u]) \cap ToSet(list'[v]) = {}
    <3>1. \A u \in Threads : ToSet(list'[u]) \cap ToSet(accepted) = {}
      BY <2>1, Zenon DEF FlushInv
    <3>2. \A u, v \in Threads : u # v => ToSet(list'[u]) \cap ToSet(list'[v]) = {}
      BY <2>1 DEF FlushInv
    <3> QED BY <1>2, <2>2, <3>1, <3>2
  <2>9. /\ sent' \in Seq(Packets) /\ IsInjective(sent') /\ AtEnd(reserved', sent')
        /\ ToSet(reserved') \cap ToSet(accepted') = {}
    BY <1>2, <2>2 DEF FlushInv
  <2> QED BY <1>2, <2>5, <2>6, <2>7, <2>8, <2>9 DEF FlushInv
<1>3. UNCHANGED <<sent, accepted>>
  BY DEF Flush, FlushTake, vars
<1>4. CASE Flush(t)
  BY <1>1, <1>3, <1>4 DEF Flush, Free
<1>5. CASE FlushTake(t)
  BY <1>1, <1>2, <1>3, <1>5 DEF FlushTake, ClearReserved
<1> QED BY <1>4, <1>5

\* _send gets the list.
LEMMA GiveKeeps ==
  ASSUME FlushInv, accepted \in Seq(Packets), NEW t \in Threads, FlushSend(t)
  PROVE  FlushInv'
<1>1. /\ accepted' = accepted \o list[t] /\ list' = [list EXCEPT ![t] = <<>>]
      /\ flushing' = [flushing EXCEPT ![t] = "no"] /\ UNCHANGED <<reserved, reservedBytes, dt, sent>>
  BY DEF FlushSend, Send
<1>2. /\ list'[t] = <<>> /\ (\A u \in Threads \ {t} : list'[u] = list[u])
      /\ list[t] \in Seq(Packets)
  BY <1>1 DEF FlushInv
<1>3. ToSet(<<>>) = {} /\ <<>> \in Seq(Packets) /\ IsPiece(<<>>, sent)
  BY EmptySeq DEF ToSet, IsPiece
<1>4. ToSet(accepted') = ToSet(accepted) \cup ToSet(list[t])
  BY <1>1, <1>2, ToSetConcat
<1>5. Taken = Taken' \cup ToSet(list[t])
  <2>1. \A x : x \in Taken' <=> \E u \in Threads : x \in ToSet(list'[u])
    BY DEF Taken
  <2>2. \A x : x \in Taken <=> \E u \in Threads : x \in ToSet(list[u])
    BY DEF Taken
  <2>3. \A x : x \in Taken <=> x \in Taken' \/ x \in ToSet(list[t])
    BY <1>2, <1>3, <2>1, <2>2
  <2> QED BY <2>3
<1>6. /\ list' \in [Threads -> Seq(Packets)] /\ flushing' \in [Threads -> {"no", "lock", "send"}]
      /\ \A u \in Threads : flushing'[u] # "send" => list'[u] = <<>>
      /\ \A u \in Threads : IsPiece(list'[u], sent)
  BY <1>1, <1>2, <1>3 DEF FlushInv
<1>7. ToSet(sent) = ToSet(accepted') \cup ToSet(reserved) \cup Taken'
  BY <1>4, <1>5 DEF FlushInv
<1>8. \A u \in Threads : /\ ToSet(list'[u]) \cap (ToSet(accepted') \cup ToSet(reserved)) = {}
                         /\ \A v \in Threads \ {u} : ToSet(list'[u]) \cap ToSet(list'[v]) = {}
  <2>1. ToSet(list'[t]) = {}
    BY <1>2, <1>3
  <2>2. \A u \in Threads \ {t} : ToSet(list'[u]) \cap (ToSet(accepted) \cup ToSet(list[t]) \cup ToSet(reserved)) = {}
    BY <1>2 DEF FlushInv
  <2>3. \A u, v \in Threads : u # v => ToSet(list'[u]) \cap ToSet(list'[v]) = {}
    BY <1>2, <2>1, Zenon DEF FlushInv
  <2> QED BY <1>4, <2>1, <2>2, <2>3
<1>9. ToSet(reserved) \cap ToSet(accepted') = {}
  BY <1>4 DEF FlushInv
<1> QED BY <1>1, <1>6, <1>7, <1>8, <1>9, Zenon DEF FlushInv

-----------------------------------------------------------------------------
PacketInv == SendInv /\ PostInv /\ FlushInv

\* A packet session as constructed.
LEMMA PacketInvInit == PacketInit => PacketInv
<1> SUFFICES ASSUME PacketInit PROVE PacketInv
  OBVIOUS
<1>1. <<>> \in Seq(Packets) /\ ToSet(<<>>) = {} /\ DOMAIN <<>> = {} /\ Len(<<>>) = 0
  BY EmptySeq DEF ToSet
<1>2. Taken = {}
  BY <1>1 DEF PacketInit, Taken
<1>3. FlushInv
  BY <1>1, <1>2, FlushAssumption DEF PacketInit, Init, FlushInv, AtEnd, IsPiece, IsInjective
<1> QED BY <1>3, SendInvInit, PostInvInit DEF PacketInit, PacketInv

\* Each step: what _send gets is a list without repetition, of packets it has not had.
LEMMA PacketInvNext == PacketInv /\ [PacketNext]_allVars => PacketInv'
<1> SUFFICES ASSUME SendInv, PostInv, FlushInv, [PacketNext]_allVars PROVE PacketInv'
  BY DEF PacketInv
<1>1. ASSUME NEW t \in Threads, FlushSend(t) PROVE PacketInv'
  <2>1. Send(t, list[t])
    BY <1>1 DEF FlushSend
  <2>2. list[t] \in Seq(Packets) /\ IsInjective(list[t]) /\ ToSet(list[t]) \cap ToSet(accepted) = {}
    BY PieceInjective DEF FlushInv
  <2>3. PostInv'
    BY <2>1, <2>2, SendKeepsOrder
  <2>4. accepted \in Seq(Packets)
    BY DEF PostInv, TypeOK
  <2> QED BY <1>1, <2>1, <2>3, <2>4, SendKeeps, GiveKeeps DEF PacketInv
<1>2. ASSUME NEW t \in Threads, RegisterPackets(t) PROVE PacketInv'
  <2>1. Register(t) /\ UNCHANGED packetVars
    BY <1>2 DEF RegisterPackets
  <2>2. UNCHANGED accepted
    BY <2>1 DEF Register, RegisterSend, MoveSegments, WSASend, RegisterEnd
  <2> QED BY <2>1, <2>2, RegisterKeeps, RegisterKeepsOrder, FlushInvUnchanged DEF PacketInv
<1>3. CASE Environment /\ UNCHANGED packetVars
  <2>1. UNCHANGED accepted
    BY <1>3 DEF Environment, SetConnected, ProcessSend, Disconnect, Clear
  <2> QED BY <1>3, <2>1, EnvironmentKeeps, EnvironmentKeepsOrder, FlushInvUnchanged DEF PacketInv
<1>4. ASSUME UNCHANGED vars, FlushInv' PROVE PacketInv'
  BY <1>4, UnchangedKeeps, PostInvUnchanged DEF PacketInv
<1>5. ASSUME NEW t \in Threads, NEW p \in Packets, SendPacket(t, p) PROVE PacketInv'
  BY <1>4, <1>5, ReserveKeeps DEF SendPacket
<1>6. ASSUME NEW t \in Threads, SendRaw(t) PROVE PacketInv'
  <2>1. UNCHANGED <<vars, reserved, dt, list, flushing, sent>> /\ reservedBytes' \in 0 .. MaxBytes
    BY <1>6, FlushAssumption DEF SendRaw, FlushInv
  <2>2. FlushInv'
    BY <2>1 DEF FlushInv, Taken, vars
  <2> QED BY <1>4, <2>1, <2>2
<1>7. ASSUME NEW t \in Threads, Flush(t) \/ FlushTake(t) PROVE PacketInv'
  <2>1. UNCHANGED vars
    BY <1>7 DEF Flush, FlushTake
  <2> QED BY <1>4, <1>7, <2>1, TakeKeeps
<1>8. CASE Tick
  <2>1. UNCHANGED <<vars, reserved, reservedBytes, list, flushing, sent>> /\ dt' \in 0 .. MIN_TICK
    BY <1>8, FlushAssumption DEF Tick, FlushInv
  <2>2. FlushInv'
    BY <2>1 DEF FlushInv, Taken, vars
  <2> QED BY <1>4, <2>1, <2>2
<1>9. CASE UNCHANGED allVars
  <2>1. UNCHANGED <<vars, packetVars, accepted>>
    BY <1>9 DEF allVars, vars
  <2> QED BY <1>4, <2>1, FlushInvUnchanged
<1> QED BY <1>1, <1>2, <1>3, <1>5, <1>6, <1>7, <1>8, <1>9 DEF PacketNext

\* The invariant says that no packet is lost or doubled.
LEMMA PacketInvGives == PacketInv => FlushKeepsPackets /\ OneSender /\ PostedInOrder
<1> SUFFICES ASSUME SendInv, PostInv, FlushInv PROVE FlushKeepsPackets
  BY SendInvGives, PostInvGives DEF PacketInv
<1>1. PacketTypeOK
  BY DEF PacketTypeOK, FlushInv, PostInv
<1>2. IsSuffix(reserved, sent)
  BY EndIsSuffix DEF FlushInv
<1> PICK taken : taken = [t \in Threads |-> ToSet(list[t])]
  BY Zenon
<1>3. UNION Range(taken) = Taken
  BY DEF Range, Taken
<1>4. \A t \in Threads : taken[t] = ToSet(list[t])
  OBVIOUS
<1>5. /\ \A t \in Threads : IsPiece(list[t], sent)
      /\ ToSet(sent) = ToSet(accepted) \cup ToSet(reserved) \cup UNION Range(taken)
      /\ IsInjective(accepted) /\ ToSet(reserved) \cap ToSet(accepted) = {}
  BY <1>3 DEF FlushInv, PostInv
<1>6. \A t \in Threads :
        /\ taken[t] \cap (ToSet(accepted) \cup ToSet(reserved)) = {}
        /\ \A u \in Threads \ {t} : taken[t] \cap taken[u] = {}
  BY <1>4 DEF FlushInv
<1> QED BY <1>1, <1>2, <1>5, <1>6 DEF FlushKeepsPackets

\* However many threads send and flush at once, a packet given to PacketSession::Send
\* is in one place and in its order until _send has it (PacketSession.cpp:35-67).
THEOREM FlushLosesNothing == PacketSpec => []FlushKeepsPackets
BY PacketInvInit, PacketInvNext, PacketInvGives, PTL DEF PacketSpec

\* And below it Session posts the packets in the order of the flushes, each once
\* (Session.cpp:40-48, 134-158).
THEOREM PacketSessionPostsInOrder == PacketSpec => []PostedInOrder
BY PacketInvInit, PacketInvNext, PacketInvGives, PTL DEF PacketSpec

\* The same below PacketSession, whose Flush gives _send whole lists of packets
\* after it has let go of its lock (PacketSession.cpp:50-67).
THEOREM PacketSessionHasOneSender == PacketSpec => []OneSender
BY PacketInvInit, PacketInvNext, PacketInvGives, PTL DEF PacketSpec
=============================================================================
