--------------------------- MODULE PacketSession ---------------------------
(***************************************************************************)
(* PacketSession.cpp on top of SessionSend: Send reserves a packet, Flush  *)
(* gives the reserved packets to Session::_send when enough time has gone  *)
(* by or enough bytes are reserved.  A packet is one unit of bytes, what   *)
(* SendRaw reserves is another; time is counted since the last flush, up   *)
(* to the interval that matters.                                           *)
(***************************************************************************)
EXTENDS SessionSend

CONSTANTS
  Flushers,     \* threads that call Flush
  MIN_TICK,     \* FLUSH_SEND_MIN_INTERVAL_TICK
  MIN_BYTES,    \* FLUSH_SEND_MIN_RESERVED_BYTE_LENGTH
  MaxBytes      \* bound on _reservedSendBytes

ASSUME FlushAssumption ==
  /\ Flushers \subseteq Threads
  /\ MIN_TICK \in Nat /\ MIN_BYTES \in Nat /\ MaxBytes \in Nat

VARIABLES
  reserved,        \* _reserved
  reservedBytes,   \* _reservedSendBytes
  dt,              \* GetTickCount64() - _lastSendTick, up to MIN_TICK
  list,            \* Flush's local list of each thread
  flushing,        \* where each thread is in Flush: "no", "lock" or "send"
  sent             \* packets given to PacketSession::Send, in order

packetVars == <<reserved, reservedBytes, dt, list, flushing, sent>>
allVars == <<vars, packetVars>>

PacketInit ==
  /\ Init
  /\ reserved = <<>>
  /\ reservedBytes = 0
  /\ dt = 0
  /\ list = [t \in Threads |-> <<>>]
  /\ flushing = [t \in Threads |-> "no"]
  /\ sent = <<>>

Free(t) == flushing[t] = "no" /\ pc[t] = "idle"

Tick ==
  /\ dt < MIN_TICK
  /\ dt' = dt + 1
  /\ UNCHANGED <<vars, reserved, reservedBytes, list, flushing, sent>>

\* PacketSession::Send, after Serialize.
SendPacket(t, p) ==
  /\ Free(t)
  /\ p \notin ToSet(sent)
  /\ state # "new"
  /\ reservedBytes < MaxBytes
  /\ reserved' = Append(reserved, p)
  /\ reservedBytes' = reservedBytes + 1
  /\ sent' = Append(sent, p)
  /\ UNCHANGED <<vars, dt, list, flushing>>

\* SendRaw counts its bytes and reserves no WSABUF for them.
SendRaw(t) ==
  /\ Free(t)
  /\ reservedBytes < MaxBytes
  /\ reservedBytes' = reservedBytes + 1
  /\ UNCHANGED <<vars, reserved, dt, list, flushing, sent>>

\* Mutant: both conditions are required.
DueBoth == dt >= MIN_TICK /\ reservedBytes >= MIN_BYTES

Due == dt >= MIN_TICK \/ reservedBytes >= MIN_BYTES

\* Flush: the conditions, read without the lock.
Flush(t) ==
  /\ t \in Flushers
  /\ Free(t)
  /\ Due
  /\ flushing' = [flushing EXCEPT ![t] = "lock"]
  /\ UNCHANGED <<vars, reserved, reservedBytes, dt, list, sent>>

\* Mutant: the reserved packets are copied and not cleared.
ClearReservedForgotten == UNCHANGED reserved

ClearReserved == reserved' = <<>>

\* The locked part of Flush; with nothing reserved it returns as it is.
FlushTake(t) ==
  /\ flushing[t] = "lock"
  /\ \/ /\ reserved = <<>>
        /\ flushing' = [flushing EXCEPT ![t] = "no"]
        /\ UNCHANGED <<reserved, reservedBytes, dt, list>>
     \/ /\ reserved # <<>>
        /\ list' = [list EXCEPT ![t] = reserved]
        /\ ClearReserved
        /\ reservedBytes' = 0
        /\ dt' = 0
        /\ flushing' = [flushing EXCEPT ![t] = "send"]
  /\ UNCHANGED <<vars, sent>>

\* Session::_send(list), without the lock of Flush.
FlushSend(t) ==
  /\ flushing[t] = "send"
  /\ Send(t, list[t])
  /\ list' = [list EXCEPT ![t] = <<>>]
  /\ flushing' = [flushing EXCEPT ![t] = "no"]
  /\ UNCHANGED <<reserved, reservedBytes, dt, sent>>

RegisterPackets(t) == Register(t) /\ UNCHANGED packetVars

PacketNext ==
  \/ \E t \in Threads :
       \/ \E p \in Packets : SendPacket(t, p)
       \/ SendRaw(t)
       \/ Flush(t) \/ FlushTake(t) \/ FlushSend(t)
       \/ RegisterPackets(t)
  \/ Tick
  \/ Environment /\ UNCHANGED packetVars

PacketSpec == PacketInit /\ [][PacketNext]_allVars

\* Time passes, the application goes on calling Flush, and a thread goes on
\* with the call it is in.
PacketLiveSpec ==
  /\ PacketSpec
  /\ WF_allVars(Tick)
  /\ \A t \in Flushers : WF_allVars(Flush(t) \/ FlushTake(t) \/ FlushSend(t))
  /\ \A t \in Threads : WF_allVars(RegisterPackets(t))
  /\ WF_allVars(ProcessSend /\ UNCHANGED packetVars)

-----------------------------------------------------------------------------
PacketTypeOK ==
  /\ TypeOK
  /\ reserved \in Seq(Packets)
  /\ reservedBytes \in 0 .. MaxBytes
  /\ dt \in 0 .. MIN_TICK
  /\ list \in [Threads -> Seq(Packets)]
  /\ flushing \in [Threads -> {"no", "lock", "send"}]
  /\ sent \in Seq(Packets)

\* Consecutive elements of a sequence.
IsPiece(q, of) ==
  q = <<>> \/ \E i, k \in DOMAIN of : q = SubSeq(of, i, k)

\* No packet is lost or sent twice on its way from Send to the session's queue,
\* though several threads flush, testing the conditions without the lock and
\* handing their list on after it: what is reserved is the end of what was sent,
\* a list is a piece of it in its order, and all of it is in one place
\* (PacketSession.cpp:35-40, 46-67).
FlushKeepsPackets ==
  LET taken == [t \in Threads |-> ToSet(list[t])]
  IN  /\ PacketTypeOK
      /\ IsSuffix(reserved, sent)
      /\ \A t \in Threads : IsPiece(list[t], sent)
      /\ ToSet(sent) = ToSet(accepted) \cup ToSet(reserved) \cup UNION Range(taken)
      /\ IsInjective(accepted) /\ ToSet(reserved) \cap ToSet(accepted) = {}
      /\ \A t \in Threads :
           /\ taken[t] \cap (ToSet(accepted) \cup ToSet(reserved)) = {}
           /\ \A u \in Threads \ {t} : taken[t] \cap taken[u] = {}

\* A packet given to Send reaches the session's queue when the application
\* keeps calling Flush (README.md:100, PacketSession.cpp:46-48).
SentIsFlushed ==
  \A p \in Packets : p \in ToSet(sent) ~> p \in ToSet(accepted)
=============================================================================
