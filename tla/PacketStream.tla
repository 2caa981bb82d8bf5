---------------------------- MODULE PacketStream ----------------------------
(***************************************************************************)
(* The way of a packet from Serialize in one process to OnRecvPacket in    *)
(* another.  TCP carries the bytes of the packets one after the other and  *)
(* knows nothing of where one ends: each receive gives some of the bytes   *)
(* that have arrived, as many as fit in the RecvBuffer.  Every receive     *)
(* starts at the same place of that buffer, since nothing moves its        *)
(* positions, and PacketSession::OnRecv goes through it by the sizes in    *)
(* the headers.  SessionSend has the order in which packets are posted.    *)
(***************************************************************************)
EXTENDS SendBuffer

CONSTANTS
  RECV_BUFFER_SIZE,
  MaxPackets           \* bound: packets sent, and calls of OnRecvPacket

ASSUME StreamAssumption == RECV_BUFFER_SIZE \in Nat \ {0} /\ MaxPackets \in Nat

VARIABLES
  sent,         \* the data size of each packet, in the order sent
  wire,         \* the bytes sent: the packet each is from, and its place in it
  received,     \* bytes of earlier receives
  len,          \* bytes of the receive that OnRecv is at, 0 between receives
  processed,    \* its local processed
  got,          \* the calls of OnRecvPacket: whose bytes, and whether all of them
  cut           \* history: a receive has ended inside of a packet

streamVars == <<sent, wire, received, len, processed, got, cut>>
allVars == <<vars, streamVars>>

StreamInit ==
  /\ Init
  /\ sent = <<>> /\ wire = <<>> /\ got = <<>>
  /\ received = 0 /\ len = 0 /\ processed = 0
  /\ cut = FALSE

\* The packet's WSABUF, of the size in its header, goes to the socket.
Post(t) ==
  /\ Len(sent) < MaxPackets
  /\ Reserve(t)
  /\ ~crashed'
  /\ sent' = Append(sent, request[t])
  /\ wire' = wire \o [i \in 1 .. PacketSize(request[t]) |-> <<Len(sent) + 1, i>>]
  /\ UNCHANGED <<received, len, processed, got, cut>>

\* The threads, and packets for other peers.
SendSide == Next /\ UNCHANGED streamVars

-----------------------------------------------------------------------------
\* FreeSize of the RecvBuffer, whose _writePos stays 0.
RecvFreeSize == RECV_BUFFER_SIZE

Boundary(n) == n = Len(wire) \/ wire[n + 1][2] = 1

\* A receive of n bytes completes: _process_recv calls OnRecv.
ProcessRecv(n) ==
  /\ len = 0
  /\ n <= RecvFreeSize /\ received + n <= Len(wire)
  /\ len' = n
  /\ cut' = (cut \/ ~Boundary(received + n))
  /\ UNCHANGED <<vars, sent, wire, received, processed, got>>

\* Mutant: the loop stops one header before the end.
MoreShort == processed + HEADER < len

\* The condition of OnRecv's loop.
More == processed < len

\* The size a header has, or what is at its place when there is none.
SizesAt(byte) ==
  IF byte[2] = 1 /\ processed + HEADER <= len THEN {PacketSize(sent[byte[1]])} ELSE 0 .. U16 - 1

\* One turn of the loop.
OnRecvPacket ==
  LET byte == wire[received + processed + 1]
  IN /\ len > 0 /\ More
     /\ Len(got) < MaxPackets
     /\ \E size \in SizesAt(byte) :
          /\ got' = Append(got, <<byte[1], /\ byte[2] = 1 /\ processed + size <= len
                                           /\ size = HEADER + sent[byte[1]]>>)
          /\ processed' = processed + size
     /\ UNCHANGED <<vars, sent, wire, received, len, cut>>

\* OnRecv returns, and _process_recv posts the next receive.
OnRecvReturns ==
  /\ len > 0 /\ ~More
  /\ received' = received + len
  /\ len' = 0
  /\ processed' = 0
  /\ UNCHANGED <<vars, sent, wire, got, cut>>

ReceiveSide ==
  \/ \E n \in 1 .. RecvFreeSize : ProcessRecv(n)
  \/ OnRecvPacket
  \/ OnRecvReturns

StreamNext == SendSide \/ (\E t \in Threads : Post(t)) \/ ReceiveSide

StreamSpec == StreamInit /\ [][StreamNext]_allVars

-----------------------------------------------------------------------------
\* As long as every receive ends where a packet ends, the peer's OnRecvPacket
\* is called with the packets as they were sent, each once, in their order and
\* with all of their data, and with all of a receive before the next one.  The
\* sizes that Serialize writes and OnRecv adds up are all that tells packets
\* apart (PacketWrapper.h:39, PacketSession.cpp:77-94, Session.cpp:240).
HandedAsSent ==
  ~cut =>
    /\ \A i \in DOMAIN got : got[i] = <<i, TRUE>>
    /\ len = 0 /\ received > 0 => wire[received][1] = Len(got)

\* What OnRecvPacket promises to a class that overrides it (README.md:100), if
\* TCP may end a receive anywhere.
NeverCut == \A i \in DOMAIN got : got[i] = <<i, TRUE>>
=============================================================================
