---------------------------- MODULE SessionSend ----------------------------
(***************************************************************************)
(* The send path of Session.cpp: _send, _register_send, _process_send, and *)
(* what Disconnect and _clear do to it.  Several threads call _send while  *)
(* others dispatch completions.                                            *)
(*                                                                         *)
(* WSASend is external: it takes the segments and completes later, in any  *)
(* number of operations at a time, or fails.  accepted, posted and dropped *)
(* record what happens to the packets.                                     *)
(***************************************************************************)
EXTENDS Integers, Sequences, SequencesExt

CONSTANTS
  Threads,
  Packets,
  MaxInFlight,   \* bound: WSASend operations outstanding at a time
  EarlySend      \* whether callers send before the session is connected

ASSUME SendAssumption == MaxInFlight \in Nat /\ EarlySend \in BOOLEAN

VARIABLES
  state,       \* "new", "open" (_connected is true) or "closed"
  sending,     \* _sending
  sendQueue,   \* _sendQueue
  segments,    \* _sendEvent._segments
  pc,          \* where each thread is in _register_send
  inFlight,    \* operations outstanding on _sendEvent
  closing,     \* DisconnectEx was posted and has not completed
  accepted,    \* packets given to _send, in order
  posted,      \* packets given to a successful WSASend, in order
  dropped      \* packets of a failed WSASend or of a queue that was cleared

vars == <<state, sending, sendQueue, segments, pc, inFlight, closing, accepted, posted,
          dropped>>

IsConnected == state = "open"

Goto(t, where) == pc' = [pc EXCEPT ![t] = where]

Init ==
  /\ state = "new"
  /\ sending = FALSE
  /\ sendQueue = <<>>
  /\ segments = <<>>
  /\ pc = [t \in Threads |-> "idle"]
  /\ inFlight = 0
  /\ closing = FALSE
  /\ accepted = <<>>
  /\ posted = <<>>
  /\ dropped = {}

-----------------------------------------------------------------------------
\* _connected.store(true) of _set_connected.
SetConnected ==
  /\ state = "new"
  /\ state' = "open"
  /\ UNCHANGED <<sending, sendQueue, segments, pc, inFlight, closing, accepted, posted,
                 dropped>>

\* Mutant: the exchanged value of _sending is not tested.
ExchangeIgnored == TRUE

\* _sending.exchange(true) == false.
Exchange == ~sending

\* _send: under the lock the packets are queued and _sending is exchanged.
Send(t, buffers) ==
  /\ pc[t] = "idle"
  /\ buffers # <<>>
  /\ EarlySend \/ state # "new"
  /\ sendQueue' = sendQueue \o buffers
  /\ accepted' = accepted \o buffers
  /\ sending' = TRUE
  /\ Goto(t, IF Exchange THEN "register" ELSE "idle")
  /\ UNCHANGED <<state, segments, inFlight, closing, posted, dropped>>

\* _register_send: the test of _connected; the _disconnect it calls when the
\* test fails finds the session not connected and does nothing.
RegisterSend(t) ==
  /\ pc[t] = "register"
  /\ Goto(t, IF IsConnected THEN "move" ELSE "idle")
  /\ UNCHANGED <<state, sending, sendQueue, segments, inFlight, closing, accepted, posted,
                 dropped>>

\* Mutant: the queue is not cleared.
ClearQueueForgotten == UNCHANGED sendQueue

ClearQueue == sendQueue' = <<>>

\* The locked part: the queue becomes the segments of the event.
MoveSegments(t) ==
  /\ pc[t] = "move"
  /\ segments' = segments \o sendQueue
  /\ ClearQueue
  /\ Goto(t, "post")
  /\ UNCHANGED <<state, sending, inFlight, closing, accepted, posted, dropped>>

\* WSASend succeeds or is pending, or fails.
WSASend(t) ==
  /\ pc[t] = "post"
  /\ inFlight < MaxInFlight
  /\ \/ /\ inFlight' = inFlight + 1
        /\ posted' = posted \o segments
        /\ UNCHANGED dropped
     \/ /\ dropped' = dropped \cup ToSet(segments)
        /\ UNCHANGED <<inFlight, posted>>
  /\ Goto(t, "end")
  /\ UNCHANGED <<state, sending, sendQueue, segments, closing, accepted>>

\* _segments.clear() and _sending.store(false).
RegisterEnd(t) ==
  /\ pc[t] = "end"
  /\ segments' = <<>>
  /\ sending' = FALSE
  /\ Goto(t, "idle")
  /\ UNCHANGED <<state, sendQueue, inFlight, closing, accepted, posted, dropped>>

\* A completion is dispatched: _process_send, with 0 bytes or more.
ProcessSend ==
  /\ inFlight > 0
  /\ inFlight' = inFlight - 1
  /\ \/ UNCHANGED closing
     \/ IsConnected /\ closing' = TRUE
  /\ UNCHANGED <<state, sending, sendQueue, segments, pc, accepted, posted, dropped>>

\* Disconnect by the application; other errors post the event with _connected set.
Disconnect ==
  /\ IsConnected
  /\ \/ state' = "closed"
     \/ UNCHANGED state
  /\ closing' = TRUE
  /\ UNCHANGED <<sending, sendQueue, segments, pc, inFlight, accepted, posted, dropped>>

\* The part of _clear that concerns sending; it does not take the lock.
Clear ==
  /\ closing
  /\ closing' = FALSE
  /\ dropped' = dropped \cup ToSet(sendQueue)
  /\ sendQueue' = <<>>
  /\ state' = "closed"
  /\ UNCHANGED <<sending, segments, pc, inFlight, accepted, posted>>

-----------------------------------------------------------------------------
Register(t) == RegisterSend(t) \/ MoveSegments(t) \/ WSASend(t) \/ RegisterEnd(t)

Environment == SetConnected \/ ProcessSend \/ Disconnect \/ Clear

NewPacket(p) == p \in Packets \ ToSet(accepted)

Next ==
  \/ \E t \in Threads : Register(t)
  \/ \E t \in Threads, p \in Packets : NewPacket(p) /\ Send(t, <<p>>)
  \/ Environment

Spec == Init /\ [][Next]_vars

\* A thread inside _register_send goes on, and completions are dispatched.
LiveSpec ==
  /\ Spec
  /\ \A t \in Threads : WF_vars(Register(t))
  /\ WF_vars(ProcessSend)
  /\ WF_vars(Clear)

-----------------------------------------------------------------------------
TypeOK ==
  /\ state \in {"new", "open", "closed"}
  /\ sending \in BOOLEAN
  /\ sendQueue \in Seq(Packets)
  /\ segments \in Seq(Packets)
  /\ pc \in [Threads -> {"idle", "register", "move", "post", "end"}]
  /\ inFlight \in 0 .. MaxInFlight
  /\ closing \in BOOLEAN
  /\ accepted \in Seq(Packets)
  /\ posted \in Seq(Packets)
  /\ dropped \subseteq Packets

\* If callers wait for the connection, a set flag means that a thread is about
\* to send: without that no later _send would (Session.cpp:45, 126-132, 158).
SendingHasSender ==
  IsConnected /\ sending => \E t \in Threads : pc[t] # "idle"

\* The flag _sending admits one thread to _register_send, which uses
\* _sendEvent without a lock, and, if callers wait for the connection, is set
\* only while there is one (Session.cpp:45-50, 134-158).
OneSender ==
  /\ \A t, u \in Threads : pc[t] # "idle" /\ pc[u] # "idle" => t = u
  /\ EarlySend \/ SendingHasSender

Unposted ==
  IF \E t \in Threads : pc[t] = "post" THEN segments ELSE <<>>

PlaceIn(q, p) == CHOOSE i \in DOMAIN q : q[i] = p

\* Packets reach WSASend in the order _send took them, each once, except those
\* that a failed WSASend or _clear has dropped (Session.cpp:40-48, 137-148).
PostedInOrder ==
  LET kept == posted \o Unposted \o sendQueue
  IN  /\ ToSet(kept) = ToSet(accepted) \ dropped
      /\ \A i, k \in DOMAIN kept :
           i < k => PlaceIn(accepted, kept[i]) < PlaceIn(accepted, kept[k])

\* Session.cpp:163: _process_send runs "to reuse event", so the event is not
\* given to WSASend again before its completion was dispatched.
SendEventReused == inFlight <= 1

\* What "Send msg to all connected sessions" (Service.h:127) needs of a session:
\* a packet in the queue of a connected session is given to WSASend, unless
\* the session is closed first.
QueuedIsPosted ==
  \A p \in Packets :
    p \in ToSet(sendQueue) ~> (p \in ToSet(posted) \cup dropped \/ ~IsConnected)
=============================================================================
