------------------------------ MODULE Session ------------------------------
(***************************************************************************)
(* The life of one session (Session.cpp) in its service: it is connected,  *)
(* receives, is disconnected from either side or by the service, and is    *)
(* destroyed when the last shared_ptr is gone.  Threads dispatch the       *)
(* completions of the port (IOCPCore.cpp) and call Disconnect and Stop.    *)
(*                                                                         *)
(* An event refers to its session with a weak_ptr and lies inside it.      *)
(* Winsock is external: an operation that was accepted completes some time *)
(* later with data, with 0 bytes or with an error.                         *)
(***************************************************************************)
EXTENDS Integers, FiniteSets

CONSTANTS
  Threads,
  MaxOps,        \* bound: operations outstanding on one event
  UseEx,         \* ProcessQueuedCompletionStatusEx is used
  RecvMayFail,   \* WSARecv may fail on a connected socket
  DiscMayFail,   \* the first DisconnectEx on a connected socket may fail
  DiscAgain      \* a second DisconnectEx may be accepted before the first completes

ASSUME SessionAssumption ==
  /\ MaxOps \in Nat \ {0}
  /\ {UseEx, RecvMayFail, DiscMayFail, DiscAgain} \subseteq BOOLEAN

Ops == {"recv", "send", "disconnect"}
Results == {"data", "zero", "error"}

VARIABLES
  connected,    \* _connected
  service,      \* _service is set
  socket,       \* _socket is not INVALID_SOCKET
  inService,    \* the service holds its shared_ptr
  line,         \* the TCP connection: "none", "up", "peer_closed" or "down"
  pending,      \* operations of each event that have not completed
  completed,    \* completions in the port: <<event, result>> |-> how many
  pc,           \* where each thread is
  ended,        \* OnDisconnected has been called
  crashed       \* "none", "null_service" or "freed_session"

vars == <<connected, service, socket, inService, line, pending, completed, pc, ended,
          crashed>>

At(t, where) == crashed = "none" /\ pc[t] = where
Goto(t, where) == pc' = [pc EXCEPT ![t] = where]

\* Somebody holds a shared_ptr: the service, or a thread in a member function.
Alive == inService \/ \E t \in Threads : pc[t] # "idle"

Init ==
  /\ connected = FALSE
  /\ service = FALSE
  /\ socket = TRUE
  /\ inService = TRUE
  /\ line = "none"
  /\ pending = [o \in Ops |-> 0]
  /\ completed = [c \in Ops \X Results |-> 0]
  /\ pc = [t \in Threads |-> "idle"]
  /\ ended = FALSE
  /\ crashed = "none"

Post(o) == pending' = [pending EXCEPT ![o] = @ + 1]

-----------------------------------------------------------------------------
\* An accept or a connect has completed: _set_connected up to OnConnected.
SetConnected(t) ==
  /\ At(t, "idle") /\ line = "none"
  /\ line' = "up"
  /\ service' = TRUE
  /\ connected' = TRUE
  /\ Goto(t, "register_recv")
  /\ UNCHANGED <<socket, inService, pending, completed, ended, crashed>>

\* _register_recv: the test of _connected.
RegisterRecv(t) ==
  /\ At(t, "register_recv")
  /\ Goto(t, IF connected THEN "wsa_recv" ELSE "idle")
  /\ UNCHANGED <<connected, service, socket, inService, line, pending, completed, ended,
                 crashed>>

\* WSARecv; when it fails the error is logged and nothing else is done.
WSARecv(t) ==
  /\ At(t, "wsa_recv")
  /\ \/ socket /\ line \in {"up", "peer_closed"} /\ Post("recv")
     \/ (RecvMayFail \/ ~socket \/ line = "down") /\ UNCHANGED pending
  /\ Goto(t, "idle")
  /\ UNCHANGED <<connected, service, socket, inService, line, completed, ended, crashed>>

\* Mutant: a thread goes to the next WSARecv while OnRecv is still at the data.
ProcessRecvTwice(t, result) ==
  /\ Goto(t, IF result = "data" THEN "register_recv" ELSE "disconnect")
  /\ IF result = "data" THEN Post("recv") ELSE UNCHANGED pending
  /\ UNCHANGED <<connected, service, socket, inService, line, ended, crashed>>

\* Mutant: data that is not taken is no error.
ProcessRecvIgnores(t, result) ==
  /\ Goto(t, IF result = "data" THEN "idle" ELSE "disconnect")
  /\ UNCHANGED <<connected, service, socket, inService, line, pending, ended, crashed>>

\* _process_recv: OnRecv takes the data, or none of it (PROCESS_LEN_0).
ProcessRecv(t, result) ==
  /\ \/ result = "data" /\ Goto(t, "register_recv")
     \/ Goto(t, "disconnect")
  /\ UNCHANGED <<connected, service, socket, inService, line, pending, ended, crashed>>

\* Mutant: an empty send clears the session at once.
ProcessSendClears(t, result) ==
  /\ Goto(t, IF result = "data" THEN "idle" ELSE "clear")
  /\ UNCHANGED <<connected, service, socket, inService, line, pending, ended, crashed>>

\* _process_send.
ProcessSend(t, result) ==
  /\ Goto(t, IF result = "data" THEN "idle" ELSE "disconnect")
  /\ UNCHANGED <<connected, service, socket, inService, line, pending, ended, crashed>>

\* _process_disconnect runs _clear, whatever the result.
ProcessDisconnect(t) ==
  /\ Goto(t, "clear")
  /\ UNCHANGED <<connected, service, socket, inService, line, pending, ended, crashed>>

\* GetQueuedCompletionStatus returns FALSE for an operation that failed, and
\* ProcessQueuedCompletionStatus then returns; the Ex form has no such case.
DropsError(o, result) ==
  ~UseEx /\ result = "error"

\* A completion is taken from the port: lock() on the event's weak_ptr and
\* Dispatch.  The event is part of the session.
Dispatch(t, o, result) ==
  /\ At(t, "idle") /\ completed[<<o, result>>] > 0
  /\ completed' = [completed EXCEPT ![<<o, result>>] = @ - 1]
  /\ \/ /\ DropsError(o, result)
        /\ UNCHANGED <<connected, service, socket, inService, line, pending, pc, ended, crashed>>
     \/ /\ ~DropsError(o, result) /\ ~Alive
        /\ crashed' = "freed_session"
        /\ UNCHANGED <<connected, service, socket, inService, line, pending, pc, ended>>
     \/ /\ ~DropsError(o, result) /\ Alive
        /\ \/ o = "recv" /\ ProcessRecv(t, result)
           \/ o = "send" /\ ProcessSend(t, result)
           \/ o = "disconnect" /\ ProcessDisconnect(t)
-----------------------------------------------------------------------------
\* _disconnect(error): the test of _connected, which it leaves as it is.
DisconnectOnError(t) ==
  /\ At(t, "disconnect")
  /\ Goto(t, IF connected THEN "post_disconnect" ELSE "idle")
  /\ UNCHANGED <<connected, service, socket, inService, line, pending, completed, ended,
                 crashed>>

\* Disconnect(), called through the service: _connected.exchange(false).
Disconnect(t) ==
  /\ At(t, "idle") /\ inService /\ connected
  /\ connected' = FALSE
  /\ Goto(t, "post_disconnect")
  /\ UNCHANGED <<service, socket, inService, line, pending, completed, ended, crashed>>

\* ServerService::Stop, ReleaseAllSessions: the test and the call of _disconnect.
Stop(t) ==
  /\ At(t, "idle") /\ inService /\ line # "none"
  /\ Goto(t, IF connected THEN "stop_post" ELSE "stop_clear")
  /\ UNCHANGED <<connected, service, socket, inService, line, pending, completed, ended,
                 crashed>>

\* _sessions.clear().
StopClear(t) ==
  /\ At(t, "stop_clear")
  /\ inService' = FALSE
  /\ Goto(t, "idle")
  /\ UNCHANGED <<connected, service, socket, line, pending, completed, ended, crashed>>

\* DisconnectEx with TF_REUSE_SOCKET.
DisconnectEx ==
  \/ /\ socket /\ line \in {"up", "peer_closed"}
     /\ pending["disconnect"] < IF DiscAgain THEN MaxOps ELSE 1
     /\ Post("disconnect")
  \/ /\ DiscMayFail \/ ~socket \/ line = "down" \/ pending["disconnect"] > 0
     /\ UNCHANGED pending

\* _register_disconnect.
RegisterDisconnect(t) ==
  /\ \/ At(t, "post_disconnect") /\ Goto(t, "idle")
     \/ At(t, "stop_post") /\ Goto(t, "stop_clear")
  /\ DisconnectEx
  /\ UNCHANGED <<connected, service, socket, inService, line, completed, ended, crashed>>

\* _clear: ReleaseSession through _service.
Clear(t) ==
  /\ At(t, "clear")
  /\ \/ /\ service
        /\ inService' = FALSE
        /\ Goto(t, "cleared")
        /\ UNCHANGED crashed
     \/ /\ ~service
        /\ crashed' = "null_service"
        /\ UNCHANGED <<inService, pc>>
  /\ UNCHANGED <<connected, service, socket, line, pending, completed, ended>>

\* Mutant: OnDisconnected is not called.
OnDisconnectedForgotten == ended' = ended

OnDisconnected == ended' = TRUE

\* The rest of _clear, and OnDisconnected.
Cleared(t) ==
  /\ At(t, "cleared")
  /\ service' = FALSE
  /\ connected' = FALSE
  /\ socket' = FALSE
  /\ OnDisconnected
  /\ Goto(t, "idle")
  /\ UNCHANGED <<inService, line, pending, completed, crashed>>

\* A thread sends: SessionSend has the details.
PostSend(t) ==
  /\ At(t, "idle") /\ inService
  /\ connected /\ socket /\ line \in {"up", "peer_closed"}
  /\ pending["send"] < MaxOps
  /\ Post("send")
  /\ UNCHANGED <<connected, service, socket, inService, line, completed, pc, ended, crashed>>

-----------------------------------------------------------------------------
\* The other side closes or resets the connection.
PeerCloses ==
  /\ line = "up"
  /\ line' = "peer_closed"
  /\ UNCHANGED <<connected, service, socket, inService, pending, completed, pc, ended, crashed>>

\* An operation completes into the port.
Complete(o, result) ==
  /\ crashed = "none"
  /\ pending[o] > 0
  /\ completed[<<o, result>>] < MaxOps
  /\ \/ o = "recv" /\ IF line = "up" THEN result = "data" ELSE result # "data"
     \/ o = "send" /\ (result = "data" => line # "down") /\ (result # "data" => line # "up")
     \/ o = "disconnect" /\ result = "zero"
  /\ pending' = [pending EXCEPT ![o] = @ - 1]
  /\ completed' = [completed EXCEPT ![<<o, result>>] = @ + 1]
  /\ line' = IF o = "disconnect" THEN "down" ELSE line
  /\ UNCHANGED <<connected, service, socket, inService, pc, ended, crashed>>

Proceed(t) ==
  \/ RegisterRecv(t) \/ WSARecv(t)
  \/ DisconnectOnError(t) \/ RegisterDisconnect(t)
  \/ Clear(t) \/ Cleared(t) \/ StopClear(t)

DispatchAny(t) == \E o \in Ops, result \in Results : Dispatch(t, o, result)

CompleteAny == \E o \in Ops, result \in Results : Complete(o, result)

Next ==
  \/ \E t \in Threads :
       \/ Proceed(t)
       \/ DispatchAny(t)
       \/ SetConnected(t)
       \/ Disconnect(t)
       \/ Stop(t)
       \/ PostSend(t)
  \/ CompleteAny
  \/ PeerCloses

Spec == Init /\ [][Next]_vars

\* Threads go on with the calls they are in.  The port hands completions out in
\* the order they came and some thread always comes back to it, so that none
\* waits for ever.  A receive or a disconnection on a closed connection completes.
LiveSpec ==
  /\ Spec
  /\ \A t \in Threads : WF_vars(Proceed(t))
  /\ \A o \in {"recv", "disconnect"} :
       /\ SF_vars(\E t \in Threads, result \in Results : Dispatch(t, o, result))
       /\ WF_vars(line # "up" /\ \E result \in Results : Complete(o, result))

-----------------------------------------------------------------------------
TypeOK ==
  /\ {connected, service, socket, inService, ended} \subseteq BOOLEAN
  /\ line \in {"none", "up", "peer_closed", "down"}
  /\ pending \in [Ops -> 0 .. MaxOps]
  /\ completed \in [Ops \X Results -> 0 .. MaxOps]
  /\ pc \in [Threads -> {"idle", "register_recv", "wsa_recv", "disconnect", "post_disconnect",
                         "stop_post", "stop_clear", "clear", "cleared"}]
  /\ crashed \in {"none", "null_service", "freed_session"}

Queued(o) == completed[<<o, "data">>] + completed[<<o, "zero">>] + completed[<<o, "error">>]

\* _recvEvent and _recvBuffer have one user: an outstanding WSARecv, its
\* completion in the port, or one thread on its way to the next WSARecv.  The
\* code has no lock for them (Session.cpp:30-31, 187-199, 240).
RecvEventOnce ==
  TypeOK /\ pending["recv"] + Queued("recv")
    + Cardinality({t \in Threads : pc[t] \in {"register_recv", "wsa_recv"}}) <= 1

\* Somebody will notice the end of a connection: while _connected is set a
\* receive is outstanding or being handled, or the disconnection is on its way
\* (Session.cpp:31, 226, 235, 240, 248).
ConnectedIsWatched ==
  connected /\ crashed = "none" =>
    \/ pending["recv"] + Queued("recv") > 0
    \/ pending["disconnect"] + Queued("disconnect") > 0
    \/ \E t \in Threads : pc[t] # "idle"

\* When the connection goes down, OnDisconnected is called, if the process
\* does not end in one of the ways the other properties are about
\* (Session.cpp:221-227, 243-264).
ClosedIsReported ==
  line \in {"peer_closed", "down"} ~> (ended \/ crashed # "none")

\* _clear, which dereferences _service and then resets it, runs once, though
\* several threads may call _register_disconnect: this rests on Winsock to
\* refuse a second DisconnectEx (Session.cpp:71-78, 84, 89, 248).
ClearFindsService == crashed # "null_service"

\* IOCPCore.h:46: a completion taken from the port is given to the object
\* associated with it.
CompletionFindsSession == crashed # "freed_session"

\* Connector.cpp:19: the socket of a connection is referenced from the session,
\* which closes it in its destructor.
SocketIsClosed == ~Alive => socket
=============================================================================
