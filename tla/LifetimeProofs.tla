--------------------------- MODULE LifetimeProofs --------------------------
(***************************************************************************)
(* What lives how long: Session for any number of threads, and the test    *)
(* programs (Program) for any number of server threads and any sessions.   *)
(* Of a session: the receive event has one user; _clear runs once, as long *)
(* as Winsock refuses a second DisconnectEx; and a connected session has   *)
(* something that will notice its end, as long as Winsock takes the calls  *)
(* that watch it.  Of a program: no thread meets what main has destroyed.  *)
(***************************************************************************)
EXTENDS Session, Program, FiniteSetTheorems, TLAPS

InRecv(t) == pc[t] \in {"register_recv", "wsa_recv"}
InClear(t) == pc[t] \in {"clear", "cleared"}
RecvOps == pending["recv"] + Queued("recv")

\* RecvEventOnce without a cardinality, and that nothing has been received before
\* _set_connected.
RecvInv ==
  /\ RecvOps <= 1
  /\ \A t, u \in Threads : InRecv(t) /\ InRecv(u) => t = u
  /\ \A t \in Threads : InRecv(t) => RecvOps = 0
  /\ line = "none" => RecvOps = 0 /\ \A t \in Threads : ~InRecv(t)

\* One disconnection completes, which brings the connection down; its completion
\* is in the port or with one thread in _clear until _service is reset.
ClearInv ==
  /\ line \in {"none", "down"} => pending["disconnect"] = 0
  /\ line # "down" => Queued("disconnect") = 0 /\ \A t \in Threads : ~InClear(t)
  /\ pending["disconnect"] <= 1 /\ Queued("disconnect") <= 1
  /\ \A t, u \in Threads : InClear(t) /\ InClear(u) => t = u
  /\ \A t \in Threads : InClear(t) => Queued("disconnect") = 0
  /\ ~service => \/ line = "none"
                 \/ /\ line = "down" /\ Queued("disconnect") = 0
                    /\ \A t \in Threads : ~InClear(t)
  /\ ClearFindsService

IInv == TypeOK /\ RecvInv /\ (~DiscAgain => ClearInv)

-----------------------------------------------------------------------------
\* A session before its connection satisfies the invariant.
LEMMA IInvInit == Init => IInv
<1> SUFFICES ASSUME Init PROVE IInv
  OBVIOUS
<1>0. 0 \in 0 .. MaxOps
  BY SessionAssumption
<1>1. TypeOK
  <2>1. pending \in [Ops -> 0 .. MaxOps] /\ completed \in [Ops \X Results -> 0 .. MaxOps]
    BY <1>0, Zenon DEF Init
  <2>2. pc \in [Threads -> {"idle"}]
    BY DEF Init
  <2> QED BY <2>1, <2>2, Zenon DEF Init, TypeOK
<1>2. Queued("recv") = 0 /\ Queued("disconnect") = 0
      /\ pending["recv"] = 0 /\ pending["disconnect"] = 0
  BY DEF Init, Queued, Ops, Results
<1>3. RecvInv /\ ClearInv
  BY <1>2 DEF Init, RecvInv, ClearInv, RecvOps, InRecv, InClear, ClearFindsService
<1> QED BY <1>1, <1>3 DEF IInv

\* The counts are numbers.
LEMMA Counts ==
  ASSUME TypeOK
  PROVE  /\ \A o \in Ops : pending[o] \in Nat /\ Queued(o) \in Nat
         /\ \A o \in Ops, r \in Results : completed[<<o, r>>] \in Nat
BY SessionAssumption DEF TypeOK, Queued, Ops, Results

\* A change of one completion count is the change of its event's sum.
LEMMA PortChanges ==
  ASSUME TypeOK, NEW o \in Ops, NEW result \in Results, NEW n \in 0 .. MaxOps,
         completed' = [completed EXCEPT ![<<o, result>>] = n]
  PROVE  /\ completed' \in [Ops \X Results -> 0 .. MaxOps]
         /\ Queued(o)' = Queued(o) + n - completed[<<o, result>>]
         /\ \A p \in Ops : p # o => Queued(p)' = Queued(p)
<1>1. <<o, result>> \in Ops \X Results /\ completed \in [Ops \X Results -> 0 .. MaxOps]
  BY DEF TypeOK
<1>2. completed' \in [Ops \X Results -> 0 .. MaxOps]
  BY <1>1
<1>3. \A p \in Ops, r \in Results :
        completed'[<<p, r>>] = IF p = o /\ r = result THEN n ELSE completed[<<p, r>>]
  BY <1>1
<1>4. \A r \in Results : completed[<<o, r>>] \in Nat
  BY <1>1, SessionAssumption
<1>5. Queued(o)' = Queued(o) + n - completed[<<o, result>>]
  BY <1>3, <1>4 DEF Queued, Results
<1>6. \A p \in Ops : p # o => Queued(p)' = Queued(p)
  BY <1>3 DEF Queued, Results
<1> QED BY <1>2, <1>5, <1>6

\* Before the first receive: _set_connected goes on to _register_recv once.
LEMMA SetConnectedKeeps == ASSUME IInv, NEW t \in Threads, SetConnected(t) PROVE IInv'
<1> USE DEF SetConnected, At, Goto
<1>1. TypeOK'
  BY DEF IInv, TypeOK
<1>2. RecvInv'
  BY DEF IInv, TypeOK, RecvInv, RecvOps, Queued, InRecv
<1>3. ClearInv => ClearInv'
  BY DEF IInv, TypeOK, ClearInv, Queued, InClear, ClearFindsService
<1> QED BY <1>1, <1>2, <1>3 DEF IInv

\* _register_recv and WSARecv: the thread in them is the user of the event, and the
\* outstanding operation is after it.
LEMMA RecvKeeps == ASSUME IInv, NEW t \in Threads, RegisterRecv(t) \/ WSARecv(t) PROVE IInv'
<1> USE DEF RegisterRecv, WSARecv, At, Goto, Post, Ops, Results
<1>0. pending["recv"] = 0 /\ InRecv(t) /\ RecvOps = 0 /\ line # "none"
  BY Counts DEF IInv, RecvInv, RecvOps, InRecv
<1>1. TypeOK'
  BY <1>0, SessionAssumption DEF IInv, TypeOK
<1>2. RecvInv'
  BY <1>0, <1>1 DEF IInv, TypeOK, RecvInv, RecvOps, Queued, InRecv
<1>3. ClearInv => ClearInv'
  BY <1>1 DEF IInv, TypeOK, ClearInv, Queued, InClear, ClearFindsService
<1> QED BY <1>1, <1>2, <1>3 DEF IInv

\* A completion is taken from the port: the event it is of has, as its user, the
\* thread that handles it.
LEMMA DispatchKeeps ==
  ASSUME IInv, NEW t \in Threads, NEW o \in Ops, NEW result \in Results, Dispatch(t, o, result)
  PROVE  IInv'
<1> USE DEF Dispatch, ProcessRecv, ProcessSend, ProcessDisconnect, At, Goto
<1>0. /\ completed[<<o, result>>] - 1 \in 0 .. MaxOps
      /\ completed' = [completed EXCEPT ![<<o, result>>] = completed[<<o, result>>] - 1]
      /\ <<pending, line, service, connected, socket, inService, ended>>'
           = <<pending, line, service, connected, socket, inService, ended>>
      /\ crashed' \in {crashed, "freed_session"}
  BY SessionAssumption DEF IInv, TypeOK
<1>1. TypeOK'
  <2>1. completed' \in [Ops \X Results -> 0 .. MaxOps]
    BY <1>0, PortChanges, Zenon DEF IInv
  <2> QED BY <1>0, <2>1 DEF IInv, TypeOK
<1>2. /\ Queued(o)' = Queued(o) - 1
      /\ \A p \in Ops : p # o => Queued(p)' = Queued(p)
  <2>1. Queued(o)' = Queued(o) + (completed[<<o, result>>] - 1) - completed[<<o, result>>]
    BY <1>0, PortChanges, Zenon DEF IInv
  <2>2. \A p \in Ops : p # o => Queued(p)' = Queued(p)
    BY <1>0, PortChanges, Zenon DEF IInv
  <2> QED BY <2>1, <2>2, Counts DEF IInv
<1>3. \/ pc' = pc
      \/ o = "recv" /\ pc' \in {[pc EXCEPT ![t] = "register_recv"], [pc EXCEPT ![t] = "disconnect"]}
      \/ o = "send" /\ pc' \in {[pc EXCEPT ![t] = "idle"], [pc EXCEPT ![t] = "disconnect"]}
      \/ o = "disconnect" /\ pc' = [pc EXCEPT ![t] = "clear"]
  OBVIOUS
<1>. HIDE DEF Dispatch
<1>4. pc[t] = "idle" /\ crashed' # "null_service" /\ Queued(o) \in Nat \ {0}
  <2>1. /\ completed[<<o, result>>] > 0 /\ pc[t] = "idle" /\ crashed = "none"
        /\ \A r \in Results : completed[<<o, r>>] \in Nat
    BY Counts DEF IInv, Dispatch
  <2>2. Queued(o) \in Nat \ {0}
    <3>1. completed[<<o, "data">>] \in Nat /\ completed[<<o, "zero">>] \in Nat
          /\ completed[<<o, "error">>] \in Nat
      BY <2>1 DEF Results
    <3>2. completed[<<o, "data">>] > 0 \/ completed[<<o, "zero">>] > 0
          \/ completed[<<o, "error">>] > 0
      BY <2>1 DEF Results
    <3>3. \A a, b, c \in Nat : a > 0 \/ b > 0 \/ c > 0 => a + b + c \in Nat \ {0}
      OBVIOUS
    <3> HIDE DEF At, Goto, ProcessRecv, ProcessSend, ProcessDisconnect
    <3> QED BY <3>1, <3>2, <3>3, Zenon DEF Queued
  <2> QED BY <1>0, <2>1, <2>2
<1>5. RecvInv'
  BY <1>0, <1>1, <1>2, <1>3, <1>4, Counts DEF IInv, TypeOK, RecvInv, RecvOps, InRecv, Ops
<1>6. ClearInv => ClearInv'
  BY <1>0, <1>1, <1>2, <1>3, <1>4, Counts DEF IInv, TypeOK, ClearInv, InClear, ClearFindsService, Ops
<1> QED BY <1>1, <1>5, <1>6 DEF IInv

\* Disconnect, _disconnect and Stop change _connected and the place of the thread, and
\* _register_disconnect has at most one DisconnectEx accepted.
LEMMA DisconnectKeeps ==
  ASSUME IInv, NEW t \in Threads,
         Disconnect(t) \/ DisconnectOnError(t) \/ Stop(t) \/ StopClear(t) \/ RegisterDisconnect(t)
  PROVE  IInv'
<1> USE DEF Disconnect, DisconnectOnError, Stop, StopClear, RegisterDisconnect, DisconnectEx, At, Goto, Post
<1>0. pending' \in [Ops -> 0 .. MaxOps]
  <2>1. \/ pending' = pending
        \/ /\ pending["disconnect"] < MaxOps
           /\ pending' = [pending EXCEPT !["disconnect"] = pending["disconnect"] + 1]
    <3>1. \A n \in Int : n < (IF DiscAgain THEN MaxOps ELSE 1) => n < MaxOps
      BY SessionAssumption
    <3>2. pending["disconnect"] \in Int
      BY Counts DEF IInv, Ops
    <3> QED BY <3>1, <3>2
  <2> QED BY <2>1, SessionAssumption DEF IInv, TypeOK, Ops
<1>1. TypeOK'
  BY <1>0, Zenon DEF IInv, TypeOK
<1>2. /\ completed' = completed /\ line' = line /\ service' = service /\ crashed' = crashed
      /\ pending'["recv"] = pending["recv"]
      /\ \A u \in Threads : InRecv(u)' => InRecv(u)
      /\ \A u \in Threads : InClear(u)' => InClear(u)
  BY <1>1 DEF IInv, TypeOK, InRecv, InClear, Ops
<1>3. RecvInv'
  BY <1>2 DEF IInv, RecvInv, RecvOps, Queued
<1>4. ASSUME ~DiscAgain, ClearInv PROVE ClearInv'
  <2>1. \/ pending' = pending
        \/ line \in {"up", "peer_closed"} /\ pending'["disconnect"] = pending["disconnect"] + 1
           /\ pending["disconnect"] < 1
    BY <1>4 DEF IInv, TypeOK, Ops
  <2> QED BY <1>2, <1>4, <2>1, Counts DEF IInv, ClearInv, Queued, ClearFindsService, Ops
<1> QED BY <1>1, <1>3, <1>4 DEF IInv

\* _clear: with one thread in it _service is still set when it is used.
LEMMA ClearKeeps == ASSUME IInv, NEW t \in Threads, Clear(t) \/ Cleared(t) PROVE IInv'
<1> USE DEF Clear, Cleared, OnDisconnected, At, Goto
<1>1. TypeOK'
  BY Zenon DEF IInv, TypeOK
<1>2. RecvInv'
  BY <1>1 DEF IInv, TypeOK, RecvInv, RecvOps, Queued, InRecv
<1>3. ClearInv => ClearInv'
  BY <1>1 DEF IInv, TypeOK, ClearInv, Queued, InClear, ClearFindsService
<1> QED BY <1>1, <1>2, <1>3 DEF IInv

\* Sends and the peer's end of the connection concern neither event.
LEMMA OthersKeep == ASSUME IInv, (\E t \in Threads : PostSend(t)) \/ PeerCloses PROVE IInv'
<1>0. \/ /\ pending["send"] < MaxOps
         /\ pending' = [pending EXCEPT !["send"] = pending["send"] + 1]
         /\ UNCHANGED <<connected, service, socket, inService, line, completed, pc, ended, crashed>>
      \/ PeerCloses
  BY DEF PostSend, Post
<1> USE DEF PeerCloses
<1>1. TypeOK'
  <2>1. pending' \in [Ops -> 0 .. MaxOps]
    BY <1>0, SessionAssumption DEF IInv, TypeOK, Ops
  <2> QED BY <1>0, <2>1 DEF IInv, TypeOK
<1>2. /\ completed' = completed /\ pc' = pc /\ service' = service /\ crashed' = crashed
      /\ pending'["recv"] = pending["recv"] /\ pending'["disconnect"] = pending["disconnect"]
      /\ line' = line \/ (line = "up" /\ line' = "peer_closed")
  <2>1. pending'["recv"] = pending["recv"] /\ pending'["disconnect"] = pending["disconnect"]
    BY <1>0 DEF IInv, TypeOK, Ops
  <2> QED BY <1>0, <2>1
<1>3. RecvInv'
  BY <1>2 DEF IInv, RecvInv, RecvOps, Queued, InRecv
<1>4. ClearInv => ClearInv'
  BY <1>2 DEF IInv, ClearInv, Queued, InClear, ClearFindsService
<1> QED BY <1>1, <1>3, <1>4 DEF IInv

\* An operation completes: one less is outstanding, one more is in the port.
LEMMA CompleteChanges ==
  ASSUME IInv, NEW o \in Ops, NEW result \in Results, Complete(o, result)
  PROVE  /\ TypeOK' /\ pending[o] > 0
         /\ line' = IF o = "disconnect" THEN "down" ELSE line
         /\ UNCHANGED <<connected, service, socket, inService, pc, ended, crashed>>
         /\ Queued(o)' = Queued(o) + 1 /\ pending'[o] = pending[o] - 1
         /\ \A p \in Ops : p # o => Queued(p)' = Queued(p) /\ pending'[p] = pending[p]
<1>0. /\ pending[o] > 0 /\ completed[<<o, result>>] + 1 \in 0 .. MaxOps
      /\ pending' = [pending EXCEPT ![o] = pending[o] - 1]
      /\ completed' = [completed EXCEPT ![<<o, result>>] = completed[<<o, result>>] + 1]
      /\ line' = IF o = "disconnect" THEN "down" ELSE line
      /\ UNCHANGED <<connected, service, socket, inService, pc, ended, crashed>>
  BY SessionAssumption, Counts DEF Complete, IInv, TypeOK
<1>1. TypeOK'
  <2>1. completed' \in [Ops \X Results -> 0 .. MaxOps]
    BY <1>0, PortChanges, Zenon DEF IInv
  <2>2. pending' \in [Ops -> 0 .. MaxOps]
    BY <1>0, SessionAssumption DEF IInv, TypeOK
  <2> QED BY <1>0, <2>1, <2>2 DEF IInv, TypeOK
<1>2. /\ Queued(o)' = Queued(o) + 1 /\ pending'[o] = pending[o] - 1
      /\ \A p \in Ops : p # o => Queued(p)' = Queued(p) /\ pending'[p] = pending[p]
  <2>1. Queued(o)' = Queued(o) + (completed[<<o, result>>] + 1) - completed[<<o, result>>]
    BY <1>0, PortChanges, Zenon DEF IInv
  <2>2. \A p \in Ops : p # o => Queued(p)' = Queued(p)
    BY <1>0, PortChanges, Zenon DEF IInv
  <2> QED BY <1>0, <2>1, <2>2, Counts DEF IInv, TypeOK
<1> QED BY <1>0, <1>1, <1>2

\* The completion of a disconnection brings the connection down, and is the only one.
LEMMA CompleteKeeps ==
  ASSUME IInv, NEW o \in Ops, NEW result \in Results, Complete(o, result) PROVE IInv'
<1>0. /\ TypeOK' /\ pending[o] > 0
      /\ line' = IF o = "disconnect" THEN "down" ELSE line
      /\ UNCHANGED <<connected, service, socket, inService, pc, ended, crashed>>
  BY CompleteChanges, Zenon
<1>2. /\ Queued(o)' = Queued(o) + 1 /\ pending'[o] = pending[o] - 1
      /\ \A p \in Ops : p # o => Queued(p)' = Queued(p) /\ pending'[p] = pending[p]
  BY CompleteChanges, Zenon
<1>3. RecvInv'
  BY <1>0, <1>2, Counts DEF IInv, RecvInv, RecvOps, InRecv, Ops
<1>4. ASSUME ClearInv PROVE ClearInv'
  <2>1. CASE o = "disconnect"
    <3>1. line \notin {"none", "down"} /\ pending["disconnect"] = 1
      BY <1>0, <1>4, <2>1, Counts DEF IInv, ClearInv, Ops
    <3>2. Queued("disconnect")' = 1 /\ pending'["disconnect"] = 0 /\ line' = "down" /\ service
      BY <1>0, <1>2, <1>4, <2>1, <3>1, Counts DEF IInv, ClearInv, Ops
    <3> QED BY <1>0, <1>4, <3>1, <3>2 DEF ClearInv, InClear, ClearFindsService
  <2>2. CASE o # "disconnect"
    BY <1>0, <1>2, <1>4, <2>2 DEF ClearInv, InClear, ClearFindsService, Ops
  <2> QED BY <2>1, <2>2
<1> QED BY <1>0, <1>3, <1>4 DEF IInv

\* Every step keeps the invariant.
LEMMA IInvNext == IInv /\ [Next]_vars => IInv'
<1>1. IInv /\ UNCHANGED vars => IInv'
  BY DEF vars, IInv, TypeOK, RecvInv, ClearInv, RecvOps, Queued, InRecv, InClear, ClearFindsService
<1> QED BY <1>1, SetConnectedKeeps, RecvKeeps, DispatchKeeps, DisconnectKeeps, ClearKeeps, OthersKeep,
   CompleteKeeps DEF Next, Proceed, DispatchAny, CompleteAny

\* The invariant says that the users of the receive event are at most one.
LEMMA IInvGives == IInv => RecvEventOnce
<1> SUFFICES ASSUME IInv PROVE RecvEventOnce
  OBVIOUS
<1> DEFINE R == {t \in Threads : pc[t] \in {"register_recv", "wsa_recv"}}
<1>1. pending["recv"] + Queued("recv") \in 0 .. 1
  BY Counts DEF IInv, RecvInv, RecvOps, Ops
<1>2. CASE R = {}
  BY <1>1, <1>2, FS_EmptySet DEF IInv, RecvEventOnce
<1>3. CASE R # {}
  <2>1. PICK t : R = {t} /\ t \in Threads /\ InRecv(t)
    BY <1>3 DEF IInv, RecvInv, InRecv
  <2>2. Cardinality(R) = 1
    BY <2>1, FS_Singleton, Zenon
  <2> QED BY <2>1, <2>2 DEF IInv, RecvInv, RecvOps, RecvEventOnce
<1> QED BY <1>2, <1>3

-----------------------------------------------------------------------------
\* However many threads handle completions, send, disconnect and stop, the receive
\* event and the receive buffer have one user at a time: an outstanding WSARecv, its
\* completion, or the thread on its way to the next one (Session.cpp:187-199, 240).
THEOREM RecvEventHasOneUser == Spec => []RecvEventOnce
<1> QED BY IInvInit, IInvNext, IInvGives, PTL DEF Spec

\* If Winsock refuses a second DisconnectEx, _clear runs once and finds _service set,
\* though _disconnect lets several threads register a disconnection
\* (Session.cpp:71-96, 248).
THEOREM ClearRunsOnce == ASSUME ~DiscAgain PROVE Spec => []ClearFindsService
<1>1. IInv => ClearFindsService
  BY DEF IInv, ClearInv
<1> QED BY IInvInit, IInvNext, <1>1, PTL DEF Spec

-----------------------------------------------------------------------------
\* What the run session assumes of Winsock and of the caller's loop.
Regular == UseEx /\ ~RecvMayFail /\ ~DiscMayFail /\ ~DiscAgain

Disconnecting ==
  pending["disconnect"] + Queued("disconnect") > 0 \/ \E t \in Threads : InClear(t)

\* Places from which a thread posts the next receive or a disconnection.
Posting(t) ==
  pc[t] \in {"register_recv", "wsa_recv", "disconnect", "post_disconnect", "stop_post"}

\* While _connected is set, an operation that will notice the end is outstanding,
\* in the port, or about to be posted; when it cannot be posted any more, the
\* disconnection is on its way.
WatchInv ==
  /\ line = "none" => socket /\ ~connected
  /\ connected => socket
  /\ connected /\ crashed = "none" /\ line = "down" => Disconnecting
  /\ connected /\ crashed = "none" =>
       RecvOps > 0 \/ Disconnecting \/ \E t \in Threads : Posting(t)

\* _register_recv and WSARecv: WSARecv fails only when the disconnection is on its way.
LEMMA RecvWatched ==
  ASSUME IInv, Regular, WatchInv, NEW t \in Threads, RegisterRecv(t) \/ WSARecv(t) PROVE WatchInv'
<1>1. /\ InRecv(t) /\ RecvOps = 0 /\ line \in {"up", "peer_closed", "down"} /\ crashed = "none"
      /\ UNCHANGED <<connected, socket, line, completed, crashed>>
      /\ DOMAIN pending = Ops /\ DOMAIN pc = Threads
  BY SessionAssumption DEF IInv, TypeOK, RecvInv, InRecv, RegisterRecv, WSARecv, At, Ops
<1>2. Disconnecting => Disconnecting'
  <2>1. pending'["disconnect"] = pending["disconnect"]
    BY <1>1 DEF RegisterRecv, WSARecv, Post, Ops
  <2>2. \A u \in Threads : InClear(u) => InClear(u)'
    BY <1>1 DEF RegisterRecv, WSARecv, InClear, InRecv, Goto
  <2> QED BY <1>1, <2>1, <2>2 DEF Disconnecting, Queued
<1>3. connected' => RecvOps' > 0 \/ Disconnecting' \/ Posting(t)'
  <2>1. CASE RegisterRecv(t)
    BY <1>1, <2>1 DEF RegisterRecv, Goto, Posting
  <2>2. CASE WSARecv(t) /\ Post("recv")
    <3>1. pending'["recv"] = pending["recv"] + 1 /\ Queued("recv")' = Queued("recv")
      BY <1>1, <2>2 DEF Post, Ops, Queued
    <3> QED BY <1>1, <3>1, Counts DEF IInv, RecvOps, Ops
  <2>3. CASE WSARecv(t) /\ ~Post("recv")
    BY <1>1, <1>2, <2>3 DEF WSARecv, WatchInv, Regular
  <2> QED BY <2>1, <2>2, <2>3
<1> QED BY <1>1, <1>2, <1>3 DEF WatchInv

\* A completion is taken: its thread goes on to the next post, or to _clear.
LEMMA DispatchWatched ==
  ASSUME IInv, Regular, WatchInv, NEW t \in Threads, NEW o \in Ops, NEW result \in Results,
         Dispatch(t, o, result)
  PROVE  WatchInv'
<1>1. CASE crashed' # "none"
  <2>1. UNCHANGED <<connected, socket, line>>
    BY DEF Dispatch, ProcessRecv, ProcessSend, ProcessDisconnect
  <2> QED BY <1>1, <2>1 DEF WatchInv
<1>2. CASE crashed' = "none"
  <2>1. /\ UNCHANGED <<connected, socket, line, pending>> /\ pc[t] = "idle" /\ crashed = "none"
        /\ \/ o = "recv" /\ ProcessRecv(t, result)
           \/ o = "send" /\ ProcessSend(t, result)
           \/ o = "disconnect" /\ ProcessDisconnect(t)
    BY <1>2 DEF Dispatch, ProcessRecv, ProcessSend, ProcessDisconnect, DropsError, Regular, At
  <2>2. DOMAIN pc = Threads /\ \E place : pc' = [pc EXCEPT ![t] = place]
    BY <2>1 DEF ProcessRecv, ProcessSend, ProcessDisconnect, Goto, IInv, TypeOK
  <2>3. \A u \in Threads : u # t => pc'[u] = pc[u]
    BY <2>2
  <2>4. \A p \in Ops : p # o => Queued(p)' = Queued(p)
    <3>1. /\ completed[<<o, result>>] - 1 \in 0 .. MaxOps
          /\ completed' = [completed EXCEPT ![<<o, result>>] = completed[<<o, result>>] - 1]
      BY SessionAssumption DEF IInv, TypeOK, Dispatch
    <3> QED BY <3>1, PortChanges, Zenon DEF IInv
  <2>5. CASE o = "recv"
    <3>1. Posting(t)'
      BY <2>1, <2>2, <2>5 DEF ProcessRecv, Goto, Posting
    <3>2. Disconnecting => Disconnecting'
      BY <2>1, <2>3, <2>4, <2>5 DEF Disconnecting, InClear, Ops
    <3> QED BY <2>1, <3>1, <3>2 DEF WatchInv
  <2>6. CASE o = "send"
    <3>1. RecvOps' = RecvOps /\ (Disconnecting => Disconnecting')
      BY <2>1, <2>3, <2>4, <2>6 DEF RecvOps, Disconnecting, InClear, Ops
    <3>2. \A u \in Threads : Posting(u) => Posting(u)'
      BY <2>1, <2>3 DEF Posting
    <3> QED BY <2>1, <1>2, <3>1, <3>2 DEF WatchInv
  <2>7. CASE o = "disconnect"
    <3>1. InClear(t)'
      BY <2>1, <2>2, <2>7 DEF ProcessDisconnect, Goto, InClear
    <3> QED BY <2>1, <3>1 DEF WatchInv, Disconnecting
  <2> QED BY <2>5, <2>6, <2>7 DEF Ops
<1> QED BY <1>1, <1>2

\* Whoever stops watching because of _register_disconnect has posted the
\* disconnection, or was refused because another is on its way.
LEMMA DisconnectWatched ==
  ASSUME IInv, Regular, WatchInv, NEW t \in Threads,
         Disconnect(t) \/ DisconnectOnError(t) \/ Stop(t) \/ StopClear(t) \/ RegisterDisconnect(t)
  PROVE  WatchInv'
<1>0. DOMAIN pending = Ops /\ DOMAIN pc = Threads
  BY DEF IInv, TypeOK
<1>1. /\ UNCHANGED <<socket, line, completed, crashed>> /\ (connected' => connected) /\ crashed = "none"
      /\ DOMAIN pending = Ops /\ DOMAIN pc = Threads /\ ~InClear(t)
      /\ \E place : pc' = [pc EXCEPT ![t] = place]
  BY <1>0 DEF InClear, Disconnect, DisconnectOnError, Stop, StopClear, RegisterDisconnect, At, Goto
<1>2. \A u \in Threads : u # t => pc'[u] = pc[u]
  BY <1>1
<1>3. /\ pending'["recv"] = pending["recv"]
      /\ \/ pending'["disconnect"] = pending["disconnect"]
         \/ pending'["disconnect"] = pending["disconnect"] + 1
  BY <1>1 DEF Disconnect, DisconnectOnError, Stop, StopClear, RegisterDisconnect, DisconnectEx, Post, Ops
<1>4. pending["disconnect"] \in Nat /\ Queued("disconnect") \in Nat
  BY Counts DEF IInv, Ops
<1>5. RecvOps' = RecvOps /\ Queued("disconnect")' = Queued("disconnect")
  BY <1>1, <1>3 DEF RecvOps, Queued
<1>6. Disconnecting => Disconnecting'
  BY <1>1, <1>2, <1>3, <1>4, <1>5 DEF Disconnecting, InClear
<1>7. connected' /\ Posting(t) => Disconnecting' \/ Posting(t)'
  <2>1. CASE RegisterDisconnect(t) /\ Post("disconnect")
    <3>1. pending'["disconnect"] = pending["disconnect"] + 1
      BY <1>1, <2>1 DEF Post, Ops
    <3> QED BY <1>4, <1>5, <3>1 DEF Disconnecting
  <2>2. CASE RegisterDisconnect(t) /\ ~Post("disconnect")
    <3>1. ~socket \/ line = "down" \/ pending["disconnect"] > 0
      BY <2>2 DEF RegisterDisconnect, DisconnectEx, Regular
    <3>2. pending["disconnect"] > 0 => Disconnecting
      BY <1>4 DEF Disconnecting
    <3> QED BY <1>1, <1>6, <3>1, <3>2 DEF WatchInv
  <2>3. CASE DisconnectOnError(t)
    BY <1>1, <2>3 DEF DisconnectOnError, Goto, Posting
  <2>4. CASE Disconnect(t) \/ Stop(t) \/ StopClear(t)
    BY <2>4, Zenon DEF Disconnect, Stop, StopClear, At, Posting
  <2> QED BY <2>1, <2>2, <2>3, <2>4
<1>8. \A u \in Threads : Posting(u) /\ connected' => Disconnecting' \/ Posting(u)'
  BY <1>2, <1>7 DEF Posting
<1> QED BY <1>1, <1>5, <1>6, <1>8 DEF WatchInv

\* _set_connected goes on to the first receive; _clear resets _connected at its end.
LEMMA ConnectionWatched ==
  ASSUME IInv, Regular, WatchInv, NEW t \in Threads, SetConnected(t) \/ Clear(t) \/ Cleared(t)
  PROVE  WatchInv'
<1>0. DOMAIN pc = Threads /\ ClearInv
  BY DEF IInv, TypeOK, Regular
<1>1. CASE SetConnected(t)
  <2>1. Posting(t)'
    BY <1>0, <1>1 DEF SetConnected, Goto, Posting
  <2> QED BY <1>1, <2>1 DEF SetConnected, WatchInv
<1>2. CASE Clear(t)
  <2>1. InClear(t)' /\ UNCHANGED <<connected, socket, line>>
    BY <1>0, <1>2 DEF Clear, Goto, InClear, At
  <2> QED BY <2>1 DEF WatchInv, Disconnecting
<1>3. CASE Cleared(t)
  <2>1. line' = "down" /\ ~connected'
    BY <1>0, <1>3 DEF Cleared, ClearInv, InClear, At
  <2> QED BY <2>1 DEF WatchInv
<1> QED BY <1>1, <1>2, <1>3

\* Sends, the peer's end, and completions leave the watching operations where they are,
\* or move them to the port.
LEMMA OthersWatched ==
  ASSUME IInv, Regular, WatchInv,
         (\E t \in Threads : PostSend(t)) \/ PeerCloses \/ CompleteAny
  PROVE  WatchInv'
<1>1. /\ UNCHANGED <<connected, socket, pc, crashed>>
      /\ line' = line \/ (line = "up" /\ line' = "peer_closed") \/ (line' = "down" /\ Disconnecting')
      /\ RecvOps' = RecvOps
      /\ pending'["disconnect"] + Queued("disconnect")' = pending["disconnect"] + Queued("disconnect")
  <2>1. CASE (\E t \in Threads : PostSend(t)) \/ PeerCloses
    <3>1. pending' = pending \/ pending' = [pending EXCEPT !["send"] = pending["send"] + 1]
      BY <2>1 DEF PostSend, PeerCloses, Post
    <3>2. pending'["recv"] = pending["recv"] /\ pending'["disconnect"] = pending["disconnect"]
      BY <3>1 DEF IInv, TypeOK, Ops
    <3>3. /\ UNCHANGED <<connected, socket, pc, crashed, completed>>
          /\ line' = line \/ (line = "up" /\ line' = "peer_closed")
      BY <2>1 DEF PostSend, PeerCloses
    <3> QED BY <3>2, <3>3 DEF RecvOps, Queued
  <2>2. CASE CompleteAny
    <3>1. PICK o \in Ops, result \in Results : Complete(o, result)
      BY <2>2 DEF CompleteAny
    <3>2. /\ line' = IF o = "disconnect" THEN "down" ELSE line
          /\ UNCHANGED <<connected, service, socket, inService, pc, ended, crashed>>
          /\ Queued(o)' = Queued(o) + 1 /\ pending'[o] = pending[o] - 1
          /\ \A p \in Ops : p # o => Queued(p)' = Queued(p) /\ pending'[p] = pending[p]
          /\ pending[o] > 0
      BY <3>1, CompleteChanges, Zenon
    <3>3. \A p \in Ops : /\ pending'[p] + Queued(p)' = pending[p] + Queued(p)
                         /\ pending[p] \in Nat /\ Queued(p) \in Nat
      BY <3>2, Counts DEF IInv
    <3>4. o = "disconnect" => Disconnecting'
      BY <3>2, <3>3 DEF Disconnecting, Ops
    <3> QED BY <3>2, <3>3, <3>4 DEF RecvOps, Ops
  <2> QED BY <2>1, <2>2
<1>2. (Disconnecting <=> Disconnecting') /\ \A t \in Threads : Posting(t) <=> Posting(t)'
  BY <1>1 DEF Disconnecting, InClear, Posting
<1> QED BY <1>1, <1>2 DEF WatchInv

\* While _connected is set somebody will notice the end of the connection, if calls of
\* WSARecv and DisconnectEx on an open connection are accepted, a second DisconnectEx is
\* not, and the loops use the Ex form, which drops no completion (Session.cpp:31, 226,
\* 235, 240, 248).
THEOREM ConnectionIsWatched == ASSUME Regular PROVE Spec => []ConnectedIsWatched
<1>1. IInv /\ Init => WatchInv
  BY DEF Init, WatchInv
<1>2. IInv /\ WatchInv /\ [Next]_vars => WatchInv'
  <2>1. WatchInv /\ UNCHANGED vars => WatchInv'
    BY DEF vars, WatchInv, Disconnecting, RecvOps, Queued, InClear, Posting
  <2> QED BY <2>1, RecvWatched, DispatchWatched, DisconnectWatched, ConnectionWatched, OthersWatched
    DEF Next, Proceed, DispatchAny
<1>3. IInv /\ WatchInv => ConnectedIsWatched
  <2> SUFFICES ASSUME IInv, WatchInv, connected, crashed = "none" PROVE ConnectedIsWatched
    BY DEF ConnectedIsWatched
  <2> QED BY DEF WatchInv, ConnectedIsWatched, Disconnecting, RecvOps, InClear, Posting
<1> QED BY IInvInit, IInvNext, <1>1, <1>2, <1>3, PTL DEF Spec

-----------------------------------------------------------------------------
\* The programs.  InUseIsAlive is not inductive: it does not say why main is nowhere
\* near a delete while a thread is in its loop.  ProgramInv adds where main can be
\* while a thread runs, and what exists as long as main is there.
Needed == CoreGlobals \cup {"s_pool", "GPacketManager", "GSessionManager", "core", "service", "manager"}

Running(w) == at[w] \notin {"none", "ended"}

Kinds == {"server", "client"}
MainPlaces == {"init", "setup", "start", "add", "input", "join", "delete", "return", "tls",
               "statics", "done"}

ProgramInv ==
  /\ ProgramTypeOK /\ kind \in Kinds /\ mainAt \in MainPlaces
  /\ \A w \in Workers : Running(w) => w <= tasks /\ mainAt \in {"add", "input", "join"}
  /\ \A h \in holders : IF h = 0 THEN mainAt \in {"add", "input", "join", "delete", "return", "tls"}
                                 ELSE Running(h)
  /\ mainAt \in {"init", "setup", "start"} => tasks = 0
  /\ mainAt \notin {"statics", "done"} => "s_pool" \in alive
  /\ mainAt \notin {"init", "statics", "done"} => CoreGlobals \subseteq alive
  /\ mainAt \in {"start", "add", "input", "join"} => Needed \ {"manager"} \subseteq alive
  /\ mainAt \in {"add", "input", "join"} => "manager" \in alive

-----------------------------------------------------------------------------
\* What a place touches is among the objects that live from the start of the
\* tasks to their join, and a thread that has not begun or has ended touches
\* nothing (Uses).
LEMMA UsesNeeded ==
  /\ \A place : Uses(place) \subseteq Needed
  /\ Uses("none") = {} /\ Uses("ended") = {}
BY DEF Uses, Used, Needed, CoreGlobals

\* The inductive invariant contains what the run checks.
LEMMA ProgramInvGives == ProgramInv => InUseIsAlive
<1> SUFFICES ASSUME ProgramInv PROVE InUseIsAlive
  OBVIOUS
<1>1. ProgramTypeOK
  BY DEF ProgramInv
<1>2. ASSUME NEW w \in Workers PROVE Uses(at[w]) \subseteq alive
  <2>1. CASE Running(w)
    BY <2>1, UsesNeeded DEF ProgramInv
  <2>2. CASE ~Running(w)
    BY <2>2, UsesNeeded DEF Running
  <2> QED BY <2>1, <2>2
<1>3. mainAt = "input" => Uses(mainAt) \subseteq alive
  BY UsesNeeded DEF ProgramInv
<1>4. holders # {} => "GSendBufferManager" \in alive
  <2>1. SUFFICES ASSUME NEW h \in holders PROVE "GSendBufferManager" \in alive
    OBVIOUS
  <2>2. mainAt \in {"add", "input", "join", "delete", "return", "tls"}
    BY <1>1 DEF ProgramInv, ProgramTypeOK
  <2> QED BY <2>2 DEF ProgramInv, CoreGlobals
<1> QED BY <1>1, <1>2, <1>3, <1>4 DEF InUseIsAlive

\* Before InitNetCore there are no threads and no send buffers.
LEMMA ProgramInvInit == ProgramInit => ProgramInv
<1> SUFFICES ASSUME ProgramInit PROVE ProgramInv
  OBVIOUS
<1>1. kind \in Kinds /\ mainAt = "init" /\ tasks = 0 /\ holders = {} /\ "s_pool" \in alive
  BY DEF ProgramInit, Kinds
<1>2. \A w \in Workers : ~Running(w)
  BY DEF ProgramInit, Running
<1>3. ProgramTypeOK
  <2>1. TaskCount \in Nat
    BY ProgramAssumption DEF TaskCount
  <2>2. tasks \in 0 .. TaskCount
    BY <1>1, <2>1
  <2>3. at \in [Workers -> {"none", "init", "iocp", "add", "work", "check", "flush", "test",
                            "exit", "ended"}]
    BY DEF ProgramInit
  <2>4. adding \in [Workers -> SUBSET Sessions]
    BY DEF ProgramInit
  <2> QED BY <2>2, <2>3, <2>4, Zenon DEF ProgramInit, ProgramTypeOK, Statics
<1> QED BY <1>1, <1>2, <1>3 DEF ProgramInv, MainPlaces

-----------------------------------------------------------------------------
\* The steps of main keep the invariant: it leaves "join" only when no thread
\* runs, and deletes only after that.
LEMMA MainKeeps == ProgramInv /\ (MainStep \/ SendLine \/ StopLine) => ProgramInv'
<1> SUFFICES ASSUME ProgramInv, MainStep \/ SendLine \/ StopLine PROVE ProgramInv'
  OBVIOUS
<1> USE ProgramAssumption DEF ProgramInv, ProgramTypeOK, Running, Kinds, MainPlaces, Needed, Workers, TaskCount,
      Statics, CoreGlobals
<1>1. CASE InitNetCore
  BY <1>1 DEF InitNetCore, sessionVars
<1>2. CASE Setup
  BY <1>2 DEF Setup, sessionVars
<1>3. CASE StartFails
  BY <1>3 DEF StartFails, sessionVars
<1>4. CASE StartManager
  BY <1>4 DEF StartManager, sessionVars
<1>5. CASE AddTask
  BY <1>5 DEF AddTask, sessionVars
<1>6. CASE TasksAdded
  BY <1>6 DEF TasksAdded
<1>7. CASE JoinAllTasks
  BY <1>7 DEF JoinAllTasks, TasksEnded, sessionVars
<1>8. CASE StopAndDelete
  BY <1>8 DEF StopAndDelete, sessionVars
<1>9. CASE Return
  BY <1>9 DEF Return, sessionVars
<1>10. CASE MainTLS
  BY <1>10 DEF MainTLS, sessionVars
<1>11. ASSUME NEW x, DestroyStatic(x) PROVE ProgramInv'
  BY <1>11 DEF DestroyStatic, sessionVars
<1>12. CASE SendLine
  BY <1>12 DEF SendLine, mainVars
<1>13. CASE StopLine
  BY <1>13 DEF StopLine
<1> QED
  BY <1>1, <1>2, <1>3, <1>4, <1>5, <1>6, <1>7, <1>8, <1>9, <1>10, <1>11, <1>12,
     <1>13, Zenon DEF MainStep

\* The steps of a thread keep it: a thread that runs does not change what main does.
LEMMA RoundKeeps == ASSUME ProgramInv, NEW w \in Workers, Round(w) PROVE ProgramInv'
<1> USE ProgramAssumption DEF ProgramInv, ProgramTypeOK, Running, Kinds, MainPlaces, Needed, Workers, TaskCount,
      Statics, CoreGlobals, mainVars, sessionVars
<1>1. CASE InitTLS(w)
  BY <1>1 DEF InitTLS, Loop
<1>2. CASE ProcessOther(w)
  BY <1>2 DEF ProcessOther, AfterIocp
<1>3. CASE AddSession(w)
  BY <1>3 DEF AddSession, AfterIocp
<1>4. CASE DoWorkJob(w)
  BY <1>4 DEF DoWorkJob
<1>5. CASE CheckNothing(w)
  BY <1>5 DEF CheckNothing
<1>6. CASE CheckFlush(w)
  BY <1>6 DEF CheckFlush, FlushSessions, Flushable
<1>7. CASE FlushLoop(w)
  BY <1>7 DEF FlushLoop, FlushSessions, Flushable
<1>8. CASE TestOff(w)
  BY <1>8 DEF TestOff, Loop
<1>9. CASE EndTask(w)
  BY <1>9 DEF EndTask
<1>10. ASSUME NEW s \in Sessions, ProcessConnect(w, s) PROVE ProgramInv'
  BY <1>10 DEF ProcessConnect
<1>11. ASSUME NEW s \in Sessions, SessionEnds(w, s) PROVE ProgramInv'
  BY <1>11 DEF SessionEnds, AfterIocp
<1> QED
  BY <1>1, <1>2, <1>3, <1>4, <1>5, <1>6, <1>7, <1>8, <1>9, <1>10, <1>11, Zenon DEF Round

\* No thread of either program, however many there are, touches an object that main
\* or a static destructor has destroyed, and a thread-local send buffer always finds
\* GSendBufferManager (TestServer.cpp:98, TestClient.cpp:103, CoreGlobal.cpp:47).
THEOREM UseBeforeDelete == ProgramSpec => []InUseIsAlive
<1>1. ProgramInv /\ [ProgramNext]_programVars => ProgramInv'
  <2> SUFFICES ASSUME ProgramInv, [ProgramNext]_programVars PROVE ProgramInv'
    OBVIOUS
  <2>1. CASE UNCHANGED programVars \/ Done
    <3>1. UNCHANGED <<kind, mainAt, alive, off, tasks, at, adding, holders, sessions, nowConnected, reserved>>
      BY <2>1 DEF Done, programVars, mainVars, sessionVars
    <3>2. Workers' = Workers /\ TaskCount' = TaskCount /\ Statics' = Statics
      BY <3>1 DEF Workers, TaskCount, Statics
    <3>3. ProgramTypeOK'
      BY <3>1, <3>2 DEF ProgramInv, ProgramTypeOK
    <3> QED BY <3>1, <3>2, <3>3 DEF ProgramInv, Running
  <2>2. CASE MainStep \/ SendLine \/ StopLine
    BY <2>2, MainKeeps
  <2>3. ASSUME NEW w \in Workers, Round(w) PROVE ProgramInv'
    BY <2>3, RoundKeeps
  <2> QED BY <2>1, <2>2, <2>3 DEF ProgramNext
<1> QED BY ProgramInvInit, <1>1, ProgramInvGives, PTL DEF ProgramSpec
=============================================================================
