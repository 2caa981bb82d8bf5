----------------------------- MODULE MCServices -----------------------------
(***************************************************************************)
(* A process with one service, the server of Server or a client of Client, *)
(* as NetCore.h's users have: the same worker threads, application thread  *)
(* and bounds for both.                                                    *)
(***************************************************************************)
EXTENDS Server

CONSTANTS w1, w2, app, e1, e2,
          MAX_SESSION_COUNT, Ex, MaxConnectors, MaxConnectFailures

ASSUME ClientAssumption ==
  /\ Ex \in BOOLEAN
  /\ MAX_SESSION_COUNT \in Nat /\ MaxConnectors \in Nat /\ MaxConnectFailures \in Nat

VARIABLES
  isServer,
  kind, isOnGoing, started, starts, isStale, conn, slots, lives, at, its, failed, crash

client == <<kind, isOnGoing, started, starts, isStale, conn, slots, lives, at, its, failed, crash>>

C == INSTANCE Client WITH
       MaxFailures <- MaxConnectFailures, onGoing <- isOnGoing, stale <- isStale,
       life <- lives, pc <- at, current <- its, failures <- failed, crashed <- crash

all == <<isServer, vars, client>>

ServicesInit ==
  /\ isServer \in BOOLEAN
  /\ Init /\ C!Init
  /\ isServer => kind = "many"

Serves(A) == isServer /\ A /\ UNCHANGED <<isServer, client>>
Connects(A) == ~isServer /\ A /\ UNCHANGED <<isServer, vars>>

ServicesNext == Serves(Next) \/ Connects(C!Next)

\* The fairness of the two.
ServicesSpec ==
  /\ ServicesInit
  /\ [][ServicesNext]_all
  /\ \A t \in Threads : WF_all(Serves(Proceed(t)) \/ Connects(C!Proceed(t)))
  /\ \A e \in Events : SF_all(\E t \in Workers : Serves(Dispatch(t, e)))
  /\ WF_all(\E t \in Workers, k \in C!Connectors : Connects(C!Take(t, k)))

\* Client!OneSlotEach: a connected session has one slot of _sessions, and a slot
\* holds no session that has ended (ClientServiceEx.cpp:67-116, Service.cpp:96-119).
OneSlotEach == C!OneSlotEach

\* Client!SlotsPerStart: _sessions grows by the sessions of the Start calls and no
\* more (ClientServiceEx.cpp:14-65, Service.cpp:31-80).
SlotsPerStart == C!SlotsPerStart

\* Client!ConnectIsReported: a connect that succeeds becomes a session, unless the
\* service stops (Connector.cpp:55-77).
ConnectIsReported == C!ConnectIsReported

\* Client!ConnectedIsReal: _set_connected is for a socket that is connected.
ConnectedIsReal == C!ConnectedIsReal

\* Client!DisconnectAllSafe: DisconnectAll can be called whenever the service is
\* started.
DisconnectAllSafe == C!DisconnectAllSafe
=============================================================================
