------------------------------- MODULE Client -------------------------------
(***************************************************************************)
(* ClientServiceEx (ClientServiceEx.cpp), ClientService (Service.cpp) and  *)
(* their Connectors (Connector.cpp): Start posts the connects, one or      *)
(* MAX_SESSION_COUNT, workers turn their completions into sessions, and    *)
(* the application sends, disconnects and stops.  The workers are joined   *)
(* before Stop, as TestClient does.                                        *)
(*                                                                         *)
(* _sessions is a vector, and _session a pointer, that no lock protects: a *)
(* change that overlaps another use is a data race, and what follows it is *)
(* not modelled.  ClientService's _session is modelled as a vector with a  *)
(* slot from the first session on.                                         *)
(***************************************************************************)
EXTENDS Naturals, FiniteSets, Sequences, SequencesExt

CONSTANTS
  Workers,
  App,
  MAX_SESSION_COUNT,
  Ex,              \* workers call ProcessQueuedCompletionStatusEx
  MaxConnectors,   \* bound: connectors alive at a time
  MaxFailures      \* bound: calls of Winsock that fail

Threads == Workers \cup {App}

\* Connectors in the order in which _connectors gets them.  A session has the
\* name of the connector that made it.
Connectors == 1 .. MaxConnectors
NULL == 0

VARIABLES
  kind,        \* "many" for ClientServiceEx, "one" for ClientService
  onGoing,     \* _onGoing
  started,     \* how many connectors the Start in progress has made
  starts,      \* how often Start was called since the last Stop
  stale,       \* the port may have completions of destroyed objects
  conn,        \* of each connector: "none", "idle", "pending", "ok" or "error" in the
               \* port, "hand" of a worker, "connected", "dropped"
  slots,       \* _sessions, or _session
  life,        \* of each session: "none", "made", "open", "closing", "closed"
  pc, current, \* of each thread: where it is, and its session
  failures, crashed

vars == <<kind, onGoing, started, starts, stale, conn, slots, life, pc, current, failures, crashed>>
process == <<kind, onGoing, started, starts, stale>>

Init ==
  /\ kind \in {"many", "one"}
  /\ onGoing = FALSE
  /\ started = 0 /\ starts = 0
  /\ stale = FALSE
  /\ conn = [k \in Connectors |-> "none"]
  /\ slots = <<>>
  /\ life = [k \in Connectors |-> "none"]
  /\ pc = [t \in Threads |-> "idle"]
  /\ current = [t \in Threads |-> NULL]
  /\ failures = 0
  /\ crashed = "none"

At(t, place) == crashed = "none" /\ pc[t] = place

Goto(t, place) == pc' = [pc EXCEPT ![t] = place]

Succeeds == UNCHANGED failures
Fails == failures < MaxFailures /\ failures' = failures + 1

Limit == IF kind = "one" THEN 1 ELSE MAX_SESSION_COUNT

Unused == {k \in Connectors : conn[k] = "none"}

\* Threads that are changing _sessions, or walking through it.
Changing == {t \in Threads : pc[t] \in {"push", "release"}}
Walking == {t \in Threads : pc[t] = "send"}

\* A thread begins to use _sessions, while the threads in others use it.
BeginUse(t, place, others) ==
  IF others = {} THEN Goto(t, place) /\ UNCHANGED crashed
                 ELSE crashed' = "data_race" /\ UNCHANGED pc

-----------------------------------------------------------------------------
\* Start of either service.  ClientService drops the connector of a Start that failed.
Start ==
  /\ At(App, "idle")
  /\ ~onGoing
  /\ Unused # {}
  /\ conn' = [k \in Connectors |->
                IF kind = "one" /\ conn[k] = "idle" THEN "none" ELSE conn[k]]
  /\ started' = 0
  /\ starts' = starts + 1
  /\ Goto(App, "connect")
  /\ UNCHANGED <<kind, onGoing, stale, slots, life, current, failures, crashed>>

\* One round of its loop: a connector is kept, and Connect posts ConnectEx.  When a
\* call in Connect fails Start returns false, and what it has posted stays.
Connect ==
  /\ At(App, "connect")
  /\ started < Limit
  /\ \E k \in Unused :
       /\ \A j \in Unused : k <= j
       /\ \/ Succeeds /\ conn' = [conn EXCEPT ![k] = "pending"] /\ UNCHANGED pc
          \/ Fails /\ conn' = [conn EXCEPT ![k] = "idle"] /\ Goto(App, "idle")
  /\ started' = started + 1
  /\ UNCHANGED <<kind, onGoing, starts, stale, slots, life, current, crashed>>

\* The end of Start.
StartDone ==
  /\ At(App, "connect")
  /\ started = Limit
  /\ onGoing' = TRUE
  /\ Goto(App, "idle")
  /\ UNCHANGED <<kind, started, starts, stale, conn, slots, life, current, failures, crashed>>

\* Winsock completes a connect.
Complete(k) ==
  /\ crashed = "none"
  /\ conn[k] = "pending"
  /\ \/ Succeeds /\ conn' = [conn EXCEPT ![k] = "ok"]
     \/ Fails /\ conn' = [conn EXCEPT ![k] = "error"]
  /\ UNCHANGED <<process, slots, life, pc, current, crashed>>

\* A worker takes the completion from the port.  Connector::Dispatch does not look
\* at its status, and AddNewSession makes a session and goes on to push_back.
\* ProcessQueuedCompletionStatus dispatches no completion that reports an error.
Dispatch(t, k) ==
  /\ t \in Workers /\ At(t, "idle") /\ onGoing
  /\ conn[k] = "ok" \/ (conn[k] = "error" /\ Ex)
  /\ conn' = [conn EXCEPT ![k] = "hand"]
  /\ life' = [life EXCEPT ![k] = "made"]
  /\ current' = [current EXCEPT ![t] = k]
  /\ BeginUse(t, "push", Changing \cup Walking)
  /\ UNCHANGED <<process, slots, failures>>

Drop(t, k) ==
  /\ t \in Workers /\ At(t, "idle") /\ onGoing
  /\ conn[k] = "error" /\ ~Ex
  /\ conn' = [conn EXCEPT ![k] = "dropped"]
  /\ UNCHANGED <<process, slots, life, pc, current, failures, crashed>>

\* The port hands out a completion whose connector or session Stop has destroyed.
DispatchStale(t) ==
  /\ t \in Workers /\ At(t, "idle") /\ onGoing
  /\ stale
  /\ crashed' = "freed_event"
  /\ UNCHANGED <<process, conn, slots, life, pc, current, failures>>

\* _sessions.push_back, or _session = ..., and RegisterHandle.  When that fails AddNewSession returns
\* nullptr, which _processConnect dereferences.
Push(t) ==
  /\ At(t, "push")
  /\ slots' = IF kind = "one" THEN <<current[t]>> ELSE Append(slots, current[t])
  /\ \/ Succeeds /\ Goto(t, "set") /\ UNCHANGED crashed
     \/ Fails /\ crashed' = "null_session" /\ UNCHANGED pc
  /\ UNCHANGED <<process, conn, life, current>>

\* Mutants: _processConnect does not tell that the connector is connected, the
\* first slot in use is cleared, whatever it holds, Stop leaves the slots alone.
ConnectedForgotten(k) == conn
SlotOfFirst(k) == SelectInSeq(slots, LAMBDA x : x # NULL)
ReleaseNoSessions == slots

Connected(k) == [conn EXCEPT ![k] = "connected"]

\* The slot ReleaseSession clears: ClientService does not compare the session.
SlotOf(k) == SelectInSeq(slots, LAMBDA x : IF kind = "one" THEN x # NULL ELSE x = k)

ReleaseAllSessions == <<>>

\* _processConnect.
ProcessConnect(t) ==
  /\ At(t, "set")
  /\ conn' = Connected(current[t])
  /\ life' = [life EXCEPT ![current[t]] = "open"]
  /\ current' = [current EXCEPT ![t] = NULL]
  /\ Goto(t, "idle")
  /\ UNCHANGED <<process, slots, failures, crashed>>

\* The end of a session is dispatched, asked for by either side: _clear calls
\* ReleaseSession.
DispatchDisconnect(t, k) ==
  /\ t \in Workers /\ At(t, "idle") /\ onGoing
  /\ life[k] \in {"open", "closing"}
  /\ \A u \in Threads : current[u] # k
  /\ current' = [current EXCEPT ![t] = k]
  /\ BeginUse(t, "release", Changing \cup Walking)
  /\ UNCHANGED <<process, conn, slots, life, failures>>

\* ReleaseSession clears the slot of the session, and _clear ends.
ReleaseSession(t) ==
  /\ At(t, "release")
  /\ LET i == SlotOf(current[t])
     IN  slots' = IF i = 0 THEN slots ELSE [slots EXCEPT ![i] = NULL]
  /\ life' = [life EXCEPT ![current[t]] = "closed"]
  /\ current' = [current EXCEPT ![t] = NULL]
  /\ Goto(t, "idle")
  /\ UNCHANGED <<process, conn, failures, crashed>>

-----------------------------------------------------------------------------
\* Send walks through the slots that hold a session.
Send ==
  /\ At(App, "idle") /\ onGoing
  /\ BeginUse(App, "send", Changing)
  /\ UNCHANGED <<process, conn, slots, life, current, failures>>

SendEnd ==
  /\ At(App, "send")
  /\ Goto(App, "idle")
  /\ UNCHANGED <<process, conn, slots, life, current, failures, crashed>>

\* DisconnectAll disconnects the session of every slot, without the test of Send.
DisconnectAll ==
  /\ At(App, "idle") /\ onGoing /\ kind = "many"
  /\ \/ /\ Changing # {}
        /\ crashed' = "data_race"
        /\ UNCHANGED life
     \/ /\ Changing = {} /\ NULL \in ToSet(slots)
        /\ crashed' = "null_slot"
        /\ UNCHANGED life
     \/ /\ Changing = {} /\ NULL \notin ToSet(slots)
        /\ life' = [k \in Connectors |->
                      IF k \in ToSet(slots) /\ life[k] = "open" THEN "closing" ELSE life[k]]
        /\ UNCHANGED crashed
  /\ UNCHANGED <<process, conn, slots, pc, current, failures>>

\* Stop, once the workers are joined: the connectors and the sessions go, with
\* the operations they have outstanding.
Stop ==
  /\ \A t \in Threads : At(t, "idle")
  /\ starts > 0
  /\ onGoing' = FALSE
  /\ stale' = (stale \/ \E k \in Connectors : conn[k] \in {"pending", "ok", "error"}
                                              \/ life[k] \in {"open", "closing"})
  /\ conn' = [k \in Connectors |-> "none"]
  /\ slots' = ReleaseAllSessions
  /\ life' = [k \in Connectors |-> "none"]
  /\ starts' = 0
  /\ UNCHANGED <<kind, started, pc, current, failures, crashed>>

-----------------------------------------------------------------------------
Proceed(t) ==
  \/ Push(t) \/ ProcessConnect(t) \/ ReleaseSession(t)
  \/ t = App /\ (Connect \/ StartDone \/ SendEnd)

Take(t, k) == Dispatch(t, k) \/ Drop(t, k)

Next ==
  \/ \E t \in Threads : Proceed(t)
  \/ \E t \in Workers, k \in Connectors : Take(t, k) \/ DispatchDisconnect(t, k)
  \/ \E t \in Workers : DispatchStale(t)
  \/ \E k \in Connectors : Complete(k)
  \/ Start \/ Send \/ DisconnectAll \/ Stop

Spec == Init /\ [][Next]_vars

\* Threads go on with the calls they are in, and workers come back to the port
\* while it has completions.
Fairness ==
  /\ \A t \in Threads : WF_vars(Proceed(t))
  /\ WF_vars(\E t \in Workers, k \in Connectors : Take(t, k))

LiveSpec == Spec /\ Fairness

-----------------------------------------------------------------------------
TypeOK ==
  /\ kind \in {"many", "one"}
  /\ {onGoing, stale} \subseteq BOOLEAN
  /\ started \in 0 .. MAX_SESSION_COUNT
  /\ starts \in Nat
  /\ conn \in [Connectors -> {"none", "idle", "pending", "ok", "error", "hand", "connected",
                              "dropped"}]
  /\ slots \in BoundedSeq(Connectors \cup {NULL}, MaxConnectors)
  /\ life \in [Connectors -> {"none", "made", "open", "closing", "closed"}]
  /\ pc \in [Threads -> {"idle", "connect", "push", "set", "release", "send"}]
  /\ current \in [Threads -> Connectors \cup {NULL}]
  /\ failures \in 0 .. MaxFailures
  /\ crashed \in {"none", "data_race", "null_session", "null_slot", "freed_event"}

\* A connected session has one slot, so that Send reaches it once, and a slot holds
\* no session that has ended, whatever sessions came and went before and however
\* often the service was started.  The slots without a session, which DisconnectAll
\* does not expect, are those of the sessions that have ended
\* (ClientServiceEx.cpp:67-116, Service.cpp:96-119).
OneSlotEach ==
  /\ TypeOK
  /\ \A k \in Connectors :
       LET held == Cardinality({i \in DOMAIN slots : slots[i] = k})
       IN  /\ life[k] \in {"open", "closing"} => held = 1
           /\ life[k] \in {"none", "closed"} => held = 0
           /\ held <= 1
  /\ Cardinality({i \in DOMAIN slots : slots[i] = NULL})
       = Cardinality({k \in Connectors : life[k] = "closed"})

\* The vector grows to MAX_SESSION_COUNT slots for the Start that succeeds, and by
\* less than that for each one that failed before it and left its connectors
\* connecting: there is no other way to a session, and ClientService has one at
\* most (ClientServiceEx.cpp:14-65, Service.cpp:31-80).
SlotsPerStart ==
  LET failed == Cardinality({k \in Connectors : conn[k] = "idle"})
  IN  /\ kind = "many" => starts = failed + (IF onGoing \/ pc[App] = "connect" THEN 1 ELSE 0)
      /\ Len(slots) <= Limit + failed * (Limit - 1)

\* A connect that succeeds becomes a session, unless the service stops
\* (Connector.cpp:55-77).
ConnectIsReported ==
  \A k \in Connectors :
    (conn[k] = "ok" /\ onGoing) ~> (conn[k] = "connected" \/ ~onGoing \/ crashed # "none")

\* _set_connected is for a socket that is connected.
ConnectedIsReal == [][\A k \in Connectors : conn[k] = "error" => conn'[k] # "hand"]_vars

\* DisconnectAll can be called whenever the service is started.
DisconnectAllSafe == crashed # "null_slot"
=============================================================================
