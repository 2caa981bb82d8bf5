------------------------------- MODULE Server -------------------------------
(***************************************************************************)
(* ServerService of Service.cpp with its Listener (Listener.cpp): the      *)
(* accept events, the set _sessions, and the worker threads that dispatch  *)
(* accepts and disconnections.  The application starts the service, then   *)
(* its workers, and joins the workers before it calls Stop, as TestServer  *)
(* does.  What a session does between its connection and its end is in     *)
(* Session.                                                                *)
(*                                                                         *)
(* _sessions is a std::set that no lock protects.  An insert, an erase and *)
(* a walk of Broadcast have a beginning and an end; a change that overlaps *)
(* another use of the set is a data race, and what follows it is undefined *)
(* and not modelled.                                                       *)
(***************************************************************************)
EXTENDS Naturals, FiniteSets, FiniteSetsExt

CONSTANTS
  Workers,
  App,          \* the thread that calls Start and Stop
  Events,       \* the MAX_ACCEPT_COUNT accept events of a listener
  MaxClients,   \* bound: clients accepted or being accepted at a time
  MaxFailures   \* bound: calls of Winsock that fail

ASSUME ServerAssumption ==
  /\ App \notin Workers
  /\ MaxClients \in Nat /\ MaxFailures \in Nat

\* Session objects alive at a time; an object nobody refers to is destroyed, and
\* its name is used again.
Sessions == 1 .. Cardinality(Events) + Cardinality(Workers) + MaxClients + MaxFailures + 1
NULL == 0

Threads == Workers \cup {App}

VARIABLES
  onGoing,     \* _onGoing
  listener,    \* _listener: "none", "made", or "listening"
  stale,       \* the port has completions whose event was destroyed
  where,       \* of each event: "none", "pending" in AcceptEx, "done" in the port, "hand"
  ref,         \* _session of each event
  sessions,    \* _sessions
  life,        \* of each session: "closed", "waiting" for its client, "open"
  pc, event, current,   \* of each thread: where it is, its event, its session
  failures,    \* how many calls of Winsock have failed
  crashed      \* why nothing more can be said of the process, or "none"

vars == <<onGoing, listener, stale, where, ref, sessions, life, pc, event, current,
          failures, crashed>>
process == <<onGoing, listener, stale>>

Init ==
  /\ onGoing = FALSE
  /\ listener = "none"
  /\ stale = FALSE
  /\ where = [e \in Events |-> "none"]
  /\ ref = [e \in Events |-> NULL]
  /\ sessions = {}
  /\ life = [s \in Sessions |-> "closed"]
  /\ pc = [t \in Threads |-> "idle"]
  /\ event = [t \in Threads |-> NULL]
  /\ current = [t \in Threads |-> NULL]
  /\ failures = 0
  /\ crashed = "none"

At(t, place) == crashed = "none" /\ pc[t] = place

Goto(t, place) == pc' = [pc EXCEPT ![t] = place]

Succeeds == UNCHANGED failures
Fails == failures < MaxFailures /\ failures' = failures + 1

\* The objects that a shared_ptr keeps: the service, an event, a call in progress,
\* or the application while the session is connected.
Alive ==
  sessions \cup {ref[e] : e \in Events} \cup {current[t] : t \in Threads}
    \cup {s \in Sessions : life[s] = "open"}

\* Threads that are changing _sessions, or walking through it.
Changing == {t \in Threads : pc[t] \in {"insert", "erase"}}
Walking == {t \in Threads : pc[t] = "walk"}

\* A thread begins to use _sessions, while the threads in others use it.
BeginUse(t, place, others) ==
  IF others = {} THEN Goto(t, place) /\ UNCHANGED crashed
                 ELSE crashed' = "data_race" /\ UNCHANGED pc

\* A thread is done with its event: a worker leaves Dispatch, Start goes on.
Return(t) ==
  /\ Goto(t, IF t = App THEN "next" ELSE "idle")
  /\ event' = [event EXCEPT ![t] = NULL]
  /\ current' = [current EXCEPT ![t] = NULL]

-----------------------------------------------------------------------------
\* ServerService::Start, which makes the listener.
Start ==
  /\ At(App, "idle")
  /\ ~onGoing
  /\ listener' = "made"
  /\ Goto(App, "listen")
  /\ UNCHANGED <<onGoing, stale, where, ref, sessions, life, event, current, failures, crashed>>

\* StartListen up to Listen; when a call fails, Start returns false.
StartListen ==
  /\ At(App, "listen")
  /\ \/ Succeeds /\ listener' = "listening" /\ Goto(App, "next")
     \/ Fails /\ UNCHANGED listener /\ Goto(App, "idle")
  /\ UNCHANGED <<onGoing, stale, where, ref, sessions, life, event, current, crashed>>

\* The loop of StartListen, and the end of Start.
NextEvent ==
  /\ At(App, "next")
  /\ \/ \E e \in Events :
          /\ where[e] = "none"
          /\ where' = [where EXCEPT ![e] = "hand"]
          /\ event' = [event EXCEPT ![App] = e]
          /\ Goto(App, "register")
          /\ UNCHANGED onGoing
     \/ /\ \A e \in Events : where[e] # "none"
        /\ onGoing' = TRUE
        /\ Goto(App, "idle")
        /\ UNCHANGED <<where, event>>
  /\ UNCHANGED <<listener, stale, ref, sessions, life, current, failures, crashed>>

\* RegisterAccept calls AddNewSession: a new session is registered with the port.
\* Without that AddNewSession returns nullptr, which RegisterAccept dereferences.
AddNewSession(t) ==
  /\ At(t, "register")
  /\ \/ /\ Fails
        /\ crashed' = "null_session"
        /\ UNCHANGED <<life, current, pc>>
     \/ /\ Succeeds
        /\ Sessions \ Alive # {}
        /\ LET s == Min(Sessions \ Alive)
           IN  /\ life' = [life EXCEPT ![s] = "waiting"]
               /\ current' = [current EXCEPT ![t] = s]
        /\ BeginUse(t, "insert", Changing \cup Walking)
  /\ UNCHANGED <<process, where, ref, sessions, event>>

\* Mutant: the session is not put into the set.
InsertedNot(t) == sessions

Inserted(t) == sessions \cup {current[t]}

\* _sessions.insert, and the session becomes the event's.
Insert(t) ==
  /\ At(t, "insert")
  /\ sessions' = Inserted(t)
  /\ ref' = [ref EXCEPT ![event[t]] = current[t]]
  /\ Goto(t, "accept")
  /\ UNCHANGED <<process, where, life, event, current, failures, crashed>>

\* Mutant: the listener gives up.
RegisterNoMore(t) == Return(t)

\* RegisterAccept is called again for the thread's event.
RegisterAgain(t) ==
  /\ Goto(t, "register")
  /\ current' = [current EXCEPT ![t] = NULL]
  /\ UNCHANGED event

\* AcceptEx; when it fails RegisterAccept starts again with another session.
AcceptEx(t) ==
  /\ At(t, "accept")
  /\ \/ /\ Succeeds
        /\ where' = [where EXCEPT ![event[t]] = "pending"]
        /\ Return(t)
     \/ Fails /\ RegisterAgain(t) /\ UNCHANGED where
  /\ UNCHANGED <<process, ref, sessions, life, crashed>>

-----------------------------------------------------------------------------
\* Winsock completes an accept; the completion may tell of an error.
Arrive(e) ==
  /\ crashed = "none"
  /\ where[e] = "pending"
  /\ Cardinality({s \in Sessions : life[s] = "open"})
       + Cardinality({d \in Events : where[d] = "done"}) < MaxClients
  /\ where' = [where EXCEPT ![e] = "done"]
  /\ UNCHANGED <<process, ref, sessions, life, pc, event, current, failures, crashed>>

\* A worker takes a completion from the port and dispatches it to the listener.
Dispatch(t, e) ==
  /\ t \in Workers /\ At(t, "idle") /\ onGoing
  /\ where[e] = "done"
  /\ where' = [where EXCEPT ![e] = "hand"]
  /\ event' = [event EXCEPT ![t] = e]
  /\ current' = [current EXCEPT ![t] = ref[e]]
  /\ Goto(t, "update")
  /\ UNCHANGED <<process, ref, sessions, life, failures, crashed>>

\* The port hands out a completion whose event Stop has destroyed.
DispatchStale(t) ==
  /\ t \in Workers /\ At(t, "idle") /\ onGoing
  /\ stale
  /\ crashed' = "freed_event"
  /\ UNCHANGED <<process, where, ref, sessions, life, pc, event, current, failures>>

\* ProcessAccept up to _set_connected.  The result of getpeername goes through a
\* bool, which never equals SOCKET_ERROR, so that its test does not fail.
UpdateAccept(t) ==
  /\ At(t, "update")
  /\ \/ Succeeds /\ Goto(t, "connect") /\ UNCHANGED <<event, current>>
     \/ Fails /\ RegisterAgain(t)
  /\ UNCHANGED <<process, where, ref, sessions, life, crashed>>

\* _set_connected, after which the event is registered again.
SetConnected(t) ==
  /\ At(t, "connect")
  /\ life' = [life EXCEPT ![current[t]] = "open"]
  /\ RegisterAgain(t)
  /\ UNCHANGED <<process, where, ref, sessions, failures, crashed>>

\* The disconnection of a session is dispatched: _clear calls ReleaseSession.
DispatchDisconnect(t, s) ==
  /\ t \in Workers /\ At(t, "idle") /\ onGoing
  /\ life[s] = "open"
  /\ \A u \in Threads : current[u] # s
  /\ current' = [current EXCEPT ![t] = s]
  /\ BeginUse(t, "erase", Changing \cup Walking)
  /\ UNCHANGED <<process, where, ref, sessions, life, event, failures>>

\* _sessions.erase, and the end of _clear.
ReleaseSession(t) ==
  /\ At(t, "erase")
  /\ sessions' = sessions \ {current[t]}
  /\ life' = [life EXCEPT ![current[t]] = "closed"]
  /\ current' = [current EXCEPT ![t] = NULL]
  /\ Goto(t, "idle")
  /\ UNCHANGED <<process, where, ref, event, failures, crashed>>

\* Broadcast walks through _sessions and sends to the connected ones.
Broadcast ==
  /\ At(App, "idle") /\ onGoing
  /\ BeginUse(App, "walk", Changing)
  /\ UNCHANGED <<process, where, ref, sessions, life, event, current, failures>>

BroadcastEnd ==
  /\ At(App, "walk")
  /\ Goto(App, "idle")
  /\ UNCHANGED <<process, where, ref, sessions, life, event, current, failures, crashed>>

\* Stop, once the workers are joined.  The listener destroys its events, and the
\* sessions go, with operations outstanding on both.
Stop ==
  /\ \A t \in Threads : At(t, "idle")
  /\ listener # "none"
  /\ onGoing' = FALSE
  /\ listener' = "none"
  /\ stale' = (stale \/ listener = "listening")
  /\ where' = [e \in Events |-> "none"]
  /\ ref' = [e \in Events |-> NULL]
  /\ sessions' = {}
  /\ life' = [s \in Sessions |-> "closed"]
  /\ UNCHANGED <<pc, event, current, failures, crashed>>

-----------------------------------------------------------------------------
Proceed(t) ==
  \/ AddNewSession(t) \/ Insert(t) \/ AcceptEx(t)
  \/ UpdateAccept(t) \/ SetConnected(t) \/ ReleaseSession(t)
  \/ t = App /\ (StartListen \/ NextEvent \/ BroadcastEnd)

Next ==
  \/ \E t \in Threads : Proceed(t)
  \/ \E t \in Workers, e \in Events : Dispatch(t, e)
  \/ \E t \in Workers, s \in Sessions : DispatchDisconnect(t, s)
  \/ \E t \in Workers : DispatchStale(t)
  \/ \E e \in Events : Arrive(e)
  \/ Start \/ Broadcast
  \/ Stop

Spec == Init /\ [][Next]_vars

\* Threads go on with the calls they are in, and the port hands completions out
\* in order, so that none waits for ever while the workers come back to it.
Fairness ==
  /\ \A t \in Threads : WF_vars(Proceed(t))
  /\ \A e \in Events : SF_vars(\E t \in Workers : Dispatch(t, e))

LiveSpec == Spec /\ Fairness

-----------------------------------------------------------------------------
TypeOK ==
  /\ {onGoing, stale} \subseteq BOOLEAN
  /\ listener \in {"none", "made", "listening"}
  /\ where \in [Events -> {"none", "pending", "done", "hand"}]
  /\ ref \in [Events -> Sessions \cup {NULL}]
  /\ sessions \subseteq Sessions
  /\ life \in [Sessions -> {"closed", "waiting", "open"}]
  /\ pc \in [Threads -> {"idle", "listen", "next", "register", "insert", "accept", "update",
                         "connect", "erase", "walk"}]
  /\ event \in [Threads -> Events \cup {NULL}]
  /\ current \in [Threads -> Sessions \cup {NULL}]
  /\ failures \in 0 .. MaxFailures
  /\ crashed \in {"none", "null_session", "freed_event", "data_race"}

\* A running server keeps all its accepts: whatever fails in ProcessAccept or
\* RegisterAccept, each event waits for a client, waits in the port, or is with
\* one thread, and no two events wait on one session (Listener.cpp:41-86).
AcceptsKept ==
  /\ TypeOK
  /\ onGoing => \A e \in Events :
       \/ where[e] \in {"pending", "done"} /\ \A t \in Threads : event[t] # e
       \/ where[e] = "hand" /\ \E t \in Threads : \A u \in Threads : event[u] = e <=> u = t
  /\ \A e, d \in Events :
       where[e] \in {"pending", "done"} =>
         life[ref[e]] = "waiting" /\ (ref[d] = ref[e] => d = e)

\* Sessions do not pile up in _sessions: those that are neither connected nor
\* waiting for a client nor in a thread's hands are left over from calls that
\* failed, one each (Listener.cpp:57-59, 66-70; Service.cpp:202, 209).
LeftOverByFailure ==
  Cardinality({s \in sessions \ {current[t] : t \in Threads} :
                 life[s] # "open" /\ \A e \in Events : ref[e] = s => where[e] = "hand"})
    <= failures

\* Broadcast sends "to all connected sessions" (Service.h:127) by walking
\* _sessions, so every connected session is there until its end is handled,
\* as long as the uses of the set do not overlap, and the set does not grow
\* with the clients that come and go (Service.cpp:183-211).
ConnectedInService ==
  /\ \A s \in Sessions : life[s] = "open" => s \in sessions
  /\ LeftOverByFailure

\* An accept that completes is handled and its event registered again, so that
\* the next client can come (Listener.cpp:85).
AcceptAgain ==
  \A e \in Events :
    where[e] = "done" ~> (where[e] = "pending" \/ ~onGoing \/ crashed # "none")

\* The uses of _sessions do not overlap.
SetUsedInTurn == crashed # "data_race"
=============================================================================
