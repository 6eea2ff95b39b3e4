---------------------------- MODULE GatewaySocket ----------------------------
(***************************************************************************)
(* The client's end of the gateway (fluxer_app/src/lib/GatewaySocket.tsx): *)
(* its connection state, its timers, the WebSockets it opens and the       *)
(* session it believes to have.  JavaScript runs one callback at a time,   *)
(* so each callback is one action.                                         *)
(*                                                                         *)
(* The server is kept to what decides the client's next state: which       *)
(* session a socket is attached to, the number that session has reached    *)
(* and the number it was told is acknowledged.  It answers a request when  *)
(* it is sent; the answer waits in the socket's queue.                     *)
(***************************************************************************)
EXTENDS Naturals, FiniteSets, Sequences, Functions

CONSTANTS
  MaxSockets,    \* bound: WebSockets that exist at a time
  MaxOpening,    \* bound: connections waiting for their URL
  MaxSessions,   \* bound: sessions the server starts
  MaxSeq,        \* bound: events of a session
  MaxQueue,      \* bound: frames on their way on one socket
  Sleeps,        \* the resume window may pass between two callbacks
  UserActs       \* someone calls disconnect and reset

Sockets == 1..MaxSockets
Sessions == 1..MaxSessions
Gone == MaxSessions + 1      \* the handler has ended

ASSUME SocketAssumption ==
  /\ MaxSockets \in Nat \ {0}
  /\ MaxOpening \in Nat \ {0}
  /\ MaxSessions \in Nat \ {0}
  /\ MaxSeq \in Nat
  /\ MaxQueue \in Nat \ {0}
  /\ Sleeps \in BOOLEAN
  /\ UserActs \in BOOLEAN

VARIABLES
  state,         \* connectionState
  session,       \* activeSessionId, 0 for null
  last,          \* lastSequenceNumber
  beat,          \* which of lastHeartbeatSentAt, lastHeartbeatAckAt are set
  stale,         \* what canResumeSession looks at is longer ago than ResumeWindow
  timers,        \* pending timers, by name
  awaiting,      \* awaitingHeartbeatAck, with its timeout
  quit,          \* isUserInitiatedDisconnect
  opening,       \* buildGatewayUrl promises not yet settled
  socket,        \* this.socket, 0 for null
  ws,            \* state of each WebSocket, "none" when it is closed
  listening,     \* WebSockets whose listeners are attached
  inbox,         \* frames on their way to the client
  handler,       \* session_pid of the handler at the other end, 0 for undefined
  via,           \* socket each session sends to, 0 for none
  born,          \* sessions started
  alive,         \* sessions running
  unready,       \* sessions that have not sent READY
  reached,       \* seq of each session
  refused,       \* history: a live session refused a resume
  twice          \* history: IDENTIFY on a socket that has a session

timeVars == <<beat, stale>>
socketVars == <<opening, socket, ws, listening>>
sessionVars == <<born, alive, unready, reached, refused, twice>>
serverVars == <<handler, via, sessionVars>>
vars == <<state, session, last, timeVars, timers, awaiting, quit, socketVars, inbox, serverVars>>

Frame(t, s, n) == [t |-> t, s |-> s, session |-> n]

-----------------------------------------------------------------------------
(* Faulty variants of the definitions below.  No behaviour uses them: each  *)
(* replaces its definition in a check that some property then fails.       *)

\* A session whose heartbeats were never acknowledged cannot be resumed.
CanResumeSessionOnceAcked == session # 0 /\ beat = "acked" /\ ~stale

\* No attempt is scheduled while a HELLO is awaited.
ConnectionFailureUnlessWaiting(keep) ==
  /\ state' = IF quit THEN "disconnected" ELSE "reconnecting"
  /\ timers' = IF quit \/ "hello" \in keep THEN keep ELSE keep \cup {"reconnect"}

-----------------------------------------------------------------------------
(* Parts of callbacks.  An operator with argument q continues from inbox q. *)

ClearSession == session' = 0 /\ last' = 0

CanResumeSession == session # 0 /\ (beat = "never" \/ ~stale)

\* this.socket.readyState is OPEN; Served: with a handler at the other end.
IsOpen == socket # 0 /\ ws[socket] = "open"
Served == IsOpen /\ handler[socket] # Gone

\* The handlers of some sockets end: their sessions are left without a socket.
HandlersEnd(K) ==
  /\ handler' = [k \in Sockets |-> IF k \in K THEN Gone ELSE handler[k]]
  /\ via' = [s \in Sessions |-> IF via[s] \in K THEN 0 ELSE via[s]]

Answer(q, frames) == inbox' = [q EXCEPT ![socket] = @ \o frames]

\* The handler closes: no request of this socket is handled any more.  "denied"
\* is the close code for a token that is not valid.
RefuseWith(q, t) ==
  /\ Answer(q, <<Frame(t, 0, 0)>>)
  /\ HandlersEnd({socket})

Refuse(q) == RefuseWith(q, "close")

NoAnswer(q) == inbox' = q /\ UNCHANGED serverVars

\* sendIdentify, and handle_identify of the handler
SendIdentify(q) ==
  \/ /\ ~Served
     /\ NoAnswer(q)
  \/ /\ Served
     /\ handler[socket] # 0
     /\ Refuse(q)
     /\ twice' = TRUE
     /\ UNCHANGED <<born, alive, unready, reached, refused>>
  \/ /\ Served
     /\ handler[socket] = 0
     /\ born < MaxSessions
     /\ born' = born + 1
     /\ alive' = alive \cup {born'}
     /\ unready' = unready \cup {born'}
     /\ handler' = [handler EXCEPT ![socket] = born']
     /\ via' = [via EXCEPT ![born'] = socket]
     /\ inbox' = q
     /\ UNCHANGED <<reached, refused, twice>>
  \/ /\ Served
     /\ handler[socket] = 0
     /\ \/ Refuse(q)
        \/ RefuseWith(q, "denied")
        \/ Answer(q, <<Frame("invalid", 0, 0)>>) /\ UNCHANGED <<handler, via>>
     /\ UNCHANGED sessionVars

\* sendResume, and handle_resume of the handler; of the missed events only the
\* last one matters here.
SendResume(q) ==
  \/ /\ ~Served
     /\ NoAnswer(q)
  \/ /\ Served
     /\ session \notin alive
     /\ Answer(q, <<Frame("invalid", 0, 0)>>)
     /\ UNCHANGED serverVars
  \/ /\ Served
     /\ session \in alive
     /\ last > reached[session]
     /\ Refuse(q)
     /\ refused' = TRUE
     /\ UNCHANGED <<born, alive, unready, reached, twice>>
  \/ /\ Served
     /\ session \in alive
     /\ last <= reached[session]
     /\ handler' = [handler EXCEPT ![socket] = session]
     /\ via' = [via EXCEPT ![session] = socket]
     /\ Answer(q, (IF last = reached[session] THEN <<>>
                   ELSE <<Frame("event", reached[session], session)>>)
                  \o <<Frame("resumed", last, session)>>)
     /\ UNCHANGED sessionVars

\* The handler's answer to HEARTBEAT: the session may refuse the number, or not
\* answer in time.
ServeHeartbeat(q) ==
  \/ /\ ~Served
     /\ NoAnswer(q)
  \/ /\ Served
     /\ handler[socket] \in {0} \cup alive
     /\ Answer(q, <<Frame("ack", 0, 0)>>)
     /\ UNCHANGED serverVars
  \/ /\ Served
     /\ handler[socket] # 0
     /\ Refuse(q)
     /\ UNCHANGED sessionVars

\* stopHeartbeat
StopHeartbeat(keep) == timers' = keep \ {"heartbeat"} /\ awaiting' = FALSE

\* scheduleReconnect keeps a timer that is already pending.
ConnectionFailure(keep) ==
  /\ state' = IF quit THEN "disconnected" ELSE "reconnecting"
  /\ timers' = IF quit THEN keep ELSE keep \cup {"reconnect"}

\* teardownSocket: nothing that a socket without listeners does reaches the
\* client, so its place is free again.
TeardownSocket ==
  /\ listening' = listening \ {socket}
  /\ ws' = [k \in Sockets |-> IF k = socket THEN "none" ELSE ws[k]]
  /\ inbox' = [k \in Sockets |-> IF k = socket THEN <<>> ELSE inbox[k]]
  /\ HandlersEnd({socket} \ {0})
  /\ socket' = 0

\* connect: tears the old socket down and asks for the URL of the next.
OpenConnection ==
  /\ state' = "connecting"
  /\ quit' = FALSE
  /\ opening' = opening + 1
  /\ TeardownSocket

\* disconnect, the part on the socket: only an open one is closed.
CloseSocket ==
  /\ ws' = IF IsOpen THEN [ws EXCEPT ![socket] = "closing"] ELSE ws
  /\ HandlersEnd(IF IsOpen THEN {socket} ELSE {})
  /\ UNCHANGED <<opening, socket, listening>>

\* disconnect(code, reason, true)
DisconnectResumable ==
  /\ quit' = FALSE
  /\ StopHeartbeat({"reconnect"})
  /\ CloseSocket
  /\ state' = "reconnecting"
  /\ UNCHANGED <<session, last, timeVars, inbox, sessionVars>>

\* sendHeartbeat once nothing holds it back
SendHeartbeat(q) ==
  /\ awaiting' = TRUE
  /\ beat' = IF beat = "acked" THEN beat ELSE "sent"
  /\ stale' = (stale /\ beat = "acked")
  /\ ServeHeartbeat(q)

-----------------------------------------------------------------------------
Init ==
  /\ state = "disconnected"
  /\ session = 0
  /\ last = 0
  /\ beat = "never"
  /\ stale = FALSE
  /\ timers = {}
  /\ awaiting = FALSE
  /\ quit = FALSE
  /\ opening = 0
  /\ socket = 0
  /\ ws = [k \in Sockets |-> "none"]
  /\ listening = {}
  /\ inbox = [k \in Sockets |-> <<>>]
  /\ handler = [k \in Sockets |-> Gone]
  /\ via = [s \in Sessions |-> 0]
  /\ born = 0
  /\ alive = {}
  /\ unready = {}
  /\ reached = [s \in Sessions |-> 0]
  /\ refused = FALSE
  /\ twice = FALSE

-----------------------------------------------------------------------------
(* Faulty variants of actions.                                             *)

\* A promise fails that was settled before.
UrlFailsAgain ==
  /\ opening' = opening - 1
  /\ ConnectionFailure(timers)
  /\ UNCHANGED <<session, last, timeVars, awaiting, quit, socket, ws, listening, inbox, serverVars>>

\* connect ignores a client that is reconnecting.
ReconnectTimerIgnored ==
  /\ "reconnect" \in timers
  /\ timers' = timers \ {"reconnect"}
  /\ UNCHANGED <<state, session, last, timeVars, awaiting, quit, socketVars, inbox, serverVars>>

\* Only the ticks notice a dead connection.
HeartbeatUnansweredIfClosed ==
  /\ awaiting
  /\ ~IsOpen
  /\ DisconnectResumable

-----------------------------------------------------------------------------
(* Calls and network events.                                               *)

CanOpen == opening < MaxOpening

\* connect by the application, or by handleNetworkStatusChange(true)
Connect ==
  /\ state \in {"disconnected", "reconnecting"}
  /\ CanOpen
  /\ OpenConnection
  /\ UNCHANGED <<session, last, timeVars, timers, awaiting, sessionVars>>

\* disconnect(code, reason, false)
Disconnect ==
  /\ UserActs
  /\ quit' = TRUE
  /\ StopHeartbeat({})
  /\ CloseSocket
  /\ state' = "disconnected"
  /\ UNCHANGED <<session, last, timeVars, inbox, sessionVars>>

\* reset(true): the timer of an invalid session is not cleared.
Reset ==
  /\ UserActs
  /\ CanOpen
  /\ ClearSession
  /\ StopHeartbeat(timers \ {"hello", "reconnect"})
  /\ OpenConnection
  /\ UNCHANGED <<timeVars, sessionVars>>

\* handleNetworkStatusChange(false), simulateNetworkDisconnect
NetworkOffline ==
  /\ state = "connected"
  /\ DisconnectResumable

\* More than ResumeWindow goes by between two callbacks.
WindowPasses ==
  /\ Sleeps
  /\ beat # "never"
  /\ stale' = TRUE
  /\ UNCHANGED <<state, session, last, beat, timers, awaiting, quit, socketVars, inbox, serverVars>>

-----------------------------------------------------------------------------
(* Timers and promises.                                                    *)

\* Faulty variant: connect does not ask what state the client is in.
ReconnectTimerAlways ==
  /\ "reconnect" \in timers
  /\ timers' = timers \ {"reconnect"}
  /\ IF CanResumeSession THEN UNCHANGED <<session, last>> ELSE ClearSession
  /\ CanOpen /\ OpenConnection
  /\ UNCHANGED <<timeVars, awaiting, sessionVars>>

ReconnectTimer ==
  /\ "reconnect" \in timers
  /\ timers' = timers \ {"reconnect"}
  /\ IF CanResumeSession THEN UNCHANGED <<session, last>> ELSE ClearSession
  /\ IF state \in {"disconnected", "reconnecting"}
       THEN CanOpen /\ OpenConnection
       ELSE UNCHANGED <<state, quit, socketVars, inbox, handler, via>>
  /\ UNCHANGED <<timeVars, awaiting, sessionVars>>

\* Sockets nobody can hear of any more: a new one may take their place.
Free == {k \in Sockets : ws[k] = "none" /\ k # socket /\ k \notin listening}

\* openSocket, the URL is known: the new socket replaces this.socket.
UrlKnown ==
  /\ opening > 0
  /\ Free # {}
  /\ opening' = opening - 1
  /\ socket' = CHOOSE k \in Free : TRUE
  /\ ws' = [ws EXCEPT ![socket'] = "connecting"]
  /\ listening' = listening \cup {socket'}
  /\ timers' = timers \cup {"hello"}
  /\ UNCHANGED <<state, session, last, timeVars, awaiting, quit, inbox, serverVars>>

UrlFails ==
  /\ opening > 0
  /\ opening' = opening - 1
  /\ ConnectionFailure(timers)
  /\ UNCHANGED <<session, last, timeVars, awaiting, quit, socket, ws, listening, inbox, serverVars>>

HelloTimeout ==
  /\ "hello" \in timers
  /\ DisconnectResumable

IdentifyTimer ==
  /\ "identify" \in timers
  /\ timers' = timers \ {"identify"}
  /\ SendIdentify(inbox)
  /\ UNCHANGED <<state, session, last, timeVars, awaiting, quit, socketVars>>

\* handleHeartbeatTick
HeartbeatTick ==
  /\ "heartbeat" \in timers
  /\ ~awaiting
  /\ \/ /\ IsOpen
        /\ SendHeartbeat(inbox)
        /\ UNCHANGED <<state, session, last, timers, quit, socketVars>>
     \/ /\ ~IsOpen
        /\ DisconnectResumable

\* The ACK timeout, or a tick that finds the ACK overdue.
HeartbeatUnanswered ==
  /\ awaiting
  /\ DisconnectResumable

-----------------------------------------------------------------------------
(* WebSocket events.                                                       *)

Receives(k, kinds) ==
  /\ k \in listening
  /\ ws[k] = "open"
  /\ inbox[k] # <<>>
  /\ Head(inbox[k]).t \in kinds

Rest(k) == [inbox EXCEPT ![k] = Tail(@)]

\* handleHelloPayload
ReceiveHello(k) ==
  /\ Receives(k, {"hello"})
  /\ timers' = (timers \ {"hello", "identify"}) \cup {"heartbeat"}
  /\ awaiting' = FALSE
  /\ \/ CanResumeSession /\ SendResume(Rest(k))
     \/ ~CanResumeSession /\ SendIdentify(Rest(k))
  /\ UNCHANGED <<state, session, last, timeVars, quit, socketVars>>

\* handleSocketMessage and handleDispatchPayload
ReceiveDispatch(k) ==
  /\ Receives(k, {"event", "ready", "resumed"})
  /\ LET m == Head(inbox[k])
     IN /\ last' = IF state = "connected" /\ m.s > last THEN m.s ELSE last
        /\ session' = IF m.t = "ready" THEN m.session ELSE session
        /\ state' = IF m.t = "event" THEN state ELSE "connected"
  /\ inbox' = Rest(k)
  /\ UNCHANGED <<timeVars, timers, awaiting, quit, socketVars, serverVars>>

\* handleInvalidSessionPayload: the server never calls a session resumable.
ReceiveInvalid(k) ==
  /\ Receives(k, {"invalid"})
  /\ ClearSession
  /\ timers' = timers \cup {"identify"}
  /\ inbox' = Rest(k)
  /\ UNCHANGED <<state, timeVars, awaiting, quit, socketVars, serverVars>>

\* handleHeartbeatAck
ReceiveAck(k) ==
  /\ Receives(k, {"ack"})
  /\ awaiting' = FALSE
  /\ beat' = "acked"
  /\ stale' = FALSE
  /\ inbox' = Rest(k)
  /\ UNCHANGED <<state, session, last, timers, quit, socketVars, serverVars>>

\* HEARTBEAT asked for by the server
ReceiveBeat(k) ==
  /\ Receives(k, {"beat"})
  /\ \/ /\ IsOpen
        /\ SendHeartbeat(Rest(k))
        /\ UNCHANGED <<state, session, last, timers, quit, socketVars>>
     \/ /\ ~IsOpen
        /\ inbox' = Rest(k)
        /\ quit' = FALSE
        /\ StopHeartbeat({"reconnect"})
        /\ CloseSocket
        /\ state' = "reconnecting"
        /\ UNCHANGED <<session, last, timeVars, sessionVars>>

\* The close event, handled by handleSocketClose while listeners are attached.
SocketCloses(k) ==
  /\ \/ Receives(k, {"close"})
     \/ ws[k] \in {"closing", "failed"}
  /\ ws' = [ws EXCEPT ![k] = "none"]
  /\ HandlersEnd({k})
  /\ inbox' = [inbox EXCEPT ![k] = <<>>]
  /\ IF k \in listening
       THEN ConnectionFailure(timers \ {"hello", "identify", "heartbeat"}) /\ awaiting' = FALSE
       ELSE UNCHANGED <<state, timers, awaiting>>
  /\ UNCHANGED <<session, last, timeVars, quit, opening, socket, listening,
                 sessionVars>>

\* handleAuthFailure logs out, which disconnects for good.
SocketDenied(k) ==
  /\ Receives(k, {"denied"})
  /\ ws' = [ws EXCEPT ![k] = "none"]
  /\ HandlersEnd({k})
  /\ inbox' = [inbox EXCEPT ![k] = <<>>]
  /\ quit' = TRUE
  /\ StopHeartbeat({})
  /\ state' = "disconnected"
  /\ UNCHANGED <<session, last, timeVars, opening, socket, listening, sessionVars>>

\* The error event comes before the close event.
SocketFails(k) ==
  /\ k \in listening
  /\ ws[k] \in {"connecting", "open"}
  /\ ws' = [ws EXCEPT ![k] = "failed"]
  /\ inbox' = [inbox EXCEPT ![k] = <<>>]
  /\ HandlersEnd({k})
  /\ ConnectionFailure(timers)
  /\ UNCHANGED <<session, last, timeVars, awaiting, quit, opening, socket, listening, sessionVars>>

-----------------------------------------------------------------------------
(* The network and the server.                                             *)

clientVars == <<state, session, last, timeVars, timers, awaiting, quit, opening, socket, listening>>

\* websocket_init: HELLO
SocketOpens(k) ==
  /\ ws[k] = "connecting"
  /\ ws' = [ws EXCEPT ![k] = "open"]
  /\ handler' = [handler EXCEPT ![k] = 0]
  /\ inbox' = [inbox EXCEPT ![k] = <<Frame("hello", 0, 0)>>]
  /\ UNCHANGED <<clientVars, via, sessionVars>>

Attached == {k \in Sockets : ws[k] = "open" /\ handler[k] # Gone}

\* A connection breaks and the browser does not know: the socket stays open.
SocketDrops(k) ==
  /\ k \in Attached
  /\ inbox' = [inbox EXCEPT ![k] = <<>>]
  /\ HandlersEnd({k})
  /\ UNCHANGED <<clientVars, ws, sessionVars>>

\* handle_heartbeat_state: the handler asks for a heartbeat, or gives up.
HandlerChecks(k) ==
  /\ k \in Attached
  /\ Len(inbox[k]) < MaxQueue
  /\ \/ inbox' = [inbox EXCEPT ![k] = Append(@, Frame("beat", 0, 0))] /\ UNCHANGED <<handler, via>>
     \/ inbox' = [inbox EXCEPT ![k] = Append(@, Frame("close", 0, 0))] /\ HandlersEnd({k})
  /\ UNCHANGED <<clientVars, ws, sessionVars>>

\* An event takes the session's next number and goes to its socket, if it has one.
SessionSends(s, t) ==
  /\ reached' = [reached EXCEPT ![s] = @ + 1]
  /\ IF via[s] \in Attached
       THEN /\ Len(inbox[via[s]]) < MaxQueue
            /\ inbox' = [inbox EXCEPT ![via[s]] = Append(@, Frame(t, reached'[s], s))]
       ELSE UNCHANGED inbox

SessionEvent(s) ==
  /\ s \in alive
  /\ reached[s] < MaxSeq
  /\ SessionSends(s, "event")
  /\ UNCHANGED <<clientVars, ws, handler, via, born, alive, unready, refused, twice>>

SessionReadies(s) ==
  /\ s \in alive \cap unready
  /\ unready' = unready \ {s}
  /\ SessionSends(s, "ready")
  /\ UNCHANGED <<clientVars, ws, handler, via, born, alive, refused, twice>>

\* The session stops; handle_session_down tells the client, if it can.
SessionEnds(s) ==
  /\ s \in alive
  /\ alive' = alive \ {s}
  /\ handler' = [k \in Sockets |-> IF handler[k] = s THEN 0 ELSE handler[k]]
  /\ inbox' = [k \in Sockets |->
       IF handler[k] = s /\ k \in Attached THEN Append(inbox[k], Frame("invalid", 0, 0)) ELSE inbox[k]]
  /\ via' = [via EXCEPT ![s] = 0]
  /\ UNCHANGED <<clientVars, ws, born, unready, reached, refused, twice>>

-----------------------------------------------------------------------------
Receive(k) ==
  \/ ReceiveHello(k)
  \/ ReceiveDispatch(k)
  \/ ReceiveInvalid(k)
  \/ ReceiveAck(k)
  \/ ReceiveBeat(k)

Next ==
  \/ Connect
  \/ Disconnect
  \/ Reset
  \/ NetworkOffline
  \/ WindowPasses
  \/ ReconnectTimer
  \/ UrlKnown
  \/ UrlFails
  \/ HelloTimeout
  \/ IdentifyTimer
  \/ HeartbeatTick
  \/ HeartbeatUnanswered
  \/ \E k \in Sockets : \/ Receive(k)
                        \/ SocketOpens(k)
                        \/ SocketCloses(k)
                        \/ SocketDenied(k)
                        \/ SocketFails(k)
                        \/ SocketDrops(k)
                        \/ HandlerChecks(k)
  \/ \E s \in Sessions : SessionEvent(s) \/ SessionReadies(s) \/ SessionEnds(s)

\* Timers fire and the URL promise settles; the rest is up to the network, the
\* server and the user.
Fairness ==
  /\ WF_vars(ReconnectTimer)
  /\ WF_vars(HeartbeatTick)
  /\ WF_vars(HeartbeatUnanswered)
  /\ WF_vars(UrlKnown \/ UrlFails)

Spec == Init /\ [][Next]_vars
FairSpec == Spec /\ Fairness

-----------------------------------------------------------------------------
(* Properties.                                                             *)

Frames == [t : {"hello", "event", "ready", "resumed", "invalid", "ack", "beat", "close", "denied"},
           s : Nat, session : 0..MaxSessions]

\* The variables keep their types.
TypeOK ==
  /\ state \in {"disconnected", "connecting", "connected", "reconnecting"}
  /\ session \in 0..MaxSessions
  /\ last \in Nat
  /\ beat \in {"never", "sent", "acked"}
  /\ stale \in BOOLEAN
  /\ timers \in SUBSET {"reconnect", "hello", "identify", "heartbeat"}
  /\ awaiting \in BOOLEAN
  /\ quit \in BOOLEAN
  /\ opening \in Nat
  /\ socket \in 0..MaxSockets
  /\ ws \in [Sockets -> {"none", "connecting", "open", "closing", "failed"}]
  /\ listening \in SUBSET Sockets
  /\ inbox \in [Sockets -> Seq(Frames)]
  /\ handler \in [Sockets -> 0..Gone]
  /\ via \in [Sessions -> 0..MaxSockets]
  /\ alive \in SUBSET (1..born)
  /\ unready \in SUBSET (1..born)
  /\ reached \in [Sessions -> Nat]

\* A session that is alive takes its client back: the client only ever names a
\* number of the session it resumes.
ResumesLiveSession == ~refused

\* No socket carries a second IDENTIFY, whatever HELLO, timers and invalid
\* sessions do.
IdentifiesOnce == ~twice

\* A client that wants to be connected has something that will move it: the
\* promise of a URL, the wait for HELLO, heartbeats that notice a dead
\* connection, or the timer of the next attempt.
NeverStranded ==
  /\ state = "connecting" => opening > 0 \/ timers \cap {"hello", "heartbeat", "reconnect"} # {}
  /\ state = "connected" => "heartbeat" \in timers
  /\ state = "reconnecting" => "reconnect" \in timers

\* The client gives up a live session only on an INVALID_SESSION, when it is
\* reset, or when it has not heard a heartbeat answered for longer than
\* ResumeWindow: no lost connection, timeout or close code costs it its session.
GivenUp(k) == inbox[k] # <<>> /\ Head(inbox[k]).t = "invalid"
KeepsLiveSession ==
  [][(session \in alive /\ session' = 0) => stale \/ Reset \/ \E k \in Sockets : GivenUp(k)]_vars

\* A connection that works, or has HELLO still to come, is not given up or replaced
\* on account of an earlier one: no late reconnect timer, URL or HELLO timer ends
\* it, only a call, its own close or error, a missing HELLO or a heartbeat that is
\* not answered (connect, scheduleReconnect, openSocket, startHelloTimeout).
Connects == state \in {"connecting", "connected"}
ConnectionKept ==
  [][Connects /\ Served /\ ~(Connects' /\ socket' = socket) =>
       \/ Disconnect \/ Reset \/ NetworkOffline \/ HeartbeatUnanswered
       \/ state = "connecting" /\ HelloTimeout
       \/ SocketCloses(socket) \/ SocketDenied(socket) \/ SocketFails(socket)]_vars

\* A connection that has died unnoticed is given up: the heartbeat that gets no
\* answer tells.
DeadConnectionNoticed ==
  (state = "connected" /\ ~Served) ~> (state # "connected" \/ Served)

\* A client that is reconnecting opens another connection, or is stopped.
ReconnectProceeds == (state = "reconnecting") ~> (state # "reconnecting")
=============================================================================
