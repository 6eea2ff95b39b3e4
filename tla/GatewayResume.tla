---------------------------- MODULE GatewayResume ----------------------------
(***************************************************************************)
(* A session, the connection handlers in front of it and the client, from  *)
(* READY on: losing a connection, resuming on a new one, acknowledging by  *)
(* heartbeat.  The session is module SessionLog, of an account that is not *)
(* a bot; a handler is a gateway_handler process; the client is fluxer_app *)
(* GatewaySocket.                                                          *)
(*                                                                         *)
(* Connection c is the client's c-th.  The messages in a handler's mailbox *)
(* and the frames it sent are one FIFO link to the client, because the     *)
(* handler turns one into the other in order.                              *)
(***************************************************************************)
EXTENDS Naturals, FiniteSets, Sequences

CONSTANTS
  Guilds, NoSocket, Limit, MaxSeq, MaxDowns,  \* of SessionLog
  MaxConns,    \* bound: connections the client opens
  MaxReqs,     \* bound: requests waiting at one handler
  MaxLeaves    \* bound: guild_delete events of left guilds under way

Conns == 1..MaxConns

ASSUME ResumeAssumption ==
  /\ MaxConns \in Nat \ {0} /\ MaxReqs \in Nat \ {0} /\ MaxLeaves \in Nat
  /\ NoSocket \notin Conns

VARIABLES
  up, seq, ack, buffer, recorded, sock, ready, joined, timers, downs, condemned,
  handler,     \* state of each connection's handler process
  att,         \* handlers whose session_pid is set and monitored
  reply,       \* what an awaiting handler sends once it has the session's reply
  req,         \* requests of the client each handler has not handled
  link,        \* messages on their way to the client on its current connection
  conn,        \* the client's current connection
  cstate,      \* connectionState
  cseq,        \* lastSequenceNumber
  csess,       \* activeSessionId is set
  got,         \* history: numbers of the recorded events handed to the application
  misled,      \* history: the client took a guild_delete's number for an event's
  refused      \* history: a resume answered by closing with INVALID_SEQ

sessionVars == <<up, seq, ack, buffer, recorded, sock, ready, joined, timers, downs, condemned>>
handlerVars == <<handler, att, reply>>
clientVars == <<conn, cstate, cseq, csess, got, misled>>
vars == <<sessionVars, handlerVars, clientVars, req, link, refused>>

Session == INSTANCE SessionLog WITH Sockets <- Conns, Bot <- FALSE

-----------------------------------------------------------------------------
(* Messages.                                                               *)

Event(n) == [t |-> "event", s |-> n]
GuildDelete(n) == [t |-> "leave", s |-> n]
Ready(n) == [t |-> "ready", s |-> n]
Resumed(n) == [t |-> "resumed", s |-> n]
InvalidSession == [t |-> "invalid"]
Close == [t |-> "close"]

Online == cstate \in {"connecting", "connected"}

\* Messages reach the client only on the connection it is on, and only while
\* that connection's handler lives.
Reaches(c) == c = conn /\ Online /\ handler[c] # "dead"

Send(c, msgs) == link' = IF Reaches(c) THEN link \o msgs ELSE link

\* The replay, in the order of the buffer list: its i-th event is the one with
\* i missed numbers up to its own.
Rank(n, missed) == Cardinality({m \in missed : m <= n})
Replay(missed) ==
  [i \in 1..Cardinality(missed) |-> Event(CHOOSE n \in missed : Rank(n, missed) = i)]

\* Faulty variant, which no behaviour uses: RESUMED only follows missed events.
ResumeReplyIfMissed(s) ==
  IF Session!Missed(s) = {} THEN <<>> ELSE Replay(Session!Missed(s)) \o <<Resumed(s)>>

\* The reply to an accepted resume: the missed events, then RESUMED.
ResumeReply(s) == Replay(Session!Missed(s)) \o <<Resumed(s)>>

\* handleSocketMessage: lastSequenceNumber only advances once connected.
Advanced(m) == IF cstate = "connected" /\ m.s > cseq THEN m.s ELSE cseq

-----------------------------------------------------------------------------
Init ==
  /\ Session!Init
  /\ sock = 1
  /\ handler = [c \in Conns |-> IF c = 1 THEN "open" ELSE "none"]
  /\ att = {1}
  /\ reply = [c \in Conns |-> <<>>]
  /\ req = [c \in Conns |-> <<>>]
  /\ link = <<>>
  /\ conn = 1
  /\ cstate = "connecting"
  /\ cseq = 0
  /\ csess = FALSE
  /\ got = {}
  /\ misled = FALSE
  /\ refused = FALSE

-----------------------------------------------------------------------------
(* The session's own steps, with what they send to socket_pid.             *)

\* The handler's process ends, and its mailbox with it.
Dies(c) ==
  /\ handler' = [handler EXCEPT ![c] = "dead"]
  /\ att' = att \ {c}
  /\ reply' = [reply EXCEPT ![c] = <<>>]
  /\ req' = [req EXCEPT ![c] = <<>>]

\* A session_backpressure_error makes the handler close the connection.
SendBackpressure ==
  /\ sock # NoSocket
  /\ Send(sock, <<Close>>)
  /\ Dies(sock)

\* What one step of the session that dispatches events sends.
Emit ==
  \/ /\ recorded' # recorded
     /\ IF sock = NoSocket THEN link' = link ELSE Send(sock, <<Event(seq')>>)
     /\ UNCHANGED <<handlerVars, req>>
  \/ /\ recorded' = recorded /\ seq' # seq
     /\ Send(sock, <<Ready(seq + 1)>>)
     /\ UNCHANGED <<handlerVars, req>>
  \/ /\ recorded' = recorded /\ seq' = seq /\ Cardinality(buffer) >= Limit
     /\ SendBackpressure \/ (sock = NoSocket /\ UNCHANGED <<link, handlerVars, req>>)

SessionDispatches ==
  /\ \/ Session!Dispatch
     \/ \E g \in Guilds : Session!LoseGuild(g)
     \/ \E g \in Guilds : ~ready /\ Session!JoinGuild(g)
  /\ Emit
  /\ UNCHANGED <<clientVars, refused>>

SessionReadies ==
  /\ \/ Session!BecomeReady
     \/ \E g \in Guilds : ready /\ Session!JoinGuild(g)
  /\ IF seq' = seq THEN link' = link ELSE Send(sock, <<Ready(seq + 1)>>)
  /\ UNCHANGED <<handlerVars, clientVars, req, refused>>

SessionLeaves ==
  \E g \in Guilds :
    /\ Cardinality({i \in DOMAIN link : link[i].t = "leave"}) < MaxLeaves
    /\ Session!LeaveGuild(g)
    /\ IF Cardinality(buffer) >= Limit
         THEN SendBackpressure \/ (sock = NoSocket /\ UNCHANGED <<link, handlerVars, req>>)
         ELSE /\ IF sock = NoSocket THEN link' = link
                                    ELSE Send(sock, <<GuildDelete(seq + 1)>>)
              /\ UNCHANGED <<handlerVars, req>>
    /\ UNCHANGED <<clientVars, refused>>

\* The monitor tells the session that its socket's handler is gone.
SessionSeesSocketDown ==
  /\ sock # NoSocket
  /\ handler[sock] = "dead"
  /\ Session!SocketDown
  /\ UNCHANGED <<handlerVars, clientVars, req, link, refused>>

SessionStops ==
  /\ \/ \E t \in timers : Session!ResumeTimeout(t)
     \/ Session!TerminateForce
     \/ Session!Terminate
  /\ UNCHANGED <<handlerVars, clientVars, req, link, refused>>

-----------------------------------------------------------------------------
(* A connection handler.                                                   *)

Pending(c, op) == handler[c] = "open" /\ req[c] # <<>> /\ Head(req[c]).op = op
Consume(c) == req' = [req EXCEPT ![c] = Tail(@)]
SetHandler(c, state) == handler' = [handler EXCEPT ![c] = state]

\* close_with_reason(invalid_seq): 4007 goes out and the process ends.
CloseInvalidSeq(c) ==
  /\ Send(c, <<Close>>)
  /\ Dies(c)
  /\ refused' = (refused \/ Head(req[c]).op = "resume")

\* handle_heartbeat: the session decides; one that is gone counts as a refusal.
HandleHeartbeat(c) ==
  /\ Pending(c, "heartbeat")
  /\ \/ /\ c \notin att
        /\ Consume(c)
        /\ UNCHANGED <<sessionVars, handlerVars, link, refused>>
     \/ /\ c \in att
        /\ Session!HeartbeatAck(Head(req[c]).s)
        /\ Consume(c)
        /\ UNCHANGED <<handlerVars, link, refused>>
     \/ /\ c \in att
        /\ ~up \/ ~Session!AckAccepted(Head(req[c]).s)
        /\ CloseInvalidSeq(c)
        /\ UNCHANGED sessionVars
  /\ UNCHANGED clientVars

\* The call times out: the handler closes, the session still takes the ack.
HeartbeatTimesOut(c) ==
  /\ Pending(c, "heartbeat")
  /\ c \in att
  /\ Session!HeartbeatAck(Head(req[c]).s)
  /\ CloseInvalidSeq(c)
  /\ UNCHANGED clientVars

\* handle_resume up to the session's reply; the handler waits for the reply
\* while dispatches for its new socket_pid already enter its mailbox.
HandleResume(c) ==
  /\ Pending(c, "resume")
  /\ LET s == Head(req[c]).s
     IN \/ /\ ~up
           /\ Consume(c)
           /\ Send(c, <<InvalidSession>>)
           /\ UNCHANGED <<sessionVars, handlerVars, refused>>
        \/ /\ up /\ ~Session!ResumeAccepted(s)
           /\ CloseInvalidSeq(c)
           /\ UNCHANGED sessionVars
        \/ /\ Session!Resume(s, c)
           /\ Consume(c)
           /\ reply' = [reply EXCEPT ![c] = ResumeReply(s)]
           /\ SetHandler(c, "awaiting")
           /\ UNCHANGED <<att, link, refused>>
  /\ UNCHANGED clientVars

\* handle_resume_success: the handler sends the missed events and RESUMED to
\* itself, behind whatever its mailbox holds by now.
FinishResume(c) ==
  /\ handler[c] = "awaiting"
  /\ Send(c, reply[c])
  /\ SetHandler(c, "open")
  /\ att' = att \cup {c}
  /\ reply' = [reply EXCEPT ![c] = <<>>]
  /\ UNCHANGED <<sessionVars, clientVars, req, refused>>

\* handle_session_down
HandleSessionDown(c) ==
  /\ handler[c] = "open"
  /\ c \in att
  /\ ~up
  /\ Send(c, <<InvalidSession>>)
  /\ att' = att \ {c}
  /\ UNCHANGED <<sessionVars, handler, reply, clientVars, req, refused>>

\* The process ends (crash, closed TCP connection, heartbeat_check); what it
\* has not yet sent is lost.
HandlerDies(c) ==
  /\ handler[c] \in {"open", "awaiting"}
  /\ Dies(c)
  /\ IF Reaches(c) THEN \E k \in 0..Len(link) : link' = SubSeq(link, 1, k)
                   ELSE link' = link
  /\ UNCHANGED <<sessionVars, clientVars, refused>>

-----------------------------------------------------------------------------
(* The client.                                                             *)

\* The connection is gone for the client; frames still under way are lost.
GoOffline ==
  /\ cstate' = "offline"
  /\ link' = <<>>
  /\ UNCHANGED <<conn, cseq, csess, got, misled>>

\* clearSession and IDENTIFY: another session begins, this model ends.
Abandon ==
  /\ cstate' = "gone"
  /\ csess' = FALSE
  /\ cseq' = 0
  /\ link' = <<>>
  /\ UNCHANGED <<conn, got, misled>>

\* handleSocketMessage
Receive ==
  /\ Online
  /\ link # <<>>
  /\ LET m == Head(link)
     IN \/ /\ m.t = "invalid"
           /\ Abandon
        \/ /\ m.t = "close"
           /\ GoOffline
        \/ /\ m.t \in {"event", "leave", "ready", "resumed"}
           /\ link' = Tail(link)
           /\ cseq' = Advanced(m)
           /\ cstate' = IF m.t \in {"ready", "resumed"} THEN "connected" ELSE cstate
           /\ csess' = (csess \/ m.t = "ready")
           /\ got' = IF m.t = "event" THEN got \cup {m.s} ELSE got
           /\ misled' = (misled \/ (m.t = "leave" /\ cseq' # cseq))
           /\ UNCHANGED conn
  /\ UNCHANGED <<sessionVars, handlerVars, req, refused>>

\* The network drops, or handleSocketClose follows the end of the handler.
LoseConnection ==
  /\ Online
  /\ GoOffline
  /\ UNCHANGED <<sessionVars, handlerVars, req, refused>>

\* connect, HELLO, sendResume
Reconnect ==
  /\ cstate = "offline"
  /\ csess
  /\ conn < MaxConns
  /\ conn' = conn + 1
  /\ cstate' = "connecting"
  /\ handler' = [handler EXCEPT ![conn + 1] = "open"]
  /\ req' = [req EXCEPT ![conn + 1] = <<[op |-> "resume", s |-> cseq]>>]
  /\ UNCHANGED <<sessionVars, att, reply, cseq, csess, got, misled, link, refused>>

\* No session to resume, or canResumeSession found it too old.
GiveUp ==
  /\ cstate = "offline"
  /\ Abandon
  /\ UNCHANGED <<sessionVars, handlerVars, req, refused>>

\* sendHeartbeat
SendHeartbeat ==
  /\ Online
  /\ handler[conn] # "dead"
  /\ Len(req[conn]) < MaxReqs
  /\ req' = [req EXCEPT ![conn] = Append(@, [op |-> "heartbeat", s |-> cseq])]
  /\ UNCHANGED <<sessionVars, handlerVars, clientVars, link, refused>>

-----------------------------------------------------------------------------
SessionNext ==
  \/ SessionDispatches
  \/ SessionReadies
  \/ SessionLeaves
  \/ SessionSeesSocketDown
  \/ SessionStops

HandlerNext(c) ==
  \/ HandleHeartbeat(c)
  \/ HeartbeatTimesOut(c)
  \/ HandleResume(c)
  \/ FinishResume(c)
  \/ HandleSessionDown(c)
  \/ HandlerDies(c)

ClientNext ==
  \/ Receive
  \/ LoseConnection
  \/ Reconnect
  \/ GiveUp
  \/ SendHeartbeat

Next == SessionNext \/ (\E c \in Conns : HandlerNext(c)) \/ ClientNext

\* Processes handle what is in their mailboxes, premature_readiness fires, and
\* a broken connection is noticed on both ends (heartbeat_check, ACK timeout).
\* Nothing makes the network drop, a user leave or the client come back.
Fairness ==
  /\ WF_vars(Receive)
  /\ WF_vars(Session!BecomeReady /\ SessionReadies)
  /\ WF_vars(SessionSeesSocketDown)
  /\ WF_vars(\E t \in timers : Session!ResumeTimeout(t) /\ SessionStops)
  /\ WF_vars(Session!TerminateForce /\ SessionStops)
  /\ WF_vars(Online /\ handler[conn] = "dead" /\ link = <<>> /\ LoseConnection)
  /\ \A c \in Conns :
       /\ WF_vars(HandleHeartbeat(c))
       /\ WF_vars(HandleResume(c))
       /\ WF_vars(FinishResume(c))
       /\ WF_vars(HandleSessionDown(c))
       /\ WF_vars(~Reaches(c) /\ HandlerDies(c))

Spec == Init /\ [][Next]_vars
FairSpec == Spec /\ Fairness

-----------------------------------------------------------------------------
(* Properties.                                                             *)

Messages ==
  [t : {"event", "leave", "ready", "resumed"}, s : Nat] \cup [t : {"invalid", "close"}]

\* The variables keep their types.
TypeOK ==
  /\ Session!TypeOK
  /\ handler \in [Conns -> {"none", "open", "awaiting", "dead"}]
  /\ att \in SUBSET Conns
  /\ reply \in [Conns -> Seq(Messages)]
  /\ req \in [Conns -> Seq([op : {"resume", "heartbeat"}, s : Nat])]
  /\ link \in Seq(Messages)
  /\ conn \in Conns
  /\ cstate \in {"connecting", "connected", "offline", "gone"}
  /\ cseq \in Nat
  /\ csess \in BOOLEAN
  /\ got \in SUBSET Nat
  /\ misled \in BOOLEAN
  /\ refused \in BOOLEAN

\* The client is connected through the session's own socket.
Attached == up /\ cstate = "connected" /\ sock = conn /\ handler[conn] # "dead"

\* Resuming leaves no gap: once the client is connected again, every event it
\* did not get is on its way, although dispatches overtake the replay and
\* connections die at any point of it (gateway_handler.erl handle_resume_success,
\* session.erl resume).
NoGap ==
  Attached =>
    \A n \in recorded \ got : \E i \in DOMAIN link : link[i] = Event(n)

\* That fails only for a client that has taken the number a guild_delete was
\* given for that of an event (session.erl guild_leave, leave_gap).
NoGapUnlessMisled == misled \/ NoGap

\* The client never claims, and the session never believes, that an event was
\* received before it was: lastSequenceNumber only passes events handed to the
\* application, and ack_seq never passes lastSequenceNumber (GatewaySocket
\* handleSocketMessage, session.erl heartbeat_ack), as long as it was not misled.
AckOnlyReceived ==
  (up /\ cstate # "gone" /\ ~misled) =>
    /\ ack <= cseq
    /\ \A n \in recorded : n <= cseq => n \in got

\* A client that resumes with the number it last received is never refused
\* (session.erl resume, invalid_seq), unless that was a guild_delete's.
ResumeNeverRefused == misled \/ ~refused

\* A connecting client does not hang: it gets READY or RESUMED, learns that the
\* session is gone, or loses the connection.
ConnectingResolves == cstate = "connecting" ~> cstate # "connecting"

\* A session whose client is gone for good does not stay alive.
AbandonedSessionStops == (cstate = "gone") ~> ~up

\* The three parties implement one stream of events that the client can follow
\* across connections, as long as the session lives, the client keeps it and no
\* guild_delete has misled it.
Stream == INSTANCE EventStream WITH
  open <- up /\ cstate # "gone" /\ ~misled,
  produced <- recorded,
  delivered <- got,
  claimed <- cseq,
  acked <- ack

\* Every step is a step of that stream: no number is claimed, acknowledged or
\* given to a new event too early (session.erl heartbeat_ack and resume,
\* session_dispatch.erl do_handle_dispatch, GatewaySocket handleSocketMessage).
ImplementsStream == Stream!Spec
=============================================================================
