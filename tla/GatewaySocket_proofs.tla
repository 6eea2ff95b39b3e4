------------------------ MODULE GatewaySocket_proofs ------------------------
(***************************************************************************)
(* Theorems about GatewaySocket, for any number of sockets, sessions and   *)
(* events: the client never drops a live session on its own account, and,  *)
(* with one connection being opened at a time, it never ends in a state    *)
(* that nothing leads out of.                                              *)
(***************************************************************************)
EXTENDS GatewaySocket, TLAPS

-----------------------------------------------------------------------------
(***************************************************************************)
(* Type correctness.  READY always names a session, which KeepsLiveSession *)
(* needs, so the frames are counted as typed only if it does.              *)
(***************************************************************************)
GoodFrames == {f \in Frames : f.t = "ready" => f.session # 0}

InboxType == [Sockets -> Seq(GoodFrames)]

LinkType == handler \in [Sockets -> 0..Gone] /\ via \in [Sessions -> 0..MaxSockets]

SessionType ==
  /\ born \in 0..MaxSessions /\ alive \in SUBSET (1..born) /\ unready \in SUBSET (1..born)
  /\ reached \in [Sessions -> Nat]

ServerType == inbox \in InboxType /\ LinkType /\ SessionType

StateType ==
  /\ state \in {"disconnected", "connecting", "connected", "reconnecting"}
  /\ session \in 0..MaxSessions /\ last \in Nat
  /\ beat \in {"never", "sent", "acked"}
  /\ timers \in SUBSET {"reconnect", "hello", "identify", "heartbeat"}

FlagType == stale \in BOOLEAN /\ awaiting \in BOOLEAN /\ quit \in BOOLEAN

SocketType ==
  /\ opening \in Nat /\ socket \in 0..MaxSockets
  /\ ws \in [Sockets -> {"none", "connecting", "open", "closing", "failed"}]
  /\ listening \in SUBSET Sockets

Types == ServerType /\ StateType /\ FlagType /\ SocketType

LEMMA TypesImplyTypeOK == Types => TypeOK
<1>1. Seq(GoodFrames) \subseteq Seq(Frames)
  BY DEF GoodFrames
<1>2. InboxType \subseteq [Sockets -> Seq(Frames)]
  BY <1>1 DEF InboxType
<1> QED BY <1>2 DEF Types, ServerType, LinkType, SessionType, StateType, FlagType,
                    SocketType, TypeOK

\* A frame of the server is a frame of the type.
LEMMA FrameType ==
  ASSUME NEW t \in {"hello", "event", "ready", "resumed", "invalid", "ack", "beat", "close",
                    "denied"},
         NEW s \in Nat, NEW n \in 0..MaxSessions, t = "ready" => n # 0
  PROVE  Frame(t, s, n) \in GoodFrames
BY DEF Frame, GoodFrames, Frames

LEMMA NoSession == 0 \in Nat /\ 0 \in 0..MaxSessions /\ Gone \in Nat /\ 0 \in 0..Gone
BY SocketAssumption DEF SocketAssumption, Gone

\* What is answered goes to the client's socket.
LEMMA AnswerType ==
  ASSUME NEW q \in InboxType, NEW frames \in Seq(GoodFrames), socket \in Sockets,
         Answer(q, frames)
  PROVE  inbox' \in InboxType
<1>1. q[socket] \o frames \in Seq(GoodFrames)
  BY DEF InboxType
<1> QED BY <1>1 DEF Answer, InboxType

LEMMA AppendType ==
  ASSUME NEW q \in InboxType, NEW f \in GoodFrames, NEW k \in Sockets
  PROVE  [q EXCEPT ![k] = Append(@, f)] \in InboxType
<1>1. Append(q[k], f) \in Seq(GoodFrames)
  BY DEF InboxType
<1> QED BY <1>1 DEF InboxType

LEMMA HandlersEndType ==
  ASSUME LinkType, NEW K, HandlersEnd(K)
  PROVE  LinkType'
BY NoSession, SocketAssumption DEF SocketAssumption, LinkType, HandlersEnd, Gone

LEMMA RefuseType ==
  ASSUME NEW q \in InboxType, NEW t \in {"close", "denied"}, LinkType, socket \in Sockets,
         RefuseWith(q, t)
  PROVE  inbox' \in InboxType /\ LinkType'
<1>1. <<Frame(t, 0, 0)>> \in Seq(GoodFrames)
  BY FrameType, NoSession
<1> QED BY <1>1, AnswerType, HandlersEndType DEF RefuseWith

\* Whatever is answered, the client goes on with frames of the type.
LEMMA SingleAnswerType ==
  ASSUME NEW q \in InboxType, NEW t \in {"invalid", "ack"}, socket \in Sockets,
         Answer(q, <<Frame(t, 0, 0)>>)
  PROVE  inbox' \in InboxType
<1>1. <<Frame(t, 0, 0)>> \in Seq(GoodFrames)
  BY FrameType, NoSession
<1> QED BY <1>1, AnswerType

LEMMA ServedSocket == ASSUME SocketType, Served PROVE socket \in Sockets
BY DEF SocketType, Served, IsOpen, Sockets

LEMMA SendIdentifyType ==
  ASSUME Types, NEW q \in InboxType, SendIdentify(q)
  PROVE  ServerType'
<1> USE DEF Types, ServerType
<1>1. CASE NoAnswer(q)
  BY <1>1 DEF NoAnswer, serverVars, sessionVars, LinkType, SessionType
<1>2. CASE Served /\ Refuse(q) /\ UNCHANGED <<born, alive, unready, reached>>
  BY <1>2, RefuseType, ServedSocket DEF Refuse, SessionType
<1>3. CASE /\ Served /\ born < MaxSessions /\ born' = born + 1 /\ alive' = alive \cup {born'}
           /\ unready' = unready \cup {born'}
           /\ handler' = [handler EXCEPT ![socket] = born']
           /\ via' = [via EXCEPT ![born'] = socket] /\ inbox' = q /\ UNCHANGED reached
  <2>1. born' \in Sessions /\ born' \in 0..MaxSessions /\ born' \in 0..Gone /\ 1..born \subseteq 1..born'
    BY <1>3, SocketAssumption DEF SessionType, Sessions, Gone, SocketAssumption
  <2>2. socket \in 0..MaxSockets
    BY DEF SocketType
  <2>3. LinkType'
    BY <1>3, <2>1, <2>2 DEF LinkType
  <2>4. alive' \in SUBSET (1..born') /\ unready' \in SUBSET (1..born')
    <3>1. born' \in 1..born'
      BY <2>1 DEF Sessions
    <3> QED BY <1>3, <2>1, <3>1 DEF SessionType
  <2> QED BY <1>3, <2>1, <2>3, <2>4 DEF SessionType
<1>4. CASE /\ Served
           /\ \/ Refuse(q) \/ RefuseWith(q, "denied")
              \/ Answer(q, <<Frame("invalid", 0, 0)>>) /\ UNCHANGED <<handler, via>>
           /\ UNCHANGED sessionVars
  <2>1. SessionType'
    BY <1>4 DEF sessionVars, SessionType
  <2> QED BY <1>4, <2>1, RefuseType, SingleAnswerType, ServedSocket DEF Refuse, LinkType
<1> QED BY <1>1, <1>2, <1>3, <1>4 DEF SendIdentify

LEMMA SendResumeType ==
  ASSUME Types, NEW q \in InboxType, SendResume(q)
  PROVE  ServerType'
<1> USE DEF Types, ServerType
<1>1. CASE NoAnswer(q)
  BY <1>1 DEF NoAnswer, serverVars, sessionVars, LinkType, SessionType
<1>2. CASE Served /\ Answer(q, <<Frame("invalid", 0, 0)>>) /\ UNCHANGED serverVars
  BY <1>2, SingleAnswerType, ServedSocket DEF serverVars, sessionVars, LinkType, SessionType
<1>3. CASE Served /\ Refuse(q) /\ UNCHANGED <<born, alive, unready, reached>>
  BY <1>3, RefuseType, ServedSocket DEF Refuse, SessionType
<1>4. CASE /\ Served /\ session \in alive
           /\ handler' = [handler EXCEPT ![socket] = session]
           /\ via' = [via EXCEPT ![session] = socket]
           /\ Answer(q, (IF last = reached[session] THEN <<>>
                         ELSE <<Frame("event", reached[session], session)>>)
                        \o <<Frame("resumed", last, session)>>)
           /\ UNCHANGED sessionVars
  <2>1. session \in Sessions /\ session \in 0..MaxSessions /\ session \in 0..Gone
    BY <1>4, SocketAssumption DEF SessionType, Sessions, Gone, SocketAssumption
  <2>2. reached[session] \in Nat /\ last \in Nat
    BY <2>1 DEF SessionType, StateType
  <2>3. /\ Frame("event", reached[session], session) \in GoodFrames
        /\ Frame("resumed", last, session) \in GoodFrames
    BY <2>1, <2>2, FrameType
  <2>4. inbox' \in InboxType
    <3> DEFINE frames == (IF last = reached[session] THEN <<>>
                          ELSE <<Frame("event", reached[session], session)>>)
                         \o <<Frame("resumed", last, session)>>
    <3>1. frames \in Seq(GoodFrames)
      BY <2>3
    <3> HIDE DEF frames
    <3>2. Answer(q, frames)
      BY <1>4 DEF frames
    <3> QED BY <1>4, <3>1, <3>2, AnswerType, ServedSocket
  <2>5. LinkType'
    BY <1>4, <2>1 DEF LinkType, SocketType
  <2> QED BY <1>4, <2>4, <2>5 DEF sessionVars, SessionType
<1> QED BY <1>1, <1>2, <1>3, <1>4 DEF SendResume

LEMMA ServeHeartbeatType ==
  ASSUME Types, NEW q \in InboxType, ServeHeartbeat(q)
  PROVE  ServerType'
<1> USE DEF Types, ServerType
<1>1. CASE NoAnswer(q)
  BY <1>1 DEF NoAnswer, serverVars, sessionVars, LinkType, SessionType
<1>2. CASE Served /\ Answer(q, <<Frame("ack", 0, 0)>>) /\ UNCHANGED serverVars
  BY <1>2, SingleAnswerType, ServedSocket DEF serverVars, sessionVars, LinkType, SessionType
<1>3. CASE Served /\ Refuse(q) /\ UNCHANGED sessionVars
  BY <1>3, RefuseType, ServedSocket DEF Refuse, SessionType, sessionVars
<1> QED BY <1>1, <1>2, <1>3 DEF ServeHeartbeat

\* Tearing down, or closing, the client's socket.
LEMMA TeardownType ==
  ASSUME Types, TeardownSocket
  PROVE  /\ socket' \in 0..MaxSockets /\ listening' \in SUBSET Sockets
         /\ ws' \in [Sockets -> {"none", "connecting", "open", "closing", "failed"}]
         /\ inbox' \in InboxType /\ LinkType'
<1>1. inbox' \in InboxType
  <2>1. <<>> \in Seq(GoodFrames)
    OBVIOUS
  <2> QED BY <2>1 DEF Types, ServerType, TeardownSocket, InboxType
<1>2. LinkType'
  BY HandlersEndType DEF Types, ServerType, TeardownSocket
<1> QED BY <1>1, <1>2, SocketAssumption DEF Types, SocketType, TeardownSocket, SocketAssumption

LEMMA OpenType ==
  ASSUME Types, OpenConnection, UNCHANGED sessionVars
  PROVE  /\ state' = "connecting" /\ quit' = FALSE
         /\ ServerType' /\ SocketType'
BY TeardownType DEF OpenConnection, Types, ServerType, SocketType, SessionType, sessionVars

LEMMA CloseType ==
  ASSUME Types, CloseSocket
  PROVE  SocketType' /\ LinkType'
<1>1. LinkType'
  BY HandlersEndType DEF Types, ServerType, CloseSocket
<1>2. SocketType'
  BY DEF CloseSocket, Types, SocketType
<1> QED BY <1>1, <1>2

LEMMA DisconnectType ==
  ASSUME Types, DisconnectResumable
  PROVE  Types'
<1>1. SocketType' /\ LinkType'
  BY CloseType DEF DisconnectResumable
<1>2. FlagType'
  BY Zenon DEF DisconnectResumable, StopHeartbeat, FlagType, Types, timeVars
<1>3. StateType'
  BY DEF DisconnectResumable, StopHeartbeat, StateType, Types, timeVars
<1>4. ServerType'
  BY <1>1 DEF DisconnectResumable, ServerType, Types, SessionType, sessionVars
<1> QED BY <1>1, <1>2, <1>3, <1>4 DEF Types

\* A heartbeat changes its flags and what the server has answered.
LEMMA HeartbeatType ==
  ASSUME Types, NEW q \in InboxType, SendHeartbeat(q),
         UNCHANGED <<state, session, last, timers, quit, socketVars>>
  PROVE  Types'
<1>1. ServerType'
  BY ServeHeartbeatType DEF SendHeartbeat
<1>2. FlagType'
  BY Zenon DEF SendHeartbeat, FlagType, Types
<1>3. StateType' /\ SocketType'
  BY DEF SendHeartbeat, StateType, SocketType, Types, socketVars
<1> QED BY <1>1, <1>2, <1>3 DEF Types

\* What is left of the frames when the first has been received.
LEMMA RestType ==
  ASSUME Types, NEW k \in Sockets, inbox[k] # <<>>
  PROVE  Rest(k) \in InboxType /\ Head(inbox[k]) \in GoodFrames
<1>1. inbox[k] \in Seq(GoodFrames)
  BY DEF Types, ServerType, InboxType
<1>2. Tail(inbox[k]) \in Seq(GoodFrames) /\ Head(inbox[k]) \in GoodFrames
  BY <1>1
<1> QED BY <1>2 DEF Rest, Types, ServerType, InboxType

\* A socket nobody hears of any more.
LEMMA EmptiedType ==
  ASSUME Types, NEW k \in Sockets, inbox' = [inbox EXCEPT ![k] = <<>>], HandlersEnd({k}),
         UNCHANGED sessionVars
  PROVE  ServerType'
<1>1. inbox' \in InboxType
  <2>1. <<>> \in Seq(GoodFrames)
    OBVIOUS
  <2> QED BY <2>1 DEF Types, ServerType, InboxType
<1>2. LinkType'
  BY HandlersEndType DEF Types, ServerType
<1> QED BY <1>1, <1>2 DEF Types, ServerType, SessionType, sessionVars

LEMMA SessionSendsType ==
  ASSUME Types, NEW s \in Sessions, NEW t \in {"event", "ready"}, SessionSends(s, t)
  PROVE  inbox' \in InboxType /\ reached' \in [Sessions -> Nat]
<1>1. reached' \in [Sessions -> Nat] /\ reached'[s] \in Nat
  BY DEF SessionSends, Types, ServerType, SessionType
<1>2. Frame(t, reached'[s], s) \in GoodFrames
  BY <1>1, FrameType, SocketAssumption DEF Sessions, SocketAssumption
<1>3. via[s] \in Attached => via[s] \in Sockets
  BY DEF Attached
<1> QED BY <1>1, <1>2, <1>3, AppendType DEF SessionSends, Types, ServerType

LEMMA InitTypes == Init => Types
<1> SUFFICES ASSUME Init PROVE Types
  OBVIOUS
<1>1. FlagType
  BY Zenon DEF Init, FlagType
<1>2. StateType /\ SocketType
  BY SocketAssumption DEF Init, StateType, SocketType, SocketAssumption
<1>3. ServerType
  <2>1. <<>> \in Seq(GoodFrames)
    OBVIOUS
  <2>2. inbox \in InboxType
    BY <2>1 DEF Init, InboxType
  <2>3. LinkType /\ SessionType
    BY NoSession, SocketAssumption DEF Init, LinkType, SessionType, SocketAssumption, Gone
  <2> QED BY <2>2, <2>3 DEF ServerType
<1> QED BY <1>1, <1>2, <1>3 DEF Types

LEMMA TypesStep == Types /\ [Next]_vars => Types'
<1> SUFFICES ASSUME Types, [Next]_vars PROVE Types'
  OBVIOUS
<1>0. ASSUME UNCHANGED <<inbox, serverVars>> PROVE ServerType'
  BY <1>0 DEF Types, ServerType, LinkType, SessionType, serverVars, sessionVars
<1>a. ASSUME UNCHANGED socketVars PROVE SocketType'
  BY <1>a DEF Types, SocketType, socketVars
<1>b. ASSUME UNCHANGED <<stale, awaiting, quit>> PROVE FlagType'
  BY <1>b, Zenon DEF Types, FlagType
<1>1. CASE Connect
  <2>1. ServerType' /\ SocketType' /\ state' = "connecting" /\ quit' = FALSE
    BY <1>1, OpenType DEF Connect
  <2>2. FlagType'
    BY <1>1, <2>1, Zenon DEF Connect, Types, FlagType, timeVars
  <2> QED BY <1>1, <2>1, <2>2 DEF Connect, Types, StateType, timeVars
<1>2. CASE Disconnect
  <2>1. SocketType' /\ LinkType'
    BY <1>2, CloseType DEF Disconnect
  <2>2. FlagType'
    BY <1>2, Zenon DEF Disconnect, StopHeartbeat, FlagType, Types, timeVars
  <2>3. StateType'
    BY <1>2 DEF Disconnect, StopHeartbeat, StateType, Types, timeVars
  <2>4. ServerType'
    BY <1>2, <2>1 DEF Disconnect, ServerType, Types, SessionType, sessionVars
  <2> QED BY <2>1, <2>2, <2>3, <2>4 DEF Types
<1>3. CASE Reset
  <2>1. ServerType' /\ SocketType' /\ state' = "connecting" /\ quit' = FALSE
    BY <1>3, OpenType DEF Reset
  <2>2. FlagType'
    BY <1>3, <2>1, Zenon DEF Reset, StopHeartbeat, Types, FlagType, timeVars
  <2>3. StateType'
    BY <1>3, <2>1, NoSession DEF Reset, StopHeartbeat, ClearSession, Types, StateType, timeVars
  <2> QED BY <2>1, <2>2, <2>3 DEF Types
<1>4. CASE NetworkOffline
  BY <1>4, DisconnectType DEF NetworkOffline
<1>5. CASE WindowPasses
  <2>1. FlagType'
    BY <1>5, Zenon DEF WindowPasses, Types, FlagType
  <2> QED BY <1>0, <1>a, <1>5, <2>1 DEF WindowPasses, Types, StateType
<1>6. CASE ReconnectTimer
  <2>1. session' \in 0..MaxSessions /\ last' \in Nat /\ timers' \subseteq timers
    BY <1>6, NoSession DEF ReconnectTimer, ClearSession, Types, StateType
  <2>2. UNCHANGED <<timeVars, awaiting, sessionVars>>
    BY <1>6 DEF ReconnectTimer
  <2>3. CASE OpenConnection
    <3>1. ServerType' /\ SocketType' /\ state' = "connecting" /\ quit' = FALSE
      BY <2>2, <2>3, OpenType
    <3>2. FlagType'
      BY <2>2, <3>1, Zenon DEF Types, FlagType, timeVars
    <3> QED BY <2>1, <2>2, <3>1, <3>2 DEF Types, StateType, timeVars
  <2>4. CASE UNCHANGED <<state, quit, socketVars, inbox, handler, via>>
    <3>1. FlagType'
      BY <1>b, <2>2, <2>4 DEF timeVars
    <3> QED BY <1>0, <1>a, <2>1, <2>2, <2>4, <3>1 DEF Types, StateType, timeVars, serverVars
  <2> QED BY <1>6, <2>3, <2>4 DEF ReconnectTimer
<1>7. CASE UrlKnown
  <2>1. (CHOOSE k \in Free : TRUE) \in Sockets
    BY <1>7 DEF UrlKnown, Free
  <2>2. socket' \in Sockets /\ Sockets \subseteq 0..MaxSockets
    BY <1>7, <2>1, SocketAssumption DEF UrlKnown, Sockets, SocketAssumption
  <2>3. SocketType'
    <3>1. /\ opening' = opening - 1 /\ opening > 0
          /\ ws' = [ws EXCEPT ![socket'] = "connecting"] /\ listening' = listening \cup {socket'}
      BY <1>7 DEF UrlKnown
    <3> QED BY <2>2, <3>1 DEF Types, SocketType
  <2>4. FlagType' /\ ServerType'
    BY <1>7, <1>0, <1>b DEF UrlKnown, timeVars
  <2> QED BY <1>7, <2>3, <2>4 DEF UrlKnown, Types, StateType, timeVars
<1>8. CASE UrlFails
  <2>1. SocketType'
    BY <1>8 DEF UrlFails, Types, SocketType
  <2>2. FlagType' /\ ServerType'
    BY <1>8, <1>0, <1>b DEF UrlFails, timeVars
  <2> QED BY <1>8, <2>1, <2>2 DEF UrlFails, ConnectionFailure, Types, StateType, timeVars
<1>9. CASE HelloTimeout
  BY <1>9, DisconnectType DEF HelloTimeout
<1>10. CASE IdentifyTimer
  <2>1. ServerType'
    BY <1>10, SendIdentifyType DEF IdentifyTimer, Types, ServerType
  <2>2. FlagType' /\ SocketType'
    BY <1>10, <1>a, <1>b DEF IdentifyTimer, timeVars
  <2> QED BY <1>10, <2>1, <2>2 DEF IdentifyTimer, Types, StateType, timeVars
<1>11. CASE HeartbeatTick
  BY <1>11, DisconnectType, HeartbeatType DEF HeartbeatTick, Types, ServerType
<1>12. CASE HeartbeatUnanswered
  BY <1>12, DisconnectType DEF HeartbeatUnanswered
<1>13. ASSUME NEW k \in Sockets, ReceiveHello(k) PROVE Types'
  <2>1. Rest(k) \in InboxType
    BY <1>13, RestType DEF ReceiveHello, Receives
  <2>2. ServerType'
    BY <1>13, <2>1, SendResumeType, SendIdentifyType DEF ReceiveHello
  <2>3. FlagType'
    BY <1>13, Zenon DEF ReceiveHello, Types, FlagType, timeVars
  <2> QED BY <1>13, <1>a, <2>2, <2>3 DEF ReceiveHello, Types, StateType, timeVars
<1>14. ASSUME NEW k \in Sockets, ReceiveDispatch(k) PROVE Types'
  <2>1. Rest(k) \in InboxType /\ Head(inbox[k]) \in Frames
    BY <1>14, RestType DEF ReceiveDispatch, Receives, GoodFrames
  <2>2. ServerType'
    BY <1>14, <2>1 DEF ReceiveDispatch, Types, ServerType, LinkType, SessionType, serverVars,
                       sessionVars
  <2>3. FlagType' /\ SocketType'
    BY <1>14, <1>a, <1>b DEF ReceiveDispatch, timeVars
  <2>4. StateType'
    BY <1>14, <2>1 DEF ReceiveDispatch, Types, StateType, Frames, timeVars
  <2> QED BY <2>2, <2>3, <2>4 DEF Types
<1>15. ASSUME NEW k \in Sockets, ReceiveInvalid(k) PROVE Types'
  <2>1. Rest(k) \in InboxType
    BY <1>15, RestType DEF ReceiveInvalid, Receives
  <2>2. ServerType'
    BY <1>15, <2>1 DEF ReceiveInvalid, Types, ServerType, LinkType, SessionType, serverVars,
                       sessionVars
  <2>3. FlagType' /\ SocketType'
    BY <1>15, <1>a, <1>b DEF ReceiveInvalid, timeVars
  <2>4. StateType'
    BY <1>15, NoSession DEF ReceiveInvalid, ClearSession, Types, StateType, timeVars
  <2> QED BY <2>2, <2>3, <2>4 DEF Types
<1>16. ASSUME NEW k \in Sockets, ReceiveAck(k) PROVE Types'
  <2>1. Rest(k) \in InboxType
    BY <1>16, RestType DEF ReceiveAck, Receives
  <2>2. ServerType'
    BY <1>16, <2>1 DEF ReceiveAck, Types, ServerType, LinkType, SessionType, serverVars,
                       sessionVars
  <2>3. FlagType'
    BY <1>16, Zenon DEF ReceiveAck, Types, FlagType
  <2> QED BY <1>16, <1>a, <2>2, <2>3 DEF ReceiveAck, Types, StateType
<1>17. ASSUME NEW k \in Sockets, ReceiveBeat(k) PROVE Types'
  <2>1. Rest(k) \in InboxType
    BY <1>17, RestType DEF ReceiveBeat, Receives
  <2>2. CASE IsOpen
    BY <1>17, <2>1, <2>2, HeartbeatType DEF ReceiveBeat
  <2>3. CASE ~IsOpen
    <3>1. SocketType' /\ LinkType'
      BY <1>17, <2>3, CloseType DEF ReceiveBeat
    <3>2. FlagType'
      BY <1>17, <2>3, Zenon DEF ReceiveBeat, StopHeartbeat, FlagType, Types, timeVars
    <3>3. StateType'
      BY <1>17, <2>3 DEF ReceiveBeat, StopHeartbeat, StateType, Types, timeVars
    <3>4. ServerType'
      BY <1>17, <2>1, <2>3, <3>1 DEF ReceiveBeat, ServerType, Types, SessionType, sessionVars
    <3> QED BY <3>1, <3>2, <3>3, <3>4 DEF Types
  <2> QED BY <2>2, <2>3
<1>18. ASSUME NEW k \in Sockets, SocketCloses(k) PROVE Types'
  <2>1. ServerType'
    BY <1>18, EmptiedType DEF SocketCloses
  <2>2. FlagType'
    BY <1>18, Zenon DEF SocketCloses, Types, FlagType, timeVars
  <2>3. StateType' /\ SocketType'
    BY <1>18 DEF SocketCloses, ConnectionFailure, Types, StateType, SocketType, timeVars
  <2> QED BY <2>1, <2>2, <2>3 DEF Types
<1>19. ASSUME NEW k \in Sockets, SocketDenied(k) PROVE Types'
  <2>1. ServerType'
    BY <1>19, EmptiedType DEF SocketDenied
  <2>2. FlagType'
    BY <1>19, Zenon DEF SocketDenied, StopHeartbeat, Types, FlagType, timeVars
  <2>3. StateType' /\ SocketType'
    BY <1>19 DEF SocketDenied, StopHeartbeat, Types, StateType, SocketType, timeVars
  <2> QED BY <2>1, <2>2, <2>3 DEF Types
<1>20. ASSUME NEW k \in Sockets, SocketFails(k) PROVE Types'
  <2>1. ServerType' /\ FlagType'
    BY <1>20, <1>b, EmptiedType DEF SocketFails, timeVars
  <2>2. StateType' /\ SocketType'
    BY <1>20 DEF SocketFails, ConnectionFailure, Types, StateType, SocketType, timeVars
  <2> QED BY <2>1, <2>2 DEF Types
<1>21. ASSUME UNCHANGED clientVars, ServerType',
              ws' \in [Sockets -> {"none", "connecting", "open", "closing", "failed"}]
       PROVE  Types'
  <2>1. FlagType'
    BY <1>21, <1>b DEF clientVars, timeVars
  <2> QED BY <1>21, <2>1 DEF Types, StateType, SocketType, clientVars, timeVars
<1>22. ASSUME NEW k \in Sockets, SocketOpens(k) PROVE Types'
  <2>1. <<Frame("hello", 0, 0)>> \in Seq(GoodFrames)
    BY FrameType, NoSession
  <2>2. inbox' \in InboxType
    BY <1>22, <2>1 DEF SocketOpens, Types, ServerType, InboxType
  <2>3. LinkType' /\ SessionType'
    BY <1>22, NoSession DEF SocketOpens, Types, ServerType, LinkType, SessionType, sessionVars
  <2> QED BY <1>21, <1>22, <2>2, <2>3 DEF SocketOpens, Types, SocketType, ServerType
<1>23. ASSUME NEW k \in Sockets, SocketDrops(k) PROVE Types'
  BY <1>21, <1>23, EmptiedType DEF SocketDrops, Types, SocketType
<1>24. ASSUME NEW k \in Sockets, HandlerChecks(k) PROVE Types'
  <2>1. Frame("beat", 0, 0) \in GoodFrames /\ Frame("close", 0, 0) \in GoodFrames
    BY FrameType, NoSession
  <2>2. inbox' \in InboxType
    BY <1>24, <2>1, AppendType DEF HandlerChecks, Types, ServerType
  <2>3. LinkType'
    BY <1>24, HandlersEndType DEF HandlerChecks, Types, ServerType, LinkType
  <2> QED BY <1>21, <1>24, <2>2, <2>3 DEF HandlerChecks, Types, SocketType, ServerType,
                                           SessionType, sessionVars
<1>25. ASSUME NEW s \in Sessions, SessionEvent(s) PROVE Types'
  <2>1. inbox' \in InboxType /\ reached' \in [Sessions -> Nat]
    BY <1>25, SessionSendsType DEF SessionEvent
  <2> QED BY <1>21, <1>25, <2>1 DEF SessionEvent, Types, ServerType, SocketType, LinkType,
                                    SessionType
<1>26. ASSUME NEW s \in Sessions, SessionReadies(s) PROVE Types'
  <2>1. inbox' \in InboxType /\ reached' \in [Sessions -> Nat]
    BY <1>26, SessionSendsType DEF SessionReadies
  <2> QED BY <1>21, <1>26, <2>1 DEF SessionReadies, Types, ServerType, SocketType, LinkType,
                                    SessionType
<1>27. ASSUME NEW s \in Sessions, SessionEnds(s) PROVE Types'
  <2>1. Frame("invalid", 0, 0) \in GoodFrames
    BY FrameType, NoSession
  <2>2. inbox' \in InboxType
    <3>1. \A k \in Sockets : Append(inbox[k], Frame("invalid", 0, 0)) \in Seq(GoodFrames)
      BY <2>1 DEF Types, ServerType, InboxType
    <3> QED BY <1>27, <3>1 DEF SessionEnds, Types, ServerType, InboxType
  <2>3. LinkType' /\ SessionType'
    BY <1>27, NoSession, SocketAssumption
       DEF SessionEnds, Types, ServerType, LinkType, SessionType, SocketAssumption
  <2> QED BY <1>21, <1>27, <2>2, <2>3 DEF SessionEnds, Types, SocketType, ServerType
<1>28. CASE UNCHANGED vars
  BY <1>0, <1>a, <1>b, <1>28 DEF vars, Types, StateType, timeVars
<1> QED
  BY <1>1, <1>2, <1>3, <1>4, <1>5, <1>6, <1>7, <1>8, <1>9, <1>10, <1>11, <1>12, <1>13, <1>14,
     <1>15, <1>16, <1>17, <1>18, <1>19, <1>20, <1>22, <1>23, <1>24, <1>25, <1>26, <1>27, <1>28
     DEF Next, Receive

LEMMA TypesHold == Spec => []Types
BY InitTypes, TypesStep, PTL DEF Spec

\* Every variable has its type.
THEOREM TypeCorrect == Spec => []TypeOK
BY TypesHold, TypesImplyTypeOK, PTL

-----------------------------------------------------------------------------
(***************************************************************************)
(* A live session is kept.                                                 *)
(***************************************************************************)
\* The calls and events that touch the client's session.
LEMMA SessionSteps ==
  ASSUME [Next]_vars
  PROVE  \/ UNCHANGED session
         \/ Reset
         \/ ReconnectTimer
         \/ \E k \in Sockets : ReceiveInvalid(k) \/ ReceiveDispatch(k)
<1>1. CASE UNCHANGED vars
  BY <1>1 DEF vars
<1>2. CASE Next
  BY <1>2 DEF Next, Receive, Connect, Disconnect, NetworkOffline, WindowPasses, UrlKnown,
     UrlFails, HelloTimeout, IdentifyTimer, HeartbeatTick, HeartbeatUnanswered,
     DisconnectResumable, ReceiveHello, ReceiveAck, ReceiveBeat, SocketOpens, SocketCloses,
     SocketDenied, SocketFails, SocketDrops, HandlerChecks, SessionEvent, SessionReadies,
     SessionEnds, clientVars
<1> QED BY <1>1, <1>2

\* The client loses a session that is alive only to an INVALID_SESSION, to a
\* reset, or to a pause that is longer than the resume window.
THEOREM KeepsLiveSessionHolds == Spec => KeepsLiveSession
<1> DEFINE Keeps == (session \in alive /\ session' = 0)
                      => stale \/ Reset \/ \E k \in Sockets : GivenUp(k)
<1>1. Types /\ [Next]_vars => Keeps
  <2> SUFFICES ASSUME Types, [Next]_vars, session \in alive, session' = 0
               PROVE  stale \/ Reset \/ \E k \in Sockets : GivenUp(k)
    OBVIOUS
  <2>1. session # 0
    BY SocketAssumption DEF Types, ServerType, SessionType, SocketAssumption
  <2>2. CASE ReconnectTimer
    BY <2>1, <2>2 DEF ReconnectTimer, CanResumeSession
  <2>3. ASSUME NEW k \in Sockets, ReceiveInvalid(k) PROVE GivenUp(k)
    BY <2>3 DEF ReceiveInvalid, Receives, GivenUp
  <2>4. ASSUME NEW k \in Sockets, ReceiveDispatch(k) PROVE session' # 0
    <3>1. Head(inbox[k]) \in GoodFrames
      BY <2>4, RestType DEF ReceiveDispatch, Receives
    <3> QED BY <2>1, <2>4, <3>1 DEF ReceiveDispatch, GoodFrames
  <2> QED BY <2>1, <2>2, <2>3, <2>4, SessionSteps
<1>2. Types /\ [Next]_vars => [Keeps]_vars
  BY <1>1
<1> QED BY <1>2, TypesHold, PTL DEF Spec, KeepsLiveSession

-----------------------------------------------------------------------------
(***************************************************************************)
(* The client is not stranded while at most one URL is awaited.            *)
(***************************************************************************)
OneAwaited == opening <= 1

\* There is one socket the client hears of, and none while a URL is awaited.
OneSocket == (opening = 1 => socket = 0) /\ listening \subseteq {socket}

\* HELLO is still to be received, or nothing will be.
HelloWaits ==
  IF inbox[socket] = <<>> THEN handler[socket] = Gone ELSE Head(inbox[socket]).t = "hello"

\* An open socket has heartbeats from HELLO on, and the wait for it no longer,
\* which comes before READY.
HelloFirst == IsOpen /\ ("heartbeat" \notin timers \/ "hello" \in timers) => HelloWaits

\* NeverStranded, without help for a client that is connecting from a timer
\* of an earlier attempt.
Moving ==
  /\ state = "connecting" => opening > 0 \/ timers \cap {"hello", "heartbeat"} # {}
  /\ state = "connected" => "heartbeat" \in timers
  /\ state = "reconnecting" => "reconnect" \in timers

Unstranded == Types /\ OneSocket /\ HelloFirst /\ Moving

\* What the steps do to the socket that the client uses, and to the promises.
LEMMA SocketSteps ==
  ASSUME [Next]_vars
  PROVE  \/ UNCHANGED <<opening, socket, listening>>
         \/ CanOpen /\ OpenConnection
         \/ UrlKnown
         \/ UrlFails
<1>1. CASE UNCHANGED vars
  BY <1>1 DEF vars, socketVars
<1>2. CASE Next
  BY <1>2 DEF Next, Receive, Connect, Disconnect, NetworkOffline, WindowPasses, Reset,
     ReconnectTimer, HelloTimeout, IdentifyTimer, HeartbeatTick, HeartbeatUnanswered,
     DisconnectResumable, CloseSocket, ReceiveHello, ReceiveDispatch, ReceiveInvalid,
     ReceiveAck, ReceiveBeat, SocketOpens, SocketCloses, SocketDenied, SocketFails,
     SocketDrops, HandlerChecks, SessionEvent, SessionReadies, SessionEnds, clientVars,
     socketVars
<1> QED BY <1>1, <1>2

LEMMA OneSocketStep ==
  Types /\ OneSocket /\ OneAwaited /\ [Next]_vars => OneSocket'
<1> SUFFICES ASSUME Types, OneSocket, OneAwaited, [Next]_vars PROVE OneSocket'
  OBVIOUS
<1>0. listening \subseteq Sockets /\ 0 \notin Sockets /\ opening \in Nat
  BY DEF Types, SocketType, Sockets
<1>1. CASE UNCHANGED <<opening, socket, listening>>
  BY <1>1 DEF OneSocket
<1>2. CASE OpenConnection
  BY <1>2 DEF OpenConnection, TeardownSocket, OneSocket
<1>3. CASE UrlFails
  BY <1>0, <1>3 DEF UrlFails, OneSocket, OneAwaited
<1>4. CASE UrlKnown
  <2>1. opening' = opening - 1 /\ opening > 0 /\ listening' = listening \cup {socket'}
    BY <1>4 DEF UrlKnown
  <2>2. opening = 1
    BY <1>0, <2>1 DEF OneAwaited
  <2> QED BY <1>0, <2>1, <2>2 DEF OneSocket
<1> QED BY <1>1, <1>2, <1>3, <1>4, SocketSteps

\* An answer comes behind HELLO, and there is none from a handler that ended.
LEMMA AnswerBehindHello ==
  ASSUME Types, HelloWaits, Served, NEW frames \in Seq(GoodFrames), Answer(inbox, frames),
         UNCHANGED socket
  PROVE  HelloWaits'
<1>1. inbox[socket] \in Seq(GoodFrames) /\ socket \in Sockets /\ DOMAIN inbox = Sockets
  BY ServedSocket DEF Types, ServerType, InboxType
<1>2. inbox[socket] # <<>> /\ Head(inbox[socket]).t = "hello"
  BY DEF HelloWaits, Served
<1>3. inbox'[socket] = inbox[socket] \o frames
  BY <1>1 DEF Answer
<1>4. inbox'[socket] # <<>> /\ Head(inbox'[socket]) = Head(inbox[socket])
  BY <1>1, <1>2, <1>3
<1> QED BY <1>2, <1>4 DEF HelloWaits

LEMMA IdentifyBehindHello ==
  ASSUME Types, HelloWaits, SendIdentify(inbox), UNCHANGED socket
  PROVE  HelloWaits'
<1>1. CASE NoAnswer(inbox)
  BY <1>1 DEF NoAnswer, serverVars, HelloWaits
<1>2. ASSUME NEW t \in {"close", "denied", "invalid"}, Served,
             Answer(inbox, <<Frame(t, 0, 0)>>)
      PROVE  HelloWaits'
  <2>1. <<Frame(t, 0, 0)>> \in Seq(GoodFrames)
    BY FrameType, NoSession
  <2> QED BY <1>2, <2>1, AnswerBehindHello
<1>3. CASE Served /\ inbox' = inbox
  BY <1>3 DEF Served, HelloWaits
<1> QED BY <1>1, <1>2, <1>3 DEF SendIdentify, Refuse, RefuseWith

LEMMA HeartbeatBehindHello ==
  ASSUME Types, HelloWaits, ServeHeartbeat(inbox), UNCHANGED socket
  PROVE  HelloWaits'
<1>1. CASE NoAnswer(inbox)
  BY <1>1 DEF NoAnswer, serverVars, HelloWaits
<1>2. ASSUME NEW t \in {"ack", "close"}, Served, Answer(inbox, <<Frame(t, 0, 0)>>)
      PROVE  HelloWaits'
  <2>1. <<Frame(t, 0, 0)>> \in Seq(GoodFrames)
    BY FrameType, NoSession
  <2> QED BY <1>2, <2>1, AnswerBehindHello
<1> QED BY <1>1, <1>2 DEF ServeHeartbeat, Refuse, RefuseWith

\* Something done to the server's end of the client's socket.
LEMMA HelloWaitsFrame ==
  ASSUME Types, HelloWaits, IsOpen, UNCHANGED socket,
         \/ /\ inbox'[socket] = inbox[socket]
            /\ handler'[socket] = handler[socket] \/ handler'[socket] = Gone
         \/ inbox'[socket] = <<>> /\ handler'[socket] = Gone
         \/ /\ handler[socket] # Gone
            /\ \E f : inbox'[socket] = Append(inbox[socket], f)
  PROVE  HelloWaits'
<1>1. inbox[socket] \in Seq(GoodFrames)
  BY DEF Types, ServerType, InboxType, SocketType, IsOpen, Sockets
<1>2. ASSUME NEW f, handler[socket] # Gone, inbox'[socket] = Append(inbox[socket], f)
      PROVE  HelloWaits'
  <2>1. inbox[socket] # <<>> /\ Head(inbox[socket]).t = "hello"
    BY <1>2 DEF HelloWaits
  <2>2. inbox'[socket] # <<>> /\ Head(inbox'[socket]) = Head(inbox[socket])
    BY <1>1, <1>2, <2>1
  <2> QED BY <2>1, <2>2 DEF HelloWaits
<1> QED BY <1>2 DEF HelloWaits

LEMMA HelloFirstStep ==
  Types /\ OneSocket /\ HelloFirst /\ [Next]_vars => HelloFirst'
<1> SUFFICES ASSUME Types, OneSocket, HelloFirst, [Next]_vars, IsOpen',
                    "heartbeat" \notin timers' \/ "hello" \in timers'
             PROVE  HelloWaits'
  BY DEF HelloFirst
<1> DEFINE Waiting == "heartbeat" \notin timers \/ "hello" \in timers
<1>0. /\ 0 \notin Sockets /\ socket' # 0 /\ ws'[socket'] = "open"
      /\ DOMAIN ws = Sockets /\ DOMAIN inbox = Sockets /\ DOMAIN handler = Sockets
      /\ socket \in Sockets \cup {0}
  BY DEF IsOpen, Types, SocketType, ServerType, LinkType, InboxType, Sockets
<1>1. ASSUME UNCHANGED <<socket, ws, inbox, handler>>, Waiting
      PROVE  HelloWaits'
  BY <1>1 DEF HelloFirst, HelloWaits, IsOpen
<1>2. ~OpenConnection
  BY <1>0 DEF OpenConnection, TeardownSocket
<1>3. ~(CloseSocket /\ UNCHANGED socket)
  BY <1>0 DEF CloseSocket, IsOpen
<1>4. CASE \/ Connect \/ Disconnect \/ Reset \/ NetworkOffline \/ HelloTimeout
           \/ HeartbeatUnanswered
  BY <1>2, <1>3, <1>4 DEF Connect, Disconnect, Reset, NetworkOffline, HelloTimeout,
     HeartbeatUnanswered, DisconnectResumable, CloseSocket
<1>5. CASE WindowPasses \/ UrlFails
  BY <1>1, <1>5 DEF WindowPasses, UrlFails, ConnectionFailure, socketVars, serverVars
<1>6. CASE ReconnectTimer
  BY <1>1, <1>2, <1>6 DEF ReconnectTimer, socketVars
<1>7. CASE UrlKnown
  <2>1. ws' = [ws EXCEPT ![socket'] = "connecting"] /\ socket' \in Sockets
    <3>1. (CHOOSE k \in Free : TRUE) \in Sockets
      BY <1>7 DEF UrlKnown, Free
    <3> QED BY <1>7, <3>1 DEF UrlKnown
  <2> QED BY <1>0, <2>1
<1>8. CASE IdentifyTimer
  <2>1. UNCHANGED socketVars /\ Waiting /\ SendIdentify(inbox)
    BY <1>8 DEF IdentifyTimer
  <2>2. HelloWaits
    BY <2>1 DEF HelloFirst, IsOpen, socketVars
  <2> QED BY <2>1, <2>2, IdentifyBehindHello DEF socketVars
<1>9. CASE HeartbeatTick
  <2>1. CASE SendHeartbeat(inbox) /\ UNCHANGED <<timers, socketVars>>
    <3>1. HelloWaits
      BY <2>1 DEF HelloFirst, IsOpen, socketVars
    <3> QED BY <2>1, <3>1, HeartbeatBehindHello DEF SendHeartbeat, socketVars
  <2> QED BY <1>3, <1>9, <2>1 DEF HeartbeatTick, DisconnectResumable, CloseSocket
<1>10. ASSUME NEW k \in Sockets, ReceiveHello(k) PROVE FALSE
  BY <1>10 DEF ReceiveHello
<1>11. ASSUME NEW k \in Sockets, Receives(k, {"event", "ready", "resumed", "invalid", "ack", "beat"}),
              UNCHANGED <<socket, ws>>, Waiting
       PROVE  FALSE
  <2>1. k = socket
    BY <1>11 DEF Receives, OneSocket
  <2>2. HelloWaits
    BY <1>11 DEF HelloFirst, IsOpen
  <2> QED BY <1>11, <2>1, <2>2 DEF Receives, HelloWaits
<1>12. ASSUME NEW k \in Sockets, ReceiveDispatch(k) \/ ReceiveInvalid(k) \/ ReceiveAck(k)
       PROVE  FALSE
  BY <1>11, <1>12 DEF ReceiveDispatch, ReceiveInvalid, ReceiveAck, Receives, socketVars
<1>13. ASSUME NEW k \in Sockets, ReceiveBeat(k) PROVE FALSE
  BY <1>3, <1>11, <1>13 DEF ReceiveBeat, Receives, socketVars, CloseSocket
<1>14. ASSUME UNCHANGED <<socket, timers>>, ws'[socket] = ws[socket]
       PROVE  HelloWaits /\ IsOpen
  BY <1>14 DEF HelloFirst, IsOpen
<1>15. ASSUME NEW k \in Sockets, SocketCloses(k) PROVE HelloWaits'
  <2>1. ws' = [ws EXCEPT ![k] = "none"] /\ UNCHANGED socket
    BY <1>15 DEF SocketCloses
  <2>2. k # socket
    BY <1>0, <2>1
  <2>3. UNCHANGED timers
    BY <1>15, <2>2 DEF SocketCloses, OneSocket
  <2>4. inbox'[socket] = inbox[socket] /\ handler'[socket] = handler[socket]
    BY <1>0, <1>15, <2>1, <2>2 DEF SocketCloses, HandlersEnd
  <2>5. HelloWaits /\ IsOpen
    BY <1>14, <2>1, <2>2, <2>3
  <2> QED BY <2>1, <2>4, <2>5, HelloWaitsFrame
<1>16. ASSUME NEW k \in Sockets, SocketDenied(k) \/ SocketFails(k) PROVE FALSE
  <2>1. k = socket
    BY <1>16 DEF SocketDenied, SocketFails, Receives, OneSocket
  <2> QED BY <1>0, <1>16, <2>1 DEF SocketDenied, SocketFails
<1>17. ASSUME NEW k \in Sockets, SocketOpens(k) PROVE HelloWaits'
  <2>1. UNCHANGED <<socket, timers>>
    BY <1>17 DEF SocketOpens, clientVars
  <2>2. CASE k = socket
    <3>1. inbox'[socket] = <<Frame("hello", 0, 0)>>
      BY <1>0, <1>17, <2>2 DEF SocketOpens
    <3>2. inbox'[socket] # <<>> /\ Head(inbox'[socket]).t = "hello"
      BY <3>1 DEF Frame
    <3> QED BY <2>1, <3>2 DEF HelloWaits
  <2>3. CASE k # socket
    BY <1>14, <1>17, <2>1, <2>3, HelloWaitsFrame DEF SocketOpens
  <2> QED BY <2>2, <2>3
<1>18. ASSUME NEW k \in Sockets, SocketDrops(k) PROVE HelloWaits'
  <2>1. UNCHANGED <<socket, timers, ws>> /\ HelloWaits /\ IsOpen
    BY <1>14, <1>18 DEF SocketDrops, clientVars
  <2>2. socket \in Sockets
    BY <1>0, <2>1
  <2> QED BY <1>0, <1>18, <2>1, <2>2, HelloWaitsFrame DEF SocketDrops, HandlersEnd
<1>19. ASSUME NEW k \in Sockets, HandlerChecks(k) PROVE HelloWaits'
  <2>1. UNCHANGED <<socket, timers, ws>> /\ HelloWaits /\ IsOpen
    BY <1>14, <1>19 DEF HandlerChecks, clientVars
  <2>2. k \in Attached /\ socket \in Sockets
    BY <1>0, <1>19, <2>1 DEF HandlerChecks
  <2>3. CASE k = socket
    BY <1>0, <1>19, <2>1, <2>2, <2>3, HelloWaitsFrame DEF HandlerChecks, Attached
  <2>4. CASE k # socket
    BY <1>0, <1>19, <2>1, <2>2, <2>4, HelloWaitsFrame DEF HandlerChecks, HandlersEnd
  <2> QED BY <2>3, <2>4
<1>20. ASSUME NEW s \in Sessions, NEW t, SessionSends(s, t),
              UNCHANGED <<socket, timers, ws, handler>>
       PROVE  HelloWaits'
  <2>1. HelloWaits /\ IsOpen
    BY <1>14, <1>20
  <2>2. \/ inbox'[socket] = inbox[socket]
        \/ /\ handler[socket] # Gone
           /\ \E f : inbox'[socket] = Append(inbox[socket], f)
    BY <1>0, <1>20 DEF SessionSends, Attached
  <2> QED BY <1>20, <2>1, <2>2, HelloWaitsFrame
<1>21. ASSUME NEW s \in Sessions, SessionEvent(s) \/ SessionReadies(s) PROVE HelloWaits'
  BY <1>20, <1>21 DEF SessionEvent, SessionReadies, clientVars
<1>22. ASSUME NEW s \in Sessions, SessionEnds(s) PROVE HelloWaits'
  <2>1. UNCHANGED <<socket, timers, ws>> /\ HelloWaits /\ IsOpen
    BY <1>14, <1>22 DEF SessionEnds, clientVars
  <2>2. socket \in Sockets /\ ws[socket] = "open" /\ s # Gone
    BY <1>0, <2>1, SocketAssumption DEF Sessions, Gone, SocketAssumption
  <2>3. CASE handler[socket] = s
    <3>1. inbox'[socket] = Append(inbox[socket], Frame("invalid", 0, 0))
      BY <1>22, <2>2, <2>3 DEF SessionEnds, Attached
    <3> QED BY <2>1, <2>2, <2>3, <3>1, HelloWaitsFrame
  <2>4. CASE handler[socket] # s
    BY <1>22, <2>1, <2>2, <2>4, HelloWaitsFrame DEF SessionEnds
  <2> QED BY <2>3, <2>4
<1>23. CASE UNCHANGED vars
  BY <1>1, <1>23 DEF vars, socketVars, serverVars
<1> QED
  BY <1>4, <1>5, <1>6, <1>7, <1>8, <1>9, <1>10, <1>12, <1>13, <1>15, <1>16, <1>17, <1>18,
     <1>19, <1>21, <1>22, <1>23 DEF Next, Receive

LEMMA MovingStep ==
  Types /\ OneSocket /\ HelloFirst /\ Moving /\ [Next]_vars => Moving'
<1> SUFFICES ASSUME Types, OneSocket, HelloFirst, Moving, [Next]_vars PROVE Moving'
  OBVIOUS
<1>0. opening \in Nat
  BY DEF Types, SocketType
<1>1. ASSUME UNCHANGED <<state, opening>>, timers \ {"identify"} \subseteq timers' PROVE Moving'
  BY <1>1 DEF Moving
<1>2. ASSUME OpenConnection PROVE Moving'
  BY <1>0, <1>2 DEF OpenConnection, Moving
<1>3. ASSUME DisconnectResumable PROVE Moving'
  BY <1>3 DEF DisconnectResumable, StopHeartbeat, Moving
<1>4. CASE Connect \/ Reset \/ NetworkOffline \/ HelloTimeout \/ HeartbeatUnanswered
  BY <1>2, <1>3, <1>4 DEF Connect, Reset, NetworkOffline, HelloTimeout, HeartbeatUnanswered
<1>5. CASE Disconnect
  BY <1>5 DEF Disconnect, Moving
<1>6. CASE WindowPasses \/ IdentifyTimer
  BY <1>1, <1>6 DEF WindowPasses, IdentifyTimer, socketVars
<1>7. CASE ReconnectTimer
  <2>1. CASE state \in {"disconnected", "reconnecting"}
    BY <1>2, <1>7, <2>1 DEF ReconnectTimer
  <2>2. CASE state \notin {"disconnected", "reconnecting"}
    BY <1>7, <2>2 DEF ReconnectTimer, Moving, socketVars
  <2> QED BY <2>1, <2>2
<1>8. CASE UrlKnown
  BY <1>8 DEF UrlKnown, Moving
<1>9. ASSUME NEW keep, ConnectionFailure(keep) PROVE Moving'
  BY <1>9 DEF ConnectionFailure, Moving
<1>10. CASE UrlFails
  BY <1>9, <1>10 DEF UrlFails
<1>11. CASE HeartbeatTick
  BY <1>1, <1>3, <1>11 DEF HeartbeatTick, socketVars
<1>12. ASSUME NEW k \in Sockets, ReceiveHello(k) PROVE Moving'
  BY <1>12 DEF ReceiveHello, Moving, socketVars
<1>13. ASSUME NEW k \in Sockets, ReceiveDispatch(k) PROVE Moving'
  <2>1. UNCHANGED <<timers, opening>> /\ (state' = state \/ state' = "connected")
    BY <1>13 DEF ReceiveDispatch, socketVars
  <2>2. "heartbeat" \in timers
    <3>1. k = socket /\ ws[k] = "open" /\ inbox[k] # <<>> /\ Head(inbox[k]).t # "hello"
      BY <1>13 DEF ReceiveDispatch, Receives, OneSocket
    <3>2. socket # 0
      BY <3>1 DEF Sockets
    <3> QED BY <3>1, <3>2 DEF HelloFirst, HelloWaits, IsOpen
  <2> QED BY <2>1, <2>2 DEF Moving
<1>14. ASSUME NEW k \in Sockets, ReceiveInvalid(k) \/ ReceiveAck(k) PROVE Moving'
  BY <1>1, <1>14 DEF ReceiveInvalid, ReceiveAck, socketVars
<1>15. ASSUME NEW k \in Sockets, ReceiveBeat(k) PROVE Moving'
  <2>1. CASE IsOpen
    BY <1>1, <1>15, <2>1 DEF ReceiveBeat, socketVars
  <2>2. CASE ~IsOpen
    BY <1>15, <2>2 DEF ReceiveBeat, StopHeartbeat, Moving
  <2> QED BY <2>1, <2>2
<1>16. ASSUME NEW k \in Sockets, SocketCloses(k) PROVE Moving'
  BY <1>1, <1>9, <1>16 DEF SocketCloses
<1>17. ASSUME NEW k \in Sockets, SocketDenied(k) PROVE Moving'
  BY <1>17 DEF SocketDenied, Moving
<1>18. ASSUME NEW k \in Sockets, SocketFails(k) PROVE Moving'
  BY <1>9, <1>18 DEF SocketFails
<1>19. ASSUME UNCHANGED clientVars PROVE Moving'
  BY <1>1, <1>19 DEF clientVars
<1>20. ASSUME NEW k \in Sockets, SocketOpens(k) \/ SocketDrops(k) \/ HandlerChecks(k)
       PROVE  Moving'
  BY <1>19, <1>20 DEF SocketOpens, SocketDrops, HandlerChecks
<1>21. ASSUME NEW s \in Sessions, SessionEvent(s) \/ SessionReadies(s) \/ SessionEnds(s)
       PROVE  Moving'
  BY <1>19, <1>21 DEF SessionEvent, SessionReadies, SessionEnds
<1>22. CASE UNCHANGED vars
  BY <1>1, <1>22 DEF vars, socketVars
<1> QED
  BY <1>4, <1>5, <1>6, <1>7, <1>8, <1>10, <1>11, <1>12, <1>13, <1>14, <1>15, <1>16, <1>17,
     <1>18, <1>20, <1>21, <1>22 DEF Next, Receive

\* The client is connected only once HELLO is received, with no other URL awaited.
HelloOver == state = "connected" => opening = 0 /\ "hello" \notin timers

LEMMA HelloOverStep ==
  Types /\ OneSocket /\ HelloFirst /\ HelloOver /\ OneAwaited /\ [Next]_vars => HelloOver'
<1> SUFFICES ASSUME Types, OneSocket, HelloFirst, HelloOver, OneAwaited, [Next]_vars,
                    state' = "connected"
             PROVE  opening' = 0 /\ "hello" \notin timers'
  BY DEF HelloOver
<1>0. opening \in Nat /\ 0 \notin Sockets
  BY DEF Types, SocketType, Sockets
<1>1. ASSUME UNCHANGED <<state, opening>>, "hello" \in timers' => "hello" \in timers
      PROVE  opening' = 0 /\ "hello" \notin timers'
  BY <1>1 DEF HelloOver
<1>2. CASE Connect \/ Reset \/ NetworkOffline \/ HelloTimeout \/ HeartbeatUnanswered
  BY <1>2 DEF Connect, Reset, NetworkOffline, HelloTimeout, HeartbeatUnanswered, OpenConnection,
     DisconnectResumable
<1>3. CASE Disconnect
  BY <1>3 DEF Disconnect
<1>4. CASE WindowPasses \/ IdentifyTimer
  BY <1>1, <1>4 DEF WindowPasses, IdentifyTimer, socketVars
<1>5. CASE ReconnectTimer
  BY <1>1, <1>5 DEF ReconnectTimer, OpenConnection, socketVars
<1>6. CASE UrlKnown
  BY <1>0, <1>6 DEF UrlKnown, HelloOver
<1>7. ASSUME NEW keep, ConnectionFailure(keep) PROVE FALSE
  BY <1>7 DEF ConnectionFailure
<1>8. CASE UrlFails
  BY <1>7, <1>8 DEF UrlFails
<1>9. CASE HeartbeatTick
  BY <1>1, <1>9 DEF HeartbeatTick, DisconnectResumable, socketVars
<1>10. ASSUME NEW k \in Sockets, ReceiveHello(k)
       PROVE  opening' = 0 /\ "hello" \notin timers'
  BY <1>1, <1>10 DEF ReceiveHello, socketVars
<1>11. ASSUME NEW k \in Sockets, ReceiveDispatch(k)
       PROVE  opening' = 0 /\ "hello" \notin timers'
  <2>1. k = socket /\ socket # 0 /\ ws[k] = "open" /\ inbox[k] # <<>> /\ Head(inbox[k]).t # "hello"
    BY <1>0, <1>11 DEF ReceiveDispatch, Receives, OneSocket
  <2>2. "hello" \notin timers
    BY <2>1 DEF HelloFirst, HelloWaits, IsOpen
  <2>3. opening = 0
    BY <1>0, <2>1 DEF OneSocket, OneAwaited
  <2> QED BY <1>11, <2>2, <2>3 DEF ReceiveDispatch, socketVars
<1>12. ASSUME NEW k \in Sockets, ReceiveInvalid(k) \/ ReceiveAck(k) \/ ReceiveBeat(k)
       PROVE  opening' = 0 /\ "hello" \notin timers'
  BY <1>1, <1>12 DEF ReceiveInvalid, ReceiveAck, ReceiveBeat, socketVars
<1>13. ASSUME NEW k \in Sockets, SocketCloses(k) PROVE opening' = 0 /\ "hello" \notin timers'
  BY <1>1, <1>7, <1>13 DEF SocketCloses
<1>14. ASSUME NEW k \in Sockets, SocketDenied(k) \/ SocketFails(k) PROVE FALSE
  BY <1>7, <1>14 DEF SocketDenied, SocketFails
<1>15. CASE UNCHANGED clientVars
  BY <1>1, <1>15 DEF clientVars
<1>16. ASSUME NEW k \in Sockets, SocketOpens(k) \/ SocketDrops(k) \/ HandlerChecks(k)
       PROVE  UNCHANGED clientVars
  BY <1>16 DEF SocketOpens, SocketDrops, HandlerChecks
<1>17. ASSUME NEW s \in Sessions, SessionEvent(s) \/ SessionReadies(s) \/ SessionEnds(s)
       PROVE  UNCHANGED clientVars
  BY <1>17 DEF SessionEvent, SessionReadies, SessionEnds
<1>18. CASE UNCHANGED vars
  BY <1>1, <1>18 DEF vars, socketVars
<1> QED
  BY <1>2, <1>3, <1>4, <1>5, <1>6, <1>8, <1>9, <1>10, <1>11, <1>12, <1>13, <1>14, <1>15, <1>16,
     <1>17, <1>18 DEF Next, Receive

\* With at most one URL awaited.
LEMMA UnstrandedHolds == Spec /\ []OneAwaited => [](Unstranded /\ HelloOver)
<1>1. Init => Unstranded /\ HelloOver
  BY InitTypes DEF Init, Unstranded, OneSocket, HelloFirst, IsOpen, Moving, HelloOver
<1>2. Unstranded /\ HelloOver /\ OneAwaited /\ [Next]_vars => (Unstranded /\ HelloOver)'
  BY TypesStep, OneSocketStep, HelloFirstStep, MovingStep, HelloOverStep DEF Unstranded
<1> QED BY <1>1, <1>2, PTL DEF Spec

\* While at most one URL is awaited, a client that wants to be connected always
\* has a promise, a timer or heartbeats that move it on.
THEOREM NeverStrandedHolds == Spec /\ []OneAwaited => []NeverStranded
<1>1. Unstranded => NeverStranded
  BY DEF Unstranded, Moving, NeverStranded
<1> QED BY <1>1, UnstrandedHolds, PTL

\* While at most one URL is awaited, a connection that works is not given up or
\* replaced on account of an earlier one (connect, scheduleReconnect).
THEOREM ConnectionKeptHolds == Spec /\ []OneAwaited => ConnectionKept
<1> DEFINE Excused == \/ Disconnect \/ Reset \/ NetworkOffline \/ HeartbeatUnanswered
                      \/ state = "connecting" /\ HelloTimeout
                      \/ SocketCloses(socket) \/ SocketDenied(socket) \/ SocketFails(socket)
           Kept == Connects /\ Served /\ ~(Connects' /\ socket' = socket) => Excused
<1>1. Unstranded /\ HelloOver /\ OneAwaited /\ [Next]_vars => Kept
  <2> SUFFICES ASSUME Unstranded, HelloOver, OneAwaited, [Next]_vars, Connects, Served, ~Excused
               PROVE  Connects' /\ socket' = socket
    OBVIOUS
  <2>0. socket # 0 /\ opening = 0 /\ IsOpen
    BY DEF Unstranded, OneSocket, OneAwaited, Types, SocketType, Served, IsOpen
  <2>1. ASSUME UNCHANGED <<state, socket>> PROVE Connects' /\ socket' = socket
    BY <2>1 DEF Connects
  <2>2. ~Connect /\ ~UrlKnown /\ ~UrlFails
    BY <2>0 DEF Connect, UrlKnown, UrlFails, Connects
  <2>3. ~HelloTimeout
    BY DEF HelloTimeout, HelloOver, Connects
  <2>4. CASE WindowPasses \/ IdentifyTimer
    BY <2>1, <2>4 DEF WindowPasses, IdentifyTimer, socketVars
  <2>5. CASE ReconnectTimer
    BY <2>1, <2>5 DEF ReconnectTimer, Connects, socketVars
  <2>6. CASE HeartbeatTick
    BY <2>0, <2>1, <2>6 DEF HeartbeatTick, socketVars
  <2>7. ASSUME NEW k \in Sockets, Receive(k) PROVE Connects' /\ socket' = socket
    BY <2>0, <2>1, <2>7 DEF Receive, ReceiveHello, ReceiveDispatch, ReceiveInvalid, ReceiveAck,
       ReceiveBeat, Connects, socketVars
  <2>8. ASSUME NEW k \in Sockets, k # socket,
               SocketCloses(k) \/ SocketDenied(k) \/ SocketFails(k)
        PROVE  Connects' /\ socket' = socket
    <3>1. k \notin listening
      BY <2>8 DEF Unstranded, OneSocket
    <3> QED BY <2>1, <2>8, <3>1 DEF SocketCloses, SocketDenied, SocketFails, Receives
  <2>9. ASSUME NEW k \in Sockets, SocketOpens(k) \/ SocketDrops(k) \/ HandlerChecks(k)
        PROVE  Connects' /\ socket' = socket
    BY <2>1, <2>9 DEF SocketOpens, SocketDrops, HandlerChecks, clientVars
  <2>10. ASSUME NEW s \in Sessions, SessionEvent(s) \/ SessionReadies(s) \/ SessionEnds(s)
         PROVE  Connects' /\ socket' = socket
    BY <2>1, <2>10 DEF SessionEvent, SessionReadies, SessionEnds, clientVars
  <2>11. CASE UNCHANGED vars
    BY <2>1, <2>11 DEF vars, socketVars
  <2> QED BY <2>2, <2>3, <2>4, <2>5, <2>6, <2>7, <2>8, <2>9, <2>10, <2>11 DEF Next
<1>2. Unstranded /\ HelloOver /\ OneAwaited /\ [Next]_vars => [Kept]_vars
  BY <1>1
<1> QED BY <1>2, UnstrandedHolds, PTL DEF Spec, ConnectionKept

\* One connection at a time is opened if the limit is one, whatever the others are.
LEMMA OneAwaitedAlone == ASSUME MaxOpening = 1 PROVE Spec => []OneAwaited
<1>1. Init => OneAwaited
  BY DEF Init, OneAwaited
<1>2. Types /\ OneAwaited /\ [Next]_vars => OneAwaited'
  <2> SUFFICES ASSUME Types, OneAwaited, [Next]_vars PROVE OneAwaited'
    OBVIOUS
  <2>1. opening' \in Nat
    BY TypesStep DEF Types, SocketType
  <2>2. \/ opening' = opening
        \/ opening' = opening - 1
        \/ CanOpen /\ opening' = opening + 1
    BY SocketSteps DEF OpenConnection, UrlKnown, UrlFails
  <2> QED BY <2>1, <2>2 DEF CanOpen, OneAwaited, Types, SocketType
<1> QED BY <1>1, <1>2, TypesHold, PTL DEF Spec

\* As long as connections are opened one at a time, whatever the other limits.
THEOREM NeverStrandedAlone ==
  ASSUME MaxOpening = 1 PROVE Spec => []NeverStranded
BY NeverStrandedHolds, OneAwaitedAlone, PTL
=============================================================================
