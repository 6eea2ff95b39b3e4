------------------------ MODULE GatewayResume_proofs ------------------------
(***************************************************************************)
(* Theorems about GatewayResume, for every set of guilds, every buffer     *)
(* limit and every bound.                                                  *)
(***************************************************************************)
EXTENDS GatewayResume, FiniteSetTheorems, SequenceTheorems, TLAPS

-----------------------------------------------------------------------------
(* Messages and sequences.                                                 *)

Marks(m) == m.t \in {"ready", "resumed"}
Numbered(m) == m.t \in {"event", "ready", "resumed"}

LEMMA MessageType ==
  /\ \A n \in Nat : Event(n) \in Messages /\ GuildDelete(n) \in Messages
  /\ \A n \in Nat : Ready(n) \in Messages /\ Resumed(n) \in Messages
  /\ InvalidSession \in Messages /\ Close \in Messages
  /\ \A m \in Messages : m.t \in {"event", "leave", "ready", "resumed"} => m.s \in Nat
BY DEF Messages, Event, GuildDelete, Ready, Resumed, InvalidSession, Close

LEMMA MessageEqual ==
  /\ \A n \in Nat : Event(n).t = "event" /\ Event(n).s = n
  /\ \A n \in Nat : GuildDelete(n).t = "leave"
  /\ \A n \in Nat : Ready(n).t = "ready" /\ Ready(n).s = n
  /\ \A n \in Nat : Resumed(n).t = "resumed" /\ Resumed(n).s = n
  /\ InvalidSession.t = "invalid" /\ Close.t = "close"
  /\ \A m \in Messages : m.t = "event" => m = Event(m.s)
BY DEF Messages, Event, GuildDelete, Ready, Resumed, InvalidSession, Close

\* A sequence with one more element, without its first, and cut short.
LEMMA OneMore ==
  ASSUME NEW S, NEW q \in Seq(S), NEW m \in S
  PROVE  /\ q \o <<m>> \in Seq(S)
         /\ DOMAIN q = 1..Len(q) /\ Len(q) \in Nat
         /\ DOMAIN (q \o <<m>>) = 1..(Len(q) + 1)
         /\ \A i \in 1..Len(q) : (q \o <<m>>)[i] = q[i]
         /\ (q \o <<m>>)[Len(q) + 1] = m
<1>1. <<m>> \in Seq(S) /\ Len(<<m>>) = 1 /\ <<m>>[1] = m
  OBVIOUS
<1>2. Len(q) \in Nat /\ DOMAIN q = 1..Len(q)
  BY LenProperties
<1>3. /\ q \o <<m>> \in Seq(S)
      /\ Len(q \o <<m>>) = Len(q) + 1
      /\ \A i \in 1 .. Len(q) + 1 : (q \o <<m>>)[i] = IF i <= Len(q) THEN q[i] ELSE <<m>>[i - Len(q)]
  BY <1>1, ConcatProperties
<1> QED BY <1>1, <1>2, <1>3, LenProperties

LEMMA OneLess ==
  ASSUME NEW S, NEW q \in Seq(S), q # <<>>
  PROVE  /\ Tail(q) \in Seq(S)
         /\ Head(q) = q[1] /\ q[1] \in S
         /\ Len(q) \in Nat \ {0} /\ DOMAIN q = 1..Len(q)
         /\ DOMAIN Tail(q) = 1..(Len(q) - 1)
         /\ \A i \in 1..(Len(q) - 1) : Tail(q)[i] = q[i + 1]
BY HeadTailProperties, LenProperties, EmptySeq

LEMMA CutShort ==
  ASSUME NEW S, NEW q \in Seq(S), NEW k \in 0..Len(q)
  PROVE  /\ SubSeq(q, 1, k) \in Seq(S)
         /\ DOMAIN q = 1..Len(q) /\ Len(q) \in Nat
         /\ DOMAIN SubSeq(q, 1, k) = 1..k
         /\ \A i \in 1..k : SubSeq(q, 1, k)[i] = q[i]
<1>1. Len(q) \in Nat /\ DOMAIN q = 1..Len(q) /\ k \in Nat /\ \A i \in 1..k : q[i] \in S
  BY LenProperties, ElementOfSeq
<1>2. /\ SubSeq(q, 1, k) \in Seq(S)
      /\ Len(SubSeq(q, 1, k)) = IF 1 <= k THEN k - 1 + 1 ELSE 0
      /\ \A i \in 1 .. k - 1 + 1 : SubSeq(q, 1, k)[i] = q[1 + i - 1]
  BY <1>1, SubSeqProperties
<1> QED BY <1>1, <1>2, LenProperties

\* The replay of a finite set of numbers holds the event of each of them, and no
\* other message: an event of each rank exists, as the ranks are all different.
LEMMA ReplayOf ==
  ASSUME NEW M \in SUBSET Nat, IsFiniteSet(M)
  PROVE  /\ Replay(M) \in Seq(Messages)
         /\ \A i \in DOMAIN Replay(M) : \E n \in M : Replay(M)[i] = Event(n)
         /\ \A n \in M : \E i \in DOMAIN Replay(M) : Replay(M)[i] = Event(n)
<1> DEFINE Upto(n) == {m \in M : m <= n}
           f == [n \in M |-> Rank(n, M)]
           N == Cardinality(M)
<1>1. N \in Nat
  BY FS_CardinalityType
<1>2. ASSUME NEW n \in M
      PROVE  IsFiniteSet(Upto(n)) /\ Rank(n, M) \in 1..N
  <2>1. IsFiniteSet(Upto(n)) /\ Cardinality(Upto(n)) <= N
    BY FS_Subset
  <2>2. Cardinality(Upto(n)) \in Nat /\ (Cardinality(Upto(n)) = 0 <=> Upto(n) = {})
    BY <2>1, FS_CardinalityType, FS_EmptySet
  <2>3. n \in Upto(n)
    OBVIOUS
  <2>4. Rank(n, M) = Cardinality(Upto(n))
    BY DEF Rank
  <2> HIDE DEF Upto, N
  <2> QED BY <1>1, <2>1, <2>2, <2>3, <2>4 DEF N
<1>3. ASSUME NEW a \in M, NEW b \in M, a < b
      PROVE  Rank(a, M) # Rank(b, M)
  <2>1. \A k \in M : k <= a => k <= b
    BY <1>3
  <2>2. Upto(a) \subseteq Upto(b)
    BY <2>1
  <2>3. b \in Upto(b) /\ b \notin Upto(a)
    BY <1>3
  <2>4. Cardinality(Upto(a)) # Cardinality(Upto(b))
    BY <1>2, <2>2, <2>3, FS_Subset
  <2> QED BY <2>4 DEF Rank
<1>4. f \in Injection(M, 1..N)
  <2>1. f \in [M -> 1..N]
    BY <1>2
  <2>2. \A m, n \in M : f[m] = f[n] => m = n
    <3> SUFFICES ASSUME NEW m \in M, NEW n \in M, m # n PROVE f[m] # f[n]
      OBVIOUS
    <3> QED BY <1>3
  <2> QED BY <2>1, <2>2 DEF Injection, IsInjective
<1>5. \A i \in 1..N : \E n \in M : Rank(n, M) = i
  <2>1. IsFiniteSet(1..N) /\ Cardinality(1..N) = N
    BY <1>1, FS_Interval
  <2>2. f \in Surjection(M, 1..N)
    BY <1>4, <2>1, FS_Injection
  <2> QED BY <2>2 DEF Surjection
<1>6. \A m, n \in M : Rank(m, M) = Rank(n, M) => m = n
  BY <1>3
<1> DEFINE Of(i) == CHOOSE n \in M : Rank(n, M) = i
<1>7. \A i \in 1..N : Of(i) \in M /\ Rank(Of(i), M) = i
  BY <1>5
<1>8. Replay(M) = [i \in 1..N |-> Event(Of(i))]
  BY DEF Replay
<1>9. \A i \in 1..N : Event(Of(i)) \in Messages
  BY <1>7, MessageType
<1> HIDE DEF Of, N
<1>10. Replay(M) \in Seq(Messages) /\ DOMAIN Replay(M) = 1..N
  BY <1>1, <1>8, <1>9
<1>11. ASSUME NEW n \in M PROVE \E i \in DOMAIN Replay(M) : Replay(M)[i] = Event(n)
  <2>1. Rank(n, M) \in 1..N /\ Of(Rank(n, M)) = n
    BY <1>2, <1>6, <1>7
  <2> QED BY <1>8, <1>10, <2>1
<1>12. \A i \in DOMAIN Replay(M) : \E n \in M : Replay(M)[i] = Event(n)
  BY <1>7, <1>8, <1>10
<1> QED BY <1>10, <1>11, <1>12

-----------------------------------------------------------------------------
(* What a step can be, for the session and for what it sends.              *)

logVars == <<seq, ack, buffer, recorded>>
others == <<handlerVars, clientVars, req, refused>>

\* do_handle_dispatch numbers an event, keeps it and sends it.
Produces ==
  /\ up /\ up' = up
  /\ seq' = seq + 1
  /\ buffer' = buffer \union {seq + 1} /\ recorded' = recorded \union {seq + 1}
  /\ UNCHANGED <<ack, sock, ready, others>>
  /\ IF sock = NoSocket THEN link' = link ELSE Send(sock, <<Event(seq + 1)>>)

\* READY has a number and is not kept.
Readies ==
  /\ up /\ up' = up
  /\ ready /\ ready' = FALSE
  /\ seq' = seq + 1
  /\ sock # NoSocket
  /\ UNCHANGED <<ack, buffer, recorded, sock, others>>
  /\ Send(sock, <<Ready(seq + 1)>>)

\* Nothing is numbered: the session joins, ends, loses its socket, overflows,
\* or tells of a guild that was left.
Rests ==
  /\ UNCHANGED <<logVars, ready, clientVars, refused>>
  /\ up' => up
  /\ \/ sock' \in {sock, NoSocket} /\ UNCHANGED <<link, handlerVars, req>>
     \/ /\ sock # NoSocket /\ sock' = sock
        /\ Send(sock, <<GuildDelete(seq + 1)>>) /\ UNCHANGED <<handlerVars, req>>
     \/ sock # NoSocket /\ sock' = sock /\ SendBackpressure

LEMMA OneReady == Session!ReadyBatch = 1
BY DEF Session!ReadyBatch

\* Log is the part of the invariant about the session alone: what was recorded is
\* below seq, and what was not acknowledged is in the buffer.
Log ==
  /\ buffer \subseteq recorded
  /\ \A n \in recorded : 1 <= n /\ n <= seq
  /\ \A n \in recorded : n \in buffer \/ n <= ack

\* The steps of the session come down to these three.
LEMMA SessionSteps ==
  ASSUME TypeOK, Log, SessionNext
  PROVE  Produces \/ Readies \/ Rests
<1>1. seq \in Nat /\ seq + 1 # seq /\ seq + 1 \notin recorded
  BY DEF TypeOK, Session!TypeOK, Log
<1> DEFINE Kept == UNCHANGED <<up, sock, ready>>
<1>2. CASE SessionDispatches
  <2>1. up /\ Kept /\ (Session!Record \/ Session!Overflow)
    BY <1>2, Zenon DEF SessionDispatches, Session!Dispatch, Session!LoseGuild, Session!JoinGuild
  <2>2. Emit /\ UNCHANGED <<clientVars, refused>>
    BY <1>2, Zenon DEF SessionDispatches
  <2>3. CASE Session!Record
    <3>1. /\ seq' = seq + 1 /\ buffer' = buffer \union {seq + 1}
          /\ recorded' = recorded \union {seq + 1} /\ ack' = ack
      BY <2>3, Zenon DEF Session!Record
    <3>2. recorded' # recorded
      BY <1>1, <3>1
    <3>3. /\ IF sock = NoSocket THEN link' = link ELSE Send(sock, <<Event(seq')>>)
          /\ UNCHANGED <<handlerVars, req>>
      BY <2>2, <3>2, Zenon DEF Emit
    <3> QED BY <2>1, <2>2, <3>1, <3>3, Zenon DEF Produces, others
  <2>4. CASE Session!Overflow
    <3>1. UNCHANGED logVars
      BY <2>4, Zenon DEF Session!Overflow, Session!logVars, logVars
    <3>2. SendBackpressure \/ (sock = NoSocket /\ UNCHANGED <<link, handlerVars, req>>)
      BY <2>2, <3>1, Zenon DEF Emit, logVars
    <3>3. SendBackpressure => sock # NoSocket
      BY DEF SendBackpressure
    <3> QED BY <2>1, <2>2, <3>1, <3>2, <3>3, Zenon DEF Rests
  <2> QED BY <2>1, <2>3, <2>4
<1>3. CASE SessionReadies
  <2>1. up /\ ready /\ sock' = sock /\ (Session!EmitReady \/ UNCHANGED <<up, logVars, ready>>)
    BY <1>3, Zenon DEF SessionReadies, Session!BecomeReady, Session!JoinGuild, Session!logVars, logVars
  <2>2. /\ IF seq' = seq THEN link' = link ELSE Send(sock, <<Ready(seq + 1)>>)
        /\ UNCHANGED <<handlerVars, clientVars, req, refused>>
    BY <1>3, Zenon DEF SessionReadies
  <2>3. CASE seq' # seq
    <3>1. /\ sock # NoSocket /\ seq' = seq + 1 /\ ready' = FALSE
          /\ UNCHANGED <<up, ack, buffer, recorded>>
      BY <2>1, <2>3, OneReady, Zenon DEF Session!EmitReady, Session!logVars, logVars
    <3> QED BY <2>1, <2>2, <2>3, <3>1, Zenon DEF Readies, others
  <2>4. CASE seq' = seq
    <3>1. UNCHANGED <<logVars, ready>> /\ (up' => up)
      BY <1>1, <2>1, <2>4, OneReady, Zenon DEF Session!EmitReady, Session!logVars, logVars
    <3> QED BY <2>1, <2>2, <2>4, <3>1, Zenon DEF Rests
  <2> QED BY <2>3, <2>4
<1>4. CASE SessionLeaves
  <2>1. PICK g \in Guilds :
          /\ Session!LeaveGuild(g)
          /\ \/ SendBackpressure
             \/ sock = NoSocket /\ UNCHANGED <<link, handlerVars, req>>
             \/ /\ IF sock = NoSocket THEN link' = link ELSE Send(sock, <<GuildDelete(seq + 1)>>)
                /\ UNCHANGED <<handlerVars, req>>
          /\ UNCHANGED <<clientVars, refused>>
    BY <1>4, Zenon DEF SessionLeaves
  <2>2. up /\ UNCHANGED <<up, logVars, sock, ready>>
    BY <2>1, Zenon DEF Session!LeaveGuild, Session!logVars, logVars
  <2>3. SendBackpressure => sock # NoSocket
    BY DEF SendBackpressure
  <2> QED BY <2>1, <2>2, <2>3, Zenon DEF Rests
<1>5. CASE SessionSeesSocketDown
  BY <1>5, Zenon DEF SessionSeesSocketDown, Session!SocketDown, Session!logVars, logVars, Rests
<1>6. CASE SessionStops
  <2>1. (\E t \in timers : Session!ResumeTimeout(t)) \/ Session!TerminateForce \/ Session!Terminate
    BY <1>6, Zenon DEF SessionStops
  <2>2. up /\ UNCHANGED <<logVars, sock, ready>>
    BY <2>1, Zenon DEF Session!ResumeTimeout, Session!TerminateForce, Session!Terminate,
                       Session!Stop, Session!logVars, logVars
  <2>3. UNCHANGED <<handlerVars, clientVars, req, link, refused>>
    BY <1>6, Zenon DEF SessionStops
  <2> QED BY <2>2, <2>3, Zenon DEF Rests
<1> QED BY <1>2, <1>3, <1>4, <1>5, <1>6 DEF SessionNext

-----------------------------------------------------------------------------
(* Types.                                                                  *)

SessionFlags == up \in BOOLEAN /\ ready \in BOOLEAN /\ condemned \in BOOLEAN

SessionData ==
  /\ seq \in Nat /\ ack \in Nat /\ buffer \in SUBSET Nat /\ recorded \in SUBSET Nat
  /\ sock \in Conns \union {NoSocket}
  /\ joined \in SUBSET Guilds
  /\ timers \in SUBSET (1..downs)
  /\ downs \in Nat

Requested == [op : {"resume", "heartbeat"}, s : Nat]

HandlerType ==
  /\ handler \in [Conns -> {"none", "open", "awaiting", "dead"}]
  /\ att \in SUBSET Conns
  /\ reply \in [Conns -> Seq(Messages)]
  /\ req \in [Conns -> Seq(Requested)]

ClientFlags == csess \in BOOLEAN /\ misled \in BOOLEAN /\ refused \in BOOLEAN

ClientType ==
  /\ conn \in Conns
  /\ cstate \in {"connecting", "connected", "offline", "gone"}
  /\ cseq \in Nat
  /\ got \in SUBSET Nat

LEMMA TypeParts ==
  TypeOK <=> /\ SessionFlags /\ SessionData /\ HandlerType /\ ClientFlags /\ ClientType
             /\ link \in Seq(Messages)
BY Zenon DEF TypeOK, Session!TypeOK, SessionFlags, SessionData, HandlerType, ClientFlags,
             ClientType, Requested

\* What Send makes of the link.
LEMMA Sent ==
  ASSUME link \in Seq(Messages), NEW m \in Messages, NEW c, Send(c, <<m>>)
  PROVE  /\ link' \in Seq(Messages)
         /\ link' = link \/ (Reaches(c) /\ link' = link \o <<m>>)
         /\ Reaches(c) => link' = link \o <<m>>
BY OneMore DEF Send

\* A resume or a heartbeat that waits at a handler.
LEMMA FirstRequest ==
  ASSUME HandlerType, NEW c \in Conns, NEW op, Pending(c, op)
  PROVE  /\ handler[c] = "open" /\ req[c] \in Seq(Requested) /\ req[c] # <<>>
         /\ Head(req[c]) = req[c][1] /\ 1 \in DOMAIN req[c]
         /\ req[c][1].op = op /\ req[c][1].s \in Nat
<1>1. req[c] \in Seq(Requested) /\ req[c] # <<>>
  BY DEF Pending, HandlerType
<1>2. Head(req[c]) = req[c][1] /\ 1 \in DOMAIN req[c] /\ req[c][1] \in Requested
  BY <1>1, OneLess
<1> QED BY <1>1, <1>2 DEF Pending, Requested

\* The session's own variables.
LEMMA SessionStep ==
  ASSUME TypeOK, Next
  PROVE  \/ SessionNext
         \/ \E c \in Conns : Pending(c, "heartbeat") /\ Session!HeartbeatAck(req[c][1].s)
         \/ \E c \in Conns : Pending(c, "resume") /\ Session!Resume(req[c][1].s, c)
         \/ UNCHANGED sessionVars
<1>1. HandlerType
  BY TypeParts
<1>2. CASE ClientNext
  BY <1>2, Zenon DEF ClientNext, Receive, LoseConnection, Reconnect, GiveUp, SendHeartbeat
<1>3. ASSUME NEW c \in Conns, HandleHeartbeat(c) \/ HeartbeatTimesOut(c)
      PROVE  (Pending(c, "heartbeat") /\ Session!HeartbeatAck(req[c][1].s)) \/ UNCHANGED sessionVars
  <2>1. Pending(c, "heartbeat")
    BY <1>3 DEF HandleHeartbeat, HeartbeatTimesOut
  <2>2. Head(req[c]) = req[c][1]
    BY <1>1, <2>1, FirstRequest
  <2> QED BY <1>3, <2>1, <2>2, Zenon DEF HandleHeartbeat, HeartbeatTimesOut
<1>4. ASSUME NEW c \in Conns, HandleResume(c)
      PROVE  (Pending(c, "resume") /\ Session!Resume(req[c][1].s, c)) \/ UNCHANGED sessionVars
  <2>1. Pending(c, "resume")
    BY <1>4 DEF HandleResume
  <2>2. Head(req[c]) = req[c][1]
    BY <1>1, <2>1, FirstRequest
  <2> QED BY <1>4, <2>1, <2>2, Zenon DEF HandleResume
<1>5. ASSUME NEW c \in Conns, FinishResume(c) \/ HandleSessionDown(c) \/ HandlerDies(c)
      PROVE  UNCHANGED sessionVars
  BY <1>5, Zenon DEF FinishResume, HandleSessionDown, HandlerDies
<1> QED BY <1>2, <1>3, <1>4, <1>5, Zenon DEF Next, HandlerNext

\* Its steps keep the types of the session.
LEMMA SessionTypeKept == TypeOK /\ [Next]_vars => Session!TypeOK'
<1> SUFFICES ASSUME TypeOK, [Next]_vars PROVE SessionFlags' /\ SessionData'
  BY Zenon DEF Session!TypeOK, SessionFlags, SessionData
<1>1. SessionFlags /\ SessionData /\ HandlerType
  BY TypeParts
<1>2. ASSUME NEW c \in Conns, Session!HeartbeatAck(req[c][1].s), Pending(c, "heartbeat")
      PROVE  SessionFlags' /\ SessionData'
  <2>1. req[c][1].s \in Nat
    BY <1>1, <1>2, FirstRequest
  <2>2. SessionFlags'
    BY <1>1, <1>2, Zenon DEF Session!HeartbeatAck, SessionFlags
  <2> QED BY <1>1, <1>2, <2>1, <2>2 DEF Session!HeartbeatAck, SessionData
<1>3. ASSUME NEW c \in Conns, Session!Resume(req[c][1].s, c)
      PROVE  SessionFlags' /\ SessionData'
  <2>1. SessionFlags'
    BY <1>1, <1>3, Zenon DEF Session!Resume, Session!logVars, SessionFlags
  <2> QED BY <1>1, <1>3, <2>1 DEF Session!Resume, Session!logVars, SessionData
<1>4. ASSUME \/ Session!Dispatch \/ Session!BecomeReady
             \/ \E g \in Guilds : Session!LoseGuild(g) \/ Session!JoinGuild(g)
      PROVE  SessionFlags' /\ SessionData'
  <2> USE DEF Session!Dispatch, Session!BecomeReady, Session!LoseGuild, Session!JoinGuild
  <2>1. SessionFlags'
    BY <1>1, <1>4, Zenon DEF SessionFlags, Session!logVars, Session!Record, Session!Overflow,
                             Session!EmitReady
  <2>2. /\ Session!Record \/ Session!EmitReady \/ Session!Overflow \/ UNCHANGED Session!logVars
        /\ UNCHANGED <<sock, timers, downs>>
    BY <1>4, Zenon
  <2>3. \/ joined' = joined
        \/ \E g \in Guilds : joined' = joined \cup {g} \/ joined' = joined \ {g}
    BY <1>4, Zenon
  <2>4. \/ /\ seq' = seq + 1 /\ ack' = ack
           /\ buffer' = buffer \cup {seq + 1} /\ recorded' = recorded \cup {seq + 1}
        \/ (seq' = seq + 1 \/ seq' = seq) /\ UNCHANGED <<ack, buffer, recorded>>
    BY <2>2, OneReady, Zenon DEF Session!Record, Session!EmitReady, Session!Overflow, Session!logVars
  <2>5. seq' \in Nat /\ ack' \in Nat /\ buffer' \in SUBSET Nat /\ recorded' \in SUBSET Nat
    <3>1. seq + 1 \in Nat /\ seq \in Nat /\ ack \in Nat /\ buffer \in SUBSET Nat /\ recorded \in SUBSET Nat
      BY <1>1 DEF SessionData
    <3>2. buffer \cup {seq + 1} \in SUBSET Nat /\ recorded \cup {seq + 1} \in SUBSET Nat
      BY <3>1
    <3> QED BY <2>4, <3>1, <3>2, Zenon
  <2>6. joined' \in SUBSET Guilds
    BY <1>1, <2>3 DEF SessionData
  <2> QED BY <1>1, <2>1, <2>2, <2>5, <2>6 DEF SessionData
<1>5. ASSUME NEW g \in Guilds, Session!LeaveGuild(g)
      PROVE  SessionFlags' /\ SessionData'
  <2>1. SessionFlags'
    BY <1>1, <1>5, Zenon DEF Session!LeaveGuild, Session!logVars, SessionFlags
  <2> QED BY <1>1, <1>5, <2>1 DEF Session!LeaveGuild, Session!logVars, SessionData
<1>6. CASE Session!SocketDown
  <2>1. SessionFlags'
    BY <1>1, <1>6, Zenon DEF Session!SocketDown, Session!logVars, SessionFlags
  <2> QED BY <1>1, <1>6, <2>1 DEF Session!SocketDown, Session!logVars, SessionData
<1>7. ASSUME \/ \E t \in timers : Session!ResumeTimeout(t)
             \/ Session!TerminateForce \/ Session!Terminate
      PROVE  SessionFlags' /\ SessionData'
  <2> USE DEF Session!ResumeTimeout, Session!TerminateForce, Session!Terminate, Session!Stop,
              Session!logVars
  <2>1. SessionFlags'
    BY <1>1, <1>7, Zenon DEF SessionFlags
  <2> QED BY <1>1, <1>7, <2>1 DEF SessionData
<1>8. CASE UNCHANGED sessionVars
  <2>1. SessionFlags'
    BY <1>1, <1>8, Zenon DEF sessionVars, SessionFlags
  <2> QED BY <1>1, <1>8, <2>1 DEF sessionVars, SessionData
<1>9. CASE SessionNext
  <2>1. \/ Session!Dispatch \/ Session!BecomeReady
        \/ \E g \in Guilds : Session!LoseGuild(g) \/ Session!JoinGuild(g)
        \/ \E g \in Guilds : Session!LeaveGuild(g)
        \/ Session!SocketDown
        \/ \E t \in timers : Session!ResumeTimeout(t)
        \/ Session!TerminateForce \/ Session!Terminate
    BY <1>9, Zenon DEF SessionNext, SessionDispatches, SessionReadies, SessionLeaves,
                       SessionSeesSocketDown, SessionStops
  <2> QED BY <2>1, <1>4, <1>5, <1>6, <1>7
<1>10. CASE UNCHANGED vars
  BY <1>8, <1>10 DEF vars
<1> QED BY <1>2, <1>3, <1>8, <1>9, <1>10, SessionStep

-----------------------------------------------------------------------------
(* What a step can be.  All later proofs split on these cases: the session *)
(* sends a numbered message, a client claims a session again, the handler  *)
(* takes it back and replays, the client takes a message, opens a          *)
(* connection or sends a heartbeat, or the step is quiet.                  *)

\* The session takes the client back on the connection that asked for it.
Resumes(c) ==
  /\ Pending(c, "resume")
  /\ up /\ req[c][1].s <= seq
  /\ sock' = c
  /\ req' = [req EXCEPT ![c] = Tail(@)]
  /\ reply' = [reply EXCEPT ![c] = ResumeReply(req[c][1].s)]
  /\ handler' = [handler EXCEPT ![c] = "awaiting"]
  /\ UNCHANGED <<up, logVars, ready, att, link, refused, clientVars>>

\* The client takes a numbered message or a guild_delete.
Takes ==
  /\ Online
  /\ link # <<>>
  /\ link[1].t \in {"event", "leave", "ready", "resumed"}
  /\ link' = Tail(link)
  /\ cseq' = Advanced(link[1])
  /\ cstate' = IF Marks(link[1]) THEN "connected" ELSE cstate
  /\ csess' = (csess \/ link[1].t = "ready")
  /\ got' = IF link[1].t = "event" THEN got \cup {link[1].s} ELSE got
  /\ misled' = (misled \/ (link[1].t = "leave" /\ cseq' # cseq))
  /\ UNCHANGED <<conn, sessionVars, handlerVars, req, refused>>

\* Any other step numbers nothing and takes nothing: the session may accept an
\* acknowledgement, end or lose its socket; handlers and requests go away; the
\* client may go offline or give up; the link may be cut short or get a message
\* without a number.
Acknowledges ==
  \E c \in Conns :
    /\ req[c] # <<>>
    /\ ack <= req[c][1].s
    /\ ack' = req[c][1].s
    /\ buffer' = {n \in buffer : n > req[c][1].s}

QuietSession ==
  /\ UNCHANGED <<seq, recorded, ready>>
  /\ up' => up
  /\ sock' \in {sock, NoSocket}
  /\ UNCHANGED <<ack, buffer>> \/ Acknowledges

QuietHandlers ==
  /\ HandlerType'
  /\ att' \subseteq att
  /\ \A c \in Conns :
       /\ \/ handler'[c] = handler[c] /\ reply'[c] = reply[c]
          \/ handler'[c] = "dead" /\ (handler[c] # "none" \/ c = sock)
       /\ \/ req'[c] = req[c]
          \/ req[c] # <<>> /\ req'[c] = Tail(req[c])
          \/ req'[c] = <<>>

QuietClient ==
  /\ UNCHANGED <<conn, got, misled>>
  /\ \/ UNCHANGED <<cstate, cseq, csess>>
     \/ cstate' = "offline" /\ Online /\ link' = <<>> /\ UNCHANGED <<cseq, csess>>
     \/ cstate' = "gone" /\ csess' = FALSE /\ cseq' = 0 /\ link' = <<>>

QuietLink ==
  /\ link' \in Seq(Messages)
  /\ \A i \in DOMAIN link' :
       \/ i \in DOMAIN link /\ link'[i] = link[i]
       \/ i \notin DOMAIN link /\ link'[i].t \notin {"event", "ready", "resumed"}
  /\ \/ DOMAIN link \subseteq DOMAIN link'
     \/ cstate' \in {"offline", "gone"}
     \/ handler'[conn] = "dead"
  /\ ~Online => link' \in {link, <<>>}

QuietReplies ==
  /\ refused' \in BOOLEAN
  /\ refused' => refused \/ \E c \in Conns : Pending(c, "resume") /\ seq < req[c][1].s

Quiet == QuietSession /\ QuietHandlers /\ QuietClient /\ QuietLink /\ QuietReplies

\* What becomes of handlers and requests.
LEMMA Death ==
  ASSUME HandlerType, NEW c \in Conns, Dies(c), handler[c] # "none" \/ c = sock
  PROVE  QuietHandlers /\ handler'[c] = "dead"
<1>1. <<>> \in Seq(Messages) /\ <<>> \in Seq(Requested)
  OBVIOUS
<1>2. HandlerType'
  BY <1>1 DEF HandlerType, Dies
<1> QED BY <1>2 DEF HandlerType, Dies, QuietHandlers

LEMMA Consumed ==
  ASSUME HandlerType, NEW c \in Conns, req[c] # <<>>, Consume(c), UNCHANGED handlerVars
  PROVE  QuietHandlers
<1>1. Tail(req[c]) \in Seq(Requested)
  BY OneLess DEF HandlerType
<1>2. UNCHANGED <<handler, att, reply>>
  BY DEF handlerVars
<1>3. HandlerType'
  BY <1>1, <1>2 DEF HandlerType, Consume
<1> QED BY <1>2, <1>3 DEF HandlerType, Consume, QuietHandlers

LEMMA Untouched ==
  ASSUME HandlerType, UNCHANGED <<handlerVars, req>>
  PROVE  QuietHandlers
<1>1. UNCHANGED <<handler, att, reply, req>>
  BY DEF handlerVars
<1> QED BY <1>1, Zenon DEF HandlerType, QuietHandlers

\* What becomes of the link.
LEMMA SentPlain ==
  ASSUME link \in Seq(Messages), NEW c, NEW m \in Messages, Send(c, <<m>>),
         m.t \notin {"event", "ready", "resumed"}
  PROVE  QuietLink
<1>1. CASE link' = link
  BY <1>1 DEF QuietLink
<1>2. CASE Reaches(c) /\ link' = link \o <<m>>
  <2>1. /\ link' \in Seq(Messages) /\ DOMAIN link = 1..Len(link) /\ Len(link) \in Nat
        /\ DOMAIN link' = 1..(Len(link) + 1)
        /\ \A i \in 1..Len(link) : link'[i] = link[i]
        /\ link'[Len(link) + 1] = m
    BY <1>2, OneMore
  <2>2. Online
    BY <1>2 DEF Reaches
  <2> QED BY <2>1, <2>2 DEF QuietLink
<1> QED BY <1>1, <1>2, Sent

LEMMA SameLink ==
  ASSUME link \in Seq(Messages), link' = link
  PROVE  QuietLink
BY DEF QuietLink

LEMMA EmptyLink ==
  ASSUME link' = <<>>, cstate' \in {"offline", "gone"}
  PROVE  QuietLink
BY DEF QuietLink

LEMMA ShorterLink ==
  ASSUME link \in Seq(Messages), Online, handler'[conn] = "dead",
         NEW k \in 0..Len(link), link' = SubSeq(link, 1, k)
  PROVE  QuietLink
<1>1. /\ link' \in Seq(Messages)
      /\ DOMAIN link = 1..Len(link) /\ Len(link) \in Nat
      /\ DOMAIN link' = 1..k
      /\ \A i \in 1..k : link'[i] = link[i]
  BY CutShort
<1> QED BY <1>1 DEF QuietLink

\* A handler that closes with INVALID_SEQ.
LEMMA Closing ==
  ASSUME TypeOK, NEW c \in Conns, NEW op, Pending(c, op), CloseInvalidSeq(c), UNCHANGED clientVars
  PROVE  /\ QuietHandlers /\ QuietClient /\ QuietLink
         /\ refused' = (refused \/ op = "resume")
<1>1. HandlerType /\ link \in Seq(Messages)
  BY TypeParts
<1>2. handler[c] = "open" /\ Head(req[c]).op = op
  BY DEF Pending
<1>3. Send(c, <<Close>>) /\ Dies(c) /\ refused' = (refused \/ op = "resume")
  BY <1>2, Zenon DEF CloseInvalidSeq
<1>4. QuietHandlers
  BY <1>1, <1>2, <1>3, Death
<1>5. QuietLink
  BY <1>1, <1>3, SentPlain, MessageType, MessageEqual
<1>6. QuietClient
  BY Zenon DEF clientVars, QuietClient
<1> QED BY <1>3, <1>4, <1>5, <1>6

\* The session takes an acknowledgement.
LEMMA Acknowledging ==
  ASSUME TypeOK, NEW c \in Conns, Pending(c, "heartbeat"), Session!HeartbeatAck(Head(req[c]).s)
  PROVE  QuietSession
<1>1. HandlerType
  BY TypeParts
<1>2. req[c] # <<>> /\ req[c][1] = Head(req[c]) /\ req[c][1].s \in Nat
  BY <1>1, FirstRequest
<1>3. Session!HeartbeatAck(req[c][1].s)
  BY <1>2
<1>4. /\ req[c][1].s >= ack /\ ack' = req[c][1].s
      /\ buffer' = {n \in buffer : n > req[c][1].s}
      /\ up /\ UNCHANGED <<up, seq, recorded, sock, ready>>
  BY <1>3, Zenon DEF Session!HeartbeatAck, Session!AckAccepted
<1>5. ack <= req[c][1].s
  BY <1>2, <1>4, TypeParts DEF SessionData
<1> QED BY <1>2, <1>4, <1>5, Zenon DEF QuietSession, Acknowledges

LEMMA SameSession ==
  ASSUME UNCHANGED sessionVars
  PROVE  QuietSession
BY Zenon DEF sessionVars, QuietSession

LEMMA SameClient ==
  ASSUME UNCHANGED clientVars
  PROVE  QuietClient
BY Zenon DEF clientVars, QuietClient

LEMMA SameReplies ==
  ASSUME TypeOK, refused' = refused
  PROVE  QuietReplies
BY TypeParts, Zenon DEF ClientFlags, QuietReplies

LEMMA RestsQuietly == TypeOK /\ Rests => Quiet
<1> SUFFICES ASSUME TypeOK, Rests PROVE Quiet
  OBVIOUS
<1>1. HandlerType /\ SessionData /\ link \in Seq(Messages)
  BY TypeParts
<1>2. QuietClient /\ QuietReplies
  BY SameClient, SameReplies, Zenon DEF Rests
<1>3. QuietSession
  BY Zenon DEF Rests, logVars, QuietSession
<1>4. CASE UNCHANGED <<link, handlerVars, req>>
  BY <1>1, <1>2, <1>3, <1>4, Untouched, SameLink, Zenon DEF Quiet
<1>5. CASE Send(sock, <<GuildDelete(seq + 1)>>) /\ UNCHANGED <<handlerVars, req>>
  <2>1. GuildDelete(seq + 1) \in Messages /\ GuildDelete(seq + 1).t = "leave"
    BY <1>1, MessageType, MessageEqual DEF SessionData
  <2>2. QuietLink
    BY <1>1, <1>5, <2>1, SentPlain
  <2> QED BY <1>1, <1>2, <1>3, <1>5, <2>2, Untouched, Zenon DEF Quiet
<1>6. CASE sock # NoSocket /\ SendBackpressure
  <2>1. sock \in Conns /\ Send(sock, <<Close>>) /\ Dies(sock)
    BY <1>1, <1>6 DEF SessionData, SendBackpressure
  <2>2. QuietLink
    BY <1>1, <2>1, SentPlain, MessageType, MessageEqual
  <2>3. QuietHandlers
    BY <1>1, <2>1, Death
  <2> QED BY <1>2, <1>3, <2>2, <2>3 DEF Quiet
<1> QED BY <1>4, <1>5, <1>6, Zenon DEF Rests

\* What a handler does.
LEMMA HandlerSteps ==
  ASSUME TypeOK, NEW c \in Conns, HandlerNext(c)
  PROVE  Resumes(c) \/ FinishResume(c) \/ Quiet
<1>1. HandlerType /\ SessionData /\ link \in Seq(Messages)
  BY TypeParts
<1>2. CASE HandleHeartbeat(c)
  <2>1. Pending(c, "heartbeat") /\ QuietClient
    BY <1>2, SameClient, Zenon DEF HandleHeartbeat
  <2>2. req[c] # <<>>
    BY <2>1 DEF Pending
  <2>3. CASE Consume(c) /\ UNCHANGED <<sessionVars, handlerVars, link, refused>>
    <3>1. QuietSession /\ QuietHandlers /\ QuietLink /\ QuietReplies
      BY <1>1, <2>2, <2>3, SameSession, Consumed, SameLink, SameReplies, Zenon
    <3> QED BY <2>1, <3>1 DEF Quiet
  <2>4. CASE /\ Session!HeartbeatAck(Head(req[c]).s) /\ Consume(c)
             /\ UNCHANGED <<handlerVars, link, refused>>
    <3>1. QuietSession /\ QuietHandlers /\ QuietLink /\ QuietReplies
      BY <1>1, <2>1, <2>2, <2>4, Acknowledging, Consumed, SameLink, SameReplies, Zenon
    <3> QED BY <2>1, <3>1 DEF Quiet
  <2>5. CASE CloseInvalidSeq(c) /\ UNCHANGED sessionVars
    <3>1. UNCHANGED clientVars
      BY <1>2, Zenon DEF HandleHeartbeat
    <3>2. QuietHandlers /\ QuietLink /\ refused' = (refused \/ "heartbeat" = "resume")
      BY <2>1, <2>5, <3>1, Closing
    <3>3. QuietReplies
      BY <3>2 DEF QuietReplies
    <3> QED BY <2>1, <2>5, <3>2, <3>3, SameSession DEF Quiet
  <2> QED BY <1>2, <2>3, <2>4, <2>5, Zenon DEF HandleHeartbeat
<1>3. CASE HeartbeatTimesOut(c)
  <2>1. /\ Pending(c, "heartbeat") /\ CloseInvalidSeq(c) /\ UNCHANGED clientVars
        /\ Session!HeartbeatAck(Head(req[c]).s)
    BY <1>3, Zenon DEF HeartbeatTimesOut
  <2>2. QuietHandlers /\ QuietLink /\ QuietClient /\ refused' = (refused \/ "heartbeat" = "resume")
    BY <2>1, Closing
  <2>3. QuietReplies
    BY <2>2 DEF QuietReplies
  <2> QED BY <2>1, <2>2, <2>3, Acknowledging DEF Quiet
<1>4. CASE HandleResume(c)
  <2>1. Pending(c, "resume") /\ UNCHANGED clientVars
    BY <1>4, Zenon DEF HandleResume
  <2>2. req[c] # <<>> /\ Head(req[c]) = req[c][1] /\ req[c][1].s \in Nat
    BY <1>1, <2>1, FirstRequest
  <2>3. CASE Consume(c) /\ Send(c, <<InvalidSession>>) /\ UNCHANGED <<sessionVars, handlerVars, refused>>
    <3>1. QuietLink
      BY <1>1, <2>3, SentPlain, MessageType, MessageEqual
    <3>2. QuietSession /\ QuietHandlers /\ QuietReplies /\ QuietClient
      BY <1>1, <2>1, <2>2, <2>3, SameSession, Consumed, SameReplies, SameClient, Zenon
    <3> QED BY <3>1, <3>2 DEF Quiet
  <2>4. CASE ~Session!ResumeAccepted(Head(req[c]).s) /\ CloseInvalidSeq(c) /\ UNCHANGED sessionVars
    <3>1. QuietHandlers /\ QuietLink /\ QuietClient /\ refused' = (refused \/ "resume" = "resume")
      BY <2>1, <2>4, Closing
    <3>2. seq < req[c][1].s
      BY <1>1, <2>2, <2>4 DEF Session!ResumeAccepted, SessionData
    <3>3. QuietReplies
      BY <2>1, <3>1, <3>2 DEF QuietReplies
    <3> QED BY <2>4, <3>1, <3>3, SameSession DEF Quiet
  <2>5. CASE /\ Session!Resume(Head(req[c]).s, c) /\ Consume(c)
             /\ reply' = [reply EXCEPT ![c] = ResumeReply(Head(req[c]).s)]
             /\ SetHandler(c, "awaiting") /\ UNCHANGED <<att, link, refused>>
    BY <2>1, <2>2, <2>5, Zenon DEF Session!Resume, Session!ResumeAccepted, Session!logVars, logVars,
                             Consume, SetHandler, Resumes
  <2> QED BY <1>4, <2>3, <2>4, <2>5, Zenon DEF HandleResume
<1>5. CASE HandleSessionDown(c)
  <2>1. /\ Send(c, <<InvalidSession>>) /\ att' = att \ {c}
        /\ UNCHANGED <<sessionVars, handler, reply, clientVars, req, refused>>
    BY <1>5, Zenon DEF HandleSessionDown
  <2>2. QuietLink
    BY <1>1, <2>1, SentPlain, MessageType, MessageEqual
  <2>3. QuietHandlers
    BY <1>1, <2>1 DEF HandlerType, QuietHandlers
  <2> QED BY <2>1, <2>2, <2>3, SameSession, SameClient, SameReplies, Zenon DEF Quiet
<1>6. CASE HandlerDies(c)
  <2>1. /\ handler[c] \in {"open", "awaiting"} /\ Dies(c)
        /\ UNCHANGED <<sessionVars, clientVars, refused>>
        /\ IF Reaches(c) THEN \E k \in 0..Len(link) : link' = SubSeq(link, 1, k) ELSE link' = link
    BY <1>6, Zenon DEF HandlerDies
  <2>2. QuietHandlers /\ handler'[c] = "dead"
    BY <1>1, <2>1, Death
  <2>3. QuietLink
    <3>1. CASE Reaches(c)
      <4>1. Online /\ handler'[conn] = "dead"
        BY <2>2, <3>1 DEF Reaches
      <4> QED BY <1>1, <2>1, <3>1, <4>1, ShorterLink
    <3>2. CASE ~Reaches(c)
      BY <1>1, <2>1, <3>2, SameLink
    <3> QED BY <3>1, <3>2
  <2> QED BY <2>1, <2>2, <2>3, SameSession, SameClient, SameReplies, Zenon DEF Quiet
<1> QED BY <1>2, <1>3, <1>4, <1>5, <1>6, Zenon DEF HandlerNext

\* What the client does.
LEMMA ClientSteps ==
  ASSUME TypeOK, ClientNext
  PROVE  Takes \/ Reconnect \/ SendHeartbeat \/ Quiet
<1>1. HandlerType /\ SessionData /\ ClientType /\ link \in Seq(Messages)
  BY TypeParts
<1> DEFINE Rest == UNCHANGED <<sessionVars, handlerVars, req, refused>>
<1>2. ASSUME GoOffline, Online, Rest PROVE Quiet
  <2>1. QuietClient /\ QuietLink
    BY <1>2, EmptyLink DEF GoOffline, QuietClient
  <2> QED BY <1>1, <1>2, <2>1, SameSession, Untouched, SameReplies, Zenon DEF Quiet
<1>3. ASSUME Abandon, Rest PROVE Quiet
  <2>1. QuietClient /\ QuietLink
    BY <1>3, EmptyLink DEF Abandon, QuietClient
  <2> QED BY <1>1, <1>3, <2>1, SameSession, Untouched, SameReplies, Zenon DEF Quiet
<1>4. CASE Receive
  <2>1. Online /\ link # <<>> /\ Rest
    BY <1>4, Zenon DEF Receive
  <2>2. Head(link) = link[1]
    BY <1>1, <2>1, OneLess
  <2> DEFINE m == link[1]
  <2>3. \/ Abandon
        \/ GoOffline
        \/ /\ m.t \in {"event", "leave", "ready", "resumed"}
           /\ link' = Tail(link)
           /\ cseq' = Advanced(m)
           /\ cstate' = IF m.t \in {"ready", "resumed"} THEN "connected" ELSE cstate
           /\ csess' = (csess \/ m.t = "ready")
           /\ got' = IF m.t = "event" THEN got \cup {m.s} ELSE got
           /\ misled' = (misled \/ (m.t = "leave" /\ cseq' # cseq))
           /\ UNCHANGED conn
    BY <1>4, <2>2, Zenon DEF Receive
  <2> QED BY <1>2, <1>3, <2>1, <2>3, Zenon DEF Takes, Marks
<1>5. CASE LoseConnection
  BY <1>2, <1>5, Zenon DEF LoseConnection
<1>6. CASE GiveUp
  BY <1>3, <1>6, Zenon DEF GiveUp
<1> QED BY <1>4, <1>5, <1>6 DEF ClientNext

LEMMA Steps ==
  ASSUME TypeOK, Log, [Next]_vars
  PROVE  \/ Produces
         \/ Readies
         \/ \E c \in Conns : Resumes(c) \/ FinishResume(c)
         \/ Takes
         \/ Reconnect
         \/ SendHeartbeat
         \/ Quiet
<1>1. CASE SessionNext
  BY <1>1, SessionSteps, RestsQuietly
<1>2. CASE UNCHANGED vars
  <2>1. UNCHANGED <<sessionVars, handlerVars, clientVars, req, link, refused>>
    BY <1>2 DEF vars
  <2>2. HandlerType /\ link \in Seq(Messages)
    BY TypeParts
  <2> QED BY <2>1, <2>2, SameSession, Untouched, SameClient, SameLink, SameReplies, Zenon DEF Quiet
<1> QED BY <1>1, <1>2, HandlerSteps, ClientSteps DEF Next

-----------------------------------------------------------------------------
(* The session's log, and the types.                                       *)

LEMMA Joined ==
  ASSUME NEW S, NEW q \in Seq(S), NEW r \in Seq(S)
  PROVE  /\ q \o r \in Seq(S)
         /\ Len(q) \in Nat /\ DOMAIN q = 1..Len(q)
         /\ Len(r) \in Nat /\ DOMAIN r = 1..Len(r)
         /\ Len(q \o r) = Len(q) + Len(r)
         /\ DOMAIN (q \o r) = 1..(Len(q) + Len(r))
         /\ \A i \in 1..(Len(q) + Len(r)) :
              (q \o r)[i] = IF i <= Len(q) THEN q[i] ELSE r[i - Len(q)]
BY ConcatProperties, LenProperties

\* The reply to a resume: an event for every missed number, then RESUMED.
LEMMA ReplyOf ==
  ASSUME TypeOK, Log, NEW s \in Nat
  PROVE  /\ ResumeReply(s) \in Seq(Messages) /\ ResumeReply(s) # <<>>
         /\ \A i \in DOMAIN ResumeReply(s) :
              IF i = Len(ResumeReply(s))
                THEN ResumeReply(s)[i] = Resumed(s)
                ELSE \E n \in recorded : ResumeReply(s)[i] = Event(n)
         /\ \A n \in buffer : n > s =>
              \E i \in DOMAIN ResumeReply(s) : ResumeReply(s)[i] = Event(n)
<1> DEFINE M == Session!Missed(s)
           r == Replay(M)
<1>1. M = {n \in buffer : n > s} /\ M \subseteq recorded
  BY DEF Session!Missed, Log
<1>2. M \in SUBSET Nat /\ IsFiniteSet(M)
  <2>1. seq \in Nat /\ recorded \in SUBSET Nat
    BY TypeParts DEF SessionData
  <2>2. recorded \subseteq 1..seq
    BY <2>1 DEF Log
  <2>3. M \subseteq 1..seq
    BY <1>1, <2>2
  <2>4. IsFiniteSet(1..seq)
    BY <2>1, FS_Interval
  <2> QED BY <1>1, <2>1, <2>3, <2>4, FS_Subset
<1> HIDE DEF M
<1>3. /\ r \in Seq(Messages)
      /\ \A i \in DOMAIN r : \E n \in M : r[i] = Event(n)
      /\ \A n \in M : \E i \in DOMAIN r : r[i] = Event(n)
  BY <1>2, ReplayOf
<1>4. ResumeReply(s) = r \o <<Resumed(s)>>
  BY DEF ResumeReply, M
<1> HIDE DEF r
<1> DEFINE q == r \o <<Resumed(s)>>
<1>5. /\ q \in Seq(Messages)
      /\ DOMAIN r = 1..Len(r) /\ Len(r) \in Nat
      /\ DOMAIN q = 1..(Len(r) + 1)
      /\ \A i \in 1..Len(r) : q[i] = r[i]
      /\ q[Len(r) + 1] = Resumed(s)
  BY <1>3, MessageType, OneMore
<1>6. Len(q) = Len(r) + 1 /\ q # <<>>
  BY <1>5, LenProperties, EmptySeq
<1> HIDE DEF q
<1>7. \A i \in DOMAIN q : IF i = Len(q) THEN q[i] = Resumed(s) ELSE \E n \in recorded : q[i] = Event(n)
  <2> SUFFICES ASSUME NEW i \in DOMAIN q, i # Len(q) PROVE \E n \in recorded : q[i] = Event(n)
    BY <1>5, <1>6
  <2>1. i \in 1..Len(r)
    BY <1>5, <1>6
  <2> QED BY <1>1, <1>3, <1>5, <2>1
<1>8. ASSUME NEW n \in buffer, n > s PROVE \E i \in DOMAIN q : q[i] = Event(n)
  <2>1. PICK i \in DOMAIN r : r[i] = Event(n)
    BY <1>1, <1>3, <1>8
  <2> QED BY <1>5, <2>1
<1> QED BY <1>4, <1>5, <1>6, <1>7, <1>8 DEF q

\* Every step keeps the log.
LEMMA LogKept == TypeOK /\ Log /\ [Next]_vars => Log'
<1> SUFFICES ASSUME TypeOK, Log, [Next]_vars PROVE Log'
  OBVIOUS
<1>0. seq \in Nat /\ ack \in Nat /\ recorded \in SUBSET Nat /\ HandlerType
  BY TypeParts DEF SessionData
<1>1. CASE Produces
  BY <1>0, <1>1 DEF Produces, Log
<1>2. CASE Readies
  BY <1>0, <1>2 DEF Readies, Log
<1>3. CASE UNCHANGED logVars
  BY <1>3 DEF logVars, Log
<1>4. CASE Quiet
  <2>1. UNCHANGED <<seq, recorded>> /\ (UNCHANGED <<ack, buffer>> \/ Acknowledges)
    BY <1>4, Zenon DEF Quiet, QuietSession
  <2>2. CASE Acknowledges
    <3>1. PICK c \in Conns : /\ req[c] # <<>> /\ ack <= req[c][1].s /\ ack' = req[c][1].s
                             /\ buffer' = {n \in buffer : n > req[c][1].s}
      BY <2>2 DEF Acknowledges
    <3>2. req[c] \in Seq(Requested)
      BY <1>0 DEF HandlerType
    <3>3. req[c][1] \in Requested
      BY <3>1, <3>2, OneLess
    <3>4. req[c][1].s \in Nat
      BY <3>3 DEF Requested
    <3>5. PICK s \in Nat : ack <= s /\ ack' = s /\ buffer' = {n \in buffer : n > s}
      BY <3>1, <3>4
    <3>6. /\ seq' = seq /\ recorded' = recorded
          /\ buffer \subseteq recorded /\ \A n \in recorded : n \in Nat /\ 1 <= n /\ n <= seq
          /\ \A n \in recorded : n \in buffer \/ n <= ack
      BY <1>0, <2>1 DEF Log
    <3>7. \A n \in recorded : n \in buffer' \/ n <= ack'
      BY <1>0, <3>5, <3>6
    <3> QED BY <3>5, <3>6, <3>7 DEF Log
  <2>3. CASE UNCHANGED <<ack, buffer>>
    BY <1>3, <2>1, <2>3, Zenon DEF logVars
  <2> QED BY <2>1, <2>2, <2>3
<1>5. ASSUME NEW c \in Conns, Resumes(c) \/ FinishResume(c) PROVE Log'
  BY <1>3, <1>5, Zenon DEF Resumes, FinishResume, sessionVars, logVars
<1>6. CASE Takes \/ Reconnect \/ SendHeartbeat
  BY <1>3, <1>6, Zenon DEF Takes, Reconnect, SendHeartbeat, sessionVars, logVars
<1> QED BY <1>1, <1>2, <1>4, <1>5, <1>6, Steps

\* Every step keeps the types.
LEMMA TypeKept == TypeOK /\ Log /\ [Next]_vars => TypeOK'
<1> SUFFICES ASSUME TypeOK, Log, [Next]_vars PROVE TypeOK'
  OBVIOUS
<1> SUFFICES HandlerType' /\ ClientFlags' /\ ClientType' /\ link' \in Seq(Messages)
  <2>1. SessionFlags' /\ SessionData'
    <3>1. Session!TypeOK'
      BY SessionTypeKept
    <3> QED BY <3>1, Zenon DEF Session!TypeOK, SessionFlags, SessionData
  <2> QED BY <2>1, Zenon DEF TypeOK, Session!TypeOK, SessionFlags, SessionData, HandlerType,
                             ClientFlags, ClientType, Requested
<1>1. SessionData /\ HandlerType /\ ClientFlags /\ ClientType /\ link \in Seq(Messages)
  BY TypeParts
<1>2. UNCHANGED <<handlerVars, req>> => HandlerType'
  BY <1>1, Zenon DEF handlerVars, HandlerType
<1>3. UNCHANGED clientVars => ClientType'
  BY <1>1, Zenon DEF clientVars, ClientType
<1>4. UNCHANGED <<clientVars, refused>> => ClientFlags'
  BY <1>1, Zenon DEF clientVars, ClientFlags
<1>5. CASE Produces
  <2>1. link' = link \/ Send(sock, <<Event(seq + 1)>>)
    BY <1>5, Zenon DEF Produces
  <2>2. Event(seq + 1) \in Messages
    BY <1>1, MessageType DEF SessionData
  <2>3. link' \in Seq(Messages)
    BY <1>1, <2>1, <2>2, Sent
  <2> QED BY <1>2, <1>3, <1>4, <1>5, <2>3, Zenon DEF Produces, others
<1>6. CASE Readies
  <2>1. Ready(seq + 1) \in Messages
    BY <1>1, MessageType DEF SessionData
  <2>2. link' \in Seq(Messages)
    BY <1>1, <1>6, <2>1, Sent DEF Readies
  <2> QED BY <1>2, <1>3, <1>4, <1>6, <2>2, Zenon DEF Readies, others
<1>7. ASSUME NEW c \in Conns, Resumes(c)
      PROVE  HandlerType' /\ ClientFlags' /\ ClientType' /\ link' \in Seq(Messages)
  <2>1. req[c] # <<>> /\ req[c][1].s \in Nat
    BY <1>1, <1>7, FirstRequest DEF Resumes
  <2>2. ResumeReply(req[c][1].s) \in Seq(Messages) /\ Tail(req[c]) \in Seq(Requested)
    BY <1>1, <2>1, ReplyOf, OneLess DEF HandlerType
  <2>3. HandlerType'
    BY <1>1, <1>7, <2>2 DEF Resumes, HandlerType
  <2>4. UNCHANGED <<link, refused, clientVars>>
    BY <1>7, Zenon DEF Resumes
  <2> QED BY <1>1, <1>3, <1>4, <2>3, <2>4, Zenon
<1>8. ASSUME NEW c \in Conns, FinishResume(c)
      PROVE  HandlerType' /\ ClientFlags' /\ ClientType' /\ link' \in Seq(Messages)
  <2>1. UNCHANGED <<req, refused, clientVars>> /\ (link' = link \/ link' = link \o reply[c])
    BY <1>8, Zenon DEF FinishResume, Send
  <2>2. HandlerType'
    BY <1>1, <1>8, <2>1 DEF FinishResume, SetHandler, HandlerType
  <2>3. link' \in Seq(Messages)
    <3>1. reply[c] \in Seq(Messages)
      BY <1>1 DEF HandlerType
    <3> QED BY <1>1, <2>1, <3>1, Joined
  <2> QED BY <1>3, <1>4, <2>1, <2>2, <2>3, Zenon
<1>9. CASE Takes
  <2>1. link[1] \in Messages /\ Tail(link) \in Seq(Messages)
    BY <1>1, <1>9, OneLess DEF Takes
  <2>2. link[1].s \in Nat
    BY <1>9, <2>1, MessageType DEF Takes
  <2>3. cseq' \in Nat /\ got' \in SUBSET Nat
    BY <1>1, <1>9, <2>2 DEF Takes, Advanced, ClientType
  <2>4. cstate' \in {"connecting", "connected", "offline", "gone"} /\ conn' \in Conns
    BY <1>1, <1>9, Zenon DEF Takes, ClientType
  <2>5. csess' \in BOOLEAN /\ misled' \in BOOLEAN /\ refused' \in BOOLEAN
    BY <1>1, <1>9, Zenon DEF Takes, ClientFlags
  <2> QED BY <1>2, <1>9, <2>1, <2>3, <2>4, <2>5, Zenon DEF Takes, ClientType, ClientFlags
<1>10. CASE Reconnect
  <2>1. conn + 1 \in Conns /\ cseq \in Nat
    BY <1>1, <1>10, ResumeAssumption DEF Reconnect, ClientType, Conns, ResumeAssumption
  <2>2. <<[op |-> "resume", s |-> cseq]>> \in Seq(Requested)
    BY <2>1 DEF Requested
  <2>3. HandlerType'
    BY <1>1, <1>10, <2>2 DEF Reconnect, HandlerType
  <2>4. ClientType' /\ link' \in Seq(Messages)
    BY <1>1, <1>10, <2>1 DEF Reconnect, ClientType
  <2>5. ClientFlags'
    BY <1>1, <1>10, Zenon DEF Reconnect, ClientFlags
  <2> QED BY <2>3, <2>4, <2>5
<1>11. CASE SendHeartbeat
  <2>1. [op |-> "heartbeat", s |-> cseq] \in Requested
    BY <1>1 DEF ClientType, Requested
  <2>2. Append(req[conn], [op |-> "heartbeat", s |-> cseq]) \in Seq(Requested)
    BY <1>1, <2>1 DEF ClientType, HandlerType
  <2>3. HandlerType'
    BY <1>1, <1>11, <2>2 DEF SendHeartbeat, handlerVars, HandlerType
  <2> QED BY <1>1, <1>3, <1>4, <1>11, <2>3, Zenon DEF SendHeartbeat
<1>12. CASE Quiet
  <2>1. HandlerType' /\ link' \in Seq(Messages)
    BY <1>12 DEF Quiet, QuietHandlers, QuietLink
  <2>2. ClientType'
    BY <1>1, <1>12 DEF Quiet, QuietClient, ClientType
  <2>3. ClientFlags'
    BY <1>1, <1>12, Zenon DEF Quiet, QuietClient, QuietReplies, ClientFlags
  <2> QED BY <2>1, <2>2, <2>3
<1> QED BY <1>5, <1>6, <1>7, <1>8, <1>9, <1>10, <1>11, <1>12, Steps

-----------------------------------------------------------------------------
(* The invariant.                                                          *)

\* The client keeps the session and was not misled.
Good == ~misled /\ cstate # "gone"

\* Nothing lives on a connection that was not opened; an offline client has
\* nothing under way.
Places ==
  /\ sock # NoSocket => sock <= conn
  /\ \A c \in Conns : c > conn => handler[c] = "none" /\ req[c] = <<>>
  /\ ~Online => link = <<>>

\* A request to resume is the first of a later connection, and not yet taken; a
\* number a client sends is one the session gave and the client claims.
Requests ==
  \A c \in Conns : \A i \in DOMAIN req[c] :
    /\ req[c][i].op = "resume" => i = 1 /\ c # 1 /\ handler[c] # "awaiting"
    /\ ~misled => req[c][i].s <= seq
    /\ Good => req[c][i].s <= cseq

\* An awaiting handler holds a replay of recorded events, and RESUMED behind it.
Replies ==
  \A c \in Conns : handler[c] = "awaiting" =>
    /\ c # 1 /\ reply[c] # <<>>
    /\ \A i \in DOMAIN reply[c] :
         IF i = Len(reply[c]) THEN reply[c][i].t = "resumed" /\ reply[c][i].s <= seq
                              ELSE reply[c][i].t = "event" /\ reply[c][i].s \in recorded

\* What is under way was numbered by the session, and READY comes from it once.
Frames ==
  /\ \A i \in DOMAIN link :
       /\ link[i].t = "event" => link[i].s \in recorded
       /\ link[i].t = "ready" => ~ready
       /\ Numbered(link[i]) => link[i].s <= seq
  /\ csess \/ conn # 1 => ~ready

\* A client whose resume is not answered is not connected, and nothing under way
\* makes it so.
Unresumed(c) ==
  handler[c] = "awaiting" \/ \E i \in DOMAIN req[c] : req[c][i].op = "resume"

Unmarked ==
  Unresumed(conn) => cstate # "connected" /\ \A i \in DOMAIN link : ~Marks(link[i])

\* What the client claims it has, and what the session believes it has.
Claims ==
  /\ ~misled => cseq <= seq
  /\ Good => ack <= cseq /\ \A n \in recorded : n <= cseq => n \in got

\* A message that advances lastSequenceNumber comes behind every smaller event.
Advancing(i) == cstate = "connected" \/ \E j \in DOMAIN link : j < i /\ Marks(link[j])

InOrder ==
  Good => \A i \in DOMAIN link : Numbered(link[i]) /\ Advancing(i) =>
    \A n \in recorded : n <= link[i].s =>
      n \in got \/ \E j \in DOMAIN link : j <= i /\ link[j] = Event(n)

\* On the session's own socket, what the client lacks is under way, or in the
\* replay its handler is about to send.
OnItsSocket == up /\ Online /\ sock = conn /\ handler[conn] # "dead"

Lacks(n) ==
  /\ n \notin got
  /\ \A i \in DOMAIN link : link[i] # Event(n)

Covered ==
  Good /\ OnItsSocket => \A n \in recorded : Lacks(n) =>
    handler[conn] = "awaiting" /\ \E i \in DOMAIN reply[conn] : reply[conn][i] = Event(n)

Inv ==
  /\ TypeOK /\ Log
  /\ Places /\ Requests /\ Replies /\ Frames /\ Unmarked
  /\ Claims /\ InOrder /\ Covered
  /\ ResumeNeverRefused

-----------------------------------------------------------------------------
(* What each step does to the link, the requests and the handlers.         *)

LEMMA Facts ==
  ASSUME TypeOK
  PROVE  /\ Len(link) \in Nat /\ DOMAIN link = 1..Len(link)
         /\ \A i \in DOMAIN link : link[i] \in Messages
         /\ \A i \in DOMAIN link : Numbered(link[i]) => link[i].s \in Nat
         /\ seq \in Nat /\ ack \in Nat /\ cseq \in Nat
         /\ buffer \in SUBSET Nat /\ recorded \in SUBSET Nat
         /\ conn \in Conns /\ Conns \subseteq Nat
         /\ sock \in Conns \/ sock = NoSocket
         /\ NoSocket \notin Conns
<1>1. SessionData /\ ClientType /\ link \in Seq(Messages)
  BY TypeParts
<1>2. Len(link) \in Nat /\ DOMAIN link = 1..Len(link) /\ \A i \in DOMAIN link : link[i] \in Messages
  BY <1>1, LenProperties, ElementOfSeq
<1>3. \A i \in DOMAIN link : Numbered(link[i]) => link[i].s \in Nat
  BY <1>2, MessageType DEF Numbered
<1>4. Conns \subseteq Nat /\ NoSocket \notin Conns
  BY ResumeAssumption DEF Conns, ResumeAssumption
<1> QED BY <1>1, <1>2, <1>3, <1>4 DEF SessionData, ClientType

LEMMA QueueFacts ==
  ASSUME TypeOK, NEW c \in Conns
  PROVE  /\ req[c] \in Seq(Requested) /\ Len(req[c]) \in Nat /\ DOMAIN req[c] = 1..Len(req[c])
         /\ \A i \in DOMAIN req[c] : req[c][i].s \in Nat
         /\ reply[c] \in Seq(Messages) /\ Len(reply[c]) \in Nat /\ DOMAIN reply[c] = 1..Len(reply[c])
<1>1. req[c] \in Seq(Requested) /\ reply[c] \in Seq(Messages)
  BY TypeParts DEF HandlerType
<1>2. \A i \in DOMAIN req[c] : req[c][i] \in Requested
  BY <1>1
<1> QED BY <1>1, <1>2, LenProperties DEF Requested

\* A message the session sends is the last one of the link, if it gets there.
Sends(m) ==
  \/ link' = link /\ ~(sock = conn /\ Online /\ handler[conn] # "dead")
  \/ /\ sock = conn /\ Online /\ handler[conn] # "dead"
     /\ DOMAIN link' = 1..(Len(link) + 1)
     /\ \A i \in 1..Len(link) : link'[i] = link[i]
     /\ link'[Len(link) + 1] = m

LEMMA SessionSends ==
  ASSUME TypeOK
  PROVE  /\ Produces => Sends(Event(seq + 1))
         /\ Readies => Sends(Ready(seq + 1))
<1>1. link \in Seq(Messages)
  BY TypeParts
<1>2. ASSUME NEW m \in Messages, Send(sock, <<m>>) PROVE Sends(m)
  <2>1. CASE Reaches(sock)
    BY <1>1, <1>2, <2>1, OneMore DEF Send, Reaches, Sends
  <2>2. CASE ~Reaches(sock)
    BY <1>2, <2>2 DEF Send, Reaches, Sends
  <2> QED BY <2>1, <2>2
<1>3. Event(seq + 1) \in Messages /\ Ready(seq + 1) \in Messages
  BY Facts, MessageType
<1>4. ASSUME Produces PROVE Sends(Event(seq + 1))
  <2>1. CASE sock = NoSocket
    BY <1>4, <2>1, Facts DEF Produces, Sends
  <2>2. CASE sock # NoSocket
    BY <1>2, <1>3, <1>4, <2>2 DEF Produces
  <2> QED BY <2>1, <2>2
<1>5. ASSUME Readies PROVE Sends(Ready(seq + 1))
  BY <1>2, <1>3, <1>5 DEF Readies
<1> QED BY <1>4, <1>5

\* The reply a handler sends lands behind what its mailbox holds by then.
LEMMA Finishes ==
  ASSUME TypeOK, NEW c \in Conns, FinishResume(c)
  PROVE  /\ handler[c] = "awaiting" /\ handler'[c] = "open"
         /\ \A d \in Conns : d # c => handler'[d] = handler[d] /\ reply'[d] = reply[d]
         /\ UNCHANGED <<req, conn, cstate, cseq, csess, got, misled, refused>>
         /\ UNCHANGED <<up, seq, ack, buffer, recorded, sock, ready>>
         /\ \/ link' = link /\ ~(c = conn /\ Online)
            \/ /\ c = conn /\ Online
               /\ DOMAIN link' = 1..(Len(link) + Len(reply[c]))
               /\ \A i \in 1..(Len(link) + Len(reply[c])) :
                    link'[i] = IF i <= Len(link) THEN link[i] ELSE reply[c][i - Len(link)]
<1>1. HandlerType /\ link \in Seq(Messages) /\ reply[c] \in Seq(Messages)
  BY TypeParts DEF HandlerType
<1>2. /\ handler[c] = "awaiting" /\ handler'[c] = "open"
      /\ \A d \in Conns : d # c => handler'[d] = handler[d] /\ reply'[d] = reply[d]
  BY <1>1 DEF FinishResume, SetHandler, HandlerType
<1>3. /\ UNCHANGED <<req, conn, cstate, cseq, csess, got, misled, refused>>
      /\ UNCHANGED <<up, seq, ack, buffer, recorded, sock, ready>>
  BY Zenon DEF FinishResume, sessionVars, clientVars
<1>4. CASE Reaches(c)
  <2>1. link' = link \o reply[c] /\ c = conn /\ Online
    BY <1>4 DEF FinishResume, Send, Reaches
  <2> QED BY <1>1, <1>2, <1>3, <2>1, Joined
<1>5. CASE ~Reaches(c)
  <2>1. link' = link /\ ~(c = conn /\ Online)
    BY <1>2, <1>5 DEF FinishResume, Send, Reaches
  <2> QED BY <1>2, <1>3, <2>1
<1> QED BY <1>4, <1>5

LEMMA ResumesAt ==
  ASSUME TypeOK, NEW c \in Conns, Resumes(c)
  PROVE  /\ req[c] # <<>> /\ req[c][1].op = "resume" /\ req[c][1].s \in Nat /\ handler[c] = "open"
         /\ handler'[c] = "awaiting" /\ reply'[c] = ResumeReply(req[c][1].s)
         /\ req'[c] = Tail(req[c])
         /\ \A d \in Conns : d # c =>
              handler'[d] = handler[d] /\ reply'[d] = reply[d] /\ req'[d] = req[d]
         /\ UNCHANGED <<up, seq, ack, buffer, recorded, ready, link, refused>>
         /\ UNCHANGED <<conn, cstate, cseq, csess, got, misled>>
<1>1. HandlerType
  BY TypeParts
<1>2. req[c] # <<>> /\ req[c][1].op = "resume" /\ req[c][1].s \in Nat /\ handler[c] = "open"
  BY <1>1, FirstRequest DEF Resumes
<1>3. /\ UNCHANGED <<up, seq, ack, buffer, recorded, ready, link, refused>>
      /\ UNCHANGED <<conn, cstate, cseq, csess, got, misled>>
  BY Zenon DEF Resumes, logVars, clientVars
<1>4. /\ handler'[c] = "awaiting" /\ reply'[c] = ResumeReply(req[c][1].s)
      /\ req'[c] = Tail(req[c])
      /\ \A d \in Conns : d # c =>
           handler'[d] = handler[d] /\ reply'[d] = reply[d] /\ req'[d] = req[d]
  BY <1>1 DEF Resumes, HandlerType
<1> QED BY <1>2, <1>3, <1>4

LEMMA TakesOne ==
  ASSUME TypeOK, Takes
  PROVE  /\ 1 \in DOMAIN link /\ link[1] \in Messages /\ link[1].s \in Nat /\ Online
         /\ DOMAIN link' = 1..(Len(link) - 1)
         /\ \A i \in 1..(Len(link) - 1) : link'[i] = link[i + 1]
         /\ UNCHANGED <<up, seq, ack, buffer, recorded, sock, ready, conn>>
         /\ UNCHANGED <<handler, reply, req, refused>>
         /\ cstate' = cstate \/ (Marks(link[1]) /\ cstate' = "connected")
         /\ Good' => Good
         /\ \A n : n \in got \/ link[1] = Event(n) => n \in got'
<1>1. link \in Seq(Messages) /\ link # <<>>
  BY TypeParts DEF Takes
<1>2. /\ Len(link) \in Nat \ {0} /\ DOMAIN link = 1..Len(link) /\ link[1] \in Messages
      /\ DOMAIN link' = 1..(Len(link) - 1)
      /\ \A i \in 1..(Len(link) - 1) : link'[i] = link[i + 1]
  BY <1>1, OneLess DEF Takes
<1>3. link[1].s \in Nat /\ Online
  BY <1>2, MessageType DEF Takes
<1>4. /\ UNCHANGED <<up, seq, ack, buffer, recorded, sock, ready, conn>>
      /\ UNCHANGED <<handler, reply, req, refused>>
      /\ cstate' = cstate \/ (Marks(link[1]) /\ cstate' = "connected")
  BY Zenon DEF Takes, sessionVars, handlerVars
<1>5. Good' => Good
  <2>1. cstate # "gone"
    BY <1>3 DEF Online
  <2> QED BY <2>1, Zenon DEF Good, Takes
<1>6. ASSUME NEW n, n \in got \/ link[1] = Event(n) PROVE n \in got'
  <2>1. CASE link[1] = Event(n)
    BY <2>1 DEF Event, Takes
  <2>2. CASE n \in got
    BY <2>2 DEF Takes
  <2> QED BY <1>6, <2>1, <2>2
<1> QED BY <1>2, <1>3, <1>4, <1>5, <1>6

LEMMA Reopens ==
  ASSUME TypeOK, Reconnect
  PROVE  /\ conn + 1 \in Conns /\ conn' = conn + 1
         /\ handler'[conn + 1] = "open"
         /\ req'[conn + 1] = <<[op |-> "resume", s |-> cseq]>>
         /\ DOMAIN req'[conn + 1] = {1} /\ req'[conn + 1][1] = [op |-> "resume", s |-> cseq]
         /\ \A d \in Conns : d # conn + 1 => handler'[d] = handler[d] /\ req'[d] = req[d]
         /\ csess /\ cstate = "offline" /\ cstate' = "connecting"
         /\ UNCHANGED <<up, seq, ack, buffer, recorded, sock, ready>>
         /\ UNCHANGED <<reply, cseq, csess, got, misled, link, refused>>
<1>1. HandlerType /\ conn + 1 \in Conns
  BY TypeParts, ResumeAssumption DEF Reconnect, ClientType, Conns, ResumeAssumption
<1>2. /\ UNCHANGED <<up, seq, ack, buffer, recorded, sock, ready>>
      /\ UNCHANGED <<reply, cseq, csess, got, misled, link, refused>>
      /\ csess /\ cstate = "offline" /\ cstate' = "connecting" /\ conn' = conn + 1
  BY Zenon DEF Reconnect, sessionVars
<1>3. /\ handler'[conn + 1] = "open"
      /\ req'[conn + 1] = <<[op |-> "resume", s |-> cseq]>>
      /\ \A d \in Conns : d # conn + 1 => handler'[d] = handler[d] /\ req'[d] = req[d]
  BY <1>1 DEF Reconnect, HandlerType
<1>4. DOMAIN req'[conn + 1] = {1} /\ req'[conn + 1][1] = [op |-> "resume", s |-> cseq]
  BY <1>3
<1> QED BY <1>1, <1>2, <1>3, <1>4

LEMMA Beats ==
  ASSUME TypeOK, SendHeartbeat
  PROVE  /\ DOMAIN req'[conn] = 1..(Len(req[conn]) + 1)
         /\ \A i \in 1..Len(req[conn]) : req'[conn][i] = req[conn][i]
         /\ req'[conn][Len(req[conn]) + 1] = [op |-> "heartbeat", s |-> cseq]
         /\ \A d \in Conns : d # conn => req'[d] = req[d]
         /\ UNCHANGED <<up, seq, ack, buffer, recorded, sock, ready, handler, reply>>
         /\ UNCHANGED <<conn, cstate, cseq, csess, got, misled, link, refused>>
<1>1. HandlerType /\ conn \in Conns /\ req[conn] \in Seq(Requested) /\ cseq \in Nat
  BY TypeParts DEF HandlerType, ClientType
<1>2. /\ req'[conn] = Append(req[conn], [op |-> "heartbeat", s |-> cseq])
      /\ \A d \in Conns : d # conn => req'[d] = req[d]
  BY <1>1 DEF SendHeartbeat, HandlerType
<1>3. [op |-> "heartbeat", s |-> cseq] \in Requested
  BY <1>1 DEF Requested
<1>4. /\ DOMAIN req'[conn] = 1..(Len(req[conn]) + 1)
      /\ \A i \in 1..Len(req[conn]) : req'[conn][i] = req[conn][i]
      /\ req'[conn][Len(req[conn]) + 1] = [op |-> "heartbeat", s |-> cseq]
  BY <1>1, <1>2, <1>3, AppendProperties, LenProperties
<1>5. /\ UNCHANGED <<up, seq, ack, buffer, recorded, sock, ready, handler, reply>>
      /\ UNCHANGED <<conn, cstate, cseq, csess, got, misled, link, refused>>
  BY Zenon DEF SendHeartbeat, sessionVars, handlerVars, clientVars
<1> QED BY <1>2, <1>4, <1>5

LEMMA Quietly ==
  ASSUME TypeOK, Quiet
  PROVE  /\ UNCHANGED <<seq, recorded, ready, conn, got, misled>>
         /\ up' => up
         /\ sock' = sock \/ sock' = NoSocket
         /\ UNCHANGED <<ack, buffer>> \/ Acknowledges
         /\ \/ cstate' = cstate /\ cseq' = cseq /\ csess' = csess
            \/ cstate' = "offline" /\ Online /\ link' = <<>> /\ cseq' = cseq /\ csess' = csess
            \/ cstate' = "gone" /\ link' = <<>> /\ csess' = FALSE /\ cseq' = 0
         /\ Good' => Good /\ cseq' = cseq
         /\ Online' => Online /\ cstate' = cstate
         /\ \A c \in Conns : \/ handler'[c] = handler[c] /\ reply'[c] = reply[c]
                             \/ handler'[c] = "dead" /\ (handler[c] # "none" \/ c = sock)
         /\ Len(link') \in Nat /\ DOMAIN link' = 1..Len(link')
         /\ \A i \in DOMAIN link' :
              \/ i \in DOMAIN link /\ link'[i] = link[i]
              \/ i \notin DOMAIN link /\ link'[i].t \notin {"event", "ready", "resumed"}
         /\ \/ DOMAIN link \subseteq DOMAIN link'
            \/ cstate' \in {"offline", "gone"}
            \/ handler'[conn] = "dead"
         /\ ~Online => link' \in {link, <<>>}
<1>1. /\ UNCHANGED <<seq, recorded, ready, conn, got, misled>>
      /\ up' => up
      /\ UNCHANGED <<ack, buffer>> \/ Acknowledges
  BY Zenon DEF Quiet, QuietSession, QuietClient
<1>2. sock' = sock \/ sock' = NoSocket
  BY DEF Quiet, QuietSession
<1>3. \/ cstate' = cstate /\ cseq' = cseq /\ csess' = csess
      \/ cstate' = "offline" /\ Online /\ link' = <<>> /\ cseq' = cseq /\ csess' = csess
      \/ cstate' = "gone" /\ link' = <<>> /\ csess' = FALSE /\ cseq' = 0
  BY Zenon DEF Quiet, QuietClient
<1>4. Good' => Good /\ cseq' = cseq
  <2>1. ~misled' <=> ~misled
    BY <1>1, Zenon
  <2>2. Online => cstate # "gone"
    BY DEF Online
  <2> QED BY <1>3, <2>1, <2>2 DEF Good
<1>5. Online' => Online /\ cstate' = cstate
  BY <1>3 DEF Online
<1>6. \A c \in Conns : \/ handler'[c] = handler[c] /\ reply'[c] = reply[c]
                       \/ handler'[c] = "dead" /\ (handler[c] # "none" \/ c = sock)
  BY Zenon DEF Quiet, QuietHandlers
<1>7. Len(link') \in Nat /\ DOMAIN link' = 1..Len(link')
  BY LenProperties DEF Quiet, QuietLink
<1>8. /\ \A i \in DOMAIN link' :
           \/ i \in DOMAIN link /\ link'[i] = link[i]
           \/ i \notin DOMAIN link /\ link'[i].t \notin {"event", "ready", "resumed"}
      /\ \/ DOMAIN link \subseteq DOMAIN link'
         \/ cstate' \in {"offline", "gone"}
         \/ handler'[conn] = "dead"
      /\ ~Online => link' \in {link, <<>>}
  BY Zenon DEF Quiet, QuietLink
<1> QED BY <1>1, <1>2, <1>3, <1>4, <1>5, <1>6, <1>7, <1>8, Zenon

\* The requests after a step that adds none are among those before it.
Older ==
  \A c \in Conns : \A i \in DOMAIN req'[c] :
    \E k \in DOMAIN req[c] : req'[c][i] = req[c][k] /\ (k = i \/ k = i + 1) /\ i \in Nat /\ 1 <= i

LEMMA OlderRequests ==
  ASSUME TypeOK, \/ req' = req \/ Quiet \/ \E c \in Conns : Resumes(c)
  PROVE  Older
<1> SUFFICES ASSUME NEW c \in Conns, NEW i \in DOMAIN req'[c]
             PROVE  \E k \in DOMAIN req[c] :
                      req'[c][i] = req[c][k] /\ (k = i \/ k = i + 1) /\ i \in Nat /\ 1 <= i
  BY DEF Older
<1>1. req[c] \in Seq(Requested) /\ Len(req[c]) \in Nat /\ DOMAIN req[c] = 1..Len(req[c])
  BY QueueFacts
<1>2. req'[c] = req[c] \/ (req[c] # <<>> /\ req'[c] = Tail(req[c])) \/ req'[c] = <<>>
  <2>1. CASE Quiet
    BY <2>1, Zenon DEF Quiet, QuietHandlers
  <2>2. ASSUME NEW d \in Conns, Resumes(d)
        PROVE  req'[c] = req[c] \/ (req[c] # <<>> /\ req'[c] = Tail(req[c])) \/ req'[c] = <<>>
    BY <2>2, ResumesAt
  <2> QED BY <2>1, <2>2
<1>3. CASE req'[c] = req[c]
  BY <1>1, <1>3
<1>4. CASE req[c] # <<>> /\ req'[c] = Tail(req[c])
  <2>1. /\ DOMAIN req'[c] = 1..(Len(req[c]) - 1)
        /\ \A j \in 1..(Len(req[c]) - 1) : req'[c][j] = req[c][j + 1]
    BY <1>1, <1>4, OneLess
  <2>2. i + 1 \in DOMAIN req[c] /\ req'[c][i] = req[c][i + 1] /\ i \in Nat /\ 1 <= i
    BY <1>1, <2>1
  <2> QED BY <2>2
<1>5. CASE req'[c] = <<>>
  BY <1>5
<1> QED BY <1>2, <1>3, <1>4, <1>5

-----------------------------------------------------------------------------
(* Each part of the invariant holds at the start and is kept.              *)

LEMMA InitInv == Init => Inv
<1> SUFFICES ASSUME Init PROVE Inv
  OBVIOUS
<1>1. /\ up = TRUE /\ ready = TRUE /\ condemned = FALSE
      /\ csess = FALSE /\ misled = FALSE /\ refused = FALSE
  BY Zenon DEF Init, Session!Init
<1>2. /\ seq = 0 /\ ack = 0 /\ buffer = {} /\ recorded = {} /\ sock = 1
      /\ joined = {} /\ timers = {} /\ downs = 0
      /\ link = <<>> /\ conn = 1 /\ cstate = "connecting" /\ cseq = 0 /\ got = {} /\ att = {1}
  BY Zenon DEF Init, Session!Init
<1>3. /\ handler = [c \in Conns |-> IF c = 1 THEN "open" ELSE "none"]
      /\ reply = [c \in Conns |-> <<>>] /\ req = [c \in Conns |-> <<>>]
  BY Zenon DEF Init
<1>4. 1 \in Conns /\ Conns \subseteq Nat
  BY ResumeAssumption DEF ResumeAssumption, Conns
<1>5. TypeOK
  <2>1. SessionFlags /\ ClientFlags
    BY <1>1, Zenon DEF SessionFlags, ClientFlags
  <2>2. SessionData /\ ClientType /\ link \in Seq(Messages)
    BY <1>2, <1>4 DEF SessionData, ClientType
  <2>3. HandlerType
    <3>1. <<>> \in Seq(Messages) /\ <<>> \in Seq(Requested)
      OBVIOUS
    <3> QED BY <1>2, <1>3, <1>4, <3>1 DEF HandlerType
  <2> QED BY <2>1, <2>2, <2>3, TypeParts
<1>6. Log /\ Places
  BY <1>2, <1>3, <1>4 DEF Log, Places
<1>7. Requests /\ Replies
  BY <1>3 DEF Requests, Replies
<1>8. Frames
  BY <1>1, <1>2 DEF Frames
<1>9. Unmarked /\ Claims /\ InOrder /\ Covered
  BY <1>2, <1>3, <1>4 DEF Unmarked, Claims, InOrder, Covered
<1> QED BY <1>1, <1>5, <1>6, <1>7, <1>8, <1>9 DEF Inv, ResumeNeverRefused

LEMMA PlacesKept == Inv /\ [Next]_vars => Places'
<1> SUFFICES ASSUME Inv, [Next]_vars PROVE Places'
  OBVIOUS
<1>0. TypeOK /\ Log /\ Places
  BY DEF Inv
<1>1. ASSUME Produces \/ Readies PROVE Places'
  <2>1. \E m : Sends(m)
    BY <1>0, <1>1, SessionSends
  <2>2. ~Online => link' = link
    BY <2>1 DEF Sends
  <2>3. UNCHANGED <<sock, conn, cstate, handler, req>>
    BY <1>1, Zenon DEF Produces, Readies, others, handlerVars, clientVars
  <2> QED BY <1>0, <2>2, <2>3 DEF Places, Online
<1>2. ASSUME NEW c \in Conns, Resumes(c) PROVE Places'
  <2>1. c <= conn
    BY <1>0, <1>2, ResumesAt, Facts DEF Places
  <2>2. sock' = c
    BY <1>2 DEF Resumes
  <2>3. \A d \in Conns : d > conn => d # c
    BY <2>1, Facts, <1>0
  <2> QED BY <1>0, <1>2, <2>1, <2>2, <2>3, ResumesAt DEF Places, Online
<1>3. ASSUME NEW c \in Conns, FinishResume(c) PROVE Places'
  <2>1. ~(c > conn)
    BY <1>0, <1>3, Finishes DEF Places
  <2> QED BY <1>0, <1>3, <2>1, Finishes DEF Places, Online
<1>4. CASE Takes
  <2>1. Online'
    BY <1>0, <1>4, TakesOne DEF Online
  <2> QED BY <1>0, <1>4, <2>1, TakesOne DEF Places
<1>5. CASE Reconnect
  <2>1. Online' /\ \A d \in Conns : d > conn + 1 => d > conn /\ d # conn + 1
    BY <1>0, <1>5, Reopens, Facts DEF Online
  <2>2. sock # NoSocket => sock <= conn + 1
    BY <1>0, Facts DEF Places
  <2> QED BY <1>0, <1>5, <2>1, <2>2, Reopens DEF Places
<1>6. CASE SendHeartbeat
  <2>1. ~(conn > conn)
    BY <1>0, Facts
  <2> QED BY <1>0, <1>6, <2>1, Beats DEF Places, Online
<1>7. CASE Quiet
  <2>1. \A c \in Conns : c > conn => handler'[c] = "none"
    BY <1>0, <1>7, Quietly, Facts DEF Places
  <2>2. \A c \in Conns : c > conn => req'[c] = <<>>
    BY <1>0, <1>7 DEF Places, Quiet, QuietHandlers
  <2>3. ~Online' => link' = <<>>
    BY <1>0, <1>7, Quietly DEF Places, Online
  <2>4. sock' # NoSocket => sock' <= conn
    BY <1>0, <1>7, Quietly DEF Places
  <2>5. conn' = conn
    BY <1>0, <1>7, Quietly
  <2> QED BY <2>1, <2>2, <2>3, <2>4, <2>5 DEF Places
<1> QED BY <1>0, <1>1, <1>2, <1>3, <1>4, <1>5, <1>6, <1>7, Steps

\* Numbers only grow while the client keeps the session.
LEMMA NumbersGrow ==
  ASSUME TypeOK, Log, [Next]_vars
  PROVE  /\ seq <= seq' /\ (~misled' => ~misled)
         /\ Good' => Good /\ cseq <= cseq'
         /\ recorded \subseteq recorded' /\ got \subseteq got'
<1>0. seq \in Nat /\ cseq \in Nat
  BY Facts
<1>1. CASE Produces \/ Readies
  <2>1. UNCHANGED <<misled, cstate, cseq, got>>
    BY <1>1, Zenon DEF Produces, Readies, others, clientVars
  <2>2. seq' = seq + 1 /\ recorded \subseteq recorded'
    BY <1>1 DEF Produces, Readies
  <2> QED BY <1>0, <2>1, <2>2 DEF Good
<1>2. ASSUME UNCHANGED <<seq, recorded, misled, cstate, cseq, got>>
      PROVE  /\ seq <= seq' /\ (~misled' => ~misled)
             /\ Good' => Good /\ cseq <= cseq'
             /\ recorded \subseteq recorded' /\ got \subseteq got'
  BY <1>0, <1>2 DEF Good
<1>3. ASSUME NEW c \in Conns, Resumes(c) \/ FinishResume(c)
      PROVE  UNCHANGED <<seq, recorded, misled, cstate, cseq, got>>
  BY <1>3, ResumesAt, Finishes, Zenon
<1>4. CASE SendHeartbeat
  BY <1>2, <1>4, Beats, Zenon
<1>5. CASE Reconnect
  BY <1>0, <1>5, Reopens DEF Good
<1>6. CASE Takes
  <2>1. cseq <= cseq' /\ got \subseteq got'
    BY <1>0, <1>6, TakesOne DEF Takes, Advanced
  <2>2. misled => misled'
    BY <1>6, Zenon DEF Takes
  <2> QED BY <1>0, <1>6, <2>1, <2>2, TakesOne
<1>7. CASE Quiet
  BY <1>0, <1>7, Quietly
<1> QED BY <1>1, <1>2, <1>3, <1>4, <1>5, <1>6, <1>7, Steps

LEMMA RequestsKept == Inv /\ [Next]_vars => Requests'
<1> SUFFICES ASSUME Inv, [Next]_vars PROVE Requests'
  OBVIOUS
<1>0. TypeOK /\ Log /\ Places /\ Requests
  BY DEF Inv
<1> DEFINE Fine(c, i) ==
      /\ req'[c][i].op = "resume" => i = 1 /\ c # 1 /\ handler'[c] # "awaiting"
      /\ ~misled' => req'[c][i].s <= seq'
      /\ Good' => req'[c][i].s <= cseq'
<1>1. SUFFICES \A c \in Conns : \A i \in DOMAIN req'[c] : Fine(c, i)
  BY DEF Requests, Good
<1>2. /\ seq \in Nat /\ seq' \in Nat /\ cseq \in Nat /\ cseq' \in Nat
      /\ seq <= seq' /\ (~misled' => ~misled)
      /\ Good' => Good /\ cseq <= cseq'
  <2>1. TypeOK'
    BY <1>0, TypeKept
  <2> QED BY <1>0, <2>1, NumbersGrow, Facts DEF TypeOK, Session!TypeOK
<1>3. ASSUME NEW c \in Conns, NEW i, NEW k \in DOMAIN req[c],
             req'[c][i] = req[c][k], k = i \/ k = i + 1, i \in Nat, 1 <= i,
             req[c][k].op = "resume" => handler'[c] # "awaiting" \/ k # i
      PROVE  Fine(c, i)
  <2>1. /\ req[c][k].op = "resume" => k = 1 /\ c # 1
        /\ ~misled => req[c][k].s <= seq
        /\ Good => req[c][k].s <= cseq
        /\ req[c][k].s \in Nat
    BY <1>0, QueueFacts DEF Requests
  <2>2. k = 1 => k = i /\ i = 1
    BY <1>3
  <2>3. /\ ~misled' => req[c][k].s <= seq'
        /\ Good' => req[c][k].s <= cseq'
    BY <1>2, <2>1
  <2> QED BY <1>3, <2>1, <2>2, <2>3
<1>4. ASSUME Older,
             \A c \in Conns : handler'[c] = "awaiting" =>
               handler[c] = "awaiting" \/ (req[c] # <<>> /\ req'[c] = Tail(req[c]))
      PROVE  \A c \in Conns : \A i \in DOMAIN req'[c] : Fine(c, i)
  <2> SUFFICES ASSUME NEW c \in Conns, NEW i \in DOMAIN req'[c] PROVE Fine(c, i)
    OBVIOUS
  <2>1. PICK k \in DOMAIN req[c] :
          req'[c][i] = req[c][k] /\ (k = i \/ k = i + 1) /\ i \in Nat /\ 1 <= i
    BY <1>4 DEF Older
  <2>2. CASE handler'[c] = "awaiting" => handler[c] = "awaiting"
    <3>1. req[c][k].op = "resume" => handler'[c] # "awaiting"
      BY <1>0, <2>2 DEF Requests
    <3> QED BY <1>3, <2>1, <3>1
  <2>3. CASE req[c] # <<>> /\ req'[c] = Tail(req[c])
    <3>1. /\ Len(req[c]) \in Nat
          /\ DOMAIN req[c] = 1..Len(req[c]) /\ DOMAIN req'[c] = 1..(Len(req[c]) - 1)
          /\ req'[c][i] = req[c][i + 1]
      BY <1>0, <2>3, QueueFacts, OneLess
    <3>2. i + 1 \in DOMAIN req[c] /\ i + 1 # i
      BY <2>1, <3>1
    <3> QED BY <1>3, <2>1, <3>1, <3>2
  <2> QED BY <1>4, <2>2, <2>3
<1>5. CASE Produces \/ Readies
  <2>1. req' = req /\ handler' = handler
    BY <1>5, Zenon DEF Produces, Readies, others, handlerVars
  <2> QED BY <1>0, <1>4, <2>1, OlderRequests
<1>6. ASSUME NEW c \in Conns, Resumes(c) PROVE \A d \in Conns : \A i \in DOMAIN req'[d] : Fine(d, i)
  <2>1. Older
    BY <1>0, <1>6, OlderRequests
  <2>2. \A d \in Conns : handler'[d] = "awaiting" =>
          handler[d] = "awaiting" \/ (req[d] # <<>> /\ req'[d] = Tail(req[d]))
    BY <1>0, <1>6, ResumesAt
  <2> QED BY <1>4, <2>1, <2>2
<1>7. ASSUME NEW c \in Conns, FinishResume(c) PROVE \A d \in Conns : \A i \in DOMAIN req'[d] : Fine(d, i)
  <2>1. req' = req /\ \A d \in Conns : handler'[d] = "awaiting" => handler[d] = "awaiting"
    BY <1>0, <1>7, Finishes
  <2> QED BY <1>0, <1>4, <2>1, OlderRequests
<1>8. CASE Takes
  BY <1>0, <1>4, <1>8, OlderRequests, TakesOne
<1>9. CASE Reconnect
  <2>1. UNCHANGED <<seq, cseq, misled>> /\ (Good' => Good)
    BY <1>0, <1>2, <1>9, Reopens
  <2>2. conn \in Nat /\ conn + 1 # 1
    BY <1>0, Facts, ResumeAssumption DEF Conns, ResumeAssumption
  <2>3. ASSUME NEW d \in Conns, d # conn + 1, NEW i \in DOMAIN req'[d] PROVE Fine(d, i)
    <3>1. req'[d] = req[d] /\ handler'[d] = handler[d]
      BY <1>0, <1>9, <2>3, Reopens
    <3> QED BY <1>0, <2>1, <2>3, <3>1 DEF Requests
  <2>4. ASSUME NEW i \in DOMAIN req'[conn + 1] PROVE Fine(conn + 1, i)
    <3>1. /\ i = 1 /\ req'[conn + 1][i] = [op |-> "resume", s |-> cseq]
          /\ handler'[conn + 1] = "open"
      BY <1>0, <1>9, <2>4, Reopens
    <3>2. /\ ~misled => cseq <= seq
          /\ cseq <= cseq
      BY <1>2 DEF Inv, Claims
    <3> QED BY <2>1, <2>2, <3>1, <3>2
  <2> QED BY <2>3, <2>4
<1>10. CASE SendHeartbeat
  <2>1. UNCHANGED <<seq, cseq, misled, handler>> /\ (Good' => Good) /\ conn \in Conns
    BY <1>0, <1>2, <1>10, Beats, Facts
  <2>2. ASSUME NEW d \in Conns, NEW i \in DOMAIN req[d], req'[d][i] = req[d][i] PROVE Fine(d, i)
    BY <1>0, <2>1, <2>2 DEF Requests
  <2>3. ASSUME NEW d \in Conns, d # conn, NEW i \in DOMAIN req'[d] PROVE Fine(d, i)
    BY <1>0, <1>10, <2>2, <2>3, Beats
  <2>4. ASSUME NEW i \in DOMAIN req'[conn] PROVE Fine(conn, i)
    <3>1. DOMAIN req[conn] = 1..Len(req[conn]) /\ Len(req[conn]) \in Nat
      BY <1>0, <2>1, QueueFacts
    <3>2. CASE i \in 1..Len(req[conn])
      BY <1>0, <1>10, <2>1, <2>2, <3>1, <3>2, Beats
    <3>3. CASE i = Len(req[conn]) + 1
      <4>1. req'[conn][i] = [op |-> "heartbeat", s |-> cseq]
        BY <1>0, <1>10, <3>3, Beats
      <4>2. /\ ~misled => cseq <= seq
            /\ cseq <= cseq
        BY <1>2 DEF Inv, Claims
      <4> QED BY <2>1, <4>1, <4>2
    <3> QED BY <1>0, <1>10, <2>4, <3>1, <3>2, <3>3, Beats
  <2> QED BY <2>3, <2>4
<1>11. CASE Quiet
  <2>1. Older
    BY <1>0, <1>11, OlderRequests
  <2>2. \A c \in Conns : handler'[c] = "awaiting" => handler[c] = "awaiting"
    BY <1>0, <1>11, Quietly
  <2> QED BY <1>4, <2>1, <2>2
<1> QED BY <1>0, <1>5, <1>6, <1>7, <1>8, <1>9, <1>10, <1>11, Steps

LEMMA RepliesKept == Inv /\ [Next]_vars => Replies'
<1> SUFFICES ASSUME Inv, [Next]_vars PROVE Replies'
  OBVIOUS
<1>0. TypeOK /\ Log /\ Requests /\ Replies
  BY DEF Inv
<1> DEFINE Fine(d) ==
      /\ d # 1 /\ reply'[d] # <<>>
      /\ \A i \in DOMAIN reply'[d] :
           IF i = Len(reply'[d]) THEN reply'[d][i].t = "resumed" /\ reply'[d][i].s <= seq'
                                 ELSE reply'[d][i].t = "event" /\ reply'[d][i].s \in recorded'
<1>1. SUFFICES ASSUME NEW d \in Conns, handler'[d] = "awaiting" PROVE Fine(d)
  BY DEF Replies
<1>2. /\ seq \in Nat /\ seq' \in Nat /\ seq <= seq' /\ recorded \subseteq recorded'
      /\ recorded \in SUBSET Nat
  <2>1. TypeOK'
    BY <1>0, TypeKept
  <2> QED BY <1>0, <2>1, NumbersGrow, Facts DEF TypeOK, Session!TypeOK
<1>3. ASSUME handler[d] = "awaiting", reply'[d] = reply[d] PROVE Fine(d)
  <2>1. /\ d # 1 /\ reply[d] # <<>>
        /\ \A i \in DOMAIN reply[d] :
             IF i = Len(reply[d]) THEN reply[d][i].t = "resumed" /\ reply[d][i].s <= seq
                                  ELSE reply[d][i].t = "event" /\ reply[d][i].s \in recorded
    BY <1>0, <1>3 DEF Replies
  <2>2. \A i \in DOMAIN reply[d] : reply[d][i].t = "resumed" => reply[d][i].s \in Nat
    <3>1. \A i \in DOMAIN reply[d] : reply[d][i] \in Messages
      BY <1>0, QueueFacts
    <3> QED BY <3>1, MessageType
  <2>3. ASSUME NEW i \in DOMAIN reply[d]
        PROVE  IF i = Len(reply[d]) THEN reply[d][i].t = "resumed" /\ reply[d][i].s <= seq'
                                    ELSE reply[d][i].t = "event" /\ reply[d][i].s \in recorded'
    <3>1. CASE i = Len(reply[d])
      <4>1. reply[d][i].t = "resumed" /\ reply[d][i].s <= seq /\ reply[d][i].s \in Nat
        BY <2>1, <2>2, <3>1
      <4> QED BY <1>2, <3>1, <4>1
    <3>2. CASE i # Len(reply[d])
      <4>1. reply[d][i].t = "event" /\ reply[d][i].s \in recorded
        BY <2>1, <3>2
      <4> QED BY <1>2, <3>2, <4>1
    <3> QED BY <3>1, <3>2
  <2> QED BY <1>3, <2>1, <2>3
<1>4. ASSUME NEW c \in Conns, Resumes(c) PROVE Fine(d)
  <2>1. CASE d # c
    BY <1>0, <1>1, <1>3, <1>4, <2>1, ResumesAt
  <2>2. CASE d = c
    <3> DEFINE s == req[c][1].s
    <3>1. /\ reply'[d] = ResumeReply(s) /\ s \in Nat /\ s <= seq
          /\ req[c] # <<>> /\ req[c][1].op = "resume"
      BY <1>0, <1>4, <2>2, ResumesAt DEF Resumes
    <3>2. 1 \in DOMAIN req[c]
      BY <1>0, <3>1, QueueFacts, OneLess
    <3>3. c # 1
      BY <1>0, <3>1, <3>2 DEF Requests
    <3> HIDE DEF s
    <3>4. /\ ResumeReply(s) # <<>>
          /\ \A i \in DOMAIN ResumeReply(s) :
               IF i = Len(ResumeReply(s))
                 THEN ResumeReply(s)[i] = Resumed(s)
                 ELSE \E n \in recorded : ResumeReply(s)[i] = Event(n)
      BY <1>0, <3>1, ReplyOf
    <3>5. \A n \in recorded : Event(n).t = "event" /\ Event(n).s = n
      BY DEF Event
    <3>6. Resumed(s).t = "resumed" /\ Resumed(s).s = s
      BY DEF Resumed
    <3> QED BY <1>2, <2>2, <3>1, <3>3, <3>4, <3>5, <3>6
  <2> QED BY <2>1, <2>2
<1>5. ASSUME NEW c \in Conns, FinishResume(c) PROVE Fine(d)
  BY <1>0, <1>1, <1>3, <1>5, Finishes
<1>6. CASE Produces \/ Readies
  <2>1. handler' = handler /\ reply' = reply
    BY <1>6, Zenon DEF Produces, Readies, others, handlerVars
  <2> QED BY <1>1, <1>3, <2>1
<1>7. CASE Takes
  BY <1>0, <1>1, <1>3, <1>7, TakesOne
<1>8. CASE Reconnect
  BY <1>0, <1>1, <1>3, <1>8, Reopens
<1>9. CASE SendHeartbeat
  BY <1>0, <1>1, <1>3, <1>9, Beats
<1>10. CASE Quiet
  BY <1>0, <1>1, <1>3, <1>10, Quietly
<1> QED BY <1>0, <1>4, <1>5, <1>6, <1>7, <1>8, <1>9, <1>10, Steps

LEMMA FramesKept == Inv /\ [Next]_vars => Frames'
<1> SUFFICES ASSUME Inv, [Next]_vars PROVE Frames'
  OBVIOUS
<1>0. TypeOK /\ Log /\ Replies /\ Frames
  BY DEF Inv
<1> DEFINE Fine(m) ==
      /\ m.t = "event" => m.s \in recorded'
      /\ m.t = "ready" => ~ready'
      /\ Numbered(m) => m.s <= seq'
<1>1. SUFFICES (\A i \in DOMAIN link' : Fine(link'[i])) /\ (csess' \/ conn' # 1 => ~ready')
  BY DEF Frames, Numbered
<1>2. /\ seq \in Nat /\ seq' \in Nat /\ seq <= seq' /\ recorded \subseteq recorded'
      /\ recorded \in SUBSET Nat
      /\ DOMAIN link = 1..Len(link) /\ Len(link) \in Nat
      /\ \A i \in DOMAIN link : link[i] \in Messages
  <2>1. TypeOK'
    BY <1>0, TypeKept
  <2> QED BY <1>0, <2>1, NumbersGrow, Facts DEF TypeOK, Session!TypeOK
<1>3. ASSUME ready' => ready PROVE \A i \in DOMAIN link : Fine(link[i])
  <2> SUFFICES ASSUME NEW i \in DOMAIN link PROVE Fine(link[i])
    OBVIOUS
  <2>1. /\ link[i].t = "event" => link[i].s \in recorded
        /\ link[i].t = "ready" => ~ready
        /\ Numbered(link[i]) => link[i].s <= seq /\ link[i].s \in Nat
    BY <1>0, Facts DEF Frames
  <2>2. link[i].t = "ready" => ~ready'
    BY <1>3, <2>1, Zenon
  <2>3. Numbered(link[i]) => link[i].s <= seq'
    BY <1>2, <2>1
  <2>4. link[i].t = "event" => link[i].s \in recorded'
    BY <1>2, <2>1
  <2> QED BY <2>2, <2>3, <2>4
<1>4. ASSUME NEW m \in Messages, Sends(m), Fine(m), ready' => ready
      PROVE  \A i \in DOMAIN link' : Fine(link'[i])
  <2>1. \A i \in DOMAIN link : Fine(link[i])
    BY <1>3, <1>4
  <2> HIDE DEF Fine
  <2>2. \A i \in DOMAIN link' : link'[i] = m \/ (i \in DOMAIN link /\ link'[i] = link[i])
    BY <1>2, <1>4 DEF Sends
  <2>3. Fine(m)
    BY <1>4
  <2> QED BY <2>1, <2>2, <2>3
<1>5. CASE Produces
  <2>1. Sends(Event(seq + 1)) /\ Event(seq + 1) \in Messages
    BY <1>0, <1>2, <1>5, SessionSends, MessageType
  <2>2. Fine(Event(seq + 1))
    BY <1>2, <1>5 DEF Produces, Event
  <2>3. ready' = ready /\ csess' = csess /\ conn' = conn
    BY <1>5, Zenon DEF Produces, others, clientVars
  <2>4. \A i \in DOMAIN link' : Fine(link'[i])
    BY <1>4, <2>1, <2>2, <2>3
  <2> QED BY <1>0, <2>3, <2>4 DEF Frames
<1>6. CASE Readies
  <2>1. Sends(Ready(seq + 1)) /\ Ready(seq + 1) \in Messages
    BY <1>0, <1>2, <1>6, SessionSends, MessageType
  <2>2. ~ready'
    BY <1>6, Zenon DEF Readies
  <2>3. Fine(Ready(seq + 1))
    BY <1>2, <1>6, <2>2 DEF Readies, Ready
  <2>4. \A i \in DOMAIN link' : Fine(link'[i])
    BY <1>4, <2>1, <2>2, <2>3
  <2> QED BY <2>2, <2>4
<1>7. ASSUME NEW c \in Conns, Resumes(c)
      PROVE  (\A i \in DOMAIN link' : Fine(link'[i])) /\ (csess' \/ conn' # 1 => ~ready')
  <2>1. link' = link /\ ready' = ready /\ csess' = csess /\ conn' = conn
    BY <1>0, <1>7, ResumesAt
  <2> QED BY <1>0, <1>3, <2>1 DEF Frames
<1>8. ASSUME NEW c \in Conns, FinishResume(c)
      PROVE  (\A i \in DOMAIN link' : Fine(link'[i])) /\ (csess' \/ conn' # 1 => ~ready')
  <2>1. ready' = ready /\ csess' = csess /\ conn' = conn /\ handler[c] = "awaiting"
    BY <1>0, <1>8, Finishes
  <2>2. DOMAIN reply[c] = 1..Len(reply[c]) /\ Len(reply[c]) \in Nat
    BY <1>0, QueueFacts
  <2>3. \A k \in DOMAIN reply[c] : Fine(reply[c][k])
    <3> SUFFICES ASSUME NEW k \in DOMAIN reply[c] PROVE Fine(reply[c][k])
      OBVIOUS
    <3>1. IF k = Len(reply[c]) THEN reply[c][k].t = "resumed" /\ reply[c][k].s <= seq
                               ELSE reply[c][k].t = "event" /\ reply[c][k].s \in recorded
      BY <1>0, <2>1 DEF Replies
    <3>2. reply[c][k] \in Messages
      BY <1>0, QueueFacts
    <3>3. reply[c][k].t = "event" \/ reply[c][k].t = "resumed" => reply[c][k].s \in Nat
      BY <3>2, MessageType
    <3>4. \A n \in recorded : n <= seq
      BY <1>0 DEF Log
    <3> QED BY <1>2, <3>1, <3>3, <3>4
  <2> HIDE DEF Fine
  <2>4. ASSUME NEW i \in DOMAIN link' PROVE Fine(link'[i])
    <3>1. CASE link' = link
      BY <1>3, <2>1, <2>4, <3>1
    <3>2. CASE /\ DOMAIN link' = 1..(Len(link) + Len(reply[c]))
               /\ \A j \in 1..(Len(link) + Len(reply[c])) :
                    link'[j] = IF j <= Len(link) THEN link[j] ELSE reply[c][j - Len(link)]
      <4>1. CASE i <= Len(link)
        BY <1>2, <1>3, <2>1, <2>2, <2>4, <3>2, <4>1
      <4>2. CASE ~(i <= Len(link))
        <5>1. i - Len(link) \in DOMAIN reply[c] /\ link'[i] = reply[c][i - Len(link)]
          BY <1>2, <2>2, <2>4, <3>2, <4>2
        <5> QED BY <2>3, <5>1
      <4> QED BY <4>1, <4>2
    <3> QED BY <1>0, <1>8, <3>1, <3>2, Finishes
  <2> QED BY <1>0, <2>1, <2>4 DEF Frames
<1>9. CASE Takes
  <2>1. /\ 1 \in DOMAIN link /\ ready' = ready /\ conn' = conn
        /\ DOMAIN link' = 1..(Len(link) - 1)
        /\ \A i \in 1..(Len(link) - 1) : link'[i] = link[i + 1]
    BY <1>0, <1>9, TakesOne
  <2>2. csess' => csess \/ link[1].t = "ready"
    BY <1>9, Zenon DEF Takes
  <2>3. \A i \in DOMAIN link' : i + 1 \in DOMAIN link /\ link'[i] = link[i + 1]
    BY <1>2, <2>1
  <2>4. csess' \/ conn' # 1 => ~ready'
    BY <1>0, <2>1, <2>2 DEF Frames
  <2> QED BY <1>3, <2>1, <2>3, <2>4
<1>10. CASE Reconnect
  <2>1. link' = link /\ ready' = ready /\ csess
    BY <1>0, <1>10, Reopens
  <2>2. ~ready
    BY <1>0, <2>1 DEF Frames
  <2> QED BY <1>3, <2>1, <2>2
<1>11. CASE SendHeartbeat
  <2>1. link' = link /\ ready' = ready /\ csess' = csess /\ conn' = conn
    BY <1>0, <1>11, Beats
  <2> QED BY <1>0, <1>3, <2>1 DEF Frames
<1>12. CASE Quiet
  <2>1. ready' = ready /\ conn' = conn /\ (csess' => csess)
    <3>1. ready' = ready /\ conn' = conn /\ (csess' = csess \/ csess' = FALSE)
      BY <1>12, Zenon DEF Quiet, QuietSession, QuietClient
    <3>2. csess' = FALSE => ~csess'
      OBVIOUS
    <3>3. csess' = csess => (csess' => csess)
      OBVIOUS
    <3> QED BY <3>1, <3>2, <3>3
  <2>2. ASSUME NEW i \in DOMAIN link' PROVE Fine(link'[i])
    <3>1. \/ i \in DOMAIN link /\ link'[i] = link[i]
          \/ link'[i].t \notin {"event", "ready", "resumed"}
      BY <1>0, <1>12, <2>2, Quietly
    <3> QED BY <1>3, <2>1, <3>1 DEF Numbered
  <2> QED BY <1>0, <2>1, <2>2 DEF Frames
<1> QED BY <1>0, <1>5, <1>6, <1>7, <1>8, <1>9, <1>10, <1>11, <1>12, Steps

LEMMA UnmarkedKept == Inv /\ [Next]_vars => Unmarked'
<1> SUFFICES ASSUME Inv, [Next]_vars PROVE Unmarked'
  OBVIOUS
<1>0. TypeOK /\ Log /\ Places /\ Requests /\ Replies /\ Frames /\ Unmarked
  BY DEF Inv
<1>1. /\ conn \in Conns /\ DOMAIN link = 1..Len(link) /\ Len(link) \in Nat
      /\ \A i \in DOMAIN link : link[i] \in Messages
  BY <1>0, Facts
<1> DEFINE UnresumedNext(c) ==
             handler'[c] = "awaiting" \/ \E i \in DOMAIN req'[c] : req'[c][i].op = "resume"
           Fine == cstate' # "connected" /\ \A i \in DOMAIN link' : ~Marks(link'[i])
<1>2. SUFFICES ASSUME UnresumedNext(conn') PROVE Fine
  BY DEF Unmarked, Unresumed, Marks
<1>3. ASSUME Older, \A c \in Conns : handler'[c] = "awaiting" => Unresumed(c), conn' = conn
      PROVE  cstate # "connected" /\ \A i \in DOMAIN link : ~Marks(link[i])
  <2>1. Unresumed(conn)
    BY <1>1, <1>2, <1>3 DEF Older, Unresumed
  <2> QED BY <1>0, <2>1 DEF Unmarked
<1>4. CASE Produces \/ Readies
  <2>1. /\ req' = req /\ handler' = handler /\ conn' = conn /\ cstate' = cstate
    BY <1>4, Zenon DEF Produces, Readies, others, handlerVars, clientVars
  <2>2. Unresumed(conn)
    BY <1>2, <2>1 DEF Unresumed
  <2>3. cstate # "connected" /\ \A i \in DOMAIN link : ~Marks(link[i])
    BY <1>0, <2>2 DEF Unmarked
  <2>4. conn # 1
    BY <1>0, <1>1, <2>2 DEF Unresumed, Requests, Replies
  <2>5. ~ready
    BY <1>0, <2>4 DEF Frames
  <2>6. Produces
    BY <1>4, <2>5, Zenon DEF Readies
  <2>7. Sends(Event(seq + 1)) /\ ~Marks(Event(seq + 1))
    BY <1>0, <2>6, SessionSends DEF Event, Marks
  <2> QED BY <1>1, <2>1, <2>3, <2>7 DEF Sends
<1>5. ASSUME NEW c \in Conns, Resumes(c) PROVE Fine
  <2>1. /\ conn' = conn /\ link' = link /\ cstate' = cstate
        /\ req[c] # <<>> /\ req[c][1].op = "resume"
        /\ \A d \in Conns : d # c => handler'[d] = handler[d]
    BY <1>0, <1>5, ResumesAt
  <2>2. 1 \in DOMAIN req[c]
    BY <1>0, <2>1, QueueFacts, OneLess
  <2>3. \A d \in Conns : handler'[d] = "awaiting" => Unresumed(d)
    BY <2>1, <2>2 DEF Unresumed
  <2>4. Older
    BY <1>0, <1>5, OlderRequests
  <2> QED BY <1>3, <2>1, <2>3, <2>4
<1>6. ASSUME NEW c \in Conns, FinishResume(c) PROVE Fine
  <2>1. /\ conn' = conn /\ cstate' = cstate /\ req' = req
        /\ handler[c] = "awaiting" /\ handler'[c] = "open"
        /\ \A d \in Conns : d # c => handler'[d] = handler[d]
    BY <1>0, <1>6, Finishes
  <2>2. \A i \in DOMAIN req[c] : req[c][i].op # "resume"
    BY <1>0, <2>1 DEF Requests
  <2>3. c # conn
    BY <1>2, <2>1, <2>2
  <2>4. link' = link
    BY <1>0, <1>6, <2>3, Finishes
  <2>5. Unresumed(conn)
    BY <1>1, <1>2, <2>1, <2>3 DEF Unresumed
  <2> QED BY <1>0, <2>1, <2>4, <2>5 DEF Unmarked
<1>7. CASE Takes
  <2>1. /\ UNCHANGED <<handler, req, conn>>
        /\ 1 \in DOMAIN link
        /\ cstate' = cstate \/ Marks(link[1])
        /\ DOMAIN link' = 1..(Len(link) - 1)
        /\ \A i \in 1..(Len(link) - 1) : link'[i] = link[i + 1]
    BY <1>0, <1>7, TakesOne
  <2>2. Unresumed(conn)
    BY <1>2, <2>1 DEF Unresumed
  <2>3. cstate # "connected" /\ \A i \in DOMAIN link : ~Marks(link[i])
    BY <1>0, <2>2 DEF Unmarked
  <2>4. \A i \in DOMAIN link' : i + 1 \in DOMAIN link /\ link'[i] = link[i + 1]
    BY <1>1, <2>1
  <2> QED BY <2>1, <2>3, <2>4
<1>8. CASE Reconnect
  <2>1. link' = link /\ cstate = "offline" /\ cstate' = "connecting"
    BY <1>0, <1>8, Reopens
  <2>2. link = <<>>
    BY <1>0, <2>1 DEF Places, Online
  <2> QED BY <2>1, <2>2
<1>9. CASE SendHeartbeat
  <2>1. /\ conn' = conn /\ link' = link /\ cstate' = cstate /\ handler' = handler
        /\ DOMAIN req'[conn] = 1..(Len(req[conn]) + 1)
        /\ \A i \in 1..Len(req[conn]) : req'[conn][i] = req[conn][i]
        /\ req'[conn][Len(req[conn]) + 1].op = "heartbeat"
    BY <1>0, <1>9, Beats
  <2>2. DOMAIN req[conn] = 1..Len(req[conn]) /\ Len(req[conn]) \in Nat
    BY <1>0, <1>1, QueueFacts
  <2>3. \A i \in DOMAIN req'[conn] :
          req'[conn][i].op = "resume" => i \in DOMAIN req[conn] /\ req'[conn][i] = req[conn][i]
    BY <2>1, <2>2
  <2>4. Unresumed(conn)
    BY <1>2, <2>1, <2>3 DEF Unresumed
  <2> QED BY <1>0, <2>1, <2>4 DEF Unmarked
<1>10. CASE Quiet
  <2>1. Older /\ conn' = conn
    BY <1>0, <1>10, OlderRequests, Quietly
  <2>2. \A c \in Conns : handler'[c] = "awaiting" => Unresumed(c)
    BY <1>0, <1>10, Quietly DEF Unresumed
  <2>3. cstate # "connected" /\ \A i \in DOMAIN link : ~Marks(link[i])
    BY <1>3, <2>1, <2>2
  <2>4. cstate' # "connected"
    BY <1>0, <1>10, <2>3, Quietly
  <2>5. \A i \in DOMAIN link' : \/ i \in DOMAIN link /\ link'[i] = link[i]
                                \/ link'[i].t \notin {"event", "ready", "resumed"}
    BY <1>0, <1>10, Quietly
  <2> QED BY <2>3, <2>4, <2>5 DEF Marks
<1> QED BY <1>0, <1>4, <1>5, <1>6, <1>7, <1>8, <1>9, <1>10, Steps

LEMMA ClaimsKept == Inv /\ [Next]_vars => Claims'
<1> SUFFICES ASSUME Inv, [Next]_vars PROVE Claims'
  OBVIOUS
<1>0. TypeOK /\ Log /\ Requests /\ Frames /\ Claims /\ InOrder
  BY DEF Inv
<1>1. /\ seq \in Nat /\ seq' \in Nat /\ seq <= seq' /\ ack \in Nat /\ ack' \in Nat
      /\ cseq \in Nat /\ cseq' \in Nat
      /\ recorded \in SUBSET Nat /\ (~misled' => ~misled)
      /\ Good' => Good /\ cseq <= cseq'
      /\ got \subseteq got'
  <2>1. TypeOK'
    BY <1>0, TypeKept
  <2> QED BY <1>0, <2>1, NumbersGrow, Facts DEF TypeOK, Session!TypeOK
<1> DEFINE Fine == /\ ~misled' => cseq' <= seq'
                   /\ Good' => ack' <= cseq' /\ \A n \in recorded' : n <= cseq' => n \in got'
<1>2. SUFFICES Fine
  BY DEF Claims, Good
<1>3. ASSUME cseq' = cseq, ack' = ack, recorded' = recorded
      PROVE  Fine
  <2>1. ~misled' => cseq' <= seq'
    BY <1>0, <1>1, <1>3 DEF Claims
  <2>2. ASSUME Good' PROVE ack' <= cseq' /\ \A n \in recorded' : n <= cseq' => n \in got'
    BY <1>0, <1>1, <1>3, <2>2 DEF Claims
  <2> QED BY <2>1, <2>2
<1>4. CASE Produces
  <2>1. /\ seq' = seq + 1 /\ recorded' = recorded \union {seq + 1} /\ ack' = ack
    BY <1>4, Zenon DEF Produces
  <2>2. cseq' = cseq /\ got' = got
    BY <1>4, Zenon DEF Produces, others, clientVars
  <2>3. ~misled' => cseq' <= seq' /\ cseq <= seq
    BY <1>0, <1>1, <2>1, <2>2 DEF Claims
  <2>4. ASSUME Good' PROVE ack' <= cseq' /\ \A n \in recorded' : n <= cseq' => n \in got'
    <3>1. Good /\ cseq <= seq
      BY <1>1, <2>3, <2>4 DEF Good
    <3>2. ack <= cseq /\ \A n \in recorded : n <= cseq => n \in got
      BY <1>0, <3>1 DEF Claims
    <3> QED BY <1>1, <2>1, <2>2, <3>1, <3>2
  <2> QED BY <2>3, <2>4
<1>5. CASE Readies
  BY <1>3, <1>5, Zenon DEF Readies, others, clientVars
<1>6. ASSUME NEW c \in Conns, Resumes(c) \/ FinishResume(c) PROVE Fine
  <2>1. cseq' = cseq /\ ack' = ack /\ recorded' = recorded
    BY <1>0, <1>6, ResumesAt, Finishes
  <2> QED BY <1>3, <2>1
<1>7. CASE Reconnect \/ SendHeartbeat
  <2>1. cseq' = cseq /\ ack' = ack /\ recorded' = recorded
    BY <1>0, <1>7, Reopens, Beats
  <2> QED BY <1>3, <2>1
<1>8. CASE Takes
  <2> DEFINE m == link[1]
  <2>1. /\ 1 \in DOMAIN link /\ m.s \in Nat /\ Online
        /\ UNCHANGED <<seq, ack, recorded>>
        /\ \A n : n \in got \/ m = Event(n) => n \in got'
    BY <1>0, <1>8, TakesOne
  <2>2. m.t \in {"event", "leave", "ready", "resumed"}
    BY <1>8 DEF Takes
  <2>3. cseq' = cseq \/ (cstate = "connected" /\ cseq' = m.s /\ m.s > cseq)
    BY <1>8 DEF Takes, Advanced
  <2>4. CASE cseq' = cseq
    BY <1>3, <2>1, <2>4
  <2>5. CASE cstate = "connected" /\ cseq' = m.s /\ m.s > cseq
    <3>1. m.t = "leave" => misled'
      <4>1. cseq' # cseq
        BY <1>1, <2>1, <2>5
      <4>2. misled' = (misled \/ (m.t = "leave" /\ cseq' # cseq))
        BY <1>8, Zenon DEF Takes
      <4> QED BY <4>1, <4>2, Zenon
    <3>2. ASSUME ~misled' PROVE Numbered(m) /\ cseq' <= seq'
      <4>1. Numbered(m)
        BY <2>2, <3>1, <3>2 DEF Numbered
      <4> QED BY <1>0, <2>1, <2>5, <4>1 DEF Frames
    <3>3. ASSUME Good' PROVE ack' <= cseq' /\ \A n \in recorded' : n <= cseq' => n \in got'
      <4>1. Good /\ ~misled'
        BY <1>1, <3>3 DEF Good
      <4>2. Numbered(m) /\ Advancing(1)
        BY <2>5, <3>2, <4>1 DEF Advancing
      <4>3. \A n \in recorded : n <= m.s =>
              n \in got \/ \E j \in DOMAIN link : j <= 1 /\ link[j] = Event(n)
        BY <1>0, <2>1, <4>1, <4>2 DEF InOrder
      <4>4. \A j \in DOMAIN link : j <= 1 => j = 1
        BY <1>0, Facts
      <4>5. ack <= cseq
        BY <1>0, <4>1 DEF Claims
      <4> QED BY <1>1, <2>1, <2>5, <4>3, <4>4, <4>5
    <3> QED BY <3>2, <3>3
  <2> QED BY <2>3, <2>4, <2>5
<1>9. CASE Quiet
  <2>1. /\ seq' = seq /\ recorded' = recorded /\ got' = got /\ (misled' = misled)
        /\ cseq' = cseq \/ cseq' = 0
        /\ Good' => Good /\ cseq' = cseq
        /\ UNCHANGED <<ack, buffer>> \/ Acknowledges
    BY <1>0, <1>9, Quietly, Zenon
  <2>2. ~misled' => cseq' <= seq'
    BY <1>0, <1>1, <2>1 DEF Claims
  <2>3. ASSUME Good' PROVE ack' <= cseq' /\ \A n \in recorded' : n <= cseq' => n \in got'
    <3>1. Good /\ cseq' = cseq /\ ack <= cseq /\ \A n \in recorded : n <= cseq => n \in got
      BY <1>0, <2>1, <2>3 DEF Claims
    <3>2. ack' <= cseq
      <4>1. CASE UNCHANGED <<ack, buffer>>
        BY <3>1, <4>1
      <4>2. ASSUME NEW c \in Conns, req[c] # <<>>, ack' = req[c][1].s PROVE ack' <= cseq
        <5>1. 1 \in DOMAIN req[c]
          BY <1>0, <4>2, QueueFacts, OneLess
        <5> QED BY <1>0, <3>1, <4>2, <5>1 DEF Requests
      <4> QED BY <2>1, <4>1, <4>2 DEF Acknowledges
    <3> QED BY <2>1, <3>1, <3>2
  <2> QED BY <2>2, <2>3
<1> QED BY <1>0, <1>4, <1>5, <1>6, <1>7, <1>8, <1>9, Steps

\* A resume is refused only for a number the session did not give.
LEMMA RefusedKept == Inv /\ [Next]_vars => ResumeNeverRefused'
<1> SUFFICES ASSUME Inv, [Next]_vars, ~misled', refused' PROVE FALSE
  BY DEF ResumeNeverRefused
<1>0. TypeOK /\ Log /\ Requests /\ HandlerType
  BY TypeParts DEF Inv
<1>1. ~misled
  BY <1>0, NumbersGrow
<1>2. ~refused
  BY <1>1, Zenon DEF Inv, ResumeNeverRefused
<1>3. CASE Produces \/ Readies
  BY <1>2, <1>3, Zenon DEF Produces, Readies, others
<1>4. ASSUME NEW c \in Conns, Resumes(c) \/ FinishResume(c) PROVE FALSE
  BY <1>2, <1>4, Zenon DEF Resumes, FinishResume
<1>5. CASE Takes \/ Reconnect \/ SendHeartbeat
  BY <1>2, <1>5, Zenon DEF Takes, Reconnect, SendHeartbeat
<1>6. CASE Quiet
  <2>1. PICK c \in Conns : Pending(c, "resume") /\ seq < req[c][1].s
    BY <1>2, <1>6, Zenon DEF Quiet, QuietReplies
  <2>2. 1 \in DOMAIN req[c] /\ req[c][1].s \in Nat
    BY <1>0, <2>1, FirstRequest
  <2>3. req[c][1].s <= seq
    BY <1>0, <1>1, <2>2 DEF Requests
  <2> QED BY <1>0, <2>1, <2>2, <2>3, Facts
<1> QED BY <1>0, <1>3, <1>4, <1>5, <1>6, Steps

LEMMA InOrderKept == Inv /\ [Next]_vars => InOrder'
<1> SUFFICES ASSUME Inv, [Next]_vars PROVE InOrder'
  OBVIOUS
<1>0. TypeOK /\ Log /\ Places /\ Replies /\ Frames /\ Unmarked /\ InOrder /\ Covered
  BY DEF Inv
<1>1. /\ seq \in Nat /\ recorded \in SUBSET Nat /\ conn \in Conns
      /\ DOMAIN link = 1..Len(link) /\ Len(link) \in Nat
      /\ \A i \in DOMAIN link : Numbered(link[i]) => link[i].s \in Nat
      /\ Good' => Good
      /\ got \subseteq got'
  BY <1>0, Facts, NumbersGrow
<1> DEFINE AdvancingNext(i) ==
             cstate' = "connected" \/ \E j \in DOMAIN link' : j < i /\ Marks(link'[j])
           Fine(i) ==
             \A n \in recorded' : n <= link'[i].s =>
               n \in got' \/ \E j \in DOMAIN link' : j <= i /\ link'[j] = Event(n)
<1>2. SUFFICES ASSUME Good, NEW i \in DOMAIN link', Numbered(link'[i]), AdvancingNext(i)
               PROVE  Fine(i)
  <2>1. InOrder' = (Good' => \A i \in DOMAIN link' : Numbered(link'[i]) /\ AdvancingNext(i) => Fine(i))
    BY DEF InOrder, Advancing, Numbered, Marks, Event
  <2> QED BY <1>1, <2>1
<1>3. ASSUME NEW k \in DOMAIN link, Numbered(link[k]), Advancing(k)
      PROVE  \A n \in recorded : n <= link[k].s =>
               n \in got \/ \E j \in DOMAIN link : j <= k /\ link[j] = Event(n)
  BY <1>0, <1>2, <1>3 DEF InOrder
<1>4. ASSUME NEW m, Sends(m), m.s = seq + 1, cstate' = cstate, got' = got, up,
             recorded' = recorded \/ (recorded' = recorded \cup {seq + 1} /\ m = Event(seq + 1))
      PROVE  Fine(i)
  <2>1. CASE i \in DOMAIN link /\ DOMAIN link \subseteq DOMAIN link'
             /\ \A j \in DOMAIN link : link'[j] = link[j]
    <3>1. Numbered(link[i]) /\ Advancing(i)
      <4>1. \A j \in DOMAIN link' : j < i => j \in DOMAIN link
        BY <1>1, <1>4, <2>1 DEF Sends
      <4> QED BY <1>2, <1>4, <2>1, <4>1 DEF Advancing
    <3>2. link[i].s <= seq /\ link[i].s \in Nat
      BY <1>0, <1>1, <2>1, <3>1 DEF Frames
    <3>3. \A n \in recorded' : n <= link[i].s => n \in recorded
      BY <1>1, <1>4, <3>2
    <3> QED BY <1>3, <1>4, <2>1, <3>1, <3>3
  <2>2. CASE link' = link
    BY <1>2, <2>1, <2>2
  <2>3. CASE /\ sock = conn /\ Online /\ handler[conn] # "dead"
             /\ DOMAIN link' = 1..(Len(link) + 1)
             /\ \A j \in 1..Len(link) : link'[j] = link[j]
             /\ link'[Len(link) + 1] = m
    <3>1. CASE i \in DOMAIN link
      BY <1>1, <2>1, <2>3, <3>1
    <3>2. CASE i = Len(link) + 1
      <4>1. \A j \in DOMAIN link' : j < i => j \in DOMAIN link /\ link'[j] = link[j]
        BY <1>1, <2>3, <3>2
      <4>2. cstate = "connected" \/ \E j \in DOMAIN link : Marks(link[j])
        BY <1>2, <1>4, <4>1
      <4>3. handler[conn] # "awaiting"
        BY <1>0, <4>2 DEF Unmarked, Unresumed
      <4>4. \A n \in recorded : n \in got \/ \E j \in DOMAIN link : link[j] = Event(n)
        BY <1>0, <1>2, <1>4, <2>3, <4>3 DEF Covered, OnItsSocket, Lacks
      <4>5. ASSUME NEW n \in recorded'
            PROVE  n \in got' \/ \E j \in DOMAIN link' : j <= i /\ link'[j] = Event(n)
        <5>1. CASE n \in recorded
          <6>1. \A j \in DOMAIN link : j \in DOMAIN link' /\ j <= i /\ link'[j] = link[j]
            BY <1>1, <2>3, <3>2
          <6> QED BY <1>4, <4>4, <5>1, <6>1
        <5>2. CASE n \notin recorded
          <6>1. m = Event(n)
            BY <1>4, <4>5, <5>2
          <6>2. i <= i /\ link'[i] = m
            BY <1>1, <2>3, <3>2
          <6> QED BY <1>2, <6>1, <6>2
        <5> QED BY <5>1, <5>2
      <4> QED BY <4>5
    <3> QED BY <1>1, <1>2, <2>3, <3>1, <3>2
  <2> QED BY <1>4, <2>2, <2>3 DEF Sends
<1>5. CASE Produces
  <2>1. Sends(Event(seq + 1)) /\ Event(seq + 1).s = seq + 1
    BY <1>0, <1>5, SessionSends DEF Event
  <2>2. up /\ recorded' = recorded \cup {seq + 1} /\ cstate' = cstate /\ got' = got
    BY <1>5, Zenon DEF Produces, others, clientVars
  <2> QED BY <1>4, <2>1, <2>2
<1>6. CASE Readies
  <2>1. Sends(Ready(seq + 1)) /\ Ready(seq + 1).s = seq + 1
    BY <1>0, <1>6, SessionSends DEF Ready
  <2>2. up /\ recorded' = recorded /\ cstate' = cstate /\ got' = got
    BY <1>6, Zenon DEF Readies, others, clientVars
  <2> QED BY <1>4, <2>1, <2>2
<1>7. ASSUME link' = link, cstate' = cstate, recorded' = recorded, got' = got PROVE Fine(i)
  <2>1. Numbered(link[i]) /\ Advancing(i)
    BY <1>2, <1>7 DEF Advancing
  <2> QED BY <1>2, <1>3, <1>7, <2>1
<1>8. ASSUME NEW c \in Conns, Resumes(c) PROVE Fine(i)
  BY <1>0, <1>7, <1>8, ResumesAt
<1>9. ASSUME NEW c \in Conns, FinishResume(c) PROVE Fine(i)
  <2>1. cstate' = cstate /\ recorded' = recorded /\ got' = got /\ handler[c] = "awaiting"
    BY <1>0, <1>9, Finishes
  <2>2. CASE link' = link
    BY <1>7, <2>1, <2>2
  <2>3. CASE /\ c = conn
             /\ DOMAIN link' = 1..(Len(link) + Len(reply[c]))
             /\ \A k \in 1..(Len(link) + Len(reply[c])) :
                  link'[k] = IF k <= Len(link) THEN link[k] ELSE reply[c][k - Len(link)]
    <3>1. cstate # "connected" /\ \A j \in DOMAIN link : ~Marks(link[j])
      BY <1>0, <2>1, <2>3 DEF Unmarked, Unresumed
    <3>2. PICK j \in DOMAIN link' : j < i /\ Marks(link'[j])
      BY <1>2, <2>1, <3>1
    <3>3. DOMAIN reply[c] = 1..Len(reply[c]) /\ Len(reply[c]) \in Nat
      BY <1>0, QueueFacts
    <3>4. ~(j <= Len(link))
      <4> SUFFICES ASSUME j <= Len(link) PROVE FALSE
        OBVIOUS
      <4>1. j \in DOMAIN link /\ link'[j] = link[j]
        BY <1>1, <2>3, <3>2, <3>3
      <4> QED BY <3>1, <3>2, <4>1
    <3>5. /\ j - Len(link) \in DOMAIN reply[c] /\ j - Len(link) # Len(reply[c])
          /\ link'[j] = reply[c][j - Len(link)]
      BY <1>1, <1>2, <2>3, <3>2, <3>3, <3>4
    <3>6. link'[j].t = "event"
      BY <1>0, <2>1, <3>5 DEF Replies
    <3> QED BY <3>2, <3>6 DEF Marks
  <2> QED BY <1>0, <1>9, <2>2, <2>3, Finishes
<1>10. CASE Takes
  <2>1. /\ 1 \in DOMAIN link /\ recorded' = recorded
        /\ DOMAIN link' = 1..(Len(link) - 1)
        /\ \A k \in 1..(Len(link) - 1) : link'[k] = link[k + 1]
        /\ cstate' = cstate \/ Marks(link[1])
        /\ \A n : n \in got \/ link[1] = Event(n) => n \in got'
    BY <1>0, <1>10, TakesOne
  <2>2. /\ i \in Nat /\ 1 <= i /\ 1 < i + 1 /\ i + 1 \in DOMAIN link /\ link'[i] = link[i + 1]
        /\ \A j \in DOMAIN link' : j + 1 \in DOMAIN link /\ link'[j] = link[j + 1]
        /\ \A j \in DOMAIN link' : j < i => j + 1 < i + 1
    BY <1>1, <1>2, <2>1
  <2>3. Numbered(link[i + 1]) /\ Advancing(i + 1)
    BY <1>2, <2>1, <2>2 DEF Advancing
  <2>4. ASSUME NEW n \in recorded, n <= link[i + 1].s, n \notin got'
        PROVE  \E j \in DOMAIN link' : j <= i /\ link'[j] = Event(n)
    <3>1. n \notin got /\ link[1] # Event(n)
      BY <2>1, <2>4
    <3>2. PICK j \in DOMAIN link : j <= i + 1 /\ link[j] = Event(n)
      BY <1>3, <2>2, <2>3, <2>4, <3>1
    <3>3. j # 1
      BY <3>1, <3>2
    <3>4. j - 1 \in DOMAIN link' /\ j - 1 <= i /\ link'[j - 1] = link[j]
      BY <1>1, <2>1, <2>2, <3>2, <3>3
    <3> QED BY <3>2, <3>4
  <2> QED BY <2>1, <2>2, <2>4
<1>11. CASE Reconnect
  <2>1. link' = link /\ cstate = "offline"
    BY <1>0, <1>11, Reopens
  <2>2. link = <<>>
    BY <1>0, <2>1 DEF Places, Online
  <2> QED BY <1>2, <2>1, <2>2
<1>12. CASE SendHeartbeat
  BY <1>0, <1>7, <1>12, Beats
<1>13. CASE Quiet
  <2>1. /\ recorded' = recorded /\ got' = got
        /\ Len(link') \in Nat /\ DOMAIN link' = 1..Len(link')
        /\ \A k \in DOMAIN link' : \/ k \in DOMAIN link /\ link'[k] = link[k]
                                   \/ k \notin DOMAIN link /\ link'[k].t \notin {"event", "ready", "resumed"}
        /\ cstate' = "connected" => cstate = "connected"
    BY <1>0, <1>13, Quietly
  <2>2. \A k \in DOMAIN link' : Numbered(link'[k]) \/ Marks(link'[k]) =>
          k \in DOMAIN link /\ link'[k] = link[k]
    BY <2>1 DEF Numbered, Marks
  <2>3. i \in DOMAIN link /\ link'[i] = link[i] /\ Numbered(link[i]) /\ Advancing(i)
    BY <1>2, <2>1, <2>2 DEF Advancing
  <2>4. \A j \in DOMAIN link : j <= i => j \in DOMAIN link' /\ link'[j] = link[j]
    BY <1>1, <1>2, <2>1, <2>3
  <2> QED BY <1>3, <2>1, <2>3, <2>4
<1> QED BY <1>0, <1>5, <1>6, <1>8, <1>9, <1>10, <1>11, <1>12, <1>13, Steps

LEMMA CoveredKept == Inv /\ [Next]_vars => Covered'
<1> SUFFICES ASSUME Inv, [Next]_vars PROVE Covered'
  OBVIOUS
<1>0. TypeOK /\ Log /\ Places /\ Requests /\ Claims /\ Covered
  BY DEF Inv
<1>1. /\ seq \in Nat /\ recorded \in SUBSET Nat /\ conn \in Conns
      /\ ack \in Nat /\ cseq \in Nat
      /\ Conns \subseteq Nat /\ NoSocket \notin Conns
      /\ DOMAIN link = 1..Len(link) /\ Len(link) \in Nat
      /\ Good' => Good
      /\ got \subseteq got'
  BY <1>0, Facts, NumbersGrow
<1> DEFINE OnItsSocketNext == up' /\ Online' /\ sock' = conn' /\ handler'[conn'] # "dead"
           LacksNext(n) == n \notin got' /\ \A i \in DOMAIN link' : link'[i] # Event(n)
           Held(n) == /\ handler'[conn'] = "awaiting"
                      /\ \E i \in DOMAIN reply'[conn'] : reply'[conn'][i] = Event(n)
<1>2. SUFFICES ASSUME Good, OnItsSocketNext, NEW n \in recorded', LacksNext(n) PROVE Held(n)
  <2>1. Covered' = (Good' /\ OnItsSocketNext => \A n \in recorded' : LacksNext(n) => Held(n))
    BY DEF Covered, OnItsSocket, Lacks, Event
  <2> QED BY <1>1, <2>1
<1>3. ASSUME OnItsSocket, n \in recorded,
             \A i \in DOMAIN link : link[i] = Event(n) =>
               n \in got' \/ \E j \in DOMAIN link' : link'[j] = Event(n),
             conn' = conn, handler'[conn] = handler[conn], reply'[conn] = reply[conn]
      PROVE  Held(n)
  <2>1. Lacks(n)
    BY <1>1, <1>2, <1>3 DEF Lacks
  <2>2. handler[conn] = "awaiting" /\ \E i \in DOMAIN reply[conn] : reply[conn][i] = Event(n)
    BY <1>0, <1>2, <1>3, <2>1 DEF Covered
  <2> QED BY <1>3, <2>2
<1>4. CASE Produces \/ Readies
  <2>1. /\ up = up' /\ UNCHANGED <<sock, handler, reply, conn, cstate, got>>
    BY <1>4, Zenon DEF Produces, Readies, others, handlerVars, clientVars
  <2>2. OnItsSocket
    BY <1>2, <2>1 DEF OnItsSocket, Online
  <2>3. PICK m : /\ Sends(m)
                 /\ recorded' = recorded \/ (recorded' = recorded \cup {seq + 1} /\ m = Event(seq + 1))
    <3>1. CASE Produces
      BY <1>0, <3>1, SessionSends DEF Produces
    <3>2. CASE Readies
      BY <1>0, <3>2, SessionSends DEF Readies
    <3> QED BY <1>4, <3>1, <3>2
  <2>4. /\ DOMAIN link' = 1..(Len(link) + 1)
        /\ \A i \in 1..Len(link) : link'[i] = link[i]
        /\ link'[Len(link) + 1] = m
    BY <2>2, <2>3 DEF OnItsSocket, Sends
  <2>5. \A i \in DOMAIN link : i \in DOMAIN link' /\ link'[i] = link[i]
    BY <1>1, <2>4
  <2>6. n \in recorded
    <3>1. Len(link) + 1 \in DOMAIN link'
      BY <1>1, <2>4
    <3> QED BY <1>2, <2>3, <2>4, <3>1
  <2> QED BY <1>3, <2>1, <2>2, <2>5, <2>6
<1>5. ASSUME NEW c \in Conns, Resumes(c) PROVE Held(n)
  <2>1. sock' = c
    BY <1>5 DEF Resumes
  <2> DEFINE s == req[c][1].s
  <2>2. /\ req[c] # <<>> /\ s \in Nat
        /\ handler'[c] = "awaiting" /\ reply'[c] = ResumeReply(s)
        /\ UNCHANGED <<recorded, link, conn, got>>
    BY <1>0, <1>5, ResumesAt
  <2>3. c = conn /\ conn' = conn
    BY <1>2, <2>1, <2>2
  <2>4. 1 \in DOMAIN req[c]
    BY <1>0, <2>2, QueueFacts, OneLess
  <2>5. s <= cseq
    BY <1>0, <1>2, <2>4 DEF Requests
  <2> HIDE DEF s
  <2>6. n \notin got /\ n \in recorded
    BY <1>2, <2>2
  <2>7. ack <= cseq /\ (n <= cseq => n \in got)
    BY <1>0, <1>2, <2>6 DEF Claims
  <2>8. n \in buffer \/ n <= ack
    BY <1>0, <2>6 DEF Log
  <2>9. n \in buffer /\ n > s
    BY <1>1, <2>2, <2>5, <2>6, <2>7, <2>8
  <2>10. \E i \in DOMAIN ResumeReply(s) : ResumeReply(s)[i] = Event(n)
    BY <1>0, <2>2, <2>9, ReplyOf
  <2> QED BY <2>2, <2>3, <2>10
<1>6. ASSUME NEW c \in Conns, FinishResume(c) PROVE Held(n)
  <2>1. /\ handler[c] = "awaiting" /\ UNCHANGED <<up, sock, conn, cstate, recorded, got>>
        /\ \A d \in Conns : d # c => handler'[d] = handler[d] /\ reply'[d] = reply[d]
    BY <1>0, <1>6, Finishes
  <2>2. CASE c # conn
    <3>1. link' = link
      BY <1>0, <1>6, <2>2, Finishes
    <3>2. OnItsSocket
      BY <1>1, <1>2, <2>1, <2>2 DEF OnItsSocket, Online
    <3> QED BY <1>1, <1>2, <1>3, <2>1, <2>2, <3>1, <3>2
  <2>3. CASE c = conn
    <3>1. OnItsSocket
      BY <1>2, <2>1, <2>3 DEF OnItsSocket, Online
    <3>2. /\ DOMAIN link' = 1..(Len(link) + Len(reply[c]))
          /\ \A k \in 1..(Len(link) + Len(reply[c])) :
               link'[k] = IF k <= Len(link) THEN link[k] ELSE reply[c][k - Len(link)]
      BY <1>0, <1>6, <2>3, <3>1, Finishes DEF OnItsSocket
    <3>3. DOMAIN reply[c] = 1..Len(reply[c]) /\ Len(reply[c]) \in Nat
      BY <1>0, QueueFacts
    <3>4. \A i \in DOMAIN link : i \in DOMAIN link' /\ link'[i] = link[i]
      BY <1>1, <3>2, <3>3
    <3>5. \A i \in DOMAIN reply[c] : Len(link) + i \in DOMAIN link' /\ link'[Len(link) + i] = reply[c][i]
      BY <1>1, <3>2, <3>3
    <3>6. Lacks(n)
      BY <1>2, <2>1, <3>4 DEF Lacks
    <3>7. \E i \in DOMAIN reply[c] : reply[c][i] = Event(n)
      BY <1>0, <1>2, <2>1, <2>3, <3>1, <3>6 DEF Covered
    <3> QED BY <1>2, <3>5, <3>7
  <2> QED BY <2>2, <2>3
<1>7. CASE Takes
  <2>1. /\ UNCHANGED <<up, sock, conn, handler, reply, recorded>> /\ Online
        /\ DOMAIN link' = 1..(Len(link) - 1)
        /\ \A k \in 1..(Len(link) - 1) : link'[k] = link[k + 1]
        /\ \A k : k \in got \/ link[1] = Event(k) => k \in got'
    BY <1>0, <1>7, TakesOne
  <2>2. OnItsSocket
    BY <1>2, <2>1 DEF OnItsSocket
  <2>3. ASSUME NEW i \in DOMAIN link, link[i] = Event(n)
        PROVE  n \in got' \/ \E j \in DOMAIN link' : link'[j] = Event(n)
    <3>1. CASE i = 1
      BY <2>1, <2>3, <3>1
    <3>2. CASE i # 1
      <4>1. i - 1 \in DOMAIN link' /\ link'[i - 1] = link[i]
        BY <1>1, <2>1, <2>3, <3>2
      <4> QED BY <2>3, <4>1
    <3> QED BY <3>1, <3>2
  <2> QED BY <1>2, <1>3, <2>1, <2>2, <2>3
<1>8. CASE Reconnect
  <2>1. conn' = conn + 1 /\ sock' = sock /\ conn + 1 \in Conns
    BY <1>0, <1>8, Reopens
  <2>2. sock # NoSocket /\ sock = conn + 1
    BY <1>1, <1>2, <2>1
  <2>3. sock <= conn
    BY <1>0, <2>2 DEF Places
  <2> QED BY <1>1, <2>2, <2>3
<1>9. CASE SendHeartbeat
  <2>1. UNCHANGED <<up, sock, conn, cstate, handler, reply, recorded, got, link>>
    BY <1>0, <1>9, Beats
  <2>2. OnItsSocket
    BY <1>2, <2>1 DEF OnItsSocket, Online
  <2> QED BY <1>2, <1>3, <2>1, <2>2
<1>10. CASE Quiet
  <2>1. /\ UNCHANGED <<recorded, conn, got>> /\ (up' => up)
        /\ sock' = sock \/ sock' = NoSocket
        /\ Online' => Online /\ cstate' = cstate
        /\ (handler'[conn] = handler[conn] /\ reply'[conn] = reply[conn]) \/ handler'[conn] = "dead"
        /\ \A i \in DOMAIN link' : i \in DOMAIN link => link'[i] = link[i]
        /\ DOMAIN link \subseteq DOMAIN link' \/ cstate' \in {"offline", "gone"} \/ handler'[conn] = "dead"
    BY <1>0, <1>1, <1>10, Quietly
  <2>2. handler'[conn] # "dead" /\ Online'
    BY <1>2, <2>1
  <2>3. OnItsSocket
    BY <1>1, <1>2, <2>1, <2>2 DEF OnItsSocket
  <2>4. \A i \in DOMAIN link : i \in DOMAIN link' /\ link'[i] = link[i]
    BY <2>1, <2>2 DEF Online
  <2> QED BY <1>2, <1>3, <2>1, <2>2, <2>3, <2>4
<1> QED BY <1>0, <1>4, <1>5, <1>6, <1>7, <1>8, <1>9, <1>10, Steps

-----------------------------------------------------------------------------
(* The theorems.                                                           *)

\* Every state of every behaviour satisfies the invariant.
THEOREM InvHolds == Spec => []Inv
<1>1. Inv /\ [Next]_vars => Inv'
  <2> SUFFICES ASSUME Inv, [Next]_vars PROVE Inv'
    OBVIOUS
  <2>1. TypeOK /\ Log
    BY DEF Inv
  <2>2. TypeOK' /\ Log'
    BY <2>1, TypeKept, LogKept
  <2>3. Places' /\ Requests' /\ Replies' /\ Frames' /\ Unmarked'
    BY PlacesKept, RequestsKept, RepliesKept, FramesKept, UnmarkedKept
  <2>4. Claims' /\ InOrder' /\ Covered' /\ ResumeNeverRefused'
    BY ClaimsKept, InOrderKept, CoveredKept, RefusedKept
  <2> QED BY <2>2, <2>3, <2>4 DEF Inv
<1> QED BY <1>1, InitInv, PTL DEF Spec

\* The variables of the session, the handlers and the client keep their types.
THEOREM TypesHold == Spec => []TypeOK
<1>1. Inv => TypeOK
  BY DEF Inv
<1> QED BY <1>1, InvHolds, PTL

\* Resuming leaves no gap for a client that no guild_delete misled, however
\* often connections die and whatever overtakes the replay.
THEOREM NoGapHolds == Spec => []NoGapUnlessMisled
<1>1. Inv => NoGapUnlessMisled
  <2> SUFFICES ASSUME Inv, ~misled, Attached, NEW n \in recorded, n \notin got
               PROVE  \E i \in DOMAIN link : link[i] = Event(n)
    BY DEF NoGapUnlessMisled, NoGap
  <2>1. Unmarked /\ Covered
    BY DEF Inv
  <2>2. Good /\ OnItsSocket /\ cstate = "connected"
    BY DEF Attached, Good, OnItsSocket, Online
  <2>3. handler[conn] # "awaiting"
    BY <2>1, <2>2 DEF Unmarked, Unresumed
  <2> QED BY <2>1, <2>2, <2>3 DEF Covered, Lacks
<1> QED BY <1>1, InvHolds, PTL

\* Neither the client's claim nor the session's belief runs ahead of what the
\* application got.
THEOREM AckHolds == Spec => []AckOnlyReceived
<1>1. Inv => AckOnlyReceived
  BY DEF Inv, Claims, Good, AckOnlyReceived
<1> QED BY <1>1, InvHolds, PTL

\* A client that no guild_delete misled is never refused its resume.
THEOREM ResumeAccepts == Spec => []ResumeNeverRefused
<1>1. Inv => ResumeNeverRefused
  BY DEF Inv
<1> QED BY <1>1, InvHolds, PTL

\* The two ends keep the session: the stream is open.
Opened == up /\ cstate # "gone" /\ ~misled

LEMMA StreamInit == Init => Stream!Init
<1> SUFFICES ASSUME Init PROVE Stream!Init
  OBVIOUS
<1>1. Opened = TRUE
  <2>1. up = TRUE /\ misled = FALSE
    BY Zenon DEF Init, Session!Init
  <2>2. cstate = "connecting"
    BY Zenon DEF Init
  <2> QED BY <2>1, <2>2 DEF Opened
<1>2. recorded = {} /\ got = {} /\ cseq = 0 /\ ack = 0
  BY Zenon DEF Init, Session!Init
<1> QED BY <1>1, <1>2, Zenon DEF Stream!Init, Opened

\* While the stream is open, a step produces, delivers, acknowledges or shows nothing.
LEMMA StreamStep ==
  ASSUME Inv, Inv', [Next]_vars
  PROVE  Stream!Next \/ UNCHANGED Stream!vars
<1>0. TypeOK /\ Log /\ Frames /\ Claims /\ Claims'
  BY DEF Inv
<1>1. SUFFICES ASSUME Opened, Opened' PROVE Stream!Next \/ UNCHANGED Stream!vars
  BY Zenon DEF Opened, Stream!Next
<1>2. /\ seq \in Nat /\ ack \in Nat /\ cseq \in Nat /\ recorded \in SUBSET Nat
      /\ Good /\ Good' /\ up /\ up'
      /\ cseq <= seq /\ cseq <= cseq' /\ ack' <= cseq'
      /\ \A n \in recorded' : n <= cseq' => n \in got'
  <2>1. up /\ Good /\ up' /\ Good'
    BY <1>1, Zenon DEF Opened, Good
  <2>2. ~misled /\ ~misled'
    BY <1>1, Zenon DEF Opened
  <2> QED BY <1>0, <2>1, <2>2, Facts, NumbersGrow DEF Claims
<1>3. Opened' = Opened
  BY <1>1 DEF Opened
<1>4. ASSUME recorded' = recorded, got' = got, cseq' = cseq, ack' = ack
      PROVE  UNCHANGED Stream!vars
  BY <1>3, <1>4, Zenon DEF Stream!vars, Opened
<1>5. CASE Produces
  <2>1. /\ recorded' = recorded \cup {seq + 1} /\ UNCHANGED <<got, cseq, ack>>
    BY <1>5, Zenon DEF Produces, others, clientVars
  <2>2. (\A m \in recorded : m < seq + 1) /\ cseq < seq + 1 /\ seq + 1 \in recorded'
    BY <1>0, <1>2, <2>1 DEF Log
  <2>3. Stream!Produce(seq + 1)
    BY <1>3, <2>1, <2>2, Zenon DEF Stream!Produce, Opened
  <2> QED BY <2>2, <2>3, Zenon DEF Stream!Next
<1>6. CASE Readies
  BY <1>4, <1>6, Zenon DEF Readies, others, clientVars
<1>7. ASSUME NEW c \in Conns, Resumes(c) \/ FinishResume(c) PROVE UNCHANGED Stream!vars
  <2>1. recorded' = recorded /\ got' = got /\ cseq' = cseq /\ ack' = ack
    BY <1>0, <1>7, ResumesAt, Finishes
  <2> QED BY <1>4, <2>1
<1>8. CASE Reconnect \/ SendHeartbeat
  <2>1. recorded' = recorded /\ got' = got /\ cseq' = cseq /\ ack' = ack
    BY <1>0, <1>8, Reopens, Beats
  <2> QED BY <1>4, <2>1
<1>9. CASE Takes
  <2> DEFINE D == IF link[1].t = "event" THEN {link[1].s} ELSE {}
  <2>1. 1 \in DOMAIN link /\ recorded' = recorded /\ ack' = ack
    BY <1>0, <1>9, TakesOne
  <2>2. got' = got \cup D
    BY <1>9 DEF Takes
  <2>3. D \in SUBSET (recorded \cap got')
    BY <1>0, <2>1, <2>2 DEF Frames
  <2> HIDE DEF D
  <2>4. Stream!Deliver(D, cseq')
    BY <1>2, <1>3, <2>1, <2>2, Zenon DEF Stream!Deliver, Opened
  <2> QED BY <2>3, <2>4, Zenon DEF Stream!Next
<1>10. CASE Quiet
  <2>1. recorded' = recorded /\ got' = got /\ cseq' = cseq
    BY <1>0, <1>2, <1>10, Quietly
  <2>2. CASE UNCHANGED <<ack, buffer>>
    BY <1>4, <2>1, <2>2
  <2>3. CASE Acknowledges
    <3>1. ack <= ack'
      BY <2>3 DEF Acknowledges
    <3>2. ack' <= cseq
      BY <1>2, <2>1
    <3>3. Stream!Acknowledge(ack')
      BY <1>3, <2>1, <3>1, <3>2, Zenon DEF Stream!Acknowledge, Opened
    <3> QED BY <3>3, Zenon DEF Stream!Next
  <2> QED BY <1>0, <1>10, <2>2, <2>3, Quietly
<1> QED BY <1>0, <1>5, <1>6, <1>7, <1>8, <1>9, <1>10, Steps

\* The session, its handlers and the client implement the stream of EventStream.
THEOREM StreamImplemented == Spec => ImplementsStream
<1>1. Inv /\ Inv' /\ [Next]_vars => [Stream!Next]_Stream!vars
  BY StreamStep
<1> QED BY <1>1, StreamInit, InvHolds, PTL DEF Spec, ImplementsStream, Stream!Spec
=============================================================================
