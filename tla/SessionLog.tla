----------------------------- MODULE SessionLog -----------------------------
(***************************************************************************)
(* One session process of the gateway (fluxer_gateway/src/session):        *)
(* session.erl, the numbering and buffering half of session_dispatch.erl,  *)
(* the socket half of session_monitor.erl and the READY half of            *)
(* session_ready.erl.                                                      *)
(*                                                                         *)
(* An event is its sequence number.  The event_ack buffer, a list in the   *)
(* code, is the set of the numbers in it: the code only appends an entry   *)
(* whose number is larger than every number before it (BufferBelowSeq), so *)
(* the list is the set in ascending order.                                 *)
(***************************************************************************)
EXTENDS Naturals, FiniteSets

CONSTANTS
  Guilds,      \* guilds of the user
  Sockets,     \* pids of connection handlers (gateway_handler)
  NoSocket,    \* socket_pid => undefined
  Bot,         \* session of a bot account
  Limit,       \* MAX_EVENT_BUFFER_SIZE, 4096 in the code
  MaxSeq,      \* bound: largest sequence number given to a dispatched event
  MaxDowns     \* bound: number of socket deaths

ASSUME LogAssumption ==
  /\ IsFiniteSet(Guilds)
  /\ NoSocket \notin Sockets
  /\ Bot \in BOOLEAN
  /\ Limit \in Nat \ {0}
  /\ MaxSeq \in Nat
  /\ MaxDowns \in Nat

VARIABLES
  up,         \* the process is alive
  seq,        \* number of the last event sent
  ack,        \* ack_seq: highest number the client acknowledged
  buffer,     \* numbers of the events kept for replay
  recorded,   \* history: numbers of all events ever put in the buffer
  sock,       \* socket_pid, monitored through socket_mref
  ready,      \* the READY payload is still pending
  joined,     \* guilds => {Pid, Ref}
  timers,     \* running resume_timeout timers, named by the death that armed them
  downs,      \* history: number of socket deaths handled
  condemned   \* a {terminate_force} cast is in the process's own mailbox

logVars == <<seq, ack, buffer, recorded>>
vars == <<up, seq, ack, buffer, recorded, sock, ready, joined, timers, downs, condemned>>

-----------------------------------------------------------------------------
(* Faulty variants of the definitions below.  No behaviour uses them: each  *)
(* replaces its definition in a check that some property then fails.       *)

\* The guild_create events of a bot share one number with READY.
EmitReadyOnce ==
  /\ sock # NoSocket
  /\ seq' = seq + 1
  /\ ready' = FALSE
  /\ UNCHANGED <<up, ack, buffer, recorded, condemned>>

AckAcceptedAlways(s) == s \in Nat

HeartbeatAckInclusive(s) ==
  /\ up
  /\ s >= ack
  /\ ack' = s
  /\ buffer' = {n \in buffer : n > s + 1}
  /\ UNCHANGED <<up, seq, recorded, sock, ready, joined, timers, downs, condemned>>

ResumeAcceptedStrictly(s) == s < seq

MissedAfterNext(s) == {n \in buffer : n > s + 1}

\* The session stops when it has a socket and stays when it has none.
ResumeTimeoutInverted(t) ==
  /\ up
  /\ t \in timers
  /\ timers' = timers \ {t}
  /\ up' = (sock = NoSocket)
  /\ UNCHANGED <<logVars, sock, ready, joined, downs, condemned>>

TerminateForceUnlessConnected ==
  /\ up
  /\ condemned
  /\ sock = NoSocket
  /\ up' = FALSE
  /\ UNCHANGED <<logVars, sock, ready, joined, timers, downs, condemned>>

-----------------------------------------------------------------------------
(* State changes shared by the handlers.                                   *)

\* do_handle_dispatch, the buffer has room: number the event and keep it.
Record ==
  /\ Cardinality(buffer) < Limit
  /\ seq < MaxSeq
  /\ seq' = seq + 1
  /\ buffer' = buffer \cup {seq + 1}
  /\ recorded' = recorded \cup {seq + 1}
  /\ UNCHANGED <<ack, condemned>>

\* report_buffer_overflow: the event is dropped and the process condemned.
Overflow ==
  /\ Cardinality(buffer) >= Limit
  /\ condemned' = TRUE
  /\ UNCHANGED logVars

\* READY is one event; a bot also gets one event per guild.
ReadyBatch == 1 + (IF Bot THEN Cardinality(Guilds) ELSE 0)

\* dispatch_ready_data: numbered like any event, but never buffered.
EmitReady ==
  \/ /\ sock # NoSocket
     /\ seq' = seq + ReadyBatch
     /\ ready' = FALSE
     /\ UNCHANGED <<up, ack, buffer, recorded, condemned>>
  \/ /\ sock = NoSocket
     /\ up' = FALSE
     /\ UNCHANGED <<logVars, ready, condemned>>

\* {stop, normal, State}
Stop ==
  /\ up' = FALSE
  /\ UNCHANGED <<logVars, sock, ready, joined, timers, downs, condemned>>

-----------------------------------------------------------------------------
(* Handlers.                                                               *)

Init ==
  /\ up = TRUE
  /\ seq = 0
  /\ ack = 0
  /\ buffer = {}
  /\ recorded = {}
  /\ sock \in Sockets
  /\ ready = TRUE
  /\ joined = {}
  /\ timers = {}
  /\ downs = 0
  /\ condemned = FALSE

\* {dispatch, Event, Data}
Dispatch ==
  /\ up
  /\ Record \/ Overflow
  /\ UNCHANGED <<up, sock, ready, joined, timers, downs>>

\* premature_readiness, bot_initial_ready, or check_readiness at a presence connect
BecomeReady ==
  /\ up
  /\ ready
  /\ EmitReady
  /\ UNCHANGED <<sock, joined, timers, downs>>

\* finalize_guild_connection: before READY the guild is collected, which may
\* complete readiness; after READY it is announced by guild_create.
JoinGuild(g) ==
  /\ up
  /\ g \notin joined
  /\ joined' = joined \cup {g}
  /\ \/ ready /\ UNCHANGED <<up, logVars, ready, condemned>>
     \/ ready /\ EmitReady
     \/ ~ready /\ (Record \/ Overflow) /\ UNCHANGED <<up, ready>>
  /\ UNCHANGED <<sock, timers, downs>>

\* A guild process dies, or {guild_leave, GuildId, forced_unavailable}, which
\* also a guild not joined may send.
LoseGuild(g) ==
  /\ up
  /\ joined' = joined \ {g}
  /\ Record \/ Overflow
  /\ UNCHANGED <<up, sock, ready, timers, downs>>

\* {guild_leave, GuildId}: the guild_delete goes to the socket under the number
\* seq + 1, but the state handle_dispatch returns is thrown away.
LeaveGuild(g) ==
  /\ up
  /\ g \in joined
  /\ joined' = joined \ {g}
  /\ condemned' = (condemned \/ Cardinality(buffer) >= Limit)
  /\ UNCHANGED <<up, logVars, sock, ready, timers, downs>>

\* {heartbeat_ack, Seq}: any number not below ack_seq is accepted.
AckAccepted(s) == s >= ack

HeartbeatAck(s) ==
  /\ up
  /\ AckAccepted(s)
  /\ ack' = s
  /\ buffer' = {n \in buffer : n > s}
  /\ UNCHANGED <<up, seq, recorded, sock, ready, joined, timers, downs, condemned>>

\* {resume, Seq, SocketPid}
ResumeAccepted(s) == s <= seq

Missed(s) == {n \in buffer : n > s}

Resume(s, c) ==
  /\ up
  /\ ResumeAccepted(s)
  /\ sock' = c
  /\ UNCHANGED <<up, logVars, ready, joined, timers, downs, condemned>>

\* 'DOWN' for socket_mref: the socket is forgotten and a resume_timeout armed.
SocketDown ==
  /\ up
  /\ sock # NoSocket
  /\ downs < MaxDowns
  /\ sock' = NoSocket
  /\ downs' = downs + 1
  /\ timers' = timers \cup {downs + 1}
  /\ UNCHANGED <<up, logVars, ready, joined, condemned>>

\* resume_timeout: a timer is never cancelled, so it may find a live socket.
ResumeTimeout(t) ==
  /\ up
  /\ t \in timers
  /\ timers' = timers \ {t}
  /\ up' = (sock # NoSocket)
  /\ UNCHANGED <<logVars, sock, ready, joined, downs, condemned>>

\* {terminate_force} after an overflow
TerminateForce == up /\ condemned /\ Stop

\* {terminate, SessionIdHashes} naming this session
Terminate == up /\ Stop

Next ==
  \/ Dispatch
  \/ BecomeReady
  \/ \E g \in Guilds : JoinGuild(g) \/ LoseGuild(g) \/ LeaveGuild(g)
  \/ \E s \in 0..(MaxSeq + ReadyBatch + 1) : HeartbeatAck(s)
  \/ \E s \in 0..(MaxSeq + ReadyBatch), c \in Sockets : Resume(s, c)
  \/ SocketDown
  \/ \E t \in timers : ResumeTimeout(t)
  \/ TerminateForce
  \/ Terminate

\* The process handles its own timers and casts; nothing else is promised.
Fairness ==
  /\ WF_vars(TerminateForce)
  /\ \A t \in 1..MaxDowns : WF_vars(ResumeTimeout(t))

Spec == Init /\ [][Next]_vars
FairSpec == Spec /\ Fairness

-----------------------------------------------------------------------------
(* Properties.                                                             *)

\* The variables keep their types.
TypeOK ==
  /\ up \in BOOLEAN
  /\ seq \in Nat
  /\ ack \in Nat
  /\ buffer \in SUBSET Nat
  /\ recorded \in SUBSET Nat
  /\ sock \in Sockets \cup {NoSocket}
  /\ ready \in BOOLEAN
  /\ joined \in SUBSET Guilds
  /\ timers \in SUBSET (1..downs)
  /\ downs \in Nat
  /\ condemned \in BOOLEAN

\* An event leaves the buffer only once the client acknowledged it: whatever
\* mix of heartbeats, resumes and overflows, every event not acknowledged can
\* still be replayed (session.erl heartbeat_ack, session_dispatch.erl).
NothingLostBeforeAck ==
  \A n \in recorded : n \in buffer \/ n <= ack

\* A replay contains only events that were dispatched, each under the number
\* it was sent with; the next number is larger than all of them, which keeps
\* the buffer list in ascending order.
BufferBelowSeq ==
  /\ buffer \subseteq recorded
  /\ \A n \in recorded : 1 <= n /\ n <= seq

\* The buffer never outgrows its limit, also when one handler dispatches
\* several events (session_dispatch.erl append_or_fail).
BufferBounded ==
  IsFiniteSet(buffer) /\ Cardinality(buffer) <= Limit

\* Every number up to seq went to exactly one recorded event, except the
\* numbers of the READY batch: no number is skipped or assigned twice.
NumbersAccountedFor ==
  /\ IsFiniteSet(recorded)
  /\ seq = Cardinality(recorded) + (IF ready THEN 0 ELSE ReadyBatch)

\* An overflow is only reported by a full buffer and always ends the process:
\* a client can never keep a session that dropped an event.
OverflowEndsSession == condemned ~> ~up

\* A session without a socket is resumed or stops: it is never left behind
\* with nobody to stop it (session_monitor.erl handle_socket_down).
OrphanResumesOrStops == (up /\ sock = NoSocket) ~> (~up \/ sock # NoSocket)

\* Nobody resumes a session without a socket before a timer is armed for it.
OrphanHasTimer == (up /\ sock = NoSocket) => downs \in timers
=============================================================================
