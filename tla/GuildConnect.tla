---------------------------- MODULE GuildConnect ----------------------------
(***************************************************************************)
(* How a session gets into its guilds and stays there: the connection half *)
(* of a session process (session_connection.erl) and the admission half of *)
(* a guild process (guild.erl, guild_sessions.erl, guild_availability.erl).*)
(*                                                                         *)
(* A session spawns a connector for each guild, which casts a request to   *)
(* the guild; the guild queues it, computes the session's view of the guild*)
(* in a worker from a COPY of its state, then admits the session and sends *)
(* the result.  Answers, timers, forced leaves and guild deaths cross.     *)
(*                                                                         *)
(* A message of a guild to a session stays in order with that guild's other*)
(* messages (mail); what timers, connectors and presence send may arrive in*)
(* any order with them.                                                    *)
(***************************************************************************)
EXTENDS Integers, Bags, SequencesExt
Ext == INSTANCE BagsExt

CONSTANTS
  Sessions,      \* session processes, each of one user who is not staff
  Guilds,
  MaxInflight,   \* GUILD_CONNECT_MAX_INFLIGHT (8)
  MaxWorkers,    \* SESSION_CONNECT_MAX_WORKERS (2)
  MaxAttempt,    \* MAX_RETRY_ATTEMPTS (25)
  EasyAttempt,   \* the attempt that a guild still loading does not exceed (4)
  MaxPids,       \* bound: names for guild processes, reused once unknown
  MaxVersion,    \* bound: events of a guild
  MaxMoves,      \* bound: joins and leaves of all users
  MaxSwitches,   \* bound: changes of a guild's availability
  MaxFaults,     \* bound: crashes, failed lookups, failed views, early timers
  MayEnd         \* whether session processes end

ASSUME LimitsAssumption ==
  /\ MaxInflight \in Nat \ {0} /\ MaxWorkers \in Nat \ {0}
  /\ MaxAttempt \in Nat /\ EasyAttempt \in 0..MaxAttempt /\ MaxPids \in Nat \ {0}
  /\ MaxVersion \in Nat /\ MaxMoves \in Nat /\ MaxSwitches \in Nat
  /\ MaxFaults \in Nat /\ MayEnd \in BOOLEAN

Links    == Sessions \X Guilds
Attempts == 0..MaxAttempt
None     == -1
NoPid    == 0

VARIABLES
  \* the session process
  alive,      \* the process runs
  ready,      \* READY has been dispatched
  guilds,     \* undefined, cached_unavailable or connected
  peer,       \* the guild process it monitors while connected
  inflight,   \* guild_connect_inflight: the attempt under way
  wakeups,    \* {guild_connect, G, Attempt} timers and messages
  timeouts,   \* {guild_connect_timeout, G, Attempt} timers, never cancelled
  connectors, \* processes running do_guild_connect
  replies,    \* what connectors have answered
  collected,  \* what READY will say of the guild
  \* what its client knows
  told,       \* none, unavailable or full
  seen,       \* the version of the guild its client has
  \* presence
  member,     \* the user is in the guild
  notices,    \* guild_join and guild_leave casts
  \* the guild process
  pid,        \* its process, NoPid while it does not run
  loading,    \* the manager is fetching its data
  available,  \* its availability, in its data and in the shared cache
  version,    \* of its data
  entry,      \* sessions: absent, pending (pending_connect) or admitted
  pending,    \* session_connect_pending
  queue,      \* session_connect_queue
  busy,       \* session_connect_inflight
  workers,    \* running workers, each with its copy of the state
  inbox,      \* session_connect_async casts
  downs,      \* sessions whose DOWN it has to handle
  mail,       \* what it has sent to a session
  \* counters of the bounds
  moves, switches, faults

linkVars  == <<guilds, peer, inflight, wakeups>>
viewVars  == <<collected, told, seen>>
guildVars == <<entry, pending, queue, busy, workers, downs>>
bounds    == <<moves, switches, faults>>
vars == <<alive, ready, linkVars, timeouts, connectors, replies, viewVars, member,
          notices, pid, loading, available, version, guildVars, inbox, mail, bounds>>

Of(g)  == {l \in Links : l[2] = g}
Min2(a, b) == IF a < b THEN a ELSE b

-----------------------------------------------------------------------------
Init ==
  /\ alive = [s \in Sessions |-> TRUE] /\ ready = [s \in Sessions |-> FALSE]
  /\ guilds = [l \in Links |-> "undefined"] /\ peer = [l \in Links |-> NoPid]
  /\ inflight = [l \in Links |-> None] /\ wakeups = [l \in Links |-> SetToBag({0})]
  /\ timeouts = [l \in Links |-> EmptyBag]
  /\ connectors = [l \in Links |-> EmptyBag] /\ replies = [l \in Links |-> EmptyBag]
  /\ collected = [l \in Links |-> [is |-> "none", version |-> 0]]
  /\ told = [l \in Links |-> "none"] /\ seen = [l \in Links |-> 0]
  /\ member = [l \in Links |-> TRUE] /\ notices = [l \in Links |-> <<>>]
  /\ pid = [g \in Guilds |-> NoPid] /\ loading = [g \in Guilds |-> FALSE]
  /\ available \in [Guilds -> BOOLEAN] /\ version = [g \in Guilds |-> 0]
  /\ entry = [l \in Links |-> "absent"] /\ pending = [l \in Links |-> None]
  /\ queue = [g \in Guilds |-> <<>>] /\ busy = [g \in Guilds |-> 0]
  /\ workers = [g \in Guilds |-> EmptyBag] /\ inbox = [g \in Guilds |-> EmptyBag]
  /\ downs = [g \in Guilds |-> {}] /\ mail = [l \in Links |-> <<>>]
  /\ moves = 0 /\ switches = 0 /\ faults = 0

Fault == faults < MaxFaults /\ faults' = faults + 1

-----------------------------------------------------------------------------
(***************************************************************************)
(* The session: steps of its handlers on one link.  Wake is the bag of     *)
(* guild_connect messages that stays when the handled message is taken out.*)
(***************************************************************************)
SetWakeups(l, bag) == wakeups' = [wakeups EXCEPT ![l] = bag]

Full(s) == Cardinality({l \in Links : l[1] = s /\ inflight[l] # None}) >= MaxInflight

\* Faulty variant: with all places taken the message is dropped.
MaybeSpawnOrDrop(l, a, rest) ==
  IF inflight[l] # None \/ Full(l[1])
  THEN SetWakeups(l, rest) /\ UNCHANGED <<inflight, connectors>>
  ELSE /\ inflight' = [inflight EXCEPT ![l] = a]
       /\ connectors' = [connectors EXCEPT ![l] = Ext!BagAdd(@, a)]
       /\ SetWakeups(l, rest)

MaybeSpawn(l, a, rest) ==
  \/ /\ inflight[l] # None
     /\ SetWakeups(l, rest) /\ UNCHANGED <<inflight, connectors>>
  \/ /\ inflight[l] = None /\ Full(l[1])
     /\ SetWakeups(l, Ext!BagAdd(rest, a)) /\ UNCHANGED <<inflight, connectors>>
  \/ /\ inflight[l] = None /\ ~Full(l[1])
     /\ inflight' = [inflight EXCEPT ![l] = a]
     /\ connectors' = [connectors EXCEPT ![l] = Ext!BagAdd(@, a)]
     /\ SetWakeups(l, rest)

Collect(l, what, v) == collected' = [collected EXCEPT ![l] = [is |-> what, version |-> v]]

\* mark_guild_unavailable: a word in READY, none once READY is out.
MarkUnavailable(l) ==
  /\ IF ready[l[1]] THEN UNCHANGED collected ELSE Collect(l, "unavailable", 0)
  /\ UNCHANGED <<told, seen>>

\* Faulty variant: one attempt more than MAX_RETRY_ATTEMPTS.
RetryOnceMore(l, a) ==
  IF a <= MaxAttempt
  THEN SetWakeups(l, Ext!BagAdd(wakeups[l], a + 1)) /\ UNCHANGED viewVars
  ELSE SetWakeups(l, Ext!BagAdd(wakeups[l], 0)) /\ MarkUnavailable(l)

\* Faulty variant: no slow retry after the last attempt.
RetryOrGiveUp(l, a) ==
  IF a < MaxAttempt
  THEN SetWakeups(l, Ext!BagAdd(wakeups[l], a + 1)) /\ UNCHANGED viewVars
  ELSE UNCHANGED wakeups /\ MarkUnavailable(l)

RetryOrFail(l, a) ==
  IF a < MaxAttempt
  THEN SetWakeups(l, Ext!BagAdd(wakeups[l], a + 1)) /\ UNCHANGED viewVars
  ELSE SetWakeups(l, Ext!BagAdd(wakeups[l], 0)) /\ MarkUnavailable(l)

\* A guild state reaches the client at once, or with READY.
ProcessGuildState(l, what, v) ==
  IF ready[l[1]]
  THEN /\ told' = [told EXCEPT ![l] = what]
       /\ seen' = [seen EXCEPT ![l] = IF what = "full" THEN v ELSE @]
       /\ UNCHANGED collected
  ELSE Collect(l, what, v) /\ UNCHANGED <<told, seen>>

\* {guild_connect, G, Attempt}
GuildConnect(l) ==
  \E a \in BagToSet(wakeups[l]) :
    LET rest == Ext!BagRemove(wakeups[l], a) IN
    /\ \/ /\ guilds[l] = "connected"
          /\ SetWakeups(l, rest) /\ UNCHANGED <<guilds, inflight, connectors>>
       \/ /\ guilds[l] = "cached_unavailable" /\ ~available[l[2]]
          /\ SetWakeups(l, Ext!BagAdd(rest, Min2(a + 1, MaxAttempt)))
          /\ UNCHANGED <<guilds, inflight, connectors>>
       \/ /\ guilds[l] = "cached_unavailable" /\ available[l[2]]
          /\ guilds' = [guilds EXCEPT ![l] = "undefined"] /\ MaybeSpawn(l, 0, rest)
       \/ /\ guilds[l] = "undefined"
          /\ MaybeSpawn(l, a, rest) /\ UNCHANGED guilds
    /\ UNCHANGED <<alive, ready, peer, timeouts, replies, viewVars, member, notices, pid,
                   loading, available, version, guildVars, inbox, mail, bounds>>

\* {guild_connect_result, G, Attempt, Result} of a connector that got no further
ConnectorResult(l) ==
  \E r \in BagToSet(replies[l]) :
    /\ replies' = [replies EXCEPT ![l] = Ext!BagRemove(@, r)]
    /\ IF inflight[l] # r.attempt
       THEN UNCHANGED <<linkVars, viewVars>>
       ELSE /\ inflight' = [inflight EXCEPT ![l] = None]
            /\ \/ /\ r.is = "loading"
                  /\ SetWakeups(l, Ext!BagAdd(wakeups[l], Min2(r.attempt + 1, EasyAttempt)))
                  /\ UNCHANGED <<guilds, viewVars>>
               \/ r.is = "error" /\ RetryOrFail(l, r.attempt) /\ UNCHANGED guilds
               \/ /\ r.is = "cached_unavailable"
                  /\ guilds' = [guilds EXCEPT ![l] = "cached_unavailable"]
                  /\ SetWakeups(l, Ext!BagAdd(wakeups[l], Min2(r.attempt + 1, MaxAttempt)))
                  /\ IF guilds[l] = "cached_unavailable" THEN UNCHANGED viewVars
                                                         ELSE MarkUnavailable(l)
            /\ UNCHANGED peer
    /\ UNCHANGED <<alive, ready, timeouts, connectors, member, notices, pid, loading,
                   available, version, guildVars, inbox, mail, bounds>>

\* An answer to the attempt is still on its way.
AnswerComing(l, a) ==
  \/ BagIn(a, connectors[l])
  \/ \E r \in BagToSet(replies[l]) : r.attempt = a
  \/ \E i \in DOMAIN mail[l] : mail[l][i].is = "result" /\ mail[l][i].attempt = a
  \/ \E c \in BagToSet(inbox[l[2]]) : c.session = l[1] /\ c.attempt = a
  \/ pending[l] = a

\* {guild_connect_timeout, G, Attempt}.  A timer that beats the answer to the
\* attempt under way counts as a fault: the guild took more than 30 seconds.
GuildConnectTimeout(l) ==
  \E a \in BagToSet(timeouts[l]) :
    /\ timeouts' = [timeouts EXCEPT ![l] = Ext!BagRemove(@, a)]
    /\ IF inflight[l] # a
       THEN UNCHANGED <<inflight, wakeups, viewVars, faults>>
       ELSE /\ inflight' = [inflight EXCEPT ![l] = None]
            /\ RetryOrFail(l, a)
            /\ IF AnswerComing(l, a) THEN Fault ELSE UNCHANGED faults
    /\ UNCHANGED <<alive, ready, guilds, peer, connectors, replies, member, notices, pid,
                   loading, available, version, guildVars, inbox, mail, moves, switches>>

\* READY: guilds still undefined are listed as unavailable, after the others.
Ready(s) ==
  /\ alive[s] /\ ~ready[s]
  /\ ready' = [ready EXCEPT ![s] = TRUE]
  /\ LET Says(l) == IF guilds[l] = "undefined" THEN "unavailable" ELSE collected[l].is
         Listed(l) == l[1] = s /\ Says(l) # "none"
     IN /\ told' = [l \in Links |-> IF Listed(l) THEN Says(l) ELSE told[l]]
        /\ seen' = [l \in Links |-> IF Listed(l) /\ Says(l) = "full"
                                    THEN collected[l].version ELSE seen[l]]
  /\ collected' = [l \in Links |-> IF l[1] = s THEN [is |-> "none", version |-> 0]
                                               ELSE collected[l]]
  /\ UNCHANGED <<alive, linkVars, timeouts, connectors, replies, member, notices, pid,
                 loading, available, version, guildVars, inbox, mail, bounds>>

-----------------------------------------------------------------------------
(* The session: messages of the guild, in order. *)

Result(a, p, what, v) ==
  [is |-> "result", attempt |-> a, pid |-> p, what |-> what, version |-> v]
Create(v) == [is |-> "create", version |-> v]
Event(v)  == [is |-> "event", version |-> v]
Leave     == [is |-> "leave"]
Down(p)   == [is |-> "down", pid |-> p]

SetMail(l, msgs) == mail' = [mail EXCEPT ![l] = msgs]

\* demonitor(Ref, [flush]): a monitor sends one DOWN, which may be there already.
Demonitored(l, msgs) == RemoveFirst(msgs, Down(peer[l]))

\* Faulty variant: a process that has ended is not reported.
MonitoredSilently(l, p, msgs) == msgs

\* monitor(process, Pid): of a process that has ended, DOWN comes at once.
Monitored(l, p, msgs) == IF pid[l[2]] = p THEN msgs ELSE Append(msgs, Down(p))

ReceiveResult(l, m, rest) ==
  IF inflight[l] # m.attempt
  THEN SetMail(l, rest) /\ UNCHANGED <<linkVars, viewVars>>
  ELSE /\ inflight' = [inflight EXCEPT ![l] = None]
       /\ \/ /\ m.what = "error" /\ RetryOrFail(l, m.attempt)
             /\ SetMail(l, rest) /\ UNCHANGED <<guilds, peer>>
          \/ /\ m.what # "error" /\ guilds[l] = "connected"
             /\ SetMail(l, rest) /\ UNCHANGED <<guilds, peer, wakeups, viewVars>>
          \/ /\ m.what # "error" /\ guilds[l] # "connected"
             /\ guilds' = [guilds EXCEPT ![l] = "connected"]
             /\ peer' = [peer EXCEPT ![l] = m.pid]
             /\ SetMail(l, Monitored(l, m.pid, rest))
             /\ ProcessGuildState(l, m.what, m.version)
             /\ UNCHANGED wakeups

\* {guild_leave, G, forced_unavailable}: the guild has removed the session.
ReceiveForcedLeave(l, rest) ==
  /\ guilds' = [guilds EXCEPT ![l] = "cached_unavailable"]
  /\ peer' = [peer EXCEPT ![l] = NoPid]
  /\ SetMail(l, Demonitored(l, rest))
  /\ told' = [told EXCEPT ![l] = "unavailable"]
  /\ SetWakeups(l, Ext!BagAdd(wakeups[l], 0))
  /\ UNCHANGED <<inflight, collected, seen>>

\* Faulty variant: a session does not connect again to a guild that ended.
ReceiveDownOnly(l, m, rest) ==
  /\ SetMail(l, rest)
  /\ IF peer[l] # m.pid
     THEN UNCHANGED <<linkVars, viewVars>>
     ELSE /\ guilds' = [guilds EXCEPT ![l] = "undefined"]
          /\ peer' = [peer EXCEPT ![l] = NoPid]
          /\ told' = [told EXCEPT ![l] = "unavailable"]
          /\ UNCHANGED <<inflight, wakeups, collected, seen>>

\* handle_guild_down: the guild process has ended.
ReceiveDown(l, m, rest) ==
  /\ SetMail(l, rest)
  /\ IF peer[l] # m.pid
     THEN UNCHANGED <<linkVars, viewVars>>
     ELSE /\ guilds' = [guilds EXCEPT ![l] = "undefined"]
          /\ peer' = [peer EXCEPT ![l] = NoPid]
          /\ told' = [told EXCEPT ![l] = "unavailable"]
          /\ SetWakeups(l, Ext!BagAdd(wakeups[l], 0))
          /\ UNCHANGED <<inflight, collected, seen>>

\* {dispatch, Event, Data} is passed on whatever the session thinks of the
\* guild.  An event means something to a client that has the version before.
ReceiveDispatch(l, m, rest) ==
  /\ SetMail(l, rest)
  /\ \/ /\ m.is = "create"
        /\ told' = [told EXCEPT ![l] = "full"] /\ seen' = [seen EXCEPT ![l] = m.version]
     \/ /\ m.is = "event"
        /\ seen' = [seen EXCEPT ![l] = IF m.version = @ + 1 THEN m.version ELSE @]
        /\ UNCHANGED told
  /\ UNCHANGED <<linkVars, collected>>

FromGuild(l) ==
  /\ mail[l] # <<>>
  /\ LET m == Head(mail[l])  rest == Tail(mail[l]) IN
     \/ m.is = "result" /\ ReceiveResult(l, m, rest)
     \/ m.is = "leave" /\ ReceiveForcedLeave(l, rest)
     \/ m.is = "down" /\ ReceiveDown(l, m, rest)
     \/ m.is \in {"create", "event"} /\ ReceiveDispatch(l, m, rest)
  /\ UNCHANGED <<alive, ready, timeouts, connectors, replies, member, notices, pid, loading,
                 available, version, guildVars, inbox, bounds>>

\* {guild_join, G} and {guild_leave, G} of the user's presence process
FromPresence(l) ==
  /\ notices[l] # <<>>
  /\ notices' = [notices EXCEPT ![l] = Tail(@)]
  /\ \/ /\ Head(notices[l]) = "join"
        /\ SetWakeups(l, Ext!BagAdd(wakeups[l], 0))
        /\ UNCHANGED <<guilds, peer, told, mail>>
     \/ /\ Head(notices[l]) = "leave" /\ guilds[l] = "connected"
        /\ guilds' = [guilds EXCEPT ![l] = "undefined"]
        /\ peer' = [peer EXCEPT ![l] = NoPid]
        /\ SetMail(l, Demonitored(l, mail[l]))
        /\ told' = [told EXCEPT ![l] = "none"]
        /\ UNCHANGED wakeups
     \/ /\ Head(notices[l]) = "leave" /\ guilds[l] # "connected"
        /\ UNCHANGED <<guilds, peer, told, mail, wakeups>>
  /\ UNCHANGED <<alive, ready, inflight, timeouts, connectors, replies, collected, seen,
                 member, pid, loading, available, version, guildVars, inbox, bounds>>

\* Faulty variant: the guild monitors a session from its admission on.
MonitorsAdmitted(s, g) == entry[<<s, g>>] = "admitted"

\* A guild monitors a session from its first request on.
Monitors(s, g) == entry[<<s, g>>] # "absent"

\* The session process ends: what was sent to it and its timers are lost, its
\* guilds will hear of it.
SessionEnds(s) ==
  /\ MayEnd /\ alive[s]
  /\ alive' = [alive EXCEPT ![s] = FALSE]
  /\ LET Cleared(f, empty) == [l \in Links |-> IF l[1] = s THEN empty ELSE f[l]] IN
     /\ guilds' = Cleared(guilds, "undefined") /\ peer' = Cleared(peer, NoPid)
     /\ inflight' = Cleared(inflight, None)
     /\ wakeups' = Cleared(wakeups, EmptyBag) /\ timeouts' = Cleared(timeouts, EmptyBag)
     /\ replies' = Cleared(replies, EmptyBag)
     /\ mail' = Cleared(mail, <<>>) /\ notices' = Cleared(notices, <<>>)
  /\ downs' = [g \in Guilds |-> IF Monitors(s, g) THEN downs[g] \union {s} ELSE downs[g]]
  /\ UNCHANGED <<ready, connectors, viewVars, member, pid, loading, available, version,
                 entry, pending, queue, busy, workers, inbox, bounds>>

-----------------------------------------------------------------------------
(***************************************************************************)
(* The connector, do_guild_connect: looks the guild up, has it started, or *)
(* casts the request and arms the timer.                                   *)
(***************************************************************************)
\* Faulty variant: a guild that is loading gives no answer.
AnswerUnlessLoading(l, a, what) ==
  replies' = [replies EXCEPT ![l] = IF alive[l[1]] /\ what # "loading"
                                    THEN Ext!BagAdd(@, [attempt |-> a, is |-> what]) ELSE @]

Answer(l, a, what) ==
  replies' = [replies EXCEPT ![l] = IF alive[l[1]]
                                    THEN Ext!BagAdd(@, [attempt |-> a, is |-> what]) ELSE @]

Connector(l) ==
  \E a \in BagToSet(connectors[l]) :
    /\ connectors' = [connectors EXCEPT ![l] = Ext!BagRemove(@, a)]
    /\ \/ /\ pid[l[2]] # NoPid /\ available[l[2]]
          /\ inbox' = [inbox EXCEPT ![l[2]] =
                         Ext!BagAdd(@, [session |-> l[1], attempt |-> a])]
          /\ timeouts' = [timeouts EXCEPT ![l] = IF alive[l[1]] THEN Ext!BagAdd(@, a) ELSE @]
          /\ UNCHANGED <<replies, loading, faults>>
       \/ /\ pid[l[2]] # NoPid /\ ~available[l[2]]
          /\ Answer(l, a, "cached_unavailable")
          /\ UNCHANGED <<inbox, timeouts, loading, faults>>
       \/ /\ pid[l[2]] = NoPid
          /\ loading' = [loading EXCEPT ![l[2]] = TRUE]
          /\ Answer(l, a, "loading")
          /\ UNCHANGED <<inbox, timeouts, faults>>
       \/ /\ Fault
          /\ \E what \in {"loading", "error"} : Answer(l, a, what)
          /\ UNCHANGED <<inbox, timeouts, loading>>
    /\ UNCHANGED <<alive, ready, linkVars, viewVars, member, notices, pid, available,
                   version, guildVars, mail, moves, switches>>

-----------------------------------------------------------------------------
(***************************************************************************)
(* The guild process.                                                      *)
(***************************************************************************)
KnownPids == {peer[l] : l \in Links} \union
             {p \in 1..MaxPids : \E l \in Links : \E i \in DOMAIN mail[l] :
                               mail[l][i].is \in {"result", "down"} /\ mail[l][i].pid = p}

\* The manager's fetch comes back: the guild starts, or nothing is loading.
GuildStarts(g) ==
  /\ loading[g] /\ loading' = [loading EXCEPT ![g] = FALSE]
  /\ \/ /\ \E p \in (1..MaxPids) \ KnownPids :
             pid' = [pid EXCEPT ![g] = IF @ = NoPid THEN p ELSE @]
        /\ UNCHANGED faults
     \/ Fault /\ UNCHANGED pid
  /\ UNCHANGED <<alive, ready, linkVars, timeouts, connectors, replies, viewVars, member,
                 notices, available, version, guildVars, inbox, mail, moves, switches>>

\* The process ends, and with it its state, its mailbox and its workers' use.
GuildEnds(g) ==
  /\ pid' = [pid EXCEPT ![g] = NoPid]
  /\ entry' = [l \in Links |-> IF l[2] = g THEN "absent" ELSE entry[l]]
  /\ pending' = [l \in Links |-> IF l[2] = g THEN None ELSE pending[l]]
  /\ queue' = [queue EXCEPT ![g] = <<>>] /\ busy' = [busy EXCEPT ![g] = 0]
  /\ workers' = [workers EXCEPT ![g] = EmptyBag]
  /\ inbox' = [inbox EXCEPT ![g] = EmptyBag] /\ downs' = [downs EXCEPT ![g] = {}]
  /\ mail' = [l \in Links |-> IF l[2] = g /\ peer[l] = pid[g]
                              THEN Append(mail[l], Down(pid[g])) ELSE mail[l]]

GuildCrashes(g) ==
  /\ pid[g] # NoPid /\ Fault /\ GuildEnds(g)
  /\ UNCHANGED <<alive, ready, linkVars, timeouts, connectors, replies, viewVars, member,
                 notices, loading, available, version, moves, switches>>

\* The first n of q start, each for another session.  Each takes a copy of the
\* state the guild has now.
Start(g, n, q, b, ws) ==
  LET Work(item) == [session |-> item.session, attempt |-> item.attempt,
                     version |-> version[g], available |-> available[g]]
  IN /\ queue' = [queue EXCEPT ![g] = SubSeq(q, n + 1, Len(q))]
     /\ busy' = [busy EXCEPT ![g] = b + n]
     /\ workers' = [workers EXCEPT ![g] = ws (+) SetToBag({Work(q[i]) : i \in 1..n})]

\* Faulty variant: the last place is never given away.
StartWorkersSparing(g, q, b, ws) ==
  Start(g, IF b + 1 >= MaxWorkers THEN 0 ELSE Min2(MaxWorkers - 1 - b, Len(q)), q, b, ws)

\* maybe_start_session_connect_workers: b workers run and q is the queue.
StartWorkers(g, q, b, ws) ==
  Start(g, IF b >= MaxWorkers THEN 0 ELSE Min2(MaxWorkers - b, Len(q)), q, b, ws)

\* Faulty variant: the filter keeps what it should drop.
WithoutOthers(s, q) == SelectSeq(q, LAMBDA item : item.session = s)

\* drop_queued_session_connects: a session has at most one request in the queue.
Without(s, q) == RemoveFirstMatch(q, LAMBDA item : item.session = s)

\* enqueue_session_connect_async: a newer attempt takes the place of a queued
\* one.  The entry of a session already admitted is pending again.
Enqueue(g) ==
  \E c \in BagToSet(inbox[g]) :
    LET l == <<c.session, g>> IN
    /\ inbox' = [inbox EXCEPT ![g] = Ext!BagRemove(@, c)]
    /\ IF pending[l] # None /\ c.attempt <= pending[l]
       THEN UNCHANGED guildVars
       ELSE /\ pending' = [pending EXCEPT ![l] = c.attempt]
            /\ entry' = [entry EXCEPT ![l] = "pending"]
            /\ downs' = [downs EXCEPT ![g] = IF alive[c.session] THEN @
                                                                ELSE @ \union {c.session}]
            /\ StartWorkers(g, Append(Without(c.session, queue[g]), c), busy[g], workers[g])
    /\ UNCHANGED <<alive, ready, linkVars, timeouts, connectors, replies, viewVars, member,
                   notices, pid, loading, available, version, mail, bounds>>

\* finalize_session_connect_async: the session is admitted, even with an error
\* for a result, unless a newer attempt waits or the session was removed.
Finalize(g) ==
  \E w \in BagToSet(workers[g]) :
    LET l == <<w.session, g>>
        Send(what) ==
          mail' = [mail EXCEPT ![l] =
                     IF alive[w.session]
                     THEN Append(@, Result(w.attempt, pid[g], what, w.version)) ELSE @]
    IN
    /\ StartWorkers(g, queue[g], busy[g] - 1, Ext!BagRemove(workers[g], w))
    /\ IF pending[l] # w.attempt
       THEN UNCHANGED <<pending, entry, mail, faults>>
       ELSE /\ pending' = [pending EXCEPT ![l] = None]
            /\ entry' = [entry EXCEPT ![l] = "admitted"]
            /\ \/ /\ Send(IF w.available THEN "full" ELSE "unavailable")
                  /\ UNCHANGED faults
               \/ Send("error") /\ Fault
    /\ UNCHANGED <<alive, ready, linkVars, timeouts, connectors, replies, viewVars, member,
                   notices, pid, loading, available, version, downs, inbox, moves, switches>>

\* handle_session_down; a guild nobody is left in stops.
SessionDown(g) ==
  \E s \in downs[g] :
    /\ IF \A l \in Of(g) : l[1] # s => entry[l] = "absent"
       THEN GuildEnds(g)
       ELSE /\ downs' = [downs EXCEPT ![g] = @ \ {s}]
            /\ entry' = [entry EXCEPT ![<<s, g>>] = "absent"]
            /\ pending' = [pending EXCEPT ![<<s, g>>] = None]
            /\ queue' = [queue EXCEPT ![g] = Without(s, @)]
            /\ UNCHANGED <<pid, busy, workers, inbox, mail>>
    /\ UNCHANGED <<alive, ready, linkVars, timeouts, connectors, replies, viewVars, member,
                   notices, loading, available, version, bounds>>

ToAdmitted(g, m) ==
  mail' = [l \in Links |-> IF l[2] = g /\ entry[l] = "admitted" /\ alive[l[1]]
                          THEN Append(mail[l], m) ELSE mail[l]]

\* An event of the guild: not for sessions whose connection is pending, and
\* dropped, with the change it carries, while the guild is unavailable.
GuildEvent(g) ==
  /\ pid[g] # NoPid /\ available[g] /\ version[g] < MaxVersion
  /\ version' = [version EXCEPT ![g] = @ + 1]
  /\ ToAdmitted(g, Event(version[g] + 1))
  /\ UNCHANGED <<alive, ready, linkVars, timeouts, connectors, replies, viewVars, member,
                 notices, pid, loading, available, guildVars, inbox, bounds>>

\* handle_unavailability_transition: the guild becomes unavailable and removes
\* its sessions, or available again and tells those it has admitted.
BecomesUnavailable(g) ==
  /\ pid[g] # NoPid /\ available[g] /\ switches < MaxSwitches
  /\ switches' = switches + 1
  /\ available' = [available EXCEPT ![g] = FALSE]
  /\ mail' = [l \in Links |-> IF l[2] = g /\ entry[l] # "absent" /\ alive[l[1]]
                              THEN Append(mail[l], Leave) ELSE mail[l]]
  /\ entry' = [l \in Links |-> IF l[2] = g THEN "absent" ELSE entry[l]]
  /\ pending' = [l \in Links |-> IF l[2] = g THEN None ELSE pending[l]]
  /\ queue' = [queue EXCEPT ![g] = <<>>] /\ downs' = [downs EXCEPT ![g] = {}]
  /\ UNCHANGED <<alive, ready, linkVars, timeouts, connectors, replies, viewVars, member,
                 notices, pid, loading, version, busy, workers, inbox, moves, faults>>

BecomesAvailable(g) ==
  /\ pid[g] # NoPid /\ ~available[g] /\ switches < MaxSwitches
  /\ switches' = switches + 1
  /\ available' = [available EXCEPT ![g] = TRUE]
  /\ ToAdmitted(g, Create(version[g]))
  /\ UNCHANGED <<alive, ready, linkVars, timeouts, connectors, replies, viewVars, member,
                 notices, pid, loading, version, guildVars, inbox, moves, faults>>

\* handle_join_guild and handle_leave_guild of presence.erl
Moves(l) ==
  /\ moves < MaxMoves /\ moves' = moves + 1
  /\ member' = [member EXCEPT ![l] = ~@]
  /\ notices' = [notices EXCEPT ![l] =
                   IF alive[l[1]] THEN Append(@, IF member[l] THEN "leave" ELSE "join") ELSE @]
  /\ UNCHANGED <<alive, ready, linkVars, timeouts, connectors, replies, viewVars, pid,
                 loading, available, version, guildVars, inbox, mail, switches, faults>>

-----------------------------------------------------------------------------
Next ==
  \/ \E l \in Links : \/ GuildConnect(l) \/ ConnectorResult(l) \/ GuildConnectTimeout(l)
                      \/ FromGuild(l) \/ FromPresence(l) \/ Connector(l) \/ Moves(l)
  \/ \E s \in Sessions : Ready(s) \/ SessionEnds(s)
  \/ \E g \in Guilds : \/ GuildStarts(g) \/ GuildCrashes(g) \/ Enqueue(g) \/ Finalize(g)
                       \/ SessionDown(g) \/ GuildEvent(g)
                       \/ BecomesUnavailable(g) \/ BecomesAvailable(g)

Spec == Init /\ [][Next]_vars

\* Messages are handled, timers fire, connectors and workers finish.
Fairness ==
  /\ \A l \in Links : /\ WF_vars(GuildConnect(l)) /\ WF_vars(ConnectorResult(l))
                      /\ WF_vars(GuildConnectTimeout(l)) /\ WF_vars(FromGuild(l))
                      /\ WF_vars(FromPresence(l)) /\ WF_vars(Connector(l))
  /\ \A s \in Sessions : WF_vars(Ready(s))
  /\ \A g \in Guilds : /\ WF_vars(GuildStarts(g)) /\ WF_vars(Enqueue(g))
                       /\ WF_vars(Finalize(g)) /\ WF_vars(SessionDown(g))

FairSpec == Spec /\ Fairness

-----------------------------------------------------------------------------
(***************************************************************************)
(* Properties.                                                             *)
(***************************************************************************)
IsBagOf(b, S) == DOMAIN b \subseteq S /\ \A x \in DOMAIN b : b[x] \in Nat \ {0}

\* Every variable has its type.
TypeOK ==
  /\ alive \in [Sessions -> BOOLEAN] /\ ready \in [Sessions -> BOOLEAN]
  /\ guilds \in [Links -> {"undefined", "cached_unavailable", "connected"}]
  /\ peer \in [Links -> 0..MaxPids] /\ inflight \in [Links -> Attempts \union {None}]
  /\ \A l \in Links : /\ IsBagOf(wakeups[l], Attempts) /\ IsBagOf(timeouts[l], Attempts)
                      /\ IsBagOf(connectors[l], Attempts)
                      /\ IsBagOf(replies[l], [attempt : Attempts,
                                    is : {"loading", "error", "cached_unavailable"}])
  /\ collected \in [Links -> [is : {"none", "unavailable", "full"}, version : 0..MaxVersion]]
  /\ told \in [Links -> {"none", "unavailable", "full"}]
  /\ seen \in [Links -> 0..MaxVersion] /\ member \in [Links -> BOOLEAN]
  /\ pid \in [Guilds -> 0..MaxPids] /\ version \in [Guilds -> 0..MaxVersion]
  /\ entry \in [Links -> {"absent", "pending", "admitted"}]
  /\ pending \in [Links -> Attempts \union {None}]
  /\ \A g \in Guilds : /\ queue[g] \in Seq([session : Sessions, attempt : Attempts])
                       /\ downs[g] \subseteq Sessions /\ busy[g] \in 0..MaxWorkers

\* A session never loses sight of a guild of its user: unless it is connected,
\* an attempt is under way or one will be made.  (Connecting is a chain of
\* messages and timers with no other memory of the guild.)
NotForgotten ==
  \A l \in Links :
    alive[l[1]] /\ guilds[l] # "connected" /\ (member[l] \/ guilds[l] = "cached_unavailable")
      => \/ wakeups[l] # EmptyBag \/ inflight[l] # None
         \/ \E i \in DOMAIN notices[l] : notices[l][i] = "join"

\* An attempt never stays in guild_connect_inflight, where it takes one of the
\* session's few places and blocks other attempts at the guild, with nothing
\* left that can end it.
InflightResolves ==
  \A l \in Links : inflight[l] # None =>
    \/ BagIn(inflight[l], timeouts[l]) \/ BagIn(inflight[l], connectors[l])
    \/ \E r \in BagToSet(replies[l]) : r.attempt = inflight[l]

\* Workers are a bag: two may do the same work.
Running(g) == UNION {{w} \X (1..workers[g][w]) : w \in BagToSet(workers[g])}

\* The places for workers are given back whatever becomes of the sessions they
\* work for, and none is free while a session waits.
WorkersCounted ==
  \A g \in Guilds : /\ busy[g] = Cardinality(Running(g))
                    /\ queue[g] # <<>> => busy[g] = MaxWorkers

\* A session whose connection is pending gets no events; it is pending exactly
\* while a request of its latest attempt is queued or worked on.
PendingServed ==
  \A l \in Links :
    /\ entry[l] = "pending" <=> pending[l] # None
    /\ pending[l] # None =>
         \/ \E i \in DOMAIN queue[l[2]] :
              queue[l[2]][i] = [session |-> l[1], attempt |-> pending[l]]
         \/ \E w \in BagToSet(workers[l[2]]) : w.session = l[1] /\ w.attempt = pending[l]

\* A guild forgets a session that has ended, also one that ended before its
\* request was read or its worker was done.
DeadSessionsLeave ==
  \A l \in Links : ~alive[l[1]] /\ entry[l] # "absent" => l[1] \in downs[l[2]]

\* A session that takes itself for connected is known to the guild process it
\* monitors, or is about to hear that it is not.
ConnectedIsKnown ==
  \A l \in Links : guilds[l] = "connected" =>
    LET Coming(m) == \E i \in DOMAIN mail[l] : mail[l][i] = m
    IN IF peer[l] = pid[l[2]] THEN entry[l] # "absent" \/ Coming(Leave)
                              ELSE Coming(Down(peer[l]))

\* Whatever fails, the sessions of a member connect again and get its events.
MembersConnect ==
  \A l \in Links :
    []<>(\/ ~alive[l[1]] \/ ~member[l] \/ ~available[l[2]]
         \/ guilds[l] = "connected" /\ peer[l] = pid[l[2]] /\ entry[l] = "admitted")

\* Nothing between the session, its guild and its presence is under way.
Settled(l) ==
  /\ alive[l[1]] /\ ready[l[1]] /\ mail[l] = <<>> /\ notices[l] = <<>>
  /\ inflight[l] = None /\ pending[l] = None
  /\ connectors[l] = EmptyBag /\ replies[l] = EmptyBag
  /\ \A c \in BagToSet(inbox[l[2]]) : c.session # l[1]

\* GUILD_CREATE: "Sent when a guild becomes available" - a client in a guild
\* that is available has been told.
AvailabilityTold ==
  \A l \in Links : Settled(l) /\ guilds[l] = "connected" /\ available[l[2]]
                    /\ peer[l] = pid[l[2]]
    => told[l] = "full"

\* GUILD_DELETE: "Sent when a guild becomes unavailable" - the client of a
\* session that waits for a guild to be available does not show the guild.
UnavailabilityTold ==
  \A l \in Links : Settled(l) /\ guilds[l] = "cached_unavailable" => told[l] # "full"

\* A client that is shown a guild has all the guild has told its members.
EventsReachMembers ==
  \A l \in Links : Settled(l) /\ guilds[l] = "connected" /\ peer[l] = pid[l[2]]
                    /\ told[l] = "full"
    => seen[l] = version[l[2]]

\* GUILD_DELETE: "Sent when ... the user is removed from a guild" - a client
\* is not shown a guild its user has left.
LeftIsGone == \A l \in Links : Settled(l) /\ ~member[l] => told[l] # "full"
=============================================================================
