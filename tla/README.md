# Verification of fluxer's gateway and queues

Fluxer is a chat platform. Its real-time half is the *gateway*
(`fluxer_gateway`, Erlang): one process per client session, one per
guild, per user presence, per private call, and one handler process per
WebSocket. The web client's end of it is one TypeScript class
(`fluxer_app/src/lib/GatewaySocket.tsx`). What must be right there is spread
over processes that send each other messages, arm timers and die on their own,
which is hard to test and is what most of these modules are about. The second
place of that kind is what runs later and elsewhere: the job queue with its
workers, and the scheduled messages of the API. The rest of the system (HTTP API,
web stores, media) hangs off these.

`PROJECT.json` lists components, runs, mutants, the source lines of every
definition, findings, hazards and theorems. Line numbers below refer to
`fluxer_gateway/src` unless a path says otherwise.

## 1. Inventory

### 1.1 Modelled

**Session process** (`session/session.erl`, `session_dispatch.erl`,
`session_monitor.erl`, `session_ready.erl`).
State: `seq`, `ack_seq`, the replay buffer, `socket_pid` and its monitor, the
pending READY payload, joined guilds, timers. Operations: dispatch an event
(number it, buffer it, send it), `heartbeat_ack`, `resume`, readiness, guild
join/leave/death, socket death, `resume_timeout`, `terminate`,
`terminate_force`. Spoken to by the handler (calls), guilds, presence, calls
(casts) and itself (timers). Hard: a number is part of a promise to a client
that may resume at any time; READY is numbered but not buffered; the
ten-second timer of a lost socket is never cancelled; an overflow condemns the
process by a cast to itself, which other messages overtake. Correct when no
unacknowledged event leaves the buffer, no number is reused, and a session
without a socket ends.

**Connection handler and resume protocol** (`gateway/gateway_handler.erl`,
with session and client). State: the session pid it monitors, the sequence
number, heartbeat times. Operations: IDENTIFY, RESUME, HEARTBEAT, forwarding of
dispatches, session death, heartbeat checks. Hard: while it waits for the
answer to a resume, dispatches already enter its mailbox, so new events overtake
the replay; it may die at any point of the replay; an old handler still
acknowledges after a new one took the session over. Correct when a client that
resumes has no gap, and is not refused.

**Web client's socket** (`fluxer_app/src/lib/GatewaySocket.tsx`). State:
connection state, session id, last number, four timers, pending URL promise,
WebSocket with its listeners. Operations: connect, disconnect, reset, network
status, every message, close, error and timer. Hard: each callback may find
that another path has replaced the socket or the session; timers outlive what
they were set for. Correct when it is never stranded, keeps a live session and
resumes it with a number of its own.

**Session-guild connection** (`session/session_connection.erl`,
`guild/guild.erl`, `guild_sessions.erl`, `guild_availability.erl`,
`presence/presence.erl` for joins and leaves). State: per guild of a session
`undefined | cached_unavailable | connected`, attempts in flight, retry
timers; in the guild, session entries, pending attempts, the queue and the
places of the admission workers. Operations: attempt, answer, timeout, retry
with back-off, admission by a worker, forced leave, deaths of either side,
availability changes, joins and leaves. Hard: each step is a message that
crosses with the others, attempts are told apart only by a small number, the
worker computes the session's view from a copy. Correct when a session forgets
no guild, gives back what it holds, does not believe it is connected where it
is not known, and its client sees what its guild says.

**Guild manager and its shards** (`guild/guild_manager.erl`,
`guild_manager_shard.erl`, `telemetry/process_registry.erl`, the RPCs in
`gateway/gateway_rpc_guild.erl`). State: in the shard, per guild, nothing, `loading` or
a monitored pid, and the requests that wait for a load; in the manager its shards; for
everyone a cache of pids and the names under which guilds are registered. Operations:
`start_or_lookup`, `lookup`, `ensure_started`, stop, shutdown, reload, the fetches of a
guild's data, deaths of guilds and shards. Spoken to by sessions' connectors and the
RPCs of the API. Hard: four places know the guild (map, cache, name, process) and change
at different times; a request has three ways to the shard; data is fetched while the guild
goes on changing; a stop blocks the shard, and may time out. Correct when one process
serves the guild, has what was dispatched to it, and everyone who waits is answered.

**Private calls** (`call/call.erl`, `call/call_manager.erl`,
`voice/dm_voice.erl` and the parts of `session/session_voice.erl` that enter
and leave a call). State: in the call the users who ring with their timers, a voice
state for each user, a monitored entry for each session, pending connections, the
idle timer, the event sent last; in the manager the call of a channel. Operations:
create, ring, stop ringing, join, leave, confirm, disconnect on a report of
the media server, ring, idle and pending timeouts, deaths of sessions, stop from
outside. Spoken to by sessions (processes spawned for each join and leave), the API and
the manager. Hard: a user has several sessions but one voice state; the spawned
processes of a join and of the hang-up after it race; the media server reports
connections that ended, late; a handler announces only the changes it knows of.
Correct when nobody is left in a call by a session that died, who rings has a
timer, recipients know what is the case, the manager finds the running call, and
an empty call ends.

**Job queue and its workers** (`packages/queue/src/engine/QueueEngine.tsx`,
`packages/worker`). State: jobs with status, receipt and attempts; the ready,
scheduled and in-flight queues; the index of deduplication ids; the snapshot file.
Operations: enqueue, lease, acknowledge, refuse, delete, retry of a dead letter,
the two timers (scheduled jobs, visibility timeouts), snapshot, shutdown, restore.
Hard: each job is in several structures that must agree; leases end behind the
worker's back while requests are lost or late; a restart goes back to a snapshot taken
at any time before. Correct when the structures agree, a lease is respected, no
job goes away without having been run, one live job exists per deduplication id, and
every job settles. The packages are complete and documented
(`fluxer_docs/self_hosting/configuration.mdx:1241`), but no service of the
repository starts them: the workers of the API take their jobs from NATS.

**Scheduled messages and the API's workers**
(`packages/api/src/channel/services/ScheduledMessageService.tsx`,
`packages/api/src/worker`). State: a row per message, a NATS job per change of
it, the deliveries in progress. Operations: schedule, change, cancel; deliver,
read, send, delete or invalidate; redelivery; crashes. Hard: row and job are
written in two steps and read in several, by processes that may die between
them. Correct when a message is sent once, at its time, unless cancelled: it is
not (section 5).

### 1.2 Not modelled yet, or at all

| Component | State and operations; what is hard | In the plan? |
|---|---|---|
| Session: reactions and presences held back (`session_dispatch.erl`) | debounce buffer of reactions, pending presences up to 2048; a flush after removal, a flush under one message's id | module `SessionDispatch` |
| Session: voice and private calls (`session_voice.erl`) | the session's own watch over its calls and reconnects to them, updates of a voice state; entering and leaving a call is in `Call` | after `SessionDispatch` |
| Session manager and shards (`session_manager_shard.erl`) | identify workers, callers waiting for one session, lookup races with worker results | `SessionManagerShard` |
| Guild: dispatch, permissions, member lists, subscriptions, passive sync | who may see which event; lists ordered by presence and name | `GuildVisibility` |
| Very large guilds (`very_large_guild.erl`) | coordinator in front of shards | after the ordinary guild |
| Presence (`presence.erl` and its shards) | one process per user, sessions' statuses merged, subscriptions | `Presence` |
| Guild voice (`guild/voice/`) | pending and confirmed connections, moves, tokens with a time to live; shares the operations on pending connections with calls | `GuildVoice` |
| Push notifications | caches in front of API calls | no: functions of one request |
| RPC of the gateway | routes requests, counts running handlers | the limit of handlers, later |
| Frames: codec and compression | pure, zlib | no |
| Hot reload, telemetry | operations tooling | no |
| Rate limiter (`packages/rate_limit`) | GCRA on a stored time, read and written in two steps | `RateLimiter` |
| Cache, key-value, NATS clients, snowflakes | thin clients; a snowflake's time and sequence | snowflakes, perhaps |
| HTTP API (`packages/api`) | handlers over Cassandra, no state between requests | as a source of events only |
| Web client: stores and interface | folds the event stream | no |
| Relay, relay directory | forward connections between instances | perhaps |
| Media proxy, admin, marketing, desktop, app proxy, plugins | stateless requests, interface | no |
| Server, deployment, integration tests, documentation | start-up, packaging | quoted, not modelled |

### 1.3 How the parts interact

```
 client --frames--> handler --calls--> session --spawns--> connector
   ^                   |                ^  ^                  | lookup, cast,
   +---- frames -------+<--dispatch-----+  |                  | timer
                                           |                  v
       presence --guild_join/leave---------+<--result/leave-- guild --> workers
                                           |      DOWN both ways  ^
       calls ----events--------------------+                      |
      ^  ^  ^    API --start, stop, reload--> guild manager, shards -+ start, stop
      |  |  +-- join/leave -- processes spawned by sessions; DOWN of sessions
      |  +----- create, ring, stop -- API;  call manager starts and finds calls
      +-------- connection ended -- media server

   API --row, job--> database, NATS --deliver--> API workers --send--> API
   clients of the queue --HTTP--> QueueEngine <--lease, ack, nack-- WorkerRunner
                                       +--snapshot--> file --> next start
```

### 1.4 Hazards beyond the list

`PROJECT.json` lists the hazards that matter most. Others, for the modules that
will meet them:

- Session: `mark_cached_guild_unavailable` expects `check_readiness` not to stop the
  session (`session/session_connection.erl:198`); a `presence_connect` that times out
  is not retried (`:143`); a session that reconnects to a call which
  ends at that moment dies of the failed call (`:543`). Reactions to
  different messages of one debounce window go out under the first one's
  message, presences held back have a limit of their own, and a flush may follow a removal
  (`session/session_dispatch.erl:104`, `:188`, `:272`). The offline presence of a
  lost socket is sent as a plain message that no clause takes
  (`session/session_monitor.erl:60`).
- Handler: an event that cannot be encoded is dropped although it has a number
  (`gateway/gateway_handler.erl:222`).
- Client: `disconnect()` while it connects does not stop the connection
  (`GatewaySocket.tsx:206`); during the decompression that `handleSocketMessage` awaits
  the socket may be torn down or a later message be handled (`:446`).
- Guild: a late request makes an admitted session pending again and nobody tells it
  (`guild/guild.erl:649`); a killed admission worker leaves its session pending (`:232`);
  an event of an unavailable guild is skipped before it changes the guild's
  own state (`guild/guild_dispatch.erl:49`).
- Calls: the manager asks a call that has just ended to stop, exits with it and takes
  every linked call along (`call/call_manager.erl:162`).
- Queue: jobs leased early in a waiting dequeue may time out before the response
  carries them (`QueueEngine.tsx:226`).
- Scheduled messages: a failure between the row and the job leaves a message that waits
  for ever (`ScheduledMessageService.tsx:166`).

## 2. Plan

Order: what a client notices first, then what other components rely on.

1. *(done)* `SessionLog`, the numbering of one session; its proofs.
2. *(done)* `EventStream`, the abstract promise; `GatewayResume`, which composes
   `SessionLog` with handlers and a client and implements it; proofs of both.
3. *(done)* `GatewaySocket`, the complete client; its proofs.
4. *(done)* `GuildConnect`, sessions and guilds; its proofs.
5. *(done)* `JobQueue`, the queue with its workers; its proofs.
6. *(done)* `ScheduledMessages`, the rows, the NATS queue and the API's workers.
7. *(done)* `Call`, the call with its manager and what sessions do in it; its proofs.
8. *(done)* `GuildManager`, a guild's shard and the manager, from request to process; its proofs.
9. `SessionDispatch`: the debounced reactions and held-back presences, composed
   with the log (an event held back is numbered when it is let go).
10. `SessionManagerShard`: waiting callers are answered exactly once.
11. `GuildVoice`, which shares the pending connections with `Call`; `Presence`.
12. `RateLimiter`, `GuildVisibility`, very large guilds.

A component gets one run, with fairness, for its safety and liveness together; only
`guild_connect` and `guild_admission` are two, since they need different instances. An
invariant that follows from another that is checked, or is proved and kept for the proof only,
is in no run. The types of `JobQueue` and `GatewayResume` are proved and in no run.

Every safety property that a passing run checks is a theorem (section 6). Worth proving
next are abstract specifications of the other components with their refinements: of
`GuildConnect` what a member's session is told of its guilds, of `JobQueue` a job that is done,
given up or pending.

## 3. Modules

| Module | Models | EXTENDS/INSTANCE |
|---|---|---|
| `SessionLog` | one session process | |
| `SessionLog_proofs` | theorems on it | `SessionLog` |
| `EventStream` | what session, handlers and client promise together | |
| `GatewayResume` | session + handlers + client | instance of `SessionLog`; of `EventStream` as refinement |
| `GatewayResume_proofs` | theorems on it, with the refinement | `GatewayResume` |
| `GatewaySocket` | the client in full, the server in outline | |
| `GatewaySocket_proofs` | theorems on it | `GatewaySocket` |
| `GuildConnect` | sessions, connectors, guilds, presence casts | |
| `GuildConnect_proofs` | theorems on it | `GuildConnect` |
| `JobQueue` | the job queue, its snapshots, its workers | |
| `JobQueue_proofs` | theorems on it | `JobQueue` |
| `ScheduledMessages` | rows, jobs and workers of messages to be sent later | |
| `Call` | a private call, its manager, the sessions' processes | |
| `Call_proofs` | theorems on it | `Call` |
| `GuildManager` | a guild's start, stop and reload: manager, shard, cache, clients | |
| `GuildManager_proofs` | who has the guild's name, who waits for it | `GuildManager` |
| `GuildManagerKept_proofs` | what becomes of a dispatched update | `GuildManager_proofs` |
| `MC*` | instances for TLC | |

Each module has definitions marked as *faulty variants*. No behaviour uses
them. Each is one definition changed in the way a plausible mistake would
change it (a boundary off by one, a reset forgotten, a timer ignored); with it
in place of the original a named property is violated, which shows that the
property depends on the code. `PROJECT.json` pairs them.

### 3.1 SessionLog

An event is its number. The code's buffer is a list that only grows at its end
by larger numbers (`BufferBelowSeq` says so and is proved), so it is a set here. A handler
that dispatches several events is several steps; their interleaving with other
handlers is a superset of what the code does. Actions and handlers:

| Action | Code |
|---|---|
| `Dispatch` (`Record` or `Overflow`) | `session.erl` `{dispatch, _, _}`; `session_dispatch.erl` `do_handle_dispatch/3`, `append_or_fail/5` |
| `BecomeReady`, `JoinGuild` | `premature_readiness`, `bot_initial_ready`; `process_guild_state/2`, `check_readiness/1`, `dispatch_ready_data/1` |
| `LoseGuild`, `LeaveGuild` | guild death, `{guild_leave, G, forced_unavailable}`; `{guild_leave, G}` |
| `HeartbeatAck`, `Resume` | the calls of the same names |
| `SocketDown`, `ResumeTimeout` | `session_monitor.erl` `handle_socket_down/1`; `resume_timeout` |
| `TerminateForce`, `Terminate` | the casts |

Data left out: contents of events, presence, voice, codecs.

### 3.2 GatewayResume and EventStream

`GatewayResume` takes the actions of `SessionLog` as they are and adds what they
send. The messages in a handler's mailbox and the frames it has sent form one
first-in-first-out `link`, since a handler turns one into the other in order;
`HandlerDies` cuts the link anywhere. `HandleResume` and `FinishResume` are two
steps because the handler waits for the session's reply while its mailbox
fills. `HeartbeatTimesOut` is the five-second call timeout after which the session
still takes the acknowledgement. The client here is what decides `cseq`; its
connecting and timers are `GatewaySocket`'s. The model starts when the session has
been identified, by an account that is not a bot. A session that
is `gone` for the client is the end: `GatewaySocket` has what comes next.

`EventStream` has no connections, buffers or acknowledgement messages: events
are produced in ascending order, delivered in any order and number of times; a
number is claimed only when everything below it was delivered, and acknowledged
only when it was claimed. `ImplementsStream` is the refinement.

### 3.3 GatewaySocket

JavaScript runs one callback at a time, so one callback is one action, with
everything it calls. `OpenConnection`, `TeardownSocket`, `ConnectionFailure`,
`DisconnectResumable`, `StopHeartbeat`, `SendIdentify`, `SendResume` and
`SendHeartbeat` are the methods of these (or nearly these) names. Times are
abstracted to their order: a timer in `timers` may fire at any later point, and
`stale` says that what `canResumeSession` looks at is longer ago than the resume
window. The server is reduced to which session a socket serves (`handler`,
`via`), how far the session has come (`reached`) and which answers it may
give. A WebSocket whose listeners are removed can no longer reach the client, so
its slot is reused.

Not in it: the decompression that `handleSocketMessage` awaits (a message is
decoded when it arrives); RECONNECT, which the server never sends; the
relay's choice of an endpoint beyond the promise for it.

### 3.4 GuildConnect

A *link* is a session and a guild. The session's side is `guilds`, `inflight`,
`wakeups` (`{guild_connect, G, Attempt}` messages and timers), `timeouts`,
`connectors` and their `replies`; the guild's side is `entry`, `pending`,
`queue`, `busy`, `workers`, `inbox`, `downs`. What a guild sends to a session
keeps its order (`mail`); timers, connectors and presence arrive in any
order with it, as Erlang orders messages only between two processes. Timers, replies,
connectors and workers are bags because two attempts may carry the same number, and so
may two workers of one session; `Ext` is the community module of bags, taken as an instance
because it and `SequencesExt` define the same names.

Merged into one step: a connector's lookup, cast and arming of the timer; the
end of a worker and the guild's handling of its result. A worker's copy of the
guild's state is taken when it *starts*, which is where the code takes it, so
events in between are the model's too. READY may come at any time (a timer
of three seconds forces it). A timeout that fires although its answer would
still come counts as a *fault*, so that `MaxFaults` bounds what goes wrong.

Not in it: guilds and workers that are killed rather than crash, staff users
(who see unavailable guilds), very large guilds, the connection to presence
itself. `GuildStarts` is the guild manager in one step. Availability is one variable
although the code has it in the guild's data and in a cache: a session asks the
cache only about a guild that has told it that it is unavailable, and both are
written in the same step (`guild.erl:71`, `guild_availability.erl:150`).

### 3.5 JobQueue

The engine's methods run without waiting and are one step each. Of time
only the order is kept: any entry of a delay queue may be past its deadline when a
timer looks, so `changeVisibility`, which moves a deadline, has nothing to do
here. Which ready job a poll takes is left open (priorities, task types).

| Action | Code |
|---|---|
| `Enqueue`, `Delete`, `Retry` | `enqueue`, `deleteJob`, `retryJob` |
| `Poll` (`Lease`) | `dequeue`, `tryDequeueOne`, with the `processScheduledJobs` in it |
| `SchedulerTick`, `VisibilityTick` | the two intervals |
| `Settle` (`Ack`, `Nack`) | `ack`, `nack`, as called by `Complete`, `Fail` and `Arrives` |
| `Save`, `Stop`, `GoDown`, `Start` | `saveSnapshot`, `stop`, the end of the process, `loadSnapshot` |
| `RunEnds`, `Complete`, `Fail` | `WorkerRunner` over `HttpWorkerQueue` |

A request of a worker that the engine never gets, or gets when nobody waits for it,
is on the `wire`; a worker that dies is one whose requests are all lost.
`Save` copies the maps and writes them in one step: what happens between copy and
write is what happens after the step, and a crash in between is one before it. `Stop`
leaves either a fresh snapshot on disk or the older one, since a snapshot
already being written makes the last one return its promise
(`QueueEngine.tsx:609`). Snapshots are taken only while a stop is still to come
(`MaxStops`): nobody reads a later one. Three histories are variables: `born`, the ids
ever used, as every enqueue makes a new one; `shared`, the deduplication ids that a
retry or a deletion of a dead letter has come across; and `handed`, how many polls have
taken each job since the engine started or the job was retried. `TriesBounded` is about
`handed` and not about the engine's own `attempts`, which a start takes from a snapshot:
each life of the engine may try a job `maxAttempts` times again, as its file may be from
before all of them. Retry and deletion of a dead letter drop or overwrite an
index entry that may belong to a newer job, so `KeyUnique` makes an exception
for these ids; the package's test enqueues after a dead letter
on purpose (`QueueEngine.test.tsx:113`).

### 3.6 ScheduledMessages

Each access to the database or the queue is a step of its own: `Ask`, `Upsert`,
`Publish` or `RequestFails`, and `Cancel`, for a request; `Deliver`, `Read`, `Send`,
`DeleteRow`, `Invalidate` for a worker, which may `Crash` before each. A job that
is refused, or not acknowledged in time (`AckWaitPasses`), is delivered again
up to `MaxDeliver` times. NATS and the database are as the code uses them. The
module has only properties that the documentation states and the code does not have
(section 5); what does hold of it (a job is settled, a worker rests) follows from
the shape of the model and is not worth a run.

### 3.7 Call

One channel. Messages to the call come from different processes, hence any of
those present may be handled next; a request and its handling are one step, because
its sender waits. The processes that `dm_voice` spawns are `joiner` (look up
the call, up to `MaxTries` times, then join) and `leaver`. A session has one
joiner at a time; in the code it has two if it enters, hangs up and enters again
while the first still looks, which is left out.

| Action | Code |
|---|---|
| `Create`, `Terminate`, `ManagerDown` | `do_create_call`, `do_terminate_call`, `'DOWN'` in `call_manager.erl` |
| `Ring`, `StopRinging`, `RingTimeout`, `IdleTimeout` | the casts and timers in `call.erl` |
| `JoinerJoins` (`Join`), `LeaverLeaves`, `SessionDown` (`Departs`) | `join`, `leave`, `'DOWN'` |
| `Confirm`, `Disconnect`, `PendingTimeout` | `confirm_connection`, `disconnect_user_if_in_channel`, `pending_connection_timeout` |
| `Talk`, `HangUp`, `JoinerLooks` | `dm_voice.erl` `voice_state_update`, `join_or_create_call` |
| `Drops`, `ForceDisconnect`, `SessionEnds` | the media server's side, `call_force_disconnect`, the session's end |

`disconnect_user_if_in_channel` names a connection, which is not always the one the
session has now: the media server's report is late, or the device has joined
again. So a connection that ended is `<<s, "present">>` or, after the next hang-up,
`<<s, "former">>`. Announcements are what the handler sends (`last`); the processes
that deliver them, in whatever order they run, are left out. A pending connection is
named by its session.

Not in it: changes of region, `update_voice_state`, `call.join` by RPC and
`join_async` (nothing in the API uses them), what is in the events, and the session's
own monitor of a call and its reconnect.

### 3.8 GuildManager

One guild and the shard it belongs to. A client has one request under way: a *writer* is a
request of the API that has changed the database (`Write`) and dispatches the change
(`Ask`, `Dispatch`), an *asker* is anything that looks for the guild, an *admin* one of the
RPCs that stop or reload it.

| Action | Code |
|---|---|
| `Ask`, `TakeAnswer`, `Dispatch`, `Rule` | `get_guild_pid`, `lookup`, `start_or_lookup`, `ensure_started`; `execute_method` of `guild.dispatch`, `guild.stop`, `guild.shutdown`, `guild.reload` |
| `ManagerTakes`, `ManagerAnswers`, `ManagerGivesUp`, `ShardRestarts` | `forward_call`, `forward_call_to_shard`, `restart_shard` |
| `Find` (`HandleStart`, `HandleLookup`, `HandleEnsure`) | `do_start_or_lookup`, `do_lookup`, `do_ensure_started` |
| `Stop`, `Stopped`; `Reload`, `TakeReloaded`, `ReloadEnds` | `do_stop_guild`, `do_shutdown_guild`; `do_reload_guild`, `handle_guild_data_reloaded` |
| `LoadEnds`, `ReloadFetched`, `TakeFetched` (`Starts`, `StartFails`) | `fetch_guild_data`; `handle_guild_data_fetched`, `start_new_guild` |
| `TakeDown`, `Dies` | `cleanup_on_down`; the end of a guild's process |

A handler that waits for the guild (`gen_server:stop`, `{terminate}`, `{reload, Data}`) is
two actions, with `busy` in between, when the shard takes nothing else. The shard's mailbox
keeps the order of arrival; a DOWN comes at any time after the death. The *data* of a guild
is the set of the updates it has. A fetch reads each collection at a time of its
own, hence any set between what was written when it began and what is written when it ends.
`strayed` and `overwritten` are histories: the updates for which the cache gave out a guild that
the shard had unregistered after a stop that timed out, and those that a reload took away.

In `TakeFetched` the branch that finds the name registered is the code's; `WaitersHaveAFetch`,
which is proved, says that it is never taken, since nothing but the load itself starts a guild.

Not in it: `reload_all_guilds` and the counts; a crash of the manager, whose supervisor
starts everything anew; several shards, which share nothing; what is particular to very
large guilds.

## 4. Runs

| Run | Question | Bounds | States |
|---|---|---|---|
| `session_log` | numbering, buffer and end of one session, any order of calls | bot, 2 guilds, 2 sockets, buffer 2, numbers to 5, 2 socket deaths | 74k |
| `resume` | does a resuming client get every event; does connecting end, does an abandoned session stop; refinement of `EventStream` | one guild, one leave, buffer 2, numbers to 3, 2 deaths, 2 connections, 1 waiting request | 203k |
| `leave_gap` | *violated*: `NoGap` when guilds can be left | the same, numbers to 2 | |
| `client` | is the client never stranded, does it keep a live session, not replace a working connection on account of an earlier one, notice a dead one and go on reconnecting | 1 socket, 1 session, 2 events, pauses over the window, `disconnect` and `reset` at any time | 233k |
| `identify_twice` | *violated*: one IDENTIFY per connection | 1 session, no pauses | |
| `guild_connect` | is no guild forgotten, no place lost, no false connection | 1 session, 2 guilds, 1 place, 2 retries, 1 fault, 1 move, 1 switch of availability | 1.3M |
| `guild_admission` | are workers' places, pending entries and dead sessions accounted for; do a member's sessions connect in the end | 2 sessions, 1 guild, 1 worker, 2 pids, 1 event, 1 fault, sessions end | 177k |
| `guild_left` | *violated*: a guild that was left is gone | 1 session, 1 guild, 1 move | |
| `job_queue` | do the queues agree, are leases respected, are a job's tries bounded, is nothing lost, does every job settle | 1 worker, 2 jobs with one deduplication id and 2 and 1 attempts, 4 receipts, 1 late request, 1 stop, 1 retry | 379k |
| `scheduled_early` | *violated*: a scheduled message waits for its time | 1 message, 2 workers, 2 deliveries | |
| `call` | is nobody left in a call by a dead session, who rings timed, what was announced true; does an empty call end | 3 sessions of 2 users, 1 lookup, 1 call, 2 entries, 1 request to ring, 1 session ends | 331k |
| `guild_manager` | does one process serve the guild, has it what was dispatched, does the shard hear of its end, is everyone who waits for a load answered | 1 writer, 1 asker, 1 admin, 2 guild processes, 1 crash of a guild, 1 of the shard, 1 wait that times out | 458k |

Why the bounds are enough for what is asked:

- A buffer of 2 has the states empty, partly filled and full; with
  numbers to 5 (READY of a bot with two guilds takes three) it fills, is trimmed,
  fills again and overflows. The theorems hold for every limit.
- Two socket deaths give a stale timer that fires during the next loss.
  Two connections are one resume, with every interleaving of an old and a new
  handler. A second resume, and a third handler that takes over while the first has a
  request waiting, need three connections (`MaxConns` and `MaxDowns` at 3, `MaxSeq` at 2):
  checked by hand with the same result for all five properties (518k states), as the run
  would take too long. The theorems hold for any number of connections.
- The places for WebSockets and URL promises in `GatewaySocket`: a
  client keeps one socket and, except for the relay, one promise. With two
  promises at a time (`MaxOpening = 2`), possible when a HELLO timeout falls into
  the relay's selection, `NeverStranded` fails: the HELLO of one socket clears
  the timer of the other. One such behaviour is `Connect`, `Reset`, `UrlKnown`,
  `SocketOpens`, `ReceiveHello`, `UrlKnown`, `Disconnect`, `SessionReadies`,
  `ReceiveDispatch`: a READY of the first socket, still listened to, connects a client
  that has no heartbeat any more. The state space with two is too large to exhaust, so
  this is in no run; that two promises are what it takes is a theorem
  (`NeverStrandedHolds`). Without the relay there is only one: the promise of
  `buildGatewayUrl` is settled before the next callback runs (`GatewaySocket.tsx:916`).
- `client` has one session: `KeepsLiveSession` is about losing it, and what a
  second one inherits is what `ResumesLiveSession` is about (section 5).
- `guild_connect` needs two guilds for one place (`MaxInflight = 1`, in the code
  8) so that an attempt finds it taken, and three pids so that an old process, the
  running one and a new one differ. Its two guilds are interchangeable, hence the
  symmetry; no run with liveness uses any. Attempts end at 2 (25 in the code):
  `RetryOrFail` caps at the constant as the code does at its own.
  A guild may be unavailable when it is first loaded. Without symmetry and with wider
  bounds, for guilds that start available, the run has been checked by hand (5.6
  million states) with the same result.
- `guild_admission` has two sessions for one worker (two in the code), so that
  one waits, and two pids, so that the guild process may end and another starts. With
  a switch of availability in place of the event (275k states) it has been checked by
  hand with the same result.
- `job_queue`: two jobs with one deduplication id, of which one may be retried and
  the other not, are the smallest case of every rule on queues and ids. Four
  receipts are one for each lease of either job and one to spare for a late request;
  a receipt is taken again only when nobody has it. One stop gives every
  order of snapshot, crash and start. Two workers matter for
  `LeaseRespected` only, which is proved for any number.
- `call`: two sessions of one user share a voice state, and the third makes the call
  outlive them. With two calls of the channel (safety only, 867k states, checked by
  hand) messages to an ended call meet the next one; the proofs cover any number.
- `guild_manager`: two processes are what `OneServes` is about, and one crash, one
  restart of the shard and one timed-out stop each give the guild another life while the
  first is in the map, in the cache or dying. One client of each kind gives
  every pair of requests that cross; two that wait for one load matter to `pending` only,
  which is a set. With clients and manager that give up any number of times (safety only, 1.1
  million states) it has been checked by hand with the same result.

Deadlock is checked in the runs of `GatewaySocket` only. A session that has
stopped, an empty queue, a call that has ended and any system with its bounds used up
may rightly be idle, so the others set `CHECK_DEADLOCK FALSE`.

### Fairness

- `SessionLog`: a process handles its own timers and its cast to itself
  (`WF` of `ResumeTimeout`, `TerminateForce`). Nobody is assumed to resume.
- `GatewayResume`: mailboxes are handled, `premature_readiness` fires, and a
  broken connection is noticed at both ends (the handler's `heartbeat_check`, the
  client's timeout of an acknowledgement). The network, a user who leaves and a
  client that comes back are not assumed.
- `GatewaySocket`: the reconnect timer, the heartbeat's ticks and its
  timeout fire (`setTimeout`, `setInterval`), the URL promise settles.
  The server owes nothing, which is why `ReconnectProceeds` says only that a
  reconnecting client tries again.
- `GuildConnect`: messages are handled, timers fire, connectors and workers
  finish (both catch their exceptions), READY is forced by its timer, a fetch
  of the guild manager comes back. Joins, leaves, crashes and availability are
  not assumed to happen; with bounds they stop, and `MembersConnect`
  says what holds after.

- `JobQueue`: deadlines pass and the engine's intervals find each job whose deadline has
  passed, `stop()` ends and the process is started again, workers go on. A late
  request need not arrive, and a snapshot need not be taken.
- `Call`: the timers of ringing and of the idle call fire and are handled, DOWN messages
  are handled by call and manager, sessions handle a forced disconnect, the
  spawned processes go on. Reports of the media server, requests of the API and
  users are not assumed.
- `GuildManager`: shard and guild handle their messages, a fetch ends (each has a deadline,
  and an exception counts as its failure), a wait of the shard ends (all have timeouts),
  the manager restarts a shard. Clients are not assumed to do anything.

Weak fairness suffices everywhere: a message that waits, or a timer that is armed,
stays enabled until it is handled.

## 5. Findings

Four statements of the repository are not what the code does; each is a run that
TLC finds violated.

- `leave_gap` (`session.erl:301`): the `guild_delete` of a guild the user left goes
  out under number `seq + 1`, but the state with the new number is thrown away, so
  the next event has the same number. A client that got the first, lost its
  connection and resumes, never gets the second.
- `identify_twice` (`GatewaySocket.tsx:180`): the timer set by INVALID_SESSION outlives its
  connection; after `connect()` by the browser's online event it sends IDENTIFY
  on the new socket before HELLO does so again, and the server closes with 4005.
- `guild_left` (`session.erl:305`): `guild_leave` is ignored while the session is still
  connecting to the guild, which is then shown to a user who has left it.
- `scheduled_early` (`packages/api/src/worker/JetStreamWorkerQueue.tsx:108`): the time a
  job is to run at is written into the job and read by nobody, and the message is published at
  once, so a scheduled message goes out as soon as a worker is free. The batches
  of the audit log are given a time too (`GuildAuditLogService.tsx:105`).

`GuildConnect` states three more properties that do **not** hold and are in no run.
Put each in place of `LeftIsGone` in `GuildLeft.cfg`, with `MaxMoves = 0`:

- `AvailabilityTold` (`MaxSwitches = 2`): a guild that becomes available while
  a session is admitted tells only those admitted, and the worker's copy still
  says unavailable: the client stays without the GUILD_CREATE that
  `fluxer_docs/schemas/events/GUILD_CREATE.json:4` promises.
- `UnavailabilityTold` (`MaxSwitches = 1`): the converse for GUILD_DELETE.
- `EventsReachMembers` (`MaxVersion = 1`): an event between the worker's copy and
  the admission is in neither, so a client is shown a state that lacks it.

`GuildManager` states two that do not hold, to be added to `GuildManager.cfg` without its other
properties, with no failures (`MaxCrashes`, `MaxShardCrashes` and `MaxSlow` at 0):

- `EndsUnload` (a PROPERTY): a stop or shutdown that finds the guild loading does nothing,
  answers ok (`guild/guild_manager_shard.erl:282`), and the guild starts when its data arrives.
  `packages/api/src/admin/controllers/GuildAdminController.tsx:403` says that it shuts the
  guild down and unloads it.
- `ReloadsKeep` (an INVARIANT): the data of a reload replaces the guild's
  (`guild/guild.erl:294`), although updates may have been dispatched since it was read; the
  guild lacks them until it is started or reloaded again. `GuildAdminController.tsx:379`
  offers the reload as a remedy for state that is out of step with the database. At a start
  the same cannot happen, as no update can be dispatched to a guild that has not started:
  `DispatchedIsKept` has exceptions for reloads and strayed updates only. A strayed update
  is sent to a guild that the manager's cache gives out after the shard has waited ten seconds
  for it to stop and unregistered it (`guild_manager_shard.erl:276`); the guild that is
  started next may have read the database before, and lack the update.

`GatewaySocket` states one, `ResumesLiveSession`, to be put in place of `IdentifiesOnce` in
`SocketIdentify.cfg` (with `MaxSessions = 2`, `MaxSeq = 2`, `Sleeps = TRUE`): a session given up
at HELLO leaves its last number to the next one (`GatewaySocket.tsx:607`), whose first resume
is refused with 4007. (`ResumeNeverRefused` of `GatewayResume` holds: it is about one session.)

`ScheduledMessages` states two more, to be put in place of `SentOnTime` in
`ScheduledEarly.cfg` (the first as a PROPERTY):

- `CancelledIsNotSent`: a message cancelled after the worker has read its row is sent,
  while `fluxer_docs/api-reference/openapi.json:57355` says of a cancelled message that it
  will not be delivered.
- `SentOnce`: a worker that dies after sending and before deleting the row, or whose
  acknowledgement is late, leaves a job that sends the message again.

And `Call` states two, to be added to `Call.cfg` (`HungUpIsOut` as an INVARIANT,
`EndsWhenAllLeft` as a PROPERTY):

- `HungUpIsOut`: the process that joins goes on after its session has hung up, and puts
  back a user who is not there; `fluxer_docs/schemas/events/CALL_UPDATE.json` describes
  the voice states as those of current participants.
- `EndsWhenAllLeft`: a user has one voice state for all devices. When one device leaves,
  or the media server reports late that a connection ended which the user has replaced
  since (`disconnect_user_if_in_channel` does not look at the connection it is given),
  the user counts as gone; the call may end with the other device in it.
  `CALL_DELETE.json:7` says that a call ends when all participants leave or time out.

Two further weaknesses of the calls were met while modelling and are hazards, as
they stop whole processes: `do_terminate_call` of a call that has just ended exits with
`noproc` and takes the manager, and with it all linked calls, down
(`call_manager.erl:162`); and a joiner that was told of a call which then ended
gives up, leaving its session in a call that does not exist.

One more disagreement needs no model: 4007 INVALID_SEQ also answers heartbeats
(`gateway/gateway_handler.erl:439`), while
`fluxer_docs/gateway/close_codes.mdx:18` has it for resumes.

## 6. Proofs

Everything in this section is checked by TLAPS for every value of the constants,
under the assumptions named in the modules (`LogAssumption`: finitely many guilds,
a buffer of at least one; `ResumeAssumption`: at least one connection, and `NoSocket`
is none of them; `LimitsAssumption`: limits are numbers, at least one
place and one pid; `SocketAssumption`: the bounds of the client are numbers, most of
them at least one; `QueueAssumption`: every job has a deduplication id or none and at
least one attempt, and the values that stand for none are no ids; `CallAssumption`:
every session has a user, and a joiner looks at least once; `GuildManagerAssumption`: the
three kinds of clients are disjoint, and the bounds are numbers). The bounds are constants of the specifications, so a theorem
covers every bound.

**`SessionLog_proofs`.** `TypeCorrect` is split into flags and data, because
each prover is better at one. `BufferBelowSeqHolds` and `NothingLost` are
inductive with the type; `BufferBoundedHolds` adds the cardinality of a set with one
element more. `NumbersAccounted` needs `BufferBelowSeq`: only because `seq + 1`
is above every recorded number does `Record` add exactly one to the
cardinality. `OrphanTimed` is inductive by itself: a timer that fires without a
socket takes the process with it. The lemma `LogSteps` says once what the actions may do to the log,
and the theorems on the log use it in place of `Next`.

**`GatewayResume_proofs`.** The invariant is

    Inv = TypeOK /\ Log /\ Places /\ Requests /\ Replies /\ Frames
          /\ Unmarked /\ Claims /\ InOrder /\ Covered /\ ResumeNeverRefused

It was first checked by TLC. `NoGapHolds` needs all of it, because a gap may open at
any stage of a resume:

- `Log` is what `SessionLog_proofs` proves of the session, stated again since the
  handlers' steps are steps of the log as well; `Places` and `Frames` say that a
  connection not yet opened holds nothing, and that what is under way was
  numbered by the session.
- `Requests`: a number that waits at any handler, also an old one, is not above what the
  client claims now. So an acknowledgement that arrives late still takes nothing from the
  buffer that the client lacks.
- `Replies`: an awaiting handler holds events and, last, RESUMED. `Unmarked`: until
  the handler sends it, nothing under way connects the client, so dispatches that
  overtake the replay do not advance `lastSequenceNumber`.
- `InOrder`: a frame that does advance it comes behind every smaller event the client
  lacks. `Claims`, and with it `AckHolds`, follows when that frame is received.
- `Covered`: on the session's own socket, whatever the client lacks is under way or in the
  reply of the awaiting handler. A resume establishes it from `Log` and `Claims`: an event
  above the claimed number is in the buffer, or was acknowledged and so received.

`InOrder` and `Covered` rest on each other: a new event is in order behind what
`Covered` says is under way. The lemma `Steps` reduces `Next` to eight kinds of
step (the session numbers an event or READY, a resume is taken or finished, the client
takes a message, opens a connection or sends a heartbeat, or the step is `Quiet`), each
part is proved on these, and `ReplayOf` says what a replay contains: a number of
each rank exists because different numbers have different ranks.
`StreamImplemented` shows each kind of step to be a step of `EventStream` or none
that it sees.

**`GatewaySocket_proofs`.** `Types` is the type with one strengthening: a READY under way
names a session (`GoodFrames`). That is what `KeepsLiveSession` needs, since a READY with
none would take the client's session away; with it, each step that clears the session
is a reset, a pause over the window, or an INVALID_SESSION.
`NeverStranded` needs

    Unstranded = Types /\ OneSocket /\ HelloFirst /\ Moving

and holds in every behaviour in which at most one URL is awaited (`OneAwaited`). The
hypothesis is real (section 4): it is what makes `OneSocket` inductive, that is that no
socket is listened to but the one in use. `HelloFirst` says that a socket without
heartbeats has HELLO in front of everything else it will hear, and the HELLO timer behind
it, so that a READY cannot connect a client that has no heartbeat; `Moving` is `NeverStranded` without the help of a timer that an
earlier attempt left behind. `NeverStrandedAlone` is the same for `MaxOpening = 1`,
without the hypothesis on behaviours: the instance that TLC explores.
`ConnectionKeptHolds` has the same hypothesis and needs `HelloOver` besides: a client that is
connected has no HELLO timer left, which `HelloFirst` keeps so. The reconnect timer, which
may well be left (the browser's online event does not clear it), finds the client connecting
or connected and does nothing.

**`GuildConnect_proofs`.** What a session does about its guilds is one invariant:

    ConnectInvariant = LinkShape /\ PresenceShape /\ GuildState
                       /\ DeadGetNothing /\ NoticesAgree /\ Resolves /\ NotForgotten

- `LinkShape`, `PresenceShape` and `GuildState` are the part of the type that the rest
  uses. `GuildState` adds `Homeless`: a guild without a process has no mailbox, no
  worker and no entry for a session, so what it sends always has a pid.
- `DeadGetNothing`: a session that ended holds no timer, attempt or
  mail. Without it, a late answer could revive an attempt of a session that is
  gone.
- `Resolves`: an attempt in flight has a connector, an answer or a timer that will
  end it (this is `InflightResolves`, with the three cases named). The hard step
  is the connector's: it must leave one of the two behind on each of its paths.
- `NoticesAgree`: the last notice from presence says what the user's membership
  is, so that a member whose `guild_leave` is still to be handled also has
  a `guild_join` behind it. `NotForgotten` is not inductive without it: the
  leave would remove the last thing that remembers the guild.
- `NotForgotten` is proved from these by following who takes over the memory of
  the guild at each handler: a wake-up becomes an attempt, an attempt a wake-up
  or a connection, a death or forced leave a wake-up.

What a guild does about its sessions is another, proved with the first:

    AdmissionInvariant = BagTypes /\ GuildTypes /\ Places /\ MailTypes /\ LinkTypes
                         /\ Views /\ ready \in [Sessions -> BOOLEAN]
                         /\ PendingServed /\ DownsAreDead /\ DeadSessionsLeave /\ KnownLinks

- The first line, with `Views` and the type of `ready`, is the rest of the type, by parts.
  `RemoveFirst` and `RemoveFirstMatch` of the community modules choose the least place
  of an element: that there is one follows from the well-foundedness of the finite sets
  under strict inclusion (`MinIsMember`), and then a sequence without that place is
  followed place by place (`RemoveAtPlaces`).
- `Places` is `WorkersCounted` with the rule that requests wait only if every place is
  taken. The size of a bag is that of its set of numbered copies, to which a
  worker that starts or ends adds or from which it takes one. The rule is why a guild
  starts at most one queued request when a worker ends, and so never more
  than it has places.
- `PendingServed`: a pending entry's attempt is queued or at a worker (`Waits`). A newer
  attempt replaces the queued one of its session, and an entry with it; the worker that ends
  takes away only its own work, which it then answers.
- `DeadSessionsLeave`: a session that died is remembered only where its DOWN is under way.
  It needs `PendingServed`: a worker that ends admits only a session that has an entry.
- `KnownLinks` makes `ConnectedIsKnown` inductive. For each session and guild it
  says that a connection to the running process has an entry there or a forced leave on
  its way, and one to another process has a DOWN on its way (`Known`); and that each result
  in the mail that names the running process has an entry behind it or a forced leave
  after it (`Backed`), because the session will connect when it reads the result. A
  process that starts has a pid that is in no mail. Where a guild forgets a session,
  `DownsAreDead` says that it is dead, and `DeadGetNothing` that no result is left to it.

**`JobQueue_proofs`.** The invariant is

    JobQueueInv = JobShape /\ WorkerShape /\ Placed /\ Emptied
                  /\ MemorySound /\ DiskSound /\ HandedSound /\ LeasesOwned

- `JobShape` and `WorkerShape` are the type, of the engine and of the workers with the
  wire. `Placed` is `Placement` in the form the steps use; `Emptied` says
  that an engine that is down holds nothing, which `Start` relies on.
- `MemorySound`: a live job has the index entry of its deduplication id, and a job that is
  not there has no attempts. It is stated as an operator of status, attempts and index,
  because a restart makes memory out of the file: `DiskSound` is the same
  of the file, so that `Start` turns the one into the other. `KeyUnique` is not
  inductive without it.
- `HandedSound`: polls have taken a job at most as often as `attempts` says, and a job that
  waits has an attempt left, or no poll has taken it since the start. The second case is a
  job found in flight with all its attempts used: it is tried once more, and its count is
  then past its limit, so that `TriesBounded` holds only because `nack` and the visibility
  timeout ask for `>=` and not for equality.
- `LeasesOwned`: a receipt that a worker or a request on the wire has is not another
  job's, and no request on the wire has the receipt of a worker that still runs. This is what `LeaseRespected` and `GoneOnlyIfDone` need: a late request finds
  its own job by the receipt, or none. It rests on receipts being fresh.

The helpers (`GiveBack`, `Forget`, `Settle`, `Lease`) have a lemma for each part,
used by every action that calls them.

**`Call_proofs`.** The invariant is

    CallInv = TypeOK /\ Ended /\ Numbered /\ NoGhosts /\ RingingIsTimed
              /\ Announced /\ CallIsKnown

`Ended` says that a call that does not run holds nothing, and `Numbered` that a new
call's number is none that the manager still has a DOWN of: without them
`ManagerDown` could remove the running call. The lemma `CallSteps` says what the
steps of sessions and of the media server are for the call: a departure, an entrance,
or one that leaves everything but pending connections and DOWNs as it is (`Calm`). The
invariants are proved on these and on the steps of timers and manager, each once.

**`GuildManager_proofs`.** Type correctness goes by parts of the state (`ClientType`,
`ShardType`, `GuildType`, `CountType`). The invariant about who has the name is

    Served = NameLives /\ EntryHasName /\ EndsTheNamed /\ DownIsEmpty
             /\ OneServes /\ EntryIsWatched

`OneServes` alone is not inductive: a stop that times out takes the name from a process
that still runs, and only `EndsTheNamed` knows that this process was told to end and that
no other has the name; that one, in turn, needs `EntryHasName`, since `Target` is the
process in the map and the name may be another's. `EntryIsWatched` needs `NameLives`: a
process found by its name is alive, so that its death is still to come. What a step does
to the guilds' mailboxes is one lemma for all (`Keeps`, `OnlyPosts`): no state changes
and an order to end stays. `WaitersHaveAFetch` is inductive with it.

**`GuildManagerKept_proofs`.** `DispatchedIsKept` is about an update that is done; the
invariant `Kept` follows it from when its writer was given a guild:

    Kept: a writer was given the guild that has the name, or its update is covered;
          if it is done, its update is covered
    covered: every fetch under way began after it, every result that has arrived has it,
             and the process that has the name, if it runs, has or will have it,
             or was told to end

The crux is that nothing is fetched while a guild has the name (`WaitersHaveAFetch`): when
the guild dies, nothing there can be older than the update, and a fetch begun later reads
the database in which it is, since `Wrote` says that who asks has written. `FourSteps`
reduces an action to what it does to whom a guild is given, who is done, what is covered
and who has the name.

What is only model-checked: the liveness properties (`OverflowEndsSession`,
`OrphanResumesOrStops`, `ConnectingResolves`, `AbandonedSessionStops`,
`DeadConnectionNoticed`, `ReconnectProceeds`, `MembersConnect`, `EveryJobSettles`,
`EmptyCallEnds`, `WaitersAnswered`), since fairness and ENABLED are out of TLAPS's
reach. The properties of the runs that expect a violation, all of `ScheduledMessages` among
them, are false.

## 7. How to run

In this directory: `tlc -config GuildConnect.cfg MCGuildConnect` and so on for the
pairs of module and configuration in `PROJECT.json`;
`tlapm SessionLog_proofs.tla` and so on for the other seven `*_proofs` modules. The
longest run takes about two minutes, `GuildConnect_proofs` about five,
`GatewayResume_proofs` two to three, each other proof module about a minute or less.
