---------------------------- MODULE GuildManager ----------------------------
(***************************************************************************)
(* How the process of a guild is started, found, reloaded and stopped: the *)
(* shard that knows it (guild_manager_shard.erl), the manager in front of  *)
(* the shards with the cache that everyone reads (guild_manager.erl), the  *)
(* RPCs that call them (gateway_rpc_guild.erl) and the guild process.      *)
(*                                                                         *)
(* The API writes an update to the database and then dispatches it to the  *)
(* guild, which it finds in the cache or has started.  A guild starts with *)
(* what a fetch read from the database, keeps what is dispatched to it, and*)
(* takes what the fetch of a reload read.                                  *)
(*                                                                         *)
(* One guild, and the shard it belongs to.  The shard handles its mailbox  *)
(* in the order of arrival, but a DOWN may come late.                      *)
(***************************************************************************)
EXTENDS Naturals, Sequences, FiniteSets

CONSTANTS
  Writers,         \* requests of the API that change the guild; the update each writes
  Askers,          \* requests for the guild: sessions, guild.start
  Admins,          \* guild.stop, guild.shutdown and guild.reload
  Nobody,
  MaxGuilds,       \* bound: guild processes
  MaxCrashes,      \* bound: guild processes that crash
  MaxShardCrashes, \* bound: crashes of the shard
  MaxSlow          \* bound: waits that time out

Clients == Writers \union Askers \union Admins

ASSUME GuildManagerAssumption ==
  /\ Writers \intersect (Askers \union Admins) = {} /\ Askers \intersect Admins = {}
  /\ Nobody \notin Clients
  /\ MaxGuilds \in Nat /\ MaxCrashes \in Nat /\ MaxShardCrashes \in Nat /\ MaxSlow \in Nat

Guilds  == 1..MaxGuilds
NoGuild == 0
Loading == MaxGuilds + 1

VARIABLES
  db,       \* the updates written
  cache,    \* guild_pid_cache
  client,   \* the clients: what they ask, how far they are, what they were told
  \* the manager
  queue,    \* requests in its mailbox
  serving,  \* the request it waits for the shard with, and the answer
  \* the shard
  up,
  inbox,
  entry,    \* guilds: the guild's process, Loading or NoGuild
  pending,  \* pending_requests
  busy,     \* the guild it waits for in a stop, a shutdown or a reload
  watched,  \* guilds it monitors
  downs,    \* guilds whose DOWN is on its way
  \* processes that fetch the guild's data
  loads, reloads,
  \* the guild processes
  guild,    \* state, data and mailbox
  name,     \* the one registered under the guild's name
  \* history
  strayed,     \* updates for whom the cache gave a guild that had lost its name
  overwritten, \* updates that a reload took from a guild
  \* counters of the bounds
  made, crashes, shardCrashes, slow

managerVars == <<queue, serving>>
shardVars   == <<up, inbox, entry, pending, busy, watched, downs>>
fetchVars   == <<loads, reloads>>
guildVars   == <<guild, name, overwritten>>
counters    == <<made, crashes, shardCrashes, slow>>
vars == <<db, cache, client, managerVars, shardVars, fetchVars, guildVars, strayed, counters>>

-----------------------------------------------------------------------------
Finds == {"start", "lookup", "ensure"}     \* start_or_lookup, lookup, ensure_started
Rules == {"stop", "shutdown", "reload"}
Ops   == Finds \union Rules

Request(op, who, via) == [op |-> op, who |-> who, via |-> via]
NoRequest == Request("lookup", Nobody, "direct")
Requests  == [op : Ops, who : Clients, via : {"direct", "manager"}]

Tags == {"waits", "guild", "ok", "not_found", "error", "timeout"}
Idle == [req |-> NoRequest, tag |-> "waits", pid |-> NoGuild]
Free == [req |-> NoRequest, does |-> "nothing", pid |-> NoGuild]

\* A result of fetch_guild_data/1.
Failed    == [ok |-> FALSE, data |-> {}]
Read(s)   == [ok |-> TRUE, data |-> s]
Results   == {Failed} \union [ok : {TRUE}, data : SUBSET Writers]
\* The messages of a fetch to the shard.
Fetched(r)     == [op |-> "fetched", res |-> r]
Reloaded(q, r) == [op |-> "reloaded", req |-> q.req, pid |-> q.pid, res |-> r]
Messages  == Requests \union [op : {"fetched"}, res : Results]
             \union [op : {"reloaded"}, req : Requests, pid : Guilds, res : Results]

\* A client before and after its requests, and one that has the guild.
Client(st, p) == [st |-> st, op |-> "start", via |-> "direct", tag |-> "waits", pid |-> p]
Asking(op, via) == [st |-> "asked", op |-> op, via |-> via, tag |-> "waits", pid |-> NoGuild]

Unborn  == [st |-> "unborn", data |-> {}, mail |-> <<>>]
Dead    == [st |-> "dead", data |-> {}, mail |-> <<>>]
Exiting == [st |-> "exiting", data |-> {}, mail |-> <<>>]
Update(w)  == [does |-> "update", data |-> {w}]
Replace(s) == [does |-> "reload", data |-> s]
Leave(op)  == [does |-> op, data |-> {}]
Letters    == [does : {"update", "reload", "stop", "shutdown", "exit"}, data : SUBSET Writers]

Running(p) == guild[p].st = "running"
\* is_process_alive
Alive(p)   == guild[p].st \in {"running", "exiting"}
Post(p, l) == IF Running(p) THEN [guild EXCEPT ![p].mail = Append(@, l)] ELSE guild

Init ==
  /\ db = {} /\ cache = NoGuild
  /\ client = [c \in Clients |-> Client("idle", NoGuild)]
  /\ queue = {} /\ serving = Idle
  /\ up = TRUE /\ inbox = <<>> /\ entry = NoGuild /\ pending = {} /\ busy = Free
  /\ watched = {} /\ downs = {}
  /\ loads = {} /\ reloads = {}
  /\ guild = [p \in Guilds |-> Unborn] /\ name = NoGuild
  /\ strayed = {} /\ overwritten = {}
  /\ made = 0 /\ crashes = 0 /\ shardCrashes = 0 /\ slow = 0

-----------------------------------------------------------------------------
(***************************************************************************)
(* The clients.                                                            *)
(***************************************************************************)
\* The API changes the guild in the database.
Write(w) ==
  /\ client[w].st = "idle"
  /\ db' = db \union {w} /\ client' = [client EXCEPT ![w] = Client("ready", NoGuild)]
  /\ UNCHANGED <<cache, managerVars, shardVars, fetchVars, guildVars, strayed, counters>>

\* call_shard, or call_via_manager when the shard is not there.
Sent(c, op) ==
  LET via == IF up THEN "direct" ELSE "manager"
  IN /\ client' = [client EXCEPT ![c] = Asking(op, via)]
     /\ IF up THEN /\ inbox' = Append(inbox, Request(op, c, via)) /\ UNCHANGED queue
              ELSE /\ queue' = queue \union {Request(op, c, via)} /\ UNCHANGED inbox

\* A request that the manager has to forward.
SentToManager(c, op) ==
  /\ client' = [client EXCEPT ![c] = Asking(op, "manager")]
  /\ queue' = queue \union {Request(op, c, "manager")}
  /\ UNCHANGED inbox

\* get_guild_pid for a writer, lookup, start_or_lookup or ensure_started.
Ask(c, op) ==
  /\ IF c \in Writers THEN client[c].st = "ready" /\ op = "start"
                      ELSE client[c].st = "idle" /\ op \in Finds
  /\ LET cached == c \in Writers \/ op = "lookup"
     IN IF cached /\ cache # NoGuild /\ Alive(cache)
        THEN /\ client' = [client EXCEPT ![c] = IF c \in Writers THEN Client("found", cache)
                                                               ELSE Client("done", NoGuild)]
             /\ strayed' = IF cache = name THEN strayed ELSE strayed \union (Writers \intersect {c})
             /\ UNCHANGED <<cache, queue, inbox>>
        ELSE /\ cache' = IF cached THEN NoGuild ELSE cache
             /\ Sent(c, op) /\ UNCHANGED strayed
  /\ UNCHANGED <<db, serving, up, entry, pending, busy, watched, downs, fetchVars, guildVars,
                 counters>>

\* execute_method of guild.stop, guild.shutdown and guild.reload
Rule(a, op) ==
  /\ client[a].st = "idle" /\ op \in Rules
  /\ SentToManager(a, op)
  /\ UNCHANGED <<db, cache, serving, up, entry, pending, busy, watched, downs, fetchVars,
                 guildVars, strayed, counters>>

\* The timeout of the gen_server:call
GivesUp(c) ==
  /\ client[c].st = "asked" /\ client[c].tag = "waits" /\ slow < MaxSlow /\ slow' = slow + 1
  /\ client' = [client EXCEPT ![c] = Client("failed", NoGuild)]
  /\ UNCHANGED <<db, cache, managerVars, shardVars, fetchVars, guildVars, strayed, made, crashes,
                 shardCrashes>>

\* maybe_cache_guild_pid and ensure_started in the client; a reload that found no
\* guild starts one, a shutdown that timed out stops it.
TakeAnswer(c) ==
  /\ client[c].st = "asked" /\ client[c].tag # "waits"
  /\ LET me == client[c]
     IN /\ cache' = IF me.tag = "guild" /\ (me.via = "direct" \/ me.op = "ensure")
                    THEN me.pid ELSE cache
        /\ CASE me.op = "reload" /\ me.tag = "not_found" -> Sent(c, "start")
             [] me.op = "shutdown" /\ me.tag = "timeout" -> SentToManager(c, "stop")
             [] OTHER ->
                  /\ client' = [client EXCEPT ![c] =
                       CASE me.tag = "guild" /\ c \in Writers -> Client("found", me.pid)
                         [] me.tag \in {"guild", "ok"} /\ c \notin Writers -> Client("done", NoGuild)
                         [] OTHER -> Client("failed", NoGuild)]
                  /\ UNCHANGED <<queue, inbox>>
  /\ UNCHANGED <<db, serving, up, entry, pending, busy, watched, downs, fetchVars, guildVars,
                 strayed, counters>>

\* execute_method of guild.dispatch: a cast, and the API is told that it is done.
Dispatch(w) ==
  /\ client[w].st = "found"
  /\ client' = [client EXCEPT ![w] = Client("done", NoGuild)]
  /\ guild' = Post(client[w].pid, Update(w))
  /\ UNCHANGED <<db, cache, managerVars, shardVars, fetchVars, name, overwritten, strayed, counters>>

-----------------------------------------------------------------------------
(***************************************************************************)
(* The manager.                                                            *)
(***************************************************************************)
Waits(r) == client[r.who].st = "asked" /\ client[r.who].tag = "waits"
            /\ client[r.who].op = r.op /\ client[r.who].via = r.via

\* gen_server:reply: who has given up gets nothing.
Told(rs, tag, p) ==
  client' = [c \in Clients |->
    IF \E r \in rs : r.who = c /\ Waits(r)
    THEN [client[c] EXCEPT !.tag = tag, !.pid = p] ELSE client[c]]

\* forward_call
ManagerTakes ==
  \E r \in queue :
    /\ serving = Idle
    /\ queue' = queue \ {r}
    /\ LET cached == r.op \in {"start", "lookup"}
       IN IF cached /\ cache # NoGuild /\ Alive(cache)
          THEN /\ Told({r}, "guild", cache)
               /\ strayed' = IF cache = name THEN strayed
                             ELSE strayed \union (Writers \intersect {r.who})
               /\ UNCHANGED <<cache, serving, up, inbox>>
          ELSE /\ cache' = IF cached THEN NoGuild ELSE cache
               /\ serving' = [Idle EXCEPT !.req = r]
               /\ up' = TRUE /\ inbox' = Append(inbox, r)
               /\ UNCHANGED <<client, strayed>>
    /\ UNCHANGED <<db, entry, pending, busy, watched, downs, fetchVars, guildVars, counters>>

\* maybe_cache_guild_pid in the manager
ManagerAnswers ==
  /\ serving.req # NoRequest /\ serving.tag # "waits"
  /\ cache' = IF serving.tag = "guild" /\ serving.req.op \in {"start", "lookup"}
              THEN serving.pid ELSE cache
  /\ Told({serving.req}, serving.tag, serving.pid)
  /\ serving' = Idle
  /\ UNCHANGED <<db, queue, shardVars, fetchVars, guildVars, strayed, counters>>

\* The shard does not answer in time, but it is alive.
ManagerGivesUp ==
  /\ serving.req # NoRequest /\ serving.tag = "waits" /\ up
  /\ slow < MaxSlow /\ slow' = slow + 1
  /\ Told({serving.req}, "timeout", NoGuild)
  /\ serving' = Idle
  /\ UNCHANGED <<db, cache, queue, shardVars, fetchVars, guildVars, strayed, made, crashes,
                 shardCrashes>>

\* restart_shard, on the DOWN or the EXIT of the shard, or by forward_call_to_shard,
\* which sends the request again.
ShardRestarts ==
  /\ ~up /\ up' = TRUE
  /\ inbox' = IF serving.req # NoRequest /\ serving.tag = "waits" THEN <<serving.req>> ELSE <<>>
  /\ UNCHANGED <<db, cache, client, managerVars, entry, pending, busy, watched, downs, fetchVars,
                 guildVars, strayed, counters>>

-----------------------------------------------------------------------------
(***************************************************************************)
(* The shard: requests.                                                    *)
(***************************************************************************)
\* gen_server:reply to the requests rs
Reply(rs, tag, p) ==
  /\ Told({r \in rs : r.via = "direct"}, tag, p)
  /\ serving' = IF serving.req \in rs /\ serving.tag = "waits"
                THEN [serving EXCEPT !.tag = tag, !.pid = p] ELSE serving

Receives(m) == up /\ busy = Free /\ inbox # <<>> /\ m = Head(inbox) /\ inbox' = Tail(inbox)

\* Faulty variant: a guild that is found is not monitored.
AdoptUnwatched == entry' = name /\ UNCHANGED watched

\* lookup_or_monitor, when the guild's name is registered
Adopt ==
  /\ entry' = name /\ watched' = watched \union {name}

\* spawn_fetch
Fetches ==
  /\ entry' = Loading /\ loads' = loads \union {[seen |-> db]}

\* do_start_or_lookup, lookup_or_fetch
HandleStart(m) ==
  /\ m.op = "start"
  /\ CASE entry \in Guilds ->
            Reply({m}, "guild", entry) /\ UNCHANGED <<entry, pending, watched, loads>>
       [] entry = Loading ->
            pending' = pending \union {m} /\ UNCHANGED <<client, serving, entry, watched, loads>>
       [] entry = NoGuild /\ name = NoGuild ->
            Fetches /\ pending' = {m} /\ UNCHANGED <<client, serving, watched>>
       [] OTHER ->
            Adopt /\ Reply({m}, "guild", name) /\ UNCHANGED <<pending, loads>>

\* do_lookup
HandleLookup(m) ==
  /\ m.op = "lookup"
  /\ CASE entry \in Guilds ->
            Reply({m}, "guild", entry) /\ UNCHANGED <<entry, watched>>
       [] entry = NoGuild /\ name # NoGuild ->
            Adopt /\ Reply({m}, "guild", name)
       [] OTHER ->
            Reply({m}, "not_found", NoGuild) /\ UNCHANGED <<entry, watched>>
  /\ UNCHANGED <<pending, loads>>

\* do_ensure_started
HandleEnsure(m) ==
  /\ m.op = "ensure"
  /\ CASE entry \in Guilds ->
            Reply({m}, "guild", entry) /\ UNCHANGED <<entry, watched, loads>>
       [] entry = Loading ->
            Reply({m}, "ok", NoGuild) /\ UNCHANGED <<entry, watched, loads>>
       [] entry = NoGuild /\ name = NoGuild ->
            Fetches /\ Reply({m}, "ok", NoGuild) /\ UNCHANGED watched
       [] OTHER ->
            Adopt /\ Reply({m}, "guild", name) /\ UNCHANGED loads
  /\ UNCHANGED pending

Find(m) ==
  /\ Receives(m)
  /\ HandleStart(m) \/ HandleLookup(m) \/ HandleEnsure(m)
  /\ UNCHANGED <<db, cache, queue, up, busy, downs, reloads, guildVars, strayed, counters>>

Target == IF entry \in Guilds THEN entry ELSE name

\* Faulty variant: the guild loses its name, but nobody tells it to end.
StopSilently(m) ==
  /\ Receives(m) /\ m.op \in {"stop", "shutdown"}
  /\ IF Target = NoGuild
     THEN Reply({m}, "ok", NoGuild) /\ UNCHANGED <<busy, watched, downs>>
     ELSE /\ busy' = [req |-> m, does |-> m.op, pid |-> Target]
          /\ watched' = watched \ {entry} /\ downs' = downs \ {entry}
          /\ UNCHANGED <<client, serving>>
  /\ UNCHANGED <<db, cache, queue, up, entry, pending, fetchVars, guildVars, strayed, counters>>

\* do_stop_guild and do_shutdown_guild: the shard waits for the guild.
Stop(m) ==
  /\ Receives(m) /\ m.op \in {"stop", "shutdown"}
  /\ IF Target = NoGuild
     THEN Reply({m}, "ok", NoGuild) /\ UNCHANGED <<busy, watched, downs, guild>>
     ELSE /\ busy' = [req |-> m, does |-> m.op, pid |-> Target]
          /\ guild' = Post(Target, Leave(m.op))
          /\ watched' = watched \ {entry} /\ downs' = downs \ {entry}
          /\ UNCHANGED <<client, serving>>
  /\ UNCHANGED <<db, cache, queue, up, entry, pending, fetchVars, name, overwritten, strayed,
                 counters>>

\* ... has stopped, or has said that it will, or ten seconds have passed: safe_unregister.
Stopped ==
  /\ up /\ busy.does \in {"stop", "shutdown"}
  /\ \/ /\ IF busy.does = "stop" THEN ~Alive(busy.pid) ELSE ~Running(busy.pid)
        /\ UNCHANGED slow
     \/ /\ Running(busy.pid) /\ slow < MaxSlow
        /\ slow' = slow + 1
  /\ name' = NoGuild
  /\ entry' = IF entry \in Guilds THEN NoGuild ELSE entry
  /\ Reply({busy.req}, "ok", NoGuild) /\ busy' = Free
  /\ UNCHANGED <<db, cache, queue, up, inbox, pending, watched, downs, fetchVars, guild,
                 overwritten, strayed, made, crashes, shardCrashes>>

\* Faulty variant: a reload does not ask whether there is a guild.
ReloadAnything(m) ==
  /\ Receives(m) /\ m.op = "reload"
  /\ reloads' = reloads \union {[req |-> m, pid |-> Target, seen |-> db]}
  /\ IF entry \in Guilds THEN UNCHANGED <<entry, watched>> ELSE Adopt
  /\ UNCHANGED <<db, cache, client, serving, queue, up, pending, busy, downs, loads, guildVars,
                 strayed, counters>>

\* do_reload_guild
Reload(m) ==
  /\ Receives(m) /\ m.op = "reload"
  /\ IF Target = NoGuild
     THEN Reply({m}, "not_found", NoGuild) /\ UNCHANGED <<entry, watched, reloads>>
     ELSE /\ reloads' = reloads \union {[req |-> m, pid |-> Target, seen |-> db]}
          /\ IF entry \in Guilds THEN UNCHANGED <<entry, watched>> ELSE Adopt
          /\ UNCHANGED <<client, serving>>
  /\ UNCHANGED <<db, cache, queue, up, pending, busy, downs, loads, guildVars, strayed, counters>>

-----------------------------------------------------------------------------
(***************************************************************************)
(* The shard: fetches, deaths.                                             *)
(***************************************************************************)
\* Faulty variant: a fetch may read a copy that is behind.
OutcomesOfCopy(seen) == {Failed} \union {Read(s) : s \in SUBSET db}

\* fetch_guild_data: each collection is read at some time of its own; a collection that
\* fails, or the deadline, fails it.
Outcomes(seen) == {Failed} \union {Read(s) : s \in {t \in SUBSET db : seen \subseteq t}}

LoadEnds ==
  \E l \in loads : \E r \in Outcomes(l.seen) :
    /\ loads' = loads \ {l} /\ inbox' = Append(inbox, Fetched(r))
    /\ UNCHANGED <<db, cache, client, managerVars, up, entry, pending, busy, watched, downs,
                   reloads, guildVars, strayed, counters>>

ReloadFetched ==
  \E q \in reloads : \E r \in Outcomes(q.seen) :
    /\ reloads' = reloads \ {q} /\ inbox' = Append(inbox, Reloaded(q, r))
    /\ UNCHANGED <<db, cache, client, managerVars, up, entry, pending, busy, watched, downs,
                   loads, guildVars, strayed, counters>>

\* start_new_guild: the guild starts, is registered and monitored ...
Starts(s) ==
  LET p == made + 1
  IN /\ made < MaxGuilds /\ made' = p
     /\ guild' = [guild EXCEPT ![p] = [st |-> "running", data |-> s, mail |-> <<>>]]
     /\ name' = p /\ entry' = p /\ watched' = watched \union {p}
     /\ Reply(pending, "guild", p)

\* ... or its init, or the registration, fails.
StartFails ==
  /\ entry' = NoGuild /\ Reply(pending, "error", NoGuild)
  /\ UNCHANGED <<made, guild, name, watched>>

\* Faulty variant: only who waits for a fetch that succeeds is answered.
TakeFetchedIfOk(m) ==
  /\ Receives(m) /\ m.op = "fetched"
  /\ IF m.res.ok
     THEN pending' = {} /\ (StartFails \/ Starts(m.res.data))
     ELSE entry' = NoGuild /\ UNCHANGED <<pending, client, serving, made, guild, name, watched>>
  /\ UNCHANGED <<db, cache, queue, up, busy, downs, fetchVars, overwritten, strayed, crashes,
                 shardCrashes, slow>>

\* handle_guild_data_fetched
TakeFetched(m) ==
  /\ Receives(m) /\ m.op = "fetched"
  /\ IF m.res.ok /\ name # NoGuild
     THEN Adopt /\ Reply(pending, "guild", name) /\ UNCHANGED <<made, guild, name>>
     ELSE StartFails \/ (m.res.ok /\ Starts(m.res.data))
  /\ pending' = {}
  /\ UNCHANGED <<db, cache, queue, up, busy, downs, fetchVars, overwritten, strayed, crashes,
                 shardCrashes, slow>>

\* handle_guild_data_reloaded
TakeReloaded(m) ==
  /\ Receives(m) /\ m.op = "reloaded"
  /\ IF m.res.ok
     THEN /\ busy' = [req |-> m.req, does |-> "reload", pid |-> m.pid]
          /\ guild' = Post(m.pid, Replace(m.res.data)) /\ UNCHANGED <<client, serving>>
     ELSE Reply({m.req}, "error", NoGuild) /\ UNCHANGED <<busy, guild>>
  /\ UNCHANGED <<db, cache, queue, up, entry, pending, watched, downs, fetchVars, name,
                 overwritten, strayed, counters>>

Reloading(p) == \E i \in DOMAIN guild[p].mail : guild[p].mail[i].does = "reload"

\* The guild has reloaded, or is dead, or ten seconds have passed: ok, whichever it is.
ReloadEnds ==
  /\ up /\ busy.does = "reload"
  /\ \/ ~Reloading(busy.pid) /\ UNCHANGED slow
     \/ Reloading(busy.pid) /\ slow < MaxSlow /\ slow' = slow + 1
  /\ Reply({busy.req}, "ok", NoGuild) /\ busy' = Free
  /\ UNCHANGED <<db, cache, queue, up, inbox, entry, pending, watched, downs, fetchVars, guildVars,
                 strayed, made, crashes, shardCrashes>>

\* cleanup_on_down
TakeDown ==
  /\ up /\ busy = Free
  /\ \E p \in downs :
       /\ downs' = downs \ {p}
       /\ entry' = IF entry = p THEN NoGuild ELSE entry
  /\ UNCHANGED <<db, cache, client, managerVars, up, inbox, pending, busy, watched, fetchVars,
                 guildVars, strayed, counters>>

\* An exception in a handler.  Its fetches answer to nobody, its guilds are linked to it,
\* and who waits for it asks the manager.
ShardCrashes ==
  /\ up /\ shardCrashes < MaxShardCrashes /\ shardCrashes' = shardCrashes + 1
  /\ up' = FALSE /\ inbox' = <<>> /\ entry' = NoGuild /\ pending' = {} /\ busy' = Free
  /\ watched' = {} /\ downs' = {} /\ loads' = {} /\ reloads' = {}
  /\ guild' = [p \in Guilds |-> IF Running(p) THEN [guild[p] EXCEPT !.mail = Append(@, Leave("exit"))]
                                            ELSE guild[p]]
  /\ LET left == {c \in Clients : client[c].st = "asked" /\ client[c].tag = "waits"
                                  /\ client[c].via = "direct"}
     IN /\ client' = [c \in Clients |-> IF c \in left THEN [client[c] EXCEPT !.via = "manager"]
                                                    ELSE client[c]]
        /\ queue' = queue \union {Request(client[c].op, c, "manager") : c \in left}
  /\ UNCHANGED <<db, cache, serving, name, overwritten, strayed, made, crashes, slow>>

-----------------------------------------------------------------------------
(***************************************************************************)
(* The guild process.                                                      *)
(***************************************************************************)
\* A process that dies loses its name; its monitor tells the shard.
Dies(p) ==
  /\ guild' = [guild EXCEPT ![p] = Dead]
  /\ name' = IF name = p THEN NoGuild ELSE name
  /\ watched' = watched \ {p} /\ downs' = downs \union (watched \intersect {p})

\* handle_dispatch, handle_reload, the end
GuildStep(p) ==
  /\ Running(p) /\ guild[p].mail # <<>>
  /\ LET l == Head(guild[p].mail)
     IN \/ /\ l.does \in {"update", "reload"}
           /\ guild' = [guild EXCEPT ![p].mail = Tail(@),
                ![p].data = IF l.does = "update" THEN @ \union l.data ELSE l.data]
           /\ overwritten' = IF l.does = "update" THEN overwritten
                             ELSE overwritten \union (guild[p].data \ l.data)
           /\ UNCHANGED <<name, watched, downs>>
        \/ /\ l.does \in {"stop", "exit"} /\ Dies(p) /\ UNCHANGED overwritten
        \/ /\ l.does = "shutdown"
           /\ guild' = [guild EXCEPT ![p] = Exiting]
           /\ UNCHANGED <<name, watched, downs, overwritten>>
  /\ UNCHANGED <<db, cache, client, managerVars, up, inbox, entry, pending, busy, fetchVars,
                 strayed, counters>>

GuildExits(p) ==
  /\ guild[p].st = "exiting" /\ Dies(p)
  /\ UNCHANGED <<db, cache, client, managerVars, up, inbox, entry, pending, busy, fetchVars,
                 overwritten, strayed, counters>>

GuildCrashes(p) ==
  /\ Running(p) /\ crashes < MaxCrashes /\ crashes' = crashes + 1 /\ Dies(p)
  /\ UNCHANGED <<db, cache, client, managerVars, up, inbox, entry, pending, busy, fetchVars,
                 overwritten, strayed, made, shardCrashes, slow>>

-----------------------------------------------------------------------------
Handles == inbox # <<>> /\ LET m == Head(inbox)
                           IN Find(m) \/ Stop(m) \/ Reload(m) \/ TakeFetched(m) \/ TakeReloaded(m)

Next ==
  \/ \E w \in Writers : Write(w) \/ Dispatch(w)
  \/ \E c \in Writers \union Askers, op \in Finds : Ask(c, op)
  \/ \E a \in Admins, op \in Rules : Rule(a, op)
  \/ \E c \in Clients : GivesUp(c) \/ TakeAnswer(c)
  \/ ManagerTakes \/ ManagerAnswers \/ ManagerGivesUp \/ ShardRestarts
  \/ Handles \/ Stopped \/ ReloadEnds \/ TakeDown
  \/ LoadEnds \/ ReloadFetched
  \/ ShardCrashes
  \/ \E p \in Guilds : GuildStep(p) \/ GuildExits(p) \/ GuildCrashes(p)

Spec == Init /\ [][Next]_vars

\* Processes that are scheduled: the shard and the guilds take their messages, a fetch ends
\* by its deadline, the manager restarts its shard.
FairSpec ==
  /\ Spec
  /\ WF_vars(Handles) /\ WF_vars(Stopped) /\ WF_vars(ReloadEnds) /\ WF_vars(TakeDown)
  /\ WF_vars(LoadEnds) /\ WF_vars(ReloadFetched) /\ WF_vars(ShardRestarts)
  /\ \A p \in 1..MaxGuilds : WF_vars(GuildStep(p)) /\ WF_vars(GuildExits(p))

-----------------------------------------------------------------------------
(***************************************************************************)
(* Properties.                                                             *)
(***************************************************************************)
\* The variables of the manager, the shard and the guilds keep their types
\* (the state maps of guild_manager.erl and guild_manager_shard.erl).
TypeOK ==
  /\ db \subseteq Writers /\ cache \in Guilds \union {NoGuild}
  /\ client \in [Clients -> [st : {"idle", "ready", "asked", "found", "done", "failed"}, op : Ops,
                             via : {"direct", "manager"}, tag : Tags,
                             pid : Guilds \union {NoGuild}]]
  /\ queue \subseteq Requests
  /\ serving \in [req : Requests \union {NoRequest}, tag : Tags, pid : Guilds \union {NoGuild}]
  /\ up \in BOOLEAN
  /\ inbox \in Seq(Messages)
  /\ entry \in Guilds \union {NoGuild, Loading}
  /\ pending \subseteq Requests
  /\ busy = Free \/ busy \in [req : Requests, does : Rules, pid : Guilds]
  /\ watched \subseteq Guilds /\ downs \subseteq Guilds
  /\ loads \subseteq [seen : SUBSET Writers]
  /\ reloads \subseteq [req : Requests, pid : Guilds, seen : SUBSET Writers]
  /\ guild \in [Guilds -> [st : {"unborn", "running", "exiting", "dead"}, data : SUBSET Writers,
                           mail : Seq(Letters)]]
  /\ name \in Guilds \union {NoGuild}
  /\ strayed \subseteq Writers /\ overwritten \subseteq Writers
  /\ made \in 0..MaxGuilds /\ crashes \in 0..MaxCrashes
  /\ shardCrashes \in 0..MaxShardCrashes /\ slow \in 0..MaxSlow

\* The guild was told to end: stop, {terminate}, or the EXIT of its shard.
ToldToEnd(p) == \E i \in DOMAIN guild[p].mail : guild[p].mail[i].does \in {"stop", "shutdown", "exit"}

\* However starts, stops, crashes and restarts of the shard cross, two processes never serve
\* the guild: one that runs and was not told to end has the guild's name (start_new_guild,
\* register_and_monitor, safe_unregister).
OneServes ==
  \A p \in Guilds : Running(p) /\ ~ToldToEnd(p) => name = p

Arrived == {i \in DOMAIN inbox : inbox[i].op = "fetched"}

\* Who waits in pending_requests waits for a fetch: just one is under way, or its result is
\* in the mailbox, while the guild is loading, and then no process has the guild's name, so
\* that nothing makes the shard forget the fetch (add_pending_request, lookup_or_monitor).
WaitersHaveAFetch ==
  /\ pending # {} => entry = Loading
  /\ entry = Loading => name = NoGuild
  /\ entry = Loading <=> loads # {} \/ Arrived # {}
  /\ loads = {} \/ Arrived = {}
  /\ \A l, k \in loads : l = k
  /\ \A i, j \in Arrived : i = j

\* The shard hears of the end of the guild in its map: it monitors it, or has its DOWN to
\* handle, or waits for it to stop and will forget it (register_and_monitor, cleanup_on_down).
EntryIsWatched ==
  entry \in Guilds => \/ Alive(entry) /\ entry \in watched
                      \/ entry \in downs
                      \/ busy.pid = entry /\ busy.does \in {"stop", "shutdown"}

\* An update that the API was told is dispatched reaches whichever process serves the guild
\* afterwards, though guilds crash, stop and load meanwhile: it is in the guild's data or
\* mailbox, unless a reload took it, or the cache gave the API a guild that the shard had
\* unregistered without seeing it end (guild.dispatch, fetch_guild_data, handle_reload).
DispatchedIsKept ==
  \A w \in Writers :
    client[w].st = "done" /\ w \notin strayed \union overwritten /\ name # NoGuild /\ Running(name)
      => \/ w \in guild[name].data
         \/ ToldToEnd(name)
         \/ \E i \in DOMAIN guild[name].mail : guild[name].mail[i] = Update(w)

\* Whoever waits for the guild to load gets an answer, if the shard does not crash again and
\* again (handle_guild_data_fetched, reply_to_all).
WaitersAnswered == (pending # {}) ~> (pending = {})

\* "Shuts down and unloads a guild from the gateway" (GuildAdminController.tsx:403): when the
\* shard answers a shutdown or a stop with ok, no process has the guild's name and none is on
\* its way.
EndsUnload ==
  [][serving.req.op \in {"stop", "shutdown"} /\ serving.tag = "waits" /\ serving'.tag = "ok"
       => name' = NoGuild /\ entry' # Loading]_vars

\* "Reloads a single guild state from database. Used to recover from corruption or sync
\* issues" (GuildAdminController.tsx:379): a reload does not take an update from the guild
\* that is in the database.
ReloadsKeep == overwritten = {}
=============================================================================
