---------------------- MODULE GuildManagerKept_proofs -----------------------
(***************************************************************************)
(* An update that was dispatched reaches whichever process serves the      *)
(* guild: the proof of DispatchedIsKept of GuildManager, for any clients   *)
(* and every bound.                                                        *)
(*                                                                         *)
(* A writer is given a guild that has the name, or no guild has it.  While *)
(* one has it nothing is fetched, and what is fetched after it lost it was *)
(* read after the writer wrote.                                            *)
(***************************************************************************)
EXTENDS GuildManager_proofs

-----------------------------------------------------------------------------
\* The guild q has the update u, or will have it, or was told to end.
Holds(u, q) ==
  \/ u \in guild[q].data \/ ToldToEnd(q)
  \/ \E i \in DOMAIN guild[q].mail : guild[q].mail[i] = Update(u)

\* Whichever process serves the guild now, or starts from a fetch, has the update.
Covered(u) ==
  /\ \A l \in loads : u \in l.seen
  /\ \A i \in Arrived : inbox[i].res.ok => u \in inbox[i].res.data
  /\ name # NoGuild /\ Running(name) => u \in overwritten \/ Holds(u, name)

\* The writer u was told of the guild p, or will be.
Given(u, p) ==
  \/ client[u].st = "found" /\ client[u].pid = p
  \/ client[u].st = "asked" /\ client[u].tag = "guild" /\ client[u].pid = p
  \/ serving.req.who = u /\ serving.tag = "guild" /\ serving.pid = p

\* A writer asks when it has written.
Wrote ==
  /\ \A u \in Writers : client[u].st # "idle" => u \in db
  /\ \A r \in queue : r.who \in Writers => r.who \in db
  /\ serving.req.who \in Writers => serving.req.who \in db

Kept ==
  \A u \in Writers \ strayed :
    /\ \A p \in Pids : Given(u, p) => (name = p /\ p # NoGuild) \/ Covered(u)
    /\ client[u].st = "done" => Covered(u)

Good == Types /\ Served /\ WaitersHaveAFetch /\ Wrote

\* What a step does to each of them.
WellTold(p) == (name' = p /\ p # NoGuild) \/ \A u \in Writers \intersect db : Covered(u)'
GivenStep ==
  \A u \in Writers, p \in Pids :
    Given(u, p)' => u \in strayed' \/ Given(u, p) \/ (name' = p /\ p # NoGuild) \/ Covered(u)'
DoneStep ==
  \A u \in Writers : client'[u].st = "done" => client[u].st = "done" \/ u \in strayed' \/ Covered(u)'
CoverStep == \A u \in Writers \intersect db : Covered(u) => Covered(u)'
NameStep ==
  name' = name \/ name = NoGuild \/ \A u \in Writers \intersect db : Covered(u)'

LEMMA FourSteps ==
  ASSUME Good, Kept, strayed \subseteq strayed', GivenStep, DoneStep, CoverStep, NameStep
  PROVE  Kept'
<1> SUFFICES ASSUME NEW u \in Writers, u \notin strayed'
             PROVE  /\ \A p \in Pids : Given(u, p)' => (name' = p /\ p # NoGuild) \/ Covered(u)'
                    /\ client'[u].st = "done" => Covered(u)'
  BY DEF Kept, Pids, NoGuild, Guilds
<1>0. u \in Writers \ strayed
  OBVIOUS
<1>1. ASSUME NEW p \in Pids, Given(u, p) PROVE (name' = p /\ p # NoGuild) \/ Covered(u)'
  <2>1. u \in db
    BY <1>1 DEF Good, Wrote, Given
  <2>2. (name = p /\ p # NoGuild) \/ Covered(u)
    BY <1>0, <1>1 DEF Kept
  <2> QED BY <2>1, <2>2 DEF CoverStep, NameStep
<1>2. client[u].st = "done" => u \in db /\ Covered(u)
  BY <1>0 DEF Kept, Good, Wrote
<1>3. client'[u].st = "done" => Covered(u)'
  BY <1>2 DEF DoneStep, CoverStep
<1> QED BY <1>1, <1>3 DEF GivenStep

-----------------------------------------------------------------------------
(***************************************************************************)
(* The guilds and the fetches.                                             *)
(***************************************************************************)
\* No result arrives; no guild that runs loses an update unless a reload took it.
NoNewResults == \A i \in Arrived' : \E j \in Arrived : inbox[j].res = inbox'[i].res
Holding ==
  /\ overwritten \subseteq overwritten'
  /\ \A q \in Guilds : Running(q)' => Running(q)
  /\ \A u \in Writers, q \in Guilds : Holds(u, q) => u \in overwritten' \/ Holds(u, q)'

LEMMA SameResultsLeft ==
  ASSUME inbox \in Seq(Messages),
         \/ UNCHANGED inbox
         \/ \E r \in Messages : r.op # "fetched" /\ inbox' = Append(inbox, r)
         \/ inbox # <<>> /\ inbox' = Tail(inbox)
         \/ inbox' = <<>>
  PROVE  NoNewResults
<1>1. CASE UNCHANGED inbox
  BY <1>1 DEF NoNewResults, Arrived
<1>2. CASE \E r \in Messages : r.op # "fetched" /\ inbox' = Append(inbox, r)
  <2>1. PICK r \in Messages : r.op # "fetched" /\ inbox' = Append(inbox, r)
    BY <1>2
  <2>2. \A i \in Arrived' : i \in Arrived /\ inbox'[i] = inbox[i]
    BY <2>1, OneMore, AppendProperties DEF Arrived
  <2> QED BY <2>2 DEF NoNewResults
<1>3. CASE inbox # <<>> /\ inbox' = Tail(inbox)
  <2>1. \A i \in Arrived' : i + 1 \in Arrived /\ inbox'[i] = inbox[i + 1]
    BY <1>3, OneLess DEF Arrived
  <2> QED BY <2>1 DEF NoNewResults
<1>4. CASE inbox' = <<>>
  BY <1>4 DEF NoNewResults, Arrived
<1> QED BY <1>1, <1>2, <1>3, <1>4

LEMMA StillCovered ==
  ASSUME Types, NoNewResults, loads' \subseteq loads \union {[seen |-> db]},
         name' = NoGuild \/ (name' = name /\ Holding)
  PROVE  CoverStep
<1> SUFFICES ASSUME NEW u \in Writers, u \in db, Covered(u) PROVE Covered(u)'
  BY DEF CoverStep
<1>1. \A l \in loads' : u \in l.seen
  BY DEF Covered
<1>2. \A i \in Arrived' : inbox'[i].res.ok => u \in inbox'[i].res.data
  BY DEF Covered, NoNewResults
<1>3. name' # NoGuild /\ Running(name)' => u \in overwritten' \/ Holds(u, name)'
  <2> SUFFICES ASSUME name' # NoGuild, Running(name)' PROVE u \in overwritten' \/ Holds(u, name)'
    OBVIOUS
  <2>1. PICK q \in Guilds : q = name /\ name' = q
    BY DEF Types, GuildType, Pids
  <2>2. Running(q)
    BY <2>1 DEF Holding, Running
  <2>3. u \in overwritten \/ Holds(u, q)
    BY <2>1, <2>2 DEF Covered, Running, Holds, ToldToEnd
  <2>4. u \in overwritten' \/ Holds(u, q)'
    BY <2>1, <2>3 DEF Holding
  <2> QED BY <2>1, <2>4 DEF Holds, ToldToEnd
<1> QED BY <1>1, <1>2, <1>3 DEF Covered

\* When nothing is fetched and no guild has the name there is nothing to have the update.
LEMMA NothingServes ==
  ASSUME Good, loads' \subseteq loads, NoNewResults, name' = NoGuild, entry # Loading
  PROVE  \A u \in Writers : Covered(u)'
<1>1. loads' = {} /\ Arrived' = {}
  BY DEF Good, WaitersHaveAFetch, NoNewResults
<1> QED BY <1>1 DEF Covered

LEMMA SameGuilds == ASSUME UNCHANGED <<guild, overwritten>> PROVE Holding
BY DEF Holding, Running, Holds, ToldToEnd

LEMMA PostHolds ==
  ASSUME GuildType, NEW p \in Guilds, NEW l \in Letters, guild' = Post(p, l), UNCHANGED overwritten
  PROVE  Holding /\ \A u \in Writers : Running(p) /\ l = Update(u) => Holds(u, p)'
<1>1. CASE ~Running(p)
  BY <1>1, SameGuilds DEF Post
<1>2. CASE Running(p)
  <2>1. guild[p].mail \in Seq(Letters)
    BY DEF GuildType, Procs
  <2>2. /\ \A q \in Guilds : q # p => guild'[q] = guild[q]
        /\ guild'[p].st = guild[p].st /\ guild'[p].mail = Append(guild[p].mail, l)
        /\ guild'[p].data = guild[p].data
    BY <1>2 DEF Post, GuildType, Procs
  <2>3. \A q \in Guilds : (Running(q)' => Running(q)) /\ (ToldToEnd(q) => ToldToEnd(q)')
    BY <2>2, Posting DEF Running, Keeps
  <2>4. \A u \in Writers, q \in Guilds : Holds(u, q) => Holds(u, q)'
    BY <2>1, <2>2, <2>3, OneMore DEF Holds
  <2>5. \A u \in Writers : l = Update(u) => Holds(u, p)'
    BY <2>1, <2>2, OneMore DEF Holds
  <2> QED BY <2>3, <2>4, <2>5 DEF Holding
<1> QED BY <1>1, <1>2

-----------------------------------------------------------------------------
(***************************************************************************)
(* What the writers are told.                                              *)
(***************************************************************************)
LEMMA NothingTold == ASSUME UNCHANGED <<client, serving>> PROVE GivenStep /\ DoneStep
BY DEF GivenStep, DoneStep, Given

LEMMA Telling ==
  ASSUME Good, NEW rs, NEW tag, NEW q \in Pids, Told(rs, tag, q), UNCHANGED serving,
         tag = "guild" => WellTold(q)
  PROVE  GivenStep /\ DoneStep
<1>1. ASSUME NEW u \in Writers
      PROVE  /\ client'[u].st = client[u].st
             /\ \/ client'[u] = client[u]
                \/ client'[u].tag = tag /\ client'[u].pid = q /\ client[u].st = "asked"
  <2>1. u \in Clients /\ client[u] \in Entries
    BY DEF Clients, Good, Types, ClientType
  <2>2. client'[u] = client[u] \/
        (client'[u] = [client[u] EXCEPT !.tag = tag, !.pid = q] /\ client[u].st = "asked")
    BY <2>1 DEF Told, Waits
  <2> QED BY <2>1, <2>2 DEF Entries
<1>2. \A u \in Writers : client[u].st = "asked" => u \in db
  BY DEF Good, Wrote
<1> QED BY <1>1, <1>2 DEF GivenStep, DoneStep, Given, WellTold

LEMMA Replying ==
  ASSUME Good, NEW rs, NEW tag, NEW q \in Pids, Reply(rs, tag, q), tag = "guild" => WellTold(q)
  PROVE  GivenStep /\ DoneStep
<1>1. ASSUME NEW u \in Writers
      PROVE  /\ client'[u].st = client[u].st
             /\ \/ client'[u] = client[u]
                \/ client'[u].tag = tag /\ client'[u].pid = q /\ client[u].st = "asked"
  <2>1. u \in Clients /\ client[u] \in Entries
    BY DEF Clients, Good, Types, ClientType
  <2>2. client'[u] = client[u] \/
        (client'[u] = [client[u] EXCEPT !.tag = tag, !.pid = q] /\ client[u].st = "asked")
    BY <2>1 DEF Reply, Told, Waits
  <2> QED BY <2>1, <2>2 DEF Entries
<1>2. /\ serving'.req = serving.req
      /\ serving' = serving \/ (serving'.tag = tag /\ serving'.pid = q)
  BY DEF Reply, Good, Types, ClientType, Answers
<1>3. \A u \in Writers : client[u].st = "asked" \/ serving.req.who = u => u \in db
  BY DEF Good, Wrote
<1> QED BY <1>1, <1>2, <1>3 DEF GivenStep, DoneStep, Given, WellTold

\* The guild in the shard's map has the name, or no guild has.
LEMMA EntryIsGood ==
  ASSUME Good, entry \in Guilds, UNCHANGED <<name, loads>>, NoNewResults
  PROVE  WellTold(entry)
<1>1. name \in {entry, NoGuild} /\ entry # NoGuild /\ entry # Loading
  BY Values DEF Good, Served, EntryHasName
<1>2. CASE name = NoGuild
  BY <1>1, <1>2, NothingServes DEF WellTold
<1>3. CASE name = entry
  BY <1>1, <1>3 DEF WellTold
<1> QED BY <1>1, <1>2, <1>3

-----------------------------------------------------------------------------
(***************************************************************************)
(* Steps.                                                                  *)
(***************************************************************************)
LEMMA KeptByFind ==
  ASSUME Good, Kept, NEW m, Find(m)
  PROVE  Kept'
<1> USE DEF guildVars
<1>1. /\ UNCHANGED <<db, guild, name, overwritten, strayed>>
      /\ inbox # <<>> /\ inbox' = Tail(inbox)
  BY DEF Find, Receives
<1>2. NoNewResults
  BY <1>1, SameResultsLeft DEF Good, Types, ShardType
<1>3. loads' \subseteq loads \union {[seen |-> db]}
  BY DEF Find, HandleStart, HandleLookup, HandleEnsure, Fetches
<1>4. CoverStep /\ NameStep
  BY <1>1, <1>2, <1>3, SameGuilds, StillCovered DEF Good, NameStep
<1>5. NoGuild \in Pids /\ Guilds \subseteq Pids /\ name \in Pids
  BY DEF Pids, Good, Types, GuildType
<1>6. name # NoGuild => WellTold(name)
  BY <1>1 DEF WellTold
<1>7. GivenStep /\ DoneStep
  <2>1. CASE HandleStart(m)
    <3>1. CASE Reply({m}, "guild", entry) /\ entry \in Guilds /\ UNCHANGED loads
      BY <1>1, <1>2, <1>5, <3>1, EntryIsGood, Replying
    <3>2. CASE Reply({m}, "guild", name) /\ name # NoGuild
      BY <1>5, <1>6, <3>2, Replying
    <3> QED BY <2>1, <3>1, <3>2, NothingTold, Values DEF HandleStart, Good, Types, ShardType
  <2>2. CASE HandleLookup(m)
    <3>1. CASE Reply({m}, "guild", entry) /\ entry \in Guilds
      BY <1>1, <1>2, <1>5, <2>2, <3>1, EntryIsGood, Replying DEF HandleLookup
    <3>2. CASE Reply({m}, "guild", name) /\ name # NoGuild
      BY <1>5, <1>6, <3>2, Replying
    <3>3. CASE Reply({m}, "not_found", NoGuild)
      BY <1>5, <3>3, Replying
    <3> QED BY <2>2, <3>1, <3>2, <3>3 DEF HandleLookup
  <2>3. CASE HandleEnsure(m)
    <3>1. CASE Reply({m}, "guild", entry) /\ entry \in Guilds /\ UNCHANGED loads
      BY <1>1, <1>2, <1>5, <3>1, EntryIsGood, Replying
    <3>2. CASE Reply({m}, "guild", name) /\ name # NoGuild
      BY <1>5, <1>6, <3>2, Replying
    <3>3. CASE Reply({m}, "ok", NoGuild)
      BY <1>5, <3>3, Replying
    <3> QED BY <2>3, <3>1, <3>2, <3>3, Values DEF HandleEnsure, Good, Types, ShardType
  <2> QED BY <2>1, <2>2, <2>3 DEF Find
<1> QED BY <1>1, <1>4, <1>7, FourSteps

LEMMA KeptByStopOrReload ==
  ASSUME Good, Kept, NEW m \in Messages, Stop(m) \/ Reload(m) \/ TakeReloaded(m)
  PROVE  Kept'
<1> USE DEF fetchVars, guildVars
<1>1. /\ UNCHANGED <<db, name, loads, overwritten, strayed>>
      /\ inbox # <<>> /\ inbox' = Tail(inbox)
  BY DEF Stop, Reload, TakeReloaded, Receives
<1>2. NoNewResults
  BY <1>1, SameResultsLeft DEF Good, Types, ShardType
<1>3. Holding
  <2>1. CASE UNCHANGED guild
    BY <1>1, <2>1, SameGuilds
  <2>2. CASE guild' # guild
    <3>1. CASE Stop(m)
      <4>1. m.op \in {"stop", "shutdown"} /\ Target # NoGuild /\ guild' = Post(Target, Leave(m.op))
        BY <2>2, <3>1 DEF Stop
      <4>2. PICK p \in Guilds : p = Target
        BY <4>1, TargetType DEF Good, Types
      <4>3. Leave(m.op) \in Letters /\ guild' = Post(p, Leave(m.op))
        BY <4>1, <4>2, LettersAre
      <4> QED BY <1>1, <4>3, PostHolds DEF Good, Types
    <3>2. CASE TakeReloaded(m)
      <4>1. m.pid \in Guilds /\ Replace(m.res.data) \in Letters /\ guild' = Post(m.pid, Replace(m.res.data))
        BY <2>2, <3>2, Received, ResultsAre, LettersAre DEF TakeReloaded
      <4> QED BY <1>1, <4>1, PostHolds DEF Good, Types
    <3> QED BY <2>2, <3>1, <3>2 DEF Reload
  <2> QED BY <2>1, <2>2
<1>4. CoverStep /\ NameStep
  BY <1>1, <1>2, <1>3, StillCovered DEF Good, NameStep
<1>5. GivenStep /\ DoneStep
  <2>1. NoGuild \in Pids
    BY DEF Pids
  <2>2. \/ UNCHANGED <<client, serving>>
        \/ \E rs, tag : tag # "guild" /\ Reply(rs, tag, NoGuild)
    BY DEF Stop, Reload, TakeReloaded
  <2> QED BY <2>1, <2>2, NothingTold, Replying
<1> QED BY <1>1, <1>4, <1>5, FourSteps

LEMMA KeptByFetched ==
  ASSUME Good, Kept, NEW m, m = Head(inbox), TakeFetched(m)
  PROVE  Kept'
<1> USE DEF fetchVars
<1>1. /\ UNCHANGED <<db, loads, overwritten, strayed>> /\ m.op = "fetched"
      /\ inbox # <<>> /\ inbox' = Tail(inbox) /\ inbox \in Seq(Messages)
  BY DEF TakeFetched, Receives, Good, Types, ShardType
<1>2. NoNewResults
  BY <1>1, SameResultsLeft
<1>3. NoGuild \in Pids /\ Guilds \subseteq Pids /\ name \in Pids
  BY DEF Pids, Good, Types, GuildType
<1>4. CASE /\ name # NoGuild /\ UNCHANGED <<guild, name>>
           /\ Reply(pending, "guild", name)
  <2>1. WellTold(name)
    BY <1>4 DEF WellTold
  <2>2. CoverStep /\ NameStep
    BY <1>1, <1>2, <1>4, SameGuilds, StillCovered DEF Good, NameStep
  <2> QED BY <1>1, <1>3, <1>4, <2>1, <2>2, Replying, FourSteps
<1>5. CASE StartFails
  <2>1. CoverStep /\ NameStep
    BY <1>1, <1>2, <1>5, SameGuilds, StillCovered DEF Good, NameStep, StartFails
  <2> QED BY <1>1, <1>3, <1>5, <2>1, Replying, FourSteps DEF StartFails
<1>6. CASE name = NoGuild /\ m.res.ok /\ Starts(m.res.data)
  <2>1. PICK p \in Guilds : p = made + 1
    BY <1>6, GuildManagerAssumption
       DEF Starts, Good, Types, CountType, Guilds, GuildManagerAssumption
  <2>2. /\ name' = p /\ guild'[p].data = m.res.data /\ Reply(pending, "guild", p)
    BY <1>6, <2>1 DEF Starts, Good, Types, GuildType
  <2>3. p # NoGuild /\ p \in Pids
    BY <1>3, Values
  <2>4. loads' = {} /\ Arrived' = {} /\ 1 \in Arrived /\ m = inbox[1]
    <3>1. m = inbox[1] /\ 1 \in DOMAIN inbox
      BY <1>1, OneLess
    <3>2. 1 \in Arrived
      BY <1>1, <3>1 DEF Arrived
    <3> QED BY <1>1, <3>1, <3>2, Taken DEF Good, WaitersHaveAFetch
  <2>5. CoverStep
    <3> SUFFICES ASSUME NEW u \in Writers, Covered(u) PROVE Covered(u)'
      BY DEF CoverStep
    <3>1. u \in m.res.data
      BY <1>6, <2>4 DEF Covered
    <3>2. Holds(u, p)'
      BY <2>2, <3>1 DEF Holds
    <3> QED BY <2>2, <2>4, <3>2 DEF Covered, Holds, ToldToEnd
  <2>6. WellTold(p) /\ NameStep
    BY <1>6, <2>2, <2>3 DEF WellTold, NameStep
  <2> QED BY <1>1, <2>2, <2>3, <2>5, <2>6, Replying, FourSteps
<1> QED BY <1>4, <1>5, <1>6 DEF TakeFetched, Adopt

\* A fetch that ends well has read what was written before it began.
LEMMA OutcomesHold ==
  ASSUME NEW seen, NEW r \in Outcomes(seen), NEW u \in seen
  PROVE  r.ok => u \in r.data
<1>1. CASE r = Failed
  BY <1>1 DEF Failed
<1>2. CASE \E s \in SUBSET db : seen \subseteq s /\ r = Read(s)
  <2>1. PICK s \in SUBSET db : seen \subseteq s /\ r = Read(s)
    BY <1>2
  <2> QED BY <2>1 DEF Read
<1>3. r = Failed \/ \E s \in {t \in SUBSET db : seen \subseteq t} : r = Read(s)
  BY Zenon DEF Outcomes
<1> QED BY <1>1, <1>2, <1>3

LEMMA KeptByShard ==
  ASSUME Good, Kept, Stopped \/ ReloadEnds \/ TakeDown \/ LoadEnds \/ ReloadFetched
  PROVE  Kept'
<1> USE DEF fetchVars, guildVars
<1>1. UNCHANGED <<db, guild, overwritten, strayed>> /\ Holding
  BY SameGuilds DEF Stopped, ReloadEnds, TakeDown, LoadEnds, ReloadFetched
<1>2. GivenStep /\ DoneStep
  <2>1. NoGuild \in Pids
    BY DEF Pids
  <2>2. \/ UNCHANGED <<client, serving>>
        \/ \E rs, tag : tag # "guild" /\ Reply(rs, tag, NoGuild)
    BY DEF Stopped, ReloadEnds, TakeDown, LoadEnds, ReloadFetched, managerVars
  <2> QED BY <2>1, <2>2, NothingTold, Replying
<1>3. CASE Stopped
  <2>1. UNCHANGED <<inbox, loads>> /\ name' = NoGuild
    BY <1>3 DEF Stopped
  <2>2. NoNewResults
    BY <2>1, SameResultsLeft DEF Good, Types, ShardType
  <2>3. CoverStep
    BY <2>1, <2>2, StillCovered DEF Good
  <2>4. NameStep
    <3>1. CASE entry # Loading
      BY <2>1, <2>2, <3>1, NothingServes DEF NameStep
    <3>2. CASE entry = Loading
      BY <3>2 DEF NameStep, Good, WaitersHaveAFetch
    <3> QED BY <3>1, <3>2
  <2> QED BY <1>1, <1>2, <2>3, <2>4, FourSteps
<1>4. CASE ReloadEnds \/ TakeDown
  <2>1. UNCHANGED <<inbox, loads, name>>
    BY <1>4 DEF ReloadEnds, TakeDown
  <2>2. NoNewResults
    BY <2>1, SameResultsLeft DEF Good, Types, ShardType
  <2>3. CoverStep /\ NameStep
    BY <1>1, <2>1, <2>2, StillCovered DEF Good, NameStep
  <2> QED BY <1>1, <1>2, <2>3, FourSteps
<1>5. CASE ReloadFetched
  <2>1. UNCHANGED <<loads, name>> /\ NameStep
    BY <1>5 DEF ReloadFetched, NameStep
  <2>2. PICK q \in reloads : \E r \in Outcomes(q.seen) : inbox' = Append(inbox, Reloaded(q, r))
    BY <1>5 DEF ReloadFetched
  <2>3. PICK r \in Outcomes(q.seen) : inbox' = Append(inbox, Reloaded(q, r))
    BY <2>2
  <2>4. r \in Results
    BY OutcomesAre DEF Good, Types, ShardType, ClientType
  <2>5. Reloaded(q, r) \in Messages /\ Reloaded(q, r).op # "fetched"
    BY <2>4 DEF Reloaded, Messages, Good, Types, ShardType
  <2>6. NoNewResults
    BY <2>3, <2>5, SameResultsLeft DEF Good, Types, ShardType
  <2> QED BY <1>1, <1>2, <2>1, <2>6, StillCovered, FourSteps DEF Good
<1>6. CASE LoadEnds
  <2>1. UNCHANGED name /\ NameStep
    BY <1>6 DEF LoadEnds, NameStep
  <2>2. PICK l \in loads : \E r \in Outcomes(l.seen) :
           loads' = loads \ {l} /\ inbox' = Append(inbox, Fetched(r))
    BY <1>6 DEF LoadEnds
  <2>3. PICK r \in Outcomes(l.seen) : loads' = loads \ {l} /\ inbox' = Append(inbox, Fetched(r))
    BY <2>2
  <2>4. Fetched(r) \in Messages /\ Fetched(r).op = "fetched" /\ Fetched(r).res = r
    BY OutcomesAre DEF Good, Types, ShardType, ClientType, Fetched, Messages
  <2>5. Arrived = {} /\ name = NoGuild
    BY <2>2 DEF Good, WaitersHaveAFetch
  <2>6. \A i \in Arrived' : inbox'[i] = Fetched(r)
    BY <2>3, <2>4, <2>5, OneMore, AppendProperties DEF Arrived, Good, Types, ShardType
  <2>7. ASSUME NEW u \in Writers, Covered(u) PROVE Covered(u)'
    <3>1. u \in l.seen
      BY <2>7 DEF Covered
    <3>2. r.ok => u \in r.data
      BY <2>3, <3>1, OutcomesHold
    <3> QED BY <2>1, <2>3, <2>4, <2>5, <2>6, <2>7, <3>2 DEF Covered
  <2>8. CoverStep
    BY <2>7 DEF CoverStep
  <2> QED BY <1>1, <1>2, <2>1, <2>8, FourSteps
<1> QED BY <1>3, <1>4, <1>5, <1>6

LEMMA KeptByCrash ==
  ASSUME Good, Kept, ShardCrashes \/ ShardRestarts
  PROVE  Kept'
<1>1. CASE ShardCrashes
  <2>1. /\ UNCHANGED <<db, serving, name, overwritten, strayed>>
        /\ inbox' = <<>> /\ loads' = {}
        /\ guild' = [p \in Guilds |-> IF Running(p) THEN [guild[p] EXCEPT !.mail = Append(@, Leave("exit"))]
                                                 ELSE guild[p]]
    BY <1>1 DEF ShardCrashes
  <2>2. NoNewResults
    BY <2>1 DEF NoNewResults, Arrived
  <2>3. Holding
    <3>1. ASSUME NEW q \in Guilds
          PROVE  (Running(q)' => Running(q)) /\ \A u \in Writers : Holds(u, q) => Holds(u, q)'
      <4>1. CASE ~Running(q)
        BY <2>1, <4>1 DEF Running, Holds, ToldToEnd
      <4>2. CASE Running(q)
        <5>1. guild[q].mail \in Seq(Letters) /\ Leave("exit") \in Letters
          BY LettersAre DEF Good, Types, GuildType, Procs
        <5>2. guild'[q].mail = Append(guild[q].mail, Leave("exit")) /\ Leave("exit").does = "exit"
          BY <2>1, <4>2 DEF Good, Types, GuildType, Procs, Leave
        <5>3. ToldToEnd(q)'
          BY <5>1, <5>2, OneMore DEF ToldToEnd
        <5> QED BY <4>2, <5>3 DEF Holds
      <4> QED BY <4>1, <4>2
    <3> QED BY <2>1, <3>1 DEF Holding
  <2>4. CoverStep /\ NameStep
    BY <2>1, <2>2, <2>3, StillCovered DEF Good, NameStep
  <2>5. GivenStep /\ DoneStep
    <3>1. \A u \in Writers : \/ client'[u] = client[u]
                             \/ client'[u].st = "asked" /\ client'[u].tag = "waits"
      BY <1>1 DEF ShardCrashes, Clients, Good, Types, ClientType, Entries
    <3> QED BY <2>1, <3>1 DEF GivenStep, DoneStep, Given
  <2> QED BY <2>1, <2>4, <2>5, FourSteps
<1>2. CASE ShardRestarts
  <2>1. /\ UNCHANGED <<db, client, serving, guild, name, loads, overwritten, strayed>>
        /\ inbox' = <<>> \/ (serving.req # NoRequest /\ inbox' = <<serving.req>>)
    BY <1>2 DEF ShardRestarts, managerVars, fetchVars, guildVars
  <2>2. serving.req # NoRequest => serving.req.op # "fetched"
    BY Values DEF Good, Types, ClientType, Answers
  <2>3. NoNewResults
    BY <2>1, <2>2 DEF NoNewResults, Arrived
  <2>4. CoverStep /\ NameStep
    BY <2>1, <2>3, SameGuilds, StillCovered DEF Good, NameStep
  <2> QED BY <2>1, <2>4, NothingTold, FourSteps
<1> QED BY <1>1, <1>2

LEMMA KeptByGuild ==
  ASSUME Good, Kept, NEW p \in Guilds, GuildStep(p) \/ GuildExits(p) \/ GuildCrashes(p)
  PROVE  Kept'
<1> USE DEF managerVars, fetchVars, counters
<1>1. /\ UNCHANGED <<db, client, serving, inbox, loads, strayed>>
      /\ Running(p) \/ guild[p].st = "exiting"
  BY DEF GuildStep, GuildExits, GuildCrashes
<1>2. NoNewResults
  BY <1>1, SameResultsLeft DEF Good, Types, ShardType
<1>3. GivenStep /\ DoneStep
  BY <1>1, NothingTold
<1>4. CASE Dies(p) /\ UNCHANGED overwritten
  <2>1. CASE name = p
    <3>1. name' = NoGuild /\ name # NoGuild /\ entry # Loading
      BY <1>4, <2>1, Values DEF Dies, Good, WaitersHaveAFetch
    <3>2. \A u \in Writers : Covered(u)'
      BY <1>1, <1>2, <3>1, NothingServes
    <3> QED BY <1>1, <1>3, <3>2, FourSteps DEF CoverStep, NameStep
  <2>2. CASE name # p
    <3>1. name' = name /\ \A q \in Guilds : q # p => guild'[q] = guild[q]
      BY <1>4, <2>2 DEF Dies, Good, Types, GuildType
    <3>2. ASSUME NEW u \in Writers, Covered(u) PROVE Covered(u)'
      <4>1. name # NoGuild => guild'[name] = guild[name]
        BY <2>2, <3>1 DEF Good, Types, GuildType, Pids
      <4>2. (\A l \in loads' : u \in l.seen)
            /\ (\A i \in Arrived' : inbox'[i].res.ok => u \in inbox'[i].res.data)
        BY <1>1, <1>2, <3>2 DEF Covered, NoNewResults
      <4>3. name' # NoGuild /\ Running(name)' => u \in overwritten' \/ Holds(u, name)'
        BY <1>4, <3>1, <3>2, <4>1 DEF Covered, Running, Holds, ToldToEnd
      <4> QED BY <4>2, <4>3 DEF Covered
    <3> QED BY <1>1, <1>3, <3>1, <3>2, FourSteps DEF CoverStep, NameStep
  <2> QED BY <2>1, <2>2
<1>5. CASE GuildStep(p) /\ guild' = [guild EXCEPT ![p] = Exiting] /\ UNCHANGED <<name, overwritten>>
  <2>1. guild'[p] = Exiting /\ \A q \in Guilds : q # p => guild'[q] = guild[q]
    BY <1>5 DEF Good, Types, GuildType
  <2>2. ASSUME NEW u \in Writers, Covered(u) PROVE Covered(u)'
    <3>1. name # NoGuild /\ Running(name)' => name # p /\ guild'[name] = guild[name]
      BY <1>5, <2>1 DEF Running, Exiting, Good, Types, GuildType, Pids
    <3>2. (\A l \in loads' : u \in l.seen)
          /\ (\A i \in Arrived' : inbox'[i].res.ok => u \in inbox'[i].res.data)
      BY <1>1, <1>2, <2>2 DEF Covered, NoNewResults
    <3>3. name' # NoGuild /\ Running(name)' => u \in overwritten' \/ Holds(u, name)'
      BY <1>5, <2>2, <3>1 DEF Covered, Running, Holds, ToldToEnd
    <3> QED BY <3>2, <3>3 DEF Covered
  <2> QED BY <1>1, <1>3, <1>5, <2>2, FourSteps DEF CoverStep, NameStep
<1>6. CASE LET l == Head(guild[p].mail)
           IN  /\ Running(p) /\ guild[p].mail # <<>> /\ UNCHANGED name
               /\ l.does \in {"update", "reload"}
               /\ guild' = [guild EXCEPT ![p].mail = Tail(@),
                    ![p].data = IF l.does = "update" THEN @ \union l.data ELSE l.data]
               /\ overwritten' = IF l.does = "update" THEN overwritten
                                 ELSE overwritten \union (guild[p].data \ l.data)
  <2> DEFINE l == Head(guild[p].mail)
  <2>1. /\ Running(p) /\ guild[p].mail # <<>> /\ UNCHANGED name
        /\ guild' = [guild EXCEPT ![p].mail = Tail(@),
               ![p].data = IF l.does = "update" THEN @ \union l.data ELSE l.data]
        /\ overwritten' = IF l.does = "update" THEN overwritten
                          ELSE overwritten \union (guild[p].data \ l.data)
    BY <1>6
  <2>2. /\ guild'[p].mail = Tail(guild[p].mail) /\ guild'[p].st = guild[p].st
        /\ guild'[p].data = IF l.does = "update" THEN guild[p].data \union l.data ELSE l.data
        /\ \A q \in Guilds : q # p => guild'[q] = guild[q]
    BY <2>1 DEF Good, Types, GuildType, Procs
  <2>3. Keeps
    BY <1>6, <2>1, <2>2, Reading DEF Good, Ends
  <2>4. guild[p].mail \in Seq(Letters)
    BY DEF Good, Types, GuildType, Procs
  <2>5. ASSUME NEW u \in Writers, Holds(u, p) PROVE u \in overwritten' \/ Holds(u, p)'
    <3>1. CASE ToldToEnd(p)
      BY <2>3, <3>1 DEF Keeps, Holds
    <3>2. CASE u \in guild[p].data
      BY <2>1, <2>2, <3>2 DEF Holds
    <3>3. CASE \E i \in DOMAIN guild[p].mail : guild[p].mail[i] = Update(u)
      <4>1. PICK i \in DOMAIN guild[p].mail : guild[p].mail[i] = Update(u)
        BY <3>3
      <4>2. i \in 1..Len(guild[p].mail) /\ Len(guild[p].mail) \in Nat /\ l = guild[p].mail[1]
        BY <2>1, <2>4, <4>1, OneLess
      <4>3. CASE i = 1
        <5>1. l.does = "update" /\ u \in l.data
          BY <4>1, <4>2, <4>3 DEF Update
        <5> QED BY <2>2, <5>1 DEF Holds
      <4>4. CASE i # 1
        <5>1. i - 1 \in DOMAIN Tail(guild[p].mail) /\ Tail(guild[p].mail)[i - 1] = Update(u)
          BY <2>1, <2>4, <4>1, <4>2, <4>4, OneLess
        <5> QED BY <2>2, <5>1 DEF Holds
      <4> QED BY <4>3, <4>4
    <3> QED BY <2>5, <3>1, <3>2, <3>3 DEF Holds
  <2>6. Holding
    <3>1. \A u \in Writers, q \in Guilds : Holds(u, q) => u \in overwritten' \/ Holds(u, q)'
      BY <2>2, <2>5 DEF Holds, ToldToEnd
    <3>2. \A q \in Guilds : Running(q)' => Running(q)
      BY <2>3 DEF Keeps, Running
    <3> QED BY <2>1, <3>1, <3>2 DEF Holding
  <2>7. CoverStep /\ NameStep
    BY <1>1, <1>2, <2>1, <2>6, StillCovered DEF Good, NameStep
  <2> QED BY <1>1, <1>3, <2>7, FourSteps
<1>7. CASE GuildExits(p) \/ GuildCrashes(p)
  BY <1>4, <1>7 DEF GuildExits, GuildCrashes
<1>8. CASE GuildStep(p)
  BY <1>4, <1>5, <1>6, <1>8, Zenon DEF GuildStep
<1> QED BY <1>7, <1>8

\* What the clients do: a mailbox, the cache and their own state.
LEMMA AskingBringsNothing ==
  ASSUME inbox \in Seq(Messages), NEW c \in Clients, NEW op \in Ops, Sent(c, op) \/ SentToManager(c, op)
  PROVE  NoNewResults
<1>1. \A via \in {"direct", "manager"} :
         Request(op, c, via) \in Messages /\ Request(op, c, via).op # "fetched"
  BY Values DEF Request, Requests, Messages
<1> QED BY <1>1, SameResultsLeft DEF Sent, SentToManager

LEMMA KeptByClients ==
  ASSUME Good, Kept,
         \/ \E w \in Writers : Write(w)
         \/ \E c \in Writers \union Askers, op \in Finds : Ask(c, op)
         \/ \E a \in Admins, op \in Rules : Rule(a, op)
         \/ \E c \in Clients : GivesUp(c) \/ TakeAnswer(c)
  PROVE  Kept'
<1> USE DEF managerVars, shardVars, fetchVars, guildVars
<1>1. UNCHANGED <<serving, loads, guild, name, overwritten>> /\ strayed \subseteq strayed'
  BY DEF Write, Ask, Rule, GivesUp, TakeAnswer
<1>2. ASSUME GivenStep, DoneStep, NoNewResults PROVE Kept'
  <2>1. CoverStep /\ NameStep
    BY <1>1, <1>2, SameGuilds, StillCovered DEF Good, NameStep
  <2> QED BY <1>1, <1>2, <2>1, FourSteps
\* Each changes one client.
<1>3. ASSUME NEW c \in Clients, NEW e, client' = [client EXCEPT ![c] = e],
             c \in Writers => /\ e.st # "done"
                              /\ e.st = "found" \/ (e.st = "asked" /\ e.tag = "guild") =>
                                   \/ Given(c, e.pid)
                                   \/ c \in strayed'
                                   \/ e.pid = name /\ name # NoGuild
      PROVE  GivenStep /\ DoneStep
  <2>1. \A u \in Writers : (u # c => client'[u] = client[u]) /\ (u = c => client'[u] = e)
    BY <1>3 DEF Good, Types, ClientType, Clients
  <2>2. DoneStep
    BY <1>3, <2>1 DEF DoneStep
  <2>3. ASSUME NEW u \in Writers, NEW p \in Pids, Given(u, p)'
        PROVE  u \in strayed' \/ Given(u, p) \/ (name' = p /\ p # NoGuild)
    <3>1. CASE u # c
      BY <1>1, <2>1, <2>3, <3>1 DEF Given
    <3>2. CASE u = c
      BY <1>1, <1>3, <2>1, <2>3, <3>2 DEF Given
    <3> QED BY <3>1, <3>2
  <2> QED BY <2>2, <2>3 DEF GivenStep
<1>4. ASSUME UNCHANGED inbox PROVE NoNewResults
  BY <1>4, SameResultsLeft DEF Good, Types, ShardType
<1>5. ASSUME NEW c \in Clients, NEW op \in Ops, Sent(c, op) \/ SentToManager(c, op) PROVE Kept'
  <2>1. \E via : client' = [client EXCEPT ![c] = Asking(op, via)]
    BY <1>5 DEF Sent, SentToManager
  <2>2. \A via : Asking(op, via).st = "asked" /\ Asking(op, via).tag = "waits"
    BY DEF Asking
  <2>3. GivenStep /\ DoneStep
    BY <1>3, <2>1, <2>2
  <2> QED BY <1>2, <1>5, <2>3, AskingBringsNothing DEF Good, Types, ShardType
<1>6. CASE \E w \in Writers : Write(w)
  <2>1. PICK w \in Writers : Write(w)
    BY <1>6
  <2>2. w \in Clients /\ client' = [client EXCEPT ![w] = Client("ready", NoGuild)] /\ UNCHANGED inbox
    BY <2>1 DEF Write, Clients
  <2>3. Client("ready", NoGuild).st = "ready"
    BY DEF Client
  <2> QED BY <1>2, <1>3, <1>4, <2>2, <2>3
<1>7. CASE \E c \in Writers \union Askers, op \in Finds : Ask(c, op)
  <2>1. PICK c \in Writers \union Askers, op \in Finds : Ask(c, op)
    BY <1>7
  <2>2. c \in Clients /\ op \in Ops
    BY Values DEF Clients
  <2>3. CASE Sent(c, op)
    BY <1>5, <2>2, <2>3
  <2>4. CASE ~Sent(c, op)
    <3>1. /\ cache # NoGuild /\ UNCHANGED inbox
          /\ client' = [client EXCEPT ![c] = IF c \in Writers THEN Client("found", cache)
                                                              ELSE Client("done", NoGuild)]
          /\ c \in Writers => cache = name \/ c \in strayed'
      BY <2>1, <2>4 DEF Ask
    <3>2. Client("found", cache).st = "found" /\ Client("found", cache).pid = cache
      BY DEF Client
    <3> DEFINE e == IF c \in Writers THEN Client("found", cache) ELSE Client("done", NoGuild)
    <3>3. /\ client' = [client EXCEPT ![c] = e]
          /\ c \in Writers => e.st = "found" /\ (c \in strayed' \/ (e.pid = name /\ name # NoGuild))
      BY <3>1, <3>2
    <3> HIDE DEF e
    <3>4. GivenStep /\ DoneStep
      BY <1>3, <2>2, <3>3
    <3> QED BY <1>2, <1>4, <3>1, <3>4
  <2> QED BY <2>3, <2>4
<1>8. CASE \E a \in Admins, op \in Rules : Rule(a, op)
  <2>1. PICK a \in Admins, op \in Rules : Rule(a, op)
    BY <1>8
  <2>2. a \in Clients /\ op \in Ops
    BY Values DEF Clients
  <2> QED BY <1>5, <2>1, <2>2 DEF Rule
<1>9. CASE \E c \in Clients : GivesUp(c)
  <2>1. PICK c \in Clients : GivesUp(c)
    BY <1>9
  <2>2. client' = [client EXCEPT ![c] = Client("failed", NoGuild)] /\ UNCHANGED inbox
    BY <2>1 DEF GivesUp
  <2>3. Client("failed", NoGuild).st = "failed"
    BY DEF Client
  <2> QED BY <1>2, <1>3, <1>4, <2>2, <2>3
<1>10. CASE \E c \in Clients : TakeAnswer(c)
  <2>1. PICK c \in Clients : TakeAnswer(c)
    BY <1>10
  <2>2. CASE \E op \in Ops : Sent(c, op) \/ SentToManager(c, op)
    BY <1>5, <2>2
  <2>3. CASE ~\E op \in Ops : Sent(c, op) \/ SentToManager(c, op)
    <3> DEFINE me == client[c]
    <3> DEFINE e == CASE me.tag = "guild" /\ c \in Writers -> Client("found", me.pid)
                      [] me.tag \in {"guild", "ok"} /\ c \notin Writers -> Client("done", NoGuild)
                      [] OTHER -> Client("failed", NoGuild)
    <3>1. "start" \in Ops /\ "stop" \in Ops
      BY DEF Ops, Finds, Rules
    <3>2. me.st = "asked" /\ client' = [client EXCEPT ![c] = e] /\ UNCHANGED inbox
      BY <2>1, <2>3, <3>1 DEF TakeAnswer
    <3>3. c \in Writers => \/ me.tag = "guild" /\ e = Client("found", me.pid)
                           \/ e = Client("failed", NoGuild)
      OBVIOUS
    <3>4. c \in Writers => e.st # "done" /\ e.st # "asked" /\ (e.st = "found" => Given(c, e.pid))
      BY <3>2, <3>3 DEF Client, Given
    <3> HIDE DEF e
    <3>5. GivenStep /\ DoneStep
      BY <1>3, <3>2, <3>4
    <3> QED BY <1>2, <1>4, <3>2, <3>5
  <2> QED BY <2>2, <2>3
<1> QED BY <1>6, <1>7, <1>8, <1>9, <1>10

LEMMA KeptByDispatch ==
  ASSUME Good, Kept, NEW w \in Writers, Dispatch(w)
  PROVE  Kept'
<1> USE DEF managerVars, shardVars, fetchVars
<1>1. /\ UNCHANGED <<db, serving, loads, inbox, name, overwritten, strayed>>
      /\ client[w].st = "found" /\ client' = [client EXCEPT ![w] = Client("done", NoGuild)]
      /\ guild' = Post(client[w].pid, Update(w))
  BY DEF Dispatch
<1> DEFINE p == client[w].pid
<1>2. NoNewResults /\ p \in Pids
  BY <1>1, SameResultsLeft DEF Good, Types, ShardType, ClientType, Entries, Clients
<1>3. Holding /\ (p \in Guilds /\ Running(p) => Holds(w, name)' \/ name # p)
  <2>1. CASE p \in Guilds
    <3>1. PICK q \in Guilds : q = p
      BY <2>1
    <3>2. Update(w) \in Letters /\ guild' = Post(q, Update(w))
      BY <1>1, <3>1, LettersAre
    <3>3. Holding /\ (Running(q) => Holds(w, q)')
      BY <1>1, <3>2, PostHolds DEF Good, Types
    <3> QED BY <1>1, <3>1, <3>3 DEF Holds, ToldToEnd
  <2>2. CASE p \notin Guilds
    <3>1. guild' = [guild EXCEPT ![p].mail = Append(@, Update(w))] \/ guild' = guild
      BY <1>1 DEF Post
    <3>2. guild' = guild
      BY <2>2, <3>1 DEF Good, Types, GuildType
    <3> QED BY <1>1, <2>2, <3>2, SameGuilds
  <2> QED BY <2>1, <2>2
<1>4. CoverStep /\ NameStep
  BY <1>1, <1>2, <1>3, StillCovered DEF Good, NameStep
<1>5. w \in strayed \/ Covered(w)'
  <2>1. Given(w, p) /\ w \in db
    BY <1>1 DEF Given, Good, Wrote
  <2>2. CASE Covered(w)
    BY <1>4, <2>1, <2>2 DEF CoverStep
  <2>3. CASE name = p /\ p # NoGuild
    <3>1. loads' = {} /\ Arrived' = {}
      BY <1>1, <1>2, <2>3 DEF Good, WaitersHaveAFetch, NoNewResults
    <3>2. p \in Guilds
      BY <1>2, <2>3 DEF Pids
    <3>3. Running(name)' => Running(p)
      <4>1. PICK q \in Guilds : q = p
        BY <3>2
      <4> QED BY <1>1, <1>3, <2>3, <4>1 DEF Holding, Running
    <3>4. Running(name)' => Holds(w, name)'
      BY <1>3, <2>3, <3>2, <3>3
    <3> QED BY <3>1, <3>4 DEF Covered
  <2> QED BY <1>2, <2>1, <2>2, <2>3 DEF Kept
<1>6. GivenStep /\ DoneStep
  <2>1. Client("done", NoGuild).st = "done"
    BY DEF Client
  <2>2. \A u \in Writers : /\ u # w => client'[u] = client[u]
                           /\ u = w => client'[u].st = "done"
    BY <1>1, <2>1 DEF Good, Types, ClientType, Clients
  <2> QED BY <1>1, <1>5, <2>2 DEF GivenStep, DoneStep, Given
<1> QED BY <1>1, <1>4, <1>6, FourSteps

LEMMA KeptByManager ==
  ASSUME Good, Kept, ManagerTakes \/ ManagerAnswers \/ ManagerGivesUp
  PROVE  Kept'
<1> USE DEF shardVars, fetchVars, guildVars
<1>1. UNCHANGED <<db, loads, guild, name, overwritten>> /\ strayed \subseteq strayed'
  BY DEF ManagerTakes, ManagerAnswers, ManagerGivesUp
<1>2. UNCHANGED inbox \/ \E r \in Messages : r.op # "fetched" /\ inbox' = Append(inbox, r)
  <2>1. \A r \in queue : r \in Messages /\ r.op # "fetched"
    BY Values DEF Good, Types, ClientType, Messages
  <2> QED BY <2>1 DEF ManagerTakes, ManagerAnswers, ManagerGivesUp
<1>3. NoNewResults
  BY <1>2, SameResultsLeft DEF Good, Types, ShardType
<1>4. CoverStep /\ NameStep
  BY <1>1, <1>3, SameGuilds, StillCovered DEF Good, NameStep
\* Who is told what.
<1>5. ASSUME NEW rs, NEW tag, NEW q \in Pids, Told(rs, tag, q)
      PROVE  \A u \in Writers : /\ client'[u].st = client[u].st
                                /\ \/ client'[u] = client[u]
                                   \/ /\ client'[u].tag = tag /\ client'[u].pid = q
                                      /\ client[u].st = "asked" /\ \E r \in rs : r.who = u
  <2> SUFFICES ASSUME NEW u \in Writers
               PROVE  /\ client'[u].st = client[u].st
                      /\ \/ client'[u] = client[u]
                         \/ /\ client'[u].tag = tag /\ client'[u].pid = q
                            /\ client[u].st = "asked" /\ \E r \in rs : r.who = u
    OBVIOUS
  <2>1. u \in Clients /\ client[u] \in Entries
    BY DEF Clients, Good, Types, ClientType
  <2>2. \/ client'[u] = client[u]
        \/ /\ client'[u] = [client[u] EXCEPT !.tag = tag, !.pid = q]
           /\ client[u].st = "asked" /\ \E r \in rs : r.who = u
    BY <1>5, <2>1 DEF Told, Waits
  <2> QED BY <2>1, <2>2 DEF Entries
<1>6. NoGuild \in Pids
  BY DEF Pids
<1>7. Idle.tag = "waits"
  BY DEF Idle
<1>8. CASE ManagerTakes
  <2>1. PICK r \in queue :
          \/ /\ cache # NoGuild /\ Told({r}, "guild", cache) /\ UNCHANGED serving
             /\ strayed' = IF cache = name THEN strayed ELSE strayed \union (Writers \intersect {r.who})
          \/ /\ serving' = [Idle EXCEPT !.req = r] /\ UNCHANGED client
    BY <1>8 DEF ManagerTakes
  <2>2. CASE /\ cache # NoGuild /\ Told({r}, "guild", cache) /\ UNCHANGED serving
             /\ strayed' = IF cache = name THEN strayed ELSE strayed \union (Writers \intersect {r.who})
    <3>1. cache \in Pids
      BY DEF Good, Types, ClientType
    <3>2. \A u \in Writers : /\ client'[u].st = client[u].st
                             /\ \/ client'[u] = client[u]
                                \/ client'[u].tag = "guild" /\ client'[u].pid = cache /\ r.who = u
      BY <1>5, <2>2, <3>1
    <3>3. \A u \in Writers : r.who = u => cache = name \/ u \in strayed'
      BY <2>2
    <3>4. GivenStep /\ DoneStep
      BY <1>1, <2>2, <3>2, <3>3 DEF GivenStep, DoneStep, Given
    <3> QED BY <1>1, <1>4, <3>4, FourSteps
  <2>3. CASE serving' = [Idle EXCEPT !.req = r] /\ UNCHANGED client
    <3>1. serving'.tag = "waits"
      BY <2>3 DEF Idle
    <3>2. GivenStep /\ DoneStep
      BY <2>3, <3>1 DEF GivenStep, DoneStep, Given
    <3> QED BY <1>1, <1>4, <3>2, FourSteps
  <2> QED BY <2>1, <2>2, <2>3
<1>9. CASE ManagerAnswers \/ ManagerGivesUp
  <2>1. /\ serving' = Idle /\ UNCHANGED strayed
        /\ \/ Told({serving.req}, serving.tag, serving.pid)
           \/ Told({serving.req}, "timeout", NoGuild)
    BY <1>9 DEF ManagerAnswers, ManagerGivesUp
  <2>2. serving.pid \in Pids
    BY DEF Good, Types, ClientType, Answers
  <2>3. \A u \in Writers : /\ client'[u].st = client[u].st
                           /\ \/ client'[u] = client[u]
                              \/ client'[u].tag = "timeout" /\ client[u].st = "asked"
                              \/ /\ client[u].st = "asked" /\ client'[u].tag = serving.tag
                                 /\ client'[u].pid = serving.pid /\ serving.req.who = u
    BY <1>5, <1>6, <2>1, <2>2
  <2>4. GivenStep /\ DoneStep
    BY <1>7, <2>1, <2>3 DEF GivenStep, DoneStep, Given
  <2> QED BY <1>1, <1>4, <2>4, FourSteps
<1> QED BY <1>8, <1>9

-----------------------------------------------------------------------------
(***************************************************************************)
(* Who asks has written.                                                   *)
(***************************************************************************)
LEMMA WroteStep == TypeOK /\ Wrote /\ [Next]_vars => Wrote'
<1> SUFFICES ASSUME TypeOK, Wrote, [Next]_vars PROVE Wrote'
  OBVIOUS
<1> USE DEF managerVars, shardVars, fetchVars, guildVars, counters
<1>0. ClientType
  BY TypeParts
\* A client that has started and sends nothing to the manager.
<1>1. ASSUME db' = db, \A u \in Writers : client'[u].st # "idle" => client[u].st # "idle",
             queue' \subseteq queue
                \union {r \in Requests : r.who \in Writers => client[r.who].st # "idle"},
             \/ serving'.req = serving.req \/ serving'.req \in queue \/ serving'.req = NoRequest
      PROVE  Wrote'
  <2>1. NoRequest.who \notin Writers
    BY GuildManagerAssumption DEF GuildManagerAssumption, NoRequest, Request, Clients
  <2>2. \A r \in queue' : r.who \in Writers => r.who \in db
    BY <1>1 DEF Wrote
  <2>3. serving'.req.who \in Writers => serving'.req.who \in db
    BY <1>1, <2>1 DEF Wrote
  <2> QED BY <1>1, <2>2, <2>3 DEF Wrote
<1>2. \A rs, tag, q : Told(rs, tag, q) => \A u \in Writers : client'[u].st = client[u].st
  <2> SUFFICES ASSUME NEW rs, NEW tag, NEW q, Told(rs, tag, q), NEW u \in Writers
               PROVE  client'[u].st = client[u].st
    OBVIOUS
  <2>1. u \in Clients /\ client[u] \in Entries
    BY <1>0 DEF Clients, ClientType
  <2>2. client'[u] = client[u] \/ client'[u] = [client[u] EXCEPT !.tag = tag, !.pid = q]
    BY <2>1 DEF Told
  <2> QED BY <2>1, <2>2 DEF Entries
<1>3. ASSUME NEW c \in Clients, NEW op \in Ops, Sent(c, op) \/ SentToManager(c, op),
             db' = db, serving' = serving, c \in Writers => client[c].st # "idle"
      PROVE  Wrote'
  <2>1. \A via \in {"direct", "manager"} : Request(op, c, via) \in Requests /\ Request(op, c, via).who = c
    BY DEF Request, Requests
  <2>2. queue' \subseteq queue \union {r \in Requests : r.who \in Writers => client[r.who].st # "idle"}
    BY <1>3, <2>1 DEF Sent, SentToManager
  <2>3. \E e : client' = [client EXCEPT ![c] = e]
    BY <1>3 DEF Sent, SentToManager
  <2>4. \A u \in Writers : u # c => client'[u] = client[u]
    BY <2>3, <1>0 DEF ClientType, Clients
  <2> QED BY <1>1, <1>3, <2>2, <2>4
<1>4. ASSUME NEW c \in Clients, NEW e, client' = [client EXCEPT ![c] = e],
             UNCHANGED <<db, queue, serving>>, c \in Writers => client[c].st # "idle"
      PROVE  Wrote'
  <2>1. \A u \in Writers : u # c => client'[u] = client[u]
    BY <1>4, <1>0 DEF ClientType, Clients
  <2> QED BY <1>1, <1>4, <2>1
<1>5. CASE \E w \in Writers : Write(w) \/ Dispatch(w)
  <2>1. PICK w \in Writers : Write(w) \/ Dispatch(w)
    BY <1>5
  <2>2. w \in Clients
    BY DEF Clients
  <2>3. CASE Write(w)
    <3>1. db' = db \union {w} /\ UNCHANGED <<queue, serving>>
          /\ \A u \in Writers : u # w => client'[u] = client[u]
      BY <2>3, <1>0 DEF Write, ClientType, Clients
    <3> QED BY <3>1 DEF Wrote
  <2>4. CASE Dispatch(w)
    BY <1>4, <2>2, <2>4 DEF Dispatch
  <2> QED BY <2>1, <2>3, <2>4
<1>6. CASE \E c \in Writers \union Askers, op \in Finds : Ask(c, op)
  <2>1. PICK c \in Writers \union Askers, op \in Finds : Ask(c, op)
    BY <1>6
  <2>2. c \in Clients /\ op \in Ops /\ db' = db /\ serving' = serving
        /\ (c \in Writers => client[c].st # "idle")
    BY <2>1, Values DEF Clients, Ask
  <2>3. Sent(c, op) \/ (queue' = queue /\ \E e : client' = [client EXCEPT ![c] = e])
    BY <2>1 DEF Ask
  <2> QED BY <1>3, <1>4, <2>2, <2>3
<1>7. CASE \E a \in Admins, op \in Rules : Rule(a, op)
  <2>1. PICK a \in Admins, op \in Rules : Rule(a, op)
    BY <1>7
  <2>2. a \in Clients /\ op \in Ops /\ a \notin Writers
    BY Values, GuildManagerAssumption DEF Clients, GuildManagerAssumption
  <2> QED BY <1>3, <2>1, <2>2 DEF Rule
<1>8. CASE \E c \in Clients : GivesUp(c) \/ TakeAnswer(c)
  <2>1. PICK c \in Clients : GivesUp(c) \/ TakeAnswer(c)
    BY <1>8
  <2>2. client[c].st # "idle" /\ db' = db /\ serving' = serving /\ "start" \in Ops /\ "stop" \in Ops
    BY <2>1 DEF GivesUp, TakeAnswer, Ops, Finds, Rules
  <2>3. \/ \E op \in Ops : Sent(c, op) \/ SentToManager(c, op)
        \/ queue' = queue /\ \E e : client' = [client EXCEPT ![c] = e]
    BY <2>1, <2>2 DEF GivesUp, TakeAnswer
  <2> QED BY <1>3, <1>4, <2>2, <2>3
<1>9. CASE ManagerTakes \/ ManagerAnswers \/ ManagerGivesUp \/ ShardRestarts
  <2>1. Idle.req = NoRequest /\ \A r : [Idle EXCEPT !.req = r].req = r
    BY DEF Idle
  <2>2. /\ db' = db /\ queue' \subseteq queue
        /\ serving'.req = serving.req \/ serving'.req \in queue \/ serving'.req = NoRequest
        /\ UNCHANGED client \/ \E rs, tag, q : Told(rs, tag, q)
    BY <1>9, <2>1 DEF ManagerTakes, ManagerAnswers, ManagerGivesUp, ShardRestarts
  <2> QED BY <1>1, <1>2, <2>2
<1>10. CASE Handles \/ Stopped \/ ReloadEnds \/ TakeDown \/ LoadEnds \/ ReloadFetched
            \/ \E p \in Guilds : GuildStep(p) \/ GuildExits(p) \/ GuildCrashes(p)
  <2>1. UNCHANGED <<db, queue>>
    BY <1>10 DEF Handles, Find, Stop, Reload, TakeFetched, TakeReloaded, Stopped, ReloadEnds,
       TakeDown, LoadEnds, ReloadFetched, GuildStep, GuildExits, GuildCrashes
  <2>2. (UNCHANGED <<client, serving>>) \/ \E rs, tag, q : Reply(rs, tag, q)
    BY <1>10 DEF Handles, Find, HandleStart, HandleLookup, HandleEnsure, Stop, Reload, TakeFetched,
       StartFails, Starts, TakeReloaded, Stopped, ReloadEnds,
       TakeDown, LoadEnds, ReloadFetched, GuildStep, GuildExits, GuildCrashes
  <2>3. \A rs, tag, q : Reply(rs, tag, q) => serving'.req = serving.req /\ \E ds : Told(ds, tag, q)
    BY <1>0 DEF Reply, ClientType, Answers
  <2> QED BY <1>1, <1>2, <2>1, <2>2, <2>3
<1>11. CASE ShardCrashes
  <2>1. /\ UNCHANGED <<db, serving>>
        /\ \A c \in Clients : client'[c].st # "idle" => client[c].st # "idle"
    BY <1>11, <1>0 DEF ShardCrashes, ClientType, Entries
  <2>2. queue' \subseteq queue \union {r \in Requests : r.who \in Writers => client[r.who].st # "idle"}
    <3>1. \A c \in Clients : Request(client[c].op, c, "manager") \in Requests
                             /\ Request(client[c].op, c, "manager").who = c
      BY <1>0 DEF ClientType, Entries, Request, Requests
    <3> QED BY <1>11, <3>1 DEF ShardCrashes
  <2> QED BY <1>1, <2>1, <2>2 DEF Clients
<1>12. CASE UNCHANGED vars
  BY <1>1, <1>12 DEF vars
<1> QED BY <1>5, <1>6, <1>7, <1>8, <1>9, <1>10, <1>11, <1>12 DEF Next

-----------------------------------------------------------------------------
LEMMA InitKept == Init => Wrote /\ Kept
<1> SUFFICES ASSUME Init PROVE Wrote /\ Kept
  OBVIOUS
<1>1. /\ \A u \in Writers : client[u].st = "idle"
      /\ queue = {} /\ serving = Idle
  BY DEF Init, Client, Clients
<1>2. Idle.tag = "waits" /\ Idle.req.who \notin Writers
  BY GuildManagerAssumption DEF Idle, NoRequest, Request, GuildManagerAssumption, Clients
<1> QED BY <1>1, <1>2 DEF Wrote, Kept, Given

LEMMA KeptStep ==
  TypeOK /\ Served /\ WaitersHaveAFetch /\ Wrote /\ Kept /\ [Next]_vars => Kept'
<1> SUFFICES ASSUME TypeOK, Served, WaitersHaveAFetch, Wrote, Kept, [Next]_vars PROVE Kept'
  OBVIOUS
<1>0. Good
  BY TypeParts DEF Good, Types
<1>1. CASE UNCHANGED vars
  <2>1. UNCHANGED <<client, serving, inbox, loads, guild, name, overwritten, strayed>>
    BY <1>1 DEF vars, managerVars, shardVars, fetchVars, guildVars
  <2>2. NoNewResults
    BY <1>0, <2>1, SameResultsLeft DEF Good, Types, ShardType
  <2>3. CoverStep /\ NameStep
    BY <1>0, <2>1, <2>2, SameGuilds, StillCovered DEF Good, NameStep
  <2> QED BY <1>0, <2>1, <2>3, NothingTold, FourSteps
<1>2. CASE Handles
  <2>1. Head(inbox) \in Messages
    BY <1>0, <1>2, OneLess DEF Handles, Good, Types, ShardType
  <2> QED BY <1>0, <1>2, <2>1, KeptByFind, KeptByStopOrReload, KeptByFetched DEF Handles
<1> QED BY <1>0, <1>1, <1>2, KeptByClients, KeptByDispatch, KeptByManager, KeptByShard, KeptByCrash,
           KeptByGuild DEF Next

LEMMA KeptIsEnough == TypeOK /\ Kept => DispatchedIsKept
<1> SUFFICES ASSUME TypeOK, Kept, NEW w \in Writers, client[w].st = "done",
                    w \notin strayed \union overwritten, name # NoGuild, Running(name)
             PROVE  Holds(w, name)
  BY DEF DispatchedIsKept, Holds
<1> QED BY DEF Kept, Covered

\* An update that was dispatched reaches whichever process serves the guild.
THEOREM DispatchedIsKeptHolds == Spec => []DispatchedIsKept
  BY InitType, TypeStep, InitServed, ServedStep, InitWaits, WaitStep, InitKept, WroteStep, KeptStep,
     KeptIsEnough, PTL DEF Spec

=============================================================================
