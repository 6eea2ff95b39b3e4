------------------------ MODULE GuildManager_proofs ------------------------
(***************************************************************************)
(* Theorems about GuildManager, for any clients and every bound: one       *)
(* process serves the guild, who waits for it to load has a fetch that     *)
(* will answer, and the shard hears of the end of the guild it knows.      *)
(***************************************************************************)
EXTENDS GuildManager, SequenceTheorems, TLAPS

-----------------------------------------------------------------------------
(***************************************************************************)
(* Sequences and the values that messages are made of.                     *)
(***************************************************************************)
\* A mailbox with one more message, and without its first.
LEMMA OneMore ==
  ASSUME NEW S, NEW q \in Seq(S), NEW m \in S
  PROVE  /\ Append(q, m) \in Seq(S)
         /\ DOMAIN q = 1..Len(q) /\ Len(q) \in Nat
         /\ DOMAIN Append(q, m) = 1..(Len(q) + 1)
         /\ \A i \in 1..Len(q) : Append(q, m)[i] = q[i]
         /\ Append(q, m)[Len(q) + 1] = m
BY AppendProperties, LenProperties

LEMMA OneLess ==
  ASSUME NEW S, NEW q \in Seq(S), q # <<>>
  PROVE  /\ Tail(q) \in Seq(S)
         /\ Head(q) = q[1] /\ q[1] \in S
         /\ Len(q) \in Nat \ {0} /\ DOMAIN q = 1..Len(q)
         /\ DOMAIN Tail(q) = 1..(Len(q) - 1)
         /\ \A i \in 1..(Len(q) - 1) : Tail(q)[i] = q[i + 1]
BY HeadTailProperties, LenProperties, EmptySeq

Pids    == Guilds \union {NoGuild}
Entries == [st : {"idle", "ready", "asked", "found", "done", "failed"}, op : Ops,
            via : {"direct", "manager"}, tag : Tags, pid : Pids]
Answers == [req : Requests \union {NoRequest}, tag : Tags, pid : Pids]
Procs   == [st : {"unborn", "running", "exiting", "dead"}, data : SUBSET Writers,
            mail : Seq(Letters)]

LEMMA Values ==
  /\ \A p \in Guilds : p \in Nat /\ p # NoGuild /\ p # Loading
  /\ NoGuild # Loading /\ NoGuild \notin Guilds /\ Loading \notin Guilds
  /\ \A r \in Requests : r # NoRequest /\ r.op \in Ops /\ r.who \in Clients
  /\ "fetched" \notin Ops /\ "reloaded" \notin Ops
  /\ Finds \subseteq Ops /\ Rules \subseteq Ops
BY GuildManagerAssumption
   DEF GuildManagerAssumption, Guilds, NoGuild, Loading, Requests, NoRequest, Request, Ops, Finds, Rules

LEMMA Received ==
  ASSUME NEW m \in Messages
  PROVE  /\ m.op \in Ops => m \in Requests
         /\ m.op = "fetched" => m.res \in Results
         /\ m.op = "reloaded" => m.req \in Requests /\ m.pid \in Guilds /\ m.res \in Results
         /\ m.op \in Ops \/ m.op = "fetched" \/ m.op = "reloaded"
BY Values DEF Messages, Requests, Fetched, Reloaded

LEMMA ResultsAre ==
  ASSUME NEW r \in Results PROVE r.data \in SUBSET Writers
<1>1. CASE r = Failed
  BY <1>1 DEF Failed
<1>2. CASE r \in [ok : {TRUE}, data : SUBSET Writers]
  BY <1>2, Zenon
<1> QED BY <1>1, <1>2, Zenon DEF Results

LEMMA OutcomesAre ==
  ASSUME NEW seen \in SUBSET Writers, db \subseteq Writers
  PROVE  Outcomes(seen) \subseteq Results
<1>1. ASSUME NEW s \in SUBSET db PROVE Read(s) \in [ok : {TRUE}, data : SUBSET Writers]
  <2>1. s \in SUBSET Writers
    OBVIOUS
  <2> QED BY <2>1, Zenon DEF Read
<1> QED BY <1>1, Zenon DEF Outcomes, Results

-----------------------------------------------------------------------------
(***************************************************************************)
(* Type correctness, by part of the state.                                 *)
(***************************************************************************)
ClientType ==
  /\ db \in SUBSET Writers /\ cache \in Pids /\ client \in [Clients -> Entries]
  /\ queue \in SUBSET Requests /\ serving \in Answers
  /\ strayed \in SUBSET Writers

ShardType ==
  /\ up \in BOOLEAN /\ inbox \in Seq(Messages) /\ entry \in Guilds \union {NoGuild, Loading}
  /\ pending \in SUBSET Requests
  /\ busy = Free \/ busy \in [req : Requests, does : Rules, pid : Guilds]
  /\ watched \in SUBSET Guilds /\ downs \in SUBSET Guilds
  /\ loads \in SUBSET [seen : SUBSET Writers]
  /\ reloads \in SUBSET [req : Requests, pid : Guilds, seen : SUBSET Writers]

GuildType ==
  /\ guild \in [Guilds -> Procs] /\ name \in Pids /\ overwritten \in SUBSET Writers

CountType ==
  /\ made \in 0..MaxGuilds /\ crashes \in 0..MaxCrashes
  /\ shardCrashes \in 0..MaxShardCrashes /\ slow \in 0..MaxSlow

LEMMA TypeParts == TypeOK <=> ClientType /\ ShardType /\ GuildType /\ CountType
  BY DEF TypeOK, ClientType, ShardType, GuildType, CountType, Pids, Entries, Answers, Procs

LEMMA ToldType ==
  ASSUME client \in [Clients -> Entries], NEW rs, NEW tag \in Tags, NEW p \in Pids, Told(rs, tag, p)
  PROVE  client' \in [Clients -> Entries]
<1>1. ASSUME NEW c \in Clients PROVE [client[c] EXCEPT !.tag = tag, !.pid = p] \in Entries
  BY DEF Entries
<1> QED BY <1>1 DEF Told

LEMMA ReplyType ==
  ASSUME client \in [Clients -> Entries], serving \in Answers,
         NEW rs, NEW tag \in Tags, NEW p \in Pids, Reply(rs, tag, p)
  PROVE  client' \in [Clients -> Entries] /\ serving' \in Answers
<1>1. client' \in [Clients -> Entries]
  BY ToldType DEF Reply
<1>2. serving' \in Answers
  BY DEF Reply, Answers
<1> QED BY <1>1, <1>2

LEMMA PostType ==
  ASSUME guild \in [Guilds -> Procs], NEW p \in Guilds, NEW l \in Letters
  PROVE  Post(p, l) \in [Guilds -> Procs]
<1>1. guild[p].mail \in Seq(Letters)
  BY DEF Procs
<1>2. Append(guild[p].mail, l) \in Seq(Letters)
  BY <1>1, OneMore
<1> QED BY <1>2 DEF Post, Procs

LEMMA LettersAre ==
  /\ \A w \in Writers : Update(w) \in Letters
  /\ \A s \in SUBSET Writers : Replace(s) \in Letters
  /\ \A op \in {"stop", "shutdown", "exit"} : Leave(op) \in Letters
BY DEF Update, Replace, Leave, Letters

LEMMA DiesType ==
  ASSUME GuildType, watched \in SUBSET Guilds, downs \in SUBSET Guilds, NEW p \in Guilds, Dies(p)
  PROVE  /\ guild' \in [Guilds -> Procs] /\ name' \in Pids
         /\ watched' \in SUBSET Guilds /\ downs' \in SUBSET Guilds
<1>1. Dead \in Procs
  BY EmptySeq DEF Dead, Procs
<1> QED BY <1>1 DEF Dies, GuildType, Pids

LEMMA SentType ==
  ASSUME ClientType, ShardType, NEW c \in Clients, NEW op \in Ops, Sent(c, op) \/ SentToManager(c, op)
  PROVE  /\ client' \in [Clients -> Entries] /\ queue' \in SUBSET Requests
         /\ inbox' \in Seq(Messages)
<1>1. \A via \in {"direct", "manager"} : Request(op, c, via) \in Requests /\ Request(op, c, via) \in Messages
  BY DEF Request, Requests, Messages
<1>2. \A via \in {"direct", "manager"} : Asking(op, via) \in Entries
  BY DEF Asking, Entries, Tags, Pids
<1>3. \A via \in {"direct", "manager"} : Append(inbox, Request(op, c, via)) \in Seq(Messages)
  BY <1>1, OneMore DEF ShardType
<1>4. client' \in [Clients -> Entries]
  BY <1>2 DEF Sent, SentToManager, ClientType
<1>5. queue' \in SUBSET Requests /\ inbox' \in Seq(Messages)
  BY <1>1, <1>3 DEF Sent, SentToManager, ClientType, ShardType
<1> QED BY <1>4, <1>5


\* Actions of the clients and of the manager.
LEMMA ClientTypes ==
  ASSUME ClientType, ShardType, GuildType, CountType,
         \/ \E w \in Writers : Write(w) \/ Dispatch(w)
         \/ \E c \in Writers \union Askers, op \in Finds : Ask(c, op)
         \/ \E a \in Admins, op \in Rules : Rule(a, op)
         \/ \E c \in Clients : GivesUp(c) \/ TakeAnswer(c)
  PROVE  ClientType' /\ ShardType' /\ GuildType' /\ CountType'
<1> USE DEF managerVars, shardVars, fetchVars, guildVars, counters
<1>0. \A st \in {"idle", "ready", "found", "done", "failed"}, p \in Pids : Client(st, p) \in Entries
  BY DEF Client, Entries, Ops, Finds, Tags
<1>1. ASSUME NEW w \in Writers, Write(w) PROVE ClientType' /\ ShardType' /\ GuildType' /\ CountType'
  <2>1. ClientType'
    BY <1>0, <1>1 DEF Write, ClientType, Clients, Pids
  <2> QED BY <1>1, <2>1 DEF Write, ShardType, GuildType, CountType
<1>2. ASSUME NEW w \in Writers, Dispatch(w)
      PROVE  ClientType' /\ ShardType' /\ GuildType' /\ CountType'
  <2>1. ClientType'
    BY <1>0, <1>2 DEF Dispatch, ClientType, Clients, Pids
  <2>2. guild' \in [Guilds -> Procs]
    <3>1. client[w].pid \in Pids
      BY DEF ClientType, Clients, Entries
    <3>2. CASE client[w].pid \in Guilds
      BY <1>2, <3>2, PostType, LettersAre DEF Dispatch, GuildType
    <3>3. CASE client[w].pid = NoGuild
      <4>1. Post(NoGuild, Update(w)) \in {guild, [guild EXCEPT ![NoGuild].mail = Append(@, Update(w))]}
        BY DEF Post
      <4>2. [guild EXCEPT ![NoGuild].mail = Append(@, Update(w))] = guild
        BY Values DEF GuildType
      <4> QED BY <1>2, <3>3, <4>1, <4>2 DEF Dispatch, GuildType
    <3> QED BY <3>1, <3>2, <3>3 DEF Pids
  <2>3. ShardType' /\ CountType'
    BY <1>2 DEF Dispatch, ShardType, CountType
  <2> QED BY <1>2, <2>1, <2>2, <2>3 DEF Dispatch, GuildType
<1>3. ASSUME NEW c \in Writers \union Askers, NEW op \in Finds, Ask(c, op)
      PROVE  ClientType' /\ ShardType' /\ GuildType' /\ CountType'
  <2>1. c \in Clients /\ op \in Ops
    BY DEF Clients, Ops
  <2>2. cache' \in Pids /\ strayed' \in SUBSET Writers
    BY <1>3 DEF Ask, ClientType, Pids
  <2>3. client' \in [Clients -> Entries] /\ queue' \in SUBSET Requests /\ inbox' \in Seq(Messages)
    <3>1. CASE Sent(c, op)
      BY <2>1, <3>1, SentType
    <3>2. CASE /\ client' = [client EXCEPT ![c] = IF c \in Writers THEN Client("found", cache)
                                                               ELSE Client("done", NoGuild)]
               /\ UNCHANGED <<queue, inbox>>
      BY <1>0, <2>1, <3>2 DEF ClientType, ShardType, Pids
    <3> QED BY <1>3, <3>1, <3>2 DEF Ask
  <2>4. ClientType' /\ ShardType'
    BY <1>3, <2>2, <2>3 DEF Ask, ClientType, ShardType
  <2> QED BY <1>3, <2>4 DEF Ask, GuildType, CountType
<1>4. ASSUME NEW a \in Admins, NEW op \in Rules, Rule(a, op)
      PROVE  ClientType' /\ ShardType' /\ GuildType' /\ CountType'
  <2>1. a \in Clients /\ op \in Ops
    BY DEF Clients, Ops
  <2>2. client' \in [Clients -> Entries] /\ queue' \in SUBSET Requests /\ inbox' \in Seq(Messages)
    BY <1>4, <2>1, SentType DEF Rule
  <2> QED BY <1>4, <2>2 DEF Rule, ClientType, ShardType, GuildType, CountType
<1>5. ASSUME NEW c \in Clients, GivesUp(c)
      PROVE  ClientType' /\ ShardType' /\ GuildType' /\ CountType'
  <2>1. ClientType'
    BY <1>0, <1>5 DEF GivesUp, ClientType, Pids
  <2>2. CountType'
    BY <1>5, GuildManagerAssumption DEF GivesUp, CountType, GuildManagerAssumption
  <2> QED BY <1>5, <2>1, <2>2 DEF GivesUp, ShardType, GuildType
<1>6. ASSUME NEW c \in Clients, TakeAnswer(c)
      PROVE  ClientType' /\ ShardType' /\ GuildType' /\ CountType'
  <2>1. cache' \in Pids
    BY <1>6 DEF TakeAnswer, ClientType, Entries
  <2>2. client' \in [Clients -> Entries] /\ queue' \in SUBSET Requests /\ inbox' \in Seq(Messages)
    <3>1. CASE Sent(c, "start") \/ SentToManager(c, "stop")
      BY <3>1, SentType DEF Ops, Finds, Rules
    <3>2. CASE /\ \E x \in {"found", "done", "failed"}, p \in Pids :
                    client' = [client EXCEPT ![c] = Client(x, p)]
               /\ UNCHANGED <<queue, inbox>>
      BY <1>0, <3>2 DEF ClientType, ShardType
    <3>3. client[c].pid \in Pids /\ NoGuild \in Pids
      BY DEF ClientType, Entries, Pids
    <3> QED BY <1>6, <3>1, <3>2, <3>3 DEF TakeAnswer
  <2> QED BY <1>6, <2>1, <2>2 DEF TakeAnswer, ClientType, ShardType, GuildType, CountType
<1> QED BY <1>1, <1>2, <1>3, <1>4, <1>5, <1>6

LEMMA ManagerTypes ==
  ASSUME ClientType, ShardType, GuildType, CountType,
         ManagerTakes \/ ManagerAnswers \/ ManagerGivesUp \/ ShardRestarts
  PROVE  ClientType' /\ ShardType' /\ GuildType' /\ CountType'
<1> USE DEF managerVars, shardVars, fetchVars, guildVars, counters
<1>0. Idle \in Answers /\ NoGuild \in Pids /\ Tags = {"waits", "guild", "ok", "not_found", "error", "timeout"}
  BY DEF Idle, Answers, Pids, Tags
<1>1. CASE ManagerTakes
  <2>1. PICK r \in queue : ManagerTakes!(r)
    BY <1>1 DEF ManagerTakes
  <2>2. r \in Requests /\ r \in Messages
    BY DEF ClientType, Messages
  <2>3. Append(inbox, r) \in Seq(Messages) /\ [Idle EXCEPT !.req = r] \in Answers
    BY <2>2, OneMore DEF ShardType, Idle, Answers, Tags, Pids
  <2>4. client' \in [Clients -> Entries]
    BY <1>0, <2>1, ToldType DEF ClientType
  <2>5. ClientType' /\ ShardType'
    BY <1>0, <2>1, <2>3, <2>4 DEF ClientType, ShardType, Pids
  <2> QED BY <2>1, <2>5 DEF GuildType, CountType
<1>2. CASE ManagerAnswers
  <2>1. serving.tag \in Tags /\ serving.pid \in Pids
    BY DEF ClientType, Answers
  <2>2. client' \in [Clients -> Entries]
    BY <1>2, <2>1, ToldType DEF ManagerAnswers, ClientType
  <2> QED BY <1>0, <1>2, <2>1, <2>2 DEF ManagerAnswers, ClientType, ShardType, GuildType, CountType
<1>3. CASE ManagerGivesUp
  <2>1. client' \in [Clients -> Entries]
    BY <1>0, <1>3, ToldType DEF ManagerGivesUp, ClientType
  <2>2. CountType'
    BY <1>3, GuildManagerAssumption DEF ManagerGivesUp, CountType, GuildManagerAssumption
  <2> QED BY <1>0, <1>3, <2>1, <2>2 DEF ManagerGivesUp, ClientType, ShardType, GuildType
<1>4. CASE ShardRestarts
  <2>1. <<>> \in Seq(Messages)
    BY EmptySeq
  <2>2. CASE serving.req # NoRequest
    <3>1. serving.req \in Messages
      BY <2>2 DEF ClientType, Answers, Messages
    <3>2. <<serving.req>> \in Seq(Messages)
      BY <3>1
    <3> QED BY <1>4, <2>1, <3>2 DEF ShardRestarts, ClientType, ShardType, GuildType, CountType
  <2>3. CASE serving.req = NoRequest
    BY <1>4, <2>1, <2>3 DEF ShardRestarts, ClientType, ShardType, GuildType, CountType
  <2> QED BY <2>2, <2>3
<1> QED BY <1>1, <1>2, <1>3, <1>4

LEMMA TargetType ==
  ASSUME ShardType, GuildType
  PROVE  Target = NoGuild \/ Target \in Guilds
BY DEF Target, ShardType, GuildType, Pids

\* The requests and messages that the shard takes.
LEMMA HandleTypes ==
  ASSUME ClientType, ShardType, GuildType, CountType, Handles
  PROVE  ClientType' /\ ShardType' /\ GuildType' /\ CountType'
<1> USE DEF fetchVars, guildVars, counters
<1> DEFINE m == Head(inbox)
<1>0. /\ m \in Messages /\ Tail(inbox) \in Seq(Messages)
      /\ NoGuild \in Pids /\ Guilds \subseteq Pids /\ name \in Pids
      /\ Tags = {"waits", "guild", "ok", "not_found", "error", "timeout"}
  BY OneLess DEF Handles, ShardType, GuildType, Pids, Tags
<1> DEFINE ToldTypes == client' \in [Clients -> Entries] /\ serving' \in Answers
<1>r. ASSUME NEW rs, NEW tag \in Tags, NEW p \in Pids, Reply(rs, tag, p) PROVE ToldTypes
  BY <1>r, ReplyType DEF ClientType
<1>u. (UNCHANGED <<client, serving>>) => ToldTypes
  BY DEF ClientType
<1>1. CASE Find(m)
  <2>1. m \in Requests
    BY <1>0, <1>1, Received, Values DEF Find, HandleStart, HandleLookup, HandleEnsure, Ops, Finds
  <2>2. ToldTypes
    <3>1. CASE HandleStart(m)
      BY <1>0, <1>r, <1>u, <3>1 DEF HandleStart
    <3>2. CASE HandleLookup(m)
      BY <1>0, <1>r, <1>u, <3>2 DEF HandleLookup
    <3>3. CASE HandleEnsure(m)
      BY <1>0, <1>r, <1>u, <3>3 DEF HandleEnsure
    <3> QED BY <1>1, <3>1, <3>2, <3>3 DEF Find
  <2>3. /\ entry' \in Guilds \union {NoGuild, Loading} /\ watched' \in SUBSET Guilds
        /\ pending' \in SUBSET Requests /\ loads' \in SUBSET [seen : SUBSET Writers]
    <3>1. Adopt /\ name # NoGuild => entry' \in Guilds /\ watched' \in SUBSET Guilds
      BY DEF Adopt, GuildType, ShardType, Pids
    <3>2. Fetches => entry' = Loading /\ loads' \in SUBSET [seen : SUBSET Writers]
      BY DEF Fetches, ShardType, ClientType
    <3>3. CASE HandleStart(m)
      BY <2>1, <3>1, <3>2, <3>3 DEF HandleStart, ShardType
    <3>4. CASE HandleLookup(m)
      BY <2>1, <3>1, <3>2, <3>4 DEF HandleLookup, ShardType
    <3>5. CASE HandleEnsure(m)
      BY <2>1, <3>1, <3>2, <3>5 DEF HandleEnsure, ShardType
    <3> QED BY <1>1, <3>3, <3>4, <3>5 DEF Find
  <2>4. ClientType' /\ ShardType'
    BY <1>0, <1>1, <2>2, <2>3 DEF Find, Receives, ClientType, ShardType
  <2> QED BY <1>1, <2>4 DEF Find, GuildType, CountType
<1>2. CASE Stop(m)
  <2>1. m \in Requests /\ m.op \in Rules /\ m.op \in {"stop", "shutdown"}
    BY <1>0, <1>2, Received, Values DEF Stop, Ops, Rules
  <2>2. ToldTypes
    BY <1>0, <1>2, <1>r, <1>u DEF Stop
  <2>3. guild' \in [Guilds -> Procs]
    BY <1>2, <2>1, TargetType, PostType, LettersAre DEF Stop, GuildType
  <2>4. busy' = Free \/ busy' \in [req : Requests, does : Rules, pid : Guilds]
    BY <1>2, <2>1, TargetType DEF Stop, ShardType
  <2>5. ClientType' /\ ShardType'
    BY <1>0, <1>2, <2>2, <2>4 DEF Stop, Receives, ClientType, ShardType
  <2> QED BY <1>2, <2>3, <2>5 DEF Stop, GuildType, CountType
<1>3. CASE Reload(m)
  <2>1. m \in Requests
    BY <1>0, <1>3, Received, Values DEF Reload, Ops, Rules
  <2>2. ToldTypes
    BY <1>0, <1>3, <1>r, <1>u DEF Reload
  <2>3. /\ entry' \in Guilds \union {NoGuild, Loading} /\ watched' \in SUBSET Guilds
        /\ reloads' \in SUBSET [req : Requests, pid : Guilds, seen : SUBSET Writers]
    <3>1. CASE Target = NoGuild
      BY <1>3, <3>1 DEF Reload, ShardType
    <3>2. CASE Target \in Guilds
      <4>1. [req |-> m, pid |-> Target, seen |-> db] \in [req : Requests, pid : Guilds, seen : SUBSET Writers]
        BY <2>1, <3>2 DEF ClientType
      <4>2. entry \notin Guilds => name \in Guilds
        BY <3>2 DEF Target
      <4> QED BY <1>3, <3>2, <4>1, <4>2, Values DEF Reload, Adopt, ShardType
    <3> QED BY <3>1, <3>2, TargetType
  <2>4. ClientType' /\ ShardType'
    BY <1>0, <1>3, <2>2, <2>3 DEF Reload, Receives, ClientType, ShardType
  <2> QED BY <1>3, <2>4 DEF Reload, GuildType, CountType
<1>4. CASE TakeFetched(m)
  <2>1. m.res \in Results
    BY <1>0, <1>4, Received DEF TakeFetched
  <2>2. CASE Adopt /\ Reply(pending, "guild", name) /\ UNCHANGED <<made, guild, name>> /\ name # NoGuild
    <3>1. ToldTypes /\ entry' \in Guilds /\ watched' \in SUBSET Guilds
      BY <1>0, <1>r, <2>2 DEF Adopt, GuildType, ShardType, Pids
    <3> QED BY <1>0, <1>4, <2>2, <3>1 DEF TakeFetched, Receives, ClientType, ShardType, GuildType, CountType
  <2>3. CASE StartFails
    <3>1. ToldTypes
      BY <1>0, <1>r, <2>3 DEF StartFails
    <3> QED BY <1>0, <1>4, <2>3, <3>1
            DEF StartFails, TakeFetched, Receives, ClientType, ShardType, GuildType, CountType
  <2>4. CASE Starts(m.res.data)
    <3>1. made + 1 \in Guilds
      BY <2>4, GuildManagerAssumption DEF Starts, CountType, Guilds, GuildManagerAssumption
    <3>2. ToldTypes
      BY <1>0, <1>r, <2>4, <3>1 DEF Starts
    <3>3. [st |-> "running", data |-> m.res.data, mail |-> <<>>] \in Procs
      BY <2>1, ResultsAre, EmptySeq DEF Procs
    <3>4. guild' \in [Guilds -> Procs] /\ name' \in Pids
      BY <2>4, <3>1, <3>3 DEF Starts, GuildType, Pids
    <3>5. CountType'
      BY <1>4, <2>4, GuildManagerAssumption DEF TakeFetched, Starts, CountType, GuildManagerAssumption
    <3>6. entry' \in Guilds /\ watched' \in SUBSET Guilds
      BY <2>4, <3>1 DEF Starts, ShardType
    <3> QED BY <1>0, <1>4, <3>2, <3>4, <3>5, <3>6
            DEF TakeFetched, Receives, ClientType, ShardType, GuildType
  <2> QED BY <1>4, <2>2, <2>3, <2>4 DEF TakeFetched
<1>5. CASE TakeReloaded(m)
  <2>1. m.req \in Requests /\ m.pid \in Guilds /\ m.res.data \in SUBSET Writers
    BY <1>0, <1>5, Received, ResultsAre DEF TakeReloaded
  <2>2. ToldTypes
    BY <1>0, <1>5, <1>r, <1>u DEF TakeReloaded
  <2>3. guild' \in [Guilds -> Procs]
    BY <1>5, <2>1, PostType, LettersAre DEF TakeReloaded, GuildType
  <2>4. busy' = Free \/ busy' \in [req : Requests, does : Rules, pid : Guilds]
    BY <1>5, <2>1 DEF TakeReloaded, ShardType, Rules
  <2>5. ClientType' /\ ShardType'
    BY <1>0, <1>5, <2>2, <2>4 DEF TakeReloaded, Receives, ClientType, ShardType
  <2> QED BY <1>5, <2>3, <2>5 DEF TakeReloaded, GuildType, CountType
<1> QED BY <1>1, <1>2, <1>3, <1>4, <1>5 DEF Handles

\* What else the shard does, the fetches, and its end.
LEMMA ShardTypes ==
  ASSUME ClientType, ShardType, GuildType, CountType,
         Stopped \/ ReloadEnds \/ TakeDown \/ LoadEnds \/ ReloadFetched \/ ShardCrashes
  PROVE  ClientType' /\ ShardType' /\ GuildType' /\ CountType'
<1> USE DEF managerVars, fetchVars, guildVars, counters
<1>0. NoGuild \in Pids /\ Tags = {"waits", "guild", "ok", "not_found", "error", "timeout"}
  BY DEF Pids, Tags
<1>1. CASE Stopped
  <2>1. client' \in [Clients -> Entries] /\ serving' \in Answers
    BY <1>0, <1>1, ReplyType DEF Stopped, ClientType
  <2>2. CountType'
    BY <1>1, GuildManagerAssumption DEF Stopped, CountType, GuildManagerAssumption
  <2> QED BY <1>0, <1>1, <2>1, <2>2 DEF Stopped, ClientType, ShardType, GuildType
<1>2. CASE ReloadEnds
  <2>1. client' \in [Clients -> Entries] /\ serving' \in Answers
    BY <1>0, <1>2, ReplyType DEF ReloadEnds, ClientType
  <2>2. CountType'
    BY <1>2, GuildManagerAssumption DEF ReloadEnds, CountType, GuildManagerAssumption
  <2> QED BY <1>2, <2>1, <2>2 DEF ReloadEnds, ClientType, ShardType, GuildType
<1>3. CASE TakeDown
  BY <1>3 DEF TakeDown, ClientType, ShardType, GuildType, CountType
<1>4. CASE LoadEnds
  <2>0. PICK l \in loads : \E r \in Outcomes(l.seen) :
          /\ loads' = loads \ {l} /\ inbox' = Append(inbox, Fetched(r))
          /\ UNCHANGED <<db, cache, client, managerVars, up, entry, pending, busy, watched, downs,
                         reloads, guildVars, strayed, counters>>
    BY <1>4 DEF LoadEnds
  <2>1. PICK r \in Outcomes(l.seen) :
          /\ loads' = loads \ {l} /\ inbox' = Append(inbox, Fetched(r))
          /\ UNCHANGED <<db, cache, client, managerVars, up, entry, pending, busy, watched, downs,
                         reloads, guildVars, strayed, counters>>
    BY <2>0
  <2>2. r \in Results
    BY OutcomesAre DEF ShardType, ClientType
  <2>3. Fetched(r) \in Messages
    BY <2>2 DEF Fetched, Messages
  <2>4. inbox' \in Seq(Messages)
    BY <2>1, <2>3, OneMore DEF ShardType
  <2> QED BY <2>1, <2>4 DEF ClientType, ShardType, GuildType, CountType
<1>5. CASE ReloadFetched
  <2>0. PICK q \in reloads : \E r \in Outcomes(q.seen) :
          /\ reloads' = reloads \ {q} /\ inbox' = Append(inbox, Reloaded(q, r))
          /\ UNCHANGED <<db, cache, client, managerVars, up, entry, pending, busy, watched, downs,
                         loads, guildVars, strayed, counters>>
    BY <1>5 DEF ReloadFetched
  <2>1. PICK r \in Outcomes(q.seen) :
          /\ reloads' = reloads \ {q} /\ inbox' = Append(inbox, Reloaded(q, r))
          /\ UNCHANGED <<db, cache, client, managerVars, up, entry, pending, busy, watched, downs,
                         loads, guildVars, strayed, counters>>
    BY <2>0
  <2>2. r \in Results
    BY OutcomesAre DEF ShardType, ClientType
  <2>3. Reloaded(q, r) \in Messages
    BY <2>2 DEF Reloaded, Messages, ShardType
  <2>4. inbox' \in Seq(Messages)
    BY <2>1, <2>3, OneMore DEF ShardType
  <2> QED BY <2>1, <2>4 DEF ClientType, ShardType, GuildType, CountType
<1>6. CASE ShardCrashes
  <2>1. client' \in [Clients -> Entries]
    <3>1. \A c \in Clients : [client[c] EXCEPT !.via = "manager"] \in Entries
      BY DEF ClientType, Entries
    <3> QED BY <1>6, <3>1 DEF ShardCrashes, ClientType
  <2>2. queue' \in SUBSET Requests
    <3>1. \A c \in Clients : Request(client[c].op, c, "manager") \in Requests
      BY DEF ClientType, Entries, Request, Requests
    <3> QED BY <1>6, <3>1 DEF ShardCrashes, ClientType
  <2>3. guild' \in [Guilds -> Procs]
    <3>1. \A p \in Guilds : Append(guild[p].mail, Leave("exit")) \in Seq(Letters)
      BY OneMore, LettersAre DEF GuildType, Procs
    <3>2. \A p \in Guilds : [guild[p] EXCEPT !.mail = Append(@, Leave("exit"))] \in Procs
      BY <3>1 DEF GuildType, Procs
    <3> QED BY <1>6, <3>2 DEF ShardCrashes, GuildType
  <2>4. CountType'
    BY <1>6, GuildManagerAssumption DEF ShardCrashes, CountType, GuildManagerAssumption
  <2>5. ShardType'
    BY <1>6, EmptySeq DEF ShardCrashes, ShardType
  <2> QED BY <1>6, <2>1, <2>2, <2>3, <2>4, <2>5 DEF ShardCrashes, ClientType, GuildType
<1> QED BY <1>1, <1>2, <1>3, <1>4, <1>5, <1>6

LEMMA GuildTypes ==
  ASSUME ClientType, ShardType, GuildType, CountType,
         NEW p \in Guilds, GuildStep(p) \/ GuildExits(p) \/ GuildCrashes(p)
  PROVE  ClientType' /\ ShardType' /\ GuildType' /\ CountType'
<1> USE DEF managerVars, fetchVars, counters
<1>1. CASE GuildStep(p)
  <2> DEFINE l == Head(guild[p].mail)
  <2>1. l \in Letters /\ Tail(guild[p].mail) \in Seq(Letters)
    BY <1>1, OneLess DEF GuildStep, GuildType, Procs
  <2>2. l.data \in SUBSET Writers /\ guild[p].data \in SUBSET Writers
    BY <2>1 DEF Letters, GuildType, Procs
  <2>3. CASE l.does \in {"stop", "exit"} /\ Dies(p) /\ UNCHANGED overwritten
    BY <1>1, <2>3, DiesType DEF GuildStep, ClientType, ShardType, GuildType, CountType
  <2>4. CASE /\ guild' = [guild EXCEPT ![p] = Exiting]
             /\ UNCHANGED <<name, watched, downs, overwritten>>
    <3>1. Exiting \in Procs
      BY EmptySeq DEF Exiting, Procs
    <3> QED BY <1>1, <2>4, <3>1 DEF GuildStep, ClientType, ShardType, GuildType, CountType
  <2>5. CASE /\ guild' = [guild EXCEPT ![p].mail = Tail(@),
                  ![p].data = IF l.does = "update" THEN @ \union l.data ELSE l.data]
             /\ overwritten' = IF l.does = "update" THEN overwritten
                               ELSE overwritten \union (guild[p].data \ l.data)
             /\ UNCHANGED <<name, watched, downs>>
    <3>1. guild' \in [Guilds -> Procs]
      BY <2>1, <2>2, <2>5 DEF GuildType, Procs
    <3>2. overwritten' \in SUBSET Writers
      BY <2>2, <2>5 DEF GuildType
    <3> QED BY <1>1, <2>5, <3>1, <3>2 DEF GuildStep, ClientType, ShardType, GuildType, CountType
  <2> QED BY <1>1, <2>3, <2>4, <2>5 DEF GuildStep
<1>2. CASE GuildExits(p)
  BY <1>2, DiesType DEF GuildExits, ClientType, ShardType, GuildType, CountType
<1>3. CASE GuildCrashes(p)
  <2>1. CountType'
    BY <1>3, GuildManagerAssumption DEF GuildCrashes, CountType, GuildManagerAssumption
  <2> QED BY <1>3, <2>1, DiesType DEF GuildCrashes, ClientType, ShardType, GuildType
<1> QED BY <1>1, <1>2, <1>3

LEMMA InitType == Init => TypeOK
<1> SUFFICES ASSUME Init PROVE ClientType /\ ShardType /\ GuildType /\ CountType
  BY TypeParts
<1>1. Client("idle", NoGuild) \in Entries
  BY DEF Client, Entries, Ops, Finds, Tags, Pids
<1>2. Idle \in Answers /\ Unborn \in Procs /\ <<>> \in Seq(Messages)
  BY EmptySeq DEF Idle, Answers, Unborn, Procs, Tags, Pids
<1>3. CountType
  BY GuildManagerAssumption DEF Init, CountType, GuildManagerAssumption
<1> QED BY <1>1, <1>2, <1>3 DEF Init, ClientType, ShardType, GuildType, Pids

LEMMA TypeStep == TypeOK /\ [Next]_vars => TypeOK'
<1> SUFFICES ASSUME TypeOK, [Next]_vars PROVE TypeOK'
  OBVIOUS
<1>0. ClientType /\ ShardType /\ GuildType /\ CountType
  BY TypeParts
<1>1. CASE UNCHANGED vars
  BY <1>1 DEF vars, managerVars, shardVars, fetchVars, guildVars, counters, TypeOK
<1>2. CASE Next
  <2>1. ClientType' /\ ShardType' /\ GuildType' /\ CountType'
    BY <1>0, <1>2, ClientTypes, ManagerTypes, HandleTypes, ShardTypes, GuildTypes DEF Next
  <2> QED BY <2>1 DEF TypeOK, ClientType, ShardType, GuildType, CountType, Pids, Entries, Answers,
                      Procs
<1> QED BY <1>1, <1>2

THEOREM TypeCorrect == Spec => []TypeOK
  BY InitType, TypeStep, PTL DEF Spec

-----------------------------------------------------------------------------
(***************************************************************************)
(* Who has the guild's name.  OneServes and EntryIsWatched hold together   *)
(* with what the shard may assume of the name: it is that of a live        *)
(* process, of the guild in its map if there is one, and of the guild it   *)
(* waits for, which was told to end.                                       *)
(***************************************************************************)
Ends == {"stop", "shutdown", "exit"}

NameLives    == name # NoGuild => Alive(name)
EntryHasName == entry \in Guilds => name \in {entry, NoGuild}
EndsTheNamed == busy.does \in {"stop", "shutdown"} =>
                  name \in {busy.pid, NoGuild} /\ (Running(busy.pid) => ToldToEnd(busy.pid))
DownIsEmpty  == ~up => entry = NoGuild

Types  == ClientType /\ ShardType /\ GuildType /\ CountType
Served == NameLives /\ EntryHasName /\ EndsTheNamed /\ DownIsEmpty /\ OneServes /\ EntryIsWatched

\* What a step may do to the guilds' mailboxes.
Keeps == \A q \in Guilds : guild'[q].st = guild[q].st /\ (ToldToEnd(q) => ToldToEnd(q)')

LEMMA Posting ==
  ASSUME GuildType, NEW p \in Guilds, NEW l \in Letters, guild' = Post(p, l)
  PROVE  Keeps /\ (l.does \in Ends /\ Running(p) => ToldToEnd(p)')
<1>1. CASE ~Running(p)
  BY <1>1 DEF Post, Keeps, ToldToEnd
<1>2. CASE Running(p)
  <2>1. guild[p].mail \in Seq(Letters)
    BY DEF GuildType, Procs
  <2>2. guild' = [guild EXCEPT ![p].mail = Append(@, l)]
    BY <1>2 DEF Post
  <2>3. \A q \in Guilds : q # p => guild'[q] = guild[q]
    BY <2>2 DEF GuildType
  <2>4. guild'[p].st = guild[p].st /\ guild'[p].mail = Append(guild[p].mail, l)
    BY <2>2 DEF GuildType, Procs
  <2>5. ToldToEnd(p) => ToldToEnd(p)'
    BY <2>1, <2>4, OneMore DEF ToldToEnd
  <2>6. l.does \in Ends => ToldToEnd(p)'
    BY <2>1, <2>4, OneMore DEF ToldToEnd, Ends
  <2>7. \A q \in Guilds : q # p => (ToldToEnd(q) => ToldToEnd(q)')
    BY <2>3 DEF ToldToEnd
  <2> QED BY <2>3, <2>4, <2>5, <2>6, <2>7 DEF Keeps
<1> QED BY <1>1, <1>2

LEMMA Untouched == ASSUME UNCHANGED guild PROVE Keeps
BY DEF Keeps, ToldToEnd

\* A step that only posts to guilds.
LEMMA OnlyPosts ==
  ASSUME Types, Served, Keeps, up' = TRUE \/ up' = up,
         UNCHANGED <<entry, busy, watched, downs, name>>
  PROVE  Served'
<1> USE DEF Served, Types, ShardType, GuildType, Pids
<1>1. NameLives' /\ EntryHasName' /\ DownIsEmpty'
  BY DEF NameLives, EntryHasName, DownIsEmpty, Keeps, Alive
<1>2. OneServes'
  BY DEF OneServes, Keeps, Running
<1>3. EndsTheNamed'
  BY DEF EndsTheNamed, Keeps, Running, Free, Rules
<1>4. EntryIsWatched'
  BY DEF EntryIsWatched, Keeps, Alive
<1> QED BY <1>1, <1>2, <1>3, <1>4

\* The shard takes the guild that has the name.
LEMMA Adopts ==
  ASSUME Types, Served, up, name # NoGuild, Adopt, UNCHANGED <<up, busy, downs, guild, name>>
  PROVE  Served'
<1> USE DEF Served, Types, ShardType, GuildType, Pids
<1>1. name \in Guilds /\ entry' = name /\ watched' = watched \union {name} /\ Alive(name)
  BY DEF Adopt, NameLives
<1>2. NameLives' /\ EntryHasName' /\ DownIsEmpty'
  BY <1>1 DEF NameLives, EntryHasName, DownIsEmpty, Alive
<1>3. OneServes' /\ EndsTheNamed'
  BY DEF OneServes, EndsTheNamed, Running, ToldToEnd
<1>4. EntryIsWatched'
  BY <1>1 DEF EntryIsWatched, Alive
<1> QED BY <1>2, <1>3, <1>4

\* The shard has no guild in its map.
LEMMA NoEntry ==
  ASSUME Types, Served, up, entry' \notin Guilds, UNCHANGED <<up, busy, guild, name>>
  PROVE  Served'
<1> USE DEF Served
<1>1. NameLives' /\ EntryHasName' /\ DownIsEmpty' /\ EntryIsWatched'
  BY DEF NameLives, EntryHasName, DownIsEmpty, EntryIsWatched, Alive
<1>2. OneServes' /\ EndsTheNamed'
  BY DEF OneServes, EndsTheNamed, Running, ToldToEnd
<1> QED BY <1>1, <1>2

\* A guild dies.
LEMMA Dying ==
  ASSUME Types, Served, NEW p \in Guilds, Dies(p), UNCHANGED <<up, entry, busy>>
  PROVE  Served'
<1> USE DEF Served, Types, ShardType, GuildType, Pids
<1>0. /\ guild'[p] = Dead /\ \A q \in Guilds : q # p => guild'[q] = guild[q]
      /\ name' \in {name, NoGuild} /\ name' # p
  BY Values DEF Dies
<1>1. \A q \in Guilds : /\ Running(q)' => q # p /\ Running(q)
                        /\ q # p => (Alive(q)' <=> Alive(q)) /\ (ToldToEnd(q)' <=> ToldToEnd(q))
  BY <1>0 DEF Running, Alive, ToldToEnd, Dead
<1>2. NameLives' /\ EntryHasName' /\ DownIsEmpty'
  BY <1>0, <1>1 DEF NameLives, EntryHasName, DownIsEmpty
<1>3. OneServes'
  BY <1>1 DEF OneServes, Dies
<1>4. EndsTheNamed'
  BY <1>0, <1>1 DEF EndsTheNamed, Free, Rules
<1>5. EntryIsWatched'
  BY <1>1 DEF EntryIsWatched, Dies
<1> QED BY <1>2, <1>3, <1>4, <1>5

\* A guild takes a message that does not end it.
LEMMA Reading ==
  ASSUME Types, NEW p \in Guilds, Running(p), guild[p].mail # <<>>,
         Head(guild[p].mail).does \notin Ends,
         guild'[p].mail = Tail(guild[p].mail), guild'[p].st = guild[p].st,
         \A q \in Guilds : q # p => guild'[q] = guild[q]
  PROVE  Keeps
<1>1. guild[p].mail \in Seq(Letters)
  BY DEF Types, GuildType, Procs
<1>2. ASSUME ToldToEnd(p) PROVE ToldToEnd(p)'
  <2>1. PICK i \in DOMAIN guild[p].mail : guild[p].mail[i].does \in Ends
    BY <1>2 DEF ToldToEnd, Ends
  <2>2. i # 1 /\ i \in 1..Len(guild[p].mail) /\ Len(guild[p].mail) \in Nat
    BY <1>1, <2>1, OneLess
  <2>3. i - 1 \in DOMAIN Tail(guild[p].mail) /\ Tail(guild[p].mail)[i - 1] = guild[p].mail[i]
    BY <1>1, <2>2, OneLess
  <2> QED BY <2>1, <2>3 DEF ToldToEnd, Ends
<1>3. \A q \in Guilds : q # p => (ToldToEnd(q) => ToldToEnd(q)')
  BY DEF ToldToEnd
<1> QED BY <1>2, <1>3 DEF Keeps

LEMMA ServedByClients ==
  ASSUME Types, Served,
         \/ \E w \in Writers : Write(w) \/ Dispatch(w)
         \/ \E c \in Writers \union Askers, op \in Finds : Ask(c, op)
         \/ \E a \in Admins, op \in Rules : Rule(a, op)
         \/ \E c \in Clients : GivesUp(c) \/ TakeAnswer(c)
  PROVE  Served'
<1> USE DEF shardVars, guildVars
<1>1. UNCHANGED <<up, entry, busy, watched, downs, name>>
  BY DEF Write, Dispatch, Ask, Rule, GivesUp, TakeAnswer
<1>2. CASE \E w \in Writers : Dispatch(w)
  <2>1. PICK w \in Writers : Dispatch(w)
    BY <1>2
  <2>2. CASE client[w].pid \in Guilds
    BY <1>1, <2>1, <2>2, LettersAre, Posting, OnlyPosts DEF Dispatch, Types
  <2>3. CASE client[w].pid \notin Guilds
    <3>1. guild' = [guild EXCEPT ![client[w].pid].mail = Append(@, Update(w))] \/ guild' = guild
      BY <2>1 DEF Dispatch, Post
    <3>2. guild' = guild
      BY <2>3, <3>1 DEF Types, GuildType
    <3> QED BY <1>1, <3>2, Untouched, OnlyPosts
  <2> QED BY <2>2, <2>3
<1>3. CASE ~\E w \in Writers : Dispatch(w)
  <2>1. UNCHANGED guild
    BY <1>3 DEF Write, Ask, Rule, GivesUp, TakeAnswer
  <2> QED BY <1>1, <2>1, Untouched, OnlyPosts
<1> QED BY <1>2, <1>3

LEMMA ServedByManager ==
  ASSUME Types, Served,
         ManagerTakes \/ ManagerAnswers \/ ManagerGivesUp \/ ShardRestarts \/ LoadEnds \/ ReloadFetched
  PROVE  Served'
<1>1. (up' = TRUE \/ up' = up) /\ UNCHANGED <<entry, busy, watched, downs, guild, name>>
  BY DEF ManagerTakes, ManagerAnswers, ManagerGivesUp, ShardRestarts, LoadEnds, ReloadFetched,
         shardVars, guildVars
<1> QED BY <1>1, Untouched, OnlyPosts

LEMMA ServedByFind ==
  ASSUME Types, Served, NEW m, Find(m)
  PROVE  Served'
<1>1. up /\ UNCHANGED <<up, busy, downs, guild, name>>
  BY DEF Find, Receives, guildVars
<1>2. CASE UNCHANGED <<entry, watched>>
  BY <1>1, <1>2, Untouched, OnlyPosts
<1>3. CASE Adopt /\ name # NoGuild
  BY <1>1, <1>3, Adopts
<1>4. CASE Fetches
  BY <1>1, <1>4, Values, NoEntry DEF Fetches
<1>5. entry = NoGuild \/ entry = Loading \/ entry \in Guilds
  BY DEF Types, ShardType
<1>6. CASE HandleStart(m)
  BY <1>2, <1>3, <1>4, <1>5, <1>6 DEF HandleStart
<1>7. CASE HandleLookup(m)
  BY <1>2, <1>3, <1>7 DEF HandleLookup
<1>8. CASE HandleEnsure(m)
  BY <1>2, <1>3, <1>4, <1>5, <1>8 DEF HandleEnsure
<1> QED BY <1>6, <1>7, <1>8 DEF Find

LEMMA ServedByStop ==
  ASSUME Types, Served, NEW m, Stop(m)
  PROVE  Served'
<1> USE DEF Served
<1>1. up /\ UNCHANGED <<up, entry, name>>
  BY DEF Stop, Receives
<1>2. CASE Target = NoGuild
  <2>1. UNCHANGED <<busy, watched, downs, guild>>
    BY <1>2 DEF Stop
  <2> QED BY <1>1, <2>1, Untouched, OnlyPosts
<1>3. CASE Target # NoGuild
  <2>0. PICK p \in Guilds : p = Target
    BY <1>3, TargetType DEF Types
  <2>1. /\ busy' = [req |-> m, does |-> m.op, pid |-> p] /\ m.op \in {"stop", "shutdown"}
        /\ guild' = Post(p, Leave(m.op))
    BY <1>3, <2>0 DEF Stop
  <2>3. Leave(m.op) \in Letters /\ Leave(m.op).does \in Ends
    BY <2>1, LettersAre DEF Leave, Ends
  <2>4. Keeps /\ (Running(p) => ToldToEnd(p)')
    BY <2>1, <2>3, Posting DEF Types
  <2>5. NameLives' /\ EntryHasName' /\ DownIsEmpty'
    BY <1>1, <2>4 DEF NameLives, EntryHasName, DownIsEmpty, Keeps, Alive, Types, GuildType, Pids
  <2>6. OneServes'
    BY <1>1, <2>4 DEF OneServes, Keeps, Running
  <2>7. busy'.pid = p /\ busy'.does \in {"stop", "shutdown"}
    BY <2>1
  <2>8. EndsTheNamed'
    <3>1. name \in {p, NoGuild}
      BY <1>1, <2>0 DEF Target, EntryHasName
    <3>2. Running(p)' => ToldToEnd(p)'
      BY <2>4 DEF Running, Keeps
    <3> QED BY <1>1, <2>7, <3>1, <3>2 DEF EndsTheNamed, Running, ToldToEnd
  <2>9. EntryIsWatched'
    BY <1>1, <2>0, <2>7 DEF EntryIsWatched, Target
  <2> QED BY <2>5, <2>6, <2>8, <2>9
<1> QED BY <1>2, <1>3

LEMMA ServedByReload ==
  ASSUME Types, Served, NEW m, Reload(m)
  PROVE  Served'
<1>1. up /\ UNCHANGED <<up, busy, downs, guild, name>>
  BY DEF Reload, Receives, guildVars
<1>2. (UNCHANGED <<entry, watched>>) \/ (Adopt /\ name # NoGuild)
  BY DEF Reload, Target
<1> QED BY <1>1, <1>2, Untouched, OnlyPosts, Adopts

LEMMA ServedByFetched ==
  ASSUME Types, Served, NEW m, TakeFetched(m)
  PROVE  Served'
<1> USE DEF Served
<1>1. up /\ UNCHANGED <<up, busy, downs>> /\ busy = Free
  BY DEF TakeFetched, Receives
<1>2. CASE Adopt /\ name # NoGuild /\ UNCHANGED <<guild, name>>
  BY <1>1, <1>2, Adopts
<1>3. CASE StartFails
  BY <1>1, <1>3, Values, NoEntry DEF StartFails
<1>4. CASE name = NoGuild /\ Starts(m.res.data)
  <2> DEFINE p == made + 1
  <2>1. p \in Guilds /\ p # NoGuild
    BY <1>4, GuildManagerAssumption, Values DEF Starts, Types, CountType, Guilds, GuildManagerAssumption
  <2>2. /\ guild'[p].st = "running" /\ \A q \in Guilds : q # p => guild'[q] = guild[q]
        /\ name' = p /\ entry' = p /\ watched' = watched \union {p}
    BY <1>4, <2>1 DEF Starts, Types, GuildType
  <2>3. NameLives' /\ EntryHasName' /\ DownIsEmpty' /\ EntryIsWatched'
    BY <1>1, <2>1, <2>2 DEF NameLives, EntryHasName, DownIsEmpty, EntryIsWatched, Alive
  <2>4. OneServes'
    BY <1>4, <2>1, <2>2, Values DEF OneServes, Running, ToldToEnd
  <2>5. EndsTheNamed'
    BY <1>1 DEF EndsTheNamed, Free
  <2> QED BY <2>3, <2>4, <2>5
<1>5. \/ Adopt /\ name # NoGuild /\ UNCHANGED <<guild, name>>
      \/ StartFails
      \/ name = NoGuild /\ Starts(m.res.data)
  BY DEF TakeFetched
<1> QED BY <1>2, <1>3, <1>4, <1>5

LEMMA ServedByReloaded ==
  ASSUME Types, Served, NEW m \in Messages, TakeReloaded(m)
  PROVE  Served'
<1> USE DEF Served, Types
<1>1. up /\ busy = Free /\ UNCHANGED <<up, entry, watched, downs, name>>
  BY DEF TakeReloaded, Receives
<1>2. m.pid \in Guilds /\ Replace(m.res.data) \in Letters
  BY Received, ResultsAre, LettersAre DEF TakeReloaded
<1>3. Keeps
  BY <1>2, Posting, Untouched DEF TakeReloaded
<1>4. busy'.does \notin {"stop", "shutdown"}
  BY <1>1 DEF TakeReloaded, Free
<1>5. NameLives' /\ EntryHasName' /\ DownIsEmpty'
  BY <1>1, <1>3 DEF NameLives, EntryHasName, DownIsEmpty, Keeps, Alive, GuildType, Pids
<1>6. OneServes' /\ EndsTheNamed'
  BY <1>1, <1>3, <1>4 DEF OneServes, EndsTheNamed, Keeps, Running
<1>7. EntryIsWatched'
  BY <1>1, <1>3 DEF EntryIsWatched, Keeps, Alive, Free
<1> QED BY <1>5, <1>6, <1>7

LEMMA ServedByShard ==
  ASSUME Types, Served, Stopped \/ ReloadEnds \/ TakeDown \/ ShardCrashes
  PROVE  Served'
<1> USE DEF Served
<1>1. CASE Stopped
  <2>1. /\ up /\ busy.does \in {"stop", "shutdown"} /\ UNCHANGED <<up, watched, downs, guild>>
        /\ name' = NoGuild /\ entry' \notin Guilds /\ busy' = Free
    BY <1>1, Values DEF Stopped
  <2>2. NameLives' /\ EntryHasName' /\ DownIsEmpty' /\ EndsTheNamed' /\ EntryIsWatched'
    BY <2>1 DEF NameLives, EntryHasName, DownIsEmpty, EndsTheNamed, EntryIsWatched, Free
  <2>3. OneServes'
    <3> SUFFICES ASSUME NEW q \in Guilds, Running(q)', ~ToldToEnd(q)' PROVE FALSE
      BY DEF OneServes
    <3>1. Running(q) /\ ~ToldToEnd(q)
      BY <2>1 DEF Running, ToldToEnd
    <3>2. q = busy.pid
      BY <2>1, <3>1, Values DEF OneServes, EndsTheNamed
    <3> QED BY <2>1, <3>1, <3>2 DEF EndsTheNamed
  <2> QED BY <2>2, <2>3
<1>2. CASE ReloadEnds
  <2>1. busy.does = "reload" /\ busy' = Free /\ UNCHANGED <<up, entry, watched, downs, guild, name>>
    BY <1>2 DEF ReloadEnds, guildVars
  <2>2. NameLives' /\ EntryHasName' /\ DownIsEmpty' /\ EndsTheNamed' /\ EntryIsWatched'
    BY <2>1 DEF NameLives, EntryHasName, DownIsEmpty, EndsTheNamed, EntryIsWatched, Free, Alive
  <2>3. OneServes'
    BY <2>1 DEF OneServes, Running, ToldToEnd
  <2> QED BY <2>2, <2>3
<1>3. CASE TakeDown
  <2>1. PICK p \in downs : downs' = downs \ {p} /\ entry' = IF entry = p THEN NoGuild ELSE entry
    BY <1>3 DEF TakeDown
  <2>2. up /\ UNCHANGED <<up, busy, watched, guild, name>>
    BY <1>3 DEF TakeDown, guildVars
  <2>3. NameLives' /\ EntryHasName' /\ DownIsEmpty'
    BY <2>1, <2>2, Values DEF NameLives, EntryHasName, DownIsEmpty, Alive
  <2>4. OneServes' /\ EndsTheNamed'
    BY <2>2 DEF OneServes, EndsTheNamed, Running, ToldToEnd
  <2>5. EntryIsWatched'
    BY <2>1, <2>2, Values DEF EntryIsWatched, Alive
  <2> QED BY <2>3, <2>4, <2>5
<1>4. CASE ShardCrashes
  <2>1. ~up' /\ entry' = NoGuild /\ busy' = Free /\ name' = name
        /\ guild' = [p \in Guilds |-> IF Running(p) THEN [guild[p] EXCEPT !.mail = Append(@, Leave("exit"))]
                                                 ELSE guild[p]]
    BY <1>4 DEF ShardCrashes
  <2>2. Keeps
    <3> SUFFICES ASSUME NEW q \in Guilds
                 PROVE  guild'[q].st = guild[q].st /\ (ToldToEnd(q) => ToldToEnd(q)')
      BY DEF Keeps
    <3>1. CASE ~Running(q)
      BY <2>1, <3>1 DEF ToldToEnd
    <3>2. CASE Running(q)
      <4>1. guild[q].mail \in Seq(Letters) /\ Leave("exit") \in Letters
        BY LettersAre DEF Types, GuildType, Procs
      <4>2. guild'[q].st = guild[q].st /\ guild'[q].mail = Append(guild[q].mail, Leave("exit"))
        BY <2>1, <3>2 DEF Types, GuildType, Procs
      <4> QED BY <4>1, <4>2, OneMore DEF ToldToEnd
    <3> QED BY <3>1, <3>2
  <2>3. NameLives' /\ EntryHasName' /\ DownIsEmpty' /\ EndsTheNamed' /\ EntryIsWatched'
    BY <2>1, <2>2, Values DEF NameLives, EntryHasName, DownIsEmpty, EndsTheNamed, EntryIsWatched,
       Free, Alive, Keeps, Types, GuildType, Pids
  <2>4. OneServes'
    BY <2>1, <2>2 DEF OneServes, Keeps, Running
  <2> QED BY <2>3, <2>4
<1> QED BY <1>1, <1>2, <1>3, <1>4

LEMMA ServedByGuild ==
  ASSUME Types, Served, NEW p \in Guilds, GuildStep(p) \/ GuildExits(p) \/ GuildCrashes(p)
  PROVE  Served'
<1>1. UNCHANGED <<up, entry, busy>>
  BY DEF GuildStep, GuildExits, GuildCrashes
<1>2. CASE Dies(p)
  BY <1>1, <1>2, Dying
<1>3. CASE GuildStep(p) /\ ~Dies(p)
  <2> USE DEF Served, Types, ShardType, GuildType, Pids
  <2>1. Running(p) /\ guild[p].mail # <<>> /\ UNCHANGED <<watched, downs, name>>
    BY <1>3 DEF GuildStep
  <2>2. CASE guild' = [guild EXCEPT ![p] = Exiting]
    <3>1. /\ guild'[p] = Exiting /\ \A q \in Guilds : q # p => guild'[q] = guild[q]
      BY <2>2
    <3>2. \A q \in Guilds : /\ Running(q)' => q # p /\ Running(q)
                            /\ q # p => (ToldToEnd(q)' <=> ToldToEnd(q))
                            /\ Alive(q) => Alive(q)'
      BY <3>1 DEF Running, Alive, ToldToEnd, Exiting
    <3>3. NameLives' /\ EntryHasName' /\ DownIsEmpty' /\ EntryIsWatched'
      BY <1>1, <2>1, <3>2 DEF NameLives, EntryHasName, DownIsEmpty, EntryIsWatched
    <3>4. OneServes'
      BY <2>1, <3>2 DEF OneServes
    <3>5. EndsTheNamed'
      BY <1>1, <2>1, <3>2 DEF EndsTheNamed, Free, Rules
    <3> QED BY <3>3, <3>4, <3>5
  <2>3. CASE guild' # [guild EXCEPT ![p] = Exiting]
    <3> DEFINE l == Head(guild[p].mail)
    <3>1. /\ l.does \in {"update", "reload"}
          /\ guild' = [guild EXCEPT ![p].mail = Tail(@),
               ![p].data = IF l.does = "update" THEN @ \union l.data ELSE l.data]
      BY <1>3, <2>3 DEF GuildStep
    <3>2. /\ guild'[p].mail = Tail(guild[p].mail) /\ guild'[p].st = guild[p].st
          /\ \A q \in Guilds : q # p => guild'[q] = guild[q]
      BY <3>1 DEF Procs
    <3>3. Keeps
      BY <2>1, <3>1, <3>2, Reading DEF Ends
    <3> QED BY <1>1, <2>1, <3>3, OnlyPosts
  <2> QED BY <2>2, <2>3
<1> QED BY <1>2, <1>3 DEF GuildExits, GuildCrashes

LEMMA InitServed == Init => Served
<1> SUFFICES ASSUME Init PROVE Served
  OBVIOUS
<1>1. NameLives /\ EntryHasName /\ EndsTheNamed /\ DownIsEmpty
  BY Values DEF Init, NameLives, EntryHasName, EndsTheNamed, DownIsEmpty, Free
<1>2. OneServes /\ EntryIsWatched
  BY Values DEF Init, OneServes, EntryIsWatched, Running, Unborn
<1> QED BY <1>1, <1>2 DEF Served

LEMMA ServedStep == TypeOK /\ Served /\ [Next]_vars => Served'
<1> SUFFICES ASSUME TypeOK, Served, [Next]_vars PROVE Served'
  OBVIOUS
<1>0. Types
  BY TypeParts DEF Types
<1>1. CASE UNCHANGED vars
  BY <1>0, <1>1, Untouched, OnlyPosts DEF vars, shardVars, guildVars
<1>2. CASE Handles
  <2>1. Head(inbox) \in Messages
    BY <1>0, <1>2, OneLess DEF Handles, Types, ShardType
  <2> QED BY <1>0, <1>2, <2>1, ServedByFind, ServedByStop, ServedByReload, ServedByFetched,
             ServedByReloaded DEF Handles
<1> QED BY <1>0, <1>1, <1>2, ServedByClients, ServedByManager, ServedByShard, ServedByGuild DEF Next

\* Two processes never serve the guild.
THEOREM OneServesHolds == Spec => []OneServes
<1>1. Served => OneServes
  BY DEF Served
<1> QED BY <1>1, InitType, TypeStep, InitServed, ServedStep, PTL DEF Spec

\* The shard hears of the end of the guild in its map.
THEOREM EntryIsWatchedHolds == Spec => []EntryIsWatched
<1>1. Served => EntryIsWatched
  BY DEF Served
<1> QED BY <1>1, InitType, TypeStep, InitServed, ServedStep, PTL DEF Spec

-----------------------------------------------------------------------------
(***************************************************************************)
(* Who waits for the guild to load.                                        *)
(***************************************************************************)
\* At most one result of a fetch is in the mailbox, and none comes or goes.
SameResults == (Arrived' = {} <=> Arrived = {}) /\ \A i, j \in Arrived' : i = j

LEMMA SentMore ==
  ASSUME inbox \in Seq(Messages), WaitersHaveAFetch,
         UNCHANGED inbox \/ \E r \in Messages : r.op # "fetched" /\ inbox' = Append(inbox, r)
  PROVE  SameResults
<1>1. CASE UNCHANGED inbox
  BY <1>1 DEF SameResults, WaitersHaveAFetch, Arrived
<1>2. CASE \E r \in Messages : r.op # "fetched" /\ inbox' = Append(inbox, r)
  <2>1. PICK r \in Messages : r.op # "fetched" /\ inbox' = Append(inbox, r)
    BY <1>2
  <2>2. Arrived' = Arrived
    BY <2>1, OneMore DEF Arrived
  <2> QED BY <2>2 DEF SameResults, WaitersHaveAFetch
<1> QED BY <1>1, <1>2

\* The shard takes a message.
LEMMA Taken ==
  ASSUME inbox \in Seq(Messages), WaitersHaveAFetch, inbox # <<>>, inbox' = Tail(inbox)
  PROVE  /\ Head(inbox).op # "fetched" => SameResults
         /\ Head(inbox).op = "fetched" => Arrived # {} /\ Arrived' = {}
<1>1. /\ Head(inbox) = inbox[1] /\ Len(inbox) \in Nat \ {0} /\ DOMAIN inbox = 1..Len(inbox)
      /\ DOMAIN Tail(inbox) = 1..(Len(inbox) - 1)
      /\ \A i \in 1..(Len(inbox) - 1) : Tail(inbox)[i] = inbox[i + 1]
  BY OneLess
<1>2. \A i \in Arrived' : i \in Nat \ {0} /\ i + 1 \in Arrived
  BY <1>1 DEF Arrived
<1>3. \A i \in Arrived : i \in Nat /\ (i # 1 => i - 1 \in Arrived')
  BY <1>1 DEF Arrived
<1>4. 1 \in Arrived <=> Head(inbox).op = "fetched"
  BY <1>1 DEF Arrived
<1>5. \A i, j \in Arrived : i = j
  BY DEF WaitersHaveAFetch
<1>6. \A i, j \in Arrived' : i = j
  BY <1>2, <1>5
<1>7. Head(inbox).op # "fetched" => SameResults
  BY <1>2, <1>3, <1>4, <1>6 DEF SameResults
<1>8. Head(inbox).op = "fetched" => Arrived' = {}
  BY <1>2, <1>4, <1>5
<1> QED BY <1>4, <1>7, <1>8

\* A step that starts and ends no fetch.
LEMMA SameFetch ==
  ASSUME WaitersHaveAFetch, SameResults, UNCHANGED <<entry, loads>>, name' \in {name, NoGuild},
         pending' = pending \/ entry = Loading
  PROVE  WaitersHaveAFetch'
BY DEF WaitersHaveAFetch, SameResults

\* A step that adopts a guild, or forgets one.
LEMMA NoFetch ==
  ASSUME WaitersHaveAFetch, SameResults, UNCHANGED <<loads, pending>>,
         entry # Loading, entry' # Loading
  PROVE  WaitersHaveAFetch'
BY DEF WaitersHaveAFetch, SameResults

LEMMA FetchesOne ==
  ASSUME WaitersHaveAFetch, SameResults, entry = NoGuild, name = NoGuild, name' = NoGuild, Fetches
  PROVE  WaitersHaveAFetch'
<1>1. loads = {} /\ Arrived = {} /\ loads' = {[seen |-> db]} /\ entry' = Loading
  BY Values DEF WaitersHaveAFetch, Fetches
<1> QED BY <1>1 DEF WaitersHaveAFetch, SameResults

LEMMA WaitByOthers ==
  ASSUME Types, Served, WaitersHaveAFetch,
         \/ \E w \in Writers : Write(w) \/ Dispatch(w)
         \/ \E c \in Writers \union Askers, op \in Finds : Ask(c, op)
         \/ \E a \in Admins, op \in Rules : Rule(a, op)
         \/ \E c \in Clients : GivesUp(c) \/ TakeAnswer(c)
         \/ ManagerTakes \/ ManagerAnswers \/ ManagerGivesUp \/ ReloadFetched \/ ReloadEnds
         \/ \E p \in Guilds : GuildStep(p) \/ GuildExits(p) \/ GuildCrashes(p)
  PROVE  WaitersHaveAFetch'
<1> USE DEF shardVars, fetchVars, guildVars
<1>1. UNCHANGED <<entry, loads, pending>> /\ name' \in {name, NoGuild}
  BY DEF Write, Dispatch, Ask, Rule, GivesUp, TakeAnswer, ManagerTakes, ManagerAnswers,
         ManagerGivesUp, ReloadFetched, ReloadEnds, GuildStep, GuildExits, GuildCrashes, Dies
<1>2. UNCHANGED inbox \/ \E r \in Messages : r.op # "fetched" /\ inbox' = Append(inbox, r)
  <2>1. \A op \in Ops, c \in Clients, via \in {"direct", "manager"} :
           Request(op, c, via) \in Messages /\ Request(op, c, via).op # "fetched"
    BY Values DEF Request, Requests, Messages
  <2>2. ASSUME NEW c \in Clients, NEW op \in Ops, Sent(c, op) \/ SentToManager(c, op)
        PROVE  UNCHANGED inbox \/ \E r \in Messages : r.op # "fetched" /\ inbox' = Append(inbox, r)
    BY <2>1, <2>2 DEF Sent, SentToManager
  <2>3. CASE \E w \in Writers : Write(w) \/ Dispatch(w)
    BY <2>3 DEF Write, Dispatch
  <2>4. CASE \E c \in Writers \union Askers, op \in Finds : Ask(c, op)
    <3>1. PICK c \in Writers \union Askers, op \in Finds : Ask(c, op)
      BY <2>4
    <3>2. c \in Clients /\ op \in Ops
      BY Values DEF Clients
    <3> QED BY <2>2, <3>1, <3>2 DEF Ask
  <2>5. CASE \E a \in Admins, op \in Rules : Rule(a, op)
    BY <2>5 DEF Rule, SentToManager
  <2>6. CASE \E c \in Clients : GivesUp(c) \/ TakeAnswer(c)
    <3>1. PICK c \in Clients : GivesUp(c) \/ TakeAnswer(c)
      BY <2>6
    <3>2. "start" \in Ops /\ "stop" \in Ops
      BY DEF Ops, Finds, Rules
    <3> QED BY <2>2, <3>1, <3>2 DEF GivesUp, TakeAnswer
  <2>7. CASE ManagerTakes
    <3>1. PICK r \in queue : UNCHANGED inbox \/ inbox' = Append(inbox, r)
      BY <2>7 DEF ManagerTakes
    <3>2. r \in Requests /\ r \in Messages /\ r.op # "fetched"
      BY Values DEF Types, ClientType, Messages
    <3> QED BY <3>1, <3>2
  <2>8. CASE ReloadFetched
    <3>1. PICK q \in reloads : \E r \in Outcomes(q.seen) : inbox' = Append(inbox, Reloaded(q, r))
      BY <2>8 DEF ReloadFetched
    <3>2. PICK r \in Outcomes(q.seen) : inbox' = Append(inbox, Reloaded(q, r))
      BY <3>1
    <3>3. r \in Results
      BY OutcomesAre DEF Types, ShardType, ClientType
    <3>4. Reloaded(q, r) \in Messages /\ Reloaded(q, r).op # "fetched"
      BY <3>3 DEF Reloaded, Messages, Types, ShardType
    <3> QED BY <3>2, <3>4
  <2>9. CASE \/ ManagerAnswers \/ ManagerGivesUp \/ ReloadEnds
             \/ \E p \in Guilds : GuildStep(p) \/ GuildExits(p) \/ GuildCrashes(p)
    BY <2>9 DEF ManagerAnswers, ManagerGivesUp, ReloadEnds, GuildStep, GuildExits, GuildCrashes
  <2> QED BY <2>3, <2>4, <2>5, <2>6, <2>7, <2>8, <2>9
<1> QED BY <1>1, <1>2, SentMore, SameFetch DEF Types, ShardType

LEMMA WaitByShard ==
  ASSUME Types, Served, WaitersHaveAFetch,
         Stopped \/ TakeDown \/ ShardCrashes \/ ShardRestarts \/ LoadEnds
  PROVE  WaitersHaveAFetch'
<1> USE DEF fetchVars
<1>1. CASE Stopped
  <2>1. UNCHANGED <<inbox, loads, pending>> /\ name' = NoGuild
        /\ entry' = IF entry \in Guilds THEN NoGuild ELSE entry
    BY <1>1 DEF Stopped
  <2>2. SameResults
    BY <2>1, SentMore DEF Types, ShardType
  <2> QED BY <2>1, <2>2, Values, SameFetch, NoFetch
<1>2. CASE TakeDown
  <2>1. UNCHANGED <<inbox, loads, pending, name>>
        /\ (entry' = entry \/ (entry \in Guilds /\ entry' = NoGuild))
    BY <1>2 DEF TakeDown, guildVars, Types, ShardType
  <2>2. SameResults
    BY <2>1, SentMore DEF Types, ShardType
  <2> QED BY <2>1, <2>2, Values, SameFetch, NoFetch
<1>3. CASE ShardCrashes
  <2>1. inbox' = <<>> /\ loads' = {} /\ pending' = {} /\ entry' = NoGuild
    BY <1>3 DEF ShardCrashes
  <2>2. Arrived' = {}
    BY <2>1 DEF Arrived
  <2> QED BY <2>1, <2>2, Values DEF WaitersHaveAFetch
<1>4. CASE ShardRestarts
  <2>1. /\ entry = NoGuild /\ UNCHANGED <<entry, loads, pending, name>>
        /\ inbox' = <<>> \/ (serving.req # NoRequest /\ inbox' = <<serving.req>>)
    BY <1>4 DEF ShardRestarts, guildVars, Served, DownIsEmpty
  <2>2. serving.req # NoRequest => serving.req.op # "fetched"
    BY Values DEF Types, ClientType, Answers
  <2>3. Arrived' = {}
    BY <2>1, <2>2 DEF Arrived
  <2> QED BY <2>1, <2>3, Values DEF WaitersHaveAFetch
<1>5. CASE LoadEnds
  <2>1. PICK l \in loads : \E r \in Outcomes(l.seen) :
           loads' = loads \ {l} /\ inbox' = Append(inbox, Fetched(r))
    BY <1>5 DEF LoadEnds
  <2>2. PICK r \in Outcomes(l.seen) : loads' = loads \ {l} /\ inbox' = Append(inbox, Fetched(r))
    BY <2>1
  <2>3. UNCHANGED <<entry, pending, name>>
    BY <1>5 DEF LoadEnds, guildVars
  <2>4. Fetched(r) \in Messages /\ Fetched(r).op = "fetched"
    BY OutcomesAre DEF Types, ShardType, ClientType, Fetched, Messages
  <2>5. Arrived = {} /\ loads' = {} /\ entry = Loading
    BY <2>2 DEF WaitersHaveAFetch
  <2>6. Arrived' = {Len(inbox) + 1}
    BY <2>2, <2>4, <2>5, OneMore DEF Arrived, Types, ShardType
  <2> QED BY <2>3, <2>5, <2>6 DEF WaitersHaveAFetch
<1> QED BY <1>1, <1>2, <1>3, <1>4, <1>5

LEMMA WaitByHandles ==
  ASSUME Types, Served, WaitersHaveAFetch, Handles
  PROVE  WaitersHaveAFetch'
<1> USE DEF fetchVars
<1> DEFINE m == Head(inbox)
<1>1. /\ inbox # <<>> /\ inbox' = Tail(inbox)
      /\ m.op # "fetched" => SameResults
      /\ m.op = "fetched" => Arrived # {} /\ Arrived' = {}
  BY Taken DEF Handles, Find, Stop, Reload, TakeFetched, TakeReloaded, Receives, Types, ShardType
<1>2. CASE Find(m)
  <2>1. m.op # "fetched" /\ UNCHANGED name
    BY <1>2 DEF Find, HandleStart, HandleLookup, HandleEnsure, guildVars
  <2>2. CASE UNCHANGED <<entry, loads>> /\ (pending' = pending \/ entry = Loading)
    BY <1>1, <2>1, <2>2, SameFetch
  <2>3. CASE entry = NoGuild /\ name # NoGuild /\ Adopt /\ UNCHANGED <<loads, pending>>
    <3>1. entry' # Loading /\ entry # Loading
      BY <2>3, Values DEF Adopt, Types, GuildType, Pids
    <3> QED BY <1>1, <2>1, <2>3, <3>1, NoFetch
  <2>4. CASE entry = NoGuild /\ name = NoGuild /\ Fetches
    BY <1>1, <2>1, <2>4, FetchesOne
  <2>5. entry = NoGuild \/ entry = Loading \/ entry \in Guilds
    BY DEF Types, ShardType
  <2>6. CASE HandleStart(m)
    BY <2>2, <2>3, <2>4, <2>5, <2>6 DEF HandleStart
  <2>7. CASE HandleLookup(m)
    BY <2>2, <2>3, <2>7 DEF HandleLookup
  <2>8. CASE HandleEnsure(m)
    BY <2>2, <2>3, <2>4, <2>5, <2>8 DEF HandleEnsure
  <2> QED BY <1>2, <2>6, <2>7, <2>8 DEF Find
<1>3. CASE Stop(m)
  BY <1>1, <1>3, SameFetch DEF Stop
<1>4. CASE Reload(m)
  <2>1. m.op # "fetched" /\ UNCHANGED <<name, loads, pending>>
    BY <1>4 DEF Reload, guildVars
  <2>2. CASE UNCHANGED entry
    BY <1>1, <2>1, <2>2, SameFetch
  <2>3. CASE entry' # entry
    <3>1. entry \notin Guilds /\ name # NoGuild /\ entry' = name
      BY <1>4, <2>3 DEF Reload, Target, Adopt
    <3>2. entry' # Loading /\ entry # Loading
      BY <3>1, Values DEF Types, GuildType, Pids, WaitersHaveAFetch
    <3> QED BY <1>1, <2>1, <3>2, NoFetch
  <2> QED BY <2>2, <2>3
<1>5. CASE TakeFetched(m)
  <2>1. loads = {} /\ Arrived' = {} /\ UNCHANGED loads /\ pending' = {}
    BY <1>1, <1>5 DEF TakeFetched, WaitersHaveAFetch
  <2>2. entry' # Loading
    BY <1>5, GuildManagerAssumption, Values
       DEF TakeFetched, Adopt, StartFails, Starts, Types, GuildType, CountType, Pids, Loading,
           GuildManagerAssumption
  <2> QED BY <2>1, <2>2 DEF WaitersHaveAFetch
<1>6. CASE TakeReloaded(m)
  BY <1>1, <1>6, SameFetch DEF TakeReloaded
<1> QED BY <1>2, <1>3, <1>4, <1>5, <1>6 DEF Handles

LEMMA WaitStep == TypeOK /\ Served /\ WaitersHaveAFetch /\ [Next]_vars => WaitersHaveAFetch'
<1> SUFFICES ASSUME TypeOK, Served, WaitersHaveAFetch, [Next]_vars PROVE WaitersHaveAFetch'
  OBVIOUS
<1>0. Types
  BY TypeParts DEF Types
<1>1. CASE UNCHANGED vars
  BY <1>0, <1>1, SentMore, SameFetch DEF vars, shardVars, fetchVars, guildVars, Types, ShardType
<1> QED BY <1>0, <1>1, WaitByOthers, WaitByShard, WaitByHandles DEF Next

LEMMA InitWaits == Init => WaitersHaveAFetch
BY Values DEF Init, WaitersHaveAFetch, Arrived

\* Who waits for the guild to load waits for a fetch that is under way or has arrived.
THEOREM WaitersHaveAFetchHolds == Spec => []WaitersHaveAFetch
  BY InitType, TypeStep, InitServed, ServedStep, InitWaits, WaitStep, PTL DEF Spec

=============================================================================
