------------------------- MODULE GuildConnect_proofs -------------------------
(***************************************************************************)
(* Theorems about GuildConnect, for every set of sessions and guilds and   *)
(* every limit.  The session's half: connecting keeps no memory of a guild *)
(* but its messages and timers, and yet no guild is forgotten and no       *)
(* attempt stays open.  The guild's half: every place for a worker is given*)
(* back, what is pending is served, who has ended leaves, and who takes    *)
(* itself for connected is known.                                          *)
(***************************************************************************)
EXTENDS GuildConnect, FiniteSetTheorems, SequenceTheorems, TLAPS

-----------------------------------------------------------------------------
(* Lemmas about bags. *)

\* What is added is in the bag, with what was there before.
LEMMA BagAddSet ==
  ASSUME NEW B, NEW x
  PROVE  BagToSet(Ext!BagAdd(B, x)) = BagToSet(B) \union {x}
BY DEF BagToSet, Ext!BagAdd

\* Removing takes nothing away but the element removed.
LEMMA BagRemoveSet ==
  ASSUME NEW B, NEW x
  PROVE  /\ BagToSet(Ext!BagRemove(B, x)) \subseteq BagToSet(B)
         /\ BagToSet(B) \subseteq BagToSet(Ext!BagRemove(B, x)) \union {x}
BY DEF BagToSet, Ext!BagRemove

\* The empty bag, and the bag of the first message.
LEMMA BagStart ==
  /\ BagToSet(EmptyBag) = {}
  /\ BagToSet(SetToBag({0})) = {0}
BY DEF BagToSet, EmptyBag, SetToBag

\* A bag with something added is not empty.
LEMMA BagAddNotEmpty ==
  ASSUME NEW B, NEW x
  PROVE  Ext!BagAdd(B, x) # EmptyBag
<1>1. x \in BagToSet(Ext!BagAdd(B, x))
  BY BagAddSet
<1> QED BY <1>1, BagStart

-----------------------------------------------------------------------------
(***************************************************************************)
(* Shape: the part of the types the invariants rest on.                    *)
(***************************************************************************)
LinkShape ==
  /\ DOMAIN guilds = Links /\ DOMAIN peer = Links /\ DOMAIN timeouts = Links
  /\ DOMAIN connectors = Links /\ DOMAIN replies = Links /\ DOMAIN mail = Links
  /\ inflight \in [Links -> Nat \union {None}]
  /\ DOMAIN wakeups = Links /\ \A l \in Links : BagToSet(wakeups[l]) \subseteq Nat

PresenceShape ==
  /\ alive \in [Sessions -> BOOLEAN] /\ member \in [Links -> BOOLEAN]
  /\ notices \in [Links -> Seq({"join", "leave"})]

GuildShape ==
  /\ DOMAIN pid = Guilds /\ DOMAIN inbox = Guilds /\ DOMAIN workers = Guilds
  /\ DOMAIN downs = Guilds /\ DOMAIN entry = Links

\* Sending oneself a message with an attempt keeps the shape.
LEMMA WakeupShape ==
  ASSUME LinkShape, NEW l \in Links, NEW a \in Nat,
         wakeups' = [wakeups EXCEPT ![l] = Ext!BagAdd(wakeups[l], a)]
  PROVE  DOMAIN wakeups' = Links /\ \A k \in Links : BagToSet(wakeups'[k]) \subseteq Nat
BY BagAddSet DEF LinkShape

\* Retrying or giving up sends one message, and empties no bag.
LEMMA RetryOrFailEffect ==
  ASSUME LinkShape, NEW l \in Links, NEW a \in Nat \union {None}, RetryOrFail(l, a)
  PROVE  \E b \in Nat : wakeups' = [wakeups EXCEPT ![l] = Ext!BagAdd(wakeups[l], b)]
<1>1. a + 1 \in Nat
  BY DEF None
<1> QED BY <1>1 DEF RetryOrFail, SetWakeups

\* A message made to wait is sent again, or an attempt begins and is in flight.
LEMMA MaybeSpawnEffect ==
  ASSUME LinkShape, NEW l \in Links, NEW a \in Nat, NEW rest,
         BagToSet(rest) \subseteq BagToSet(wakeups[l]), MaybeSpawn(l, a, rest)
  PROVE  /\ DOMAIN wakeups' = Links
         /\ \A k \in Links : BagToSet(wakeups'[k]) \subseteq Nat
         /\ inflight' \in [Links -> Nat \union {None}] /\ DOMAIN connectors' = Links
<1>1. CASE inflight[l] # None /\ SetWakeups(l, rest) /\ UNCHANGED <<inflight, connectors>>
  BY <1>1 DEF SetWakeups, LinkShape
<1>2. CASE SetWakeups(l, Ext!BagAdd(rest, a)) /\ UNCHANGED <<inflight, connectors>>
  BY <1>2, BagAddSet DEF SetWakeups, LinkShape
<1>3. CASE /\ inflight' = [inflight EXCEPT ![l] = a]
           /\ connectors' = [connectors EXCEPT ![l] = Ext!BagAdd(@, a)]
           /\ SetWakeups(l, rest)
  BY <1>3 DEF SetWakeups, LinkShape
<1> QED BY <1>1, <1>2, <1>3 DEF MaybeSpawn

LEMMA LinkShapeStep == LinkShape /\ [Next]_vars => LinkShape'
<1> SUFFICES ASSUME LinkShape, [Next]_vars PROVE LinkShape'
  OBVIOUS
<1>0. ASSUME NEW l \in Links, NEW b \in Nat,
             wakeups' = [wakeups EXCEPT ![l] = Ext!BagAdd(wakeups[l], b)]
      PROVE  DOMAIN wakeups' = Links /\ \A k \in Links : BagToSet(wakeups'[k]) \subseteq Nat
  BY <1>0, WakeupShape
<1>1. ASSUME NEW l \in Links, GuildConnect(l) PROVE LinkShape'
  <2>1. PICK a \in BagToSet(wakeups[l]) :
          LET rest == Ext!BagRemove(wakeups[l], a) IN
          \/ SetWakeups(l, rest) /\ UNCHANGED <<guilds, inflight, connectors>>
          \/ /\ SetWakeups(l, Ext!BagAdd(rest, Min2(a + 1, MaxAttempt)))
             /\ UNCHANGED <<guilds, inflight, connectors>>
          \/ guilds' = [guilds EXCEPT ![l] = "undefined"] /\ MaybeSpawn(l, 0, rest)
          \/ MaybeSpawn(l, a, rest) /\ UNCHANGED guilds
    BY <1>1 DEF GuildConnect
  <2> DEFINE rest == Ext!BagRemove(wakeups[l], a)
  <2>2. BagToSet(rest) \subseteq BagToSet(wakeups[l]) /\ a \in Nat
    BY BagRemoveSet DEF LinkShape
  <2>3. UNCHANGED <<peer, timeouts, replies, mail>>
    BY <1>1 DEF GuildConnect
  <2>4. Min2(a + 1, MaxAttempt) \in Nat
    BY <2>2, LimitsAssumption DEF LimitsAssumption, Min2
  <2> HIDE DEF rest
  <2>5. CASE SetWakeups(l, rest) /\ UNCHANGED <<guilds, inflight, connectors>>
    BY <2>2, <2>3, <2>5 DEF SetWakeups, LinkShape
  <2>6. CASE /\ SetWakeups(l, Ext!BagAdd(rest, Min2(a + 1, MaxAttempt)))
             /\ UNCHANGED <<guilds, inflight, connectors>>
    BY <2>2, <2>3, <2>4, <2>6, BagAddSet DEF SetWakeups, LinkShape
  <2>7. CASE guilds' = [guilds EXCEPT ![l] = "undefined"] /\ MaybeSpawn(l, 0, rest)
    BY <2>2, <2>3, <2>7, MaybeSpawnEffect DEF LinkShape
  <2>8. CASE MaybeSpawn(l, a, rest) /\ UNCHANGED guilds
    BY <2>2, <2>3, <2>8, MaybeSpawnEffect DEF LinkShape
  <2> QED BY <2>1, <2>5, <2>6, <2>7, <2>8 DEF rest
<1>2. ASSUME NEW l \in Links, ConnectorResult(l) PROVE LinkShape'
  <2>1. PICK r \in BagToSet(replies[l]) :
          /\ replies' = [replies EXCEPT ![l] = Ext!BagRemove(@, r)]
          /\ IF inflight[l] # r.attempt THEN UNCHANGED linkVars
             ELSE /\ inflight' = [inflight EXCEPT ![l] = None]
                  /\ \/ /\ SetWakeups(l, Ext!BagAdd(wakeups[l], Min2(r.attempt + 1, EasyAttempt)))
                        /\ UNCHANGED guilds
                     \/ RetryOrFail(l, r.attempt) /\ UNCHANGED guilds
                     \/ /\ guilds' = [guilds EXCEPT ![l] = "cached_unavailable"]
                        /\ SetWakeups(l, Ext!BagAdd(wakeups[l], Min2(r.attempt + 1, MaxAttempt)))
                  /\ UNCHANGED peer
    BY <1>2 DEF ConnectorResult, linkVars
  <2>2. UNCHANGED <<timeouts, connectors, mail>>
    BY <1>2 DEF ConnectorResult
  <2>3. CASE inflight[l] # r.attempt
    BY <2>1, <2>2, <2>3 DEF LinkShape, linkVars
  <2>4. CASE inflight[l] = r.attempt
    <3>1. r.attempt \in Nat \union {None}
      BY <2>4 DEF LinkShape
    <3>2. Min2(r.attempt + 1, EasyAttempt) \in Nat /\ Min2(r.attempt + 1, MaxAttempt) \in Nat
      BY <3>1, LimitsAssumption DEF LimitsAssumption, Min2, None
    <3>3. \E b \in Nat : wakeups' = [wakeups EXCEPT ![l] = Ext!BagAdd(wakeups[l], b)]
      BY <2>1, <2>4, <3>1, <3>2, RetryOrFailEffect DEF SetWakeups
    <3>4. DOMAIN guilds' = Links
      BY <2>1, <2>4 DEF LinkShape
    <3> QED BY <2>1, <2>2, <2>4, <3>3, <3>4, <1>0 DEF LinkShape
  <2> QED BY <2>3, <2>4
<1>3. ASSUME NEW l \in Links, GuildConnectTimeout(l) PROVE LinkShape'
  <2>1. PICK a \in BagToSet(timeouts[l]) :
          /\ timeouts' = [timeouts EXCEPT ![l] = Ext!BagRemove(@, a)]
          /\ \/ UNCHANGED <<inflight, wakeups>>
             \/ /\ inflight[l] = a /\ inflight' = [inflight EXCEPT ![l] = None]
                /\ RetryOrFail(l, a)
    BY <1>3 DEF GuildConnectTimeout
  <2>2. UNCHANGED <<guilds, peer, connectors, replies, mail>>
    BY <1>3 DEF GuildConnectTimeout
  <2>3. CASE UNCHANGED <<inflight, wakeups>>
    BY <2>1, <2>2, <2>3 DEF LinkShape
  <2>4. CASE /\ inflight[l] = a /\ inflight' = [inflight EXCEPT ![l] = None]
             /\ RetryOrFail(l, a)
    <3>1. \E b \in Nat : wakeups' = [wakeups EXCEPT ![l] = Ext!BagAdd(wakeups[l], b)]
      BY <2>4, RetryOrFailEffect DEF LinkShape
    <3> QED BY <2>1, <2>2, <2>4, <3>1, <1>0 DEF LinkShape
  <2> QED BY <2>1, <2>3, <2>4
<1>4. ASSUME NEW l \in Links, FromGuild(l) PROVE LinkShape'
  <2>1. DOMAIN guilds' = Links /\ DOMAIN peer' = Links /\ DOMAIN mail' = Links
    BY <1>4 DEF FromGuild, ReceiveResult, ReceiveForcedLeave, ReceiveDown, ReceiveDispatch,
                SetMail, linkVars, LinkShape
  <2>2. UNCHANGED <<timeouts, connectors, replies>>
    BY <1>4 DEF FromGuild
  <2>3. \/ UNCHANGED wakeups
        \/ \E b \in Nat : wakeups' = [wakeups EXCEPT ![l] = Ext!BagAdd(wakeups[l], b)]
    <3>1. ASSUME NEW a, inflight[l] = a, RetryOrFail(l, a)
          PROVE  \E b \in Nat : wakeups' = [wakeups EXCEPT ![l] = Ext!BagAdd(wakeups[l], b)]
      BY <3>1, RetryOrFailEffect DEF LinkShape
    <3> QED BY <1>4, <3>1 DEF FromGuild, ReceiveResult, ReceiveForcedLeave, ReceiveDown,
                             ReceiveDispatch, SetWakeups, linkVars
  <2>4. UNCHANGED inflight \/ inflight' = [inflight EXCEPT ![l] = None]
    BY <1>4 DEF FromGuild, ReceiveResult, ReceiveForcedLeave, ReceiveDown, ReceiveDispatch,
                linkVars
  <2> QED BY <2>1, <2>2, <2>3, <2>4, <1>0 DEF LinkShape
<1>5. ASSUME NEW l \in Links, FromPresence(l) PROVE LinkShape'
  <2>1. \/ UNCHANGED wakeups
        \/ wakeups' = [wakeups EXCEPT ![l] = Ext!BagAdd(wakeups[l], 0)]
    BY <1>5 DEF FromPresence, SetWakeups
  <2> QED BY <1>5, <2>1, <1>0 DEF FromPresence, SetMail, LinkShape
<1>6. ASSUME NEW l \in Links, Connector(l) \/ Moves(l) PROVE LinkShape'
  BY <1>6 DEF Connector, Moves, Answer, LinkShape, linkVars
<1>7. ASSUME NEW s \in Sessions, Ready(s) PROVE LinkShape'
  BY <1>7 DEF Ready, LinkShape, linkVars
<1>8. ASSUME NEW s \in Sessions, SessionEnds(s) PROVE LinkShape'
  BY <1>8, BagStart DEF SessionEnds, LinkShape
<1>9. ASSUME NEW g \in Guilds, GuildStarts(g) \/ GuildCrashes(g) \/ Enqueue(g)
      PROVE  LinkShape'
  BY <1>9 DEF GuildStarts, GuildCrashes, GuildEnds, Enqueue, LinkShape, linkVars
<1>10. ASSUME NEW g \in Guilds, Finalize(g) PROVE LinkShape'
  BY <1>10 DEF Finalize, LinkShape, linkVars
<1>11. ASSUME NEW g \in Guilds, SessionDown(g) PROVE LinkShape'
  BY <1>11 DEF SessionDown, GuildEnds, LinkShape, linkVars
<1>12. ASSUME NEW g \in Guilds,
              GuildEvent(g) \/ BecomesUnavailable(g) \/ BecomesAvailable(g)
       PROVE  LinkShape'
  BY <1>12 DEF GuildEvent, BecomesUnavailable, BecomesAvailable, ToAdmitted, LinkShape, linkVars
<1>13. CASE UNCHANGED vars
  BY <1>13 DEF vars, linkVars, LinkShape
<1> QED
  BY <1>1, <1>2, <1>3, <1>4, <1>5, <1>6, <1>7, <1>8, <1>9, <1>10, <1>11, <1>12, <1>13 DEF Next

\* The actions that touch neither who is alive nor who is a member.
LEMMA PresenceShapeStep == PresenceShape /\ [Next]_vars => PresenceShape'
<1> SUFFICES ASSUME PresenceShape, [Next]_vars PROVE PresenceShape'
  OBVIOUS
<1>0. ASSUME UNCHANGED <<alive, member, notices>> PROVE PresenceShape'
  BY <1>0 DEF PresenceShape
<1>1. ASSUME NEW l \in Links, \/ GuildConnect(l) \/ ConnectorResult(l) \/ Connector(l)
                              \/ GuildConnectTimeout(l) \/ FromGuild(l)
      PROVE  PresenceShape'
  BY <1>0, <1>1 DEF GuildConnect, ConnectorResult, Connector, GuildConnectTimeout, FromGuild
<1>2. ASSUME NEW l \in Links, FromPresence(l) PROVE PresenceShape'
  <2>1. notices[l] \in Seq({"join", "leave"}) /\ notices[l] # <<>>
    BY <1>2 DEF FromPresence, PresenceShape
  <2>2. Tail(notices[l]) \in Seq({"join", "leave"})
    BY <2>1
  <2> QED BY <1>2, <2>2 DEF FromPresence, PresenceShape
<1>3. ASSUME NEW l \in Links, Moves(l) PROVE PresenceShape'
  <2>1. member' \in [Links -> BOOLEAN]
    BY <1>3, Zenon DEF Moves, PresenceShape
  <2>2. notices' \in [Links -> Seq({"join", "leave"})]
    BY <1>3 DEF Moves, PresenceShape
  <2>3. UNCHANGED alive
    BY <1>3 DEF Moves
  <2> QED BY <2>1, <2>2, <2>3, Zenon DEF PresenceShape
<1>4. ASSUME NEW s \in Sessions, Ready(s) PROVE PresenceShape'
  BY <1>0, <1>4 DEF Ready
<1>5. ASSUME NEW s \in Sessions, SessionEnds(s) PROVE PresenceShape'
  <2>1. alive' \in [Sessions -> BOOLEAN]
    BY <1>5, Zenon DEF SessionEnds, PresenceShape
  <2>2. notices' \in [Links -> Seq({"join", "leave"})]
    BY <1>5 DEF SessionEnds, PresenceShape
  <2>3. UNCHANGED member
    BY <1>5 DEF SessionEnds, viewVars
  <2> QED BY <2>1, <2>2, <2>3, Zenon DEF PresenceShape
<1>6. ASSUME NEW g \in Guilds, \/ GuildStarts(g) \/ GuildCrashes(g) \/ Enqueue(g) \/ Finalize(g)
                               \/ SessionDown(g) \/ GuildEvent(g) \/ BecomesUnavailable(g)
                               \/ BecomesAvailable(g)
      PROVE  PresenceShape'
  BY <1>0, <1>6 DEF GuildStarts, GuildCrashes, Enqueue, Finalize, SessionDown, GuildEvent,
                    BecomesUnavailable, BecomesAvailable
<1>7. CASE UNCHANGED vars
  BY <1>0, <1>7 DEF vars
<1> QED BY <1>1, <1>2, <1>3, <1>4, <1>5, <1>6, <1>7 DEF Next

-----------------------------------------------------------------------------
(***************************************************************************)
(* A guild that has no process has no mailbox and no state.                *)
(***************************************************************************)
Homeless ==
  \A g \in Guilds : pid[g] = NoPid =>
    /\ BagToSet(inbox[g]) = {} /\ BagToSet(workers[g]) = {} /\ downs[g] = {}
    /\ \A l \in Links : l[2] = g => entry[l] = "absent"

GuildState == GuildShape /\ Homeless

\* Starting workers concerns one guild's workers, queue and count.
LEMMA StartWorkersEffect ==
  ASSUME NEW g, NEW q, NEW b, NEW ws, StartWorkers(g, q, b, ws)
  PROVE  \E bag : workers' = [workers EXCEPT ![g] = bag]
BY Zenon DEF StartWorkers, Start

LEMMA GuildStateStep == GuildState /\ [Next]_vars => GuildState'
<1> SUFFICES ASSUME GuildState, [Next]_vars PROVE GuildState'
  OBVIOUS
<1> USE DEF GuildState, GuildShape, Homeless
<1>0. ASSUME UNCHANGED <<pid, guildVars, inbox>> PROVE GuildState'
  BY <1>0 DEF guildVars
<1>1. ASSUME NEW l \in Links, \/ GuildConnect(l) \/ ConnectorResult(l) \/ GuildConnectTimeout(l)
                              \/ FromGuild(l) \/ FromPresence(l) \/ Moves(l)
      PROVE  GuildState'
  BY <1>0, <1>1 DEF GuildConnect, ConnectorResult, GuildConnectTimeout, FromGuild,
                    FromPresence, Moves
<1>2. ASSUME NEW l \in Links, Connector(l) PROVE GuildState'
  <2>1. UNCHANGED <<pid, entry, workers, downs>>
    BY <1>2 DEF Connector, guildVars
  <2>2. \/ UNCHANGED inbox
        \/ /\ pid[l[2]] # NoPid
           /\ \E bag : inbox' = [inbox EXCEPT ![l[2]] = bag]
    BY <1>2 DEF Connector
  <2> QED BY <2>1, <2>2
<1>3. ASSUME NEW s \in Sessions, Ready(s) PROVE GuildState'
  BY <1>0, <1>3 DEF Ready
<1>4. ASSUME NEW s \in Sessions, SessionEnds(s) PROVE GuildState'
  <2>1. \A g \in Guilds : pid[g] = NoPid => downs'[g] = {}
    BY <1>4 DEF SessionEnds, Monitors, Links
  <2> QED BY <1>4, <2>1 DEF SessionEnds
<1>5. ASSUME NEW g \in Guilds, GuildStarts(g) PROVE GuildState'
  BY <1>5 DEF GuildStarts, guildVars
<1>6. ASSUME NEW g \in Guilds, GuildEnds(g) PROVE GuildState'
  BY <1>6, BagStart DEF GuildEnds
<1>7. ASSUME NEW g \in Guilds, Enqueue(g) PROVE GuildState'
  <2>1. PICK c \in BagToSet(inbox[g]) :
          /\ inbox' = [inbox EXCEPT ![g] = Ext!BagRemove(@, c)]
          /\ \/ UNCHANGED guildVars
             \/ /\ \E e : entry' = [entry EXCEPT ![<<c.session, g>>] = e]
                /\ \E d : downs' = [downs EXCEPT ![g] = d]
                /\ \E w : workers' = [workers EXCEPT ![g] = w]
    BY <1>7, StartWorkersEffect DEF Enqueue
  <2>2. UNCHANGED pid
    BY <1>7 DEF Enqueue
  <2>3. pid[g] # NoPid
    BY <2>1
  <2>4. DOMAIN inbox' = Guilds /\ \A h \in Guilds : h # g => inbox'[h] = inbox[h]
    BY <2>1
  <2>5. CASE UNCHANGED guildVars
    BY <2>2, <2>3, <2>4, <2>5 DEF guildVars
  <2>6. CASE /\ \E e : entry' = [entry EXCEPT ![<<c.session, g>>] = e]
             /\ \E d : downs' = [downs EXCEPT ![g] = d]
             /\ \E w : workers' = [workers EXCEPT ![g] = w]
    <3>1. DOMAIN downs' = Guilds /\ \A h \in Guilds : h # g => downs'[h] = downs[h]
      BY <2>6
    <3>2. DOMAIN workers' = Guilds /\ \A h \in Guilds : h # g => workers'[h] = workers[h]
      BY <2>6
    <3>3. DOMAIN entry' = Links /\ \A l \in Links : l[2] # g => entry'[l] = entry[l]
      BY <2>6
    <3> QED BY <2>2, <2>3, <2>4, <3>1, <3>2, <3>3
  <2> QED BY <2>1, <2>5, <2>6
<1>8. ASSUME NEW g \in Guilds, Finalize(g) PROVE GuildState'
  <2>1. PICK w \in BagToSet(workers[g]) :
          /\ StartWorkers(g, queue[g], busy[g] - 1, Ext!BagRemove(workers[g], w))
          /\ entry' = [entry EXCEPT ![<<w.session, g>>] = "admitted"] \/ entry' = entry
    BY <1>8, Zenon DEF Finalize
  <2>2. UNCHANGED <<pid, inbox, downs>>
    BY <1>8 DEF Finalize
  <2>3. pid[g] # NoPid
    BY <2>1
  <2>4. DOMAIN workers' = Guilds /\ \A h \in Guilds : h # g => workers'[h] = workers[h]
    BY <2>1, StartWorkersEffect
  <2>5. DOMAIN entry' = Links /\ \A l \in Links : l[2] # g => entry'[l] = entry[l]
    BY <2>1
  <2> QED BY <2>2, <2>3, <2>4, <2>5
<1>9. ASSUME NEW g \in Guilds, SessionDown(g) PROVE GuildState'
  BY <1>9, <1>6 DEF SessionDown, Links
<1>10. ASSUME NEW g \in Guilds, GuildEvent(g) \/ BecomesAvailable(g) PROVE GuildState'
  BY <1>0, <1>10 DEF GuildEvent, BecomesAvailable
<1>11. ASSUME NEW g \in Guilds, BecomesUnavailable(g) PROVE GuildState'
  BY <1>11 DEF BecomesUnavailable
<1>12. CASE UNCHANGED vars
  BY <1>0, <1>12 DEF vars
<1> QED
  BY <1>1, <1>2, <1>3, <1>4, <1>5, <1>6, <1>7, <1>8, <1>9, <1>10, <1>11, <1>12
     DEF Next, GuildCrashes

-----------------------------------------------------------------------------
(***************************************************************************)
(* Nothing reaches a session that has ended.                               *)
(***************************************************************************)
Gone(l) ==
  /\ inflight[l] = None /\ peer[l] = NoPid /\ mail[l] = <<>> /\ notices[l] = <<>>
  /\ BagToSet(wakeups[l]) = {} /\ BagToSet(timeouts[l]) = {} /\ BagToSet(replies[l]) = {}

DeadGetNothing == \A l \in Links : ~alive[l[1]] => Gone(l)

\* A step of one link that leaves a link alone leaves it gone.
LEMMA GoneFrame ==
  ASSUME NEW k, Gone(k),
         inflight'[k] = inflight[k], peer'[k] = peer[k], mail'[k] = mail[k],
         notices'[k] = notices[k], wakeups'[k] = wakeups[k],
         timeouts'[k] = timeouts[k], replies'[k] = replies[k]
  PROVE  Gone(k)'
BY DEF Gone

LEMMA DeadGetNothingStep ==
  LinkShape /\ PresenceShape /\ GuildState /\ DeadGetNothing /\ [Next]_vars => DeadGetNothing'
<1> SUFFICES ASSUME LinkShape, PresenceShape, GuildState, DeadGetNothing, [Next]_vars,
                    NEW k \in Links, ~alive[k[1]]'
             PROVE  Gone(k)'
  BY DEF DeadGetNothing
<1>0. ASSUME UNCHANGED <<alive, inflight, peer, mail, notices, wakeups, timeouts, replies>>
      PROVE  Gone(k)'
  BY <1>0 DEF DeadGetNothing, Gone
<1>1. ASSUME NEW l \in Links,
             \/ GuildConnect(l) \/ ConnectorResult(l) \/ GuildConnectTimeout(l)
             \/ FromGuild(l) \/ FromPresence(l)
      PROVE  Gone(k)'
  <2>1. UNCHANGED alive
    BY <1>1 DEF GuildConnect, ConnectorResult, GuildConnectTimeout, FromGuild, FromPresence
  <2>2. Gone(k)
    BY <2>1 DEF DeadGetNothing
  <2>3. ~Gone(l)
    BY <1>1 DEF GuildConnect, ConnectorResult, GuildConnectTimeout, FromGuild, FromPresence, Gone
  <2>4. k # l
    BY <2>2, <2>3
  <2>5. inflight'[k] = inflight[k] /\ wakeups'[k] = wakeups[k]
    BY <1>1, <2>4 DEF GuildConnect, ConnectorResult, GuildConnectTimeout, FromGuild, FromPresence,
       MaybeSpawn, SetWakeups, RetryOrFail, ReceiveResult, ReceiveForcedLeave, ReceiveDown,
       ReceiveDispatch, linkVars, LinkShape
  <2>6. peer'[k] = peer[k] /\ mail'[k] = mail[k]
    BY <1>1, <2>4 DEF GuildConnect, ConnectorResult, GuildConnectTimeout, FromGuild, FromPresence,
       SetMail, ReceiveResult, ReceiveForcedLeave, ReceiveDown, ReceiveDispatch, linkVars, LinkShape
  <2>7. timeouts'[k] = timeouts[k] /\ replies'[k] = replies[k] /\ notices'[k] = notices[k]
    BY <1>1, <2>4 DEF GuildConnect, ConnectorResult, GuildConnectTimeout, FromGuild, FromPresence,
       LinkShape, PresenceShape
  <2> QED BY <2>2, <2>5, <2>6, <2>7, GoneFrame
<1>2. ASSUME NEW l \in Links, Connector(l) PROVE Gone(k)'
  <2>1. UNCHANGED <<alive, inflight, peer, wakeups, mail, notices>>
    BY <1>2 DEF Connector, linkVars
  <2>2. Gone(k)
    BY <2>1 DEF DeadGetNothing
  <2>3. timeouts'[k] = timeouts[k] /\ replies'[k] = replies[k]
    BY <1>2, <2>1 DEF Connector, Answer, LinkShape
  <2> QED BY <2>1, <2>2, <2>3, GoneFrame
<1>3. ASSUME NEW l \in Links, Moves(l) PROVE Gone(k)'
  <2>1. UNCHANGED <<alive, inflight, peer, wakeups, mail, timeouts, replies>>
    BY <1>3 DEF Moves, linkVars
  <2>2. Gone(k)
    BY <2>1 DEF DeadGetNothing
  <2>3. notices'[k] = notices[k]
    BY <1>3, <2>1 DEF Moves, PresenceShape
  <2> QED BY <2>1, <2>2, <2>3, GoneFrame
<1>4. ASSUME NEW s \in Sessions, Ready(s) PROVE Gone(k)'
  BY <1>0, <1>4 DEF Ready, linkVars
<1>5. ASSUME NEW s \in Sessions, SessionEnds(s) PROVE Gone(k)'
  <2>1. CASE k[1] = s
    BY <1>5, <2>1, BagStart DEF SessionEnds, Gone
  <2>2. CASE k[1] # s
    <3>1. alive'[k[1]] = alive[k[1]]
      BY <1>5, <2>2, Zenon DEF SessionEnds, PresenceShape, Links
    <3>2. Gone(k)
      BY <3>1, Zenon DEF DeadGetNothing
    <3> QED BY <1>5, <2>2, <3>2, GoneFrame DEF SessionEnds
  <2> QED BY <2>1, <2>2
<1>6. ASSUME NEW g \in Guilds, \/ GuildStarts(g) \/ Enqueue(g) PROVE Gone(k)'
  BY <1>0, <1>6 DEF GuildStarts, Enqueue, linkVars
<1>7. ASSUME NEW g \in Guilds, UNCHANGED <<alive, linkVars, timeouts, replies, notices>>,
             pid[g] # NoPid, GuildEnds(g)
      PROVE  Gone(k)'
  <2>1. Gone(k)
    BY <1>7 DEF DeadGetNothing
  <2>2. mail'[k] = mail[k]
    BY <1>7, <2>1 DEF GuildEnds, Gone
  <2> QED BY <1>7, <2>1, <2>2, GoneFrame DEF linkVars
<1>8. ASSUME NEW g \in Guilds, GuildCrashes(g) PROVE Gone(k)'
  BY <1>7, <1>8 DEF GuildCrashes
<1>9. ASSUME NEW g \in Guilds, SessionDown(g) PROVE Gone(k)'
  <2>1. pid[g] # NoPid
    BY <1>9 DEF SessionDown, GuildState, Homeless
  <2>2. UNCHANGED <<alive, linkVars, timeouts, replies, notices>>
    BY <1>9 DEF SessionDown
  <2>3. GuildEnds(g) \/ UNCHANGED mail
    BY <1>9 DEF SessionDown
  <2> QED BY <1>0, <1>7, <2>1, <2>2, <2>3 DEF linkVars
<1>10. ASSUME NEW g \in Guilds, Finalize(g) PROVE Gone(k)'
  <2>1. UNCHANGED <<alive, linkVars, timeouts, replies, notices>>
    BY <1>10 DEF Finalize
  <2>2. Gone(k)
    BY <2>1 DEF DeadGetNothing
  <2>3. mail'[k] = mail[k]
    <3>1. PICK w \in BagToSet(workers[g]) :
            \/ UNCHANGED mail
            \/ \E m : mail' = [mail EXCEPT ![<<w.session, g>>] =
                                IF alive[w.session] THEN Append(@, m) ELSE @]
      BY <1>10, Zenon DEF Finalize
    <3> QED BY <2>1, <3>1 DEF LinkShape
  <2> QED BY <2>1, <2>2, <2>3, GoneFrame DEF linkVars
<1>11. ASSUME NEW g \in Guilds,
              GuildEvent(g) \/ BecomesUnavailable(g) \/ BecomesAvailable(g)
       PROVE  Gone(k)'
  <2>1. UNCHANGED <<alive, linkVars, timeouts, replies, notices>>
    BY <1>11 DEF GuildEvent, BecomesUnavailable, BecomesAvailable
  <2>2. Gone(k)
    BY <2>1 DEF DeadGetNothing
  <2>3. mail'[k] = mail[k]
    BY <1>11, <2>1 DEF GuildEvent, BecomesUnavailable, BecomesAvailable, ToAdmitted
  <2> QED BY <2>1, <2>2, <2>3, GoneFrame DEF linkVars
<1>12. CASE UNCHANGED vars
  BY <1>0, <1>12 DEF vars, linkVars
<1> QED
  BY <1>1, <1>2, <1>3, <1>4, <1>5, <1>6, <1>8, <1>9, <1>10, <1>11, <1>12 DEF Next

-----------------------------------------------------------------------------
(***************************************************************************)
(* What can end the attempt under way on a link.                           *)
(***************************************************************************)
Ends(l) ==
  \/ inflight[l] \in BagToSet(timeouts[l]) \/ inflight[l] \in BagToSet(connectors[l])
  \/ \E r \in BagToSet(replies[l]) : r.attempt = inflight[l]

Resolves == \A l \in Links : inflight[l] # None => Ends(l)

LEMMA ResolvesIsInvariant == Resolves <=> InflightResolves
BY DEF Resolves, InflightResolves, Ends, BagIn

\* A step that leaves a link's attempt alone leaves what can end it.
LEMMA EndsFrame ==
  ASSUME NEW k, inflight[k] # None => Ends(k),
         inflight'[k] = inflight[k] \/ inflight'[k] = None,
         BagToSet(timeouts[k]) \subseteq BagToSet(timeouts'[k]),
         BagToSet(connectors[k]) \subseteq BagToSet(connectors'[k]),
         BagToSet(replies[k]) \subseteq BagToSet(replies'[k])
  PROVE  inflight'[k] # None => Ends(k)'
BY DEF Ends

LEMMA ResolvesStep ==
  LinkShape /\ PresenceShape /\ DeadGetNothing /\ Resolves /\ [Next]_vars => Resolves'
<1> SUFFICES ASSUME LinkShape, PresenceShape, DeadGetNothing, Resolves, [Next]_vars,
                    NEW k \in Links
             PROVE  inflight'[k] # None => Ends(k)'
  BY DEF Resolves
<1>0. inflight[k] # None => Ends(k)
  BY DEF Resolves
<1>1. ASSUME UNCHANGED <<inflight, timeouts, connectors, replies>>
      PROVE  inflight'[k] # None => Ends(k)'
  BY <1>0, <1>1, EndsFrame
<1>2. ASSUME NEW l \in Links, GuildConnect(l) PROVE inflight'[k] # None => Ends(k)'
  <2>1. \/ UNCHANGED <<inflight, connectors>>
        \/ \E a : /\ inflight' = [inflight EXCEPT ![l] = a]
                 /\ connectors' = [connectors EXCEPT ![l] = Ext!BagAdd(@, a)]
    BY <1>2 DEF GuildConnect, MaybeSpawn
  <2>2. UNCHANGED <<timeouts, replies>>
    BY <1>2 DEF GuildConnect
  <2>3. ASSUME NEW a, inflight' = [inflight EXCEPT ![l] = a],
               connectors' = [connectors EXCEPT ![l] = Ext!BagAdd(@, a)]
        PROVE  inflight'[k] # None => Ends(k)'
    <3>1. CASE k = l
      BY <2>3, <3>1, BagAddSet DEF Ends, LinkShape
    <3>2. CASE k # l
      BY <1>0, <2>2, <2>3, <3>2, EndsFrame DEF LinkShape
    <3> QED BY <3>1, <3>2
  <2> QED BY <1>1, <2>1, <2>2, <2>3
<1>3. ASSUME NEW l \in Links, ConnectorResult(l) PROVE inflight'[k] # None => Ends(k)'
  <2>1. PICK r \in BagToSet(replies[l]) :
          /\ replies' = [replies EXCEPT ![l] = Ext!BagRemove(@, r)]
          /\ \/ inflight[l] # r.attempt /\ UNCHANGED inflight
             \/ inflight' = [inflight EXCEPT ![l] = None]
    BY <1>3 DEF ConnectorResult, linkVars
  <2>2. UNCHANGED <<timeouts, connectors>>
    BY <1>3 DEF ConnectorResult
  <2>3. CASE k # l
    BY <1>0, <2>1, <2>2, <2>3, EndsFrame DEF LinkShape
  <2>4. CASE k = l
    BY <1>0, <2>1, <2>2, <2>4, BagRemoveSet DEF Ends, LinkShape
  <2> QED BY <2>3, <2>4
<1>4. ASSUME NEW l \in Links, GuildConnectTimeout(l) PROVE inflight'[k] # None => Ends(k)'
  <2>1. PICK a \in BagToSet(timeouts[l]) :
          /\ timeouts' = [timeouts EXCEPT ![l] = Ext!BagRemove(@, a)]
          /\ \/ inflight[l] # a /\ UNCHANGED inflight
             \/ inflight' = [inflight EXCEPT ![l] = None]
    BY <1>4 DEF GuildConnectTimeout
  <2>2. UNCHANGED <<replies, connectors>>
    BY <1>4 DEF GuildConnectTimeout
  <2>3. CASE k # l
    BY <1>0, <2>1, <2>2, <2>3, EndsFrame DEF LinkShape
  <2>4. CASE k = l
    BY <1>0, <2>1, <2>2, <2>4, BagRemoveSet DEF Ends, LinkShape
  <2> QED BY <2>3, <2>4
<1>5. ASSUME NEW l \in Links, FromGuild(l) PROVE inflight'[k] # None => Ends(k)'
  <2>1. UNCHANGED inflight \/ inflight' = [inflight EXCEPT ![l] = None]
    BY <1>5 DEF FromGuild, ReceiveResult, ReceiveForcedLeave, ReceiveDown, ReceiveDispatch,
                linkVars
  <2>2. UNCHANGED <<timeouts, replies, connectors>>
    BY <1>5 DEF FromGuild
  <2> QED BY <1>0, <2>1, <2>2, EndsFrame DEF LinkShape
<1>6. ASSUME NEW l \in Links, Connector(l) PROVE inflight'[k] # None => Ends(k)'
  <2>1. UNCHANGED <<alive, inflight>>
    BY <1>6 DEF Connector, linkVars
  <2>2. PICK a \in BagToSet(connectors[l]) :
          /\ connectors' = [connectors EXCEPT ![l] = Ext!BagRemove(@, a)]
          /\ \/ /\ timeouts' = [timeouts EXCEPT ![l] = IF alive[l[1]] THEN Ext!BagAdd(@, a) ELSE @]
                /\ UNCHANGED replies
             \/ UNCHANGED timeouts /\ \E what : Answer(l, a, what)
    BY <1>6 DEF Connector
  <2>3. CASE k # l
    BY <1>0, <2>1, <2>2, <2>3, EndsFrame DEF LinkShape, Answer
  <2>4. CASE k = l /\ ~alive[l[1]]
    BY <2>1, <2>4 DEF DeadGetNothing, Gone
  <2>5. CASE k = l /\ alive[l[1]]
    <3>1. BagToSet(connectors[k]) \subseteq BagToSet(connectors'[k]) \union {a}
      BY <2>2, <2>5, BagRemoveSet DEF LinkShape
    <3>2. BagToSet(timeouts[k]) \subseteq BagToSet(timeouts'[k])
      BY <2>2, <2>5, BagAddSet DEF LinkShape
    <3>3. BagToSet(replies[k]) \subseteq BagToSet(replies'[k])
      <4>1. ASSUME NEW what, Answer(l, a, what)
            PROVE  replies'[k] = Ext!BagAdd(replies[k], [attempt |-> a, is |-> what])
        BY <2>5, <4>1 DEF LinkShape, Answer
      <4>2. ASSUME NEW x, replies'[k] = Ext!BagAdd(replies[k], x)
            PROVE  BagToSet(replies[k]) \subseteq BagToSet(replies'[k])
        BY <4>2, BagAddSet
      <4>3. ASSUME NEW what, Answer(l, a, what)
            PROVE  BagToSet(replies[k]) \subseteq BagToSet(replies'[k])
        BY <4>1, <4>2, <4>3, Zenon
      <4>4. CASE UNCHANGED replies
        BY <4>4
      <4> QED BY <2>2, <4>3, <4>4, Zenon
    <3>4. a \in BagToSet(timeouts'[k]) \/ \E r \in BagToSet(replies'[k]) : r.attempt = a
      <4>1. CASE /\ timeouts' = [timeouts EXCEPT ![l] = IF alive[l[1]] THEN Ext!BagAdd(@, a) ELSE @]
                 /\ UNCHANGED replies
        BY <2>5, <4>1, BagAddSet DEF LinkShape
      <4>2. ASSUME NEW what, Answer(l, a, what)
            PROVE  \E r \in BagToSet(replies'[k]) : r.attempt = a
        <5>1. [attempt |-> a, is |-> what] \in BagToSet(replies'[k])
          BY <2>5, <4>2, BagAddSet DEF LinkShape, Answer
        <5> QED BY <5>1
      <4> QED BY <2>2, <4>1, <4>2
    <3> QED BY <1>0, <2>1, <3>1, <3>2, <3>3, <3>4 DEF Ends
  <2> QED BY <2>3, <2>4, <2>5
<1>7. ASSUME NEW s \in Sessions, SessionEnds(s) PROVE inflight'[k] # None => Ends(k)'
  <2>1. CASE k[1] = s
    BY <1>7, <2>1 DEF SessionEnds
  <2>2. CASE k[1] # s
    BY <1>0, <1>7, <2>2, EndsFrame DEF SessionEnds
  <2> QED BY <2>1, <2>2
<1>8. ASSUME NEW l \in Links, FromPresence(l) \/ Moves(l) PROVE inflight'[k] # None => Ends(k)'
  BY <1>1, <1>8 DEF FromPresence, Moves, linkVars
<1>9. ASSUME NEW s \in Sessions, Ready(s) PROVE inflight'[k] # None => Ends(k)'
  BY <1>1, <1>9 DEF Ready, linkVars
<1>10. ASSUME NEW g \in Guilds, \/ GuildStarts(g) \/ GuildCrashes(g) \/ Enqueue(g) \/ Finalize(g)
                                \/ SessionDown(g) \/ GuildEvent(g) \/ BecomesUnavailable(g)
                                \/ BecomesAvailable(g)
       PROVE  inflight'[k] # None => Ends(k)'
  BY <1>1, <1>10 DEF GuildStarts, GuildCrashes, Enqueue, Finalize, SessionDown, GuildEvent,
                     BecomesUnavailable, BecomesAvailable, linkVars
<1>11. CASE UNCHANGED vars
  BY <1>1, <1>11 DEF vars, linkVars
<1> QED
  BY <1>2, <1>3, <1>4, <1>5, <1>6, <1>7, <1>8, <1>9, <1>10, <1>11 DEF Next

-----------------------------------------------------------------------------
(***************************************************************************)
(* The last notice on its way to a session says whether its user is in the *)
(* guild.                                                                  *)
(***************************************************************************)
NoticesAgree ==
  \A l \in Links : notices[l] # <<>> =>
    notices[l][Len(notices[l])] = IF member[l] THEN "join" ELSE "leave"

LEMMA NoticesAgreeStep ==
  PresenceShape /\ DeadGetNothing /\ NoticesAgree /\ [Next]_vars => NoticesAgree'
<1> SUFFICES ASSUME PresenceShape, DeadGetNothing, NoticesAgree, [Next]_vars,
                    NEW k \in Links, notices'[k] # <<>>
             PROVE  notices'[k][Len(notices'[k])] = IF member'[k] THEN "join" ELSE "leave"
  BY DEF NoticesAgree
<1> DEFINE Agrees == notices'[k][Len(notices'[k])] = IF member'[k] THEN "join" ELSE "leave"
<1>0. ASSUME UNCHANGED <<member, notices>> PROVE Agrees
  BY <1>0 DEF NoticesAgree
<1>1. ASSUME NEW l \in Links, \/ GuildConnect(l) \/ ConnectorResult(l) \/ Connector(l)
                              \/ GuildConnectTimeout(l) \/ FromGuild(l)
      PROVE  Agrees
  BY <1>0, <1>1 DEF GuildConnect, ConnectorResult, Connector, GuildConnectTimeout, FromGuild
<1>2. ASSUME NEW l \in Links, FromPresence(l) PROVE Agrees
  <2>1. notices' = [notices EXCEPT ![l] = Tail(@)] /\ UNCHANGED member
    BY <1>2 DEF FromPresence
  <2>2. CASE k # l
    BY <2>1, <2>2 DEF PresenceShape, NoticesAgree
  <2>3. CASE k = l
    <3>1. /\ notices[l] \in Seq({"join", "leave"}) /\ notices[l] # <<>>
          /\ Tail(notices[l]) # <<>> /\ notices'[k] = Tail(notices[l])
      BY <1>2, <2>1, <2>3 DEF PresenceShape, FromPresence
    <3>2. notices'[k][Len(notices'[k])] = notices[l][Len(notices[l])]
      BY <3>1
    <3> QED BY <2>1, <2>3, <3>1, <3>2 DEF NoticesAgree
  <2> QED BY <2>2, <2>3
<1>3. ASSUME NEW l \in Links, Moves(l) PROVE Agrees
  <2>1. CASE k # l
    BY <1>3, <2>1 DEF Moves, PresenceShape, NoticesAgree
  <2>2. CASE k = l
    <3>1. alive[l[1]]
      BY <1>3, <2>2 DEF Moves, PresenceShape, DeadGetNothing, Gone
    <3>2. notices'[k] = Append(notices[k], IF member[k] THEN "leave" ELSE "join")
      BY <1>3, <2>2, <3>1 DEF Moves, PresenceShape
    <3>3. notices[k] \in Seq({"join", "leave"}) /\ member[k] \in BOOLEAN
      BY DEF PresenceShape
    <3>4. notices'[k][Len(notices'[k])] = IF member[k] THEN "leave" ELSE "join"
      BY <3>2, <3>3
    <3>5. member'[k] = ~member[k]
      BY <1>3, <2>2, Zenon DEF Moves, PresenceShape
    <3>6. CASE member[k]
      <4>1. ~member'[k]
        BY <3>5, <3>6, Zenon
      <4> QED BY <3>4, <3>6, <4>1
    <3>7. CASE ~member[k]
      <4>1. member'[k]
        BY <3>5, <3>7, Zenon
      <4> QED BY <3>4, <3>7, <4>1
    <3> QED BY <3>6, <3>7
  <2> QED BY <2>1, <2>2
<1>4. ASSUME NEW s \in Sessions, Ready(s) PROVE Agrees
  BY <1>0, <1>4 DEF Ready
<1>5. ASSUME NEW s \in Sessions, SessionEnds(s) PROVE Agrees
  BY <1>5 DEF SessionEnds, NoticesAgree
<1>6. ASSUME NEW g \in Guilds, \/ GuildStarts(g) \/ GuildCrashes(g) \/ Enqueue(g) \/ Finalize(g)
                               \/ SessionDown(g) \/ GuildEvent(g) \/ BecomesUnavailable(g)
                               \/ BecomesAvailable(g)
      PROVE  Agrees
  BY <1>0, <1>6 DEF GuildStarts, GuildCrashes, Enqueue, Finalize, SessionDown, GuildEvent,
                    BecomesUnavailable, BecomesAvailable
<1>7. CASE UNCHANGED vars
  BY <1>0, <1>7 DEF vars
<1> QED BY <1>1, <1>2, <1>3, <1>4, <1>5, <1>6, <1>7 DEF Next

-----------------------------------------------------------------------------
(***************************************************************************)
(* A guild is not forgotten.                                               *)
(***************************************************************************)
\* Something will make the session try.
Trying(l) ==
  \/ wakeups[l] # EmptyBag \/ inflight[l] # None
  \/ \E i \in DOMAIN notices[l] : notices[l][i] = "join"

\* The session ought to try.
Wanted(l) ==
  alive[l[1]] /\ guilds[l] # "connected" /\ (member[l] \/ guilds[l] = "cached_unavailable")

LEMMA NotForgottenParts == NotForgotten <=> \A l \in Links : Wanted(l) => Trying(l)
BY DEF NotForgotten, Wanted, Trying

\* A handler that makes no change to a link, or leaves a message for it.
LEMMA TryingFrame ==
  ASSUME NEW k, Wanted(k) => Trying(k),
         \/ \E B, a : wakeups'[k] = Ext!BagAdd(B, a)
         \/ /\ wakeups'[k] = wakeups[k] /\ inflight'[k] = inflight[k]
            /\ notices'[k] = notices[k]
            /\ Wanted(k)' => Wanted(k)
  PROVE  Wanted(k)' => Trying(k)'
BY BagAddNotEmpty DEF Trying

LEMMA NotForgottenStep ==
  /\ LinkShape /\ PresenceShape /\ DeadGetNothing /\ NoticesAgree
  /\ NotForgotten /\ [Next]_vars
  => NotForgotten'
<1> SUFFICES ASSUME LinkShape, PresenceShape, DeadGetNothing, NoticesAgree, NotForgotten,
                    [Next]_vars, NEW k \in Links
             PROVE  Wanted(k)' => Trying(k)'
  BY DEF NotForgotten, Wanted, Trying
<1>0. Wanted(k) => Trying(k)
  BY NotForgottenParts
<1>1. ASSUME UNCHANGED <<alive, guilds, member, wakeups, inflight, notices>>
      PROVE  Wanted(k)' => Trying(k)'
  BY <1>0, <1>1, TryingFrame DEF Wanted
<1>2. ASSUME NEW l \in Links, k # l, UNCHANGED alive,
             member'[k] = member[k], notices'[k] = notices[k], guilds'[k] = guilds[k],
             wakeups'[k] = wakeups[k], inflight'[k] = inflight[k]
      PROVE  Wanted(k)' => Trying(k)'
  BY <1>0, <1>2, TryingFrame DEF Wanted
<1>3. ASSUME NEW l \in Links, GuildConnect(l) PROVE Wanted(k)' => Trying(k)'
  <2>1. UNCHANGED <<alive, member, notices>>
    BY <1>3 DEF GuildConnect
  <2>2. CASE k # l
    <3>1. /\ guilds'[k] = guilds[k] /\ wakeups'[k] = wakeups[k]
          /\ inflight'[k] = inflight[k]
      BY <1>3, <2>2 DEF GuildConnect, MaybeSpawn, SetWakeups, LinkShape
    <3> QED BY <1>2, <2>1, <2>2, <3>1
  <2>3. CASE k = l
    <3>1. PICK a \in BagToSet(wakeups[l]) :
            LET rest == Ext!BagRemove(wakeups[l], a) IN
            \/ guilds[l] = "connected" /\ UNCHANGED guilds
            \/ SetWakeups(l, Ext!BagAdd(rest, Min2(a + 1, MaxAttempt)))
            \/ MaybeSpawn(l, 0, rest)
            \/ MaybeSpawn(l, a, rest)
      BY <1>3 DEF GuildConnect
    <3>2. a \in Nat
      BY DEF LinkShape
    <3>3. CASE guilds[l] = "connected" /\ UNCHANGED guilds
      BY <2>3, <3>3 DEF Wanted
    <3>4. ASSUME NEW B, NEW b, SetWakeups(l, Ext!BagAdd(B, b)) PROVE Trying(k)'
      BY <2>3, <3>4, BagAddNotEmpty DEF SetWakeups, Trying, LinkShape
    <3>5. ASSUME NEW b \in Nat, NEW rest, MaybeSpawn(l, b, rest) PROVE Trying(k)'
      <4>1. CASE SetWakeups(l, Ext!BagAdd(rest, b))
        BY <3>4, <4>1
      <4>2. CASE inflight[l] # None /\ UNCHANGED inflight
        BY <2>3, <4>2 DEF Trying
      <4>3. CASE inflight' = [inflight EXCEPT ![l] = b]
        BY <2>3, <4>3 DEF Trying, LinkShape, None
      <4> QED BY <3>5, <4>1, <4>2, <4>3 DEF MaybeSpawn
    <3> QED BY <3>1, <3>2, <3>3, <3>4, <3>5
  <2> QED BY <2>2, <2>3
<1>4. ASSUME NEW l \in Links, ConnectorResult(l) PROVE Wanted(k)' => Trying(k)'
  <2>1. UNCHANGED <<alive, member, notices>>
    BY <1>4 DEF ConnectorResult
  <2>2. CASE k # l
    <3>1. /\ guilds'[k] = guilds[k] /\ wakeups'[k] = wakeups[k]
          /\ inflight'[k] = inflight[k]
      BY <1>4, <2>2 DEF ConnectorResult, RetryOrFail, SetWakeups, linkVars, LinkShape
    <3> QED BY <1>2, <2>1, <2>2, <3>1
  <2>3. CASE k = l
    <3>1. \/ UNCHANGED <<guilds, wakeups, inflight>>
          \/ \E b : wakeups' = [wakeups EXCEPT ![l] = Ext!BagAdd(wakeups[l], b)]
      BY <1>4 DEF ConnectorResult, RetryOrFail, SetWakeups, linkVars
    <3> QED BY <1>0, <1>1, <2>1, <2>3, <3>1, TryingFrame DEF LinkShape
  <2> QED BY <2>2, <2>3
<1>5. ASSUME NEW l \in Links, GuildConnectTimeout(l) PROVE Wanted(k)' => Trying(k)'
  <2>1. UNCHANGED <<alive, member, notices, guilds>>
    BY <1>5 DEF GuildConnectTimeout
  <2>2. \/ UNCHANGED <<wakeups, inflight>>
        \/ /\ inflight' = [inflight EXCEPT ![l] = None]
           /\ \E b : wakeups' = [wakeups EXCEPT ![l] = Ext!BagAdd(wakeups[l], b)]
    BY <1>5 DEF GuildConnectTimeout, RetryOrFail, SetWakeups
  <2>3. CASE k # l
    BY <1>2, <2>1, <2>2, <2>3 DEF LinkShape
  <2>4. CASE k = l
    BY <1>0, <1>1, <2>1, <2>2, <2>4, TryingFrame DEF LinkShape
  <2> QED BY <2>3, <2>4
<1>6. ASSUME NEW l \in Links, FromGuild(l) PROVE Wanted(k)' => Trying(k)'
  <2>1. UNCHANGED <<alive, member, notices>>
    BY <1>6 DEF FromGuild
  <2>2. CASE k # l
    <3>1. /\ guilds'[k] = guilds[k] /\ wakeups'[k] = wakeups[k]
          /\ inflight'[k] = inflight[k]
      BY <1>6, <2>2 DEF FromGuild, ReceiveResult, ReceiveForcedLeave, ReceiveDown,
         ReceiveDispatch, RetryOrFail, SetWakeups, linkVars, LinkShape
    <3> QED BY <1>2, <2>1, <2>2, <3>1
  <2>3. CASE k = l
    <3>1. \/ UNCHANGED <<guilds, wakeups, inflight>>
          \/ guilds'[l] = "connected"
          \/ \E b : wakeups' = [wakeups EXCEPT ![l] = Ext!BagAdd(wakeups[l], b)]
      BY <1>6 DEF FromGuild, ReceiveResult, ReceiveForcedLeave, ReceiveDown,
         ReceiveDispatch, RetryOrFail, SetWakeups, linkVars, LinkShape
    <3>2. CASE guilds'[l] = "connected"
      BY <2>3, <3>2 DEF Wanted
    <3> QED BY <1>0, <1>1, <2>1, <2>3, <3>1, <3>2, TryingFrame DEF LinkShape
  <2> QED BY <2>2, <2>3
<1>7. ASSUME NEW l \in Links, FromPresence(l) PROVE Wanted(k)' => Trying(k)'
  <2>1. UNCHANGED <<alive, member, inflight>> /\ notices' = [notices EXCEPT ![l] = Tail(@)]
    BY <1>7 DEF FromPresence
  <2>2. CASE k # l
    <3>1. /\ guilds'[k] = guilds[k] /\ wakeups'[k] = wakeups[k]
          /\ notices'[k] = notices[k]
      BY <1>7, <2>1, <2>2 DEF FromPresence, SetWakeups, LinkShape, PresenceShape
    <3> QED BY <1>2, <2>1, <2>2, <3>1
  <2>3. CASE k = l
    <3>1. notices[l] \in Seq({"join", "leave"}) /\ notices[l] # <<>>
      BY <1>7 DEF FromPresence, PresenceShape
    <3>2. notices'[l] = Tail(notices[l])
      BY <2>1 DEF PresenceShape
    <3>3. CASE Head(notices[l]) = "join"
      <4>1. wakeups'[l] = Ext!BagAdd(wakeups[l], 0)
        BY <1>7, <3>3 DEF FromPresence, SetWakeups, LinkShape
      <4> QED BY <1>0, <2>3, <4>1, TryingFrame
    <3>4. CASE Head(notices[l]) = "leave"
      <4>1. UNCHANGED wakeups
        BY <1>7, <3>4 DEF FromPresence
      <4>2. CASE member[l]
        <5>1. notices[l][Len(notices[l])] = "join"
          BY <3>1, <4>2 DEF NoticesAgree
        <5>2. Len(notices[l]) \in 2..Len(notices[l])
          BY <3>1, <3>4, <5>1
        <5>3. /\ Len(notices[l]) - 1 \in DOMAIN Tail(notices[l])
              /\ Tail(notices[l])[Len(notices[l]) - 1] = "join"
          BY <3>1, <5>1, <5>2
        <5> QED BY <2>3, <3>2, <5>3 DEF Trying
      <4>3. CASE ~member[l]
        <5>1. SUFFICES ASSUME Wanted(k)' PROVE Trying(k)'
          OBVIOUS
        <5>2. guilds'[l] = "cached_unavailable"
          BY <2>1, <2>3, <4>3, <5>1 DEF Wanted
        <5>3. guilds[l] = "cached_unavailable"
          BY <1>7, <3>4, <5>2 DEF FromPresence, LinkShape
        <5>4. Trying(l)
          <6>1. alive[l[1]]
            BY <2>1, <2>3, <5>1 DEF Wanted
          <6> QED BY <1>0, <2>3, <5>3, <6>1 DEF Wanted
        <5>5. ASSUME NEW i \in DOMAIN notices[l], notices[l][i] = "join"
              PROVE  \E j \in DOMAIN Tail(notices[l]) : Tail(notices[l])[j] = "join"
          <6>1. i \in 2..Len(notices[l])
            BY <3>1, <3>4, <5>5
          <6>2. i - 1 \in DOMAIN Tail(notices[l]) /\ Tail(notices[l])[i - 1] = notices[l][i]
            BY <3>1, <6>1
          <6> QED BY <5>5, <6>2
        <5> QED BY <2>1, <2>3, <3>2, <4>1, <5>4, <5>5 DEF Trying
      <4> QED BY <4>2, <4>3
    <3>5. Head(notices[l]) \in {"join", "leave"}
      BY <3>1
    <3> QED BY <3>3, <3>4, <3>5
  <2> QED BY <2>2, <2>3
<1>8. ASSUME NEW l \in Links, Moves(l) PROVE Wanted(k)' => Trying(k)'
  <2>1. UNCHANGED <<alive, guilds, wakeups, inflight>>
    BY <1>8 DEF Moves, linkVars
  <2>2. CASE k # l
    <3>1. member'[k] = member[k] /\ notices'[k] = notices[k]
      BY <1>8, <2>2 DEF Moves, PresenceShape
    <3> QED BY <1>2, <2>1, <2>2, <3>1
  <2>3. CASE k = l
    <3>1. SUFFICES ASSUME Wanted(k)' PROVE Trying(k)'
      OBVIOUS
    <3>2. alive[k[1]] /\ guilds[k] # "connected"
      BY <2>1, <3>1, Zenon DEF Wanted
    <3>3. notices[k] \in Seq({"join", "leave"})
      BY DEF PresenceShape
    <3>4. notices'[k] = Append(notices[k], IF member[k] THEN "leave" ELSE "join")
      BY <1>8, <2>3, <3>2 DEF Moves, PresenceShape
    <3>5. CASE member[k]
      <4>1. ~member'[k]
        BY <1>8, <2>3, <3>5, Zenon DEF Moves, PresenceShape
      <4>2. Wanted(k)
        BY <2>1, <3>1, <3>2, <4>1 DEF Wanted
      <4>3. ASSUME NEW i \in DOMAIN notices[k], notices[k][i] = "join"
            PROVE  i \in DOMAIN notices'[k] /\ notices'[k][i] = "join"
        BY <3>3, <3>4, <4>3
      <4> QED BY <1>0, <2>1, <4>2, <4>3 DEF Trying
    <3>6. CASE ~member[k]
      <4>1. /\ Len(notices[k]) + 1 \in DOMAIN notices'[k]
            /\ notices'[k][Len(notices[k]) + 1] = "join"
        BY <3>3, <3>4, <3>6
      <4> QED BY <4>1 DEF Trying
    <3> QED BY <3>5, <3>6
  <2> QED BY <2>2, <2>3
<1>9. ASSUME NEW s \in Sessions, SessionEnds(s) PROVE Wanted(k)' => Trying(k)'
  <2>1. CASE k[1] = s
    <3>1. ~alive'[k[1]]
      BY <1>9, <2>1, Zenon DEF SessionEnds, PresenceShape
    <3> QED BY <3>1 DEF Wanted
  <2>2. CASE k[1] # s
    <3>1. /\ wakeups'[k] = wakeups[k] /\ inflight'[k] = inflight[k]
          /\ notices'[k] = notices[k] /\ guilds'[k] = guilds[k] /\ member'[k] = member[k]
      BY <1>9, <2>2 DEF SessionEnds
    <3>2. alive'[k[1]] = alive[k[1]]
      BY <1>9, <2>2, Zenon DEF SessionEnds, PresenceShape, Links
    <3>3. Wanted(k)' => Wanted(k)
      BY <3>1, <3>2, Zenon DEF Wanted
    <3> QED BY <1>0, <3>1, <3>3, TryingFrame
  <2> QED BY <2>1, <2>2
<1>10. ASSUME NEW l \in Links, Connector(l) PROVE Wanted(k)' => Trying(k)'
  BY <1>1, <1>10 DEF Connector, linkVars
<1>11. ASSUME NEW s \in Sessions, Ready(s) PROVE Wanted(k)' => Trying(k)'
  BY <1>1, <1>11 DEF Ready, linkVars
<1>12. ASSUME NEW g \in Guilds, \/ GuildStarts(g) \/ GuildCrashes(g) \/ Enqueue(g) \/ Finalize(g)
                                \/ SessionDown(g) \/ GuildEvent(g) \/ BecomesUnavailable(g)
                                \/ BecomesAvailable(g)
       PROVE  Wanted(k)' => Trying(k)'
  BY <1>1, <1>12 DEF GuildStarts, GuildCrashes, Enqueue, Finalize, SessionDown, GuildEvent,
                     BecomesUnavailable, BecomesAvailable, linkVars
<1>13. CASE UNCHANGED vars
  BY <1>1, <1>13 DEF vars, linkVars
<1> QED
  BY <1>3, <1>4, <1>5, <1>6, <1>7, <1>8, <1>9, <1>10, <1>11, <1>12, <1>13 DEF Next

-----------------------------------------------------------------------------
(***************************************************************************)
(* The inductive invariant of the session's half, and its theorems.        *)
(***************************************************************************)
ConnectInvariant ==
  /\ LinkShape /\ PresenceShape /\ GuildState
  /\ DeadGetNothing /\ NoticesAgree /\ Resolves /\ NotForgotten

LEMMA InitConnectInvariant == Init => ConnectInvariant
<1> SUFFICES ASSUME Init PROVE ConnectInvariant
  OBVIOUS
<1>1. LinkShape
  BY BagStart DEF Init, LinkShape
<1>2. PresenceShape
  <2>1. alive \in [Sessions -> BOOLEAN] /\ member \in [Links -> BOOLEAN]
    BY Zenon DEF Init
  <2>2. notices \in [Links -> Seq({"join", "leave"})]
    BY DEF Init
  <2> QED BY <2>1, <2>2 DEF PresenceShape
<1>3. GuildState
  BY BagStart DEF Init, GuildState, GuildShape, Homeless
<1>4. DeadGetNothing
  <2>1. \A l \in Links : alive[l[1]]
    BY DEF Init, Links
  <2> QED BY <2>1 DEF DeadGetNothing
<1>5. NoticesAgree /\ Resolves
  BY DEF Init, NoticesAgree, Resolves
<1>6. NotForgotten
  <2>1. \A l \in Links : wakeups[l] # EmptyBag
    BY BagStart DEF Init
  <2> QED BY <2>1 DEF NotForgotten
<1> QED BY <1>1, <1>2, <1>3, <1>4, <1>5, <1>6 DEF ConnectInvariant

THEOREM ConnectInvariantHolds == Spec => []ConnectInvariant
<1>1. ConnectInvariant /\ [Next]_vars => ConnectInvariant'
  BY LinkShapeStep, PresenceShapeStep, GuildStateStep, DeadGetNothingStep, NoticesAgreeStep,
     ResolvesStep, NotForgottenStep
     DEF ConnectInvariant
<1> QED BY <1>1, InitConnectInvariant, PTL DEF Spec

\* A session never loses sight of a guild of its user: whatever crashes, is
\* late or crosses, something is left that makes it try to connect.
THEOREM NotForgottenHolds == Spec => []NotForgotten
<1>1. ConnectInvariant => NotForgotten
  BY DEF ConnectInvariant
<1> QED BY <1>1, ConnectInvariantHolds, PTL

\* An attempt in guild_connect_inflight is always on its way to an end: its
\* connector runs, its answer is there, or its timer is set.
THEOREM InflightResolvesHolds == Spec => []InflightResolves
<1>1. ConnectInvariant => InflightResolves
  BY ResolvesIsInvariant DEF ConnectInvariant
<1> QED BY <1>1, ConnectInvariantHolds, PTL

\* Messages, timers and answers never wait for a session that has ended.
THEOREM DeadGetNothingHolds == Spec => []DeadGetNothing
<1>1. ConnectInvariant => DeadGetNothing
  BY DEF ConnectInvariant
<1> QED BY <1>1, ConnectInvariantHolds, PTL
-----------------------------------------------------------------------------
(***************************************************************************)
(* Taking one element out of a sequence.                                   *)
(***************************************************************************)
\* A nonempty set of numbers has its minimum in it.  (Sets 1..i are ordered as
\* their ends are, and inclusion of finite sets is well-founded.)
LEMMA MinIsMember ==
  ASSUME NEW S \in SUBSET Nat, S # {}
  PROVE  Min(S) \in S
<1> DEFINE Initials == {1..i : i \in S}
<1>1. Initials # {} /\ Initials \subseteq FiniteSubsetsOf(Nat)
  <2>1. ASSUME NEW i \in S PROVE IsFiniteSet(1..i)
    <3>1. 1 \in Int /\ i \in Int
      OBVIOUS
    <3> QED BY <3>1, FS_Interval, Zenon
  <2>2. \A i \in S : 1..i \in SUBSET Nat
    OBVIOUS
  <2> QED BY <2>1, <2>2 DEF FiniteSubsetsOf
<1>2. PICK X \in Initials : \A Y \in Initials : <<Y, X>> \notin StrictSubsetOrdering(Nat)
  <2> HIDE DEF Initials
  <2>1. IsWellFoundedOn(StrictSubsetOrdering(Nat), FiniteSubsetsOf(Nat))
    BY FS_StrictSubsetOrderingWellFounded, Zenon
  <2>2. \E X \in Initials : \A Y \in Initials : ~(<<Y, X>> \in StrictSubsetOrdering(Nat))
    BY <1>1, <2>1, WFMin, Zenon
  <2> QED BY <2>2
<1>3. PICK x \in S : X = 1..x
  OBVIOUS
<1>4. \A y \in S : x =< y
  <2>1. SUFFICES ASSUME NEW y \in S, y < x PROVE FALSE
    OBVIOUS
  <2>2. 1..y \subseteq X /\ 1..y # X
    BY <1>3, <2>1
  <2>3. <<1..y, X>> \in StrictSubsetOrdering(Nat)
    BY <1>3, <2>2 DEF StrictSubsetOrdering
  <2> QED BY <1>2, <2>3
<1> QED BY <1>4, Zenon DEF Min

\* Selecting and removing: one element that passes the test is taken out, the
\* others stay in order.
LEMMA RemoveFirstEffect ==
  ASSUME NEW T, NEW q \in Seq(T), NEW e
  PROVE  \/ RemoveFirst(q, e) = q
         \/ \E k \in 1..Len(q) : q[k] = e /\ RemoveFirst(q, e) = RemoveAt(q, k)
<1> DEFINE I == {i \in 1..Len(q) : q[i] = e}
<1>1. CASE \E i \in 1..Len(q) : q[i] = e
  <2>1. Min(I) \in I
    <3>1. I \in SUBSET Nat /\ I # {}
      BY <1>1
    <3> HIDE DEF I
    <3> QED BY <3>1, MinIsMember
  <2>2. RemoveFirst(q, e) = RemoveAt(q, Min(I))
    BY <1>1 DEF RemoveFirst, SelectInSeq
  <2> QED BY <2>1, <2>2
<1>2. CASE ~ \E i \in 1..Len(q) : q[i] = e
  BY <1>2, Zenon DEF RemoveFirst
<1> QED BY <1>1, <1>2

LEMMA WithoutEffect ==
  ASSUME NEW T, NEW q \in Seq(T), NEW s
  PROVE  \/ /\ Without(s, q) = q
            /\ \A i \in 1..Len(q) : q[i].session # s
         \/ \E k \in 1..Len(q) : q[k].session = s /\ Without(s, q) = RemoveAt(q, k)
<1> DEFINE I == {i \in 1..Len(q) : q[i].session = s}
<1>1. CASE \E i \in 1..Len(q) : q[i].session = s
  <2>1. Min(I) \in I
    <3>1. I \in SUBSET Nat /\ I # {}
      BY <1>1
    <3> HIDE DEF I
    <3> QED BY <3>1, MinIsMember
  <2>2. Without(s, q) = RemoveAt(q, Min(I))
    BY <1>1 DEF Without, RemoveFirstMatch, SelectInSeq
  <2> QED BY <2>1, <2>2
<1>2. CASE ~ \E i \in 1..Len(q) : q[i].session = s
  BY <1>2, Zenon DEF Without, RemoveFirstMatch
<1> QED BY <1>1, <1>2

\* Removing an element moves those after it down by one place.
LEMMA RemoveAtPlaces ==
  ASSUME NEW T, NEW q \in Seq(T), NEW k \in 1..Len(q)
  PROVE  /\ RemoveAt(q, k) \in Seq(T)
         /\ Len(RemoveAt(q, k)) = Len(q) - 1
         /\ \A i \in 1..(Len(q) - 1) :
              RemoveAt(q, k)[i] = IF i < k THEN q[i] ELSE q[i + 1]
<1> DEFINE u == SubSeq(q, 1, k - 1)
           v == SubSeq(q, k + 1, Len(q))
<1>1. u \in Seq(T) /\ Len(u) = k - 1 /\ \A i \in 1..(k - 1) : u[i] = q[i]
  OBVIOUS
<1>2. v \in Seq(T) /\ Len(v) = Len(q) - k /\ \A i \in 1..(Len(q) - k) : v[i] = q[k + i]
  OBVIOUS
<1>3. RemoveAt(q, k) = u \o v
  BY DEF RemoveAt
<1> HIDE DEF u, v
<1>4. /\ u \o v \in Seq(T) /\ Len(u \o v) = Len(u) + Len(v)
      /\ \A i \in 1..(Len(u) + Len(v)) :
           (u \o v)[i] = IF i <= Len(u) THEN u[i] ELSE v[i - Len(u)]
  BY <1>1, <1>2, ConcatProperties, Zenon
<1>5. Len(u) + Len(v) = Len(q) - 1
  BY <1>1, <1>2
<1>6. ASSUME NEW i \in 1..(Len(q) - 1), i >= k PROVE (u \o v)[i] = q[i + 1]
  <2>1. i - Len(u) \in 1..(Len(q) - k) /\ k + (i - Len(u)) = i + 1 /\ ~(i <= Len(u))
    BY <1>1, <1>6
  <2>2. (u \o v)[i] = v[i - Len(u)]
    BY <1>4, <1>5, <2>1
  <2> QED BY <1>2, <2>1, <2>2
<1>7. ASSUME NEW i \in 1..(Len(q) - 1), i < k PROVE (u \o v)[i] = q[i]
  <2>1. i <= Len(u) /\ i \in 1..(k - 1)
    BY <1>1, <1>7
  <2> QED BY <1>1, <1>4, <1>5, <2>1
<1> QED BY <1>3, <1>4, <1>5, <1>6, <1>7

-----------------------------------------------------------------------------
(***************************************************************************)
(* The types of what sessions and connectors keep in bags.                 *)
(***************************************************************************)
\* Adding and removing keep a bag's elements where they belong.
LEMMA IsBagOfAdd ==
  ASSUME NEW B, NEW S, IsBagOf(B, S), NEW x \in S
  PROVE  IsBagOf(Ext!BagAdd(B, x), S)
BY DEF IsBagOf, Ext!BagAdd

LEMMA IsBagOfRemove ==
  ASSUME NEW B, NEW S, IsBagOf(B, S), NEW x
  PROVE  IsBagOf(Ext!BagRemove(B, x), S)
BY DEF IsBagOf, Ext!BagRemove

LEMMA IsBagOfStart ==
  ASSUME NEW S
  PROVE  IsBagOf(EmptyBag, S) /\ (0 \in S => IsBagOf(SetToBag({0}), S))
BY DEF IsBagOf, EmptyBag, SetToBag

LEMMA IsBagOfElement ==
  ASSUME NEW B, NEW S, IsBagOf(B, S), NEW x \in BagToSet(B)
  PROVE  x \in S
BY DEF IsBagOf, BagToSet

Kinds == {"loading", "error", "cached_unavailable"}

\* Attempts are counted from 0 to MaxAttempt, wherever they are kept.
BagTypes ==
  /\ inflight \in [Links -> Attempts \union {None}]
  /\ \A l \in Links : /\ IsBagOf(wakeups[l], Attempts) /\ IsBagOf(timeouts[l], Attempts)
                      /\ IsBagOf(connectors[l], Attempts)
                      /\ IsBagOf(replies[l], [attempt : Attempts, is : Kinds])

\* The attempts that are made.
LEMMA AttemptsAreNumbers ==
  /\ 0 \in Attempts /\ \A a \in Attempts \union {None} : a < MaxAttempt => a + 1 \in Attempts
  /\ \A a \in Attempts \union {None} : /\ Min2(a + 1, MaxAttempt) \in Attempts
                                       /\ Min2(a + 1, EasyAttempt) \in Attempts
BY LimitsAssumption DEF LimitsAssumption, Attempts, None, Min2

LEMMA RetryOrFailAttempt ==
  ASSUME NEW l \in Links, NEW a \in Attempts \union {None}, RetryOrFail(l, a)
  PROVE  \E b \in Attempts : wakeups' = [wakeups EXCEPT ![l] = Ext!BagAdd(wakeups[l], b)]
<1>1. CASE a < MaxAttempt
  BY <1>1, AttemptsAreNumbers DEF RetryOrFail, SetWakeups
<1>2. CASE ~(a < MaxAttempt)
  BY <1>2, AttemptsAreNumbers DEF RetryOrFail, SetWakeups
<1> QED BY <1>1, <1>2

LEMMA BagTypesStep == LinkShape /\ BagTypes /\ [Next]_vars => BagTypes'
<1> SUFFICES ASSUME LinkShape, BagTypes, [Next]_vars PROVE BagTypes'
  OBVIOUS
<1> DEFINE InflightOK == inflight' \in [Links -> Attempts \union {None}]
           WakeupsOK  == \A k \in Links : IsBagOf(wakeups'[k], Attempts)
           TimeoutsOK == \A k \in Links : IsBagOf(timeouts'[k], Attempts)
           ConnectorsOK == \A k \in Links : IsBagOf(connectors'[k], Attempts)
           RepliesOK  == \A k \in Links : IsBagOf(replies'[k], [attempt : Attempts, is : Kinds])
<1>0. /\ inflight \in [Links -> Attempts \union {None}]
      /\ DOMAIN wakeups = Links /\ DOMAIN timeouts = Links /\ DOMAIN connectors = Links
      /\ DOMAIN replies = Links
      /\ \A l \in Links : /\ IsBagOf(wakeups[l], Attempts) /\ IsBagOf(timeouts[l], Attempts)
                          /\ IsBagOf(connectors[l], Attempts)
                          /\ IsBagOf(replies[l], [attempt : Attempts, is : Kinds])
  BY DEF LinkShape, BagTypes
<1>a. ASSUME NEW l \in Links, NEW B, IsBagOf(B, Attempts), SetWakeups(l, B) PROVE WakeupsOK
  BY <1>0, <1>a DEF SetWakeups
<1>b. ASSUME NEW l \in Links, NEW a \in Attempts \union {None}, RetryOrFail(l, a)
      PROVE  WakeupsOK
  <2>1. PICK b \in Attempts : wakeups' = [wakeups EXCEPT ![l] = Ext!BagAdd(wakeups[l], b)]
    BY <1>b, RetryOrFailAttempt
  <2>2. IsBagOf(Ext!BagAdd(wakeups[l], b), Attempts)
    BY <1>0, IsBagOfAdd
  <2> QED BY <1>0, <2>1, <2>2
<1>c. ASSUME UNCHANGED <<inflight, wakeups, timeouts, connectors, replies>> PROVE BagTypes'
  BY <1>0, <1>c DEF BagTypes
<1>d. ASSUME InflightOK, WakeupsOK, TimeoutsOK, ConnectorsOK, RepliesOK PROVE BagTypes'
  BY <1>d DEF BagTypes
<1>1. ASSUME NEW l \in Links, GuildConnect(l) PROVE BagTypes'
  <2>1. PICK a \in BagToSet(wakeups[l]) :
          LET rest == Ext!BagRemove(wakeups[l], a) IN
          \/ SetWakeups(l, rest) /\ UNCHANGED <<inflight, connectors>>
          \/ /\ SetWakeups(l, Ext!BagAdd(rest, Min2(a + 1, MaxAttempt)))
             /\ UNCHANGED <<inflight, connectors>>
          \/ MaybeSpawn(l, 0, rest)
          \/ MaybeSpawn(l, a, rest)
    BY <1>1 DEF GuildConnect
  <2> DEFINE rest == Ext!BagRemove(wakeups[l], a)
  <2>2. IsBagOf(rest, Attempts) /\ a \in Attempts
    BY <1>0, IsBagOfRemove, IsBagOfElement
  <2>3. UNCHANGED <<timeouts, replies>>
    BY <1>1 DEF GuildConnect
  <2>4. 0 \in Attempts /\ Min2(a + 1, MaxAttempt) \in Attempts
    BY <2>2, AttemptsAreNumbers
  <2> HIDE DEF rest
  <2>5. ASSUME NEW b \in Attempts, MaybeSpawn(l, b, rest) PROVE BagTypes'
    <3>1. WakeupsOK
      <4>1. IsBagOf(Ext!BagAdd(rest, b), Attempts)
        BY <2>2, IsBagOfAdd
      <4> QED BY <2>2, <2>5, <4>1, <1>a DEF MaybeSpawn
    <3>2. InflightOK
      BY <1>0, <2>5 DEF MaybeSpawn
    <3>3. ConnectorsOK
      <4>1. IsBagOf(Ext!BagAdd(connectors[l], b), Attempts)
        BY <1>0, IsBagOfAdd
      <4> QED BY <1>0, <2>5, <4>1 DEF MaybeSpawn
    <3> QED BY <1>0, <1>d, <2>3, <3>1, <3>2, <3>3
  <2>6. CASE SetWakeups(l, rest) /\ UNCHANGED <<inflight, connectors>>
    BY <1>0, <1>a, <1>d, <2>2, <2>3, <2>6
  <2>7. CASE /\ SetWakeups(l, Ext!BagAdd(rest, Min2(a + 1, MaxAttempt)))
             /\ UNCHANGED <<inflight, connectors>>
    <3>1. IsBagOf(Ext!BagAdd(rest, Min2(a + 1, MaxAttempt)), Attempts)
      BY <2>2, <2>4, IsBagOfAdd
    <3> QED BY <1>0, <1>a, <1>d, <2>3, <2>7, <3>1
  <2> QED BY <2>1, <2>2, <2>4, <2>5, <2>6, <2>7 DEF rest
<1>2. ASSUME NEW l \in Links, ConnectorResult(l) PROVE BagTypes'
  <2>1. PICK r \in BagToSet(replies[l]) :
          /\ replies' = [replies EXCEPT ![l] = Ext!BagRemove(@, r)]
          /\ \/ UNCHANGED <<inflight, wakeups>>
             \/ /\ inflight' = [inflight EXCEPT ![l] = None]
                /\ \/ SetWakeups(l, Ext!BagAdd(wakeups[l], Min2(r.attempt + 1, EasyAttempt)))
                   \/ RetryOrFail(l, r.attempt)
                   \/ SetWakeups(l, Ext!BagAdd(wakeups[l], Min2(r.attempt + 1, MaxAttempt)))
    BY <1>2 DEF ConnectorResult, linkVars
  <2>2. UNCHANGED <<timeouts, connectors>>
    BY <1>2 DEF ConnectorResult
  <2>3. r.attempt \in Attempts
    <3>1. r \in [attempt : Attempts, is : Kinds]
      BY <1>0, IsBagOfElement
    <3> QED BY <3>1
  <2>4. RepliesOK
    <3>1. IsBagOf(Ext!BagRemove(replies[l], r), [attempt : Attempts, is : Kinds])
      BY <1>0, IsBagOfRemove
    <3> QED BY <1>0, <2>1, <3>1
  <2>5. InflightOK
    BY <1>0, <2>1
  <2>6. WakeupsOK
    <3>1. /\ IsBagOf(Ext!BagAdd(wakeups[l], Min2(r.attempt + 1, EasyAttempt)), Attempts)
          /\ IsBagOf(Ext!BagAdd(wakeups[l], Min2(r.attempt + 1, MaxAttempt)), Attempts)
      BY <1>0, <2>3, AttemptsAreNumbers, IsBagOfAdd
    <3> QED BY <1>0, <1>a, <1>b, <2>1, <2>3, <3>1
  <2> QED BY <1>0, <1>d, <2>2, <2>4, <2>5, <2>6
<1>3. ASSUME NEW l \in Links, GuildConnectTimeout(l) PROVE BagTypes'
  <2>1. PICK a \in BagToSet(timeouts[l]) :
          /\ timeouts' = [timeouts EXCEPT ![l] = Ext!BagRemove(@, a)]
          /\ \/ UNCHANGED <<inflight, wakeups>>
             \/ inflight' = [inflight EXCEPT ![l] = None] /\ RetryOrFail(l, a)
    BY <1>3 DEF GuildConnectTimeout
  <2>2. UNCHANGED <<connectors, replies>>
    BY <1>3 DEF GuildConnectTimeout
  <2>3. a \in Attempts /\ IsBagOf(Ext!BagRemove(timeouts[l], a), Attempts)
    BY <1>0, IsBagOfElement, IsBagOfRemove
  <2> QED BY <1>0, <1>b, <1>d, <2>1, <2>2, <2>3
<1>4. ASSUME NEW l \in Links, FromGuild(l) PROVE BagTypes'
  <2>1. UNCHANGED <<timeouts, connectors, replies>>
    BY <1>4 DEF FromGuild
  <2>2. UNCHANGED inflight \/ inflight' = [inflight EXCEPT ![l] = None]
    BY <1>4 DEF FromGuild, ReceiveResult, ReceiveForcedLeave, ReceiveDown, ReceiveDispatch,
                linkVars
  <2>3. \/ UNCHANGED wakeups
        \/ RetryOrFail(l, inflight[l])
        \/ SetWakeups(l, Ext!BagAdd(wakeups[l], 0))
    BY <1>4 DEF FromGuild, ReceiveResult, ReceiveForcedLeave, ReceiveDown, ReceiveDispatch,
                linkVars
  <2>4. IsBagOf(Ext!BagAdd(wakeups[l], 0), Attempts) /\ inflight[l] \in Attempts \union {None}
    BY <1>0, AttemptsAreNumbers, IsBagOfAdd
  <2>5. WakeupsOK
    BY <1>0, <1>a, <1>b, <2>3, <2>4
  <2> QED BY <1>0, <1>d, <2>1, <2>2, <2>5
<1>5. ASSUME NEW l \in Links, FromPresence(l) PROVE BagTypes'
  <2>1. UNCHANGED wakeups \/ SetWakeups(l, Ext!BagAdd(wakeups[l], 0))
    BY <1>5 DEF FromPresence
  <2>2. IsBagOf(Ext!BagAdd(wakeups[l], 0), Attempts)
    BY <1>0, AttemptsAreNumbers, IsBagOfAdd
  <2>3. UNCHANGED <<inflight, timeouts, connectors, replies>>
    BY <1>5 DEF FromPresence
  <2> QED BY <1>0, <1>a, <1>d, <2>1, <2>2, <2>3
<1>6. ASSUME NEW l \in Links, Connector(l) PROVE BagTypes'
  <2>1. UNCHANGED <<inflight, wakeups>>
    BY <1>6 DEF Connector, linkVars
  <2>2. PICK a \in BagToSet(connectors[l]) :
          /\ connectors' = [connectors EXCEPT ![l] = Ext!BagRemove(@, a)]
          /\ \/ /\ timeouts' = [timeouts EXCEPT ![l] = IF alive[l[1]] THEN Ext!BagAdd(@, a) ELSE @]
                /\ UNCHANGED replies
             \/ UNCHANGED timeouts /\ \E what \in Kinds : Answer(l, a, what)
    BY <1>6 DEF Connector, Kinds
  <2>3. a \in Attempts /\ IsBagOf(Ext!BagRemove(connectors[l], a), Attempts)
    BY <1>0, IsBagOfElement, IsBagOfRemove
  <2>4. ConnectorsOK
    BY <1>0, <2>2, <2>3
  <2>5. IsBagOf(Ext!BagAdd(timeouts[l], a), Attempts)
    BY <1>0, <2>3, IsBagOfAdd
  <2>6. TimeoutsOK
    BY <1>0, <2>2, <2>5
  <2>7. RepliesOK
    <3>1. ASSUME NEW what \in Kinds, Answer(l, a, what) PROVE RepliesOK
      <4>1. IsBagOf(Ext!BagAdd(replies[l], [attempt |-> a, is |-> what]),
                    [attempt : Attempts, is : Kinds])
        <5>1. [attempt |-> a, is |-> what] \in [attempt : Attempts, is : Kinds]
          BY <2>3
        <5> QED BY <1>0, <5>1, IsBagOfAdd
      <4> QED BY <1>0, <3>1, <4>1 DEF Answer
    <3> QED BY <1>0, <2>2, <3>1
  <2> QED BY <1>0, <1>d, <2>1, <2>4, <2>6, <2>7
<1>7. ASSUME NEW s \in Sessions, SessionEnds(s) PROVE BagTypes'
  <2>1. InflightOK
    BY <1>0, <1>7 DEF SessionEnds
  <2>2. WakeupsOK /\ TimeoutsOK
    BY <1>0, <1>7, IsBagOfStart DEF SessionEnds
  <2>3. RepliesOK
    BY <1>0, <1>7, IsBagOfStart DEF SessionEnds
  <2>4. UNCHANGED connectors
    BY <1>7 DEF SessionEnds
  <2> QED BY <1>0, <1>d, <2>1, <2>2, <2>3, <2>4
<1>8. ASSUME NEW l \in Links, Moves(l) PROVE BagTypes'
  BY <1>c, <1>8 DEF Moves, linkVars
<1>9. ASSUME NEW s \in Sessions, Ready(s) PROVE BagTypes'
  BY <1>c, <1>9 DEF Ready, linkVars
<1>10. ASSUME NEW g \in Guilds, \/ GuildStarts(g) \/ GuildCrashes(g) \/ Enqueue(g) \/ Finalize(g)
                                \/ SessionDown(g) \/ GuildEvent(g) \/ BecomesUnavailable(g)
                                \/ BecomesAvailable(g)
       PROVE  BagTypes'
  BY <1>c, <1>10 DEF GuildStarts, GuildCrashes, Enqueue, Finalize, SessionDown, GuildEvent,
                     BecomesUnavailable, BecomesAvailable, linkVars
<1>11. CASE UNCHANGED vars
  BY <1>c, <1>11 DEF vars, linkVars
<1> QED
  BY <1>1, <1>2, <1>3, <1>4, <1>5, <1>6, <1>7, <1>8, <1>9, <1>10, <1>11 DEF Next

-----------------------------------------------------------------------------
(***************************************************************************)
(* The guild: its types, its workers' places, and what it does to its queue*)
(* and its workers.                                                        *)
(***************************************************************************)
Requests == [session : Sessions, attempt : Attempts]

\* A worker's job: a request, with a copy of the guild's state.
Work(g, item) == [session |-> item.session, attempt |-> item.attempt,
                  version |-> version[g], available |-> available[g]]

\* The guild's variables, and what its messages and workers carry.
GuildTypes ==
  /\ pid \in [Guilds -> 0..MaxPids] /\ version \in [Guilds -> 0..MaxVersion]
  /\ entry \in [Links -> {"absent", "pending", "admitted"}]
  /\ pending \in [Links -> Attempts \union {None}]
  /\ queue \in [Guilds -> Seq(Requests)] /\ downs \in [Guilds -> SUBSET Sessions]
  /\ \A g \in Guilds :
       /\ \A c \in BagToSet(inbox[g]) : c \in Requests
       /\ \A w \in BagToSet(workers[g]) :
            w.session \in Sessions /\ w.attempt \in Attempts /\ w.version \in 0..MaxVersion

\* The places of the workers.
Places ==
  /\ busy \in [Guilds -> 0..MaxWorkers]
  /\ \A g \in Guilds : /\ \A w \in DOMAIN workers[g] : workers[g][w] \in Nat \ {0}
                       /\ IsFiniteSet(Running(g)) /\ Cardinality(Running(g)) = busy[g]
                       /\ queue[g] # <<>> => busy[g] = MaxWorkers

\* What becomes of a queue q when b workers run: nothing, or its first request
\* is worked on.
Started(g, q, b, ws) ==
  \/ /\ q = <<>> \/ b = MaxWorkers
     /\ queue' = [queue EXCEPT ![g] = q] /\ busy' = [busy EXCEPT ![g] = b]
     /\ workers' = [workers EXCEPT ![g] = ws (+) SetToBag({})]
  \/ /\ q # <<>> /\ b < MaxWorkers
     /\ queue' = [queue EXCEPT ![g] = Tail(q)] /\ busy' = [busy EXCEPT ![g] = b + 1]
     /\ workers' = [workers EXCEPT ![g] = ws (+) SetToBag({Work(g, Head(q))})]

\* One job at most begins when one request comes or one place is given back.
LEMMA StartEffect ==
  ASSUME NEW g, NEW q \in Seq(Requests), NEW b \in 0..MaxWorkers, NEW ws,
         Len(q) <= 1 \/ b + 1 >= MaxWorkers, StartWorkers(g, q, b, ws)
  PROVE  Started(g, q, b, ws)
<1> DEFINE n == IF b >= MaxWorkers THEN 0 ELSE Min2(MaxWorkers - b, Len(q))
           Job(item) == [session |-> item.session, attempt |-> item.attempt,
                         version |-> version[g], available |-> available[g]]
<1>0. MaxWorkers \in Nat \ {0}
  BY LimitsAssumption DEF LimitsAssumption
<1>1. /\ n \in {0, 1}
      /\ n = 0 => q = <<>> \/ b = MaxWorkers
      /\ n = 1 => q # <<>> /\ b < MaxWorkers
  <2> DEFINE k == Len(q)
  <2>1. k \in Nat /\ (k = 0 <=> q = <<>>)
    OBVIOUS
  <2>2. k <= 1 \/ b + 1 >= MaxWorkers
    BY Zenon
  <2>3. n = IF b >= MaxWorkers THEN 0 ELSE Min2(MaxWorkers - b, k)
    OBVIOUS
  <2> HIDE DEF k, n
  <2> QED BY <1>0, <2>1, <2>2, <2>3 DEF Min2
<1>2. /\ queue' = [queue EXCEPT ![g] = SubSeq(q, n + 1, Len(q))]
      /\ busy' = [busy EXCEPT ![g] = b + n]
      /\ workers' = [workers EXCEPT ![g] = ws (+) SetToBag({Job(q[i]) : i \in 1..n})]
  BY Zenon DEF StartWorkers, Start
<1> HIDE DEF n
<1>3. CASE n = 0
  <2>1. SubSeq(q, 1, Len(q)) = q
    OBVIOUS
  <2>2. {Job(q[i]) : i \in 1..0} = {}
    OBVIOUS
  <2>3. b + 0 = b /\ 0 + 1 = 1
    OBVIOUS
  <2> QED BY <1>1, <1>2, <1>3, <2>1, <2>2, <2>3, Zenon DEF Started
<1>4. CASE n = 1
  <2>1. SubSeq(q, 2, Len(q)) = Tail(q) /\ 1 + 1 = 2
    BY <1>1, <1>4
  <2>2. {Job(q[i]) : i \in 1..1} = {Job(q[1])}
    OBVIOUS
  <2>3. Job(q[1]) = Work(g, Head(q))
    BY <1>1, <1>4 DEF Work
  <2> QED BY <1>1, <1>2, <1>4, <2>1, <2>2, <2>3, Zenon DEF Started
<1> QED BY <1>1, <1>3, <1>4

\* Without keeps the queue a queue of requests.
LEMMA WithoutType ==
  ASSUME NEW s, NEW q \in Seq(Requests)
  PROVE  /\ Without(s, q) \in Seq(Requests)
         /\ q = <<>> => Without(s, q) = <<>>
         /\ \A i \in DOMAIN q : q[i].session # s =>
              \E j \in DOMAIN Without(s, q) : Without(s, q)[j] = q[i]
<1>1. CASE Without(s, q) = q
  BY <1>1
<1>2. ASSUME NEW k \in 1..Len(q), q[k].session = s, Without(s, q) = RemoveAt(q, k)
      PROVE  /\ Without(s, q) \in Seq(Requests)
             /\ q = <<>> => Without(s, q) = <<>>
             /\ \A i \in DOMAIN q : q[i].session # s =>
                  \E j \in DOMAIN Without(s, q) : Without(s, q)[j] = q[i]
  <2> DEFINE r == RemoveAt(q, k)
  <2>1. /\ r \in Seq(Requests) /\ Len(r) = Len(q) - 1
        /\ \A i \in 1..(Len(q) - 1) : r[i] = IF i < k THEN q[i] ELSE q[i + 1]
    BY RemoveAtPlaces
  <2> HIDE DEF r
  <2>2. ASSUME NEW i \in DOMAIN q, q[i].session # s
        PROVE  \E j \in DOMAIN r : r[j] = q[i]
    <3>1. CASE i < k
      BY <2>1, <3>1
    <3>2. CASE i > k
      <4>1. i - 1 \in DOMAIN r /\ r[i - 1] = q[i]
        BY <2>1, <3>2
      <4> QED BY <4>1
    <3> QED BY <1>2, <2>2, <3>1, <3>2
  <2> QED BY <1>2, <2>1, <2>2 DEF r
<1> QED BY <1>1, <1>2, WithoutEffect

\* A request that is put in the queue gets a place if there is one.
LEMMA EnqueueEffect ==
  ASSUME GuildTypes, Places, NEW g \in Guilds, Enqueue(g)
  PROVE  \E c \in BagToSet(inbox[g]) :
           /\ c \in Requests /\ inbox' = [inbox EXCEPT ![g] = Ext!BagRemove(@, c)]
           /\ \/ UNCHANGED guildVars
              \/ /\ pending' = [pending EXCEPT ![<<c.session, g>>] = c.attempt]
                 /\ entry' = [entry EXCEPT ![<<c.session, g>>] = "pending"]
                 /\ downs' = [downs EXCEPT ![g] = IF alive[c.session] THEN @
                                                  ELSE @ \union {c.session}]
                 /\ \/ /\ busy[g] = MaxWorkers /\ UNCHANGED busy
                       /\ queue' = [queue EXCEPT ![g] =
                                      Append(Without(c.session, queue[g]), c)]
                       /\ workers' = [workers EXCEPT ![g] = workers[g] (+) SetToBag({})]
                    \/ /\ busy[g] < MaxWorkers /\ busy' = [busy EXCEPT ![g] = busy[g] + 1]
                       /\ queue[g] = <<>> /\ UNCHANGED queue
                       /\ workers' = [workers EXCEPT ![g] =
                                        workers[g] (+) SetToBag({Work(g, c)})]
<1>1. PICK c \in BagToSet(inbox[g]) :
        /\ inbox' = [inbox EXCEPT ![g] = Ext!BagRemove(@, c)]
        /\ \/ UNCHANGED guildVars
           \/ /\ pending' = [pending EXCEPT ![<<c.session, g>>] = c.attempt]
              /\ entry' = [entry EXCEPT ![<<c.session, g>>] = "pending"]
              /\ downs' = [downs EXCEPT ![g] = IF alive[c.session] THEN @
                                               ELSE @ \union {c.session}]
              /\ StartWorkers(g, Append(Without(c.session, queue[g]), c), busy[g], workers[g])
  BY Zenon DEF Enqueue
<1>2. c \in Requests
  BY DEF GuildTypes
<1>3. /\ queue[g] \in Seq(Requests) /\ busy[g] \in 0..MaxWorkers
      /\ queue[g] # <<>> => busy[g] = MaxWorkers
      /\ DOMAIN queue = Guilds /\ DOMAIN busy = Guilds /\ MaxWorkers \in Nat \ {0}
  BY LimitsAssumption DEF LimitsAssumption, GuildTypes, Places
<1> DEFINE q == Append(Without(c.session, queue[g]), c)
<1>4. /\ q \in Seq(Requests) /\ q # <<>>
      /\ queue[g] = <<>> => Len(q) = 1 /\ Head(q) = c /\ Tail(q) = <<>>
  <2>1. Without(c.session, queue[g]) \in Seq(Requests)
    BY <1>3, WithoutType
  <2>2. queue[g] = <<>> => Without(c.session, queue[g]) = <<>>
    BY <1>3, WithoutType
  <2> QED BY <1>2, <2>1, <2>2
<1> HIDE DEF q
<1>5. ASSUME StartWorkers(g, q, busy[g], workers[g])
      PROVE  \/ /\ busy[g] = MaxWorkers /\ UNCHANGED busy
                /\ queue' = [queue EXCEPT ![g] = q]
                /\ workers' = [workers EXCEPT ![g] = workers[g] (+) SetToBag({})]
             \/ /\ busy[g] < MaxWorkers /\ busy' = [busy EXCEPT ![g] = busy[g] + 1]
                /\ queue[g] = <<>> /\ UNCHANGED queue
                /\ workers' = [workers EXCEPT ![g] = workers[g] (+) SetToBag({Work(g, c)})]
  <2>1. Len(q) <= 1 \/ busy[g] + 1 >= MaxWorkers
    <3>1. CASE queue[g] = <<>>
      <4>1. Len(q) = 1
        BY <1>4, <3>1
      <4>2. Len(q) <= 1
        BY <4>1
      <4> QED BY <4>2, Zenon
    <3>2. CASE queue[g] # <<>>
      BY <1>3, <3>2
    <3> QED BY <3>1, <3>2
  <2>2. Started(g, q, busy[g], workers[g])
    BY <1>3, <1>4, <1>5, <2>1, StartEffect, Zenon
  <2>3. busy' = [busy EXCEPT ![g] = busy[g]] => UNCHANGED busy
    BY DEF Places
  <2>4. busy[g] < MaxWorkers => queue[g] = <<>>
    BY <1>3
  <2>5. queue[g] = <<>> /\ queue' = [queue EXCEPT ![g] = <<>>] => UNCHANGED queue
    BY DEF GuildTypes
  <2> QED BY <1>4, <2>2, <2>3, <2>4, <2>5 DEF Started
<1> QED BY <1>1, <1>2, <1>5 DEF q

\* A place that is given back goes to the first request that waits.
LEMMA FinalizeEffect ==
  ASSUME GuildTypes, Places, NEW g \in Guilds, NEW w \in BagToSet(workers[g]),
         StartWorkers(g, queue[g], busy[g] - 1, Ext!BagRemove(workers[g], w))
  PROVE  LET rest == Ext!BagRemove(workers[g], w) IN
         \/ /\ queue[g] = <<>> /\ UNCHANGED queue
            /\ busy' = [busy EXCEPT ![g] = busy[g] - 1]
            /\ workers' = [workers EXCEPT ![g] = rest (+) SetToBag({})]
         \/ /\ queue[g] # <<>> /\ queue' = [queue EXCEPT ![g] = Tail(queue[g])]
            /\ busy[g] = MaxWorkers /\ UNCHANGED busy
            /\ workers' = [workers EXCEPT ![g] = rest (+) SetToBag({Work(g, Head(queue[g]))})]
<1>1. /\ queue[g] \in Seq(Requests) /\ busy[g] \in 0..MaxWorkers
      /\ queue[g] # <<>> => busy[g] = MaxWorkers
      /\ DOMAIN queue = Guilds /\ DOMAIN busy = Guilds /\ MaxWorkers \in Nat \ {0}
      /\ IsFiniteSet(Running(g)) /\ Cardinality(Running(g)) = busy[g]
  BY LimitsAssumption DEF LimitsAssumption, GuildTypes, Places
<1>2. busy[g] # 0
  <2>1. <<w, 1>> \in Running(g)
    <3>1. w \in DOMAIN workers[g]
      BY DEF BagToSet
    <3>2. workers[g][w] \in Nat \ {0}
      BY <3>1 DEF Places
    <3>3. <<w, 1>> \in {w} \X (1..workers[g][w])
      BY <3>2
    <3> QED BY <3>3 DEF Running
  <2>2. Running(g) # {}
    BY <2>1
  <2> QED BY <1>1, <2>2, FS_EmptySet
<1>3. busy[g] - 1 \in 0..MaxWorkers /\ (Len(queue[g]) <= 1 \/ (busy[g] - 1) + 1 >= MaxWorkers)
  BY <1>1, <1>2
<1> DEFINE rest == Ext!BagRemove(workers[g], w)
<1>4. Started(g, queue[g], busy[g] - 1, rest)
  BY <1>1, <1>3, StartEffect, Zenon
<1>5. queue' = [queue EXCEPT ![g] = queue[g]] => UNCHANGED queue
  BY DEF GuildTypes
<1>6. busy' = [busy EXCEPT ![g] = (busy[g] - 1) + 1] => UNCHANGED busy
  BY <1>1 DEF Places
<1>7. busy[g] - 1 # MaxWorkers
  BY <1>1
<1> HIDE DEF rest
<1>8. CASE queue[g] = <<>>
  BY <1>1, <1>4, <1>5, <1>7, <1>8 DEF rest, Started
<1>9. CASE queue[g] # <<>>
  BY <1>1, <1>4, <1>6, <1>7, <1>9 DEF rest, Started
<1> QED BY <1>8, <1>9

-----------------------------------------------------------------------------
(***************************************************************************)
(* Bags with their copies told apart.                                      *)
(***************************************************************************)
Counts(B) == \A w \in DOMAIN B : B[w] \in Nat \ {0}

\* Running, of any bag.
Copies(B) == UNION {{w} \X (1..B[w]) : w \in BagToSet(B)}

\* What a bag holds, with the copies told apart, and what it holds after an
\* element is taken out or put in.
LEMMA CopiesMember ==
  ASSUME NEW B
  PROVE  \A p : p \in Copies(B) <=> \E w \in DOMAIN B : \E i \in 1..B[w] : p = <<w, i>>
BY DEF Copies, BagToSet

LEMMA CopiesPair ==
  ASSUME NEW B, NEW w, NEW i
  PROVE  <<w, i>> \in Copies(B) <=> w \in DOMAIN B /\ i \in 1..B[w]
BY CopiesMember

LEMMA CopiesRemove ==
  ASSUME NEW B, Counts(B), NEW w \in DOMAIN B
  PROVE  /\ Counts(Ext!BagRemove(B, w)) /\ <<w, B[w]>> \in Copies(B)
         /\ Copies(Ext!BagRemove(B, w)) = Copies(B) \ {<<w, B[w]>>}
<1> DEFINE D == Ext!BagRemove(B, w)
<1>1. CASE B[w] = 1
  <2>1. DOMAIN D = DOMAIN B \ {w} /\ \A x \in DOMAIN D : D[x] = B[x]
    BY <1>1 DEF Ext!BagRemove
  <2> HIDE DEF D
  <2>2. \A x : \A i \in 1..B[w] : i = 1
    BY <1>1
  <2>3. Copies(D) = Copies(B) \ {<<w, B[w]>>}
    <3>1. ASSUME NEW p \in Copies(D) PROVE p \in Copies(B) \ {<<w, B[w]>>}
      <4>1. PICK v \in DOMAIN D : \E i \in 1..D[v] : p = <<v, i>>
        BY CopiesMember
      <4>2. v \in DOMAIN B /\ v # w /\ D[v] = B[v]
        BY <2>1
      <4> QED BY <4>1, <4>2, CopiesMember
    <3>2. ASSUME NEW p \in Copies(B), p # <<w, B[w]>> PROVE p \in Copies(D)
      <4>1. PICK v \in DOMAIN B : \E i \in 1..B[v] : p = <<v, i>>
        BY CopiesMember
      <4>2. v # w
        BY <1>1, <3>2, <4>1
      <4> QED BY <2>1, <4>1, <4>2, CopiesMember
    <3> QED BY <3>1, <3>2
  <2>4. Counts(D) /\ <<w, B[w]>> \in Copies(B)
    BY <1>1, <2>1, CopiesMember DEF Counts
  <2> QED BY <2>3, <2>4 DEF D
<1>2. CASE B[w] # 1
  <2>1. DOMAIN D = DOMAIN B /\ D[w] = B[w] - 1 /\ \A x \in DOMAIN D : x # w => D[x] = B[x]
    BY <1>2 DEF Ext!BagRemove
  <2>2. B[w] \in Nat /\ B[w] > 1
    BY <1>2 DEF Counts
  <2> HIDE DEF D
  <2>3. 1..D[w] = (1..B[w]) \ {B[w]} /\ B[w] \in 1..B[w]
    BY <2>1, <2>2
  <2>4. Copies(D) = Copies(B) \ {<<w, B[w]>>}
    <3>1. ASSUME NEW p \in Copies(D) PROVE p \in Copies(B) \ {<<w, B[w]>>}
      <4>1. PICK v \in DOMAIN D : \E i \in 1..D[v] : p = <<v, i>>
        BY CopiesMember
      <4>2. CASE v = w
        BY <2>1, <2>3, <4>1, <4>2, CopiesMember
      <4>3. CASE v # w
        BY <2>1, <4>1, <4>3, CopiesMember
      <4> QED BY <4>2, <4>3
    <3>2. ASSUME NEW p \in Copies(B), p # <<w, B[w]>> PROVE p \in Copies(D)
      <4>1. PICK v \in DOMAIN B : \E i \in 1..B[v] : p = <<v, i>>
        BY CopiesMember
      <4>2. CASE v = w
        BY <2>1, <2>3, <3>2, <4>1, <4>2, CopiesMember
      <4>3. CASE v # w
        BY <2>1, <4>1, <4>3, CopiesMember
      <4> QED BY <4>2, <4>3
    <3> QED BY <3>1, <3>2
  <2>5. Counts(D) /\ <<w, B[w]>> \in Copies(B)
    BY <2>1, <2>2, <2>3, CopiesMember DEF Counts
  <2> QED BY <2>4, <2>5 DEF D
<1> QED BY <1>1, <1>2

LEMMA CopiesAdd ==
  ASSUME NEW B, Counts(B), NEW x
  PROVE  /\ Counts(B (+) SetToBag({x}))
         /\ \E p : /\ p \notin Copies(B)
                   /\ Copies(B (+) SetToBag({x})) = Copies(B) \union {p}
<1> DEFINE D == B (+) SetToBag({x})
           n == IF x \in DOMAIN B THEN B[x] ELSE 0
<1>1. /\ DOMAIN D = DOMAIN B \union {x}
      /\ D[x] = n + 1
      /\ \A w \in DOMAIN D : w # x => D[w] = B[w]
  BY DEF (+), SetToBag, Counts
<1>2. n \in Nat
  BY DEF Counts
<1>3. Counts(D)
  <2> HIDE DEF D, n
  <2> QED BY <1>1, <1>2 DEF Counts
<1>4. <<x, n + 1>> \notin Copies(B)
  <2>1. ASSUME x \in DOMAIN B PROVE n + 1 \notin 1..B[x]
    BY <1>2, <2>1
  <2> QED BY <2>1, CopiesPair, Zenon
<1>5. 1..D[x] = (1..n) \union {n + 1}
  <2> HIDE DEF D, n
  <2> QED BY <1>1, <1>2
<1>6. x \in DOMAIN B => 1..n = 1..B[x]
  OBVIOUS
<1>7. x \notin DOMAIN B => 1..n = {}
  OBVIOUS
<1>8. Copies(D) = Copies(B) \union {<<x, n + 1>>}
  <2> HIDE DEF D, n
  <2>1. ASSUME NEW p \in Copies(D) PROVE p \in Copies(B) \union {<<x, n + 1>>}
    <3>1. PICK w \in DOMAIN D : \E i \in 1..D[w] : p = <<w, i>>
      BY CopiesMember
    <3> QED BY <1>1, <1>5, <1>6, <1>7, <3>1, CopiesMember, Zenon
  <2>2. ASSUME NEW p \in Copies(B) PROVE p \in Copies(D)
    <3>1. PICK w \in DOMAIN B : \E i \in 1..B[w] : p = <<w, i>>
      BY CopiesMember
    <3> QED BY <1>1, <1>5, <1>6, <3>1, CopiesMember, Zenon
  <2>3. <<x, n + 1>> \in Copies(D)
    BY <1>1, <1>5, CopiesMember, Zenon
  <2> QED BY <2>1, <2>2, <2>3
<1> QED BY <1>3, <1>4, <1>8

LEMMA CopiesSame ==
  ASSUME NEW B, Counts(B)
  PROVE  Counts(B (+) SetToBag({})) /\ Copies(B (+) SetToBag({})) = Copies(B)
<1> DEFINE D == B (+) SetToBag({})
<1>1. DOMAIN D = DOMAIN B /\ \A w \in DOMAIN D : D[w] = B[w]
  BY DEF (+), SetToBag, Counts
<1> HIDE DEF D
<1>2. \A p : p \in Copies(D) <=> p \in Copies(B)
  BY <1>1, CopiesMember
<1> QED BY <1>1, <1>2 DEF D, Counts

LEMMA BagUnionSet ==
  ASSUME NEW B, NEW X
  PROVE  BagToSet(B (+) SetToBag(X)) = BagToSet(B) \union X
BY DEF BagToSet, (+), SetToBag

LEMMA GuildTypesStep ==
  LinkShape /\ GuildState /\ BagTypes /\ GuildTypes /\ Places /\ [Next]_vars => GuildTypes'
<1> SUFFICES ASSUME LinkShape, GuildState, BagTypes, GuildTypes, Places, [Next]_vars
             PROVE  GuildTypes'
  OBVIOUS
<1> DEFINE WorkersOK == \A h \in Guilds : \A w \in BagToSet(workers'[h]) :
             w.session \in Sessions /\ w.attempt \in Attempts /\ w.version \in 0..MaxVersion
           InboxOK == \A h \in Guilds : \A c \in BagToSet(inbox'[h]) : c \in Requests
           EntryOK == entry' \in [Links -> {"absent", "pending", "admitted"}]
           PendingOK == pending' \in [Links -> Attempts \union {None}]
           QueueOK == queue' \in [Guilds -> Seq(Requests)]
           DownsOK == downs' \in [Guilds -> SUBSET Sessions]
           PidOK == pid' \in [Guilds -> 0..MaxPids]
           VersionOK == version' \in [Guilds -> 0..MaxVersion]
<1>a. ASSUME WorkersOK, InboxOK, EntryOK, PendingOK, QueueOK, DownsOK, PidOK, VersionOK
      PROVE  GuildTypes'
  BY <1>a DEF GuildTypes
<1>b. ASSUME UNCHANGED <<pid, version, guildVars, inbox>> PROVE GuildTypes'
  BY <1>b DEF GuildTypes, guildVars
<1>0. /\ \A h \in Guilds : \A w \in BagToSet(workers[h]) :
           w.session \in Sessions /\ w.attempt \in Attempts /\ w.version \in 0..MaxVersion
      /\ \A h \in Guilds : \A c \in BagToSet(inbox[h]) : c \in Requests
      /\ entry \in [Links -> {"absent", "pending", "admitted"}]
      /\ pending \in [Links -> Attempts \union {None}]
      /\ queue \in [Guilds -> Seq(Requests)] /\ downs \in [Guilds -> SUBSET Sessions]
      /\ pid \in [Guilds -> 0..MaxPids] /\ version \in [Guilds -> 0..MaxVersion]
      /\ DOMAIN inbox = Guilds /\ DOMAIN workers = Guilds
  BY DEF GuildTypes, GuildState, GuildShape
<1>c. ASSUME NEW l \in Links
      PROVE  l[1] \in Sessions /\ l[2] \in Guilds /\ l = <<l[1], l[2]>>
  BY DEF Links
<1>1. ASSUME NEW l \in Links, \/ GuildConnect(l) \/ ConnectorResult(l) \/ GuildConnectTimeout(l)
                              \/ FromGuild(l) \/ FromPresence(l) \/ Moves(l)
      PROVE  GuildTypes'
  BY <1>b, <1>1 DEF GuildConnect, ConnectorResult, GuildConnectTimeout, FromGuild,
                    FromPresence, Moves
<1>2. ASSUME NEW l \in Links, Connector(l) PROVE GuildTypes'
  <2>1. UNCHANGED <<pid, version, guildVars>>
    BY <1>2 DEF Connector
  <2>2. \/ UNCHANGED inbox
        \/ \E a \in BagToSet(connectors[l]) :
             inbox' = [inbox EXCEPT ![l[2]] = Ext!BagAdd(@, [session |-> l[1], attempt |-> a])]
    BY <1>2 DEF Connector
  <2>3. InboxOK
    <3>1. ASSUME NEW a \in BagToSet(connectors[l]),
                 inbox' = [inbox EXCEPT ![l[2]] =
                             Ext!BagAdd(@, [session |-> l[1], attempt |-> a])]
          PROVE  InboxOK
      <4>1. [session |-> l[1], attempt |-> a] \in Requests
        <5>1. a \in Attempts
          BY IsBagOfElement DEF BagTypes
        <5> QED BY <1>c, <5>1 DEF Requests
      <4> QED BY <1>0, <1>c, <3>1, <4>1, BagAddSet
    <3> QED BY <1>0, <2>2, <3>1
  <2> QED BY <1>0, <1>a, <2>1, <2>3 DEF guildVars
<1>3. ASSUME NEW s \in Sessions, Ready(s) PROVE GuildTypes'
  BY <1>b, <1>3 DEF Ready
<1>4. ASSUME NEW s \in Sessions, SessionEnds(s) PROVE GuildTypes'
  <2>1. DownsOK
    BY <1>0, <1>4 DEF SessionEnds
  <2>2. UNCHANGED <<pid, version, entry, pending, queue, workers, inbox>>
    BY <1>4 DEF SessionEnds
  <2> QED BY <1>0, <1>a, <2>1, <2>2
<1>5. ASSUME NEW g \in Guilds, GuildStarts(g) PROVE GuildTypes'
  <2>1. PidOK
    <3>1. \/ UNCHANGED pid
          \/ \E p \in 1..MaxPids : pid' = [pid EXCEPT ![g] = IF @ = NoPid THEN p ELSE @]
      BY <1>5, Zenon DEF GuildStarts
    <3>2. 1..MaxPids \subseteq 0..MaxPids
      BY LimitsAssumption DEF LimitsAssumption
    <3> QED BY <1>0, <3>1, <3>2
  <2> QED BY <1>0, <1>5, <1>a, <2>1 DEF GuildStarts, guildVars
<1>6. ASSUME NEW g \in Guilds, GuildEnds(g), UNCHANGED version PROVE GuildTypes'
  <2>1. WorkersOK /\ InboxOK
    BY <1>0, <1>6, BagStart DEF GuildEnds
  <2>2. EntryOK /\ PendingOK
    BY <1>0, <1>6, <1>c DEF GuildEnds
  <2>3. QueueOK /\ DownsOK
    BY <1>0, <1>6 DEF GuildEnds
  <2>4. PidOK
    BY <1>0, <1>6, LimitsAssumption DEF GuildEnds, NoPid, LimitsAssumption
  <2> QED BY <1>0, <1>6, <1>a, <2>1, <2>2, <2>3, <2>4
<1>7. ASSUME NEW g \in Guilds, Enqueue(g) PROVE GuildTypes'
  <2>1. PICK c \in BagToSet(inbox[g]) :
          /\ c \in Requests /\ inbox' = [inbox EXCEPT ![g] = Ext!BagRemove(@, c)]
          /\ \/ UNCHANGED guildVars
             \/ /\ pending' = [pending EXCEPT ![<<c.session, g>>] = c.attempt]
                /\ entry' = [entry EXCEPT ![<<c.session, g>>] = "pending"]
                /\ downs' = [downs EXCEPT ![g] = IF alive[c.session] THEN @
                                                 ELSE @ \union {c.session}]
                /\ \/ /\ queue' = [queue EXCEPT ![g] =
                                     Append(Without(c.session, queue[g]), c)]
                      /\ workers' = [workers EXCEPT ![g] = workers[g] (+) SetToBag({})]
                   \/ /\ UNCHANGED queue
                      /\ workers' = [workers EXCEPT ![g] =
                                       workers[g] (+) SetToBag({Work(g, c)})]
    BY <1>7, EnqueueEffect, Zenon
  <2>2. UNCHANGED <<pid, version>>
    BY <1>7 DEF Enqueue
  <2>3. InboxOK
    BY <1>0, <2>1, BagRemoveSet
  <2>4. c.session \in Sessions /\ c.attempt \in Attempts
    BY <2>1 DEF Requests
  <2>5. CASE UNCHANGED guildVars
    BY <1>0, <1>a, <2>2, <2>3, <2>5 DEF guildVars
  <2>6. ASSUME entry' = [entry EXCEPT ![<<c.session, g>>] = "pending"],
               pending' = [pending EXCEPT ![<<c.session, g>>] = c.attempt],
               downs' = [downs EXCEPT ![g] = IF alive[c.session] THEN @
                                             ELSE @ \union {c.session}]
        PROVE  EntryOK /\ PendingOK /\ DownsOK
    BY <1>0, <2>4, <2>6
  <2>7. ASSUME queue' = [queue EXCEPT ![g] = Append(Without(c.session, queue[g]), c)]
               \/ UNCHANGED queue
        PROVE  QueueOK
    <3>1. Append(Without(c.session, queue[g]), c) \in Seq(Requests)
      <4>1. Without(c.session, queue[g]) \in Seq(Requests)
        BY <1>0, WithoutType
      <4> QED BY <2>1, <4>1
    <3> QED BY <1>0, <2>7, <3>1
  <2>8. ASSUME \/ workers' = [workers EXCEPT ![g] = workers[g] (+) SetToBag({})]
               \/ workers' = [workers EXCEPT ![g] = workers[g] (+) SetToBag({Work(g, c)})]
        PROVE  WorkersOK
    <3>1. /\ Work(g, c).session \in Sessions /\ Work(g, c).attempt \in Attempts
          /\ Work(g, c).version \in 0..MaxVersion
      BY <1>0, <2>4 DEF Work
    <3>2. BagToSet(workers'[g]) \subseteq BagToSet(workers[g]) \union {Work(g, c)}
      BY <1>0, <2>8, BagUnionSet
    <3>3. \A h \in Guilds : h # g => workers'[h] = workers[h]
      BY <1>0, <2>8
    <3> QED BY <1>0, <3>1, <3>2, <3>3
  <2> QED BY <1>0, <1>a, <2>1, <2>2, <2>3, <2>5, <2>6, <2>7, <2>8
<1>8. ASSUME NEW g \in Guilds, Finalize(g) PROVE GuildTypes'
  <2>1. PICK w \in BagToSet(workers[g]) :
          /\ StartWorkers(g, queue[g], busy[g] - 1, Ext!BagRemove(workers[g], w))
          /\ \/ UNCHANGED <<pending, entry>>
             \/ /\ pending' = [pending EXCEPT ![<<w.session, g>>] = None]
                /\ entry' = [entry EXCEPT ![<<w.session, g>>] = "admitted"]
    BY <1>8, Zenon DEF Finalize
  <2>2. UNCHANGED <<pid, version, downs, inbox>>
    BY <1>8 DEF Finalize
  <2> DEFINE rest == Ext!BagRemove(workers[g], w)
  <2>3. \/ /\ UNCHANGED queue
           /\ workers' = [workers EXCEPT ![g] = rest (+) SetToBag({})]
        \/ /\ queue[g] # <<>> /\ queue' = [queue EXCEPT ![g] = Tail(queue[g])]
           /\ workers' = [workers EXCEPT ![g] = rest (+) SetToBag({Work(g, Head(queue[g]))})]
    BY <2>1, FinalizeEffect, Zenon
  <2>4. BagToSet(rest) \subseteq BagToSet(workers[g])
    BY BagRemoveSet
  <2> HIDE DEF rest
  <2>5. EntryOK /\ PendingOK
    BY <1>0, <2>1
  <2>6. CASE workers' = [workers EXCEPT ![g] = rest (+) SetToBag({})] /\ UNCHANGED queue
    <3>1. WorkersOK
      BY <1>0, <2>4, <2>6, BagUnionSet
    <3> QED BY <1>0, <1>a, <2>2, <2>5, <2>6, <3>1
  <2>7. CASE /\ queue[g] # <<>> /\ queue' = [queue EXCEPT ![g] = Tail(queue[g])]
             /\ workers' = [workers EXCEPT ![g] = rest (+) SetToBag({Work(g, Head(queue[g]))})]
    <3>1. Head(queue[g]) \in Requests /\ Tail(queue[g]) \in Seq(Requests)
      BY <1>0, <2>7
    <3> DEFINE j == Work(g, Head(queue[g]))
    <3>2. j.session \in Sessions /\ j.attempt \in Attempts /\ j.version \in 0..MaxVersion
      BY <1>0, <3>1 DEF Work, Requests
    <3>3. WorkersOK
      <4> HIDE DEF j
      <4>1. workers' = [workers EXCEPT ![g] = rest (+) SetToBag({j})]
        BY <2>7 DEF j
      <4>2. BagToSet(workers'[g]) \subseteq BagToSet(workers[g]) \union {j}
        BY <1>0, <2>4, <4>1, BagUnionSet
      <4>3. \A h \in Guilds : h # g => workers'[h] = workers[h]
        BY <1>0, <4>1
      <4> QED BY <1>0, <3>2, <4>2, <4>3
    <3>4. QueueOK
      BY <1>0, <2>7, <3>1
    <3> QED BY <1>0, <1>a, <2>2, <2>5, <3>3, <3>4
  <2> QED BY <2>3, <2>6, <2>7
<1>9. ASSUME NEW g \in Guilds, SessionDown(g) PROVE GuildTypes'
  <2>1. PICK s \in downs[g] :
          \/ GuildEnds(g)
          \/ /\ downs' = [downs EXCEPT ![g] = @ \ {s}]
             /\ entry' = [entry EXCEPT ![<<s, g>>] = "absent"]
             /\ pending' = [pending EXCEPT ![<<s, g>>] = None]
             /\ queue' = [queue EXCEPT ![g] = Without(s, @)]
             /\ UNCHANGED <<pid, busy, workers, inbox, mail>>
    BY <1>9 DEF SessionDown
  <2>2. UNCHANGED version
    BY <1>9 DEF SessionDown
  <2>3. CASE ~GuildEnds(g)
    <3>1. Without(s, queue[g]) \in Seq(Requests)
      BY <1>0, WithoutType
    <3>2. QueueOK
      <4>1. queue' = [queue EXCEPT ![g] = Without(s, queue[g])]
        BY <2>1, <2>3, Zenon
      <4> QED BY <1>0, <3>1, <4>1
    <3>6. DownsOK
      <4>1. downs' = [downs EXCEPT ![g] = downs[g] \ {s}]
        BY <2>1, <2>3, Zenon
      <4> QED BY <1>0, <4>1
    <3>3. EntryOK /\ PendingOK
      BY <1>0, <2>1, <2>3
    <3>4. UNCHANGED <<pid, workers, inbox>>
      BY <2>1, <2>3
    <3>5. WorkersOK /\ InboxOK
      BY <1>0, <3>4
    <3> QED BY <1>0, <1>a, <2>2, <3>2, <3>3, <3>4, <3>5, <3>6
  <2> QED BY <1>6, <2>2, <2>3
<1>10. ASSUME NEW g \in Guilds, GuildEvent(g) PROVE GuildTypes'
  <2>1. VersionOK
    BY <1>0, <1>10, LimitsAssumption DEF GuildEvent, LimitsAssumption
  <2> QED BY <1>0, <1>10, <1>a, <2>1 DEF GuildEvent, guildVars
<1>11. ASSUME NEW g \in Guilds, BecomesAvailable(g) PROVE GuildTypes'
  BY <1>b, <1>11 DEF BecomesAvailable
<1>12. ASSUME NEW g \in Guilds, BecomesUnavailable(g) PROVE GuildTypes'
  <2>1. EntryOK /\ PendingOK
    BY <1>0, <1>12, <1>c DEF BecomesUnavailable
  <2>2. QueueOK /\ DownsOK
    BY <1>0, <1>12 DEF BecomesUnavailable
  <2> QED BY <1>0, <1>12, <1>a, <2>1, <2>2 DEF BecomesUnavailable
<1>13. ASSUME NEW g \in Guilds, GuildCrashes(g) PROVE GuildTypes'
  BY <1>6, <1>13 DEF GuildCrashes
<1>14. CASE UNCHANGED vars
  BY <1>b, <1>14 DEF vars
<1> QED
  BY <1>1, <1>2, <1>3, <1>4, <1>5, <1>7, <1>8, <1>9, <1>10, <1>11, <1>12, <1>13, <1>14
     DEF Next

\* A place is taken when a worker starts and given back when one is done, whoever
\* they work for; while requests wait none is free.
LEMMA PlacesStep == GuildState /\ GuildTypes /\ Places /\ [Next]_vars => Places'
<1> SUFFICES ASSUME GuildState, GuildTypes, Places, [Next]_vars PROVE Places'
  OBVIOUS
<1>0. /\ busy \in [Guilds -> 0..MaxWorkers] /\ DOMAIN workers = Guilds /\ DOMAIN queue = Guilds
      /\ \A h \in Guilds : /\ busy[h] \in 0..MaxWorkers /\ Counts(workers[h])
                           /\ IsFiniteSet(Copies(workers[h]))
                           /\ Cardinality(Copies(workers[h])) = busy[h]
                           /\ queue[h] # <<>> => busy[h] = MaxWorkers
  BY Zenon DEF Places, GuildState, GuildShape, GuildTypes, Counts, Running, Copies
<1>a. ASSUME busy' \in [Guilds -> 0..MaxWorkers], NEW g \in Guilds,
             \A h \in Guilds : h # g => /\ busy'[h] = busy[h] /\ workers'[h] = workers[h]
                                        /\ queue'[h] = queue[h],
             Counts(workers'[g]),
             IsFiniteSet(Copies(workers'[g])), Cardinality(Copies(workers'[g])) = busy'[g],
             queue'[g] # <<>> => busy'[g] = MaxWorkers
      PROVE  Places'
  <2>1. \A h \in Guilds : /\ busy'[h] \in 0..MaxWorkers /\ Counts(workers'[h])
                          /\ IsFiniteSet(Copies(workers'[h]))
                          /\ Cardinality(Copies(workers'[h])) = busy'[h]
                          /\ queue'[h] # <<>> => busy'[h] = MaxWorkers
    BY <1>0, <1>a
  <2> QED BY <1>a, <2>1, Zenon DEF Places, Counts, Running, Copies
<1>b. ASSUME UNCHANGED <<queue, busy, workers>> PROVE Places'
  BY <1>b DEF Places, Running
<1>1. ASSUME NEW g \in Guilds, GuildEnds(g) PROVE Places'
  <2>1. busy'[g] = 0 /\ workers'[g] = EmptyBag /\ queue'[g] = <<>>
    BY <1>0, <1>1 DEF GuildEnds
  <2>2. \A h \in Guilds : h # g => /\ busy'[h] = busy[h] /\ workers'[h] = workers[h]
                                   /\ queue'[h] = queue[h]
    BY <1>0, <1>1 DEF GuildEnds
  <2>3. Counts(EmptyBag) /\ Copies(EmptyBag) = {}
    BY BagStart DEF Counts, Copies, EmptyBag, SetToBag
  <2>4. busy' \in [Guilds -> 0..MaxWorkers]
    BY <1>0, <1>1, LimitsAssumption DEF LimitsAssumption, GuildEnds
  <2> QED BY <1>a, <2>1, <2>2, <2>3, <2>4, FS_EmptySet
<1>2. ASSUME NEW g \in Guilds, Enqueue(g) PROVE Places'
  <2>1. CASE UNCHANGED guildVars
    BY <1>b, <2>1 DEF guildVars
  <2>2. ASSUME NEW q, busy[g] = MaxWorkers, UNCHANGED busy,
               queue' = [queue EXCEPT ![g] = q],
               workers' = [workers EXCEPT ![g] = workers[g] (+) SetToBag({})]
        PROVE  Places'
    <3>1. /\ workers'[g] = workers[g] (+) SetToBag({}) /\ busy'[g] = MaxWorkers
          /\ \A h \in Guilds : h # g => /\ busy'[h] = busy[h] /\ workers'[h] = workers[h]
                                         /\ queue'[h] = queue[h]
      BY <1>0, <2>2
    <3>2. Counts(workers'[g]) /\ Copies(workers'[g]) = Copies(workers[g])
      BY <1>0, <3>1, CopiesSame
    <3> QED BY <1>0, <1>a, <2>2, <3>1, <3>2
  <2>3. ASSUME NEW j, busy[g] < MaxWorkers, busy' = [busy EXCEPT ![g] = busy[g] + 1],
               queue[g] = <<>>, UNCHANGED queue,
               workers' = [workers EXCEPT ![g] = workers[g] (+) SetToBag({j})]
        PROVE  Places'
    <3>1. /\ workers'[g] = workers[g] (+) SetToBag({j}) /\ busy'[g] = busy[g] + 1
          /\ \A h \in Guilds : h # g => /\ busy'[h] = busy[h] /\ workers'[h] = workers[h]
                                         /\ queue'[h] = queue[h]
      BY <1>0, <2>3
    <3>a. /\ Counts(workers[g] (+) SetToBag({j}))
          /\ \E p : /\ p \notin Copies(workers[g])
                    /\ Copies(workers[g] (+) SetToBag({j})) = Copies(workers[g]) \union {p}
      BY <1>0, CopiesAdd
    <3>2. PICK p : /\ p \notin Copies(workers[g])
                   /\ Copies(workers'[g]) = Copies(workers[g]) \union {p}
      BY <3>1, <3>a, Zenon
    <3>3. Counts(workers'[g])
      BY <3>1, <3>a, Zenon
    <3>4. /\ IsFiniteSet(Copies(workers'[g]))
          /\ Cardinality(Copies(workers'[g])) = Cardinality(Copies(workers[g])) + 1
      BY <1>0, <3>2, FS_AddElement
    <3>5. busy' \in [Guilds -> 0..MaxWorkers]
      BY <1>0, <2>3, LimitsAssumption DEF LimitsAssumption
    <3> QED BY <1>0, <1>a, <2>3, <3>1, <3>3, <3>4, <3>5
  <2> QED BY <1>2, <2>1, <2>2, <2>3, EnqueueEffect
<1>3. ASSUME NEW g \in Guilds, Finalize(g) PROVE Places'
  <2>1. PICK w \in BagToSet(workers[g]) :
          StartWorkers(g, queue[g], busy[g] - 1, Ext!BagRemove(workers[g], w))
    BY <1>3, Zenon DEF Finalize
  <2> DEFINE rest == Ext!BagRemove(workers[g], w)
             p == <<w, workers[g][w]>>
  <2>2. /\ Counts(rest) /\ p \in Copies(workers[g])
        /\ Copies(rest) = Copies(workers[g]) \ {p}
    BY <1>0, CopiesRemove DEF BagToSet
  <2>3. \/ /\ queue[g] = <<>> /\ UNCHANGED queue
           /\ busy' = [busy EXCEPT ![g] = busy[g] - 1]
           /\ workers' = [workers EXCEPT ![g] = rest (+) SetToBag({})]
        \/ /\ busy[g] = MaxWorkers /\ UNCHANGED busy
           /\ queue' = [queue EXCEPT ![g] = Tail(queue[g])]
           /\ workers' = [workers EXCEPT ![g] = rest (+) SetToBag({Work(g, Head(queue[g]))})]
    BY <2>1, FinalizeEffect, Zenon
  <2> HIDE DEF rest, p
  <2>4. /\ IsFiniteSet(Copies(rest)) /\ busy[g] \in Nat
        /\ Cardinality(Copies(rest)) = busy[g] - 1 /\ Cardinality(Copies(rest)) \in Nat
    BY <1>0, <2>2, FS_RemoveElement, FS_CardinalityType
  <2>5. CASE /\ queue[g] = <<>> /\ UNCHANGED queue
             /\ busy' = [busy EXCEPT ![g] = busy[g] - 1]
             /\ workers' = [workers EXCEPT ![g] = rest (+) SetToBag({})]
    <3>1. /\ workers'[g] = rest (+) SetToBag({}) /\ busy'[g] = busy[g] - 1
          /\ \A h \in Guilds : h # g => /\ busy'[h] = busy[h] /\ workers'[h] = workers[h]
                                         /\ queue'[h] = queue[h]
      BY <1>0, <2>5
    <3>2. Counts(workers'[g]) /\ Copies(workers'[g]) = Copies(rest)
      BY <2>2, <3>1, CopiesSame
    <3>3. busy' \in [Guilds -> 0..MaxWorkers]
      BY <1>0, <2>4, <2>5, LimitsAssumption DEF LimitsAssumption
    <3> QED BY <1>a, <2>4, <2>5, <3>1, <3>2, <3>3
  <2>6. ASSUME NEW j, busy[g] = MaxWorkers, UNCHANGED busy,
               queue' = [queue EXCEPT ![g] = Tail(queue[g])],
               workers' = [workers EXCEPT ![g] = rest (+) SetToBag({j})]
        PROVE  Places'
    <3>1. /\ workers'[g] = rest (+) SetToBag({j}) /\ busy'[g] = MaxWorkers
          /\ \A h \in Guilds : h # g => /\ busy'[h] = busy[h] /\ workers'[h] = workers[h]
                                         /\ queue'[h] = queue[h]
      BY <1>0, <2>6
    <3>a. /\ Counts(rest (+) SetToBag({j}))
          /\ \E x : x \notin Copies(rest)
                    /\ Copies(rest (+) SetToBag({j})) = Copies(rest) \union {x}
      BY <2>2, CopiesAdd
    <3>2. PICK x : x \notin Copies(rest) /\ Copies(workers'[g]) = Copies(rest) \union {x}
      BY <3>1, <3>a, Zenon
    <3>3. Counts(workers'[g])
      BY <3>1, <3>a, Zenon
    <3>4. /\ IsFiniteSet(Copies(workers'[g]))
          /\ Cardinality(Copies(workers'[g])) = Cardinality(Copies(rest)) + 1
      BY <2>4, <3>2, FS_AddElement
    <3>5. Cardinality(Copies(workers'[g])) = busy[g]
      BY <2>4, <3>4
    <3> QED BY <1>0, <1>a, <2>6, <3>1, <3>3, <3>4, <3>5
  <2> QED BY <2>3, <2>5, <2>6
<1>4. ASSUME NEW g \in Guilds, SessionDown(g) PROVE Places'
  <2>1. CASE GuildEnds(g)
    BY <1>1, <2>1
  <2>2. CASE ~GuildEnds(g)
    <3>1. PICK s : queue' = [queue EXCEPT ![g] = Without(s, queue[g])]
      BY <1>4, <2>2, Zenon DEF SessionDown
    <3>2. UNCHANGED <<busy, workers>>
      BY <1>4, <2>2, Zenon DEF SessionDown
    <3>3. queue[g] = <<>> => Without(s, queue[g]) = <<>>
      BY WithoutType DEF GuildTypes
    <3>4. /\ queue'[g] = Without(s, queue[g])
          /\ \A h \in Guilds : h # g => queue'[h] = queue[h]
      BY <1>0, <3>1
    <3> QED BY <1>0, <1>a, <3>2, <3>3, <3>4
  <2> QED BY <2>1, <2>2
<1>5. ASSUME NEW g \in Guilds, BecomesUnavailable(g) PROVE Places'
  <2>1. UNCHANGED <<busy, workers>> /\ queue' = [queue EXCEPT ![g] = <<>>]
    BY <1>5 DEF BecomesUnavailable
  <2>2. queue'[g] = <<>> /\ \A h \in Guilds : h # g => queue'[h] = queue[h]
    BY <1>0, <2>1
  <2> QED BY <1>0, <1>a, <2>1, <2>2
<1>6. ASSUME NEW l \in Links, \/ GuildConnect(l) \/ ConnectorResult(l) \/ GuildConnectTimeout(l)
                              \/ FromGuild(l) \/ FromPresence(l) \/ Connector(l) \/ Moves(l)
      PROVE  Places'
  BY <1>b, <1>6 DEF GuildConnect, ConnectorResult, GuildConnectTimeout, FromGuild,
                    FromPresence, Connector, Moves, guildVars
<1>7. ASSUME NEW s \in Sessions, Ready(s) \/ SessionEnds(s) PROVE Places'
  BY <1>b, <1>7 DEF Ready, SessionEnds, guildVars
<1>8. ASSUME NEW g \in Guilds, GuildStarts(g) \/ GuildEvent(g) \/ BecomesAvailable(g)
      PROVE  Places'
  BY <1>b, <1>8 DEF GuildStarts, GuildEvent, BecomesAvailable, guildVars
<1>9. ASSUME NEW g \in Guilds, GuildCrashes(g) PROVE Places'
  BY <1>1, <1>9 DEF GuildCrashes
<1>10. CASE UNCHANGED vars
  BY <1>b, <1>10 DEF vars, guildVars
<1> QED BY <1>2, <1>3, <1>4, <1>5, <1>6, <1>7, <1>8, <1>9, <1>10 DEF Next

-----------------------------------------------------------------------------
(***************************************************************************)
(* What is pending is queued or worked on.                                 *)
(***************************************************************************)
\* A request of session s for its attempt a is queued or worked on.
Waits(s, g, a) ==
  \/ \E i \in DOMAIN queue[g] : queue[g][i] = [session |-> s, attempt |-> a]
  \/ \E w \in BagToSet(workers[g]) : w.session = s /\ w.attempt = a

\* Requests of the other sessions stay where they are when a request is queued.
LEMMA EnqueueKeeps ==
  ASSUME GuildTypes, Places, NEW g \in Guilds, NEW c \in Requests,
         \/ /\ queue' = [queue EXCEPT ![g] = Append(Without(c.session, queue[g]), c)]
            /\ workers' = [workers EXCEPT ![g] = workers[g] (+) SetToBag({})]
         \/ /\ queue[g] = <<>> /\ UNCHANGED queue
            /\ workers' = [workers EXCEPT ![g] = workers[g] (+) SetToBag({Work(g, c)})],
         DOMAIN workers = Guilds
  PROVE  /\ Waits(c.session, g, c.attempt)'
         /\ \A s, a : s # c.session /\ Waits(s, g, a) => Waits(s, g, a)'
<1>0. /\ queue[g] \in Seq(Requests) /\ DOMAIN queue = Guilds
      /\ c = [session |-> c.session, attempt |-> c.attempt]
  BY DEF GuildTypes, Requests
<1>1. CASE /\ queue' = [queue EXCEPT ![g] = Append(Without(c.session, queue[g]), c)]
           /\ workers' = [workers EXCEPT ![g] = workers[g] (+) SetToBag({})]
  <2> DEFINE q == Without(c.session, queue[g])
  <2>1. /\ q \in Seq(Requests)
        /\ \A i \in DOMAIN queue[g] : queue[g][i].session # c.session =>
             \E j \in DOMAIN q : q[j] = queue[g][i]
    BY <1>0, WithoutType, Zenon
  <2>2. BagToSet(workers[g] (+) SetToBag({})) = BagToSet(workers[g])
    <3>1. BagToSet(workers[g] (+) SetToBag({})) = BagToSet(workers[g]) \union {}
      BY BagUnionSet, Zenon
    <3> QED BY <3>1
  <2>3. queue'[g] = Append(q, c) /\ BagToSet(workers'[g]) = BagToSet(workers[g])
    BY <1>0, <1>1, <2>2
  <2> HIDE DEF q
  <2>4. /\ Append(q, c)[Len(q) + 1] = c /\ Len(q) + 1 \in DOMAIN Append(q, c)
        /\ \A j \in DOMAIN q : j \in DOMAIN Append(q, c) /\ Append(q, c)[j] = q[j]
    BY <2>1
  <2>5. Waits(c.session, g, c.attempt)'
    BY <1>0, <2>3, <2>4, Zenon DEF Waits
  <2>6. ASSUME NEW s, NEW a, s # c.session, Waits(s, g, a) PROVE Waits(s, g, a)'
    <3>1. CASE \E w \in BagToSet(workers[g]) : w.session = s /\ w.attempt = a
      BY <2>3, <3>1, Zenon DEF Waits
    <3>2. ASSUME NEW i \in DOMAIN queue[g], queue[g][i] = [session |-> s, attempt |-> a]
          PROVE  Waits(s, g, a)'
      <4>1. queue[g][i].session # c.session
        BY <2>6, <3>2
      <4>2. PICK j \in DOMAIN q : q[j] = queue[g][i]
        BY <2>1, <4>1, Zenon
      <4>3. j \in DOMAIN queue'[g] /\ queue'[g][j] = [session |-> s, attempt |-> a]
        BY <2>3, <2>4, <3>2, <4>2, Zenon
      <4> QED BY <4>3, Zenon DEF Waits
    <3> QED BY <2>6, <3>1, <3>2, Zenon DEF Waits
  <2> QED BY <2>5, <2>6
<1>2. CASE /\ queue[g] = <<>> /\ UNCHANGED queue
           /\ workers' = [workers EXCEPT ![g] = workers[g] (+) SetToBag({Work(g, c)})]
  <2>1. BagToSet(workers[g] (+) SetToBag({Work(g, c)})) = BagToSet(workers[g]) \union {Work(g, c)}
    BY BagUnionSet
  <2>2. BagToSet(workers'[g]) = BagToSet(workers[g]) \union {Work(g, c)}
    BY <1>2, <2>1
  <2>3. Work(g, c).session = c.session /\ Work(g, c).attempt = c.attempt
    BY DEF Work
  <2>4. Waits(c.session, g, c.attempt)'
    BY <2>2, <2>3 DEF Waits
  <2>5. ASSUME NEW s, NEW a, Waits(s, g, a) PROVE Waits(s, g, a)'
    BY <1>2, <2>2, <2>5 DEF Waits
  <2> QED BY <2>4, <2>5
<1> QED BY <1>1, <1>2

\* Only the work of the worker that is done is taken away; the first request
\* of the queue becomes work.
LEMMA FinalizeKeeps ==
  ASSUME GuildTypes, Places, NEW g \in Guilds, NEW w \in BagToSet(workers[g]),
         StartWorkers(g, queue[g], busy[g] - 1, Ext!BagRemove(workers[g], w)),
         DOMAIN workers = Guilds
  PROVE  \A s, a : Waits(s, g, a) /\ ~(w.session = s /\ w.attempt = a) => Waits(s, g, a)'
<1> DEFINE rest == Ext!BagRemove(workers[g], w)
<1>0. /\ queue[g] \in Seq(Requests) /\ DOMAIN queue = Guilds
      /\ \A x \in DOMAIN workers[g] : workers[g][x] \in Nat \ {0}
  BY DEF GuildTypes, Places
<1>1. \A x \in BagToSet(workers[g]) : x # w => x \in BagToSet(rest)
  BY <1>0, BagRemoveSet
<1>2. \/ /\ queue[g] = <<>> /\ UNCHANGED queue
         /\ workers' = [workers EXCEPT ![g] = rest (+) SetToBag({})]
      \/ /\ queue[g] # <<>> /\ queue' = [queue EXCEPT ![g] = Tail(queue[g])]
         /\ workers' = [workers EXCEPT ![g] = rest (+) SetToBag({Work(g, Head(queue[g]))})]
  BY FinalizeEffect, Zenon
<1> HIDE DEF rest
<1>3. SUFFICES ASSUME NEW s, NEW a, Waits(s, g, a), ~(w.session = s /\ w.attempt = a)
               PROVE  Waits(s, g, a)'
  BY Zenon
<1>4. \A X : BagToSet(rest (+) SetToBag(X)) = BagToSet(rest) \union X
  BY BagUnionSet
<1>5. BagToSet(rest) \subseteq BagToSet(workers'[g])
  BY <1>2, <1>4
<1>6. CASE \E x \in BagToSet(workers[g]) : x.session = s /\ x.attempt = a
  BY <1>1, <1>3, <1>5, <1>6 DEF Waits
<1>7. ASSUME NEW i \in DOMAIN queue[g], queue[g][i] = [session |-> s, attempt |-> a]
      PROVE  Waits(s, g, a)'
  <2>1. queue[g] # <<>>
    BY <1>0, <1>7
  <2>2. /\ queue'[g] = Tail(queue[g])
        /\ BagToSet(workers'[g]) = BagToSet(rest) \union {Work(g, Head(queue[g]))}
    BY <1>0, <1>2, <1>4, <2>1
  <2>3. CASE i = 1
    <3>1. Head(queue[g]) = [session |-> s, attempt |-> a]
      BY <1>0, <1>7, <2>1, <2>3
    <3>2. Work(g, Head(queue[g])).session = s /\ Work(g, Head(queue[g])).attempt = a
      BY <3>1 DEF Work
    <3> QED BY <2>2, <3>2 DEF Waits
  <2>4. CASE i # 1
    <3>1. i - 1 \in DOMAIN Tail(queue[g]) /\ Tail(queue[g])[i - 1] = queue[g][i]
      BY <1>0, <1>7, <2>1, <2>4
    <3> QED BY <1>7, <2>2, <3>1, Zenon DEF Waits
  <2> QED BY <2>3, <2>4
<1> QED BY <1>3, <1>6, <1>7, Zenon DEF Waits

LEMMA PendingServedStep ==
  GuildState /\ GuildTypes /\ Places /\ PendingServed /\ [Next]_vars => PendingServed'
<1> SUFFICES ASSUME GuildState, GuildTypes, Places, PendingServed, [Next]_vars
             PROVE  PendingServed'
  OBVIOUS
<1>0. /\ DOMAIN workers = Guilds /\ DOMAIN queue = Guilds
      /\ DOMAIN entry = Links /\ DOMAIN pending = Links
      /\ \A l \in Links : l[1] \in Sessions /\ l[2] \in Guilds /\ l = <<l[1], l[2]>>
  BY DEF GuildTypes, GuildState, GuildShape, Links
<1>a. \A l \in Links : /\ entry[l] = "pending" <=> pending[l] # None
                       /\ \A a : a = pending[l] /\ a # None => Waits(l[1], l[2], a)
  BY Zenon DEF PendingServed, Waits
<1>b. ASSUME \A l \in Links : /\ entry'[l] = "pending" <=> pending'[l] # None
                              /\ \A a : a = pending'[l] /\ a # None => Waits(l[1], l[2], a)'
      PROVE  PendingServed'
  BY <1>b, Zenon DEF PendingServed, Waits
<1>c. ASSUME UNCHANGED <<entry, pending, queue, workers>> PROVE PendingServed'
  BY <1>c, Zenon DEF PendingServed
<1>d. ASSUME NEW g \in Guilds,
             \A h \in Guilds : h # g => queue'[h] = queue[h] /\ workers'[h] = workers[h],
             \A l \in Links : IF l[2] = g THEN entry'[l] = "absent" /\ pending'[l] = None
                                          ELSE entry'[l] = entry[l] /\ pending'[l] = pending[l]
      PROVE  PendingServed'
  <2> SUFFICES ASSUME NEW l \in Links
               PROVE  /\ entry'[l] = "pending" <=> pending'[l] # None
                      /\ \A a : a = pending'[l] /\ a # None => Waits(l[1], l[2], a)'
    BY <1>b
  <2>1. CASE l[2] = g
    BY <1>d, <2>1
  <2>2. CASE l[2] # g
    <3>1. entry'[l] = entry[l] /\ pending'[l] = pending[l]
      BY <1>d, <2>2
    <3>2. \A a : Waits(l[1], l[2], a) => Waits(l[1], l[2], a)'
      BY <1>0, <1>d, <2>2, <3>1, Zenon DEF Waits
    <3> QED BY <1>a, <3>1, <3>2
  <2> QED BY <2>1, <2>2
<1>1. ASSUME NEW g \in Guilds, GuildEnds(g) PROVE PendingServed'
  BY <1>0, <1>1, <1>d DEF GuildEnds
<1>2. ASSUME NEW g \in Guilds, BecomesUnavailable(g) PROVE PendingServed'
  BY <1>0, <1>2, <1>d DEF BecomesUnavailable
<1>3. ASSUME NEW g \in Guilds, SessionDown(g) PROVE PendingServed'
  <2>1. CASE GuildEnds(g)
    BY <1>1, <2>1
  <2>2. CASE ~GuildEnds(g)
    <3>1. PICK s \in downs[g] : /\ entry' = [entry EXCEPT ![<<s, g>>] = "absent"]
                                /\ pending' = [pending EXCEPT ![<<s, g>>] = None]
                                /\ queue' = [queue EXCEPT ![g] = Without(s, queue[g])]
                                /\ UNCHANGED workers
      BY <1>0, <1>3, <2>2, Zenon DEF SessionDown
    <3>2. queue[g] \in Seq(Requests)
      BY DEF GuildTypes
    <3>3. /\ Without(s, queue[g]) \in Seq(Requests)
          /\ \A i \in DOMAIN queue[g] : queue[g][i].session # s =>
               \E j \in DOMAIN Without(s, queue[g]) : Without(s, queue[g])[j] = queue[g][i]
      BY <3>2, WithoutType
    <3>4. queue'[g] = Without(s, queue[g]) /\ \A h \in Guilds : h # g => queue'[h] = queue[h]
      BY <1>0, <3>1
    <3> SUFFICES ASSUME NEW l \in Links
                 PROVE  /\ entry'[l] = "pending" <=> pending'[l] # None
                        /\ \A a : a = pending'[l] /\ a # None => Waits(l[1], l[2], a)'
      BY <1>b
    <3>5. CASE l = <<s, g>>
      BY <1>0, <3>1, <3>5
    <3>6. CASE l # <<s, g>>
      <4>1. entry'[l] = entry[l] /\ pending'[l] = pending[l]
        BY <1>0, <3>1, <3>6
      <4>2. ASSUME NEW a, a = pending[l], a # None PROVE Waits(l[1], l[2], a)'
        <5>1. Waits(l[1], l[2], a)
          BY <1>a, <4>2
        <5>2. CASE l[2] # g
          BY <1>0, <3>1, <3>4, <4>1, <5>1, <5>2, Zenon DEF Waits
        <5>3. CASE l[2] = g
          <6>1. l[1] # s
            BY <1>0, <3>6, <5>3
          <6>2. CASE \E w \in BagToSet(workers[l[2]]) : w.session = l[1] /\ w.attempt = a
            BY <3>1, <4>1, <6>2, Zenon DEF Waits
          <6>3. ASSUME NEW i \in DOMAIN queue[g],
                       queue[g][i] = [session |-> l[1], attempt |-> a]
                PROVE  Waits(l[1], l[2], a)'
            <7>1. queue[g][i].session # s
              BY <6>1, <6>3
            <7>2. PICK j \in DOMAIN queue'[g] : queue'[g][j] = queue[g][i]
              BY <3>3, <3>4, <6>3, <7>1, Zenon
            <7> QED BY <4>1, <5>3, <6>3, <7>2, Zenon DEF Waits
          <6> QED BY <5>1, <5>3, <6>2, <6>3, Zenon DEF Waits
        <5> QED BY <5>2, <5>3
      <4> QED BY <1>a, <4>1, <4>2
    <3> QED BY <3>5, <3>6
  <2> QED BY <2>1, <2>2
<1>4. ASSUME NEW g \in Guilds, Enqueue(g) PROVE PendingServed'
  <2>1. CASE UNCHANGED guildVars
    BY <1>c, <2>1 DEF guildVars
  <2>2. ASSUME NEW c \in Requests,
               pending' = [pending EXCEPT ![<<c.session, g>>] = c.attempt],
               entry' = [entry EXCEPT ![<<c.session, g>>] = "pending"],
               \/ /\ queue' = [queue EXCEPT ![g] = Append(Without(c.session, queue[g]), c)]
                  /\ workers' = [workers EXCEPT ![g] = workers[g] (+) SetToBag({})]
               \/ /\ queue[g] = <<>> /\ UNCHANGED queue
                  /\ workers' = [workers EXCEPT ![g] = workers[g] (+) SetToBag({Work(g, c)})]
        PROVE  PendingServed'
    <3>1. /\ Waits(c.session, g, c.attempt)'
          /\ \A s, a : s # c.session /\ Waits(s, g, a) => Waits(s, g, a)'
      BY <1>0, <2>2, EnqueueKeeps, Zenon
    <3>2. \A h \in Guilds : h # g => queue'[h] = queue[h] /\ workers'[h] = workers[h]
      BY <1>0, <2>2
    <3>3. c.attempt # None /\ <<c.session, g>> \in Links
      BY LimitsAssumption DEF LimitsAssumption, Requests, Attempts, None, Links
    <3> SUFFICES ASSUME NEW l \in Links
                 PROVE  /\ entry'[l] = "pending" <=> pending'[l] # None
                        /\ \A a : a = pending'[l] /\ a # None => Waits(l[1], l[2], a)'
      BY <1>b
    <3>4. CASE l = <<c.session, g>>
      <4>1. entry'[l] = "pending" /\ pending'[l] = c.attempt /\ l[1] = c.session /\ l[2] = g
        BY <1>0, <2>2, <3>4
      <4> QED BY <3>1, <3>3, <4>1, Zenon DEF Waits
    <3>5. CASE l # <<c.session, g>>
      <4>1. entry'[l] = entry[l] /\ pending'[l] = pending[l]
        BY <1>0, <2>2, <3>5
      <4>2. ASSUME NEW a, a = pending[l], a # None PROVE Waits(l[1], l[2], a)'
        <5>1. Waits(l[1], l[2], a)
          BY <1>a, <4>2
        <5>2. CASE l[2] # g
          BY <1>0, <3>2, <4>1, <5>1, <5>2, Zenon DEF Waits
        <5>3. CASE l[2] = g
          <6>1. l[1] # c.session
            BY <1>0, <3>5, <5>3
          <6>2. Waits(l[1], g, a)
            BY <5>1, <5>3, Zenon
          <6>3. Waits(l[1], g, a)'
            BY <3>1, <6>1, <6>2, Zenon
          <6> QED BY <5>3, <6>3, Zenon
        <5> QED BY <5>2, <5>3
      <4> QED BY <1>a, <4>1, <4>2
    <3> QED BY <3>4, <3>5
  <2> QED BY <1>4, <2>1, <2>2, EnqueueEffect
<1>5. ASSUME NEW g \in Guilds, Finalize(g) PROVE PendingServed'
  <2>1. PICK w \in BagToSet(workers[g]) :
          /\ StartWorkers(g, queue[g], busy[g] - 1, Ext!BagRemove(workers[g], w))
          /\ \/ pending[<<w.session, g>>] # w.attempt /\ UNCHANGED <<pending, entry>>
             \/ /\ pending' = [pending EXCEPT ![<<w.session, g>>] = None]
                /\ entry' = [entry EXCEPT ![<<w.session, g>>] = "admitted"]
    BY <1>5, Zenon DEF Finalize
  <2>2. \A s, a : Waits(s, g, a) /\ ~(w.session = s /\ w.attempt = a) => Waits(s, g, a)'
    BY <1>0, <2>1, FinalizeKeeps, Zenon
  <2>3. \A h \in Guilds : h # g => queue'[h] = queue[h] /\ workers'[h] = workers[h]
    BY <1>0, <2>1 DEF StartWorkers, Start
  <2>4. <<w.session, g>> \in Links
    BY DEF GuildTypes, Links
  <2>5. \A l \in Links : \/ entry'[l] = entry[l] /\ pending'[l] = pending[l]
                            /\ ~(l[2] = g /\ w.session = l[1] /\ w.attempt = pending[l])
                         \/ entry'[l] = "admitted" /\ pending'[l] = None
    <3> SUFFICES ASSUME NEW l \in Links
                 PROVE  \/ entry'[l] = entry[l] /\ pending'[l] = pending[l]
                            /\ ~(l[2] = g /\ w.session = l[1] /\ w.attempt = pending[l])
                        \/ entry'[l] = "admitted" /\ pending'[l] = None
      OBVIOUS
    <3>1. CASE l = <<w.session, g>>
      BY <1>0, <2>1, <3>1
    <3>2. CASE l # <<w.session, g>>
      BY <1>0, <2>1, <3>2
    <3> QED BY <3>1, <3>2
  <2> SUFFICES ASSUME NEW l \in Links
               PROVE  /\ entry'[l] = "pending" <=> pending'[l] # None
                      /\ \A a : a = pending'[l] /\ a # None => Waits(l[1], l[2], a)'
    BY <1>b
  <2>6. CASE entry'[l] = "admitted" /\ pending'[l] = None
    BY <2>6
  <2>7. CASE /\ entry'[l] = entry[l] /\ pending'[l] = pending[l]
             /\ ~(l[2] = g /\ w.session = l[1] /\ w.attempt = pending[l])
    <3>1. ASSUME NEW a, a = pending[l], a # None PROVE Waits(l[1], l[2], a)'
      <4>1. Waits(l[1], l[2], a)
        BY <1>a, <3>1
      <4>2. CASE l[2] # g
        BY <1>0, <2>3, <2>7, <4>1, <4>2, Zenon DEF Waits
      <4>3. CASE l[2] = g
        <5>1. Waits(l[1], g, a) /\ ~(w.session = l[1] /\ w.attempt = a)
          BY <2>7, <3>1, <4>1, <4>3, Zenon
        <5>2. Waits(l[1], g, a)'
          BY <2>2, <5>1, Zenon
        <5> QED BY <4>3, <5>2, Zenon
      <4> QED BY <4>2, <4>3
    <3> QED BY <1>a, <2>7, <3>1
  <2> QED BY <2>5, <2>6, <2>7
<1>6. ASSUME NEW l \in Links, \/ GuildConnect(l) \/ ConnectorResult(l) \/ GuildConnectTimeout(l)
                              \/ FromGuild(l) \/ FromPresence(l) \/ Connector(l) \/ Moves(l)
      PROVE  PendingServed'
  BY <1>c, <1>6 DEF GuildConnect, ConnectorResult, GuildConnectTimeout, FromGuild,
                    FromPresence, Connector, Moves, guildVars
<1>7. ASSUME NEW s \in Sessions, Ready(s) \/ SessionEnds(s) PROVE PendingServed'
  BY <1>c, <1>7 DEF Ready, SessionEnds, guildVars
<1>8. ASSUME NEW g \in Guilds, GuildStarts(g) \/ GuildEvent(g) \/ BecomesAvailable(g)
      PROVE  PendingServed'
  BY <1>c, <1>8 DEF GuildStarts, GuildEvent, BecomesAvailable, guildVars
<1>9. ASSUME NEW g \in Guilds, GuildCrashes(g) PROVE PendingServed'
  BY <1>1, <1>9 DEF GuildCrashes
<1>10. CASE UNCHANGED vars
  BY <1>c, <1>10 DEF vars, guildVars
<1> QED BY <1>1, <1>2, <1>3, <1>4, <1>5, <1>6, <1>7, <1>8, <1>9, <1>10 DEF Next

-----------------------------------------------------------------------------
(***************************************************************************)
(* Who has ended is known to have ended.                                   *)
(***************************************************************************)
\* A guild is only told of the end of sessions that have ended.
DownsAreDead == \A g \in Guilds : \A s \in downs[g] : ~alive[s]

LEMMA DeadSessionsLeaveStep ==
  /\ PresenceShape /\ GuildState /\ GuildTypes /\ Places /\ PendingServed
  /\ DownsAreDead /\ DeadSessionsLeave /\ [Next]_vars
  => DownsAreDead' /\ DeadSessionsLeave'
<1> SUFFICES ASSUME PresenceShape, GuildState, GuildTypes, Places, PendingServed,
                    DownsAreDead, DeadSessionsLeave, [Next]_vars
             PROVE  DownsAreDead' /\ DeadSessionsLeave'
  OBVIOUS
<1>0. /\ DOMAIN alive = Sessions /\ DOMAIN downs = Guilds /\ DOMAIN entry = Links
      /\ \A l \in Links : l[1] \in Sessions /\ l[2] \in Guilds /\ l = <<l[1], l[2]>>
  BY DEF PresenceShape, GuildTypes, Links
<1>a. ASSUME \A s \in Sessions : alive'[s] = alive[s],
             \A h \in Guilds : downs'[h] \subseteq downs[h],
             \A l \in Links : \/ entry'[l] = "absent"
                              \/ /\ entry[l] # "absent"
                                 /\ l[1] \in downs[l[2]] => l[1] \in downs'[l[2]]
      PROVE  DownsAreDead' /\ DeadSessionsLeave'
  <2>1. DownsAreDead'
    BY <1>0, <1>a DEF DownsAreDead, GuildTypes
  <2>2. DeadSessionsLeave'
    BY <1>0, <1>a DEF DeadSessionsLeave
  <2> QED BY <2>1, <2>2
<1>c. ASSUME UNCHANGED <<alive, entry, downs>> PROVE DownsAreDead' /\ DeadSessionsLeave'
  BY <1>c DEF DownsAreDead, DeadSessionsLeave
<1>1. ASSUME NEW g \in Guilds, GuildEnds(g), UNCHANGED alive
      PROVE  DownsAreDead' /\ DeadSessionsLeave'
  <2>1. downs' = [downs EXCEPT ![g] = {}]
    BY <1>1 DEF GuildEnds
  <2>2. \A l \in Links : entry'[l] = IF l[2] = g THEN "absent" ELSE entry[l]
    BY <1>1 DEF GuildEnds
  <2> QED BY <1>0, <1>1, <1>a, <2>1, <2>2
<1>2. ASSUME NEW g \in Guilds, BecomesUnavailable(g) PROVE DownsAreDead' /\ DeadSessionsLeave'
  <2>1. downs' = [downs EXCEPT ![g] = {}] /\ UNCHANGED alive
    BY <1>2 DEF BecomesUnavailable
  <2>2. \A l \in Links : entry'[l] = IF l[2] = g THEN "absent" ELSE entry[l]
    BY <1>2 DEF BecomesUnavailable
  <2> QED BY <1>0, <1>a, <2>1, <2>2
<1>3. ASSUME NEW g \in Guilds, SessionDown(g) PROVE DownsAreDead' /\ DeadSessionsLeave'
  <2>0. UNCHANGED alive
    BY <1>3, Zenon DEF SessionDown
  <2>1. CASE GuildEnds(g)
    BY <1>1, <2>0, <2>1
  <2>2. CASE ~GuildEnds(g)
    <3>1. PICK s \in downs[g] : /\ downs' = [downs EXCEPT ![g] = downs[g] \ {s}]
                                /\ entry' = [entry EXCEPT ![<<s, g>>] = "absent"]
      BY <1>0, <1>3, <2>2, Zenon DEF SessionDown
    <3>2. <<s, g>> \in Links
      BY DEF GuildTypes, Links
    <3>3. \A l \in Links : \/ entry'[l] = "absent"
                           \/ entry'[l] = entry[l] /\ (l[2] = g => l[1] # s)
      BY <1>0, <3>1
    <3>4. /\ \A h \in Guilds : downs'[h] \subseteq downs[h]
          /\ \A h \in Guilds : h # g => downs'[h] = downs[h]
          /\ downs'[g] = downs[g] \ {s}
      BY <1>0, <3>1
    <3> QED BY <1>0, <1>a, <2>0, <3>3, <3>4
  <2> QED BY <2>1, <2>2
<1>4. ASSUME NEW g \in Guilds, Enqueue(g) PROVE DownsAreDead' /\ DeadSessionsLeave'
  <2>0. UNCHANGED alive
    BY <1>4, Zenon DEF Enqueue
  <2>1. CASE UNCHANGED guildVars
    BY <1>c, <2>0, <2>1 DEF guildVars
  <2>2. ASSUME NEW c \in Requests,
               entry' = [entry EXCEPT ![<<c.session, g>>] = "pending"],
               downs' = [downs EXCEPT ![g] = IF alive[c.session] THEN downs[g]
                                             ELSE downs[g] \union {c.session}]
        PROVE  DownsAreDead' /\ DeadSessionsLeave'
    <3>1. \A h \in Guilds : /\ downs[h] \subseteq downs'[h]
                            /\ \A s \in downs'[h] : s \in downs[h] \/ ~alive[s]
      BY <1>0, <2>2
    <3>2. ~alive[c.session] => c.session \in downs'[g]
      BY <1>0, <2>2
    <3>3. \A l \in Links : \/ entry'[l] = entry[l]
                           \/ l[1] = c.session /\ l[2] = g
      BY <1>0, <2>2
    <3>4. DownsAreDead'
      BY <2>0, <3>1 DEF DownsAreDead
    <3>5. DeadSessionsLeave'
      BY <1>0, <2>0, <3>1, <3>2, <3>3 DEF DeadSessionsLeave
    <3> QED BY <3>4, <3>5
  <2>3. PICK c \in BagToSet(inbox[g]) :
           /\ c \in Requests
           /\ \/ UNCHANGED guildVars
              \/ /\ entry' = [entry EXCEPT ![<<c.session, g>>] = "pending"]
                 /\ downs' = [downs EXCEPT ![g] = IF alive[c.session] THEN @
                                                  ELSE @ \union {c.session}]
    BY <1>4, EnqueueEffect, Zenon
  <2>4. CASE /\ entry' = [entry EXCEPT ![<<c.session, g>>] = "pending"]
             /\ downs' = [downs EXCEPT ![g] = IF alive[c.session] THEN @
                                              ELSE @ \union {c.session}]
    BY <2>2, <2>3, <2>4
  <2> QED BY <2>1, <2>3, <2>4
<1>5. ASSUME NEW g \in Guilds, Finalize(g) PROVE DownsAreDead' /\ DeadSessionsLeave'
  <2>1. PICK w \in BagToSet(workers[g]) :
          \/ UNCHANGED entry
          \/ /\ pending[<<w.session, g>>] = w.attempt
             /\ entry' = [entry EXCEPT ![<<w.session, g>>] = "admitted"]
    BY <1>5, Zenon DEF Finalize
  <2>2. UNCHANGED <<alive, downs>>
    BY <1>5, Zenon DEF Finalize
  <2>3. <<w.session, g>> \in Links /\ w.attempt # None
    BY LimitsAssumption DEF GuildTypes, Links, LimitsAssumption, Attempts, None
  <2>4. pending[<<w.session, g>>] = w.attempt => entry[<<w.session, g>>] # "absent"
    BY <2>3 DEF PendingServed
  <2>5. \A l \in Links : entry'[l] # "absent" => entry[l] # "absent"
    BY <1>0, <2>1, <2>4
  <2> QED BY <2>2, <2>5 DEF DownsAreDead, DeadSessionsLeave
<1>6. ASSUME NEW l \in Links, \/ GuildConnect(l) \/ ConnectorResult(l) \/ GuildConnectTimeout(l)
                              \/ FromGuild(l) \/ FromPresence(l) \/ Connector(l) \/ Moves(l)
      PROVE  DownsAreDead' /\ DeadSessionsLeave'
  BY <1>c, <1>6 DEF GuildConnect, ConnectorResult, GuildConnectTimeout, FromGuild,
                    FromPresence, Connector, Moves, guildVars
<1>7. ASSUME NEW s \in Sessions, SessionEnds(s) PROVE DownsAreDead' /\ DeadSessionsLeave'
  <2>1. UNCHANGED entry
    BY <1>7 DEF SessionEnds
  <2>2. alive' = [alive EXCEPT ![s] = FALSE]
    BY <1>7, Zenon DEF SessionEnds
  <2>3. ~alive'[s] /\ \A r \in Sessions : r # s => (alive'[r] <=> alive[r])
    BY <1>0, <2>2, Zenon
  <2>4. \A g \in Guilds :
          downs'[g] = IF entry[<<s, g>>] # "absent" THEN downs[g] \union {s} ELSE downs[g]
    BY <1>7 DEF SessionEnds, Monitors
  <2>a. \A g \in Guilds : \A r \in downs'[g] : r = s \/ (r \in downs[g] /\ r \in Sessions)
    BY <2>4 DEF GuildTypes
  <2>5. DownsAreDead'
    BY <2>3, <2>a, Zenon DEF DownsAreDead
  <2>6. ASSUME NEW l \in Links, ~alive'[l[1]], entry'[l] # "absent" PROVE l[1] \in downs'[l[2]]
    <3>1. CASE l[1] = s
      BY <1>0, <2>1, <2>4, <2>6, <3>1
    <3>2. CASE l[1] # s
      BY <1>0, <2>1, <2>3, <2>4, <2>6, <3>2 DEF DeadSessionsLeave
    <3> QED BY <3>1, <3>2
  <2> QED BY <2>5, <2>6 DEF DeadSessionsLeave
<1>8. ASSUME NEW g \in Guilds, GuildStarts(g) \/ GuildEvent(g) \/ BecomesAvailable(g)
      PROVE  DownsAreDead' /\ DeadSessionsLeave'
  BY <1>c, <1>8 DEF GuildStarts, GuildEvent, BecomesAvailable, guildVars
<1>9. ASSUME NEW g \in Guilds, GuildCrashes(g) PROVE DownsAreDead' /\ DeadSessionsLeave'
  BY <1>1, <1>9 DEF GuildCrashes
<1>10. ASSUME NEW s \in Sessions, Ready(s) PROVE DownsAreDead' /\ DeadSessionsLeave'
  BY <1>c, <1>10 DEF Ready, guildVars
<1>11. CASE UNCHANGED vars
  BY <1>c, <1>11 DEF vars, guildVars
<1> QED BY <1>2, <1>3, <1>4, <1>5, <1>6, <1>7, <1>8, <1>9, <1>10, <1>11 DEF Next

-----------------------------------------------------------------------------
(***************************************************************************)
(* What a guild has sent to a session.                                     *)
(***************************************************************************)
Results == [is : {"result"}, attempt : Attempts, pid : 1..MaxPids,
            what : {"full", "unavailable", "error"}, version : 0..MaxVersion]
News    == [is : {"create", "event"}, version : 0..MaxVersion]
Leaves  == [is : {"leave"}]
Downs   == [is : {"down"}, pid : 1..MaxPids]
Messages == Results \union News \union Leaves \union Downs

MailTypes == mail \in [Links -> Seq(Messages)]

Has(q, m) == \E i \in DOMAIN q : q[i] = m

\* Each result of the process p has an entry e behind it, or a forced leave
\* after it.
Backed(q, p, e) ==
  \A i \in DOMAIN q : q[i].is = "result" /\ q[i].pid = p =>
    \/ e # "absent"
    \/ \E j \in DOMAIN q : j > i /\ q[j] = Leave

LEMMA MessagesMade ==
  /\ Leave \in Messages /\ Leave.is = "leave"
  /\ \A p \in 1..MaxPids : /\ Down(p) \in Messages /\ Down(p).is = "down"
                           /\ Down(p).pid = p
  /\ \A v \in 0..MaxVersion : /\ Create(v) \in Messages /\ Create(v).is = "create"
                              /\ Event(v) \in Messages /\ Event(v).is = "event"
  /\ \A a \in Attempts, p \in 1..MaxPids, v \in 0..MaxVersion,
        w \in {"full", "unavailable", "error"} :
        /\ Result(a, p, w, v) \in Messages /\ Result(a, p, w, v).is = "result"
        /\ Result(a, p, w, v).pid = p
<1>1. Leave \in Leaves /\ Leave.is = "leave"
  BY DEF Leave, Leaves
<1>2. \A p \in 1..MaxPids : Down(p) \in Downs /\ Down(p).is = "down" /\ Down(p).pid = p
  BY DEF Down, Downs
<1>3. \A v \in 0..MaxVersion : /\ Create(v) \in News /\ Create(v).is = "create"
                               /\ Event(v) \in News /\ Event(v).is = "event"
  BY DEF Create, Event, News
<1>4. ASSUME NEW a \in Attempts, NEW p \in 1..MaxPids, NEW v \in 0..MaxVersion,
             NEW w \in {"full", "unavailable", "error"}
      PROVE  /\ Result(a, p, w, v) \in Results /\ Result(a, p, w, v).is = "result"
             /\ Result(a, p, w, v).pid = p
  BY DEF Result, Results
<1>5. Results \union News \union Leaves \union Downs = Messages
  BY DEF Messages
<1> QED BY <1>1, <1>2, <1>3, <1>4, <1>5

\* What a message is, by its tag.
LEMMA MessageKinds ==
  ASSUME NEW m \in Messages
  PROVE  /\ m.is \in {"result", "create", "event", "leave", "down"}
         /\ m.is = "result" => m \in Results
         /\ m.is = "leave" => m = Leave
         /\ m.is = "down" => m \in Downs /\ m = Down(m.pid)
         /\ m.is \in {"create", "event"} => m \in News
<1>1. CASE m \in Results
  BY <1>1 DEF Results
<1>2. CASE m \in News
  BY <1>2 DEF News
<1>3. CASE m \in Leaves
  BY <1>3 DEF Leaves, Leave
<1>4. CASE m \in Downs
  BY <1>4 DEF Downs, Down
<1> QED BY <1>1, <1>2, <1>3, <1>4 DEF Messages

LEMMA HasAppend ==
  ASSUME NEW q \in Seq(Messages), NEW x \in Messages
  PROVE  /\ Append(q, x) \in Seq(Messages) /\ Has(Append(q, x), x)
         /\ \A m : Has(q, m) => Has(Append(q, x), m)
<1> DEFINE d == Append(q, x)
<1>1. /\ d \in Seq(Messages) /\ Len(q) + 1 \in DOMAIN d /\ d[Len(q) + 1] = x
      /\ \A i \in DOMAIN q : i \in DOMAIN d /\ d[i] = q[i]
  OBVIOUS
<1> HIDE DEF d
<1>2. Has(d, x) /\ \A m : Has(q, m) => Has(d, m)
  BY <1>1, Zenon DEF Has
<1>3. d \in Seq(Messages)
  BY <1>1
<1> QED BY <1>2, <1>3, Zenon DEF d

LEMMA HasTail ==
  ASSUME NEW q \in Seq(Messages), q # <<>>
  PROVE  /\ Head(q) \in Messages /\ Tail(q) \in Seq(Messages)
         /\ \A m : Has(q, m) /\ m # Head(q) => Has(Tail(q), m)
<1>1. \A i \in DOMAIN q : i # 1 => i - 1 \in DOMAIN Tail(q) /\ Tail(q)[i - 1] = q[i]
  OBVIOUS
<1>2. ASSUME NEW m, Has(q, m), m # Head(q) PROVE Has(Tail(q), m)
  <2>1. PICK i \in DOMAIN q : q[i] = m
    BY <1>2, Zenon DEF Has
  <2>2. i # 1
    BY <1>2, <2>1
  <2> QED BY <1>1, <2>1, <2>2 DEF Has
<1> QED BY <1>2

LEMMA BackedAppend ==
  ASSUME NEW q \in Seq(Messages), NEW x \in Messages, NEW p, NEW e, Backed(q, p, e),
         x.is = "result" /\ x.pid = p => e # "absent"
  PROVE  Backed(Append(q, x), p, e)
<1>1. /\ DOMAIN Append(q, x) = DOMAIN q \union {Len(q) + 1}
      /\ Append(q, x)[Len(q) + 1] = x
      /\ \A i \in DOMAIN q : Append(q, x)[i] = q[i]
  OBVIOUS
<1> QED BY <1>1 DEF Backed

\* A forced leave is the answer to all results before it.
LEMMA BackedLeave ==
  ASSUME NEW q \in Seq(Messages), NEW p, NEW e
  PROVE  Backed(Append(q, Leave), p, e)
<1> DEFINE d == Append(q, Leave)
<1>1. /\ DOMAIN d = 1..(Len(q) + 1) /\ d[Len(q) + 1] = Leave /\ Len(q) \in Nat
      /\ \A i \in DOMAIN q : d[i] = q[i]
  OBVIOUS
<1>2. Leave.is # "result"
  BY DEF Leave
<1> HIDE DEF d
<1>3. ASSUME NEW i \in DOMAIN d, d[i].is = "result"
      PROVE  \E j \in DOMAIN d : j > i /\ d[j] = Leave
  <2>1. i # Len(q) + 1
    BY <1>1, <1>2, <1>3
  <2>2. Len(q) + 1 \in DOMAIN d /\ Len(q) + 1 > i
    BY <1>1, <1>3, <2>1
  <2> QED BY <1>1, <2>2
<1>4. Backed(d, p, e)
  BY <1>3 DEF Backed
<1> QED BY <1>4 DEF d

LEMMA BackedTail ==
  ASSUME NEW q \in Seq(Messages), q # <<>>, NEW p, NEW e, Backed(q, p, e)
  PROVE  /\ Backed(Tail(q), p, e)
         /\ Head(q).is = "result" /\ Head(q).pid = p => e # "absent" \/ Has(Tail(q), Leave)
<1> DEFINE t == Tail(q)
<1>1. /\ DOMAIN q = 1..Len(q) /\ Len(q) \in Nat /\ DOMAIN t = 1..(Len(q) - 1)
      /\ \A i \in 1..(Len(q) - 1) : t[i] = q[i + 1]
      /\ Head(q) = q[1] /\ 1 \in DOMAIN q
  OBVIOUS
<1> HIDE DEF t
<1>2. ASSUME NEW i \in DOMAIN q, NEW j \in DOMAIN q, j > i
      PROVE  j - 1 \in DOMAIN t /\ t[j - 1] = q[j] /\ j - 1 > i - 1
  BY <1>1, <1>2
<1>3. ASSUME NEW i \in DOMAIN t, t[i].is = "result", t[i].pid = p, e = "absent"
      PROVE  \E j \in DOMAIN t : j > i /\ t[j] = Leave
  <2>1. i + 1 \in DOMAIN q /\ q[i + 1] = t[i]
    BY <1>1, <1>3
  <2>2. PICK j \in DOMAIN q : j > i + 1 /\ q[j] = Leave
    BY <1>3, <2>1 DEF Backed
  <2>3. j - 1 \in DOMAIN t /\ j - 1 > i /\ t[j - 1] = Leave
    BY <1>1, <1>3, <2>2
  <2> QED BY <2>3
<1>4. ASSUME q[1].is = "result", q[1].pid = p, e = "absent" PROVE Has(t, Leave)
  <2>1. PICK j \in DOMAIN q : j > 1 /\ q[j] = Leave
    BY <1>1, <1>4 DEF Backed
  <2>2. j - 1 \in DOMAIN t /\ t[j - 1] = Leave
    BY <1>1, <2>1
  <2> QED BY <2>2 DEF Has
<1>5. Backed(t, p, e)
  BY <1>3, Zenon DEF Backed
<1>6. Head(q).is = "result" /\ Head(q).pid = p => e # "absent" \/ Has(t, Leave)
  BY <1>1, <1>4
<1> QED BY <1>5, <1>6, Zenon DEF t

\* demonitor with flush takes out a DOWN, and leaves the order of the others.
LEMMA BackedRemove ==
  ASSUME NEW q \in Seq(Messages), NEW x, x.is = "down", NEW p, NEW e, Backed(q, p, e)
  PROVE  /\ RemoveFirst(q, x) \in Seq(Messages)
         /\ Backed(RemoveFirst(q, x), p, e)
<1>1. CASE RemoveFirst(q, x) = q
  BY <1>1
<1>2. ASSUME NEW k \in 1..Len(q), q[k] = x, RemoveFirst(q, x) = RemoveAt(q, k)
      PROVE  /\ RemoveFirst(q, x) \in Seq(Messages)
             /\ Backed(RemoveFirst(q, x), p, e)
  <2> DEFINE r == RemoveAt(q, k)
             n == Len(q)
  <2>1. /\ r \in Seq(Messages) /\ Len(r) = n - 1
        /\ \A i \in 1..(n - 1) : r[i] = IF i < k THEN q[i] ELSE q[i + 1]
    BY RemoveAtPlaces
  <2>2. DOMAIN q = 1..n /\ n \in Nat /\ DOMAIN r = 1..(n - 1)
    BY <2>1
  <2> HIDE DEF r, n
  <2>3. Leave.is # "down"
    BY DEF Leave
  <2>4. ASSUME NEW i \in DOMAIN r, r[i].is = "result", r[i].pid = p, e = "absent"
        PROVE  \E j \in DOMAIN r : j > i /\ r[j] = Leave
    <3> DEFINE o == IF i < k THEN i ELSE i + 1
    <3>1. o \in DOMAIN q /\ q[o] = r[i] /\ o >= i /\ o # k /\ (o > k => o = i + 1)
      BY <1>2, <2>1, <2>2, <2>4
    <3> HIDE DEF o
    <3>2. PICK u \in DOMAIN q : u > o /\ q[u] = Leave
      BY <2>4, <3>1, Zenon DEF Backed
    <3>3. u # k
      BY <1>2, <2>3, <3>2
    <3> DEFINE j == IF u < k THEN u ELSE u - 1
    <3>4. j \in DOMAIN r /\ r[j] = Leave /\ j > i
      BY <1>2, <2>1, <2>2, <2>4, <3>1, <3>2, <3>3
    <3> QED BY <3>4
  <2>5. Backed(r, p, e)
    BY <2>4 DEF Backed
  <2> QED BY <1>2, <2>1, <2>5 DEF r
<1> QED BY <1>1, <1>2, RemoveFirstEffect

LEMMA RemoveFirstType ==
  ASSUME NEW q \in Seq(Messages), NEW x
  PROVE  RemoveFirst(q, x) \in Seq(Messages)
<1>1. CASE RemoveFirst(q, x) = q
  BY <1>1
<1>2. ASSUME NEW k \in 1..Len(q), RemoveFirst(q, x) = RemoveAt(q, k)
      PROVE  RemoveFirst(q, x) \in Seq(Messages)
  BY <1>2, RemoveAtPlaces
<1> QED BY <1>1, <1>2, RemoveFirstEffect

\* A message of the guild read: the connection stays, begins or ends.
FromGuildReads(l, m, rest) ==
  \/ /\ UNCHANGED <<guilds, peer>> /\ mail' = [mail EXCEPT ![l] = rest]
     /\ m.is # "leave" /\ (m.is = "down" => m.pid # peer[l])
  \/ /\ m.is = "result" /\ guilds' = [guilds EXCEPT ![l] = "connected"]
     /\ peer' = [peer EXCEPT ![l] = m.pid]
     /\ mail' = [mail EXCEPT ![l] = Monitored(l, m.pid, rest)]
  \/ /\ guilds' = [guilds EXCEPT ![l] = "cached_unavailable"]
     /\ peer' = [peer EXCEPT ![l] = NoPid]
     /\ mail' = [mail EXCEPT ![l] = RemoveFirst(rest, Down(peer[l]))]
  \/ /\ guilds' = [guilds EXCEPT ![l] = "undefined"]
     /\ peer' = [peer EXCEPT ![l] = NoPid] /\ mail' = [mail EXCEPT ![l] = rest]

LEMMA FromGuildEffect ==
  ASSUME NEW l \in Links, FromGuild(l)
  PROVE  mail[l] # <<>> /\ FromGuildReads(l, Head(mail[l]), Tail(mail[l]))
<1> DEFINE m == Head(mail[l])
           rest == Tail(mail[l])
<1>1. /\ mail[l] # <<>>
      /\ \/ m.is = "result" /\ ReceiveResult(l, m, rest)
         \/ m.is = "leave" /\ ReceiveForcedLeave(l, rest)
         \/ m.is = "down" /\ ReceiveDown(l, m, rest)
         \/ m.is \in {"create", "event"} /\ ReceiveDispatch(l, m, rest)
  BY Zenon DEF FromGuild
<1> HIDE DEF m, rest
<1>2. ASSUME m.is = "result" /\ ReceiveResult(l, m, rest) PROVE FromGuildReads(l, m, rest)
  <2>1. m.is # "leave" /\ m.is # "down"
    BY <1>2
  <2> QED BY <1>2, <2>1, Zenon DEF ReceiveResult, SetMail, FromGuildReads, linkVars
<1>3. ASSUME m.is = "leave" /\ ReceiveForcedLeave(l, rest) PROVE FromGuildReads(l, m, rest)
  BY <1>3, Zenon DEF ReceiveForcedLeave, SetMail, Demonitored, FromGuildReads
<1>4. ASSUME m.is = "down" /\ ReceiveDown(l, m, rest) PROVE FromGuildReads(l, m, rest)
  <2>1. m.is # "leave"
    BY <1>4
  <2> QED BY <1>4, <2>1, Zenon DEF ReceiveDown, SetMail, FromGuildReads, linkVars
<1>5. ASSUME m.is \in {"create", "event"} /\ ReceiveDispatch(l, m, rest)
      PROVE  FromGuildReads(l, m, rest)
  <2>1. m.is # "leave" /\ m.is # "down"
    BY <1>5
  <2> QED BY <1>5, <2>1, Zenon DEF ReceiveDispatch, SetMail, FromGuildReads, linkVars
<1>6. FromGuildReads(l, m, rest)
  BY <1>1, <1>2, <1>3, <1>4, <1>5
<1> QED BY <1>1, <1>6 DEF m, rest

LEMMA FromPresenceEffect ==
  ASSUME NEW l \in Links, FromPresence(l)
  PROVE  \/ UNCHANGED <<guilds, peer, mail>>
         \/ /\ guilds' = [guilds EXCEPT ![l] = "undefined"]
            /\ peer' = [peer EXCEPT ![l] = NoPid]
            /\ mail' = [mail EXCEPT ![l] = RemoveFirst(mail[l], Down(peer[l]))]
BY Zenon DEF FromPresence, SetMail, Demonitored

\* The answer to the request a worker has worked for.
Sends(g, w) ==
  \/ UNCHANGED <<mail, entry>>
  \/ /\ entry' = [entry EXCEPT ![<<w.session, g>>] = "admitted"]
     /\ \E what \in {"full", "unavailable", "error"} :
          mail' = [mail EXCEPT ![<<w.session, g>>] =
                     IF alive[w.session]
                     THEN Append(mail[<<w.session, g>>],
                                 Result(w.attempt, pid[g], what, w.version))
                     ELSE mail[<<w.session, g>>]]

LEMMA FinalizeSends ==
  ASSUME NEW g \in Guilds, DOMAIN mail = Links, Finalize(g)
  PROVE  \E w \in BagToSet(workers[g]) : Sends(g, w)
<1> DEFINE Send(w, what) ==
      mail' = [mail EXCEPT ![<<w.session, g>>] =
                 IF alive[w.session]
                 THEN Append(mail[<<w.session, g>>],
                             Result(w.attempt, pid[g], what, w.version))
                 ELSE mail[<<w.session, g>>]]
<1>1. PICK w \in BagToSet(workers[g]) :
        IF pending[<<w.session, g>>] # w.attempt
        THEN UNCHANGED <<pending, entry, mail, faults>>
        ELSE /\ entry' = [entry EXCEPT ![<<w.session, g>>] = "admitted"]
             /\ \/ Send(w, IF w.available THEN "full" ELSE "unavailable")
                \/ Send(w, "error")
  BY Zenon DEF Finalize
<1> HIDE DEF Send
<1>2. UNCHANGED <<mail, entry>>
      \/ /\ entry' = [entry EXCEPT ![<<w.session, g>>] = "admitted"]
         /\ Send(w, "full") \/ Send(w, "unavailable") \/ Send(w, "error")
  BY <1>1
<1>3. Sends(g, w)
  BY <1>2 DEF Sends, Send
<1> QED BY <1>3

\* A guild that has something to do for sessions has a process.
LEMMA Housed ==
  ASSUME GuildState, GuildTypes, NEW g \in Guilds, BagToSet(workers[g]) # {} \/ downs[g] # {}
  PROVE  pid[g] \in 1..MaxPids
<1>1. pid[g] # NoPid
  BY DEF GuildState, Homeless
<1> QED BY <1>1, LimitsAssumption DEF GuildTypes, NoPid, LimitsAssumption

LEMMA MailTypesStep ==
  LinkShape /\ GuildState /\ GuildTypes /\ MailTypes /\ [Next]_vars => MailTypes'
<1> SUFFICES ASSUME LinkShape, GuildState, GuildTypes, MailTypes, [Next]_vars PROVE MailTypes'
  OBVIOUS
<1>0. /\ DOMAIN mail = Links /\ mail \in [Links -> Seq(Messages)]
      /\ \A l \in Links : l[1] \in Sessions /\ l[2] \in Guilds /\ mail[l] \in Seq(Messages)
  BY DEF MailTypes, Links
<1>a. ASSUME UNCHANGED mail PROVE MailTypes'
  BY <1>a DEF MailTypes
<1>b. ASSUME NEW l \in Links, NEW q \in Seq(Messages), mail' = [mail EXCEPT ![l] = q]
      PROVE  MailTypes'
  BY <1>0, <1>b DEF MailTypes
<1>1. ASSUME NEW g \in Guilds, GuildEnds(g), pid[g] \in 1..MaxPids PROVE MailTypes'
  <2>1. mail' = [l \in Links |-> IF l[2] = g /\ peer[l] = pid[g]
                                 THEN Append(mail[l], Down(pid[g])) ELSE mail[l]]
    BY <1>1, Zenon DEF GuildEnds
  <2>2. \A q \in Seq(Messages) : Append(q, Down(pid[g])) \in Seq(Messages)
    BY <1>1, MessagesMade, HasAppend
  <2> QED BY <1>0, <2>1, <2>2 DEF MailTypes
<1>2. ASSUME NEW g \in Guilds, BecomesUnavailable(g) PROVE MailTypes'
  <2>1. mail' = [l \in Links |-> IF l[2] = g /\ entry[l] # "absent" /\ alive[l[1]]
                                 THEN Append(mail[l], Leave) ELSE mail[l]]
    BY <1>2, Zenon DEF BecomesUnavailable
  <2>2. \A q \in Seq(Messages) : Append(q, Leave) \in Seq(Messages)
    BY MessagesMade, HasAppend
  <2> QED BY <1>0, <2>1, <2>2 DEF MailTypes
<1>3. ASSUME NEW g \in Guilds, NEW m \in Messages, ToAdmitted(g, m) PROVE MailTypes'
  <2>1. \A q \in Seq(Messages) : Append(q, m) \in Seq(Messages)
    BY HasAppend
  <2> QED BY <1>0, <1>3, <2>1 DEF MailTypes, ToAdmitted
<1>4. ASSUME NEW g \in Guilds, GuildEvent(g) PROVE MailTypes'
  <2>1. version[g] + 1 \in 0..MaxVersion /\ ToAdmitted(g, Event(version[g] + 1))
    BY <1>4, LimitsAssumption DEF GuildEvent, GuildTypes, LimitsAssumption
  <2> QED BY <1>3, <2>1, MessagesMade
<1>5. ASSUME NEW g \in Guilds, BecomesAvailable(g) PROVE MailTypes'
  <2>1. version[g] \in 0..MaxVersion /\ ToAdmitted(g, Create(version[g]))
    BY <1>5 DEF BecomesAvailable, GuildTypes
  <2> QED BY <1>3, <2>1, MessagesMade
<1>6. ASSUME NEW g \in Guilds, SessionDown(g) PROVE MailTypes'
  <2>1. GuildEnds(g) \/ UNCHANGED mail
    BY <1>6, Zenon DEF SessionDown
  <2>2. downs[g] # {}
    BY <1>6 DEF SessionDown
  <2> QED BY <1>1, <1>a, <2>1, <2>2, Housed
<1>7. ASSUME NEW g \in Guilds, GuildCrashes(g) PROVE MailTypes'
  <2>1. GuildEnds(g) /\ pid[g] \in 1..MaxPids
    BY <1>7, LimitsAssumption DEF GuildCrashes, GuildTypes, NoPid, LimitsAssumption
  <2> QED BY <1>1, <2>1
<1>8. ASSUME NEW g \in Guilds, Finalize(g) PROVE MailTypes'
  <2>1. PICK w \in BagToSet(workers[g]) : Sends(g, w)
    BY <1>0, <1>8, FinalizeSends
  <2>2. CASE UNCHANGED mail
    BY <1>a, <2>2
  <2>3. ASSUME NEW what \in {"full", "unavailable", "error"},
               mail' = [mail EXCEPT ![<<w.session, g>>] =
                     IF alive[w.session]
                     THEN Append(mail[<<w.session, g>>],
                                 Result(w.attempt, pid[g], what, w.version))
                     ELSE mail[<<w.session, g>>]]
        PROVE  MailTypes'
    <3>1. /\ <<w.session, g>> \in Links /\ w.attempt \in Attempts /\ w.version \in 0..MaxVersion
      BY DEF GuildTypes, Links
    <3>2. pid[g] \in 1..MaxPids
      BY Housed
    <3>3. Result(w.attempt, pid[g], what, w.version) \in Messages
      BY <3>1, <3>2, MessagesMade
    <3>4. Append(mail[<<w.session, g>>], Result(w.attempt, pid[g], what, w.version))
            \in Seq(Messages)
      BY <1>0, <3>1, <3>3, HasAppend
    <3> QED BY <1>0, <1>b, <2>3, <3>1, <3>4
  <2> QED BY <2>1, <2>2, <2>3 DEF Sends
<1>9. ASSUME NEW l \in Links, FromGuild(l) PROVE MailTypes'
  <2>1. mail[l] # <<>> /\ FromGuildReads(l, Head(mail[l]), Tail(mail[l]))
    BY <1>9, FromGuildEffect
  <2>2. Head(mail[l]) \in Messages /\ Tail(mail[l]) \in Seq(Messages)
    BY <1>0, <2>1, HasTail
  <2> DEFINE m == Head(mail[l])
             rest == Tail(mail[l])
  <2> HIDE DEF m, rest
  <2>3. RemoveFirst(rest, Down(peer[l])) \in Seq(Messages)
    BY <2>2, RemoveFirstType DEF rest
  <2>4. m.is = "result" => Monitored(l, m.pid, rest) \in Seq(Messages)
    <3> SUFFICES ASSUME m.is = "result" PROVE Monitored(l, m.pid, rest) \in Seq(Messages)
      OBVIOUS
    <3>1. m \in Results
      BY <2>2, MessageKinds DEF m
    <3>2. Down(m.pid) \in Messages
      BY <3>1, MessagesMade DEF Results
    <3>3. Append(rest, Down(m.pid)) \in Seq(Messages)
      BY <2>2, <3>2, HasAppend DEF rest
    <3> QED BY <2>2, <3>3 DEF Monitored, rest
  <2>5. FromGuildReads(l, m, rest) /\ rest \in Seq(Messages)
    BY <2>1, <2>2 DEF m, rest
  <2>6. \E q \in Seq(Messages) : mail' = [mail EXCEPT ![l] = q]
    BY <2>3, <2>4, <2>5 DEF FromGuildReads
  <2> QED BY <1>b, <2>6
<1>10. ASSUME NEW l \in Links, FromPresence(l) PROVE MailTypes'
  BY <1>0, <1>10, <1>a, <1>b, FromPresenceEffect, RemoveFirstType
<1>11. ASSUME NEW s \in Sessions, SessionEnds(s) PROVE MailTypes'
  BY <1>0, <1>11 DEF SessionEnds, MailTypes
<1>12. ASSUME NEW l \in Links, \/ GuildConnect(l) \/ ConnectorResult(l) \/ GuildConnectTimeout(l)
                               \/ Connector(l) \/ Moves(l)
       PROVE  MailTypes'
  BY <1>a, <1>12 DEF GuildConnect, ConnectorResult, GuildConnectTimeout, Connector, Moves
<1>13. ASSUME NEW s \in Sessions, Ready(s) PROVE MailTypes'
  BY <1>a, <1>13 DEF Ready
<1>14. ASSUME NEW g \in Guilds, GuildStarts(g) \/ Enqueue(g) PROVE MailTypes'
  BY <1>a, <1>14 DEF GuildStarts, Enqueue
<1>15. CASE UNCHANGED vars
  BY <1>a, <1>15 DEF vars
<1> QED BY <1>2, <1>4, <1>5, <1>6, <1>7, <1>8, <1>9, <1>10, <1>11, <1>12, <1>13, <1>14, <1>15
        DEF Next

-----------------------------------------------------------------------------
(***************************************************************************)
(* Who takes itself for connected, and who is known.                       *)
(***************************************************************************)
\* A connected session monitors a process.  It has an entry there, or a
\* forced leave on its way; or the process has ended, and DOWN is on its way.
Known(l) ==
  guilds[l] = "connected" =>
    /\ peer[l] \in 1..MaxPids
    /\ peer[l] = pid[l[2]] => entry[l] # "absent" \/ Has(mail[l], Leave)
    /\ peer[l] # pid[l[2]] => Has(mail[l], Down(peer[l]))

KnownLinks == \A l \in Links : Known(l) /\ Backed(mail[l], pid[l[2]], entry[l])

LEMMA KnownLinksSuffice == KnownLinks => ConnectedIsKnown
<1> SUFFICES ASSUME KnownLinks, NEW l \in Links, guilds[l] = "connected"
             PROVE  IF peer[l] = pid[l[2]]
                    THEN entry[l] # "absent" \/ \E i \in DOMAIN mail[l] : mail[l][i] = Leave
                    ELSE \E i \in DOMAIN mail[l] : mail[l][i] = Down(peer[l])
  BY Zenon DEF ConnectedIsKnown
<1>1. Known(l)
  BY DEF KnownLinks
<1> QED BY <1>1, Zenon DEF Known, Has

\* An entry that comes, or changes, takes nothing back.
LEMMA BackedEntry ==
  ASSUME NEW q, NEW p, NEW e, NEW f, Backed(q, p, e), e # "absent" => f # "absent"
  PROVE  Backed(q, p, f)
BY DEF Backed

\* No result in the mail names a process that is not there.
LEMMA BackedNobody ==
  ASSUME NEW q \in Seq(Messages), NEW p,
         \A i \in DOMAIN q : q[i].is = "result" => q[i].pid # p, NEW e
  PROVE  Backed(q, p, e)
BY DEF Backed

\* A link whose session and guild do nothing, but that its entry may come.
LEMMA KnownFrame ==
  ASSUME NEW l, Known(l) /\ Backed(mail[l], pid[l[2]], entry[l]),
         guilds'[l] = "connected" => guilds[l] = "connected",
         peer'[l] = peer[l], mail'[l] = mail[l], pid'[l[2]] = pid[l[2]],
         entry[l] # "absent" => entry'[l] # "absent"
  PROVE  Known(l)' /\ Backed(mail[l], pid[l[2]], entry[l])'
<1>1. Backed(mail[l], pid[l[2]], entry'[l])
  BY BackedEntry
<1>2. Backed(mail'[l], pid'[l[2]], entry'[l])
  BY <1>1, Zenon
<1>3. Known(l)'
  BY DEF Known
<1> QED BY <1>2, <1>3

\* A link that gets a message x.
LEMMA KnownAppend ==
  ASSUME NEW l, mail[l] \in Seq(Messages), NEW x \in Messages,
         Known(l) /\ Backed(mail[l], pid[l[2]], entry[l]),
         guilds'[l] = guilds[l], peer'[l] = peer[l], mail'[l] = Append(mail[l], x),
         pid'[l[2]] = pid[l[2]], entry[l] # "absent" => entry'[l] # "absent",
         x.is = "result" /\ x.pid = pid[l[2]] => entry'[l] # "absent"
  PROVE  Known(l)' /\ Backed(mail[l], pid[l[2]], entry[l])'
<1>1. Backed(mail[l], pid[l[2]], entry'[l])
  BY BackedEntry
<1>2. Backed(Append(mail[l], x), pid[l[2]], entry'[l])
  BY <1>1, BackedAppend
<1>3. Backed(mail'[l], pid'[l[2]], entry'[l])
  BY <1>2, Zenon
<1>4. \A m : Has(mail[l], m) => Has(mail'[l], m)
  BY HasAppend
<1>5. Known(l)'
  BY <1>4 DEF Known
<1> QED BY <1>3, <1>5

\* The end of a guild's process is told to those who monitor it.
LEMMA KnownGuildEnds ==
  ASSUME LinkShape, GuildState, GuildTypes, MailTypes, KnownLinks,
         NEW g \in Guilds, GuildEnds(g), pid[g] \in 1..MaxPids, UNCHANGED <<guilds, peer>>
  PROVE  KnownLinks'
<1> SUFFICES ASSUME NEW l \in Links
             PROVE  Known(l)' /\ Backed(mail[l], pid[l[2]], entry[l])'
  BY DEF KnownLinks
<1>0. /\ l[2] \in Guilds /\ mail[l] \in Seq(Messages)
      /\ Known(l) /\ Backed(mail[l], pid[l[2]], entry[l])
  BY DEF Links, MailTypes, KnownLinks
<1>1. /\ pid' = [pid EXCEPT ![g] = NoPid]
      /\ entry' = [k \in Links |-> IF k[2] = g THEN "absent" ELSE entry[k]]
      /\ mail' = [k \in Links |-> IF k[2] = g /\ peer[k] = pid[g]
                                  THEN Append(mail[k], Down(pid[g])) ELSE mail[k]]
  BY Zenon DEF GuildEnds
<1>2. CASE l[2] # g
  <2>1. pid'[l[2]] = pid[l[2]] /\ entry'[l] = entry[l] /\ mail'[l] = mail[l]
    BY <1>1, <1>2, <1>0 DEF GuildTypes
  <2> QED BY <1>0, <2>1, KnownFrame
<1>3. CASE l[2] = g
  <2>1. pid'[l[2]] = NoPid
    BY <1>1, <1>3, <1>0 DEF GuildTypes
  <2>2. Down(pid[g]) \in Messages
    BY MessagesMade
  <2>3. mail'[l] = IF peer[l] = pid[g] THEN Append(mail[l], Down(pid[g])) ELSE mail[l]
    BY <1>1, <1>3
  <2>4. /\ mail'[l] \in Seq(Messages)
        /\ \A m : Has(mail[l], m) => Has(mail'[l], m)
        /\ peer[l] = pid[g] => Has(mail'[l], Down(pid[g]))
    BY <1>0, <2>2, <2>3, HasAppend
  <2>5. ASSUME NEW i \in DOMAIN mail'[l], mail'[l][i].is = "result"
        PROVE  mail'[l][i].pid # NoPid
    <3>1. mail'[l][i] \in Messages
      BY <2>4, <2>5
    <3>2. mail'[l][i] \in Results
      BY <2>5, <3>1, MessageKinds
    <3> QED BY <3>2, LimitsAssumption DEF Results, NoPid, LimitsAssumption
  <2>6. Backed(mail'[l], NoPid, entry'[l])
    BY <2>4, <2>5, BackedNobody
  <2>7. Backed(mail'[l], pid'[l[2]], entry'[l])
    BY <2>1, <2>6, Zenon
  <2>8. Known(l)'
    BY <1>0, <1>3, <2>1, <2>4, LimitsAssumption DEF Known, NoPid, LimitsAssumption
  <2> QED BY <2>7, <2>8
<1> QED BY <1>2, <1>3

LEMMA KnownLinksStep ==
  /\ LinkShape /\ GuildState /\ GuildTypes /\ Places /\ MailTypes
  /\ DeadGetNothing /\ DownsAreDead /\ KnownLinks /\ [Next]_vars
  => KnownLinks'
<1> SUFFICES ASSUME LinkShape, GuildState, GuildTypes, Places, MailTypes,
                    DeadGetNothing, DownsAreDead, KnownLinks, [Next]_vars
             PROVE  KnownLinks'
  OBVIOUS
<1> DEFINE Good(l) == Known(l) /\ Backed(mail[l], pid[l[2]], entry[l])
<1>0. /\ DOMAIN guilds = Links /\ DOMAIN peer = Links /\ DOMAIN mail = Links
      /\ DOMAIN entry = Links /\ DOMAIN pid = Guilds
      /\ \A l \in Links : /\ l[1] \in Sessions /\ l[2] \in Guilds /\ l = <<l[1], l[2]>>
                          /\ mail[l] \in Seq(Messages)
                          /\ Known(l) /\ Backed(mail[l], pid[l[2]], entry[l])
  BY DEF Links, MailTypes, KnownLinks, LinkShape, GuildTypes
<1>a. ASSUME UNCHANGED <<peer, mail, pid>>,
             \A l \in Links : guilds'[l] = "connected" => guilds[l] = "connected",
             \A l \in Links : entry[l] # "absent" => entry'[l] # "absent"
      PROVE  KnownLinks'
  <2> SUFFICES ASSUME NEW l \in Links
               PROVE  Known(l)' /\ Backed(mail[l], pid[l[2]], entry[l])'
    BY DEF KnownLinks
  <2> QED BY <1>0, <1>a, KnownFrame
<1>b. ASSUME NEW k \in Links, NEW w, NEW p, NEW q, UNCHANGED <<pid, entry>>,
             guilds'[k] = w, peer'[k] = p, mail'[k] = q,
             \A l \in Links : l # k => /\ guilds'[l] = guilds[l] /\ peer'[l] = peer[l]
                                       /\ mail'[l] = mail[l],
             w = "connected" => /\ p \in 1..MaxPids
                                /\ p = pid[k[2]] => entry[k] # "absent" \/ Has(q, Leave)
                                /\ p # pid[k[2]] => Has(q, Down(p)),
             Backed(q, pid[k[2]], entry[k])
      PROVE  KnownLinks'
  <2> SUFFICES ASSUME NEW l \in Links
               PROVE  Known(l)' /\ Backed(mail[l], pid[l[2]], entry[l])'
    BY DEF KnownLinks
  <2>1. CASE l # k
    BY <1>0, <1>b, <2>1, KnownFrame
  <2>2. CASE l = k
    <3>1. guilds'[l] = w /\ peer'[l] = p /\ mail'[l] = q
      BY <1>b, <2>2
    <3>2. Known(l)'
      BY <1>b, <2>2, <3>1 DEF Known
    <3>3. Backed(mail'[l], pid'[l[2]], entry'[l])
      BY <1>b, <2>2, <3>1, Zenon
    <3> QED BY <3>2, <3>3
  <2> QED BY <2>1, <2>2
<1>1. ASSUME NEW k \in Links, NEW w, NEW p, NEW q, UNCHANGED <<pid, entry>>,
             guilds' = [guilds EXCEPT ![k] = w], peer' = [peer EXCEPT ![k] = p],
             mail' = [mail EXCEPT ![k] = q],
             w = "connected" => /\ p \in 1..MaxPids
                                /\ p = pid[k[2]] => entry[k] # "absent" \/ Has(q, Leave)
                                /\ p # pid[k[2]] => Has(q, Down(p)),
             Backed(q, pid[k[2]], entry[k])
      PROVE  KnownLinks'
  <2>1. guilds'[k] = w /\ peer'[k] = p /\ mail'[k] = q
    BY <1>0, <1>1
  <2>2. \A l \in Links : l # k => /\ guilds'[l] = guilds[l] /\ peer'[l] = peer[l]
                                  /\ mail'[l] = mail[l]
    BY <1>0, <1>1
  <2> QED BY <1>1, <1>b, <2>1, <2>2
<1>2. ASSUME NEW l \in Links, \/ GuildConnect(l) \/ GuildConnectTimeout(l)
                              \/ Connector(l) \/ Moves(l)
      PROVE  KnownLinks'
  <2>1. UNCHANGED <<peer, mail, pid, entry>>
    BY <1>2 DEF GuildConnect, GuildConnectTimeout, Connector, Moves, linkVars, guildVars
  <2>2. UNCHANGED guilds \/ guilds' = [guilds EXCEPT ![l] = "undefined"]
    BY <1>2, Zenon DEF GuildConnect, GuildConnectTimeout, Connector, Moves, linkVars
  <2>3. \A k \in Links : guilds'[k] = "connected" => guilds[k] = "connected"
    BY <1>0, <2>2
  <2> QED BY <1>a, <2>1, <2>3
<1>3. ASSUME NEW l \in Links, ConnectorResult(l) PROVE KnownLinks'
  <2>1. UNCHANGED <<peer, mail, pid, entry>>
    BY <1>3 DEF ConnectorResult, linkVars, guildVars
  <2>2. UNCHANGED guilds \/ guilds' = [guilds EXCEPT ![l] = "cached_unavailable"]
    BY <1>3, Zenon DEF ConnectorResult, linkVars
  <2>3. \A k \in Links : guilds'[k] = "connected" => guilds[k] = "connected"
    BY <1>0, <2>2
  <2> QED BY <1>a, <2>1, <2>3
<1>4. ASSUME NEW l \in Links, FromPresence(l) PROVE KnownLinks'
  <2>1. UNCHANGED <<pid, entry>>
    BY <1>4 DEF FromPresence, guildVars
  <2>2. CASE UNCHANGED <<guilds, peer, mail>>
    BY <1>a, <2>1, <2>2
  <2>3. CASE /\ guilds' = [guilds EXCEPT ![l] = "undefined"]
             /\ peer' = [peer EXCEPT ![l] = NoPid]
             /\ mail' = [mail EXCEPT ![l] = RemoveFirst(mail[l], Down(peer[l]))]
    <3>1. Down(peer[l]).is = "down"
      BY DEF Down
    <3>2. Backed(RemoveFirst(mail[l], Down(peer[l])), pid[l[2]], entry[l])
      BY <1>0, <3>1, BackedRemove
    <3> QED BY <1>1, <2>1, <2>3, <3>2
  <2> QED BY <1>4, <2>2, <2>3, FromPresenceEffect
<1>5. ASSUME NEW l \in Links, FromGuild(l) PROVE KnownLinks'
  <2>1. UNCHANGED <<pid, entry>>
    BY <1>5 DEF FromGuild, guildVars
  <2> DEFINE m == Head(mail[l])
             rest == Tail(mail[l])
  <2>2. FromGuildReads(l, m, rest) /\ mail[l] # <<>>
    BY <1>5, FromGuildEffect
  <2>3. /\ m \in Messages /\ rest \in Seq(Messages)
        /\ \A x : Has(mail[l], x) /\ x # m => Has(rest, x)
    BY <1>0, <2>2, HasTail
  <2>4. /\ Backed(rest, pid[l[2]], entry[l])
        /\ m.is = "result" /\ m.pid = pid[l[2]] => entry[l] # "absent" \/ Has(rest, Leave)
    BY <1>0, <2>2, BackedTail
  <2> HIDE DEF m, rest
  <2>5. CASE /\ UNCHANGED <<guilds, peer>> /\ mail' = [mail EXCEPT ![l] = rest]
             /\ m.is # "leave" /\ (m.is = "down" => m.pid # peer[l])
    <3>1. m # Leave /\ m # Down(peer[l])
      BY <2>5 DEF Leave, Down
    <3>2. \A x \in {Leave, Down(peer[l])} : Has(mail[l], x) => Has(rest, x)
      BY <2>3, <3>1
    <3>3. guilds[l] = "connected" =>
            /\ peer[l] \in 1..MaxPids
            /\ peer[l] = pid[l[2]] => entry[l] # "absent" \/ Has(rest, Leave)
            /\ peer[l] # pid[l[2]] => Has(rest, Down(peer[l]))
      BY <1>0, <3>2 DEF Known
    <3>4. mail'[l] = rest /\ \A k \in Links : k # l => mail'[k] = mail[k]
      BY <1>0, <2>5
    <3>5. guilds'[l] = guilds[l] /\ peer'[l] = peer[l]
      BY <2>5
    <3>6. \A k \in Links : k # l => /\ guilds'[k] = guilds[k] /\ peer'[k] = peer[k]
                                    /\ mail'[k] = mail[k]
      BY <2>5, <3>4
    <3>7. Backed(rest, pid[l[2]], entry[l])
      BY <2>4
    <3> QED BY <1>b, <2>1, <3>3, <3>4, <3>5, <3>6, <3>7
  <2>6. CASE /\ m.is = "result" /\ guilds' = [guilds EXCEPT ![l] = "connected"]
             /\ peer' = [peer EXCEPT ![l] = m.pid]
             /\ mail' = [mail EXCEPT ![l] = Monitored(l, m.pid, rest)]
    <3>1. m.pid \in 1..MaxPids
      BY <2>3, <2>6, MessageKinds DEF Results
    <3>2. CASE m.pid = pid[l[2]]
      <4>1. Monitored(l, m.pid, rest) = rest
        BY <3>2 DEF Monitored
      <4>2. mail' = [mail EXCEPT ![l] = rest]
        BY <2>6, <4>1
      <4>3. entry[l] # "absent" \/ Has(rest, Leave)
        BY <2>4, <2>6, <3>2
      <4>4. Backed(rest, pid[l[2]], entry[l])
        BY <2>4
      <4> QED BY <1>1, <2>1, <2>6, <3>1, <3>2, <4>2, <4>3, <4>4
    <3>3. CASE m.pid # pid[l[2]]
      <4>1. Monitored(l, m.pid, rest) = Append(rest, Down(m.pid))
        BY <3>3 DEF Monitored
      <4>2. mail' = [mail EXCEPT ![l] = Append(rest, Down(m.pid))]
        BY <2>6, <4>1
      <4>3. Down(m.pid) \in Messages /\ Down(m.pid).is = "down"
        BY <3>1, MessagesMade
      <4>4. Has(Append(rest, Down(m.pid)), Down(m.pid))
        BY <2>3, <4>3, HasAppend
      <4>5. Backed(Append(rest, Down(m.pid)), pid[l[2]], entry[l])
        BY <2>3, <2>4, <4>3, BackedAppend
      <4> QED BY <1>1, <2>1, <2>6, <3>1, <3>3, <4>2, <4>4, <4>5
    <3> QED BY <3>2, <3>3
  <2>7. CASE /\ guilds' = [guilds EXCEPT ![l] = "cached_unavailable"]
             /\ peer' = [peer EXCEPT ![l] = NoPid]
             /\ mail' = [mail EXCEPT ![l] = RemoveFirst(rest, Down(peer[l]))]
    <3>1. Down(peer[l]).is = "down"
      BY DEF Down
    <3>2. Backed(RemoveFirst(rest, Down(peer[l])), pid[l[2]], entry[l])
      BY <2>3, <2>4, <3>1, BackedRemove
    <3> QED BY <1>1, <2>1, <2>7, <3>2
  <2>8. CASE /\ guilds' = [guilds EXCEPT ![l] = "undefined"]
             /\ peer' = [peer EXCEPT ![l] = NoPid] /\ mail' = [mail EXCEPT ![l] = rest]
    BY <1>1, <2>1, <2>4, <2>8
  <2> QED BY <2>2, <2>5, <2>6, <2>7, <2>8, Zenon DEF FromGuildReads
<1>6. ASSUME NEW s \in Sessions, SessionEnds(s) PROVE KnownLinks'
  <2>1. /\ UNCHANGED <<pid, entry>>
        /\ guilds' = [l \in Links |-> IF l[1] = s THEN "undefined" ELSE guilds[l]]
        /\ peer' = [l \in Links |-> IF l[1] = s THEN NoPid ELSE peer[l]]
        /\ mail' = [l \in Links |-> IF l[1] = s THEN <<>> ELSE mail[l]]
    BY <1>6 DEF SessionEnds
  <2> SUFFICES ASSUME NEW l \in Links
               PROVE  Known(l)' /\ Backed(mail[l], pid[l[2]], entry[l])'
    BY DEF KnownLinks
  <2>2. CASE l[1] = s
    <3>1. guilds'[l] = "undefined" /\ mail'[l] = <<>>
      BY <2>1, <2>2
    <3> QED BY <3>1 DEF Known, Backed
  <2>3. CASE l[1] # s
    <3>1. guilds'[l] = guilds[l] /\ peer'[l] = peer[l] /\ mail'[l] = mail[l]
      BY <2>1, <2>3
    <3> QED BY <1>0, <2>1, <3>1, KnownFrame
  <2> QED BY <2>2, <2>3
<1>7. ASSUME NEW g \in Guilds, GuildStarts(g) PROVE KnownLinks'
  <2>1. UNCHANGED <<guilds, peer, mail, entry>>
    BY <1>7 DEF GuildStarts, linkVars, guildVars
  <2>2. CASE UNCHANGED pid
    BY <1>a, <2>1, <2>2
  <2>3. ASSUME NEW p \in (1..MaxPids) \ KnownPids, pid[g] = NoPid,
               pid' = [pid EXCEPT ![g] = p]
        PROVE  KnownLinks'
    <3> SUFFICES ASSUME NEW l \in Links
                 PROVE  Known(l)' /\ Backed(mail[l], pid[l[2]], entry[l])'
      BY DEF KnownLinks
    <3>1. CASE l[2] # g
      <4>1. pid'[l[2]] = pid[l[2]]
        BY <1>0, <2>3, <3>1
      <4> QED BY <1>0, <2>1, <4>1, KnownFrame
    <3>2. CASE l[2] = g
      <4>1. pid'[l[2]] = p
        BY <1>0, <2>3, <3>2
      <4>2. peer[l] # p
        BY <2>3 DEF KnownPids
      <4>3. ASSUME NEW i \in DOMAIN mail[l], mail[l][i].is = "result"
            PROVE  mail[l][i].pid # p
        BY <2>3, <4>3 DEF KnownPids
      <4>4. Backed(mail[l], p, entry[l])
        BY <1>0, <4>3, BackedNobody
      <4>5. Backed(mail'[l], pid'[l[2]], entry'[l])
        BY <2>1, <4>1, <4>4, Zenon
      <4>6. Known(l)'
        BY <1>0, <2>1, <2>3, <3>2, <4>1, <4>2, LimitsAssumption
           DEF Known, NoPid, LimitsAssumption
      <4> QED BY <4>5, <4>6
    <3> QED BY <3>1, <3>2
  <2>4. UNCHANGED pid \/ \E p \in (1..MaxPids) \ KnownPids :
                           pid[g] = NoPid /\ pid' = [pid EXCEPT ![g] = p]
    <3>1. UNCHANGED pid \/ \E p \in (1..MaxPids) \ KnownPids :
                             pid' = [pid EXCEPT ![g] = IF pid[g] = NoPid THEN p ELSE pid[g]]
      BY <1>0, <1>7, Zenon DEF GuildStarts
    <3>2. [pid EXCEPT ![g] = pid[g]] = pid
      BY DEF GuildTypes
    <3> QED BY <3>1, <3>2
  <2> QED BY <2>2, <2>3, <2>4
<1>8. ASSUME NEW g \in Guilds, GuildCrashes(g) PROVE KnownLinks'
  <2>1. GuildEnds(g) /\ pid[g] \in 1..MaxPids /\ UNCHANGED <<guilds, peer>>
    BY <1>8, LimitsAssumption DEF GuildCrashes, GuildTypes, NoPid, LimitsAssumption, linkVars
  <2> QED BY <2>1, KnownGuildEnds
<1>9. ASSUME NEW g \in Guilds, SessionDown(g) PROVE KnownLinks'
  <2>0. UNCHANGED <<guilds, peer>>
    BY <1>9, Zenon DEF SessionDown, linkVars
  <2>1. CASE GuildEnds(g)
    <3>1. downs[g] # {}
      BY <1>9 DEF SessionDown
    <3>2. pid[g] \in 1..MaxPids
      BY <3>1, Housed
    <3> QED BY <2>0, <2>1, <3>2, KnownGuildEnds
  <2>2. CASE ~GuildEnds(g)
    <3>1. PICK s \in downs[g] : /\ entry' = [entry EXCEPT ![<<s, g>>] = "absent"]
                                /\ UNCHANGED <<pid, mail>>
      BY <1>9, <2>2, Zenon DEF SessionDown
    <3>2. <<s, g>> \in Links /\ ~alive[s]
      BY DEF GuildTypes, Links, DownsAreDead
    <3> SUFFICES ASSUME NEW l \in Links
                 PROVE  Known(l)' /\ Backed(mail[l], pid[l[2]], entry[l])'
      BY DEF KnownLinks
    <3>3. CASE l # <<s, g>>
      <4>1. entry'[l] = entry[l]
        BY <1>0, <3>1, <3>3
      <4> QED BY <1>0, <2>0, <3>1, <4>1, KnownFrame
    <3>4. CASE l = <<s, g>>
      <4>1. Gone(l)
        BY <3>2, <3>4, Zenon DEF DeadGetNothing
      <4>2. mail[l] = <<>> /\ guilds[l] # "connected"
        BY <1>0, <4>1 DEF Gone, Known, NoPid
      <4> QED BY <2>0, <3>1, <4>2 DEF Known, Backed
    <3> QED BY <3>3, <3>4
  <2> QED BY <2>1, <2>2
<1>10. ASSUME NEW g \in Guilds, BecomesUnavailable(g) PROVE KnownLinks'
  <2>1. /\ UNCHANGED <<guilds, peer, pid>>
        /\ mail' = [l \in Links |-> IF l[2] = g /\ entry[l] # "absent" /\ alive[l[1]]
                                    THEN Append(mail[l], Leave) ELSE mail[l]]
        /\ entry' = [l \in Links |-> IF l[2] = g THEN "absent" ELSE entry[l]]
    BY <1>10, Zenon DEF BecomesUnavailable, linkVars
  <2> SUFFICES ASSUME NEW l \in Links
               PROVE  Known(l)' /\ Backed(mail[l], pid[l[2]], entry[l])'
    BY DEF KnownLinks
  <2>2. CASE l[2] # g \/ entry[l] = "absent"
    <3>1. entry'[l] = entry[l] /\ mail'[l] = mail[l]
      BY <2>1, <2>2
    <3> QED BY <1>0, <2>1, <3>1, KnownFrame
  <2>3. CASE l[2] = g /\ entry[l] # "absent" /\ alive[l[1]]
    <3>1. mail'[l] = Append(mail[l], Leave)
      BY <2>1, <2>3
    <3>2. Has(mail'[l], Leave) /\ \A m : Has(mail[l], m) => Has(mail'[l], m)
      BY <1>0, <3>1, HasAppend, MessagesMade
    <3>3. Backed(Append(mail[l], Leave), pid[l[2]], entry'[l])
      BY <1>0, BackedLeave
    <3>4. Backed(mail'[l], pid'[l[2]], entry'[l])
      BY <2>1, <3>1, <3>3, Zenon
    <3>5. Known(l)'
      BY <1>0, <2>1, <3>2 DEF Known
    <3> QED BY <3>4, <3>5
  <2>4. CASE l[2] = g /\ ~alive[l[1]]
    <3>1. Gone(l) /\ mail'[l] = mail[l]
      BY <2>1, <2>4, Zenon DEF DeadGetNothing
    <3>2. mail[l] = <<>> /\ guilds[l] # "connected"
      BY <1>0, <3>1 DEF Gone, Known, NoPid
    <3> QED BY <2>1, <3>1, <3>2 DEF Known, Backed
  <2> QED BY <2>2, <2>3, <2>4
<1>11. ASSUME NEW g \in Guilds, NEW x \in Messages, x.is # "result", ToAdmitted(g, x),
              UNCHANGED <<guilds, peer, pid, entry>>
       PROVE  KnownLinks'
  <2> SUFFICES ASSUME NEW l \in Links
               PROVE  Known(l)' /\ Backed(mail[l], pid[l[2]], entry[l])'
    BY DEF KnownLinks
  <2>1. mail'[l] = mail[l] \/ mail'[l] = Append(mail[l], x)
    BY <1>11 DEF ToAdmitted
  <2>2. CASE mail'[l] = mail[l]
    BY <1>0, <1>11, <2>2, KnownFrame
  <2>3. CASE mail'[l] = Append(mail[l], x)
    BY <1>0, <1>11, <2>3, KnownAppend
  <2> QED BY <2>1, <2>2, <2>3
<1>12. ASSUME NEW g \in Guilds, GuildEvent(g) PROVE KnownLinks'
  <2>1. version[g] + 1 \in 0..MaxVersion /\ ToAdmitted(g, Event(version[g] + 1))
    BY <1>12, LimitsAssumption DEF GuildEvent, GuildTypes, LimitsAssumption
  <2>2. UNCHANGED <<guilds, peer, pid, entry>>
    BY <1>12 DEF GuildEvent, linkVars, guildVars
  <2>3. Event(version[g] + 1) \in Messages /\ Event(version[g] + 1).is # "result"
    BY <2>1, MessagesMade
  <2> QED BY <1>11, <2>1, <2>2, <2>3
<1>13. ASSUME NEW g \in Guilds, BecomesAvailable(g) PROVE KnownLinks'
  <2>1. version[g] \in 0..MaxVersion /\ ToAdmitted(g, Create(version[g]))
    BY <1>13 DEF BecomesAvailable, GuildTypes
  <2>2. UNCHANGED <<guilds, peer, pid, entry>>
    BY <1>13 DEF BecomesAvailable, linkVars, guildVars
  <2>3. Create(version[g]) \in Messages /\ Create(version[g]).is # "result"
    BY <2>1, MessagesMade
  <2> QED BY <1>11, <2>1, <2>2, <2>3
<1>14. ASSUME NEW g \in Guilds, Enqueue(g) PROVE KnownLinks'
  <2>1. UNCHANGED <<guilds, peer, mail, pid>>
    BY <1>14, Zenon DEF Enqueue, linkVars
  <2>2. \/ UNCHANGED guildVars
        \/ \E c \in BagToSet(inbox[g]) : entry' = [entry EXCEPT ![<<c.session, g>>] = "pending"]
    BY <1>14, Zenon DEF Enqueue
  <2>3. \A l \in Links : entry[l] # "absent" => entry'[l] # "absent"
    BY <1>0, <2>2 DEF guildVars
  <2> QED BY <1>a, <2>1, <2>3
<1>15. ASSUME NEW g \in Guilds, Finalize(g) PROVE KnownLinks'
  <2>1. PICK w \in BagToSet(workers[g]) : Sends(g, w)
    BY <1>0, <1>15, FinalizeSends
  <2>2. UNCHANGED <<guilds, peer, pid>>
    BY <1>15, Zenon DEF Finalize, linkVars
  <2>3. CASE UNCHANGED <<mail, entry>>
    BY <1>a, <2>2, <2>3
  <2>4. ASSUME NEW what \in {"full", "unavailable", "error"},
               entry' = [entry EXCEPT ![<<w.session, g>>] = "admitted"],
               mail' = [mail EXCEPT ![<<w.session, g>>] =
                     IF alive[w.session]
                     THEN Append(mail[<<w.session, g>>],
                                 Result(w.attempt, pid[g], what, w.version))
                     ELSE mail[<<w.session, g>>]]
        PROVE  KnownLinks'
    <3> DEFINE x == Result(w.attempt, pid[g], what, w.version)
    <3>1. /\ <<w.session, g>> \in Links /\ w.attempt \in Attempts /\ w.version \in 0..MaxVersion
      BY DEF GuildTypes, Links
    <3>2. pid[g] \in 1..MaxPids
      BY Housed
    <3>3. x \in Messages
      BY <3>1, <3>2, MessagesMade
    <3> HIDE DEF x
    <3> SUFFICES ASSUME NEW l \in Links
                 PROVE  Known(l)' /\ Backed(mail[l], pid[l[2]], entry[l])'
      BY DEF KnownLinks
    <3>4. entry[l] # "absent" => entry'[l] # "absent"
      BY <1>0, <2>4
    <3>5. CASE mail'[l] = mail[l]
      BY <1>0, <2>2, <3>4, <3>5, KnownFrame
    <3>6. CASE l = <<w.session, g>> /\ mail'[l] = Append(mail[l], x)
      <4>1. entry'[l] # "absent"
        BY <1>0, <2>4, <3>6
      <4> QED BY <1>0, <2>2, <3>3, <3>6, <4>1, KnownAppend
    <3>7. mail'[l] = mail[l] \/ (l = <<w.session, g>> /\ mail'[l] = Append(mail[l], x))
      BY <1>0, <2>4, <3>1 DEF x
    <3> QED BY <3>5, <3>6, <3>7
  <2> QED BY <2>1, <2>3, <2>4 DEF Sends
<1>16. ASSUME NEW s \in Sessions, Ready(s) PROVE KnownLinks'
  BY <1>a, <1>16 DEF Ready, linkVars, guildVars
<1>17. CASE UNCHANGED vars
  BY <1>a, <1>17 DEF vars, linkVars, guildVars
<1> QED BY <1>2, <1>3, <1>4, <1>5, <1>6, <1>7, <1>8, <1>9, <1>10, <1>12, <1>13, <1>14, <1>15,
           <1>16, <1>17 DEF Next

-----------------------------------------------------------------------------
(***************************************************************************)
(* What the session says to its client.                                    *)
(***************************************************************************)
Views ==
  /\ collected \in [Links -> [is : {"none", "unavailable", "full"}, version : 0..MaxVersion]]
  /\ told \in [Links -> {"none", "unavailable", "full"}] /\ seen \in [Links -> 0..MaxVersion]

LinkTypes ==
  /\ guilds \in [Links -> {"undefined", "cached_unavailable", "connected"}]
  /\ peer \in [Links -> 0..MaxPids]

LEMMA CollectType ==
  ASSUME Views, NEW l \in Links, NEW what \in {"none", "unavailable", "full"},
         NEW v \in 0..MaxVersion, Collect(l, what, v), UNCHANGED <<told, seen>>
  PROVE  Views'
BY DEF Views, Collect

LEMMA MarkUnavailableType ==
  ASSUME Views, NEW l \in Links, MarkUnavailable(l)
  PROVE  Views'
<1>1. 0 \in 0..MaxVersion
  BY LimitsAssumption DEF LimitsAssumption
<1>2. CASE UNCHANGED collected
  BY <1>2 DEF Views, MarkUnavailable
<1>3. CASE Collect(l, "unavailable", 0)
  BY <1>1, <1>3, CollectType DEF MarkUnavailable
<1> QED BY <1>2, <1>3 DEF MarkUnavailable

LEMMA RetryOrFailType ==
  ASSUME Views, NEW l \in Links, NEW a, RetryOrFail(l, a)
  PROVE  Views'
<1>1. UNCHANGED viewVars \/ MarkUnavailable(l)
  BY Zenon DEF RetryOrFail
<1>2. CASE UNCHANGED viewVars
  BY <1>2 DEF viewVars, Views
<1> QED BY <1>1, <1>2, MarkUnavailableType

LEMMA ViewsStep == MailTypes /\ Views /\ [Next]_vars => Views'
<1> SUFFICES ASSUME MailTypes, Views, [Next]_vars PROVE Views'
  OBVIOUS
<1>a. ASSUME UNCHANGED viewVars PROVE Views'
  BY <1>a DEF viewVars, Views
<1>1. ASSUME NEW l \in Links, ConnectorResult(l) PROVE Views'
  <2>1. PICK r : UNCHANGED viewVars \/ RetryOrFail(l, r.attempt) \/ MarkUnavailable(l)
    BY <1>1, Zenon DEF ConnectorResult
  <2> QED BY <1>a, <2>1, RetryOrFailType, MarkUnavailableType
<1>2. ASSUME NEW l \in Links, GuildConnectTimeout(l) PROVE Views'
  <2>1. PICK a : UNCHANGED viewVars \/ RetryOrFail(l, a)
    BY <1>2, Zenon DEF GuildConnectTimeout
  <2> QED BY <1>a, <2>1, RetryOrFailType
<1>3. ASSUME NEW l \in Links, FromGuild(l) PROVE Views'
  <2> DEFINE m == Head(mail[l])
             rest == Tail(mail[l])
  <2>1. /\ mail[l] # <<>>
        /\ \/ m.is = "result" /\ ReceiveResult(l, m, rest)
           \/ m.is = "leave" /\ ReceiveForcedLeave(l, rest)
           \/ m.is = "down" /\ ReceiveDown(l, m, rest)
           \/ m.is \in {"create", "event"} /\ ReceiveDispatch(l, m, rest)
    BY <1>3, Zenon DEF FromGuild
  <2>2. m \in Messages
    BY <2>1, HasTail DEF MailTypes
  <2> HIDE DEF m, rest
  <2>3. CASE m.is = "result" /\ ReceiveResult(l, m, rest)
    <3>1. m.what \in {"full", "unavailable", "error"} /\ m.version \in 0..MaxVersion
      BY <2>2, <2>3, MessageKinds DEF Results
    <3>2. \/ UNCHANGED viewVars \/ RetryOrFail(l, m.attempt)
          \/ m.what # "error" /\ ProcessGuildState(l, m.what, m.version)
      BY <2>3, Zenon DEF ReceiveResult
    <3>3. ASSUME m.what # "error", ProcessGuildState(l, m.what, m.version) PROVE Views'
      <4>1. m.what \in {"full", "unavailable"}
        BY <3>1, <3>3
      <4>2. CASE Collect(l, m.what, m.version) /\ UNCHANGED <<told, seen>>
        BY <3>1, <4>1, <4>2, CollectType
      <4>3. CASE /\ told' = [told EXCEPT ![l] = m.what]
                 /\ seen' = [seen EXCEPT ![l] = IF m.what = "full" THEN m.version ELSE @]
                 /\ UNCHANGED collected
        BY <3>1, <4>1, <4>3 DEF Views
      <4> QED BY <3>3, <4>2, <4>3, Zenon DEF ProcessGuildState
    <3> QED BY <1>a, <3>2, <3>3, RetryOrFailType
  <2>4. CASE m.is = "leave" /\ ReceiveForcedLeave(l, rest)
    BY <2>4 DEF ReceiveForcedLeave, Views
  <2>5. CASE m.is = "down" /\ ReceiveDown(l, m, rest)
    <3>1. CASE peer[l] # m.pid
      BY <1>a, <2>5, <3>1 DEF ReceiveDown
    <3>2. CASE peer[l] = m.pid
      BY <2>5, <3>2 DEF ReceiveDown, Views
    <3> QED BY <3>1, <3>2
  <2>6. CASE m.is \in {"create", "event"} /\ ReceiveDispatch(l, m, rest)
    <3>1. m.version \in 0..MaxVersion
      BY <2>2, <2>6, MessageKinds DEF News
    <3> QED BY <2>6, <3>1 DEF ReceiveDispatch, Views
  <2> QED BY <2>1, <2>3, <2>4, <2>5, <2>6
<1>4. ASSUME NEW l \in Links, FromPresence(l) PROVE Views'
  <2>1. /\ UNCHANGED told \/ told' = [told EXCEPT ![l] = "none"]
        /\ UNCHANGED <<collected, seen>>
    BY <1>4, Zenon DEF FromPresence
  <2> QED BY <2>1 DEF Views
<1>5. ASSUME NEW s \in Sessions, Ready(s) PROVE Views'
  <2> DEFINE Says(l) == IF guilds[l] = "undefined" THEN "unavailable" ELSE collected[l].is
             Listed(l) == l[1] = s /\ Says(l) # "none"
  <2>1. /\ told' = [l \in Links |-> IF Listed(l) THEN Says(l) ELSE told[l]]
        /\ seen' = [l \in Links |-> IF Listed(l) /\ Says(l) = "full"
                                    THEN collected[l].version ELSE seen[l]]
        /\ collected' = [l \in Links |-> IF l[1] = s THEN [is |-> "none", version |-> 0]
                                                     ELSE collected[l]]
    BY <1>5, Zenon DEF Ready
  <2>2. \A l \in Links : /\ collected[l].is \in {"none", "unavailable", "full"}
                         /\ collected[l].version \in 0..MaxVersion
    BY DEF Views
  <2>3. told' \in [Links -> {"none", "unavailable", "full"}]
    BY <2>1, <2>2 DEF Views
  <2>4. seen' \in [Links -> 0..MaxVersion]
    <3> HIDE DEF Listed, Says
    <3> QED BY <2>1, <2>2 DEF Views
  <2>5. collected' \in [Links -> [is : {"none", "unavailable", "full"}, version : 0..MaxVersion]]
    BY <2>1, LimitsAssumption DEF Views, LimitsAssumption
  <2> QED BY <2>3, <2>4, <2>5 DEF Views
<1>6. ASSUME NEW l \in Links, GuildConnect(l) \/ Connector(l) \/ Moves(l) PROVE Views'
  BY <1>a, <1>6 DEF GuildConnect, Connector, Moves
<1>7. ASSUME NEW s \in Sessions, SessionEnds(s) PROVE Views'
  BY <1>a, <1>7 DEF SessionEnds
<1>8. ASSUME NEW g \in Guilds, \/ GuildStarts(g) \/ GuildCrashes(g) \/ Enqueue(g) \/ Finalize(g)
                               \/ SessionDown(g) \/ GuildEvent(g) \/ BecomesUnavailable(g)
                               \/ BecomesAvailable(g)
      PROVE  Views'
  BY <1>a, <1>8 DEF GuildStarts, GuildCrashes, Enqueue, Finalize, SessionDown, GuildEvent,
                    BecomesUnavailable, BecomesAvailable
<1>9. CASE UNCHANGED vars
  BY <1>a, <1>9 DEF vars
<1> QED BY <1>1, <1>2, <1>3, <1>4, <1>5, <1>6, <1>7, <1>8, <1>9 DEF Next

LEMMA LinkTypesStep == MailTypes /\ LinkTypes /\ [Next]_vars => LinkTypes'
<1> SUFFICES ASSUME MailTypes, LinkTypes, [Next]_vars PROVE LinkTypes'
  OBVIOUS
<1> DEFINE States == {"undefined", "cached_unavailable", "connected"}
<1>0. NoPid \in 0..MaxPids
  BY LimitsAssumption DEF NoPid, LimitsAssumption
<1>a. ASSUME UNCHANGED <<guilds, peer>> PROVE LinkTypes'
  BY <1>a DEF LinkTypes
<1>b. ASSUME NEW l \in Links, NEW w \in States, NEW p \in 0..MaxPids,
             guilds' = [guilds EXCEPT ![l] = w], UNCHANGED peer \/ peer' = [peer EXCEPT ![l] = p]
      PROVE  LinkTypes'
  BY <1>b DEF LinkTypes
<1>1. ASSUME NEW l \in Links, GuildConnect(l) \/ ConnectorResult(l) PROVE LinkTypes'
  <2>1. UNCHANGED peer
    BY <1>1 DEF GuildConnect, ConnectorResult, linkVars
  <2>2. \/ UNCHANGED guilds \/ guilds' = [guilds EXCEPT ![l] = "undefined"]
        \/ guilds' = [guilds EXCEPT ![l] = "cached_unavailable"]
    BY <1>1, Zenon DEF GuildConnect, ConnectorResult, linkVars
  <2> QED BY <1>0, <1>a, <1>b, <2>1, <2>2
<1>2. ASSUME NEW l \in Links, FromGuild(l) PROVE LinkTypes'
  <2> DEFINE m == Head(mail[l])
             rest == Tail(mail[l])
  <2>1. mail[l] # <<>> /\ FromGuildReads(l, m, rest)
    BY <1>2, FromGuildEffect
  <2>2. m \in Messages
    BY <2>1, HasTail DEF MailTypes
  <2> HIDE DEF m, rest
  <2>3. m.is = "result" => m.pid \in 0..MaxPids
    BY <2>2, MessageKinds DEF Results
  <2> QED BY <1>0, <1>a, <1>b, <2>1, <2>3 DEF FromGuildReads
<1>3. ASSUME NEW l \in Links, FromPresence(l) PROVE LinkTypes'
  BY <1>0, <1>3, <1>a, <1>b, FromPresenceEffect
<1>4. ASSUME NEW s \in Sessions, SessionEnds(s) PROVE LinkTypes'
  BY <1>0, <1>4 DEF SessionEnds, LinkTypes
<1>5. ASSUME NEW l \in Links, GuildConnectTimeout(l) \/ Connector(l) \/ Moves(l)
      PROVE  LinkTypes'
  BY <1>a, <1>5 DEF GuildConnectTimeout, Connector, Moves, linkVars
<1>6. ASSUME NEW s \in Sessions, Ready(s) PROVE LinkTypes'
  BY <1>a, <1>6 DEF Ready, linkVars
<1>7. ASSUME NEW g \in Guilds, \/ GuildStarts(g) \/ GuildCrashes(g) \/ Enqueue(g) \/ Finalize(g)
                               \/ SessionDown(g) \/ GuildEvent(g) \/ BecomesUnavailable(g)
                               \/ BecomesAvailable(g)
      PROVE  LinkTypes'
  BY <1>a, <1>7 DEF GuildStarts, GuildCrashes, Enqueue, Finalize, SessionDown, GuildEvent,
                    BecomesUnavailable, BecomesAvailable, linkVars
<1>8. CASE UNCHANGED vars
  BY <1>a, <1>8 DEF vars, linkVars
<1> QED BY <1>1, <1>2, <1>3, <1>4, <1>5, <1>6, <1>7, <1>8 DEF Next

LEMMA ReadyType == ready \in [Sessions -> BOOLEAN] /\ [Next]_vars
                     => ready' \in [Sessions -> BOOLEAN]
<1> SUFFICES ASSUME ready \in [Sessions -> BOOLEAN], [Next]_vars
             PROVE  ready' \in [Sessions -> BOOLEAN]
  OBVIOUS
<1>1. ASSUME NEW s \in Sessions, Ready(s) PROVE ready' \in [Sessions -> BOOLEAN]
  BY <1>1, Zenon DEF Ready
<1>2. ASSUME NEW l \in Links, \/ GuildConnect(l) \/ ConnectorResult(l) \/ GuildConnectTimeout(l)
                              \/ FromGuild(l) \/ FromPresence(l) \/ Connector(l) \/ Moves(l)
      PROVE  UNCHANGED ready
  BY <1>2 DEF GuildConnect, ConnectorResult, GuildConnectTimeout, FromGuild,
              FromPresence, Connector, Moves
<1>3. ASSUME NEW s \in Sessions, SessionEnds(s) PROVE UNCHANGED ready
  BY <1>3 DEF SessionEnds
<1>4. ASSUME NEW g \in Guilds, \/ GuildStarts(g) \/ GuildCrashes(g) \/ Enqueue(g) \/ Finalize(g)
                               \/ SessionDown(g) \/ GuildEvent(g) \/ BecomesUnavailable(g)
                               \/ BecomesAvailable(g)
      PROVE  UNCHANGED ready
  BY <1>4 DEF GuildStarts, GuildCrashes, Enqueue, Finalize, SessionDown, GuildEvent,
              BecomesUnavailable, BecomesAvailable
<1>5. ready' \in [Sessions -> BOOLEAN] \/ UNCHANGED ready
  BY <1>1, <1>2, <1>3, <1>4, Zenon DEF Next, vars
<1> QED BY <1>5

-----------------------------------------------------------------------------
(***************************************************************************)
(* The inductive invariant of the guild's half, and its theorems.          *)
(***************************************************************************)
\* With ConnectInvariant it is inductive: a session that has ended gets nothing
\* (DeadGetNothing), which KnownLinks needs where a guild forgets it.
AdmissionInvariant ==
  /\ BagTypes /\ GuildTypes /\ Places /\ MailTypes /\ LinkTypes /\ Views
  /\ ready \in [Sessions -> BOOLEAN]
  /\ PendingServed /\ DownsAreDead /\ DeadSessionsLeave /\ KnownLinks

LEMMA InitAdmissionInvariant == Init => AdmissionInvariant
<1> SUFFICES ASSUME Init PROVE AdmissionInvariant
  OBVIOUS
<1>0. /\ 0 \in Attempts /\ 0 \in 0..MaxVersion /\ 0 \in 0..MaxPids /\ 0 \in 0..MaxWorkers
  BY LimitsAssumption DEF LimitsAssumption, Attempts
<1>1. BagTypes
  <2>1. inflight \in [Links -> Attempts \union {None}]
    BY DEF Init
  <2>2. \A l \in Links : /\ wakeups[l] = SetToBag({0}) /\ timeouts[l] = EmptyBag
                         /\ connectors[l] = EmptyBag /\ replies[l] = EmptyBag
    BY DEF Init
  <2>3. IsBagOf(SetToBag({0}), Attempts) /\ \A S : IsBagOf(EmptyBag, S)
    BY <1>0, IsBagOfStart
  <2> QED BY <2>1, <2>2, <2>3 DEF BagTypes
<1>2. GuildTypes
  <2>1. /\ pid \in [Guilds -> 0..MaxPids] /\ version \in [Guilds -> 0..MaxVersion]
        /\ entry \in [Links -> {"absent", "pending", "admitted"}]
        /\ pending \in [Links -> Attempts \union {None}]
        /\ queue \in [Guilds -> Seq(Requests)] /\ downs \in [Guilds -> SUBSET Sessions]
    BY <1>0 DEF Init, NoPid
  <2>2. \A g \in Guilds : BagToSet(inbox[g]) = {} /\ BagToSet(workers[g]) = {}
    BY BagStart DEF Init
  <2> QED BY <2>1, <2>2 DEF GuildTypes
<1>3. Places
  <2>1. busy \in [Guilds -> 0..MaxWorkers]
    BY <1>0 DEF Init
  <2>2. ASSUME NEW g \in Guilds
        PROVE  /\ DOMAIN workers[g] = {} /\ Running(g) = {} /\ busy[g] = 0 /\ queue[g] = <<>>
    <3>1. workers[g] = EmptyBag /\ busy[g] = 0 /\ queue[g] = <<>>
      BY DEF Init
    <3>2. DOMAIN EmptyBag = {} /\ BagToSet(EmptyBag) = {}
      BY BagStart DEF BagToSet
    <3> QED BY <3>1, <3>2 DEF Running
  <2>3. IsFiniteSet({}) /\ Cardinality({}) = 0
    BY FS_EmptySet
  <2> QED BY <2>1, <2>2, <2>3 DEF Places
<1>4. MailTypes
  BY DEF Init, MailTypes
<1>5. LinkTypes
  BY <1>0 DEF Init, LinkTypes, NoPid
<1>6. Views
  BY <1>0 DEF Init, Views
<1>7. ready \in [Sessions -> BOOLEAN]
  BY DEF Init
<1>8. PendingServed
  BY DEF Init, PendingServed
<1>9. DownsAreDead
  BY DEF Init, DownsAreDead
<1>10. DeadSessionsLeave
  BY DEF Init, DeadSessionsLeave
<1>11. KnownLinks
  BY DEF Init, KnownLinks, Known, Backed
<1> QED BY <1>1, <1>2, <1>3, <1>4, <1>5, <1>6, <1>7, <1>8, <1>9, <1>10, <1>11
        DEF AdmissionInvariant

\* The guild's queue, workers, entries and mail agree, and sessions with them.
THEOREM AdmissionInvariantHolds == Spec => []AdmissionInvariant
<1>1. ConnectInvariant /\ AdmissionInvariant /\ [Next]_vars => AdmissionInvariant'
  BY BagTypesStep, GuildTypesStep, PlacesStep, MailTypesStep, LinkTypesStep, ViewsStep,
     ReadyType, PendingServedStep, DeadSessionsLeaveStep, KnownLinksStep
     DEF ConnectInvariant, AdmissionInvariant
<1> QED BY <1>1, InitAdmissionInvariant, ConnectInvariantHolds, PTL DEF Spec

\* Every variable has its type.
THEOREM TypeCorrect == Spec => []TypeOK
<1>1. ConnectInvariant /\ AdmissionInvariant => TypeOK
  <2> SUFFICES ASSUME ConnectInvariant, AdmissionInvariant PROVE TypeOK
    OBVIOUS
  <2>1. /\ alive \in [Sessions -> BOOLEAN] /\ ready \in [Sessions -> BOOLEAN]
        /\ member \in [Links -> BOOLEAN]
    BY Zenon DEF ConnectInvariant, AdmissionInvariant, PresenceShape
  <2>2. /\ inflight \in [Links -> Attempts \union {None}]
        /\ \A l \in Links : /\ IsBagOf(wakeups[l], Attempts) /\ IsBagOf(timeouts[l], Attempts)
                            /\ IsBagOf(connectors[l], Attempts)
                            /\ IsBagOf(replies[l], [attempt : Attempts, is : Kinds])
    BY Zenon DEF AdmissionInvariant, BagTypes
  <2>3. /\ pid \in [Guilds -> 0..MaxPids] /\ version \in [Guilds -> 0..MaxVersion]
        /\ entry \in [Links -> {"absent", "pending", "admitted"}]
        /\ pending \in [Links -> Attempts \union {None}]
        /\ \A g \in Guilds : /\ queue[g] \in Seq([session : Sessions, attempt : Attempts])
                             /\ downs[g] \subseteq Sessions /\ busy[g] \in 0..MaxWorkers
    BY DEF AdmissionInvariant, GuildTypes, Places, Requests
  <2>4. LinkTypes /\ Views
    BY DEF AdmissionInvariant
  <2> QED BY <2>1, <2>2, <2>3, <2>4, Zenon DEF TypeOK, LinkTypes, Views, Kinds
<1> QED BY <1>1, ConnectInvariantHolds, AdmissionInvariantHolds, PTL

\* The places for workers are given back whatever becomes of the sessions they
\* work for, and none is free while a session waits.
THEOREM WorkersCountedHolds == Spec => []WorkersCounted
<1>1. AdmissionInvariant => WorkersCounted
  BY Zenon DEF AdmissionInvariant, Places, WorkersCounted
<1> QED BY <1>1, AdmissionInvariantHolds, PTL

\* A session's connection is pending in the guild exactly while a request of
\* its latest attempt is queued or worked on: what is pending is served.
THEOREM PendingServedHolds == Spec => []PendingServed
<1>1. AdmissionInvariant => PendingServed
  BY DEF AdmissionInvariant
<1> QED BY <1>1, AdmissionInvariantHolds, PTL

\* A guild has yet to handle the DOWN of every ended session it knows, also of
\* one that ended before its request was read or its worker was done.
THEOREM DeadSessionsLeaveHolds == Spec => []DeadSessionsLeave
<1>1. AdmissionInvariant => DeadSessionsLeave
  BY DEF AdmissionInvariant
<1> QED BY <1>1, AdmissionInvariantHolds, PTL

\* A session that takes itself for connected is known to the guild process it
\* monitors, or a forced leave or the DOWN of that process is on its way.
THEOREM ConnectedIsKnownHolds == Spec => []ConnectedIsKnown
<1>1. AdmissionInvariant => ConnectedIsKnown
  BY KnownLinksSuffice DEF AdmissionInvariant
<1> QED BY <1>1, AdmissionInvariantHolds, PTL
=============================================================================
