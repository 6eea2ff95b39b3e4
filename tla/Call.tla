-------------------------------- MODULE Call --------------------------------
(***************************************************************************)
(* A private call: the call process (call.erl), the manager that knows it  *)
(* (call_manager.erl), and the processes that a session spawns to join it  *)
(* and to leave it (dm_voice.erl).                                         *)
(*                                                                         *)
(* A user may have several sessions.  The call keeps a voice state for each*)
(* user and an entry for each session; it rings users, watches the session *)
(* processes, and ends when no voice state is left.  The media server tells*)
(* of connections that ended, late, through disconnect_user_if_in_channel. *)
(*                                                                         *)
(* One channel.  A message in a mailbox may be handled in any order with   *)
(* the others; a request and its handling are one step.                    *)
(***************************************************************************)
EXTENDS Naturals, FiniteSets

CONSTANTS
  Users,      \* the recipients of the channel
  Sessions,
  Owner,      \* the user of a session
  Nobody,     \* no session
  MaxTries,   \* lookups of join_or_create_call (10)
  MaxCalls,   \* bound: calls of the channel
  MaxTalks,   \* bound: times that sessions enter a call
  MaxRings,   \* bound: requests to ring
  MaxEnds     \* bound: sessions that end

ASSUME CallAssumption ==
  /\ Owner \in [Sessions -> Users] /\ Nobody \notin Sessions
  /\ MaxTries \in Nat \ {0} /\ MaxCalls \in Nat /\ MaxTalks \in Nat /\ MaxRings \in Nat
  /\ MaxEnds \in Nat

NoCall == 0

VARIABLES
  \* the call process
  pid,      \* the call that runs, NoCall if none
  ringing,
  timers,   \* keys of ringing_timers
  armed,    \* ring timers that run
  expired,  \* ring_timeout messages
  voice,    \* voice_states: the session that put the user's, Nobody if none
  entries,  \* sessions
  downs,    \* sessions whose DOWN it has to handle
  pending,  \* pending_connections, by their sessions
  idle,     \* the idle timer runs
  last,     \* last_call_event
  \* the call manager
  known,    \* the call in its map, NoCall if none
  mdowns,   \* calls whose DOWN it has to handle
  \* the sessions and their processes
  alive,
  talking,  \* the session has a connection in the channel (dm_voice_states)
  joiner,   \* its process in join_or_create_call: lookups left, call found
  leaver,   \* sessions with a process on its way to the call's leave
  forced,   \* sessions with a call_force_disconnect of their present connection
  parted,   \* connections that the media server saw end: <<session, which>>
  \* counters of the bounds
  made, talks, rings

ringVars    == <<ringing, timers, armed, expired>>
members     == <<voice, entries, downs, pending>>
callVars    == <<pid, ringVars, members, idle, last>>
managerVars == <<known, mdowns>>
sessionVars == <<alive, talking, joiner, leaver, forced, parted>>
vars == <<callVars, managerVars, sessionVars, made, talks, rings>>

\* A session's connection, or one that it had.
Which == {"present", "former"}

NoJoiner == [tries |-> 0, at |-> NoCall]

\* What a call that does not run holds.
Blank ==
  /\ ringing' = {} /\ timers' = {} /\ armed' = {} /\ expired' = {}
  /\ voice' = [u \in Users |-> Nobody] /\ entries' = {} /\ downs' = {} /\ pending' = {}
  /\ idle' = FALSE

Event(r, v) == [ringing |-> r, voice |-> v]

Init ==
  /\ pid = NoCall /\ ringing = {} /\ timers = {} /\ armed = {} /\ expired = {}
  /\ voice = [u \in Users |-> Nobody] /\ entries = {} /\ downs = {} /\ pending = {}
  /\ idle = FALSE /\ last = Event({}, [u \in Users |-> Nobody])
  /\ known = NoCall /\ mdowns = {}
  /\ alive = [s \in Sessions |-> TRUE] /\ talking = [s \in Sessions |-> FALSE]
  /\ joiner = [s \in Sessions |-> NoJoiner]
  /\ leaver = {} /\ forced = {} /\ parted = {}
  /\ made = 0 /\ talks = 0 /\ rings = 0

-----------------------------------------------------------------------------
(***************************************************************************)
(* The call manager.                                                       *)
(***************************************************************************)
\* A request for the call finds what do_lookup_call says, and is lost if that
\* call has ended.  (The cache answers only while its call runs, the process
\* registry only for a call that is not in the map: CallIsKnown.)
Reached == known # NoCall /\ known = pid

\* do_create_call: the call rings in its init/1.
Create(ring) ==
  /\ known = NoCall /\ pid = NoCall /\ made < MaxCalls
  /\ made' = made + 1 /\ pid' = made + 1 /\ known' = made + 1
  /\ ringing' = ring /\ timers' = ring /\ armed' = ring
  /\ idle' = TRUE /\ last' = Event(ring, voice)
  /\ UNCHANGED <<expired, members, mdowns, sessionVars, talks, rings>>

\* The call process stops: call_delete goes out, what was sent to it is lost.
Stops ==
  /\ pid' = NoCall /\ Blank /\ UNCHANGED <<last, known>>
  /\ mdowns' = mdowns \union {pid}

\* Faulty variant: a manager that starts again keeps its map.
TerminateKeeping ==
  /\ known # NoCall
  /\ \/ /\ known = pid
        /\ pid' = NoCall /\ Blank /\ known' = NoCall /\ UNCHANGED <<last, mdowns>>
     \/ /\ known # pid
        /\ mdowns' = {} /\ UNCHANGED <<callVars, known>>
  /\ UNCHANGED <<sessionVars, made, talks, rings>>

\* do_terminate_call: no call_delete, no DOWN.  To stop a call that has ended
\* exits with noproc, and the manager starts again with an empty map.
Terminate ==
  /\ known # NoCall /\ known' = NoCall
  /\ \/ /\ known = pid
        /\ pid' = NoCall /\ Blank /\ UNCHANGED <<last, mdowns>>
     \/ /\ known # pid
        /\ mdowns' = {} /\ UNCHANGED callVars
  /\ UNCHANGED <<sessionVars, made, talks, rings>>

\* cleanup_on_down
ManagerDown ==
  \E p \in mdowns :
    /\ mdowns' = mdowns \ {p}
    /\ known' = IF known = p THEN NoCall ELSE known
    /\ UNCHANGED <<callVars, sessionVars, made, talks, rings>>

-----------------------------------------------------------------------------
(***************************************************************************)
(* The call process: its helpers.                                          *)
(***************************************************************************)
\* dispatch_call_update
Announce(r, v) == last' = Event(r, v)

\* Faulty variant: a user who answers, or goes, is only taken from the list.
SilenceOnly(us) == ringing' = ringing \ us /\ UNCHANGED <<timers, armed>>

\* cancel_ringing_timers and remove_users_from_ringing.  A ring_timeout that
\* is in the mailbox already stays there.
Silence(us) == /\ ringing' = ringing \ us
               /\ timers' = timers \ us /\ armed' = armed \ us

\* The user's voice state goes with the entry of session s (leave, DOWN and
\* disconnect); rest is what is left of pending_connections.  The call stops
\* with the last voice state.
Departs(u, s, rest) ==
  LET v == [voice EXCEPT ![u] = Nobody] IN
  \/ /\ \A w \in Users : v[w] = Nobody
     /\ Stops
  \/ /\ \E w \in Users : v[w] # Nobody
     /\ voice' = v /\ entries' = entries \ {s} /\ downs' = downs \ {s} /\ pending' = rest
     /\ Silence({u}) /\ Announce(ringing \ {u}, v)
     /\ UNCHANGED <<pid, expired, idle, known, mdowns>>

-----------------------------------------------------------------------------
(***************************************************************************)
(* The call process: requests of the API.                                  *)
(***************************************************************************)
Ringable(us) == {u \in us : voice[u] = Nobody} \ ringing

\* {ring_recipients, Recipients}; pending_ringing is emptied at once, since
\* init/1 has set initiator_ready.
Ring(us) ==
  /\ Reached /\ rings < MaxRings /\ rings' = rings + 1
  /\ LET new == Ringable(us) IN
     /\ ringing' = ringing \union new
     /\ timers' = timers \union new /\ armed' = armed \union (new \ timers)
     /\ IF new = {} THEN UNCHANGED last ELSE Announce(ringing \union new, voice)
  /\ UNCHANGED <<pid, expired, members, idle, managerVars, sessionVars, made, talks>>

\* Faulty variant: nobody is told that the ringing stops.
StopRingingSilently(us) ==
  /\ Reached /\ Silence(us)
  /\ UNCHANGED <<pid, expired, members, idle, last, managerVars, sessionVars, made, talks,
                 rings>>

\* {stop_ringing, Recipients}
StopRinging(us) ==
  /\ Reached /\ Silence(us)
  /\ IF ringing \intersect us = {} THEN UNCHANGED last ELSE Announce(ringing \ us, voice)
  /\ UNCHANGED <<pid, expired, members, idle, managerVars, sessionVars, made, talks, rings>>

\* {confirm_connection, ConnectionId}: the media server saw the connection.
Confirm(s) ==
  /\ Reached /\ s \in pending /\ pending' = pending \ {s}
  /\ UNCHANGED <<pid, ringVars, voice, entries, downs, idle, last, managerVars, sessionVars,
                 made, talks, rings>>

\* {disconnect_user_if_in_channel, UserId, Channel, ConnectionId} for a
\* connection of s that has ended.  Which of the user's sessions has to go does
\* not depend on the connection; but a session takes the call_force_disconnect
\* of its own present connection only.
Disconnect(s, which) ==
  /\ <<s, which>> \in parted /\ parted' = parted \ {<<s, which>>} /\ Reached
  /\ LET u    == Owner[s]
         mine == {e \in entries : Owner[e] = u}
         its  == IF which = "present" THEN {s} ELSE {}
     IN
     \/ /\ voice[u] # Nobody
        /\ \E e \in mine : /\ Departs(u, e, pending \ its)
                           /\ forced' = forced \union (its \intersect {e})
     \/ /\ voice[u] = Nobody \/ mine = {}
        /\ pending' = pending \ its
        /\ UNCHANGED <<pid, ringVars, voice, entries, downs, idle, last, forced, managerVars>>
  /\ UNCHANGED <<alive, talking, joiner, leaver, made, talks, rings>>

-----------------------------------------------------------------------------
(***************************************************************************)
(* The call process: its timers and monitors.                              *)
(***************************************************************************)
RingTimerFires(u) ==
  /\ u \in armed /\ armed' = armed \ {u} /\ expired' = expired \union {u}
  /\ UNCHANGED <<pid, ringing, timers, members, idle, last, managerVars, sessionVars, made,
                 talks, rings>>

\* {ring_timeout, UserId}, perhaps of a timer that was cancelled too late
RingTimeout(u) ==
  /\ u \in expired
  /\ \/ /\ u \notin timers
        /\ expired' = expired \ {u}
        /\ UNCHANGED <<pid, ringing, timers, armed, members, idle, last, managerVars>>
     \/ /\ u \in timers /\ (ringing \ {u} # {} \/ \E w \in Users : voice[w] # Nobody)
        /\ expired' = expired \ {u} /\ Silence({u})
        /\ IF u \in ringing THEN Announce(ringing \ {u}, voice) ELSE UNCHANGED last
        /\ UNCHANGED <<pid, members, idle, managerVars>>
     \/ /\ u \in timers /\ ringing \ {u} = {} /\ \A w \in Users : voice[w] = Nobody
        /\ Stops
  /\ UNCHANGED <<sessionVars, made, talks, rings>>

\* Faulty variant: the idle timer is for the first two minutes only.
IdleTimeoutOnce ==
  /\ pid # NoCall /\ idle
  /\ \/ /\ ringing # {} \/ \E w \in Users : voice[w] # Nobody
        /\ idle' = FALSE
        /\ UNCHANGED <<pid, ringVars, members, last, managerVars>>
     \/ /\ ringing = {} /\ \A w \in Users : voice[w] = Nobody
        /\ Stops
  /\ UNCHANGED <<sessionVars, made, talks, rings>>

\* idle_timeout
IdleTimeout ==
  /\ pid # NoCall /\ idle
  /\ \/ /\ ringing # {} \/ \E w \in Users : voice[w] # Nobody
        /\ idle' = TRUE
        /\ UNCHANGED <<pid, ringVars, members, last, managerVars>>
     \/ /\ ringing = {} /\ \A w \in Users : voice[w] = Nobody
        /\ Stops
  /\ UNCHANGED <<sessionVars, made, talks, rings>>

\* DOWN of a session
SessionDown(s) ==
  /\ s \in downs
  /\ \/ s \in entries /\ Departs(Owner[s], s, pending)
     \/ /\ s \notin entries /\ downs' = downs \ {s}
        /\ UNCHANGED <<pid, ringVars, voice, entries, pending, idle, last, managerVars>>
  /\ UNCHANGED <<sessionVars, made, talks, rings>>

\* Faulty variant: the entry goes whether or not the user has a voice state.
ExpiresAnyway(s) == s \in entries /\ ~alive[s]

\* disconnect_user_after_pending_timeout takes the entry of a session that is
\* not there any more, unless its user has a voice state.
Expires(s) == s \in entries /\ ~alive[s] /\ voice[Owner[s]] = Nobody

\* {pending_connection_timeout, ConnectionId}
PendingTimeout(s) ==
  /\ s \in pending /\ pending' = pending \ {s}
  /\ \/ /\ Expires(s) /\ entries' = entries \ {s} /\ downs' = downs \ {s}
     \/ ~Expires(s) /\ UNCHANGED <<entries, downs>>
  /\ UNCHANGED <<pid, ringVars, voice, idle, last, managerVars, sessionVars, made, talks,
                 rings>>

-----------------------------------------------------------------------------
(***************************************************************************)
(* The sessions, and the processes they spawn.                             *)
(***************************************************************************)
\* A voice state update with a channel: the session gets a token, hence a
\* connection, and spawns join_or_create_call.  (One such process at a time.)
Talk(s) ==
  /\ alive[s] /\ ~talking[s] /\ joiner[s] = NoJoiner
  /\ talks < MaxTalks /\ talks' = talks + 1
  /\ talking' = [talking EXCEPT ![s] = TRUE]
  /\ joiner' = [joiner EXCEPT ![s] = [tries |-> MaxTries, at |-> NoCall]]
  /\ UNCHANGED <<callVars, managerVars, alive, leaver, forced, parted, made, rings>>

\* The lookup finds the call, or is used up.
Looked(j) == IF known # NoCall THEN [j EXCEPT !.at = known]
                               ELSE [j EXCEPT !.tries = j.tries - 1]

\* Faulty variant: the process does not stop when its lookups are used up.
JoinerLooksOn(s) ==
  /\ joiner[s].at = NoCall
  /\ joiner' = [joiner EXCEPT ![s] = Looked(@)]
  /\ UNCHANGED <<callVars, managerVars, alive, talking, leaver, forced, parted, made, talks,
                 rings>>

\* join_or_create_call: the lookup
JoinerLooks(s) ==
  /\ joiner[s].tries > 0 /\ joiner[s].at = NoCall
  /\ joiner' = [joiner EXCEPT ![s] = Looked(@)]
  /\ UNCHANGED <<callVars, managerVars, alive, talking, leaver, forced, parted, made, talks,
                 rings>>

\* {join, ...} reaches the call.  A session that has ended is reported at once.
Join(s) ==
  LET u == Owner[s]  v == [voice EXCEPT ![u] = s] IN
  /\ Silence({u}) /\ voice' = v /\ entries' = entries \union {s}
  /\ downs' = IF alive[s] THEN downs ELSE downs \union {s}
  /\ pending' = pending \union {s} /\ idle' = TRUE
  /\ Announce(ringing \ {u}, v)
  /\ UNCHANGED <<pid, expired>>

\* The joiner's call to the process it has found, which may have ended: then
\* the joiner exits, and nobody tries again.
JoinerJoins(s) ==
  /\ joiner[s].at # NoCall /\ joiner' = [joiner EXCEPT ![s] = NoJoiner]
  /\ IF joiner[s].at = pid THEN Join(s) ELSE UNCHANGED callVars
  /\ UNCHANGED <<managerVars, alive, talking, leaver, forced, parted, made, talks, rings>>

\* handle_dm_disconnect
HangsUp(s) ==
  /\ talking' = [talking EXCEPT ![s] = FALSE] /\ leaver' = leaver \union {s}
  /\ forced' = forced \ {s}

\* The connection of s is one that it had; the media server sees it end, if it
\* has not, or tells of it again.
Former(s) == (parted \ {<<s, "present">>}) \union {<<s, "former">>}

\* The client disconnects from voice.
HangUp(s) ==
  /\ alive[s] /\ talking[s] /\ HangsUp(s) /\ parted' = Former(s)
  /\ UNCHANGED <<callVars, managerVars, alive, joiner, made, talks, rings>>

\* The connection to the media server is lost.
Drops(s) ==
  /\ talking[s] /\ s \notin forced /\ <<s, "present">> \notin parted
  /\ parted' = parted \union {<<s, "present">>}
  /\ UNCHANGED <<callVars, managerVars, alive, talking, joiner, leaver, forced, made, talks,
                 rings>>

\* {call_force_disconnect, Channel, ConnectionId}
ForceDisconnect(s) ==
  /\ s \in forced /\ HangsUp(s)
  /\ UNCHANGED <<callVars, managerVars, alive, joiner, parted, made, talks, rings>>

\* The process that asks the call, if it finds one, to take {leave, SessionId}.
LeaverLeaves(s) ==
  /\ s \in leaver /\ leaver' = leaver \ {s}
  /\ IF Reached /\ s \in entries
     THEN Departs(Owner[s], s, pending)
     ELSE UNCHANGED <<callVars, managerVars>>
  /\ UNCHANGED <<alive, talking, joiner, forced, parted, made, talks, rings>>

\* The session process ends; its joiner and its leaver go on.
SessionEnds(s) ==
  /\ Cardinality({t \in Sessions : ~alive[t]}) < MaxEnds
  /\ alive[s] /\ alive' = [alive EXCEPT ![s] = FALSE]
  /\ talking' = [talking EXCEPT ![s] = FALSE]
  /\ forced' = forced \ {s}
  /\ parted' = IF talking[s] THEN Former(s) ELSE parted
  /\ downs' = IF s \in entries THEN downs \union {s} ELSE downs
  /\ UNCHANGED <<pid, ringVars, voice, entries, pending, idle, last, managerVars, joiner,
                 leaver, made, talks, rings>>

-----------------------------------------------------------------------------
Next ==
  \/ \E us \in SUBSET Users : Create(us) \/ Ring(us) \/ StopRinging(us)
  \/ Terminate \/ ManagerDown \/ IdleTimeout
  \/ \E u \in Users : RingTimerFires(u) \/ RingTimeout(u)
  \/ \E s \in Sessions : \/ \E which \in Which : Disconnect(s, which)
                         \/ Confirm(s) \/ SessionDown(s) \/ PendingTimeout(s)
                         \/ Talk(s) \/ JoinerLooks(s) \/ JoinerJoins(s) \/ HangUp(s)
                         \/ Drops(s) \/ ForceDisconnect(s) \/ LeaverLeaves(s) \/ SessionEnds(s)

Spec == Init /\ [][Next]_vars

\* Timers fire and are handled, and so are DOWN messages; the manager and the
\* spawned processes go on.
Fairness ==
  /\ WF_vars(ManagerDown) /\ WF_vars(IdleTimeout)
  /\ \A u \in Users : WF_vars(RingTimerFires(u)) /\ WF_vars(RingTimeout(u))
  /\ \A s \in Sessions : /\ WF_vars(SessionDown(s)) /\ WF_vars(ForceDisconnect(s))
                         /\ WF_vars(JoinerLooks(s)) /\ WF_vars(JoinerJoins(s))
                         /\ WF_vars(LeaverLeaves(s))

FairSpec == Spec /\ Fairness

-----------------------------------------------------------------------------
(***************************************************************************)
(* Properties.                                                             *)
(***************************************************************************)
\* Every variable has its type.
TypeOK ==
  /\ pid \in 0..MaxCalls /\ known \in 0..MaxCalls /\ mdowns \in SUBSET (1..MaxCalls)
  /\ ringing \in SUBSET Users /\ timers \in SUBSET Users
  /\ armed \in SUBSET Users /\ expired \in SUBSET Users
  /\ voice \in [Users -> Sessions \union {Nobody}]
  /\ entries \in SUBSET Sessions /\ downs \in SUBSET Sessions /\ pending \in SUBSET Sessions
  /\ idle \in BOOLEAN
  /\ last \in [ringing : SUBSET Users, voice : [Users -> Sessions \union {Nobody}]]
  /\ alive \in [Sessions -> BOOLEAN] /\ talking \in [Sessions -> BOOLEAN]
  /\ joiner \in [Sessions -> [tries : 0..MaxTries, at : 0..MaxCalls]]
  /\ leaver \in SUBSET Sessions /\ forced \in SUBSET Sessions
  /\ parted \in SUBSET (Sessions \X Which)
  /\ made \in 0..MaxCalls /\ talks \in 0..MaxTalks /\ rings \in 0..MaxRings

\* Nobody is left in a call by a session that has ended: a user with a voice
\* state has a session in the call that runs or whose DOWN is on its way.
NoGhosts ==
  \A u \in Users : voice[u] # Nobody =>
    \E s \in entries : Owner[s] = u /\ (alive[s] \/ s \in downs)

\* Who rings has a timer that will end it, who is in the call does not ring,
\* and no timer is left of a ringing that ended, which would keep the next one
\* from getting a timer (start_ringing_timers skips a user who has one).
RingingIsTimed ==
  /\ ringing = timers
  /\ \A u \in ringing : voice[u] = Nobody /\ u \in armed \union expired

\* What the recipients were told last is what is the case, although most
\* handlers announce a change only if the ringing changed (CALL_UPDATE: "Sent
\* when a DM or group DM call is updated").
Announced == pid # NoCall => last = Event(ringing, voice)

\* The manager knows the call that runs, so that it is found and no other is
\* started; a call that has ended is in its map only until the DOWN.
CallIsKnown ==
  /\ pid # NoCall => known = pid
  /\ known # pid => known \in mdowns

\* A call in which nobody is left, or into which nobody has come, ends.
EmptyCallEnds == []<>(pid = NoCall \/ \E u \in Users : voice[u] # Nobody)

-----------------------------------------------------------------------------
\* The following do not hold.

\* Nothing of session s is on its way.
Quiet(s) == joiner[s] = NoJoiner /\ s \notin leaver /\ s \notin forced

\* CALL_UPDATE: "Voice states of current participants in the call" - a session
\* that has hung up is in no call.
HungUpIsOut ==
  \A s \in Sessions : Quiet(s) /\ alive[s] /\ ~talking[s] => voice[Owner[s]] # s

\* CALL_DELETE: "all participants leave or timeout" - no call ends for lack of
\* participants while another session that entered it is still there.
EndsWhenAllLeft ==
  [][(pid # NoCall /\ pid' = NoCall /\ known' # NoCall)
       => \A s \in entries : ~talking'[s]]_vars
=============================================================================
