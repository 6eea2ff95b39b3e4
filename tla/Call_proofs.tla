----------------------------- MODULE Call_proofs -----------------------------
(***************************************************************************)
(* Theorems about Call, for any users and sessions and every bound: who is *)
(* in a call has a session that is there, who rings has a timer, what was  *)
(* announced is the case, and the manager knows the call that runs.        *)
(***************************************************************************)
EXTENDS Call, TLAPS

-----------------------------------------------------------------------------
(***************************************************************************)
(* Type correctness.                                                       *)
(***************************************************************************)
VoiceType == [Users -> Sessions \union {Nobody}]

LEMMA BlankType ==
  ASSUME Blank
  PROVE  /\ ringing' \in SUBSET Users /\ timers' \in SUBSET Users
         /\ armed' \in SUBSET Users /\ expired' \in SUBSET Users
         /\ voice' \in VoiceType
         /\ entries' \in SUBSET Sessions /\ downs' \in SUBSET Sessions
         /\ pending' \in SUBSET Sessions /\ idle' \in BOOLEAN
  BY DEF Blank, VoiceType

\* The part of TypeOK about the call and its manager, and the rest of it.
CallType ==
  /\ pid \in 0..MaxCalls /\ known \in 0..MaxCalls /\ mdowns \in SUBSET (1..MaxCalls)
  /\ ringing \in SUBSET Users /\ timers \in SUBSET Users
  /\ armed \in SUBSET Users /\ expired \in SUBSET Users
  /\ voice \in VoiceType
  /\ entries \in SUBSET Sessions /\ downs \in SUBSET Sessions /\ pending \in SUBSET Sessions
  /\ idle \in BOOLEAN
  /\ last \in [ringing : SUBSET Users, voice : VoiceType]

SessionType ==
  /\ alive \in [Sessions -> BOOLEAN] /\ talking \in [Sessions -> BOOLEAN]
  /\ joiner \in [Sessions -> [tries : 0..MaxTries, at : 0..MaxCalls]]
  /\ leaver \in SUBSET Sessions /\ forced \in SUBSET Sessions
  /\ parted \in SUBSET (Sessions \X Which)
  /\ made \in 0..MaxCalls /\ talks \in 0..MaxTalks /\ rings \in 0..MaxRings

LEMMA TypeParts == TypeOK <=> CallType /\ SessionType
  BY DEF TypeOK, CallType, SessionType, VoiceType

\* A call that has ended holds nothing, and a call has a number of its own.
Ended ==
  pid = NoCall =>
    /\ ringing = {} /\ timers = {} /\ armed = {} /\ expired = {}
    /\ voice = [u \in Users |-> Nobody] /\ entries = {} /\ downs = {} /\ pending = {}

Numbered ==
  /\ pid <= made /\ known <= made
  /\ \A p \in mdowns : p <= made /\ p # pid

CallInv ==
  /\ TypeOK /\ Ended /\ Numbered
  /\ NoGhosts /\ RingingIsTimed /\ Announced /\ CallIsKnown

-----------------------------------------------------------------------------
(***************************************************************************)
(* What a step can be, for the call.                                       *)
(***************************************************************************)
others == <<managerVars, alive, made>>

\* A session goes: leave, DOWN and disconnect.
Departure ==
  \E s \in entries, rest \in SUBSET pending :
    Departs(Owner[s], s, rest) /\ UNCHANGED <<alive, made>>

Entrance == \E s \in Sessions : pid # NoCall /\ Join(s) /\ UNCHANGED others

\* Nothing but a DOWN that is of no session in the call, or a confirmation.
Calm ==
  /\ UNCHANGED <<pid, ringVars, voice, entries, last, others>>
  /\ idle' \in {idle, TRUE}
  /\ downs' \in SUBSET downs /\ pending' \in SUBSET pending
  /\ \A s \in entries : s \in downs => s \in downs'

CallStep ==
  \/ \E us \in SUBSET Users : Create(us) \/ Ring(us) \/ StopRinging(us)
  \/ Terminate \/ ManagerDown \/ IdleTimeout
  \/ \E u \in Users : RingTimerFires(u) \/ RingTimeout(u)
  \/ Departure \/ Entrance \/ Calm
  \/ \E s \in Sessions : PendingTimeout(s) \/ SessionEnds(s)

LEMMA CallSteps ==
  ASSUME TypeOK, Next PROVE CallStep
<1>0. /\ entries \in SUBSET Sessions /\ Owner \in [Sessions -> Users]
      /\ pending \in SUBSET Sessions
      /\ \A s \in Sessions : joiner[s] \in [tries : 0..MaxTries, at : 0..MaxCalls]
  BY CallAssumption DEF TypeOK, CallAssumption
<1>1. ASSUME NEW s \in Sessions, Confirm(s) PROVE Calm
  BY <1>1 DEF Confirm, Calm, others, sessionVars
<1>2. ASSUME NEW s \in Sessions, NEW which \in Which, Disconnect(s, which)
      PROVE  Departure \/ Calm
  <2> DEFINE mine == {e \in entries : Owner[e] = Owner[s]}
             its  == IF which = "present" THEN {s} ELSE {}
  <2>1. CASE \E e \in mine : Departs(Owner[s], e, pending \ its)
    <3>1. PICK e \in mine : Departs(Owner[s], e, pending \ its)
      BY <2>1
    <3>2. Owner[e] = Owner[s] /\ e \in entries /\ pending \ its \in SUBSET pending
      OBVIOUS
    <3>3. UNCHANGED <<alive, made>>
      BY <1>2 DEF Disconnect
    <3> QED BY <3>1, <3>2, <3>3 DEF Departure
  <2>2. CASE /\ pending' = pending \ its
             /\ UNCHANGED <<pid, ringVars, voice, entries, downs, idle, last, forced,
                            managerVars>>
    BY <1>2, <2>2 DEF Disconnect, Calm, others
  <2> QED BY <1>2, <2>1, <2>2 DEF Disconnect
<1>3. ASSUME NEW s \in Sessions, SessionDown(s) PROVE Departure \/ Calm
  <2>1. CASE s \in entries /\ Departs(Owner[s], s, pending)
    BY <1>3, <2>1 DEF SessionDown, Departure, sessionVars
  <2>2. CASE s \notin entries
    BY <1>3, <2>2 DEF SessionDown, Calm, others, sessionVars
  <2> QED BY <1>3, <2>1, <2>2 DEF SessionDown
<1>4. ASSUME NEW s \in Sessions, JoinerJoins(s) PROVE Entrance \/ Calm
  <2>1. CASE joiner[s].at = pid
    BY <1>4, <2>1 DEF JoinerJoins, Entrance, others
  <2>2. CASE joiner[s].at # pid
    BY <1>4, <2>2 DEF JoinerJoins, Calm, others, callVars, members
  <2> QED BY <2>1, <2>2
<1>5. ASSUME NEW s \in Sessions, LeaverLeaves(s) PROVE Departure \/ Calm
  <2>1. CASE Reached /\ s \in entries
    BY <1>5, <2>1 DEF LeaverLeaves, Departure
  <2>2. CASE ~(Reached /\ s \in entries)
    BY <1>5, <2>2 DEF LeaverLeaves, Calm, others, callVars, members
  <2> QED BY <2>1, <2>2
<1>6. ASSUME NEW s \in Sessions,
             Talk(s) \/ JoinerLooks(s) \/ HangUp(s) \/ Drops(s) \/ ForceDisconnect(s)
      PROVE  Calm
  BY <1>6 DEF Talk, JoinerLooks, HangUp, Drops, ForceDisconnect, Calm, others, callVars, members
<1> QED BY <1>1, <1>2, <1>3, <1>4, <1>5, <1>6 DEF Next, CallStep

-----------------------------------------------------------------------------
(***************************************************************************)
(* Type correctness, one lemma for the call and one for the sessions.      *)
(***************************************************************************)
LEMMA StopsType ==
  ASSUME CallType, Stops, pid # NoCall PROVE CallType'
<1>1. pid \in 1..MaxCalls
  BY CallAssumption DEF CallType, NoCall, CallAssumption
<1>2. /\ pid' = NoCall /\ Blank /\ last' = last /\ known' = known
      /\ mdowns' = mdowns \union {pid}
  BY DEF Stops
<1>3. mdowns' \in SUBSET (1..MaxCalls) /\ pid' \in 0..MaxCalls /\ known' \in 0..MaxCalls
  BY <1>1, <1>2, CallAssumption DEF CallType, NoCall, CallAssumption
<1>4. last' \in [ringing : SUBSET Users, voice : VoiceType]
  BY <1>2 DEF CallType
<1> QED BY <1>2, <1>3, <1>4, BlankType DEF CallType

LEMMA EventType ==
  ASSUME NEW r \in SUBSET Users, NEW v \in VoiceType
  PROVE  Event(r, v) \in [ringing : SUBSET Users, voice : VoiceType]
  BY DEF Event

LEMMA DepartsType ==
  ASSUME CallType, pid # NoCall, NEW u \in Users, NEW s \in Sessions,
         NEW rest \in SUBSET pending, Departs(u, s, rest)
  PROVE  CallType'
<1> DEFINE v == [voice EXCEPT ![u] = Nobody]
<1>1. v \in VoiceType
  BY DEF CallType, VoiceType
<1>2. CASE Stops
  BY <1>2, StopsType
<1>3. CASE /\ voice' = v /\ entries' = entries \ {s} /\ downs' = downs \ {s} /\ pending' = rest
           /\ Silence({u}) /\ Announce(ringing \ {u}, v)
           /\ UNCHANGED <<pid, expired, idle, known, mdowns>>
  <2>1. last' \in [ringing : SUBSET Users, voice : VoiceType]
    BY <1>1, <1>3, EventType DEF Announce, CallType
  <2> QED BY <1>1, <1>3, <2>1 DEF CallType, Silence
<1> QED BY <1>2, <1>3 DEF Departs

LEMMA CallTypeKept ==
  ASSUME TypeOK, Ended, CallStep PROVE CallType'
<1>0. CallType /\ SessionType /\ Owner \in [Sessions -> Users]
  BY TypeParts, CallAssumption DEF CallAssumption
<1>1. ASSUME NEW us \in SUBSET Users, Create(us) PROVE CallType'
  <2>1. last' \in [ringing : SUBSET Users, voice : VoiceType]
    BY <1>0, <1>1, EventType DEF Create, CallType
  <2>2. made + 1 \in 0..MaxCalls
    BY <1>0, <1>1, CallAssumption DEF Create, SessionType, CallAssumption
  <2> QED BY <1>0, <1>1, <2>1, <2>2 DEF Create, CallType, members
<1>2. ASSUME NEW us \in SUBSET Users, Ring(us) PROVE CallType'
  <2>1. last' \in [ringing : SUBSET Users, voice : VoiceType]
    BY <1>0, <1>2, EventType DEF Ring, Announce, CallType, Ringable
  <2> QED BY <1>0, <1>2, <2>1 DEF Ring, CallType, Ringable, members, managerVars
<1>3. ASSUME NEW us \in SUBSET Users, StopRinging(us) PROVE CallType'
  <2>1. last' \in [ringing : SUBSET Users, voice : VoiceType]
    BY <1>0, <1>3, EventType DEF StopRinging, Announce, CallType
  <2> QED BY <1>0, <1>3, <2>1 DEF StopRinging, Silence, CallType, members, managerVars
<1>4. ASSUME Terminate PROVE CallType'
  <2>1. CASE pid' = NoCall /\ Blank /\ UNCHANGED <<last, mdowns>>
    <3>1. pid' \in 0..MaxCalls /\ known' \in 0..MaxCalls
      BY <1>4, <2>1, CallAssumption DEF Terminate, NoCall, CallAssumption
    <3> QED BY <1>0, <1>4, <2>1, <3>1, BlankType DEF CallType
  <2>2. CASE mdowns' = {} /\ UNCHANGED callVars
    <3>1. known' \in 0..MaxCalls
      BY <1>4, CallAssumption DEF Terminate, NoCall, CallAssumption
    <3> QED BY <1>0, <2>2, <3>1 DEF CallType, callVars, ringVars, members
  <2> QED BY <1>4, <2>1, <2>2 DEF Terminate
<1>5. ASSUME ManagerDown PROVE CallType'
  <2>1. NoCall \in 0..MaxCalls
    BY CallAssumption DEF NoCall, CallAssumption
  <2> QED BY <1>0, <1>5, <2>1 DEF ManagerDown, CallType, callVars, ringVars, members
<1>6. ASSUME IdleTimeout PROVE CallType'
  <2>1. CASE Stops
    BY <1>0, <1>6, <2>1, StopsType DEF IdleTimeout
  <2>2. CASE idle' = TRUE /\ UNCHANGED <<pid, ringVars, members, last, managerVars>>
    BY <1>0, <2>2 DEF CallType, ringVars, members, managerVars
  <2> QED BY <1>6, <2>1, <2>2 DEF IdleTimeout
<1>7. ASSUME NEW u \in Users, RingTimerFires(u) PROVE CallType'
  BY <1>0, <1>7 DEF RingTimerFires, CallType, members, managerVars
<1>8. ASSUME NEW u \in Users, RingTimeout(u) PROVE CallType'
  <2>1. CASE Stops
    BY <1>0, <1>8, <2>1, StopsType DEF RingTimeout, Ended
  <2>2. CASE ~Stops /\ u \in timers
    <3>1. last' \in [ringing : SUBSET Users, voice : VoiceType]
      BY <1>0, <1>8, <2>2, EventType DEF RingTimeout, Announce, CallType
    <3> QED BY <1>0, <1>8, <2>2, <3>1
            DEF RingTimeout, Silence, CallType, members, managerVars
  <2>3. CASE u \notin timers
    BY <1>0, <1>8, <2>3 DEF RingTimeout, CallType, members, managerVars
  <2> QED BY <2>1, <2>2, <2>3
<1>9. ASSUME Departure PROVE CallType'
  <2>1. PICK s \in entries, rest \in SUBSET pending : Departs(Owner[s], s, rest)
    BY <1>9 DEF Departure
  <2>2. pid # NoCall /\ s \in Sessions /\ Owner[s] \in Users
    BY <1>0, <2>1 DEF Ended, CallType
  <2> QED BY <1>0, <2>1, <2>2, DepartsType
<1>10. ASSUME Entrance PROVE CallType'
  <2>1. PICK s \in Sessions : Join(s) /\ UNCHANGED others
    BY <1>10 DEF Entrance
  <2> DEFINE v == [voice EXCEPT ![Owner[s]] = s]
  <2>2. v \in VoiceType
    BY <1>0 DEF CallType, VoiceType
  <2>3. last' \in [ringing : SUBSET Users, voice : VoiceType]
    BY <1>0, <2>1, <2>2, EventType DEF Join, Announce, CallType
  <2> QED BY <1>0, <2>1, <2>2, <2>3 DEF Join, Silence, CallType, others, managerVars
<1>11. ASSUME Calm PROVE CallType'
  BY <1>0, <1>11 DEF Calm, CallType, others, ringVars, managerVars
<1>12. ASSUME NEW s \in Sessions, PendingTimeout(s) PROVE CallType'
  BY <1>0, <1>12 DEF PendingTimeout, CallType, ringVars, managerVars
<1>13. ASSUME NEW s \in Sessions, SessionEnds(s) PROVE CallType'
  BY <1>0, <1>13 DEF SessionEnds, CallType, ringVars, managerVars
<1> QED BY <1>1, <1>2, <1>3, <1>4, <1>5, <1>6, <1>7, <1>8, <1>9, <1>10, <1>11, <1>12, <1>13
        DEF CallStep

LEMMA SessionTypeKept ==
  ASSUME TypeOK, Next PROVE SessionType'
<1>0. SessionType /\ known \in 0..MaxCalls /\ entries \in SUBSET Sessions
  BY TypeParts DEF CallType
<1>1. NoJoiner \in [tries : 0..MaxTries, at : 0..MaxCalls]
  BY CallAssumption DEF NoJoiner, NoCall, CallAssumption
<1>2. ASSUME NEW us \in SUBSET Users, Create(us) \/ Ring(us) \/ StopRinging(us) PROVE SessionType'
  <2>1. made' \in 0..MaxCalls /\ rings' \in 0..MaxRings
    BY <1>0, <1>2, CallAssumption DEF Create, Ring, StopRinging, SessionType, CallAssumption
  <2> QED BY <1>0, <1>2, <2>1 DEF Create, Ring, StopRinging, SessionType, sessionVars
<1>3. ASSUME Terminate \/ ManagerDown \/ IdleTimeout PROVE SessionType'
  BY <1>0, <1>3 DEF Terminate, ManagerDown, IdleTimeout, SessionType, sessionVars
<1>4. ASSUME NEW u \in Users, RingTimerFires(u) \/ RingTimeout(u) PROVE SessionType'
  BY <1>0, <1>4 DEF RingTimerFires, RingTimeout, SessionType, sessionVars
<1>5. ASSUME NEW s \in Sessions, Confirm(s) \/ SessionDown(s) \/ PendingTimeout(s)
      PROVE  SessionType'
  BY <1>0, <1>5 DEF Confirm, SessionDown, PendingTimeout, SessionType, sessionVars
<1>6. ASSUME NEW s \in Sessions, NEW which \in Which, Disconnect(s, which) PROVE SessionType'
  <2>1. forced' \in SUBSET Sessions
    BY <1>0, <1>6 DEF Disconnect, SessionType
  <2>2. parted' \in SUBSET (Sessions \X Which)
    BY <1>0, <1>6 DEF Disconnect, SessionType
  <2>3. UNCHANGED <<alive, talking, joiner, leaver, made, talks, rings>>
    BY <1>6 DEF Disconnect
  <2> QED BY <1>0, <2>1, <2>2, <2>3 DEF SessionType
<1>7. ASSUME NEW s \in Sessions, Talk(s) PROVE SessionType'
  <2>1. [tries |-> MaxTries, at |-> NoCall] \in [tries : 0..MaxTries, at : 0..MaxCalls]
    BY CallAssumption DEF NoCall, CallAssumption
  <2>2. talks' \in 0..MaxTalks
    BY <1>0, <1>7, CallAssumption DEF Talk, SessionType, CallAssumption
  <2> QED BY <1>0, <1>7, <2>1, <2>2 DEF Talk, SessionType
<1>8. ASSUME NEW s \in Sessions, JoinerLooks(s) PROVE SessionType'
  <2>1. joiner[s] \in [tries : 0..MaxTries, at : 0..MaxCalls] /\ joiner[s].tries > 0
    BY <1>0, <1>8 DEF JoinerLooks, SessionType
  <2>2. Looked(joiner[s]) \in [tries : 0..MaxTries, at : 0..MaxCalls]
    BY <1>0, <2>1, CallAssumption DEF Looked, CallAssumption
  <2>3. joiner' = [joiner EXCEPT ![s] = Looked(joiner[s])]
    BY <1>0, <1>8 DEF JoinerLooks, SessionType
  <2> QED BY <1>0, <1>8, <2>2, <2>3 DEF JoinerLooks, SessionType
<1>9. ASSUME NEW s \in Sessions, JoinerJoins(s) PROVE SessionType'
  BY <1>0, <1>1, <1>9 DEF JoinerJoins, SessionType
<1>10. ASSUME NEW s \in Sessions, HangUp(s) \/ Drops(s) \/ ForceDisconnect(s) PROVE SessionType'
  <2>1. parted' \in SUBSET (Sessions \X Which)
    <3>1. parted' \in {parted, Former(s), parted \union {<<s, "present">>}}
      BY <1>10 DEF HangUp, Drops, ForceDisconnect
    <3>2. <<s, "present">> \in Sessions \X Which /\ Former(s) \in SUBSET (Sessions \X Which)
      BY <1>0 DEF Former, Which, SessionType
    <3> QED BY <1>0, <3>1, <3>2 DEF SessionType
  <2>2. /\ talking' \in {talking, [talking EXCEPT ![s] = FALSE]}
        /\ leaver' \in {leaver, leaver \union {s}} /\ forced' \in {forced, forced \ {s}}
        /\ UNCHANGED <<alive, joiner, made, talks, rings>>
    BY <1>10 DEF HangUp, Drops, ForceDisconnect, HangsUp
  <2>3. talking' \in [Sessions -> BOOLEAN]
    BY <1>0, <2>2 DEF SessionType
  <2> QED BY <1>0, <2>1, <2>2, <2>3 DEF SessionType
<1>11. ASSUME NEW s \in Sessions, LeaverLeaves(s) PROVE SessionType'
  BY <1>0, <1>11 DEF LeaverLeaves, SessionType
<1>12. ASSUME NEW s \in Sessions, SessionEnds(s) PROVE SessionType'
  <2>1. parted' \in SUBSET (Sessions \X Which)
    <3>1. parted' \in {parted, Former(s)}
      BY <1>12 DEF SessionEnds
    <3> QED BY <1>0, <3>1 DEF Former, Which, SessionType
  <2> QED BY <1>0, <1>12, <2>1 DEF SessionEnds, SessionType
<1> QED BY <1>2, <1>3, <1>4, <1>5, <1>6, <1>7, <1>8, <1>9, <1>10, <1>11, <1>12 DEF Next

-----------------------------------------------------------------------------
(***************************************************************************)
(* The parts of the invariant, each for a step of the call.                *)
(***************************************************************************)
LEMMA EndedKept ==
  ASSUME TypeOK, Ended, Numbered, CallIsKnown, CallStep PROVE Ended'
<1>1. ASSUME Blank PROVE Ended'
  BY <1>1 DEF Blank, Ended
<1>2. ASSUME Stops PROVE Ended'
  BY <1>1, <1>2 DEF Stops
<1>3. ASSUME NEW us \in SUBSET Users, Create(us) PROVE Ended'
  BY <1>3 DEF Create, Ended, NoCall, TypeOK
<1>4. ASSUME NEW us \in SUBSET Users, Ring(us) \/ StopRinging(us) PROVE Ended'
  BY <1>4 DEF Ring, StopRinging, Reached, Ended
<1>5. CASE Terminate \/ ManagerDown
  BY <1>1, <1>5 DEF Terminate, ManagerDown, Ended, callVars, ringVars, members
<1>6. CASE IdleTimeout
  BY <1>2, <1>6 DEF IdleTimeout, Ended
<1>7. ASSUME NEW u \in Users, RingTimerFires(u) \/ RingTimeout(u) PROVE Ended'
  BY <1>2, <1>7 DEF RingTimerFires, RingTimeout, Ended
<1>8. CASE Departure
  BY <1>2, <1>8 DEF Departure, Departs, Ended
<1>9. CASE Entrance
  BY <1>9 DEF Entrance, Join, Ended
<1>10. CASE Calm
  BY <1>10 DEF Calm, Ended, ringVars
<1>11. ASSUME NEW s \in Sessions, PendingTimeout(s) \/ SessionEnds(s) PROVE Ended'
  BY <1>11 DEF PendingTimeout, SessionEnds, Ended, ringVars
<1> QED BY <1>3, <1>4, <1>5, <1>6, <1>7, <1>8, <1>9, <1>10, <1>11 DEF CallStep

LEMMA NumberedKept ==
  ASSUME TypeOK, Ended, Numbered, CallIsKnown, CallStep PROVE Numbered' /\ CallIsKnown'
<1>0. /\ pid \in Nat /\ known \in Nat /\ made \in Nat /\ mdowns \in SUBSET Nat
      /\ \A p \in mdowns : p # NoCall
  BY CallAssumption DEF TypeOK, NoCall, CallAssumption
<1> DEFINE Kept == Numbered' /\ CallIsKnown'
<1>1. ASSUME UNCHANGED <<pid, made, managerVars>> PROVE Kept
  BY <1>1 DEF Numbered, CallIsKnown, managerVars
<1>2. ASSUME Stops, pid # NoCall, made' = made PROVE Kept
  BY <1>0, <1>2 DEF Stops, Numbered, CallIsKnown, NoCall
<1>3. ASSUME NEW us \in SUBSET Users, Create(us) PROVE Kept
  BY <1>0, <1>3 DEF Create, Numbered, CallIsKnown, NoCall
<1>4. ASSUME NEW us \in SUBSET Users, Ring(us) \/ StopRinging(us) PROVE Kept
  BY <1>1, <1>4 DEF Ring, StopRinging
<1>5. CASE Terminate
  <2>1. CASE known = pid
    <3>1. pid' = NoCall /\ known' = NoCall /\ UNCHANGED <<mdowns, made>>
      BY <1>5, <2>1 DEF Terminate
    <3> QED BY <1>0, <3>1 DEF Numbered, CallIsKnown, NoCall
  <2>2. CASE known # pid
    BY <1>0, <1>5, <2>2 DEF Terminate, Numbered, CallIsKnown, NoCall, callVars
  <2> QED BY <2>1, <2>2
<1>6. CASE ManagerDown
  <2>1. PICK p \in mdowns : /\ mdowns' = mdowns \ {p}
                            /\ known' = IF known = p THEN NoCall ELSE known
                            /\ UNCHANGED <<callVars, sessionVars, made, talks, rings>>
    BY <1>6 DEF ManagerDown
  <2>2. p # pid
    BY DEF Numbered
  <2> QED BY <1>0, <2>1, <2>2 DEF Numbered, CallIsKnown, NoCall, callVars
<1>7. CASE IdleTimeout
  BY <1>1, <1>2, <1>7 DEF IdleTimeout
<1>8. ASSUME NEW u \in Users, RingTimerFires(u) \/ RingTimeout(u) PROVE Kept
  BY <1>1, <1>2, <1>8 DEF RingTimerFires, RingTimeout, Ended
<1>9. CASE Departure
  <2>1. pid # NoCall
    BY <1>9 DEF Departure, Ended
  <2> QED BY <1>1, <1>2, <1>9, <2>1 DEF Departure, Departs, managerVars
<1>10. CASE Entrance
  BY <1>1, <1>10 DEF Entrance, Join, others
<1>11. CASE Calm
  BY <1>1, <1>11 DEF Calm, others
<1>12. ASSUME NEW s \in Sessions, PendingTimeout(s) \/ SessionEnds(s) PROVE Kept
  BY <1>1, <1>12 DEF PendingTimeout, SessionEnds
<1> QED BY <1>3, <1>4, <1>5, <1>6, <1>7, <1>8, <1>9, <1>10, <1>11, <1>12 DEF CallStep

\* A voice state goes with the entry of its own user only, and an entry that
\* goes without one is of a user who has none.
LEMMA NoGhostsKept ==
  ASSUME TypeOK, Ended, NoGhosts, CallStep PROVE NoGhosts'
<1>0. /\ entries \in SUBSET Sessions /\ voice \in VoiceType
      /\ alive \in [Sessions -> BOOLEAN] /\ Owner \in [Sessions -> Users]
      /\ Nobody \notin Sessions
  BY CallAssumption DEF TypeOK, VoiceType, CallAssumption
<1>1. ASSUME UNCHANGED <<voice, entries, alive>>,
             \A s \in entries : s \in downs => s \in downs'
      PROVE  NoGhosts'
  BY <1>1 DEF NoGhosts
<1>2. ASSUME Blank PROVE NoGhosts'
  BY <1>2 DEF Blank, NoGhosts
<1>3. ASSUME Stops PROVE NoGhosts'
  BY <1>2, <1>3 DEF Stops
<1>4. ASSUME NEW us \in SUBSET Users, Create(us) \/ Ring(us) \/ StopRinging(us) PROVE NoGhosts'
  BY <1>1, <1>4 DEF Create, Ring, StopRinging, members, sessionVars
<1>5. CASE Terminate \/ ManagerDown
  BY <1>1, <1>2, <1>5 DEF Terminate, ManagerDown, callVars, members, sessionVars
<1>6. CASE IdleTimeout
  BY <1>1, <1>3, <1>6 DEF IdleTimeout, members, sessionVars
<1>7. ASSUME NEW u \in Users, RingTimerFires(u) \/ RingTimeout(u) PROVE NoGhosts'
  BY <1>1, <1>3, <1>7 DEF RingTimerFires, RingTimeout, members, sessionVars
<1>8. CASE Departure
  <2>1. PICK s \in entries, rest \in SUBSET pending :
          Departs(Owner[s], s, rest) /\ UNCHANGED <<alive, made>>
    BY <1>8 DEF Departure
  <2>2. CASE /\ voice' = [voice EXCEPT ![Owner[s]] = Nobody]
             /\ entries' = entries \ {s} /\ downs' = downs \ {s}
    <3>1. SUFFICES ASSUME NEW u \in Users, voice'[u] # Nobody
                   PROVE  \E t \in entries' : Owner[t] = u /\ (alive'[t] \/ t \in downs')
      BY DEF NoGhosts
    <3>2. u # Owner[s] /\ voice[u] # Nobody
      BY <1>0, <2>2, <3>1 DEF VoiceType
    <3>3. PICK t \in entries : Owner[t] = u /\ (alive[t] \/ t \in downs)
      BY <3>2 DEF NoGhosts
    <3> QED BY <2>1, <2>2, <3>2, <3>3
  <2> QED BY <1>3, <2>1, <2>2 DEF Departs
<1>9. CASE Entrance
  <2>1. PICK s \in Sessions : Join(s) /\ UNCHANGED others
    BY <1>9 DEF Entrance
  <2>2. /\ voice' = [voice EXCEPT ![Owner[s]] = s] /\ entries' = entries \union {s}
        /\ downs' = IF alive[s] THEN downs ELSE downs \union {s}
        /\ alive' = alive
    BY <2>1 DEF Join, others
  <2>3. ASSUME NEW u \in Users, voice'[u] # Nobody
        PROVE  \E t \in entries' : Owner[t] = u /\ (alive'[t] \/ t \in downs')
    <3>1. CASE u = Owner[s]
      BY <2>2, <3>1
    <3>2. CASE u # Owner[s]
      <4>1. voice[u] # Nobody
        BY <1>0, <2>2, <2>3, <3>2 DEF VoiceType
      <4>2. PICK t \in entries : Owner[t] = u /\ (alive[t] \/ t \in downs)
        BY <4>1 DEF NoGhosts
      <4> QED BY <2>2, <4>2
    <3> QED BY <3>1, <3>2
  <2> QED BY <2>3 DEF NoGhosts
<1>10. CASE Calm
  BY <1>1, <1>10 DEF Calm, others
<1>11. ASSUME NEW s \in Sessions, PendingTimeout(s) PROVE NoGhosts'
  <2>1. CASE Expires(s) /\ entries' = entries \ {s} /\ downs' = downs \ {s}
    <3>1. UNCHANGED <<voice, alive>> /\ voice[Owner[s]] = Nobody
      BY <1>11, <2>1 DEF PendingTimeout, Expires, sessionVars
    <3> QED BY <2>1, <3>1 DEF NoGhosts
  <2>2. CASE UNCHANGED <<entries, downs>>
    BY <1>1, <1>11, <2>2 DEF PendingTimeout, sessionVars
  <2> QED BY <1>11, <2>1, <2>2 DEF PendingTimeout
<1>12. ASSUME NEW s \in Sessions, SessionEnds(s) PROVE NoGhosts'
  <2>1. /\ UNCHANGED <<voice, entries>> /\ alive' = [alive EXCEPT ![s] = FALSE]
        /\ downs' = IF s \in entries THEN downs \union {s} ELSE downs
    BY <1>12 DEF SessionEnds
  <2> QED BY <1>0, <2>1 DEF NoGhosts
<1> QED BY <1>4, <1>5, <1>6, <1>7, <1>8, <1>9, <1>10, <1>11, <1>12 DEF CallStep

\* Whoever stops to ring loses the timer, and whoever enters stops to ring.
LEMMA RingingIsTimedKept ==
  ASSUME TypeOK, Ended, RingingIsTimed, CallStep PROVE RingingIsTimed'
<1>0. /\ ringing \in SUBSET Users /\ timers = ringing /\ voice \in VoiceType
      /\ entries \in SUBSET Sessions /\ Owner \in [Sessions -> Users]
      /\ \A u \in ringing : voice[u] = Nobody /\ u \in armed \union expired
  BY CallAssumption DEF TypeOK, VoiceType, RingingIsTimed, CallAssumption
<1>1. ASSUME UNCHANGED <<ringVars, voice>> PROVE RingingIsTimed'
  BY <1>1 DEF RingingIsTimed, ringVars
<1>2. ASSUME Stops \/ Blank PROVE RingingIsTimed'
  BY <1>2 DEF Stops, Blank, RingingIsTimed
<1>3. ASSUME NEW us, Silence(us), UNCHANGED voice,
             expired' = expired \/ \E u \in us : expired' = expired \ {u}
      PROVE  RingingIsTimed'
  BY <1>0, <1>3 DEF Silence, RingingIsTimed
<1>4. ASSUME NEW us \in SUBSET Users, Create(us) PROVE RingingIsTimed'
  BY <1>4 DEF Create, Ended, members, RingingIsTimed
<1>5. ASSUME NEW us \in SUBSET Users, Ring(us) PROVE RingingIsTimed'
  BY <1>0, <1>5 DEF Ring, Ringable, members, RingingIsTimed
<1>6. ASSUME NEW us \in SUBSET Users, StopRinging(us) PROVE RingingIsTimed'
  BY <1>3, <1>6 DEF StopRinging, members
<1>7. CASE Terminate \/ ManagerDown
  BY <1>1, <1>2, <1>7 DEF Terminate, ManagerDown, callVars, members
<1>8. CASE IdleTimeout
  BY <1>1, <1>2, <1>8 DEF IdleTimeout, members
<1>9. ASSUME NEW u \in Users, RingTimerFires(u) PROVE RingingIsTimed'
  BY <1>0, <1>9 DEF RingTimerFires, members, RingingIsTimed
<1>10. ASSUME NEW u \in Users, RingTimeout(u) PROVE RingingIsTimed'
  <2>1. CASE u \notin timers
    BY <1>0, <1>10, <2>1 DEF RingTimeout, members, RingingIsTimed
  <2>2. CASE u \in timers /\ ~Stops
    BY <1>3, <1>10, <2>2 DEF RingTimeout, members
  <2> QED BY <1>2, <2>1, <2>2
<1>11. CASE Departure
  <2>1. PICK s \in entries, rest \in SUBSET pending : Departs(Owner[s], s, rest)
    BY <1>11 DEF Departure
  <2>2. CASE /\ voice' = [voice EXCEPT ![Owner[s]] = Nobody]
             /\ Silence({Owner[s]}) /\ expired' = expired
    BY <1>0, <2>2 DEF Silence, VoiceType, RingingIsTimed
  <2> QED BY <1>2, <2>1, <2>2 DEF Departs
<1>12. CASE Entrance
  <2>1. PICK s \in Sessions : Join(s)
    BY <1>12 DEF Entrance
  <2>2. /\ voice' = [voice EXCEPT ![Owner[s]] = s]
        /\ Silence({Owner[s]}) /\ expired' = expired
    BY <2>1 DEF Join
  <2> QED BY <1>0, <2>2 DEF Silence, VoiceType, RingingIsTimed
<1>13. CASE Calm
  BY <1>1, <1>13 DEF Calm
<1>14. ASSUME NEW s \in Sessions, PendingTimeout(s) \/ SessionEnds(s) PROVE RingingIsTimed'
  BY <1>1, <1>14 DEF PendingTimeout, SessionEnds
<1> QED BY <1>4, <1>5, <1>6, <1>7, <1>8, <1>9, <1>10, <1>11, <1>12, <1>13, <1>14 DEF CallStep

\* A handler that announces nothing has changed nothing that is announced.
LEMMA AnnouncedKept ==
  ASSUME TypeOK, Ended, RingingIsTimed, Announced, CallStep PROVE Announced'
<1>0. timers = ringing
  BY DEF RingingIsTimed
<1>1. ASSUME UNCHANGED <<pid, ringing, voice, last>> PROVE Announced'
  BY <1>1 DEF Announced
<1>2. ASSUME pid' = NoCall PROVE Announced'
  BY <1>2 DEF Announced
<1>3. ASSUME Announce(ringing', voice') PROVE Announced'
  BY <1>3 DEF Announce, Announced
<1>4. ASSUME NEW us \in SUBSET Users, Create(us) PROVE Announced'
  BY <1>4 DEF Create, Announced, Event, members
<1>5. ASSUME NEW us \in SUBSET Users, Ring(us) PROVE Announced'
  <2>1. UNCHANGED <<pid, voice>> /\ ringing' = ringing \union Ringable(us)
    BY <1>5 DEF Ring, members
  <2>2. CASE Ringable(us) = {}
    BY <1>1, <1>5, <2>1, <2>2 DEF Ring
  <2>3. CASE Ringable(us) # {}
    BY <1>3, <1>5, <2>1, <2>3 DEF Ring
  <2> QED BY <2>2, <2>3
<1>6. ASSUME NEW us \in SUBSET Users, StopRinging(us) PROVE Announced'
  <2>1. UNCHANGED <<pid, voice>> /\ ringing' = ringing \ us
    BY <1>6 DEF StopRinging, Silence, members
  <2>2. CASE ringing \intersect us = {}
    BY <1>1, <1>6, <2>1, <2>2 DEF StopRinging
  <2>3. CASE ringing \intersect us # {}
    BY <1>3, <1>6, <2>1, <2>3 DEF StopRinging
  <2> QED BY <2>2, <2>3
<1>7. CASE Terminate \/ ManagerDown
  BY <1>1, <1>2, <1>7 DEF Terminate, ManagerDown, callVars, ringVars, members
<1>8. CASE IdleTimeout
  BY <1>1, <1>2, <1>8 DEF IdleTimeout, Stops, ringVars, members
<1>9. ASSUME NEW u \in Users, RingTimerFires(u) PROVE Announced'
  BY <1>1, <1>9 DEF RingTimerFires, members
<1>10. ASSUME NEW u \in Users, RingTimeout(u) PROVE Announced'
  <2>1. CASE u \notin timers
    BY <1>1, <1>10, <2>1 DEF RingTimeout, members
  <2>2. CASE u \in timers /\ ~Stops
    BY <1>0, <1>3, <1>10, <2>2 DEF RingTimeout, Silence, members
  <2> QED BY <1>2, <2>1, <2>2 DEF Stops
<1>11. CASE Departure
  BY <1>2, <1>3, <1>11 DEF Departure, Departs, Stops, Silence
<1>12. CASE Entrance
  BY <1>3, <1>12 DEF Entrance, Join, Silence
<1>13. CASE Calm
  BY <1>1, <1>13 DEF Calm, ringVars
<1>14. ASSUME NEW s \in Sessions, PendingTimeout(s) \/ SessionEnds(s) PROVE Announced'
  BY <1>1, <1>14 DEF PendingTimeout, SessionEnds, ringVars
<1> QED BY <1>4, <1>5, <1>6, <1>7, <1>8, <1>9, <1>10, <1>11, <1>12, <1>13, <1>14 DEF CallStep

-----------------------------------------------------------------------------
(***************************************************************************)
(* The theorems.                                                           *)
(***************************************************************************)
LEMMA CallInvInit == Init => CallInv
<1> SUFFICES ASSUME Init PROVE CallInv
  OBVIOUS
<1>1. NoCall \in 0..MaxCalls /\ 0 \in 0..MaxCalls /\ 0 \in 0..MaxTalks /\ 0 \in 0..MaxRings
  BY CallAssumption DEF NoCall, CallAssumption
<1>2. NoJoiner \in [tries : 0..MaxTries, at : 0..MaxCalls]
  BY CallAssumption DEF NoJoiner, NoCall, CallAssumption
<1>3. CallType /\ SessionType
  BY <1>1, <1>2, EventType DEF Init, CallType, SessionType, VoiceType
<1>4. Ended /\ Numbered /\ CallIsKnown
  BY DEF Init, Ended, Numbered, CallIsKnown, NoCall
<1>5. NoGhosts /\ RingingIsTimed /\ Announced
  BY DEF Init, NoGhosts, RingingIsTimed, Announced
<1> QED BY <1>3, <1>4, <1>5, TypeParts DEF CallInv

LEMMA CallInvStep == CallInv /\ [Next]_vars => CallInv'
<1>1. ASSUME CallInv, Next PROVE CallInv'
  <2>1. TypeOK /\ Ended /\ Numbered /\ NoGhosts /\ RingingIsTimed /\ Announced /\ CallIsKnown
    BY <1>1 DEF CallInv
  <2>2. CallStep
    BY <1>1, <2>1, CallSteps
  <2>3. TypeOK'
    <3>1. CallType' /\ SessionType'
      BY <1>1, <2>1, <2>2, CallTypeKept, SessionTypeKept
    <3> QED BY <3>1 DEF TypeOK, CallType, SessionType, VoiceType
  <2>4. Ended' /\ Numbered' /\ CallIsKnown'
    BY <2>1, <2>2, EndedKept, NumberedKept
  <2>5. NoGhosts' /\ RingingIsTimed' /\ Announced'
    BY <2>1, <2>2, NoGhostsKept, RingingIsTimedKept, AnnouncedKept
  <2> QED BY <2>3, <2>4, <2>5 DEF CallInv
<1>2. ASSUME CallInv, UNCHANGED vars PROVE CallInv'
  <2>1. /\ UNCHANGED <<pid, ringing, timers, armed, expired, voice, entries, downs, pending>>
        /\ UNCHANGED <<idle, last, known, mdowns, alive, talking, joiner, leaver, forced, parted>>
        /\ UNCHANGED <<made, talks, rings>>
    BY <1>2 DEF vars, callVars, ringVars, members, managerVars, sessionVars
  <2>2. TypeOK'
    BY <1>2, <2>1 DEF CallInv, TypeOK
  <2>3. Ended' /\ Numbered' /\ CallIsKnown'
    BY <1>2, <2>1 DEF CallInv, Ended, Numbered, CallIsKnown
  <2>4. NoGhosts' /\ RingingIsTimed' /\ Announced'
    BY <1>2, <2>1 DEF CallInv, NoGhosts, RingingIsTimed, Announced
  <2> QED BY <2>2, <2>3, <2>4 DEF CallInv
<1> QED BY <1>1, <1>2

LEMMA CallInvariant == Spec => []CallInv
  BY CallInvInit, CallInvStep, PTL DEF Spec

\* Every variable of the call, its manager and the sessions has its type.
THEOREM TypeCorrect == Spec => []TypeOK
<1>1. CallInv => TypeOK
  BY DEF CallInv
<1> QED BY <1>1, CallInvariant, PTL

\* Nobody is left in a call by a session that has ended (call.erl 'DOWN',
\* leave, disconnect_user_if_in_channel, pending_connection_timeout).
THEOREM NoGhostsHolds == Spec => []NoGhosts
<1>1. CallInv => NoGhosts
  BY DEF CallInv
<1> QED BY <1>1, CallInvariant, PTL

\* Ringing, ringing timers and voice states agree (call.erl ring_timeout,
\* start_ringing_timers, cancel_ringing_timers).
THEOREM RingingIsTimedHolds == Spec => []RingingIsTimed
<1>1. CallInv => RingingIsTimed
  BY DEF CallInv
<1> QED BY <1>1, CallInvariant, PTL

\* What the recipients were told last is what is the case (call.erl
\* dispatch_call_update, maybe_dispatch_state_update).
THEOREM AnnouncedHolds == Spec => []Announced
<1>1. CallInv => Announced
  BY DEF CallInv
<1> QED BY <1>1, CallInvariant, PTL

\* The manager knows the call that runs, and no other (call_manager.erl).
THEOREM CallIsKnownHolds == Spec => []CallIsKnown
<1>1. CallInv => CallIsKnown
  BY DEF CallInv
<1> QED BY <1>1, CallInvariant, PTL
=============================================================================
