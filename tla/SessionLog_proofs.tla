-------------------------- MODULE SessionLog_proofs --------------------------
(***************************************************************************)
(* Theorems about SessionLog, for every set of guilds and sockets, every   *)
(* buffer limit and every bound.                                           *)
(***************************************************************************)
EXTENDS SessionLog, FiniteSetTheorems, TLAPS

-----------------------------------------------------------------------------
(* Lemmas about the shared state changes.                                  *)

\* The READY batch is a positive number of events.
LEMMA ReadyBatchType == ReadyBatch \in Nat \ {0}
<1>1. Cardinality(Guilds) \in Nat
  BY LogAssumption, FS_CardinalityType DEF LogAssumption
<1> QED BY <1>1 DEF ReadyBatch

\* TypeOK in two parts: the flags, and the rest.
Flags == up \in BOOLEAN /\ ready \in BOOLEAN /\ condemned \in BOOLEAN

LogData == seq \in Nat /\ ack \in Nat /\ buffer \in SUBSET Nat /\ recorded \in SUBSET Nat

Data ==
  /\ LogData
  /\ sock \in Sockets \cup {NoSocket}
  /\ joined \in SUBSET Guilds
  /\ timers \in SUBSET (1..downs)
  /\ downs \in Nat

LEMMA TypeParts == TypeOK <=> Flags /\ Data
BY DEF TypeOK, Flags, Data, LogData

\* Every step leaves the flags Boolean.
LEMMA FlagsStep == Flags /\ [Next]_vars => Flags'
<1> SUFFICES ASSUME Flags, [Next]_vars PROVE Flags'
  OBVIOUS
<1>1. CASE Dispatch
  BY <1>1, Zenon DEF Flags, Dispatch, Record, Overflow, logVars
<1>2. CASE BecomeReady
  BY <1>2, Zenon DEF Flags, BecomeReady, EmitReady, logVars
<1>3. ASSUME NEW g \in Guilds, JoinGuild(g) PROVE Flags'
  BY <1>3, Zenon DEF Flags, JoinGuild, EmitReady, Record, Overflow, logVars
<1>4. ASSUME NEW g \in Guilds, LoseGuild(g) PROVE Flags'
  BY <1>4, Zenon DEF Flags, LoseGuild, Record, Overflow, logVars
<1>5. ASSUME NEW g \in Guilds, LeaveGuild(g) PROVE Flags'
  BY <1>5, Zenon DEF Flags, LeaveGuild
<1>6. ASSUME NEW s, HeartbeatAck(s) PROVE Flags'
  BY <1>6, Zenon DEF Flags, HeartbeatAck
<1>7. ASSUME NEW s, NEW c, Resume(s, c) PROVE Flags'
  BY <1>7, Zenon DEF Flags, Resume
<1>8. CASE SocketDown
  BY <1>8, Zenon DEF Flags, SocketDown
<1>9. ASSUME NEW t, ResumeTimeout(t) PROVE Flags'
  BY <1>9, Zenon DEF Flags, ResumeTimeout
<1>10. CASE TerminateForce \/ Terminate
  BY <1>10, Zenon DEF Flags, TerminateForce, Terminate, Stop
<1>11. CASE UNCHANGED vars
  BY <1>11, Zenon DEF Flags, vars
<1> QED
  BY <1>1, <1>2, <1>3, <1>4, <1>5, <1>6, <1>7, <1>8, <1>9, <1>10, <1>11 DEF Next

\* Whatever is done about an event leaves the numbers of the log in their types.
LEMMA LogDataStep ==
  ASSUME LogData, Record \/ Overflow \/ EmitReady
  PROVE  LogData'
<1>1. CASE Record
  BY <1>1 DEF LogData, Record
<1>2. CASE Overflow
  BY <1>2 DEF LogData, Overflow, logVars
<1>3. CASE EmitReady
  <2>1. (seq' = seq + ReadyBatch \/ seq' = seq) /\ UNCHANGED <<ack, buffer, recorded>>
    BY <1>3, Zenon DEF EmitReady, logVars
  <2> QED BY <2>1, ReadyBatchType DEF LogData
<1> QED BY <1>1, <1>2, <1>3

\* Every step leaves the numbers and the sets in their types.
LEMMA DataStep == Data /\ [Next]_vars => Data'
<1> SUFFICES ASSUME Data, [Next]_vars PROVE Data'
  OBVIOUS
<1> USE DEF Data, logVars
<1>1. CASE Dispatch
  BY <1>1, LogDataStep DEF Dispatch
<1>2. CASE BecomeReady
  BY <1>2, LogDataStep DEF BecomeReady
<1>3. ASSUME NEW g \in Guilds, JoinGuild(g) PROVE Data'
  BY <1>3, LogDataStep DEF JoinGuild, LogData
<1>4. ASSUME NEW g \in Guilds, LoseGuild(g) PROVE Data'
  BY <1>4, LogDataStep DEF LoseGuild
<1>5. ASSUME NEW g \in Guilds, LeaveGuild(g) PROVE Data'
  BY <1>5 DEF LeaveGuild, LogData
<1>6. ASSUME NEW s \in Nat, HeartbeatAck(s) PROVE Data'
  BY <1>6 DEF HeartbeatAck, LogData
<1>7. ASSUME NEW s \in Nat, NEW c \in Sockets, Resume(s, c) PROVE Data'
  BY <1>7 DEF Resume, LogData
<1>8. CASE SocketDown
  BY <1>8 DEF SocketDown, LogData
<1>9. ASSUME NEW t, ResumeTimeout(t) PROVE Data'
  BY <1>9 DEF ResumeTimeout, LogData
<1>10. CASE TerminateForce \/ Terminate
  BY <1>10 DEF TerminateForce, Terminate, Stop, LogData
<1>11. CASE UNCHANGED vars
  BY <1>11 DEF vars, LogData
<1> QED
  BY <1>1, <1>2, <1>3, <1>4, <1>5, <1>6, <1>7, <1>8, <1>9, <1>10, <1>11,
     LogAssumption DEF Next, LogAssumption

\* The variables of the session process keep their types.
THEOREM TypeCorrect == Spec => []TypeOK
<1>1. Init => TypeOK
  <2>1. Init => Flags
    BY Zenon DEF Init, Flags
  <2>2. Init => Data
    BY DEF Init, Data, LogData
  <2> QED BY <2>1, <2>2, TypeParts
<1>2. TypeOK /\ [Next]_vars => TypeOK'
  BY FlagsStep, DataStep DEF TypeOK, Flags, Data, LogData
<1> QED BY <1>1, <1>2, PTL DEF Spec

-----------------------------------------------------------------------------
(* What a step can do to the log.  All later proofs split on these cases.  *)

ReadySent ==
  /\ ready
  /\ ready' = FALSE
  /\ seq' = seq + ReadyBatch
  /\ UNCHANGED <<ack, buffer, recorded>>

LogUnchanged == UNCHANGED <<seq, ack, buffer, recorded, ready>>

\* A step records one event, acknowledges, sends READY, or leaves the log alone.
LEMMA LogSteps ==
  ASSUME [Next]_vars
  PROVE  \/ Record /\ UNCHANGED ready
         \/ \E s \in Nat : HeartbeatAck(s)
         \/ ReadySent
         \/ LogUnchanged
<1> DEFINE Goal == \/ Record /\ UNCHANGED ready
                   \/ \E s \in Nat : HeartbeatAck(s)
                   \/ ReadySent
                   \/ LogUnchanged
<1>1. CASE Dispatch
  BY <1>1, Zenon DEF Dispatch, Overflow, LogUnchanged, logVars
<1>2. CASE BecomeReady
  BY <1>2, Zenon DEF BecomeReady, EmitReady, ReadySent, LogUnchanged, logVars
<1>3. ASSUME NEW g \in Guilds, JoinGuild(g) PROVE Goal
  BY <1>3, Zenon DEF JoinGuild, EmitReady, Overflow, ReadySent, LogUnchanged, logVars
<1>4. ASSUME NEW g \in Guilds, LoseGuild(g) PROVE Goal
  BY <1>4, Zenon DEF LoseGuild, Overflow, LogUnchanged, logVars
<1>5. ASSUME NEW g \in Guilds, LeaveGuild(g) PROVE LogUnchanged
  BY <1>5, Zenon DEF LeaveGuild, LogUnchanged, logVars
<1>6. ASSUME NEW s, NEW c, Resume(s, c) PROVE LogUnchanged
  BY <1>6, Zenon DEF Resume, LogUnchanged, logVars
<1>7. CASE SocketDown
  BY <1>7, Zenon DEF SocketDown, LogUnchanged, logVars
<1>8. ASSUME NEW t, ResumeTimeout(t) PROVE LogUnchanged
  BY <1>8, Zenon DEF ResumeTimeout, LogUnchanged, logVars
<1>9. CASE TerminateForce \/ Terminate
  BY <1>9, Zenon DEF TerminateForce, Terminate, Stop, LogUnchanged, logVars
<1>10. CASE UNCHANGED vars
  BY <1>10, Zenon DEF vars, LogUnchanged
<1>11. 0..(MaxSeq + ReadyBatch + 1) \subseteq Nat
  OBVIOUS
<1> QED
  BY <1>1, <1>2, <1>3, <1>4, <1>5, <1>6, <1>7, <1>8, <1>9, <1>10, <1>11 DEF Next

-----------------------------------------------------------------------------
(* The replay buffer.                                                      *)

\* Every recorded event is at most seq, and the buffer holds recorded events.
THEOREM BufferBelowSeqHolds == Spec => []BufferBelowSeq
<1>1. Init => BufferBelowSeq
  BY DEF Init, BufferBelowSeq
<1>2. TypeOK /\ BufferBelowSeq /\ [Next]_vars => BufferBelowSeq'
  <2> SUFFICES ASSUME TypeOK, BufferBelowSeq, [Next]_vars PROVE BufferBelowSeq'
    OBVIOUS
  <2>0. seq \in Nat /\ \A n \in recorded : n \in Nat
    BY DEF TypeOK
  <2>1. CASE Record
    BY <2>0, <2>1 DEF BufferBelowSeq, Record
  <2>2. ASSUME NEW s \in Nat, HeartbeatAck(s) PROVE BufferBelowSeq'
    BY <2>2 DEF BufferBelowSeq, HeartbeatAck
  <2>3. CASE ReadySent
    BY <2>0, <2>3, ReadyBatchType DEF BufferBelowSeq, ReadySent
  <2>4. CASE LogUnchanged
    BY <2>4 DEF BufferBelowSeq, LogUnchanged
  <2> QED BY <2>1, <2>2, <2>3, <2>4, LogSteps
<1> QED BY <1>1, <1>2, TypeCorrect, PTL DEF Spec

\* No event leaves the buffer before the client acknowledged it, whatever the
\* guilds, sockets and limit.
THEOREM NothingLost == Spec => []NothingLostBeforeAck
<1>1. Init => NothingLostBeforeAck
  BY DEF Init, NothingLostBeforeAck
<1>2. TypeOK /\ NothingLostBeforeAck /\ [Next]_vars => NothingLostBeforeAck'
  <2> SUFFICES ASSUME TypeOK, NothingLostBeforeAck, [Next]_vars
               PROVE  NothingLostBeforeAck'
    OBVIOUS
  <2>1. CASE Record
    BY <2>1 DEF NothingLostBeforeAck, Record
  <2>2. ASSUME NEW s \in Nat, HeartbeatAck(s) PROVE NothingLostBeforeAck'
    <3>1. ack \in Nat /\ recorded \subseteq Nat
      BY DEF TypeOK
    <3>2. s >= ack /\ ack' = s /\ buffer' = {n \in buffer : n > s} /\ recorded' = recorded
      BY <2>2 DEF HeartbeatAck, AckAccepted
    <3> QED BY <3>1, <3>2 DEF NothingLostBeforeAck
  <2>3. CASE ReadySent
    BY <2>3 DEF NothingLostBeforeAck, ReadySent
  <2>4. CASE LogUnchanged
    BY <2>4 DEF NothingLostBeforeAck, LogUnchanged
  <2> QED BY <2>1, <2>2, <2>3, <2>4, LogSteps
<1> QED BY <1>1, <1>2, TypeCorrect, PTL DEF Spec

\* The buffer is finite and within its limit.
THEOREM BufferBoundedHolds == Spec => []BufferBounded
<1>1. Init => BufferBounded
  BY FS_EmptySet, LogAssumption DEF Init, BufferBounded, LogAssumption
<1>2. TypeOK /\ BufferBounded /\ [Next]_vars => BufferBounded'
  <2> SUFFICES ASSUME TypeOK, BufferBounded, [Next]_vars PROVE BufferBounded'
    OBVIOUS
  <2>0. Cardinality(buffer) \in Nat /\ Limit \in Nat /\ IsFiniteSet(buffer)
    BY FS_CardinalityType, LogAssumption DEF BufferBounded, LogAssumption
  <2>1. CASE Record
    <3>1. /\ IsFiniteSet(buffer \cup {seq + 1})
          /\ \/ Cardinality(buffer \cup {seq + 1}) = Cardinality(buffer)
             \/ Cardinality(buffer \cup {seq + 1}) = Cardinality(buffer) + 1
      BY <2>0, FS_AddElement
    <3> QED BY <2>0, <2>1, <3>1 DEF BufferBounded, Record
  <2>2. ASSUME NEW s \in Nat, HeartbeatAck(s) PROVE BufferBounded'
    <3>1. buffer' \subseteq buffer
      BY <2>2 DEF HeartbeatAck
    <3>2. IsFiniteSet(buffer') /\ Cardinality(buffer') <= Cardinality(buffer)
      BY <2>0, <3>1, FS_Subset
    <3>3. Cardinality(buffer') \in Nat
      BY <3>2, FS_CardinalityType
    <3> QED BY <2>0, <3>2, <3>3 DEF BufferBounded
  <2>3. CASE ReadySent \/ LogUnchanged
    BY <2>3, Zenon DEF BufferBounded, ReadySent, LogUnchanged
  <2> QED BY <2>1, <2>2, <2>3, LogSteps
<1> QED BY <1>1, <1>2, TypeCorrect, PTL DEF Spec

-----------------------------------------------------------------------------
(* Numbering.                                                              *)

\* The sequence number counts the recorded events and the READY batch: no
\* number is skipped and none is given to two recorded events.
THEOREM NumbersAccounted == Spec => []NumbersAccountedFor
<1>1. Init => NumbersAccountedFor
  <2> SUFFICES ASSUME Init PROVE NumbersAccountedFor
    OBVIOUS
  <2>1. ready /\ seq = 0 /\ recorded = {}
    BY Zenon DEF Init
  <2>2. IsFiniteSet(recorded) /\ Cardinality(recorded) = 0
    BY <2>1, FS_EmptySet
  <2> QED BY <2>1, <2>2 DEF NumbersAccountedFor
<1>2. TypeOK /\ BufferBelowSeq /\ NumbersAccountedFor /\ [Next]_vars => NumbersAccountedFor'
  <2> SUFFICES ASSUME TypeOK, BufferBelowSeq, NumbersAccountedFor, [Next]_vars
               PROVE  NumbersAccountedFor'
    OBVIOUS
  <2> DEFINE Batch == IF ready THEN 0 ELSE ReadyBatch
  <2>0. IsFiniteSet(recorded) /\ Cardinality(recorded) \in Nat /\ seq = Cardinality(recorded) + Batch
    BY FS_CardinalityType DEF NumbersAccountedFor
  <2>1. CASE Record /\ UNCHANGED ready
    <3>1. seq + 1 \notin recorded
      BY DEF TypeOK, BufferBelowSeq
    <3>2. recorded' = recorded \cup {seq + 1} /\ seq' = seq + 1
      BY <2>1 DEF Record
    <3>3. IsFiniteSet(recorded') /\ Cardinality(recorded') = Cardinality(recorded) + 1
      BY <2>0, <3>1, <3>2, FS_AddElement
    <3>4. Batch' = Batch
      BY <2>1, Zenon DEF ReadyBatch
    <3>5. Batch \in Nat
      BY ReadyBatchType
    <3>6. seq' = Cardinality(recorded') + Batch'
      BY <2>0, <3>2, <3>3, <3>4, <3>5
    <3> QED BY <3>3, <3>6 DEF NumbersAccountedFor
  <2>2. ASSUME NEW s \in Nat, HeartbeatAck(s) PROVE NumbersAccountedFor'
    BY <2>2, Zenon DEF NumbersAccountedFor, HeartbeatAck, ReadyBatch
  <2>3. CASE ReadySent
    <3>1. seq = Cardinality(recorded) + 0
      BY <2>0, <2>3, Zenon DEF ReadySent
    <3>2. Batch' = ReadyBatch
      BY <2>3, Zenon DEF ReadySent, ReadyBatch
    <3>3. recorded' = recorded /\ seq' = seq + ReadyBatch
      BY <2>3, Zenon DEF ReadySent
    <3>4. seq' = Cardinality(recorded') + Batch'
      BY <2>0, <3>1, <3>2, <3>3, ReadyBatchType
    <3> QED BY <2>0, <3>3, <3>4 DEF NumbersAccountedFor
  <2>4. CASE LogUnchanged
    BY <2>4, Zenon DEF NumbersAccountedFor, LogUnchanged, ReadyBatch
  <2> QED BY <2>1, <2>2, <2>3, <2>4, LogSteps
<1> QED BY <1>1, <1>2, TypeCorrect, BufferBelowSeqHolds, PTL DEF Spec

-----------------------------------------------------------------------------
(* Sockets and timers.                                                     *)

\* A live session without a socket always has the timer of that death running.
THEOREM OrphanTimed == Spec => []OrphanHasTimer
<1>1. Init => OrphanHasTimer
  BY LogAssumption DEF Init, OrphanHasTimer, LogAssumption
<1>2. OrphanHasTimer /\ [Next]_vars => OrphanHasTimer'
  <2> SUFFICES ASSUME OrphanHasTimer, [Next]_vars PROVE OrphanHasTimer'
    OBVIOUS
  <2> USE DEF OrphanHasTimer, logVars
  <2>1. CASE Dispatch
    BY <2>1, Zenon DEF Dispatch
  <2>2. CASE BecomeReady
    BY <2>2, Zenon DEF BecomeReady, EmitReady
  <2>3. ASSUME NEW g \in Guilds, JoinGuild(g) PROVE OrphanHasTimer'
    BY <2>3, Zenon DEF JoinGuild, EmitReady
  <2>4. ASSUME NEW g \in Guilds, LoseGuild(g) PROVE OrphanHasTimer'
    BY <2>4, Zenon DEF LoseGuild
  <2>5. ASSUME NEW g \in Guilds, LeaveGuild(g) PROVE OrphanHasTimer'
    BY <2>5, Zenon DEF LeaveGuild
  <2>6. ASSUME NEW s, HeartbeatAck(s) PROVE OrphanHasTimer'
    BY <2>6, Zenon DEF HeartbeatAck
  <2>7. ASSUME NEW s, NEW c \in Sockets, Resume(s, c) PROVE OrphanHasTimer'
    <3>1. sock' # NoSocket
      BY <2>7, LogAssumption DEF Resume, LogAssumption
    <3> QED BY <3>1, Zenon
  <2>8. CASE SocketDown
    BY <2>8, Zenon DEF SocketDown
  <2>9. ASSUME NEW t, ResumeTimeout(t) PROVE OrphanHasTimer'
    BY <2>9, Zenon DEF ResumeTimeout
  <2>10. CASE TerminateForce \/ Terminate
    BY <2>10, Zenon DEF TerminateForce, Terminate, Stop
  <2>11. CASE UNCHANGED vars
    BY <2>11, Zenon DEF vars
  <2> QED BY <2>1, <2>2, <2>3, <2>4, <2>5, <2>6, <2>7, <2>8, <2>9, <2>10, <2>11 DEF Next
<1> QED BY <1>1, <1>2, PTL DEF Spec

=============================================================================
