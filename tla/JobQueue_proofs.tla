--------------------------- MODULE JobQueue_proofs ---------------------------
(***************************************************************************)
(* Theorems about JobQueue, for every set of jobs, keys and workers, every *)
(* number of attempts and every bound: the queues, the index and the       *)
(* leases agree whatever requests are lost and wherever the engine stops.  *)
(***************************************************************************)
EXTENDS JobQueue, TLAPS

-----------------------------------------------------------------------------
(* The inductive invariant, in parts.                                      *)

Statuses == {"none", "ready", "scheduled", "inflight", "dead"}

JobShape ==
  /\ status \in [Jobs -> Statuses]
  /\ receipt \in [Jobs -> Receipts \cup {NoReceipt}]
  /\ attempts \in [Jobs -> Nat]
  /\ ready \in SUBSET Jobs /\ sched \in SUBSET Jobs
  /\ inflight \in SUBSET (Jobs \X Receipts)
  /\ index \in [Keys -> Jobs \cup {NoJob}]
  /\ phase \in {"up", "stopping", "down"}
  /\ born \in SUBSET Jobs /\ shared \in SUBSET Keys
  /\ stops \in Nat /\ retries \in Nat

WorkerShape ==
  /\ at \in [Workers -> {"idle", "running", "completing", "failing"}]
  /\ job \in [Workers -> Jobs \cup {NoJob}]
  /\ lease \in [Workers -> Receipts \cup {NoReceipt}]
  /\ wire \in SUBSET [op : {"ack", "nack"}, receipt : Receipts, of : Jobs]
  /\ \A w \in Workers : at[w] # "idle" => job[w] \in Jobs /\ lease[w] \in Receipts

\* Placement, said of one job and one receipt at a time.
Placed ==
  /\ \A j \in Jobs : j \in ready <=> status[j] = "ready"
  /\ \A j \in Jobs : j \in sched <=> status[j] = "scheduled"
  /\ \A j \in Jobs, r \in Receipts :
       <<j, r>> \in inflight <=> status[j] = "inflight" /\ receipt[j] = r
  /\ \A j \in Jobs : receipt[j] # NoReceipt <=> status[j] = "inflight"
  /\ \A i, j \in Jobs : receipt[i] = receipt[j] /\ receipt[i] # NoReceipt => i = j

\* An engine that is down has no jobs.
Emptied == phase = "down" => \A j \in Jobs : status[j] = "none"

\* What holds of a set of jobs, in memory or in a file: those that live hold
\* the entry of their key, those that are not there have no attempts.
Waits(st, j) == st[j] \in {"ready", "scheduled", "inflight"}
Sound(st, att, ix) ==
  /\ \A j \in Jobs : Waits(st, j) /\ Key[j] \notin shared \cup {NoKey} => ix[Key[j]] = j
  /\ \A j \in Jobs : j \notin born => st[j] = "none"
  /\ \A j \in Jobs : st[j] = "none" => att[j] = 0

MemorySound == Sound(status, attempts, index)

\* The same holds of what a start would read.
DiskSound == disk \in Files /\ Sound(disk.status, disk.attempts, disk.index)

\* A job has had as many attempts as polls have taken it, or more, from before the
\* restart.  One that waits has an attempt left, or no poll has taken it since: the
\* start found it in flight with all its attempts used.
HandedSound ==
  /\ handed \in [Jobs -> Nat]
  /\ \A j \in Jobs : handed[j] <= MaxAttempts[j]
  /\ \A j \in Jobs : status[j] # "none" => handed[j] <= attempts[j]
  /\ \A j \in Jobs : status[j] \in {"ready", "scheduled"} =>
                        attempts[j] < MaxAttempts[j] \/ handed[j] = 0
  /\ \A j \in Jobs : phase = "down" \/ j \notin born => handed[j] = 0

\* A lease says which job it is of, is held by one worker, and is on no wire
\* while its holder still runs.
LeasesOwned ==
  /\ \A w \in Workers, j \in Jobs : receipt[j] = lease[w] /\ receipt[j] # NoReceipt => job[w] = j
  /\ \A m \in wire, j \in Jobs : receipt[j] = m.receipt => m.of = j
  /\ \A v, w \in Workers : lease[v] = lease[w] /\ lease[v] # NoReceipt => v = w
  /\ \A w \in Workers : Running(w) => \A m \in wire : m.receipt # lease[w]

JobQueueInv ==
  /\ JobShape /\ WorkerShape /\ Placed /\ Emptied
  /\ MemorySound /\ DiskSound /\ HandedSound /\ LeasesOwned

-----------------------------------------------------------------------------
(* What the engine's operators do to the jobs.                             *)

\* A receipt is found with the jobs it was given to only.
LEMMA FoundLeased ==
  ASSUME JobShape, Placed, NEW r \in Receipts, NEW j \in Found(r)
  PROVE  /\ j \in Jobs /\ status[j] = "inflight" /\ receipt[j] = r
         /\ Found(r) = {j}
BY QueueAssumption DEF Found, JobShape, Placed, QueueAssumption

\* Giving back keeps the shape of what it changes.
LEMMA GiveBackShape ==
  ASSUME JobShape, NEW J \in SUBSET Jobs, GiveBack(J)
  PROVE  /\ status' \in [Jobs -> Statuses]
         /\ receipt' \in [Jobs -> Receipts \cup {NoReceipt}]
         /\ sched' \in SUBSET Jobs
         /\ index' \in [Keys -> Jobs \cup {NoJob}]
         /\ UNCHANGED <<attempts, ready>>
<1>1. status' \in [Jobs -> Statuses]
  BY DEF GiveBack, JobShape, Statuses
<1>2. receipt' \in [Jobs -> Receipts \cup {NoReceipt}]
  BY DEF GiveBack, JobShape
<1>3. sched' \in SUBSET Jobs
  BY DEF GiveBack, JobShape
<1>4. index' \in [Keys -> Jobs \cup {NoJob}]
  BY DEF GiveBack, JobShape
<1> QED BY <1>1, <1>2, <1>3, <1>4 DEF GiveBack

\* So does forgetting a job.
LEMMA ForgetShape ==
  ASSUME JobShape, NEW j \in Jobs, Forget(j)
  PROVE  /\ status' \in [Jobs -> Statuses]
         /\ receipt' \in [Jobs -> Receipts \cup {NoReceipt}]
         /\ attempts' \in [Jobs -> Nat]
         /\ index' \in [Keys -> Jobs \cup {NoJob}]
BY QueueAssumption DEF Forget, Unindex, JobShape, Statuses, QueueAssumption

LEMMA SettleShape ==
  ASSUME JobShape, NEW m, Settle(m), UNCHANGED <<phase, born, shared, stops, retries>>
  PROVE  JobShape'
<1>1. CASE Ack(m.receipt)
  BY <1>1, ForgetShape DEF Ack, Found, JobShape
<1>2. CASE Nack(m.receipt)
  BY <1>2, GiveBackShape DEF Nack, Found, JobShape
<1>3. CASE UNCHANGED jobVars
  BY <1>3 DEF jobVars, JobShape
<1> QED BY <1>1, <1>2, <1>3 DEF Settle

-----------------------------------------------------------------------------
(* Shapes.                                                                 *)

LEMMA JobShapeStep == JobShape /\ WorkerShape /\ DiskSound /\ [Next]_vars => JobShape'
<1> SUFFICES ASSUME JobShape, WorkerShape, DiskSound, [Next]_vars PROVE JobShape'
  OBVIOUS
<1>1. ASSUME NEW j \in Jobs, NEW s \in {"ready", "scheduled"}, Enqueue(j, s) PROVE JobShape'
  BY <1>1, QueueAssumption DEF Enqueue, JobShape, Statuses, countVars, QueueAssumption
<1>2. ASSUME NEW j \in Jobs, Delete(j) PROVE JobShape'
  <2>1. shared' \in SUBSET Keys
    BY <1>2, QueueAssumption DEF Delete, JobShape, QueueAssumption
  <2> QED BY <1>2, <2>1, ForgetShape DEF Delete, JobShape, countVars
<1>3. ASSUME NEW j \in Jobs, Retry(j) PROVE JobShape'
  <2>1. shared' \in SUBSET Keys
    BY <1>3, QueueAssumption DEF Retry, JobShape, QueueAssumption
  <2> QED BY <1>3, <2>1 DEF Retry, JobShape, Statuses
<1>4. ASSUME NEW D \in SUBSET sched, SchedulerTick(D) PROVE JobShape'
  <2>1. status' \in [Jobs -> Statuses]
    BY <1>4 DEF SchedulerTick, JobShape, Statuses
  <2> QED BY <1>4, <2>1 DEF SchedulerTick, PopScheduled, Popped, JobShape, countVars
<1>5. ASSUME NEW E \in SUBSET inflight, VisibilityTick(E) PROVE JobShape'
  <2>1. {j \in Jobs : status[j] = "inflight" /\ <<j, receipt[j]>> \in E} \in SUBSET Jobs
    OBVIOUS
  <2> QED BY <1>5, <2>1, GiveBackShape DEF VisibilityTick, JobShape, countVars
<1>6. ASSUME Save \/ Stop PROVE JobShape'
  BY <1>6 DEF Save, Stop, JobShape, jobVars, countVars
<1>7. ASSUME GoDown PROVE JobShape'
  BY <1>7 DEF GoDown, JobShape, NoFile, Statuses
<1>8. ASSUME Start PROVE JobShape'
  <2>1. status' \in [Jobs -> Statuses]
    BY <1>8 DEF Start, DiskSound, Files, Statuses
  <2> QED BY <1>8, <2>1 DEF Start, DiskSound, Files, JobShape, countVars
<1>9. ASSUME NEW w \in Workers, Poll(w) PROVE JobShape'
  <2>1. PICK r \in Receipts, D \in SUBSET sched : \E j \in ready \cup D : Lease(j, r, D)
    BY <1>9 DEF Poll, Fresh
  <2>2. PICK j \in Jobs : Lease(j, r, D)
    BY <2>1 DEF JobShape
  <2>3. status' \in [Jobs -> Statuses]
    BY <2>2 DEF Lease, JobShape, Statuses
  <2>4. attempts' \in [Jobs -> Nat]
    BY <2>2 DEF Lease, JobShape
  <2>5. UNCHANGED <<phase, born, shared, stops, retries>>
    BY <1>9 DEF Poll, countVars
  <2> QED BY <2>2, <2>3, <2>4, <2>5 DEF Lease, PopScheduled, Popped, JobShape
<1>10. ASSUME NEW w \in Workers, RunEnds(w) PROVE JobShape'
  BY <1>10 DEF RunEnds, JobShape, jobVars, countVars
<1>11. ASSUME NEW w \in Workers, Complete(w) PROVE JobShape'
  <2>1. CASE Ack(lease[w])
    <3>1. UNCHANGED <<phase, born, shared, stops, retries>>
      BY <1>11 DEF Complete, countVars
    <3>2. Settle([op |-> "ack", receipt |-> lease[w]])
      BY <2>1 DEF Settle
    <3> QED BY <3>1, <3>2, SettleShape
  <2>2. CASE UNCHANGED jobVars
    BY <1>11, <2>2 DEF Complete, JobShape, jobVars, countVars
  <2> QED BY <1>11, <2>1, <2>2 DEF Complete, Unanswered
<1>12. ASSUME NEW w \in Workers, Fail(w) PROVE JobShape'
  <2>1. UNCHANGED <<phase, born, shared, stops, retries>>
    BY <1>12 DEF Fail, countVars
  <2>2. Settle(Request("nack", w)) \/ UNCHANGED jobVars
    BY <1>12 DEF Fail, Unanswered
  <2>3. CASE UNCHANGED jobVars
    BY <2>1, <2>3 DEF JobShape, jobVars
  <2> QED BY <2>1, <2>2, <2>3, SettleShape
<1>13. ASSUME NEW m \in wire, Arrives(m) PROVE JobShape'
  <2>1. UNCHANGED <<phase, born, shared, stops, retries>>
    BY <1>13 DEF Arrives, countVars
  <2>2. Settle(m) \/ UNCHANGED jobVars
    BY <1>13 DEF Arrives
  <2>3. CASE UNCHANGED jobVars
    BY <2>1, <2>3 DEF JobShape, jobVars
  <2> QED BY <2>1, <2>2, <2>3, SettleShape
<1>14. ASSUME UNCHANGED vars PROVE JobShape'
  BY <1>14 DEF vars, jobVars, countVars, JobShape
<1> QED BY <1>1, <1>2, <1>3, <1>4, <1>5, <1>6, <1>7, <1>8, <1>9, <1>10, <1>11, <1>12, <1>13, <1>14
     DEF Next, JobNext, EngineNext, WorkerNext


LEMMA WorkerShapeStep == JobShape /\ WorkerShape /\ Placed /\ [Next]_vars => WorkerShape'
<1> SUFFICES ASSUME JobShape, WorkerShape, Placed, [Next]_vars PROVE WorkerShape'
  OBVIOUS
<1> USE DEF WorkerShape
<1>1. CASE UNCHANGED <<workerVars, wire>>
  BY <1>1 DEF workerVars
<1>2. ASSUME NEW w \in Workers, Poll(w) PROVE WorkerShape'
  <2>1. PICK r \in Receipts : \E D \in SUBSET sched : \E j \in ready \cup D :
                                Takes(w, j, r) \/ UNCHANGED workerVars
    BY <1>2 DEF Poll, Fresh
  <2>2. PICK j \in Jobs : Takes(w, j, r) \/ UNCHANGED workerVars
    BY <2>1 DEF JobShape
  <2> QED BY <1>2, <2>2 DEF Poll, Takes, workerVars
<1>3. ASSUME NEW w \in Workers, RunEnds(w) PROVE WorkerShape'
  BY <1>3 DEF RunEnds, Goes, Running
<1>4. ASSUME NEW w \in Workers, NEW op \in {"ack", "nack"}, at[w] # "idle",
             Unanswered(Request(op, w))
      PROVE  wire' \in SUBSET [op : {"ack", "nack"}, receipt : Receipts, of : Jobs]
  BY <1>4 DEF Unanswered, Request
<1>5. ASSUME NEW w \in Workers, Complete(w) PROVE WorkerShape'
  <2>1. wire' \in SUBSET [op : {"ack", "nack"}, receipt : Receipts, of : Jobs]
    BY <1>4, <1>5 DEF Complete
  <2>2. Rests(w) \/ Goes(w, "failing")
    BY <1>5 DEF Complete
  <2>3. at[w] # "idle"
    BY <1>5 DEF Complete
  <2> QED BY <2>1, <2>2, <2>3 DEF Rests, Goes
<1>6. ASSUME NEW w \in Workers, Fail(w) PROVE WorkerShape'
  <2>1. wire' \in SUBSET [op : {"ack", "nack"}, receipt : Receipts, of : Jobs]
    BY <1>4, <1>6 DEF Fail
  <2> QED BY <1>6, <2>1 DEF Fail, Rests
<1>7. ASSUME NEW m \in wire, Arrives(m) PROVE WorkerShape'
  BY <1>7 DEF Arrives, workerVars
<1>8. ASSUME NEW j \in Jobs, JobNext(j) PROVE UNCHANGED <<workerVars, wire>>
  BY <1>8 DEF JobNext, Enqueue, Delete, Retry
<1>9. ASSUME EngineNext PROVE UNCHANGED <<workerVars, wire>>
  BY <1>9 DEF EngineNext, SchedulerTick, VisibilityTick, Save, Stop, GoDown, Start
<1>10. ASSUME UNCHANGED vars PROVE UNCHANGED <<workerVars, wire>>
  BY <1>10 DEF vars
<1> QED BY <1>1, <1>2, <1>3, <1>5, <1>6, <1>7, <1>8, <1>9, <1>10 DEF Next, WorkerNext

-----------------------------------------------------------------------------
(* The queues agree.                                                       *)

\* Leases that are given back leave the queue of leases, and their jobs wait
\* in the other or are dead.
LEMMA GiveBackPlaced ==
  ASSUME JobShape, Placed, NEW J \in SUBSET {j \in Jobs : status[j] = "inflight"},
         GiveBack(J), inflight' = {e \in inflight : e[1] \notin J}
  PROVE  Placed'
<1>1. UNCHANGED ready /\ \A j \in Jobs :
        /\ status'[j] = (IF j \notin J THEN status[j]
                         ELSE IF attempts[j] >= MaxAttempts[j] THEN "dead" ELSE "scheduled")
        /\ receipt'[j] = (IF j \in J THEN NoReceipt ELSE receipt[j])
        /\ j \in sched' <=> j \in sched \/ (j \in J /\ attempts[j] < MaxAttempts[j])
  BY DEF GiveBack
<1>2. \A j \in J : attempts[j] >= MaxAttempts[j] <=> ~(attempts[j] < MaxAttempts[j])
  BY QueueAssumption DEF JobShape, QueueAssumption
<1>3. \A j \in Jobs, r \in Receipts : <<j, r>> \in inflight' <=> <<j, r>> \in inflight /\ j \notin J
  OBVIOUS
<1>4. (\A j \in Jobs : j \in ready <=> status[j] = "ready")'
  BY <1>1 DEF Placed
<1>5. (\A j \in Jobs : j \in sched <=> status[j] = "scheduled")'
  BY <1>1, <1>2 DEF Placed
<1>6. (\A j \in Jobs, r \in Receipts :
         <<j, r>> \in inflight <=> status[j] = "inflight" /\ receipt[j] = r)'
  <2> SUFFICES ASSUME NEW j \in Jobs, NEW r \in Receipts
               PROVE  <<j, r>> \in inflight' <=> status'[j] = "inflight" /\ receipt'[j] = r
    OBVIOUS
  <2>1. CASE j \in J
    BY <1>1, <1>3, <2>1
  <2>2. CASE j \notin J
    BY <1>1, <1>3, <2>2 DEF Placed
  <2> QED BY <2>1, <2>2
<1>7. (\A j \in Jobs : receipt[j] # NoReceipt <=> status[j] = "inflight")'
  BY <1>1 DEF Placed
<1>8. (\A i, j \in Jobs : receipt[i] = receipt[j] /\ receipt[i] # NoReceipt => i = j)'
  BY <1>1 DEF Placed
<1> QED BY <1>4, <1>5, <1>6, <1>7, <1>8 DEF Placed

\* A job that is forgotten is in no queue.
LEMMA ForgetPlaced ==
  ASSUME JobShape, Placed, NEW j \in Jobs, Forget(j),
         ready' = ready \ {j}, sched' = sched \ {j}, inflight' = {e \in inflight : e[1] # j}
  PROVE  Placed'
<1>1. \A i \in Jobs : /\ status'[i] = (IF i = j THEN "none" ELSE status[i])
                      /\ receipt'[i] = (IF i = j THEN NoReceipt ELSE receipt[i])
  BY DEF Forget, JobShape
<1>2. \A i \in Jobs, r \in Receipts : <<i, r>> \in inflight' <=> <<i, r>> \in inflight /\ i # j
  OBVIOUS
<1> QED BY <1>1, <1>2 DEF Placed

\* The leases of one receipt are those of one job.
LEMMA LeasesOfReceipt ==
  ASSUME JobShape, Placed, NEW r \in Receipts, NEW j \in Found(r)
  PROVE  {e \in inflight : e[2] # r} = {e \in inflight : e[1] # j}
<1>1. j \in Jobs /\ receipt[j] = r /\ status[j] = "inflight" /\ r # NoReceipt
  BY QueueAssumption, FoundLeased DEF QueueAssumption
<1>2. ASSUME NEW e \in inflight PROVE e[2] # r <=> e[1] # j
  <2>1. PICK i \in Jobs, s \in Receipts : e = <<i, s>>
    BY <1>2 DEF JobShape
  <2>2. receipt[i] = s
    BY <1>2, <2>1 DEF Placed
  <2> QED BY <1>1, <2>1, <2>2 DEF Placed
<1> QED BY <1>2

LEMMA SettlePlaced ==
  ASSUME JobShape, Placed, NEW m, m.receipt \in Receipts, Settle(m)
  PROVE  Placed'
<1>1. CASE Ack(m.receipt)
  <2>1. PICK j \in Found(m.receipt) : Forget(j)
    BY <1>1 DEF Ack
  <2>2. j \in Jobs /\ status[j] = "inflight"
    BY FoundLeased
  <2>3. inflight' = {e \in inflight : e[1] # j}
    BY <1>1, LeasesOfReceipt DEF Ack
  <2>4. ready' = ready \ {j} /\ sched' = sched \ {j}
    BY <1>1, <2>2 DEF Ack, Placed
  <2> QED BY <2>1, <2>2, <2>3, <2>4, ForgetPlaced
<1>2. CASE Nack(m.receipt)
  <2>1. PICK j \in Found(m.receipt) : TRUE
    BY <1>2 DEF Nack
  <2>2. j \in Jobs /\ status[j] = "inflight" /\ Found(m.receipt) = {j}
    BY FoundLeased
  <2>3. inflight' = {e \in inflight : e[1] \notin {j}}
    BY <1>2, LeasesOfReceipt DEF Nack
  <2> QED BY <1>2, <2>2, <2>3, GiveBackPlaced DEF Nack
<1>3. CASE UNCHANGED jobVars
  BY <1>3 DEF jobVars, Placed
<1> QED BY <1>1, <1>2, <1>3 DEF Settle

\* A lease is of a job that was ready, under a receipt no job has.
LEMMA LeasePlaced ==
  ASSUME JobShape, Placed, NEW r \in Fresh, NEW D \in SUBSET sched,
         NEW j \in ready \cup D, Lease(j, r, D)
  PROVE  Placed'
<1>1. r \in Receipts /\ r # NoReceipt /\ \A i \in Jobs : receipt[i] # r
  BY QueueAssumption DEF Fresh, Range, JobShape, QueueAssumption
<1>2. j \in Jobs /\ status[j] # "inflight" /\ \A i \in Popped(D) : i \in D /\ status[i] = "scheduled"
  BY DEF JobShape, Placed, Popped
<1>3. \A i \in Jobs : /\ status'[i] = (IF i = j THEN "inflight"
                                      ELSE IF i \in Popped(D) THEN "ready" ELSE status[i])
                      /\ receipt'[i] = (IF i = j THEN r ELSE receipt[i])
  BY <1>2 DEF Lease, JobShape
<1>4. \A i \in D : i \in Popped(D)
  BY DEF Popped, Placed, JobShape
<1>5. sched' = sched \ D /\ ready' = (ready \cup Popped(D)) \ {j} /\ inflight' = inflight \cup {<<j, r>>}
  BY DEF Lease, PopScheduled
<1>6. \A i \in Jobs, s \in Receipts :
        <<i, s>> \in inflight' <=> <<i, s>> \in inflight \/ (i = j /\ s = r)
  BY <1>5
<1>7. (\A i \in Jobs : i \in ready <=> status[i] = "ready")'
  BY <1>2, <1>3, <1>5 DEF Placed
<1>8. (\A i \in Jobs : i \in sched <=> status[i] = "scheduled")'
  BY <1>2, <1>3, <1>4, <1>5 DEF Placed
<1>9. (\A i \in Jobs, s \in Receipts :
         <<i, s>> \in inflight <=> status[i] = "inflight" /\ receipt[i] = s)'
  <2> SUFFICES ASSUME NEW i \in Jobs, NEW s \in Receipts
               PROVE  <<i, s>> \in inflight' <=> status'[i] = "inflight" /\ receipt'[i] = s
    OBVIOUS
  <2>1. <<i, s>> \in inflight <=> status[i] = "inflight" /\ receipt[i] = s
    BY DEF Placed
  <2>2. CASE i = j
    BY <1>2, <1>3, <1>6, <2>1, <2>2
  <2>3. CASE i # j
    BY <1>2, <1>3, <1>6, <2>1, <2>3
  <2> QED BY <2>2, <2>3
<1>10. (\A i \in Jobs : receipt[i] # NoReceipt <=> status[i] = "inflight")'
  BY <1>1, <1>2, <1>3 DEF Placed
<1>11. (\A i, k \in Jobs : receipt[i] = receipt[k] /\ receipt[i] # NoReceipt => i = k)'
  BY <1>1, <1>3 DEF Placed
<1> QED BY <1>7, <1>8, <1>9, <1>10, <1>11 DEF Placed


\* A step that ends with the engine down is its end, or changes no job.
LEMMA DownSteps ==
  ASSUME [Next]_vars, phase' = "down"
  PROVE  GoDown \/ (phase = "down" /\ UNCHANGED jobVars)
<1>1. ASSUME NEW j \in Jobs, JobNext(j) PROVE FALSE
  BY <1>1 DEF JobNext, Enqueue, Delete, Retry, Serving
<1>2. CASE EngineNext
  BY <1>2 DEF EngineNext, SchedulerTick, VisibilityTick, Save, Stop, Start
<1>3. ASSUME NEW w \in Workers, WorkerNext(w) PROVE phase = "down" /\ UNCHANGED jobVars
  BY <1>3 DEF WorkerNext, Poll, RunEnds, Complete, Fail, Unanswered, Serving
<1>4. ASSUME NEW m \in wire, Arrives(m) PROVE phase = "down" /\ UNCHANGED jobVars
  BY <1>4 DEF Arrives, Serving
<1> QED BY <1>1, <1>2, <1>3, <1>4 DEF Next, vars

LEMMA EmptiedStep == Emptied /\ [Next]_vars => Emptied'
BY DownSteps DEF Emptied, GoDown, NoFile, jobVars

LEMMA PlacedStep ==
  JobShape /\ WorkerShape /\ DiskSound /\ Placed /\ Emptied /\ MemorySound /\ [Next]_vars => Placed'
<1> SUFFICES ASSUME JobShape, WorkerShape, DiskSound, Placed, Emptied, MemorySound, [Next]_vars
             PROVE  Placed'
  OBVIOUS
<1>0. CASE UNCHANGED jobVars
  BY <1>0 DEF jobVars, Placed
<1>1. ASSUME NEW j \in Jobs, NEW s \in {"ready", "scheduled"}, Enqueue(j, s) PROVE Placed'
  <2>1. status[j] = "none"
    BY <1>1 DEF Enqueue, MemorySound, Sound
  <2>2. /\ \A i \in Jobs : status'[i] = (IF i = j THEN s ELSE status[i])
        /\ ready' = (IF s = "ready" THEN ready \cup {j} ELSE ready)
        /\ sched' = (IF s = "scheduled" THEN sched \cup {j} ELSE sched)
        /\ UNCHANGED <<receipt, inflight>>
    BY <1>1 DEF Enqueue, JobShape
  <2> QED BY <2>1, <2>2 DEF Placed
<1>2. ASSUME NEW j \in Jobs, Delete(j) PROVE Placed'
  <2>1. {e \in inflight : e # <<j, receipt[j]>>} = {e \in inflight : e[1] # j}
    <3>1. ASSUME NEW e \in inflight PROVE e # <<j, receipt[j]>> <=> e[1] # j
      <4>1. PICK i \in Jobs, r \in Receipts : e = <<i, r>>
        BY <3>1 DEF JobShape
      <4>2. receipt[i] = r
        BY <3>1, <4>1 DEF Placed
      <4> QED BY <4>1, <4>2
    <3> QED BY <3>1
  <2> QED BY <1>2, <2>1, ForgetPlaced DEF Delete
<1>3. ASSUME NEW j \in Jobs, Retry(j) PROVE Placed'
  <2>1. \A i \in Jobs : /\ status'[i] = (IF i = j THEN "ready" ELSE status[i])
                        /\ receipt'[i] = (IF i = j THEN NoReceipt ELSE receipt[i])
    BY <1>3 DEF Retry, JobShape
  <2>2. status[j] = "dead" /\ ready' = ready \cup {j} /\ UNCHANGED <<sched, inflight>>
    BY <1>3 DEF Retry
  <2> QED BY <2>1, <2>2 DEF Placed
<1>4. ASSUME NEW D \in SUBSET sched, SchedulerTick(D) PROVE Placed'
  <2>1. \A i \in Jobs : status'[i] = (IF i \in D THEN "ready" ELSE status[i])
    BY <1>4 DEF SchedulerTick, Popped, Placed
  <2>2. ready' = ready \cup D /\ sched' = sched \ D /\ UNCHANGED <<receipt, inflight>>
    BY <1>4 DEF SchedulerTick, PopScheduled, Popped, Placed, JobShape
  <2> QED BY <2>1, <2>2 DEF Placed
<1>5. ASSUME NEW E \in SUBSET inflight, VisibilityTick(E) PROVE Placed'
  <2> DEFINE J == {j \in Jobs : status[j] = "inflight" /\ <<j, receipt[j]>> \in E}
  <2>1. inflight \ E = {e \in inflight : e[1] \notin J}
    <3>1. ASSUME NEW e \in inflight PROVE e \notin E <=> e[1] \notin J
      <4>1. PICK i \in Jobs, r \in Receipts : e = <<i, r>>
        BY <3>1 DEF JobShape
      <4>2. receipt[i] = r /\ status[i] = "inflight"
        BY <3>1, <4>1 DEF Placed
      <4> QED BY <4>1, <4>2
    <3> QED BY <3>1
  <2>2. J \in SUBSET {j \in Jobs : status[j] = "inflight"}
    OBVIOUS
  <2>3. GiveBack(J) /\ inflight' = inflight \ E
    BY <1>5 DEF VisibilityTick
  <2> HIDE DEF J
  <2> QED BY <2>1, <2>2, <2>3, GiveBackPlaced
<1>6. ASSUME Save \/ Stop PROVE UNCHANGED jobVars
  BY <1>6 DEF Save, Stop
<1>7. ASSUME GoDown PROVE Placed'
  BY <1>7 DEF GoDown, NoFile, Placed
<1>8. ASSUME Start PROVE Placed'
  <2>1. \A j \in Jobs : status[j] = "none" /\ receipt[j] = NoReceipt
    BY <1>8 DEF Start, Emptied, Placed
  <2>2. inflight = {}
    BY <2>1 DEF JobShape, Placed
  <2>3. UNCHANGED <<receipt, inflight>> /\ \A j \in Jobs :
          /\ status'[j] = (IF disk.status[j] = "inflight" THEN "ready" ELSE disk.status[j])
          /\ j \in ready' <=> disk.status[j] \in {"ready", "inflight"}
          /\ j \in sched' <=> disk.status[j] = "scheduled"
    BY <1>8 DEF Start
  <2> QED BY <2>1, <2>2, <2>3 DEF Placed
<1>9. ASSUME NEW w \in Workers, Poll(w) PROVE Placed'
  <2>1. PICK r \in Fresh, D \in SUBSET sched : \E j \in ready \cup D : Lease(j, r, D)
    BY <1>9 DEF Poll
  <2> QED BY <2>1, LeasePlaced
<1>10. ASSUME NEW w \in Workers, RunEnds(w) PROVE UNCHANGED jobVars
  BY <1>10 DEF RunEnds
<1>11. ASSUME NEW w \in Workers, Complete(w) PROVE Placed'
  <2>1. CASE Ack(lease[w])
    <3>1. Settle([op |-> "ack", receipt |-> lease[w]]) /\ lease[w] \in Receipts
      BY <1>11, <2>1 DEF Settle, Complete, WorkerShape
    <3> QED BY <3>1, SettlePlaced
  <2> QED BY <1>0, <1>11, <2>1 DEF Complete, Unanswered
<1>12. ASSUME NEW w \in Workers, Fail(w) PROVE Placed'
  <2>1. Request("nack", w).receipt \in Receipts
    BY <1>12 DEF Fail, Request, WorkerShape
  <2> QED BY <1>0, <1>12, <2>1, SettlePlaced DEF Fail, Unanswered
<1>13. ASSUME NEW m \in wire, Arrives(m) PROVE Placed'
  <2>1. m.receipt \in Receipts
    BY DEF WorkerShape
  <2> QED BY <1>0, <1>13, <2>1, SettlePlaced DEF Arrives
<1>14. ASSUME UNCHANGED vars PROVE UNCHANGED jobVars
  BY <1>14 DEF vars
<1> QED BY <1>0, <1>1, <1>2, <1>3, <1>4, <1>5, <1>6, <1>7, <1>8, <1>9, <1>10, <1>11, <1>12, <1>13, <1>14
     DEF Next, JobNext, EngineNext, WorkerNext


-----------------------------------------------------------------------------
(* Keys.                                                                   *)

\* A job that dies had the entry of its key to itself, so that no other job
\* loses its own.
LEMMA GiveBackSound ==
  ASSUME JobShape, MemorySound, NEW J \in SUBSET {j \in Jobs : status[j] = "inflight"},
         GiveBack(J), UNCHANGED <<shared, born>>
  PROVE  MemorySound'
<1>1. UNCHANGED attempts /\ \A j \in Jobs :
        status'[j] = (IF j \notin J THEN status[j]
                      ELSE IF attempts[j] >= MaxAttempts[j] THEN "dead" ELSE "scheduled")
  BY DEF GiveBack
<1>2. ASSUME NEW j \in Jobs, Waits(status', j), Key[j] \notin shared \cup {NoKey}
      PROVE  index'[Key[j]] = j
  <2>1. Waits(status, j) /\ Key[j] \in Keys
    BY <1>1, <1>2, QueueAssumption DEF Waits, QueueAssumption
  <2>2. index[Key[j]] = j
    BY <1>2, <2>1 DEF MemorySound, Sound
  <2>3. ASSUME NEW i \in J, Key[i] = Key[j], attempts[i] >= MaxAttempts[i] PROVE FALSE
    <3>1. Waits(status, i)
      BY DEF Waits
    <3>2. i = j
      BY <1>2, <2>2, <2>3, <3>1 DEF MemorySound, Sound
    <3> QED BY <1>1, <1>2, <2>3, <3>2 DEF Waits
  <2> QED BY <2>1, <2>2, <2>3 DEF GiveBack
<1>3. \A j \in Jobs : /\ j \notin born => status'[j] = "none"
                      /\ status'[j] = "none" => attempts[j] = 0
  BY <1>1 DEF MemorySound, Sound
<1> QED BY <1>1, <1>2, <1>3 DEF MemorySound, Sound

\* A job that is forgotten had its key's entry, or the key is shared.
LEMMA ForgetSound ==
  ASSUME JobShape, MemorySound, NEW j \in Jobs, Forget(j),
         Waits(status, j) \/ Key[j] \in shared' \cup {NoKey},
         shared \subseteq shared', UNCHANGED born
  PROVE  MemorySound'
<1>1. \A i \in Jobs : /\ status'[i] = (IF i = j THEN "none" ELSE status[i])
                      /\ attempts'[i] = (IF i = j THEN 0 ELSE attempts[i])
  BY DEF Forget, JobShape
<1>2. ASSUME NEW i \in Jobs, Waits(status', i), Key[i] \notin shared' \cup {NoKey}
      PROVE  index'[Key[i]] = i
  <2>1. i # j /\ Waits(status, i) /\ Key[i] \in Keys
    BY <1>1, <1>2, QueueAssumption DEF Waits, QueueAssumption
  <2>2. index[Key[i]] = i
    BY <1>2, <2>1 DEF MemorySound, Sound
  <2>3. Key[j] # Key[i]
    BY <1>2, <2>1, <2>2 DEF MemorySound, Sound
  <2> QED BY <2>1, <2>2, <2>3 DEF Forget, Unindex, JobShape
<1>3. \A i \in Jobs : /\ i \notin born => status'[i] = "none"
                      /\ status'[i] = "none" => attempts'[i] = 0
  BY <1>1 DEF MemorySound, Sound
<1> QED BY <1>2, <1>3 DEF MemorySound, Sound

LEMMA SettleSound ==
  ASSUME JobShape, Placed, MemorySound, NEW m, m.receipt \in Receipts, Settle(m),
         UNCHANGED <<shared, born>>
  PROVE  MemorySound'
<1>1. CASE Ack(m.receipt)
  <2>1. PICK j \in Found(m.receipt) : Forget(j)
    BY <1>1 DEF Ack
  <2>2. j \in Jobs /\ Waits(status, j)
    BY FoundLeased DEF Waits
  <2> QED BY <2>1, <2>2, ForgetSound
<1>2. CASE Nack(m.receipt)
  <2>1. Found(m.receipt) \in SUBSET {j \in Jobs : status[j] = "inflight"}
    BY FoundLeased
  <2> QED BY <1>2, <2>1, GiveBackSound DEF Nack
<1>3. CASE UNCHANGED jobVars
  BY <1>3 DEF jobVars, MemorySound, Sound
<1> QED BY <1>1, <1>2, <1>3 DEF Settle

\* A lease is of a job that waits.
LEMMA LeaseSound ==
  ASSUME JobShape, Placed, MemorySound, NEW r, NEW D \in SUBSET sched,
         NEW j \in ready \cup D, Lease(j, r, D), UNCHANGED <<shared, born>>
  PROVE  MemorySound'
<1>1. j \in Jobs /\ status[j] \in {"ready", "scheduled"}
  BY DEF JobShape, Placed
<1>2. \A i \in Popped(D) : status[i] = "scheduled"
  BY DEF Popped
<1>3. UNCHANGED index /\ \A i \in Jobs :
        /\ status'[i] = (IF i = j THEN "inflight" ELSE IF i \in Popped(D) THEN "ready" ELSE status[i])
        /\ attempts'[i] = (IF i = j THEN attempts[j] + 1 ELSE attempts[i])
  BY <1>1 DEF Lease, JobShape
<1>4. \A i \in Jobs : Waits(status', i) => Waits(status, i)
  BY <1>1, <1>2, <1>3 DEF Waits
<1>5. \A i \in Jobs : /\ i \notin born => status'[i] = "none"
                      /\ status'[i] = "none" => attempts'[i] = 0
  BY <1>1, <1>2, <1>3 DEF MemorySound, Sound
<1> QED BY <1>3, <1>4, <1>5 DEF MemorySound, Sound

LEMMA MemorySoundStep ==
  JobShape /\ WorkerShape /\ Placed /\ DiskSound /\ MemorySound /\ [Next]_vars => MemorySound'
<1> SUFFICES ASSUME JobShape, WorkerShape, Placed, DiskSound, MemorySound, [Next]_vars
             PROVE  MemorySound'
  OBVIOUS
<1>0. CASE UNCHANGED <<jobVars, shared, born>>
  BY <1>0 DEF jobVars, MemorySound, Sound
<1>1. ASSUME NEW j \in Jobs, NEW s \in {"ready", "scheduled"}, Enqueue(j, s) PROVE MemorySound'
  <2>1. /\ \A i \in Jobs : status'[i] = (IF i = j THEN s ELSE status[i])
        /\ born' = born \cup {j} /\ UNCHANGED <<attempts, shared>>
    BY <1>1 DEF Enqueue, JobShape, countVars
  <2>2. ASSUME NEW i \in Jobs, Waits(status', i), Key[i] \notin shared \cup {NoKey}
        PROVE  index'[Key[i]] = i
    <3>1. Key[i] \in Keys
      BY <2>2, QueueAssumption DEF QueueAssumption
    <3>2. CASE i = j
      BY <1>1, <2>2, <3>1, <3>2 DEF Enqueue, JobShape
    <3>3. CASE i # j
      <4>1. Waits(status, i) /\ index[Key[i]] = i
        BY <2>1, <2>2, <3>3 DEF Waits, MemorySound, Sound
      <4>2. Key[j] # Key[i]
        BY <1>1, <2>2, <4>1, QueueAssumption DEF Enqueue, Duplicate, Waits, QueueAssumption
      <4> QED BY <1>1, <3>1, <4>1, <4>2 DEF Enqueue, JobShape
    <3> QED BY <3>2, <3>3
  <2>3. \A i \in Jobs : /\ i \notin born' => status'[i] = "none"
                        /\ status'[i] = "none" => attempts[i] = 0
    BY <2>1 DEF MemorySound, Sound
  <2> QED BY <2>1, <2>2, <2>3 DEF MemorySound, Sound
<1>2. ASSUME NEW j \in Jobs, Delete(j) PROVE MemorySound'
  <2>1. Waits(status, j) \/ Key[j] \in shared' \cup {NoKey}
    BY <1>2 DEF Delete, JobShape, Statuses, Waits
  <2>2. shared \subseteq shared' /\ UNCHANGED born
    BY <1>2 DEF Delete, countVars
  <2> QED BY <1>2, <2>1, <2>2, ForgetSound DEF Delete
<1>3. ASSUME NEW j \in Jobs, Retry(j) PROVE MemorySound'
  <2>1. /\ \A i \in Jobs : /\ status'[i] = (IF i = j THEN "ready" ELSE status[i])
                           /\ attempts'[i] = (IF i = j THEN 0 ELSE attempts[i])
        /\ shared' = shared \cup ({Key[j]} \ {NoKey}) /\ UNCHANGED <<index, born>>
        /\ status[j] = "dead"
    BY <1>3 DEF Retry, JobShape
  <2>2. \A i \in Jobs : Waits(status', i) /\ Key[i] \notin shared' \cup {NoKey} => index[Key[i]] = i
    BY <2>1 DEF Waits, MemorySound, Sound
  <2>3. \A i \in Jobs : /\ i \notin born => status'[i] = "none"
                        /\ status'[i] = "none" => attempts'[i] = 0
    BY <2>1 DEF MemorySound, Sound
  <2> QED BY <2>1, <2>2, <2>3 DEF MemorySound, Sound
<1>4. ASSUME NEW D \in SUBSET sched, SchedulerTick(D) PROVE MemorySound'
  <2>1. /\ \A i \in Jobs : status'[i] = (IF i \in Popped(D) THEN "ready" ELSE status[i])
        /\ UNCHANGED <<attempts, index, shared, born>>
    BY <1>4 DEF SchedulerTick, countVars
  <2>2. \A i \in Popped(D) : status[i] = "scheduled"
    BY DEF Popped
  <2>3. \A i \in Jobs : /\ Waits(status', i) => Waits(status, i)
                        /\ status'[i] = "none" <=> status[i] = "none"
    BY <2>1, <2>2 DEF Waits
  <2> QED BY <2>1, <2>3 DEF MemorySound, Sound
<1>5. ASSUME NEW E \in SUBSET inflight, VisibilityTick(E) PROVE MemorySound'
  <2>1. {j \in Jobs : status[j] = "inflight" /\ <<j, receipt[j]>> \in E}
          \in SUBSET {j \in Jobs : status[j] = "inflight"}
    OBVIOUS
  <2> QED BY <1>5, <2>1, GiveBackSound DEF VisibilityTick, countVars
<1>6. ASSUME Save \/ Stop PROVE MemorySound'
  BY <1>0, <1>6 DEF Save, Stop, countVars
<1>7. ASSUME GoDown PROVE MemorySound'
  <2>1. \A j \in Jobs : status'[j] = "none" /\ attempts'[j] = 0
    BY <1>7 DEF GoDown, NoFile
  <2> QED BY <2>1 DEF MemorySound, Sound, Waits
<1>8. ASSUME Start PROVE MemorySound'
  <2>1. /\ \A j \in Jobs :
             status'[j] = (IF disk.status[j] = "inflight" THEN "ready" ELSE disk.status[j])
        /\ attempts' = disk.attempts /\ index' = disk.index /\ UNCHANGED <<born, shared>>
    BY <1>8 DEF Start, countVars
  <2>2. \A j \in Jobs : Waits(status', j) => Waits(disk.status, j)
    BY <2>1 DEF Waits
  <2>3. \A j \in Jobs : status'[j] = "none" <=> disk.status[j] = "none"
    BY <2>1
  <2> QED BY <2>1, <2>2, <2>3 DEF MemorySound, Sound, DiskSound
<1>9. ASSUME NEW w \in Workers, Poll(w) PROVE MemorySound'
  <2>1. PICK r \in Fresh, D \in SUBSET sched : \E j \in ready \cup D : Lease(j, r, D)
    BY <1>9 DEF Poll
  <2> QED BY <1>9, <2>1, LeaseSound DEF Poll, countVars
<1>10. ASSUME NEW w \in Workers, RunEnds(w) PROVE MemorySound'
  BY <1>0, <1>10 DEF RunEnds, countVars
<1>11. ASSUME NEW w \in Workers, Complete(w) PROVE MemorySound'
  <2>1. UNCHANGED <<shared, born>>
    BY <1>11 DEF Complete, countVars
  <2>2. CASE Ack(lease[w])
    <3>1. Settle([op |-> "ack", receipt |-> lease[w]]) /\ lease[w] \in Receipts
      BY <1>11, <2>2 DEF Settle, Complete, WorkerShape
    <3> QED BY <2>1, <3>1, SettleSound
  <2> QED BY <1>0, <1>11, <2>1, <2>2 DEF Complete, Unanswered
<1>12. ASSUME NEW w \in Workers, Fail(w) PROVE MemorySound'
  <2>1. Request("nack", w).receipt \in Receipts /\ UNCHANGED <<shared, born>>
    BY <1>12 DEF Fail, Request, WorkerShape, countVars
  <2> QED BY <1>0, <1>12, <2>1, SettleSound DEF Fail, Unanswered
<1>13. ASSUME NEW m \in wire, Arrives(m) PROVE MemorySound'
  <2>1. m.receipt \in Receipts /\ UNCHANGED <<shared, born>>
    BY <1>13 DEF WorkerShape, Arrives, countVars
  <2> QED BY <1>0, <1>13, <2>1, SettleSound DEF Arrives
<1>14. ASSUME UNCHANGED vars PROVE MemorySound'
  BY <1>0, <1>14 DEF vars, countVars
<1> QED BY <1>1, <1>2, <1>3, <1>4, <1>5, <1>6, <1>7, <1>8, <1>9, <1>10, <1>11, <1>12, <1>13, <1>14
     DEF Next, JobNext, EngineNext, WorkerNext


\* Keys are only ever added to shared, jobs to born.
LEMMA HistoryGrows ==
  ASSUME [Next]_vars
  PROVE  shared \subseteq shared' /\ born \subseteq born'
<1>1. ASSUME NEW j \in Jobs, JobNext(j) PROVE shared \subseteq shared' /\ born \subseteq born'
  BY <1>1 DEF JobNext, Enqueue, Delete, Retry
<1>2. ASSUME EngineNext PROVE UNCHANGED <<shared, born>>
  BY <1>2 DEF EngineNext, SchedulerTick, VisibilityTick, Save, Stop, GoDown, Start
<1>3. ASSUME NEW w \in Workers, WorkerNext(w) PROVE UNCHANGED <<shared, born>>
  BY <1>3 DEF WorkerNext, Poll, RunEnds, Complete, Fail
<1>4. ASSUME NEW m \in wire, Arrives(m) PROVE UNCHANGED <<shared, born>>
  BY <1>4 DEF Arrives
<1> QED BY <1>1, <1>2, <1>3, <1>4 DEF Next, vars

LEMMA DiskSoundStep == JobShape /\ MemorySound /\ DiskSound /\ [Next]_vars => DiskSound'
<1> SUFFICES ASSUME JobShape, MemorySound, DiskSound, [Next]_vars PROVE DiskSound'
  OBVIOUS
<1>0. NoFile \in Files /\ Copy \in Files
  BY DEF JobShape, NoFile, Files, Copy, Statuses
<1>1. CASE disk' = disk
  BY <1>1, HistoryGrows DEF DiskSound, Sound
<1>2. CASE disk' = Copy /\ UNCHANGED <<born, shared>>
  BY <1>0, <1>2 DEF DiskSound, Sound, Copy, MemorySound
<1>3. CASE disk' = NoFile
  BY <1>0, <1>3 DEF DiskSound, Sound, NoFile, Waits
<1>4. ASSUME NEW j \in Jobs, JobNext(j) PROVE disk' = disk
  BY <1>4 DEF JobNext, Enqueue, Delete, Retry
<1>5. ASSUME EngineNext
      PROVE  disk' = disk \/ (disk' = Copy /\ UNCHANGED <<born, shared>>) \/ disk' = NoFile
  BY <1>5 DEF EngineNext, SchedulerTick, VisibilityTick, Save, Stop, GoDown, Start
<1>6. ASSUME NEW w \in Workers, WorkerNext(w) PROVE disk' = disk
  BY <1>6 DEF WorkerNext, Poll, RunEnds, Complete, Fail
<1>7. ASSUME NEW m \in wire, Arrives(m) PROVE disk' = disk
  BY <1>7 DEF Arrives
<1> QED BY <1>1, <1>2, <1>3, <1>4, <1>5, <1>6, <1>7 DEF Next, vars

-----------------------------------------------------------------------------
(* How often polls take a job.                                             *)

\* Giving back leaves a job waiting only if it has an attempt left.
LEMMA GiveBackHanded ==
  ASSUME JobShape, HandedSound, NEW J \in SUBSET {j \in Jobs : status[j] = "inflight"},
         GiveBack(J), UNCHANGED <<phase, born, handed>>
  PROVE  HandedSound'
<1>1. UNCHANGED attempts /\ \A j \in Jobs :
        status'[j] = (IF j \notin J THEN status[j]
                      ELSE IF attempts[j] >= MaxAttempts[j] THEN "dead" ELSE "scheduled")
  BY DEF GiveBack
<1>2. \A j \in Jobs : ~(attempts[j] >= MaxAttempts[j]) => attempts[j] < MaxAttempts[j]
  BY QueueAssumption DEF JobShape, QueueAssumption
<1>3. \A j \in Jobs : status'[j] # "none" => status[j] # "none"
  BY <1>1
<1> QED BY <1>1, <1>2, <1>3 DEF HandedSound

LEMMA ForgetHanded ==
  ASSUME JobShape, HandedSound, NEW j \in Jobs, Forget(j), UNCHANGED <<phase, born, handed>>
  PROVE  HandedSound'
<1>1. \A i \in Jobs : /\ status'[i] = (IF i = j THEN "none" ELSE status[i])
                      /\ attempts'[i] = (IF i = j THEN 0 ELSE attempts[i])
  BY DEF Forget, JobShape
<1> QED BY <1>1 DEF HandedSound

LEMMA SettleHanded ==
  ASSUME JobShape, Placed, HandedSound, NEW m, m.receipt \in Receipts, Settle(m),
         UNCHANGED <<phase, born, handed>>
  PROVE  HandedSound'
<1>1. CASE Ack(m.receipt)
  <2>1. PICK j \in Found(m.receipt) : Forget(j)
    BY <1>1 DEF Ack
  <2> QED BY <2>1, ForgetHanded DEF Found
<1>2. CASE Nack(m.receipt)
  <2>1. Found(m.receipt) \in SUBSET {j \in Jobs : status[j] = "inflight"}
    BY FoundLeased
  <2> QED BY <1>2, <2>1, GiveBackHanded DEF Nack
<1>3. CASE UNCHANGED jobVars
  BY <1>3 DEF jobVars, HandedSound
<1> QED BY <1>1, <1>2, <1>3 DEF Settle

\* A poll takes a job that has an attempt left, or takes it for the first time.
LEMMA LeaseHanded ==
  ASSUME JobShape, Placed, MemorySound, Emptied, HandedSound, NEW r, NEW D \in SUBSET sched,
         NEW j \in ready \cup D, Lease(j, r, D), UNCHANGED <<phase, born>>
  PROVE  HandedSound'
<1>1. /\ j \in Jobs /\ status[j] \in {"ready", "scheduled"}
      /\ attempts[j] \in Nat /\ handed[j] \in Nat /\ MaxAttempts[j] \in Nat \ {0}
  BY QueueAssumption DEF JobShape, Placed, HandedSound, QueueAssumption
<1>2. \A i \in Popped(D) : status[i] = "scheduled"
  BY DEF Popped
<1>3. \A i \in Jobs :
        /\ status'[i] = (IF i = j THEN "inflight" ELSE IF i \in Popped(D) THEN "ready" ELSE status[i])
        /\ attempts'[i] = (IF i = j THEN attempts[j] + 1 ELSE attempts[i])
        /\ handed'[i] = (IF i = j THEN handed[j] + 1 ELSE handed[i])
  BY <1>1 DEF Lease, JobShape, HandedSound
<1>4. handed[j] <= attempts[j] /\ (attempts[j] < MaxAttempts[j] \/ handed[j] = 0)
  BY <1>1 DEF HandedSound
<1>5. handed[j] + 1 <= MaxAttempts[j] /\ handed[j] + 1 <= attempts[j] + 1
  BY <1>1, <1>4
<1>6. handed' \in [Jobs -> Nat]
  BY <1>1 DEF Lease, HandedSound
<1>7. phase # "down" /\ j \in born
  BY <1>1 DEF Emptied, MemorySound, Sound
<1>8. ASSUME NEW i \in Jobs, i # j
      PROVE  /\ status'[i] # "none" => status[i] # "none"
             /\ status'[i] \in {"ready", "scheduled"} => status[i] \in {"ready", "scheduled"}
             /\ attempts'[i] = attempts[i] /\ handed'[i] = handed[i]
  BY <1>2, <1>3, <1>8
<1>9. ASSUME NEW i \in Jobs
      PROVE  /\ handed'[i] <= MaxAttempts[i]
             /\ status'[i] # "none" => handed'[i] <= attempts'[i]
             /\ status'[i] \in {"ready", "scheduled"} => attempts'[i] < MaxAttempts[i] \/ handed'[i] = 0
             /\ phase' = "down" \/ i \notin born' => handed'[i] = 0
  <2>1. CASE i = j
    BY <1>3, <1>5, <1>7, <2>1
  <2>2. CASE i # j
    BY <1>8, <2>2 DEF HandedSound
  <2> QED BY <2>1, <2>2
<1> QED BY <1>6, <1>9 DEF HandedSound

LEMMA HandedSoundStep ==
  /\ JobShape /\ WorkerShape /\ Placed /\ Emptied /\ MemorySound /\ DiskSound /\ HandedSound
  /\ [Next]_vars
  => HandedSound'
<1> SUFFICES ASSUME JobShape, WorkerShape, Placed, Emptied, MemorySound, DiskSound, HandedSound,
                    [Next]_vars
             PROVE  HandedSound'
  OBVIOUS
<1>0. CASE UNCHANGED <<jobVars, born, handed>> /\ phase' # "down"
  BY <1>0 DEF jobVars, HandedSound
<1>1. ASSUME NEW j \in Jobs, NEW s \in {"ready", "scheduled"}, Enqueue(j, s) PROVE HandedSound'
  <2>1. /\ \A i \in Jobs : status'[i] = (IF i = j THEN s ELSE status[i])
        /\ j \notin born /\ born' = born \cup {j} /\ UNCHANGED <<phase, attempts, handed>>
    BY <1>1 DEF Enqueue, JobShape, countVars
  <2>2. handed[j] = 0 /\ attempts[j] \in Nat
    BY <2>1 DEF HandedSound, JobShape
  <2> QED BY <2>1, <2>2 DEF HandedSound
<1>2. ASSUME NEW j \in Jobs, Delete(j) PROVE HandedSound'
  BY <1>2, ForgetHanded DEF Delete, countVars
<1>3. ASSUME NEW j \in Jobs, Retry(j) PROVE HandedSound'
  <2>1. \A i \in Jobs : /\ status'[i] = (IF i = j THEN "ready" ELSE status[i])
                        /\ attempts'[i] = (IF i = j THEN 0 ELSE attempts[i])
                        /\ handed'[i] = (IF i = j THEN 0 ELSE handed[i])
    BY <1>3 DEF Retry, JobShape, HandedSound
  <2>2. handed' \in [Jobs -> Nat] /\ UNCHANGED <<phase, born>>
    BY <1>3 DEF Retry, HandedSound
  <2>3. status[j] = "dead" /\ MaxAttempts[j] \in Nat
    BY <1>3, QueueAssumption DEF Retry, QueueAssumption
  <2> QED BY <2>1, <2>2, <2>3 DEF HandedSound
<1>4. ASSUME NEW D \in SUBSET sched, SchedulerTick(D) PROVE HandedSound'
  <2>1. /\ \A i \in Jobs : status'[i] = (IF i \in Popped(D) THEN "ready" ELSE status[i])
        /\ UNCHANGED <<phase, attempts, born, handed>>
    BY <1>4 DEF SchedulerTick, countVars
  <2>2. \A i \in Popped(D) : status[i] = "scheduled"
    BY DEF Popped
  <2> QED BY <2>1, <2>2 DEF HandedSound
<1>5. ASSUME NEW E \in SUBSET inflight, VisibilityTick(E) PROVE HandedSound'
  <2>1. {j \in Jobs : status[j] = "inflight" /\ <<j, receipt[j]>> \in E}
          \in SUBSET {j \in Jobs : status[j] = "inflight"}
    OBVIOUS
  <2> QED BY <1>5, <2>1, GiveBackHanded DEF VisibilityTick, countVars
<1>6. ASSUME Save \/ Stop PROVE HandedSound'
  BY <1>0, <1>6 DEF Save, Stop, countVars
<1>7. ASSUME GoDown PROVE HandedSound'
  <2>1. /\ handed' = [j \in Jobs |-> 0]
        /\ \A j \in Jobs : status'[j] = "none"
    BY <1>7 DEF GoDown, NoFile
  <2>2. \A j \in Jobs : handed'[j] <= MaxAttempts[j]
    BY <2>1, QueueAssumption DEF QueueAssumption
  <2> QED BY <2>1, <2>2 DEF HandedSound
<1>8. ASSUME Start PROVE HandedSound'
  <2>1. /\ \A j \in Jobs : handed[j] = 0
        /\ UNCHANGED handed
    BY <1>8 DEF Start, HandedSound, countVars
  <2>2. \A j \in Jobs : attempts'[j] \in Nat
    BY <1>8 DEF Start, DiskSound, Files
  <2> QED BY <2>1, <2>2 DEF HandedSound
<1>9. ASSUME NEW w \in Workers, Poll(w) PROVE HandedSound'
  <2>1. PICK r \in Fresh, D \in SUBSET sched : \E j \in ready \cup D : Lease(j, r, D)
    BY <1>9 DEF Poll
  <2> QED BY <1>9, <2>1, LeaseHanded DEF Poll
<1>10. ASSUME NEW w \in Workers, RunEnds(w) PROVE HandedSound'
  BY <1>10 DEF RunEnds, jobVars, countVars, HandedSound
<1>11. ASSUME NEW w \in Workers, Complete(w) PROVE HandedSound'
  <2>1. UNCHANGED <<phase, born, handed>>
    BY <1>11 DEF Complete, countVars
  <2>2. CASE Ack(lease[w])
    <3>1. Settle([op |-> "ack", receipt |-> lease[w]]) /\ lease[w] \in Receipts
      BY <1>11, <2>2 DEF Settle, Complete, WorkerShape
    <3> QED BY <2>1, <3>1, SettleHanded
  <2>3. CASE UNCHANGED jobVars
    BY <2>1, <2>3 DEF jobVars, HandedSound
  <2> QED BY <1>11, <2>2, <2>3 DEF Complete, Unanswered
<1>12. ASSUME NEW w \in Workers, Fail(w) PROVE HandedSound'
  <2>1. Request("nack", w).receipt \in Receipts /\ UNCHANGED <<phase, born, handed>>
    BY <1>12 DEF Fail, Request, WorkerShape, countVars
  <2>2. CASE UNCHANGED jobVars
    BY <2>1, <2>2 DEF jobVars, HandedSound
  <2> QED BY <1>12, <2>1, <2>2, SettleHanded DEF Fail, Unanswered
<1>13. ASSUME NEW m \in wire, Arrives(m) PROVE HandedSound'
  <2>1. m.receipt \in Receipts /\ UNCHANGED <<phase, born, handed>>
    BY <1>13 DEF WorkerShape, Arrives, countVars
  <2>2. CASE UNCHANGED jobVars
    BY <2>1, <2>2 DEF jobVars, HandedSound
  <2> QED BY <1>13, <2>1, <2>2, SettleHanded DEF Arrives
<1>14. ASSUME UNCHANGED vars PROVE HandedSound'
  BY <1>14 DEF vars, jobVars, countVars, HandedSound
<1> QED BY <1>1, <1>2, <1>3, <1>4, <1>5, <1>6, <1>7, <1>8, <1>9, <1>10, <1>11, <1>12, <1>13, <1>14
     DEF Next, JobNext, EngineNext, WorkerNext

-----------------------------------------------------------------------------
(* Leases.                                                                 *)

\* Except for a poll, no step gives out a receipt.
LEMMA ReceiptsEnd ==
  ASSUME JobShape, NEW j \in Jobs,
         \/ \E J \in SUBSET Jobs : GiveBack(J)
         \/ \E i \in Jobs : Forget(i)
         \/ receipt' = receipt \/ receipt' = [i \in Jobs |-> NoReceipt]
         \/ \E i \in Jobs : receipt' = [receipt EXCEPT ![i] = NoReceipt]
  PROVE  receipt'[j] = receipt[j] \/ receipt'[j] = NoReceipt
BY DEF GiveBack, Forget, JobShape

\* Settling a lease gives out no receipt either.
LEMMA SettleReceipts ==
  ASSUME JobShape, NEW m, Settle(m), NEW j \in Jobs
  PROVE  receipt'[j] = receipt[j] \/ receipt'[j] = NoReceipt
<1>1. Found(m.receipt) \in SUBSET Jobs
  BY DEF Found
<1> QED BY <1>1, ReceiptsEnd DEF Settle, Ack, Nack, jobVars

\* What holds of the leases of a step's end, if no receipt was given out.
LEMMA LeasesKept ==
  ASSUME JobShape, LeasesOwned,
         \A j \in Jobs : receipt'[j] = receipt[j] \/ receipt'[j] = NoReceipt,
         wire' \subseteq wire, UNCHANGED workerVars,
         wire \in SUBSET [op : {"ack", "nack"}, receipt : Receipts, of : Jobs]
  PROVE  LeasesOwned'
BY QueueAssumption DEF LeasesOwned, workerVars, Running, QueueAssumption

LEMMA LeasesOwnedStep ==
  JobShape /\ WorkerShape /\ Placed /\ LeasesOwned /\ [Next]_vars => LeasesOwned'
<1> SUFFICES ASSUME JobShape, WorkerShape, Placed, LeasesOwned, [Next]_vars PROVE LeasesOwned'
  OBVIOUS
<1>0. wire \in SUBSET [op : {"ack", "nack"}, receipt : Receipts, of : Jobs]
  BY DEF WorkerShape
<1>1. ASSUME NEW j \in Jobs, JobNext(j) PROVE LeasesOwned'
  <2>1. UNCHANGED <<workerVars, wire>>
    BY <1>1 DEF JobNext, Enqueue, Delete, Retry
  <2>2. \A i \in Jobs : receipt'[i] = receipt[i] \/ receipt'[i] = NoReceipt
    BY <1>1, ReceiptsEnd DEF JobNext, Enqueue, Delete, Retry
  <2> QED BY <1>0, <2>1, <2>2, LeasesKept
<1>2. ASSUME EngineNext PROVE LeasesOwned'
  <2>1. UNCHANGED <<workerVars, wire>>
    BY <1>2 DEF EngineNext, SchedulerTick, VisibilityTick, Save, Stop, GoDown, Start
  <2>2. \A i \in Jobs : receipt'[i] = receipt[i] \/ receipt'[i] = NoReceipt
    <3>1. ASSUME NEW E \in SUBSET inflight, VisibilityTick(E)
          PROVE  \E J \in SUBSET Jobs : GiveBack(J)
      <4>1. {j \in Jobs : status[j] = "inflight" /\ <<j, receipt[j]>> \in E} \in SUBSET Jobs
        OBVIOUS
      <4> QED BY <3>1, <4>1 DEF VisibilityTick
    <3>2. CASE \E E \in SUBSET inflight : VisibilityTick(E)
      BY <3>1, <3>2, ReceiptsEnd
    <3>3. CASE receipt' = receipt \/ receipt' = [j \in Jobs |-> NoReceipt]
      BY <3>3
    <3> QED BY <1>2, <3>2, <3>3 DEF EngineNext, SchedulerTick, Save, Stop, GoDown, Start, jobVars
  <2> QED BY <1>0, <2>1, <2>2, LeasesKept
<1>3. ASSUME NEW w \in Workers, Poll(w) PROVE LeasesOwned'
  <2>1. PICK r \in Fresh, D \in SUBSET sched : \E j \in ready \cup D :
               Lease(j, r, D) /\ (Takes(w, j, r) \/ UNCHANGED workerVars)
    BY <1>3 DEF Poll
  <2>2. PICK j \in Jobs : Lease(j, r, D) /\ (Takes(w, j, r) \/ UNCHANGED workerVars)
    BY <2>1 DEF JobShape
  <2>3. /\ r \in Receipts /\ r # NoReceipt
        /\ \A v \in Workers : lease[v] # r
        /\ \A m \in wire : m.receipt # r
    BY QueueAssumption DEF Fresh, Range, WorkerShape, QueueAssumption
  <2>4. \A i \in Jobs : receipt'[i] = (IF i = j THEN r ELSE receipt[i])
    BY <2>2 DEF Lease, JobShape
  <2>5. wire' = wire /\ at[w] = "idle"
    BY <1>3 DEF Poll
  <2>6. CASE UNCHANGED workerVars
    BY <2>3, <2>4, <2>5, <2>6 DEF LeasesOwned, workerVars, Running
  <2>7. CASE Takes(w, j, r)
    <3>1. \A v \in Workers : /\ job'[v] = (IF v = w THEN j ELSE job[v])
                             /\ lease'[v] = (IF v = w THEN r ELSE lease[v])
                             /\ v # w => at'[v] = at[v]
      BY <2>7 DEF Takes, WorkerShape
    <3>2. (\A v \in Workers, i \in Jobs :
             receipt[i] = lease[v] /\ receipt[i] # NoReceipt => job[v] = i)'
      <4> SUFFICES ASSUME NEW v \in Workers, NEW i \in Jobs,
                          receipt'[i] = lease'[v], receipt'[i] # NoReceipt
                   PROVE  job'[v] = i
        OBVIOUS
      <4>1. CASE v = w
        <5>1. receipt'[i] = r
          BY <3>1, <4>1
        <5>2. receipt[i] # r
          BY <2>1 DEF Fresh, Range, JobShape
        <5> QED BY <2>4, <3>1, <4>1, <5>1, <5>2
      <4>2. CASE v # w
        BY <2>3, <2>4, <3>1, <4>2 DEF LeasesOwned
      <4> QED BY <4>1, <4>2
    <3>3. (\A m \in wire, i \in Jobs : receipt[i] = m.receipt => m.of = i)'
      BY <2>3, <2>4, <2>5 DEF LeasesOwned
    <3>4. (\A u, v \in Workers : lease[u] = lease[v] /\ lease[u] # NoReceipt => u = v)'
      BY <2>3, <3>1 DEF LeasesOwned
    <3>5. (\A v \in Workers : Running(v) => \A m \in wire : m.receipt # lease[v])'
      BY <2>3, <2>5, <3>1 DEF LeasesOwned, Running
    <3> QED BY <3>2, <3>3, <3>4, <3>5 DEF LeasesOwned
  <2> QED BY <2>2, <2>6, <2>7
<1>4. ASSUME NEW w \in Workers, RunEnds(w) PROVE LeasesOwned'
  <2>1. UNCHANGED <<receipt, job, lease, wire>> /\ \A v \in Workers : Running(v)' => Running(v)
    BY <1>4 DEF RunEnds, Goes, Running, jobVars, WorkerShape
  <2> QED BY <2>1 DEF LeasesOwned
<1>5. ASSUME NEW w \in Workers, Complete(w) \/ Fail(w) PROVE LeasesOwned'
  <2>1. at[w] \in {"completing", "failing"} /\ job[w] \in Jobs /\ lease[w] \in Receipts
    BY <1>5 DEF Complete, Fail, WorkerShape
  <2>2. \A j \in Jobs : receipt'[j] = receipt[j] \/ receipt'[j] = NoReceipt
    <3>1. CASE Complete(w) /\ Ack(lease[w])
      <4>1. Settle([op |-> "ack", receipt |-> lease[w]])
        BY <3>1 DEF Settle
      <4> QED BY <4>1, SettleReceipts
    <3>2. CASE Fail(w) /\ Settle(Request("nack", w))
      BY <3>2, SettleReceipts
    <3>3. CASE UNCHANGED jobVars
      BY <3>3 DEF jobVars
    <3> QED BY <1>5, <3>1, <3>2, <3>3 DEF Complete, Fail, Unanswered
  <2>3. \A m \in wire' : m \in wire \/ (m.receipt = lease[w] /\ m.of = job[w] /\ Found(lease[w]) # {} /\ UNCHANGED receipt)
    BY <1>5 DEF Complete, Fail, Unanswered, Request, jobVars
  <2>4. Rests(w) \/ Goes(w, "failing")
    BY <1>5 DEF Complete, Fail
  <2>5. \A v \in Workers : /\ (job'[v] = job[v] /\ lease'[v] = lease[v]) \/ lease'[v] = NoReceipt
                           /\ Running(v)' => Running(v) /\ v # w /\ lease'[v] = lease[v]
    BY <2>1, <2>4 DEF Rests, Goes, Running, WorkerShape
  <2>6. \A m \in wire : m.receipt \in Receipts
    BY <1>0
  <2>7. (\A v \in Workers, i \in Jobs :
           receipt[i] = lease[v] /\ receipt[i] # NoReceipt => job[v] = i)'
    BY <2>2, <2>5 DEF LeasesOwned
  <2>8. (\A m \in wire, i \in Jobs : receipt[i] = m.receipt => m.of = i)'
    BY <2>1, <2>2, <2>3, <2>6, QueueAssumption DEF LeasesOwned, QueueAssumption
  <2>9. (\A u, v \in Workers : lease[u] = lease[v] /\ lease[u] # NoReceipt => u = v)'
    BY <2>5 DEF LeasesOwned
  <2>10. (\A v \in Workers : Running(v) => \A m \in wire : m.receipt # lease[v])'
    <3> SUFFICES ASSUME NEW v \in Workers, Running(v)', NEW m \in wire' PROVE m.receipt # lease'[v]
      OBVIOUS
    <3>1. Running(v) /\ v # w /\ lease'[v] = lease[v]
      BY <2>5
    <3>2. lease[v] # lease[w]
      BY <2>1, <3>1, QueueAssumption DEF LeasesOwned, QueueAssumption
    <3> QED BY <2>3, <3>1, <3>2 DEF LeasesOwned
  <2> QED BY <2>7, <2>8, <2>9, <2>10 DEF LeasesOwned
<1>6. ASSUME NEW m \in wire, Arrives(m) PROVE LeasesOwned'
  <2>1. \A j \in Jobs : receipt'[j] = receipt[j] \/ receipt'[j] = NoReceipt
    BY <1>6, SettleReceipts DEF Arrives, jobVars
  <2> QED BY <1>0, <1>6, <2>1, LeasesKept DEF Arrives
<1>7. ASSUME UNCHANGED vars PROVE LeasesOwned'
  BY <1>0, <1>7, LeasesKept DEF vars, jobVars
<1> QED BY <1>1, <1>2, <1>3, <1>4, <1>5, <1>6, <1>7 DEF Next, WorkerNext


-----------------------------------------------------------------------------
(* Theorems.                                                               *)

LEMMA JobQueueInit == Init => JobQueueInv
<1> SUFFICES ASSUME Init PROVE JobQueueInv
  OBVIOUS
<1>1. JobShape
  BY DEF Init, NoFile, JobShape, Statuses
<1>2. WorkerShape
  BY DEF Init, WorkerShape
<1>3. Placed /\ Emptied
  BY DEF Init, NoFile, Placed, Emptied
<1>4. MemorySound
  BY DEF Init, NoFile, MemorySound, Sound, Waits
<1>5. DiskSound
  <2>1. NoFile \in Files
    BY DEF NoFile, Files
  <2> QED BY <2>1 DEF Init, NoFile, DiskSound, Sound, Waits
<1>6. LeasesOwned
  BY DEF Init, LeasesOwned, Running
<1>7. HandedSound
  BY QueueAssumption DEF Init, NoFile, HandedSound, QueueAssumption
<1> QED BY <1>1, <1>2, <1>3, <1>4, <1>5, <1>6, <1>7 DEF JobQueueInv

\* The invariant of the queue: it holds for every set of jobs, keys and workers.
THEOREM JobQueueInvariant == Spec => []JobQueueInv
<1>1. JobQueueInv /\ [Next]_vars => JobQueueInv'
  BY JobShapeStep, WorkerShapeStep, PlacedStep, EmptiedStep, MemorySoundStep, DiskSoundStep,
     HandedSoundStep, LeasesOwnedStep DEF JobQueueInv
<1> QED BY <1>1, JobQueueInit, PTL DEF Spec

\* The variables keep their types.
THEOREM TypeCorrect == Spec => []TypeOK
<1>1. JobQueueInv => TypeOK
  BY DEF JobQueueInv, JobShape, WorkerShape, DiskSound, HandedSound, Statuses, TypeOK
<1> QED BY <1>1, JobQueueInvariant, PTL

\* Each job is in the one queue its status names, under its own receipt
\* (QueueEngine's jobs and queues), for any number of jobs and crashes.
THEOREM PlacementHolds == Spec => []Placement
<1>1. JobQueueInv => Placement
  <2> SUFFICES ASSUME JobShape, Placed PROVE Placement
    BY DEF JobQueueInv
  <2>1. ready = {j \in Jobs : status[j] = "ready"} /\ sched = {j \in Jobs : status[j] = "scheduled"}
    BY DEF JobShape, Placed
  <2>2. ASSUME NEW e
        PROVE  e \in inflight <=> \E j \in Jobs : status[j] = "inflight" /\ e = <<j, receipt[j]>>
    <3>1. CASE e \in inflight
      <4>1. PICK j \in Jobs, r \in Receipts : e = <<j, r>>
        BY <3>1 DEF JobShape
      <4> QED BY <3>1, <4>1 DEF Placed
    <3>2. ASSUME NEW j \in Jobs, status[j] = "inflight", e = <<j, receipt[j]>> PROVE e \in inflight
      <4>1. receipt[j] \in Receipts
        BY <3>2 DEF JobShape, Placed
      <4> QED BY <3>2, <4>1 DEF Placed
    <3> QED BY <3>1, <3>2
  <2>3. inflight = {<<j, receipt[j]>> : j \in {i \in Jobs : status[i] = "inflight"}}
    BY <2>2
  <2> QED BY <2>1, <2>3 DEF Placed, Placement
<1> QED BY <1>1, JobQueueInvariant, PTL

\* One live job for each deduplication id no dead letter has come across
\* (enqueue, ack, nack, loadSnapshot).
THEOREM KeyUniqueHolds == Spec => []KeyUnique
<1>1. JobQueueInv => KeyUnique
  <2> SUFFICES ASSUME Sound(status, attempts, index), NEW i \in Jobs, NEW j \in Jobs,
                      Live(i), Live(j), Key[i] = Key[j], Key[i] \notin shared \cup {NoKey}
               PROVE  i = j
    BY DEF JobQueueInv, MemorySound, KeyUnique
  <2> QED BY DEF Sound, Waits, Live
<1> QED BY <1>1, JobQueueInvariant, PTL

\* From one start, or one retry by hand, to the next, polls take a job at most
\* maxAttempts times, whatever leases end unsettled and whatever attempts the start
\* found (tryDequeueOne, nack, processVisibilityTimeouts, loadSnapshot).
THEOREM TriesBoundedHolds == Spec => []TriesBounded
<1>1. JobQueueInv => TriesBounded
  BY DEF JobQueueInv, HandedSound, TriesBounded
<1> QED BY <1>1, JobQueueInvariant, PTL

\* A worker that runs a job under its current lease keeps it, whatever the other
\* workers and the requests on their way do (findByReceipt, ack, nack).
THEOREM LeaseRespectedHolds == Spec => LeaseRespected
<1> DEFINE Excused(w) == \/ RunEnds(w) \/ Delete(job[w]) \/ phase' = "down"
                         \/ \E E \in SUBSET inflight : VisibilityTick(E)
<1>1. JobQueueInv /\ [Next]_vars =>
        [\A w \in Workers : Holds(w) /\ ~Holds(w)' => Excused(w)]_vars
  <2> SUFFICES ASSUME JobQueueInv, Next, NEW w \in Workers, Holds(w), ~Excused(w) PROVE Holds(w)'
    OBVIOUS
  <2>0. JobShape /\ WorkerShape /\ Placed /\ LeasesOwned
    BY DEF JobQueueInv
  <2>1. /\ job[w] \in Jobs /\ lease[w] \in Receipts /\ Running(w) /\ receipt[job[w]] = lease[w]
        /\ lease[w] # NoReceipt
    BY <2>0, QueueAssumption DEF Holds, Running, WorkerShape, QueueAssumption
  <2>2. status[job[w]] = "inflight"
    BY <2>0, <2>1 DEF Placed
  <2>3. ASSUME NEW v \in Workers,
               \/ UNCHANGED workerVars
               \/ v # w /\ (\E j, r : Takes(v, j, r))
               \/ v # w /\ Rests(v)
               \/ v # w /\ (\E s : Goes(v, s)),
               receipt'[job[w]] = receipt[job[w]]
        PROVE  Holds(w)'
    <3>1. at'[w] = at[w] /\ job'[w] = job[w] /\ lease'[w] = lease[w]
      <4>1. CASE UNCHANGED workerVars
        BY <4>1 DEF workerVars
      <4>2. ASSUME NEW j, NEW r, Takes(v, j, r), v # w
            PROVE  at'[w] = at[w] /\ job'[w] = job[w] /\ lease'[w] = lease[w]
        BY <2>0, <4>2 DEF Takes, WorkerShape
      <4>3. CASE Rests(v) /\ v # w
        BY <2>0, <4>3 DEF Rests, WorkerShape
      <4>4. ASSUME NEW s, Goes(v, s), v # w
            PROVE  at'[w] = at[w] /\ job'[w] = job[w] /\ lease'[w] = lease[w]
        BY <2>0, <4>4 DEF Goes, WorkerShape
      <4> QED BY <2>3, <4>1, <4>2, <4>3, <4>4
    <3> QED BY <2>1, <2>3, <3>1 DEF Holds, Running
  <2>4. ASSUME NEW m, m.receipt \in Receipts, m.receipt # lease[w], Settle(m)
        PROVE  receipt'[job[w]] = receipt[job[w]]
    <3>1. CASE Ack(m.receipt)
      <4>1. PICK j \in Found(m.receipt) : Forget(j)
        BY <3>1 DEF Ack
      <4> QED BY <2>0, <2>1, <2>4, <4>1 DEF Found, Forget, JobShape
    <3>2. CASE Nack(m.receipt)
      BY <2>1, <2>4, <3>2 DEF Nack, Found, GiveBack
    <3> QED BY <2>4, <3>1, <3>2 DEF Settle, jobVars
  <2>5. ASSUME NEW j \in Jobs, JobNext(j) PROVE Holds(w)'
    <3>1. UNCHANGED workerVars
      BY <2>5 DEF JobNext, Enqueue, Delete, Retry
    <3>2. receipt'[job[w]] = receipt[job[w]]
      BY <2>0, <2>1, <2>2, <2>5 DEF JobNext, Enqueue, Delete, Retry, Forget, JobShape
    <3> QED BY <2>3, <3>1, <3>2
  <2>6. ASSUME EngineNext PROVE Holds(w)'
    <3>1. UNCHANGED <<workerVars, receipt>>
      BY <2>6 DEF EngineNext, SchedulerTick, Save, Stop, GoDown, Start, jobVars
    <3> QED BY <2>3, <3>1
  <2>7. ASSUME NEW v \in Workers, Poll(v) PROVE Holds(w)'
    <3>1. PICK r \in Fresh, D \in SUBSET sched : \E j \in ready \cup D :
                 Lease(j, r, D) /\ (Takes(v, j, r) \/ UNCHANGED workerVars)
      BY <2>7 DEF Poll
    <3>2. receipt'[job[w]] = receipt[job[w]]
      BY <2>0, <2>1, <2>2, <3>1 DEF Lease, Placed, JobShape
    <3>3. v # w
      BY <2>1, <2>7 DEF Poll, Running
    <3> QED BY <2>3, <3>1, <3>2, <3>3
  <2>8. ASSUME NEW v \in Workers, RunEnds(v) PROVE Holds(w)'
    <3>1. v # w /\ receipt' = receipt
      BY <2>8 DEF RunEnds, jobVars
    <3> QED BY <2>3, <2>8, <3>1 DEF RunEnds
  <2>9. ASSUME NEW v \in Workers, Complete(v) \/ Fail(v) PROVE Holds(w)'
    <3>1. v # w /\ lease[v] \in Receipts /\ lease[v] # lease[w]
      BY <2>0, <2>1, <2>9 DEF Complete, Fail, Running, WorkerShape, LeasesOwned
    <3>2. CASE Complete(v) /\ Ack(lease[v])
      <4>1. Settle([op |-> "ack", receipt |-> lease[v]])
        BY <3>2 DEF Settle
      <4>2. receipt'[job[w]] = receipt[job[w]]
        BY <2>4, <3>1, <4>1
      <4> QED BY <2>3, <3>1, <3>2, <4>2 DEF Complete
    <3>3. CASE Fail(v) /\ Settle(Request("nack", v))
      <4>1. receipt'[job[w]] = receipt[job[w]]
        BY <2>4, <3>1, <3>3 DEF Request
      <4> QED BY <2>3, <3>1, <3>3, <4>1 DEF Fail
    <3>4. CASE UNCHANGED jobVars
      BY <2>3, <2>9, <3>1, <3>4 DEF Complete, Fail, jobVars
    <3> QED BY <2>9, <3>2, <3>3, <3>4 DEF Complete, Fail, Unanswered
  <2>10. ASSUME NEW m \in wire, Arrives(m) PROVE Holds(w)'
    <3>1. m.receipt \in Receipts /\ m.receipt # lease[w]
      BY <2>0, <2>1 DEF WorkerShape, LeasesOwned
    <3>2. receipt'[job[w]] = receipt[job[w]]
      BY <2>4, <2>10, <3>1 DEF Arrives, jobVars
    <3> QED BY <2>3, <2>10, <3>2 DEF Arrives
  <2> QED BY <2>5, <2>6, <2>7, <2>8, <2>9, <2>10 DEF Next, WorkerNext
<1> QED BY <1>1, JobQueueInvariant, PTL DEF Spec, LeaseRespected


\* A job that leaves the queue has been run to its end by the worker that says
\* so, or was deleted, or the engine has gone down (ack, deleteJob).
THEOREM GoneOnlyIfDoneHolds == Spec => GoneOnlyIfDone
<1> DEFINE Excused(j) == \/ \E w \in Workers : at[w] = "completing" /\ job[w] = j
                         \/ \E m \in wire : m.op = "ack" /\ m.of = j
                         \/ Delete(j) \/ phase' = "down"
<1>1. JobQueueInv /\ [Next]_vars =>
        [\A j \in Jobs : status[j] # "none" /\ status'[j] = "none" => Excused(j)]_vars
  <2> SUFFICES ASSUME JobQueueInv, Next, NEW j \in Jobs, status[j] # "none", status'[j] = "none"
               PROVE  Excused(j)
    OBVIOUS
  <2>0. JobShape /\ WorkerShape /\ Placed /\ Emptied /\ LeasesOwned
    BY DEF JobQueueInv
  <2>1. ASSUME NEW i \in Jobs, JobNext(i) PROVE Excused(j)
    <3>1. i = j \/ status'[j] = status[j]
      BY <2>0, <2>1 DEF JobNext, Enqueue, Delete, Retry, Forget, JobShape
    <3>2. CASE Delete(i) /\ i = j
      BY <3>2
    <3>3. CASE Enqueue(i, "ready") \/ Enqueue(i, "scheduled") \/ Retry(i)
      BY <2>0, <3>3 DEF Enqueue, Retry, JobShape
    <3> QED BY <2>1, <3>1, <3>2, <3>3 DEF JobNext
  <2>2. ASSUME NEW J, GiveBack(J) PROVE FALSE
    BY <2>2 DEF GiveBack
  <2>3. ASSUME EngineNext PROVE Excused(j)
    <3>1. CASE \E D \in SUBSET sched : SchedulerTick(D)
      BY <3>1 DEF SchedulerTick
    <3>2. CASE \E E \in SUBSET inflight : VisibilityTick(E)
      BY <2>2, <3>2 DEF VisibilityTick
    <3>3. CASE Save \/ Stop
      BY <3>3 DEF Save, Stop, jobVars
    <3>4. CASE GoDown
      BY <3>4 DEF GoDown
    <3>5. CASE Start
      BY <2>0, <3>5 DEF Start, Emptied
    <3> QED BY <2>3, <3>1, <3>2, <3>3, <3>4, <3>5 DEF EngineNext
  <2>4. ASSUME NEW r, Ack(r) PROVE receipt[j] = r
    BY <2>0, <2>4 DEF Ack, Found, Forget, JobShape
  <2>5. ASSUME NEW r, Nack(r) PROVE FALSE
    BY <2>2, <2>5 DEF Nack
  <2>6. ASSUME NEW w \in Workers, Poll(w) PROVE Excused(j)
    <3>1. PICK r \in Fresh, D \in SUBSET sched : \E i \in ready \cup D : Lease(i, r, D)
      BY <2>6 DEF Poll
    <3> QED BY <3>1 DEF Lease
  <2>7. ASSUME NEW w \in Workers, RunEnds(w) PROVE Excused(j)
    BY <2>7 DEF RunEnds, jobVars
  <2>8. ASSUME NEW w \in Workers, Complete(w) PROVE Excused(j)
    <3>1. CASE Ack(lease[w])
      <4>1. receipt[j] = lease[w] /\ lease[w] # NoReceipt
        BY <2>0, <2>4, <2>8, <3>1, QueueAssumption DEF Complete, WorkerShape, QueueAssumption
      <4> QED BY <2>0, <2>8, <4>1 DEF LeasesOwned, Complete
    <3> QED BY <2>8, <3>1 DEF Complete, Unanswered, jobVars
  <2>9. ASSUME NEW w \in Workers, Fail(w) PROVE Excused(j)
    BY <2>5, <2>9 DEF Fail, Settle, Request, Unanswered, jobVars
  <2>10. ASSUME NEW m \in wire, Arrives(m) PROVE Excused(j)
    <3>1. CASE m.op = "ack" /\ Ack(m.receipt)
      <4>1. receipt[j] = m.receipt
        BY <2>4, <3>1
      <4> QED BY <2>0, <3>1, <4>1 DEF LeasesOwned
    <3> QED BY <2>5, <2>10, <3>1 DEF Arrives, Settle, jobVars
  <2> QED BY <2>1, <2>3, <2>6, <2>7, <2>8, <2>9, <2>10 DEF Next, WorkerNext
<1> QED BY <1>1, JobQueueInvariant, PTL DEF Spec, GoneOnlyIfDone
=============================================================================
