------------------------------- MODULE JobQueue -------------------------------
(***************************************************************************)
(* The job queue (packages/queue QueueEngine) and the workers that take    *)
(* jobs from it over HTTP (packages/worker WorkerRunner, HttpWorkerQueue): *)
(* leases with a visibility timeout, retries, dead letters, deduplication, *)
(* and snapshots that the next start restores.                             *)
(*                                                                         *)
(* Time is left out: any of the entries of a delay queue may be past their *)
(* deadline, so changeVisibility, which moves one, is too.  Which of the   *)
(* ready jobs a poll takes is left open (priorities, task types).  The     *)
(* engine's calls do not wait and are one step each; a request of a worker *)
(* may be lost, arrive late, or lose its answer: a worker that dies is one *)
(* whose requests are all lost.                                            *)
(***************************************************************************)
EXTENDS Naturals, FiniteSets, Functions

CONSTANTS
  Jobs,          \* ids of the jobs ever enqueued
  Keys,          \* deduplication ids
  Key,           \* Key[j] is j's deduplication id, or NoKey
  NoKey, NoJob,
  Workers,
  Receipts,      \* ids of leases; one is used again only when nobody has it
  NoReceipt,
  MaxAttempts,   \* maxAttempts of each job
  MaxWire,       \* bound: requests under way that nobody waits for
  MaxStops,      \* bound: crashes and shutdowns
  MaxRetries     \* bound: dead letters retried

ASSUME QueueAssumption ==
  /\ Key \in [Jobs -> Keys \cup {NoKey}]
  /\ NoKey \notin Keys /\ NoJob \notin Jobs /\ NoReceipt \notin Receipts
  /\ MaxAttempts \in [Jobs -> Nat \ {0}]
  /\ MaxWire \in Nat /\ MaxStops \in Nat /\ MaxRetries \in Nat

VARIABLES
  phase,         \* the process: up, stopping (stop() has been called) or down
  status,        \* JobStatus of each job, "none" when it is not in jobs
  receipt,       \* receipt of each job
  attempts,      \* attempts of each job
  ready,         \* readyQueue
  sched,         \* scheduledQueue
  inflight,      \* inflightQueue: pairs of a job and a receipt
  index,         \* deduplicationIndex
  disk,          \* what the next start reads: the snapshot file, or NoFile
  at,            \* what each worker does
  job, lease,    \* the job and the receipt it does it with
  wire,          \* requests under way that nobody waits for
  born,          \* history: jobs enqueued
  shared,        \* history: keys whose entry a dead letter has come across
  handed,        \* history: polls that took each job since the engine was up or it was retried
  stops,         \* crashes and shutdowns so far
  retries        \* dead letters retried so far

jobVars == <<status, receipt, attempts, ready, sched, inflight, index>>
workerVars == <<at, job, lease>>
countVars == <<handed, stops, retries>>
vars == <<phase, jobVars, disk, workerVars, wire, born, shared, countVars>>

NoFile == [status |-> [j \in Jobs |-> "none"], attempts |-> [j \in Jobs |-> 0],
           index |-> [k \in Keys |-> NoJob]]

Serving == phase # "down"
Live(j) == status[j] \in {"ready", "scheduled", "inflight"}
Running(w) == at[w] = "running"

Init ==
  /\ phase = "up"
  /\ status = NoFile.status /\ attempts = NoFile.attempts /\ index = NoFile.index
  /\ receipt = [j \in Jobs |-> NoReceipt]
  /\ ready = {} /\ sched = {} /\ inflight = {}
  /\ disk = NoFile
  /\ at = [w \in Workers |-> "idle"]
  /\ job = [w \in Workers |-> NoJob]
  /\ lease = [w \in Workers |-> NoReceipt]
  /\ wire = {} /\ born = {} /\ shared = {}
  /\ handed = [j \in Jobs |-> 0] /\ stops = 0 /\ retries = 0

-----------------------------------------------------------------------------
(* What the engine's calls share.                                          *)

Unindex(j) ==
  index' = IF Key[j] = NoKey THEN index ELSE [index EXCEPT ![Key[j]] = NoJob]

\* Leases that nobody holds, has on the wire or may still hear of.
Fresh ==
  Receipts \ (Range(receipt) \cup Range(lease) \cup {e[2] : e \in inflight} \cup {m.receipt : m \in wire})

\* processScheduledJobs, with D the entries past their deadline
PopScheduled(D) ==
  /\ D \subseteq sched
  /\ sched' = sched \ D
Popped(D) == {j \in D : status[j] = "scheduled"}

\* Faulty variants of GiveBack, which no behaviour uses.  A dead letter is scheduled as well.
GiveBackScheduled(J) ==
  /\ status' = [j \in Jobs |-> IF j \notin J THEN status[j]
                               ELSE IF attempts[j] >= MaxAttempts[j] THEN "dead" ELSE "scheduled"]
  /\ receipt' = [j \in Jobs |-> IF j \in J THEN NoReceipt ELSE receipt[j]]
  /\ sched' = sched \cup J
  /\ UNCHANGED <<attempts, ready, index>>

\* Faulty variant: it is dead once it has had exactly its attempts.
GiveBackUnlessExact(J) ==
  /\ status' = [j \in Jobs |-> IF j \notin J THEN status[j]
                               ELSE IF attempts[j] = MaxAttempts[j] THEN "dead" ELSE "scheduled"]
  /\ receipt' = [j \in Jobs |-> IF j \in J THEN NoReceipt ELSE receipt[j]]
  /\ sched' = sched \cup {j \in J : attempts[j] # MaxAttempts[j]}
  /\ index' = [k \in Keys |-> IF \E j \in J : Key[j] = k /\ attempts[j] = MaxAttempts[j]
                              THEN NoJob ELSE index[k]]
  /\ UNCHANGED <<attempts, ready>>

\* A lease that ends unsettled: one more try, or the dead letters.
GiveBack(J) ==
  /\ status' = [j \in Jobs |-> IF j \notin J THEN status[j]
                               ELSE IF attempts[j] >= MaxAttempts[j] THEN "dead" ELSE "scheduled"]
  /\ receipt' = [j \in Jobs |-> IF j \in J THEN NoReceipt ELSE receipt[j]]
  /\ sched' = sched \cup {j \in J : attempts[j] < MaxAttempts[j]}
  /\ index' = [k \in Keys |-> IF \E j \in J : Key[j] = k /\ attempts[j] >= MaxAttempts[j]
                              THEN NoJob ELSE index[k]]
  /\ UNCHANGED <<attempts, ready>>

\* jobs.delete and the index entry of its key, whoever's it is
Forget(j) ==
  /\ status' = [status EXCEPT ![j] = "none"]
  /\ receipt' = [receipt EXCEPT ![j] = NoReceipt]
  /\ attempts' = [attempts EXCEPT ![j] = 0]
  /\ Unindex(j)

Found(r) == {j \in Jobs : receipt[j] = r}

Ack(r) ==
  /\ \E j \in Found(r) : Forget(j)
  /\ inflight' = {e \in inflight : e[2] # r}
  /\ UNCHANGED <<ready, sched>>

\* Faulty variant: a job that has failed too often is dropped.
NackDropping(r) ==
  /\ \E j \in Found(r) : IF attempts[j] >= MaxAttempts[j]
                          THEN Forget(j) /\ UNCHANGED <<ready, sched>> ELSE GiveBack({j})
  /\ inflight' = {e \in inflight : e[2] # r}

Nack(r) ==
  /\ Found(r) # {}
  /\ GiveBack(Found(r))
  /\ inflight' = {e \in inflight : e[2] # r}

\* Faulty variant: the request settles the job whatever lease it is of.
SettleJob(m) ==
  LET r == receipt[m.of]
  IN IF r = NoReceipt THEN UNCHANGED jobVars
     ELSE (m.op = "ack" /\ Ack(r)) \/ (m.op = "nack" /\ Nack(r))

Settle(m) ==
  \/ m.op = "ack" /\ Ack(m.receipt)
  \/ m.op = "nack" /\ Nack(m.receipt)
  \/ Found(m.receipt) = {} /\ UNCHANGED jobVars

-----------------------------------------------------------------------------
(* Calls of the application.                                               *)

\* Faulty variant: a job that waits for a retry is no duplicate.
DuplicateUnlessScheduled(j) ==
  /\ Key[j] # NoKey
  /\ index[Key[j]] # NoJob
  /\ status[index[Key[j]]] \notin {"none", "dead", "scheduled"}

\* A job whose key has a job is not enqueued.
Duplicate(j) ==
  /\ Key[j] # NoKey
  /\ index[Key[j]] # NoJob
  /\ status[index[Key[j]]] \notin {"none", "dead"}

Enqueue(j, s) ==
  /\ Serving
  /\ j \notin born
  /\ ~Duplicate(j)
  /\ born' = born \cup {j}
  /\ status' = [status EXCEPT ![j] = s]
  /\ ready' = IF s = "ready" THEN ready \cup {j} ELSE ready
  /\ sched' = IF s = "scheduled" THEN sched \cup {j} ELSE sched
  /\ index' = IF Key[j] = NoKey THEN index ELSE [index EXCEPT ![Key[j]] = j]
  /\ UNCHANGED <<phase, receipt, attempts, inflight, disk, workerVars, wire,
                 shared, countVars>>

\* deleteJob of a dead letter frees its key, which may be another job's by now.
Delete(j) ==
  /\ Serving
  /\ status[j] # "none"
  /\ shared' = IF status[j] = "dead" THEN shared \cup ({Key[j]} \ {NoKey}) ELSE shared
  /\ ready' = ready \ {j}
  /\ sched' = sched \ {j}
  /\ inflight' = {e \in inflight : e # <<j, receipt[j]>>}
  /\ Forget(j)
  /\ UNCHANGED <<phase, disk, workerVars, wire, born, countVars>>

\* retryJob does not ask whether its key has another job by now.
Retry(j) ==
  /\ Serving
  /\ status[j] = "dead"
  /\ retries < MaxRetries
  /\ retries' = retries + 1
  /\ shared' = shared \cup ({Key[j]} \ {NoKey})
  /\ status' = [status EXCEPT ![j] = "ready"]
  /\ receipt' = [receipt EXCEPT ![j] = NoReceipt]
  /\ attempts' = [attempts EXCEPT ![j] = 0]
  /\ handed' = [handed EXCEPT ![j] = 0]
  /\ ready' = ready \cup {j}
  /\ UNCHANGED <<phase, sched, inflight, index, disk, workerVars, wire,
                 born, stops>>

-----------------------------------------------------------------------------
(* The engine's timers.                                                    *)

SchedulerTick(D) ==
  /\ phase = "up"
  /\ PopScheduled(D)
  /\ status' = [j \in Jobs |-> IF j \in Popped(D) THEN "ready" ELSE status[j]]
  /\ ready' = ready \cup Popped(D)
  /\ UNCHANGED <<phase, receipt, attempts, inflight, index, disk, workerVars, wire, born,
                 shared, countVars>>

\* processVisibilityTimeouts, with E the entries past their deadline
VisibilityTick(E) ==
  /\ phase = "up"
  /\ E \subseteq inflight
  /\ GiveBack({j \in Jobs : status[j] = "inflight" /\ <<j, receipt[j]>> \in E})
  /\ inflight' = inflight \ E
  /\ UNCHANGED <<phase, disk, workerVars, wire, born, shared, countVars>>

-----------------------------------------------------------------------------
(* Snapshots.  The copy is taken in one step and the file renamed later; as *)
(* only a start reads it, a process that ends in between, or a write that  *)
(* fails, is one that has not saved.                                       *)

Copy == [status |-> status, attempts |-> attempts, index |-> index]

\* maybeSnapshot: operationsSinceSnapshot and the clock decide.  A file that no
\* start will read is left out, here and in Start.
Save ==
  /\ phase = "up"
  /\ stops < MaxStops
  /\ disk' = Copy
  /\ UNCHANGED <<phase, jobVars, workerVars, wire, born, shared, countVars>>

\* stop(): it saves, or waits for the snapshot under way, whose copy is older.
\* Requests are still served until the process ends.
Stop ==
  /\ phase = "up"
  /\ stops < MaxStops
  /\ phase' = "stopping"
  /\ disk' \in {Copy, disk}
  /\ UNCHANGED <<jobVars, workerVars, wire, born, shared, countVars>>

\* The process ends, after stop() or by a crash, with all it has in memory.
GoDown ==
  /\ phase = "stopping" \/ (phase = "up" /\ stops < MaxStops)
  /\ phase' = "down"
  /\ stops' = stops + 1
  /\ handed' = [j \in Jobs |-> 0]
  /\ status' = NoFile.status /\ attempts' = NoFile.attempts /\ index' = NoFile.index
  /\ receipt' = [j \in Jobs |-> NoReceipt]
  /\ ready' = {} /\ sched' = {} /\ inflight' = {}
  /\ UNCHANGED <<disk, workerVars, wire, born, shared, retries>>

\* Faulty variant: jobs in flight stay what they were.
StartAsSaved ==
  /\ phase = "down"
  /\ phase' = "up"
  /\ status' = disk.status /\ attempts' = disk.attempts /\ index' = disk.index
  /\ ready' = {j \in Jobs : disk.status[j] = "ready"}
  /\ sched' = {j \in Jobs : disk.status[j] = "scheduled"}
  /\ UNCHANGED <<receipt, inflight, disk, workerVars, wire, born, shared, countVars>>

\* start, loadSnapshot: jobs in flight are ready again, their leases forgotten.
Start ==
  /\ phase = "down"
  /\ phase' = "up"
  /\ status' = [j \in Jobs |-> IF disk.status[j] = "inflight" THEN "ready" ELSE disk.status[j]]
  /\ attempts' = disk.attempts
  /\ index' = disk.index
  /\ ready' = {j \in Jobs : disk.status[j] \in {"ready", "inflight"}}
  /\ sched' = {j \in Jobs : disk.status[j] = "scheduled"}
  /\ disk' = IF stops = MaxStops THEN NoFile ELSE disk
  /\ UNCHANGED <<receipt, inflight, workerVars, wire, born, shared, countVars>>

-----------------------------------------------------------------------------
(* Workers.                                                                *)

Goes(w, state) == at' = [at EXCEPT ![w] = state] /\ UNCHANGED <<job, lease>>
Rests(w) ==
  /\ at' = [at EXCEPT ![w] = "idle"]
  /\ job' = [job EXCEPT ![w] = NoJob]
  /\ lease' = [lease EXCEPT ![w] = NoReceipt]

Takes(w, j, r) ==
  /\ at' = [at EXCEPT ![w] = "running"]
  /\ job' = [job EXCEPT ![w] = j]
  /\ lease' = [lease EXCEPT ![w] = r]

\* tryDequeueOne
Lease(j, r, D) ==
  /\ PopScheduled(D)
  /\ j \in ready \cup Popped(D)
  /\ status' = [i \in Jobs |-> IF i = j THEN "inflight"
                              ELSE IF i \in Popped(D) THEN "ready" ELSE status[i]]
  /\ receipt' = [receipt EXCEPT ![j] = r]
  /\ attempts' = [attempts EXCEPT ![j] = @ + 1]
  /\ handed' = [handed EXCEPT ![j] = @ + 1]
  /\ inflight' = inflight \cup {<<j, r>>}
  /\ ready' = (ready \cup Popped(D)) \ {j}
  /\ UNCHANGED index

\* The answer to a poll may be lost; the job is leased all the same.
Poll(w) ==
  /\ Serving
  /\ at[w] = "idle"
  /\ Fresh # {}
  /\ LET r == CHOOSE x \in Fresh : TRUE
     IN \E D \in SUBSET sched : \E j \in ready \cup D :
          Lease(j, r, D) /\ (Takes(w, j, r) \/ UNCHANGED workerVars)
  /\ UNCHANGED <<phase, disk, wire, born, shared, stops, retries>>

\* The task returns or throws.
RunEnds(w) ==
  /\ Running(w)
  /\ Goes(w, "completing") \/ Goes(w, "failing")
  /\ UNCHANGED <<phase, jobVars, disk, wire, born, shared, countVars>>

Request(op, w) == [op |-> op, receipt |-> lease[w], of |-> job[w]]

\* A request is answered, or is given up: then it is lost or arrives later; one
\* whose lease is over by now is as good as lost.
Unanswered(m) ==
  /\ UNCHANGED jobVars
  /\ \/ wire' = wire
     \/ Found(m.receipt) # {} /\ Cardinality(wire) < MaxWire /\ wire' = wire \cup {m}

\* complete: anything but an acknowledged receipt counts as a failed job.
Complete(w) ==
  /\ at[w] = "completing"
  /\ \/ Serving /\ Ack(lease[w]) /\ Rests(w) /\ UNCHANGED wire
     \/ Serving /\ Found(lease[w]) = {} /\ Goes(w, "failing") /\ UNCHANGED <<jobVars, wire>>
     \/ Unanswered(Request("ack", w)) /\ Goes(w, "failing")
  /\ UNCHANGED <<phase, disk, born, shared, countVars>>

\* fail: whatever comes of it, the worker goes on.
Fail(w) ==
  /\ at[w] = "failing"
  /\ \/ Serving /\ Settle(Request("nack", w)) /\ UNCHANGED wire
     \/ Unanswered(Request("nack", w))
  /\ Rests(w)
  /\ UNCHANGED <<phase, disk, born, shared, countVars>>

Arrives(m) ==
  /\ wire' = wire \ {m}
  /\ (Serving /\ Settle(m)) \/ UNCHANGED jobVars
  /\ UNCHANGED <<phase, disk, workerVars, born, shared, countVars>>

-----------------------------------------------------------------------------
JobNext(j) == Enqueue(j, "ready") \/ Enqueue(j, "scheduled") \/ Delete(j) \/ Retry(j)
EngineNext ==
  \/ \E D \in SUBSET sched : SchedulerTick(D)
  \/ \E E \in SUBSET inflight : VisibilityTick(E)
  \/ Save \/ Stop \/ GoDown \/ Start
WorkerNext(w) == Poll(w) \/ RunEnds(w) \/ Complete(w) \/ Fail(w)

Next ==
  \/ \E j \in Jobs : JobNext(j)
  \/ EngineNext
  \/ \E w \in Workers : WorkerNext(w)
  \/ \E m \in wire : Arrives(m)

\* Deadlines pass and the engine's timers find them, stop() comes to an end, the
\* process is started again and workers go on; nothing makes a request arrive.
TimerFinds(j) ==
  \/ \E D \in SUBSET sched : j \in D /\ SchedulerTick(D)
  \/ \E E \in SUBSET inflight : (\E e \in E : e[1] = j) /\ VisibilityTick(E)

Fairness ==
  /\ \A j \in Jobs : WF_vars(TimerFinds(j))
  /\ WF_vars((phase = "stopping" /\ GoDown) \/ Start)
  /\ \A w \in Workers : WF_vars(WorkerNext(w))

Spec == Init /\ [][Next]_vars
FairSpec == Spec /\ Fairness

-----------------------------------------------------------------------------
(* Properties.                                                             *)

Files == [status : [Jobs -> {"none", "ready", "scheduled", "inflight", "dead"}],
          attempts : [Jobs -> Nat], index : [Keys -> Jobs \cup {NoJob}]]

\* The variables keep their types.
TypeOK ==
  /\ phase \in {"up", "stopping", "down"}
  /\ status \in [Jobs -> {"none", "ready", "scheduled", "inflight", "dead"}]
  /\ receipt \in [Jobs -> Receipts \cup {NoReceipt}]
  /\ attempts \in [Jobs -> Nat]
  /\ ready \in SUBSET Jobs /\ sched \in SUBSET Jobs
  /\ inflight \in SUBSET (Jobs \X Receipts)
  /\ index \in [Keys -> Jobs \cup {NoJob}]
  /\ disk \in Files
  /\ at \in [Workers -> {"idle", "running", "completing", "failing"}]
  /\ job \in [Workers -> Jobs \cup {NoJob}]
  /\ lease \in [Workers -> Receipts \cup {NoReceipt}]
  /\ wire \in SUBSET [op : {"ack", "nack"}, receipt : Receipts, of : Jobs]
  /\ born \in SUBSET Jobs /\ shared \in SUBSET Keys
  /\ handed \in [Jobs -> Nat] /\ stops \in Nat /\ retries \in Nat

\* Each job is in the one queue its status names, once, with its own receipt:
\* none is stuck outside the queues, and none is leased from two of them
\* (QueueEngine's jobs, readyQueue, scheduledQueue and inflightQueue).
Placement ==
  /\ ready = {j \in Jobs : status[j] = "ready"}
  /\ sched = {j \in Jobs : status[j] = "scheduled"}
  /\ inflight = {<<j, receipt[j]>> : j \in {i \in Jobs : status[i] = "inflight"}}
  /\ \A j \in Jobs : receipt[j] # NoReceipt <=> status[j] = "inflight"
  /\ \A i, j \in Jobs : receipt[i] = receipt[j] /\ receipt[i] # NoReceipt => i = j

\* At most one job of a deduplication id waits or runs, in memory and after
\* any restart, unless a dead letter with that id was retried or deleted
\* (enqueue, ack, nack, processVisibilityTimeouts, loadSnapshot).
KeyUnique ==
  \A i, j \in Jobs :
    Live(i) /\ Live(j) /\ Key[i] = Key[j] /\ Key[i] \notin shared \cup {NoKey} => i = j

\* Polls take a job at most maxAttempts times before the engine goes down or somebody
\* retries it, also one that the start found with all its attempts used: no job is
\* tried for ever (tryDequeueOne, nack, processVisibilityTimeouts, loadSnapshot).  Each
\* start may find the attempts of an older snapshot, and as many tries follow it.
TriesBounded == \A j \in Jobs : handed[j] <= MaxAttempts[j]

\* Whoever runs a job under its current lease keeps it until the worker itself
\* ends, the visibility timeout passes, somebody deletes the job or the engine
\* goes down: no poll hands it out again, and no late request of an earlier
\* lease settles it (tryDequeueOne, ack, nack, findByReceipt).
Holds(w) == Running(w) /\ receipt[job[w]] = lease[w]
LeaseRespected ==
  [][\A w \in Workers : Holds(w) /\ ~Holds(w)' =>
       \/ RunEnds(w) \/ Delete(job[w]) \/ phase' = "down"
       \/ \E E \in SUBSET inflight : VisibilityTick(E)]_vars

\* A job leaves the queue only when a worker that has run it to the end says so,
\* somebody deletes it, or the engine loses its memory.
GoneOnlyIfDone ==
  [][\A j \in Jobs : status[j] # "none" /\ status'[j] = "none" =>
       \/ \E w \in Workers : at[w] = "completing" /\ job[w] = j
       \/ \E m \in wire : m.op = "ack" /\ m.of = j
       \/ Delete(j) \/ phase' = "down"]_vars

\* Every job that waits or runs is settled in the end: acknowledged, deleted, or
\* a dead letter, whatever requests are lost and however often workers die.
EveryJobSettles == \A j \in Jobs : Live(j) ~> ~Live(j)
=============================================================================
