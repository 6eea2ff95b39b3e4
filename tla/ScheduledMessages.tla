--------------------------- MODULE ScheduledMessages ---------------------------
(***************************************************************************)
(* Messages to be sent later (packages/api): a row of the database and a   *)
(* job of the NATS work queue for each, the requests that schedule, change *)
(* and cancel them, and the workers that execute the jobs.                 *)
(*                                                                         *)
(* The queue delivers a job again when it is refused or not acknowledged   *)
(* in time, MaxDeliver times at most.  Each access to the database, and    *)
(* the sending of the message, is a step.                                  *)
(***************************************************************************)
EXTENDS Naturals, FiniteSets

CONSTANTS
  Messages,      \* ids of scheduled messages
  Bodies,        \* contents
  Workers,       \* processes that execute jobs, one job at a time each
  MaxDeliver,    \* MAX_DELIVER
  MaxTime,       \* bound of the clock
  MaxJobs        \* bound: jobs published

VARIABLES
  now,
  row,           \* of each message: its status, time and content, or NoRow
  request,       \* what the request about each message is going to do
  stream,        \* jobs of the queue, each with its number of deliveries
  held,          \* ids of the jobs delivered and not yet refused or timed out
  published,     \* jobs published so far
  at,            \* what each worker is about to do
  doing,         \* the job it was delivered
  body,          \* the content it has read
  sent,          \* messages sent: time and content, and when and by which delivery
  asked          \* history of each message: new, scheduled or cancelled last

rowVars == <<row, request, asked>>
queueVars == <<stream, held, published>>
workerVars == <<at, doing, body>>
vars == <<now, rowVars, queueVars, workerVars, sent>>

NoRow == [status |-> "none"]
NoRequest == [step |-> "none"]
NoJob == [id |-> 0]

Init ==
  /\ now = 0
  /\ row = [m \in Messages |-> NoRow]
  /\ request = [m \in Messages |-> NoRequest]
  /\ stream = {} /\ held = {} /\ published = 0
  /\ at = [w \in Workers |-> "idle"]
  /\ doing = [w \in Workers |-> NoJob]
  /\ body = [w \in Workers |-> "none"]
  /\ sent = {}
  /\ asked = [m \in Messages |-> "new"]

Tick ==
  /\ now < MaxTime
  /\ now' = now + 1
  /\ UNCHANGED <<rowVars, queueVars, workerVars, sent>>

-----------------------------------------------------------------------------
(* Requests.                                                               *)

\* A new message, or a change of one whose row is there when it is asked for;
\* resolveScheduledAt refuses a time that is not in the future.
Ask(m) ==
  /\ request[m] = NoRequest
  /\ asked[m] = "new" \/ row[m] # NoRow
  /\ \E t \in 1 .. MaxTime, b \in Bodies :
       t > now /\ request' = [request EXCEPT ![m] = [step |-> "upsert", at |-> t, body |-> b]]
  /\ asked' = [asked EXCEPT ![m] = IF @ = "new" THEN "scheduled" ELSE @]
  /\ UNCHANGED <<now, row, queueVars, workerVars, sent>>

\* upsertScheduledMessage writes the whole row, also of one cancelled meanwhile.
Upsert(m) ==
  /\ request[m].step = "upsert"
  /\ row' = [row EXCEPT ![m] = [status |-> "pending", at |-> request[m].at,
                                body |-> request[m].body]]
  /\ request' = [request EXCEPT ![m].step = "publish"]
  /\ asked' = [asked EXCEPT ![m] = "scheduled"]
  /\ UNCHANGED <<now, queueVars, workerVars, sent>>

\* scheduleWorker: run_at goes with the job, and nobody reads it.
Publish(m) ==
  /\ request[m].step = "publish"
  /\ published < MaxJobs
  /\ published' = published + 1
  /\ stream' = stream \cup {[id |-> published', msg |-> m, at |-> request[m].at, deliveries |-> 0]}
  /\ request' = [request EXCEPT ![m] = NoRequest]
  /\ UNCHANGED <<now, row, asked, held, workerVars, sent>>

\* A request that fails leaves the row it has written, without a job.
RequestFails(m) ==
  /\ request[m] # NoRequest
  /\ request' = [request EXCEPT ![m] = NoRequest]
  /\ UNCHANGED <<now, row, asked, queueVars, workerVars, sent>>

\* cancelScheduledMessage: the job stays, to find no row.
Cancel(m) ==
  /\ row[m] # NoRow
  /\ row' = [row EXCEPT ![m] = NoRow]
  /\ asked' = [asked EXCEPT ![m] = "cancelled"]
  /\ UNCHANGED <<now, request, queueVars, workerVars, sent>>

-----------------------------------------------------------------------------
(* The queue and its workers.                                              *)

\* A job that no worker holds may be delivered at any time.
Deliver(w, j) ==
  /\ at[w] = "idle"
  /\ j.id \notin held
  /\ j.deliveries < MaxDeliver
  /\ stream' = (stream \ {j}) \cup {[j EXCEPT !.deliveries = @ + 1]}
  /\ held' = held \cup {j.id}
  /\ at' = [at EXCEPT ![w] = "read"]
  /\ doing' = [doing EXCEPT ![w] = [j EXCEPT !.deliveries = @ + 1]]
  /\ UNCHANGED <<now, rowVars, published, body, sent>>

\* ACK_WAIT_MS passes: the queue takes the job back, whether or not the worker still executes the job.
AckWaitPasses(j) ==
  /\ j.id \in held
  /\ held' = held \ {j.id}
  /\ UNCHANGED <<now, rowVars, stream, published, workerVars, sent>>

Rests(w) ==
  /\ at' = [at EXCEPT ![w] = "idle"]
  /\ doing' = [doing EXCEPT ![w] = NoJob]
  /\ body' = [body EXCEPT ![w] = "none"]
\* The task returns: msg.ack.
Acks(w) ==
  /\ Rests(w)
  /\ stream' = {j \in stream : j.id # doing[w].id}
  /\ held' = held \ {doing[w].id}
  /\ UNCHANGED published
\* The task throws: msg.nak.
Naks(w) ==
  /\ Rests(w)
  /\ held' = held \ {doing[w].id}
  /\ UNCHANGED <<stream, published>>
Goes(w, step) == at' = [at EXCEPT ![w] = step] /\ UNCHANGED <<doing, queueVars>>

\* execute goes on with a row that waits for the time its job was published
\* with; it does not look at the clock.
Expected(w) ==
  LET r == row[doing[w].msg] IN r.status = "pending" /\ r.at = doing[w].at

\* The first reads, of the row and of the user; an exception reaches the queue.
Read(w) ==
  /\ at[w] = "read"
  /\ \/ Expected(w) /\ (Goes(w, "send") \/ Goes(w, "invalidate"))
        /\ body' = [body EXCEPT ![w] = row[doing[w].msg].body]
     \/ ~Expected(w) /\ Acks(w)
     \/ Naks(w)
  /\ UNCHANGED <<now, rowVars, sent>>

\* validateMessageCanBeSent and sendMessage, which may throw.
Send(w) ==
  /\ at[w] = "send"
  /\ \/ /\ sent' = sent \cup {[msg |-> doing[w].msg, at |-> doing[w].at, body |-> body[w],
                               when |-> now, job |-> doing[w].id, try |-> doing[w].deliveries]}
        /\ Goes(w, "delete")
     \/ Goes(w, "invalidate") /\ UNCHANGED sent
  /\ UNCHANGED <<now, rowVars, body>>

\* deleteScheduledMessage, of the row as it is by now.
DeleteRow(w) ==
  /\ at[w] = "delete"
  /\ \/ row' = [row EXCEPT ![doing[w].msg] = NoRow] /\ Acks(w)
     \/ Goes(w, "invalidate") /\ UNCHANGED <<row, body>>
  /\ UNCHANGED <<now, request, asked, sent>>

\* markInvalid writes a row where there is none, and hides its own failure.
Invalidate(w) ==
  /\ at[w] = "invalidate"
  /\ \/ row' = [row EXCEPT ![doing[w].msg] = [status |-> "invalid"]]
     \/ UNCHANGED row
  /\ Acks(w)
  /\ UNCHANGED <<now, request, asked, sent>>

Crash(w) ==
  /\ at[w] # "idle"
  /\ Rests(w)
  /\ UNCHANGED <<now, rowVars, queueVars, sent>>

-----------------------------------------------------------------------------
RequestNext(m) == Ask(m) \/ Upsert(m) \/ Publish(m) \/ RequestFails(m) \/ Cancel(m)
WorkerNext(w) ==
  \/ \E j \in stream : Deliver(w, j)
  \/ Read(w) \/ Send(w) \/ DeleteRow(w) \/ Invalidate(w) \/ Crash(w)
Next ==
  \/ Tick
  \/ \E m \in Messages : RequestNext(m)
  \/ \E w \in Workers : WorkerNext(w)
  \/ \E j \in stream : AckWaitPasses(j)

Spec == Init /\ [][Next]_vars

-----------------------------------------------------------------------------
(* What the documentation says.                                            *)

\* "Message is sent automatically at the scheduled time": not before it
\* (JetStreamWorkerQueue.enqueue, WorkerRunner.processJob, execute).
SentOnTime == \A s \in sent : s.when >= s.at

\* "The message will not be delivered if cancelled": not after the answer.
CancelledIsNotSent ==
  [][\A s \in sent' \ sent : asked[s.msg] # "cancelled"]_vars

\* One message for each time it is scheduled.
SentOnce == \A s, t \in sent : s.msg = t.msg /\ s.job = t.job => s = t
=============================================================================
