------------------------------- MODULE RqJobs -------------------------------
(***************************************************************************)
(* pkg/rq: the job queue over the message bus.  A job is published for its *)
(* queue, or kept by the scheduler until its time, which then forgets it:  *)
(* the call that would publish it is only a comment.  A worker polls       *)
(* getNextJob, which returns nil, so no job is ever fetched or run and     *)
(* processJob with its retries is not reached.                             *)
(***************************************************************************)
EXTENDS Integers, FiniteSets

CONSTANTS Jobs, WorkerNames,
          MaxWorkers        \* bound: workers started

VARIABLES
  rqQueues, rqStats,    \* the queues there are, and those QueueStats has an entry for
  rqBus,        \* the jobs published
  rqScheduled,  \* scheduledJobs
  rqJob,        \* per job: [status, queue, pc], pc "count" between the publish and its count
  rqListed,     \* r.workers: per name, the number of its worker, or 0
  rqLoop,       \* per worker: "none", "starting" (go worker.Start), "loop" or "ended"
  rqCancelled,  \* the workers whose context is cancelled
  rqLock,       \* r.mu: the name StopWorker holds it for while it waits, or "none"
  rqWorkers     \* stats.Workers

rqVars == <<rqQueues, rqStats, rqBus, rqScheduled, rqJob, rqListed, rqLoop, rqCancelled, rqLock, rqWorkers>>
rqPool == <<rqListed, rqLoop, rqCancelled, rqLock, rqWorkers>>

\* The five default queues, of which one will do; "other" stands for those CreateQueue adds.
DefaultQueues == {"default"}

NewRQAdapter ==
  /\ rqQueues = DefaultQueues /\ rqStats = DefaultQueues /\ rqBus = {} /\ rqScheduled = {}
  /\ rqJob = [j \in Jobs |-> [status |-> "new", queue |-> "default", pc |-> "idle"]]
  /\ rqListed = [n \in WorkerNames |-> 0] /\ rqLoop = [i \in 1 .. MaxWorkers |-> "none"]
  /\ rqCancelled = {} /\ rqLock = "none" /\ rqWorkers = 0

-----------------------------------------------------------------------------
(* Queues and jobs *)

CreateQueue(q) ==
  /\ rqLock = "none" /\ q \notin rqQueues
  /\ rqQueues' = rqQueues \cup {q} /\ rqStats' = rqStats \cup {q}
  /\ UNCHANGED <<rqBus, rqScheduled, rqJob, rqPool>>

\* The queue and its statistics; jobs on the bus stay there.
DeleteQueue(q) ==
  /\ rqLock = "none" /\ q \in rqQueues /\ rqQueues' = rqQueues \ {q} /\ rqStats' = rqStats \ {q}
  /\ UNCHANGED <<rqBus, rqScheduled, rqJob, rqPool>>

\* The job is marked queued and published, which a full bus refuses; nobody looks whether
\* there is such a queue ...
Enqueue(j) ==
  /\ rqJob[j].status = "new"
  /\ \E q \in {"default", "other"} :
       \/ rqJob' = [rqJob EXCEPT ![j] = [status |-> "queued", queue |-> q, pc |-> "count"]] /\ rqBus' = rqBus \cup {j}
       \/ rqJob' = [rqJob EXCEPT ![j] = [status |-> "queued", queue |-> q, pc |-> "idle"]] /\ UNCHANGED rqBus
  /\ UNCHANGED <<rqQueues, rqStats, rqScheduled, rqPool>>

\* ... and then counted under the queue's name, in an entry made for it if there is none.
updateQueueStats(j) ==
  /\ rqJob[j].pc = "count" /\ rqLock = "none" /\ rqJob' = [rqJob EXCEPT ![j].pc = "idle"]
  /\ rqStats' = rqStats \cup {rqJob[j].queue}
  /\ UNCHANGED <<rqQueues, rqBus, rqScheduled, rqPool>>

EnqueueAt(j) ==
  /\ rqJob[j].status = "new"
  /\ rqJob' = [rqJob EXCEPT ![j].status = "scheduled"] /\ rqScheduled' = rqScheduled \cup {j}
  /\ UNCHANGED <<rqQueues, rqStats, rqBus, rqPool>>

\* The scheduler's Cancel.
CancelScheduled(j) ==
  /\ j \in rqScheduled /\ rqScheduled' = rqScheduled \ {j}
  /\ UNCHANGED <<rqQueues, rqStats, rqBus, rqJob, rqPool>>

\* The jobs whose time has come are marked queued and forgotten.
processScheduledJobs(ready) ==
  /\ ready # {} /\ ready \subseteq rqScheduled /\ rqScheduled' = rqScheduled \ ready
  /\ rqJob' = [j \in Jobs |-> IF j \in ready THEN [rqJob[j] EXCEPT !.status = "queued"] ELSE rqJob[j]]
  /\ UNCHANGED <<rqQueues, rqStats, rqBus, rqPool>>

-----------------------------------------------------------------------------
(* Workers *)

StartWorker(n, i) ==
  /\ rqLock = "none" /\ rqListed[n] = 0 /\ rqLoop[i] = "none" /\ \A k \in 1 .. i - 1 : rqLoop[k] # "none"
  /\ rqListed' = [rqListed EXCEPT ![n] = i] /\ rqLoop' = [rqLoop EXCEPT ![i] = "starting"]
  /\ rqWorkers' = rqWorkers + 1
  /\ UNCHANGED <<rqQueues, rqStats, rqBus, rqScheduled, rqJob, rqCancelled, rqLock>>

\* The goroutine of StartWorker gets to run, maybe after the worker has been stopped.
WorkerStart(i) ==
  /\ rqLoop[i] = "starting" /\ rqLoop' = [rqLoop EXCEPT ![i] = "loop"]
  /\ UNCHANGED <<rqQueues, rqStats, rqBus, rqScheduled, rqJob, rqListed, rqCancelled, rqLock, rqWorkers>>

\* No job: the loop polls again until its context is cancelled.
workerLoop(i) ==
  /\ rqLoop[i] = "loop" /\ i \in rqCancelled /\ rqLoop' = [rqLoop EXCEPT ![i] = "ended"]
  /\ UNCHANGED <<rqQueues, rqStats, rqBus, rqScheduled, rqJob, rqListed, rqCancelled, rqLock, rqWorkers>>

\* Mutant: the context is not cancelled.
StopWorkerUncancelled(n) ==
  /\ rqLock = "none" /\ rqListed[n] # 0 /\ rqLock' = n
  /\ UNCHANGED <<rqQueues, rqStats, rqBus, rqScheduled, rqJob, rqListed, rqLoop, rqCancelled, rqWorkers>>

\* StopWorker takes r.mu and waits for the worker with it ...
StopWorker(n) ==
  /\ rqLock = "none" /\ rqListed[n] # 0 /\ rqLock' = n /\ rqCancelled' = rqCancelled \cup {rqListed[n]}
  /\ UNCHANGED <<rqQueues, rqStats, rqBus, rqScheduled, rqJob, rqListed, rqLoop, rqWorkers>>

\* ... until its goroutines are done or GracefulTimeout is over.
WorkerStop(n) ==
  /\ rqLock = n /\ rqLock' = "none" /\ rqListed' = [rqListed EXCEPT ![n] = 0] /\ rqWorkers' = rqWorkers - 1
  /\ UNCHANGED <<rqQueues, rqStats, rqBus, rqScheduled, rqJob, rqLoop, rqCancelled>>

\* The adapter's Stop stops every worker, one after the other with r.mu, and leaves
\* stats.Workers as it is.
StopAdapter ==
  /\ rqLock = "none" /\ \E n \in WorkerNames : rqListed[n] # 0
  /\ rqListed' = [n \in WorkerNames |-> 0] /\ rqCancelled' = rqCancelled \cup ({rqListed[n] : n \in WorkerNames} \ {0})
  /\ UNCHANGED <<rqQueues, rqStats, rqBus, rqScheduled, rqJob, rqLoop, rqLock, rqWorkers>>

RqNext ==
  \/ StopAdapter
  \/ \E q \in {"default", "other"} : CreateQueue(q) \/ DeleteQueue(q)
  \/ \E j \in Jobs : Enqueue(j) \/ updateQueueStats(j) \/ EnqueueAt(j) \/ CancelScheduled(j)
  \/ \E ready \in SUBSET Jobs : processScheduledJobs(ready)
  \/ \E n \in WorkerNames : StopWorker(n) \/ WorkerStop(n) \/ \E i \in 1 .. MaxWorkers : StartWorker(n, i)
  \/ \E i \in 1 .. MaxWorkers : WorkerStart(i) \/ workerLoop(i)

-----------------------------------------------------------------------------
(* Properties *)

\* A worker that is not listed has been told to end, also when StopWorker came before its
\* goroutine ran or gave up waiting, so a name never has two workers that poll on;
\* stats.Workers counts the listed ones, at least.  A job is with the scheduler or on the bus, never
\* both (StartWorker, StopWorker, workerLoop, processScheduledJobs).
WorkersStopped ==
  /\ \A i \in 1 .. MaxWorkers :
       rqLoop[i] \in {"starting", "loop"} => i \in rqCancelled \/ \E n \in WorkerNames : rqListed[n] = i
  /\ rqWorkers >= Cardinality({n \in WorkerNames : rqListed[n] # 0})
  /\ rqScheduled \cap rqBus = {} /\ \A j \in rqScheduled : rqJob[j].status = "scheduled"
=============================================================================
