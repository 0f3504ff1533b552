----------------------------- MODULE MessageBus -----------------------------
(***************************************************************************)
(* The message bus and its worker pool (pkg/queue/lockfree.go, MessageBus, *)
(* WorkerPool and Worker): publishers, workers and the owner that starts   *)
(* and stops the bus.                                                      *)
(*                                                                         *)
(* A queue is a first-in first-out queue.  A priority queue turns messages *)
(* away when it is full, which is what the ring of LockFreeQueue           *)
(* implements when it drops none of its oldest (LockFreeQueueProofs).      *)
(* What a full DropOldest ring does is the subject of LockFreeQueue; the   *)
(* topic queues, which have 1000 slots and that policy, are never full     *)
(* here.                                                                   *)
(*                                                                         *)
(* topicMutex is held for reading by a worker that visits topic queues and *)
(* by a publisher that counts, and for writing by one that creates a queue.*)
(* The owner does not call Start and Stop concurrently.  The notify        *)
(* channels are left out: no worker is ever in mb.workers, and a worker    *)
(* that is not notified polls.                                             *)
(***************************************************************************)
EXTENDS Integers, Sequences, FiniteSets

CONSTANTS Messages,     \* every message is published once
          Routes,       \* the ways to publish them: to a priority or a topic each
          Topics, Workers, None,
          Capacity,     \* of a priority queue
          HighBatch, NormalBatch, LowBatch, TopicBatch,  \* 50, 100, 25 and 50
          MaxBatches,   \* batches in one go (100)
          MaxStarts     \* bound: calls of Start

Priorities == {"high", "normal", "low"}

ASSUME BusAssumption ==
  /\ Routes \subseteq [Messages -> Priorities \cup Topics]
  /\ None \notin Messages \cup Priorities \cup Topics /\ Topics \cap Priorities = {}
  /\ IsFiniteSet(Topics)
  /\ {Capacity, HighBatch, NormalBatch, LowBatch, TopicBatch, MaxBatches} \subseteq Nat \ {0}

\* A topic queue is named after the message whose publisher created it.
Ids == (Priorities \X {None}) \cup (Topics \X Messages)
NoQueue == <<None, None>>

VARIABLES route,        \* where each message is published, chosen at the start
          running, cancelled,
          owner,        \* the owner of the bus: "idle" or "stopping"
          starts,
          queue,        \* the contents of every queue
          topicQueues,  \* the queue the map holds for each topic, or NoQueue
          pub, target,  \* publishers: next step, and the queue they use
          pc,           \* workers: "off", "select", "batch", "process" or "done"
          at,           \* workers: the queue they take from
          left,         \* workers: topic queues still to visit
          count, any,   \* workers: messages taken from it, batchProcessed
          batches, item,
          since,        \* workers: messages taken since they last left the low queue
          processed     \* history: times each message was processed

bus == <<route, running, cancelled, owner, starts>>
publisher == <<pub, target, topicQueues>>
worker == <<pc, at, left, count, any, batches, item, since, processed>>
vars == <<bus, queue, publisher, worker>>

Init ==
  /\ route \in Routes
  /\ running = FALSE /\ cancelled = FALSE /\ owner = "idle" /\ starts = 0
  /\ queue = [q \in Ids |-> <<>>]
  /\ topicQueues = [t \in Topics |-> NoQueue]
  /\ pub = [m \in Messages |-> "new"] /\ target = [m \in Messages |-> NoQueue]
  /\ pc = [w \in Workers |-> "off"] /\ at = [w \in Workers |-> NoQueue]
  /\ left = [w \in Workers |-> {}] /\ any = [w \in Workers |-> FALSE]
  /\ count = [w \in Workers |-> 0] /\ batches = count /\ since = count
  /\ item = [w \in Workers |-> None]
  /\ processed = [m \in Messages |-> 0]

-----------------------------------------------------------------------------
(* The owner *)

\* A second Start uses the context that Stop has cancelled.
Start ==
  /\ ~running /\ owner = "idle" /\ starts < MaxStarts
  /\ running' = TRUE /\ starts' = starts + 1
  /\ pc' = [w \in Workers |-> "select"]
  /\ UNCHANGED <<route, cancelled, owner, queue, publisher, at, left, count, any, batches, item, since, processed>>

\* Mutant of Stop: the context is not cancelled.
StopUncancelled ==
  /\ running /\ owner = "idle"
  /\ running' = FALSE /\ owner' = "stopping"
  /\ UNCHANGED <<route, cancelled, starts, queue, publisher, worker>>

Stop ==
  /\ running /\ owner = "idle"
  /\ running' = FALSE /\ cancelled' = TRUE /\ owner' = "stopping"
  /\ UNCHANGED <<route, starts, queue, publisher, worker>>

StopWait ==
  /\ owner = "stopping" /\ \A w \in Workers : pc[w] = "done"
  /\ owner' = "idle"
  /\ UNCHANGED <<route, running, cancelled, starts, queue, publisher, worker>>

-----------------------------------------------------------------------------
(* Publish, PublishToPriority and PublishToTopic *)

Step(m, label) == pub' = [pub EXCEPT ![m] = label]

PublishCheck(m) ==
  /\ pub[m] = "new"
  /\ \/ ~running /\ Step(m, "error") /\ UNCHANGED target
     \/ running /\ route[m] \in Topics /\ Step(m, "lookup") /\ UNCHANGED target
     \/ /\ running /\ route[m] \in Priorities /\ Step(m, "enqueue")
        /\ target' = [target EXCEPT ![m] = <<route[m], None>>]
  /\ UNCHANGED <<bus, queue, topicQueues, worker>>

\* The lookup under the read lock.
Lookup(m) ==
  /\ pub[m] = "lookup"
  /\ Step(m, IF topicQueues[route[m]] = NoQueue THEN "create" ELSE "count")
  /\ target' = [target EXCEPT ![m] = topicQueues[route[m]]]
  /\ UNCHANGED <<bus, queue, topicQueues, worker>>

Reading == {m \in Messages : pub[m] = "counting"} # {} \/ \E w \in Workers : left[w] # {}

\* Mutant of Create: the map is not looked at again.
CreateUnchecked(m) ==
  /\ pub[m] = "create" /\ ~Reading
  /\ topicQueues' = [topicQueues EXCEPT ![route[m]] = <<route[m], m>>]
  /\ target' = [target EXCEPT ![m] = topicQueues'[route[m]]]
  /\ Step(m, "count")
  /\ UNCHANGED <<bus, queue, worker>>

\* The second look and the creation under the write lock.
Create(m) ==
  /\ pub[m] = "create" /\ ~Reading
  /\ topicQueues' = [topicQueues EXCEPT ![route[m]] = IF @ = NoQueue THEN <<route[m], m>> ELSE @]
  /\ target' = [target EXCEPT ![m] = topicQueues'[route[m]]]
  /\ Step(m, "count")
  /\ UNCHANGED <<bus, queue, worker>>

\* The update of TopicStats, under the read lock.
CountBegin(m) ==
  /\ pub[m] = "count" /\ Step(m, "counting")
  /\ UNCHANGED <<bus, queue, target, topicQueues, worker>>
CountEnd(m) ==
  /\ pub[m] = "counting" /\ Step(m, "enqueue")
  /\ UNCHANGED <<bus, queue, target, topicQueues, worker>>

Full(q) == q[1] \in Priorities /\ Len(queue[q]) >= Capacity

Enqueue(m) ==
  /\ pub[m] = "enqueue"
  /\ \/ /\ ~Full(target[m])
        /\ queue' = [queue EXCEPT ![target[m]] = Append(@, m)]
        /\ Step(m, "nil")
     \/ /\ Full(target[m])
        /\ Step(m, "error")
        /\ UNCHANGED queue
  /\ UNCHANGED <<bus, target, topicQueues, worker>>

-----------------------------------------------------------------------------
(* Worker.run and megaProcessAllAvailableMessages *)

Quit(w) ==
  /\ pc[w] = "select" /\ cancelled
  /\ pc' = [pc EXCEPT ![w] = "done"]
  /\ UNCHANGED <<bus, queue, publisher, at, left, count, any, batches, item, since, processed>>

Wake(w) ==
  /\ pc[w] = "select" /\ ~cancelled
  /\ pc' = [pc EXCEPT ![w] = "batch"]
  /\ at' = [at EXCEPT ![w] = <<"high", None>>]
  /\ count' = [count EXCEPT ![w] = 0] /\ any' = [any EXCEPT ![w] = FALSE]
  /\ batches' = [batches EXCEPT ![w] = 0]
  /\ UNCHANGED <<bus, queue, publisher, left, item, since, processed>>

Limit(q) ==
  CASE q[1] = "high" -> HighBatch [] q[1] = "normal" -> NormalBatch
    [] q[1] = "low" -> LowBatch [] OTHER -> TopicBatch

\* Mutant of More: the limit of the batch is not looked at.
MoreUnlimited(w) == at[w] # NoQueue /\ queue[at[w]] # <<>>

More(w) == at[w] # NoQueue /\ queue[at[w]] # <<>> /\ count[w] < Limit(at[w])

Dequeue(w) ==
  /\ pc[w] = "batch" /\ More(w)
  /\ item' = [item EXCEPT ![w] = Head(queue[at[w]])]
  /\ queue' = [queue EXCEPT ![at[w]] = Tail(@)]
  /\ count' = [count EXCEPT ![w] = @ + 1] /\ any' = [any EXCEPT ![w] = TRUE]
  /\ since' = [since EXCEPT ![w] = IF at[w][1] = "low" THEN @ ELSE @ + 1]
  /\ pc' = [pc EXCEPT ![w] = "process"]
  /\ UNCHANGED <<bus, publisher, at, left, batches, processed>>

\* processFromQueue after the dequeue; an error is counted and the message is done.
Process(w) ==
  /\ pc[w] = "process"
  /\ processed' = [processed EXCEPT ![item[w]] = @ + 1]
  /\ item' = [item EXCEPT ![w] = None]
  /\ pc' = [pc EXCEPT ![w] = "batch"]
  /\ UNCHANGED <<bus, queue, publisher, at, left, count, any, batches, since>>

\* The batch ends: the next one, or back to the select.
EndBatch(w) ==
  /\ at' = [at EXCEPT ![w] = <<"high", None>>]
  /\ batches' = [batches EXCEPT ![w] = @ + 1]
  /\ any' = [any EXCEPT ![w] = FALSE]
  /\ pc' = [pc EXCEPT ![w] = IF any[w] /\ batches'[w] < MaxBatches THEN "batch" ELSE "select"]

\* The next queue of the batch: from low to the topic queues under the read lock.
NextQueue(w) ==
  /\ pc[w] = "batch" /\ ~More(w)
  /\ count' = [count EXCEPT ![w] = 0]
  /\ since' = [since EXCEPT ![w] = IF at[w][1] = "low" THEN 0 ELSE @]
  /\ \/ /\ at[w][1] \in {"high", "normal"}
        /\ at' = [at EXCEPT ![w] = <<IF @[1] = "high" THEN "normal" ELSE "low", None>>]
        /\ UNCHANGED <<left, any, batches, pc>>
     \/ /\ at[w][1] \notin {"high", "normal"}
        /\ left' = [left EXCEPT ![w] = IF at[w][1] = "low" THEN {topicQueues[t] : t \in Topics} \ {NoQueue}
                                                           ELSE @ \ {at[w]}]
        /\ \/ /\ left'[w] = {} /\ EndBatch(w)
           \/ /\ at' \in {[at EXCEPT ![w] = q] : q \in left'[w]}
              /\ UNCHANGED <<any, batches, pc>>
  /\ UNCHANGED <<bus, queue, publisher, item, processed>>

Next ==
  \/ Start \/ Stop \/ StopWait
  \/ \E m \in Messages :
       PublishCheck(m) \/ Lookup(m) \/ Create(m) \/ CountBegin(m) \/ CountEnd(m) \/ Enqueue(m)
  \/ \E w \in Workers : Quit(w) \/ Wake(w) \/ Dequeue(w) \/ Process(w) \/ NextQueue(w)

Spec == Init /\ [][Next]_vars

\* Goroutines that can run do; a waiting writer of an RWMutex keeps new readers
\* out, so it gets the lock.
Fairness ==
  /\ WF_vars(StopWait)
  /\ \A m \in Messages : SF_vars(Create(m)) /\ WF_vars(CountEnd(m))
  /\ \A w \in Workers : WF_vars(Quit(w) \/ Wake(w) \/ Dequeue(w) \/ Process(w) \/ NextQueue(w))
FairSpec == Spec /\ Fairness

-----------------------------------------------------------------------------
(* Properties *)

Queued(q) == {queue[q][i] : i \in DOMAIN queue[q]}

\* A message the bus accepted is processed once, is with one worker, or is in one
\* queue, and that queue is one the workers visit: two publishers of a new topic
\* never end up with two queues (getOrCreateTopicQueue, processFromQueue).
AcceptedReachable ==
  \A m \in Messages : pub[m] = "nil" =>
    LET queues == {q \in Ids : m \in Queued(q)}
    IN  /\ processed[m] + Cardinality({w \in Workers : item[w] = m}) + Cardinality(queues) = 1
        /\ \A q \in queues : q[1] \in Priorities \/ topicQueues[q[1]] = q

\* Low priority messages are not starved: between two visits of the low queue a
\* worker takes at most one batch of each other queue (megaProcessAllAvailableMessages).
LowVisited ==
  \A w \in Workers : since[w] <= HighBatch + NormalBatch
                                + Cardinality({t \in Topics : topicQueues[t] # NoQueue}) * TopicBatch

\* On a bus that keeps running accepted messages do not stay in the queues: again
\* and again every message accepted so far is processed (Worker.run).
RunningProcesses ==
  []<>(running => \A m \in Messages : pub[m] = "nil" => processed[m] > 0)

\* Stop returns: a worker leaves its batches and sees the cancelled context.
StopReturns == (owner = "stopping") ~> (owner = "idle")

=============================================================================
