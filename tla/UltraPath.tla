----------------------------- MODULE UltraPath -----------------------------
(***************************************************************************)
(* pkg/queue/ultra_performance.go, ultra_worker.go and processors.go: the  *)
(* ring whose fast path publishes a slot without claiming it, the bus that *)
(* deals batches from three such rings to its workers, and the processors  *)
(* that wrap one another.                                                  *)
(***************************************************************************)
EXTENDS Integers, SequencesExt, FiniteSets

CONSTANTS UltraThreads,   \* sets of threads, "p..." produce and "c..." consume; one set is at work
          UltraCapacity,
          MaxUltra,       \* bound: messages offered
          UltraWorkers,   \* number of workers of the bus
          WorkerChannel,  \* batches a worker's channel holds
          UltraBatch,     \* the batch size of the bus and of BatchMessageProcessor
          ProcMaxRetries

VARIABLES
  uqActive,   \* the threads at work
  uqEnq, uqDeq,      \* enqueuePos, dequeuePos
  uqSlot,     \* per index: [seq, data], data 0 for nil
  uqThread,   \* per thread: [pc, pos, msg]
  uqSent,     \* messages in the order their slots were published
  uqGot,      \* messages in the order BatchDequeue returned them
  uqMixed,    \* two producers, or two consumers, have been in the queue at once
  ubRunning, ubQueue,  \* the bus, and its queues by priority
  ubChannel,  \* per worker: its batches
  ubWorker,   \* workers that run
  ubIndex,    \* workerIndex
  ubDropped,  \* messages of batches no channel took
  ubCount, ubCrash,  \* messages published; the nil processor has been called
  pmBatch,    \* BatchMessageProcessor.batch
  pmCall,     \* RetryMessageProcessor: [msg, retry] of the call under way, msg 0 when none
  pmDone, pmFailed,  \* messages batchProcessor took, and those of batches it refused
  pmCount

uqVars == <<uqActive, uqEnq, uqDeq, uqSlot, uqThread, uqSent, uqGot, uqMixed>>
ubVars == <<ubRunning, ubQueue, ubChannel, ubWorker, ubIndex, ubDropped, ubCount, ubCrash>>
pmVars == <<pmBatch, pmCall, pmDone, pmFailed, pmCount>>

-----------------------------------------------------------------------------
(* UltraHighPerformanceQueue *)

Producers == {"p1", "p2"}
NewUltraHighPerformanceQueue ==
  /\ uqActive \in UltraThreads /\ uqEnq = 0 /\ uqDeq = 0
  /\ uqSlot = [i \in 0..(UltraCapacity - 1) |-> [seq |-> i, data |-> 0]]
  /\ uqThread = [t \in UNION UltraThreads |-> [pc |-> "idle", pos |-> 0, msg |-> 0]]
  /\ uqSent = <<>> /\ uqGot = <<>> /\ uqMixed = FALSE

Slot(t) == uqThread[t].pos % UltraCapacity
Step(t, pc) == uqThread' = [uqThread EXCEPT ![t].pc = pc]
Offered == Len(uqSent) + Cardinality({t \in Producers \cap uqActive : uqThread[t].pc # "idle"})

\* The position a thread works at, and the sequence number that makes its slot ready.
Position(t) == IF t \in Producers THEN uqEnq ELSE uqDeq
Ready(t) == IF t \in Producers THEN uqThread[t].pos ELSE uqThread[t].pos + 1

\* fastEnqueue or fastDequeue begins: the position is loaded.
Enter(t) ==
  /\ uqThread[t].pc = "idle" /\ (t \in Producers => Offered < MaxUltra)
  /\ uqThread' = [uqThread EXCEPT ![t] = [pc |-> "seq", pos |-> Position(t), msg |-> Offered + 1]]
  /\ uqMixed' = (uqMixed \/ \E s \in uqActive \ {t} :
                              (s \in Producers <=> t \in Producers) /\ uqThread[s].pc # "idle")
  /\ UNCHANGED <<uqActive, uqEnq, uqDeq, uqSlot, uqSent, uqGot>>

\* Mutant: a slot that is not free yet is taken.
ReadSeqUnchecked(t) ==
  /\ uqThread[t].pc = "seq"
  /\ IF t \in Producers THEN Step(t, "data")
     ELSE Step(t, IF uqSlot[Slot(t)].seq = Ready(t) THEN "data" ELSE "idle")
  /\ UNCHANGED <<uqActive, uqEnq, uqDeq, uqSlot, uqSent, uqGot, uqMixed>>

\* The slot's sequence number: ready, full (or empty), or another thread was faster.
ReadSeq(t) ==
  /\ uqThread[t].pc = "seq"
  /\ LET seq == uqSlot[Slot(t)].seq
     IN  Step(t, IF seq = Ready(t) THEN "data" ELSE IF seq < Ready(t) THEN "idle" ELSE "slow")
  /\ UNCHANGED <<uqActive, uqEnq, uqDeq, uqSlot, uqSent, uqGot, uqMixed>>

\* The data moves, on the fast path ("data") or after a successful swap ("won").
MoveData(t) ==
  /\ uqThread[t].pc \in {"data", "won"}
  /\ uqThread' = [uqThread EXCEPT ![t].pc = IF @ = "data" THEN "publish" ELSE "publishWon",
                                  ![t].msg = IF t \in Producers THEN @ ELSE uqSlot[Slot(t)].data]
  /\ uqSlot' = IF t \in Producers THEN [uqSlot EXCEPT ![Slot(t)].data = uqThread[t].msg] ELSE uqSlot
  /\ UNCHANGED <<uqActive, uqEnq, uqDeq, uqSent, uqGot, uqMixed>>

\* The slot's new sequence number.
PublishSlot(t) ==
  /\ uqThread[t].pc \in {"publish", "publishWon"} /\ Step(t, IF uqThread[t].pc = "publish" THEN "add" ELSE "idle")
  /\ uqSlot' = [uqSlot EXCEPT ![Slot(t)].seq =
                  IF t \in Producers THEN uqThread[t].pos + 1 ELSE uqThread[t].pos + UltraCapacity]
  /\ uqSent' = IF t \in Producers THEN Append(uqSent, uqThread[t].msg) ELSE uqSent
  /\ uqGot' = IF t \in Producers THEN uqGot ELSE Append(uqGot, uqThread[t].msg)
  /\ UNCHANGED <<uqActive, uqEnq, uqDeq, uqMixed>>

\* atomic.AddUint64, the end of the fast path.
AddPosition(t) ==
  /\ uqThread[t].pc = "add" /\ Step(t, "idle")
  /\ uqEnq' = uqEnq + (IF t \in Producers THEN 1 ELSE 0)
  /\ uqDeq' = uqDeq + (IF t \in Producers THEN 0 ELSE 1)
  /\ UNCHANGED <<uqActive, uqSlot, uqSent, uqGot, uqMixed>>

\* The slow path: the position again, the sequence number, and a compare-and-swap.
SlowLoad(t) ==
  /\ uqThread[t].pc = "slow" /\ uqThread' = [uqThread EXCEPT ![t].pc = "slowSeq", ![t].pos = Position(t)]
  /\ UNCHANGED <<uqActive, uqEnq, uqDeq, uqSlot, uqSent, uqGot, uqMixed>>

SlowSeq(t) ==
  /\ uqThread[t].pc = "slowSeq"
  /\ LET seq == uqSlot[Slot(t)].seq
     IN  Step(t, IF seq = Ready(t) THEN "swap" ELSE IF seq < Ready(t) THEN "idle" ELSE "slow")
  /\ UNCHANGED <<uqActive, uqEnq, uqDeq, uqSlot, uqSent, uqGot, uqMixed>>

SlowSwap(t) ==
  /\ uqThread[t].pc = "swap"
  /\ IF uqThread[t].pos = Position(t)
     THEN /\ Step(t, "won")
          /\ uqEnq' = uqEnq + (IF t \in Producers THEN 1 ELSE 0)
          /\ uqDeq' = uqDeq + (IF t \in Producers THEN 0 ELSE 1)
     ELSE Step(t, "slow") /\ UNCHANGED <<uqEnq, uqDeq>>
  /\ UNCHANGED <<uqActive, uqSlot, uqSent, uqGot, uqMixed>>

UltraQueueNext ==
  \E t \in uqActive : \/ Enter(t) \/ ReadSeq(t) \/ MoveData(t) \/ PublishSlot(t) \/ AddPosition(t)
                      \/ SlowLoad(t) \/ SlowSeq(t) \/ SlowSwap(t)

\* While producers do not overlap one another, nor consumers, the messages come out in
\* the order they went in, none lost, none twice (fastEnqueue, fastDequeue).
UltraFifo == ~uqMixed => IsPrefix(uqGot, uqSent)

-----------------------------------------------------------------------------
(* UltraMessageBus *)

Priorities == {"high", "normal", "low"}

NewUltraMessageBus ==
  /\ ubRunning = FALSE /\ ubQueue = [q \in Priorities |-> <<>>] /\ ubChannel = [w \in 1..UltraWorkers |-> <<>>]
  /\ ubWorker = {} /\ ubIndex = 1 /\ ubDropped = {} /\ ubCount = 0 /\ ubCrash = FALSE

StartUltra ==
  /\ ~ubCrash /\ ~ubRunning /\ ubRunning' = TRUE /\ ubWorker' = 1..UltraWorkers /\ ubIndex' = 1
  /\ UNCHANGED <<ubQueue, ubChannel, ubDropped, ubCount, ubCrash>>

\* UltraPublish; the queues are large, a full one refuses the message.
UltraPublish ==
  /\ ~ubCrash /\ ubRunning /\ ubCount < MaxUltra /\ ubCount' = ubCount + 1
  /\ \E q \in Priorities : ubQueue' = [ubQueue EXCEPT ![q] = Append(@, ubCount + 1)]
  /\ UNCHANGED <<ubRunning, ubChannel, ubWorker, ubIndex, ubDropped, ubCrash>>

Next1(i) == (i % UltraWorkers) + 1
FirstQueue == IF ubQueue["high"] # <<>> THEN "high" ELSE IF ubQueue["normal"] # <<>> THEN "normal" ELSE "low"
HasRoom(w) == Len(ubChannel[w]) < WorkerChannel

\* The worker a batch of queue q goes to, or 0: the worker of this round, and for the high
\* priority the one after the next when that one's channel is full.
Dealt(q) ==
  IF HasRoom(ubIndex) THEN ubIndex
  ELSE IF q = "high" /\ HasRoom(Next1(Next1(ubIndex))) THEN Next1(Next1(ubIndex)) ELSE 0

\* Mutant: a batch that no channel took stays in its queue as well.
CoordinateKeeps ==
  /\ ~ubCrash /\ ubRunning /\ ubIndex' = Next1(ubIndex)
  /\ LET q == FirstQueue
         n == IF Len(ubQueue[q]) < UltraBatch THEN Len(ubQueue[q]) ELSE UltraBatch
         batch == SubSeq(ubQueue[q], 1, n)
     IN  IF Dealt(q) # 0
         THEN /\ ubChannel' = IF n = 0 THEN ubChannel ELSE [ubChannel EXCEPT ![Dealt(q)] = Append(@, batch)]
              /\ ubQueue' = [ubQueue EXCEPT ![q] = SubSeq(@, n + 1, Len(@))] /\ UNCHANGED ubDropped
         ELSE ubDropped' = ubDropped \cup ToSet(batch) /\ UNCHANGED <<ubChannel, ubQueue>>
  /\ UNCHANGED <<ubRunning, ubWorker, ubCount, ubCrash>>

\* One tick of batchCoordinator: a batch of the first queue that has messages, dealt to a
\* worker or dropped; a tick that finds none passes on to the next worker too.
batchCoordinator ==
  /\ ~ubCrash /\ ubRunning /\ ubIndex' = Next1(ubIndex)
  /\ LET q == FirstQueue
         n == IF Len(ubQueue[q]) < UltraBatch THEN Len(ubQueue[q]) ELSE UltraBatch
         batch == SubSeq(ubQueue[q], 1, n)
     IN  /\ ubQueue' = [ubQueue EXCEPT ![q] = SubSeq(@, n + 1, Len(@))]
         /\ \/ n = 0 /\ UNCHANGED <<ubChannel, ubDropped>>
            \/ /\ n > 0 /\ Dealt(q) # 0 /\ ubChannel' = [ubChannel EXCEPT ![Dealt(q)] = Append(@, batch)]
               /\ UNCHANGED ubDropped
            \/ n > 0 /\ Dealt(q) = 0 /\ ubDropped' = ubDropped \cup ToSet(batch) /\ UNCHANGED ubChannel
  /\ UNCHANGED <<ubRunning, ubWorker, ubCount, ubCrash>>

\* ultraRun: a batch, whose first message goes to the processor no constructor sets.
ultraRun(w) ==
  /\ ~ubCrash /\ w \in ubWorker /\ ubChannel[w] # <<>> /\ ubCrash' = TRUE
  /\ UNCHANGED <<ubRunning, ubQueue, ubChannel, ubWorker, ubIndex, ubDropped, ubCount>>

\* Stop: the workers end one after the other; what is in queues and channels stays there.
StopUltra ==
  /\ ~ubCrash /\ ubRunning /\ ubRunning' = FALSE /\ ubWorker' = {}
  /\ UNCHANGED <<ubQueue, ubChannel, ubIndex, ubDropped, ubCount, ubCrash>>

UltraBusNext ==
  StartUltra \/ UltraPublish \/ batchCoordinator \/ StopUltra \/ \E w \in 1..UltraWorkers : ultraRun(w)

\* An accepted message is in one place, its queue, one worker's channel or a batch that was
\* dropped, also across Stop and another Start (UltraPublish, batchCoordinator).
UltraOnePlace ==
  LET queued  == UNION {ToSet(ubQueue[q]) : q \in Priorities}
      channel(w) == UNION {ToSet(b) : b \in ToSet(ubChannel[w])}
  IN  /\ 1..ubCount = queued \cup ubDropped \cup UNION {channel(w) : w \in 1..UltraWorkers}
      /\ queued \cap ubDropped = {}
      /\ \A w \in 1..UltraWorkers :
           /\ channel(w) \cap (queued \cup ubDropped) = {}
           /\ \A v \in 1..UltraWorkers : v # w => channel(v) \cap channel(w) = {}

-----------------------------------------------------------------------------
(* RetryMessageProcessor around BatchMessageProcessor *)

NewProcessors ==
  pmBatch = <<>> /\ pmCall = [msg |-> 0, retry |-> 0] /\ pmDone = <<>> /\ pmFailed = {} /\ pmCount = 0

\* Mutant: a batch that failed is kept and added to.
FlushReset(batch, ok) == IF ok THEN <<>> ELSE batch

\* What flush leaves of the batch: nothing, also when batchProcessor fails.
FlushLeaves(batch, ok) == <<>>

\* The next message enters the retry loop.
ProcessMessage ==
  /\ pmCall.msg = 0 /\ pmCount < MaxUltra /\ pmCount' = pmCount + 1
  /\ pmCall' = [msg |-> pmCount + 1, retry |-> 0] /\ UNCHANGED <<pmBatch, pmDone, pmFailed>>

\* One attempt: the message joins the batch, which is flushed when it is full or old.  A
\* failed flush makes the loop try the message again, alone.
Attempt ==
  /\ pmCall.msg # 0
  /\ LET batch == Append(pmBatch, pmCall.msg)
     IN  \/ /\ Len(batch) < UltraBatch /\ pmBatch' = batch /\ pmCall' = [msg |-> 0, retry |-> 0]
            /\ UNCHANGED <<pmDone, pmFailed>>
         \/ /\ pmDone' = pmDone \o batch /\ pmBatch' = FlushLeaves(batch, TRUE)
            /\ pmCall' = [msg |-> 0, retry |-> 0] /\ UNCHANGED pmFailed
         \/ /\ pmFailed' = pmFailed \cup ToSet(batch) /\ pmBatch' = FlushLeaves(batch, FALSE)
            /\ pmCall' = IF pmCall.retry < ProcMaxRetries THEN [pmCall EXCEPT !.retry = @ + 1]
                         ELSE [msg |-> 0, retry |-> 0]
            /\ UNCHANGED pmDone
  /\ UNCHANGED pmCount

\* Flush by hand.
Flush ==
  /\ pmBatch # <<>> /\ pmCall.msg = 0
  /\ \/ pmDone' = pmDone \o pmBatch /\ UNCHANGED pmFailed
     \/ pmFailed' = pmFailed \cup ToSet(pmBatch) /\ UNCHANGED pmDone
  /\ pmBatch' = <<>> /\ UNCHANGED <<pmCall, pmCount>>

ProcessorsNext == ProcessMessage \/ Attempt \/ Flush

\* A message reaches batchProcessor's successful calls at most once and never waits in the
\* batch again after that; one that is in neither was in a batch that failed or is being tried.
RetriedOnce ==
  /\ IsInjective(pmDone \o pmBatch)
  /\ \A m \in 1..pmCount : m \in ToSet(pmDone \o pmBatch) \cup pmFailed \cup {pmCall.msg}
=============================================================================
