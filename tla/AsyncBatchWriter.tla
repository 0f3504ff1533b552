-------------------------- MODULE AsyncBatchWriter --------------------------
(***************************************************************************)
(* The asynchronous batch writer (pkg/processor/async_batch_writer.go):    *)
(* shards collect batches, a goroutine per batch stores it and sends a     *)
(* confirmation, and processConfirmations counts the confirmations.        *)
(* A send on a closed channel panics, which ends the program.              *)
(***************************************************************************)
EXTENDS Integers, Sequences, FiniteSets

CONSTANTS AsyncShards, AsyncBatchSize,
          AsyncCapacity,  \* of a shard's input channel (2 * BatchSize in the code)
          ConfirmBuffer,  \* of confirmChan (10 for each shard in the code)
          AsyncMessages,  \* every message is written once
          asyncShardID,   \* getShardID, the hash of the message's topic
          AsyncMaxErrors  \* bound: batch writes that fail

ASSUME AsyncAssumption ==
  /\ AsyncShards \in Nat \ {0} /\ \A m \in AsyncMessages : asyncShardID[m] \in 0 .. AsyncShards - 1
  /\ IsFiniteSet(AsyncMessages)

Shards == 0 .. AsyncShards - 1

VARIABLES aRunning, aCancelled,
          input, currentBatch,    \* of each shard
          aPc,          \* shards: "off", "select" or "done"
          writers,      \* the goroutines of flushAsync: [batch, result], result "none" until stored
          confirmChan,  \* the results sent
          confirms,     \* processConfirmations: "off", "select" or "done"
          aStop,        \* Stop: "no", "closing", "waiting" or "returned"
          aClosed,      \* how many stopChans Stop has closed
          aWrite,       \* Write: "new", "send", "nil" or "error"
          metrics,      \* PendingBatches, TotalBatchesConfirmed, FailedBatches, TotalMessagesWritten
          aStored,      \* the messages in the storage
          aErrors,      \* batch writes that failed
          panicked

ctl == <<aRunning, aCancelled, aStop, aClosed>>
flow == <<input, currentBatch, aPc, aWrite>>
asyncVars == <<ctl, flow, writers, confirmChan, confirms, metrics, aStored, aErrors, panicked>>

AsyncInit ==
  /\ aRunning = FALSE /\ aCancelled = FALSE /\ aStop = "no" /\ aClosed = 0
  /\ input = [s \in Shards |-> <<>>] /\ currentBatch = input
  /\ aPc = [s \in Shards |-> "off"]
  /\ writers = {} /\ confirmChan = <<>> /\ confirms = "off"
  /\ aWrite = [m \in AsyncMessages |-> "new"]
  /\ metrics = [pending |-> 0, confirmed |-> 0, failed |-> 0, messages |-> 0]
  /\ aStored = {} /\ aErrors = 0 /\ panicked = FALSE

\* A writer is started once.
AsyncStart ==
  /\ ~panicked /\ ~aRunning /\ aStop = "no"
  /\ aRunning' = TRUE /\ confirms' = "select"
  /\ aPc' = [s \in Shards |-> "select"]
  /\ UNCHANGED <<aCancelled, aStop, aClosed, input, currentBatch, aWrite, writers, confirmChan,
                 metrics, aStored, aErrors, panicked>>

AsyncCancel ==
  /\ ~panicked /\ ~aCancelled /\ aCancelled' = TRUE
  /\ UNCHANGED <<aRunning, aStop, aClosed, flow, writers, confirmChan, confirms, metrics, aStored, aErrors, panicked>>

-----------------------------------------------------------------------------
(* Write and the shards *)

WriteCheck(m) ==
  /\ ~panicked /\ aWrite[m] = "new"
  /\ aWrite' = [aWrite EXCEPT ![m] = IF aRunning THEN "send" ELSE "error"]
  /\ UNCHANGED <<ctl, input, currentBatch, aPc, writers, confirmChan, confirms,
                 metrics, aStored, aErrors, panicked>>

\* Mutant of WriteSend: Write counts the full queue and returns.
WriteSendDrop(m) ==
  LET s == asyncShardID[m] IN
  /\ ~panicked /\ aWrite[m] = "send"
  /\ input' = IF Len(input[s]) < AsyncCapacity THEN [input EXCEPT ![s] = Append(@, m)] ELSE input
  /\ aWrite' = [aWrite EXCEPT ![m] = "nil"]
  /\ UNCHANGED <<ctl, currentBatch, aPc, writers, confirmChan, confirms,
                 metrics, aStored, aErrors, panicked>>

\* Write blocks when the shard's channel is full.
WriteSend(m) ==
  LET s == asyncShardID[m] IN
  /\ ~panicked /\ aWrite[m] = "send" /\ Len(input[s]) < AsyncCapacity
  /\ input' = [input EXCEPT ![s] = Append(@, m)]
  /\ aWrite' = [aWrite EXCEPT ![m] = "nil"]
  /\ UNCHANGED <<ctl, currentBatch, aPc, writers, confirmChan, confirms,
                 metrics, aStored, aErrors, panicked>>

\* Mutant of flushAsync: the batch is not replaced before the goroutine starts.
flushAsyncShared(s, batch) ==
  IF batch = <<>>
  THEN UNCHANGED <<writers, metrics, currentBatch>>
  ELSE /\ writers' = writers \cup {[batch |-> batch, result |-> "none"]}
       /\ metrics' = [metrics EXCEPT !.pending = @ + 1]
       /\ currentBatch' = [currentBatch EXCEPT ![s] = batch]

\* Start a goroutine for the batch and a new batch.
flushAsync(s, batch) ==
  IF batch = <<>>
  THEN UNCHANGED <<writers, metrics, currentBatch>>
  ELSE /\ writers' = writers \cup {[batch |-> batch, result |-> "none"]}
       /\ metrics' = [metrics EXCEPT !.pending = @ + 1]
       /\ currentBatch' = [currentBatch EXCEPT ![s] = <<>>]

Receive(s) ==
  /\ ~panicked /\ aPc[s] = "select" /\ input[s] # <<>>
  /\ input' = [input EXCEPT ![s] = Tail(@)]
  /\ LET batch == Append(currentBatch[s], Head(input[s])) IN
       \/ Len(batch) >= AsyncBatchSize /\ flushAsync(s, batch)
       \/ /\ Len(batch) < AsyncBatchSize
          /\ currentBatch' = [currentBatch EXCEPT ![s] = batch]
          /\ UNCHANGED <<writers, metrics>>
  /\ UNCHANGED <<ctl, aPc, aWrite, confirmChan, confirms, aStored, aErrors, panicked>>

AsyncTick(s) ==
  /\ ~panicked /\ aPc[s] = "select" /\ currentBatch[s] # <<>>
  /\ flushAsync(s, currentBatch[s])
  /\ UNCHANGED <<ctl, input, aPc, aWrite, confirmChan, confirms, aStored, aErrors, panicked>>

\* The case of stopChan, with its final flush.
StopCase(s) ==
  /\ ~panicked /\ aPc[s] = "select" /\ s < aClosed
  /\ flushAsync(s, currentBatch[s])
  /\ aPc' = [aPc EXCEPT ![s] = "done"]
  /\ UNCHANGED <<ctl, input, aWrite, confirmChan, confirms, aStored, aErrors, panicked>>

-----------------------------------------------------------------------------
(* The goroutines of flushAsync, and processConfirmations *)

StoreBatch(w) ==
  /\ ~panicked /\ w.result = "none"
  /\ \/ /\ aStored' = aStored \cup {w.batch[i] : i \in DOMAIN w.batch}
        /\ writers' = (writers \ {w}) \cup {[w EXCEPT !.result = "ok"]}
        /\ UNCHANGED aErrors
     \/ /\ aErrors < AsyncMaxErrors /\ aErrors' = aErrors + 1
        /\ writers' = (writers \ {w}) \cup {[w EXCEPT !.result = "failed"]}
        /\ UNCHANGED aStored
  /\ UNCHANGED <<ctl, flow, confirmChan, confirms, metrics, panicked>>

Open == aStop \in {"no", "closing"}

\* The send of the confirmation, which panics once Stop has closed the channel.
SendConfirm(w) ==
  /\ ~panicked /\ w.result # "none"
  /\ \/ /\ Open /\ Len(confirmChan) < ConfirmBuffer
        /\ confirmChan' = Append(confirmChan, [result |-> w.result, size |-> Len(w.batch)])
        /\ writers' = writers \ {w}
        /\ UNCHANGED panicked
     \/ /\ ~Open
        /\ panicked' = TRUE
        /\ UNCHANGED <<confirmChan, writers>>
  /\ UNCHANGED <<ctl, flow, confirms, metrics, aStored, aErrors>>

\* Mutant of Confirm: a failed batch stays pending.
ConfirmStored ==
  /\ ~panicked /\ confirms = "select" /\ confirmChan # <<>>
  /\ confirmChan' = Tail(confirmChan)
  /\ LET c == Head(confirmChan) IN
       metrics' = IF c.result = "ok"
                    THEN [metrics EXCEPT !.confirmed = @ + 1, !.messages = @ + c.size, !.pending = @ - 1]
                    ELSE [metrics EXCEPT !.failed = @ + 1]
  /\ UNCHANGED <<ctl, flow, writers, confirms, aStored, aErrors, panicked>>

Confirm ==
  /\ ~panicked /\ confirms = "select" /\ confirmChan # <<>>
  /\ confirmChan' = Tail(confirmChan)
  /\ LET c == Head(confirmChan) IN
       metrics' = IF c.result = "ok"
                    THEN [metrics EXCEPT !.confirmed = @ + 1, !.messages = @ + c.size, !.pending = @ - 1]
                    ELSE [metrics EXCEPT !.failed = @ + 1, !.pending = @ - 1]
  /\ UNCHANGED <<ctl, flow, writers, confirms, aStored, aErrors, panicked>>

ConfirmExit ==
  /\ ~panicked /\ confirms = "select"
  /\ aCancelled \/ (~Open /\ confirmChan = <<>>)
  /\ confirms' = "done"
  /\ UNCHANGED <<ctl, flow, writers, confirmChan, metrics, aStored, aErrors, panicked>>

-----------------------------------------------------------------------------
(* Stop *)

AsyncStop ==
  /\ ~panicked /\ aRunning
  /\ aRunning' = FALSE /\ aStop' = "closing"
  /\ UNCHANGED <<aCancelled, aClosed, flow, writers, confirmChan, confirms, metrics, aStored, aErrors, panicked>>

\* Close the next stopChan, and confirmChan after the last.
StopClose ==
  /\ ~panicked /\ aStop = "closing"
  /\ \/ aClosed < AsyncShards /\ aClosed' = aClosed + 1 /\ UNCHANGED aStop
     \/ aClosed = AsyncShards /\ aStop' = "waiting" /\ UNCHANGED aClosed
  /\ UNCHANGED <<aRunning, aCancelled, flow, writers, confirmChan, confirms, metrics, aStored, aErrors, panicked>>

StopWait ==
  /\ ~panicked /\ aStop = "waiting"
  /\ confirms = "done" /\ \A s \in Shards : aPc[s] = "done"
  /\ aStop' = "returned"
  /\ UNCHANGED <<aRunning, aCancelled, aClosed, flow, writers, confirmChan, confirms, metrics, aStored, aErrors, panicked>>

AsyncNext ==
  \/ AsyncStart \/ AsyncCancel \/ Confirm \/ ConfirmExit \/ AsyncStop \/ StopClose \/ StopWait
  \/ \E m \in AsyncMessages : WriteCheck(m) \/ WriteSend(m)
  \/ \E s \in Shards : Receive(s) \/ AsyncTick(s) \/ StopCase(s)
  \/ \E w \in writers : StoreBatch(w) \/ SendConfirm(w)

AsyncSpec == AsyncInit /\ [][AsyncNext]_asyncVars

\* Goroutines that can run do, and Go's select does not pass over a case that
\* stays ready.
AsyncFairness ==
  /\ WF_asyncVars(Confirm) /\ WF_asyncVars(\E w \in writers : StoreBatch(w) \/ SendConfirm(w))
  /\ \A s \in Shards : WF_asyncVars(Receive(s)) /\ WF_asyncVars(AsyncTick(s))
  /\ \A m \in AsyncMessages : WF_asyncVars(WriteSend(m))

-----------------------------------------------------------------------------
(* Properties *)

Elements(seq) == {seq[i] : i \in DOMAIN seq}

\* The metrics count every batch once: pending batches are with a goroutine or in
\* the channel, and the messages counted as written are in the storage
\* (flushAsync, processConfirmations).
MetricsExact ==
  /\ metrics.pending = Cardinality(writers) + Len(confirmChan)
  /\ metrics.messages <= Cardinality(aStored) /\ metrics.failed <= aErrors
  /\ metrics.pending = 0 => metrics.messages = Cardinality(aStored) /\ metrics.failed = aErrors

\* A message is in one place: a channel, a shard's batch, the batch of one
\* goroutine, or the storage, so it is stored at most once (run, flushAsync).
OnePlace ==
  /\ \A s \in Shards : Elements(input[s]) \cap Elements(currentBatch[s]) = {}
  /\ \A s \in Shards, w \in writers :
       Elements(w.batch) \cap (Elements(input[s]) \cup Elements(currentBatch[s])) = {}
  /\ \A v, w \in writers : v # w => Elements(v.batch) \cap Elements(w.batch) = {}

\* The metrics of the asynchronous writer count every batch once, and a message is in one
\* place, so that it is stored at most once (run, flushAsync, processConfirmations).
AsyncExact == MetricsExact /\ OnePlace

\* While the writer runs and the storage does not fail messages do not stay behind:
\* again and again every message that Write has taken so far is stored, those of a
\* Write that had to wait for room included (Write, run, flushAsync).
AsyncRunningStores ==
  []<>(aRunning /\ aErrors = 0 => \A m \in AsyncMessages : aWrite[m] \in {"send", "nil"} => m \in aStored)
=============================================================================
