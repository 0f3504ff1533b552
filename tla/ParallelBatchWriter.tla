------------------------- MODULE ParallelBatchWriter -------------------------
(***************************************************************************)
(* The sharded batch writer (pkg/processor/parallel_batch_writer.go): the  *)
(* callers of Write, one goroutine per shard, the caller of Stop and the   *)
(* storage, whose StoreBatch may fail with a part of the batch stored.     *)
(***************************************************************************)
EXTENDS Integers, Sequences, FiniteSets

CONSTANTS NumShards, BatchSize, MaxRetries,
          Capacity,     \* of a shard's bufferChan (2 * BatchSize in the code)
          Messages,     \* every message is written once
          getShardID,   \* the hash of the message's topic
          MaxErrors     \* bound: StoreBatch calls that fail

Shards == 0 .. NumShards - 1

VARIABLES running, cancelled,
          bufferChan, buffer, attempt,  \* of each shard
          pc,           \* shards: "off", "select", "flush", "final" (the flush of stopCh) or "done"
          closed,       \* how many stopCh Stop has closed
          stop,         \* Stop: "no", "closing", "waiting" or "returned"
          write,        \* Write: "new", "first", "next", "nil" or "error"
          log, stored,  \* of each shard: messages accepted, and what the storage was given
          errors        \* failed calls of StoreBatch

shard == <<buffer, attempt, pc, stored, errors>>
ctl == <<running, cancelled, closed, stop>>
vars == <<ctl, shard, bufferChan, write, log>>

Init ==
  /\ running = FALSE /\ cancelled = FALSE
  /\ closed = 0 /\ stop = "no" /\ errors = 0
  /\ bufferChan = [s \in Shards |-> <<>>] /\ buffer = bufferChan
  /\ log = bufferChan /\ stored = bufferChan
  /\ attempt = [s \in Shards |-> 0]
  /\ pc = [s \in Shards |-> "off"]
  /\ write = [m \in Messages |-> "new"]

\* A writer is started once.
Start ==
  /\ ~running /\ stop = "no"
  /\ running' = TRUE
  /\ pc' = [s \in Shards |-> "select"]
  /\ UNCHANGED <<cancelled, closed, stop, buffer, attempt, stored, errors, bufferChan, write, log>>

Cancel ==
  /\ ~cancelled /\ cancelled' = TRUE
  /\ UNCHANGED <<running, closed, stop, shard, bufferChan, write, log>>

-----------------------------------------------------------------------------
(* Write *)

WriteCheck(m) ==
  /\ write[m] = "new"
  /\ write' = [write EXCEPT ![m] = IF running THEN "first" ELSE "error"]
  /\ UNCHANGED <<ctl, shard, bufferChan, log>>

\* The non-blocking send to the shard of the topic, or to the next one.
WriteSend(m) ==
  /\ write[m] \in {"first", "next"}
  /\ LET s == IF write[m] = "first" THEN getShardID[m] ELSE (getShardID[m] + 1) % NumShards
     IN  \/ /\ Len(bufferChan[s]) < Capacity
            /\ bufferChan' = [bufferChan EXCEPT ![s] = Append(@, m)]
            /\ log' = [log EXCEPT ![s] = Append(@, m)]
            /\ write' = [write EXCEPT ![m] = "nil"]
         \/ /\ Len(bufferChan[s]) >= Capacity
            /\ write' = [write EXCEPT ![m] = IF @ = "first" THEN "next" ELSE "error"]
            /\ UNCHANGED <<bufferChan, log>>
  /\ UNCHANGED <<ctl, shard>>

-----------------------------------------------------------------------------
(* runShard: the cases of its select, and flushShard *)

Receive(s) ==
  /\ pc[s] = "select" /\ bufferChan[s] # <<>>
  /\ buffer' = [buffer EXCEPT ![s] = Append(@, Head(bufferChan[s]))]
  /\ bufferChan' = [bufferChan EXCEPT ![s] = Tail(@)]
  /\ pc' = [pc EXCEPT ![s] = IF Len(buffer'[s]) >= BatchSize THEN "flush" ELSE @]
  /\ UNCHANGED <<ctl, attempt, stored, errors, write, log>>

Tick(s) ==
  /\ pc[s] = "select" /\ buffer[s] # <<>>
  /\ pc' = [pc EXCEPT ![s] = "flush"]
  /\ UNCHANGED <<ctl, buffer, attempt, stored, errors, bufferChan, write, log>>

\* Mutant of StopCase: the shard stops without its final flush.
StopCaseUnflushed(s) ==
  /\ pc[s] = "select" /\ s < closed
  /\ pc' = [pc EXCEPT ![s] = "done"]
  /\ UNCHANGED <<ctl, buffer, attempt, stored, errors, bufferChan, write, log>>

StopCase(s) ==
  /\ pc[s] = "select" /\ s < closed
  /\ pc' = [pc EXCEPT ![s] = IF buffer[s] # <<>> THEN "final" ELSE "done"]
  /\ UNCHANGED <<ctl, buffer, attempt, stored, errors, bufferChan, write, log>>

CancelCase(s) ==
  /\ pc[s] = "select" /\ cancelled
  /\ pc' = [pc EXCEPT ![s] = "done"]
  /\ UNCHANGED <<ctl, buffer, attempt, stored, errors, bufferChan, write, log>>

\* flushShard returns to the case that called it.
Return(s) ==
  /\ pc' = [pc EXCEPT ![s] = IF @ = "final" THEN "done" ELSE "select"]
  /\ attempt' = [attempt EXCEPT ![s] = 0]

StoreBatchOk(s) ==
  /\ pc[s] \in {"flush", "final"}
  /\ stored' = [stored EXCEPT ![s] = @ \o buffer[s]]
  /\ buffer' = [buffer EXCEPT ![s] = <<>>]
  /\ Return(s)
  /\ UNCHANGED <<ctl, errors, bufferChan, write, log>>

\* Mutant of StoreBatchError: the shard gives the batch up after its retries.
StoreBatchErrorCleared(s, n) ==
  /\ pc[s] \in {"flush", "final"} /\ errors < MaxErrors
  /\ stored' = [stored EXCEPT ![s] = @ \o SubSeq(buffer[s], 1, n)]
  /\ errors' = errors + 1
  /\ \/ /\ attempt[s] < MaxRetries /\ attempt' = [attempt EXCEPT ![s] = @ + 1]
        /\ UNCHANGED <<pc, buffer>>
     \/ /\ attempt[s] = MaxRetries /\ Return(s)
        /\ buffer' = [buffer EXCEPT ![s] = <<>>]
  /\ UNCHANGED <<ctl, bufferChan, write, log>>

\* After the last attempt the batch stays in the buffer.
StoreBatchError(s, n) ==
  /\ pc[s] \in {"flush", "final"} /\ errors < MaxErrors
  /\ stored' = [stored EXCEPT ![s] = @ \o SubSeq(buffer[s], 1, n)]
  /\ errors' = errors + 1
  /\ \/ attempt[s] < MaxRetries /\ attempt' = [attempt EXCEPT ![s] = @ + 1] /\ UNCHANGED pc
     \/ attempt[s] = MaxRetries /\ Return(s)
  /\ UNCHANGED <<ctl, buffer, bufferChan, write, log>>

-----------------------------------------------------------------------------
(* Stop *)

Stop ==
  /\ running /\ running' = FALSE
  /\ stop' = "closing"
  /\ UNCHANGED <<cancelled, closed, shard, bufferChan, write, log>>

StopClose ==
  /\ stop = "closing"
  /\ closed' = closed + 1
  /\ stop' = IF closed' = NumShards THEN "waiting" ELSE stop
  /\ UNCHANGED <<running, cancelled, shard, bufferChan, write, log>>

StopWait ==
  /\ stop = "waiting" /\ \A s \in Shards : pc[s] = "done"
  /\ stop' = "returned"
  /\ UNCHANGED <<running, cancelled, closed, shard, bufferChan, write, log>>

Next ==
  \/ Start \/ Cancel \/ Stop \/ StopClose \/ StopWait
  \/ \E m \in Messages : WriteCheck(m) \/ WriteSend(m)
  \/ \E s \in Shards :
       \/ Receive(s) \/ Tick(s) \/ StopCase(s) \/ CancelCase(s) \/ StoreBatchOk(s)
       \/ \E n \in 0 .. Len(buffer[s]) : StoreBatchError(s, n)

Spec == Init /\ [][Next]_vars

\* Go's select does not pass over a case that stays ready, the storage answers,
\* and a Stop under way proceeds.
Fairness ==
  /\ WF_vars(StopClose) /\ WF_vars(StopWait)
  /\ \A s \in Shards :
       /\ WF_vars(Receive(s)) /\ WF_vars(Tick(s)) /\ WF_vars(StopCase(s))
       /\ WF_vars(StoreBatchOk(s))
FairSpec == Spec /\ Fairness

-----------------------------------------------------------------------------
(* Properties *)

Kept == UNION {{stored[s][i] : i \in DOMAIN stored[s]} : s \in Shards}

\* Every shard is a write-behind log of the messages its channel took: nothing is
\* passed over or reordered on the way through channel, buffer and retries
\* (Write, runShard, flushShard).
WB(s) == INSTANCE WriteBehind WITH
           log <- log[s], stored <- stored[s],
           done <- Len(log[s]) - Len(bufferChan[s]) - Len(buffer[s])
ImplementsWriteBehind ==
  /\ \A s \in Shards : WB(s)!Init
  /\ [][\A s \in Shards : WB(s)!Next \/ UNCHANGED WB(s)!vars]_vars

\* When Stop returns without a failed write or a cancelled context, no shard
\* keeps a message in its buffer (the final flush of runShard).
BuffersFlushed ==
  stop = "returned" /\ errors = 0 /\ ~cancelled => \A s \in Shards : buffer[s] = <<>>

\* While the writer runs accepted messages do not stay behind: again and again
\* every message whose Write returned nil so far is stored (runShard's ticker).
RunningStores ==
  []<>(running /\ ~cancelled => \A m \in Messages : write[m] = "nil" => m \in Kept)

\* Stop returns (runShard takes the case of stopCh, flushShard gives up in the end).
StopReturns == []<>(stop \notin {"closing", "waiting"})
=============================================================================
