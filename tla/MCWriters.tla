------------------------------ MODULE MCWriters ------------------------------
(***************************************************************************)
(* The three batch writers for TLC.  A process uses one of them: writer is *)
(* the one a behaviour is about, and the others are never started.         *)
(***************************************************************************)
EXTENDS BatchWriter, AsyncBatchWriter

CONSTANTS NumShards, ShardMessages, Capacity, getShardID  \* of the sharded writer

ASSUME WritersAssumption ==
  NumShards \in Nat \ {0} /\ \A m \in ShardMessages : getShardID[m] \in 0 .. NumShards - 1

\* Messages of one topic, so that its shard overflows.
OneTopic == [m \in Messages \cup ShardMessages \cup AsyncMessages |-> 0]

VARIABLES writer,
  pRunning, pCancelled, bufferChan, pBuffer, pAttempt, pPc, pClosed, pStop, pWrite, pLog, pStored, pErrors

Parallel == INSTANCE ParallelBatchWriter WITH
  Messages <- ShardMessages, running <- pRunning, cancelled <- pCancelled, buffer <- pBuffer,
  attempt <- pAttempt, pc <- pPc, closed <- pClosed, stop <- pStop, write <- pWrite, log <- pLog,
  stored <- pStored, errors <- pErrors

parallelVars == <<pRunning, pCancelled, bufferChan, pBuffer, pAttempt, pPc, pClosed, pStop, pWrite,
                  pLog, pStored, pErrors>>

WritersInit ==
  /\ writer \in {"batch", "parallel", "async"}
  /\ Init /\ Parallel!Init /\ AsyncInit

WritersNext ==
  /\ \/ writer = "batch" /\ Next /\ UNCHANGED <<parallelVars, asyncVars>>
     \/ writer = "parallel" /\ Parallel!Next /\ UNCHANGED <<vars, asyncVars>>
     \/ writer = "async" /\ AsyncNext /\ UNCHANGED <<vars, parallelVars>>
  /\ UNCHANGED writer

WritersSpec ==
  /\ WritersInit /\ [][WritersNext]_<<vars, parallelVars, asyncVars, writer>>
  /\ Fairness /\ Parallel!Fairness /\ AsyncFairness

-----------------------------------------------------------------------------
(* Properties *)

\* Stop flushes: when Stop of the batch writer returns nil every message written
\* before is stored, and when Stop of the sharded writer returns without a failed write or a
\* cancelled context no shard keeps a message in its buffer (flushLocked, the final
\* flush of runShard).
StopFlushes == StopFlushesAll /\ Parallel!BuffersFlushed

\* Both writers with a buffer, every shard of the sharded one by itself, implement a
\* write-behind log of the messages that Write took (Write, flushLocked, flushShard).
WritersImplementLog == ImplementsWriteBehind /\ Parallel!ImplementsWriteBehind

\* While a writer runs accepted messages do not stay behind, with the asynchronous
\* one if the storage does not fail (flushLoop, runShard's ticker, flushAsync).
WritersStore == RunningStores /\ Parallel!RunningStores /\ AsyncRunningStores

\* Stop of the batch writer and of the sharded one returns (Stop waits for the loops,
\* which may be retrying).
WritersStop == StopReturns /\ Parallel!StopReturns
=============================================================================
