----------------------------- MODULE BatchWriter -----------------------------
(***************************************************************************)
(* The batch writer (pkg/processor/batch_writer.go) behind the Kafka and   *)
(* AMQP processor bridges, with the callers of Write, its flush loop, the  *)
(* caller of Stop and the storage.                                         *)
(*                                                                         *)
(* The mutex mu is held during a whole flush, retries included: holder is  *)
(* who flushes, and every other operation waits until it is free.  The     *)
(* storage adapter of the bridges stores a batch message by message, so a  *)
(* failed StoreBatch leaves a prefix of the batch stored.                  *)
(***************************************************************************)
EXTENDS Integers, Sequences, FiniteSets

CONSTANTS Messages,     \* every message is written once
          BatchSize, MaxRetries,
          MaxErrors     \* bound: StoreBatch calls that fail

ASSUME BatchWriterAssumption ==
  /\ BatchSize \in Nat \ {0} /\ MaxRetries \in Nat /\ MaxErrors \in Nat
  /\ Messages \cap {"free", "ticker", "stop"} = {}

VARIABLES running, buffer,
          holder,       \* who flushes: a message being written, "ticker", "stop", or "free"
          attempt,      \* flushLocked's attempt
          loop,         \* the flush loop: "off", "select" or "done"
          stop,         \* Stop: "no", "waiting", "flushing", "nil" or "error"
          cancelled,    \* the context of Start
          result,       \* of Write: "new", "flushing", "nil" or "error"
          log,          \* the messages appended to the buffer, in order
          stored,       \* what the storage holds, in order
          before,       \* the messages whose Write had returned nil when Stop was called
          errors        \* failed calls of StoreBatch

caller == <<stop, result, before>>
vars == <<running, buffer, holder, attempt, loop, cancelled, log, stored, errors, caller>>

Init ==
  /\ running = FALSE /\ buffer = <<>>
  /\ holder = "free" /\ attempt = 0
  /\ loop = "off" /\ stop = "no" /\ cancelled = FALSE
  /\ result = [m \in Messages |-> "new"]
  /\ log = <<>> /\ stored = <<>> /\ before = {} /\ errors = 0

\* A writer is started once, by the bridge that creates it.
Start ==
  /\ ~running /\ stop = "no" /\ holder = "free"
  /\ running' = TRUE /\ loop' = "select"
  /\ UNCHANGED <<buffer, holder, attempt, cancelled, log, stored, errors, caller>>

Cancel ==
  /\ ~cancelled /\ cancelled' = TRUE
  /\ UNCHANGED <<running, buffer, holder, attempt, loop, log, stored, errors, caller>>

\* Write does not look at running.
Write(m) ==
  /\ result[m] = "new" /\ holder = "free"
  /\ log' = Append(log, m)
  /\ buffer' = Append(buffer, m)
  /\ IF Len(buffer') >= BatchSize
       THEN holder' = m /\ attempt' = 0 /\ result' = [result EXCEPT ![m] = "flushing"]
       ELSE result' = [result EXCEPT ![m] = "nil"] /\ UNCHANGED <<holder, attempt>>
  /\ UNCHANGED <<running, loop, cancelled, stored, errors, stop, before>>

\* The flush loop takes the timer's case.
Tick ==
  /\ loop = "select" /\ holder = "free" /\ buffer # <<>>
  /\ holder' = "ticker" /\ attempt' = 0
  /\ UNCHANGED <<running, buffer, loop, cancelled, log, stored, errors, caller>>

\* Mutant of Quit: the case of stopCh is missing.
QuitCancelled ==
  /\ loop = "select" /\ holder # "ticker" /\ cancelled
  /\ loop' = "done"
  /\ UNCHANGED <<running, buffer, holder, attempt, cancelled, log, stored, errors, caller>>

\* The flush loop takes the case of stopCh or of the context.
Quit ==
  /\ loop = "select" /\ holder # "ticker"
  /\ stop # "no" \/ cancelled
  /\ loop' = "done"
  /\ UNCHANGED <<running, buffer, holder, attempt, cancelled, log, stored, errors, caller>>

Stop ==
  /\ running /\ holder = "free"
  /\ running' = FALSE /\ stop' = "waiting"
  /\ before' = {m \in Messages : result[m] = "nil"}
  /\ UNCHANGED <<buffer, holder, attempt, loop, cancelled, log, stored, errors, result>>

\* Stop's final flush, once the loop has ended.
StopFlush ==
  /\ stop = "waiting" /\ loop = "done" /\ holder = "free"
  /\ \/ /\ buffer = <<>> /\ stop' = "nil"
        /\ UNCHANGED <<holder, attempt>>
     \/ /\ buffer # <<>> /\ stop' = "flushing"
        /\ holder' = "stop" /\ attempt' = 0
  /\ UNCHANGED <<running, buffer, loop, cancelled, log, stored, errors, result, before>>

\* flushLocked returns r to the operation that called it.
Return(r) ==
  /\ holder' = "free"
  /\ result' = [m \in Messages |-> IF m = holder THEN r ELSE result[m]]
  /\ stop' = IF holder = "stop" THEN r ELSE stop
  /\ UNCHANGED <<attempt, before>>

StoreBatchOk ==
  /\ holder # "free"
  /\ stored' = stored \o buffer
  /\ buffer' = <<>>
  /\ Return("nil")
  /\ UNCHANGED <<running, loop, cancelled, log, errors>>

\* Mutant of StoreBatchError: a batch that failed is cleared.
StoreBatchErrorCleared(n) ==
  /\ holder # "free" /\ errors < MaxErrors
  /\ stored' = stored \o SubSeq(buffer, 1, n)
  /\ errors' = errors + 1
  /\ \/ attempt < MaxRetries /\ attempt' = attempt + 1 /\ UNCHANGED <<holder, caller, buffer>>
     \/ attempt = MaxRetries /\ Return("error") /\ buffer' = <<>>
  /\ UNCHANGED <<running, loop, cancelled, log>>

\* StoreBatch fails after n messages; the buffer stays for a later flush.
StoreBatchError(n) ==
  /\ holder # "free" /\ errors < MaxErrors
  /\ stored' = stored \o SubSeq(buffer, 1, n)
  /\ errors' = errors + 1
  /\ \/ attempt < MaxRetries /\ attempt' = attempt + 1 /\ UNCHANGED <<holder, caller>>
     \/ attempt = MaxRetries /\ Return("error")
  /\ UNCHANGED <<running, buffer, loop, cancelled, log>>

Next ==
  \/ Start \/ Cancel \/ Tick \/ Quit \/ Stop \/ StopFlush \/ StoreBatchOk
  \/ \E m \in Messages : Write(m)
  \/ \E n \in 0 .. Len(buffer) : StoreBatchError(n)

Spec == Init /\ [][Next]_vars

\* The storage answers, the ticker fires and Go's select does not pass over a case
\* that stays ready; nobody has to call Write, Start or Stop, or to cancel.
Fairness ==
  /\ WF_vars(StoreBatchOk)
  /\ WF_vars(Tick) /\ WF_vars(Quit) /\ WF_vars(StopFlush)
FairSpec == Spec /\ Fairness

-----------------------------------------------------------------------------
(* Properties *)

Kept == {stored[i] : i \in DOMAIN stored}

\* The writer is a write-behind log: it stores what Write appended, in that
\* order and without a gap, and a batch whose StoreBatch failed is written again
\* from its first message (Write, flushLocked).
WB == INSTANCE WriteBehind WITH done <- Len(log) - Len(buffer)
ImplementsWriteBehind == WB!Spec

\* "Stop stops the batch writer and flushes remaining messages": when Stop
\* returns nil, every message whose Write had returned nil before is stored,
\* whatever failed in between (Stop, flushLocked).
StopFlushesAll == stop = "nil" => before \subseteq Kept

\* While the writer runs messages do not stay behind: again and again every message
\* whose Write returned nil so far is stored (flushLoop).
RunningStores ==
  []<>(running /\ ~cancelled => \A m \in Messages : result[m] = "nil" => m \in Kept)

\* Stop returns (Stop waits for the loop, and for the lock).
StopReturns == []<>(stop \notin {"waiting", "flushing"})
=============================================================================
