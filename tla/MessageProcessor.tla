--------------------------- MODULE MessageProcessor ---------------------------
(***************************************************************************)
(* pkg/processor/processor.go and the BatchProcessor of metrics.go:        *)
(* callers put tasks into processingQueue, workers take them, and the      *)
(* result goes to the caller's own channel (ProcessMessage) or into the    *)
(* shared resultQueue, where handleResults and every waiting ProcessBatch  *)
(* compete for it.  Stop closes both channels: a send on one, or the nil   *)
(* result ProcessBatch then receives, ends the program.                    *)
(***************************************************************************)
EXTENDS Integers, SequencesExt

CONSTANTS PrCallers, PrWorkers, QueueSize, BatchSize,
          EnableZeroCopy, EnableBackpressure,
          MaxBuffered       \* bound: tasks given to the BatchProcessor

VARIABLES
  prRunning, prClosed,
  prQueue, prResults,   \* the two channels
  prWorker,             \* per worker: the task it has, OffTask or NoTask
  prHandler,            \* handleResults runs
  prCaller,             \* per caller: [pc, task, got], got the answer in its channel
  prCrash,              \* the program has ended with a panic
  bpBuffer, bpAdded, bpStopped    \* the BatchProcessor

prVars == <<prRunning, prClosed, prQueue, prResults, prWorker, prHandler, prCaller, prCrash,
            bpBuffer, bpAdded, bpStopped>>
bpVars == <<bpBuffer, bpAdded, bpStopped>>

\* A message: a number that tells the BatchProcessor's messages apart (0 for the others),
\* whether its payload is nil, and whether the payload is still what it was.
Message(id, nil) == [id |-> id, nil |-> nil, kept |-> TRUE]
NoTask == [kind |-> "none", who |-> "none", msgs |-> <<>>]
OffTask == [NoTask EXCEPT !.kind = "off"]

\* A caller that is back without an answer.
GoneCaller == [pc |-> "returned", task |-> NoTask, got |-> <<>>]

NewMessageProcessor ==
  /\ prRunning = FALSE /\ prClosed = FALSE /\ prQueue = <<>> /\ prResults = <<>>
  /\ prWorker = [w \in PrWorkers |-> OffTask] /\ prHandler = FALSE
  /\ prCaller = [c \in PrCallers |-> [pc |-> "idle", task |-> NoTask, got |-> <<>>]]
  /\ prCrash = FALSE
  /\ bpBuffer = <<>> /\ bpAdded = 0 /\ bpStopped = FALSE

StartProcessor ==
  /\ ~prCrash /\ ~prRunning /\ prRunning' = TRUE /\ prHandler' = TRUE
  /\ prWorker' = [w \in PrWorkers |-> IF prWorker[w] = OffTask THEN NoTask ELSE prWorker[w]]
  /\ UNCHANGED <<prClosed, prQueue, prResults, prCaller, prCrash, bpVars>>

StopProcessor ==
  /\ ~prCrash /\ prRunning /\ prRunning' = FALSE /\ prClosed' = TRUE
  /\ UNCHANGED <<prQueue, prResults, prWorker, prHandler, prCaller, prCrash, bpVars>>

-----------------------------------------------------------------------------
(* What a worker makes of a message *)

validateMessage(m) == ~m.nil

\* The deep copy is made into a buffer of length 0, which takes none of it.
copyMessage(m) == [m EXCEPT !.kept = EnableZeroCopy]

\* The compressors of this file give back as many bytes as they get, which is never
\* fewer: the value stays what it was.
compressMessageData(m) == m

processSingleMessage(t) ==
  [who |-> t.who, ok |-> validateMessage(t.msgs[1]),
   msgs |-> IF validateMessage(t.msgs[1]) THEN <<compressMessageData(copyMessage(t.msgs[1]))>> ELSE <<>>]

\* The first message that is not valid fails the whole batch.
processBatchMessages(t) ==
  LET ok == \A i \in 1 .. Len(t.msgs) : validateMessage(t.msgs[i])
  IN [who |-> t.who, ok |-> ok,
      msgs |-> IF ok THEN [i \in 1 .. Len(t.msgs) |-> compressMessageData(copyMessage(t.msgs[i]))] ELSE <<>>]

-----------------------------------------------------------------------------
(* Callers *)

\* More than eight tenths of the queue.
isBackpressured == 10 * Len(prQueue) > 8 * QueueSize

\* ProcessMessage and ProcessBatch, until they send.
CallProcess(c) ==
  /\ ~prCrash /\ prCaller[c].pc = "idle"
  /\ IF EnableBackpressure /\ isBackpressured
     THEN prCaller' = [prCaller EXCEPT ![c] = GoneCaller]
     ELSE \E kind \in {"single", "batch"}, nil \in BOOLEAN :
            LET t == [kind |-> kind, who |-> c, msgs |-> <<Message(0, nil)>>] IN
            /\ kind = "batch" => ~nil
            /\ prCaller' = [prCaller EXCEPT ![c] = [pc |-> "send", task |-> t, got |-> <<>>]]
  /\ UNCHANGED <<prRunning, prClosed, prQueue, prResults, prWorker, prHandler, prCrash, bpVars>>

\* The send, which a closed queue turns into a panic; the timer or the context ends the wait.
SendTask(c) ==
  /\ ~prCrash /\ prCaller[c].pc = "send"
  /\ \/ /\ prClosed /\ prCrash' = TRUE /\ UNCHANGED <<prQueue, prCaller>>
     \/ /\ ~prClosed /\ Len(prQueue) < QueueSize /\ prQueue' = Append(prQueue, prCaller[c].task)
        /\ prCaller' = [prCaller EXCEPT ![c].pc = "wait"] /\ UNCHANGED prCrash
     \/ prCaller' = [prCaller EXCEPT ![c] = GoneCaller] /\ UNCHANGED <<prQueue, prCrash>>
  /\ UNCHANGED <<prRunning, prClosed, prResults, prWorker, prHandler, bpVars>>

\* Mutant: it waits on the shared queue as ProcessBatch does.
ReturnMessageShared(c) ==
  /\ ~prCrash /\ prCaller[c].pc = "wait" /\ prCaller[c].task.kind = "single"
  /\ \/ /\ prResults # <<>> /\ prResults' = Tail(prResults)
        /\ prCaller' = [prCaller EXCEPT ![c] = [@ EXCEPT !.pc = "returned", !.got = <<Head(prResults)>>]]
     \/ prCaller' = [prCaller EXCEPT ![c] = GoneCaller] /\ UNCHANGED prResults
  /\ UNCHANGED <<prRunning, prClosed, prQueue, prWorker, prHandler, prCrash, bpVars>>

\* ProcessMessage returns with the answer in its channel, or when its time is over: an
\* answer that comes later stays in a channel nobody reads.
ReturnMessage(c) ==
  /\ ~prCrash /\ prCaller[c].pc = "wait" /\ prCaller[c].task.kind = "single"
  /\ \/ prCaller[c].got # <<>> /\ prCaller' = [prCaller EXCEPT ![c].pc = "returned"]
     \/ prCaller' = [prCaller EXCEPT ![c] = GoneCaller]
  /\ UNCHANGED <<prRunning, prClosed, prQueue, prResults, prWorker, prHandler, prCrash, bpVars>>

\* ProcessBatch takes the first result there is, whoever's it is.
ReturnBatch(c) ==
  /\ ~prCrash /\ prCaller[c].pc = "wait" /\ prCaller[c].task.kind = "batch"
  /\ \/ /\ prResults # <<>> /\ prResults' = Tail(prResults)
        /\ prCaller' = [prCaller EXCEPT ![c] = [@ EXCEPT !.pc = "returned", !.got = <<Head(prResults)>>]]
        /\ UNCHANGED prCrash
     \/ prResults = <<>> /\ prClosed /\ prCrash' = TRUE /\ UNCHANGED <<prResults, prCaller>>
  /\ UNCHANGED <<prRunning, prClosed, prQueue, prWorker, prHandler, bpVars>>

-----------------------------------------------------------------------------
(* Workers and the result handler *)

\* Worker.Run: the next task; a closed and empty queue ends the worker, and so does its
\* context at any time between two tasks.
TakeTask(w) ==
  /\ ~prCrash /\ prWorker[w] = NoTask
  /\ \/ prQueue # <<>> /\ prWorker' = [prWorker EXCEPT ![w] = Head(prQueue)] /\ prQueue' = Tail(prQueue)
     \/ prWorker' = [prWorker EXCEPT ![w] = OffTask] /\ UNCHANGED prQueue
  /\ UNCHANGED <<prRunning, prClosed, prResults, prHandler, prCaller, prCrash, bpVars>>

\* processTask; after a panic the deferred handler sends to the closed queue once more.
processTask(w) ==
  /\ ~prCrash /\ prWorker[w].kind \in {"single", "batch"}
  /\ LET t == prWorker[w] IN
     \/ /\ t.kind = "single"
        /\ prCaller' = [prCaller EXCEPT ![t.who].got =
                           IF prCaller[t.who].pc = "wait" THEN <<processSingleMessage(t)>> ELSE @]
        /\ prWorker' = [prWorker EXCEPT ![w] = NoTask] /\ UNCHANGED <<prResults, prCrash>>
     \/ /\ t.kind = "batch" /\ ~prClosed /\ Len(prResults) < QueueSize
        /\ prResults' = Append(prResults, processBatchMessages(t))
        /\ prWorker' = [prWorker EXCEPT ![w] = NoTask] /\ UNCHANGED <<prCaller, prCrash>>
     \/ t.kind = "batch" /\ prClosed /\ prCrash' = TRUE /\ UNCHANGED <<prCaller, prResults, prWorker>>
  /\ UNCHANGED <<prRunning, prClosed, prQueue, prHandler, bpVars>>

handleResults ==
  /\ ~prCrash /\ prHandler
  /\ \/ /\ prResults # <<>> /\ prResults' = Tail(prResults)
        /\ UNCHANGED prHandler
     \/ prHandler' = FALSE /\ UNCHANGED prResults
  /\ UNCHANGED <<prRunning, prClosed, prQueue, prWorker, prCaller, prCrash, bpVars>>

-----------------------------------------------------------------------------
(* BatchProcessor *)

Submitted(buffer) ==
  /\ prQueue' = IF buffer = <<>> \/ Len(prQueue) = QueueSize \/ prClosed THEN prQueue
                ELSE Append(prQueue, [kind |-> "batch", who |-> "bp", msgs |-> buffer])
  /\ prCrash' = (buffer # <<>> /\ prClosed)

\* Mutant: the buffer is not cleared.
FlushKeeps(buffer) == Submitted(buffer) /\ bpBuffer' = buffer

\* The tasks as one batch without a callback; a full queue drops them (and counts one
\* backpressure).
flush(buffer) == Submitted(buffer) /\ bpBuffer' = <<>>

AddTask ==
  /\ ~prCrash /\ ~bpStopped /\ bpAdded < MaxBuffered /\ bpAdded' = bpAdded + 1
  /\ LET buffer == Append(bpBuffer, Message(bpAdded', FALSE)) IN
     IF Len(buffer) >= BatchSize THEN flush(buffer)
     ELSE bpBuffer' = buffer /\ UNCHANGED <<prQueue, prCrash>>
  /\ UNCHANGED <<prRunning, prClosed, prResults, prWorker, prHandler, prCaller, bpStopped>>

\* The ticker of flushLoop, or Stop with its last flush.
flushLoop ==
  /\ ~prCrash /\ ~bpStopped /\ bpStopped' \in BOOLEAN /\ flush(bpBuffer)
  /\ UNCHANGED <<prRunning, prClosed, prResults, prWorker, prHandler, prCaller, bpAdded>>

ProcessorNext ==
  \/ StartProcessor \/ StopProcessor \/ handleResults \/ AddTask \/ flushLoop
  \/ \E c \in PrCallers : CallProcess(c) \/ SendTask(c) \/ ReturnMessage(c) \/ ReturnBatch(c)
  \/ \E w \in PrWorkers : TakeTask(w) \/ processTask(w)

-----------------------------------------------------------------------------
(* Properties *)

\* The answer ProcessMessage returns is the one to its own message, and a message that is
\* not valid is never answered with success, whichever callers and workers run at the
\* time; the program ends in a panic only once Stop has closed the channels
\* (ProcessMessage, processTask, Stop).
OwnAnswer ==
  /\ \A c \in PrCallers :
       prCaller[c].task.kind = "single" /\ prCaller[c].got # <<>>
         => /\ prCaller[c].got[1].who = c
            /\ prCaller[c].got[1].ok = ~prCaller[c].task.msgs[1].nil
  /\ prCrash => prClosed

\* A message given to the BatchProcessor is in one place at a time, its buffer, one batch
\* on its way or one result, so that no message is processed twice (AddTask, flush).
BufferedOnce ==
  LET Theirs(t) == IF t.who = "bp" THEN t.msgs ELSE <<>>
      Of(s) == FlattenSeq([i \in 1 .. Len(s) |-> Theirs(s[i])])
      all == bpBuffer \o Of(prQueue) \o Of(prResults) \o Of(SetToSeq({prWorker[w] : w \in PrWorkers}))
  IN \A i, j \in 1 .. Len(all) : i # j => all[i].id # all[j].id
=============================================================================
