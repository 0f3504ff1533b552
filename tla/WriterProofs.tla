---------------------------- MODULE WriterProofs ----------------------------
(***************************************************************************)
(* Proofs about the batch writers, for any messages, batch sizes, shards,  *)
(* retries and failures: the batch writer and every shard of the sharded   *)
(* one are write-behind logs, and Stop flushes.                            *)
(***************************************************************************)
EXTENDS MCWriters, TLAPS

-----------------------------------------------------------------------------
(* The batch writer. *)

\* How many messages of the log have left the buffer.
Done == Len(log) - Len(buffer)

\* The buffer is the end of the log; the messages in the log are those that are no longer
\* new, the one whose Write flushes among them; what has left the buffer is stored.
WriterInv ==
  /\ log \in Seq(Messages) /\ buffer \in Seq(Messages) /\ stored \in Seq(Messages)
  /\ DOMAIN result = Messages
  /\ Len(buffer) <= Len(log)
  /\ \A i \in 1 .. Len(buffer) : buffer[i] = log[Done + i]
  /\ \A i \in 1 .. Len(log) : result[log[i]] # "new"
  /\ \A m \in Messages : result[m] # "new" => \E i \in 1 .. Len(log) : log[i] = m
  /\ holder \in Messages => result[holder] # "new"
  /\ \A i \in 1 .. Done : \E j \in 1 .. Len(stored) : stored[j] = log[i]

\* The messages that Stop found accepted are in the log.
StopInv ==
  /\ \A m \in before : \E i \in 1 .. Len(log) : log[i] = m
  /\ StopFlushesAll

\* What a call of the storage stores is the log after Done.
LEMMA BufferIsEnd ==
  ASSUME WriterInv, NEW n \in 0 .. Len(buffer)
  PROVE  SubSeq(buffer, 1, n) = SubSeq(log, Done + 1, Done + n)
<1>1. Done \in Nat /\ Done + n <= Len(log) /\ n \in Nat
  BY DEF WriterInv, Done
<1>2. SubSeq(buffer, 1, n) = [i \in 1 .. n |-> buffer[i]]
  BY <1>1 DEF WriterInv
<1>3. SubSeq(log, Done + 1, Done + n) = [i \in 1 .. n |-> log[Done + i]]
  BY <1>1 DEF WriterInv
<1>4. \A i \in 1 .. n : buffer[i] = log[Done + i]
  BY <1>1 DEF WriterInv
<1> QED
  BY <1>2, <1>3, <1>4, Zenon

\* A Write appends to the log and to the buffer, and keeps the invariant.
LEMMA WriteInv ==
  ASSUME WriterInv, NEW m \in Messages, Write(m) PROVE WriterInv'
<1>1. log' = Append(log, m) /\ buffer' = Append(buffer, m) /\ stored' = stored
  BY Zenon DEF Write
<1>2. Done' = Done
  BY <1>1 DEF Done, WriterInv
<1>3. Len(log') = Len(log) + 1 /\ log'[Len(log) + 1] = m /\ \A i \in 1 .. Len(log) : log'[i] = log[i]
  BY <1>1 DEF WriterInv
<1>4. /\ Len(buffer') = Len(buffer) + 1 /\ buffer'[Len(buffer) + 1] = m
      /\ \A i \in 1 .. Len(buffer) : buffer'[i] = buffer[i]
  BY <1>1 DEF WriterInv
<1>5. Len(log) \in Nat /\ Len(buffer) \in Nat /\ Done \in Nat /\ Done + Len(buffer) = Len(log)
  BY DEF WriterInv, Done
<1>6. /\ DOMAIN result' = Messages /\ result'[m] \in {"flushing", "nil"}
      /\ \A k \in Messages \ {m} : result'[k] = result[k]
  BY Zenon DEF Write, WriterInv
<1>7. ASSUME NEW i \in 1 .. Len(buffer') PROVE buffer'[i] = log'[Done' + i]
  <2>1. CASE i = Len(buffer) + 1
    <3>1. Done + i = Len(log) + 1
      BY <1>5, <2>1
    <3> QED
      BY <1>2, <1>3, <1>4, <2>1, <3>1, Zenon
  <2>2. CASE i # Len(buffer) + 1
    <3>1. i \in 1 .. Len(buffer) /\ Done + i \in 1 .. Len(log)
      BY <1>4, <1>5, <2>2
    <3>2. buffer[i] = log[Done + i]
      BY <3>1, Zenon DEF WriterInv
    <3> QED
      BY <1>2, <1>3, <1>4, <3>1, <3>2, Zenon
  <2> QED
    BY <2>1, <2>2, Zenon
<1>8. ASSUME NEW i \in 1 .. Len(log') PROVE result'[log'[i]] # "new"
  <2>1. CASE i = Len(log) + 1
    BY <1>3, <1>6, <2>1, Zenon
  <2>2. CASE i # Len(log) + 1
    <3>1. i \in 1 .. Len(log) /\ log'[i] = log[i]
      BY <1>3, <1>5, <2>2
    <3>2. log[i] \in Messages /\ result[log[i]] # "new"
      BY <3>1 DEF WriterInv
    <3> QED
      BY <1>6, <3>1, <3>2, Zenon
  <2> QED
    BY <2>1, <2>2, Zenon
<1>9. \A k \in Messages : result'[k] # "new" => \E i \in 1 .. Len(log') : log'[i] = k
  <2>1. \A k \in Messages \ {m} : result'[k] # "new" => \E i \in 1 .. Len(log) : log[i] = k
    BY <1>6, Zenon DEF WriterInv
  <2>2. 1 .. Len(log) \subseteq 1 .. Len(log') /\ Len(log) + 1 \in 1 .. Len(log')
    BY <1>3, <1>5
  <2> QED BY <1>3, <2>1, <2>2, Zenon
<1>10. \A i \in 1 .. Done' : \E j \in 1 .. Len(stored') : stored'[j] = log'[i]
  BY <1>1, <1>2, <1>3, <1>5 DEF WriterInv
<1>11. /\ log' \in Seq(Messages) /\ buffer' \in Seq(Messages) /\ stored' \in Seq(Messages)
       /\ Len(buffer') <= Len(log')
  BY <1>1, <1>3, <1>4 DEF WriterInv
<1>12. holder' \in Messages => result'[holder'] # "new"
  BY <1>6, BatchWriterAssumption, Zenon DEF Write, WriterInv
<1> QED
  BY <1>6, <1>7, <1>8, <1>9, <1>10, <1>11, <1>12, Zenon DEF WriterInv

\* More in the storage keeps what was there.
LEMMA StoredGrows ==
  ASSUME stored \in Seq(Messages), NEW s \in Seq(Messages), stored' = stored \o s
  PROVE  /\ stored' \in Seq(Messages)
         /\ \A j \in 1 .. Len(stored) : j \in 1 .. Len(stored') /\ stored'[j] = stored[j]
         /\ \A j \in 1 .. Len(s) : Len(stored) + j \in 1 .. Len(stored') /\ stored'[Len(stored) + j] = s[j]
         /\ Kept \subseteq Kept'
<1>1. /\ stored' \in Seq(Messages) /\ Len(stored') = Len(stored) + Len(s)
      /\ \A j \in 1 .. Len(stored) : stored'[j] = stored[j]
      /\ \A j \in 1 .. Len(s) : stored'[Len(stored) + j] = s[j]
  OBVIOUS
<1>2. /\ DOMAIN stored = 1 .. Len(stored) /\ DOMAIN stored' = 1 .. Len(stored')
      /\ Len(stored) \in Nat /\ Len(s) \in Nat
  BY <1>1
<1> QED
  BY <1>1, <1>2 DEF Kept


\* flushLocked's answer makes no message new, and goes to none that is new.
LEMMA ReturnKeeps ==
  ASSUME WriterInv, NEW r \in {"nil", "error"}, Return(r), log' = log
  PROVE  /\ DOMAIN result' = Messages
         /\ \A i \in 1 .. Len(log) : result'[log[i]] # "new"
         /\ \A m \in Messages : result'[m] # "new" => \E i \in 1 .. Len(log) : log[i] = m
         /\ holder' \notin Messages
<1>1. \A m \in Messages : result'[m] = IF m = holder THEN r ELSE result[m]
  BY Zenon DEF Return
<1>2. \A i \in 1 .. Len(log) : log[i] \in Messages
  BY DEF WriterInv
<1> QED
  BY <1>1, <1>2, BatchWriterAssumption, Zenon DEF Return, WriterInv

\* A batch that was stored leaves the buffer.
LEMMA StoreBatchOkInv == ASSUME WriterInv, StoreBatchOk PROVE WriterInv'
<1>1. stored' = stored \o buffer /\ buffer' = <<>> /\ log' = log /\ Return("nil")
  BY Zenon DEF StoreBatchOk
<1>2. /\ DOMAIN result' = Messages
      /\ \A i \in 1 .. Len(log) : result'[log[i]] # "new"
      /\ \A m \in Messages : result'[m] # "new" => \E i \in 1 .. Len(log) : log[i] = m
      /\ holder' \notin Messages
  BY <1>1, ReturnKeeps, Zenon
<1>3. /\ stored' \in Seq(Messages)
      /\ \A j \in 1 .. Len(stored) : j \in 1 .. Len(stored') /\ stored'[j] = stored[j]
      /\ \A j \in 1 .. Len(buffer) : Len(stored) + j \in 1 .. Len(stored') /\ stored'[Len(stored) + j] = buffer[j]
  BY <1>1, StoredGrows, Zenon DEF WriterInv
<1>4. Done \in Nat /\ Len(buffer) \in Nat /\ Len(log) \in Nat /\ Done + Len(buffer) = Len(log)
  BY DEF WriterInv, Done
<1>5. Len(buffer') = 0 /\ buffer' \in Seq(Messages) /\ Done' = Len(log)
  BY <1>1, <1>4 DEF Done
<1>6. ASSUME NEW i \in 1 .. Len(log) PROVE \E j \in 1 .. Len(stored') : stored'[j] = log[i]
  <2>1. CASE i <= Done
    <3>1. i \in 1 .. Done
      BY <1>4, <2>1
    <3>2. PICK j \in 1 .. Len(stored) : stored[j] = log[i]
      BY <3>1, Zenon DEF WriterInv
    <3> QED
      BY <1>3, <3>2, Zenon
  <2>2. CASE i > Done
    <3>1. i - Done \in 1 .. Len(buffer) /\ Done + (i - Done) = i
      BY <1>4, <2>2
    <3>2. buffer[i - Done] = log[i]
      BY <3>1, Zenon DEF WriterInv
    <3> QED
      BY <1>3, <3>1, <3>2, Zenon
  <2> QED
    BY <1>4, <2>1, <2>2
<1>7. Len(buffer') <= Len(log') /\ \A i \in 1 .. Len(buffer') : FALSE
  BY <1>1, <1>4, <1>5
<1>8. log' \in Seq(Messages) /\ (holder' \in Messages => result'[holder'] # "new")
  BY <1>1, <1>2, Zenon DEF WriterInv
<1>9. \A i \in 1 .. Done' : \E j \in 1 .. Len(stored') : stored'[j] = log'[i]
  BY <1>1, <1>5, <1>6, Zenon
<1>10. /\ \A i \in 1 .. Len(log') : result'[log'[i]] # "new"
       /\ \A m \in Messages : result'[m] # "new" => \E i \in 1 .. Len(log') : log'[i] = m
  BY <1>1, <1>2, Zenon
<1>11. \A i \in 1 .. Len(buffer') : buffer'[i] = log'[Done' + i]
  BY <1>7, Zenon
<1> QED
  BY <1>2, <1>3, <1>5, <1>7, <1>8, <1>9, <1>10, <1>11, Zenon DEF WriterInv

\* A failed call of the storage leaves the buffer for the next attempt.
LEMMA StoreBatchErrorInv ==
  ASSUME WriterInv, NEW n \in 0 .. Len(buffer), StoreBatchError(n) PROVE WriterInv'
<1>1. stored' = stored \o SubSeq(buffer, 1, n) /\ buffer' = buffer /\ log' = log
  BY Zenon DEF StoreBatchError
<1>2. SubSeq(buffer, 1, n) \in Seq(Messages)
  BY DEF WriterInv
<1>3. /\ stored' \in Seq(Messages)
      /\ \A j \in 1 .. Len(stored) : j \in 1 .. Len(stored') /\ stored'[j] = stored[j]
  BY <1>1, <1>2, StoredGrows, Zenon DEF WriterInv
<1>4. Done' = Done
  BY <1>1, Zenon DEF Done
<1>5. \A i \in 1 .. Done' : \E j \in 1 .. Len(stored') : stored'[j] = log'[i]
  <2> SUFFICES ASSUME NEW i \in 1 .. Done PROVE \E j \in 1 .. Len(stored') : stored'[j] = log[i]
    BY <1>1, <1>4, Zenon
  <2>1. PICK j \in 1 .. Len(stored) : stored[j] = log[i]
    BY Zenon DEF WriterInv
  <2> QED BY <1>3, <2>1, Zenon
<1>6. CASE Return("error")
  BY <1>1, <1>3, <1>4, <1>5, <1>6, ReturnKeeps, Zenon DEF WriterInv
<1>7. CASE UNCHANGED <<holder, caller>>
  BY <1>1, <1>3, <1>4, <1>5, <1>7, Zenon DEF WriterInv, caller
<1> QED
  BY <1>6, <1>7, Zenon DEF StoreBatchError

\* The other steps touch neither the buffer nor the log.
LEMMA OtherInv ==
  ASSUME WriterInv, UNCHANGED <<log, buffer, stored, result>>,
         holder' = holder \/ holder' \in {"ticker", "stop"}
  PROVE  WriterInv'
<1>1. Done' = Done
  BY Zenon DEF Done
<1> QED
  BY <1>1, BatchWriterAssumption, Zenon DEF WriterInv

\* The invariant is inductive: Write appends, a stored batch leaves the buffer, a failed
\* one stays, and nothing else touches the two.
LEMMA WriterInitInv == Init => WriterInv /\ StopInv
<1> SUFFICES ASSUME Init PROVE WriterInv /\ StopInv
  BY Zenon
<1>1. Len(log) = 0 /\ Len(buffer) = 0 /\ Done = 0 /\ log \in Seq(Messages)
  BY DEF Init, Done
<1>2. holder \notin Messages
  BY BatchWriterAssumption, Zenon DEF Init
<1> QED
  BY <1>1, <1>2 DEF Init, WriterInv, StopInv, StopFlushesAll

LEMMA WriterNextInv == WriterInv /\ [Next]_vars => WriterInv'
<1> SUFFICES ASSUME WriterInv, [Next]_vars PROVE WriterInv'
  BY Zenon
<1>1. CASE Start \/ Cancel \/ Quit \/ Stop \/ UNCHANGED vars
  BY <1>1, OtherInv, Zenon DEF Start, Cancel, Quit, Stop, vars, caller
<1>2. CASE Tick
  BY <1>2, OtherInv, Zenon DEF Tick, caller
<1>3. CASE StopFlush
  BY <1>3, OtherInv, Zenon DEF StopFlush
<1>4. CASE StoreBatchOk
  BY <1>4, StoreBatchOkInv, Zenon
<1>5. ASSUME NEW m \in Messages, Write(m) PROVE WriterInv'
  BY <1>5, WriteInv, Zenon
<1>6. ASSUME NEW n \in 0 .. Len(buffer), StoreBatchError(n) PROVE WriterInv'
  BY <1>6, StoreBatchErrorInv, Zenon
<1> QED
  BY <1>1, <1>2, <1>3, <1>4, <1>5, <1>6, Zenon DEF Next

\* With an empty buffer everything in the log is stored.
LEMMA EmptyStored ==
  ASSUME WriterInv, Len(buffer) = 0, NEW i \in 1 .. Len(log) PROVE log[i] \in Kept
<1>1. Done = Len(log)
  BY DEF Done, WriterInv
<1>2. DOMAIN stored = 1 .. Len(stored)
  BY DEF WriterInv
<1>3. \E j \in 1 .. Len(stored) : stored[j] = log[i]
  BY <1>1, Zenon DEF WriterInv
<1> QED
  BY <1>2, <1>3, Zenon DEF Kept

\* Stop returns nil only with an empty buffer, and what is stored stays.
LEMMA StopNextInv == WriterInv /\ StopInv /\ [Next]_vars => StopInv'
<1> SUFFICES ASSUME WriterInv, StopInv, [Next]_vars PROVE StopInv'
  BY Zenon
<1>0. WriterInv'
  BY WriterNextInv, Zenon
<1>1. CASE Start \/ Cancel \/ Tick \/ Quit \/ UNCHANGED vars
  BY <1>1, Zenon DEF Start, Cancel, Tick, Quit, vars, caller, StopInv, StopFlushesAll, Kept
<1>2. CASE Stop
  BY <1>2, Zenon DEF Stop, StopInv, StopFlushesAll, WriterInv
<1>3. CASE StopFlush
  <2>1. UNCHANGED <<before, log, stored, buffer>> /\ Kept' = Kept
    BY <1>3, Zenon DEF StopFlush, Kept
  <2>2. CASE buffer = <<>>
    <3>1. Len(buffer) = 0
      BY <2>2, Zenon
    <3>2. before \subseteq Kept
      BY <3>1, EmptyStored, Zenon DEF StopInv
    <3> QED
      BY <2>1, <3>2, Zenon DEF StopInv, StopFlushesAll
  <2>3. CASE buffer # <<>>
    BY <1>3, <2>1, <2>3, Zenon DEF StopFlush, StopInv, StopFlushesAll
  <2> QED
    BY <2>2, <2>3, Zenon
<1>4. CASE StoreBatchOk
  <2>1. log' = log /\ before' = before /\ Len(buffer') = 0
    BY <1>4, Zenon DEF StoreBatchOk, Return
  <2>2. \A m \in before' : \E i \in 1 .. Len(log') : log'[i] = m
    BY <2>1, Zenon DEF StopInv
  <2>3. \A i \in 1 .. Len(log') : log'[i] \in Kept'
    <3>1. Done' = Len(log')
      BY <1>0, <2>1 DEF Done, WriterInv
    <3>2. DOMAIN stored' = 1 .. Len(stored')
      BY <1>0 DEF WriterInv
    <3>3. \A i \in 1 .. Len(log') : \E j \in 1 .. Len(stored') : stored'[j] = log'[i]
      BY <1>0, <3>1, Zenon DEF WriterInv
    <3> QED
      BY <3>2, <3>3, Zenon DEF Kept
  <2> QED
    BY <2>2, <2>3, Zenon DEF StopInv, StopFlushesAll
<1>5. ASSUME NEW m \in Messages, Write(m) PROVE StopInv'
  <2>1. log' = Append(log, m) /\ UNCHANGED <<before, stop, stored>>
    BY <1>5, Zenon DEF Write
  <2>2. Len(log) \in Nat /\ Len(log') = Len(log) + 1 /\ \A i \in 1 .. Len(log) : log'[i] = log[i]
    BY <2>1 DEF WriterInv
  <2> QED
    BY <2>1, <2>2 DEF StopInv, StopFlushesAll, Kept
<1>6. ASSUME NEW n \in 0 .. Len(buffer), StoreBatchError(n) PROVE StopInv'
  <2>1. log' = log /\ before' = before /\ stored' = stored \o SubSeq(buffer, 1, n)
    BY <1>6, Zenon DEF StoreBatchError, Return, caller
  <2>2. SubSeq(buffer, 1, n) \in Seq(Messages)
    BY DEF WriterInv
  <2>3. Kept \subseteq Kept'
    BY <2>1, <2>2, StoredGrows, Zenon DEF WriterInv
  <2>4. stop' = "nil" => stop = "nil"
    BY <1>6, Zenon DEF StoreBatchError, Return, caller
  <2> QED
    BY <2>1, <2>3, <2>4, Zenon DEF StopInv, StopFlushesAll
<1> QED
  BY <1>1, <1>2, <1>3, <1>4, <1>5, <1>6, Zenon DEF Next

\* When Stop returns nil, every message whose Write had returned nil before Stop was
\* called is stored, whatever failed in between (Stop, flushLocked).
THEOREM StopStoresAll == Spec => []StopFlushesAll
<1>1. Init => WriterInv /\ StopInv
  BY WriterInitInv, Zenon
<1>2. WriterInv /\ StopInv /\ [Next]_vars => (WriterInv /\ StopInv)'
  BY WriterNextInv, StopNextInv, Zenon
<1>3. StopInv => StopFlushesAll
  BY Zenon DEF StopInv
<1> QED
  BY <1>1, <1>2, <1>3, PTL DEF Spec

\* Every step of the writer is a step of the write-behind log or none of its business.
LEMMA WriterSteps == WriterInv /\ [Next]_vars => [WB!Next]_(WB!vars)
<1> SUFFICES ASSUME WriterInv, [Next]_vars PROVE WB!Next \/ UNCHANGED WB!vars
  BY Zenon
<1>0. Len(log) \in Nat /\ Len(buffer) \in Nat /\ Done \in Nat /\ Done + Len(buffer) = Len(log)
  BY DEF WriterInv, Done
<1>1. CASE Start \/ Cancel \/ Tick \/ Quit \/ Stop \/ StopFlush \/ UNCHANGED vars
  BY <1>1, Zenon DEF Start, Cancel, Tick, Quit, Stop, StopFlush, vars, caller, WB!vars
<1>2. ASSUME NEW m \in Messages, Write(m) PROVE WB!Next
  <2>1. \A i \in DOMAIN log : log[i] # m
    BY <1>2 DEF Write, WriterInv
  <2>2. log' = Append(log, m) /\ buffer' = Append(buffer, m) /\ stored' = stored
    BY <1>2, Zenon DEF Write
  <2>3. Len(log') - Len(buffer') = Len(log) - Len(buffer)
    BY <1>0, <2>2 DEF WriterInv
  <2> QED
    BY <2>1, <2>2, <2>3, Zenon DEF WB!Next, WB!Accept
<1>3. CASE StoreBatchOk
  <2>1. stored' = stored \o buffer /\ buffer' = <<>> /\ log' = log
    BY <1>3, Zenon DEF StoreBatchOk
  <2>2. buffer = SubSeq(buffer, 1, Len(buffer))
    BY DEF WriterInv
  <2>3. SubSeq(buffer, 1, Len(buffer)) = SubSeq(log, Done + 1, Done + Len(buffer))
    BY <1>0, BufferIsEnd
  <2>4. stored' = stored \o SubSeq(log, (Len(log) - Len(buffer)) + 1, Len(log))
    BY <1>0, <2>1, <2>2, <2>3, Zenon DEF Done
  <2>5. Len(log') - Len(buffer') = Len(log)
    BY <1>0, <2>1
  <2>6. WB!Attempt(Len(log))
    BY <1>0, <2>1, <2>4, <2>5 DEF WB!Attempt, Done
  <2> QED
    BY <1>0, <2>6 DEF WB!Next
<1>4. ASSUME NEW n \in 0 .. Len(buffer), StoreBatchError(n) PROVE WB!Next
  <2>1. stored' = stored \o SubSeq(buffer, 1, n) /\ buffer' = buffer /\ log' = log
    BY <1>4, Zenon DEF StoreBatchError
  <2>2. SubSeq(buffer, 1, n) = SubSeq(log, Done + 1, Done + n)
    BY BufferIsEnd, Zenon
  <2>3. Done + n \in Done .. Len(log) /\ Done + n \in 0 .. Len(log)
    BY <1>0
  <2>4. WB!Attempt(Done + n)
    BY <2>1, <2>2, <2>3, Zenon DEF WB!Attempt, Done
  <2> QED
    BY <2>3, <2>4, Zenon DEF WB!Next
<1> QED
  BY <1>1, <1>2, <1>3, <1>4, Zenon DEF Next

\* The batch writer implements the write-behind log: it stores what Write appended in
\* that order and without a gap, and a batch that failed is written again from its first
\* message (Write, flushLocked).
THEOREM WriterIsLog == Spec => ImplementsWriteBehind
<1>1. Init => WB!Init
  BY DEF Init, WB!Init
<1>2. Init => WriterInv
  BY WriterInitInv, Zenon
<1>3. WriterInv /\ [Next]_vars => WriterInv'
  BY WriterNextInv, Zenon
<1>4. WriterInv /\ [Next]_vars => [WB!Next]_(WB!vars)
  BY WriterSteps, Zenon
<1> QED
  BY <1>1, <1>2, <1>3, <1>4, PTL DEF Spec, ImplementsWriteBehind, WB!Spec


-----------------------------------------------------------------------------
(* The sharded writer. *)

\* The log l ends with the buffer b and then the channel c.
Ends(l, b, c) ==
  /\ l \in Seq(ShardMessages) /\ b \in Seq(ShardMessages) /\ c \in Seq(ShardMessages)
  /\ Len(b) + Len(c) <= Len(l)
  /\ \A i \in 1 .. Len(b) : b[i] = l[(Len(l) - Len(c) - Len(b)) + i]
  /\ \A i \in 1 .. Len(c) : c[i] = l[(Len(l) - Len(c)) + i]

\* Every shard's log ends with what its buffer and its channel hold, and a message in a
\* log is one whose Write has returned.
ShardInv ==
  /\ DOMAIN pLog = Parallel!Shards /\ DOMAIN pBuffer = Parallel!Shards
  /\ DOMAIN bufferChan = Parallel!Shards /\ DOMAIN pStored = Parallel!Shards
  /\ DOMAIN pWrite = ShardMessages
  /\ \A s \in Parallel!Shards : /\ Ends(pLog[s], pBuffer[s], bufferChan[s])
                                /\ \A i \in 1 .. Len(pLog[s]) : pWrite[pLog[s][i]] = "nil"

\* A shard that is done has flushed, unless a write failed or the context was cancelled.
FlushInv ==
  /\ DOMAIN pPc = Parallel!Shards /\ DOMAIN pBuffer = Parallel!Shards /\ pErrors \in Nat
  /\ pErrors = 0 /\ ~pCancelled => \A s \in Parallel!Shards : pPc[s] = "done" => pBuffer[s] = <<>>
  /\ pStop = "returned" => \A s \in Parallel!Shards : pPc[s] = "done"

LEMMA EndsLens ==
  ASSUME NEW l, NEW b, NEW c, Ends(l, b, c)
  PROVE  Len(l) \in Nat /\ Len(b) \in Nat /\ Len(c) \in Nat /\ Len(b) + Len(c) <= Len(l)
<1>1. \A q \in Seq(ShardMessages) : Len(q) \in Nat
  OBVIOUS
<1> QED BY <1>1, Zenon DEF Ends

\* Write: the message goes to the log and to the channel.
LEMMA EndsAppend ==
  ASSUME NEW l, NEW b, NEW c, Ends(l, b, c), NEW m \in ShardMessages
  PROVE  Ends(Append(l, m), b, Append(c, m))
<1>1. l \in Seq(ShardMessages) /\ b \in Seq(ShardMessages) /\ c \in Seq(ShardMessages)
  BY Zenon DEF Ends
<1>2. PICK l1, c1 : l1 = Append(l, m) /\ c1 = Append(c, m)
  BY Zenon
<1>3. /\ l1 \in Seq(ShardMessages) /\ Len(l1) = Len(l) + 1
      /\ \A i \in 1 .. Len(l) : l1[i] = l[i]
      /\ l1[Len(l) + 1] = m
  BY <1>1, <1>2
<1>4. /\ c1 \in Seq(ShardMessages) /\ Len(c1) = Len(c) + 1
      /\ \A i \in 1 .. Len(c) : c1[i] = c[i]
      /\ c1[Len(c) + 1] = m
  BY <1>1, <1>2
<1>5. Len(l) \in Nat /\ Len(b) \in Nat /\ Len(c) \in Nat /\ Len(b) + Len(c) <= Len(l)
  BY EndsLens, Zenon
<1>6. ASSUME NEW i \in 1 .. Len(b) PROVE b[i] = l1[(Len(l1) - Len(c1) - Len(b)) + i]
  <2>1. /\ (Len(l1) - Len(c1) - Len(b)) + i = (Len(l) - Len(c) - Len(b)) + i
        /\ (Len(l) - Len(c) - Len(b)) + i \in 1 .. Len(l)
    BY <1>3, <1>4, <1>5
  <2>2. b[i] = l[(Len(l) - Len(c) - Len(b)) + i]
    BY Zenon DEF Ends
  <2> QED BY <1>3, <2>1, <2>2, Zenon
<1>7. ASSUME NEW i \in 1 .. Len(c1) PROVE c1[i] = l1[(Len(l1) - Len(c1)) + i]
  <2>1. CASE i = Len(c) + 1
    <3>1. (Len(l1) - Len(c1)) + i = Len(l) + 1
      BY <1>3, <1>4, <1>5, <2>1
    <3> QED BY <1>3, <1>4, <2>1, <3>1, Zenon
  <2>2. CASE i # Len(c) + 1
    <3>1. /\ i \in 1 .. Len(c) /\ (Len(l1) - Len(c1)) + i = (Len(l) - Len(c)) + i
          /\ (Len(l) - Len(c)) + i \in 1 .. Len(l)
      BY <1>3, <1>4, <1>5, <2>2
    <3>2. c[i] = l[(Len(l) - Len(c)) + i]
      BY <3>1, Zenon DEF Ends
    <3> QED BY <1>3, <1>4, <3>1, <3>2, Zenon
  <2> QED BY <2>1, <2>2, Zenon
<1>8. Len(b) + Len(c1) <= Len(l1)
  BY <1>3, <1>4, <1>5
<1>9. Ends(l1, b, c1)
  BY <1>1, <1>3, <1>4, <1>6, <1>7, <1>8, Zenon DEF Ends
<1> QED BY <1>2, <1>9, Zenon

\* The shard receives the oldest message of its channel.
LEMMA EndsMove ==
  ASSUME NEW l, NEW b, NEW c, Ends(l, b, c), c # <<>>
  PROVE  /\ Ends(l, Append(b, Head(c)), Tail(c))
         /\ Len(l) - Len(Tail(c)) - Len(Append(b, Head(c))) = Len(l) - Len(c) - Len(b)
<1>1. l \in Seq(ShardMessages) /\ b \in Seq(ShardMessages) /\ c \in Seq(ShardMessages)
  BY Zenon DEF Ends
<1>2. PICK b1, c1 : b1 = Append(b, Head(c)) /\ c1 = Tail(c)
  BY Zenon
<1>3. Len(l) \in Nat /\ Len(b) \in Nat /\ Len(c) \in Nat /\ Len(b) + Len(c) <= Len(l)
  BY EndsLens, Zenon
<1>4. Len(c) >= 1 /\ Head(c) = c[1] /\ c[1] \in ShardMessages
  BY <1>1
<1>5. c1 \in Seq(ShardMessages) /\ Len(c1) = Len(c) - 1 /\ \A i \in 1 .. Len(c1) : c1[i] = c[i + 1]
  BY <1>1, <1>2, <1>4
<1>6. /\ b1 \in Seq(ShardMessages) /\ Len(b1) = Len(b) + 1
      /\ \A i \in 1 .. Len(b) : b1[i] = b[i]
      /\ b1[Len(b) + 1] = c[1]
  BY <1>1, <1>2, <1>4
<1>7. Len(l) - Len(c1) - Len(b1) = Len(l) - Len(c) - Len(b)
  BY <1>3, <1>5, <1>6
<1>8. ASSUME NEW i \in 1 .. Len(b1) PROVE b1[i] = l[(Len(l) - Len(c1) - Len(b1)) + i]
  <2>1. CASE i = Len(b) + 1
    <3>1. (Len(l) - Len(c) - Len(b)) + i = (Len(l) - Len(c)) + 1 /\ 1 \in 1 .. Len(c)
      BY <1>3, <1>4, <2>1
    <3>2. c[1] = l[(Len(l) - Len(c)) + 1]
      BY <3>1, Zenon DEF Ends
    <3> QED BY <1>6, <1>7, <2>1, <3>1, <3>2, Zenon
  <2>2. CASE i # Len(b) + 1
    <3>1. i \in 1 .. Len(b)
      BY <1>3, <1>6, <2>2
    <3>2. b[i] = l[(Len(l) - Len(c) - Len(b)) + i]
      BY <3>1, Zenon DEF Ends
    <3> QED BY <1>6, <1>7, <3>1, <3>2, Zenon
  <2> QED BY <2>1, <2>2, Zenon
<1>9. ASSUME NEW i \in 1 .. Len(c1) PROVE c1[i] = l[(Len(l) - Len(c1)) + i]
  <2>1. i + 1 \in 1 .. Len(c) /\ (Len(l) - Len(c)) + (i + 1) = (Len(l) - Len(c1)) + i
    BY <1>3, <1>5
  <2>2. c[i + 1] = l[(Len(l) - Len(c)) + (i + 1)]
    BY <2>1, Zenon DEF Ends
  <2> QED BY <1>5, <2>1, <2>2, Zenon
<1>10. Len(b1) + Len(c1) <= Len(l)
  BY <1>3, <1>5, <1>6
<1>11. Ends(l, b1, c1)
  BY <1>1, <1>5, <1>6, <1>8, <1>9, <1>10, Zenon DEF Ends
<1> QED BY <1>2, <1>7, <1>11, Zenon

\* A batch that was stored leaves the buffer.
LEMMA EndsClear ==
  ASSUME NEW l, NEW b, NEW c, Ends(l, b, c) PROVE Ends(l, <<>>, c)
<1>1. <<>> \in Seq(ShardMessages) /\ Len(<<>>) = 0 /\ \A i \in 1 .. 0 : FALSE
  OBVIOUS
<1>2. Len(l) \in Nat /\ Len(b) \in Nat /\ Len(c) \in Nat /\ Len(b) + Len(c) <= Len(l)
  BY EndsLens, Zenon
<1>3. 0 + Len(c) <= Len(l)
  BY <1>2
<1> QED BY <1>1, <1>3, Zenon DEF Ends

\* What a call of the storage stores is the log after what was known to be stored.
LEMMA EndsSub ==
  ASSUME NEW l, NEW b, NEW c, Ends(l, b, c), NEW n \in 0 .. Len(b)
  PROVE  SubSeq(b, 1, n) =
           SubSeq(l, (Len(l) - Len(c) - Len(b)) + 1, (Len(l) - Len(c) - Len(b)) + n)
<1>0. PICK d : d = Len(l) - Len(c) - Len(b)
  BY Zenon
<1>1. l \in Seq(ShardMessages) /\ b \in Seq(ShardMessages)
  BY Zenon DEF Ends
<1>2. d \in Nat /\ d + n <= Len(l) /\ n \in Nat /\ n <= Len(b) /\ Len(l) \in Nat
  BY <1>0, EndsLens
<1>3. SubSeq(b, 1, n) = [i \in 1 .. n |-> b[i]]
  BY <1>1, <1>2
<1>4. SubSeq(l, d + 1, d + n) = [i \in 1 .. n |-> l[d + i]]
  BY <1>1, <1>2
<1>5. \A i \in 1 .. n : b[i] = l[d + i]
  <2>1. \A i \in 1 .. n : i \in 1 .. Len(b)
    BY <1>2
  <2> QED BY <1>0, <2>1, Zenon DEF Ends
<1> QED BY <1>0, <1>3, <1>4, <1>5, Zenon


\* What a shard knows to be stored.
ShardDone(s) == Len(pLog[s]) - Len(bufferChan[s]) - Len(pBuffer[s])

LEMMA ShardLens ==
  ASSUME ShardInv, NEW s \in Parallel!Shards
  PROVE  /\ Len(pLog[s]) \in Nat /\ Len(pBuffer[s]) \in Nat /\ Len(bufferChan[s]) \in Nat
         /\ ShardDone(s) \in Nat /\ ShardDone(s) + Len(pBuffer[s]) <= Len(pLog[s])
<1>1. Ends(pLog[s], pBuffer[s], bufferChan[s])
  BY Zenon DEF ShardInv
<1>2. PICK l, b, c : l = pLog[s] /\ b = pBuffer[s] /\ c = bufferChan[s]
  BY Zenon
<1>3. Len(l) \in Nat /\ Len(b) \in Nat /\ Len(c) \in Nat /\ Len(b) + Len(c) <= Len(l)
  BY <1>1, <1>2, EndsLens, Zenon
<1>4. Len(l) - Len(c) - Len(b) \in Nat /\ (Len(l) - Len(c) - Len(b)) + Len(b) <= Len(l)
  BY <1>3
<1> QED BY <1>2, <1>3, <1>4, Zenon DEF ShardDone

\* The steps of a write-behind log, as a shard takes them.
LEMMA ShardAccept ==
  ASSUME NEW s \in Parallel!Shards, NEW m \in ShardMessages,
         \A i \in DOMAIN pLog[s] : pLog[s][i] # m,
         pLog'[s] = Append(pLog[s], m), pStored' = pStored, ShardDone(s)' = ShardDone(s)
  PROVE  Parallel!WB(s)!Next
BY Zenon DEF Parallel!WB!Next, Parallel!WB!Accept, ShardDone

LEMMA ShardAttempt ==
  ASSUME NEW s \in Parallel!Shards, NEW n \in 0 .. Len(pLog[s]), n \in ShardDone(s) .. Len(pLog[s]),
         pStored'[s] = pStored[s] \o SubSeq(pLog[s], ShardDone(s) + 1, n),
         ShardDone(s)' \in {ShardDone(s), n}, pLog' = pLog
  PROVE  Parallel!WB(s)!Next
BY Zenon DEF Parallel!WB!Next, Parallel!WB!Attempt, ShardDone

LEMMA ShardQuiet ==
  ASSUME NEW s \in Parallel!Shards, pLog'[s] = pLog[s], pStored'[s] = pStored[s],
         ShardDone(s)' = ShardDone(s)
  PROVE  UNCHANGED Parallel!WB(s)!vars
BY Zenon DEF Parallel!WB!vars, ShardDone

\* What a step of the sharded writer is to its shards.
ShardsStep == \A s \in Parallel!Shards : Parallel!WB(s)!Next \/ UNCHANGED Parallel!WB(s)!vars

LEMMA ShardUnchanged ==
  ASSUME ShardInv, UNCHANGED <<pLog, pBuffer, bufferChan, pStored, pWrite>>
  PROVE  ShardInv' /\ ShardsStep
<1>1. ShardInv'
  BY Zenon DEF ShardInv, Parallel!Shards
<1>2. ASSUME NEW s \in Parallel!Shards PROVE UNCHANGED Parallel!WB(s)!vars
  <2>1. pLog'[s] = pLog[s] /\ pStored'[s] = pStored[s] /\ ShardDone(s)' = ShardDone(s)
    BY Zenon DEF ShardDone
  <2> QED BY <2>1, ShardQuiet, Zenon
<1> QED BY <1>1, <1>2, Zenon DEF ShardsStep

\* Write returns an error, or goes on: no log changes.
LEMMA ShardRefused ==
  ASSUME ShardInv, NEW m \in ShardMessages, NEW r, pWrite[m] # "nil",
         pWrite' = [pWrite EXCEPT ![m] = r], UNCHANGED <<pLog, pBuffer, bufferChan, pStored>>
  PROVE  ShardInv' /\ ShardsStep
<1>1. DOMAIN pWrite' = ShardMessages /\ \A x \in ShardMessages : x # m => pWrite'[x] = pWrite[x]
  BY Zenon DEF ShardInv
<1>2. ASSUME NEW s \in Parallel!Shards, NEW i \in 1 .. Len(pLog[s]) PROVE pWrite'[pLog[s][i]] = "nil"
  <2>1. pWrite[pLog[s][i]] = "nil" /\ pLog[s] \in Seq(ShardMessages)
    BY Zenon DEF ShardInv, Ends
  <2>2. pLog[s][i] \in ShardMessages
    BY <2>1
  <2> QED BY <1>1, <2>1, <2>2, Zenon
<1>3. ShardInv'
  <2>1. \A s \in Parallel!Shards : Ends(pLog'[s], pBuffer'[s], bufferChan'[s])
    BY Zenon DEF ShardInv
  <2>2. \A s \in Parallel!Shards : \A i \in 1 .. Len(pLog'[s]) : pWrite'[pLog'[s][i]] = "nil"
    BY <1>2, Zenon
  <2>3. /\ DOMAIN pLog' = Parallel!Shards /\ DOMAIN pBuffer' = Parallel!Shards
        /\ DOMAIN bufferChan' = Parallel!Shards /\ DOMAIN pStored' = Parallel!Shards
    BY Zenon DEF ShardInv
  <2> QED BY <1>1, <2>1, <2>2, <2>3, Zenon DEF ShardInv, Parallel!Shards
<1>4. ASSUME NEW s \in Parallel!Shards PROVE UNCHANGED Parallel!WB(s)!vars
  <2>1. pLog'[s] = pLog[s] /\ pStored'[s] = pStored[s] /\ ShardDone(s)' = ShardDone(s)
    BY Zenon DEF ShardDone
  <2> QED BY <2>1, ShardQuiet, Zenon
<1> QED BY <1>3, <1>4, Zenon DEF ShardsStep

\* Write sends the message to the channel of a shard.
LEMMA ShardTakes ==
  ASSUME ShardInv, NEW m \in ShardMessages, NEW s \in Parallel!Shards, pWrite[m] # "nil",
         bufferChan' = [bufferChan EXCEPT ![s] = Append(@, m)],
         pLog' = [pLog EXCEPT ![s] = Append(@, m)],
         pWrite' = [pWrite EXCEPT ![m] = "nil"], UNCHANGED <<pBuffer, pStored>>
  PROVE  ShardInv' /\ ShardsStep
<1>1. /\ DOMAIN pLog' = Parallel!Shards /\ DOMAIN bufferChan' = Parallel!Shards
      /\ pLog'[s] = Append(pLog[s], m) /\ bufferChan'[s] = Append(bufferChan[s], m)
      /\ \A t \in Parallel!Shards : t # s => pLog'[t] = pLog[t] /\ bufferChan'[t] = bufferChan[t]
  BY Zenon DEF ShardInv
<1>2. /\ DOMAIN pWrite' = ShardMessages /\ pWrite'[m] = "nil"
      /\ \A x \in ShardMessages : x # m => pWrite'[x] = pWrite[x]
  BY Zenon DEF ShardInv
<1>3. \A t \in Parallel!Shards :
        /\ pLog[t] \in Seq(ShardMessages) /\ \A i \in 1 .. Len(pLog[t]) : pWrite[pLog[t][i]] = "nil"
        /\ Ends(pLog[t], pBuffer[t], bufferChan[t])
  BY Zenon DEF ShardInv, Ends
<1>4. ASSUME NEW t \in Parallel!Shards PROVE Ends(pLog'[t], pBuffer'[t], bufferChan'[t])
  <2>1. CASE t = s
    <3>1. Ends(Append(pLog[s], m), pBuffer[s], Append(bufferChan[s], m))
      BY <1>3, EndsAppend, Zenon
    <3> QED BY <1>1, <2>1, <3>1, Zenon
  <2>2. CASE t # s
    BY <1>1, <1>3, <2>2, Zenon
  <2> QED BY <2>1, <2>2, Zenon
<1>5. ASSUME NEW t \in Parallel!Shards, NEW i \in 1 .. Len(pLog'[t]) PROVE pWrite'[pLog'[t][i]] = "nil"
  <2>1. CASE t = s /\ i = Len(pLog[s]) + 1
    BY <1>1, <1>2, <1>3, <2>1
  <2>2. CASE t # s \/ i # Len(pLog[s]) + 1
    <3>1. i \in 1 .. Len(pLog[t]) /\ pLog'[t][i] = pLog[t][i]
      <4>1. CASE t # s
        BY <1>1, <4>1, Zenon
      <4>2. CASE t = s
        BY <1>1, <1>3, <2>2, <4>2
      <4> QED BY <4>1, <4>2, Zenon
    <3>2. pLog[t][i] \in ShardMessages
      BY <1>3, <3>1
    <3> QED BY <1>2, <1>3, <3>1, <3>2, Zenon
  <2> QED BY <2>1, <2>2, Zenon
<1>6. ShardInv'
  BY <1>1, <1>2, <1>4, <1>5, Zenon DEF ShardInv, Parallel!Shards
<1>7. ASSUME NEW t \in Parallel!Shards PROVE Parallel!WB(t)!Next \/ UNCHANGED Parallel!WB(t)!vars
  <2>1. CASE t = s
    <3>1. \A i \in DOMAIN pLog[s] : pLog[s][i] # m
      <4>1. pLog[s] \in Seq(ShardMessages)
        BY <1>3, Zenon
      <4>2. DOMAIN pLog[s] = 1 .. Len(pLog[s])
        BY <4>1
      <4> QED BY <1>3, <4>2, Zenon
    <3>2. PICK l, c, b : l = pLog[s] /\ c = bufferChan[s] /\ b = pBuffer[s] /\ Ends(l, b, c)
      BY <1>3, Zenon
    <3>3. Len(Append(l, m)) - Len(Append(c, m)) - Len(b) = Len(l) - Len(c) - Len(b)
      <4>1. l \in Seq(ShardMessages) /\ c \in Seq(ShardMessages)
        BY <3>2, Zenon DEF Ends
      <4>2. Len(Append(l, m)) = Len(l) + 1 /\ Len(Append(c, m)) = Len(c) + 1
        BY <4>1
      <4>3. Len(l) \in Nat /\ Len(c) \in Nat /\ Len(b) \in Nat
        BY <3>2, EndsLens, Zenon
      <4> QED BY <4>2, <4>3
    <3>4. ShardDone(s)' = ShardDone(s)
      BY <1>1, <3>2, <3>3, Zenon DEF ShardDone
    <3> QED BY <1>1, <2>1, <3>1, <3>4, ShardAccept, Zenon
  <2>2. CASE t # s
    <3>1. pLog'[t] = pLog[t] /\ pStored'[t] = pStored[t] /\ ShardDone(t)' = ShardDone(t)
      BY <1>1, <2>2, Zenon DEF ShardDone
    <3> QED BY <3>1, ShardQuiet, Zenon
  <2> QED BY <2>1, <2>2, Zenon
<1> QED BY <1>6, <1>7, Zenon DEF ShardsStep


\* A shard receives a message, stores its batch, or fails to.
LEMMA ShardMoves ==
  ASSUME ShardInv, NEW s \in Parallel!Shards, NEW b, NEW c, NEW q,
         /\ DOMAIN pBuffer' = Parallel!Shards /\ DOMAIN bufferChan' = Parallel!Shards
         /\ DOMAIN pStored' = Parallel!Shards /\ pLog' = pLog /\ pWrite' = pWrite
         /\ pBuffer'[s] = b /\ bufferChan'[s] = c /\ pStored'[s] = q
         /\ \A t \in Parallel!Shards :
              t # s => pBuffer'[t] = pBuffer[t] /\ bufferChan'[t] = bufferChan[t] /\ pStored'[t] = pStored[t],
         Ends(pLog[s], b, c),
         \/ q = pStored[s] /\ Len(pLog[s]) - Len(c) - Len(b) = ShardDone(s)
         \/ \E n \in 0 .. Len(pBuffer[s]) :
              /\ q = pStored[s] \o SubSeq(pBuffer[s], 1, n)
              /\ Len(pLog[s]) - Len(c) - Len(b) \in {ShardDone(s), ShardDone(s) + n}
  PROVE  ShardInv' /\ ShardsStep
<1>1. /\ DOMAIN pBuffer' = Parallel!Shards /\ DOMAIN bufferChan' = Parallel!Shards
      /\ DOMAIN pStored' = Parallel!Shards /\ DOMAIN pLog' = Parallel!Shards
      /\ pBuffer'[s] = b /\ bufferChan'[s] = c /\ pStored'[s] = q
      /\ \A t \in Parallel!Shards :
           t # s => pBuffer'[t] = pBuffer[t] /\ bufferChan'[t] = bufferChan[t] /\ pStored'[t] = pStored[t]
  BY Zenon DEF ShardInv
<1>2. ASSUME NEW t \in Parallel!Shards PROVE Ends(pLog'[t], pBuffer'[t], bufferChan'[t])
  <2>1. Ends(pLog[t], pBuffer[t], bufferChan[t])
    BY Zenon DEF ShardInv
  <2>2. CASE t = s
    BY <1>1, <2>2, Zenon
  <2>3. CASE t # s
    BY <1>1, <2>1, <2>3, Zenon
  <2> QED BY <2>2, <2>3, Zenon
<1>3. \A t \in Parallel!Shards : \A i \in 1 .. Len(pLog'[t]) : pWrite'[pLog'[t][i]] = "nil"
  BY Zenon DEF ShardInv
<1>4. DOMAIN pWrite' = ShardMessages
  BY Zenon DEF ShardInv
<1>5. ShardInv'
  BY <1>1, <1>2, <1>3, <1>4, Zenon DEF ShardInv, Parallel!Shards
<1>6. ShardDone(s)' = Len(pLog[s]) - Len(c) - Len(b)
  BY <1>1, Zenon DEF ShardDone
<1>7. ASSUME NEW t \in Parallel!Shards, t # s PROVE UNCHANGED Parallel!WB(t)!vars
  <2>1. pLog'[t] = pLog[t] /\ pStored'[t] = pStored[t] /\ ShardDone(t)' = ShardDone(t)
    BY <1>1, <1>7, Zenon DEF ShardDone
  <2> QED BY <2>1, ShardQuiet, Zenon
<1>8. Parallel!WB(s)!Next \/ UNCHANGED Parallel!WB(s)!vars
  <2>1. CASE q = pStored[s] /\ Len(pLog[s]) - Len(c) - Len(b) = ShardDone(s)
    <3>1. pLog'[s] = pLog[s] /\ pStored'[s] = pStored[s] /\ ShardDone(s)' = ShardDone(s)
      BY <1>1, <1>6, <2>1, Zenon
    <3> QED BY <3>1, ShardQuiet, Zenon
  <2>2. ASSUME NEW n \in 0 .. Len(pBuffer[s]), q = pStored[s] \o SubSeq(pBuffer[s], 1, n),
               Len(pLog[s]) - Len(c) - Len(b) \in {ShardDone(s), ShardDone(s) + n}
        PROVE  Parallel!WB(s)!Next
    <3>1. PICK d : d = ShardDone(s)
      BY Zenon
    <3>2. SubSeq(pBuffer[s], 1, n) = SubSeq(pLog[s], d + 1, d + n)
      <4>1. Ends(pLog[s], pBuffer[s], bufferChan[s])
        BY Zenon DEF ShardInv
      <4>2. d = Len(pLog[s]) - Len(bufferChan[s]) - Len(pBuffer[s])
        BY <3>1, Zenon DEF ShardDone
      <4>3. PICK l, y, c1 : l = pLog[s] /\ y = pBuffer[s] /\ c1 = bufferChan[s]
        BY Zenon
      <4>4. Ends(l, y, c1) /\ d = Len(l) - Len(c1) - Len(y) /\ n \in 0 .. Len(y)
        BY <4>1, <4>2, <4>3, Zenon
      <4>5. Ends(l, y, c1) /\ n \in 0 .. Len(y)
        BY <4>4, Zenon
      <4>6. SubSeq(y, 1, n) = SubSeq(l, (Len(l) - Len(c1) - Len(y)) + 1, (Len(l) - Len(c1) - Len(y)) + n)
        BY ONLY <4>5, EndsSub
      <4> QED BY <4>3, <4>4, <4>6, Zenon
    <3>3. d + n \in 0 .. Len(pLog[s]) /\ d + n \in d .. Len(pLog[s])
      <4>1. /\ Len(pLog[s]) \in Nat /\ Len(pBuffer[s]) \in Nat
            /\ d \in Nat /\ d + Len(pBuffer[s]) <= Len(pLog[s])
        BY <3>1, ShardLens, Zenon
      <4> QED BY <4>1
    <3>4. pStored'[s] = pStored[s] \o SubSeq(pLog[s], ShardDone(s) + 1, ShardDone(s) + n)
      BY <1>1, <2>2, <3>1, <3>2, Zenon
    <3>5. ShardDone(s)' \in {ShardDone(s), ShardDone(s) + n}
      BY <1>6, <2>2, Zenon
    <3>6. ShardDone(s) + n \in 0 .. Len(pLog[s]) /\ ShardDone(s) + n \in ShardDone(s) .. Len(pLog[s])
      BY <3>1, <3>3, Zenon
    <3> QED BY <3>4, <3>5, <3>6, ShardAttempt, Zenon
  <2> QED BY <2>1, <2>2, Zenon
<1> QED BY <1>5, <1>7, <1>8, Zenon DEF ShardsStep

LEMMA ShardReceive ==
  ASSUME ShardInv, NEW s \in Parallel!Shards, Parallel!Receive(s)
  PROVE  ShardInv' /\ ShardsStep
<1>1. PICK b, c : b = Append(pBuffer[s], Head(bufferChan[s])) /\ c = Tail(bufferChan[s])
  BY Zenon
<1>2. /\ bufferChan[s] # <<>> /\ UNCHANGED <<pLog, pWrite, pStored>>
      /\ pBuffer' = [pBuffer EXCEPT ![s] = b] /\ bufferChan' = [bufferChan EXCEPT ![s] = c]
  BY <1>1, Zenon DEF Parallel!Receive
<1>3. Ends(pLog[s], pBuffer[s], bufferChan[s])
  BY Zenon DEF ShardInv
<1>4. /\ Ends(pLog[s], b, c)
      /\ Len(pLog[s]) - Len(c) - Len(b) = ShardDone(s)
  BY <1>1, <1>2, <1>3, EndsMove, Zenon DEF ShardDone
<1>5. /\ DOMAIN pBuffer' = Parallel!Shards /\ DOMAIN bufferChan' = Parallel!Shards
      /\ DOMAIN pStored' = Parallel!Shards /\ pLog' = pLog /\ pWrite' = pWrite
      /\ pBuffer'[s] = b /\ bufferChan'[s] = c /\ pStored'[s] = pStored[s]
      /\ \A t \in Parallel!Shards :
           t # s => pBuffer'[t] = pBuffer[t] /\ bufferChan'[t] = bufferChan[t] /\ pStored'[t] = pStored[t]
  BY <1>2, Zenon DEF ShardInv
<1> QED BY <1>4, <1>5, ShardMoves, Zenon

LEMMA ShardStoreOk ==
  ASSUME ShardInv, NEW s \in Parallel!Shards, Parallel!StoreBatchOk(s)
  PROVE  ShardInv' /\ ShardsStep
<1>1. PICK b, l, c : b = pBuffer[s] /\ l = pLog[s] /\ c = bufferChan[s]
  BY Zenon
<1>2. /\ UNCHANGED <<pLog, pWrite, bufferChan>> /\ pBuffer' = [pBuffer EXCEPT ![s] = <<>>]
      /\ pStored' = [pStored EXCEPT ![s] = pStored[s] \o b]
  BY <1>1, Zenon DEF Parallel!StoreBatchOk
<1>3. Ends(l, b, c)
  BY <1>1, Zenon DEF ShardInv
<1>4. Ends(pLog[s], <<>>, bufferChan[s])
  BY <1>1, <1>3, EndsClear, Zenon
<1>5. /\ DOMAIN pBuffer' = Parallel!Shards /\ DOMAIN bufferChan' = Parallel!Shards
      /\ DOMAIN pStored' = Parallel!Shards /\ pLog' = pLog /\ pWrite' = pWrite
      /\ pBuffer'[s] = <<>> /\ bufferChan'[s] = bufferChan[s] /\ pStored'[s] = pStored[s] \o b
      /\ \A t \in Parallel!Shards :
           t # s => pBuffer'[t] = pBuffer[t] /\ bufferChan'[t] = bufferChan[t] /\ pStored'[t] = pStored[t]
  BY <1>2, Zenon DEF ShardInv
<1>6. SubSeq(b, 1, Len(b)) = b /\ Len(b) \in 0 .. Len(b) /\ Len(<<>>) = 0
  BY <1>3 DEF Ends
<1>7. Len(l) - Len(c) - 0 = (Len(l) - Len(c) - Len(b)) + Len(b)
  BY <1>3, EndsLens
<1>8. /\ pStored[s] \o b = pStored[s] \o SubSeq(pBuffer[s], 1, Len(b))
      /\ Len(b) \in 0 .. Len(pBuffer[s])
      /\ Len(pLog[s]) - Len(bufferChan[s]) - Len(<<>>) = ShardDone(s) + Len(b)
  BY <1>1, <1>6, <1>7, Zenon DEF ShardDone
<1> QED BY <1>4, <1>5, <1>8, ShardMoves, Zenon

LEMMA ShardStoreError ==
  ASSUME ShardInv, NEW s \in Parallel!Shards, NEW n \in 0 .. Len(pBuffer[s]),
         Parallel!StoreBatchError(s, n)
  PROVE  ShardInv' /\ ShardsStep
<1>1. /\ UNCHANGED <<pLog, pWrite, bufferChan, pBuffer>>
      /\ pStored' = [pStored EXCEPT ![s] = pStored[s] \o SubSeq(pBuffer[s], 1, n)]
  BY Zenon DEF Parallel!StoreBatchError
<1>2. /\ DOMAIN pBuffer' = Parallel!Shards /\ DOMAIN bufferChan' = Parallel!Shards
      /\ DOMAIN pStored' = Parallel!Shards /\ pLog' = pLog /\ pWrite' = pWrite
      /\ pBuffer'[s] = pBuffer[s] /\ bufferChan'[s] = bufferChan[s]
      /\ pStored'[s] = pStored[s] \o SubSeq(pBuffer[s], 1, n)
      /\ \A t \in Parallel!Shards :
           t # s => pBuffer'[t] = pBuffer[t] /\ bufferChan'[t] = bufferChan[t] /\ pStored'[t] = pStored[t]
  BY <1>1, Zenon DEF ShardInv
<1>3. Ends(pLog[s], pBuffer[s], bufferChan[s])
  BY Zenon DEF ShardInv
<1>4. Len(pLog[s]) - Len(bufferChan[s]) - Len(pBuffer[s]) = ShardDone(s)
  BY Zenon DEF ShardDone
<1> QED BY <1>2, <1>3, <1>4, ShardMoves, Zenon


\* Write's send, to the shard of the topic or to the next one.
LEMMA ShardSend ==
  ASSUME ShardInv, NEW m \in ShardMessages, Parallel!WriteSend(m)
  PROVE  ShardInv' /\ ShardsStep
<1>1. PICK s : s = IF pWrite[m] = "first" THEN getShardID[m] ELSE (getShardID[m] + 1) % NumShards
  BY Zenon
<1>2. s \in Parallel!Shards
  <2>1. PICK g : g = getShardID[m]
    BY Zenon
  <2>2. g \in 0 .. NumShards - 1 /\ NumShards \in Nat \ {0}
    BY <2>1, WritersAssumption, Zenon
  <2>3. (g + 1) % NumShards \in 0 .. NumShards - 1
    BY <2>2
  <2> QED BY <1>1, <2>1, <2>2, <2>3, Zenon DEF Parallel!Shards
<1>3. pWrite[m] \in {"first", "next"} /\ UNCHANGED <<pBuffer, pStored>>
  BY Zenon DEF Parallel!WriteSend, Parallel!shard
<1>4. pWrite[m] # "nil"
  BY <1>3
<1>5. \/ /\ bufferChan' = [bufferChan EXCEPT ![s] = Append(@, m)]
         /\ pLog' = [pLog EXCEPT ![s] = Append(@, m)]
         /\ pWrite' = [pWrite EXCEPT ![m] = "nil"]
      \/ /\ \E r : pWrite' = [pWrite EXCEPT ![m] = r]
         /\ UNCHANGED <<bufferChan, pLog>>
  BY <1>1, Zenon DEF Parallel!WriteSend
<1>6. CASE /\ bufferChan' = [bufferChan EXCEPT ![s] = Append(@, m)]
           /\ pLog' = [pLog EXCEPT ![s] = Append(@, m)]
           /\ pWrite' = [pWrite EXCEPT ![m] = "nil"]
  BY <1>2, <1>3, <1>4, <1>6, ShardTakes, Zenon
<1>7. ASSUME NEW r, pWrite' = [pWrite EXCEPT ![m] = r], UNCHANGED <<bufferChan, pLog>>
      PROVE  ShardInv' /\ ShardsStep
  BY <1>3, <1>4, <1>7, ShardRefused, Zenon
<1> QED BY <1>5, <1>6, <1>7, Zenon

\* Every step of the sharded writer keeps the invariant, and is to every shard a step of a
\* write-behind log or none of its business.
LEMMA ShardSteps ==
  ASSUME ShardInv, [Parallel!Next]_(Parallel!vars)
  PROVE  ShardInv' /\ ShardsStep
<1>1. CASE Parallel!Start \/ Parallel!Cancel \/ Parallel!Stop \/ Parallel!StopClose
           \/ Parallel!StopWait \/ UNCHANGED Parallel!vars
  <2>1. UNCHANGED <<pLog, pBuffer, bufferChan, pStored, pWrite>>
    BY <1>1, Zenon DEF Parallel!Start, Parallel!Cancel, Parallel!Stop, Parallel!StopClose,
       Parallel!StopWait, Parallel!vars, Parallel!shard
  <2> QED BY <2>1, ShardUnchanged, Zenon
<1>2. ASSUME NEW m \in ShardMessages, Parallel!WriteCheck(m) PROVE ShardInv' /\ ShardsStep
  <2>1. /\ pWrite[m] = "new" /\ \E r : pWrite' = [pWrite EXCEPT ![m] = r]
        /\ UNCHANGED <<pLog, pBuffer, bufferChan, pStored>>
    BY <1>2, Zenon DEF Parallel!WriteCheck, Parallel!shard
  <2>2. pWrite[m] # "nil"
    BY <2>1
  <2> QED BY <2>1, <2>2, ShardRefused, Zenon
<1>3. ASSUME NEW m \in ShardMessages, Parallel!WriteSend(m) PROVE ShardInv' /\ ShardsStep
  BY <1>3, ShardSend, Zenon
<1>4. ASSUME NEW s \in Parallel!Shards,
             Parallel!Tick(s) \/ Parallel!StopCase(s) \/ Parallel!CancelCase(s)
      PROVE  ShardInv' /\ ShardsStep
  <2>1. UNCHANGED <<pLog, pBuffer, bufferChan, pStored, pWrite>>
    BY <1>4, Zenon DEF Parallel!Tick, Parallel!StopCase, Parallel!CancelCase
  <2> QED BY <2>1, ShardUnchanged, Zenon
<1>5. ASSUME NEW s \in Parallel!Shards, Parallel!Receive(s) PROVE ShardInv' /\ ShardsStep
  BY <1>5, ShardReceive, Zenon
<1>6. ASSUME NEW s \in Parallel!Shards, Parallel!StoreBatchOk(s) PROVE ShardInv' /\ ShardsStep
  BY <1>6, ShardStoreOk, Zenon
<1>7. ASSUME NEW s \in Parallel!Shards, NEW n \in 0 .. Len(pBuffer[s]), Parallel!StoreBatchError(s, n)
      PROVE  ShardInv' /\ ShardsStep
  BY <1>7, ShardStoreError, Zenon
<1> QED BY <1>1, <1>2, <1>3, <1>4, <1>5, <1>6, <1>7, Zenon DEF Parallel!Next

LEMMA ShardInit ==
  ASSUME Parallel!Init
  PROVE  ShardInv /\ FlushInv /\ \A s \in Parallel!Shards : Parallel!WB(s)!Init
<1>1. \A s \in Parallel!Shards :
        pLog[s] = <<>> /\ pBuffer[s] = <<>> /\ bufferChan[s] = <<>> /\ pStored[s] = <<>>
  BY Zenon DEF Parallel!Init
<1>2. /\ DOMAIN pLog = Parallel!Shards /\ DOMAIN pBuffer = Parallel!Shards
      /\ DOMAIN bufferChan = Parallel!Shards /\ DOMAIN pStored = Parallel!Shards
      /\ DOMAIN pPc = Parallel!Shards /\ DOMAIN pWrite = ShardMessages
  BY Zenon DEF Parallel!Init
<1>3. Ends(<<>>, <<>>, <<>>) /\ (\A i \in 1 .. Len(<<>>) : FALSE) /\ Len(<<>>) = 0
  BY DEF Ends
<1>4. ShardInv
  BY <1>1, <1>2, <1>3, Zenon DEF ShardInv
<1>5. pErrors = 0 /\ pStop = "no"
  BY Zenon DEF Parallel!Init
<1>6. FlushInv
  BY <1>1, <1>2, <1>5 DEF FlushInv
<1>7. Len(<<>>) = 0 /\ 0 - 0 - 0 = 0
  OBVIOUS
<1>8. ASSUME NEW s \in Parallel!Shards PROVE Parallel!WB(s)!Init
  <2>1. Len(pLog[s]) - Len(bufferChan[s]) - Len(pBuffer[s]) = 0
    BY <1>1, <1>7, Zenon
  <2> QED BY <1>1, <2>1, Zenon DEF Parallel!WB!Init
<1> QED BY <1>4, <1>6, <1>8, Zenon

\* The final flush: a shard is done with an empty buffer, or after a failed write or a
\* cancelled context.
LEMMA FlushSteps ==
  ASSUME FlushInv, [Parallel!Next]_(Parallel!vars)
  PROVE  FlushInv'
<1>1. CASE UNCHANGED Parallel!vars
  BY <1>1, Zenon DEF FlushInv, Parallel!vars, Parallel!shard, Parallel!ctl, Parallel!Shards
<1>2. CASE Parallel!Start
  <2>1. /\ pStop' = "no" /\ UNCHANGED <<pBuffer, pErrors>>
        /\ DOMAIN pPc' = Parallel!Shards /\ \A s \in Parallel!Shards : pPc'[s] = "select"
    BY <1>2, Zenon DEF Parallel!Start
  <2> QED BY <2>1 DEF FlushInv, Parallel!Shards
<1>3. CASE Parallel!Cancel \/ Parallel!Stop \/ Parallel!StopClose \/ Parallel!StopWait
  <2>1. /\ UNCHANGED <<pBuffer, pErrors, pPc>> /\ (pCancelled' = pCancelled \/ pCancelled')
    BY <1>3, Zenon DEF Parallel!Cancel, Parallel!Stop, Parallel!StopClose, Parallel!StopWait, Parallel!shard
  <2>2. pStop' = "returned" => pStop = "returned" \/ \A s \in Parallel!Shards : pPc[s] = "done"
    BY <1>3 DEF Parallel!Cancel, Parallel!Stop, Parallel!StopClose, Parallel!StopWait
  <2> QED BY <2>1, <2>2, Zenon DEF FlushInv, Parallel!Shards
<1>4. ASSUME NEW m \in ShardMessages, Parallel!WriteCheck(m) \/ Parallel!WriteSend(m) PROVE FlushInv'
  <2>1. UNCHANGED <<pPc, pBuffer, pErrors, pCancelled, pStop>>
    BY <1>4, Zenon DEF Parallel!WriteCheck, Parallel!WriteSend, Parallel!shard, Parallel!ctl
  <2> QED BY <2>1, Zenon DEF FlushInv, Parallel!Shards
<1>5. ASSUME NEW s \in Parallel!Shards, Parallel!Receive(s) PROVE FlushInv'
  BY <1>5 DEF FlushInv, Parallel!Receive, Parallel!Shards, Parallel!ctl
<1>6. ASSUME NEW s \in Parallel!Shards,
             Parallel!Tick(s) \/ Parallel!StopCase(s) \/ Parallel!CancelCase(s)
      PROVE  FlushInv'
  <2>1. /\ UNCHANGED <<pBuffer, pErrors, pCancelled, pStop>> /\ pPc[s] = "select"
        /\ DOMAIN pPc' = Parallel!Shards
        /\ \A t \in Parallel!Shards : t # s => pPc'[t] = pPc[t]
    BY <1>6, Zenon DEF FlushInv, Parallel!Tick, Parallel!StopCase, Parallel!CancelCase, Parallel!ctl
  <2>2. pPc'[s] = "done" => pCancelled \/ pBuffer[s] = <<>>
    BY <1>6 DEF FlushInv, Parallel!Tick, Parallel!StopCase, Parallel!CancelCase
  <2>3. pStop # "returned"
    BY <2>1 DEF FlushInv
  <2>4. pErrors' = 0 /\ ~pCancelled' => \A t \in Parallel!Shards : pPc'[t] = "done" => pBuffer'[t] = <<>>
    BY <2>1, <2>2, Zenon DEF FlushInv
  <2> QED BY <2>1, <2>3, <2>4, Zenon DEF FlushInv, Parallel!Shards
<1>7. ASSUME NEW s \in Parallel!Shards, Parallel!StoreBatchOk(s) PROVE FlushInv'
  BY <1>7 DEF FlushInv, Parallel!StoreBatchOk, Parallel!Return, Parallel!Shards, Parallel!ctl
<1>8. ASSUME NEW s \in Parallel!Shards, NEW n \in 0 .. Len(pBuffer[s]), Parallel!StoreBatchError(s, n)
      PROVE  FlushInv'
  BY <1>8 DEF FlushInv, Parallel!StoreBatchError, Parallel!Return, Parallel!Shards, Parallel!ctl
<1> QED BY <1>1, <1>2, <1>3, <1>4, <1>5, <1>6, <1>7, <1>8, Zenon DEF Parallel!Next


-----------------------------------------------------------------------------
(* The process with its writers. *)

\* A step of the process is a step of each writer, or leaves it alone.
LEMMA WritersFrame ==
  ASSUME [WritersNext]_<<vars, parallelVars, asyncVars, writer>>
  PROVE  [Next]_vars /\ [Parallel!Next]_(Parallel!vars) /\ [AsyncNext]_asyncVars
<1>1. UNCHANGED parallelVars => UNCHANGED Parallel!vars
  BY Zenon DEF parallelVars, Parallel!vars, Parallel!ctl, Parallel!shard
<1> QED BY <1>1, Zenon DEF WritersNext

\* Stop flushes what the writers hold, for any number of shards, messages, failures and
\* retries: the batch writer all that was written before Stop was called, the sharded one
\* its buffers (Stop, flushLocked, the final flush of runShard).
THEOREM WritersStopFlush == WritersSpec => []StopFlushes
<1>1. WritersInit => WriterInv /\ StopInv /\ FlushInv
  BY WriterInitInv, ShardInit, Zenon DEF WritersInit
<1>2. WriterInv /\ StopInv /\ FlushInv /\ [WritersNext]_<<vars, parallelVars, asyncVars, writer>>
        => (WriterInv /\ StopInv /\ FlushInv)'
  BY WritersFrame, WriterNextInv, StopNextInv, FlushSteps, Zenon
<1>3. StopInv /\ FlushInv => StopFlushes
  <2>1. FlushInv => Parallel!BuffersFlushed
    BY Zenon DEF FlushInv, Parallel!BuffersFlushed
  <2> QED BY <2>1, Zenon DEF StopInv, StopFlushes
<1> QED
  BY <1>1, <1>2, <1>3, PTL DEF WritersSpec

\* Both writers with a buffer implement a write-behind log, each shard of the sharded
\* writer its own: what Write took is stored in order, in batches that start at the oldest
\* message not known to be stored, so that none is passed over (Write, flushShard).
THEOREM WritersAreLogs == WritersSpec => WritersImplementLog
<1>1. WritersInit => WriterInv /\ ShardInv
  BY WriterInitInv, ShardInit, Zenon DEF WritersInit
<1>2. WriterInv /\ ShardInv /\ [WritersNext]_<<vars, parallelVars, asyncVars, writer>>
        => (WriterInv /\ ShardInv)'
  BY WritersFrame, WriterNextInv, ShardSteps, Zenon
<1>3. WritersInit => WB!Init
  BY DEF WritersInit, Init, WB!Init
<1>4. WritersInit => \A s \in Parallel!Shards : Parallel!WB(s)!Init
  BY ShardInit, Zenon DEF WritersInit
<1>5. WriterInv /\ [WritersNext]_<<vars, parallelVars, asyncVars, writer>> => [WB!Next]_(WB!vars)
  BY WritersFrame, WriterSteps, Zenon
<1>6. ShardInv /\ [WritersNext]_<<vars, parallelVars, asyncVars, writer>>
        => [\A s \in Parallel!Shards : Parallel!WB(s)!Next \/ UNCHANGED Parallel!WB(s)!vars]_(Parallel!vars)
  BY WritersFrame, ShardSteps, Zenon DEF ShardsStep
<1>7. WritersSpec => WB!Spec
  BY <1>1, <1>2, <1>3, <1>5, PTL DEF WritersSpec, WB!Spec
<1>8. WritersSpec => Parallel!ImplementsWriteBehind
  BY <1>1, <1>2, <1>4, <1>6, PTL DEF WritersSpec, Parallel!ImplementsWriteBehind
<1> QED
  BY <1>7, <1>8 DEF WritersImplementLog, ImplementsWriteBehind
=============================================================================
