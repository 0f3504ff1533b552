-------------------------- MODULE KafkaTransactions --------------------------
(***************************************************************************)
(* The transactional producer, its transaction manager and the transaction *)
(* coordinator (pkg/kafka/transactions.go), used by several goroutines.    *)
(*                                                                         *)
(* SendToTransaction holds the producer's mutex, reads the manager's state *)
(* without the manager's mutex, appends to the batch and only then asks    *)
(* the manager to add the partition: the other calls may come in between.  *)
(***************************************************************************)
EXTENDS Integers, Sequences

CONSTANTS TxnPartitions, Senders,
          MaxSends,             \* bound: messages sent
          MaxTxns               \* bound: transactions begun

ASSUME TransactionsAssumption == "none" \notin TxnPartitions

VARIABLES
  tmState,      \* TransactionManager.state
  epoch,        \* TransactionManager.producerEpoch
  txn,          \* the coordinator's metadata: <<>> or <<[state, epoch, parts]>>
  batches,      \* TransactionalProducer.batches: Messages, FirstSequence, LastSequence; or <<>>
  sequenceNumbers,
  sending,      \* the partition a sender has appended to and not yet added, or "none"
  sends, txns,  \* messages sent and transactions begun so far
  acked         \* partitions of the sends that returned nil in the current transaction

txnVars == <<tmState, epoch, txn, batches, sequenceNumbers, sending, sends, txns, acked>>

NewTransactionalProducer ==
  /\ tmState = "Empty" /\ epoch = 0 /\ txn = <<>>
  /\ batches = [p \in TxnPartitions |-> <<>>] /\ sequenceNumbers = [p \in TxnPartitions |-> 0]
  /\ sending = [s \in Senders |-> "none"] /\ sends = 0 /\ txns = 0 /\ acked = {}

tpMutexFree == \A s \in Senders : sending[s] = "none"

InitProducerID == IF txn = <<>> THEN 0 ELSE txn[1].epoch + 1

InitTransactions ==
  /\ tmState = "Empty"
  /\ epoch' = InitProducerID
  /\ UNCHANGED <<tmState, txn, batches, sequenceNumbers, sending, sends, txns, acked>>

\* AddTransaction replaces what the coordinator knew of the transactional id.
BeginTransaction ==
  /\ tmState = "Empty" /\ txns < MaxTxns
  /\ txn' = <<[state |-> "Ongoing", epoch |-> epoch, parts |-> {}]>>
  /\ tmState' = "Ongoing" /\ txns' = txns + 1 /\ acked' = {}
  /\ UNCHANGED <<epoch, batches, sequenceNumbers, sending, sends>>

\* EndTransaction fails if the coordinator has forgotten the transaction: the manager
\* is Ongoing again after a commit, and stays in PrepareAbort after an abort.
EndTransaction(state, failed) ==
  \/ /\ txn # <<>>
     /\ txn' = <<[txn[1] EXCEPT !.state = state]>> /\ tmState' = "Empty"
  \/ txn = <<>> /\ tmState' = failed /\ UNCHANGED txn

CommitTransaction ==
  /\ tmState = "Ongoing"
  /\ EndTransaction("CompleteCommit", "Ongoing")
  /\ UNCHANGED <<epoch, batches, sequenceNumbers, sending, sends, txns, acked>>

\* The batches stay as they are.
AbortTransaction ==
  /\ tmState = "Ongoing"        \* PrepareCommit lasts only while Commit holds the mutex
  /\ EndTransaction("CompleteAbort", "PrepareAbort")
  /\ UNCHANGED <<epoch, batches, sequenceNumbers, sending, sends, txns, acked>>

\* SendToTransaction up to the call of AddPartitionsToTxn.
SendAppend(s, p) ==
  /\ tpMutexFree /\ tmState = "Ongoing" /\ sends < MaxSends
  /\ LET n == sequenceNumbers[p]
         b == IF batches[p] = <<>> THEN [first |-> n, last |-> n, messages |-> <<>>] ELSE batches[p][1]
     IN batches' = [batches EXCEPT ![p] = <<[b EXCEPT !.messages = Append(@, n), !.last = n]>>]
  /\ sequenceNumbers' = [sequenceNumbers EXCEPT ![p] = @ + 1]
  /\ sending' = [sending EXCEPT ![s] = p] /\ sends' = sends + 1
  /\ UNCHANGED <<tmState, epoch, txn, txns, acked>>

\* Mutant: the partition list is replaced, not merged.
AddPartitionsReplace(p) == txn' = <<[txn[1] EXCEPT !.parts = {p}]>>

AddPartitionsToTransaction(p) == txn' = <<[txn[1] EXCEPT !.parts = @ \cup {p}]>>

\* AddPartitionsToTxn: an error when the transaction has ended or is forgotten.
SendAdd(s) ==
  /\ sending[s] # "none"
  /\ \/ /\ tmState = "Ongoing" /\ txn # <<>>
        /\ AddPartitionsToTransaction(sending[s])
        /\ acked' = acked \cup {sending[s]}
     \/ (tmState # "Ongoing" \/ txn = <<>>) /\ UNCHANGED <<txn, acked>>
  /\ sending' = [sending EXCEPT ![s] = "none"]
  /\ UNCHANGED <<tmState, epoch, batches, sequenceNumbers, sends, txns>>

\* sendBatch always succeeds.
FlushTransaction ==
  /\ tpMutexFree
  /\ batches' = [p \in TxnPartitions |-> <<>>]
  /\ UNCHANGED <<tmState, epoch, txn, sequenceNumbers, sending, sends, txns, acked>>

CleanupExpiredTransactions ==
  /\ txn # <<>> /\ txn' = <<>>
  /\ UNCHANGED <<tmState, epoch, batches, sequenceNumbers, sending, sends, txns, acked>>

TransactionsNext ==
  \/ InitTransactions \/ BeginTransaction \/ CommitTransaction \/ AbortTransaction
  \/ \E s \in Senders : SendAdd(s) \/ \E p \in TxnPartitions : SendAppend(s, p)
  \/ FlushTransaction \/ CleanupExpiredTransactions

TransactionsSpec == NewTransactionalProducer /\ [][TransactionsNext]_txnVars

-----------------------------------------------------------------------------
(* Properties *)

\* The sequence numbers of a batch have no gap and no repetition and end where the
\* partition's next number begins, and while a transaction is under way (and not
\* forgotten) the coordinator knows every partition a successful send of it went to
\* (SendToTransaction, AddPartitionsToTransaction).
TransactionExact ==
  /\ \A p \in TxnPartitions : batches[p] # <<>> =>
       LET b == batches[p][1] IN
         /\ b.messages = [i \in 1 .. Len(b.messages) |-> b.first + i - 1]
         /\ b.last = b.first + Len(b.messages) - 1
         /\ sequenceNumbers[p] = b.last + 1
  /\ tmState = "Ongoing" /\ txn # <<>> => acked \subseteq txn[1].parts
=============================================================================
