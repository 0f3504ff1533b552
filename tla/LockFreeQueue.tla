---------------------------- MODULE LockFreeQueue ----------------------------
(***************************************************************************)
(* The bounded multi-producer multi-consumer ring buffer of                *)
(* pkg/queue/lockfree.go, one action per atomic access of the code.        *)
(*                                                                         *)
(* A slot of the ring carries a sequence number.  A producer owns the slot *)
(* of position k from the moment its CAS moves enqueuePos past k until it  *)
(* stores sequence k+1; a consumer owns it from the moment its CAS moves   *)
(* dequeuePos past k until it stores sequence k+Capacity.                  *)
(*                                                                         *)
(* The statistics counters are added to with the access before them: only  *)
(* Stats reads them.  Sleeps and yields take no step.                      *)
(***************************************************************************)
EXTENDS Integers, Sequences

CONSTANTS
  Producers,    \* goroutines that call Enqueue (or MessageBus.Publish)
  Consumers,    \* goroutines that call Dequeue
  Capacity,     \* slots of the ring (a power of two in the code)
  DropPolicy,   \* what Enqueue does when the ring is full
  MaxRetries,   \* the local maxRetries of Enqueue and Dequeue (1000 in the code)
  ForceDrop,    \* TRUE when producers are MessageBus.Publish, which retries a
                \* rejected Enqueue through tryForceEnqueueDropOldest
  MaxMessages,  \* bound: messages each producer offers
  Nil           \* the nil pointer

Threads == Producers \cup Consumers
Msg == Producers \X (1 .. MaxMessages)
Slots == 0 .. (Capacity - 1)
DropPolicies == {"DropOldest", "DropNewest", "Block"}

ASSUME CapacityAssumption == Capacity \in Nat \ {0}
ASSUME PolicyAssumption == DropPolicy \in DropPolicies /\ ForceDrop \in BOOLEAN
ASSUME BoundsAssumption == MaxRetries \in Nat \ {0} /\ MaxMessages \in Nat
ASSUME ThreadsAssumption == Producers \cap Consumers = {}
ASSUME NilAssumption == Nil \notin Msg

VARIABLES
  enqueuePos, dequeuePos,   \* the two shared positions
  sequence, data,           \* the fields of queueNode, per slot
  enqueueCount, dequeueCount, dropCount,
  pc,                       \* the next atomic access of each thread
  pos, deq, retryCount,     \* locals of Enqueue and Dequeue (deq is 0 once used)
  item,                     \* the message a producer is enqueueing
  got,                      \* the pointer a Dequeue has loaded (Nil once returned)
  forced,                   \* the producers in tryForceEnqueueDropOldest
  sent,                     \* messages each producer has offered
  log,                      \* history: messages in the order their slot was claimed
  deliveries                \* history: times each pointer was returned to a consumer

shared == <<enqueuePos, dequeuePos, sequence, data>>
counters == <<enqueueCount, dequeueCount, dropCount>>
locals == <<pos, deq, retryCount, item, got, forced>>
history == <<log, deliveries>>
vars == <<shared, counters, pc, locals, sent, history>>

Slot(p) == p % Capacity
Goto(t, label) == pc' = [pc EXCEPT ![t] = label]

Init ==
  /\ enqueuePos = 0 /\ dequeuePos = 0
  /\ sequence = [i \in Slots |-> i]
  /\ data = [i \in Slots |-> Nil]
  /\ enqueueCount = 0 /\ dequeueCount = 0 /\ dropCount = 0
  /\ pc = [t \in Threads |-> "idle"]
  /\ pos = [t \in Threads |-> 0]
  /\ deq = [p \in Producers |-> 0]
  /\ retryCount = [t \in Threads |-> 0]
  /\ item = [p \in Producers |-> Nil]
  /\ got = [t \in Threads |-> Nil]
  /\ forced = {}
  /\ sent = [p \in Producers |-> 0]
  /\ log = <<>>
  /\ deliveries = [m \in Msg \cup {Nil} |-> 0]

-----------------------------------------------------------------------------
(* Enqueue *)

\* The caller of producer p offers its next message.
EnqueueCall(p) ==
  /\ pc[p] = "idle"
  /\ sent[p] < MaxMessages
  /\ sent' = [sent EXCEPT ![p] = @ + 1]
  /\ item' = [item EXCEPT ![p] = <<p, sent[p] + 1>>]
  /\ retryCount' = [retryCount EXCEPT ![p] = 0]
  /\ forced' = forced \ {p}
  /\ Goto(p, "e_pos")
  /\ UNCHANGED <<shared, counters, pos, deq, got, history>>

EnqueueLoadPos(p) ==
  /\ pc[p] = "e_pos"
  /\ pos' = [pos EXCEPT ![p] = enqueuePos]
  /\ Goto(p, "e_seq")
  /\ UNCHANGED <<shared, counters, deq, retryCount, item, got, forced, sent, history>>

\* Enqueue returns false.  Publish then takes the forced path once; when that
\* fails too it counts a drop of its own and reports success.
Reject(p) ==
  /\ dropCount' = IF DropPolicy = "DropOldest" /\ ForceDrop /\ p \in forced
                  THEN dropCount + 2 ELSE dropCount + 1
  /\ IF DropPolicy = "DropOldest" /\ ForceDrop /\ p \notin forced
     THEN /\ forced' = forced \cup {p}
          /\ retryCount' = [retryCount EXCEPT ![p] = 0]
          /\ Goto(p, "d_pos")
     ELSE /\ Goto(p, "idle")
          /\ UNCHANGED <<forced, retryCount>>

\* Mutants: one retry too many; no limit at all.
RetryOnceMore(p) ==
  \/ /\ retryCount[p] < MaxRetries
     /\ retryCount' = [retryCount EXCEPT ![p] = @ + 1]
     /\ Goto(p, "e_pos")
     /\ UNCHANGED <<dropCount, forced>>
  \/ /\ retryCount[p] >= MaxRetries
     /\ Reject(p)
RetryForever(p) ==
  /\ Goto(p, "e_pos")
  /\ UNCHANGED <<dropCount, forced, retryCount>>

\* retryCount++ and the test of the loop.
Retry(p) ==
  \/ /\ retryCount[p] + 1 < MaxRetries
     /\ retryCount' = [retryCount EXCEPT ![p] = @ + 1]
     /\ Goto(p, "e_pos")
     /\ UNCHANGED <<dropCount, forced>>
  \/ /\ retryCount[p] + 1 >= MaxRetries
     /\ Reject(p)

\* Mutant: a slot of the previous lap is taken for free.
EnqueueLoadSeqOverrun(p) ==
  /\ pc[p] = "e_seq"
  /\ Goto(p, "e_cas")
  /\ UNCHANGED <<shared, counters, locals, sent, history>>

\* What Enqueue does with the sequence number it has loaded.
EnqueueLoadSeq(p) ==
  LET dif == sequence[Slot(pos[p])] - pos[p] IN
  /\ pc[p] = "e_seq"
  /\ \/ /\ dif = 0
        /\ Goto(p, "e_cas")
        /\ UNCHANGED <<retryCount, dropCount, forced>>
     \/ /\ dif < 0 /\ DropPolicy = "DropNewest"
        /\ Reject(p)
     \/ /\ dif < 0 /\ DropPolicy = "DropOldest"
        /\ Goto(p, "e_old")
        /\ UNCHANGED <<retryCount, dropCount, forced>>
     \/ /\ dif < 0 /\ DropPolicy = "Block"
        /\ Retry(p)
     \/ /\ dif > 0
        /\ Retry(p)
  /\ UNCHANGED <<shared, enqueueCount, dequeueCount, pos, deq, item, got, sent, history>>

\* Mutants: a store instead of a CAS; a failed CAS tried again on the old position.
EnqueueCASBlind(p) ==
  /\ pc[p] = "e_cas"
  /\ enqueuePos' = pos[p] + 1
  /\ log' = Append(log, item[p])
  /\ Goto(p, "e_data")
  /\ UNCHANGED <<dequeuePos, sequence, data, counters, locals, sent, deliveries>>
EnqueueCASStale(p) ==
  /\ pc[p] = "e_cas"
  /\ enqueuePos = pos[p]
  /\ enqueuePos' = enqueuePos + 1
  /\ log' = Append(log, item[p])
  /\ Goto(p, "e_data")
  /\ UNCHANGED <<dequeuePos, sequence, data, counters, locals, sent, deliveries>>

\* A CAS that fails goes round the loop without counting a retry.
EnqueueCAS(p) ==
  /\ pc[p] = "e_cas"
  /\ \/ /\ enqueuePos = pos[p]
        /\ enqueuePos' = enqueuePos + 1
        /\ log' = Append(log, item[p])
        /\ Goto(p, "e_data")
     \/ /\ enqueuePos # pos[p]
        /\ Goto(p, "e_pos")
        /\ UNCHANGED <<enqueuePos, log>>
  /\ UNCHANGED <<dequeuePos, sequence, data, counters, locals, sent, deliveries>>

\* DropOldest on a full ring: the argument of the CAS is loaded first.
DropOldestLoad(p) ==
  /\ pc[p] = "e_old"
  /\ deq' = [deq EXCEPT ![p] = dequeuePos]
  /\ Goto(p, "e_adv")
  /\ UNCHANGED <<shared, counters, pos, retryCount, item, got, forced, sent, history>>

DropOldestCAS(p) ==
  /\ pc[p] = "e_adv"
  /\ dequeuePos' = IF dequeuePos = deq[p] THEN pos[p] - Capacity + 1 ELSE dequeuePos
  /\ deq' = [deq EXCEPT ![p] = 0]
  /\ Retry(p)
  /\ UNCHANGED <<enqueuePos, sequence, data, enqueueCount, dequeueCount,
                 pos, item, got, sent, history>>

EnqueueStoreData(p) ==
  /\ pc[p] = "e_data"
  /\ data' = [data EXCEPT ![Slot(pos[p])] = item[p]]
  /\ Goto(p, "e_store")
  /\ UNCHANGED <<enqueuePos, dequeuePos, sequence, counters, locals, sent, history>>

\* Mutant: the slot is never published.
EnqueueStoreSeqUnpublished(p) ==
  /\ pc[p] = "e_store"
  /\ enqueueCount' = enqueueCount + 1
  /\ Goto(p, "idle")
  /\ UNCHANGED <<shared, dequeueCount, dropCount, locals, sent, history>>

EnqueueStoreSeq(p) ==
  /\ pc[p] = "e_store"
  /\ sequence' = [sequence EXCEPT ![Slot(pos[p])] = pos[p] + 1]
  /\ enqueueCount' = enqueueCount + 1
  /\ Goto(p, "idle")
  /\ UNCHANGED <<enqueuePos, dequeuePos, data, dequeueCount, dropCount, locals, sent, history>>

-----------------------------------------------------------------------------
(* Dequeue, run by consumers and, on the forced path, by producers *)

\* A forced Dequeue is followed by the second Enqueue of the same message.
Resume(t) == IF t \in Producers THEN "e_pos" ELSE "idle"

DequeueCall(c) ==
  /\ pc[c] = "idle"
  /\ retryCount' = [retryCount EXCEPT ![c] = 0]
  /\ Goto(c, "d_pos")
  /\ UNCHANGED <<shared, counters, pos, deq, item, got, forced, sent, history>>

DequeueLoadPos(t) ==
  /\ pc[t] = "d_pos"
  /\ pos' = [pos EXCEPT ![t] = dequeuePos]
  /\ Goto(t, "d_seq")
  /\ UNCHANGED <<shared, counters, deq, retryCount, item, got, forced, sent, history>>

\* Mutant: the sequence number is not looked at.
DequeueLoadSeqEager(t) ==
  /\ pc[t] = "d_seq"
  /\ pos[t] < enqueuePos
  /\ Goto(t, "d_cas")
  /\ UNCHANGED <<shared, counters, locals, sent, history>>

\* Empty: return (nil, false).  Slot busy: retry up to MaxRetries times.
DequeueLoadSeq(t) ==
  LET dif == sequence[Slot(pos[t])] - (pos[t] + 1) IN
  /\ pc[t] = "d_seq"
  /\ \/ /\ dif = 0
        /\ Goto(t, "d_cas")
        /\ UNCHANGED retryCount
     \/ /\ dif < 0 \/ (dif > 0 /\ retryCount[t] + 1 >= MaxRetries)
        /\ Goto(t, Resume(t))
        /\ retryCount' = [retryCount EXCEPT ![t] = 0]
     \/ /\ dif > 0 /\ retryCount[t] + 1 < MaxRetries
        /\ Goto(t, "d_pos")
        /\ retryCount' = [retryCount EXCEPT ![t] = @ + 1]
  /\ UNCHANGED <<shared, counters, pos, deq, item, got, forced, sent, history>>

\* Mutant: a store instead of a CAS.
DequeueCASBlind(t) ==
  /\ pc[t] = "d_cas"
  /\ dequeuePos' = pos[t] + 1
  /\ Goto(t, "d_load")
  /\ UNCHANGED <<enqueuePos, sequence, data, counters, locals, sent, history>>

DequeueCAS(t) ==
  /\ pc[t] = "d_cas"
  /\ \/ /\ dequeuePos = pos[t]
        /\ dequeuePos' = dequeuePos + 1
        /\ Goto(t, "d_load")
     \/ /\ dequeuePos # pos[t]
        /\ Goto(t, "d_pos")
        /\ UNCHANGED dequeuePos
  /\ UNCHANGED <<enqueuePos, sequence, data, counters, locals, sent, history>>

DequeueLoadData(t) ==
  /\ pc[t] = "d_load"
  /\ got' = [got EXCEPT ![t] = data[Slot(pos[t])]]
  /\ Goto(t, "d_clear")
  /\ UNCHANGED <<shared, counters, pos, deq, retryCount, item, forced, sent, history>>

DequeueClearData(t) ==
  /\ pc[t] = "d_clear"
  /\ data' = [data EXCEPT ![Slot(pos[t])] = Nil]
  /\ Goto(t, "d_store")
  /\ UNCHANGED <<enqueuePos, dequeuePos, sequence, counters, locals, sent, history>>

\* The slot is released for the next lap and the pointer returned.
DequeueStoreSeq(t) ==
  /\ pc[t] = "d_store"
  /\ sequence' = [sequence EXCEPT ![Slot(pos[t])] = pos[t] + Capacity]
  /\ dequeueCount' = dequeueCount + 1
  /\ deliveries' = IF t \in Consumers
                   THEN [deliveries EXCEPT ![got[t]] = @ + 1]
                   ELSE deliveries
  /\ retryCount' = [retryCount EXCEPT ![t] = 0]
  /\ got' = [got EXCEPT ![t] = Nil]
  /\ Goto(t, Resume(t))
  /\ UNCHANGED <<enqueuePos, dequeuePos, data, enqueueCount, dropCount,
                 pos, deq, item, forced, sent, log>>

-----------------------------------------------------------------------------
EnqueueStep(p) ==
  \/ EnqueueLoadPos(p) \/ EnqueueLoadSeq(p) \/ EnqueueCAS(p)
  \/ DropOldestLoad(p) \/ DropOldestCAS(p)
  \/ EnqueueStoreData(p) \/ EnqueueStoreSeq(p)

DequeueStep(t) ==
  \/ DequeueLoadPos(t) \/ DequeueLoadSeq(t) \/ DequeueCAS(t)
  \/ DequeueLoadData(t) \/ DequeueClearData(t) \/ DequeueStoreSeq(t)

Next ==
  \/ \E p \in Producers : EnqueueCall(p) \/ EnqueueStep(p)
  \/ \E c \in Consumers : DequeueCall(c)
  \/ \E t \in Threads : DequeueStep(t)

Spec == Init /\ [][Next]_vars

\* The Go scheduler runs every runnable goroutine; workers call Dequeue for ever.
Fairness ==
  /\ \A p \in Producers : WF_vars(EnqueueStep(p) \/ DequeueStep(p))
  /\ \A c \in Consumers : WF_vars(DequeueCall(c) \/ DequeueStep(c))

FairSpec == Spec /\ Fairness

-----------------------------------------------------------------------------
(* Properties *)

Producing(p) == pc[p] \in {"e_data", "e_store"}
Consuming(t) == pc[t] \in {"d_load", "d_clear", "d_store"}

RingType ==
  /\ enqueuePos \in Nat /\ dequeuePos \in Nat
  /\ sequence \in [Slots -> Nat] /\ data \in [Slots -> Msg \cup {Nil}]
CountType == enqueueCount \in Nat /\ dequeueCount \in Nat /\ dropCount \in Nat
PcType ==
  pc \in [Threads -> {"idle", "e_pos", "e_seq", "e_cas", "e_old", "e_adv", "e_data", "e_store",
                      "d_pos", "d_seq", "d_cas", "d_load", "d_clear", "d_store"}]
LocalType ==
  /\ pos \in [Threads -> Nat] /\ deq \in [Producers -> Nat]
  /\ retryCount \in [Threads -> 0 .. (MaxRetries - 1)]
  /\ item \in [Producers -> Msg \cup {Nil}] /\ got \in [Threads -> Msg \cup {Nil}]
  /\ forced \subseteq Producers /\ sent \in [Producers -> 0 .. MaxMessages]
HistoryType == log \in Seq(Msg) /\ deliveries \in [Msg \cup {Nil} -> Nat]

\* Every variable keeps the type of the Go field or local it stands for.
TypeOK == RingType /\ CountType /\ PcType /\ LocalType /\ HistoryType

\* Two Enqueue calls never write the same slot at the same time: the window
\* between the CAS on enqueuePos and the store of the sequence is exclusive.
ProducersExclusive ==
  \A p, q \in Producers :
    Producing(p) /\ Producing(q) /\ p # q => Slot(pos[p]) # Slot(pos[q])

\* Neither do two Dequeue calls, nor an Enqueue and a Dequeue of another lap.
SlotExclusive ==
  \A t, u \in Threads :
    /\ t # u
    /\ Producing(t) \/ Consuming(t)
    /\ Producing(u) \/ Consuming(u)
    => Slot(pos[t]) # Slot(pos[u])

\* The pointer a Dequeue returns is the message enqueued at the position it
\* claimed: delivery follows the order of the claims, whatever the laps.
DeliveredInOrder ==
  \A t \in Threads :
    pc[t] \in {"d_clear", "d_store"} =>
      pos[t] < Len(log) /\ got[t] = log[pos[t] + 1]

\* No accepted message is handed to two consumers, and Dequeue never returns
\* (nil, true).
DeliveredOnce ==
  /\ \A m \in Msg : deliveries[m] <= 1
  /\ deliveries[Nil] = 0

Accepted == {log[i] : i \in DOMAIN log}

\* The ring is a bounded first-in first-out queue.
Fifo == INSTANCE BoundedFifo WITH
  queue <- SubSeq(log, dequeuePos + 1, enqueuePos),
  taken <- {log[i] : i \in 1 .. dequeuePos}
RefinesFifo == Fifo!FifoSpec

\* Every Enqueue returns: a failed CAS means another call succeeded and the
\* other ways round the loop are counted against maxRetries.
EnqueueReturns == \A p \in Producers : pc[p] # "idle" ~> pc[p] = "idle"

\* Accepted messages do not stay in the ring while consumers keep polling: again
\* and again every message accepted so far is delivered.
AcceptedDelivered == []<>(\A m \in Accepted : deliveries[m] = 1)

-----------------------------------------------------------------------------
(***************************************************************************)
(* The inductive invariant of the ring when the policy is not DropOldest   *)
(* and there are at least two slots.  The positions dequeuePos ..          *)
(* dequeuePos + Capacity - 1 visit every slot once: the ones below         *)
(* enqueuePos are full (or being filled), the others free (or being        *)
(* freed by the consumer of the previous lap).                             *)
(***************************************************************************)
Labels ==
  /\ \A p \in Producers : pc[p] \in {"idle", "e_pos", "e_seq", "e_cas", "e_data", "e_store"}
  /\ \A c \in Consumers : pc[c] \in {"idle", "d_pos", "d_seq", "d_cas",
                                     "d_load", "d_clear", "d_store"}

Window ==
  /\ dequeuePos <= enqueuePos
  /\ enqueuePos <= dequeuePos + Capacity
  /\ Len(log) = enqueuePos

FullSide ==
  \A k \in dequeuePos .. (enqueuePos - 1) :
    \/ sequence[Slot(k)] = k
    \/ sequence[Slot(k)] = k + 1 /\ data[Slot(k)] = log[k + 1]

FreeSide ==
  \A k \in enqueuePos .. (dequeuePos + Capacity - 1) :
    sequence[Slot(k)] \in {k, k - Capacity + 1}

\* A position a thread has loaded is not ahead of the shared one, and while they
\* are equal the sequence number that let the thread try its CAS still holds.
Loaded ==
  /\ \A p \in Producers : pc[p] \in {"e_seq", "e_cas"} => pos[p] <= enqueuePos
  /\ \A c \in Consumers : pc[c] \in {"d_seq", "d_cas"} => pos[c] <= dequeuePos
Fresh ==
  /\ \A p \in Producers : pc[p] = "e_cas" /\ pos[p] = enqueuePos =>
       sequence[Slot(pos[p])] = pos[p]
  /\ \A c \in Consumers : pc[c] = "d_cas" /\ pos[c] = dequeuePos =>
       sequence[Slot(pos[c])] = pos[c] + 1

\* The slot between a thread's CAS and its store of the sequence number.
ProducerOwns ==
  \A p \in Producers : Producing(p) =>
    /\ dequeuePos <= pos[p] /\ pos[p] < enqueuePos
    /\ sequence[Slot(pos[p])] = pos[p]
    /\ log[pos[p] + 1] = item[p]
ConsumerOwns ==
  \A c \in Consumers : Consuming(c) =>
    /\ pos[c] < dequeuePos /\ enqueuePos <= pos[c] + Capacity
    /\ sequence[Slot(pos[c])] = pos[c] + 1
Differ ==
  /\ \A p, q \in Producers : Producing(p) /\ Producing(q) /\ p # q => pos[p] # pos[q]
  /\ \A c, d \in Consumers : Consuming(c) /\ Consuming(d) /\ c # d => pos[c] # pos[d]
Held ==
  /\ \A p \in Producers : pc[p] = "e_store" => data[Slot(pos[p])] = item[p]
  /\ \A c \in Consumers :
       /\ pc[c] = "d_load" => data[Slot(pos[c])] = log[pos[c] + 1]
       /\ pc[c] \in {"d_clear", "d_store"} => got[c] = log[pos[c] + 1]

\* A message is claimed at most once, and delivered at most once: the position of
\* a delivered message has been passed and no Dequeue is still working on it.
ClaimedOnce ==
  /\ \A i \in 1 .. Len(log) : log[i][2] <= sent[log[i][1]]
  /\ \A i, j \in 1 .. Len(log) : log[i] = log[j] => i = j
  /\ \A p \in Producers : pc[p] \in {"e_pos", "e_seq", "e_cas"} =>
       item[p] = <<p, sent[p]>> /\ \A i \in 1 .. Len(log) : log[i] # item[p]
HandedOnce ==
  /\ deliveries[Nil] = 0
  /\ \A m \in Msg : deliveries[m] # 0 =>
       /\ deliveries[m] = 1
       /\ \E k \in 0 .. (dequeuePos - 1) :
            log[k + 1] = m /\ \A c \in Consumers : Consuming(c) => pos[c] # k

\* The sequence numbers tell the state of every slot: each full position holds
\* its message, each free one is marked with the next lap, and a thread between
\* its CAS and its last store finds its slot as it left it.
RingCore ==
  Labels /\ Window /\ FullSide /\ FreeSide /\ Loaded /\ Fresh /\ ProducerOwns
  /\ ConsumerOwns /\ Differ /\ Held
RingInv == RingCore /\ ClaimedOnce /\ HandedOnce
=============================================================================
