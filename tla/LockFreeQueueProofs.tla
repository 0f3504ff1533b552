------------------------- MODULE LockFreeQueueProofs -------------------------
(***************************************************************************)
(* Proofs about LockFreeQueue, for any number of producers, consumers,     *)
(* messages and retries and for every capacity the theorem allows: first   *)
(* under every policy, then on the ring under DropNewest and Block, where  *)
(* the steps of Enqueue and of Dequeue keep RingCore and each message is   *)
(* claimed once and handed out once.                                       *)
(***************************************************************************)
EXTENDS LockFreeQueue, TLAPS

-----------------------------------------------------------------------------
(* Arithmetic of slots: positions less than a lap apart have different slots. *)

LEMMA DivMod ==
  ASSUME NEW N \in Nat \ {0}, NEW a \in Nat
  PROVE  /\ a \div N \in Int
         /\ a = (N * (a \div N)) + (a % N)
         /\ a % N \in 0 .. (N - 1)
  OBVIOUS

LEMMA ProductAtLeast ==
  ASSUME NEW N \in Nat \ {0}, NEW d \in Int, d > 0
  PROVE  N * d >= N
  OBVIOUS

LEMMA NoMultipleBetween ==
  ASSUME NEW N \in Nat \ {0}, NEW q \in Int, NEW r \in Int, NEW d \in Int,
         d = (N * q) - (N * r), 0 < d, d < N
  PROVE  FALSE
<1>1. d = N * (q - r)
  OBVIOUS
<1>2. CASE q - r > 0
  BY <1>1, <1>2, ProductAtLeast
<1>3. CASE q - r <= 0
  <2>1. N * (q - r) <= 0
    BY <1>3
  <2> QED BY <1>1, <2>1
<1> QED BY <1>2, <1>3

LEMMA SlotType ==
  ASSUME NEW a \in Nat
  PROVE  Slot(a) \in Slots /\ Slot(a) <= a
<1>1. a % Capacity \in 0 .. (Capacity - 1) /\ a % Capacity <= a
  BY CapacityAssumption
<1> QED BY <1>1, Zenon DEF Slot, Slots

LEMMA SlotSmall ==
  ASSUME NEW a \in Nat, a < Capacity
  PROVE  Slot(a) = a
  BY CapacityAssumption DEF Slot

LEMMA SlotDistinct ==
  ASSUME NEW a \in Nat, NEW b \in Nat, a < b, b < a + Capacity
  PROVE  Slot(a) # Slot(b)
<1> DEFINE q == b \div Capacity
           r == a \div Capacity
           d == b - a
<1> SUFFICES ASSUME a % Capacity = b % Capacity PROVE FALSE
  BY Zenon DEF Slot
<1>1. /\ a = (Capacity * r) + (a % Capacity) /\ b = (Capacity * q) + (b % Capacity)
      /\ q \in Int /\ r \in Int /\ d \in Int
      /\ a % Capacity \in 0 .. (Capacity - 1)
  BY DivMod, CapacityAssumption
<1>2. d = (Capacity * q) - (Capacity * r) /\ 0 < d /\ d < Capacity
  <2> HIDE DEF q, r
  <2> QED BY <1>1, CapacityAssumption
<1> HIDE DEF q, r, d
<1> QED BY <1>1, <1>2, NoMultipleBetween, CapacityAssumption, Zenon

LEMMA SlotShift ==
  ASSUME NEW a \in Nat
  PROVE  Slot(a + Capacity) = Slot(a)
<1> DEFINE N == Capacity
           q == (a + N) \div N
           r == a \div N
           u == (a + N) % N
           v == a % N
<1>0. a + N \in Nat /\ N \in Nat \ {0}
  BY CapacityAssumption
<1>1. /\ a = (N * r) + v /\ a + N = (N * q) + u
      /\ q \in Int /\ r \in Int
      /\ u \in 0 .. (N - 1) /\ v \in 0 .. (N - 1)
  BY <1>0, DivMod, Zenon
<1> HIDE DEF N, q, r, u, v
<1>2. N * (r + 1) = (N * r) + N /\ r + 1 \in Int
  BY <1>0, <1>1
<1>3. u - v = (N * (r + 1)) - (N * q)
  BY <1>0, <1>1, <1>2
<1>4. ~ (u > v)
  <2> SUFFICES ASSUME u > v PROVE FALSE
    BY Zenon
  <2>1. 0 < u - v /\ u - v < N /\ u - v \in Int
    BY <1>0, <1>1
  <2> QED BY <2>1, <1>0, <1>1, <1>2, <1>3, NoMultipleBetween, Zenon
<1>5. ~ (u < v)
  <2> SUFFICES ASSUME u < v PROVE FALSE
    BY Zenon
  <2>1. 0 < v - u /\ v - u < N /\ v - u \in Int
    BY <1>0, <1>1
  <2>2. v - u = (N * q) - (N * (r + 1))
    BY <1>0, <1>1, <1>3, <1>2
  <2> QED BY <2>1, <2>2, <1>0, <1>1, <1>2, NoMultipleBetween, Zenon
<1>6. u = v
  BY <1>1, <1>4, <1>5, <1>0
<1> QED BY <1>6, Zenon DEF u, v, N, Slot

-----------------------------------------------------------------------------
(* Type correctness, for every drop policy.  DropOldest subtracts Capacity from a
   loaded position: that this cannot underflow needs that a slot's sequence is
   never below its index. *)

SeqLow == \A s \in Slots : sequence[s] >= s
AdvPos == \A p \in Producers : pc[p] \in {"e_old", "e_adv"} => pos[p] >= Capacity
ItemSet == \A p \in Producers : pc[p] # "idle" => item[p] \in Msg

TypeInv == TypeOK /\ SeqLow /\ AdvPos /\ ItemSet

LEMMA TypeInit == Init => TypeInv
<1> SUFFICES ASSUME Init PROVE TypeInv
  BY Zenon
<1> USE CapacityAssumption, BoundsAssumption DEF Init
<1>1. RingType /\ CountType /\ PcType /\ HistoryType
  BY DEF RingType, CountType, PcType, HistoryType, Slots, Threads
<1>2. LocalType
  BY DEF LocalType, Threads
<1>3. SeqLow
  BY DEF SeqLow, Slots
<1>4. AdvPos /\ ItemSet
  BY Zenon DEF AdvPos, ItemSet, Threads
<1> QED BY <1>1, <1>2, <1>3, <1>4, Zenon DEF TypeInv, TypeOK

\* What a rejected Enqueue, and a retry, may change.
LEMMA RejectTypes ==
  ASSUME TypeOK, NEW p \in Producers, Reject(p)
  PROVE  /\ Goto(p, "idle") \/ Goto(p, "d_pos")
         /\ dropCount' \in Nat
         /\ retryCount' \in [Threads -> 0 .. (MaxRetries - 1)]
         /\ forced' \subseteq Producers
<1>1. Goto(p, "idle") \/ Goto(p, "d_pos")
  BY Zenon DEF Reject
<1>2. dropCount' \in Nat
  BY DEF Reject, TypeOK, CountType
<1>3. retryCount' = [retryCount EXCEPT ![p] = 0] \/ UNCHANGED retryCount
  BY Zenon DEF Reject
<1>4. retryCount' \in [Threads -> 0 .. (MaxRetries - 1)]
  BY <1>3, BoundsAssumption DEF Threads, TypeOK, LocalType
<1>5. forced' \subseteq Producers
  BY Zenon DEF Reject, TypeOK, LocalType
<1> QED BY <1>1, <1>2, <1>4, <1>5, Zenon

LEMMA RetryTypes ==
  ASSUME TypeOK, NEW p \in Producers, Retry(p)
  PROVE  /\ Goto(p, "idle") \/ Goto(p, "d_pos") \/ Goto(p, "e_pos")
         /\ dropCount' \in Nat
         /\ retryCount' \in [Threads -> 0 .. (MaxRetries - 1)]
         /\ forced' \subseteq Producers
<1>1. CASE Reject(p)
  BY <1>1, RejectTypes, Zenon
<1>2. CASE /\ retryCount[p] + 1 < MaxRetries
           /\ retryCount' = [retryCount EXCEPT ![p] = @ + 1]
           /\ Goto(p, "e_pos")
           /\ UNCHANGED <<dropCount, forced>>
  <2>1. retryCount' \in [Threads -> 0 .. (MaxRetries - 1)]
    BY <1>2, BoundsAssumption DEF Threads, TypeOK, LocalType
  <2> QED BY <1>2, <2>1, Zenon DEF TypeOK, CountType, LocalType
<1> QED BY <1>1, <1>2, Zenon DEF Retry

LEMMA EnqueueLoadSeqTypes ==
  ASSUME TypeOK, NEW p \in Producers, EnqueueLoadSeq(p)
  PROVE  /\ \/ Goto(p, "idle") \/ Goto(p, "d_pos") \/ Goto(p, "e_pos") \/ Goto(p, "e_cas")
            \/ (sequence[Slot(pos[p])] - pos[p] < 0 /\ Goto(p, "e_old"))
         /\ dropCount' \in Nat
         /\ retryCount' \in [Threads -> 0 .. (MaxRetries - 1)]
         /\ forced' \subseteq Producers
<1>1. CASE Reject(p)
  BY <1>1, RejectTypes, Zenon
<1>2. CASE Retry(p)
  BY <1>2, RetryTypes, Zenon
<1>3. CASE UNCHANGED <<retryCount, dropCount, forced>> /\ ~Reject(p) /\ ~Retry(p)
  <2>1. dropCount' \in Nat /\ retryCount' \in [Threads -> 0 .. (MaxRetries - 1)]
    BY <1>3, Zenon DEF TypeOK, CountType, LocalType
  <2>2. forced' \subseteq Producers
    BY <1>3, Zenon DEF TypeOK, LocalType
  <2>3. Goto(p, "e_cas") \/ (sequence[Slot(pos[p])] - pos[p] < 0 /\ Goto(p, "e_old"))
    BY <1>3, Zenon DEF EnqueueLoadSeq
  <2> QED BY <2>1, <2>2, <2>3, Zenon
<1> QED BY <1>1, <1>2, <1>3, Zenon DEF EnqueueLoadSeq

LEMMA TypeNext == TypeInv /\ [Next]_vars => TypeInv'
<1> SUFFICES ASSUME TypeInv, [Next]_vars PROVE TypeInv'
  BY Zenon
<1>t. /\ TypeOK /\ RingType /\ CountType /\ PcType /\ LocalType /\ HistoryType
      /\ SeqLow /\ AdvPos /\ ItemSet
      /\ \A p \in Producers : p \in Threads
      /\ \A c \in Consumers : c \in Threads /\ c \notin Producers
      /\ Capacity \in Nat \ {0} /\ MaxRetries \in Nat \ {0} /\ MaxMessages \in Nat
  BY CapacityAssumption, BoundsAssumption, ThreadsAssumption, Zenon DEF TypeInv, TypeOK, Threads
<1>s. \A t \in Threads : Slot(pos[t]) \in Slots /\ Slot(pos[t]) <= pos[t]
  BY <1>t, SlotType, Zenon DEF LocalType
<1>1. ASSUME NEW p \in Producers, EnqueueCall(p) PROVE TypeInv'
  <2>0. <<p, sent[p] + 1>> \in Msg
    BY <1>1, <1>t DEF EnqueueCall, Msg, LocalType
  <2>1. RingType' /\ CountType' /\ HistoryType' /\ SeqLow'
    BY <1>1, <1>t, Zenon
    DEF EnqueueCall, shared, counters, history, RingType, CountType, HistoryType, SeqLow
  <2>2. PcType' /\ LocalType' /\ AdvPos' /\ ItemSet'
    BY <1>1, <1>t, <2>0
    DEF EnqueueCall, Goto, PcType, LocalType, AdvPos, ItemSet
  <2> QED BY <2>1, <2>2, Zenon DEF TypeInv, TypeOK
<1>2. ASSUME NEW p \in Producers, EnqueueLoadPos(p) PROVE TypeInv'
  <2>1. RingType' /\ CountType' /\ HistoryType' /\ SeqLow'
    BY <1>2, <1>t, Zenon
    DEF EnqueueLoadPos, shared, counters, history, RingType, CountType, HistoryType, SeqLow
  <2>2. PcType' /\ LocalType' /\ AdvPos' /\ ItemSet'
    BY <1>2, <1>t, Zenon
    DEF EnqueueLoadPos, RingType, Goto, PcType, LocalType, AdvPos, ItemSet
  <2> QED BY <2>1, <2>2, Zenon DEF TypeInv, TypeOK
<1>3. ASSUME NEW p \in Producers, EnqueueCAS(p) PROVE TypeInv'
  <2>0. /\ UNCHANGED <<dequeuePos, sequence, data, counters, deliveries>>
        /\ enqueuePos' \in {enqueuePos, enqueuePos + 1}
        /\ log' \in {log, Append(log, item[p])} /\ item[p] \in Msg
    BY <1>3, <1>t, Zenon DEF EnqueueCAS, ItemSet
  <2>1. RingType' /\ CountType' /\ HistoryType' /\ SeqLow'
    <3>1. HistoryType'
      <4>1. \A l \in Seq(Msg), m \in Msg : Append(l, m) \in Seq(Msg)
        OBVIOUS
      <4> QED BY <4>1, <2>0, <1>t, Zenon DEF HistoryType
    <3> QED BY <2>0, <3>1, <1>t DEF counters, RingType, CountType, SeqLow
  <2>2. PcType' /\ LocalType' /\ AdvPos' /\ ItemSet'
    BY <1>3, <1>t, Zenon
    DEF EnqueueCAS, locals, Goto, PcType, LocalType, AdvPos, ItemSet
  <2> QED BY <2>1, <2>2, Zenon DEF TypeInv, TypeOK
<1>4. ASSUME NEW p \in Producers, DropOldestLoad(p) PROVE TypeInv'
  <2>1. RingType' /\ CountType' /\ HistoryType' /\ SeqLow'
    BY <1>4, <1>t, Zenon
    DEF DropOldestLoad, shared, counters, history, RingType, CountType, HistoryType, SeqLow
  <2>2. PcType' /\ LocalType' /\ AdvPos' /\ ItemSet'
    BY <1>4, <1>t, Zenon
    DEF DropOldestLoad, RingType, Goto, PcType, LocalType, AdvPos, ItemSet
  <2> QED BY <2>1, <2>2, Zenon DEF TypeInv, TypeOK
<1>5. ASSUME NEW p \in Producers, EnqueueStoreData(p) PROVE TypeInv'
  <2>1. RingType' /\ CountType' /\ HistoryType' /\ SeqLow'
    BY <1>5, <1>t, <1>s, Zenon
    DEF EnqueueStoreData, counters, history, RingType, CountType, HistoryType, SeqLow, LocalType, ItemSet
  <2>2. PcType' /\ LocalType' /\ AdvPos' /\ ItemSet'
    BY <1>5, <1>t, Zenon
    DEF EnqueueStoreData, locals, Goto, PcType, LocalType, AdvPos, ItemSet
  <2> QED BY <2>1, <2>2, Zenon DEF TypeInv, TypeOK
<1>6. ASSUME NEW p \in Producers, EnqueueStoreSeq(p) PROVE TypeInv'
  <2>0. CountType' /\ HistoryType'
    BY <1>6, <1>t DEF EnqueueStoreSeq, history, CountType, HistoryType
  <2>1. RingType' /\ CountType' /\ HistoryType' /\ SeqLow'
    <3>1. /\ sequence' = [sequence EXCEPT ![Slot(pos[p])] = pos[p] + 1]
          /\ UNCHANGED <<enqueuePos, dequeuePos, data>> /\ p \in Threads
      BY <1>6, <1>t, Zenon DEF EnqueueStoreSeq
    <3>2. PICK k \in Nat : k = pos[p] /\ Slot(k) \in Slots /\ Slot(k) <= k
      BY <3>1, <1>t, <1>s, Zenon DEF LocalType
    <3>3. k + 1 \in Nat /\ Slot(k) \in Nat /\ k + 1 >= Slot(k)
      BY <3>2 DEF Slots
    <3> QED BY <3>1, <3>2, <3>3, <2>0, <1>t, Zenon DEF RingType, SeqLow
  <2>2. PcType' /\ LocalType' /\ AdvPos' /\ ItemSet'
    BY <1>6, <1>t, Zenon
    DEF EnqueueStoreSeq, locals, Goto, PcType, LocalType, AdvPos, ItemSet
  <2> QED BY <2>1, <2>2, Zenon DEF TypeInv, TypeOK
<1>7. ASSUME NEW c \in Consumers, DequeueCall(c) PROVE TypeInv'
  <2>1. RingType' /\ CountType' /\ HistoryType' /\ SeqLow'
    BY <1>7, <1>t, Zenon
    DEF DequeueCall, shared, counters, history, RingType, CountType, HistoryType, SeqLow
  <2>2. PcType' /\ LocalType' /\ AdvPos' /\ ItemSet'
    BY <1>7, <1>t
    DEF DequeueCall, Goto, PcType, LocalType, AdvPos, ItemSet
  <2> QED BY <2>1, <2>2, Zenon DEF TypeInv, TypeOK
<1>8. ASSUME NEW t \in Threads, DequeueLoadPos(t) PROVE TypeInv'
  <2>1. RingType' /\ CountType' /\ HistoryType' /\ SeqLow'
    BY <1>8, <1>t, Zenon
    DEF DequeueLoadPos, shared, counters, history, RingType, CountType, HistoryType, SeqLow
  <2>2. PcType' /\ LocalType' /\ AdvPos' /\ ItemSet'
    BY <1>8, <1>t, Zenon
    DEF DequeueLoadPos, RingType, Goto, PcType, LocalType, AdvPos, ItemSet
  <2> QED BY <2>1, <2>2, Zenon DEF TypeInv, TypeOK
<1>9. ASSUME NEW t \in Threads, DequeueLoadSeq(t) PROVE TypeInv'
  <2>1. RingType' /\ CountType' /\ HistoryType' /\ SeqLow'
    BY <1>9, <1>t, Zenon
    DEF DequeueLoadSeq, shared, counters, history, RingType, CountType, HistoryType, SeqLow
  <2>2. PcType' /\ LocalType' /\ AdvPos' /\ ItemSet'
    BY <1>9, <1>t
    DEF DequeueLoadSeq, Resume, Goto, PcType, LocalType, AdvPos, ItemSet
  <2> QED BY <2>1, <2>2, Zenon DEF TypeInv, TypeOK
<1>10. ASSUME NEW t \in Threads, DequeueCAS(t) PROVE TypeInv'
  <2>1. RingType' /\ CountType' /\ HistoryType' /\ SeqLow'
    BY <1>10, <1>t
    DEF DequeueCAS, counters, history, RingType, CountType, HistoryType, SeqLow
  <2>2. PcType' /\ LocalType' /\ AdvPos' /\ ItemSet'
    BY <1>10, <1>t, Zenon
    DEF DequeueCAS, locals, Goto, PcType, LocalType, AdvPos, ItemSet
  <2> QED BY <2>1, <2>2, Zenon DEF TypeInv, TypeOK
<1>11. ASSUME NEW t \in Threads, DequeueLoadData(t) PROVE TypeInv'
  <2>1. RingType' /\ CountType' /\ HistoryType' /\ SeqLow'
    BY <1>11, <1>t, Zenon
    DEF DequeueLoadData, shared, counters, history, RingType, CountType, HistoryType, SeqLow
  <2>2. PcType' /\ LocalType' /\ AdvPos' /\ ItemSet'
    BY <1>11, <1>t, <1>s, Zenon
    DEF DequeueLoadData, RingType, Goto, PcType, LocalType, AdvPos, ItemSet
  <2> QED BY <2>1, <2>2, Zenon DEF TypeInv, TypeOK
<1>12. ASSUME NEW t \in Threads, DequeueClearData(t) PROVE TypeInv'
  <2>1. RingType' /\ CountType' /\ HistoryType' /\ SeqLow'
    BY <1>12, <1>t, <1>s, Zenon
    DEF DequeueClearData, counters, history, RingType, CountType, HistoryType, SeqLow
  <2>2. PcType' /\ LocalType' /\ AdvPos' /\ ItemSet'
    BY <1>12, <1>t, Zenon
    DEF DequeueClearData, locals, Goto, PcType, LocalType, AdvPos, ItemSet
  <2> QED BY <2>1, <2>2, Zenon DEF TypeInv, TypeOK
<1>13. ASSUME NEW t \in Threads, DequeueStoreSeq(t) PROVE TypeInv'
  <2>1. RingType' /\ CountType' /\ HistoryType' /\ SeqLow'
    <3>1. CountType' /\ HistoryType'
      BY <1>13, <1>t DEF DequeueStoreSeq, CountType, HistoryType, LocalType
    <3>2. PICK v \in Nat : v = pos[t] + Capacity /\ v >= Slot(pos[t]) /\ Slot(pos[t]) \in Slots
      BY <1>t, <1>s DEF LocalType, Slots
    <3>3. sequence' = [sequence EXCEPT ![Slot(pos[t])] = v] /\ UNCHANGED <<enqueuePos, dequeuePos, data>>
      BY <1>13, <3>2, Zenon DEF DequeueStoreSeq
    <3> QED BY <1>t, <3>1, <3>2, <3>3, Zenon DEF RingType, SeqLow
  <2>2. PcType' /\ LocalType' /\ AdvPos' /\ ItemSet'
    BY <1>13, <1>t
    DEF DequeueStoreSeq, Resume, Goto, PcType, LocalType, AdvPos, ItemSet
  <2> QED BY <2>1, <2>2, Zenon DEF TypeInv, TypeOK
<1>14. ASSUME NEW p \in Producers, EnqueueLoadSeq(p) PROVE TypeInv'
  <2>0. sequence[Slot(pos[p])] - pos[p] < 0 => pos[p] >= Capacity
    BY <1>t, <1>s, SlotSmall DEF SeqLow, RingType, LocalType
  <2>1. /\ UNCHANGED <<shared, enqueueCount, dequeueCount, pos, deq, item, got, sent, history>>
        /\ pc[p] # "idle"
    BY <1>14, Zenon DEF EnqueueLoadSeq
  <2>2. RingType' /\ CountType' /\ HistoryType' /\ SeqLow'
    BY <2>1, <1>14, <1>t, EnqueueLoadSeqTypes, Zenon
    DEF shared, history, RingType, CountType, HistoryType, SeqLow
  <2>3. PcType' /\ LocalType' /\ AdvPos' /\ ItemSet'
    BY <2>0, <2>1, <1>14, <1>t, EnqueueLoadSeqTypes DEF Goto, PcType, LocalType, AdvPos, ItemSet
  <2> QED BY <2>2, <2>3, Zenon DEF TypeInv, TypeOK
<1>15. ASSUME NEW p \in Producers, DropOldestCAS(p) PROVE TypeInv'
  <2>0. pos[p] - Capacity + 1 \in Nat
    BY <1>15, <1>t DEF DropOldestCAS, AdvPos, LocalType
  <2>1. RingType' /\ CountType' /\ HistoryType' /\ SeqLow'
    BY <2>0, <1>15, <1>t, RetryTypes, Zenon
    DEF DropOldestCAS, history, RingType, CountType, HistoryType, SeqLow
  <2>2. PcType' /\ LocalType' /\ AdvPos' /\ ItemSet'
    BY <1>15, <1>t, RetryTypes DEF DropOldestCAS, Goto, PcType, LocalType, AdvPos, ItemSet
  <2> QED BY <2>1, <2>2, Zenon DEF TypeInv, TypeOK
<1>16. CASE UNCHANGED vars
  BY <1>16, <1>t, Zenon DEF vars, shared, counters, locals, history, TypeInv, TypeOK, RingType,
     CountType, PcType, LocalType, HistoryType, SeqLow, AdvPos, ItemSet
<1> QED
  BY <1>1, <1>2, <1>3, <1>4, <1>5, <1>6, <1>7, <1>8, <1>9, <1>10, <1>11, <1>12, Zenon,
     <1>13, <1>14, <1>15, <1>16 DEF Next, EnqueueStep, DequeueStep

\* Every variable keeps its type under every drop policy; in particular the
\* position DropOldest computes never falls below zero.
THEOREM TypeCorrect == Spec => []TypeOK
<1>1. TypeInv => TypeOK
  BY Zenon DEF TypeInv
<1> QED BY <1>1, TypeInit, TypeNext, PTL DEF Spec

-----------------------------------------------------------------------------
(* Two calls of Enqueue never own the same slot, under every drop policy and
   every capacity.  DropOldest moves dequeuePos past slots consumers still hold,
   so nothing here may rest on dequeuePos: the argument is that a free position
   never finds a sequence above it, and that whoever is to store a sequence works
   at a position a lap behind every position that is claimed after it. *)

Holding(t) == pc[t] \in {"d_cas", "d_load", "d_clear", "d_store"}

\* No slot is ahead of the positions that are still to be claimed.
FreeSeq == \A k \in Nat : k >= enqueuePos => sequence[Slot(k)] <= k
LoadedLow == \A p \in Producers : pc[p] \in {"e_seq", "e_cas"} => pos[p] <= enqueuePos
\* An owner is in the last lap, and its slot is not published yet.
Owned ==
  \A p \in Producers : Producing(p) =>
    /\ pos[p] < enqueuePos /\ enqueuePos <= pos[p] + Capacity
    /\ sequence[Slot(pos[p])] <= pos[p]
Apart == \A p, q \in Producers : Producing(p) /\ Producing(q) /\ p # q => pos[p] # pos[q]
\* Whoever saw a slot published is behind its next owner.
Behind ==
  \A t \in Threads : Holding(t) =>
    /\ pos[t] < enqueuePos
    /\ \A p \in Producers : Producing(p) /\ Slot(pos[p]) = Slot(pos[t]) => pos[t] < pos[p]
\* A CAS that can still succeed is on a slot nobody owns.
Clear ==
  \A p, q \in Producers :
    pc[p] = "e_cas" /\ pos[p] = enqueuePos /\ Producing(q) => Slot(pos[q]) # Slot(pos[p])

ExclusiveInv == FreeSeq /\ LoadedLow /\ Owned /\ Apart /\ Behind /\ Clear

LEMMA SlotNear ==
  ASSUME NEW a \in Nat, NEW b \in Nat, a # b, a < b + Capacity, b < a + Capacity
  PROVE  Slot(a) # Slot(b)
  BY SlotDistinct, CapacityAssumption

LEMMA Facts ==
  ASSUME TypeInv
  PROVE  /\ Capacity \in Nat \ {0} /\ enqueuePos \in Nat /\ dequeuePos \in Nat
         /\ \A k \in Nat : Slot(k) \in Slots /\ sequence[Slot(k)] \in Nat
         /\ \A t \in Threads : pos[t] \in Nat
         /\ \A p \in Producers : p \in Threads /\ p \notin Consumers
         /\ \A c \in Consumers : c \in Threads /\ c \notin Producers
<1>1. \A k \in Nat : Slot(k) \in Slots
  BY SlotType, Zenon
<1>2. \A k \in Nat : sequence[Slot(k)] \in Nat
  BY <1>1, Zenon DEF TypeInv, TypeOK, RingType
<1> QED
  BY <1>1, <1>2, CapacityAssumption, ThreadsAssumption, Zenon
  DEF TypeInv, TypeOK, RingType, LocalType, Threads

LEMMA PcFrame ==
  ASSUME TypeInv, NEW t \in Threads, NEW l, Goto(t, l)
  PROVE  pc'[t] = l /\ \A u \in Threads : u # t => pc'[u] = pc[u]
  BY Zenon DEF TypeInv, TypeOK, PcType, Goto

\* A position that shares a slot with a later one is a lap or more behind it.
LEMMA SlotLap ==
  ASSUME NEW a \in Nat, NEW b \in Nat, a < b, Slot(a) = Slot(b)
  PROVE  a + Capacity <= b
  BY SlotDistinct, CapacityAssumption

LEMMA ExclusiveInit == Init => ExclusiveInv
<1> SUFFICES ASSUME Init PROVE ExclusiveInv
  BY Zenon
<1>1. \A t \in Threads : pc[t] = "idle"
  BY Zenon DEF Init
<1>2. FreeSeq
  BY SlotType, Zenon DEF Init, FreeSeq
<1> QED
  BY <1>1, <1>2, Zenon DEF ExclusiveInv, LoadedLow, Owned, Apart, Behind, Clear, Producing, Holding,
     Threads

\* The steps of a thread t that neither claim a position nor store a sequence.
LEMMA ExclusiveQuiet ==
  ASSUME TypeInv, ExclusiveInv, NEW t \in Threads, UNCHANGED <<enqueuePos, sequence>>,
         \A u \in Threads : u # t => pc'[u] = pc[u] /\ pos'[u] = pos[u],
         Producing(t)' => Producing(t) /\ pos'[t] = pos[t],
         pc'[t] \in {"e_seq", "e_cas"} => pos'[t] <= enqueuePos,
         pc'[t] = "e_cas" => sequence[Slot(pos'[t])] = pos'[t],
         Holding(t)' => \/ Holding(t) /\ pos'[t] = pos[t]
                        \/ sequence[Slot(pos'[t])] = pos'[t] + 1 /\ pos'[t] \in Nat
  PROVE  ExclusiveInv'
<1>1. /\ \A q \in Producers : Producing(q)' => Producing(q) /\ pos'[q] = pos[q]
      /\ \A q \in Producers : Producing(q) => /\ pos[q] < enqueuePos
                                              /\ sequence[Slot(pos[q])] <= pos[q]
                                              /\ pos[q] \in Nat
  BY Facts, Zenon DEF Producing, ExclusiveInv, Owned
<1>2. FreeSeq' /\ LoadedLow'
  BY Facts, Zenon DEF ExclusiveInv, FreeSeq, LoadedLow
<1>3. Owned' /\ Apart'
  BY <1>1, Zenon DEF ExclusiveInv, Owned, Apart
<1>4. Behind'
  <2> SUFFICES ASSUME NEW u \in Threads, Holding(u)'
      PROVE  /\ pos'[u] < enqueuePos
             /\ \A p \in Producers : Producing(p) /\ Slot(pos[p]) = Slot(pos'[u]) => pos'[u] < pos[p]
    BY <1>1, Zenon DEF Behind
  <2>1. CASE Holding(u) /\ pos'[u] = pos[u]
    BY <2>1, Zenon DEF ExclusiveInv, Behind
  <2>2. CASE u = t /\ sequence[Slot(pos'[t])] = pos'[t] + 1 /\ pos'[t] \in Nat
    BY <2>2, <1>1, Facts DEF ExclusiveInv, FreeSeq
  <2> QED BY <2>1, <2>2, Zenon DEF Holding
<1>5. Clear'
  <2> SUFFICES ASSUME NEW p \in Producers, NEW q \in Producers, pc'[p] = "e_cas",
                      pos'[p] = enqueuePos, Producing(q)
      PROVE  Slot(pos[q]) # Slot(pos'[p])
    BY <1>1, Zenon DEF Clear
  <2>1. CASE p = t
    BY <2>1, <1>1, Facts
  <2>2. CASE p # t
    BY <2>2, Facts, Zenon DEF ExclusiveInv, Clear
  <2> QED BY <2>1, <2>2, Zenon
<1> QED BY <1>2, <1>3, <1>4, <1>5, Zenon DEF ExclusiveInv

LEMMA ExclusiveClaim ==
  ASSUME TypeInv, ExclusiveInv, NEW p \in Producers, EnqueueCAS(p), enqueuePos = pos[p]
  PROVE  ExclusiveInv'
<1>1. /\ pc[p] = "e_cas" /\ Goto(p, "e_data") /\ enqueuePos' = enqueuePos + 1
      /\ sequence' = sequence /\ pos' = pos
  BY Zenon DEF EnqueueCAS, locals
<1>2. /\ Producing(p)' /\ ~Producing(p) /\ pc'[p] = "e_data"
      /\ \A u \in Threads : u # p => pc'[u] = pc[u]
      /\ \A u \in Threads : u # p => Producing(u)' = Producing(u) /\ Holding(u)' = Holding(u)
      /\ ~Holding(p)'
  BY <1>1, PcFrame, Facts DEF Producing, Holding
<1>3. \A q \in Producers : Producing(q) =>
        /\ pos[q] < enqueuePos /\ enqueuePos + 1 <= pos[q] + Capacity
        /\ sequence[Slot(pos[q])] <= pos[q] /\ pos[q] \in Nat
  <2> SUFFICES ASSUME NEW q \in Producers, Producing(q)
      PROVE  /\ pos[q] < enqueuePos /\ enqueuePos + 1 <= pos[q] + Capacity
             /\ sequence[Slot(pos[q])] <= pos[q] /\ pos[q] \in Nat
    BY Zenon
  <2>1. /\ pos[q] \in Nat /\ pos[q] < enqueuePos /\ enqueuePos <= pos[q] + Capacity
        /\ sequence[Slot(pos[q])] <= pos[q]
    BY Facts, Zenon DEF ExclusiveInv, Owned
  <2>2. enqueuePos # pos[q] + Capacity
    BY <2>1, <1>1, SlotShift, Zenon DEF ExclusiveInv, Clear
  <2> QED BY <2>1, <2>2, Facts
<1>4. FreeSeq'
  BY <1>1, Facts DEF ExclusiveInv, FreeSeq
<1>5. \A q \in Producers : pc'[q] \in {"e_seq", "e_cas"} => pos[q] <= enqueuePos
  BY <1>2, Facts, Zenon DEF ExclusiveInv, LoadedLow
<1>6. LoadedLow' /\ Clear'
  BY <1>1, <1>5, Facts DEF LoadedLow, Clear
<1>7. Owned'
  <2>1. sequence[Slot(pos[p])] <= pos[p]
    BY Facts DEF ExclusiveInv, FreeSeq
  <2> QED BY <2>1, <1>1, <1>2, <1>3, Facts DEF Owned
<1>8. Apart'
  BY <1>1, <1>2, <1>3, Facts DEF ExclusiveInv, Apart
<1>9. Behind'
  BY <1>1, <1>2, Facts DEF ExclusiveInv, Behind
<1> QED BY <1>4, <1>6, <1>7, <1>8, <1>9, Zenon DEF ExclusiveInv

\* A store of v into the slot of t's position: v is ahead of no free position and
\* of no owner of the slot other than t itself.
LEMMA ExclusiveStore ==
  ASSUME TypeInv, ExclusiveInv, NEW t \in Threads, NEW v \in Nat,
         sequence' = [sequence EXCEPT ![Slot(pos[t])] = v],
         UNCHANGED <<enqueuePos, pos>>,
         \A u \in Threads : u # t => pc'[u] = pc[u],
         pc'[t] \in {"idle", "e_pos"},
         \A k \in Nat : k >= enqueuePos /\ Slot(k) = Slot(pos[t]) => v <= k,
         \A q \in Producers : q # t /\ Producing(q) /\ Slot(pos[q]) = Slot(pos[t]) => v <= pos[q]
  PROVE  ExclusiveInv'
<1>1. /\ \A k \in Nat : sequence'[Slot(k)] = IF Slot(k) = Slot(pos[t]) THEN v ELSE sequence[Slot(k)]
      /\ enqueuePos' = enqueuePos /\ pos' = pos
  BY Facts, Zenon DEF TypeInv, TypeOK, RingType
<1>2. /\ \A q \in Producers : Producing(q)' => Producing(q) /\ q # t
      /\ \A u \in Threads : Holding(u)' => Holding(u)
      /\ \A q \in Producers : pc'[q] \in {"e_seq", "e_cas"} => pc'[q] = pc[q]
  BY Facts, Zenon DEF Producing, Holding
<1>3. FreeSeq'
  BY <1>1, Zenon DEF ExclusiveInv, FreeSeq
<1>4. LoadedLow' /\ Apart'
  BY <1>1, <1>2, Zenon DEF ExclusiveInv, LoadedLow, Apart
<1>5. Owned'
  BY <1>1, <1>2, Facts, ZenonT(30) DEF ExclusiveInv, Owned
<1>6. Behind' /\ Clear'
  <2>0. enqueuePos' = enqueuePos /\ pos' = pos
    BY Zenon
  <2>1. Behind'
    BY <2>0, <1>2, Zenon DEF ExclusiveInv, Behind
  <2>2. Clear'
    BY <2>0, <1>2, Zenon DEF ExclusiveInv, Clear
  <2> QED BY <2>1, <2>2, Zenon
<1> QED BY <1>3, <1>4, <1>5, <1>6, Zenon DEF ExclusiveInv

LEMMA ExclusiveOwners ==
  ASSUME TypeInv, ExclusiveInv
  PROVE  ProducersExclusive
<1> SUFFICES ASSUME NEW p \in Producers, NEW q \in Producers, Producing(p), Producing(q), p # q
    PROVE  Slot(pos[p]) # Slot(pos[q])
  BY Zenon DEF ProducersExclusive
<1>1. /\ pos[p] \in Nat /\ pos[q] \in Nat /\ pos[p] # pos[q]
      /\ pos[p] < pos[q] + Capacity /\ pos[q] < pos[p] + Capacity
  BY Facts DEF ExclusiveInv, Owned, Apart
<1> QED BY <1>1, SlotNear, Zenon

LEMMA ExclusiveNext == TypeInv /\ ExclusiveInv /\ [Next]_vars => ExclusiveInv'
<1> SUFFICES ASSUME TypeInv, ExclusiveInv, [Next]_vars PROVE ExclusiveInv'
  BY Zenon
<1>t. TypeOK /\ pos \in [Threads -> Nat] /\ enqueuePos \in Nat /\ dequeuePos \in Nat
  BY Zenon DEF TypeInv, TypeOK, LocalType, RingType
<1>1. ASSUME NEW p \in Producers,
             EnqueueCall(p) \/ EnqueueLoadPos(p) \/ DropOldestLoad(p) \/ EnqueueStoreData(p)
      PROVE  ExclusiveInv'
  <2>1. /\ UNCHANGED <<enqueuePos, sequence>>
        /\ \/ UNCHANGED pos /\ pc[p] = "e_data" /\ Goto(p, "e_store")
           \/ UNCHANGED pos /\ (Goto(p, "e_pos") \/ Goto(p, "e_adv"))
           \/ pos' = [pos EXCEPT ![p] = enqueuePos] /\ Goto(p, "e_seq")
    BY <1>1, Zenon DEF EnqueueCall, EnqueueLoadPos, DropOldestLoad, EnqueueStoreData, shared, locals
  <2> QED BY <2>1, <1>t, PcFrame, Facts, ExclusiveQuiet DEF Producing, Holding
<1>2. ASSUME NEW p \in Producers, EnqueueLoadSeq(p) PROVE ExclusiveInv'
  <2>1. UNCHANGED <<enqueuePos, sequence, pos>> /\ pc[p] = "e_seq"
    BY <1>2, Zenon DEF EnqueueLoadSeq, shared
  <2>2. \/ sequence[Slot(pos[p])] - pos[p] = 0 /\ Goto(p, "e_cas")
        \/ \E l \in {"idle", "d_pos", "e_pos", "e_old"} : Goto(p, l)
    BY <1>2, <1>t, RejectTypes, RetryTypes, Zenon DEF EnqueueLoadSeq
  <2>3. pos[p] <= enqueuePos
    BY <2>1, Zenon DEF ExclusiveInv, LoadedLow
  <2> QED BY <2>1, <2>2, <2>3, PcFrame, Facts, ExclusiveQuiet DEF Producing, Holding
<1>3. ASSUME NEW p \in Producers, EnqueueCAS(p) PROVE ExclusiveInv'
  <2>1. CASE enqueuePos # pos[p]
    <3>1. UNCHANGED <<enqueuePos, sequence, pos>> /\ Goto(p, "e_pos")
      BY <2>1, <1>3, Zenon DEF EnqueueCAS, locals
    <3> QED BY <3>1, PcFrame, Facts, ExclusiveQuiet DEF Producing, Holding
  <2> QED BY <2>1, <1>3, ExclusiveClaim, Zenon
<1>4. ASSUME NEW p \in Producers, DropOldestCAS(p) PROVE ExclusiveInv'
  <2>1. /\ UNCHANGED <<enqueuePos, sequence, pos>>
        /\ \E l \in {"idle", "d_pos", "e_pos"} : Goto(p, l)
    BY <1>4, <1>t, RetryTypes, Zenon DEF DropOldestCAS
  <2> QED BY <2>1, PcFrame, Facts, ExclusiveQuiet, Zenon DEF Producing, Holding
<1>5. ASSUME NEW p \in Producers, EnqueueStoreSeq(p) PROVE ExclusiveInv'
  <2>1. /\ UNCHANGED <<enqueuePos, pos>> /\ Goto(p, "idle") /\ Producing(p)
        /\ sequence' = [sequence EXCEPT ![Slot(pos[p])] = pos[p] + 1]
    BY <1>5, Zenon DEF EnqueueStoreSeq, locals, Producing
  <2>2. pos[p] + 1 \in Nat /\ pos[p] < enqueuePos
    BY <2>1, Facts DEF ExclusiveInv, Owned
  <2>3. \A q \in Producers : q # p /\ Producing(q) => Slot(pos[q]) # Slot(pos[p])
    BY <2>1, ExclusiveOwners, Zenon DEF ProducersExclusive
  <2>4. p \in Threads /\ pc'[p] = "idle" /\ \A u \in Threads : u # p => pc'[u] = pc[u]
    BY <2>1, PcFrame, Facts, Zenon
  <2>5. \A k \in Nat : k >= enqueuePos => pos[p] + 1 <= k
    BY <2>2, Facts
  <2> QED BY <2>1, <2>2, <2>3, <2>4, <2>5, ExclusiveStore, Zenon
<1>6. ASSUME NEW t \in Threads, DequeueCall(t) \/ DequeueLoadPos(t) \/ DequeueLoadSeq(t)
      PROVE  ExclusiveInv'
  <2>1. /\ UNCHANGED <<enqueuePos, sequence>>
        /\ \/ UNCHANGED pos /\ (Goto(t, "d_pos") \/ Goto(t, "idle") \/ Goto(t, "e_pos"))
           \/ pos' = [pos EXCEPT ![t] = dequeuePos] /\ Goto(t, "d_seq")
           \/ UNCHANGED pos /\ sequence[Slot(pos[t])] - (pos[t] + 1) = 0 /\ Goto(t, "d_cas")
    BY <1>6, Zenon DEF DequeueCall, DequeueLoadPos, DequeueLoadSeq, shared, Resume
  <2> QED BY <2>1, <1>t, PcFrame, Facts, ExclusiveQuiet DEF Producing, Holding
<1>7. ASSUME NEW t \in Threads, DequeueCAS(t) \/ DequeueLoadData(t) \/ DequeueClearData(t)
      PROVE  ExclusiveInv'
  <2>1. /\ UNCHANGED <<enqueuePos, sequence, pos>> /\ Holding(t)
        /\ \E l \in {"d_load", "d_pos", "d_clear", "d_store"} : Goto(t, l)
    BY <1>7, Zenon DEF DequeueCAS, DequeueLoadData, DequeueClearData, shared, locals, Holding
  <2> QED BY <2>1, PcFrame, Facts, ExclusiveQuiet, Zenon DEF Producing, Holding
<1>8. ASSUME NEW t \in Threads, DequeueStoreSeq(t) PROVE ExclusiveInv'
  <2>1. /\ UNCHANGED <<enqueuePos, pos>> /\ Goto(t, Resume(t)) /\ Holding(t)
        /\ sequence' = [sequence EXCEPT ![Slot(pos[t])] = pos[t] + Capacity]
    BY <1>8, Zenon DEF DequeueStoreSeq, Holding
  <2>2. pos[t] + Capacity \in Nat /\ pos[t] \in Nat /\ pos[t] < enqueuePos
    BY <2>1, Facts DEF ExclusiveInv, Behind
  <2>3. \A k \in Nat : k >= enqueuePos /\ Slot(k) = Slot(pos[t]) => pos[t] + Capacity <= k
    BY <2>2, SlotLap, Facts
  <2>4. \A q \in Producers : Producing(q) /\ Slot(pos[q]) = Slot(pos[t]) => pos[t] + Capacity <= pos[q]
    BY <2>1, <2>2, SlotLap, Facts, Zenon DEF ExclusiveInv, Behind
  <2>5. pc'[t] \in {"idle", "e_pos"} /\ \A u \in Threads : u # t => pc'[u] = pc[u]
    BY <2>1, PcFrame, Zenon DEF Resume
  <2> QED BY <2>1, <2>2, <2>3, <2>4, <2>5, ExclusiveStore, Zenon
<1>9. CASE UNCHANGED vars
  BY <1>9, Zenon DEF vars, shared, locals, ExclusiveInv, FreeSeq, LoadedLow, Owned, Apart, Behind, Clear,
     Producing, Holding
<1> QED
  BY <1>1, <1>2, <1>3, <1>4, <1>5, <1>6, <1>7, <1>8, <1>9, Facts, Zenon DEF Next, EnqueueStep, DequeueStep

\* Two Enqueue calls never write the same slot at the same time: whatever the
\* policy, the capacity and the number of threads, and although DropOldest takes
\* slots from under the consumers that hold them.
THEOREM EnqueueExclusive == Spec => []ProducersExclusive
<1>1. Init => TypeInv /\ ExclusiveInv
  BY TypeInit, ExclusiveInit, Zenon
<1>2. TypeInv /\ ExclusiveInv /\ [Next]_vars => (TypeInv /\ ExclusiveInv)'
  BY TypeNext, ExclusiveNext, Zenon
<1>3. TypeInv /\ ExclusiveInv => ProducersExclusive
  BY ExclusiveOwners, Zenon
<1> QED BY <1>1, <1>2, <1>3, PTL DEF Spec

-----------------------------------------------------------------------------
(* The ring is correct when nothing but Dequeue moves dequeuePos and a slot's
   two marks k+1 and k+Capacity differ: under DropNewest and Block, with at
   least two slots.  Then the slots threads own are apart. *)

Strict == DropPolicy # "DropOldest" /\ Capacity > 1

\* The slot a producer owns is met by no other full position, no free position,
\* no other owner, and no thread about to win its CAS.
LEMMA ProducerApart ==
  ASSUME TypeInv, RingCore, Strict, NEW p \in Producers, Producing(p)
  PROVE  /\ pos[p] \in Nat /\ dequeuePos <= pos[p] /\ pos[p] < enqueuePos
         /\ sequence[Slot(pos[p])] = pos[p]
         /\ \A j \in dequeuePos .. (dequeuePos + Capacity - 1) :
              j # pos[p] => Slot(j) # Slot(pos[p])
         /\ \A q \in Producers : Producing(q) /\ q # p => Slot(pos[q]) # Slot(pos[p])
         /\ \A c \in Consumers : Consuming(c) => Slot(pos[c]) # Slot(pos[p])
         /\ \A q \in Producers : pc[q] = "e_cas" /\ pos[q] = enqueuePos =>
              Slot(pos[q]) # Slot(pos[p])
         /\ \A c \in Consumers : pc[c] = "d_cas" /\ pos[c] = dequeuePos =>
              Slot(pos[c]) # Slot(pos[p])
<1>1. /\ pos[p] \in Nat /\ dequeuePos <= pos[p] /\ pos[p] < enqueuePos
      /\ sequence[Slot(pos[p])] = pos[p]
  BY Facts, Zenon DEF RingCore, ProducerOwns
<1>2. dequeuePos <= enqueuePos /\ enqueuePos <= dequeuePos + Capacity
  BY Zenon DEF RingCore, Window
<1>3. ASSUME NEW j \in dequeuePos .. (dequeuePos + Capacity - 1), j # pos[p]
      PROVE  Slot(j) # Slot(pos[p])
  <2>1. j \in Nat /\ j < pos[p] + Capacity /\ pos[p] < j + Capacity
    BY <1>1, <1>2, Facts
  <2> QED BY <2>1, <1>1, <1>3, SlotNear, Zenon
<1>4. ASSUME NEW q \in Producers, Producing(q), q # p PROVE Slot(pos[q]) # Slot(pos[p])
  <2>1. pos[q] # pos[p] /\ dequeuePos <= pos[q] /\ pos[q] < enqueuePos /\ pos[q] \in Nat
    BY <1>4, Facts, Zenon DEF RingCore, ProducerOwns, Differ
  <2> QED BY <2>1, <1>2, <1>3, Facts
<1>5. ASSUME NEW c \in Consumers, Consuming(c) PROVE Slot(pos[c]) # Slot(pos[p])
  <2>1. pos[c] < dequeuePos /\ enqueuePos <= pos[c] + Capacity /\ pos[c] \in Nat
    BY <1>5, Facts, Zenon DEF RingCore, ConsumerOwns
  <2>2. pos[c] # pos[p] /\ pos[c] < pos[p] + Capacity /\ pos[p] < pos[c] + Capacity
    BY <2>1, <1>1, Facts
  <2> QED BY <2>1, <2>2, <1>1, SlotNear, Zenon
<1>6. ASSUME NEW q \in Producers, pc[q] = "e_cas", pos[q] = enqueuePos
      PROVE  Slot(pos[q]) # Slot(pos[p])
  <2>1. sequence[Slot(pos[q])] = enqueuePos
    BY <1>6, Zenon DEF RingCore, Fresh
  <2> QED BY <2>1, <1>1, Facts
<1>7. ASSUME NEW c \in Consumers, pc[c] = "d_cas", pos[c] = dequeuePos
      PROVE  Slot(pos[c]) # Slot(pos[p])
  <2>1. sequence[Slot(pos[c])] = dequeuePos + 1
    BY <1>7, Zenon DEF RingCore, Fresh
  <2>2. dequeuePos = pos[p] => FALSE
    BY <2>1, <1>1, <1>7, Facts
  <2> QED BY <2>2, <1>1, <1>2, <1>3, <1>7, Facts
<1> QED BY <1>1, <1>3, <1>4, <1>5, <1>6, <1>7, Zenon

\* The same for the slot a consumer owns; the free position that meets it is
\* the next lap's.
LEMMA ConsumerApart ==
  ASSUME TypeInv, RingCore, Strict, NEW c \in Consumers, Consuming(c)
  PROVE  /\ pos[c] \in Nat /\ pos[c] < dequeuePos /\ enqueuePos <= pos[c] + Capacity
         /\ sequence[Slot(pos[c])] = pos[c] + 1
         /\ \A j \in dequeuePos .. (dequeuePos + Capacity - 1) :
              j # pos[c] + Capacity => Slot(j) # Slot(pos[c])
         /\ \A p \in Producers : Producing(p) => Slot(pos[p]) # Slot(pos[c])
         /\ \A d \in Consumers : Consuming(d) /\ d # c => Slot(pos[d]) # Slot(pos[c])
         /\ \A p \in Producers : pc[p] = "e_cas" /\ pos[p] = enqueuePos =>
              Slot(pos[p]) # Slot(pos[c])
         /\ \A d \in Consumers : pc[d] = "d_cas" /\ pos[d] = dequeuePos =>
              Slot(pos[d]) # Slot(pos[c])
<1>1. /\ pos[c] \in Nat /\ pos[c] < dequeuePos /\ enqueuePos <= pos[c] + Capacity
      /\ sequence[Slot(pos[c])] = pos[c] + 1
  BY Facts, Zenon DEF RingCore, ConsumerOwns
<1>2. dequeuePos <= enqueuePos /\ enqueuePos <= dequeuePos + Capacity
  BY Zenon DEF RingCore, Window
<1>3. ASSUME NEW j \in dequeuePos .. (dequeuePos + Capacity - 1), j # pos[c] + Capacity
      PROVE  Slot(j) # Slot(pos[c])
  <2>1. j \in Nat /\ pos[c] < j
    BY <1>1, Facts
  <2>2. CASE j < pos[c] + Capacity
    BY <2>1, <2>2, <1>1, SlotDistinct, Zenon
  <2>3. CASE j > pos[c] + Capacity
    <3>1. pos[c] + Capacity \in Nat /\ j < (pos[c] + Capacity) + Capacity
      BY <1>1, <1>2, Facts
    <3>2. Slot(pos[c] + Capacity) # Slot(j)
      BY <3>1, <2>1, <2>3, SlotDistinct, Zenon
    <3> QED BY <3>2, <1>1, SlotShift, Zenon
  <2> QED BY <2>1, <2>2, <2>3, <1>1, <1>3, Facts
<1>4. ASSUME NEW p \in Producers, Producing(p) PROVE Slot(pos[p]) # Slot(pos[c])
  BY <1>4, ProducerApart, Zenon
<1>5. ASSUME NEW d \in Consumers, Consuming(d), d # c PROVE Slot(pos[d]) # Slot(pos[c])
  <2>1. /\ pos[d] # pos[c] /\ pos[d] < dequeuePos /\ enqueuePos <= pos[d] + Capacity
        /\ pos[d] \in Nat
    BY <1>5, Facts, Zenon DEF RingCore, ConsumerOwns, Differ
  <2>2. pos[d] < pos[c] + Capacity /\ pos[c] < pos[d] + Capacity
    BY <2>1, <1>1, <1>2, Facts
  <2> QED BY <2>1, <2>2, <1>1, SlotNear, Zenon
<1>6. ASSUME NEW p \in Producers, pc[p] = "e_cas", pos[p] = enqueuePos
      PROVE  Slot(pos[p]) # Slot(pos[c])
  <2>1. sequence[Slot(pos[p])] = enqueuePos
    BY <1>6, Zenon DEF RingCore, Fresh
  <2>2. enqueuePos = pos[c] + Capacity => FALSE
    BY <2>1, <1>1, <1>6, SlotShift, Facts DEF Strict
  <2>3. enqueuePos < pos[c] + Capacity /\ pos[c] < enqueuePos
    BY <2>2, <1>1, <1>2, Facts
  <2> QED BY <2>3, <1>1, <1>6, SlotDistinct, Facts, Zenon
<1>7. ASSUME NEW d \in Consumers, pc[d] = "d_cas", pos[d] = dequeuePos
      PROVE  Slot(pos[d]) # Slot(pos[c])
  <2>1. sequence[Slot(pos[d])] = dequeuePos + 1
    BY <1>7, Zenon DEF RingCore, Fresh
  <2> QED BY <2>1, <1>1, Facts
<1> QED BY <1>1, <1>3, <1>4, <1>5, <1>6, <1>7, Zenon

-----------------------------------------------------------------------------
(* RingCore is kept by every step.  First the steps that leave the ring alone. *)

LEMMA ProducerQuiet ==
  ASSUME TypeInv, RingCore, Strict, NEW p \in Producers,
         UNCHANGED <<shared, got, log>>,
         \A u \in Threads : u # p => pc'[u] = pc[u] /\ pos'[u] = pos[u],
         \A q \in Producers : q # p => item'[q] = item[q],
         pc'[p] \in {"idle", "e_pos", "e_seq", "e_cas"},
         pc'[p] \in {"e_seq", "e_cas"} => pos'[p] <= enqueuePos,
         pc'[p] = "e_cas" => sequence[Slot(pos'[p])] = pos'[p]
  PROVE  RingCore'
<1>1. /\ enqueuePos' = enqueuePos /\ dequeuePos' = dequeuePos /\ sequence' = sequence
      /\ data' = data /\ got' = got /\ log' = log
  BY Zenon DEF shared
<1>2. /\ \A q \in Producers : q # p => pc'[q] = pc[q] /\ pos'[q] = pos[q]
      /\ \A c \in Consumers : pc'[c] = pc[c] /\ pos'[c] = pos[c]
  BY Facts, Zenon
<1>3. /\ ~Producing(p)' /\ pc'[p] # "e_store"
      /\ \A q \in Producers : q # p => Producing(q)' = Producing(q)
      /\ \A c \in Consumers : Consuming(c)' = Consuming(c)
  BY <1>2, Zenon DEF Producing, Consuming
<1>4. Labels' /\ Window'
  BY <1>1, <1>2, Zenon DEF RingCore, Labels, Window
<1>5. FullSide' /\ FreeSide'
  BY <1>1, Zenon DEF RingCore, FullSide, FreeSide
<1>6. Loaded'
  BY <1>1, <1>2, Zenon DEF RingCore, Loaded
<1>7. Fresh'
  BY <1>1, <1>2, Facts, Zenon DEF RingCore, Fresh
<1>8. ProducerOwns'
  BY <1>1, <1>2, <1>3, Zenon DEF RingCore, ProducerOwns
<1>9. ConsumerOwns'
  BY <1>1, <1>2, <1>3, Zenon DEF RingCore, ConsumerOwns
<1>10. Differ'
  BY <1>1, <1>2, <1>3, ZenonT(30) DEF RingCore, Differ
<1>11. Held'
  BY <1>1, <1>2, <1>3, ZenonT(30) DEF RingCore, Held
<1> QED BY <1>4, <1>5, <1>6, <1>7, <1>8, <1>9, <1>10, <1>11, Zenon DEF RingCore

LEMMA ConsumerQuiet ==
  ASSUME TypeInv, RingCore, Strict, NEW c \in Consumers,
         UNCHANGED <<shared, item, got, log>>,
         \A u \in Threads : u # c => pc'[u] = pc[u] /\ pos'[u] = pos[u],
         pc'[c] \in {"idle", "d_pos", "d_seq", "d_cas"},
         pc'[c] \in {"d_seq", "d_cas"} => pos'[c] <= dequeuePos,
         pc'[c] = "d_cas" => sequence[Slot(pos'[c])] = pos'[c] + 1
  PROVE  RingCore'
<1>1. /\ enqueuePos' = enqueuePos /\ dequeuePos' = dequeuePos /\ sequence' = sequence
      /\ data' = data /\ got' = got /\ log' = log /\ item' = item
  BY Zenon DEF shared
<1>2. /\ \A p \in Producers : pc'[p] = pc[p] /\ pos'[p] = pos[p]
      /\ \A d \in Consumers : d # c => pc'[d] = pc[d] /\ pos'[d] = pos[d]
  BY Facts, Zenon
<1>3. /\ ~Consuming(c)' /\ pc'[c] \notin {"d_load", "d_clear", "d_store"}
      /\ \A p \in Producers : Producing(p)' = Producing(p)
      /\ \A d \in Consumers : d # c => Consuming(d)' = Consuming(d)
  BY <1>2, Zenon DEF Producing, Consuming
<1>4. Labels' /\ Window'
  BY <1>1, <1>2, Zenon DEF RingCore, Labels, Window
<1>5. FullSide' /\ FreeSide'
  BY <1>1, Zenon DEF RingCore, FullSide, FreeSide
<1>6. Loaded'
  BY <1>1, <1>2, Zenon DEF RingCore, Loaded
<1>7. Fresh'
  BY <1>1, <1>2, ZenonT(30) DEF RingCore, Fresh
<1>8. ProducerOwns'
  BY <1>1, <1>2, <1>3, Zenon DEF RingCore, ProducerOwns
<1>9. ConsumerOwns'
  BY <1>1, <1>2, <1>3, Zenon DEF RingCore, ConsumerOwns
<1>10. Differ'
  BY <1>1, <1>2, <1>3, ZenonT(30) DEF RingCore, Differ
<1>11. Held'
  BY <1>1, <1>2, <1>3, ZenonT(30) DEF RingCore, Held
<1> QED BY <1>4, <1>5, <1>6, <1>7, <1>8, <1>9, <1>10, <1>11, Zenon DEF RingCore

-----------------------------------------------------------------------------
(* The steps of Enqueue and of Dequeue *)

(* A successful CAS of Enqueue claims a free position. *)
LEMMA EnqueueCASKeeps ==
  ASSUME TypeInv, RingCore, Strict, NEW p \in Producers, EnqueueCAS(p), enqueuePos = pos[p]
  PROVE  RingCore'
<1>1. /\ pc[p] = "e_cas" /\ Goto(p, "e_data") /\ log' = Append(log, item[p])
      /\ enqueuePos' = enqueuePos + 1 /\ dequeuePos' = dequeuePos
      /\ sequence' = sequence /\ data' = data /\ pos' = pos /\ item' = item /\ got' = got
  BY Zenon DEF EnqueueCAS, locals
<1>2. /\ \A q \in Producers : q # p => pc'[q] = pc[q]
      /\ \A c \in Consumers : pc'[c] = pc[c]
      /\ pc'[p] = "e_data"
  BY <1>1, PcFrame, Facts, Zenon
<1>3. /\ Producing(p)' /\ ~Producing(p)
      /\ \A q \in Producers : q # p => Producing(q)' = Producing(q)
      /\ \A c \in Consumers : Consuming(c)' = Consuming(c)
  BY <1>1, <1>2, Zenon DEF Producing, Consuming
<1>4. /\ dequeuePos <= enqueuePos /\ enqueuePos <= dequeuePos + Capacity
      /\ Len(log) = enqueuePos /\ log \in Seq(Msg) /\ item[p] \in Msg
  BY <1>1, Zenon DEF RingCore, Window, TypeInv, TypeOK, HistoryType, ItemSet
<1>5. sequence[Slot(enqueuePos)] = enqueuePos
  BY <1>1, Zenon DEF RingCore, Fresh
<1>6. enqueuePos < dequeuePos + Capacity
  <2> SUFFICES ASSUME enqueuePos = dequeuePos + Capacity PROVE FALSE
    BY <1>4, Facts
  <2>1. sequence[Slot(dequeuePos)] \in {dequeuePos, dequeuePos + 1}
    <3>1. PICK d \in Nat, n \in Nat \ {0} : d = dequeuePos /\ n = Capacity
      BY Facts, Zenon
    <3>2. d \in d .. (d + n - 1)
      OBVIOUS
    <3>3. dequeuePos \in dequeuePos .. (enqueuePos - 1)
      BY <3>1, <3>2
    <3> QED BY <3>3, Zenon DEF RingCore, FullSide
  <2> QED BY <2>1, <1>5, SlotShift, Facts DEF Strict
<1>7. /\ Len(log') = enqueuePos + 1 /\ log'[enqueuePos + 1] = item[p]
      /\ \A k \in Nat : k < enqueuePos => log'[k + 1] = log[k + 1]
  BY <1>1, <1>4, Facts
<1>8. Labels'
  BY <1>2, Zenon DEF RingCore, Labels
<1>9. Window'
  BY <1>1, <1>4, <1>6, <1>7, Facts DEF Window
<1>10. FullSide'
  <2> SUFFICES ASSUME NEW k \in dequeuePos .. ((enqueuePos + 1) - 1)
      PROVE  \/ sequence[Slot(k)] = k
             \/ sequence[Slot(k)] = k + 1 /\ data[Slot(k)] = log'[k + 1]
    BY <1>1, Zenon DEF FullSide
  <2>1. CASE k = enqueuePos
    BY <2>1, <1>5, Zenon
  <2>2. CASE k \in dequeuePos .. (enqueuePos - 1)
    <3>1. k \in Nat /\ k < enqueuePos
      BY <2>2, Facts
    <3> QED BY <2>2, <3>1, <1>7, Zenon DEF RingCore, FullSide
  <2>3. \A d, e \in Nat : \A i \in d .. ((e + 1) - 1) : i = e \/ i \in d .. (e - 1)
    OBVIOUS
  <2>4. k = enqueuePos \/ k \in dequeuePos .. (enqueuePos - 1)
    BY <2>3, Facts, Zenon
  <2> QED BY <2>1, <2>2, <2>4, Zenon
<1>11. FreeSide'
  BY <1>1, Facts DEF RingCore, FreeSide
<1>12. Loaded' /\ Fresh'
  <2>1. \A q \in Producers : pc'[q] \in {"e_seq", "e_cas"} => pos[q] < enqueuePos + 1
    <3> SUFFICES ASSUME NEW q \in Producers, q # p, pc[q] \in {"e_seq", "e_cas"}
        PROVE  pos[q] < enqueuePos + 1
      BY <1>2, Zenon
    <3> QED BY Facts DEF RingCore, Loaded
  <2>2. \A q \in Producers : pc'[q] \in {"e_seq", "e_cas"} =>
          pos[q] <= enqueuePos + 1 /\ pos[q] # enqueuePos + 1
    BY <2>1, Facts
  <2>3. Loaded'
    BY <2>2, <1>1, <1>2, Zenon DEF RingCore, Loaded
  <2>4. Fresh'
    BY <2>2, <1>1, <1>2, Zenon DEF RingCore, Fresh
  <2> QED BY <2>3, <2>4, Zenon
<1>13. ProducerOwns'
  <2> SUFFICES ASSUME NEW q \in Producers, Producing(q)'
      PROVE  /\ dequeuePos <= pos[q] /\ pos[q] < enqueuePos + 1
             /\ sequence[Slot(pos[q])] = pos[q]
             /\ log'[pos[q] + 1] = item[q]
    BY <1>1, Zenon DEF ProducerOwns
  <2>1. CASE q = p
    BY <2>1, <1>4, <1>5, <1>7, Facts
  <2>2. CASE q # p
    <3>1. Producing(q)
      BY <2>2, <1>3, Zenon
    <3>2. /\ dequeuePos <= pos[q] /\ pos[q] < enqueuePos /\ sequence[Slot(pos[q])] = pos[q]
          /\ log[pos[q] + 1] = item[q] /\ pos[q] \in Nat
      BY <3>1, Facts, Zenon DEF RingCore, ProducerOwns
    <3>3. pos[q] < enqueuePos + 1
      BY <3>2, Facts
    <3> QED BY <3>2, <3>3, <1>7, Zenon
  <2> QED BY <2>1, <2>2, Zenon
<1>14. ConsumerOwns'
  <2> SUFFICES ASSUME NEW c \in Consumers, Consuming(c)
      PROVE  /\ pos[c] < dequeuePos /\ enqueuePos + 1 <= pos[c] + Capacity
             /\ sequence[Slot(pos[c])] = pos[c] + 1
    BY <1>1, <1>3, Zenon DEF ConsumerOwns
  <2>1. Slot(pos[c]) # Slot(enqueuePos)
    BY <1>1, ConsumerApart, Zenon
  <2>2. enqueuePos # pos[c] + Capacity
    BY <2>1, SlotShift, Facts, Zenon
  <2> QED BY <2>2, ConsumerApart, Facts
<1>15. Differ'
  BY <1>1, <1>3, ProducerApart, Facts, Zenon DEF RingCore, Differ
<1>16. Held'
  <2>1. \A c \in Consumers : Consuming(c) => log'[pos[c] + 1] = log[pos[c] + 1]
    <3> SUFFICES ASSUME NEW c \in Consumers, Consuming(c)
        PROVE  log'[pos[c] + 1] = log[pos[c] + 1]
      BY Zenon
    <3>1. pos[c] \in Nat /\ pos[c] < dequeuePos
      BY ConsumerApart, Zenon
    <3>2. pos[c] < enqueuePos
      BY <3>1, <1>4, Facts
    <3> QED BY <3>1, <3>2, <1>7, Zenon
  <2>2. \A q \in Producers : pc'[q] = "e_store" => data[Slot(pos[q])] = item[q]
    BY <1>2, Zenon DEF RingCore, Held
  <2>3. ASSUME NEW c \in Consumers
        PROVE  /\ pc[c] = "d_load" => data[Slot(pos[c])] = log'[pos[c] + 1]
               /\ pc[c] \in {"d_clear", "d_store"} => got[c] = log'[pos[c] + 1]
    BY <2>1, Zenon DEF RingCore, Held, Consuming
  <2> QED BY <2>2, <2>3, <1>1, <1>2, Zenon DEF Held
<1> QED BY <1>8, <1>9, <1>10, <1>11, <1>12, <1>13, <1>14, <1>15, <1>16, Zenon DEF RingCore

LEMMA EnqueueStoreDataKeeps ==
  ASSUME TypeInv, RingCore, Strict, NEW p \in Producers, EnqueueStoreData(p)
  PROVE  RingCore'
<1>1. /\ pc[p] = "e_data" /\ Goto(p, "e_store")
      /\ data' = [data EXCEPT ![Slot(pos[p])] = item[p]]
      /\ enqueuePos' = enqueuePos /\ dequeuePos' = dequeuePos /\ sequence' = sequence
      /\ pos' = pos /\ item' = item /\ got' = got /\ log' = log
  BY Zenon DEF EnqueueStoreData, locals, history
<1>2. /\ \A q \in Producers : q # p => pc'[q] = pc[q]
      /\ \A c \in Consumers : pc'[c] = pc[c]
      /\ pc'[p] = "e_store"
  BY <1>1, PcFrame, Facts, Zenon
<1>3. /\ Producing(p) /\ Producing(p)'
      /\ \A q \in Producers : q # p => Producing(q)' = Producing(q)
      /\ \A c \in Consumers : Consuming(c)' = Consuming(c)
  BY <1>1, <1>2, Zenon DEF Producing, Consuming
<1>4. \A k \in Nat : data'[Slot(k)] = IF Slot(k) = Slot(pos[p]) THEN item[p] ELSE data[Slot(k)]
  BY <1>1, Facts, Zenon DEF TypeInv, TypeOK, RingType
<1>5. Labels' /\ Window'
  BY <1>1, <1>2, Zenon DEF RingCore, Labels, Window
<1>6. FullSide'
  <2> SUFFICES ASSUME NEW k \in dequeuePos .. (enqueuePos - 1)
      PROVE  \/ sequence[Slot(k)] = k
             \/ sequence[Slot(k)] = k + 1 /\ data'[Slot(k)] = log[k + 1]
    BY <1>1, Zenon DEF FullSide
  <2>1. CASE k = pos[p]
    BY <2>1, <1>3, ProducerApart, Zenon
  <2>2. CASE k # pos[p]
    <3>1. k \in Nat /\ k \in dequeuePos .. (dequeuePos + Capacity - 1)
      BY Facts DEF RingCore, Window
    <3>2. Slot(k) # Slot(pos[p])
      BY <3>1, <2>2, <1>3, ProducerApart, Zenon
    <3> QED BY <3>1, <3>2, <1>4, Zenon DEF RingCore, FullSide
  <2> QED BY <2>1, <2>2, Zenon
<1>7. FreeSide' /\ Loaded' /\ Fresh'
  BY <1>1, <1>2, Zenon DEF RingCore, FreeSide, Loaded, Fresh
<1>8. ProducerOwns' /\ ConsumerOwns' /\ Differ'
  BY <1>1, <1>3, Zenon DEF RingCore, ProducerOwns, ConsumerOwns, Differ
<1>9. Held'
  <2>1. ASSUME NEW q \in Producers, pc'[q] = "e_store" PROVE data'[Slot(pos[q])] = item[q]
    <3>1. CASE q = p
      BY <3>1, <1>4, Facts, Zenon
    <3>2. CASE q # p
      <4>1. Producing(q) /\ pc[q] = "e_store" /\ pos[q] \in Nat
        BY <2>1, <3>2, <1>2, Facts, Zenon DEF Producing
      <4>2. Slot(pos[q]) # Slot(pos[p])
        BY <4>1, <3>2, <1>3, ProducerApart, Zenon
      <4> QED BY <4>1, <4>2, <1>4, Zenon DEF RingCore, Held
    <3> QED BY <3>1, <3>2, Zenon
  <2>2. ASSUME NEW c \in Consumers, pc[c] = "d_load"
        PROVE  data'[Slot(pos[c])] = log[pos[c] + 1]
    <3>1. Slot(pos[c]) # Slot(pos[p]) /\ pos[c] \in Nat
      BY <2>2, <1>3, ProducerApart, Facts, Zenon DEF Consuming
    <3> QED BY <3>1, <2>2, <1>4, Zenon DEF RingCore, Held
  <2> QED BY <2>1, <2>2, <1>1, <1>2, Zenon DEF RingCore, Held
<1> QED BY <1>5, <1>6, <1>7, <1>8, <1>9, Zenon DEF RingCore

LEMMA EnqueueStoreSeqKeeps ==
  ASSUME TypeInv, RingCore, Strict, NEW p \in Producers, EnqueueStoreSeq(p)
  PROVE  RingCore'
<1>1. /\ pc[p] = "e_store" /\ Goto(p, "idle")
      /\ sequence' = [sequence EXCEPT ![Slot(pos[p])] = pos[p] + 1]
      /\ enqueuePos' = enqueuePos /\ dequeuePos' = dequeuePos /\ data' = data
      /\ pos' = pos /\ item' = item /\ got' = got /\ log' = log
  BY Zenon DEF EnqueueStoreSeq, locals, history
<1>2. /\ \A q \in Producers : q # p => pc'[q] = pc[q]
      /\ \A c \in Consumers : pc'[c] = pc[c]
      /\ pc'[p] = "idle"
  BY <1>1, PcFrame, Facts, Zenon
<1>3. /\ Producing(p) /\ ~ Producing(p)'
      /\ \A q \in Producers : q # p => Producing(q)' = Producing(q)
      /\ \A c \in Consumers : Consuming(c)' = Consuming(c)
  BY <1>1, <1>2, Zenon DEF Producing, Consuming
<1>4. \A k \in Nat : sequence'[Slot(k)] =
                      IF Slot(k) = Slot(pos[p]) THEN pos[p] + 1 ELSE sequence[Slot(k)]
  BY <1>1, Facts, Zenon DEF TypeInv, TypeOK, RingType
<1>5. Labels' /\ Window'
  BY <1>1, <1>2, Zenon DEF RingCore, Labels, Window
<1>6. FullSide'
  <2> SUFFICES ASSUME NEW k \in dequeuePos .. (enqueuePos - 1)
      PROVE  \/ sequence'[Slot(k)] = k
             \/ sequence'[Slot(k)] = k + 1 /\ data[Slot(k)] = log[k + 1]
    BY <1>1, Zenon DEF FullSide
  <2>1. CASE k = pos[p]
    <3>1. data[Slot(k)] = log[k + 1]
      BY <2>1, <1>1, <1>3, Zenon DEF RingCore, Held, ProducerOwns
    <3> QED BY <3>1, <2>1, <1>4, Facts, Zenon
  <2>2. CASE k # pos[p]
    <3>1. k \in Nat /\ k \in dequeuePos .. (dequeuePos + Capacity - 1)
      BY Facts DEF RingCore, Window
    <3>2. Slot(k) # Slot(pos[p])
      BY <3>1, <2>2, <1>3, ProducerApart, Zenon
    <3> QED BY <3>1, <3>2, <1>4, Zenon DEF RingCore, FullSide
  <2> QED BY <2>1, <2>2, Zenon
<1>7. FreeSide'
  <2> SUFFICES ASSUME NEW k \in enqueuePos .. (dequeuePos + Capacity - 1)
      PROVE  sequence'[Slot(k)] \in {k, k - Capacity + 1}
    BY <1>1, Zenon DEF FreeSide
  <2>1. k \in Nat /\ k # pos[p] /\ k \in dequeuePos .. (dequeuePos + Capacity - 1)
    BY <1>3, ProducerApart, Facts DEF RingCore, Window
  <2>2. Slot(k) # Slot(pos[p])
    BY <2>1, <1>3, ProducerApart, Zenon
  <2> QED BY <2>1, <2>2, <1>4, Zenon DEF RingCore, FreeSide
<1>8. Loaded'
  BY <1>1, <1>2, Zenon DEF RingCore, Loaded
<1>9. Fresh'
  <2>1. ASSUME NEW q \in Producers, q # p, pc[q] = "e_cas", pos[q] = enqueuePos
        PROVE  sequence'[Slot(pos[q])] = pos[q]
    <3>1. Slot(pos[q]) # Slot(pos[p])
      BY <2>1, <1>3, ProducerApart, Zenon
    <3> QED BY <2>1, <3>1, <1>4, Facts, Zenon DEF RingCore, Fresh
  <2>2. ASSUME NEW c \in Consumers, pc[c] = "d_cas", pos[c] = dequeuePos
        PROVE  sequence'[Slot(pos[c])] = pos[c] + 1
    <3>1. Slot(pos[c]) # Slot(pos[p])
      BY <2>2, <1>3, ProducerApart, Zenon
    <3> QED BY <2>2, <3>1, <1>4, Facts, Zenon DEF RingCore, Fresh
  <2> QED BY <2>1, <2>2, <1>1, <1>2, Zenon DEF Fresh
<1>10. ProducerOwns'
  <2>1. ASSUME NEW q \in Producers, q # p, Producing(q)
        PROVE  sequence'[Slot(pos[q])] = sequence[Slot(pos[q])]
    <3>1. Slot(pos[q]) # Slot(pos[p])
      BY <2>1, <1>3, ProducerApart, Zenon
    <3> QED BY <2>1, <3>1, <1>4, Facts, Zenon
  <2> QED BY <2>1, <1>1, <1>3, Zenon DEF RingCore, ProducerOwns
<1>11. ConsumerOwns'
  <2>1. ASSUME NEW c \in Consumers, Consuming(c)
        PROVE  sequence'[Slot(pos[c])] = sequence[Slot(pos[c])]
    <3>1. Slot(pos[c]) # Slot(pos[p])
      BY <2>1, <1>3, ProducerApart, Zenon
    <3> QED BY <2>1, <3>1, <1>4, Facts, Zenon
  <2> QED BY <2>1, <1>1, <1>3, Zenon DEF RingCore, ConsumerOwns
<1>12. Differ' /\ Held'
  BY <1>1, <1>2, <1>3, ZenonT(30) DEF RingCore, Differ, Held
<1> QED BY <1>5, <1>6, <1>7, <1>8, <1>9, <1>10, <1>11, <1>12, Zenon DEF RingCore

(* A successful CAS of Dequeue claims the oldest full position. *)
LEMMA DequeueCASKeeps ==
  ASSUME TypeInv, RingCore, Strict, NEW c \in Consumers, DequeueCAS(c), dequeuePos = pos[c]
  PROVE  RingCore'
<1>1. /\ pc[c] = "d_cas" /\ Goto(c, "d_load") /\ dequeuePos' = dequeuePos + 1
      /\ enqueuePos' = enqueuePos /\ sequence' = sequence /\ data' = data
      /\ pos' = pos /\ item' = item /\ got' = got /\ log' = log
  BY Zenon DEF DequeueCAS, locals, history
<1>2. /\ \A d \in Consumers : d # c => pc'[d] = pc[d]
      /\ \A p \in Producers : pc'[p] = pc[p]
      /\ pc'[c] = "d_load"
  BY <1>1, PcFrame, Facts, Zenon
<1>3. /\ ~Consuming(c) /\ Consuming(c)'
      /\ \A d \in Consumers : d # c => Consuming(d)' = Consuming(d)
      /\ \A p \in Producers : Producing(p)' = Producing(p)
  BY <1>1, <1>2, Zenon DEF Producing, Consuming
<1>4. dequeuePos <= enqueuePos /\ enqueuePos <= dequeuePos + Capacity /\ Len(log) = enqueuePos
  BY Zenon DEF RingCore, Window
<1>5. sequence[Slot(dequeuePos)] = dequeuePos + 1
  BY <1>1, Zenon DEF RingCore, Fresh
<1>6. dequeuePos < enqueuePos
  <2> SUFFICES ASSUME dequeuePos = enqueuePos PROVE FALSE
    BY <1>4, Facts
  <2>1. sequence[Slot(dequeuePos)] \in {dequeuePos, dequeuePos - Capacity + 1}
    BY Facts DEF RingCore, FreeSide
  <2> QED BY <2>1, <1>5, Facts
<1>7. data[Slot(dequeuePos)] = log[dequeuePos + 1]
  BY <1>5, <1>6, Facts DEF RingCore, FullSide
<1>8. Labels'
  BY <1>2, Zenon DEF RingCore, Labels
<1>9. Window'
  BY <1>1, <1>4, <1>6, Facts DEF Window
<1>10. FullSide'
  BY <1>1, Facts DEF RingCore, FullSide
<1>11. FreeSide'
  <2> SUFFICES ASSUME NEW k \in enqueuePos .. ((dequeuePos + 1) + Capacity - 1)
      PROVE  sequence[Slot(k)] \in {k, k - Capacity + 1}
    BY <1>1, Zenon DEF FreeSide
  <2>1. CASE k = dequeuePos + Capacity
    BY <2>1, <1>5, SlotShift, Facts
  <2>2. CASE k \in enqueuePos .. (dequeuePos + Capacity - 1)
    BY <2>2, Zenon DEF RingCore, FreeSide
  <2> QED BY <2>1, <2>2, Facts
<1>12. Loaded' /\ Fresh'
  <2>1. \A d \in Consumers : pc'[d] \in {"d_seq", "d_cas"} => pos[d] < dequeuePos + 1
    <3> SUFFICES ASSUME NEW d \in Consumers, d # c, pc[d] \in {"d_seq", "d_cas"}
        PROVE  pos[d] < dequeuePos + 1
      BY <1>2, Zenon
    <3> QED BY Facts DEF RingCore, Loaded
  <2>2. \A d \in Consumers : pc'[d] \in {"d_seq", "d_cas"} =>
          pos[d] <= dequeuePos + 1 /\ pos[d] # dequeuePos + 1
    BY <2>1, Facts
  <2>3. Loaded'
    BY <2>2, <1>1, <1>2, Zenon DEF RingCore, Loaded
  <2>4. Fresh'
    BY <2>2, <1>1, <1>2, Zenon DEF RingCore, Fresh
  <2> QED BY <2>3, <2>4, Zenon
<1>13. ProducerOwns'
  <2> SUFFICES ASSUME NEW p \in Producers, Producing(p)
      PROVE  /\ dequeuePos + 1 <= pos[p] /\ pos[p] < enqueuePos
             /\ sequence[Slot(pos[p])] = pos[p]
             /\ log[pos[p] + 1] = item[p]
    BY <1>1, <1>3, Zenon DEF ProducerOwns
  <2>1. Slot(pos[p]) # Slot(dequeuePos)
    BY <1>1, ProducerApart, Zenon
  <2>2. pos[p] # dequeuePos
    BY <2>1, Zenon
  <2>3. \A i, j \in Nat : i <= j /\ j # i => i + 1 <= j
    OBVIOUS
  <2> QED BY <2>2, <2>3, ProducerApart, Facts, Zenon DEF RingCore, ProducerOwns
<1>14. ConsumerOwns'
  <2> SUFFICES ASSUME NEW d \in Consumers, Consuming(d)'
      PROVE  /\ pos[d] < dequeuePos + 1 /\ enqueuePos <= pos[d] + Capacity
             /\ sequence[Slot(pos[d])] = pos[d] + 1
    BY <1>1, Zenon DEF ConsumerOwns
  <2>1. CASE d = c
    BY <2>1, <1>4, <1>5, Facts
  <2>2. CASE d # c
    <3>1. Consuming(d)
      BY <2>2, <1>3, Zenon
    <3> QED BY <3>1, ConsumerApart, Facts, SMTT(20)
  <2> QED BY <2>1, <2>2, Zenon
<1>15. Differ'
  BY <1>1, <1>3, ConsumerApart, Facts, Zenon DEF RingCore, Differ
<1>16. Held'
  BY <1>1, <1>2, <1>7, Zenon DEF RingCore, Held
<1> QED BY <1>8, <1>9, <1>10, <1>11, <1>12, <1>13, <1>14, <1>15, <1>16, Zenon DEF RingCore

LEMMA DequeueLoadDataKeeps ==
  ASSUME TypeInv, RingCore, Strict, NEW c \in Consumers, DequeueLoadData(c)
  PROVE  RingCore'
<1>1. /\ pc[c] = "d_load" /\ Goto(c, "d_clear")
      /\ got' = [got EXCEPT ![c] = data[Slot(pos[c])]]
      /\ enqueuePos' = enqueuePos /\ dequeuePos' = dequeuePos /\ sequence' = sequence
      /\ data' = data /\ pos' = pos /\ item' = item /\ log' = log
  BY Zenon DEF DequeueLoadData, shared, history
<1>2. /\ \A d \in Consumers : d # c => pc'[d] = pc[d]
      /\ \A p \in Producers : pc'[p] = pc[p]
      /\ pc'[c] = "d_clear"
  BY <1>1, PcFrame, Facts, Zenon
<1>3. /\ Consuming(c) /\ Consuming(c)'
      /\ \A d \in Consumers : d # c => Consuming(d)' = Consuming(d)
      /\ \A p \in Producers : Producing(p)' = Producing(p)
  BY <1>1, <1>2, Zenon DEF Producing, Consuming
<1>4. /\ got'[c] = log[pos[c] + 1]
      /\ \A d \in Consumers : d # c => got'[d] = got[d]
  BY <1>1, Facts, Zenon DEF RingCore, Held, TypeInv, TypeOK, LocalType
<1>5. Labels' /\ Window'
  BY <1>1, <1>2, Zenon DEF RingCore, Labels, Window
<1>6. FullSide' /\ FreeSide'
  BY <1>1, Zenon DEF RingCore, FullSide, FreeSide
<1>7. Loaded' /\ Fresh'
  BY <1>1, <1>2, Zenon DEF RingCore, Loaded, Fresh
<1>8. ProducerOwns' /\ ConsumerOwns' /\ Differ'
  BY <1>1, <1>3, Zenon DEF RingCore, ProducerOwns, ConsumerOwns, Differ
<1>9. Held'
  BY <1>1, <1>2, <1>4, ZenonT(30) DEF RingCore, Held
<1> QED BY <1>5, <1>6, <1>7, <1>8, <1>9, Zenon DEF RingCore

\* A position with a message is neither the consumer's own nor beyond the ring.
LEMMA FullPosition ==
  ASSUME TypeInv, RingCore, Strict, NEW c \in Consumers, Consuming(c),
         NEW k \in dequeuePos .. (enqueuePos - 1)
  PROVE  /\ k \in Nat /\ k # pos[c] + Capacity
         /\ k \in dequeuePos .. (dequeuePos + Capacity - 1)
<1>1. PICK d \in Nat, e \in Nat, n \in Nat, i \in Nat :
        /\ d = dequeuePos /\ e = enqueuePos /\ n = Capacity /\ i = pos[c]
        /\ e <= d + n /\ i < d /\ e <= i + n
  BY ConsumerApart, Facts, Zenon DEF RingCore, Window
<1>2. \A j \in d .. (e - 1) : j \in Nat /\ j # i + n /\ j \in d .. (d + n - 1)
  BY <1>1
<1> QED BY <1>1, <1>2, Zenon

LEMMA DequeueClearDataKeeps ==
  ASSUME TypeInv, RingCore, Strict, NEW c \in Consumers, DequeueClearData(c)
  PROVE  RingCore'
<1>1. /\ pc[c] = "d_clear" /\ Goto(c, "d_store")
      /\ data' = [data EXCEPT ![Slot(pos[c])] = Nil]
      /\ enqueuePos' = enqueuePos /\ dequeuePos' = dequeuePos /\ sequence' = sequence
      /\ pos' = pos /\ item' = item /\ got' = got /\ log' = log
  BY Zenon DEF DequeueClearData, locals, history
<1>2. /\ \A d \in Consumers : d # c => pc'[d] = pc[d]
      /\ \A p \in Producers : pc'[p] = pc[p]
      /\ pc'[c] = "d_store"
  BY <1>1, PcFrame, Facts, Zenon
<1>3. /\ Consuming(c) /\ Consuming(c)'
      /\ \A d \in Consumers : d # c => Consuming(d)' = Consuming(d)
      /\ \A p \in Producers : Producing(p)' = Producing(p)
  BY <1>1, <1>2, Zenon DEF Producing, Consuming
<1>4. \A k \in Nat : Slot(k) # Slot(pos[c]) => data'[Slot(k)] = data[Slot(k)]
  BY <1>1, Facts, Zenon DEF TypeInv, TypeOK, RingType
<1>5. Labels' /\ Window'
  BY <1>1, <1>2, Zenon DEF RingCore, Labels, Window
<1>6. FullSide'
  <2> SUFFICES ASSUME NEW k \in dequeuePos .. (enqueuePos - 1)
      PROVE  \/ sequence[Slot(k)] = k
             \/ sequence[Slot(k)] = k + 1 /\ data'[Slot(k)] = log[k + 1]
    BY <1>1, Zenon DEF FullSide
  <2>1. /\ k \in Nat /\ k # pos[c] + Capacity
        /\ k \in dequeuePos .. (dequeuePos + Capacity - 1)
    BY <1>3, FullPosition, Zenon
  <2>2. Slot(k) # Slot(pos[c])
    BY <2>1, <1>3, ConsumerApart, Zenon
  <2> QED BY <2>1, <2>2, <1>4, Zenon DEF RingCore, FullSide
<1>7. FreeSide' /\ Loaded' /\ Fresh'
  BY <1>1, <1>2, Zenon DEF RingCore, FreeSide, Loaded, Fresh
<1>8. ProducerOwns' /\ ConsumerOwns' /\ Differ'
  BY <1>1, <1>3, Zenon DEF RingCore, ProducerOwns, ConsumerOwns, Differ
<1>9. Held'
  <2>1. ASSUME NEW p \in Producers, pc[p] = "e_store" PROVE data'[Slot(pos[p])] = item[p]
    <3>1. Slot(pos[p]) # Slot(pos[c]) /\ pos[p] \in Nat
      BY <2>1, <1>3, ConsumerApart, Facts, Zenon DEF Producing
    <3> QED BY <3>1, <2>1, <1>4, Zenon DEF RingCore, Held
  <2>2. ASSUME NEW d \in Consumers, pc'[d] = "d_load"
        PROVE  data'[Slot(pos[d])] = log[pos[d] + 1]
    <3>1. d # c /\ pc[d] = "d_load" /\ pos[d] \in Nat
      BY <2>2, <1>2, Facts, Zenon
    <3>2. Slot(pos[d]) # Slot(pos[c])
      BY <3>1, <1>3, ConsumerApart, Zenon DEF Consuming
    <3> QED BY <3>1, <3>2, <1>4, Zenon DEF RingCore, Held
  <2> QED BY <2>1, <2>2, <1>1, <1>2, ZenonT(30) DEF RingCore, Held
<1> QED BY <1>5, <1>6, <1>7, <1>8, <1>9, Zenon DEF RingCore

LEMMA DequeueStoreSeqKeeps ==
  ASSUME TypeInv, RingCore, Strict, NEW c \in Consumers, DequeueStoreSeq(c)
  PROVE  RingCore'
<1>1. /\ pc[c] = "d_store" /\ Goto(c, "idle")
      /\ sequence' = [sequence EXCEPT ![Slot(pos[c])] = pos[c] + Capacity]
      /\ got' = [got EXCEPT ![c] = Nil]
      /\ enqueuePos' = enqueuePos /\ dequeuePos' = dequeuePos /\ data' = data
      /\ pos' = pos /\ item' = item /\ log' = log
  BY Facts, Zenon DEF DequeueStoreSeq, Resume
<1>2. /\ \A d \in Consumers : d # c => pc'[d] = pc[d]
      /\ \A p \in Producers : pc'[p] = pc[p]
      /\ pc'[c] = "idle"
  BY <1>1, PcFrame, Facts, Zenon
<1>3. /\ Consuming(c) /\ ~Consuming(c)'
      /\ \A d \in Consumers : d # c => Consuming(d)' = Consuming(d)
      /\ \A p \in Producers : Producing(p)' = Producing(p)
  BY <1>1, <1>2, Zenon DEF Producing, Consuming
<1>4. \A k \in Nat : sequence'[Slot(k)] =
                      IF Slot(k) = Slot(pos[c]) THEN pos[c] + Capacity ELSE sequence[Slot(k)]
  BY <1>1, Facts, Zenon DEF TypeInv, TypeOK, RingType
<1>5. \A d \in Consumers : d # c => got'[d] = got[d]
  BY <1>1, Facts, Zenon DEF TypeInv, TypeOK, LocalType
<1>6. Labels' /\ Window'
  BY <1>1, <1>2, Zenon DEF RingCore, Labels, Window
<1>7. FullSide'
  <2> SUFFICES ASSUME NEW k \in dequeuePos .. (enqueuePos - 1)
      PROVE  \/ sequence'[Slot(k)] = k
             \/ sequence'[Slot(k)] = k + 1 /\ data[Slot(k)] = log[k + 1]
    BY <1>1, Zenon DEF FullSide
  <2>1. /\ k \in Nat /\ k # pos[c] + Capacity
        /\ k \in dequeuePos .. (dequeuePos + Capacity - 1)
    BY <1>3, FullPosition, Zenon
  <2>2. Slot(k) # Slot(pos[c])
    BY <2>1, <1>3, ConsumerApart, Zenon
  <2> QED BY <2>1, <2>2, <1>4, Zenon DEF RingCore, FullSide
<1>8. FreeSide'
  <2> SUFFICES ASSUME NEW k \in enqueuePos .. (dequeuePos + Capacity - 1)
      PROVE  sequence'[Slot(k)] \in {k, k - Capacity + 1}
    BY <1>1, Zenon DEF FreeSide
  <2>1. k \in Nat /\ k \in dequeuePos .. (dequeuePos + Capacity - 1)
    BY Facts DEF RingCore, Window
  <2>2. CASE k = pos[c] + Capacity
    BY <2>1, <2>2, <1>3, <1>4, ConsumerApart, SlotShift, Zenon
  <2>3. CASE k # pos[c] + Capacity
    <3>1. Slot(k) # Slot(pos[c])
      BY <2>1, <2>3, <1>3, ConsumerApart, Zenon
    <3> QED BY <3>1, <2>1, <1>4, Zenon DEF RingCore, FreeSide
  <2> QED BY <2>2, <2>3, Zenon
<1>9. Loaded'
  BY <1>1, <1>2, Zenon DEF RingCore, Loaded
<1>10. Fresh'
  <2>1. ASSUME NEW p \in Producers, pc[p] = "e_cas", pos[p] = enqueuePos
        PROVE  sequence'[Slot(pos[p])] = pos[p]
    <3>1. Slot(pos[p]) # Slot(pos[c])
      BY <2>1, <1>3, ConsumerApart, Zenon
    <3> QED BY <2>1, <3>1, <1>4, Facts, Zenon DEF RingCore, Fresh
  <2>2. ASSUME NEW d \in Consumers, d # c, pc[d] = "d_cas", pos[d] = dequeuePos
        PROVE  sequence'[Slot(pos[d])] = pos[d] + 1
    <3>1. Slot(pos[d]) # Slot(pos[c])
      BY <2>2, <1>3, ConsumerApart, Zenon
    <3> QED BY <2>2, <3>1, <1>4, Facts, Zenon DEF RingCore, Fresh
  <2> QED BY <2>1, <2>2, <1>1, <1>2, Zenon DEF Fresh
<1>11. ProducerOwns'
  BY <1>1, <1>3, <1>4, ConsumerApart, Facts, ZenonT(30) DEF RingCore, ProducerOwns
<1>12. ConsumerOwns'
  BY <1>1, <1>3, <1>4, ConsumerApart, Facts, Zenon DEF RingCore, ConsumerOwns
<1>13. Differ'
  BY <1>1, <1>3, Zenon DEF RingCore, Differ
<1>14. Held'
  BY <1>1, <1>2, <1>5, ZenonT(30) DEF RingCore, Held
<1> QED BY <1>6, <1>7, <1>8, <1>9, <1>10, <1>11, <1>12, <1>13, <1>14, Zenon DEF RingCore

-----------------------------------------------------------------------------
(* RingCore holds at first and is kept by every step of Next. *)

LEMMA RingCoreInit == Strict /\ Init => RingCore
<1> SUFFICES ASSUME Strict, Init PROVE RingCore
  BY Zenon
<1>1. \A t \in Threads : pc[t] = "idle"
  BY Zenon DEF Init
<1>2. \A p \in Producers : pc[p] = "idle" /\ ~Producing(p)
  BY <1>1, Zenon DEF Threads, Producing
<1>3. \A c \in Consumers : pc[c] = "idle" /\ ~Consuming(c)
  BY <1>1, Zenon DEF Threads, Consuming
<1>4. Labels
  BY <1>2, <1>3, Zenon DEF Labels
<1>5. Window
  BY CapacityAssumption DEF Init, Window
<1>6. FullSide
  BY DEF Init, FullSide
<1>7. FreeSide
  <2> SUFFICES ASSUME NEW k \in 0 .. (Capacity - 1) PROVE sequence[Slot(k)] = k
    BY CapacityAssumption DEF Init, FreeSide
  <2>1. Slot(k) = k
    BY SlotSmall, CapacityAssumption
  <2> QED BY <2>1, Zenon DEF Init, Slots
<1>8. Loaded /\ Fresh /\ ProducerOwns /\ ConsumerOwns /\ Differ /\ Held
  BY <1>2, <1>3, Zenon DEF Loaded, Fresh, ProducerOwns, ConsumerOwns, Differ, Held
<1> QED BY <1>4, <1>5, <1>6, <1>7, <1>8, Zenon DEF RingCore

\* Under Strict a full ring rejects or retries: no producer touches dequeuePos.
LEMMA RetryStrict ==
  ASSUME Strict, NEW p \in Producers, Reject(p) \/ Retry(p)
  PROVE  Goto(p, "idle") \/ Goto(p, "e_pos")
  BY Zenon DEF Strict, Reject, Retry

LEMMA RingCoreNext == TypeInv /\ RingCore /\ Strict /\ [Next]_vars => RingCore'
<1> SUFFICES ASSUME TypeInv, RingCore, Strict, [Next]_vars PROVE RingCore'
  BY Zenon
<1>p. \A p \in Producers : pc[p] \in {"idle", "e_pos", "e_seq", "e_cas", "e_data", "e_store"}
  BY Zenon DEF RingCore, Labels
<1>1. ASSUME NEW p \in Producers, EnqueueCall(p) PROVE RingCore'
  <2>1. Goto(p, "e_pos") /\ UNCHANGED <<shared, pos, got, log>>
    BY <1>1, Zenon DEF EnqueueCall, history
  <2>2. \A q \in Producers : q # p => item'[q] = item[q]
    BY <1>1, Zenon DEF EnqueueCall, TypeInv, TypeOK, LocalType
  <2>3. pc'[p] = "e_pos" /\ \A u \in Threads : u # p => pc'[u] = pc[u] /\ pos'[u] = pos[u]
    BY <2>1, PcFrame, Facts, Zenon
  <2> QED BY <2>1, <2>2, <2>3, ProducerQuiet, Zenon
<1>2. ASSUME NEW p \in Producers, EnqueueLoadPos(p) PROVE RingCore'
  <2>1. /\ Goto(p, "e_seq") /\ UNCHANGED <<shared, item, got, log>>
        /\ pos' = [pos EXCEPT ![p] = enqueuePos]
    BY <1>2, Zenon DEF EnqueueLoadPos, history
  <2>2. pc'[p] = "e_seq" /\ \A u \in Threads : u # p => pc'[u] = pc[u]
    BY <2>1, PcFrame, Facts, Zenon
  <2>3. pos'[p] <= enqueuePos /\ \A u \in Threads : u # p => pos'[u] = pos[u]
    BY <2>1, Facts DEF TypeInv, TypeOK, LocalType
  <2> QED BY <2>1, <2>2, <2>3, ProducerQuiet, Zenon
<1>3. ASSUME NEW p \in Producers, EnqueueLoadSeq(p) PROVE RingCore'
  <2>1. /\ pc[p] = "e_seq" /\ UNCHANGED <<shared, pos, item, got, log>>
    BY <1>3, Zenon DEF EnqueueLoadSeq, history
  <2>2. \/ Goto(p, "idle") \/ Goto(p, "e_pos")
        \/ (Goto(p, "e_cas") /\ sequence[Slot(pos[p])] - pos[p] = 0)
    BY <1>3, RetryStrict, Zenon DEF EnqueueLoadSeq, Strict
  <2>3. /\ pc'[p] \in {"idle", "e_pos", "e_cas"}
        /\ \A u \in Threads : u # p => pc'[u] = pc[u] /\ pos'[u] = pos[u]
    BY <2>1, <2>2, PcFrame, Facts, Zenon
  <2>4. pc'[p] = "e_cas" => sequence[Slot(pos[p])] - pos[p] = 0
    BY <2>2, PcFrame, Facts
  <2>5. pc'[p] = "e_cas" => sequence[Slot(pos'[p])] = pos'[p]
    BY <2>1, <2>4, Facts
  <2>6. pos'[p] <= enqueuePos
    BY <2>1, Zenon DEF RingCore, Loaded
  <2> QED BY <2>1, <2>3, <2>5, <2>6, ProducerQuiet, Zenon
<1>4. ASSUME NEW p \in Producers, EnqueueCAS(p) PROVE RingCore'
  <2>1. CASE enqueuePos = pos[p]
    BY <1>4, <2>1, EnqueueCASKeeps, Zenon
  <2>2. CASE enqueuePos # pos[p]
    <3>1. Goto(p, "e_pos") /\ UNCHANGED <<shared, pos, item, got, log>>
      BY <1>4, <2>2, Zenon DEF EnqueueCAS, shared, locals
    <3>2. pc'[p] = "e_pos" /\ \A u \in Threads : u # p => pc'[u] = pc[u] /\ pos'[u] = pos[u]
      BY <3>1, PcFrame, Facts, Zenon
    <3> QED BY <3>1, <3>2, ProducerQuiet, Zenon
  <2> QED BY <2>1, <2>2, Zenon
<1>5. ASSUME NEW p \in Producers, DropOldestLoad(p) \/ DropOldestCAS(p) PROVE RingCore'
  BY <1>5, <1>p, Zenon DEF DropOldestLoad, DropOldestCAS
<1>6. ASSUME NEW p \in Producers, EnqueueStoreData(p) PROVE RingCore'
  BY <1>6, EnqueueStoreDataKeeps, Zenon
<1>7. ASSUME NEW p \in Producers, EnqueueStoreSeq(p) PROVE RingCore'
  BY <1>7, EnqueueStoreSeqKeeps, Zenon
<1>8. ASSUME NEW c \in Consumers, DequeueCall(c) PROVE RingCore'
  <2>1. Goto(c, "d_pos") /\ UNCHANGED <<shared, pos, item, got, log>>
    BY <1>8, Zenon DEF DequeueCall, history
  <2>2. pc'[c] = "d_pos" /\ \A u \in Threads : u # c => pc'[u] = pc[u] /\ pos'[u] = pos[u]
    BY <2>1, PcFrame, Facts, Zenon
  <2> QED BY <2>1, <2>2, ConsumerQuiet, Zenon
<1>9. ASSUME NEW p \in Producers, DequeueStep(p) PROVE RingCore'
  BY <1>9, <1>p, Zenon DEF DequeueStep, DequeueLoadPos, DequeueLoadSeq, DequeueCAS, DequeueLoadData,
     DequeueClearData, DequeueStoreSeq
<1>10. ASSUME NEW c \in Consumers, DequeueLoadPos(c) PROVE RingCore'
  <2>1. /\ Goto(c, "d_seq") /\ UNCHANGED <<shared, item, got, log>>
        /\ pos' = [pos EXCEPT ![c] = dequeuePos]
    BY <1>10, Zenon DEF DequeueLoadPos, history
  <2>2. pc'[c] = "d_seq" /\ \A u \in Threads : u # c => pc'[u] = pc[u]
    BY <2>1, PcFrame, Facts, Zenon
  <2>3. pos'[c] <= dequeuePos /\ \A u \in Threads : u # c => pos'[u] = pos[u]
    BY <2>1, Facts DEF TypeInv, TypeOK, LocalType
  <2> QED BY <2>1, <2>2, <2>3, ConsumerQuiet, Zenon
<1>11. ASSUME NEW c \in Consumers, DequeueLoadSeq(c) PROVE RingCore'
  <2>1. /\ pc[c] = "d_seq" /\ UNCHANGED <<shared, pos, item, got, log>>
    BY <1>11, Zenon DEF DequeueLoadSeq, history
  <2>2. \/ Goto(c, "idle") \/ Goto(c, "d_pos")
        \/ (Goto(c, "d_cas") /\ sequence[Slot(pos[c])] - (pos[c] + 1) = 0)
    BY <1>11, Facts, Zenon DEF DequeueLoadSeq, Resume
  <2>3. /\ pc'[c] \in {"idle", "d_pos", "d_cas"}
        /\ \A u \in Threads : u # c => pc'[u] = pc[u] /\ pos'[u] = pos[u]
    BY <2>1, <2>2, PcFrame, Facts, Zenon
  <2>4. pc'[c] = "d_cas" => sequence[Slot(pos[c])] - (pos[c] + 1) = 0
    BY <2>2, PcFrame, Facts
  <2>5. pc'[c] = "d_cas" => sequence[Slot(pos'[c])] = pos'[c] + 1
    BY <2>1, <2>4, Facts, SMTT(20)
  <2>6. pos'[c] <= dequeuePos
    BY <2>1, Zenon DEF RingCore, Loaded
  <2> QED BY <2>1, <2>3, <2>5, <2>6, ConsumerQuiet, Zenon
<1>12. ASSUME NEW c \in Consumers, DequeueCAS(c) PROVE RingCore'
  <2>1. CASE dequeuePos = pos[c]
    BY <1>12, <2>1, DequeueCASKeeps, Zenon
  <2>2. CASE dequeuePos # pos[c]
    <3>1. Goto(c, "d_pos") /\ UNCHANGED <<shared, pos, item, got, log>>
      BY <1>12, <2>2, Zenon DEF DequeueCAS, shared, locals, history
    <3>2. pc'[c] = "d_pos" /\ \A u \in Threads : u # c => pc'[u] = pc[u] /\ pos'[u] = pos[u]
      BY <3>1, PcFrame, Facts, Zenon
    <3> QED BY <3>1, <3>2, ConsumerQuiet, Zenon
  <2> QED BY <2>1, <2>2, Zenon
<1>13. ASSUME NEW c \in Consumers,
              DequeueLoadData(c) \/ DequeueClearData(c) \/ DequeueStoreSeq(c)
       PROVE  RingCore'
  BY <1>13, DequeueLoadDataKeeps, DequeueClearDataKeeps, DequeueStoreSeqKeeps, Zenon
<1>14. CASE UNCHANGED vars
  <2>1. /\ pc' = pc /\ pos' = pos /\ item' = item /\ got' = got /\ log' = log
        /\ enqueuePos' = enqueuePos /\ dequeuePos' = dequeuePos
        /\ sequence' = sequence /\ data' = data
    BY <1>14, Zenon DEF vars, shared, locals, history
  <2>2. (\A t \in Producers : Producing(t)' = Producing(t))
        /\ \A t \in Consumers : Consuming(t)' = Consuming(t)
    BY <2>1, Zenon DEF Producing, Consuming
  <2>3. Labels' /\ Window'
    BY <2>1, Zenon DEF RingCore, Labels, Window
  <2>4. FullSide' /\ FreeSide'
    BY <2>1, Zenon DEF RingCore, FullSide, FreeSide
  <2>5. Loaded' /\ Fresh'
    BY <2>1, Zenon DEF RingCore, Loaded, Fresh
  <2>6. ProducerOwns' /\ ConsumerOwns'
    BY <2>1, <2>2, Zenon DEF RingCore, ProducerOwns, ConsumerOwns
  <2>7. Differ' /\ Held'
    BY <2>1, <2>2, Zenon DEF RingCore, Differ, Held
  <2> QED BY <2>3, <2>4, <2>5, <2>6, <2>7, Zenon DEF RingCore
<1> QED
  BY <1>1, <1>2, <1>3, <1>4, <1>5, <1>6, <1>7, <1>8, <1>9, <1>10, <1>11, <1>12, <1>13, <1>14, Zenon
  DEF Next, EnqueueStep, DequeueStep, Threads

-----------------------------------------------------------------------------
(* Messages: each is claimed once and handed out once. *)

LEMMA LogFacts ==
  ASSUME TypeInv
  PROVE  /\ log \in Seq(Msg) /\ Len(log) \in Nat
         /\ \A i \in 1 .. Len(log) : log[i] \in Msg
         /\ \A m \in Msg : m[1] \in Producers /\ m[2] \in Nat /\ m = <<m[1], m[2]>>
         /\ \A p \in Producers : sent[p] \in Nat
<1>1. log \in Seq(Msg) /\ \A p \in Producers : sent[p] \in Nat
  BY BoundsAssumption DEF TypeInv, TypeOK, HistoryType, LocalType
<1>2. Len(log) \in Nat /\ \A i \in 1 .. Len(log) : log[i] \in Msg
  BY <1>1
<1>3. \A m \in Msg : m[1] \in Producers /\ m[2] \in Nat /\ m = <<m[1], m[2]>>
  BY BoundsAssumption DEF Msg
<1> QED BY <1>1, <1>2, <1>3, Zenon

LEMMA ClaimedOnceNext ==
  TypeInv /\ RingCore /\ Strict /\ ClaimedOnce /\ [Next]_vars => ClaimedOnce'
<1> SUFFICES ASSUME TypeInv, RingCore, Strict, ClaimedOnce, [Next]_vars PROVE ClaimedOnce'
  BY Zenon
<1>1. ASSUME NEW p \in Producers, EnqueueCall(p) PROVE ClaimedOnce'
  <2>1. /\ Goto(p, "e_pos") /\ log' = log /\ sent' = [sent EXCEPT ![p] = sent[p] + 1]
        /\ item' = [item EXCEPT ![p] = <<p, sent[p] + 1>>]
    BY <1>1, Zenon DEF EnqueueCall, history
  <2>2. /\ sent'[p] = sent[p] + 1 /\ item'[p] = <<p, sent[p] + 1>>
        /\ \A q \in Producers : q # p => sent'[q] = sent[q] /\ item'[q] = item[q]
    BY <2>1, Zenon DEF TypeInv, TypeOK, LocalType
  <2>3. \A q \in Producers : q # p => pc'[q] = pc[q]
    BY <2>1, PcFrame, Facts, Zenon
  <2>4. ASSUME NEW i \in 1 .. Len(log)
        PROVE  log[i][2] <= sent'[log[i][1]] /\ log[i] # <<p, sent[p] + 1>>
    <3>1. log[i] \in Msg /\ log[i][2] <= sent[log[i][1]]
      BY LogFacts, Zenon DEF ClaimedOnce
    <3>2. log[i][1] = p => log[i][2] # sent[p] + 1
      BY <3>1, LogFacts
    <3> QED BY <3>1, <3>2, <2>2, LogFacts
  <2> QED BY <2>1, <2>2, <2>3, <2>4 DEF ClaimedOnce
<1>2. ASSUME NEW p \in Producers, EnqueueCAS(p), enqueuePos = pos[p] PROVE ClaimedOnce'
  <2>1. /\ pc[p] = "e_cas" /\ Goto(p, "e_data") /\ log' = Append(log, item[p])
        /\ sent' = sent /\ item' = item
    BY <1>2, Zenon DEF EnqueueCAS, locals
  <2>2. pc'[p] = "e_data" /\ \A q \in Producers : q # p => pc'[q] = pc[q]
    BY <2>1, PcFrame, Facts, Zenon
  <2>3. /\ item[p] = <<p, sent[p]>> /\ item[p] \in Msg
        /\ \A i \in 1 .. Len(log) : log[i] # item[p]
    BY <2>1, Zenon DEF ClaimedOnce, TypeInv, ItemSet
  <2>4. /\ Len(log') = Len(log) + 1 /\ log'[Len(log) + 1] = item[p]
        /\ \A i \in 1 .. Len(log) : log'[i] = log[i]
    BY <2>1, <2>3, LogFacts
  <2>5. \A i \in 1 .. (Len(log) + 1) : i = Len(log) + 1 \/ i \in 1 .. Len(log)
    BY LogFacts
  <2>6. \A i \in 1 .. (Len(log) + 1) : log'[i][2] <= sent[log'[i][1]]
    <3> SUFFICES ASSUME NEW i \in 1 .. (Len(log) + 1) PROVE log'[i][2] <= sent[log'[i][1]]
      BY Zenon
    <3>1. CASE i \in 1 .. Len(log)
      BY <2>4, <3>1, Zenon DEF ClaimedOnce
    <3>2. CASE i = Len(log) + 1
      <4>1. item[p][1] = p /\ item[p][2] = sent[p] /\ sent[p] <= sent[p]
        BY <2>3, LogFacts
      <4> QED BY <2>4, <3>2, <4>1, Zenon
    <3> QED BY <2>5, <3>1, <3>2, Zenon
  <2>7. ASSUME NEW i \in 1 .. (Len(log) + 1), NEW j \in 1 .. (Len(log) + 1), log'[i] = log'[j]
        PROVE  i = j
    <3>1. CASE i \in 1 .. Len(log) /\ j \in 1 .. Len(log)
      BY <2>4, <2>7, <3>1, ZenonT(30) DEF ClaimedOnce
    <3>2. CASE i = Len(log) + 1 /\ j \in 1 .. Len(log)
      BY <2>3, <2>4, <2>7, <3>2, Zenon
    <3>3. CASE i \in 1 .. Len(log) /\ j = Len(log) + 1
      BY <2>3, <2>4, <2>7, <3>3, Zenon
    <3> QED BY <2>5, <3>1, <3>2, <3>3, Zenon
  <2>8. ASSUME NEW q \in Producers, pc'[q] \in {"e_pos", "e_seq", "e_cas"}
        PROVE  /\ item[q] = <<q, sent[q]>>
               /\ \A i \in 1 .. (Len(log) + 1) : log'[i] # item[q]
    <3>1. q # p /\ pc[q] \in {"e_pos", "e_seq", "e_cas"}
      BY <2>2, <2>8, Zenon
    <3>2. item[q] = <<q, sent[q]>> /\ \A i \in 1 .. Len(log) : log[i] # item[q]
      BY <3>1, Zenon DEF ClaimedOnce
    <3>3. item[q] # item[p]
      BY <3>1, <3>2, <2>3
    <3> QED BY <3>2, <3>3, <2>4, <2>5, Zenon
  <2> QED BY <2>1, <2>4, <2>6, <2>7, <2>8, ZenonT(30) DEF ClaimedOnce
<1>3. ASSUME UNCHANGED <<log, sent, item>>,
             \A p \in Producers : pc'[p] \in {"e_pos", "e_seq", "e_cas"} =>
               pc[p] \in {"e_pos", "e_seq", "e_cas"}
      PROVE  ClaimedOnce'
  BY <1>3, Zenon DEF ClaimedOnce
<1>4. ASSUME NEW p \in Producers, EnqueueStep(p), ~(EnqueueCAS(p) /\ enqueuePos = pos[p])
      PROVE  ClaimedOnce'
  <2>0. pc[p] \in {"idle", "e_pos", "e_seq", "e_cas", "e_data", "e_store"}
    BY Zenon DEF RingCore, Labels
  <2>1. UNCHANGED <<log, sent, item>>
    BY <1>4, <2>0, Zenon DEF EnqueueStep, EnqueueLoadPos, EnqueueLoadSeq, EnqueueCAS, DropOldestLoad,
       DropOldestCAS, EnqueueStoreData, EnqueueStoreSeq, history, locals
  <2>2. \/ pc[p] \in {"e_pos", "e_seq", "e_cas"} /\ \E l : Goto(p, l)
        \/ Goto(p, "e_store") \/ Goto(p, "idle")
    BY <1>4, <2>0, RetryStrict, Zenon DEF EnqueueStep, EnqueueLoadPos, EnqueueLoadSeq, EnqueueCAS,
       DropOldestLoad, DropOldestCAS, EnqueueStoreData, EnqueueStoreSeq
  <2>3. \A q \in Producers : q # p => pc'[q] = pc[q]
    BY <2>2, PcFrame, Facts, Zenon
  <2>4. pc'[p] \in {"e_pos", "e_seq", "e_cas"} => pc[p] \in {"e_pos", "e_seq", "e_cas"}
    BY <2>2, PcFrame, Facts
  <2> QED BY <2>1, <2>3, <2>4, <1>3, Zenon
<1>5. ASSUME NEW t \in Threads, (t \in Consumers /\ DequeueCall(t)) \/ DequeueStep(t)
      PROVE  ClaimedOnce'
  <2>1. t \in Consumers
    BY <1>5, Zenon DEF RingCore, Labels, DequeueStep, DequeueLoadPos, DequeueLoadSeq, DequeueCAS,
       DequeueLoadData, DequeueClearData, DequeueStoreSeq, Threads
  <2>2. UNCHANGED <<log, sent, item>> /\ \E l : Goto(t, l)
    BY <1>5, Zenon DEF DequeueCall, DequeueStep, DequeueLoadPos, DequeueLoadSeq, DequeueCAS,
       DequeueLoadData, DequeueClearData, DequeueStoreSeq, locals, history
  <2>3. \A q \in Producers : pc'[q] = pc[q]
    BY <2>1, <2>2, PcFrame, Facts, Zenon
  <2> QED BY <2>2, <2>3, <1>3, Zenon
<1>6. CASE UNCHANGED vars
  BY <1>6, Zenon DEF vars, locals, history, ClaimedOnce
<1> QED BY <1>1, <1>2, <1>4, <1>5, <1>6, Zenon DEF Next, Threads, EnqueueStep

LEMMA Below == \A d, e \in Nat : d <= e => \A i \in 0 .. (d - 1) : i \in Nat /\ i < d /\ i \in 0 .. (e - 1)
  OBVIOUS

LEMMA HandedOnceNext ==
  TypeInv /\ RingInv /\ Strict /\ [Next]_vars => HandedOnce'
<1> SUFFICES ASSUME TypeInv, RingInv, Strict, [Next]_vars PROVE HandedOnce'
  BY Zenon
<1>0. RingCore /\ ClaimedOnce /\ HandedOnce
  BY Zenon DEF RingInv
<1>1. ASSUME UNCHANGED deliveries, dequeuePos' \in Nat, dequeuePos <= dequeuePos',
             \A k \in Nat : k < dequeuePos => log'[k + 1] = log[k + 1],
             \A c \in Consumers : Consuming(c)' =>
               (Consuming(c) /\ pos'[c] = pos[c]) \/ pos'[c] >= dequeuePos
      PROVE  HandedOnce'
  <2> SUFFICES ASSUME NEW m \in Msg, deliveries[m] # 0
      PROVE  /\ deliveries[m] = 1
             /\ \E k \in 0 .. (dequeuePos' - 1) :
                  log'[k + 1] = m /\ \A c \in Consumers : Consuming(c)' => pos'[c] # k
    BY <1>0, <1>1, Zenon DEF HandedOnce
  <2>1. PICK k \in 0 .. (dequeuePos - 1) :
          log[k + 1] = m /\ \A c \in Consumers : Consuming(c) => pos[c] # k
    BY <1>0, Zenon DEF HandedOnce
  <2>2. k \in Nat /\ k < dequeuePos /\ k \in 0 .. (dequeuePos' - 1)
    BY <1>1, Facts, Below, Zenon
  <2>3. \A c \in Consumers : Consuming(c)' => pos'[c] # k
    BY <1>1, <2>1, <2>2, Facts
  <2> QED BY <1>0, <1>1, <2>1, <2>2, <2>3, Zenon DEF HandedOnce
<1>2. ASSUME NEW p \in Producers, EnqueueCall(p) \/ EnqueueStep(p) PROVE HandedOnce'
  <2>0. pc[p] \in {"idle", "e_pos", "e_seq", "e_cas", "e_data", "e_store"}
    BY <1>0, Zenon DEF RingCore, Labels
  <2>1. UNCHANGED <<deliveries, dequeuePos>> /\ \E l : Goto(p, l)
    BY <1>2, <2>0, RetryStrict, Zenon DEF EnqueueCall, EnqueueStep, EnqueueLoadPos, EnqueueLoadSeq,
       EnqueueCAS, DropOldestLoad, DropOldestCAS, EnqueueStoreData, EnqueueStoreSeq, history,
       shared, locals
  <2>2. log' = log \/ log' = Append(log, item[p])
    BY <1>2, <2>0, Zenon DEF EnqueueCall, EnqueueStep, EnqueueLoadPos, EnqueueLoadSeq,
       EnqueueCAS, DropOldestLoad, DropOldestCAS, EnqueueStoreData, EnqueueStoreSeq, history
  <2>3. pos' = pos \/ pos' = [pos EXCEPT ![p] = enqueuePos]
    BY <1>2, <2>0, Zenon DEF EnqueueCall, EnqueueStep, EnqueueLoadPos, EnqueueLoadSeq,
       EnqueueCAS, DropOldestLoad, DropOldestCAS, EnqueueStoreData, EnqueueStoreSeq, locals
  <2>4. \A c \in Consumers : pc'[c] = pc[c] /\ pos'[c] = pos[c]
    <3>1. \A c \in Consumers : pc'[c] = pc[c]
      BY <2>1, PcFrame, Facts, Zenon
    <3>2. \A c \in Consumers : pos'[c] = pos[c]
      BY <2>3, Facts, Zenon DEF TypeInv, TypeOK, LocalType
    <3> QED BY <3>1, <3>2, Zenon
  <2>5. \A k \in Nat : k < dequeuePos => log'[k + 1] = log[k + 1]
    <3> SUFFICES ASSUME NEW k \in Nat, k < dequeuePos PROVE log'[k + 1] = log[k + 1]
      BY Zenon
    <3>1. k + 1 \in 1 .. Len(log)
      BY <1>0, Facts DEF RingCore, Window
    <3> QED BY <2>2, <3>1, LogFacts
  <2>6. \A c \in Consumers : Consuming(c)' => Consuming(c) /\ pos'[c] = pos[c]
    BY <2>4, Zenon DEF Consuming
  <2> QED BY <1>1, <2>1, <2>5, <2>6, Facts
<1>3. ASSUME NEW c \in Consumers, DequeueCall(c) \/ (DequeueStep(c) /\ ~DequeueStoreSeq(c))
      PROVE  HandedOnce'
  <2>1. UNCHANGED <<deliveries, log>> /\ dequeuePos' \in Nat /\ dequeuePos <= dequeuePos'
    <3>1. CASE DequeueCall(c) \/ DequeueLoadPos(c) \/ DequeueLoadSeq(c)
      <4>1. UNCHANGED <<dequeuePos, deliveries, log>>
        BY <3>1, Zenon DEF DequeueCall, DequeueLoadPos, DequeueLoadSeq, history, shared
      <4> QED BY <4>1, Facts
    <3>2. CASE DequeueCAS(c)
      BY <3>2, Facts DEF DequeueCAS, history
    <3>3. CASE DequeueLoadData(c) \/ DequeueClearData(c)
      BY <3>3, Facts DEF DequeueLoadData, DequeueClearData, history, shared
    <3> QED BY <1>3, <3>1, <3>2, <3>3, Zenon DEF DequeueStep
  <2>2. ASSUME NEW d \in Consumers, d # c PROVE Consuming(d)' => Consuming(d) /\ pos'[d] = pos[d]
    <3>1. \E l : Goto(c, l)
      BY <1>3, Zenon DEF DequeueCall, DequeueStep, DequeueLoadPos, DequeueLoadSeq, DequeueCAS,
         DequeueLoadData, DequeueClearData
    <3>2. pc'[d] = pc[d]
      BY <2>2, <3>1, PcFrame, Facts, Zenon
    <3>3. pos' = pos \/ pos' = [pos EXCEPT ![c] = dequeuePos]
      BY <1>3, Zenon DEF DequeueCall, DequeueStep, DequeueLoadPos, DequeueLoadSeq, DequeueCAS,
         DequeueLoadData, DequeueClearData, locals
    <3>4. pos'[d] = pos[d]
      BY <2>2, <3>3, Facts, Zenon DEF TypeInv, TypeOK, LocalType
    <3> QED BY <3>2, <3>4, Zenon DEF Consuming
  <2>3. Consuming(c)' => (Consuming(c) /\ pos'[c] = pos[c]) \/ pos'[c] >= dequeuePos
    <3>1. CASE DequeueCall(c) \/ DequeueLoadPos(c) \/ DequeueLoadSeq(c)
      <4>1. Goto(c, "idle") \/ Goto(c, "d_pos") \/ Goto(c, "d_seq") \/ Goto(c, "d_cas")
        BY <3>1, Facts, Zenon DEF DequeueCall, DequeueLoadPos, DequeueLoadSeq, Resume
      <4>2. pc'[c] \in {"idle", "d_pos", "d_seq", "d_cas"}
        BY <4>1, PcFrame, Facts, Zenon
      <4> QED BY <4>2, Zenon DEF Consuming
    <3>2. CASE DequeueCAS(c)
      <4>1. pos' = pos /\ (dequeuePos = pos[c] \/ Goto(c, "d_pos"))
        BY <3>2, Zenon DEF DequeueCAS, locals
      <4> QED BY <4>1, PcFrame, Facts DEF Consuming
    <3>3. CASE DequeueLoadData(c) \/ DequeueClearData(c)
      BY <3>3, Zenon DEF DequeueLoadData, DequeueClearData, Consuming, locals
    <3> QED BY <1>3, <3>1, <3>2, <3>3, Zenon DEF DequeueStep
  <2> QED BY <1>1, <2>1, <2>2, <2>3, Zenon
<1>4. ASSUME NEW c \in Consumers, DequeueStoreSeq(c) PROVE HandedOnce'
  <2> DEFINE m == got[c]
  <2>1. /\ pc[c] = "d_store" /\ Goto(c, "idle") /\ UNCHANGED <<dequeuePos, log, pos>>
        /\ deliveries' = [deliveries EXCEPT ![m] = @ + 1]
    BY <1>4, Facts, Zenon DEF DequeueStoreSeq, Resume
  <2>2. Consuming(c) /\ pos[c] \in Nat /\ pos[c] < dequeuePos /\ pos[c] + 1 \in 1 .. Len(log)
    <3>1. Consuming(c)
      BY <2>1, Zenon DEF Consuming
    <3>2. pos[c] \in Nat /\ pos[c] < dequeuePos
      BY <3>1, <1>0, Facts, Zenon DEF RingCore, ConsumerOwns
    <3> QED BY <3>1, <3>2, <1>0, Facts DEF RingCore, Window
  <2>3. m = log[pos[c] + 1] /\ m \in Msg
    BY <2>1, <2>2, <1>0, LogFacts, Zenon DEF RingCore, Held
  <2>4. \A d \in Consumers : Consuming(d)' => Consuming(d) /\ d # c
    BY <2>1, PcFrame, Facts, Zenon DEF Consuming
  <2>5. deliveries[m] = 0
    <3> SUFFICES ASSUME deliveries[m] # 0 PROVE FALSE
      BY Zenon
    <3>1. PICK k \in 0 .. (dequeuePos - 1) :
            log[k + 1] = m /\ \A d \in Consumers : Consuming(d) => pos[d] # k
      BY <2>3, <1>0, Zenon DEF HandedOnce
    <3>2. k + 1 \in 1 .. Len(log) /\ k \in Nat
      BY <1>0, Facts DEF RingCore, Window
    <3>3. k + 1 = pos[c] + 1
      BY <2>2, <2>3, <3>1, <3>2, <1>0, Zenon DEF ClaimedOnce
    <3> QED BY <2>2, <3>1, <3>2, <3>3
  <2> HIDE DEF m
  <2>6. /\ deliveries'[m] = 1 /\ deliveries'[Nil] = 0
        /\ \A n \in Msg : n # m => deliveries'[n] = deliveries[n]
    BY <2>1, <2>3, <2>5, <1>0, NilAssumption DEF HandedOnce, TypeInv, TypeOK, HistoryType
  <2>7. ASSUME NEW n \in Msg, deliveries'[n] # 0
        PROVE  /\ deliveries'[n] = 1
               /\ \E k \in 0 .. (dequeuePos - 1) :
                    log[k + 1] = n /\ \A d \in Consumers : Consuming(d)' => pos[d] # k
    <3>1. CASE n = m
      <4>1. \A d \in Consumers : Consuming(d)' => pos[d] # pos[c]
        BY <2>2, <2>4, <1>0, Zenon DEF RingCore, Differ
      <4>2. pos[c] \in 0 .. (dequeuePos - 1)
        BY <2>2, Facts
      <4> QED BY <3>1, <4>1, <4>2, <2>3, <2>6, Zenon
    <3>2. CASE n # m
      BY <3>2, <2>4, <2>6, <2>7, <1>0 DEF HandedOnce
    <3> QED BY <3>1, <3>2, Zenon
  <2> QED BY <2>1, <2>6, <2>7 DEF HandedOnce
<1>5. ASSUME NEW p \in Producers, DequeueStep(p) PROVE HandedOnce'
  BY <1>5, <1>0, Zenon DEF RingCore, Labels, DequeueStep, DequeueLoadPos, DequeueLoadSeq, DequeueCAS,
     DequeueLoadData, DequeueClearData, DequeueStoreSeq
<1>6. CASE UNCHANGED vars
  <2>1. UNCHANGED <<deliveries, dequeuePos, log, pos, pc>>
    BY <1>6, Zenon DEF vars, shared, locals, history
  <2>2. \A c \in Consumers : Consuming(c)' = Consuming(c)
    BY <2>1, Zenon DEF Consuming
  <2> QED BY <1>1, <2>1, <2>2, Facts
<1> QED BY <1>2, <1>3, <1>4, <1>5, <1>6, Zenon DEF Next, Threads

-----------------------------------------------------------------------------
(* The theorems *)

\* The inductive invariant: the sequence numbers always tell the state of every
\* slot, whatever the interleaving of Enqueue and Dequeue calls.
THEOREM RingCorrect ==
  ASSUME Strict
  PROVE  Spec => [](TypeInv /\ RingInv)
<1>1. Init => TypeInv /\ RingInv
  <2> SUFFICES ASSUME Init PROVE TypeInv /\ RingInv
    BY Zenon
  <2>1. ClaimedOnce
    BY DEF Init, ClaimedOnce, Threads
  <2>2. HandedOnce
    BY NilAssumption, Zenon DEF Init, HandedOnce
  <2> QED BY <2>1, <2>2, TypeInit, RingCoreInit, Zenon DEF RingInv
<1>2. (TypeInv /\ RingInv) /\ [Next]_vars => (TypeInv /\ RingInv)'
  BY TypeNext, RingCoreNext, ClaimedOnceNext, HandedOnceNext, Zenon DEF RingInv
<1> QED BY <1>1, <1>2, PTL DEF Spec

\* No two calls in their critical window ever work on the same slot.
THEOREM SlotsExclusive ==
  ASSUME Strict
  PROVE  Spec => []SlotExclusive
<1>1. TypeInv /\ RingInv => SlotExclusive
  <2> SUFFICES ASSUME TypeInv, RingInv, NEW t \in Threads, NEW u \in Threads, t # u,
                      Producing(t) \/ Consuming(t), Producing(u) \/ Consuming(u)
      PROVE  Slot(pos[t]) # Slot(pos[u])
    BY Zenon DEF SlotExclusive
  <2>1. RingCore
    BY Zenon DEF RingInv
  <2>2. Producing(t) => t \in Producers
    BY <2>1, Zenon DEF RingCore, Labels, Producing, Threads
  <2>3. Producing(u) => u \in Producers
    BY <2>1, Zenon DEF RingCore, Labels, Producing, Threads
  <2>4. Consuming(t) => t \in Consumers
    BY <2>1, Zenon DEF RingCore, Labels, Consuming, Threads
  <2>5. Consuming(u) => u \in Consumers
    BY <2>1, Zenon DEF RingCore, Labels, Consuming, Threads
  <2> QED BY <2>1, <2>2, <2>3, <2>4, <2>5, ProducerApart, ConsumerApart, Zenon
<1> QED BY <1>1, RingCorrect, PTL

\* A Dequeue that has loaded a pointer holds the message enqueued at the position
\* it claimed.
THEOREM InOrder ==
  ASSUME Strict
  PROVE  Spec => []DeliveredInOrder
<1>1. TypeInv /\ RingInv => DeliveredInOrder
  <2> SUFFICES ASSUME TypeInv, RingInv, NEW t \in Threads, pc[t] \in {"d_clear", "d_store"}
      PROVE  pos[t] < Len(log) /\ got[t] = log[pos[t] + 1]
    BY Zenon DEF DeliveredInOrder
  <2>1. RingCore
    BY Zenon DEF RingInv
  <2>2. t \in Consumers /\ Consuming(t)
    BY <2>1, Zenon DEF RingCore, Labels, Consuming, Threads
  <2>3. pos[t] < dequeuePos /\ dequeuePos <= Len(log) /\ Len(log) = enqueuePos
    BY <2>1, <2>2, Zenon DEF RingCore, ConsumerOwns, Window
  <2> QED BY <2>1, <2>2, <2>3, Facts DEF RingCore, Held
<1> QED BY <1>1, RingCorrect, PTL

\* Dequeue never returns (nil, true) and never returns a message twice.
THEOREM OnceOnly ==
  ASSUME Strict
  PROVE  Spec => []DeliveredOnce
<1>1. TypeInv /\ RingInv => DeliveredOnce
  <2> SUFFICES ASSUME TypeInv, RingInv PROVE DeliveredOnce
    BY Zenon
  <2>1. \A m \in Msg : deliveries[m] = 0 \/ deliveries[m] = 1
    BY Zenon DEF RingInv, HandedOnce
  <2>2. \A m \in Msg : deliveries[m] <= 1
    BY <2>1
  <2> QED BY <2>2, Zenon DEF RingInv, HandedOnce, DeliveredOnce
<1> QED BY <1>1, RingCorrect, PTL

-----------------------------------------------------------------------------
(* The ring implements the bounded first-in first-out queue: a message is put by
   the CAS of Enqueue and taken by the CAS of Dequeue, and every other step is
   invisible. *)

LEMMA ExtendWindow ==
  ASSUME NEW S, NEW s \in Seq(S), NEW x \in S, NEW d \in 0 .. Len(s)
  PROVE  SubSeq(Append(s, x), d + 1, Len(s) + 1) = Append(SubSeq(s, d + 1, Len(s)), x)
<1> DEFINE l == SubSeq(Append(s, x), d + 1, Len(s) + 1)
           w == SubSeq(s, d + 1, Len(s))
           r == Append(w, x)
<1>1. /\ l \in Seq(S) /\ Len(l) = Len(s) - d + 1
      /\ \A i \in 1 .. (Len(s) - d + 1) : l[i] = IF i = Len(s) - d + 1 THEN x ELSE s[d + i]
  OBVIOUS
<1>2. /\ w \in Seq(S) /\ Len(w) = Len(s) - d
      /\ \A i \in 1 .. (Len(s) - d) : w[i] = s[d + i]
  OBVIOUS
<1> HIDE DEF l, w
<1>3. /\ r \in Seq(S) /\ Len(r) = Len(s) - d + 1
      /\ \A i \in 1 .. (Len(s) - d + 1) : r[i] = IF i = Len(s) - d + 1 THEN x ELSE s[d + i]
  <2>1. r \in Seq(S) /\ Len(r) = Len(w) + 1 /\ r[Len(w) + 1] = x /\ \A i \in 1 .. Len(w) : r[i] = w[i]
    BY <1>2
  <2> HIDE DEF r
  <2>2. PICK n \in Nat : n = Len(s) - d
    OBVIOUS
  <2>3. ASSUME NEW i \in 1 .. (n + 1) PROVE r[i] = IF i = n + 1 THEN x ELSE s[d + i]
    <3>1. CASE i = n + 1
      BY <1>2, <2>1, <2>2, <3>1, Zenon
    <3>2. CASE i \in 1 .. n
      <4>1. w[i] = s[d + i]
        BY <1>2, <2>2, <3>2, Zenon
      <4>2. r[i] = w[i]
        BY <1>2, <2>1, <2>2, <3>2, Zenon
      <4> QED BY <4>1, <4>2, <3>2
    <3> QED BY <3>1, <3>2
  <2> QED BY <1>2, <2>1, <2>2, <2>3, Zenon
<1> HIDE DEF r
<1>4. l = r
  <2>1. l = [i \in 1 .. Len(l) |-> l[i]] /\ r = [i \in 1 .. Len(r) |-> r[i]]
    BY <1>1, <1>3
  <2>2. PICK n : n = Len(s) - d + 1
    BY Zenon
  <2>3. Len(l) = n /\ Len(r) = n /\ \A i \in 1 .. n : l[i] = r[i]
    BY <1>1, <1>3, <2>2, Zenon
  <2> QED BY <2>1, <2>3, Zenon
<1> QED BY <1>4, Zenon DEF l, r, w

LEMMA ShrinkWindow ==
  ASSUME NEW S, NEW s \in Seq(S), NEW d \in 0 .. (Len(s) - 1)
  PROVE  /\ SubSeq(s, d + 1, Len(s)) # <<>>
         /\ Head(SubSeq(s, d + 1, Len(s))) = s[d + 1]
         /\ Tail(SubSeq(s, d + 1, Len(s))) = SubSeq(s, d + 2, Len(s))
<1>1. SubSeq(s, d + 1, Len(s)) # <<>>
  <2>1. Len(SubSeq(s, d + 1, Len(s))) = Len(s) - d /\ Len(s) - d # 0
    OBVIOUS
  <2>2. Len(<<>>) = 0
    OBVIOUS
  <2> QED BY <2>1, <2>2, Zenon
<1>2. Head(SubSeq(s, d + 1, Len(s))) = s[d + 1]
  OBVIOUS
<1>3. Tail(SubSeq(s, d + 1, Len(s))) = SubSeq(s, d + 2, Len(s))
  OBVIOUS
<1> QED BY <1>1, <1>2, <1>3, Zenon

\* Only a successful CAS moves a position.
LEMMA VisibleSteps ==
  ASSUME TypeInv, RingInv, Strict, [Next]_vars
  PROVE  \/ \E p \in Producers : EnqueueCAS(p) /\ enqueuePos = pos[p]
         \/ \E c \in Consumers : DequeueCAS(c) /\ dequeuePos = pos[c]
         \/ UNCHANGED <<log, enqueuePos, dequeuePos>>
<1>0. /\ \A p \in Producers : pc[p] \in {"idle", "e_pos", "e_seq", "e_cas", "e_data", "e_store"}
      /\ \A c \in Consumers : c \in Threads
  BY Facts, Zenon DEF RingInv, RingCore, Labels
<1>1. ASSUME NEW p \in Producers, EnqueueCall(p) \/ EnqueueStep(p),
             ~(EnqueueCAS(p) /\ enqueuePos = pos[p])
      PROVE  UNCHANGED <<log, enqueuePos, dequeuePos>>
  BY <1>0, <1>1, Zenon DEF EnqueueCall, EnqueueStep, EnqueueLoadPos, EnqueueLoadSeq, EnqueueCAS,
     DropOldestLoad, DropOldestCAS, EnqueueStoreData, EnqueueStoreSeq, shared, history
<1>2. ASSUME NEW c \in Consumers, DequeueCall(c) \/ DequeueStep(c),
             ~(DequeueCAS(c) /\ dequeuePos = pos[c])
      PROVE  UNCHANGED <<log, enqueuePos, dequeuePos>>
  BY <1>2, Zenon DEF DequeueCall, DequeueStep, DequeueLoadPos, DequeueLoadSeq, DequeueCAS,
     DequeueLoadData, DequeueClearData, DequeueStoreSeq, shared, history
<1>3. ASSUME NEW p \in Producers, DequeueStep(p) PROVE FALSE
  BY <1>0, <1>3, Zenon DEF DequeueStep, DequeueLoadPos, DequeueLoadSeq, DequeueCAS, DequeueLoadData,
     DequeueClearData, DequeueStoreSeq
<1>4. CASE UNCHANGED vars
  BY <1>4, Zenon DEF vars, shared, history
<1> QED BY <1>1, <1>2, <1>3, <1>4, Zenon DEF Next, Threads

LEMMA RefinePut ==
  ASSUME TypeInv, RingInv, RingInv', NEW p \in Producers, EnqueueCAS(p), enqueuePos = pos[p]
  PROVE  Fifo!FifoNext
<1> DEFINE q == SubSeq(log, dequeuePos + 1, enqueuePos)
<1>1. /\ log' = Append(log, item[p]) /\ enqueuePos' = enqueuePos + 1
      /\ dequeuePos' = dequeuePos /\ pc[p] = "e_cas"
  BY Zenon DEF EnqueueCAS
<1>2. /\ Len(log) = enqueuePos /\ dequeuePos <= enqueuePos
      /\ enqueuePos + 1 <= dequeuePos + Capacity
  BY <1>1, Zenon DEF RingInv, RingCore, Window
<1>3. item[p] \in Msg /\ \A i \in 1 .. Len(log) : log[i] # item[p]
  BY <1>1, Zenon DEF RingInv, ClaimedOnce, TypeInv, ItemSet
<1>4. dequeuePos \in 0 .. Len(log) /\ dequeuePos \in Nat /\ enqueuePos \in Nat /\ Capacity \in Nat
  BY <1>2, Facts
<1>5. q' = Append(q, item[p])
  BY <1>1, <1>2, <1>3, <1>4, LogFacts, ExtendWindow, Zenon
<1>6. /\ q \in Seq(Msg) /\ Len(q) = enqueuePos - dequeuePos
      /\ \A i \in 1 .. (enqueuePos - dequeuePos) : q[i] = log[dequeuePos + i]
  <2>1. \A i \in (dequeuePos + 1) .. enqueuePos : log[i] \in Msg
    BY <1>2, <1>4, LogFacts
  <2>2. /\ q \in Seq(Msg)
        /\ Len(q) = IF dequeuePos + 1 <= enqueuePos
                    THEN enqueuePos - (dequeuePos + 1) + 1 ELSE 0
        /\ \A i \in 1 .. (enqueuePos - (dequeuePos + 1) + 1) :
             q[i] = log[(dequeuePos + 1) + i - 1]
    BY <2>1, <1>4
  <2> QED BY <2>2, <1>2, <1>4
<1>7. DOMAIN q = 1 .. (enqueuePos - dequeuePos)
  BY <1>6
<1> HIDE DEF q
<1>8. item[p] \notin {q[i] : i \in DOMAIN q}
  <2> SUFFICES ASSUME NEW i \in 1 .. (enqueuePos - dequeuePos) PROVE q[i] # item[p]
    BY <1>7, Zenon
  <2>1. dequeuePos + i \in 1 .. Len(log)
    BY <1>2, <1>4
  <2> QED BY <2>1, <1>3, <1>6, Zenon
<1>9. item[p] \notin {log[i] : i \in 1 .. dequeuePos}
  BY <1>2, <1>3, <1>4
<1>10. {log'[i] : i \in 1 .. dequeuePos'} = {log[i] : i \in 1 .. dequeuePos}
  <2>1. \A i \in 1 .. dequeuePos : log'[i] = log[i]
    BY <1>1, <1>2, <1>3, <1>4, LogFacts
  <2> QED BY <2>1, <1>1, Zenon
<1>11. Len(q) < Capacity
  BY <1>2, <1>4, <1>6
<1>12. Fifo!Put(item[p])
  BY <1>5, <1>8, <1>9, <1>10, <1>11, Zenon DEF Fifo!Put, Fifo!Queued, q
<1> QED BY <1>3, <1>12, Zenon DEF Fifo!FifoNext

LEMMA RefineTake ==
  ASSUME TypeInv, RingInv, RingInv', NEW c \in Consumers, DequeueCAS(c), dequeuePos = pos[c]
  PROVE  Fifo!FifoNext
<1> DEFINE q == SubSeq(log, dequeuePos + 1, enqueuePos)
<1>1. log' = log /\ enqueuePos' = enqueuePos /\ dequeuePos' = dequeuePos + 1
  BY Zenon DEF DequeueCAS, history
<1>2. Len(log) = enqueuePos /\ dequeuePos + 1 <= enqueuePos
  BY <1>1, Zenon DEF RingInv, RingCore, Window
<1>3. dequeuePos \in 0 .. (Len(log) - 1) /\ dequeuePos \in Nat /\ (dequeuePos + 1) + 1 = dequeuePos + 2
  BY <1>2, Facts
<1>4. q # <<>> /\ Head(q) = log[dequeuePos + 1] /\ Tail(q) = SubSeq(log, dequeuePos + 2, enqueuePos)
  BY <1>2, <1>3, LogFacts, ShrinkWindow, Zenon
<1>5. q' = Tail(q)
  BY <1>1, <1>3, <1>4, Zenon
<1> HIDE DEF q
<1>6. {log'[i] : i \in 1 .. dequeuePos'} = {log[i] : i \in 1 .. dequeuePos} \cup {Head(q)}
  <2>1. 1 .. (dequeuePos + 1) = (1 .. dequeuePos) \cup {dequeuePos + 1}
    BY <1>3
  <2> QED BY <2>1, <1>1, <1>4, Zenon
<1>7. Fifo!Take
  BY <1>4, <1>5, <1>6, Zenon DEF Fifo!Take, q
<1> QED BY <1>7, Zenon DEF Fifo!FifoNext

\* LockFreeQueue implements BoundedFifo under DropNewest and Block: an accepted
\* message is put once, no more than Capacity are held, and they leave in the
\* order they were put.
THEOREM ImplementsFifo ==
  ASSUME Strict
  PROVE  Spec => RefinesFifo
<1>1. Init => Fifo!FifoInit
  <2> SUFFICES ASSUME Init PROVE Fifo!FifoInit
    BY Zenon
  <2>1. SubSeq(log, dequeuePos + 1, enqueuePos) = <<>>
    BY DEF Init
  <2>2. {log[i] : i \in 1 .. dequeuePos} = {}
    BY DEF Init
  <2> QED BY <2>1, <2>2, Zenon DEF Fifo!FifoInit
<1>2. (TypeInv /\ RingInv) /\ (TypeInv /\ RingInv)' /\ [Next]_vars =>
        [Fifo!FifoNext]_(Fifo!fifoVars)
  <2> SUFFICES ASSUME TypeInv, RingInv, RingInv', [Next]_vars
      PROVE  [Fifo!FifoNext]_(Fifo!fifoVars)
    BY Zenon
  <2>1. ASSUME UNCHANGED <<log, enqueuePos, dequeuePos>> PROVE UNCHANGED Fifo!fifoVars
    BY <2>1, Zenon DEF Fifo!fifoVars
  <2> QED BY <2>1, VisibleSteps, RefinePut, RefineTake, Zenon
<1> QED BY <1>1, <1>2, RingCorrect, PTL DEF Spec, RefinesFifo, Fifo!FifoSpec
=============================================================================
