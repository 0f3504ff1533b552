----------------------------- MODULE BusProofs -----------------------------
(***************************************************************************)
(* Proofs about MessageBus: an accepted message is in one place, one that  *)
(* the workers visit, and no worker stays away from the low queue.         *)
(***************************************************************************)
EXTENDS MessageBus, FiniteSetTheorems, TLAPS

High == <<"high", None>>
TopicIds == Topics \X Messages

\* The types of the variables.
PublisherType ==
  /\ route \in [Messages -> Priorities \cup Topics]
  /\ queue \in [Ids -> Seq(Messages)]
  /\ topicQueues \in [Topics -> TopicIds \cup {NoQueue}]
  /\ \A t \in Topics : topicQueues[t] # NoQueue => topicQueues[t][1] = t
  /\ pub \in [Messages -> {"new", "lookup", "create", "count", "counting", "enqueue", "nil", "error"}]
  /\ DOMAIN target = Messages
  /\ processed \in [Messages -> {0, 1}]
WorkerType ==
  /\ pc \in [Workers -> {"off", "select", "batch", "process", "done"}]
  /\ at \in [Workers -> Ids \cup {NoQueue}]
  /\ left \in [Workers -> SUBSET TopicIds]
  /\ count \in [Workers -> Nat] /\ since \in [Workers -> Nat]
  /\ item \in [Workers -> Messages \cup {None}]

\* A bus that is not running and whose Stop has returned has no worker at work.
OwnerInv == ~running /\ owner = "idle" => \A w \in Workers : pc[w] \in {"off", "done"}

Elements(s) == {s[i] : i \in DOMAIN s}
Distinct(s) == \A i, j \in DOMAIN s : s[i] = s[j] => i = j

\* A message that was accepted and not processed yet.
Waiting(m) == pub[m] = "nil" /\ processed[m] = 0

QueuesApart ==
  /\ \A q \in Ids : Distinct(queue[q])
  /\ \A q, r \in Ids : q # r => Queued(q) \cap Queued(r) = {}
InQueue == \A q \in Ids : \A m \in Queued(q) : Waiting(m) /\ \A w \in Workers : item[w] # m
InHand ==
  /\ \A w \in Workers : item[w] # None <=> pc[w] = "process"
  /\ \A w \in Workers : item[w] # None => Waiting(item[w])
  /\ \A v, w \in Workers : v # w /\ item[v] # None => item[v] # item[w]
Somewhere ==
  /\ \A m \in Messages : pub[m] # "nil" => processed[m] = 0
  /\ \A m \in Messages : Waiting(m) =>
       (\E w \in Workers : item[w] = m) \/ (\E q \in Ids : m \in Queued(q))
PlaceInv == QueuesApart /\ InQueue /\ InHand /\ Somewhere

\* A queue the workers visit, and the queues publishers hold.
Visited(q) == q[1] \in Priorities \/ topicQueues[q[1]] = q
RouteInv ==
  /\ \A q \in Ids : \A m \in Queued(q) : Visited(q)
  /\ \A m \in Messages : pub[m] \in {"count", "counting", "enqueue"} => target[m] \in Ids /\ Visited(target[m])
  /\ \A m \in Messages : pub[m] \in {"lookup", "create"} => route[m] \in Topics

\* Where a worker is in its round over the queues.
Round(w) ==
  /\ pc[w] \in {"off", "select", "done"} => at[w] \in {NoQueue, High} /\ count[w] = 0
  /\ pc[w] \in {"batch", "process"} => at[w] \in Ids
  /\ at[w] \in TopicIds <=> left[w] # {}
  /\ left[w] # {} => at[w] \in left[w]
  /\ IsFiniteSet(left[w])
  /\ at[w] \in Ids => count[w] <= Limit(at[w])
RoundInv == \A w \in Workers : Round(w)

\* What it may have taken since the low queue: one batch of each topic queue it has left
\* behind, then one of the high and one of the normal queue.
Made == Cardinality({t \in Topics : topicQueues[t] # NoQueue}) * TopicBatch
Taken(q, L, n, k, made) ==
  /\ q = NoQueue => k = 0
  /\ q[1] = "high" => k <= made + n
  /\ q[1] = "normal" => k <= made + HighBatch + n
  /\ q[1] = "low" => k <= made + HighBatch + NormalBatch
  /\ q[1] \in Topics => k + Cardinality(L) * TopicBatch <= made + n
SinceInv == \A w \in Workers : Taken(at[w], left[w], count[w], since[w], Made)

BusInv == PublisherType /\ WorkerType /\ OwnerInv /\ PlaceInv /\ RouteInv /\ RoundInv /\ SinceInv


-----------------------------------------------------------------------------
(* Sequences without duplicates *)

LEMMA TailFacts ==
  ASSUME NEW S, NEW s \in Seq(S), s # <<>>, Distinct(s)
  PROVE  /\ Head(s) \in S /\ Head(s) \in Elements(s) /\ Tail(s) \in Seq(S) /\ Distinct(Tail(s))
         /\ Elements(Tail(s)) = Elements(s) \ {Head(s)}
<1>1. /\ Head(s) = s[1] /\ Tail(s) \in Seq(S) /\ Len(s) \in Nat \ {0}
      /\ DOMAIN s = 1 .. Len(s) /\ DOMAIN Tail(s) = 1 .. (Len(s) - 1) /\ Head(s) \in S
      /\ \A i \in 1 .. (Len(s) - 1) : Tail(s)[i] = s[i + 1]
  OBVIOUS
<1>2. PICK n, t : n \in Nat \ {0} /\ n = Len(s) /\ t = Tail(s)
  BY <1>1, Zenon
<1>3. \A i \in 1 .. (n - 1) : i + 1 \in 1 .. n /\ i + 1 # 1
  BY <1>2
<1>4. \A i \in 1 .. n : i = 1 \/ (i - 1 \in 1 .. (n - 1) /\ (i - 1) + 1 = i)
  BY <1>2
<1>5. \A i, j \in 1 .. (n - 1) : i + 1 = j + 1 => i = j
  BY <1>2
<1>6. 1 \in 1 .. n
  BY <1>2
<1>a. DOMAIN s = 1 .. n /\ DOMAIN t = 1 .. (n - 1) /\ \A i \in 1 .. (n - 1) : t[i] = s[i + 1]
  BY <1>1, <1>2, Zenon
<1>7. Distinct(t)
  <2> SUFFICES ASSUME NEW i \in 1 .. (n - 1), NEW j \in 1 .. (n - 1), t[i] = t[j] PROVE i = j
    BY <1>a, Zenon DEF Distinct
  <2>1. i + 1 \in 1 .. n /\ j + 1 \in 1 .. n /\ s[i + 1] = s[j + 1]
    BY <1>a, <1>3, Zenon
  <2>2. i + 1 = j + 1
    BY <2>1, <1>a, Zenon DEF Distinct
  <2> QED BY <2>2, <1>5, Zenon
<1>8. Elements(t) = Elements(s) \ {s[1]}
  <2>1. ASSUME NEW x \in Elements(t) PROVE x \in Elements(s) \ {s[1]}
    <3>1. PICK i \in 1 .. (n - 1) : x = s[i + 1]
      BY <1>a, Zenon DEF Elements
    <3>2. i + 1 \in 1 .. n /\ i + 1 # 1
      BY <1>3, Zenon
    <3> QED BY <3>1, <3>2, <1>a, <1>6, Zenon DEF Elements, Distinct
  <2>2. ASSUME NEW x \in Elements(s), x # s[1] PROVE x \in Elements(t)
    <3>1. PICK i \in 1 .. n : x = s[i]
      BY <1>a, Zenon DEF Elements
    <3>2. i - 1 \in 1 .. (n - 1) /\ t[i - 1] = s[i]
      BY <3>1, <2>2, <1>4, <1>a, Zenon
    <3> QED BY <3>1, <3>2, <1>a, Zenon DEF Elements
  <2> QED BY <2>1, <2>2, Zenon
<1>9. s[1] \in Elements(s)
  BY <1>1, <1>2, <1>6, Zenon DEF Elements
<1> QED BY <1>1, <1>2, <1>7, <1>8, <1>9, Zenon

LEMMA AppendFacts ==
  ASSUME NEW S, NEW s \in Seq(S), NEW m \in S, m \notin Elements(s), Distinct(s)
  PROVE  /\ Append(s, m) \in Seq(S) /\ Distinct(Append(s, m))
         /\ Elements(Append(s, m)) = Elements(s) \cup {m}
<1>1. /\ Append(s, m) \in Seq(S) /\ Len(s) \in Nat /\ DOMAIN s = 1 .. Len(s)
      /\ DOMAIN Append(s, m) = 1 .. (Len(s) + 1) /\ Append(s, m)[Len(s) + 1] = m
      /\ \A i \in 1 .. Len(s) : Append(s, m)[i] = s[i]
  OBVIOUS
<1>2. PICK n, t : n \in Nat /\ n = Len(s) /\ t = Append(s, m)
  BY <1>1, Zenon
<1>3. \A i \in 1 .. (n + 1) : i \in 1 .. n \/ i = n + 1
  BY <1>2
<1>4. \A i \in 1 .. n : i \in 1 .. (n + 1)
  BY <1>2
<1>5. n + 1 \in 1 .. (n + 1)
  BY <1>2
<1>6. Distinct(t)
  <2> SUFFICES ASSUME NEW i \in 1 .. (n + 1), NEW j \in 1 .. (n + 1), t[i] = t[j] PROVE i = j
    BY <1>1, <1>2, Zenon DEF Distinct
  <2>1. CASE i \in 1 .. n /\ j \in 1 .. n
    BY <1>1, <1>2, <2>1, Zenon DEF Distinct
  <2>2. CASE i = n + 1 /\ j \in 1 .. n
    BY <1>1, <1>2, <2>2, Zenon DEF Elements
  <2>3. CASE i \in 1 .. n /\ j = n + 1
    BY <1>1, <1>2, <2>3, Zenon DEF Elements
  <2> QED BY <1>3, <2>1, <2>2, <2>3, Zenon
<1>7. Elements(t) = Elements(s) \cup {m}
  BY <1>1, <1>2, <1>3, <1>4, <1>5, Zenon DEF Elements
<1> QED BY <1>1, <1>2, <1>6, <1>7, Zenon

LEMMA QueuedElements == \A q : Queued(q) = Elements(queue[q])
  BY Zenon DEF Queued, Elements

-----------------------------------------------------------------------------
(* Types *)

LEMMA Names ==
  /\ NoQueue \notin Ids /\ NoQueue \notin TopicIds /\ NoQueue[1] = None /\ TopicIds \subseteq Ids
  /\ \A p \in Priorities : <<p, None>> \in Ids /\ <<p, None>>[1] = p /\ <<p, None>> \notin TopicIds
  /\ \A t \in Topics, m \in Messages : <<t, m>> \in TopicIds /\ <<t, m>>[1] = t
  /\ \A q \in Ids : q[1] \in Priorities \cup Topics
  /\ \A q \in Ids : q \in TopicIds <=> q[1] \in Topics
  /\ \A q \in Ids : q[1] \in Priorities => q = <<q[1], None>>
  /\ None \notin Priorities \cup Topics \cup Messages /\ Topics \cap Priorities = {}
<1>1. None \notin Priorities \cup Topics \cup Messages /\ Topics \cap Priorities = {}
  BY BusAssumption, Zenon
<1> HIDE DEF Priorities
<1>2. /\ NoQueue[1] = None /\ \A t \in Topics, m \in Messages : <<t, m>> \in TopicIds /\ <<t, m>>[1] = t
  BY DEF NoQueue, TopicIds
<1>3. \A p \in Priorities : <<p, None>> \in Ids /\ <<p, None>>[1] = p
  BY DEF Ids
<1>4. \A q \in TopicIds : q[1] \in Topics
  BY DEF TopicIds
<1>5. \A q \in Priorities \X {None} : q[1] \in Priorities /\ q = <<q[1], None>>
  OBVIOUS
<1> QED BY <1>1, <1>2, <1>3, <1>4, <1>5, Zenon DEF Ids, TopicIds


LEMMA UpdateType ==
  ASSUME NEW S, NEW T, NEW f \in [S -> T], NEW x \in S, NEW v \in T
  PROVE  /\ [f EXCEPT ![x] = v] \in [S -> T] /\ [f EXCEPT ![x] = v][x] = v
         /\ \A y \in S : y # x => [f EXCEPT ![x] = v][y] = f[y]
  BY Zenon

LEMMA PublisherTypeNext ==
  ASSUME PublisherType, WorkerType, RouteInv, RoundInv, PlaceInv, [Next]_vars
  PROVE  PublisherType'
<1> DEFINE Labels == {"new", "lookup", "create", "count", "counting", "enqueue", "nil", "error"}
<1>1. CASE UNCHANGED <<route, queue, topicQueues, pub, target, processed>>
  BY <1>1, Zenon DEF PublisherType
<1>2. ASSUME NEW m \in Messages, NEW l \in Labels, Step(m, l), UNCHANGED <<route, queue, topicQueues, processed>>,
             DOMAIN target' = Messages
      PROVE  PublisherType'
  BY <1>2, Zenon DEF PublisherType, Step
<1>3. ASSUME NEW m \in Messages, PublishCheck(m) \/ Lookup(m) \/ CountBegin(m) \/ CountEnd(m)
      PROVE  PublisherType'
  <2>1. UNCHANGED <<route, queue, topicQueues, processed>> /\ DOMAIN target' = Messages
    BY <1>3, Zenon DEF PublishCheck, Lookup, CountBegin, CountEnd, bus, worker, PublisherType
  <2>2. \E l \in Labels : Step(m, l)
    BY <1>3, Zenon DEF PublishCheck, Lookup, CountBegin, CountEnd
  <2> QED BY <2>1, <2>2, <1>2, Zenon
<1>4. ASSUME NEW m \in Messages, Create(m) PROVE PublisherType'
  <2> PICK t \in Topics : t = route[m] /\ <<t, m>> \in TopicIds /\ <<t, m>>[1] = t
    BY <1>4, Names, Zenon DEF Create, RouteInv
  <2> PICK q : q = <<t, m>>
    BY Zenon
  <2>1. /\ UNCHANGED <<route, queue, processed>> /\ Step(m, "count") /\ DOMAIN target' = Messages
        /\ topicQueues' = [topicQueues EXCEPT ![t] = IF @ = NoQueue THEN q ELSE @]
    BY <1>4, Zenon DEF Create, bus, worker, PublisherType
  <2>2. /\ topicQueues' \in [Topics -> TopicIds \cup {NoQueue}]
        /\ \A u \in Topics : topicQueues'[u] # NoQueue => topicQueues'[u][1] = u
    BY <2>1, Zenon DEF PublisherType
  <2> QED BY <2>1, <2>2, Zenon DEF PublisherType, Step
<1>5. ASSUME NEW m \in Messages, Enqueue(m) PROVE PublisherType'
  <2>0. target[m] \in Ids /\ queue[target[m]] \in Seq(Messages) /\ queue \in [Ids -> Seq(Messages)]
    BY <1>5, Zenon DEF Enqueue, RouteInv, PublisherType
  <2>1. \A s \in Seq(Messages) : Append(s, m) \in Seq(Messages)
    OBVIOUS
  <2> PICK q \in Ids, s \in Seq(Messages) : q = target[m] /\ s = Append(queue[target[m]], m)
    BY <2>0, <2>1, Zenon
  <2>2. /\ UNCHANGED <<route, topicQueues, target, processed>>
        /\ \E l \in Labels : Step(m, l)
        /\ queue' \in {queue, [queue EXCEPT ![q] = s]}
    BY <1>5, Zenon DEF Enqueue, bus, worker
  <2>3. queue' \in [Ids -> Seq(Messages)]
    <3>1. [queue EXCEPT ![q] = s] \in [Ids -> Seq(Messages)]
      BY <2>0, UpdateType, Zenon
    <3> QED BY <2>0, <2>2, <3>1, Zenon
  <2>4. pub' \in [Messages -> Labels]
    BY <2>2, Zenon DEF PublisherType, Step
  <2> QED BY <2>2, <2>3, <2>4, Zenon DEF PublisherType
<1>6. ASSUME NEW w \in Workers, Dequeue(w) PROVE PublisherType'
  <2>1. /\ at[w] \in Ids /\ queue[at[w]] # <<>>
        /\ UNCHANGED <<route, topicQueues, pub, target, processed>>
        /\ queue' = [queue EXCEPT ![at[w]] = Tail(@)]
    BY <1>6, Zenon DEF Dequeue, More, bus, publisher, RoundInv, Round
  <2>2. \A s \in Seq(Messages) : s # <<>> => Tail(s) \in Seq(Messages)
    OBVIOUS
  <2>3. PICK q \in Ids, r \in Seq(Messages) : q = at[w] /\ r = Tail(queue[at[w]]) /\ queue \in [Ids -> Seq(Messages)]
    BY <2>1, <2>2, Zenon DEF PublisherType
  <2>4. queue' = [queue EXCEPT ![q] = r]
    BY <2>1, <2>3, Zenon
  <2>5. queue' \in [Ids -> Seq(Messages)]
    BY <2>3, <2>4
  <2> QED BY <2>1, <2>5, Zenon DEF PublisherType
<1>7. ASSUME NEW w \in Workers, Process(w) PROVE PublisherType'
  <2> PICK m : m = item[w]
    BY Zenon
  <2>1. /\ m \in Messages /\ processed[m] = 0
        /\ UNCHANGED <<route, queue, topicQueues, pub, target>>
        /\ processed' = [processed EXCEPT ![m] = @ + 1]
    BY <1>7, Zenon DEF Process, bus, publisher, WorkerType, PlaceInv, InHand, Waiting
  <2>2. processed' \in [Messages -> {0, 1}]
    <3>1. 0 + 1 = 1
      OBVIOUS
    <3> QED BY <2>1, <3>1, Zenon DEF PublisherType
  <2> QED BY <2>1, <2>2, Zenon DEF PublisherType
<1>8. ASSUME NEW w \in Workers, Quit(w) \/ Wake(w) \/ NextQueue(w)
      PROVE  UNCHANGED <<route, queue, topicQueues, pub, target, processed>>
  BY <1>8, Zenon DEF Quit, Wake, NextQueue, bus, publisher
<1>9. ASSUME Start \/ Stop \/ StopWait \/ UNCHANGED vars
      PROVE  UNCHANGED <<route, queue, topicQueues, pub, target, processed>>
  BY <1>9, Zenon DEF Start, Stop, StopWait, vars, bus, publisher, worker
<1> QED BY <1>1, <1>3, <1>4, <1>5, <1>6, <1>7, <1>8, <1>9, Zenon DEF Next

LEMMA WorkerTypeNext ==
  ASSUME PublisherType, WorkerType, RoundInv, [Next]_vars
  PROVE  WorkerType'
<1>1. CASE UNCHANGED <<pc, at, left, count, since, item>>
  BY <1>1, Zenon DEF WorkerType
<1>2. ASSUME NEW w \in Workers, Dequeue(w) PROVE WorkerType'
  <2>1. /\ at[w] \in Ids /\ queue[at[w]] \in Seq(Messages) /\ queue[at[w]] # <<>>
        /\ item' = [item EXCEPT ![w] = Head(queue[at[w]])] /\ UNCHANGED <<at, left>>
        /\ pc' = [pc EXCEPT ![w] = "process"] /\ count' = [count EXCEPT ![w] = @ + 1]
        /\ since' \in {since, [since EXCEPT ![w] = @ + 1]}
    BY <1>2, Zenon DEF Dequeue, More, PublisherType, WorkerType, RoundInv, Round
  <2> PICK m \in Messages, n \in Nat, k \in Nat :
        m = Head(queue[at[w]]) /\ n = count[w] + 1 /\ k = since[w] + 1
    BY <2>1 DEF WorkerType
  <2>2. /\ item' = [item EXCEPT ![w] = m] /\ count' = [count EXCEPT ![w] = n]
        /\ since' \in {since, [since EXCEPT ![w] = k]}
    BY <2>1, Zenon
  <2>3. item' \in [Workers -> Messages \cup {None}] /\ count' \in [Workers -> Nat] /\ since' \in [Workers -> Nat]
    BY <2>2 DEF WorkerType
  <2> QED BY <2>1, <2>3, Zenon DEF WorkerType
<1>3. ASSUME NEW w \in Workers, Process(w) \/ Quit(w) \/ Wake(w) PROVE WorkerType'
  <2>1. High \in Ids
    BY Names, Zenon DEF High, Priorities
  <2>2. 0 \in Nat
    OBVIOUS
  <2>3. UNCHANGED <<left, since>> /\ item' \in {item, [item EXCEPT ![w] = None]}
    BY <1>3, Zenon DEF Process, Quit, Wake
  <2>4. count' \in {count, [count EXCEPT ![w] = 0]} /\ at' \in {at, [at EXCEPT ![w] = High]}
    BY <1>3, Zenon DEF Process, Quit, Wake, High
  <2>5. \E l \in {"off", "select", "batch", "process", "done"} : pc' = [pc EXCEPT ![w] = l]
    BY <1>3, Zenon DEF Process, Quit, Wake
  <2>6. /\ item' \in [Workers -> Messages \cup {None}] /\ count' \in [Workers -> Nat]
        /\ at' \in [Workers -> Ids \cup {NoQueue}]
    BY <2>1, <2>3, <2>4 DEF WorkerType
  <2> QED BY <2>3, <2>5, <2>6, Zenon DEF WorkerType
<1>4. ASSUME NEW w \in Workers, NextQueue(w) PROVE WorkerType'
  <2>1. High \in Ids /\ \A p \in Priorities : <<p, None>> \in Ids
    BY Names, Zenon DEF High, Priorities
  <2>2. UNCHANGED item /\ count' \in [Workers -> Nat] /\ since' \in [Workers -> Nat]
    <3>1. 0 \in Nat
      OBVIOUS
    <3>2. UNCHANGED item /\ count' = [count EXCEPT ![w] = 0] /\ since' \in {since, [since EXCEPT ![w] = 0]}
      BY <1>4, Zenon DEF NextQueue, WorkerType
    <3> QED BY <3>2 DEF WorkerType
  <2>3. pc' \in [Workers -> {"off", "select", "batch", "process", "done"}]
    BY <1>4, Zenon DEF NextQueue, EndBatch, WorkerType
  <2>4. left' \in [Workers -> SUBSET TopicIds]
    <3>0. \A t \in Topics : topicQueues[t] \in TopicIds \cup {NoQueue}
      BY Zenon DEF PublisherType
    <3>1. \A q \in {topicQueues[t] : t \in Topics} \ {NoQueue} : q \in TopicIds
      BY <3>0, Zenon
    <3>2. PICK S \in SUBSET TopicIds : S = {topicQueues[t] : t \in Topics} \ {NoQueue}
      BY <3>1, Zenon
    <3>3. PICK R \in SUBSET TopicIds : R = left[w] \ {at[w]}
      BY Zenon DEF WorkerType
    <3>4. left' \in {left, [left EXCEPT ![w] = S], [left EXCEPT ![w] = R]}
      BY <1>4, <3>2, <3>3, Zenon DEF NextQueue
    <3> QED BY <3>4 DEF WorkerType
  <2>5. at' \in [Workers -> Ids \cup {NoQueue}]
    <3>1. \A q \in left'[w] : q \in Ids
      BY <2>4, Names, Zenon
    <3>2. \E q \in Ids : at' = [at EXCEPT ![w] = q]
      BY <1>4, <2>1, <3>1, Zenon DEF NextQueue, EndBatch, High, Priorities
    <3> QED BY <3>2, Zenon DEF WorkerType
  <2> QED BY <2>2, <2>3, <2>4, <2>5, Zenon DEF WorkerType
<1>5. ASSUME Start PROVE WorkerType'
  BY <1>5, Zenon DEF Start, WorkerType
<1>6. ASSUME \/ Stop \/ StopWait \/ UNCHANGED vars
             \/ \E m \in Messages :
                  PublishCheck(m) \/ Lookup(m) \/ Create(m) \/ CountBegin(m) \/ CountEnd(m) \/ Enqueue(m)
      PROVE  UNCHANGED <<pc, at, left, count, since, item>>
  BY <1>6, Zenon DEF Stop, StopWait, vars, worker, PublishCheck, Lookup, Create, CountBegin, CountEnd, Enqueue
<1> QED BY <1>1, <1>2, <1>3, <1>4, <1>5, <1>6, Zenon DEF Next


-----------------------------------------------------------------------------
(* The owner *)

LEMMA OwnerNext ==
  ASSUME WorkerType, OwnerInv, [Next]_vars
  PROVE  OwnerInv'
<1>1. CASE Start \/ Stop
  BY <1>1, Zenon DEF Start, Stop, OwnerInv
<1>2. CASE StopWait
  BY <1>2, Zenon DEF StopWait, OwnerInv, worker
<1>3. ASSUME UNCHANGED <<running, owner, pc>> PROVE OwnerInv'
  BY <1>3, Zenon DEF OwnerInv
<1>4. CASE \E m \in Messages :
             PublishCheck(m) \/ Lookup(m) \/ Create(m) \/ CountBegin(m) \/ CountEnd(m) \/ Enqueue(m)
  BY <1>3, <1>4, Zenon DEF PublishCheck, Lookup, Create, CountBegin, CountEnd, Enqueue, bus, worker
<1>5. CASE \E w \in Workers : Quit(w) \/ Wake(w) \/ Dequeue(w) \/ Process(w) \/ NextQueue(w)
  <2>1. /\ UNCHANGED <<running, owner>>
        /\ \E w \in Workers : pc[w] \in {"select", "batch", "process"}
    BY <1>5, Zenon DEF Quit, Wake, Dequeue, Process, NextQueue, bus
  <2> QED BY <2>1, Zenon DEF OwnerInv
<1> QED BY <1>1, <1>2, <1>3, <1>4, <1>5, Zenon DEF Next, vars, bus, worker

-----------------------------------------------------------------------------
(* One place for every accepted message *)

LEMMA QueuedMessages ==
  ASSUME queue \in [Ids -> Seq(Messages)], NEW q \in Ids
  PROVE  Queued(q) \subseteq Messages /\ queue[q] \in Seq(Messages)
<1>1. \A s \in Seq(Messages) : \A i \in DOMAIN s : s[i] \in Messages
  OBVIOUS
<1> QED BY <1>1, Zenon DEF Queued

\* A publisher's step that does not accept its message.
LEMMA PlacePublish ==
  ASSUME PublisherType, WorkerType, PlaceInv, NEW m \in Messages, NEW l, l # "nil", pub[m] # "nil", Step(m, l),
         UNCHANGED <<queue, pc, item, processed>>
  PROVE  PlaceInv'
<1>1. \A q : Queued(q)' = Queued(q) /\ queue'[q] = queue[q]
  BY Zenon DEF Queued
<1>2. \A x \in Messages : pub'[x] = "nil" <=> pub[x] = "nil"
  BY Zenon DEF PublisherType, Step
<1>3. \A x \in Messages : Waiting(x)' <=> Waiting(x)
  BY <1>2, Zenon DEF Waiting
<1>4. \A q \in Ids : Queued(q) \subseteq Messages
  BY QueuedMessages, Zenon DEF PublisherType
<1>5. \A w \in Workers : item[w] # None => item[w] \in Messages
  BY Zenon DEF WorkerType
<1>6. QueuesApart'
  BY <1>1, Zenon DEF PlaceInv, QueuesApart
<1>7. InQueue'
  BY <1>1, <1>3, <1>4, Zenon DEF PlaceInv, InQueue
<1>8. InHand'
  BY <1>3, <1>5, Zenon DEF PlaceInv, InHand
<1>9. Somewhere'
  BY <1>1, <1>2, <1>3, Zenon DEF PlaceInv, Somewhere
<1> QED BY <1>6, <1>7, <1>8, <1>9, Zenon DEF PlaceInv

\* A worker's step between two messages, and Start.
LEMMA PlaceMove ==
  ASSUME PlaceInv, UNCHANGED <<queue, pub, item, processed>>,
         \A w \in Workers : pc'[w] = "process" <=> pc[w] = "process"
  PROVE  PlaceInv'
<1>1. \A q : Queued(q)' = Queued(q) /\ queue'[q] = queue[q]
  BY Zenon DEF Queued
<1>2. \A m : Waiting(m)' = Waiting(m)
  BY Zenon DEF Waiting
<1>3. QueuesApart'
  BY <1>1, Zenon DEF PlaceInv, QueuesApart
<1>4. InQueue'
  BY <1>1, <1>2, Zenon DEF PlaceInv, InQueue
<1>5. InHand'
  BY <1>2, Zenon DEF PlaceInv, InHand
<1>6. Somewhere'
  BY <1>1, <1>2, Zenon DEF PlaceInv, Somewhere
<1> QED BY <1>3, <1>4, <1>5, <1>6, Zenon DEF PlaceInv

\* A message is accepted: it was nowhere, and is in one queue.
LEMMA PlaceAccept ==
  ASSUME PublisherType, WorkerType, PlaceInv, NEW m \in Messages, NEW q \in Ids,
         pub[m] # "nil", Step(m, "nil"), queue' = [queue EXCEPT ![q] = Append(@, m)],
         UNCHANGED <<pc, item, processed>>
  PROVE  PlaceInv'
<1>0. ~Waiting(m) /\ m # None
  BY Names, Zenon DEF Waiting
<1>a. \A r \in Ids : m \notin Queued(r) /\ Queued(r) \subseteq Messages
  BY <1>0, QueuedMessages, Zenon DEF PlaceInv, InQueue, PublisherType
<1>b. \A w \in Workers : item[w] # m /\ (item[w] # None => item[w] \in Messages)
  BY <1>0, Zenon DEF PlaceInv, InHand, WorkerType
<1>1. /\ \A r \in Ids : m \notin Queued(r) /\ Queued(r) \subseteq Messages
      /\ \A w \in Workers : item[w] # m /\ (item[w] # None => item[w] \in Messages)
  BY <1>a, <1>b, Zenon
<1>2. processed[m] = 0
  BY Zenon DEF PlaceInv, Somewhere
<1>3. /\ \A r \in Ids : r # q => queue'[r] = queue[r]
      /\ queue'[q] = Append(queue[q], m)
  BY Zenon DEF PublisherType
<1>4. queue[q] \in Seq(Messages) /\ Distinct(queue[q]) /\ m \notin Elements(queue[q])
  BY <1>1, QueuedElements, Zenon DEF PlaceInv, QueuesApart, PublisherType
<1>5. Distinct(queue'[q]) /\ Elements(queue'[q]) = Elements(queue[q]) \cup {m}
  BY <1>3, <1>4, AppendFacts
<1>6. /\ Queued(q)' = Queued(q) \cup {m}
      /\ \A r \in Ids : r # q => Queued(r)' = Queued(r)
  BY <1>3, <1>5 DEF Queued, Elements
<1>7. /\ Waiting(m)' /\ ~Waiting(m)
      /\ \A x \in Messages : x # m => Waiting(x)' = Waiting(x)
  BY <1>2, Zenon DEF Waiting, Step, PublisherType
<1>8. QueuesApart'
  BY <1>1, <1>3, <1>5, <1>6 DEF PlaceInv, QueuesApart
<1>9. InQueue'
  BY <1>1, <1>6, <1>7, Zenon DEF PlaceInv, InQueue
<1>10. InHand'
  BY <1>1, <1>7, Zenon DEF PlaceInv, InHand
<1>11. Somewhere'
  <2>1. \A x \in Messages : x # m => pub'[x] = pub[x]
    BY Zenon DEF Step, PublisherType
  <2>2. \A x \in Messages : pub'[x] # "nil" => processed'[x] = 0
    BY <2>1, <1>2, Zenon DEF PlaceInv, Somewhere
  <2>3. \A r \in Ids : \A x \in Queued(r) : x \in Queued(r)'
    BY <1>6, Zenon
  <2>4. m \in Queued(q)'
    BY <1>6, Zenon
  <2>5. ASSUME NEW x \in Messages, Waiting(x)', x # m
        PROVE  (\E w \in Workers : item'[w] = x) \/ (\E r \in Ids : x \in Queued(r)')
    <3>1. Waiting(x)
      BY <2>5, <1>7, Zenon
    <3> QED BY <3>1, <2>3, Zenon DEF PlaceInv, Somewhere
  <2> QED BY <2>2, <2>4, <2>5, Zenon DEF Somewhere
<1> QED BY <1>8, <1>9, <1>10, <1>11, Zenon DEF PlaceInv

\* A worker takes the first message of a queue.
LEMMA PlaceTake ==
  ASSUME PublisherType, WorkerType, PlaceInv, NEW w \in Workers, NEW q \in Ids,
         queue[q] # <<>>, pc[w] # "process", pc' = [pc EXCEPT ![w] = "process"],
         item' = [item EXCEPT ![w] = Head(queue[q])], queue' = [queue EXCEPT ![q] = Tail(@)],
         UNCHANGED <<pub, processed>>
  PROVE  PlaceInv'
<1>1. queue[q] \in Seq(Messages) /\ Distinct(queue[q])
  BY Zenon DEF PlaceInv, QueuesApart, PublisherType
<1>2. /\ Head(queue[q]) \in Messages /\ Head(queue[q]) \in Elements(queue[q])
      /\ Distinct(Tail(queue[q])) /\ Elements(Tail(queue[q])) = Elements(queue[q]) \ {Head(queue[q])}
  BY <1>1, TailFacts, Zenon
<1>3. PICK m \in Messages : m = Head(queue[q])
  BY <1>2, Zenon
<1>4. /\ \A r \in Ids : r # q => queue'[r] = queue[r]
      /\ queue'[q] = Tail(queue[q])
  BY Zenon DEF PublisherType
<1>5. /\ Queued(q)' = Queued(q) \ {m} /\ m \in Queued(q) /\ Distinct(queue'[q])
      /\ \A r \in Ids : r # q => Queued(r)' = Queued(r)
  <2>1. Queued(q) = Elements(queue[q]) /\ Queued(q)' = Elements(queue'[q])
    BY Zenon DEF Queued, Elements
  <2>2. \A r \in Ids : r # q => Queued(r)' = Queued(r)
    BY <1>4, Zenon DEF Queued
  <2>3. Distinct(queue'[q]) /\ Elements(queue'[q]) = Elements(queue[q]) \ {m} /\ m \in Elements(queue[q])
    BY <1>2, <1>3, <1>4, Zenon
  <2> QED BY <2>1, <2>2, <2>3, Zenon
<1>6. /\ item[w] = None /\ m # None /\ item'[w] = m
      /\ \A v \in Workers : v # w => item'[v] = item[v] /\ pc'[v] = pc[v]
      /\ pc'[w] = "process"
  BY <1>3, Names DEF PlaceInv, InHand, WorkerType
<1>7. \A x : Waiting(x)' = Waiting(x)
  BY Zenon DEF Waiting
<1>8. /\ Waiting(m) /\ \A v \in Workers : item[v] # m
      /\ \A r \in Ids : r # q => m \notin Queued(r)
  BY <1>5, Zenon DEF PlaceInv, InQueue, QueuesApart
<1>9. QueuesApart'
  BY <1>4, <1>5, Zenon DEF PlaceInv, QueuesApart
<1>10. InQueue'
  BY <1>5, <1>6, <1>7, <1>8 DEF PlaceInv, InQueue
<1>11. InHand'
  BY <1>6, <1>7, <1>8 DEF PlaceInv, InHand
<1>12. Somewhere'
  <2>1. \A x \in Messages : pub'[x] # "nil" => processed'[x] = 0
    BY Zenon DEF PlaceInv, Somewhere
  <2>2. ASSUME NEW x \in Messages, Waiting(x)', x # m
        PROVE  (\E v \in Workers : item'[v] = x) \/ (\E r \in Ids : x \in Queued(r)')
    <3>1. CASE \E v \in Workers : item[v] = x
      <4>1. x # None
        BY Names, Zenon
      <4> QED BY <3>1, <4>1, <1>6, Zenon
    <3>2. CASE \E r \in Ids : x \in Queued(r)
      BY <3>2, <2>2, <1>5, Zenon
    <3> QED BY <3>1, <3>2, <2>2, <1>7, Zenon DEF PlaceInv, Somewhere
  <2> QED BY <2>1, <2>2, <1>6, Zenon DEF Somewhere
<1> QED BY <1>9, <1>10, <1>11, <1>12, Zenon DEF PlaceInv

\* A worker is done with the message in its hand.
LEMMA PlaceDone ==
  ASSUME PublisherType, WorkerType, PlaceInv, NEW w \in Workers, pc[w] = "process",
         pc' = [pc EXCEPT ![w] = "batch"], item' = [item EXCEPT ![w] = None],
         processed' = [processed EXCEPT ![item[w]] = @ + 1], UNCHANGED <<queue, pub>>
  PROVE  PlaceInv'
<1>1. PICK m \in Messages : m = item[w] /\ Waiting(m)
  BY Zenon DEF PlaceInv, InHand, WorkerType
<1>2. /\ item'[w] = None /\ pc'[w] = "batch"
      /\ \A v \in Workers : v # w => item'[v] = item[v] /\ pc'[v] = pc[v]
  BY Zenon DEF WorkerType
<1>3. \A q : Queued(q)' = Queued(q) /\ queue'[q] = queue[q]
  BY Zenon DEF Queued
<1>4. \A x \in Messages : x # m => processed'[x] = processed[x] /\ Waiting(x)' = Waiting(x)
  BY <1>1, Zenon DEF Waiting, PublisherType
<1>5. ~Waiting(m)'
  <2>1. processed'[m] = 0 + 1
    BY <1>1, Zenon DEF PublisherType, Waiting
  <2> QED BY <2>1 DEF Waiting
<1>6. /\ \A q \in Ids : m \notin Queued(q) /\ Queued(q) \subseteq Messages
      /\ \A v \in Workers : v # w => item[v] # m
  <2>1. m # None
    BY Names, Zenon
  <2> QED BY <1>1, <2>1, QueuedMessages, Zenon DEF PlaceInv, InQueue, InHand, PublisherType
<1>7. QueuesApart'
  BY <1>3, Zenon DEF PlaceInv, QueuesApart
<1>8. InQueue'
  <2> SUFFICES ASSUME NEW q \in Ids, NEW x \in Queued(q)
               PROVE  Waiting(x)' /\ \A v \in Workers : item'[v] # x
    BY <1>3, Zenon DEF InQueue
  <2>1. x \in Messages /\ x # m /\ x # None /\ Waiting(x) /\ \A v \in Workers : item[v] # x
    BY <1>6, Names DEF PlaceInv, InQueue
  <2> QED BY <2>1, <1>2, <1>4, Zenon
<1>9. InHand'
  <2>1. \A v \in Workers : item'[v] # None => v # w /\ item[v] # None /\ item[v] \in Messages /\ item[v] # m
    BY <1>2, <1>6, Zenon DEF WorkerType
  <2>2. \A v \in Workers : item'[v] # None => Waiting(item[v])' /\ item'[v] = item[v]
    BY <2>1, <1>2, <1>4, Zenon DEF PlaceInv, InHand
  <2>3. \A v \in Workers : item'[v] # None <=> pc'[v] = "process"
    BY <1>2, Zenon DEF PlaceInv, InHand
  <2>4. \A v, u \in Workers : v # u /\ item'[v] # None => item'[v] # item'[u]
    BY <1>2 DEF PlaceInv, InHand
  <2>5. \A v \in Workers : item'[v] # None => Waiting(item[v])'
    BY <2>2, Zenon
  <2>6. \A v \in Workers : item'[v] # None => pub'[item'[v]] = "nil" /\ processed'[item'[v]] = 0
    BY <2>2, Zenon DEF Waiting
  <2> QED BY <2>3, <2>4, <2>6, Zenon DEF InHand, Waiting
<1>10. Somewhere'
  <2>1. \A x \in Messages : pub'[x] # "nil" => processed'[x] = 0
    BY <1>1, <1>4, Zenon DEF PlaceInv, Somewhere, Waiting
  <2>2. ASSUME NEW x \in Messages, Waiting(x)'
        PROVE  (\E v \in Workers : item'[v] = x) \/ (\E r \in Ids : x \in Queued(r)')
    <3>1. x # m /\ Waiting(x)
      BY <2>2, <1>4, <1>5, Zenon
    <3>2. CASE \E v \in Workers : item[v] = x
      BY <3>1, <3>2, <1>1, <1>2, Zenon
    <3>3. CASE \E r \in Ids : x \in Queued(r)
      BY <3>3, <1>3, Zenon
    <3> QED BY <3>1, <3>2, <3>3, Zenon DEF PlaceInv, Somewhere
  <2> QED BY <2>1, <2>2, Zenon DEF Somewhere
<1> QED BY <1>7, <1>8, <1>9, <1>10, Zenon DEF PlaceInv

LEMMA PlaceNext ==
  ASSUME PublisherType, WorkerType, OwnerInv, RouteInv, RoundInv, PlaceInv, [Next]_vars
  PROVE  PlaceInv'
<1>1. ASSUME NEW m \in Messages, \/ PublishCheck(m) \/ Lookup(m) \/ Create(m) \/ CountBegin(m) \/ CountEnd(m)
                                 \/ Enqueue(m) /\ Full(target[m])
      PROVE  PlaceInv'
  <2>1. pub[m] # "nil" /\ UNCHANGED <<queue, pc, item, processed>>
    BY <1>1, Zenon DEF PublishCheck, Lookup, Create, CountBegin, CountEnd, Enqueue, worker
  <2>2. \E l \in {"error", "lookup", "enqueue", "create", "count", "counting"} : Step(m, l)
    BY <1>1, Zenon DEF PublishCheck, Lookup, Create, CountBegin, CountEnd, Enqueue
  <2>3. \A l \in {"error", "lookup", "enqueue", "create", "count", "counting"} : l # "nil"
    OBVIOUS
  <2> QED BY <2>1, <2>2, <2>3, PlacePublish, Zenon
<1>2. ASSUME NEW m \in Messages, Enqueue(m), ~Full(target[m]) PROVE PlaceInv'
  <2>1. /\ pub[m] # "nil" /\ Step(m, "nil") /\ UNCHANGED <<pc, item, processed>> /\ target[m] \in Ids
        /\ queue' = [queue EXCEPT ![target[m]] = Append(@, m)]
    BY <1>2, Zenon DEF Enqueue, worker, RouteInv
  <2> QED BY <2>1, PlaceAccept, Zenon
<1>3. ASSUME NEW w \in Workers, Dequeue(w) PROVE PlaceInv'
  <2>1. /\ at[w] \in Ids /\ queue[at[w]] # <<>> /\ pc[w] # "process" /\ pc' = [pc EXCEPT ![w] = "process"]
        /\ item' = [item EXCEPT ![w] = Head(queue[at[w]])] /\ queue' = [queue EXCEPT ![at[w]] = Tail(@)]
        /\ UNCHANGED <<pub, processed>>
    BY <1>3, Zenon DEF Dequeue, More, publisher, RoundInv, Round
  <2> QED BY <2>1, PlaceTake, Zenon
<1>4. ASSUME NEW w \in Workers, Process(w) PROVE PlaceInv'
  BY <1>4, PlaceDone, Zenon DEF Process, publisher
<1>5. ASSUME NEW w \in Workers, Quit(w) \/ Wake(w) \/ NextQueue(w) PROVE PlaceInv'
  <2>1. UNCHANGED <<queue, pub, item, processed>> /\ pc[w] # "process"
    BY <1>5, Zenon DEF Quit, Wake, NextQueue, publisher
  <2>2. \E l \in {"done", "batch", "select"} : pc' = [pc EXCEPT ![w] = l]
    BY <1>5, Zenon DEF Quit, Wake, NextQueue, EndBatch, WorkerType
  <2>3. \A v \in Workers : pc'[v] = "process" <=> pc[v] = "process"
    BY <2>1, <2>2, Zenon DEF WorkerType
  <2> QED BY <2>1, <2>3, PlaceMove, Zenon
<1>6. CASE Start
  BY <1>6, PlaceMove, Zenon DEF Start, OwnerInv, publisher
<1>7. CASE Stop \/ StopWait \/ UNCHANGED vars
  BY <1>7, PlaceMove, Zenon DEF Stop, StopWait, vars, publisher, worker
<1> QED BY <1>1, <1>2, <1>3, <1>4, <1>5, <1>6, <1>7, Zenon DEF Next

-----------------------------------------------------------------------------
(* The queues the workers visit *)

\* Only Create changes the map, and it does not replace a queue.
LEMMA VisitedStays ==
  ASSUME PublisherType, RouteInv, [Next]_vars, NEW q \in Ids, Visited(q)
  PROVE  Visited(q)'
<1>1. CASE UNCHANGED topicQueues
  BY <1>1, Zenon DEF Visited
<1>2. ASSUME NEW m \in Messages, Create(m) PROVE Visited(q)'
  <2>1. CASE q[1] \in Priorities
    BY <2>1, Zenon DEF Visited
  <2>2. CASE q[1] \notin Priorities
    <3>1. q[1] \in Topics /\ topicQueues[q[1]] = q /\ q # NoQueue
      BY <2>2, Names, Zenon DEF Visited
    <3>2. PICK t : t = route[m] /\ topicQueues' = [topicQueues EXCEPT ![t] = IF @ = NoQueue THEN <<t, m>> ELSE @]
      BY <1>2, Zenon DEF Create
    <3>3. topicQueues'[q[1]] = q
      BY <3>1, <3>2, Zenon DEF PublisherType
    <3> QED BY <3>3, Zenon DEF Visited
  <2> QED BY <2>1, <2>2, Zenon
<1>3. CASE \E m \in Messages : PublishCheck(m) \/ Lookup(m) \/ CountBegin(m) \/ CountEnd(m) \/ Enqueue(m)
  BY <1>1, <1>3, Zenon DEF PublishCheck, Lookup, CountBegin, CountEnd, Enqueue
<1>4. CASE \E w \in Workers : Quit(w) \/ Wake(w) \/ Dequeue(w) \/ Process(w) \/ NextQueue(w)
  BY <1>1, <1>4, Zenon DEF Quit, Wake, Dequeue, Process, NextQueue, publisher
<1>5. CASE Start \/ Stop \/ StopWait \/ UNCHANGED vars
  BY <1>1, <1>5, Zenon DEF Start, Stop, StopWait, vars, publisher
<1> QED BY <1>2, <1>3, <1>4, <1>5, Zenon DEF Next

\* A publisher's step keeps RouteInv when the queue it holds is one the workers visit.
LEMMA RoutePublish ==
  ASSUME PublisherType, RouteInv, [Next]_vars, NEW m \in Messages, NEW l, Step(m, l), UNCHANGED <<route, queue>>,
         \A x \in Messages : x # m => target'[x] = target[x],
         l \in {"count", "counting", "enqueue"} => (target[m] \in Ids /\ Visited(target[m]))',
         l \in {"lookup", "create"} => route[m] \in Topics
  PROVE  RouteInv'
<1>1. \A q : Queued(q)' = Queued(q)
  BY Zenon DEF Queued
<1>2. pub'[m] = l /\ \A x \in Messages : x # m => pub'[x] = pub[x]
  BY Zenon DEF PublisherType, Step
<1>3. \A q \in Ids : \A x \in Queued(q)' : Visited(q)'
  BY <1>1, VisitedStays, Zenon DEF RouteInv
<1>4. ASSUME NEW x \in Messages, pub'[x] \in {"count", "counting", "enqueue"}
      PROVE  (target[x] \in Ids /\ Visited(target[x]))'
  <2>1. CASE x = m
    BY <2>1, <1>2, <1>4, Zenon
  <2>2. CASE x # m
    <3>1. target[x] \in Ids /\ Visited(target[x]) /\ target'[x] = target[x]
      BY <2>2, <1>2, <1>4, Zenon DEF RouteInv
    <3>3. PICK q \in Ids : q = target[x]
      BY <3>1, Zenon
    <3>4. Visited(q)'
      BY <3>1, <3>3, VisitedStays, Zenon
    <3> QED BY <3>1, <3>3, <3>4, Zenon DEF Visited
  <2> QED BY <2>1, <2>2, Zenon
<1>5. \A x \in Messages : pub'[x] \in {"lookup", "create"} => route'[x] \in Topics
  BY <1>2, Zenon DEF RouteInv
<1> QED BY <1>3, <1>4, <1>5, Zenon DEF RouteInv


\* So does a step that adds to no queue but a visited one.
LEMMA RouteQueues ==
  ASSUME PublisherType, RouteInv, [Next]_vars, UNCHANGED <<route, target>>,
         \A x \in Messages : pub'[x] = pub[x] \/ pub'[x] \in {"nil", "error"},
         \A q \in Ids : \A x \in Queued(q)' : Visited(q)
  PROVE  RouteInv'
<1>1. \A q \in Ids : \A x \in Queued(q)' : Visited(q)'
  BY VisitedStays, Zenon
<1>2. ASSUME NEW x \in Messages, pub'[x] \in {"count", "counting", "enqueue"}
      PROVE  (target[x] \in Ids /\ Visited(target[x]))'
  <2>1. pub[x] \in {"count", "counting", "enqueue"}
    BY <1>2, Zenon
  <2>2. PICK q \in Ids : q = target[x] /\ Visited(q)
    BY <2>1, Zenon DEF RouteInv
  <2>3. Visited(q)'
    BY <2>2, VisitedStays, Zenon
  <2> QED BY <2>2, <2>3, Zenon DEF Visited
<1>3. \A x \in Messages : pub'[x] \in {"lookup", "create"} => route'[x] \in Topics
  BY Zenon DEF RouteInv
<1> QED BY <1>1, <1>2, <1>3, Zenon DEF RouteInv

LEMMA RouteNext ==
  ASSUME PublisherType, WorkerType, PlaceInv, RouteInv, RoundInv, [Next]_vars
  PROVE  RouteInv'
<1>1. ASSUME NEW m \in Messages, PublishCheck(m) PROVE RouteInv'
  <2>1. UNCHANGED <<route, queue>> /\ \A x \in Messages : x # m => target'[x] = target[x]
    BY <1>1, Zenon DEF PublishCheck, bus, PublisherType
  <2>2. CASE Step(m, "error")
    BY <2>1, <2>2, RoutePublish, Zenon
  <2>3. CASE Step(m, "lookup") /\ route[m] \in Topics
    BY <2>1, <2>3, RoutePublish, Zenon
  <2>4. CASE Step(m, "enqueue") /\ route[m] \in Priorities /\ target' = [target EXCEPT ![m] = <<route[m], None>>]
    <3>0. \A p \in Priorities : \E q \in Ids : q = <<p, None>> /\ q[1] = p
      BY Names, Zenon
    <3>1. PICK q \in Ids : q = <<route[m], None>> /\ q[1] \in Priorities
      BY <3>0, <2>4, Zenon
    <3>a. target'[m] = q
      BY <3>1, <2>4, Zenon DEF PublisherType
    <3>2. (target[m] \in Ids /\ Visited(target[m]))'
      BY <3>1, <3>a, Zenon DEF Visited
    <3> QED BY <3>2, <2>1, <2>4, RoutePublish, Zenon
  <2> QED BY <1>1, <2>2, <2>3, <2>4, Zenon DEF PublishCheck
<1>2. ASSUME NEW m \in Messages, Lookup(m) PROVE RouteInv'
  <2>1. /\ UNCHANGED <<route, queue, topicQueues>> /\ \A x \in Messages : x # m => target'[x] = target[x]
        /\ target'[m] = topicQueues[route[m]] /\ route[m] \in Topics
    BY <1>2, Zenon DEF Lookup, bus, PublisherType, RouteInv
  <2>2. CASE topicQueues[route[m]] = NoQueue
    <3>1. Step(m, "create")
      BY <1>2, <2>2, Zenon DEF Lookup
    <3> QED BY <3>1, <2>1, RoutePublish, Zenon
  <2>3. CASE topicQueues[route[m]] # NoQueue
    <3>1. Step(m, "count")
      BY <1>2, <2>3, Zenon DEF Lookup
    <3>2. target'[m] \in TopicIds /\ target'[m][1] = route[m]
      BY <2>1, <2>3, Zenon DEF PublisherType
    <3>3. (target[m] \in Ids /\ Visited(target[m]))'
      BY <3>2, <2>1, Names, Zenon DEF Visited
    <3> QED BY <3>1, <3>3, <2>1, RoutePublish, Zenon
  <2> QED BY <2>2, <2>3, Zenon
<1>3. ASSUME NEW m \in Messages, Create(m) PROVE RouteInv'
  <2>1. /\ UNCHANGED <<route, queue>> /\ \A x \in Messages : x # m => target'[x] = target[x]
        /\ target'[m] = topicQueues'[route[m]] /\ route[m] \in Topics /\ Step(m, "count")
    BY <1>3, Zenon DEF Create, bus, PublisherType, RouteInv
  <2>0. \A t \in Topics : \E q \in TopicIds : q = <<t, m>> /\ q[1] = t
    BY Names, Zenon
  <2>2. PICK t \in Topics, q \in TopicIds : t = route[m] /\ q = <<t, m>> /\ q[1] = t
    BY <2>0, <2>1, Zenon
  <2>3. topicQueues'[t] = IF topicQueues[t] = NoQueue THEN q ELSE topicQueues[t]
    BY <1>3, <2>2, Zenon DEF Create, PublisherType
  <2>4. topicQueues'[t] \in TopicIds /\ topicQueues'[t][1] = t
    BY <2>2, <2>3, Zenon DEF PublisherType
  <2>5. (target[m] \in Ids /\ Visited(target[m]))'
    BY <2>1, <2>2, <2>4, Names, Zenon DEF Visited
  <2> QED BY <2>1, <2>5, RoutePublish, Zenon
<1>4. ASSUME NEW m \in Messages, CountBegin(m) \/ CountEnd(m) PROVE RouteInv'
  <2>1. /\ UNCHANGED <<route, queue, target, topicQueues>> /\ pub[m] \in {"count", "counting"}
        /\ Step(m, "counting") \/ Step(m, "enqueue")
    BY <1>4, Zenon DEF CountBegin, CountEnd, bus
  <2>2. (target[m] \in Ids /\ Visited(target[m]))'
    BY <2>1, Zenon DEF RouteInv, Visited
  <2> QED BY <2>1, <2>2, RoutePublish, Zenon
<1>5. ASSUME NEW m \in Messages, Enqueue(m) PROVE RouteInv'
  <2>0. /\ UNCHANGED <<route, target>>
        /\ \E l \in {"nil", "error"} : Step(m, l)
        /\ queue' \in {queue, [queue EXCEPT ![target[m]] = Append(@, m)]}
    BY <1>5, Zenon DEF Enqueue, bus
  <2>a. \A x \in Messages : pub'[x] = pub[x] \/ pub'[x] \in {"nil", "error"}
    BY <2>0, Zenon DEF PublisherType, Step
  <2>b. target[m] \in Ids /\ Visited(target[m])
    BY <1>5, Zenon DEF Enqueue, RouteInv
  <2>1. /\ UNCHANGED <<route, target>>
        /\ \A x \in Messages : pub'[x] = pub[x] \/ pub'[x] \in {"nil", "error"}
        /\ queue' \in {queue, [queue EXCEPT ![target[m]] = Append(@, m)]}
        /\ target[m] \in Ids /\ Visited(target[m])
    BY <2>0, <2>a, <2>b, Zenon
  <2>c. \A q \in Ids : q # target[m] => queue'[q] = queue[q]
    BY <2>1 DEF PublisherType
  <2>2. \A q \in Ids : q # target[m] => Queued(q)' = Queued(q)
    BY <2>c, Zenon DEF Queued
  <2>3. \A q \in Ids : \A x \in Queued(q)' : Visited(q)
    BY <2>1, <2>2, Zenon DEF RouteInv
  <2> QED BY <2>1, <2>3, RouteQueues, Zenon
<1>6. ASSUME NEW w \in Workers, Dequeue(w) PROVE RouteInv'
  <2>1. /\ UNCHANGED <<route, target, pub>> /\ at[w] \in Ids /\ queue[at[w]] # <<>>
        /\ queue' = [queue EXCEPT ![at[w]] = Tail(@)]
    BY <1>6, Zenon DEF Dequeue, More, bus, publisher, RoundInv, Round
  <2>a. \A q \in Ids : q # at[w] => queue'[q] = queue[q]
    BY <2>1, Zenon DEF PublisherType
  <2>2. \A q \in Ids : q # at[w] => Queued(q)' = Queued(q)
    BY <2>a, Zenon DEF Queued
  <2>3. Queued(at[w]) # {}
    <3>1. \A s \in Seq(Messages) : s # <<>> => 1 \in DOMAIN s
      OBVIOUS
    <3>2. 1 \in DOMAIN queue[at[w]]
      BY <3>1, <2>1, Zenon DEF PublisherType
    <3> QED BY <3>2, Zenon DEF Queued
  <2>4. \A q \in Ids : \A x \in Queued(q)' : Visited(q)
    BY <2>1, <2>2, <2>3, Zenon DEF RouteInv
  <2> QED BY <2>1, <2>4, RouteQueues, Zenon
<1>7. ASSUME UNCHANGED <<route, target, pub, queue>> PROVE RouteInv'
  <2>1. \A q : Queued(q)' = Queued(q)
    BY <1>7, Zenon DEF Queued
  <2>2. \A q \in Ids : \A x \in Queued(q)' : Visited(q)
    BY <2>1, Zenon DEF RouteInv
  <2> QED BY <1>7, <2>2, RouteQueues, Zenon
<1>8. CASE \E w \in Workers : Quit(w) \/ Wake(w) \/ Process(w) \/ NextQueue(w)
  BY <1>7, <1>8, Zenon DEF Quit, Wake, Process, NextQueue, bus, publisher
<1>9. CASE Start \/ Stop \/ StopWait \/ UNCHANGED vars
  BY <1>7, <1>9, Zenon DEF Start, Stop, StopWait, vars, bus, publisher
<1> QED BY <1>1, <1>2, <1>3, <1>4, <1>5, <1>6, <1>8, <1>9, Zenon DEF Next

-----------------------------------------------------------------------------
(* The rounds of the workers *)

LEMMA Limits ==
  /\ \A q : Limit(q) \in Nat \ {0}
  /\ {HighBatch, NormalBatch, LowBatch, TopicBatch} \subseteq Nat \ {0}
  /\ \A q : q[1] = "high" => Limit(q) = HighBatch
  /\ \A q : q[1] = "normal" => Limit(q) = NormalBatch
  /\ \A q : q[1] \in Topics => Limit(q) = TopicBatch
<1>1. {HighBatch, NormalBatch, LowBatch, TopicBatch} \subseteq Nat \ {0} /\ Topics \cap Priorities = {}
  BY BusAssumption, Zenon
<1> QED BY <1>1 DEF Limit, Priorities

\* The queues a worker sees in the map.
LEMMA SeenFinite ==
  ASSUME PublisherType
  PROVE  LET made == {t \in Topics : topicQueues[t] # NoQueue}
             seen == {topicQueues[t] : t \in Topics} \ {NoQueue}
         IN  /\ IsFiniteSet(made) /\ IsFiniteSet(seen) /\ Cardinality(made) \in Nat
             /\ Cardinality(seen) \in Nat /\ Cardinality(seen) <= Cardinality(made)
<1> DEFINE made == {t \in Topics : topicQueues[t] # NoQueue}
           seen == {topicQueues[t] : t \in Topics} \ {NoQueue}
           f == [t \in made |-> topicQueues[t]]
<1>1. IsFiniteSet(made)
  BY BusAssumption, FS_Subset, Zenon
<1>2. f \in Surjection(made, seen)
  BY Zenon DEF Surjection
<1> HIDE DEF made, seen, f
<1>3. IsFiniteSet(seen) /\ Cardinality(seen) <= Cardinality(made)
  BY <1>1, <1>2, FS_Surjection, Zenon
<1>4. Cardinality(seen) \in Nat /\ Cardinality(made) \in Nat
  BY <1>1, <1>3, FS_CardinalityType, Zenon
<1> QED BY <1>1, <1>3, <1>4, Zenon DEF made, seen

\* A step of one worker.
LEMMA RoundStep ==
  ASSUME WorkerType, RoundInv, NEW w \in Workers, Round(w)',
         \A v \in Workers : v # w => /\ pc'[v] = pc[v] /\ at'[v] = at[v] /\ left'[v] = left[v]
                                     /\ count'[v] = count[v]
  PROVE  RoundInv'
<1> SUFFICES ASSUME NEW v \in Workers, v # w PROVE Round(v)'
  BY Zenon DEF RoundInv
<1>1. Round(v)
  BY Zenon DEF RoundInv
<1>2. pc'[v] = pc[v] /\ at'[v] = at[v] /\ left'[v] = left[v] /\ count'[v] = count[v]
  BY Zenon
<1> QED BY <1>1, <1>2, Zenon DEF Round, Limit

LEMMA RoundNext ==
  ASSUME PublisherType, WorkerType, OwnerInv, RoundInv, [Next]_vars
  PROVE  RoundInv'
<1>1. CASE UNCHANGED <<pc, at, left, count>>
  BY <1>1, Zenon DEF RoundInv, Round, Limit
<1>2. CASE Start
  <2>1. UNCHANGED <<at, left, count>> /\ \A w \in Workers : pc'[w] = "select" /\ pc[w] \in {"off", "done"}
    BY <1>2, Zenon DEF Start, OwnerInv
  <2> SUFFICES ASSUME NEW w \in Workers PROVE Round(w)'
    BY Zenon DEF RoundInv
  <2>2. Round(w)
    BY Zenon DEF RoundInv
  <2> QED BY <2>1, <2>2, Zenon DEF Round, Limit
<1>3. ASSUME NEW w \in Workers, Quit(w) PROVE RoundInv'
  <2>1. /\ pc[w] = "select" /\ pc'[w] = "done" /\ UNCHANGED <<at, left, count>>
        /\ \A v \in Workers : v # w => pc'[v] = pc[v]
    BY <1>3, Zenon DEF Quit, WorkerType
  <2>2. Round(w)'
    BY <2>1, Zenon DEF RoundInv, Round, Limit
  <2> QED BY <2>1, <2>2, RoundStep, Zenon
<1>4. ASSUME NEW w \in Workers, Wake(w) PROVE RoundInv'
  <2>1. /\ pc[w] = "select" /\ pc'[w] = "batch" /\ UNCHANGED left
        /\ at'[w] = High /\ count'[w] = 0
        /\ \A v \in Workers : v # w => pc'[v] = pc[v] /\ at'[v] = at[v] /\ count'[v] = count[v]
    BY <1>4, Zenon DEF Wake, WorkerType, High
  <2>2. High \in Ids /\ High \notin TopicIds /\ NoQueue \notin TopicIds
    BY Names, Zenon DEF High, Priorities
  <2>3. left[w] = {} /\ IsFiniteSet(left[w])
    BY <2>1, <2>2, Zenon DEF RoundInv, Round
  <2>4. \A q : 0 <= Limit(q)
    <3>1. \A n \in Nat \ {0} : 0 <= n
      OBVIOUS
    <3> QED BY <3>1, Limits, Zenon
  <2>5. Round(w)'
    BY <2>1, <2>2, <2>3, <2>4, Zenon DEF Round, Limit
  <2> QED BY <2>1, <2>5, RoundStep, Zenon
<1>5. ASSUME NEW w \in Workers, Dequeue(w) PROVE RoundInv'
  <2>1. /\ pc[w] = "batch" /\ pc'[w] = "process" /\ UNCHANGED <<at, left>>
        /\ count'[w] = count[w] + 1 /\ count[w] < Limit(at[w]) /\ count[w] \in Nat
        /\ \A v \in Workers : v # w => pc'[v] = pc[v] /\ count'[v] = count[v]
    BY <1>5, Zenon DEF Dequeue, More, WorkerType
  <2>2. \A n \in Nat, k \in Nat : n < k => n + 1 <= k
    OBVIOUS
  <2>3. count[w] + 1 <= Limit(at[w])
    BY <2>1, <2>2, Limits, Zenon
  <2>4. Round(w)
    BY Zenon DEF RoundInv
  <2>5. Round(w)'
    BY <2>1, <2>3, <2>4, Zenon DEF Round, Limit
  <2> QED BY <2>1, <2>5, RoundStep, Zenon
<1>6. ASSUME NEW w \in Workers, Process(w) PROVE RoundInv'
  <2>1. /\ pc[w] = "process" /\ pc'[w] = "batch" /\ UNCHANGED <<at, left, count>>
        /\ \A v \in Workers : v # w => pc'[v] = pc[v]
    BY <1>6, Zenon DEF Process, WorkerType
  <2>2. Round(w)'
    BY <2>1, Zenon DEF RoundInv, Round, Limit
  <2> QED BY <2>1, <2>2, RoundStep, Zenon
<1>7. ASSUME NEW w \in Workers, NextQueue(w) PROVE RoundInv'
  <2>1. /\ pc[w] = "batch" /\ at[w] \in Ids /\ count'[w] = 0
        /\ \A v \in Workers : v # w => count'[v] = count[v]
    BY <1>7, Zenon DEF NextQueue, WorkerType, RoundInv, Round
  <2>2. \A q : 0 <= Limit(q)
    <3>1. \A n \in Nat \ {0} : 0 <= n
      OBVIOUS
    <3> QED BY <3>1, Limits, Zenon
  <2>3. CASE at[w][1] \in {"high", "normal"}
    <3>1. PICK p \in Priorities : at' = [at EXCEPT ![w] = <<p, None>>] /\ UNCHANGED <<left, pc>>
      BY <1>7, <2>3, Zenon DEF NextQueue, Priorities
    <3>2. PICK q \in Ids : q = <<p, None>> /\ q \notin TopicIds /\ at[w] \notin TopicIds
      BY <2>1, <2>3, Names, Zenon DEF Priorities
    <3>3. at'[w] = q /\ \A v \in Workers : v # w => at'[v] = at[v]
      BY <3>1, <3>2, Zenon DEF WorkerType
    <3>4. Round(w)'
      BY <2>1, <2>2, <3>1, <3>2, <3>3, Zenon DEF RoundInv, Round, Limit
    <3> QED BY <2>1, <3>1, <3>3, <3>4, RoundStep, Zenon
  <2>4. CASE at[w][1] \notin {"high", "normal"}
    <3>1. PICK L : L = IF at[w][1] = "low" THEN {topicQueues[t] : t \in Topics} \ {NoQueue} ELSE left[w] \ {at[w]}
      BY Zenon
    <3>a. left' = [left EXCEPT ![w] = L]
      BY <1>7, <2>4, <3>1, Zenon DEF NextQueue
    <3>b. left'[w] = L
      BY <3>a, Zenon DEF WorkerType
    <3>2. /\ left' = [left EXCEPT ![w] = L]
          /\ \/ L = {} /\ EndBatch(w)
             \/ (\E q \in L : at' = [at EXCEPT ![w] = q]) /\ UNCHANGED pc
      BY <1>7, <2>4, <3>a, <3>b, Zenon DEF NextQueue
    <3>3. L \subseteq TopicIds /\ IsFiniteSet(L)
      <4>1. CASE at[w][1] = "low"
        <5>1. \A t \in Topics : topicQueues[t] \in TopicIds \cup {NoQueue}
          BY Zenon DEF PublisherType
        <5>2. {topicQueues[t] : t \in Topics} \ {NoQueue} \subseteq TopicIds
          BY <5>1, Zenon
        <5> QED BY <4>1, <3>1, <5>2, SeenFinite, Zenon
      <4>2. CASE at[w][1] # "low"
        BY <4>2, <3>1, FS_Subset, Zenon DEF WorkerType, RoundInv, Round
      <4> QED BY <4>1, <4>2, Zenon
    <3>4. CASE L = {} /\ EndBatch(w)
      <4>1. /\ at'[w] = High /\ left'[w] = {} /\ pc'[w] \in {"batch", "select"}
            /\ \A v \in Workers : v # w => at'[v] = at[v] /\ left'[v] = left[v] /\ pc'[v] = pc[v]
        BY <3>2, <3>4, Zenon DEF EndBatch, High, WorkerType
      <4>2. High \in Ids /\ High \notin TopicIds
        BY Names, Zenon DEF High, Priorities
      <4>3. Round(w)'
        BY <2>1, <2>2, <3>3, <3>4, <4>1, <4>2, Zenon DEF Round, Limit
      <4> QED BY <2>1, <4>1, <4>3, RoundStep, Zenon
    <3>5. CASE (\E q \in L : at' = [at EXCEPT ![w] = q]) /\ UNCHANGED pc
      <4>1. PICK q \in L : at' = [at EXCEPT ![w] = q]
        BY <3>5, Zenon
      <4>a. q \in TopicIds /\ q \in Ids
        BY <3>3, Names, Zenon
      <4>2. /\ at'[w] = q /\ left'[w] = L /\ pc'[w] = "batch" /\ q \in TopicIds /\ q \in Ids
            /\ \A v \in Workers : v # w => at'[v] = at[v] /\ left'[v] = left[v] /\ pc'[v] = pc[v]
        BY <2>1, <3>2, <3>5, <4>a, <4>1, Zenon DEF WorkerType
      <4>3. Round(w)'
        BY <2>1, <2>2, <3>3, <4>2, Zenon DEF Round, Limit
      <4> QED BY <2>1, <4>2, <4>3, RoundStep, Zenon
    <3> QED BY <3>2, <3>4, <3>5, Zenon
  <2> QED BY <2>3, <2>4, Zenon
<1>8. CASE \/ Stop \/ StopWait \/ UNCHANGED vars
           \/ \E m \in Messages :
                PublishCheck(m) \/ Lookup(m) \/ Create(m) \/ CountBegin(m) \/ CountEnd(m) \/ Enqueue(m)
  BY <1>1, <1>8, Zenon DEF Stop, StopWait, vars, worker, PublishCheck, Lookup, Create, CountBegin, CountEnd, Enqueue
<1> QED BY <1>2, <1>3, <1>4, <1>5, <1>6, <1>7, <1>8, Zenon DEF Next

-----------------------------------------------------------------------------
(* What a worker takes between two visits of the low queue *)

LEMMA Products ==
  /\ \A a, b \in Nat : a * b \in Nat /\ (a + 1) * b = a * b + b /\ 0 * b = 0
  /\ \A a, b, c \in Nat : a <= b => a * c <= b * c
<1>1. \A a, b \in Nat : a * b \in Nat /\ (a + 1) * b = a * b + b /\ 0 * b = 0
  OBVIOUS
<1>2. ASSUME NEW a \in Nat, NEW b \in Nat, NEW c \in Nat, a <= b PROVE a * c <= b * c
  <2>1. PICK d \in Nat : b = a + d
    BY <1>2
  <2>2. (a + d) * c = a * c + d * c /\ a * c \in Nat /\ d * c \in Nat
    OBVIOUS
  <2> QED BY <2>1, <2>2
<1> QED BY <1>1, <1>2, Zenon

\* No topic loses its queue.
LEMMA MadeGrows ==
  ASSUME PublisherType, PublisherType', RouteInv, [Next]_vars
  PROVE  Made \in Nat /\ Made' \in Nat /\ Made <= Made'
<1>1. ASSUME NEW t \in Topics, topicQueues[t] # NoQueue PROVE topicQueues'[t] # NoQueue
  <2>1. topicQueues[t] \in TopicIds /\ topicQueues[t][1] = t
    BY <1>1, Zenon DEF PublisherType
  <2>2. PICK q \in Ids : q = topicQueues[t] /\ q[1] = t
    BY <2>1, Names, Zenon
  <2>3. Visited(q)'
    BY <2>2, VisitedStays, Zenon DEF Visited
  <2>a. t \notin Priorities
    BY BusAssumption, Zenon
  <2>4. topicQueues'[t] = q
    BY <2>2, <2>3, <2>a, Zenon DEF Visited
  <2> QED BY <2>4, Names, Zenon
<1>2. PICK S, T : S = {t \in Topics : topicQueues[t] # NoQueue} /\ T = {t \in Topics : topicQueues'[t] # NoQueue}
  BY Zenon
<1>3. S \subseteq T /\ T \subseteq Topics
  BY <1>1, <1>2, Zenon
<1>4. IsFiniteSet(T)
  BY <1>3, FS_Subset, BusAssumption, Zenon
<1>5. IsFiniteSet(S) /\ Cardinality(S) <= Cardinality(T)
  BY <1>3, <1>4, FS_Subset, Zenon
<1>6. Cardinality(S) \in Nat /\ Cardinality(T) \in Nat /\ TopicBatch \in Nat
  BY <1>4, <1>5, FS_CardinalityType, Limits, Zenon
<1>7. Cardinality(S) * TopicBatch <= Cardinality(T) * TopicBatch
  BY <1>5, <1>6, Products, Zenon
<1>8. Cardinality(S) * TopicBatch \in Nat /\ Cardinality(T) * TopicBatch \in Nat
  BY <1>6, Products, Zenon
<1> QED BY <1>2, <1>7, <1>8, Zenon DEF Made

\* A queue made later only leaves more room.
LEMMA TakenGrows ==
  ASSUME NEW q, NEW L, NEW n \in Nat, NEW k \in Nat, NEW a \in Nat, NEW b \in Nat, a <= b,
         q[1] \in Topics => IsFiniteSet(L), Taken(q, L, n, k, a)
  PROVE  Taken(q, L, n, k, b)
<1>1. HighBatch \in Nat /\ NormalBatch \in Nat /\ TopicBatch \in Nat
  BY Limits, Zenon
<1>2. \A x \in Nat : k <= a + x => k <= b + x
  OBVIOUS
<1>3. k <= a + HighBatch + n => k <= b + HighBatch + n
  BY <1>1
<1>4. k <= a + HighBatch + NormalBatch => k <= b + HighBatch + NormalBatch
  BY <1>1
<1>5. ASSUME q[1] \in Topics PROVE k + Cardinality(L) * TopicBatch <= b + n
  <2>1. Cardinality(L) \in Nat
    BY <1>5, FS_CardinalityType, Zenon
  <2>2. PICK c \in Nat : c = Cardinality(L) * TopicBatch
    BY <2>1, <1>1, Products, Zenon
  <2>3. k + c <= a + n
    BY <1>5, <2>2, Zenon DEF Taken
  <2>4. k + c <= b + n
    BY <2>3
  <2> QED BY <2>2, <2>4, Zenon
<1> QED BY <1>2, <1>3, <1>4, <1>5, Zenon DEF Taken

\* One more message, of another queue than low.
LEMMA TakenOne ==
  ASSUME NEW q, NEW L, NEW n \in Nat, NEW k \in Nat, NEW a \in Nat, q # NoQueue, q[1] # "low",
         q[1] \in Topics => IsFiniteSet(L), Taken(q, L, n, k, a)
  PROVE  Taken(q, L, n + 1, k + 1, a)
<1>1. HighBatch \in Nat /\ NormalBatch \in Nat /\ TopicBatch \in Nat
  BY Limits, Zenon
<1>2. k <= a + n => k + 1 <= a + (n + 1)
  OBVIOUS
<1>3. k <= a + HighBatch + n => k + 1 <= a + HighBatch + (n + 1)
  BY <1>1
<1>5. ASSUME q[1] \in Topics PROVE (k + 1) + Cardinality(L) * TopicBatch <= a + (n + 1)
  <2>1. Cardinality(L) \in Nat
    BY <1>5, FS_CardinalityType, Zenon
  <2>2. PICK c \in Nat : c = Cardinality(L) * TopicBatch
    BY <2>1, <1>1, Products, Zenon
  <2>3. k + c <= a + n
    BY <1>5, <2>2, Zenon DEF Taken
  <2>4. (k + 1) + c <= a + (n + 1)
    BY <2>3
  <2> QED BY <2>2, <2>4, Zenon
<1> QED BY <1>2, <1>3, <1>5, Zenon DEF Taken

\* From one queue to the next: the batch it leaves was no larger than its limit.
LEMMA TakenMove ==
  ASSUME NEW q \in Ids, NEW r \in Ids, NEW L, NEW K, NEW n \in Nat, NEW k \in Nat, NEW a \in Nat,
         Taken(q, L, n, k, a), n <= Limit(q),
         \/ q[1] = "high" /\ r[1] = "normal"
         \/ q[1] = "normal" /\ r[1] = "low"
         \/ /\ q[1] \in Topics /\ r[1] \in {"high"} \cup Topics /\ IsFiniteSet(L) /\ q \in L /\ K = L \ {q}
  PROVE  Taken(r, K, 0, k, a)
<1>1. HighBatch \in Nat /\ NormalBatch \in Nat /\ TopicBatch \in Nat /\ r # NoQueue
  BY Limits, Names, Zenon
<1>2. "high" \notin Topics /\ "normal" \notin Topics /\ "low" \notin Topics
  BY BusAssumption, Zenon DEF Priorities
<1>3. CASE q[1] = "high" /\ r[1] = "normal"
  <2>1. k <= a + n /\ n <= HighBatch
    BY <1>3, Limits, Zenon DEF Taken
  <2>2. k <= a + HighBatch + 0
    BY <2>1, <1>1
  <2> QED BY <1>1, <1>2, <1>3, <2>2, Zenon DEF Taken
<1>4. CASE q[1] = "normal" /\ r[1] = "low"
  <2>1. k <= a + HighBatch + n /\ n <= NormalBatch
    BY <1>4, Limits, Zenon DEF Taken
  <2>2. k <= a + HighBatch + NormalBatch
    BY <2>1, <1>1
  <2> QED BY <1>1, <1>2, <1>4, <2>2, Zenon DEF Taken
<1>5. CASE q[1] \in Topics /\ r[1] \in {"high"} \cup Topics /\ IsFiniteSet(L) /\ q \in L /\ K = L \ {q}
  <2>1. Cardinality(L) \in Nat /\ IsFiniteSet(K) /\ Cardinality(K) = Cardinality(L) - 1
    BY <1>5, FS_CardinalityType, FS_RemoveElement, Zenon
  <2>2. Cardinality(K) \in Nat
    BY <2>1, FS_CardinalityType, Zenon
  <2>3. Cardinality(L) = Cardinality(K) + 1
    BY <2>1, <2>2
  <2>4. PICK c \in Nat : c = Cardinality(K) * TopicBatch /\ Cardinality(L) * TopicBatch = c + TopicBatch
    <3>1. \A x, y \in Nat : \E c \in Nat : c = x * y /\ (x + 1) * y = c + y
      BY Products, Zenon
    <3> QED BY <1>1, <2>2, <2>3, <3>1
  <2>a. k + Cardinality(L) * TopicBatch <= a + n
    BY <1>5, Zenon DEF Taken
  <2>b. n <= TopicBatch
    <3>1. Limit(q) = TopicBatch
      BY <1>5, Limits, Zenon
    <3> QED BY <3>1, Zenon
  <2>5. k + (c + TopicBatch) <= a + n /\ n <= TopicBatch
    BY <2>4, <2>a, <2>b, Zenon
  <2>6. k + c <= a + 0 /\ k <= a + 0
    BY <1>1, <2>5
  <2>7. r[1] # "normal" /\ r[1] # "low"
    BY <1>2, <1>5, Zenon
  <2> QED BY <1>1, <2>4, <2>6, <2>7, Zenon DEF Taken
<1> QED BY <1>3, <1>4, <1>5, Zenon

\* From low to a topic queue, or to high when there is none.
LEMMA TakenLow ==
  ASSUME NEW r \in Ids, NEW K, NEW a \in Nat, r[1] \in {"high"} \cup Topics,
         r[1] \in Topics => Cardinality(K) * TopicBatch \in Nat /\ Cardinality(K) * TopicBatch <= a
  PROVE  Taken(r, K, 0, 0, a)
<1>1. r # NoQueue /\ r[1] # "normal" /\ r[1] # "low"
  BY Names, BusAssumption, Zenon DEF Priorities
<1>2. 0 <= a + 0 /\ \A c \in Nat : c <= a => 0 + c <= a + 0
  OBVIOUS
<1> QED BY <1>1, <1>2, Zenon DEF Taken

\* A step of one worker.
LEMMA SinceStep ==
  ASSUME PublisherType, PublisherType', WorkerType, RouteInv, RoundInv, SinceInv, [Next]_vars, NEW w \in Workers,
         Taken(at'[w], left'[w], count'[w], since'[w], Made'),
         \A v \in Workers : v # w => /\ at'[v] = at[v] /\ left'[v] = left[v]
                                     /\ count'[v] = count[v] /\ since'[v] = since[v]
  PROVE  SinceInv'
<1> SUFFICES ASSUME NEW v \in Workers, v # w PROVE Taken(at'[v], left'[v], count'[v], since'[v], Made')
  BY Zenon DEF SinceInv, Taken
<1>1. PICK a \in Nat, b \in Nat : a = Made /\ b = Made' /\ a <= b
  BY MadeGrows, Zenon
<1>0. count[v] \in Nat /\ since[v] \in Nat
  BY Zenon DEF WorkerType
<1>2. PICK q, L, n, k : n \in Nat /\ k \in Nat /\ q = at[v] /\ L = left[v] /\ n = count[v] /\ k = since[v]
  BY <1>0, Zenon
<1>a. Taken(at[v], left[v], count[v], since[v], Made)
  BY Zenon DEF SinceInv
<1>b. IsFiniteSet(left[v])
  BY Zenon DEF RoundInv, Round
<1>3. IsFiniteSet(L) /\ Taken(q, L, n, k, a)
  BY <1>1, <1>2, <1>a, <1>b
<1>4. Taken(q, L, n, k, b)
  BY <1>1, <1>2, <1>3, TakenGrows, Zenon
<1> QED BY <1>1, <1>2, <1>4, Zenon

LEMMA SinceNext ==
  ASSUME PublisherType, PublisherType', WorkerType, RouteInv, RoundInv, SinceInv, [Next]_vars
  PROVE  SinceInv'
<1>1. PICK a \in Nat, b \in Nat : a = Made /\ b = Made' /\ a <= b
  BY MadeGrows, Zenon
<1>2. ASSUME NEW w \in Workers
      PROVE  \E q, L, n, k :
               /\ n \in Nat /\ k \in Nat
               /\ q = at[w] /\ L = left[w] /\ n = count[w] /\ k = since[w]
               /\ IsFiniteSet(L) /\ Taken(q, L, n, k, b)
  <2>0. count[w] \in Nat /\ since[w] \in Nat
    BY Zenon DEF WorkerType
  <2>1. PICK q, L, n, k : n \in Nat /\ k \in Nat /\ q = at[w] /\ L = left[w] /\ n = count[w] /\ k = since[w]
    BY <2>0, Zenon
  <2>a. Taken(at[w], left[w], count[w], since[w], Made)
    BY Zenon DEF SinceInv
  <2>b. IsFiniteSet(left[w])
    BY Zenon DEF RoundInv, Round
  <2>2. IsFiniteSet(L) /\ Taken(q, L, n, k, a)
    BY <1>1, <2>1, <2>a, <2>b
  <2>3. Taken(q, L, n, k, b)
    BY <1>1, <2>1, <2>2, TakenGrows, Zenon
  <2> QED BY <2>1, <2>2, <2>3, Zenon
<1>3. ASSUME UNCHANGED <<at, left, count, since>> PROVE SinceInv'
  <2> SUFFICES ASSUME NEW w \in Workers PROVE Taken(at'[w], left'[w], count'[w], since'[w], Made')
    BY Zenon DEF SinceInv, Taken
  <2>1. PICK q, L, n, k : /\ n \in Nat /\ k \in Nat
                          /\ q = at[w] /\ L = left[w] /\ n = count[w] /\ k = since[w]
                          /\ Taken(q, L, n, k, b)
    BY <1>2, Zenon
  <2> QED BY <1>1, <1>3, <2>1, Zenon
<1>4. ASSUME NEW w \in Workers, Wake(w) PROVE SinceInv'
  <2>1. /\ at'[w] = High /\ count'[w] = 0 /\ UNCHANGED <<left, since>> /\ pc[w] = "select"
        /\ \A v \in Workers : v # w => at'[v] = at[v] /\ count'[v] = count[v]
    BY <1>4, Zenon DEF Wake, WorkerType, High
  <2>2. at[w] \in {NoQueue, High} /\ count[w] = 0
    BY <2>1, Zenon DEF RoundInv, Round
  <2>3. PICK q, L, n, k : /\ n \in Nat /\ k \in Nat
                          /\ q = at[w] /\ L = left[w] /\ n = count[w] /\ k = since[w]
                          /\ Taken(q, L, n, k, b)
    BY <1>2, Zenon
  <2>4. High[1] = "high" /\ High \in Ids /\ NoQueue \notin Ids
    BY Names, Zenon DEF High, Priorities
  <2>5. CASE q = High
    BY <1>1, <2>1, <2>2, <2>3, <2>5, SinceStep, Zenon
  <2>6. CASE q = NoQueue
    <3>1. k = 0
      BY <2>3, <2>6, Zenon DEF Taken
    <3>2. Taken(High, L, 0, 0, b)
      BY <2>4, TakenLow, BusAssumption, Zenon DEF Priorities
    <3> QED BY <1>1, <2>1, <2>3, <3>1, <3>2, SinceStep, Zenon
  <2> QED BY <2>2, <2>3, <2>5, <2>6, Zenon
<1>5. ASSUME NEW w \in Workers, Dequeue(w) PROVE SinceInv'
  <2>1. PICK q, L, n, k : /\ n \in Nat /\ k \in Nat
                          /\ q = at[w] /\ L = left[w] /\ n = count[w] /\ k = since[w]
                          /\ IsFiniteSet(L) /\ Taken(q, L, n, k, b)
    BY <1>2, Zenon
  <2>2. /\ q # NoQueue /\ count'[w] = n + 1 /\ UNCHANGED <<at, left>>
        /\ since'[w] = IF q[1] = "low" THEN k ELSE k + 1
        /\ \A v \in Workers : v # w => since'[v] = since[v] /\ count'[v] = count[v]
    BY <1>5, <2>1, Zenon DEF Dequeue, More, WorkerType
  <2>3. CASE q[1] = "low"
    <3>1. q[1] \notin Topics /\ q[1] # "high" /\ q[1] # "normal"
      BY <2>3, BusAssumption, Zenon DEF Priorities
    <3>2. Taken(q, L, n + 1, k, b)
      BY <2>1, <2>2, <2>3, <3>1, Zenon DEF Taken
    <3> QED BY <1>1, <2>1, <2>2, <2>3, <3>2, SinceStep, Zenon
  <2>4. CASE q[1] # "low"
    <3>1. Taken(q, L, n + 1, k + 1, b)
      BY <2>1, <2>2, <2>4, TakenOne, Zenon
    <3> QED BY <1>1, <2>1, <2>2, <2>4, <3>1, SinceStep, Zenon
  <2> QED BY <2>3, <2>4, Zenon
<1>6. ASSUME NEW w \in Workers, NextQueue(w) PROVE SinceInv'
  <2>1. PICK q, L, n, k : /\ n \in Nat /\ k \in Nat
                          /\ q = at[w] /\ L = left[w] /\ n = count[w] /\ k = since[w]
                          /\ IsFiniteSet(L) /\ Taken(q, L, n, k, b)
    BY <1>2, Zenon
  <2>2. /\ q \in Ids /\ n <= Limit(q) /\ count'[w] = 0 /\ pc[w] = "batch"
        /\ since'[w] = IF q[1] = "low" THEN 0 ELSE k
    BY <1>6, <2>1, Zenon DEF NextQueue, WorkerType, RoundInv, Round
  <2>3. /\ \A v \in Workers : v # w => count'[v] = count[v] /\ since'[v] = since[v]
    BY <1>6, Zenon DEF NextQueue, WorkerType
  <2>4. ASSUME NEW r \in Ids, NEW K, at' = [at EXCEPT ![w] = r], left' = [left EXCEPT ![w] = K],
               Taken(r, K, 0, since'[w], b)
        PROVE  SinceInv'
    <3>1. /\ at'[w] = r /\ left'[w] = K
          /\ \A v \in Workers : v # w => at'[v] = at[v] /\ left'[v] = left[v]
      BY <2>4, Zenon DEF WorkerType
    <3> QED BY <1>1, <2>2, <2>3, <2>4, <3>1, SinceStep, Zenon
  <2>5. CASE q[1] \in {"high", "normal"}
    <3>1. PICK p \in {"normal", "low"} : /\ at' = [at EXCEPT ![w] = <<p, None>>] /\ left' = left
                                         /\ p = IF q[1] = "high" THEN "normal" ELSE "low"
      BY <1>6, <2>1, <2>5, Zenon DEF NextQueue
    <3>2. PICK r \in Ids : r = <<p, None>> /\ r[1] = p
      BY Names, Zenon DEF Priorities
    <3>3. Taken(r, L, 0, k, b)
      BY <2>1, <2>2, <2>5, <3>1, <3>2, TakenMove, Zenon
    <3>4. left' = [left EXCEPT ![w] = L] /\ since'[w] = k
      BY <2>1, <2>2, <2>5, <3>1, Zenon DEF WorkerType
    <3> QED BY <2>4, <3>1, <3>2, <3>3, <3>4, Zenon
  <2>6. CASE q[1] \notin {"high", "normal"}
    <3>1. PICK K : K = IF q[1] = "low" THEN {topicQueues[t] : t \in Topics} \ {NoQueue} ELSE L \ {q}
      BY Zenon
    <3>a. left' = [left EXCEPT ![w] = K]
      BY <1>6, <2>1, <2>6, <3>1, Zenon DEF NextQueue
    <3>b. left'[w] = K
      BY <3>a, Zenon DEF WorkerType
    <3>2. (K = {} /\ at' = [at EXCEPT ![w] = High]) \/ \E r \in K : at' = [at EXCEPT ![w] = r]
      BY <1>6, <2>1, <2>6, <3>b, Zenon DEF NextQueue, EndBatch, High
    <3>3. K \subseteq TopicIds
      <4>1. \A t \in Topics : topicQueues[t] \in TopicIds \cup {NoQueue}
        BY Zenon DEF PublisherType
      <4>2. L \subseteq TopicIds
        BY <2>1, Zenon DEF WorkerType
      <4> QED BY <3>1, <4>1, <4>2, Zenon
    <3>4. High \in Ids /\ High[1] = "high" /\ \A r \in K : r \in Ids /\ r[1] \in Topics
      <4>1. High \in Ids /\ High[1] = "high"
        BY Names, Zenon DEF High, Priorities
      <4>2. \A r \in TopicIds : r \in Ids /\ r[1] \in Topics
        BY Names, Zenon
      <4> QED BY <3>3, <4>1, <4>2, Zenon
    <3>5. PICK r \in Ids : at' = [at EXCEPT ![w] = r] /\ r[1] \in {"high"} \cup Topics
      BY <3>2, <3>4, Zenon
    <3>6. CASE q[1] = "low"
      <4>1. Cardinality(K) \in Nat /\ Cardinality(K) * TopicBatch <= a
        <5>1. PICK c \in Nat : /\ c = Cardinality({t \in Topics : topicQueues[t] # NoQueue})
                               /\ Cardinality(K) \in Nat /\ Cardinality(K) <= c
          BY <3>1, <3>6, SeenFinite, Zenon
        <5>2. a = c * TopicBatch /\ TopicBatch \in Nat
          BY <1>1, <5>1, Limits, Zenon DEF Made
        <5> QED BY <5>1, <5>2, Products, Zenon
      <4>2. Cardinality(K) * TopicBatch \in Nat /\ Cardinality(K) * TopicBatch <= b
        <5>1. Cardinality(K) * TopicBatch \in Nat
          BY <4>1, Limits, Products, Zenon
        <5>2. \A x \in Nat : x <= a => x <= b
          BY <1>1
        <5> QED BY <4>1, <5>1, <5>2, Zenon
      <4>3. Taken(r, K, 0, 0, b)
        BY <3>5, <4>2, TakenLow, Zenon
      <4> QED BY <2>2, <2>4, <3>5, <3>6, <3>a, <4>3, Zenon
    <3>7. CASE q[1] # "low"
      <4>1. q[1] \in Topics
        <5>1. q[1] \in Priorities \cup Topics
          BY <2>2, Names, Zenon
        <5> QED BY <5>1, <2>6, <3>7, Zenon DEF Priorities
      <4>2. q \in TopicIds
        BY <2>2, <4>1, Names, Zenon
      <4>3. q \in L /\ K = L \ {q}
        BY <2>1, <3>1, <3>7, <4>2, Zenon DEF RoundInv, Round
      <4>4. Taken(r, K, 0, k, b)
        BY <2>1, <2>2, <3>5, <4>1, <4>3, TakenMove, Zenon
      <4> QED BY <2>2, <2>4, <3>5, <3>7, <3>a, <4>4, Zenon
    <3> QED BY <3>6, <3>7, Zenon
  <2> QED BY <2>5, <2>6, Zenon
<1>7. CASE Start \/ Stop \/ StopWait \/ UNCHANGED vars
  BY <1>3, <1>7, Zenon DEF Start, Stop, StopWait, vars, worker
<1>8. CASE \E m \in Messages :
             PublishCheck(m) \/ Lookup(m) \/ Create(m) \/ CountBegin(m) \/ CountEnd(m) \/ Enqueue(m)
  BY <1>3, <1>8, Zenon DEF PublishCheck, Lookup, Create, CountBegin, CountEnd, Enqueue, worker
<1>9. CASE \E w \in Workers : Quit(w) \/ Process(w)
  BY <1>3, <1>9, Zenon DEF Quit, Process
<1> QED BY <1>4, <1>5, <1>6, <1>7, <1>8, <1>9, Zenon DEF Next

-----------------------------------------------------------------------------
(* The theorems *)

LEMMA BusInit == Init => BusInv
<1> SUFFICES ASSUME Init PROVE BusInv
  OBVIOUS
<1>1. PublisherType
  <2>1. <<>> \in Seq(Messages) /\ 0 \in {0, 1}
    OBVIOUS
  <2>2. \A t \in Topics : topicQueues[t] = NoQueue
    BY Zenon DEF Init
  <2>3. route \in [Messages -> Priorities \cup Topics]
    BY BusAssumption, Zenon DEF Init
  <2>4. queue \in [Ids -> Seq(Messages)]
    BY <2>1, Zenon DEF Init
  <2>5. topicQueues \in [Topics -> TopicIds \cup {NoQueue}] /\ DOMAIN target = Messages
    BY Zenon DEF Init
  <2>6. pub \in [Messages -> {"new", "lookup", "create", "count", "counting", "enqueue", "nil", "error"}]
    BY Zenon DEF Init
  <2>7. processed \in [Messages -> {0, 1}]
    BY <2>1, Zenon DEF Init
  <2> QED BY <2>2, <2>3, <2>4, <2>5, <2>6, <2>7, Zenon DEF PublisherType
<1>2. WorkerType
  <2>1. 0 \in Nat
    OBVIOUS
  <2> QED BY <2>1, Zenon DEF Init, WorkerType
<1>3. /\ \A w \in Workers : /\ pc[w] = "off" /\ at[w] = NoQueue /\ left[w] = {} /\ count[w] = 0 /\ since[w] = 0
                            /\ item[w] = None
      /\ \A m \in Messages : pub[m] = "new" /\ processed[m] = 0
      /\ \A q \in Ids : queue[q] = <<>>
  BY Zenon DEF Init
<1>4. OwnerInv
  BY <1>3, Zenon DEF OwnerInv
<1>5. \A q \in Ids : Queued(q) = {} /\ Distinct(queue[q])
  <2>1. DOMAIN <<>> = {}
    OBVIOUS
  <2> QED BY <1>3, <2>1, Zenon DEF Queued, Distinct
<1>6. PlaceInv
  <2>1. \A m \in Messages : ~Waiting(m)
    BY <1>3, Zenon DEF Waiting
  <2> QED BY <1>3, <1>5, <2>1, Zenon DEF PlaceInv, QueuesApart, InQueue, InHand, Somewhere
<1>7. RouteInv
  BY <1>3, <1>5, Zenon DEF RouteInv
<1>8. RoundInv
  BY <1>3, Names, FS_EmptySet, Zenon DEF RoundInv, Round
<1>9. SinceInv
  <2>1. NoQueue[1] \notin Priorities \cup Topics
    BY Names, Zenon
  <2>2. Taken(NoQueue, {}, 0, 0, Made)
    BY <2>1, Zenon DEF Taken, Priorities
  <2> QED BY <1>3, <2>2, Zenon DEF SinceInv
<1> QED BY <1>1, <1>2, <1>4, <1>6, <1>7, <1>8, <1>9, Zenon DEF BusInv

LEMMA BusNext == BusInv /\ [Next]_vars => BusInv'
<1> SUFFICES ASSUME BusInv, [Next]_vars PROVE BusInv'
  OBVIOUS
<1>1. PublisherType /\ WorkerType /\ OwnerInv /\ PlaceInv /\ RouteInv /\ RoundInv /\ SinceInv
  BY Zenon DEF BusInv
<1>2. PublisherType'
  BY <1>1, PublisherTypeNext, Zenon
<1>3. WorkerType' /\ OwnerInv'
  BY <1>1, WorkerTypeNext, OwnerNext, Zenon
<1>4. PlaceInv' /\ RouteInv' /\ RoundInv'
  BY <1>1, PlaceNext, RouteNext, RoundNext, Zenon
<1>5. SinceInv'
  BY <1>1, <1>2, SinceNext, Zenon
<1> QED BY <1>2, <1>3, <1>4, <1>5, Zenon DEF BusInv

\* BusInv is inductive: it holds of every reachable state of the bus, for any numbers of
\* messages, topics and workers, any batch sizes and any interleaving.
THEOREM BusInvariant == Spec => []BusInv
BY BusInit, BusNext, PTL DEF Spec

\* A message the bus accepted is processed once, is with one worker or is in one queue that
\* the workers visit: however publishers of a new topic interleave in getOrCreateTopicQueue,
\* no message ends up in a queue that only its publisher knows.
THEOREM AcceptedStaysReachable == Spec => []AcceptedReachable
<1>1. BusInv => AcceptedReachable
  <2> SUFFICES ASSUME BusInv, NEW m \in Messages, pub[m] = "nil"
               PROVE  /\ processed[m] + Cardinality({w \in Workers : item[w] = m})
                                      + Cardinality({q \in Ids : m \in Queued(q)}) = 1
                      /\ \A q \in Ids : m \in Queued(q) => Visited(q)
    BY Zenon DEF AcceptedReachable, Visited
  <2>1. PublisherType /\ PlaceInv /\ RouteInv /\ m # None
    BY Names, Zenon DEF BusInv
  <2>2. PICK W, Q : W = {w \in Workers : item[w] = m} /\ Q = {q \in Ids : m \in Queued(q)}
    BY Zenon
  <2>3. \A q \in Ids : m \in Queued(q) => Visited(q)
    BY <2>1, Zenon DEF RouteInv
  <2>4. CASE processed[m] = 0
    <3>1. Waiting(m)
      BY <2>4, Zenon DEF Waiting
    <3>2. CASE \E w \in Workers : item[w] = m
      <4>1. Q = {}
        BY <3>2, <2>1, <2>2, Zenon DEF PlaceInv, InQueue
      <4>2. PICK w \in Workers : item[w] = m
        BY <3>2, Zenon
      <4>3. W = {w}
        BY <4>2, <2>1, <2>2, Zenon DEF PlaceInv, InHand
      <4>4. Cardinality(Q) = 0 /\ Cardinality(W) = 1
        BY <4>1, <4>3, FS_EmptySet, FS_Singleton, Zenon
      <4> QED BY <2>2, <2>3, <2>4, <4>4
    <3>3. CASE \A w \in Workers : item[w] # m
      <4>1. W = {}
        BY <3>3, <2>2, Zenon
      <4>2. PICK q \in Ids : m \in Queued(q)
        BY <3>1, <3>3, <2>1, Zenon DEF PlaceInv, Somewhere
      <4>3. Q = {q}
        BY <4>2, <2>1, <2>2, Zenon DEF PlaceInv, QueuesApart
      <4>4. Cardinality(W) = 0 /\ Cardinality(Q) = 1
        BY <4>1, <4>3, FS_EmptySet, FS_Singleton, Zenon
      <4> QED BY <2>2, <2>3, <2>4, <4>4
    <3> QED BY <3>2, <3>3, Zenon
  <2>5. CASE processed[m] = 1
    <3>1. ~Waiting(m)
      BY <2>5 DEF Waiting
    <3>2. W = {} /\ Q = {}
      BY <3>1, <2>1, <2>2, Zenon DEF PlaceInv, InHand, InQueue
    <3>3. Cardinality(W) = 0 /\ Cardinality(Q) = 0
      BY <3>2, FS_EmptySet, Zenon
    <3> QED BY <2>2, <2>3, <2>5, <3>3
  <2>6. processed[m] \in {0, 1}
    BY <2>1, Zenon DEF PublisherType
  <2> QED BY <2>4, <2>5, <2>6, Zenon
<1> QED BY <1>1, BusInvariant, PTL

\* Between two visits of the low queue a worker takes at most one batch of each other queue,
\* however many topics there are and whoever publishes meanwhile.
THEOREM LowStaysVisited == Spec => []LowVisited
<1>1. BusInv => LowVisited
  <2> SUFFICES ASSUME BusInv, NEW w \in Workers PROVE since[w] <= HighBatch + NormalBatch + Made
    BY Zenon DEF LowVisited, Made
  <2>0. PublisherType /\ WorkerType /\ RoundInv /\ SinceInv
    BY Zenon DEF BusInv
  <2>1. HighBatch \in Nat /\ NormalBatch \in Nat /\ TopicBatch \in Nat
    BY Limits, Zenon
  <2>2. PICK a \in Nat : a = Made
    <3>1. Cardinality({t \in Topics : topicQueues[t] # NoQueue}) \in Nat
      BY <2>0, SeenFinite, Zenon
    <3> QED BY <2>1, <3>1, Products, Zenon DEF Made
  <2>3. PICK q, L, n, k : /\ n \in Nat /\ k \in Nat /\ q \in Ids \cup {NoQueue}
                          /\ q = at[w] /\ L = left[w] /\ n = count[w] /\ k = since[w]
    BY <2>0, Zenon DEF WorkerType
  <2>4. Taken(q, L, n, k, a)
    BY <2>0, <2>2, <2>3, Zenon DEF SinceInv
  <2>5. IsFiniteSet(L) /\ (q \in Ids => n <= Limit(q)) /\ (q \in TopicIds => q \in L)
    BY <2>0, <2>3, Zenon DEF RoundInv, Round
  <2>6. k <= HighBatch + NormalBatch + a
    <3>1. CASE q = NoQueue
      BY <3>1, <2>1, <2>4 DEF Taken
    <3>2. CASE q \in Ids /\ q[1] = "high"
      <4>1. k <= a + n /\ n <= HighBatch
        BY <3>2, <2>4, <2>5, Limits, Zenon DEF Taken
      <4> QED BY <4>1, <2>1, <2>3
    <3>3. CASE q \in Ids /\ q[1] = "normal"
      <4>1. k <= a + HighBatch + n /\ n <= NormalBatch
        BY <3>3, <2>4, <2>5, Limits, Zenon DEF Taken
      <4> QED BY <4>1, <2>1, <2>3
    <3>4. CASE q \in Ids /\ q[1] = "low"
      <4>1. k <= a + HighBatch + NormalBatch
        BY <3>4, <2>4, Zenon DEF Taken
      <4> QED BY <4>1, <2>1, <2>3
    <3>5. CASE q \in Ids /\ q[1] \in Topics
      <4>1. q \in L
        BY <3>5, <2>5, Names, Zenon
      <4>2. n <= TopicBatch
        <5>1. Limit(q) = TopicBatch
          BY <3>5, Limits, Zenon
        <5> QED BY <5>1, <3>5, <2>5, Zenon
      <4>3. Cardinality(L) \in Nat /\ 1 <= Cardinality(L)
        <5>1. Cardinality(L) \in Nat /\ Cardinality(L) # 0
          BY <4>1, <2>5, FS_EmptySet, FS_CardinalityType, Zenon
        <5> QED BY <5>1
      <4>4. PICK c \in Nat : c = Cardinality(L) * TopicBatch /\ TopicBatch <= c
        <5>1. 1 * TopicBatch = TopicBatch
          BY <2>1
        <5>2. \A x \in Nat : 1 <= x => x * TopicBatch \in Nat /\ 1 * TopicBatch <= x * TopicBatch
          <6>1. 1 \in Nat
            OBVIOUS
          <6> QED BY <2>1, <6>1, Products, Zenon
        <5> QED BY <5>1, <5>2, <4>3, Zenon
      <4>5. k + c <= a + n
        BY <3>5, <2>4, <4>4, Zenon DEF Taken
      <4> QED BY <4>2, <4>4, <4>5, <2>1, <2>3
    <3>6. q \in Ids => q[1] \in Topics \/ q[1] = "high" \/ q[1] = "normal" \/ q[1] = "low"
      BY Names, Zenon DEF Priorities
    <3> QED BY <2>3, <3>1, <3>2, <3>3, <3>4, <3>5, <3>6, Zenon
  <2> QED BY <2>2, <2>3, <2>6, Zenon
<1> QED BY <1>1, BusInvariant, PTL
=============================================================================
