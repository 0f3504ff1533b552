----------------------------- MODULE AsyncProofs -----------------------------
(***************************************************************************)
(* Proofs about the asynchronous batch writer, for any messages, shards,   *)
(* batch and channel sizes and failures: its metrics count every batch     *)
(* once, and a message is in one place and stored at most once.            *)
(***************************************************************************)
EXTENDS AsyncBatchWriter, FiniteSetTheorems, TLAPS

Batch == [batch : Seq(AsyncMessages), result : {"none", "ok", "failed"}]
Confirmation == [result : {"ok", "failed"}, size : Nat]
Metrics == [pending : Int, confirmed : Nat, failed : Nat, messages : Nat]

NoTwice(q) == \A i, j \in DOMAIN q : q[i] = q[j] => i = j

\* A shard's channel and batch hold no message twice.
Queued(q, b) ==
  /\ q \in Seq(AsyncMessages) /\ b \in Seq(AsyncMessages) /\ NoTwice(q) /\ NoTwice(b)
  /\ Elements(q) \cap Elements(b) = {}

AsyncType ==
  /\ DOMAIN input = Shards /\ DOMAIN currentBatch = Shards /\ DOMAIN aWrite = AsyncMessages
  /\ writers \subseteq Batch /\ IsFiniteSet(writers)
  /\ confirmChan \in Seq(Confirmation) /\ metrics \in Metrics /\ aErrors \in Nat
  /\ aStored \subseteq AsyncMessages

\* A message in a shard is in that shard only, with no goroutine and not in the storage.
QueuedInv ==
  \A s \in Shards :
    /\ Queued(input[s], currentBatch[s])
    /\ \A m \in Elements(input[s]) \cup Elements(currentBatch[s]) :
         /\ asyncShardID[m] = s /\ aWrite[m] = "nil" /\ m \notin aStored
         /\ \A w \in writers : m \notin Elements(w.batch)

\* The messages of a goroutine's batch are its own, and in the storage once it has stored them.
BatchesInv ==
  /\ \A w \in writers :
       /\ w.batch # <<>> /\ NoTwice(w.batch)
       /\ \A m \in Elements(w.batch) :
            /\ aWrite[m] = "nil" /\ (m \in aStored <=> w.result = "ok")
            /\ \A v \in writers : m \in Elements(v.batch) => v = w
  /\ \A m \in aStored : aWrite[m] = "nil"

\* The results in the channel, numbered on from the n counted so far: the messages of
\* those that are stored, and the batches that failed.
OkSent(n, q) == {p \in ((n + 1) .. (n + Len(q))) \X Nat :
                   q[p[1] - n].result = "ok" /\ p[2] \in 1 .. q[p[1] - n].size}
FailedSent(n, q) == {k \in (n + 1) .. (n + Len(q)) : q[k - n].result = "failed"}

\* The part of confirmation c with number k in them, and how much that is.
OkOf(c, k) == IF c.result = "ok" THEN {k} \X (1 .. c.size) ELSE {}
FailedOf(c, k) == IF c.result = "ok" THEN {} ELSE {k}
OkCount(c) == IF c.result = "ok" THEN c.size ELSE 0
FailedCount(c) == IF c.result = "ok" THEN 0 ELSE 1

\* The same of the batches still with their goroutine.
OkHeld(ws) == {m \in AsyncMessages : \E w \in ws : w.result = "ok" /\ m \in Elements(w.batch)}
FailedHeld(ws) == {w \in ws : w.result = "failed"}

\* Metrics, confirmations and goroutines together account for every message stored and
\* for every failed write.
Seen == metrics.confirmed + metrics.failed
CountsInv ==
  /\ IsFiniteSet(OkSent(Seen, confirmChan)) /\ IsFiniteSet(FailedSent(Seen, confirmChan))
  /\ metrics.pending = Cardinality(writers) + Len(confirmChan)
  /\ Cardinality(aStored) =
       metrics.messages + Cardinality(OkSent(Seen, confirmChan)) + Cardinality(OkHeld(writers))
  /\ aErrors = metrics.failed + Cardinality(FailedSent(Seen, confirmChan)) + Cardinality(FailedHeld(writers))

AsyncInv == AsyncType /\ QueuedInv /\ BatchesInv /\ CountsInv

\* Sequences of messages.

LEMMA ElementsIn ==
  ASSUME NEW q \in Seq(AsyncMessages)
  PROVE  /\ DOMAIN q = 1 .. Len(q) /\ Len(q) \in Nat
         /\ \A i \in 1 .. Len(q) : q[i] \in AsyncMessages
         /\ \A m : m \in Elements(q) <=> \E i \in 1 .. Len(q) : q[i] = m
<1>1. DOMAIN q = 1 .. Len(q) /\ Len(q) \in Nat /\ \A i \in 1 .. Len(q) : q[i] \in AsyncMessages
  OBVIOUS
<1> QED BY <1>1, Zenon DEF Elements

LEMMA ElementsAppend ==
  ASSUME NEW q \in Seq(AsyncMessages), NEW m \in AsyncMessages, m \notin Elements(q), NoTwice(q)
  PROVE  /\ Append(q, m) \in Seq(AsyncMessages) /\ NoTwice(Append(q, m))
         /\ Elements(Append(q, m)) = Elements(q) \cup {m}
<1>1. PICK r : r = Append(q, m)
  BY Zenon
<1>2. /\ r \in Seq(AsyncMessages) /\ Len(r) = Len(q) + 1 /\ r[Len(q) + 1] = m
      /\ \A i \in 1 .. Len(q) : r[i] = q[i]
  BY <1>1
<1>3. Len(q) \in Nat /\ DOMAIN q = 1 .. Len(q) /\ DOMAIN r = 1 .. Len(r)
  BY <1>2, ElementsIn, Zenon
<1>4. /\ \A i \in 1 .. Len(r) : i \in 1 .. Len(q) \/ i = Len(q) + 1
      /\ Len(q) + 1 \in 1 .. Len(r) /\ \A i \in 1 .. Len(q) : i \in 1 .. Len(r)
  BY <1>2, <1>3
<1>5. \A i \in 1 .. Len(q) : q[i] # m
  BY ElementsIn, Zenon
<1>6. NoTwice(r)
  <2> SUFFICES ASSUME NEW i \in 1 .. Len(r), NEW j \in 1 .. Len(r), r[i] = r[j] PROVE i = j
    BY <1>3, Zenon DEF NoTwice
  <2>1. CASE i \in 1 .. Len(q) /\ j \in 1 .. Len(q)
    BY <1>2, <1>3, <2>1, Zenon DEF NoTwice
  <2>2. CASE ~(i \in 1 .. Len(q) /\ j \in 1 .. Len(q))
    BY <1>2, <1>4, <1>5, <2>2, Zenon
  <2> QED BY <2>1, <2>2, Zenon
<1>7. ASSUME NEW x PROVE x \in Elements(r) <=> x \in Elements(q) \/ x = m
  <2>1. x \in Elements(r) <=> \E i \in 1 .. Len(r) : r[i] = x
    BY <1>2, ElementsIn, Zenon
  <2>2. x \in Elements(q) <=> \E i \in 1 .. Len(q) : q[i] = x
    BY ElementsIn, Zenon
  <2> QED BY <1>2, <1>4, <2>1, <2>2, Zenon
<1> QED BY <1>1, <1>2, <1>6, <1>7, Zenon

LEMMA ElementsTail ==
  ASSUME NEW q \in Seq(AsyncMessages), q # <<>>, NoTwice(q)
  PROVE  /\ Tail(q) \in Seq(AsyncMessages) /\ NoTwice(Tail(q)) /\ Head(q) \in AsyncMessages
         /\ Head(q) \notin Elements(Tail(q))
         /\ Elements(q) = Elements(Tail(q)) \cup {Head(q)}
<1>1. PICK r : r = Tail(q)
  BY Zenon
<1>2. /\ r \in Seq(AsyncMessages) /\ Len(r) = Len(q) - 1 /\ Len(q) >= 1 /\ Head(q) = q[1]
      /\ \A i \in 1 .. Len(r) : r[i] = q[i + 1]
  BY <1>1
<1>3. Len(q) \in Nat /\ DOMAIN q = 1 .. Len(q) /\ DOMAIN r = 1 .. Len(r) /\ \A i \in 1 .. Len(q) : q[i] \in AsyncMessages
  BY <1>2, ElementsIn, Zenon
<1>4. /\ \A i \in 1 .. Len(r) : i + 1 \in 1 .. Len(q) /\ i + 1 # 1
      /\ \A i, j \in 1 .. Len(r) : i + 1 = j + 1 => i = j
      /\ 1 \in 1 .. Len(q)
  BY <1>2, <1>3
<1>5. \A i \in 1 .. Len(q) : i = 1 \/ \E j \in 1 .. Len(r) : i = j + 1
  <2> SUFFICES ASSUME NEW i \in 1 .. Len(q), i # 1 PROVE i - 1 \in 1 .. Len(r) /\ i = (i - 1) + 1
    BY Zenon
  <2> QED BY <1>2, <1>3
<1>6. NoTwice(r)
  <2> SUFFICES ASSUME NEW i \in 1 .. Len(r), NEW j \in 1 .. Len(r), r[i] = r[j] PROVE i = j
    BY <1>3, Zenon DEF NoTwice
  <2>1. i + 1 \in 1 .. Len(q) /\ j + 1 \in 1 .. Len(q) /\ q[i + 1] = q[j + 1]
    BY <1>2, <1>4, Zenon
  <2>2. i + 1 = j + 1
    BY <1>3, <2>1, Zenon DEF NoTwice
  <2> QED BY <1>4, <2>2, Zenon
<1>7. \A x : x \in Elements(r) <=> \E i \in 1 .. Len(r) : r[i] = x
  BY <1>2, ElementsIn, Zenon
<1>8. \A x : x \in Elements(q) <=> \E i \in 1 .. Len(q) : q[i] = x
  BY ElementsIn, Zenon
<1>9. q[1] \notin Elements(r)
  <2> SUFFICES ASSUME NEW i \in 1 .. Len(r), r[i] = q[1] PROVE FALSE
    BY <1>7, Zenon
  <2>1. i + 1 \in 1 .. Len(q) /\ q[i + 1] = q[1] /\ i + 1 # 1
    BY <1>2, <1>4, Zenon
  <2> QED BY <1>3, <1>4, <2>1, Zenon DEF NoTwice
<1>10. ASSUME NEW x PROVE x \in Elements(q) <=> x \in Elements(r) \/ x = q[1]
  <2>1. ASSUME NEW i \in 1 .. Len(q), q[i] = x PROVE x \in Elements(r) \/ x = q[1]
    <3>1. CASE i = 1
      BY <2>1, <3>1, Zenon
    <3>2. ASSUME NEW j \in 1 .. Len(r), i = j + 1 PROVE x \in Elements(r)
      BY <1>2, <1>7, <2>1, <3>2, Zenon
    <3> QED BY <1>5, <3>1, <3>2, Zenon
  <2>2. ASSUME NEW i \in 1 .. Len(r), r[i] = x PROVE x \in Elements(q)
    BY <1>2, <1>4, <1>8, <2>2, Zenon
  <2>3. x = q[1] => x \in Elements(q)
    BY <1>4, <1>8, Zenon
  <2> QED BY <1>7, <1>8, <2>1, <2>2, <2>3, Zenon
<1> QED BY <1>1, <1>2, <1>3, <1>4, <1>6, <1>9, <1>10, Zenon


LEMMA ElementsCount ==
  ASSUME NEW q \in Seq(AsyncMessages), NoTwice(q)
  PROVE  IsFiniteSet(Elements(q)) /\ Cardinality(Elements(q)) = Len(q)
<1>1. PICK n, E : n = Len(q) /\ E = Elements(q)
  BY Zenon
<1>2. n \in Nat /\ DOMAIN q = 1 .. n /\ \A m : m \in E <=> \E i \in 1 .. n : q[i] = m
  BY <1>1, ElementsIn, Zenon
<1>3. q \in [1 .. n -> E]
  <2>1. q = [i \in 1 .. n |-> q[i]]
    BY <1>1
  <2> QED BY <1>2, <2>1, Zenon
<1>4. q \in Injection(1 .. n, E)
  BY <1>2, <1>3, Zenon DEF Injection, IsInjective, NoTwice
<1>5. q \in Surjection(1 .. n, E)
  BY <1>2, <1>3, Zenon DEF Surjection
<1>6. ExistsBijection(1 .. n, E)
  BY <1>4, <1>5, Zenon DEF ExistsBijection, Bijection
<1>7. IsFiniteSet(1 .. n) /\ Cardinality(1 .. n) = IF 1 > n THEN 0 ELSE n - 1 + 1
  BY <1>2, FS_Interval
<1>8. (IF 1 > n THEN 0 ELSE n - 1 + 1) = n
  BY <1>2
<1>9. IsFiniteSet(E) /\ Cardinality(E) = Cardinality(1 .. n)
  BY <1>6, <1>7, FS_Bijection, Zenon
<1> QED BY <1>1, <1>7, <1>8, <1>9, Zenon

\* A shard receives: the message is in the same shard as before.
LEMMA QueuedReceive ==
  ASSUME NEW q, NEW b, Queued(q, b), q # <<>>
  PROVE  /\ Queued(Tail(q), Append(b, Head(q)))
         /\ Elements(Tail(q)) \cup Elements(Append(b, Head(q))) =
              Elements(q) \cup Elements(b)
<1>1. PICK h, r : h = Head(q) /\ r = Tail(q)
  BY Zenon
<1>2. /\ r \in Seq(AsyncMessages) /\ NoTwice(r) /\ h \in AsyncMessages /\ h \notin Elements(r)
      /\ Elements(q) = Elements(r) \cup {h}
  BY <1>1, ElementsTail, Zenon DEF Queued
<1>3. h \notin Elements(b) /\ b \in Seq(AsyncMessages) /\ NoTwice(b)
  BY <1>2, Zenon DEF Queued
<1>4. /\ Append(b, h) \in Seq(AsyncMessages) /\ NoTwice(Append(b, h))
      /\ Elements(Append(b, h)) = Elements(b) \cup {h}
  BY <1>2, <1>3, ElementsAppend, Zenon
<1>5. Elements(r) \cap (Elements(b) \cup {h}) = {}
  BY <1>2, Zenon DEF Queued
<1>6. Queued(r, Append(b, h))
  BY <1>2, <1>4, <1>5, Zenon DEF Queued
<1> QED BY <1>1, <1>2, <1>4, <1>6, Zenon

LEMMA QueuedSend ==
  ASSUME NEW q, NEW b, Queued(q, b), NEW m \in AsyncMessages,
         m \notin Elements(q), m \notin Elements(b)
  PROVE  Queued(Append(q, m), b) /\ Elements(Append(q, m)) = Elements(q) \cup {m}
<1>1. /\ Append(q, m) \in Seq(AsyncMessages) /\ NoTwice(Append(q, m))
      /\ Elements(Append(q, m)) = Elements(q) \cup {m}
  BY ElementsAppend, Zenon DEF Queued
<1>2. (Elements(q) \cup {m}) \cap Elements(b) = {}
  BY Zenon DEF Queued
<1> QED BY <1>1, <1>2, Zenon DEF Queued

LEMMA QueuedFlush ==
  ASSUME NEW q, NEW b, Queued(q, b)
  PROVE  Queued(q, <<>>) /\ Elements(<<>>) = {} /\ q \in Seq(AsyncMessages) /\ b \in Seq(AsyncMessages) /\ NoTwice(b)
<1>1. <<>> \in Seq(AsyncMessages) /\ DOMAIN <<>> = {}
  OBVIOUS
<1>2. Elements(<<>>) = {} /\ NoTwice(<<>>)
  BY <1>1, Zenon DEF Elements, NoTwice
<1> QED BY <1>1, <1>2, Zenon DEF Queued

\* Counting.

LEMMA CardJoin ==
  ASSUME NEW S, NEW T, IsFiniteSet(S), IsFiniteSet(T), S \cap T = {}
  PROVE  IsFiniteSet(S \cup T) /\ Cardinality(S \cup T) = Cardinality(S) + Cardinality(T)
<1>1. IsFiniteSet(S \cup T) /\ Cardinality(S \cup T) = Cardinality(S) + Cardinality(T) - Cardinality(S \cap T)
  BY FS_Union, Zenon
<1>2. Cardinality(S \cap T) = 0
  BY FS_EmptySet, Zenon
<1>3. Cardinality(S) \in Nat /\ Cardinality(T) \in Nat
  BY FS_CardinalityType, Zenon
<1> QED BY <1>1, <1>2, <1>3

LEMMA CardOneMore ==
  ASSUME NEW S, NEW x, IsFiniteSet(S), x \notin S
  PROVE  IsFiniteSet(S \cup {x}) /\ Cardinality(S \cup {x}) = Cardinality(S) + 1
<1>1. /\ IsFiniteSet(S \cup {x})
      /\ Cardinality(S \cup {x}) = IF x \in S THEN Cardinality(S) ELSE Cardinality(S) + 1
  BY FS_AddElement, Zenon
<1> QED BY <1>1, Zenon

\* The messages of one confirmation.
LEMMA CardRow ==
  ASSUME NEW k, NEW n \in Nat
  PROVE  IsFiniteSet({k} \X (1 .. n)) /\ Cardinality({k} \X (1 .. n)) = n
<1>1. IsFiniteSet(1 .. n) /\ Cardinality(1 .. n) = IF 1 > n THEN 0 ELSE n - 1 + 1
  BY FS_Interval
<1>2. (IF 1 > n THEN 0 ELSE n - 1 + 1) = n
  OBVIOUS
<1>3. IsFiniteSet({k}) /\ Cardinality({k}) = 1
  BY FS_Singleton, Zenon
<1>4. /\ IsFiniteSet({k} \X (1 .. n))
      /\ Cardinality({k} \X (1 .. n)) = Cardinality({k}) * Cardinality(1 .. n)
  BY <1>1, <1>3, FS_Product, Zenon
<1>5. 1 * n = n
  OBVIOUS
<1> QED BY <1>1, <1>2, <1>3, <1>4, <1>5, Zenon

\* A confirmation joins the channel.
LEMMA SentAppend ==
  ASSUME NEW n \in Nat, NEW q \in Seq(Confirmation), NEW c \in Confirmation
  PROVE  /\ OkSent(n, Append(q, c)) = OkSent(n, q) \cup OkOf(c, n + Len(q) + 1)
         /\ FailedSent(n, Append(q, c)) = FailedSent(n, q) \cup FailedOf(c, n + Len(q) + 1)
         /\ OkSent(n, q) \cap OkOf(c, n + Len(q) + 1) = {}
         /\ FailedSent(n, q) \cap FailedOf(c, n + Len(q) + 1) = {}
<1>0. PICK k : k = n + Len(q) + 1
  BY Zenon
<1>1. PICK r : r = Append(q, c)
  BY Zenon
<1>2. Len(r) = Len(q) + 1 /\ r[Len(q) + 1] = c /\ (\A i \in 1 .. Len(q) : r[i] = q[i]) /\ Len(q) \in Nat
  BY <1>1
<1>3. /\ k \in (n + 1) .. (n + Len(r)) /\ k - n = Len(q) + 1 /\ k \notin (n + 1) .. (n + Len(q))
      /\ \A i : i \in (n + 1) .. (n + Len(r)) <=> i \in (n + 1) .. (n + Len(q)) \/ i = k
      /\ \A i \in (n + 1) .. (n + Len(q)) : i - n \in 1 .. Len(q)
  BY <1>0, <1>2
<1>4. r[k - n] = c /\ \A i \in (n + 1) .. (n + Len(q)) : r[i - n] = q[i - n]
  BY <1>2, <1>3, Zenon
<1>5. c.result \in {"ok", "failed"} /\ c.size \in Nat /\ \A z \in 1 .. c.size : z \in Nat
  BY DEF Confirmation
<1>6. (c.result = "ok") <=> ~(c.result = "failed")
  BY <1>5
<1>7. \A i : i \in FailedSent(n, r) <=> i \in FailedSent(n, q) \/ (i = k /\ c.result = "failed")
  BY <1>3, <1>4, Zenon DEF FailedSent
<1>8. \A i, z : <<i, z>> \in OkSent(n, r) <=>
        <<i, z>> \in OkSent(n, q) \/ (i = k /\ c.result = "ok" /\ z \in 1 .. c.size)
  BY <1>3, <1>4, <1>5, Zenon DEF OkSent
<1>9. OkSent(n, r) = OkSent(n, q) \cup OkOf(c, k)
  <2>1. /\ \A p \in OkSent(n, r) : p = <<p[1], p[2]>>
        /\ \A p \in OkSent(n, q) : p = <<p[1], p[2]>>
        /\ \A p \in {k} \X (1 .. c.size) : p = <<p[1], p[2]>>
    BY DEF OkSent
  <2>3. CASE c.result = "ok"
    <3>1. \A i, z : <<i, z>> \in {k} \X (1 .. c.size) <=> i = k /\ z \in 1 .. c.size
      BY Zenon
    <3>2. \A i, z : <<i, z>> \in OkSent(n, r) <=> <<i, z>> \in OkSent(n, q) \/ <<i, z>> \in {k} \X (1 .. c.size)
      BY <1>8, <2>3, <3>1, Zenon
    <3>3. \A p : p \in OkSent(n, r) <=> p \in OkSent(n, q) \/ p \in {k} \X (1 .. c.size)
      BY <2>1, <3>2, SMT
    <3> QED BY <2>3, <3>3, Zenon DEF OkOf
  <2>4. CASE c.result # "ok"
    <3>1. \A i, z : <<i, z>> \in OkSent(n, r) <=> <<i, z>> \in OkSent(n, q)
      BY <1>8, <2>4, Zenon
    <3>2. \A p : p \in OkSent(n, r) <=> p \in OkSent(n, q)
      BY <2>1, <3>1, SMT
    <3> QED BY <2>4, <3>2, Zenon DEF OkOf
  <2> QED BY <2>3, <2>4, Zenon
<1>10. FailedSent(n, r) = FailedSent(n, q) \cup FailedOf(c, k)
  BY <1>6, <1>7, Zenon DEF FailedOf
<1>11. OkSent(n, q) \cap OkOf(c, k) = {} /\ FailedSent(n, q) \cap FailedOf(c, k) = {}
  <2>1. k \notin FailedSent(n, q) /\ \A p \in OkSent(n, q) : p[1] # k
    BY <1>3, Zenon DEF FailedSent, OkSent
  <2>2. (\A p \in OkOf(c, k) : p[1] = k) /\ \A i \in FailedOf(c, k) : i = k
    BY DEF OkOf, FailedOf
  <2> QED BY <2>1, <2>2, Zenon
<1> QED BY <1>0, <1>1, <1>9, <1>10, <1>11, Zenon


\* The oldest confirmation leaves the channel and is counted.
LEMMA SentTail ==
  ASSUME NEW n \in Nat, NEW q \in Seq(Confirmation), q # <<>>
  PROVE  /\ OkSent(n, q) = OkSent(n + 1, Tail(q)) \cup OkOf(Head(q), n + 1)
         /\ FailedSent(n, q) = FailedSent(n + 1, Tail(q)) \cup FailedOf(Head(q), n + 1)
         /\ OkSent(n + 1, Tail(q)) \cap OkOf(Head(q), n + 1) = {}
         /\ FailedSent(n + 1, Tail(q)) \cap FailedOf(Head(q), n + 1) = {}
         /\ Tail(q) \in Seq(Confirmation) /\ Head(q) \in Confirmation
         /\ Len(q) = Len(Tail(q)) + 1 /\ Len(Tail(q)) \in Nat
<1>0. PICK c, k : c = Head(q) /\ k = n + 1
  BY Zenon
<1>1. PICK r : r = Tail(q)
  BY Zenon
<1>2. /\ r \in Seq(Confirmation) /\ Len(r) = Len(q) - 1 /\ Len(q) >= 1 /\ c = q[1] /\ c \in Confirmation
      /\ Len(q) \in Nat /\ Len(r) \in Nat /\ \A i \in 1 .. Len(r) : r[i] = q[i + 1]
  BY <1>0, <1>1
<1>3. /\ k \in (n + 1) .. (n + Len(q)) /\ k - n = 1 /\ k \notin (k + 1) .. (k + Len(r))
      /\ \A i : i \in (n + 1) .. (n + Len(q)) <=> i \in (k + 1) .. (k + Len(r)) \/ i = k
      /\ \A i \in (k + 1) .. (k + Len(r)) : i - k \in 1 .. Len(r) /\ (i - k) + 1 = i - n
  BY <1>0, <1>2
<1>4. q[k - n] = c /\ \A i \in (k + 1) .. (k + Len(r)) : q[i - n] = r[i - k]
  BY <1>2, <1>3, Zenon
<1>5. c.result \in {"ok", "failed"} /\ c.size \in Nat /\ \A z \in 1 .. c.size : z \in Nat
  BY <1>2 DEF Confirmation
<1>6. (c.result = "ok") <=> ~(c.result = "failed")
  BY <1>5
<1>7. \A i : i \in FailedSent(n, q) <=> i \in FailedSent(k, r) \/ (i = k /\ c.result = "failed")
  BY <1>3, <1>4, Zenon DEF FailedSent
<1>8. \A i, z : <<i, z>> \in OkSent(n, q) <=>
        <<i, z>> \in OkSent(k, r) \/ (i = k /\ c.result = "ok" /\ z \in 1 .. c.size)
  BY <1>3, <1>4, <1>5, Zenon DEF OkSent
<1>9. OkSent(n, q) = OkSent(k, r) \cup OkOf(c, k)
  <2>1. /\ \A p \in OkSent(n, q) : p = <<p[1], p[2]>>
        /\ \A p \in OkSent(k, r) : p = <<p[1], p[2]>>
        /\ \A p \in {k} \X (1 .. c.size) : p = <<p[1], p[2]>>
    BY DEF OkSent
  <2>2. CASE c.result = "ok"
    <3>1. \A i, z : <<i, z>> \in {k} \X (1 .. c.size) <=> i = k /\ z \in 1 .. c.size
      BY Zenon
    <3>2. \A i, z : <<i, z>> \in OkSent(n, q) <=> <<i, z>> \in OkSent(k, r) \/ <<i, z>> \in {k} \X (1 .. c.size)
      BY <1>8, <2>2, <3>1, Zenon
    <3>3. \A p : p \in OkSent(n, q) <=> p \in OkSent(k, r) \/ p \in {k} \X (1 .. c.size)
      BY <2>1, <3>2, SMT
    <3> QED BY <2>2, <3>3, Zenon DEF OkOf
  <2>3. CASE c.result # "ok"
    <3>1. \A i, z : <<i, z>> \in OkSent(n, q) <=> <<i, z>> \in OkSent(k, r)
      BY <1>8, <2>3, Zenon
    <3>2. \A p : p \in OkSent(n, q) <=> p \in OkSent(k, r)
      BY <2>1, <3>1, SMT
    <3> QED BY <2>3, <3>2, Zenon DEF OkOf
  <2> QED BY <2>2, <2>3, Zenon
<1>10. FailedSent(n, q) = FailedSent(k, r) \cup FailedOf(c, k)
  BY <1>6, <1>7, Zenon DEF FailedOf
<1>11. OkSent(k, r) \cap OkOf(c, k) = {} /\ FailedSent(k, r) \cap FailedOf(c, k) = {}
  <2>1. k \notin FailedSent(k, r) /\ \A p \in OkSent(k, r) : p[1] # k
    BY <1>3, Zenon DEF FailedSent, OkSent
  <2>2. (\A p \in OkOf(c, k) : p[1] = k) /\ \A i \in FailedOf(c, k) : i = k
    BY DEF OkOf, FailedOf
  <2> QED BY <2>1, <2>2, Zenon
<1>12. Len(q) = Len(r) + 1
  BY <1>2
<1> QED BY <1>0, <1>1, <1>2, <1>9, <1>10, <1>11, <1>12, Zenon

\* What one confirmation adds to both counts.
LEMMA CountOf ==
  ASSUME NEW c \in Confirmation, NEW k
  PROVE  /\ IsFiniteSet(OkOf(c, k)) /\ Cardinality(OkOf(c, k)) = OkCount(c) /\ OkCount(c) \in Nat
         /\ IsFiniteSet(FailedOf(c, k)) /\ Cardinality(FailedOf(c, k)) = FailedCount(c) /\ FailedCount(c) \in Nat
<1>1. c.size \in Nat /\ 0 \in Nat /\ 1 \in Nat
  BY DEF Confirmation
<1>2. IsFiniteSet({}) /\ Cardinality({}) = 0 /\ IsFiniteSet({k}) /\ Cardinality({k}) = 1
  BY FS_EmptySet, FS_Singleton, Zenon
<1>3. IsFiniteSet({k} \X (1 .. c.size)) /\ Cardinality({k} \X (1 .. c.size)) = c.size
  BY <1>1, CardRow, Zenon
<1>4. CASE c.result = "ok"
  BY <1>1, <1>2, <1>3, <1>4, Zenon DEF OkOf, FailedOf, OkCount, FailedCount
<1>5. CASE c.result # "ok"
  BY <1>1, <1>2, <1>5, Zenon DEF OkOf, FailedOf, OkCount, FailedCount
<1> QED BY <1>4, <1>5, Zenon

LEMMA OkSentCount ==
  ASSUME NEW S, NEW c \in Confirmation, NEW k, IsFiniteSet(S), S \cap OkOf(c, k) = {}
  PROVE  /\ IsFiniteSet(S \cup OkOf(c, k))
         /\ Cardinality(S \cup OkOf(c, k)) = Cardinality(S) + OkCount(c)
<1>1. PICK R : R = OkOf(c, k)
  BY Zenon
<1>2. IsFiniteSet(R) /\ Cardinality(R) = OkCount(c)
  BY <1>1, CountOf, Zenon
<1>3. IsFiniteSet(S) /\ IsFiniteSet(R) /\ S \cap R = {}
  BY <1>1, <1>2, Zenon
<1>4. IsFiniteSet(S \cup R) /\ Cardinality(S \cup R) = Cardinality(S) + Cardinality(R)
  BY ONLY <1>3, CardJoin, Zenon
<1> QED BY <1>1, <1>2, <1>4, Zenon

LEMMA FailedSentCount ==
  ASSUME NEW S, NEW c \in Confirmation, NEW k, IsFiniteSet(S), S \cap FailedOf(c, k) = {}
  PROVE  /\ IsFiniteSet(S \cup FailedOf(c, k))
         /\ Cardinality(S \cup FailedOf(c, k)) = Cardinality(S) + FailedCount(c)
<1>1. PICK R : R = FailedOf(c, k)
  BY Zenon
<1>2. IsFiniteSet(R) /\ Cardinality(R) = FailedCount(c)
  BY <1>1, CountOf, Zenon
<1>3. IsFiniteSet(S) /\ IsFiniteSet(R) /\ S \cap R = {}
  BY <1>1, <1>2, Zenon
<1>4. IsFiniteSet(S \cup R) /\ Cardinality(S \cup R) = Cardinality(S) + Cardinality(R)
  BY ONLY <1>3, CardJoin, Zenon
<1> QED BY <1>1, <1>2, <1>4, Zenon

\* The batches the goroutines hold.

LEMMA BatchFacts ==
  ASSUME NEW w \in Batch
  PROVE  /\ w.batch \in Seq(AsyncMessages) /\ w.result \in {"none", "ok", "failed"}
         /\ \A m \in Elements(w.batch) : m \in AsyncMessages
         /\ w = [batch |-> w.batch, result |-> w.result]
<1>1. w.batch \in Seq(AsyncMessages) /\ w.result \in {"none", "ok", "failed"}
  BY Zenon DEF Batch
<1>2. w = [batch |-> w.batch, result |-> w.result]
  BY DEF Batch
<1>3. \A m \in Elements(w.batch) : m \in AsyncMessages
  <2>1. PICK b : b = w.batch
    BY Zenon
  <2>2. b \in Seq(AsyncMessages)
    BY <1>1, <2>1, Zenon
  <2>3. \A m \in Elements(b) : m \in AsyncMessages
    BY ONLY <2>2, ElementsIn, Zenon
  <2> QED BY <2>1, <2>3, Zenon
<1> QED BY <1>1, <1>2, <1>3, Zenon

LEMMA BatchResult ==
  ASSUME NEW w \in Batch, NEW r \in {"none", "ok", "failed"}
  PROVE  /\ [w EXCEPT !.result = r] \in Batch
         /\ [w EXCEPT !.result = r].batch = w.batch /\ [w EXCEPT !.result = r].result = r
BY Zenon DEF Batch

LEMMA BatchNew ==
  ASSUME NEW b \in Seq(AsyncMessages)
  PROVE  /\ [batch |-> b, result |-> "none"] \in Batch
         /\ [batch |-> b, result |-> "none"].batch = b /\ [batch |-> b, result |-> "none"].result = "none"
BY Zenon DEF Batch

LEMMA HeldFinite ==
  ASSUME NEW ws \in SUBSET Batch, IsFiniteSet(ws)
  PROVE  /\ IsFiniteSet(OkHeld(ws)) /\ Cardinality(OkHeld(ws)) \in Nat
         /\ IsFiniteSet(FailedHeld(ws)) /\ Cardinality(FailedHeld(ws)) \in Nat
<1>1. OkHeld(ws) \in SUBSET AsyncMessages /\ FailedHeld(ws) \in SUBSET ws /\ IsFiniteSet(AsyncMessages)
  BY AsyncAssumption, Zenon DEF OkHeld, FailedHeld
<1>2. IsFiniteSet(OkHeld(ws)) /\ IsFiniteSet(FailedHeld(ws))
  BY <1>1, FS_Subset, Zenon
<1> QED BY <1>2, FS_CardinalityType, Zenon

LEMMA HeldNew ==
  ASSUME NEW ws \in SUBSET Batch, NEW w, w.result = "none"
  PROVE  OkHeld(ws \cup {w}) = OkHeld(ws) /\ FailedHeld(ws \cup {w}) = FailedHeld(ws)
<1>1. w.result # "ok" /\ w.result # "failed"
  OBVIOUS
<1> QED BY <1>1, Zenon DEF OkHeld, FailedHeld

\* A goroutine's batch is stored, or is not.
LEMMA HeldStored ==
  ASSUME NEW ws \in SUBSET Batch, NEW w \in ws, NEW x \in Batch, w.result = "none", x.batch = w.batch
  PROVE  /\ x.result = "ok" => /\ OkHeld((ws \ {w}) \cup {x}) = OkHeld(ws) \cup Elements(w.batch)
                               /\ FailedHeld((ws \ {w}) \cup {x}) = FailedHeld(ws)
         /\ x.result = "failed" => /\ OkHeld((ws \ {w}) \cup {x}) = OkHeld(ws)
                                   /\ FailedHeld((ws \ {w}) \cup {x}) = FailedHeld(ws) \cup {x}
<1>1. w.result # "ok" /\ w.result # "failed" /\ \A m \in Elements(w.batch) : m \in AsyncMessages
  BY BatchFacts
<1>2. ASSUME x.result = "ok"
      PROVE  /\ OkHeld((ws \ {w}) \cup {x}) = OkHeld(ws) \cup Elements(w.batch)
             /\ FailedHeld((ws \ {w}) \cup {x}) = FailedHeld(ws)
  <2>1. x.result # "failed"
    BY <1>2
  <2>2. FailedHeld((ws \ {w}) \cup {x}) = FailedHeld(ws)
    BY <1>1, <2>1, Zenon DEF FailedHeld
  <2>3. ASSUME NEW m PROVE m \in OkHeld((ws \ {w}) \cup {x}) <=> m \in OkHeld(ws) \/ m \in Elements(w.batch)
    BY <1>1, <1>2, Zenon DEF OkHeld
  <2> QED BY <2>2, <2>3, Zenon
<1>3. ASSUME x.result = "failed"
      PROVE  /\ OkHeld((ws \ {w}) \cup {x}) = OkHeld(ws)
             /\ FailedHeld((ws \ {w}) \cup {x}) = FailedHeld(ws) \cup {x}
  <2>1. x.result # "ok"
    BY <1>3
  <2>2. FailedHeld((ws \ {w}) \cup {x}) = FailedHeld(ws) \cup {x}
    BY <1>1, <1>3, Zenon DEF FailedHeld
  <2>3. OkHeld((ws \ {w}) \cup {x}) = OkHeld(ws)
    BY <1>1, <2>1, Zenon DEF OkHeld
  <2> QED BY <2>2, <2>3, Zenon
<1> QED BY <1>2, <1>3, Zenon

\* A goroutine has sent its confirmation.
LEMMA HeldSent ==
  ASSUME NEW ws \in SUBSET Batch, NEW w \in ws,
         \A m \in Elements(w.batch) : \A v \in ws : m \in Elements(v.batch) => v = w
  PROVE  /\ w.result = "ok" => /\ OkHeld(ws) = OkHeld(ws \ {w}) \cup Elements(w.batch)
                               /\ OkHeld(ws \ {w}) \cap Elements(w.batch) = {}
                               /\ FailedHeld(ws) = FailedHeld(ws \ {w})
         /\ w.result = "failed" => /\ OkHeld(ws) = OkHeld(ws \ {w})
                                   /\ FailedHeld(ws) = FailedHeld(ws \ {w}) \cup {w}
         /\ w \notin FailedHeld(ws \ {w})
<1>1. \A m \in Elements(w.batch) : m \in AsyncMessages
  BY BatchFacts, Zenon
<1>2. ASSUME w.result = "ok"
      PROVE  /\ OkHeld(ws) = OkHeld(ws \ {w}) \cup Elements(w.batch)
             /\ OkHeld(ws \ {w}) \cap Elements(w.batch) = {}
             /\ FailedHeld(ws) = FailedHeld(ws \ {w})
  <2>1. w.result # "failed"
    BY <1>2
  <2>2. FailedHeld(ws) = FailedHeld(ws \ {w})
    BY <2>1, Zenon DEF FailedHeld
  <2>3. ASSUME NEW m PROVE m \in OkHeld(ws) <=> m \in OkHeld(ws \ {w}) \/ m \in Elements(w.batch)
    BY <1>1, <1>2, Zenon DEF OkHeld
  <2>4. OkHeld(ws \ {w}) \cap Elements(w.batch) = {}
    BY Zenon DEF OkHeld
  <2> QED BY <2>2, <2>3, <2>4, Zenon
<1>3. ASSUME w.result = "failed"
      PROVE  OkHeld(ws) = OkHeld(ws \ {w}) /\ FailedHeld(ws) = FailedHeld(ws \ {w}) \cup {w}
  <2>1. w.result # "ok"
    BY <1>3
  <2> QED BY <1>3, <2>1, Zenon DEF OkHeld, FailedHeld
<1>4. w \notin FailedHeld(ws \ {w})
  BY Zenon DEF FailedHeld
<1> QED BY <1>2, <1>3, <1>4, Zenon


\* The metrics after the confirmation of a batch of n messages.
Counted(x, n) == [x EXCEPT !.confirmed = @ + 1, !.messages = @ + n, !.pending = @ - 1]

LEMMA MetricsPending ==
  ASSUME NEW x \in Metrics
  PROVE  \A y : y = [x EXCEPT !.pending = @ + 1] =>
           /\ y \in Metrics /\ y.pending = x.pending + 1 /\ y.confirmed = x.confirmed
           /\ y.failed = x.failed /\ y.messages = x.messages
<1>1. x.pending \in Int
  BY Zenon DEF Metrics
<1>2. x.pending + 1 \in Int
  BY <1>1
<1> QED BY <1>2, ZenonT(30) DEF Metrics

LEMMA MetricsConfirmed ==
  ASSUME NEW x \in Metrics, NEW n \in Nat
  PROVE  /\ Counted(x, n) \in Metrics /\ Counted(x, n).pending = x.pending - 1
         /\ Counted(x, n).confirmed = x.confirmed + 1 /\ Counted(x, n).failed = x.failed
         /\ Counted(x, n).messages = x.messages + n
<1>1. x.pending \in Int /\ x.confirmed \in Nat /\ x.messages \in Nat
  BY Zenon DEF Metrics
<1>2. x.pending - 1 \in Int /\ x.confirmed + 1 \in Nat /\ x.messages + n \in Nat
  BY <1>1
<1> QED BY <1>2, ZenonT(30) DEF Metrics, Counted

LEMMA MetricsFailed ==
  ASSUME NEW x \in Metrics
  PROVE  \A y : y = [x EXCEPT !.failed = @ + 1, !.pending = @ - 1] =>
           /\ y \in Metrics /\ y.pending = x.pending - 1 /\ y.confirmed = x.confirmed
           /\ y.failed = x.failed + 1 /\ y.messages = x.messages
<1>1. x.pending \in Int /\ x.failed \in Nat
  BY Zenon DEF Metrics
<1>2. x.pending - 1 \in Int /\ x.failed + 1 \in Nat
  BY <1>1
<1> QED BY <1>2, ZenonT(30) DEF Metrics

LEMMA AsyncUnchanged ==
  ASSUME AsyncInv,
         UNCHANGED <<input, currentBatch, aWrite, writers, confirmChan, metrics, aStored, aErrors>>
  PROVE  AsyncInv'
<1>1. AsyncType'
  BY Zenon DEF AsyncInv, AsyncType, Shards
<1>2. QueuedInv'
  BY Zenon DEF AsyncInv, QueuedInv, Shards
<1>3. BatchesInv'
  BY Zenon DEF AsyncInv, BatchesInv
<1>4. CountsInv'
  BY Zenon DEF AsyncInv, CountsInv, Seen
<1> QED BY <1>1, <1>2, <1>3, <1>4, Zenon DEF AsyncInv

\* A call of Write goes on: the messages taken so far are still those it returned nil for.
LEMMA AsyncWritten ==
  ASSUME AsyncInv, NEW m \in AsyncMessages, NEW r, aWrite[m] # "nil", aWrite' = [aWrite EXCEPT ![m] = r]
  PROVE  /\ DOMAIN aWrite' = AsyncMessages /\ aWrite'[m] = r
         /\ \A x \in AsyncMessages : aWrite[x] = "nil" => aWrite'[x] = "nil"
BY Zenon DEF AsyncInv, AsyncType

\* The messages that a shard or a goroutine holds are messages.
LEMMA AsyncHeld ==
  ASSUME AsyncInv
  PROVE  /\ \A s \in Shards :
              \A m \in Elements(input[s]) \cup Elements(currentBatch[s]) : m \in AsyncMessages
         /\ \A w \in writers : w \in Batch /\ \A m \in Elements(w.batch) : m \in AsyncMessages
<1>1. ASSUME NEW s \in Shards
      PROVE  \A m \in Elements(input[s]) \cup Elements(currentBatch[s]) : m \in AsyncMessages
  <2>1. PICK q, b : q = input[s] /\ b = currentBatch[s]
    BY Zenon
  <2>2. q \in Seq(AsyncMessages) /\ b \in Seq(AsyncMessages)
    BY <2>1, Zenon DEF AsyncInv, QueuedInv, Queued
  <2>3. \A m \in Elements(q) \cup Elements(b) : m \in AsyncMessages
    BY ONLY <2>2, ElementsIn, ZenonT(30)
  <2> QED BY <2>1, <2>3, Zenon
<1>2. ASSUME NEW w \in writers PROVE w \in Batch /\ \A m \in Elements(w.batch) : m \in AsyncMessages
  <2>1. w \in Batch
    BY Zenon DEF AsyncInv, AsyncType
  <2> QED BY <2>1, BatchFacts, Zenon
<1> QED BY <1>1, <1>2, Zenon

LEMMA AsyncBatchesWritten ==
  ASSUME AsyncInv, UNCHANGED <<writers, aStored>>,
         \A x \in AsyncMessages : aWrite[x] = "nil" => aWrite'[x] = "nil"
  PROVE  BatchesInv'
<1>1. ASSUME NEW w \in writers
      PROVE  /\ w.batch # <<>> /\ NoTwice(w.batch)
             /\ \A m \in Elements(w.batch) :
                  /\ aWrite'[m] = "nil" /\ (m \in aStored <=> w.result = "ok")
                  /\ \A v \in writers : m \in Elements(v.batch) => v = w
  BY AsyncHeld, Zenon DEF AsyncInv, BatchesInv
<1>2. \A m \in aStored : aWrite'[m] = "nil"
  BY Zenon DEF AsyncInv, AsyncType, BatchesInv
<1> QED BY <1>1, <1>2, Zenon DEF BatchesInv

LEMMA AsyncCountsSame ==
  ASSUME AsyncInv, UNCHANGED <<writers, confirmChan, metrics, aStored, aErrors>>
  PROVE  CountsInv'
BY Zenon DEF AsyncInv, CountsInv, Seen

LEMMA AsyncWriteOn ==
  ASSUME AsyncInv, NEW m \in AsyncMessages, NEW r, aWrite[m] # "nil", aWrite' = [aWrite EXCEPT ![m] = r],
         UNCHANGED <<input, currentBatch, writers, confirmChan, metrics, aStored, aErrors>>
  PROVE  AsyncInv'
<1>1. DOMAIN aWrite' = AsyncMessages /\ \A x \in AsyncMessages : aWrite[x] = "nil" => aWrite'[x] = "nil"
  BY AsyncWritten, Zenon
<1>2. AsyncType'
  BY <1>1, Zenon DEF AsyncInv, AsyncType, Shards
<1>3. ASSUME NEW s \in Shards
      PROVE  /\ Queued(input[s], currentBatch[s])
             /\ \A x \in Elements(input[s]) \cup Elements(currentBatch[s]) :
                  /\ asyncShardID[x] = s /\ aWrite'[x] = "nil" /\ x \notin aStored
                  /\ \A w \in writers : x \notin Elements(w.batch)
  BY <1>1, AsyncHeld, Zenon DEF AsyncInv, QueuedInv
<1>4. QueuedInv'
  BY <1>3, Zenon DEF QueuedInv, Shards
<1>5. BatchesInv'
  BY <1>1, AsyncBatchesWritten, Zenon
<1>6. CountsInv'
  BY AsyncCountsSame, Zenon
<1> QED BY <1>2, <1>4, <1>5, <1>6, Zenon DEF AsyncInv

\* Write sends the message to the channel of its shard.
LEMMA AsyncTakes ==
  ASSUME AsyncInv, NEW m \in AsyncMessages, NEW s, s = asyncShardID[m], aWrite[m] # "nil",
         input' = [input EXCEPT ![s] = Append(@, m)], aWrite' = [aWrite EXCEPT ![m] = "nil"],
         UNCHANGED <<currentBatch, writers, confirmChan, metrics, aStored, aErrors>>
  PROVE  AsyncInv'
<1>1. /\ DOMAIN aWrite' = AsyncMessages /\ aWrite'[m] = "nil"
      /\ \A x \in AsyncMessages : aWrite[x] = "nil" => aWrite'[x] = "nil"
  BY AsyncWritten, Zenon
<1>2. s \in Shards
  BY AsyncAssumption, Zenon DEF Shards
<1>3. /\ DOMAIN input' = Shards /\ input'[s] = Append(input[s], m)
      /\ \A t \in Shards : t # s => input'[t] = input[t]
  BY <1>2, Zenon DEF AsyncInv, AsyncType
<1>4. AsyncType'
  BY <1>1, <1>3, Zenon DEF AsyncInv, AsyncType, Shards
<1>5. /\ m \notin Elements(input[s]) /\ m \notin Elements(currentBatch[s]) /\ m \notin aStored
      /\ \A w \in writers : m \notin Elements(w.batch)
  BY <1>2, Zenon DEF AsyncInv, QueuedInv, BatchesInv
<1>6. /\ Queued(input'[s], currentBatch[s])
      /\ Elements(input'[s]) = Elements(input[s]) \cup {m}
  <2>1. PICK q, b : q = input[s] /\ b = currentBatch[s]
    BY Zenon
  <2>2. Queued(q, b) /\ m \notin Elements(q) /\ m \notin Elements(b) /\ m \in AsyncMessages
    BY <1>2, <1>5, <2>1, Zenon DEF AsyncInv, QueuedInv
  <2>3. Queued(Append(q, m), b) /\ Elements(Append(q, m)) = Elements(q) \cup {m}
    BY ONLY <2>2, QueuedSend, Zenon
  <2> QED BY <1>3, <2>1, <2>3, Zenon
<1>7. ASSUME NEW t \in Shards
      PROVE  /\ Queued(input'[t], currentBatch[t])
             /\ \A x \in Elements(input'[t]) \cup Elements(currentBatch[t]) :
                  /\ asyncShardID[x] = t /\ aWrite'[x] = "nil" /\ x \notin aStored
                  /\ \A w \in writers : x \notin Elements(w.batch)
  <2>1. /\ Queued(input[t], currentBatch[t])
        /\ \A x \in Elements(input[t]) \cup Elements(currentBatch[t]) :
             /\ asyncShardID[x] = t /\ aWrite'[x] = "nil" /\ x \notin aStored
             /\ \A w \in writers : x \notin Elements(w.batch)
    BY <1>1, AsyncHeld, Zenon DEF AsyncInv, QueuedInv
  <2>2. CASE t = s
    <3>1. ASSUME NEW x \in Elements(input'[s]) \cup Elements(currentBatch[s])
          PROVE  x = m \/ x \in Elements(input[s]) \cup Elements(currentBatch[s])
      BY <1>6, Zenon
    <3>2. ASSUME NEW x \in Elements(input'[s]) \cup Elements(currentBatch[s])
          PROVE  /\ asyncShardID[x] = s /\ aWrite'[x] = "nil" /\ x \notin aStored
                 /\ \A w \in writers : x \notin Elements(w.batch)
      BY <1>1, <1>5, <2>1, <2>2, <3>1, Zenon
    <3> QED BY <1>6, <2>2, <3>2, Zenon
  <2>3. CASE t # s
    BY <1>3, <2>1, <2>3, Zenon
  <2> QED BY <2>2, <2>3, Zenon
<1>8. QueuedInv'
  BY <1>7, Zenon DEF QueuedInv, Shards
<1>9. BatchesInv'
  BY <1>1, AsyncBatchesWritten, Zenon
<1>10. CountsInv'
  BY AsyncCountsSame, Zenon
<1> QED BY <1>4, <1>8, <1>9, <1>10, Zenon DEF AsyncInv


\* Shard s keeps q and b of the messages it had, and the shards hold none of those that
\* the new goroutines ws have.
QueuedMove(s, q, b, ws) ==
  /\ Queued(q, b)
  /\ Elements(q) \cup Elements(b) \subseteq
       Elements(input[s]) \cup Elements(currentBatch[s])
  /\ input'[s] = q /\ currentBatch'[s] = b
  /\ \A t \in Shards : t # s => input'[t] = input[t] /\ currentBatch'[t] = currentBatch[t]
  /\ aWrite' = aWrite /\ aStored' = aStored /\ writers' = writers \cup ws
  /\ \A t \in Shards : \A x \in Elements(input'[t]) \cup Elements(currentBatch'[t]) :
       \A w \in ws : x \notin Elements(w.batch)

LEMMA AsyncQueuedMove ==
  ASSUME AsyncInv, NEW s \in Shards, NEW q, NEW b, NEW ws, QueuedMove(s, q, b, ws)
  PROVE  QueuedInv'
<1>1. ASSUME NEW t \in Shards
      PROVE  /\ Queued(input'[t], currentBatch'[t])
             /\ \A x \in Elements(input'[t]) \cup Elements(currentBatch'[t]) :
                  /\ asyncShardID[x] = t /\ aWrite'[x] = "nil" /\ x \notin aStored'
                  /\ \A w \in writers' : x \notin Elements(w.batch)
  <2>1. /\ Queued(input[t], currentBatch[t])
        /\ \A x \in Elements(input[t]) \cup Elements(currentBatch[t]) :
             /\ asyncShardID[x] = t /\ aWrite[x] = "nil" /\ x \notin aStored
             /\ \A w \in writers : x \notin Elements(w.batch)
    BY Zenon DEF AsyncInv, QueuedInv
  <2>2. /\ Queued(input'[t], currentBatch'[t])
        /\ Elements(input'[t]) \cup Elements(currentBatch'[t]) \subseteq
             Elements(input[t]) \cup Elements(currentBatch[t])
    <3>1. CASE t = s
      BY <3>1, Zenon DEF QueuedMove
    <3>2. CASE t # s
      BY <2>1, <3>2, Zenon DEF QueuedMove
    <3> QED BY <3>1, <3>2, Zenon
  <2>3. ASSUME NEW x \in Elements(input'[t]) \cup Elements(currentBatch'[t])
        PROVE  /\ asyncShardID[x] = t /\ aWrite'[x] = "nil" /\ x \notin aStored'
               /\ \A w \in writers' : x \notin Elements(w.batch)
    <3>1. x \in Elements(input[t]) \cup Elements(currentBatch[t])
      BY <2>2, Zenon
    <3>2. asyncShardID[x] = t /\ aWrite'[x] = "nil" /\ x \notin aStored'
      BY <2>1, <3>1, Zenon DEF QueuedMove
    <3>3. \A w \in writers' : x \notin Elements(w.batch)
      BY <2>1, <3>1, Zenon DEF QueuedMove
    <3> QED BY <3>2, <3>3, Zenon
  <2> QED BY <2>2, <2>3, Zenon
<1> QED BY <1>1, Zenon DEF QueuedInv, Shards

\* A shard receives a message into a batch that is not full.
LEMMA AsyncCollect ==
  ASSUME AsyncInv, NEW s \in Shards, NEW q, NEW b, Queued(q, b),
         Elements(q) \cup Elements(b) =
           Elements(input[s]) \cup Elements(currentBatch[s]),
         input' = [input EXCEPT ![s] = q], currentBatch' = [currentBatch EXCEPT ![s] = b],
         UNCHANGED <<aWrite, writers, confirmChan, metrics, aStored, aErrors>>
  PROVE  AsyncInv'
<1>1. /\ DOMAIN input' = Shards /\ DOMAIN currentBatch' = Shards
      /\ input'[s] = q /\ currentBatch'[s] = b
      /\ \A t \in Shards : t # s => input'[t] = input[t] /\ currentBatch'[t] = currentBatch[t]
  BY Zenon DEF AsyncInv, AsyncType
<1>2. AsyncType'
  BY <1>1, Zenon DEF AsyncInv, AsyncType, Shards
<1>3. writers' = writers \cup {}
  BY Zenon
<1>4. QueuedInv'
  <2>1. /\ Elements(q) \cup Elements(b) \subseteq
             Elements(input[s]) \cup Elements(currentBatch[s])
        /\ \A t \in Shards : \A x \in Elements(input'[t]) \cup Elements(currentBatch'[t]) :
             \A w \in {} : x \notin Elements(w.batch)
    BY Zenon
  <2>2. QueuedMove(s, q, b, {})
    BY <1>1, <1>3, <2>1, Zenon DEF QueuedMove
  <2> QED BY <2>2, AsyncQueuedMove, Zenon
<1>5. BatchesInv'
  BY AsyncBatchesWritten, Zenon
<1>6. CountsInv'
  BY AsyncCountsSame, Zenon
<1> QED BY <1>2, <1>4, <1>5, <1>6, Zenon DEF AsyncInv

\* A shard hands its batch b to a goroutine and begins a new one.
LEMMA AsyncFlush ==
  ASSUME AsyncInv, NEW s \in Shards, NEW q, NEW b, Queued(q, b), b # <<>>,
         Elements(q) \cup Elements(b) =
           Elements(input[s]) \cup Elements(currentBatch[s]),
         /\ DOMAIN input' = Shards /\ DOMAIN currentBatch' = Shards
         /\ input'[s] = q /\ currentBatch'[s] = <<>>
         /\ \A t \in Shards : t # s => input'[t] = input[t] /\ currentBatch'[t] = currentBatch[t],
         writers' = writers \cup {[batch |-> b, result |-> "none"]},
         metrics' = [metrics EXCEPT !.pending = @ + 1],
         UNCHANGED <<aWrite, confirmChan, aStored, aErrors>>
  PROVE  AsyncInv'
<1>1. PICK x : x = [batch |-> b, result |-> "none"]
  BY Zenon
<1>2. /\ Queued(q, <<>>) /\ Elements(<<>>) = {}
      /\ q \in Seq(AsyncMessages) /\ b \in Seq(AsyncMessages) /\ NoTwice(b)
  BY QueuedFlush, Zenon
<1>3. x \in Batch /\ x.batch = b /\ x.result = "none"
  BY <1>1, <1>2, BatchNew, Zenon
<1>4. writers' = writers \cup {x}
  BY <1>1, Zenon
<1>5. \A m \in Elements(b) :
        /\ asyncShardID[m] = s /\ aWrite[m] = "nil" /\ m \notin aStored
        /\ \A w \in writers : m \notin Elements(w.batch)
  BY Zenon DEF AsyncInv, QueuedInv
<1>6. \E m : m \in Elements(b)
  <2>1. 1 \in 1 .. Len(b)
    BY <1>2
  <2>2. b \in Seq(AsyncMessages)
    BY <1>2, Zenon
  <2> QED BY ONLY <2>1, <2>2, ElementsIn, Zenon
<1>7. x \notin writers
  BY <1>3, <1>5, <1>6, Zenon
<1>8. IsFiniteSet(writers) /\ writers \in SUBSET Batch /\ metrics \in Metrics
  BY Zenon DEF AsyncInv, AsyncType
<1>9. IsFiniteSet(writers') /\ Cardinality(writers') = Cardinality(writers) + 1
  <2>1. IsFiniteSet(writers \cup {x}) /\ Cardinality(writers \cup {x}) = Cardinality(writers) + 1
    BY <1>7, <1>8, CardOneMore, Zenon
  <2> QED BY <1>4, <2>1, Zenon
<1>10. /\ metrics' \in Metrics /\ metrics'.pending = metrics.pending + 1
       /\ metrics'.confirmed = metrics.confirmed /\ metrics'.failed = metrics.failed
       /\ metrics'.messages = metrics.messages
  <2>1. PICK y, z : y = metrics /\ z = [y EXCEPT !.pending = @ + 1]
    BY Zenon
  <2>2. y \in Metrics /\ z = metrics'
    BY <1>8, <2>1, Zenon
  <2>3. /\ z \in Metrics /\ z.pending = y.pending + 1 /\ z.confirmed = y.confirmed
        /\ z.failed = y.failed /\ z.messages = y.messages
    BY ONLY <2>1, <2>2, MetricsPending, Zenon
  <2> QED BY <2>1, <2>2, <2>3, Zenon
<1>11. AsyncType'
  BY <1>3, <1>4, <1>9, <1>10, Zenon DEF AsyncInv, AsyncType, Shards
<1>12. QueuedInv'
  <2>1. Elements(q) \cup Elements(<<>>) \subseteq
          Elements(input[s]) \cup Elements(currentBatch[s])
    BY <1>2, Zenon
  <2>2. ASSUME NEW t \in Shards, NEW m \in Elements(input'[t]) \cup Elements(currentBatch'[t])
        PROVE  m \notin Elements(b)
    <3>1. CASE t = s
      <4>1. m \in Elements(q)
        BY <1>2, <3>1, Zenon
      <4> QED BY <4>1, Zenon DEF Queued
    <3>2. CASE t # s
      <4>1. m \in Elements(input[t]) \cup Elements(currentBatch[t])
        BY <3>2, Zenon
      <4>2. asyncShardID[m] = t
        BY <4>1, Zenon DEF AsyncInv, QueuedInv
      <4> QED BY <1>5, <3>2, <4>2, Zenon
    <3> QED BY <3>1, <3>2, Zenon
  <2>3. \A t \in Shards : \A m \in Elements(input'[t]) \cup Elements(currentBatch'[t]) :
          \A w \in {x} : m \notin Elements(w.batch)
    BY <1>3, <2>2, Zenon
  <2>4. QueuedMove(s, q, <<>>, {x})
    BY <1>2, <1>4, <2>1, <2>3, Zenon DEF QueuedMove
  <2> QED BY <2>4, AsyncQueuedMove, Zenon
<1>13. BatchesInv'
  <2>1. x.result # "ok"
    BY <1>3
  <2>2. ASSUME NEW w \in writers'
        PROVE  /\ w.batch # <<>> /\ NoTwice(w.batch)
               /\ \A m \in Elements(w.batch) :
                    /\ aWrite[m] = "nil" /\ (m \in aStored <=> w.result = "ok")
                    /\ \A v \in writers' : m \in Elements(v.batch) => v = w
    <3>1. CASE w = x
      BY <1>2, <1>3, <1>4, <1>5, <2>1, <3>1, Zenon
    <3>2. CASE w \in writers
      <4>1. \A m \in Elements(w.batch) : m \notin Elements(b)
        BY <1>5, <3>2, Zenon
      <4>2. /\ w.batch # <<>> /\ NoTwice(w.batch)
            /\ \A m \in Elements(w.batch) :
                 /\ aWrite[m] = "nil" /\ (m \in aStored <=> w.result = "ok")
                 /\ \A v \in writers : m \in Elements(v.batch) => v = w
        BY <3>2, Zenon DEF AsyncInv, BatchesInv
      <4> QED BY <1>3, <1>4, <4>1, <4>2, Zenon
    <3> QED BY <1>4, <3>1, <3>2, Zenon
  <2>3. \A m \in aStored' : aWrite'[m] = "nil"
    BY Zenon DEF AsyncInv, BatchesInv
  <2> QED BY <2>2, <2>3, Zenon DEF BatchesInv
<1>14. CountsInv'
  <2>1. OkHeld(writers') = OkHeld(writers) /\ FailedHeld(writers') = FailedHeld(writers)
    BY <1>3, <1>4, <1>8, HeldNew, ZenonT(30)
  <2>2. Seen' = Seen
    BY <1>10, Zenon DEF Seen
  <2>3. metrics'.pending = Cardinality(writers') + Len(confirmChan)
    <3>1. /\ metrics.pending = Cardinality(writers) + Len(confirmChan)
          /\ confirmChan \in Seq(Confirmation)
      BY Zenon DEF AsyncInv, AsyncType, CountsInv
    <3>2. Cardinality(writers) \in Nat
      BY <1>8, FS_CardinalityType, Zenon
    <3>3. Len(confirmChan) \in Nat
      BY <3>1
    <3> QED BY <1>9, <1>10, <3>1, <3>2, <3>3, SMT
  <2> QED BY <1>10, <2>1, <2>2, <2>3, Zenon DEF AsyncInv, CountsInv
<1> QED BY <1>11, <1>12, <1>13, <1>14, Zenon DEF AsyncInv


\* A goroutine has written its batch w, with result r.
LEMMA AsyncStore ==
  ASSUME AsyncInv, NEW w \in writers, w.result = "none", NEW r \in {"ok", "failed"},
         writers' = (writers \ {w}) \cup {[w EXCEPT !.result = r]},
         r = "ok" => aStored' = aStored \cup Elements(w.batch) /\ aErrors' = aErrors,
         r = "failed" => aStored' = aStored /\ aErrors' = aErrors + 1,
         UNCHANGED <<input, currentBatch, aWrite, confirmChan, metrics>>
  PROVE  AsyncInv'
<1>1. PICK x : x = [w EXCEPT !.result = r]
  BY Zenon
<1>2. w \in Batch /\ writers \in SUBSET Batch /\ IsFiniteSet(writers) /\ aErrors \in Nat /\ aStored \subseteq AsyncMessages
  BY Zenon DEF AsyncInv, AsyncType
<1>3. x \in Batch /\ x.batch = w.batch /\ x.result = r
  <2>1. r \in {"none", "ok", "failed"}
    OBVIOUS
  <2> QED BY <1>1, <1>2, <2>1, BatchResult, Zenon
<1>4. writers' = (writers \ {w}) \cup {x} /\ x # w
  <2>1. r # "none"
    OBVIOUS
  <2> QED BY <1>1, <1>3, <2>1, Zenon
<1>5. /\ w.batch # <<>> /\ NoTwice(w.batch)
      /\ \A m \in Elements(w.batch) :
           /\ aWrite[m] = "nil" /\ m \in AsyncMessages /\ m \notin aStored
           /\ \A v \in writers : m \in Elements(v.batch) => v = w
  <2>1. w.result # "ok"
    OBVIOUS
  <2> QED BY <1>2, <2>1, BatchFacts, Zenon DEF AsyncInv, BatchesInv
<1>6. PICK B : B = w.batch
  BY Zenon
<1>7. B \in Seq(AsyncMessages) /\ NoTwice(B) /\ B # <<>>
  BY <1>2, <1>5, <1>6, BatchFacts, Zenon
<1>8. \E m : m \in Elements(B)
  <2>1. 1 \in 1 .. Len(B)
    BY <1>7
  <2>2. B \in Seq(AsyncMessages)
    BY <1>7, Zenon
  <2> QED BY ONLY <2>1, <2>2, ElementsIn, Zenon
<1>9. x \notin writers
  BY <1>3, <1>4, <1>5, <1>6, <1>8, Zenon
<1>10. IsFiniteSet(writers') /\ Cardinality(writers') = Cardinality(writers)
  <2>1. PICK R : R = writers \ {w}
    BY Zenon
  <2>2. IsFiniteSet(R) /\ Cardinality(R) = IF w \in writers THEN Cardinality(writers) - 1 ELSE Cardinality(writers)
    BY <1>2, <2>1, FS_RemoveElement, Zenon
  <2>3. x \notin R
    BY <1>9, <2>1, Zenon
  <2>4. IsFiniteSet(R \cup {x}) /\ Cardinality(R \cup {x}) = Cardinality(R) + 1
    BY ONLY <2>2, <2>3, CardOneMore, Zenon
  <2>5. Cardinality(writers) \in Nat
    BY <1>2, FS_CardinalityType, Zenon
  <2>6. Cardinality(R) = Cardinality(writers) - 1
    BY <2>2, Zenon
  <2>7. Cardinality(R) + 1 = Cardinality(writers)
    BY <2>5, <2>6, SMT
  <2> QED BY <1>4, <2>1, <2>4, <2>7, Zenon
<1>11. aStored' \subseteq AsyncMessages /\ aErrors' \in Nat /\ aStored' \subseteq aStored \cup Elements(w.batch)
  <2>1. CASE r = "ok"
    BY <1>2, <1>5, <2>1, Zenon
  <2>2. CASE r = "failed"
    <3>1. aErrors + 1 \in Nat
      BY <1>2
    <3> QED BY <1>2, <2>2, <3>1, Zenon
  <2> QED BY <2>1, <2>2, Zenon
<1>12. AsyncType'
  BY <1>2, <1>3, <1>4, <1>10, <1>11, Zenon DEF AsyncInv, AsyncType, Shards
<1>13. QueuedInv'
  <2>1. ASSUME NEW t \in Shards, NEW m \in Elements(input[t]) \cup Elements(currentBatch[t])
        PROVE  /\ asyncShardID[m] = t /\ aWrite[m] = "nil" /\ m \notin aStored'
               /\ \A v \in writers' : m \notin Elements(v.batch)
    <3>1. /\ asyncShardID[m] = t /\ aWrite[m] = "nil" /\ m \notin aStored
          /\ \A v \in writers : m \notin Elements(v.batch)
      BY Zenon DEF AsyncInv, QueuedInv
    <3> QED BY <1>3, <1>4, <1>11, <3>1, Zenon
  <2>2. \A t \in Shards : Queued(input[t], currentBatch[t])
    BY Zenon DEF AsyncInv, QueuedInv
  <2> QED BY <2>1, <2>2, Zenon DEF QueuedInv, Shards
<1>14. BatchesInv'
  <2>1. ASSUME NEW v \in writers'
        PROVE  /\ v.batch # <<>> /\ NoTwice(v.batch)
               /\ \A m \in Elements(v.batch) :
                    /\ aWrite[m] = "nil" /\ (m \in aStored' <=> v.result = "ok")
                    /\ \A u \in writers' : m \in Elements(u.batch) => u = v
    <3>1. CASE v = x
      <4>1. ASSUME NEW m \in Elements(w.batch) PROVE m \in aStored' <=> r = "ok"
        <5>1. CASE r = "ok"
          BY <5>1, Zenon
        <5>2. CASE r = "failed"
          <6>1. r # "ok"
            BY <5>2
          <6> QED BY <1>5, <5>2, <6>1, Zenon
        <5> QED BY <5>1, <5>2, Zenon
      <4>2. ASSUME NEW m \in Elements(w.batch), NEW u \in writers', m \in Elements(u.batch) PROVE u = x
        BY <1>4, <1>5, <4>2, Zenon
      <4> QED BY <1>3, <1>5, <3>1, <4>1, <4>2, Zenon
    <3>2. CASE v \in writers /\ v # w
      <4>1. /\ v.batch # <<>> /\ NoTwice(v.batch)
            /\ \A m \in Elements(v.batch) :
                 /\ aWrite[m] = "nil" /\ (m \in aStored <=> v.result = "ok")
                 /\ \A u \in writers : m \in Elements(u.batch) => u = v
        BY <3>2, Zenon DEF AsyncInv, BatchesInv
      <4>2. \A m \in Elements(v.batch) : m \notin Elements(w.batch)
        BY <3>2, <4>1, Zenon
      <4>3. \A m \in Elements(v.batch) : m \in aStored' <=> m \in aStored
        <5>1. CASE r = "ok"
          BY <4>2, <5>1, Zenon
        <5>2. CASE r = "failed"
          BY <5>2, Zenon
        <5> QED BY <5>1, <5>2, Zenon
      <4>4. \A m \in Elements(v.batch) : \A u \in writers' : m \in Elements(u.batch) => u = v
        BY <1>3, <1>4, <4>1, <4>2, Zenon
      <4> QED BY <4>1, <4>3, <4>4, Zenon
    <3> QED BY <1>4, <3>1, <3>2, Zenon
  <2>2. \A m \in aStored' : aWrite[m] = "nil"
    BY <1>5, <1>11, Zenon DEF AsyncInv, BatchesInv
  <2> QED BY <2>1, <2>2, Zenon DEF BatchesInv
<1>15. CountsInv'
  <2>1. Seen' = Seen /\ metrics' = metrics /\ confirmChan' = confirmChan
    BY Zenon DEF Seen
  <2>2. /\ IsFiniteSet(OkSent(Seen, confirmChan)) /\ IsFiniteSet(FailedSent(Seen, confirmChan))
        /\ metrics.pending = Cardinality(writers) + Len(confirmChan)
        /\ Cardinality(aStored) =
             metrics.messages + Cardinality(OkSent(Seen, confirmChan)) + Cardinality(OkHeld(writers))
        /\ aErrors = metrics.failed + Cardinality(FailedSent(Seen, confirmChan)) + Cardinality(FailedHeld(writers))
    BY Zenon DEF AsyncInv, CountsInv
  <2>3. PICK a, f, okw, fw, st, n, k :
           /\ a = Cardinality(OkSent(Seen, confirmChan)) /\ f = Cardinality(FailedSent(Seen, confirmChan))
           /\ okw = Cardinality(OkHeld(writers)) /\ fw = Cardinality(FailedHeld(writers))
           /\ st = Cardinality(aStored) /\ n = metrics.messages /\ k = metrics.failed
    BY Zenon
  <2>4. a \in Nat /\ f \in Nat /\ okw \in Nat /\ fw \in Nat /\ n \in Nat /\ k \in Nat
    <3>1. n \in Nat /\ k \in Nat
      BY <2>3, Zenon DEF AsyncInv, AsyncType, Metrics
    <3>2. okw \in Nat /\ fw \in Nat
      BY <1>2, <2>3, HeldFinite, Zenon
    <3>3. a \in Nat /\ f \in Nat
      BY <2>2, <2>3, FS_CardinalityType, Zenon
    <3> QED BY <3>1, <3>2, <3>3, Zenon
  <2>5. st = n + a + okw /\ aErrors = k + f + fw
    BY <2>2, <2>3, Zenon
  <2>6. CASE r = "ok"
    <3>1. OkHeld(writers') = OkHeld(writers) \cup Elements(B) /\ FailedHeld(writers') = FailedHeld(writers)
      <4>1. /\ writers \in SUBSET Batch /\ w \in writers /\ x \in Batch
            /\ w.result = "none" /\ x.batch = w.batch /\ x.result = "ok"
        BY <1>2, <1>3, <2>6, Zenon
      <4>2. /\ OkHeld((writers \ {w}) \cup {x}) = OkHeld(writers) \cup Elements(w.batch)
            /\ FailedHeld((writers \ {w}) \cup {x}) = FailedHeld(writers)
        BY ONLY <4>1, HeldStored, Zenon
      <4> QED BY <1>4, <1>6, <4>2, Zenon
    <3>2. IsFiniteSet(Elements(B)) /\ Cardinality(Elements(B)) = Len(B) /\ Len(B) \in Nat
      BY <1>7, ElementsCount, ElementsIn, Zenon
    <3>3. Cardinality(OkHeld(writers')) = okw + Len(B)
      <4>1. IsFiniteSet(OkHeld(writers))
        BY <1>2, HeldFinite, Zenon
      <4>2. OkHeld(writers) \cap Elements(B) = {}
        <5>1. \A v \in writers : v.result = "ok" => v # w
          BY Zenon
        <5> QED BY <1>5, <1>6, <5>1, Zenon DEF OkHeld
      <4>3. Cardinality(OkHeld(writers) \cup Elements(B)) =
              Cardinality(OkHeld(writers)) + Cardinality(Elements(B))
        BY <3>2, <4>1, <4>2, CardJoin, Zenon
      <4> QED BY <2>3, <3>1, <3>2, <4>3, Zenon
    <3>4. Cardinality(aStored') = st + Len(B)
      <4>1. IsFiniteSet(aStored)
        BY <1>2, AsyncAssumption, FS_Subset, Zenon
      <4>2. aStored \cap Elements(B) = {} /\ aStored' = aStored \cup Elements(B)
        BY <1>5, <1>6, <2>6, Zenon
      <4>3. Cardinality(aStored \cup Elements(B)) = Cardinality(aStored) + Cardinality(Elements(B))
        BY <3>2, <4>1, <4>2, CardJoin, Zenon
      <4> QED BY <2>3, <3>2, <4>2, <4>3, Zenon
    <3>5. st + Len(B) = n + a + (okw + Len(B))
      BY <2>4, <2>5, <3>2, SMTT(20)
    <3>6. aErrors' = aErrors
      BY <2>6, Zenon
    <3> QED BY <1>10, <2>1, <2>2, <2>3, <3>1, <3>3, <3>4, <3>5, <3>6, Zenon DEF CountsInv
  <2>7. CASE r = "failed"
    <3>1. OkHeld(writers') = OkHeld(writers) /\ FailedHeld(writers') = FailedHeld(writers) \cup {x}
      <4>1. /\ writers \in SUBSET Batch /\ w \in writers /\ x \in Batch
            /\ w.result = "none" /\ x.batch = w.batch /\ x.result = "failed"
        BY <1>2, <1>3, <2>7, Zenon
      <4>2. /\ OkHeld((writers \ {w}) \cup {x}) = OkHeld(writers)
            /\ FailedHeld((writers \ {w}) \cup {x}) = FailedHeld(writers) \cup {x}
        BY ONLY <4>1, HeldStored, Zenon
      <4> QED BY <1>4, <4>2, Zenon
    <3>2. Cardinality(FailedHeld(writers')) = fw + 1
      <4>1. IsFiniteSet(FailedHeld(writers)) /\ x \notin FailedHeld(writers)
        BY <1>2, <1>9, HeldFinite, Zenon DEF FailedHeld
      <4>2. Cardinality(FailedHeld(writers) \cup {x}) = Cardinality(FailedHeld(writers)) + 1
        BY <4>1, CardOneMore, Zenon
      <4> QED BY <2>3, <3>1, <4>2, Zenon
    <3>3. aErrors' = k + f + (fw + 1)
      <4>1. aErrors' = aErrors + 1
        BY <2>7, Zenon
      <4> QED BY <2>4, <2>5, <4>1
    <3>4. aStored' = aStored
      BY <2>7, Zenon
    <3> QED BY <1>10, <2>1, <2>2, <2>3, <3>1, <3>2, <3>3, <3>4, Zenon DEF CountsInv
  <2> QED BY <2>6, <2>7, Zenon
<1> QED BY <1>12, <1>13, <1>14, <1>15, Zenon DEF AsyncInv


\* A goroutine has sent the confirmation of its batch w and ends.
LEMMA AsyncSent ==
  ASSUME AsyncInv, NEW w \in writers, w.result # "none",
         confirmChan' = Append(confirmChan, [result |-> w.result, size |-> Len(w.batch)]),
         writers' = writers \ {w},
         UNCHANGED <<input, currentBatch, aWrite, metrics, aStored, aErrors>>
  PROVE  AsyncInv'
<1>1. PICK c, B : c = [result |-> w.result, size |-> Len(w.batch)] /\ B = w.batch
  BY Zenon
<1>2. /\ w \in Batch /\ writers \in SUBSET Batch /\ IsFiniteSet(writers)
      /\ confirmChan \in Seq(Confirmation)
  BY Zenon DEF AsyncInv, AsyncType
<1>3. B \in Seq(AsyncMessages) /\ NoTwice(B) /\ w.result \in {"none", "ok", "failed"}
  BY <1>1, <1>2, BatchFacts, Zenon DEF AsyncInv, BatchesInv
<1>4. Len(B) \in Nat /\ IsFiniteSet(Elements(B)) /\ Cardinality(Elements(B)) = Len(B)
  BY <1>3, ElementsCount, ElementsIn, Zenon
<1>5. c \in Confirmation /\ c.result = w.result /\ c.size = Len(B)
  <2>1. w.result \in {"ok", "failed"}
    BY <1>3
  <2>2. Len(w.batch) \in Nat
    BY <1>1, <1>4, Zenon
  <2> QED BY <1>1, <2>1, <2>2, Zenon DEF Confirmation
<1>6. confirmChan' = Append(confirmChan, c)
  BY <1>1, Zenon
<1>7. confirmChan' \in Seq(Confirmation) /\ Len(confirmChan') = Len(confirmChan) + 1 /\ Len(confirmChan) \in Nat
  BY <1>2, <1>5, <1>6
<1>8. IsFiniteSet(writers') /\ Cardinality(writers') = Cardinality(writers) - 1 /\ Cardinality(writers) \in Nat
  <2>1. /\ IsFiniteSet(writers \ {w})
        /\ Cardinality(writers \ {w}) = IF w \in writers THEN Cardinality(writers) - 1 ELSE Cardinality(writers)
    BY <1>2, FS_RemoveElement, Zenon
  <2>2. Cardinality(writers) \in Nat
    BY <1>2, FS_CardinalityType, Zenon
  <2> QED BY <2>1, <2>2, Zenon
<1>9. AsyncType'
  BY <1>2, <1>7, <1>8, Zenon DEF AsyncInv, AsyncType, Shards
<1>10. QueuedInv'
  <2>1. ASSUME NEW t \in Shards
        PROVE  /\ Queued(input[t], currentBatch[t])
               /\ \A m \in Elements(input[t]) \cup Elements(currentBatch[t]) :
                    /\ asyncShardID[m] = t /\ aWrite[m] = "nil" /\ m \notin aStored
                    /\ \A v \in writers' : m \notin Elements(v.batch)
    BY Zenon DEF AsyncInv, QueuedInv
  <2> QED BY <2>1, Zenon DEF QueuedInv, Shards
<1>11. BatchesInv'
  BY Zenon DEF AsyncInv, BatchesInv
<1>12. CountsInv'
  <2>1. Seen' = Seen /\ metrics' = metrics
    BY Zenon DEF Seen
  <2>2. /\ IsFiniteSet(OkSent(Seen, confirmChan)) /\ IsFiniteSet(FailedSent(Seen, confirmChan))
        /\ metrics.pending = Cardinality(writers) + Len(confirmChan)
        /\ Cardinality(aStored) =
             metrics.messages + Cardinality(OkSent(Seen, confirmChan)) + Cardinality(OkHeld(writers))
        /\ aErrors = metrics.failed + Cardinality(FailedSent(Seen, confirmChan)) + Cardinality(FailedHeld(writers))
    BY Zenon DEF AsyncInv, CountsInv
  <2>3. PICK S, F, T, G : /\ S = OkSent(Seen, confirmChan) /\ F = FailedSent(Seen, confirmChan)
                          /\ T = OkSent(Seen, confirmChan') /\ G = FailedSent(Seen, confirmChan')
    BY Zenon
  <2>4. /\ IsFiniteSet(T) /\ Cardinality(T) = Cardinality(S) + OkCount(c)
        /\ IsFiniteSet(G) /\ Cardinality(G) = Cardinality(F) + FailedCount(c)
    <3>1. PICK n, q, k : n = Seen /\ q = confirmChan /\ k = n + Len(q) + 1
      BY Zenon
    <3>2. n \in Nat /\ q \in Seq(Confirmation)
      <4>1. metrics.confirmed \in Nat /\ metrics.failed \in Nat
        BY Zenon DEF AsyncInv, AsyncType, Metrics
      <4>2. metrics.confirmed + metrics.failed \in Nat
        BY <4>1
      <4> QED BY <1>2, <3>1, <4>2, Zenon DEF Seen
    <3>3. /\ OkSent(n, Append(q, c)) = OkSent(n, q) \cup OkOf(c, k)
          /\ FailedSent(n, Append(q, c)) = FailedSent(n, q) \cup FailedOf(c, k)
          /\ OkSent(n, q) \cap OkOf(c, k) = {} /\ FailedSent(n, q) \cap FailedOf(c, k) = {}
      <4>1. n \in Nat /\ q \in Seq(Confirmation) /\ c \in Confirmation
        BY <1>5, <3>1, <3>2, Zenon
      <4>2. /\ OkSent(n, Append(q, c)) = OkSent(n, q) \cup OkOf(c, n + Len(q) + 1)
            /\ FailedSent(n, Append(q, c)) = FailedSent(n, q) \cup FailedOf(c, n + Len(q) + 1)
            /\ OkSent(n, q) \cap OkOf(c, n + Len(q) + 1) = {}
            /\ FailedSent(n, q) \cap FailedOf(c, n + Len(q) + 1) = {}
        BY ONLY <4>1, SentAppend, ZenonT(30)
      <4> QED BY <3>1, <4>2, Zenon
    <3>4. /\ T = S \cup OkOf(c, k)
          /\ G = F \cup FailedOf(c, k)
          /\ S \cap OkOf(c, k) = {} /\ F \cap FailedOf(c, k) = {}
      BY <1>6, <2>3, <3>1, <3>3, Zenon
    <3>5. c \in Confirmation /\ IsFiniteSet(S) /\ IsFiniteSet(F)
      BY <1>5, <2>2, <2>3, Zenon
    <3>6. c \in Confirmation /\ IsFiniteSet(S) /\ S \cap OkOf(c, k) = {}
      BY <3>4, <3>5, Zenon
    <3>7. /\ IsFiniteSet(S \cup OkOf(c, k))
          /\ Cardinality(S \cup OkOf(c, k)) = Cardinality(S) + OkCount(c)
      BY ONLY <3>6, OkSentCount, Zenon
    <3>8. c \in Confirmation /\ IsFiniteSet(F) /\ F \cap FailedOf(c, k) = {}
      BY <3>4, <3>5, Zenon
    <3>9. /\ IsFiniteSet(F \cup FailedOf(c, k))
          /\ Cardinality(F \cup FailedOf(c, k)) = Cardinality(F) + FailedCount(c)
      BY ONLY <3>8, FailedSentCount, Zenon
    <3> QED BY <3>4, <3>7, <3>9, Zenon
  <2>5. /\ writers \in SUBSET Batch /\ w \in writers
        /\ \A m \in Elements(w.batch) : \A v \in writers : m \in Elements(v.batch) => v = w
    BY <1>2, Zenon DEF AsyncInv, BatchesInv
  <2>6. PICK a, f, okw, fw, n, k :
           /\ a = Cardinality(S) /\ f = Cardinality(F)
           /\ okw = Cardinality(OkHeld(writers')) /\ fw = Cardinality(FailedHeld(writers'))
           /\ n = metrics.messages /\ k = metrics.failed
    BY Zenon
  <2>7. /\ a \in Nat /\ f \in Nat /\ okw \in Nat /\ fw \in Nat /\ n \in Nat /\ k \in Nat
        /\ IsFiniteSet(OkHeld(writers')) /\ IsFiniteSet(FailedHeld(writers'))
    <3>1. n \in Nat /\ k \in Nat
      BY <2>6, Zenon DEF AsyncInv, AsyncType, Metrics
    <3>2. writers' \in SUBSET Batch /\ IsFiniteSet(writers')
      BY <1>2, <1>8, Zenon
    <3>3. okw \in Nat /\ fw \in Nat /\ IsFiniteSet(OkHeld(writers')) /\ IsFiniteSet(FailedHeld(writers'))
      BY <2>6, <3>2, HeldFinite, Zenon
    <3>4. a \in Nat /\ f \in Nat
      BY <2>2, <2>3, <2>6, FS_CardinalityType, Zenon
    <3> QED BY <3>1, <3>3, <3>4, Zenon
  <2>8. metrics.pending = Cardinality(writers') + Len(confirmChan')
    BY <1>7, <1>8, <2>2, SMT
  <2>9. CASE w.result = "ok"
    <3>1. /\ OkHeld(writers) = OkHeld(writers \ {w}) \cup Elements(w.batch)
          /\ OkHeld(writers \ {w}) \cap Elements(w.batch) = {}
          /\ FailedHeld(writers) = FailedHeld(writers \ {w})
      BY ONLY <2>5, <2>9, HeldSent, Zenon
    <3>2. Cardinality(OkHeld(writers)) = okw + Len(B) /\ Cardinality(FailedHeld(writers)) = fw
      <4>1. PICK H : H = OkHeld(writers')
        BY Zenon
      <4>2. IsFiniteSet(H) /\ IsFiniteSet(Elements(B)) /\ H \cap Elements(B) = {}
        BY <1>1, <1>4, <2>7, <3>1, <4>1, Zenon
      <4>3. Cardinality(H \cup Elements(B)) = Cardinality(H) + Cardinality(Elements(B))
        BY ONLY <4>2, CardJoin, Zenon
      <4> QED BY <1>1, <1>4, <2>6, <3>1, <4>1, <4>3, Zenon
    <3>3. Cardinality(T) = a + Len(B) /\ Cardinality(G) = f + 0
      BY <1>5, <2>4, <2>6, <2>9, Zenon DEF OkCount, FailedCount
    <3>4. n + a + (okw + Len(B)) = n + (a + Len(B)) + okw /\ k + f + fw = k + (f + 0) + fw
      BY <1>4, <2>7
    <3> QED BY <2>1, <2>2, <2>3, <2>4, <2>6, <2>8, <3>2, <3>3, <3>4, Zenon DEF CountsInv
  <2>10. CASE w.result = "failed"
    <3>0. w.result # "ok"
      BY <2>10
    <3>1. /\ OkHeld(writers) = OkHeld(writers \ {w})
          /\ FailedHeld(writers) = FailedHeld(writers \ {w}) \cup {w}
          /\ w \notin FailedHeld(writers \ {w})
      BY ONLY <2>5, <2>10, HeldSent, Zenon
    <3>2. Cardinality(OkHeld(writers)) = okw /\ Cardinality(FailedHeld(writers)) = fw + 1
      <4>1. PICK H : H = FailedHeld(writers')
        BY Zenon
      <4>2. IsFiniteSet(H) /\ w \notin H
        BY <2>7, <3>1, <4>1, Zenon
      <4>3. Cardinality(H \cup {w}) = Cardinality(H) + 1
        BY ONLY <4>2, CardOneMore, Zenon
      <4> QED BY <2>6, <3>1, <4>1, <4>3, Zenon
    <3>3. Cardinality(T) = a + 0 /\ Cardinality(G) = f + 1
      BY <1>5, <2>4, <2>6, <3>0, Zenon DEF OkCount, FailedCount
    <3>4. n + a + okw = n + (a + 0) + okw /\ k + f + (fw + 1) = k + (f + 1) + fw
      BY <2>7
    <3> QED BY <2>1, <2>2, <2>3, <2>4, <2>6, <2>8, <3>2, <3>3, <3>4, Zenon DEF CountsInv
  <2> QED BY <1>3, <2>9, <2>10, Zenon
<1> QED BY <1>9, <1>10, <1>11, <1>12, Zenon DEF AsyncInv


\* processConfirmations counts the oldest confirmation.
LEMMA AsyncCounted ==
  ASSUME AsyncInv, NEW c, c = Head(confirmChan), confirmChan # <<>>, confirmChan' = Tail(confirmChan),
         c.result = "ok" =>
           metrics' = [metrics EXCEPT !.confirmed = @ + 1, !.messages = @ + c.size, !.pending = @ - 1],
         c.result # "ok" => metrics' = [metrics EXCEPT !.failed = @ + 1, !.pending = @ - 1],
         UNCHANGED <<input, currentBatch, aWrite, writers, aStored, aErrors>>
  PROVE  AsyncInv'
<1>1. PICK n, q, k : n = Seen /\ q = confirmChan /\ k = n + 1
  BY Zenon
<1>2. metrics.confirmed \in Nat /\ metrics.failed \in Nat /\ metrics.messages \in Nat /\ metrics.pending \in Int
  BY Zenon DEF AsyncInv, AsyncType, Metrics
<1>3. n \in Nat
  <2>1. metrics.confirmed + metrics.failed \in Nat
    BY <1>2
  <2> QED BY <1>1, <2>1, Zenon DEF Seen
<1>4. /\ OkSent(n, q) = OkSent(k, Tail(q)) \cup OkOf(c, k)
      /\ FailedSent(n, q) = FailedSent(k, Tail(q)) \cup FailedOf(c, k)
      /\ OkSent(k, Tail(q)) \cap OkOf(c, k) = {} /\ FailedSent(k, Tail(q)) \cap FailedOf(c, k) = {}
      /\ Tail(q) \in Seq(Confirmation) /\ c \in Confirmation /\ Len(q) = Len(Tail(q)) + 1 /\ Len(Tail(q)) \in Nat
  <2>1. n \in Nat /\ q \in Seq(Confirmation) /\ q # <<>>
    BY <1>1, <1>3, Zenon DEF AsyncInv, AsyncType
  <2>2. /\ OkSent(n, q) = OkSent(n + 1, Tail(q)) \cup OkOf(Head(q), n + 1)
        /\ FailedSent(n, q) = FailedSent(n + 1, Tail(q)) \cup FailedOf(Head(q), n + 1)
        /\ OkSent(n + 1, Tail(q)) \cap OkOf(Head(q), n + 1) = {}
        /\ FailedSent(n + 1, Tail(q)) \cap FailedOf(Head(q), n + 1) = {}
        /\ Tail(q) \in Seq(Confirmation) /\ Head(q) \in Confirmation
        /\ Len(q) = Len(Tail(q)) + 1 /\ Len(Tail(q)) \in Nat
    BY ONLY <2>1, SentTail, ZenonT(30)
  <2>3. c = Head(q) /\ k = n + 1
    BY <1>1, Zenon
  <2> QED BY <2>2, <2>3, Zenon
<1>5. /\ metrics' \in Metrics /\ metrics'.pending = metrics.pending - 1 /\ Seen' = k
      /\ metrics'.messages = metrics.messages + OkCount(c)
      /\ metrics'.failed = metrics.failed + FailedCount(c)
  <2>1. PICK y, z : y = metrics /\ z = metrics'
    BY Zenon
  <2>2. y \in Metrics /\ c.size \in Nat
    BY <1>4, <2>1, Zenon DEF AsyncInv, AsyncType, Confirmation
  <2>3. /\ z \in Metrics /\ z.pending = y.pending - 1 /\ z.confirmed + z.failed = (y.confirmed + y.failed) + 1
        /\ z.messages = y.messages + OkCount(c) /\ z.failed = y.failed + FailedCount(c)
    <3>0. y.confirmed \in Nat /\ y.failed \in Nat /\ y.messages \in Nat
      BY <1>2, <2>1, Zenon
    <3>1. CASE c.result = "ok"
      <4>1. z = Counted(y, c.size)
        BY <2>1, <3>1, Zenon DEF Counted
      <4>2. /\ z \in Metrics /\ z.pending = y.pending - 1 /\ z.confirmed = y.confirmed + 1
            /\ z.failed = y.failed /\ z.messages = y.messages + c.size
        BY ONLY <2>2, <4>1, MetricsConfirmed, ZenonT(30)
      <4>3. (y.confirmed + 1) + y.failed = (y.confirmed + y.failed) + 1 /\ y.failed + 0 = y.failed
        BY <3>0, SMTT(20)
      <4> QED BY <3>1, <4>2, <4>3, Zenon DEF OkCount, FailedCount
    <3>2. CASE c.result # "ok"
      <4>1. z = [y EXCEPT !.failed = @ + 1, !.pending = @ - 1]
        BY <2>1, <3>2, Zenon
      <4>2. /\ z \in Metrics /\ z.pending = y.pending - 1 /\ z.confirmed = y.confirmed
            /\ z.failed = y.failed + 1 /\ z.messages = y.messages
        BY ONLY <2>2, <4>1, MetricsFailed, ZenonT(30)
      <4>3. y.confirmed + (y.failed + 1) = (y.confirmed + y.failed) + 1 /\ y.messages + 0 = y.messages
        BY <3>0, SMTT(20)
      <4> QED BY <3>2, <4>2, <4>3, Zenon DEF OkCount, FailedCount
    <3> QED BY <3>1, <3>2, Zenon
  <2> QED BY <1>1, <2>1, <2>3, Zenon DEF Seen
<1>6. confirmChan' = Tail(q)
  BY <1>1, Zenon
<1>7. AsyncType'
  BY <1>4, <1>5, <1>6, Zenon DEF AsyncInv, AsyncType, Shards
<1>8. QueuedInv'
  BY Zenon DEF AsyncInv, QueuedInv, Shards
<1>9. BatchesInv'
  BY Zenon DEF AsyncInv, BatchesInv
<1>10. CountsInv'
  <2>1. /\ IsFiniteSet(OkSent(n, q)) /\ IsFiniteSet(FailedSent(n, q))
        /\ metrics.pending = Cardinality(writers) + Len(q)
        /\ Cardinality(aStored) = metrics.messages + Cardinality(OkSent(n, q)) + Cardinality(OkHeld(writers))
        /\ aErrors = metrics.failed + Cardinality(FailedSent(n, q)) + Cardinality(FailedHeld(writers))
    BY <1>1, Zenon DEF AsyncInv, CountsInv
  <2>2. PICK S, F : S = OkSent(k, Tail(q)) /\ F = FailedSent(k, Tail(q))
    BY Zenon
  <2>3. IsFiniteSet(S) /\ IsFiniteSet(F)
    <3>1. S \in SUBSET OkSent(n, q) /\ F \in SUBSET FailedSent(n, q)
      BY <1>4, <2>2, Zenon
    <3> QED BY <2>1, <3>1, FS_Subset, Zenon
  <2>4. /\ Cardinality(S \cup OkOf(c, k)) = Cardinality(S) + OkCount(c)
        /\ Cardinality(F \cup FailedOf(c, k)) = Cardinality(F) + FailedCount(c)
    <3>1. c \in Confirmation /\ IsFiniteSet(S) /\ S \cap OkOf(c, k) = {}
      BY <1>4, <2>2, <2>3, Zenon
    <3>2. c \in Confirmation /\ IsFiniteSet(F) /\ F \cap FailedOf(c, k) = {}
      BY <1>4, <2>2, <2>3, Zenon
    <3>3. Cardinality(S \cup OkOf(c, k)) = Cardinality(S) + OkCount(c)
      BY ONLY <3>1, OkSentCount, Zenon
    <3>4. Cardinality(F \cup FailedOf(c, k)) = Cardinality(F) + FailedCount(c)
      BY ONLY <3>2, FailedSentCount, Zenon
    <3> QED BY <3>3, <3>4, Zenon
  <2>5. PICK a, f, okw, fw, m, e :
           /\ a = Cardinality(S) /\ f = Cardinality(F)
           /\ okw = Cardinality(OkHeld(writers)) /\ fw = Cardinality(FailedHeld(writers))
           /\ m = metrics.messages /\ e = metrics.failed
    BY Zenon
  <2>6. /\ a \in Nat /\ f \in Nat /\ okw \in Nat /\ fw \in Nat /\ m \in Nat /\ e \in Nat
        /\ OkCount(c) \in Nat /\ FailedCount(c) \in Nat
    <3>1. writers \in SUBSET Batch /\ IsFiniteSet(writers)
      BY Zenon DEF AsyncInv, AsyncType
    <3>2. okw \in Nat /\ fw \in Nat
      BY <2>5, <3>1, HeldFinite, Zenon
    <3>3. a \in Nat /\ f \in Nat
      BY <2>3, <2>5, FS_CardinalityType, Zenon
    <3>4. OkCount(c) \in Nat /\ FailedCount(c) \in Nat
      BY <1>4, CountOf, Zenon
    <3> QED BY <1>2, <2>5, <3>2, <3>3, <3>4, Zenon
  <2>7. /\ Cardinality(aStored) = m + (a + OkCount(c)) + okw
        /\ aErrors = e + (f + FailedCount(c)) + fw
    BY <1>4, <2>1, <2>2, <2>4, <2>5, Zenon
  <2>8. /\ m + (a + OkCount(c)) + okw = (m + OkCount(c)) + a + okw
        /\ e + (f + FailedCount(c)) + fw = (e + FailedCount(c)) + f + fw
    BY <2>6
  <2>9. metrics'.pending = Cardinality(writers) + Len(Tail(q))
    <3>1. PICK p, l, l1, x : p = metrics.pending /\ l = Len(q) /\ l1 = Len(Tail(q)) /\ x = Cardinality(writers)
      BY Zenon
    <3>2. p \in Int /\ l = l1 + 1 /\ l1 \in Nat /\ p = x + l
      BY <1>2, <1>4, <2>1, <3>1, Zenon
    <3>3. x \in Nat
      BY <3>1, FS_CardinalityType, Zenon DEF AsyncInv, AsyncType
    <3>4. p - 1 = x + l1
      BY <3>2, <3>3
    <3> QED BY <1>5, <3>1, <3>4, Zenon
  <2> QED BY <1>5, <1>6, <2>2, <2>3, <2>5, <2>7, <2>8, <2>9, Zenon DEF CountsInv
<1> QED BY <1>7, <1>8, <1>9, <1>10, Zenon DEF AsyncInv

LEMMA AsyncInitInv ==
  ASSUME AsyncInit PROVE AsyncInv
<1>1. /\ DOMAIN input = Shards /\ DOMAIN currentBatch = Shards /\ DOMAIN aWrite = AsyncMessages
      /\ writers = {} /\ confirmChan = <<>> /\ aStored = {} /\ aErrors = 0
      /\ metrics = [pending |-> 0, confirmed |-> 0, failed |-> 0, messages |-> 0]
      /\ \A s \in Shards : input[s] = <<>> /\ currentBatch[s] = <<>>
  BY Zenon DEF AsyncInit
<1>2. /\ metrics \in Metrics /\ metrics.pending = 0 /\ metrics.confirmed = 0 /\ metrics.failed = 0
      /\ metrics.messages = 0
  <2>1. 0 \in Nat /\ 0 \in Int
    OBVIOUS
  <2> QED BY <1>1, <2>1, Zenon DEF Metrics
<1>3. /\ <<>> \in Seq(Confirmation) /\ Len(<<>>) = 0 /\ 0 \in Nat /\ <<>> \in Seq(AsyncMessages)
      /\ DOMAIN <<>> = {}
  OBVIOUS
<1>4. IsFiniteSet({}) /\ Cardinality({}) = 0
  BY FS_EmptySet, Zenon
<1>5. AsyncType
  BY <1>1, <1>2, <1>3, <1>4, Zenon DEF AsyncType
<1>6. Queued(<<>>, <<>>) /\ Elements(<<>>) = {}
  BY <1>3, Zenon DEF Queued, NoTwice, Elements
<1>7. QueuedInv
  BY <1>1, <1>6, Zenon DEF QueuedInv
<1>8. BatchesInv
  BY <1>1, Zenon DEF BatchesInv
<1>9. OkHeld({}) = {} /\ FailedHeld({}) = {}
  BY Zenon DEF OkHeld, FailedHeld
<1>10. Seen = 0
  BY <1>2 DEF Seen
<1>11. OkSent(0, <<>>) = {} /\ FailedSent(0, <<>>) = {}
  BY DEF OkSent, FailedSent
<1>12. 0 + 0 = 0 /\ 0 + 0 + 0 = 0
  OBVIOUS
<1>13. CountsInv
  BY <1>1, <1>2, <1>3, <1>4, <1>9, <1>10, <1>11, <1>12, Zenon DEF CountsInv
<1> QED BY <1>5, <1>7, <1>8, <1>13, Zenon DEF AsyncInv

\* A shard hands batch b to a goroutine, as the three places that call flushAsync do.
LEMMA AsyncFlushes ==
  ASSUME AsyncInv, NEW s \in Shards, NEW q, NEW b, Queued(q, b),
         Elements(q) \cup Elements(b) =
           Elements(input[s]) \cup Elements(currentBatch[s]),
         input' = [input EXCEPT ![s] = q], flushAsync(s, b), b # <<>>,
         UNCHANGED <<aWrite, confirmChan, aStored, aErrors>>
  PROVE  AsyncInv'
<1>1. /\ writers' = writers \cup {[batch |-> b, result |-> "none"]}
      /\ metrics' = [metrics EXCEPT !.pending = @ + 1]
      /\ currentBatch' = [currentBatch EXCEPT ![s] = <<>>]
  BY Zenon DEF flushAsync
<1>2. /\ DOMAIN input' = Shards /\ DOMAIN currentBatch' = Shards
      /\ input'[s] = q /\ currentBatch'[s] = <<>>
      /\ \A t \in Shards : t # s => input'[t] = input[t] /\ currentBatch'[t] = currentBatch[t]
  BY <1>1, Zenon DEF AsyncInv, AsyncType
<1> QED BY <1>1, <1>2, AsyncFlush, ZenonT(30)

\* run's case of a message: it joins the shard's batch, which a full batch leaves.
LEMMA AsyncReceives ==
  ASSUME AsyncInv, NEW s \in Shards, Receive(s) PROVE AsyncInv'
<1>1. PICK q, b : q = Tail(input[s]) /\ b = Append(currentBatch[s], Head(input[s]))
  BY Zenon
<1>2. Queued(q, b) /\ Elements(q) \cup Elements(b) =
                        Elements(input[s]) \cup Elements(currentBatch[s])
  <2>1. Queued(input[s], currentBatch[s]) /\ input[s] # <<>>
    BY Zenon DEF AsyncInv, QueuedInv, Receive
  <2>2. /\ Queued(Tail(input[s]), Append(currentBatch[s], Head(input[s])))
        /\ Elements(Tail(input[s])) \cup Elements(Append(currentBatch[s], Head(input[s]))) =
             Elements(input[s]) \cup Elements(currentBatch[s])
    BY ONLY <2>1, QueuedReceive, Zenon
  <2> QED BY <1>1, <2>2, Zenon
<1>3. input' = [input EXCEPT ![s] = q] /\ UNCHANGED <<aWrite, confirmChan, aStored, aErrors>>
  BY <1>1, Zenon DEF Receive
<1>4. CASE flushAsync(s, b)
  <2>1. b # <<>>
    <3>1. currentBatch[s] \in Seq(AsyncMessages)
      BY Zenon DEF AsyncInv, QueuedInv, Queued
    <3> QED BY <1>1, <3>1
  <2> QED BY <1>2, <1>3, <1>4, <2>1, AsyncFlushes, Zenon
<1>5. CASE currentBatch' = [currentBatch EXCEPT ![s] = b] /\ UNCHANGED <<writers, metrics>>
  BY <1>2, <1>3, <1>5, AsyncCollect, Zenon
<1> QED BY <1>1, <1>4, <1>5, Zenon DEF Receive

\* The ticker and the final flush hand over what the shard has collected.
LEMMA AsyncHandsOver ==
  ASSUME AsyncInv, NEW s \in Shards, flushAsync(s, currentBatch[s]),
         UNCHANGED <<input, aWrite, confirmChan, aStored, aErrors>>
  PROVE  AsyncInv'
<1>1. PICK q, b : q = input[s] /\ b = currentBatch[s]
  BY Zenon
<1>2. Queued(q, b) /\ Elements(q) \cup Elements(b) =
                        Elements(input[s]) \cup Elements(currentBatch[s])
  BY <1>1, Zenon DEF AsyncInv, QueuedInv
<1>3. CASE b = <<>>
  BY <1>1, <1>3, AsyncUnchanged, Zenon DEF flushAsync
<1>4. CASE b # <<>>
  <2>1. /\ writers' = writers \cup {[batch |-> b, result |-> "none"]}
        /\ metrics' = [metrics EXCEPT !.pending = @ + 1]
        /\ currentBatch' = [currentBatch EXCEPT ![s] = <<>>]
    BY <1>1, <1>4, Zenon DEF flushAsync
  <2>2. /\ DOMAIN input' = Shards /\ DOMAIN currentBatch' = Shards
        /\ input'[s] = q /\ currentBatch'[s] = <<>>
        /\ \A t \in Shards : t # s => input'[t] = input[t] /\ currentBatch'[t] = currentBatch[t]
    BY <1>1, <2>1, Zenon DEF AsyncInv, AsyncType
  <2> QED BY <1>2, <1>4, <2>1, <2>2, AsyncFlush, ZenonT(30)
<1> QED BY <1>3, <1>4, Zenon

\* The goroutine of a batch stores it, or sends its result.
LEMMA AsyncStores ==
  ASSUME AsyncInv, NEW w \in writers, StoreBatch(w) PROVE AsyncInv'
<1>1. w.result = "none" /\ UNCHANGED <<input, currentBatch, aWrite, confirmChan, metrics>>
  BY Zenon DEF StoreBatch, flow
<1>2. CASE /\ aStored' = aStored \cup {w.batch[i] : i \in DOMAIN w.batch}
           /\ writers' = (writers \ {w}) \cup {[w EXCEPT !.result = "ok"]} /\ UNCHANGED aErrors
  <2>1. PICK r : r = "ok"
    BY Zenon
  <2>2. /\ r \in {"ok", "failed"} /\ writers' = (writers \ {w}) \cup {[w EXCEPT !.result = r]}
        /\ (r = "ok" => aStored' = aStored \cup Elements(w.batch) /\ aErrors' = aErrors)
        /\ (r = "failed" => aStored' = aStored /\ aErrors' = aErrors + 1)
    BY <1>2, <2>1, Zenon DEF Elements
  <2> QED BY <1>1, <2>2, AsyncStore, Zenon
<1>3. CASE /\ aErrors' = aErrors + 1
           /\ writers' = (writers \ {w}) \cup {[w EXCEPT !.result = "failed"]} /\ UNCHANGED aStored
  <2>1. PICK r : r = "failed"
    BY Zenon
  <2>2. /\ r \in {"ok", "failed"} /\ writers' = (writers \ {w}) \cup {[w EXCEPT !.result = r]}
        /\ (r = "ok" => aStored' = aStored \cup Elements(w.batch) /\ aErrors' = aErrors)
        /\ (r = "failed" => aStored' = aStored /\ aErrors' = aErrors + 1)
    BY <1>3, <2>1, Zenon
  <2> QED BY <1>1, <2>2, AsyncStore, Zenon
<1> QED BY <1>2, <1>3, Zenon DEF StoreBatch

LEMMA AsyncSteps ==
  ASSUME AsyncInv, [AsyncNext]_asyncVars PROVE AsyncInv'
<1>1. CASE \/ UNCHANGED asyncVars \/ AsyncStart \/ AsyncCancel \/ ConfirmExit
           \/ AsyncStop \/ StopClose \/ StopWait
  <2>1. UNCHANGED <<input, currentBatch, aWrite, writers, confirmChan, metrics, aStored, aErrors>>
    BY <1>1, Zenon DEF asyncVars, flow, AsyncStart, AsyncCancel, ConfirmExit, AsyncStop,
                       StopClose, StopWait
  <2> QED BY <2>1, AsyncUnchanged, Zenon
<1>2. ASSUME NEW m \in AsyncMessages, WriteCheck(m) PROVE AsyncInv'
  <2>1. PICK r : r = IF aRunning THEN "send" ELSE "error"
    BY Zenon
  <2>2. /\ aWrite[m] # "nil" /\ aWrite' = [aWrite EXCEPT ![m] = r]
        /\ UNCHANGED <<input, currentBatch, writers, confirmChan, metrics, aStored, aErrors>>
    BY <1>2, <2>1, Zenon DEF WriteCheck
  <2> QED BY <2>2, AsyncWriteOn, Zenon
<1>3. ASSUME NEW m \in AsyncMessages, WriteSend(m) PROVE AsyncInv'
  <2>1. PICK s : s = asyncShardID[m]
    BY Zenon
  <2>2. /\ aWrite[m] # "nil" /\ input' = [input EXCEPT ![s] = Append(@, m)]
        /\ aWrite' = [aWrite EXCEPT ![m] = "nil"]
        /\ UNCHANGED <<currentBatch, writers, confirmChan, metrics, aStored, aErrors>>
    BY <1>3, <2>1, Zenon DEF WriteSend
  <2> QED BY <2>1, <2>2, AsyncTakes, Zenon
<1>4. ASSUME NEW s \in Shards, Receive(s) PROVE AsyncInv'
  BY <1>4, AsyncReceives, Zenon
<1>5. ASSUME NEW s \in Shards, AsyncTick(s) \/ StopCase(s) PROVE AsyncInv'
  <2>1. flushAsync(s, currentBatch[s]) /\ UNCHANGED <<input, aWrite, confirmChan, aStored, aErrors>>
    BY <1>5, Zenon DEF AsyncTick, StopCase
  <2> QED BY <2>1, AsyncHandsOver, Zenon
<1>6. ASSUME NEW w \in writers, StoreBatch(w) PROVE AsyncInv'
  BY <1>6, AsyncStores, Zenon
<1>7. ASSUME NEW w \in writers, SendConfirm(w) PROVE AsyncInv'
  <2>1. w.result # "none" /\ UNCHANGED <<input, currentBatch, aWrite, metrics, aStored, aErrors>>
    BY <1>7, Zenon DEF SendConfirm, flow
  <2>2. CASE /\ confirmChan' = Append(confirmChan, [result |-> w.result, size |-> Len(w.batch)])
             /\ writers' = writers \ {w}
    BY <2>1, <2>2, AsyncSent, Zenon
  <2>3. CASE UNCHANGED <<confirmChan, writers>>
    BY <2>1, <2>3, AsyncUnchanged, Zenon
  <2> QED BY <1>7, <2>2, <2>3, Zenon DEF SendConfirm
<1>8. CASE Confirm
  <2>1. PICK c : c = Head(confirmChan)
    BY Zenon
  <2>2. /\ confirmChan # <<>> /\ confirmChan' = Tail(confirmChan)
        /\ c.result = "ok" =>
             metrics' = [metrics EXCEPT !.confirmed = @ + 1, !.messages = @ + c.size, !.pending = @ - 1]
        /\ c.result # "ok" => metrics' = [metrics EXCEPT !.failed = @ + 1, !.pending = @ - 1]
        /\ UNCHANGED <<input, currentBatch, aWrite, writers, aStored, aErrors>>
    BY <1>8, <2>1, Zenon DEF Confirm, flow
  <2> QED BY <2>1, <2>2, AsyncCounted, Zenon
<1> QED BY <1>1, <1>2, <1>3, <1>4, <1>5, <1>6, <1>7, <1>8, Zenon DEF AsyncNext

LEMMA AsyncExactHolds ==
  ASSUME AsyncInv PROVE AsyncExact
<1>1. MetricsExact
  <2>1. PICK m, e, o, f, h, g, w, l :
          /\ m = metrics.messages /\ e = metrics.failed
          /\ o = Cardinality(OkSent(Seen, confirmChan)) /\ f = Cardinality(FailedSent(Seen, confirmChan))
          /\ h = Cardinality(OkHeld(writers)) /\ g = Cardinality(FailedHeld(writers))
          /\ w = Cardinality(writers) /\ l = Len(confirmChan)
    BY Zenon
  <2>2. /\ metrics.pending = w + l /\ Cardinality(aStored) = m + o + h /\ aErrors = e + f + g
    BY <2>1, Zenon DEF AsyncInv, CountsInv
  <2>3. m \in Nat /\ e \in Nat
    BY <2>1, Zenon DEF AsyncInv, AsyncType, Metrics
  <2>4. o \in Nat /\ f \in Nat /\ w \in Nat
    BY <2>1, FS_CardinalityType, Zenon DEF AsyncInv, AsyncType, CountsInv
  <2>5. h \in Nat /\ g \in Nat
    BY <2>1, HeldFinite, Zenon DEF AsyncInv, AsyncType
  <2>6. l \in Nat
    BY <2>1 DEF AsyncInv, AsyncType
  <2>7. m <= m + o + h /\ e <= e + f + g
    BY <2>3, <2>4, <2>5
  <2>8. ASSUME w + l = 0 PROVE m = m + o + h /\ e = e + f + g
    <3>1. w = 0 /\ l = 0
      BY <2>4, <2>6, <2>8
    <3>2. writers = {} /\ confirmChan = <<>>
      <4>1. writers = {}
        BY <2>1, <3>1, FS_EmptySet, Zenon DEF AsyncInv, AsyncType
      <4>2. confirmChan = <<>>
        <5>1. PICK q : q = confirmChan
          BY Zenon
        <5>2. q \in Seq(Confirmation) /\ Len(q) = 0
          BY <2>1, <3>1, <5>1, Zenon DEF AsyncInv, AsyncType
        <5>3. q = <<>>
          BY ONLY <5>2
        <5> QED BY <5>1, <5>3, Zenon
      <4> QED BY <4>1, <4>2, Zenon
    <3>3. OkHeld({}) = {} /\ FailedHeld({}) = {}
      BY Zenon DEF OkHeld, FailedHeld
    <3>4. Seen \in Nat
      <4>1. metrics.confirmed \in Nat /\ metrics.failed \in Nat
        BY Zenon DEF AsyncInv, AsyncType, Metrics
      <4> QED BY <4>1 DEF Seen
    <3>5. OkSent(Seen, <<>>) = {} /\ FailedSent(Seen, <<>>) = {}
      <4>1. PICK n : n = Seen
        BY Zenon
      <4>2. n \in Nat
        BY <3>4, <4>1, Zenon
      <4>3. OkSent(n, <<>>) = {} /\ FailedSent(n, <<>>) = {}
        BY <4>2 DEF OkSent, FailedSent
      <4> QED BY <4>1, <4>3, Zenon
    <3>6. Cardinality({}) = 0
      BY FS_EmptySet, Zenon
    <3>7. o = 0 /\ f = 0 /\ h = 0 /\ g = 0
      BY <2>1, <3>2, <3>3, <3>5, <3>6, Zenon
    <3>8. m = m + 0 + 0 /\ e = e + 0 + 0
      BY <2>3
    <3> QED BY <3>7, <3>8, Zenon
  <2>9. metrics.messages <= Cardinality(aStored) /\ metrics.failed <= aErrors
    BY <2>1, <2>2, <2>7, Zenon
  <2>10. ASSUME metrics.pending = 0 PROVE metrics.messages = Cardinality(aStored) /\ metrics.failed = aErrors
    <3>1. w + l = 0
      BY <2>2, <2>10, Zenon
    <3> QED BY <2>1, <2>2, <2>8, <3>1, Zenon
  <2>11. metrics.pending = Cardinality(writers) + Len(confirmChan)
    BY <2>1, <2>2, Zenon
  <2> QED BY <2>9, <2>10, <2>11, Zenon DEF MetricsExact
<1>2. OnePlace
  <2>1. \A s \in Shards : Elements(input[s]) \cap Elements(currentBatch[s]) = {}
    BY Zenon DEF AsyncInv, QueuedInv, Queued
  <2>2. \A s \in Shards, w \in writers :
          Elements(w.batch) \cap (Elements(input[s]) \cup Elements(currentBatch[s])) = {}
    BY Zenon DEF AsyncInv, QueuedInv
  <2>3. \A v, w \in writers : v # w => Elements(v.batch) \cap Elements(w.batch) = {}
    BY Zenon DEF AsyncInv, BatchesInv
  <2> QED BY <2>1, <2>2, <2>3, Zenon DEF OnePlace
<1> QED BY <1>1, <1>2, Zenon DEF AsyncExact

\* Pending batches are with a goroutine or in the channel, the messages and failures counted
\* are those that happened once nothing is pending, and no message is in two places, for any
\* number of shards and messages, also after a panic in Stop (run, flushAsync,
\* processConfirmations).
THEOREM AsyncCountsExact == AsyncSpec => []AsyncExact
<1>1. AsyncInit => AsyncInv
  BY AsyncInitInv, Zenon
<1>2. AsyncInv /\ [AsyncNext]_asyncVars => AsyncInv'
  BY AsyncSteps, Zenon
<1>3. AsyncInv => AsyncExact
  BY AsyncExactHolds, Zenon
<1> QED
  BY <1>1, <1>2, <1>3, PTL DEF AsyncSpec
=============================================================================
