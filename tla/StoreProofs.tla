---------------------------- MODULE StoreProofs ----------------------------
(***************************************************************************)
(* Proofs about the Dragonfly store and the embedded stores, for any       *)
(* clients and messages.                                                   *)
(***************************************************************************)
EXTENDS DragonflyStore, EmbeddedStores, FiniteSetTheorems, TLAPS

-----------------------------------------------------------------------------
(* The Dragonfly store: types, and what an operation knows between two commands. *)

Kinds == {"none", "json", "raw"}
Labels == {"idle", "stream", "count", "parallel", "fetch", "get", "done", "clean", "age", "del",
           "create", "parts", "delparts", "deloffsets"}
OpType == [at : Labels, ids : SUBSET DfIds, topic : DfTopics \cup {"none"}, page : SUBSET DfIds,
           last : BOOLEAN, owed : SUBSET DfIds, must : SUBSET DfIds, acc : SUBSET DfIds, whole : BOOLEAN]
DfType == dfKeys \in [DfIds -> Kinds] /\ dfAcked \subseteq DfIds /\ dfOp \in [DfClients -> OpType]

\* What a fetch has to find it has found, has in its page, or SCAN still owes it; what a
\* cleanup deletes is old.
Covered(o) ==
  /\ o.at = "fetch" => o.must \subseteq o.acc \cup o.owed
  /\ o.at = "get" => /\ o.must \subseteq o.acc \cup o.page \cup o.owed
                     /\ o.last => o.owed = {}
  /\ o.at = "done" => o.must \subseteq o.acc
Sound(o) ==
  /\ o.at = "del" => o.ids \subseteq DfOld
  /\ o.at \in {"fetch", "get", "done"} => \A m \in o.acc \cup o.must : DfTopicOf[m] = o.topic
  /\ o.whole => Covered(o)
OpInv == \A c \in DfClients : Sound(dfOp[c]) /\ \A m \in dfOp[c].must : dfKeys[m] = "json"

DragonflyInv == DfType /\ OpInv /\ AcceptedKept

LEMMA TrimFields ==
  ASSUME NEW o \in OpType, NEW keys
  PROVE  /\ Trim(o, keys) \in OpType
         /\ Trim(o, keys).at = o.at /\ Trim(o, keys).ids = o.ids /\ Trim(o, keys).topic = o.topic
         /\ Trim(o, keys).page = o.page /\ Trim(o, keys).last = o.last
         /\ Trim(o, keys).acc = o.acc /\ Trim(o, keys).whole = o.whole
         /\ Trim(o, keys).owed = o.owed \cap Present(keys)
         /\ Trim(o, keys).must = {m \in o.must : keys[m] = "json"}
  BY ZenonT(30) DEF OpType, Trim

LEMMA TrimSound ==
  ASSUME NEW o \in OpType, NEW keys, Sound(o)
  PROVE  /\ Trim(o, keys) \in OpType /\ Sound(Trim(o, keys))
         /\ \A m \in Trim(o, keys).must : keys[m] = "json"
<1>1. o.must \subseteq DfIds
  BY Zenon DEF OpType
<1>2. PICK t : t = Trim(o, keys)
  BY Zenon
<1>3. /\ t.at = o.at /\ t.ids = o.ids /\ t.topic = o.topic /\ t.page = o.page /\ t.last = o.last
      /\ t.acc = o.acc /\ t.whole = o.whole
      /\ t.owed \subseteq o.owed /\ t.must \subseteq o.must
      /\ \A m \in t.must : m \in o.owed => m \in t.owed
  <2>1. "json" # "none"
    OBVIOUS
  <2> QED BY <1>1, <1>2, <2>1, TrimFields, ZenonT(30) DEF Present
<1>4. o.whole => Covered(t)
  BY <1>3, Zenon DEF Sound, Covered
<1>5. Sound(t)
  BY <1>3, <1>4, Zenon DEF Sound
<1>6. t \in OpType /\ t.must = {m \in o.must : keys[m] = "json"}
  BY <1>2, TrimFields, Zenon
<1>7. \A m \in t.must : keys[m] = "json"
  BY <1>6, Zenon
<1> QED BY <1>2, <1>5, <1>6, <1>7, Zenon

\* A step of one client, or the expiry of a key, given that the client goes on soundly.
LEMMA StepKeeps ==
  ASSUME DfType, OpInv, NEW c \in DfClients, NEW r \in OpType, Sound(r), NEW keys \in [DfIds -> Kinds],
         Step(c, r, keys), dfAcked' \subseteq DfIds, \A m \in dfAcked' : keys[m] = "json"
  PROVE  DragonflyInv'
<1>1. \A d \in DfClients : (IF d = c THEN r ELSE dfOp[d]) \in OpType /\ Sound(IF d = c THEN r ELSE dfOp[d])
  BY Zenon DEF DfType, OpInv
<1>2. dfKeys' = keys /\ dfOp' = [d \in DfClients |-> Trim(IF d = c THEN r ELSE dfOp[d], keys)]
  BY Zenon DEF Step
<1>3. ASSUME NEW d \in DfClients
      PROVE  dfOp'[d] \in OpType /\ Sound(dfOp'[d]) /\ \A m \in dfOp'[d].must : keys[m] = "json"
  <2>1. PICK o \in OpType : o = (IF d = c THEN r ELSE dfOp[d]) /\ Sound(o)
    BY <1>1, Zenon
  <2>2. dfOp'[d] = Trim(o, keys)
    BY <1>2, <2>1, Zenon
  <2>3. Trim(o, keys) \in OpType /\ Sound(Trim(o, keys)) /\ \A m \in Trim(o, keys).must : keys[m] = "json"
    BY <2>1, TrimSound, Zenon
  <2> QED BY <2>2, <2>3, Zenon
<1>4. DfType'
  BY <1>2, <1>3, Zenon DEF DfType
<1>5. OpInv'
  BY <1>2, <1>3, Zenon DEF OpInv
<1>6. AcceptedKept'
  BY <1>2, Zenon DEF AcceptedKept, FetchByID
<1> QED BY <1>4, <1>5, <1>6, Zenon DEF DragonflyInv

LEMMA NoIdsType == NoIds \in OpType /\ NoIds.at = "idle" /\ NoIds.acc = {} /\ NoIds.must = {}
  BY DEF NoIds, OpType, Labels

\* Outside of a fetch and of the deletion of a cleanup nothing has to be shown.
LEMMA PlainSound ==
  ASSUME NEW o, o.at \in Labels \ {"fetch", "get", "done", "del"}
  PROVE  Sound(o)
  BY Zenon DEF Sound, Covered, Labels

LEMMA PutType ==
  ASSUME DfType, NEW ids, NEW kind \in Kinds
  PROVE  /\ Put(ids, kind) \in [DfIds -> Kinds]
         /\ \A m \in DfIds : m \in ids => Put(ids, kind)[m] = kind
         /\ \A m \in DfIds : m \notin ids => Put(ids, kind)[m] = dfKeys[m]
  BY Zenon DEF DfType, Put

\* What was accepted is serialised, and stays so where no key is written.
LEMMA AckedJson ==
  ASSUME DfType, AcceptedKept PROVE \A m \in dfAcked : m \in DfIds /\ dfKeys[m] = "json"
<1>1. \A m \in dfAcked : dfKeys[m] = "json"
  BY Zenon DEF AcceptedKept, FetchByID
<1> QED BY <1>1, Zenon DEF DfType


\* The operations that write message keys: whatever was accepted and not taken back is
\* serialised in the new keys.
LEMMA PutKeeps ==
  ASSUME DragonflyInv, NEW c \in DfClients, NEW r \in OpType, Sound(r),
         NEW ids \in SUBSET DfIds, NEW kind \in Kinds, Step(c, r, Put(ids, kind)),
         \/ kind = "json" /\ dfAcked' \in {dfAcked, dfAcked \cup ids}
         \/ dfAcked' = dfAcked \ ids
  PROVE  DragonflyInv'
<1>1. DfType /\ OpInv /\ AcceptedKept
  BY Zenon DEF DragonflyInv
<1>2. PICK keys \in [DfIds -> Kinds] :
        /\ keys = Put(ids, kind)
        /\ \A m \in ids : keys[m] = kind
        /\ \A m \in DfIds \ ids : keys[m] = dfKeys[m]
  <2>1. /\ Put(ids, kind) \in [DfIds -> Kinds]
        /\ \A m \in DfIds : m \in ids => Put(ids, kind)[m] = kind
        /\ \A m \in DfIds : m \notin ids => Put(ids, kind)[m] = dfKeys[m]
    BY <1>1, PutType, Zenon
  <2> QED BY <2>1, Zenon
<1>3. \A m \in dfAcked : m \in DfIds /\ dfKeys[m] = "json"
  BY <1>1, AckedJson, Zenon
<1>4. \A m \in dfAcked' : m \in DfIds /\ keys[m] = "json"
  <2>1. CASE kind = "json" /\ dfAcked' \in {dfAcked, dfAcked \cup ids}
    BY <1>2, <1>3, <2>1, Zenon
  <2>2. CASE dfAcked' = dfAcked \ ids
    BY <1>2, <1>3, <2>2, Zenon
  <2> QED BY <2>1, <2>2, Zenon
<1>5. Step(c, r, keys)
  BY <1>2, Zenon
<1> QED BY <1>1, <1>4, <1>5, StepKeeps, Zenon

\* The ones that leave the message keys alone.
LEMMA SameKeys ==
  ASSUME DragonflyInv, NEW c \in DfClients, NEW r \in OpType, Sound(r), Step(c, r, dfKeys),
         \A m \in dfAcked' : m \in dfAcked \/ (m \in DfIds /\ dfKeys[m] = "json")
  PROVE  DragonflyInv'
<1>1. DfType /\ OpInv /\ AcceptedKept /\ dfKeys \in [DfIds -> Kinds]
  BY Zenon DEF DragonflyInv, DfType
<1>2. \A m \in dfAcked' : m \in DfIds /\ dfKeys[m] = "json"
  BY <1>1, AckedJson, Zenon
<1> QED BY <1>1, <1>2, StepKeeps, Zenon

\* What an operation knows at a step.
LEMMA OpOf ==
  ASSUME DragonflyInv, NEW c \in DfClients
  PROVE  /\ dfOp[c] \in OpType /\ Sound(dfOp[c])
         /\ \A m \in dfOp[c].must : dfKeys[m] = "json"
  BY Zenon DEF DragonflyInv, DfType, OpInv

LEMMA FinishKeeps ==
  ASSUME DragonflyInv, NEW c \in DfClients, Finish(c),
         \A m \in dfAcked' : m \in dfAcked \/ (m \in DfIds /\ dfKeys[m] = "json")
  PROVE  DragonflyInv'
<1>1. Sound(NoIds) /\ NoIds \in OpType /\ Step(c, NoIds, dfKeys)
  BY NoIdsType, PlainSound, Zenon DEF Labels, Finish
<1> QED BY <1>1, SameKeys, Zenon

LEMMA GotoKeeps ==
  ASSUME DragonflyInv, NEW c \in DfClients, NEW where \in Labels \ {"fetch", "get", "done", "del"},
         Goto(c, where), UNCHANGED dfAcked
  PROVE  DragonflyInv'
<1>1. PICK o \in OpType : o = dfOp[c]
  BY OpOf, Zenon
<1>2. PICK r : r = [o EXCEPT !.at = where]
  BY Zenon
<1>3. r \in OpType /\ r.at = where
  BY <1>2 DEF OpType
<1>4. Sound(r)
  BY <1>3, PlainSound, Zenon
<1>5. Step(c, r, dfKeys)
  BY <1>1, <1>2, Zenon DEF Goto
<1> QED BY <1>3, <1>4, <1>5, SameKeys, Zenon

-----------------------------------------------------------------------------
(* Storing *)

LEMMA StoreKeeps ==
  ASSUME DragonflyInv, NEW c \in DfClients, NEW m \in DfIds, Store(c, m)
  PROVE  DragonflyInv'
<1>1. PICK r : r = [NoIds EXCEPT !.at = "stream", !.ids = {m}]
  BY Zenon
<1>2. r \in OpType /\ r.at = "stream"
  BY <1>1, NoIdsType, ZenonT(30) DEF OpType, Labels
<1>3. Sound(r)
  BY <1>2, PlainSound DEF Labels
<1>4. Step(c, r, Put({m}, "json")) /\ dfAcked' = dfAcked
  BY <1>1, Zenon DEF Store
<1>5. {m} \in SUBSET DfIds /\ "json" \in Kinds
  BY Zenon DEF Kinds
<1>6. "json" = "json" /\ dfAcked' \in {dfAcked, dfAcked \cup {m}}
  BY <1>4, Zenon
<1> QED BY <1>2, <1>3, <1>4, <1>5, <1>6, PutKeeps, Zenon

LEMMA StoreBatchKeeps ==
  ASSUME DragonflyInv, NEW c \in DfClients, NEW ids \in SUBSET DfIds,
         StoreBatch(c, ids) \/ UltraFastStore(c, ids) \/ DeleteBatch(c, ids)
  PROVE  DragonflyInv'
<1>1. NoIds \in OpType /\ Sound(NoIds)
  BY NoIdsType, PlainSound DEF Labels
<1>2. "json" \in Kinds /\ "raw" \in Kinds /\ "none" \in Kinds
  BY Zenon DEF Kinds
<1>3. CASE Step(c, NoIds, Put(ids, "json")) /\ dfAcked' = dfAcked \cup ids
  <2>1. "json" = "json" /\ dfAcked' \in {dfAcked, dfAcked \cup ids}
    BY <1>3, Zenon
  <2> QED BY <1>1, <1>2, <1>3, <2>1, PutKeeps, Zenon
<1>4. ASSUME NEW some \in SUBSET ids, Step(c, NoIds, Put(some, "json")), UNCHANGED dfAcked
      PROVE  DragonflyInv'
  <2>1. some \in SUBSET DfIds
    BY Zenon
  <2>2. "json" = "json" /\ dfAcked' \in {dfAcked, dfAcked \cup some}
    BY <1>4, Zenon
  <2> QED BY <1>1, <1>2, <1>4, <2>1, <2>2, PutKeeps, Zenon
<1>5. ASSUME NEW some \in SUBSET ids, NEW kind \in Kinds, Step(c, NoIds, Put(some, kind)), dfAcked' = dfAcked \ some
      PROVE  DragonflyInv'
  <2>1. some \in SUBSET DfIds
    BY Zenon
  <2> QED BY <1>1, <1>5, <2>1, PutKeeps, Zenon
<1>6. CASE StoreBatch(c, ids)
  BY <1>3, <1>4, <1>6, Zenon DEF StoreBatch
<1>7. CASE UltraFastStore(c, ids)
  BY <1>2, <1>5, <1>7, Zenon DEF UltraFastStore
<1>8. CASE DeleteBatch(c, ids)
  BY <1>2, <1>5, <1>8, Zenon DEF DeleteBatch
<1> QED BY <1>6, <1>7, <1>8, Zenon


\* The records of a parallel store: a sub-batch moves from one field to the next.
LEMMA ParallelRecords ==
  ASSUME NEW o \in OpType, o.at = "parallel", NEW m \in DfIds
  PROVE  /\ LET r == [o EXCEPT !.ids = @ \ {m}, !.page = @ \cup {m}] IN r \in OpType /\ r.at = "parallel"
         /\ LET r == [o EXCEPT !.page = @ \ {m}, !.acc = @ \cup {m}] IN r \in OpType /\ r.at = "parallel"
         /\ LET r == [o EXCEPT !.page = @ \ {m}, !.whole = FALSE] IN r \in OpType /\ r.at = "parallel"
  BY ZenonT(30) DEF OpType

LEMMA ParallelKeeps ==
  ASSUME DragonflyInv, NEW c \in DfClients,
         StoreBatchParallel(c, DfIds) \/ storeBatchWithSemaphore(c, DfIds)
  PROVE  DragonflyInv'
<1>1. PICK r : /\ r \in {[NoIds EXCEPT !.at = "parallel", !.page = DfIds], [NoIds EXCEPT !.at = "parallel", !.ids = DfIds]}
               /\ Step(c, r, dfKeys) /\ dfAcked' = dfAcked
  BY Zenon DEF StoreBatchParallel, storeBatchWithSemaphore
<1>2. r \in OpType /\ r.at = "parallel"
  BY <1>1, NoIdsType, ZenonT(30) DEF OpType, Labels
<1>3. Sound(r)
  BY <1>2, PlainSound DEF Labels
<1> QED BY <1>1, <1>2, <1>3, SameKeys, Zenon

LEMMA AcquireKeeps ==
  ASSUME DragonflyInv, NEW c \in DfClients, NEW m \in DfIds, AcquireSemaphore(c, m)
  PROVE  DragonflyInv'
<1>1. PICK o \in OpType : o = dfOp[c] /\ o.at = "parallel"
  BY OpOf, Zenon DEF AcquireSemaphore, At
<1>2. PICK r : r = [o EXCEPT !.ids = @ \ {m}, !.page = @ \cup {m}]
  BY Zenon
<1>3. r \in OpType /\ r.at = "parallel"
  BY <1>1, <1>2, ParallelRecords, Zenon
<1>4. Sound(r)
  BY <1>3, PlainSound DEF Labels
<1>5. Step(c, r, dfKeys) /\ dfAcked' = dfAcked
  BY <1>1, <1>2, Zenon DEF AcquireSemaphore
<1> QED BY <1>3, <1>4, <1>5, SameKeys, Zenon

LEMMA SubBatchKeeps ==
  ASSUME DragonflyInv, NEW c \in DfClients, NEW m \in DfIds, SubBatchExec(c, m)
  PROVE  DragonflyInv'
<1>1. PICK o \in OpType : o = dfOp[c] /\ o.at = "parallel"
  BY OpOf, Zenon DEF SubBatchExec, At
<1>2. PICK r : /\ r \in {[o EXCEPT !.page = @ \ {m}, !.acc = @ \cup {m}], [o EXCEPT !.page = @ \ {m}, !.whole = FALSE]}
               /\ Step(c, r, Put({m}, "json")) \/ Step(c, r, dfKeys)
               /\ dfAcked' = dfAcked
  BY <1>1, Zenon DEF SubBatchExec
<1>3. r \in OpType /\ r.at = "parallel"
  <2>1. CASE r = [o EXCEPT !.page = @ \ {m}, !.acc = @ \cup {m}]
    BY <1>1, <2>1, ParallelRecords, Zenon
  <2>2. CASE r = [o EXCEPT !.page = @ \ {m}, !.whole = FALSE]
    BY <1>1, <2>2, ParallelRecords, Zenon
  <2> QED BY <1>2, <2>1, <2>2, Zenon
<1>4. Sound(r)
  BY <1>3, PlainSound DEF Labels
<1>5. {m} \in SUBSET DfIds /\ "json" \in Kinds
  BY Zenon DEF Kinds
<1>6. "json" = "json" /\ dfAcked' \in {dfAcked, dfAcked \cup {m}}
  BY <1>2, Zenon
<1>7. CASE Step(c, r, Put({m}, "json"))
  BY <1>3, <1>4, <1>5, <1>6, <1>7, PutKeeps, Zenon
<1>8. CASE Step(c, r, dfKeys)
  BY <1>2, <1>3, <1>4, <1>8, SameKeys, Zenon
<1> QED BY <1>2, <1>7, <1>8, Zenon

\* A store is acknowledged for what Redis then holds.
LEMMA AckKeeps ==
  ASSUME DragonflyInv, NEW c \in DfClients, StoreCount(c) \/ StoreBatchWait(c)
  PROVE  DragonflyInv'
<1>1. Finish(c)
  BY Zenon DEF StoreCount, StoreBatchWait
<1>2. dfOp[c].ids \subseteq DfIds /\ dfOp[c].acc \subseteq DfIds
  <2>1. \A o \in OpType : o.ids \subseteq DfIds /\ o.acc \subseteq DfIds
    BY DEF OpType
  <2> QED BY <2>1, OpOf, Zenon
<1>3. \A m \in dfAcked' : m \in dfAcked \/ (m \in DfIds /\ dfKeys[m] = "json")
  BY <1>2, Zenon DEF StoreCount, StoreBatchWait
<1> QED BY <1>1, <1>3, FinishKeeps, Zenon

LEMMA ExpireKeeps ==
  ASSUME DragonflyInv, NEW m \in DfIds, Expire(m)
  PROVE  DragonflyInv'
<1>1. DfType /\ OpInv /\ AcceptedKept
  BY Zenon DEF DragonflyInv
<1>2. PICK keys \in [DfIds -> Kinds] :
        /\ keys = Put({m}, "none")
        /\ \A n \in DfIds : n # m => keys[n] = dfKeys[n]
  <2>1. "none" \in Kinds
    BY Zenon DEF Kinds
  <2>2. /\ Put({m}, "none") \in [DfIds -> Kinds]
        /\ \A n \in DfIds : n \notin {m} => Put({m}, "none")[n] = dfKeys[n]
    BY <1>1, <2>1, PutType, Zenon
  <2> QED BY <2>2, Zenon
<1>3. dfKeys' = keys /\ dfOp' = [c \in DfClients |-> Trim(dfOp[c], keys)] /\ dfAcked' = dfAcked \ {m}
  BY <1>2, Zenon DEF Expire
<1>4. \A n \in dfAcked' : n \in DfIds /\ keys[n] = "json"
  BY <1>1, <1>2, <1>3, AckedJson, Zenon
<1>5. ASSUME NEW c \in DfClients
      PROVE  dfOp'[c] \in OpType /\ Sound(dfOp'[c]) /\ \A n \in dfOp'[c].must : keys[n] = "json"
  <2>1. PICK o \in OpType : o = dfOp[c] /\ Sound(o)
    BY OpOf, Zenon
  <2>2. Trim(o, keys) \in OpType /\ Sound(Trim(o, keys)) /\ \A n \in Trim(o, keys).must : keys[n] = "json"
    BY <2>1, TrimSound, Zenon
  <2>3. dfOp'[c] = Trim(o, keys)
    BY <1>3, <2>1, Zenon
  <2> QED BY <2>2, <2>3, Zenon
<1>6. DfType'
  BY <1>3, <1>4, <1>5, Zenon DEF DfType
<1>7. OpInv'
  BY <1>3, <1>5, Zenon DEF OpInv
<1>8. AcceptedKept'
  BY <1>3, <1>4, Zenon DEF AcceptedKept, FetchByID
<1> QED BY <1>6, <1>7, <1>8, Zenon DEF DragonflyInv


-----------------------------------------------------------------------------
(* Fetching *)

LEMMA FetchKeeps ==
  ASSUME DragonflyInv, NEW c \in DfClients, NEW t \in DfTopics, Fetch(c, t)
  PROVE  DragonflyInv'
<1>1. PICK must, owed : /\ must = {m \in DfIds : dfKeys[m] = "json" /\ DfTopicOf[m] = t}
                        /\ owed = Present(dfKeys)
  BY Zenon
<1>2. PICK r : r = [NoIds EXCEPT !.at = "fetch", !.topic = t, !.owed = owed, !.must = must]
  BY Zenon
<1>3. must \subseteq DfIds /\ owed \subseteq DfIds /\ \A m \in must : DfTopicOf[m] = t
  BY <1>1, Zenon DEF Present
<1>4. must \subseteq owed
  <2>1. "json" # "none"
    OBVIOUS
  <2> QED BY <1>1, <2>1, Zenon DEF Present
<1>5. r \in OpType /\ r.at = "fetch" /\ r.topic = t /\ r.owed = owed /\ r.must = must /\ r.acc = {}
  BY <1>2, <1>3, NoIdsType, ZenonT(30) DEF OpType, Labels
<1>6. Covered(r)
  BY <1>4, <1>5 DEF Covered
<1>7. Sound(r)
  BY <1>3, <1>5, <1>6 DEF Sound
<1>8. Step(c, r, dfKeys) /\ dfAcked' = dfAcked
  BY <1>1, <1>2, Zenon DEF Fetch
<1> QED BY <1>5, <1>7, <1>8, SameKeys, Zenon

\* A page of SCAN, or the end of the scan.
LEMMA ScanRecords ==
  ASSUME NEW o \in OpType, o.at = "fetch", Sound(o), NEW page \in SUBSET DfIds, NEW last \in BOOLEAN,
         last => o.owed \subseteq page
  PROVE  /\ LET r == [o EXCEPT !.at = "get", !.page = page, !.last = last, !.owed = @ \ page]
            IN  r \in OpType /\ Sound(r)
         /\ page = {} => LET r == [o EXCEPT !.at = "done", !.whole = @ /\ last]
                         IN  r \in OpType /\ Sound(r)
<1>1. PICK r : r = [o EXCEPT !.at = "get", !.page = page, !.last = last, !.owed = @ \ page]
  BY Zenon
<1>2. /\ r \in OpType /\ r.at = "get" /\ r.page = page /\ r.last = last /\ r.owed = o.owed \ page
      /\ r.must = o.must /\ r.acc = o.acc /\ r.topic = o.topic /\ r.whole = o.whole
  BY <1>1, ZenonT(30) DEF OpType, Labels
<1>3. /\ o.whole => o.must \subseteq o.acc \cup o.owed
      /\ \A m \in o.acc \cup o.must : DfTopicOf[m] = o.topic
  BY Zenon DEF Sound, Covered
<1>4. o.whole => r.must \subseteq r.acc \cup r.page \cup r.owed /\ (r.last => r.owed = {})
  BY <1>2, <1>3, Zenon
<1>5. Sound(r)
  BY <1>2, <1>3, <1>4 DEF Sound, Covered
<1>6. ASSUME page = {}
      PROVE  LET s == [o EXCEPT !.at = "done", !.whole = @ /\ last] IN s \in OpType /\ Sound(s)
  <2>1. PICK s : s = [o EXCEPT !.at = "done", !.whole = @ /\ last]
    BY Zenon
  <2>2. /\ s \in OpType /\ s.at = "done" /\ s.must = o.must /\ s.acc = o.acc /\ s.topic = o.topic
        /\ s.whole = (o.whole /\ last)
    BY <2>1, ZenonT(30) DEF OpType, Labels
  <2>3. s.whole => s.must \subseteq s.acc
    BY <1>3, <1>6, <2>2, Zenon
  <2>4. Sound(s)
    BY <1>3, <2>2, <2>3 DEF Sound, Covered
  <2> QED BY <2>1, <2>2, <2>4, Zenon
<1> QED BY <1>1, <1>2, <1>5, <1>6, Zenon

LEMMA FetchScanKeeps ==
  ASSUME DragonflyInv, NEW c \in DfClients, FetchScan(c)
  PROVE  DragonflyInv'
<1>1. PICK o \in OpType : o = dfOp[c] /\ Sound(o) /\ o.at = "fetch"
  BY OpOf, Zenon DEF FetchScan, ScanPage, At
<1>2. PICK end : end = [last \in BOOLEAN |-> [o EXCEPT !.at = "done", !.whole = @ /\ last]]
  BY Zenon
<1>3. PICK page \in SUBSET Present(dfKeys), last \in BOOLEAN :
        /\ last => o.owed \subseteq page
        /\ Step(c, IF page = {} THEN end[last]
                   ELSE [o EXCEPT !.at = "get", !.page = page, !.last = last, !.owed = @ \ page], dfKeys)
  BY <1>1, <1>2, Zenon DEF FetchScan, ScanPage
<1>4. page \in SUBSET DfIds
  BY Zenon DEF Present
<1>5. end[last] = [o EXCEPT !.at = "done", !.whole = @ /\ last]
  BY <1>2, Zenon
<1>6. PICK r : r = IF page = {} THEN end[last]
                   ELSE [o EXCEPT !.at = "get", !.page = page, !.last = last, !.owed = @ \ page]
  BY Zenon
<1>7. r \in OpType /\ Sound(r)
  BY <1>1, <1>3, <1>4, <1>5, <1>6, ScanRecords, ZenonT(30)
<1>8. Step(c, r, dfKeys) /\ dfAcked' = dfAcked
  BY <1>3, <1>6, Zenon DEF FetchScan, ScanPage
<1> QED BY <1>7, <1>8, SameKeys, Zenon


LEMMA FetchGetKeeps ==
  ASSUME DragonflyInv, NEW c \in DfClients, FetchGet(c)
  PROVE  DragonflyInv'
<1>1. PICK o \in OpType : /\ o = dfOp[c] /\ Sound(o) /\ o.at = "get"
                          /\ \A m \in o.must : dfKeys[m] = "json"
  BY OpOf, Zenon DEF FetchGet, At
<1>2. /\ o.whole => o.must \subseteq o.acc \cup o.page \cup o.owed /\ (o.last => o.owed = {})
      /\ \A m \in o.acc \cup o.must : DfTopicOf[m] = o.topic
  BY <1>1, Zenon DEF Sound, Covered
<1>3. PICK found : /\ found = Found(c)
                   /\ found = {m \in o.page : dfKeys[m] = "json" /\ DfTopicOf[m] = o.topic}
  BY <1>1, Zenon DEF Found
<1>4. PICK at, whole, acc, r :
        /\ at \in {"done", "fetch"} /\ whole \in BOOLEAN /\ acc \in {o.acc, o.acc \cup found}
        /\ whole => o.whole /\ acc = o.acc \cup found /\ (at = "done" => o.last)
        /\ \/ r = [o EXCEPT !.acc = acc, !.at = at, !.page = {}, !.whole = whole]
           \/ r = [o EXCEPT !.at = at, !.page = {}, !.whole = whole] /\ acc = o.acc
        /\ Step(c, r, dfKeys)
  <2>1. PICK full : full = (Cardinality(o.acc \cup found) >= DfLimit)
    BY Zenon
  <2>2. CASE Step(c, [o EXCEPT !.acc = o.acc \cup found, !.at = IF full \/ o.last THEN "done" ELSE "fetch",
                               !.page = {}, !.whole = @ /\ ~full], dfKeys)
    <3>1. PICK at, whole : at = (IF full \/ o.last THEN "done" ELSE "fetch") /\ whole = (o.whole /\ ~full)
      BY Zenon
    <3>2. Step(c, [o EXCEPT !.acc = o.acc \cup found, !.at = at, !.page = {}, !.whole = whole], dfKeys)
      BY <2>2, <3>1, Zenon
    <3>3. at \in {"done", "fetch"} /\ whole \in BOOLEAN /\ (whole => o.whole /\ (at = "done" => o.last))
      BY <3>1, ZenonT(30)
    <3> QED BY <3>2, <3>3, Zenon
  <2>3. CASE Step(c, [o EXCEPT !.at = IF o.last THEN "done" ELSE "fetch", !.page = {}, !.whole = FALSE], dfKeys)
    <3>1. PICK at : at = (IF o.last THEN "done" ELSE "fetch")
      BY Zenon
    <3>2. at \in {"done", "fetch"}
      BY <3>1
    <3> QED BY <2>3, <3>1, <3>2, Zenon
  <2> QED BY <1>1, <1>3, <2>1, <2>2, <2>3, Zenon DEF FetchGet
<1>5. dfAcked' = dfAcked
  BY Zenon DEF FetchGet
<1>6. found \subseteq DfIds /\ o.acc \subseteq DfIds
  BY <1>3, Zenon DEF OpType
<1>7. /\ r \in OpType /\ r.at = at /\ r.topic = o.topic /\ r.must = o.must /\ r.owed = o.owed
      /\ r.acc = acc /\ r.whole = whole
  BY <1>4, <1>6, ZenonT(30) DEF OpType, Labels
<1>8. \A m \in r.acc \cup r.must : DfTopicOf[m] = r.topic
  BY <1>2, <1>3, <1>4, <1>7, Zenon
<1>9. ASSUME r.whole
      PROVE  r.must \subseteq r.acc \cup r.owed /\ (r.at = "done" => r.must \subseteq r.acc)
  <2>1. \A m \in o.must : m \in o.page => m \in found
    BY <1>1, <1>2, <1>3, Zenon
  <2>2. o.must \subseteq o.acc \cup found \cup o.owed /\ (o.last => o.owed = {})
    BY <1>2, <1>4, <1>7, <1>9, <2>1, Zenon
  <2> QED BY <1>4, <1>7, <1>9, <2>2, Zenon
<1>10. Sound(r)
  BY <1>4, <1>7, <1>8, <1>9 DEF Sound, Covered
<1> QED BY <1>4, <1>5, <1>7, <1>10, SameKeys, Zenon

-----------------------------------------------------------------------------
(* Retention *)

LEMMA CleanupKeeps ==
  ASSUME DragonflyInv, NEW c \in DfClients, Cleanup(c)
  PROVE  DragonflyInv'
<1>1. PICK owed : owed = Present(dfKeys)
  BY Zenon
<1>2. PICK r : r = [NoIds EXCEPT !.at = "clean", !.owed = owed]
  BY Zenon
<1>3. owed \subseteq DfIds
  BY <1>1, Zenon DEF Present
<1>4. r \in OpType /\ r.at = "clean"
  BY <1>2, <1>3, NoIdsType, ZenonT(30) DEF OpType, Labels
<1>5. Sound(r)
  BY <1>4, PlainSound DEF Labels
<1>6. Step(c, r, dfKeys) /\ dfAcked' = dfAcked
  BY <1>1, <1>2, Zenon DEF Cleanup
<1> QED BY <1>4, <1>5, <1>6, SameKeys, Zenon

LEMMA CleanupScanKeeps ==
  ASSUME DragonflyInv, NEW c \in DfClients, CleanupScan(c)
  PROVE  DragonflyInv'
<1>1. PICK o \in OpType : o = dfOp[c]
  BY OpOf, Zenon
<1>2. PICK end : end = [last \in BOOLEAN |-> NoIds]
  BY Zenon
<1>3. PICK page \in SUBSET Present(dfKeys), last \in BOOLEAN :
        Step(c, IF page = {} THEN end[last]
                ELSE [o EXCEPT !.at = "age", !.page = page, !.last = last, !.owed = @ \ page], dfKeys)
  BY <1>1, <1>2, Zenon DEF CleanupScan, ScanPage
<1>4. page \in SUBSET DfIds /\ end[last] = NoIds
  BY <1>2, Zenon DEF Present
<1>5. PICK r : r = IF page = {} THEN end[last]
                   ELSE [o EXCEPT !.at = "age", !.page = page, !.last = last, !.owed = @ \ page]
  BY Zenon
<1>6. r \in OpType /\ r.at \in {"idle", "age"}
  BY <1>4, <1>5, NoIdsType, ZenonT(30) DEF OpType, Labels
<1>7. Sound(r)
  BY <1>6, PlainSound DEF Labels
<1>8. Step(c, r, dfKeys) /\ dfAcked' = dfAcked
  BY <1>3, <1>5, Zenon DEF CleanupScan, ScanPage
<1> QED BY <1>6, <1>7, <1>8, SameKeys, Zenon

LEMMA NextPageSound ==
  ASSUME NEW o \in OpType
  PROVE  NextPage(o) \in OpType /\ Sound(NextPage(o))
<1>1. PICK r : r = NextPage(o)
  BY Zenon
<1>2. r = NoIds \/ r = [o EXCEPT !.ids = {}, !.at = "clean", !.page = {}]
  BY <1>1, Zenon DEF NextPage
<1>3. r \in OpType /\ r.at \in {"idle", "clean"}
  BY <1>2, NoIdsType, ZenonT(30) DEF OpType, Labels
<1>4. Sound(r)
  BY <1>3, PlainSound DEF Labels
<1> QED BY <1>1, <1>3, <1>4, Zenon

LEMMA CleanupAgeKeeps ==
  ASSUME DragonflyInv, NEW c \in DfClients, CleanupAge(c)
  PROVE  DragonflyInv'
<1>1. PICK o \in OpType : o = dfOp[c] /\ o.at = "age" /\ o.page \subseteq DfIds
  <2>1. \A o \in OpType : o.page \subseteq DfIds
    BY DEF OpType
  <2> QED BY <2>1, OpOf, Zenon DEF CleanupAge, At
<1>2. PICK ids \in {TooOld(c), {}} :
        Step(c, IF ids # {} THEN [o EXCEPT !.ids = ids, !.at = "del"] ELSE NextPage(o), dfKeys)
  BY <1>1, Zenon DEF CleanupAge
<1>3. ids \subseteq DfIds /\ ids \subseteq DfOld
  BY <1>1, <1>2, Zenon DEF TooOld
<1>4. PICK r : r = IF ids # {} THEN [o EXCEPT !.ids = ids, !.at = "del"] ELSE NextPage(o)
  BY Zenon
<1>5. r \in OpType /\ Sound(r)
  <2>1. CASE ids = {}
    BY <1>4, <2>1, NextPageSound, Zenon
  <2>2. CASE ids # {}
    <3>1. r = [o EXCEPT !.ids = ids, !.at = "del"]
      BY <1>4, <2>2, Zenon
    <3>2. r \in OpType /\ r.at = "del" /\ r.ids = ids
      BY <1>3, <3>1, ZenonT(30) DEF OpType, Labels
    <3> QED BY <1>3, <3>2 DEF Sound, Covered
  <2> QED BY <2>1, <2>2, Zenon
<1>6. Step(c, r, dfKeys) /\ dfAcked' = dfAcked
  BY <1>2, <1>4, Zenon DEF CleanupAge
<1> QED BY <1>5, <1>6, SameKeys, Zenon

LEMMA CleanupDelKeeps ==
  ASSUME DragonflyInv, NEW c \in DfClients, CleanupDel(c)
  PROVE  DragonflyInv'
<1>1. PICK o \in OpType : o = dfOp[c] /\ Sound(o) /\ o.at = "del"
  BY OpOf, Zenon DEF CleanupDel, At
<1>2. o.ids \subseteq DfOld /\ o.ids \in SUBSET DfIds /\ "none" \in Kinds
  BY <1>1, Zenon DEF Sound, OpType, Kinds
<1>3. CASE Step(c, NextPage(o), Put(o.ids, "none")) /\ dfAcked' = dfAcked \ (o.ids \cap DfOld)
  <2>1. PICK r \in OpType : r = NextPage(o) /\ Sound(r)
    BY NextPageSound, Zenon
  <2>2. PICK ids \in SUBSET DfIds : ids = o.ids /\ ids \cap DfOld = ids
    BY <1>2, Zenon
  <2>3. Step(c, r, Put(ids, "none")) /\ dfAcked' = dfAcked \ ids
    BY <1>3, <2>1, <2>2, Zenon
  <2> QED BY <1>2, <2>1, <2>3, PutKeeps, Zenon
<1>4. CASE Finish(c) /\ UNCHANGED dfAcked
  BY <1>4, FinishKeeps, Zenon
<1> QED BY <1>1, <1>3, <1>4, Zenon DEF CleanupDel


-----------------------------------------------------------------------------
(* Topics and offsets *)

LEMMA TopicKeeps ==
  ASSUME DragonflyInv, NEW c \in DfClients, NEW t \in DfTopics,
         CreateTopic(c, t) \/ DeleteTopic(c, t)
  PROVE  DragonflyInv'
<1>1. PICK r : /\ r \in {[NoIds EXCEPT !.at = "create", !.topic = t], [NoIds EXCEPT !.at = "delparts", !.topic = t]}
               /\ Step(c, r, dfKeys) /\ dfAcked' = dfAcked
  BY Zenon DEF CreateTopic, DeleteTopic
<1>2. r \in OpType /\ r.at \in {"create", "delparts"}
  BY <1>1, NoIdsType, ZenonT(30) DEF OpType, Labels
<1>3. Sound(r)
  BY <1>2, PlainSound DEF Labels
<1> QED BY <1>1, <1>2, <1>3, SameKeys, Zenon

LEMMA DragonflyInit == NewDragonflyStore => DragonflyInv
<1> SUFFICES ASSUME NewDragonflyStore PROVE DragonflyInv
  OBVIOUS
<1>1. Sound(NoIds) /\ NoIds \in OpType /\ NoIds.must = {}
  BY NoIdsType, PlainSound DEF Labels
<1>2. dfKeys \in [DfIds -> Kinds]
  BY DEF NewDragonflyStore, Kinds
<1>3. DfType
  BY <1>1, <1>2, Zenon DEF NewDragonflyStore, DfType
<1>4. OpInv
  BY <1>1, Zenon DEF NewDragonflyStore, OpInv
<1>5. AcceptedKept
  BY Zenon DEF NewDragonflyStore, AcceptedKept, FetchByID
<1> QED BY <1>3, <1>4, <1>5, Zenon DEF DragonflyInv

LEMMA DragonflyStep == DragonflyInv /\ [DragonflyNext]_dfVars => DragonflyInv'
<1> SUFFICES ASSUME DragonflyInv, [DragonflyNext]_dfVars PROVE DragonflyInv'
  OBVIOUS
<1>1. CASE UNCHANGED <<dfKeys, dfOp, dfAcked>>
  BY <1>1, Zenon DEF DragonflyInv, DfType, OpInv, AcceptedKept, FetchByID
<1>2. CASE UNCHANGED dfVars
  BY <1>1, <1>2, Zenon DEF dfVars
<1>3. ASSUME NEW c \in DfClients, Finish(c), UNCHANGED dfAcked PROVE DragonflyInv'
  BY <1>3, FinishKeeps, Zenon
<1>4. ASSUME NEW c \in DfClients, NEW m \in DfIds, Store(c, m) \/ AcquireSemaphore(c, m) \/ SubBatchExec(c, m)
      PROVE  DragonflyInv'
  BY <1>4, StoreKeeps, AcquireKeeps, SubBatchKeeps, Zenon
<1>5. ASSUME NEW c \in DfClients, NEW ids \in SUBSET DfIds \ {{}},
             StoreBatch(c, ids) \/ UltraFastStore(c, ids) \/ DeleteBatch(c, ids)
      PROVE  DragonflyInv'
  BY <1>5, StoreBatchKeeps, Zenon
<1>6. ASSUME NEW c \in DfClients, StoreBatchParallel(c, DfIds) \/ storeBatchWithSemaphore(c, DfIds)
      PROVE  DragonflyInv'
  BY <1>6, ParallelKeeps, Zenon
<1>7. ASSUME NEW c \in DfClients, StoreStream(c) \/ StoreCount(c) \/ StoreBatchWait(c)
      PROVE  DragonflyInv'
  <2>1. CASE StoreStream(c)
    <3>1. Goto(c, "count") /\ dfAcked' = dfAcked /\ "count" \in Labels \ {"fetch", "get", "done", "del"}
      BY <2>1 DEF StoreStream, Labels
    <3> QED BY <3>1, GotoKeeps, Zenon
  <2> QED BY <1>7, <2>1, AckKeeps, Zenon
<1>8. ASSUME NEW c \in DfClients, NEW t \in DfTopics,
             Fetch(c, t) \/ CreateTopic(c, t) \/ DeleteTopic(c, t) \/ CommitOffset(c, t)
      PROVE  DragonflyInv'
  <2>1. CASE CommitOffset(c, t)
    BY <1>1, <2>1, Zenon DEF CommitOffset
  <2> QED BY <1>8, <2>1, FetchKeeps, TopicKeeps, Zenon
<1>9. ASSUME NEW c \in DfClients, FetchScan(c) \/ FetchGet(c) \/ FetchReturn(c)
      PROVE  DragonflyInv'
  <2>1. CASE FetchReturn(c)
    BY <1>3, <2>1, Zenon DEF FetchReturn
  <2> QED BY <1>9, <2>1, FetchScanKeeps, FetchGetKeeps, Zenon
<1>10. ASSUME NEW c \in DfClients, Cleanup(c) \/ CleanupScan(c) \/ CleanupAge(c) \/ CleanupDel(c)
       PROVE  DragonflyInv'
  BY <1>10, CleanupKeeps, CleanupScanKeeps, CleanupAgeKeeps, CleanupDelKeeps, Zenon
<1>11. ASSUME NEW c \in DfClients, CreateSet(c) \/ CreateParts(c) \/ DeleteParts(c) \/ DeleteOffsets(c)
       PROVE  DragonflyInv'
  <2>1. /\ \/ Finish(c)
           \/ \E where \in {"parts", "deloffsets"} : Goto(c, where)
        /\ dfAcked' = dfAcked
    BY <1>11, Zenon DEF CreateSet, CreateParts, DeleteParts, DeleteOffsets
  <2>2. ASSUME NEW where \in {"parts", "deloffsets"}, Goto(c, where) PROVE DragonflyInv'
    <3>1. where \in Labels \ {"fetch", "get", "done", "del"}
      BY DEF Labels
    <3> QED BY <2>1, <2>2, <3>1, GotoKeeps, Zenon
  <2> QED BY <1>3, <2>1, <2>2, Zenon
<1>12. ASSUME NEW m \in DfIds, Expire(m) PROVE DragonflyInv'
  BY <1>12, ExpireKeeps, Zenon
<1>13. CASE DragonflyNext
  BY <1>4, <1>5, <1>6, <1>7, <1>8, <1>9, <1>10, <1>11, <1>12, <1>13, Zenon DEF DragonflyNext
<1> QED BY <1>2, <1>13, Zenon

\* An accepted message is found by its id until it is deleted, expires or is cleaned up
\* for its age, and a fetch that was not cut short has found every message of its topic
\* that was there all the time and no other (Store, StoreBatch, StoreBatchParallel, Fetch,
\* Cleanup of the Dragonfly store), however the operations of any clients interleave.
THEOREM DragonflyAlwaysKeeps == DragonflySpec => []DragonflyKeeps
<1>1. DragonflyInv => DragonflyKeeps
  BY Zenon DEF DragonflyInv, DragonflyKeeps, FetchWhole, OpInv, Sound, Covered
<1> QED BY <1>1, DragonflyInit, DragonflyStep, PTL DEF DragonflySpec


-----------------------------------------------------------------------------
(* The embedded stores: types, and what the operations under way say of the rows. *)

EsIds == EsBatch \cup EsSingles
EsOpType == [at : {"idle", "count", "tx", "map"}, ids : SUBSET EsIds, tx : SUBSET EsIds]
EsType ==
  /\ esRows \subseteq EsIds /\ esWritten \in Nat /\ esDeleted \in Nat /\ esNextOffset \in Nat
  /\ esOffset \in [EsSingles -> Int] /\ esOp \in [EsClients -> EsOpType]

\* A transaction's messages are the batch's, and only a database has one.
TxInv == \A c \in EsClients :
  /\ esOp[c].at \in {"tx", "count"} => esKind \in Databases
  /\ esOp[c].at = "map" => esKind \in Maps
  /\ esOp[c].at = "tx" => esOp[c].ids \cup esOp[c].tx = EsBatch
BatchInv == esKind \in Databases => esRows \cap EsBatch \in {{}, EsBatch}

\* The messages written but not yet counted, per client.
Uncounted(op) == {p \in EsClients \X EsIds : op[p[1]].at = "count" /\ p[2] \in op[p[1]].tx}
CountInv == esKind = "duckdb" => esWritten + Cardinality(Uncounted(esOp)) = Cardinality(esRows) + esDeleted

\* The mutex, the offsets below the next one, and who may crash.
MutexInv == esKind = "memory" => \A c, d \in EsClients : esOp[c].at = "map" /\ esOp[d].at = "map" => c = d
OffsetInv ==
  /\ \A m \in EsSingles : -1 <= esOffset[m] /\ esOffset[m] < esNextOffset
  /\ \A m, n \in EsSingles : m # n /\ esOffset[m] # -1 => esOffset[m] # esOffset[n]
CrashInv == esCrashed => esKind = "server"

EmbeddedInv == EsType /\ TxInv /\ BatchInv /\ CountInv /\ MutexInv /\ OffsetInv /\ CrashInv

LEMMA IdsFinite == IsFiniteSet(EsIds) /\ IsFiniteSet(EsClients \X EsIds)
  BY EmbeddedAssumption, FS_Union, FS_Product, Zenon DEF EsIds

LEMMA UncountedFinite ==
  ASSUME NEW op PROVE IsFiniteSet(Uncounted(op)) /\ Cardinality(Uncounted(op)) \in Nat
<1>1. Uncounted(op) \in SUBSET (EsClients \X EsIds)
  BY Zenon DEF Uncounted
<1>2. IsFiniteSet(Uncounted(op))
  BY <1>1, IdsFinite, FS_Subset, Zenon
<1> QED BY <1>2, FS_CardinalityType, Zenon

LEMMA RowsFinite ==
  ASSUME NEW S \in SUBSET EsIds PROVE IsFiniteSet(S) /\ Cardinality(S) \in Nat
  BY IdsFinite, FS_Subset, FS_CardinalityType, Zenon

\* The pairs of one client with some messages are as many as the messages.
LEMMA PairsOf ==
  ASSUME NEW c, NEW S \in SUBSET EsIds
  PROVE  IsFiniteSet({c} \X S) /\ Cardinality({c} \X S) = Cardinality(S)
<1>1. IsFiniteSet({c}) /\ Cardinality({c}) = 1
  BY FS_Singleton, Zenon
<1>2. IsFiniteSet(S) /\ Cardinality(S) \in Nat
  BY RowsFinite, Zenon
<1>3. IsFiniteSet({c} \X S) /\ Cardinality({c} \X S) = Cardinality({c}) * Cardinality(S)
  BY <1>1, <1>2, FS_Product, Zenon
<1>4. \A n \in Nat : 1 * n = n
  OBVIOUS
<1> QED BY <1>1, <1>2, <1>3, <1>4, Zenon

LEMMA CardJoin ==
  ASSUME NEW S, NEW T, IsFiniteSet(S), IsFiniteSet(T), S \cap T = {}
  PROVE  Cardinality(S \cup T) = Cardinality(S) + Cardinality(T)
<1>1. Cardinality(S \cup T) = Cardinality(S) + Cardinality(T) - Cardinality(S \cap T)
  BY FS_Union, Zenon
<1>0. Cardinality(S \cap T) = 0
  BY FS_EmptySet, Zenon
<1>2. Cardinality(S) \in Nat /\ Cardinality(T) \in Nat
  BY FS_CardinalityType, Zenon
<1> QED BY <1>0, <1>1, <1>2

\* What a step of client c makes of the messages not yet counted.
LEMMA Uncount ==
  ASSUME NEW op \in [EsClients -> EsOpType], NEW c \in EsClients, NEW r \in EsOpType,
         NEW new, new = [op EXCEPT ![c] = r]
  PROVE  /\ op[c].at # "count" /\ r.at # "count" => Uncounted(new) = Uncounted(op)
         /\ op[c].at # "count" /\ r.at = "count" =>
              Cardinality(Uncounted(new)) = Cardinality(Uncounted(op)) + Cardinality(r.tx)
         /\ op[c].at = "count" /\ r.at # "count" =>
              Cardinality(Uncounted(op)) = Cardinality(Uncounted(new)) + Cardinality(op[c].tx)
<1>1. new[c] = r /\ \A d \in EsClients : d # c => new[d] = op[d]
  BY Zenon
<1>2. r.tx \in SUBSET EsIds /\ op[c].tx \in SUBSET EsIds
  <2>1. \A o \in EsOpType : o.tx \in SUBSET EsIds
    BY DEF EsOpType
  <2> QED BY <2>1, Zenon
<1>3. IsFiniteSet(Uncounted(op)) /\ IsFiniteSet(Uncounted(new))
  BY UncountedFinite, Zenon
<1>4. ASSUME op[c].at # "count", r.at # "count" PROVE Uncounted(new) = Uncounted(op)
  BY <1>1, <1>4 DEF Uncounted
<1>5. ASSUME op[c].at # "count", r.at = "count"
      PROVE  Cardinality(Uncounted(new)) = Cardinality(Uncounted(op)) + Cardinality(r.tx)
  <2>1. Uncounted(new) = Uncounted(op) \cup ({c} \X r.tx) /\ Uncounted(op) \cap ({c} \X r.tx) = {}
    BY <1>1, <1>2, <1>5 DEF Uncounted
  <2>2. IsFiniteSet({c} \X r.tx) /\ Cardinality({c} \X r.tx) = Cardinality(r.tx)
    BY <1>2, PairsOf, Zenon
  <2>3. Cardinality(Uncounted(op) \cup ({c} \X r.tx)) = Cardinality(Uncounted(op)) + Cardinality({c} \X r.tx)
    BY <1>3, <2>1, <2>2, CardJoin, Zenon
  <2> QED BY <2>1, <2>2, <2>3, Zenon
<1>6. ASSUME op[c].at = "count", r.at # "count"
      PROVE  Cardinality(Uncounted(op)) = Cardinality(Uncounted(new)) + Cardinality(op[c].tx)
  <2>1. Uncounted(op) = Uncounted(new) \cup ({c} \X op[c].tx) /\ Uncounted(new) \cap ({c} \X op[c].tx) = {}
    BY <1>1, <1>2, <1>6 DEF Uncounted
  <2>2. IsFiniteSet({c} \X op[c].tx) /\ Cardinality({c} \X op[c].tx) = Cardinality(op[c].tx)
    BY <1>2, PairsOf, Zenon
  <2>3. Cardinality(Uncounted(new) \cup ({c} \X op[c].tx)) = Cardinality(Uncounted(new)) + Cardinality({c} \X op[c].tx)
    BY <1>3, <2>1, <2>2, CardJoin, Zenon
  <2> QED BY <2>1, <2>2, <2>3, Zenon
<1> QED BY <1>4, <1>5, <1>6, Zenon


LEMMA UncountMore ==
  ASSUME NEW op \in [EsClients -> EsOpType], NEW c \in EsClients, NEW r \in EsOpType,
         op[c].at # "count", r.at = "count"
  PROVE  Cardinality(Uncounted([op EXCEPT ![c] = r])) = Cardinality(Uncounted(op)) + Cardinality(r.tx)
  BY Uncount, Zenon

LEMMA UncountLess ==
  ASSUME NEW op \in [EsClients -> EsOpType], NEW c \in EsClients, NEW r \in EsOpType,
         op[c].at = "count", r.at # "count"
  PROVE  Cardinality(Uncounted(op)) = Cardinality(Uncounted([op EXCEPT ![c] = r])) + Cardinality(op[c].tx)
  BY Uncount, ZenonT(30)

LEMMA NoOpType == NoOp \in EsOpType /\ NoOp.at = "idle" /\ NoOp.ids = {} /\ NoOp.tx = {}
  BY DEF NoOp, EsOpType

LEMMA EsOpOf ==
  ASSUME EsType, NEW c \in EsClients
  PROVE  /\ esOp[c] \in EsOpType /\ esOp[c].at \in {"idle", "count", "tx", "map"}
         /\ esOp[c].ids \in SUBSET EsIds /\ esOp[c].tx \in SUBSET EsIds
<1>1. \A o \in EsOpType : o.at \in {"idle", "count", "tx", "map"} /\ o.ids \in SUBSET EsIds /\ o.tx \in SUBSET EsIds
  BY DEF EsOpType
<1>2. esOp[c] \in EsOpType
  BY Zenon DEF EsType
<1> QED BY <1>1, <1>2, Zenon

LEMMA GoesTo ==
  ASSUME EsType, NEW c \in EsClients, NEW r \in EsOpType, Goes(c, r)
  PROVE  /\ esOp' \in [EsClients -> EsOpType]
         /\ esOp'[c] = r /\ \A d \in EsClients : d # c => esOp'[d] = esOp[d]
  BY Zenon DEF EsType, Goes

\* The part of the invariant about the operations, after client c has gone on to r.
LEMMA GoesKeeps ==
  ASSUME EsType, TxInv, MutexInv, NEW c \in EsClients, NEW r \in EsOpType, Goes(c, r), esKind' = esKind,
         r.at \in {"tx", "count"} => esKind \in Databases,
         r.at = "tx" => r.ids \cup r.tx = EsBatch,
         r.at = "map" => esKind \in Maps /\ (esKind = "memory" => \A d \in EsClients : esOp[d].at = "map" => d = c)
  PROVE  TxInv' /\ MutexInv'
<1>1. esOp'[c] = r /\ \A d \in EsClients : d # c => esOp'[d] = esOp[d]
  BY GoesTo, Zenon
<1>2. TxInv'
  <2>1. ASSUME NEW d \in EsClients
        PROVE  /\ esOp'[d].at \in {"tx", "count"} => esKind \in Databases
               /\ esOp'[d].at = "map" => esKind \in Maps
               /\ esOp'[d].at = "tx" => esOp'[d].ids \cup esOp'[d].tx = EsBatch
    <3>1. CASE d = c
      BY <1>1, <3>1, Zenon
    <3>2. CASE d # c
      <4>1. esOp'[d] = esOp[d]
        BY <1>1, <3>2, Zenon
      <4> QED BY <4>1, Zenon DEF TxInv
    <3> QED BY <3>1, <3>2, Zenon
  <2> QED BY <2>1, Zenon DEF TxInv
<1>3. MutexInv'
  <2>1. ASSUME esKind = "memory", NEW d \in EsClients, NEW e \in EsClients,
               esOp'[d].at = "map", esOp'[e].at = "map"
        PROVE  d = e
    <3>1. CASE r.at = "map"
      BY <1>1, <2>1, <3>1, Zenon
    <3>2. CASE r.at # "map"
      <4>1. d # c /\ e # c
        BY <1>1, <2>1, <3>2, Zenon
      <4>2. esOp[d].at = "map" /\ esOp[e].at = "map"
        BY <1>1, <2>1, <4>1, Zenon
      <4> QED BY <2>1, <4>2, Zenon DEF MutexInv
    <3> QED BY <3>1, <3>2, Zenon
  <2> QED BY <2>1, Zenon DEF MutexInv
<1> QED BY <1>2, <1>3, Zenon

\* A step that moves a client from one label that is not "count" to another.
LEMMA GoesUncounted ==
  ASSUME EsType, CountInv, NEW c \in EsClients, NEW r \in EsOpType, Goes(c, r),
         esOp[c].at # "count", r.at # "count",
         UNCHANGED <<esKind, esWritten, esDeleted>>, esKind = "duckdb" => esRows' = esRows
  PROVE  CountInv'
<1>1. PICK op, new : op = esOp /\ new = esOp' /\ op \in [EsClients -> EsOpType] /\ new = [op EXCEPT ![c] = r]
  BY Zenon DEF EsType, Goes
<1>2. Uncounted(new) = Uncounted(op)
  BY <1>1, Uncount, ZenonT(30)
<1> QED BY <1>1, <1>2, Zenon DEF CountInv

\* What the steps leave alone of the rest.
LEMMA OffsetFrame ==
  ASSUME OffsetInv, UNCHANGED <<esOffset, esNextOffset>> PROVE OffsetInv'
  BY Zenon DEF OffsetInv
LEMMA CrashFrame ==
  ASSUME CrashInv, UNCHANGED <<esKind, esCrashed>> PROVE CrashInv'
  BY Zenon DEF CrashInv
LEMMA BatchFrame ==
  ASSUME BatchInv, UNCHANGED <<esKind, esRows>> PROVE BatchInv'
  BY Zenon DEF BatchInv

-----------------------------------------------------------------------------
(* The databases *)

LEMMA WriteRowKeeps ==
  ASSUME EmbeddedInv, NEW kind \in Databases, NEW c \in EsClients, NEW m \in EsSingles,
         WriteRow(kind, c, m), kind = "duckdb" => NoRow({m})
  PROVE  EmbeddedInv'
<1>1. EsType /\ TxInv /\ BatchInv /\ CountInv /\ MutexInv /\ OffsetInv /\ CrashInv
  BY Zenon DEF EmbeddedInv
<1>2. PICK r : r = [NoOp EXCEPT !.at = "count", !.tx = {m}]
  BY Zenon
<1>3. r \in EsOpType /\ r.at = "count" /\ r.tx = {m}
  BY <1>2, NoOpType, ZenonT(30) DEF EsOpType, EsIds
<1>4. /\ esKind = kind /\ esOp[c].at = "idle" /\ esRows' = esRows \cup {m} /\ Goes(c, r)
      /\ UNCHANGED <<esKind, esWritten, esDeleted, esOffset, esNextOffset, esCrashed>>
  BY <1>2, Zenon DEF WriteRow, Is
<1>5. TxInv' /\ MutexInv'
  <2>1. r.at # "tx" /\ r.at # "map"
    BY <1>3
  <2> QED BY <1>1, <1>3, <1>4, <2>1, GoesKeeps, Zenon
<1>6. EsType'
  <2>1. esRows' \subseteq EsIds
    BY <1>1, <1>4, Zenon DEF EsType, EsIds
  <2> QED BY <1>1, <1>3, <1>4, <2>1, GoesTo, Zenon DEF EsType
<1>7. BatchInv'
  <2>1. m \notin EsBatch
    BY EmbeddedAssumption, Zenon
  <2>2. esRows' \cap EsBatch = esRows \cap EsBatch
    BY <1>4, <2>1, Zenon
  <2> QED BY <1>1, <1>4, <2>2, Zenon DEF BatchInv
<1>8. CountInv'
  <2>1. SUFFICES ASSUME esKind = "duckdb"
                 PROVE  esWritten + Cardinality(Uncounted(esOp')) = Cardinality(esRows') + esDeleted
    BY <1>4, Zenon DEF CountInv
  <2>2. PICK op, new : op = esOp /\ new = esOp' /\ op \in [EsClients -> EsOpType] /\ new = [op EXCEPT ![c] = r]
    BY <1>1, <1>4, Zenon DEF EsType, Goes
  <2>3. op[c].at # "count"
    BY <1>4, <2>2
  <2>4. Cardinality(Uncounted(new)) = Cardinality(Uncounted(op)) + Cardinality({m})
    <3>1. op \in [EsClients -> EsOpType] /\ r \in EsOpType /\ op[c].at # "count" /\ r.at = "count"
      BY <1>3, <2>2, <2>3, Zenon
    <3>2. Cardinality(Uncounted([op EXCEPT ![c] = r])) = Cardinality(Uncounted(op)) + Cardinality(r.tx)
      BY <3>1, UncountMore, Zenon
    <3> QED BY <1>3, <2>2, <3>2, Zenon
  <2>5. Cardinality({m}) = 1
    BY FS_Singleton, Zenon
  <2>6. m \notin esRows
    BY <1>4, <2>1, Zenon DEF NoRow
  <2>7. Cardinality(esRows') = Cardinality(esRows) + 1
    BY <1>1, <1>4, <2>6, RowsFinite, FS_AddElement, Zenon DEF EsType
  <2>8. /\ Cardinality(esRows) \in Nat /\ Cardinality(Uncounted(op)) \in Nat
        /\ esWritten \in Nat /\ esDeleted \in Nat
    BY <1>1, RowsFinite, UncountedFinite, Zenon DEF EsType
  <2>9. esWritten + Cardinality(Uncounted(op)) = Cardinality(esRows) + esDeleted
    BY <1>1, <2>1, <2>2, Zenon DEF CountInv
  <2> QED BY <2>2, <2>4, <2>5, <2>7, <2>8, <2>9
<1> QED BY <1>1, <1>4, <1>5, <1>6, <1>7, <1>8, OffsetFrame, CrashFrame, Zenon DEF EmbeddedInv


\* The steps of a transaction before its commit, and its failure.
LEMMA TxStepKeeps ==
  ASSUME EmbeddedInv, NEW kind \in Databases, NEW c \in EsClients,
         BeginTx(kind, c) \/ (\E m \in EsBatch : TxSet(kind, c, m)) \/ TxFail(kind, c)
  PROVE  EmbeddedInv'
<1>1. EsType /\ TxInv /\ BatchInv /\ CountInv /\ MutexInv /\ OffsetInv /\ CrashInv
  BY Zenon DEF EmbeddedInv
<1>2. /\ esKind = kind /\ esOp[c].at \in {"idle", "tx"}
      /\ UNCHANGED <<esKind, esRows, esWritten, esDeleted, esOffset, esNextOffset, esCrashed>>
  BY Zenon DEF BeginTx, TxSet, TxFail, Is
<1>3. PICK r \in EsOpType : Goes(c, r) /\ ((r.at = "tx" /\ r.ids \cup r.tx = EsBatch) \/ r.at = "idle")
  <2>1. CASE BeginTx(kind, c)
    <3>1. PICK r : r = [NoOp EXCEPT !.at = "tx", !.ids = EsBatch]
      BY Zenon
    <3>2. r \in EsOpType /\ r.at = "tx" /\ r.ids = EsBatch /\ r.tx = {}
      BY <3>1, NoOpType, ZenonT(30) DEF EsOpType, EsIds
    <3>3. Goes(c, r)
      BY <2>1, <3>1, Zenon DEF BeginTx
    <3>4. r.ids \cup r.tx = EsBatch
      BY <3>2, Zenon
    <3> QED BY <3>2, <3>3, <3>4, Zenon
  <2>2. ASSUME NEW m \in EsBatch, TxSet(kind, c, m)
        PROVE  \E r \in EsOpType : Goes(c, r) /\ r.at = "tx" /\ r.ids \cup r.tx = EsBatch
    <3>1. PICK o \in EsOpType : o = esOp[c] /\ o.at = "tx" /\ o.ids \cup o.tx = EsBatch /\ m \in o.ids
      BY <1>1, <2>2, EsOpOf, Zenon DEF TxInv, TxSet, Is
    <3>2. PICK r : r = [o EXCEPT !.ids = @ \ {m}, !.tx = @ \cup {m}]
      BY Zenon
    <3>3. r \in EsOpType /\ r.at = "tx" /\ r.ids = o.ids \ {m} /\ r.tx = o.tx \cup {m}
      BY <3>1, <3>2, ZenonT(30) DEF EsOpType, EsIds
    <3>4. r.ids \cup r.tx = EsBatch
      BY <3>1, <3>3
    <3>5. Goes(c, r)
      BY <2>2, <3>1, <3>2, Zenon DEF TxSet
    <3> QED BY <3>3, <3>4, <3>5, Zenon
  <2>3. CASE TxFail(kind, c)
    BY <2>3, NoOpType, Zenon DEF TxFail
  <2> QED BY <2>1, <2>2, <2>3, Zenon
<1>4. Goes(c, r) /\ r.at \in {"tx", "idle"} /\ (r.at = "tx" => r.ids \cup r.tx = EsBatch)
  BY <1>3
<1>5. r.at # "count" /\ r.at # "map" /\ esOp[c].at # "count"
  BY <1>2, <1>4
<1>6. TxInv' /\ MutexInv'
  BY <1>1, <1>2, <1>4, <1>5, GoesKeeps, Zenon
<1>7. CountInv'
  BY <1>1, <1>2, <1>4, <1>5, GoesUncounted, Zenon
<1>8. EsType'
  BY <1>1, <1>2, <1>4, GoesTo, Zenon DEF EsType
<1> QED BY <1>1, <1>2, <1>6, <1>7, <1>8, BatchFrame, OffsetFrame, CrashFrame, Zenon DEF EmbeddedInv

LEMMA TxCommitKeeps ==
  ASSUME EmbeddedInv, NEW kind \in Databases, NEW c \in EsClients, TxCommit(kind, c),
         kind = "duckdb" => NoRow(esOp[c].tx)
  PROVE  EmbeddedInv'
<1>1. EsType /\ TxInv /\ BatchInv /\ CountInv /\ MutexInv /\ OffsetInv /\ CrashInv
  BY Zenon DEF EmbeddedInv
<1>2. PICK o \in EsOpType : o = esOp[c] /\ o.at = "tx" /\ o.tx = EsBatch
  <2>1. esOp[c].at = "tx" /\ esOp[c].ids = {} /\ esOp[c].ids \cup esOp[c].tx = EsBatch
    BY <1>1, Zenon DEF TxCommit, Is, TxInv
  <2>2. esOp[c].tx = EsBatch
    BY <2>1, Zenon
  <2> QED BY <1>1, <2>1, <2>2, EsOpOf, Zenon
<1>3. PICK r : r = [o EXCEPT !.at = "count"]
  BY Zenon
<1>4. r \in EsOpType /\ r.at = "count" /\ r.tx = EsBatch
  BY <1>2, <1>3 DEF EsOpType
<1>5. /\ esKind = kind /\ esRows' = esRows \cup EsBatch /\ Goes(c, r)
      /\ UNCHANGED <<esKind, esWritten, esDeleted, esOffset, esNextOffset, esCrashed>>
  BY <1>2, <1>3, Zenon DEF TxCommit, Is
<1>6. TxInv' /\ MutexInv'
  <2>1. r.at # "tx" /\ r.at # "map"
    BY <1>4
  <2> QED BY <1>1, <1>4, <1>5, <2>1, GoesKeeps, Zenon
<1>7. EsType'
  <2>1. esRows' \subseteq EsIds
    BY <1>1, <1>5, Zenon DEF EsType, EsIds
  <2> QED BY <1>1, <1>4, <1>5, <2>1, GoesTo, Zenon DEF EsType
<1>8. BatchInv'
  <2>1. esRows' \cap EsBatch = EsBatch
    BY <1>5, Zenon
  <2> QED BY <2>1, Zenon DEF BatchInv
<1>9. CountInv'
  <2>1. SUFFICES ASSUME esKind = "duckdb"
                 PROVE  esWritten + Cardinality(Uncounted(esOp')) = Cardinality(esRows') + esDeleted
    BY <1>5, Zenon DEF CountInv
  <2>2. PICK op, new : op = esOp /\ new = esOp' /\ op \in [EsClients -> EsOpType] /\ new = [op EXCEPT ![c] = r]
    BY <1>1, <1>5, Zenon DEF EsType, Goes
  <2>3. op[c].at # "count"
    BY <1>2, <2>2
  <2>4. Cardinality(Uncounted(new)) = Cardinality(Uncounted(op)) + Cardinality(EsBatch)
    <3>1. op \in [EsClients -> EsOpType] /\ r \in EsOpType /\ op[c].at # "count" /\ r.at = "count"
      BY <1>4, <2>2, <2>3, Zenon
    <3>2. Cardinality(Uncounted([op EXCEPT ![c] = r])) = Cardinality(Uncounted(op)) + Cardinality(r.tx)
      BY <3>1, UncountMore, Zenon
    <3> QED BY <1>4, <2>2, <3>2, Zenon
  <2>5. esRows \cap EsBatch = {}
    BY <1>2, <1>5, <2>1, Zenon DEF NoRow
  <2>6. /\ Cardinality(esRows) \in Nat /\ Cardinality(Uncounted(op)) \in Nat /\ Cardinality(EsBatch) \in Nat
        /\ esWritten \in Nat /\ esDeleted \in Nat /\ IsFiniteSet(esRows) /\ IsFiniteSet(EsBatch)
    <3>1. EsBatch \in SUBSET EsIds
      BY Zenon DEF EsIds
    <3> QED BY <1>1, <3>1, RowsFinite, UncountedFinite, Zenon DEF EsType
  <2>7. Cardinality(esRows') = Cardinality(esRows) + Cardinality(EsBatch)
    BY <1>5, <2>5, <2>6, CardJoin, Zenon
  <2>8. esWritten + Cardinality(Uncounted(op)) = Cardinality(esRows) + esDeleted
    BY <1>1, <2>1, <2>2, Zenon DEF CountInv
  <2> QED BY <2>2, <2>4, <2>6, <2>7, <2>8
<1> QED BY <1>1, <1>5, <1>6, <1>7, <1>8, <1>9, OffsetFrame, CrashFrame, Zenon DEF EmbeddedInv

LEMMA CountKeeps ==
  ASSUME EmbeddedInv, NEW kind \in Databases, NEW c \in EsClients, Count(kind, c)
  PROVE  EmbeddedInv'
<1>1. EsType /\ TxInv /\ BatchInv /\ CountInv /\ MutexInv /\ OffsetInv /\ CrashInv
  BY Zenon DEF EmbeddedInv
<1>2. PICK tx \in SUBSET EsIds : tx = esOp[c].tx
  BY <1>1, EsOpOf, Zenon
<1>3. /\ esOp[c].at = "count" /\ Goes(c, NoOp) /\ esWritten' = esWritten + Cardinality(tx)
      /\ UNCHANGED <<esKind, esRows, esDeleted, esOffset, esNextOffset, esCrashed>>
  BY <1>2, Zenon DEF Count, Is
<1>4. NoOp \in EsOpType /\ NoOp.at # "tx" /\ NoOp.at # "map" /\ NoOp.at # "count"
  BY NoOpType
<1>5. TxInv' /\ MutexInv'
  BY <1>1, <1>3, <1>4, GoesKeeps, Zenon
<1>6. Cardinality(tx) \in Nat /\ esWritten \in Nat
  BY <1>1, RowsFinite, Zenon DEF EsType
<1>7. EsType'
  <2>1. esWritten' \in Nat
    BY <1>3, <1>6
  <2> QED BY <1>1, <1>3, <1>4, <2>1, GoesTo, Zenon DEF EsType
<1>8. CountInv'
  <2>1. SUFFICES ASSUME esKind = "duckdb"
                 PROVE  esWritten' + Cardinality(Uncounted(esOp')) = Cardinality(esRows) + esDeleted
    BY <1>3, Zenon DEF CountInv
  <2>2. PICK op, new : op = esOp /\ new = esOp' /\ op \in [EsClients -> EsOpType] /\ new = [op EXCEPT ![c] = NoOp]
    BY <1>1, <1>3, Zenon DEF EsType, Goes
  <2>3. Cardinality(Uncounted(op)) = Cardinality(Uncounted(new)) + Cardinality(tx)
    <3>1. op[c].at = "count" /\ op[c].tx = tx
      BY <1>2, <1>3, <2>2, Zenon
    <3>2. op \in [EsClients -> EsOpType] /\ NoOp \in EsOpType /\ op[c].at = "count" /\ NoOp.at # "count"
      BY <1>4, <2>2, <3>1, Zenon
    <3>3. Cardinality(Uncounted(op)) = Cardinality(Uncounted([op EXCEPT ![c] = NoOp])) + Cardinality(op[c].tx)
      BY <3>2, UncountLess, Zenon
    <3> QED BY <2>2, <3>1, <3>3, Zenon
  <2>4. Cardinality(Uncounted(new)) \in Nat /\ Cardinality(esRows) \in Nat /\ esDeleted \in Nat
    BY <1>1, RowsFinite, UncountedFinite, Zenon DEF EsType
  <2>5. esWritten + Cardinality(Uncounted(op)) = Cardinality(esRows) + esDeleted
    BY <1>1, <2>1, <2>2, Zenon DEF CountInv
  <2> QED BY <1>3, <1>6, <2>2, <2>3, <2>4, <2>5
<1> QED BY <1>1, <1>3, <1>5, <1>7, <1>8, BatchFrame, OffsetFrame, CrashFrame, Zenon DEF EmbeddedInv


LEMMA DuckDBDeleteKeeps ==
  ASSUME EmbeddedInv, NEW c \in EsClients, NEW m \in EsSingles, DuckDBDelete(c, m)
  PROVE  EmbeddedInv'
<1>1. EsType /\ TxInv /\ BatchInv /\ CountInv /\ MutexInv /\ OffsetInv /\ CrashInv
  BY Zenon DEF EmbeddedInv
<1>2. /\ esKind = "duckdb" /\ m \in esRows /\ esRows' = esRows \ {m} /\ esDeleted' = esDeleted + 1
      /\ UNCHANGED <<esKind, esWritten, esOffset, esNextOffset, esOp, esCrashed>>
  BY Zenon DEF DuckDBDelete, Is
<1>3. TxInv' /\ MutexInv'
  BY <1>1, <1>2, Zenon DEF TxInv, MutexInv
<1>4. /\ IsFiniteSet(esRows) /\ Cardinality(esRows) \in Nat /\ Cardinality(Uncounted(esOp)) \in Nat
      /\ esWritten \in Nat /\ esDeleted \in Nat
  BY <1>1, RowsFinite, UncountedFinite, Zenon DEF EsType
<1>5. EsType'
  <2>1. esDeleted' \in Nat
    BY <1>2, <1>4
  <2>2. esRows' \subseteq EsIds
    BY <1>1, <1>2, Zenon DEF EsType
  <2> QED BY <1>1, <1>2, <2>1, <2>2, Zenon DEF EsType
<1>6. BatchInv'
  <2>1. esRows' \cap EsBatch = esRows \cap EsBatch
    BY <1>2, EmbeddedAssumption, Zenon
  <2> QED BY <1>1, <1>2, <2>1, Zenon DEF BatchInv
<1>7. CountInv'
  <2>1. Cardinality(esRows') = Cardinality(esRows) - 1
    BY <1>2, <1>4, FS_RemoveElement, Zenon
  <2>2. esWritten + Cardinality(Uncounted(esOp)) = Cardinality(esRows) + esDeleted
    BY <1>1, <1>2, Zenon DEF CountInv
  <2>3. esWritten + Cardinality(Uncounted(esOp)) = (Cardinality(esRows) - 1) + (esDeleted + 1)
    BY <1>4, <2>2
  <2> QED BY <1>2, <2>1, <2>3, Zenon DEF CountInv
<1> QED BY <1>1, <1>2, <1>3, <1>5, <1>6, <1>7, OffsetFrame, CrashFrame, Zenon DEF EmbeddedInv

\* The bypass store only counts; a delete from a map only changes the rows.
LEMMA BypassKeeps ==
  ASSUME EmbeddedInv, NEW c \in EsClients,
         BypassStore(c) \/ BypassReset(c) \/ \E m \in EsSingles : MapDelete(c, m)
  PROVE  EmbeddedInv'
<1>1. EsType /\ TxInv /\ BatchInv /\ CountInv /\ MutexInv /\ OffsetInv /\ CrashInv
  BY Zenon DEF EmbeddedInv
<1>2. /\ esKind \in {"bypass", "memory", "server"}
      /\ UNCHANGED <<esKind, esDeleted, esOffset, esNextOffset, esOp, esCrashed>>
  BY Zenon DEF BypassStore, BypassReset, MapDelete, Is
<1>3. esRows' \subseteq esRows
  BY Zenon DEF BypassStore, BypassReset, MapDelete
<1>4. esWritten' \in Nat
  <2>1. Cardinality(EsBatch) \in Nat /\ esWritten \in Nat
    BY <1>1, RowsFinite, Zenon DEF EsType, EsIds
  <2>2. esWritten' \in {esWritten, 0, esWritten + 1, esWritten + Cardinality(EsBatch)}
    BY Zenon DEF BypassStore, BypassReset, MapDelete
  <2> QED BY <2>1, <2>2
<1>5. esKind \notin Databases /\ esKind # "duckdb"
  BY <1>2 DEF Databases
<1>6. TxInv' /\ MutexInv'
  BY <1>1, <1>2, Zenon DEF TxInv, MutexInv
<1>7. BatchInv' /\ CountInv'
  BY <1>2, <1>5, Zenon DEF BatchInv, CountInv
<1>8. EsType'
  BY <1>1, <1>2, <1>3, <1>4, Zenon DEF EsType
<1> QED BY <1>1, <1>2, <1>6, <1>7, <1>8, OffsetFrame, CrashFrame, Zenon DEF EmbeddedInv

-----------------------------------------------------------------------------
(* The maps *)

LEMMA EnterKeeps ==
  ASSUME EmbeddedInv, NEW kind \in Maps, NEW c \in EsClients, NEW ids \in SUBSET EsIds, Enter(kind, c, ids)
  PROVE  EmbeddedInv'
<1>1. EsType /\ TxInv /\ BatchInv /\ CountInv /\ MutexInv /\ OffsetInv /\ CrashInv
  BY Zenon DEF EmbeddedInv
<1>2. PICK r : r = [NoOp EXCEPT !.at = "map", !.ids = ids]
  BY Zenon
<1>3. r \in EsOpType /\ r.at = "map"
  BY <1>2, NoOpType, ZenonT(30) DEF EsOpType
<1>4. /\ esKind = kind /\ esOp[c].at = "idle" /\ Mutex = {} /\ Goes(c, r)
      /\ UNCHANGED <<esKind, esRows, esWritten, esDeleted, esOffset, esNextOffset, esCrashed>>
  BY <1>2, Zenon DEF Enter, Is
<1>5. esKind = "memory" => \A d \in EsClients : esOp[d].at # "map"
  BY <1>4, Zenon DEF Mutex, InMap
<1>6. r.at # "tx" /\ r.at # "count" /\ esOp[c].at # "count"
  BY <1>3, <1>4
<1>7. TxInv' /\ MutexInv'
  BY <1>1, <1>3, <1>4, <1>5, <1>6, GoesKeeps, Zenon
<1>8. CountInv'
  BY <1>1, <1>3, <1>4, <1>6, GoesUncounted, Zenon
<1>9. EsType'
  BY <1>1, <1>3, <1>4, GoesTo, Zenon DEF EsType
<1> QED BY <1>1, <1>4, <1>7, <1>8, <1>9, BatchFrame, OffsetFrame, CrashFrame, Zenon DEF EmbeddedInv

\* The next offset is above every offset given.
LEMMA OffsetGiven ==
  ASSUME EsType, OffsetInv, NEW m \in EsSingles,
         esOffset' = [esOffset EXCEPT ![m] = esNextOffset], esNextOffset' = esNextOffset + 1
  PROVE  OffsetInv' /\ esOffset' \in [EsSingles -> Int] /\ esNextOffset' \in Nat
<1>1. esNextOffset \in Nat /\ esOffset \in [EsSingles -> Int]
  BY Zenon DEF EsType
<1>2. esOffset' \in [EsSingles -> Int] /\ esNextOffset' \in Nat
  BY <1>1
<1>3. esOffset'[m] = esNextOffset /\ \A n \in EsSingles : n # m => esOffset'[n] = esOffset[n]
  BY <1>1, Zenon
<1>4. \A n \in EsSingles : esOffset[n] \in Int /\ -1 <= esOffset[n] /\ esOffset[n] < esNextOffset
  BY <1>1, Zenon DEF OffsetInv
<1>5. \A n \in EsSingles : -1 <= esOffset'[n] /\ esOffset'[n] < esNextOffset'
  BY <1>1, <1>3, <1>4
<1>6. \A n \in EsSingles : esOffset[n] # esNextOffset
  BY <1>1, <1>4
<1>7. \A n, k \in EsSingles : n # k /\ esOffset'[n] # -1 => esOffset'[n] # esOffset'[k]
  BY <1>3, <1>6, Zenon DEF OffsetInv
<1> QED BY <1>2, <1>5, <1>7, Zenon DEF OffsetInv

LEMMA AssignKeeps ==
  ASSUME EmbeddedInv, NEW kind \in Maps, NEW c \in EsClients, NEW m \in EsIds, Assign(kind, c, m)
  PROVE  EmbeddedInv'
<1>1. EsType /\ TxInv /\ BatchInv /\ CountInv /\ MutexInv /\ OffsetInv /\ CrashInv
  BY Zenon DEF EmbeddedInv
<1>2. PICK o \in EsOpType : o = esOp[c] /\ o.at = "map"
  BY <1>1, EsOpOf, Zenon DEF Assign, Is
<1>3. PICK r : r = [o EXCEPT !.ids = @ \ {m}, !.at = IF o.ids = {m} THEN "idle" ELSE "map"]
  BY Zenon
<1>4. r \in EsOpType /\ r.at \in {"idle", "map"}
  BY <1>3, ZenonT(30) DEF EsOpType
<1>5. /\ esKind = kind /\ esRows' = esRows \cup {m} /\ Goes(c, r)
      /\ UNCHANGED <<esKind, esWritten, esDeleted, esCrashed>>
  BY <1>2, <1>3, Zenon DEF Assign, Is
<1>6. r.at # "tx" /\ r.at # "count" /\ esOp[c].at # "count"
  BY <1>2, <1>4
<1>7. esKind \notin Databases /\ esKind # "duckdb"
  BY <1>5 DEF Maps, Databases
<1>8. TxInv' /\ MutexInv'
  <2>1. esKind = "memory" => \A d \in EsClients : esOp[d].at = "map" => d = c
    BY <1>1, <1>2, Zenon DEF MutexInv
  <2> QED BY <1>1, <1>4, <1>5, <1>6, <2>1, GoesKeeps, Zenon
<1>9. BatchInv' /\ CountInv'
  BY <1>5, <1>7, Zenon DEF BatchInv, CountInv
<1>10. OffsetInv' /\ esOffset' \in [EsSingles -> Int] /\ esNextOffset' \in Nat
  <2>1. CASE UNCHANGED <<esOffset, esNextOffset>>
    BY <1>1, <2>1, OffsetFrame, Zenon DEF EsType
  <2>2. CASE m \in EsSingles /\ esOffset' = [esOffset EXCEPT ![m] = esNextOffset] /\ esNextOffset' = esNextOffset + 1
    BY <1>1, <2>2, OffsetGiven, Zenon
  <2> QED BY <2>1, <2>2, Zenon DEF Assign
<1>11. EsType'
  <2>1. esRows' \subseteq EsIds
    BY <1>1, <1>5, Zenon DEF EsType
  <2> QED BY <1>1, <1>4, <1>5, <1>10, <2>1, GoesTo, Zenon DEF EsType
<1> QED BY <1>1, <1>5, <1>8, <1>9, <1>10, <1>11, CrashFrame, Zenon DEF EmbeddedInv


\* Under the mutex no two goroutines are in the map, so only the store without one can
\* be found out.
LEMMA ConcurrentKeeps ==
  ASSUME EmbeddedInv, ConcurrentMap
  PROVE  EmbeddedInv'
<1>1. EsType /\ TxInv /\ BatchInv /\ CountInv /\ MutexInv /\ OffsetInv /\ CrashInv
  BY Zenon DEF EmbeddedInv
<1>2. /\ Cardinality(InMap) > 1
      /\ UNCHANGED <<esKind, esRows, esWritten, esDeleted, esOffset, esNextOffset, esOp>>
  BY Zenon DEF ConcurrentMap
<1>3. PICK S : S = InMap /\ S \in SUBSET EsClients
  BY Zenon DEF InMap
<1>4. S # {} /\ \A c : S # {c}
  <2>1. Cardinality({}) = 0 /\ \A c : Cardinality({c}) = 1
    BY FS_EmptySet, FS_Singleton, Zenon
  <2>2. Cardinality(S) # 0 /\ Cardinality(S) # 1
    BY <1>2, <1>3
  <2> QED BY <2>1, <2>2, Zenon
<1>5. PICK c \in S : TRUE
  BY <1>4, Zenon
<1>6. PICK d \in S : d # c
  <2>1. (\A d \in S : d = c) => S = {c}
    BY <1>5, Zenon
  <2> QED BY <1>4, <2>1, Zenon
<1>7. esKind \in Maps /\ esKind # "memory"
  BY <1>1, <1>3, <1>5, <1>6, Zenon DEF InMap, TxInv, MutexInv
<1>8. CrashInv'
  BY <1>2, <1>7 DEF CrashInv, Maps
<1>9. EsType' /\ TxInv' /\ BatchInv' /\ CountInv' /\ MutexInv' /\ OffsetInv'
  BY <1>1, <1>2, BatchFrame, OffsetFrame, Zenon DEF EsType, TxInv, CountInv, MutexInv
<1> QED BY <1>8, <1>9, Zenon DEF EmbeddedInv

LEMMA EmbeddedInit == NewStore => EmbeddedInv
<1> SUFFICES ASSUME NewStore PROVE EmbeddedInv
  OBVIOUS
<1>1. \A c \in EsClients : esOp[c] = NoOp
  BY Zenon DEF NewStore
<1>2. EsType
  <2>1. 0 \in Nat /\ -1 \in Int
    OBVIOUS
  <2> QED BY <2>1, NoOpType, Zenon DEF NewStore, EsType
<1>3. \A c \in EsClients : esOp[c].at \notin {"tx", "count", "map"}
  BY <1>1, NoOpType
<1>4. TxInv /\ MutexInv
  BY <1>3 DEF TxInv, MutexInv
<1>5. BatchInv /\ CrashInv
  BY DEF NewStore, BatchInv, CrashInv
<1>6. CountInv
  <2>1. Uncounted(esOp) = {}
    BY <1>3 DEF Uncounted
  <2>2. Cardinality(Uncounted(esOp)) = 0 /\ Cardinality(esRows) = 0
    BY <2>1, FS_EmptySet, Zenon DEF NewStore
  <2> QED BY <2>2 DEF NewStore, CountInv
<1>7. OffsetInv
  BY DEF NewStore, OffsetInv
<1> QED BY <1>2, <1>4, <1>5, <1>6, <1>7, Zenon DEF EmbeddedInv

LEMMA EmbeddedStep == EmbeddedInv /\ [EmbeddedNext]_esVars => EmbeddedInv'
<1> SUFFICES ASSUME EmbeddedInv, [EmbeddedNext]_esVars PROVE EmbeddedInv'
  OBVIOUS
<1>1. CASE UNCHANGED esVars
  BY <1>1, Zenon DEF esVars, EmbeddedInv, EsType, TxInv, BatchInv, CountInv, MutexInv, OffsetInv, CrashInv
<1>2. "badger" \in Databases /\ "rocksdb" \in Databases /\ "duckdb" \in Databases
      /\ "badger" # "duckdb" /\ "rocksdb" # "duckdb"
  BY DEF Databases
<1>3. "memory" \in Maps /\ "server" \in Maps
  BY Zenon DEF Maps
<1>4. ASSUME NEW c \in EsClients, BadgerStore(c) \/ BadgerStoreBatch(c)
      PROVE  EmbeddedInv'
  BY <1>2, <1>4, WriteRowKeeps, CountKeeps, TxStepKeeps, TxCommitKeeps, Zenon DEF BadgerStore, BadgerStoreBatch
<1>5. ASSUME NEW c \in EsClients, RocksDBStore(c) \/ RocksDBStoreBatch(c)
      PROVE  EmbeddedInv'
  BY <1>2, <1>5, WriteRowKeeps, CountKeeps, TxStepKeeps, TxCommitKeeps, Zenon DEF RocksDBStore, RocksDBStoreBatch
<1>6. ASSUME NEW c \in EsClients, DuckDBStore(c) \/ DuckDBStoreBatch(c)
      PROVE  EmbeddedInv'
  BY <1>2, <1>6, WriteRowKeeps, CountKeeps, TxStepKeeps, TxCommitKeeps, Zenon DEF DuckDBStore, DuckDBStoreBatch
<1>7. ASSUME NEW kind \in Maps, NEW c \in EsClients,
             \/ Enter(kind, c, EsBatch) \/ (\E m \in EsBatch : Assign(kind, c, m))
             \/ \E m \in EsSingles : Enter(kind, c, {m}) \/ Assign(kind, c, m)
      PROVE  EmbeddedInv'
  <2>1. EsBatch \in SUBSET EsIds /\ \A m \in EsSingles : m \in EsIds /\ {m} \in SUBSET EsIds
    BY Zenon DEF EsIds
  <2>2. \A m \in EsBatch : m \in EsIds
    BY Zenon DEF EsIds
  <2> QED BY <1>7, <2>1, <2>2, EnterKeeps, AssignKeeps, Zenon
<1>8. ASSUME NEW c \in EsClients, MemoryStore(c) \/ MemoryStoreBatch(c)
      PROVE  EmbeddedInv'
  BY <1>3, <1>7, <1>8, Zenon DEF MemoryStore, MemoryStoreBatch
<1>9. ASSUME NEW c \in EsClients, ServerStore(c) \/ ServerStoreBatch(c)
      PROVE  EmbeddedInv'
  BY <1>3, <1>7, <1>9, Zenon DEF ServerStore, ServerStoreBatch
<1>10. CASE EmbeddedNext
  BY <1>4, <1>5, <1>6, <1>8, <1>9, <1>10, BypassKeeps, DuckDBDeleteKeeps, ConcurrentKeeps, Zenon DEF EmbeddedNext
<1> QED BY <1>1, <1>10, Zenon

\* A batch is in a database whole or not at all, at every step and after a failure; the
\* counter of DuckDB agrees with its table once no write is under way; only the map of
\* cmd/server, which has no mutex, can end the process; InMemoryStorage never gives two
\* messages the same offset (the StoreBatch methods, Store, Delete), for any number of
\* goroutines and messages.
THEOREM EmbeddedAlwaysAtomic == EmbeddedSpec => []EmbeddedAtomic
<1>1. EmbeddedInv => EmbeddedAtomic
  <2> SUFFICES ASSUME EmbeddedInv PROVE EmbeddedAtomic
    OBVIOUS
  <2>1. ASSUME esKind = "duckdb", \A c \in EsClients : esOp[c].at = "idle"
        PROVE  esWritten = Cardinality(esRows) + esDeleted
    <3>1. Uncounted(esOp) = {}
      BY <2>1 DEF Uncounted
    <3>2. Cardinality(Uncounted(esOp)) = 0
      BY <3>1, FS_EmptySet, Zenon
    <3>3. esWritten \in Nat /\ esWritten + Cardinality(Uncounted(esOp)) = Cardinality(esRows) + esDeleted
      BY <2>1, Zenon DEF EmbeddedInv, EsType, CountInv
    <3>4. \A n \in Nat : n + 0 = n
      OBVIOUS
    <3> QED BY <3>2, <3>3, <3>4, Zenon
  <2>2. BatchAtomic
    BY <2>1, Zenon DEF EmbeddedInv, BatchInv, BatchAtomic
  <2>3. MapGuarded
    BY Zenon DEF EmbeddedInv, OffsetInv, CrashInv, MapGuarded
  <2> QED BY <2>2, <2>3, Zenon DEF EmbeddedAtomic
<1> QED BY <1>1, EmbeddedInit, EmbeddedStep, PTL DEF EmbeddedSpec
=============================================================================
