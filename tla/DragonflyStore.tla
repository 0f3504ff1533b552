--------------------------- MODULE DragonflyStore ---------------------------
(***************************************************************************)
(* The Dragonfly (Redis) message store, pkg/storage/dragonfly.             *)
(* An operation is a sequence of Redis commands, each atomic and each able *)
(* to fail; the operations of several goroutines interleave.  The metrics, *)
(* which no operation reads, are left out.                                 *)
(*                                                                         *)
(* SCAN is external: pages of keys, some maybe empty; the cursor is 0 with *)
(* the last one, when every key that was there all the time has been       *)
(* returned.                                                               *)
(***************************************************************************)
EXTENDS Integers, FiniteSets

CONSTANTS DfClients, DfIds, DfTopics,
          DfTopicOf,    \* the topic of each message
          DfTtl, DfOld, \* the messages with a TTL, and those older than the retention's MaxAge
          DfLimit,      \* the limit of a Fetch
          DfMaxOps      \* bound: operations begun

VARIABLES
  dfKeys,       \* the message keys: "none", "json" (serialised) or "raw" (the payload alone)
  dfStream, dfCount,    \* the topics' streams (the ids in them) and counts
  dfTopicKeys, dfPartKeys, dfOffsetKeys,
  dfOp,         \* per client: the operation under way
  dfOps,        \* operations begun so far
  dfAcked       \* messages a store operation has accepted and nothing has removed since

dfVars == <<dfKeys, dfStream, dfCount, dfTopicKeys, dfPartKeys, dfOffsetKeys, dfOp, dfOps, dfAcked>>
dfMeta == <<dfTopicKeys, dfPartKeys, dfOffsetKeys>>
dfSums == <<dfStream, dfCount>>

NoIds == [at |-> "idle", ids |-> {}, topic |-> "none", page |-> {}, last |-> FALSE,
          owed |-> {},          \* present since the scan began, not yet returned by SCAN
          must |-> {},          \* what the fetch has to find: present since it began
          acc |-> {}, whole |-> TRUE]

\* Redis may hold messages that an earlier process stored.
NewDragonflyStore ==
  /\ dfKeys \in [DfIds -> {"none", "json"}] /\ dfAcked = {m \in DfIds : dfKeys[m] = "json"}
  /\ dfStream = {} /\ dfCount = 0
  /\ dfTopicKeys = {} /\ dfPartKeys = {} /\ dfOffsetKeys = {}
  /\ dfOp = [c \in DfClients |-> NoIds] /\ dfOps = 0

Present(keys) == {m \in DfIds : keys[m] # "none"}

\* No scan owes a key that was removed.
Trim(o, keys) == [o EXCEPT !.owed = @ \cap Present(keys), !.must = {m \in @ : keys[m] = "json"}]

\* Client c goes on to r; the message keys become keys.
Step(c, r, keys) ==
  /\ dfKeys' = keys
  /\ dfOp' = [d \in DfClients |-> Trim(IF d = c THEN r ELSE dfOp[d], keys)]

Put(ids, kind) == [m \in DfIds |-> IF m \in ids THEN kind ELSE dfKeys[m]]

At(c, where) == dfOp[c].at = where
Idle(c) == dfOp[c].at = "idle" /\ dfOps < DfMaxOps /\ dfOps' = dfOps + 1
Goto(c, where) == Step(c, [dfOp[c] EXCEPT !.at = where], dfKeys)
Finish(c) == Step(c, NoIds, dfKeys)

-----------------------------------------------------------------------------
(* Messages *)

\* Store: SET, then XADD and INCR whose errors are ignored.
Store(c, m) ==
  /\ Idle(c)
  /\ Step(c, [NoIds EXCEPT !.at = "stream", !.ids = {m}], Put({m}, "json"))
  /\ UNCHANGED <<dfSums, dfMeta, dfAcked>>

StoreStream(c) ==
  /\ At(c, "stream") /\ Goto(c, "count")
  /\ dfStream' \in {dfStream, dfStream \cup dfOp[c].ids}
  /\ UNCHANGED <<dfOps, dfCount, dfMeta, dfAcked>>

StoreCount(c) ==
  /\ At(c, "count") /\ Finish(c)
  /\ dfCount' \in {dfCount, dfCount + 1}
  /\ dfAcked' = dfAcked \cup {m \in dfOp[c].ids : dfKeys[m] = "json"}
  /\ UNCHANGED <<dfOps, dfStream, dfMeta>>

\* One pipeline of SETs; after an error any of them may have been applied.
StoreBatch(c, ids) ==
  /\ Idle(c)
  /\ \/ Step(c, NoIds, Put(ids, "json")) /\ dfAcked' = dfAcked \cup ids
     \/ \E some \in SUBSET ids : Step(c, NoIds, Put(some, "json")) /\ UNCHANGED dfAcked
  /\ UNCHANGED <<dfSums, dfMeta>>

\* StoreBatchParallel: a goroutine for every sub-batch, here of one message.
StoreBatchParallel(c, ids) ==
  /\ Idle(c) /\ Step(c, [NoIds EXCEPT !.at = "parallel", !.page = ids], dfKeys)
  /\ UNCHANGED <<dfSums, dfMeta, dfAcked>>

\* storeBatchWithSemaphore: the same, but ids wait until they have the semaphore, of size
\* one here, and are in page.
storeBatchWithSemaphore(c, ids) ==
  /\ Idle(c) /\ Step(c, [NoIds EXCEPT !.at = "parallel", !.ids = ids], dfKeys)
  /\ UNCHANGED <<dfSums, dfMeta, dfAcked>>

AcquireSemaphore(c, m) ==
  /\ At(c, "parallel") /\ m \in dfOp[c].ids /\ dfOp[c].page = {}
  /\ Step(c, [dfOp[c] EXCEPT !.ids = @ \ {m}, !.page = @ \cup {m}], dfKeys)
  /\ UNCHANGED <<dfOps, dfSums, dfMeta, dfAcked>>

\* The sub-batch's own pipeline; after an error it may have been applied all the same.
SubBatchExec(c, m) ==
  /\ At(c, "parallel") /\ m \in dfOp[c].page
  /\ \/ Step(c, [dfOp[c] EXCEPT !.page = @ \ {m}, !.acc = @ \cup {m}], Put({m}, "json"))
     \/ \E keys \in {dfKeys, Put({m}, "json")} :
          Step(c, [dfOp[c] EXCEPT !.page = @ \ {m}, !.whole = FALSE], keys)
  /\ UNCHANGED <<dfOps, dfSums, dfMeta, dfAcked>>

\* wg.Wait: accepted if there was no error.
StoreBatchWait(c) ==
  /\ At(c, "parallel") /\ dfOp[c].ids = {} /\ dfOp[c].page = {} /\ Finish(c)
  /\ dfAcked' = IF dfOp[c].whole THEN dfAcked \cup {m \in dfOp[c].acc : dfKeys[m] = "json"} ELSE dfAcked
  /\ UNCHANGED <<dfOps, dfSums, dfMeta>>

\* UltraFastStore and UltraFastBatchStore write the payload as it is.
UltraFastStore(c, ids) ==
  /\ Idle(c)
  /\ \E some \in SUBSET ids : Step(c, NoIds, Put(some, "raw")) /\ dfAcked' = dfAcked \ some
  /\ UNCHANGED <<dfSums, dfMeta>>

\* Delete and DeleteBatch: the chunks are deleted concurrently, any may fail.
DeleteBatch(c, ids) ==
  /\ Idle(c)
  /\ \E some \in SUBSET ids : Step(c, NoIds, Put(some, "none")) /\ dfAcked' = dfAcked \ some
  /\ UNCHANGED <<dfSums, dfMeta>>

\* A key's TTL passes.
Expire(m) ==
  /\ m \in DfTtl /\ dfKeys[m] = "json"
  /\ dfKeys' = Put({m}, "none") /\ dfAcked' = dfAcked \ {m}
  /\ dfOp' = [c \in DfClients |-> Trim(dfOp[c], dfKeys')]
  /\ UNCHANGED <<dfOps, dfSums, dfMeta>>

\* FetchByID: a raw value does not deserialise.
FetchByID(m) == IF dfKeys[m] = "json" THEN {m} ELSE {}

Fetch(c, t) ==
  /\ Idle(c)
  /\ Step(c, [NoIds EXCEPT !.at = "fetch", !.topic = t, !.owed = Present(dfKeys),
                           !.must = {m \in DfIds : dfKeys[m] = "json" /\ DfTopicOf[m] = t}], dfKeys)
  /\ UNCHANGED <<dfSums, dfMeta, dfAcked>>

\* SCAN: an empty page ends the loop, whatever the cursor says; end has the call after it.
ScanPage(c, from, to, end) ==
  /\ At(c, from)
  /\ \E page \in SUBSET Present(dfKeys), last \in BOOLEAN :
       /\ last => dfOp[c].owed \subseteq page
       /\ Step(c, IF page = {} THEN end[last]
                  ELSE [dfOp[c] EXCEPT !.at = to, !.page = page, !.last = last, !.owed = @ \ page], dfKeys)
  /\ UNCHANGED <<dfOps, dfSums, dfMeta, dfAcked>>

FetchScan(c) ==
  ScanPage(c, "fetch", "get", [last \in BOOLEAN |-> [dfOp[c] EXCEPT !.at = "done", !.whole = @ /\ last]])

\* Mutant: the cursor is tested before the page is read.
FoundBeforeLast(c) ==
  IF dfOp[c].last THEN {} ELSE {m \in dfOp[c].page : dfKeys[m] = "json" /\ DfTopicOf[m] = dfOp[c].topic}

\* What the pipeline of GETs finds of the page, filtered by topic.
Found(c) == {m \in dfOp[c].page : dfKeys[m] = "json" /\ DfTopicOf[m] = dfOp[c].topic}

\* The GETs of a page (one chunk); if the pipeline fails the chunk is skipped.
FetchGet(c) ==
  LET o == dfOp[c] IN
  /\ At(c, "get")
  /\ \/ LET acc == o.acc \cup Found(c)  full == Cardinality(acc) >= DfLimit IN
          Step(c, [o EXCEPT !.acc = acc, !.at = IF full \/ o.last THEN "done" ELSE "fetch", !.page = {},
                          !.whole = @ /\ ~full], dfKeys)
     \/ Step(c, [o EXCEPT !.at = IF o.last THEN "done" ELSE "fetch", !.page = {}, !.whole = FALSE], dfKeys)
  /\ UNCHANGED <<dfOps, dfSums, dfMeta, dfAcked>>

FetchReturn(c) ==
  /\ At(c, "done") /\ Finish(c)
  /\ UNCHANGED <<dfOps, dfSums, dfMeta, dfAcked>>

-----------------------------------------------------------------------------
(* Retention *)

Cleanup(c) ==
  /\ Idle(c)
  /\ Step(c, [NoIds EXCEPT !.at = "clean", !.owed = Present(dfKeys)], dfKeys)
  /\ UNCHANGED <<dfSums, dfMeta, dfAcked>>

CleanupScan(c) == ScanPage(c, "clean", "age", [last \in BOOLEAN |-> NoIds])

NextPage(o) == IF o.last THEN NoIds ELSE [o EXCEPT !.ids = {}, !.at = "clean", !.page = {}]

\* Mutant: every key of the page is deleted.
WholePage(c) == dfOp[c].page

\* keysToDelete: those that deserialise and are older than the cutoff time.
TooOld(c) == {m \in dfOp[c].page : dfKeys[m] = "json" /\ m \in DfOld}

\* The timestamps of a page; if the pipeline fails, nothing of it is deleted.
CleanupAge(c) ==
  LET o == dfOp[c] IN
  /\ At(c, "age")
  /\ \E ids \in {TooOld(c), {}} :
       Step(c, IF ids # {} THEN [o EXCEPT !.ids = ids, !.at = "del"] ELSE NextPage(o), dfKeys)
  /\ UNCHANGED <<dfOps, dfSums, dfMeta, dfAcked>>

\* DEL of the old keys of the page; an error ends the cleanup.
CleanupDel(c) ==
  LET o == dfOp[c] IN
  /\ At(c, "del")
  /\ \/ Step(c, NextPage(o), Put(o.ids, "none")) /\ dfAcked' = dfAcked \ (o.ids \cap DfOld)
     \/ Finish(c) /\ UNCHANGED dfAcked
  /\ UNCHANGED <<dfOps, dfSums, dfMeta>>

-----------------------------------------------------------------------------
(* Topics and offsets *)

CreateTopic(c, t) ==
  /\ Idle(c) /\ t \notin dfTopicKeys
  /\ Step(c, [NoIds EXCEPT !.at = "create", !.topic = t], dfKeys)
  /\ UNCHANGED <<dfSums, dfMeta, dfAcked>>

CreateSet(c) ==
  /\ At(c, "create")
  /\ \/ dfTopicKeys' = dfTopicKeys \cup {dfOp[c].topic} /\ Goto(c, "parts")
     \/ Finish(c) /\ UNCHANGED dfTopicKeys
  /\ UNCHANGED <<dfOps, dfSums, dfPartKeys, dfOffsetKeys, dfAcked>>

CreateParts(c) ==
  /\ At(c, "parts") /\ Finish(c)
  /\ dfPartKeys' \in {dfPartKeys, dfPartKeys \cup {dfOp[c].topic}}
  /\ UNCHANGED <<dfOps, dfSums, dfTopicKeys, dfOffsetKeys, dfAcked>>

DeleteTopic(c, t) ==
  /\ Idle(c)
  /\ Step(c, [NoIds EXCEPT !.at = "delparts", !.topic = t], dfKeys)
  /\ dfTopicKeys' = dfTopicKeys \ {t}
  /\ UNCHANGED <<dfSums, dfPartKeys, dfOffsetKeys, dfAcked>>

\* The partition keys; the message pattern (prefix, topic, colon) matches no message
\* key (prefix, id).
DeleteParts(c) ==
  /\ At(c, "delparts") /\ Goto(c, "deloffsets")
  /\ dfPartKeys' \in {dfPartKeys, dfPartKeys \ {dfOp[c].topic}}
  /\ UNCHANGED <<dfOps, dfSums, dfTopicKeys, dfOffsetKeys, dfAcked>>

DeleteOffsets(c) ==
  /\ At(c, "deloffsets") /\ Finish(c)
  /\ dfOffsetKeys' \in {dfOffsetKeys, {k \in dfOffsetKeys : k[2] # dfOp[c].topic}}
  /\ UNCHANGED <<dfOps, dfSums, dfTopicKeys, dfPartKeys, dfAcked>>

\* The consumer is the client.
CommitOffset(c, t) ==
  /\ Idle(c) /\ dfOffsetKeys' = dfOffsetKeys \cup {<<c, t>>}
  /\ UNCHANGED <<dfKeys, dfSums, dfTopicKeys, dfPartKeys, dfOp, dfAcked>>

DragonflyNext ==
  \/ \E c \in DfClients :
       \/ \E m \in DfIds : Store(c, m)
       \/ \E ids \in SUBSET DfIds \ {{}} : StoreBatch(c, ids) \/ UltraFastStore(c, ids) \/ DeleteBatch(c, ids)
       \/ StoreBatchParallel(c, DfIds) \/ storeBatchWithSemaphore(c, DfIds)
       \/ \E m \in DfIds : AcquireSemaphore(c, m) \/ SubBatchExec(c, m)
       \/ StoreStream(c) \/ StoreCount(c) \/ StoreBatchWait(c)
       \/ \E t \in DfTopics : Fetch(c, t) \/ CreateTopic(c, t) \/ DeleteTopic(c, t) \/ CommitOffset(c, t)
       \/ FetchScan(c) \/ FetchGet(c) \/ FetchReturn(c)
       \/ Cleanup(c) \/ CleanupScan(c) \/ CleanupAge(c) \/ CleanupDel(c)
       \/ CreateSet(c) \/ CreateParts(c) \/ DeleteParts(c) \/ DeleteOffsets(c)
  \/ \E m \in DfIds : Expire(m)

DragonflySpec == NewDragonflyStore /\ [][DragonflyNext]_dfVars

-----------------------------------------------------------------------------
(* Properties *)

\* An accepted message is found by its id until it is deleted, expires or, being older
\* than the retention allows, is cleaned up (Store, StoreBatch, Cleanup), however the
\* operations interleave.
AcceptedKept == \A m \in dfAcked : FetchByID(m) = {m}

\* A fetch that neither reached its limit nor met an empty page or a failed pipeline has
\* found every message of the topic that was there all the time, and only messages of
\* the topic (Fetch).
FetchWhole ==
  \A c \in DfClients : dfOp[c].at = "done" /\ dfOp[c].whole =>
    dfOp[c].must \subseteq dfOp[c].acc /\ \A m \in dfOp[c].acc : DfTopicOf[m] = dfOp[c].topic

\* An accepted message is found until something removes it, and a fetch that was not cut
\* short is whole (Store, StoreBatch, Fetch, Cleanup).
DragonflyKeeps == AcceptedKept /\ FetchWhole
=============================================================================
