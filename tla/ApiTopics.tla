----------------------------- MODULE ApiTopics -----------------------------
(***************************************************************************)
(* pkg/api/topics_management.go: the handlers of one topic.  Storage is    *)
(* the truth and s.topics a cache that handleGetTopic trusts; a handler    *)
(* makes its storage calls and its cache update one after the other with   *)
(* nothing held in between.  A topic is its configuration, 0 when there is *)
(* none.  A storage call may fail and then changes nothing.                *)
(***************************************************************************)
EXTENDS Integers

CONSTANTS Requests, Configs

VARIABLES
  tpStore,    \* the topic in storage
  tpCache,    \* the topic in s.topics
  tpReq,      \* per request: [pc, seen (what storage gave), want (the new configuration, or 0)]
  tpMixed     \* two requests have overlapped, or a topic could not be created again

tpVars == <<tpStore, tpCache, tpReq, tpMixed>>

NoRequest == [pc |-> "idle", seen |-> 0, want |-> 0]

NewFiberServer ==
  /\ tpStore = 0 /\ tpCache = 0 /\ tpReq = [r \in Requests |-> NoRequest] /\ tpMixed = FALSE

\* Request r is new; whether it overlaps another.
Begin(r) ==
  /\ tpReq[r].pc = "idle"
  /\ tpMixed' = (tpMixed \/ \E s \in Requests : tpReq[s].pc # "idle")

Go(r, pc) == tpReq' = [tpReq EXCEPT ![r].pc = pc]
End(r) == tpReq' = [tpReq EXCEPT ![r] = NoRequest]

handleCreateTopic(r) ==
  /\ Begin(r)
  /\ \E config \in Configs :
       /\ tpStore' = config
       /\ tpReq' = [tpReq EXCEPT ![r] = [pc |-> "cache", seen |-> config, want |-> 0]]
  /\ UNCHANGED tpCache

\* What storage has goes into the cache, with statistics read in between.
handleListTopics(r) ==
  /\ Begin(r) /\ tpStore # 0
  /\ tpReq' = [tpReq EXCEPT ![r] = [pc |-> "cache", seen |-> tpStore, want |-> 0]]
  /\ UNCHANGED <<tpStore, tpCache>>

\* The same for a topic the cache does not have; a cached one is the answer.
handleGetTopic(r) == tpCache = 0 /\ handleListTopics(r)

\* s.topics[name] = topic, the end of the three handlers above.
CacheTopic(r) ==
  /\ tpReq[r].pc = "cache" /\ tpCache' = tpReq[r].seen /\ End(r) /\ UNCHANGED <<tpStore, tpMixed>>

\* handleUpdateTopic and handlePurgeTopic: the topic is read ...
handleUpdateTopic(r) ==
  /\ Begin(r) /\ tpStore # 0
  /\ \E config \in Configs \cup {0} :
       tpReq' = [tpReq EXCEPT ![r] = [pc |-> "drop", seen |-> tpStore, want |-> config]]
  /\ UNCHANGED <<tpStore, tpCache>>

handlePurgeTopic(r) ==
  /\ Begin(r) /\ tpStore # 0
  /\ tpReq' = [tpReq EXCEPT ![r] = [pc |-> "purge", seen |-> tpStore, want |-> 0]]
  /\ UNCHANGED <<tpStore, tpCache>>

\* ... deleted: an error is logged by the update and ends the purge ...
DropTopic(r) ==
  /\ tpReq[r].pc \in {"drop", "purge"}
  /\ \/ tpStore' = 0 /\ Go(r, IF tpReq[r].pc = "drop" THEN "create" ELSE "recreate")
     \/ UNCHANGED tpStore /\ IF tpReq[r].pc = "drop" THEN Go(r, "create") ELSE End(r)
  /\ UNCHANGED <<tpCache, tpMixed>>

\* ... and created again, which may fail ...
RecreateTopic(r) ==
  /\ tpReq[r].pc \in {"create", "recreate"}
  /\ \/ /\ tpStore' = IF tpReq[r].want # 0 THEN tpReq[r].want ELSE tpReq[r].seen
        /\ (IF tpReq[r].pc = "create" THEN Go(r, "update") ELSE End(r)) /\ UNCHANGED tpMixed
     \/ End(r) /\ tpMixed' = (tpMixed \/ tpStore = 0) /\ UNCHANGED tpStore
  /\ UNCHANGED tpCache

\* Mutant: the cached topic keeps its configuration.
UpdateStoreOnly(r) ==
  tpReq[r].pc = "update" /\ End(r) /\ UNCHANGED <<tpCache, tpStore, tpMixed>>

\* ... and the update ends with the cached topic, if there is one.
UpdateCached(r) ==
  /\ tpReq[r].pc = "update" /\ End(r)
  /\ tpCache' = IF tpCache # 0 /\ tpReq[r].want # 0 THEN tpReq[r].want ELSE tpCache
  /\ UNCHANGED <<tpStore, tpMixed>>

handleDeleteTopic(r) ==
  /\ Begin(r) /\ tpStore' = 0 /\ Go(r, "uncache") /\ UNCHANGED tpCache

\* delete(s.topics, name)
UncacheTopic(r) ==
  /\ tpReq[r].pc = "uncache" /\ tpCache' = 0 /\ End(r) /\ UNCHANGED <<tpStore, tpMixed>>

TopicsNext ==
  \E r \in Requests :
    \/ handleCreateTopic(r) \/ handleListTopics(r) \/ handleGetTopic(r) \/ CacheTopic(r)
    \/ handleUpdateTopic(r) \/ handlePurgeTopic(r) \/ DropTopic(r) \/ RecreateTopic(r) \/ UpdateCached(r)
    \/ handleDeleteTopic(r) \/ UncacheTopic(r)

-----------------------------------------------------------------------------
\* Once the requests have ended, and unless two of them overlapped or a deleted topic
\* could not be created again, a cached topic is in storage with that configuration:
\* what handleGetTopic answers from the cache is what the other handlers left.
CacheAtRest ==
  (~tpMixed /\ \A r \in Requests : tpReq[r].pc = "idle") => tpCache \in {0, tpStore}
=============================================================================
