----------------------------- MODULE KafkaBroker -----------------------------
(***************************************************************************)
(* The Kafka server: its connections (pkg/kafka/server.go, protocol.go),   *)
(* the request handlers (handlers.go, handlers_extended.go), the bridge to *)
(* the batch writer (processor_bridge.go) and the in-memory message store. *)
(*                                                                         *)
(* A request concerns one topic, with one partition.  Produced messages    *)
(* go to the batch writer's buffer, and from there to the store when a     *)
(* flush comes (BatchWriter).  A client consumes as a Kafka consumer does: *)
(* each fetch starts where the last one ended.                             *)
(***************************************************************************)
EXTENDS Integers, Sequences, FiniteSets

CONSTANTS KafkaClients, KafkaTopics,
          Size,             \* Size[n]: length of the value of the n-th message
          MaxProduced,      \* bound: messages produced
          MaxLog,           \* bound: records of a partition
          MaxDeletes        \* bound: deletions of a topic

NoTopic == "no topic"       \* the empty name in a request
NoError == 0
UnknownTopicOrPartition == 3
CoordinatorNotAvailable == 15
RebalanceInProgress == 27
UnsupportedVersion == 35

ASSUME BrokerAssumption == NoTopic \notin KafkaTopics

NoRequest == [api |-> "none", topic |-> NoTopic]
NoResponse == [code |-> NoError, topic |-> NoTopic, records |-> <<>>]

VARIABLES
  server,       \* "new", "running" or "stopped"
  conn,         \* "none", "reading", "handling", "creating", "writing" or "closed"
  request,      \* what a connection handles: [api, topic]
  response,     \* the error code, and the topic and the records of a Fetch
  topicLog,     \* InMemoryMessageStore.topics: <<>> or <<the messages of the partition>>
  pending,      \* the batch writer's buffer
  flushed,      \* how many of its messages the flush under way has stored
  produced,     \* messages produced so far; their names are 1 .. produced
  position,     \* per client and topic: the offset it fetches next
  consumed,     \* per client and topic: the records it has been sent
  deletes       \* deletions of each topic

brokerVars == <<server, conn, request, response, topicLog, pending, flushed, produced, position, consumed, deletes>>
store == <<topicLog, pending, flushed, produced, deletes>>
progress == <<position, consumed>>

BrokerInit ==
  /\ server = "new"
  /\ conn = [c \in KafkaClients |-> "none"]
  /\ request = [c \in KafkaClients |-> NoRequest]
  /\ response = [c \in KafkaClients |-> NoResponse]
  /\ topicLog = [t \in KafkaTopics |-> <<>>] /\ pending = <<>> /\ flushed = 0 /\ produced = 0
  /\ position = [c \in KafkaClients |-> [t \in KafkaTopics |-> 0]]
  /\ consumed = [c \in KafkaClients |-> [t \in KafkaTopics |-> <<>>]]
  /\ deletes = [t \in KafkaTopics |-> 0]

-----------------------------------------------------------------------------
(* Server and connections *)

StartServer ==
  /\ server = "new" /\ server' = "running"
  /\ UNCHANGED <<conn, request, response, store, progress>>

\* Stop stops the processor and closes the listener; the connections live on.
StopServer ==
  /\ server = "running" /\ server' = "stopped"
  /\ UNCHANGED <<conn, request, response, store, progress>>

acceptConnections(c) ==
  /\ server = "running" /\ conn[c] = "none"
  /\ conn' = [conn EXCEPT ![c] = "reading"]
  /\ UNCHANGED <<server, request, response, store, progress>>

\* The APIs whose handlers answer without the message store; which one a request is for
\* shows when it is handled.
OtherAPIs == {"ApiVersions", "ListOffsets", "SaslHandshake", "SaslAuthenticate", "FindCoordinator", "JoinGroup",
              "SyncGroup", "Heartbeat", "DescribeGroups", "InitProducerId", "AddPartitionsToTxn", "EndTxn",
              "LeaveGroup"}
StoreAPIs == {"Metadata", "Produce", "Fetch", "CreateTopics", "DeleteTopics"}

\* readRequest: a request, or an error (end of file, too large, short header).
readRequest(c) ==
  /\ conn[c] = "reading"
  /\ \/ \E a \in StoreAPIs \cup {"other"}, t \in KafkaTopics \cup {NoTopic} :
          /\ a = "other" => t = NoTopic
          /\ a \in {"CreateTopics", "DeleteTopics"} => t # NoTopic
          /\ a = "DeleteTopics" => deletes[t] < MaxDeletes
          /\ request' = [request EXCEPT ![c] = [api |-> a, topic |-> t]]
          /\ conn' = [conn EXCEPT ![c] = "handling"]
     \/ conn' = [conn EXCEPT ![c] = "closed"] /\ UNCHANGED request
  /\ UNCHANGED <<server, response, store, progress>>

\* writeResponse: the client gets the answer, or the connection is closed.
writeResponse(c) ==
  /\ conn[c] = "writing"
  /\ \/ LET t == response[c].topic  n == Len(response[c].records) IN
          /\ IF n = 0 THEN UNCHANGED progress
             ELSE /\ consumed' = [consumed EXCEPT ![c][t] = @ \o response[c].records]
                  /\ position' = [position EXCEPT ![c][t] = @ + n]
          /\ conn' = [conn EXCEPT ![c] = "reading"]
     \/ conn' = [conn EXCEPT ![c] = "closed"] /\ UNCHANGED progress
  /\ response' = [response EXCEPT ![c] = NoResponse]
  /\ UNCHANGED <<server, request, store>>

Respond(c, code, records) ==
  /\ response' = [response EXCEPT ![c] =
                    [code |-> code, topic |-> IF records = <<>> THEN NoTopic ELSE request[c].topic, records |-> records]]
  /\ request' = [request EXCEPT ![c] = NoRequest]
  /\ conn' = [conn EXCEPT ![c] = "writing"]
  /\ UNCHANGED <<server, progress>>

Handles(c, api) == conn[c] = "handling" /\ request[c].api = api

-----------------------------------------------------------------------------
(* InMemoryMessageStore *)

CreateTopic(t) == topicLog' = [topicLog EXCEPT ![t] = IF @ = <<>> THEN <<<<>>>> ELSE @]

DeleteTopic(t) == topicLog' = [topicLog EXCEPT ![t] = <<>>]

ProduceMessage(m) ==
  /\ topicLog[m.topic] # <<>> /\ Len(topicLog[m.topic][1]) < MaxLog
  /\ topicLog' = [topicLog EXCEPT ![m.topic] = <<Append(@[1], m.id)>>]

\* Mutant: the record that does not fit is skipped over, not the end.
TakenSkipping(log, offset, max) ==
  SelectSeq(SubSeq(log, offset + 1, Len(log)), LAMBDA m : Size[m] <= max)

\* ConsumeMessages: the records from offset on while they fit into max bytes, and the
\* first one in any case.
Taken(log, offset, max) ==
  LET total[i \in offset .. Len(log)] == IF i = offset THEN 0 ELSE total[i - 1] + Size[log[i]]
      fits == {i \in offset .. Len(log) : i <= offset + 1 \/ total[i] <= max}
  IN IF offset >= Len(log) THEN <<>>
     ELSE SubSeq(log, offset + 1, CHOOSE i \in fits : \A j \in fits : j <= i)

-----------------------------------------------------------------------------
(* Request handlers *)

\* The processor may fail; a message it passed is in the batch writer's buffer, whether
\* its topic exists or not; the buffer is locked while it is flushed.  The offset of
\* the answer is a timestamp.
handleProduce(c) ==
  /\ Handles(c, "Produce")
  /\ \/ /\ request[c].topic # NoTopic /\ produced < MaxProduced /\ flushed = 0
        /\ produced' = produced + 1
        /\ pending' = Append(pending, [topic |-> request[c].topic, id |-> produced + 1])
        /\ Respond(c, NoError, <<>>)
     \/ Respond(c, UnknownTopicOrPartition, <<>>) /\ UNCHANGED <<produced, pending>>
  /\ UNCHANGED <<topicLog, flushed, deletes>>

\* A flush of the batch writer stores its messages one by one: KafkaStorageAdapter's
\* StoreBatch takes the store's lock for each.  After an error the flush is over or starts
\* again from the first message; the messages before it are stored already.
StoreBatch ==
  /\ pending # <<>>
  /\ LET m == pending[flushed + 1] IN
     \/ topicLog[m.topic] = <<>> /\ flushed' = 0 /\ UNCHANGED <<topicLog, pending>>
     \/ /\ ProduceMessage(m)
        /\ IF flushed + 1 < Len(pending) THEN flushed' = flushed + 1 /\ UNCHANGED pending
           ELSE flushed' = 0 /\ pending' = <<>>
  /\ UNCHANGED <<server, conn, request, response, produced, progress, deletes>>

handleFetch(c, max) ==
  LET t == request[c].topic IN
  /\ Handles(c, "Fetch")
  /\ IF t = NoTopic THEN Respond(c, UnknownTopicOrPartition, <<>>)
     ELSE IF topicLog[t] = <<>> THEN Respond(c, UnknownTopicOrPartition, <<>>)
     ELSE Respond(c, NoError, Taken(topicLog[t][1], position[c][t], max))
  /\ UNCHANGED store

\* GetTopicMetadata gives up its read lock to create a topic that does not exist.
\* No name at all stands for the default topic, which no client here uses.
handleMetadata(c) ==
  /\ Handles(c, "Metadata")
  /\ IF request[c].topic # NoTopic /\ topicLog[request[c].topic] = <<>>
     THEN conn' = [conn EXCEPT ![c] = "creating"] /\ UNCHANGED <<server, request, response, progress>>
     ELSE Respond(c, NoError, <<>>)
  /\ UNCHANGED store

\* The write lock: the topic is created unless it exists by now.
GetTopicMetadata(c) ==
  /\ conn[c] = "creating"
  /\ CreateTopic(request[c].topic)
  /\ Respond(c, NoError, <<>>)
  /\ UNCHANGED <<pending, flushed, produced, deletes>>

\* The store never refuses a topic.
handleCreateTopics(c) ==
  /\ Handles(c, "CreateTopics")
  /\ CreateTopic(request[c].topic)
  /\ Respond(c, NoError, <<>>)
  /\ UNCHANGED <<pending, flushed, produced, deletes>>

handleDeleteTopics(c) ==
  LET t == request[c].topic IN
  /\ Handles(c, "DeleteTopics")
  /\ DeleteTopic(t)
  /\ deletes' = [deletes EXCEPT ![t] = @ + 1]
  /\ Respond(c, NoError, <<>>)
  /\ UNCHANGED <<pending, flushed, produced>>

\* The error codes of the other handlers: those of the group coordinator answer what
\* the coordinator says (GroupCoordinator), the rest always the same.
handleApiVersions == {NoError}
handleListOffsets == {NoError}
handleSaslHandshake == {NoError}
handleSaslAuthenticate == {NoError}
handleFindCoordinator == {NoError}
handleJoinGroup == {NoError, CoordinatorNotAvailable}
handleSyncGroup == {NoError, CoordinatorNotAvailable}
handleHeartbeat == {NoError, RebalanceInProgress}
handleDescribeGroups == {NoError}
handleInitProducerId == {NoError}
handleAddPartitionsToTxn == {NoError}
handleEndTxn == {NoError}

\* The switch on the API key; LeaveGroup has a handler that the switch does not name.
Codes ==
  [ApiVersions |-> handleApiVersions, ListOffsets |-> handleListOffsets, SaslHandshake |-> handleSaslHandshake,
   SaslAuthenticate |-> handleSaslAuthenticate, FindCoordinator |-> handleFindCoordinator,
   JoinGroup |-> handleJoinGroup, SyncGroup |-> handleSyncGroup, Heartbeat |-> handleHeartbeat,
   DescribeGroups |-> handleDescribeGroups, InitProducerId |-> handleInitProducerId,
   AddPartitionsToTxn |-> handleAddPartitionsToTxn, EndTxn |-> handleEndTxn, LeaveGroup |-> {UnsupportedVersion}]

handleOther(c) ==
  /\ Handles(c, "other")
  /\ \E a \in OtherAPIs : \E code \in Codes[a] : Respond(c, code, <<>>)
  /\ UNCHANGED store

handleRequest(c) ==
  \/ handleProduce(c) \/ (\E max \in {1, 2} : handleFetch(c, max)) \/ handleMetadata(c) \/ GetTopicMetadata(c)
  \/ handleCreateTopics(c) \/ handleDeleteTopics(c) \/ handleOther(c)

HandleConnection(c) == readRequest(c) \/ handleRequest(c) \/ writeResponse(c)

BrokerNext ==
  \/ StartServer \/ StopServer \/ StoreBatch
  \/ \E c \in KafkaClients : acceptConnections(c) \/ HandleConnection(c)

BrokerSpec == BrokerInit /\ [][BrokerNext]_brokerVars

-----------------------------------------------------------------------------
(* Properties *)

\* A client that fetches on from where its last fetch ended has been sent the records
\* of the partition in order, without a gap and without one twice, as long as the topic
\* has not been deleted (ProduceMessage numbers by length, ConsumeMessages slices).
ConsumedPrefix ==
  \A c \in KafkaClients, t \in KafkaTopics :
    deletes[t] = 0 /\ consumed[c][t] # <<>> =>
      /\ Len(consumed[c][t]) <= Len(topicLog[t][1])
      /\ consumed[c][t] = SubSeq(topicLog[t][1], 1, Len(consumed[c][t]))
=============================================================================
