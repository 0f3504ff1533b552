---------------------------- MODULE ApiMessages ----------------------------
(***************************************************************************)
(* pkg/api/batch_operations.go and the message and socket handlers of      *)
(* fiber.go.  First the requests against storage, over messages that are   *)
(* their IDs, each in one partition; storage is DragonflyDB or the         *)
(* in-memory one, which differ in what Fetch does with limit 0 and         *)
(* FetchByID with an unknown ID, and any of its calls may fail.  Then the  *)
(* connections of handleWebSocketConnection, which share the one channel   *)
(* wsServer.broadcast.                                                     *)
(***************************************************************************)
EXTENDS Integers, Sequences, FiniteSets

CONSTANTS Messages, ApiRequests, MaxMessages,     \* MaxMessages of a fetch request
          Sockets, SocketBuffer, MaxPublished     \* bound: messages published to the sockets

VARIABLES
  amBackend,   \* "dragonfly" or "memory"
  amStore,     \* the messages in storage
  amUsed,      \* the IDs made so far
  amReq,       \* per request: [pc, ids, part, total]
  amTold,      \* messages whose publisher was told that they are stored
  amAcked,     \* messages acknowledged and deleted while no nack was under way
  amAsked,     \* messages somebody asked to acknowledge
  asBroadcast, \* wsServer.broadcast: message numbers
  asSocket,    \* per connection: [state, chan, closed, got]
  asCount,     \* messages published
  asCrash      \* "send" on a closed channel, or two goroutines in one connection's "write"

amVars == <<amBackend, amStore, amUsed, amReq, amTold, amAcked, amAsked>>
asVars == <<asBroadcast, asSocket, asCount, asCrash>>

Idle == [pc |-> "idle", ids |-> {}, part |-> 0, total |-> 0]
PartitionOf(m) == (m % 2) + 1

NewApi ==
  /\ amBackend \in {"dragonfly", "memory"} /\ amStore = {} /\ amUsed = {}
  /\ amReq = [r \in ApiRequests |-> Idle] /\ amTold = {} /\ amAcked = {} /\ amAsked = {}

NewSockets ==
  /\ asBroadcast = <<>> /\ asCount = 0 /\ asCrash = "none"
  /\ asSocket = [k \in Sockets |-> [state |-> "off", chan |-> <<>>, closed |-> FALSE, got |-> <<>>]]

-----------------------------------------------------------------------------
(* Requests *)

Batches(ids) == {b \in SUBSET ids : b # {}}

\* The messages of ids are stored; when that fails with DragonflyDB any of them may be.
StoreAll(ids) ==
  \/ amStore' = amStore \cup ids /\ amTold' = amTold \cup ids
  \/ amBackend = "dragonfly" /\ UNCHANGED amTold /\ \E some \in SUBSET ids : amStore' = amStore \cup some

\* handlePublishFiber: one message.  The broadcast to the sockets is BroadcastPublish.
handlePublishFiber(r) ==
  /\ amReq[r].pc = "idle"
  /\ \E m \in Messages \ amUsed : amUsed' = amUsed \cup {m} /\ StoreAll({m})
  /\ UNCHANGED <<amBackend, amReq, amAcked, amAsked>>

\* handleBatchPublish: the valid messages are stored as one batch and then reported; a
\* failing store is an error for the whole batch.
handleBatchPublish(r) ==
  /\ amReq[r].pc = "idle"
  /\ \E batch \in Batches(Messages \ amUsed) : \E valid \in Batches(batch) :
       amUsed' = amUsed \cup batch /\ StoreAll(valid)
  /\ UNCHANGED <<amBackend, amReq, amAcked, amAsked>>

\* handleBatchPublishAsync: accepted, and stored by a goroutine or not.
handleBatchPublishAsync(r) ==
  /\ amReq[r].pc = "idle"
  /\ \E batch \in Batches(Messages \ amUsed) :
       amUsed' = amUsed \cup batch /\ amReq' = [amReq EXCEPT ![r].pc = "async", ![r].ids = batch]
  /\ UNCHANGED <<amBackend, amStore, amTold, amAcked, amAsked>>

AsyncStore(r) ==
  /\ amReq[r].pc = "async" /\ amReq' = [amReq EXCEPT ![r] = Idle]
  /\ amStore' \in {amStore, amStore \cup amReq[r].ids}
  /\ UNCHANGED <<amBackend, amUsed, amTold, amAcked, amAsked>>

\* handleBatchFetch over the partitions in order; handleBatchFetchPoll begins it only when
\* it has seen a message, with a read of its own.
handleBatchFetch(r) ==
  /\ amReq[r].pc = "idle" /\ amReq' = [amReq EXCEPT ![r].pc = "fetch", ![r].part = 1]
  /\ UNCHANGED <<amBackend, amStore, amUsed, amTold, amAcked, amAsked>>

handleBatchFetchPoll(r) ==
  /\ amReq[r].pc = "idle"
  /\ amReq' = [amReq EXCEPT ![r].pc = "poll"]
  /\ UNCHANGED <<amBackend, amStore, amUsed, amTold, amAcked, amAsked>>

PollTick(r) ==
  /\ amReq[r].pc = "poll"
  /\ \/ amStore # {} /\ amReq' = [amReq EXCEPT ![r].pc = "fetch", ![r].part = 1]
     \/ amReq' = [amReq EXCEPT ![r] = Idle]     \* the deadline, or the client has left
  /\ UNCHANGED <<amBackend, amStore, amUsed, amTold, amAcked, amAsked>>

\* How many messages storage.Fetch returns of the n there are.  InMemoryStorage looks at
\* the limit after it has added a message.
Fetched(n, limit) ==
  IF amBackend = "memory" /\ limit <= 0 THEN IF n > 0 THEN 1 ELSE 0
  ELSE IF n < limit THEN n ELSE limit

\* One partition: MaxMessages less what the others gave; a failing one is left out.
FetchPartition(r) ==
  /\ amReq[r].pc = "fetch"
  /\ LET q == amReq[r]
         n == Cardinality({m \in amStore : PartitionOf(m) = q.part})
     IN  \E got \in {0, Fetched(n, MaxMessages - q.total)} :
           amReq' = [amReq EXCEPT ![r].total = q.total + got,
                                  ![r].part = q.part + 1,
                                  ![r].pc = IF q.part = 2 THEN "answer" ELSE "fetch"]
  /\ UNCHANGED <<amBackend, amStore, amUsed, amTold, amAcked, amAsked>>

\* handleFetchFiber: one partition, with a limit of the request's or the default.
handleFetchFiber(r) ==
  /\ amReq[r].pc = "idle"
  /\ \E part \in 1..2, limit \in 1..MaxMessages :
       amReq' = [amReq EXCEPT ![r].pc = "answer", ![r].total =
                   Fetched(Cardinality({m \in amStore : PartitionOf(m) = part}), limit)]
  /\ UNCHANGED <<amBackend, amStore, amUsed, amTold, amAcked, amAsked>>

Answer(r) ==
  /\ amReq[r].pc = "answer" /\ amReq' = [amReq EXCEPT ![r] = Idle]
  /\ UNCHANGED <<amBackend, amStore, amUsed, amTold, amAcked, amAsked>>

\* The messages some nack has read and will store again.
Nacked == UNION {amReq[r].ids : r \in {x \in ApiRequests : amReq[x].pc = "nack"}}

\* handleBatchAck: acknowledged whether or not DeleteBatch succeeds.
handleBatchAck(r) ==
  /\ amReq[r].pc = "idle"
  /\ \E ids \in Batches(amUsed) :
       /\ amAsked' = amAsked \cup ids
       /\ \/ /\ amStore' = amStore \ ids
             /\ amAcked' = amAcked \cup {m \in ids : m \in amStore /\ m \notin Nacked}
          \/ UNCHANGED <<amStore, amAcked>>
  /\ UNCHANGED <<amBackend, amUsed, amReq, amTold>>

\* Mutant: a message is stored again whether or not it was found.
NackAnyway(r) ==
  /\ amReq[r].pc = "idle"
  /\ \E m \in amUsed : amReq' = [amReq EXCEPT ![r].pc = "nack", ![r].ids = {m}]
  /\ UNCHANGED <<amBackend, amStore, amUsed, amTold, amAcked, amAsked>>

\* handleBatchNack with requeue, of one ID at a time: FetchByID.  An unknown ID is skipped
\* (or, with the in-memory storage, ends the request) ...
handleBatchNack(r) ==
  /\ amReq[r].pc = "idle"
  /\ \E m \in amStore : amReq' = [amReq EXCEPT ![r].pc = "nack", ![r].ids = {m}]
  /\ UNCHANGED <<amBackend, amStore, amUsed, amTold, amAcked, amAsked>>

\* ... and Store.
NackStore(r) ==
  /\ amReq[r].pc = "nack" /\ amReq' = [amReq EXCEPT ![r] = Idle]
  /\ amStore' \in {amStore, amStore \cup amReq[r].ids}
  /\ UNCHANGED <<amBackend, amUsed, amTold, amAcked, amAsked>>

ApiNext ==
  \E r \in ApiRequests :
    \/ handlePublishFiber(r) \/ handleFetchFiber(r)
    \/ handleBatchPublish(r) \/ handleBatchPublishAsync(r) \/ AsyncStore(r)
    \/ handleBatchFetch(r) \/ handleBatchFetchPoll(r) \/ PollTick(r) \/ FetchPartition(r) \/ Answer(r)
    \/ handleBatchAck(r) \/ handleBatchNack(r) \/ NackStore(r)

-----------------------------------------------------------------------------
(* Sockets *)

\* handleWebSocketConnection begins: its forwarder takes from broadcast from now on, also
\* after the connection has ended.
handleWebSocketConnection(k) ==
  /\ asCrash = "none" /\ asSocket[k].state = "off" /\ asSocket' = [asSocket EXCEPT ![k].state = "open"]
  /\ UNCHANGED <<asBroadcast, asCount, asCrash>>

\* handlePublishFiber, or a connection's publish: the message is dropped when broadcast is full.
BroadcastPublish ==
  /\ asCrash = "none" /\ asCount < MaxPublished /\ asCount' = asCount + 1
  /\ asBroadcast' = IF Len(asBroadcast) < SocketBuffer THEN Append(asBroadcast, asCount + 1) ELSE asBroadcast
  /\ UNCHANGED <<asSocket, asCrash>>

\* The forwarder of k takes the next message from the others; a full channel drops it.
Forward(k) ==
  /\ asCrash = "none" /\ asSocket[k].state # "off" /\ asBroadcast # <<>> /\ asBroadcast' = Tail(asBroadcast)
  /\ IF asSocket[k].closed THEN asCrash' = "send" /\ UNCHANGED asSocket
     ELSE /\ asSocket' = [asSocket EXCEPT ![k].chan =
                            IF Len(@) < SocketBuffer THEN Append(@, Head(asBroadcast)) ELSE @]
          /\ UNCHANGED asCrash
  /\ UNCHANGED asCount

\* The reader's end: defer close(msgChan).
SocketReadError(k) ==
  /\ asCrash = "none" /\ asSocket[k].state # "off" /\ ~asSocket[k].closed
  /\ asSocket' = [asSocket EXCEPT ![k].closed = TRUE]
  /\ UNCHANGED <<asBroadcast, asCount, asCrash>>

\* Mutant: the message is left in the channel.
WriteTwice(k) ==
  /\ asCrash = "none" /\ asSocket[k].state = "open" /\ asSocket[k].chan # <<>>
  /\ asSocket' = [asSocket EXCEPT ![k].got = Append(@, Head(asSocket[k].chan))]
  /\ UNCHANGED <<asBroadcast, asCount, asCrash>>

\* The loop over msgChan: a message written, a failed write, or the end of the channel.
SocketWrite(k) ==
  /\ asCrash = "none" /\ asSocket[k].state = "open"
  /\ \/ /\ asSocket[k].chan # <<>>
        /\ asSocket' = [asSocket EXCEPT ![k].chan = Tail(@), ![k].got = Append(@, Head(asSocket[k].chan))]
     \/ asSocket[k].chan # <<>> /\ asSocket' = [asSocket EXCEPT ![k].chan = Tail(@), ![k].state = "ended"]
     \/ asSocket[k].chan = <<>> /\ asSocket[k].closed /\ asSocket' = [asSocket EXCEPT ![k].state = "ended"]
  /\ UNCHANGED <<asBroadcast, asCount, asCrash>>

\* The reader's "publish": the message is stored and broadcast, and the answer written to the
\* connection, which fails if SocketWrite is writing to it.
SocketPublish(k) ==
  /\ asCrash = "none" /\ asSocket[k].state # "off" /\ ~asSocket[k].closed
  /\ \/ BroadcastPublish
     \/ /\ asSocket[k].state = "open" /\ asSocket[k].chan # <<>> /\ asCrash' = "write"
        /\ UNCHANGED <<asBroadcast, asSocket, asCount>>

SocketsNext ==
  \/ BroadcastPublish
  \/ \E k \in Sockets : handleWebSocketConnection(k) \/ Forward(k) \/ SocketReadError(k) \/ SocketWrite(k) \/ SocketPublish(k)

-----------------------------------------------------------------------------
(* Properties *)

\* A message reported as published is in storage until somebody acknowledges it; one that
\* was acknowledged and deleted while no nack held it never comes back; and with DragonflyDB
\* a fetch over several partitions returns no more than MaxMessages.
MessagesApi ==
  /\ amTold \subseteq amStore \cup amAsked
  /\ amAcked \cap amStore = {}
  /\ amBackend = "dragonfly" => \A r \in ApiRequests : amReq[r].total <= MaxMessages

\* A connection writes the messages in the order they were published, each at most once,
\* and only the forwarder of a connection that has ended ends the program.
SocketInOrder ==
  /\ \A k \in Sockets : LET got == asSocket[k].got IN \A i, j \in 1..Len(got) : i < j => got[i] < got[j]
  /\ asCrash = "send" => \E k \in Sockets : asSocket[k].closed
=============================================================================
