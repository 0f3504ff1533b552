----------------------------- MODULE AMQPServer -----------------------------
(***************************************************************************)
(* The AMQP server (pkg/amqp/server.go): a goroutine per connection reads  *)
(* frames and handles them under the server's mutex.  A handler that gives *)
(* the mutex up in between has one action per critical section, and pc is  *)
(* where its goroutine is.                                                 *)
(*                                                                         *)
(* A message travels as a method frame, a header frame and body frames; a  *)
(* body is the sequence of the frames <<m, i>> it was put together from.   *)
(* Channel states are kept per channel number: connections that use one    *)
(* number share the state.                                                 *)
(***************************************************************************)
EXTENDS Integers, Sequences, FiniteSets

CONSTANTS Conns, Channels, Queues, Messages,
          ChannelMaps,   \* the channels that connections may use
          publisherOf,   \* the connection that publishes a message
          routingKey,    \* of a message: a queue, or None
          bodySize,      \* how many body frames a message has
          None,
          MaxConsumes, MaxNacks   \* bounds: calls of Consume and of Nack

ASSUME AMQPAssumption ==
  /\ ChannelMaps \subseteq [Conns -> Channels]
  /\ publisherOf \in [Messages -> Conns] /\ bodySize \in [Messages -> Nat]
  /\ None \notin Queues \cup Messages /\ routingKey \in [Messages -> Queues \cup {None}]

VARIABLES channelOf,     \* the channel of a connection, fixed
          state,         \* connectionStates: "off", "Start", "TuneSent", "TuneOk", "Connected" or "closed"
          pc, job,       \* a connection's handler, and what it works on
          sending,       \* clients: the message whose frames are being sent, and how many were
          declared, messages,                      \* queues
          exists, pending, boundQueue, consumer,   \* of each channel
          unackedMade, unacked, currentlyUnacked, nextTag,
          sent, published, delivered, settled, consumes   \* histories

client == <<channelOf, state, sending, sent>>
queues == <<declared, messages, published>>
channel == <<exists, pending, boundQueue>>
tags == <<consumer, unackedMade, unacked, currentlyUnacked, nextTag, delivered, settled>>
vars == <<client, pc, job, queues, channel, tags, consumes>>

NoJob == [queue |-> None, bodies |-> <<>>]

Init ==
  /\ channelOf \in ChannelMaps
  /\ state = [c \in Conns |-> "off"]
  /\ pc = [c \in Conns |-> "read"] /\ job = [c \in Conns |-> NoJob]
  /\ sending = [c \in Conns |-> <<None, 0>>] /\ sent = {}
  /\ declared = {} /\ messages = [q \in Queues |-> <<>>] /\ published = {}
  /\ exists = {} /\ pending = [h \in Channels |-> <<>>]
  /\ boundQueue = [h \in Channels |-> None] /\ consumer = [h \in Channels |-> None]
  /\ unackedMade = {} /\ unacked = [h \in Channels |-> {}]
  /\ currentlyUnacked = [h \in Channels |-> 0] /\ nextTag = currentlyUnacked
  /\ delivered = {} /\ settled = {} /\ consumes = 0

-----------------------------------------------------------------------------
(* Connections *)

\* The protocol header, and the handshake.  A state that only the connection's own
\* goroutine can see before it is replaced is left out.
Handshake(c) ==
  LET next == [off |-> "Start", Start |-> "TuneSent", TuneSent |-> "TuneOk", TuneOk |-> "Connected"]
  IN  /\ state[c] \in DOMAIN next
      /\ state' = [state EXCEPT ![c] = next[@]]
      /\ UNCHANGED <<channelOf, sending, sent, pc, job, queues, channel, tags, consumes>>

\* The read of the next frame fails.  The channel states stay.
Disconnect(c) ==
  /\ state[c] \notin {"off", "closed"} /\ pc[c] = "read"
  /\ state' = [state EXCEPT ![c] = "closed"]
  /\ sending' = [sending EXCEPT ![c] = <<None, 0>>]
  /\ UNCHANGED <<channelOf, sent, pc, job, queues, channel, tags, consumes>>

\* The connection's goroutine has read a method frame.
Reads(c) == state[c] = "Connected" /\ pc[c] = "read" /\ sending[c][1] = None

\* handleQueueDeclare holds the mutex throughout.
QueueDeclare(c, q) ==
  /\ Reads(c)
  /\ declared' = declared \cup {q}
  /\ exists' = exists \cup {channelOf[c]}
  /\ boundQueue' = [boundQueue EXCEPT ![channelOf[c]] = q]
  /\ UNCHANGED <<client, pc, job, messages, published, pending, tags, consumes>>

\* The prefetch counts are stored, and nothing reads them.
Qos(c) ==
  /\ Reads(c) /\ channelOf[c] \notin exists
  /\ exists' = exists \cup {channelOf[c]}
  /\ unackedMade' = unackedMade \cup {channelOf[c]}
  /\ UNCHANGED <<client, pc, job, queues, pending, boundQueue, consumer, unacked, currentlyUnacked,
                 nextTag, delivered, settled, consumes>>

-----------------------------------------------------------------------------
(* Publishing *)

\* Mutant of BasicPublish: a publish that is pending already is kept.
BasicPublishKept(c, m) ==
  LET h == channelOf[c] IN
  /\ Reads(c) /\ publisherOf[m] = c /\ m \notin sent
  /\ sending' = [sending EXCEPT ![c] = <<m, 0>>]
  /\ sent' = sent \cup {m}
  /\ exists' = exists \cup {h}
  /\ pending' = IF pending[h] # <<>> THEN pending
                ELSE [pending EXCEPT ![h] = <<[key |-> routingKey[m], size |-> 0, body |-> <<>>]>>]
  /\ UNCHANGED <<channelOf, state, pc, job, queues, boundQueue, tags, consumes>>

\* PendingPublish, none or one, is kept as a sequence.
BasicPublish(c, m) ==
  /\ Reads(c) /\ publisherOf[m] = c /\ m \notin sent
  /\ sending' = [sending EXCEPT ![c] = <<m, 0>>]
  /\ sent' = sent \cup {m}
  /\ exists' = exists \cup {channelOf[c]}
  /\ pending' = [pending EXCEPT ![channelOf[c]] =
                   <<[key |-> routingKey[m], size |-> 0, body |-> <<>>]>>]
  /\ UNCHANGED <<channelOf, state, pc, job, queues, boundQueue, tags, consumes>>

\* The client sends the header (n = 0) or body frame n of its message.
FrameSent(c, m, n) ==
  /\ pc[c] = "read" /\ sending[c] = <<m, n>>
  /\ sending' = [sending EXCEPT ![c] = IF n = bodySize[m] THEN <<None, 0>> ELSE <<m, n + 1>>]

HeaderFrame(c, m) ==
  LET h == channelOf[c] IN
  /\ FrameSent(c, m, 0)
  /\ pending' = IF pending[h] = <<>> THEN pending
                ELSE [pending EXCEPT ![h] = <<[@[1] EXCEPT !.size = bodySize[m], !.body = <<>>]>>]
  /\ UNCHANGED <<channelOf, state, sent, pc, job, queues, exists, boundQueue, tags, consumes>>

\* The frame is dropped, appended to the pending body, or completes it: then the
\* goroutine goes on to publish it.
BodyFrame(c, m, n) ==
  LET h == channelOf[c] IN
  /\ n > 0 /\ FrameSent(c, m, n)
  /\ \/ /\ pending[h] = <<>>
        /\ UNCHANGED <<pending, pc, job>>
     \/ /\ pending[h] # <<>>
        /\ LET body == Append(pending[h][1].body, <<m, n>>) IN
           \/ /\ Len(body) < pending[h][1].size
              /\ pending' = [pending EXCEPT ![h] = <<[@[1] EXCEPT !.body = body]>>]
              /\ UNCHANGED <<pc, job>>
           \/ /\ Len(body) >= pending[h][1].size
              /\ pending' = [pending EXCEPT ![h] = <<>>]
              /\ pc' = [pc EXCEPT ![c] = "publish"]
              /\ job' = [job EXCEPT ![c] = [queue |-> pending[h][1].key, bodies |-> <<body>>]]
  /\ UNCHANGED <<channelOf, state, sent, queues, exists, boundQueue, tags, consumes>>

\* handleBasicPublish: without a routing key the queue the channel declared last is
\* meant.  If there is no such queue the message is dropped.
Publish(c) ==
  LET q == IF job[c].queue # None THEN job[c].queue ELSE boundQueue[channelOf[c]]
      body == job[c].bodies[1]
  IN
  /\ pc[c] = "publish"
  /\ pc' = [pc EXCEPT ![c] = "read"] /\ job' = [job EXCEPT ![c] = NoJob]
  /\ IF q \in declared
       THEN /\ messages' = [messages EXCEPT ![q] = Append(@, body)]
            /\ published' = published \cup {[queue |-> q, body |-> body]}
       ELSE UNCHANGED <<messages, published>>
  /\ UNCHANGED <<client, declared, channel, tags, consumes>>

-----------------------------------------------------------------------------
(* Consuming *)

\* handleBasicConsume looks the queue up.
BasicConsume(c, q) ==
  /\ Reads(c) /\ q \in declared /\ consumes < MaxConsumes
  /\ consumes' = consumes + 1
  /\ pc' = [pc EXCEPT ![c] = "register"]
  /\ job' = [job EXCEPT ![c] = [queue |-> q, bodies |-> <<>>]]
  /\ UNCHANGED <<client, queues, channel, tags>>

Register(c) ==
  LET h == channelOf[c] IN
  /\ pc[c] = "register" /\ pc' = [pc EXCEPT ![c] = "drain"]
  /\ exists' = exists \cup {h}
  /\ unackedMade' = IF h \in exists THEN unackedMade ELSE unackedMade \cup {h}
  /\ consumer' = [consumer EXCEPT ![h] = c]
  /\ UNCHANGED <<client, job, queues, pending, boundQueue, unacked, currentlyUnacked, nextTag,
                 delivered, settled, consumes>>

\* Mutant of Drain: tags start at one again.
DrainTagsRestart(c) ==
  LET h == channelOf[c]  q == job[c].queue IN
  /\ pc[c] = "drain"
  /\ messages' = [messages EXCEPT ![q] = <<>>]
  /\ unackedMade' = unackedMade \cup {h}
  /\ nextTag' = [nextTag EXCEPT ![h] = 1]
  /\ IF messages[q] = <<>>
       THEN pc' = [pc EXCEPT ![c] = "read"] /\ job' = [job EXCEPT ![c] = NoJob]
       ELSE pc' = [pc EXCEPT ![c] = "deliver"] /\ job' = [job EXCEPT ![c].bodies = messages[q]]
  /\ UNCHANGED <<client, declared, published, channel, consumer, unacked, currentlyUnacked,
                 delivered, settled, consumes>>

\* The whole queue is taken, and delivered message by message.
Drain(c) ==
  LET h == channelOf[c]  q == job[c].queue IN
  /\ pc[c] = "drain"
  /\ messages' = [messages EXCEPT ![q] = <<>>]
  /\ unackedMade' = unackedMade \cup {h}
  /\ nextTag' = [nextTag EXCEPT ![h] = IF @ = 0 THEN 1 ELSE @]
  /\ IF messages[q] = <<>>
       THEN pc' = [pc EXCEPT ![c] = "read"] /\ job' = [job EXCEPT ![c] = NoJob]
       ELSE pc' = [pc EXCEPT ![c] = "deliver"] /\ job' = [job EXCEPT ![c].bodies = messages[q]]
  /\ UNCHANGED <<client, declared, published, channel, consumer, unacked, currentlyUnacked,
                 delivered, settled, consumes>>

\* body gets the channel's next tag, and is sent to connection d, if that is open.
Send(h, body, redelivered, d) ==
  /\ nextTag' = [nextTag EXCEPT ![h] = @ + 1]
  /\ delivered' = IF d = None \/ state[d] = "closed" THEN delivered ELSE delivered \cup
       {[channel |-> h, tag |-> nextTag[h], body |-> body, redelivered |-> redelivered]}

\* An element of UnackedMessages.
Unacked(h, q, body) == [tag |-> nextTag[h], queue |-> q, body |-> body]

Deliver(c) ==
  LET h == channelOf[c]  body == Head(job[c].bodies) IN
  /\ pc[c] = "deliver"
  /\ Send(h, body, FALSE, c)
  /\ unacked' = [unacked EXCEPT ![h] = @ \cup {Unacked(h, job[c].queue, body)}]
  /\ currentlyUnacked' = [currentlyUnacked EXCEPT ![h] = @ + 1]
  /\ IF Tail(job[c].bodies) = <<>>
       THEN pc' = [pc EXCEPT ![c] = "read"] /\ job' = [job EXCEPT ![c] = NoJob]
       ELSE job' = [job EXCEPT ![c].bodies = Tail(@)] /\ UNCHANGED pc
  /\ UNCHANGED <<client, queues, channel, consumer, unackedMade, settled, consumes>>

\* The acknowledgement of an unacked delivery, or its rejection without requeue.
\* An unknown tag changes nothing.
Ack(c, u) ==
  LET h == channelOf[c] IN
  /\ Reads(c) /\ u \in unacked[h]
  /\ unacked' = [unacked EXCEPT ![h] = @ \ {u}]
  /\ currentlyUnacked' = [currentlyUnacked EXCEPT ![h] = @ - 1]
  /\ settled' = settled \cup {[channel |-> h, tag |-> u.tag, body |-> u.body, ack |-> TRUE]}
  /\ UNCHANGED <<client, pc, job, queues, channel, consumer, unackedMade, nextTag, delivered, consumes>>

\* Mutants of Nack: the count of the redelivery is forgotten; nothing is requeued
\* or delivered again.
NackUncounted(c, u) ==
  LET h == channelOf[c] IN
  /\ Reads(c) /\ u \in unacked[h]
  /\ Cardinality({s \in settled : ~s.ack}) < MaxNacks
  /\ settled' = settled \cup {[channel |-> h, tag |-> u.tag, body |-> u.body, ack |-> FALSE]}
  /\ messages' = [messages EXCEPT ![u.queue] = Append(@, u.body)]
  /\ Send(h, u.body, TRUE, consumer[h])
  /\ unacked' = [unacked EXCEPT ![h] = (@ \ {u}) \cup {Unacked(h, u.queue, u.body)}]
  /\ currentlyUnacked' = [currentlyUnacked EXCEPT ![h] = @ - 1]
  /\ UNCHANGED <<client, pc, job, declared, published, channel, consumer, unackedMade, consumes>>
NackDropped(c, u) ==
  LET h == channelOf[c] IN
  /\ Reads(c) /\ u \in unacked[h]
  /\ Cardinality({s \in settled : ~s.ack}) < MaxNacks
  /\ settled' = settled \cup {[channel |-> h, tag |-> u.tag, body |-> u.body, ack |-> FALSE]}
  /\ unacked' = [unacked EXCEPT ![h] = @ \ {u}]
  /\ currentlyUnacked' = [currentlyUnacked EXCEPT ![h] = @ - 1]
  /\ UNCHANGED <<client, pc, job, queues, channel, consumer, unackedMade, nextTag, delivered, consumes>>

\* The rejection with requeue: the message goes back to its queue, and is delivered
\* again under a new tag to the channel's consumer.
Nack(c, u) ==
  LET h == channelOf[c] IN
  /\ Reads(c) /\ u \in unacked[h]
  /\ Cardinality({s \in settled : ~s.ack}) < MaxNacks
  /\ settled' = settled \cup {[channel |-> h, tag |-> u.tag, body |-> u.body, ack |-> FALSE]}
  /\ messages' = [messages EXCEPT ![u.queue] = Append(@, u.body)]
  /\ Send(h, u.body, TRUE, consumer[h])
  /\ unacked' = [unacked EXCEPT ![h] = (@ \ {u}) \cup {Unacked(h, u.queue, u.body)}]
  /\ UNCHANGED <<client, pc, job, declared, published, channel, consumer, unackedMade,
                 currentlyUnacked, consumes>>

Next ==
  \E c \in Conns :
    \/ Handshake(c) \/ Disconnect(c) \/ Qos(c)
    \/ Publish(c) \/ Register(c) \/ Drain(c) \/ Deliver(c)
    \/ \E q \in Queues : QueueDeclare(c, q) \/ BasicConsume(c, q)
    \/ \E m \in Messages :
         \/ BasicPublish(c, m) \/ HeaderFrame(c, m)
         \/ \E n \in 1 .. bodySize[m] : BodyFrame(c, m, n)
    \/ \E u \in unacked[channelOf[c]] : Ack(c, u) \/ Nack(c, u)

Spec == Init /\ [][Next]_vars

-----------------------------------------------------------------------------
(* Properties *)

Elements(s) == {s[i] : i \in DOMAIN s}

\* A message the server has put into a queue is kept until a client acknowledges or
\* rejects it: it is queued, being delivered by a consumer's goroutine, or tracked as
\* unacknowledged, whatever connections are lost and whoever shares a channel
\* (handleBasicPublish, handleBasicConsume, handleBasicNack).
NothingLost ==
  \A p \in published :
    \/ p.body \in Elements(messages[p.queue])
    \/ \E c \in Conns : pc[c] = "deliver" /\ job[c].queue = p.queue /\ p.body \in Elements(job[c].bodies)
    \/ \E h \in Channels : \E u \in unacked[h] : u.queue = p.queue /\ u.body = p.body
    \/ \E s \in settled : s.body = p.body /\ s.ack

\* The bookkeeping of deliveries is exact: the counter is the number of tracked
\* messages, the map was made before it was written (a write to a nil map
\* panics), every delivery is either tracked or was settled by its client, never both, and
\* a tag names one delivery of its channel for ever, so that a late acknowledgement cannot
\* settle another message (handleBasicConsume, handleBasicAck, handleBasicNack,
\* NextDeliveryTag).
UnackedExact ==
  /\ \A d, e \in delivered : d.channel = e.channel /\ d.tag = e.tag => d = e
  /\ \A h \in Channels :
       LET open == {u.tag : u \in unacked[h]}
           closed == {s.tag : s \in {x \in settled : x.channel = h}}
       IN  /\ currentlyUnacked[h] = Cardinality(unacked[h])
           /\ unacked[h] # {} => h \in unackedMade
           /\ open \cap closed = {}
           /\ open \cup closed = 1 .. nextTag[h] - 1

\* A connection that has its channel for itself publishes its messages whole, with
\* their frames in order, and into their own queue, also after publishes that
\* never were completed (handleAMQPFrameWithChannel, handleBasicPublish).
RoutedWhole ==
  \A p \in published :
    LET m == p.body[1][1]  c == publisherOf[m] IN
    (\A d \in Conns \ {c} : channelOf[d] # channelOf[c]) =>
      /\ p.body = [n \in 1 .. bodySize[m] |-> <<m, n>>]
      /\ routingKey[m] \in {p.queue, None}

=============================================================================
