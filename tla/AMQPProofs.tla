----------------------------- MODULE AMQPProofs -----------------------------
(***************************************************************************)
(* Proofs about AMQPServer, for any connections, channels, queues and      *)
(* messages.                                                               *)
(***************************************************************************)
EXTENDS AMQPServer, FiniteSetTheorems, TLAPS

-----------------------------------------------------------------------------
(* Types, and what a handler works on between its critical sections. *)

Body == Seq(Messages \X Nat)
Job == [queue : Queues \cup {None}, bodies : Seq(Body)]
Pending == [key : Queues \cup {None}, size : Nat, body : Body]

ClientType ==
  /\ channelOf \in [Conns -> Channels]
  /\ sending \in [Conns -> (Messages \cup {None}) \X Nat]
JobType ==
  /\ pc \in [Conns -> {"read", "publish", "register", "drain", "deliver"}]
  /\ job \in [Conns -> Job]
QueueType ==
  /\ declared \subseteq Queues /\ messages \in [Queues -> Seq(Body)]
  /\ published \subseteq [queue : Queues, body : Body]
ChannelType ==
  /\ pending \in [Channels -> Seq(Pending)]
  /\ boundQueue \in [Channels -> Queues \cup {None}]
TagType ==
  /\ unacked \in [Channels -> SUBSET [tag : Nat, queue : Queues, body : Body]]
  /\ nextTag \in [Channels -> Nat] /\ currentlyUnacked \in [Channels -> Int]

JobInv ==
  \A c \in Conns :
    /\ pc[c] \in {"register", "drain", "deliver"} => job[c].queue \in Queues
    /\ pc[c] = "deliver" => job[c].bodies # <<>>
    /\ pc[c] = "publish" => Len(job[c].bodies) = 1 /\ job[c].bodies[1] # <<>>

AmqpType == ClientType /\ JobType /\ QueueType /\ ChannelType /\ TagType /\ JobInv

LEMMA SeqFacts ==
  ASSUME NEW S, NEW s \in Seq(S), s # <<>>
  PROVE  s[1] \in S /\ Head(s) = s[1] /\ Len(s) > 0 /\ Tail(s) \in Seq(S)
  OBVIOUS

LEMMA AppendFacts ==
  ASSUME NEW S, NEW s \in Seq(S), NEW x \in S
  PROVE  /\ Append(s, x) \in Seq(S) /\ Append(s, x) # <<>>
         /\ Len(Append(s, x)) = Len(s) + 1 /\ Append(s, x)[Len(s) + 1] = x
<1>1. /\ Append(s, x) \in Seq(S) /\ Len(Append(s, x)) = Len(s) + 1
      /\ Append(s, x)[Len(s) + 1] = x /\ Len(s) \in Nat
  OBVIOUS
<1>2. Append(s, x) # <<>>
  <2>1. \A n \in Nat : n + 1 # 0
    OBVIOUS
  <2>2. Len(<<>>) = 0
    OBVIOUS
  <2> QED BY <1>1, <2>1, <2>2, Zenon
<1> QED BY <1>1, <1>2, Zenon

LEMMA TupleFacts == \A x, y : <<x>>[1] = x /\ <<x>> # <<>> /\ <<x, y>>[1] = x /\ <<x, y>>[2] = y
  OBVIOUS

\* A handler about to publish has one body to publish.
LEMMA OneBody ==
  ASSUME JobType, JobInv, NEW c \in Conns, pc[c] = "publish"
  PROVE  job[c].bodies \in Seq(Body) /\ job[c].bodies # <<>> /\ job[c].bodies[1] # <<>>
<1>1. job[c].bodies \in Seq(Body) /\ Len(job[c].bodies) = 1 /\ job[c].bodies[1] # <<>>
  BY Zenon DEF JobType, JobInv, Job
<1>2. \A s : Len(s) = 1 => s # <<>>
  <2>1. Len(<<>>) # 1
    OBVIOUS
  <2> QED BY <2>1, Zenon
<1> QED BY <1>1, <1>2, Zenon

LEMMA AmqpInit == Init => AmqpType
<1> SUFFICES ASSUME Init PROVE AmqpType
  BY Zenon
<1>1. ClientType /\ QueueType /\ ChannelType /\ TagType
  BY AMQPAssumption DEF Init, ClientType, QueueType, ChannelType, TagType, Body
<1>2. JobType /\ JobInv
  BY DEF Init, JobType, JobInv, NoJob, Job
<1> QED BY <1>1, <1>2, Zenon DEF AmqpType

\* The goroutine of c goes on to label l with job j.
LEMMA JobMoves ==
  ASSUME AmqpType, NEW c \in Conns, NEW l \in {"read", "publish", "register", "drain", "deliver"},
         NEW j \in Job,
         pc' = [pc EXCEPT ![c] = l], job' = [job EXCEPT ![c] = j],
         l \in {"register", "drain", "deliver"} => j.queue \in Queues,
         l = "deliver" => j.bodies # <<>>,
         l = "publish" => Len(j.bodies) = 1 /\ j.bodies[1] # <<>>
  PROVE  JobType' /\ JobInv'
<1>1. JobType'
  BY Zenon DEF AmqpType, JobType
<1>2. /\ pc'[c] = l /\ job'[c] = j
      /\ \A d \in Conns : d # c => pc'[d] = pc[d] /\ job'[d] = job[d]
  BY Zenon DEF AmqpType, JobType
<1> QED BY <1>1, <1>2 DEF AmqpType, JobInv

LEMMA JobStays ==
  ASSUME AmqpType, UNCHANGED <<pc, job>>
  PROVE  JobType' /\ JobInv'
  BY Zenon DEF AmqpType, JobType, JobInv

LEMMA PendingMoves ==
  ASSUME ChannelType, NEW h \in Channels, NEW r \in Pending, UNCHANGED boundQueue,
         \/ pending' = [pending EXCEPT ![h] = <<r>>]
         \/ pending' = [pending EXCEPT ![h] = <<>>]
         \/ pending' = pending
  PROVE  ChannelType'
<1>1. <<r>> \in Seq(Pending) /\ <<>> \in Seq(Pending)
  OBVIOUS
<1> QED BY <1>1, Zenon DEF ChannelType

LEMMA NoJobType == NoJob \in Job
  BY DEF NoJob, Job

LEMMA AmqpNext == AmqpType /\ [Next]_vars => AmqpType'
<1> SUFFICES ASSUME AmqpType, [Next]_vars PROVE AmqpType'
  BY Zenon
<1>t. ClientType /\ JobType /\ QueueType /\ ChannelType /\ TagType /\ JobInv
  BY Zenon DEF AmqpType
<1>n. NoJob \in Job
  BY NoJobType, Zenon
<1>1. ASSUME NEW c \in Conns, Handshake(c) \/ Disconnect(c) \/ Qos(c) PROVE AmqpType'
  <2>1. UNCHANGED <<channelOf, pc, job, queues, pending, boundQueue, unacked, nextTag, currentlyUnacked>>
    BY <1>1, Zenon DEF Handshake, Disconnect, Qos, client, queues, channel, tags
  <2>2. sending' = sending \/ sending' = [sending EXCEPT ![c] = <<None, 0>>]
    BY <1>1, Zenon DEF Handshake, Disconnect, Qos, client
  <2>3. ClientType'
    BY <2>1, <2>2, <1>t DEF ClientType
  <2> QED
    BY <2>1, <2>3, <1>t, JobStays, Zenon DEF AmqpType, queues, QueueType, ChannelType, TagType
<1>2. ASSUME NEW c \in Conns, NEW q \in Queues, QueueDeclare(c, q) PROVE AmqpType'
  BY <1>2, <1>t, JobStays, Zenon DEF QueueDeclare, client, tags, AmqpType, ClientType, QueueType, ChannelType, TagType
<1>3. ASSUME NEW c \in Conns, NEW m \in Messages, BasicPublish(c, m) PROVE AmqpType'
  <2>1. [key |-> routingKey[m], size |-> 0, body |-> <<>>] \in
          Pending
    BY AMQPAssumption DEF Body, Pending
  <2>2. ChannelType'
    BY <2>1, <1>3, <1>t, PendingMoves, Zenon DEF BasicPublish, ClientType
  <2>3. ClientType'
    BY <1>3, <1>t, Zenon DEF BasicPublish, ClientType
  <2> QED
    BY <2>2, <2>3, <1>3, <1>t, JobStays, Zenon DEF BasicPublish, queues, tags, AmqpType, QueueType, TagType
<1>4. ASSUME NEW c \in Conns, NEW m \in Messages, HeaderFrame(c, m) PROVE AmqpType'
  <2>1. ClientType'
    BY <1>4, <1>t DEF HeaderFrame, FrameSent, ClientType
  <2>2. ChannelType'
    <3> DEFINE h == channelOf[c]
               r == pending[h][1]
    <3>1. h \in Channels /\ bodySize[m] \in Nat
      BY <1>t, AMQPAssumption, Zenon DEF ClientType
    <3>2. CASE pending[h] = <<>>
      BY <3>2, <1>4, <1>t, Zenon DEF HeaderFrame, ChannelType
    <3>3. CASE pending[h] # <<>>
      <4>1. r \in Pending
        BY <3>1, <3>3, <1>t, SeqFacts, Zenon DEF ChannelType
      <4>2. [r EXCEPT !.size = bodySize[m], !.body = <<>>] \in
              Pending
        <5>1. <<>> \in Body
          BY DEF Body
        <5> HIDE DEF r
        <5> QED BY <5>1, <4>1, <3>1, Zenon DEF Pending
      <4> QED BY <4>2, <3>1, <3>3, <1>4, <1>t, PendingMoves, Zenon DEF HeaderFrame
    <3> QED BY <3>2, <3>3, Zenon
  <2> QED
    BY <2>1, <2>2, <1>4, <1>t, JobStays, Zenon DEF HeaderFrame, queues, tags, AmqpType, QueueType, TagType
<1>5. ASSUME NEW c \in Conns, NEW m \in Messages, NEW n \in 1 .. bodySize[m], BodyFrame(c, m, n)
      PROVE  AmqpType'
  <2> DEFINE h == channelOf[c]
             r == pending[h][1]
             body == Append(r.body, <<m, n>>)
  <2>0. h \in Channels /\ bodySize[m] \in Nat /\ n \in Nat
    BY <1>t, AMQPAssumption DEF ClientType
  <2>1. ClientType'
    <3>1. /\ channelOf' = channelOf
          /\ sending' = [sending EXCEPT ![c] = IF n = bodySize[m] THEN <<None, 0>> ELSE <<m, n + 1>>]
      BY <1>5, Zenon DEF BodyFrame, FrameSent
    <3> QED BY <3>1, <1>t, <2>0 DEF ClientType
  <2>2. QueueType' /\ TagType'
    BY <1>5, <1>t, Zenon DEF BodyFrame, queues, tags, QueueType, TagType
  <2>3. ChannelType' /\ JobType' /\ JobInv'
    <3>1. CASE pending[h] = <<>>
      BY <3>1, <1>5, <1>t, JobStays, Zenon DEF BodyFrame, ChannelType
    <3>2. CASE pending[h] # <<>>
      <4>1. r \in Pending
        BY <2>0, <3>2, <1>t, SeqFacts, Zenon DEF ChannelType
      <4>2. body \in Body /\ body # <<>> /\ r.key \in Queues \cup {None}
        <5>1. r.body \in Seq(Messages \X Nat) /\ r.key \in Queues \cup {None}
          BY <4>1, Zenon DEF Body, Pending
        <5>2. <<m, n>> \in Messages \X Nat
          BY <2>0
        <5> HIDE DEF r
        <5> QED BY <5>1, <5>2, AppendFacts, ZenonT(30) DEF Body
      <4> HIDE DEF body, r
      <4>3. CASE pending' = [pending EXCEPT ![h] = <<[r EXCEPT !.body = body]>>] /\ UNCHANGED <<pc, job>>
        <5>1. [r EXCEPT !.body = body] \in Pending
          BY <4>1, <4>2, Zenon DEF Pending
        <5> QED BY <5>1, <4>3, <2>0, <1>5, <1>t, JobStays, PendingMoves, Zenon DEF BodyFrame
      <4>4. CASE /\ pending' = [pending EXCEPT ![h] = <<>>] /\ pc' = [pc EXCEPT ![c] = "publish"]
                 /\ job' = [job EXCEPT ![c] = [queue |-> r.key, bodies |-> <<body>>]]
        <5>1. [queue |-> r.key, bodies |-> <<body>>] \in Job
          BY <4>2 DEF Job
        <5>2. JobType' /\ JobInv'
          BY <5>1, <4>4, <4>2, JobMoves, Zenon
        <5> QED BY <5>2, <4>1, <4>4, <2>0, <1>5, <1>t, PendingMoves, Zenon DEF BodyFrame
      <4> QED BY <3>2, <4>3, <4>4, <1>5, Zenon DEF BodyFrame, r, body
    <3> QED BY <3>1, <3>2, Zenon
  <2> QED BY <2>1, <2>2, <2>3, Zenon DEF AmqpType
<1>6. ASSUME NEW c \in Conns, Publish(c) PROVE AmqpType'
  <2> DEFINE q == IF job[c].queue # None THEN job[c].queue ELSE boundQueue[channelOf[c]]
             body == job[c].bodies[1]
  <2>1. body \in Body
    <3>1. job[c].bodies \in Seq(Body) /\ job[c].bodies # <<>>
      BY <1>6, <1>t, OneBody, Zenon DEF Publish
    <3> QED BY <3>1, SeqFacts, Zenon
  <2> HIDE DEF body
  <2>2. /\ pc' = [pc EXCEPT ![c] = "read"] /\ job' = [job EXCEPT ![c] = NoJob]
        /\ UNCHANGED <<client, declared, channel, tags>>
        /\ \/ UNCHANGED <<messages, published>>
           \/ /\ q \in declared /\ messages' = [messages EXCEPT ![q] = Append(@, body)]
              /\ published' = published \cup {[queue |-> q, body |-> body]}
    BY <1>6, Zenon DEF Publish, body
  <2>3. JobType' /\ JobInv'
    BY <2>2, <1>n, JobMoves, Zenon
  <2>4. QueueType'
    <3>1. CASE q \in declared
      <4>1. Append(messages[q], body) \in Seq(Body) /\ [queue |-> q, body |-> body] \in [queue : Queues, body : Body]
        BY <3>1, <2>1, <1>t DEF QueueType
      <4> HIDE DEF q
      <4> QED BY <4>1, <2>2, <1>t, Zenon DEF QueueType
    <3>2. CASE UNCHANGED <<messages, published>>
      BY <3>2, <2>2, <1>t, Zenon DEF QueueType
    <3> QED BY <2>2, <3>1, <3>2, Zenon
  <2> QED
    BY <2>2, <2>3, <2>4, <1>t, Zenon DEF client, channel, tags, AmqpType, ClientType, ChannelType, TagType
<1>7. ASSUME NEW c \in Conns, NEW q \in Queues, BasicConsume(c, q) PROVE AmqpType'
  <2>1. [queue |-> q, bodies |-> <<>>] \in Job
    BY DEF Job
  <2>2. JobType' /\ JobInv'
    BY <2>1, <1>7, JobMoves, Zenon DEF BasicConsume
  <2> QED
    BY <2>2, <1>7, <1>t, Zenon DEF BasicConsume, client, queues, channel, tags, AmqpType, ClientType,
       QueueType, ChannelType, TagType
<1>8. ASSUME NEW c \in Conns, Register(c) PROVE AmqpType'
  <2>1. JobType' /\ JobInv'
    BY <1>8, <1>t, Zenon DEF Register, JobType, JobInv
  <2> QED
    BY <2>1, <1>8, <1>t, Zenon DEF Register, client, queues, AmqpType, ClientType, QueueType, ChannelType, TagType
<1>9. ASSUME NEW c \in Conns, Drain(c) PROVE AmqpType'
  <2>0. job[c] \in Job /\ job[c].queue \in Queues /\ channelOf[c] \in Channels
    BY <1>9, <1>t, Zenon DEF Drain, JobType, JobInv, ClientType
  <2>1. messages[job[c].queue] \in Seq(Body)
    BY <2>0, <1>t, Zenon DEF QueueType
  <2>2. JobType' /\ JobInv'
    <3>1. CASE messages[job[c].queue] = <<>>
      BY <3>1, <1>9, <1>n, JobMoves, Zenon DEF Drain
    <3>2. CASE messages[job[c].queue] # <<>>
      <4> DEFINE j == [job[c] EXCEPT !.bodies = messages[job[c].queue]]
      <4>1. j \in Job /\ j.queue \in Queues /\ j.bodies # <<>>
        BY <2>0, <2>1, <3>2, Zenon DEF Job
      <4>2. pc' = [pc EXCEPT ![c] = "deliver"] /\ job' = [job EXCEPT ![c] = j]
        BY <3>2, <1>9, Zenon DEF Drain
      <4> HIDE DEF j
      <4> QED BY <4>1, <4>2, JobMoves, Zenon
    <3> QED BY <3>1, <3>2, Zenon
  <2>3. QueueType'
    BY <2>0, <1>9, <1>t DEF Drain, QueueType
  <2>4. TagType'
    BY <2>0, <1>9, <1>t, Zenon DEF Drain, TagType
  <2> QED
    BY <2>2, <2>3, <2>4, <1>9, <1>t, Zenon DEF Drain, client, channel, AmqpType, ClientType, ChannelType
<1>10. ASSUME NEW c \in Conns, Deliver(c) PROVE AmqpType'
  <2> DEFINE h == channelOf[c]
             body == Head(job[c].bodies)
             u == Unacked(h, job[c].queue, body)
  <2>0. job[c] \in Job /\ job[c].queue \in Queues /\ h \in Channels
    BY <1>10, <1>t, Zenon DEF Deliver, JobType, JobInv, ClientType
  <2>1. body \in Body /\ Tail(job[c].bodies) \in Seq(Body)
    <3>1. job[c].bodies \in Seq(Body) /\ job[c].bodies # <<>>
      BY <2>0, <1>10, <1>t, Zenon DEF Deliver, JobInv, Job
    <3> QED BY <3>1, SeqFacts, Zenon
  <2>2. JobType' /\ JobInv'
    <3>1. CASE Tail(job[c].bodies) = <<>>
      BY <3>1, <1>10, <1>n, JobMoves, Zenon DEF Deliver
    <3>2. CASE Tail(job[c].bodies) # <<>>
      <4> DEFINE j == [job[c] EXCEPT !.bodies = Tail(@)]
      <4>1. j \in Job /\ j.queue \in Queues /\ j.bodies # <<>>
        BY <2>0, <2>1, <3>2, Zenon DEF Job
      <4>2. pc' = [pc EXCEPT ![c] = "deliver"] /\ job' = [job EXCEPT ![c] = j]
        BY <3>2, <1>10, <1>t, Zenon DEF Deliver, JobType
      <4> HIDE DEF j
      <4> QED BY <4>1, <4>2, JobMoves, Zenon
    <3> QED BY <3>1, <3>2, Zenon
  <2>3. TagType'
    <3>1. u \in [tag : Nat, queue : Queues, body : Body]
      BY <2>0, <2>1, <1>t, Zenon DEF Unacked, TagType
    <3> HIDE DEF u
    <3>2. /\ nextTag' = [nextTag EXCEPT ![h] = @ + 1]
          /\ unacked' = [unacked EXCEPT ![h] = @ \cup {u}]
          /\ currentlyUnacked' = [currentlyUnacked EXCEPT ![h] = @ + 1]
      BY <1>10, Zenon DEF Deliver, Send, u
    <3> QED BY <3>1, <3>2, <2>0, <1>t DEF TagType
  <2> QED
    BY <2>2, <2>3, <1>10, <1>t, Zenon DEF Deliver, client, queues, channel, AmqpType, ClientType, QueueType, ChannelType
<1>11. ASSUME NEW c \in Conns, NEW u \in unacked[channelOf[c]], Ack(c, u) PROVE AmqpType'
  <2>1. TagType'
    BY <1>11, <1>t DEF Ack, TagType, ClientType
  <2> QED
    BY <2>1, <1>11, <1>t, JobStays, Zenon DEF Ack, client, queues, channel, AmqpType, ClientType, QueueType, ChannelType
<1>12. ASSUME NEW c \in Conns, NEW u \in unacked[channelOf[c]], Nack(c, u) PROVE AmqpType'
  <2> DEFINE h == channelOf[c]
             v == Unacked(h, u.queue, u.body)
  <2>1. h \in Channels /\ u.queue \in Queues /\ u.body \in Body
    BY <1>t DEF ClientType, TagType
  <2>2. v \in [tag : Nat, queue : Queues, body : Body]
    BY <2>1, <1>t, Zenon DEF Unacked, TagType
  <2> HIDE DEF v
  <2>3. /\ nextTag' = [nextTag EXCEPT ![h] = @ + 1] /\ currentlyUnacked' = currentlyUnacked
        /\ unacked' = [unacked EXCEPT ![h] = (@ \ {u}) \cup {v}]
        /\ messages' = [messages EXCEPT ![u.queue] = Append(@, u.body)]
        /\ UNCHANGED <<client, pc, job, declared, published, channel>>
    BY <1>12, Zenon DEF Nack, Send, v
  <2>4. TagType'
    BY <2>1, <2>2, <2>3, <1>t DEF TagType
  <2>5. QueueType'
    BY <2>1, <2>3, <1>t DEF QueueType
  <2> QED
    BY <2>3, <2>4, <2>5, <1>t, JobStays, Zenon DEF client, channel, AmqpType, ClientType, ChannelType
<1>13. CASE UNCHANGED vars
  BY <1>13, <1>t, JobStays, Zenon DEF vars, client, queues, channel, tags, AmqpType, ClientType, QueueType,
     ChannelType, TagType
<1> QED
  BY <1>1, <1>2, <1>3, <1>4, <1>5, <1>6, <1>7, <1>8, <1>9, <1>10, <1>11, <1>12, <1>13, Zenon DEF Next

-----------------------------------------------------------------------------
(* NothingLost is inductive once the handlers' jobs are typed: each step that
   takes a message from one place puts it into the next in the same critical
   section. *)

Queued(p) == p.body \in Elements(messages[p.queue])
InDelivery(p, c) == pc[c] = "deliver" /\ job[c].queue = p.queue /\ p.body \in Elements(job[c].bodies)
Tracked(p, h, u) == u \in unacked[h] /\ u.queue = p.queue /\ u.body = p.body
Settled(p) == \E s \in settled : s.body = p.body /\ s.ack
Kept(p) ==
  \/ Queued(p)
  \/ \E c \in Conns : InDelivery(p, c)
  \/ \E h \in Channels : \E u \in unacked[h] : Tracked(p, h, u)
  \/ Settled(p)

LEMMA KeptIsNothingLost == NothingLost <=> \A p \in published : Kept(p)
  BY Zenon DEF NothingLost, Kept, Queued, InDelivery, Tracked, Settled

\* The steps that take nothing away.
LEMMA KeptStays ==
  ASSUME AmqpType, NEW p, Kept(p),
         \A q \in Queues : Elements(messages[q]) \subseteq Elements(messages'[q]), p.queue \in Queues,
         \A c \in Conns : pc[c] = "deliver" => pc'[c] = pc[c] /\ job'[c] = job[c],
         \A h \in Channels : unacked[h] \subseteq unacked'[h],
         settled \subseteq settled'
  PROVE  Kept(p)'
<1>1. CASE Queued(p)
  BY <1>1, Zenon DEF Kept, Queued
<1>2. ASSUME NEW c \in Conns, InDelivery(p, c) PROVE Kept(p)'
  <2>1. InDelivery(p, c)'
    BY <1>2, Zenon DEF InDelivery
  <2> QED BY <2>1, Zenon DEF Kept
<1>3. ASSUME NEW h \in Channels, NEW u \in unacked[h], Tracked(p, h, u) PROVE Kept(p)'
  <2>1. u \in unacked'[h] /\ Tracked(p, h, u)'
    BY <1>3, Zenon DEF Tracked
  <2> QED BY <2>1, Zenon DEF Kept
<1>4. CASE Settled(p)
  BY <1>4, Zenon DEF Kept, Settled
<1> QED BY <1>1, <1>2, <1>3, <1>4, Zenon DEF Kept

LEMMA AppendElements ==
  ASSUME NEW S, NEW s \in Seq(S), NEW x \in S
  PROVE  Elements(Append(s, x)) = Elements(s) \cup {x}
<1>1. DOMAIN s = 1 .. Len(s) /\ DOMAIN Append(s, x) = 1 .. (Len(s) + 1) /\ Len(s) \in Nat
  OBVIOUS
<1>2. /\ \A i \in 1 .. Len(s) : Append(s, x)[i] = s[i]
      /\ Append(s, x)[Len(s) + 1] = x
  OBVIOUS
<1> QED BY <1>1, <1>2 DEF Elements

LEMMA HeadTailElements ==
  ASSUME NEW S, NEW s \in Seq(S), s # <<>>
  PROVE  Elements(s) = {Head(s)} \cup Elements(Tail(s))
<1>1. /\ DOMAIN s = 1 .. Len(s) /\ Len(s) \in Nat /\ Len(s) > 0 /\ Head(s) = s[1]
      /\ DOMAIN Tail(s) = 1 .. (Len(s) - 1)
      /\ \A i \in 1 .. (Len(s) - 1) : Tail(s)[i] = s[i + 1]
  OBVIOUS
<1>2. \A i \in 1 .. Len(s) : i = 1 \/ \E j \in 1 .. (Len(s) - 1) : i = j + 1
  <2> SUFFICES ASSUME NEW i \in 1 .. Len(s), i # 1 PROVE \E j \in 1 .. (Len(s) - 1) : i = j + 1
    BY Zenon
  <2>1. i - 1 \in 1 .. (Len(s) - 1) /\ i = (i - 1) + 1
    BY <1>1
  <2> QED BY <2>1, Zenon
<1>3. \A i \in 1 .. (Len(s) - 1) : i + 1 \in 1 .. Len(s)
  BY <1>1
<1>4. Elements(s) \subseteq {Head(s)} \cup Elements(Tail(s))
  <2> SUFFICES ASSUME NEW i \in 1 .. Len(s) PROVE s[i] \in {Head(s)} \cup Elements(Tail(s))
    BY <1>1, Zenon DEF Elements
  <2>1. CASE i = 1
    BY <2>1, <1>1, Zenon
  <2>2. ASSUME NEW j \in 1 .. (Len(s) - 1), i = j + 1 PROVE s[i] \in Elements(Tail(s))
    <3>1. s[i] = Tail(s)[j] /\ j \in DOMAIN Tail(s)
      BY <2>2, <1>1, Zenon
    <3> QED BY <3>1, Zenon DEF Elements
  <2> QED BY <2>1, <2>2, <1>2, Zenon
<1>5. {Head(s)} \cup Elements(Tail(s)) \subseteq Elements(s)
  BY <1>1, <1>3 DEF Elements
<1> QED BY <1>4, <1>5, Zenon

LEMMA LostNext ==
  ASSUME AmqpType, NothingLost, [Next]_vars
  PROVE  NothingLost'
<1> SUFFICES ASSUME NEW p \in published' PROVE Kept(p)'
  <2>1. NothingLost' <=> \A p \in published' : Kept(p)'
    BY Zenon DEF NothingLost, Kept, Queued, InDelivery, Tracked, Settled
  <2> QED BY <2>1, Zenon
<1>t. ClientType /\ JobType /\ QueueType /\ TagType /\ JobInv
  BY Zenon DEF AmqpType
<1>k. p \in published => Kept(p) /\ p.queue \in Queues
  BY KeptIsNothingLost, <1>t, Zenon DEF QueueType
<1>1. ASSUME p \in published, UNCHANGED <<messages, unacked, settled>>,
             \A c \in Conns : pc[c] = "deliver" => pc'[c] = pc[c] /\ job'[c] = job[c]
      PROVE  Kept(p)'
  BY <1>1, <1>k, KeptStays, Zenon
<1>2. ASSUME NEW c \in Conns, Publish(c) PROVE Kept(p)'
  <2> DEFINE q == IF job[c].queue # None THEN job[c].queue ELSE boundQueue[channelOf[c]]
             body == job[c].bodies[1]
  <2>1. body \in Body
    <3>1. job[c].bodies \in Seq(Body) /\ job[c].bodies # <<>>
      BY <1>2, <1>t, OneBody, Zenon DEF Publish
    <3> QED BY <3>1, SeqFacts, Zenon
  <2>2. \A d \in Conns : pc[d] = "deliver" => pc'[d] = pc[d] /\ job'[d] = job[d]
    BY <1>2, <1>t, Zenon DEF Publish, JobType
  <2> HIDE DEF body, q
  <2>3. UNCHANGED <<unacked, settled>>
    BY <1>2, Zenon DEF Publish, tags
  <2>4. CASE q \in declared
    <3>1. /\ messages' = [messages EXCEPT ![q] = Append(@, body)]
          /\ published' = published \cup {[queue |-> q, body |-> body]}
      BY <2>4, <1>2, Zenon DEF Publish, q, body
    <3>2. q \in Queues /\ messages[q] \in Seq(Body) /\ messages'[q] = Append(messages[q], body)
      BY <3>1, <2>4, <1>t, Zenon DEF QueueType
    <3>3. Elements(messages'[q]) = Elements(messages[q]) \cup {body}
      BY <3>2, <2>1, AppendElements
    <3>4. \A r \in Queues : Elements(messages[r]) \subseteq Elements(messages'[r])
      BY <3>1, <3>3, <1>t, Zenon DEF QueueType
    <3>5. CASE p \in published
      BY <3>5, <3>4, <2>2, <2>3, <1>k, KeptStays, Zenon
    <3>6. CASE p = [queue |-> q, body |-> body]
      BY <3>6, <3>3, Zenon DEF Kept, Queued
    <3> QED BY <3>1, <3>5, <3>6, Zenon
  <2>5. CASE q \notin declared
    <3>1. UNCHANGED <<messages, published>>
      BY <2>5, <1>2, Zenon DEF Publish, q
    <3> QED BY <3>1, <2>2, <2>3, <1>1, Zenon
  <2> QED BY <2>4, <2>5, Zenon
<1>3. ASSUME NEW c \in Conns, Drain(c) PROVE Kept(p)'
  <2> DEFINE q == job[c].queue
  <2>0. q \in Queues /\ pc[c] = "drain" /\ job[c] \in Job
    BY <1>3, <1>t, Zenon DEF Drain, JobType, JobInv
  <2>1. /\ p \in published /\ UNCHANGED <<unacked, settled>>
        /\ messages' = [messages EXCEPT ![q] = <<>>]
    BY <1>3, Zenon DEF Drain
  <2>2. \A d \in Conns : pc[d] = "deliver" => pc'[d] = pc[d] /\ job'[d] = job[d]
    BY <2>0, <1>3, <1>t, Zenon DEF Drain, JobType
  <2>3. CASE messages[q] = <<>>
    <3>1. messages' = messages
      BY <2>1, <2>3, <1>t, Zenon DEF QueueType
    <3> QED BY <3>1, <2>1, <2>2, <1>1, Zenon
  <2>4. CASE p.queue # q \/ ~Queued(p)
    <3>1. CASE Queued(p)
      BY <3>1, <2>1, <2>4, <1>k, <1>t, Zenon DEF Kept, Queued, QueueType
    <3>2. ASSUME NEW d \in Conns, InDelivery(p, d) PROVE Kept(p)'
      BY <3>2, <2>2, Zenon DEF Kept, InDelivery
    <3>3. ASSUME NEW h \in Channels, NEW u \in unacked[h], Tracked(p, h, u) PROVE Kept(p)'
      BY <3>3, <2>1, Zenon DEF Kept, Tracked
    <3>4. CASE Settled(p)
      BY <3>4, <2>1, Zenon DEF Kept, Settled
    <3> QED BY <3>1, <3>2, <3>3, <3>4, <2>1, <1>k, Zenon DEF Kept
  <2>5. CASE p.queue = q /\ Queued(p) /\ messages[q] # <<>>
    <3>1. /\ pc'[c] = "deliver" /\ job'[c].queue = q /\ job'[c].bodies = messages[q]
      BY <2>0, <2>5, <1>3, <1>t DEF Drain, JobType, Job
    <3> QED BY <3>1, <2>5, Zenon DEF Kept, InDelivery, Queued
  <2> QED BY <2>3, <2>4, <2>5, Zenon
<1>4. ASSUME NEW c \in Conns, Deliver(c) PROVE Kept(p)'
  <2> DEFINE h == channelOf[c]
             b == Head(job[c].bodies)
             v == Unacked(h, job[c].queue, b)
  <2>0. job[c] \in Job /\ h \in Channels /\ pc[c] = "deliver"
    BY <1>4, <1>t, Zenon DEF Deliver, JobType, ClientType
  <2>1. job[c].bodies \in Seq(Body) /\ job[c].bodies # <<>>
    BY <2>0, <1>t, Zenon DEF JobInv, Job
  <2>2. Elements(job[c].bodies) = {b} \cup Elements(Tail(job[c].bodies))
    BY <2>1, HeadTailElements, Zenon
  <2>3. /\ p \in published /\ UNCHANGED <<messages, settled>>
        /\ unacked' = [unacked EXCEPT ![h] = @ \cup {v}]
        /\ \A d \in Conns : d # c => pc'[d] = pc[d] /\ job'[d] = job[d]
    BY <1>4, <1>t, Zenon DEF Deliver, queues, JobType
  <2>4. v \in unacked'[h] /\ v.queue = job[c].queue /\ v.body = b
    BY <2>0, <2>3, <1>t, Zenon DEF TagType, Unacked
  <2>5. \A g \in Channels : unacked[g] \subseteq unacked'[g]
    BY <2>3, <1>t, Zenon DEF TagType
  <2>6. Tail(job[c].bodies) # <<>> =>
          pc'[c] = "deliver" /\ job'[c].queue = job[c].queue /\ job'[c].bodies = Tail(job[c].bodies)
    BY <2>0, <1>4, <1>t DEF Deliver, JobType, Job
  <2>7. Tail(job[c].bodies) = <<>> => Elements(Tail(job[c].bodies)) = {}
    BY DEF Elements
  <2> HIDE DEF v, b
  <2>8. CASE InDelivery(p, c)
    <3>1. CASE p.body = b
      BY <3>1, <2>0, <2>4, <2>8, Zenon DEF Kept, Tracked, InDelivery
    <3>2. CASE p.body \in Elements(Tail(job[c].bodies))
      BY <3>2, <2>6, <2>7, <2>8, Zenon DEF Kept, InDelivery
    <3> QED BY <3>1, <3>2, <2>2, <2>8, Zenon DEF InDelivery
  <2>9. CASE Queued(p) \/ Settled(p)
    BY <2>3, <2>9, Zenon DEF Kept, Queued, Settled
  <2>10. ASSUME NEW d \in Conns, d # c, InDelivery(p, d) PROVE Kept(p)'
    BY <2>3, <2>10, Zenon DEF Kept, InDelivery
  <2>11. ASSUME NEW g \in Channels, NEW u \in unacked[g], Tracked(p, g, u) PROVE Kept(p)'
    BY <2>5, <2>11, Zenon DEF Kept, Tracked
  <2> QED BY <2>3, <2>8, <2>9, <2>10, <2>11, <1>k, Zenon DEF Kept
<1>5. ASSUME NEW c \in Conns, NEW v \in unacked[channelOf[c]], Ack(c, v) PROVE Kept(p)'
  <2> DEFINE h == channelOf[c]
             s == [channel |-> h, tag |-> v.tag, body |-> v.body, ack |-> TRUE]
  <2>1. /\ p \in published /\ UNCHANGED <<messages, pc, job>> /\ h \in Channels
        /\ unacked' = [unacked EXCEPT ![h] = @ \ {v}] /\ settled' = settled \cup {s}
    BY <1>5, <1>t, Zenon DEF Ack, queues, ClientType
  <2>2. CASE Queued(p) \/ Settled(p)
    BY <2>1, <2>2, Zenon DEF Kept, Queued, Settled
  <2>3. ASSUME NEW d \in Conns, InDelivery(p, d) PROVE Kept(p)'
    BY <2>1, <2>3, Zenon DEF Kept, InDelivery
  <2>4. ASSUME NEW g \in Channels, NEW u \in unacked[g], Tracked(p, g, u) PROVE Kept(p)'
    <3>1. CASE g = h /\ u = v
      <4>1. s \in settled' /\ s.body = p.body /\ s.ack
        BY <3>1, <2>1, <2>4, Zenon DEF Tracked
      <4> QED BY <4>1, Zenon DEF Kept, Settled
    <3>2. CASE ~(g = h /\ u = v)
      <4>1. u \in unacked'[g]
        BY <3>2, <2>1, <1>t, Zenon DEF TagType
      <4> QED BY <4>1, <2>4, Zenon DEF Kept, Tracked
    <3> QED BY <3>1, <3>2, Zenon
  <2> QED BY <2>1, <2>2, <2>3, <2>4, <1>k, Zenon DEF Kept
<1>6. ASSUME NEW c \in Conns, NEW v \in unacked[channelOf[c]], Nack(c, v) PROVE Kept(p)'
  <2> DEFINE h == channelOf[c]
             w == Unacked(h, v.queue, v.body)
  <2>0. h \in Channels /\ v.queue \in Queues /\ v.body \in Body
    BY <1>t DEF ClientType, TagType
  <2>1. /\ p \in published /\ UNCHANGED <<pc, job>> /\ settled \subseteq settled'
        /\ messages' = [messages EXCEPT ![v.queue] = Append(@, v.body)]
        /\ unacked' = [unacked EXCEPT ![h] = (@ \ {v}) \cup {w}]
    BY <1>6, Zenon DEF Nack
  <2>2. w \in unacked'[h] /\ w.queue = v.queue /\ w.body = v.body
    BY <2>0, <2>1, <1>t, Zenon DEF TagType, Unacked
  <2>3. messages'[v.queue] = Append(messages[v.queue], v.body) /\ messages[v.queue] \in Seq(Body)
    BY <2>0, <2>1, <1>t, Zenon DEF QueueType
  <2>4. \A r \in Queues : Elements(messages[r]) \subseteq Elements(messages'[r])
    BY <2>0, <2>1, <2>3, <1>t, AppendElements DEF QueueType
  <2> HIDE DEF w
  <2>5. CASE Queued(p)
    BY <2>1, <2>4, <2>5, <1>k, Zenon DEF Kept, Queued
  <2>6. CASE Settled(p)
    BY <2>1, <2>6, Zenon DEF Kept, Settled
  <2>7. ASSUME NEW d \in Conns, InDelivery(p, d) PROVE Kept(p)'
    BY <2>1, <2>7, Zenon DEF Kept, InDelivery
  <2>8. ASSUME NEW g \in Channels, NEW u \in unacked[g], Tracked(p, g, u) PROVE Kept(p)'
    <3>1. CASE u = v
      BY <3>1, <2>0, <2>2, <2>8, Zenon DEF Kept, Tracked
    <3>2. CASE u # v
      <4>1. u \in unacked'[g]
        BY <3>2, <2>1, <1>t, Zenon DEF TagType
      <4> QED BY <4>1, <2>8, Zenon DEF Kept, Tracked
    <3> QED BY <3>1, <3>2, Zenon
  <2> QED BY <2>1, <2>5, <2>6, <2>7, <2>8, <1>k, Zenon DEF Kept
<1>7. ASSUME NEW c \in Conns,
             \/ Handshake(c) \/ Disconnect(c) \/ Qos(c) \/ Register(c)
             \/ \E q \in Queues : QueueDeclare(c, q) \/ BasicConsume(c, q)
             \/ \E m \in Messages :
                  \/ BasicPublish(c, m) \/ HeaderFrame(c, m)
                  \/ \E n \in 1 .. bodySize[m] : BodyFrame(c, m, n)
      PROVE  Kept(p)'
  <2>1. /\ p \in published /\ UNCHANGED <<messages, unacked, settled>>
        /\ \A d \in Conns : d # c => pc'[d] = pc[d] /\ job'[d] = job[d]
        /\ pc[c] # "deliver" \/ UNCHANGED <<pc, job>>
    BY <1>7, <1>t, ZenonT(30) DEF Handshake, Disconnect, Qos, Register, QueueDeclare, BasicConsume, BasicPublish,
       HeaderFrame, BodyFrame, FrameSent, Reads, queues, tags, JobType
  <2> QED BY <2>1, <1>1, Zenon
<1>8. CASE UNCHANGED vars
  BY <1>8, <1>1, Zenon DEF vars, queues, tags
<1> QED BY <1>2, <1>3, <1>4, <1>5, <1>6, <1>7, <1>8, Zenon DEF Next

\* For all connections, channels, queues and messages: a message put into a queue is
\* queued, in delivery, tracked or acknowledged.
THEOREM AcceptedKept == Spec => []NothingLost
<1>1. Init => AmqpType /\ NothingLost
  BY AmqpInit, Zenon DEF Init, NothingLost
<1>2. AmqpType /\ NothingLost /\ [Next]_vars => (AmqpType /\ NothingLost)'
  BY AmqpNext, LostNext, Zenon
<1> QED BY <1>1, <1>2, PTL DEF Spec

-----------------------------------------------------------------------------
(* Routing.  The first frame of a body that is pending, or about to be published,
   was sent by a connection of its channel; and while a connection has its channel
   for itself, the pending publish there holds exactly the frames it has sent. *)

Alone(c) == \A d \in Conns \ {c} : channelOf[d] # channelOf[c]
Whole(m, n) == [i \in 1 .. n |-> <<m, i>>]
Sent(m, n) == [key |-> routingKey[m], size |-> IF n = 0 THEN 0 ELSE bodySize[m], body |-> Whole(m, n - 1)]
WholeJob(m) == [queue |-> routingKey[m], bodies |-> <<Whole(m, bodySize[m])>>]

SendInv ==
  \A c \in Conns : sending[c][1] # None =>
    publisherOf[sending[c][1]] = c /\ sending[c][2] <= bodySize[sending[c][1]]
SameChannel(body, h) == channelOf[publisherOf[body[1][1]]] = h
FrameInv ==
  /\ \A h \in Channels : pending[h] # <<>> /\ pending[h][1].body # <<>> => SameChannel(pending[h][1].body, h)
  /\ \A c \in Conns : pc[c] = "publish" => SameChannel(job[c].bodies[1], channelOf[c])
AloneInv ==
  \A c \in Conns : Alone(c) =>
    /\ sending[c][1] # None => pending[channelOf[c]] = <<Sent(sending[c][1], sending[c][2])>>
    /\ pc[c] = "publish" => \E m \in Messages : job[c] = WholeJob(m)

LEMMA WholeFacts ==
  ASSUME NEW m \in Messages, NEW n \in Nat
  PROVE  /\ Whole(m, n) \in Body /\ Len(Whole(m, n)) = n /\ (n > 0 => Whole(m, n)[1] = <<m, 1>>)
         /\ Whole(m, 0) = <<>> /\ Whole(m, -1) = <<>>
<1>1. Whole(m, n) \in Seq(Messages \X Nat) /\ Len(Whole(m, n)) = n
  BY DEF Whole
<1>2. n > 0 => Whole(m, n)[1] = <<m, 1>>
  BY DEF Whole
<1>3. Whole(m, 0) = <<>> /\ Whole(m, -1) = <<>>
  BY DEF Whole
<1> QED BY <1>1, <1>2, <1>3, Zenon DEF Body

LEMMA WholeGrows ==
  ASSUME NEW m \in Messages, NEW n \in Nat \ {0}
  PROVE  Append(Whole(m, n - 1), <<m, n>>) = Whole(m, n)
<1> DEFINE w == Whole(m, n - 1)
<1>1. /\ w \in Seq(Messages \X Nat) /\ Len(w) = n - 1 /\ \A i \in 1 .. n - 1 : w[i] = <<m, i>>
      /\ <<m, n>> \in Messages \X Nat
  BY DEF Whole
<1> HIDE DEF w
<1> DEFINE a == Append(w, <<m, n>>)
<1>2. /\ a \in Seq(Messages \X Nat) /\ Len(a) = n
      /\ \A i \in 1 .. n : a[i] = <<m, i>>
  BY <1>1
<1>3. a = [i \in 1 .. n |-> a[i]]
  BY <1>2
<1> QED BY <1>2, <1>3, Zenon DEF Whole, w

LEMMA SentGrows ==
  ASSUME NEW m \in Messages
  PROVE  /\ [Sent(m, 0) EXCEPT !.size = bodySize[m], !.body = <<>>] = Sent(m, 1)
         /\ \A n \in Nat \ {0} : [Sent(m, n) EXCEPT !.body = Whole(m, n)] = Sent(m, n + 1)
<1> DEFINE a == Sent(m, 0)  k == routingKey[m]  z == bodySize[m]
<1>1. Whole(m, 0 - 1) = <<>> /\ Whole(m, 1 - 1) = <<>>
  BY WholeFacts
<1>2. a = [key |-> k, size |-> 0, body |-> <<>>] /\ Sent(m, 1) = [key |-> k, size |-> z, body |-> <<>>]
  BY <1>1 DEF Sent
<1> HIDE DEF a, k, z
<1>3. [a EXCEPT !.size = z, !.body = <<>>] = [key |-> k, size |-> z, body |-> <<>>]
  <2> DEFINE e == [a EXCEPT !.size = z]
  <2>1. e = [key |-> k, size |-> z, body |-> <<>>]
    BY <1>2
  <2>2. [a EXCEPT !.size = z, !.body = <<>>] = [e EXCEPT !.body = <<>>]
    BY Zenon
  <2> HIDE DEF e
  <2>3. [e EXCEPT !.body = <<>>] = [key |-> k, size |-> z, body |-> <<>>]
    BY <2>1
  <2> QED BY <2>2, <2>3, Zenon
<1>4. ASSUME NEW n \in Nat \ {0} PROVE [Sent(m, n) EXCEPT !.body = Whole(m, n)] = Sent(m, n + 1)
  <2> DEFINE b == Sent(m, n)  w == Whole(m, n)
  <2>1. b = [key |-> k, size |-> z, body |-> Whole(m, n - 1)] /\ Sent(m, n + 1) = [key |-> k, size |-> z, body |-> w]
    BY DEF Sent, k, z
  <2> HIDE DEF b, w
  <2>2. [b EXCEPT !.body = w] = [key |-> k, size |-> z, body |-> w]
    BY <2>1
  <2> QED BY <2>1, <2>2, Zenon DEF b, w
<1> QED BY <1>2, <1>3, <1>4, Zenon DEF a, z

LEMMA RouteStays ==
  ASSUME SendInv, FrameInv, AloneInv, UNCHANGED <<channelOf, pending>>,
         \A c \in Conns : sending'[c] = sending[c] \/ sending'[c][1] = None,
         \A c \in Conns : pc'[c] = "publish" => pc[c] = "publish" /\ job'[c] = job[c]
  PROVE  SendInv' /\ FrameInv' /\ AloneInv'
<1>1. SendInv'
  BY Zenon DEF SendInv
<1>2. FrameInv'
  BY Zenon DEF FrameInv, SameChannel
<1>3. AloneInv'
  BY Zenon DEF AloneInv, Alone
<1> QED BY <1>1, <1>2, <1>3, Zenon


\* A frame of connection c changes the pending publish of its own channel h only,
\* and what it leaves there, or hands on, was sent by c when c is alone.
LEMMA RouteFrame ==
  ASSUME AmqpType, SendInv, FrameInv, AloneInv, NEW c \in Conns, NEW h \in Channels, h = channelOf[c],
         UNCHANGED channelOf, NEW s, NEW r,
         sending' = [sending EXCEPT ![c] = s], pending' = [pending EXCEPT ![h] = r],
         s[1] # None => publisherOf[s[1]] = c /\ s[2] <= bodySize[s[1]],
         r # <<>> /\ r[1].body # <<>> => SameChannel(r[1].body, h),
         Alone(c) /\ s[1] # None => r = <<Sent(s[1], s[2])>>,
         \A d \in Conns : pc'[d] = "publish" =>
           \/ pc[d] = "publish" /\ job'[d] = job[d]
           \/ /\ d = c /\ SameChannel(job'[c].bodies[1], h)
              /\ Alone(c) => \E m \in Messages : job'[c] = WholeJob(m)
  PROVE  SendInv' /\ FrameInv' /\ AloneInv'
<1>t. ClientType /\ ChannelType
  BY Zenon DEF AmqpType
<1>1. /\ sending'[c] = s /\ \A d \in Conns : d # c => sending'[d] = sending[d]
      /\ pending'[h] = r /\ \A g \in Channels : g # h => pending'[g] = pending[g]
  BY <1>t, Zenon DEF ClientType, ChannelType
<1>2. SendInv'
  BY <1>1, ZenonT(30) DEF SendInv
<1>3. FrameInv'
  <2>1. \A g \in Channels : pending'[g] # <<>> /\ pending'[g][1].body # <<>> => SameChannel(pending'[g][1].body, g)
    BY <1>1, ZenonT(30) DEF FrameInv
  <2>2. \A d \in Conns : pc'[d] = "publish" => SameChannel(job'[d].bodies[1], channelOf[d])
    BY Zenon DEF FrameInv
  <2> QED BY <2>1, <2>2, Zenon DEF FrameInv, SameChannel
<1>4. AloneInv'
  <2> SUFFICES ASSUME NEW d \in Conns, Alone(d)
               PROVE  /\ sending'[d][1] # None =>
                           pending'[channelOf[d]] = <<Sent(sending'[d][1], sending'[d][2])>>
                      /\ pc'[d] = "publish" => \E m \in Messages : job'[d] = WholeJob(m)
    BY Zenon DEF AloneInv, Alone
  <2>1. CASE d = c
    <3>1. sending'[d][1] # None => pending'[channelOf[d]] = <<Sent(sending'[d][1], sending'[d][2])>>
      BY <2>1, <1>1, Zenon
    <3>2. pc[d] = "publish" => \E m \in Messages : job[d] = WholeJob(m)
      BY Zenon DEF AloneInv
    <3> QED BY <3>1, <3>2, <2>1, Zenon
  <2>2. CASE d # c
    <3>1. channelOf[d] \in Channels /\ channelOf[d] # h
      BY <2>2, <1>t, Zenon DEF Alone, ClientType
    <3>2. sending'[d] = sending[d] /\ pending'[channelOf[d]] = pending[channelOf[d]]
      BY <3>1, <2>2, <1>1, Zenon
    <3>3. pc'[d] = "publish" => pc[d] = "publish" /\ job'[d] = job[d]
      BY <2>2, Zenon
    <3> QED BY <3>2, <3>3, Zenon DEF AloneInv
  <2> QED BY <2>1, <2>2, Zenon
<1> QED BY <1>2, <1>3, <1>4, Zenon

LEMMA RouteNext ==
  ASSUME AmqpType, SendInv, FrameInv, AloneInv, [Next]_vars
  PROVE  SendInv' /\ FrameInv' /\ AloneInv'
<1>t. ClientType /\ JobType /\ ChannelType
  BY Zenon DEF AmqpType
<1>1. ASSUME NEW c \in Conns, NEW m \in Messages, BasicPublish(c, m)
      PROVE  SendInv' /\ FrameInv' /\ AloneInv'
  <2> PICK h \in Channels : h = channelOf[c]
    BY <1>t, Zenon DEF ClientType
  <2> DEFINE s == <<m, 0>>  r == <<[key |-> routingKey[m], size |-> 0, body |-> <<>>]>>
  <2>1. /\ UNCHANGED <<channelOf, pc, job>> /\ publisherOf[m] = c
        /\ sending' = [sending EXCEPT ![c] = s] /\ pending' = [pending EXCEPT ![h] = r]
    BY <1>1, Zenon DEF BasicPublish
  <2>2. s[1] = m /\ s[2] = 0 /\ r[1].body = <<>> /\ 0 <= bodySize[m]
    BY AMQPAssumption
  <2>3. r = <<Sent(m, 0)>>
    BY WholeFacts DEF Sent
  <2> HIDE DEF s, r
  <2> QED BY <2>1, <2>2, <2>3, RouteFrame, ZenonT(30)
<1>2. ASSUME NEW c \in Conns, NEW m \in Messages, HeaderFrame(c, m)
      PROVE  SendInv' /\ FrameInv' /\ AloneInv'
  <2> PICK h \in Channels : h = channelOf[c]
    BY <1>t, Zenon DEF ClientType
  <2> DEFINE s == IF 0 = bodySize[m] THEN <<None, 0>> ELSE <<m, 0 + 1>>
             old == pending[h][1]
             r == IF pending[h] = <<>> THEN <<>> ELSE <<[old EXCEPT !.size = bodySize[m], !.body = <<>>]>>
  <2>1. UNCHANGED <<channelOf, pc, job>> /\ sending[c] = <<m, 0>> /\ sending' = [sending EXCEPT ![c] = s]
    BY <1>2, Zenon DEF HeaderFrame, FrameSent
  <2>2. pending' = [pending EXCEPT ![h] = r]
    BY <1>2, <1>t, Zenon DEF HeaderFrame, ChannelType
  <2>3. s[1] # None => s = <<m, 1>> /\ 1 <= bodySize[m]
    BY AMQPAssumption
  <2>4. publisherOf[m] = c /\ m # None
    BY <2>1, AMQPAssumption DEF SendInv
  <2>5. r # <<>> => r[1].body = <<>>
    BY <1>t, SeqFacts DEF ChannelType, Pending
  <2>6. Alone(c) /\ s[1] # None => r = <<Sent(m, 1)>>
    <3> SUFFICES ASSUME Alone(c) PROVE r = <<Sent(m, 1)>>
      BY Zenon
    <3>1. pending[h] = <<Sent(m, 0)>>
      <4>1. sending[c][1] = m /\ sending[c][2] = 0
        BY <2>1
      <4> QED BY <4>1, <2>4, Zenon DEF AloneInv
    <3>2. old = Sent(m, 0) /\ pending[h] # <<>>
      BY <3>1, TupleFacts, Zenon
    <3>3. [Sent(m, 0) EXCEPT !.size = bodySize[m], !.body = <<>>] = Sent(m, 1)
      BY SentGrows, Zenon
    <3> QED BY <3>2, <3>3, Zenon
  <2> HIDE DEF s, r
  <2>7. s[1] # None => s[1] = m /\ s[2] = 1
    BY <2>3
  <2> QED BY <2>1, <2>2, <2>3, <2>4, <2>5, <2>6, <2>7, RouteFrame, Zenon
<1>3. ASSUME NEW c \in Conns, NEW m \in Messages, NEW n \in 1 .. bodySize[m], BodyFrame(c, m, n)
      PROVE  SendInv' /\ FrameInv' /\ AloneInv'
  <2> PICK h \in Channels : h = channelOf[c]
    BY <1>t, Zenon DEF ClientType
  <2> DEFINE s == IF n = bodySize[m] THEN <<None, 0>> ELSE <<m, n + 1>>
             old == pending[h][1]
             body == Append(old.body, <<m, n>>)
             full == Len(body) >= old.size
             r == IF pending[h] = <<>> \/ full THEN <<>> ELSE <<[old EXCEPT !.body = body]>>
  <2>0. bodySize[m] \in Nat /\ n \in Nat \ {0} /\ n <= bodySize[m] /\ m # None /\ <<m, n>> \in Messages \X Nat
    BY AMQPAssumption
  <2>1. UNCHANGED channelOf /\ sending[c] = <<m, n>> /\ sending' = [sending EXCEPT ![c] = s]
    BY <1>3, Zenon DEF BodyFrame, FrameSent
  <2>2. /\ s[1] # None => n # bodySize[m] /\ s[1] = m /\ s[2] = n + 1 /\ s[2] <= bodySize[m]
        /\ n = bodySize[m] => s[1] = None
    BY <2>0
  <2>3. publisherOf[m] = c
    BY <2>0, <2>1 DEF SendInv
  <2>4. pending[h] # <<>> => /\ old \in Pending /\ body \in Seq(Messages \X Nat) /\ body # <<>>
                             /\ Len(body) \in Nat /\ old.size \in Nat
    <3> HAVE pending[h] # <<>>
    <3>1. old \in Pending
      BY <1>t, SeqFacts, Zenon DEF ChannelType
    <3>2. old.body \in Seq(Messages \X Nat) /\ old.size \in Nat
      BY <3>1, Zenon DEF Pending, Body
    <3>3. \A t \in Seq(Messages \X Nat) : Len(t) \in Nat
      OBVIOUS
    <3> HIDE DEF old
    <3>4. PICK t \in Seq(Messages \X Nat), x \in Messages \X Nat : t = old.body /\ x = <<m, n>>
      BY <3>2, <2>0, Zenon
    <3>5. Append(t, x) \in Seq(Messages \X Nat) /\ Append(t, x) # <<>>
      BY AppendFacts, Zenon
    <3> QED BY <3>1, <3>2, <3>3, <3>4, <3>5, Zenon
  <2>5. pending[h] # <<>> => SameChannel(body, h)
    <3> HAVE pending[h] # <<>>
    <3>1. old.body \in Seq(Messages \X Nat)
      BY <2>4, Zenon DEF Pending, Body
    <3>2. CASE old.body = <<>>
      <4>1. body[1] = <<m, n>>
        <5>1. Len(old.body) + 1 = 1
          BY <3>2
        <5>2. PICK b \in Seq(Messages \X Nat), x \in Messages \X Nat : b = old.body /\ x = <<m, n>>
          BY <3>1, <2>0, Zenon
        <5>3. Append(b, x)[Len(b) + 1] = x
          BY AppendFacts, Zenon
        <5> QED BY <5>1, <5>2, <5>3, Zenon
      <4>2. body[1][1] = m
        BY <4>1, TupleFacts, ZenonT(30)
      <4> QED BY <4>2, <2>3, Zenon DEF SameChannel
    <3>3. CASE old.body # <<>>
      <4>1. body[1] = old.body[1]
        BY <3>1, <3>3, <2>0
      <4> QED BY <4>1, <3>3, Zenon DEF SameChannel, FrameInv
    <3> QED BY <3>2, <3>3, Zenon
  <2>6. ASSUME Alone(c)
        PROVE  /\ pending[h] # <<>> /\ old = Sent(m, n) /\ old.size = bodySize[m] /\ old.key = routingKey[m]
               /\ body = Whole(m, n) /\ Len(body) = n
    <3>1. pending[h] = <<Sent(m, n)>>
      <4>1. sending[c][1] = m /\ sending[c][2] = n
        BY <2>1
      <4> QED BY <4>1, <2>0, <2>6, Zenon DEF AloneInv
    <3>2. old = Sent(m, n) /\ pending[h] # <<>>
      BY <3>1, TupleFacts, Zenon
    <3>3. old.size = bodySize[m] /\ old.key = routingKey[m] /\ old.body = Whole(m, n - 1)
      BY <3>2, <2>0 DEF Sent
    <3>4. body = Whole(m, n)
      BY <3>3, <2>0, WholeGrows, Zenon
    <3> QED BY <3>2, <3>3, <3>4, <2>0, WholeFacts, Zenon
  <2>7. /\ pending' = [pending EXCEPT ![h] = r]
        /\ UNCHANGED <<pc, job>> \/
           /\ pending[h] # <<>> /\ full /\ pc' = [pc EXCEPT ![c] = "publish"]
           /\ job' = [job EXCEPT ![c] = [queue |-> old.key, bodies |-> <<body>>]]
    <3>1. CASE pending[h] = <<>>
      BY <3>1, <1>3, <1>t, Zenon DEF BodyFrame, ChannelType
    <3>2. CASE pending[h] # <<>>
      <4>1. \/ /\ Len(body) < old.size /\ UNCHANGED <<pc, job>>
               /\ pending' = [pending EXCEPT ![h] = <<[@[1] EXCEPT !.body = body]>>]
            \/ /\ Len(body) >= old.size /\ pending' = [pending EXCEPT ![h] = <<>>]
               /\ pc' = [pc EXCEPT ![c] = "publish"]
               /\ job' = [job EXCEPT ![c] = [queue |-> old.key, bodies |-> <<body>>]]
        BY <3>2, <1>3, Zenon DEF BodyFrame
      <4>2. ~(Len(body) < old.size /\ full)
        <5>1. PICK k \in Nat, z \in Nat : k = Len(body) /\ z = old.size
          BY <3>2, <2>4, Zenon
        <5>2. ~(k < z /\ k >= z)
          OBVIOUS
        <5> QED BY <5>1, <5>2, Zenon
      <4> QED BY <4>1, <4>2, <3>2, Zenon
    <3> QED BY <3>1, <3>2, Zenon
  <2>8. \A d \in Conns : pc'[d] = "publish" =>
           \/ pc[d] = "publish" /\ job'[d] = job[d]
           \/ /\ d = c /\ SameChannel(job'[c].bodies[1], h)
              /\ Alone(c) => \E k \in Messages : job'[c] = WholeJob(k)
    <3>1. CASE UNCHANGED <<pc, job>>
      BY <3>1, Zenon
    <3>2. CASE /\ pending[h] # <<>> /\ full /\ pc' = [pc EXCEPT ![c] = "publish"]
               /\ job' = [job EXCEPT ![c] = [queue |-> old.key, bodies |-> <<body>>]]
      <4>0. Alone(c) => n = bodySize[m]
        <5> HAVE Alone(c)
        <5>1. Len(body) = n /\ old.size = bodySize[m] /\ Len(body) >= old.size
          BY <3>2, <2>6, Zenon
        <5> QED BY <5>1, <2>0
      <4> HIDE DEF body, old, full
      <4>1. /\ job'[c] = [queue |-> old.key, bodies |-> <<body>>]
            /\ \A d \in Conns : d # c => pc'[d] = pc[d] /\ job'[d] = job[d]
        BY <3>2, <1>t, Zenon DEF JobType
      <4>2. job'[c].bodies[1] = body
        BY <4>1
      <4>3. Alone(c) => job'[c] = WholeJob(m)
        <5> HAVE Alone(c)
        <5> QED BY <4>0, <4>1, <2>6, Zenon DEF WholeJob
      <4> QED BY <4>1, <4>2, <4>3, <3>2, <2>5, Zenon
    <3> QED BY <3>1, <3>2, <2>7, Zenon
  <2>9. Alone(c) /\ s[1] # None => r = <<Sent(m, n + 1)>>
    <3> SUFFICES ASSUME Alone(c), s[1] # None PROVE r = <<Sent(m, n + 1)>>
      BY Zenon
    <3>1. ~full /\ pending[h] # <<>>
      <4>1. Len(body) = n /\ old.size = bodySize[m] /\ pending[h] # <<>> /\ n # bodySize[m]
        BY <2>2, <2>6, Zenon
      <4>2. ~(n >= bodySize[m])
        BY <4>1, <2>0
      <4> HIDE DEF body, old, s, r
      <4> QED BY <4>1, <4>2, Zenon
    <3>2. [Sent(m, n) EXCEPT !.body = Whole(m, n)] = Sent(m, n + 1)
      BY <2>0, SentGrows, Zenon
    <3> QED BY <3>1, <3>2, <2>6, Zenon
  <2>10. r # <<>> => r[1].body = body /\ pending[h] # <<>>
    BY <2>4, Zenon DEF Pending
  <2> HIDE DEF s, r, body, old, full
  <2>11. /\ s[1] # None => publisherOf[s[1]] = c /\ s[2] <= bodySize[s[1]]
         /\ r # <<>> /\ r[1].body # <<>> => SameChannel(r[1].body, h)
         /\ Alone(c) /\ s[1] # None => r = <<Sent(s[1], s[2])>>
    BY <2>2, <2>3, <2>5, <2>9, <2>10, Zenon
  <2> QED BY <2>1, <2>7, <2>8, <2>11, RouteFrame, Zenon
<1>4. ASSUME NEW c \in Conns,
             \/ Handshake(c) \/ Disconnect(c) \/ Qos(c) \/ Publish(c) \/ Register(c) \/ Drain(c) \/ Deliver(c)
             \/ \E q \in Queues : QueueDeclare(c, q) \/ BasicConsume(c, q)
             \/ \E u \in unacked[channelOf[c]] : Ack(c, u) \/ Nack(c, u)
      PROVE  SendInv' /\ FrameInv' /\ AloneInv'
  <2>1. UNCHANGED <<channelOf, pending>>
    BY <1>4, Zenon DEF Handshake, Disconnect, Qos, Publish, Register, Drain, Deliver, QueueDeclare,
                BasicConsume, Ack, Nack, client, channel
  <2>2. \A d \in Conns : sending'[d] = sending[d] \/ sending'[d][1] = None
    <3>1. sending' = [sending EXCEPT ![c] = <<None, 0>>] \/ UNCHANGED sending
      BY <1>4, Zenon DEF Handshake, Disconnect, Qos, Publish, Register, Drain, Deliver, QueueDeclare,
                  BasicConsume, Ack, Nack, client
    <3> QED BY <3>1, <1>t DEF ClientType
  <2>3. \A d \in Conns : pc'[d] = "publish" => pc[d] = "publish" /\ job'[d] = job[d]
    <3>1. CASE UNCHANGED <<pc, job>>
      BY <3>1, Zenon
    <3>2. CASE Publish(c) \/ Register(c) \/ Drain(c) \/ Deliver(c) \/ \E q \in Queues : BasicConsume(c, q)
      BY <3>2, <1>t, Zenon DEF Publish, Register, Drain, Deliver, BasicConsume, JobType
    <3> QED BY <1>4, <3>1, <3>2, Zenon DEF Handshake, Disconnect, Qos, QueueDeclare, Ack, Nack
  <2> QED BY <2>1, <2>2, <2>3, RouteStays, Zenon
<1>5. CASE UNCHANGED vars
  BY <1>5, RouteStays, Zenon DEF vars, client, channel
<1> QED BY <1>1, <1>2, <1>3, <1>4, <1>5, Zenon DEF Next


LEMMA RoutedNext ==
  ASSUME AmqpType, FrameInv, AloneInv, RoutedWhole, [Next]_vars
  PROVE  RoutedWhole'
<1>t. ClientType /\ JobType /\ QueueType /\ JobInv
  BY Zenon DEF AmqpType
<1>0. ASSUME UNCHANGED <<channelOf, published>> PROVE RoutedWhole'
  BY <1>0, Zenon DEF RoutedWhole
<1>1. ASSUME NEW c \in Conns, Publish(c) PROVE RoutedWhole'
  <2> PICK body, q : /\ body = job[c].bodies[1]
                     /\ q = IF job[c].queue # None THEN job[c].queue ELSE boundQueue[channelOf[c]]
    BY Zenon
  <2>1. pc[c] = "publish" /\ UNCHANGED channelOf
    BY <1>1, Zenon DEF Publish, client
  <2>2. published' \subseteq published \cup {[queue |-> q, body |-> body]}
    BY <1>1, Zenon DEF Publish
  <2>3. body \in Seq(Messages \X Nat) /\ body # <<>>
    <3>1. job[c].bodies \in Seq(Body) /\ job[c].bodies # <<>> /\ body # <<>>
      BY <2>1, <1>t, OneBody, Zenon
    <3>2. job[c].bodies[1] \in Body
      BY <3>1, SeqFacts, Zenon
    <3> QED BY <3>1, <3>2, Zenon DEF Body
  <2>4. body[1][1] \in Messages /\ publisherOf[body[1][1]] \in Conns
    <3>1. PICK x \in Messages \X Nat : x = body[1]
      BY <2>3, SeqFacts, Zenon
    <3>2. x[1] \in Messages
      OBVIOUS
    <3> QED BY <3>1, <3>2, AMQPAssumption, Zenon
  <2>5. ASSUME Alone(publisherOf[body[1][1]])
        PROVE  /\ body = Whole(body[1][1], bodySize[body[1][1]])
               /\ routingKey[body[1][1]] \in {q, None}
    <3>1. publisherOf[body[1][1]] = c
      BY <2>1, <2>4, <2>5, Zenon DEF FrameInv, SameChannel, Alone
    <3>2. PICK m \in Messages : job[c] = WholeJob(m)
      BY <2>1, <2>5, <3>1, Zenon DEF AloneInv
    <3>3. body = Whole(m, bodySize[m]) /\ job[c].queue = routingKey[m]
      BY <3>2 DEF WholeJob
    <3>4. bodySize[m] \in Nat /\ bodySize[m] > 0
      <4>1. bodySize[m] \in Nat
        BY AMQPAssumption, Zenon
      <4> QED BY <4>1, <3>3, <2>3, WholeFacts
    <3>5. body[1][1] = m
      <4>1. body[1] = <<m, 1>>
        BY <3>3, <3>4, WholeFacts, Zenon
      <4> QED BY <4>1
    <3> QED BY <3>3, <3>5, Zenon
  <2>6. ASSUME NEW p \in published',
               \A d \in Conns \ {publisherOf[p.body[1][1]]} : channelOf[d] # channelOf[publisherOf[p.body[1][1]]]
        PROVE  /\ p.body = [n \in 1 .. bodySize[p.body[1][1]] |-> <<p.body[1][1], n>>]
               /\ routingKey[p.body[1][1]] \in {p.queue, None}
    <3>1. CASE p \in published
      BY <2>6, <3>1, Zenon DEF RoutedWhole
    <3>2. CASE p = [queue |-> q, body |-> body]
      <4>1. p.queue = q /\ p.body = body
        BY <3>2, Zenon
      <4>2. Alone(publisherOf[body[1][1]])
        BY <4>1, <2>6, Zenon DEF Alone
      <4> QED BY <4>1, <4>2, <2>5, Zenon DEF Whole
    <3> QED BY <2>2, <3>1, <3>2, Zenon
  <2> QED BY <2>1, <2>6, Zenon DEF RoutedWhole
<1>2. ASSUME NEW c \in Conns,
             \/ Handshake(c) \/ Disconnect(c) \/ Qos(c) \/ Register(c) \/ Drain(c) \/ Deliver(c)
             \/ \E q \in Queues : QueueDeclare(c, q) \/ BasicConsume(c, q)
             \/ \E m \in Messages : \/ BasicPublish(c, m) \/ HeaderFrame(c, m)
                                    \/ \E n \in 1 .. bodySize[m] : BodyFrame(c, m, n)
             \/ \E u \in unacked[channelOf[c]] : Ack(c, u) \/ Nack(c, u)
      PROVE  RoutedWhole'
  BY <1>0, <1>2, Zenon DEF Handshake, Disconnect, Qos, Register, Drain, Deliver, QueueDeclare, BasicConsume,
             BasicPublish, HeaderFrame, BodyFrame, FrameSent, Ack, Nack, client, queues
<1>3. CASE UNCHANGED vars
  BY <1>0, <1>3, Zenon DEF vars, client, queues
<1> QED BY <1>1, <1>2, <1>3, Zenon DEF Next

\* For all connections, channels, queues and messages: what a connection publishes on
\* a channel of its own arrives whole, in order and in its own queue.
THEOREM PublishedWhole == Spec => []RoutedWhole
<1>1. Init => AmqpType /\ SendInv /\ FrameInv /\ AloneInv /\ RoutedWhole
  <2> SUFFICES ASSUME Init PROVE SendInv /\ FrameInv /\ AloneInv /\ RoutedWhole
    BY AmqpInit, Zenon
  <2>1. \A c \in Conns : sending[c][1] = None /\ pc[c] = "read"
    BY Zenon DEF Init
  <2>2. published = {} /\ \A h \in Channels : pending[h] = <<>>
    BY Zenon DEF Init
  <2> QED BY <2>1, <2>2, Zenon DEF SendInv, FrameInv, AloneInv, RoutedWhole
<1>2. AmqpType /\ SendInv /\ FrameInv /\ AloneInv /\ RoutedWhole /\ [Next]_vars
        => (AmqpType /\ SendInv /\ FrameInv /\ AloneInv /\ RoutedWhole)'
  BY AmqpNext, RouteNext, RoutedNext, Zenon
<1> QED BY <1>1, <1>2, PTL DEF Spec

-----------------------------------------------------------------------------
(* The bookkeeping of deliveries.  UnackedExact is made inductive by what it
   leaves out: a goroutine that delivers has made the channel's map and given it a
   first tag, what was delivered has an earlier tag than the next, and no two
   tracked messages of a channel share a tag. *)

Tags(U) == {u.tag : u \in U}
Closed(h) == {s.tag : s \in {x \in settled : x.channel = h}}

Split(U, C, n) ==
  /\ Tags(U) \cap C = {} /\ Tags(U) \cup C = 1 .. n - 1
  /\ IsFiniteSet(U) /\ \A v, w \in U : v.tag = w.tag => v = w

Exact(h) ==
  /\ currentlyUnacked[h] = Cardinality(unacked[h])
  /\ Split(unacked[h], Closed(h), nextTag[h])

Made ==
  /\ \A c \in Conns : pc[c] = "deliver" => nextTag[channelOf[c]] > 0 /\ channelOf[c] \in unackedMade
  /\ \A h \in Channels : unacked[h] # {} => h \in unackedMade

DeliveredBefore ==
  /\ \A d \in delivered : d.channel \in Channels /\ d.tag \in Nat /\ d.tag < nextTag[d.channel]
  /\ \A d, e \in delivered : d.channel = e.channel /\ d.tag = e.tag => d = e

TagInv == Made /\ DeliveredBefore /\ \A h \in Channels : Exact(h)

LEMMA TagInvExact == TagInv => UnackedExact
  BY Zenon DEF TagInv, Made, DeliveredBefore, Exact, Split, Tags, Closed, UnackedExact

\* A tag is issued; an open tag is closed.
LEMMA Issue ==
  ASSUME NEW open, NEW closed, NEW n \in Nat \ {0},
         open \cap closed = {}, open \cup closed = 1 .. n - 1
  PROVE  /\ n \notin open
         /\ (open \cup {n}) \cap closed = {}
         /\ (open \cup {n}) \cup closed = 1 .. (n + 1) - 1
<1>1. 1 .. (n + 1) - 1 = (1 .. n - 1) \cup {n} /\ n \notin 1 .. n - 1
  OBVIOUS
<1>2. n \notin open /\ n \notin closed
  BY <1>1, Zenon
<1>3. (open \cup {n}) \cap closed = {}
  BY <1>2, Zenon
<1>4. (open \cup {n}) \cup closed = (open \cup closed) \cup {n}
  BY Zenon
<1> QED BY <1>1, <1>2, <1>3, <1>4, Zenon

LEMMA Settle ==
  ASSUME NEW open, NEW closed, NEW t \in open, open \cap closed = {}
  PROVE  /\ (open \ {t}) \cap (closed \cup {t}) = {}
         /\ (open \ {t}) \cup (closed \cup {t}) = open \cup closed
  BY Zenon

LEMMA OpenMinus ==
  ASSUME NEW U, NEW u \in U, \A v, w \in U : v.tag = w.tag => v = w
  PROVE  Tags(U \ {u}) = Tags(U) \ {u.tag}
  BY Zenon DEF Tags

LEMMA OpenPlus ==
  ASSUME NEW U, NEW u
  PROVE  Tags(U \cup {u}) = Tags(U) \cup {u.tag}
  BY Zenon DEF Tags

\* A message with the next tag joins the tracked ones; a tracked one leaves them.
LEMMA Join ==
  ASSUME NEW U, NEW C, NEW n \in Nat \ {0}, NEW u, u.tag = n, Split(U, C, n)
  PROVE  Split(U \cup {u}, C, n + 1) /\ Cardinality(U \cup {u}) = Cardinality(U) + 1
<1> DEFINE open == Tags(U)
<1>1. \A v \in U : v.tag \in open
  BY Zenon DEF Tags
<1>2. Tags(U \cup {u}) = open \cup {n}
  BY OpenPlus, Zenon
<1> HIDE DEF open
<1>3. /\ n \notin open /\ (open \cup {n}) \cap C = {}
      /\ (open \cup {n}) \cup C = 1 .. (n + 1) - 1
  <2>1. open \cap C = {} /\ open \cup C = 1 .. n - 1
    BY Zenon DEF open, Split
  <2> QED BY <2>1, Issue
<1>4. u \notin U /\ \A v \in U : v.tag # u.tag
  BY <1>1, <1>3, Zenon
<1>5. IsFiniteSet(U \cup {u}) /\ Cardinality(U \cup {u}) = Cardinality(U) + 1
  BY <1>4, FS_AddElement, Zenon DEF Split
<1>6. \A v, w \in U \cup {u} : v.tag = w.tag => v = w
  BY <1>4, Zenon DEF Split
<1> QED BY <1>2, <1>3, <1>5, <1>6, Zenon DEF Split

LEMMA Leave ==
  ASSUME NEW U, NEW C, NEW n, NEW u \in U, Split(U, C, n)
  PROVE  Split(U \ {u}, C \cup {u.tag}, n) /\ Cardinality(U \ {u}) = Cardinality(U) - 1
<1> DEFINE open == Tags(U)
<1>1. u.tag \in open
  BY Zenon DEF Tags
<1>2. Tags(U \ {u}) = open \ {u.tag}
  BY OpenMinus, Zenon DEF Split
<1>3. open \cap C = {} /\ open \cup C = 1 .. n - 1
  BY Zenon DEF Split
<1> HIDE DEF open
<1>4. /\ (open \ {u.tag}) \cap (C \cup {u.tag}) = {}
      /\ (open \ {u.tag}) \cup (C \cup {u.tag}) = 1 .. n - 1
  BY <1>1, <1>3, Settle, Zenon
<1>5. IsFiniteSet(U \ {u}) /\ Cardinality(U \ {u}) = Cardinality(U) - 1
  BY FS_RemoveElement, Zenon DEF Split
<1>6. \A v, w \in U \ {u} : v.tag = w.tag => v = w
  BY Zenon DEF Split
<1> QED BY <1>2, <1>4, <1>5, <1>6, Zenon DEF Split

\* The steps that touch no tag.
LEMMA TagsStay ==
  ASSUME TagInv, UNCHANGED <<channelOf, unacked, currentlyUnacked, nextTag, delivered, settled>>,
         unackedMade \subseteq unackedMade',
         \A c \in Conns : pc'[c] = "deliver" => pc[c] = "deliver"
  PROVE  TagInv'
<1>1. Made'
  BY Zenon DEF TagInv, Made
<1>2. DeliveredBefore'
  BY Zenon DEF TagInv, DeliveredBefore
<1>3. \A h \in Channels : Exact(h)'
  BY Zenon DEF TagInv, Exact, Closed
<1> QED BY <1>1, <1>2, <1>3, Zenon DEF TagInv

\* What is sent has the next tag of its channel.
LEMMA SendKeeps ==
  ASSUME AmqpType, TagInv, NEW h \in Channels, NEW body, NEW redelivered, NEW d,
         Send(h, body, redelivered, d)
  PROVE  /\ DeliveredBefore'
         /\ nextTag'[h] = nextTag[h] + 1 /\ \A g \in Channels : g # h => nextTag'[g] = nextTag[g]
<1> DEFINE x == [channel |-> h, tag |-> nextTag[h], body |-> body, redelivered |-> redelivered]
<1>1. nextTag' = [nextTag EXCEPT ![h] = @ + 1] /\ nextTag \in [Channels -> Nat]
  BY Zenon DEF Send, AmqpType, TagType
<1>2. nextTag'[h] = nextTag[h] + 1 /\ \A g \in Channels : g # h => nextTag'[g] = nextTag[g]
  BY <1>1, Zenon
<1>3. delivered' = delivered \/ delivered' = delivered \cup {x}
  BY Zenon DEF Send
<1>4. x.channel = h /\ x.tag = nextTag[h]
  BY Zenon
<1> HIDE DEF x
<1>5. \A e \in delivered : /\ e.channel \in Channels /\ e.tag \in Nat /\ e.tag < nextTag'[e.channel]
                           /\ e.channel = h => e.tag # nextTag[h]
  BY <1>1, <1>2 DEF TagInv, DeliveredBefore
<1>6. \A e \in delivered' : e.channel \in Channels /\ e.tag \in Nat /\ e.tag < nextTag'[e.channel]
  BY <1>1, <1>2, <1>3, <1>4, <1>5
<1>7. \A e, f \in delivered' : e.channel = f.channel /\ e.tag = f.tag => e = f
  BY <1>3, <1>4, <1>5, Zenon DEF TagInv, DeliveredBefore
<1> QED BY <1>2, <1>6, <1>7, Zenon DEF DeliveredBefore

\* The channels a step does not touch.
LEMMA OtherChannels ==
  ASSUME TagInv, NEW h \in Channels, NEW g \in Channels, g # h,
         unacked'[g] = unacked[g], currentlyUnacked'[g] = currentlyUnacked[g], nextTag'[g] = nextTag[g],
         settled' = settled \/ \E s : s.channel = h /\ settled' = settled \cup {s}
  PROVE  Exact(g)'
<1>1. Closed(g)' = Closed(g)
  BY Zenon DEF Closed
<1> QED BY <1>1, Zenon DEF TagInv, Exact

LEMMA ClosedPlus ==
  ASSUME NEW h, NEW s, s.channel = h, settled' = settled \cup {s}
  PROVE  Closed(h)' = Closed(h) \cup {s.tag}
<1>1. {x \in settled' : x.channel = h} = {x \in settled : x.channel = h} \cup {s}
  BY Zenon
<1> QED BY <1>1, Zenon DEF Closed

LEMMA TagNext ==
  ASSUME AmqpType, TagInv, [Next]_vars
  PROVE  TagInv'
<1>t. ClientType /\ JobType /\ TagType
  BY Zenon DEF AmqpType
<1>1. ASSUME NEW c \in Conns, Drain(c) PROVE TagInv'
  <2> DEFINE h == channelOf[c]
  <2>1. /\ UNCHANGED <<channelOf, unacked, currentlyUnacked, delivered, settled>>
        /\ unackedMade' = unackedMade \cup {h} /\ h \in Channels
        /\ \A d \in Conns : pc'[d] = "deliver" => pc[d] = "deliver" \/ d = c
        /\ nextTag' = [nextTag EXCEPT ![h] = IF @ = 0 THEN 1 ELSE @]
    BY <1>1, <1>t, Zenon DEF Drain, client, JobType, ClientType
  <2>2. \A g \in Channels : /\ nextTag'[g] = nextTag[g] \/ (nextTag[g] = 0 /\ nextTag'[g] = 1)
                            /\ nextTag[g] \in Nat /\ nextTag[g] <= nextTag'[g]
                            /\ nextTag'[h] > 0
    BY <2>1, <1>t DEF TagType
  <2>3. Made'
    BY <2>1, <2>2, <1>t DEF TagInv, Made, ClientType
  <2>4. DeliveredBefore'
    BY <2>1, <2>2 DEF TagInv, DeliveredBefore
  <2>5. \A g \in Channels : Exact(g)'
    <3> SUFFICES ASSUME NEW g \in Channels PROVE Exact(g)'
      BY Zenon
    <3>1. 1 .. nextTag'[g] - 1 = 1 .. nextTag[g] - 1
      BY <2>2
    <3>2. Closed(g)' = Closed(g)
      BY <2>1, Zenon DEF Closed
    <3>3. Split(unacked[g], Closed(g), nextTag'[g])
      BY <3>1, Zenon DEF TagInv, Exact, Split
    <3> QED BY <3>2, <3>3, <2>1, Zenon DEF TagInv, Exact
  <2> QED BY <2>3, <2>4, <2>5, Zenon DEF TagInv
<1>2. ASSUME NEW c \in Conns, Deliver(c) PROVE TagInv'
  <2> PICK h \in Channels : h = channelOf[c]
    BY <1>t, Zenon DEF ClientType
  <2> DEFINE body == Head(job[c].bodies)  u == Unacked(h, job[c].queue, body)
  <2>0. pc[c] = "deliver"
    BY <1>2, Zenon DEF Deliver
  <2>n. nextTag[h] \in Nat \ {0} /\ h \in unackedMade
    BY <2>0, <1>t DEF TagInv, Made, TagType
  <2>1. /\ Send(h, body, FALSE, c) /\ UNCHANGED <<channelOf, unackedMade, settled>>
        /\ unacked' = [unacked EXCEPT ![h] = @ \cup {u}]
        /\ currentlyUnacked' = [currentlyUnacked EXCEPT ![h] = @ + 1]
        /\ \A d \in Conns : pc'[d] = "deliver" => pc[d] = "deliver"
    BY <1>2, <1>t, Zenon DEF Deliver, client, JobType
  <2>2. u.tag = nextTag[h]
    BY Zenon DEF Unacked
  <2> HIDE DEF u, body
  <2>3. /\ DeliveredBefore'
        /\ nextTag'[h] = nextTag[h] + 1 /\ \A g \in Channels : g # h => nextTag'[g] = nextTag[g]
    BY <2>0, <2>1, SendKeeps, Zenon
  <2>4. /\ unacked'[h] = unacked[h] \cup {u} /\ currentlyUnacked'[h] = currentlyUnacked[h] + 1
        /\ \A g \in Channels : g # h => /\ unacked'[g] = unacked[g]
                                        /\ currentlyUnacked'[g] = currentlyUnacked[g]
    BY <2>0, <2>1, <1>t, Zenon DEF TagType
  <2>5. Made'
    <3>1. \A g \in Channels : nextTag'[g] = nextTag[g] \/ nextTag'[g] > 0
      BY <2>n, <2>3
    <3> QED BY <3>1, <2>n, <2>1, <2>4, <1>t, Zenon DEF TagInv, Made, ClientType
  <2>6. Exact(h)'
    <3>1. Closed(h)' = Closed(h)
      BY <2>1, Zenon DEF Closed
    <3>2. Split(unacked[h], Closed(h), nextTag[h]) /\ currentlyUnacked[h] = Cardinality(unacked[h])
      BY Zenon DEF TagInv, Exact
    <3>3. /\ Split(unacked[h] \cup {u}, Closed(h), nextTag[h] + 1)
          /\ Cardinality(unacked[h] \cup {u}) = Cardinality(unacked[h]) + 1
      <4>1. PICK U, C, n : n \in Nat \ {0} /\ U = unacked[h] /\ C = Closed(h) /\ n = nextTag[h]
        BY <2>n, Zenon
      <4>2. u.tag = n /\ Split(U, C, n)
        BY <4>1, <3>2, <2>2
      <4>3. Split(U \cup {u}, C, n + 1) /\ Cardinality(U \cup {u}) = Cardinality(U) + 1
        BY <4>1, <4>2, Join
      <4> QED BY <4>1, <4>3
    <3> QED BY <3>1, <3>2, <3>3, <2>3, <2>4, Zenon DEF Exact
  <2>7. \A g \in Channels : g # h => Exact(g)'
    BY <2>0, <2>1, <2>3, <2>4, OtherChannels, Zenon
  <2> QED BY <2>3, <2>5, <2>6, <2>7, Zenon DEF TagInv
<1>3. ASSUME NEW c \in Conns, NEW u \in unacked[channelOf[c]], Ack(c, u) PROVE TagInv'
  <2> PICK h \in Channels : h = channelOf[c]
    BY <1>t, Zenon DEF ClientType
  <2> DEFINE s == [channel |-> h, tag |-> u.tag, body |-> u.body, ack |-> TRUE]
  <2>1. /\ UNCHANGED <<channelOf, pc, unackedMade, nextTag, delivered>>
        /\ unacked' = [unacked EXCEPT ![h] = @ \ {u}]
        /\ currentlyUnacked' = [currentlyUnacked EXCEPT ![h] = @ - 1]
        /\ settled' = settled \cup {s}
    BY <1>3, Zenon DEF Ack, client
  <2>2. s.channel = h /\ s.tag = u.tag /\ u \in unacked[h]
    BY Zenon
  <2> HIDE DEF s
  <2>3. /\ unacked'[h] = unacked[h] \ {u} /\ currentlyUnacked'[h] = currentlyUnacked[h] - 1
        /\ \A g \in Channels : g # h => /\ unacked'[g] = unacked[g]
                                        /\ currentlyUnacked'[g] = currentlyUnacked[g]
    BY <2>1, <1>t, Zenon DEF TagType
  <2>4. Made' /\ DeliveredBefore'
    BY <2>1, <2>2, <2>3, Zenon DEF TagInv, Made, DeliveredBefore
  <2>5. Exact(h)'
    <3>1. Closed(h)' = Closed(h) \cup {u.tag}
      BY <2>1, <2>2, ClosedPlus, Zenon
    <3>2. Split(unacked[h], Closed(h), nextTag[h]) /\ currentlyUnacked[h] = Cardinality(unacked[h])
      BY Zenon DEF TagInv, Exact
    <3>3. /\ Split(unacked[h] \ {u}, Closed(h) \cup {u.tag}, nextTag[h])
          /\ Cardinality(unacked[h] \ {u}) = Cardinality(unacked[h]) - 1
      <4>1. PICK U, C, n : U = unacked[h] /\ C = Closed(h) /\ n = nextTag[h]
        BY Zenon
      <4>2. u \in U /\ Split(U, C, n)
        BY <4>1, <3>2, <2>2
      <4>3. Split(U \ {u}, C \cup {u.tag}, n) /\ Cardinality(U \ {u}) = Cardinality(U) - 1
        BY <4>2, Leave, Zenon
      <4> QED BY <4>1, <4>3
    <3> QED BY <3>1, <3>2, <3>3, <2>1, <2>3, Zenon DEF Exact
  <2>6. \A g \in Channels : g # h => Exact(g)'
    BY <2>1, <2>2, <2>3, OtherChannels, Zenon
  <2> QED BY <2>4, <2>5, <2>6, Zenon DEF TagInv
<1>4. ASSUME NEW c \in Conns, NEW u \in unacked[channelOf[c]], Nack(c, u) PROVE TagInv'
  <2> PICK h \in Channels : h = channelOf[c]
    BY <1>t, Zenon DEF ClientType
  <2> DEFINE s == [channel |-> h, tag |-> u.tag, body |-> u.body, ack |-> FALSE]
             w == Unacked(h, u.queue, u.body)
             rest == unacked[h] \ {u}
  <2>1. /\ UNCHANGED <<channelOf, pc, unackedMade, currentlyUnacked>>
        /\ Send(h, u.body, TRUE, consumer[h])
        /\ unacked' = [unacked EXCEPT ![h] = (@ \ {u}) \cup {w}]
        /\ settled' = settled \cup {s}
    BY <1>4, Zenon DEF Nack, client
  <2>2. s.channel = h /\ s.tag = u.tag /\ u \in unacked[h] /\ w.tag = nextTag[h]
    BY Zenon DEF Unacked
  <2> HIDE DEF s, w
  <2>3. /\ DeliveredBefore'
        /\ nextTag'[h] = nextTag[h] + 1 /\ \A g \in Channels : g # h => nextTag'[g] = nextTag[g]
    BY <2>1, SendKeeps, Zenon
  <2>4. unacked'[h] = rest \cup {w} /\ \A g \in Channels : g # h => unacked'[g] = unacked[g]
    BY <2>1, <1>t, Zenon DEF TagType
  <2>5. /\ Split(unacked[h], Closed(h), nextTag[h]) /\ h \in unackedMade
        /\ currentlyUnacked[h] = Cardinality(unacked[h]) /\ currentlyUnacked[h] \in Int
    BY <2>2, <1>t, Zenon DEF TagInv, Exact, Made, TagType
  <2>n. nextTag[h] \in Nat \ {0}
    <3>1. u.tag \in 1 .. nextTag[h] - 1
      BY <2>2, <2>5, Zenon DEF Split, Tags
    <3> QED BY <3>1, <1>t DEF TagType
  <2>6. Made'
    <3>1. \A g \in Channels : nextTag'[g] = nextTag[g] \/ nextTag'[g] > 0
      BY <2>n, <2>3
    <3> QED BY <3>1, <2>5, <2>1, <2>4, <1>t, Zenon DEF TagInv, Made, ClientType
  <2>7. Exact(h)'
    <3>1. Closed(h)' = Closed(h) \cup {u.tag}
      BY <2>1, <2>2, ClosedPlus, Zenon
    <3>2. Split(rest, Closed(h) \cup {u.tag}, nextTag[h]) /\ Cardinality(rest) = Cardinality(unacked[h]) - 1
      <4>1. u \in unacked[h] /\ Split(unacked[h], Closed(h), nextTag[h])
        BY <2>2, <2>5, Zenon
      <4>2. /\ Split(unacked[h] \ {u}, Closed(h) \cup {u.tag}, nextTag[h])
            /\ Cardinality(unacked[h] \ {u}) = Cardinality(unacked[h]) - 1
        <5>1. PICK U, C, n : U = unacked[h] /\ C = Closed(h) /\ n = nextTag[h]
          BY Zenon
        <5>2. u \in U /\ Split(U, C, n)
          BY <4>1, <5>1
        <5>3. Split(U \ {u}, C \cup {u.tag}, n) /\ Cardinality(U \ {u}) = Cardinality(U) - 1
          BY <5>2, Leave, Zenon
        <5> QED BY <5>1, <5>3
      <4> QED BY <4>2, Zenon
    <3> HIDE DEF rest
    <3>3. /\ Split(rest \cup {w}, Closed(h) \cup {u.tag}, nextTag[h] + 1)
          /\ Cardinality(rest \cup {w}) = Cardinality(rest) + 1
      BY <3>2, <2>2, <2>n, Join, Zenon
    <3>4. Cardinality(rest \cup {w}) = currentlyUnacked[h]
      BY <3>2, <3>3, <2>5
    <3> QED BY <3>1, <3>3, <3>4, <2>1, <2>3, <2>4, Zenon DEF Exact
  <2>8. \A g \in Channels : g # h => Exact(g)'
    BY <2>1, <2>2, <2>3, <2>4, OtherChannels, Zenon
  <2> QED BY <2>3, <2>6, <2>7, <2>8, Zenon DEF TagInv
<1>5. ASSUME NEW c \in Conns,
             \/ Handshake(c) \/ Disconnect(c) \/ Qos(c) \/ Publish(c) \/ Register(c)
             \/ \E q \in Queues : QueueDeclare(c, q) \/ BasicConsume(c, q)
             \/ \E m \in Messages : \/ BasicPublish(c, m) \/ HeaderFrame(c, m)
                                    \/ \E n \in 1 .. bodySize[m] : BodyFrame(c, m, n)
      PROVE  TagInv'
  <2>1. /\ UNCHANGED <<channelOf, unacked, currentlyUnacked, nextTag, delivered, settled>>
        /\ unackedMade \subseteq unackedMade'
    BY <1>5, Zenon DEF Handshake, Disconnect, Qos, Publish, Register, QueueDeclare, BasicConsume,
                BasicPublish, HeaderFrame, BodyFrame, FrameSent, client, tags
  <2>2. \A d \in Conns : pc'[d] = "deliver" => pc[d] = "deliver"
    BY <1>5, <1>t, Zenon DEF Handshake, Disconnect, Qos, Publish, Register, QueueDeclare, BasicConsume,
                BasicPublish, HeaderFrame, BodyFrame, JobType
  <2> QED BY <2>1, <2>2, TagsStay, Zenon
<1>6. CASE UNCHANGED vars
  BY <1>6, TagsStay, Zenon DEF vars, client, tags
<1> QED BY <1>1, <1>2, <1>3, <1>4, <1>5, <1>6, Zenon DEF Next

\* For all connections, channels and messages: the counter is exact, a delivery is
\* tracked or settled and never both, and a tag names one delivery of its channel.
THEOREM TagsExact == Spec => []UnackedExact
<1>1. Init => AmqpType /\ TagInv
  <2> SUFFICES ASSUME Init PROVE TagInv
    BY AmqpInit, Zenon
  <2>1. Made /\ DeliveredBefore
    BY AMQPAssumption, Zenon DEF Init, Made, DeliveredBefore
  <2>2. \A h \in Channels : unacked[h] = {} /\ Closed(h) = {} /\ nextTag[h] = 0 /\ currentlyUnacked[h] = 0
    BY Zenon DEF Init, Closed
  <2>3. Split({}, {}, 0) /\ Cardinality({}) = 0
    BY FS_EmptySet DEF Split, Tags
  <2> QED BY <2>1, <2>2, <2>3, Zenon DEF TagInv, Exact
<1>2. AmqpType /\ TagInv /\ [Next]_vars => (AmqpType /\ TagInv)'
  BY AmqpNext, TagNext, Zenon
<1> QED BY <1>1, <1>2, TagInvExact, PTL DEF Spec
=============================================================================
