----------------------------- MODULE MCServices -----------------------------
(***************************************************************************)
(* The parts of the server around the queues, the storage and AMQP, for    *)
(* TLC: the Kafka protocol beside its group coordinator, the native        *)
(* protocol, the APIs, the pools and processors, the limits and metrics.   *)
(* They share no state, so a behaviour is about one of them: part says     *)
(* which, and the others stay in their initial states.                     *)
(***************************************************************************)
EXTENDS ApiMessages, KafkaBroker, KafkaOffsets, KafkaTransactions

CONSTANTS CgMembers, MaxGeneration,
          MaxPartitions,    \* the assignors: partitions of a topic
          PoolUsers, MaxObjects, PoolSizes,
          PrCallers, PrWorkers, QueueSize, BatchSize, EnableZeroCopy, EnableBackpressure, MaxBuffered,
          Jobs, WorkerNames, MaxWorkers,
          Clients, MaxConnections, MaxRequests,
          NgMembers, NgParts, MaxGenerations, MaxEnd, NgMaxCalls,
          WsClients, WsBuffer, MaxBroadcasts, WsMaxMessages,
          Requests, Configs,
          UltraThreads, UltraCapacity, MaxUltra, UltraWorkers, WorkerChannel, UltraBatch, ProcMaxRetries,
          Latencies, MetricBuffer, MaxRecords, MaxStarts, SampleSize, MaxSamples, Percentiles, Readers,
          SmoothingWindow, MaxDecisions,
          RlRequests, Rate, Burst, StaleAfter, MaxTime, MaxBuckets

VARIABLES part,
  cgExists, cgMembers, cgState, cgGeneration, cgAssignments, cgSilent, cgInactive, cgOffset, cgKnown,
  cgRebalanced,
  topicParts,           \* the assignors' input: the partitions of the topics "a" and "b"
  mpChan, mpCur, mpSync, mpHeld, mpUses, mpMade, mpResize, mpMonitor, mpGlobal, mpLook, fb,
  prRunning, prClosed, prQueue, prResults, prWorker, prHandler, prCaller, prCrash, bpBuffer, bpAdded, bpStopped,
  rqQueues, rqStats, rqBus, rqScheduled, rqJob, rqListed, rqLoop, rqCancelled, rqLock, rqWorkers,
  nsRunning, nsCancelled, nsLoop, nsCount, nsClient, nsConn, nsAsked, nsStored, nsStop,
  ngGroup, ngClient, ngOld, ngEnd, ngOffsets, ngReset, ngLag, ngCalls,
  wsHub, wsLeft, wsClients, wsSubs, wsTopics, wsSend, wsClosed, wsReader, wsWriter, wsBroadcast, wsCrash,
  wsOverflow, wsCount,
  tpStore, tpCache, tpReq, tpMixed,
  uqActive, uqEnq, uqDeq, uqSlot, uqThread, uqSent, uqGot, uqMixed,
  ubRunning, ubQueue, ubChannel, ubWorker, ubIndex, ubDropped, ubCount, ubCrash,
  pmBatch, pmCall, pmDone, pmFailed, pmCount,
  mcRunning, mcStopped, mcPanic, mcCh, mcCollector, mcStarts, mcRecords, mcTaken, mcDropped,
  mcProcessed, mcLatency, mcMin, mcMax, mcErrors,
  ppSamples, ppIndex, ppCache, ppReading, ppCrashed, ppAdded,
  adRecent, adIndex, adAll, adResult,
  rlAdvanced, rlNow, rlCurrent, rlBucket, rlRequest, rlRemoved, rlStopped, rlPanic

Groups == INSTANCE KafkaConsumerGroups WITH CgPartitions <- <<0, 1, 2>>
Assign == INSTANCE Assignors
Pools == INSTANCE MemoryPools
Processor == INSTANCE MessageProcessor
Rq == INSTANCE RqJobs
Network == INSTANCE NetworkServer
Native == INSTANCE NativeGroups
Hub == INSTANCE WebSocketHub
Topics == INSTANCE ApiTopics
Ultra == INSTANCE UltraPath
Monitor == INSTANCE Monitoring
Limits == INSTANCE RateLimits

cgVars == <<cgExists, cgMembers, cgState, cgGeneration, cgAssignments, cgSilent, cgInactive, cgOffset, cgKnown,
            cgRebalanced>>
poolVars == <<mpChan, mpCur, mpSync, mpHeld, mpUses, mpMade, mpResize, mpMonitor, mpGlobal, mpLook, fb>>
processorVars == <<prRunning, prClosed, prQueue, prResults, prWorker, prHandler, prCaller, prCrash,
                   bpBuffer, bpAdded, bpStopped>>
rqVars == <<rqQueues, rqStats, rqBus, rqScheduled, rqJob, rqListed, rqLoop, rqCancelled, rqLock, rqWorkers>>
networkVars == <<nsRunning, nsCancelled, nsLoop, nsCount, nsClient, nsConn, nsAsked, nsStored, nsStop>>
nativeVars == <<ngGroup, ngClient, ngOld, ngEnd, ngOffsets, ngReset, ngLag, ngCalls>>
hubVars == <<wsHub, wsLeft, wsClients, wsSubs, wsTopics, wsSend, wsClosed, wsReader, wsWriter, wsBroadcast,
             wsCrash, wsOverflow, wsCount>>
topicVars == <<tpStore, tpCache, tpReq, tpMixed>>
ultraQueueVars == <<uqActive, uqEnq, uqDeq, uqSlot, uqThread, uqSent, uqGot, uqMixed>>
ultraBusVars == <<ubRunning, ubQueue, ubChannel, ubWorker, ubIndex, ubDropped, ubCount, ubCrash>>
retryVars == <<pmBatch, pmCall, pmDone, pmFailed, pmCount>>
collectorVars == <<mcRunning, mcStopped, mcPanic, mcCh, mcCollector, mcStarts, mcRecords, mcTaken, mcDropped,
                   mcProcessed, mcLatency, mcMin, mcMax, mcErrors>>
profilerVars == <<ppSamples, ppIndex, ppCache, ppReading, ppCrashed, ppAdded>>
deciderVars == <<adRecent, adIndex, adAll, adResult>>
limitVars == <<rlAdvanced, rlNow, rlCurrent, rlBucket, rlRequest, rlRemoved, rlStopped, rlPanic>>
serviceVars == <<part, brokerVars, offsetVars, txnVars, cgVars, topicParts, amVars, asVars, poolVars, processorVars, rqVars, networkVars, nativeVars, hubVars, topicVars,
                 ultraQueueVars, ultraBusVars, retryVars, collectorVars, profilerVars, deciderVars, limitVars>>

Parts == {"broker", "offsetmanager", "transactions", "consumergroups", "assignors",
          "pool", "global", "fast", "processor", "rq", "network", "groups", "offsets", "hub", "topics", "messages",
          "sockets", "ultraqueue", "ultrabus", "retries", "collector", "profiler", "decider", "limits"}

\* Two producers and a consumer, or a producer and two consumers.
TwoAndOne == {{"p1", "p2", "c1"}, {"p1", "c1", "c2"}}

\* The first message is the largest, so that a fetch may end before it.
Sizes == [m \in 1 .. MaxProduced |-> MaxProduced + 1 - m]

\* 0 .. n-1 as the partition list of a topic, and the next input of the assignors.
Partitions(n) == [i \in 1 .. n |-> i - 1]
Input ==
  \E m, n \in 0 .. MaxPartitions : topicParts' = [a |-> Partitions(m), b |-> Partitions(n)]

ServicesInit ==
  /\ part \in Parts
  /\ BrokerInit /\ NewOffsetManager /\ NewTransactionalProducer
  /\ Groups!NewConsumerGroupCoordinator /\ topicParts = [a |-> <<>>, b |-> <<>>]
  /\ NewApi /\ NewSockets /\ Pools!NewPool /\ Processor!NewMessageProcessor /\ Rq!NewRQAdapter
  /\ Network!NewTCPServer /\ Native!NewNativeGroups /\ Hub!NewWebSocketServer /\ Topics!NewFiberServer
  /\ Ultra!NewUltraHighPerformanceQueue /\ Ultra!NewUltraMessageBus /\ Ultra!NewProcessors
  /\ Monitor!NewMetricsCollector /\ Monitor!NewPerformanceProfiler /\ Monitor!NewAdaptiveCompressionDecider
  /\ Limits!NewRateLimiter
  \* A choice of a part that stays still is fixed.
  /\ part # "fast" => fb.len = 0
  /\ part # "messages" => amBackend = "memory"
  /\ part # "ultraqueue" => uqActive = {"p1", "p2", "c1"}
  /\ part # "limits" => ~rlAdvanced

\* The variables of the parts that stay still.
OthersUnchanged ==
  /\ IF part = "broker" THEN TRUE ELSE UNCHANGED brokerVars
  /\ IF part = "offsetmanager" THEN TRUE ELSE UNCHANGED offsetVars
  /\ IF part = "transactions" THEN TRUE ELSE UNCHANGED txnVars
  /\ IF part = "consumergroups" THEN TRUE ELSE UNCHANGED cgVars
  /\ IF part = "assignors" THEN TRUE ELSE UNCHANGED topicParts
  /\ IF part \in {"pool", "global", "fast"} THEN TRUE ELSE UNCHANGED poolVars
  /\ IF part = "processor" THEN TRUE ELSE UNCHANGED processorVars
  /\ IF part = "rq" THEN TRUE ELSE UNCHANGED rqVars
  /\ IF part = "network" THEN TRUE ELSE UNCHANGED networkVars
  /\ IF part \in {"groups", "offsets"} THEN TRUE ELSE UNCHANGED nativeVars
  /\ IF part = "hub" THEN TRUE ELSE UNCHANGED hubVars
  /\ IF part = "topics" THEN TRUE ELSE UNCHANGED topicVars
  /\ IF part = "messages" THEN TRUE ELSE UNCHANGED amVars
  /\ IF part = "sockets" THEN TRUE ELSE UNCHANGED asVars
  /\ IF part = "ultraqueue" THEN TRUE ELSE UNCHANGED ultraQueueVars
  /\ IF part = "ultrabus" THEN TRUE ELSE UNCHANGED ultraBusVars
  /\ IF part = "retries" THEN TRUE ELSE UNCHANGED retryVars
  /\ IF part = "collector" THEN TRUE ELSE UNCHANGED collectorVars
  /\ IF part = "profiler" THEN TRUE ELSE UNCHANGED profilerVars
  /\ IF part = "decider" THEN TRUE ELSE UNCHANGED deciderVars
  /\ IF part = "limits" THEN TRUE ELSE UNCHANGED limitVars

ServicesNext ==
  /\ \/ part = "broker" /\ BrokerNext
     \/ part = "offsetmanager" /\ OffsetsNext
     \/ part = "transactions" /\ TransactionsNext
     \/ part = "consumergroups" /\ Groups!ConsumerGroupsNext
     \/ part = "assignors" /\ Input
     \/ part = "pool" /\ Pools!PoolNext
     \/ part = "global" /\ Pools!GlobalNext
     \/ part = "fast" /\ Pools!FastNext
     \/ part = "processor" /\ Processor!ProcessorNext
     \/ part = "rq" /\ Rq!RqNext
     \/ part = "network" /\ Network!NetworkNext
     \/ part = "groups" /\ Native!GroupApiNext
     \/ part = "offsets" /\ Native!OffsetApiNext
     \/ part = "hub" /\ Hub!WebSocketNext
     \/ part = "topics" /\ Topics!TopicsNext
     \/ part = "messages" /\ ApiNext
     \/ part = "sockets" /\ SocketsNext
     \/ part = "ultraqueue" /\ Ultra!UltraQueueNext
     \/ part = "ultrabus" /\ Ultra!UltraBusNext
     \/ part = "retries" /\ Ultra!ProcessorsNext
     \/ part = "collector" /\ Monitor!CollectorNext
     \/ part = "profiler" /\ Monitor!ProfilerNext
     \/ part = "decider" /\ Monitor!DeciderNext
     \/ part = "limits" /\ Limits!LimitsNext
  /\ OthersUnchanged
  /\ UNCHANGED part

ServicesSpec == ServicesInit /\ [][ServicesNext]_serviceVars

-----------------------------------------------------------------------------
(* Properties *)

\* A group that is stable after a rebalance has every partition with exactly one of its
\* members (ConsumerGroupCoordinator), and every assignor gives each partition to exactly
\* one member; round robin gives no member two partitions more than another, the range
\* assignors no more than one per topic (the four Assign methods, for up to three members).
AssignmentsCover ==
  /\ Groups!RebalanceCovers
  /\ part = "assignors" =>
    \A k \in 1 .. 3 :
    LET ms == SubSeq(<<"m1", "m2", "m3">>, 1, k)
        names == {ms[i] : i \in 1 .. k}
        wanted == UNION {{t} \X {topicParts[t][i] : i \in 1 .. Len(topicParts[t])} : t \in {"a", "b"}}
        exact(f) == /\ UNION {f[m] : m \in names} = wanted
                    /\ \A m, n \in names : m # n => f[m] \cap f[n] = {}
        even(f, S) == \A m, n \in names : Cardinality(f[m] \cap S) <= Cardinality(f[n] \cap S) + 1
        rr == {Assign!RoundRobinAssign(ms, <<"a", "b">>, topicParts), Assign!RoundRobinPolicy(ms, <<"b", "a">>, topicParts)}
        range == {Assign!RangeAssign(ms, <<"a", "b">>, topicParts), Assign!RangePolicy(ms, <<"b", "a">>, topicParts)}
    IN /\ \A f \in rr : exact(f) /\ even(f, wanted)
       /\ \A f \in range : exact(f) /\ \A t \in {"a", "b"} : even(f, {t} \X Nat)

\* What is pooled or buffered has one owner.  An object of a pool is with one user or in one
\* place of the pool whatever Resize does meanwhile, concurrent callers of GetGlobalPool get
\* one pool, and a FastBuffer stays within its data (ObjectPool, FastBuffer); a caller of
\* ProcessMessage gets the answer to its own message, and a message of the BatchProcessor is
\* in its buffer, in one batch or in one result (MessageProcessor).
BuffersOwned ==
  Pools!ObjectExclusive /\ Pools!SharedPoolBuffer /\ Processor!OwnAnswer /\ Processor!BufferedOnce

\* While producers do not overlap one another, nor consumers, the ultra queue is a FIFO; an
\* accepted message of the ultra bus is in one queue, one worker's channel or a dropped batch;
\* and a message under retry is processed successfully at most once and not forgotten
\* (UltraHighPerformanceQueue, UltraMessageBus, RetryMessageProcessor).
UltraDelivers == Ultra!UltraFifo /\ Ultra!UltraOnePlace /\ Ultra!RetriedOnce

\* What the API keeps in two places agrees.  Of a native group at most one member believes it
\* leads, the first; committed offsets stay within the log (native handlers); the topic
\* cache is that of storage when no request is under way and none overlapped (topic handlers);
\* a message reported as published is stored until somebody acknowledges it, and one that was
\* acknowledged stays away (message handlers).
ApiConsistent == Native!LeaderFirst /\ Native!OffsetsWithinLog /\ Topics!CacheAtRest /\ MessagesApi

\* Connections and workers are accounted for.  There are never more handlers than
\* MaxConnections, and the count is that of the connections listed (TCPServer); the hub's
\* registry, its subscriptions and its channels agree (WebSocketServer); a socket gets its
\* messages in order and once (handleWebSocketConnection); a worker that is not listed has
\* been told to end (RQAdapter).
ConnectionsServed == Network!ConnectionLimit /\ Hub!HubConsistent /\ SocketInOrder /\ Rq!WorkersStopped

\* Counts that goroutines share come out right.  The collector's totals are exact when no
\* metric is being processed, a percentile is the sample of its rank, a compression has the
\* majority of the last decisions (pkg/monitoring); a bucket grants no more than its capacity
\* and its rate allow, and requests that arrive together share it (pkg/auth).
CountsExact ==
  Monitor!TotalsExact /\ Monitor!PercentileRank /\ Monitor!DecisionWindow /\ Limits!RateBounded
=============================================================================
