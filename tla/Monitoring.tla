----------------------------- MODULE Monitoring -----------------------------
(***************************************************************************)
(* pkg/monitoring/metrics.go: the MetricsCollector, whose goroutines add   *)
(* to shared counters with atomic operations, the PerformanceProfiler with *)
(* its cached percentiles, and the AdaptiveCompressionDecider.  Rates, and *)
(* the sizes and system metrics that are only passed on, are left out.     *)
(***************************************************************************)
EXTENDS Integers, FiniteSetsExt, SequencesExt

CONSTANTS Latencies,              \* the latencies of messages, 1 .. n
          MetricBuffer,           \* capacity of messageCh
          MaxRecords, MaxStarts,  \* bounds: metrics recorded, calls of Start
          SampleSize, MaxSamples, \* the profiler's samples; bound: samples added
          Percentiles, Readers,   \* callers of GetPercentile
          SmoothingWindow, MaxDecisions   \* bound: decisions

VARIABLES
  mcRunning, mcStopped,   \* running; stopCh is closed
  mcPanic,                \* stopCh was closed twice
  mcCh,                   \* messageCh: metrics [latency, errors]
  mcCollector,            \* per messageCollector goroutine: [pc, metric, read]
  mcStarts, mcRecords,
  mcTaken, mcDropped,     \* metrics a collector took; those messageCh had no room for
  mcProcessed, mcLatency, mcMin, mcMax, mcErrors,
  ppSamples, ppIndex, ppCache,    \* the profiler; ppCache[p] is <<>> or <<value, samples then>>
  ppReading, ppCrashed,   \* a percentile a reader has computed; two writes of the map met
  ppAdded,
  adRecent, adIndex,      \* the decider's ring of decisions
  adAll, adResult         \* every decision so far, and the last result

mcVars == <<mcRunning, mcStopped, mcPanic, mcCh, mcCollector, mcStarts, mcRecords, mcTaken, mcDropped,
            mcProcessed, mcLatency, mcMin, mcMax, mcErrors>>
ppVars == <<ppSamples, ppIndex, ppCache, ppReading, ppCrashed, ppAdded>>
adVars == <<adRecent, adIndex, adAll, adResult>>
mcTotals == <<mcProcessed, mcLatency, mcMin, mcMax, mcErrors>>
mcControl == <<mcRunning, mcStopped, mcPanic, mcStarts>>

Greatest == Max(Latencies) + 1   \* stands for the largest int64
NoMetric == [latency |-> 0, errors |-> 0]

-----------------------------------------------------------------------------
(* MetricsCollector *)

\* minLatency begins as the largest integer, maxLatency as 0.
NewMetricsCollector ==
  /\ mcRunning = FALSE /\ mcStopped = FALSE /\ mcPanic = FALSE /\ mcCh = <<>>
  /\ mcCollector = [g \in 1..MaxStarts |-> [pc |-> "none", metric |-> NoMetric, read |-> 0]]
  /\ mcStarts = 0 /\ mcRecords = 0 /\ mcTaken = <<>> /\ mcDropped = 0
  /\ mcProcessed = 0 /\ mcLatency = 0 /\ mcMin = Greatest /\ mcMax = 0 /\ mcErrors = 0

\* Start, which after a Stop leaves stopCh closed.
StartCollector ==
  /\ ~mcRunning /\ ~mcPanic /\ mcStarts < MaxStarts
  /\ mcRunning' = TRUE /\ mcStarts' = mcStarts + 1
  /\ mcCollector' = [mcCollector EXCEPT ![mcStarts + 1].pc = "select"]
  /\ UNCHANGED <<mcStopped, mcPanic, mcCh, mcRecords, mcTaken, mcDropped, mcTotals>>

StopCollector ==
  /\ mcRunning /\ ~mcPanic /\ mcRunning' = FALSE
  /\ IF mcStopped THEN mcPanic' = TRUE /\ UNCHANGED mcStopped ELSE mcStopped' = TRUE /\ UNCHANGED mcPanic
  /\ UNCHANGED <<mcCh, mcCollector, mcStarts, mcRecords, mcTaken, mcDropped, mcTotals>>

\* A metric that messageCh has no room for counts as an error.
RecordMessage(latency, errors) ==
  /\ mcRunning /\ ~mcPanic /\ mcRecords < MaxRecords /\ mcRecords' = mcRecords + 1
  /\ IF Len(mcCh) < MetricBuffer
     THEN mcCh' = Append(mcCh, [latency |-> latency, errors |-> errors]) /\ UNCHANGED <<mcErrors, mcDropped>>
     ELSE mcErrors' = mcErrors + 1 /\ mcDropped' = mcDropped + 1 /\ UNCHANGED mcCh
  /\ UNCHANGED <<mcControl, mcCollector, mcTaken, mcProcessed, mcLatency, mcMin, mcMax>>

At(g, pc) == mcCollector[g].pc = pc /\ ~mcPanic
Goes(g, pc) == mcCollector' = [mcCollector EXCEPT ![g].pc = pc]
Reads(g, pc, value) == mcCollector' = [mcCollector EXCEPT ![g].pc = pc, ![g].read = value]
Latency(g) == mcCollector[g].metric.latency

\* The select of messageCollector: a metric, or the end when stopCh is closed (the
\* context of Start may end it at any time).
messageCollector(g) ==
  /\ At(g, "select")
  /\ \/ /\ mcCh # <<>> /\ mcCh' = Tail(mcCh) /\ mcTaken' = Append(mcTaken, Head(mcCh))
        /\ mcCollector' = [mcCollector EXCEPT ![g] = [pc |-> "add", metric |-> Head(mcCh), read |-> 0]]
     \/ Goes(g, "none") /\ UNCHANGED <<mcCh, mcTaken>>
  /\ UNCHANGED <<mcControl, mcRecords, mcDropped, mcTotals>>

AddMetric(g) ==
  /\ At(g, "add") /\ Goes(g, "readMin")
  /\ mcProcessed' = mcProcessed + 1 /\ mcLatency' = mcLatency + Latency(g)
  /\ UNCHANGED <<mcControl, mcCh, mcRecords, mcTaken, mcDropped, mcMin, mcMax, mcErrors>>

ReadMin(g) ==
  /\ At(g, "readMin") /\ (IF Latency(g) >= mcMin THEN Goes(g, "readMax") ELSE Reads(g, "swapMin", mcMin))
  /\ UNCHANGED <<mcControl, mcCh, mcRecords, mcTaken, mcDropped, mcTotals>>

\* Mutant: the value is stored without a comparison.
StoreMin(g) ==
  /\ At(g, "swapMin") /\ mcMin' = Latency(g) /\ Goes(g, "readMax")
  /\ UNCHANGED <<mcControl, mcCh, mcRecords, mcTaken, mcDropped, mcProcessed, mcLatency, mcMax, mcErrors>>

SwapMin(g) ==
  /\ At(g, "swapMin")
  /\ IF mcMin = mcCollector[g].read THEN mcMin' = Latency(g) /\ Goes(g, "readMax")
     ELSE Goes(g, "readMin") /\ UNCHANGED mcMin
  /\ UNCHANGED <<mcControl, mcCh, mcRecords, mcTaken, mcDropped, mcProcessed, mcLatency, mcMax, mcErrors>>

ReadMax(g) ==
  /\ At(g, "readMax") /\ (IF Latency(g) <= mcMax THEN Goes(g, "errors") ELSE Reads(g, "swapMax", mcMax))
  /\ UNCHANGED <<mcControl, mcCh, mcRecords, mcTaken, mcDropped, mcTotals>>

SwapMax(g) ==
  /\ At(g, "swapMax")
  /\ IF mcMax = mcCollector[g].read THEN mcMax' = Latency(g) /\ Goes(g, "errors")
     ELSE Goes(g, "readMax") /\ UNCHANGED mcMax
  /\ UNCHANGED <<mcControl, mcCh, mcRecords, mcTaken, mcDropped, mcProcessed, mcLatency, mcMin, mcErrors>>

CountErrors(g) ==
  /\ At(g, "errors") /\ Goes(g, "select") /\ mcErrors' = mcErrors + mcCollector[g].metric.errors
  /\ UNCHANGED <<mcControl, mcCh, mcRecords, mcTaken, mcDropped, mcProcessed, mcLatency, mcMin, mcMax>>

CollectorNext ==
  \/ StartCollector \/ StopCollector \/ \E l \in Latencies, e \in 0..1 : RecordMessage(l, e)
  \/ \E g \in 1..MaxStarts : \/ messageCollector(g) \/ AddMetric(g) \/ ReadMin(g) \/ SwapMin(g)
                             \/ ReadMax(g) \/ SwapMax(g) \/ CountErrors(g)

-----------------------------------------------------------------------------
(* PerformanceProfiler: AddSample and Reset hold its mutex, GetPercentile, which writes the *)
(* cache, holds it for reading                                                            *)

NewPerformanceProfiler ==
  /\ ppSamples = [i \in 1..SampleSize |-> 0] /\ ppIndex = 1 /\ ppAdded = 0
  /\ ppCache = [p \in Percentiles |-> <<>>]
  /\ ppReading = [r \in Readers |-> <<>>] /\ ppCrashed = FALSE

Locked == ~ppCrashed /\ \A r \in Readers : ppReading[r] = <<>>

AddSample(d) ==
  /\ Locked /\ ppAdded < MaxSamples /\ ppAdded' = ppAdded + 1
  /\ ppSamples' = [ppSamples EXCEPT ![ppIndex] = d] /\ ppIndex' = (ppIndex % SampleSize) + 1
  /\ UNCHANGED <<ppCache, ppReading, ppCrashed>>

\* The inner loop's exchange of two neighbours, and the two loops.
Exchange(s, j) == IF s[j] > s[j + 1] THEN [s EXCEPT ![j] = s[j + 1], ![j + 1] = s[j]] ELSE s
Upto(n) == [j \in 1..n |-> j]

\* Mutant: the inner loop ends one pair too early.
BubbleSortShort(s) == FoldLeft(LAMBDA t, i : FoldLeft(Exchange, t, Upto(Len(s) - 1 - i)), s, Upto(Len(s)))

BubbleSort(s) == FoldLeft(LAMBDA t, i : FoldLeft(Exchange, t, Upto(Len(s) - i)), s, Upto(Len(s)))

\* The rank that stands for a percentile, counted from 0.
RankOf(p, n) == IF (p * n) \div 100 >= n THEN n - 1 ELSE (p * n) \div 100

\* GetPercentile answers from the cache if it has the percentile, else computes it and
\* fills it in.
GetPercentile(r, p) ==
  /\ ~ppCrashed /\ ppReading[r] = <<>> /\ ppCache[p] = <<>>
  /\ ppReading' = [ppReading EXCEPT ![r] =
                     <<p, BubbleSort(ppSamples)[RankOf(p, SampleSize) + 1], ppSamples>>]
  /\ UNCHANGED <<ppSamples, ppIndex, ppCache, ppCrashed, ppAdded>>

\* The write of the map ends the process if it meets another reader's use of the map.
CachePercentile(r) ==
  /\ ~ppCrashed /\ ppReading[r] # <<>>
  /\ ppReading' = [ppReading EXCEPT ![r] = <<>>]
  /\ \/ /\ ppCache' = [ppCache EXCEPT ![ppReading[r][1]] = Tail(ppReading[r])] /\ UNCHANGED ppCrashed
     \/ (\E q \in Readers \ {r} : ppReading[q] # <<>>) /\ ppCrashed' = TRUE /\ UNCHANGED ppCache
  /\ UNCHANGED <<ppSamples, ppIndex, ppAdded>>

ResetProfiler ==
  /\ Locked /\ ppSamples' = [i \in 1..SampleSize |-> 0] /\ ppIndex' = 1
  /\ ppCache' = [p \in Percentiles |-> <<>>]
  /\ UNCHANGED <<ppReading, ppCrashed, ppAdded>>

ProfilerNext ==
  \/ \E d \in Latencies : AddSample(d)
  \/ \E r \in Readers : CachePercentile(r) \/ \E p \in Percentiles : GetPercentile(r, p)
  \/ ResetProfiler

-----------------------------------------------------------------------------
(* AdaptiveCompressionDecider *)

NewAdaptiveCompressionDecider ==
  adRecent = [i \in 0..(SmoothingWindow - 1) |-> FALSE] /\ adIndex = 0 /\ adAll = <<>> /\ adResult = FALSE

\* Mutant: the decisions are counted before this one is entered.
ShouldCompressLate(small, loaded) ==
  /\ Len(adAll) < MaxDecisions
  /\ IF small THEN adResult' = FALSE /\ UNCHANGED <<adRecent, adIndex, adAll>>
     ELSE /\ adRecent' = [adRecent EXCEPT ![adIndex] = ~loaded] /\ adAll' = Append(adAll, ~loaded)
          /\ adIndex' = (adIndex + 1) % SmoothingWindow
          /\ adResult' = (Quantify(DOMAIN adRecent, LAMBDA i : adRecent[i]) > SmoothingWindow \div 2)

\* A message below the size threshold leaves the ring alone; otherwise the load decides,
\* and the majority of the ring is the result.
ShouldCompress(small, loaded) ==
  /\ Len(adAll) < MaxDecisions
  /\ IF small THEN adResult' = FALSE /\ UNCHANGED <<adRecent, adIndex, adAll>>
     ELSE /\ adRecent' = [adRecent EXCEPT ![adIndex] = ~loaded] /\ adAll' = Append(adAll, ~loaded)
          /\ adIndex' = (adIndex + 1) % SmoothingWindow
          /\ adResult' = (Quantify(DOMAIN adRecent, LAMBDA i : adRecent'[i]) > SmoothingWindow \div 2)

DeciderNext == \E small, loaded \in BOOLEAN : ShouldCompress(small, loaded)

-----------------------------------------------------------------------------
(* Properties *)

\* When no collector is in the middle of a metric, the counters are exact for the metrics
\* taken, also when the collector of an earlier Start still works beside a new one:
\* number, sum, least and greatest latency, and errors with the dropped metrics among them
\* (processMessageMetric, RecordMessage).
TotalsExact ==
  (\A g \in 1..MaxStarts : mcCollector[g].pc \in {"none", "select"}) =>
    LET latencies == {m.latency : m \in ToSet(mcTaken)} IN
    /\ mcProcessed = Len(mcTaken) /\ mcLatency = FoldLeft(LAMBDA n, m : n + m.latency, 0, mcTaken)
    /\ mcMin = Min(latencies \cup {Greatest}) /\ mcMax = Max(latencies \cup {0})
    /\ mcErrors = mcDropped + FoldLeft(LAMBDA n, m : n + m.errors, 0, mcTaken)

\* A percentile is the sample of its rank among the samples there were when it was
\* computed: at most that many are smaller and more than that many are no greater; and it
\* is not kept over a Reset (GetPercentile, Reset).
PercentileRank ==
  \A p \in Percentiles : ppCache[p] # <<>> =>
    LET v == ppCache[p][1]  s == ppCache[p][2]  rank == RankOf(p, SampleSize) IN
    /\ Quantify(1..SampleSize, LAMBDA i : s[i] < v) <= rank
    /\ Quantify(1..SampleSize, LAMBDA i : s[i] <= v) > rank

\* A compression is chosen only when most of the last SmoothingWindow decisions, the one made
\* by this call included, were for it (ShouldCompress).
DecisionWindow ==
  LET last == SubSeq(adAll, Max({1, Len(adAll) - SmoothingWindow + 1}), Len(adAll))
  IN  adResult => Quantify(DOMAIN last, LAMBDA i : last[i]) > SmoothingWindow \div 2
=============================================================================
