----------------------------- MODULE RateLimits -----------------------------
(***************************************************************************)
(* The token buckets of pkg/auth: RateLimiter (ratelimiter.go) and         *)
(* AdvancedRateLimiter (ratelimiter_middleware.go), for one client.  A     *)
(* request looks its bucket up and takes a token from it in two steps;     *)
(* the cleanup goroutine and Reset may remove the bucket between them.     *)
(* Time counts in half seconds.  The response headers are left out.        *)
(***************************************************************************)
EXTENDS Integers, FiniteSetsExt, SequencesExt

CONSTANTS RlRequests,          \* goroutines that serve requests
          Rate, Burst,         \* requestsPerSecond of both; BurstSize of the advanced one
          StaleAfter,          \* the age at which cleanup removes a bucket
          MaxTime, MaxBuckets  \* bounds: half seconds, buckets made

VARIABLES
  rlAdvanced,    \* which of the two limiters this is
  rlNow,
  rlCurrent,     \* the client's entry of the map: a bucket, or 0
  rlBucket,      \* the buckets made: [tokens, last, grants], grants the times of granted requests
  rlRequest,     \* per request: [pc, bucket]
  rlRemoved,     \* how often the entry was removed
  rlStopped, rlPanic

rlVars == <<rlAdvanced, rlNow, rlCurrent, rlBucket, rlRequest, rlRemoved, rlStopped, rlPanic>>

Capacity == IF rlAdvanced THEN Burst ELSE Rate
AtRest == [pc |-> "idle", bucket |-> 0]

\* NewRateLimiter or newAdvancedRateLimiter.
NewRateLimiter ==
  /\ rlAdvanced \in BOOLEAN /\ rlNow = 0 /\ rlCurrent = 0 /\ rlBucket = <<>> /\ rlRemoved = 0
  /\ rlRequest = [r \in RlRequests |-> AtRest] /\ rlStopped = FALSE /\ rlPanic = FALSE

RlTick == rlNow < MaxTime /\ ~rlPanic /\ rlNow' = rlNow + 1
          /\ UNCHANGED <<rlAdvanced, rlCurrent, rlBucket, rlRequest, rlRemoved, rlStopped, rlPanic>>

\* The look up under the read lock.
LookUp(r) ==
  /\ ~rlPanic /\ rlRequest[r].pc = "idle"
  /\ rlRequest' = [rlRequest EXCEPT ![r] = IF rlCurrent # 0 THEN [pc |-> "take", bucket |-> rlCurrent]
                                           ELSE [pc |-> "create", bucket |-> 0]]
  /\ UNCHANGED <<rlAdvanced, rlNow, rlCurrent, rlBucket, rlRemoved, rlStopped, rlPanic>>

\* Mutant: no second look.
BucketUnchecked(r) ==
  /\ ~rlPanic /\ rlRequest[r].pc = "create" /\ Len(rlBucket) < MaxBuckets
  /\ rlBucket' = Append(rlBucket, [tokens |-> Capacity, last |-> rlNow, grants |-> <<>>])
  /\ rlCurrent' = Len(rlBucket) + 1
  /\ rlRequest' = [rlRequest EXCEPT ![r] = [pc |-> "take", bucket |-> rlCurrent']]
  /\ UNCHANGED <<rlAdvanced, rlNow, rlRemoved, rlStopped, rlPanic>>

\* The second look under the write lock, which makes a full bucket if there is still none.
getAdvancedBucket(r) ==
  /\ ~rlPanic /\ rlRequest[r].pc = "create"
  /\ IF rlCurrent # 0 THEN UNCHANGED <<rlCurrent, rlBucket>>
     ELSE /\ Len(rlBucket) < MaxBuckets
          /\ rlBucket' = Append(rlBucket, [tokens |-> Capacity, last |-> rlNow, grants |-> <<>>])
          /\ rlCurrent' = Len(rlBucket) + 1
  /\ rlRequest' = [rlRequest EXCEPT ![r] = [pc |-> "take", bucket |-> rlCurrent']]
  /\ UNCHANGED <<rlAdvanced, rlNow, rlRemoved, rlStopped, rlPanic>>

\* consumeToken counts whole seconds and lets a part of one stand over.
Refilled(b) ==
  LET add == ((rlNow - b.last) \div 2) * Rate
  IN  IF add > 0 THEN [b EXCEPT !.tokens = Min({@ + add, Rate}), !.last = rlNow] ELSE b

\* AdvancedRateLimiter counts whole tokens and always moves lastCheck, so that a part of a
\* token is lost.
RefilledAdvanced(b) ==
  [b EXCEPT !.tokens = Min({@ + (((rlNow - b.last) * Rate) \div 2), Burst}), !.last = rlNow]

Granted(b) == IF b.tokens > 0 THEN [b EXCEPT !.tokens = @ - 1, !.grants = Append(@, rlNow)] ELSE b

\* The rest of RateLimiter.Allow.
consumeToken(r) ==
  /\ ~rlPanic /\ rlRequest[r].pc = "take" /\ ~rlAdvanced
  /\ rlBucket' = [rlBucket EXCEPT ![rlRequest[r].bucket] = Granted(Refilled(@))]
  /\ rlRequest' = [rlRequest EXCEPT ![r] = AtRest]
  /\ UNCHANGED <<rlAdvanced, rlNow, rlCurrent, rlRemoved, rlStopped, rlPanic>>

\* The rest of AdvancedRateLimiter.Allow.
AllowAdvanced(r) ==
  /\ ~rlPanic /\ rlRequest[r].pc = "take" /\ rlAdvanced
  /\ rlBucket' = [rlBucket EXCEPT ![rlRequest[r].bucket] = Granted(RefilledAdvanced(@))]
  /\ rlRequest' = [rlRequest EXCEPT ![r] = AtRest]
  /\ UNCHANGED <<rlAdvanced, rlNow, rlCurrent, rlRemoved, rlStopped, rlPanic>>

\* Remaining answers without a change of the bucket, which its getAdvancedBucket may make.
Remaining(r) ==
  /\ ~rlPanic /\ rlRequest[r].pc = "take" /\ rlAdvanced
  /\ rlRequest' = [rlRequest EXCEPT ![r] = AtRest]
  /\ UNCHANGED <<rlAdvanced, rlNow, rlCurrent, rlBucket, rlRemoved, rlStopped, rlPanic>>

\* cleanup and cleanupStaleBuckets: the entry goes, whoever holds the bucket.
cleanupStaleBuckets ==
  /\ ~rlPanic /\ ~rlStopped /\ rlCurrent # 0 /\ rlNow - rlBucket[rlCurrent].last > StaleAfter
  /\ rlCurrent' = 0 /\ rlRemoved' = rlRemoved + 1
  /\ UNCHANGED <<rlAdvanced, rlNow, rlBucket, rlRequest, rlStopped, rlPanic>>

ResetLimit ==
  /\ ~rlPanic /\ rlAdvanced /\ rlCurrent # 0
  /\ rlCurrent' = 0 /\ rlRemoved' = rlRemoved + 1
  /\ UNCHANGED <<rlAdvanced, rlNow, rlBucket, rlRequest, rlStopped, rlPanic>>

\* Stop ends the cleanup only; a second Stop of the advanced limiter closes a closed channel.
StopLimiter ==
  /\ ~rlPanic /\ rlStopped' = TRUE /\ rlPanic' = (rlAdvanced /\ rlStopped)
  /\ UNCHANGED <<rlAdvanced, rlNow, rlCurrent, rlBucket, rlRequest, rlRemoved>>

LimitsNext ==
  \/ RlTick \/ cleanupStaleBuckets \/ ResetLimit \/ StopLimiter
  \/ \E r \in RlRequests : \/ LookUp(r) \/ getAdvancedBucket(r)
                           \/ consumeToken(r) \/ AllowAdvanced(r) \/ Remaining(r)

-----------------------------------------------------------------------------
(* Properties *)

\* The tokens the rate adds in a span: the simple limiter, whose second may have begun
\* before the span, can add those of one second more.
AddedIn(span) == IF rlAdvanced THEN (span * Rate) \div 2 ELSE ((span \div 2) + 1) * Rate

\* In every span of time a bucket grants at most its capacity and what the rate adds in the
\* span; and requests that arrive together share one bucket, so that a client has more than
\* one only where cleanup or Reset removed the one before (Allow's second look up).
RateBounded ==
  /\ \A b \in DOMAIN rlBucket : \A from, to \in 0..rlNow : from <= to =>
       Quantify(DOMAIN rlBucket[b].grants, LAMBDA i : rlBucket[b].grants[i] \in from..to)
         <= Capacity + AddedIn(to - from)
  /\ Len(rlBucket) <= rlRemoved + 1
=============================================================================
