----------------------------- MODULE MemoryPools -----------------------------
(***************************************************************************)
(* pkg/memory/pool.go: a Pool (a channel of objects before a sync.Pool)    *)
(* with its monitor, the global pools, and the FastBuffer.                 *)
(*                                                                         *)
(* Get, Put and Resize read and write p.objects without a lock: a call     *)
(* may go on with the channel it read after Resize has replaced it.  A     *)
(* sync.Pool may lose its objects at any time.                             *)
(***************************************************************************)
EXTENDS Integers, Sequences, FiniteSets, TLC

CONSTANTS PoolUsers,
          MaxObjects,       \* bound: objects ever made
          PoolSizes         \* bound: the channel has had the capacities 1, 2, .. PoolSizes

VARIABLES
  mpChan,       \* the contents of the channels, one per capacity
  mpCur,        \* the channel p.objects is
  mpSync,       \* the sync.Pool
  mpHeld,       \* per user: the object it has got, or 0
  mpUses,       \* per user: the channel it has read for a call under way, or 0
  mpMade,       \* objects made so far; they are 1 .. mpMade
  mpResize,     \* Resize: "idle", "transfer", "fill" or "send"
  mpMonitor,    \* the monitor: "new", "running", "stopped" or "left" (Close came too early)
  mpGlobal,     \* globalPoolManager: the pools made for one size
  mpLook,       \* per user: GetGlobalPool "idle", "missed" or the pool it returned
  fb            \* a FastBuffer: [len, pos, ok]

mpVars == <<mpChan, mpCur, mpSync, mpHeld, mpUses, mpMade, mpResize, mpMonitor, mpGlobal, mpLook, fb>>
mpRest == <<mpMonitor, mpGlobal, mpLook, fb>>

NewPool ==
  /\ mpChan = [k \in 1 .. PoolSizes |-> IF k = 1 THEN [i \in 1 .. 1 |-> i] ELSE <<>>]
  /\ mpCur = 1 /\ mpSync = {} /\ mpMade = 1
  /\ mpHeld = [u \in PoolUsers |-> 0] /\ mpUses = [u \in PoolUsers |-> 0]
  /\ mpResize = "idle" /\ mpMonitor = "new"
  /\ mpGlobal = <<>> /\ mpLook = [u \in PoolUsers |-> "idle"]
  /\ fb \in [len : {0, 2}, pos : {0}, ok : {TRUE}]

\* Get and Put read p.objects.
UseObjects(u) ==
  /\ mpUses[u] = 0 /\ mpUses' = [mpUses EXCEPT ![u] = mpCur]
  /\ UNCHANGED <<mpChan, mpCur, mpSync, mpHeld, mpMade, mpResize, mpRest>>

\* From the channel, else from the sync.Pool, else a new one.
Get(u) ==
  LET k == mpUses[u] IN
  /\ k # 0 /\ mpHeld[u] = 0
  /\ \/ /\ mpChan[k] # <<>>
        /\ mpHeld' = [mpHeld EXCEPT ![u] = Head(mpChan[k])] /\ mpChan' = [mpChan EXCEPT ![k] = Tail(@)]
        /\ UNCHANGED <<mpSync, mpMade>>
     \/ /\ mpChan[k] = <<>>
        /\ \/ \E o \in mpSync : /\ mpHeld' = [mpHeld EXCEPT ![u] = o] /\ mpSync' = mpSync \ {o}
                                /\ UNCHANGED mpMade
           \/ /\ mpMade < MaxObjects /\ mpMade' = mpMade + 1
              /\ mpHeld' = [mpHeld EXCEPT ![u] = mpMade + 1] /\ UNCHANGED mpSync
        /\ UNCHANGED mpChan
  /\ mpUses' = [mpUses EXCEPT ![u] = 0]
  /\ UNCHANGED <<mpCur, mpResize, mpRest>>

\* Mutant: the object goes to the sync.Pool as well.
PutBoth(u) ==
  LET k == mpUses[u]  o == mpHeld[u] IN
  /\ k # 0 /\ o # 0 /\ mpHeld' = [mpHeld EXCEPT ![u] = 0] /\ mpUses' = [mpUses EXCEPT ![u] = 0]
  /\ mpChan' = [mpChan EXCEPT ![k] = IF Len(@) < k THEN Append(@, o) ELSE @]
  /\ mpSync' = mpSync \cup {o}
  /\ UNCHANGED <<mpCur, mpMade, mpResize, mpRest>>

\* To the channel, or to the sync.Pool when it is full; a buffer of another length is
\* not taken back.
Put(u) ==
  LET k == mpUses[u]  o == mpHeld[u]  room == Len(mpChan[k]) < k IN
  /\ k # 0 /\ o # 0 /\ mpHeld' = [mpHeld EXCEPT ![u] = 0] /\ mpUses' = [mpUses EXCEPT ![u] = 0]
  /\ \/ room /\ mpChan' = [mpChan EXCEPT ![k] = Append(@, o)] /\ UNCHANGED mpSync
     \/ ~room /\ mpSync' = mpSync \cup {o} /\ UNCHANGED mpChan
     \/ UNCHANGED <<mpChan, mpSync>>
  /\ UNCHANGED <<mpCur, mpMade, mpResize, mpRest>>

\* The garbage collector empties the sync.Pool.
Collect ==
  /\ mpSync # {} /\ mpSync' = {}
  /\ UNCHANGED <<mpChan, mpCur, mpHeld, mpUses, mpMade, mpResize, mpRest>>

-----------------------------------------------------------------------------
(* The monitor *)

MonitorStart ==
  /\ mpMonitor \in {"new", "left"} /\ mpMonitor' = "running"
  /\ UNCHANGED <<mpChan, mpCur, mpSync, mpHeld, mpUses, mpMade, mpResize, mpGlobal, mpLook, fb>>

\* Close: the monitor is stopped if it runs by now, and the channel is emptied.
Close ==
  /\ mpMonitor \in {"new", "running"}
  /\ mpMonitor' = IF mpMonitor = "running" THEN "stopped" ELSE "left"
  /\ mpChan' = [mpChan EXCEPT ![mpCur] = <<>>]
  /\ UNCHANGED <<mpCur, mpSync, mpHeld, mpUses, mpMade, mpResize, mpGlobal, mpLook, fb>>

\* checkAndResize finds too many misses; Resize does nothing unless the size grows.
Resize ==
  /\ mpMonitor = "running" /\ mpResize = "idle" /\ mpCur < PoolSizes
  /\ mpCur' = mpCur + 1 /\ mpResize' = "transfer"
  /\ UNCHANGED <<mpChan, mpSync, mpHeld, mpUses, mpMade, mpRest>>

\* One object from the old channel to the new one, or to the sync.Pool.
Transfer ==
  LET old == mpCur - 1 IN
  /\ mpResize = "transfer"
  /\ IF mpChan[old] = <<>> THEN mpResize' = "fill" /\ UNCHANGED <<mpChan, mpSync>>
     ELSE /\ IF Len(mpChan[mpCur]) < mpCur
             THEN /\ mpChan' = [mpChan EXCEPT ![old] = Tail(@), ![mpCur] = Append(@, Head(mpChan[old]))]
                  /\ UNCHANGED mpSync
             ELSE mpChan' = [mpChan EXCEPT ![old] = Tail(@)] /\ mpSync' = mpSync \cup {Head(mpChan[old])}
          /\ UNCHANGED mpResize
  /\ UNCHANGED <<mpCur, mpHeld, mpUses, mpMade, mpRest>>

\* The channel is filled with new objects: the length is tested, then a new object is
\* sent, which waits while the channel is full.
Fill ==
  /\ mpResize = "fill"
  /\ mpResize' = IF Len(mpChan[mpCur]) < mpCur THEN "send" ELSE "idle"
  /\ UNCHANGED <<mpChan, mpCur, mpSync, mpHeld, mpUses, mpMade, mpRest>>

FillSend ==
  /\ mpResize = "send" /\ Len(mpChan[mpCur]) < mpCur /\ mpMade < MaxObjects
  /\ mpMade' = mpMade + 1 /\ mpChan' = [mpChan EXCEPT ![mpCur] = Append(@, mpMade + 1)]
  /\ mpResize' = "fill"
  /\ UNCHANGED <<mpCur, mpSync, mpHeld, mpUses, mpRest>>

-----------------------------------------------------------------------------
(* The global pools: a read lock to look, a write lock to look again and to make one *)

Look(u) ==
  /\ mpLook[u] = "idle"
  /\ mpLook' = [mpLook EXCEPT ![u] = IF mpGlobal = <<>> THEN "missed" ELSE mpGlobal[1]]
  /\ UNCHANGED <<mpChan, mpCur, mpSync, mpHeld, mpUses, mpMade, mpResize, mpMonitor, mpGlobal, fb>>

\* Mutant: no second look.
GetGlobalPoolBlind(u) ==
  /\ mpLook[u] = "missed" /\ mpGlobal' = <<ToString(u)>> /\ mpLook' = [mpLook EXCEPT ![u] = ToString(u)]
  /\ UNCHANGED <<mpChan, mpCur, mpSync, mpHeld, mpUses, mpMade, mpResize, mpMonitor, fb>>

\* The pool is named for its maker; InternTopic keeps its strings in the same way.
GetGlobalPool(u) ==
  /\ mpLook[u] = "missed"
  /\ mpGlobal' = IF mpGlobal = <<>> THEN <<ToString(u)>> ELSE mpGlobal
  /\ mpLook' = [mpLook EXCEPT ![u] = mpGlobal'[1]]
  /\ UNCHANGED <<mpChan, mpCur, mpSync, mpHeld, mpUses, mpMade, mpResize, mpMonitor, fb>>

-----------------------------------------------------------------------------
(* FastBuffer *)

FastRest == UNCHANGED <<mpChan, mpCur, mpSync, mpHeld, mpUses, mpMade, mpResize, mpMonitor, mpGlobal, mpLook>>
Larger(m, n) == IF m < n THEN n ELSE m

FastWrite(n) ==
  /\ fb.ok /\ fb.pos + n <= MaxObjects
  /\ fb' = [fb EXCEPT !.len = IF fb.pos + n > @ THEN Larger(2 * @, fb.pos + n) ELSE @, !.pos = @ + n]
  /\ FastRest

FastWriteString(n) ==
  /\ fb.ok /\ fb.pos + n <= MaxObjects
  /\ fb' = [fb EXCEPT !.len = Larger(@, fb.pos + n), !.pos = @ + n]
  /\ FastRest

\* Mutant: grow is called one byte too late.
FastGrowLate(b) == IF b.pos > b.len THEN 2 * b.len ELSE b.len

\* The length before WriteByte stores its byte.
FastGrow(b) == IF b.pos >= b.len THEN 2 * b.len ELSE b.len

\* An index out of range when the byte has no place.
FastWriteByte ==
  /\ fb.ok /\ fb.pos < MaxObjects
  /\ fb' = IF fb.pos < FastGrow(fb) THEN [fb EXCEPT !.len = FastGrow(fb), !.pos = @ + 1] ELSE [fb EXCEPT !.ok = FALSE]
  /\ FastRest

FastReset == fb.ok /\ fb' = [fb EXCEPT !.pos = 0] /\ FastRest

PoolNext ==
  \/ \E u \in PoolUsers : UseObjects(u) \/ Get(u) \/ Put(u)
  \/ Collect \/ MonitorStart \/ Close \/ Resize \/ Transfer \/ Fill \/ FillSend

GlobalNext == \E u \in PoolUsers : Look(u) \/ GetGlobalPool(u)

FastNext == \/ \E n \in 1 .. 2 : FastWrite(n) \/ FastWriteString(n)
            \/ FastWriteByte \/ FastReset

-----------------------------------------------------------------------------
(* Properties *)

\* An object is in one place at a time, whatever Resize does to p.objects meanwhile: no
\* two users hold it, and none holds one that the pool can give out again (Get, Put,
\* Resize).
ObjectExclusive ==
  LET channels == [k \in 1 .. PoolSizes |-> {mpChan[k][i] : i \in 1 .. Len(mpChan[k])}]
      held == {mpHeld[u] : u \in PoolUsers} \ {0}
  IN /\ \A u, v \in PoolUsers : u # v /\ mpHeld[u] # 0 => mpHeld[u] # mpHeld[v]
     /\ mpSync \cap held = {}
     /\ \A k \in 1 .. PoolSizes :
          /\ channels[k] \cap (held \cup mpSync) = {} /\ Cardinality(channels[k]) = Len(mpChan[k])
          /\ \A j \in 1 .. k - 1 : channels[j] \cap channels[k] = {}

\* Concurrent callers of GetGlobalPool get the same pool, and a FastBuffer that began
\* with a byte never indexes beyond its data (GetGlobalPool, WriteByte).
SharedPoolBuffer ==
  /\ \A u, v \in PoolUsers : {mpLook[u], mpLook[v]} \cap {"idle", "missed"} = {} => mpLook[u] = mpLook[v]
  /\ fb.pos <= fb.len /\ (fb.ok \/ fb.len = 0)
=============================================================================
