---------------------------- MODULE KafkaOffsets ----------------------------
(***************************************************************************)
(* The offset manager of the Kafka server (pkg/kafka/offset_manager.go)    *)
(* and the handlers of OffsetCommit and OffsetFetch.                       *)
(*                                                                         *)
(* Offsets are kept under mutex and their metadata under metaMux.  A       *)
(* commit takes the two locks one after the other; CleanupExpiredOffsets   *)
(* holds metaMux and takes mutex to delete a group; Stats holds mutex and  *)
(* takes metaMux.                                                          *)
(***************************************************************************)
EXTENDS Integers

CONSTANTS OffsetGroups, OffsetPartitions, Committers,
          MaxOffset     \* bound: the largest offset committed

Keys == OffsetGroups \X OffsetPartitions
Absent == -1            \* a key the map does not hold; also FetchOffset's value for one

VARIABLES
  offsets,      \* OffsetManager.offsets
  metadata,     \* the Offset of OffsetManagerWithMetadata.metadata
  expired,      \* the keys whose metadata is older than the retention period
  committing,   \* the <<key, offset>> a committer has to store metadata for, or <<>>
  cleanup,      \* CleanupExpiredOffsets: "idle", or the groups it has still to visit
  deleting,     \* the group whose offsets it deletes next, as a set
  stats,        \* Stats: "idle", or "waiting" for metaMux with mutex held
  answer        \* the last answer to OffsetFetch

offsetVars == <<offsets, metadata, expired, committing, cleanup, deleting, stats, answer>>

NewOffsetManager ==
  /\ offsets = [k \in Keys |-> Absent] /\ metadata = [k \in Keys |-> Absent]
  /\ expired = {} /\ committing = [c \in Committers |-> <<>>]
  /\ cleanup = <<>> /\ deleting = {} /\ stats = "idle" /\ answer = Absent

metaMuxFree == cleanup = <<>>
mutexFree == stats = "idle"     \* for writing; Stats keeps it for reading

\* CommitOffset, the first half of CommitOffsetWithMetadata.
CommitOffset(c, k, o) ==
  /\ committing[c] = <<>> /\ mutexFree
  /\ offsets' = [offsets EXCEPT ![k] = o]
  /\ committing' = [committing EXCEPT ![c] = <<k, o>>]
  /\ UNCHANGED <<metadata, expired, cleanup, deleting, stats, answer>>

\* The second half: the metadata, with the time of now.
CommitMetadata(c) ==
  /\ committing[c] # <<>> /\ metaMuxFree
  /\ LET k == committing[c][1] IN
       /\ metadata' = [metadata EXCEPT ![k] = committing[c][2]]
       /\ expired' = expired \ {k}
  /\ committing' = [committing EXCEPT ![c] = <<>>]
  /\ UNCHANGED <<offsets, cleanup, deleting, stats, answer>>

\* The handler commits the partitions of a request one by one.
handleOffsetCommit(c) ==
  (\E k \in Keys, o \in 0 .. MaxOffset : CommitOffset(c, k, o)) \/ CommitMetadata(c)

FetchOffsetMetadata(k) == metadata[k]
FetchAllOffsets(g) == [p \in {q \in OffsetPartitions : offsets[<<g, q>>] # Absent} |-> offsets[<<g, p>>]]
ListGroups == {g \in OffsetGroups : DOMAIN FetchAllOffsets(g) # {}}

\* The handler answers from the metadata, never from offsets.
handleOffsetFetch(k) ==
  /\ metaMuxFree /\ answer' = FetchOffsetMetadata(k)
  /\ UNCHANGED <<offsets, metadata, expired, committing, cleanup, deleting, stats>>

\* A key's metadata becomes older than the retention period.
Age(k) ==
  /\ metadata[k] # Absent /\ k \notin expired
  /\ expired' = expired \cup {k}
  /\ UNCHANGED <<offsets, metadata, committing, cleanup, deleting, stats, answer>>

\* CleanupExpiredOffsets takes metaMux and visits the groups that have metadata.
CleanupBegin ==
  /\ metaMuxFree
  /\ cleanup' = <<{g \in OffsetGroups : \E p \in OffsetPartitions : metadata[<<g, p>>] # Absent}>>
  /\ UNCHANGED <<offsets, metadata, expired, committing, deleting, stats, answer>>

\* One group: its expired metadata goes; the group is deleted next if gone.
CleanGroup(g, gone) ==
  /\ cleanup # <<>> /\ deleting = {} /\ g \in cleanup[1]
  /\ metadata' = [k \in Keys |-> IF k[1] = g /\ k \in expired THEN Absent ELSE metadata[k]]
  /\ expired' = {k \in expired : k[1] # g}
  /\ cleanup' = <<cleanup[1] \ {g}>>
  /\ deleting' = IF gone THEN {g} ELSE {}
  /\ UNCHANGED <<offsets, committing, stats, answer>>

\* Mutant: the group is deleted when some of its metadata expired, not when all did.
CleanupGroupAny(g) == CleanGroup(g, \E p \in OffsetPartitions : <<g, p>> \in expired)

CleanupGroup(g) ==
  CleanGroup(g, \A p \in OffsetPartitions : <<g, p>> \in expired \/ metadata[<<g, p>>] = Absent)

\* DeleteGroup, called with metaMux held; an error (no such group) is ignored.
DeleteGroup(g) ==
  /\ g \in deleting /\ mutexFree
  /\ offsets' = [k \in Keys |-> IF k[1] = g THEN Absent ELSE offsets[k]]
  /\ deleting' = {}
  /\ UNCHANGED <<metadata, expired, committing, cleanup, stats, answer>>

CleanupEnd ==
  /\ cleanup = <<{}>> /\ deleting = {}
  /\ cleanup' = <<>>
  /\ UNCHANGED <<offsets, metadata, expired, committing, deleting, stats, answer>>

StatsLock ==
  /\ stats = "idle" /\ stats' = "waiting"
  /\ UNCHANGED <<offsets, metadata, expired, committing, cleanup, deleting, answer>>
StatsRead ==
  /\ stats = "waiting" /\ metaMuxFree /\ stats' = "idle"
  /\ UNCHANGED <<offsets, metadata, expired, committing, cleanup, deleting, answer>>

OffsetsNext ==
  \/ \E c \in Committers : handleOffsetCommit(c)
  \/ \E k \in Keys : handleOffsetFetch(k) \/ Age(k)
  \/ CleanupBegin \/ CleanupEnd \/ StatsLock \/ StatsRead
  \/ \E g \in OffsetGroups : CleanupGroup(g) \/ DeleteGroup(g)

OffsetsSpec == NewOffsetManager /\ [][OffsetsNext]_offsetVars

-----------------------------------------------------------------------------
(* Properties *)

\* What CleanupExpiredOffsets removes is old: metadata goes only when it has expired,
\* and the offsets of a group go only when no metadata of the group is left, however
\* the commits and the cleanup interleave.
CleanupKeeps == [][
  /\ \A k \in Keys : metadata[k] # Absent /\ metadata'[k] = Absent => k \in expired
  /\ \A g \in ListGroups \ ListGroups' : \A p \in OffsetPartitions : metadata'[<<g, p>>] = Absent]_offsetVars
=============================================================================
