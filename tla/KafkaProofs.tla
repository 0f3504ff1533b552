---------------------------- MODULE KafkaProofs ----------------------------
(***************************************************************************)
(* Proofs about the Kafka server and the parts beside it: a consumer is    *)
(* sent the records of a topic in order; the group coordinator, the offset *)
(* manager and the transactional producer.                                 *)
(***************************************************************************)
EXTENDS GroupCoordinator, KafkaOffsets, KafkaTransactions, KafkaBroker, WellFoundedInduction, TLAPS

-----------------------------------------------------------------------------
(* The invariant of GroupCoordinator, for any set of consumers and any number
   of joins. *)

LEMMA GroupInit == Init => GroupInv
<1> SUFFICES ASSUME Init PROVE GroupInv
  BY Zenon
<1>1. TypeOK
  BY DEF Init, TypeOK, Unknown
<1>2. Led /\ NotAhead /\ Unsynced /\ Synced
  BY Zenon DEF Init, Led, NotAhead, Unsynced, Synced, Current
<1> QED BY <1>1, <1>2, Zenon DEF GroupInv

\* Members that have left, or whose generation has passed, are not accepted.
LEMMA WithoutKeeps ==
  ASSUME GroupInv, NEW gone \in SUBSET Consumers, Without(gone),
         \A c \in Consumers : known'[c] = known[c] \/ known'[c] = Unknown,
         known' \in [Consumers -> Int]
  PROVE  /\ Led' /\ NotAhead'
         /\ State' # "Stable"
         /\ \A c \in Consumers : ~Current(c)'
<1>1. TypeOK /\ Led /\ NotAhead
  BY Zenon DEF GroupInv
<1>2. CASE Members \ gone = {}
  BY <1>1, <1>2, Zenon DEF Without, Led, NotAhead, Current, TypeOK
<1>3. CASE Members \ gone # {}
  <2>1. Generation' = Generation + 1 /\ State' = "PreparingRebalance" /\ Members' = Members \ gone
    BY <1>3, Zenon DEF Without
  <2>2. Leader' \in Members'
    BY <1>1, <1>3, <2>1, Zenon DEF Without, Led
  <2>3. \A c \in Members' : known'[c] <= Generation
    BY <1>1, <2>1 DEF TypeOK, NotAhead, Unknown
  <2> QED BY <1>1, <1>3, <2>1, <2>2, <2>3 DEF Led, NotAhead, Current, TypeOK
<1> QED BY <1>2, <1>3, Zenon

LEMMA EnrollKeeps ==
  ASSUME GroupInv, NEW c \in Consumers, Enroll(c),
         \/ known' = [known EXCEPT ![c] = Generation']
         \/ known' = [known EXCEPT ![c] = Unknown],
         held' = [held EXCEPT ![c] = {}]
  PROVE  Led' /\ NotAhead' /\ Unsynced' /\ Synced'
<1>1. TypeOK /\ Led /\ NotAhead /\ Unsynced
  BY Zenon DEF GroupInv
<1>2. /\ State' = "AwaitingSync" /\ Members' = Members \cup {c}
      /\ Metadata' = [Metadata EXCEPT ![c] = {}]
      /\ Generation' \in Nat /\ Generation' >= Generation
      /\ State = "Stable" => Generation' = Generation + 1
      /\ State # "Stable" => Generation' = Generation
  BY <1>1 DEF Enroll, TypeOK
<1>3. Leader' \in Members'
  BY <1>1, <1>2, Zenon DEF Enroll, Led
<1>4. known'[c] <= Generation' /\ \A d \in Members : d # c => known'[d] = known[d]
  BY <1>1, <1>2 DEF TypeOK, Unknown
<1>5. NotAhead'
  BY <1>1, <1>2, <1>4 DEF TypeOK, NotAhead
<1>6. Unsynced'
  <2> SUFFICES ASSUME NEW d \in Consumers, Current(d)' PROVE held'[d] = {} /\ Metadata'[d] = {}
    BY Zenon DEF Unsynced
  <2>1. CASE d = c
    BY <1>1, <1>2, <2>1, Zenon DEF TypeOK
  <2>2. CASE d # c
    <3>1. d \in Members /\ known[d] = Generation'
      BY <1>2, <1>4, <2>2, Zenon DEF Current
    <3>2. State # "Stable" /\ Current(d)
      BY <1>1, <1>2, <3>1 DEF NotAhead, TypeOK, Current
    <3>3. held[d] = {} /\ Metadata[d] = {}
      BY <1>1, <3>2, Zenon DEF Unsynced
    <3> QED BY <1>1, <1>2, <2>2, <3>3, Zenon DEF TypeOK
  <2> QED BY <2>1, <2>2, Zenon
<1> QED BY <1>2, <1>3, <1>5, <1>6, Zenon DEF Led, Synced

LEMMA TypeNext == TypeOK /\ Led /\ [Next]_vars => TypeOK'
<1> SUFFICES ASSUME TypeOK, Led, [Next]_vars PROVE TypeOK'
  BY Zenon
<1>0. Unknown \in Int
  BY DEF Unknown
<1>1. ASSUME NEW c \in Consumers, JoinGroup(c) PROVE TypeOK'
  BY <1>1 DEF JoinGroup, Enroll, TypeOK
<1>2. ASSUME NEW c \in Consumers, JoinGroupLost(c) PROVE TypeOK'
  BY <1>0, <1>2 DEF JoinGroupLost, Enroll, Forget, TypeOK
<1>3. ASSUME NEW c \in Consumers, SyncGroup(c) PROVE TypeOK'
  BY <1>3 DEF SyncGroup, TypeOK
<1>4. ASSUME NEW c \in Consumers, Heartbeat(c) PROVE TypeOK'
  BY <1>0, <1>4 DEF Heartbeat, Forget, consumer, TypeOK
<1>5. ASSUME NEW c \in Consumers, LeaveGroup(c) PROVE TypeOK'
  BY <1>0, <1>5 DEF LeaveGroup, Without, Forget, TypeOK, Led
<1>6. ASSUME NEW c \in Consumers, Lapse(c) \/ Crash(c) PROVE TypeOK'
  BY <1>0, <1>6 DEF Lapse, Crash, Forget, group, consumer, TypeOK
<1>7. CASE CheckHeartbeats
  BY <1>7 DEF CheckHeartbeats, Without, consumer, TypeOK, Led
<1>8. CASE UNCHANGED vars
  BY <1>8, Zenon DEF vars, group, consumer, TypeOK
<1> QED BY <1>1, <1>2, <1>3, <1>4, <1>5, <1>6, <1>7, <1>8, Zenon DEF Next

\* A leader's SyncGroup gives every accepted consumer the leader's assignment or
\* leaves it without one.
LEMMA SyncGroupKeeps ==
  ASSUME GroupInv, NEW c \in Consumers, SyncGroup(c)
  PROVE  Led' /\ NotAhead' /\ Unsynced' /\ Synced'
<1>1. TypeOK /\ Led /\ NotAhead /\ Unsynced /\ Synced
  BY Zenon DEF GroupInv
<1>2. /\ UNCHANGED <<Generation, Leader, Members, known>>
      /\ \A d \in Consumers : Current(d)' = Current(d)
      /\ list' = [list EXCEPT ![c] = {}]
  BY Zenon DEF SyncGroup, Current
<1>3. NotAhead'
  BY <1>1, <1>2, Zenon DEF NotAhead
<1>4. CASE Accepted(c) /\ c = Leader /\ list[c] # {}
  <2>1. /\ State' = "Stable" /\ held' = [held EXCEPT ![c] = Metadata'[c]]
        /\ Metadata' = [m \in Consumers |->
                          IF m \in list[c] \cap Members THEN list[c] ELSE Metadata[m]]
    BY <1>4, Zenon DEF SyncGroup
  <2>2. State # "Stable"
    BY <1>1, <1>4, Zenon DEF Synced, Accepted, Current
  <2>3. \A d \in Consumers : Current(d) =>
          held'[d] \in {{}, list[c]} /\ Metadata'[d] \in {{}, list[c]}
    BY <1>1, <2>1, <2>2, Zenon DEF Unsynced, TypeOK
  <2>4. list'[Leader] = {}
    BY <1>1, <1>2, <1>4, Zenon DEF TypeOK
  <2>5. Synced'
    BY <1>2, <2>3, <2>4, Zenon DEF Synced
  <2>6. Members # {}
    BY <1>4, Zenon DEF Accepted
  <2> QED BY <1>1, <1>2, <1>3, <2>1, <2>5, <2>6, Zenon DEF Led, Unsynced
<1>5. CASE Accepted(c) /\ ~(c = Leader /\ list[c] # {})
  <2>1. UNCHANGED <<Metadata, State>> /\ held' = [held EXCEPT ![c] = Metadata[c]] /\ Current(c)
    BY <1>5, Zenon DEF SyncGroup, Accepted, Current
  <2>2. \A d \in Consumers : held'[d] = IF d = c THEN Metadata[c] ELSE held[d]
    BY <1>1, <2>1, Zenon DEF TypeOK
  <2>3. Unsynced'
    BY <1>1, <1>2, <2>1, <2>2, Zenon DEF Unsynced
  <2>4. Synced'
    <3> SUFFICES ASSUME State = "Stable"
        PROVE  /\ Current(Leader)' => list'[Leader] = {}
               /\ \A a, b \in Consumers : Current(a) /\ Current(b) =>
                    \A x \in {held'[a], Metadata[a]}, y \in {held'[b], Metadata[b]} :
                      x # {} /\ y # {} => x = y
      BY <1>2, <2>1 DEF Synced
    <3>1. Current(Leader)' => list'[Leader] = {}
      BY <1>1, <1>2, Zenon DEF Synced, Current, TypeOK
    <3>2. \A a \in Consumers : Current(a) => held'[a] \in {held[a], Metadata[a]}
      BY <2>2, Zenon
    <3>3. ASSUME NEW a \in Consumers, NEW b \in Consumers, Current(a), Current(b),
                 NEW x \in {held'[a], Metadata[a]}, NEW y \in {held'[b], Metadata[b]},
                 x # {}, y # {}
          PROVE  x = y
      <4>1. x \in {held[a], Metadata[a]} /\ y \in {held[b], Metadata[b]}
        BY <3>2, <3>3, Zenon
      <4> QED BY <1>1, <3>3, <4>1, Zenon DEF Synced
    <3> QED BY <3>1, <3>3, Zenon
  <2> QED BY <1>1, <1>2, <1>3, <2>1, <2>3, <2>4, Zenon DEF Led
<1>6. CASE ~Accepted(c)
  <2>1. UNCHANGED <<Metadata, State, held>>
    BY <1>6, Zenon DEF SyncGroup, Accepted
  <2>2. Current(Leader)' => Current(Leader) /\ (list'[Leader] = list[Leader] \/ list'[Leader] = {})
    BY <1>1, <1>2, Zenon DEF Current, TypeOK
  <2>3. Unsynced' /\ Synced'
    BY <1>1, <1>2, <2>1, <2>2 DEF Unsynced, Synced
  <2> QED BY <1>1, <1>2, <1>3, <2>1, <2>3, Zenon DEF Led
<1> QED BY <1>4, <1>5, <1>6, Zenon

\* Steps that leave the group alone and let at most one consumer forget.
LEMMA QuietKeeps ==
  ASSUME GroupInv, UNCHANGED <<State, Generation, Leader, Members, Metadata>>,
         \/ UNCHANGED <<known, list, held>>
         \/ \E c \in Consumers : Forget(c)
  PROVE  Led' /\ NotAhead' /\ Unsynced' /\ Synced'
<1>1. TypeOK /\ Led /\ NotAhead /\ Unsynced /\ Synced
  BY Zenon DEF GroupInv
<1>2. \A d \in Consumers :
        \/ known'[d] = known[d] /\ held'[d] = held[d] /\ list'[d] = list[d]
        \/ known'[d] = Unknown
  BY <1>1, Zenon DEF Forget, TypeOK
<1>3. \A d \in Consumers : Current(d)' => Current(d) /\ held'[d] = held[d] /\ list'[d] = list[d]
  BY <1>1, <1>2 DEF Current, TypeOK, Unknown
<1>4. NotAhead'
  BY <1>1, <1>2 DEF NotAhead, TypeOK, Unknown
<1>5. Unsynced'
  BY <1>1, <1>3, Zenon DEF Unsynced
<1>6. Synced'
  <2>1. Current(Leader)' => Leader \in Consumers
    BY <1>1, Zenon DEF Current, TypeOK
  <2> QED BY <1>1, <1>3, <2>1 DEF Synced
<1> QED BY <1>1, <1>4, <1>5, <1>6, Zenon DEF Led

LEMMA GroupNext == GroupInv /\ [Next]_vars => GroupInv'
<1> SUFFICES ASSUME GroupInv, [Next]_vars PROVE GroupInv'
  BY Zenon
<1>0. TypeOK'
  BY TypeNext, Zenon DEF GroupInv
<1> SUFFICES Led' /\ NotAhead' /\ Unsynced' /\ Synced'
  BY <1>0, Zenon DEF GroupInv
<1>1. ASSUME NEW c \in Consumers, JoinGroup(c) \/ JoinGroupLost(c)
      PROVE  Led' /\ NotAhead' /\ Unsynced' /\ Synced'
  BY <1>1, EnrollKeeps, Zenon DEF JoinGroup, JoinGroupLost, Forget
<1>2. ASSUME NEW c \in Consumers, SyncGroup(c)
      PROVE  Led' /\ NotAhead' /\ Unsynced' /\ Synced'
  BY <1>2, SyncGroupKeeps, Zenon
<1>3. ASSUME NEW c \in Consumers, Heartbeat(c) \/ Lapse(c) \/ Crash(c)
      PROVE  Led' /\ NotAhead' /\ Unsynced' /\ Synced'
  BY <1>3, QuietKeeps, Zenon DEF Heartbeat, Lapse, Crash, group, consumer
<1>4. ASSUME NEW c \in Consumers, LeaveGroup(c)
      PROVE  Led' /\ NotAhead' /\ Unsynced' /\ Synced'
  <2>1. \A d \in Consumers : known'[d] = known[d] \/ known'[d] = Unknown
    BY <1>4, Zenon DEF LeaveGroup, Forget, GroupInv, TypeOK
  <2>2. known' \in [Consumers -> Int] /\ {c} \in SUBSET Consumers
    BY <1>0, Zenon DEF TypeOK
  <2>3. Led' /\ NotAhead' /\ State' # "Stable" /\ \A d \in Consumers : ~Current(d)'
    BY <1>4, <2>1, <2>2, WithoutKeeps, Zenon DEF LeaveGroup
  <2> QED BY <2>3, Zenon DEF Unsynced, Synced
<1>5. CASE CheckHeartbeats
  <2>1. \A d \in Consumers : known'[d] = known[d] \/ known'[d] = Unknown
    BY <1>5, Zenon DEF CheckHeartbeats, consumer
  <2>2. known' \in [Consumers -> Int] /\ Members \ fresh \in SUBSET Consumers
    BY <1>0, Zenon DEF TypeOK, GroupInv
  <2>3. Led' /\ NotAhead' /\ State' # "Stable" /\ \A d \in Consumers : ~Current(d)'
    BY <1>5, <2>1, <2>2, WithoutKeeps, Zenon DEF CheckHeartbeats
  <2> QED BY <2>3, Zenon DEF Unsynced, Synced
<1>6. CASE UNCHANGED vars
  BY <1>6, QuietKeeps, Zenon DEF vars, group, consumer
<1> QED BY <1>1, <1>2, <1>3, <1>4, <1>5, <1>6, Zenon DEF Next

-----------------------------------------------------------------------------
(* The theorems *)

\* Whatever the consumers do, the group has a leader among its members unless
\* it is empty, and the consumers it accepts agree on one assignment.
THEOREM GroupCorrect == Spec => []GroupInv
  BY GroupInit, GroupNext, PTL DEF Spec

\* No two consumers the coordinator accepts own the same partition.
THEOREM DisjointOwners == Spec => []OwnersDisjoint
<1>1. GroupInv => OwnersDisjoint
  BY Zenon DEF GroupInv, Unsynced, Synced, OwnersDisjoint
<1> QED BY <1>1, GroupCorrect, PTL

\* A change of the members of a stable group shuts out everyone who was a member
\* before it.
THEOREM MembershipFences == Spec => ChangeFences
<1>1. GroupInv /\ [Next]_vars =>
        [State = "Stable" /\ Members' # Members =>
           \A c \in Members \cap Members' : known'[c] # Generation']_vars
  <2> SUFFICES ASSUME GroupInv, Next, State = "Stable", Members' # Members,
                      NEW d \in Members \cap Members'
               PROVE  known'[d] # Generation'
    BY Zenon
  <2>0. TypeOK /\ NotAhead
    BY Zenon DEF GroupInv
  <2>1. ASSUME NEW c \in Consumers, JoinGroup(c) \/ JoinGroupLost(c) PROVE known'[d] # Generation'
    <3>1. Generation' = Generation + 1 /\ d # c
      BY <2>1, Zenon DEF JoinGroup, JoinGroupLost, Enroll
    <3>2. known'[d] = known[d]
      BY <2>0, <2>1, <3>1, Zenon DEF JoinGroup, JoinGroupLost, Forget, TypeOK
    <3> QED BY <2>0, <3>1, <3>2 DEF NotAhead, TypeOK
  <2>2. ASSUME NEW c \in Consumers, LeaveGroup(c) PROVE known'[d] # Generation'
    <3>1. Generation' = Generation + 1 /\ d # c
      BY <2>2, Zenon DEF LeaveGroup, Without
    <3>2. known'[d] = known[d]
      BY <2>0, <2>2, <3>1, Zenon DEF LeaveGroup, Forget, TypeOK
    <3> QED BY <2>0, <3>1, <3>2 DEF NotAhead, TypeOK
  <2>3. CASE CheckHeartbeats
    <3>1. Generation' = Generation + 1 /\ known' = known
      BY <2>3, Zenon DEF CheckHeartbeats, Without, consumer
    <3> QED BY <2>0, <3>1 DEF NotAhead, TypeOK
  <2>4. ASSUME NEW c \in Consumers, SyncGroup(c) \/ Heartbeat(c) \/ Lapse(c) \/ Crash(c)
        PROVE  FALSE
    BY <2>4, Zenon DEF SyncGroup, Heartbeat, Lapse, Crash, group
  <2> QED BY <2>1, <2>2, <2>3, <2>4, Zenon DEF Next
<1> QED BY <1>1, GroupCorrect, PTL DEF Spec, ChangeFences


-----------------------------------------------------------------------------
(* The offset manager.  CleanupKeeps needs that what a commit has still to store is
   an offset, and that a group about to be deleted has no metadata left: metaMux
   keeps the commits out until the group is gone. *)

OffsetType ==
  /\ offsets \in [Keys -> Int] /\ metadata \in [Keys -> Int]
  /\ committing \in [Committers -> {<<>>} \cup (Keys \X Nat)]
DeletedBare ==
  deleting # {} => cleanup # <<>> /\ \A g \in deleting, p \in OffsetPartitions : metadata[<<g, p>>] = Absent

LEMMA OffsetNext ==
  ASSUME OffsetType, DeletedBare, [OffsetsNext]_offsetVars
  PROVE  OffsetType' /\ DeletedBare'
<1>1. ASSUME NEW c \in Committers, NEW k \in Keys, NEW o \in 0 .. MaxOffset, CommitOffset(c, k, o)
      PROVE  OffsetType' /\ DeletedBare'
  <2>1. <<k, o>> \in Keys \X Nat
    OBVIOUS
  <2>2. OffsetType'
    BY <1>1, <2>1 DEF CommitOffset, OffsetType
  <2> QED BY <1>1, <2>2, Zenon DEF CommitOffset, DeletedBare
<1>2. ASSUME NEW c \in Committers, CommitMetadata(c) PROVE OffsetType' /\ DeletedBare'
  <2>1. committing[c] \in Keys \X Nat
    BY <1>2, Zenon DEF CommitMetadata, OffsetType
  <2>2. OffsetType'
    BY <1>2, <2>1 DEF CommitMetadata, OffsetType
  <2> QED BY <1>2, <2>2, Zenon DEF CommitMetadata, metaMuxFree, DeletedBare
<1>3. ASSUME NEW g \in OffsetGroups, CleanupGroup(g) PROVE OffsetType' /\ DeletedBare'
  <2>1. OffsetType'
    BY <1>3 DEF CleanupGroup, CleanGroup, OffsetType, Absent
  <2>2. ASSUME NEW f \in deleting', NEW p \in OffsetPartitions PROVE metadata'[<<f, p>>] = Absent
    <3>1. <<g, p>> \in Keys
      BY Zenon DEF Keys
    <3>2. f = g /\ (<<g, p>> \in expired \/ metadata[<<g, p>>] = Absent)
      BY <1>3, <2>2, Zenon DEF CleanupGroup, CleanGroup
    <3>3. metadata' = [k \in Keys |-> IF k[1] = g /\ k \in expired THEN Absent ELSE metadata[k]]
      BY <1>3, Zenon DEF CleanupGroup, CleanGroup
    <3> QED BY <3>1, <3>2, <3>3, Zenon
  <2>3. cleanup' # <<>>
    BY <1>3, Zenon DEF CleanupGroup, CleanGroup
  <2> QED BY <2>1, <2>2, <2>3, Zenon DEF DeletedBare
<1>4. ASSUME NEW g \in OffsetGroups, DeleteGroup(g) PROVE OffsetType' /\ DeletedBare'
  BY <1>4 DEF DeleteGroup, OffsetType, DeletedBare, Absent
<1>5. ASSUME NEW k \in Keys, handleOffsetFetch(k) \/ Age(k) PROVE OffsetType' /\ DeletedBare'
  BY <1>5, Zenon DEF handleOffsetFetch, Age, OffsetType, DeletedBare
<1>6. CASE CleanupBegin \/ CleanupEnd \/ StatsLock \/ StatsRead
  BY <1>6, Zenon DEF CleanupBegin, CleanupEnd, StatsLock, StatsRead, metaMuxFree, OffsetType, DeletedBare
<1>7. CASE UNCHANGED offsetVars
  BY <1>7, Zenon DEF offsetVars, OffsetType, DeletedBare
<1> QED BY <1>1, <1>2, <1>3, <1>4, <1>5, <1>6, <1>7, Zenon DEF OffsetsNext, handleOffsetCommit

\* Metadata is lost only to an expiry.
LEMMA MetadataKept ==
  ASSUME OffsetType, [OffsetsNext]_offsetVars, NEW k \in Keys, metadata[k] # Absent, metadata'[k] = Absent
  PROVE  k \in expired
<1>1. ASSUME NEW c \in Committers, CommitMetadata(c) PROVE FALSE
  <2>1. committing[c] \in Keys \X Nat /\ metadata' = [metadata EXCEPT ![committing[c][1]] = committing[c][2]]
    BY <1>1, Zenon DEF CommitMetadata, OffsetType
  <2> QED BY <2>1 DEF OffsetType, Absent
<1>2. ASSUME NEW g \in OffsetGroups, CleanupGroup(g) PROVE k \in expired
  BY <1>2, Zenon DEF CleanupGroup, CleanGroup
<1>3. CASE UNCHANGED metadata
  BY <1>3, Zenon
<1> QED BY <1>1, <1>2, <1>3, Zenon DEF OffsetsNext, handleOffsetCommit, CommitOffset, handleOffsetFetch, Age, CleanupBegin,
           CleanupEnd, StatsLock, StatsRead, DeleteGroup, offsetVars

\* A group that is listed no more was deleted, and had no metadata then.
LEMMA GroupKept ==
  ASSUME OffsetType, DeletedBare, [OffsetsNext]_offsetVars, NEW g \in ListGroups \ ListGroups',
         NEW p \in OffsetPartitions
  PROVE  metadata'[<<g, p>>] = Absent
<1>0. g \in OffsetGroups
  BY Zenon DEF ListGroups
<1>1. PICK q \in OffsetPartitions : offsets[<<g, q>>] # Absent /\ offsets'[<<g, q>>] = Absent
  <2>1. PICK q \in OffsetPartitions : offsets[<<g, q>>] # Absent
    BY Zenon DEF ListGroups, FetchAllOffsets
  <2>2. \A r \in OffsetPartitions : offsets'[<<g, r>>] = Absent
    BY <1>0, Zenon DEF ListGroups, FetchAllOffsets
  <2> QED BY <2>1, <2>2, Zenon
<1>2. <<g, q>> \in Keys
  BY <1>0, Zenon DEF Keys
<1>3. ASSUME NEW c \in Committers, NEW k \in Keys, NEW o \in 0 .. MaxOffset, CommitOffset(c, k, o)
      PROVE  FALSE
  BY <1>1, <1>2, <1>3 DEF CommitOffset, OffsetType, Absent
<1>4. ASSUME NEW h \in OffsetGroups, DeleteGroup(h) PROVE metadata'[<<g, p>>] = Absent
  <2>1. h = g
    BY <1>1, <1>2, <1>4, Zenon DEF DeleteGroup
  <2> QED BY <2>1, <1>4, Zenon DEF DeleteGroup, DeletedBare
<1>5. CASE UNCHANGED offsets
  BY <1>1, <1>5, Zenon
<1> QED BY <1>3, <1>4, <1>5, Zenon DEF OffsetsNext, handleOffsetCommit, CommitMetadata, handleOffsetFetch, Age,
           CleanupBegin, CleanupEnd, StatsLock, StatsRead, CleanupGroup, CleanGroup, offsetVars

\* For all groups, partitions and committers: the cleanup removes only metadata that has
\* expired, and the offsets only of groups without metadata.
THEOREM ExpiredOnly == OffsetsSpec => CleanupKeeps
<1>1. NewOffsetManager => OffsetType /\ DeletedBare
  BY DEF NewOffsetManager, OffsetType, DeletedBare, Absent
<1>2. OffsetType /\ DeletedBare /\ [OffsetsNext]_offsetVars => (OffsetType /\ DeletedBare)'
  BY OffsetNext, Zenon
<1>3. OffsetType /\ DeletedBare /\ [OffsetsNext]_offsetVars =>
        [/\ \A k \in Keys : metadata[k] # Absent /\ metadata'[k] = Absent => k \in expired
         /\ \A g \in ListGroups \ ListGroups' : \A p \in OffsetPartitions : metadata'[<<g, p>>] = Absent]_offsetVars
  BY MetadataKept, GroupKept, Zenon
<1> QED BY <1>1, <1>2, <1>3, PTL DEF OffsetsSpec, CleanupKeeps


-----------------------------------------------------------------------------
(* The transactional producer.  TransactionExact is inductive together with the
   types of the batches and of what the coordinator keeps. *)

Batch == [first : Nat, last : Nat, messages : Seq(Nat)]
TxnState == {"Ongoing", "CompleteCommit", "CompleteAbort"}
Transaction == [state : TxnState, epoch : Nat, parts : SUBSET TxnPartitions]
TxnType ==
  /\ epoch \in Nat /\ (txn # <<>> => txn[1] \in Transaction)
  /\ sending \in [Senders -> TxnPartitions \cup {"none"}] /\ acked \subseteq TxnPartitions
  /\ sequenceNumbers \in [TxnPartitions -> Nat]
  /\ DOMAIN batches = TxnPartitions
  /\ \A p \in TxnPartitions : batches[p] # <<>> => batches[p][1] \in Batch

\* The numbers from f on, n of them.
Numbers(f, n) == [i \in 1 .. n |-> f + i - 1]
Numbered(b, next) ==
  b.messages = Numbers(b.first, Len(b.messages)) /\ b.last = b.first + Len(b.messages) - 1 /\ next = b.last + 1
Acked == tmState = "Ongoing" /\ txn # <<>> => acked \subseteq txn[1].parts

LEMMA ExactParts ==
  TransactionExact <=>
    /\ \A p \in TxnPartitions : batches[p] # <<>> => Numbered(batches[p][1], sequenceNumbers[p])
    /\ Acked
  BY Zenon DEF TransactionExact, Numbered, Numbers, Acked

LEMMA AppendFacts ==
  ASSUME NEW S, NEW s \in Seq(S), NEW x \in S
  PROVE  /\ Append(s, x) \in Seq(S) /\ Len(Append(s, x)) = Len(s) + 1
         /\ Append(s, x)[Len(s) + 1] = x /\ \A i \in 1 .. Len(s) : Append(s, x)[i] = s[i]
  OBVIOUS

LEMMA NumbersGrow ==
  ASSUME NEW f \in Nat, NEW s \in Seq(Nat), s = Numbers(f, Len(s))
  PROVE  Append(s, f + Len(s)) = Numbers(f, Len(s) + 1)
<1>1. PICK n \in Nat : n = Len(s)
  OBVIOUS
<1>2. PICK x \in Nat : x = f + n
  OBVIOUS
<1>3. \A i \in 1 .. n : s[i] = f + i - 1
  BY <1>1, Zenon DEF Numbers
<1>a. /\ Append(s, x) \in Seq(Nat) /\ Len(Append(s, x)) = Len(s) + 1
      /\ Append(s, x)[Len(s) + 1] = x /\ \A i \in 1 .. Len(s) : Append(s, x)[i] = s[i]
  BY AppendFacts
<1>4. PICK a \in Seq(Nat) :
        a = Append(s, x) /\ Len(a) = n + 1 /\ a[n + 1] = x /\ \A i \in 1 .. n : a[i] = s[i]
  BY <1>a, <1>1, Zenon
<1>5. \A i \in 1 .. n + 1 : a[i] = f + i - 1
  BY <1>2, <1>3, <1>4, SMTT(20)
<1>6. a = [i \in 1 .. n + 1 |-> a[i]]
  <2>1. a = [i \in 1 .. Len(a) |-> a[i]]
    OBVIOUS
  <2> QED BY <2>1, <1>4, Zenon
<1> QED BY <1>1, <1>2, <1>4, <1>5, <1>6, Zenon DEF Numbers

LEMMA AppendKeeps ==
  ASSUME TxnType, TransactionExact, NEW s \in Senders, NEW p \in TxnPartitions, SendAppend(s, p)
  PROVE  TxnType' /\ TransactionExact'
<1> DEFINE n == sequenceNumbers[p]
           b == IF batches[p] = <<>> THEN [first |-> n, last |-> n, messages |-> <<>>] ELSE batches[p][1]
           e == [b EXCEPT !.messages = Append(@, n), !.last = n]
<1>1. n \in Nat /\ b \in Batch
  BY DEF TxnType, Batch
<1>2. b.messages = Numbers(b.first, Len(b.messages)) /\ n = b.first + Len(b.messages)
  <2>1. CASE batches[p] = <<>>
    BY <2>1, <1>1 DEF Numbers, Batch
  <2>2. CASE batches[p] # <<>>
    BY <2>2, <1>1, ExactParts DEF Numbered, Batch
  <2> QED BY <2>1, <2>2, Zenon
<1>3. /\ batches' = [batches EXCEPT ![p] = <<e>>] /\ sequenceNumbers' = [sequenceNumbers EXCEPT ![p] = n + 1]
      /\ sending' = [sending EXCEPT ![s] = p] /\ UNCHANGED <<tmState, epoch, txn, txns, acked>>
  BY Zenon DEF SendAppend
<1> HIDE DEF n, b
<1>4. /\ e \in Batch /\ e.first = b.first /\ e.messages = Append(b.messages, n) /\ e.last = n
  <2> DEFINE d == [b EXCEPT !.messages = Append(b.messages, n)]
  <2>1. e = [d EXCEPT !.last = n]
    BY Zenon
  <2>2. Append(b.messages, n) \in Seq(Nat)
    BY <1>1 DEF Batch
  <2>3. d \in Batch /\ d.first = b.first /\ d.messages = Append(b.messages, n)
    BY <1>1, <2>2, Zenon DEF Batch
  <2> HIDE DEF d
  <2> QED BY <1>1, <2>1, <2>3, Zenon DEF Batch
<1> HIDE DEF e
<1>5. b.messages \in Seq(Nat) /\ b.first \in Nat /\ Len(b.messages) \in Nat
  BY <1>1 DEF Batch
<1>6. e.messages = Numbers(b.first, Len(b.messages) + 1) /\ Len(e.messages) = Len(b.messages) + 1
  <2>1. Append(b.messages, n) = Numbers(b.first, Len(b.messages) + 1)
    BY <1>2, <1>5, NumbersGrow, Zenon
  <2>2. Len(Append(b.messages, n)) = Len(b.messages) + 1
    BY <1>1, <1>5, AppendFacts
  <2> QED BY <1>4, <2>1, <2>2, Zenon
<1>7. Numbered(e, n + 1)
  BY <1>2, <1>4, <1>5, <1>6 DEF Numbered
<1>8. /\ batches'[p] = <<e>> /\ sequenceNumbers'[p] = n + 1
      /\ \A q \in TxnPartitions : q # p => batches'[q] = batches[q] /\ sequenceNumbers'[q] = sequenceNumbers[q]
      /\ DOMAIN batches' = TxnPartitions /\ sequenceNumbers' \in [TxnPartitions -> Nat]
      /\ sending' \in [Senders -> TxnPartitions \cup {"none"}]
  BY <1>1, <1>3 DEF TxnType
<1>9. batches'[p][1] = e
  BY <1>8
<1>10. TxnType'
  BY <1>3, <1>4, <1>8, <1>9, Zenon DEF TxnType
<1>11. \A q \in TxnPartitions : batches'[q] # <<>> => Numbered(batches'[q][1], sequenceNumbers'[q])
  BY <1>7, <1>8, <1>9, ExactParts, Zenon
<1>12. Acked'
  BY <1>3, ExactParts, Zenon DEF Acked
<1>13. TransactionExact'
  BY <1>11, <1>12, Zenon DEF TransactionExact, Numbered, Numbers, Acked
<1> QED BY <1>10, <1>13, Zenon


\* The steps that leave the batches alone.
LEMMA BatchesStay ==
  ASSUME TxnType, TransactionExact, UNCHANGED <<batches, sequenceNumbers>>, Acked', epoch' \in Nat,
         txn' # <<>> => txn'[1] \in Transaction,
         sending' \in [Senders -> TxnPartitions \cup {"none"}], acked' \subseteq TxnPartitions
  PROVE  TxnType' /\ TransactionExact'
  BY ExactParts, Zenon DEF TxnType, TransactionExact, Acked

LEMMA TxnNext ==
  ASSUME TxnType, TransactionExact, [TransactionsNext]_txnVars
  PROVE  TxnType' /\ TransactionExact'
<1>0. /\ epoch \in Nat /\ (txn # <<>> => txn[1] \in Transaction)
      /\ sending \in [Senders -> TxnPartitions \cup {"none"}] /\ acked \subseteq TxnPartitions
      /\ Acked
  BY ExactParts, Zenon DEF TxnType
<1>1. CASE InitTransactions
  <2>1. epoch' \in Nat
    BY <1>0, <1>1 DEF InitTransactions, InitProducerID, Transaction
  <2> QED BY <1>0, <1>1, <2>1, BatchesStay, Zenon DEF InitTransactions, Acked
<1>2. CASE BeginTransaction
  <2> DEFINE r == [state |-> "Ongoing", epoch |-> epoch, parts |-> {}]
  <2>1. r \in Transaction
    BY <1>0, Zenon DEF Transaction, TxnState
  <2>2. txn' = <<r>> /\ acked' = {} /\ UNCHANGED <<epoch, batches, sequenceNumbers, sending>>
    BY <1>2, Zenon DEF BeginTransaction
  <2> HIDE DEF r
  <2> QED BY <1>0, <2>1, <2>2, BatchesStay, Zenon DEF Acked
<1>3. ASSUME NEW state \in TxnState, NEW failed, tmState = "Ongoing", EndTransaction(state, failed),
             UNCHANGED <<epoch, batches, sequenceNumbers, sending, acked>>
      PROVE  TxnType' /\ TransactionExact'
  <2>1. CASE txn # <<>>
    <3> DEFINE r == [txn[1] EXCEPT !.state = state]
    <3>1. txn' = <<r>> /\ tmState' = "Empty"
      BY <1>3, <2>1, Zenon DEF EndTransaction
    <3>2. r \in Transaction
      BY <1>0, <2>1, Zenon DEF Transaction
    <3> HIDE DEF r
    <3> QED BY <1>0, <1>3, <3>1, <3>2, BatchesStay, Zenon DEF Acked
  <2>2. CASE txn = <<>>
    BY <1>0, <1>3, <2>2, BatchesStay, Zenon DEF EndTransaction, Acked
  <2> QED BY <2>1, <2>2, Zenon
<1>4. CASE CommitTransaction \/ AbortTransaction
  BY <1>3, <1>4, Zenon DEF CommitTransaction, AbortTransaction, TxnState
<1>5. ASSUME NEW s \in Senders, SendAdd(s) PROVE TxnType' /\ TransactionExact'
  <2>1. /\ sending[s] \in TxnPartitions /\ UNCHANGED <<tmState, epoch, batches, sequenceNumbers>>
        /\ sending' \in [Senders -> TxnPartitions \cup {"none"}]
    BY <1>0, <1>5, Zenon DEF SendAdd
  <2>2. CASE UNCHANGED <<txn, acked>>
    BY <1>0, <2>1, <2>2, BatchesStay, Zenon DEF Acked
  <2>3. CASE /\ tmState = "Ongoing" /\ txn # <<>> /\ acked' = acked \cup {sending[s]}
             /\ AddPartitionsToTransaction(sending[s])
    <3> DEFINE r == [txn[1] EXCEPT !.parts = @ \cup {sending[s]}]
    <3>1. txn' = <<r>>
      BY <2>3, Zenon DEF AddPartitionsToTransaction
    <3>2. r \in Transaction /\ r.parts = txn[1].parts \cup {sending[s]}
      BY <1>0, <2>1, <2>3, Zenon DEF Transaction
    <3> HIDE DEF r
    <3>3. acked' \subseteq TxnPartitions /\ acked' \subseteq r.parts
      BY <1>0, <2>1, <2>3, <3>2, Zenon DEF Acked
    <3> QED BY <1>0, <2>1, <3>1, <3>2, <3>3, BatchesStay, Zenon DEF Acked
  <2> QED BY <1>5, <2>2, <2>3, Zenon DEF SendAdd
<1>6. ASSUME NEW s \in Senders, NEW p \in TxnPartitions, SendAppend(s, p) PROVE TxnType' /\ TransactionExact'
  BY <1>6, AppendKeeps, Zenon
<1>7. CASE FlushTransaction
  BY <1>0, <1>7, Zenon DEF FlushTransaction, TxnType, TransactionExact, Acked
<1>8. CASE CleanupExpiredTransactions
  BY <1>0, <1>8, BatchesStay, Zenon DEF CleanupExpiredTransactions, Acked
<1>9. CASE UNCHANGED txnVars
  BY <1>0, <1>9, BatchesStay, Zenon DEF txnVars, Acked
<1> QED BY <1>1, <1>2, <1>4, <1>5, <1>6, <1>7, <1>8, <1>9, Zenon DEF TransactionsNext

\* For all partitions and senders: batches are numbered without a gap, and the
\* coordinator knows the partitions of an ongoing transaction.
THEOREM SequencesExact == TransactionsSpec => []TransactionExact
<1>1. NewTransactionalProducer => TxnType /\ TransactionExact
  BY DEF NewTransactionalProducer, TxnType, TransactionExact
<1>2. TxnType /\ TransactionExact /\ [TransactionsNext]_txnVars => (TxnType /\ TransactionExact)'
  BY TxnNext, Zenon
<1> QED BY <1>1, <1>2, PTL DEF TransactionsSpec

-----------------------------------------------------------------------------
(* The invariant: what a client has been sent of a topic, and then what the
   answer it is about to be sent adds to it, is a prefix of the topic's records,
   until the topic is deleted. *)

Log(t) == IF topicLog[t] = <<>> THEN <<>> ELSE topicLog[t][1]

Prefix(s, l) == Len(s) <= Len(l) /\ \A i \in 1 .. Len(s) : s[i] = l[i]

Message == [topic : KafkaTopics, id : Nat]

Named == {"CreateTopics", "DeleteTopics"}

RequestType ==
  /\ DOMAIN conn = KafkaClients /\ DOMAIN request = KafkaClients
  /\ \A c \in KafkaClients :
       /\ request[c].topic \in KafkaTopics \cup {NoTopic}
       /\ conn[c] = "creating" \/ request[c].api \in Named => request[c].topic \in KafkaTopics

StoreType ==
  /\ DOMAIN topicLog = KafkaTopics /\ \A t \in KafkaTopics : Log(t) \in Seq(Nat)
  /\ deletes \in [KafkaTopics -> Nat] /\ produced \in Nat
  /\ pending \in Seq(Message) /\ flushed \in Nat
  /\ pending # <<>> => flushed < Len(pending)

ClientType ==
  /\ DOMAIN response = KafkaClients
  /\ consumed \in [KafkaClients -> [KafkaTopics -> Seq(Nat)]]
  /\ position \in [KafkaClients -> [KafkaTopics -> Nat]]

Reads(c) ==
  /\ response[c].records \in Seq(Nat)
  /\ response[c].records # <<>> => response[c].topic \in KafkaTopics
  /\ \A t \in KafkaTopics : position[c][t] = Len(consumed[c][t])
  /\ \A t \in KafkaTopics : deletes[t] = 0 =>
       /\ Prefix(consumed[c][t], Log(t))
       /\ response[c].topic = t => Prefix(consumed[c][t] \o response[c].records, Log(t))

BrokerInv == RequestType /\ StoreType /\ ClientType /\ \A c \in KafkaClients : Reads(c)

\* A set of naturals with a bound has a largest element.
LEMMA Largest ==
  ASSUME NEW n \in Nat, NEW S, S \subseteq 0 .. n, S # {}
  PROVE  \E i \in S : \A j \in S : j <= i
<1> DEFINE T == {m \in 0 .. n : n - m \in S}
<1>1. T \subseteq Nat
  OBVIOUS
<1>2. T # {}
  <2>1. PICK i \in S : TRUE
    BY Zenon
  <2>2. i \in 0 .. n /\ n - i \in 0 .. n /\ n - (n - i) = i
    BY <2>1
  <2> QED BY <2>2, Zenon
<1>3. PICK x \in T : \A y \in T : ~(<<y, x>> \in OpToRel(<, Nat))
  BY <1>1, <1>2, NatLessThanWellFounded, WFMin, Zenon
<1>4. \A y \in T : ~(y < x)
  BY <1>1, <1>3, Zenon DEF OpToRel
<1>5. ASSUME NEW j \in S PROVE j <= n - x
  <2>1. j \in 0 .. n /\ n - j \in 0 .. n /\ n - (n - j) = j
    OBVIOUS
  <2>2. ~(n - j < x)
    BY <2>1, <1>4, Zenon
  <2> QED BY <2>1, <2>2
<1> QED BY <1>5, Zenon

\* ConsumeMessages returns nothing, or the records from the offset to some later place.
LEMMA TakenSlice ==
  ASSUME NEW recs \in Seq(Nat), NEW offset \in Nat, NEW max
  PROVE  \/ Taken(recs, offset, max) = <<>>
         \/ \E k \in offset + 1 .. Len(recs) : Taken(recs, offset, max) = SubSeq(recs, offset + 1, k)
<1>1. CASE offset >= Len(recs)
  BY <1>1, Zenon DEF Taken
<1>2. CASE ~(offset >= Len(recs))
  <2> DEFINE total[i \in offset .. Len(recs)] == IF i = offset THEN 0 ELSE total[i - 1] + Size[recs[i]]
             fits == {i \in offset .. Len(recs) : i <= offset + 1 \/ total[i] <= max}
             k == CHOOSE i \in fits : \A j \in fits : j <= i
  <2>1. Taken(recs, offset, max) = SubSeq(recs, offset + 1, k)
    BY <1>2, Zenon DEF Taken
  <2>2. Len(recs) \in Nat /\ fits \subseteq 0 .. Len(recs) /\ fits \subseteq offset .. Len(recs)
    OBVIOUS
  <2>3. offset + 1 \in fits
    BY <1>2, <2>2
  <2> HIDE DEF fits
  <2>4. \E i \in fits : \A j \in fits : j <= i
    BY <2>2, <2>3, Largest, Zenon
  <2>5. k \in fits /\ offset + 1 <= k
    BY <2>3, <2>4, Zenon
  <2> HIDE DEF k
  <2>6. k \in offset + 1 .. Len(recs)
    BY <2>2, <2>5
  <2> QED BY <2>1, <2>6, Zenon
<1> QED BY <1>1, <1>2, Zenon

LEMMA PrefixSlice ==
  ASSUME NEW s \in Seq(Nat), NEW l \in Seq(Nat), Prefix(s, l), NEW k \in Len(s) + 1 .. Len(l)
  PROVE  Prefix(s \o SubSeq(l, Len(s) + 1, k), l)
  BY DEF Prefix

LEMMA PrefixAppend ==
  ASSUME NEW s \in Seq(Nat), NEW l \in Seq(Nat), Prefix(s, l), NEW x \in Nat
  PROVE  Prefix(s, Append(l, x))
  BY DEF Prefix

LEMMA PrefixSub ==
  ASSUME NEW s \in Seq(Nat), NEW l \in Seq(Nat), Prefix(s, l)
  PROVE  s = SubSeq(l, 1, Len(s))
  BY DEF Prefix

LEMMA ReadsPrefix == BrokerInv => ConsumedPrefix
<1> SUFFICES ASSUME BrokerInv, NEW c \in KafkaClients, NEW t \in KafkaTopics, deletes[t] = 0, consumed[c][t] # <<>>
             PROVE  /\ Len(consumed[c][t]) <= Len(topicLog[t][1])
                    /\ consumed[c][t] = SubSeq(topicLog[t][1], 1, Len(consumed[c][t]))
  BY Zenon DEF ConsumedPrefix
<1>1. consumed[c][t] \in Seq(Nat) /\ Log(t) \in Seq(Nat) /\ Prefix(consumed[c][t], Log(t))
  BY Zenon DEF BrokerInv, ClientType, StoreType, Reads
<1>2. topicLog[t] # <<>>
  BY <1>1 DEF Log, Prefix
<1>3. Log(t) = topicLog[t][1]
  BY <1>2, Zenon DEF Log
<1>4. consumed[c][t] = SubSeq(Log(t), 1, Len(consumed[c][t]))
  BY <1>1, PrefixSub, Zenon
<1> QED BY <1>1, <1>3, <1>4, Zenon DEF Prefix

\* Until it is deleted, a topic's records only grow at the end.
Grown ==
  \A t \in KafkaTopics : deletes'[t] = 0 =>
    /\ deletes[t] = 0
    /\ Log(t)' = Log(t) \/ \E x \in Nat : Log(t)' = Append(Log(t), x)

LEMMA GrownKeeps ==
  ASSUME StoreType, Grown, NEW t \in KafkaTopics, deletes'[t] = 0, NEW s \in Seq(Nat), Prefix(s, Log(t))
  PROVE  Prefix(s, Log(t)')
<1>1. Log(t) \in Seq(Nat)
  BY Zenon DEF StoreType
<1> QED BY <1>1, PrefixAppend, Zenon DEF Grown

LEMMA ReadsStay ==
  ASSUME StoreType, ClientType, Grown, NEW c \in KafkaClients, Reads(c), consumed'[c] = consumed[c], position'[c] = position[c],
         response'[c].records \in Seq(Nat),
         response'[c].records # <<>> => response'[c].topic \in KafkaTopics,
         \A t \in KafkaTopics : deletes[t] = 0 /\ response'[c].topic = t =>
           Prefix(consumed[c][t] \o response'[c].records, Log(t))
  PROVE  Reads(c)'
<1>1. ASSUME NEW t \in KafkaTopics, deletes'[t] = 0
      PROVE  /\ Prefix(consumed'[c][t], Log(t)')
             /\ response'[c].topic = t => Prefix(consumed'[c][t] \o response'[c].records, Log(t)')
  <2>1. consumed[c][t] \in Seq(Nat) /\ deletes[t] = 0
    BY <1>1, Zenon DEF ClientType, Grown
  <2>2. consumed[c][t] \o response'[c].records \in Seq(Nat)
    BY <2>1
  <2>3. Prefix(consumed[c][t], Log(t))
    BY <2>1, Zenon DEF Reads
  <2>4. Prefix(consumed[c][t], Log(t)')
    BY <1>1, <2>1, <2>3, GrownKeeps, Zenon
  <2>5. ASSUME response'[c].topic = t PROVE Prefix(consumed[c][t] \o response'[c].records, Log(t)')
    <3>1. Prefix(consumed[c][t] \o response'[c].records, Log(t))
      BY <2>1, <2>5, Zenon
    <3> QED BY <1>1, <2>2, <3>1, GrownKeeps, Zenon
  <2> QED BY <2>4, <2>5, Zenon
<1>2. \A t \in KafkaTopics : position'[c][t] = Len(consumed'[c][t])
  BY Zenon DEF Reads
<1> QED BY <1>1, <1>2, Zenon DEF Reads

\* An answer without records, or the records a fetch takes from where the last one ended.
LEMMA RespondKeeps ==
  ASSUME StoreType, ClientType, Grown, NEW c \in KafkaClients, NEW code, Respond(c, code, <<>>),
         \A d \in KafkaClients : Reads(d)
  PROVE  ClientType' /\ \A d \in KafkaClients : Reads(d)'
<1>1. UNCHANGED <<consumed, position>> /\ DOMAIN response' = KafkaClients
  BY Zenon DEF Respond, progress, ClientType
<1>2. response'[c].records = <<>> /\ response'[c].topic = NoTopic
  BY Zenon DEF Respond, ClientType
<1>3. \A d \in KafkaClients \ {c} : response'[d] = response[d]
  BY Zenon DEF Respond, ClientType
<1>4. Reads(c)'
  <2>1. response'[c].records \in Seq(Nat) /\ \A t \in KafkaTopics : response'[c].topic # t
    BY <1>2, BrokerAssumption
  <2> QED BY <1>1, <1>2, <2>1, ReadsStay, Zenon
<1>5. ASSUME NEW d \in KafkaClients, d # c PROVE Reads(d)'
  <2>1. Reads(d) /\ response'[d] = response[d]
    BY <1>3, <1>5, Zenon
  <2> QED BY <1>1, <2>1, ReadsStay, Zenon DEF Reads
<1> QED BY <1>1, <1>4, <1>5, Zenon DEF ClientType

LEMMA FetchKeeps ==
  ASSUME BrokerInv, NEW c \in KafkaClients, NEW t \in KafkaTopics, NEW max, request[c].topic = t, topicLog[t] # <<>>,
         UNCHANGED <<topicLog, deletes>>, Respond(c, NoError, Taken(topicLog[t][1], position[c][t], max))
  PROVE  ClientType' /\ \A d \in KafkaClients : Reads(d)'
<1>1. PICK r : r = Taken(topicLog[t][1], position[c][t], max)
  BY Zenon
<1>2. Log(t) \in Seq(Nat) /\ Log(t) = topicLog[t][1] /\ position[c][t] \in Nat /\ consumed[c][t] \in Seq(Nat)
  BY Zenon DEF BrokerInv, StoreType, ClientType, Log
<1>3. position[c][t] = Len(consumed[c][t]) /\ (deletes[t] = 0 => Prefix(consumed[c][t], Log(t)))
  BY Zenon DEF BrokerInv, Reads
<1>4. PICK recs \in Seq(Nat), sent \in Seq(Nat) :
        recs = Log(t) /\ sent = consumed[c][t] /\ r = Taken(recs, Len(sent), max) /\ (deletes[t] = 0 => Prefix(sent, recs))
  BY <1>1, <1>2, <1>3, Zenon
<1>5. r \in Seq(Nat) /\ (deletes[t] = 0 => Prefix(sent \o r, recs))
  <2>1. CASE r = <<>>
    <3>1. sent \o r = sent
      BY <2>1
    <3> QED BY <1>4, <2>1, <3>1
  <2>2. ASSUME NEW k \in Len(sent) + 1 .. Len(recs), r = SubSeq(recs, Len(sent) + 1, k)
        PROVE  r \in Seq(Nat) /\ (deletes[t] = 0 => Prefix(sent \o r, recs))
    <3>1. SubSeq(recs, Len(sent) + 1, k) \in Seq(Nat)
      OBVIOUS
    <3> QED BY <1>4, <2>2, <3>1, PrefixSlice, Zenon
  <2>3. r = <<>> \/ \E k \in Len(sent) + 1 .. Len(recs) : r = SubSeq(recs, Len(sent) + 1, k)
    <3>1. PICK n \in Nat : n = Len(sent)
      OBVIOUS
    <3>2. Taken(recs, n, max) = <<>> \/ \E k \in n + 1 .. Len(recs) : Taken(recs, n, max) = SubSeq(recs, n + 1, k)
      BY TakenSlice, Zenon
    <3> QED BY <1>4, <3>1, <3>2, Zenon
  <2> QED BY <2>1, <2>2, <2>3, Zenon
<1>6. deletes[t] = 0 => Prefix(consumed[c][t] \o r, Log(t))
  BY <1>4, <1>5, Zenon
<1>7. UNCHANGED <<consumed, position>> /\ DOMAIN response' = KafkaClients
  BY Zenon DEF Respond, progress, BrokerInv, ClientType
<1>8. response'[c].records = r /\ response'[c].topic = IF r = <<>> THEN NoTopic ELSE t
  BY <1>1, Zenon DEF Respond, BrokerInv, ClientType
<1>9. \A d \in KafkaClients \ {c} : response'[d] = response[d]
  BY Zenon DEF Respond, BrokerInv, ClientType
<1>10. StoreType /\ ClientType /\ Grown /\ \A d \in KafkaClients : Reads(d)
  BY Zenon DEF BrokerInv, Grown, Log
<1>11. Reads(c)'
  <2>1. \A u \in KafkaTopics : response'[c].topic = u => u = t
    BY <1>8, BrokerAssumption, Zenon
  <2>2. response'[c].records # <<>> => response'[c].topic \in KafkaTopics
    BY <1>8, Zenon
  <2> QED BY <1>5, <1>6, <1>7, <1>8, <1>10, <2>1, <2>2, ReadsStay, Zenon
<1>12. ASSUME NEW d \in KafkaClients, d # c PROVE Reads(d)'
  <2>1. Reads(d) /\ response'[d] = response[d]
    BY <1>9, <1>10, <1>12, Zenon
  <2> QED BY <1>7, <1>10, <2>1, ReadsStay, Zenon DEF Reads
<1> QED BY <1>7, <1>10, <1>11, <1>12, Zenon DEF ClientType

\* The answer reaches the client, or is lost with its connection.
LEMMA WriteKeeps ==
  ASSUME BrokerInv, NEW c \in KafkaClients, writeResponse(c)
  PROVE  ClientType' /\ \A d \in KafkaClients : Reads(d)'
<1>1. UNCHANGED <<topicLog, deletes>> /\ DOMAIN response' = KafkaClients
  BY Zenon DEF writeResponse, store, BrokerInv, ClientType
<1>2. response'[c].records = <<>> /\ response'[c].topic = NoTopic
  BY Zenon DEF writeResponse, BrokerInv, ClientType, NoResponse
<1>3. \A d \in KafkaClients \ {c} : response'[d] = response[d]
  BY Zenon DEF writeResponse, BrokerInv, ClientType
<1>4. StoreType /\ ClientType /\ Grown /\ \A d \in KafkaClients : Reads(d)
  BY <1>1, Zenon DEF BrokerInv, Grown, Log
<1>5. ASSUME NEW d \in KafkaClients, UNCHANGED <<consumed[d], position[d]>> PROVE Reads(d)'
  <2>1. CASE d = c
    <3>1. response'[c].records \in Seq(Nat) /\ \A t \in KafkaTopics : response'[c].topic # t
      BY <1>2, BrokerAssumption
    <3> QED BY <1>2, <1>4, <1>5, <2>1, <3>1, ReadsStay, Zenon
  <2>2. CASE d # c
    <3>1. Reads(d) /\ response'[d] = response[d]
      BY <1>3, <1>4, <2>2, Zenon
    <3> QED BY <1>4, <1>5, <3>1, ReadsStay, Zenon DEF Reads
  <2> QED BY <2>1, <2>2, Zenon
<1>6. CASE UNCHANGED progress
  BY <1>1, <1>4, <1>5, <1>6, Zenon DEF progress, ClientType
<1>7. CASE ~UNCHANGED progress
  <2>1. PICK t \in KafkaTopics : t = response[c].topic
    <3>1. Len(response[c].records) # 0
      BY <1>7, Zenon DEF writeResponse
    <3>2. response[c].records # <<>>
      BY <3>1
    <3> QED BY <1>4, <3>2, Zenon DEF Reads
  <2>2. PICK r \in Seq(Nat) : r = response[c].records
    BY <1>4, Zenon DEF Reads
  <2>3. /\ consumed' = [consumed EXCEPT ![c][t] = @ \o r]
        /\ position' = [position EXCEPT ![c][t] = @ + Len(r)]
    BY <1>7, <2>1, <2>2, Zenon DEF writeResponse
  <2>4. consumed[c][t] \in Seq(Nat) /\ position[c][t] = Len(consumed[c][t])
    BY <1>4, Zenon DEF ClientType, Reads
  <2>5. PICK s \in Seq(Nat) : s = consumed[c][t] \o r /\ Len(s) = position[c][t] + Len(r)
    <3>1. PICK w \in Seq(Nat) : w = consumed[c][t]
      BY <2>4, Zenon
    <3>2. w \o r \in Seq(Nat) /\ Len(w \o r) = Len(w) + Len(r)
      OBVIOUS
    <3> QED BY <2>4, <3>1, <3>2, Zenon
  <2>6. ClientType'
    BY <1>1, <1>4, <2>3, <2>5 DEF ClientType
  <2>7. \A d \in KafkaClients \ {c} : UNCHANGED <<consumed[d], position[d]>>
    BY <1>4, <2>3, Zenon DEF ClientType
  <2>8. /\ consumed'[c][t] = s /\ position'[c][t] = Len(s)
        /\ \A u \in KafkaTopics \ {t} : consumed'[c][u] = consumed[c][u] /\ position'[c][u] = position[c][u]
    BY <1>4, <2>3, <2>5, Zenon DEF ClientType
  <2>9. Reads(c)'
    <3>1. \A u \in KafkaTopics : response'[c].topic # u
      BY <1>2, BrokerAssumption, Zenon
    <3>2. \A u \in KafkaTopics : position'[c][u] = Len(consumed'[c][u])
      BY <1>4, <2>8, Zenon DEF Reads
    <3>3. ASSUME NEW u \in KafkaTopics, deletes'[u] = 0 PROVE Prefix(consumed'[c][u], Log(u)')
      <4>1. deletes[u] = 0 /\ Log(u)' = Log(u)
        BY <1>1, <3>3, Zenon DEF Log
      <4>2. CASE u = t
        <5>1. Prefix(consumed[c][t] \o response[c].records, Log(t))
          BY <1>4, <2>1, <4>1, <4>2, Zenon DEF Reads
        <5> QED BY <2>2, <2>5, <2>8, <4>1, <4>2, <5>1, Zenon
      <4>3. CASE u # t
        BY <1>4, <2>8, <4>1, <4>3, Zenon DEF Reads
      <4> QED BY <4>2, <4>3, Zenon
    <3> QED BY <1>2, <3>1, <3>2, <3>3 DEF Reads
  <2> QED BY <1>5, <2>6, <2>7, <2>9, Zenon
<1> QED BY <1>6, <1>7, Zenon

\* The store: topics are created, grow and are deleted.
LEMMA StoreStays ==
  ASSUME StoreType, UNCHANGED store
  PROVE  StoreType' /\ Grown
  BY Zenon DEF StoreType, Grown, store, Log

LEMMA CreateKeeps ==
  ASSUME StoreType, NEW t \in KafkaTopics, CreateTopic(t), UNCHANGED <<pending, flushed, produced, deletes>>
  PROVE  StoreType' /\ Grown
<1>1. DOMAIN topicLog' = KafkaTopics /\ \A u \in KafkaTopics \ {t} : topicLog'[u] = topicLog[u]
  BY Zenon DEF StoreType, CreateTopic
<1>2. topicLog'[t] = IF topicLog[t] = <<>> THEN <<<<>>>> ELSE topicLog[t]
  BY Zenon DEF StoreType, CreateTopic
<1>3. \A u \in KafkaTopics : Log(u)' = Log(u)
  BY <1>1, <1>2 DEF Log
<1> QED BY <1>1, <1>3, Zenon DEF StoreType, Grown

LEMMA DeleteKeeps ==
  ASSUME StoreType, NEW t \in KafkaTopics, DeleteTopic(t), deletes' = [deletes EXCEPT ![t] = @ + 1],
         UNCHANGED <<pending, flushed, produced>>
  PROVE  StoreType' /\ Grown
<1>1. DOMAIN topicLog' = KafkaTopics /\ \A u \in KafkaTopics \ {t} : topicLog'[u] = topicLog[u]
  BY Zenon DEF StoreType, DeleteTopic
<1>2. topicLog'[t] = <<>>
  BY Zenon DEF StoreType, DeleteTopic
<1>3. Log(t)' = <<>> /\ \A u \in KafkaTopics \ {t} : Log(u)' = Log(u)
  BY <1>1, <1>2, Zenon DEF Log
<1>4. deletes' \in [KafkaTopics -> Nat] /\ deletes'[t] # 0 /\ \A u \in KafkaTopics \ {t} : deletes'[u] = deletes[u]
  BY DEF StoreType
<1>5. ASSUME NEW u \in KafkaTopics PROVE Log(u)' \in Seq(Nat)
  <2>1. Log(u) \in Seq(Nat) /\ <<>> \in Seq(Nat)
    BY DEF StoreType
  <2> QED BY <1>3, <2>1, Zenon
<1> QED BY <1>1, <1>3, <1>4, <1>5, Zenon DEF StoreType, Grown

LEMMA FlushKeeps ==
  ASSUME StoreType, StoreBatch
  PROVE  StoreType' /\ Grown
<1>1. PICK m \in Message : m = pending[flushed + 1]
  BY DEF StoreType, StoreBatch
<1>2. m.topic \in KafkaTopics /\ m.id \in Nat
  BY Zenon DEF Message
<1>3. UNCHANGED <<produced, deletes>>
  BY Zenon DEF StoreBatch
<1>4. pending' \in Seq(Message) /\ flushed' \in Nat /\ (pending' # <<>> => flushed' < Len(pending'))
  <2>1. pending \in Seq(Message) /\ flushed \in Nat /\ flushed < Len(pending) /\ <<>> \in Seq(Message)
    BY DEF StoreType, StoreBatch
  <2>2. \/ flushed' = 0 /\ pending' = pending
        \/ flushed + 1 < Len(pending) /\ flushed' = flushed + 1 /\ pending' = pending
        \/ flushed' = 0 /\ pending' = <<>>
    BY Zenon DEF StoreBatch
  <2>3. PICK n \in Nat : n = Len(pending) /\ 0 < n /\ flushed < n
    BY <2>1
  <2>4. pending' \in Seq(Message) /\ flushed' \in Nat
    <3>1. pending' \in Seq(Message)
      BY <2>1, <2>2, Zenon
    <3>2. flushed' \in Nat
      BY <2>1, <2>2
    <3> QED BY <3>1, <3>2, Zenon
  <2>5. CASE pending' = pending
    <3>1. flushed' < n
      BY <2>1, <2>2, <2>3, Zenon
    <3> QED BY <2>3, <2>4, <2>5, <3>1, Zenon
  <2> QED BY <2>2, <2>4, <2>5, Zenon
<1>5. CASE UNCHANGED topicLog
  BY <1>3, <1>4, <1>5, Zenon DEF StoreType, Grown, Log
<1>6. CASE ProduceMessage(m)
  <2>1. topicLog[m.topic] # <<>> /\ topicLog' = [topicLog EXCEPT ![m.topic] = <<Append(@[1], m.id)>>]
    BY <1>6, Zenon DEF ProduceMessage
  <2>2. DOMAIN topicLog' = KafkaTopics /\ \A u \in KafkaTopics \ {m.topic} : topicLog'[u] = topicLog[u]
    BY <2>1, Zenon DEF StoreType
  <2>3. topicLog'[m.topic] = <<Append(topicLog[m.topic][1], m.id)>>
    BY <1>2, <2>1, Zenon DEF StoreType
  <2>4. \A u \in KafkaTopics \ {m.topic} : Log(u)' = Log(u)
    BY <2>2, Zenon DEF Log
  <2>5. Log(m.topic)' = Append(Log(m.topic), m.id)
    <3>1. Log(m.topic) = topicLog[m.topic][1]
      BY <2>1, Zenon DEF Log
    <3>2. Log(m.topic)' = topicLog'[m.topic][1]
      <4>1. topicLog'[m.topic] # <<>>
        BY <2>3
      <4> QED BY <4>1, Zenon DEF Log
    <3>3. <<Append(topicLog[m.topic][1], m.id)>>[1] = Append(topicLog[m.topic][1], m.id)
      OBVIOUS
    <3> QED BY <2>3, <3>1, <3>2, <3>3, Zenon
  <2>6. ASSUME NEW u \in KafkaTopics PROVE Log(u)' \in Seq(Nat)
    <3>1. PICK l \in Seq(Nat) : l = Log(u)
      BY Zenon DEF StoreType
    <3>2. Append(l, m.id) \in Seq(Nat)
      BY <1>2
    <3> QED BY <2>4, <2>5, <3>1, <3>2, Zenon
  <2> QED BY <1>2, <1>3, <1>4, <2>2, <2>4, <2>5, <2>6, Zenon DEF StoreType, Grown
<1> QED BY <1>1, <1>5, <1>6, Zenon DEF StoreBatch

\* Requests: only those with a topic create or delete one.
LEMMA RespondRequest ==
  ASSUME RequestType, NEW c \in KafkaClients, NEW code, NEW records, Respond(c, code, records)
  PROVE  RequestType'
<1>1. /\ DOMAIN conn' = KafkaClients /\ DOMAIN request' = KafkaClients
      /\ request'[c] = NoRequest /\ conn'[c] = "writing"
      /\ \A d \in KafkaClients \ {c} : request'[d] = request[d] /\ conn'[d] = conn[d]
  BY Zenon DEF RequestType, Respond
<1> QED BY <1>1 DEF RequestType, NoRequest, Named

LEMMA ReadRequest ==
  ASSUME RequestType, NEW c \in KafkaClients, readRequest(c)
  PROVE  RequestType'
<1>1. /\ DOMAIN conn' = KafkaClients /\ DOMAIN request' = KafkaClients
      /\ conn'[c] \in {"handling", "closed"}
      /\ \A d \in KafkaClients \ {c} : request'[d] = request[d] /\ conn'[d] = conn[d]
  BY Zenon DEF RequestType, readRequest
<1>2. request'[c].topic \in KafkaTopics \cup {NoTopic} /\ (request'[c].api \in Named => request'[c].topic \in KafkaTopics)
  BY DEF RequestType, readRequest, Named
<1> QED BY <1>1, <1>2, Zenon DEF RequestType

\* A handler that answers without records.
LEMMA AnswerKeeps ==
  ASSUME BrokerInv, StoreType', Grown, NEW c \in KafkaClients, NEW code, Respond(c, code, <<>>)
  PROVE  BrokerInv'
  BY RespondRequest, RespondKeeps, Zenon DEF BrokerInv

\* A step that leaves the answers and what the clients have read alone.
LEMMA ClientsStay ==
  ASSUME BrokerInv, StoreType', Grown, RequestType', UNCHANGED <<response, position, consumed>>
  PROVE  BrokerInv'
<1>1. ASSUME NEW c \in KafkaClients PROVE Reads(c)'
  <2>1. Reads(c) /\ StoreType /\ ClientType
    BY Zenon DEF BrokerInv
  <2> QED BY <2>1, ReadsStay, Zenon DEF Reads
<1>2. ClientType'
  BY Zenon DEF BrokerInv, ClientType
<1> QED BY <1>1, <1>2, Zenon DEF BrokerInv

LEMMA BrokerStep ==
  ASSUME BrokerInv, [BrokerNext]_brokerVars
  PROVE  BrokerInv'
<1> USE DEF progress
<1>0. RequestType /\ StoreType /\ ClientType
  BY Zenon DEF BrokerInv
<1>1. CASE StartServer \/ StopServer
  <2>1. UNCHANGED <<conn, request, response, store, position, consumed>>
    BY <1>1, Zenon DEF StartServer, StopServer
  <2>2. RequestType'
    BY <1>0, <2>1, Zenon DEF RequestType
  <2> QED BY <1>0, <2>1, <2>2, StoreStays, ClientsStay, Zenon
<1>2. CASE StoreBatch
  <2>1. UNCHANGED <<conn, request, response, position, consumed>>
    BY <1>2, Zenon DEF StoreBatch
  <2>2. RequestType'
    BY <1>0, <2>1, Zenon DEF RequestType
  <2> QED BY <1>0, <1>2, <2>1, <2>2, FlushKeeps, ClientsStay, Zenon
<1>3. ASSUME NEW c \in KafkaClients, acceptConnections(c) PROVE BrokerInv'
  <2>1. UNCHANGED <<request, response, store, position, consumed>> /\ conn' = [conn EXCEPT ![c] = "reading"]
    BY <1>3, Zenon DEF acceptConnections
  <2>2. RequestType'
    BY <1>0, <2>1, Zenon DEF RequestType
  <2> QED BY <1>0, <2>1, <2>2, StoreStays, ClientsStay, Zenon
<1>4. ASSUME NEW c \in KafkaClients, readRequest(c) PROVE BrokerInv'
  <2>1. UNCHANGED <<response, store, position, consumed>>
    BY <1>4, Zenon DEF readRequest
  <2> QED BY <1>0, <1>4, <2>1, ReadRequest, StoreStays, ClientsStay, Zenon
<1>5. ASSUME NEW c \in KafkaClients, writeResponse(c) PROVE BrokerInv'
  <2>1. UNCHANGED <<request, store>> /\ DOMAIN conn' = KafkaClients
    BY <1>0, <1>5, Zenon DEF writeResponse, RequestType
  <2>2. conn'[c] # "creating" /\ \A d \in KafkaClients \ {c} : conn'[d] = conn[d]
    BY <1>0, <1>5, Zenon DEF writeResponse, RequestType
  <2>3. RequestType'
    BY <1>0, <2>1, <2>2, Zenon DEF RequestType
  <2> QED BY <1>0, <1>5, <2>1, <2>3, StoreStays, WriteKeeps, Zenon DEF BrokerInv
<1>6. ASSUME NEW c \in KafkaClients, handleProduce(c) PROVE BrokerInv'
  <2>1. UNCHANGED <<topicLog, flushed, deletes>> /\ \E code : Respond(c, code, <<>>)
    BY <1>6, Zenon DEF handleProduce
  <2>2. Grown
    BY <2>1, Zenon DEF Grown, Log
  <2>3. StoreType'
    <3>1. CASE UNCHANGED <<produced, pending>>
      BY <1>0, <2>1, <3>1, Zenon DEF StoreType, Log
    <3>2. CASE /\ request[c].topic # NoTopic /\ flushed = 0 /\ produced' = produced + 1
               /\ pending' = Append(pending, [topic |-> request[c].topic, id |-> produced + 1])
      <4>1. PICK m \in Message : m = [topic |-> request[c].topic, id |-> produced + 1]
        <5>1. produced \in Nat /\ request[c].topic \in KafkaTopics
          BY <1>0, <3>2, Zenon DEF RequestType, StoreType
        <5>2. PICK t \in KafkaTopics, n \in Nat : t = request[c].topic /\ n = produced + 1
          BY <5>1
        <5>3. [topic |-> t, id |-> n] \in Message
          BY <5>2 DEF Message
        <5> QED BY <5>2, <5>3, Zenon
      <4>2. pending' = Append(pending, m) /\ pending \in Seq(Message)
        BY <1>0, <3>2, <4>1, Zenon DEF StoreType
      <4>3. pending' \in Seq(Message) /\ 0 < Len(pending')
        BY <4>2
      <4> QED BY <1>0, <2>1, <3>2, <4>3 DEF StoreType, Log
    <3> QED BY <1>6, <3>1, <3>2, Zenon DEF handleProduce
  <2> QED BY <2>1, <2>2, <2>3, AnswerKeeps, Zenon
<1>7. ASSUME NEW c \in KafkaClients, NEW max, handleFetch(c, max) PROVE BrokerInv'
  <2>1. StoreType' /\ Grown /\ UNCHANGED <<topicLog, deletes>>
    BY <1>0, <1>7, StoreStays, Zenon DEF handleFetch, store
  <2>2. CASE \E code : Respond(c, code, <<>>)
    BY <2>1, <2>2, AnswerKeeps, Zenon
  <2>3. ASSUME NEW t \in KafkaTopics, request[c].topic = t, topicLog[t] # <<>>,
               Respond(c, NoError, Taken(topicLog[t][1], position[c][t], max))
        PROVE  BrokerInv'
    <3>1. RequestType'
      BY <1>0, <2>3, RespondRequest, Zenon
    <3> QED BY <2>1, <2>3, <3>1, FetchKeeps, Zenon DEF BrokerInv
  <2> QED BY <1>0, <1>7, <2>2, <2>3, Zenon DEF handleFetch, RequestType
<1>8. ASSUME NEW c \in KafkaClients, handleMetadata(c) PROVE BrokerInv'
  <2>1. StoreType' /\ Grown
    BY <1>0, <1>8, StoreStays, Zenon DEF handleMetadata
  <2>2. CASE Respond(c, NoError, <<>>)
    BY <2>1, <2>2, AnswerKeeps, Zenon
  <2>3. CASE /\ request[c].topic # NoTopic /\ conn' = [conn EXCEPT ![c] = "creating"]
             /\ UNCHANGED <<request, response, position, consumed>>
    <3>1. RequestType'
      BY <1>0, <2>3, Zenon DEF RequestType
    <3> QED BY <2>1, <2>3, <3>1, ClientsStay, Zenon
  <2> QED BY <1>8, <2>2, <2>3, Zenon DEF handleMetadata
<1>9. ASSUME NEW c \in KafkaClients, GetTopicMetadata(c) \/ handleCreateTopics(c) PROVE BrokerInv'
  <2>1. request[c].topic \in KafkaTopics /\ CreateTopic(request[c].topic) /\ Respond(c, NoError, <<>>)
        /\ UNCHANGED <<pending, flushed, produced, deletes>>
    BY <1>0, <1>9, Zenon DEF GetTopicMetadata, handleCreateTopics, Handles, RequestType, Named
  <2> QED BY <1>0, <2>1, CreateKeeps, AnswerKeeps, Zenon
<1>10. ASSUME NEW c \in KafkaClients, handleDeleteTopics(c) PROVE BrokerInv'
  <2>1. PICK t \in KafkaTopics : t = request[c].topic
    BY <1>0, <1>10, Zenon DEF handleDeleteTopics, Handles, RequestType, Named
  <2>2. /\ DeleteTopic(t) /\ Respond(c, NoError, <<>>) /\ deletes' = [deletes EXCEPT ![t] = @ + 1]
        /\ UNCHANGED <<pending, flushed, produced>>
    BY <1>10, <2>1, Zenon DEF handleDeleteTopics
  <2> QED BY <1>0, <2>2, DeleteKeeps, AnswerKeeps, Zenon
<1>11. ASSUME NEW c \in KafkaClients, handleOther(c) PROVE BrokerInv'
  <2>1. UNCHANGED store /\ \E code : Respond(c, code, <<>>)
    BY <1>11, Zenon DEF handleOther
  <2> QED BY <1>0, <2>1, StoreStays, AnswerKeeps, Zenon
<1>12. CASE UNCHANGED brokerVars
  <2>1. UNCHANGED <<conn, request, response, store, position, consumed>>
    BY <1>12, Zenon DEF brokerVars, store
  <2>2. RequestType'
    BY <1>0, <2>1, Zenon DEF RequestType
  <2> QED BY <1>0, <2>1, <2>2, StoreStays, ClientsStay, Zenon
<1> QED BY <1>1, <1>2, <1>3, <1>4, <1>5, <1>6, <1>7, <1>8, <1>9, <1>10, <1>11, <1>12, Zenon
       DEF BrokerNext, HandleConnection, handleRequest

\* For all clients, topics, sizes and bounds: what a client has been sent of a topic that
\* was never deleted is a prefix of its records.
THEOREM ConsumersInOrder == BrokerSpec => []ConsumedPrefix
<1>1. BrokerInit => BrokerInv
  <2> SUFFICES ASSUME BrokerInit PROVE BrokerInv
    BY Zenon
  <2>1. RequestType
    BY Zenon DEF BrokerInit, RequestType, NoRequest, Named
  <2>2. StoreType
    BY DEF BrokerInit, StoreType, Log
  <2>3. ClientType
    BY DEF BrokerInit, ClientType
  <2>4. ASSUME NEW c \in KafkaClients PROVE Reads(c)
    <3>1. response[c].records = <<>> /\ response[c].topic = NoTopic /\ \A t \in KafkaTopics : response[c].topic # t
      BY BrokerAssumption, Zenon DEF BrokerInit, NoResponse
    <3>2. \A t \in KafkaTopics : consumed[c][t] = <<>> /\ position[c][t] = 0 /\ Log(t) = <<>>
      BY Zenon DEF BrokerInit, Log
    <3> QED BY <3>1, <3>2, SMTT(20) DEF Reads, Prefix
  <2> QED BY <2>1, <2>2, <2>3, <2>4, Zenon DEF BrokerInv
<1>2. BrokerInv /\ [BrokerNext]_brokerVars => BrokerInv'
  BY BrokerStep, Zenon
<1> QED BY <1>1, <1>2, ReadsPrefix, PTL DEF BrokerSpec
=============================================================================
