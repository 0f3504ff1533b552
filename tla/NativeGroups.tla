---------------------------- MODULE NativeGroups ----------------------------
(***************************************************************************)
(* pkg/api/consumer_groups_native.go: the consumer groups of the HTTP API, *)
(* one group of it.  Handlers run concurrently; groupsMutex guards the map *)
(* of groups, but join answers from the group after it has let it go.  The *)
(* committed offsets are in the storage, one call per read and write.      *)
(***************************************************************************)
EXTENDS Integers, SequencesExt

CONSTANTS NgMembers, NgParts,
          MaxGenerations,   \* bound: joins
          MaxEnd,           \* bound: messages of a partition
          NgMaxCalls        \* bound: joins, leaves and offset calls

VARIABLES
  ngGroup,      \* <<>>, or the group as <<[members, state, generation]>>
  ngClient,     \* per member: [pc, leads]; pc "out", "joining" (added, not answered) or "in"
  ngOld,        \* per member: joining a group that was deleted or replaced meanwhile
  ngEnd,        \* the storage: per partition, the latest offset
  ngOffsets,    \* the storage: per partition, the group's committed offset, or -1
  ngReset,      \* handleResetOffsets: [left, latest, read]
  ngLag,        \* the last answer of handleGetGroupLag, per partition
  ngCalls

ngVars == <<ngGroup, ngClient, ngOld, ngEnd, ngOffsets, ngReset, ngLag, ngCalls>>
ngStorage == <<ngEnd, ngOffsets, ngReset, ngLag>>

NoReset == [left |-> {}, latest |-> TRUE, read |-> <<>>]

NewNativeGroups ==
  /\ ngGroup = <<>> /\ ngClient = [m \in NgMembers |-> [pc |-> "out", leads |-> FALSE]]
  /\ ngOld = {} /\ ngCalls = 0
  /\ ngEnd = [p \in NgParts |-> 0] /\ ngOffsets = [p \in NgParts |-> -1]
  /\ ngReset = NoReset /\ ngLag = [p \in NgParts |-> 0]

Called == ngCalls < NgMaxCalls /\ ngCalls' = ngCalls + 1

-----------------------------------------------------------------------------
(* The group *)

\* A new group in the place of the one there was.
handleCreateConsumerGroup ==
  /\ Called /\ ngGroup' = <<[members |-> <<>>, state |-> "Empty", generation |-> 0]>>
  /\ ngOld' = ngOld \cup {m \in NgMembers : ngClient[m].pc = "joining"}
  /\ UNCHANGED <<ngClient, ngStorage>>

handleDeleteConsumerGroup ==
  /\ Called /\ ngGroup # <<>> /\ ngGroup' = <<>>
  /\ ngOld' = ngOld \cup {m \in NgMembers : ngClient[m].pc = "joining"}
  /\ UNCHANGED <<ngClient, ngStorage>>

\* Mutant: the newest member is the first.
JoinedFront(g, m) == [g EXCEPT !.members = <<m>> \o @, !.state = "Stable", !.generation = @ + 1]

\* A member is appended, also one that is there already.
Joined(g, m) == [g EXCEPT !.members = Append(@, m), !.state = "Stable", !.generation = @ + 1]

\* handleJoinConsumerGroup under groupsMutex ...
handleJoinConsumerGroup(m) ==
  /\ Called /\ ngClient[m].pc # "joining"
  /\ IF ngGroup = <<>> THEN UNCHANGED <<ngGroup, ngClient>>
     ELSE /\ ngGroup[1].generation < MaxGenerations
          /\ ngGroup' = <<Joined(ngGroup[1], m)>>
          /\ ngClient' = [ngClient EXCEPT ![m] = [pc |-> "joining", leads |-> FALSE]]
  /\ UNCHANGED <<ngOld, ngStorage>>

\* ... and its answer, from the group as it is by then.  What a group that is gone looks
\* like is left open.
JoinAnswer(m) ==
  /\ ngClient[m].pc = "joining" /\ ngOld' = ngOld \ {m}
  /\ \E leads \in IF m \in ngOld THEN BOOLEAN ELSE {Len(ngGroup[1].members) = 1} :
       ngClient' = [ngClient EXCEPT ![m] = [pc |-> "in", leads |-> leads]]
  /\ UNCHANGED <<ngGroup, ngStorage, ngCalls>>

\* The first entry of the member is removed.
Left(g, m) ==
  LET at == {i \in 1 .. Len(g.members) : g.members[i] = m}
      members == IF at = {} THEN g.members ELSE RemoveAt(g.members, CHOOSE i \in at : \A j \in at : i <= j)
  IN [g EXCEPT !.members = members, !.state = IF members = <<>> THEN "Empty" ELSE @]

handleLeaveConsumerGroup(m) ==
  /\ Called /\ ngClient[m].pc = "in" /\ ngClient' = [ngClient EXCEPT ![m] = [pc |-> "out", leads |-> FALSE]]
  /\ ngGroup' = IF ngGroup = <<>> THEN ngGroup ELSE <<Left(ngGroup[1], m)>>
  /\ UNCHANGED <<ngOld, ngStorage>>

-----------------------------------------------------------------------------
(* The offsets *)

Produce(p) ==
  /\ ngEnd[p] < MaxEnd /\ ngEnd' = [ngEnd EXCEPT ![p] = @ + 1]
  /\ UNCHANGED <<ngGroup, ngClient, ngOld, ngOffsets, ngReset, ngLag, ngCalls>>

\* A consumer commits what it has consumed, on several partitions in one batch.
handleCommitOffsets(parts) ==
  /\ Called /\ parts # {}
  /\ \E to \in [parts -> 0 .. MaxEnd] :
       /\ \A p \in parts : to[p] <= ngEnd[p]
       /\ ngOffsets' = [p \in NgParts |-> IF p \in parts THEN to[p] ELSE ngOffsets[p]]
  /\ UNCHANGED <<ngGroup, ngClient, ngOld, ngEnd, ngReset, ngLag>>

\* Of the topics the group has offsets for, partition by partition.
handleResetOffsets ==
  /\ Called /\ ngReset = NoReset
  /\ \E latest \in BOOLEAN : ngReset' = [left |-> NgParts, latest |-> latest, read |-> <<>>]
  /\ UNCHANGED <<ngGroup, ngClient, ngOld, ngEnd, ngOffsets, ngLag>>

\* Mutant: the position after the latest.
PositionAfter(p) == IF ngReset.latest THEN ngEnd[p] + 1 ELSE 0

\* GetEarliestOffset or GetLatestOffset.
Position(p) == IF ngReset.latest THEN ngEnd[p] ELSE 0

ResetRead(p) ==
  /\ p \in ngReset.left /\ ngReset.read = <<>> /\ ngReset' = [ngReset EXCEPT !.read = <<p, Position(p)>>]
  /\ UNCHANGED <<ngGroup, ngClient, ngOld, ngEnd, ngOffsets, ngLag, ngCalls>>

\* The offset is committed, over one committed since; on an error the partition is skipped.
ResetCommit ==
  /\ ngReset.read # <<>>
  /\ LET p == ngReset.read[1]  left == ngReset.left \ {p} IN
     /\ ngOffsets' \in {ngOffsets, [ngOffsets EXCEPT ![p] = ngReset.read[2]]}
     /\ ngReset' = IF left = {} THEN NoReset ELSE [ngReset EXCEPT !.left = left, !.read = <<>>]
  /\ UNCHANGED <<ngGroup, ngClient, ngOld, ngEnd, ngLag, ngCalls>>

\* The lag of every partition with an offset, from offsets read first and ends read later;
\* a negative one is reported as 0.
handleGetGroupLag ==
  /\ Called
  /\ ngLag' = [p \in NgParts |-> IF ngOffsets[p] = -1 THEN 0
                                 ELSE IF ngEnd[p] < ngOffsets[p] THEN 0 ELSE ngEnd[p] - ngOffsets[p]]
  /\ UNCHANGED <<ngGroup, ngClient, ngOld, ngEnd, ngOffsets, ngReset>>

GroupApiNext ==
  \/ handleCreateConsumerGroup \/ handleDeleteConsumerGroup
  \/ \E m \in NgMembers : handleJoinConsumerGroup(m) \/ JoinAnswer(m) \/ handleLeaveConsumerGroup(m)

OffsetApiNext ==
  \/ \E p \in NgParts : Produce(p) \/ ResetRead(p)
  \/ \E parts \in SUBSET NgParts : handleCommitOffsets(parts)
  \/ handleResetOffsets \/ ResetCommit \/ handleGetGroupLag

-----------------------------------------------------------------------------
(* Properties *)

\* Of the members of the group at most one has been told that it leads, and that one is
\* the first of them, whichever joins, leaves and re-creations run at the same time; the
\* state is Empty exactly when there is no member (join, leave).
LeaderFirst ==
  ngGroup # <<>> =>
    LET members == ngGroup[1].members IN
    /\ \A i \in 1 .. Len(members) :
         ngClient[members[i]].pc = "in" /\ ngClient[members[i]].leads => members[1] = members[i]
    /\ (ngGroup[1].state = "Empty") = (members = <<>>)

\* A committed offset is never beyond the end of its partition, with resets and commits
\* in any order, so the lag reported is the distance to an end there was
\* (handleResetOffsets, handleGetGroupLag).
OffsetsWithinLog ==
  \A p \in NgParts : ngOffsets[p] <= ngEnd[p] /\ ngLag[p] \in 0 .. ngEnd[p]
                     /\ (ngReset.read # <<>> => ngReset.read[2] <= ngEnd[ngReset.read[1]])
=============================================================================
