------------------------- MODULE KafkaConsumerGroups -------------------------
(***************************************************************************)
(* The consumer group coordinator of pkg/kafka/consumer_groups.go (not the *)
(* one the Kafka server uses, which is GroupCoordinator), for one group.   *)
(* Every operation holds the coordinator's mutex; JoinGroup and            *)
(* DescribeGroups hand out the shared *ConsumerGroup, so a client may read *)
(* the generation at any time.                                             *)
(***************************************************************************)
EXTENDS Assignors, SequencesExt

CONSTANTS CgMembers,
          CgPartitions,     \* the partitions of the topic, as a sequence
          MaxGeneration     \* bound: generations

VARIABLES
  cgExists,         \* the group is in the coordinator's map
  cgMembers,        \* Members
  cgState, cgGeneration, cgAssignments,
  cgSilent,         \* members whose LastHeartbeat is older than the session timeout
  cgInactive,       \* the group's LastHeartbeat is older than five minutes; zero at first
  cgOffset,         \* Offsets of one partition, or -1
  cgKnown,          \* the generation a client has read
  cgRebalanced      \* the assignments are those of StartRebalance

cgVars == <<cgExists, cgMembers, cgState, cgGeneration, cgAssignments, cgSilent, cgInactive, cgOffset,
            cgKnown, cgRebalanced>>

NewConsumerGroupCoordinator ==
  /\ cgExists = FALSE /\ cgMembers = {} /\ cgState = "Empty" /\ cgGeneration = 0 /\ cgAssignments = <<>>
  /\ cgSilent = {} /\ cgInactive = TRUE /\ cgOffset = -1
  /\ cgKnown = [m \in CgMembers |-> 0] /\ cgRebalanced = FALSE

\* Mutant: a member that is in the group already does not start a rebalance.
JoinedQuietly(m) ==
  /\ cgMembers' = cgMembers \cup {m} /\ cgSilent' = cgSilent \ {m}
  /\ cgState' = (IF cgMembers = {} THEN "PreparingRebalance" ELSE cgState) /\ cgGeneration' = cgGeneration + 1

\* What JoinGroup does to the group it found or made.
Joined(m) ==
  /\ cgMembers' = cgMembers \cup {m} /\ cgSilent' = cgSilent \ {m}
  /\ cgState' = "PreparingRebalance" /\ cgGeneration' = cgGeneration + 1

JoinGroup(m) ==
  /\ cgGeneration < MaxGeneration
  /\ IF cgExists THEN Joined(m) /\ UNCHANGED <<cgAssignments, cgInactive, cgOffset, cgRebalanced>>
     ELSE /\ cgMembers' = {m} /\ cgSilent' = {} /\ cgGeneration' = 1 /\ cgState' = "PreparingRebalance"
          /\ cgAssignments' = <<>> /\ cgInactive' = TRUE /\ cgOffset' = -1 /\ cgRebalanced' = FALSE
  /\ cgExists' = TRUE
  /\ cgKnown' = [cgKnown EXCEPT ![m] = cgGeneration']

\* A client reads the group it was given.
DescribeGroups(m) ==
  /\ cgExists /\ cgKnown' = [cgKnown EXCEPT ![m] = cgGeneration]
  /\ UNCHANGED <<cgExists, cgMembers, cgState, cgGeneration, cgAssignments, cgSilent, cgInactive, cgOffset,
                 cgRebalanced>>

\* Any client may sync, with the assignments it likes (here: all to itself, or none).
SyncGroup(m, clients) ==
  /\ cgExists /\ cgGeneration = cgKnown[m]
  /\ cgAssignments' = RoundRobinAssign(SetToSeq(clients), <<"t">>, [t |-> CgPartitions])
  /\ cgState' = "Stable" /\ cgRebalanced' = FALSE
  /\ UNCHANGED <<cgExists, cgMembers, cgGeneration, cgSilent, cgInactive, cgOffset, cgKnown>>

Heartbeat(m) ==
  /\ cgExists /\ m \in cgMembers /\ cgGeneration = cgKnown[m]
  /\ cgSilent' = cgSilent \ {m} /\ cgInactive' = FALSE
  /\ UNCHANGED <<cgExists, cgMembers, cgState, cgGeneration, cgAssignments, cgOffset, cgKnown, cgRebalanced>>

\* The group after the members in gone were deleted from it.
Remaining(gone) ==
  /\ cgMembers' = cgMembers \ gone /\ cgSilent' = cgSilent \ gone
  /\ IF cgMembers' = {} THEN cgState' = "Empty" /\ UNCHANGED cgGeneration
     ELSE cgState' = "PreparingRebalance" /\ cgGeneration' = cgGeneration + 1

\* m need not be a member.
LeaveGroup(m) ==
  /\ cgExists /\ cgGeneration < MaxGeneration
  /\ Remaining({m})
  /\ UNCHANGED <<cgExists, cgAssignments, cgInactive, cgOffset, cgKnown, cgRebalanced>>

CommitGroupOffset(o) ==
  /\ cgExists /\ cgOffset' = o
  /\ UNCHANGED <<cgExists, cgMembers, cgState, cgGeneration, cgAssignments, cgSilent, cgInactive, cgKnown,
                 cgRebalanced>>

StartRebalance ==
  /\ cgExists /\ cgState = "Stable" /\ cgGeneration < MaxGeneration
  /\ cgGeneration' = cgGeneration + 1
  /\ \E order \in SetToSeqs(cgMembers) :
       cgAssignments' = RoundRobinAssign(order, <<"t">>, [t |-> CgPartitions])
  /\ cgRebalanced' = TRUE
  /\ UNCHANGED <<cgExists, cgMembers, cgState, cgSilent, cgInactive, cgOffset, cgKnown>>

\* Time passes for members, and for the group.
Silence(m) ==
  /\ m \in cgMembers \ cgSilent /\ cgSilent' = cgSilent \cup {m}
  /\ cgInactive' \in {cgInactive, TRUE}
  /\ UNCHANGED <<cgExists, cgMembers, cgState, cgGeneration, cgAssignments, cgOffset, cgKnown, cgRebalanced>>

CleanupExpiredGroups ==
  /\ cgExists /\ cgGeneration < MaxGeneration
  /\ IF cgSilent # {} THEN Remaining(cgSilent) ELSE UNCHANGED <<cgMembers, cgSilent, cgState, cgGeneration>>
  /\ cgExists' = ~(cgMembers' = {} /\ cgInactive)
  /\ UNCHANGED <<cgAssignments, cgInactive, cgOffset, cgKnown, cgRebalanced>>

ConsumerGroupsNext ==
  \/ \E m \in CgMembers : \/ JoinGroup(m) \/ DescribeGroups(m) \/ Heartbeat(m) \/ LeaveGroup(m) \/ Silence(m)
                          \/ \E clients \in {{}, {m}} : SyncGroup(m, clients)
  \/ CommitGroupOffset(0) \/ StartRebalance \/ CleanupExpiredGroups

-----------------------------------------------------------------------------
(* Properties *)

\* As long as a group stays stable after StartRebalance computed its assignments, the
\* members are the ones they were computed for, and they share the partitions of the
\* topic without overlap (every change of the membership leaves Stable).
RebalanceCovers ==
  cgExists /\ cgState = "Stable" /\ cgRebalanced =>
    /\ DOMAIN cgAssignments = cgMembers
    /\ \A m, n \in cgMembers : m # n => cgAssignments[m] \cap cgAssignments[n] = {}
    /\ cgMembers # {} => UNION {cgAssignments[m] : m \in cgMembers} = {"t"} \X Range(CgPartitions)
=============================================================================
