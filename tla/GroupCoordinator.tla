-------------------------- MODULE GroupCoordinator --------------------------
(***************************************************************************)
(* One consumer group of the Kafka server (pkg/kafka/group_coordinator.go) *)
(* and the consumers that use it through pkg/kafka/handlers_extended.go.   *)
(*                                                                         *)
(* Every handler holds the group's mutex from its first to its last access *)
(* of the group, so it is one action.  Consumers are identified by the     *)
(* member id they present.  The bytes a member's Metadata holds are        *)
(* abstracted to the set of members an assignment divides the partitions   *)
(* among: two members own disjoint partitions when their assignments       *)
(* divide them among the same set, and {} is the empty metadata            *)
(* handleJoinGroup registers.                                              *)
(***************************************************************************)
EXTENDS Integers

CONSTANTS Consumers,    \* the member ids in use
          Nobody,       \* the empty leader id ""
          MaxJoins      \* bound: JoinGroup requests in a behaviour

ASSUME ConsumersAssumption == Nobody \notin Consumers /\ MaxJoins \in Nat

VARIABLES State, Generation, Leader, Members,  \* ConsumerGroup
          Metadata,     \* GroupMember.Metadata of each member
          fresh,        \* the members whose LastHeartbeat is within SessionTimeout
          known,        \* consumers: the generation of their last join, or Unknown
          list,         \* consumers: the members a leader has to assign to
          held,         \* consumers: the assignment they work with
          joins         \* JoinGroup requests so far

group == <<State, Generation, Leader, Members, Metadata, fresh>>
consumer == <<known, list, held>>
vars == <<group, consumer, joins>>

Unknown == -1

Init ==
  /\ State = "Empty" /\ Generation = 0 /\ Leader = Nobody /\ Members = {}
  /\ Metadata = [c \in Consumers |-> {}]
  /\ fresh = {}
  /\ known = [c \in Consumers |-> Unknown]
  /\ list = [c \in Consumers |-> {}]
  /\ held = [c \in Consumers |-> {}]
  /\ joins = 0

\* What a consumer does that forgets its membership.
Forget(c) ==
  /\ known' = [known EXCEPT ![c] = Unknown]
  /\ list' = [list EXCEPT ![c] = {}]
  /\ held' = [held EXCEPT ![c] = {}]

-----------------------------------------------------------------------------
(* The handlers *)

\* Mutant of Enroll: a member that joins again keeps the metadata it had.
EnrollKeepsMetadata(c) ==
  /\ joins < MaxJoins /\ joins' = joins + 1
  /\ Leader' = IF Members = {} THEN c ELSE Leader
  /\ Members' = Members \cup {c}
  /\ fresh' = fresh \cup {c}
  /\ Generation' = IF State = "Stable" THEN Generation + 1 ELSE Generation
  /\ State' = "AwaitingSync"
  /\ UNCHANGED Metadata

\* The group's part of JoinGroup: the first member leads, a stable group starts
\* a new generation, and the member's metadata is what the request carries.
Enroll(c) ==
  /\ joins < MaxJoins /\ joins' = joins + 1
  /\ Leader' = IF Members = {} THEN c ELSE Leader
  /\ Members' = Members \cup {c}
  /\ Metadata' = [Metadata EXCEPT ![c] = {}]
  /\ fresh' = fresh \cup {c}
  /\ Generation' = IF State = "Stable" THEN Generation + 1 ELSE Generation
  /\ State' = "AwaitingSync"

\* The answer tells the generation, and the leader the members.
JoinGroup(c) ==
  /\ Enroll(c)
  /\ known' = [known EXCEPT ![c] = Generation']
  /\ list' = [list EXCEPT ![c] = IF c = Leader' THEN Members' ELSE {}]
  /\ held' = [held EXCEPT ![c] = {}]

\* The answer does not reach the consumer, which has stopped or retries.
JoinGroupLost(c) == Enroll(c) /\ Forget(c)

\* The checks of SyncGroup and Heartbeat on the member and the generation.
Accepted(c) == known[c] = Generation /\ c \in Members

\* A leader sends an assignment for every member of the list it was given, once;
\* the others send none.
SyncGroup(c) ==
  /\ known[c] # Unknown
  /\ \/ /\ Accepted(c) /\ c = Leader /\ list[c] # {}
        /\ Metadata' = [m \in Consumers |->
                          IF m \in list[c] \cap Members THEN list[c] ELSE Metadata[m]]
        /\ State' = "Stable"
        /\ held' = [held EXCEPT ![c] = Metadata'[c]]
     \/ /\ Accepted(c) /\ ~(c = Leader /\ list[c] # {})
        /\ held' = [held EXCEPT ![c] = Metadata[c]]
        /\ UNCHANGED <<Metadata, State>>
     \/ /\ ~Accepted(c)
        /\ UNCHANGED <<held, Metadata, State>>
  /\ list' = [list EXCEPT ![c] = {}]
  /\ UNCHANGED <<Generation, Leader, Members, fresh, known, joins>>

\* A refused heartbeat makes the consumer give up its assignment and rejoin.
Heartbeat(c) ==
  /\ known[c] # Unknown
  /\ \/ /\ Accepted(c)
        /\ fresh' = fresh \cup {c}
        /\ UNCHANGED consumer
     \/ /\ ~Accepted(c)
        /\ Forget(c)
        /\ UNCHANGED fresh
  /\ UNCHANGED <<State, Generation, Leader, Members, Metadata, joins>>

\* Mutants of Without: the leader is not replaced; the generation stays.
WithoutElection(gone) ==
  /\ Members' = Members \ gone
  /\ fresh' = fresh \ gone
  /\ IF Members' = {}
       THEN State' = "Empty" /\ Leader' = Nobody /\ Generation' = 0
       ELSE State' = "PreparingRebalance" /\ Generation' = Generation + 1 /\ Leader' = Leader
  /\ UNCHANGED Metadata
WithoutGeneration(gone) ==
  /\ Members' = Members \ gone
  /\ fresh' = fresh \ gone
  /\ IF Members' = {}
       THEN State' = "Empty" /\ Leader' = Nobody /\ Generation' = 0
       ELSE /\ State' = "PreparingRebalance" /\ Generation' = Generation
            /\ Leader' \in IF Leader \in gone THEN Members' ELSE {Leader}
  /\ UNCHANGED Metadata

\* The group without the members gone: empty, or in a new generation with
\* another leader if the leader is gone.
Without(gone) ==
  /\ Members' = Members \ gone
  /\ fresh' = fresh \ gone
  /\ IF Members' = {}
       THEN State' = "Empty" /\ Leader' = Nobody /\ Generation' = 0
       ELSE /\ State' = "PreparingRebalance" /\ Generation' = Generation + 1
            /\ Leader' \in IF Leader \in gone THEN Members' ELSE {Leader}
  /\ UNCHANGED Metadata

LeaveGroup(c) ==
  /\ known[c] # Unknown
  /\ Without({c})
  /\ Forget(c)
  /\ UNCHANGED joins

\* Mutant of CheckHeartbeats: it looks at stable groups only.
CheckHeartbeatsStable ==
  /\ State = "Stable" /\ Members \ fresh # {}
  /\ Without(Members \ fresh)
  /\ UNCHANGED <<consumer, joins>>

\* One pass of the heartbeat checker over the group.
CheckHeartbeats ==
  /\ Members \ fresh # {}
  /\ Without(Members \ fresh)
  /\ UNCHANGED <<consumer, joins>>

-----------------------------------------------------------------------------
(* Time and the consumers *)

\* The session timeout of a member passes without a heartbeat.
Lapse(c) ==
  /\ c \in fresh
  /\ fresh' = fresh \ {c}
  /\ UNCHANGED <<State, Generation, Leader, Members, Metadata, consumer, joins>>

\* A consumer stops and loses what it knew.
Crash(c) ==
  /\ known[c] # Unknown
  /\ Forget(c)
  /\ UNCHANGED <<group, joins>>

Next ==
  \/ \E c \in Consumers :
       \/ JoinGroup(c) \/ JoinGroupLost(c) \/ SyncGroup(c) \/ Heartbeat(c)
       \/ LeaveGroup(c) \/ Lapse(c) \/ Crash(c)
  \/ CheckHeartbeats

Spec == Init /\ [][Next]_vars

\* The checker's ticker keeps firing, and time passes for a consumer that has
\* stopped.
Silent(c) == known[c] = Unknown /\ Lapse(c)
Fairness == WF_vars(CheckHeartbeats) /\ \A c \in Consumers : WF_vars(Silent(c))
FairSpec == Spec /\ Fairness

-----------------------------------------------------------------------------
(* Properties *)

\* A consumer whose requests the coordinator accepts.
Current(c) == c \in Members /\ known[c] = Generation

\* Two consumers that the coordinator accepts in the current generation never
\* work with assignments made for different member lists, so no partition has
\* two accepted owners (the generation checks of SyncGroup and Heartbeat, the
\* generation JoinGroup starts in a stable group).
OwnersDisjoint ==
  \A c, d \in Consumers :
    Current(c) /\ Current(d) /\ held[c] # {} /\ held[d] # {} => held[c] = held[d]

\* When the members of a stable group change, no consumer that was a member
\* before is accepted until it joins again (the generation increments of
\* JoinGroup, LeaveGroup and checkHeartbeats).
ChangeFences ==
  [][State = "Stable" /\ Members' # Members =>
       \A c \in Members \cap Members' : known'[c] # Generation']_vars

\* A member that stopped is removed, or comes back (checkHeartbeats).
StoppedRemoved ==
  \A c \in Consumers :
    (c \in Members /\ known[c] = Unknown) ~> (c \notin Members \/ known[c] # Unknown)

\* "If this is the leader, store assignments for all members": in a stable group
\* every member has an assignment.
StableAssigned == State = "Stable" => \A m \in Members : Metadata[m] # {}

(***************************************************************************)
(* The inductive invariant.  Before the leader's SyncGroup no accepted     *)
(* consumer has an assignment, and after it they all have the leader's;    *)
(* the generation of a member's last join is never ahead of the group's.   *)
(***************************************************************************)
TypeOK ==
  /\ State \in {"Empty", "PreparingRebalance", "AwaitingSync", "Stable"}
  /\ Generation \in Nat /\ Leader \in Consumers \cup {Nobody}
  /\ Members \subseteq Consumers /\ fresh \subseteq Consumers
  /\ Metadata \in [Consumers -> SUBSET Consumers]
  /\ known \in [Consumers -> Int]
  /\ list \in [Consumers -> SUBSET Consumers]
  /\ held \in [Consumers -> SUBSET Consumers]
  /\ joins \in Nat

\* The leader is a member, and only an empty group has none.
Led ==
  /\ Members = {} => State = "Empty" /\ Generation = 0
  /\ Members # {} => State # "Empty" /\ Leader \in Members
NotAhead == \A c \in Members : known[c] <= Generation
Unsynced ==
  State # "Stable" => \A c \in Consumers : Current(c) => held[c] = {} /\ Metadata[c] = {}
Synced ==
  State = "Stable" =>
    /\ Current(Leader) => list[Leader] = {}
    /\ \A c, d \in Consumers : Current(c) /\ Current(d) =>
         \A x \in {held[c], Metadata[c]}, y \in {held[d], Metadata[d]} :
           x # {} /\ y # {} => x = y

\* The group always has a leader among its members, and the accepted consumers
\* agree on one assignment (all handlers of the coordinator together).
GroupInv == TypeOK /\ Led /\ NotAhead /\ Unsynced /\ Synced

=============================================================================
