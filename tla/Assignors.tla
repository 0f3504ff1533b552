------------------------------ MODULE Assignors ------------------------------
(***************************************************************************)
(* The four partition assignors: RoundRobinAssignor and RangeAssignor of   *)
(* pkg/kafka/consumer_groups.go, and the two rebalance policies of         *)
(* pkg/kafka/group_coordinator.go.  Members come as a sequence (the code   *)
(* takes them from a map or from a slice), a topic's partitions as a       *)
(* sequence; an assignment is the set of <<topic, partition>> per member.  *)
(***************************************************************************)
EXTENDS Integers, Sequences

\* The topics of a map in the order the iteration meets them, flattened.
Flatten(topics, parts) ==
  LET flat[i \in 0 .. Len(topics)] ==
        IF i = 0 THEN <<>>
        ELSE flat[i - 1] \o [j \in 1 .. Len(parts[topics[i]]) |-> <<topics[i], parts[topics[i]][j]>>]
  IN flat[Len(topics)]

\* Mutant: the first partition is skipped.
DealtShifted(members, all, m) == {all[i] : i \in {j \in 1 .. Len(all) : members[(j % Len(members)) + 1] = m /\ j > 1}}

\* The i-th partition (from 0) goes to the member at i % len(members).
Dealt(members, all, m) == {all[i] : i \in {j \in 1 .. Len(all) : members[((j - 1) % Len(members)) + 1] = m}}

\* No members: the empty assignment.
RoundRobinAssign(members, topics, parts) ==
  [m \in {members[i] : i \in 1 .. Len(members)} |-> Dealt(members, Flatten(topics, parts), m)]

\* The policy groups a member's partitions by topic, which an assignment as a set does
\* not show; it divides by len(members), so it needs a member.
RoundRobinPolicy(members, topics, parts) == RoundRobinAssign(members, topics, parts)

\* numPartitions of the i-th of k members (from 1) for n partitions.
Share(n, k, i) == (n \div k) + (IF i <= n % k THEN 1 ELSE 0)

\* currentPartition when the loop comes to the i-th member.
FirstOf(n, k, i) ==
  LET first[j \in 1 .. k] == IF j = 1 THEN 0 ELSE first[j - 1] + Share(n, k, j - 1) IN first[i]

\* The slice of one topic's partitions the i-th member gets.  The assignor of
\* consumer_groups.go also stops at the end of the partitions.
Slice(p, k, i) ==
  {p[j] : j \in {x \in (FirstOf(Len(p), k, i) + 1) .. (FirstOf(Len(p), k, i) + Share(Len(p), k, i)) : x <= Len(p)}}

RangeAssign(members, topics, parts) ==
  [m \in {members[i] : i \in 1 .. Len(members)} |->
     UNION {UNION {{topics[t]} \X Slice(parts[topics[t]], Len(members), i) :
                     i \in {j \in 1 .. Len(members) : members[j] = m}} : t \in 1 .. Len(topics)}]

RangePolicy(members, topics, parts) == RangeAssign(members, topics, parts)

=============================================================================
