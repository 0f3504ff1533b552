--------------------------- MODULE MCLockFreeQueue ---------------------------
(***************************************************************************)
(* LockFreeQueue for TLC.  A ring has one drop policy for life: behaviours *)
(* of DropPolicy, of Block, or of both, as Policies says.                  *)
(***************************************************************************)
EXTENDS LockFreeQueue

CONSTANT Policies
ASSUME PoliciesAssumption == Policies \subseteq {DropPolicy, "Block"}

VARIABLE policy

Blocking == INSTANCE LockFreeQueue WITH DropPolicy <- "Block", ForceDrop <- FALSE

PoliciesInit == Init /\ policy \in Policies

PoliciesNext ==
  /\ \/ policy = DropPolicy /\ Next
     \/ policy = "Block" /\ Blocking!Next
  /\ UNCHANGED policy

\* The fairness of LockFreeQueue, under either policy.
Producer(p) ==
  /\ IF policy = "Block" THEN Blocking!EnqueueStep(p) \/ DequeueStep(p)
                         ELSE EnqueueStep(p) \/ DequeueStep(p)
  /\ UNCHANGED policy
Consumer(c) == (DequeueCall(c) \/ DequeueStep(c)) /\ UNCHANGED policy

PoliciesSpec ==
  /\ PoliciesInit /\ [][PoliciesNext]_<<vars, policy>>
  /\ \A p \in Producers : WF_<<vars, policy>>(Producer(p))
  /\ \A c \in Consumers : WF_<<vars, policy>>(Consumer(c))
=============================================================================
