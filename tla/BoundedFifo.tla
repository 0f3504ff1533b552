----------------------------- MODULE BoundedFifo -----------------------------
(***************************************************************************)
(* What a LockFreeQueue promises its callers: a first-in first-out queue   *)
(* that holds at most Capacity messages, in which every message is put     *)
(* once and taken once.                                                    *)
(***************************************************************************)
EXTENDS Naturals, Sequences

CONSTANTS Msg, Capacity

VARIABLES queue, taken

fifoVars == <<queue, taken>>

Queued == {queue[i] : i \in DOMAIN queue}

FifoInit == queue = <<>> /\ taken = {}

Put(m) ==
  /\ m \notin Queued \cup taken
  /\ Len(queue) < Capacity
  /\ queue' = Append(queue, m)
  /\ UNCHANGED taken

Take ==
  /\ queue # <<>>
  /\ taken' = taken \cup {Head(queue)}
  /\ queue' = Tail(queue)

FifoNext == Take \/ \E m \in Msg : Put(m)

FifoSpec == FifoInit /\ [][FifoNext]_fifoVars
=============================================================================
