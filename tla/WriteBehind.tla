----------------------------- MODULE WriteBehind -----------------------------
(***************************************************************************)
(* What the batch writers of pkg/processor promise of the messages they    *)
(* accept: they are stored in the order of acceptance, in batches that     *)
(* start at the oldest message not yet known to be stored.  A batch whose  *)
(* write fails may have been stored in part, and is written again, so a    *)
(* message may be stored more than once, but none is passed over.          *)
(***************************************************************************)
EXTENDS Naturals, Sequences

CONSTANT Messages

VARIABLES log,      \* the messages accepted, in order
          done,     \* how many of them are known to be stored
          stored    \* what the storage was given

vars == <<log, done, stored>>

Init == log = <<>> /\ done = 0 /\ stored = <<>>

Accept(m) ==
  /\ \A i \in DOMAIN log : log[i] # m
  /\ log' = Append(log, m)
  /\ UNCHANGED <<done, stored>>

\* One attempt to write the messages after done; the writer learns that they
\* are stored, or that the write failed.
Attempt(n) ==
  /\ n \in done .. Len(log)
  /\ stored' = stored \o SubSeq(log, done + 1, n)
  /\ done' \in {done, n}
  /\ UNCHANGED log

Next == (\E m \in Messages : Accept(m)) \/ (\E n \in 0 .. Len(log) : Attempt(n))

Spec == Init /\ [][Next]_vars
=============================================================================
