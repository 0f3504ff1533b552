---------------------------- MODULE MCMessageBus ----------------------------
(* Model values for MessageBus. *)
EXTENDS MessageBus

CONSTANTS m1, m2, m3, t1
\* Two messages of one topic and one of low priority; or all of high priority.
TopicOrHigh ==
  {[m \in Messages |-> IF m = m3 THEN "low" ELSE t1], [m \in Messages |-> "high"]}
=============================================================================
