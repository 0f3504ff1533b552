---------------------------- MODULE MCAMQPServer ----------------------------
(* Model values for AMQPServer. *)
EXTENDS AMQPServer

CONSTANTS c1, c2, m1, m2, m3, q1, q2
\* One connection publishes a message with an empty body and then one of two
\* frames with a routing key, the other connection one of a single frame.
Publisher == [m \in Messages |-> IF m = m3 THEN c2 ELSE c1]
Key == [m \in Messages |-> IF m = m2 THEN q1 ELSE None]
Size == [m \in Messages |-> CASE m = m1 -> 0 [] m = m2 -> 2 [] m = m3 -> 1]
\* Every connection has its channel, or both use channel 1 as clients do.
OwnOrShared == {[c \in Conns |-> IF c = c1 THEN 1 ELSE 2], [c \in Conns |-> 1]}
=============================================================================
