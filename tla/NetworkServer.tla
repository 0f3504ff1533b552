---------------------------- MODULE NetworkServer ----------------------------
(***************************************************************************)
(* pkg/network/server.go and protocol.go: the TCP server, one goroutine    *)
(* that accepts and one per connection that runs the protocol handler.     *)
(***************************************************************************)
EXTENDS Integers, FiniteSets

CONSTANTS Clients, MaxConnections,
          MaxRequests       \* bound: requests a client sends

VARIABLES
  nsRunning, nsCancelled,
  nsLoop,       \* acceptLoop: "off", "accept", or "count" (handler started, not yet counted)
  nsCount,      \* connCount
  nsClient,     \* per client: "out", "knocks", "up" or "down"
  nsConn,       \* per client: its connection [pc, connected, listed, topics]
  nsAsked,      \* per client: requests sent
  nsStored,     \* per client: the messages of it that were stored
  nsStop        \* Stop: "no", "closing", "waiting", "stopped" or "force_stopped"

nsVars == <<nsRunning, nsCancelled, nsLoop, nsCount, nsClient, nsConn, nsAsked, nsStored, nsStop>>
nsProtocol == <<nsAsked, nsStored>>

\* pc of a handler: "loop" at the head of HandleConnection, "failed" after an error,
\* "leave" when it has returned, "gone".
NoConnection == [pc |-> "none", connected |-> FALSE, listed |-> FALSE, topics |-> {}]
Handlers == {c \in Clients : nsConn[c].pc \in {"loop", "failed", "leave"}}

NewTCPServer ==
  /\ nsRunning = FALSE /\ nsCancelled = FALSE /\ nsLoop = "off" /\ nsCount = 0 /\ nsStop = "no"
  /\ nsClient = [c \in Clients |-> "out"] /\ nsConn = [c \in Clients |-> NoConnection]
  /\ nsAsked = [c \in Clients |-> 0] /\ nsStored = [c \in Clients |-> 0]

StartListening ==
  /\ ~nsRunning /\ nsStop = "no" /\ nsRunning' = TRUE /\ nsLoop' = "accept"
  /\ UNCHANGED <<nsCancelled, nsCount, nsClient, nsConn, nsProtocol, nsStop>>

ClientConnects(c) ==
  /\ nsClient[c] = "out" /\ nsRunning /\ nsClient' = [nsClient EXCEPT ![c] = "knocks"]
  /\ UNCHANGED <<nsRunning, nsCancelled, nsLoop, nsCount, nsConn, nsProtocol, nsStop>>

ClientLeaves(c) ==
  /\ nsClient[c] = "up" /\ nsClient' = [nsClient EXCEPT ![c] = "down"]
  /\ UNCHANGED <<nsRunning, nsCancelled, nsLoop, nsCount, nsConn, nsProtocol, nsStop>>

-----------------------------------------------------------------------------
(* acceptLoop *)

\* Mutant: the limit is compared with one more than it is.
FullOneMore == MaxConnections > 0 /\ nsCount > MaxConnections

AtLimit == MaxConnections > 0 /\ nsCount >= MaxConnections

newConnection(c) ==
  nsConn' = [nsConn EXCEPT ![c] = [pc |-> "loop", connected |-> TRUE, listed |-> TRUE, topics |-> {}]]

\* A connection is accepted: closed at the limit, else wrapped, with its handler started.
Accept(c) ==
  /\ nsLoop = "accept" /\ nsRunning /\ nsClient[c] = "knocks"
  /\ \/ AtLimit /\ nsClient' = [nsClient EXCEPT ![c] = "down"] /\ UNCHANGED <<nsConn, nsLoop>>
     \/ ~AtLimit /\ nsClient' = [nsClient EXCEPT ![c] = "up"] /\ newConnection(c) /\ nsLoop' = "count"
  /\ UNCHANGED <<nsRunning, nsCancelled, nsCount, nsProtocol, nsStop>>

\* The connection is counted after its goroutine has been started.
CountConnection ==
  /\ nsLoop = "count" /\ nsLoop' = "accept" /\ nsCount' = nsCount + 1
  /\ UNCHANGED <<nsRunning, nsCancelled, nsClient, nsConn, nsProtocol, nsStop>>

\* The listener is closed, or running is found 0.
LeaveAccept ==
  /\ nsLoop = "accept" /\ ~nsRunning /\ nsLoop' = "off"
  /\ UNCHANGED <<nsRunning, nsCancelled, nsCount, nsClient, nsConn, nsProtocol, nsStop>>

-----------------------------------------------------------------------------
(* The handler of a connection *)

\* processMessage: the header and the checksum are validated, then the handler for the
\* type runs.  kind: what the client sent; zipped: with a compressed payload; stores: the
\* storage takes or has what is asked of it.  A fetch is decompressed whatever its flags
\* say; a fetch that storage refuses is still answered.
Handled(kind, zipped, stores) ==
  CASE kind = "invalid"   -> [ok |-> FALSE, stored |-> 0, topics |-> {}]
    [] kind = "publish"   -> [ok |-> stores, stored |-> IF stores THEN 1 ELSE 0, topics |-> {}]
    [] kind = "subscribe" -> [ok |-> TRUE, stored |-> 0, topics |-> {"t"}]
    [] kind = "fetch"     -> [ok |-> zipped, stored |-> 0, topics |-> {}]
    [] kind = "heartbeat" -> [ok |-> TRUE, stored |-> 0, topics |-> {}]

\* One round of HandleConnection with a message: the answer is the handler's response or,
\* after an error, the error response; every error processMessage returns is taken for
\* recoverable, since it is wrapped.
processMessage(c) ==
  /\ nsConn[c].pc = "loop" /\ ~nsCancelled /\ nsClient[c] = "up" /\ nsConn[c].connected
  /\ nsAsked[c] < MaxRequests /\ nsAsked' = [nsAsked EXCEPT ![c] = @ + 1]
  /\ \E kind \in {"invalid", "publish", "subscribe", "fetch", "heartbeat"}, zipped, stores \in BOOLEAN :
       LET done == Handled(kind, zipped, stores) IN
       /\ nsStored' = [nsStored EXCEPT ![c] = @ + done.stored]
       /\ nsConn' = [nsConn EXCEPT ![c] = [@ EXCEPT !.topics = @ \cup done.topics,
                                                    !.pc = IF done.ok THEN "loop" ELSE "failed"]]
  /\ UNCHANGED <<nsRunning, nsCancelled, nsLoop, nsCount, nsClient, nsStop>>

\* Nothing to read: the client is gone (io.EOF), the connection is closed, or, at any time,
\* the read deadline has passed.  The error is wrapped with "failed to read header", so it is
\* never equal to io.EOF.
ReadFails(c) ==
  /\ nsConn[c].pc = "loop" /\ ~nsCancelled
  /\ nsConn' = [nsConn EXCEPT ![c].pc = "failed"]
  /\ UNCHANGED <<nsRunning, nsCancelled, nsLoop, nsCount, nsClient, nsProtocol, nsStop>>

\* isRecoverableError of the wrapped error.
ContinueLoop(c) ==
  /\ nsConn[c].pc = "failed" /\ nsConn' = [nsConn EXCEPT ![c].pc = "loop"]
  /\ UNCHANGED <<nsRunning, nsCancelled, nsLoop, nsCount, nsClient, nsProtocol, nsStop>>

\* ctx.Done at the head of the loop.
LeaveHandler(c) ==
  /\ nsConn[c].pc = "loop" /\ nsCancelled /\ nsConn' = [nsConn EXCEPT ![c].pc = "leave"]
  /\ UNCHANGED <<nsRunning, nsCancelled, nsLoop, nsCount, nsClient, nsProtocol, nsStop>>

\* Nothing more is done for a connection that Stop has closed: it stays in the map and in
\* the count.
closeConnection(c) ==
  /\ nsConn[c].pc = "leave"
  /\ IF nsConn[c].connected
     THEN /\ nsConn' = [nsConn EXCEPT ![c] = [NoConnection EXCEPT !.pc = "gone"]] /\ nsCount' = nsCount - 1
          /\ nsClient' = [nsClient EXCEPT ![c] = "down"]
     ELSE nsConn' = [nsConn EXCEPT ![c].pc = "gone"] /\ UNCHANGED <<nsCount, nsClient>>
  /\ UNCHANGED <<nsRunning, nsCancelled, nsLoop, nsProtocol, nsStop>>

-----------------------------------------------------------------------------
(* Stop *)

\* The listener is closed and the context cancelled ...
Stop ==
  /\ nsRunning /\ nsRunning' = FALSE /\ nsCancelled' = TRUE /\ nsStop' = "closing"
  /\ UNCHANGED <<nsLoop, nsCount, nsClient, nsConn, nsProtocol>>

\* ... every connection in the map is closed (one accepted meanwhile may be missed) ...
CloseListed ==
  /\ nsStop = "closing" /\ nsStop' = "waiting"
  /\ nsConn' = [c \in Clients |-> IF nsConn[c].listed THEN [nsConn[c] EXCEPT !.connected = FALSE] ELSE nsConn[c]]
  /\ UNCHANGED <<nsRunning, nsCancelled, nsLoop, nsCount, nsClient, nsProtocol>>

\* ... and Stop waits for the goroutines, or for its own context.
StopReturns ==
  /\ nsStop = "waiting"
  /\ \/ nsLoop = "off" /\ Handlers = {} /\ nsStop' = "stopped"
     \/ ~(nsLoop = "off" /\ Handlers = {}) /\ nsStop' = "force_stopped"
  /\ UNCHANGED <<nsRunning, nsCancelled, nsLoop, nsCount, nsClient, nsConn, nsProtocol>>

Serve(c) == processMessage(c) \/ ReadFails(c) \/ ContinueLoop(c) \/ LeaveHandler(c) \/ closeConnection(c)

NetworkNext ==
  \/ StartListening \/ CountConnection \/ LeaveAccept \/ Stop \/ CloseListed \/ StopReturns
  \/ \E c \in Clients : ClientConnects(c) \/ ClientLeaves(c) \/ Accept(c) \/ Serve(c)

\* Every goroutine that can run does.
NetworkSpec ==
  /\ NewTCPServer /\ [][NetworkNext]_nsVars
  /\ WF_nsVars(CountConnection \/ LeaveAccept \/ \E c \in Clients : Accept(c))
  /\ \A c \in Clients : WF_nsVars(Serve(c))

-----------------------------------------------------------------------------
(* Properties *)

\* Never more handlers than MaxConnections, although a handler is counted only after it
\* has been started and may have ended by then; and once nothing is being accepted, the
\* count is that of the connections that closeConnection has still to close or will never
\* close (acceptLoop, closeConnection).
ConnectionLimit ==
  /\ MaxConnections > 0 => Cardinality(Handlers) <= MaxConnections
  /\ nsLoop # "count" => nsCount = Cardinality({c \in Clients : nsConn[c].listed})

\* The handler of a client that has disconnected ends ("Client disconnected", the return of
\* HandleConnection).
DisconnectEnds == \A c \in Clients : (nsConn[c].pc = "loop" /\ nsClient[c] = "down") ~> nsConn[c].pc = "gone"
=============================================================================
