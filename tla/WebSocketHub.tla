---------------------------- MODULE WebSocketHub ----------------------------
(***************************************************************************)
(* pkg/api/websocket.go: the hub goroutine, and per client a reader and a  *)
(* writer.  The hub receives on the unbuffered channels register and       *)
(* unregister and on broadcast; a client's send channel holds WsBuffer     *)
(* messages.  A full one makes whoever found it send the client on         *)
(* unregister; when that is the hub itself nobody is left to receive.      *)
(***************************************************************************)
EXTENDS Integers, FiniteSets

CONSTANTS WsClients, WsBuffer,
          MaxBroadcasts,    \* capacity of broadcast
          WsMaxMessages     \* bound: messages the clients send

VARIABLES
  wsHub,        \* "idle", "broadcast", "ping", "unregister" (sending to itself) or "stopped"
  wsLeft,       \* the clients the hub has still to send to
  wsClients,    \* ws.clients
  wsSubs,       \* ws.subscriptions of one topic
  wsTopics,     \* the clients with the topic in subscribedTopics
  wsSend,       \* per client: messages in its send channel
  wsClosed,     \* the clients whose send channel is closed
  wsReader,     \* per client: "off", "read", "publish", "full" (a response did not fit) or "leave", "gone"
  wsWriter,     \* the clients with a writer
  wsBroadcast,  \* messages in broadcast
  wsCrash,      \* what ended the program: "closed" (a send on a closed channel), "map" (a
                \* map written while it is iterated), or "" while it runs
  wsOverflow,   \* a send channel was found full
  wsCount       \* messages the clients have sent

wsVars == <<wsHub, wsLeft, wsClients, wsSubs, wsTopics, wsSend, wsClosed, wsReader, wsWriter, wsBroadcast,
            wsCrash, wsOverflow, wsCount>>

NewWebSocketServer ==
  /\ wsHub = "idle" /\ wsLeft = {} /\ wsClients = {} /\ wsSubs = {} /\ wsTopics = {}
  /\ wsSend = [c \in WsClients |-> 0] /\ wsClosed = {} /\ wsReader = [c \in WsClients |-> "off"]
  /\ wsWriter = {} /\ wsBroadcast = 0 /\ wsCrash = "" /\ wsOverflow = FALSE /\ wsCount = 0

\* HandleWebSocket and the hub's case register, with the welcome message.
Register(c) ==
  /\ wsCrash = "" /\ wsHub = "idle" /\ wsReader[c] = "off"
  /\ wsClients' = wsClients \cup {c} /\ wsSend' = [wsSend EXCEPT ![c] = 1]
  /\ wsReader' = [wsReader EXCEPT ![c] = "read"] /\ wsWriter' = wsWriter \cup {c}
  /\ UNCHANGED <<wsHub, wsLeft, wsSubs, wsTopics, wsClosed, wsBroadcast, wsCrash, wsOverflow, wsCount>>

\* sendResponse of client c by its reader, which goes on to read unless it has to unregister.
sendResponse(c) ==
  IF c \in wsClosed THEN wsCrash' = "closed" /\ UNCHANGED <<wsSend, wsReader, wsOverflow>>
  ELSE IF wsSend[c] < WsBuffer
       THEN /\ wsSend' = [wsSend EXCEPT ![c] = @ + 1] /\ wsReader' = [wsReader EXCEPT ![c] = "read"]
            /\ UNCHANGED <<wsCrash, wsOverflow>>
       ELSE /\ wsReader' = [wsReader EXCEPT ![c] = "full"] /\ wsOverflow' = TRUE
            /\ UNCHANGED <<wsSend, wsCrash>>

\* handleMessage: subscribe, unsubscribe, or anything that is only answered, an error
\* included.  A broadcast iterates the map of the topic while subscribe and unsubscribe
\* change it: it visits a new entry or not, and no deleted one ...
handleMessage(c) ==
  /\ wsCrash = "" /\ wsReader[c] = "read" /\ wsCount < WsMaxMessages /\ wsCount' = wsCount + 1
  /\ \/ /\ wsSubs' = wsSubs \cup {c} /\ wsTopics' = wsTopics \cup {c}
        /\ wsLeft' \in {wsLeft, IF wsHub = "broadcast" THEN wsLeft \cup {c} ELSE wsLeft}
     \/ /\ wsSubs' = wsSubs \ {c} /\ wsTopics' = wsTopics \ {c}
        /\ wsLeft' = IF wsHub = "broadcast" THEN wsLeft \ {c} ELSE wsLeft
     \/ UNCHANGED <<wsSubs, wsTopics, wsLeft>>
  /\ sendResponse(c)
  /\ UNCHANGED <<wsHub, wsClients, wsClosed, wsWriter, wsBroadcast>>

\* ... or the runtime notices and ends the program.
MapRace(c) ==
  /\ wsCrash = "" /\ wsReader[c] = "read" /\ wsHub = "broadcast" /\ wsLeft # {} /\ wsCrash' = "map"
  /\ UNCHANGED <<wsHub, wsLeft, wsClients, wsSubs, wsTopics, wsSend, wsClosed, wsReader, wsWriter, wsBroadcast,
                 wsOverflow, wsCount>>

\* handlePublish: stored, then sent on broadcast, which waits while that is full ...
handlePublish(c) ==
  /\ wsCrash = "" /\ wsReader[c] = "read" /\ wsCount < WsMaxMessages /\ wsCount' = wsCount + 1
  /\ wsBroadcast < MaxBroadcasts /\ wsBroadcast' = wsBroadcast + 1
  /\ wsReader' = [wsReader EXCEPT ![c] = "publish"]
  /\ UNCHANGED <<wsHub, wsLeft, wsClients, wsSubs, wsTopics, wsSend, wsClosed, wsWriter, wsCrash, wsOverflow>>

\* ... and then the confirmation.
Confirm(c) ==
  /\ wsCrash = "" /\ wsReader[c] = "publish" /\ sendResponse(c)
  /\ UNCHANGED <<wsHub, wsLeft, wsClients, wsSubs, wsTopics, wsClosed, wsWriter, wsBroadcast, wsCount>>

\* The connection fails, or the writer has closed it: the reader ends.
ReadError(c) ==
  /\ wsCrash = "" /\ wsReader[c] = "read" /\ wsReader' = [wsReader EXCEPT ![c] = "leave"]
  /\ UNCHANGED <<wsHub, wsLeft, wsClients, wsSubs, wsTopics, wsSend, wsClosed, wsWriter, wsBroadcast, wsCrash,
                 wsOverflow, wsCount>>

\* writePump: everything in the channel in one message, a failed write, or the channel's end.
writePump(c) ==
  /\ wsCrash = "" /\ c \in wsWriter
  /\ \/ wsSend[c] > 0 /\ wsSend' = [wsSend EXCEPT ![c] = 0] /\ wsWriter' \in {wsWriter, wsWriter \ {c}}
     \/ (c \in wsClosed => wsSend[c] = 0) /\ wsWriter' = wsWriter \ {c} /\ UNCHANGED wsSend
  /\ UNCHANGED <<wsHub, wsLeft, wsClients, wsSubs, wsTopics, wsClosed, wsReader, wsBroadcast, wsCrash,
                 wsOverflow, wsCount>>

-----------------------------------------------------------------------------
(* The hub *)

\* Mutant: the subscriptions stay.
UnregisterOnly(c) ==
  /\ wsCrash = "" /\ wsHub = "idle" /\ wsReader[c] \in {"full", "leave"}
  /\ wsClients' = wsClients \ {c} /\ wsClosed' = wsClosed \cup {c}
  /\ wsReader' = [wsReader EXCEPT ![c] = IF @ = "full" THEN "read" ELSE "gone"]
  /\ UNCHANGED <<wsHub, wsLeft, wsSubs, wsTopics, wsSend, wsWriter, wsBroadcast, wsCrash, wsOverflow, wsCount>>

\* The hub's case unregister, with unsubscribeAll; a client that is not registered any
\* more is left alone.  The reader that sent it goes on, to read or to its end.
Unregister(c) ==
  /\ wsCrash = "" /\ wsHub = "idle" /\ wsReader[c] \in {"full", "leave"}
  /\ IF c \in wsClients
     THEN /\ wsClients' = wsClients \ {c} /\ wsClosed' = wsClosed \cup {c}
          /\ wsSubs' = wsSubs \ {c} /\ wsTopics' = wsTopics \ {c}
     ELSE UNCHANGED <<wsClients, wsClosed, wsSubs, wsTopics>>
  /\ wsReader' = [wsReader EXCEPT ![c] = IF @ = "full" THEN "read" ELSE "gone"]
  /\ UNCHANGED <<wsHub, wsLeft, wsSend, wsWriter, wsBroadcast, wsCrash, wsOverflow, wsCount>>

\* The case broadcast, to the subscribers of the topic, or the ticker, to every client.
broadcastMessage ==
  /\ wsCrash = "" /\ wsHub = "idle"
  /\ \/ wsHub' = "broadcast" /\ wsBroadcast > 0 /\ wsBroadcast' = wsBroadcast - 1 /\ wsLeft' = wsSubs
     \/ wsHub' = "ping" /\ wsLeft' = wsClients /\ wsClients # {} /\ UNCHANGED wsBroadcast
  /\ UNCHANGED <<wsClients, wsSubs, wsTopics, wsSend, wsClosed, wsReader, wsWriter, wsCrash, wsOverflow, wsCount>>

\* One client of broadcastMessage or pingClients.  A full channel: ws.unregister <- client.
HubSend(c) ==
  /\ wsCrash = "" /\ wsHub \in {"broadcast", "ping"} /\ c \in wsLeft /\ wsLeft' = wsLeft \ {c}
  /\ IF c \in wsClosed THEN wsCrash' = "closed" /\ UNCHANGED <<wsHub, wsSend, wsOverflow>>
     ELSE IF wsSend[c] < WsBuffer
          THEN wsSend' = [wsSend EXCEPT ![c] = @ + 1] /\ UNCHANGED <<wsHub, wsCrash, wsOverflow>>
          ELSE wsHub' = "unregister" /\ wsOverflow' = TRUE /\ UNCHANGED <<wsSend, wsCrash>>
  /\ UNCHANGED <<wsClients, wsSubs, wsTopics, wsClosed, wsReader, wsWriter, wsBroadcast, wsCount>>

\* The loop over the clients ends, or the hub sees the end of its context.
HubDone ==
  /\ wsCrash = ""
  /\ \/ wsHub \in {"broadcast", "ping"} /\ wsLeft = {} /\ wsHub' = "idle"
     \/ wsHub = "idle" /\ wsHub' = "stopped"
  /\ UNCHANGED <<wsLeft, wsClients, wsSubs, wsTopics, wsSend, wsClosed, wsReader, wsWriter, wsBroadcast, wsCrash,
                 wsOverflow, wsCount>>

WebSocketNext ==
  \/ broadcastMessage \/ HubDone
  \/ \E c \in WsClients : \/ Register(c) \/ handleMessage(c) \/ handlePublish(c) \/ Confirm(c)
                          \/ ReadError(c) \/ writePump(c) \/ MapRace(c) \/ Unregister(c) \/ HubSend(c)

-----------------------------------------------------------------------------
(* Properties *)

\* A registered client's channel is open, the registry of subscriptions and the clients'
\* own agree, a client that is gone is in neither, and while no buffer has been found full
\* nobody sends on a closed channel (register, unregister, subscribe, unsubscribeAll).
HubConsistent ==
  /\ wsClients \cap wsClosed = {} /\ wsSubs = wsTopics
  /\ \A c \in WsClients : wsReader[c] = "gone" => c \notin wsSubs
  /\ wsCrash = "closed" => wsOverflow
=============================================================================
