------------------------------ MODULE MCStorage ------------------------------
(***************************************************************************)
(* The stores for TLC.  They share no state, so a behaviour is about one   *)
(* part: the writer of the WAL, concurrent calls of a WAL reader on a      *)
(* finished segment, the Dragonfly store, or one of the embedded stores.   *)
(***************************************************************************)
EXTENDS WAL, WALReader, DragonflyStore, EmbeddedStores

VARIABLE part

storageVars == <<vars, readerVars, dfVars, esVars, part>>

\* The first message is of the topic "t", the others of "u".
TopicOf == [m \in DfIds |-> IF m \in DfTtl THEN "t" ELSE "u"]

StorageInit ==
  /\ part \in {"wal", "reader", "dragonfly", "embedded"}
  /\ Init
  /\ NewDragonflyStore /\ (part # "dragonfly" => dfAcked = {})
  /\ NewWALReader /\ (part # "reader" => segment = <<>>)
  /\ NewStore /\ (part # "embedded" => esKind = "server")

StorageNext ==
  /\ \/ part = "wal" /\ Next /\ UNCHANGED <<readerVars, dfVars, esVars>>
     \/ part = "reader" /\ ReaderNext /\ UNCHANGED <<vars, dfVars, esVars>>
     \/ part = "dragonfly" /\ DragonflyNext /\ UNCHANGED <<vars, readerVars, esVars>>
     \/ part = "embedded" /\ EmbeddedNext /\ UNCHANGED <<vars, readerVars, dfVars>>
  /\ UNCHANGED part

StorageSpec == StorageInit /\ [][StorageNext]_storageVars /\ (part = "wal" => Fairness)
=============================================================================
