--------------------------- MODULE EmbeddedStores ---------------------------
(***************************************************************************)
(* The stores that run in the process: BadgerDB, RocksDB, DuckDB, the two  *)
(* in-memory stores of pkg/storage and the one of cmd/server.  esKind says *)
(* which.  The databases are external: a transaction or a write batch is   *)
(* applied as a whole or not at all; DuckDB's table has the id as primary  *)
(* key, the others overwrite.  A Go map that two goroutines use at once    *)
(* may end the process.                                                    *)
(***************************************************************************)
EXTENDS Integers, FiniteSets

CONSTANTS EsClients,
          EsBatch, EsSingles,   \* the messages stored as one batch, and one by one
          MaxWrites             \* bound: messages written

ASSUME EmbeddedAssumption ==
  /\ IsFiniteSet(EsClients) /\ IsFiniteSet(EsBatch) /\ IsFiniteSet(EsSingles)
  /\ EsBatch \cap EsSingles = {}

Databases == {"badger", "rocksdb", "duckdb"}
Maps == {"memory", "server"}

VARIABLES
  esKind,
  esRows,       \* ids of the stored messages
  esWritten,    \* messagesWritten, or the counter of the bypass store
  esDeleted,    \* rows deleted so far
  esOffset, esNextOffset,       \* InMemoryStorage: the offsets Store gave, and nextOffset
  esOp,         \* per client: [at, ids still to do, tx: ids in the transaction]
  esCrashed     \* the Go runtime has found two users of a map

esVars == <<esKind, esRows, esWritten, esDeleted, esOffset, esNextOffset, esOp, esCrashed>>
NoOp == [at |-> "idle", ids |-> {}, tx |-> {}]

NewStore ==
  /\ esKind \in Databases \cup Maps \cup {"bypass"}
  /\ esRows = {} /\ esWritten = 0 /\ esDeleted = 0 /\ esNextOffset = 0
  /\ esOffset = [m \in EsSingles |-> -1]
  /\ esOp = [c \in EsClients |-> NoOp] /\ esCrashed = FALSE

Is(kind, c, where) == esKind = kind /\ esOp[c].at = where /\ ~esCrashed
Goes(c, r) == esOp' = [esOp EXCEPT ![c] = r]

-----------------------------------------------------------------------------
(* The databases *)

\* One write; the counter is added to afterwards.  An error changes nothing.
WriteRow(kind, c, m) ==
  /\ Is(kind, c, "idle") /\ esWritten < MaxWrites
  /\ esRows' = esRows \cup {m} /\ Goes(c, [NoOp EXCEPT !.at = "count", !.tx = {m}])
  /\ UNCHANGED <<esKind, esWritten, esDeleted, esOffset, esNextOffset, esCrashed>>

BeginTx(kind, c) ==
  /\ Is(kind, c, "idle") /\ esWritten < MaxWrites
  /\ Goes(c, [NoOp EXCEPT !.at = "tx", !.ids = EsBatch])
  /\ UNCHANGED <<esKind, esRows, esWritten, esDeleted, esOffset, esNextOffset, esCrashed>>

\* Mutant: the message is written at once, outside the transaction.
TxSetThrough(kind, c, m) ==
  /\ Is(kind, c, "tx") /\ m \in esOp[c].ids
  /\ Goes(c, [esOp[c] EXCEPT !.ids = @ \ {m}, !.tx = @ \cup {m}]) /\ esRows' = esRows \cup {m}
  /\ UNCHANGED <<esKind, esWritten, esDeleted, esOffset, esNextOffset, esCrashed>>

\* A message joins the transaction or the write batch.
TxSet(kind, c, m) ==
  /\ Is(kind, c, "tx") /\ m \in esOp[c].ids
  /\ Goes(c, [esOp[c] EXCEPT !.ids = @ \ {m}, !.tx = @ \cup {m}])
  /\ UNCHANGED <<esKind, esRows, esWritten, esDeleted, esOffset, esNextOffset, esCrashed>>

TxCommit(kind, c) ==
  /\ Is(kind, c, "tx") /\ esOp[c].ids = {}
  /\ esRows' = esRows \cup esOp[c].tx /\ Goes(c, [esOp[c] EXCEPT !.at = "count"])
  /\ UNCHANGED <<esKind, esWritten, esDeleted, esOffset, esNextOffset, esCrashed>>

\* A message that does not serialise, a failed write or commit: rolled back.
TxFail(kind, c) ==
  /\ Is(kind, c, "tx") /\ Goes(c, NoOp)
  /\ UNCHANGED <<esKind, esRows, esWritten, esDeleted, esOffset, esNextOffset, esCrashed>>

Count(kind, c) ==
  /\ Is(kind, c, "count") /\ Goes(c, NoOp)
  /\ esWritten' = esWritten + Cardinality(esOp[c].tx)
  /\ UNCHANGED <<esKind, esRows, esDeleted, esOffset, esNextOffset, esCrashed>>

BadgerStore(c) == (\E m \in EsSingles : WriteRow("badger", c, m)) \/ Count("badger", c)
BadgerStoreBatch(c) ==
  BeginTx("badger", c) \/ (\E m \in EsBatch : TxSet("badger", c, m)) \/ TxCommit("badger", c) \/ TxFail("badger", c)

RocksDBStore(c) == (\E m \in EsSingles : WriteRow("rocksdb", c, m)) \/ Count("rocksdb", c)
RocksDBStoreBatch(c) ==
  BeginTx("rocksdb", c) \/ (\E m \in EsBatch : TxSet("rocksdb", c, m)) \/ TxCommit("rocksdb", c) \/ TxFail("rocksdb", c)

\* The primary key refuses a second row with the same id.
NoRow(ids) == ids \cap esRows = {}

DuckDBStore(c) == (\E m \in EsSingles : NoRow({m}) /\ WriteRow("duckdb", c, m)) \/ Count("duckdb", c)
DuckDBStoreBatch(c) ==
  \/ BeginTx("duckdb", c) \/ (\E m \in EsBatch : NoRow({m}) /\ TxSet("duckdb", c, m))
  \/ (NoRow(esOp[c].tx) /\ TxCommit("duckdb", c)) \/ TxFail("duckdb", c)

DuckDBDelete(c, m) ==
  /\ Is("duckdb", c, "idle") /\ m \in esRows
  /\ esRows' = esRows \ {m} /\ esDeleted' = esDeleted + 1
  /\ UNCHANGED <<esKind, esWritten, esOffset, esNextOffset, esOp, esCrashed>>

\* The store for bypass tests only counts.
BypassStore(c) ==
  /\ Is("bypass", c, "idle") /\ esWritten < MaxWrites
  /\ \E n \in {1, Cardinality(EsBatch)} : esWritten' = esWritten + n
  /\ UNCHANGED <<esKind, esRows, esDeleted, esOffset, esNextOffset, esOp, esCrashed>>
BypassReset(c) ==
  /\ Is("bypass", c, "idle") /\ esWritten' = 0
  /\ UNCHANGED <<esKind, esRows, esDeleted, esOffset, esNextOffset, esOp, esCrashed>>

-----------------------------------------------------------------------------
(* The maps *)

InMap == {c \in EsClients : esOp[c].at = "map"}

\* Mutant: the mutex of InMemoryStorage is not taken.
MutexTaken == {}

\* InMemoryStorage has a mutex, the store of cmd/server has none.
Mutex == IF esKind = "memory" THEN InMap ELSE {}

\* A goroutine begins to store the messages of ids.
Enter(kind, c, ids) ==
  /\ Is(kind, c, "idle") /\ Mutex = {}
  /\ Goes(c, [NoOp EXCEPT !.at = "map", !.ids = ids])
  /\ UNCHANGED <<esKind, esRows, esWritten, esDeleted, esOffset, esNextOffset, esCrashed>>

\* One assignment to the map; StoreBatch keeps the offset the message has.
Assign(kind, c, m) ==
  /\ Is(kind, c, "map") /\ m \in esOp[c].ids
  /\ esRows' = esRows \cup {m}
  /\ Goes(c, [esOp[c] EXCEPT !.ids = @ \ {m}, !.at = IF esOp[c].ids = {m} THEN "idle" ELSE "map"])
  /\ IF kind = "memory" /\ m \in EsSingles
     THEN esOffset' = [esOffset EXCEPT ![m] = esNextOffset] /\ esNextOffset' = esNextOffset + 1
     ELSE UNCHANGED <<esOffset, esNextOffset>>
  /\ UNCHANGED <<esKind, esWritten, esDeleted, esCrashed>>

MemoryStore(c) == \/ esNextOffset < MaxWrites /\ \E m \in EsSingles : Enter("memory", c, {m})
                  \/ \E m \in EsSingles : Assign("memory", c, m)
MemoryStoreBatch(c) == Enter("memory", c, EsBatch) \/ \E m \in EsBatch : Assign("memory", c, m)

ServerStore(c) == \E m \in EsSingles : Enter("server", c, {m}) \/ Assign("server", c, m)
ServerStoreBatch(c) == Enter("server", c, EsBatch) \/ \E m \in EsBatch : Assign("server", c, m)

\* Delete and DeleteBatch of both.
MapDelete(c, m) ==
  /\ \/ Is("memory", c, "idle") /\ InMap = {}
     \/ Is("server", c, "idle")
  /\ esRows' = esRows \ {m}
  /\ UNCHANGED <<esKind, esWritten, esDeleted, esOffset, esNextOffset, esOp, esCrashed>>

\* Two goroutines are in the map at once: the Go runtime may stop the process.
ConcurrentMap ==
  /\ Cardinality(InMap) > 1 /\ ~esCrashed /\ esCrashed' = TRUE
  /\ UNCHANGED <<esKind, esRows, esWritten, esDeleted, esOffset, esNextOffset, esOp>>

EmbeddedNext ==
  \/ \E c \in EsClients :
       \/ BadgerStore(c) \/ BadgerStoreBatch(c) \/ RocksDBStore(c) \/ RocksDBStoreBatch(c)
       \/ DuckDBStore(c) \/ DuckDBStoreBatch(c) \/ BypassStore(c) \/ BypassReset(c)
       \/ MemoryStore(c) \/ MemoryStoreBatch(c) \/ ServerStore(c) \/ ServerStoreBatch(c)
       \/ \E m \in EsSingles : DuckDBDelete(c, m) \/ MapDelete(c, m)
  \/ ConcurrentMap

EmbeddedSpec == NewStore /\ [][EmbeddedNext]_esVars

-----------------------------------------------------------------------------
(* Properties *)

\* A batch is in a database as a whole or not at all, also while it is being written and
\* after it failed (the StoreBatch methods), and when no write is under way the counter
\* of DuckDB agrees with its table: every message written is a row or was deleted.
BatchAtomic ==
  /\ esKind \in Databases => esRows \cap EsBatch \in {{}, EsBatch}
  /\ esKind = "duckdb" /\ (\A c \in EsClients : esOp[c].at = "idle") =>
       esWritten = Cardinality(esRows) + esDeleted

\* Only the store of cmd/server can end the process; InMemoryStorage never gives two
\* stored messages the same offset (its mutex).
MapGuarded ==
  /\ esCrashed => esKind = "server"
  /\ \A m, n \in EsSingles : m # n /\ esOffset[m] # -1 => esOffset[m] # esOffset[n]

\* A batch is seen whole or not at all, and only the unguarded map of cmd/server can end
\* the process (StoreBatch, the mutexes of the in-memory stores).
EmbeddedAtomic == BatchAtomic /\ MapGuarded
=============================================================================
