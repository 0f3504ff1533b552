--------------------------------- MODULE WAL ---------------------------------
(***************************************************************************)
(* The write-ahead log (pkg/storage/wal.go): a writer of entries and       *)
(* batches, the sync loop, Close, crashes and restarts.                    *)
(*                                                                         *)
(* A file is a sequence of units; an entry is a header unit and a data     *)
(* unit, written by two calls, and a header read together with any data    *)
(* but its own fails the checksum.  Offsets and sizes count units.  A file *)
(* system keeps what was synced; of the rest a crash keeps a prefix.       *)
(***************************************************************************)
EXTENDS Integers, Sequences, FiniteSets, Functions

CONSTANTS Data,          \* every datum is written once
          maxSegmentSize,
          MaxSegments,   \* bound: segment files
          MaxErrors,     \* bound: file operations that fail
          MaxRestarts    \* bound: restarts

ASSUME WALAssumption == maxSegmentSize \in Nat \ {0} /\ MaxSegments \in Nat \ {0}

SegmentIDs == 0 .. MaxSegments - 1
NoSegment == MaxSegments

VARIABLES up,            \* "open", "closed" or "down"
          file,          \* the units of each segment file
          durable,       \* how many of them a crash keeps
          segments,      \* the segments the writer has opened
          current, Size, nextSegmentID,
          Synced,        \* the flag of each segment
          todo,          \* the entries a Write or WriteBatch still has to write
          header,        \* whether the header of the first of them is written
          reply,         \* the entries it has written: [seg, off, data]
          written,       \* the data ever given to Write
          acks,          \* entries whose offset was returned since the last restart
          sync,          \* the segment Sync has taken, or NoSegment
          fsynced,       \* whether Sync has called File.Sync on it
          safe,          \* history: entries in a file when a File.Sync of it returned
          errors, restarts

disk == <<file, durable>>
writer == <<segments, current, Size, nextSegmentID>>
call == <<todo, header, reply, written, acks>>
syncer == <<sync, fsynced, safe>>
vars == <<up, disk, writer, Synced, call, syncer, errors, restarts>>

Entry(d) == <<<<"header", d>>, <<"data", d>>>>

Init ==
  /\ up = "open"
  /\ file = [s \in SegmentIDs |-> <<>>] /\ durable = [s \in SegmentIDs |-> 0]
  /\ segments = {0} /\ current = 0 /\ Size = 0 /\ nextSegmentID = 1
  /\ Synced = [s \in SegmentIDs |-> TRUE]
  /\ todo = <<>> /\ header = FALSE /\ reply = {} /\ written = {} /\ acks = {}
  /\ sync = NoSegment /\ fsynced = FALSE /\ safe = {}
  /\ errors = 0 /\ restarts = 0

-----------------------------------------------------------------------------
(* Write and WriteBatch, which hold mu *)

Fail == errors < MaxErrors /\ errors' = errors + 1

\* The file is opened for appending; the new segment's Size is 0.
rotateSegment ==
  /\ nextSegmentID < MaxSegments
  /\ segments' = segments \cup {nextSegmentID}
  /\ current' = nextSegmentID /\ Size' = 0
  /\ Synced' = [Synced EXCEPT ![nextSegmentID] = TRUE]
  /\ nextSegmentID' = nextSegmentID + 1

\* A call with the entries ds: it rotates the segment if need units would fill it.
Begin(ds, need) ==
  /\ up = "open" /\ todo = <<>> /\ Range(ds) \cap written = {}
  /\ written' = written \cup Range(ds)
  /\ LET rotate == Size + need >= maxSegmentSize
     IN  \/ /\ ~rotate /\ todo' = ds
            /\ UNCHANGED <<writer, Synced, errors>>
         \/ /\ rotate /\ rotateSegment /\ todo' = ds
            /\ UNCHANGED errors
         \/ /\ rotate /\ Fail /\ nextSegmentID < MaxSegments   \* OpenFile fails
            /\ nextSegmentID' = nextSegmentID + 1
            /\ UNCHANGED <<todo, segments, current, Size, Synced>>
  /\ UNCHANGED <<up, disk, header, reply, acks, syncer, restarts>>

\* Write looks at the segment alone, WriteBatch at what it adds to it too.
Write(d) == Begin(<<d>>, 0)
WriteBatch(ds) == Begin(ds, 2 * Len(ds))

WriteHeader ==
  /\ up = "open" /\ todo # <<>> /\ ~header
  /\ file' = [file EXCEPT ![current] = Append(@, <<"header", Head(todo)>>)]
  /\ header' = TRUE
  /\ UNCHANGED <<up, durable, writer, Synced, todo, reply, written, acks, syncer, errors, restarts>>

\* Mutant of WriteData: the offset is taken after the entry.
WriteDataLate ==
  /\ up = "open" /\ header
  /\ file' = [file EXCEPT ![current] = Append(@, <<"data", Head(todo)>>)]
  /\ Size' = Size + 2
  /\ todo' = Tail(todo) /\ header' = FALSE
  /\ LET done == reply \cup {[seg |-> current, off |-> Size', data |-> Head(todo)]}
     IN  /\ reply' = IF todo' = <<>> THEN {} ELSE done
         /\ acks' = IF todo' = <<>> THEN acks \cup done ELSE acks
  /\ Synced' = IF todo' = <<>> THEN [Synced EXCEPT ![current] = FALSE] ELSE Synced
  /\ UNCHANGED <<up, durable, segments, current, nextSegmentID, written, syncer, errors, restarts>>

\* The data, the Size of the segment and, after the last entry, the answer.
WriteData ==
  /\ up = "open" /\ header
  /\ file' = [file EXCEPT ![current] = Append(@, <<"data", Head(todo)>>)]
  /\ Size' = Size + 2
  /\ todo' = Tail(todo) /\ header' = FALSE
  /\ LET done == reply \cup {[seg |-> current, off |-> Size, data |-> Head(todo)]}
     IN  /\ reply' = IF todo' = <<>> THEN {} ELSE done
         /\ acks' = IF todo' = <<>> THEN acks \cup done ELSE acks
  /\ Synced' = IF todo' = <<>> THEN [Synced EXCEPT ![current] = FALSE] ELSE Synced
  /\ UNCHANGED <<up, durable, segments, current, nextSegmentID, written, syncer, errors, restarts>>

\* File.Write fails, with or without its unit in the file, and the call with it.
WriteFails ==
  /\ up = "open" /\ todo # <<>> /\ Fail
  /\ LET unit == <<IF header THEN "data" ELSE "header", Head(todo)>>
     IN  file' \in {file, [file EXCEPT ![current] = Append(@, unit)]}
  /\ todo' = <<>> /\ header' = FALSE /\ reply' = {}
  /\ UNCHANGED <<up, durable, writer, Synced, written, acks, syncer, restarts>>

-----------------------------------------------------------------------------
(* Sync and Close *)

\* Mutant of SyncTake: a segment marked Synced is skipped.
SyncTakeUnsynced ==
  /\ up = "open" /\ sync = NoSegment /\ todo = <<>>
  /\ ~Synced[current]
  /\ sync' = current
  /\ UNCHANGED <<up, disk, writer, Synced, call, fsynced, safe, errors, restarts>>

\* Sync takes the current segment under mu, which a Write in progress holds ...
SyncTake ==
  /\ up = "open" /\ sync = NoSegment /\ todo = <<>>
  /\ sync' = current
  /\ UNCHANGED <<up, disk, writer, Synced, call, fsynced, safe, errors, restarts>>

\* Where an entry is in a file.
Positions(s, d) ==
  {i \in DOMAIN file[s] : i < Len(file[s]) /\ SubSeq(file[s], i, i + 1) = Entry(d)}

\* ... calls File.Sync, with the lock of the segment only ...
SyncFile ==
  /\ up = "open" /\ sync # NoSegment /\ ~fsynced
  /\ durable' = [durable EXCEPT ![sync] = Len(file[sync])]
  /\ safe' = safe \cup {[seg |-> sync, off |-> i - 1, data |-> file[sync][i][2]] :
                          i \in UNION {Positions(sync, d) : d \in written}}
  /\ fsynced' = TRUE
  /\ UNCHANGED <<up, file, writer, Synced, call, sync, errors, restarts>>

\* ... and sets the flag.
SyncDone ==
  /\ up = "open" /\ fsynced
  /\ Synced' = [Synced EXCEPT ![sync] = TRUE]
  /\ sync' = NoSegment /\ fsynced' = FALSE
  /\ UNCHANGED <<up, disk, writer, call, safe, errors, restarts>>

\* Close waits for the locks; a Sync that has not called File.Sync fails afterwards.
Close ==
  /\ up = "open" /\ todo = <<>> /\ ~fsynced
  /\ up' = "closed"
  /\ durable' = [s \in SegmentIDs |->
                   IF s \in segments /\ ~Synced[s] THEN Len(file[s]) ELSE durable[s]]
  /\ sync' = NoSegment
  /\ UNCHANGED <<file, writer, Synced, call, fsynced, safe, errors, restarts>>

-----------------------------------------------------------------------------
(* Crash and restart *)

Crash ==
  /\ up # "down"
  /\ up' = "down"
  /\ \E keep \in [SegmentIDs -> 0 .. 2 * Cardinality(Data)] :
       /\ \A s \in SegmentIDs : keep[s] \in durable[s] .. Len(file[s])
       /\ file' = [s \in SegmentIDs |-> SubSeq(file[s], 1, keep[s])]
  /\ todo' = <<>> /\ header' = FALSE /\ reply' = {} /\ acks' = {}
  /\ sync' = NoSegment /\ fsynced' = FALSE
  /\ UNCHANGED <<durable, writer, Synced, written, safe, errors, restarts>>

\* Mutant of Restart: the file is truncated when it is opened.
RestartTruncate ==
  /\ up # "open" /\ restarts < MaxRestarts
  /\ up' = "open" /\ restarts' = restarts + 1
  /\ segments' = {0} /\ current' = 0 /\ Size' = 0 /\ nextSegmentID' = 1
  /\ Synced' = [s \in SegmentIDs |-> TRUE]
  /\ acks' = {}
  /\ file' = [file EXCEPT ![0] = <<>>] /\ durable' = [durable EXCEPT ![0] = 0]
  /\ UNCHANGED <<todo, header, reply, written, syncer, errors>>

\* NewWALWriter knows of no earlier segment: it opens segment 0 with Size 0.
Restart ==
  /\ up # "open" /\ restarts < MaxRestarts
  /\ up' = "open" /\ restarts' = restarts + 1
  /\ segments' = {0} /\ current' = 0 /\ Size' = 0 /\ nextSegmentID' = 1
  /\ Synced' = [s \in SegmentIDs |-> TRUE]
  /\ acks' = {}
  /\ UNCHANGED <<disk, todo, header, reply, written, syncer, errors>>

Next ==
  \/ \E d \in Data : Write(d) \/ WriteBatch(<<d>>)
  \/ \E c, d \in Data : c # d /\ WriteBatch(<<c, d>>)
  \/ WriteHeader \/ WriteData \/ WriteFails
  \/ SyncTake \/ SyncFile \/ SyncDone \/ Close \/ Crash \/ Restart

Spec == Init /\ [][Next]_vars

\* The sync loop's ticker fires, and a call under way proceeds.
Fairness ==
  /\ WF_vars(WriteHeader) /\ WF_vars(WriteData)
  /\ SF_vars(SyncTake) /\ WF_vars(SyncFile) /\ WF_vars(SyncDone)
FairSpec == Spec /\ Fairness

-----------------------------------------------------------------------------
(* ReadEntry and properties *)

\* What ReadEntry finds at an offset: the header, its data and a correct checksum.
Reads(e) ==
  /\ e.off + 2 <= Len(file[e.seg])
  /\ SubSeq(file[e.seg], e.off + 1, e.off + 2) = Entry(e.data)

Durable(e) == \E i \in Positions(e.seg, e.data) : i + 1 <= durable[e.seg]

\* While no write has failed and the log has not been reopened, ReadEntry finds
\* an entry at the offset Write or WriteBatch returned (Write, rotateSegment).
OffsetsRead == up = "open" /\ errors = 0 /\ restarts = 0 => \A e \in acks : Reads(e)

\* "Write writes data to the WAL and returns the offset": always.
OffsetsAlwaysRead == up = "open" => \A e \in acks : Reads(e)

\* An entry that was in a file when a Sync of it returned can be read from then on,
\* where it was, through crashes, restarts and failed writes (Sync, O_APPEND).
SyncedSurvives == \A e \in safe : Reads(e)

\* While the log is open the entries of the current segment do not stay volatile:
\* again and again all whose offset was returned are durable (syncLoop).
CurrentDurable ==
  []<>(up = "open" => \A e \in acks : e.seg = current => Durable(e))
=============================================================================
