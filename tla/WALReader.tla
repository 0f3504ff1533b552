------------------------------ MODULE WALReader ------------------------------
(***************************************************************************)
(* Concurrent ReadEntry calls on one segment of the log (WALReader of      *)
(* pkg/storage/wal.go).  They share the segment's File, and so its file    *)
(* position.  An entry is a header and a data unit; two entries may hold   *)
(* the same data.                                                          *)
(***************************************************************************)
EXTENDS Integers, Sequences

CONSTANTS Readers, Contents,
          MaxEntries,   \* bound: entries of the segment
          MaxReads      \* bound: ReadEntry calls

ASSUME ReaderAssumption == MaxEntries \in Nat

VARIABLES segment,   \* the units of the segment
          open,      \* whether the reader is open
          pos,       \* the position of the File
          pc, asked, \* per call: its next step and the offset it was asked for
          head,      \* per call: the header it has read
          result,    \* per call: the entry it returned, or NoEntry
          reads

readerVars == <<segment, open, pos, pc, asked, head, result, reads>>

\* Entry i holds the i-th of the contents; its timestamp is i.
Units(contents) ==
  [u \in 1 .. 2 * Len(contents) |->
     LET i == (u + 1) \div 2
     IN  [kind |-> IF u % 2 = 1 THEN "header" ELSE "data", time |-> i, data |-> contents[i]]]
Offsets == 0 .. 2 * MaxEntries
NoUnit == [kind |-> "none"]
NoEntry == <<>>

NewWALReader ==
  /\ \E n \in 0 .. MaxEntries : \E c \in [1 .. n -> Contents] : segment = Units(c)
  /\ open = TRUE /\ pos = 0
  /\ pc = [r \in Readers |-> "idle"] /\ asked = [r \in Readers |-> 0]
  /\ head = [r \in Readers |-> NoUnit] /\ result = [r \in Readers |-> NoEntry]
  /\ reads = 0

\* ReadEntry looks the segment up.
ReadEntry(r, off) ==
  /\ pc[r] = "idle" /\ reads < MaxReads
  /\ reads' = reads + 1
  /\ pc' = [pc EXCEPT ![r] = "seek"] /\ asked' = [asked EXCEPT ![r] = off]
  /\ result' = [result EXCEPT ![r] = NoEntry] /\ head' = [head EXCEPT ![r] = NoUnit]
  /\ UNCHANGED <<segment, open, pos>>

\* The call returns e.
Return(r, e) ==
  /\ pc' = [pc EXCEPT ![r] = "idle"]
  /\ result' = [result EXCEPT ![r] = e]

\* With the segment's lock, held for reading only; a closed file fails.
Seek(r) ==
  /\ pc[r] = "seek"
  /\ IF open THEN /\ pos' = asked[r] /\ pc' = [pc EXCEPT ![r] = "header"]
                  /\ UNCHANGED result
             ELSE Return(r, NoEntry) /\ UNCHANGED pos
  /\ UNCHANGED <<segment, open, asked, head, reads>>

\* ReadFull moves the position; at the end of the file it fails.
ReadHeader(r) ==
  /\ pc[r] = "header"
  /\ IF pos < Len(segment)
       THEN /\ head' = [head EXCEPT ![r] = segment[pos + 1]]
            /\ pos' = pos + 1 /\ pc' = [pc EXCEPT ![r] = "data"]
            /\ UNCHANGED result
       ELSE Return(r, NoEntry) /\ UNCHANGED <<pos, head>>
  /\ UNCHANGED <<segment, open, asked, reads>>

\* Mutant of Verified: the checksum is not compared.
VerifiedNot(h, u) == h.kind = "header" /\ u.kind = "data"

\* The size and checksum of a header are those of its data only.
Verified(h, u) == h.kind = "header" /\ u.kind = "data" /\ h.data = u.data

ReadData(r) ==
  /\ pc[r] = "data"
  /\ LET ok == pos < Len(segment) /\ Verified(head[r], segment[pos + 1])
     IN  Return(r, IF ok THEN <<head[r].time, segment[pos + 1].data>> ELSE NoEntry)
  /\ pos' = IF pos < Len(segment) THEN pos + 1 ELSE pos
  /\ UNCHANGED <<segment, open, asked, head, reads>>

\* The reader's Close takes the segment's lock for writing: no call is in its reads.
CloseReader ==
  /\ open /\ \A r \in Readers : pc[r] \in {"idle", "seek"}
  /\ open' = FALSE
  /\ UNCHANGED <<segment, pos, pc, asked, head, result, reads>>

ReaderNext ==
  \/ \E r \in Readers : (\E off \in Offsets : ReadEntry(r, off)) \/ Seek(r) \/ ReadHeader(r) \/ ReadData(r)
  \/ CloseReader

ReaderSpec == NewWALReader /\ [][ReaderNext]_readerVars

-----------------------------------------------------------------------------
\* The entry at an offset.
EntryAt(off) ==
  IF off < Len(segment) /\ off % 2 = 0 THEN <<segment[off + 1].time, segment[off + 1].data>> ELSE NoEntry

\* Whatever the other calls do to the file position, an entry that ReadEntry returns
\* is one of the file: a header with other data fails the checksum (ReadEntry).
ReadVerified ==
  \A r \in Readers : result[r] # NoEntry => \E off \in Offsets : result[r] = EntryAt(off)
=============================================================================
