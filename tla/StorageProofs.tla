---------------------------- MODULE StorageProofs ----------------------------
(***************************************************************************)
(* Proofs about the write-ahead log, for every set of data, segment size   *)
(* and number of segments, failures and restarts; and about its reader,    *)
(* for any number of calls and entries.                                    *)
(***************************************************************************)
EXTENDS WAL, WALReader, TLAPS

-----------------------------------------------------------------------------
(* The reader. *)


\* What a segment segment looks like: headers stand at even offsets.
FileOK ==
  /\ Len(segment) \in Nat /\ Len(segment) <= 2 * MaxEntries
  /\ \A j \in 1 .. Len(segment) : segment[j].kind = "header" => (j - 1) % 2 = 0

\* A call that has read a header has one unit of the segment, whichever the position
\* was; and what was returned is an entry of the segment.
ReaderInv ==
  /\ FileOK
  /\ pos \in Nat
  /\ asked \in [Readers -> Offsets]
  /\ pc \in [Readers -> {"idle", "seek", "header", "data"}]
  /\ DOMAIN head = Readers /\ DOMAIN result = Readers
  /\ \A r \in Readers : head[r] = NoUnit \/ \E j \in 1 .. Len(segment) : head[r] = segment[j]
  /\ ReadVerified

\* A fresh reader satisfies the invariant (the units of whole entries).
LEMMA ReaderInitInv == NewWALReader => ReaderInv
<1> SUFFICES ASSUME NewWALReader PROVE ReaderInv
  BY Zenon
<1>1. PICK n \in 0 .. MaxEntries : \E c \in [1 .. n -> Contents] : segment = Units(c)
  BY Zenon DEF NewWALReader
<1>2. PICK c \in [1 .. n -> Contents] : segment = Units(c)
  BY <1>1, Zenon
<1>3. Len(c) = n
  OBVIOUS
<1>4. Len(segment) = 2 * n
  BY <1>2, <1>3 DEF Units
<1>5. \A j \in 1 .. Len(segment) : segment[j].kind = "header" => j % 2 = 1
  BY <1>2, <1>3, <1>4, Zenon DEF Units
<1>6. FileOK
  <2>1. Len(segment) \in Nat /\ Len(segment) <= 2 * MaxEntries
    BY <1>4, ReaderAssumption
  <2>2. \A j \in 1 .. Len(segment) : j % 2 = 1 => (j - 1) % 2 = 0
    BY <2>1
  <2> QED BY <1>5, <2>1, <2>2, Zenon DEF FileOK
<1> QED
  BY <1>6, ReaderAssumption DEF NewWALReader, ReaderInv, ReadVerified, Offsets, NoEntry

\* The entry that ReadData puts together from a header and data that agree is the one
\* at the header's offset (the checksum of ReadEntry).
LEMMA VerifiedIsEntry ==
  ASSUME FileOK, NEW j \in 1 .. Len(segment), NEW k \in 1 .. Len(segment), Verified(segment[j], segment[k])
  PROVE  \E off \in Offsets : <<segment[j].time, segment[k].data>> = EntryAt(off)
<1>1. j - 1 \in Offsets /\ j - 1 < Len(segment) /\ (j - 1) % 2 = 0 /\ (j - 1) + 1 = j
  BY ReaderAssumption DEF FileOK, Verified, Offsets
<1>2. EntryAt(j - 1) = <<segment[j].time, segment[j].data>>
  BY <1>1, Zenon DEF EntryAt
<1> QED
  BY <1>1, <1>2, Zenon DEF Verified

\* Every step of a call keeps the invariant, whatever it does to the shared position.
LEMMA ReaderNextInv == ReaderInv /\ [ReaderNext]_readerVars => ReaderInv'
<1> SUFFICES ASSUME ReaderInv, [ReaderNext]_readerVars PROVE ReaderInv'
  BY Zenon
<1> USE DEF ReaderInv
<1>1. segment' = segment
  BY Zenon DEF ReaderNext, ReadEntry, Seek, ReadHeader, ReadData, Return, CloseReader, readerVars
<1>2. FileOK' /\ \A off : EntryAt(off)' = EntryAt(off)
  BY <1>1, Zenon DEF FileOK, EntryAt
<1>3. ASSUME NEW r \in Readers, NEW off \in Offsets, ReadEntry(r, off) PROVE ReaderInv'
  BY <1>1, <1>2, <1>3, Zenon DEF ReadEntry, ReadVerified
<1>4. ASSUME NEW r \in Readers, Seek(r) PROVE ReaderInv'
  BY <1>1, <1>2, <1>4 DEF Seek, Return, ReadVerified, Offsets
<1>5. ASSUME NEW r \in Readers, ReadHeader(r) PROVE ReaderInv'
  <2>1. CASE pos < Len(segment)
    <3>1. pos + 1 \in 1 .. Len(segment)
      BY <2>1 DEF FileOK
    <3> QED
      BY <1>1, <1>2, <1>5, <2>1, <3>1 DEF ReadHeader, ReadVerified
  <2>2. CASE ~(pos < Len(segment))
    BY <1>1, <1>2, <1>5, <2>2 DEF ReadHeader, Return, ReadVerified
  <2> QED
    BY <2>1, <2>2, Zenon
<1>6. ASSUME NEW r \in Readers, ReadData(r) PROVE ReaderInv'
  <2> DEFINE ok == pos < Len(segment) /\ Verified(head[r], segment[pos + 1])
             e == IF ok THEN <<head[r].time, segment[pos + 1].data>> ELSE NoEntry
  <2>1. result' = [result EXCEPT ![r] = e]
    BY <1>6, Zenon DEF ReadData, Return
  <2>2. e # NoEntry => \E off \in Offsets : e = EntryAt(off)
    <3>1. CASE ok
      <4>1. pos + 1 \in 1 .. Len(segment)
        BY <3>1 DEF FileOK
      <4>2. head[r].kind = "header"
        BY <3>1, Zenon DEF Verified
      <4>3. PICK j \in 1 .. Len(segment) : head[r] = segment[j]
        BY <4>2 DEF NoUnit
      <4> QED
        BY <3>1, <4>1, <4>3, VerifiedIsEntry
    <3>2. CASE ~ok
      BY <3>2, Zenon
    <3> QED
      BY <3>1, <3>2, Zenon
  <2> HIDE DEF ok, e
  <2>3. ReadVerified'
    BY <1>2, <2>1, <2>2, Zenon DEF ReadVerified, Offsets
  <2> QED
    BY <1>1, <1>2, <1>6, <2>1, <2>3 DEF ReadData, Return
<1>7. CASE CloseReader
  BY <1>1, <1>2, <1>7, Zenon DEF CloseReader, ReadVerified
<1>8. CASE UNCHANGED readerVars
  BY <1>1, <1>2, <1>8, Zenon DEF readerVars, ReadVerified
<1> QED
  BY <1>3, <1>4, <1>5, <1>6, <1>7, <1>8, Zenon DEF ReaderNext

\* Concurrent ReadEntry calls share a segment position, and still return only entries of
\* the segment, for every number of readers and every length of the segment.
THEOREM EntriesVerified == ReaderSpec => []ReadVerified
<1>1. NewWALReader => ReaderInv
  BY ReaderInitInv, Zenon
<1>2. ReaderInv /\ [ReaderNext]_readerVars => ReaderInv'
  BY ReaderNextInv, Zenon
<1>3. ReaderInv => ReadVerified
  BY Zenon DEF ReaderInv
<1> QED
  BY <1>1, <1>2, <1>3, PTL DEF ReaderSpec


-----------------------------------------------------------------------------
(* The files of the log.  A crash may cut a file, but never what was synced. *)

Unit == {"header", "data"} \X Data
WrittenEntry == [seg : SegmentIDs, off : Nat, data : Data]

WALType ==
  /\ file \in [SegmentIDs -> Seq(Unit)] /\ durable \in [SegmentIDs -> Nat]
  /\ current \in SegmentIDs /\ nextSegmentID \in Nat /\ Size \in Nat
  /\ todo \in Seq(Data) /\ header \in BOOLEAN /\ (header => todo # <<>>)
  /\ sync \in SegmentIDs \cup {NoSegment} /\ fsynced \in BOOLEAN /\ (fsynced => sync # NoSegment)
  /\ written \subseteq Data /\ errors \in Nat /\ restarts \in Nat

\* The two units of an entry are in a file.
Holds(f, e) ==
  /\ e.off + 2 <= Len(f)
  /\ f[e.off + 1] = <<"header", e.data>> /\ f[e.off + 2] = <<"data", e.data>>

\* g has what f has up to the n-th unit.
SameUpTo(f, g, n) == n <= Len(f) /\ n <= Len(g) /\ \A i \in 1 .. n : g[i] = f[i]

DurableInv ==
  /\ \A s \in SegmentIDs : durable[s] <= Len(file[s])
  /\ \A e \in safe : e \in WrittenEntry /\ e.off + 2 <= durable[e.seg] /\ Holds(file[e.seg], e)

\* What ReadEntry reads: two units behind an offset.
Pair(f, o, a, b) == SubSeq(f, o + 1, o + 2) = <<a, b>>

LEMMA PairOfUnits ==
  ASSUME NEW f \in Seq(Unit), NEW o \in Nat, o + 2 <= Len(f), NEW a, NEW b
  PROVE  Pair(f, o, a, b) <=> f[o + 1] = a /\ f[o + 2] = b
<1>1. PICK g : g = SubSeq(f, o + 1, o + 2)
  BY Zenon
<1>2. g \in Seq(Unit) /\ Len(g) = 2 /\ g[1] = f[o + 1] /\ g[2] = f[o + 2]
  <2>1. SubSeq(f, o + 1, o + 2) \in Seq(Unit)
    OBVIOUS
  <2>2. Len(SubSeq(f, o + 1, o + 2)) = 2
    OBVIOUS
  <2>3. SubSeq(f, o + 1, o + 2)[1] = f[o + 1]
    OBVIOUS
  <2>4. SubSeq(f, o + 1, o + 2)[2] = f[o + 2]
    OBVIOUS
  <2> QED BY <1>1, <2>1, <2>2, <2>3, <2>4, Zenon
<1>3. g = <<a, b>> <=> g[1] = a /\ g[2] = b
  BY <1>2
<1> QED BY <1>1, <1>2, <1>3, Zenon DEF Pair

LEMMA ReadsHolds ==
  ASSUME WALType, NEW e \in WrittenEntry
  PROVE  Reads(e) <=> Holds(file[e.seg], e)
<1>1. file[e.seg] \in Seq(Unit) /\ e.off \in Nat
  BY Zenon DEF WALType, WrittenEntry
<1>2. CASE e.off + 2 <= Len(file[e.seg])
  <2>1. PICK f \in Seq(Unit), o \in Nat : f = file[e.seg] /\ o = e.off /\ o + 2 <= Len(f)
    BY <1>1, <1>2, Zenon
  <2>2. PICK a, b : a = <<"header", e.data>> /\ b = <<"data", e.data>>
    BY Zenon
  <2>3. Pair(f, o, a, b) <=> f[o + 1] = a /\ f[o + 2] = b
    BY <2>1, PairOfUnits, Zenon
  <2>4. Reads(e) <=> Pair(f, o, a, b)
    BY <1>2, <2>1, <2>2, Zenon DEF Reads, Entry, Pair
  <2>5. Holds(file[e.seg], e) <=> f[o + 1] = a /\ f[o + 2] = b
    BY <1>2, <2>1, <2>2, Zenon DEF Holds
  <2> QED BY <2>3, <2>4, <2>5, Zenon
<1>3. CASE ~(e.off + 2 <= Len(file[e.seg]))
  BY <1>3, Zenon DEF Reads, Holds
<1> QED BY <1>2, <1>3, Zenon

LEMMA HoldsStays ==
  ASSUME NEW f \in Seq(Unit), NEW g \in Seq(Unit), NEW n \in Nat, SameUpTo(f, g, n),
         NEW e \in WrittenEntry, e.off + 2 <= n, Holds(f, e)
  PROVE  Holds(g, e)
<1>1. e.off \in Nat /\ e.off + 1 \in 1 .. n /\ e.off + 2 \in 1 .. n
  BY DEF WrittenEntry
<1> QED BY <1>1 DEF SameUpTo, Holds

LEMMA AppendSame ==
  ASSUME NEW f \in Seq(Unit), NEW u \in Unit
  PROVE  Append(f, u) \in Seq(Unit) /\ Len(Append(f, u)) = Len(f) + 1 /\ SameUpTo(f, Append(f, u), Len(f))
  BY DEF SameUpTo

LEMMA CutSame ==
  ASSUME NEW f \in Seq(Unit), NEW k \in 0 .. Len(f)
  PROVE  SubSeq(f, 1, k) \in Seq(Unit) /\ Len(SubSeq(f, 1, k)) = k /\ SameUpTo(f, SubSeq(f, 1, k), k)
  BY DEF SameUpTo


\* No step touches a synced part of a file.
LEMMA DurableStays ==
  ASSUME WALType, DurableInv, file' \in [SegmentIDs -> Seq(Unit)], durable' \in [SegmentIDs -> Nat],
         \A s \in SegmentIDs : /\ durable[s] <= durable'[s] /\ durable'[s] <= Len(file'[s])
                               /\ SameUpTo(file[s], file'[s], durable[s]),
         \A e \in safe' : e \in safe \/ (e \in WrittenEntry /\ e.off + 2 <= durable'[e.seg] /\ Holds(file'[e.seg], e))
  PROVE  DurableInv'
<1>1. ASSUME NEW e \in safe' PROVE e \in WrittenEntry /\ e.off + 2 <= durable'[e.seg] /\ Holds(file'[e.seg], e)
  <2>1. CASE e \in safe
    <3>1. e \in WrittenEntry /\ e.off + 2 <= durable[e.seg] /\ Holds(file[e.seg], e)
      BY <2>1, Zenon DEF DurableInv
    <3>2. PICK s \in SegmentIDs : s = e.seg
      BY <3>1, Zenon DEF WrittenEntry
    <3>3. e.off \in Nat /\ durable[s] \in Nat /\ durable'[s] \in Nat /\ file[s] \in Seq(Unit) /\ file'[s] \in Seq(Unit)
      BY <3>1, Zenon DEF WrittenEntry, WALType
    <3>4. Holds(file'[s], e)
      BY <3>1, <3>2, <3>3, HoldsStays, Zenon
    <3> QED BY <3>1, <3>2, <3>3, <3>4
  <2> QED BY <1>1, <2>1, Zenon
<1> QED BY <1>1, Zenon DEF DurableInv

\* A step that leaves the files and the synced entries alone.
LEMMA DiskStays ==
  ASSUME WALType, DurableInv, UNCHANGED <<file, durable, safe>>
  PROVE  DurableInv'
  BY Zenon DEF DurableInv

\* A unit at the end of the current file, or none.
LEMMA UnitKeeps ==
  ASSUME WALType, DurableInv, NEW u \in Unit, UNCHANGED <<durable, safe>>,
         file' \in {file, [file EXCEPT ![current] = Append(@, u)]}
  PROVE  file' \in [SegmentIDs -> Seq(Unit)] /\ DurableInv'
<1>1. CASE file' = file
  BY <1>1, DiskStays, Zenon DEF WALType
<1>2. CASE file' = [file EXCEPT ![current] = Append(@, u)]
  <2>1. PICK f \in Seq(Unit) : f = file[current]
    BY Zenon DEF WALType
  <2>2. PICK g \in Seq(Unit) : g = Append(f, u) /\ Len(g) = Len(f) + 1 /\ SameUpTo(f, g, Len(f))
    BY AppendSame, Zenon
  <2>3. file' = [file EXCEPT ![current] = g] /\ file \in [SegmentIDs -> Seq(Unit)]
    BY <1>2, <2>1, <2>2, Zenon DEF WALType
  <2>4. file' \in [SegmentIDs -> Seq(Unit)] /\ file'[current] = g /\ \A s \in SegmentIDs \ {current} : file'[s] = file[s]
    BY <2>3, Zenon DEF WALType
  <2>5. ASSUME NEW s \in SegmentIDs
        PROVE  durable[s] \in Nat /\ durable[s] <= Len(file'[s]) /\ SameUpTo(file[s], file'[s], durable[s])
    <3>1. durable[s] \in Nat /\ durable[s] <= Len(file[s]) /\ file[s] \in Seq(Unit)
      BY Zenon DEF WALType, DurableInv
    <3>2. CASE s = current
      <4>1. file[s] = f /\ file'[s] = g
        BY <2>1, <2>4, <3>2, Zenon
      <4>2. PICK d \in Nat : d = durable[s] /\ d <= Len(f)
        BY <3>1, <4>1, Zenon
      <4>3. Len(f) \in Nat /\ d <= Len(f) + 1 /\ 1 .. d \subseteq 1 .. Len(f)
        BY <4>2
      <4>4. SameUpTo(f, g, d)
        BY <2>2, <4>2, <4>3, Zenon DEF SameUpTo
      <4> QED BY <2>2, <4>1, <4>2, <4>3, <4>4, Zenon
    <3>3. CASE s # current
      BY <2>4, <3>1, <3>3, Zenon DEF SameUpTo
    <3> QED BY <3>1, <3>2, <3>3, Zenon
  <2>6. \A s \in SegmentIDs : /\ durable[s] <= durable'[s] /\ durable'[s] <= Len(file'[s])
                             /\ SameUpTo(file[s], file'[s], durable[s])
    BY <2>5
  <2>7. durable' \in [SegmentIDs -> Nat] /\ \A e \in safe' : e \in safe
    BY Zenon DEF WALType
  <2> QED BY <2>4, <2>6, <2>7, DurableStays, Zenon
<1> QED BY <1>1, <1>2, Zenon


\* The entries Positions finds in a file are whole.
LEMMA FoundHolds ==
  ASSUME WALType, NEW s \in SegmentIDs, NEW d \in written, NEW i \in Positions(s, d)
  PROVE  /\ [seg |-> s, off |-> i - 1, data |-> file[s][i][2]] \in WrittenEntry
         /\ i + 1 <= Len(file[s])
         /\ Holds(file[s], [seg |-> s, off |-> i - 1, data |-> file[s][i][2]])
<1>1. PICK f \in Seq(Unit) : f = file[s]
  BY Zenon DEF WALType
<1>2. i \in 1 .. Len(f) /\ i < Len(f) /\ SubSeq(f, i, i + 1) = Entry(d)
  BY <1>1 DEF Positions
<1>3. PICK o \in Nat : o = i - 1 /\ i = o + 1 /\ i + 1 = o + 2 /\ o + 2 <= Len(f)
  BY <1>2
<1>4. PICK a, b : a = <<"header", d>> /\ b = <<"data", d>>
  BY Zenon
<1>5. Pair(f, o, a, b)
  BY <1>2, <1>3, <1>4, Zenon DEF Entry, Pair
<1>6. f[o + 1] = a /\ f[o + 2] = b
  BY <1>3, <1>5, PairOfUnits
<1>7. PICK e : e = [seg |-> s, off |-> i - 1, data |-> file[s][i][2]]
  BY Zenon
<1>8. e.seg = s /\ e.off = o /\ e.data = d /\ e \in WrittenEntry
  BY <1>1, <1>3, <1>4, <1>6, <1>7 DEF WrittenEntry, WALType
<1> QED BY <1>1, <1>3, <1>4, <1>6, <1>7, <1>8, Zenon DEF Holds

LEMMA SyncKeeps ==
  ASSUME WALType, DurableInv, SyncFile
  PROVE  DurableInv'
<1>1. sync \in SegmentIDs /\ file' = file /\ file' \in [SegmentIDs -> Seq(Unit)]
  BY Zenon DEF SyncFile, WALType
<1>2. durable' = [durable EXCEPT ![sync] = Len(file[sync])] /\ durable \in [SegmentIDs -> Nat]
  BY Zenon DEF SyncFile, WALType
<1>3. PICK n \in Nat : n = Len(file[sync])
  BY <1>1 DEF WALType
<1>4. durable' \in [SegmentIDs -> Nat] /\ durable'[sync] = n /\ \A s \in SegmentIDs \ {sync} : durable'[s] = durable[s]
  BY <1>1, <1>2, <1>3, Zenon
<1>5. \A s \in SegmentIDs : /\ durable[s] <= durable'[s] /\ durable'[s] <= Len(file'[s])
                           /\ SameUpTo(file[s], file'[s], durable[s])
  BY <1>1, <1>2, <1>3, <1>4 DEF DurableInv, SameUpTo
<1>6. ASSUME NEW e \in safe', e \notin safe
      PROVE  e \in WrittenEntry /\ e.off + 2 <= durable'[e.seg] /\ Holds(file'[e.seg], e)
  <2>0. PICK d \in written : \E i \in Positions(sync, d) :
          e = [seg |-> sync, off |-> i - 1, data |-> file[sync][i][2]]
    BY <1>6, Zenon DEF SyncFile
  <2>1. PICK i \in Positions(sync, d) : e = [seg |-> sync, off |-> i - 1, data |-> file[sync][i][2]]
    BY <2>0, Zenon
  <2>2. e \in WrittenEntry /\ i + 1 <= Len(file[sync]) /\ Holds(file[sync], e)
    BY <1>1, <2>1, FoundHolds, Zenon
  <2>3. e.seg = sync /\ e.off \in Nat /\ e.off = i - 1
    BY <2>1, <2>2, Zenon DEF WrittenEntry
  <2>4. i \in Nat
    BY <1>1, <2>1 DEF Positions, WALType
  <2> QED BY <1>1, <1>3, <1>4, <2>2, <2>3, <2>4
<1> QED BY <1>1, <1>4, <1>5, <1>6, DurableStays, Zenon

LEMMA CloseKeeps ==
  ASSUME WALType, DurableInv, Close
  PROVE  durable' \in [SegmentIDs -> Nat] /\ DurableInv'
<1>1. UNCHANGED <<file, safe>> /\ \A s \in SegmentIDs : durable'[s] \in {durable[s], Len(file[s])}
  BY Zenon DEF Close
<1>2. \A s \in SegmentIDs : Len(file[s]) \in Nat
  BY DEF WALType
<1>3. durable' \in [SegmentIDs -> Nat]
  BY <1>2, Zenon DEF Close, WALType
<1>4. file' \in [SegmentIDs -> Seq(Unit)]
  BY <1>1, Zenon DEF WALType
<1>5. \A s \in SegmentIDs : /\ durable[s] <= durable'[s] /\ durable'[s] <= Len(file'[s])
                           /\ SameUpTo(file[s], file'[s], durable[s])
  <2> SUFFICES ASSUME NEW s \in SegmentIDs
               PROVE  /\ durable[s] <= durable'[s] /\ durable'[s] <= Len(file[s])
                      /\ SameUpTo(file[s], file[s], durable[s])
    BY <1>1, Zenon
  <2>1. durable[s] \in Nat /\ durable[s] <= Len(file[s]) /\ Len(file[s]) \in Nat
    BY <1>2, Zenon DEF DurableInv, WALType
  <2> QED BY <1>1, <2>1 DEF SameUpTo
<1> QED BY <1>1, <1>3, <1>4, <1>5, DurableStays, Zenon

LEMMA CrashKeeps ==
  ASSUME WALType, DurableInv, Crash
  PROVE  file' \in [SegmentIDs -> Seq(Unit)] /\ DurableInv'
<1>1. PICK keep : /\ \A s \in SegmentIDs : keep[s] \in durable[s] .. Len(file[s])
                  /\ file' = [s \in SegmentIDs |-> SubSeq(file[s], 1, keep[s])]
  BY Zenon DEF Crash
<1>2. UNCHANGED <<durable, safe>>
  BY Zenon DEF Crash
<1>3. ASSUME NEW s \in SegmentIDs
      PROVE  /\ file'[s] \in Seq(Unit) /\ durable[s] <= Len(file'[s])
             /\ SameUpTo(file[s], file'[s], durable[s])
  <2>1. PICK f \in Seq(Unit), n \in Nat : f = file[s] /\ n = durable[s]
    BY Zenon DEF WALType
  <2>2. PICK k \in n .. Len(f) : k = keep[s]
    BY <1>1, <2>1, Zenon
  <2>3. k \in 0 .. Len(f) /\ file'[s] = SubSeq(f, 1, k)
    BY <1>1, <2>1, <2>2
  <2>4. SubSeq(f, 1, k) \in Seq(Unit) /\ Len(SubSeq(f, 1, k)) = k /\ SameUpTo(f, SubSeq(f, 1, k), k)
    BY <2>3, CutSame, Zenon
  <2> QED BY <2>1, <2>2, <2>3, <2>4 DEF SameUpTo
<1>4. file' \in [SegmentIDs -> Seq(Unit)]
  BY <1>1, <1>3, Zenon
<1>5. durable' \in [SegmentIDs -> Nat] /\ \A s \in SegmentIDs : durable[s] <= durable'[s]
  BY <1>2 DEF WALType
<1> QED BY <1>2, <1>3, <1>4, <1>5, DurableStays, Zenon


-----------------------------------------------------------------------------
(* The writer.  Until a write fails or the log is reopened Size is the length of
   the current file, and segments not yet opened have no file. *)

Fresh == up = "open" /\ errors = 0 /\ restarts = 0

OffsetInv ==
  Fresh =>
    /\ current < nextSegmentID
    /\ \A s \in SegmentIDs : s >= nextSegmentID => file[s] = <<>>
    /\ Len(file[current]) = Size + (IF header THEN 1 ELSE 0)
    /\ header => file[current][Size + 1] = <<"header", Head(todo)>>
    /\ \A e \in acks \cup reply : e \in WrittenEntry /\ Holds(file[e.seg], e)

WALInv == WALType /\ DurableInv /\ OffsetInv

LEMMA WALInit == Init => WALInv
<1> SUFFICES ASSUME Init PROVE WALInv
  BY Zenon
<1>1. 0 \in SegmentIDs
  BY WALAssumption DEF SegmentIDs
<1>2. WALType
  BY <1>1 DEF Init, WALType
<1>3. DurableInv
  BY DEF Init, DurableInv
<1>4. OffsetInv
  BY <1>1 DEF Init, OffsetInv
<1> QED BY <1>2, <1>3, <1>4, Zenon DEF WALInv

LEMMA WALInvReads == WALInv => OffsetsRead /\ SyncedSurvives
<1> SUFFICES ASSUME WALInv PROVE OffsetsRead /\ SyncedSurvives
  BY Zenon
<1>1. WALType
  BY Zenon DEF WALInv
<1>2. ASSUME NEW e \in safe PROVE Reads(e)
  BY <1>1, <1>2, ReadsHolds, Zenon DEF WALInv, DurableInv
<1>3. ASSUME Fresh, NEW e \in acks PROVE Reads(e)
  BY <1>1, <1>3, ReadsHolds, Zenon DEF WALInv, OffsetInv
<1> QED BY <1>2, <1>3, Zenon DEF OffsetsRead, SyncedSurvives, Fresh

LEMMA BeginKeeps ==
  ASSUME WALInv, NEW ds \in Seq(Data), NEW need, Begin(ds, need)
  PROVE  WALInv'
<1>0. WALType /\ DurableInv /\ OffsetInv
  BY Zenon DEF WALInv
<1>1. UNCHANGED <<up, file, durable, header, reply, acks, sync, fsynced, safe, restarts>>
  BY Zenon DEF Begin, disk, syncer
<1>2. ~header /\ written' = written \cup Range(ds)
  BY <1>0, Zenon DEF Begin, WALType
<1>3. written' \subseteq Data
  BY <1>0, <1>2 DEF WALType, Range
<1>4. DurableInv'
  BY <1>0, <1>1, DiskStays, Zenon
<1>5. CASE todo' = ds /\ UNCHANGED <<writer, errors>>
  <2>1. WALType'
    BY <1>0, <1>1, <1>2, <1>3, <1>5, Zenon DEF WALType, writer
  <2>2. OffsetInv'
    BY <1>0, <1>1, <1>2, <1>5, Zenon DEF OffsetInv, Fresh, writer
  <2> QED BY <1>4, <2>1, <2>2, Zenon DEF WALInv
<1>6. CASE rotateSegment /\ todo' = ds /\ UNCHANGED errors
  <2>1. /\ nextSegmentID \in SegmentIDs /\ current' = nextSegmentID /\ Size' = 0
        /\ nextSegmentID' = nextSegmentID + 1 /\ nextSegmentID \in Nat
    BY <1>0, <1>6, WALAssumption DEF rotateSegment, SegmentIDs, WALType
  <2>2. WALType'
    BY <1>0, <1>1, <1>2, <1>3, <1>6, <2>1 DEF WALType
  <2>3. OffsetInv'
    <3> SUFFICES ASSUME Fresh'
                 PROVE  /\ current' < nextSegmentID'
                        /\ \A s \in SegmentIDs : s >= nextSegmentID' => file'[s] = <<>>
                        /\ Len(file'[current']) = 0
                        /\ \A e \in acks' \cup reply' : e \in WrittenEntry /\ Holds(file'[e.seg], e)
      BY <1>1, <1>2, <2>1 DEF OffsetInv
    <3>1. Fresh
      BY <1>1, <1>6, Zenon DEF Fresh
    <3>2. file[nextSegmentID] = <<>> /\ \A s \in SegmentIDs : s >= nextSegmentID => file[s] = <<>>
      BY <1>0, <2>1, <3>1 DEF OffsetInv
    <3>3. \A s \in SegmentIDs : s >= nextSegmentID + 1 => s >= nextSegmentID
      BY <2>1 DEF SegmentIDs
    <3> QED BY <1>0, <1>1, <2>1, <3>1, <3>2, <3>3 DEF OffsetInv
  <2> QED BY <1>4, <2>2, <2>3, Zenon DEF WALInv
<1>7. CASE errors' = errors + 1 /\ nextSegmentID' = nextSegmentID + 1 /\ UNCHANGED <<todo, current, Size>>
  <2>1. WALType'
    BY <1>0, <1>1, <1>3, <1>7 DEF WALType
  <2>2. OffsetInv'
    BY <1>0, <1>7 DEF OffsetInv, Fresh, WALType
  <2> QED BY <1>4, <2>1, <2>2, Zenon DEF WALInv
<1> QED BY <1>5, <1>6, <1>7, Zenon DEF Begin, Fail


LEMMA UnitAppended ==
  ASSUME WALType, NEW u \in Unit, file' = [file EXCEPT ![current] = Append(@, u)]
  PROVE  /\ Len(file'[current]) = Len(file[current]) + 1 /\ file'[current][Len(file[current]) + 1] = u
         /\ \A i \in 1 .. Len(file[current]) : file'[current][i] = file[current][i]
         /\ \A s \in SegmentIDs \ {current} : file'[s] = file[s]
         /\ \A e \in WrittenEntry : Holds(file[e.seg], e) => Holds(file'[e.seg], e)
<1>1. PICK f \in Seq(Unit) : f = file[current]
  BY Zenon DEF WALType
<1>2. PICK g : g = Append(f, u)
  BY Zenon
<1>3. file'[current] = g /\ \A s \in SegmentIDs \ {current} : file'[s] = file[s]
  BY <1>1, <1>2, Zenon DEF WALType
<1>4. g \in Seq(Unit) /\ Len(g) = Len(f) + 1 /\ g[Len(f) + 1] = u /\ \A i \in 1 .. Len(f) : g[i] = f[i]
  BY <1>2
<1>5. ASSUME NEW e \in WrittenEntry, Holds(file[e.seg], e) PROVE Holds(file'[e.seg], e)
  <2>1. e.seg \in SegmentIDs /\ e.off \in Nat
    BY Zenon DEF WrittenEntry
  <2>2. CASE e.seg # current
    BY <1>3, <1>5, <2>1, <2>2, Zenon
  <2>3. CASE e.seg = current
    <3>1. PICK n \in Nat : n = Len(f)
      BY <1>1
    <3>2. Holds(f, e) /\ e.off + 2 <= n
      BY <1>1, <1>5, <2>3, <3>1, Zenon DEF Holds
    <3>3. SameUpTo(f, g, n)
      BY <1>4, <3>1 DEF SameUpTo
    <3>4. Holds(g, e)
      BY <1>4, <3>2, <3>3, HoldsStays, Zenon
    <3> QED BY <1>3, <2>3, <3>4, Zenon
  <2> QED BY <2>2, <2>3, Zenon
<1> QED BY <1>1, <1>3, <1>4, <1>5, Zenon

LEMMA HeaderKeeps ==
  ASSUME WALInv, WriteHeader
  PROVE  WALInv'
<1>0. WALType /\ DurableInv /\ OffsetInv
  BY Zenon DEF WALInv
<1>1. /\ UNCHANGED <<up, durable, current, Size, nextSegmentID, todo, reply, written, acks>>
      /\ UNCHANGED <<sync, fsynced, safe, errors, restarts>> /\ header' = TRUE
  BY Zenon DEF WriteHeader, writer, syncer
<1>2. PICK u \in Unit : u = <<"header", Head(todo)>>
  <2>1. Head(todo) \in Data
    BY <1>0 DEF WriteHeader, WALType
  <2> QED BY <2>1, Zenon DEF Unit
<1>3. file' = [file EXCEPT ![current] = Append(@, u)]
  BY <1>2, Zenon DEF WriteHeader
<1>4. file' \in [SegmentIDs -> Seq(Unit)] /\ DurableInv'
  BY <1>0, <1>1, <1>3, UnitKeeps, Zenon
<1>5. WALType'
  BY <1>0, <1>1, <1>4, Zenon DEF WALType, WriteHeader
<1>6. OffsetInv'
  <2> SUFFICES ASSUME Fresh
               PROVE  /\ \A s \in SegmentIDs : s >= nextSegmentID => file'[s] = <<>>
                      /\ current < nextSegmentID
                      /\ Len(file'[current]) = Size + 1 /\ file'[current][Size + 1] = u
                      /\ \A e \in acks \cup reply : e \in WrittenEntry /\ Holds(file'[e.seg], e)
    <3>1. Fresh' <=> Fresh
      BY <1>1, Zenon DEF Fresh
    <3>2. /\ current' = current /\ nextSegmentID' = nextSegmentID /\ acks' = acks /\ reply' = reply
          /\ Size' = Size /\ Head(todo') = Head(todo) /\ (IF header' THEN 1 ELSE 0) = 1
      BY <1>1, Zenon
    <3> QED BY <1>2, <3>1, <3>2, Zenon DEF OffsetInv
  <2>1. /\ current < nextSegmentID /\ Len(file[current]) = Size
        /\ \A s \in SegmentIDs : s >= nextSegmentID => file[s] = <<>>
        /\ \A e \in acks \cup reply : e \in WrittenEntry /\ Holds(file[e.seg], e)
    BY <1>0 DEF OffsetInv, WriteHeader, WALType
  <2>2. \A s \in SegmentIDs : s >= nextSegmentID => s # current
    BY <1>0, <2>1 DEF WALType, SegmentIDs
  <2>3. /\ Len(file'[current]) = Len(file[current]) + 1 /\ file'[current][Len(file[current]) + 1] = u
        /\ \A s \in SegmentIDs \ {current} : file'[s] = file[s]
        /\ \A e \in WrittenEntry : Holds(file[e.seg], e) => Holds(file'[e.seg], e)
    BY <1>0, <1>3, UnitAppended, Zenon
  <2> QED BY <2>1, <2>2, <2>3, Zenon
<1> QED BY <1>4, <1>5, <1>6, Zenon DEF WALInv

LEMMA DataKeeps ==
  ASSUME WALInv, WriteData
  PROVE  WALInv'
<1>0. WALType /\ DurableInv /\ OffsetInv
  BY Zenon DEF WALInv
<1>1. /\ UNCHANGED <<up, durable, current, nextSegmentID, written>>
      /\ UNCHANGED <<sync, fsynced, safe, errors, restarts>>
      /\ header = TRUE /\ header' = FALSE /\ Size' = Size + 2 /\ todo' = Tail(todo)
  BY <1>0, Zenon DEF WriteData, syncer, WALType
<1>2. todo # <<>> /\ Head(todo) \in Data /\ Tail(todo) \in Seq(Data)
  BY <1>0, <1>1 DEF WALType
<1>3. PICK u \in Unit : u = <<"data", Head(todo)>>
  BY <1>2, Zenon DEF Unit
<1>4. file' = [file EXCEPT ![current] = Append(@, u)]
  BY <1>3, Zenon DEF WriteData
<1>5. file' \in [SegmentIDs -> Seq(Unit)] /\ DurableInv'
  BY <1>0, <1>1, <1>4, UnitKeeps, Zenon
<1>6. WALType'
  <2>1. todo' \in Seq(Data) /\ header' \in BOOLEAN /\ (header' => todo' # <<>>)
    BY <1>1, <1>2, Zenon
  <2>2. Size' \in Nat
    BY <1>0, <1>1 DEF WALType
  <2>3. /\ durable' \in [SegmentIDs -> Nat] /\ current' \in SegmentIDs /\ nextSegmentID' \in Nat
        /\ sync' \in SegmentIDs \cup {NoSegment} /\ fsynced' \in BOOLEAN /\ (fsynced' => sync' # NoSegment)
        /\ written' \subseteq Data /\ errors' \in Nat /\ restarts' \in Nat
    BY <1>0, <1>1, Zenon DEF WALType
  <2> QED BY <1>5, <2>1, <2>2, <2>3, Zenon DEF WALType
<1>7. PICK new : new = [seg |-> current, off |-> Size, data |-> Head(todo)]
  BY Zenon
<1>8. acks' \cup reply' \subseteq acks \cup reply \cup {new}
  BY <1>7, Zenon DEF WriteData
<1>9. OffsetInv'
  <2> SUFFICES ASSUME Fresh
               PROVE  /\ \A s \in SegmentIDs : s >= nextSegmentID => file'[s] = <<>>
                      /\ current < nextSegmentID
                      /\ Len(file'[current]) = Size + 2
                      /\ \A e \in acks' \cup reply' : e \in WrittenEntry /\ Holds(file'[e.seg], e)
    <3>1. Fresh' <=> Fresh
      BY <1>1, Zenon DEF Fresh
    <3>2. Len(file'[current]) = Size + 2 => Len(file'[current']) = Size' + (IF header' THEN 1 ELSE 0)
      <4>1. Len(file'[current]) = Size + 2 => Len(file'[current]) = (Size + 2) + 0
        BY <1>0 DEF WALType
      <4> QED BY <1>1, <4>1, Zenon
    <3>3. current' = current /\ nextSegmentID' = nextSegmentID /\ ~header'
      BY <1>1, Zenon
    <3> QED BY <3>1, <3>2, <3>3, Zenon DEF OffsetInv
  <2>1. /\ current < nextSegmentID /\ Len(file[current]) = Size + 1
        /\ file[current][Size + 1] = <<"header", Head(todo)>>
        /\ \A s \in SegmentIDs : s >= nextSegmentID => file[s] = <<>>
        /\ \A e \in acks \cup reply : e \in WrittenEntry /\ Holds(file[e.seg], e)
    BY <1>0, <1>1, Zenon DEF OffsetInv
  <2>2. \A s \in SegmentIDs : s >= nextSegmentID => s # current
    BY <1>0, <2>1 DEF WALType, SegmentIDs
  <2>3. /\ Len(file'[current]) = Len(file[current]) + 1 /\ file'[current][Len(file[current]) + 1] = u
        /\ \A i \in 1 .. Len(file[current]) : file'[current][i] = file[current][i]
        /\ \A s \in SegmentIDs \ {current} : file'[s] = file[s]
        /\ \A e \in WrittenEntry : Holds(file[e.seg], e) => Holds(file'[e.seg], e)
    BY <1>0, <1>4, UnitAppended, Zenon
  <2>4. Size \in Nat /\ current \in SegmentIDs
    BY <1>0, Zenon DEF WALType
  <2>5. new \in WrittenEntry /\ new.seg = current /\ new.off = Size /\ new.data = Head(todo)
    BY <1>2, <1>7, <2>4, Zenon DEF WrittenEntry
  <2>6. /\ Len(file'[current]) = Size + 2 /\ file'[current][Size + 2] = u
        /\ file'[current][Size + 1] = <<"header", Head(todo)>>
    <3>1. PICK n \in Nat : n = Size
      BY <2>4, Zenon
    <3>2. PICK f, g : f = file[current] /\ g = file'[current]
      BY Zenon
    <3>3. Len(f) = n + 1 /\ f[n + 1] = <<"header", Head(todo)>>
      BY <2>1, <3>1, <3>2, Zenon
    <3>4. Len(g) = Len(f) + 1 /\ g[Len(f) + 1] = u /\ \A i \in 1 .. Len(f) : g[i] = f[i]
      BY <2>3, <3>2, Zenon
    <3>5. Len(g) = n + 2 /\ g[n + 2] = u /\ g[n + 1] = f[n + 1]
      BY <3>3, <3>4
    <3> QED BY <3>1, <3>2, <3>3, <3>5, Zenon
  <2>7. Holds(file'[new.seg], new)
    BY <1>3, <2>4, <2>5, <2>6 DEF Holds
  <2>8. \A e \in acks' \cup reply' : e \in WrittenEntry /\ Holds(file'[e.seg], e)
    BY <1>8, <2>1, <2>3, <2>5, <2>7, Zenon
  <2> QED BY <2>1, <2>2, <2>3, <2>6, <2>8, Zenon
<1> QED BY <1>5, <1>6, <1>9, Zenon DEF WALInv


\* Once a write has failed, or the log is not open or was reopened, only the files count.
LEMMA NotFresh ==
  ASSUME WALType', DurableInv', ~Fresh'
  PROVE  WALInv'
  BY Zenon DEF WALInv, OffsetInv

LEMMA WALNext == WALInv /\ [Next]_vars => WALInv'
<1> SUFFICES ASSUME WALInv, [Next]_vars PROVE WALInv'
  BY Zenon
<1>0. WALType /\ DurableInv /\ OffsetInv
  BY Zenon DEF WALInv
<1>1. ASSUME NEW d \in Data, Write(d) \/ WriteBatch(<<d>>) PROVE WALInv'
  <2>1. <<d>> \in Seq(Data)
    OBVIOUS
  <2> QED BY <1>1, <2>1, BeginKeeps, Zenon DEF Write, WriteBatch
<1>2. ASSUME NEW c \in Data, NEW d \in Data, WriteBatch(<<c, d>>) PROVE WALInv'
  <2>1. <<c, d>> \in Seq(Data)
    OBVIOUS
  <2> QED BY <1>2, <2>1, BeginKeeps, Zenon DEF WriteBatch
<1>3. CASE WriteHeader \/ WriteData
  BY <1>3, HeaderKeeps, DataKeeps, Zenon
<1>4. CASE WriteFails
  <2>1. /\ UNCHANGED <<up, durable, current, Size, nextSegmentID, written, sync, fsynced, safe, restarts>>
        /\ todo # <<>> /\ todo' = <<>> /\ header' = FALSE /\ errors' = errors + 1
    BY <1>4, Zenon DEF WriteFails, Fail, writer, syncer
  <2>2. PICK u \in Unit : u = <<IF header THEN "data" ELSE "header", Head(todo)>>
    <3>1. Head(todo) \in Data
      BY <1>0, <2>1 DEF WALType
    <3>2. <<"data", Head(todo)>> \in Unit /\ <<"header", Head(todo)>> \in Unit
      BY <3>1, Zenon DEF Unit
    <3>3. CASE header
      BY <3>2, <3>3, Zenon
    <3>4. CASE ~header
      BY <3>2, <3>4, Zenon
    <3> QED BY <3>3, <3>4, Zenon
  <2>3. file' \in {file, [file EXCEPT ![current] = Append(@, u)]}
    BY <1>4, <2>2, Zenon DEF WriteFails
  <2>4. file' \in [SegmentIDs -> Seq(Unit)] /\ DurableInv'
    BY <1>0, <2>1, <2>3, UnitKeeps, Zenon
  <2>5. WALType'
    <3>1. errors \in Nat /\ errors' \in Nat /\ <<>> \in Seq(Data)
      BY <1>0, <2>1 DEF WALType
    <3>2. todo' \in Seq(Data) /\ header' \in BOOLEAN /\ ~header'
      BY <2>1, <3>1, Zenon
    <3> QED BY <1>0, <2>1, <2>4, <3>1, <3>2, Zenon DEF WALType
  <2>6. ~Fresh'
    BY <1>0, <2>1 DEF Fresh, WALType
  <2> QED BY <2>4, <2>5, <2>6, NotFresh, Zenon
<1>5. ASSUME UNCHANGED <<up, file, current, Size, nextSegmentID, todo, header, reply, written, acks, errors, restarts>>,
             durable' \in [SegmentIDs -> Nat], DurableInv',
             sync' \in SegmentIDs \cup {NoSegment}, fsynced' \in BOOLEAN, fsynced' => sync' # NoSegment
      PROVE  WALInv'
  <2>1. WALType'
    BY <1>0, <1>5, Zenon DEF WALType
  <2>2. OffsetInv'
    BY <1>0, <1>5, Zenon DEF OffsetInv, Fresh
  <2> QED BY <1>5, <2>1, <2>2, Zenon DEF WALInv
<1>6. CASE SyncTake
  <2>1. /\ UNCHANGED <<up, file, current, Size, nextSegmentID, todo, header, reply, written, acks, errors, restarts>>
        /\ UNCHANGED <<durable, safe, fsynced>> /\ sync' = current
    BY <1>6, Zenon DEF SyncTake, disk, writer, call
  <2>2. current # NoSegment
    BY <1>0, WALAssumption DEF WALType, SegmentIDs, NoSegment
  <2>3. DurableInv'
    BY <1>0, <2>1, DiskStays, Zenon
  <2> QED BY <1>0, <1>5, <2>1, <2>2, <2>3, Zenon DEF WALType
<1>7. CASE SyncFile
  <2>1. /\ UNCHANGED <<up, file, current, Size, nextSegmentID, todo, header, reply, written, acks, errors, restarts>>
        /\ UNCHANGED sync /\ sync # NoSegment /\ fsynced' = TRUE
    BY <1>7, Zenon DEF SyncFile, writer, call
  <2>2. durable' \in [SegmentIDs -> Nat]
    <3>1. sync \in SegmentIDs /\ Len(file[sync]) \in Nat
      BY <1>0, <2>1 DEF WALType
    <3> QED BY <1>0, <1>7, <3>1, Zenon DEF SyncFile, WALType
  <2>3. DurableInv'
    BY <1>0, <1>7, SyncKeeps, Zenon
  <2> QED BY <1>0, <1>5, <2>1, <2>2, <2>3, Zenon DEF WALType
<1>8. CASE SyncDone
  <2>1. /\ UNCHANGED <<up, file, current, Size, nextSegmentID, todo, header, reply, written, acks, errors, restarts>>
        /\ UNCHANGED <<durable, safe>> /\ sync' = NoSegment /\ fsynced' = FALSE
    BY <1>8, Zenon DEF SyncDone, disk, writer, call
  <2>2. DurableInv'
    BY <1>0, <2>1, DiskStays, Zenon
  <2> QED BY <1>0, <1>5, <2>1, <2>2, Zenon DEF WALType
<1>9. CASE Close
  <2>1. /\ UNCHANGED <<file, current, Size, nextSegmentID, todo, header, written, fsynced, errors, restarts>>
        /\ up' = "closed" /\ sync' = NoSegment /\ ~fsynced
    BY <1>9, Zenon DEF Close, writer, call
  <2>2. durable' \in [SegmentIDs -> Nat] /\ DurableInv'
    BY <1>0, <1>9, CloseKeeps, Zenon
  <2>3. WALType'
    BY <1>0, <2>1, <2>2, Zenon DEF WALType
  <2> QED BY <2>1, <2>2, <2>3, NotFresh, Zenon DEF Fresh
<1>10. CASE Crash
  <2>1. /\ UNCHANGED <<durable, current, Size, nextSegmentID, written, errors, restarts>> /\ up' = "down"
        /\ todo' = <<>> /\ header' = FALSE /\ sync' = NoSegment /\ fsynced' = FALSE
    BY <1>10, Zenon DEF Crash, writer
  <2>2. file' \in [SegmentIDs -> Seq(Unit)] /\ DurableInv'
    BY <1>0, <1>10, CrashKeeps, Zenon
  <2>3. WALType'
    <3>1. <<>> \in Seq(Data)
      OBVIOUS
    <3> QED BY <1>0, <2>1, <2>2, <3>1, Zenon DEF WALType
  <2> QED BY <2>1, <2>2, <2>3, NotFresh, Zenon DEF Fresh
<1>11. CASE Restart
  <2>1. /\ UNCHANGED <<file, durable, safe, todo, header, written, sync, fsynced, errors>> /\ restarts' = restarts + 1
        /\ current' = 0 /\ Size' = 0 /\ nextSegmentID' = 1
    BY <1>11, Zenon DEF Restart, disk, syncer
  <2>2. 0 \in SegmentIDs
    BY WALAssumption DEF SegmentIDs
  <2>3. WALType'
    <3>1. restarts' \in Nat /\ nextSegmentID' \in Nat /\ Size' \in Nat
      BY <1>0, <2>1 DEF WALType
    <3> QED BY <1>0, <2>1, <2>2, <3>1, Zenon DEF WALType
  <2>4. DurableInv'
    BY <1>0, <2>1, DiskStays, Zenon
  <2>5. ~Fresh'
    <3>1. restarts \in Nat
      BY <1>0, Zenon DEF WALType
    <3> QED BY <2>1, <3>1 DEF Fresh
  <2> QED BY <2>3, <2>4, <2>5, NotFresh, Zenon
<1>12. CASE UNCHANGED vars
  <2>1. /\ UNCHANGED <<up, file, current, Size, nextSegmentID, todo, header, reply, written, acks, errors, restarts>>
        /\ UNCHANGED <<durable, safe, sync, fsynced>>
    BY <1>12, Zenon DEF vars, disk, writer, call, syncer
  <2>2. DurableInv'
    BY <1>0, <2>1, DiskStays, Zenon
  <2> QED BY <1>0, <1>5, <2>1, <2>2, Zenon DEF WALType
<1> QED BY <1>1, <1>2, <1>3, <1>4, <1>6, <1>7, <1>8, <1>9, <1>10, <1>11, <1>12, Zenon DEF Next

\* An entry in a file when a Sync of it returned can be read from then on, whatever
\* is written, fails, crashes or is reopened later.
THEOREM SyncedKept == Spec => []SyncedSurvives
<1>1. WALInv => SyncedSurvives
  BY WALInvReads, Zenon
<1> QED BY <1>1, WALInit, WALNext, PTL DEF Spec

\* Every offset that Write or WriteBatch returned is the place of the entry, in every
\* segment, until a write fails or the log is reopened.
THEOREM OffsetsFound == Spec => []OffsetsRead
<1>1. WALInv => OffsetsRead
  BY WALInvReads, Zenon
<1> QED BY <1>1, WALInit, WALNext, PTL DEF Spec
=============================================================================
