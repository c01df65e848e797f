--------------------------- MODULE DataStoreProofs ---------------------------
(***************************************************************************)
(* Proofs about DataStore for any number of chunks, records and restarts.  *)
(*                                                                         *)
(* The inductive invariant says how a chunk is laid out while it is in     *)
(* memory, in a writer and in its file at once: Start(c, i) is the offset  *)
(* of the i-th buffered record, the end of the chunk for the position      *)
(* after the last one, and the file always ends at the start of the first  *)
(* buffered record that the flush in progress has not written out.         *)
(***************************************************************************)
EXTENDS DataStore, SequenceTheorems, WellFoundedInduction, TLAPS

InFlush == {"open", "len", "size", "count", "write", "sync", "trim", "account"}

\* flushLock is held by the goroutine that is inside flush, Bucket.close runs in
\* a bucket being closed only, and a process that does not run has nothing in
\* memory.
LockInv ==
    /\ \A f \in Flushers : pc[f] \in InFlush <=> flushLock = f
    /\ state # "closing" => pc[Closer] = "idle"
    /\ ~Alive => /\ flushLock = NoOne
                 /\ \A f \in Flushers : pc[f] = "idle"
                 /\ wbufSize = 0
                 /\ pending = << >>
                 /\ reader = NoRead
                 /\ \A c \in Chunks : wbuf[c] = << >>

At(s) == flushLock # NoOne /\ pc[flushLock] = s

\* In a buffer b of a chunk that ends at w: where the i-th record starts.
StartIn(b, w, i) == IF i <= Len(b) THEN b[i].off ELSE w
Start(c, i) == StartIn(wbuf[c], writingHead[c], i)

\* The records of b are chunk c's and lie end to end, the last ending at w.
Laid(b, w, c) ==
    /\ \A i \in 1 .. Len(b) :
          /\ b[i].chunk = c
          /\ b[i].off + b[i].size = StartIn(b, w, i + 1)
          /\ b[i].off + b[i].size <= w
    /\ \A i, j \in 1 .. Len(b) : i < j => b[i].off + b[i].size <= b[j].off

\* How many records of wbuf[c] the flush in progress has put into the file.
Done(c) ==
    IF c # target THEN 0
    ELSE IF At("write") \/ At("sync") THEN irec - Len(pending)
    ELSE IF At("trim") THEN nrec ELSE 0

\* Every buffer is laid out so, up to writingHead.
BufferInv ==
    \A c \in Chunks : size[c] = writingHead[c] /\ Laid(wbuf[c], writingHead[c], c)

\* Chunks after the head are empty and the goroutine that will flush the head or
\* a later chunk has not been started; past the last chunk nothing is buffered
\* or the mutex is dead; a file that does not exist has no size.
HeadInv ==
    /\ Alive => \A c \in Chunks : c > newHead => writingHead[c] = 0
    /\ \A c \in Chunks : c >= newHead => pc[c] = "idle"
    /\ newHead \notin Chunks /\ ~mutexDead => wbufSize = 0 /\ flushLock = NoOne
    /\ \A c \in Chunks : ~exists[c] => fsize[c] = 0
    /\ flushLock # NoOne /\ ~At("open") => exists[target]

\* What the flush in progress holds.
WriterInv ==
    /\ At("len") \/ At("size") => woffset = fsize[target]
    /\ ~At("write") /\ ~At("sync") => pending = << >>
    /\ At("write") => irec < nrec
    /\ At("sync") => irec = nrec
    /\ At("write") \/ At("sync") \/ At("trim") =>
          /\ nrec <= Len(wbuf[target])
          /\ Len(pending) <= irec
          /\ \A j \in 1 .. Len(pending) :
                pending[j] = wbuf[target][irec - Len(pending) + j]

\* The file ends where the unwritten part of the buffer starts.
FileInv == Alive => \A c \in Chunks : fsize[c] = Start(c, 1 + Done(c))

\* Records on disk lie inside their file.
ContentInv ==
    \A c \in Chunks : \A e \in content[c] : e.at + e.rec.size <= fsize[c]

Layout == LockInv /\ BufferInv /\ HeadInv /\ WriterInv /\ FileInv /\ ContentInv

\* A record is in the buffer, or on disk before the buffer starts; buffered
\* records that the file already reaches are on disk too; a reader on its way to
\* the file will find its record there.
ReadInv ==
    /\ Alive => \A r \in appended :
          BufferHas(r) \/ (OnDisk(r) /\ r.off + r.size <= Start(r.chunk, 1))
    /\ Alive => \A c \in Chunks : \A i \in 1 .. Len(wbuf[c]) :
          wbuf[c][i].off < fsize[c] => OnDisk(wbuf[c][i])
    /\ reader.at = "file" => OnDisk(reader.rec)

-----------------------------------------------------------------------------
(* Typing *)

\* The fields of a record.
LEMMA RecordFields ==
    ASSUME NEW r \in Records
    PROVE  r.size \in Nat \ {0} /\ r.off \in Nat /\ r.chunk \in Chunks
<1>1. r.size \in Sizes /\ r.off \in Nat /\ r.chunk \in Chunks
  BY DEF Records
<1>2. \A s \in Sizes : s \in Nat \ {0}
  BY DataStoreAssumption
<1> QED BY <1>1, <1>2

\* What NewdataStore leaves: empty buffers.
LEMMA EmptyBuffers == [c \in Chunks |-> << >>] \in [Chunks -> Seq(Records)]
<1>1. << >> \in Seq(Records) BY EmptySeq
<1> QED BY <1>1

\* The initial state is well typed.
LEMMA InitTypeOK == Init => TypeOK
<1> SUFFICES ASSUME Init PROVE TypeOK
  OBVIOUS
<1> USE DataStoreAssumption
<1>1. MemoryOK
  <2>1. wbuf \in [Chunks -> Seq(Records)]
    BY EmptyBuffers DEF Init
  <2>2. newHead \in 0 .. NumChunks /\ wbufSize \in Int
    BY DEF Init
  <2>3. mutexDead \in BOOLEAN
    BY DEF Init
  <2>4. size \in [Chunks -> Nat] /\ writingHead \in [Chunks -> Nat]
    BY DEF Init
  <2> QED BY <2>1, <2>2, <2>3, <2>4 DEF MemoryOK
<1>2. FlushingOK BY EmptySeq DEF Init, Chunks, FlushingOK, Flushers, Steps, NoOne
<1>3. DiskOK BY DEF Init, DiskOK
<1>4. HistoryOK /\ ControlOK BY DEF Init, HistoryOK, ControlOK, NoRead
<1> QED BY <1>1, <1>2, <1>3, <1>4 DEF TypeOK

\* Stopping leaves every variable it resets well typed.
LEMMA StopTypeOK ==
    ASSUME TypeOK, NEW s \in {"closed", "down"}, StopAs(s),
           UNCHANGED <<history, restarts>>, fatal' \in {"no", "wbuf", "size"}
    PROVE  TypeOK'
<1>1. fsize' \in [Chunks -> Nat] /\ aligned' \in [Chunks -> BOOLEAN]
  <2>1. CASE UNCHANGED <<fsize, aligned>>
    BY <2>1 DEF TypeOK, DiskOK
  <2>2. ASSUME pending # << >>, UNCHANGED aligned,
               NEW p \in 1 .. Head(pending).size - 1,
               fsize' = [fsize EXCEPT ![target] = @ + p]
        PROVE  fsize' \in [Chunks -> Nat] /\ aligned' \in [Chunks -> BOOLEAN]
    BY <2>2 DEF TypeOK, DiskOK, FlushingOK
  <2>3. CASE UNCHANGED fsize /\ aligned' = [aligned EXCEPT ![target] = FALSE]
    BY <2>3 DEF TypeOK, DiskOK
  <2> QED BY <2>1, <2>2, <2>3 DEF StopAs, TornTail
<1>2. MemoryOK'
  BY DataStoreAssumption, EmptySeq DEF StopAs, MemoryOK, Chunks
<1>3. FlushingOK'
  BY DataStoreAssumption, EmptySeq DEF StopAs, FlushingOK, Chunks, Flushers, Steps, NoOne
<1>4. DiskOK'
  BY <1>1 DEF TypeOK, StopAs, DiskOK
<1>5. HistoryOK' /\ ControlOK'
  BY DEF TypeOK, StopAs, HistoryOK, ControlOK, history, NoRead
<1> QED BY <1>2, <1>3, <1>4, <1>5 DEF TypeOK

\* Every step keeps the types; the layout bounds what flush indexes.
LEMMA NextTypeOK == TypeOK /\ Layout /\ [Next]_vars => TypeOK'
<1> SUFFICES ASSUME TypeOK, Layout, [Next]_vars PROVE TypeOK'
  OBVIOUS
<1> USE DataStoreAssumption DEF memory, disk, history, flushing, TypeOK
<1>1. ASSUME NEW s \in Sizes, AppendRecord(s) PROVE TypeOK'
  <2> DEFINE h == HeadFor(s)
             r == [id |-> nextId, chunk |-> h, off |-> OffsetFor(s), size |-> s]
  <2>1. h \in Chunks /\ newHead \in Chunks /\ s \in Nat /\ OffsetFor(s) \in Nat
    BY <1>1 DEF AppendRecord, MemoryOK, OffsetFor
  <2>2. r \in Records
    BY <1>1, <2>1 DEF AppendRecord, HistoryOK, Records
  <2>3. wbuf' = [wbuf EXCEPT ![h] = Append(@, r)] /\ writingHead' = [writingHead EXCEPT ![h] = @ + s]
        /\ size' = [size EXCEPT ![h] = writingHead[h] + s] /\ wbufSize' = wbufSize + s
        /\ newHead' = h /\ UNCHANGED mutexDead
    BY <1>1 DEF AppendRecord
  <2>4. Append(wbuf[h], r) \in Seq(Records)
    BY <2>1, <2>2, AppendProperties DEF MemoryOK
  <2>5. MemoryOK'
    BY <2>1, <2>3, <2>4, SMTT(20) DEF MemoryOK, Chunks
  <2>6. FlushingOK'
    BY <1>1, <2>1 DEF AppendRecord, SpawnFlush, FlushingOK, Flushers, Steps
  <2>7. HistoryOK'
    BY <1>1, <2>2 DEF AppendRecord, HistoryOK
  <2> QED BY <1>1, <2>5, <2>6, <2>7 DEF AppendRecord, DiskOK, ControlOK
<1>2. ASSUME NEW s \in Sizes, AppendPanic(s) PROVE TypeOK'
  <2>1. MemoryOK'
    BY <1>2, SMTT(20) DEF AppendPanic, MemoryOK, Chunks
  <2>2. FlushingOK'
    BY <1>2 DEF AppendPanic, SpawnFlush, FlushingOK, Flushers, Steps
  <2> QED BY <1>2, <2>1, <2>2 DEF AppendPanic, DiskOK, HistoryOK, ControlOK
<1> USE DEF Steps
<1>3. CASE FlushTick
  BY <1>3 DEF FlushTick, MemoryOK, FlushingOK, DiskOK, HistoryOK, ControlOK
<1>4. ASSUME NEW f \in Flushers, FlushCheck(f) \/ FlushSkip(f) PROVE TypeOK'
  BY <1>4 DEF FlushCheck, FlushSkip, MemoryOK, FlushingOK, DiskOK, HistoryOK, ControlOK
<1>5. ASSUME NEW f \in Flushers, FlushStart(f) PROVE TypeOK'
  <2>1. target' \in Chunks
    BY <1>5 DEF FlushStart, Layout, HeadInv
  <2> QED
    BY <1>5, <2>1 DEF FlushStart, MemoryOK, FlushingOK, DiskOK, HistoryOK, ControlOK
<1>6. ASSUME NEW f \in Flushers, OpenWriter(f) PROVE TypeOK'
  <2>1. woffset' \in Nat
    BY <1>6 DEF OpenWriter, FlushingOK, DiskOK
  <2>2. DiskOK'
    BY <1>6 DEF OpenWriter, DiskOK
  <2> QED
    BY <1>6, <2>1, <2>2, EmptySeq DEF OpenWriter, MemoryOK, FlushingOK, HistoryOK, ControlOK
<1>7. ASSUME NEW f \in Flushers, SizeFromBuffer(f) \/ SizeFromChunk(f) PROVE TypeOK'
  <2>1. CASE Fatalf("wbuf") \/ Fatalf("size")
    BY <1>7, <2>1, StopTypeOK DEF Fatalf, SizeFromBuffer, SizeFromChunk
  <2>2. CASE ~Fatalf("wbuf") /\ ~Fatalf("size")
    BY <1>7, <2>2 DEF SizeFromBuffer, SizeFromChunk, MemoryOK, FlushingOK, DiskOK,
                     HistoryOK, ControlOK
  <2> QED BY <2>1, <2>2
<1>8. ASSUME NEW f \in Flushers, SeeEmptyBuffer(f) \/ Synced(f) PROVE TypeOK'
  BY <1>8 DEF SeeEmptyBuffer, Synced, MemoryOK, FlushingOK, DiskOK, HistoryOK, ControlOK
<1>9. ASSUME NEW f \in Flushers, FlushCount(f) PROVE TypeOK'
  <2>1. Len(wbuf[target]) \in Nat
    BY LenProperties DEF MemoryOK, FlushingOK
  <2> QED
    BY <1>9, <2>1 DEF FlushCount, MemoryOK, FlushingOK, DiskOK, HistoryOK, ControlOK
<1>10. ASSUME NEW f \in Flushers, WriteRecord(f) PROVE TypeOK'
  <2> DEFINE r == wbuf[target][irec + 1]
  <2>1. irec + 1 \in 1 .. Len(wbuf[target]) /\ wbuf[target] \in Seq(Records)
    <3>1. flushLock = f /\ f # NoOne
      BY <1>10 DEF WriteRecord, Layout, LockInv, InFlush, Flushers, NoOne, Bg, Closer, Chunks
    <3>2. irec < nrec /\ nrec <= Len(wbuf[target])
      BY <1>10, <3>1 DEF WriteRecord, Layout, WriterInv, At
    <3>3. Len(wbuf[target]) \in Nat /\ wbuf[target] \in Seq(Records)
      BY LenProperties DEF MemoryOK, FlushingOK
    <3> QED BY <3>2, <3>3 DEF FlushingOK
  <2>2. r \in Records /\ r.size \in Nat
    BY <2>1, ElementOfSeq, RecordFields
  <2>3. Append(pending, r) \in Seq(Records)
    BY <2>2, AppendProperties DEF FlushingOK
  <2> QED
    BY <1>10, <2>2, <2>3, SMTT(20) DEF WriteRecord, MemoryOK, FlushingOK, DiskOK, HistoryOK, ControlOK
<1>11. ASSUME NEW f \in Flushers, WriteOut(f) PROVE TypeOK'
  <2>1. Head(pending) \in Records /\ Tail(pending) \in Seq(Records)
    BY <1>11, HeadTailProperties DEF WriteOut, FlushingOK
  <2>2. Head(pending).size \in Nat
    BY <2>1, RecordFields
  <2>3. fsize' \in [Chunks -> Nat]
    BY <1>11, <2>2 DEF WriteOut, DiskOK, FlushingOK
  <2>4. [rec |-> Head(pending), at |-> fsize[target]] \in [rec : Records, at : Nat]
    BY <2>1 DEF DiskOK, FlushingOK
  <2>5. content' \in [Chunks -> SUBSET [rec : Records, at : Nat]]
    BY <1>11, <2>4 DEF WriteOut, DiskOK, FlushingOK
  <2>6. DiskOK'
    BY <1>11, <2>3, <2>5 DEF WriteOut, DiskOK
  <2> QED
    BY <1>11, <2>1, <2>6 DEF WriteOut, MemoryOK, FlushingOK, HistoryOK, ControlOK
<1>12. ASSUME NEW f \in Flushers, Trim(f) PROVE TypeOK'
  <2> DEFINE b == wbuf[target]
  <2>1. b \in Seq(Records) /\ Len(b) \in Nat
    BY LenProperties DEF MemoryOK, FlushingOK
  <2>2. \A i \in nrec + 1 .. Len(b) : b[i] \in Records
    BY <2>1, ElementOfSeq DEF FlushingOK
  <2>3. SubSeq(b, nrec + 1, Len(b)) \in Seq(Records)
    BY <2>1, <2>2, SubSeqProperties DEF FlushingOK
  <2>4. MemoryOK'
    BY <1>12, <2>3 DEF Trim, MemoryOK, FlushingOK
  <2> QED
    BY <1>12, <2>4 DEF Trim, FlushingOK, DiskOK, HistoryOK, ControlOK
<1>13. ASSUME NEW f \in Flushers, Account(f) PROVE TypeOK'
  BY <1>13 DEF Account, MemoryOK, FlushingOK, DiskOK, HistoryOK, ControlOK
<1>14. ASSUME NEW r \in appended, ReadBuffer(r) PROVE TypeOK'
  <2>1. ControlOK'
    BY <1>14 DEF ReadBuffer, ControlOK, HistoryOK
  <2> QED
    BY <1>14, <2>1 DEF ReadBuffer, MemoryOK, FlushingOK, DiskOK, HistoryOK
<1>15. CASE ReadFile
  <2>1. reader.rec \in Records
    BY <1>15 DEF ReadFile, ControlOK, NoRead
  <2>2. ControlOK'
    BY <1>15, <2>1 DEF ReadFile, ControlOK
  <2> QED
    BY <1>15, <2>2 DEF ReadFile, MemoryOK, FlushingOK, DiskOK, HistoryOK
<1>16. CASE Close
  BY <1>16 DEF Close, Flushers, MemoryOK, FlushingOK, DiskOK, HistoryOK, ControlOK
<1>17. CASE Exit \/ Crash
  BY <1>17, StopTypeOK DEF Exit, Crash, ControlOK
<1>18. CASE Open
  <2>1. MemoryOK'
    BY <1>18 DEF Open, MemoryOK, DiskOK
  <2>2. HistoryOK' /\ ControlOK'
    BY <1>18 DEF Open, HistoryOK, ControlOK
  <2> QED
    BY <1>18, <2>1, <2>2 DEF Open, FlushingOK, DiskOK
<1>19. CASE UNCHANGED vars
  BY <1>19 DEF vars, MemoryOK, FlushingOK, DiskOK, HistoryOK, ControlOK
<1> QED
  BY <1>1, <1>2, <1>3, <1>4, <1>5, <1>6, <1>7, <1>8, <1>9, <1>10, <1>11, <1>12,
     <1>13, <1>14, <1>15, <1>16, <1>17, <1>18, <1>19 DEF Next

-----------------------------------------------------------------------------
(* Layout *)

\* NoOne is not the name of a goroutine.
LEMMA NoOneFree == NoOne \notin Flushers
BY DataStoreAssumption DEF NoOne, Flushers, Chunks, Bg, Closer

\* Whoever is inside flush holds flushLock.
LEMMA Holder ==
    ASSUME LockInv, NEW f \in Flushers, pc[f] \in InFlush
    PROVE  flushLock = f /\ f # NoOne /\ (\A s : At(s) <=> pc[f] = s)
BY NoOneFree DEF LockInv, At

\* The empty store is laid out.
LEMMA InitLayout == Init => Layout
<1> SUFFICES ASSUME Init PROVE Layout
  OBVIOUS
<1> USE DataStoreAssumption
<1>1. LockInv
  BY NoOneFree DEF Init, LockInv, InFlush, Alive, Flushers
<1>2. ~At("write") /\ ~At("sync") /\ ~At("trim") /\ ~At("len") /\ ~At("size")
  BY DEF Init, At
<1>3. WriterInv /\ HeadInv
  BY <1>2 DEF Init, WriterInv, HeadInv, Flushers, Chunks
<1>4. \A c \in Chunks : wbuf[c] = << >> /\ Len(wbuf[c]) = 0 /\ Done(c) = 0
  BY <1>2, EmptySeq DEF Init, Done
<1>5. BufferInv /\ FileInv
  BY <1>4 DEF Init, BufferInv, Laid, FileInv, Start, StartIn
<1>6. ContentInv
  BY DEF Init, ContentInv
<1> QED BY <1>1, <1>3, <1>5, <1>6 DEF Layout

\* Every step hands flushLock on as flush takes and releases it.
LEMMA NextLock == TypeOK /\ Layout /\ [Next]_vars => LockInv'
<1> SUFFICES ASSUME TypeOK, Layout, [Next]_vars PROVE LockInv'
  OBVIOUS
<1> USE NoOneFree DEF Layout, LockInv, InFlush
<1>1. pc \in [Flushers -> Steps] /\ flushLock \in Flushers \cup {NoOne}
  BY DEF TypeOK, FlushingOK
<1>a. Closer \in Flushers /\ Closer # Bg /\ Closer \notin Chunks
  BY DataStoreAssumption DEF Flushers, Closer, Bg, Chunks
<1> USE <1>a DEF Alive, memory, disk, history, flushing
<1>2. ASSUME NEW s \in Sizes, AppendRecord(s) \/ AppendPanic(s) PROVE LockInv'
  <2>1. newHead \in Chunks => pc[newHead] = "idle" /\ newHead \in Flushers
    BY DataStoreAssumption DEF HeadInv, Flushers, Chunks
  <2> QED BY <1>1, <1>2, <2>1 DEF AppendRecord, AppendPanic, SpawnFlush
<1>3. CASE FlushTick
  BY <1>1, <1>3 DEF FlushTick, Flushers
<1>4. ASSUME NEW f \in Flushers,
             FlushCheck(f) \/ FlushSkip(f) \/ FlushStart(f) \/ OpenWriter(f)
             \/ SeeEmptyBuffer(f) \/ FlushCount(f) \/ WriteRecord(f)
             \/ Synced(f) \/ Trim(f) \/ Account(f)
      PROVE  LockInv'
  BY <1>1, <1>4 DEF FlushCheck, FlushSkip, FlushStart, OpenWriter, SeeEmptyBuffer,
                   FlushCount, WriteRecord, Synced, Trim, Account
<1>5. ASSUME NEW f \in Flushers, SizeFromBuffer(f) \/ SizeFromChunk(f) PROVE LockInv'
  BY <1>1, <1>5 DEF SizeFromBuffer, SizeFromChunk, Fatalf, StopAs
<1>6. ASSUME NEW f \in Flushers, WriteOut(f) PROVE LockInv'
  BY <1>1, <1>6 DEF WriteOut
<1>7. ASSUME NEW r \in appended, ReadBuffer(r) PROVE LockInv'
  BY <1>1, <1>7 DEF ReadBuffer
<1>8. CASE ReadFile
  BY <1>1, <1>8 DEF ReadFile
<1>9. CASE Close
  BY <1>1, <1>9 DEF Close
<1>10. CASE Exit \/ Crash
  BY <1>10 DEF Exit, Crash, StopAs
<1>11. CASE Open
  BY <1>1, <1>11 DEF Open
<1>12. CASE UNCHANGED vars
  BY <1>12 DEF vars
<1> QED
  BY <1>2, <1>3, <1>4, <1>5, <1>6, <1>7, <1>8, <1>9, <1>10, <1>11, <1>12 DEF Next

\* Held records are records; their number is a number.
LEMMA BufferFields ==
    ASSUME NEW b \in Seq(Records)
    PROVE  /\ Len(b) \in Nat
           /\ \A i \in 1 .. Len(b) : /\ b[i] \in Records
                                      /\ b[i].off \in Nat
                                      /\ b[i].size \in Nat \ {0}
BY LenProperties, ElementOfSeq, RecordFields

\* A record put at the end keeps a buffer laid out and moves none of its starts.
LEMMA LaidAppend ==
    ASSUME NEW b \in Seq(Records), NEW w \in Nat, NEW c, NEW r \in Records,
           Laid(b, w, c), r.chunk = c, r.off = w
    PROVE  /\ Laid(Append(b, r), w + r.size, c)
           /\ \A i \in 1 .. Len(b) + 1 :
                 StartIn(Append(b, r), w + r.size, i) = StartIn(b, w, i)
<1> DEFINE a == Append(b, r)
           n == Len(b)
<1>1. n \in Nat /\ (\A i \in 1 .. n : b[i].off \in Nat /\ b[i].size \in Nat \ {0})
  BY BufferFields
<1>2. Len(a) = n + 1 /\ (\A i \in 1 .. n : a[i] = b[i]) /\ a[n + 1] = r
  BY AppendProperties
<1>3. r.size \in Nat \ {0} BY RecordFields
<1> HIDE DEF a, n
<1>4. \A i \in 1 .. n + 1 : StartIn(a, w + r.size, i) = StartIn(b, w, i)
  BY <1>1, <1>2 DEF StartIn, n
<1>5. ASSUME NEW i \in 1 .. n + 1
      PROVE  /\ a[i].chunk = c
             /\ a[i].off + a[i].size = StartIn(a, w + r.size, i + 1)
             /\ a[i].off + a[i].size <= w + r.size
  <2>1. CASE i = n + 1
    BY <1>1, <1>2, <1>3, <2>1 DEF StartIn
  <2>2. CASE i \in 1 .. n
    <3>1. i + 1 \in 1 .. n + 1 BY <1>1, <2>2
    <3>2. b[i].chunk = c /\ b[i].off + b[i].size = StartIn(b, w, i + 1)
          /\ b[i].off + b[i].size <= w
      BY <2>2 DEF Laid, n
    <3> QED BY <1>1, <1>2, <1>3, <1>4, <2>2, <3>1, <3>2
  <2> QED BY <1>1, <2>1, <2>2
<1>6. ASSUME NEW i \in 1 .. n + 1, NEW j \in 1 .. n + 1, i < j
      PROVE  a[i].off + a[i].size <= a[j].off
  <2>1. i \in 1 .. n BY <1>1, <1>6
  <2>2. CASE j = n + 1
    BY <1>2, <2>1, <2>2 DEF Laid, n
  <2>3. CASE j \in 1 .. n
    BY <1>2, <1>6, <2>1, <2>3 DEF Laid, n
  <2> QED BY <1>1, <2>2, <2>3
<1> QED BY <1>2, <1>4, <1>5, <1>6 DEF Laid, a, n

\* Dropping the first n records keeps it laid out and renumbers its starts.
LEMMA LaidDrop ==
    ASSUME NEW b \in Seq(Records), NEW w \in Nat, NEW c, NEW n \in Nat,
           n <= Len(b), Laid(b, w, c), NEW d, d = SubSeq(b, n + 1, Len(b))
    PROVE  /\ Laid(d, w, c)
           /\ d \in Seq(Records) /\ Len(d) = Len(b) - n
           /\ \A i \in 1 .. Len(d) : d[i] = b[i + n]
           /\ \A i \in Nat \ {0} : StartIn(d, w, i) = StartIn(b, w, i + n)
<1> DEFINE m == Len(b)
<1>1. m \in Nat /\ (\A i \in 1 .. m : b[i] \in Records /\ b[i].off \in Nat
                                        /\ b[i].size \in Nat \ {0})
  BY BufferFields
<1>2. d \in Seq(Records) /\ Len(d) = m - n /\ (\A i \in 1 .. m - n : d[i] = b[i + n])
  <2>1. \A i \in n + 1 .. m : b[i] \in Records BY <1>1
  <2>2. /\ d \in Seq(Records)
        /\ Len(d) = IF n + 1 <= m THEN m - (n + 1) + 1 ELSE 0
        /\ \A i \in 1 .. m - (n + 1) + 1 : d[i] = b[(n + 1) + i - 1]
    BY <1>1, <2>1, SubSeqProperties
  <2> QED BY <1>1, <2>2
<1> HIDE DEF m
<1>3. n <= m BY DEF m
<1>4. \A i \in Nat \ {0} : StartIn(d, w, i) = StartIn(b, w, i + n)
  BY <1>1, <1>2, <1>3 DEF StartIn, m
<1>5. ASSUME NEW i \in 1 .. m - n
      PROVE  /\ d[i].chunk = c
             /\ d[i].off + d[i].size = StartIn(d, w, i + 1)
             /\ d[i].off + d[i].size <= w
  <2>1. i + n \in 1 .. m /\ i + 1 \in Nat \ {0} /\ (i + n) + 1 = (i + 1) + n
    BY <1>1, <1>3
  <2>2. b[i + n].chunk = c /\ b[i + n].off + b[i + n].size = StartIn(b, w, (i + n) + 1)
        /\ b[i + n].off + b[i + n].size <= w
    BY <2>1 DEF Laid, m
  <2>3. d[i] = b[i + n] /\ StartIn(d, w, i + 1) = StartIn(b, w, (i + n) + 1)
    BY <1>2, <1>4, <2>1
  <2> QED BY <2>2, <2>3
<1>6. ASSUME NEW i \in 1 .. m - n, NEW j \in 1 .. m - n, i < j
      PROVE  d[i].off + d[i].size <= d[j].off
  <2>1. i + n \in 1 .. m /\ j + n \in 1 .. m /\ i + n < j + n
    BY <1>1, <1>3, <1>6
  <2> QED BY <1>2, <2>1 DEF Laid, m
<1>7. Laid(d, w, c)
  BY <1>2, <1>5, <1>6 DEF Laid
<1> QED BY <1>2, <1>4, <1>7 DEF m

\* ... so that it starts where its (n+1)-st record did.
LEMMA DropStart ==
    ASSUME NEW b \in Seq(Records), NEW w \in Nat, NEW c, NEW n \in Nat,
           n <= Len(b), Laid(b, w, c)
    PROVE  StartIn(SubSeq(b, n + 1, Len(b)), w, 1) = StartIn(b, w, 1 + n)
<1> DEFINE d == SubSeq(b, n + 1, Len(b))
<1>1. Len(d) = Len(b) - n /\ (\A i \in 1 .. Len(d) : d[i] = b[i + n])
  BY LaidDrop
<1>2. Len(b) \in Nat
  BY BufferFields
<1> HIDE DEF d
<1>3. StartIn(d, w, 1) = StartIn(b, w, 1 + n)
  <2>1. CASE n < Len(b)
    <3>1. 1 \in 1 .. Len(d) /\ 1 <= Len(d) /\ 1 + n <= Len(b)
      BY <1>1, <1>2, <2>1
    <3>2. d[1] = b[1 + n]
      BY <1>1, <3>1
    <3> QED BY <3>1, <3>2 DEF StartIn
  <2>2. CASE n = Len(b)
    BY <1>1, <1>2, <2>2 DEF StartIn
  <2> QED BY <1>2, <2>1, <2>2
<1> QED BY <1>3 DEF d

\* An empty buffer is laid out.
LEMMA LaidEmpty == ASSUME NEW w, NEW c PROVE Laid(<< >>, w, c)
<1>1. 1 .. Len(<< >>) = {} BY EmptySeq
<1> QED BY <1>1 DEF Laid

\* AppendRecord puts one record, at the old writingHead, behind the buffer of the
\* new head and leaves the other chunks alone.
LEMMA AppendShape ==
    ASSUME TypeOK, Layout, NEW s \in Sizes, AppendRecord(s)
    PROVE  /\ newHead \in Chunks /\ newHead' \in Chunks /\ newHead <= newHead'
           /\ \A c \in Chunks : c # newHead' =>
                 wbuf'[c] = wbuf[c] /\ writingHead'[c] = writingHead[c] /\ size'[c] = size[c]
           /\ writingHead'[newHead'] = writingHead[newHead'] + s
           /\ size'[newHead'] = writingHead'[newHead']
           /\ \E r \in Records :
                 /\ r.chunk = newHead' /\ r.off = writingHead[newHead'] /\ r.size = s
                 /\ wbuf'[newHead'] = Append(wbuf[newHead'], r)
                 /\ appended' = appended \cup {r}
<1> DEFINE h == HeadFor(s)
           r == [id |-> nextId, chunk |-> h, off |-> OffsetFor(s), size |-> s]
<1>1. newHead' = h /\ h \in Chunks /\ newHead \in Chunks /\ nextId \in 1 .. MaxRecords
  BY DEF AppendRecord, TypeOK, HistoryOK
<1>2. newHead <= h
  BY <1>1 DEF HeadFor, Chunks
<1>3. OffsetFor(s) = writingHead[h] /\ OffsetFor(s) \in Nat
  BY <1>1 DEF OffsetFor, HeadFor, Layout, HeadInv, AppendRecord, Alive, TypeOK, MemoryOK, Chunks
<1>4. r \in Records
  BY <1>1, <1>3 DEF Records
<1>5. /\ wbuf' = [wbuf EXCEPT ![h] = Append(@, r)]
      /\ writingHead' = [writingHead EXCEPT ![h] = @ + s]
      /\ size' = [size EXCEPT ![h] = writingHead[h] + s]
      /\ appended' = appended \cup {r}
  BY DEF AppendRecord
<1>6. wbuf \in [Chunks -> Seq(Records)] /\ writingHead \in [Chunks -> Nat] /\ size \in [Chunks -> Nat]
  BY DEF TypeOK, MemoryOK
<1>7. wbuf'[h] = Append(wbuf[h], r)
  BY <1>1, <1>5, <1>6
<1>8. r.chunk = h /\ r.off = writingHead[h] /\ r.size = s
  BY <1>3
<1>9. \A c \in Chunks : c # h =>
          wbuf'[c] = wbuf[c] /\ writingHead'[c] = writingHead[c] /\ size'[c] = size[c]
  BY <1>1, <1>5, <1>6
<1>10. writingHead'[h] = writingHead[h] + s /\ size'[h] = writingHead'[h]
  BY <1>1, <1>5, <1>6
<1> HIDE DEF h, r
<1> QED BY <1>1, <1>2, <1>4, <1>5, <1>7, <1>8, <1>9, <1>10

\* A flush that trims has written no more than the buffer holds.
LEMMA TrimBound ==
    ASSUME TypeOK, Layout, NEW f \in Flushers, Trim(f)
    PROVE  nrec \in Nat /\ nrec <= Len(wbuf[target]) /\ target \in Chunks
           /\ wbuf'[target] = SubSeq(wbuf[target], nrec + 1, Len(wbuf[target]))
           /\ (\A c \in Chunks : c # target => wbuf'[c] = wbuf[c])
<1>1. target \in Chunks /\ nrec \in Nat
  BY DEF TypeOK, FlushingOK
<1>2. nrec <= Len(wbuf[target])
  BY Holder DEF Trim, Layout, WriterInv, InFlush
<1> QED BY <1>1, <1>2 DEF Trim, TypeOK, MemoryOK

\* The only steps that touch a chunk in memory.
LEMMA BufferFrame ==
    ASSUME [Next]_vars
    PROVE  \/ \E s \in Sizes : AppendRecord(s)
           \/ \E f \in Flushers : Trim(f)
           \/ \E s \in {"closed", "down"} : StopAs(s)
           \/ Open
           \/ UNCHANGED <<wbuf, writingHead, size, appended>>
<1> USE DEF memory, history
<1>1. ASSUME NEW s \in Sizes, AppendPanic(s) PROVE UNCHANGED <<wbuf, writingHead, size, appended>>
  BY <1>1 DEF AppendPanic
<1>2. CASE FlushTick \/ ReadFile \/ Close \/ UNCHANGED vars
  BY <1>2 DEF FlushTick, ReadFile, Close, vars
<1>3. ASSUME NEW f \in Flushers,
             \/ FlushCheck(f) \/ FlushSkip(f) \/ FlushStart(f) \/ OpenWriter(f)
             \/ SeeEmptyBuffer(f) \/ FlushCount(f) \/ WriteRecord(f) \/ WriteOut(f)
             \/ Synced(f) \/ Account(f)
      PROVE  UNCHANGED <<wbuf, writingHead, size, appended>>
  BY <1>3 DEF FlushCheck, FlushSkip, FlushStart, OpenWriter, SeeEmptyBuffer,
              FlushCount, WriteRecord, WriteOut, Synced, Account
<1>4. ASSUME NEW f \in Flushers, SizeFromBuffer(f) \/ SizeFromChunk(f)
      PROVE  \/ StopAs("down") \/ UNCHANGED <<wbuf, writingHead, size, appended>>
  BY <1>4 DEF SizeFromBuffer, SizeFromChunk, Fatalf
<1>5. ASSUME NEW r \in appended, ReadBuffer(r) PROVE UNCHANGED <<wbuf, writingHead, size, appended>>
  BY <1>5 DEF ReadBuffer
<1>6. CASE Exit \/ Crash
  BY <1>6 DEF Exit, Crash
<1> QED BY <1>1, <1>2, <1>3, <1>4, <1>5, <1>6 DEF Next

\* Every step keeps the buffers laid out: appends extend, trims drop.
LEMMA NextBuffer == TypeOK /\ Layout /\ [Next]_vars => BufferInv'
<1> SUFFICES ASSUME TypeOK, Layout, [Next]_vars PROVE BufferInv'
  OBVIOUS
<1>1. \A c \in Chunks : wbuf[c] \in Seq(Records) /\ writingHead[c] \in Nat
  BY DEF TypeOK, MemoryOK
<1>2. \A c \in Chunks : size[c] = writingHead[c] /\ Laid(wbuf[c], writingHead[c], c)
  BY DEF Layout, BufferInv
<1>3. ASSUME NEW s \in Sizes, AppendRecord(s) PROVE BufferInv'
  <2> DEFINE h == newHead'
  <2>1. PICK r \in Records : /\ r.chunk = h /\ r.off = writingHead[h] /\ r.size = s
                             /\ wbuf'[h] = Append(wbuf[h], r)
    BY <1>3, AppendShape
  <2>2. /\ h \in Chunks
        /\ writingHead'[h] = writingHead[h] + s /\ size'[h] = writingHead'[h]
        /\ \A c \in Chunks : c # h =>
              wbuf'[c] = wbuf[c] /\ writingHead'[c] = writingHead[c] /\ size'[c] = size[c]
    BY <1>3, AppendShape
  <2> HIDE DEF h
  <2>3. Laid(wbuf'[h], writingHead'[h], h)
    BY <1>1, <1>2, <2>1, <2>2, LaidAppend
  <2> QED BY <1>2, <2>2, <2>3 DEF BufferInv
<1>4. ASSUME NEW f \in Flushers, Trim(f) PROVE BufferInv'
  <2>1. Laid(wbuf'[target], writingHead[target], target)
    BY <1>1, <1>2, <1>4, TrimBound, LaidDrop
  <2>2. UNCHANGED <<writingHead, size>>
    BY <1>4 DEF Trim
  <2> QED BY <1>2, <1>4, <2>1, <2>2, TrimBound DEF BufferInv
<1>5. ASSUME NEW s \in {"closed", "down"}, StopAs(s) PROVE BufferInv'
  BY <1>5, LaidEmpty DEF StopAs, BufferInv
<1>6. CASE Open
  <2>1. CASE UNCHANGED <<size, writingHead, wbuf>>
    BY <1>2, <2>1 DEF BufferInv
  <2>2. CASE size' = fsize /\ writingHead' = fsize /\ UNCHANGED wbuf
    BY <1>6, <2>2, LaidEmpty DEF Layout, LockInv, Open, Alive, BufferInv
  <2> QED BY <1>6, <2>1, <2>2 DEF Open
<1>7. CASE UNCHANGED <<wbuf, writingHead, size>>
  BY <1>2, <1>7 DEF BufferInv
<1> QED BY <1>3, <1>4, <1>5, <1>6, <1>7, BufferFrame

\* A torn tail can only be left in a file that is being written.
LEMMA StopDisk ==
    ASSUME TypeOK, Layout, NEW s \in {"closed", "down"}, StopAs(s)
    PROVE  /\ UNCHANGED <<exists, content>>
           /\ \A c \in Chunks : fsize'[c] \in Nat /\ fsize'[c] >= fsize[c]
           /\ \A c \in Chunks : fsize'[c] # fsize[c] => c = target /\ exists[c]
<1>1. fsize \in [Chunks -> Nat] /\ target \in Chunks
  BY DEF TypeOK, DiskOK, FlushingOK
<1>2. pending # << >> => exists[target]
  BY DEF Layout, WriterInv, HeadInv, At
<1>3. pending # << >> => Head(pending).size \in Nat
  BY HeadTailProperties, RecordFields DEF TypeOK, FlushingOK
<1>4. CASE UNCHANGED fsize
  BY <1>1, <1>4 DEF StopAs
<1>5. ASSUME pending # << >>, NEW p \in 1 .. Head(pending).size - 1,
             fsize' = [fsize EXCEPT ![target] = @ + p]
      PROVE  /\ UNCHANGED <<exists, content>>
             /\ \A c \in Chunks : fsize'[c] \in Nat /\ fsize'[c] >= fsize[c]
             /\ \A c \in Chunks : fsize'[c] # fsize[c] => c = target /\ exists[c]
  BY <1>1, <1>2, <1>3, <1>5 DEF StopAs
<1> QED BY <1>4, <1>5 DEF StopAs, TornTail

\* Every step keeps the chunks after the head empty.
LEMMA NextHead == TypeOK /\ Layout /\ [Next]_vars => HeadInv'
<1> SUFFICES ASSUME TypeOK, Layout, [Next]_vars PROVE HeadInv'
  OBVIOUS
<1> USE NoOneFree DEF memory, disk, history, flushing
<1>1. /\ pc \in [Flushers -> Steps] /\ flushLock \in Flushers \cup {NoOne}
      /\ exists \in [Chunks -> BOOLEAN] /\ fsize \in [Chunks -> Nat] /\ target \in Chunks
      /\ writingHead \in [Chunks -> Nat] /\ newHead \in 0 .. NumChunks
      /\ Chunks \subseteq Flushers /\ Bg \notin Chunks /\ Closer \notin Chunks
      /\ NumChunks \in Nat /\ Chunks = 0 .. NumChunks - 1
  BY DataStoreAssumption DEF TypeOK, FlushingOK, DiskOK, MemoryOK, Flushers, Bg, Closer, Chunks
<1>2. HeadInv /\ LockInv
  BY DEF Layout
<1>3. ASSUME NEW s \in Sizes, AppendRecord(s) PROVE HeadInv'
  <2>2. newHead \in Chunks /\ newHead' \in Chunks /\ newHead <= newHead'
    BY <1>3, AppendShape
  <2>1. \A c \in Chunks : c > newHead' => c > newHead /\ writingHead'[c] = writingHead[c]
    <3>1. \A c \in Chunks : c > newHead' => c # newHead'
      BY <1>1
    <3>2. \A c \in Chunks : c # newHead' => writingHead'[c] = writingHead[c]
      BY <1>1, <1>3 DEF AppendRecord
    <3> QED BY <1>1, <2>2, <3>1, <3>2
  <2>3. \A c \in Chunks : c >= newHead' => pc'[c] = "idle"
    BY <1>1, <1>2, <1>3, <2>2 DEF HeadInv, AppendRecord, SpawnFlush, HeadFor
  <2>4. flushLock' = flushLock /\ (\A x : At(x)' <=> At(x)) /\ UNCHANGED <<exists, fsize, target, state>>
    BY <1>1, <1>2, <1>3, <2>2, SMTT(20) DEF AppendRecord, SpawnFlush, At, HeadInv, LockInv, InFlush
  <2> QED BY <1>2, <2>1, <2>2, <2>3, <2>4 DEF HeadInv, Alive
<1>4. ASSUME NEW s \in Sizes, AppendPanic(s) PROVE HeadInv'
  <2>1. /\ mutexDead' /\ newHead <= newHead' /\ newHead' \in Nat
        /\ UNCHANGED <<writingHead, exists, fsize, target, state, flushLock>>
    BY <1>1, <1>4 DEF AppendPanic
  <2>2. \A c \in Chunks : c >= newHead' => pc'[c] = "idle"
    BY <1>1, <1>2, <1>4, <2>1 DEF HeadInv, AppendPanic, SpawnFlush
  <2>3. \A x : At(x)' <=> At(x)
    BY <1>1, <1>2, <1>4, <2>1 DEF AppendPanic, SpawnFlush, At, HeadInv, LockInv, InFlush
  <2> QED BY <1>1, <1>2, <2>1, <2>2, <2>3 DEF HeadInv, Alive
<1>5. CASE FlushTick
  BY <1>1, <1>2, <1>5 DEF FlushTick, HeadInv, LockInv, At, Alive, InFlush
<1>6. ASSUME NEW f \in Flushers,
             \/ FlushCheck(f) \/ FlushSkip(f) \/ FlushStart(f) \/ OpenWriter(f)
             \/ SeeEmptyBuffer(f) \/ FlushCount(f) \/ WriteRecord(f)
             \/ Synced(f) \/ Trim(f) \/ Account(f)
      PROVE  HeadInv'
  <2>1. \A c \in Chunks : c >= newHead => c # f
    BY <1>1, <1>2, <1>6 DEF HeadInv, FlushCheck, FlushSkip, FlushStart, OpenWriter, SeeEmptyBuffer,
              FlushCount, WriteRecord, Synced, Trim, Account
  <2>2. CASE FlushCheck(f) \/ FlushSkip(f)
    <3>1. /\ pc[f] \notin InFlush
          /\ \A g \in Flushers : g # f => pc'[g] = pc[g]
          /\ UNCHANGED <<state, newHead, writingHead, wbufSize, mutexDead, flushLock,
                         target, exists, fsize>>
      BY <1>1, <2>2 DEF FlushCheck, FlushSkip, InFlush
    <3>2. \A x : At(x)' <=> At(x)
      BY <1>1, <1>2, <3>1 DEF At, LockInv
    <3> QED BY <1>1, <1>2, <2>1, <3>1, <3>2 DEF HeadInv, Alive
  <2>3. CASE FlushStart(f)
    BY <1>1, <1>2, <2>1, <2>3 DEF FlushStart, HeadInv, LockInv, At, Alive, InFlush
  <2>4. CASE OpenWriter(f)
    BY <1>1, <1>2, <2>1, <2>4 DEF OpenWriter, HeadInv, LockInv, At, Alive, InFlush
  <2>5. ASSUME pc[f] \in InFlush \ {"open"}, pc'[f] # "open",
               \A g \in Flushers : g # f => pc'[g] = pc[g],
               UNCHANGED <<state, newHead, writingHead, wbufSize, mutexDead, flushLock,
                           target, exists, fsize>>
        PROVE  HeadInv'
    <3>1. flushLock = f
      BY <1>2, <2>5 DEF LockInv
    <3>2. ~At("open") /\ ~At("open")'
      BY <2>5, <3>1 DEF At, InFlush
    <3> QED BY <1>1, <1>2, <2>1, <2>5, <3>1, <3>2 DEF HeadInv, Alive
  <2>6. CASE SeeEmptyBuffer(f) \/ FlushCount(f)
    BY <1>1, <2>5, <2>6 DEF SeeEmptyBuffer, FlushCount, InFlush
  <2>7. CASE WriteRecord(f) \/ Synced(f) \/ Trim(f)
    BY <1>1, <2>5, <2>7 DEF WriteRecord, Synced, Trim, InFlush
  <2>8. CASE Account(f)
    BY <1>1, <1>2, <2>1, <2>8 DEF Account, HeadInv, LockInv, At, Alive, InFlush
  <2> QED BY <1>6, <2>2, <2>3, <2>4, <2>5, <2>6, <2>7, <2>8
<1>7. ASSUME NEW s \in {"closed", "down"}, StopAs(s) PROVE HeadInv'
  <2>1. /\ newHead' = 0 /\ flushLock' = NoOne /\ ~Alive' /\ wbufSize' = 0
        /\ \A c \in Chunks : pc'[c] = "idle"
    BY <1>1, <1>7 DEF StopAs, Alive
  <2> QED BY <1>2, <1>7, <2>1, StopDisk DEF HeadInv
<1>8. ASSUME NEW f \in Flushers, SizeFromBuffer(f) \/ SizeFromChunk(f) PROVE HeadInv'
  <2>1. CASE Fatalf("wbuf") \/ Fatalf("size")
    BY <1>7, <2>1 DEF Fatalf
  <2>2. CASE ~Fatalf("wbuf") /\ ~Fatalf("size")
    <3>1. \A c \in Chunks : c >= newHead => c # f
      BY <1>1, <1>2, <1>8 DEF HeadInv, SizeFromBuffer, SizeFromChunk
    <3> QED
      BY <1>1, <1>2, <1>8, <2>2, <3>1
         DEF HeadInv, LockInv, At, Alive, InFlush, SizeFromBuffer, SizeFromChunk
  <2> QED BY <2>1, <2>2
<1>9. ASSUME NEW f \in Flushers, WriteOut(f) PROVE HeadInv'
  <2>1. exists[target] /\ (\A c \in Chunks : c # target => fsize'[c] = fsize[c])
    BY <1>1, <1>2, <1>9, Holder DEF WriteOut, InFlush, HeadInv, LockInv
  <2> QED BY <1>1, <1>2, <1>9, <2>1 DEF WriteOut, HeadInv, At, Alive
<1>10. CASE ReadFile \/ \E r \in appended : ReadBuffer(r)
  BY <1>2, <1>10 DEF ReadFile, ReadBuffer, HeadInv, At, Alive
<1>11. CASE Close
  BY <1>1, <1>2, <1>11 DEF Close, HeadInv, LockInv, At, Alive, InFlush
<1>12. CASE Exit \/ Crash
  BY <1>7, <1>12 DEF Exit, Crash
<1>13. CASE Open
  <2>1. \A c \in Chunks : pc'[c] = "idle"
    BY <1>1, <1>2, <1>13 DEF LockInv, Open, Alive
  <2>2. wbufSize' = 0 /\ flushLock' = NoOne
    BY <1>1, <1>2, <1>13 DEF LockInv, Open, Alive
  <2>3. Alive' => \A c \in Chunks : c > newHead' => writingHead'[c] = 0
    BY <1>1, <1>2, <1>13 DEF HeadInv, Open, Alive, NextFree
  <2> QED BY <1>2, <1>13, <2>1, <2>2, <2>3 DEF HeadInv, Open
<1>14. CASE UNCHANGED vars
  BY <1>2, <1>14 DEF vars, HeadInv, At, Alive
<1> QED
  BY <1>3, <1>4, <1>5, <1>6, <1>8, <1>9, <1>10, <1>11, <1>12, <1>13, <1>14 DEF Next

\* The step of flush that its holder takes next.
LEMMA HolderStep ==
    ASSUME LockInv, NEW f \in Flushers, pc[f] \in InFlush, pc \in [Flushers -> Steps],
           UNCHANGED flushLock, NEW y, pc' = [pc EXCEPT ![f] = y]
    PROVE  \A x : (At(x) <=> pc[f] = x) /\ (At(x)' <=> x = y)
BY Holder DEF At

\* The flush in progress has written out part of the buffer it flushes.
LEMMA DoneRange ==
    ASSUME TypeOK, WriterInv
    PROVE  \A c \in Chunks : Done(c) \in Nat /\ Done(c) <= Len(wbuf[c])
<1>1. Len(pending) \in Nat /\ irec \in Nat /\ nrec \in Nat
  BY LenProperties DEF TypeOK, FlushingOK
<1>2. \A c \in Chunks : Len(wbuf[c]) \in Nat
  BY LenProperties DEF TypeOK, MemoryOK
<1> QED BY <1>1, <1>2 DEF WriterInv, Done

\* A step that leaves the flush in progress, the buffers and the files alone.
LEMMA QuietStep ==
    ASSUME WriterInv, FileInv, Alive' => Alive,
           \A x \in InFlush : At(x)' <=> At(x),
           UNCHANGED <<target, woffset, pending, nrec, irec, fsize, writingHead, wbuf>>
    PROVE  WriterInv' /\ FileInv'
<1>1. \A c : Done(c)' = Done(c)
  BY DEF Done, InFlush
<1>2. WriterInv'
  BY DEF WriterInv, InFlush
<1> QED BY <1>1, <1>2 DEF FileInv, Start

\* With nobody in flush and nothing pending, files end where buffers start.
LEMMA NobodyFlushes ==
    ASSUME flushLock' = NoOne, pending' = << >>,
           Alive' => \A c \in Chunks : fsize'[c] = Start(c, 1)'
    PROVE  WriterInv' /\ FileInv'
<1>1. \A x : ~At(x)'
  BY DEF At
<1>2. \A c : Done(c)' = 0
  BY <1>1 DEF Done
<1> QED BY <1>1, <1>2 DEF WriterInv, FileInv

\* Every step of flush, of the writers beside it, of a stop and of a restart
\* keeps the file ending where the unwritten part of the buffer starts.
LEMMA NextFlush == TypeOK /\ Layout /\ [Next]_vars => WriterInv' /\ FileInv'
<1> SUFFICES ASSUME TypeOK, Layout, [Next]_vars PROVE WriterInv' /\ FileInv'
  OBVIOUS
<1> USE NoOneFree DEF memory, disk, history, flushing
<1>1. /\ pc \in [Flushers -> Steps] /\ flushLock \in Flushers \cup {NoOne}
      /\ fsize \in [Chunks -> Nat] /\ target \in Chunks
      /\ writingHead \in [Chunks -> Nat] /\ wbuf \in [Chunks -> Seq(Records)]
      /\ irec \in Nat /\ nrec \in Nat /\ pending \in Seq(Records)
      /\ Len(pending) \in Nat /\ (\A c \in Chunks : Len(wbuf[c]) \in Nat)
  BY LenProperties DEF TypeOK, FlushingOK, DiskOK, MemoryOK
<1>2. LockInv /\ BufferInv /\ WriterInv /\ FileInv
  BY DEF Layout
<1>3. \A c \in Chunks : Done(c) \in Nat /\ Done(c) <= Len(wbuf[c])
  BY <1>2, DoneRange
<1>4. ASSUME NEW s \in Sizes, AppendRecord(s) PROVE WriterInv' /\ FileInv'
  <2>0. PICK h \in Chunks : h = newHead'
    BY <1>4, AppendShape
  <2>1. PICK r \in Records : /\ r.chunk = h /\ r.off = writingHead[h] /\ r.size = s
                             /\ wbuf'[h] = Append(wbuf[h], r)
    BY <1>4, <2>0, AppendShape
  <2>2. /\ h \in Chunks /\ writingHead'[h] = writingHead[h] + s
        /\ \A c \in Chunks : c # h => wbuf'[c] = wbuf[c] /\ writingHead'[c] = writingHead[c]
    BY <1>4, <2>0, AppendShape
  <2>3. /\ UNCHANGED <<target, woffset, pending, nrec, irec, fsize, state, flushLock>>
        /\ \A x : At(x)' <=> At(x)
    <3>1. newHead \in Chunks /\ newHead \in Flushers /\ pc[newHead] = "idle"
      BY <1>4, AppendShape, DataStoreAssumption DEF Layout, HeadInv, Flushers, Chunks
    <3> QED BY <1>1, <1>2, <1>4, <3>1 DEF AppendRecord, SpawnFlush, At, LockInv, InFlush
  <2>4. \A i \in 1 .. Len(wbuf[h]) + 1 : Start(h, i)' = Start(h, i)
    <3>1. wbuf[h] \in Seq(Records) /\ writingHead[h] \in Nat /\ Laid(wbuf[h], writingHead[h], h)
      BY <1>1, <1>2, <2>2 DEF BufferInv
    <3>2. \A i \in 1 .. Len(wbuf[h]) + 1 :
             StartIn(Append(wbuf[h], r), writingHead[h] + r.size, i)
                = StartIn(wbuf[h], writingHead[h], i)
      BY <2>1, <3>1, LaidAppend
    <3> QED BY <2>1, <2>2, <3>2 DEF Start
  <2>5. \A c \in Chunks : Len(wbuf'[c]) >= Len(wbuf[c])
           /\ \A i \in 1 .. Len(wbuf[c]) : wbuf'[c][i] = wbuf[c][i]
    <3>1. Len(wbuf'[h]) = Len(wbuf[h]) + 1 /\ \A i \in 1 .. Len(wbuf[h]) : wbuf'[h][i] = wbuf[h][i]
      BY <1>1, <2>1, <2>2, AppendProperties
    <3>2. Len(wbuf'[h]) >= Len(wbuf[h])
      BY <1>1, <2>2, <3>1
    <3>3. ASSUME NEW c \in Chunks, c # h
          PROVE  wbuf'[c] = wbuf[c] /\ Len(wbuf'[c]) >= Len(wbuf[c])
      BY <1>1, <2>2, <3>3
    <3> QED BY <3>1, <3>2, <3>3
  <2>6. \A c \in Chunks : Done(c)' = Done(c)
    BY <2>3 DEF Done
  <2>7. \A c \in Chunks : Start(c, 1 + Done(c))' = Start(c, 1 + Done(c))
    <3> SUFFICES ASSUME NEW c \in Chunks
                 PROVE  Start(c, 1 + Done(c))' = Start(c, 1 + Done(c))
      OBVIOUS
    <3>1. 1 + Done(c) \in 1 .. Len(wbuf[c]) + 1
      BY <1>1, <1>3
    <3>2. Start(c, 1 + Done(c))' = StartIn(wbuf'[c], writingHead'[c], 1 + Done(c))
      BY <2>6 DEF Start
    <3>3. CASE c = h
      <4>1. \A i \in 1 .. Len(wbuf[h]) + 1 :
               StartIn(wbuf'[h], writingHead'[h], i) = StartIn(wbuf[h], writingHead[h], i)
        BY <2>4 DEF Start
      <4> QED BY <3>1, <3>2, <3>3, <4>1 DEF Start
    <3>4. CASE c # h
      BY <2>2, <3>2, <3>4 DEF Start
    <3> QED BY <3>3, <3>4
  <2>8. WriterInv'
    <3>1. ASSUME At("write") \/ At("sync") \/ At("trim")
          PROVE  /\ nrec <= Len(wbuf'[target])
                 /\ \A j \in 1 .. Len(pending) :
                       pending[j] = wbuf'[target][irec - Len(pending) + j]
      <4>1. irec <= nrec \/ pending = << >>
        BY <1>1, <1>2 DEF WriterInv
      <4>2. nrec <= Len(wbuf[target]) /\ Len(pending) <= irec
        BY <1>2, <3>1 DEF WriterInv
      <4>3. ASSUME NEW j \in 1 .. Len(pending)
            PROVE  pending[j] = wbuf'[target][irec - Len(pending) + j]
        <5>1. irec <= nrec
          BY <4>1, <4>3, EmptySeq
        <5>2. irec - Len(pending) + j \in 1 .. Len(wbuf[target])
          BY <1>1, <4>2, <5>1
        <5> QED BY <1>1, <1>2, <2>5, <3>1, <5>2 DEF WriterInv
      <4> QED BY <1>1, <2>5, <4>2, <4>3
    <3> QED BY <1>2, <2>3, <3>1 DEF WriterInv
  <2> QED BY <1>2, <2>3, <2>7, <2>8 DEF FileInv, Alive
<1>5. ASSUME NEW s \in Sizes, AppendPanic(s) PROVE WriterInv' /\ FileInv'
  <2>1. newHead \in Chunks => newHead \in Flushers /\ pc[newHead] = "idle"
    BY DataStoreAssumption DEF Layout, HeadInv, Flushers, Chunks
  <2>2. \A x \in InFlush : At(x)' <=> At(x)
    BY <1>1, <1>2, <1>5, <2>1 DEF AppendPanic, SpawnFlush, At, LockInv, InFlush
  <2> QED BY <1>2, <1>5, <2>2, QuietStep DEF AppendPanic, Alive
<1>6. CASE FlushTick \/ Close
  <2>1. \A x \in InFlush : At(x)' <=> At(x)
    BY <1>1, <1>2, <1>6 DEF FlushTick, Close, At, LockInv, InFlush
  <2> QED BY <1>2, <1>6, <2>1, QuietStep DEF FlushTick, Close, Alive
<1>7. ASSUME NEW f \in Flushers, FlushCheck(f) \/ FlushSkip(f) PROVE WriterInv' /\ FileInv'
  <2>1. pc[f] \notin InFlush /\ (\A g \in Flushers : g # f => pc'[g] = pc[g])
        /\ UNCHANGED flushLock
    BY <1>1, <1>7 DEF FlushCheck, FlushSkip, InFlush
  <2>2. \A x \in InFlush : At(x)' <=> At(x)
    BY <1>1, <1>2, <2>1 DEF At, LockInv
  <2> QED BY <1>2, <1>7, <2>2, QuietStep DEF FlushCheck, FlushSkip, Alive
<1>8. ASSUME NEW f \in Flushers, FlushStart(f) PROVE WriterInv' /\ FileInv'
  <2>1. \A x : ~At(x)
    BY <1>8 DEF FlushStart, At
  <2>2. \A x : At(x)' <=> x = "open"
    BY <1>1, <1>8 DEF FlushStart, At
  <2>3. \A c : Done(c) = 0 /\ Done(c)' = 0
    BY <2>1, <2>2 DEF Done
  <2>4. UNCHANGED <<pending, fsize, wbuf, writingHead, state>>
    BY <1>8 DEF FlushStart
  <2> QED BY <1>2, <2>1, <2>2, <2>3, <2>4 DEF WriterInv, FileInv, Start, Alive
<1>9. ASSUME NEW f \in Flushers, OpenWriter(f) PROVE WriterInv' /\ FileInv'
  <2>1. \A x : (At(x) <=> x = "open") /\ (At(x)' <=> x = "len")
    BY <1>1, <1>2, <1>9, HolderStep DEF OpenWriter, InFlush
  <2>2. \A c : Done(c) = 0 /\ Done(c)' = 0
    BY <2>1 DEF Done
  <2>3. /\ UNCHANGED <<target, fsize, wbuf, writingHead, state>>
        /\ pending' = << >> /\ woffset' = fsize[target]
    BY <1>9 DEF OpenWriter
  <2> QED BY <1>2, <2>1, <2>2, <2>3 DEF WriterInv, FileInv, Start, Alive
<1>10. ASSUME NEW f \in Flushers, SeeEmptyBuffer(f) PROVE WriterInv' /\ FileInv'
  <2>1. \A x : (At(x) <=> x = "len") /\ (At(x)' <=> x = "size")
    BY <1>1, <1>2, <1>10, HolderStep DEF SeeEmptyBuffer, InFlush
  <2>2. \A c : Done(c) = 0 /\ Done(c)' = 0
    BY <2>1 DEF Done
  <2>3. UNCHANGED <<target, woffset, pending, fsize, wbuf, writingHead, state>>
    BY <1>10 DEF SeeEmptyBuffer
  <2> QED BY <1>2, <2>1, <2>2, <2>3 DEF WriterInv, FileInv, Start, Alive
<1>11. ASSUME NEW s \in {"closed", "down"}, StopAs(s) PROVE WriterInv' /\ FileInv'
  BY <1>11, NobodyFlushes DEF StopAs, Alive
<1>12. ASSUME NEW f \in Flushers, SizeFromBuffer(f) \/ SizeFromChunk(f)
       PROVE  WriterInv' /\ FileInv'
  <2>1. CASE Fatalf("wbuf") \/ Fatalf("size")
    BY <1>11, <2>1 DEF Fatalf
  <2>2. CASE ~Fatalf("wbuf") /\ ~Fatalf("size")
    <3>1. /\ pc[f] \in {"len", "size"} /\ pc' = [pc EXCEPT ![f] = "count"]
          /\ UNCHANGED <<flushLock, target, woffset, pending, fsize, wbuf, writingHead, state>>
      BY <1>12, <2>2 DEF SizeFromBuffer, SizeFromChunk
    <3>2. \A x : (At(x) <=> x = pc[f]) /\ (At(x)' <=> x = "count")
      BY <1>1, <1>2, <3>1, HolderStep DEF InFlush
    <3>3. \A c : Done(c) = 0 /\ Done(c)' = 0
      BY <3>1, <3>2 DEF Done
    <3> QED BY <1>2, <3>1, <3>2, <3>3 DEF WriterInv, FileInv, Start, Alive
  <2> QED BY <2>1, <2>2
<1>13. ASSUME NEW f \in Flushers, FlushCount(f) PROVE WriterInv' /\ FileInv'
  <2> DEFINE y == IF wbuf[target] = << >> THEN "sync" ELSE "write"
  <2>1. \A x : (At(x) <=> x = "count") /\ (At(x)' <=> x = y)
    BY <1>1, <1>2, <1>13, HolderStep DEF FlushCount, InFlush
  <2>2. /\ UNCHANGED <<target, pending, fsize, wbuf, writingHead, state>>
        /\ nrec' = Len(wbuf[target]) /\ irec' = 0
    BY <1>13 DEF FlushCount
  <2>3. pending = << >> /\ Len(pending) = 0
    BY <1>2, <2>1, EmptySeq DEF WriterInv
  <2>4. wbuf[target] = << >> => Len(wbuf[target]) = 0
    BY EmptySeq
  <2>5. wbuf[target] # << >> => Len(wbuf[target]) > 0
    BY <1>1, EmptySeq
  <2>6. \A c : Done(c) = 0 /\ Done(c)' = 0
    <3>1. irec' - Len(pending') = 0
      <4>1. pending' = pending BY <2>2
      <4>2. Len(pending') = 0 BY <2>3, <4>1
      <4> QED BY <2>2, <4>2
    <3> QED BY <2>1, <3>1 DEF Done
  <2>7. WriterInv'
    BY <1>1, <2>1, <2>2, <2>3, <2>4, <2>5 DEF WriterInv
  <2> QED BY <1>2, <2>2, <2>6, <2>7 DEF FileInv, Start, Alive
<1>14. ASSUME NEW f \in Flushers, WriteRecord(f) PROVE WriterInv' /\ FileInv'
  <2> DEFINE y == IF irec + 1 = nrec THEN "sync" ELSE "write"
             b == wbuf[target]
  <2>1. \A x : (At(x) <=> x = "write") /\ (At(x)' <=> x = y)
    BY <1>1, <1>2, <1>14, HolderStep DEF WriteRecord, InFlush
  <2>2. /\ UNCHANGED <<target, fsize, wbuf, writingHead, state, nrec>>
        /\ irec' = irec + 1 /\ pending' = Append(pending, b[irec + 1])
    BY <1>14 DEF WriteRecord
  <2>3. /\ irec < nrec /\ nrec <= Len(b) /\ Len(pending) <= irec
        /\ \A j \in 1 .. Len(pending) : pending[j] = b[irec - Len(pending) + j]
    BY <1>2, <2>1 DEF WriterInv
  <2>4. b[irec + 1] \in Records
    <3>1. irec + 1 \in 1 .. Len(b) BY <1>1, <2>3
    <3> QED BY <1>1, <3>1, ElementOfSeq
  <2>5. /\ Len(pending') = Len(pending) + 1
        /\ \A j \in 1 .. Len(pending) : pending'[j] = pending[j]
        /\ pending'[Len(pending) + 1] = b[irec + 1]
    BY <1>1, <2>2, <2>4, AppendProperties
  <2>6. \A j \in 1 .. Len(pending') : pending'[j] = b[irec' - Len(pending') + j]
    <3> SUFFICES ASSUME NEW j \in 1 .. Len(pending')
                 PROVE  pending'[j] = b[irec' - Len(pending') + j]
      OBVIOUS
    <3>1. j \in 1 .. Len(pending) + 1 /\ irec' - Len(pending') + j = irec - Len(pending) + j
      BY <1>1, <2>2, <2>5
    <3>2. CASE j = Len(pending) + 1
      <4>1. irec - Len(pending) + j = irec + 1 BY <1>1, <3>2
      <4> QED BY <2>5, <3>1, <3>2, <4>1
    <3>3. CASE j \in 1 .. Len(pending)
      BY <2>3, <2>5, <3>1, <3>3
    <3> QED BY <1>1, <3>1, <3>2, <3>3
  <2> HIDE DEF b
  <2>7. WriterInv'
    BY <1>1, <2>1, <2>2, <2>3, <2>5, <2>6 DEF WriterInv, b
  <2>8. \A c : Done(c)' = Done(c)
    BY <1>1, <2>1, <2>2, <2>5 DEF Done
  <2> QED BY <1>2, <2>2, <2>7, <2>8 DEF FileInv, Start, Alive
<1>15. ASSUME NEW f \in Flushers, WriteOut(f) PROVE WriterInv' /\ FileInv'
  <2> DEFINE b == wbuf[target]
             k == irec - Len(pending)
  <2>1. \A x : (At(x) <=> x = pc[f]) /\ (At(x)' <=> x = pc[f])
    BY <1>2, <1>15, Holder DEF WriteOut, InFlush, At
  <2>2. /\ UNCHANGED <<target, wbuf, writingHead, state, nrec, irec>>
        /\ pending' = Tail(pending) /\ pending # << >> /\ pc[f] \in {"write", "sync"}
        /\ fsize' = [fsize EXCEPT ![target] = @ + Head(pending).size]
    BY <1>15 DEF WriteOut
  <2>3. /\ nrec <= Len(b) /\ Len(pending) <= irec /\ irec <= nrec
        /\ \A j \in 1 .. Len(pending) : pending[j] = b[irec - Len(pending) + j]
    BY <1>1, <1>2, <2>1, <2>2 DEF WriterInv
  <2>4. /\ Len(pending') = Len(pending) - 1 /\ Len(pending) > 0
        /\ \A j \in 1 .. Len(pending') : pending'[j] = pending[j + 1]
    BY <1>1, <2>2, HeadTailProperties, EmptySeq
  <2>5. Head(pending) = b[k + 1] /\ k + 1 \in 1 .. Len(b)
    <3>1. Head(pending) = pending[1]
      BY <1>1, <2>2
    <3>2. 1 \in 1 .. Len(pending)
      BY <1>1, <2>4
    <3> QED BY <1>1, <2>3, <2>4, <3>1, <3>2
  <2>6. b[k + 1].off + b[k + 1].size = Start(target, k + 2)
    <3>1. b[k + 1].off + b[k + 1].size = StartIn(b, writingHead[target], (k + 1) + 1)
      BY <1>1, <1>2, <2>5 DEF BufferInv, Laid
    <3>2. (k + 1) + 1 = k + 2 BY <1>1
    <3> QED BY <3>1, <3>2 DEF Start
  <2>7. fsize[target] = b[k + 1].off
    <3>1. Done(target) = k
      BY <2>1, <2>2 DEF Done
    <3>2. fsize[target] = Start(target, 1 + k)
      BY <1>1, <1>2, <1>15, <3>1 DEF FileInv, WriteOut
    <3>3. 1 + k = k + 1 BY <1>1
    <3> QED BY <2>5, <3>2, <3>3 DEF Start, StartIn
  <2>8. fsize'[target] = Start(target, k + 2)
    BY <1>1, <2>2, <2>5, <2>6, <2>7
  <2>9. irec - Len(pending') = k + 1 /\ 1 + (k + 1) = k + 2
    BY <1>1, <2>4
  <2>10. Done(target)' = k + 1 /\ (\A c : c # target => Done(c)' = Done(c))
    BY <2>1, <2>2, <2>9 DEF Done
  <2>11. \A c \in Chunks : c # target => fsize'[c] = fsize[c]
    BY <1>1, <2>2
  <2>12. FileInv'
    BY <1>2, <2>2, <2>8, <2>9, <2>10, <2>11 DEF FileInv, Start, Alive
  <2>13. \A j \in 1 .. Len(pending') : pending'[j] = b[irec - Len(pending') + j]
    <3> SUFFICES ASSUME NEW j \in 1 .. Len(pending')
                 PROVE  pending'[j] = b[irec - Len(pending') + j]
      OBVIOUS
    <3>1. j + 1 \in 1 .. Len(pending) /\ irec - Len(pending') + j = irec - Len(pending) + (j + 1)
      BY <1>1, <2>4
    <3> QED BY <2>3, <2>4, <3>1
  <2>14. Len(pending') <= irec
    BY <1>1, <2>3, <2>4
  <2> HIDE DEF b
  <2>15. WriterInv'
    BY <1>2, <2>1, <2>2, <2>3, <2>13, <2>14 DEF WriterInv, b
  <2> QED BY <2>12, <2>15
<1>16. ASSUME NEW f \in Flushers, Synced(f) PROVE WriterInv' /\ FileInv'
  <2>1. \A x : (At(x) <=> x = "sync") /\ (At(x)' <=> x = "trim")
    BY <1>1, <1>2, <1>16, HolderStep DEF Synced, InFlush
  <2>2. UNCHANGED <<target, pending, fsize, wbuf, writingHead, state, nrec, irec>>
        /\ pending = << >>
    BY <1>16 DEF Synced
  <2>3. irec = nrec /\ irec - Len(pending) = nrec
    BY <1>1, <1>2, <2>1, <2>2, EmptySeq DEF WriterInv
  <2>4. \A c : Done(c)' = Done(c)
    BY <2>1, <2>2, <2>3 DEF Done
  <2>5. WriterInv'
    BY <1>2, <2>1, <2>2 DEF WriterInv
  <2> QED BY <1>2, <2>2, <2>4, <2>5 DEF FileInv, Start, Alive
<1>17. ASSUME NEW f \in Flushers, Trim(f) PROVE WriterInv' /\ FileInv'
  <2>1. \A x : (At(x) <=> x = "trim") /\ (At(x)' <=> x = "account")
    BY <1>1, <1>2, <1>17, HolderStep DEF Trim, InFlush
  <2>2. UNCHANGED <<target, pending, fsize, writingHead, state>>
    BY <1>17 DEF Trim
  <2>3. \A c : Done(c)' = 0 /\ Done(c) = IF c = target THEN nrec ELSE 0
    BY <2>1 DEF Done
  <2>4. StartIn(wbuf'[target], writingHead[target], 1)
           = StartIn(wbuf[target], writingHead[target], 1 + nrec)
    <3> DEFINE b == wbuf[target]
               d == SubSeq(b, nrec + 1, Len(b))
    <3>1. wbuf'[target] = d /\ nrec <= Len(b)
      BY <1>17, TrimBound
    <3>2. b \in Seq(Records) /\ Laid(b, writingHead[target], target) /\ writingHead[target] \in Nat
      BY <1>1, <1>2 DEF BufferInv
    <3> HIDE DEF b
    <3>3. StartIn(d, writingHead[target], 1) = StartIn(b, writingHead[target], 1 + nrec)
      BY <1>1, <3>1, <3>2, DropStart
    <3> QED BY <3>1, <3>3 DEF b
  <2>5. \A c \in Chunks : c # target => wbuf'[c] = wbuf[c]
    BY <1>17, TrimBound
  <2>6. FileInv'
    <3> SUFFICES ASSUME Alive, NEW c \in Chunks PROVE fsize'[c] = Start(c, 1 + Done(c))'
      BY <2>2 DEF FileInv, Alive
    <3>1. fsize[c] = StartIn(wbuf[c], writingHead[c], 1 + Done(c))
      BY <1>2 DEF FileInv, Start
    <3>2. Start(c, 1 + Done(c))' = StartIn(wbuf'[c], writingHead[c], 1)
      BY <2>2, <2>3 DEF Start
    <3>3. CASE c = target
      BY <2>2, <2>3, <2>4, <3>1, <3>2, <3>3
    <3>4. CASE c # target
      BY <2>2, <2>3, <2>5, <3>1, <3>2, <3>4
    <3> QED BY <3>3, <3>4
  <2>7. WriterInv'
    BY <1>2, <2>1, <2>2 DEF WriterInv
  <2> QED BY <2>6, <2>7
<1>18. ASSUME NEW f \in Flushers, Account(f) PROVE WriterInv' /\ FileInv'
  <2>1. \A x : At(x) <=> x = "account"
    BY <1>2, <1>18, Holder DEF Account, InFlush
  <2>2. pending = << >> /\ (\A c : Done(c) = 0)
    BY <1>2, <2>1 DEF WriterInv, Done
  <2>3. flushLock' = NoOne /\ UNCHANGED <<pending, fsize, wbuf, writingHead, state>>
    BY <1>18 DEF Account
  <2>4. Alive' => \A c \in Chunks : fsize'[c] = Start(c, 1)'
    BY <1>2, <2>2, <2>3 DEF FileInv, Start, Alive
  <2> QED BY <2>2, <2>3, <2>4, NobodyFlushes
<1>19. CASE ReadFile \/ UNCHANGED vars \/ \E r \in appended : ReadBuffer(r)
  <2>1. UNCHANGED <<state, flushLock, pc, target, woffset, pending, nrec, irec, fsize,
                    writingHead, wbuf>>
    BY <1>19 DEF ReadFile, ReadBuffer, vars
  <2> QED BY <1>2, <2>1, QuietStep DEF At, Alive
<1>20. CASE Exit \/ Crash
  BY <1>11, <1>20 DEF Exit, Crash
<1>21. CASE Open
  <2>1. flushLock' = NoOne /\ pending' = << >> /\ (\A c \in Chunks : wbuf'[c] = << >>)
    BY <1>2, <1>21 DEF Open, LockInv, Alive
  <2>2. \A c \in Chunks : Start(c, 1)' = writingHead'[c]
    BY <2>1, EmptySeq DEF Start, StartIn
  <2>3. Alive' => \A c \in Chunks : fsize'[c] = writingHead'[c]
    BY <1>21 DEF Open, Alive
  <2> QED BY <2>1, <2>2, <2>3, NobodyFlushes
<1> QED
  BY <1>4, <1>5, <1>6, <1>7, <1>8, <1>9, <1>10, <1>12, <1>13, <1>14, <1>15, <1>16,
     <1>17, <1>18, <1>19, <1>20, <1>21 DEF Next

\* What WriteOut puts into the file is the buffered record that belongs there.
LEMMA WriteOutShape ==
    ASSUME TypeOK, Layout, NEW f \in Flushers, WriteOut(f)
    PROVE  LET r == Head(pending)
               k == irec - Len(pending)
           IN  /\ r \in Records /\ r.chunk = target /\ r.off = fsize[target]
               /\ k \in Nat /\ k + 1 <= Len(wbuf[target]) /\ r = wbuf[target][k + 1]
               /\ Done(target) = k /\ Done(target)' = k + 1
               /\ target \in Chunks /\ UNCHANGED target
<1> DEFINE b == wbuf[target]
           k == irec - Len(pending)
<1>1. /\ target \in Chunks /\ b \in Seq(Records) /\ Len(b) \in Nat
      /\ irec \in Nat /\ nrec \in Nat /\ pending \in Seq(Records) /\ Len(pending) \in Nat
  BY LenProperties DEF TypeOK, FlushingOK, MemoryOK
<1>2. /\ pc[f] \in {"write", "sync"} /\ pending # << >> /\ pending' = Tail(pending) /\ Alive
      /\ UNCHANGED <<pc, flushLock, irec, target>>
  BY DEF WriteOut
<1>3. \A x : (At(x) <=> x = pc[f]) /\ (At(x)' <=> x = pc[f])
  BY <1>2, Holder DEF Layout, InFlush, At
<1>4. /\ nrec <= Len(b) /\ Len(pending) <= irec /\ irec <= nrec
      /\ \A j \in 1 .. Len(pending) : pending[j] = b[irec - Len(pending) + j]
  BY <1>1, <1>2, <1>3 DEF Layout, WriterInv
<1>5. Len(pending) > 0 /\ Len(pending') = Len(pending) - 1 /\ Head(pending) \in Records
  BY <1>1, <1>2, EmptySeq, HeadTailProperties
<1>6. Head(pending) = b[k + 1] /\ k \in Nat /\ k + 1 <= Len(b) /\ k + 1 \in 1 .. Len(b)
  <2>1. Head(pending) = pending[1] /\ 1 \in 1 .. Len(pending)
    BY <1>1, <1>2, <1>5
  <2> QED BY <1>1, <1>4, <1>5, <2>1
<1>7. Done(target) = k
  BY <1>2, <1>3 DEF Done
<1>8. irec' - Len(pending') = k + 1
  BY <1>1, <1>2, <1>5
<1>9. Done(target)' = k + 1
  BY <1>2, <1>3, <1>8 DEF Done
<1>10. b[k + 1].chunk = target
  BY <1>1, <1>6 DEF Layout, BufferInv, Laid
<1>11. b[k + 1].off = fsize[target]
  <2>1. fsize[target] = Start(target, 1 + k)
    BY <1>1, <1>2, <1>7 DEF Layout, FileInv
  <2>2. 1 + k = k + 1 BY <1>6
  <2> QED BY <1>6, <2>1, <2>2 DEF Start, StartIn
<1> HIDE DEF k, b
<1>12. /\ k = irec - Len(pending) /\ b = wbuf[target]
  BY DEF k, b
<1> QED BY <1>1, <1>2, <1>5, <1>6, <1>7, <1>9, <1>10, <1>11, <1>12

\* The only steps that touch a data file's records or size.
LEMMA DiskFrame ==
    ASSUME [Next]_vars
    PROVE  \/ \E f \in Flushers : WriteOut(f)
           \/ \E s \in {"closed", "down"} : StopAs(s)
           \/ UNCHANGED <<content, fsize>>
<1> USE DEF disk
<1>1. ASSUME NEW s \in Sizes, AppendRecord(s) \/ AppendPanic(s) PROVE UNCHANGED <<content, fsize>>
  BY <1>1 DEF AppendRecord, AppendPanic
<1>2. CASE FlushTick \/ ReadFile \/ Close \/ Open \/ UNCHANGED vars
  BY <1>2 DEF FlushTick, ReadFile, Close, Open, vars
<1>3. ASSUME NEW f \in Flushers,
             \/ FlushCheck(f) \/ FlushSkip(f) \/ FlushStart(f) \/ OpenWriter(f)
             \/ SeeEmptyBuffer(f) \/ FlushCount(f) \/ WriteRecord(f)
             \/ Synced(f) \/ Trim(f) \/ Account(f)
      PROVE  UNCHANGED <<content, fsize>>
  BY <1>3 DEF FlushCheck, FlushSkip, FlushStart, OpenWriter, SeeEmptyBuffer,
              FlushCount, WriteRecord, Synced, Trim, Account
<1>4. ASSUME NEW f \in Flushers, SizeFromBuffer(f) \/ SizeFromChunk(f)
      PROVE  \/ StopAs("down") \/ UNCHANGED <<content, fsize>>
  BY <1>4 DEF SizeFromBuffer, SizeFromChunk, Fatalf
<1>5. ASSUME NEW r \in appended, ReadBuffer(r) PROVE UNCHANGED <<content, fsize>>
  BY <1>5 DEF ReadBuffer
<1>6. CASE Exit \/ Crash
  BY <1>6 DEF Exit, Crash
<1> QED BY <1>1, <1>2, <1>3, <1>4, <1>5, <1>6 DEF Next

\* Every step keeps records inside their file and at their own offset.
LEMMA NextContent ==
    TypeOK /\ Layout /\ StoredWhereIndexed /\ [Next]_vars => ContentInv' /\ StoredWhereIndexed'
<1> SUFFICES ASSUME TypeOK, Layout, StoredWhereIndexed, [Next]_vars
             PROVE  ContentInv' /\ StoredWhereIndexed'
  OBVIOUS
<1>1. /\ content \in [Chunks -> SUBSET [rec : Records, at : Nat]]
      /\ fsize \in [Chunks -> Nat] /\ target \in Chunks
  BY DEF TypeOK, DiskOK, FlushingOK
<1>2. \A c \in Chunks : \A e \in content[c] :
         /\ e.at + e.rec.size <= fsize[c] /\ e.rec.chunk = c /\ e.at = e.rec.off
         /\ e.at \in Nat /\ e.rec.size \in Nat
  BY <1>1, RecordFields DEF Layout, ContentInv, StoredWhereIndexed
<1>3. ASSUME NEW f \in Flushers, WriteOut(f) PROVE ContentInv' /\ StoredWhereIndexed'
  <2> DEFINE r == Head(pending)
             new == [rec |-> r, at |-> fsize[target]]
  <2>1. r \in Records /\ r.chunk = target /\ r.off = fsize[target] /\ r.size \in Nat
    BY <1>3, WriteOutShape, RecordFields
  <2>2. /\ content'[target] = content[target] \cup {new}
        /\ fsize'[target] = fsize[target] + r.size
        /\ \A c \in Chunks : c # target => content'[c] = content[c] /\ fsize'[c] = fsize[c]
    BY <1>1, <1>3 DEF WriteOut
  <2>3. new.rec = r /\ new.at = fsize[target]
    OBVIOUS
  <2> HIDE DEF r, new
  <2>4. \A e \in content'[target] :
           e.at + e.rec.size <= fsize'[target] /\ e.rec.chunk = target /\ e.at = e.rec.off
    BY <1>1, <1>2, <2>1, <2>2, <2>3
  <2> QED BY <1>2, <2>2, <2>4 DEF ContentInv, StoredWhereIndexed
<1>4. ASSUME NEW s \in {"closed", "down"}, StopAs(s) PROVE ContentInv' /\ StoredWhereIndexed'
  BY <1>1, <1>2, <1>4, StopDisk DEF ContentInv, StoredWhereIndexed
<1>5. CASE UNCHANGED <<content, fsize>>
  BY <1>2, <1>5 DEF ContentInv, StoredWhereIndexed
<1> QED BY <1>3, <1>4, <1>5, DiskFrame

\* No buffered record starts before its buffer or ends after the chunk.
LEMMA StartBounds ==
    ASSUME NEW b \in Seq(Records), NEW w \in Nat, NEW c, Laid(b, w, c),
           NEW n \in Nat, n <= Len(b)
    PROVE  /\ StartIn(b, w, 1) <= StartIn(b, w, n + 1)
           /\ StartIn(b, w, n + 1) <= w
           /\ \A i \in 1 .. n : b[i].off + b[i].size <= StartIn(b, w, n + 1)
           /\ \A i \in n + 1 .. Len(b) : StartIn(b, w, n + 1) <= b[i].off
<1>1. Len(b) \in Nat /\ (\A i \in 1 .. Len(b) : b[i].off \in Nat /\ b[i].size \in Nat \ {0})
  BY BufferFields
<1>2. /\ \A i \in 1 .. Len(b) : b[i].off + b[i].size <= w
      /\ \A i, j \in 1 .. Len(b) : i < j => b[i].off + b[i].size <= b[j].off
  BY DEF Laid
<1>3. CASE n = Len(b)
  <2>1. StartIn(b, w, n + 1) = w
    BY <1>1, <1>3 DEF StartIn
  <2>2. StartIn(b, w, 1) <= w
    BY <1>1, <1>2 DEF StartIn
  <2> QED BY <1>1, <1>2, <1>3, <2>1, <2>2
<1>4. CASE n < Len(b)
  <2>1. n + 1 \in 1 .. Len(b) /\ StartIn(b, w, n + 1) = b[n + 1].off
    BY <1>1, <1>4 DEF StartIn
  <2>2. b[n + 1].off <= w
    BY <1>1, <1>2, <2>1
  <2>3. \A i \in 1 .. n : b[i].off + b[i].size <= b[n + 1].off
    BY <1>1, <1>2, <2>1
  <2>4. \A i \in n + 1 .. Len(b) : b[n + 1].off <= b[i].off
    <3> SUFFICES ASSUME NEW i \in n + 1 .. Len(b) PROVE b[n + 1].off <= b[i].off
      OBVIOUS
    <3>1. CASE i = n + 1 BY <1>1, <2>1, <3>1
    <3>2. CASE n + 1 < i
      <4>1. b[n + 1].off + b[n + 1].size <= b[i].off
        BY <1>1, <1>2, <2>1, <3>2
      <4>2. i \in 1 .. Len(b) BY <1>1
      <4> QED BY <1>1, <2>1, <4>1, <4>2
    <3> QED BY <1>1, <3>1, <3>2
  <2>5. StartIn(b, w, 1) <= b[n + 1].off
    <3>1. 1 \in 1 .. Len(b) /\ StartIn(b, w, 1) = b[1].off
      BY <1>1, <1>4 DEF StartIn
    <3>2. CASE n = 0 BY <1>1, <3>1, <3>2
    <3>3. CASE n > 0
      <4>1. b[1].off + b[1].size <= b[n + 1].off BY <2>3, <3>3
      <4> QED BY <1>1, <2>1, <3>1, <4>1
    <3> QED BY <3>2, <3>3
  <2> QED BY <2>1, <2>2, <2>3, <2>4, <2>5
<1> QED BY <1>1, <1>3, <1>4

\* The only steps that touch the reader.
LEMMA ReaderFrame ==
    ASSUME [Next]_vars
    PROVE  \/ \E r \in appended : ReadBuffer(r)
           \/ ReadFile
           \/ reader' \in {reader, NoRead}
<1>1. ASSUME NEW s \in Sizes, AppendRecord(s) \/ AppendPanic(s) PROVE reader' = reader
  BY <1>1 DEF AppendRecord, AppendPanic
<1>2. CASE FlushTick \/ Close \/ Open \/ UNCHANGED vars
  BY <1>2 DEF FlushTick, Close, Open, vars
<1>3. ASSUME NEW f \in Flushers,
             \/ FlushCheck(f) \/ FlushSkip(f) \/ FlushStart(f) \/ OpenWriter(f)
             \/ SeeEmptyBuffer(f) \/ FlushCount(f) \/ WriteRecord(f) \/ WriteOut(f)
             \/ Synced(f) \/ Trim(f) \/ Account(f)
      PROVE  reader' = reader
  BY <1>3 DEF FlushCheck, FlushSkip, FlushStart, OpenWriter, SeeEmptyBuffer,
              FlushCount, WriteRecord, WriteOut, Synced, Trim, Account
<1>4. ASSUME NEW f \in Flushers, SizeFromBuffer(f) \/ SizeFromChunk(f)
      PROVE  reader' \in {reader, NoRead}
  BY <1>4 DEF SizeFromBuffer, SizeFromChunk, Fatalf, StopAs
<1>5. CASE Exit \/ Crash
  BY <1>5 DEF Exit, Crash, StopAs
<1> QED BY <1>1, <1>2, <1>3, <1>4, <1>5 DEF Next

\* Where a live record is found: in the buffer if its position says so, on disk
\* otherwise.
LEMMA LookupFinds ==
    ASSUME TypeOK, Layout, ReadInv, Alive, NEW r \in appended
    PROVE  IF InBuffer(r) THEN BufferHas(r) ELSE OnDisk(r)
<1> DEFINE c == r.chunk
           b == wbuf[c]
           w == writingHead[c]
<1>1. r \in Records
  BY DEF TypeOK, HistoryOK
<1>2. c \in Chunks /\ r.off \in Nat /\ r.size \in Nat \ {0} /\ b \in Seq(Records) /\ w \in Nat
  BY <1>1, RecordFields DEF TypeOK, MemoryOK
<1>3. Len(b) \in Nat /\ (b # << >> => Len(b) > 0) /\ (b = << >> => Len(b) = 0)
  BY <1>2, LenProperties, EmptySeq
<1>4. Laid(b, w, c)
  BY <1>2 DEF Layout, BufferInv
<1>5. BufferHas(r) \/ (OnDisk(r) /\ r.off + r.size <= StartIn(b, w, 1))
  BY DEF ReadInv, Start
<1>6. CASE InBuffer(r)
  <2>1. r.off >= StartIn(b, w, 1) /\ StartIn(b, w, 1) = b[1].off
    BY <1>3, <1>6 DEF InBuffer, StartIn
  <2>2. b[1].off \in Nat
    BY <1>2, <1>3, <1>6, BufferFields DEF InBuffer
  <2> QED BY <1>2, <1>5, <1>6, <2>1, <2>2
<1>7. CASE ~InBuffer(r)
  <2>1. ASSUME BufferHas(r) PROVE FALSE
    <3>1. PICK i \in 1 .. Len(b) : b[i] = r
      BY <2>1 DEF BufferHas
    <3>2. b # << >> /\ StartIn(b, w, 1) = b[1].off
      BY <1>3, <3>1 DEF StartIn
    <3>3. r.off + r.size <= w
      BY <1>4, <3>1 DEF Laid
    <3>4. StartIn(b, w, 1) <= r.off
      <4>1. i \in 0 + 1 .. Len(b) /\ 0 \in Nat /\ 0 <= Len(b) /\ 0 + 1 = 1
        BY <1>3
      <4>2. StartIn(b, w, 0 + 1) <= b[i].off
        BY <1>2, <1>4, <4>1, StartBounds
      <4> QED BY <3>1, <4>1, <4>2
    <3> QED BY <1>2, <1>7, <3>2, <3>3, <3>4 DEF InBuffer
  <2> QED BY <1>5, <1>7, <2>1
<1> QED BY <1>6, <1>7

\* A record on disk stays there, and a reader on its way to it finds it.
LEMMA NextReader ==
    TypeOK /\ Layout /\ ReadInv /\ ReadCorrect /\ [Next]_vars
        => /\ \A r \in Records : OnDisk(r) => OnDisk(r)'
           /\ ReadCorrect'
           /\ (reader.at = "file" => OnDisk(reader.rec))'
<1> SUFFICES ASSUME TypeOK, Layout, ReadInv, ReadCorrect, [Next]_vars
             PROVE  /\ \A r \in Records : OnDisk(r) => OnDisk(r)'
                    /\ ReadCorrect'
                    /\ (reader.at = "file" => OnDisk(reader.rec))'
  OBVIOUS
<1>1. \A r \in Records : OnDisk(r) => OnDisk(r)'
  <2>1. content \in [Chunks -> SUBSET [rec : Records, at : Nat]] /\ target \in Chunks
    BY DEF TypeOK, DiskOK, FlushingOK
  <2>2. ASSUME NEW f \in Flushers, WriteOut(f), NEW c \in Chunks PROVE content[c] \subseteq content'[c]
    BY <2>1, <2>2 DEF WriteOut
  <2>3. ASSUME NEW s \in {"closed", "down"}, StopAs(s) PROVE content' = content
    BY <2>3 DEF StopAs
  <2>4. \A c \in Chunks : content[c] \subseteq content'[c]
    BY <2>2, <2>3, DiskFrame
  <2> QED BY <2>4, RecordFields DEF OnDisk
<1>2. CASE reader' \in {reader, NoRead}
  <2>1. reader.at = "file" => reader.rec \in Records
    BY DEF TypeOK, ControlOK, NoRead
  <2>2. CASE reader' = NoRead
    BY <1>1, <2>2 DEF NoRead, ReadCorrect
  <2>3. CASE reader' = reader
    <3>1. ASSUME reader.at = "file" PROVE OnDisk(reader.rec)'
      <4>1. PICK q \in Records : q = reader.rec BY <2>1, <3>1
      <4>2. OnDisk(q)' BY <1>1, <3>1, <4>1 DEF ReadInv
      <4> QED BY <2>3, <4>1, <4>2
    <3>2. ReadCorrect'
      BY <2>3 DEF ReadCorrect
    <3>3. (reader.at = "file" => OnDisk(reader.rec))'
      BY <2>3, <3>1
    <3> QED BY <1>1, <3>2, <3>3
  <2> QED BY <1>2, <2>2, <2>3
<1>3. ASSUME NEW r \in appended, ReadBuffer(r)
      PROVE  ReadCorrect' /\ (reader.at = "file" => OnDisk(reader.rec))'
  <2>1. IF InBuffer(r) THEN BufferHas(r) ELSE OnDisk(r)
    BY <1>3, LookupFinds DEF ReadBuffer
  <2>2. content' = content
    BY <1>3 DEF ReadBuffer, disk
  <2>3. CASE InBuffer(r)
    BY <1>3, <2>1, <2>3 DEF ReadBuffer, ReadCorrect, NoRead
  <2>4. CASE ~InBuffer(r)
    <3>1. reader' = [at |-> "file", rec |-> r]
      BY <1>3, <2>4 DEF ReadBuffer
    <3> QED BY <2>1, <2>2, <2>4, <3>1 DEF ReadCorrect, OnDisk
  <2> QED BY <2>3, <2>4
<1>4. CASE ReadFile
  <2>1. reader' = NoRead
    BY <1>4 DEF ReadFile, ReadInv
  <2> QED BY <1>1, <2>1 DEF NoRead, ReadCorrect
<1> QED BY <1>1, <1>2, <1>3, <1>4, ReaderFrame

\* Only Open brings a process to life.
LEMMA StateFrame ==
    ASSUME [Next]_vars
    PROVE  Open \/ (Alive' => Alive)
<1>1. ASSUME NEW s \in Sizes, AppendRecord(s) \/ AppendPanic(s) PROVE Alive
  BY <1>1 DEF AppendRecord, AppendPanic, Alive
<1>2. ASSUME NEW f \in Flushers,
             \/ FlushCheck(f) \/ FlushSkip(f) \/ FlushStart(f) \/ OpenWriter(f)
             \/ SizeFromBuffer(f) \/ SeeEmptyBuffer(f) \/ SizeFromChunk(f)
             \/ FlushCount(f) \/ WriteRecord(f) \/ WriteOut(f) \/ Synced(f)
             \/ Trim(f) \/ Account(f)
      PROVE  Alive
  BY <1>2 DEF FlushCheck, FlushSkip, FlushStart, OpenWriter, SizeFromBuffer, SeeEmptyBuffer,
              SizeFromChunk, FlushCount, WriteRecord, WriteOut, Synced, Trim, Account
<1>3. CASE FlushTick \/ ReadFile \/ Close \/ Exit \/ Crash
  BY <1>3 DEF FlushTick, ReadFile, Close, Exit, Crash, Alive
<1>4. ASSUME NEW r \in appended, ReadBuffer(r) PROVE Alive
  BY <1>4 DEF ReadBuffer
<1>5. CASE UNCHANGED vars
  BY <1>5 DEF vars, Alive
<1> QED BY <1>1, <1>2, <1>3, <1>4, <1>5 DEF Next

\* The two halves of ReadInv that speak of the records of a live process.
Found ==
    Alive => \A r \in appended :
        BufferHas(r) \/ (OnDisk(r) /\ r.off + r.size <= Start(r.chunk, 1))
Written ==
    Alive => \A c \in Chunks : \A i \in 1 .. Len(wbuf[c]) :
        wbuf[c][i].off < fsize[c] => OnDisk(wbuf[c][i])

\* What the cases of FoundAndWritten use.
LEMMA ReadTypes ==
    ASSUME TypeOK, Layout
    PROVE  /\ \A c \in Chunks : /\ wbuf[c] \in Seq(Records) /\ writingHead[c] \in Nat
                                /\ fsize[c] \in Nat /\ Laid(wbuf[c], writingHead[c], c)
           /\ appended \subseteq Records /\ target \in Chunks /\ nrec \in Nat
           /\ \A c \in Chunks : /\ Len(wbuf[c]) \in Nat
                                /\ \A i \in 1 .. Len(wbuf[c]) :
                                      /\ wbuf[c][i] \in Records /\ wbuf[c][i].off \in Nat
                                      /\ wbuf[c][i].size \in Nat \ {0}
<1>1. /\ \A c \in Chunks : /\ wbuf[c] \in Seq(Records) /\ writingHead[c] \in Nat
                            /\ fsize[c] \in Nat /\ Laid(wbuf[c], writingHead[c], c)
      /\ appended \subseteq Records /\ target \in Chunks /\ nrec \in Nat
  BY DEF TypeOK, MemoryOK, DiskOK, HistoryOK, FlushingOK, Layout, BufferInv
<1> QED BY <1>1, BufferFields

\* WriteOut makes the next buffered record one the file reaches.
LEMMA WrittenOut ==
    ASSUME TypeOK, Layout, Written, NEW f \in Flushers, WriteOut(f),
           \A r \in Records : OnDisk(r) => OnDisk(r)'
    PROVE  Written'
<1>1. PICK k \in Nat, r \in Records, t \in Chunks :
         /\ r.chunk = t /\ r.off = fsize[t] /\ t = target
         /\ k + 1 <= Len(wbuf[t]) /\ r = wbuf[t][k + 1] /\ r = Head(pending)
  BY WriteOutShape
<1>2. /\ UNCHANGED wbuf /\ Alive
      /\ [rec |-> r, at |-> fsize[t]] \in content'[t]
      /\ fsize'[t] = fsize[t] + r.size
      /\ \A c \in Chunks : c # t => fsize'[c] = fsize[c]
  BY <1>1 DEF WriteOut, memory, TypeOK, DiskOK
<1>3. OnDisk(r)'
  BY <1>1, <1>2 DEF OnDisk
<1>4. PICK b : b = wbuf[t] /\ b = wbuf'[t]
  BY <1>2
<1>5. /\ Laid(b, writingHead[t], t) /\ Len(b) \in Nat
      /\ \A i \in 1 .. Len(b) : b[i] \in Records /\ b[i].off \in Nat /\ b[i].size \in Nat \ {0}
  BY <1>4, ReadTypes
<1>6. \A i \in 1 .. Len(b) : b[i].off < fsize[t] => OnDisk(b[i])
  BY <1>2, <1>4 DEF Written
<1>7. k + 1 \in 1 .. Len(b) /\ b[k + 1] = r /\ r.size \in Nat \ {0} /\ fsize[t] = b[k + 1].off
  <2>1. r.size \in Nat \ {0}
    BY RecordFields
  <2>2. k + 1 \in 1 .. Len(b)
    BY <1>1, <1>4, <1>5
  <2> QED BY <1>1, <1>4, <2>1, <2>2
<1>8. \A m, j \in 1 .. Len(b) : m < j => b[m].off + b[m].size <= b[j].off
  BY <1>5 DEF Laid
<1>9. ASSUME NEW i \in 1 .. Len(b), b[i].off < fsize'[t] PROVE OnDisk(b[i])'
  <2>1. CASE i = k + 1
    BY <1>3, <1>7, <2>1
  <2>2. CASE i < k + 1
    <3>1. b[i] \in Records /\ b[i].off < fsize[t]
      <4>1. b[i].off + b[i].size <= b[k + 1].off
        BY <1>7, <1>8, <2>2
      <4>2. b[i] \in Records /\ b[i].off \in Nat /\ b[i].size \in Nat \ {0}
        BY <1>5
      <4>3. b[k + 1].off \in Nat
        BY <1>5, <1>7
      <4> QED BY <1>7, <4>1, <4>2, <4>3
    <3>2. OnDisk(b[i])
      BY <1>6, <3>1
    <3> QED BY <3>1, <3>2
  <2>3. CASE i > k + 1
    <3>1. fsize[t] + r.size <= b[i].off
      BY <1>7, <1>8, <2>3
    <3>2. fsize[t] \in Nat /\ b[i].off \in Nat
      BY <1>5, <1>7
    <3> QED BY <1>2, <1>7, <1>9, <3>1, <3>2
  <2> QED BY <1>5, <2>1, <2>2, <2>3
<1>10. ASSUME NEW c \in Chunks, NEW i \in 1 .. Len(wbuf'[c]), wbuf'[c][i].off < fsize'[c]
       PROVE  OnDisk(wbuf[c][i])'
  <2>1. CASE c = t
    BY <1>4, <1>9, <1>10, <2>1
  <2>2. CASE c # t
    <3>1. PICK q \in Records : q = wbuf[c][i]
      BY <1>2, ReadTypes
    <3>2. OnDisk(q)'
      BY <1>2, <1>10, <2>2, <3>1 DEF Written
    <3> QED BY <1>2, <3>1, <3>2
  <2> QED BY <2>1, <2>2
<1> QED BY <1>10 DEF Written

\* A new record starts at or after the end of its file and is in the buffer.
LEMMA FoundAppend ==
    ASSUME TypeOK, Layout, Found, Written, NEW s \in Sizes, AppendRecord(s),
           \A r \in Records : OnDisk(r) => OnDisk(r)'
    PROVE  Found' /\ Written'
<1>1. PICK h \in Chunks : h = newHead'
  BY AppendShape
<1>2. PICK r \in Records :
         /\ r.chunk = h /\ r.off = writingHead[h] /\ r.size = s
         /\ wbuf'[h] = Append(wbuf[h], r) /\ appended' = appended \cup {r}
  BY <1>1, AppendShape
<1>3. /\ \A c \in Chunks : c # h => wbuf'[c] = wbuf[c] /\ writingHead'[c] = writingHead[c]
      /\ writingHead'[h] = writingHead[h] + s
  BY <1>1, AppendShape
<1>4. UNCHANGED fsize /\ Alive
  BY DEF AppendRecord, disk, Alive
<1> DEFINE b == wbuf[h]
<1>5. b \in Seq(Records) /\ writingHead[h] \in Nat /\ Laid(b, writingHead[h], h) /\ Len(b) \in Nat
  BY ReadTypes
<1>6. Len(wbuf'[h]) = Len(b) + 1 /\ (\A i \in 1 .. Len(b) : wbuf'[h][i] = b[i])
      /\ wbuf'[h][Len(b) + 1] = r
  BY <1>2, <1>5, AppendProperties
<1>7. \A c \in Chunks : Start(c, 1)' = Start(c, 1)
  <2>1. 1 \in 1 .. Len(b) + 1
    BY <1>5
  <2>2. StartIn(Append(b, r), writingHead[h] + r.size, 1) = StartIn(b, writingHead[h], 1)
    BY <1>2, <1>5, <2>1, LaidAppend
  <2>3. Start(h, 1)' = Start(h, 1)
    BY <1>2, <1>3, <2>2 DEF Start
  <2> QED BY <1>3, <2>3 DEF Start
<1> HIDE DEF b
<1>8. ASSUME NEW q \in appended'
      PROVE  (BufferHas(q) \/ (OnDisk(q) /\ q.off + q.size <= Start(q.chunk, 1)))'
  <2>1. CASE q = r
    BY <1>2, <1>5, <1>6, <2>1 DEF BufferHas
  <2>2. CASE q \in appended
    <3>1. q \in Records /\ q.chunk \in Chunks
      BY <2>2, ReadTypes, RecordFields
    <3>2. CASE BufferHas(q)
      BY <1>3, <1>5, <1>6, <3>1, <3>2 DEF BufferHas, b
    <3>3. CASE OnDisk(q) /\ q.off + q.size <= Start(q.chunk, 1)
      BY <1>7, <3>1, <3>3
    <3> QED BY <1>4, <2>2, <3>2, <3>3 DEF Found
  <2> QED BY <1>2, <2>1, <2>2
<1>9. fsize[h] <= r.off
  <2>1. Done(h) \in Nat /\ Done(h) <= Len(b)
    BY DoneRange DEF Layout, b
  <2>2. fsize[h] = StartIn(b, writingHead[h], 1 + Done(h)) /\ 1 + Done(h) = Done(h) + 1
    BY <1>4, <2>1 DEF Layout, FileInv, Start, b
  <2>3. StartIn(b, writingHead[h], Done(h) + 1) <= writingHead[h]
    BY <1>5, <2>1, StartBounds
  <2> QED BY <1>2, <2>2, <2>3
<1>10. ASSUME NEW c \in Chunks, NEW i \in 1 .. Len(wbuf'[c]), wbuf'[c][i].off < fsize[c]
       PROVE  OnDisk(wbuf[c][i])'
  <2>1. wbuf'[c] = wbuf[c] \/ c = h
    BY <1>3
  <2>2. CASE i \in 1 .. Len(wbuf[c]) /\ wbuf'[c][i] = wbuf[c][i]
    <3>1. PICK q \in Records : q = wbuf[c][i]
      BY <2>2, ReadTypes
    <3>2. OnDisk(q)'
      BY <1>4, <1>10, <2>2, <3>1 DEF Written
    <3> QED BY <2>2, <3>1, <3>2
  <2>3. CASE c = h /\ i = Len(b) + 1
    <3>1. r.off \in Nat /\ fsize[h] \in Nat
      BY RecordFields, ReadTypes
    <3> QED BY <1>6, <1>9, <1>10, <2>3, <3>1
  <2> QED BY <1>5, <1>6, <2>1, <2>2, <2>3 DEF b
<1> QED BY <1>4, <1>8, <1>10 DEF Found, Written

\* What a flush drops from the buffer is in the file.
LEMMA FoundTrim ==
    ASSUME TypeOK, Layout, Found, Written, NEW f \in Flushers, Trim(f),
           \A r \in Records : OnDisk(r) => OnDisk(r)'
    PROVE  Found' /\ Written'
<1> DEFINE b == wbuf[target]
           w == writingHead[target]
<1>1. /\ nrec \in Nat /\ nrec <= Len(b) /\ target \in Chunks
      /\ wbuf'[target] = SubSeq(b, nrec + 1, Len(b))
      /\ \A c \in Chunks : c # target => wbuf'[c] = wbuf[c]
  BY TrimBound
<1>2. UNCHANGED <<fsize, writingHead, appended>> /\ Alive
  BY DEF Trim, disk, history
<1>3. /\ b \in Seq(Records) /\ w \in Nat /\ Laid(b, w, target) /\ Len(b) \in Nat
      /\ \A i \in 1 .. Len(b) : b[i] \in Records /\ b[i].off \in Nat /\ b[i].size \in Nat \ {0}
  BY <1>1, ReadTypes
<1>4. PICK d : d = wbuf'[target]
  OBVIOUS
<1>5. Len(d) = Len(b) - nrec /\ (\A i \in 1 .. Len(d) : d[i] = b[i + nrec])
  <2>1. d = SubSeq(b, nrec + 1, Len(b))
    BY <1>1, <1>4
  <2> HIDE DEF b, w
  <2> QED BY <1>1, <1>3, <2>1, LaidDrop
<1>6. Start(target, 1)' = StartIn(b, w, nrec + 1)
  <2>1. StartIn(d, w, 1) = StartIn(b, w, 1 + nrec)
    BY <1>1, <1>3, <1>4, DropStart
  <2>2. 1 + nrec = nrec + 1
    BY <1>1
  <2>3. UNCHANGED target
    BY DEF Trim
  <2> QED BY <1>2, <1>4, <2>1, <2>2, <2>3 DEF Start
<1>7. fsize[target] = StartIn(b, w, nrec + 1)
  <2>1. Done(target) = nrec
    BY Holder DEF Done, Trim, Layout, At, InFlush
  <2>2. 1 + nrec = nrec + 1
    BY <1>1
  <2> QED BY <1>1, <1>2, <2>1, <2>2 DEF Layout, FileInv, Start
<1>8. /\ StartIn(b, w, 1) <= StartIn(b, w, nrec + 1)
      /\ \A i \in 1 .. nrec : b[i].off + b[i].size <= StartIn(b, w, nrec + 1)
  BY <1>1, <1>3, StartBounds
<1>9. StartIn(b, w, 1) \in Nat /\ fsize[target] \in Nat
  BY <1>1, <1>3, ReadTypes DEF StartIn
<1>10. \A q \in Records : q.chunk # target => (BufferHas(q)' <=> BufferHas(q)) /\ Start(q.chunk, 1)' = Start(q.chunk, 1)
  BY <1>1, <1>2, RecordFields DEF BufferHas, Start
<1>11. Start(target, 1) = StartIn(b, w, 1)
  BY DEF Start
<1>12. \A i \in 1 .. Len(b) : b[i].off < fsize[target] => OnDisk(b[i])
  BY <1>1, <1>2 DEF Written
<1>13. \A q \in Records : q.chunk = target =>
          (BufferHas(q) <=> \E i \in 1 .. Len(b) : b[i] = q)
  BY DEF BufferHas
<1>14. \A q \in Records : q.chunk = target =>
          (BufferHas(q)' <=> \E i \in 1 .. Len(d) : d[i] = q)
  BY <1>2, <1>4 DEF BufferHas
<1>15. UNCHANGED target
  BY DEF Trim
<1> HIDE DEF b, w
<1>16. ASSUME NEW q \in appended
       PROVE  (BufferHas(q) \/ (OnDisk(q) /\ q.off + q.size <= Start(q.chunk, 1)))'
  <2>1. q \in Records /\ q.off \in Nat /\ q.size \in Nat \ {0}
    BY ReadTypes, RecordFields
  <2>2. BufferHas(q) \/ (OnDisk(q) /\ q.off + q.size <= Start(q.chunk, 1))
    BY <1>2 DEF Found
  <2>3. CASE q.chunk # target
    BY <1>10, <2>1, <2>2, <2>3
  <2>4. CASE q.chunk = target /\ BufferHas(q)
    <3>1. PICK i \in 1 .. Len(b) : b[i] = q
      BY <1>13, <2>1, <2>4
    <3>2. CASE i > nrec
      <4>1. i - nrec \in 1 .. Len(d) /\ (i - nrec) + nrec = i
        BY <1>1, <1>3, <1>5, <3>2
      <4>2. d[i - nrec] = q
        BY <1>5, <3>1, <4>1
      <4> QED BY <1>14, <2>1, <2>4, <4>1, <4>2
    <3>3. CASE i <= nrec
      <4>1. q.off + q.size <= fsize[target] /\ q.off < fsize[target]
        BY <1>7, <1>8, <1>9, <2>1, <3>1, <3>3
      <4>2. OnDisk(q)'
        BY <1>12, <2>1, <3>1, <4>1
      <4> QED BY <1>6, <1>7, <1>15, <2>4, <4>1, <4>2
    <3> QED BY <1>1, <1>3, <3>2, <3>3
  <2>5. CASE q.chunk = target /\ OnDisk(q) /\ q.off + q.size <= Start(q.chunk, 1)
    <3>1. q.off + q.size <= StartIn(b, w, nrec + 1)
      BY <1>7, <1>8, <1>9, <1>11, <2>1, <2>5
    <3> QED BY <1>6, <1>15, <2>1, <2>5, <3>1
  <2> QED BY <2>2, <2>3, <2>4, <2>5
<1>17. ASSUME NEW c \in Chunks, NEW i \in 1 .. Len(wbuf'[c]), wbuf'[c][i].off < fsize[c]
       PROVE  OnDisk(wbuf[c][i])'
  <2>1. CASE c # target
    <3>1. PICK q \in Records : q = wbuf[c][i]
      BY <1>1, <2>1, ReadTypes
    <3>2. OnDisk(q)'
      BY <1>1, <1>2, <1>17, <2>1, <3>1 DEF Written
    <3> QED BY <1>1, <2>1, <3>1, <3>2
  <2>2. CASE c = target
    <3>1. i + nrec \in 1 .. Len(b) /\ wbuf'[c][i] = b[i + nrec]
      BY <1>1, <1>3, <1>4, <1>5, <2>2
    <3>2. PICK q \in Records : q = b[i + nrec]
      BY <1>3, <3>1
    <3>3. OnDisk(q)'
      BY <1>12, <1>17, <2>2, <3>1, <3>2
    <3> QED BY <3>1, <3>2, <3>3
  <2> QED BY <2>1, <2>2
<1> QED BY <1>2, <1>16, <1>17 DEF Found, Written

\* After a restart what was acknowledged is what the files hold.
LEMMA FoundOpen ==
    ASSUME TypeOK, Layout, Open, \A r \in Records : OnDisk(r) => OnDisk(r)'
    PROVE  Found' /\ Written'
<1> SUFFICES ASSUME state' = "running" PROVE Found' /\ Written'
  BY DEF Open, Found, Written, Alive
<1>1. \A c \in Chunks : wbuf'[c] = << >> /\ Len(wbuf'[c]) = 0
  BY EmptySeq DEF Open, Layout, LockInv, Alive
<1>2. writingHead' = fsize /\ appended' = {r \in appended : OnDisk(r)}
  BY DEF Open
<1>3. \A c \in Chunks : Start(c, 1)' = fsize[c]
  BY <1>1, <1>2 DEF Start, StartIn
<1>4. ASSUME NEW r \in appended'
      PROVE  (OnDisk(r) /\ r.off + r.size <= Start(r.chunk, 1))'
  <2>1. r \in Records /\ r.chunk \in Chunks /\ OnDisk(r)
    BY <1>2, ReadTypes, RecordFields
  <2>2. r.off + r.size <= fsize[r.chunk]
    BY <2>1 DEF Layout, ContentInv, OnDisk
  <2> QED BY <1>3, <2>1, <2>2
<1>5. Found'
  BY <1>4 DEF Found
<1>6. Written'
  BY <1>1 DEF Written
<1> QED BY <1>5, <1>6

\* Every step keeps every live record where a reader will look for it.
LEMMA NextRead ==
    TypeOK /\ Layout /\ ReadInv /\ ReadCorrect /\ [Next]_vars => ReadInv' /\ ReadCorrect'
<1> SUFFICES ASSUME TypeOK, Layout, ReadInv, ReadCorrect, [Next]_vars
             PROVE  ReadInv' /\ ReadCorrect'
  OBVIOUS
<1>1. /\ \A r \in Records : OnDisk(r) => OnDisk(r)'
      /\ ReadCorrect' /\ (reader.at = "file" => OnDisk(reader.rec))'
  BY NextReader
<1>2. SUFFICES Found' /\ Written'
  BY <1>1 DEF ReadInv, Found, Written
<1>3. Found /\ Written
  BY DEF ReadInv, Found, Written
<1>4. ASSUME UNCHANGED <<wbuf, writingHead, appended>>, Alive' => Alive PROVE Found'
  <2> SUFFICES ASSUME Alive, NEW r \in appended
               PROVE  (BufferHas(r) \/ (OnDisk(r) /\ r.off + r.size <= Start(r.chunk, 1)))'
    BY <1>4 DEF Found
  <2>1. BufferHas(r)' <=> BufferHas(r)
    BY <1>4 DEF BufferHas
  <2>2. Start(r.chunk, 1)' = Start(r.chunk, 1)
    BY <1>4 DEF Start
  <2>3. OnDisk(r) => OnDisk(r)'
    BY <1>1, ReadTypes
  <2> QED BY <1>3, <2>1, <2>2, <2>3 DEF Found
<1>5. ASSUME UNCHANGED <<wbuf, fsize>>, Alive' => Alive PROVE Written'
  <2> SUFFICES ASSUME Alive, NEW c \in Chunks, NEW i \in 1 .. Len(wbuf[c]), wbuf[c][i].off < fsize[c]
               PROVE  OnDisk(wbuf[c][i])'
    BY <1>5 DEF Written
  <2>1. PICK q \in Records : q = wbuf[c][i] BY ReadTypes
  <2>2. OnDisk(q)' BY <1>1, <1>3, <2>1 DEF Written
  <2> QED BY <1>5, <2>1, <2>2
<1>6. ASSUME NEW s \in {"closed", "down"}, StopAs(s) PROVE Found' /\ Written'
  BY <1>6 DEF StopAs, Found, Written, Alive
<1>7. ASSUME NEW s \in Sizes, AppendRecord(s) PROVE Found' /\ Written'
  BY <1>1, <1>3, <1>7, FoundAppend
<1>8. ASSUME NEW f \in Flushers, Trim(f) PROVE Found' /\ Written'
  BY <1>1, <1>3, <1>8, FoundTrim
<1>9. CASE Open
  BY <1>1, <1>9, FoundOpen
<1>10. CASE UNCHANGED <<wbuf, writingHead, size, appended>> /\ (Alive' => Alive)
  <2>1. Found'
    BY <1>4, <1>10
  <2>2. ASSUME NEW f \in Flushers, WriteOut(f) PROVE Written'
    BY <1>1, <1>3, <2>2, WrittenOut
  <2> QED BY <1>5, <1>6, <1>10, <2>1, <2>2, DiskFrame
<1> QED BY <1>6, <1>7, <1>8, <1>9, <1>10, BufferFrame, StateFrame

-----------------------------------------------------------------------------
(* The theorems *)

\* At the size check the writer's offset is the end of the file, which is where
\* a non-empty buffer starts.
LEMMA NextMeets ==
    TypeOK /\ Layout /\ BufferMeetsFile /\ [Next]_vars => BufferMeetsFile'
<1> SUFFICES ASSUME TypeOK, Layout, BufferMeetsFile, [Next]_vars PROVE BufferMeetsFile'
  OBVIOUS
<1>1. ASSUME NEW f \in Flushers, SizeFromBuffer(f) PROVE fatal' = fatal
  <2>1. \A x : At(x) <=> x = "len"
    BY <1>1, Holder DEF SizeFromBuffer, Layout, InFlush, At
  <2>2. target \in Chunks /\ Len(wbuf[target]) \in Nat /\ wbuf[target] \in Seq(Records)
    BY ReadTypes
  <2>3. Len(wbuf[target]) > 0
    BY <1>1, <2>2, EmptySeq DEF SizeFromBuffer
  <2>4. Done(target) = 0
    BY <2>1 DEF Done
  <2>5. fsize[target] = StartIn(wbuf[target], writingHead[target], 1)
    BY <1>1, <2>2, <2>4 DEF SizeFromBuffer, Layout, FileInv, Start
  <2>6. woffset = wbuf[target][1].off
    BY <2>1, <2>2, <2>3, <2>5 DEF Layout, WriterInv, StartIn
  <2> QED BY <1>1, <2>6 DEF SizeFromBuffer
<1>2. ASSUME NEW f \in Flushers, SizeFromChunk(f) PROVE fatal' \in {fatal, "size"}
  BY <1>2 DEF SizeFromChunk, Fatalf
<1>3. ASSUME NEW f \in Flushers,
             \/ FlushCheck(f) \/ FlushSkip(f) \/ FlushStart(f) \/ OpenWriter(f)
             \/ SeeEmptyBuffer(f) \/ FlushCount(f) \/ WriteRecord(f) \/ WriteOut(f)
             \/ Synced(f) \/ Trim(f) \/ Account(f)
      PROVE  fatal' = fatal
  BY <1>3 DEF FlushCheck, FlushSkip, FlushStart, OpenWriter, SeeEmptyBuffer,
              FlushCount, WriteRecord, WriteOut, Synced, Trim, Account
<1>4. ASSUME NEW s \in Sizes, AppendRecord(s) \/ AppendPanic(s) PROVE fatal' = fatal
  BY <1>4 DEF AppendRecord, AppendPanic
<1>5. ASSUME NEW r \in appended, ReadBuffer(r) PROVE fatal' = fatal
  BY <1>5 DEF ReadBuffer
<1>6. CASE FlushTick \/ ReadFile \/ Close \/ Exit \/ Crash \/ Open \/ UNCHANGED vars
  BY <1>6 DEF FlushTick, ReadFile, Close, Exit, Crash, Open, vars, BufferMeetsFile
<1>7. fatal' \in {fatal, "size"}
  BY <1>1, <1>2, <1>3, <1>4, <1>5, <1>6 DEF Next, FlushTick, ReadFile, Close, Exit, Crash,
     Open, vars
<1> QED BY <1>7 DEF BufferMeetsFile

\* The inductive invariant.
IInv == TypeOK /\ Layout /\ StoredWhereIndexed /\ ReadInv /\ ReadCorrect /\ BufferMeetsFile

\* The initial state satisfies the inductive invariant.
LEMMA InitIInv == Init => IInv
<1> SUFFICES ASSUME Init PROVE IInv
  OBVIOUS
<1>1. TypeOK /\ Layout
  BY InitTypeOK, InitLayout
<1>2. StoredWhereIndexed
  BY DEF Init, StoredWhereIndexed
<1>3. ReadInv
  <2>1. \A c \in Chunks : Len(wbuf[c]) = 0
    BY EmptySeq DEF Init
  <2>2. appended = {} /\ reader.at = "idle"
    BY DEF Init, NoRead
  <2> QED BY <2>1, <2>2 DEF ReadInv
<1>4. ReadCorrect /\ BufferMeetsFile
  BY DEF Init, ReadCorrect, BufferMeetsFile, NoRead
<1> QED BY <1>1, <1>2, <1>3, <1>4 DEF IInv

\* Every step preserves the inductive invariant.
LEMMA NextIInv == IInv /\ [Next]_vars => IInv'
<1> SUFFICES ASSUME IInv, [Next]_vars PROVE IInv'
  OBVIOUS
<1>1. TypeOK /\ Layout /\ StoredWhereIndexed /\ ReadInv /\ ReadCorrect /\ BufferMeetsFile
  BY DEF IInv
<1>2. TypeOK'
  BY <1>1, NextTypeOK
<1>3. LockInv' /\ BufferInv' /\ HeadInv'
  BY <1>1, NextLock, NextBuffer, NextHead
<1>4. WriterInv' /\ FileInv'
  BY <1>1, NextFlush
<1>5. ContentInv' /\ StoredWhereIndexed'
  BY <1>1, NextContent
<1>6. ReadInv' /\ ReadCorrect'
  BY <1>1, NextRead
<1>7. BufferMeetsFile'
  BY <1>1, NextMeets
<1>8. Layout'
  BY <1>3, <1>4, <1>5 DEF Layout
<1> QED BY <1>2, <1>5, <1>6, <1>7, <1>8 DEF IInv

\* The inductive invariant holds in every reachable state.
LEMMA Invariance == Spec => []IInv
BY InitIInv, NextIInv, PTL DEF Spec

\* Every variable of the data files of a bucket keeps its type: no flush indexes
\* past the buffer it copies, however many chunks, records and restarts there are.
THEOREM Typing == Spec => []TypeOK
<1>1. IInv => TypeOK
  BY DEF IInv
<1> QED BY <1>1, Invariance, PTL

\* Every whole record in a data file is where AppendRecord said it would be.
THEOREM Stored == Spec => []StoredWhereIndexed
<1>1. IInv => StoredWhereIndexed
  BY DEF IInv
<1> QED BY <1>1, Invariance, PTL

\* GetRecordByOffset finds every acknowledged record at every moment of a flush.
THEOREM Readable == Spec => []ReadCorrect
<1>1. IInv => ReadCorrect
  BY DEF IInv
<1> QED BY <1>1, Invariance, PTL

\* The size check of flush never fails when it sees a non-empty buffer.
THEOREM Meets == Spec => []BufferMeetsFile
<1>1. IInv => BufferMeetsFile
  BY DEF IInv
<1> QED BY <1>1, Invariance, PTL

-----------------------------------------------------------------------------
(* A torn file is sealed *)

\* The file of the head, of a later chunk, and of a chunk with a buffer ends in
\* a whole record.
SealInv == Alive => \A c \in Chunks : c >= newHead \/ wbuf[c] # << >> => ~Torn(c)

\* The head only moves on while the process runs.
LEMMA HeadGrows ==
    ASSUME TypeOK, [Next]_vars
    PROVE  \/ Open
           \/ \E s \in {"closed", "down"} : StopAs(s)
           \/ newHead' \in Int /\ newHead' >= newHead
<1>1. newHead \in Int
  BY DataStoreAssumption DEF TypeOK, MemoryOK
<1> USE <1>1 DEF memory
<1>2. ASSUME NEW s \in Sizes, AppendRecord(s) \/ AppendPanic(s)
      PROVE  newHead' \in Int /\ newHead' >= newHead
  BY <1>2 DEF AppendRecord, AppendPanic, HeadFor
<1>3. ASSUME NEW f \in Flushers,
             \/ FlushCheck(f) \/ FlushSkip(f) \/ FlushStart(f) \/ OpenWriter(f)
             \/ SeeEmptyBuffer(f) \/ FlushCount(f) \/ WriteRecord(f) \/ WriteOut(f)
             \/ Synced(f) \/ Trim(f) \/ Account(f)
      PROVE  newHead' = newHead
  BY <1>3 DEF FlushCheck, FlushSkip, FlushStart, OpenWriter, SeeEmptyBuffer,
              FlushCount, WriteRecord, WriteOut, Synced, Trim, Account
<1>4. ASSUME NEW f \in Flushers, SizeFromBuffer(f) \/ SizeFromChunk(f)
      PROVE  StopAs("down") \/ newHead' = newHead
  BY <1>4 DEF SizeFromBuffer, SizeFromChunk, Fatalf
<1>5. CASE FlushTick \/ ReadFile \/ Close \/ UNCHANGED vars \/ \E r \in appended : ReadBuffer(r)
  BY <1>5 DEF FlushTick, ReadFile, Close, ReadBuffer, vars
<1>6. CASE Exit \/ Crash
  BY <1>6 DEF Exit, Crash
<1> QED BY <1>2, <1>3, <1>4, <1>5, <1>6 DEF Next

\* What is about to be written comes from the buffer of its chunk.
LEMMA PendingBuffered ==
    ASSUME TypeOK, Layout, pending # << >>
    PROVE  target \in Chunks /\ wbuf[target] # << >>
<1>1. /\ target \in Chunks /\ wbuf[target] \in Seq(Records) /\ Len(wbuf[target]) \in Nat
      /\ irec \in Nat /\ nrec \in Nat /\ pending \in Seq(Records) /\ Len(pending) \in Nat
  BY LenProperties DEF TypeOK, FlushingOK, MemoryOK
<1>2. Len(pending) > 0
  BY <1>1, EmptySeq
<1>3. nrec <= Len(wbuf[target]) /\ Len(pending) <= irec /\ irec <= nrec
  BY <1>1 DEF Layout, WriterInv
<1> QED BY <1>1, <1>2, <1>3, EmptySeq

\* A file changes only while the chunk's buffer is being written.
LEMMA FileChanges ==
    ASSUME TypeOK, Layout, [Next]_vars, NEW c \in Chunks,
           content'[c] # content[c] \/ fsize'[c] # fsize[c]
    PROVE  Alive /\ wbuf[c] # << >>
<1>1. content \in [Chunks -> SUBSET [rec : Records, at : Nat]] /\ fsize \in [Chunks -> Nat]
  BY DEF TypeOK, DiskOK
<1>2. ASSUME NEW f \in Flushers, WriteOut(f) PROVE Alive /\ c = target /\ pending # << >>
  BY <1>1, <1>2 DEF WriteOut
<1>3. ASSUME NEW s \in {"closed", "down"}, StopAs(s) PROVE Alive /\ c = target /\ pending # << >>
  <2>1. content'[c] = content[c] /\ fsize'[c] # fsize[c]
    BY <1>3 DEF StopAs
  <2>2. pending # << >> /\ c = target
    BY <1>1, <1>3, <2>1 DEF StopAs, TornTail
  <2> QED BY <2>2 DEF Layout, LockInv
<1>4. c = target /\ pending # << >> /\ Alive
  BY <1>2, <1>3, DiskFrame
<1> QED BY <1>4, PendingBuffered

\* A record written out ends the file.
LEMMA WholeAfterWrite ==
    ASSUME TypeOK, Layout, NEW f \in Flushers, WriteOut(f), NEW c \in Chunks, Torn(c)'
    PROVE  Torn(c)
<1>1. content \in [Chunks -> SUBSET [rec : Records, at : Nat]] /\ fsize \in [Chunks -> Nat]
      /\ target \in Chunks
  BY DEF TypeOK, DiskOK, FlushingOK
<1>2. CASE c = target
  <2> DEFINE e == [rec |-> Head(pending), at |-> fsize[target]]
  <2>1. e \in content'[target] /\ fsize'[target] = fsize[target] + Head(pending).size
    BY <1>1 DEF WriteOut
  <2>2. e.at + e.rec.size = fsize'[target]
    BY <2>1
  <2> QED BY <1>2, <2>1, <2>2 DEF Torn
<1>3. CASE c # target
  BY <1>1, <1>3 DEF WriteOut, Torn
<1> QED BY <1>2, <1>3

\* A trim leaves an empty buffer empty.
LEMMA TrimKeepsEmpty ==
    ASSUME TypeOK, Layout, NEW f \in Flushers, Trim(f), NEW c \in Chunks, wbuf[c] = << >>
    PROVE  wbuf'[c] = << >>
<1>1. CASE c # target
  BY <1>1, TrimBound
<1>2. CASE c = target
  <2>1. nrec \in Nat /\ wbuf'[target] = SubSeq(wbuf[target], nrec + 1, 0)
    BY <1>2, TrimBound, EmptySeq
  <2>2. SubSeq(wbuf[target], nrec + 1, 0) = << >>
    BY <2>1, SubSeqEmpty
  <2> QED BY <1>2, <2>1, <2>2
<1> QED BY <1>1, <1>2

\* Every step keeps the files that may still be written whole.
LEMMA NextSeal == TypeOK /\ Layout /\ SealInv /\ [Next]_vars => SealInv'
<1> SUFFICES ASSUME TypeOK, Layout, SealInv, [Next]_vars, Alive',
                    NEW c \in Chunks, c >= newHead' \/ wbuf'[c] # << >>
             PROVE  ~Torn(c)'
  BY DEF SealInv
<1>1. ASSUME NEW s \in {"closed", "down"}, StopAs(s) PROVE FALSE
  BY <1>1 DEF StopAs, Alive
<1>2. CASE Open
  <2>1. wbuf'[c] = << >> /\ UNCHANGED <<exists, fsize, content>>
    BY <1>2 DEF Open, Layout, LockInv, Alive, disk
  <2>2. ~exists[c]
    BY <1>2, <2>1 DEF Open, Alive, NextFree
  <2>3. fsize'[c] = 0
    BY <2>1, <2>2 DEF Layout, HeadInv
  <2> QED BY <2>3 DEF Torn
<1>3. CASE ~Open
  <2>1. Alive /\ newHead' \in Int /\ newHead' >= newHead /\ newHead \in Int
    BY <1>1, <1>3, HeadGrows, StateFrame, DataStoreAssumption DEF TypeOK, MemoryOK
  <2>2. c >= newHead \/ wbuf[c] # << >>
    <3>1. CASE c >= newHead'
      BY <2>1, <3>1 DEF Chunks
    <3>2. ASSUME c < newHead', wbuf'[c] # << >>, wbuf[c] = << >> PROVE FALSE
      <4>1. ASSUME NEW s \in Sizes, AppendRecord(s) PROVE FALSE
        BY <2>1, <3>2, <4>1, AppendShape
      <4>2. ASSUME NEW f \in Flushers, Trim(f) PROVE FALSE
        BY <3>2, <4>2, TrimKeepsEmpty
      <4> QED BY <1>1, <1>3, <3>2, <4>1, <4>2, BufferFrame
    <3> QED BY <2>1, <3>1, <3>2 DEF Chunks
  <2>3. ~Torn(c)
    BY <2>1, <2>2 DEF SealInv
  <2>4. CASE UNCHANGED <<content, fsize>>
    BY <2>3, <2>4 DEF Torn
  <2> QED BY <1>1, <2>3, <2>4, DiskFrame, WholeAfterWrite
<1> QED BY <1>2, <1>3

\* A data file that ends in the torn part of a record is never written again.
THEOREM Sealed == Spec => TornFileSealed
<1>1. Init => SealInv
  BY DEF Init, SealInv, Torn
<1>2. IInv /\ SealInv /\ [Next]_vars => SealInv'
  BY NextSeal DEF IInv
<1>3. Spec => []SealInv
  BY <1>1, <1>2, Invariance, PTL DEF Spec
<1>4. IInv /\ SealInv /\ [Next]_vars
      => [\A c \in Chunks : Torn(c) => content'[c] = content[c] /\ fsize'[c] = fsize[c]]_vars
  <2> SUFFICES ASSUME IInv, SealInv, [Next]_vars, NEW c \in Chunks, Torn(c)
               PROVE  content'[c] = content[c] /\ fsize'[c] = fsize[c]
    OBVIOUS
  <2> QED BY FileChanges DEF IInv, SealInv
<1> QED BY <1>3, <1>4, Invariance, PTL DEF Spec, TornFileSealed

-----------------------------------------------------------------------------
(* No buffer is left behind *)

\* What flush has counted is what it has copied, and all it will drop.
FlushedInv ==
    /\ At("write") \/ At("sync") \/ At("trim") =>
          flushed = Start(target, irec + 1) - Start(target, 1)
    /\ At("trim") => irec = nrec

\* The goroutine of a rotated chunk flushes that chunk and all of its buffer.
RotatedInv ==
    flushLock \in Chunks =>
        /\ target = flushLock
        /\ At("write") \/ At("sync") \/ At("trim") => nrec = Len(wbuf[target])
        /\ At("account") => wbuf[target] = << >>

\* g[c] is the size of the buffers of the chunks before c.
Held(c) == writingHead[c] - Start(c, 1)
Sums(g) ==
    /\ g \in [0 .. NumChunks -> Nat]
    /\ g[0] = 0
    /\ \A c \in Chunks : g[c + 1] = g[c] + Held(c)
    /\ \A i, j \in 0 .. NumChunks : i <= j => g[i] <= g[j]

\* wbufSize is the size of all buffers and of what has been dropped from one and
\* not accounted for.
SumInv ==
    Alive => \E g : Sums(g) /\ wbufSize = g[NumChunks] + (IF At("account") THEN flushed ELSE 0)

\* A step that does not touch the flush in progress.
Untouched ==
    /\ UNCHANGED <<wbuf, writingHead, wbufSize, target, nrec, irec, flushed, flushLock, appended>>
    /\ \A x : At(x)' <=> At(x)
    /\ Alive' => Alive

\* flush's holder moves on before it has counted the buffer.
Early(f) ==
    /\ Alive /\ UNCHANGED <<wbuf, writingHead, wbufSize, target, flushLock, state>>
    /\ \A x : (At(x) <=> x = pc[f]) /\ (At(x)' => x \in {"len", "size", "count"})
    /\ pc[f] \in {"open", "len", "size"}
    /\ flushLock = f

\* The steps there are, as the flush in progress sees them.
LEMMA Kinds ==
    ASSUME TypeOK, Layout, [Next]_vars
    PROVE  \/ \E s \in Sizes : AppendRecord(s)
           \/ \E f \in Flushers : \/ FlushStart(f) \/ Early(f) \/ FlushCount(f)
                                  \/ WriteRecord(f) \/ WriteOut(f) \/ Synced(f)
                                  \/ Trim(f) \/ Account(f)
           \/ \E s \in {"closed", "down"} : StopAs(s)
           \/ Open
           \/ Untouched
<1> USE NoOneFree DEF memory, history, flushing
<1>1. pc \in [Flushers -> Steps] /\ flushLock \in Flushers \cup {NoOne} /\ LockInv
  BY DEF TypeOK, FlushingOK, Layout
<1>2. ASSUME NEW s \in Sizes, AppendPanic(s) PROVE Untouched
  <2>1. newHead \in Chunks => newHead \in Flushers /\ pc[newHead] = "idle"
    BY DataStoreAssumption DEF Layout, HeadInv, Flushers, Chunks
  <2>2. \A x : At(x)' <=> At(x)
    BY <1>1, <1>2, <2>1 DEF AppendPanic, SpawnFlush, At, LockInv, InFlush
  <2> QED BY <1>2, <2>2 DEF AppendPanic, Alive, Untouched
<1>3. CASE FlushTick \/ Close
  <2>1. \A x : At(x)' <=> At(x)
    BY <1>1, <1>3 DEF FlushTick, Close, At, LockInv, InFlush
  <2> QED BY <1>3, <2>1 DEF FlushTick, Close, Alive, Untouched
<1>4. ASSUME NEW f \in Flushers, FlushCheck(f) \/ FlushSkip(f) PROVE Untouched
  <2>1. pc[f] \notin InFlush /\ (\A g \in Flushers : g # f => pc'[g] = pc[g])
        /\ UNCHANGED flushLock
    BY <1>1, <1>4 DEF FlushCheck, FlushSkip, InFlush
  <2>2. \A x : At(x)' <=> At(x)
    BY <1>1, <2>1 DEF At, LockInv
  <2> QED BY <1>4, <2>2 DEF FlushCheck, FlushSkip, Alive, Untouched
<1>5. ASSUME NEW f \in Flushers, pc[f] \in {"open", "len", "size"}, Alive,
             NEW y \in {"len", "size", "count"}, pc' = [pc EXCEPT ![f] = y],
             UNCHANGED <<wbuf, writingHead, wbufSize, target, flushLock, state>>
      PROVE  Early(f)
  <2>1. \A x : (At(x) <=> pc[f] = x) /\ (At(x)' <=> x = y)
    BY <1>1, <1>5, HolderStep DEF InFlush
  <2>2. flushLock = f
    BY <1>1, <1>5 DEF LockInv, InFlush
  <2> QED BY <1>5, <2>1, <2>2 DEF Early
<1>6. ASSUME NEW f \in Flushers, OpenWriter(f) \/ SeeEmptyBuffer(f) PROVE Early(f)
  BY <1>5, <1>6 DEF OpenWriter, SeeEmptyBuffer
<1>7. ASSUME NEW f \in Flushers, SizeFromBuffer(f) \/ SizeFromChunk(f)
      PROVE  StopAs("down") \/ Early(f)
  <2>1. CASE Fatalf("wbuf") \/ Fatalf("size")
    BY <2>1 DEF Fatalf
  <2>2. CASE ~Fatalf("wbuf") /\ ~Fatalf("size")
    BY <1>5, <1>7, <2>2 DEF SizeFromBuffer, SizeFromChunk
  <2> QED BY <2>1, <2>2
<1>8. CASE ReadFile \/ UNCHANGED vars \/ \E r \in appended : ReadBuffer(r)
  BY <1>8 DEF ReadFile, ReadBuffer, vars, Untouched, At, Alive
<1>9. CASE Exit \/ Crash
  BY <1>9 DEF Exit, Crash
<1> QED BY <1>2, <1>3, <1>4, <1>6, <1>7, <1>8, <1>9 DEF Next

\* An append beside a flush moves no start the flush looks at.
LEMMA AppendFrame ==
    ASSUME TypeOK, Layout, NEW s \in Sizes, AppendRecord(s)
    PROVE  /\ UNCHANGED <<target, pending, nrec, irec, flushed, flushLock, state>> /\ Alive
           /\ \A x : At(x)' <=> At(x)
           /\ \A c \in Chunks : \A i \in 1 .. Len(wbuf[c]) + 1 : Start(c, i)' = Start(c, i)
           /\ flushLock \in Chunks => flushLock # newHead'
           /\ wbufSize' = wbufSize + s
<1>1. pc \in [Flushers -> Steps] /\ flushLock \in Flushers \cup {NoOne} /\ LockInv /\ HeadInv
      /\ newHead \in Int
  BY DataStoreAssumption DEF TypeOK, FlushingOK, MemoryOK, Layout
<1>2. newHead \in Chunks /\ newHead \in Flushers /\ pc[newHead] = "idle"
  BY <1>1, AppendShape DEF HeadInv, Flushers, Chunks
<1>3. \A x : At(x)' <=> At(x)
  BY <1>1, <1>2, NoOneFree DEF AppendRecord, SpawnFlush, At, LockInv, InFlush
<1>4. ASSUME flushLock \in Chunks PROVE flushLock # newHead'
  <2>1. pc[flushLock] \in InFlush
    BY <1>1, <1>4 DEF LockInv, Flushers
  <2>2. flushLock < newHead
    BY <1>1, <1>4, <2>1 DEF HeadInv, InFlush, Chunks
  <2> QED BY <1>1, <1>4, <2>2, AppendShape DEF Chunks
<1>5. PICK h \in Chunks : h = newHead'
  BY AppendShape
<1>6. PICK r \in Records : /\ r.chunk = h /\ r.off = writingHead[h] /\ r.size = s
                           /\ wbuf'[h] = Append(wbuf[h], r)
  BY <1>5, AppendShape
<1>7. /\ writingHead'[h] = writingHead[h] + s
      /\ \A c \in Chunks : c # h => wbuf'[c] = wbuf[c] /\ writingHead'[c] = writingHead[c]
  BY <1>5, AppendShape
<1>8. \A i \in 1 .. Len(wbuf[h]) + 1 : Start(h, i)' = Start(h, i)
  <2>1. wbuf[h] \in Seq(Records) /\ writingHead[h] \in Nat /\ Laid(wbuf[h], writingHead[h], h)
    BY ReadTypes
  <2>2. \A i \in 1 .. Len(wbuf[h]) + 1 :
           StartIn(Append(wbuf[h], r), writingHead[h] + r.size, i)
              = StartIn(wbuf[h], writingHead[h], i)
    BY <1>6, <2>1, LaidAppend
  <2> QED BY <1>6, <1>7, <2>2 DEF Start
<1>9. ASSUME NEW c \in Chunks, c # h, NEW i PROVE Start(c, i)' = Start(c, i)
  BY <1>7, <1>9 DEF Start
<1> QED BY <1>3, <1>4, <1>8, <1>9 DEF AppendRecord

\* What the lemmas below use of the types.
LEMMA FlushTypes ==
    ASSUME TypeOK, Layout
    PROVE  /\ target \in Chunks /\ nrec \in Nat /\ irec \in Nat /\ flushed \in Nat
           /\ pc \in [Flushers -> Steps] /\ flushLock \in Flushers \cup {NoOne}
           /\ Chunks \subseteq Flushers /\ LockInv /\ WriterInv /\ HeadInv
           /\ wbufSize \in Int /\ wbuf \in [Chunks -> Seq(Records)]
           /\ Chunks = 0 .. NumChunks - 1 /\ NumChunks \in Nat \ {0}
BY DataStoreAssumption DEF TypeOK, FlushingOK, MemoryOK, Layout, Flushers, Chunks

\* Starts are numbers, in order, and a buffer that is not empty has a size.
LEMMA StartFacts ==
    ASSUME TypeOK, Layout, NEW c \in Chunks
    PROVE  /\ writingHead[c] \in Nat
           /\ \A i \in Nat \ {0} : Start(c, i) \in Nat
           /\ \A n \in Nat : n <= Len(wbuf[c]) =>
                 Start(c, 1) <= Start(c, n + 1) /\ Start(c, n + 1) <= writingHead[c]
           /\ \A n \in Nat : n < Len(wbuf[c]) =>
                 Start(c, n + 2) = Start(c, n + 1) + wbuf[c][n + 1].size
           /\ wbuf[c] # << >> => Held(c) > 0
           /\ wbuf[c] = << >> => Held(c) = 0
           /\ Held(c) \in Nat
<1> DEFINE b == wbuf[c]
           w == writingHead[c]
<1>1. /\ b \in Seq(Records) /\ w \in Nat /\ Laid(b, w, c) /\ Len(b) \in Nat
      /\ \A i \in 1 .. Len(b) : b[i] \in Records /\ b[i].off \in Nat /\ b[i].size \in Nat \ {0}
  BY ReadTypes
<1> HIDE DEF b, w
<1>2. \A i \in Nat \ {0} : StartIn(b, w, i) \in Nat
  BY <1>1 DEF StartIn
<1>3. \A n \in Nat : n <= Len(b) => StartIn(b, w, 1) <= StartIn(b, w, n + 1) /\ StartIn(b, w, n + 1) <= w
  BY <1>1, StartBounds
<1>4. ASSUME NEW n \in Nat, n < Len(b) PROVE StartIn(b, w, n + 2) = StartIn(b, w, n + 1) + b[n + 1].size
  <2>1. n + 1 \in 1 .. Len(b) /\ (n + 1) + 1 = n + 2
    BY <1>1, <1>4
  <2>2. b[n + 1].off + b[n + 1].size = StartIn(b, w, (n + 1) + 1)
    BY <1>1, <2>1 DEF Laid
  <2>3. StartIn(b, w, n + 1) = b[n + 1].off
    BY <1>1, <2>1 DEF StartIn
  <2> QED BY <2>1, <2>2, <2>3
<1>5. ASSUME b # << >> PROVE w - StartIn(b, w, 1) > 0
  <2>1. 1 \in 1 .. Len(b)
    BY <1>1, <1>5, EmptySeq
  <2>2. StartIn(b, w, 1) = b[1].off /\ b[1].off + b[1].size <= w
    BY <1>1, <2>1 DEF StartIn, Laid
  <2> QED BY <1>1, <2>1, <2>2
<1>6. ASSUME b = << >> PROVE w - StartIn(b, w, 1) = 0
  <2>1. Len(b) = 0
    BY <1>6, EmptySeq
  <2> QED BY <1>1, <2>1 DEF StartIn
<1>7. w - StartIn(b, w, 1) \in Nat
  <2>1. 0 \in Nat /\ 0 <= Len(b) /\ 0 + 1 = 1
    BY <1>1
  <2>2. StartIn(b, w, 1) <= w /\ StartIn(b, w, 1) \in Nat
    BY <1>2, <1>3, <2>1
  <2> QED BY <1>1, <2>2
<1> QED BY <1>1, <1>2, <1>3, <1>4, <1>5, <1>6, <1>7 DEF Start, Held, b, w

\* flush counts exactly what it copies.
LEMMA NextFlushed == TypeOK /\ Layout /\ FlushedInv /\ [Next]_vars => FlushedInv'
<1> SUFFICES ASSUME TypeOK, Layout, FlushedInv, [Next]_vars PROVE FlushedInv'
  OBVIOUS
<1>1. ASSUME \A x \in {"write", "sync", "trim"} : ~At(x)' PROVE FlushedInv'
  BY <1>1 DEF FlushedInv
<1>2. ASSUME UNCHANGED <<wbuf, writingHead, target, nrec, irec, flushed>>,
             At("write")' \/ At("sync")' \/ At("trim")' => At("write") \/ At("sync") \/ At("trim"),
             At("trim")' => irec = nrec
      PROVE  FlushedInv'
  BY <1>2 DEF FlushedInv, Start
<1>3. ASSUME NEW s \in Sizes, AppendRecord(s) PROVE FlushedInv'
  <2>1. /\ UNCHANGED <<target, pending, nrec, irec, flushed, flushLock, state>>
        /\ \A x : At(x)' <=> At(x)
        /\ \A i \in 1 .. Len(wbuf[target]) + 1 : Start(target, i)' = StartIn(wbuf'[target], writingHead'[target], i)
        /\ \A i \in 1 .. Len(wbuf[target]) + 1 : StartIn(wbuf'[target], writingHead'[target], i) = Start(target, i)
    BY <1>3, AppendFrame, FlushTypes DEF Start
  <2>2. At("write") \/ At("sync") \/ At("trim") =>
          irec + 1 \in 1 .. Len(wbuf[target]) + 1 /\ 1 \in 1 .. Len(wbuf[target]) + 1
    <3>1. Len(wbuf[target]) \in Nat
      BY ReadTypes
    <3> QED BY <3>1, FlushTypes DEF FlushedInv, WriterInv
  <2> QED BY <2>1, <2>2 DEF FlushedInv, Start
<1>4. ASSUME NEW f \in Flushers, FlushStart(f) PROVE FlushedInv'
  BY <1>1, <1>4, FlushTypes, NoOneFree DEF FlushStart, At
<1>5. ASSUME NEW f \in Flushers, Early(f) PROVE FlushedInv'
  BY <1>1, <1>5 DEF Early
<1>6. ASSUME NEW f \in Flushers, FlushCount(f) PROVE FlushedInv'
  <2>1. UNCHANGED <<wbuf, writingHead, target>> /\ irec' = 0 /\ flushed' = 0
    BY <1>6 DEF FlushCount, memory
  <2>2. ~At("trim")'
    BY <1>6, FlushTypes, HolderStep DEF FlushCount, InFlush
  <2>3. Start(target, 1) \in Nat
    BY StartFacts, FlushTypes
  <2>4. Start(target, irec + 1)' = Start(target, 1) /\ Start(target, 1)' = Start(target, 1)
    BY <2>1 DEF Start
  <2> QED BY <2>1, <2>2, <2>3, <2>4 DEF FlushedInv
<1>7. ASSUME NEW f \in Flushers, WriteRecord(f) PROVE FlushedInv'
  <2>1. /\ UNCHANGED <<wbuf, writingHead, target>> /\ irec' = irec + 1
        /\ flushed' = flushed + wbuf[target][irec + 1].size
    BY <1>7 DEF WriteRecord, memory
  <2>2. ~At("trim")' /\ At("write")
    <3> DEFINE y == IF irec + 1 = nrec THEN "sync" ELSE "write"
    <3>1. pc' = [pc EXCEPT ![f] = y] /\ pc[f] = "write" /\ UNCHANGED flushLock /\ y # "trim"
      BY <1>7 DEF WriteRecord
    <3> HIDE DEF y
    <3>2. \A x : (At(x) <=> pc[f] = x) /\ (At(x)' <=> x = y)
      BY <3>1, FlushTypes, HolderStep DEF InFlush
    <3> QED BY <3>1, <3>2
  <2>3. irec < Len(wbuf[target])
    <3>1. Len(wbuf[target]) \in Nat
      BY ReadTypes
    <3> QED BY <2>2, <3>1, FlushTypes DEF WriterInv
  <2>4. /\ Start(target, irec + 2) = Start(target, irec + 1) + wbuf[target][irec + 1].size
        /\ Start(target, 1) \in Nat /\ Start(target, irec + 1) \in Nat
    <3>1. target \in Chunks /\ irec \in Nat /\ irec + 1 \in Nat \ {0} /\ 1 \in Nat \ {0}
      BY FlushTypes
    <3> QED BY <2>3, <3>1, StartFacts
  <2>5. irec' + 1 = irec + 2 /\ wbuf[target][irec + 1].size \in Nat
    <3>1. irec + 1 \in 1 .. Len(wbuf[target])
      BY <2>3, FlushTypes, ReadTypes
    <3> QED BY <2>1, <3>1, FlushTypes, ReadTypes
  <2>6. Start(target, irec + 1)' = Start(target, irec + 2) /\ Start(target, 1)' = Start(target, 1)
    BY <2>1, <2>5 DEF Start
  <2> QED BY <2>1, <2>2, <2>4, <2>5, <2>6 DEF FlushedInv
<1>8. ASSUME NEW f \in Flushers, WriteOut(f) PROVE FlushedInv'
  <2>1. \A x : (At(x) <=> x = pc[f]) /\ (At(x)' <=> x = pc[f])
    BY <1>8, FlushTypes, Holder DEF WriteOut, InFlush, At
  <2> QED BY <1>2, <1>8, <2>1 DEF WriteOut, memory
<1>9. ASSUME NEW f \in Flushers, Synced(f) PROVE FlushedInv'
  <2>1. \A x : (At(x) <=> x = "sync") /\ (At(x)' <=> x = "trim")
    BY <1>9, FlushTypes, HolderStep DEF Synced, InFlush
  <2> QED BY <1>2, <1>9, <2>1, FlushTypes DEF Synced, memory, WriterInv
<1>10. ASSUME NEW f \in Flushers, Trim(f) PROVE FlushedInv'
  BY <1>1, <1>10, FlushTypes, HolderStep DEF Trim, InFlush
<1>11. ASSUME flushLock' = NoOne PROVE FlushedInv'
  BY <1>1, <1>11 DEF At
<1>12. ASSUME NEW s \in {"closed", "down"}, StopAs(s) PROVE FlushedInv'
  BY <1>11, <1>12 DEF StopAs
<1>13. ASSUME NEW f \in Flushers, Account(f) PROVE FlushedInv'
  BY <1>11, <1>13 DEF Account
<1>14. CASE Open
  BY <1>11, <1>14, FlushTypes DEF Open, LockInv, Alive, flushing
<1>15. CASE Untouched
  BY <1>2, <1>15 DEF Untouched, FlushedInv
<1> QED BY <1>3, <1>4, <1>5, <1>6, <1>7, <1>8, <1>9, <1>10, <1>12, <1>13, <1>14, <1>15, Kinds


\* A rotated chunk gets no records, so its goroutine flushes all of them.
LEMMA NextRotated == TypeOK /\ Layout /\ FlushedInv /\ RotatedInv /\ [Next]_vars => RotatedInv'
<1> SUFFICES ASSUME TypeOK, Layout, FlushedInv, RotatedInv, [Next]_vars, flushLock' \in Chunks
             PROVE  /\ target' = flushLock'
                    /\ At("write")' \/ At("sync")' \/ At("trim")' => nrec' = Len(wbuf'[target'])
                    /\ At("account")' => wbuf'[target'] = << >>
  BY DEF RotatedInv
<1> DEFINE Goal == /\ target' = flushLock'
                   /\ At("write")' \/ At("sync")' \/ At("trim")' => nrec' = Len(wbuf'[target'])
                   /\ At("account")' => wbuf'[target'] = << >>
<1>1. flushLock' # NoOne
  BY NoOneFree, FlushTypes
<1>2. ASSUME UNCHANGED <<target, nrec, flushLock>>, wbuf'[target] = wbuf[target],
             At("account")' => At("account"),
             At("write")' \/ At("sync")' \/ At("trim")' => At("write") \/ At("sync") \/ At("trim")
      PROVE  Goal
  BY <1>2 DEF RotatedInv
<1>3. ASSUME NEW s \in Sizes, AppendRecord(s) PROVE Goal
  <2>1. UNCHANGED <<target, nrec, flushLock>> /\ (\A x : At(x)' <=> At(x)) /\ flushLock # newHead'
    BY <1>3, AppendFrame
  <2>2. wbuf'[target] = wbuf[target]
    BY <1>3, <2>1, AppendShape, FlushTypes DEF RotatedInv
  <2> QED BY <1>2, <2>1, <2>2
<1>4. ASSUME NEW f \in Flushers, FlushStart(f) PROVE Goal
  <2>1. \A x : At(x)' <=> x = "open"
    BY <1>4, FlushTypes, NoOneFree DEF FlushStart, At
  <2> QED BY <1>4, <2>1 DEF FlushStart
<1>5. ASSUME NEW f \in Flushers, Early(f) PROVE Goal
  BY <1>5 DEF Early, RotatedInv
<1>6. ASSUME NEW f \in Flushers, FlushCount(f) PROVE Goal
  <2> DEFINE y == IF wbuf[target] = << >> THEN "sync" ELSE "write"
  <2>1. \A x : (At(x) <=> x = "count") /\ (At(x)' <=> x = y)
    BY <1>6, FlushTypes, HolderStep DEF FlushCount, InFlush
  <2> QED BY <1>6, <2>1 DEF FlushCount, memory, RotatedInv
<1>7. ASSUME NEW f \in Flushers, WriteRecord(f) PROVE Goal
  <2> DEFINE y == IF irec + 1 = nrec THEN "sync" ELSE "write"
  <2>1. pc' = [pc EXCEPT ![f] = y] /\ pc[f] = "write" /\ UNCHANGED flushLock
        /\ y \notin {"trim", "account"}
    BY <1>7 DEF WriteRecord
  <2> HIDE DEF y
  <2>2. \A x : (At(x) <=> pc[f] = x) /\ (At(x)' <=> x = y)
    BY <2>1, FlushTypes, HolderStep DEF InFlush
  <2> QED BY <1>2, <1>7, <2>1, <2>2 DEF WriteRecord, memory
<1>8. ASSUME NEW f \in Flushers, WriteOut(f) PROVE Goal
  BY <1>2, <1>8 DEF WriteOut, At, memory
<1>9. ASSUME NEW f \in Flushers, Synced(f) PROVE Goal
  <2>1. \A x : (At(x) <=> x = "sync") /\ (At(x)' <=> x = "trim")
    BY <1>9, FlushTypes, HolderStep DEF Synced, InFlush
  <2> QED BY <1>2, <1>9, <2>1 DEF Synced, memory
<1>10. ASSUME NEW f \in Flushers, Trim(f) PROVE Goal
  <2>1. \A x : (At(x) <=> x = "trim") /\ (At(x)' <=> x = "account")
    BY <1>10, FlushTypes, HolderStep DEF Trim, InFlush
  <2>2. UNCHANGED <<target, flushLock>>
    BY <1>10 DEF Trim
  <2>3. nrec = Len(wbuf[target]) /\ target = flushLock
    BY <2>1, <2>2 DEF RotatedInv
  <2>4. wbuf'[target] = SubSeq(wbuf[target], nrec + 1, nrec) /\ nrec \in Nat
    BY <1>10, <2>3, TrimBound
  <2>5. wbuf'[target] = << >>
    BY <2>4, SubSeqEmpty
  <2> QED BY <2>1, <2>2, <2>3, <2>5
<1>11. ASSUME NEW s \in {"closed", "down"}, StopAs(s) PROVE Goal
  BY <1>1, <1>11 DEF StopAs
<1>12. ASSUME NEW f \in Flushers, Account(f) PROVE Goal
  BY <1>1, <1>12 DEF Account
<1>13. CASE Open
  BY <1>1, <1>13, FlushTypes DEF Open, LockInv, Alive, flushing
<1>14. CASE Untouched
  BY <1>2, <1>14 DEF Untouched
<1> QED BY <1>3, <1>4, <1>5, <1>6, <1>7, <1>8, <1>9, <1>10, <1>11, <1>12, <1>13, <1>14, Kinds

\* One buffer grows or shrinks: all sums from its chunk on do.
LEMMA SumsChange ==
    ASSUME NumChunks \in Nat \ {0}, NEW g, Sums(g), NEW h \in Chunks, NEW d \in Int,
           \A c \in Chunks : Held(c) \in Nat,
           \A c \in Chunks : c # h => Held(c)' = Held(c),
           Held(h)' = Held(h) + d, Held(h) + d \in Nat
    PROVE  \E k : Sums(k)' /\ k[NumChunks] = g[NumChunks] + d
<1> DEFINE k == [n \in 0 .. NumChunks |-> IF n > h THEN g[n] + d ELSE g[n]]
<1>1. /\ g \in [0 .. NumChunks -> Nat] /\ g[0] = 0
      /\ \A c \in Chunks : g[c + 1] = g[c] + Held(c)
      /\ \A i, j \in 0 .. NumChunks : i <= j => g[i] <= g[j]
      /\ Chunks = 0 .. NumChunks - 1
  BY DEF Sums, Chunks
<1>2. g[h] \in Nat /\ g[h + 1] = g[h] + Held(h) /\ h + 1 \in 0 .. NumChunks
      /\ h \in 0 .. NumChunks
  BY <1>1
<1>3. \A n \in 0 .. NumChunks : k[n] = IF n > h THEN g[n] + d ELSE g[n]
  OBVIOUS
<1>4. \A n \in 0 .. NumChunks : g[n] \in Nat
  BY <1>1
<1>5. ASSUME NEW n \in 0 .. NumChunks, n > h PROVE g[n] + d \in Nat /\ g[h] <= g[n] + d
  <2>1. g[h + 1] <= g[n]
    BY <1>1, <1>2, <1>5
  <2> QED BY <1>2, <1>4, <2>1
<1>6. k \in [0 .. NumChunks -> Nat]
  BY <1>4, <1>5
<1> HIDE DEF k
<1>7. k[0] = 0 /\ k[NumChunks] = g[NumChunks] + d
  <2>1. 0 \in 0 .. NumChunks /\ NumChunks \in 0 .. NumChunks /\ ~(0 > h) /\ NumChunks > h
    BY <1>1
  <2> QED BY <1>1, <1>3, <2>1
<1>8. ASSUME NEW c \in Chunks PROVE k[c + 1] = k[c] + Held(c)'
  <2>1. c \in 0 .. NumChunks /\ c + 1 \in 0 .. NumChunks /\ g[c] \in Nat /\ g[c + 1] = g[c] + Held(c)
        /\ Held(c) \in Nat
    BY <1>1, <1>4
  <2>2. CASE c = h
    BY <1>3, <2>1, <2>2
  <2>3. CASE c < h
    BY <1>3, <2>1, <2>3
  <2>4. CASE c > h
    BY <1>3, <2>1, <2>4
  <2> QED BY <1>1, <2>2, <2>3, <2>4
<1>9. ASSUME NEW i \in 0 .. NumChunks, NEW j \in 0 .. NumChunks, i <= j PROVE k[i] <= k[j]
  <2>1. g[i] <= g[j] /\ g[i] \in Nat /\ g[j] \in Nat
    BY <1>1, <1>4, <1>9
  <2>0. i \in Int /\ j \in Int /\ h \in Int
    BY <1>2
  <2>2. CASE i > h
    BY <1>3, <1>9, <2>0, <2>1, <2>2
  <2>4. CASE j <= h
    BY <1>3, <1>9, <2>0, <2>1, <2>4
  <2>3. CASE i <= h /\ j > h
    <3>1. g[i] <= g[h] /\ g[h] <= g[j] + d
      BY <1>1, <1>2, <1>5, <2>3
    <3> QED BY <1>2, <1>3, <2>1, <2>3, <3>1
  <2> QED BY <2>0, <2>2, <2>3, <2>4
<1>10. Sums(k)'
  BY <1>6, <1>7, <1>8, <1>9 DEF Sums
<1> QED BY <1>7, <1>10

\* Sums depend on the buffers alone.
LEMMA SumsKept ==
    ASSUME NEW g, Sums(g), \A c \in Chunks : Held(c)' = Held(c)
    PROVE  Sums(g)'
BY DEF Sums

\* With all buffers empty there is nothing to sum.
LEMMA SumsEmpty ==
    ASSUME NumChunks \in Nat \ {0}, \A c \in Chunks : Held(c) = 0
    PROVE  \E g : Sums(g) /\ g[NumChunks] = 0
<1> DEFINE g == [n \in 0 .. NumChunks |-> 0]
<1>1. \A n \in 0 .. NumChunks : g[n] = 0
  OBVIOUS
<1>2. g \in [0 .. NumChunks -> Nat]
  OBVIOUS
<1> HIDE DEF g
<1>3. \A c \in Chunks : c \in 0 .. NumChunks /\ c + 1 \in 0 .. NumChunks
  BY DEF Chunks
<1>4. 0 \in 0 .. NumChunks /\ NumChunks \in 0 .. NumChunks
  OBVIOUS
<1> QED BY <1>1, <1>2, <1>3, <1>4 DEF Sums

\* Every step accounts for what it buffers and drops.
LEMMA NextSum == TypeOK /\ Layout /\ FlushedInv /\ SumInv /\ [Next]_vars => SumInv'
<1> SUFFICES ASSUME TypeOK, Layout, FlushedInv, SumInv, [Next]_vars, Alive' PROVE SumInv'
  BY DEF SumInv
<1>0. NumChunks \in Nat \ {0} /\ flushed \in Nat /\ wbufSize \in Int /\ target \in Chunks
  BY FlushTypes
<1>1. \A c \in Chunks : Held(c) \in Nat
  BY StartFacts
<1>2. ASSUME Alive, UNCHANGED <<wbuf, writingHead, wbufSize>>, ~At("account"), ~At("account")'
      PROVE  SumInv'
  <2>1. PICK g : Sums(g) /\ wbufSize = g[NumChunks] + 0
    BY <1>2 DEF SumInv
  <2>2. \A c \in Chunks : Held(c)' = Held(c)
    BY <1>2 DEF Held, Start
  <2>3. Sums(g)'
    BY <2>1, <2>2, SumsKept
  <2> QED BY <1>2, <2>1, <2>3 DEF SumInv
<1>3. ASSUME NEW s \in Sizes, AppendRecord(s) PROVE SumInv'
  <2>1. PICK h \in Chunks : h = newHead'
    BY <1>3, AppendShape
  <2>2. /\ Alive /\ UNCHANGED flushed /\ (At("account")' <=> At("account"))
        /\ wbufSize' = wbufSize + s
        /\ \A c \in Chunks : \A i \in 1 .. Len(wbuf[c]) + 1 : Start(c, i)' = Start(c, i)
    BY <1>3, AppendFrame
  <2>3. \A c \in Chunks : Start(c, 1)' = Start(c, 1)
    <3>1. \A c \in Chunks : 1 \in 1 .. Len(wbuf[c]) + 1
      BY ReadTypes
    <3> QED BY <2>2, <3>1
  <2>4. /\ writingHead'[h] = writingHead[h] + s
        /\ \A c \in Chunks : c # h => writingHead'[c] = writingHead[c]
    BY <1>3, <2>1, AppendShape
  <2>5. s \in Nat
    BY DataStoreAssumption
  <2>6. \A c \in Chunks : c # h => Held(c)' = Held(c)
    BY <2>3, <2>4 DEF Held
  <2>7. Held(h)' = Held(h) + s /\ Held(h) + s \in Nat
    <3>1. writingHead[h] \in Nat /\ Start(h, 1) \in Nat
      BY StartFacts
    <3>2. Held(h)' = (writingHead[h] + s) - Start(h, 1)
      BY <2>3, <2>4 DEF Held
    <3>3. Held(h) = writingHead[h] - Start(h, 1)
      BY DEF Held
    <3> QED BY <1>1, <2>5, <3>1, <3>2, <3>3
  <2>8. PICK g : Sums(g) /\ wbufSize = g[NumChunks] + (IF At("account") THEN flushed ELSE 0)
    BY <2>2 DEF SumInv
  <2>9. PICK k : Sums(k)' /\ k[NumChunks] = g[NumChunks] + s
    BY <1>0, <1>1, <2>5, <2>6, <2>7, <2>8, SumsChange
  <2>10. g[NumChunks] \in Nat
    BY <1>0, <2>8 DEF Sums
  <2>11. wbufSize' = k[NumChunks] + (IF At("account")' THEN flushed' ELSE 0)
    BY <1>0, <2>2, <2>5, <2>8, <2>9, <2>10
  <2> QED BY <2>9, <2>11 DEF SumInv
<1>4. ASSUME NEW f \in Flushers, FlushStart(f) PROVE SumInv'
  <2>1. ~At("account") /\ ~At("account")'
    BY <1>4, FlushTypes, NoOneFree DEF FlushStart, At
  <2> QED BY <1>2, <1>4, <2>1 DEF FlushStart, memory
<1>5. ASSUME NEW f \in Flushers, Early(f) PROVE SumInv'
  BY <1>2, <1>5 DEF Early
<1>6. ASSUME NEW f \in Flushers, FlushCount(f) \/ Synced(f) PROVE SumInv'
  <2>1. PICK y \in {"write", "sync", "trim"} : pc' = [pc EXCEPT ![f] = y]
    BY <1>6 DEF FlushCount, Synced
  <2>2. pc[f] \in {"count", "sync"} /\ UNCHANGED <<flushLock, wbuf, writingHead, wbufSize>> /\ Alive
    BY <1>6 DEF FlushCount, Synced, memory
  <2>3. \A x : (At(x) <=> pc[f] = x) /\ (At(x)' <=> x = y)
    BY <2>1, <2>2, FlushTypes, HolderStep DEF InFlush
  <2> QED BY <1>2, <2>1, <2>2, <2>3
<1>7. ASSUME NEW f \in Flushers, WriteRecord(f) PROVE SumInv'
  <2>1. PICK y \in {"write", "sync"} : pc' = [pc EXCEPT ![f] = y]
    BY <1>7 DEF WriteRecord
  <2>2. pc[f] = "write" /\ UNCHANGED <<flushLock, wbuf, writingHead, wbufSize>> /\ Alive
    BY <1>7 DEF WriteRecord, memory
  <2>3. \A x : (At(x) <=> pc[f] = x) /\ (At(x)' <=> x = y)
    BY <2>1, <2>2, FlushTypes, HolderStep DEF InFlush
  <2> QED BY <1>2, <2>1, <2>2, <2>3
<1>8. ASSUME NEW f \in Flushers, WriteOut(f) PROVE SumInv'
  <2>1. \A x : (At(x) <=> x = pc[f]) /\ (At(x)' <=> x = pc[f])
    BY <1>8, FlushTypes, Holder DEF WriteOut, InFlush, At
  <2> QED BY <1>2, <1>8, <2>1 DEF WriteOut, memory
<1>9. ASSUME NEW f \in Flushers, Trim(f) PROVE SumInv'
  <2>1. \A x : (At(x) <=> x = "trim") /\ (At(x)' <=> x = "account")
    BY <1>9, FlushTypes, HolderStep DEF Trim, InFlush
  <2>2. UNCHANGED <<target, writingHead, wbufSize, flushed>> /\ Alive
    BY <1>9 DEF Trim
  <2>3. /\ nrec \in Nat /\ nrec <= Len(wbuf[target])
        /\ wbuf'[target] = SubSeq(wbuf[target], nrec + 1, Len(wbuf[target]))
        /\ \A c \in Chunks : c # target => wbuf'[c] = wbuf[c]
    BY <1>9, TrimBound
  <2>4. flushed = Start(target, nrec + 1) - Start(target, 1)
    BY <2>1 DEF FlushedInv
  <2>5. Start(target, 1)' = Start(target, nrec + 1)
    <3>1. StartIn(wbuf'[target], writingHead[target], 1)
             = StartIn(wbuf[target], writingHead[target], 1 + nrec)
      BY <1>0, <2>3, ReadTypes, DropStart
    <3>2. 1 + nrec = nrec + 1
      BY <2>3
    <3> QED BY <2>2, <3>1, <3>2 DEF Start
  <2>6. PICK t \in Chunks : t = target
    BY <1>0
  <2>7. \A c \in Chunks : c # t => Held(c)' = Held(c)
    BY <2>2, <2>3, <2>6 DEF Held, Start
  <2>8. Held(t)' = Held(t) + (0 - flushed) /\ Held(t) + (0 - flushed) \in Nat
    <3>1. /\ writingHead[t] \in Nat /\ Start(t, 1) \in Nat /\ Start(t, nrec + 1) \in Nat
          /\ Start(t, nrec + 1) <= writingHead[t]
      <4>1. nrec + 1 \in Nat \ {0} /\ 1 \in Nat \ {0}
        BY <2>3
      <4> QED BY <2>3, <2>6, <4>1, StartFacts
    <3>2. Held(t)' = writingHead[t] - Start(t, nrec + 1)
      BY <2>2, <2>5, <2>6 DEF Held
    <3>3. Held(t) = writingHead[t] - Start(t, 1) /\ flushed = Start(t, nrec + 1) - Start(t, 1)
      BY <2>4, <2>6 DEF Held
    <3> QED BY <3>1, <3>2, <3>3
  <2>9. PICK g : Sums(g) /\ wbufSize = g[NumChunks] + 0
    BY <2>1, <2>2 DEF SumInv
  <2>10. PICK k : Sums(k)' /\ k[NumChunks] = g[NumChunks] + (0 - flushed)
    <3>1. 0 - flushed \in Int
      BY <1>0
    <3> QED BY <1>0, <1>1, <2>7, <2>8, <2>9, <3>1, SumsChange
  <2>11. g[NumChunks] \in Nat
    BY <1>0, <2>9 DEF Sums
  <2>12. wbufSize' = k[NumChunks] + flushed'
    BY <1>0, <2>2, <2>9, <2>10, <2>11
  <2> QED BY <2>1, <2>10, <2>12 DEF SumInv
<1>10. ASSUME NEW f \in Flushers, Account(f) PROVE SumInv'
  <2>1. At("account") /\ ~At("account")'
    BY <1>10, FlushTypes, Holder DEF Account, InFlush, At
  <2>2. UNCHANGED <<wbuf, writingHead>> /\ wbufSize' = wbufSize - flushed /\ Alive
    BY <1>10 DEF Account
  <2>3. PICK g : Sums(g) /\ wbufSize = g[NumChunks] + flushed
    BY <2>1, <2>2 DEF SumInv
  <2>4. \A c \in Chunks : Held(c)' = Held(c)
    BY <2>2 DEF Held, Start
  <2>5. Sums(g)'
    BY <2>3, <2>4, SumsKept
  <2>6. g[NumChunks] \in Nat
    BY <1>0, <2>3 DEF Sums
  <2>7. wbufSize' = g[NumChunks] + 0
    BY <1>0, <2>2, <2>3, <2>6
  <2> QED BY <2>1, <2>5, <2>7 DEF SumInv
<1>11. ASSUME NEW s \in {"closed", "down"}, StopAs(s) PROVE SumInv'
  BY <1>11 DEF StopAs, Alive
<1>12. CASE Open
  <2>1. /\ flushLock' = NoOne /\ wbufSize' = 0
        /\ \A c \in Chunks : wbuf'[c] = << >>
    BY <1>12, FlushTypes DEF Open, LockInv, Alive, flushing
  <2>2. \A c \in Chunks : writingHead'[c] \in Nat
    BY <1>12 DEF Open, TypeOK, DiskOK, MemoryOK
  <2>3. \A c \in Chunks : Held(c)' = 0
    BY <2>1, <2>2, EmptySeq DEF Held, Start, StartIn
  <2>4. PICK g : Sums(g)' /\ g[NumChunks] = 0
    <3> DEFINE g == [n \in 0 .. NumChunks |-> 0]
    <3>1. Sums(g)'
      BY <1>0, <2>3 DEF Sums, Chunks
    <3> QED BY <1>0, <3>1
  <2>5. ~At("account")'
    BY <2>1 DEF At
  <2> QED BY <2>1, <2>4, <2>5 DEF SumInv
<1>13. CASE Untouched
  <2>1. PICK g : Sums(g) /\ wbufSize = g[NumChunks] + (IF At("account") THEN flushed ELSE 0)
    BY <1>13 DEF Untouched, SumInv
  <2>2. \A c \in Chunks : Held(c)' = Held(c)
    BY <1>13 DEF Untouched, Held, Start
  <2>3. Sums(g)'
    BY <2>1, <2>2, SumsKept
  <2> QED BY <1>13, <2>1, <2>3 DEF Untouched, SumInv
<1> QED BY <1>3, <1>4, <1>5, <1>6, <1>7, <1>8, <1>9, <1>10, <1>11, <1>12, <1>13, Kinds

\* A wbufSize of 0, which ends flush, means that nothing is buffered.
LEMMA ZeroIsEmpty ==
    ASSUME TypeOK, Layout, SumInv, Alive, wbufSize = 0, NEW c \in Chunks
    PROVE  wbuf[c] = << >>
<1>1. PICK g : Sums(g) /\ wbufSize = g[NumChunks] + (IF At("account") THEN flushed ELSE 0)
  BY DEF SumInv
<1>2. /\ NumChunks \in Nat \ {0} /\ flushed \in Nat /\ c \in 0 .. NumChunks /\ c + 1 \in 0 .. NumChunks
      /\ NumChunks \in 0 .. NumChunks /\ c + 1 <= NumChunks
  BY FlushTypes
<1>3. /\ g[c] \in Nat /\ g[c + 1] \in Nat /\ g[NumChunks] \in Nat
      /\ g[c + 1] = g[c] + Held(c) /\ g[c + 1] <= g[NumChunks]
  BY <1>1, <1>2 DEF Sums
<1>4. Held(c) \in Nat /\ (wbuf[c] # << >> => Held(c) > 0)
  BY StartFacts
<1> QED BY <1>1, <1>2, <1>3, <1>4

\* Every step keeps a flush goroutine on its way to every rotated buffer.
LEMMA NextHasFlusher ==
    TypeOK /\ Layout /\ RotatedInv /\ SumInv /\ RotatedBufferHasFlusher /\ [Next]_vars
        => RotatedBufferHasFlusher'
<1> SUFFICES ASSUME TypeOK, Layout, RotatedInv, SumInv, RotatedBufferHasFlusher, [Next]_vars,
                    Alive', NEW c \in Chunks, c # newHead', wbuf'[c] # << >>
             PROVE  pc'[c] # "idle"
  BY DEF RotatedBufferHasFlusher
<1>0. pc \in [Flushers -> Steps] /\ c \in Flushers /\ LockInv /\ Bg \notin Chunks /\ Closer \notin Chunks
      /\ Chunks = 0 .. NumChunks - 1 /\ NumChunks \in Nat \ {0}
  BY FlushTypes DEF Bg, Closer
<1> USE DEF memory
<1>1. ASSUME Alive, wbuf[c] # << >>, c # newHead PROVE pc[c] # "idle"
  BY <1>1 DEF RotatedBufferHasFlusher
<1>2. ASSUME NEW s \in {"closed", "down"}, StopAs(s) PROVE FALSE
  BY <1>2 DEF StopAs, Alive
<1>3. ASSUME NEW s, SpawnFlush(s), Alive, wbuf[c] # << >>, newHead \in Chunks,
             c = newHead => Rotates(s)
      PROVE  pc'[c] # "idle"
  <2>1. wbufSize # 0
    BY <1>3, ZeroIsEmpty
  <2> QED BY <1>0, <1>1, <1>3, <2>1 DEF SpawnFlush
<1>4. ASSUME NEW s \in Sizes, AppendRecord(s) PROVE pc'[c] # "idle"
  <2>1. wbuf[c] # << >>
    BY <1>4, AppendShape
  <2>2. c = newHead => Rotates(s)
    BY <1>4 DEF AppendRecord, HeadFor
  <2> QED BY <1>3, <1>4, <2>1, <2>2 DEF AppendRecord
<1>5. ASSUME NEW s \in Sizes, AppendPanic(s) PROVE pc'[c] # "idle"
  <2>1. CASE newHead \notin Chunks
    BY <1>1, <1>5, <2>1 DEF AppendPanic
  <2>2. CASE newHead \in Chunks
    <3>1. c = newHead => Rotates(s)
      BY <1>5, <2>2 DEF AppendPanic, HeadFor
    <3> QED BY <1>3, <1>5, <2>2, <3>1 DEF AppendPanic
  <2> QED BY <2>1, <2>2
<1>6. CASE FlushTick \/ Close
  <2>1. Alive /\ pc'[c] = pc[c] /\ UNCHANGED <<newHead, wbuf>>
    BY <1>0, <1>6 DEF FlushTick, Close, Alive
  <2> QED BY <1>1, <2>1
<1>7. ASSUME NEW f \in Flushers, FlushCheck(f) \/ FlushSkip(f) PROVE pc'[c] # "idle"
  <2>1. Alive /\ UNCHANGED <<newHead, wbuf>> /\ wbufSize # 0
    BY <1>7, ZeroIsEmpty DEF FlushCheck, FlushSkip
  <2> QED BY <1>0, <1>1, <1>7, <2>1 DEF FlushCheck, FlushSkip
<1>8. ASSUME NEW f \in Flushers, FlushStart(f) \/ OpenWriter(f) \/ SeeEmptyBuffer(f) \/ FlushCount(f)
                                 \/ WriteRecord(f) \/ WriteOut(f) \/ Synced(f)
      PROVE  pc'[c] # "idle"
  <2>1. Alive /\ UNCHANGED <<newHead, wbuf>>
    BY <1>8 DEF FlushStart, OpenWriter, SeeEmptyBuffer, FlushCount, WriteRecord, WriteOut, Synced
  <2> QED BY <1>0, <1>1, <1>8, <2>1
          DEF FlushStart, OpenWriter, SeeEmptyBuffer, FlushCount, WriteRecord, WriteOut, Synced
<1>9. ASSUME NEW f \in Flushers, SizeFromBuffer(f) \/ SizeFromChunk(f) PROVE pc'[c] # "idle"
  <2>1. CASE Fatalf("wbuf") \/ Fatalf("size")
    BY <1>2, <2>1 DEF Fatalf
  <2>2. CASE ~Fatalf("wbuf") /\ ~Fatalf("size")
    BY <1>0, <1>1, <1>9, <2>2 DEF SizeFromBuffer, SizeFromChunk
  <2> QED BY <2>1, <2>2
<1>10. ASSUME NEW f \in Flushers, Trim(f) PROVE pc'[c] # "idle"
  <2>1. Alive /\ UNCHANGED newHead /\ wbuf[c] # << >>
    BY <1>10, TrimKeepsEmpty DEF Trim
  <2> QED BY <1>0, <1>1, <1>10, <2>1 DEF Trim
<1>11. ASSUME NEW f \in Flushers, Account(f) PROVE pc'[c] # "idle"
  <2>1. Alive /\ UNCHANGED <<newHead, wbuf>>
    BY <1>11 DEF Account
  <2>2. CASE f = c
    <3>1. flushLock = c /\ At("account")
      BY <1>0, <1>11, <2>2, Holder DEF Account, InFlush
    <3> QED BY <2>1, <3>1 DEF RotatedInv
  <2>3. CASE f # c
    BY <1>0, <1>1, <1>11, <2>1, <2>3 DEF Account
  <2> QED BY <2>2, <2>3
<1>12. CASE ReadFile \/ UNCHANGED vars \/ \E r \in appended : ReadBuffer(r)
  BY <1>1, <1>12 DEF ReadFile, ReadBuffer, vars, flushing, Alive
<1>13. CASE Exit \/ Crash
  BY <1>2, <1>13 DEF Exit, Crash
<1>14. CASE Open
  BY <1>0, <1>14 DEF Open, LockInv, Alive
<1> QED BY <1>4, <1>5, <1>6, <1>7, <1>8, <1>9, <1>10, <1>11, <1>12, <1>13, <1>14 DEF Next

-----------------------------------------------------------------------------
(* What close leaves behind *)

\* Bucket.close has not yet taken r, a record of the head, out of the buffer: it
\* has still to count the records or has counted r.
CloserWill(r) ==
    /\ pc[Closer] \notin {"idle", "account"}
    /\ pc[Closer] \in InFlush => target = newHead
    /\ pc[Closer] \in {"write", "sync", "trim"} => \E i \in 1 .. nrec : wbuf[newHead][i] = r

\* r was acknowledged before close was called and is in the head's buffer.
Awaits(r) == r.id < closeId /\ r.chunk = newHead /\ BufferHas(r)

CloseInv ==
    /\ closeId <= nextId
    /\ state = "closing" => \A r \in appended : Awaits(r) => CloserWill(r)

\* Nothing is buffered for a chunk after the head.
LEMMA AfterHead ==
    ASSUME TypeOK, Layout, Alive, NEW c \in Chunks, c > newHead
    PROVE  wbuf[c] = << >>
<1>1. /\ Laid(wbuf[c], writingHead[c], c) /\ writingHead[c] = 0 /\ wbuf[c] \in Seq(Records)
      /\ Len(wbuf[c]) \in Nat
      /\ \A i \in 1 .. Len(wbuf[c]) : wbuf[c][i].off \in Nat /\ wbuf[c][i].size \in Nat \ {0}
  BY ReadTypes DEF Layout, HeadInv
<1>2. 1 \notin 1 .. Len(wbuf[c])
  <2> SUFFICES ASSUME 1 \in 1 .. Len(wbuf[c]) PROVE FALSE
    OBVIOUS
  <2>1. wbuf[c][1].off + wbuf[c][1].size <= 0
    BY <1>1 DEF Laid
  <2> QED BY <1>1, <2>1
<1> QED BY <1>1, <1>2, EmptySeq

\* An append while close runs adds a later record, to the head or to a new one.
LEMMA AppendAwaits ==
    ASSUME TypeOK, Layout, CloseInv, NEW s \in Sizes, AppendRecord(s),
           NEW r \in appended', Awaits(r)'
    PROVE  /\ r \in appended /\ Awaits(r) /\ newHead' = newHead
           /\ \A i \in 1 .. Len(wbuf[newHead]) : wbuf'[newHead][i] = wbuf[newHead][i]
<1> DEFINE h == HeadFor(s)
           new == [id |-> nextId, chunk |-> h, off |-> OffsetFor(s), size |-> s]
<1>1. /\ newHead' = h /\ h \in Chunks /\ newHead \in Chunks /\ Alive /\ closeId' = closeId
      /\ wbuf' = [wbuf EXCEPT ![h] = Append(@, new)]
      /\ appended' = appended \cup {new}
  BY DEF AppendRecord
<1>2. new.id = nextId
  OBVIOUS
<1>3. nextId \in Int /\ closeId \in Int /\ closeId <= nextId
  BY DEF TypeOK, HistoryOK, CloseInv
<1>4. PICK n : n = new
  OBVIOUS
<1>5. r # n /\ r.id < closeId
  BY <1>1, <1>2, <1>3, <1>4 DEF Awaits
<1>6. r \in appended /\ appended \subseteq Records
  BY <1>1, <1>4, <1>5 DEF TypeOK, HistoryOK
<1>7. wbuf \in [Chunks -> Seq(Records)] /\ wbuf'[h] = Append(wbuf[h], n) /\ wbuf[h] \in Seq(Records)
  BY <1>1, <1>4 DEF TypeOK, MemoryOK
<1>8. newHead <= h
  BY <1>1, AppendShape
<1>9. r.chunk = h /\ \E i \in 1 .. Len(wbuf'[h]) : wbuf'[h][i] = r
  BY <1>1 DEF Awaits, BufferHas
<1> HIDE DEF h, new
<1>10. /\ Len(wbuf'[h]) = Len(wbuf[h]) + 1 /\ wbuf'[h][Len(wbuf[h]) + 1] = n
       /\ \A i \in 1 .. Len(wbuf[h]) : wbuf'[h][i] = wbuf[h][i]
       /\ Len(wbuf[h]) \in Nat
  <2>1. n \in Records
    BY <1>1, <1>4, NextTypeOK DEF TypeOK, HistoryOK, vars, Next
  <2> QED BY <1>7, <2>1, AppendProperties, LenProperties
<1>11. PICK i \in 1 .. Len(wbuf[h]) : wbuf[h][i] = r
  <2>1. PICK i \in 1 .. Len(wbuf'[h]) : wbuf'[h][i] = r
    BY <1>9
  <2>2. i # Len(wbuf[h]) + 1
    BY <1>5, <1>10, <2>1
  <2>3. i \in 1 .. Len(wbuf[h])
    BY <1>10, <2>1, <2>2
  <2> QED BY <1>10, <2>1, <2>3
<1>12. wbuf[h] # << >>
  BY <1>10, <1>11, EmptySeq
<1>13. h = newHead
  BY <1>1, <1>8, <1>12, AfterHead DEF Chunks
<1>14. Awaits(r)
  BY <1>5, <1>9, <1>11, <1>13 DEF Awaits, BufferHas
<1> QED BY <1>1, <1>6, <1>10, <1>13, <1>14

\* A trim by close takes every record it waited for out of the buffer.
LEMMA TrimAwaits ==
    ASSUME TypeOK, Layout, NEW f \in Flushers, Trim(f), NEW r \in appended, Awaits(r)'
    PROVE  /\ Awaits(r)
           /\ f = Closer => ~CloserWill(r)
<1>1. UNCHANGED <<newHead, closeId, target>>
  BY DEF Trim, history
<1>2. r \in Records /\ r.chunk \in Chunks
  BY ReadTypes, RecordFields
<1>3. r.chunk = newHead /\ r.id < closeId
  BY <1>1 DEF Awaits
<1>4. PICK i \in 1 .. Len(wbuf'[newHead]) : wbuf'[newHead][i] = r
  BY <1>1, <1>3 DEF Awaits, BufferHas
<1>5. /\ nrec \in Nat /\ nrec <= Len(wbuf[target]) /\ target \in Chunks
      /\ wbuf'[target] = SubSeq(wbuf[target], nrec + 1, Len(wbuf[target]))
      /\ \A c \in Chunks : c # target => wbuf'[c] = wbuf[c]
  BY TrimBound
<1>6. CASE newHead # target
  <2>1. BufferHas(r)
    BY <1>2, <1>3, <1>4, <1>5, <1>6 DEF BufferHas
  <2>2. f = Closer => pc[Closer] = "trim"
    BY DEF Trim
  <2> QED BY <1>3, <1>6, <2>1, <2>2 DEF Awaits, CloserWill, InFlush
<1>7. CASE newHead = target
  <2>1. PICK b : b = wbuf[target]
    OBVIOUS
  <2>2. /\ b \in Seq(Records) /\ writingHead[target] \in Nat /\ Laid(b, writingHead[target], target)
        /\ Len(b) \in Nat
        /\ \A j \in 1 .. Len(b) : b[j].off \in Nat /\ b[j].size \in Nat \ {0}
    BY <1>5, <2>1, ReadTypes
  <2>3. PICK d : d = wbuf'[target]
    OBVIOUS
  <2>4. Len(d) = Len(b) - nrec /\ (\A j \in 1 .. Len(d) : d[j] = b[j + nrec])
    <3>1. d = SubSeq(b, nrec + 1, Len(b)) /\ nrec <= Len(b)
      BY <1>5, <2>1, <2>3
    <3> QED BY <1>5, <2>2, <3>1, LaidDrop
  <2>5. i + nrec \in 1 .. Len(b) /\ b[i + nrec] = r
    <3>1. i \in 1 .. Len(d) /\ d[i] = r
      BY <1>4, <1>7, <2>3
    <3>2. i + nrec \in 1 .. Len(b)
      BY <1>5, <2>2, <2>4, <3>1
    <3> QED BY <2>4, <3>1, <3>2
  <2>6. BufferHas(r)
    BY <1>3, <1>7, <2>1, <2>5 DEF BufferHas
  <2>7. ASSUME f = Closer, CloserWill(r) PROVE FALSE
    <3>1. pc[Closer] = "trim"
      BY <2>7 DEF Trim
    <3>2. PICK j \in 1 .. nrec : b[j] = r
      BY <1>7, <2>1, <2>7, <3>1 DEF CloserWill
    <3>3. j \in 1 .. Len(b) /\ j < i + nrec
      BY <1>4, <1>5, <2>1, <2>2, <2>4, <2>5, <3>2
    <3>4. b[j].off + b[j].size <= b[i + nrec].off
      BY <2>2, <2>5, <3>3 DEF Laid
    <3>5. b[j].off \in Nat /\ b[j].size \in Nat \ {0}
      BY <2>2, <3>3
    <3> QED BY <2>5, <3>2, <3>4, <3>5
  <2> QED BY <1>3, <2>6, <2>7 DEF Awaits
<1> QED BY <1>6, <1>7

\* Every step keeps close on its way to the records it has to flush.
LEMMA NextClose == TypeOK /\ Layout /\ SumInv /\ CloseInv /\ [Next]_vars => CloseInv'
<1> SUFFICES ASSUME TypeOK, Layout, SumInv, CloseInv, [Next]_vars PROVE CloseInv'
  OBVIOUS
<1> USE DEF memory, history
<1>0. /\ pc \in [Flushers -> Steps] /\ LockInv /\ WriterInv /\ Closer \in Flushers /\ Closer # Bg
      /\ Closer \notin Chunks /\ appended \subseteq Records
  BY FlushTypes, ReadTypes DEF Bg, Closer, Flushers
<1>1. closeId \in Int /\ nextId \in Int /\ closeId <= nextId
      /\ (state = "closing" => \A r \in appended : Awaits(r) => CloserWill(r))
  BY DEF TypeOK, HistoryOK, CloseInv
<1>2. \A r \in appended : ~BufferHas(r) \/ wbuf[r.chunk] # << >>
  BY EmptySeq DEF BufferHas
<1>3. ASSUME NEW s \in {"closed", "down"}, StopAs(s), UNCHANGED history PROVE CloseInv'
  BY <1>1, <1>3 DEF StopAs, CloseInv
<1>4. ASSUME UNCHANGED <<state, newHead, wbuf, history>>,
             \A r \in appended : Awaits(r) /\ CloserWill(r) /\ state = "closing" => CloserWill(r)'
      PROVE  CloseInv'
  <2>1. \A r : Awaits(r)' <=> Awaits(r)
    BY <1>4 DEF Awaits, BufferHas
  <2> QED BY <1>1, <1>4, <2>1 DEF CloseInv
<1>5. ASSUME NEW s \in Sizes, AppendRecord(s) PROVE CloseInv'
  <2>1. closeId' <= nextId'
    BY <1>1, <1>5 DEF AppendRecord
  <2>2. ASSUME state' = "closing", NEW r \in appended', Awaits(r)' PROVE CloserWill(r)'
    <3>1. /\ r \in appended /\ Awaits(r) /\ newHead' = newHead
          /\ \A i \in 1 .. Len(wbuf[newHead]) : wbuf'[newHead][i] = wbuf[newHead][i]
      BY <1>5, <2>2, AppendAwaits
    <3>2. pc'[Closer] = pc[Closer] /\ UNCHANGED <<target, nrec, state>> /\ newHead \in Chunks
      BY <1>0, <1>5 DEF AppendRecord, SpawnFlush
    <3>3. CloserWill(r)
      BY <1>1, <2>2, <3>1, <3>2
    <3>4. ASSUME pc[Closer] \in {"write", "sync", "trim"}
          PROVE  \E i \in 1 .. nrec : wbuf'[newHead][i] = r
      <4>1. target = newHead /\ \E i \in 1 .. nrec : wbuf[newHead][i] = r
        BY <3>3, <3>4 DEF CloserWill, InFlush
      <4>2. nrec <= Len(wbuf[newHead])
        BY <1>0, <3>4, <4>1, Holder DEF WriterInv, InFlush
      <4>3. nrec \in Nat /\ Len(wbuf[newHead]) \in Nat
        BY <3>2, ReadTypes
      <4>4. \A i \in 1 .. nrec : i \in 1 .. Len(wbuf[newHead])
        BY <4>2, <4>3
      <4> QED BY <3>1, <4>1, <4>4
    <3> QED BY <3>1, <3>2, <3>3, <3>4 DEF CloserWill
  <2> QED BY <2>1, <2>2 DEF CloseInv
<1>6. ASSUME NEW s \in Sizes, AppendPanic(s) PROVE CloseInv'
  <2>1. /\ UNCHANGED <<state, wbuf, target, nrec, history>> /\ pc'[Closer] = pc[Closer]
        /\ newHead' = newHead \/ newHead' \notin Chunks
    BY <1>0, <1>6 DEF AppendPanic, SpawnFlush, HeadFor
  <2>2. CASE newHead' = newHead
    BY <1>4, <2>1, <2>2 DEF CloserWill
  <2>3. CASE newHead' \notin Chunks
    <3>1. \A r \in appended : ~Awaits(r)'
      BY <1>0, <2>1, <2>3, RecordFields DEF Awaits
    <3> QED BY <1>1, <2>1, <3>1 DEF CloseInv
  <2> QED BY <2>1, <2>2, <2>3
<1>7. ASSUME NEW f \in Flushers, FlushCheck(f) \/ FlushSkip(f) PROVE CloseInv'
  <2>1. Alive /\ UNCHANGED <<state, newHead, wbuf, target, nrec, history>>
    BY <1>7 DEF FlushCheck, FlushSkip
  <2>2. ASSUME NEW r \in appended, Awaits(r), CloserWill(r) PROVE CloserWill(r)'
    <3>1. wbufSize # 0
      <4>1. r.chunk \in Chunks /\ wbuf[r.chunk] # << >>
        BY <1>0, <1>2, <2>2, RecordFields DEF Awaits
      <4> QED BY <2>1, <4>1, ZeroIsEmpty
    <3>2. pc'[Closer] \in {pc[Closer], "lock"}
      BY <1>0, <1>7, <3>1 DEF FlushCheck, FlushSkip
    <3> QED BY <2>1, <2>2, <3>2 DEF CloserWill, InFlush
  <2> QED BY <1>4, <2>1, <2>2
<1>8. ASSUME NEW f \in Flushers, FlushStart(f) PROVE CloseInv'
  <2>1. UNCHANGED <<state, newHead, wbuf, history>>
    BY <1>8 DEF FlushStart
  <2>2. ASSUME NEW r \in appended, CloserWill(r) PROVE CloserWill(r)'
    <3>1. CASE f = Closer
      BY <1>0, <1>8, <3>1 DEF FlushStart, CloserWill
    <3>2. CASE f # Closer
      <4>1. pc'[Closer] = pc[Closer] /\ pc[Closer] \notin InFlush
        BY <1>0, <1>8, <3>2, NoOneFree DEF FlushStart, LockInv
      <4> QED BY <2>2, <4>1 DEF CloserWill, InFlush
    <3> QED BY <3>1, <3>2
  <2> QED BY <1>4, <2>1, <2>2
<1>9. ASSUME NEW f \in Flushers, f # Closer, pc[f] \in InFlush,
             \A g \in Flushers : g # f => pc'[g] = pc[g],
             UNCHANGED <<state, newHead, wbuf, history>>
      PROVE  CloseInv'
  <2>1. pc'[Closer] = pc[Closer] /\ pc[Closer] \notin InFlush
    BY <1>0, <1>9 DEF LockInv
  <2>2. ASSUME NEW r \in appended, CloserWill(r) PROVE CloserWill(r)'
    BY <2>1, <2>2 DEF CloserWill, InFlush
  <2> QED BY <1>4, <1>9, <2>2
<1>10. ASSUME NEW f \in Flushers, OpenWriter(f) \/ SeeEmptyBuffer(f) PROVE CloseInv'
  <2>1. /\ UNCHANGED <<state, newHead, wbuf, target, history>> /\ pc[f] \in InFlush
        /\ pc'[f] \in {"len", "size"} /\ \A g \in Flushers : g # f => pc'[g] = pc[g]
    BY <1>0, <1>10 DEF OpenWriter, SeeEmptyBuffer, InFlush
  <2>2. CASE f = Closer
    BY <1>4, <2>1, <2>2 DEF CloserWill
  <2> QED BY <1>9, <2>1, <2>2
<1>11. ASSUME NEW f \in Flushers, SizeFromBuffer(f) \/ SizeFromChunk(f) PROVE CloseInv'
  <2>1. CASE Fatalf("wbuf") \/ Fatalf("size")
    BY <1>3, <1>11, <2>1 DEF Fatalf, SizeFromBuffer, SizeFromChunk
  <2>2. CASE ~Fatalf("wbuf") /\ ~Fatalf("size")
    <3>1. /\ UNCHANGED <<state, newHead, wbuf, target, history>> /\ pc[f] \in InFlush
          /\ pc'[f] = "count" /\ \A g \in Flushers : g # f => pc'[g] = pc[g]
      BY <1>0, <1>11, <2>2 DEF SizeFromBuffer, SizeFromChunk, InFlush
    <3>2. CASE f = Closer
      BY <1>4, <3>1, <3>2 DEF CloserWill
    <3> QED BY <1>9, <3>1, <3>2
  <2> QED BY <2>1, <2>2
<1>12. ASSUME NEW f \in Flushers, FlushCount(f) PROVE CloseInv'
  <2>1. /\ UNCHANGED <<state, newHead, wbuf, target, history>> /\ pc[f] = "count"
        /\ pc'[f] \in {"sync", "write"} /\ (\A g \in Flushers : g # f => pc'[g] = pc[g])
        /\ nrec' = Len(wbuf[target])
    BY <1>0, <1>12 DEF FlushCount
  <2>2. CASE f = Closer
    <3>1. ASSUME NEW r \in appended, Awaits(r), CloserWill(r) PROVE CloserWill(r)'
      <4>1. target = newHead /\ r.chunk = newHead /\ BufferHas(r)
        BY <2>1, <2>2, <3>1 DEF Awaits, CloserWill, InFlush
      <4>2. \E i \in 1 .. nrec' : wbuf'[newHead'][i] = r
        BY <2>1, <4>1 DEF BufferHas
      <4> QED BY <2>1, <2>2, <4>1, <4>2 DEF CloserWill
    <3> QED BY <1>4, <2>1, <3>1
  <2> QED BY <1>9, <2>1, <2>2 DEF InFlush
<1>13. ASSUME NEW f \in Flushers, WriteRecord(f) \/ WriteOut(f) \/ Synced(f) PROVE CloseInv'
  <2>1. /\ UNCHANGED <<state, newHead, wbuf, target, nrec, history>> /\ pc[f] \in {"write", "sync"}
        /\ pc'[f] \in {"sync", "write", "trim"} /\ (\A g \in Flushers : g # f => pc'[g] = pc[g])
    BY <1>0, <1>13 DEF WriteRecord, WriteOut, Synced
  <2>2. CASE f = Closer
    <3>1. ASSUME NEW r \in appended, CloserWill(r) PROVE CloserWill(r)'
      BY <2>1, <2>2, <3>1 DEF CloserWill, InFlush
    <3> QED BY <1>4, <2>1, <3>1
  <2> QED BY <1>9, <2>1, <2>2 DEF InFlush
<1>14. ASSUME NEW f \in Flushers, Trim(f) PROVE CloseInv'
  <2>1. /\ UNCHANGED <<state, newHead, target, nrec, history>> /\ pc[f] = "trim"
        /\ (\A g \in Flushers : g # f => pc'[g] = pc[g])
    BY <1>0, <1>14 DEF Trim
  <2>2. ASSUME state' = "closing", NEW r \in appended', Awaits(r)' PROVE CloserWill(r)'
    <3>1. r \in appended /\ Awaits(r) /\ (f = Closer => ~CloserWill(r))
      BY <1>14, <2>1, <2>2, TrimAwaits
    <3>2. CloserWill(r) /\ f # Closer
      BY <1>1, <2>1, <2>2, <3>1
    <3>3. pc'[Closer] = pc[Closer] /\ pc[Closer] \notin InFlush
      BY <1>0, <2>1, <3>2 DEF LockInv, InFlush
    <3> QED BY <3>2, <3>3 DEF CloserWill, InFlush
  <2> QED BY <1>1, <2>1, <2>2 DEF CloseInv
<1>15. ASSUME NEW f \in Flushers, Account(f) PROVE CloseInv'
  <2>1. /\ UNCHANGED <<state, newHead, wbuf, history>> /\ pc[f] = "account"
        /\ (\A g \in Flushers : g # f => pc'[g] = pc[g])
    BY <1>0, <1>15 DEF Account
  <2>2. CASE f = Closer
    BY <1>4, <2>1, <2>2 DEF CloserWill
  <2> QED BY <1>9, <2>1, <2>2 DEF InFlush
<1>16. CASE FlushTick
  BY <1>0, <1>4, <1>16 DEF FlushTick, CloserWill
<1>17. CASE Close
  <2>1. pc'[Closer] = "start" /\ closeId' = nextId /\ UNCHANGED nextId
    BY <1>0, <1>17 DEF Close
  <2> QED BY <1>1, <2>1 DEF CloseInv, CloserWill, InFlush
<1>18. CASE ReadFile \/ UNCHANGED vars \/ \E r \in appended : ReadBuffer(r)
  BY <1>4, <1>18 DEF ReadFile, ReadBuffer, vars, flushing, CloserWill
<1>19. CASE Exit \/ Crash
  BY <1>3, <1>19 DEF Exit, Crash
<1>20. CASE Open
  BY <1>1, <1>20 DEF Open, CloseInv
<1> QED BY <1>5, <1>6, <1>7, <1>8, <1>10, <1>11, <1>12, <1>13, <1>14, <1>15, <1>16, <1>17,
           <1>18, <1>19, <1>20 DEF Next

\* The inductive invariant of the flushes.
FlushInv == IInv /\ FlushedInv /\ RotatedInv /\ SumInv /\ RotatedBufferHasFlusher /\ CloseInv

\* It holds at first: nothing is buffered and nobody flushes.
LEMMA InitFlush == Init => FlushInv
<1> SUFFICES ASSUME Init PROVE FlushInv
  OBVIOUS
<1>1. IInv /\ TypeOK /\ Layout
  BY InitIInv DEF IInv
<1>2. (\A x : ~At(x)) /\ flushLock \notin Chunks
  BY NoOneFree, FlushTypes, <1>1 DEF Init, At
<1>3. FlushedInv /\ RotatedInv
  BY <1>2 DEF FlushedInv, RotatedInv
<1>4. \A c \in Chunks : wbuf[c] = << >>
  BY DEF Init
<1>5. SumInv
  <2>1. \A c \in Chunks : Held(c) = 0
    BY <1>1, <1>4, StartFacts
  <2>2. NumChunks \in Nat \ {0}
    BY DataStoreAssumption
  <2>3. PICK g : Sums(g) /\ g[NumChunks] = 0
    BY <2>1, <2>2, SumsEmpty
  <2>4. wbufSize = 0
    BY DEF Init
  <2> QED BY <1>2, <2>3, <2>4 DEF SumInv
<1>6. RotatedBufferHasFlusher
  BY <1>4 DEF RotatedBufferHasFlusher
<1>7. CloseInv
  BY DEF Init, CloseInv
<1> QED BY <1>1, <1>3, <1>5, <1>6, <1>7 DEF FlushInv

\* The flushes' invariant holds in every reachable state.
LEMMA FlushInvariance == Spec => []FlushInv
<1>1. FlushInv /\ [Next]_vars => FlushInv'
  <2> SUFFICES ASSUME FlushInv, [Next]_vars PROVE FlushInv'
    OBVIOUS
  <2>1. IInv /\ TypeOK /\ Layout /\ FlushedInv /\ RotatedInv /\ SumInv /\ RotatedBufferHasFlusher /\ CloseInv
    BY DEF FlushInv, IInv
  <2>2. IInv' /\ FlushedInv' /\ RotatedInv' /\ SumInv'
    BY <2>1, NextIInv, NextFlushed, NextRotated, NextSum
  <2>3. RotatedBufferHasFlusher' /\ CloseInv'
    BY <2>1, NextHasFlusher, NextClose
  <2> QED BY <2>2, <2>3 DEF FlushInv
<1> QED BY <1>1, InitFlush, PTL DEF Spec

\* The early returns of flush never leave the buffer of a rotated chunk behind:
\* its goroutine has not finished.
THEOREM RotatedIsFlushed == Spec => []RotatedBufferHasFlusher
<1>1. FlushInv => RotatedBufferHasFlusher
  BY DEF FlushInv
<1> QED BY <1>1, FlushInvariance, PTL

\* When Bucket.close has flushed, what it did not write to disk is in a rotated
\* chunk whose own goroutine has not finished.
THEOREM CloseFlushes == Spec => []CloseFlushesHead
<1>1. FlushInv => CloseFlushesHead
  <2> SUFFICES ASSUME FlushInv, state = "closing", pc[Closer] = "idle",
                      NEW r \in appended, r.id < closeId
               PROVE  OnDisk(r) \/ (r.chunk # newHead /\ pc[r.chunk] # "idle")
    BY DEF CloseFlushesHead
  <2>1. Alive /\ TypeOK /\ Layout /\ ReadInv /\ CloseInv /\ RotatedBufferHasFlusher
    BY DEF FlushInv, IInv, Alive
  <2>2. r.chunk \in Chunks
    BY <2>1, ReadTypes, RecordFields
  <2>3. BufferHas(r) \/ OnDisk(r)
    BY <2>1 DEF ReadInv
  <2>4. BufferHas(r) => r.chunk # newHead
    BY <2>1 DEF CloseInv, Awaits, CloserWill
  <2>5. BufferHas(r) => wbuf[r.chunk] # << >>
    BY EmptySeq DEF BufferHas
  <2> QED BY <2>1, <2>2, <2>3, <2>4, <2>5 DEF RotatedBufferHasFlusher
<1> QED BY <1>1, FlushInvariance, PTL

-----------------------------------------------------------------------------
(* The sum of the buffers, as the recursive function that WbufSizeExact uses *)

\* A set of natural numbers has a least one: what inductions rest on.
LEMMA Least ==
    ASSUME NEW T, T \subseteq Nat, T # {}
    PROVE  \E m \in T : \A n \in T : m <= n
<1> DEFINE R == OpToRel(<, Nat)
<1>1. IsWellFoundedOn(R, Nat)
  BY NatLessThanWellFounded
<1>2. \A x, y \in Nat : y < x => <<y, x>> \in R
  BY DEF OpToRel
<1> HIDE DEF R
<1>3. \E x \in T : \A y \in T : ~(<<y, x>> \in R)
  BY <1>1, WFMin
<1>4. PICK m \in T : \A y \in T : ~(<<y, m>> \in R)
  BY <1>3
<1>5. ASSUME NEW n \in T PROVE m <= n
  <2>1. ~(n < m)
    BY <1>2, <1>4
  <2> QED BY <2>1
<1> QED BY <1>5

\* Sums(g) determines g, so that the function AllBuffered picks is g.
LEMMA SumsTotal ==
    ASSUME NumChunks \in Nat \ {0}, \A c \in Chunks : Buffered(c) = Held(c) /\ Held(c) \in Nat,
           NEW g, Sums(g)
    PROVE  AllBuffered = g[NumChunks]
<1> DEFINE F(f) == [n \in 0 .. NumChunks |-> IF n = 0 THEN 0 ELSE f[n - 1] + Buffered(n - 1)]
           h == CHOOSE f : f = F(f)
<1>1. g = F(g)
  <2>1. g \in [0 .. NumChunks -> Nat] /\ g[0] = 0
    BY DEF Sums
  <2>2. ASSUME NEW n \in 0 .. NumChunks, n # 0 PROVE g[n] = g[n - 1] + Buffered(n - 1)
    <3>1. n - 1 \in Chunks /\ (n - 1) + 1 = n
      BY <2>2 DEF Chunks
    <3> QED BY <3>1 DEF Sums
  <2> QED BY <2>1, <2>2
<1>2. h = F(h)
  BY <1>1
<1>3. AllBuffered = h[NumChunks]
  BY DEF AllBuffered
<1> HIDE DEF h
<1>4. \A n \in 0 .. NumChunks : h[n] = IF n = 0 THEN 0 ELSE h[n - 1] + Buffered(n - 1)
  BY <1>2
<1>5. \A n \in 0 .. NumChunks : g[n] = IF n = 0 THEN 0 ELSE g[n - 1] + Buffered(n - 1)
  BY <1>1
<1> DEFINE T == {n \in 0 .. NumChunks : h[n] # g[n]}
<1>6. SUFFICES ASSUME T # {} PROVE FALSE
  BY <1>3
<1>7. PICK m \in T : \A n \in T : m <= n
  <2>1. T \subseteq Nat
    OBVIOUS
  <2> HIDE DEF T
  <2> QED BY <1>6, <2>1, Least
<1>8. m # 0 /\ m - 1 \in 0 .. NumChunks /\ m - 1 \notin T
  BY <1>4, <1>5, <1>7
<1> QED BY <1>4, <1>5, <1>7, <1>8

\* wbufSize, which decides whether a flush has anything to do and which no lock
\* ties to the buffers, is exactly their size plus what the flush in progress has
\* dropped and not accounted for.
THEOREM Accounted == Spec => []WbufSizeExact
<1>1. FlushInv => WbufSizeExact
  <2> SUFFICES ASSUME FlushInv, Alive
               PROVE  wbufSize = AllBuffered
                         + (IF \E f \in Flushers : pc[f] = "account" THEN flushed ELSE 0)
    BY DEF WbufSizeExact
  <2>1. TypeOK /\ Layout /\ SumInv
    BY DEF FlushInv, IInv
  <2>2. \A c \in Chunks : Held(c) \in Nat
    BY <2>1, StartFacts
  <2>3. \A c \in Chunks : Buffered(c) = Held(c)
    <3> SUFFICES ASSUME NEW c \in Chunks PROVE Buffered(c) = Held(c)
      OBVIOUS
    <3>1. wbuf[c] \in Seq(Records) /\ writingHead[c] \in Nat
      BY <2>1 DEF TypeOK, MemoryOK
    <3>2. CASE wbuf[c] = << >>
      BY <3>1, <3>2 DEF Buffered, Held, Start, StartIn
    <3>3. CASE wbuf[c] # << >>
      <4>1. 1 <= Len(wbuf[c])
        BY <3>1, <3>3, EmptySeq
      <4> QED BY <3>3, <4>1 DEF Buffered, Held, Start, StartIn
    <3> QED BY <3>2, <3>3
  <2>4. PICK g : Sums(g) /\ wbufSize = g[NumChunks] + (IF At("account") THEN flushed ELSE 0)
    BY <2>1 DEF SumInv
  <2>5. AllBuffered = g[NumChunks]
    BY <2>2, <2>3, <2>4, SumsTotal, DataStoreAssumption
  <2>6. At("account") <=> \E f \in Flushers : pc[f] = "account"
    BY <2>1, FlushTypes, Holder, NoOneFree DEF At, InFlush
  <2> QED BY <2>4, <2>5, <2>6
<1> QED BY <1>1, FlushInvariance, PTL
=============================================================================
