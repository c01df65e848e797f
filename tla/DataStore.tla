------------------------------ MODULE DataStore ------------------------------
(***************************************************************************)
(* The append-only data files of one bucket: store/data.go (dataStore) and *)
(* the write path of store/datachunk.go (dataChunk).                       *)
(*                                                                         *)
(* A record is appended to the write buffer of the head chunk under        *)
(* dataStore.Mutex; a later flush, serialised by flushLock, copies the     *)
(* buffer to the chunk's file and then drops it from memory.  flush runs   *)
(* in the background flusher (HStore.Flusher), in one goroutine per        *)
(* rotated chunk, and once more when the bucket is closed.  Readers look   *)
(* in the buffer first and read the file, without a lock, when they miss.  *)
(*                                                                         *)
(* Sizes and offsets are counted in blocks of PADDING (256) bytes, to      *)
(* which every record is padded.  The critical sections of                 *)
(* dataStore.Mutex and dataChunk.Mutex are single steps; everything the    *)
(* code does between two of them is a step of its own.                     *)
(***************************************************************************)
EXTENDS Integers, Sequences, FiniteSets

CONSTANTS
    NumChunks,    \* MAX_NUM_CHUNK: the length of dataStore.chunks
    DataFileMax,  \* Conf.DataFileMax, in blocks
    FlushNow,     \* 1 << 20: a buffer this large is flushed before FlushInterval
    Sizes,        \* record sizes, in blocks
    MaxRecords,   \* bound: records ever appended
    MaxRestarts   \* bound: how often the process is started again

ASSUME DataStoreAssumption ==
    /\ NumChunks \in Nat \ {0}
    /\ DataFileMax \in Nat
    /\ FlushNow \in Nat
    /\ Sizes \subseteq 1 .. DataFileMax
    /\ MaxRecords \in Nat
    /\ MaxRestarts \in Nat

Chunks == 0 .. NumChunks - 1

(***************************************************************************)
(* The callers of flush: the goroutine that flushes rotated chunk c is     *)
(* named c, the background flusher Bg, Bucket.close Closer.                *)
(***************************************************************************)
Bg == -1
Closer == -2
NoOne == -3
Flushers == Chunks \cup {Bg, Closer}

\* A WriteRecord: its identity, the position it was given and its size.
Records == [id : 1 .. MaxRecords, chunk : Chunks, off : Nat, size : Sizes]

VARIABLES
    state,        \* "running", "closing", "closed", "down" or "refused"
    newHead,      \* the chunk that takes appends
    size,         \* dataChunk.size
    writingHead,  \* dataChunk.writingHead
    wbuf,         \* dataChunk.wbuf
    wbufSize,     \* dataStore.wbufSize
    mutexDead,    \* dataStore.Mutex is held by a goroutine that panicked
    flushLock,    \* the holder of dataStore.flushLock
    pc,           \* where each caller of flush is
    target,       \* flush's chunk, for the holder of flushLock
    woffset,      \* DataStreamWriter.offset as set by GetStreamWriter
    pending,      \* what its bufio.Writer holds
    nrec,         \* n of dataChunk.flush
    irec,         \* i of dataChunk.flush
    flushed,      \* its result
    exists,       \* the data file of each chunk: does it exist,
    fsize,        \*   its size,
    content,      \*   the records in it, each with the offset it is stored at,
    aligned,      \*   and whether its size is a multiple of PADDING
    appended,     \* records acknowledged to a writer and not yet given up
    nextId,
    closeId,      \* nextId when Bucket.close was called
    reader,       \* one reader inside GetRecordByOffset
    fatal,        \* which branch of getDiskFileSize led to logger.Fatalf
    restarts

memory == <<newHead, size, writingHead, wbuf, wbufSize, mutexDead>>
flushing == <<flushLock, pc, target, woffset, pending, nrec, irec, flushed>>
disk == <<exists, fsize, content, aligned>>
history == <<appended, nextId, closeId>>
vars == <<state, memory, flushing, disk, history, reader, fatal, restarts>>

Steps == {"idle", "start", "lock", "open", "len", "size", "count", "write",
          "sync", "trim", "account"}
NoRead == [at |-> "idle", rec |-> 0]
Alive == state \in {"running", "closing"}

MemoryOK ==
    /\ newHead \in 0 .. NumChunks
    /\ size \in [Chunks -> Nat]
    /\ writingHead \in [Chunks -> Nat]
    /\ wbuf \in [Chunks -> Seq(Records)]
    /\ wbufSize \in Int
    /\ mutexDead \in BOOLEAN

FlushingOK ==
    /\ flushLock \in Flushers \cup {NoOne}
    /\ pc \in [Flushers -> Steps]
    /\ target \in Chunks
    /\ woffset \in Nat
    /\ pending \in Seq(Records)
    /\ nrec \in Nat /\ irec \in Nat /\ flushed \in Nat

DiskOK ==
    /\ exists \in [Chunks -> BOOLEAN]
    /\ fsize \in [Chunks -> Nat]
    /\ content \in [Chunks -> SUBSET [rec : Records, at : Nat]]
    /\ aligned \in [Chunks -> BOOLEAN]

HistoryOK ==
    /\ appended \subseteq Records
    /\ nextId \in 1 .. MaxRecords + 1
    /\ closeId \in 1 .. MaxRecords + 1

ControlOK ==
    /\ state \in {"running", "closing", "closed", "down", "refused"}
    /\ reader \in {NoRead} \cup [at : {"file", "bad"}, rec : Records]
    /\ fatal \in {"no", "wbuf", "size"}
    /\ restarts \in 0 .. MaxRestarts

TypeOK == MemoryOK /\ FlushingOK /\ DiskOK /\ HistoryOK /\ ControlOK

\* Every acknowledged record that is stored at the position it was given.
OnDisk(r) == [rec |-> r, at |-> r.off] \in content[r.chunk]

-----------------------------------------------------------------------------
Init ==
    /\ state = "running"
    /\ newHead = 0
    /\ size = [c \in Chunks |-> 0]
    /\ writingHead = [c \in Chunks |-> 0]
    /\ wbuf = [c \in Chunks |-> << >>]
    /\ wbufSize = 0
    /\ mutexDead = FALSE
    /\ flushLock = NoOne
    /\ pc = [f \in Flushers |-> "idle"]
    /\ target = 0 /\ woffset = 0 /\ pending = << >>
    /\ nrec = 0 /\ irec = 0 /\ flushed = 0
    /\ exists = [c \in Chunks |-> FALSE]
    /\ fsize = [c \in Chunks |-> 0]
    /\ content = [c \in Chunks |-> {}]
    /\ aligned = [c \in Chunks |-> TRUE]
    /\ appended = {} /\ nextId = 1 /\ closeId = 1
    /\ reader = NoRead
    /\ fatal = "no"
    /\ restarts = 0

-----------------------------------------------------------------------------
(* The process stops: memory and goroutines are gone.  What the bufio.Writer *)
(* was about to write may be in the file in part, ending on a block boundary *)
(* or between two.                                                           *)

TornTail ==
    \/ UNCHANGED <<fsize, aligned>>
    \/ /\ pending # << >>
       /\ \E p \in 1 .. Head(pending).size - 1 :
             fsize' = [fsize EXCEPT ![target] = @ + p]
       /\ UNCHANGED aligned
    \/ /\ pending # << >>
       /\ aligned' = [aligned EXCEPT ![target] = FALSE]
       /\ UNCHANGED fsize

StopAs(s) ==
    /\ state' = s
    /\ TornTail
    /\ newHead' = 0
    /\ size' = [c \in Chunks |-> 0]
    /\ writingHead' = [c \in Chunks |-> 0]
    /\ wbuf' = [c \in Chunks |-> << >>]
    /\ wbufSize' = 0
    /\ mutexDead' = FALSE
    /\ flushLock' = NoOne
    /\ pc' = [f \in Flushers |-> "idle"]
    /\ target' = 0 /\ woffset' = 0 /\ pending' = << >>
    /\ nrec' = 0 /\ irec' = 0 /\ flushed' = 0
    /\ reader' = NoRead
    /\ UNCHANGED <<exists, content>>

-----------------------------------------------------------------------------
(* dataStore.AppendRecord *)

Rotates(s) == writingHead[newHead] + s > DataFileMax
HeadFor(s) == IF Rotates(s) THEN newHead + 1 ELSE newHead
\* A plausible bug: currOffset is not reset on rotation.
OffsetNotReset(s) == writingHead[newHead]

OffsetFor(s) == IF Rotates(s) THEN 0 ELSE writingHead[newHead]

\* A plausible bug: rotation does not flush the chunk it leaves.
NoSpawn(s) == pc' = pc

\* go ds.flush(ds.newHead-1, true): it starts before wbufSize is increased, so
\* its unlocked test of wbufSize may still see the old value.
SpawnFlush(s) ==
    \/ ~Rotates(s) /\ pc' = pc
    \/ Rotates(s) /\ pc' = [pc EXCEPT ![newHead] = "start"]
    \/ Rotates(s) /\ wbufSize = 0 /\ pc' = pc

\* A plausible bug: the record goes into the chunk that was just left.
AppendToOldChunk(s) ==
    LET h == HeadFor(s)
        r == [id |-> nextId, chunk |-> h, off |-> OffsetFor(s), size |-> s]
    IN  /\ Alive /\ ~mutexDead
        /\ nextId <= MaxRecords
        /\ newHead \in Chunks /\ h \in Chunks
        /\ newHead' = h
        /\ SpawnFlush(s)
        /\ wbuf' = [wbuf EXCEPT ![newHead] = Append(@, r)]
        /\ writingHead' = [writingHead EXCEPT ![newHead] = @ + s]
        /\ size' = [size EXCEPT ![newHead] = writingHead[newHead] + s]
        /\ wbufSize' = wbufSize + s
        /\ appended' = appended \cup {r}
        /\ nextId' = nextId + 1
        /\ UNCHANGED <<state, mutexDead, flushLock, target, woffset, pending,
                       nrec, irec, flushed, disk, closeId, reader, fatal, restarts>>

AppendRecord(s) ==
    LET h == HeadFor(s)
        r == [id |-> nextId, chunk |-> h, off |-> OffsetFor(s), size |-> s]
    IN  /\ Alive /\ ~mutexDead
        /\ nextId <= MaxRecords
        /\ newHead \in Chunks /\ h \in Chunks
        /\ newHead' = h
        /\ SpawnFlush(s)
        /\ wbuf' = [wbuf EXCEPT ![h] = Append(@, r)]
        /\ writingHead' = [writingHead EXCEPT ![h] = @ + s]
        /\ size' = [size EXCEPT ![h] = writingHead[h] + s]
        /\ wbufSize' = wbufSize + s
        /\ appended' = appended \cup {r}
        /\ nextId' = nextId + 1
        /\ UNCHANGED <<state, mutexDead, flushLock, target, woffset, pending,
                       nrec, irec, flushed, disk, closeId, reader, fatal, restarts>>

\* A plausible bug: newHead is increased before it is used as an index.
PanicAfterIncrement(s) ==
    /\ Alive /\ ~mutexDead
    /\ \/ newHead \notin Chunks /\ newHead' = newHead + 1 /\ UNCHANGED pc
       \/ /\ newHead \in Chunks /\ HeadFor(s) \notin Chunks
          /\ newHead' = newHead + 1
          /\ SpawnFlush(s)
    /\ mutexDead' = TRUE
    /\ UNCHANGED <<state, size, writingHead, wbuf, wbufSize, flushLock, target,
                   woffset, pending, nrec, irec, flushed, disk, history,
                   reader, fatal, restarts>>

\* Past the last chunk ds.chunks[ds.newHead] panics with ds.Mutex held; the
\* connection recovers, the mutex stays locked.
AppendPanic(s) ==
    /\ Alive /\ ~mutexDead
    /\ \/ newHead \notin Chunks /\ UNCHANGED <<newHead, pc>>
       \/ /\ newHead \in Chunks /\ HeadFor(s) \notin Chunks
          /\ newHead' = newHead + 1
          /\ SpawnFlush(s)
    /\ mutexDead' = TRUE
    /\ UNCHANGED <<state, size, writingHead, wbuf, wbufSize, flushLock, target,
                   woffset, pending, nrec, irec, flushed, disk, history,
                   reader, fatal, restarts>>

-----------------------------------------------------------------------------
(* dataStore.flush *)

FlushTick ==
    /\ Alive /\ pc[Bg] = "idle"
    /\ pc' = [pc EXCEPT ![Bg] = "start"]
    /\ UNCHANGED <<state, memory, flushLock, target, woffset, pending, nrec,
                   irec, flushed, disk, history, reader, fatal, restarts>>

\* The test of wbufSize before flushLock is taken.
FlushCheck(f) ==
    /\ Alive /\ pc[f] = "start"
    /\ pc' = [pc EXCEPT ![f] = IF wbufSize = 0 THEN "idle" ELSE "lock"]
    /\ UNCHANGED <<state, memory, flushLock, target, woffset, pending, nrec,
                   irec, flushed, disk, history, reader, fatal, restarts>>

\* A plausible bug: a forced flush may be put off too.
FlushSkipForced(f) ==
    /\ Alive /\ pc[f] = "lock" /\ flushLock = NoOne /\ ~mutexDead
    /\ \/ wbufSize = 0
       \/ wbufSize < FlushNow
    /\ pc' = [pc EXCEPT ![f] = "idle"]
    /\ UNCHANGED <<state, memory, flushLock, target, woffset, pending, nrec,
                   irec, flushed, disk, history, reader, fatal, restarts>>

\* flushLock taken and given back: nothing to flush, or it is too early.
FlushSkip(f) ==
    /\ Alive /\ pc[f] = "lock" /\ flushLock = NoOne /\ ~mutexDead
    /\ \/ wbufSize = 0
       \/ f = Bg /\ wbufSize < FlushNow
    /\ pc' = [pc EXCEPT ![f] = "idle"]
    /\ UNCHANGED <<state, memory, flushLock, target, woffset, pending, nrec,
                   irec, flushed, disk, history, reader, fatal, restarts>>

FlushStart(f) ==
    /\ Alive /\ pc[f] = "lock" /\ flushLock = NoOne /\ ~mutexDead
    /\ wbufSize # 0
    /\ flushLock' = f
    /\ target' = IF f \in Chunks THEN f ELSE newHead
    /\ pc' = [pc EXCEPT ![f] = "open"]
    /\ UNCHANGED <<state, memory, woffset, pending, nrec, irec, flushed, disk,
                   history, reader, fatal, restarts>>

\* GetStreamWriter(chunk, true): create the file or seek to its end.
OpenWriter(f) ==
    /\ Alive /\ pc[f] = "open"
    /\ exists' = [exists EXCEPT ![target] = TRUE]
    /\ woffset' = fsize[target]
    /\ pending' = << >>
    /\ pc' = [pc EXCEPT ![f] = "len"]
    /\ UNCHANGED <<state, memory, flushLock, target, nrec, irec, flushed,
                   fsize, content, aligned, history, reader, fatal, restarts>>

\* logger.Fatalf exits the process.
Fatalf(branch) == fatal' = branch /\ StopAs("down")

\* getDiskFileSize, which takes no lock: a buffer seen non-empty gives the
\* offset of its first record, which the file must end at.
SizeFromBuffer(f) ==
    /\ Alive /\ pc[f] = "len" /\ wbuf[target] # << >>
    /\ IF woffset = wbuf[target][1].off
       THEN /\ pc' = [pc EXCEPT ![f] = "count"]
            /\ UNCHANGED <<state, memory, flushLock, target, woffset, pending,
                           nrec, irec, flushed, disk, reader, fatal>>
       ELSE Fatalf("wbuf")
    /\ UNCHANGED <<history, restarts>>

SeeEmptyBuffer(f) ==
    /\ Alive /\ pc[f] = "len" /\ wbuf[target] = << >>
    /\ pc' = [pc EXCEPT ![f] = "size"]
    /\ UNCHANGED <<state, memory, flushLock, target, woffset, pending, nrec,
                   irec, flushed, disk, history, reader, fatal, restarts>>

\* ... a buffer seen empty gives dc.size, read later: an append may have come
\* in between.
SizeFromChunk(f) ==
    /\ Alive /\ pc[f] = "size"
    /\ IF woffset = size[target]
       THEN /\ pc' = [pc EXCEPT ![f] = "count"]
            /\ UNCHANGED <<state, memory, flushLock, target, woffset, pending,
                           nrec, irec, flushed, disk, reader, fatal>>
       ELSE Fatalf("size")
    /\ UNCHANGED <<history, restarts>>

-----------------------------------------------------------------------------
(* dataChunk.flush *)

FlushCount(f) ==
    /\ Alive /\ pc[f] = "count"
    /\ nrec' = Len(wbuf[target]) /\ irec' = 0 /\ flushed' = 0
    /\ pc' = [pc EXCEPT ![f] = IF wbuf[target] = << >> THEN "sync" ELSE "write"]
    /\ UNCHANGED <<state, memory, flushLock, target, woffset, pending, disk,
                   history, reader, fatal, restarts>>

WriteRecord(f) ==
    LET r == wbuf[target][irec + 1]
    IN  /\ Alive /\ pc[f] = "write"
        /\ pending' = Append(pending, r)
        /\ flushed' = flushed + r.size
        /\ irec' = irec + 1
        /\ pc' = [pc EXCEPT ![f] = IF irec + 1 = nrec THEN "sync" ELSE "write"]
        /\ UNCHANGED <<state, memory, flushLock, target, woffset, nrec, disk,
                       history, reader, fatal, restarts>>

\* The bufio.Writer passes its oldest record on to the file: when it is full,
\* at any time, and in w.wbuf.Flush, which is over when nothing is pending.
WriteOut(f) ==
    LET r == Head(pending)
    IN  /\ Alive /\ pc[f] \in {"write", "sync"} /\ pending # << >>
        /\ content' = [content EXCEPT ![target] =
                          @ \cup {[rec |-> r, at |-> fsize[target]]}]
        /\ fsize' = [fsize EXCEPT ![target] = @ + r.size]
        /\ pending' = Tail(pending)
        /\ UNCHANGED <<state, memory, flushLock, pc, target, woffset, nrec,
                       irec, flushed, exists, aligned, history, reader, fatal,
                       restarts>>

\* A plausible bug: the buffer is dropped before bufio has been flushed.
TrimUnsynced(f) ==
    /\ Alive /\ pc[f] = "sync"
    /\ pc' = [pc EXCEPT ![f] = "trim"]
    /\ UNCHANGED <<state, memory, flushLock, target, woffset, pending, nrec,
                   irec, flushed, disk, history, reader, fatal, restarts>>

Synced(f) ==
    /\ Alive /\ pc[f] = "sync" /\ pending = << >>
    /\ pc' = [pc EXCEPT ![f] = "trim"]
    /\ UNCHANGED <<state, memory, flushLock, target, woffset, pending, nrec,
                   irec, flushed, disk, history, reader, fatal, restarts>>

Trim(f) ==
    /\ Alive /\ pc[f] = "trim"
    /\ wbuf' = [wbuf EXCEPT ![target] = SubSeq(@, nrec + 1, Len(@))]
    /\ pc' = [pc EXCEPT ![f] = "account"]
    /\ UNCHANGED <<state, newHead, size, writingHead, wbufSize, mutexDead,
                   flushLock, target, woffset, pending, nrec, irec, flushed,
                   disk, history, reader, fatal, restarts>>

\* A plausible bug: wbufSize is reset although appends went on meanwhile.
AccountReset(f) ==
    /\ Alive /\ pc[f] = "account" /\ ~mutexDead
    /\ wbufSize' = 0
    /\ flushLock' = NoOne
    /\ pc' = [pc EXCEPT ![f] = "idle"]
    /\ UNCHANGED <<state, newHead, size, writingHead, wbuf, mutexDead, target,
                   woffset, pending, nrec, irec, flushed, disk, history,
                   reader, fatal, restarts>>

Account(f) ==
    /\ Alive /\ pc[f] = "account" /\ ~mutexDead
    /\ wbufSize' = wbufSize - flushed
    /\ flushLock' = NoOne
    /\ pc' = [pc EXCEPT ![f] = "idle"]
    /\ UNCHANGED <<state, newHead, size, writingHead, wbuf, mutexDead, target,
                   woffset, pending, nrec, irec, flushed, disk, history,
                   reader, fatal, restarts>>

-----------------------------------------------------------------------------
(* dataChunk.GetRecordByOffset, called with the position of a live record. *)

\* The position is in the part of the chunk that the buffer holds.
InBuffer(r) ==
    LET b == wbuf[r.chunk]
    IN  b # << >> /\ r.off >= b[1].off /\ r.off < writingHead[r.chunk]

\* sort.Search finds the record buffered at that very offset.
BufferHas(r) ==
    \E i \in 1 .. Len(wbuf[r.chunk]) : wbuf[r.chunk][i] = r

ReadBuffer(r) ==
    /\ Alive /\ reader = NoRead
    /\ reader' = IF ~InBuffer(r) THEN [at |-> "file", rec |-> r]
                 ELSE IF BufferHas(r) THEN NoRead
                 ELSE [at |-> "bad", rec |-> r]
    /\ UNCHANGED <<state, memory, flushing, disk, history, fatal, restarts>>

\* readRecordAtPath, with no lock held.
ReadFile ==
    /\ Alive /\ reader.at = "file"
    /\ reader' = IF OnDisk(reader.rec) THEN NoRead
                 ELSE [at |-> "bad", rec |-> reader.rec]
    /\ UNCHANGED <<state, memory, flushing, disk, history, fatal, restarts>>

-----------------------------------------------------------------------------
(* Stopping and starting *)

\* A plausible bug: close relies on the last periodic flush.
CloseUnflushed ==
    /\ state = "running"
    /\ state' = "closing"
    /\ pc' = pc
    /\ closeId' = nextId
    /\ UNCHANGED <<memory, flushLock, target, woffset, pending, nrec, irec,
                   flushed, disk, appended, nextId, reader, fatal, restarts>>

\* main calls HStore.Close when Server.Serve has returned, which waits two
\* seconds for the connections to end: requests may still come in.
Close ==
    /\ state = "running"
    /\ state' = "closing"
    /\ pc' = [pc EXCEPT ![Closer] = "start"]
    /\ closeId' = nextId
    /\ UNCHANGED <<memory, flushLock, target, woffset, pending, nrec, irec,
                   flushed, disk, appended, nextId, reader, fatal, restarts>>

\* main returns after Close, whatever other goroutines are doing.
Exit ==
    /\ state = "closing" /\ pc[Closer] = "idle"
    /\ StopAs("closed")
    /\ UNCHANGED <<history, fatal, restarts>>

Crash ==
    /\ Alive
    /\ StopAs("down")
    /\ UNCHANGED <<history, fatal, restarts>>

\* A plausible bug: appends go on in the newest data file.
ReuseNewest(h) ==
    /\ \A c \in Chunks : c > h => ~exists[c]
    /\ h \in Chunks /\ (h > 0 => exists[h])

\* The head after the newest data file.
NextFree(h) ==
    /\ \A c \in Chunks : c >= h => ~exists[c]
    /\ h > 0 => exists[h - 1]

\* NewdataStore and ListFiles.
Open ==
    /\ state \in {"closed", "down"} /\ restarts < MaxRestarts
    /\ restarts' = restarts + 1
    /\ \/ /\ \A c \in Chunks : aligned[c]
          /\ state' = "running"
          /\ size' = fsize
          /\ writingHead' = fsize
          /\ \E h \in 0 .. NumChunks : NextFree(h) /\ newHead' = h
          /\ appended' = {r \in appended : OnDisk(r)}
       \/ /\ \E c \in Chunks : ~aligned[c]
          /\ state' = "refused"
          /\ UNCHANGED <<newHead, size, writingHead, appended>>
    /\ UNCHANGED <<wbuf, wbufSize, mutexDead, flushing, disk, nextId, closeId,
                   reader, fatal>>

Next ==
    \/ \E s \in Sizes : AppendRecord(s) \/ AppendPanic(s)
    \/ FlushTick
    \/ \E f \in Flushers :
          \/ FlushCheck(f) \/ FlushSkip(f) \/ FlushStart(f) \/ OpenWriter(f)
          \/ SizeFromBuffer(f) \/ SeeEmptyBuffer(f) \/ SizeFromChunk(f)
          \/ FlushCount(f) \/ WriteRecord(f) \/ WriteOut(f) \/ Synced(f)
          \/ Trim(f) \/ Account(f)
    \/ \E r \in appended : ReadBuffer(r)
    \/ ReadFile
    \/ Close \/ Exit \/ Crash \/ Open

Spec == Init /\ [][Next]_vars

\* Go schedules every goroutine, its mutexes do not starve a waiter, and the
\* flusher's timer and FlushInterval run out again and again.
Fairness ==
    /\ WF_vars(FlushTick)
    /\ \A f \in Flushers :
          /\ WF_vars(FlushCheck(f))
          /\ SF_vars(FlushStart(f))
          /\ WF_vars(OpenWriter(f))
          /\ WF_vars(SizeFromBuffer(f) \/ SeeEmptyBuffer(f))
          /\ WF_vars(SizeFromChunk(f))
          /\ WF_vars(FlushCount(f) \/ WriteRecord(f))
          /\ WF_vars(WriteOut(f))
          /\ WF_vars(Synced(f) \/ Trim(f) \/ Account(f))

FairSpec == Spec /\ Fairness

-----------------------------------------------------------------------------
(* Properties *)

\* Every whole record in a data file is in the chunk, and at the offset, that
\* AppendRecord handed out for it, which is where the hash tree and the hints
\* say it is; rotation, flushes and restarts in any order keep it so.
StoredWhereIndexed ==
    \A c \in Chunks : \A e \in content[c] : e.rec.chunk = c /\ e.at = e.rec.off

\* GetRecordByOffset finds every acknowledged record, although it looks in the
\* buffer under the lock and in the file after it, while a flush moves records
\* from one to the other.
ReadCorrect == reader.at # "bad"

\* When flush sees a non-empty buffer, the file ends where the buffer begins:
\* the size check of flush never fails in that branch.
BufferMeetsFile == fatal # "wbuf"

\* The buffer of a chunk that is no longer the head has its flush goroutine on
\* the way: the early returns of flush never leave a rotated buffer behind.
RotatedBufferHasFlusher ==
    Alive => \A c \in Chunks :
        c # newHead /\ wbuf[c] # << >> => pc[c] # "idle"

\* When Bucket.close has flushed, a record acknowledged before it was called is
\* on disk or in a rotated chunk whose own flush goroutine has not finished.
CloseFlushesHead ==
    state = "closing" /\ pc[Closer] = "idle" =>
        \A r \in appended : r.id < closeId =>
            OnDisk(r) \/ (r.chunk # newHead /\ pc[r.chunk] # "idle")

\* What chunk c has buffered, in blocks: the buffer is contiguous and ends at
\* writingHead.
Buffered(c) == IF wbuf[c] = << >> THEN 0 ELSE writingHead[c] - wbuf[c][1].off
AllBuffered ==
    LET sum[n \in 0 .. NumChunks] == IF n = 0 THEN 0 ELSE sum[n - 1] + Buffered(n - 1)
    IN  sum[NumChunks]

\* dataStore.wbufSize is the size of all buffers together, plus what a flush
\* has dropped from its buffer and not yet subtracted.
WbufSizeExact ==
    Alive => wbufSize = AllBuffered
                + (IF \E f \in Flushers : pc[f] = "account" THEN flushed ELSE 0)

\* A file that ends in the torn part of a record is never written again: after
\* a restart appends go to a new chunk.
Torn(c) ==
    /\ fsize[c] # 0
    /\ \A e \in content[c] : e.at + e.rec.size # fsize[c]
TornFileSealed ==
    [][\A c \in Chunks : Torn(c) => content'[c] = content[c] /\ fsize'[c] = fsize[c]]_vars

-----------------------------------------------------------------------------
(* What should hold and does not (README, section 4) *)

\* getDiskFileSize agrees with the file: logger.Fatalf("wrong data file size")
\* is never reached.
NoFatalf == fatal = "no"

\* A bucket that was closed has every record on disk that was acknowledged
\* before close was called, as its comment "data already flushed" has it.
NothingLostAtClose ==
    state = "closed" => \A r \in appended : r.id < closeId => OnDisk(r)

\* Every acknowledged record reaches its file unless the process stops or the
\* chunks are used up.
AppendedIsFlushed ==
    \A i \in 1 .. MaxRecords :
        (\E r \in appended : r.id = i)
            ~> ((\E r \in appended : r.id = i /\ OnDisk(r)) \/ ~Alive \/ mutexDead)
=============================================================================
