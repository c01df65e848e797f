-------------------------------- MODULE Hints --------------------------------
(***************************************************************************)
(* The hints of a bucket and its recovery: store/hint.go, hintindex.go,    *)
(* hintfile.go, and open and close of store/bucket.go.                     *)
(*                                                                         *)
(* Every record that is appended gets a hint in the buffer of the last     *)
(* split of its chunk.  Full buffers, and in the end all of them, are      *)
(* dumped to hint files, without the chunk's lock, by the hint dumper and  *)
(* by close.  close also dumps the hash tree, under the number of the last *)
(* hint file it contains.  After a restart the tree is the tree file, then *)
(* the hint files behind it, then the data no hint file covers.            *)
(*                                                                         *)
(* A record has size 1, record n of chunk c the position Pos(c, n); splits *)
(* are counted from 1.  Data goes to its file in the order of appends, see *)
(* DataStore; how far it got is chosen when the process ends.              *)
(***************************************************************************)
EXTENDS Integers, Sequences, FiniteSets, FiniteSetsExt, SequencesExt

CONSTANTS
    Keys,
    NumChunks,    \* MAX_NUM_CHUNK
    DataFileMax,  \* records of a data file
    SplitCap,     \* Conf.SplitCap
    MaxWrites,    \* bound: sets and deletes
    MaxRestarts,  \* bound: restarts
    MaxFails      \* bound: dumps that fail

ASSUME HintsAssumption ==
    /\ NumChunks \in Nat \ {0} /\ DataFileMax \in Nat \ {0} /\ SplitCap \in Nat \ {0}
    /\ MaxWrites \in Nat /\ MaxRestarts \in Nat /\ MaxFails \in Nat

Chunks == 0 .. NumChunks - 1
\* A split per record, and those open loads a second time (see CheckBehind).
SplitIds == 1 .. 2 * DataFileMax
Dumpers == {"dumper", "closer"}

Pos(c, n) == c * DataFileMax + n
NoPos == 0
ChunkOf(p) == (p - 1) \div DataFileMax
NumberOf(p) == p - ChunkOf(p) * DataFileMax

\* A hint buffer or the file it becomes: the last item of each key, and up to
\* where in the data file it reaches (maxoffset, datasize).
Hint(items, end) == [items |-> items, end |-> end]
EmptyBuffer == Hint(<< >>, 0)
None == Hint(<< >>, -1)
Split(buf, file) == [buf |-> buf, file |-> file]
NewSplit == Split(EmptyBuffer, None)

\* HintID.  NoTreeID is that of a bucket without a tree file.
HintID(c, s) == [chunk |-> c, split |-> s]
NoTreeID == HintID(0, 0)
IsLarger(id, other) ==
    other.chunk > id.chunk \/ (other.chunk = id.chunk /\ other.split >= id.split)
Larger(id, other) == IF IsLarger(id, other) THEN other ELSE id

VARIABLES
    data,        \* records appended, by chunk
    flushed,     \* how many of them are known to be in the file
    hfile,       \* hint files, by chunk and split
    tfile,       \* the tree file: its name and what it holds
    proc,        \* down, opening, up, closing, dumptree, treeremoved, closed
    step,        \* the chunk open looks at
    head,        \* dataStore.newHead
    tree,        \* the position the hash tree has for a key
    splits,      \* hintChunk.splits
    dirty,       \* hintChunk.lastTS # 0
    maxChunkID, maxDumped,   \* hintMgr's
    treeID,      \* Bucket.TreeID
    bg,          \* the next chunk of the goroutine open starts
    loaded,      \* history: chunks whose hint files are in splits
    frame,       \* dumper and closer in trydump
    writer,      \* the set or delete under way
    reader,      \* a lookup by getItem
    writes, restarts, fails,
    ahead,       \* history: a process ended with hints of data that was not in the file
    gap          \* history: a tree file got a number behind that of a lost hint file

disk == <<data, flushed, hfile, tfile>>
index == <<tree, treeID>>
hints == <<splits, dirty, maxChunkID, maxDumped, bg, loaded>>
counters == <<writes, restarts, fails, ahead, gap>>
vars == <<disk, proc, step, head, index, hints, frame, writer, reader, counters>>

Idle == [at |-> "idle", chunk |-> 0, j |-> 0, l |-> 0]
NoWriter == [at |-> "idle", key |-> "none", live |-> FALSE, pos |-> NoPos]
NoReader == [at |-> "idle", key |-> "none", chunk |-> 0, split |-> 0,
             floor |-> NoPos, got |-> NoPos]
NoTree == [id |-> HintID(-1, 0), tree |-> [k \in Keys |-> NoPos]]

Init ==
    /\ data = [c \in Chunks |-> << >>] /\ flushed = [c \in Chunks |-> 0]
    /\ hfile = [c \in Chunks |-> [s \in SplitIds |-> None]]
    /\ tfile = NoTree
    /\ proc = "down" /\ step = 0 /\ head = 0
    /\ tree = [k \in Keys |-> NoPos] /\ treeID = NoTreeID
    /\ splits = [c \in Chunks |-> <<NewSplit>>] /\ dirty = [c \in Chunks |-> FALSE]
    /\ maxChunkID = 0 /\ maxDumped = NoTreeID /\ bg = 0 /\ loaded = {}
    /\ frame = [g \in Dumpers |-> Idle]
    /\ writer = NoWriter /\ reader = NoReader
    /\ writes = 0 /\ restarts = 0 /\ fails = 0 /\ ahead = FALSE /\ gap = FALSE

Running == proc \in {"up", "closing", "dumptree", "treeremoved", "closed"}

-----------------------------------------------------------------------------
(* hintChunk.setItem *)

Fits(buf, k) == k \in DOMAIN buf.items \/ Cardinality(DOMAIN buf.items) < SplitCap

BufferSet(buf, k, item) ==
    Hint([x \in DOMAIN buf.items \cup {k} |-> IF x = k THEN item ELSE buf.items[x]],
         Max({buf.end, item.n}))

\* A plausible bug: a full split counts the record it refused.
SetItemCounted(ss, k, item) ==
    IF Fits(Last(ss).buf, k)
    THEN [ss EXCEPT ![Len(ss)].buf = BufferSet(@, k, item)]
    ELSE Append([ss EXCEPT ![Len(ss)].buf.end = Max({@, item.n})],
                Split(BufferSet(EmptyBuffer, k, item), None))

\* The last split takes the item, or, when it is full, a new one does.
SetItem(ss, k, item) ==
    IF Fits(Last(ss).buf, k)
    THEN [ss EXCEPT ![Len(ss)].buf = BufferSet(@, k, item)]
    ELSE Append([ss EXCEPT ![Len(ss)].buf.end = Max({@, item.n - 1})],
                Split(BufferSet(EmptyBuffer, k, item), None))

-----------------------------------------------------------------------------
(* Bucket.set and dataStore *)

\* The tree has the key, and not as deleted.
Present(k) ==
    LET p == tree[k]
    IN  p # NoPos /\ (NumberOf(p) <= Len(data[ChunkOf(p)]) => data[ChunkOf(p)][NumberOf(p)].live)

\* The record gets its position, in the next chunk when the head is full.  A
\* delete of a key that is not there is refused.
AppendRecord(k, live) ==
    LET c == IF head \in Chunks /\ Len(data[head]) = DataFileMax THEN head + 1 ELSE head
    IN  /\ Running /\ writer.at = "idle" /\ writes < MaxWrites
        /\ live \/ Present(k)
        /\ c \in Chunks
        /\ data' = [data EXCEPT ![c] = Append(@, [key |-> k, live |-> live])]
        /\ head' = c
        /\ writer' = [at |-> "tree", key |-> k, live |-> live, pos |-> Pos(c, Len(data[c]) + 1)]
        /\ writes' = writes + 1
        /\ UNCHANGED <<flushed, hfile, tfile, proc, step, index, hints, frame, reader,
                       restarts, fails, ahead, gap>>

SetTree ==
    /\ Running /\ writer.at = "tree"
    /\ tree' = [tree EXCEPT ![writer.key] = writer.pos]
    /\ writer' = [writer EXCEPT !.at = "hint"]
    /\ UNCHANGED <<disk, proc, step, head, treeID, hints, frame, reader, counters>>

\* hintMgr.set and setItem; a rotated split wakes the dumper.
SetHint ==
    LET c == ChunkOf(writer.pos)
    IN  /\ Running /\ writer.at = "hint"
        /\ splits' = [splits EXCEPT ![c] =
                        SetItem(@, writer.key, [n |-> NumberOf(writer.pos), live |-> writer.live])]
        /\ dirty' = [dirty EXCEPT ![c] = TRUE]
        /\ maxChunkID' = Max({maxChunkID, c})
        /\ writer' = NoWriter
        /\ UNCHANGED <<disk, proc, step, head, index, maxDumped, bg, loaded, frame, reader, counters>>

-----------------------------------------------------------------------------
(* hintMgr.trydump, by the dumper for all chunks and by close for all up to  *)
(* maxChunkID, with dumplast.                                                *)

NeedDump(s) == s.file = None /\ DOMAIN s.buf.items # {}
\* A split whose dump failed: needDump looks into the buffer that is gone.
Lost(s) == s.file = None /\ s.buf = None

\* Where trydump is in its chunk.  It notes the number of splits once, at its
\* beginning, and gives up the chunk's lock during each dump.
Limit(g) == IF frame[g].at = "enter" THEN Len(splits[frame[g].chunk]) ELSE frame[g].l
From(g) == IF frame[g].at = "enter" THEN 1 ELSE frame[g].j
ToDump(g) ==
    {j \in From(g) .. Limit(g) - 1 :
        LET s == splits[frame[g].chunk][j] IN NeedDump(s) \/ Lost(s)}
InChunk(g) == frame[g].at \in {"enter", "scan"} /\ proc # "down"

WriteSplit(g, j) ==
    frame' = [frame EXCEPT ![g] = [@ EXCEPT !.at = "write", !.j = j, !.l = Limit(g)]]

\* The end of trydump.  The dumper goes on with any chunk; close with the next.
NextChunk(g) ==
    LET c == frame[g].chunk + 1
        more == g = "closer" /\ c <= maxChunkID
    IN  /\ frame' = [frame EXCEPT ![g] = IF more THEN [Idle EXCEPT !.at = "enter", !.chunk = c] ELSE Idle]
        /\ proc' = IF g = "closer" /\ ~more THEN "dumptree" ELSE proc

\* dumpAndMerge comes to chunk c; where there is nothing to dump it changes nothing.
DumpRound(c) ==
    /\ Running /\ frame["dumper"] = Idle
    /\ \E s \in ToSet(splits[c]) : NeedDump(s) \/ Lost(s)
    /\ frame' = [frame EXCEPT !["dumper"] = [Idle EXCEPT !.at = "enter", !.chunk = c]]
    /\ UNCHANGED <<disk, proc, step, head, index, hints, writer, reader, counters>>

DumpOld(g) ==
    /\ InChunk(g) /\ ToDump(g) # {}
    /\ ~Lost(splits[frame[g].chunk][Min(ToDump(g))])
    /\ WriteSplit(g, Min(ToDump(g)))
    /\ UNCHANGED <<disk, proc, step, head, index, hints, writer, reader, counters>>

\* The last split is left alone in the newest chunk and in one where nothing was
\* set since its last dump ...
MayDumpLast(g) ==
    LET c == frame[g].chunk
    IN  (g = "closer" \/ c # maxChunkID) /\ dirty[c] /\ NeedDump(splits[c][Limit(g)])
Rotate(c) ==
    /\ splits' = [splits EXCEPT ![c] = Append(@, NewSplit)]
    /\ dirty' = [dirty EXCEPT ![c] = FALSE]

\* A plausible bug: the last split is dumped and goes on taking items.
DumpLastUnrotated(g) ==
    /\ InChunk(g) /\ ToDump(g) = {} /\ MayDumpLast(g)
    /\ WriteSplit(g, Limit(g))
    /\ UNCHANGED <<disk, proc, step, head, index, hints, writer, reader, counters>>

DumpLast(g) ==
    /\ InChunk(g) /\ ToDump(g) = {} /\ MayDumpLast(g)
    /\ Rotate(frame[g].chunk)
    /\ WriteSplit(g, Limit(g))
    /\ UNCHANGED <<disk, proc, step, head, index, maxChunkID, maxDumped, bg, loaded, writer, reader,
                   counters>>

\* ... and by the dumper when that was a moment ago.
LeaveChunk(g) ==
    /\ InChunk(g) /\ ToDump(g) = {}
    /\ g = "closer" => ~MayDumpLast(g)
    /\ NextChunk(g)
    /\ UNCHANGED <<disk, step, head, index, hints, writer, reader, counters>>

\* hintMgr.dump, without the chunk's lock: the file is written and renamed, ...
DumpFile(g) ==
    LET c == frame[g].chunk  j == frame[g].j
    IN  /\ frame[g].at = "write" /\ splits[c][j].buf # None
        /\ hfile' = [hfile EXCEPT ![c][j] = splits[c][j].buf]
        /\ splits' = [splits EXCEPT ![c][j].file = splits[c][j].buf]
        /\ frame' = [frame EXCEPT ![g].at = "forget"]
        /\ UNCHANGED <<data, flushed, tfile, proc, step, head, index, dirty, maxChunkID, maxDumped,
                       bg, loaded, writer, reader, counters>>

\* ... or cannot be created, which is not reported; ...
DumpFails(g) ==
    LET c == frame[g].chunk  j == frame[g].j
    IN  /\ frame[g].at = "write" /\ splits[c][j].buf # None /\ fails < MaxFails
        /\ fails' = fails + 1
        /\ frame' = [frame EXCEPT ![g].at = "failed"]
        /\ UNCHANGED <<disk, proc, step, head, index, hints, writer, reader, writes, restarts, ahead,
                       gap>>

\* ... the buffer is dropped.
DropBuffer(g) ==
    LET c == frame[g].chunk  j == frame[g].j
    IN  /\ frame[g].at \in {"forget", "failed"}
        /\ splits' = [splits EXCEPT ![c][j].buf = None]
        /\ maxDumped' = IF frame[g].at = "forget" THEN Larger(maxDumped, HintID(c, j)) ELSE maxDumped
        /\ IF j < frame[g].l
           THEN /\ frame' = [frame EXCEPT ![g] = [@ EXCEPT !.at = "scan", !.j = j + 1]]
                /\ proc' = proc
           ELSE NextChunk(g)
        /\ UNCHANGED <<disk, step, head, index, dirty, maxChunkID, bg, loaded, writer, reader, counters>>

-----------------------------------------------------------------------------
(* The end of a process *)

\* What the flushes may have got to the data files.
Survives ==
    {f \in [Chunks -> 0 .. DataFileMax] : \A c \in Chunks : flushed[c] <= f[c] /\ f[c] <= Len(data[c])}

\* The process is gone; the data files keep what was flushed, hint files and tree
\* file are left as they are.
Down ==
    \E f \in Survives :
    /\ proc' = "down" /\ step' = 0 /\ head' = 0
    /\ flushed' = f
    /\ data' = [c \in Chunks |-> SubSeq(data[c], 1, f[c])]
    /\ tree' = [k \in Keys |-> NoPos] /\ treeID' = NoTreeID
    /\ splits' = [c \in Chunks |-> <<NewSplit>>] /\ dirty' = [c \in Chunks |-> FALSE]
    /\ maxChunkID' = 0 /\ maxDumped' = NoTreeID /\ bg' = 0 /\ loaded' = {}
    /\ frame' = [g \in Dumpers |-> Idle]
    /\ writer' = NoWriter /\ reader' = NoReader
    /\ ahead' = \/ ahead
                \/ \E c \in Chunks : f[c] > 0 /\ \E s \in SplitIds : hfile'[c][s].end > f[c]
                \/ \E k \in Keys : LET p == tfile.tree[k]
                                   IN  p # NoPos /\ NumberOf(p) > f[ChunkOf(p)]
    /\ UNCHANGED <<tfile, writes, restarts, fails, gap>>

Crash == proc # "down" /\ restarts < MaxRestarts /\ hfile' = hfile /\ Down

\* The next split trydump looks at has lost its buffer, to a failed dump or to
\* the other goroutine.
BufferGone(g) ==
    LET c == frame[g].chunk
    IN  \/ InChunk(g) /\ ToDump(g) # {} /\ Lost(splits[c][Min(ToDump(g))])
        \/ /\ InChunk(g) /\ ToDump(g) = {} /\ dirty[c] /\ Lost(splits[c][Limit(g)])
           /\ g = "closer" \/ c # maxChunkID
        \/ frame[g].at = "write" /\ splits[c][frame[g].j].buf = None

\* dumpAndMerge recovers from the panic, close does not.
DumpPanics(g) ==
    /\ BufferGone(g)
    /\ IF g = "closer" THEN hfile' = hfile /\ Down
       ELSE /\ frame' = [frame EXCEPT ![g] = Idle]
            /\ UNCHANGED <<disk, proc, step, head, index, hints, writer, reader, counters>>

\* Bucket.close: the head chunk is flushed; without data files that is all.
Close ==
    /\ proc = "up"
    /\ flushed' = IF head \in Chunks THEN [flushed EXCEPT ![head] = Len(data[head])] ELSE flushed
    /\ IF \A c \in Chunks : data[c] = << >>
       THEN proc' = "closed" /\ frame' = frame
       ELSE /\ proc' = "closing"
            /\ frame' = [frame EXCEPT !["closer"] = [Idle EXCEPT !.at = "enter"]]
    /\ UNCHANGED <<data, hfile, tfile, step, head, index, hints, writer, reader, counters>>

\* Bucket.dumpHtree: the old tree file is removed, ...
RemoveTree ==
    /\ proc = "dumptree"
    /\ IF IsLarger(treeID, maxDumped)
       THEN tfile' = NoTree /\ treeID' = maxDumped /\ proc' = "treeremoved"
       ELSE UNCHANGED <<tfile, treeID>> /\ proc' = "closed"
    /\ UNCHANGED <<data, flushed, hfile, step, head, tree, hints, frame, writer, reader, counters>>

\* ... and the new one written and renamed.
DumpTree ==
    /\ proc = "treeremoved"
    /\ tfile' = [id |-> treeID, tree |-> tree]
    /\ proc' = "closed"
    /\ gap' = \/ gap
              \/ \E j \in 1 .. treeID.split :
                    j \in DOMAIN splits[treeID.chunk] /\ Lost(splits[treeID.chunk][j])
    /\ UNCHANGED <<data, flushed, hfile, step, head, index, hints, frame, writer, reader, writes,
                   restarts, fails, ahead>>

Exit == proc = "closed" /\ hfile' = hfile /\ Down

-----------------------------------------------------------------------------
(* Bucket.open *)

\* The newest data file, -1 if there is none; all files end where they were flushed.
MaxData == Max({-1} \cup {c \in Chunks : flushed[c] > 0})

\* The tree file, unless it is beyond the data.
OpenTree ==
    LET usable == tfile.id.chunk >= 0 /\ tfile.id.chunk <= MaxData
    IN  /\ proc = "down" /\ restarts < MaxRestarts
        /\ restarts' = restarts + 1
        /\ proc' = "opening"
        /\ head' = MaxData + 1
        /\ tfile' = IF usable THEN tfile ELSE NoTree
        /\ tree' = tfile'.tree
        /\ treeID' = IF usable THEN tfile.id ELSE NoTreeID
        /\ maxDumped' = treeID'
        /\ step' = treeID'.chunk
        /\ UNCHANGED <<data, flushed, hfile, splits, dirty, maxChunkID, bg, loaded, frame, writer,
                       reader, writes, fails, ahead, gap>>

\* findValidPaths: the files of the first splits, as far as there is no gap.
ValidPaths(c) ==
    IF data[c] = << >> THEN 0
    ELSE Max({0} \cup {n \in SplitIds : \A s \in 1 .. n : hfile[c][s] # None})

\* loadHintsByChunk: the files go before the split that takes new items.
LoadHints(c) ==
    LET files == [s \in 1 .. ValidPaths(c) |-> Split(None, hfile[c][s])]
    IN  Front(splits[c]) \o files \o <<Last(splits[c])>>
DataSize(c) == Max({0} \cup {hfile[c][s].end : s \in 1 .. ValidPaths(c)})

\* buildHintFromData: the records from start on are set one by one, ...
SetRecords(ss, d, start) ==
    LET built[n \in start .. Len(d)] ==
            IF n = start THEN ss
            ELSE SetItem(built[n - 1], d[n].key, [n |-> n, live |-> d[n].live])
    IN  built[Len(d)]

\* ... then all splits are dumped, unless the process ends before (BuildDies).
BuildHint(ss, c, start) ==
    LET built == SetRecords(ss, data[c], start)
    IN  [j \in DOMAIN built |->
            IF built[j].buf # None THEN Split(None, built[j].buf) ELSE built[j]] \o <<NewSplit>>

\* checkHintWithData: the splits of c with every record in a hint file.
CheckedSplits(c) ==
    IF DataSize(c) < Len(data[c]) THEN BuildHint(LoadHints(c), c, DataSize(c)) ELSE LoadHints(c)
RebuiltFiles(c) ==
    LET ss == CheckedSplits(c)
    IN  [s \in SplitIds |-> IF s <= ValidPaths(c) THEN hfile[c][s]
                            ELSE IF s >= Len(LoadHints(c)) /\ s < Len(ss) THEN ss[s].file ELSE None]
CheckHint(c) ==
    /\ splits' = [splits EXCEPT ![c] = CheckedSplits(c)]
    /\ hfile' = [hfile EXCEPT ![c] = RebuiltFiles(c)]
    /\ maxChunkID' = IF DataSize(c) < Len(data[c]) THEN Max({maxChunkID, c}) ELSE maxChunkID
    /\ loaded' = loaded \cup {c}

\* The process ends while it builds hints of c: it crashes, or open comes to a
\* split without a file because a dump failed, or the goroutine to a buffer the
\* dumper has dumped before it, and nothing recovers from the panic.  Some of the
\* files it was to write are there, others not.
BuildDies(c) ==
    /\ restarts < MaxRestarts /\ DataSize(c) < Len(data[c])
    /\ \/ proc = "opening" /\ c = step
       \/ Running /\ c = bg /\ bg < treeID.chunk
    /\ \E missing \in SUBSET {s \in SplitIds : s > ValidPaths(c)} :
          hfile' = [hfile EXCEPT ![c] =
                       [s \in SplitIds |-> IF s \in missing THEN None ELSE RebuiltFiles(c)[s]]]
    /\ Down

\* updateHtreeFromHint, for the files of c in order: a deleted key is removed.
UpdateTree(c, files) ==
    [k \in Keys |->
        LET having == {j \in DOMAIN files : k \in DOMAIN files[j].items}
            item == files[Max(having)].items[k]
        IN  IF having = {} THEN tree[k] ELSE IF item.live THEN Pos(c, item.n) ELSE NoPos]

\* A plausible bug: off by one in the number of the first split behind the tree file.
BehindOne(c) == IF c = treeID.chunk THEN treeID.split + 1 ELSE 0

\* The number of splits of c the tree file contains.
Behind(c) == IF c = treeID.chunk THEN treeID.split ELSE 0

OpenChunk ==
    LET c == step
        ss == CheckedSplits(c)
        num == Len(ss) - 1
        dumped == IF DataSize(c) < Len(data[c]) THEN Larger(maxDumped, HintID(c, num)) ELSE maxDumped
    IN  /\ proc = "opening" /\ c \in Chunks
        /\ CheckHint(c)
        /\ IF Behind(c) >= num THEN tree' = tree /\ maxDumped' = dumped
           ELSE /\ tree' = UpdateTree(c, [j \in 1 .. num |-> ss[j].file])
                /\ maxDumped' = HintID(c, Behind(c) + num)
        /\ step' = c + 1
        /\ UNCHANGED <<data, flushed, tfile, proc, head, treeID, dirty, bg, frame, writer, reader, counters>>

\* The bucket is open; without a tree file the tree is dumped.
OpenDone ==
    LET dump == tfile = NoTree /\ MaxData >= 0 /\ IsLarger(treeID, maxDumped)
    IN  /\ proc = "opening" /\ step = NumChunks
        /\ treeID' = IF dump THEN maxDumped ELSE treeID
        /\ tfile' = IF dump THEN [id |-> maxDumped, tree |-> tree] ELSE tfile
        /\ proc' = "up"
        /\ UNCHANGED <<data, flushed, hfile, step, head, tree, hints, frame, writer, reader, counters>>

\* The goroutine of open: the chunks before that of the tree file, also when the
\* tree has been dumped meanwhile and its number is a later one.  A chunk is one
\* step here, although the code holds the chunk's lock only for each item and
\* within trydump: the full splits it has not dumped yet the dumper may dump as
\* well, and a request may look them up.
CheckBehind ==
    /\ Running /\ bg < treeID.chunk
    /\ CheckHint(bg)
    /\ maxDumped' = IF DataSize(bg) < Len(data[bg])
                    THEN Larger(maxDumped, HintID(bg, Len(CheckedSplits(bg)) - 1)) ELSE maxDumped
    /\ bg' = bg + 1
    /\ UNCHANGED <<data, flushed, tfile, proc, step, head, index, dirty, frame, writer, reader, counters>>

-----------------------------------------------------------------------------
(* hintMgr.getItem *)

Newest(k) ==
    LET at(c) == {n \in 1 .. Len(data[c]) : data[c][n].key = k /\ Pos(c, n) # writer.pos}
    IN  Max({NoPos} \cup UNION {{Pos(c, n) : n \in at(c)} : c \in Chunks})

\* A lookup changes nothing: those are followed that begin before close, of keys
\* that have a hint within reach.
StartLookup(k) ==
    LET p == Newest(k)
    IN  /\ proc = "up" /\ reader.at = "idle"
        /\ p # NoPos /\ ChunkOf(p) <= maxChunkID /\ ChunkOf(p) \in loaded
        /\ reader' = [at |-> "mem", key |-> k, chunk |-> maxChunkID, split |-> 0, floor |-> p,
                      got |-> NoPos]
        /\ UNCHANGED <<disk, proc, step, head, index, hints, frame, writer, counters>>

\* getMemOnly, under the chunk's lock: the buffers, from the last split back to
\* the first that has none.
InBuffers(c) == {j \in DOMAIN splits[c] : \A i \in j .. Len(splits[c]) : splits[c][i].buf # None}
LookupMem ==
    LET c == reader.chunk
        hits == {j \in InBuffers(c) : reader.key \in DOMAIN splits[c][j].buf.items}
    IN  /\ reader.at = "mem"
        /\ reader' = IF hits # {}
                     THEN [reader EXCEPT !.at = "done",
                               !.got = Pos(c, splits[c][Max(hits)].buf.items[reader.key].n)]
                     ELSE [reader EXCEPT !.at = "file", !.split = Len(splits[c]) - Cardinality(InBuffers(c))]
        /\ UNCHANGED <<disk, proc, step, head, index, hints, frame, writer, counters>>

\* The buffer goes away between the test and its use: the request panics.
LookupPanics ==
    /\ reader.at = "mem"
    /\ \E g \in Dumpers : frame[g].at \in {"forget", "failed"} /\ frame[g].chunk = reader.chunk
    /\ reader' = NoReader
    /\ UNCHANGED <<disk, proc, step, head, index, hints, frame, writer, counters>>

\* The files of the other splits, without the lock, then the chunk before.
LookupFile ==
    LET c == reader.chunk
        hits == {j \in 1 .. reader.split : reader.key \in DOMAIN splits[c][j].file.items}
    IN  /\ reader.at = "file"
        /\ reader' = IF hits # {}
                     THEN [reader EXCEPT !.at = "done",
                               !.got = Pos(c, splits[c][Max(hits)].file.items[reader.key].n)]
                     ELSE IF c > 0 THEN [reader EXCEPT !.at = "mem", !.chunk = c - 1]
                     ELSE [reader EXCEPT !.at = "done"]
        /\ UNCHANGED <<disk, proc, step, head, index, hints, frame, writer, counters>>

LookupReturn ==
    /\ reader.at = "done"
    /\ reader' = NoReader
    /\ UNCHANGED <<disk, proc, step, head, index, hints, frame, writer, counters>>

Next ==
    \/ \E k \in Keys, live \in BOOLEAN : AppendRecord(k, live)
    \/ SetTree \/ SetHint
    \/ \E c \in Chunks : DumpRound(c)
    \/ \E g \in Dumpers : \/ DumpOld(g) \/ DumpLast(g) \/ LeaveChunk(g) \/ DumpFile(g)
                          \/ DumpFails(g) \/ DropBuffer(g) \/ DumpPanics(g)
    \/ Close \/ RemoveTree \/ DumpTree \/ Exit \/ Crash
    \/ OpenTree \/ OpenChunk \/ OpenDone \/ CheckBehind
    \/ \E c \in Chunks : BuildDies(c)
    \/ \E k \in Keys : StartLookup(k)
    \/ LookupMem \/ LookupPanics \/ LookupFile \/ LookupReturn

Spec == Init /\ [][Next]_vars

-----------------------------------------------------------------------------
(* Properties *)

TypeOK ==
    /\ \A c \in Chunks : flushed[c] \in 0 .. Len(data[c]) /\ Len(data[c]) <= DataFileMax
    /\ head \in 0 .. NumChunks /\ maxChunkID \in Chunks
    /\ \A k \in Keys : tree[k] \in NoPos .. Pos(NumChunks - 1, DataFileMax)
    /\ \A c \in Chunks : \A j \in DOMAIN splits[c] :
           \A h \in {splits[c][j].buf, splits[c][j].file} :
               Cardinality(DOMAIN h.items) <= SplitCap /\ h.end \in -1 .. DataFileMax
    /\ loaded \subseteq Chunks /\ bg \in 0 .. NumChunks

\* Position p is that of the newest record of k, or k is deleted and not there.
Leads(k, p) ==
    LET q == Newest(k)
    IN  p = q \/ (p = NoPos /\ ~data[ChunkOf(q)][NumberOf(q)].live)

\* Whatever hint files and tree file a crash or close left, and however far the
\* dumps had got, the tree of the reopened bucket leads to the newest record of
\* each key in the data files, unless hints or tree were ahead of the data or the
\* tree file had a number behind that of a hint file that could not be written.
Recovered ==
    Running /\ ~ahead /\ ~gap =>
        \A k \in Keys : (writer.at # "idle" => writer.key # k) => Leads(k, tree[k])

\* The hint files of a chunk tell of each key where its newest record is, among
\* the records they claim to cover: data that open does not read again.
HintsExact ==
    ~ahead => \A c \in Chunks : data[c] # << >> => \A s \in 1 .. ValidPaths(c) : \A k \in Keys :
        LET recs == {n \in 1 .. Max({hfile[c][i].end : i \in 1 .. s}) : data[c][n].key = k}
            having == {i \in 1 .. s : k \in DOMAIN hfile[c][i].items}
        IN  IF recs = {} THEN having = {}
            ELSE having # {} /\ hfile[c][Max(having)].items[k].n = Max(recs)

\* A lookup of a key finds a hint at least as new as the newest one at its
\* beginning, while splits rotate and are dumped beneath it, as long as no dump
\* failed.
LookupFresh ==
    reader.at = "done" /\ ~ahead /\ (\A c \in Chunks : \A j \in DOMAIN splits[c] : ~Lost(splits[c][j]))
        => reader.got >= reader.floor

-----------------------------------------------------------------------------
(* What should hold and does not (README, section 4) *)

\* Without conditions on how far the data was flushed and which dumps failed: the
\* reopened bucket leads to the newest record in the data files.
RecoveredAlways ==
    Running => \A k \in Keys : (writer.at # "idle" => writer.key # k) => Leads(k, tree[k])

\* Every key with a record has a hint within the reach of getItem.
AllWithinReach ==
    Running /\ writer.at = "idle" => \A k \in Keys : ChunkOf(Newest(k)) <= maxChunkID

\* As long as no dump fails, no trydump meets a split whose buffer is gone.
NoDumpPanic == \A g \in Dumpers : fails = 0 => ~BufferGone(g)
=============================================================================
