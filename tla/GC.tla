--------------------------------- MODULE GC ---------------------------------
(***************************************************************************)
(* Garbage collection of one bucket, store/gc.go, beside the requests it   *)
(* does not lock out: one writer (checkAndSet runs under writeLock) and    *)
(* one reader.                                                             *)
(*                                                                         *)
(* gc copies the records of the chunks begin .. end that the hash tree     *)
(* still points at to the chunk dst and, once a chunk has been read,       *)
(* removes its file.  When dst is the chunk it reads from, the file is     *)
(* overwritten from its start and cut to length when gc leaves it.         *)
(*                                                                         *)
(* Every record fills one block, so that an offset is a record number; the *)
(* files hold all that was appended (module DataStore shows how it gets    *)
(* there).  No two keys share a hash.  Hint files are left out: gc removes *)
(* the hash tree file and the hints of the chunks it reads, and a restart  *)
(* rebuilds the tree from hints where there are some and from the data     *)
(* after their datasize, which is a replay of the data files in order.     *)
(***************************************************************************)
EXTENDS Integers, Sequences, FiniteSets, FiniteSetsExt

CONSTANTS
    Keys,
    NumChunks,    \* MAX_NUM_CHUNK
    DataFileMax,  \* Conf.DataFileMax, in records
    DstRoom,      \* Conf.DataFileMax - MCConf.BodyMax: a smaller chunk takes more
    MaxWrites,    \* bound: records clients write
    MaxGCs,       \* bound: how often gc is started
    MaxCrashes    \* bound: how often the process dies

ASSUME GCAssumption ==
    /\ Keys # {}
    /\ NumChunks \in Nat \ {0}
    /\ DataFileMax \in Nat \ {0}
    /\ DstRoom \in 0 .. DataFileMax
    /\ MaxWrites \in Nat /\ MaxGCs \in Nat /\ MaxCrashes \in Nat

Chunks == 0 .. NumChunks - 1

\* A record: the write it comes from, and whether it is a value or a tombstone.
Records == [key : Keys, id : 1 .. MaxWrites, live : BOOLEAN]
Positions == [chunk : Chunks, off : Nat]
\* A hash tree item: a position and the sign of the version.
None == [pos |-> [chunk |-> 0, off |-> 0], live |-> FALSE, found |-> FALSE]
Items == [pos : Positions, live : BOOLEAN, found : BOOLEAN]

VARIABLES
    file,      \* the data file of each chunk; its length is dataChunk.size
    newHead,   \* the chunk that takes appends
    tree,      \* the hash tree
    writer,    \* the request that holds writeLock, after its append
    reader,    \* a get, between its lookup and its answer
    gc,        \* GCState and the local variables of gc
    acked,     \* history: the last record of each key that clients know of
    nextId,
    raced,     \* history: keys written while gc was moving them
    torn,      \* history: a rewrite of a chunk was given up halfway, by a crash or a cancel
    gcs, crashes

vars == <<file, newHead, tree, writer, reader, gc, acked, nextId, raced, torn, gcs, crashes>>

NoRec == [key |-> CHOOSE k \in Keys : TRUE, id |-> 0, live |-> FALSE]
\* What a get that fails returns.
Failed == [NoRec EXCEPT !.id = -1]
NoWrite == [at |-> "idle", rec |-> NoRec, pos |-> None.pos]
NoRead == [at |-> "idle", key |-> NoRec.key, item |-> None, floor |-> NoRec, got |-> NoRec]
NoGC == [at |-> "idle", begin |-> 0, end |-> 0, src |-> 0, dst |-> 0, off |-> 0,
         writingHead |-> 0, rewriting |-> FALSE, rec |-> NoRec, found |-> FALSE,
         newPos |-> None.pos, live |-> FALSE, cancel |-> FALSE]

KnownRecords == Records \cup {NoRec}
GCStates ==
    [at : {"idle", "chunk", "read", "place", "getpos", "setpos", "after"},
     begin : Chunks, end : Chunks, src : 0 .. NumChunks, dst : Chunks, off : Nat,
     writingHead : 0 .. DataFileMax, rewriting : BOOLEAN, rec : KnownRecords,
     found : BOOLEAN, newPos : Positions, live : BOOLEAN, cancel : BOOLEAN]

TypeOK ==
    /\ file \in [Chunks -> Seq(Records)]
    /\ \A c \in Chunks : Len(file[c]) <= DataFileMax
    /\ newHead \in 0 .. NumChunks
    /\ tree \in [Keys -> Items]
    /\ writer \in [at : {"idle", "tree"}, rec : KnownRecords, pos : Positions]
    /\ reader \in [at : {"idle", "file", "done"}, key : Keys, item : Items,
                   floor : KnownRecords, got : KnownRecords \cup {Failed}]
    /\ gc \in GCStates
    /\ acked \in [Keys -> KnownRecords]
    /\ nextId \in 1 .. MaxWrites + 1
    /\ raced \subseteq Keys /\ torn \in BOOLEAN
    /\ gcs \in 0 .. MaxGCs /\ crashes \in 0 .. MaxCrashes

Init ==
    /\ file = [c \in Chunks |-> << >>]
    /\ newHead = 0
    /\ tree = [k \in Keys |-> None]
    /\ writer = NoWrite /\ reader = NoRead /\ gc = NoGC
    /\ acked = [k \in Keys |-> NoRec]
    /\ nextId = 1
    /\ raced = {} /\ torn = FALSE
    /\ gcs = 0 /\ crashes = 0

HasRecord(p) == p.off < Len(file[p.chunk])
At(p) == file[p.chunk][p.off + 1]

-----------------------------------------------------------------------------
(* Requests *)

\* checkAndSet up to AppendRecord, in the head chunk or the one after it.
WriteAppend(k, live) ==
    LET c == IF Len(file[newHead]) = DataFileMax THEN newHead + 1 ELSE newHead
        r == [key |-> k, id |-> nextId, live |-> live]
    IN  /\ writer.at = "idle" /\ nextId <= MaxWrites
        /\ ~live => tree[k].found /\ tree[k].live
        /\ newHead \in Chunks /\ c \in Chunks
        /\ newHead' = c
        /\ file' = [file EXCEPT ![c] = Append(@, r)]
        /\ writer' = [at |-> "tree", rec |-> r, pos |-> [chunk |-> c, off |-> Len(file[c])]]
        /\ nextId' = nextId + 1
        /\ UNCHANGED <<tree, reader, gc, acked, raced, torn, gcs, crashes>>

\* gc has looked the key up and not yet put its position into the tree.
Moving(k) == gc.at \in {"place", "getpos", "setpos"} /\ gc.found /\ gc.rec.key = k

\* HTree.set; the write is acknowledged.
WriteTree ==
    LET k == writer.rec.key
    IN  /\ writer.at = "tree"
        /\ tree' = [tree EXCEPT ![k] =
                      [pos |-> writer.pos, live |-> writer.rec.live, found |-> TRUE]]
        /\ acked' = [acked EXCEPT ![k] = writer.rec]
        /\ raced' = IF Moving(k) THEN raced \cup {k} ELSE raced
        /\ writer' = NoWrite
        /\ UNCHANGED <<file, newHead, reader, gc, nextId, torn, gcs, crashes>>

\* Bucket.get: the tree first, ...
ReadTree(k) ==
    /\ reader.at = "idle"
    /\ reader' = [at |-> IF tree[k].found THEN "file" ELSE "done", key |-> k,
                  item |-> tree[k], floor |-> acked[k], got |-> NoRec]
    /\ UNCHANGED <<file, newHead, tree, writer, gc, acked, nextId, raced, torn, gcs, crashes>>

\* ... then the record; a missing file or another key's record is an error.
ReadFile ==
    LET p == reader.item.pos
    IN  /\ reader.at = "file"
        /\ reader' = [reader EXCEPT !.at = "done",
                        !.got = IF HasRecord(p) /\ At(p).key = reader.key THEN At(p)
                                ELSE Failed]
        /\ UNCHANGED <<file, newHead, tree, writer, gc, acked, nextId, raced, torn, gcs, crashes>>

ReadReturn ==
    /\ reader.at = "done"
    /\ reader' = NoRead
    /\ UNCHANGED <<file, newHead, tree, writer, gc, acked, nextId, raced, torn, gcs, crashes>>

-----------------------------------------------------------------------------
(* GCMgr.gc *)

Used == {c \in Chunks : file[c] # << >>}

\* gcCheckRange: chunks with data, followed by a chunk with data that is old
\* enough (the age is not modelled).
InRange(b, e) ==
    /\ {b, e} \subseteq Used /\ b <= e /\ e < newHead
    /\ \E next \in Used : next > e /\ next <= newHead

\* Where the copies go first: into the nearest chunk before begin if it has
\* room, else into the one after that.
FirstDst(b) ==
    LET i == Max({c \in Used : c < b})
    IN  IF {c \in Used : c < b} = {} THEN b
        ELSE IF Len(file[i]) < DstRoom THEN i ELSE i + 1

\* A plausible bug: a chunk that is being read is opened for appending.
AppendAlways(g, d, s) ==
    [g EXCEPT !.dst = d, !.rewriting = (d = s), !.writingHead = Len(file[d])]

\* beginGCWriting
BeginWriting(g, d, s) ==
    [g EXCEPT !.dst = d, !.rewriting = (d = s),
              !.writingHead = IF d = s THEN 0 ELSE Len(file[d])]

\* BeforeBucket and the choice of the first destination.
GCStart(b, e) ==
    /\ gc.at = "idle" /\ gcs < MaxGCs
    /\ InRange(b, e)
    /\ gc' = BeginWriting([NoGC EXCEPT !.at = "chunk", !.begin = b, !.end = e, !.src = b],
                          FirstDst(b), b)
    /\ gcs' = gcs + 1
    /\ UNCHANGED <<file, newHead, tree, writer, reader, acked, nextId, raced, torn, crashes>>

\* CancelGC
GCCancel ==
    /\ gc.at # "idle" /\ ~gc.cancel
    /\ gc' = [gc EXCEPT !.cancel = TRUE]
    /\ UNCHANGED <<file, newHead, tree, writer, reader, acked, nextId, raced, torn, gcs, crashes>>

\* The chunk about to be read is the destination, opened to be overwritten.
Unread == gc.rewriting /\ gc.src = gc.dst

\* The head of the loop over chunks.
GCChunk ==
    /\ gc.at = "chunk"
    /\ torn' = (torn \/ (gc.cancel /\ Unread))
    /\ gc' = IF gc.cancel \/ gc.src > gc.end THEN [gc EXCEPT !.at = "after"]
             ELSE IF file[gc.src] = << >> THEN [gc EXCEPT !.src = @ + 1]
             ELSE [gc EXCEPT !.at = "read", !.off = 0]
    /\ UNCHANGED <<file, newHead, tree, writer, reader, acked, nextId, raced, gcs, crashes>>

OldPos == [chunk |-> gc.src, off |-> gc.off]

\* A plausible bug: a tombstone the tree does not know is never kept.
DropTombstones(r) == tree[r.key].found /\ tree[r.key].pos = OldPos

\* Is the record the newest of its key?  A tombstone that is not in the tree
\* any more is kept unless gc began with the first chunk.
IsNewest(r) ==
    IF tree[r.key].found THEN tree[r.key].pos = OldPos ELSE gc.begin > 0 /\ ~r.live

GCRead ==
    LET r == At(OldPos)
    IN  /\ gc.at = "read" /\ gc.off < Len(file[gc.src])
        /\ gc' = IF IsNewest(r)
                 THEN [gc EXCEPT !.at = "place", !.rec = r, !.found = tree[r.key].found]
                 ELSE [gc EXCEPT !.off = @ + 1]
        /\ UNCHANGED <<file, newHead, tree, writer, reader, acked, nextId, raced, torn, gcs, crashes>>

\* endGCWriting: cut a rewritten file behind its last copy.
EndWriting(g) ==
    IF g.rewriting /\ g.writingHead < Len(file[g.dst])
    THEN [file EXCEPT ![g.dst] = SubSeq(@, 1, g.writingHead)]
    ELSE file

\* The destination is full: go on in the next chunk.
GCNextDst ==
    /\ gc.at = "place" /\ gc.writingHead >= DataFileMax
    /\ gc.dst + 1 \in Chunks
    /\ file' = EndWriting(gc)
    /\ gc' = BeginWriting(gc, gc.dst + 1, gc.src)
    /\ UNCHANGED <<newHead, tree, writer, reader, acked, nextId, raced, torn, gcs, crashes>>

\* gc ends with an error: its source cannot be opened or read on, ...
GCReadFails ==
    /\ \/ gc.at = "chunk" /\ ~gc.cancel /\ gc.src <= gc.end /\ file[gc.src] # << >>
       \/ gc.at = "read" /\ gc.off < Len(file[gc.src])
    /\ torn' = (torn \/ Unread)
    /\ gc' = [gc EXCEPT !.at = "after"]
    /\ UNCHANGED <<file, newHead, tree, writer, reader, acked, nextId, raced, gcs, crashes>>

\* ... or its next destination cannot be opened.
GCNextDstFails ==
    /\ gc.at = "place" /\ gc.writingHead >= DataFileMax
    /\ gc.dst + 1 \in Chunks
    /\ torn' = (torn \/ gc.dst + 1 = gc.src)
    /\ file' = EndWriting(gc)
    /\ gc' = [BeginWriting(gc, gc.dst + 1, gc.src) EXCEPT !.at = "after"]
    /\ UNCHANGED <<newHead, tree, writer, reader, acked, nextId, raced, gcs, crashes>>

\* AppendRecordGC; it ends the process when it fails (see Crash).
GCPlace ==
    LET w == gc.writingHead
    IN  /\ gc.at = "place" /\ w < DataFileMax
        /\ file' = [file EXCEPT ![gc.dst] =
                      IF w < Len(@) THEN [@ EXCEPT ![w + 1] = gc.rec] ELSE Append(@, gc.rec)]
        /\ gc' = [gc EXCEPT !.writingHead = w + 1,
                            !.newPos = [chunk |-> gc.dst, off |-> w],
                            !.at = IF gc.found THEN "getpos" ELSE "read",
                            !.off = IF gc.found THEN @ ELSE @ + 1]
        /\ UNCHANGED <<newHead, tree, writer, reader, acked, nextId, raced, torn, gcs, crashes>>

\* UpdateHtreePos: HTree.get, ...
GCGetPos ==
    LET item == tree[gc.rec.key]
    IN  /\ gc.at = "getpos"
        /\ gc' = IF item.found THEN [gc EXCEPT !.at = "setpos", !.live = item.live]
                 ELSE [gc EXCEPT !.at = "read", !.off = @ + 1]
        /\ UNCHANGED <<file, newHead, tree, writer, reader, acked, nextId, raced, torn, gcs, crashes>>

\* ... then HTree.set, with the item found before and the new position.
GCSetPos ==
    /\ gc.at = "setpos"
    /\ tree' = [tree EXCEPT ![gc.rec.key] =
                  [pos |-> gc.newPos, live |-> gc.live, found |-> TRUE]]
    /\ gc' = [gc EXCEPT !.at = "read", !.off = @ + 1]
    /\ UNCHANGED <<file, newHead, writer, reader, acked, nextId, raced, torn, gcs, crashes>>

\* A plausible bug: the chunk that was read is removed although it holds copies.
ClearAlways ==
    /\ gc.at = "read" /\ gc.off = Len(file[gc.src])
    /\ file' = [file EXCEPT ![gc.src] = << >>]
    /\ gc' = [gc EXCEPT !.at = "chunk", !.src = @ + 1]
    /\ UNCHANGED <<newHead, tree, writer, reader, acked, nextId, raced, torn, gcs, crashes>>

\* A chunk has been read; its file goes unless it is the destination.
GCChunkDone ==
    /\ gc.at = "read" /\ gc.off = Len(file[gc.src])
    /\ file' = IF gc.src = gc.dst THEN file ELSE [file EXCEPT ![gc.src] = << >>]
    /\ gc' = [gc EXCEPT !.at = "chunk", !.src = @ + 1]
    /\ UNCHANGED <<newHead, tree, writer, reader, acked, nextId, raced, torn, gcs, crashes>>

\* The deferred calls of gc: endGCWriting and AfterBucket.
GCAfter ==
    /\ gc.at = "after"
    /\ file' = EndWriting(gc)
    /\ gc' = NoGC
    /\ UNCHANGED <<newHead, tree, writer, reader, acked, nextId, raced, torn, gcs, crashes>>

-----------------------------------------------------------------------------
(* Restart *)

Before(p, q) == p.chunk < q.chunk \/ (p.chunk = q.chunk /\ p.off < q.off)
PositionsOf(k) ==
    {p \in [chunk : Chunks, off : 0 .. DataFileMax - 1] : HasRecord(p) /\ At(p).key = k}
LastPosition(k) ==
    CHOOSE p \in PositionsOf(k) : \A q \in PositionsOf(k) : ~Before(p, q)

\* updateHtreeFromHint over all chunks: values are set, tombstones removed.
Rebuilt(k) ==
    IF PositionsOf(k) = {} \/ ~At(LastPosition(k)).live THEN None
    ELSE [pos |-> LastPosition(k), live |-> TRUE, found |-> TRUE]

\* The part of a rewritten file behind the copies, once the copies come from
\* other files.
StaleTail(p) ==
    gc.at # "idle" /\ gc.rewriting /\ gc.src # gc.dst
    /\ p.chunk = gc.dst /\ p.off >= gc.writingHead

\* The process dies, Bucket.open starts from the data files.
Crash ==
    /\ crashes < MaxCrashes
    /\ crashes' = crashes + 1
    /\ torn' = (torn \/ \E k \in Keys : \E p \in PositionsOf(k) : StaleTail(p))
    /\ newHead' = IF Used = {} THEN 0 ELSE Max(Used) + 1
    /\ tree' = [k \in Keys |-> Rebuilt(k)]
    /\ acked' = [k \in Keys |->
                    IF PositionsOf(k) # {} /\ At(LastPosition(k)).id > acked[k].id
                    THEN At(LastPosition(k)) ELSE acked[k]]
    /\ writer' = NoWrite /\ reader' = NoRead /\ gc' = NoGC
    /\ UNCHANGED <<file, nextId, raced, gcs>>

Next ==
    \/ \E k \in Keys : \E live \in BOOLEAN : WriteAppend(k, live)
    \/ WriteTree
    \/ \E k \in Keys : ReadTree(k)
    \/ ReadFile \/ ReadReturn
    \/ \E b, e \in Chunks : GCStart(b, e)
    \/ GCCancel \/ GCChunk \/ GCRead \/ GCNextDst \/ GCPlace \/ GCGetPos \/ GCSetPos
    \/ GCReadFails \/ GCNextDstFails \/ GCChunkDone \/ GCAfter
    \/ Crash

Spec == Init /\ [][Next]_vars

-----------------------------------------------------------------------------
(* Properties *)

\* What an index entry of a key must lead to: its last acknowledged record or
\* one being written after it.
Leads(k, item) ==
    IF ~item.found THEN \/ ~acked[k].live
                        \/ writer.at = "tree" /\ writer.rec.key = k /\ ~writer.rec.live
    ELSE /\ HasRecord(item.pos) /\ At(item.pos).key = k
         /\ At(item.pos).id >= acked[k].id /\ At(item.pos).live = item.live

\* Wherever gc is, the tree leads every key to its newest record, unless the
\* key was written while gc was moving it or a rewrite was given up halfway.
TreeLeads == ~torn => \A k \in Keys \ raced : Leads(k, tree[k])

\* A get that runs beside gc may fail; it never answers with an older record
\* than the last one acknowledged before it began, and never finds nothing.
ReadFresh ==
    reader.at = "done" /\ ~torn /\ reader.key \notin raced =>
        \/ reader.got = Failed
        \/ reader.item.found /\ reader.got.id >= reader.floor.id
        \/ ~reader.item.found /\ ~reader.floor.live

\* A restart at this moment finds the newest record of every key, unless a
\* rewritten file still has its old tail: no value is lost, none comes back.
Recoverable ==
    ~torn /\ raced = {} /\ (\A k \in Keys : \A p \in PositionsOf(k) : ~StaleTail(p))
        => \A k \in Keys : Leads(k, Rebuilt(k))

-----------------------------------------------------------------------------
(* What should hold and does not (README, section 4) *)

\* The tree leads every key to its newest record, also when clients write
\* while gc runs.
TreeLeadsAlways == ~torn => \A k \in Keys : Leads(k, tree[k])

\* Without writes to keys that gc is moving and without crashes, no gc loses or
\* brings back a record, cancelled or not.
CancelLosesNothing == raced = {} /\ crashes = 0 => \A k \in Keys : Leads(k, tree[k])

\* A restart finds the newest record of every key wherever gc was.
RecoverableAlways == ~torn /\ raced = {} => \A k \in Keys : Leads(k, Rebuilt(k))

\* A get that runs beside gc succeeds.
ReadNeverFails == reader.at = "done" /\ ~torn => reader.got # Failed

\* A get that answers with a value answers with one that was written, not with
\* the empty body of a tombstone.
ReadReturnsWritten ==
    reader.at = "done" /\ ~torn /\ reader.item.live /\ reader.got # Failed => reader.got.live
=============================================================================
