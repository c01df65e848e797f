----------------------------- MODULE Collision ------------------------------
(***************************************************************************)
(* Keys that share a hash, in one bucket: the hash tree has one item for   *)
(* all of them, the collision table (store/collision.go), the hints and    *)
(* the records themselves tell them apart (Bucket.get, hint.go), and gc    *)
(* must not take a record for garbage because the item is another key's    *)
(* (gc.go, hintMgr.getCollisionGC, the merge of hint files before a gc).   *)
(*                                                                         *)
(* All keys of the model have the same hash; of the others there are old   *)
(* records only, written as key 0, that fill the files and that gc drops.  *)
(* A set, a get and the handling of one record by gc are single steps      *)
(* (modules Bucket and GC interleave them more finely).  Every record      *)
(* fills one block; no split of a hint chunk gets full (module Hints);     *)
(* nothing is deleted; a merged hint file never exists, because the        *)
(* goroutine that would write one is never started (hint.go:437).          *)
(***************************************************************************)
EXTENDS Integers, Sequences, FiniteSets, FiniteSetsExt

CONSTANTS
    Keys,         \* natural numbers above 0, ordered as their strings are
    NumChunks,    \* MAX_NUM_CHUNK
    DataFileMax,  \* Conf.DataFileMax, in records
    Merges,       \* the values of the parameter merge of a gc
    MaxSets,      \* bound: sets
    MaxOthers,    \* bound: sets of keys with other hashes
    MaxGCs,       \* bound: gcs
    MaxCrashes    \* bound: crashes

ASSUME CollisionAssumption ==
    /\ Keys \subseteq Nat \ {0} /\ IsFiniteSet(Keys)
    /\ NumChunks \in Nat \ {0} /\ DataFileMax \in Nat \ {0}
    /\ Merges \subseteq BOOLEAN
    /\ MaxSets \in Nat /\ MaxOthers \in Nat /\ MaxGCs \in Nat /\ MaxCrashes \in Nat

Chunks == 0 .. NumChunks - 1
Positions == [chunk : Chunks, off : 0 .. DataFileMax - 1]
NoPos == [chunk |-> -1, off |-> 0]
Records == [key : Keys, id : 1 .. MaxSets]
Other == [key |-> 0, id |-> 1]
NoRec == [key |-> 0, id |-> 0]

VARIABLES
    file,        \* the data file of each chunk
    newHead,     \* the chunk that takes appends
    tree,        \* the position in the one item of the hash tree
    table,       \* the collision table: a position for each key it has
    yaml,        \* collision.yaml
    splits,      \* the hints of each chunk: buffers, or dumped to a file
    maxChunkID,  \* hintMgr.maxChunkID
    gc,          \* the local variables of gc
    alive,       \* FALSE after a panic that nobody recovers
    newest,      \* history: the last record of each key
    misjudged,   \* history: keys of which gc kept an old record on a guess, that the merge
                 \* put into the table while their newest hint was in a buffer, or that
                 \* were looked up in the hints while gc read a chunk
    blind,       \* history: a gc began with an empty last split, whose answer hides that of
                 \* the one above it
    unmerged,    \* history: the merge before a gc failed
    outdated,    \* history: keys whose entry in collision.yaml was old when it was loaded
    nextId, others, gcs, crashes

index == <<tree, table, yaml>>
hints == <<splits, maxChunkID>>
history == <<newest, misjudged, blind, unmerged, outdated>>
counters == <<nextId, others, gcs, crashes>>
vars == <<file, newHead, index, hints, gc, alive, history, counters>>

EmptySplit == [dumped |-> FALSE, used |-> FALSE, items |-> [k \in Keys |-> -1], last |-> 0]
NoGC == [at |-> "idle", head |-> 0, end |-> 0, src |-> 0, dst |-> 0, off |-> 0,
         writingHead |-> 0, rewriting |-> FALSE]

TypeOK ==
    /\ \A c \in Chunks : /\ Len(file[c]) <= DataFileMax
                         /\ \A o \in 1 .. Len(file[c]) : file[c][o] \in Records \cup {Other}
                         /\ splits[c] # << >> /\ ~splits[c][Len(splits[c])].dumped
    /\ newHead \in 0 .. NumChunks /\ maxChunkID \in Chunks
    /\ tree \in Positions \cup {NoPos}
    /\ {table, yaml} \subseteq [Keys -> Positions \cup {NoPos}]
    /\ gc.at \in {"idle", "dump", "merge", "chunk", "read"}
    /\ gc.at \in {"chunk", "read"} => gc.dst <= gc.src /\ gc.writingHead <= DataFileMax
    /\ newest \in [Keys -> Records \cup {NoRec}]

Init ==
    /\ file = [c \in Chunks |-> << >>] /\ newHead = 0
    /\ tree = NoPos
    /\ table = [k \in Keys |-> NoPos] /\ yaml = table
    /\ splits = [c \in Chunks |-> <<EmptySplit>>] /\ maxChunkID = 0
    /\ gc = NoGC /\ alive = TRUE
    /\ newest = [k \in Keys |-> NoRec] /\ misjudged = {} /\ blind = FALSE
    /\ unmerged = FALSE /\ outdated = {}
    /\ nextId = 1 /\ others = 0 /\ gcs = 0 /\ crashes = 0

HasRecord(p) == p # NoPos /\ p.off < Len(file[p.chunk])
At(p) == IF HasRecord(p) THEN file[p.chunk][p.off + 1] ELSE NoRec
\* Position.CmpKey
NotBefore(p, q) == p.chunk > q.chunk \/ (p.chunk = q.chunk /\ p.off >= q.off)

-----------------------------------------------------------------------------
(* The collision table *)

\* Is the hash in the table, whatever the key?
InTable(t) == \E k \in Keys : t[k] # NoPos

\* compareAndSet
CompareAndSet(t, k, p, reason) ==
    IF t[k] = NoPos \/ reason = "gc" \/ NotBefore(p, t[k]) THEN [t EXCEPT ![k] = p] ELSE t

-----------------------------------------------------------------------------
(* The hints *)

\* HintBuffer.Set in the last split of a chunk.
SetItem(h, c, k, o) ==
    LET n == Len(h[c])
    IN  [h EXCEPT ![c][n].items[k] = o, ![c][n].last = k, ![c][n].used = TRUE]

\* A plausible bug: the table is left to get.
TableLeftToGet(k, p, reason) == table

\* hintMgr.set keeps the entry of a key up to date once its hash is in the table.
TableAfterSet(k, p, reason) ==
    IF InTable(table) THEN CompareAndSet(table, k, p, reason) ELSE table

\* trydump: the splits before the last, and the last one if asked to.
TryDump(h, c, last) ==
    LET n == Len(h[c])
        dump(s) == [h[c][s] EXCEPT !.dumped = @ \/ h[c][s].used]
        old == [s \in 1 .. n |-> IF s < n \/ last THEN dump(s) ELSE h[c][s]]
    IN  [h EXCEPT ![c] = IF old[n].dumped THEN Append(old, EmptySplit) ELSE old]

\* getItem: the newest hint of a key up to maxChunkID.
GetItem(k) ==
    LET has == {c \in 0 .. maxChunkID : \E s \in DOMAIN splits[c] : splits[c][s].items[k] >= 0}
        c == Max(has)
        s == Max({t \in DOMAIN splits[c] : splits[c][t].items[k] >= 0})
    IN  IF has = {} THEN NoPos ELSE [chunk |-> c, off |-> splits[c][s].items[k]]

\* HintBuffer.Get: the last key set in the buffer is another one.
Another(s, k) == s.last \notin {0, k}

\* hintChunk.getItemCollision: down the splits to the first that is dumped or has the key.
ChunkCollision(c, k) ==
    LET sp == splits[c]
        s == Max({0} \cup {t \in DOMAIN sp : sp[t].dumped \/ sp[t].items[k] >= 0})
        above == s < Len(sp) /\ Another(sp[s + 1], k)
    IN  IF s > 0 /\ ~sp[s].dumped
        THEN [it |-> [chunk |-> c, off |-> sp[s].items[k]], collision |-> Another(sp[s], k), stop |-> FALSE]
        ELSE [it |-> NoPos, collision |-> above, stop |-> s > 0]

\* hintMgr.getItemCollision: down the chunks to a collision or a dumped split.
ItemCollision(k) ==
    LET ends == {c \in 0 .. maxChunkID : ChunkCollision(c, k).collision \/ ChunkCollision(c, k).stop}
    IN  ChunkCollision(Max({0} \cup ends), k)

-----------------------------------------------------------------------------
(* Requests *)

\* The chunk that takes the next record.
HeadChunk == IF Len(file[newHead]) = DataFileMax THEN newHead + 1 ELSE newHead

\* checkAndSet
Set(k) ==
    LET r == [key |-> k, id |-> nextId]
        p == [chunk |-> HeadChunk, off |-> Len(file[HeadChunk])]
    IN  /\ alive /\ nextId <= MaxSets /\ newHead \in Chunks /\ HeadChunk \in Chunks
        /\ nextId' = nextId + 1
        /\ newHead' = HeadChunk
        /\ file' = [file EXCEPT ![HeadChunk] = Append(@, r)]
        /\ tree' = p
        /\ table' = TableAfterSet(k, p, "set")
        /\ splits' = SetItem(splits, HeadChunk, k, p.off)
        /\ maxChunkID' = Max({maxChunkID, HeadChunk})
        /\ newest' = [newest EXCEPT ![k] = r]
        /\ UNCHANGED <<yaml, gc, alive, misjudged, blind, unmerged, outdated, others, gcs, crashes>>

\* checkAndSet of a key with another hash.
SetOther ==
    /\ alive /\ others < MaxOthers /\ newHead \in Chunks /\ HeadChunk \in Chunks
    /\ others' = others + 1
    /\ newHead' = HeadChunk
    /\ file' = [file EXCEPT ![HeadChunk] = Append(@, Other)]
    /\ splits' = [splits EXCEPT ![HeadChunk][Len(splits[HeadChunk])].used = TRUE]
    /\ maxChunkID' = Max({maxChunkID, HeadChunk})
    /\ UNCHANGED <<index, gc, alive, history, nextId, gcs, crashes>>

\* Where Bucket.get looks first.
FirstLook(k) == IF table[k] # NoPos THEN table[k] ELSE tree

\* The record is another key's: the hints know where this one is.
Collides(k) ==
    /\ HasRecord(FirstLook(k)) /\ At(FirstLook(k)).key # k
    /\ GetItem(k) # NoPos

\* What get answers with.
Answer(k) == IF Collides(k) THEN At(GetItem(k))
             ELSE IF At(FirstLook(k)).key = k THEN At(FirstLook(k)) ELSE NoRec

\* A get that finds a collision puts both keys into the table.
Get(k) ==
    /\ alive /\ Collides(k)
    /\ table' = CompareAndSet(CompareAndSet(table, At(FirstLook(k)).key, FirstLook(k), "get1"),
                              k, GetItem(k), "get2")
    /\ misjudged' = IF gc.at = "read" THEN misjudged \cup {k} ELSE misjudged
    /\ UNCHANGED <<file, newHead, tree, yaml, hints, gc, alive, newest, blind, unmerged, outdated, counters>>

\* HintDumper: chunks that gc does not hold back; the last split of a chunk that
\* is not the last one is dumped when nothing was set in it for a while.
HintDump(c, silent) ==
    /\ alive /\ c < IF gc.at = "idle" THEN NumChunks ELSE gc.end
    /\ splits' = TryDump(splits, c, silent /\ c # maxChunkID)
    /\ UNCHANGED <<file, newHead, index, maxChunkID, gc, alive, history, counters>>

-----------------------------------------------------------------------------
(* GCMgr.gc *)

Used == {c \in Chunks : file[c] # << >>}

\* gcCheckRange
InRange(b, e) ==
    /\ {b, e} \subseteq Used /\ b <= e /\ e < newHead
    /\ \E next \in Used : next > e /\ next <= newHead

\* The nearest chunk before begin if it is not full, else the one after it.
FirstDst(b) ==
    LET i == Max({c \in Used : c < b})
    IN  IF {c \in Used : c < b} = {} THEN b
        ELSE IF Len(file[i]) < DataFileMax THEN i ELSE i + 1

\* beginGCWriting
BeginWriting(g, d) ==
    [g EXCEPT !.dst = d, !.rewriting = (d = g.src),
              !.writingHead = IF d = g.src THEN 0 ELSE Len(file[d])]

\* BeforeBucket: with merge the last split is closed, and dumped a little later.
GCStart(b, e, merge) ==
    LET g == [NoGC EXCEPT !.head = maxChunkID, !.end = e, !.src = b]
    IN  /\ alive /\ gc.at = "idle" /\ gcs < MaxGCs /\ InRange(b, e)
        /\ gcs' = gcs + 1
        /\ IF merge
           THEN /\ splits' = [splits EXCEPT ![maxChunkID] = Append(@, EmptySplit)]
                /\ gc' = [g EXCEPT !.at = "dump"]
                /\ blind' = (blind \/ ~splits[maxChunkID][Len(splits[maxChunkID])].used)
           ELSE /\ gc' = [BeginWriting(g, FirstDst(b)) EXCEPT !.at = "chunk"]
                /\ UNCHANGED <<splits, blind>>
        /\ UNCHANGED <<file, newHead, index, maxChunkID, alive, newest, misjudged, unmerged, outdated, nextId, others, crashes>>

\* dumpAndMerge(true), 6 seconds later.  Nothing was set for long enough in the
\* chunks before the head; in the one that was the head, perhaps.
GCDump(silent) ==
    LET last(c) == c < gc.head \/ (silent /\ c < maxChunkID)
    IN  /\ alive /\ gc.at = "dump"
        /\ splits' = [c \in Chunks |-> TryDump(splits, c, last(c))[c]]
        /\ gc' = [gc EXCEPT !.at = "merge"]
        /\ UNCHANGED <<file, newHead, index, maxChunkID, alive, history, counters>>

\* A plausible bug: the first hint file that has the key wins.
FirstOf(k, files) ==
    CHOOSE p \in files : \A q \in files : NotBefore(q, p)

\* The heap yields the hints of a key in the order of their positions, the writer
\* keeps the last.
LastOf(k, files) ==
    CHOOSE p \in files : \A q \in files : NotBefore(p, q)

\* The hints of a key in hint files.
InFiles(k) ==
    {[chunk |-> c, off |-> splits[c][s].items[k]] :
        <<c, s>> \in {<<d, t>> \in Chunks \X (1 .. Max({Len(splits[e]) : e \in Chunks})) :
                        t <= Len(splits[d]) /\ splits[d][t].dumped /\ splits[d][t].items[k] >= 0}}

\* What the writer has of each key that is in the files.
Found == [k \in {x \in Keys : InFiles(x) # {}} |-> LastOf(k, InFiles(k))]

\* mergeWriter.flush: if there are several keys of the hash, they go into the table.
Flushed(buf) ==
    [k \in Keys |-> IF Cardinality(DOMAIN buf) > 1 /\ k \in DOMAIN buf
                    THEN CompareAndSet(table, k, buf[k], "merge")[k] ELSE table[k]]

\* The newest hint of a key is in a buffer, where merge does not see it.
InBuffer(k) ==
    \E c \in Chunks : \E s \in DOMAIN splits[c] : ~splits[c][s].dumped /\ splits[c][s].items[k] >= 0

\* Merge(true), and the choice of the first destination.  The test of
\* collisions.Chunk never fails: no other merge runs in the bucket.
GCMerge ==
    /\ alive /\ gc.at = "merge"
    /\ table' = Flushed(Found) /\ yaml' = table'
    /\ gc' = [BeginWriting(gc, FirstDst(gc.src)) EXCEPT !.at = "chunk"]
    /\ misjudged' = misjudged \cup {k \in Keys : table'[k] # table[k] /\ InBuffer(k)}
    /\ UNCHANGED <<file, newHead, tree, hints, alive, newest, blind, unmerged, outdated, counters>>

\* Merge stops at a hint file it cannot open or read, or at one without an item
\* (a panic that it recovers).  What the heap yielded until then, key by key, goes
\* into the table nevertheless; collision.yaml stays, and gc goes on.
GCMergeFails ==
    /\ alive /\ gc.at = "merge"
    /\ \/ UNCHANGED table
       \/ \E k \in DOMAIN Found : \E p \in InFiles(k) :
            table' = Flushed([j \in {x \in DOMAIN Found : x <= k} |-> IF j = k THEN p ELSE Found[j]])
    /\ gc' = [BeginWriting(gc, FirstDst(gc.src)) EXCEPT !.at = "chunk"]
    /\ unmerged' = TRUE
    /\ UNCHANGED <<file, newHead, tree, yaml, hints, alive, newest, misjudged, blind, outdated, counters>>

\* The head of the loop over chunks: ClearChunk.
GCChunk ==
    /\ alive /\ gc.at = "chunk" /\ gc.src <= gc.end
    /\ IF file[gc.src] = << >>
       THEN gc' = [gc EXCEPT !.src = @ + 1] /\ UNCHANGED splits
       ELSE /\ gc' = [gc EXCEPT !.at = "read", !.off = 0]
            /\ splits' = [splits EXCEPT ![gc.src] = <<EmptySplit>>]
    /\ UNCHANGED <<file, newHead, index, maxChunkID, alive, history, counters>>

OldPos == [chunk |-> gc.src, off |-> gc.off]

\* A plausible bug: the hint buffers are not looked at.
TableOnly(k) ==
    IF InTable(table) THEN [it |-> table[k], collision |-> TRUE]
    ELSE [it |-> NoPos, collision |-> FALSE]

\* getCollisionGC
CollisionGC(k) ==
    IF InTable(table) THEN [it |-> table[k], collision |-> TRUE]
    ELSE [it |-> ItemCollision(k).it, collision |-> ItemCollision(k).collision]

\* Neither the tree nor an item of the key says so: collision without an item.
Guess(k) == tree # OldPos /\ CollisionGC(k).collision /\ CollisionGC(k).it = NoPos

IsNewest(k) ==
    /\ k # 0
    /\ \/ tree = OldPos
       \/ CollisionGC(k).collision /\ CollisionGC(k).it = OldPos
       \/ Guess(k)

\* endGCWriting
EndWriting(f, g) ==
    IF g.rewriting /\ g.writingHead < Len(f[g.dst])
    THEN [f EXCEPT ![g.dst] = SubSeq(@, 1, g.writingHead)] ELSE f

\* The hash is in the table and the key is not: its item is dereferenced.
NilItem(k) == k # 0 /\ tree # OldPos /\ InTable(table) /\ table[k] = NoPos

GCPanics ==
    /\ alive /\ gc.at = "read" /\ gc.off < Len(file[gc.src])
    /\ NilItem(At(OldPos).key)
    /\ alive' = FALSE
    /\ UNCHANGED <<file, newHead, index, hints, gc, history, counters>>

\* A record that is not the newest of its key is left behind ...
GCSkip ==
    LET r == At(OldPos)
    IN  /\ alive /\ gc.at = "read" /\ gc.off < Len(file[gc.src])
        /\ ~NilItem(r.key) /\ ~IsNewest(r.key)
        /\ gc' = [gc EXCEPT !.off = @ + 1]
        /\ UNCHANGED <<file, newHead, index, hints, alive, history, counters>>

\* ... the others are copied, to the next chunk when this one is full; the tree
\* item of the hash gets the position of the copy whichever key it was for.
GCKeep ==
    LET r == At(OldPos)
        full == gc.writingHead >= DataFileMax
        f == IF full THEN EndWriting(file, gc) ELSE file
        g == IF full THEN BeginWriting(gc, gc.dst + 1) ELSE gc
        h == IF full THEN TryDump(splits, gc.dst, TRUE) ELSE splits
        p == [chunk |-> g.dst, off |-> g.writingHead]
    IN  /\ alive /\ gc.at = "read" /\ gc.off < Len(file[gc.src])
        /\ ~NilItem(r.key) /\ IsNewest(r.key)
        /\ file' = [f EXCEPT ![g.dst] = IF p.off < Len(@) THEN [@ EXCEPT ![p.off + 1] = r] ELSE Append(@, r)]
        /\ tree' = p
        /\ table' = TableAfterSet(r.key, p, "gc")
        /\ splits' = SetItem(h, g.dst, r.key, p.off)
        /\ gc' = [g EXCEPT !.off = @ + 1, !.writingHead = @ + 1]
        /\ misjudged' = IF Guess(r.key) /\ r # newest[r.key] THEN misjudged \cup {r.key} ELSE misjudged
        /\ UNCHANGED <<newHead, yaml, maxChunkID, alive, newest, blind, unmerged, outdated, counters>>

\* A chunk has been read: its file goes unless it is the destination.
GCChunkDone ==
    /\ alive /\ gc.at = "read" /\ gc.off = Len(file[gc.src])
    /\ file' = IF gc.src = gc.dst THEN file ELSE [file EXCEPT ![gc.src] = << >>]
    /\ gc' = [gc EXCEPT !.at = "chunk", !.src = @ + 1]
    /\ UNCHANGED <<newHead, index, hints, alive, history, counters>>

\* The deferred calls: endGCWriting, trydump of the destination, AfterBucket.
GCEnd ==
    /\ alive /\ gc.at = "chunk" /\ gc.src > gc.end
    /\ file' = EndWriting(file, gc)
    /\ splits' = TryDump(splits, gc.dst, TRUE)
    /\ gc' = NoGC
    /\ UNCHANGED <<newHead, index, maxChunkID, alive, history, counters>>

-----------------------------------------------------------------------------
(* Restart *)

\* The process dies outside of a gc and starts again: hints that were in buffers
\* are built from the data and dumped, the tree is built from the hints (key by
\* key in each file), and the table is what collision.yaml says.
Crash ==
    LET lost == {c \in Chunks : splits[c][Len(splits[c])].used}
        h == [c \in Chunks |-> TryDump(splits, c, TRUE)[c]]
        has(d, t) == h[d][t].last # 0
        hinted == {d \in Used : \E t \in DOMAIN h[d] : has(d, t)}
        c == Max(hinted)
        s == Max({t \in DOMAIN h[c] : has(c, t)})
        k == Max({x \in Keys : h[c][s].items[x] >= 0})
    IN  /\ alive /\ gc.at = "idle" /\ crashes < MaxCrashes /\ hinted # {}
        /\ crashes' = crashes + 1
        /\ table' = yaml
        /\ outdated' = outdated \cup {x \in Keys : yaml[x] # NoPos /\ yaml[x] # table[x]}
        /\ splits' = h
        /\ maxChunkID' = Max({0} \cup lost)
        /\ tree' = [chunk |-> c, off |-> h[c][s].items[k]]
        /\ newHead' = Max(Used) + 1
        /\ UNCHANGED <<file, yaml, gc, alive, newest, misjudged, blind, unmerged, nextId, others, gcs>>

Next ==
    \/ \E k \in Keys : Set(k) \/ Get(k)
    \/ SetOther
    \/ \E c \in Chunks, silent \in BOOLEAN : HintDump(c, silent)
    \/ \E b, e \in Chunks, merge \in Merges : GCStart(b, e, merge)
    \/ \E silent \in BOOLEAN : GCDump(silent)
    \/ GCMerge \/ GCMergeFails \/ GCChunk \/ GCPanics \/ GCSkip \/ GCKeep \/ GCChunkDone \/ GCEnd
    \/ Crash

Spec == Init /\ [][Next]_vars

-----------------------------------------------------------------------------
(* Properties *)

\* Keys about which gc and the restarts have not been wrong.
Sound == IF blind \/ unmerged THEN {} ELSE Keys \ (misjudged \cup outdated)

Kept(k) == newest[k] = NoRec \/ \E p \in Positions : At(p) = newest[k]

\* A gc that merges the hints before it begins never takes the newest record of
\* a key for garbage because another key owns the item in the tree.
NoneCollected == \A k \in Sound : Kept(k)

\* The collision table leads a key to its newest record, through sets, gets,
\* merges and wherever gc is.
TableExact == \A k \in Sound : table[k] # NoPos => At(table[k]) = newest[k]

\* Between gcs a get answers with the newest record of its key whoever owns the
\* item in the tree, if the hint of the key is not beyond the last chunk that is
\* looked at after a restart.
ReadsNewest ==
    gc.at = "idle" /\ alive => \A k \in Sound :
        (\A c \in maxChunkID + 1 .. NumChunks - 1 : \A s \in DOMAIN splits[c] : splits[c][s].items[k] < 0)
            => Answer(k) = newest[k]

-----------------------------------------------------------------------------
(* What should hold and does not (README, section 4) *)

\* No gc before which the hints were merged collects the newest record of a key.
NoneCollectedAlways == ~unmerged /\ outdated = {} /\ misjudged = {} => \A k \in Keys : Kept(k)

\* Between gcs a get answers with the newest record, also after a guess.
ReadsNewestAlways ==
    gc.at = "idle" /\ alive /\ crashes = 0 /\ ~unmerged => \A k \in Keys : Answer(k) = newest[k]

\* collision.yaml is never older than the table it is loaded into.
YamlFresh == outdated = {}

\* gc does not use an item that is not there.
GCSurvives == alive
=============================================================================
