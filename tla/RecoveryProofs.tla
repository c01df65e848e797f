--------------------------- MODULE RecoveryProofs ---------------------------
(***************************************************************************)
(* Proof that a reopened bucket leads to the newest records: Recovered of  *)
(* Hints, on the invariant Core of HintsProofs.                            *)
(***************************************************************************)
EXTENDS HintsProofs

-----------------------------------------------------------------------------
(* What a tree covers *)

\* The tree has position t for key k on account of the record at position P: it
\* leads to it, or left the key out because the record, a delete, is in the file.
Based(k, t, P, d, fl) ==
    \/ t = NoPos /\ P = NoPos
    \/ \E c \in Chunks : \E n \in 1 .. Len(d[c]) :
          /\ P = Pos(c, n) /\ d[c][n].key = k
          /\ t = P \/ (t = NoPos /\ ~d[c][n].live /\ n <= fl[c])

\* ... and no record of k among the first lim[c] of each chunk c is newer.
Covers(k, t, d, fl, lim) ==
    \E P \in Nat :
        /\ Based(k, t, P, d, fl)
        /\ \A c \in Chunks : \A n \in 1 .. Len(d[c]) :
              d[c][n].key = k /\ n <= lim[c] => Pos(c, n) <= P

LEMMA CoversStep ==
    ASSUME NEW k, NEW t, NEW d, NEW fl, NEW lim, Covers(k, t, d, fl, lim),
           NEW e, NEW fl2, NEW lim2,
           \A c \in Chunks : \A n \in 1 .. Len(e[c]) : e[c][n].key = k /\ n <= lim2[c] =>
              n \in 1 .. Len(d[c]) /\ n <= lim[c] /\ e[c][n] = d[c][n],
           \A c \in Chunks : \A n \in 1 .. Len(d[c]) : t = Pos(c, n) \/ n <= fl[c] =>
              n \in 1 .. Len(e[c]) /\ e[c][n] = d[c][n] /\ (n <= fl[c] => n <= fl2[c])
    PROVE  Covers(k, t, e, fl2, lim2)
<1>1. PICK P \in Nat :
        /\ Based(k, t, P, d, fl)
        /\ \A c \in Chunks : \A n \in 1 .. Len(d[c]) :
              d[c][n].key = k /\ n <= lim[c] => Pos(c, n) <= P
  BY DEF Covers
<1>2. Based(k, t, P, e, fl2)
  <2>1. CASE t = NoPos /\ P = NoPos
    BY <2>1 DEF Based
  <2>2. CASE ~(t = NoPos /\ P = NoPos)
    <3>0. PICK c \in Chunks : \E n \in 1 .. Len(d[c]) :
            /\ P = Pos(c, n) /\ d[c][n].key = k
            /\ t = P \/ (t = NoPos /\ ~d[c][n].live /\ n <= fl[c])
      BY <1>1, <2>2 DEF Based
    <3>1. PICK n \in 1 .. Len(d[c]) :
            /\ P = Pos(c, n) /\ d[c][n].key = k
            /\ t = P \/ (t = NoPos /\ ~d[c][n].live /\ n <= fl[c])
      BY <3>0
    <3>2. n \in 1 .. Len(e[c]) /\ e[c][n] = d[c][n] /\ (n <= fl[c] => n <= fl2[c])
      BY <3>1
    <3> QED BY <3>1, <3>2 DEF Based
  <2> QED BY <2>1, <2>2
<1>3. \A c \in Chunks : \A n \in 1 .. Len(e[c]) : e[c][n].key = k /\ n <= lim2[c] => Pos(c, n) <= P
  BY <1>1
<1> QED BY <1>2, <1>3 DEF Covers

\* The same data, and a limit that admits no more.
LEMMA CoversLess ==
    ASSUME NEW k, NEW t, NEW d, NEW fl, NEW lim, Covers(k, t, d, fl, lim), NEW fl2, NEW lim2,
           \A c \in Chunks : \A n \in 1 .. Len(d[c]) : n <= lim2[c] => n <= lim[c],
           \A c \in Chunks : \A n \in 1 .. Len(d[c]) : n <= fl[c] => n <= fl2[c]
    PROVE  Covers(k, t, d, fl2, lim2)
BY CoversStep

-----------------------------------------------------------------------------
(* The invariant of recovery *)

\* Dumped, or lost in the attempt.
Settled(s) == s.file # None \/ s.buf = None

FilesUpTo(c, s) == \A i \in 1 .. s : i \in SplitIds /\ hfile[c][i] # None

\* How many records of each chunk the tree file named id stands for, ...
IdLimit(id, c) ==
    IF c < id.chunk THEN Len(data[c])
    ELSE IF c > id.chunk \/ id.split = 0 THEN 0
    ELSE IF FilesUpTo(c, id.split) THEN hfile[c][id.split].end ELSE Len(data[c])
IdLimits(id) == [c \in Chunks |-> IdLimit(id, c)]
\* ... the tree of a bucket that is being opened, ...
OpenLimits ==
    [c \in Chunks |-> IF c < step THEN Len(data[c])
                      ELSE IF c = step /\ c = treeID.chunk THEN IdLimit(treeID, c) ELSE 0]
\* ... and that of an open one.
Limits == [c \in Chunks |-> IF writer.at = "tree" /\ c = head THEN Len(data[c]) - 1 ELSE Len(data[c])]

HasTree == tfile.id.chunk >= 0
TreeInv == HasTree => \A k \in Keys : Covers(k, tfile.tree[k], data, flushed, IdLimits(tfile.id))
NameInv ==
    HasTree =>
        /\ proc = "opening" => tfile.id.chunk < head
        /\ Running => \/ tfile.id.chunk < head
                      \/ /\ tfile.id.chunk = head
                         /\ tfile.id.split = 0 \/ (head \in Chunks /\ FilesUpTo(head, tfile.id.split))
OpenInv ==
    proc = "opening" =>
        treeID.chunk <= step /\ \A k \in Keys : Covers(k, tree[k], data, flushed, OpenLimits)
RunInv == Running => \A k \in Keys : Covers(k, tree[k], data, flushed, Limits)

\* A number the tree file may get is that of a hint file behind which every
\* split before is dumped or lost.
Ripe(id) ==
    \/ id.chunk < head
    \/ id.chunk = head /\ id.split = 0
    \/ /\ id.chunk = head /\ Running /\ head \in Chunks /\ id.split < Len(splits[head])
       /\ \A j \in 1 .. id.split : Settled(splits[head][j])
RipeInv == proc # "down" => Ripe(treeID) /\ Ripe(maxDumped)

\* trydump has dealt with the splits it has passed.
Passed(f, ss) ==
    /\ f.at \in {"scan", "write", "forget", "failed"} => \A i \in 1 .. f.j - 1 : Settled(ss[f.chunk][i])
    /\ f.at = "forget" => ss[f.chunk][f.j].file # None
DumpInv == \A g \in Dumpers : Passed(frame[g], splits)

IdleInv == writer.at = "idle" => writer = NoWriter

Recovery == TreeInv /\ NameInv /\ OpenInv /\ RunInv /\ RipeInv /\ DumpInv /\ IdleInv
RecoveryInv == ~ahead /\ ~gap => Recovery

-----------------------------------------------------------------------------
(* Splits only move forward while a bucket is open *)

Forward(ss, rr) ==
    /\ Len(rr) \in Nat /\ Len(rr) >= Len(ss)
    /\ \A j \in 1 .. Len(ss) - 1 :
          /\ Settled(ss[j]) => Settled(rr[j])
          /\ ss[j].file # None => rr[j].file # None

LEMMA ForwardSame ==
    ASSUME NEW ss \in Seq(SplitSet)
    PROVE  Forward(ss, ss)
BY DEF Forward

LEMMA ForwardOne ==
    ASSUME HintsOK, NEW c \in Chunks, NEW rr, splits' = [splits EXCEPT ![c] = rr], Forward(splits[c], rr)
    PROVE  \A x \in Chunks : Forward(splits[x], splits'[x])
<1>1. splits'[c] = rr /\ \A x \in Chunks : x # c => splits'[x] = splits[x]
  BY DEF HintsOK
<1>2. \A x \in Chunks : splits[x] \in Seq(SplitSet)
  BY DEF HintsOK
<1> QED BY <1>1, <1>2, ForwardSame

LEMMA ForwardSetHint ==
    ASSUME Core, SetHint
    PROVE  \A x \in Chunks : Forward(splits[x], splits'[x])
<1>0. HintsOK /\ DataOK /\ WriterInv /\ ProcsOK
  BY DEF Core
<1>1. writer.at = "hint"
  BY DEF SetHint
<1>2. PICK c \in Chunks : c = ChunkOf(writer.pos)
  <2>1. head \in Chunks /\ head \in Nat /\ Len(data[head]) \in 1 .. DataFileMax /\ writer.pos = Pos(head, Len(data[head]))
    <3>1. head \in Chunks /\ Len(data[head]) >= 1 /\ writer.pos = Pos(head, Len(data[head]))
      BY <1>0, <1>1 DEF WriterInv
    <3>2. Len(data[head]) \in Nat /\ Len(data[head]) <= DataFileMax /\ DataFileMax \in Nat /\ head \in Nat
      BY <1>0, <3>1, Numbers DEF DataOK
    <3> QED BY <3>1, <3>2
  <2> QED BY <2>1, Positions
<1> DEFINE item == [n |-> NumberOf(writer.pos), live |-> writer.live]
           rr == SetItem(splits[c], writer.key, item)
<1>3. splits' = [splits EXCEPT ![c] = rr]
  BY <1>0, <1>2 DEF SetHint, HintsOK
<1>4. writer.key \in Keys /\ item \in HintItems
  <2>1. writer.key \in Keys /\ writer.live \in BOOLEAN
    BY <1>0, <1>1 DEF WriterInv, ProcsOK, Writers
  <2>2. NumberOf(writer.pos) \in Nat
    <3>1. head \in Chunks /\ Len(data[head]) >= 1 /\ writer.pos = Pos(head, Len(data[head]))
      BY <1>0, <1>1 DEF WriterInv
    <3>2. Len(data[head]) \in Nat /\ Len(data[head]) <= DataFileMax /\ DataFileMax \in Nat /\ head \in Nat
      BY <1>0, <3>1, Numbers DEF DataOK
    <3>3. Len(data[head]) \in 1 .. DataFileMax
      BY <3>1, <3>2
    <3> QED BY <3>1, <3>2, <3>3, Positions
  <2> QED BY <2>1, <2>2 DEF HintItems
<1> HIDE DEF item
<1>5. splits[c] \in Seq(SplitSet) /\ Len(splits[c]) >= 1 /\ Len(splits[c]) \in Nat
  BY <1>0 DEF HintsOK
<1>6. /\ rr \in Seq(SplitSet) /\ \A j \in 1 .. Len(splits[c]) - 1 : rr[j] = splits[c][j]
      /\ Len(rr) = Len(splits[c]) \/ Len(rr) = Len(splits[c]) + 1
  BY <1>4, <1>5, SetItemShape
<1> HIDE DEF rr
<1>7. Forward(splits[c], rr)
  BY <1>5, <1>6 DEF Forward
<1> QED BY <1>0, <1>3, <1>7, ForwardOne

LEMMA ForwardDumpLast ==
    ASSUME Core, NEW g \in Dumpers, DumpLast(g)
    PROVE  \A x \in Chunks : Forward(splits[x], splits'[x])
<1>0. HintsOK /\ ProcsOK
  BY DEF Core
<1>1. PICK c \in Chunks : c = frame[g].chunk
  BY <1>0, FrameFields
<1> DEFINE rr == Append(splits[c], NewSplit)
<1>2. splits' = [splits EXCEPT ![c] = rr]
  BY <1>0, <1>1 DEF DumpLast, Rotate, HintsOK
<1>3. splits[c] \in Seq(SplitSet) /\ Len(splits[c]) \in Nat
  BY <1>0 DEF HintsOK
<1>4. rr \in Seq(SplitSet) /\ Len(rr) = Len(splits[c]) + 1 /\ \A j \in 1 .. Len(splits[c]) : rr[j] = splits[c][j]
  BY <1>3, SplitShape, AppendProperties
<1> HIDE DEF rr
<1>5. Forward(splits[c], rr)
  BY <1>3, <1>4, SMTT(40) DEF Forward
<1> QED BY <1>0, <1>2, <1>5, ForwardOne

\* A split of trydump's is dumped or dropped.
LEMMA ForwardDump ==
    ASSUME Core, NEW g \in Dumpers, DumpFile(g) \/ DropBuffer(g)
    PROVE  /\ \A x \in Chunks : Forward(splits[x], splits'[x])
           /\ DumpFile(g) => splits'[frame[g].chunk][frame[g].j].file # None
           /\ DropBuffer(g) => /\ splits'[frame[g].chunk][frame[g].j].buf = None
                               /\ frame[g].at = "forget" /\ DumpInv =>
                                     splits'[frame[g].chunk][frame[g].j].file # None
<1>0. HintsOK /\ ProcsOK /\ FrameInv
  BY DEF Core
<1>1. PICK c \in Chunks, j \in Nat : c = frame[g].chunk /\ j = frame[g].j
  BY <1>0, FrameFields
<1>2. splits[c] \in Seq(SplitSet) /\ Len(splits[c]) \in Nat
  BY <1>0 DEF HintsOK
<1>3. j \in 1 .. Len(splits[c]) /\ j < Len(splits[c])
  <2>1. frame[g].at \in {"write", "forget", "failed"}
    BY DEF DumpFile, DropBuffer
  <2>2. j \in 1 .. frame[g].l /\ frame[g].l <= Len(splits[c]) /\ j < Len(splits[c]) /\ frame[g].l \in Nat
    BY <1>0, <1>1, <2>1, FrameFields DEF FrameInv
  <2> QED BY <1>2, <2>2
<1>4. splits[c][j] \in SplitSet /\ DOMAIN splits[c] = 1 .. Len(splits[c])
  BY <1>2, <1>3, ElementOfSeq
<1>5. CASE DumpFile(g)
  <2> DEFINE x == [splits[c][j] EXCEPT !.file = splits[c][j].buf]
             rr == [splits[c] EXCEPT ![j] = x]
  <2>1. splits' = [splits EXCEPT ![c] = rr] /\ splits[c][j].buf # None
    BY <1>0, <1>1, <1>5 DEF DumpFile, HintsOK
  <2>2. x \in SplitSet /\ x.file = splits[c][j].buf /\ x.buf = splits[c][j].buf
    BY <1>4 DEF SplitSet
  <2> HIDE DEF x
  <2>3. Len(rr) = Len(splits[c])
    BY <1>2, <1>3, <2>2, SplitExcept
  <2>4. rr[j] = x /\ \A i \in 1 .. Len(splits[c]) : i # j => rr[i] = splits[c][i]
    BY <1>3, <1>4
  <2> HIDE DEF rr
  <2>5. Forward(splits[c], rr)
    BY <1>2, <1>3, <2>1, <2>2, <2>3, <2>4 DEF Forward, Settled
  <2>6. splits'[c] = rr
    BY <1>0, <2>1 DEF HintsOK
  <2>7. ~DropBuffer(g)
    BY <1>5 DEF DumpFile, DropBuffer
  <2> QED BY <1>0, <1>1, <2>1, <2>2, <2>4, <2>5, <2>6, <2>7, ForwardOne
<1>6. CASE DropBuffer(g)
  <2> DEFINE x == [splits[c][j] EXCEPT !.buf = None]
             rr == [splits[c] EXCEPT ![j] = x]
  <2>1. splits' = [splits EXCEPT ![c] = rr]
    BY <1>0, <1>1, <1>6 DEF DropBuffer, HintsOK
  <2>2. x \in SplitSet /\ x.buf = None /\ x.file = splits[c][j].file
    BY <1>4, EmptyHints DEF SplitSet
  <2> HIDE DEF x
  <2>3. Len(rr) = Len(splits[c])
    BY <1>2, <1>3, <2>2, SplitExcept
  <2>4. rr[j] = x /\ \A i \in 1 .. Len(splits[c]) : i # j => rr[i] = splits[c][i]
    BY <1>3, <1>4
  <2> HIDE DEF rr
  <2>5. Forward(splits[c], rr)
    BY <1>2, <1>3, <2>1, <2>2, <2>3, <2>4, SMTT(40) DEF Forward, Settled
  <2>6. splits'[c] = rr
    BY <1>0, <2>1, SMTT(40) DEF HintsOK
  <2>7. ~DumpFile(g)
    BY <1>6 DEF DumpFile, DropBuffer
  <2>8. frame[g].at = "forget" /\ DumpInv => splits[c][j].file # None
    BY <1>1 DEF DumpInv, Passed
  <2> QED BY <1>0, <1>1, <2>1, <2>2, <2>4, <2>5, <2>6, <2>7, <2>8, ForwardOne
<1> QED BY <1>5, <1>6

LEMMA ForwardCheck ==
    ASSUME Core, NEW c \in Chunks, CheckHint(c)
    PROVE  \A x \in Chunks : Forward(splits[x], splits'[x])
<1>0. HintsOK /\ DataOK /\ FilesOK(hfile[c], data[c])
  BY DEF Core
<1> DEFINE q == Checks(splits[c], hfile[c], data[c])
<1>1. splits' = [splits EXCEPT ![c] = q] /\ q \in Seq(SplitSet) /\ Len(q) \in Nat /\ Len(q) >= Len(splits[c])
  BY CheckedChunk
<1>2. /\ splits[c] \in Seq(SplitSet) /\ Len(splits[c]) >= 1 /\ hfile[c] \in [SplitIds -> HintSet]
      /\ data[c] \in Seq(Records)
  BY <1>0 DEF HintsOK, DataOK
<1>3. \A j \in 1 .. Len(splits[c]) - 1 :
          \/ q[j] = splits[c][j]
          \/ /\ q[j].buf = None
             /\ q[j].file = IF splits[c][j].buf # None THEN splits[c][j].buf ELSE splits[c][j].file
  BY <1>0, <1>2, CheckShape
<1> HIDE DEF q
<1>4. Forward(splits[c], q)
  BY <1>1, <1>3 DEF Forward, Settled
<1> QED BY <1>0, <1>1, <1>4, ForwardOne

\* The steps of a bucket that stays open.
LEMMA Forwards ==
    ASSUME Core, Next, Running, Running'
    PROVE  \A x \in Chunks : Forward(splits[x], splits'[x])
<1>1. CASE SetHint
  BY <1>1, ForwardSetHint
<1>2. ASSUME NEW g \in Dumpers, DumpLast(g) \/ DumpFile(g) \/ DropBuffer(g)
      PROVE  \A x \in Chunks : Forward(splits[x], splits'[x])
  BY <1>2, ForwardDumpLast, ForwardDump
<1>3. CASE CheckBehind
  <2>1. CheckHint(bg) /\ bg \in Chunks
    <3>1. /\ bg \in Nat /\ treeID.chunk \in Nat /\ head \in Nat /\ head <= NumChunks /\ treeID.chunk <= head
          /\ NumChunks \in Nat /\ bg < treeID.chunk
      BY <1>3, Numbers DEF Core, IndexOK, IDs, IdInv, Running, CheckBehind
    <3>2. bg < NumChunks
      BY <3>1
    <3> QED BY <1>3, <3>1, <3>2, Numbers DEF CheckBehind
  <2> QED BY <2>1, ForwardCheck
<1>4. CASE splits' = splits
  <2>1. \A x \in Chunks : splits[x] \in Seq(SplitSet)
    BY DEF Core, HintsOK
  <2> QED BY <1>4, <2>1, ForwardSame
<1>5. proc # "down" /\ proc' # "down" /\ proc # "opening"
  BY DEF Running
<1>6. ASSUME ~SetHint, ~CheckBehind, \A g \in Dumpers : ~(DumpLast(g) \/ DumpFile(g) \/ DropBuffer(g))
      PROVE  splits' = splits
  <2>1. ~Down /\ ~OpenTree /\ ~OpenChunk /\ ~OpenDone
    BY <1>5, ZenonT(40) DEF Down, OpenTree, OpenChunk, OpenDone
  <2>2. ASSUME NEW g \in Dumpers, DumpOld(g) \/ LeaveChunk(g) \/ DumpFails(g) \/ DumpPanics(g)
        PROVE  splits' = splits
    BY <2>1, <2>2 DEF DumpOld, LeaveChunk, DumpFails, DumpPanics, hints
  <2>3. ASSUME \/ \E k \in Keys, live \in BOOLEAN : AppendRecord(k, live)
               \/ SetTree \/ \E c \in Chunks : DumpRound(c)
               \/ Close \/ RemoveTree \/ DumpTree
               \/ \E k \in Keys : StartLookup(k)
               \/ LookupMem \/ LookupPanics \/ LookupFile \/ LookupReturn
        PROVE  splits' = splits
    BY <2>3, ZenonT(40) DEF AppendRecord, SetTree, DumpRound, Close, RemoveTree, DumpTree, StartLookup, LookupMem,
                LookupPanics, LookupFile, LookupReturn, hints
  <2> QED BY <1>6, <2>1, <2>2, <2>3 DEF Next, Exit, Crash, BuildDies
<1> QED BY <1>1, <1>2, <1>3, <1>4, <1>6

-----------------------------------------------------------------------------
(* trydump and the numbers a tree file may get *)

LEMMA PassedIdle ==
    ASSUME NEW f, f.at \in {"idle", "enter"}, NEW ss
    PROVE  Passed(f, ss)
BY DEF Passed

LEMMA PassedKeep ==
    ASSUME Core, NEW g \in Dumpers, Passed(frame[g], splits), \A x \in Chunks : Forward(splits[x], splits'[x])
    PROVE  Passed(frame[g], splits')
<1>1. ProcsOK /\ HintsOK /\ FrameInv
  BY DEF Core
<1>2. frame[g].chunk \in Chunks /\ frame[g].j \in Nat /\ frame[g].l \in Nat
  BY <1>1, FrameFields
<1> DEFINE c == frame[g].chunk
<1>3. Len(splits[c]) \in Nat /\ Forward(splits[c], splits'[c])
  BY <1>1, <1>2 DEF HintsOK
<1>4. frame[g].at \in {"scan", "write", "forget", "failed"} =>
         frame[g].j \in 1 .. frame[g].l /\ frame[g].l <= Len(splits[c])
  BY <1>1 DEF FrameInv
<1>5. frame[g].at \in {"write", "forget", "failed"} => frame[g].j < Len(splits[c])
  BY <1>1 DEF FrameInv
<1>6. frame[g].at \in {"scan", "write", "forget", "failed"} =>
         \A i \in 1 .. frame[g].j - 1 : i \in 1 .. Len(splits[c]) - 1
  BY <1>2, <1>3, <1>4
<1>7. frame[g].at = "forget" => frame[g].j \in 1 .. Len(splits[c]) - 1
  BY <1>2, <1>3, <1>4, <1>5
<1> QED BY <1>3, <1>6, <1>7 DEF Passed, Forward

LEMMA PassedAll ==
    ASSUME Core, DumpInv, \A x \in Chunks : Forward(splits[x], splits'[x]), frame' = frame
    PROVE  DumpInv'
BY PassedKeep DEF DumpInv

LEMMA PassedOne ==
    ASSUME Core, DumpInv, \A x \in Chunks : Forward(splits[x], splits'[x]),
           NEW g \in Dumpers, NEW f, frame' = [frame EXCEPT ![g] = f], Passed(f, splits')
    PROVE  DumpInv'
<1>1. frame'[g] = f /\ \A x \in Dumpers : x # g => frame'[x] = frame[x]
  BY DEF Core, ProcsOK
<1> SUFFICES ASSUME NEW x \in Dumpers PROVE Passed(frame'[x], splits')
  BY DEF DumpInv
<1>2. Passed(frame[x], splits')
  BY PassedKeep DEF DumpInv
<1> QED BY <1>1, <1>2

\* What trydump passes over is dumped.
LEMMA PassesOver ==
    ASSUME Core, DumpInv, NEW g \in Dumpers, InChunk(g), NEW i \in 1 .. Limit(g) - 1, i \notin ToDump(g)
    PROVE  Settled(splits[frame[g].chunk][i])
<1>1. ProcsOK /\ HintsOK /\ FrameInv
  BY DEF Core
<1>2. PICK c \in Chunks : c = frame[g].chunk
  BY <1>1, FrameFields
<1>3. /\ Limit(g) \in Nat /\ Limit(g) <= Len(splits[c]) /\ From(g) \in Nat \ {0} /\ From(g) <= Limit(g)
      /\ Len(splits[c]) \in Nat /\ i \in Nat
  BY <1>2, Scan
<1>4. CASE i < From(g)
  <2>1. frame[g].at = "scan" /\ From(g) = frame[g].j
    BY <1>3, <1>4 DEF From, InChunk
  <2>2. i \in 1 .. frame[g].j - 1
    BY <1>3, <1>4, <2>1
  <2> QED BY <1>2, <2>1, <2>2 DEF DumpInv, Passed
<1>5. CASE ~(i < From(g))
  <2> DEFINE s == splits[c][i]
  <2>1. ~NeedDump(s) /\ ~Lost(s)
    <3>1. i \in From(g) .. Limit(g) - 1
      BY <1>3, <1>5
    <3> QED BY <1>2, <3>1 DEF ToDump
  <2> SUFFICES ASSUME s.file = None PROVE FALSE
    BY <1>2 DEF Settled
  <2>2. DOMAIN s.buf.items = {} /\ s.buf # None
    BY <2>1 DEF NeedDump, Lost
  <2>3. i \in 1 .. Len(splits[c]) - 1 /\ i \in 1 .. Len(splits[c]) /\ i < Len(splits[c])
    BY <1>3
  <2>4. Running
    BY Dumping DEF InChunk
  <2>5. /\ splits[c] \in Seq(SplitSet) /\ Len(splits[c]) \in Nat \ {0} /\ Hinted(c) \in Nat
        /\ \/ Kept(splits[c], data[c], hfile[c], Hinted(c))
           \/ Quiet(splits[c], data[c], hfile[c])
    BY <2>4, ChunkFacts
  <2>6. CASE Quiet(splits[c], data[c], hfile[c])
    BY <2>2, <2>3, <2>6 DEF Quiet
  <2>7. CASE Kept(splits[c], data[c], hfile[c], Hinted(c))
    <3>1. PICK b : Bounds(splits[c], data[c], b, Hinted(c))
      BY <2>7 DEF Kept
    <3>2. /\ b \in [0 .. Len(splits[c]) -> Nat]
          /\ \A x, y \in 0 .. Len(splits[c]) : x < y => b[x] <= b[y] /\ (y < Len(splits[c]) => b[x] < b[y])
          /\ i - 1 \in 0 .. Len(splits[c]) /\ i \in 0 .. Len(splits[c]) /\ i - 1 < i
      BY <2>3, <2>5, <3>1, BoundsFacts
    <3>3. b[i - 1] < b[i] /\ b[i] \in Nat /\ b[i - 1] \in Nat
      BY <2>3, <3>2
    <3>4. Exact(s.buf, data[c], b[i - 1], b[i])
      BY <2>2, <2>3, <3>1 DEF Bounds
    <3>5. b[i] \in b[i - 1] + 1 .. b[i]
      BY <3>3
    <3>6. data[c][b[i]].key \in DOMAIN s.buf.items
      BY <3>4, <3>5 DEF Exact
    <3> QED BY <2>2, <3>6
  <2> QED BY <2>5, <2>6, <2>7
<1> QED BY <1>4, <1>5

LEMMA PassedWrite ==
    ASSUME Core, DumpInv, \A x \in Chunks : Forward(splits[x], splits'[x]),
           NEW g \in Dumpers, InChunk(g), NEW j \in 1 .. Limit(g),
           \A i \in 1 .. j - 1 : i \notin ToDump(g), WriteSplit(g, j)
    PROVE  DumpInv'
<1>1. ProcsOK /\ Limit(g) \in Nat /\ Limit(g) <= Len(splits[frame[g].chunk]) /\ Len(splits[frame[g].chunk]) \in Nat
  BY Scan DEF Core
<1>2. PICK f \in Frames : /\ frame' = [frame EXCEPT ![g] = f]
                          /\ f.at = "write" /\ f.chunk = frame[g].chunk /\ f.j = j /\ f.l = Limit(g)
  BY <1>1, WriteFrame
<1>3. frame[g].chunk \in Chunks
  BY <1>1, FrameFields
<1>4. Passed(f, splits')
  <2> SUFFICES ASSUME NEW i \in 1 .. j - 1 PROVE Settled(splits'[f.chunk][i])
    BY <1>2 DEF Passed
  <2>1. i \in 1 .. Limit(g) - 1
    BY <1>1
  <2>2. Settled(splits[f.chunk][i])
    BY <1>2, <2>1, PassesOver
  <2>3. i \in 1 .. Len(splits[f.chunk]) - 1
    BY <1>1, <1>2, <2>1
  <2> QED BY <1>2, <1>3, <2>2, <2>3 DEF Forward
<1> QED BY <1>2, <1>4, PassedOne

LEMMA NextFrameIdle ==
    ASSUME Core, NEW g \in Dumpers, NextChunk(g), Running
    PROVE  Running' /\ \E f : frame' = [frame EXCEPT ![g] = f] /\ f.at \in {"idle", "enter"}
BY NextFrame DEF Core

LEMMA NextDumpInv ==
    ASSUME Core, Core', DumpInv, Next
    PROVE  DumpInv'
<1>0. HintsOK /\ ProcsOK /\ DownInv /\ DownInv'
  BY DEF Core
<1>1. \A x \in Chunks : Forward(splits[x], splits[x])
  BY <1>0, ForwardSame DEF HintsOK
<1>2. ASSUME proc' \in {"down", "opening"} PROVE DumpInv'
  BY <1>0, <1>2, PassedIdle DEF DumpInv, DownInv
<1>3. ASSUME frame' = frame, splits' = splits PROVE DumpInv'
  BY <1>3 DEF DumpInv
<1>4. ASSUME Down \/ OpenTree \/ OpenChunk PROVE DumpInv'
  BY <1>2, <1>4, Zenon DEF Down, OpenTree, OpenChunk
<1>5. ASSUME SetHint \/ CheckBehind PROVE DumpInv'
  <2>1. Running /\ Running' /\ frame' = frame
    BY <1>5 DEF SetHint, CheckBehind, Running
  <2> QED BY <2>1, Forwards, PassedAll
<1>6. ASSUME \/ \E k \in Keys, live \in BOOLEAN : AppendRecord(k, live)
             \/ SetTree \/ RemoveTree \/ DumpTree \/ OpenDone
             \/ \E k \in Keys : StartLookup(k)
             \/ LookupMem \/ LookupPanics \/ LookupFile \/ LookupReturn
      PROVE  DumpInv'
  BY <1>3, <1>6, ZenonT(40) DEF AppendRecord, SetTree, RemoveTree, DumpTree, OpenDone, StartLookup, LookupMem,
                    LookupPanics, LookupFile, LookupReturn, hints
\* A frame begins or ends.
<1>7. ASSUME NEW g \in Dumpers, NEW f, frame' = [frame EXCEPT ![g] = f], f.at \in {"idle", "enter"}, splits' = splits
      PROVE  DumpInv'
  <2>1. Passed(f, splits')
    BY <1>7, PassedIdle
  <2>2. \A x \in Chunks : Forward(splits[x], splits'[x])
    BY <1>1, <1>7
  <2> QED BY <1>7, <2>1, <2>2, PassedOne
<1>8. ASSUME NEW c \in Chunks, DumpRound(c) PROVE DumpInv'
  <2> DEFINE f == [Idle EXCEPT !.at = "enter", !.chunk = c]
  <2>1. f.at \in {"idle", "enter"} /\ "dumper" \in Dumpers
    BY IdleFrame DEF Dumpers
  <2>2. frame' = [frame EXCEPT !["dumper"] = f] /\ splits' = splits
    BY <1>8 DEF DumpRound, hints
  <2> HIDE DEF f
  <2> QED BY <1>7, <2>1, <2>2
<1>9. ASSUME Close PROVE DumpInv'
  <2>1. CASE frame' = frame
    BY <1>3, <1>9, <2>1 DEF Close, hints
  <2>2. CASE frame' # frame
    <3> DEFINE f == [Idle EXCEPT !.at = "enter"]
    <3>1. f.at \in {"idle", "enter"} /\ "closer" \in Dumpers
      BY IdleFrame DEF Dumpers
    <3>2. frame' = [frame EXCEPT !["closer"] = f] /\ splits' = splits
      BY <1>9, <2>2 DEF Close, hints
    <3> HIDE DEF f
    <3> QED BY <1>7, <3>1, <3>2
  <2> QED BY <2>1, <2>2
<1>10. ASSUME NEW g \in Dumpers, LeaveChunk(g) PROVE DumpInv'
  <2>1. Running /\ NextChunk(g) /\ splits' = splits
    BY <1>10, Dumping DEF LeaveChunk, InChunk, hints
  <2> QED BY <1>7, <2>1, NextFrameIdle
<1>11. ASSUME NEW g \in Dumpers, DumpPanics(g) PROVE DumpInv'
  <2>1. CASE Down
    BY <1>4, <2>1
  <2>2. CASE ~Down
    <3>1. frame' = [frame EXCEPT ![g] = Idle] /\ splits' = splits
      BY <1>11, <2>2 DEF DumpPanics, hints
    <3> QED BY <1>7, <3>1, IdleFrame
  <2> QED BY <2>1, <2>2
<1>12. ASSUME NEW g \in Dumpers, DumpFails(g) PROVE DumpInv'
  <2> DEFINE f == [frame[g] EXCEPT !.at = "failed"]
  <2>1. frame[g] \in Frames /\ frame[g].at = "write"
    BY <1>0, <1>12, FrameFields DEF DumpFails
  <2>2. f.at = "failed" /\ f.chunk = frame[g].chunk /\ f.j = frame[g].j
    BY <2>1 DEF Frames
  <2>3. frame' = [frame EXCEPT ![g] = f] /\ splits' = splits
    BY <1>0, <1>12 DEF DumpFails, hints, ProcsOK
  <2> HIDE DEF f
  <2>4. Passed(frame[g], splits)
    BY DEF DumpInv
  <2>5. Passed(f, splits')
    BY <2>1, <2>2, <2>3, <2>4 DEF Passed
  <2> QED BY <1>1, <2>3, <2>5, PassedOne
<1>13. ASSUME NEW g \in Dumpers, DumpOld(g) PROVE DumpInv'
  <2>1. InChunk(g) /\ ToDump(g) # {} /\ WriteSplit(g, Min(ToDump(g))) /\ splits' = splits
    BY <1>13 DEF DumpOld, hints
  <2>2. ToDump(g) \subseteq Nat /\ Limit(g) \in Nat /\ \A j \in ToDump(g) : j \in 1 .. Limit(g) - 1
    BY <2>1, Scan
  <2>3. Min(ToDump(g)) \in ToDump(g) /\ \A y \in ToDump(g) : Min(ToDump(g)) <= y
    BY <2>1, <2>2, MinIsLeast
  <2> DEFINE j == Min(ToDump(g))
  <2>4. j \in 1 .. Limit(g) /\ j \in Nat /\ \A y \in ToDump(g) : j <= y
    BY <2>2, <2>3
  <2> HIDE DEF j
  <2>5. \A i \in 1 .. j - 1 : i \notin ToDump(g)
    <3>1. \A i \in 1 .. j - 1 : ~(j <= i)
      BY <2>4
    <3> QED BY <2>4, <3>1
  <2>6. WriteSplit(g, j)
    BY <2>1 DEF j
  <2> QED BY <1>1, <2>1, <2>4, <2>5, <2>6, PassedWrite
<1>14. ASSUME NEW g \in Dumpers, DumpLast(g) PROVE DumpInv'
  <2>1. InChunk(g) /\ ToDump(g) = {} /\ WriteSplit(g, Limit(g))
    BY <1>14 DEF DumpLast
  <2>2. Limit(g) \in Nat /\ Limit(g) >= 1
    BY <2>1, Scan
  <2>3. Limit(g) \in 1 .. Limit(g)
    BY <2>2
  <2>4. \A x \in Chunks : Forward(splits[x], splits'[x])
    BY <1>14, ForwardDumpLast
  <2> QED BY <2>1, <2>3, <2>4, PassedWrite
<1>15. ASSUME NEW g \in Dumpers, DumpFile(g) PROVE DumpInv'
  <2> DEFINE f == [frame[g] EXCEPT !.at = "forget"]
  <2>1. frame[g] \in Frames /\ frame[g].at = "write"
    BY <1>0, <1>15, FrameFields DEF DumpFile
  <2>2. f.at = "forget" /\ f.chunk = frame[g].chunk /\ f.j = frame[g].j
    BY <2>1 DEF Frames
  <2>3. frame' = [frame EXCEPT ![g] = f]
    BY <1>0, <1>15 DEF DumpFile, ProcsOK
  <2> HIDE DEF f
  <2>4. /\ \A x \in Chunks : Forward(splits[x], splits'[x])
        /\ splits'[frame[g].chunk][frame[g].j].file # None
    BY <1>15, ForwardDump
  <2>5. Passed(frame[g], splits')
    BY <2>4, PassedKeep DEF DumpInv
  <2>6. Passed(f, splits')
    BY <2>1, <2>2, <2>4, <2>5 DEF Passed
  <2> QED BY <2>3, <2>4, <2>6, PassedOne
<1>16. ASSUME NEW g \in Dumpers, DropBuffer(g) PROVE DumpInv'
  <2>1. /\ \A x \in Chunks : Forward(splits[x], splits'[x])
        /\ splits'[frame[g].chunk][frame[g].j].buf = None
    BY <1>16, ForwardDump
  <2>2. CASE frame[g].j < frame[g].l
    <3> DEFINE f == [frame[g] EXCEPT !.at = "scan", !.j = frame[g].j + 1]
    <3>1. frame[g] \in Frames /\ frame[g].j \in Nat /\ frame[g].at \in {"forget", "failed"}
      BY <1>0, <1>16, FrameFields DEF DropBuffer
    <3>2. f.at = "scan" /\ f.chunk = frame[g].chunk /\ f.j = frame[g].j + 1
      BY <3>1 DEF Frames
    <3>3. frame' = [frame EXCEPT ![g] = f]
      BY <1>0, <1>16, <2>2 DEF DropBuffer, ProcsOK
    <3> HIDE DEF f
    <3>4. Passed(frame[g], splits')
      BY <2>1, PassedKeep DEF DumpInv
    <3>5. Passed(f, splits')
      <4> SUFFICES ASSUME NEW i \in 1 .. f.j - 1 PROVE Settled(splits'[f.chunk][i])
        BY <3>2 DEF Passed
      <4>1. i \in 1 .. frame[g].j - 1 \/ i = frame[g].j
        BY <3>1, <3>2
      <4> QED BY <2>1, <3>1, <3>2, <3>4, <4>1 DEF Passed, Settled
    <3> QED BY <2>1, <3>3, <3>5, PassedOne
  <2>3. CASE ~(frame[g].j < frame[g].l)
    <3>1. NextChunk(g) /\ Running
      BY <1>16, <2>3, Dumping DEF DropBuffer
    <3>2. PICK f : frame' = [frame EXCEPT ![g] = f] /\ f.at \in {"idle", "enter"}
      BY <3>1, NextFrameIdle
    <3>3. Passed(f, splits')
      BY <3>2, PassedIdle
    <3> QED BY <2>1, <3>2, <3>3, PassedOne
  <2> QED BY <2>2, <2>3
<1> QED BY <1>4, <1>5, <1>6, <1>8, <1>9, <1>10, <1>11, <1>12, <1>13, <1>14, <1>15, <1>16 DEF Next, Exit, Crash, BuildDies

-----------------------------------------------------------------------------
(* The steps, by what they may change *)

\* A step that concerns neither files nor tree nor writer.
Stays ==
    /\ UNCHANGED <<data, flushed, hfile, tfile, step, head, tree, treeID, writer, ahead, gap>>
    /\ proc' = proc \/ (Running /\ Running')

LEMMA Steps ==
    ASSUME Core, Next
    PROVE  \/ Down /\ (hfile' = hfile \/ \E c \in Chunks : BuildDies(c))
           \/ OpenTree \/ OpenChunk \/ OpenDone
           \/ \E k \in Keys, live \in BOOLEAN : AppendRecord(k, live)
           \/ SetTree \/ SetHint \/ CheckBehind \/ Close \/ RemoveTree \/ DumpTree
           \/ \E g \in Dumpers : DumpFile(g)
           \/ Stays /\ \E g \in Dumpers : DropBuffer(g)
           \/ Stays /\ maxDumped' = maxDumped
<1>1. ASSUME NEW g \in Dumpers, DumpOld(g) \/ DumpLast(g) \/ DumpFails(g)
      PROVE  Stays /\ maxDumped' = maxDumped
  BY <1>1 DEF DumpOld, DumpLast, DumpFails, Stays, disk, index, hints, counters
<1>2. ASSUME NEW g \in Dumpers, LeaveChunk(g)
      PROVE  Stays /\ maxDumped' = maxDumped
  <2>1. Running /\ NextChunk(g)
    BY <1>2, Dumping DEF LeaveChunk, InChunk
  <2>2. Running'
    BY <2>1, NextFrame DEF Core
  <2> QED BY <1>2, <2>1, <2>2 DEF LeaveChunk, Stays, disk, index, hints, counters
<1>3. ASSUME NEW g \in Dumpers, DropBuffer(g)
      PROVE  Stays
  <2>1. Running
    BY <1>3, Dumping DEF DropBuffer
  <2>2. Running'
    BY <1>3, <2>1, NextFrame DEF DropBuffer, Core, Running
  <2> QED BY <1>3, <2>1, <2>2 DEF DropBuffer, Stays, disk, index, counters
<1>4. ASSUME NEW g \in Dumpers, DumpPanics(g)
      PROVE  (Down /\ hfile' = hfile) \/ (Stays /\ maxDumped' = maxDumped)
  BY <1>4, SMTT(40) DEF DumpPanics, Stays, disk, index, hints, counters
<1>5. ASSUME \/ \E c \in Chunks : DumpRound(c)
             \/ \E k \in Keys : StartLookup(k)
             \/ LookupMem \/ LookupPanics \/ LookupFile \/ LookupReturn
      PROVE  Stays /\ maxDumped' = maxDumped
  BY <1>5, ZenonT(40) DEF DumpRound, StartLookup, LookupMem, LookupPanics, LookupFile, LookupReturn, Stays, disk, index,
              hints, counters
<1> QED BY <1>1, <1>2, <1>3, <1>4, <1>5 DEF Next, Exit, Crash, BuildDies

\* The head chunk of an open bucket.
LEMMA HeadGrows ==
    ASSUME Core, Next, Running, Running'
    PROVE  head \in Nat /\ head' \in Nat /\ (head' = head \/ head' = head + 1)
<1>1. head \in Nat
  BY DEF Core, IndexOK
<1>2. proc # "down" /\ proc' # "down" /\ proc # "opening"
  BY DEF Running
<1>3. ASSUME NEW k \in Keys, NEW live \in BOOLEAN, AppendRecord(k, live)
      PROVE  head' = head \/ head' = head + 1
  BY <1>3 DEF AppendRecord
<1>4. ASSUME NEW g \in Dumpers, DumpFile(g)
      PROVE  head' = head
  BY <1>4 DEF DumpFile
<1>5. ASSUME SetTree \/ SetHint \/ CheckBehind \/ Close \/ RemoveTree \/ DumpTree
      PROVE  head' = head
  BY <1>5 DEF SetTree, SetHint, CheckBehind, Close, RemoveTree, DumpTree
<1>6. Stays => head' = head
  BY DEF Stays
<1>7. ~Down /\ ~OpenTree /\ ~OpenChunk /\ ~OpenDone
  BY <1>2 DEF Down, OpenTree, OpenChunk, OpenDone
<1> QED BY <1>1, <1>3, <1>4, <1>5, <1>6, <1>7, Steps

LEMMA RipeKeep ==
    ASSUME Core, Next, Running, Running', NEW id \in IDs, Ripe(id)
    PROVE  Ripe(id)'
<1>1. head \in Nat /\ head' \in Nat /\ (head' = head \/ head' = head + 1)
  BY HeadGrows
<1>2. id.chunk \in Nat /\ id.split \in Nat /\ id.chunk <= head
  BY <1>1 DEF Ripe, IDs
<1>3. CASE head' # head
  BY <1>1, <1>2, <1>3 DEF Ripe
<1>4. CASE head' = head
  <2>1. CASE id.chunk < head \/ (id.chunk = head /\ id.split = 0)
    BY <1>4, <2>1 DEF Ripe
  <2>2. CASE ~(id.chunk < head \/ (id.chunk = head /\ id.split = 0))
    <3>1. /\ id.chunk = head /\ head \in Chunks /\ id.split < Len(splits[head])
          /\ \A j \in 1 .. id.split : Settled(splits[head][j])
      BY <2>2 DEF Ripe
    <3>2. PICK c \in Chunks : c = head
      BY <3>1
    <3>3. Forward(splits[c], splits'[c]) /\ Len(splits[c]) \in Nat
      BY <3>2, Forwards DEF Core, HintsOK
    <3>4. Len(splits'[c]) \in Nat /\ id.split < Len(splits'[c])
      BY <1>2, <3>1, <3>2, <3>3 DEF Forward
    <3>5. \A j \in 1 .. id.split : j \in 1 .. Len(splits[c]) - 1
      BY <1>2, <3>1, <3>2, <3>3
    <3>6. \A j \in 1 .. id.split : Settled(splits'[c][j])
      BY <3>1, <3>2, <3>3, <3>5 DEF Forward
    <3> QED BY <1>4, <3>1, <3>2, <3>4, <3>6 DEF Ripe
  <2> QED BY <2>1, <2>2
<1> QED BY <1>3, <1>4

LEMMA RipeStays ==
    ASSUME Core, Next, Running, Running', RipeInv,
           treeID' \in {treeID, maxDumped}
    PROVE  Ripe(treeID)' /\ (maxDumped' = maxDumped => Ripe(maxDumped)')
<1>1. PICK id \in IDs, md \in IDs : id = treeID /\ md = maxDumped
  BY DEF Core, IndexOK
<1>2. proc # "down"
  BY DEF Running
<1>3. Ripe(id) /\ Ripe(md)
  BY <1>1, <1>2 DEF RipeInv
<1>4. Ripe(id)' /\ Ripe(md)'
  BY <1>3, RipeKeep
<1>5. treeID' = id \/ treeID' = md
  BY <1>1
<1> QED BY <1>1, <1>4, <1>5 DEF Ripe

\* Open comes to a chunk: its data is in the files then, and its records, if it
\* has any, before the head.
LEMMA Opened ==
    ASSUME Core, OpenChunk, NEW c, c = step
    PROVE  LET q == Checks(splits[c], hfile[c], data[c])
               hf == FilesAfter(splits[c], hfile[c], data[c])
           IN  /\ c \in Chunks /\ c \in Nat /\ proc = "opening" /\ proc' = "opening" /\ step' = c + 1
               /\ UNCHANGED <<data, flushed, tfile, head, treeID, dirty, bg, frame, writer, ahead, gap>>
               /\ splits[c] = <<NewSplit>>
               /\ splits' = [splits EXCEPT ![c] = q] /\ hfile' = [hfile EXCEPT ![c] = hf]
               /\ q \in Seq(SplitSet) /\ hf \in [SplitIds -> HintSet] /\ Len(q) \in Nat \ {0}
               /\ Kept(q, data[c], hf, Len(data[c])) /\ Blank(q[Len(q)])
               /\ FilesOK(hf, data[c]) /\ FilesOK(hfile[c], data[c])
               /\ data[c] # << >> => c < head
               /\ Len(q) > 1 => data[c] # << >>
               /\ maxDumped' = maxDumped \/ (data[c] # << >> /\ \E s \in Nat : maxDumped' = HintID(c, s))
               /\ Behind(c) \in Nat
               /\ tree' = IF Behind(c) >= Len(q) - 1 THEN tree
                          ELSE UpdateTree(c, [j \in 1 .. Len(q) - 1 |-> q[j].file])
<1>0. DataOK /\ HintsOK /\ IndexOK /\ HeadInv
  BY DEF Core
<1>1. c \in Chunks /\ c \in Nat
  BY <1>0 DEF OpenChunk, IndexOK
<1>2. /\ proc = "opening" /\ CheckHint(c) /\ step' = c + 1 /\ proc' = "opening"
      /\ UNCHANGED <<data, flushed, tfile, head, treeID, dirty, bg, frame, writer, ahead, gap>>
  BY DEF OpenChunk, counters
<1>3. splits[c] = <<NewSplit>> /\ FilesOK(hfile[c], data[c])
  BY <1>1, <1>2 DEF Core, ChunkInv, Unopened
<1> DEFINE q == Checks(splits[c], hfile[c], data[c])
           hf == FilesAfter(splits[c], hfile[c], data[c])
<1>4. /\ splits' = [splits EXCEPT ![c] = q] /\ hfile' = [hfile EXCEPT ![c] = hf]
      /\ CheckedSplits(c) = q /\ q \in Seq(SplitSet) /\ hf \in [SplitIds -> HintSet]
      /\ Len(q) \in Nat \ {0} /\ Len(q) >= Len(splits[c])
  BY <1>1, <1>2, CheckedChunk
<1>5. hfile[c] \in [SplitIds -> HintSet] /\ data[c] \in Seq(Records) /\ Len(data[c]) \in Nat /\ splits[c] \in Seq(SplitSet)
  BY <1>0, <1>1 DEF DataOK, HintsOK
<1>6. Kept(q, data[c], hf, Len(data[c])) /\ Blank(q[Len(q)])
  <2>1. Len(splits[c]) = 1 /\ Blank(splits[c][1])
    BY <1>3, BlankNew
  <2> QED BY <1>3, <1>5, <2>1, CheckFresh
<1>s. Size(hfile[c], data[c]) \in 0 .. Len(data[c]) /\ DataSize(c) = Size(hfile[c], data[c])
  BY <1>3, <1>5, SizeFacts, CheckDefs
<1>7. FilesOK(hf, data[c])
  <2>1. Len(q) >= 1
    BY <1>4
  <2> HIDE DEF q, hf
  <2> QED BY <1>4, <1>5, <1>6, <2>1, KeptFiles
<1> HIDE DEF q, hf
<1>9. data[c] # << >> => c < head
  BY <1>0, <1>1, <1>2 DEF HeadInv, IndexOK
<1>10. Len(q) > 1 => data[c] # << >>
  <2> SUFFICES ASSUME Len(q) > 1, data[c] = << >> PROVE FALSE
    OBVIOUS
  <2>1. Len(data[c]) = 0
    OBVIOUS
  <2>2. PICK b : Bounds(q, data[c], b, Len(data[c]))
    BY <1>6 DEF Kept
  <2>3. Len(q) - 1 \in 0 .. Len(q) - 1 /\ Len(q) >= 1
    BY <1>4
  <2>4. Len(q) - 1 <= Len(data[c])
    BY <1>4, <2>2, <2>3, BoundsFacts
  <2> QED BY <1>4, <2>1, <2>4
<1>11. DataSize(c) < Len(data[c]) => data[c] # << >>
  <2> SUFFICES ASSUME DataSize(c) < Len(data[c]), data[c] = << >> PROVE FALSE
    OBVIOUS
  <2>1. Len(data[c]) = 0
    OBVIOUS
  <2> QED BY <1>s, <2>1
<1>12. Behind(c) \in Nat
  BY <1>0 DEF Behind, IndexOK, IDs
<1>13. CASE Behind(c) >= Len(q) - 1
  <2>1. /\ tree' = tree
        /\ maxDumped' = IF DataSize(c) < Len(data[c]) THEN Larger(maxDumped, HintID(c, Len(q) - 1)) ELSE maxDumped
    BY <1>4, <1>13 DEF OpenChunk
  <2>2. Larger(maxDumped, HintID(c, Len(q) - 1)) \in {maxDumped, HintID(c, Len(q) - 1)} /\ Len(q) - 1 \in Nat
    BY <1>4 DEF Larger
  <2>3. maxDumped' = maxDumped \/ (data[c] # << >> /\ \E s \in Nat : maxDumped' = HintID(c, s))
    BY <1>11, <2>1, <2>2
  <2> QED BY <1>1, <1>2, <1>3, <1>4, <1>6, <1>7, <1>9, <1>10, <1>12, <1>13, <2>1, <2>3 DEF q, hf
<1>14. CASE ~(Behind(c) >= Len(q) - 1)
  <2>1. tree' = UpdateTree(c, [j \in 1 .. Len(q) - 1 |-> q[j].file]) /\ maxDumped' = HintID(c, Behind(c) + Len(q) - 1)
    BY <1>4, <1>14, <1>12 DEF OpenChunk
  <2>2. Len(q) > 1 /\ Behind(c) + Len(q) - 1 \in Nat
    BY <1>4, <1>12, <1>14
  <2>3. maxDumped' = maxDumped \/ (data[c] # << >> /\ \E s \in Nat : maxDumped' = HintID(c, s))
    BY <1>10, <2>1, <2>2
  <2> QED BY <1>1, <1>2, <1>3, <1>4, <1>6, <1>7, <1>9, <1>10, <1>12, <1>14, <2>1, <2>3 DEF q, hf
<1> QED BY <1>13, <1>14

LEMMA NextRipe ==
    ASSUME Core, Core', RipeInv, DumpInv, Next
    PROVE  RipeInv'
<1>0. IndexOK /\ HintsOK /\ ProcsOK /\ FrameInv /\ DataOK
  BY DEF Core
<1>1. PICK id \in IDs, md \in IDs : id = treeID /\ md = maxDumped
  BY <1>0 DEF IndexOK
<1>2. CASE Down
  BY <1>2 DEF Down, RipeInv
\* A bucket that is being opened.
<1>3. ASSUME proc = "opening", head' = head, NEW x, x = id \/ x = md PROVE Ripe(x)'
  <2>1. Ripe(x) /\ ~Running
    BY <1>1, <1>3 DEF RipeInv, Running
  <2> QED BY <1>3, <2>1 DEF Ripe
<1>4. CASE OpenTree
  <2>1. head' = MaxData + 1 /\ maxDumped' = treeID'
    BY <1>4 DEF OpenTree
  <2>2. MaxData \in Int /\ MaxData >= -1
    BY <1>0, MaxDataFacts
  <2>3. CASE tfile.id.chunk >= 0 /\ tfile.id.chunk <= MaxData
    <3>1. treeID' = tfile.id /\ tfile.id.chunk \in Int
      BY <1>0, <1>4, <2>3 DEF OpenTree, IndexOK
    <3>2. treeID'.chunk < head'
      BY <2>1, <2>2, <2>3, <3>1
    <3> QED BY <2>1, <3>2 DEF RipeInv, Ripe
  <2>4. CASE ~(tfile.id.chunk >= 0 /\ tfile.id.chunk <= MaxData)
    <3>1. treeID' = NoTreeID
      BY <1>4, <2>4 DEF OpenTree
    <3>2. treeID'.chunk = 0 /\ treeID'.split = 0
      BY <3>1 DEF NoTreeID, HintID
    <3>3. treeID'.chunk < head' \/ treeID'.chunk = head'
      BY <2>1, <2>2, <3>2
    <3> QED BY <2>1, <3>2, <3>3 DEF RipeInv, Ripe
  <2> QED BY <2>3, <2>4
<1>5. CASE OpenChunk
  <2>1. PICK c : c = step
    OBVIOUS
  <2>2. /\ proc = "opening" /\ UNCHANGED <<head, treeID>> /\ (data[c] # << >> => c < head)
        /\ maxDumped' = maxDumped \/ (data[c] # << >> /\ \E s \in Nat : maxDumped' = HintID(c, s))
    BY <1>5, <2>1, Opened
  <2>3. Ripe(id)' /\ Ripe(md)'
    BY <1>3, <2>2
  <2>4. maxDumped' = md \/ maxDumped'.chunk < head'
    BY <1>1, <2>2 DEF HintID
  <2> QED BY <1>1, <2>2, <2>3, <2>4 DEF RipeInv, Ripe
<1>6. CASE OpenDone
  <2>1. proc = "opening" /\ head' = head /\ maxDumped' = maxDumped /\ treeID' \in {treeID, maxDumped}
    BY <1>6 DEF OpenDone, hints
  <2>2. Ripe(id)' /\ Ripe(md)'
    BY <1>3, <2>1
  <2>3. maxDumped' = md /\ (treeID' = id \/ treeID' = md)
    BY <1>1, <2>1
  <2> QED BY <2>2, <2>3 DEF RipeInv, Ripe
\* An open one.
<1>7. ASSUME Running, Running', treeID' \in {treeID, maxDumped}, maxDumped' = maxDumped PROVE RipeInv'
  BY <1>7, RipeStays DEF RipeInv
<1>8. ASSUME \/ \E k \in Keys, live \in BOOLEAN : AppendRecord(k, live)
             \/ SetTree \/ SetHint
             \/ Close \/ RemoveTree \/ DumpTree
             \/ \E g \in Dumpers : DumpFile(g)
      PROVE  RipeInv'
  <2>1. ASSUME NEW g \in Dumpers, DumpFile(g) PROVE Running
    BY <2>1, Dumping, SMTT(40) DEF DumpFile
  <2>2. /\ Running /\ Running' /\ treeID' \in {treeID, maxDumped} /\ maxDumped' = maxDumped
    BY <1>8, <2>1, ZenonT(40) DEF AppendRecord, SetTree, SetHint, Close, RemoveTree, DumpTree, DumpFile, hints, index, Running
  <2> QED BY <1>7, <2>2
<1>9. CASE Stays /\ maxDumped' = maxDumped
  <2>1. CASE Running
    <3>1. Running' /\ treeID' = treeID
      BY <1>9, <2>1 DEF Stays, Running
    <3> QED BY <1>7, <1>9, <2>1, <3>1
  <2>2. CASE proc = "opening"
    <3>1. head' = head /\ treeID' = id /\ maxDumped' = md
      BY <1>1, <1>9 DEF Stays
    <3>2. Ripe(id)' /\ Ripe(md)'
      BY <1>3, <2>2, <3>1
    <3> QED BY <3>1, <3>2 DEF RipeInv, Ripe
  <2>3. CASE proc = "down"
    BY <1>9, <2>3 DEF Stays, RipeInv, Running
  <2> QED BY <1>0, <2>1, <2>2, <2>3 DEF ProcsOK, Procs, Running
<1>10. CASE CheckBehind
  <2>1. Running /\ Running' /\ treeID' = treeID /\ head' = head /\ bg < treeID.chunk
    BY <1>10 DEF CheckBehind, index, Running
  <2>2. Ripe(treeID)' /\ (maxDumped' = maxDumped => Ripe(maxDumped)')
    BY <2>1, RipeStays
  <2>3. maxDumped' # maxDumped => maxDumped'.chunk = bg
    BY <1>10 DEF CheckBehind, Larger, HintID
  <2>4. bg < head
    <3>1. bg \in Nat /\ treeID.chunk \in Nat /\ head \in Nat /\ treeID.chunk <= head
      BY <1>0, <2>1 DEF IndexOK, IDs, IdInv, Running, Core
    <3> QED BY <2>1, <3>1
  <2>5. Ripe(maxDumped)'
    BY <2>1, <2>2, <2>3, <2>4 DEF Ripe
  <2> QED BY <2>2, <2>5 DEF RipeInv
<1>11. ASSUME Stays, NEW g \in Dumpers, DropBuffer(g)
       PROVE  RipeInv'
  <2>1. PICK c \in Chunks : c = frame[g].chunk
    BY <1>0, FrameFields
  <2>2. PICK j \in Nat : j = frame[g].j
    BY <1>0, FrameFields
  <2>3. Running /\ Running' /\ treeID' = treeID /\ head' = head
    BY <1>11, Dumping DEF Stays, DropBuffer, Running
  <2>4. Ripe(treeID)' /\ (maxDumped' = maxDumped => Ripe(maxDumped)')
    BY <2>3, RipeStays
  <2>5. frame[g].at \in {"forget", "failed"} /\ (maxDumped' = maxDumped \/ maxDumped' = HintID(c, j))
    BY <1>11, <2>1, <2>2 DEF DropBuffer, Larger
  <2>6. j \in 1 .. frame[g].l /\ frame[g].l <= Len(splits[c]) /\ j < Len(splits[c]) /\ frame[g].l \in Nat
    BY <1>0, <2>1, <2>2, <2>5, FrameFields DEF FrameInv
  <2>7. Len(splits[c]) \in Nat /\ c \in Nat /\ head \in Nat
    BY <1>0, Numbers DEF HintsOK, IndexOK
  <2>8. c <= head
    <3>1. Len(splits[c]) > 1
      BY <2>6, <2>7
    <3> QED BY <2>3, <3>1, NotBehindHead
  <2>9. Forward(splits[c], splits'[c]) /\ splits'[c][j].buf = None
    BY <1>11, <2>1, <2>2, ForwardDump
  <2>10. Len(splits'[c]) \in Nat /\ j < Len(splits'[c])
    BY <2>6, <2>7, <2>9 DEF Forward
  <2>11. ASSUME NEW i \in 1 .. j PROVE Settled(splits'[c][i])
    <3>1. CASE i = j
      BY <2>9, <3>1 DEF Settled
    <3>2. CASE i # j
      <4>1. i \in 1 .. j - 1 /\ i \in 1 .. Len(splits[c]) - 1
        BY <2>6, <2>7, <3>2
      <4>2. Settled(splits[c][i])
        BY <2>1, <2>2, <2>5, <4>1 DEF DumpInv, Passed
      <4> QED BY <2>9, <4>1, <4>2 DEF Forward
    <3> QED BY <3>1, <3>2
  <2>12. ASSUME maxDumped' = HintID(c, j) PROVE Ripe(maxDumped)'
    <3>1. maxDumped'.chunk = c /\ maxDumped'.split = j
      BY <2>12 DEF HintID
    <3>2. CASE c < head
      BY <2>3, <3>1, <3>2 DEF Ripe
    <3>3. CASE c = head
      BY <2>3, <2>10, <2>11, <3>1, <3>3 DEF Ripe
    <3> QED BY <2>7, <2>8, <3>2, <3>3
  <2> QED BY <2>4, <2>5, <2>12 DEF RipeInv
<1> QED BY <1>2, <1>4, <1>5, <1>6, <1>8, <1>9, <1>10, <1>11, Steps

-----------------------------------------------------------------------------
(* The name of the tree file *)

LEMMA NoTreeName == NoTree.id.chunk = -1
BY DEF NoTree, HintID

\* The hint files of the head chunk become more.
LEMMA HeadFiles ==
    ASSUME Core, Running, NEW c \in Chunks, c = head, NEW s \in Nat, FilesUpTo(c, s),
           (\E g \in Dumpers : DumpFile(g)) \/ CheckBehind \/ hfile' = hfile
    PROVE  FilesUpTo(c, s)'
<1>0. HintsOK /\ IndexOK /\ ProcsOK
  BY DEF Core
<1>1. ASSUME NEW g \in Dumpers, DumpFile(g) PROVE FilesUpTo(c, s)'
  <2>1. PICK x \in Chunks : x = frame[g].chunk
    BY <1>0, FrameFields
  <2>2. PICK j \in Nat : j = frame[g].j
    BY <1>0, FrameFields
  <2>3. PICK h : h = splits[x][j].buf
    BY SMTT(40)
  <2>4. hfile' = [hfile EXCEPT ![x] = [hfile[x] EXCEPT ![j] = h]] /\ h # None
    BY <1>0, <1>1, <2>1, <2>2, <2>3, ZenonT(40) DEF DumpFile, HintsOK
  <2>5. hfile'[c] \in {hfile[c], [hfile[c] EXCEPT ![j] = h]}
    BY <1>0, <2>4 DEF HintsOK
  <2>6. \A i \in SplitIds : hfile'[c][i] # None \/ hfile'[c][i] = hfile[c][i]
    BY <1>0, <2>4, <2>5 DEF HintsOK
  <2> QED BY <2>6 DEF FilesUpTo
<1>2. ASSUME CheckBehind PROVE FilesUpTo(c, s)'
  <2>1. PICK x : x = bg
    OBVIOUS
  <2>2. x \in Nat /\ treeID.chunk \in Nat /\ head \in Nat /\ treeID.chunk <= head /\ x < treeID.chunk
    BY <1>0, <1>2, <2>1 DEF IndexOK, IDs, IdInv, Running, Core, CheckBehind
  <2>3. x # c
    BY <2>2
  <2>4. hfile'[c] = hfile[c]
    BY <1>0, <1>2, <2>1, <2>3 DEF CheckBehind, CheckHint, HintsOK
  <2> QED BY <2>4 DEF FilesUpTo
<1> QED BY <1>1, <1>2 DEF FilesUpTo

\* The splits of the head chunk and their files.
LEMMA HeadSplits ==
    ASSUME Core, Running, NEW c \in Chunks, c = head
    PROVE  /\ Kept(splits[c], data[c], hfile[c], Hinted(c))
           /\ \A j \in 1 .. Len(splits[c]) - 1 : j \in SplitIds /\ hfile[c][j] = splits[c][j].file
<1>1. head \in Nat
  BY DEF Core, IndexOK
<1>2. /\ splits[c] \in Seq(SplitSet) /\ Len(splits[c]) \in Nat \ {0}
      /\ Len(data[c]) \in Nat /\ Len(data[c]) <= DataFileMax
      /\ Hinted(c) \in Nat /\ Hinted(c) <= Len(data[c])
      /\ Kept(splits[c], data[c], hfile[c], Hinted(c))
  BY <1>1, ChunkFacts
<1>3. PICK b : Bounds(splits[c], data[c], b, Hinted(c))
  BY <1>2 DEF Kept
<1>4. \A j \in 0 .. Len(splits[c]) - 1 : j <= Hinted(c)
  BY <1>2, <1>3, BoundsFacts
<1>5. ASSUME NEW j \in 1 .. Len(splits[c]) - 1 PROVE j \in SplitIds /\ hfile[c][j] = splits[c][j].file
  <2>1. j <= Hinted(c) /\ j \in Nat /\ j >= 1 /\ j < Len(splits[c]) /\ DataFileMax \in Nat
    BY <1>2, <1>4, Numbers
  <2>2. j \in 1 .. DataFileMax
    BY <1>2, <2>1
  <2>3. j \in SplitIds
    BY <2>2, SplitNumbers
  <2> QED BY <1>2, <2>1, <2>3 DEF Kept
<1> QED BY <1>2, <1>5

LEMMA NextName ==
    ASSUME Core, Core', NameInv, RipeInv, Next, ~gap'
    PROVE  NameInv'
<1>0. IndexOK /\ HintsOK /\ ProcsOK /\ DataOK /\ IndexOK'
  BY DEF Core
<1>1. CASE Down
  BY <1>1 DEF Down, NameInv, Running
<1>2. CASE OpenTree
  <2>1. head' = MaxData + 1 /\ proc' = "opening"
    BY <1>2 DEF OpenTree
  <2>2. MaxData \in Int /\ MaxData >= -1
    BY <1>0, MaxDataFacts
  <2>3. CASE tfile.id.chunk >= 0 /\ tfile.id.chunk <= MaxData
    <3>1. tfile' = tfile /\ tfile.id.chunk \in Int
      BY <1>0, <1>2, <2>3 DEF OpenTree, IndexOK
    <3>2. tfile'.id.chunk < head'
      BY <2>1, <2>2, <2>3, <3>1
    <3> QED BY <2>1, <3>2 DEF NameInv, Running
  <2>4. CASE ~(tfile.id.chunk >= 0 /\ tfile.id.chunk <= MaxData)
    <3>1. tfile' = NoTree
      BY <1>2, <2>4 DEF OpenTree
    <3> QED BY <3>1, NoTreeName DEF NameInv, HasTree
  <2> QED BY <2>3, <2>4
<1>3. CASE OpenChunk
  BY <1>3 DEF OpenChunk, NameInv, HasTree, Running
<1>4. CASE OpenDone
  <2>1. proc = "opening" /\ proc' = "up" /\ head' = head
    BY <1>4 DEF OpenDone
  <2>2. CASE tfile' = tfile
    BY <2>1, <2>2 DEF NameInv, HasTree
  <2>3. CASE tfile' # tfile
    <3>1. tfile' = [id |-> maxDumped, tree |-> tree]
      BY <1>4, <2>3 DEF OpenDone
    <3>2. Ripe(maxDumped) /\ ~Running
      BY <2>1 DEF RipeInv, Running
    <3>3. tfile'.id = maxDumped
      BY <3>1
    <3>4. tfile'.id.chunk < head \/ (tfile'.id.chunk = head /\ tfile'.id.split = 0)
      BY <3>2, <3>3 DEF Ripe
    <3> QED BY <2>1, <3>4 DEF NameInv
  <2> QED BY <2>2, <2>3
\* The tree file stays, of a bucket that is open.
<1>5. ASSUME Running, tfile' = tfile, proc' # "opening",
             \/ head' = head /\ ((\E g \in Dumpers : DumpFile(g)) \/ CheckBehind \/ hfile' = hfile)
             \/ head' = head + 1
      PROVE  NameInv'
  <2> SUFFICES ASSUME HasTree PROVE
          \/ tfile.id.chunk < head'
          \/ /\ tfile.id.chunk = head'
             /\ tfile.id.split = 0 \/ (head' \in Chunks /\ FilesUpTo(head, tfile.id.split)')
    BY <1>5 DEF NameInv, HasTree
  <2>1. \/ tfile.id.chunk < head
        \/ /\ tfile.id.chunk = head
           /\ tfile.id.split = 0 \/ (head \in Chunks /\ FilesUpTo(head, tfile.id.split))
    BY <1>5 DEF NameInv
  <2>2. head \in Nat /\ tfile.id.chunk \in Int /\ tfile.id.split \in Nat
    BY <1>0 DEF IndexOK
  <2>3. CASE head' = head + 1
    BY <2>1, <2>2, <2>3
  <2>4. CASE tfile.id.chunk < head /\ head' = head
    BY <2>4
  <2>5. CASE ~(tfile.id.chunk < head) /\ tfile.id.split = 0 /\ head' = head
    BY <2>1, <2>5
  <2>6. CASE ~(tfile.id.chunk < head) /\ tfile.id.split # 0 /\ head' = head
    <3>0. head \in Chunks /\ tfile.id.chunk = head /\ FilesUpTo(head, tfile.id.split)
      BY <2>1, <2>6
    <3>1. PICK c \in Chunks : c = head
      BY <3>0
    <3>2. PICK s \in Nat : s = tfile.id.split
      BY <2>2
    <3>3. FilesUpTo(c, s)
      BY <3>0, <3>1, <3>2
    <3>4. (\E g \in Dumpers : DumpFile(g)) \/ CheckBehind \/ hfile' = hfile
      BY <1>5, <2>2, <2>6
    <3>5. FilesUpTo(c, s)'
      BY <1>5, <3>1, <3>3, <3>4, HeadFiles
    <3>6. FilesUpTo(head, tfile.id.split)'
      BY <1>5, <2>6, <3>1, <3>2, <3>5
    <3> QED BY <2>6, <3>0, <3>6
  <2> QED BY <1>5, <2>3, <2>4, <2>5, <2>6
<1>6. ASSUME NEW k \in Keys, NEW live \in BOOLEAN, AppendRecord(k, live) PROVE NameInv'
  <2>1. Running /\ tfile' = tfile /\ proc' # "opening" /\ hfile' = hfile /\ (head' = head \/ head' = head + 1)
    BY <1>6 DEF AppendRecord, Running
  <2> QED BY <1>5, <2>1
<1>7. CASE SetTree \/ SetHint \/ Close
  <2>1. Running /\ tfile' = tfile /\ proc' # "opening" /\ hfile' = hfile /\ head' = head
    BY <1>7 DEF SetTree, SetHint, Close, Running, disk
  <2> QED BY <1>5, <2>1
<1>8. ASSUME NEW g \in Dumpers, DumpFile(g) PROVE NameInv'
  <2>1. Running /\ tfile' = tfile /\ proc' # "opening" /\ head' = head
    BY <1>8, Dumping DEF DumpFile, Running
  <2> QED BY <1>5, <1>8, <2>1
<1>9. CASE CheckBehind
  <2>1. Running /\ tfile' = tfile /\ proc' # "opening" /\ head' = head
    BY <1>9 DEF CheckBehind, Running
  <2> QED BY <1>5, <1>9, <2>1
<1>10. CASE Stays
  <2>1. CASE Running
    <3>1. tfile' = tfile /\ proc' # "opening" /\ hfile' = hfile /\ head' = head
      BY <1>10, <2>1 DEF Stays, Running
    <3> QED BY <1>5, <2>1, <3>1
  <2>2. CASE ~Running
    BY <1>10, <2>2 DEF Stays, NameInv, HasTree, Running
  <2> QED BY <2>1, <2>2
<1>11. CASE RemoveTree
  <2>1. Running /\ proc' # "opening" /\ hfile' = hfile /\ head' = head /\ (tfile' = tfile \/ tfile' = NoTree)
    BY <1>11 DEF RemoveTree, Running
  <2>2. CASE tfile' = tfile
    BY <1>5, <2>1, <2>2
  <2>3. CASE tfile' = NoTree
    BY <2>3, NoTreeName DEF NameInv, HasTree
  <2> QED BY <2>1, <2>2, <2>3
<1>12. CASE DumpTree
  <2>1. Running /\ proc' = "closed" /\ hfile' = hfile /\ head' = head /\ tfile' = [id |-> treeID, tree |-> tree]
    BY <1>12 DEF DumpTree, Running
  <2>2. PICK id \in IDs : id = treeID
    BY <1>0 DEF IndexOK
  <2>3. tfile'.id = id
    BY <2>1, <2>2
  <2>4. Ripe(id)
    BY <2>1, <2>2 DEF RipeInv, Running
  <2>5. CASE id.chunk < head \/ (id.chunk = head /\ id.split = 0)
    BY <2>1, <2>3, <2>5 DEF NameInv
  <2>6. CASE ~(id.chunk < head \/ (id.chunk = head /\ id.split = 0))
    <3>1. /\ id.chunk = head /\ head \in Chunks /\ id.split < Len(splits[head])
          /\ \A j \in 1 .. id.split : Settled(splits[head][j])
      BY <2>4, <2>6 DEF Ripe
    <3>2. PICK c \in Chunks : c = head
      BY <3>1
    <3>3. Len(splits[c]) \in Nat /\ id.split \in Nat /\ DOMAIN splits[c] = 1 .. Len(splits[c])
      BY <1>0, <3>2 DEF HintsOK, IDs
    <3>4. ASSUME NEW j \in 1 .. id.split PROVE j \in SplitIds /\ hfile[c][j] # None
      <4>1. j \in 1 .. Len(splits[c]) - 1 /\ j \in DOMAIN splits[c]
        BY <3>1, <3>2, <3>3
      <4>2. ~Lost(splits[c][j])
        BY <1>12, <2>2, <3>1, <3>2, <4>1 DEF DumpTree
      <4>3. splits[c][j].file # None
        BY <3>1, <3>2, <4>2 DEF Settled, Lost
      <4> QED BY <2>1, <3>2, <4>1, <4>3, HeadSplits
    <3>5. FilesUpTo(head, tfile.id.split)'
      BY <2>1, <2>3, <3>2, <3>4 DEF FilesUpTo
    <3> QED BY <2>1, <2>3, <3>1, <3>5 DEF NameInv
  <2> QED BY <2>5, <2>6
<1> QED BY <1>1, <1>2, <1>3, <1>4, <1>6, <1>7, <1>8, <1>9, <1>10, <1>11, <1>12, Steps

-----------------------------------------------------------------------------
(* The tree of an open bucket *)

LEMMA NextIdle ==
    ASSUME Core, IdleInv, Next
    PROVE  IdleInv'
<1>1. writer \in Writers
  BY DEF Core, ProcsOK
<1>2. ASSUME NEW k \in Keys, NEW live \in BOOLEAN, AppendRecord(k, live) PROVE IdleInv'
  <2>1. writer'.at = "tree"
    BY <1>2 DEF AppendRecord
  <2> QED BY <2>1 DEF IdleInv
<1>3. CASE SetTree
  <2>1. writer'.at = "hint"
    BY <1>1, <1>3 DEF SetTree, Writers
  <2> QED BY <2>1 DEF IdleInv
<1>4. CASE SetHint \/ Down
  BY <1>4 DEF SetHint, Down, IdleInv
<1>5. ASSUME writer' = writer PROVE IdleInv'
  BY <1>5 DEF IdleInv
<1>6. ASSUME NEW g \in Dumpers, DumpFile(g) PROVE IdleInv'
  BY <1>5, <1>6 DEF DumpFile
<1>7. CASE OpenTree \/ OpenChunk \/ OpenDone \/ CheckBehind \/ Close \/ RemoveTree \/ DumpTree \/ Stays
  BY <1>5, <1>7 DEF OpenTree, OpenChunk, OpenDone, CheckBehind, Close, RemoveTree, DumpTree, Stays
<1> QED BY <1>2, <1>3, <1>4, <1>6, <1>7, Steps

LEMMA DataFacts ==
    ASSUME Core, NEW c \in Chunks
    PROVE  /\ c \in Nat /\ data[c] \in Seq(Records) /\ Len(data[c]) \in Nat /\ Len(data[c]) <= DataFileMax
           /\ flushed[c] \in Nat /\ flushed[c] <= Len(data[c])
           /\ \A n \in 1 .. Len(data[c]) : n \in 1 .. DataFileMax /\ n \in Nat /\ data[c][n] \in Records
<1>1. /\ c \in Nat /\ data[c] \in Seq(Records) /\ Len(data[c]) \in Nat /\ Len(data[c]) <= DataFileMax
      /\ flushed[c] \in Nat /\ flushed[c] <= Len(data[c]) /\ DataFileMax \in Nat
  BY Numbers DEF Core, DataOK
<1>2. \A n \in 1 .. Len(data[c]) : n \in 1 .. DataFileMax /\ n \in Nat
  BY <1>1
<1>3. \A n \in 1 .. Len(data[c]) : data[c][n] \in Records
  BY <1>1, ElementOfSeq
<1> QED BY <1>1, <1>2, <1>3

\* What an append does to the data.
LEMMA Appended ==
    ASSUME Core, NEW k \in Keys, NEW live \in BOOLEAN, AppendRecord(k, live)
    PROVE  \E c \in Chunks :
             /\ c = head' /\ Running /\ Running' /\ writer.at = "idle" /\ writer'.at = "tree"
             /\ c = head \/ c = head + 1
             /\ UNCHANGED <<flushed, hfile, tfile, tree, treeID, proc>>
             /\ Len(data'[c]) = Len(data[c]) + 1
             /\ \A n \in 1 .. Len(data[c]) : data'[c][n] = data[c][n]
             /\ \A x \in Chunks : x # c => data'[x] = data[x]
<1>1. PICK c \in Chunks : /\ c = head' /\ (c = head \/ c = head + 1)
                          /\ data' = [data EXCEPT ![c] = Append(data[c], [key |-> k, live |-> live])]
  BY DEF AppendRecord, Core, DataOK
<1>2. /\ Running /\ Running' /\ writer.at = "idle" /\ writer'.at = "tree"
      /\ UNCHANGED <<flushed, hfile, tfile, tree, treeID, proc>>
  BY DEF AppendRecord, Running, index
<1>3. data'[c] = Append(data[c], [key |-> k, live |-> live]) /\ \A x \in Chunks : x # c => data'[x] = data[x]
  BY <1>1 DEF Core, DataOK
<1>4. data[c] \in Seq(Records) /\ [key |-> k, live |-> live] \in Records
  BY DataFacts DEF Records
<1>5. Len(data'[c]) = Len(data[c]) + 1 /\ \A n \in 1 .. Len(data[c]) : data'[c][n] = data[c][n]
  BY <1>3, <1>4, AppendProperties
<1> QED BY <1>1, <1>2, <1>3, <1>5

LEMMA RunAppend ==
    ASSUME Core, RunInv, NEW k \in Keys, NEW live \in BOOLEAN, AppendRecord(k, live)
    PROVE  RunInv'
<1>1. PICK c \in Chunks :
             /\ c = head' /\ Running /\ Running' /\ writer.at = "idle" /\ writer'.at = "tree"
             /\ UNCHANGED <<flushed, tree>>
             /\ Len(data'[c]) = Len(data[c]) + 1
             /\ \A n \in 1 .. Len(data[c]) : data'[c][n] = data[c][n]
             /\ \A x \in Chunks : x # c => data'[x] = data[x]
  BY Appended
<1>2. \A x \in Chunks : Limits[x] = Len(data[x]) /\ Limits'[x] = Len(data[x]) /\ Len(data[x]) \in Nat
  <2> SUFFICES ASSUME NEW x \in Chunks PROVE Limits[x] = Len(data[x]) /\ Limits'[x] = Len(data[x]) /\ Len(data[x]) \in Nat
    OBVIOUS
  <2>1. Limits[x] = Len(data[x]) /\ Len(data[x]) \in Nat
    BY <1>1, DataFacts DEF Limits
  <2>2. Limits'[x] = IF x = c THEN Len(data'[x]) - 1 ELSE Len(data'[x])
    BY <1>1 DEF Limits
  <2> QED BY <1>1, <2>1, <2>2
<1>3. PICK d : d = data
  OBVIOUS
<1>4. PICK e : e = data'
  OBVIOUS
<1>5. PICK l : l = Limits
  OBVIOUS
<1>6. PICK l2 : l2 = Limits'
  OBVIOUS
<1> SUFFICES ASSUME NEW x \in Keys PROVE Covers(x, tree[x], e, flushed, l2)
  BY <1>1, <1>4, <1>6 DEF RunInv
<1>7. Covers(x, tree[x], d, flushed, l)
  BY <1>1, <1>3, <1>5 DEF RunInv
<1>8. ASSUME NEW y \in Chunks, NEW n \in 1 .. Len(e[y]), n <= l2[y]
      PROVE  n \in 1 .. Len(d[y]) /\ n <= l[y] /\ e[y][n] = d[y][n]
  <2>1. l[y] = Len(d[y]) /\ l2[y] = Len(d[y]) /\ Len(d[y]) \in Nat
    BY <1>2, <1>3, <1>5, <1>6
  <2>2. n \in 1 .. Len(d[y]) /\ n <= l[y]
    BY <1>8, <2>1
  <2> QED BY <1>1, <1>3, <1>4, <2>2
<1>9. ASSUME NEW y \in Chunks, NEW n \in 1 .. Len(d[y]) PROVE n \in 1 .. Len(e[y]) /\ e[y][n] = d[y][n]
  <2>1. Len(d[y]) \in Nat /\ (Len(e[y]) = Len(d[y]) \/ Len(e[y]) = Len(d[y]) + 1)
    BY <1>1, <1>2, <1>3, <1>4
  <2> QED BY <1>1, <1>3, <1>4, <2>1
<1> QED BY <1>7, <1>8, <1>9, CoversStep

LEMMA RunSetTree ==
    ASSUME Core, RunInv, SetTree
    PROVE  RunInv'
<1>0. WriterInv /\ HeadInv /\ ProcsOK /\ IndexOK /\ DataOK
  BY DEF Core
<1>1. Running /\ writer.at = "tree" /\ writer'.at = "hint" /\ UNCHANGED <<data, flushed, head>>
  BY <1>0 DEF SetTree, ProcsOK, Writers, disk
<1>2. tree' = [tree EXCEPT ![writer.key] = writer.pos] /\ tree \in [Keys -> Nat]
  BY <1>0 DEF SetTree, IndexOK
<1>3. PICK h \in Chunks : h = head
  BY <1>0, <1>1 DEF WriterInv
<1>4. /\ writer.key \in Keys /\ Len(data[h]) >= 1 /\ writer.pos = Pos(h, Len(data[h]))
      /\ data[h][Len(data[h])].key = writer.key
  BY <1>0, <1>1, <1>3 DEF WriterInv
<1>5. /\ \A c \in Chunks : Limits[c] = IF c = h THEN Len(data[c]) - 1 ELSE Len(data[c])
      /\ \A c \in Chunks : Limits'[c] = Len(data[c])
  BY <1>1, <1>3 DEF Limits
<1>6. PICK l : l = Limits
  OBVIOUS
<1>7. PICK l2 : l2 = Limits'
  OBVIOUS
<1> SUFFICES ASSUME NEW k \in Keys PROVE Covers(k, tree'[k], data, flushed, l2)
  BY <1>1, <1>7 DEF RunInv
<1>8. CASE k = writer.key
  <2> DEFINE m == Len(data[h])
  <2>1. tree'[k] = Pos(h, m)
    BY <1>2, <1>4, <1>8
  <2>2. m \in 1 .. Len(data[h]) /\ m \in 1 .. DataFileMax /\ h \in Nat /\ m \in Nat
    BY <1>4, DataFacts
  <2>3. Pos(h, m) \in Nat
    BY <2>2, Positions
  <2>4. Based(k, tree'[k], Pos(h, m), data, flushed)
    BY <1>4, <1>8, <2>1, <2>2 DEF Based
  <2>5. ASSUME NEW c \in Chunks, NEW n \in 1 .. Len(data[c]) PROVE Pos(c, n) <= Pos(h, m)
    <3>1. c \in Nat /\ n \in 1 .. DataFileMax /\ Pos(c, n) \in Nat /\ Len(data[c]) \in Nat /\ n \in Nat
      BY DataFacts, Positions
    <3>2. CASE c = h
      <4>1. n = m \/ n < m
        BY <2>2, <3>1, <3>2
      <4> QED BY <2>2, <2>3, <3>1, <3>2, <4>1, PositionOrder
    <3>3. CASE c < h
      BY <2>2, <2>3, <3>1, <3>3, PositionOrder
    <3>4. ~(c > h)
      <4> SUFFICES ASSUME c > h PROVE FALSE
        OBVIOUS
      <4>1. data[c] = << >>
        BY <1>0, <1>1, <1>3 DEF HeadInv, Running
      <4> QED BY <4>1
    <3> QED BY <2>2, <3>1, <3>2, <3>3, <3>4
  <2> HIDE DEF m
  <2> QED BY <2>3, <2>4, <2>5 DEF Covers
<1>9. CASE k # writer.key
  <2>1. tree'[k] = tree[k]
    BY <1>2, <1>9
  <2>2. Covers(k, tree[k], data, flushed, l)
    BY <1>1, <1>6 DEF RunInv
  <2>3. ASSUME NEW c \in Chunks, NEW n \in 1 .. Len(data[c]), data[c][n].key = k, n <= l2[c]
        PROVE  n \in 1 .. Len(data[c]) /\ n <= l[c] /\ data[c][n] = data[c][n]
    <3>1. Len(data[c]) \in Nat /\ n \in Nat /\ n <= Len(data[c])
      BY DataFacts
    <3>2. CASE c = h
      <4>1. n # Len(data[c])
        BY <1>4, <1>9, <2>3, <3>2
      <4> QED BY <1>5, <1>6, <3>1, <3>2, <4>1
    <3>3. CASE c # h
      BY <1>5, <1>6, <3>1, <3>3
    <3> QED BY <3>2, <3>3
  <2>4. \A c \in Chunks : \A n \in 1 .. Len(data[c]) : tree[k] = Pos(c, n) \/ n <= flushed[c] =>
           n \in 1 .. Len(data[c]) /\ data[c][n] = data[c][n] /\ (n <= flushed[c] => n <= flushed[c])
    OBVIOUS
  <2>5. Covers(k, tree[k], data, flushed, l2)
    BY <2>2, <2>3, <2>4, CoversStep
  <2> QED BY <2>1, <2>5
<1> QED BY <1>8, <1>9

\* More of the data is known to be in the file; the limits stay.
LEMMA RunSame ==
    ASSUME Core, RunInv, Running, UNCHANGED <<data, tree, head>>, writer'.at = "tree" <=> writer.at = "tree",
           \A c \in Chunks : flushed[c] <= flushed'[c] /\ flushed'[c] \in Nat
    PROVE  RunInv'
<1>1. Limits' = Limits
  BY DEF Limits
<1>2. PICK l : l = Limits
  OBVIOUS
<1>3. PICK fl : fl = flushed'
  OBVIOUS
<1> SUFFICES ASSUME NEW k \in Keys PROVE Covers(k, tree[k], data, fl, l)
  BY <1>1, <1>2, <1>3 DEF RunInv
<1>4. Covers(k, tree[k], data, flushed, l)
  BY <1>2 DEF RunInv
<1>5. ASSUME NEW c \in Chunks, NEW n \in 1 .. Len(data[c]), n <= flushed[c] PROVE n <= fl[c]
  BY <1>3, <1>5, DataFacts
<1>6. \A c \in Chunks : \A n \in 1 .. Len(data[c]) : n <= l[c] => n <= l[c]
  OBVIOUS
<1> QED BY <1>4, <1>5, <1>6, CoversLess

LEMMA RunOpenDone ==
    ASSUME Core, OpenInv, OpenDone
    PROVE  RunInv'
<1>1. proc = "opening" /\ step = NumChunks /\ UNCHANGED <<data, flushed, tree, head, writer>>
  BY DEF OpenDone
<1>2. writer.at = "idle"
  BY <1>1 DEF Core, DownInv
<1>3. \A c \in Chunks : c < NumChunks
  BY Numbers
<1>4. \A c \in Chunks : OpenLimits[c] = Len(data[c])
  BY <1>1, <1>3 DEF OpenLimits
<1>5. \A c \in Chunks : Limits'[c] = Len(data[c])
  BY <1>1, <1>2 DEF Limits
<1>6. OpenLimits = Limits'
  BY <1>4, <1>5 DEF OpenLimits, Limits
<1> QED BY <1>1, <1>6 DEF OpenInv, RunInv

LEMMA NextRun ==
    ASSUME Core, RunInv, OpenInv, Next
    PROVE  RunInv'
<1>0. \A c \in Chunks : flushed[c] <= flushed[c] /\ flushed[c] \in Nat /\ flushed[c] <= Len(data[c]) /\ Len(data[c]) \in Nat
  BY DataFacts
<1>1. CASE Down \/ OpenTree \/ OpenChunk
  BY <1>1 DEF Down, OpenTree, OpenChunk, RunInv, Running
<1>2. CASE OpenDone
  BY <1>2, RunOpenDone
<1>3. CASE \E k \in Keys, live \in BOOLEAN : AppendRecord(k, live)
  BY <1>3, RunAppend
<1>4. CASE SetTree
  BY <1>4, RunSetTree
<1>5. CASE Close
  <2>1. Running /\ UNCHANGED <<data, tree, head, writer>>
    BY <1>5 DEF Close, Running, index
  <2>2. \A c \in Chunks : flushed[c] <= flushed'[c] /\ flushed'[c] \in Nat
    BY <1>0, <1>5 DEF Close, Core, DataOK
  <2> QED BY <2>1, <2>2, RunSame
<1>6. ASSUME NEW g \in Dumpers, DumpFile(g) PROVE RunInv'
  <2>1. Running /\ UNCHANGED <<data, tree, head, writer, flushed>>
    BY <1>6, Dumping DEF DumpFile, index
  <2> QED BY <1>0, <2>1, RunSame
<1>7. CASE SetHint
  <2>1. Running /\ UNCHANGED <<data, tree, head, flushed>> /\ (writer'.at = "tree" <=> writer.at = "tree")
    BY <1>7, IdleWriter DEF SetHint, index, disk
  <2> QED BY <1>0, <2>1, RunSame
<1>8. CASE CheckBehind \/ RemoveTree \/ DumpTree
  <2>1. Running /\ UNCHANGED <<data, tree, head, flushed, writer>>
    BY <1>8 DEF CheckBehind, RemoveTree, DumpTree, index, Running
  <2> QED BY <1>0, <2>1, RunSame
<1>9. CASE Stays
  <2>1. UNCHANGED <<data, tree, head, flushed, writer>>
    BY <1>9 DEF Stays
  <2>2. CASE Running
    BY <1>0, <2>1, <2>2, RunSame
  <2>3. CASE ~Running
    BY <1>9, <2>3 DEF Stays, RunInv, Running
  <2> QED BY <2>2, <2>3
<1> QED BY <1>1, <1>2, <1>3, <1>4, <1>5, <1>6, <1>7, <1>8, <1>9, Steps

-----------------------------------------------------------------------------
(* What the tree file covers *)

\* Hint files that are there stay, of the chunk the tree file is named after.
LEMMA TreeFiles ==
    ASSUME Core, IndexOK', TreeInv, tfile' = tfile, data' = data,
           \A c \in Chunks : flushed[c] <= flushed'[c] /\ flushed'[c] \in Nat,
           \A c \in Chunks : data[c] # << >> => \A s \in Nat : FilesUpTo(c, s) =>
              \A i \in 1 .. s : hfile'[c][i] = hfile[c][i]
    PROVE  TreeInv'
<1>1. PICK l : l = IdLimits(tfile.id)
  OBVIOUS
<1>2. PICK l2 : l2 = IdLimits(tfile.id)'
  OBVIOUS
<1>3. PICK fl : fl = flushed'
  OBVIOUS
<1> SUFFICES ASSUME HasTree, NEW k \in Keys PROVE Covers(k, tfile.tree[k], data, fl, l2)
  BY <1>2, <1>3 DEF TreeInv, HasTree
<1>4. Covers(k, tfile.tree[k], data, flushed, l)
  BY <1>1 DEF TreeInv
<1>5. ASSUME NEW c \in Chunks, NEW n \in 1 .. Len(data[c]), n <= l2[c] PROVE n <= l[c]
  <2>1. Len(data[c]) \in Nat /\ n \in Nat /\ n <= Len(data[c]) /\ data[c] # << >>
    BY DataFacts
  <2>2. PICK s \in Nat : s = tfile.id.split
    BY DEF Core, IndexOK
  <2>3. /\ l[c] = IdLimit(tfile.id, c) /\ l2[c] = IdLimit(tfile.id, c)'
    BY <1>1, <1>2 DEF IdLimits
  <2>4. CASE c < tfile.id.chunk \/ c > tfile.id.chunk \/ s = 0
    BY <1>5, <2>1, <2>2, <2>3, <2>4 DEF IdLimit
  <2>5. CASE ~(c < tfile.id.chunk \/ c > tfile.id.chunk \/ s = 0)
    <3>1. CASE FilesUpTo(c, s)
      <4>1. \A i \in 1 .. s : hfile'[c][i] = hfile[c][i]
        BY <2>1, <3>1
      <4>2. FilesUpTo(c, s)'
        BY <3>1, <4>1 DEF FilesUpTo
      <4>3. s \in 1 .. s
        BY <2>5
      <4>4. l[c] = hfile[c][s].end /\ l2[c] = hfile'[c][s].end
        BY <2>2, <2>3, <2>5, <3>1, <4>2 DEF IdLimit
      <4> QED BY <1>5, <4>1, <4>3, <4>4
    <3>2. CASE ~FilesUpTo(c, s)
      BY <2>1, <2>2, <2>3, <2>5, <3>2 DEF IdLimit
    <3> QED BY <3>1, <3>2
  <2> QED BY <2>4, <2>5
<1>6. ASSUME NEW c \in Chunks, NEW n \in 1 .. Len(data[c]), n <= flushed[c] PROVE n <= fl[c]
  BY <1>3, <1>6, DataFacts
<1> QED BY <1>4, <1>5, <1>6, CoversLess

LEMMA DumpedFiles ==
    ASSUME Core, NEW g \in Dumpers, DumpFile(g), NEW c \in Chunks, NEW i \in SplitIds, hfile[c][i] # None
    PROVE  hfile'[c][i] = hfile[c][i]
<1>0. HintsOK /\ ProcsOK /\ FrameInv
  BY DEF Core
<1>1. PICK x \in Chunks : x = frame[g].chunk
  BY <1>0, FrameFields
<1>2. PICK j \in Nat : j = frame[g].j
  BY <1>0, FrameFields
<1>3. frame[g].at = "write" /\ splits[x][j].buf # None /\ Running
  BY <1>1, <1>2, Dumping, SMTT(40) DEF DumpFile
<1>4. hfile'[c] = IF c = x THEN [hfile[c] EXCEPT ![j] = splits[x][j].buf] ELSE hfile[c]
  BY <1>0, <1>1, <1>2 DEF DumpFile, HintsOK
<1>5. hfile[c] \in [SplitIds -> HintSet]
  BY <1>0 DEF HintsOK
<1>6. CASE c # x \/ i # j
  BY <1>4, <1>5, <1>6
<1>7. CASE c = x /\ i = j
  <2>1. hfile'[c][i] = splits[c][i].buf
    BY <1>4, <1>5, <1>7
  <2>2. i \in 1 .. Len(splits[c]) - 1 /\ i \in 1 .. Len(splits[c]) /\ i < Len(splits[c])
    <3>1. j \in 1 .. frame[g].l /\ j < Len(splits[x]) /\ frame[g].l \in Nat /\ Len(splits[x]) \in Nat
      BY <1>0, <1>1, <1>2, <1>3, FrameFields DEF FrameInv, HintsOK
    <3> QED BY <1>7, <3>1
  <2>3. \/ Kept(splits[c], data[c], hfile[c], Hinted(c))
        \/ Quiet(splits[c], data[c], hfile[c])
    BY <1>3, ChunkFacts
  <2>4. CASE Quiet(splits[c], data[c], hfile[c])
    BY <1>3, <1>7, <2>1, <2>2, <2>4 DEF Quiet
  <2>5. CASE Kept(splits[c], data[c], hfile[c], Hinted(c))
    <3>1. hfile[c][i] = splits[c][i].file
      BY <2>2, <2>5 DEF Kept
    <3>2. splits[c][i].buf = splits[c][i].file
      BY <1>3, <1>7, <2>2, <2>5, <3>1 DEF Kept, Bounds
    <3> QED BY <2>1, <3>1, <3>2
  <2> QED BY <2>3, <2>4, <2>5
<1> QED BY <1>6, <1>7

LEMMA CheckedFiles ==
    ASSUME Core, NEW x \in Chunks, CheckHint(x), NEW c \in Chunks, data[c] # << >>,
           NEW s \in Nat, FilesUpTo(c, s)
    PROVE  \A i \in 1 .. s : hfile'[c][i] = hfile[c][i]
<1> SUFFICES ASSUME NEW i \in 1 .. s PROVE hfile'[c][i] = hfile[c][i]
  OBVIOUS
<1>0. HintsOK
  BY DEF Core
<1>1. hfile' = [hfile EXCEPT ![x] = FilesAfter(splits[x], hfile[x], data[x])]
  BY CheckedChunk
<1>2. CASE c # x
  BY <1>0, <1>1, <1>2 DEF HintsOK
<1>3. CASE c = x
  <2>1. hfile'[c] = FilesAfter(splits[c], hfile[c], data[c])
    BY <1>0, <1>1, <1>3 DEF HintsOK
  <2>2. s \in SplitIds /\ \A y \in 1 .. s : hfile[c][y] # None
    <3>1. s \in 1 .. s
      OBVIOUS
    <3> QED BY <3>1 DEF FilesUpTo
  <2>3. s <= Valid(hfile[c], data[c]) /\ Valid(hfile[c], data[c]) \in Nat
    BY <2>2, ValidFacts
  <2>4. i <= Valid(hfile[c], data[c]) /\ i \in SplitIds
    BY <2>2, <2>3, SplitNumbers
  <2> QED BY <2>1, <2>4 DEF FilesAfter
<1> QED BY <1>2, <1>3

LEMMA DiedFiles ==
    ASSUME Core, NEW x \in Chunks, BuildDies(x), NEW c \in Chunks, data[c] # << >>,
           NEW s \in Nat, FilesUpTo(c, s)
    PROVE  \A i \in 1 .. s : hfile'[c][i] = hfile[c][i]
<1> SUFFICES ASSUME NEW i \in 1 .. s PROVE hfile'[c][i] = hfile[c][i]
  OBVIOUS
<1>1. CASE c # x
  BY <1>1, BuildDiesFiles
<1>2. CASE c = x
  <2>1. s \in SplitIds /\ \A y \in 1 .. s : hfile[c][y] # None
    <3>1. s \in 1 .. s
      OBVIOUS
    <3> QED BY <3>1 DEF FilesUpTo
  <2>2. s <= Valid(hfile[c], data[c]) /\ Valid(hfile[c], data[c]) \in Nat
    BY <2>1, ValidFacts
  <2>3. i \in 1 .. Valid(hfile[c], data[c])
    BY <2>2
  <2> QED BY <1>2, <2>3, BuildDiesFiles
<1> QED BY <1>1, <1>2

\* The hint files of the head chunk do not go beyond the records hinted.
LEMMA HeadEnd ==
    ASSUME Core, Running, NEW c \in Chunks, c = head, NEW s \in SplitIds, hfile[c][s] # None
    PROVE  hfile[c][s].end \in Nat /\ hfile[c][s].end <= Hinted(c)
<1>1. /\ splits[c] \in Seq(SplitSet) /\ Len(splits[c]) \in Nat \ {0} /\ Len(splits[c]) >= 1
      /\ Hinted(c) \in Nat /\ Kept(splits[c], data[c], hfile[c], Hinted(c))
  BY ChunkFacts, HeadSplits
<1>2. PICK b : Bounds(splits[c], data[c], b, Hinted(c))
  BY <1>1 DEF Kept
<1>3. s < Len(splits[c]) /\ hfile[c][s] = splits[c][s].file /\ s \in Nat \ {0}
  BY <1>1, SplitNumbers DEF Kept
<1>4. s \in 1 .. Len(splits[c]) /\ s \in 0 .. Len(splits[c])
  BY <1>1, <1>3
<1>5. b[s] \in Nat /\ b[s] <= Hinted(c)
  BY <1>1, <1>2, <1>4, BoundsFacts
<1>6. Exact(hfile[c][s], data[c], b[s - 1], b[s])
  BY <1>2, <1>3, <1>4 DEF Bounds
<1>7. hfile[c][s].end \in {b[s], 0}
  BY <1>6 DEF Exact
<1> QED BY <1>1, <1>5, <1>7

LEMMA TreeAppend ==
    ASSUME Core, TreeInv, NameInv, NEW k \in Keys, NEW live \in BOOLEAN, AppendRecord(k, live)
    PROVE  TreeInv'
<1>1. PICK c \in Chunks :
             /\ c = head \/ c = head + 1
             /\ Running /\ Running' /\ writer.at = "idle"
             /\ UNCHANGED <<flushed, hfile, tfile>>
             /\ Len(data'[c]) = Len(data[c]) + 1
             /\ \A n \in 1 .. Len(data[c]) : data'[c][n] = data[c][n]
             /\ \A x \in Chunks : x # c => data'[x] = data[x]
  BY Appended
<1>2. PICK id : id = tfile.id
  OBVIOUS
<1>3. PICK s \in Nat : s = id.split
  BY <1>2 DEF Core, IndexOK
<1>4. PICK d : d = data
  OBVIOUS
<1>5. PICK e : e = data'
  OBVIOUS
<1>6. PICK l : l = IdLimits(id)
  OBVIOUS
<1>7. PICK l2 : l2 = IdLimits(tfile.id)'
  OBVIOUS
<1> SUFFICES ASSUME HasTree, NEW x \in Keys PROVE Covers(x, tfile.tree[x], e, flushed, l2)
  BY <1>1, <1>5, <1>7 DEF TreeInv, HasTree
<1>8. Covers(x, tfile.tree[x], d, flushed, l)
  BY <1>2, <1>4, <1>6 DEF TreeInv
<1>9. /\ id.chunk \in Int /\ head \in Nat /\ c \in Nat
      /\ \/ id.chunk < head
         \/ id.chunk = head /\ (s = 0 \/ FilesUpTo(head, s))
  BY <1>1, <1>2, <1>3, Numbers DEF NameInv, Core, IndexOK
<1>10. ASSUME NEW y \in Chunks
       PROVE  /\ l2[y] = IF y < id.chunk THEN Len(e[y])
                         ELSE IF y > id.chunk \/ s = 0 THEN 0
                         ELSE IF FilesUpTo(y, s) THEN hfile[y][s].end ELSE Len(e[y])
              /\ l[y] = IF y < id.chunk THEN Len(d[y])
                         ELSE IF y > id.chunk \/ s = 0 THEN 0
                         ELSE IF FilesUpTo(y, s) THEN hfile[y][s].end ELSE Len(d[y])
  BY <1>1, <1>2, <1>3, <1>4, <1>5, <1>6, <1>7 DEF IdLimits, IdLimit, FilesUpTo
<1>11. ASSUME NEW y \in Chunks, NEW n \in 1 .. Len(e[y]), n <= l2[y]
       PROVE  n \in 1 .. Len(d[y]) /\ n <= l[y] /\ e[y][n] = d[y][n]
  <2>1. Len(d[y]) \in Nat /\ y \in Nat
    BY <1>4, DataFacts
  <2>2. CASE y # c
    BY <1>1, <1>4, <1>5, <1>10, <1>11, <2>2
  <2>3. CASE y = c
    <3>1. ~(y < id.chunk)
      BY <1>1, <1>9, <2>3
    <3>2. Len(e[y]) \in Nat /\ n \in Nat /\ n >= 1
      BY <1>1, <1>4, <1>5, <2>1, <2>3
    <3>3. ~(y > id.chunk \/ s = 0)
      BY <1>10, <1>11, <3>1, <3>2
    <3>4. y = head /\ FilesUpTo(y, s)
      BY <1>1, <1>9, <2>1, <2>3, <3>1, <3>3
    <3>5. s \in SplitIds /\ hfile[y][s] # None
      <4>1. s \in 1 .. s
        BY <3>3
      <4> QED BY <3>4, <4>1 DEF FilesUpTo
    <3>6. hfile[y][s].end \in Nat /\ hfile[y][s].end <= Hinted(y) /\ Hinted(y) = Len(d[y])
      BY <1>1, <1>4, <3>4, <3>5, HeadEnd DEF Hinted
    <3>7. l2[y] = hfile[y][s].end /\ l[y] = hfile[y][s].end
      BY <1>10, <3>1, <3>3, <3>4
    <3>8. n \in 1 .. Len(d[y]) /\ n <= l[y]
      BY <1>11, <2>1, <3>2, <3>6, <3>7
    <3> QED BY <1>1, <1>4, <1>5, <2>3, <3>8
  <2> QED BY <2>2, <2>3
<1>12. ASSUME NEW y \in Chunks, NEW n \in 1 .. Len(d[y]) PROVE n \in 1 .. Len(e[y]) /\ e[y][n] = d[y][n]
  <2>1. Len(d[y]) \in Nat /\ (Len(e[y]) = Len(d[y]) \/ Len(e[y]) = Len(d[y]) + 1)
    BY <1>1, <1>4, <1>5, DataFacts
  <2> QED BY <1>1, <1>4, <1>5, <2>1
<1> QED BY <1>8, <1>11, <1>12, CoversStep

\* A process ends: the tree file leads to records that are left, and the hint
\* files that were there are there.
LEMMA TreeDown ==
    ASSUME Core, TreeInv, Down, ~ahead',
           \A c \in Chunks : data[c] # << >> => \A s \in Nat : FilesUpTo(c, s) =>
              \A i \in 1 .. s : hfile'[c][i] = hfile[c][i]
    PROVE  TreeInv'
<1>1. PICK f \in Survives :
        /\ flushed' = f /\ data' = [c \in Chunks |-> SubSeq(data[c], 1, f[c])]
        /\ ahead' = \/ ahead
                    \/ \E c \in Chunks : f[c] > 0 /\ \E s \in SplitIds : hfile'[c][s].end > f[c]
                    \/ \E k \in Keys : LET p == tfile.tree[k]
                                       IN  p # NoPos /\ NumberOf(p) > f[ChunkOf(p)]
        /\ tfile' = tfile
  BY DEF Down
<1>2. \A c \in Chunks : f[c] \in Nat /\ flushed[c] <= f[c] /\ f[c] <= Len(data[c])
  <2>1. f \in [Chunks -> 0 .. DataFileMax] /\ \A c \in Chunks : flushed[c] <= f[c] /\ f[c] <= Len(data[c])
    BY DEF Survives
  <2>2. 0 .. DataFileMax \subseteq Nat
    OBVIOUS
  <2> QED BY <2>1, <2>2
<1>3. PICK d : d = data
  OBVIOUS
<1>4. PICK e : e = data'
  OBVIOUS
<1>5. ASSUME NEW c \in Chunks
      PROVE  /\ Len(e[c]) = f[c] /\ \A n \in 1 .. f[c] : e[c][n] = d[c][n]
             /\ Len(d[c]) \in Nat /\ f[c] \in Nat /\ f[c] <= Len(d[c]) /\ flushed[c] <= f[c] /\ flushed[c] \in Nat
  <2>1. data[c] \in Seq(Records) /\ Len(data[c]) \in Nat /\ flushed[c] \in Nat
    BY DataFacts
  <2>2. e[c] = SubSeq(d[c], 1, f[c])
    BY <1>1, <1>3, <1>4
  <2> QED BY <1>2, <1>3, <2>1, <2>2, SubSeqProperties
<1>6. PICK l : l = IdLimits(tfile.id)
  OBVIOUS
<1>7. PICK l2 : l2 = IdLimits(tfile.id)'
  OBVIOUS
<1> SUFFICES ASSUME HasTree, NEW k \in Keys PROVE Covers(k, tfile.tree[k], e, f, l2)
  BY <1>1, <1>4, <1>7 DEF TreeInv, HasTree
<1>8. Covers(k, tfile.tree[k], d, flushed, l)
  BY <1>3, <1>6 DEF TreeInv
<1>9. ASSUME NEW c \in Chunks, NEW n \in 1 .. Len(e[c]), n <= l2[c]
      PROVE  n \in 1 .. Len(d[c]) /\ n <= l[c] /\ e[c][n] = d[c][n]
  <2>1. n \in 1 .. Len(d[c]) /\ e[c][n] = d[c][n] /\ n <= Len(d[c])
    BY <1>5
  <2>2. l[c] = l2[c] \/ l[c] = Len(d[c])
    <3>1. PICK s \in Nat : s = tfile.id.split
      BY DEF Core, IndexOK
    <3>2. l[c] = IdLimit(tfile.id, c) /\ l2[c] = IdLimit(tfile.id, c)' /\ tfile' = tfile
      BY <1>1, <1>6, <1>7 DEF IdLimits
    <3>3. CASE c < tfile.id.chunk \/ c > tfile.id.chunk \/ s = 0
      BY <1>3, <3>1, <3>2, <3>3 DEF IdLimit
    <3>4. CASE ~(c < tfile.id.chunk \/ c > tfile.id.chunk \/ s = 0) /\ ~FilesUpTo(c, s)
      BY <1>3, <3>1, <3>2, <3>4 DEF IdLimit
    <3>5. CASE ~(c < tfile.id.chunk \/ c > tfile.id.chunk \/ s = 0) /\ FilesUpTo(c, s)
      <4>1. data[c] # << >>
        <5>1. Len(data[c]) # 0
          BY <1>3, <1>5, <2>1
        <5> QED BY <5>1
      <4>2. \A i \in 1 .. s : hfile'[c][i] = hfile[c][i]
        BY <3>5, <4>1
      <4>3. FilesUpTo(c, s)'
        BY <3>5, <4>2 DEF FilesUpTo
      <4>4. s \in 1 .. s
        BY <3>5
      <4>5. l[c] = hfile[c][s].end /\ l2[c] = hfile'[c][s].end
        BY <3>1, <3>2, <3>5, <4>3 DEF IdLimit
      <4> QED BY <4>2, <4>4, <4>5
    <3> QED BY <3>3, <3>4, <3>5
  <2> QED BY <1>9, <2>1, <2>2
<1>10. ASSUME NEW c \in Chunks, NEW n \in 1 .. Len(d[c]), tfile.tree[k] = Pos(c, n) \/ n <= flushed[c]
       PROVE  n \in 1 .. Len(e[c]) /\ e[c][n] = d[c][n] /\ (n <= flushed[c] => n <= f[c])
  <2>1. n <= f[c]
    <3>1. CASE n <= flushed[c]
      BY <1>5, <3>1
    <3>2. CASE tfile.tree[k] = Pos(c, n)
      <4>1. c \in Nat /\ n \in 1 .. DataFileMax /\ n \in Nat
        BY <1>3, DataFacts
      <4>2. Pos(c, n) # NoPos /\ ChunkOf(Pos(c, n)) = c /\ NumberOf(Pos(c, n)) = n
        BY <4>1, Positions DEF NoPos
      <4>3. ~(n > f[c])
        BY <1>1, <3>2, <4>2
      <4> QED BY <1>5, <4>1, <4>3
    <3> QED BY <1>10, <3>1, <3>2
  <2> QED BY <1>5, <2>1
<1> QED BY <1>8, <1>9, <1>10, CoversStep

\* The tree is dumped, by close, ...
LEMMA TreeDumped ==
    ASSUME Core, RunInv, NameInv', DumpTree
    PROVE  TreeInv'
<1>1. /\ Running /\ Running' /\ tfile' = [id |-> treeID, tree |-> tree]
      /\ UNCHANGED <<data, flushed, hfile, head, tree>>
  BY DEF DumpTree, Running, index
<1>2. PICK id \in IDs : id = treeID
  BY DEF Core, IndexOK
<1>3. id.chunk \in Nat /\ id.split \in Nat /\ id.chunk <= head /\ head \in Nat
  BY <1>1, <1>2 DEF Core, IdInv, IndexOK, IDs, Running
<1>4. tfile'.id = id /\ tfile'.tree = tree /\ HasTree'
  BY <1>1, <1>2, <1>3 DEF HasTree
<1>5. PICK s \in Nat : s = id.split
  BY <1>3
<1>6. id.chunk = head => s = 0 \/ FilesUpTo(head, s)
  <2> SUFFICES ASSUME id.chunk = head, s # 0 PROVE FilesUpTo(head, s)
    OBVIOUS
  <2>1. FilesUpTo(head, tfile.id.split)'
    BY <1>1, <1>3, <1>4, <1>5 DEF NameInv
  <2> QED BY <1>1, <1>4, <1>5, <2>1 DEF FilesUpTo
<1>7. PICK l : l = Limits
  OBVIOUS
<1>8. PICK l2 : l2 = IdLimits(tfile.id)'
  OBVIOUS
<1> SUFFICES ASSUME NEW k \in Keys PROVE Covers(k, tree[k], data, flushed, l2)
  BY <1>1, <1>4, <1>8 DEF TreeInv
<1>9. Covers(k, tree[k], data, flushed, l)
  BY <1>1, <1>7 DEF RunInv
<1>10. ASSUME NEW c \in Chunks, NEW n \in 1 .. Len(data[c]), n <= l2[c] PROVE n <= l[c]
  <2>1. Len(data[c]) \in Nat /\ n \in Nat /\ n >= 1 /\ n <= Len(data[c]) /\ c \in Nat
    BY DataFacts
  <2>2. l[c] = IF writer.at = "tree" /\ c = head THEN Len(data[c]) - 1 ELSE Len(data[c])
    BY <1>7 DEF Limits
  <2>3. CASE ~(writer.at = "tree" /\ c = head)
    BY <2>1, <2>2, <2>3
  <2>4. CASE writer.at = "tree" /\ c = head
    <3>1. l2[c] = IF c < id.chunk THEN Len(data[c])
                  ELSE IF c > id.chunk \/ s = 0 THEN 0
                  ELSE IF FilesUpTo(c, s) THEN hfile[c][s].end ELSE Len(data[c])
      BY <1>1, <1>4, <1>5, <1>8 DEF IdLimits, IdLimit, FilesUpTo
    <3>2. ~(c < id.chunk)
      BY <1>3, <2>1, <2>4
    <3>3. c = id.chunk /\ s # 0
      BY <1>3, <1>10, <2>1, <3>1, <3>2
    <3>4. FilesUpTo(c, s) /\ s \in 1 .. s
      BY <1>6, <2>4, <3>3
    <3>5. s \in SplitIds /\ hfile[c][s] # None
      BY <3>4 DEF FilesUpTo
    <3>6. hfile[c][s].end \in Nat /\ hfile[c][s].end <= Hinted(c) /\ Hinted(c) = Len(data[c]) - 1
      BY <1>1, <2>4, <3>5, HeadEnd DEF Hinted
    <3> QED BY <1>10, <2>1, <2>2, <2>4, <3>1, <3>2, <3>3, <3>4, <3>6
  <2> QED BY <2>3, <2>4
<1>11. \A c \in Chunks : \A n \in 1 .. Len(data[c]) : n <= flushed[c] => n <= flushed[c]
  OBVIOUS
<1> QED BY <1>9, <1>10, <1>11, CoversLess

\* ... or by open.
LEMMA TreeOpenDone ==
    ASSUME Core, TreeInv, OpenInv, OpenDone
    PROVE  TreeInv'
<1>1. proc = "opening" /\ step = NumChunks /\ UNCHANGED <<data, flushed, tree, hfile>>
  BY DEF OpenDone
<1>2. CASE tfile' = tfile
  BY <1>1, <1>2 DEF TreeInv, HasTree, IdLimits, IdLimit, FilesUpTo
<1>3. CASE tfile' # tfile
  <2>1. tfile'.tree = tree
    BY <1>3 DEF OpenDone
  <2>2. PICK l : l = OpenLimits
    OBVIOUS
  <2>3. PICK l2 : l2 = IdLimits(tfile.id)'
    OBVIOUS
  <2> SUFFICES ASSUME NEW k \in Keys PROVE Covers(k, tree[k], data, flushed, l2)
    BY <1>1, <2>1, <2>3 DEF TreeInv
  <2>4. Covers(k, tree[k], data, flushed, l)
    BY <1>1, <2>2 DEF OpenInv
  <2>5. ASSUME NEW c \in Chunks, NEW n \in 1 .. Len(data[c]) PROVE n <= l[c]
    <3>1. l[c] = Len(data[c])
      BY <1>1, <2>2, Numbers DEF OpenLimits
    <3> QED BY <3>1, DataFacts
  <2>6. \A c \in Chunks : \A n \in 1 .. Len(data[c]) : n <= l2[c] => n <= l[c]
    BY <2>5
  <2>7. \A c \in Chunks : \A n \in 1 .. Len(data[c]) : n <= flushed[c] => n <= flushed[c]
    OBVIOUS
  <2> QED BY <2>4, <2>6, <2>7, CoversLess
<1> QED BY <1>2, <1>3

LEMMA NextTree ==
    ASSUME Core, Core', TreeInv, NameInv, NameInv', RunInv, OpenInv, Next, ~ahead'
    PROVE  TreeInv'
<1>0. /\ \A c \in Chunks : flushed[c] <= flushed[c] /\ flushed[c] \in Nat /\ flushed[c] <= Len(data[c])
      /\ \A c \in Chunks : Len(data[c]) \in Nat
      /\ IndexOK' /\ IndexOK /\ DataOK
  BY DataFacts DEF Core
<1>1. CASE Down /\ (hfile' = hfile \/ \E c \in Chunks : BuildDies(c))
  <2>1. CASE hfile' = hfile
    BY <1>1, <2>1, TreeDown
  <2>2. ASSUME NEW x \in Chunks, BuildDies(x) PROVE TreeInv'
    <3>1. \A c \in Chunks : data[c] # << >> => \A s \in Nat : FilesUpTo(c, s) =>
             \A i \in 1 .. s : hfile'[c][i] = hfile[c][i]
      BY <2>2, DiedFiles
    <3> QED BY <1>1, <3>1, TreeDown
  <2> QED BY <1>1, <2>1, <2>2
<1>2. CASE \E k \in Keys, live \in BOOLEAN : AppendRecord(k, live)
  BY <1>2, TreeAppend
<1>3. CASE DumpTree
  BY <1>3, TreeDumped
<1>4. CASE OpenDone
  BY <1>4, TreeOpenDone
<1>5. ASSUME tfile' = tfile, data' = data, hfile' = hfile,
             \A c \in Chunks : flushed[c] <= flushed'[c] /\ flushed'[c] \in Nat
      PROVE  TreeInv'
  <2>1. \A c \in Chunks : data[c] # << >> => \A s \in Nat : FilesUpTo(c, s) =>
           \A i \in 1 .. s : hfile'[c][i] = hfile[c][i]
    BY <1>5
  <2> QED BY <1>0, <1>5, <2>1, TreeFiles
<1>6. ASSUME tfile' = NoTree PROVE TreeInv'
  BY <1>6, NoTreeName DEF TreeInv, HasTree
<1>7. CASE OpenTree
  <2>1. data' = data /\ hfile' = hfile /\ flushed' = flushed /\ (tfile' = tfile \/ tfile' = NoTree)
    BY <1>7 DEF OpenTree
  <2> QED BY <1>0, <1>5, <1>6, <2>1
<1>8. CASE RemoveTree
  <2>1. data' = data /\ hfile' = hfile /\ flushed' = flushed /\ (tfile' = tfile \/ tfile' = NoTree)
    BY <1>8 DEF RemoveTree
  <2> QED BY <1>0, <1>5, <1>6, <2>1
<1>9. CASE SetTree \/ SetHint \/ Stays
  <2>1. data' = data /\ hfile' = hfile /\ flushed' = flushed /\ tfile' = tfile
    BY <1>9 DEF SetTree, SetHint, Stays, disk
  <2> QED BY <1>0, <1>5, <2>1
<1>10. CASE Close
  <2>1. data' = data /\ hfile' = hfile /\ tfile' = tfile
    BY <1>10 DEF Close
  <2>2. \A c \in Chunks : flushed[c] <= flushed'[c] /\ flushed'[c] \in Nat
    BY <1>0, <1>10 DEF Close, DataOK
  <2> QED BY <1>5, <2>1, <2>2
<1>11. ASSUME NEW g \in Dumpers, DumpFile(g) PROVE TreeInv'
  <2>1. data' = data /\ flushed' = flushed /\ tfile' = tfile
    BY <1>11 DEF DumpFile
  <2>2. \A c \in Chunks : data[c] # << >> => \A s \in Nat : FilesUpTo(c, s) =>
           \A i \in 1 .. s : hfile'[c][i] = hfile[c][i]
    BY <1>11, DumpedFiles DEF FilesUpTo
  <2> QED BY <1>0, <2>1, <2>2, TreeFiles
<1>12. ASSUME NEW x \in Chunks, CheckHint(x), data' = data, flushed' = flushed, tfile' = tfile PROVE TreeInv'
  <2>1. \A c \in Chunks : data[c] # << >> => \A s \in Nat : FilesUpTo(c, s) =>
           \A i \in 1 .. s : hfile'[c][i] = hfile[c][i]
    BY <1>12, CheckedFiles
  <2> QED BY <1>0, <1>12, <2>1, TreeFiles
<1>13. CASE OpenChunk
  BY <1>12, <1>13 DEF OpenChunk
<1>14. CASE CheckBehind
  <2>1. CheckHint(bg) /\ data' = data /\ flushed' = flushed /\ tfile' = tfile
    BY <1>14 DEF CheckBehind
  <2>2. /\ bg \in Nat /\ treeID.chunk \in Nat /\ head \in Nat /\ head <= NumChunks /\ treeID.chunk <= head
        /\ NumChunks \in Nat /\ bg < treeID.chunk
    BY <1>14, Numbers DEF Core, IndexOK, IDs, IdInv, Running, CheckBehind
  <2>3. bg < NumChunks
    BY <2>2
  <2>4. bg \in Chunks
    BY <2>2, <2>3, Numbers
  <2> QED BY <1>12, <2>1, <2>4
<1> QED BY <1>1, <1>2, <1>3, <1>4, <1>7, <1>8, <1>9, <1>10, <1>11, <1>13, <1>14, Steps

-----------------------------------------------------------------------------
(* What open makes of a chunk *)

\* buildHintFromData drops no buffer.
LEMMA RecordsBufs ==
    ASSUME NEW d \in Seq(Records), NEW start \in 0 .. Len(d),
           NEW ss \in Seq(SplitSet), Len(ss) >= 1, ss[Len(ss)].buf # None
    PROVE  LET r == SetRecords(ss, d, start)
           IN  \A j \in Len(ss) .. Len(r) : r[j].buf # None
<1>0. PICK f : Reads(f, ss, d, start) /\ SetRecords(ss, d, start) = f[Len(d)]
  BY RecordsSet
<1>1. /\ f[start] = ss
      /\ \A n \in start .. Len(d) : n # start =>
            f[n] = SetItem(f[n - 1], d[n].key, [n |-> n, live |-> d[n].live])
      /\ SetRecords(ss, d, start) = f[Len(d)]
  BY <1>0 DEF Reads
<1> DEFINE P(x) == x \in Seq(SplitSet) /\ Len(x) >= Len(ss) /\ \A j \in Len(ss) .. Len(x) : x[j].buf # None
           S == {n \in start .. Len(d) : P(f[n])}
<1>2. start \in S
  <2>1. P(ss)
    BY Empty
  <2> QED BY <1>1, <2>1
<1>3. ASSUME NEW n \in start .. Len(d), n < Len(d), n \in S PROVE n + 1 \in S
  <2> DEFINE k == d[n + 1].key
             item == [n |-> n + 1, live |-> d[n + 1].live]
  <2>1. d[n + 1] \in Records
    BY <1>3, RecordAt
  <2>2. k \in Keys /\ item \in HintItems /\ item.n = n + 1 /\ n \in Nat
    BY <2>1 DEF Records, HintItems
  <2>3. f[n + 1] = SetItem(f[n], k, item)
    <3>1. n + 1 \in start .. Len(d) /\ n + 1 # start /\ (n + 1) - 1 = n
      BY <1>3
    <3> QED BY <1>1, <3>1
  <2>4. P(f[n])
    BY <1>3
  <2> HIDE DEF k, item
  <2>5. PICK x : x = f[n]
    OBVIOUS
  <2>6. PICK y : y = f[n + 1]
    OBVIOUS
  <2>7. PICK L \in Nat : L = Len(x)
    BY <2>4, <2>5, Empty
  <2>8. x \in Seq(SplitSet) /\ L >= 1 /\ x[L] \in SplitSet /\ Len(ss) \in Nat /\ L >= Len(ss)
    <3>1. x \in Seq(SplitSet) /\ L >= 1 /\ Len(ss) \in Nat /\ L >= Len(ss)
      BY <2>4, <2>5, <2>7, Empty
    <3>2. L \in 1 .. Len(x)
      BY <2>7, <3>1
    <3> QED BY <3>1, <3>2, ElementOfSeq
  <2>9. /\ y \in Seq(SplitSet) /\ \A j \in 1 .. L - 1 : y[j] = x[j]
        /\ Fits(x[L].buf, k) => Len(y) = L /\ y[L] = Split(BufferSet(x[L].buf, k, item), x[L].file)
        /\ ~Fits(x[L].buf, k) =>
              /\ Len(y) = L + 1
              /\ y[L] = Split(Hint(x[L].buf.items, IF x[L].buf.end >= item.n - 1 THEN x[L].buf.end ELSE item.n - 1),
                              x[L].file)
              /\ y[L + 1] = Split(BufferSet(EmptyBuffer, k, item), None)
    <3>1. y = SetItem(x, k, item) /\ Len(x) >= 1
      BY <2>3, <2>5, <2>6, <2>7, <2>8
    <3>2. /\ y \in Seq(SplitSet) /\ \A j \in 1 .. Len(x) - 1 : y[j] = x[j]
          /\ Fits(x[Len(x)].buf, k) =>
                Len(y) = Len(x) /\ y[Len(x)] = Split(BufferSet(x[Len(x)].buf, k, item), x[Len(x)].file)
          /\ ~Fits(x[Len(x)].buf, k) =>
                /\ Len(y) = Len(x) + 1
                /\ y[Len(x)] = Split(Hint(x[Len(x)].buf.items,
                                          IF x[Len(x)].buf.end >= item.n - 1 THEN x[Len(x)].buf.end ELSE item.n - 1),
                                     x[Len(x)].file)
                /\ y[Len(x) + 1] = Split(BufferSet(EmptyBuffer, k, item), None)
      BY <2>2, <2>8, <3>1, SetItemShape, ZenonT(40)
    <3> QED BY <2>7, <3>2
  <2>10. x[L].buf \in HintSet /\ BufferSet(x[L].buf, k, item) # None /\ BufferSet(EmptyBuffer, k, item) # None
    <3>1. x[L].buf \in HintSet
      BY <2>8, SplitShape
    <3> QED BY <2>2, <3>1, BufferSetShape, EmptyHints
  <2>11. y[L].buf # None /\ (Len(y) = L \/ (Len(y) = L + 1 /\ y[L + 1].buf # None))
    <3>1. CASE Fits(x[L].buf, k)
      BY <2>9, <2>10, <3>1, SplitShape
    <3>2. CASE ~Fits(x[L].buf, k)
      <4> DEFINE e == IF x[L].buf.end >= item.n - 1 THEN x[L].buf.end ELSE item.n - 1
      <4>1. x[L].buf.end \in Int
        BY <2>10, HintShape
      <4>2. e # -1
        BY <2>2, <4>1
      <4>3. y[L].buf = Hint(x[L].buf.items, e) /\ y[L + 1].buf # None
        BY <2>9, <2>10, <3>2, SplitShape
      <4> HIDE DEF e
      <4>4. Hint(x[L].buf.items, e).end = e /\ None.end = -1
        BY DEF Hint, None
      <4> QED BY <2>9, <3>2, <4>2, <4>3, <4>4
    <3> QED BY <3>1, <3>2
  <2>12. ASSUME NEW j \in Len(ss) .. Len(y) PROVE y[j].buf # None
    <3>1. j \in Nat /\ (j < L \/ j = L \/ (j = L + 1 /\ Len(y) = L + 1))
      BY <2>8, <2>11
    <3>2. CASE j < L
      <4>1. j \in 1 .. L - 1 /\ j \in Len(ss) .. Len(x)
        <5>1. Len(ss) >= 1
          OBVIOUS
        <5> QED BY <2>7, <2>8, <3>1, <3>2, <5>1
      <4> QED BY <2>4, <2>5, <2>9, <4>1
    <3> QED BY <2>11, <3>1, <3>2
  <2>13. P(y)
    <3>1. Len(y) >= Len(ss)
      BY <2>8, <2>11
    <3> QED BY <2>9, <2>12, <3>1
  <2>14. n + 1 \in start .. Len(d)
    BY <1>3
  <2> QED BY <2>6, <2>13, <2>14
<1>4. Len(d) \in S
  <2>1. start \in Nat /\ Len(d) \in Nat /\ Len(d) \in start .. Len(d)
    OBVIOUS
  <2> HIDE DEF S
  <2>2. \A n \in start .. Len(d) : n \in S
    BY <1>2, <1>3, <2>1, Induct
  <2> QED BY <2>1, <2>2
<1> QED BY <1>1, <1>4

\* After checkHintWithData of a chunk without splits, every split but the last is
\* a hint file; there are more of them than before if data was read.
LEMMA CheckFull ==
    ASSUME NEW ss \in Seq(SplitSet), Len(ss) = 1, ss[1].buf # None, NEW hf \in [SplitIds -> HintSet],
           NEW d \in Seq(Records), FilesOK(hf, d)
    PROVE  LET q == Checks(ss, hf, d)
           IN  /\ q \in Seq(SplitSet) /\ \A j \in 1 .. Len(q) - 1 : q[j].file # None
               /\ Len(q) >= Valid(hf, d) + 1
               /\ Size(hf, d) < Len(d) => Len(q) >= Valid(hf, d) + 2
<1> DEFINE V == Valid(hf, d)
           x == Loads(ss, hf, d)
           E == Size(hf, d)
           r == SetRecords(x, d, E)
           q == Checks(ss, hf, d)
<1>1. V \in Nat /\ E \in 0 .. Len(d) /\ \A s \in 1 .. V : hf[s] # None
  BY ValidFacts, SizeFacts
<1>2. /\ x \in Seq(SplitSet) /\ Len(x) = V + 1 /\ x[V + 1] = ss[1]
      /\ \A s \in 1 .. V : x[s] = Split(None, hf[s])
  <2>1. x = Loads(ss, hf, d) /\ V = Valid(hf, d) /\ OneSplit(ss)
    BY DEF OneSplit
  <2> HIDE DEF x, V
  <2>2. /\ x \in Seq(SplitSet) /\ Len(x) = V + 1
        /\ \A s \in 1 .. V : x[s] = Split(None, hf[s])
        /\ x[V + 1] = ss[1]
    BY <2>1, LoadsOne, SMTT(40)
  <2> QED BY <2>2
<1> HIDE DEF x, E, V, q, r
<1>3. \A s \in 1 .. V : x[s].buf = None /\ x[s].file # None
  BY <1>1, <1>2, SplitShape
<1>4. CASE E < Len(d)
  <2>1. q = Dumped(r) \o <<NewSplit>>
    BY <1>4 DEF q, Checks, E, x, r
  <2>2. Len(x) >= 1 /\ x[Len(x)].buf # None
    BY <1>1, <1>2
  <2>3. r \in Seq(SplitSet) /\ Len(r) >= Len(x) /\ \A j \in 1 .. Len(x) - 1 : r[j] = x[j]
    BY <1>1, <1>2, <2>2, RecordsShape DEF r
  <2>4. \A j \in Len(x) .. Len(r) : r[j].buf # None
    BY <1>1, <1>2, <2>2, RecordsBufs DEF r
  <2>5. /\ q \in Seq(SplitSet) /\ Len(q) = Len(r) + 1 /\ Len(r) \in Nat
        /\ \A j \in 1 .. Len(r) : q[j].file = IF r[j].buf # None THEN r[j].buf ELSE r[j].file
    BY <2>1, <2>3, DumpedShape, Empty
  <2>6. ASSUME NEW j \in 1 .. Len(q) - 1 PROVE q[j].file # None
    <3>1. j \in 1 .. Len(r) /\ j \in Nat
      BY <2>5
    <3>2. CASE j <= V
      <4>1. j \in 1 .. V /\ j \in 1 .. Len(x) - 1
        BY <1>1, <1>2, <3>1, <3>2
      <4> QED BY <1>3, <2>3, <2>5, <3>1, <4>1
    <3>3. CASE ~(j <= V)
      <4>1. j \in Len(x) .. Len(r)
        BY <1>1, <1>2, <2>5, <3>1, <3>3
      <4> QED BY <2>4, <2>5, <3>1, <4>1
    <3> QED BY <3>2, <3>3
  <2>7. Len(q) >= V + 1 /\ Len(q) >= V + 2
    BY <1>1, <1>2, <2>3, <2>5
  <2> QED BY <2>5, <2>6, <2>7 DEF q, V
<1>5. CASE ~(E < Len(d))
  <2>1. q = x
    BY <1>5 DEF q, Checks, E, x
  <2>2. \A j \in 1 .. Len(q) - 1 : j \in 1 .. V
    BY <1>1, <1>2, <2>1
  <2>3. Len(q) >= V + 1
    BY <1>1, <1>2, <2>1
  <2> QED BY <1>2, <1>3, <1>5, <2>1, <2>2, <2>3 DEF q, V, E
<1> QED BY <1>4, <1>5

\* Splits that are all in files: the files reach the end of the data.
LEMMA FullFiles ==
    ASSUME NEW q \in Seq(SplitSet), Len(q) >= 1, NEW hf \in [SplitIds -> HintSet],
           NEW d \in Seq(Records), Len(d) <= DataFileMax, d # << >>,
           Kept(q, d, hf, Len(d)), Blank(q[Len(q)]), \A j \in 1 .. Len(q) - 1 : q[j].file # None
    PROVE  /\ Len(q) - 1 \in 1 .. Valid(hf, d) /\ hf[Len(q) - 1].end = Len(d)
           /\ \A j \in 1 .. Len(q) - 1 : hf[j] = q[j].file
<1>1. PICK b : Bounds(q, d, b, Len(d))
  BY DEF Kept
<1>2. PICK num \in Nat : num = Len(q) - 1
  <2>1. Len(q) \in Nat
    BY Empty
  <2>2. Len(q) - 1 \in Nat
    BY <2>1
  <2> QED BY <2>2
<1>3. Len(q) = num + 1 /\ Len(d) \in Nat /\ Len(d) > 0 /\ DataFileMax \in Nat
  BY <1>2, Empty, Numbers
<1>4. /\ b \in [0 .. num + 1 -> Nat] /\ b[0] = 0 /\ b[num + 1] = Len(d)
      /\ \A i, j \in 0 .. num + 1 : i < j => b[i] <= b[j] /\ (j < num + 1 => b[i] < b[j])
      /\ \A j \in 0 .. num + 1 : b[j] <= Len(d)
      /\ \A j \in 0 .. num : j <= b[j] /\ j <= Len(d)
  <2>1. /\ b \in [0 .. Len(q) -> Nat] /\ b[0] = 0 /\ b[Len(q)] = Len(d)
        /\ \A i, j \in 0 .. Len(q) : i < j => b[i] <= b[j] /\ (j < Len(q) => b[i] < b[j])
        /\ \A j \in 0 .. Len(q) : b[j] <= Len(d)
        /\ \A j \in 0 .. Len(q) - 1 : j <= b[j] /\ j <= Len(d)
    BY <1>1, BoundsFacts
  <2> QED BY <1>2, <1>3, <2>1
<1>5. num \in 0 .. num + 1 /\ num + 1 \in 0 .. num + 1 /\ num \in 0 .. num /\ num < num + 1
  OBVIOUS
<1>6. b[num] = Len(d)
  <2>1. b[num] \in Nat /\ b[num] <= Len(d)
    BY <1>4, <1>5
  <2>2. Exact(q[num + 1].buf, d, b[num], b[num + 1])
    <3>1. num + 1 \in 1 .. Len(q) /\ (num + 1) - 1 = num /\ q[num + 1].buf # None
      BY <1>3 DEF Blank
    <3> QED BY <1>1, <3>1 DEF Bounds
  <2>3. q[num + 1].buf.end = 0
    BY <1>3 DEF Blank
  <2>4. ~(b[num] < Len(d))
    BY <1>3, <1>4, <2>2, <2>3 DEF Exact
  <2> QED BY <1>3, <2>1, <2>4
<1>7. num >= 1
  BY <1>3, <1>4, <1>6
<1>8. \A j \in 1 .. num : j \in SplitIds /\ hf[j] = q[j].file /\ hf[j] # None
  <2> SUFFICES ASSUME NEW j \in 1 .. num PROVE j \in SplitIds /\ hf[j] = q[j].file /\ hf[j] # None
    OBVIOUS
  <2>1. j \in 0 .. num /\ j < Len(q)
    BY <1>3
  <2>2. j \in 1 .. DataFileMax
    <3>1. j <= Len(d) /\ j \in Nat /\ j >= 1
      BY <1>4, <2>1
    <3> QED BY <1>3, <3>1
  <2>3. j \in SplitIds
    BY <2>2, SplitNumbers
  <2>4. hf[j] = q[j].file
    BY <2>1, <2>3 DEF Kept
  <2> QED BY <1>2, <2>3, <2>4
<1>9. num \in 1 .. num
  BY <1>7
<1>10. num <= Valid(hf, d) /\ Valid(hf, d) \in Nat
  BY <1>8, <1>9, ValidFacts
<1>11. hf[num].end = Len(d)
  <2>1. num \in 1 .. Len(q) /\ num - 1 \in 0 .. num + 1 /\ num - 1 < num /\ num < num + 1
    BY <1>3, <1>7
  <2>2. b[num - 1] < b[num]
    BY <1>4, <1>5, <2>1
  <2>3. q[num].file # None /\ q[num].file = hf[num]
    BY <1>8, <1>9
  <2>4. Exact(hf[num], d, b[num - 1], b[num])
    BY <1>1, <2>1, <2>3 DEF Bounds
  <2> QED BY <1>6, <2>2, <2>4 DEF Exact
<1> QED BY <1>2, <1>7, <1>8, <1>10, <1>11

Filed(q, d, hf) ==
    /\ q \in Seq(SplitSet) /\ Len(q) >= 1 /\ hf \in [SplitIds -> HintSet]
    /\ d \in Seq(Records) /\ Len(d) <= DataFileMax /\ d # << >> /\ FilesOK(hf, d)
    /\ Kept(q, d, hf, Len(d)) /\ Blank(q[Len(q)]) /\ \A j \in 1 .. Len(q) - 1 : q[j].file # None

\* updateHtreeFromHint over all files of a chunk: a key the chunk has is led to its
\* newest record there, or removed if that is a delete.
LEMMA UpdatedTree ==
    ASSUME NEW c \in Nat, NEW q, NEW d, NEW hf, Filed(q, d, hf),
           NEW files, DOMAIN files = 1 .. Len(q) - 1, \A j \in 1 .. Len(q) - 1 : files[j] = q[j].file,
           NEW k \in Keys
    PROVE  LET t == UpdateTree(c, files)[k]
           IN  \/ t = tree[k] /\ \A n \in 1 .. Len(d) : d[n].key # k
               \/ \E m \in 1 .. Len(d) :
                     /\ d[m].key = k /\ \A n \in 1 .. Len(d) : d[n].key = k => n <= m
                     /\ t = Pos(c, m) \/ (t = NoPos /\ ~d[m].live)
<1>0. PICK t : t = UpdateTree(c, files)[k]
  OBVIOUS
<1>f. /\ q \in Seq(SplitSet) /\ Len(q) >= 1 /\ hf \in [SplitIds -> HintSet]
      /\ d \in Seq(Records) /\ Len(d) <= DataFileMax /\ d # << >> /\ FilesOK(hf, d)
      /\ Kept(q, d, hf, Len(d)) /\ Blank(q[Len(q)]) /\ \A j \in 1 .. Len(q) - 1 : q[j].file # None
  BY DEF Filed
<1>1. /\ Len(q) - 1 \in 1 .. Valid(hf, d) /\ hf[Len(q) - 1].end = Len(d)
      /\ \A j \in 1 .. Len(q) - 1 : hf[j] = q[j].file
  BY <1>f, FullFiles
<1>2. PICK s \in 1 .. Valid(hf, d) : s = Len(q) - 1
  BY <1>1
<1>3. hf[s].end = Len(d) /\ (\A j \in 1 .. s : hf[j] = q[j].file) /\ s \in Nat /\ s \in 1 .. s /\ Valid(hf, d) \in Nat
  BY <1>1, <1>2, ValidFacts
<1> DEFINE ends == {hf[i].end : i \in 1 .. s}
           recs == {n \in 1 .. Max(ends) : d[n].key = k}
           having == {i \in 1 .. s : k \in DOMAIN hf[i].items}
<1>4. IF recs = {} THEN having = {} ELSE having # {} /\ hf[Max(having)].items[k].n = Max(recs)
  BY <1>f, FilesExact
<1>5. \A i \in 1 .. s : /\ Exact(hf[i], d, FileBegin(hf, i), hf[i].end)
                        /\ hf[i].end \in Nat /\ hf[i].end <= Len(d) /\ FileBegin(hf, i) \in Nat
  <2>1. \A i \in 1 .. s : i \in 1 .. Valid(hf, d)
    BY <1>3
  <2> QED BY <1>f, <2>1, SizeFacts
<1>l. Len(d) \in Nat
  BY <1>f, Empty
<1>6. Max(ends) = Len(d)
  <2>1. Len(d) \in ends /\ ends # {}
    BY <1>3
  <2>2. ends \subseteq -1 .. Len(d)
    <3>1. \A i \in 1 .. s : hf[i].end \in -1 .. Len(d)
      BY <1>l, <1>5
    <3> QED BY <3>1
  <2> HIDE DEF ends
  <2>3. Max(ends) \in ends /\ \A y \in ends : Max(ends) >= y
    BY <1>l, <2>1, <2>2, MaxIsLargest
  <2>4. Max(ends) \in -1 .. Len(d) /\ Max(ends) >= Len(d)
    BY <2>1, <2>2, <2>3
  <2> QED BY <1>l, <2>4
<1>7. recs = {n \in 1 .. Len(d) : d[n].key = k}
  <2> HIDE DEF ends
  <2> QED BY <1>6
<1>8. t = IF having = {} THEN tree[k]
          ELSE IF hf[Max(having)].items[k].live THEN Pos(c, hf[Max(having)].items[k].n) ELSE NoPos
  <2> DEFINE H == {j \in DOMAIN files : k \in DOMAIN files[j].items}
  <2>1. t = IF H = {} THEN tree[k]
            ELSE IF files[Max(H)].items[k].live THEN Pos(c, files[Max(H)].items[k].n) ELSE NoPos
    BY <1>0 DEF UpdateTree
  <2>2. DOMAIN files = 1 .. s /\ \A j \in 1 .. s : files[j] = hf[j]
    BY <1>2, <1>3
  <2>3. H = having
    BY <2>2
  <2>4. having # {} => Max(having) \in 1 .. s
    <3>1. having \subseteq -1 .. s /\ having \subseteq 1 .. s
      BY <1>3
    <3> HIDE DEF having
    <3> QED BY <1>3, <3>1, MaxIsLargest
  <2> HIDE DEF H, having
  <2> QED BY <2>1, <2>2, <2>3, <2>4
<1>9. CASE recs = {}
  BY <1>0, <1>4, <1>7, <1>8, <1>9
<1>10. CASE recs # {}
  <2>1. recs \subseteq -1 .. Len(d)
    <3>1. \A n \in 1 .. Len(d) : n \in -1 .. Len(d)
      BY <1>l
    <3> QED BY <1>7, <3>1
  <2> HIDE DEF recs
  <2>2. Max(recs) \in recs /\ \A y \in recs : Max(recs) >= y
    BY <1>l, <1>10, <2>1, MaxIsLargest
  <2>3. PICK m \in 1 .. Len(d) : m = Max(recs) /\ d[m].key = k
    BY <1>7, <2>2
  <2>4. \A n \in 1 .. Len(d) : d[n].key = k => n <= m
    <3>1. \A n \in 1 .. Len(d) : d[n].key = k => m >= n
      BY <1>7, <2>2, <2>3
    <3> QED BY <1>l, <3>1
  <2>5. having # {} /\ hf[Max(having)].items[k].n = m
    BY <1>4, <1>10, <2>3 DEF recs
  <2>6. Max(having) \in having
    <3>1. having \subseteq -1 .. s
      BY <1>3
    <3> HIDE DEF having
    <3> QED BY <1>3, <2>5, <3>1, MaxIsLargest
  <2>7. PICK i \in 1 .. s : i = Max(having) /\ k \in DOMAIN hf[i].items
    BY <2>6
  <2> HIDE DEF having
  <2>8. d[hf[i].items[k].n] = [key |-> k, live |-> hf[i].items[k].live]
    BY <1>5, <2>7 DEF Exact
  <2>9. d[m].live = hf[i].items[k].live
    BY <2>5, <2>7, <2>8
  <2>10. t = IF hf[i].items[k].live THEN Pos(c, m) ELSE NoPos
    BY <1>8, <2>5, <2>7
  <2> QED BY <1>0, <2>3, <2>4, <2>9, <2>10
<1> QED BY <1>9, <1>10

\* The tree file is read.
LEMMA OpensTree ==
    ASSUME Core, Core', TreeInv, OpenTree
    PROVE  OpenInv'
<1>1. step' = treeID'.chunk /\ tree' = tfile'.tree /\ UNCHANGED <<data, flushed, hfile>>
  BY DEF OpenTree
<1>2. step' \in Nat /\ treeID'.chunk \in Nat
  BY DEF Core, IndexOK, IDs
<1>3. step' = treeID'.chunk /\ treeID'.chunk <= step'
  BY <1>1, <1>2
<1>4. PICK l2 : l2 = OpenLimits'
  OBVIOUS
<1> SUFFICES ASSUME NEW k \in Keys PROVE Covers(k, tree'[k], data, flushed, l2)
  BY <1>1, <1>3, <1>4 DEF OpenInv
<1>5. CASE tfile.id.chunk >= 0 /\ tfile.id.chunk <= MaxData
  <2>1. tfile' = tfile /\ treeID' = tfile.id
    BY <1>5 DEF OpenTree
  <2>2. PICK l : l = IdLimits(tfile.id)
    OBVIOUS
  <2>3. Covers(k, tree'[k], data, flushed, l)
    BY <1>1, <1>5, <2>1, <2>2 DEF TreeInv, HasTree
  <2>4. ASSUME NEW c \in Chunks PROVE l2[c] = l[c]
    <3>1. c \in Nat /\ tfile.id.chunk \in Nat /\ tfile.id.chunk = step'
      BY <1>1, <1>2, <2>1, Numbers
    <3>2. IdLimit(treeID, c)' = IdLimit(tfile.id, c)
      BY <1>1, <2>1 DEF IdLimit, FilesUpTo
    <3>3. l2[c] = IF c < step' THEN Len(data[c])
                  ELSE IF c = step' /\ c = tfile.id.chunk THEN IdLimit(tfile.id, c) ELSE 0
      BY <1>1, <1>4, <2>1, <3>2 DEF OpenLimits
    <3>4. l[c] = IdLimit(tfile.id, c)
      BY <2>2 DEF IdLimits
    <3> QED BY <3>1, <3>3, <3>4 DEF IdLimit
  <2>5. \A c \in Chunks : \A n \in 1 .. Len(data[c]) : n <= l2[c] => n <= l[c]
    BY <2>4
  <2>6. \A c \in Chunks : \A n \in 1 .. Len(data[c]) : n <= flushed[c] => n <= flushed[c]
    OBVIOUS
  <2> QED BY <2>3, <2>5, <2>6, CoversLess
<1>6. CASE ~(tfile.id.chunk >= 0 /\ tfile.id.chunk <= MaxData)
  <2>1. tfile' = NoTree /\ treeID' = NoTreeID
    BY <1>6 DEF OpenTree
  <2>2. tree'[k] = NoPos /\ treeID'.chunk = 0 /\ treeID'.split = 0
    BY <1>1, <2>1 DEF NoTree, NoTreeID, HintID
  <2>3. ASSUME NEW c \in Chunks PROVE l2[c] = 0
    <3>1. c \in Nat /\ step' = 0 /\ ~(c < step')
      BY <1>1, <2>2, Numbers
    <3>2. ~(c < treeID'.chunk)
      BY <2>2, <3>1
    <3>3. IdLimit(treeID, c)' = 0
      BY <2>2, <3>2 DEF IdLimit
    <3> QED BY <1>4, <3>1, <3>3 DEF OpenLimits
  <2>4. Based(k, tree'[k], NoPos, data, flushed)
    BY <2>2 DEF Based
  <2>5. ASSUME NEW c \in Chunks, NEW n \in 1 .. Len(data[c]), n <= l2[c] PROVE Pos(c, n) <= NoPos
    <3>1. n \in Nat /\ n >= 1 /\ n <= 0
      BY <2>3, <2>5, DataFacts
    <3> QED BY <3>1
  <2>6. NoPos \in Nat
    BY DEF NoPos
  <2> QED BY <2>4, <2>5, <2>6 DEF Covers
<1> QED BY <1>5, <1>6

\* A tree that has, by its number, all hint files of a chunk has all its records.
LEMMA NothingBehind ==
    ASSUME Core, OpenChunk, NEW c, c = step,
           NEW q, q = Checks(splits[c], hfile[c], data[c]),
           Behind(c) >= Len(q) - 1, data[c] # << >>
    PROVE  c = treeID.chunk /\ IdLimit(treeID, c) = Len(data[c])
<1>1. /\ c \in Chunks /\ c \in Nat /\ splits[c] = <<NewSplit>> /\ FilesOK(hfile[c], data[c])
      /\ q \in Seq(SplitSet) /\ Len(q) \in Nat \ {0} /\ Behind(c) \in Nat
      /\ Kept(q, data[c], FilesAfter(splits[c], hfile[c], data[c]), Len(data[c])) /\ Blank(q[Len(q)])
      /\ FilesAfter(splits[c], hfile[c], data[c]) \in [SplitIds -> HintSet]
  BY Opened
<1>2. hfile[c] \in [SplitIds -> HintSet] /\ data[c] \in Seq(Records) /\ Len(data[c]) \in Nat
      /\ Len(data[c]) <= DataFileMax /\ splits[c] \in Seq(SplitSet)
  BY <1>1, DataFacts DEF Core, HintsOK
<1>3. Len(splits[c]) = 1 /\ splits[c][1].buf # None
  BY <1>1, BlankNew DEF Blank
<1>4. /\ \A j \in 1 .. Len(q) - 1 : q[j].file # None
      /\ Len(q) >= Valid(hfile[c], data[c]) + 1
      /\ Size(hfile[c], data[c]) < Len(data[c]) => Len(q) >= Valid(hfile[c], data[c]) + 2
  <2>1. FilesOK(hfile[c], data[c])
    BY <1>1
  <2> QED BY <1>2, <1>3, <2>1, CheckFull
<1>5. Len(q) - 1 >= 1
  <2>1. Len(q) >= 1
    BY <1>1
  <2>2. Len(q) - 1 \in 1 .. Valid(FilesAfter(splits[c], hfile[c], data[c]), data[c])
    BY <1>1, <1>2, <1>4, <2>1, FullFiles
  <2> QED BY <2>2
<1>6. c = treeID.chunk /\ Behind(c) = treeID.split /\ treeID.split # 0
  BY <1>1, <1>5 DEF Behind
<1>7. PICK s \in Nat \ {0} : s = treeID.split
  BY <1>1, <1>6
<1>8. IdLimit(treeID, c) = IF FilesUpTo(c, s) THEN hfile[c][s].end ELSE Len(data[c])
  BY <1>1, <1>6, <1>7 DEF IdLimit
<1>9. ASSUME FilesUpTo(c, s) PROVE hfile[c][s].end = Len(data[c])
  <2> DEFINE V == Valid(hfile[c], data[c])
  <2>1. s \in SplitIds /\ \A i \in 1 .. s : hfile[c][i] # None
    <3>1. s \in 1 .. s
      OBVIOUS
    <3> QED BY <1>9, <3>1 DEF FilesUpTo
  <2>2. s <= V /\ V \in Nat
    BY <2>1, ValidFacts
  <2>3. V = s /\ ~(Len(q) >= V + 2) /\ V > 0
    BY <1>1, <1>4, <1>6, <1>7, <2>2
  <2>4. Size(hfile[c], data[c]) \in 0 .. Len(data[c]) /\ Size(hfile[c], data[c]) = hfile[c][V].end
    BY <1>1, <1>2, <2>3, SizeFacts
  <2>5. ~(Size(hfile[c], data[c]) < Len(data[c]))
    BY <1>4, <2>3
  <2> QED BY <1>2, <2>3, <2>4, <2>5
<1> QED BY <1>6, <1>8, <1>9

LEMMA OpensChunk ==
    ASSUME Core, Core', OpenInv, OpenChunk
    PROVE  OpenInv'
<1>0. PICK c : c = step
  OBVIOUS
<1>1. PICK q : q = Checks(splits[c], hfile[c], data[c])
  OBVIOUS
<1>2. PICK hf : hf = FilesAfter(splits[c], hfile[c], data[c])
  OBVIOUS
<1>3. /\ c \in Chunks /\ c \in Nat /\ proc = "opening" /\ step' = c + 1
      /\ UNCHANGED <<data, flushed, treeID>>
      /\ splits[c] = <<NewSplit>>
      /\ q \in Seq(SplitSet) /\ hf \in [SplitIds -> HintSet] /\ Len(q) \in Nat \ {0}
      /\ Kept(q, data[c], hf, Len(data[c])) /\ Blank(q[Len(q)])
      /\ FilesOK(hf, data[c]) /\ FilesOK(hfile[c], data[c])
      /\ Len(q) > 1 => data[c] # << >>
      /\ Behind(c) \in Nat
      /\ tree' = IF Behind(c) >= Len(q) - 1 THEN tree
                 ELSE UpdateTree(c, [j \in 1 .. Len(q) - 1 |-> q[j].file])
  BY <1>0, <1>1, <1>2, Opened
<1>4. treeID.chunk \in Nat /\ treeID.chunk <= c /\ treeID.chunk <= c + 1
  <2>1. treeID.chunk \in Nat
    BY <1>0 DEF Core, IndexOK, IDs
  <2>2. treeID.chunk <= c
    BY <1>0, <1>3, Zenon DEF OpenInv
  <2>3. c \in Nat
    BY <1>3
  <2> QED BY <2>1, <2>2, <2>3
<1>5. PICK l : l = OpenLimits
  OBVIOUS
<1>6. PICK l2 : l2 = OpenLimits'
  OBVIOUS
<1>7. ASSUME NEW x \in Chunks PROVE /\ l2[x] = IF x <= c THEN Len(data[x]) ELSE 0
                                    /\ x < c => l[x] = Len(data[x])
                                    /\ x = c /\ c = treeID.chunk => l[x] = IdLimit(treeID, c)
                                    /\ x \in Nat
  <2>1. x \in Nat
    BY Numbers
  <2>2. l2[x] = IF x < c + 1 THEN Len(data[x])
                ELSE IF x = c + 1 /\ x = treeID.chunk THEN IdLimit(treeID, x)' ELSE 0
    BY <1>3, <1>6 DEF OpenLimits
  <2>3. x # c + 1 \/ x # treeID.chunk
    BY <1>3, <1>4, <2>1
  <2>4. x < c + 1 <=> x <= c
    BY <1>3, <2>1
  <2>5. l[x] = IF x < c THEN Len(data[x]) ELSE IF x = c /\ x = treeID.chunk THEN IdLimit(treeID, x) ELSE 0
    BY <1>0, <1>5 DEF OpenLimits
  <2>6. x = c => ~(x < c)
    BY <1>3
  <2> QED BY <2>1, <2>2, <2>3, <2>4, <2>5, <2>6
<1> SUFFICES ASSUME NEW k \in Keys PROVE Covers(k, tree'[k], data, flushed, l2)
  BY <1>3, <1>4, <1>6 DEF OpenInv
<1>8. Covers(k, tree[k], data, flushed, l)
  BY <1>3, <1>5 DEF OpenInv
\* The tree keeps what it has: nothing of the key is new in the chunk.
<1>9. ASSUME tree'[k] = tree[k], \A n \in 1 .. Len(data[c]) : data[c][n].key = k => n <= l[c]
      PROVE  Covers(k, tree'[k], data, flushed, l2)
  <2>1. ASSUME NEW x \in Chunks, NEW n \in 1 .. Len(data[x]), data[x][n].key = k, n <= l2[x]
        PROVE  n \in 1 .. Len(data[x]) /\ n <= l[x] /\ data[x][n] = data[x][n]
    <3>1. Len(data[x]) \in Nat /\ n \in Nat /\ n >= 1 /\ n <= Len(data[x]) /\ x \in Nat
      BY <1>7, DataFacts
    <3>2. x <= c
      BY <1>7, <2>1, <3>1
    <3>3. CASE x < c
      BY <1>7, <3>1, <3>3
    <3>4. CASE x = c
      BY <1>9, <2>1, <3>4
    <3> QED BY <1>3, <3>1, <3>2, <3>3, <3>4
  <2>2. \A x \in Chunks : \A n \in 1 .. Len(data[x]) : tree[k] = Pos(x, n) \/ n <= flushed[x] =>
           n \in 1 .. Len(data[x]) /\ data[x][n] = data[x][n] /\ (n <= flushed[x] => n <= flushed[x])
    OBVIOUS
  <2>3. Covers(k, tree[k], data, flushed, l2)
    BY <1>8, <2>1, <2>2, CoversStep
  <2> QED BY <1>9, <2>3
<1>10. CASE Behind(c) >= Len(q) - 1
  <2>1. tree' = tree
    BY <1>3, <1>10
  <2>2. ASSUME NEW n \in 1 .. Len(data[c]) PROVE n <= l[c]
    <3>1. Len(data[c]) \in Nat /\ n \in Nat /\ n <= Len(data[c]) /\ data[c] # << >>
      BY <1>3, DataFacts
    <3>2. c = treeID.chunk /\ IdLimit(treeID, c) = Len(data[c])
      BY <1>0, <1>1, <1>10, <3>1, NothingBehind
    <3>3. l[c] = Len(data[c])
      BY <1>3, <1>7, <3>2
    <3> QED BY <3>1, <3>3
  <2> QED BY <1>9, <2>1, <2>2
<1>11. CASE ~(Behind(c) >= Len(q) - 1)
  <2>1. data[c] # << >> /\ Len(q) >= 1
    BY <1>3, <1>11
  <2>f. PICK files : files = [j \in 1 .. Len(q) - 1 |-> q[j].file]
    OBVIOUS
  <2>2. PICK t : t = UpdateTree(c, files)[k]
    OBVIOUS
  <2>3. tree'[k] = t
    BY <1>3, <1>11, <2>2, <2>f
  <2>4. /\ data[c] \in Seq(Records) /\ Len(data[c]) \in Nat /\ Len(data[c]) <= DataFileMax
        /\ hfile[c] \in [SplitIds -> HintSet] /\ splits[c] \in Seq(SplitSet)
    BY <1>3, DataFacts DEF Core, HintsOK
  <2>5. \A j \in 1 .. Len(q) - 1 : q[j].file # None
    <3>1. Len(splits[c]) = 1 /\ splits[c][1].buf # None
      BY <1>3, BlankNew DEF Blank
    <3> QED BY <1>1, <1>3, <2>4, <3>1, CheckFull
  <2>6. PICK d : d = data[c]
    OBVIOUS
  <2>7. \/ t = tree[k] /\ \A n \in 1 .. Len(d) : d[n].key # k
        \/ \E m \in 1 .. Len(d) :
              /\ d[m].key = k /\ \A n \in 1 .. Len(d) : d[n].key = k => n <= m
              /\ t = Pos(c, m) \/ (t = NoPos /\ ~d[m].live)
    <3>1. /\ d \in Seq(Records) /\ Len(d) <= DataFileMax /\ d # << >> /\ FilesOK(hf, d)
          /\ Kept(q, d, hf, Len(d))
      BY <1>3, <2>1, <2>4, <2>6
    <3>2. c \in Nat /\ q \in Seq(SplitSet) /\ Len(q) >= 1 /\ hf \in [SplitIds -> HintSet] /\ Blank(q[Len(q)])
      BY <1>3, <2>1
    <3>3. DOMAIN files = 1 .. Len(q) - 1 /\ \A j \in 1 .. Len(q) - 1 : files[j] = q[j].file
      BY <2>f
    <3>f. Filed(q, d, hf)
      BY <2>5, <3>1, <3>2 DEF Filed
    <3>4. \/ UpdateTree(c, files)[k] = tree[k] /\ \A n \in 1 .. Len(d) : d[n].key # k
          \/ \E m \in 1 .. Len(d) :
                /\ d[m].key = k /\ \A n \in 1 .. Len(d) : d[n].key = k => n <= m
                /\ UpdateTree(c, files)[k] = Pos(c, m) \/ (UpdateTree(c, files)[k] = NoPos /\ ~d[m].live)
      BY <3>2, <3>3, <3>f, UpdatedTree, SMTT(40)
    <3> QED BY <2>2, <3>4
  <2>8. CASE t = tree[k] /\ \A n \in 1 .. Len(d) : d[n].key # k
    BY <1>9, <2>3, <2>6, <2>8
  <2>9. CASE ~(t = tree[k] /\ \A n \in 1 .. Len(d) : d[n].key # k)
    <3>1. PICK m \in 1 .. Len(d) :
              /\ d[m].key = k /\ \A n \in 1 .. Len(d) : d[n].key = k => n <= m
              /\ t = Pos(c, m) \/ (t = NoPos /\ ~d[m].live)
      BY <2>7, <2>9
    <3>2. m \in 1 .. DataFileMax /\ m \in Nat /\ m <= flushed[c] /\ m \in 1 .. Len(data[c])
      <4>1. flushed[c] = Len(data[c])
        BY <1>3 DEF Core, DownInv
      <4> QED BY <1>3, <2>4, <2>6, <4>1, DataFacts
    <3>3. Pos(c, m) \in Nat
      BY <1>3, <3>2, Positions
    <3>4. Based(k, tree'[k], Pos(c, m), data, flushed)
      BY <1>3, <2>3, <2>6, <3>1, <3>2 DEF Based
    <3>5. ASSUME NEW x \in Chunks, NEW n \in 1 .. Len(data[x]), data[x][n].key = k, n <= l2[x]
          PROVE  Pos(x, n) <= Pos(c, m)
      <4>1. x \in Nat /\ n \in 1 .. DataFileMax /\ n \in Nat /\ n >= 1 /\ Pos(x, n) \in Nat
        BY DataFacts, Positions
      <4>2. x <= c
        BY <1>7, <3>5, <4>1
      <4>3. CASE x < c
        BY <1>3, <3>2, <3>3, <4>1, <4>3, PositionOrder
      <4>4. CASE x = c
        <5>1. n <= m
          BY <2>6, <3>1, <3>5, <4>4
        <5>2. n = m \/ n < m
          BY <3>2, <4>1, <5>1
        <5> QED BY <1>3, <3>2, <3>3, <4>1, <4>4, <5>2, PositionOrder
      <4> QED BY <1>3, <4>1, <4>2, <4>3, <4>4
    <3> QED BY <3>3, <3>4, <3>5 DEF Covers
  <2> QED BY <2>8, <2>9
<1> QED BY <1>10, <1>11

LEMMA NextOpen ==
    ASSUME Core, Core', TreeInv, OpenInv, Next
    PROVE  OpenInv'
<1>1. CASE OpenTree
  BY <1>1, OpensTree
<1>2. CASE OpenChunk
  BY <1>2, OpensChunk
<1>3. ASSUME proc' # "opening" PROVE OpenInv'
  BY <1>3 DEF OpenInv
<1>4. ASSUME NEW g \in Dumpers, DumpFile(g) PROVE OpenInv'
  <2>1. Running /\ proc' = proc
    BY <1>4, Dumping DEF DumpFile
  <2> QED BY <1>3, <2>1 DEF Running
<1>5. CASE Down \/ OpenDone
  BY <1>3, <1>5 DEF Down, OpenDone
<1>6. CASE SetTree \/ SetHint \/ CheckBehind \/ Close \/ RemoveTree \/ DumpTree
  BY <1>3, <1>6 DEF SetTree, SetHint, CheckBehind, Close, RemoveTree, DumpTree, Running
<1>7. CASE \E k \in Keys, live \in BOOLEAN : AppendRecord(k, live)
  BY <1>3, <1>7 DEF AppendRecord, Running
<1>8. CASE Stays
  <2>1. CASE proc' = proc
    BY <1>8, <2>1 DEF Stays, OpenInv, OpenLimits, IdLimit, FilesUpTo
  <2>2. CASE proc' # proc
    BY <1>3, <1>8, <2>2 DEF Stays, Running
  <2> QED BY <2>1, <2>2
<1> QED BY <1>1, <1>2, <1>4, <1>5, <1>6, <1>7, <1>8, Steps

-----------------------------------------------------------------------------
(* Recovered *)

LEMMA InitRecovery == Init => Recovery
<1> SUFFICES ASSUME Init PROVE Recovery
  OBVIOUS
<1>1. ~HasTree
  BY NoTreeName DEF Init, HasTree
<1>2. proc = "down" /\ ~Running /\ writer = NoWriter /\ frame = [g \in Dumpers |-> Idle]
  BY DEF Init, Running
<1>3. DumpInv
  <2> SUFFICES ASSUME NEW g \in Dumpers PROVE Passed(frame[g], splits)
    BY DEF DumpInv
  <2>1. frame[g].at = "idle"
    BY <1>2, IdleFrame
  <2> QED BY <2>1, PassedIdle
<1> QED BY <1>1, <1>2, <1>3 DEF Recovery, TreeInv, NameInv, OpenInv, RunInv, RipeInv, IdleInv

LEMMA NextRecovery ==
    ASSUME Core, Core', Recovery, Next, ~ahead', ~gap'
    PROVE  Recovery'
<1>0. TreeInv /\ NameInv /\ OpenInv /\ RunInv /\ RipeInv /\ DumpInv /\ IdleInv
  BY DEF Recovery
<1>1. RipeInv' /\ DumpInv' /\ IdleInv'
  BY <1>0, NextRipe, NextDumpInv, NextIdle
<1>2. NameInv'
  BY <1>0, NextName
<1>3. TreeInv'
  BY <1>0, <1>2, NextTree
<1>4. OpenInv' /\ RunInv'
  BY <1>0, NextOpen, NextRun
<1> QED BY <1>1, <1>2, <1>3, <1>4 DEF Recovery

\* A gap counts for good.
LEMMA GapStays ==
    ASSUME [Next]_vars, gap
    PROVE  gap'
<1>1. CASE UNCHANGED vars
  BY <1>1 DEF vars, counters
<1>2. CASE Next
  <2>1. ASSUME Down PROVE gap'
    BY <2>1 DEF Down
  <2>2. ASSUME NEW g \in Dumpers, DumpPanics(g) PROVE gap'
    BY <2>1, <2>2 DEF DumpPanics, counters
  <2>3. ASSUME NEW g \in Dumpers, \/ DumpOld(g) \/ DumpLast(g) \/ LeaveChunk(g) \/ DumpFile(g)
                                  \/ DumpFails(g) \/ DropBuffer(g)
        PROVE  gap'
    BY <2>3, Zenon DEF DumpOld, DumpLast, LeaveChunk, DumpFile, DumpFails, DropBuffer, counters
  <2>4. ASSUME \/ \E k \in Keys, live \in BOOLEAN : AppendRecord(k, live)
               \/ SetTree \/ SetHint \/ \E c \in Chunks : DumpRound(c)
               \/ Close \/ RemoveTree \/ DumpTree \/ OpenTree \/ OpenChunk \/ OpenDone \/ CheckBehind
        PROVE  gap'
    BY <2>4, ZenonT(40) DEF AppendRecord, SetTree, SetHint, DumpRound, Close, RemoveTree, DumpTree, OpenTree, OpenChunk,
                OpenDone, CheckBehind, counters
  <2>5. ASSUME \/ \E k \in Keys : StartLookup(k)
               \/ LookupMem \/ LookupPanics \/ LookupFile \/ LookupReturn
        PROVE  gap'
    BY <2>5, ZenonT(40) DEF StartLookup, LookupMem, LookupPanics, LookupFile, LookupReturn, counters
  <2> QED BY <1>2, <2>1, <2>2, <2>3, <2>4, <2>5 DEF Next, Exit, Crash, BuildDies
<1> QED BY <1>1, <1>2

LEMMA SameRecovery ==
    ASSUME Recovery, UNCHANGED vars
    PROVE  Recovery'
<1>1. UNCHANGED <<data, flushed, hfile, tfile, proc, step, head, tree, treeID, splits, maxDumped, frame, writer>>
  BY DEF vars, disk, index, hints
<1>2. TreeInv' /\ NameInv' /\ IdleInv'
  BY <1>1 DEF Recovery, TreeInv, NameInv, HasTree, IdLimits, IdLimit, FilesUpTo, Running, IdleInv
<1>3. OpenInv' /\ RunInv'
  BY <1>1 DEF Recovery, OpenInv, RunInv, OpenLimits, Limits, IdLimit, FilesUpTo, Running
<1>4. RipeInv' /\ DumpInv'
  BY <1>1 DEF Recovery, RipeInv, Ripe, Running, DumpInv
<1> QED BY <1>2, <1>3, <1>4 DEF Recovery

LEMMA RecoveryInvariance == Spec => []RecoveryInv
<1>1. Init => RecoveryInv
  BY InitRecovery DEF RecoveryInv
<1>2. CoreInv /\ CoreInv' /\ RecoveryInv /\ [Next]_vars => RecoveryInv'
  <2> SUFFICES ASSUME CoreInv, CoreInv', RecoveryInv, [Next]_vars, ~ahead', ~gap' PROVE Recovery'
    BY DEF RecoveryInv
  <2>1. ~ahead /\ ~gap
    BY AheadStays, GapStays
  <2>2. Core /\ Core' /\ Recovery
    BY <2>1 DEF CoreInv, RecoveryInv
  <2>3. CASE Next
    BY <2>2, <2>3, NextRecovery
  <2>4. CASE UNCHANGED vars
    BY <2>2, <2>4, SameRecovery
  <2> QED BY <2>3, <2>4
<1> QED BY <1>1, <1>2, CoreInvariance, PTL DEF Spec

\* A tree that covers the data leads to the newest record.
LEMMA CoversLeads ==
    ASSUME Core, IdleInv, NEW k \in Keys, writer.at # "idle" => writer.key # k,
           NEW t, Covers(k, t, data, flushed, Limits)
    PROVE  Leads(k, t)
<1>1. PICK P \in Nat :
        /\ Based(k, t, P, data, flushed)
        /\ \A c \in Chunks : \A n \in 1 .. Len(data[c]) :
              data[c][n].key = k /\ n <= Limits[c] => Pos(c, n) <= P
  BY DEF Covers
<1>2. ASSUME NEW c \in Chunks, NEW n \in 1 .. Len(data[c]), data[c][n].key = k
      PROVE  Pos(c, n) # writer.pos /\ n <= Limits[c] /\ Pos(c, n) \in Nat
  <2>1. c \in Nat /\ n \in 1 .. DataFileMax /\ n \in Nat /\ n <= Len(data[c]) /\ Len(data[c]) \in Nat
    BY DataFacts
  <2>2. Pos(c, n) \in Nat \ {0}
    BY <2>1, Positions
  <2>3. CASE writer.at = "idle"
    <3>1. writer.pos = 0
      BY <2>3 DEF IdleInv, NoWriter, NoPos
    <3>2. Limits[c] = Len(data[c])
      BY <2>3 DEF Limits
    <3> QED BY <2>1, <2>2, <3>1, <3>2
  <2>4. CASE writer.at # "idle"
    <3>1. PICK h \in Chunks : h = head
      BY <2>4 DEF Core, WriterInv
    <3>2. Len(data[h]) >= 1 /\ writer.pos = Pos(h, Len(data[h])) /\ data[h][Len(data[h])].key = writer.key
      BY <2>4, <3>1 DEF Core, WriterInv
    <3>3. ~(c = h /\ n = Len(data[h]))
      BY <1>2, <2>4, <3>2
    <3>4. h \in Nat /\ Len(data[h]) \in 1 .. DataFileMax
      BY <3>2, DataFacts
    <3>5. Pos(c, n) # writer.pos
      BY <2>1, <3>2, <3>3, <3>4, PositionOrder
    <3>6. Limits[c] = Len(data[c]) \/ (c = h /\ Limits[c] = Len(data[c]) - 1)
      BY <3>1 DEF Limits
    <3> QED BY <2>1, <2>2, <3>3, <3>5, <3>6
  <2> QED BY <2>3, <2>4
<1> DEFINE at(c) == {n \in 1 .. Len(data[c]) : data[c][n].key = k /\ Pos(c, n) # writer.pos}
           S == {NoPos} \cup UNION {{Pos(c, n) : n \in at(c)} : c \in Chunks}
<1>3. S \subseteq -1 .. P
  <2>1. NoPos \in -1 .. P
    BY DEF NoPos
  <2>2. ASSUME NEW c \in Chunks, NEW n \in at(c) PROVE Pos(c, n) \in -1 .. P
    <3>1. Pos(c, n) \in Nat /\ Pos(c, n) <= P
      BY <1>1, <1>2, <2>2
    <3> QED BY <3>1
  <2> QED BY <2>1, <2>2
<1>4. P \in S
  <2>1. CASE P = NoPos
    BY <2>1
  <2>2. CASE P # NoPos
    <3>1. PICK c \in Chunks : \E n \in 1 .. Len(data[c]) : P = Pos(c, n) /\ data[c][n].key = k
      BY <1>1, <2>2 DEF Based
    <3>2. PICK n \in 1 .. Len(data[c]) : P = Pos(c, n) /\ data[c][n].key = k
      BY <3>1
    <3>3. n \in at(c)
      BY <1>2, <3>2
    <3> QED BY <3>2, <3>3
  <2> QED BY <2>1, <2>2
<1>5. Newest(k) = Max(S)
  BY DEF Newest
<1> HIDE DEF S
<1>6. Max(S) \in S /\ Max(S) >= P /\ Max(S) \in -1 .. P
  <2>1. Max(S) \in S /\ \A y \in S : Max(S) >= y
    BY <1>3, <1>4, MaxIsLargest
  <2> QED BY <1>3, <1>4, <2>1
<1>7. Newest(k) = P
  BY <1>5, <1>6
<1>8. t = P \/ (t = NoPos /\ ~data[ChunkOf(P)][NumberOf(P)].live)
  <2>1. CASE t = NoPos /\ P = NoPos
    BY <2>1
  <2>2. CASE ~(t = NoPos /\ P = NoPos)
    <3>1. PICK c \in Chunks : \E n \in 1 .. Len(data[c]) :
            P = Pos(c, n) /\ (t = P \/ (t = NoPos /\ ~data[c][n].live))
      BY <1>1, <2>2 DEF Based
    <3>2. PICK n \in 1 .. Len(data[c]) : P = Pos(c, n) /\ (t = P \/ (t = NoPos /\ ~data[c][n].live))
      BY <3>1
    <3>3. c \in Nat /\ n \in 1 .. DataFileMax
      BY DataFacts
    <3>4. ChunkOf(P) = c /\ NumberOf(P) = n
      BY <3>2, <3>3, Positions
    <3> QED BY <3>2, <3>4
  <2> QED BY <2>1, <2>2
<1> QED BY <1>7, <1>8 DEF Leads

\* Whatever a crash or close left on disk, however far the dumps of hints and tree
\* had got, the tree of the reopened bucket leads to the newest record of each key,
\* unless hints or tree were ahead of the data or the tree file had a number behind
\* that of a hint file that could not be written: for all keys, data files, split
\* sizes and numbers of restarts and failed dumps.
THEOREM OpenRecovers == Spec => []Recovered
<1>1. CoreInv /\ RecoveryInv => Recovered
  <2> SUFFICES ASSUME CoreInv, RecoveryInv, Running, ~ahead, ~gap,
                      NEW k \in Keys, writer.at # "idle" => writer.key # k
               PROVE  Leads(k, tree[k])
    BY DEF Recovered
  <2>1. Core /\ Recovery
    BY DEF CoreInv, RecoveryInv
  <2>2. IdleInv /\ Covers(k, tree[k], data, flushed, Limits)
    BY <2>1 DEF Recovery, RunInv
  <2> QED BY <2>1, <2>2, CoversLeads
<1> QED BY <1>1, CoreInvariance, RecoveryInvariance, PTL
=============================================================================
