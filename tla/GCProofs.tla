------------------------------- MODULE GCProofs -------------------------------
(***************************************************************************)
(* Proofs about GC for any number of keys, chunks, writes, gcs and crashes. *)
(*                                                                         *)
(* The inductive invariant divides the positions of the files: those that  *)
(* gc has read in its source and not overwritten yet (Past), the old tail  *)
(* of a rewritten file (StaleTail), the record that the writer has         *)
(* appended and not yet put into the tree (Pending), and the rest, which   *)
(* is current.  The tree leads to a current position that holds the record *)
(* clients know.  Older records of the key may lie behind it, in a chunk   *)
(* that gc has given up with an error after copying it; but the original   *)
(* of the copy is still behind them, in the same chunk, so that a restart  *)
(* finds it.  A key that is not in the tree ends with a tombstone, or has  *)
(* nothing.                                                                *)
(***************************************************************************)
EXTENDS GC, SequenceTheorems, WellFoundedInduction, TLAPS

Slots == [chunk : Chunks, off : 0 .. DataFileMax - 1]

Reading == gc.at \in {"read", "place", "getpos", "setpos"}

\* gc has passed this position of its source and not overwritten it.
Past(p) ==
    /\ Reading /\ p.chunk = gc.src /\ p.off < gc.off
    /\ gc.dst = gc.src => p.off >= gc.writingHead
Pending(p) == writer.at = "tree" /\ p = writer.pos

Current(k) == {p \in PositionsOf(k) : ~Past(p) /\ ~StaleTail(p) /\ ~Pending(p)}
Passed(k) == {p \in PositionsOf(k) : Past(p)}
LastOf(p, S) == p \in S /\ \A q \in S : ~Before(p, q)

-----------------------------------------------------------------------------
(* The inductive invariant *)

\* Nothing is stored after the head.
HeadInv == \A c \in Chunks : c > newHead => file[c] = << >>

\* A write is known by its id.
Stored == {r \in Records : \E p \in Slots : HasRecord(p) /\ At(p) = r}
Known == Stored \cup {acked[k] : k \in Keys}
IdInv ==
    /\ \A r \in Known : r.id < nextId
    /\ \A r, s \in Known : r.id = s.id => r = s

\* The writer's record is the last one of the head, and newer than all that was
\* acknowledged.
WriterInv ==
    writer.at = "tree" =>
        /\ newHead \in Chunks /\ Len(file[newHead]) > 0
        /\ writer.pos = [chunk |-> newHead, off |-> Len(file[newHead]) - 1]
        /\ writer.rec \in Records /\ writer.rec = At(writer.pos)
        /\ \A k \in Keys : acked[k].id < writer.rec.id

\* gc stays below the head; what lies between its destination and its source is
\* empty, and copies end at writingHead.
ShapeInv ==
    gc.at # "idle" =>
        /\ gc.begin <= gc.src /\ gc.src <= gc.end + 1 /\ gc.end < newHead
        /\ gc.dst <= gc.src
        /\ gc.dst = gc.src => gc.rewriting /\ gc.src <= gc.end
        /\ \A c \in Chunks : gc.dst < c /\ c < gc.src => file[c] = << >>
        /\ gc.writingHead <= Len(file[gc.dst])
        /\ ~gc.rewriting => gc.writingHead = Len(file[gc.dst])
        /\ gc.dst = gc.src /\ gc.at = "chunk" => gc.writingHead = 0
        /\ gc.dst = gc.src /\ gc.at = "after" => torn

\* What gc knows of the record it has read and of the copy it has placed.
ReadInv ==
    Reading =>
        /\ gc.src <= gc.end /\ gc.off <= Len(file[gc.src])
        /\ gc.at # "read" => gc.off < Len(file[gc.src]) /\ gc.rec = At(OldPos)
        /\ gc.dst = gc.src => gc.writingHead <= gc.off + (IF gc.at \in {"getpos", "setpos"} THEN 1 ELSE 0)
        /\ gc.at = "place" /\ ~gc.found => gc.begin > 0 /\ ~gc.rec.live
        /\ gc.at \in {"getpos", "setpos"} =>
              /\ gc.found /\ gc.writingHead > 0
              /\ gc.newPos = [chunk |-> gc.dst, off |-> gc.writingHead - 1]
              /\ At(gc.newPos) = gc.rec

BaseInv == TypeOK /\ HeadInv /\ WriterInv /\ ShapeInv /\ ReadInv

Cursor == [chunk |-> gc.src, off |-> IF Reading THEN gc.off ELSE 0]

\* The part of a rewritten file that holds copies.
Copied(d) == gc.at # "idle" /\ gc.rewriting /\ d.chunk = gc.dst /\ d.off < gc.writingHead

Seen(k) == Current(k) \cup Passed(k)

\* What clients know is stored at d or behind it in the same chunk.
Again(k, d) == \E q \in Seen(k) : q.chunk = d.chunk /\ ~Before(q, d) /\ At(q) = acked[k]

\* A key that is in the tree is found where clients know it; what lies behind is
\* not a copy, and ends with the same record in its chunk.
FoundInv(k) ==
    /\ tree[k].pos \in Current(k)
    /\ At(tree[k].pos) = acked[k] /\ acked[k].live = tree[k].live
    /\ \A d \in Seen(k) : Before(tree[k].pos, d) => ~Copied(d) /\ Again(k, d)

\* A key that is not: it is deleted, also after a restart, and a gc from the first
\* chunk on has left nothing of it behind.
LostInv(k) ==
    /\ ~acked[k].live
    /\ \A q \in Slots : LastOf(q, Current(k)) => ~At(q).live
    /\ \A q \in Slots : LastOf(q, Current(k) \cup Passed(k)) => ~At(q).live
    /\ gc.at # "idle" /\ gc.begin = 0 => \A q \in Current(k) : ~Before(q, Cursor)

\* While gc moves a record, the tree leads to its old position.
MoveInv(k) ==
    /\ Moving(k) => /\ tree[k].found /\ tree[k].pos = OldPos
                    /\ gc.at = "setpos" => gc.live = tree[k].live
    /\ gc.at = "place" /\ ~gc.found /\ gc.rec.key = k /\ tree[k].found => Before(OldPos, tree[k].pos)

KeyInv(k) ==
    ~torn /\ k \notin raced =>
        /\ MoveInv(k)
        /\ tree[k].found => FoundInv(k)
        /\ ~tree[k].found => LostInv(k)

\* A get finds at the position it has looked up what it is to find, another key's
\* record or nothing, and gc will not put an older record of its key there.
ReaderInv ==
    LET k == reader.key
        p == reader.item.pos
    IN  reader.at # "idle" =>
            /\ reader.floor.id <= acked[k].id
            /\ reader.item.found => tree[k].found
            /\ reader.at = "file" => reader.item.found
            /\ ~torn /\ k \notin raced /\ reader.at = "file" =>
                  /\ HasRecord(p) /\ At(p).key = k => At(p).id >= reader.floor.id
                  /\ gc.at = "place" /\ gc.rec.key = k /\ ~gc.found => ~Before(p, OldPos)

IInv == BaseInv /\ IdInv /\ (\A k \in Keys : KeyInv(k)) /\ ReaderInv /\ ReadFresh

-----------------------------------------------------------------------------
(* Numbers and last positions *)

\* A set of numbers that is bounded and not empty has a largest element.
LEMMA LargestExists ==
    ASSUME NEW n \in Nat, NEW S \in SUBSET (0 .. n), S # {}
    PROVE  \E x \in S : \A y \in S : x >= y
<1> DEFINE T == {n - x : x \in S}
<1>0. \A x \in S : n - x \in Nat
  OBVIOUS
<1>1. T \subseteq Nat /\ T # {}
  BY <1>0
<1> DEFINE R == OpToRel(<, Nat)
<1>2. IsWellFoundedOn(R, Nat)
  BY NatLessThanWellFounded
<1> HIDE DEF R
<1>3. PICK t \in T : \A u \in T : ~(<<u, t>> \in R)
  BY <1>1, <1>2, WFMin
<1>4. PICK x \in S : t = n - x
  OBVIOUS
<1>5. ASSUME NEW y \in S PROVE x >= y
  <2>1. n - y \in T /\ n - y \in Nat /\ t \in Nat
    BY <1>1
  <2>2. ~(n - y < t)
    BY <1>3, <2>1 DEF R, OpToRel
  <2> QED BY <1>4, <2>2
<1> QED BY <1>5

\* Max finds it.
LEMMA MaxIsLargest ==
    ASSUME NEW n \in Nat, NEW S \in SUBSET (0 .. n), S # {}
    PROVE  Max(S) \in S /\ \A y \in S : Max(S) >= y
BY LargestExists DEF Max

\* Positions are ordered by chunk and offset.
LEMMA Order ==
    ASSUME NEW p \in Slots, NEW q \in Slots
    PROVE  /\ p.chunk \in Nat /\ p.off \in Nat /\ p.off < DataFileMax
           /\ p = [chunk |-> p.chunk, off |-> p.off]
           /\ ~Before(p, q) /\ ~Before(q, p) => p = q
           /\ ~(Before(p, q) /\ Before(q, p))
BY GCAssumption DEF Slots, Before, Chunks

LEMMA OrderTrans ==
    ASSUME NEW p \in Slots, NEW q \in Slots, NEW r \in Slots
    PROVE  (Before(p, q) /\ ~Before(r, q) => Before(p, r)) /\ (~Before(q, p) /\ Before(q, r) => Before(p, r))
BY Order DEF Before

\* A set of positions that is not empty has a last one.
LEMMA LastExists ==
    ASSUME NEW S \in SUBSET Slots, S # {}
    PROVE  \E p \in S : LastOf(p, S)
<1> DEFINE C == {p.chunk : p \in S}
<1>1. C \in SUBSET (0 .. NumChunks) /\ C # {} /\ NumChunks \in Nat /\ DataFileMax \in Nat
  BY GCAssumption DEF Slots, Chunks
<1>2. PICK c \in C : \A d \in C : c >= d
  BY <1>1, LargestExists
<1> DEFINE O == {p.off : p \in {q \in S : q.chunk = c}}
<1>3. O \in SUBSET (0 .. DataFileMax) /\ O # {}
  BY <1>1 DEF Slots
<1>4. PICK o \in O : \A x \in O : o >= x
  BY <1>1, <1>3, LargestExists
<1>5. PICK p \in S : p.chunk = c /\ p.off = o
  OBVIOUS
<1>6. ASSUME NEW q \in S PROVE ~Before(p, q)
  <2>1. c >= q.chunk /\ q.chunk \in Nat /\ c \in Nat /\ o \in Nat /\ q.off \in Nat
    BY <1>1, <1>2, <1>5, Order
  <2>2. q.chunk = c => o >= q.off
    BY <1>4
  <2> QED BY <1>5, <2>1, <2>2 DEF Before
<1> QED BY <1>5, <1>6 DEF LastOf

-----------------------------------------------------------------------------
(* Typing *)

LEMMA Numbers ==
    /\ NumChunks \in Nat \ {0} /\ DataFileMax \in Nat \ {0} /\ MaxWrites \in Nat
    /\ 0 \in Chunks /\ Chunks \subseteq Nat /\ Chunks \subseteq 0 .. NumChunks
    /\ \A c \in Nat : c \in Chunks <=> c < NumChunks
BY GCAssumption DEF Chunks

LEMMA Constants ==
    /\ NoRec.key \in Keys /\ NoRec.id = 0 /\ ~NoRec.live /\ NoRec \in KnownRecords
    /\ None \in Items /\ None.pos \in Positions /\ ~None.found
<1>1. NoRec.key \in Keys
  BY GCAssumption DEF NoRec
<1> QED BY <1>1, Numbers DEF NoRec, KnownRecords, None, Items, Positions

LEMMA RecordParts ==
    ASSUME NEW r \in KnownRecords
    PROVE  /\ r.key \in Keys /\ r.id \in Nat /\ r.live \in BOOLEAN
           /\ r.id > 0 <=> r \in Records
<1>1. CASE r \in Records
  BY <1>1, Numbers DEF Records
<1>2. CASE r = NoRec
  <2>1. r.key \in Keys /\ r.id = 0 /\ r.live = FALSE
    BY <1>2, Constants DEF NoRec
  <2>2. r \notin Records
    BY <2>1, Numbers DEF Records
  <2>3. ~(r.id > 0) /\ r.id \in Nat
    BY <2>1
  <2>4. r.live \in BOOLEAN
    BY <2>1
  <2> QED BY <2>1, <2>2, <2>3, <2>4
<1> QED BY <1>1, <1>2 DEF KnownRecords

\* The fields of gc's variables.
LEMMA GCParts ==
    ASSUME TypeOK
    PROVE  /\ gc.begin \in Nat /\ gc.end \in Chunks /\ gc.end \in Nat /\ gc.src \in Nat
           /\ gc.dst \in Chunks /\ gc.dst \in Nat
           /\ gc.off \in Nat /\ gc.writingHead \in Nat /\ gc.writingHead <= DataFileMax
           /\ gc.rewriting \in BOOLEAN /\ gc.found \in BOOLEAN /\ gc.cancel \in BOOLEAN
           /\ gc.rec \in KnownRecords /\ gc.newPos \in Positions
<1>1. /\ gc.begin \in Chunks /\ gc.end \in Chunks /\ gc.src \in 0 .. NumChunks
      /\ gc.dst \in Chunks /\ gc.off \in Nat /\ gc.writingHead \in 0 .. DataFileMax
      /\ gc.rewriting \in BOOLEAN /\ gc.found \in BOOLEAN /\ gc.cancel \in BOOLEAN
      /\ gc.rec \in KnownRecords /\ gc.newPos \in Positions
  BY DEF TypeOK, GCStates
<1>2. /\ gc.begin \in Nat /\ gc.end \in Nat /\ gc.src \in Nat /\ gc.dst \in Nat
  BY <1>1, GCAssumption DEF Chunks
<1>3. gc.writingHead \in Nat /\ gc.writingHead <= DataFileMax
  BY <1>1, Numbers
<1> QED BY <1>1, <1>2, <1>3

\* What a file holds.
LEMMA FileParts ==
    ASSUME TypeOK, NEW c \in Chunks
    PROVE  /\ file[c] \in Seq(Records) /\ Len(file[c]) \in Nat /\ Len(file[c]) <= DataFileMax
           /\ \A o \in Nat : o < Len(file[c]) => o + 1 \in 1 .. Len(file[c]) /\ file[c][o + 1] \in Records
<1>1. file[c] \in Seq(Records) /\ Len(file[c]) <= DataFileMax
  BY DEF TypeOK
<1>2. Len(file[c]) \in Nat /\ \A i \in 1 .. Len(file[c]) : file[c][i] \in Records
  BY <1>1
<1> QED BY <1>1, <1>2

LEMMA SlotParts ==
    ASSUME TypeOK, NEW p \in Slots, HasRecord(p)
    PROVE  /\ p.chunk \in Chunks /\ p.off \in Nat
           /\ At(p) \in Records /\ At(p) \in KnownRecords /\ At(p).key \in Keys /\ At(p).id \in Nat \ {0}
<1>1. p.chunk \in Chunks /\ p.off \in Nat
  BY Numbers DEF Slots
<1>2. At(p) \in Records
  BY <1>1, FileParts DEF HasRecord, At
<1> QED BY <1>1, <1>2, RecordParts DEF KnownRecords, Records

\* Two positions with a record are a slot.
LEMMA IsSlot ==
    ASSUME TypeOK, NEW c \in Chunks, NEW o \in Nat, o < Len(file[c])
    PROVE  [chunk |-> c, off |-> o] \in Slots
BY FileParts, Numbers DEF Slots

-----------------------------------------------------------------------------
(* What each step does to the files *)

\* The slots other than p keep what they hold.
KeptBut(p) ==
    \A q \in Slots : q # p => (HasRecord(q)' <=> HasRecord(q)) /\ (HasRecord(q) => At(q)' = At(q))

LEMMA AppendFiles ==
    ASSUME TypeOK, HeadInv, NEW k \in Keys, NEW live \in BOOLEAN, WriteAppend(k, live)
    PROVE  /\ file' \in [Chunks -> Seq(Records)] /\ \A c \in Chunks : Len(file'[c]) <= DataFileMax
           /\ newHead' \in Chunks /\ newHead' >= newHead /\ newHead' <= newHead + 1
           /\ writer'.rec = [key |-> k, id |-> nextId, live |-> live] /\ writer'.rec \in Records
           /\ writer'.at = "tree" /\ writer'.pos = [chunk |-> newHead', off |-> Len(file'[newHead']) - 1]
           /\ Len(file'[newHead']) > 0 /\ Len(file'[newHead']) = Len(file[newHead']) + 1
           /\ file'[newHead'][Len(file'[newHead'])] = writer'.rec
           /\ \A c \in Chunks : c # newHead' => file'[c] = file[c]
           /\ \A i \in 1 .. Len(file[newHead']) : file'[newHead'][i] = file[newHead'][i]
<1> DEFINE c == IF Len(file[newHead]) = DataFileMax THEN newHead + 1 ELSE newHead
           r == [key |-> k, id |-> nextId, live |-> live]
<1>1. /\ c \in Chunks /\ newHead' = c /\ newHead \in Chunks
      /\ file' = [file EXCEPT ![c] = Append(@, r)]
      /\ writer' = [at |-> "tree", rec |-> r, pos |-> [chunk |-> c, off |-> Len(file[c])]]
  BY DEF WriteAppend
<1>2. r \in Records
  BY DEF WriteAppend, TypeOK, Records
<1>3. Len(file[c]) < DataFileMax /\ file[c] \in Seq(Records) /\ Len(file[c]) \in Nat /\ newHead \in Nat
  <2>1. c # newHead => file[c] = << >>
    BY <1>1, Numbers DEF HeadInv
  <2> QED BY <1>1, <2>1, FileParts, Numbers
<1>4. c >= newHead /\ c <= newHead + 1
  BY <1>3
<1> DEFINE f == Append(file[c], r)
<1>5. /\ f \in Seq(Records) /\ Len(f) = Len(file[c]) + 1 /\ f[Len(file[c]) + 1] = r
      /\ \A i \in 1 .. Len(file[c]) : f[i] = file[c][i]
  BY <1>2, <1>3
<1>6. file'[c] = f /\ (\A d \in Chunks : d # c => file'[d] = file[d]) /\ file' \in [Chunks -> Seq(Records)]
  BY <1>1, <1>5 DEF TypeOK
<1>7. \A d \in Chunks : Len(file'[d]) <= DataFileMax
  <2> SUFFICES ASSUME NEW d \in Chunks PROVE Len(file'[d]) <= DataFileMax
    OBVIOUS
  <2>1. CASE d = c
    BY <1>3, <1>5, <1>6, <2>1, Numbers
  <2>2. CASE d # c
    BY <1>6, <2>2, FileParts
  <2> QED BY <2>1, <2>2
<1> HIDE DEF c, r, f
<1>8. Len(f) - 1 = Len(file[c])
  BY <1>3, <1>5
<1> QED BY <1>1, <1>2, <1>3, <1>4, <1>5, <1>6, <1>7, <1>8 DEF r

NewSlot == [chunk |-> gc.dst, off |-> gc.writingHead]

\* Files that a step leaves well formed.
FilesOK == file \in [Chunks -> Seq(Records)] /\ \A c \in Chunks : Len(file[c]) <= DataFileMax

LEMMA PlaceFiles ==
    ASSUME BaseInv, GCPlace, NEW p, p = NewSlot
    PROVE  /\ FilesOK' /\ p \in Slots /\ gc.rec \in Records
           /\ HasRecord(p)' /\ At(p)' = gc.rec /\ KeptBut(p)
           /\ \A c \in Chunks : c # gc.dst => file'[c] = file[c]
           /\ gc.writingHead + 1 <= Len(file'[gc.dst]) /\ Len(file[gc.dst]) <= Len(file'[gc.dst])
           /\ gc.writingHead = Len(file[gc.dst]) => Len(file'[gc.dst]) = gc.writingHead + 1
<1> DEFINE w == gc.writingHead
           d == gc.dst
           s == file[d]
           t == IF w < Len(s) THEN [s EXCEPT ![w + 1] = gc.rec] ELSE Append(s, gc.rec)
<1>1. /\ TypeOK /\ gc.at = "place" /\ w < DataFileMax /\ d \in Chunks /\ w \in Nat /\ w <= Len(s)
      /\ file' = [file EXCEPT ![d] = t]
  BY GCParts DEF GCPlace, BaseInv, ShapeInv
<1>2. s \in Seq(Records) /\ Len(s) \in Nat /\ Len(s) <= DataFileMax
  BY <1>1, FileParts
<1>3. gc.rec \in Records
  <2>1. gc.src <= gc.end /\ gc.off < Len(file[gc.src]) /\ gc.rec = At(OldPos)
    BY <1>1 DEF BaseInv, ReadInv, Reading
  <2>2. gc.src \in Chunks /\ gc.off \in Nat
    BY <1>1, <2>1, GCParts, Numbers
  <2> QED BY <1>1, <2>1, <2>2, FileParts DEF At, OldPos
<1>4. /\ t \in Seq(Records) /\ t[w + 1] = gc.rec /\ Len(t) \in Nat
      /\ \A i \in 1 .. Len(s) : i # w + 1 => t[i] = s[i]
      /\ Len(t) = IF w < Len(s) THEN Len(s) ELSE Len(s) + 1
  <2>1. CASE w < Len(s)
    BY <1>1, <1>2, <1>3, <2>1
  <2>2. CASE ~(w < Len(s))
    <3>1. w = Len(s) /\ t = Append(s, gc.rec)
      BY <1>1, <1>2, <2>2
    <3> QED BY <1>2, <1>3, <2>2, <3>1
  <2> QED BY <2>1, <2>2
<1>5. file'[d] = t /\ (\A c \in Chunks : c # d => file'[c] = file[c]) /\ file' \in [Chunks -> Seq(Records)]
  BY <1>1, <1>4 DEF TypeOK
<1> HIDE DEF t
<1>6. Len(t) <= DataFileMax /\ w + 1 <= Len(t) /\ Len(s) <= Len(t)
  BY <1>1, <1>2, <1>4, Numbers
<1>7. ASSUME NEW c \in Chunks PROVE Len(file'[c]) <= DataFileMax
  <2>1. CASE c = d
    BY <1>5, <1>6, <2>1
  <2>2. CASE c # d
    BY <1>1, <1>5, <2>2, FileParts
  <2> QED BY <2>1, <2>2
<1>8. p \in Slots /\ p.chunk = d /\ p.off = w
  BY <1>1, Numbers DEF NewSlot, Slots
<1>9. HasRecord(p)' /\ At(p)' = gc.rec
  BY <1>1, <1>4, <1>5, <1>6, <1>8 DEF HasRecord, At
<1>10. KeptBut(p)
  <2> SUFFICES ASSUME NEW q \in Slots, q # p
               PROVE  (HasRecord(q)' <=> HasRecord(q)) /\ (HasRecord(q) => At(q)' = At(q))
    BY DEF KeptBut
  <2>1. CASE q.chunk # d
    <3>1. file'[q.chunk] = file[q.chunk]
      BY <1>5, <2>1 DEF Slots
    <3> QED BY <3>1 DEF HasRecord, At
  <2>2. CASE q.chunk = d
    <3>1. q.off \in Nat /\ q.off # w
      BY <1>8, <2>2, Order
    <3>2. q.off < Len(t) <=> q.off < Len(s)
      BY <1>1, <1>2, <1>4, <3>1
    <3>3. q.off < Len(s) => q.off + 1 \in 1 .. Len(s) /\ q.off + 1 # w + 1
      BY <1>1, <1>2, <3>1
    <3>4. q.off < Len(s) => t[q.off + 1] = s[q.off + 1]
      BY <1>4, <3>3
    <3> QED BY <1>5, <2>2, <3>2, <3>4 DEF HasRecord, At
  <2> QED BY <2>1, <2>2
<1>11. FilesOK'
  BY <1>5, <1>7 DEF FilesOK
<1> QED BY <1>3, <1>4, <1>5, <1>6, <1>8, <1>9, <1>10, <1>11, <1>2, <1>1

\* endGCWriting cuts off the end of the destination, if anything.
Cut(q) == gc.rewriting /\ q.chunk = gc.dst /\ q.off >= gc.writingHead

LEMMA CutFiles ==
    ASSUME BaseInv, gc.at # "idle", file' = EndWriting(gc)
    PROVE  /\ FilesOK'
           /\ \A q \in Slots : /\ HasRecord(q)' <=> HasRecord(q) /\ ~Cut(q)
                               /\ HasRecord(q)' => At(q)' = At(q)
           /\ \A c \in Chunks : c # gc.dst => file'[c] = file[c]
           /\ \A c \in Chunks : file[c] = << >> => file'[c] = << >>
<1> DEFINE w == gc.writingHead
           d == gc.dst
           s == file[d]
<1>1. /\ TypeOK /\ d \in Chunks /\ w \in Nat /\ w <= Len(s) /\ s \in Seq(Records) /\ Len(s) \in Nat
      /\ gc.rewriting \in BOOLEAN
  BY GCParts, FileParts DEF BaseInv, ShapeInv
<1>2. CASE ~(gc.rewriting /\ w < Len(s))
  <2>1. file' = file
    BY <1>2 DEF EndWriting
  <2>2. ASSUME NEW q \in Slots, HasRecord(q), Cut(q) PROVE FALSE
    <3>1. q.chunk = d /\ q.off >= w /\ q.off < Len(s) /\ q.off \in Nat /\ gc.rewriting
      BY <2>2, Order DEF HasRecord, Cut
    <3> QED BY <1>1, <1>2, <3>1
  <2> QED BY <1>1, <2>1, <2>2 DEF HasRecord, At, TypeOK, FilesOK
<1>3. CASE gc.rewriting /\ w < Len(s)
  <2> DEFINE t == SubSeq(s, 1, w)
  <2>1. file' = [file EXCEPT ![d] = t]
    BY <1>3 DEF EndWriting
  <2>2. t \in Seq(Records) /\ Len(t) = w /\ \A i \in 1 .. w : t[i] = s[i]
    BY <1>1, <1>3
  <2> HIDE DEF t
  <2>3. /\ file'[d] = t /\ (\A c \in Chunks : c # d => file'[c] = file[c])
        /\ file' \in [Chunks -> Seq(Records)]
    BY <1>1, <2>1, <2>2 DEF TypeOK
  <2>4. ASSUME NEW c \in Chunks PROVE Len(file'[c]) <= DataFileMax
    <3>1. CASE c = d
      BY <1>1, <2>2, <2>3, <3>1, GCParts
    <3>2. CASE c # d
      BY <1>1, <2>3, <3>2, FileParts
    <3> QED BY <3>1, <3>2
  <2>5. ASSUME NEW q \in Slots
        PROVE  (HasRecord(q)' <=> HasRecord(q) /\ ~Cut(q)) /\ (HasRecord(q)' => At(q)' = At(q))
    <3>1. CASE q.chunk # d
      <4>1. file'[q.chunk] = file[q.chunk]
        BY <2>3, <3>1 DEF Slots
      <4> QED BY <3>1, <4>1 DEF HasRecord, At, Cut
    <3>2. CASE q.chunk = d
      <4>1. q.off \in Nat
        BY Order
      <4>2. q.off < w <=> q.off < Len(s) /\ ~(q.off >= w)
        BY <1>1, <1>3, <4>1
      <4>3. q.off < w => t[q.off + 1] = s[q.off + 1]
        BY <1>1, <2>2, <4>1
      <4> QED BY <1>3, <2>2, <2>3, <3>2, <4>2, <4>3 DEF HasRecord, At, Cut
    <3> QED BY <3>1, <3>2
  <2>6. s # << >>
    BY <1>1, <1>3
  <2> QED BY <2>3, <2>4, <2>5, <2>6 DEF FilesOK
<1> QED BY <1>2, <1>3

\* A chunk that was read and is not the destination goes.
LEMMA DoneFiles ==
    ASSUME TypeOK, GCChunkDone, gc.src \in Chunks
    PROVE  /\ FilesOK'
           /\ \A q \in Slots : /\ HasRecord(q)' <=> HasRecord(q) /\ ~(gc.src # gc.dst /\ q.chunk = gc.src)
                               /\ HasRecord(q)' => At(q)' = At(q)
           /\ \A c \in Chunks : c # gc.src => file'[c] = file[c]
           /\ gc.src # gc.dst => file'[gc.src] = << >>
           /\ gc.src = gc.dst => file' = file
<1>1. CASE gc.src = gc.dst
  BY <1>1 DEF GCChunkDone, HasRecord, At, TypeOK, FilesOK
<1>2. CASE gc.src # gc.dst
  <2>1. file' = [file EXCEPT ![gc.src] = << >>]
    BY <1>2 DEF GCChunkDone
  <2>2. /\ file'[gc.src] = << >> /\ (\A c \in Chunks : c # gc.src => file'[c] = file[c])
        /\ file' \in [Chunks -> Seq(Records)]
    BY <2>1 DEF TypeOK
  <2>3. ASSUME NEW c \in Chunks PROVE Len(file'[c]) <= DataFileMax
    <3>1. CASE c = gc.src
      BY <2>2, <3>1, Numbers
    <3>2. CASE c # gc.src
      BY <2>2, <3>2, FileParts
    <3> QED BY <3>1, <3>2
  <2>4. ASSUME NEW q \in Slots
        PROVE  /\ HasRecord(q)' <=> HasRecord(q) /\ q.chunk # gc.src
               /\ HasRecord(q)' => At(q)' = At(q)
    <3>1. q.chunk \in Chunks /\ q.off \in Nat
      BY Numbers DEF Slots
    <3> QED BY <2>2, <3>1 DEF HasRecord, At
  <2> QED BY <1>2, <2>2, <2>3, <2>4 DEF FilesOK
<1> QED BY <1>1, <1>2

-----------------------------------------------------------------------------
(* Files, writer and gc fit together *)

\* The chunks that gc starts with.
LEMMA StartChunks ==
    ASSUME TypeOK, NEW b \in Chunks, NEW e \in Chunks, InRange(b, e)
    PROVE  /\ FirstDst(b) \in Chunks /\ FirstDst(b) <= b
           /\ \A c \in Chunks : FirstDst(b) < c /\ c < b => file[c] = << >>
<1> DEFINE S == {c \in Used : c < b}
<1>1. CASE S = {}
  BY <1>1, Numbers DEF FirstDst
<1>2. CASE S # {}
  <2> DEFINE i == Max(S)
  <2>1. S \in SUBSET (0 .. NumChunks) /\ NumChunks \in Nat
    BY Numbers DEF Used
  <2>2. i \in S /\ \A y \in S : i >= y
    BY <1>2, <2>1, MaxIsLargest
  <2>3. FirstDst(b) = i \/ FirstDst(b) = i + 1
    BY <1>2 DEF FirstDst
  <2> HIDE DEF i
  <2>4. i \in Chunks /\ i < b /\ i \in Nat /\ b \in Nat
    BY <2>2, Numbers DEF Used
  <2>5. FirstDst(b) \in Nat /\ FirstDst(b) >= i /\ FirstDst(b) <= b
    BY <2>3, <2>4
  <2>6. FirstDst(b) \in Chunks
    BY <2>4, <2>5, Numbers
  <2>7. ASSUME NEW c \in Chunks, FirstDst(b) < c, c < b PROVE file[c] = << >>
    <3>1. c \notin S
      BY <2>2, <2>4, <2>5, <2>7, Numbers
    <3> QED BY <2>7, <3>1 DEF Used
  <2> QED BY <2>5, <2>6, <2>7
<1> QED BY <1>1, <1>2

LEMMA StartBase ==
    ASSUME BaseInv, NEW b \in Chunks, NEW e \in Chunks, GCStart(b, e)
    PROVE  BaseInv'
<1> DEFINE d == FirstDst(b)
<1>1. /\ TypeOK /\ HeadInv /\ WriterInv /\ InRange(b, e)
      /\ d \in Chunks /\ d <= b /\ \A c \in Chunks : d < c /\ c < b => file[c] = << >>
  BY StartChunks DEF BaseInv, GCStart
<1> HIDE DEF d
<1>2. gc' = [NoGC EXCEPT !.at = "chunk", !.begin = b, !.end = e, !.src = b, !.dst = d,
                !.rewriting = (d = b), !.writingHead = IF d = b THEN 0 ELSE Len(file[d])]
  BY DEF GCStart, BeginWriting, d, NoGC
<1>3. /\ gc'.at = "chunk" /\ gc'.begin = b /\ gc'.end = e /\ gc'.src = b /\ gc'.dst = d /\ gc'.off = 0
      /\ (gc'.rewriting <=> d = b) /\ gc'.writingHead = IF d = b THEN 0 ELSE Len(file[d])
  BY <1>2 DEF NoGC
<1>4. Len(file[d]) \in 0 .. DataFileMax /\ b \in 0 .. NumChunks /\ e \in Nat /\ b \in Nat /\ d \in Nat
  BY <1>1, FileParts, Numbers
<1>5. UNCHANGED <<file, newHead, tree, writer, reader, acked, nextId, raced, torn, crashes>>
  BY DEF GCStart
<1>6. TypeOK'
  <2>1. gcs' \in 0 .. MaxGCs
    <3>1. gcs \in 0 .. MaxGCs /\ gcs < MaxGCs /\ gcs' = gcs + 1
      BY <1>1 DEF GCStart, TypeOK
    <3> QED BY <3>1, GCAssumption
  <2>2. (IF d = b THEN 0 ELSE Len(file[d])) \in 0 .. DataFileMax
    BY <1>4, Numbers
  <2>3. gc' \in GCStates
    <3> DEFINE w == IF d = b THEN 0 ELSE Len(file[d])
    <3>1. w \in 0 .. DataFileMax /\ (d = b) \in BOOLEAN
      BY <2>2
    <3> HIDE DEF w
    <3>2. gc' = [NoGC EXCEPT !.at = "chunk", !.begin = b, !.end = e, !.src = b, !.dst = d,
                    !.rewriting = (d = b), !.writingHead = w]
      BY <1>2 DEF w
    <3>3. NoGC \in GCStates
      BY Constants, Numbers DEF NoGC, GCStates
    <3> QED BY <1>1, <1>4, <3>1, <3>2, <3>3 DEF GCStates
  <2> QED BY <1>1, <1>5, <2>1, <2>3 DEF TypeOK
<1>7. HeadInv' /\ WriterInv'
  BY <1>1, <1>5 DEF HeadInv, WriterInv, At
<1>8. b <= e /\ e < newHead
  BY <1>1 DEF InRange
<1>9. ShapeInv'
  <2>1. gc'.writingHead <= Len(file[d]) /\ (d # b => gc'.writingHead = Len(file[d]))
    BY <1>3, <1>4
  <2>2. gc'.src <= gc'.end + 1 /\ gc'.begin <= gc'.src /\ gc'.end < newHead' /\ gc'.dst <= gc'.src
    BY <1>1, <1>3, <1>4, <1>5, <1>8
  <2> QED BY <1>1, <1>3, <1>5, <1>8, <2>1, <2>2 DEF ShapeInv
<1>10. ReadInv'
  BY <1>3 DEF ReadInv, Reading
<1> QED BY <1>6, <1>7, <1>9, <1>10 DEF BaseInv

LEMMA AppendBase ==
    ASSUME BaseInv, IdInv, NEW k \in Keys, NEW live \in BOOLEAN, WriteAppend(k, live)
    PROVE  BaseInv'
<1>1. TypeOK /\ HeadInv /\ ShapeInv /\ ReadInv
  BY DEF BaseInv
<1>2. UNCHANGED <<tree, reader, gc, acked, raced, torn, gcs, crashes>> /\ nextId' = nextId + 1 /\ nextId <= MaxWrites
  BY DEF WriteAppend
<1> DEFINE h == newHead'
<1>3. /\ FilesOK' /\ h \in Chunks /\ h >= newHead /\ h <= newHead + 1 /\ newHead \in Nat /\ h \in Nat
      /\ writer'.rec = [key |-> k, id |-> nextId, live |-> live] /\ writer'.rec \in Records
      /\ writer'.at = "tree" /\ writer'.pos = [chunk |-> h, off |-> Len(file'[h]) - 1]
      /\ Len(file'[h]) > 0 /\ Len(file'[h]) \in Nat
      /\ file'[h][Len(file'[h])] = writer'.rec
      /\ \A c \in Chunks : c # h => file'[c] = file[c]
  <2>1. h \in Chunks /\ newHead \in Nat /\ FilesOK'
    <3>1. newHead \in Nat
      BY <1>1, Numbers DEF TypeOK
    <3> QED BY <1>1, <3>1, AppendFiles DEF FilesOK
  <2>2. Len(file'[h]) \in Nat /\ h \in Nat
    BY <2>1, Numbers DEF FilesOK
  <2> QED BY <1>1, <2>1, <2>2, AppendFiles
<1>4. writer' = [at |-> "tree", rec |-> writer'.rec, pos |-> writer'.pos] /\ writer'.pos \in Positions
  BY <1>3 DEF WriteAppend, Positions
<1>5. TypeOK'
  <2>1. nextId' \in 1 .. MaxWrites + 1 /\ newHead' \in 0 .. NumChunks
    BY <1>1, <1>2, <1>3, Numbers DEF TypeOK
  <2>2. writer' \in [at : {"idle", "tree"}, rec : KnownRecords, pos : Positions]
    BY <1>3, <1>4 DEF KnownRecords
  <2> QED BY <1>1, <1>2, <1>3, <2>1, <2>2 DEF TypeOK, FilesOK
<1>6. HeadInv'
  BY <1>1, <1>3, Numbers DEF HeadInv
<1>7. WriterInv'
  <2>1. At(writer.pos)' = writer'.rec
    BY <1>3 DEF At
  <2>2. ASSUME NEW l \in Keys PROVE acked'[l].id < writer'.rec.id
    <3>1. acked[l] \in Known
      BY DEF Known
    <3> QED BY <1>2, <1>3, <3>1 DEF IdInv
  <2> QED BY <1>3, <2>1, <2>2 DEF WriterInv
<1>8. ASSUME gc.at # "idle"
      PROVE  /\ \A c \in Chunks : c <= gc.end => file'[c] = file[c]
             /\ gc.end < newHead' /\ file'[gc.dst] = file[gc.dst]
             /\ \A c \in Chunks : c < gc.src => file'[c] = file[c]
  <2>1. gc.end < h /\ gc.dst <= gc.end /\ gc.src <= gc.end + 1
    <3>1. /\ gc.end < newHead /\ gc.src <= gc.end + 1 /\ gc.dst <= gc.src
          /\ gc.dst = gc.src => gc.src <= gc.end
      BY <1>1, <1>8 DEF ShapeInv
    <3>2. gc.end \in Nat /\ gc.dst \in Nat /\ gc.src \in Nat
      BY <1>1, GCParts
    <3> QED BY <1>1, <1>3, <3>1, <3>2
  <2>2. gc.end \in Nat /\ gc.dst \in Chunks /\ gc.dst \in Nat /\ gc.src \in Nat
    BY <1>1, GCParts
  <2>3. ASSUME NEW c \in Chunks, c <= gc.end PROVE c # h
    BY <1>3, <2>1, <2>2, <2>3, Numbers
  <2>4. ASSUME NEW c \in Chunks, c < gc.src PROVE c # h
    BY <1>3, <2>1, <2>2, <2>4, Numbers
  <2> QED BY <1>3, <2>1, <2>2, <2>3, <2>4
<1>9. ShapeInv'
  BY <1>1, <1>2, <1>8, GCParts DEF ShapeInv
<1>10. ReadInv'
  <2> SUFFICES ASSUME Reading PROVE ReadInv'
    BY <1>2 DEF ReadInv, Reading
  <2>1. gc.src <= gc.end /\ gc.src \in Chunks /\ gc.at # "idle"
    BY <1>1, GCParts, Numbers DEF ReadInv, Reading
  <2>2. file'[gc.src] = file[gc.src] /\ file'[gc.dst] = file[gc.dst]
    BY <1>8, <2>1
  <2>3. At(OldPos)' = At(OldPos)
    BY <1>2, <2>2 DEF At, OldPos
  <2>4. gc.at \in {"getpos", "setpos"} => At(gc.newPos)' = At(gc.newPos)
    BY <1>1, <1>2, <2>2 DEF At, ReadInv
  <2> QED BY <1>1, <1>2, <2>2, <2>3, <2>4 DEF ReadInv, Reading
<1> QED BY <1>5, <1>6, <1>7, <1>9, <1>10 DEF BaseInv

LEMMA TreeBase ==
    ASSUME BaseInv, WriteTree
    PROVE  BaseInv'
<1>1. TypeOK /\ HeadInv /\ WriterInv /\ ShapeInv /\ ReadInv /\ writer.rec \in Records /\ writer.pos \in Positions
  BY DEF BaseInv, WriteTree, WriterInv, TypeOK
<1>2. UNCHANGED <<file, newHead, reader, gc, nextId, torn, gcs, crashes>> /\ writer' = NoWrite
  BY DEF WriteTree
<1>3. writer.rec.key \in Keys /\ writer.rec.live \in BOOLEAN
  BY <1>1 DEF Records
<1>4. tree' \in [Keys -> Items] /\ acked' \in [Keys -> KnownRecords] /\ raced' \subseteq Keys
  <2>1. [pos |-> writer.pos, live |-> writer.rec.live, found |-> TRUE] \in Items
    BY <1>1, <1>3 DEF Items
  <2>2. writer.rec \in KnownRecords
    BY <1>1 DEF KnownRecords
  <2> QED BY <1>1, <1>3, <2>1, <2>2 DEF WriteTree, TypeOK
<1>5. NoWrite \in [at : {"idle", "tree"}, rec : KnownRecords, pos : Positions] /\ NoWrite.at = "idle"
  BY Constants DEF NoWrite
<1>6. TypeOK'
  BY <1>1, <1>2, <1>4, <1>5 DEF TypeOK
<1>7. HeadInv' /\ WriterInv' /\ ShapeInv' /\ ReadInv'
  BY <1>1, <1>2, <1>5 DEF HeadInv, WriterInv, ShapeInv, ReadInv, Reading, At, OldPos
<1> QED BY <1>6, <1>7 DEF BaseInv

LEMMA ReaderBase ==
    ASSUME BaseInv, (\E k \in Keys : ReadTree(k)) \/ ReadFile \/ ReadReturn
    PROVE  BaseInv'
<1>1. TypeOK /\ HeadInv /\ WriterInv /\ ShapeInv /\ ReadInv
  BY DEF BaseInv
<1>2. UNCHANGED <<file, newHead, tree, writer, gc, acked, nextId, raced, torn, gcs, crashes>>
  BY DEF ReadTree, ReadFile, ReadReturn
<1> DEFINE R == [at : {"idle", "file", "done"}, key : Keys, item : Items,
                 floor : KnownRecords, got : KnownRecords \cup {Failed}]
<1>3. reader' \in R
  <2>1. ASSUME NEW k \in Keys, ReadTree(k) PROVE reader' \in R
    <3>1. tree[k] \in Items /\ acked[k] \in KnownRecords
      BY <1>1 DEF TypeOK
    <3> QED BY <2>1, <3>1, Constants DEF ReadTree
  <2>2. ASSUME ReadFile PROVE reader' \in R
    <3> DEFINE q == reader.item.pos
               g == IF HasRecord(q) /\ At(q).key = reader.key THEN At(q) ELSE Failed
    <3>1. reader \in R /\ q \in Positions
      BY <1>1 DEF TypeOK, Items
    <3>2. g \in KnownRecords \cup {Failed}
      <4>1. q.chunk \in Chunks /\ q.off \in Nat
        BY <3>1 DEF Positions
      <4>2. HasRecord(q) => At(q) \in Records
        BY <1>1, <4>1, FileParts DEF HasRecord, At
      <4> QED BY <4>2 DEF KnownRecords
    <3>3. reader' = [reader EXCEPT !.at = "done", !.got = g]
      BY <2>2 DEF ReadFile
    <3> HIDE DEF g
    <3> QED BY <3>1, <3>2, <3>3
  <2>3. ASSUME ReadReturn PROVE reader' \in R
    BY <2>3, Constants DEF ReadReturn, NoRead
  <2> QED BY <2>1, <2>2, <2>3
<1>4. TypeOK'
  BY <1>1, <1>2, <1>3 DEF TypeOK
<1>5. HeadInv' /\ WriterInv' /\ ShapeInv' /\ ReadInv'
  BY <1>1, <1>2 DEF HeadInv, WriterInv, ShapeInv, ReadInv, Reading, At, OldPos
<1> QED BY <1>4, <1>5 DEF BaseInv

\* What the steps of gc that leave the files alone do.
LEMMA QuietBase ==
    ASSUME BaseInv, GCCancel \/ GCChunk \/ GCRead \/ GCReadFails \/ GCGetPos \/ GCSetPos
    PROVE  BaseInv'
<1>1. TypeOK /\ HeadInv /\ WriterInv /\ ShapeInv /\ ReadInv
  BY DEF BaseInv
<1>2. UNCHANGED <<file, newHead, writer, reader, acked, nextId, raced, gcs, crashes>>
  BY DEF GCCancel, GCChunk, GCRead, GCReadFails, GCGetPos, GCSetPos
<1>3. HeadInv' /\ WriterInv'
  BY <1>1, <1>2 DEF HeadInv, WriterInv, At
<1>4. gc \in GCStates /\ tree \in [Keys -> Items] /\ torn \in BOOLEAN
  BY <1>1 DEF TypeOK
<1>5. SUFFICES gc' \in GCStates /\ tree' \in [Keys -> Items] /\ torn' \in BOOLEAN /\ ShapeInv' /\ ReadInv'
  BY <1>1, <1>2, <1>3 DEF BaseInv, TypeOK
<1>6. CASE GCCancel
  <2>1. gc' = [gc EXCEPT !.cancel = TRUE] /\ UNCHANGED <<tree, torn>>
    BY <1>6 DEF GCCancel
  <2> QED BY <1>1, <1>2, <1>4, <2>1 DEF GCStates, ShapeInv, ReadInv, Reading, At, OldPos
<1>7. CASE GCChunk
  <2>1. UNCHANGED tree /\ torn' \in BOOLEAN /\ (torn => torn') /\ (gc.cancel /\ Unread => torn') /\ gc.at = "chunk"
    BY <1>4, <1>7 DEF GCChunk
  <2>2. CASE gc.cancel \/ gc.src > gc.end
    <3>1. gc' = [gc EXCEPT !.at = "after"]
      BY <1>7, <2>2 DEF GCChunk
    <3>2. gc.dst = gc.src => torn'
      BY <1>1, <2>1, <2>2, GCParts DEF ShapeInv, Unread
    <3> QED BY <1>1, <1>2, <1>4, <2>1, <3>1, <3>2 DEF GCStates, ShapeInv, ReadInv, Reading
  <2>3. CASE ~(gc.cancel \/ gc.src > gc.end)
    <3>1. gc.src <= gc.end /\ gc.src \in Nat /\ gc.end \in Nat /\ gc.src \in Chunks /\ gc.src + 1 \in 0 .. NumChunks
      BY <1>1, <2>3, GCParts, Numbers
    <3>2. CASE file[gc.src] = << >>
      <4>1. gc' = [gc EXCEPT !.src = @ + 1]
        BY <1>7, <2>3, <3>2 DEF GCChunk
      <4>2. gc' \in GCStates
        BY <1>4, <3>1, <4>1 DEF GCStates
      <4>3. /\ gc'.at = "chunk" /\ gc'.src = gc.src + 1 /\ gc'.begin = gc.begin /\ gc'.end = gc.end
            /\ gc'.dst = gc.dst /\ gc'.writingHead = gc.writingHead /\ gc'.rewriting = gc.rewriting
        BY <1>4, <2>1, <4>1 DEF GCStates
      <4>4. ASSUME NEW c \in Chunks, gc.dst < c, c < gc.src + 1 PROVE file[c] = << >>
        <5>1. c = gc.src \/ c < gc.src
          BY <3>1, <4>4, Numbers
        <5> QED BY <1>1, <2>1, <3>2, <4>4, <5>1 DEF ShapeInv
      <4>5. /\ gc.begin <= gc.src + 1 /\ gc.src + 1 <= gc.end + 1 /\ gc.dst # gc.src + 1 /\ gc.dst <= gc.src + 1
        BY <1>1, <2>1, <3>1, GCParts DEF ShapeInv
      <4>6. ShapeInv'
        BY <1>1, <1>2, <2>1, <4>3, <4>4, <4>5 DEF ShapeInv
      <4> QED BY <2>1, <1>4, <4>2, <4>3, <4>6 DEF ReadInv, Reading
    <3>3. CASE file[gc.src] # << >>
      <4>1. gc' = [gc EXCEPT !.at = "read", !.off = 0]
        BY <1>7, <2>3, <3>3 DEF GCChunk
      <4>2. gc' \in GCStates
        BY <1>4, <4>1 DEF GCStates
      <4>3. /\ gc'.at = "read" /\ gc'.src = gc.src /\ gc'.begin = gc.begin /\ gc'.end = gc.end /\ gc'.off = 0
            /\ gc'.dst = gc.dst /\ gc'.writingHead = gc.writingHead /\ gc'.rewriting = gc.rewriting
        BY <1>4, <4>1 DEF GCStates
      <4>4. ShapeInv'
        BY <1>1, <1>2, <2>1, <4>3 DEF ShapeInv
      <4>5. 0 <= Len(file[gc.src])
        BY <1>1, <3>1, FileParts
      <4>6. ReadInv'
        BY <1>1, <1>2, <2>1, <3>1, <4>3, <4>5 DEF ReadInv, ShapeInv
      <4> QED BY <1>4, <2>1, <4>2, <4>4, <4>6
    <3> QED BY <3>2, <3>3
  <2> QED BY <2>2, <2>3
<1>8. CASE GCRead
  <2> DEFINE r == At(OldPos)
  <2>1. UNCHANGED <<tree, torn>> /\ gc.at = "read" /\ gc.off < Len(file[gc.src])
    BY <1>8 DEF GCRead
  <2>2. gc.src <= gc.end /\ (gc.dst = gc.src => gc.writingHead <= gc.off) /\ gc.off \in Nat /\ gc.src \in Chunks
    BY <1>1, <2>1, GCParts, Numbers DEF ReadInv, Reading
  <2>3. r \in Records /\ Len(file[gc.src]) \in Nat
    BY <1>1, <2>1, <2>2, FileParts DEF At, OldPos
  <2>4. r.key \in Keys /\ r.live \in BOOLEAN /\ tree[r.key] \in Items
    BY <1>4, <2>3 DEF Records
  <2>5. CASE IsNewest(r)
    <3>1. gc' = [gc EXCEPT !.at = "place", !.rec = r, !.found = tree[r.key].found]
      BY <1>8, <2>5 DEF GCRead
    <3>2. gc' \in GCStates
      BY <1>4, <2>3, <2>4, <3>1 DEF GCStates, Items, KnownRecords
    <3>3. /\ gc'.at = "place" /\ gc'.src = gc.src /\ gc'.begin = gc.begin /\ gc'.end = gc.end /\ gc'.off = gc.off
          /\ gc'.dst = gc.dst /\ gc'.writingHead = gc.writingHead /\ gc'.rewriting = gc.rewriting
          /\ gc'.rec = r /\ gc'.found = tree[r.key].found
      BY <1>4, <3>1 DEF GCStates
    <3>4. ~tree[r.key].found => gc.begin > 0 /\ ~r.live
      BY <2>5 DEF IsNewest
    <3>5. At(OldPos)' = r
      BY <1>2, <3>3 DEF At, OldPos
    <3> HIDE DEF r
    <3>6. ShapeInv'
      BY <1>1, <1>2, <2>1, <3>3 DEF ShapeInv
    <3>7. ReadInv'
      BY <1>1, <1>2, <2>1, <2>2, <2>3, <3>3, <3>4, <3>5, GCParts DEF ReadInv, Reading
    <3> QED BY <1>4, <2>1, <3>2, <3>6, <3>7
  <2>6. CASE ~IsNewest(r)
    <3>1. gc' = [gc EXCEPT !.off = @ + 1]
      BY <1>8, <2>6 DEF GCRead
    <3>2. gc' \in GCStates
      BY <1>4, <2>2, <3>1 DEF GCStates
    <3>3. /\ gc'.at = "read" /\ gc'.src = gc.src /\ gc'.begin = gc.begin /\ gc'.end = gc.end
          /\ gc'.off = gc.off + 1
          /\ gc'.dst = gc.dst /\ gc'.writingHead = gc.writingHead /\ gc'.rewriting = gc.rewriting
      BY <1>4, <2>1, <3>1 DEF GCStates
    <3>4. ShapeInv'
      BY <1>1, <1>2, <2>1, <3>3 DEF ShapeInv
    <3>5. gc.off + 1 <= Len(file[gc.src]) /\ (gc.dst = gc.src => gc.writingHead <= gc.off + 1)
      BY <1>1, <2>1, <2>2, <2>3, GCParts
    <3>6. ReadInv'
      BY <1>1, <1>2, <2>1, <2>2, <3>3, <3>5, GCParts DEF ReadInv, Reading
    <3> QED BY <1>4, <2>1, <3>2, <3>4, <3>6
  <2> QED BY <2>5, <2>6
<1>9. ASSUME gc.at \in {"getpos", "setpos"}, gc' = [gc EXCEPT !.at = "read", !.off = @ + 1], UNCHANGED torn
      PROVE  gc' \in GCStates /\ ShapeInv' /\ ReadInv'
  <2>1. gc' \in GCStates
    <3>1. gc.off + 1 \in Nat
      BY <1>1, GCParts
    <3> QED BY <1>4, <1>9, <3>1 DEF GCStates
  <2>2. /\ gc'.at = "read" /\ gc'.src = gc.src /\ gc'.begin = gc.begin /\ gc'.end = gc.end
        /\ gc'.off = gc.off + 1
        /\ gc'.dst = gc.dst /\ gc'.writingHead = gc.writingHead /\ gc'.rewriting = gc.rewriting
    BY <1>4, <1>9 DEF GCStates
  <2>3. ShapeInv'
    BY <1>1, <1>2, <1>9, <2>2 DEF ShapeInv
  <2>4. /\ gc.src <= gc.end /\ gc.off < Len(file[gc.src]) /\ (gc.dst = gc.src => gc.writingHead <= gc.off + 1)
    BY <1>1, <1>9 DEF ReadInv, Reading
  <2>5. gc.off + 1 <= Len(file[gc.src]) /\ gc.off + 1 + 0 = gc.off + 1
    <3>1. gc.src \in Chunks /\ gc.off \in Nat
      BY <1>1, <2>4, GCParts, Numbers
    <3> QED BY <1>1, <2>4, <3>1, FileParts
  <2>6. ReadInv'
    BY <1>1, <1>2, <2>2, <2>4, <2>5, GCParts DEF ReadInv, Reading
  <2> QED BY <2>1, <2>3, <2>6
<1>10. CASE GCGetPos
  <2>1. UNCHANGED <<tree, torn>> /\ gc.at = "getpos"
    BY <1>10 DEF GCGetPos
  <2>2. CASE tree[gc.rec.key].found
    <3>1. gc' = [gc EXCEPT !.at = "setpos", !.live = tree[gc.rec.key].live]
      BY <1>10, <2>2 DEF GCGetPos
    <3>2. tree[gc.rec.key].live \in BOOLEAN
      BY <1>1, <1>4, GCParts, RecordParts DEF Items
    <3>3. gc' \in GCStates
      BY <1>4, <3>1, <3>2 DEF GCStates
    <3>4. /\ gc'.at = "setpos" /\ gc'.src = gc.src /\ gc'.begin = gc.begin /\ gc'.end = gc.end
          /\ gc'.off = gc.off /\ gc'.newPos = gc.newPos /\ gc'.rec = gc.rec /\ gc'.found = gc.found
          /\ gc'.dst = gc.dst /\ gc'.writingHead = gc.writingHead /\ gc'.rewriting = gc.rewriting
      BY <1>4, <3>1 DEF GCStates
    <3>5. At(OldPos)' = At(OldPos) /\ At(gc.newPos)' = At(gc.newPos)
      BY <1>2, <3>4 DEF At, OldPos
    <3>6. ShapeInv'
      BY <1>1, <1>2, <2>1, <3>4 DEF ShapeInv
    <3>7. ReadInv'
      BY <1>1, <1>2, <2>1, <3>4, <3>5 DEF ReadInv, Reading
    <3> QED BY <1>4, <2>1, <3>3, <3>6, <3>7
  <2>3. CASE ~tree[gc.rec.key].found
    <3>1. gc' = [gc EXCEPT !.at = "read", !.off = @ + 1]
      BY <1>10, <2>3 DEF GCGetPos
    <3> QED BY <1>4, <1>9, <2>1, <3>1
  <2> QED BY <2>2, <2>3
<1>11. CASE GCSetPos
  <2>1. /\ gc.at = "setpos" /\ gc' = [gc EXCEPT !.at = "read", !.off = @ + 1] /\ UNCHANGED torn
        /\ tree' = [tree EXCEPT ![gc.rec.key] = [pos |-> gc.newPos, live |-> gc.live, found |-> TRUE]]
    BY <1>11 DEF GCSetPos
  <2>2. [pos |-> gc.newPos, live |-> gc.live, found |-> TRUE] \in Items
    BY <1>4 DEF GCStates, Items
  <2>3. tree' \in [Keys -> Items]
    BY <1>4, <2>1, <2>2
  <2> QED BY <1>4, <1>9, <2>1, <2>3
<1>12. CASE GCReadFails
  <2>1. UNCHANGED tree /\ torn' \in BOOLEAN /\ (torn => torn') /\ (Unread => torn') /\ gc.at # "idle"
        /\ gc' = [gc EXCEPT !.at = "after"]
    BY <1>4, <1>12 DEF GCReadFails, Unread
  <2>2. gc.dst = gc.src => torn'
    BY <1>1, <2>1 DEF ShapeInv, Unread
  <2> QED BY <1>1, <1>2, <1>4, <2>1, <2>2 DEF GCStates, ShapeInv, ReadInv, Reading
<1> QED BY <1>6, <1>7, <1>8, <1>10, <1>11, <1>12

\* The destination is full, so that endGCWriting cuts nothing, and it is not the
\* source, in which copies are never ahead of what was read.
LEMMA NextDstFiles ==
    ASSUME BaseInv, GCNextDst \/ GCNextDstFails
    PROVE  /\ file' = file /\ gc.dst < gc.src /\ gc.writingHead = Len(file[gc.dst]) /\ gc.dst + 1 \in Chunks
           /\ gc.writingHead = DataFileMax /\ gc.at = "place"
           /\ UNCHANGED <<newHead, tree, writer, reader, acked, nextId, raced, gcs, crashes>>
           /\ torn' \in BOOLEAN /\ (torn => torn') /\ gc' \in GCStates
           /\ gc'.at = "place" \/ (gc'.at = "after" /\ (gc.dst + 1 = gc.src => torn'))
           /\ gc'.src = gc.src /\ gc'.begin = gc.begin /\ gc'.end = gc.end /\ gc'.off = gc.off
           /\ gc'.rec = gc.rec /\ gc'.found = gc.found /\ gc'.live = gc.live
           /\ gc'.dst = gc.dst + 1 /\ (gc'.rewriting <=> gc.dst + 1 = gc.src)
           /\ gc'.writingHead = IF gc.dst + 1 = gc.src THEN 0 ELSE Len(file[gc.dst + 1])
<1>1. /\ TypeOK /\ gc.at = "place" /\ gc.writingHead >= DataFileMax /\ gc.dst + 1 \in Chunks
      /\ gc.writingHead <= Len(file[gc.dst]) /\ gc.dst <= gc.src
      /\ UNCHANGED <<newHead, tree, writer, reader, acked, nextId, raced, gcs, crashes>>
  BY DEF BaseInv, GCNextDst, GCNextDstFails, ShapeInv
<1>2. /\ gc.dst \in Chunks /\ gc.writingHead \in Nat /\ Len(file[gc.dst]) \in Nat /\ Len(file[gc.dst]) <= DataFileMax
      /\ DataFileMax \in Nat
  BY <1>1, GCParts, FileParts, Numbers
<1>3. gc.writingHead = Len(file[gc.dst]) /\ gc.writingHead = DataFileMax
  BY <1>1, <1>2
<1>4. file' = file
  BY <1>2, <1>3 DEF GCNextDst, GCNextDstFails, EndWriting
<1>5. gc.dst # gc.src
  <2> SUFFICES ASSUME gc.dst = gc.src PROVE FALSE
    OBVIOUS
  <2>1. gc.writingHead <= gc.off + 0 /\ gc.off < Len(file[gc.dst])
    BY <1>1 DEF BaseInv, ReadInv, Reading
  <2> QED BY <1>1, <1>2, <1>3, <2>1, GCParts
<1>6. gc.dst < gc.src
  BY <1>1, <1>5, GCParts
<1> DEFINE d == gc.dst + 1
           w == IF d = gc.src THEN 0 ELSE Len(file[d])
<1>7. w \in 0 .. DataFileMax /\ d \in Chunks
  BY <1>1, FileParts, Numbers
<1>8. gc \in GCStates /\ torn \in BOOLEAN
  BY <1>1 DEF TypeOK
<1>9. CASE GCNextDst
  <2>1. gc' = [gc EXCEPT !.dst = d, !.rewriting = (d = gc.src), !.writingHead = w] /\ torn' = torn
    BY <1>9 DEF GCNextDst, BeginWriting
  <2> HIDE DEF d, w
  <2>2. /\ torn' \in BOOLEAN /\ (torn => torn') /\ gc' \in GCStates /\ gc'.at = "place"
        /\ gc'.src = gc.src /\ gc'.begin = gc.begin /\ gc'.end = gc.end /\ gc'.off = gc.off
        /\ gc'.rec = gc.rec /\ gc'.found = gc.found /\ gc'.live = gc.live
        /\ gc'.dst = d /\ (gc'.rewriting <=> d = gc.src) /\ gc'.writingHead = w
    BY <1>1, <1>7, <1>8, <2>1 DEF GCStates
  <2> QED BY <1>1, <1>3, <1>4, <1>6, <2>2 DEF d, w
<1>10. CASE GCNextDstFails
  <2>1. /\ gc' = [gc EXCEPT !.dst = d, !.rewriting = (d = gc.src), !.writingHead = w, !.at = "after"]
        /\ torn' = (torn \/ d = gc.src)
    BY <1>8, <1>10 DEF GCNextDstFails, BeginWriting, GCStates
  <2> HIDE DEF d, w
  <2>2. /\ torn' \in BOOLEAN /\ (torn => torn') /\ (d = gc.src => torn')
    BY <1>8, <2>1
  <2>3. /\ gc' \in GCStates /\ gc'.at = "after"
        /\ gc'.src = gc.src /\ gc'.begin = gc.begin /\ gc'.end = gc.end /\ gc'.off = gc.off
        /\ gc'.rec = gc.rec /\ gc'.found = gc.found /\ gc'.live = gc.live
        /\ gc'.dst = d /\ (gc'.rewriting <=> d = gc.src) /\ gc'.writingHead = w
    BY <1>7, <1>8, <2>1 DEF GCStates
  <2> QED BY <1>1, <1>3, <1>4, <1>6, <2>2, <2>3 DEF d, w
<1> QED BY <1>9, <1>10

LEMMA NextDstBase ==
    ASSUME BaseInv, GCNextDst \/ GCNextDstFails
    PROVE  BaseInv'
<1>1. TypeOK /\ HeadInv /\ WriterInv /\ ShapeInv /\ ReadInv
  BY DEF BaseInv
<1> DEFINE d == gc.dst + 1
<1>2. /\ UNCHANGED <<file, newHead, tree, writer, reader, acked, nextId, raced, gcs, crashes>>
      /\ gc.at = "place" /\ torn' \in BOOLEAN /\ (torn => torn') /\ d \in Chunks /\ gc.dst < gc.src
      /\ gc' \in GCStates /\ gc'.src = gc.src /\ gc'.begin = gc.begin /\ gc'.end = gc.end
      /\ gc'.off = gc.off /\ gc'.rec = gc.rec /\ gc'.found = gc.found /\ gc'.dst = d
      /\ (gc'.rewriting <=> d = gc.src) /\ gc'.writingHead = IF d = gc.src THEN 0 ELSE Len(file[d])
      /\ gc'.at = "place" \/ (gc'.at = "after" /\ (d = gc.src => torn'))
  BY NextDstFiles
<1>3. Len(file[d]) \in Nat /\ gc.dst \in Nat /\ d \in Nat /\ d > gc.dst /\ gc.src \in Nat
  BY <1>1, <1>2, FileParts, GCParts, Numbers
<1>4. d <= gc.src
  BY <1>2, <1>3
<1> HIDE DEF d
<1>5. TypeOK'
  BY <1>1, <1>2 DEF TypeOK
<1>6. HeadInv' /\ WriterInv'
  BY <1>1, <1>2 DEF HeadInv, WriterInv, At
<1>7. /\ gc'.writingHead <= Len(file[d]) /\ (d # gc.src => gc'.writingHead = Len(file[d]))
      /\ gc.src <= gc.end
  BY <1>1, <1>2, <1>3 DEF ReadInv, Reading
<1>8. ASSUME NEW c \in Chunks, d < c, c < gc.src PROVE file[c] = << >>
  BY <1>1, <1>2, <1>3, <1>8, Numbers DEF ShapeInv
<1>9. ShapeInv'
  BY <1>1, <1>2, <1>4, <1>7, <1>8 DEF ShapeInv
<1>10. At(OldPos)' = At(OldPos) /\ (d = gc.src => gc'.writingHead <= gc.off)
  BY <1>1, <1>2, GCParts DEF At, OldPos
<1>11. ReadInv'
  BY <1>1, <1>2, <1>10, GCParts DEF ReadInv, Reading
<1> QED BY <1>5, <1>6, <1>9, <1>11 DEF BaseInv

\* gc does not touch the head.
LEMMA BelowHead ==
    ASSUME BaseInv, gc.at # "idle"
    PROVE  gc.dst < newHead /\ gc.dst <= gc.end /\ (Reading => gc.src < newHead) /\ newHead \in Nat
<1>1. newHead \in Nat
  BY Numbers DEF BaseInv, TypeOK
<1>2. gc.dst <= gc.end
  BY GCParts DEF BaseInv, ShapeInv
<1> QED BY <1>1, <1>2, GCParts DEF BaseInv, ShapeInv, ReadInv

\* Nor, therefore, what HeadInv and WriterInv speak of.
LEMMA HeadKept ==
    ASSUME BaseInv, UNCHANGED <<newHead, acked>>, newHead \in Chunks => file'[newHead] = file[newHead],
           \A c \in Chunks : file[c] = << >> => file'[c] = << >> \/ c <= newHead,
           UNCHANGED writer
    PROVE  HeadInv' /\ WriterInv'
<1>1. HeadInv'
  <2> SUFFICES ASSUME NEW c \in Chunks, c > newHead PROVE file'[c] = << >>
    BY DEF HeadInv
  <2>1. newHead \in Nat /\ c \in Nat
    BY Numbers DEF BaseInv, TypeOK
  <2> QED BY <2>1 DEF BaseInv, HeadInv
<1>2. WriterInv'
  BY DEF BaseInv, WriterInv, At
<1> QED BY <1>1, <1>2

LEMMA PlaceBase ==
    ASSUME BaseInv, GCPlace
    PROVE  BaseInv'
<1> DEFINE w == gc.writingHead
           d == gc.dst
<1>1. TypeOK /\ ShapeInv /\ ReadInv /\ gc.at = "place" /\ Reading /\ w < DataFileMax
  BY DEF BaseInv, GCPlace, Reading
<1>2. UNCHANGED <<newHead, tree, writer, reader, acked, nextId, raced, torn, gcs, crashes>>
  BY DEF GCPlace
<1>3. gc' = [gc EXCEPT !.writingHead = w + 1, !.newPos = NewSlot,
                !.at = IF gc.found THEN "getpos" ELSE "read",
                !.off = IF gc.found THEN gc.off ELSE gc.off + 1]
  BY DEF GCPlace, NewSlot
<1>4. /\ d \in Chunks /\ w \in Nat /\ gc.off \in Nat /\ gc.found \in BOOLEAN /\ gc.src \in Chunks /\ d \in Nat /\ gc.src \in Nat
  BY <1>1, GCParts, Numbers DEF ReadInv
<1>5. gc' \in GCStates
  <2>1. w + 1 \in 0 .. DataFileMax /\ NewSlot \in Positions
    BY <1>1, <1>4, Numbers DEF NewSlot, Positions
  <2>2. gc.off + 1 \in Nat
    BY <1>4
  <2> QED BY <1>1, <1>3, <1>4, <2>1, <2>2 DEF GCStates, TypeOK
<1>6. /\ gc'.src = gc.src /\ gc'.begin = gc.begin /\ gc'.end = gc.end
      /\ gc'.rec = gc.rec /\ gc'.found = gc.found /\ gc'.dst = d /\ gc'.rewriting = gc.rewriting
      /\ gc'.writingHead = w + 1 /\ gc'.newPos = NewSlot
      /\ gc'.at = (IF gc.found THEN "getpos" ELSE "read") /\ gc'.off = IF gc.found THEN gc.off ELSE gc.off + 1
  BY <1>1, <1>3 DEF GCStates, TypeOK
<1>7. PICK p : p = NewSlot
  OBVIOUS
<1>8. /\ FilesOK' /\ p \in Slots /\ HasRecord(p)' /\ At(p)' = gc.rec /\ KeptBut(p)
      /\ \A c \in Chunks : c # d => file'[c] = file[c]
      /\ w + 1 <= Len(file'[d]) /\ Len(file[d]) <= Len(file'[d])
      /\ w = Len(file[d]) => Len(file'[d]) = w + 1
  BY <1>7, PlaceFiles
<1>9. TypeOK'
  BY <1>1, <1>2, <1>5, <1>8 DEF TypeOK, FilesOK
<1>10. d < newHead /\ newHead \in Nat
  BY <1>1, BelowHead
<1>11. HeadInv' /\ WriterInv'
  <2>1. ASSUME NEW c \in Chunks PROVE file'[c] = file[c] \/ c <= newHead
    BY <1>4, <1>8, <1>10
  <2> QED BY <1>2, <1>4, <1>8, <1>10, <2>1, HeadKept
<1>12. ShapeInv'
  <2>1. ASSUME NEW c \in Chunks, d < c, c < gc.src PROVE file'[c] = << >>
    BY <1>1, <1>4, <1>8, <2>1, Numbers DEF ShapeInv
  <2>2. ~gc.rewriting => w + 1 = Len(file'[d])
    BY <1>1, <1>8 DEF ShapeInv
  <2>3. gc'.at # "chunk" /\ gc'.at # "after"
    BY <1>6
  <2> QED BY <1>1, <1>2, <1>6, <1>8, <2>1, <2>2, <2>3 DEF ShapeInv
<1>13. ReadInv'
  <2>1. /\ gc.src <= gc.end /\ gc.off < Len(file[gc.src]) /\ gc.rec = At(OldPos)
        /\ d = gc.src => w <= gc.off
        /\ Len(file[gc.src]) \in Nat /\ w <= Len(file[d])
    BY <1>1, <1>4, GCParts, FileParts DEF ReadInv, Reading, ShapeInv
  <2>2. Len(file'[gc.src]) >= gc.off + 1 /\ gc.off < Len(file'[gc.src]) /\ Len(file'[gc.src]) \in Nat
    <3>1. Len(file'[gc.src]) \in Nat
      BY <1>4, <1>8 DEF FilesOK
    <3>2. Len(file'[gc.src]) >= Len(file[gc.src])
      BY <1>4, <1>8, <2>1
    <3> QED BY <1>4, <2>1, <3>1, <3>2
  <2>3. gc.found => At(OldPos)' = gc.rec
    <3> SUFFICES ASSUME gc.found PROVE At(OldPos)' = gc.rec
      OBVIOUS
    <3>1. OldPos' = OldPos
      BY <1>6 DEF OldPos
    <3>2. PICK o : o = OldPos
      OBVIOUS
    <3>3. o \in Slots /\ HasRecord(o)
      BY <1>1, <1>4, <2>1, <3>2, IsSlot DEF OldPos, HasRecord
    <3>4. At(o)' = gc.rec
      BY <1>8, <2>1, <3>2, <3>3 DEF KeptBut
    <3>5. At(OldPos)' = At(o)'
      BY <3>1, <3>2 DEF At
    <3> QED BY <3>4, <3>5
  <2>4. At(gc.newPos)' = gc.rec
    BY <1>6, <1>7, <1>8 DEF At
  <2>5. CASE gc.found
    <3>1. gc'.at = "getpos" /\ gc'.off = gc.off
      BY <1>6, <2>5
    <3>2. d = gc.src => w + 1 <= gc.off + 1
      BY <1>4, <2>1
    <3>3. NewSlot = [chunk |-> d, off |-> w + 1 - 1] /\ w + 1 > 0 /\ gc.off <= Len(file'[gc.src])
      BY <1>4, <2>2 DEF NewSlot
    <3>4. /\ gc'.found /\ gc'.writingHead > 0 /\ At(gc.newPos)' = gc'.rec /\ At(OldPos)' = gc'.rec
          /\ gc'.newPos = [chunk |-> gc'.dst, off |-> gc'.writingHead - 1]
      <4>1. gc'.found
        BY <1>6, <2>5
      <4>2. gc'.writingHead > 0 /\ gc'.newPos = [chunk |-> gc'.dst, off |-> gc'.writingHead - 1]
        <5>1. gc'.writingHead = w + 1 /\ gc'.newPos = NewSlot /\ gc'.dst = d
          BY <1>6
        <5>2. gc'.writingHead - 1 = w /\ gc'.writingHead > 0
          BY <1>4, <5>1
        <5> QED BY <5>1, <5>2 DEF NewSlot
      <4>3. At(gc.newPos)' = gc'.rec /\ At(OldPos)' = gc'.rec
        BY <1>6, <2>3, <2>4, <2>5
      <4> QED BY <4>1, <4>2, <4>3
    <3>5. /\ gc'.src <= gc'.end /\ gc'.off <= Len(file'[gc'.src]) /\ gc'.off < Len(file'[gc'.src])
          /\ gc'.dst = gc'.src => gc'.writingHead <= gc'.off + 1
      BY <1>6, <2>1, <2>2, <3>1, <3>2, <3>3
    <3> QED BY <3>1, <3>4, <3>5 DEF ReadInv, Reading
  <2>6. CASE ~gc.found
    <3>1. gc'.at = "read" /\ gc'.off = gc.off + 1
      BY <1>6, <2>6
    <3>2. d = gc.src => w + 1 <= gc.off + 1 + 0
      BY <1>4, <2>1
    <3> QED BY <1>6, <2>1, <2>2, <3>1, <3>2 DEF ReadInv, Reading
  <2> QED BY <1>4, <2>5, <2>6
<1> QED BY <1>9, <1>11, <1>12, <1>13 DEF BaseInv

LEMMA DoneBase ==
    ASSUME BaseInv, GCChunkDone
    PROVE  BaseInv'
<1>1. TypeOK /\ ShapeInv /\ ReadInv /\ gc.at = "read" /\ Reading /\ gc.off = Len(file[gc.src])
  BY DEF BaseInv, GCChunkDone, Reading
<1>2. UNCHANGED <<newHead, tree, writer, reader, acked, nextId, raced, torn, gcs, crashes>>
  BY DEF GCChunkDone
<1>3. /\ gc.src <= gc.end /\ gc.src \in Chunks /\ gc.src \in Nat /\ gc.end \in Nat /\ gc.dst \in Nat /\ gc.dst \in Chunks
      /\ gc.src + 1 \in 0 .. NumChunks
  BY <1>1, GCParts, Numbers DEF ReadInv
<1>4. gc' = [gc EXCEPT !.at = "chunk", !.src = gc.src + 1]
  BY DEF GCChunkDone
<1>5. gc' \in GCStates
  BY <1>1, <1>3, <1>4 DEF GCStates, TypeOK
<1>6. /\ gc'.at = "chunk" /\ gc'.src = gc.src + 1 /\ gc'.begin = gc.begin /\ gc'.end = gc.end
      /\ gc'.dst = gc.dst /\ gc'.rewriting = gc.rewriting /\ gc'.writingHead = gc.writingHead
  BY <1>1, <1>4 DEF GCStates, TypeOK
<1>7. /\ FilesOK'
      /\ \A c \in Chunks : c # gc.src => file'[c] = file[c]
      /\ gc.src # gc.dst => file'[gc.src] = << >>
      /\ gc.src = gc.dst => file' = file
  BY <1>1, <1>3, DoneFiles
<1>8. TypeOK'
  BY <1>1, <1>2, <1>5, <1>7 DEF TypeOK, FilesOK
<1>9. gc.src < newHead
  BY <1>1, BelowHead
<1>10. HeadInv' /\ WriterInv'
  <2>1. ASSUME NEW c \in Chunks, file[c] = << >> PROVE file'[c] = << >>
    BY <1>3, <1>7, <2>1
  <2> QED BY <1>2, <1>3, <1>7, <1>9, <2>1, HeadKept
<1>11. ShapeInv'
  <2>1. ASSUME NEW c \in Chunks, gc.dst < c, c < gc.src + 1 PROVE file'[c] = << >>
    <3>1. (c = gc.src /\ gc.src # gc.dst) \/ (c < gc.src /\ c # gc.src)
      BY <1>3, <2>1, Numbers
    <3> QED BY <1>1, <1>7, <2>1, <3>1 DEF ShapeInv
  <2>2. file'[gc.dst] = file[gc.dst]
    BY <1>3, <1>7
  <2>3. /\ gc.begin <= gc.src + 1 /\ gc.src + 1 <= gc.end + 1 /\ gc.dst # gc.src + 1 /\ gc.dst <= gc.src + 1
    BY <1>1, <1>3, GCParts DEF ShapeInv
  <2> QED BY <1>1, <1>2, <1>6, <2>1, <2>2, <2>3 DEF ShapeInv
<1>12. ReadInv'
  BY <1>6 DEF ReadInv, Reading
<1> QED BY <1>8, <1>10, <1>11, <1>12 DEF BaseInv

LEMMA AfterBase ==
    ASSUME BaseInv, GCAfter
    PROVE  BaseInv'
<1>1. TypeOK /\ gc.at = "after" /\ file' = EndWriting(gc)
  BY DEF BaseInv, GCAfter
<1>2. UNCHANGED <<newHead, tree, writer, reader, acked, nextId, raced, torn, gcs, crashes>> /\ gc' = NoGC
  BY DEF GCAfter
<1>3. /\ FilesOK' /\ \A c \in Chunks : c # gc.dst => file'[c] = file[c]
      /\ \A c \in Chunks : file[c] = << >> => file'[c] = << >>
  BY <1>1, CutFiles
<1>4. NoGC \in GCStates /\ NoGC.at = "idle"
  BY Constants, Numbers DEF NoGC, GCStates
<1>5. TypeOK'
  BY <1>1, <1>2, <1>3, <1>4 DEF TypeOK, FilesOK
<1>6. gc.dst < newHead /\ gc.dst \in Nat
  BY <1>1, BelowHead, GCParts
<1>7. HeadInv' /\ WriterInv'
  BY <1>2, <1>3, <1>6, HeadKept
<1> QED BY <1>2, <1>4, <1>5, <1>7 DEF BaseInv, ShapeInv, ReadInv, Reading

\* The chunk after the last one with data takes the appends after a restart.
LEMMA CrashBase ==
    ASSUME BaseInv, Crash
    PROVE  BaseInv'
<1>1. TypeOK /\ UNCHANGED <<file, nextId, raced, gcs>> /\ writer' = NoWrite /\ reader' = NoRead /\ gc' = NoGC
  BY DEF BaseInv, Crash
<1>2. newHead' \in 0 .. NumChunks /\ \A c \in Chunks : c > newHead' => file[c] = << >>
  <2>1. newHead' = IF Used = {} THEN 0 ELSE Max(Used) + 1
    BY DEF Crash
  <2>2. CASE Used = {}
    BY <2>1, <2>2, Numbers DEF Used
  <2>3. CASE Used # {}
    <3>1. Used \in SUBSET (0 .. NumChunks) /\ NumChunks \in Nat
      BY Numbers DEF Used
    <3>2. Max(Used) \in Used /\ \A y \in Used : Max(Used) >= y
      BY <2>3, <3>1, MaxIsLargest
    <3> DEFINE m == Max(Used)
    <3> HIDE DEF m
    <3>3. m \in Chunks /\ newHead' = m + 1 /\ m \in Nat /\ m < NumChunks
      BY <2>1, <2>3, <3>2, Numbers DEF Used, m
    <3>4. ASSUME NEW c \in Chunks, c > m + 1 PROVE file[c] = << >>
      <4>1. c \notin Used
        BY <3>2, <3>3, <3>4, Numbers DEF m
      <4> QED BY <4>1 DEF Used
    <3> QED BY <3>1, <3>3, <3>4
  <2> QED BY <2>2, <2>3
<1>3. ASSUME NEW k \in Keys
      PROVE  Rebuilt(k) \in Items /\ acked'[k] \in KnownRecords
  <2> DEFINE q == LastPosition(k)
  <2>1. PositionsOf(k) # {} => q \in PositionsOf(k)
    <3>1. PositionsOf(k) \in SUBSET Slots
      BY DEF PositionsOf, Slots
    <3>2. PositionsOf(k) # {} => \E x \in PositionsOf(k) : \A y \in PositionsOf(k) : ~Before(x, y)
      BY <3>1, LastExists DEF LastOf
    <3> QED BY <3>2 DEF LastPosition
  <2>2. q \in PositionsOf(k) => q \in Slots /\ HasRecord(q)
    BY DEF PositionsOf, Slots
  <2> HIDE DEF q
  <2>3. q \in PositionsOf(k) => q \in Positions /\ At(q) \in KnownRecords
    BY <1>1, <2>2, SlotParts, Numbers DEF Slots, Positions
  <2>4. Rebuilt(k) \in Items
    BY <2>1, <2>3, Constants DEF Rebuilt, Items, q
  <2>5. acked[k] \in KnownRecords
    BY <1>1 DEF TypeOK
  <2>6. acked'[k] = IF PositionsOf(k) # {} /\ At(q).id > acked[k].id THEN At(q) ELSE acked[k]
    BY DEF Crash, q
  <2> QED BY <2>1, <2>3, <2>4, <2>5, <2>6
<1>4. tree' \in [Keys -> Items] /\ acked' \in [Keys -> KnownRecords]
  <2>1. tree' = [k \in Keys |-> Rebuilt(k)] /\ acked' = [k \in Keys |-> acked'[k]]
    BY DEF Crash
  <2> QED BY <1>3, <2>1
<1>5. NoWrite \in [at : {"idle", "tree"}, rec : KnownRecords, pos : Positions] /\ NoWrite.at = "idle"
  BY Constants DEF NoWrite
<1>6. NoRead \in [at : {"idle", "file", "done"}, key : Keys, item : Items,
                 floor : KnownRecords, got : KnownRecords \cup {Failed}]
  BY Constants DEF NoRead
<1>7. NoGC \in GCStates /\ NoGC.at = "idle"
  BY Constants, Numbers DEF NoGC, GCStates
<1>8. crashes' \in 0 .. MaxCrashes /\ torn' \in BOOLEAN
  <2>1. crashes \in 0 .. MaxCrashes /\ crashes < MaxCrashes /\ crashes' = crashes + 1
    BY <1>1 DEF Crash, TypeOK
  <2>2. torn' \in BOOLEAN
    BY DEF Crash
  <2> QED BY <2>1, <2>2, GCAssumption
<1>9. TypeOK'
  BY <1>1, <1>2, <1>4, <1>5, <1>6, <1>7, <1>8 DEF TypeOK
<1> QED BY <1>1, <1>2, <1>5, <1>7, <1>9 DEF BaseInv, HeadInv, WriterInv, ShapeInv, ReadInv, Reading

LEMMA NextBase ==
    ASSUME BaseInv, IdInv, [Next]_vars
    PROVE  BaseInv'
<1>1. CASE UNCHANGED vars
  BY <1>1 DEF vars, BaseInv, TypeOK, HeadInv, WriterInv, ShapeInv, ReadInv, Reading, At, OldPos
<1>2. CASE Next
  BY <1>2, AppendBase, TreeBase, ReaderBase, StartBase, QuietBase, NextDstBase, PlaceBase, DoneBase,
     AfterBase, CrashBase DEF Next
<1> QED BY <1>1, <1>2

LEMMA InitBase == Init => BaseInv
<1> SUFFICES ASSUME Init PROVE BaseInv
  OBVIOUS
<1>1. file \in [Chunks -> Seq(Records)] /\ \A c \in Chunks : Len(file[c]) <= DataFileMax
  BY Numbers DEF Init
<1>2. NoWrite \in [at : {"idle", "tree"}, rec : KnownRecords, pos : Positions] /\ NoWrite.at = "idle"
  BY Constants DEF NoWrite
<1>3. NoRead \in [at : {"idle", "file", "done"}, key : Keys, item : Items,
                 floor : KnownRecords, got : KnownRecords \cup {Failed}]
  BY Constants DEF NoRead
<1>4. NoGC \in GCStates /\ NoGC.at = "idle"
  BY Constants, Numbers DEF NoGC, GCStates
<1>5. tree \in [Keys -> Items] /\ acked \in [Keys -> KnownRecords]
  BY Constants DEF Init
<1>6. TypeOK
  <2>1. nextId \in 1 .. MaxWrites + 1 /\ newHead \in 0 .. NumChunks /\ gcs \in 0 .. MaxGCs /\ crashes \in 0 .. MaxCrashes
    BY GCAssumption DEF Init
  <2> QED BY <1>1, <1>2, <1>3, <1>4, <1>5, <2>1 DEF Init, TypeOK
<1> QED BY <1>2, <1>4, <1>6 DEF Init, BaseInv, HeadInv, WriterInv, ShapeInv, ReadInv, Reading

-----------------------------------------------------------------------------
(* A write is known by its id *)

\* gc's record is in a file.
LEMMA OldSlot ==
    ASSUME BaseInv, gc.at \in {"place", "getpos", "setpos"}
    PROVE  OldPos \in Slots /\ HasRecord(OldPos) /\ At(OldPos) = gc.rec /\ gc.src \in Chunks /\ gc.src <= gc.end
<1>1. /\ gc.src <= gc.end /\ gc.off < Len(file[gc.src]) /\ gc.rec = At(OldPos) /\ gc.off \in Nat /\ gc.src \in Nat
      /\ gc.end \in Chunks /\ gc.end \in Nat
  BY GCParts DEF BaseInv, ReadInv, Reading
<1>2. gc.src \in Chunks
  BY <1>1, Numbers
<1>3. OldPos \in Slots /\ HasRecord(OldPos)
  BY <1>1, <1>2, IsSlot DEF OldPos, HasRecord, BaseInv
<1> QED BY <1>1, <1>2, <1>3

LEMMA StoredShrinks ==
    ASSUME \A q \in Slots : HasRecord(q)' =>
               (HasRecord(q) /\ At(q)' = At(q)) \/ \E x \in Slots : HasRecord(x) /\ At(q)' = At(x)
    PROVE  Stored' \subseteq Stored
BY DEF Stored

LEMMA KnownShrinks ==
    ASSUME IdInv, Stored' \subseteq Stored, \A k \in Keys : acked'[k] \in Known, UNCHANGED nextId
    PROVE  IdInv'
<1>1. Known' \subseteq Known
  BY DEF Known
<1> QED BY <1>1 DEF IdInv

\* Files only lose records, or hold copies.
LEMMA StoredStep ==
    ASSUME BaseInv, [Next]_vars, \A k \in Keys : \A live \in BOOLEAN : ~WriteAppend(k, live)
    PROVE  Stored' \subseteq Stored
<1>1. CASE UNCHANGED file
  BY <1>1, StoredShrinks DEF HasRecord, At
<1>2. CASE GCNextDst \/ GCNextDstFails
  <2>1. file' = file
    BY <1>2, NextDstFiles
  <2> QED BY <1>1, <2>1
<1>3. CASE GCAfter
  <2>1. \A q \in Slots : (HasRecord(q)' => HasRecord(q)) /\ (HasRecord(q)' => At(q)' = At(q))
    BY <1>3, CutFiles DEF GCAfter
  <2> QED BY <2>1, StoredShrinks
<1>4. CASE GCChunkDone
  <2>1. gc.src \in Chunks
    BY <1>4, GCParts, Numbers DEF GCChunkDone, BaseInv, ReadInv, Reading
  <2>2. \A q \in Slots : (HasRecord(q)' => HasRecord(q)) /\ (HasRecord(q)' => At(q)' = At(q))
    BY <1>4, <2>1, DoneFiles DEF BaseInv
  <2> QED BY <2>2, StoredShrinks
<1>5. CASE GCPlace
  <2>1. PICK p : p = NewSlot
    OBVIOUS
  <2>2. HasRecord(p)' /\ At(p)' = gc.rec /\ KeptBut(p)
    BY <1>5, <2>1, PlaceFiles
  <2>3. OldPos \in Slots /\ HasRecord(OldPos) /\ At(OldPos) = gc.rec
    BY <1>5, OldSlot DEF GCPlace
  <2> QED BY <2>2, <2>3, StoredShrinks DEF KeptBut
<1>6. ASSUME Next PROVE UNCHANGED file \/ GCNextDst \/ GCNextDstFails \/ GCAfter \/ GCChunkDone \/ GCPlace
  BY <1>6 DEF Next, WriteTree, ReadTree, ReadFile, ReadReturn, GCStart, GCCancel, GCChunk, GCRead, GCGetPos,
     GCSetPos, GCReadFails, Crash
<1> QED BY <1>1, <1>2, <1>3, <1>4, <1>5, <1>6 DEF vars

\* What a restart takes for acknowledged is in a file.
LEMMA LastSlot ==
    ASSUME NEW k \in Keys, PositionsOf(k) # {}
    PROVE  /\ LastOf(LastPosition(k), PositionsOf(k)) /\ LastPosition(k) \in Slots
           /\ HasRecord(LastPosition(k)) /\ At(LastPosition(k)).key = k
<1>1. PositionsOf(k) \in SUBSET Slots
  BY DEF PositionsOf, Slots
<1>2. \E x \in PositionsOf(k) : \A y \in PositionsOf(k) : ~Before(x, y)
  BY <1>1, LastExists DEF LastOf
<1> DEFINE q == LastPosition(k)
<1>3. q \in PositionsOf(k) /\ \A y \in PositionsOf(k) : ~Before(q, y)
  BY <1>2 DEF LastPosition
<1> HIDE DEF q
<1>4. q \in Slots /\ HasRecord(q) /\ At(q).key = k
  BY <1>3 DEF PositionsOf, Slots
<1> QED BY <1>3, <1>4 DEF LastOf, q

LEMMA IdsStay ==
    ASSUME BaseInv, IdInv, [Next]_vars
    PROVE  IdInv'
<1>1. ASSUME NEW k \in Keys, NEW live \in BOOLEAN, WriteAppend(k, live) PROVE IdInv'
  <2> DEFINE r == [key |-> k, id |-> nextId, live |-> live]
             h == newHead'
  <2>1. /\ TypeOK /\ HeadInv
    BY DEF BaseInv
  <2>2. /\ h \in Chunks /\ Len(file'[h]) = Len(file[h]) + 1 /\ file'[h][Len(file'[h])] = r /\ FilesOK'
        /\ \A c \in Chunks : c # h => file'[c] = file[c]
        /\ \A i \in 1 .. Len(file[h]) : file'[h][i] = file[h][i]
    BY <1>1, <2>1, AppendFiles DEF FilesOK
  <2>3. UNCHANGED acked /\ nextId' = nextId + 1 /\ nextId \in Nat
    BY <1>1, <2>1, Numbers DEF WriteAppend, TypeOK
  <2> HIDE DEF h
  <2>4. Stored' \subseteq Stored \cup {r}
    <3> SUFFICES ASSUME NEW q \in Slots, HasRecord(q)', At(q)' \in Records
                 PROVE  At(q)' = r \/ (HasRecord(q) /\ At(q)' = At(q))
      BY DEF Stored
    <3>1. q.chunk \in Chunks /\ q.off \in Nat /\ q.off < Len(file'[q.chunk]) /\ Len(file[h]) \in Nat
      BY <2>1, <2>2, FileParts, Numbers DEF Slots, HasRecord
    <3>2. CASE q.chunk # h
      BY <2>2, <3>1, <3>2 DEF HasRecord, At
    <3>3. CASE q.chunk = h /\ q.off < Len(file[h])
      <4>1. q.off + 1 \in 1 .. Len(file[h])
        BY <3>1, <3>3
      <4> QED BY <2>2, <3>3, <4>1 DEF HasRecord, At
    <3>4. CASE q.chunk = h /\ ~(q.off < Len(file[h]))
      <4>1. q.off + 1 = Len(file'[h])
        BY <2>2, <3>1, <3>4
      <4> QED BY <2>2, <3>4, <4>1 DEF At
    <3> QED BY <3>2, <3>3, <3>4
  <2>5. Known' \subseteq Known \cup {r} /\ r.id = nextId
    BY <2>3, <2>4 DEF Known
  <2>6. \A x \in Known : x.id \in Int
    <3>1. \A x \in Known : x \in KnownRecords
      BY <2>1 DEF Known, Stored, KnownRecords, TypeOK
    <3> QED BY <3>1, RecordParts
  <2> HIDE DEF r
  <2>7. ASSUME NEW x \in Known' PROVE x.id < nextId'
    BY <2>3, <2>5, <2>6, <2>7 DEF IdInv
  <2>8. ASSUME NEW x \in Known', NEW y \in Known', x.id = y.id PROVE x = y
    BY <2>3, <2>5, <2>6, <2>8 DEF IdInv
  <2> QED BY <2>7, <2>8 DEF IdInv
<1>2. CASE WriteTree
  <2>1. Stored' \subseteq Stored
    BY <1>2, StoredShrinks DEF WriteTree, HasRecord, At
  <2>2. writer.rec \in Stored
    <3>1. /\ writer.at = "tree" /\ newHead \in Chunks /\ Len(file[newHead]) > 0
          /\ writer.pos = [chunk |-> newHead, off |-> Len(file[newHead]) - 1]
          /\ writer.rec \in Records /\ writer.rec = At(writer.pos) /\ Len(file[newHead]) \in Nat
      BY <1>2, FileParts DEF WriteTree, BaseInv, WriterInv
    <3>2. Len(file[newHead]) - 1 \in Nat /\ Len(file[newHead]) - 1 < Len(file[newHead])
      BY <3>1
    <3>3. writer.pos \in Slots /\ HasRecord(writer.pos)
      BY <3>1, <3>2, IsSlot DEF BaseInv, HasRecord
    <3> QED BY <3>1, <3>3 DEF Stored
  <2>3. \A k \in Keys : acked'[k] \in Known
    <3>1. \A k \in Keys : acked'[k] = acked[k] \/ acked'[k] = writer.rec
      BY <1>2 DEF WriteTree, BaseInv, TypeOK
    <3> QED BY <2>2, <3>1 DEF Known
  <2> QED BY <1>2, <2>1, <2>3, KnownShrinks DEF WriteTree
<1>3. CASE Crash
  <2>1. Stored' \subseteq Stored
    BY <1>3, StoredShrinks DEF Crash, HasRecord, At
  <2>2. ASSUME NEW k \in Keys PROVE acked'[k] \in Known
    <3>1. CASE acked'[k] = acked[k]
      BY <3>1 DEF Known
    <3>2. CASE acked'[k] # acked[k]
      <4>1. PositionsOf(k) # {} /\ acked'[k] = At(LastPosition(k))
        BY <1>3, <3>2 DEF Crash
      <4>2. LastPosition(k) \in Slots /\ HasRecord(LastPosition(k)) /\ At(LastPosition(k)) \in Records
        BY <4>1, LastSlot, SlotParts DEF BaseInv
      <4> QED BY <4>1, <4>2 DEF Known, Stored
    <3> QED BY <3>1, <3>2
  <2> QED BY <1>3, <2>1, <2>2, KnownShrinks DEF Crash
<1>4. CASE UNCHANGED <<acked, nextId>> /\ \A k \in Keys : \A live \in BOOLEAN : ~WriteAppend(k, live)
  <2>1. \A k \in Keys : acked'[k] \in Known
    BY <1>4 DEF Known
  <2> QED BY <1>4, <2>1, StoredStep, KnownShrinks
<1>5. ASSUME Next
      PROVE  \/ \E k \in Keys : \E live \in BOOLEAN : WriteAppend(k, live)
             \/ WriteTree \/ Crash \/ UNCHANGED <<acked, nextId>>
  BY <1>5 DEF Next, ReadTree, ReadFile, ReadReturn, GCStart, GCCancel, GCChunk, GCRead, GCNextDst, GCPlace,
     GCGetPos, GCSetPos, GCReadFails, GCNextDstFails, GCChunkDone, GCAfter
<1> QED BY <1>1, <1>2, <1>3, <1>4, <1>5 DEF vars

-----------------------------------------------------------------------------
(* Where the tree leads *)

\* A key's part of the invariant, apart from what gc does to it.
PlaceInv(k) == (tree[k].found => FoundInv(k)) /\ (~tree[k].found => LostInv(k))

LEMMA InSlots ==
    ASSUME NEW k
    PROVE  Current(k) \subseteq Slots /\ Passed(k) \subseteq Slots /\ PositionsOf(k) \subseteq Slots
BY DEF Current, Passed, PositionsOf, Slots

\* A step that leaves the tree, and what must be found behind it, alone.
LEMMA FoundFrame ==
    ASSUME NEW k \in Keys, FoundInv(k), tree'[k] = tree[k], acked'[k] = acked[k], NEW t, t = tree[k].pos,
           t \in Current(k)', At(t)' = At(t),
           \A d \in Seen(k)' : Before(t, d) => d \in Seen(k) /\ (Copied(d)' => Copied(d)),
           \A d \in Seen(k)', q \in Seen(k) :
               Before(t, d) /\ ~Copied(d) /\ q.chunk = d.chunk /\ ~Before(q, d) => q \in Seen(k)' /\ At(q)' = At(q)
    PROVE  FoundInv(k)'
<1>1. /\ At(t) = acked[k] /\ acked[k].live = tree[k].live
      /\ \A d \in Seen(k) : Before(t, d) => ~Copied(d) /\ Again(k, d)
  BY DEF FoundInv
<1>2. tree'[k].pos = t /\ At(tree[k].pos)' = At(t)'
  BY DEF At
<1>3. ASSUME NEW d \in Seen(k)', Before(t, d) PROVE ~Copied(d)' /\ Again(k, d)'
  <2>1. d \in Seen(k) /\ ~Copied(d) /\ ~Copied(d)' /\ Again(k, d)
    BY <1>1, <1>3
  <2>2. PICK q \in Seen(k) : q.chunk = d.chunk /\ ~Before(q, d) /\ At(q) = acked[k]
    BY <2>1 DEF Again
  <2>3. q \in Seen(k)' /\ At(q)' = acked'[k]
    BY <1>3, <2>1, <2>2
  <2>4. Again(k, d)'
    BY <2>2, <2>3 DEF Again, Before
  <2> QED BY <2>1, <2>4
<1>4. \A d \in Seen(k)' : Before(tree[k].pos, d)' => ~Copied(d)' /\ Again(k, d)'
  BY <1>2, <1>3 DEF Before
<1> QED BY <1>1, <1>2, <1>4 DEF FoundInv

\* A step that leaves the current positions of k alone and takes away, of those
\* that gc has passed, the first ones or all.
LEMMA Frame ==
    ASSUME NEW k \in Keys, PlaceInv(k), tree'[k] = tree[k], acked'[k] = acked[k],
           \A q \in Slots : q \in Current(k)' <=> q \in Current(k),
           \A q \in Current(k) : At(q)' = At(q),
           \A q \in Slots : q \in Passed(k)' => q \in Passed(k) /\ At(q)' = At(q),
           \A x \in Passed(k), y \in Passed(k)' : x \in Passed(k)' \/ Before(x, y),
           \A q \in Seen(k)' : Copied(q)' => Copied(q),
           \A x \in Passed(k), y \in Seen(k)' :
               x \in Passed(k)' \/ Before(x, y) \/ x.chunk # y.chunk \/ Copied(y),
           ~tree[k].found /\ gc'.at # "idle" /\ gc'.begin = 0 => \A q \in Current(k) : ~Before(q, Cursor')
    PROVE  PlaceInv(k)'
<1>1. Current(k)' = Current(k)
  BY InSlots DEF Current, PositionsOf, Slots
<1>2. Passed(k)' \subseteq Slots /\ Passed(k)' \subseteq Passed(k)
  BY DEF Passed, PositionsOf, Slots
<1> DEFINE C == Current(k)
           P == Passed(k)
           Q == Passed(k)'
<1>3. C \subseteq Slots /\ P \subseteq Slots
  BY InSlots
<1> HIDE DEF C, P, Q
<1>4. \A x \in P, y \in Q : x \in Q \/ Before(x, y)
  BY DEF P, Q
<1>6. ASSUME NEW q \in Slots, LastOf(q, C \cup Q) PROVE LastOf(q, C) \/ LastOf(q, C \cup P)
  <2>1. q \in C \cup Q /\ \A x \in C \cup Q : ~Before(q, x)
    BY <1>6 DEF LastOf
  <2>2. CASE q \in C /\ Q = {}
    BY <2>1, <2>2 DEF LastOf
  <2>3. CASE q \in Q \/ Q # {}
    <3>1. PICK y \in Q : ~Before(q, y)
      BY <2>1, <2>3
    <3>2. ASSUME NEW x \in P PROVE ~Before(q, x)
      <4>1. x \in Slots /\ y \in Slots
        BY <1>2, <1>3 DEF Q
      <4>2. CASE x \in Q
        BY <2>1, <4>2
      <4>3. CASE Before(x, y)
        BY <3>1, <4>1, <4>3, Order, OrderTrans
      <4> QED BY <1>4, <4>2, <4>3
    <3>3. q \in C \cup P
      BY <1>2, <2>1 DEF Q, P
    <3> QED BY <2>1, <3>2, <3>3 DEF LastOf
  <2> QED BY <2>1, <2>2, <2>3
<1>7. \A q \in Q : At(q)' = At(q) /\ q \in Slots
  BY <1>2 DEF Q
<1>8. \A q \in C : At(q)' = At(q)
  BY DEF C
<1>9. ASSUME tree[k].found PROVE FoundInv(k)'
  <2>1. PICK t : t = tree[k].pos
    OBVIOUS
  <2>2. FoundInv(k) /\ t \in C
    BY <1>9, <2>1 DEF PlaceInv, FoundInv, C
  <2>3. t \in Current(k)' /\ At(t)' = At(t)
    BY <1>1, <1>8, <2>2 DEF C
  <2>4. \A d \in Seen(k)' : d \in Seen(k)
    BY <1>1, <1>2 DEF Seen
  <2>5. \A d \in Seen(k)', q \in Seen(k) :
            ~Copied(d) /\ q.chunk = d.chunk /\ ~Before(q, d) => q \in Seen(k)' /\ At(q)' = At(q)
    BY <1>1, <1>7, <1>8 DEF Seen, C, Q
  <2> QED BY <2>1, <2>2, <2>3, <2>4, <2>5, FoundFrame
<1>10. ASSUME ~tree[k].found PROVE LostInv(k)'
  <2>1. /\ ~acked[k].live
        /\ \A q \in Slots : LastOf(q, C) => ~At(q).live
        /\ \A q \in Slots : LastOf(q, C \cup P) => ~At(q).live
    BY <1>10 DEF PlaceInv, LostInv, C, P
  <2>2. ASSUME NEW q \in Slots, LastOf(q, C) PROVE ~(At(q)').live
    BY <1>8, <2>1, <2>2 DEF LastOf
  <2>3. ASSUME NEW q \in Slots, LastOf(q, C \cup Q) PROVE ~(At(q)').live
    <3>1. At(q)' = At(q)
      BY <1>7, <1>8, <2>3 DEF LastOf
    <3> QED BY <1>6, <2>1, <2>3, <3>1
  <2>4. \A q \in Slots : LastOf(q, Current(k))' => ~(At(q)').live
    BY <1>1, <2>2 DEF LastOf, C, Before
  <2>5. \A q \in Slots : LastOf(q, Current(k) \cup Passed(k))' => ~(At(q)').live
    BY <1>1, <2>3 DEF LastOf, C, Q, Before
  <2>6. gc'.at # "idle" /\ gc'.begin = 0 => \A q \in Current(k)' : ~Before(q, Cursor')
    BY <1>1, <1>10
  <2> QED BY <2>1, <2>4, <2>5, <2>6 DEF LostInv
<1> QED BY <1>9, <1>10 DEF PlaceInv

\* A step that leaves both alone.
LEMMA SameFrame ==
    ASSUME NEW k \in Keys, PlaceInv(k), tree'[k] = tree[k], acked'[k] = acked[k],
           \A q \in Slots : (q \in Current(k)' <=> q \in Current(k)) /\ (q \in Passed(k)' <=> q \in Passed(k)),
           \A q \in Slots : q \in Current(k) \/ q \in Passed(k) => At(q)' = At(q),
           \A q \in Slots : Copied(q)' => Copied(q),
           ~tree[k].found /\ gc'.at # "idle" /\ gc'.begin = 0 => \A q \in Current(k) : ~Before(q, Cursor')
    PROVE  PlaceInv(k)'
<1>1. Current(k)' \subseteq Slots /\ Passed(k)' \subseteq Slots
  BY DEF Current, Passed, PositionsOf, Slots
<1>2. Current(k) \subseteq Slots /\ Passed(k) \subseteq Slots
  BY InSlots
<1>3. \A x \in Passed(k) : x \in Passed(k)'
  BY <1>2
<1>4. \A q \in Seen(k)' : Copied(q)' => Copied(q)
  BY <1>1 DEF Seen
<1>5. \A q \in Current(k) : At(q)' = At(q)
  BY <1>2
<1> QED BY <1>3, <1>4, <1>5, Frame

\* Only writes and gc matter.
LEMMA StillKey ==
    ASSUME NEW k \in Keys, KeyInv(k), UNCHANGED <<file, tree, acked, writer, torn, raced>>,
           /\ gc'.at = gc.at /\ gc'.begin = gc.begin /\ gc'.src = gc.src /\ gc'.dst = gc.dst
           /\ gc'.off = gc.off /\ gc'.writingHead = gc.writingHead /\ gc'.rewriting = gc.rewriting
           /\ gc'.rec = gc.rec /\ gc'.found = gc.found /\ gc'.live = gc.live
    PROVE  KeyInv(k)'
<1> SUFFICES ASSUME ~torn, k \notin raced PROVE MoveInv(k)' /\ PlaceInv(k)'
  BY DEF KeyInv, PlaceInv
<1>1. MoveInv(k) /\ PlaceInv(k)
  BY DEF KeyInv, PlaceInv
<1>2. MoveInv(k)'
  BY <1>1 DEF MoveInv, Moving, OldPos
<1>3. ASSUME NEW q \in Slots
      PROVE  /\ q \in Current(k)' <=> q \in Current(k)
             /\ q \in Passed(k)' <=> q \in Passed(k)
             /\ At(q)' = At(q)
             /\ Copied(q)' => Copied(q)
  BY DEF Current, Passed, PositionsOf, HasRecord, At, Past, StaleTail, Pending, Reading, Copied
<1>4. Cursor' = Cursor
  BY DEF Cursor, Reading
<1>5. ~tree[k].found /\ gc'.at # "idle" /\ gc'.begin = 0 => \A q \in Current(k) : ~Before(q, Cursor')
  BY <1>1, <1>4 DEF PlaceInv, LostInv
<1>6. PlaceInv(k)'
  BY <1>1, <1>3, <1>5, SameFrame
<1> QED BY <1>2, <1>6

\* An append adds a record behind everything else that is not in the tree yet.
LEMMA AppendKey ==
    ASSUME BaseInv, NEW k \in Keys, KeyInv(k), NEW l \in Keys, NEW live \in BOOLEAN, WriteAppend(l, live)
    PROVE  KeyInv(k)'
<1>0. /\ UNCHANGED <<tree, reader, gc, acked, raced, torn, gcs, crashes>> /\ writer.at = "idle"
  BY DEF WriteAppend
<1> SUFFICES ASSUME ~torn, k \notin raced PROVE MoveInv(k)' /\ PlaceInv(k)'
  BY <1>0 DEF KeyInv, PlaceInv
<1>1. MoveInv(k) /\ PlaceInv(k)
  BY DEF KeyInv, PlaceInv
<1>2. MoveInv(k)'
  BY <1>0, <1>1 DEF MoveInv, Moving, OldPos
<1>3. PICK h : h = newHead'
  OBVIOUS
<1>4. /\ h \in Chunks /\ h >= newHead /\ Len(file'[h]) = Len(file[h]) + 1
      /\ writer'.at = "tree" /\ writer'.pos = [chunk |-> h, off |-> Len(file'[h]) - 1]
      /\ \A c \in Chunks : c # h => file'[c] = file[c]
      /\ \A i \in 1 .. Len(file[h]) : file'[h][i] = file[h][i]
  BY <1>3, AppendFiles DEF BaseInv
<1>5. Len(file[h]) \in Nat /\ h \in Nat /\ newHead \in Nat
  BY <1>4, FileParts, Numbers DEF BaseInv, TypeOK
<1>6. PICK s : s = [chunk |-> h, off |-> Len(file[h])]
  OBVIOUS
<1>7. writer'.pos = s
  BY <1>4, <1>5, <1>6
<1>8. ~HasRecord(s)
  BY <1>5, <1>6 DEF HasRecord
<1>9. ~Past(s)'
  <2>1. ASSUME Reading PROVE gc.src < newHead /\ gc.src \in Nat
    BY <2>1, BelowHead, GCParts DEF BaseInv, Reading
  <2> QED BY <1>0, <1>4, <1>5, <1>6, <2>1 DEF Past, Reading
<1>10. ASSUME NEW q \in Slots, q # s PROVE (HasRecord(q)' <=> HasRecord(q)) /\ (HasRecord(q) => At(q)' = At(q))
  <2>1. q.chunk \in Chunks /\ q.off \in Nat
    BY Numbers DEF Slots
  <2>2. CASE q.chunk # h
    BY <1>4, <2>1, <2>2 DEF HasRecord, At
  <2>3. CASE q.chunk = h
    <3>1. q.off # Len(file[h])
      BY <1>6, <1>10, <2>3, Order
    <3>2. (q.off < Len(file'[h]) <=> q.off < Len(file[h]))
          /\ (q.off < Len(file[h]) => q.off + 1 \in 1 .. Len(file[h]))
      BY <1>4, <1>5, <2>1, <3>1
    <3> QED BY <1>4, <2>3, <3>2 DEF HasRecord, At
  <2> QED BY <2>2, <2>3
<1>11. \A q \in Slots : /\ ~Pending(q) /\ (Pending(q)' <=> q = s) /\ (Past(q)' <=> Past(q))
                        /\ (StaleTail(q)' <=> StaleTail(q)) /\ (Copied(q)' => Copied(q))
  BY <1>0, <1>4, <1>7 DEF Pending, Past, StaleTail, Reading, Copied
<1>12. ASSUME NEW q \in Slots
       PROVE  /\ q \in Current(k)' <=> q \in Current(k)
              /\ q \in Passed(k)' <=> q \in Passed(k)
              /\ q \in Current(k) \/ q \in Passed(k) => At(q)' = At(q)
  <2>1. q \in PositionsOf(k) <=> HasRecord(q) /\ At(q).key = k
    BY DEF PositionsOf, Slots
  <2>2. q \in PositionsOf(k)' <=> HasRecord(q)' /\ (At(q)').key = k
    BY DEF PositionsOf, Slots
  <2>3. CASE q = s
    BY <1>8, <1>9, <1>11, <2>1, <2>3 DEF Current, Passed
  <2>4. CASE q # s
    BY <1>10, <1>11, <2>1, <2>2, <2>4 DEF Current, Passed
  <2> QED BY <2>3, <2>4
<1>13. Cursor' = Cursor
  BY <1>0 DEF Cursor, Reading
<1>14. ~tree[k].found /\ gc'.at # "idle" /\ gc'.begin = 0 => \A q \in Current(k) : ~Before(q, Cursor')
  BY <1>0, <1>1, <1>13 DEF PlaceInv, LostInv
<1>15. PlaceInv(k)'
  BY <1>0, <1>1, <1>11, <1>12, <1>14, SameFrame
<1> QED BY <1>2, <1>15

\* The writer's position, once it is in the tree, is the last of all, and gc is
\* elsewhere.
LEMMA WriterSlot ==
    ASSUME BaseInv, writer.at = "tree", NEW w, w = writer.pos
    PROVE  /\ w \in Slots /\ HasRecord(w) /\ At(w) = writer.rec /\ writer.rec \in Records /\ writer.rec.key \in Keys
           /\ \A q \in Slots : HasRecord(q) => ~Before(w, q)
           /\ ~Past(w) /\ ~StaleTail(w)
           /\ \A q \in Slots : Past(q) => ~Before(w, q)
           /\ gc.at = "place" => Before(OldPos, w)
<1>1. /\ newHead \in Chunks /\ Len(file[newHead]) > 0 /\ newHead \in Nat /\ Len(file[newHead]) \in Nat
      /\ w = [chunk |-> newHead, off |-> Len(file[newHead]) - 1]
      /\ writer.rec \in Records /\ writer.rec = At(w)
  BY FileParts, Numbers DEF BaseInv, WriterInv
<1>2. Len(file[newHead]) - 1 \in Nat /\ Len(file[newHead]) - 1 < Len(file[newHead])
  BY <1>1
<1>3. w \in Slots /\ HasRecord(w) /\ w.chunk = newHead /\ w.off = Len(file[newHead]) - 1
  BY <1>1, <1>2, IsSlot DEF BaseInv, HasRecord
<1>4. ASSUME NEW q \in Slots, HasRecord(q) PROVE ~Before(w, q)
  <2>1. q.chunk \in Chunks /\ q.chunk \in Nat /\ q.off \in Nat /\ q.off < Len(file[q.chunk])
    BY <1>4, Order DEF Slots, HasRecord
  <2>2. q.chunk <= newHead
    <3>1. q.chunk > newHead => Len(file[q.chunk]) = 0
      BY <2>1 DEF BaseInv, HeadInv
    <3> QED BY <1>1, <2>1, <3>1
  <2>3. q.chunk = newHead => q.off <= w.off
    BY <1>1, <1>3, <2>1
  <2> QED BY <1>1, <1>3, <2>1, <2>2, <2>3 DEF Before
<1>5. Reading => gc.src < newHead /\ gc.src \in Nat
  BY BelowHead, GCParts DEF BaseInv, Reading
<1>6. gc.at # "idle" => gc.dst < newHead /\ gc.dst \in Nat
  BY BelowHead, GCParts DEF BaseInv
<1>7. ~Past(w) /\ ~StaleTail(w)
  BY <1>1, <1>3, <1>5, <1>6 DEF Past, StaleTail
<1>8. ASSUME NEW q \in Slots, Past(q) PROVE ~Before(w, q)
  BY <1>1, <1>3, <1>5, <1>8 DEF Past, Before
<1>9. gc.at = "place" => Before(OldPos, w)
  BY <1>1, <1>3, <1>5 DEF OldPos, Reading, Before
<1> QED BY <1>1, <1>3, <1>4, <1>7, <1>8, <1>9 DEF Records

LEMMA TreeKey ==
    ASSUME BaseInv, NEW k \in Keys, KeyInv(k), WriteTree
    PROVE  KeyInv(k)'
<1>0. /\ UNCHANGED <<file, newHead, reader, gc, nextId, torn, gcs, crashes>> /\ writer.at = "tree"
      /\ writer' = NoWrite /\ writer'.at = "idle"
  BY DEF WriteTree, NoWrite
<1> SUFFICES ASSUME ~torn, k \notin raced' PROVE MoveInv(k)' /\ PlaceInv(k)'
  BY <1>0 DEF KeyInv, PlaceInv
<1>1. k \notin raced /\ (writer.rec.key = k => ~Moving(k))
  BY DEF WriteTree
<1>2. MoveInv(k) /\ PlaceInv(k)
  BY <1>1 DEF KeyInv, PlaceInv
<1>3. PICK w : w = writer.pos
  OBVIOUS
<1>4. /\ w \in Slots /\ HasRecord(w) /\ At(w) = writer.rec /\ writer.rec.key \in Keys
      /\ \A q \in Slots : HasRecord(q) => ~Before(w, q)
      /\ ~Past(w) /\ ~StaleTail(w)
      /\ \A q \in Slots : Past(q) => ~Before(w, q)
      /\ gc.at = "place" => Before(OldPos, w)
  BY <1>0, <1>3, WriterSlot
<1>5. \A q \in Slots : /\ ~Pending(q)' /\ (Pending(q) <=> q = w) /\ (Past(q)' <=> Past(q))
                       /\ (StaleTail(q)' <=> StaleTail(q)) /\ (HasRecord(q)' <=> HasRecord(q)) /\ At(q)' = At(q)
                       /\ (Copied(q)' => Copied(q))
  BY <1>0, <1>3 DEF Pending, Past, StaleTail, Reading, HasRecord, At, Copied
<1>6. /\ PositionsOf(k)' = PositionsOf(k) /\ OldPos' = OldPos /\ (Moving(k)' <=> Moving(k)) /\ Cursor' = Cursor
      /\ PositionsOf(k) \subseteq Slots
  BY <1>0, InSlots DEF PositionsOf, HasRecord, At, OldPos, Moving, Cursor, Reading
<1>7. CASE writer.rec.key = k
  <2>1. /\ tree'[k] = [pos |-> w, live |-> writer.rec.live, found |-> TRUE] /\ acked'[k] = writer.rec
    BY <1>3, <1>7 DEF WriteTree, BaseInv, TypeOK
  <2>2. tree'[k].pos = w /\ tree'[k].live = writer.rec.live /\ tree'[k].found
    BY <2>1
  <2>3. Before(OldPos, tree[k].pos)' = Before(OldPos, w)
    BY <1>6, <2>2 DEF Before
  <2>4. MoveInv(k)'
    BY <1>0, <1>1, <1>4, <1>6, <1>7, <2>2, <2>3 DEF MoveInv
  <2>5. w \in Current(k)'
    <3>1. w \in PositionsOf(k)
      BY <1>4, <1>7 DEF PositionsOf, Slots
    <3> QED BY <1>4, <1>5, <1>6, <3>1 DEF Current
  <2>6. ASSUME NEW q \in Seen(k)' PROVE ~Before(w, q)
    <3>1. q \in Slots /\ HasRecord(q)
      BY <1>6, <2>6 DEF Seen, Current, Passed, PositionsOf, Slots
    <3> QED BY <1>4, <3>1
  <2>7. At(tree[k].pos)' = writer.rec
    <3>1. At(tree[k].pos)' = At(w)'
      BY <2>2 DEF At
    <3> QED BY <1>4, <1>5, <3>1
  <2>8. \A q \in Seen(k)' : ~Before(tree[k].pos, q)'
    BY <2>2, <2>6 DEF Before
  <2>9. FoundInv(k)'
    BY <2>1, <2>2, <2>5, <2>7, <2>8 DEF FoundInv
  <2> QED BY <2>2, <2>4, <2>9 DEF PlaceInv
<1>8. CASE writer.rec.key # k
  <2>1. tree'[k] = tree[k] /\ acked'[k] = acked[k]
    BY <1>8 DEF WriteTree, BaseInv, TypeOK
  <2>2. MoveInv(k)'
    BY <1>0, <1>2, <1>6, <2>1 DEF MoveInv, Before
  <2>3. \A q \in PositionsOf(k) : q # w
    BY <1>4, <1>8 DEF PositionsOf
  <2>4. ASSUME NEW q \in Slots
        PROVE  (q \in Current(k)' <=> q \in Current(k)) /\ (q \in Passed(k)' <=> q \in Passed(k))
    BY <1>5, <1>6, <2>3 DEF Current, Passed
  <2>5. ~tree[k].found /\ gc'.at # "idle" /\ gc'.begin = 0 => \A q \in Current(k) : ~Before(q, Cursor')
    BY <1>0, <1>2, <1>6 DEF PlaceInv, LostInv
  <2>6. PlaceInv(k)'
    BY <1>2, <1>5, <2>1, <2>4, <2>5, SameFrame
  <2> QED BY <2>2, <2>6
<1> QED BY <1>7, <1>8

\* When gc starts it has passed nothing.
LEMMA StartKey ==
    ASSUME BaseInv, NEW k \in Keys, KeyInv(k), NEW b \in Chunks, NEW e \in Chunks, GCStart(b, e)
    PROVE  KeyInv(k)'
<1>0. UNCHANGED <<file, newHead, tree, writer, reader, acked, nextId, raced, torn, crashes>> /\ gc.at = "idle"
  BY DEF GCStart
<1> SUFFICES ASSUME ~torn, k \notin raced PROVE MoveInv(k)' /\ PlaceInv(k)'
  BY <1>0 DEF KeyInv, PlaceInv
<1>1. PlaceInv(k)
  BY DEF KeyInv, PlaceInv
<1>2. /\ gc'.at = "chunk" /\ gc'.begin = b /\ gc'.src = b
      /\ gc'.rewriting => gc'.src = gc'.dst /\ gc'.writingHead = 0
  BY DEF GCStart, BeginWriting, NoGC
<1>3. MoveInv(k)'
  BY <1>2 DEF MoveInv, Moving
<1>4. ASSUME NEW q \in Slots
      PROVE  /\ ~Past(q) /\ ~Past(q)' /\ ~StaleTail(q) /\ ~StaleTail(q)'
             /\ Pending(q)' <=> Pending(q)
             /\ HasRecord(q)' <=> HasRecord(q)
             /\ At(q)' = At(q)
             /\ ~Copied(q)'
  <2>1. q.off \in Nat
    BY Order
  <2> QED BY <1>0, <1>2, <2>1 DEF Past, StaleTail, Pending, Reading, HasRecord, At, Copied
<1>5. PositionsOf(k)' = PositionsOf(k) /\ PositionsOf(k) \subseteq Slots
  BY <1>0, InSlots DEF PositionsOf, HasRecord, At
<1>6. ASSUME NEW q \in Slots
      PROVE  (q \in Current(k)' <=> q \in Current(k)) /\ q \notin Passed(k) /\ q \notin Passed(k)'
  BY <1>4, <1>5 DEF Current, Passed
<1>7. gc'.begin = 0 => \A q \in Slots : ~Before(q, Cursor')
  <2>1. gc'.begin = 0 => Cursor'.chunk = 0 /\ Cursor'.off = 0
    BY <1>2 DEF Cursor, Reading
  <2> QED BY <2>1, Order DEF Before
<1>8. Current(k) \subseteq Slots
  BY InSlots
<1>9. PlaceInv(k)'
  BY <1>0, <1>1, <1>2, <1>4, <1>6, <1>7, <1>8, SameFrame
<1> QED BY <1>3, <1>9

\* Between two chunks nothing is passed, and the cursor moves over an empty chunk.
LEMMA ChunkKey ==
    ASSUME BaseInv, NEW k \in Keys, KeyInv(k), GCChunk
    PROVE  KeyInv(k)'
<1>0. UNCHANGED <<file, newHead, tree, writer, reader, acked, nextId, raced, gcs, crashes>> /\ gc.at = "chunk"
      /\ gc \in GCStates
  BY DEF GCChunk, BaseInv, TypeOK
<1> SUFFICES ASSUME ~torn', k \notin raced PROVE MoveInv(k)' /\ PlaceInv(k)'
  BY <1>0 DEF KeyInv, PlaceInv
<1>1. ~torn
  BY DEF GCChunk
<1>2. MoveInv(k) /\ PlaceInv(k)
  BY <1>1 DEF KeyInv, PlaceInv
<1>3. \/ gc' = [gc EXCEPT !.at = "after"]
      \/ gc' = [gc EXCEPT !.src = gc.src + 1] /\ file[gc.src] = << >> /\ gc.src <= gc.end
      \/ gc' = [gc EXCEPT !.at = "read", !.off = 0]
  BY GCParts DEF GCChunk, BaseInv
<1>4. /\ gc'.at \in {"after", "chunk", "read"} /\ (gc'.at = "read" => gc'.off = 0)
      /\ gc'.begin = gc.begin /\ gc'.dst = gc.dst /\ gc'.writingHead = gc.writingHead /\ gc'.rewriting = gc.rewriting
      /\ (gc'.src = gc.src) \/ (gc'.src = gc.src + 1 /\ file[gc.src] = << >> /\ gc'.at = "chunk")
  <2>1. CASE gc' = [gc EXCEPT !.at = "after"]
    BY <1>0, <2>1 DEF GCStates
  <2>2. CASE gc' = [gc EXCEPT !.src = gc.src + 1] /\ file[gc.src] = << >>
    BY <1>0, <2>2 DEF GCStates
  <2>3. CASE gc' = [gc EXCEPT !.at = "read", !.off = 0]
    BY <1>0, <2>3 DEF GCStates
  <2> QED BY <1>3, <2>1, <2>2, <2>3
<1>5. MoveInv(k)'
  BY <1>4 DEF MoveInv, Moving
<1>6. gc.dst <= gc.src /\ gc.dst \in Nat /\ gc.src \in Nat
  BY <1>0, GCParts DEF BaseInv, ShapeInv
<1>7. ASSUME NEW q \in Slots
      PROVE  /\ ~Past(q) /\ ~Past(q)' /\ (HasRecord(q) => (StaleTail(q)' <=> StaleTail(q)))
             /\ Pending(q)' <=> Pending(q)
             /\ HasRecord(q)' <=> HasRecord(q)
             /\ At(q)' = At(q)
             /\ Copied(q)' => Copied(q)
  <2>1. q.off \in Nat /\ q.chunk \in Nat
    BY Order
  <2>2. ~Past(q) /\ ~Past(q)'
    BY <1>0, <1>4, <2>1 DEF Past, Reading
  <2>3. HasRecord(q) => (StaleTail(q)' <=> StaleTail(q))
    <3>1. CASE gc'.src = gc.src
      BY <1>0, <1>4, <3>1 DEF StaleTail
    <3>2. CASE gc'.src = gc.src + 1 /\ file[gc.src] = << >>
      <4>1. HasRecord(q) => q.chunk # gc.src
        BY <2>1, <3>2 DEF HasRecord
      <4>2. gc.src + 1 # gc.dst
        BY <1>6
      <4> QED BY <1>0, <1>4, <3>2, <4>1, <4>2 DEF StaleTail
    <3> QED BY <1>4, <3>1, <3>2
  <2> QED BY <1>0, <1>4, <2>2, <2>3 DEF Pending, HasRecord, At, Copied
<1>8. PositionsOf(k)' = PositionsOf(k) /\ PositionsOf(k) \subseteq Slots /\ \A q \in PositionsOf(k) : HasRecord(q)
  BY <1>0, InSlots DEF PositionsOf, HasRecord, At
<1>9. ASSUME NEW q \in Slots
      PROVE  (q \in Current(k)' <=> q \in Current(k)) /\ q \notin Passed(k) /\ q \notin Passed(k)'
  BY <1>7, <1>8 DEF Current, Passed
<1>10. Current(k) \subseteq Slots
  BY InSlots
<1>11. ASSUME ~tree[k].found, gc.begin = 0, NEW q \in Current(k) PROVE ~Before(q, Cursor')
  <2>1. q \in Slots /\ HasRecord(q) /\ ~Before(q, Cursor)
    BY <1>0, <1>2, <1>8, <1>11 DEF PlaceInv, LostInv, Current
  <2>2. q.chunk \in Nat /\ q.off \in Nat
    BY <2>1, Order
  <2>3. Cursor.chunk = gc.src /\ Cursor.off = 0 /\ Cursor'.chunk = gc'.src /\ Cursor'.off = 0
    BY <1>0, <1>4 DEF Cursor, Reading
  <2>4. q.chunk >= gc.src
    BY <1>6, <2>1, <2>2, <2>3 DEF Before
  <2>5. q.chunk >= gc'.src
    <3>1. gc'.src = gc.src + 1 /\ file[gc.src] = << >> => q.chunk # gc.src
      BY <2>1, <2>2 DEF HasRecord
    <3> QED BY <1>4, <1>6, <2>2, <2>4, <3>1
  <2>6. gc'.src \in Nat
    BY <1>4, <1>6
  <2> QED BY <2>2, <2>3, <2>5, <2>6 DEF Before
<1>12. PlaceInv(k)'
  BY <1>0, <1>2, <1>4, <1>7, <1>9, <1>11, SameFrame
<1> QED BY <1>5, <1>12

\* gc gives up a chunk that it copies to another: what it has passed stays.
LEMMA GivenUp ==
    ASSUME BaseInv, NEW k \in Keys, PlaceInv(k), UNCHANGED <<file, tree, acked, writer>>,
           gc.at # "idle", gc'.at = "after", gc'.begin = gc.begin, gc'.src = gc.src, gc.src # gc.dst,
           \A q \in Slots : HasRecord(q) => (StaleTail(q)' <=> StaleTail(q)) /\ (Copied(q)' => Copied(q))
    PROVE  PlaceInv(k)'
<1>1. ASSUME NEW q \in Slots
      PROVE  /\ Past(q) => ~StaleTail(q) /\ ~Pending(q)
             /\ ~Past(q)' /\ (Pending(q)' <=> Pending(q))
             /\ (HasRecord(q)' <=> HasRecord(q)) /\ At(q)' = At(q)
  <2>1. Past(q) => ~StaleTail(q)
    BY DEF Past, StaleTail, BaseInv, ShapeInv
  <2>2. Past(q) => ~Pending(q)
    <3>1. Past(q) => q.chunk < newHead /\ newHead \in Nat
      BY BelowHead DEF Past
    <3> QED BY <3>1 DEF Pending, BaseInv, WriterInv
  <2>3. ~Past(q)'
    BY DEF Past, Reading
  <2> QED BY <2>1, <2>2, <2>3 DEF Pending, HasRecord, At
<1>2. PositionsOf(k)' = PositionsOf(k) /\ PositionsOf(k) \subseteq Slots /\ \A q \in PositionsOf(k) : HasRecord(q)
  BY InSlots DEF PositionsOf, HasRecord, At
<1> DEFINE S == Seen(k)
<1>3. S \subseteq Slots /\ Current(k)' = S /\ Passed(k)' = {} /\ \A q \in S : HasRecord(q)
  <2>1. \A q \in Slots : (q \in Current(k)' <=> q \in S) /\ q \notin Passed(k)'
    BY <1>1, <1>2 DEF Current, Passed, Seen
  <2>2. Current(k)' \subseteq Slots /\ Passed(k)' \subseteq Slots /\ S \subseteq PositionsOf(k)
    BY <1>2 DEF Current, Passed, Seen
  <2> QED BY <1>2, <2>1, <2>2
<1>4. Seen(k)' = S
  BY <1>3 DEF Seen
<1>5. S = Current(k) \cup Passed(k)
  BY DEF Seen
<1> HIDE DEF S
<1>6. ASSUME tree[k].found PROVE FoundInv(k)'
  <2>1. PICK t : t = tree[k].pos
    OBVIOUS
  <2>2. FoundInv(k) /\ t \in S
    BY <1>5, <1>6, <2>1 DEF PlaceInv, FoundInv
  <2>3. \A d \in Seen(k)' : Before(t, d) => d \in Seen(k) /\ (Copied(d)' => Copied(d))
    BY <1>3, <1>4 DEF S
  <2>4. \A d \in Seen(k)', q \in Seen(k) :
            Before(t, d) /\ ~Copied(d) /\ q.chunk = d.chunk /\ ~Before(q, d) => q \in Seen(k)' /\ At(q)' = At(q)
    BY <1>1, <1>3, <1>4 DEF S
  <2>5. t \in Current(k)' /\ At(t)' = At(t)
    BY <1>1, <1>3, <2>2
  <2> QED BY <2>1, <2>2, <2>3, <2>4, <2>5, FoundFrame
<1>7. ASSUME ~tree[k].found PROVE LostInv(k)'
  <2>1. /\ ~acked[k].live /\ \A q \in Slots : LastOf(q, S) => ~At(q).live
        /\ gc.begin = 0 => \A q \in Current(k) : ~Before(q, Cursor)
    BY <1>5, <1>7 DEF PlaceInv, LostInv
  <2>2. ASSUME NEW q \in Slots, LastOf(q, S) PROVE ~(At(q)').live
    BY <1>1, <2>1, <2>2
  <2>3. (\A q \in Slots : LastOf(q, Current(k))' => ~(At(q)').live)
        /\ (\A q \in Slots : LastOf(q, Current(k) \cup Passed(k))' => ~(At(q)').live)
    BY <1>3, <2>2 DEF LastOf, Before
  <2>4. ASSUME gc.begin = 0, NEW q \in S PROVE ~Before(q, Cursor')
    <3>1. Cursor'.chunk = gc.src /\ Cursor'.off = 0 /\ Cursor.chunk = gc.src /\ gc.src \in Nat
      BY GCParts DEF Cursor, Reading, BaseInv
    <3>2. q.chunk \in Nat /\ q.off \in Nat
      BY <1>3, Order
    <3>3. q \in Passed(k) => q.chunk = gc.src
      BY DEF Passed, Past
    <3>4. q \in Current(k) => ~(q.chunk < gc.src)
      BY <2>1, <2>4, <3>1 DEF Before
    <3> QED BY <1>5, <3>1, <3>2, <3>3, <3>4 DEF Before
  <2> QED BY <1>3, <2>1, <2>3, <2>4 DEF LostInv
<1> QED BY <1>6, <1>7 DEF PlaceInv

LEMMA ReadFailsKey ==
    ASSUME BaseInv, NEW k \in Keys, KeyInv(k), GCReadFails
    PROVE  KeyInv(k)'
<1>0. UNCHANGED <<file, newHead, tree, writer, reader, acked, nextId, raced, gcs, crashes>> /\ gc.at # "idle"
      /\ gc \in GCStates /\ gc' = [gc EXCEPT !.at = "after"] /\ torn' = (torn \/ Unread)
  BY DEF GCReadFails, BaseInv, TypeOK
<1>1. /\ gc'.at = "after" /\ gc'.begin = gc.begin /\ gc'.src = gc.src /\ gc'.dst = gc.dst
      /\ gc'.writingHead = gc.writingHead /\ gc'.rewriting = gc.rewriting
  BY <1>0 DEF GCStates
<1> SUFFICES ASSUME ~torn', k \notin raced PROVE MoveInv(k)' /\ PlaceInv(k)'
  BY <1>0 DEF KeyInv, PlaceInv
<1>2. ~torn /\ gc.src # gc.dst
  BY <1>0 DEF Unread, BaseInv, ShapeInv
<1>3. PlaceInv(k)
  BY <1>0, <1>2 DEF KeyInv, PlaceInv
<1>4. MoveInv(k)'
  BY <1>1 DEF MoveInv, Moving
<1>5. \A q \in Slots : (StaleTail(q)' <=> StaleTail(q)) /\ (Copied(q)' => Copied(q))
  BY <1>0, <1>1 DEF StaleTail, Copied
<1>6. PlaceInv(k)'
  BY <1>0, <1>1, <1>2, <1>3, <1>5, GivenUp
<1> QED BY <1>4, <1>6

\* The next destination: nothing is left over in another way.
LEMMA NextDstKey ==
    ASSUME BaseInv, NEW k \in Keys, KeyInv(k), GCNextDst \/ GCNextDstFails
    PROVE  KeyInv(k)'
<1>0. /\ UNCHANGED <<file, newHead, tree, writer, reader, acked, nextId, raced, gcs, crashes>>
      /\ gc.at = "place" /\ (torn => torn') /\ gc.dst < gc.src /\ gc.writingHead = Len(file[gc.dst])
      /\ gc'.at = "place" \/ (gc'.at = "after" /\ (gc.dst + 1 = gc.src => torn'))
      /\ gc'.src = gc.src /\ gc'.begin = gc.begin /\ gc'.off = gc.off
      /\ gc'.rec = gc.rec /\ gc'.found = gc.found /\ gc'.live = gc.live
      /\ gc'.dst = gc.dst + 1 /\ (gc'.rewriting <=> gc.dst + 1 = gc.src)
      /\ gc'.writingHead = IF gc.dst + 1 = gc.src THEN 0 ELSE Len(file[gc.dst + 1])
  BY NextDstFiles
<1> SUFFICES ASSUME ~torn', k \notin raced PROVE MoveInv(k)' /\ PlaceInv(k)'
  BY <1>0 DEF KeyInv, PlaceInv
<1>1. MoveInv(k) /\ PlaceInv(k)
  BY <1>0 DEF KeyInv, PlaceInv
<1>2. MoveInv(k)'
  BY <1>0, <1>1 DEF MoveInv, Moving, OldPos, Before
<1>3. gc.dst # gc.src /\ gc.dst \in Chunks /\ Len(file[gc.dst]) \in Nat
  BY <1>0, GCParts, FileParts DEF BaseInv
<1>4. ASSUME NEW q \in Slots
      PROVE  /\ gc'.at = "place" => (Past(q)' <=> Past(q))
             /\ HasRecord(q) => ~StaleTail(q) /\ ~StaleTail(q)'
             /\ Pending(q)' <=> Pending(q)
             /\ HasRecord(q)' <=> HasRecord(q)
             /\ At(q)' = At(q)
             /\ ~Copied(q)'
  <2>1. q.off \in Nat
    BY Order
  <2>2. gc'.at = "place" => (Past(q)' <=> Past(q))
    BY <1>0, <1>3, <2>1 DEF Past, Reading
  <2>3. HasRecord(q) => ~StaleTail(q)
    BY <1>0, <1>3, <2>1 DEF HasRecord, StaleTail
  <2>4. ~StaleTail(q)' /\ ~Copied(q)'
    BY <1>0, <2>1 DEF StaleTail, Copied
  <2> QED BY <1>0, <2>2, <2>3, <2>4 DEF Pending, HasRecord, At
<1>5. CASE gc'.at = "place"
  <2>1. PositionsOf(k)' = PositionsOf(k) /\ PositionsOf(k) \subseteq Slots /\ \A q \in PositionsOf(k) : HasRecord(q)
    BY <1>0, InSlots DEF PositionsOf, HasRecord, At
  <2>2. ASSUME NEW q \in Slots
        PROVE  (q \in Current(k)' <=> q \in Current(k)) /\ (q \in Passed(k)' <=> q \in Passed(k))
    BY <1>4, <1>5, <2>1 DEF Current, Passed
  <2>3. Cursor' = Cursor
    BY <1>0, <1>5 DEF Cursor, Reading
  <2>4. ~tree[k].found /\ gc'.at # "idle" /\ gc'.begin = 0 => \A q \in Current(k) : ~Before(q, Cursor')
    BY <1>0, <1>1, <2>3 DEF PlaceInv, LostInv
  <2>5. PlaceInv(k)'
    BY <1>0, <1>1, <1>4, <2>2, <2>4, SameFrame
  <2> QED BY <1>2, <2>5
<1>6. CASE gc'.at = "after"
  <2>1. PlaceInv(k)'
    BY <1>0, <1>1, <1>3, <1>4, <1>6, GivenUp
  <2> QED BY <1>2, <2>1
<1> QED BY <1>0, <1>5, <1>6

\* gc goes on to the next record: the one it leaves is passed, unless its own
\* copy has taken its place.
Passes ==
    /\ Reading /\ gc.off < Len(file[gc.src])
    /\ UNCHANGED <<file, writer>>
    /\ gc'.at = "read" /\ gc'.begin = gc.begin /\ gc'.src = gc.src /\ gc'.dst = gc.dst
    /\ gc'.off = gc.off + 1 /\ gc'.writingHead = gc.writingHead /\ gc'.rewriting = gc.rewriting

LEMMA PassSlots ==
    ASSUME BaseInv, Passes, NEW o, o = OldPos
    PROVE  /\ o \in Slots /\ HasRecord(o) /\ ~Past(o) /\ ~StaleTail(o) /\ ~Pending(o)
           /\ (gc.dst = gc.src => gc.writingHead <= gc.off) => Past(o)'
           /\ ~StaleTail(o)' /\ ~Pending(o)'
           /\ \A q \in Slots : /\ Past(q) => Before(q, o)
                               /\ q # o => (Past(q)' <=> Past(q))
                               /\ StaleTail(q)' <=> StaleTail(q)
                               /\ Pending(q)' <=> Pending(q)
                               /\ HasRecord(q)' <=> HasRecord(q)
                               /\ At(q)' = At(q)
                               /\ Copied(q)' <=> Copied(q)
                               /\ q # o /\ ~Before(q, Cursor) => ~Before(q, Cursor')
<1>1. /\ TypeOK /\ gc.src \in Nat /\ gc.off \in Nat /\ gc.dst \in Nat /\ gc.writingHead \in Nat
      /\ gc.src <= gc.end /\ gc.end \in Chunks /\ gc.end \in Nat /\ gc.src < newHead /\ newHead \in Nat
  <2>1. gc.at # "idle" /\ TypeOK
    BY DEF Passes, Reading, BaseInv
  <2> QED BY <2>1, GCParts, BelowHead DEF Passes, BaseInv, ReadInv
<1>2. gc.src \in Chunks
  BY <1>1, Numbers
<1>3. o \in Slots /\ HasRecord(o) /\ o.chunk = gc.src /\ o.off = gc.off
  BY <1>1, <1>2, IsSlot DEF OldPos, HasRecord, Passes
<1>4. Reading /\ Reading' /\ gc.at # "idle" /\ gc'.at # "idle"
  BY DEF Passes, Reading
<1>5. ~Past(o) /\ ~StaleTail(o) /\ ~StaleTail(o)'
  BY <1>1, <1>3 DEF Past, StaleTail, Passes
<1>6. ~Pending(o) /\ ~Pending(o)'
  BY <1>1, <1>3 DEF Pending, Passes, BaseInv, WriterInv
<1>7. (gc.dst = gc.src => gc.writingHead <= gc.off) => Past(o)'
  BY <1>1, <1>3, <1>4 DEF Past, Passes
<1>8. ASSUME NEW q \in Slots
      PROVE  /\ Past(q) => Before(q, o)
             /\ q # o => (Past(q)' <=> Past(q))
             /\ q # o /\ ~Before(q, Cursor) => ~Before(q, Cursor')
  <2>1. q.chunk \in Nat /\ q.off \in Nat /\ q = [chunk |-> q.chunk, off |-> q.off]
    BY Order
  <2>2. q # o => (q.chunk # gc.src \/ q.off # gc.off)
    BY <2>1 DEF OldPos
  <2>3. Past(q) => Before(q, o)
    BY <1>1, <1>3, <2>1 DEF Past, Before
  <2>4. q # o => (Past(q)' <=> Past(q))
    BY <1>1, <1>4, <2>1, <2>2 DEF Past, Passes
  <2>5. Cursor.chunk = gc.src /\ Cursor.off = gc.off /\ Cursor'.chunk = gc.src /\ Cursor'.off = gc.off + 1
    BY <1>4 DEF Cursor, Passes
  <2>6. q # o /\ ~Before(q, Cursor) => ~Before(q, Cursor')
    BY <1>1, <2>1, <2>2, <2>5 DEF Before
  <2> QED BY <2>3, <2>4, <2>6
<1>9. \A q \in Slots : /\ StaleTail(q)' <=> StaleTail(q)
                       /\ Pending(q)' <=> Pending(q)
                       /\ HasRecord(q)' <=> HasRecord(q)
                       /\ At(q)' = At(q)
                       /\ Copied(q)' <=> Copied(q)
  BY <1>4 DEF StaleTail, Pending, HasRecord, At, Passes, Copied
<1> QED BY <1>3, <1>5, <1>6, <1>7, <1>8, <1>9

\* The keys of other records do not notice.
LEMMA PassOther ==
    ASSUME BaseInv, Passes, NEW k \in Keys, PlaceInv(k), At(OldPos).key # k,
           tree'[k] = tree[k], acked'[k] = acked[k]
    PROVE  PlaceInv(k)'
<1>1. PICK o : o = OldPos
  OBVIOUS
<1>2. \A q \in Slots : /\ q # o => (Past(q)' <=> Past(q))
                       /\ StaleTail(q)' <=> StaleTail(q)
                       /\ Pending(q)' <=> Pending(q)
                       /\ HasRecord(q)' <=> HasRecord(q)
                       /\ At(q)' = At(q)
                       /\ Copied(q)' <=> Copied(q)
                       /\ q # o /\ ~Before(q, Cursor) => ~Before(q, Cursor')
  BY <1>1, PassSlots
<1>3. /\ PositionsOf(k)' = PositionsOf(k) /\ PositionsOf(k) \subseteq Slots
      /\ \A q \in PositionsOf(k) : q # o
  BY <1>1, InSlots DEF PositionsOf, HasRecord, At, Passes
<1>4. ASSUME NEW q \in Slots
      PROVE  (q \in Current(k)' <=> q \in Current(k)) /\ (q \in Passed(k)' <=> q \in Passed(k))
  BY <1>2, <1>3 DEF Current, Passed
<1>5. Current(k) \subseteq Slots /\ Passed(k) \subseteq Slots /\ Current(k) \subseteq PositionsOf(k)
  BY InSlots DEF Current
<1>6. ~tree[k].found /\ gc'.begin = 0 => \A q \in Current(k) : ~Before(q, Cursor')
  <2>1. ~tree[k].found /\ gc.begin = 0 => \A q \in Current(k) : ~Before(q, Cursor)
    BY DEF PlaceInv, LostInv, Passes, Reading
  <2> QED BY <1>2, <1>3, <1>5, <2>1 DEF Passes
<1> QED BY <1>2, <1>4, <1>6, SameFrame

\* A record that gc leaves behind is not the one the tree leads to.
LEMMA PassSame ==
    ASSUME BaseInv, Passes, NEW k \in Keys, PlaceInv(k), At(OldPos).key = k,
           tree'[k] = tree[k], acked'[k] = acked[k], gc.dst = gc.src => gc.writingHead <= gc.off,
           tree[k].found => tree[k].pos # OldPos,
           ~tree[k].found => gc.begin = 0 \/ At(OldPos).live
    PROVE  PlaceInv(k)'
<1>1. PICK o : o = OldPos
  OBVIOUS
<1>2. /\ o \in Slots /\ HasRecord(o) /\ ~Past(o) /\ ~StaleTail(o) /\ ~Pending(o) /\ Past(o)'
      /\ \A q \in Slots : /\ Past(q) => Before(q, o)
                          /\ q # o => (Past(q)' <=> Past(q))
                          /\ StaleTail(q)' <=> StaleTail(q)
                          /\ Pending(q)' <=> Pending(q)
                          /\ HasRecord(q)' <=> HasRecord(q)
                          /\ At(q)' = At(q)
                          /\ Copied(q)' <=> Copied(q)
                          /\ q # o /\ ~Before(q, Cursor) => ~Before(q, Cursor')
  BY <1>1, PassSlots
<1>3. PositionsOf(k)' = PositionsOf(k) /\ PositionsOf(k) \subseteq Slots /\ o \in PositionsOf(k)
  BY <1>1, <1>2, InSlots DEF PositionsOf, HasRecord, At, Passes, Slots
<1> DEFINE C == Current(k)
           P == Passed(k)
<1>4. o \in C /\ o \notin P /\ C \subseteq Slots /\ P \subseteq Slots /\ \A x \in P : Before(x, o)
  BY <1>2, <1>3, InSlots DEF Current, Passed
<1>5. Current(k)' = C \ {o} /\ Passed(k)' = P \cup {o}
  <2>1. \A q \in Slots : q \in Current(k)' <=> q \in C \ {o}
    BY <1>2, <1>3 DEF Current
  <2>2. \A q \in Slots : q \in Passed(k)' <=> q \in P \cup {o}
    BY <1>2, <1>3 DEF Passed
  <2>3. Current(k)' \subseteq Slots /\ Passed(k)' \subseteq Slots
    BY <1>3 DEF Current, Passed
  <2> QED BY <1>4, <2>1, <2>2, <2>3
<1> HIDE DEF C, P
<1>6. Seen(k) = C \cup P /\ Seen(k)' = C \cup P
  <2>1. Seen(k) = C \cup P
    BY DEF Seen, C, P
  <2>2. Seen(k)' = (C \ {o}) \cup (P \cup {o})
    BY <1>5 DEF Seen
  <2> QED BY <1>4, <2>1, <2>2
<1>7. ASSUME tree[k].found PROVE FoundInv(k)'
  <2>1. PICK t : t = tree[k].pos
    OBVIOUS
  <2>2. FoundInv(k) /\ t \in C \ {o}
    BY <1>1, <1>7, <2>1 DEF PlaceInv, FoundInv, C
  <2>3. t \in Current(k)' /\ At(t)' = At(t)
    BY <1>2, <1>4, <1>5, <2>2
  <2>4. \A d \in Seen(k)' : Before(t, d) => d \in Seen(k) /\ (Copied(d)' => Copied(d))
    BY <1>2, <1>4, <1>6
  <2>5. \A d \in Seen(k)', q \in Seen(k) :
            Before(t, d) /\ ~Copied(d) /\ q.chunk = d.chunk /\ ~Before(q, d) => q \in Seen(k)' /\ At(q)' = At(q)
    BY <1>2, <1>4, <1>6
  <2> QED BY <2>1, <2>2, <2>3, <2>4, <2>5, FoundFrame
<1>8. ASSUME ~tree[k].found PROVE LostInv(k)'
  <2>1. /\ ~acked[k].live
        /\ \A q \in Slots : LastOf(q, C) => ~At(q).live
        /\ \A q \in Slots : LastOf(q, C \cup P) => ~At(q).live
        /\ gc.begin = 0 => \A q \in C : ~Before(q, Cursor)
    BY <1>8 DEF PlaceInv, LostInv, C, P, Passes, Reading
  <2>2. ASSUME NEW q \in Slots, LastOf(q, C \ {o}) PROVE ~At(q).live
    <3>1. q \in C /\ q # o /\ \A x \in C : x = o \/ ~Before(q, x)
      BY <2>2 DEF LastOf
    <3>2. CASE ~Before(q, o)
      BY <2>1, <3>1, <3>2 DEF LastOf
    <3>3. CASE Before(q, o)
      <4>1. LastOf(o, C)
        <5> SUFFICES ASSUME NEW x \in C, Before(o, x) PROVE FALSE
          BY <1>4 DEF LastOf
        <5>1. x \in Slots /\ x # o
          BY <1>2, <1>4, Order
        <5> QED BY <1>2, <3>1, <3>3, <5>1, Order, OrderTrans
      <4>2. ~At(o).live
        BY <1>2, <2>1, <4>1
      <4>3. gc.begin = 0 /\ Cursor = o
        BY <1>1, <1>8, <4>2 DEF Cursor, OldPos, Passes
      <4> QED BY <2>1, <3>1, <3>3, <4>3
    <3> QED BY <3>2, <3>3
  <2>3. (C \ {o}) \cup (P \cup {o}) = C \cup P
    BY <1>4
  <2>4. \A q \in Slots : LastOf(q, Current(k))' => ~(At(q)').live
    BY <1>2, <1>5, <2>2 DEF LastOf, Before
  <2>5. \A q \in Slots : LastOf(q, Current(k) \cup Passed(k))' => ~(At(q)').live
    BY <1>2, <1>5, <2>1, <2>3 DEF LastOf, Before
  <2>6. gc'.begin = 0 => \A q \in Current(k)' : ~Before(q, Cursor')
    BY <1>2, <1>4, <1>5, <2>1 DEF Passes
  <2> QED BY <2>1, <2>4, <2>5, <2>6 DEF LostInv
<1> QED BY <1>7, <1>8 DEF PlaceInv

\* Within the work on one record nothing moves.
LEMMA StillPlace ==
    ASSUME NEW k \in Keys, PlaceInv(k), UNCHANGED <<file, tree, acked, writer>>, Reading, Reading',
           /\ gc'.begin = gc.begin /\ gc'.src = gc.src /\ gc'.dst = gc.dst
           /\ gc'.off = gc.off /\ gc'.writingHead = gc.writingHead /\ gc'.rewriting = gc.rewriting
    PROVE  PlaceInv(k)'
<1>1. gc.at # "idle" /\ gc'.at # "idle"
  BY DEF Reading
<1>2. ASSUME NEW q \in Slots
      PROVE  /\ q \in Current(k)' <=> q \in Current(k)
             /\ q \in Passed(k)' <=> q \in Passed(k)
             /\ At(q)' = At(q)
             /\ Copied(q)' => Copied(q)
  <2>1. /\ (Past(q)' <=> Past(q)) /\ (StaleTail(q)' <=> StaleTail(q)) /\ (Pending(q)' <=> Pending(q))
        /\ Copied(q)' => Copied(q)
    BY <1>1 DEF Past, StaleTail, Pending, Copied
  <2>2. PositionsOf(k)' = PositionsOf(k) /\ At(q)' = At(q)
    BY DEF PositionsOf, HasRecord, At
  <2> QED BY <2>1, <2>2 DEF Current, Passed
<1>3. Cursor' = Cursor
  BY DEF Cursor
<1>4. ~tree[k].found /\ gc'.at # "idle" /\ gc'.begin = 0 => \A q \in Current(k) : ~Before(q, Cursor')
  BY <1>1, <1>3 DEF PlaceInv, LostInv
<1> QED BY <1>2, <1>4, SameFrame

LEMMA ReadKey ==
    ASSUME BaseInv, NEW k \in Keys, KeyInv(k), GCRead
    PROVE  KeyInv(k)'
<1>0. UNCHANGED <<file, newHead, tree, writer, reader, acked, nextId, raced, torn, gcs, crashes>> /\ gc.at = "read"
      /\ gc \in GCStates /\ gc.off < Len(file[gc.src]) /\ Reading
  BY DEF GCRead, BaseInv, TypeOK, Reading
<1> SUFFICES ASSUME ~torn, k \notin raced PROVE MoveInv(k)' /\ PlaceInv(k)'
  BY <1>0 DEF KeyInv, PlaceInv
<1>1. PlaceInv(k)
  BY DEF KeyInv, PlaceInv
<1>2. PICK r : r = At(OldPos)
  OBVIOUS
<1>3. CASE IsNewest(r)
  <2>1. gc' = [gc EXCEPT !.at = "place", !.rec = r, !.found = tree[r.key].found]
    BY <1>2, <1>3 DEF GCRead
  <2>2. /\ gc'.at = "place" /\ gc'.rec = r /\ gc'.found = tree[r.key].found
        /\ gc'.begin = gc.begin /\ gc'.src = gc.src /\ gc'.dst = gc.dst
        /\ gc'.off = gc.off /\ gc'.writingHead = gc.writingHead /\ gc'.rewriting = gc.rewriting
    BY <1>0, <2>1 DEF GCStates
  <2>3. OldPos' = OldPos /\ Reading'
    BY <2>2 DEF OldPos, Reading
  <2>4. MoveInv(k)'
    BY <1>0, <1>3, <2>2, <2>3 DEF MoveInv, Moving, IsNewest
  <2>5. PlaceInv(k)'
    BY <1>0, <1>1, <2>2, <2>3, StillPlace
  <2> QED BY <2>4, <2>5
<1>4. CASE ~IsNewest(r)
  <2>1. gc' = [gc EXCEPT !.off = gc.off + 1]
    BY <1>2, <1>4 DEF GCRead
  <2>2. /\ gc'.at = "read"
        /\ gc'.begin = gc.begin /\ gc'.src = gc.src /\ gc'.dst = gc.dst
        /\ gc'.off = gc.off + 1 /\ gc'.writingHead = gc.writingHead /\ gc'.rewriting = gc.rewriting
    BY <1>0, <2>1 DEF GCStates
  <2>3. MoveInv(k)'
    BY <2>2 DEF MoveInv, Moving
  <2>4. Passes
    BY <1>0, <2>2 DEF Passes
  <2>5. gc.dst = gc.src => gc.writingHead <= gc.off
    <3>1. gc.dst = gc.src => gc.writingHead <= gc.off + 0
      BY <1>0 DEF BaseInv, ReadInv
    <3> QED BY <3>1, GCParts DEF BaseInv
  <2>6. CASE r.key # k
    BY <1>0, <1>1, <1>2, <2>3, <2>4, <2>6, PassOther
  <2>7. CASE r.key = k
    <3>1. tree[k].found => tree[k].pos # OldPos
      BY <1>4, <2>7 DEF IsNewest
    <3>2. ~tree[k].found => gc.begin = 0 \/ r.live
      BY <1>4, <2>7, GCParts DEF IsNewest, BaseInv
    <3> QED BY <1>0, <1>1, <1>2, <2>3, <2>4, <2>5, <2>7, <3>1, <3>2, PassSame
  <2> QED BY <2>3, <2>6, <2>7
<1> QED BY <1>3, <1>4

LEMMA GetPosKey ==
    ASSUME BaseInv, NEW k \in Keys, KeyInv(k), GCGetPos
    PROVE  KeyInv(k)'
<1>0. UNCHANGED <<file, newHead, tree, writer, reader, acked, nextId, raced, torn, gcs, crashes>> /\ gc.at = "getpos"
      /\ gc \in GCStates /\ gc.off < Len(file[gc.src]) /\ gc.rec = At(OldPos) /\ gc.found /\ Reading
  BY DEF GCGetPos, BaseInv, TypeOK, Reading, ReadInv
<1> SUFFICES ASSUME ~torn, k \notin raced PROVE MoveInv(k)' /\ PlaceInv(k)'
  BY <1>0 DEF KeyInv, PlaceInv
<1>1. PlaceInv(k) /\ MoveInv(k)
  BY DEF KeyInv, PlaceInv
<1>2. CASE tree[gc.rec.key].found
  <2>1. gc' = [gc EXCEPT !.at = "setpos", !.live = tree[gc.rec.key].live]
    BY <1>2 DEF GCGetPos
  <2>2. /\ gc'.at = "setpos" /\ gc'.rec = gc.rec /\ gc'.found = gc.found /\ gc'.live = tree[gc.rec.key].live
        /\ gc'.begin = gc.begin /\ gc'.src = gc.src /\ gc'.dst = gc.dst
        /\ gc'.off = gc.off /\ gc'.writingHead = gc.writingHead /\ gc'.rewriting = gc.rewriting
    BY <1>0, <2>1 DEF GCStates
  <2>3. OldPos' = OldPos /\ Reading'
    BY <2>2 DEF OldPos, Reading
  <2>4. MoveInv(k)'
    BY <1>0, <1>1, <2>2, <2>3 DEF MoveInv, Moving
  <2>5. PlaceInv(k)'
    BY <1>0, <1>1, <2>2, <2>3, StillPlace
  <2> QED BY <2>4, <2>5
<1>3. CASE ~tree[gc.rec.key].found
  <2>1. gc' = [gc EXCEPT !.at = "read", !.off = gc.off + 1]
    BY <1>3 DEF GCGetPos
  <2>2. /\ gc'.at = "read"
        /\ gc'.begin = gc.begin /\ gc'.src = gc.src /\ gc'.dst = gc.dst
        /\ gc'.off = gc.off + 1 /\ gc'.writingHead = gc.writingHead /\ gc'.rewriting = gc.rewriting
    BY <1>0, <2>1 DEF GCStates
  <2>3. MoveInv(k)'
    BY <2>2 DEF MoveInv, Moving
  <2>4. Passes
    BY <1>0, <2>2 DEF Passes
  <2>5. gc.rec.key # k
    BY <1>0, <1>1, <1>3 DEF MoveInv, Moving
  <2> QED BY <1>0, <1>1, <2>3, <2>4, <2>5, PassOther
<1> QED BY <1>2, <1>3

\* A chunk that has been read is passed as a whole; if it is the destination, the
\* rest of it is left over.
LEMMA DoneKey ==
    ASSUME BaseInv, NEW k \in Keys, KeyInv(k), GCChunkDone
    PROVE  KeyInv(k)'
<1>0. UNCHANGED <<newHead, tree, writer, reader, acked, nextId, raced, torn, gcs, crashes>> /\ gc.at = "read"
      /\ gc \in GCStates /\ gc.off = Len(file[gc.src]) /\ Reading
  BY DEF GCChunkDone, BaseInv, TypeOK, Reading
<1> SUFFICES ASSUME ~torn, k \notin raced PROVE MoveInv(k)' /\ PlaceInv(k)'
  BY <1>0 DEF KeyInv, PlaceInv
<1>1. PlaceInv(k)
  BY DEF KeyInv, PlaceInv
<1>2. gc' = [gc EXCEPT !.at = "chunk", !.src = gc.src + 1]
  BY DEF GCChunkDone
<1>3. /\ gc'.at = "chunk" /\ gc'.begin = gc.begin /\ gc'.src = gc.src + 1 /\ gc'.dst = gc.dst
      /\ gc'.writingHead = gc.writingHead /\ gc'.rewriting = gc.rewriting
  BY <1>0, <1>2 DEF GCStates
<1>4. MoveInv(k)'
  BY <1>3 DEF MoveInv, Moving
<1>5. /\ TypeOK /\ gc.src \in Nat /\ gc.off \in Nat /\ gc.dst \in Nat /\ gc.writingHead \in Nat
      /\ gc.src <= gc.end /\ gc.end \in Chunks /\ gc.end \in Nat
      /\ gc.dst <= gc.src /\ (gc.dst = gc.src => gc.rewriting)
  BY <1>0, GCParts DEF BaseInv, ReadInv, ShapeInv
<1>6. gc.src \in Chunks
  BY <1>5, Numbers
<1>7. \A q \in Slots : /\ HasRecord(q)' <=> HasRecord(q) /\ ~(gc.src # gc.dst /\ q.chunk = gc.src)
                       /\ HasRecord(q)' => At(q)' = At(q)
  BY <1>5, <1>6, DoneFiles
<1>8. ASSUME NEW q \in Slots, HasRecord(q)
      PROVE  /\ ~Past(q)'
             /\ gc.src = gc.dst => (StaleTail(q)' <=> Past(q)) /\ ~StaleTail(q)
             /\ gc.src # gc.dst => (StaleTail(q)' <=> StaleTail(q)) /\ (Past(q) <=> q.chunk = gc.src)
             /\ Pending(q)' <=> Pending(q)
             /\ Copied(q)' <=> Copied(q)
             /\ gc.src = gc.dst /\ q.chunk = gc.src => Past(q) \/ Copied(q)
  <2>1. q.chunk \in Nat /\ q.off \in Nat /\ q.off < Len(file[q.chunk])
    BY <1>8, Order DEF HasRecord
  <2>2. ~Past(q)'
    BY <1>3 DEF Past, Reading
  <2>3. gc.src = gc.dst => (StaleTail(q)' <=> Past(q)) /\ ~StaleTail(q)
    BY <1>0, <1>3, <1>5, <2>1 DEF StaleTail, Past
  <2>4. gc.src # gc.dst => (StaleTail(q)' <=> StaleTail(q)) /\ (Past(q) <=> q.chunk = gc.src)
    BY <1>0, <1>3, <1>5, <2>1 DEF StaleTail, Past
  <2>5. Copied(q)' <=> Copied(q)
    BY <1>0, <1>3 DEF Copied
  <2>6. gc.src = gc.dst /\ q.chunk = gc.src => Past(q) \/ Copied(q)
    BY <1>0, <1>5, <2>1 DEF Past, Copied
  <2> QED BY <1>0, <2>2, <2>3, <2>4, <2>5, <2>6 DEF Pending
<1>9. ASSUME NEW q \in Slots
      PROVE  /\ q \in Current(k)' <=> q \in Current(k)
             /\ q \in Current(k) => At(q)' = At(q)
             /\ q \notin Passed(k)'
  <2>1. q \in PositionsOf(k) <=> HasRecord(q) /\ At(q).key = k
    BY DEF PositionsOf, Slots
  <2>2. q \in PositionsOf(k)' <=> HasRecord(q)' /\ (At(q)').key = k
    BY DEF PositionsOf, Slots
  <2>3. CASE gc.src = gc.dst
    BY <1>7, <1>8, <2>1, <2>2, <2>3 DEF Current, Passed
  <2>4. CASE gc.src # gc.dst
    BY <1>7, <1>8, <2>1, <2>2, <2>4 DEF Current, Passed
  <2> QED BY <2>3, <2>4
<1>10. Current(k) \subseteq Slots /\ Passed(k) \subseteq Slots /\ Passed(k)' = {}
  <2>1. Passed(k)' \subseteq Slots
    BY DEF Passed, PositionsOf, Slots
  <2> QED BY <1>9, <2>1, InSlots
<1>11. ASSUME ~tree[k].found, gc.begin = 0, NEW q \in Current(k) PROVE ~Before(q, Cursor')
  <2>1. q \in Slots /\ HasRecord(q) /\ ~Before(q, Cursor) /\ q.off < Len(file[q.chunk])
    BY <1>0, <1>1, <1>10, <1>11 DEF PlaceInv, LostInv, Current, PositionsOf, HasRecord
  <2>2. q.chunk \in Nat /\ q.off \in Nat
    BY <2>1, Order
  <2>3. Cursor.chunk = gc.src /\ Cursor.off = gc.off /\ Cursor'.chunk = gc.src + 1 /\ Cursor'.off = 0
    BY <1>0, <1>3 DEF Cursor, Reading
  <2>4. q.chunk > gc.src
    BY <1>0, <1>5, <2>1, <2>2, <2>3 DEF Before
  <2> QED BY <1>5, <2>2, <2>3, <2>4 DEF Before
<1>12. ASSUME NEW x \in Passed(k), NEW y \in Current(k), x.chunk = y.chunk PROVE Copied(y)
  <2>1. x.chunk = gc.src /\ y \in Slots /\ HasRecord(y) /\ ~Past(y)
    BY <1>10 DEF Passed, Past, Current, PositionsOf
  <2> QED BY <1>8, <1>12, <2>1
<1>13. \A q \in Current(k) : Copied(q)' => Copied(q)
  BY <1>8, <1>10 DEF Current, PositionsOf
<1>14. Seen(k)' \subseteq Current(k)
  <2>1. Current(k)' \subseteq Slots
    BY DEF Current, PositionsOf, Slots
  <2> QED BY <1>9, <1>10, <2>1 DEF Seen
<1>15. PlaceInv(k)'
  BY <1>0, <1>1, <1>3, <1>9, <1>10, <1>11, <1>12, <1>13, <1>14, Frame
<1> QED BY <1>4, <1>15

\* What endGCWriting cuts off when gc ends is the old tail.
LEMMA AfterKey ==
    ASSUME BaseInv, NEW k \in Keys, KeyInv(k), GCAfter
    PROVE  KeyInv(k)'
<1>0. UNCHANGED <<newHead, tree, writer, reader, acked, nextId, raced, torn, gcs, crashes>> /\ gc.at = "after"
      /\ gc'.at = "idle"
  BY DEF GCAfter, NoGC
<1> SUFFICES ASSUME ~torn, k \notin raced PROVE MoveInv(k)' /\ PlaceInv(k)'
  BY <1>0 DEF KeyInv, PlaceInv
<1>1. PlaceInv(k)
  BY DEF KeyInv, PlaceInv
<1>2. MoveInv(k)'
  BY <1>0 DEF MoveInv, Moving
<1>3. gc.dst # gc.src
  BY <1>0 DEF BaseInv, ShapeInv
<1>4. \A q \in Slots : /\ HasRecord(q)' <=> HasRecord(q) /\ ~Cut(q)
                       /\ HasRecord(q)' => At(q)' = At(q)
  BY <1>0, CutFiles DEF GCAfter
<1>5. ASSUME NEW q \in Slots
      PROVE  /\ q \in Current(k)' <=> q \in Current(k)
             /\ q \in Current(k) => At(q)' = At(q)
             /\ q \notin Passed(k)' /\ q \notin Passed(k)
  <2>1. q \in PositionsOf(k) <=> HasRecord(q) /\ At(q).key = k
    BY DEF PositionsOf, Slots
  <2>2. q \in PositionsOf(k)' <=> HasRecord(q)' /\ (At(q)').key = k
    BY DEF PositionsOf, Slots
  <2>3. ~Past(q) /\ ~Past(q)' /\ ~StaleTail(q)' /\ (StaleTail(q) <=> Cut(q)) /\ (Pending(q)' <=> Pending(q))
    BY <1>0, <1>3 DEF Past, Reading, StaleTail, Cut, Pending
  <2> QED BY <1>4, <2>1, <2>2, <2>3 DEF Current, Passed
<1>6. \A q \in Slots : ~Copied(q)'
  BY <1>0 DEF Copied
<1>7. PlaceInv(k)'
  BY <1>0, <1>1, <1>5, <1>6, SameFrame
<1> QED BY <1>2, <1>7

\* Between the end of the copies and the record that gc is at, all is passed or
\* left over.
LEMMA Between ==
    ASSUME BaseInv, Reading, NEW q \in Slots, HasRecord(q), Before(q, OldPos),
           q.chunk > gc.dst \/ (q.chunk = gc.dst /\ q.off >= gc.writingHead)
    PROVE  Past(q) \/ StaleTail(q)
<1>1. q.chunk \in Chunks /\ q.chunk \in Nat /\ q.off \in Nat /\ q.off < Len(file[q.chunk]) /\ gc.at # "idle"
  BY Order DEF Slots, HasRecord, Reading
<1>2. /\ gc.src \in Nat /\ gc.off \in Nat /\ gc.dst \in Nat /\ gc.writingHead \in Nat /\ gc.dst <= gc.src
      /\ \A c \in Chunks : gc.dst < c /\ c < gc.src => file[c] = << >>
      /\ ~gc.rewriting => gc.writingHead = Len(file[gc.dst])
  BY <1>1, GCParts DEF BaseInv, ShapeInv
<1>3. q.chunk < gc.src \/ (q.chunk = gc.src /\ q.off < gc.off)
  BY DEF Before, OldPos
<1>4. CASE q.chunk = gc.src
  BY <1>1, <1>2, <1>3, <1>4 DEF Past
<1>5. CASE q.chunk # gc.src /\ q.chunk = gc.dst
  BY <1>1, <1>2, <1>3, <1>5 DEF StaleTail
<1>6. CASE q.chunk # gc.src /\ q.chunk # gc.dst
  <2>1. file[q.chunk] = << >>
    BY <1>1, <1>2, <1>3, <1>6
  <2> QED BY <1>1, <2>1
<1> QED BY <1>4, <1>5, <1>6

\* The copy, once it is placed, lies at or before its original.
LEMMA CopySlot ==
    ASSUME BaseInv, gc.at \in {"getpos", "setpos"}, NEW n, n = gc.newPos, NEW o, o = OldPos
    PROVE  /\ n \in Slots /\ HasRecord(n) /\ At(n) = gc.rec /\ ~Before(o, n)
           /\ ~Past(n) /\ ~StaleTail(n) /\ ~Pending(n)
           /\ n # o /\ gc.dst = gc.src => gc.writingHead <= gc.off
           /\ n = o => gc.dst = gc.src /\ gc.writingHead = gc.off + 1
           /\ \A q \in Slots : HasRecord(q) /\ Before(n, q) /\ Before(q, o) => Past(q) \/ StaleTail(q)
<1>1. /\ TypeOK /\ Reading /\ gc.at # "idle" /\ gc.writingHead > 0 /\ n = [chunk |-> gc.dst, off |-> gc.writingHead - 1]
      /\ At(n) = gc.rec /\ (gc.dst = gc.src => gc.writingHead <= gc.off + 1)
  BY DEF BaseInv, ReadInv, Reading
<1>2. /\ gc.src \in Nat /\ gc.off \in Nat /\ gc.dst \in Nat /\ gc.dst \in Chunks /\ gc.writingHead \in Nat
      /\ gc.dst <= gc.src /\ gc.writingHead <= Len(file[gc.dst]) /\ gc.dst < newHead /\ newHead \in Nat
      /\ Len(file[gc.dst]) \in Nat
  BY <1>1, GCParts, BelowHead, FileParts DEF BaseInv, ShapeInv
<1>3. gc.writingHead - 1 \in Nat /\ gc.writingHead - 1 < Len(file[gc.dst])
  BY <1>1, <1>2
<1>4. n \in Slots /\ HasRecord(n) /\ n.chunk = gc.dst /\ n.off = gc.writingHead - 1
  BY <1>1, <1>2, <1>3, IsSlot DEF HasRecord
<1>5. o.chunk = gc.src /\ o.off = gc.off
  BY DEF OldPos
<1>6. ~Before(o, n)
  BY <1>1, <1>2, <1>4, <1>5 DEF Before
<1>7. ~Past(n) /\ ~StaleTail(n)
  BY <1>1, <1>2, <1>4 DEF Past, StaleTail
<1>8. ~Pending(n)
  BY <1>2, <1>4 DEF Pending, BaseInv, WriterInv
<1>9. /\ n # o /\ gc.dst = gc.src => gc.writingHead <= gc.off
      /\ n = o => gc.dst = gc.src /\ gc.writingHead = gc.off + 1
  <2>1. n # o <=> gc.dst # gc.src \/ gc.writingHead - 1 # gc.off
    BY <1>1, <1>4, <1>5 DEF OldPos
  <2> QED BY <1>1, <1>2, <2>1
<1>10. ASSUME NEW q \in Slots, HasRecord(q), Before(n, q), Before(q, o) PROVE Past(q) \/ StaleTail(q)
  <2>1. q.chunk \in Nat /\ q.off \in Nat
    BY Order
  <2>2. q.chunk > gc.dst \/ (q.chunk = gc.dst /\ q.off >= gc.writingHead)
    BY <1>2, <1>4, <1>10, <2>1 DEF Before
  <2> QED BY <1>1, <1>10, <2>2, Between
<1> QED BY <1>1, <1>4, <1>6, <1>7, <1>8, <1>9, <1>10

\* The tree goes over to the copy, and the original is passed.
LEMMA SetPosKey ==
    ASSUME BaseInv, NEW k \in Keys, KeyInv(k), GCSetPos
    PROVE  KeyInv(k)'
<1>0. UNCHANGED <<file, newHead, writer, reader, acked, nextId, raced, torn, gcs, crashes>> /\ gc.at = "setpos"
      /\ gc \in GCStates /\ gc.off < Len(file[gc.src]) /\ gc.rec = At(OldPos) /\ gc.found /\ Reading
      /\ tree \in [Keys -> Items]
  BY DEF GCSetPos, BaseInv, TypeOK, Reading, ReadInv
<1> SUFFICES ASSUME ~torn, k \notin raced PROVE MoveInv(k)' /\ PlaceInv(k)'
  BY <1>0 DEF KeyInv, PlaceInv
<1>1. PlaceInv(k) /\ MoveInv(k)
  BY DEF KeyInv, PlaceInv
<1>2. gc' = [gc EXCEPT !.at = "read", !.off = gc.off + 1]
  BY DEF GCSetPos
<1>3. /\ gc'.at = "read"
      /\ gc'.begin = gc.begin /\ gc'.src = gc.src /\ gc'.dst = gc.dst
      /\ gc'.off = gc.off + 1 /\ gc'.writingHead = gc.writingHead /\ gc'.rewriting = gc.rewriting
  BY <1>0, <1>2 DEF GCStates
<1>4. MoveInv(k)'
  BY <1>3 DEF MoveInv, Moving
<1>5. Passes
  BY <1>0, <1>3 DEF Passes
<1>6. CASE gc.rec.key # k
  <2>1. tree'[k] = tree[k]
    BY <1>0, <1>6 DEF GCSetPos
  <2> QED BY <1>0, <1>1, <1>4, <1>5, <1>6, <2>1, PassOther
<1>7. CASE gc.rec.key = k
  <2>1. PICK o : o = OldPos
    OBVIOUS
  <2>2. PICK n : n = gc.newPos
    OBVIOUS
  <2>3. /\ tree[k].found /\ tree[k].pos = o /\ gc.live = tree[k].live
    BY <1>0, <1>1, <1>7, <2>1 DEF MoveInv, Moving
  <2>4. tree'[k].pos = n /\ tree'[k].live = tree[k].live /\ tree'[k].found
    BY <1>0, <1>7, <2>2, <2>3 DEF GCSetPos
  <2>5. /\ o \in Current(k) /\ At(o) = acked[k] /\ acked[k].live = tree[k].live
        /\ \A d \in Seen(k) : Before(o, d) => ~Copied(d) /\ Again(k, d)
    BY <1>1, <2>3 DEF PlaceInv, FoundInv
  <2>6. /\ n \in Slots /\ HasRecord(n) /\ At(n) = gc.rec /\ ~Before(o, n)
        /\ ~Past(n) /\ ~StaleTail(n) /\ ~Pending(n)
        /\ n # o /\ gc.dst = gc.src => gc.writingHead <= gc.off
        /\ n = o => gc.dst = gc.src /\ gc.writingHead = gc.off + 1
        /\ \A q \in Slots : HasRecord(q) /\ Before(n, q) /\ Before(q, o) => Past(q) \/ StaleTail(q)
    BY <1>0, <2>1, <2>2, CopySlot
  <2>7. /\ o \in Slots /\ HasRecord(o) /\ ~Past(o) /\ ~StaleTail(o) /\ ~Pending(o)
        /\ (gc.dst = gc.src => gc.writingHead <= gc.off) => Past(o)'
        /\ \A q \in Slots : /\ Past(q) => Before(q, o)
                            /\ q # o => (Past(q)' <=> Past(q))
                            /\ StaleTail(q)' <=> StaleTail(q)
                            /\ Pending(q)' <=> Pending(q)
                            /\ HasRecord(q)' <=> HasRecord(q)
                            /\ At(q)' = At(q)
                            /\ Copied(q)' <=> Copied(q)
    BY <1>5, <2>1, PassSlots
  <2>8. n = o => ~Past(o)'
    <3>1. o.off = gc.off /\ gc.off \in Nat
      BY <2>1, GCParts DEF OldPos, BaseInv
    <3> QED BY <1>3, <2>6, <3>1 DEF Past
  <2>9. n # o => Past(o)'
    BY <2>6, <2>7
  <2>10. PositionsOf(k)' = PositionsOf(k) /\ PositionsOf(k) \subseteq Slots /\ n \in PositionsOf(k)
    BY <1>0, <1>7, <2>6, InSlots DEF PositionsOf, HasRecord, At, Slots
  <2>11. n \in Current(k)'
    <3>1. ~Past(n)'
      BY <2>6, <2>7, <2>8
    <3> QED BY <2>6, <2>7, <2>10, <3>1 DEF Current
  <2>12. Seen(k)' = Seen(k) /\ Seen(k) \subseteq Slots /\ o \in Seen(k)
    <3>1. \A q \in Slots : q # o => (q \in Seen(k)' <=> q \in Seen(k))
      BY <2>7, <2>10 DEF Seen, Current, Passed
    <3>2. o \in Seen(k) /\ o \in Seen(k)'
      BY <2>5, <2>7, <2>10 DEF Seen, Current, Passed
    <3>3. Seen(k) \subseteq Slots /\ Seen(k)' \subseteq Slots
      BY <2>10 DEF Seen, Current, Passed
    <3> QED BY <3>1, <3>2, <3>3
  <2>13. \A d \in Seen(k) : Again(k, d) => Again(k, d)'
    <3> SUFFICES ASSUME NEW d \in Seen(k), NEW q \in Seen(k), q.chunk = d.chunk, ~Before(q, d), At(q) = acked[k]
                 PROVE  Again(k, d)'
      BY DEF Again
    <3>1. q \in Seen(k)' /\ At(q)' = acked'[k]
      BY <1>0, <2>7, <2>12
    <3> QED BY <3>1 DEF Again, Before
  <2>14. \A d \in Seen(k) : d.chunk = gc.src /\ ~Before(o, d) => Again(k, d)
    BY <2>1, <2>5, <2>12 DEF Again, OldPos
  <2>15. ASSUME NEW d \in Seen(k), Before(n, d) PROVE ~Copied(d)' /\ Again(k, d)'
    <3>1. d \in Slots
      BY <2>12
    <3>2. SUFFICES ~Copied(d) /\ Again(k, d)
      BY <2>7, <2>13, <3>1
    <3>3. CASE Before(o, d)
      BY <2>5, <3>3
    <3>4. CASE d = o
      <4>1. ~Before(o, o)
        BY <2>7, Order
      <4>2. n # o /\ o.chunk = gc.src /\ o.off = gc.off
        BY <2>1, <2>15, <3>4, <4>1 DEF OldPos
      <4>3. ~Copied(o)
        BY <2>6, <4>2, GCParts DEF Copied, BaseInv
      <4> QED BY <2>14, <3>4, <4>1, <4>2, <4>3
    <3>5. CASE Before(d, o)
      <4>1. HasRecord(d) /\ ~StaleTail(d)
        BY <2>7, <3>1 DEF Seen, Current, Passed, PositionsOf, Past, StaleTail
      <4>2. Past(d)
        BY <2>15, <2>6, <3>1, <3>5, <4>1
      <4>3. d.chunk = gc.src /\ ~Before(o, d)
        BY <2>7, <3>1, <3>5, <4>2, Order DEF Past
      <4>4. ~Copied(d)
        BY <3>1, <4>2, GCParts, Order DEF Past, Copied, BaseInv
      <4> QED BY <2>14, <4>3, <4>4
    <3> QED BY <2>7, <3>1, <3>3, <3>4, <3>5, Order
  <2>16. At(tree[k].pos)' = At(n)'
    BY <2>4 DEF At
  <2>17. At(tree[k].pos)' = acked[k]
    BY <1>0, <2>1, <2>5, <2>6, <2>7, <2>16
  <2>18. \A d \in Seen(k)' : Before(tree[k].pos, d)' => ~Copied(d)' /\ Again(k, d)'
    BY <2>4, <2>12, <2>15 DEF Before
  <2>19. FoundInv(k)'
    BY <1>0, <2>4, <2>5, <2>11, <2>17, <2>18 DEF FoundInv
  <2> QED BY <1>4, <2>4, <2>19 DEF PlaceInv
<1> QED BY <1>6, <1>7

\* The copy that gc places overwrites its original, a position that gc has passed
\* (the first of those) or left over, or comes behind the end of the file.
LEMMA PlaceSlots ==
    ASSUME BaseInv, GCPlace, NEW n, n = NewSlot, NEW o, o = OldPos
    PROVE  /\ n \in Slots /\ HasRecord(n)' /\ At(n)' = gc.rec /\ ~Before(o, n)
           /\ o \in Slots /\ HasRecord(o) /\ At(o) = gc.rec /\ HasRecord(o)' /\ At(o)' = gc.rec
           /\ ~Past(o) /\ ~StaleTail(o) /\ ~Pending(o) /\ (o # n => (Past(o)' <=> ~gc.found))
           /\ HasRecord(n) => n = o \/ Past(n) \/ StaleTail(n)
           /\ ~Past(n)' /\ ~StaleTail(n)' /\ ~Pending(n)'
           /\ \A q \in Slots : /\ Past(q) => Before(q, o)
                               /\ Past(q) /\ Past(n) => ~Before(q, n)
                               /\ HasRecord(q) /\ Before(n, q) /\ Before(q, o) => Past(q) \/ StaleTail(q)
                               /\ q # n /\ q # o => (Past(q)' <=> Past(q))
                               /\ q # n => (StaleTail(q)' <=> StaleTail(q)) /\ (HasRecord(q)' <=> HasRecord(q))
                               /\ q # n /\ HasRecord(q) => At(q)' = At(q)
                               /\ Pending(q)' <=> Pending(q)
                               /\ q # n /\ Copied(q)' => Copied(q)
                               /\ q # n /\ Past(n) /\ q.chunk = n.chunk => Before(n, q) \/ Copied(q)
<1>0. UNCHANGED <<newHead, tree, writer, reader, acked, nextId, raced, torn, gcs, crashes>> /\ gc.at = "place"
      /\ gc \in GCStates /\ TypeOK /\ Reading
  BY DEF GCPlace, BaseInv, TypeOK, Reading
<1>1. /\ gc.src \in Nat /\ gc.off \in Nat /\ gc.dst \in Nat /\ gc.dst \in Chunks /\ gc.writingHead \in Nat
      /\ gc.dst <= gc.src /\ gc.dst < newHead /\ gc.src < newHead /\ newHead \in Nat
      /\ (gc.dst = gc.src => gc.writingHead <= gc.off) /\ (~gc.rewriting => gc.writingHead = Len(file[gc.dst]))
  <2>1. gc.dst = gc.src => gc.writingHead <= gc.off + 0
    BY <1>0 DEF BaseInv, ReadInv
  <2> QED BY <1>0, <2>1, GCParts, BelowHead DEF BaseInv, ShapeInv
<1>2. gc' = [gc EXCEPT !.writingHead = gc.writingHead + 1, !.newPos = [chunk |-> gc.dst, off |-> gc.writingHead],
                       !.at = IF gc.found THEN "getpos" ELSE "read",
                       !.off = IF gc.found THEN gc.off ELSE gc.off + 1]
  BY DEF GCPlace
<1>3. /\ gc'.at = (IF gc.found THEN "getpos" ELSE "read") /\ gc'.writingHead = gc.writingHead + 1
      /\ gc'.off = (IF gc.found THEN gc.off ELSE gc.off + 1)
      /\ gc'.src = gc.src /\ gc'.dst = gc.dst /\ gc'.rewriting = gc.rewriting
  BY <1>0, <1>2 DEF GCStates
<1>4. n \in Slots /\ HasRecord(n)' /\ At(n)' = gc.rec /\ KeptBut(n)
  BY PlaceFiles
<1>5. o \in Slots /\ HasRecord(o) /\ At(o) = gc.rec
  BY <1>0, OldSlot
<1>6. n.chunk = gc.dst /\ n.off = gc.writingHead /\ o.chunk = gc.src /\ o.off = gc.off
  BY DEF NewSlot, OldPos
<1>7. HasRecord(o)' /\ At(o)' = gc.rec
  BY <1>4, <1>5 DEF KeptBut
<1>8. ~Before(o, n)
  BY <1>1, <1>6 DEF Before
<1>9. n # o <=> gc.dst # gc.src \/ gc.writingHead # gc.off
  BY <1>6 DEF NewSlot, OldPos
<1>10. Reading' /\ gc'.at # "idle"
  BY <1>3 DEF Reading
<1>11. ~Past(o) /\ ~StaleTail(o) /\ ~Pending(o) /\ (o # n => (Past(o)' <=> ~gc.found))
  <2>1. ~Past(o) /\ ~StaleTail(o)
    BY <1>1, <1>6 DEF Past, StaleTail
  <2>2. ~Pending(o)
    BY <1>1, <1>6 DEF Pending, BaseInv, WriterInv
  <2>3. o # n => (Past(o)' <=> ~gc.found)
    BY <1>1, <1>3, <1>6, <1>9, <1>10 DEF Past
  <2> QED BY <2>1, <2>2, <2>3
<1>12. HasRecord(n) => n = o \/ Past(n) \/ StaleTail(n)
  BY <1>0, <1>1, <1>6, <1>9, FileParts DEF Past, StaleTail, HasRecord
<1>13. ~Past(n)' /\ ~StaleTail(n)'
  BY <1>1, <1>3, <1>6 DEF Past, StaleTail
<1>14. ~Pending(n)'
  BY <1>0, <1>1, <1>6 DEF Pending, BaseInv, WriterInv
<1>15. ASSUME NEW q \in Slots
       PROVE  /\ Past(q) => Before(q, o)
              /\ Past(q) /\ Past(n) => ~Before(q, n)
              /\ HasRecord(q) /\ Before(n, q) /\ Before(q, o) => Past(q) \/ StaleTail(q)
              /\ q # n /\ q # o => (Past(q)' <=> Past(q))
              /\ q # n => (StaleTail(q)' <=> StaleTail(q))
              /\ q # n /\ Copied(q)' => Copied(q)
              /\ q # n /\ Past(n) /\ q.chunk = n.chunk => Before(n, q) \/ Copied(q)
  <2>1. q.chunk \in Nat /\ q.off \in Nat /\ q = [chunk |-> q.chunk, off |-> q.off]
    BY Order
  <2>2. /\ q # n => q.chunk # gc.dst \/ q.off # gc.writingHead
        /\ q # o => q.chunk # gc.src \/ q.off # gc.off
    BY <2>1 DEF NewSlot, OldPos
  <2>3. Past(q) => Before(q, o)
    BY <1>1, <1>6, <2>1 DEF Past, Before
  <2>4. Past(q) /\ Past(n) => ~Before(q, n)
    BY <1>1, <1>6, <2>1 DEF Past, Before
  <2>5. HasRecord(q) /\ Before(n, q) /\ Before(q, o) => Past(q) \/ StaleTail(q)
    <3>1. Before(n, q) => q.chunk > gc.dst \/ (q.chunk = gc.dst /\ q.off >= gc.writingHead)
      BY <1>1, <1>6, <2>1 DEF Before
    <3> QED BY <1>0, <3>1, Between
  <2>6. q # n /\ q # o => (Past(q)' <=> Past(q))
    BY <1>0, <1>1, <1>3, <1>10, <2>1, <2>2 DEF Past
  <2>7. q # n => (StaleTail(q)' <=> StaleTail(q))
    BY <1>0, <1>1, <1>3, <1>10, <2>1, <2>2 DEF StaleTail
  <2>8. q # n /\ Copied(q)' => Copied(q)
    BY <1>0, <1>1, <1>3, <2>1, <2>2 DEF Copied
  <2>9. q # n /\ Past(n) /\ q.chunk = n.chunk => Before(n, q) \/ Copied(q)
    <3>1. Past(n) => gc.dst = gc.src /\ gc.rewriting
      BY <1>0, <1>6 DEF Past, BaseInv, ShapeInv
    <3> QED BY <1>0, <1>1, <1>6, <2>1, <2>2, <3>1 DEF Before, Copied
  <2> QED BY <2>3, <2>4, <2>5, <2>6, <2>7, <2>8, <2>9
<1>16. \A q \in Slots : /\ q # n => (HasRecord(q)' <=> HasRecord(q))
                        /\ q # n /\ HasRecord(q) => At(q)' = At(q)
                        /\ Pending(q)' <=> Pending(q)
  BY <1>0, <1>4 DEF KeptBut, Pending
<1> QED BY <1>4, <1>5, <1>7, <1>8, <1>11, <1>12, <1>13, <1>14, <1>15, <1>16

LEMMA PlaceKey ==
    ASSUME BaseInv, NEW k \in Keys, KeyInv(k), GCPlace
    PROVE  KeyInv(k)'
<1>0. UNCHANGED <<newHead, tree, writer, reader, acked, nextId, raced, torn, gcs, crashes>> /\ gc.at = "place"
      /\ gc \in GCStates /\ Reading /\ (~gc.found => gc.begin > 0 /\ ~gc.rec.live) /\ gc.begin \in Nat
  BY GCParts DEF GCPlace, BaseInv, TypeOK, Reading, ReadInv
<1> SUFFICES ASSUME ~torn, k \notin raced PROVE MoveInv(k)' /\ PlaceInv(k)'
  BY <1>0 DEF KeyInv, PlaceInv
<1>1. PlaceInv(k) /\ MoveInv(k)
  BY DEF KeyInv, PlaceInv
<1>2. gc' = [gc EXCEPT !.writingHead = gc.writingHead + 1, !.newPos = [chunk |-> gc.dst, off |-> gc.writingHead],
                       !.at = IF gc.found THEN "getpos" ELSE "read",
                       !.off = IF gc.found THEN gc.off ELSE gc.off + 1]
  BY DEF GCPlace
<1>3. /\ gc'.at = (IF gc.found THEN "getpos" ELSE "read") /\ gc'.begin = gc.begin
      /\ gc'.off = (IF gc.found THEN gc.off ELSE gc.off + 1) /\ gc'.src = gc.src
      /\ gc'.rec = gc.rec /\ gc'.found = gc.found
  BY <1>0, <1>2 DEF GCStates
<1>4. MoveInv(k)'
  BY <1>0, <1>1, <1>3 DEF MoveInv, Moving, OldPos, Before
<1>5. PICK n : n = NewSlot
  OBVIOUS
<1>6. PICK o : o = OldPos
  OBVIOUS
<1>7. /\ n \in Slots /\ HasRecord(n)' /\ At(n)' = gc.rec /\ ~Before(o, n)
      /\ o \in Slots /\ HasRecord(o) /\ At(o) = gc.rec /\ HasRecord(o)' /\ At(o)' = gc.rec
      /\ ~Past(o) /\ ~StaleTail(o) /\ ~Pending(o) /\ (o # n => (Past(o)' <=> ~gc.found))
      /\ HasRecord(n) => n = o \/ Past(n) \/ StaleTail(n)
      /\ ~Past(n)' /\ ~StaleTail(n)' /\ ~Pending(n)'
      /\ \A q \in Slots : /\ Past(q) => Before(q, o)
                          /\ Past(q) /\ Past(n) => ~Before(q, n)
                          /\ HasRecord(q) /\ Before(n, q) /\ Before(q, o) => Past(q) \/ StaleTail(q)
                          /\ q # n /\ q # o => (Past(q)' <=> Past(q))
                          /\ q # n => (StaleTail(q)' <=> StaleTail(q)) /\ (HasRecord(q)' <=> HasRecord(q))
                          /\ q # n /\ HasRecord(q) => At(q)' = At(q)
                          /\ Pending(q)' <=> Pending(q)
                          /\ q # n /\ Copied(q)' => Copied(q)
                          /\ q # n /\ Past(n) /\ q.chunk = n.chunk => Before(n, q) \/ Copied(q)
  BY <1>5, <1>6, PlaceSlots
<1>8. \A q \in Slots : /\ q \in PositionsOf(k) <=> HasRecord(q) /\ At(q).key = k
                       /\ q \in PositionsOf(k)' <=> HasRecord(q)' /\ (At(q)').key = k
  BY DEF PositionsOf, Slots
<1> DEFINE C == Current(k)
           P == Passed(k)
           D == Current(k)'
           Q == Passed(k)'
<1>9. C \subseteq Slots /\ P \subseteq Slots /\ D \subseteq Slots /\ Q \subseteq Slots
  BY DEF Current, Passed, PositionsOf, Slots
<1>10. CASE gc.rec.key # k
  <2>1. ASSUME NEW q \in Slots
        PROVE  /\ q \in D <=> q \in C
               /\ q \in C => At(q)' = At(q)
               /\ q \in Q <=> q \in P /\ q # n
               /\ q \in Q => At(q)' = At(q)
    <3>1. CASE q = n
      BY <1>7, <1>8, <1>10, <3>1 DEF Current, Passed
    <3>2. CASE q # n /\ q = o
      BY <1>7, <1>8, <1>10, <3>2 DEF Current, Passed
    <3>3. CASE q # n /\ q # o
      BY <1>7, <1>8, <1>10, <3>3 DEF Current, Passed
    <3> QED BY <3>1, <3>2, <3>3
  <2>2. ASSUME NEW x \in P, NEW y \in Q PROVE x \in Q \/ Before(x, y)
    <3>1. x \in Slots /\ y \in Slots /\ y \in P /\ y # n
      BY <1>9, <2>1
    <3>2. CASE x # n
      BY <2>1, <3>1, <3>2
    <3>3. CASE x = n
      <4>1. Past(n) /\ Past(y)
        BY <3>1, <3>3 DEF Passed
      <4> QED BY <1>7, <3>1, <3>3, <4>1, Order
    <3> QED BY <3>2, <3>3
  <2>3. gc.begin = 0 => Cursor' = Cursor
    BY <1>0, <1>3 DEF Cursor, Reading
  <2>4. ~tree[k].found /\ gc'.at # "idle" /\ gc'.begin = 0 => \A q \in Current(k) : ~Before(q, Cursor')
    BY <1>0, <1>1, <1>3, <2>3 DEF PlaceInv, LostInv
  <2>5. ASSUME NEW y \in Seen(k)' PROVE y \in Slots /\ y # n
    <3>1. y \in D \cup Q /\ y \in PositionsOf(k)'
      BY <2>5 DEF Seen, Current, Passed
    <3>2. y \in Slots
      BY <1>9, <3>1
    <3> QED BY <1>7, <1>8, <1>10, <3>1, <3>2
  <2>6. \A q \in Seen(k)' : Copied(q)' => Copied(q)
    BY <1>7, <2>5
  <2>7. ASSUME NEW x \in Passed(k), NEW y \in Seen(k)'
        PROVE  x \in Passed(k)' \/ Before(x, y) \/ x.chunk # y.chunk \/ Copied(y)
    <3>1. x \in Slots /\ Past(x) /\ (x # n => x \in Passed(k)')
      BY <1>9, <2>1 DEF Passed
    <3> QED BY <1>7, <2>5, <3>1
  <2>8. PlaceInv(k)'
    BY <1>0, <1>1, <1>9, <2>1, <2>2, <2>4, <2>6, <2>7, Frame
  <2> QED BY <1>4, <2>8
<1>11. CASE gc.rec.key = k
  <2>1. n \in D /\ o \in C /\ o \in PositionsOf(k)
    BY <1>7, <1>8, <1>11 DEF Current
  <2>2. ASSUME NEW q \in Slots, q # n, q # o
        PROVE  /\ q \in D <=> q \in C
               /\ q \in Q <=> q \in P
               /\ q \in C \cup P => At(q)' = At(q)
    BY <1>7, <1>8, <2>2 DEF Current, Passed
  <2>3. n \notin Q /\ o \notin P /\ (o # n => (o \in Q <=> ~gc.found) /\ (o \in D <=> gc.found))
    BY <1>7, <1>8, <1>11 DEF Current, Passed
  <2>4. \A q \in P : Before(q, o)
    BY <1>7, <1>9 DEF Passed
  <2>5. \A q \in C : Before(n, q) => ~Before(q, o)
    BY <1>7, <1>9 DEF Current, PositionsOf
  <2>6. CASE tree[k].found
    <3>1. PICK t : t = tree[k].pos
      OBVIOUS
    <3>2. FoundInv(k) /\ t \in C /\ t \in Slots
      BY <1>1, <1>9, <2>6, <3>1 DEF PlaceInv, FoundInv
    <3>3. (gc.found => t = o) /\ (~gc.found => Before(o, t))
      BY <1>0, <1>1, <1>6, <1>11, <2>6, <3>1 DEF MoveInv, Moving
    <3>4. ~Before(t, o) /\ (t = o => gc.found)
      BY <1>7, <3>2, <3>3, Order
    <3>5. ~Before(t, n)
      BY <1>7, <3>2, <3>4, OrderTrans, Order
    <3>6. t = n => n = o
      BY <1>7, <3>2, <3>4, Order
    <3>7. t \in D
      BY <2>1, <2>2, <2>3, <3>2, <3>4
    <3>8. At(t)' = At(t)
      BY <1>7, <2>2, <3>2, <3>6
    <3>9. Seen(k) = C \cup P /\ Seen(k)' = D \cup Q
      BY DEF Seen
    <3> HIDE DEF C, P, D, Q
    <3>10. \A d \in Seen(k)' : Before(t, d) => d \in Seen(k) /\ (Copied(d)' => Copied(d))
      BY <1>7, <1>9, <2>2, <3>4, <3>5, <3>9
    <3>11. ASSUME NEW d \in Seen(k)', NEW q \in Seen(k), Before(t, d), ~Before(q, d)
           PROVE  q \in Seen(k)' /\ At(q)' = At(q)
      <4>1. d \in Slots /\ q \in Slots
        BY <1>9, <3>9
      <4>2. Before(t, q)
        BY <3>2, <3>11, <4>1, OrderTrans
      <4> QED BY <2>2, <3>4, <3>5, <3>9, <4>1, <4>2
    <3>12. tree'[k] = tree[k] /\ acked'[k] = acked[k] /\ t \in Current(k)'
      BY <1>0, <3>7 DEF D
    <3>13. FoundInv(k)'
      BY <3>1, <3>2, <3>8, <3>10, <3>11, <3>12, FoundFrame
    <3> QED BY <1>4, <2>6, <3>12, <3>13 DEF PlaceInv
  <2>7. CASE ~tree[k].found
    <3>1. ~gc.found /\ ~gc.rec.live /\ gc.begin > 0
      BY <1>0, <1>1, <1>11, <2>7 DEF MoveInv, Moving
    <3>2. /\ ~acked[k].live
          /\ \A q \in Slots : LastOf(q, C) => ~At(q).live
          /\ \A q \in Slots : LastOf(q, C \cup P) => ~At(q).live
      BY <1>1, <2>7 DEF PlaceInv, LostInv
    <3>3. ASSUME NEW q \in Slots, LastOf(q, D) PROVE ~(At(q)').live
      <4>1. q \in D /\ \A x \in D : ~Before(q, x)
        BY <3>3 DEF LastOf
      <4>2. CASE q = n
        BY <1>7, <3>1, <4>2
      <4>3. CASE q # n
        <5>1. q # o /\ q \in C
          BY <2>2, <2>3, <3>1, <4>1, <4>3
        <5>2. Before(n, q)
          BY <1>7, <2>1, <4>1, <4>3, Order
        <5>3. ~Before(q, o)
          BY <2>5, <5>1, <5>2
        <5>4. ASSUME NEW x \in C PROVE ~Before(q, x)
          <6>1. CASE x = o
            BY <5>3, <6>1
          <6>2. CASE x # o
            <7>1. x \in D
              BY <1>9, <2>1, <2>2, <5>4, <6>2
            <7> QED BY <4>1, <7>1
          <6> QED BY <6>1, <6>2
        <5>5. LastOf(q, C) /\ At(q)' = At(q)
          BY <2>2, <4>3, <5>1, <5>4 DEF LastOf
        <5> QED BY <3>2, <5>5
      <4> QED BY <4>2, <4>3
    <3>4. ASSUME NEW q \in Slots, LastOf(q, D \cup Q) PROVE ~(At(q)').live
      <4>1. q \in D \cup Q /\ \A x \in D \cup Q : ~Before(q, x)
        BY <3>4 DEF LastOf
      <4>2. CASE q = n \/ q = o
        BY <1>7, <3>1, <4>2
      <4>3. CASE q # n /\ q # o
        <5>1. q \in C \cup P
          BY <2>2, <4>1, <4>3
        <5>2. ASSUME NEW x \in C \cup P PROVE ~Before(q, x)
          <6>1. x \in D \cup Q
            BY <1>9, <2>1, <2>2, <2>3, <3>1, <5>2
          <6> QED BY <4>1, <6>1
        <5>3. LastOf(q, C \cup P) /\ At(q)' = At(q)
          BY <2>2, <4>3, <5>1, <5>2 DEF LastOf
        <5> QED BY <3>2, <5>3
      <4> QED BY <4>2, <4>3
    <3> HIDE DEF C, P
    <3>5. tree'[k] = tree[k] /\ acked'[k] = acked[k] /\ gc'.begin # 0
      BY <1>0, <1>3, <3>1
    <3>6. \A q \in Slots : LastOf(q, Current(k))' => ~(At(q)').live
      BY <3>3 DEF LastOf, Before
    <3>7. \A q \in Slots : LastOf(q, Current(k) \cup Passed(k))' => ~(At(q)').live
      BY <3>4 DEF LastOf, Before
    <3>8. LostInv(k)'
      BY <3>2, <3>5, <3>6, <3>7 DEF LostInv
    <3> QED BY <1>4, <2>7, <3>5, <3>8 DEF PlaceInv
  <2> QED BY <2>6, <2>7
<1> QED BY <1>10, <1>11

-----------------------------------------------------------------------------
(* Restart *)

\* The last position of a key, unless a file has an old tail: the record that is
\* being written, what clients know, or the tombstone of a key that is deleted.
LEMMA Survivor ==
    ASSUME BaseInv, NEW k \in Keys, PlaceInv(k), \A p \in PositionsOf(k) : ~StaleTail(p),
           NEW m, LastOf(m, PositionsOf(k))
    PROVE  \/ writer.at = "tree" /\ At(m) = writer.rec /\ writer.rec.key = k /\ acked[k].id < writer.rec.id
           \/ tree[k].found /\ At(m) = acked[k]
           \/ ~tree[k].found /\ ~acked[k].live /\ ~At(m).live
<1>1. m \in PositionsOf(k) /\ m \in Slots /\ At(m).key = k /\ \A q \in PositionsOf(k) : ~Before(m, q)
  BY InSlots DEF LastOf, PositionsOf
<1>2. CASE Pending(m)
  <2>1. writer.at = "tree" /\ m = writer.pos
    BY <1>2 DEF Pending
  <2>2. writer.rec = At(m) /\ acked[k].id < writer.rec.id
    BY <2>1 DEF BaseInv, WriterInv
  <2> QED BY <1>1, <2>1, <2>2
<1>3. CASE ~Pending(m)
  <2>1. m \in Current(k) \/ m \in Passed(k)
    BY <1>1, <1>3 DEF Current, Passed
  <2>2. Current(k) \subseteq PositionsOf(k) /\ Passed(k) \subseteq PositionsOf(k) /\ Current(k) \subseteq Slots
    BY InSlots DEF Current, Passed
  <2>3. CASE tree[k].found
    <3>1. PICK t : t = tree[k].pos
      OBVIOUS
    <3>2. /\ t \in Current(k) /\ At(t) = acked[k] /\ m \in Seen(k)
          /\ \A d \in Seen(k) : Before(t, d) => Again(k, d)
      BY <2>1, <2>3, <3>1 DEF PlaceInv, FoundInv, Seen
    <3>3. ~Before(m, t) /\ t \in Slots
      BY <1>1, <2>2, <3>2
    <3>4. CASE m = t
      BY <2>3, <3>2, <3>4
    <3>5. CASE m # t
      <4>1. Again(k, m)
        BY <1>1, <3>2, <3>3, <3>5, Order
      <4>2. PICK q \in Seen(k) : ~Before(q, m) /\ At(q) = acked[k]
        BY <4>1 DEF Again
      <4>3. q \in PositionsOf(k) /\ q \in Slots
        BY <4>2, InSlots DEF Seen, Current, Passed
      <4>4. q = m
        BY <1>1, <4>2, <4>3, Order
      <4> QED BY <2>3, <4>2, <4>4
    <3> QED BY <3>4, <3>5
  <2>4. CASE ~tree[k].found
    <3>1. LastOf(m, Current(k) \cup Passed(k))
      BY <1>1, <2>1, <2>2 DEF LastOf
    <3> QED BY <1>1, <2>4, <3>1 DEF PlaceInv, LostInv
  <2> QED BY <2>3, <2>4
<1> QED BY <1>2, <1>3

\* A key without a record is not in the tree.
LEMMA NoSurvivor ==
    ASSUME NEW k \in Keys, PlaceInv(k), PositionsOf(k) = {}
    PROVE  ~acked[k].live
BY DEF PlaceInv, FoundInv, LostInv, Current

LEMMA CrashKey ==
    ASSUME BaseInv, NEW k \in Keys, KeyInv(k), Crash
    PROVE  KeyInv(k)'
<1>0. UNCHANGED <<file, nextId, raced, gcs>> /\ gc'.at = "idle" /\ writer'.at = "idle"
  BY DEF Crash, NoGC, NoWrite
<1> SUFFICES ASSUME ~torn', k \notin raced PROVE MoveInv(k)' /\ PlaceInv(k)'
  BY <1>0 DEF KeyInv, PlaceInv
<1>1. ~torn /\ \A p \in PositionsOf(k) : ~StaleTail(p)
  BY DEF Crash
<1>2. PlaceInv(k)
  BY <1>1 DEF KeyInv, PlaceInv
<1>3. MoveInv(k)'
  BY <1>0 DEF MoveInv, Moving
<1>4. Current(k)' = PositionsOf(k) /\ Passed(k)' = {}
  <2>1. PositionsOf(k)' = PositionsOf(k)
    BY <1>0 DEF PositionsOf, HasRecord, At
  <2>2. \A q \in Slots : ~Past(q)' /\ ~StaleTail(q)' /\ ~Pending(q)'
    BY <1>0 DEF Past, Reading, StaleTail, Pending
  <2>3. PositionsOf(k) \subseteq Slots
    BY InSlots
  <2> QED BY <2>1, <2>2, <2>3 DEF Current, Passed
<1>5. /\ tree'[k] = Rebuilt(k)
      /\ acked'[k] = IF PositionsOf(k) # {} /\ At(LastPosition(k)).id > acked[k].id
                     THEN At(LastPosition(k)) ELSE acked[k]
  BY DEF Crash
<1>6. CASE PositionsOf(k) = {}
  <2>1. ~acked[k].live /\ acked'[k] = acked[k] /\ ~tree'[k].found
    BY <1>2, <1>5, <1>6, NoSurvivor DEF Rebuilt, None
  <2>2. LostInv(k)'
    BY <1>0, <1>4, <1>6, <2>1 DEF LostInv, LastOf
  <2> QED BY <1>3, <2>1, <2>2 DEF PlaceInv
<1>7. CASE PositionsOf(k) # {}
  <2>1. PICK m : m = LastPosition(k)
    OBVIOUS
  <2>2. LastOf(m, PositionsOf(k)) /\ m \in Slots /\ HasRecord(m)
    BY <1>7, <2>1, LastSlot
  <2>3. \A q \in Slots : LastOf(q, PositionsOf(k)) => q = m
    BY <2>2, Order, InSlots DEF LastOf
  <2>4. /\ At(m).id \in Nat /\ acked[k].id \in Nat
    BY <2>2, SlotParts, RecordParts DEF BaseInv, TypeOK
  <2>5. \/ writer.at = "tree" /\ At(m) = writer.rec /\ writer.rec.key = k /\ acked[k].id < writer.rec.id
        \/ tree[k].found /\ At(m) = acked[k]
        \/ ~tree[k].found /\ ~acked[k].live /\ ~At(m).live
    BY <1>1, <1>2, <2>2, Survivor
  <2>6. acked'[k] = IF At(m).id > acked[k].id THEN At(m) ELSE acked[k]
    BY <1>5, <1>7, <2>1
  <2>7. acked'[k] = At(m) \/ (~acked'[k].live /\ ~At(m).live)
    BY <2>4, <2>5, <2>6
  <2>8. At(m)' = At(m)
    BY <1>0 DEF At
  <2>9. CASE At(m).live
    <3>1. tree'[k] = [pos |-> m, live |-> TRUE, found |-> TRUE]
      BY <1>5, <1>7, <2>1, <2>9 DEF Rebuilt
    <3>2. tree'[k].pos = m /\ tree'[k].live = TRUE /\ tree'[k].found
      BY <3>1
    <3>3. acked'[k] = At(m)
      BY <2>7, <2>9
    <3>4. At(m).live = TRUE
      <4>1. At(m).live \in BOOLEAN
        BY <2>2, SlotParts DEF Records, BaseInv
      <4> QED BY <2>9, <4>1
    <3>5. At(tree[k].pos)' = At(m)'
      BY <3>2 DEF At
    <3>6. tree'[k].pos \in Current(k)'
      BY <1>4, <2>2, <3>2 DEF LastOf
    <3>7. \A d \in Seen(k)' : ~Before(tree[k].pos, d)'
      BY <1>4, <2>2, <3>2 DEF LastOf, Seen, Before
    <3>8. FoundInv(k)'
      BY <2>8, <3>2, <3>3, <3>4, <3>5, <3>6, <3>7 DEF FoundInv
    <3> QED BY <1>3, <3>2, <3>8 DEF PlaceInv
  <2>10. CASE ~At(m).live
    <3>1. ~tree'[k].found
      BY <1>5, <2>1, <2>10 DEF Rebuilt, None
    <3>2. ~acked'[k].live
      BY <2>7, <2>10
    <3>3. \A q \in Slots : LastOf(q, Current(k))' => ~(At(q)').live
      BY <1>4, <2>3, <2>8, <2>10 DEF LastOf, Before
    <3>4. \A q \in Slots : LastOf(q, Current(k) \cup Passed(k))' => ~(At(q)').live
      BY <1>4, <2>3, <2>8, <2>10 DEF LastOf, Before
    <3>5. LostInv(k)'
      BY <1>0, <3>2, <3>3, <3>4 DEF LostInv
    <3> QED BY <1>3, <3>1, <3>5 DEF PlaceInv
  <2> QED BY <2>9, <2>10
<1> QED BY <1>6, <1>7

\* Every step keeps a key's part of the invariant.
LEMMA NextKey ==
    ASSUME BaseInv, NEW k \in Keys, KeyInv(k), [Next]_vars
    PROVE  KeyInv(k)'
<1>1. ASSUME NEW l \in Keys, NEW live \in BOOLEAN, WriteAppend(l, live) PROVE KeyInv(k)'
  BY <1>1, AppendKey
<1>2. ASSUME NEW b \in Chunks, NEW e \in Chunks, GCStart(b, e) PROVE KeyInv(k)'
  BY <1>2, StartKey
<1>3. CASE ReadFile \/ ReadReturn \/ UNCHANGED vars \/ \E l \in Keys : ReadTree(l)
  BY <1>3, StillKey DEF ReadTree, ReadFile, ReadReturn, vars
<1>4. CASE GCCancel
  <2>1. /\ gc'.at = gc.at /\ gc'.begin = gc.begin /\ gc'.src = gc.src /\ gc'.dst = gc.dst
        /\ gc'.off = gc.off /\ gc'.writingHead = gc.writingHead /\ gc'.rewriting = gc.rewriting
        /\ gc'.rec = gc.rec /\ gc'.found = gc.found /\ gc'.live = gc.live
    BY <1>4 DEF GCCancel, BaseInv, TypeOK, GCStates
  <2> QED BY <1>4, <2>1, StillKey DEF GCCancel
<1> QED BY <1>1, <1>2, <1>3, <1>4, TreeKey, ChunkKey, ReadKey, ReadFailsKey, NextDstKey, PlaceKey, GetPosKey,
       SetPosKey, DoneKey, AfterKey, CrashKey DEF Next

-----------------------------------------------------------------------------
(* The reader *)

\* What a step has to leave alone.
ReaderAt ==
    LET k == reader.key
        p == reader.item.pos
    IN  /\ HasRecord(p) /\ At(p).key = k => At(p).id >= reader.floor.id
        /\ gc.at = "place" /\ gc.rec.key = k /\ ~gc.found => ~Before(p, OldPos)

LEMMA ReaderStays ==
    ASSUME TypeOK, TypeOK', ReaderInv, ReadFresh, UNCHANGED reader, torn => torn', raced \subseteq raced',
           \A k \in Keys : acked'[k].id >= acked[k].id, \A k \in Keys : tree[k].found => tree'[k].found,
           reader.at = "file" /\ ~torn /\ reader.key \notin raced /\ ReaderAt => ReaderAt'
    PROVE  ReaderInv' /\ ReadFresh'
<1>1. ReadFresh'
  BY DEF ReadFresh
<1>2. reader.key \in Keys /\ reader.floor.id \in Nat
  BY RecordParts DEF TypeOK
<1>3. acked[reader.key].id \in Nat /\ acked'[reader.key].id \in Nat
  BY <1>2, RecordParts DEF TypeOK
<1>4. reader.at # "idle" => reader.floor.id <= acked'[reader.key].id
  BY <1>2, <1>3 DEF ReaderInv
<1>5. reader.at # "idle" => (reader.item.found => tree'[reader.key].found) /\ (reader.at = "file" => reader.item.found)
  BY <1>2 DEF ReaderInv
<1>6. ~torn' /\ reader.key \notin raced' /\ reader.at = "file" => ReaderAt'
  BY DEF ReaderInv, ReaderAt
<1> QED BY <1>1, <1>4, <1>5, <1>6 DEF ReaderInv, ReaderAt

\* A step that adds no record, and does not come to a tombstone of the reader's
\* key that the tree does not know.
LEMMA ReaderLoses ==
    ASSUME BaseInv, BaseInv', ReaderInv, ReadFresh, UNCHANGED <<reader, acked, raced>>, torn => torn',
           \A k \in Keys : tree[k].found => tree'[k].found,
           \A q \in Slots : HasRecord(q)' => HasRecord(q) /\ At(q)' = At(q),
           \/ gc'.at # "place"
           \/ gc.at = "place" /\ gc'.rec = gc.rec /\ gc'.found = gc.found /\ gc'.src = gc.src /\ gc'.off = gc.off
           \/ gc'.found = tree[gc'.rec.key].found
    PROVE  ReaderInv' /\ ReadFresh'
<1>1. TypeOK /\ TypeOK'
  BY DEF BaseInv
<1>2. \A k \in Keys : acked'[k].id >= acked[k].id
  <2>1. \A k \in Keys : acked[k].id \in Nat
    BY <1>1, RecordParts DEF TypeOK
  <2> QED BY <2>1
<1>3. ASSUME reader.at = "file", ReaderAt PROVE ReaderAt'
  <2>1. PICK p : p = reader.item.pos
    OBVIOUS
  <2>2. p.chunk \in Chunks /\ p.off \in Nat /\ p = [chunk |-> p.chunk, off |-> p.off]
    BY <1>1, <2>1 DEF TypeOK, Items, Positions
  <2>3. HasRecord(p)' => p \in Slots
    <3>1. file' \in [Chunks -> Seq(Records)] /\ \A c \in Chunks : Len(file'[c]) <= DataFileMax
      BY <1>1 DEF TypeOK
    <3>2. Len(file'[p.chunk]) \in Nat /\ Len(file'[p.chunk]) <= DataFileMax
      BY <2>2, <3>1
    <3>3. HasRecord(p)' => p.off \in 0 .. DataFileMax - 1
      BY <2>2, <3>2, Numbers DEF HasRecord
    <3> QED BY <2>2, <3>3 DEF Slots
  <2>4. HasRecord(p)' /\ (At(p)').key = reader.key => (At(p)').id >= reader.floor.id
    BY <1>3, <2>1, <2>3 DEF ReaderAt
  <2>5. gc'.at = "place" /\ gc'.rec.key = reader.key /\ ~gc'.found => ~Before(p, OldPos')
    <3>1. tree[reader.key].found
      BY <1>3 DEF ReaderInv
    <3> QED BY <1>3, <2>1, <3>1 DEF ReaderAt, OldPos
  <2>6. HasRecord(reader.item.pos)' = HasRecord(p)' /\ At(reader.item.pos)' = At(p)'
    BY <2>1 DEF HasRecord, At
  <2>7. Before(reader.item.pos, OldPos)' = Before(p, OldPos')
    BY <2>1 DEF Before
  <2> QED BY <2>4, <2>5, <2>6, <2>7 DEF ReaderAt
<1> QED BY <1>1, <1>2, <1>3, ReaderStays

\* The get itself.
LEMMA GetReader ==
    ASSUME BaseInv, \A k \in Keys : KeyInv(k), ReaderInv, ReadFresh,
           ReadFile \/ ReadReturn \/ \E k \in Keys : ReadTree(k)
    PROVE  ReaderInv' /\ ReadFresh'
<1>1. ASSUME NEW k \in Keys, ReadTree(k) PROVE ReaderInv' /\ ReadFresh'
  <2>1. /\ UNCHANGED <<file, newHead, tree, writer, gc, acked, nextId, raced, torn, gcs, crashes>>
        /\ reader'.at = (IF tree[k].found THEN "file" ELSE "done") /\ reader'.key = k /\ reader'.item = tree[k]
        /\ reader'.floor = acked[k]
    BY <1>1 DEF ReadTree
  <2>2. acked[k].id \in Nat
    BY RecordParts DEF BaseInv, TypeOK
  <2>3. CASE tree[k].found
    <3>1. PICK p : p = tree[k].pos
      OBVIOUS
    <3>2. ASSUME ~torn, k \notin raced
          PROVE  /\ At(p) = acked[k]
                 /\ gc.at = "place" /\ gc.rec.key = k /\ ~gc.found => ~Before(p, OldPos)
      <4>1. p \in Current(k) /\ At(p) = acked[k]
        BY <2>3, <3>1, <3>2 DEF KeyInv, FoundInv
      <4>2. gc.at = "place" /\ gc.rec.key = k /\ ~gc.found => Before(OldPos, p)
        BY <2>3, <3>1, <3>2 DEF KeyInv, MoveInv
      <4>3. gc.at = "place" => OldPos \in Slots
        BY OldSlot
      <4> QED BY <4>1, <4>2, <4>3, InSlots, Order
    <3>3. /\ At(reader.item.pos)' = At(p) /\ OldPos' = OldPos
          /\ Before(reader.item.pos, OldPos)' = Before(p, OldPos)
      BY <2>1, <3>1 DEF At, OldPos, Before
    <3>4. ReaderInv'
      BY <2>1, <2>2, <2>3, <3>2, <3>3 DEF ReaderInv
    <3>5. ReadFresh'
      BY <2>1, <2>3 DEF ReadFresh
    <3> QED BY <3>4, <3>5
  <2>4. CASE ~tree[k].found
    <3>1. ~torn /\ k \notin raced => ~acked[k].live
      BY <2>4 DEF KeyInv, LostInv
    <3>2. ReaderInv'
      BY <2>1, <2>2, <2>4 DEF ReaderInv
    <3>3. ReadFresh'
      BY <2>1, <2>4, <3>1 DEF ReadFresh
    <3> QED BY <3>2, <3>3
  <2> QED BY <2>3, <2>4
<1>2. CASE ReadFile
  <2>1. /\ UNCHANGED <<file, newHead, tree, writer, gc, acked, nextId, raced, torn, gcs, crashes>> /\ reader.at = "file"
        /\ reader' = [reader EXCEPT !.at = "done",
                        !.got = IF HasRecord(reader.item.pos) /\ At(reader.item.pos).key = reader.key
                                THEN At(reader.item.pos) ELSE Failed]
    BY <1>2 DEF ReadFile
  <2>2. /\ reader'.at = "done" /\ reader'.key = reader.key /\ reader'.item = reader.item
        /\ reader'.floor = reader.floor
        /\ reader'.got = IF HasRecord(reader.item.pos) /\ At(reader.item.pos).key = reader.key
                         THEN At(reader.item.pos) ELSE Failed
    BY <2>1 DEF BaseInv, TypeOK
  <2>3. ReaderInv'
    BY <2>1, <2>2 DEF ReaderInv
  <2>4. ReadFresh'
    BY <2>1, <2>2 DEF ReaderInv, ReadFresh
  <2> QED BY <2>3, <2>4
<1>3. CASE ReadReturn
  BY <1>3 DEF ReadReturn, NoRead, ReaderInv, ReadFresh
<1> QED BY <1>1, <1>2, <1>3

LEMMA AppendReader ==
    ASSUME BaseInv, BaseInv', IdInv, ReaderInv, ReadFresh, NEW k \in Keys, NEW live \in BOOLEAN, WriteAppend(k, live)
    PROVE  ReaderInv' /\ ReadFresh'
<1>0. /\ UNCHANGED <<tree, reader, gc, acked, raced, torn, gcs, crashes>> /\ TypeOK /\ TypeOK'
  BY DEF WriteAppend, BaseInv
<1>1. PICK h : h = newHead'
  OBVIOUS
<1>2. /\ h \in Chunks /\ Len(file'[h]) = Len(file[h]) + 1
      /\ file'[h][Len(file'[h])] = [key |-> k, id |-> nextId, live |-> live]
      /\ \A c \in Chunks : c # h => file'[c] = file[c]
      /\ \A i \in 1 .. Len(file[h]) : file'[h][i] = file[h][i]
  BY <1>1, AppendFiles DEF BaseInv
<1>3. \A l \in Keys : acked[l].id \in Nat /\ acked[l].id < nextId
  <2>1. \A l \in Keys : acked[l] \in Known
    BY DEF Known
  <2> QED BY <1>0, <2>1, RecordParts DEF IdInv, TypeOK
<1>4. ASSUME reader.at = "file", ReaderAt PROVE ReaderAt'
  <2>1. PICK p : p = reader.item.pos
    OBVIOUS
  <2>2. p.chunk \in Chunks /\ p.off \in Nat /\ reader.key \in Keys /\ reader.floor.id \in Nat /\ nextId \in Nat
    <3>1. p.chunk \in Chunks /\ p.off \in Nat /\ reader.key \in Keys /\ reader.floor \in KnownRecords
      BY <1>0, <2>1 DEF TypeOK, Items, Positions
    <3>2. nextId \in Nat
      BY <1>0, Numbers DEF TypeOK
    <3> QED BY <3>1, <3>2, RecordParts
  <2>3. reader.floor.id <= nextId
    BY <1>3, <1>4, <2>2 DEF ReaderInv
  <2>4. HasRecord(p)' /\ (At(p)').key = reader.key => (At(p)').id >= reader.floor.id
    <3>1. CASE p.chunk # h
      BY <1>2, <1>4, <2>1, <2>2, <3>1 DEF ReaderAt, HasRecord, At
    <3>2. CASE p.chunk = h /\ p.off < Len(file[h])
      <4>1. p.off + 1 \in 1 .. Len(file[h])
        BY <1>0, <1>2, <2>2, <3>2, FileParts
      <4> QED BY <1>2, <1>4, <2>1, <3>2, <4>1 DEF ReaderAt, HasRecord, At
    <3>3. CASE p.chunk = h /\ ~(p.off < Len(file[h]))
      <4>1. Len(file[h]) \in Nat
        BY <1>0, <1>2, FileParts
      <4>2. HasRecord(p)' => p.off + 1 = Len(file'[h])
        BY <1>2, <2>2, <3>3, <4>1 DEF HasRecord
      <4>3. HasRecord(p)' => (At(p)').id = nextId
        BY <1>2, <3>3, <4>2 DEF At
      <4> QED BY <2>2, <2>3, <4>3
    <3> QED BY <3>1, <3>2, <3>3
  <2>5. HasRecord(reader.item.pos)' = HasRecord(p)' /\ At(reader.item.pos)' = At(p)'
    BY <1>0, <2>1 DEF HasRecord, At
  <2>6. OldPos' = OldPos /\ Before(reader.item.pos, OldPos)' = Before(reader.item.pos, OldPos)
    BY <1>0 DEF OldPos, Before
  <2> QED BY <1>0, <1>4, <2>4, <2>5, <2>6 DEF ReaderAt
<1>5. \A l \in Keys : acked'[l].id >= acked[l].id
  BY <1>0, <1>3
<1> QED BY <1>0, <1>4, <1>5, ReaderStays

LEMMA TreeReader ==
    ASSUME BaseInv, BaseInv', ReaderInv, ReadFresh, WriteTree
    PROVE  ReaderInv' /\ ReadFresh'
<1>0. /\ UNCHANGED <<file, newHead, reader, gc, nextId, torn, gcs, crashes>> /\ TypeOK /\ TypeOK' /\ writer.at = "tree"
  BY DEF WriteTree, BaseInv
<1>1. raced \subseteq raced'
  BY DEF WriteTree
<1>2. ASSUME NEW l \in Keys PROVE acked'[l].id >= acked[l].id /\ (tree[l].found => tree'[l].found)
  <2>1. acked[l].id \in Nat /\ acked'[l].id \in Nat
    BY <1>0, RecordParts DEF TypeOK
  <2>2. acked'[l] = acked[l] \/ acked'[l] = writer.rec
    BY <1>0 DEF WriteTree, TypeOK
  <2>3. acked[l].id < writer.rec.id
    BY <1>0 DEF BaseInv, WriterInv
  <2>4. tree[l].found => tree'[l].found
    BY <1>0 DEF WriteTree, TypeOK
  <2> QED BY <2>1, <2>2, <2>3, <2>4
<1>3. ReaderAt => ReaderAt'
  BY <1>0 DEF ReaderAt, HasRecord, At, OldPos, Before
<1> QED BY <1>0, <1>1, <1>2, <1>3, ReaderStays

\* A copy that gc places where a get is about to read is what clients know, or
\* was there before.
LEMMA PlaceReader ==
    ASSUME BaseInv, BaseInv', \A k \in Keys : KeyInv(k), ReaderInv, ReadFresh, GCPlace
    PROVE  ReaderInv' /\ ReadFresh'
<1>0. UNCHANGED <<newHead, tree, writer, reader, acked, nextId, raced, torn, gcs, crashes>> /\ gc.at = "place"
      /\ gc \in GCStates /\ TypeOK /\ TypeOK'
  BY DEF GCPlace, BaseInv, TypeOK
<1>1. gc'.at # "place"
  BY <1>0 DEF GCPlace, GCStates
<1>2. PICK n : n = NewSlot
  OBVIOUS
<1>3. PICK o : o = OldPos
  OBVIOUS
<1>4. /\ n \in Slots /\ HasRecord(n)' /\ At(n)' = gc.rec /\ ~Before(o, n)
      /\ o \in Slots /\ HasRecord(o) /\ At(o) = gc.rec
      /\ \A q \in Slots : q # n => (HasRecord(q)' <=> HasRecord(q)) /\ (HasRecord(q) => At(q)' = At(q))
  BY <1>2, <1>3, PlaceSlots
<1>5. \A l \in Keys : acked[l].id \in Nat
  BY <1>0, RecordParts DEF TypeOK
<1>6. ASSUME reader.at = "file", ~torn, reader.key \notin raced, ReaderAt PROVE ReaderAt'
  <2>1. PICK p : p = reader.item.pos
    OBVIOUS
  <2>2. p.chunk \in Chunks /\ p.off \in Nat /\ reader.key \in Keys /\ p = [chunk |-> p.chunk, off |-> p.off]
    BY <1>0, <2>1 DEF TypeOK, Items, Positions
  <2>3. HasRecord(p)' => p \in Slots
    <3>1. file' \in [Chunks -> Seq(Records)] /\ \A c \in Chunks : Len(file'[c]) <= DataFileMax
      BY <1>0 DEF TypeOK
    <3>2. Len(file'[p.chunk]) \in Nat /\ Len(file'[p.chunk]) <= DataFileMax
      BY <2>2, <3>1
    <3>3. HasRecord(p)' => p.off \in 0 .. DataFileMax - 1
      BY <2>2, <3>2, Numbers DEF HasRecord
    <3> QED BY <2>2, <3>3 DEF Slots
  <2>4. ASSUME HasRecord(p)', (At(p)').key = reader.key PROVE (At(p)').id >= reader.floor.id
    <3>1. CASE p # n
      BY <1>4, <1>6, <2>1, <2>3, <2>4, <3>1 DEF ReaderAt
    <3>2. CASE p = n /\ gc.found
      <4>1. gc.rec.key = reader.key
        BY <1>4, <2>4, <3>2
      <4>2. tree[reader.key].found /\ tree[reader.key].pos = o
        BY <1>0, <1>3, <1>6, <2>2, <3>2, <4>1 DEF KeyInv, MoveInv, Moving
      <4>3. At(o) = acked[reader.key]
        BY <1>6, <2>2, <4>2 DEF KeyInv, FoundInv
      <4>4. reader.floor.id <= acked[reader.key].id /\ reader.floor.id \in Nat
        BY <1>0, <1>6, RecordParts DEF ReaderInv, TypeOK
      <4> QED BY <1>4, <1>5, <2>2, <3>2, <4>3, <4>4
    <3>3. CASE p = n /\ ~gc.found
      <4>1. gc.rec.key = reader.key
        BY <1>4, <2>4, <3>3
      <4>2. ~Before(p, o)
        BY <1>0, <1>3, <1>6, <2>1, <3>3, <4>1 DEF ReaderAt
      <4>3. p = o
        BY <1>4, <3>3, <4>2, Order
      <4> QED BY <1>4, <1>6, <2>1, <3>3, <4>1, <4>3 DEF ReaderAt
    <3> QED BY <3>1, <3>2, <3>3
  <2>5. HasRecord(reader.item.pos)' = HasRecord(p)' /\ At(reader.item.pos)' = At(p)'
    BY <1>0, <2>1 DEF HasRecord, At
  <2> QED BY <1>0, <1>1, <2>4, <2>5 DEF ReaderAt
<1>7. \A l \in Keys : acked'[l].id >= acked[l].id
  BY <1>0, <1>5
<1> QED BY <1>0, <1>6, <1>7, ReaderStays

LEMMA NextReader ==
    ASSUME BaseInv, BaseInv', IdInv, \A k \in Keys : KeyInv(k), ReaderInv, ReadFresh, [Next]_vars
    PROVE  ReaderInv' /\ ReadFresh'
<1>0. gc \in GCStates
  BY DEF BaseInv, TypeOK
<1>1. ASSUME UNCHANGED file PROVE \A q \in Slots : HasRecord(q)' => HasRecord(q) /\ At(q)' = At(q)
  BY <1>1 DEF HasRecord, At
<1>2. ASSUME NEW k \in Keys, NEW live \in BOOLEAN, WriteAppend(k, live) PROVE ReaderInv' /\ ReadFresh'
  BY <1>2, AppendReader
<1>3. CASE Crash
  BY <1>3 DEF Crash, NoRead, ReaderInv, ReadFresh
<1>4. ASSUME NEW b \in Chunks, NEW e \in Chunks, GCStart(b, e) PROVE ReaderInv' /\ ReadFresh'
  <2>1. gc'.at # "place"
    BY <1>4 DEF GCStart, BeginWriting, NoGC
  <2> QED BY <1>1, <1>4, <2>1, ReaderLoses DEF GCStart
<1>5. CASE GCCancel \/ UNCHANGED vars
  <2>1. gc'.at = gc.at /\ gc'.rec = gc.rec /\ gc'.found = gc.found /\ gc'.src = gc.src /\ gc'.off = gc.off
    BY <1>0, <1>5 DEF GCCancel, GCStates, vars
  <2>2. UNCHANGED <<file, tree, reader, acked, raced, torn>>
    BY <1>5 DEF GCCancel, vars
  <2> QED BY <1>1, <2>1, <2>2, ReaderLoses
<1>6. CASE GCChunk
  <2>1. gc'.at # "place"
    BY <1>0, <1>6 DEF GCChunk, GCStates
  <2> QED BY <1>1, <1>6, <2>1, ReaderLoses DEF GCChunk
<1>7. CASE GCRead
  <2>1. gc'.at # "place" \/ gc'.found = tree[gc'.rec.key].found
    BY <1>0, <1>7 DEF GCRead, GCStates
  <2> QED BY <1>1, <1>7, <2>1, ReaderLoses DEF GCRead
<1>8. CASE GCNextDst \/ GCNextDstFails
  <2>1. /\ UNCHANGED <<file, tree, reader, acked, raced>> /\ (torn => torn') /\ gc.at = "place"
        /\ gc'.rec = gc.rec /\ gc'.found = gc.found /\ gc'.src = gc.src /\ gc'.off = gc.off
    BY <1>8, NextDstFiles
  <2> QED BY <1>1, <2>1, ReaderLoses
<1>9. CASE GCGetPos
  <2>1. gc'.at # "place"
    BY <1>0, <1>9 DEF GCGetPos, GCStates
  <2> QED BY <1>1, <1>9, <2>1, ReaderLoses DEF GCGetPos
<1>10. CASE GCSetPos
  <2>1. gc'.at # "place"
    BY <1>0, <1>10 DEF GCSetPos, GCStates
  <2>2. \A k \in Keys : tree[k].found => tree'[k].found
    BY <1>10 DEF GCSetPos, BaseInv, TypeOK
  <2> QED BY <1>1, <1>10, <2>1, <2>2, ReaderLoses DEF GCSetPos
<1>11. CASE GCChunkDone
  <2>1. gc'.at # "place"
    BY <1>0, <1>11 DEF GCChunkDone, GCStates
  <2>2. gc.src \in Chunks /\ TypeOK
    <3>1. gc.src <= gc.end /\ gc.src \in Nat /\ gc.end \in Chunks /\ gc.end \in Nat
      BY <1>11, GCParts DEF GCChunkDone, BaseInv, ReadInv, Reading
    <3> QED BY <3>1, Numbers DEF BaseInv
  <2>3. \A q \in Slots : HasRecord(q)' => HasRecord(q) /\ At(q)' = At(q)
    BY <1>11, <2>2, DoneFiles
  <2> QED BY <1>11, <2>1, <2>3, ReaderLoses DEF GCChunkDone
<1>12. CASE GCAfter
  <2>1. gc'.at # "place"
    BY <1>12 DEF GCAfter, NoGC
  <2>2. \A q \in Slots : HasRecord(q)' => HasRecord(q) /\ At(q)' = At(q)
    BY <1>12, CutFiles DEF GCAfter
  <2> QED BY <1>12, <2>1, <2>2, ReaderLoses DEF GCAfter
<1>13. CASE GCReadFails
  <2>1. gc'.at # "place" /\ (torn => torn') /\ UNCHANGED <<file, tree, reader, acked, raced>>
    BY <1>0, <1>13 DEF GCReadFails, GCStates
  <2> QED BY <1>1, <2>1, ReaderLoses
<1> QED BY <1>2, <1>3, <1>4, <1>5, <1>6, <1>7, <1>8, <1>9, <1>10, <1>11, <1>12, <1>13, GetReader, TreeReader,
       PlaceReader DEF Next

-----------------------------------------------------------------------------
(* The theorems *)

LEMMA InitInv == Init => IInv
<1> SUFFICES ASSUME Init PROVE IInv
  OBVIOUS
<1>1. BaseInv
  BY InitBase
<1>2. \A p \in Slots : ~HasRecord(p)
  BY Order DEF Init, HasRecord, Slots
<1>3. IdInv
  <2>1. Known \subseteq {NoRec} /\ nextId = 1
    BY <1>2 DEF Known, Stored, Init
  <2> QED BY <2>1, Constants DEF IdInv
<1>4. ASSUME NEW k \in Keys PROVE KeyInv(k)
  <2>1. PositionsOf(k) = {} /\ Current(k) = {} /\ Passed(k) = {}
    BY <1>2, InSlots DEF PositionsOf, Current, Passed
  <2>2. ~tree[k].found /\ ~acked[k].live /\ gc.at = "idle"
    BY Constants DEF Init, NoGC
  <2> QED BY <2>1, <2>2 DEF KeyInv, MoveInv, Moving, LostInv, LastOf
<1>5. reader.at = "idle"
  BY DEF Init, NoRead
<1> QED BY <1>1, <1>3, <1>4, <1>5 DEF IInv, ReaderInv, ReadFresh

LEMMA NextInv == IInv /\ [Next]_vars => IInv'
<1> SUFFICES ASSUME IInv, [Next]_vars PROVE IInv'
  OBVIOUS
<1>1. BaseInv /\ IdInv /\ (\A k \in Keys : KeyInv(k)) /\ ReaderInv /\ ReadFresh
  BY DEF IInv
<1>2. BaseInv'
  BY <1>1, NextBase
<1>3. IdInv'
  BY <1>1, IdsStay
<1>4. \A k \in Keys : KeyInv(k)'
  BY <1>1, NextKey
<1>5. ReaderInv' /\ ReadFresh'
  BY <1>1, <1>2, NextReader
<1> QED BY <1>2, <1>3, <1>4, <1>5 DEF IInv

LEMMA Always == Spec => []IInv
BY InitInv, NextInv, PTL DEF Spec

\* TypeOK: files, tree, requests and the state of gc have the shape the code
\* relies on; no data file is longer than DataFileMax.
THEOREM Typing == Spec => []TypeOK
<1>1. IInv => TypeOK
  BY DEF IInv, BaseInv
<1> QED BY <1>1, Always, PTL

\* TreeLeads: wherever gc is, the tree leads every key to its newest record.
THEOREM LeadsToNewest == Spec => []TreeLeads
<1>1. ASSUME IInv PROVE TreeLeads
  <2> SUFFICES ASSUME ~torn, NEW k \in Keys \ raced PROVE Leads(k, tree[k])
    BY DEF TreeLeads
  <2>1. (tree[k].found => FoundInv(k)) /\ (~tree[k].found => LostInv(k))
    BY <1>1 DEF IInv, KeyInv
  <2>2. CASE tree[k].found
    <3>1. PICK p : p = tree[k].pos
      OBVIOUS
    <3>2. p \in PositionsOf(k) /\ At(p) = acked[k] /\ acked[k].live = tree[k].live
      BY <2>1, <2>2, <3>1 DEF FoundInv, Current
    <3>3. HasRecord(p) /\ At(p).key = k
      BY <3>2 DEF PositionsOf
    <3>4. acked[k].id \in Nat
      BY <1>1, RecordParts DEF IInv, BaseInv, TypeOK
    <3> QED BY <2>2, <3>1, <3>2, <3>3, <3>4 DEF Leads
  <2>3. CASE ~tree[k].found
    BY <2>1, <2>3 DEF Leads, LostInv
  <2> QED BY <2>2, <2>3
<1> QED BY <1>1, Always, PTL

\* ReadFresh: a get that runs beside gc may fail, but it never answers with an
\* older record than the one acknowledged before it began.
THEOREM ReadsFresh == Spec => []ReadFresh
<1>1. IInv => ReadFresh
  BY DEF IInv
<1> QED BY <1>1, Always, PTL

\* Recoverable: a restart finds the newest record of every key, unless a
\* rewritten file still has its old tail.
THEOREM Restarts == Spec => []Recoverable
<1>1. ASSUME IInv PROVE Recoverable
  <2> SUFFICES ASSUME ~torn, raced = {}, \A k \in Keys : \A p \in PositionsOf(k) : ~StaleTail(p), NEW k \in Keys
               PROVE  Leads(k, Rebuilt(k))
    BY DEF Recoverable
  <2>1. BaseInv /\ PlaceInv(k) /\ acked[k].id \in Nat
    BY <1>1, RecordParts DEF IInv, KeyInv, PlaceInv, BaseInv, TypeOK
  <2>2. CASE PositionsOf(k) = {}
    BY <2>1, <2>2, NoSurvivor DEF Rebuilt, None, Leads
  <2>3. CASE PositionsOf(k) # {}
    <3>1. PICK m : m = LastPosition(k)
      OBVIOUS
    <3>2. LastOf(m, PositionsOf(k)) /\ m \in Slots /\ HasRecord(m) /\ At(m).key = k
      BY <2>3, <3>1, LastSlot
    <3>3. At(m).id \in Nat /\ At(m).live \in BOOLEAN
      BY <2>1, <3>2, SlotParts DEF BaseInv, Records
    <3>4. \/ writer.at = "tree" /\ At(m) = writer.rec /\ writer.rec.key = k /\ acked[k].id < writer.rec.id
          \/ tree[k].found /\ At(m) = acked[k]
          \/ ~tree[k].found /\ ~acked[k].live /\ ~At(m).live
      BY <2>1, <3>2, Survivor
    <3>5. CASE At(m).live
      <4>1. Rebuilt(k).found /\ Rebuilt(k).pos = m /\ Rebuilt(k).live = TRUE
        BY <2>3, <3>1, <3>5 DEF Rebuilt
      <4>2. At(m).id >= acked[k].id
        BY <2>1, <3>3, <3>4, <3>5
      <4> QED BY <3>2, <3>3, <3>5, <4>1, <4>2 DEF Leads
    <3>6. CASE ~At(m).live
      <4>1. ~Rebuilt(k).found
        BY <3>1, <3>6 DEF Rebuilt, None
      <4>2. ~acked[k].live \/ (writer.at = "tree" /\ writer.rec.key = k /\ ~writer.rec.live)
        BY <3>4, <3>6
      <4> QED BY <4>1, <4>2 DEF Leads
    <3> QED BY <3>5, <3>6
  <2> QED BY <2>2, <2>3
<1> QED BY <1>1, Always, PTL
===============================================================================
