---------------------------- MODULE HintsProofs ----------------------------
(***************************************************************************)
(* Proofs about the hints of a bucket.                                     *)
(***************************************************************************)
EXTENDS Hints, FiniteSetTheorems, SequenceTheorems, WellFoundedInduction, TLAPS

-----------------------------------------------------------------------------
(* Numbers *)

LEMMA Numbers ==
    /\ NumChunks \in Nat \ {0} /\ DataFileMax \in Nat \ {0} /\ SplitCap \in Nat \ {0}
    /\ 0 \in Chunks /\ Chunks \subseteq Nat /\ Chunks \subseteq 0 .. NumChunks
    /\ \A c \in Nat : c \in Chunks <=> c < NumChunks
BY HintsAssumption DEF Chunks

\* A set of natural numbers has a least one: what inductions rest on.
LEMMA Least ==
    ASSUME NEW T, T \subseteq Nat, T # {}
    PROVE  \E m \in T : \A n \in T : m <= n
<1> DEFINE R == OpToRel(<, Nat)
<1>1. IsWellFoundedOn(R, Nat)
  BY NatLessThanWellFounded
<1>2. \A x, y \in Nat : y < x => <<y, x>> \in R
  BY DEF OpToRel
<1> HIDE DEF R
<1>3. \E x \in T : \A y \in T : ~(<<y, x>> \in R)
  BY <1>1, WFMin
<1>4. PICK m \in T : \A y \in T : ~(<<y, m>> \in R)
  BY <1>3
<1>5. ASSUME NEW n \in T PROVE m <= n
  <2>1. ~(n < m)
    BY <1>2, <1>4
  <2> QED BY <2>1
<1> QED BY <1>5

\* Induction, with the set of numbers that have the property.
LEMMA Induct ==
    ASSUME NEW lo \in Nat, NEW hi \in Nat, NEW S, lo \in S,
           \A n \in lo .. hi : n < hi /\ n \in S => n + 1 \in S
    PROVE  \A n \in lo .. hi : n \in S
<1> DEFINE T == {n \in lo .. hi : n \notin S}
<1>1. SUFFICES ASSUME T # {} PROVE FALSE
  OBVIOUS
<1>2. T \subseteq Nat
  OBVIOUS
<1>3. PICK m \in T : \A n \in T : m <= n
  <2> HIDE DEF T
  <2> QED BY <1>1, <1>2, Least
<1>4. m # lo /\ m - 1 \in lo .. hi /\ m - 1 < hi /\ (m - 1) + 1 = m
  OBVIOUS
<1>5. m - 1 \notin T
  BY <1>3, <1>4
<1> QED BY <1>3, <1>4, <1>5

\* A set of integers that is bounded and not empty has a largest element, and Max
\* finds it.
LEMMA MaxIsLargest ==
    ASSUME NEW n \in Nat, NEW S, S \subseteq -1 .. n, S # {}
    PROVE  Max(S) \in S /\ \A y \in S : Max(S) >= y
<1> DEFINE T == {n - x : x \in S}
<1>0. \A x \in S : x \in Int /\ x <= n /\ n - x \in Nat
  OBVIOUS
<1>1. T \subseteq Nat /\ T # {}
  BY <1>0
<1>2. PICK m \in T : \A u \in T : m <= u
  <2> HIDE DEF T
  <2> QED BY <1>1, Least
<1>3. PICK x \in S : m = n - x
  OBVIOUS
<1>4. \A y \in S : x >= y
  <2> SUFFICES ASSUME NEW y \in S PROVE x >= y
    OBVIOUS
  <2>1. n - y \in T
    OBVIOUS
  <2>2. m <= n - y
    BY <1>2, <2>1
  <2> QED BY <1>0, <1>3, <2>2
<1> QED BY <1>4 DEF Max

LEMMA MinIsLeast ==
    ASSUME NEW S, S \subseteq Nat, S # {}
    PROVE  Min(S) \in S /\ \A y \in S : Min(S) <= y
BY Least DEF Min

LEMMA MaxOfTwo ==
    ASSUME NEW a \in Int, NEW b \in Int
    PROVE  Max({a, b}) = IF a >= b THEN a ELSE b
<1>1. \E x \in {a, b} : \A y \in {a, b} : x >= y
  OBVIOUS
<1>2. Max({a, b}) \in {a, b} /\ \A y \in {a, b} : Max({a, b}) >= y
  BY <1>1 DEF Max
<1> QED BY <1>2

\* A position has one chunk and one number.
LEMMA Positions ==
    ASSUME NEW c \in Nat, NEW n \in 1 .. DataFileMax
    PROVE  /\ Pos(c, n) \in Nat \ {0}
           /\ ChunkOf(Pos(c, n)) = c /\ NumberOf(Pos(c, n)) = n
<1> DEFINE M == DataFileMax
           p == c * M + n
           q == (p - 1) \div M
           r == (p - 1) % M
<1>1. M \in Nat \ {0} /\ c * M \in Nat
  BY Numbers
<1> HIDE DEF M
<1>2. p - 1 \in Nat /\ n <= M /\ n >= 1
  BY <1>1 DEF M
<1>3. q \in Int /\ r \in 0 .. M - 1 /\ p - 1 = M * q + r
  BY <1>1, <1>2
<1>4. q = c
  <2> HIDE DEF q, r
  <2>1. M * (q - c) = n - 1 - r
    BY <1>1, <1>3
  <2> DEFINE z == M * (q - c)
  <2>2. z \in Int /\ z < M /\ z > - M
    BY <1>1, <1>2, <1>3, <2>1
  <2>3. CASE q - c >= 1
    <3>1. z >= M
      BY <1>1, <1>3, <2>3
    <3> HIDE DEF z
    <3> QED BY <1>1, <2>2, <3>1
  <2>4. CASE q - c <= -1
    <3>1. z <= -M
      BY <1>1, <1>3, <2>4
    <3> HIDE DEF z
    <3> QED BY <1>1, <2>2, <3>1
  <2> QED BY <1>3, <2>3, <2>4
<1> QED BY <1>1, <1>2, <1>4 DEF Pos, ChunkOf, NumberOf, M

\* Positions are ordered like the records.
LEMMA PositionOrder ==
    ASSUME NEW c \in Nat, NEW n \in 1 .. DataFileMax, NEW d \in Nat, NEW m \in 1 .. DataFileMax
    PROVE  /\ c < d => Pos(c, n) < Pos(d, m)
           /\ c = d => (Pos(c, n) < Pos(d, m) <=> n < m)
           /\ Pos(c, n) = Pos(d, m) => c = d /\ n = m
<1> DEFINE M == DataFileMax
<1>1. M \in Nat \ {0} /\ c * M \in Nat /\ d * M \in Nat
  BY Numbers
<1>2. c < d => d * M >= c * M + M
  <2> SUFFICES ASSUME c < d PROVE d * M >= c * M + M
    OBVIOUS
  <2>1. (d - c) * M >= M
    BY <1>1
  <2>2. (d - c) * M = d * M - c * M
    BY <1>1
  <2> QED BY <1>1, <2>1, <2>2
<1>3. c < d => Pos(c, n) < Pos(d, m)
  BY <1>1, <1>2 DEF Pos
<1>4. c = d => (Pos(c, n) < Pos(d, m) <=> n < m)
  BY <1>1 DEF Pos
<1>5. Pos(c, n) = Pos(d, m) => c = d /\ n = m
  BY Positions
<1> QED BY <1>3, <1>4, <1>5

-----------------------------------------------------------------------------
(* Hints, splits and setItem *)

Records == [key : Keys, live : BOOLEAN]
HintItems == [n : Nat, live : BOOLEAN]
HintSet == [items : UNION {[D -> HintItems] : D \in SUBSET Keys}, end : Int]
SplitSet == [buf : HintSet, file : HintSet]

LEMMA HintShape ==
    ASSUME NEW h \in HintSet
    PROVE  /\ DOMAIN h.items \subseteq Keys /\ h.end \in Int
           /\ h = Hint(h.items, h.end)
           /\ \A k \in DOMAIN h.items : h.items[k] \in HintItems
<1>1. h.items \in UNION {[D -> HintItems] : D \in SUBSET Keys} /\ h.end \in Int /\ h = Hint(h.items, h.end)
  BY DEF HintSet, Hint
<1>2. PICK D \in SUBSET Keys : h.items \in [D -> HintItems]
  BY <1>1
<1> QED BY <1>1, <1>2

LEMMA HintMade ==
    ASSUME NEW D \in SUBSET Keys, NEW items \in [D -> HintItems], NEW end \in Int
    PROVE  Hint(items, end) \in HintSet /\ Hint(items, end).items = items /\ Hint(items, end).end = end
BY DEF Hint, HintSet

LEMMA NoItems == << >> \in [{} -> HintItems] /\ DOMAIN << >> = {}
OBVIOUS

LEMMA EmptyHints ==
    /\ None \in HintSet /\ DOMAIN None.items = {} /\ None.end = -1
    /\ EmptyBuffer \in HintSet /\ DOMAIN EmptyBuffer.items = {} /\ EmptyBuffer.end = 0
    /\ None # EmptyBuffer
<1>0. {} \in SUBSET Keys /\ 0 \in Int /\ -1 \in Int
  OBVIOUS
<1>1. None \in HintSet /\ None.items = << >> /\ None.end = -1
  <2> DEFINE x == << >>
  <2>1. x \in [{} -> HintItems]
    BY NoItems
  <2> HIDE DEF x
  <2>2. Hint(x, -1) \in HintSet /\ Hint(x, -1).items = x /\ Hint(x, -1).end = -1
    BY <1>0, <2>1, HintMade
  <2> QED BY <2>2 DEF None, x
<1>2. EmptyBuffer \in HintSet /\ EmptyBuffer.items = << >> /\ EmptyBuffer.end = 0
  <2> DEFINE x == << >>
  <2>1. x \in [{} -> HintItems]
    BY NoItems
  <2> HIDE DEF x
  <2>2. Hint(x, 0) \in HintSet /\ Hint(x, 0).items = x /\ Hint(x, 0).end = 0
    BY <1>0, <2>1, HintMade
  <2> QED BY <2>2 DEF EmptyBuffer, x
<1> QED BY <1>1, <1>2, NoItems

LEMMA SplitShape ==
    /\ \A s \in SplitSet : s.buf \in HintSet /\ s.file \in HintSet /\ s = Split(s.buf, s.file)
    /\ \A b, h \in HintSet : Split(b, h) \in SplitSet
    /\ \A b, h : Split(b, h).buf = b /\ Split(b, h).file = h
    /\ NewSplit \in SplitSet /\ NewSplit.buf = EmptyBuffer /\ NewSplit.file = None
BY EmptyHints DEF SplitSet, Split, NewSplit

LEMMA BufferSetShape ==
    ASSUME NEW h \in HintSet, NEW k \in Keys, NEW item \in HintItems
    PROVE  LET r == BufferSet(h, k, item)
           IN  /\ r \in HintSet
               /\ DOMAIN r.items = DOMAIN h.items \cup {k}
               /\ r.items[k] = item
               /\ \A x \in DOMAIN h.items : x # k => r.items[x] = h.items[x]
               /\ r.end = IF h.end >= item.n THEN h.end ELSE item.n
               /\ r # None
<1> DEFINE D == DOMAIN h.items \cup {k}
           f == [x \in D |-> IF x = k THEN item ELSE h.items[x]]
<1>1. D \in SUBSET Keys /\ f \in [D -> HintItems] /\ h.end \in Int /\ item.n \in Nat
  BY HintShape DEF HintItems
<1>2. Max({h.end, item.n}) = IF h.end >= item.n THEN h.end ELSE item.n
  BY <1>1, MaxOfTwo
<1>3. BufferSet(h, k, item) = Hint(f, IF h.end >= item.n THEN h.end ELSE item.n)
  BY <1>2 DEF BufferSet
<1>4. (IF h.end >= item.n THEN h.end ELSE item.n) \in Int
  BY <1>1
<1> DEFINE r == BufferSet(h, k, item)
<1>5. r \in HintSet /\ r.items = f /\ r.end = IF h.end >= item.n THEN h.end ELSE item.n
  BY <1>1, <1>3, <1>4, HintMade
<1>6. k \in DOMAIN r.items
  BY <1>5
<1>7. r # None
  BY <1>6, EmptyHints
<1> QED BY <1>5, <1>7

\* What setItem does to the last split, and that the others stay.
LEMMA SetItemShape ==
    ASSUME NEW ss \in Seq(SplitSet), Len(ss) >= 1, NEW k \in Keys, NEW item \in HintItems
    PROVE  LET L == Len(ss)
               r == SetItem(ss, k, item)
               e == ss[L].buf.end
           IN  /\ r \in Seq(SplitSet)
               /\ \A j \in 1 .. L - 1 : r[j] = ss[j]
               /\ Fits(ss[L].buf, k) =>
                     Len(r) = L /\ r[L] = Split(BufferSet(ss[L].buf, k, item), ss[L].file)
               /\ ~Fits(ss[L].buf, k) =>
                     /\ Len(r) = L + 1
                     /\ r[L] = Split(Hint(ss[L].buf.items, IF e >= item.n - 1 THEN e ELSE item.n - 1), ss[L].file)
                     /\ r[L + 1] = Split(BufferSet(EmptyBuffer, k, item), None)
<1> DEFINE L == Len(ss)
           s == ss[L]
           r == SetItem(ss, k, item)
           e == s.buf.end
<1>1. L \in Nat \ {0} /\ s \in SplitSet /\ Last(ss) = s
  BY DEF Last
<1>2. s.buf \in HintSet /\ s.file \in HintSet /\ s = Split(s.buf, s.file)
  BY <1>1, SplitShape
<1>3. CASE Fits(s.buf, k)
  <2> DEFINE n == Split(BufferSet(s.buf, k, item), s.file)
  <2>1. r = [ss EXCEPT ![L].buf = BufferSet(s.buf, k, item)]
    BY <1>1, <1>3 DEF SetItem
  <2>2. [s EXCEPT !.buf = BufferSet(s.buf, k, item)] = n
    BY <1>2 DEF Split
  <2>3. r = [ss EXCEPT ![L] = n]
    BY <2>1, <2>2
  <2>4. n \in SplitSet
    BY <1>2, BufferSetShape, SplitShape
  <2> HIDE DEF n
  <2>5. r \in Seq(SplitSet) /\ Len(r) = L /\ r[L] = n /\ \A j \in 1 .. L - 1 : r[j] = ss[j]
    BY <1>1, <2>3, <2>4
  <2> QED BY <1>3, <2>5 DEF n
<1>4. CASE ~Fits(s.buf, k)
  <2> DEFINE E == IF e >= item.n - 1 THEN e ELSE item.n - 1
             n == Split(Hint(s.buf.items, E), s.file)
             t == [ss EXCEPT ![L].buf.end = Max({e, item.n - 1})]
             x == Split(BufferSet(EmptyBuffer, k, item), None)
  <2>1. r = Append(t, x)
    BY <1>1, <1>4 DEF SetItem
  <2>2. e \in Int /\ item.n \in Nat /\ E \in Int /\ s.buf = Hint(s.buf.items, e)
    BY <1>2, HintShape DEF HintItems
  <2>3. Max({e, item.n - 1}) = E
    BY <2>2, MaxOfTwo
  <2>4. t = [ss EXCEPT ![L] = n]
    <3>1. [s.buf EXCEPT !.end = E] = Hint(s.buf.items, E)
      BY <2>2 DEF Hint
    <3>2. [s EXCEPT !.buf = [s.buf EXCEPT !.end = E]] = n
      BY <1>2, <3>1 DEF Split
    <3>3. t = [ss EXCEPT ![L] = [s EXCEPT !.buf = [s.buf EXCEPT !.end = E]]]
      BY <2>3
    <3> QED BY <3>2, <3>3
  <2>5. n \in SplitSet
    <3>1. s.buf.items \in UNION {[D -> HintItems] : D \in SUBSET Keys}
      BY <1>2 DEF HintSet
    <3>2. Hint(s.buf.items, E) \in HintSet
      BY <2>2, <3>1 DEF HintSet, Hint
    <3> QED BY <1>2, <3>2, SplitShape
  <2>6. x \in SplitSet
    BY EmptyHints, BufferSetShape, SplitShape
  <2> HIDE DEF n, x, t
  <2>7. t \in Seq(SplitSet) /\ Len(t) = L /\ t[L] = n /\ \A j \in 1 .. L - 1 : t[j] = ss[j]
    BY <1>1, <2>4, <2>5
  <2>8. r \in Seq(SplitSet) /\ Len(r) = L + 1 /\ r[L] = n /\ r[L + 1] = x
        /\ \A j \in 1 .. L - 1 : r[j] = ss[j]
    BY <1>1, <2>1, <2>6, <2>7
  <2> QED BY <1>4, <2>8 DEF n, x
<1> QED BY <1>3, <1>4

-----------------------------------------------------------------------------
(* What a hint says of the data *)

\* Hint h has, of the records lo + 1 .. hi of d, the newest of each key.
Exact(h, d, lo, hi) ==
    /\ h.end = IF lo < hi THEN hi ELSE 0
    /\ \A n \in lo + 1 .. hi : d[n].key \in DOMAIN h.items
    /\ \A k \in DOMAIN h.items :
          /\ h.items[k].n \in lo + 1 .. hi
          /\ d[h.items[k].n] = [key |-> k, live |-> h.items[k].live]
          /\ \A n \in lo + 1 .. hi : d[n].key = k => n <= h.items[k].n

\* The splits ss have the first m records of d, split j those up to b[j].
Bounds(ss, d, b, m) ==
    /\ b \in [0 .. Len(ss) -> Nat] /\ b[0] = 0 /\ b[Len(ss)] = m
    /\ \A i, j \in 0 .. Len(ss) : i < j => b[i] <= b[j] /\ (j < Len(ss) => b[i] < b[j])
    /\ \A j \in 0 .. Len(ss) - 1 : j <= b[j]
    /\ \A j \in 1 .. Len(ss) :
          /\ ss[j].buf # None => Exact(ss[j].buf, d, b[j - 1], b[j])
          /\ ss[j].file # None => Exact(ss[j].file, d, b[j - 1], b[j])
          /\ ss[j].buf # None /\ ss[j].file # None => ss[j].buf = ss[j].file
    /\ ss[Len(ss)].buf # None /\ ss[Len(ss)].file = None

LEMMA RecordAt ==
    ASSUME NEW d \in Seq(Records), NEW m \in Nat, m + 1 <= Len(d)
    PROVE  d[m + 1] \in Records
<1>1. m + 1 \in 1 .. Len(d)
  OBVIOUS
<1> QED BY <1>1

LEMMA ExactEmpty ==
    ASSUME NEW d, NEW m \in Nat
    PROVE  Exact(EmptyBuffer, d, m, m)
BY EmptyHints DEF Exact

\* A buffer that is set the next record says the same of one record more.
LEMMA ExactSet ==
    ASSUME NEW d \in Seq(Records), NEW lo \in Nat, NEW m \in Nat, lo <= m, m + 1 <= Len(d),
           NEW h \in HintSet, Exact(h, d, lo, m)
    PROVE  Exact(BufferSet(h, d[m + 1].key, [n |-> m + 1, live |-> d[m + 1].live]), d, lo, m + 1)
<1> DEFINE k == d[m + 1].key
           item == [n |-> m + 1, live |-> d[m + 1].live]
           r == BufferSet(h, k, item)
<1>0. d[m + 1] \in Records
  BY RecordAt
<1>1. d[m + 1] \in Records /\ k \in Keys /\ item \in HintItems
  BY <1>0 DEF Records, HintItems
<1>2. /\ DOMAIN r.items = DOMAIN h.items \cup {k}
      /\ r.items[k] = item
      /\ \A x \in DOMAIN h.items : x # k => r.items[x] = h.items[x]
      /\ r.end = IF h.end >= item.n THEN h.end ELSE item.n
  BY <1>1, BufferSetShape
<1>3. d[m + 1] = [key |-> k, live |-> item.live] /\ item.n = m + 1
  BY <1>1 DEF Records
<1> HIDE DEF r, item, k
<1>4. r.end = m + 1
  BY <1>2, <1>3 DEF Exact
<1>5. ASSUME NEW n \in lo + 1 .. m + 1 PROVE d[n].key \in DOMAIN r.items
  <2>1. CASE n = m + 1
    BY <1>2, <2>1 DEF k
  <2>2. CASE n # m + 1
    <3>1. n \in lo + 1 .. m
      BY <2>2
    <3> QED BY <1>2, <3>1 DEF Exact
  <2> QED BY <2>1, <2>2
<1>6. ASSUME NEW x \in DOMAIN r.items
      PROVE  /\ r.items[x].n \in lo + 1 .. m + 1
             /\ d[r.items[x].n] = [key |-> x, live |-> r.items[x].live]
             /\ \A n \in lo + 1 .. m + 1 : d[n].key = x => n <= r.items[x].n
  <2>1. CASE x = k
    <3>1. r.items[x] = item
      BY <1>2, <2>1
    <3> QED BY <1>3, <2>1, <3>1
  <2>2. CASE x # k
    <3>1. x \in DOMAIN h.items /\ r.items[x] = h.items[x]
      BY <1>2, <2>2
    <3>2. /\ h.items[x].n \in lo + 1 .. m
          /\ d[h.items[x].n] = [key |-> x, live |-> h.items[x].live]
          /\ \A n \in lo + 1 .. m : d[n].key = x => n <= h.items[x].n
      BY <3>1 DEF Exact
    <3>3. \A n \in lo + 1 .. m + 1 : d[n].key = x => n \in lo + 1 .. m
      BY <2>2 DEF k
    <3> QED BY <3>1, <3>2, <3>3
  <2> QED BY <2>1, <2>2
<1>7. m + 1 > lo
  OBVIOUS
<1>8. Exact(r, d, lo, m + 1)
  BY <1>4, <1>5, <1>6, <1>7 DEF Exact
<1> QED BY <1>8 DEF r, item, k

\* setItem of the next record: the splits have one record more, and the bounds
\* of the splits before the last stay.
LEMMA BoundsSet ==
    ASSUME NEW d \in Seq(Records), NEW m \in Nat, m + 1 <= Len(d),
           NEW ss \in Seq(SplitSet), Len(ss) >= 1, NEW b, Bounds(ss, d, b, m)
    PROVE  \E a : /\ Bounds(SetItem(ss, d[m + 1].key, [n |-> m + 1, live |-> d[m + 1].live]), d, a, m + 1)
                  /\ \A j \in 0 .. Len(ss) - 1 : a[j] = b[j]
                  /\ a[Len(SetItem(ss, d[m + 1].key, [n |-> m + 1, live |-> d[m + 1].live])) - 1] <= m
<1> DEFINE L == Len(ss)
           s == ss[L]
           k == d[m + 1].key
           item == [n |-> m + 1, live |-> d[m + 1].live]
           r == SetItem(ss, k, item)
           e == s.buf.end
           x == BufferSet(EmptyBuffer, k, item)
           y == BufferSet(s.buf, k, item)
<1>1. L \in Nat \ {0} /\ s \in SplitSet /\ s.buf \in HintSet /\ s.file \in HintSet
  BY SplitShape
<1>2. k \in Keys /\ item \in HintItems /\ item.n = m + 1
  <2>1. d[m + 1] \in Records
    BY RecordAt
  <2> QED BY <2>1 DEF Records, HintItems
<1>3. b[L] = m /\ b[L - 1] \in Nat /\ b[L - 1] <= m /\ L - 1 <= b[L - 1] /\ s.file = None /\ s.buf # None
      /\ Exact(s.buf, d, b[L - 1], m) /\ b \in [0 .. L -> Nat] /\ b[0] = 0
  <2>1. L \in 0 .. L /\ L - 1 \in 0 .. L /\ L \in 1 .. L /\ L - 1 \in 0 .. L - 1 /\ L - 1 < L
    BY <1>1
  <2>2. b[L] = m /\ b \in [0 .. L -> Nat] /\ b[0] = 0 /\ s.file = None /\ s.buf # None
    BY DEF Bounds
  <2>3. b[L - 1] <= b[L] /\ L - 1 <= b[L - 1]
    BY <2>1 DEF Bounds
  <2>4. Exact(s.buf, d, b[L - 1], b[L])
    BY <2>1, <2>2 DEF Bounds
  <2> QED BY <2>1, <2>2, <2>3, <2>4
<1>4. /\ r \in Seq(SplitSet)
      /\ \A j \in 1 .. L - 1 : r[j] = ss[j]
      /\ Fits(s.buf, k) => Len(r) = L /\ r[L] = Split(y, s.file)
      /\ ~Fits(s.buf, k) =>
            /\ Len(r) = L + 1
            /\ r[L] = Split(Hint(s.buf.items, IF e >= m THEN e ELSE m), s.file)
            /\ r[L + 1] = Split(x, None)
  <2>1. item.n - 1 = m
    BY <1>2
  <2> HIDE DEF item, k
  <2> QED BY <1>2, <2>1, SetItemShape
<1>5. Exact(y, d, b[L - 1], m + 1) /\ y # None
  <2>1. y # None
    <3> HIDE DEF item, k
    <3> QED BY <1>1, <1>2, BufferSetShape
  <2> QED BY <1>1, <1>3, <2>1, ExactSet
<1>6. Exact(x, d, m, m + 1) /\ x # None
  <2>1. x # None
    <3> HIDE DEF item, k
    <3> QED BY <1>2, BufferSetShape, EmptyHints
  <2> QED BY <2>1, ExactSet, ExactEmpty, EmptyHints
<1> HIDE DEF item, k, r, x, y
<1>7. CASE Fits(s.buf, k)
  <2> DEFINE a == [j \in 0 .. L |-> IF j = L THEN m + 1 ELSE b[j]]
  <2>1. Len(r) = L /\ r[L].buf = y /\ r[L].file = None
    BY <1>3, <1>4, <1>7, SplitShape
  <2>2. /\ a \in [0 .. L -> Nat] /\ a[0] = 0 /\ a[L] = m + 1
        /\ \A j \in 0 .. L - 1 : a[j] = b[j]
    BY <1>1, <1>3
  <2>3. /\ \A i, j \in 0 .. L : i < j => a[i] <= a[j] /\ (j < L => a[i] < a[j])
        /\ \A j \in 0 .. L - 1 : j <= a[j]
    <3>0. \A i, j \in 0 .. L : i < j => b[i] <= b[j] /\ (j < L => b[i] < b[j])
      BY DEF Bounds
    <3>1. \A j \in 0 .. L - 1 : j <= b[j]
      BY DEF Bounds
    <3>2. \A j \in 0 .. L - 1 : a[j] = b[j] /\ b[j] \in Nat
      <4>1. \A j \in 0 .. L - 1 : j \in 0 .. L
        BY <1>1
      <4> HIDE DEF a
      <4> QED BY <1>3, <2>2, <4>1
    <3>3. \A j \in 0 .. L - 1 : b[j] <= m
      BY <1>1, <1>3, <3>0
    <3> HIDE DEF a
    <3>4. ASSUME NEW i \in 0 .. L, NEW j \in 0 .. L, i < j
          PROVE  a[i] <= a[j] /\ (j < L => a[i] < a[j])
      <4>1. i \in 0 .. L - 1
        BY <1>1, <3>4
      <4>2. CASE j = L
        BY <1>1, <2>2, <3>2, <3>3, <4>1, <4>2
      <4>3. CASE j # L
        <5>1. j \in 0 .. L - 1
          BY <1>1, <4>3
        <5> QED BY <3>0, <3>2, <3>4, <4>1, <5>1
      <4> QED BY <4>2, <4>3
    <3> QED BY <3>1, <3>2, <3>4
  <2> HIDE DEF a
  <2>4. ASSUME NEW j \in 1 .. L
        PROVE  /\ r[j].buf # None => Exact(r[j].buf, d, a[j - 1], a[j])
               /\ r[j].file # None => Exact(r[j].file, d, a[j - 1], a[j])
               /\ r[j].buf # None /\ r[j].file # None => r[j].buf = r[j].file
    <3>1. CASE j = L
      <4>1. a[j - 1] = b[L - 1] /\ a[j] = m + 1
        BY <1>1, <2>2, <3>1
      <4> QED BY <1>5, <2>1, <3>1, <4>1
    <3>2. CASE j # L
      <4>0. j \in 1 .. L - 1 /\ j - 1 \in 0 .. L - 1 /\ j \in 0 .. L - 1
        BY <1>1, <3>2
      <4>1. a[j - 1] = b[j - 1] /\ a[j] = b[j] /\ r[j] = ss[j]
        BY <1>4, <2>2, <4>0
      <4> QED BY <4>1 DEF Bounds
    <3> QED BY <3>1, <3>2
  <2>5. Bounds(r, d, a, m + 1)
    BY <1>5, <2>1, <2>2, <2>3, <2>4 DEF Bounds
  <2>6. a[Len(r) - 1] <= m
    <3>1. L - 1 \in 0 .. L - 1
      BY <1>1
    <3> QED BY <1>3, <2>1, <2>2, <3>1
  <2> QED BY <2>2, <2>5, <2>6 DEF r, k, item
<1>8. CASE ~Fits(s.buf, k)
  <2> DEFINE a == [j \in 0 .. L + 1 |-> IF j = L + 1 THEN m + 1 ELSE b[j]]
  <2>0. b[L - 1] < m
    <3>1. SUFFICES ASSUME b[L - 1] = m PROVE FALSE
      BY <1>3
    <3>2. DOMAIN s.buf.items = {}
      <4> SUFFICES ASSUME NEW z \in DOMAIN s.buf.items PROVE FALSE
        OBVIOUS
      <4>1. s.buf.items[z].n \in m + 1 .. m
        BY <1>3, <3>1 DEF Exact
      <4> QED BY <4>1
    <3>3. Cardinality(DOMAIN s.buf.items) = 0
      BY <3>2, FS_EmptySet
    <3> QED BY <1>8, <3>3, Numbers DEF Fits
  <2>1. /\ Len(r) = L + 1 /\ r[L].buf = s.buf /\ r[L].file = None
        /\ r[L + 1].buf = x /\ r[L + 1].file = None
    <3>1. e = m
      BY <1>3, <2>0 DEF Exact
    <3>2. Hint(s.buf.items, IF e >= m THEN e ELSE m) = s.buf
      BY <1>1, <3>1, HintShape
    <3> QED BY <1>3, <1>4, <1>8, <3>2, SplitShape
  <2>2. /\ a \in [0 .. L + 1 -> Nat] /\ a[0] = 0 /\ a[L + 1] = m + 1 /\ a[L] = m
        /\ \A j \in 0 .. L : a[j] = b[j]
    BY <1>1, <1>3
  <2>3. /\ \A i, j \in 0 .. L + 1 : i < j => a[i] <= a[j] /\ (j < L + 1 => a[i] < a[j])
        /\ \A j \in 0 .. L : j <= a[j]
    <3>0. \A i, j \in 0 .. L : i < j => b[i] <= b[j] /\ (j < L => b[i] < b[j])
      BY DEF Bounds
    <3>3. \A j \in 0 .. L - 1 : j <= b[j]
      BY DEF Bounds
    <3> HIDE DEF L
    <3>1. \A j \in 0 .. L - 1 : b[j] <= b[L - 1]
      <4> SUFFICES ASSUME NEW j \in 0 .. L - 1 PROVE b[j] <= b[L - 1]
        OBVIOUS
      <4>1. L \in Nat \ {0} /\ j \in 0 .. L /\ L - 1 \in 0 .. L
        BY <1>1
      <4>2. b[j] \in Nat /\ b[L - 1] \in Nat
        BY <1>3, <4>1
      <4> QED BY <3>0, <4>1, <4>2
    <3>2. \A j \in 0 .. L - 1 : b[j] < m
      <4>1. \A j \in 0 .. L - 1 : j \in 0 .. L
        BY <1>1
      <4>2. \A j \in 0 .. L - 1 : b[j] \in Nat
        BY <1>3, <4>1
      <4> QED BY <1>3, <2>0, <3>1, <4>2
    <3>4. \A j \in 0 .. L : j <= b[j]
      BY <1>1, <1>3, <2>0, <3>3
    <3>5. \A i, j \in 0 .. L : i < j => b[i] < b[j]
      BY <1>1, <1>3, <3>0, <3>2
    <3>6. \A j \in 0 .. L : b[j] <= m
      BY <1>1, <1>3, <3>2
    <3> HIDE DEF a
    <3>7. ASSUME NEW i \in 0 .. L + 1, NEW j \in 0 .. L + 1, i < j
          PROVE  a[i] <= a[j] /\ (j < L + 1 => a[i] < a[j])
      <4>1. i \in 0 .. L /\ a[i] = b[i] /\ b[i] \in Nat /\ b[i] <= m
        BY <1>1, <1>3, <2>2, <3>6, <3>7
      <4>2. CASE j = L + 1
        BY <1>1, <2>2, <4>1, <4>2
      <4>3. CASE j # L + 1
        <5>0. j \in 0 .. L
          BY <1>1, <4>3
        <5>1. j \in 0 .. L /\ a[j] = b[j] /\ b[j] \in Nat
          BY <1>3, <2>2, <5>0
        <5> QED BY <3>5, <3>7, <4>1, <5>1
      <4> QED BY <4>2, <4>3
    <3> QED BY <2>2, <3>4, <3>7
  <2> HIDE DEF a
  <2>4. ASSUME NEW j \in 1 .. L + 1
        PROVE  /\ r[j].buf # None => Exact(r[j].buf, d, a[j - 1], a[j])
               /\ r[j].file # None => Exact(r[j].file, d, a[j - 1], a[j])
               /\ r[j].buf # None /\ r[j].file # None => r[j].buf = r[j].file
    <3>1. CASE j = L + 1
      <4>1. a[j - 1] = m /\ a[j] = m + 1
        BY <1>1, <2>2, <3>1
      <4> QED BY <1>6, <2>1, <3>1, <4>1
    <3>2. CASE j # L + 1
      <4>0. j \in 1 .. L /\ j - 1 \in 0 .. L /\ j \in 0 .. L
        BY <1>1, <3>2
      <4>1. a[j - 1] = b[j - 1] /\ a[j] = b[j] /\ r[j].buf = ss[j].buf /\ r[j].file = ss[j].file
        <5>1. j # L => j \in 1 .. L - 1
          BY <1>1, <4>0
        <5> QED BY <1>3, <1>4, <2>1, <2>2, <4>0, <5>1
      <4> QED BY <4>0, <4>1 DEF Bounds
    <3> QED BY <3>1, <3>2
  <2>5. Bounds(r, d, a, m + 1)
    <3>1. Len(r) - 1 = L
      BY <1>1, <2>1
    <3> QED BY <1>1, <1>6, <2>1, <2>2, <2>3, <2>4, <3>1 DEF Bounds
  <2>6. \A j \in 0 .. L - 1 : a[j] = b[j]
    BY <1>1, <2>2
  <2>7. a[Len(r) - 1] <= m
    <3>1. Len(r) - 1 = L
      BY <1>1, <2>1
    <3>2. a[L] <= m
      BY <2>2
    <3> QED BY <3>1, <3>2
  <2> QED BY <2>5, <2>6, <2>7 DEF r, k, item
<1> QED BY <1>7, <1>8

-----------------------------------------------------------------------------
(* buildHintFromData *)

\* f[n] is the splits after record n.
Reads(f, ss, d, start) ==
    /\ f[start] = ss
    /\ \A n \in start .. Len(d) : n # start =>
          f[n] = SetItem(f[n - 1], d[n].key, [n |-> n, live |-> d[n].live])

\* The recursion of SetRecords has a solution.
LEMMA RecordsSet ==
    ASSUME NEW d \in Seq(Records), NEW start \in 0 .. Len(d), NEW ss
    PROVE  \E f : Reads(f, ss, d, start) /\ SetRecords(ss, d, start) = f[Len(d)]
<1> DEFINE L == Len(d)
           G(x, n) == SetItem(x, d[n].key, [n |-> n, live |-> d[n].live])
           F(f, m) == [n \in start .. m |-> IF n = start THEN ss ELSE G(f[n - 1], n)]
           S == {m \in start .. L : \E f : f = F(f, m)}
           h == CHOOSE f : f = F(f, L)
<1>0. L \in Nat /\ start \in Nat /\ start <= L
  OBVIOUS
<1>1. SetRecords(ss, d, start) = h[L]
  BY DEF SetRecords
<1> HIDE DEF G, L
<1>2. start \in S
  <2> DEFINE f == [n \in start .. start |-> ss]
  <2>1. f = F(f, start)
    BY <1>0
  <2>2. start \in start .. L
    BY <1>0
  <2> HIDE DEF f
  <2>3. \E g : g = F(g, start)
    BY <2>1
  <2> QED BY <2>2, <2>3
<1>3. ASSUME NEW m \in start .. L, m < L, m \in S PROVE m + 1 \in S
  <2>1. PICK f : f = F(f, m)
    BY <1>3
  <2> DEFINE g == [n \in start .. m + 1 |-> IF n = m + 1 THEN G(f[m], m + 1) ELSE f[n]]
  <2>2. ASSUME NEW n \in start .. m + 1 PROVE g[n] = IF n = start THEN ss ELSE G(g[n - 1], n)
    <3>1. CASE n = m + 1
      <4>1. g[n - 1] = f[m] /\ n # start
        BY <1>0, <3>1
      <4>2. g[n] = G(f[m], n)
        BY <3>1
      <4> QED BY <4>1, <4>2
    <3>2. CASE n # m + 1
      <4>1. n \in start .. m /\ g[n] = f[n]
        BY <1>0, <3>2
      <4>2. f[n] = IF n = start THEN ss ELSE G(f[n - 1], n)
        BY <2>1, <4>1
      <4>3. n # start => g[n - 1] = f[n - 1]
        BY <1>0, <4>1
      <4> QED BY <4>1, <4>2, <4>3
    <3> QED BY <3>1, <3>2
  <2>3. g = F(g, m + 1)
    <3>1. g = [n \in start .. m + 1 |-> g[n]]
      OBVIOUS
    <3> HIDE DEF g
    <3> QED BY <2>2, <3>1
  <2> HIDE DEF g
  <2>4. m + 1 \in start .. L
    BY <1>0, <1>3
  <2> QED BY <2>3, <2>4
<1>4. L \in S
  <2> HIDE DEF S
  <2>1. \A n \in start .. L : n \in S
    BY <1>0, <1>2, <1>3, Induct
  <2> QED BY <1>0, <2>1
<1>5. h = F(h, L)
  <2>1. \E f : f = F(f, L)
    BY <1>4
  <2> QED BY <2>1
<1> HIDE DEF h
<1>6. h[start] = ss /\ \A n \in start .. L : n # start => h[n] = G(h[n - 1], n)
  BY <1>0, <1>5
<1>7. Reads(h, ss, d, start)
  BY <1>6 DEF Reads, G, L
<1> QED BY <1>1, <1>7 DEF L

\* It gives splits again and leaves those before the last as they are.
LEMMA RecordsShape ==
    ASSUME NEW d \in Seq(Records), NEW start \in 0 .. Len(d),
           NEW ss \in Seq(SplitSet), Len(ss) >= 1
    PROVE  LET r == SetRecords(ss, d, start)
           IN  /\ r \in Seq(SplitSet) /\ Len(r) >= Len(ss)
               /\ \A j \in 1 .. Len(ss) - 1 : r[j] = ss[j]
<1>0. PICK f : Reads(f, ss, d, start) /\ SetRecords(ss, d, start) = f[Len(d)]
  BY RecordsSet
<1>1. /\ f[start] = ss
      /\ \A n \in start .. Len(d) : n # start =>
            f[n] = SetItem(f[n - 1], d[n].key, [n |-> n, live |-> d[n].live])
      /\ SetRecords(ss, d, start) = f[Len(d)]
  BY <1>0 DEF Reads
<1> DEFINE P(x) == x \in Seq(SplitSet) /\ Len(x) >= Len(ss) /\ \A j \in 1 .. Len(ss) - 1 : x[j] = ss[j]
           S == {n \in start .. Len(d) : P(f[n])}
<1>2. start \in S
  BY <1>1
<1>3. ASSUME NEW n \in start .. Len(d), n < Len(d), n \in S PROVE n + 1 \in S
  <2> DEFINE k == d[n + 1].key
             item == [n |-> n + 1, live |-> d[n + 1].live]
  <2>1. d[n + 1] \in Records
    BY <1>3, RecordAt
  <2>2. k \in Keys /\ item \in HintItems
    BY <2>1 DEF Records, HintItems
  <2>3. f[n + 1] = SetItem(f[n], k, item)
    <3>1. n + 1 \in start .. Len(d) /\ n + 1 # start /\ (n + 1) - 1 = n
      BY <1>3
    <3> QED BY <1>1, <3>1
  <2>4. P(f[n])
    BY <1>3
  <2> HIDE DEF k, item
  <2>5. /\ f[n + 1] \in Seq(SplitSet) /\ Len(f[n + 1]) >= Len(f[n])
        /\ \A j \in 1 .. Len(f[n]) - 1 : f[n + 1][j] = f[n][j]
    <3>1. f[n] \in Seq(SplitSet) /\ Len(f[n]) >= 1
      BY <2>4
    <3>2. /\ f[n + 1] \in Seq(SplitSet) 
          /\ \A j \in 1 .. Len(f[n]) - 1 : f[n + 1][j] = f[n][j]
          /\ Len(f[n + 1]) = Len(f[n]) \/ Len(f[n + 1]) = Len(f[n]) + 1
      BY <2>2, <2>3, <3>1, SetItemShape, SMTT(40)
    <3> QED BY <3>1, <3>2
  <2>6. P(f[n + 1])
    BY <2>4, <2>5
  <2> QED BY <1>3, <2>6
<1>4. Len(d) \in S
  <2>1. start \in Nat /\ Len(d) \in Nat /\ Len(d) \in start .. Len(d)
    OBVIOUS
  <2> HIDE DEF S
  <2>2. \A n \in start .. Len(d) : n \in S
    BY <1>2, <1>3, <2>1, Induct
  <2> QED BY <2>1, <2>2
<1> QED BY <1>1, <1>4

\* Reading the records that the splits do not have yet gives splits that have all.
LEMMA RecordsBounds ==
    ASSUME NEW d \in Seq(Records), NEW start \in 0 .. Len(d),
           NEW ss \in Seq(SplitSet), Len(ss) >= 1, NEW b, Bounds(ss, d, b, start)
    PROVE  \E a : /\ Bounds(SetRecords(ss, d, start), d, a, Len(d))
                  /\ \A j \in 0 .. Len(ss) - 1 : a[j] = b[j]
                  /\ start < Len(d) => a[Len(SetRecords(ss, d, start)) - 1] < Len(d)
<1>0. PICK f : Reads(f, ss, d, start) /\ SetRecords(ss, d, start) = f[Len(d)]
  BY RecordsSet
<1>1. /\ f[start] = ss
      /\ \A n \in start .. Len(d) : n # start =>
            f[n] = SetItem(f[n - 1], d[n].key, [n |-> n, live |-> d[n].live])
      /\ SetRecords(ss, d, start) = f[Len(d)]
  BY <1>0 DEF Reads
<1> DEFINE P(n) == /\ f[n] \in Seq(SplitSet) /\ Len(f[n]) >= Len(ss)
                   /\ \E a : /\ Bounds(f[n], d, a, n) /\ \A j \in 0 .. Len(ss) - 1 : a[j] = b[j]
                             /\ start < n => a[Len(f[n]) - 1] < n
           S == {n \in start .. Len(d) : P(n)}
<1>2. start \in S
  BY <1>1
<1>3. ASSUME NEW n \in start .. Len(d), n < Len(d), n \in S PROVE n + 1 \in S
  <2> DEFINE k == d[n + 1].key
             item == [n |-> n + 1, live |-> d[n + 1].live]
  <2>1. d[n + 1] \in Records /\ n \in Nat /\ n + 1 <= Len(d)
    BY <1>3, RecordAt
  <2>2. k \in Keys /\ item \in HintItems
    BY <2>1 DEF Records, HintItems
  <2>3. f[n + 1] = SetItem(f[n], k, item)
    <3>1. n + 1 \in start .. Len(d) /\ n + 1 # start /\ (n + 1) - 1 = n
      BY <1>3
    <3> QED BY <1>1, <3>1
  <2>4. f[n] \in Seq(SplitSet) /\ Len(f[n]) >= Len(ss)
    BY <1>3
  <2>5. PICK a : Bounds(f[n], d, a, n) /\ \A j \in 0 .. Len(ss) - 1 : a[j] = b[j]
    BY <1>3
  <2>6. PICK x : /\ Bounds(f[n + 1], d, x, n + 1) /\ \A j \in 0 .. Len(f[n]) - 1 : x[j] = a[j]
                 /\ x[Len(f[n + 1]) - 1] <= n
    <3>1. Len(f[n]) >= 1
      BY <2>4
    <3> QED BY <2>1, <2>3, <2>4, <2>5, <3>1, BoundsSet, SMTT(40)
  <2> HIDE DEF k, item
  <2>7. f[n + 1] \in Seq(SplitSet) /\ Len(f[n + 1]) >= Len(f[n])
    <3>1. f[n] \in Seq(SplitSet) /\ Len(f[n]) >= 1
      BY <2>4
    <3>2. /\ f[n + 1] \in Seq(SplitSet) 
          /\ Len(f[n + 1]) = Len(f[n]) \/ Len(f[n + 1]) = Len(f[n]) + 1
      BY <2>2, <2>3, <3>1, SetItemShape
    <3> QED BY <3>1, <3>2
  <2>8. \A j \in 0 .. Len(ss) - 1 : x[j] = b[j]
    BY <2>4, <2>5, <2>6
  <2>9. x[Len(f[n + 1]) - 1] < n + 1
    <3>1. Len(f[n + 1]) \in Nat \ {0}
      BY <2>4, <2>7
    <3>2. x[Len(f[n + 1]) - 1] \in Nat
      <4>1. Len(f[n + 1]) - 1 \in 0 .. Len(f[n + 1])
        BY <3>1
      <4>2. x \in [0 .. Len(f[n + 1]) -> Nat]
        BY <2>6 DEF Bounds
      <4> QED BY <4>1, <4>2
    <3> QED BY <2>1, <2>6, <3>2
  <2>10. P(n + 1)
    BY <2>4, <2>6, <2>7, <2>8, <2>9
  <2> QED BY <1>3, <2>10
<1>4. Len(d) \in S
  <2>1. start \in Nat /\ Len(d) \in Nat /\ Len(d) \in start .. Len(d)
    OBVIOUS
  <2> HIDE DEF S
  <2>2. \A n \in start .. Len(d) : n \in S
    BY <1>2, <1>3, <2>1, Induct
  <2> QED BY <2>1, <2>2
<1> QED BY <1>1, <1>4

\* h has the keys of the full buffer h0, with the items of its first n records at least.
Again(h, h0, d, n) ==
    /\ DOMAIN h.items = DOMAIN h0.items /\ h.end = Len(d)
    /\ \A i \in 1 .. n : /\ h.items[d[i].key].n \in i .. n
                         /\ d[h.items[d[i].key].n] = [key |-> d[i].key, live |-> h.items[d[i].key].live]

LEMMA ExactKeys ==
    ASSUME NEW h0, NEW d, Exact(h0, d, 0, Len(d))
    PROVE  \A n \in 1 .. Len(d) : d[n].key \in DOMAIN h0.items
<1>1. \A n \in 0 + 1 .. Len(d) : d[n].key \in DOMAIN h0.items
  BY DEF Exact
<1>2. 0 + 1 = 1
  OBVIOUS
<1> QED BY <1>1, <1>2

LEMMA AgainSet ==
    ASSUME NEW L \in Nat, NEW d, Len(d) = L, NEW h0, Exact(h0, d, 0, Len(d)),
           NEW n \in Nat, n + 1 <= L, NEW h \in HintSet, Again(h, h0, d, n),
           NEW k \in Keys, NEW item \in HintItems, d[n + 1].key = k, item.n = n + 1,
           d[n + 1] = [key |-> k, live |-> item.live]
    PROVE  Again(BufferSet(h, k, item), h0, d, n + 1)
<1> DEFINE r == BufferSet(h, k, item)
           D == DOMAIN h0.items
<1>1. /\ DOMAIN r.items = DOMAIN h.items \cup {k}
      /\ r.items[k] = item
      /\ \A x \in DOMAIN h.items : x # k => r.items[x] = h.items[x]
      /\ r.end = IF h.end >= item.n THEN h.end ELSE item.n
  BY BufferSetShape
<1>2. \A i \in 1 .. L : d[i].key \in D
  BY ExactKeys
<1>3. DOMAIN h.items = D /\ h.end = L
  BY DEF Again
<1>4. k \in D
  <2>1. n + 1 \in 1 .. L
    OBVIOUS
  <2> QED BY <1>2, <2>1
<1> HIDE DEF r, D
<1>5. DOMAIN r.items = D /\ r.end = L
  BY <1>1, <1>3, <1>4
<1>6. ASSUME NEW i \in 1 .. n + 1
      PROVE  /\ r.items[d[i].key].n \in i .. n + 1
             /\ d[r.items[d[i].key].n] = [key |-> d[i].key, live |-> r.items[d[i].key].live]
  <2>1. CASE d[i].key = k
    BY <1>1, <2>1
  <2>2. CASE d[i].key # k
    <3>1. i \in 1 .. n /\ i \in 1 .. L
      BY <2>2
    <3>2. r.items[d[i].key] = h.items[d[i].key]
      BY <1>1, <1>2, <1>3, <2>2, <3>1
    <3>3. /\ h.items[d[i].key].n \in i .. n
          /\ d[h.items[d[i].key].n] = [key |-> d[i].key, live |-> h.items[d[i].key].live]
      BY <3>1 DEF Again
    <3>4. h.items[d[i].key].n \in i .. n + 1
      BY <3>1, <3>3
    <3> QED BY <3>2, <3>3, <3>4
  <2> QED BY <2>1, <2>2
<1>7. Again(r, h0, d, n + 1)
  BY <1>5, <1>6 DEF Again, D
<1> QED BY <1>7 DEF r

LEMMA AgainFull ==
    ASSUME NEW L \in Nat \ {0}, NEW d, Len(d) = L, NEW h0, Exact(h0, d, 0, Len(d)),
           NEW h, Again(h, h0, d, L)
    PROVE  Exact(h, d, 0, Len(d))
<1>1. DOMAIN h.items = DOMAIN h0.items /\ h.end = L
  BY DEF Again
<1>2. \A n \in 1 .. L : d[n].key \in DOMAIN h.items
  BY <1>1, ExactKeys
<1>3. ASSUME NEW k \in DOMAIN h.items
      PROVE  /\ h.items[k].n \in 1 .. L
             /\ d[h.items[k].n] = [key |-> k, live |-> h.items[k].live]
             /\ \A n \in 1 .. L : d[n].key = k => n <= h.items[k].n
  <2>1. PICK i \in 1 .. L : d[i].key = k
    <3>1. k \in DOMAIN h0.items /\ 0 + 1 = 1
      BY <1>1
    <3>2. h0.items[k].n \in 0 + 1 .. L /\ d[h0.items[k].n] = [key |-> k, live |-> h0.items[k].live]
      BY <3>1 DEF Exact
    <3>3. d[h0.items[k].n].key = k
      BY <3>2
    <3> QED BY <3>1, <3>2, <3>3
  <2>2. /\ h.items[k].n \in i .. L
        /\ d[h.items[k].n] = [key |-> k, live |-> h.items[k].live]
    BY <2>1 DEF Again
  <2>3. \A n \in 1 .. L : d[n].key = k => h.items[k].n \in n .. L
    BY DEF Again
  <2> QED BY <2>2, <2>3
<1>4. 0 + 1 = 1 /\ 0 < L
  OBVIOUS
<1> QED BY <1>1, <1>2, <1>3, <1>4 DEF Exact

\* Reading again all records that the only split has changes nothing.
LEMMA RecordsAgain ==
    ASSUME NEW d \in Seq(Records), NEW ss \in Seq(SplitSet), Len(ss) = 1,
           Exact(ss[1].buf, d, 0, Len(d)), Len(d) > 0
    PROVE  LET r == SetRecords(ss, d, 0)
           IN  r \in Seq(SplitSet) /\ Len(r) = 1 /\ Exact(r[1].buf, d, 0, Len(d))
<1>0. PICK L : L \in Nat \ {0} /\ L = Len(d)
  OBVIOUS
<1>a. PICK f : Reads(f, ss, d, 0) /\ SetRecords(ss, d, 0) = f[Len(d)]
  <2>1. 0 \in 0 .. Len(d)
    BY <1>0
  <2> QED BY <2>1, RecordsSet
<1>1. /\ f[0] = ss
      /\ \A n \in 0 .. L : n # 0 => f[n] = SetItem(f[n - 1], d[n].key, [n |-> n, live |-> d[n].live])
      /\ SetRecords(ss, d, 0) = f[L]
  BY <1>0, <1>a DEF Reads
<1> DEFINE h0 == ss[1].buf
           P(n) == f[n] \in Seq(SplitSet) /\ Len(f[n]) = 1 /\ Again(f[n][1].buf, h0, d, n)
           S == {n \in 0 .. L : P(n)}
<1>2. 0 \in S
  <2>1. h0.end = L
    BY <1>0 DEF Exact
  <2>2. \A i \in 1 .. 0 : FALSE
    OBVIOUS
  <2>3. Again(h0, h0, d, 0)
    BY <1>0, <2>1, <2>2 DEF Again
  <2> QED BY <1>0, <1>1, <2>3
<1>3. ASSUME NEW n \in 0 .. L, n < L, n \in S PROVE n + 1 \in S
  <2> DEFINE k == d[n + 1].key
             item == [n |-> n + 1, live |-> d[n + 1].live]
  <2>0. n \in Nat /\ n + 1 <= L /\ P(n)
    BY <1>0, <1>3
  <2> HIDE DEF P, S
  <2>1. d[n + 1] \in Records
    BY <1>0, <2>0, RecordAt
  <2>2. k \in Keys /\ item \in HintItems /\ item.n = n + 1 /\ d[n + 1] = [key |-> k, live |-> item.live]
    BY <2>0, <2>1 DEF Records, HintItems
  <2>3. f[n + 1] = SetItem(f[n], k, item)
    <3>1. n + 1 \in 0 .. L /\ n + 1 # 0 /\ (n + 1) - 1 = n
      BY <1>0, <2>0
    <3> QED BY <1>1, <3>1
  <2>p. PICK q : q = f[n]
    OBVIOUS
  <2>4. q \in Seq(SplitSet) /\ Len(q) = 1 /\ Again(q[1].buf, h0, d, n)
    BY <2>0, <2>p DEF P
  <2>5. q[1].buf \in HintSet
    <3>1. q[1] \in SplitSet
      <4>1. q \in Seq(SplitSet) /\ 1 \in 1 .. Len(q)
        BY <2>4
      <4> QED BY <4>1, ElementOfSeq
    <3> QED BY <3>1, SplitShape
  <2>6. Fits(q[1].buf, k)
    <3>1. n + 1 \in 1 .. Len(d)
      BY <1>0, <2>0
    <3>2. k \in DOMAIN h0.items
      BY <3>1, ExactKeys
    <3> QED BY <2>4, <3>2 DEF Fits, Again
  <2>m. PICK m : m = item
    OBVIOUS
  <2>7. m \in HintItems /\ m.n = n + 1 /\ d[n + 1] = [key |-> k, live |-> m.live]
    BY <2>2, <2>m
  <2> HIDE DEF item, h0
  <2>8. /\ SetItem(q, k, m) \in Seq(SplitSet) /\ Len(SetItem(q, k, m)) = 1
        /\ SetItem(q, k, m)[1] = Split(BufferSet(q[1].buf, k, m), q[1].file)
    <3>1. Len(q) >= 1 /\ Fits(q[Len(q)].buf, k) /\ q \in Seq(SplitSet)
      BY <2>4, <2>6
    <3>2. k \in Keys /\ m \in HintItems
      BY <2>2, <2>7
    <3> HIDE DEF k
    <3>3. /\ SetItem(q, k, m) \in Seq(SplitSet) /\ Len(SetItem(q, k, m)) = Len(q)
          /\ SetItem(q, k, m)[Len(q)] = Split(BufferSet(q[Len(q)].buf, k, m), q[Len(q)].file)
      BY <3>1, <3>2, SetItemShape
    <3> QED BY <2>4, <3>3
  <2>9. Again(BufferSet(q[1].buf, k, m), h0, d, n + 1)
    BY <1>0, <2>0, <2>2, <2>4, <2>5, <2>7, AgainSet DEF h0
  <2>10. f[n + 1] = SetItem(q, k, m)
    BY <2>3, <2>p, <2>m
  <2>11. P(n + 1)
    <3>1. f[n + 1][1].buf = BufferSet(q[1].buf, k, m)
      BY <2>8, <2>10, SplitShape
    <3> QED BY <2>8, <2>9, <2>10, <3>1 DEF P
  <2>12. n + 1 \in 0 .. L
    BY <1>0, <2>0
  <2> QED BY <2>11, <2>12 DEF S
<1>4. L \in S
  <2> HIDE DEF S
  <2>1. 0 \in Nat /\ L \in Nat /\ L \in 0 .. L
    BY <1>0
  <2>2. \A n \in 0 .. L : n \in S
    BY <1>2, <1>3, <2>1, Induct
  <2> QED BY <2>1, <2>2
<1>5. P(L)
  <2> HIDE DEF P
  <2> QED BY <1>4
<1>6. f[L] \in Seq(SplitSet) /\ Len(f[L]) = 1 /\ Exact(f[L][1].buf, d, 0, Len(d))
  <2>1. Again(f[L][1].buf, h0, d, L)
    BY <1>5
  <2>2. Exact(f[L][1].buf, d, 0, Len(d))
    BY <1>0, <2>1, AgainFull
  <2> QED BY <1>5, <2>2
<1> QED BY <1>1, <1>6

-----------------------------------------------------------------------------
(* The hint files of a chunk and its splits *)

\* The files of the first splits have the newest records up to where they end.
FileBegin(hf, n) == IF n = 1 THEN 0 ELSE hf[n - 1].end
FilesOK(hf, d) ==
    d # << >> =>
        \A n \in SplitIds : (\A s \in 1 .. n : hf[s] # None) =>
            /\ Exact(hf[n], d, FileBegin(hf, n), hf[n].end)
            /\ n <= hf[n].end /\ hf[n].end <= Len(d)
            /\ \A i \in 0 .. n - 1 : FileBegin(hf, i + 1) \in Nat /\ FileBegin(hf, i + 1) < hf[n].end

\* The splits that this process has: m records are hinted, and the files are
\* those of the splits.
Kept(ss, d, hf, m) ==
    /\ \E b : Bounds(ss, d, b, m)
    /\ \A s \in SplitIds : hf[s] = IF s < Len(ss) THEN ss[s].file ELSE None

\* A chunk that is not written any more: no buffer is left that is not in a file.
Blank(s) == s.buf # None /\ DOMAIN s.buf.items = {} /\ s.buf.end = 0 /\ s.file = None
Quiet(ss, d, hf) ==
    /\ \A j \in 1 .. Len(ss) - 1 : ss[j].buf # None =>
          /\ ss[j].file = ss[j].buf /\ d # << >>
          /\ j \in SplitIds /\ hf[j] = ss[j].buf /\ \A i \in 1 .. j : hf[i] # None
    /\ Blank(ss[Len(ss)])

LEMMA BlankNew == Blank(NewSplit)
BY EmptyHints, SplitShape DEF Blank

LEMMA BlankExact ==
    ASSUME NEW s, Blank(s), NEW d, NEW m \in Nat
    PROVE  Exact(s.buf, d, m, m)
BY DEF Blank, Exact

LEMMA SplitNumbers ==
    /\ SplitIds \subseteq Nat \ {0}
    /\ \A n \in SplitIds : n \in 1 .. n /\ \A i \in 1 .. n : i \in SplitIds
    /\ \A n \in 1 .. DataFileMax : n \in SplitIds
BY Numbers DEF SplitIds

\* Bounds, taken apart.
LEMMA BoundsFacts ==
    ASSUME NEW ss \in Seq(SplitSet), Len(ss) >= 1, NEW d, NEW b, NEW m, Bounds(ss, d, b, m)
    PROVE  /\ b \in [0 .. Len(ss) -> Nat] /\ b[0] = 0 /\ b[Len(ss)] = m /\ m \in Nat
           /\ \A i, j \in 0 .. Len(ss) : i < j => b[i] <= b[j] /\ (j < Len(ss) => b[i] < b[j])
           /\ \A j \in 0 .. Len(ss) : b[j] <= m
           /\ \A j \in 0 .. Len(ss) - 1 : j <= b[j] /\ j <= m
           /\ \A j \in 1 .. Len(ss) : j - 1 \in 0 .. Len(ss) /\ j \in 0 .. Len(ss) /\ j - 1 < j
<1> DEFINE L == Len(ss)
<1>1. L \in Nat \ {0} /\ L \in 0 .. L
  OBVIOUS
<1>2. b \in [0 .. L -> Nat] /\ b[0] = 0 /\ b[L] = m
  BY DEF Bounds
<1>3. m \in Nat
  BY <1>1, <1>2
<1>4. \A i, j \in 0 .. L : i < j => b[i] <= b[j] /\ (j < L => b[i] < b[j])
  BY DEF Bounds
<1>5. ASSUME NEW j \in 0 .. L PROVE b[j] <= m
  <2>1. CASE j = L
    BY <1>2, <1>3, <2>1
  <2>2. CASE j # L
    <3>1. j < L
      BY <1>1, <2>2
    <3> QED BY <1>1, <1>2, <1>4, <3>1
  <2> QED BY <2>1, <2>2
<1>6. ASSUME NEW j \in 0 .. L - 1 PROVE j <= b[j] /\ j <= m
  <2>1. j <= b[j]
    BY DEF Bounds
  <2>2. j \in 0 .. L /\ b[j] \in Nat
    BY <1>1, <1>2
  <2> QED BY <1>3, <1>5, <2>1, <2>2
<1>7. \A j \in 1 .. L : j - 1 \in 0 .. L /\ j \in 0 .. L /\ j - 1 < j
  BY <1>1
<1> QED BY <1>2, <1>3, <1>4, <1>5, <1>6, <1>7

\* Splits with the same bounds: all that matters of each is buffer and file.
LEMMA BoundsSame ==
    ASSUME NEW ss \in Seq(SplitSet), Len(ss) >= 1, NEW d, NEW b, NEW m, Bounds(ss, d, b, m),
           NEW rr, Len(rr) = Len(ss), NEW e, \A n \in 1 .. m : e[n] = d[n],
           \A j \in 1 .. Len(ss) :
              /\ rr[j].buf # None => rr[j].buf = ss[j].buf
              /\ rr[j].file # None => rr[j].file \in {ss[j].file, ss[j].buf}
              /\ j = Len(ss) => rr[j].buf # None /\ rr[j].file = None
    PROVE  Bounds(rr, e, b, m)
<1> DEFINE L == Len(ss)
<1>1. L \in Nat \ {0}
  OBVIOUS
<1>2. ASSUME NEW h, NEW j \in 1 .. L, Exact(h, d, b[j - 1], b[j]) PROVE Exact(h, e, b[j - 1], b[j])
  <2>1. b[j - 1] \in Nat /\ b[j] \in Nat /\ b[j] <= m /\ m \in Nat
    BY BoundsFacts, SMTT(40)
  <2>2. \A n \in b[j - 1] + 1 .. b[j] : e[n] = d[n]
    BY <2>1
  <2> QED BY <1>2, <2>2 DEF Exact
<1>3. ASSUME NEW j \in 1 .. L
      PROVE  /\ rr[j].buf # None => Exact(rr[j].buf, e, b[j - 1], b[j])
             /\ rr[j].file # None => Exact(rr[j].file, e, b[j - 1], b[j])
             /\ rr[j].buf # None /\ rr[j].file # None => rr[j].buf = rr[j].file
  <2>1. /\ ss[j].buf # None => Exact(ss[j].buf, d, b[j - 1], b[j])
        /\ ss[j].file # None => Exact(ss[j].file, d, b[j - 1], b[j])
        /\ ss[j].buf # None /\ ss[j].file # None => ss[j].buf = ss[j].file
    BY DEF Bounds
  <2> QED BY <1>2, <2>1
<1>4. L \in 1 .. L
  BY <1>1
<1>5. rr[L].buf # None /\ rr[L].file = None
  BY <1>4
<1> QED BY <1>3, <1>5 DEF Bounds

\* The files are then exact.
LEMMA KeptFiles ==
    ASSUME NEW ss \in Seq(SplitSet), Len(ss) >= 1, NEW d \in Seq(Records), NEW hf,
           NEW m, m <= Len(d), Kept(ss, d, hf, m)
    PROVE  FilesOK(hf, d)
<1> DEFINE L == Len(ss)
<1>1. PICK b : Bounds(ss, d, b, m)
  BY DEF Kept
<1>2. /\ b \in [0 .. L -> Nat] /\ b[0] = 0 /\ b[L] = m /\ m \in Nat /\ L \in Nat
      /\ \A i, j \in 0 .. L : i < j => b[i] <= b[j] /\ (j < L => b[i] < b[j])
      /\ \A j \in 0 .. L : b[j] <= m
  BY <1>1, BoundsFacts
<1> SUFFICES ASSUME NEW n \in SplitIds, \A s \in 1 .. n : hf[s] # None
             PROVE  /\ Exact(hf[n], d, FileBegin(hf, n), hf[n].end)
                    /\ n <= hf[n].end /\ hf[n].end <= Len(d)
                    /\ \A i \in 0 .. n - 1 : FileBegin(hf, i + 1) \in Nat /\ FileBegin(hf, i + 1) < hf[n].end
  BY DEF FilesOK
<1>3. n \in Nat \ {0} /\ n \in 1 .. n /\ \A s \in 1 .. n : s \in SplitIds
  BY SplitNumbers
<1>4. n < L
  BY <1>3 DEF Kept
<1>5. ASSUME NEW s \in 1 .. n PROVE Exact(hf[s], d, b[s - 1], b[s]) /\ hf[s].end = b[s]
  <2>1. s \in 1 .. L /\ s < L /\ s \in SplitIds /\ s - 1 \in 0 .. L /\ s \in 0 .. L /\ s - 1 < s
    BY <1>2, <1>3, <1>4
  <2>2. hf[s] = ss[s].file /\ ss[s].file # None
    BY <2>1 DEF Kept
  <2>3. Exact(hf[s], d, b[s - 1], b[s])
    BY <1>1, <2>1, <2>2 DEF Bounds
  <2>4. b[s - 1] < b[s]
    BY <1>2, <2>1
  <2> QED BY <2>3, <2>4 DEF Exact
<1>6. ASSUME NEW i \in 0 .. n - 1 PROVE FileBegin(hf, i + 1) = b[i]
  <2>1. CASE i = 0
    BY <1>2, <2>1 DEF FileBegin
  <2>2. CASE i # 0
    <3>1. i \in 1 .. n /\ i + 1 # 1 /\ (i + 1) - 1 = i
      BY <1>3, <2>2
    <3> QED BY <1>5, <3>1 DEF FileBegin
  <2> QED BY <2>1, <2>2
<1>7. n - 1 \in 0 .. n - 1 /\ (n - 1) + 1 = n /\ n \in 0 .. L
  BY <1>2, <1>3, <1>4
<1>8. Exact(hf[n], d, FileBegin(hf, n), hf[n].end)
  BY <1>3, <1>5, <1>6, <1>7
<1>9. n <= hf[n].end /\ hf[n].end <= Len(d)
  <2>1. n \in 0 .. L - 1
    BY <1>2, <1>3, <1>4
  <2>2. n <= b[n]
    BY <1>1, <2>1 DEF Bounds
  <2> QED BY <1>2, <1>3, <1>5, <1>7, <2>2, SMTT(40)
<1>10. ASSUME NEW i \in 0 .. n - 1 PROVE b[i] \in Nat /\ b[i] < b[n]
  <2>1. i \in 0 .. L /\ i < n
    BY <1>2, <1>3, <1>4
  <2> QED BY <1>2, <1>4, <1>7, <2>1
<1> QED BY <1>3, <1>5, <1>6, <1>8, <1>9, <1>10

LEMMA KeptPrefix ==
    ASSUME NEW ss \in Seq(SplitSet), Len(ss) >= 1, NEW d, NEW hf, NEW m, Kept(ss, d, hf, m),
           NEW e, \A n \in 1 .. m : e[n] = d[n]
    PROVE  Kept(ss, e, hf, m)
<1>1. PICK b : Bounds(ss, d, b, m)
  BY DEF Kept
<1>2. ss[Len(ss)].buf # None /\ ss[Len(ss)].file = None
  BY <1>1 DEF Bounds
<1>3. Bounds(ss, e, b, m)
  BY <1>1, <1>2, BoundsSame
<1> QED BY <1>3 DEF Kept

\* A chunk without data.
LEMMA KeptEmpty ==
    ASSUME NEW d, NEW hf, \A s \in SplitIds : hf[s] = None
    PROVE  Kept(<<NewSplit>>, d, hf, 0)
<1> DEFINE ss == <<NewSplit>>
           b == [j \in 0 .. 1 |-> 0]
<1>1. Len(ss) = 1 /\ ss[1] = NewSplit
  OBVIOUS
<1>2. /\ b \in [0 .. 1 -> Nat] /\ b[0] = 0 /\ b[1] = 0
      /\ \A i, j \in 0 .. 1 : i < j => b[i] <= b[j] /\ (j < 1 => b[i] < b[j])
      /\ \A j \in 0 .. 1 - 1 : j <= b[j]
  OBVIOUS
<1>3. NewSplit.buf = EmptyBuffer /\ NewSplit.file = None /\ EmptyBuffer # None
  BY EmptyHints, SplitShape
<1>4. Exact(EmptyBuffer, d, 0, 0)
  BY ExactEmpty
<1>5. \A j \in 1 .. 1 : j = 1 /\ j - 1 = 0
  OBVIOUS
<1> HIDE DEF ss, b
<1>6. Bounds(ss, d, b, 0)
  BY <1>1, <1>2, <1>3, <1>4, <1>5 DEF Bounds
<1>7. \A s \in SplitIds : ~(s < Len(ss))
  BY <1>1, SplitNumbers
<1> QED BY <1>6, <1>7 DEF Kept, ss

\* setItem
LEMMA KeptSet ==
    ASSUME NEW d \in Seq(Records), NEW m \in Nat, m + 1 <= Len(d),
           NEW ss \in Seq(SplitSet), Len(ss) >= 1, NEW hf, Kept(ss, d, hf, m)
    PROVE  LET r == SetItem(ss, d[m + 1].key, [n |-> m + 1, live |-> d[m + 1].live])
           IN  /\ Kept(r, d, hf, m + 1)
               /\ r \in Seq(SplitSet) /\ Len(r) >= Len(ss)
               /\ \A j \in 1 .. Len(ss) - 1 : r[j] = ss[j]
               /\ DOMAIN r[Len(r)].buf.items # {}
<1> DEFINE L == Len(ss)
           k == d[m + 1].key
           item == [n |-> m + 1, live |-> d[m + 1].live]
           r == SetItem(ss, k, item)
<1>1. PICK b : Bounds(ss, d, b, m)
  BY DEF Kept
<1>2. PICK a : Bounds(r, d, a, m + 1)
  BY <1>1, BoundsSet
<1>3. k \in Keys /\ item \in HintItems
  <2>1. d[m + 1] \in Records
    BY RecordAt
  <2> QED BY <2>1 DEF Records, HintItems
<1> HIDE DEF k, item
<1>4. /\ r \in Seq(SplitSet)
      /\ \A j \in 1 .. L - 1 : r[j] = ss[j]
      /\ \/ Len(r) = L /\ r[L] = Split(BufferSet(ss[L].buf, k, item), ss[L].file)
         \/ /\ Len(r) = L + 1
            /\ r[L].file = ss[L].file
            /\ r[L + 1] = Split(BufferSet(EmptyBuffer, k, item), None)
  BY <1>3, SetItemShape, SplitShape
<1>5. DOMAIN r[Len(r)].buf.items # {}
  <2>0. ss[L] \in SplitSet /\ ss[L].buf \in HintSet
    BY SplitShape
  <2>1. \E h \in HintSet : r[Len(r)].buf = BufferSet(h, k, item)
    BY <1>4, <2>0, SplitShape, EmptyHints
  <2>2. PICK h \in HintSet : r[Len(r)].buf = BufferSet(h, k, item)
    BY <2>1
  <2>3. DOMAIN BufferSet(h, k, item).items = DOMAIN h.items \cup {k}
    BY <1>3, BufferSetShape
  <2> QED BY <2>2, <2>3
<1>6. ss[L].file = None
  BY <1>1 DEF Bounds
<1>7. Len(r) >= L
  BY <1>4
<1> HIDE DEF r
<1>8. ASSUME NEW s \in SplitIds PROVE hf[s] = IF s < Len(r) THEN r[s].file ELSE None
  <2>1. s \in Nat \ {0} /\ L \in Nat /\ Len(r) \in Nat
    BY <1>4, SplitNumbers
  <2>2. hf[s] = IF s < L THEN ss[s].file ELSE None
    BY DEF Kept
  <2>3. CASE s < L
    <3>1. s \in 1 .. L - 1 /\ s < Len(r)
      BY <1>7, <2>1, <2>3
    <3> QED BY <1>4, <2>2, <2>3, <3>1
  <2>4. CASE ~(s < L)
    <3>1. s < Len(r) => s = L /\ Len(r) = L + 1
      BY <1>4, <2>1, <2>4
    <3>2. s < Len(r) => r[s].file = None
      BY <1>4, <1>6, <2>1, <3>1
    <3> QED BY <2>2, <2>4, <3>2
  <2> QED BY <2>3, <2>4
<1>9. Kept(r, d, hf, m + 1)
  BY <1>2, <1>8 DEF Kept
<1> QED BY <1>4, <1>5, <1>7, <1>9 DEF r, k, item

\* rotate: a new split behind one that has items.
LEMMA KeptRotate ==
    ASSUME NEW ss \in Seq(SplitSet), Len(ss) >= 1, NEW d, NEW hf, NEW m, Kept(ss, d, hf, m),
           DOMAIN ss[Len(ss)].buf.items # {}, NEW x \in SplitSet, Blank(x)
    PROVE  Kept(Append(ss, x), d, hf, m)
<1> DEFINE L == Len(ss)
           r == Append(ss, x)
<1>1. PICK b : Bounds(ss, d, b, m)
  BY DEF Kept
<1>2. /\ b \in [0 .. L -> Nat] /\ b[0] = 0 /\ b[L] = m /\ m \in Nat /\ L \in Nat \ {0}
      /\ \A i, j \in 0 .. L : i < j => b[i] <= b[j] /\ (j < L => b[i] < b[j])
      /\ \A j \in 0 .. L : b[j] <= m
      /\ \A j \in 0 .. L - 1 : j <= b[j] /\ j <= m
      /\ ss[L].file = None /\ ss[L].buf # None
  <2>1. ss[L].file = None /\ ss[L].buf # None
    BY <1>1 DEF Bounds
  <2> QED BY <1>1, <2>1, BoundsFacts
<1>3. r \in Seq(SplitSet) /\ Len(r) = L + 1 /\ r[L + 1] = x /\ \A j \in 1 .. L : r[j] = ss[j]
  OBVIOUS
<1>4. b[L - 1] < m /\ b[L - 1] \in Nat /\ L - 1 <= b[L - 1] /\ L - 1 \in 0 .. L
  <2>1. L \in 1 .. L /\ L - 1 \in 0 .. L /\ L \in 0 .. L /\ L - 1 < L /\ L - 1 \in 0 .. L - 1
    BY <1>2
  <2>2. Exact(ss[L].buf, d, b[L - 1], b[L])
    BY <1>1, <1>2, <2>1 DEF Bounds
  <2>3. PICK k : k \in DOMAIN ss[L].buf.items
    OBVIOUS
  <2>4. ss[L].buf.items[k].n \in b[L - 1] + 1 .. b[L]
    BY <2>2, <2>3 DEF Exact
  <2>5. b[L - 1] \in Nat /\ b[L] = m /\ L - 1 <= b[L - 1]
    BY <1>2, <2>1
  <2>6. b[L - 1] < m
    BY <1>2, <2>4, <2>5, SMTT(40)
  <2> QED BY <2>1, <2>5, <2>6
<1> DEFINE a == [j \in 0 .. L + 1 |-> IF j = L + 1 THEN m ELSE b[j]]
<1>5. /\ a \in [0 .. L + 1 -> Nat] /\ a[0] = 0 /\ a[L + 1] = m
      /\ \A j \in 0 .. L : a[j] = b[j] /\ b[j] \in Nat
  <2>1. \A j \in 0 .. L : j # L + 1 /\ j \in 0 .. L + 1 /\ b[j] \in Nat
    BY <1>2
  <2>2. \A j \in 0 .. L + 1 : j = L + 1 \/ j \in 0 .. L
    BY <1>2
  <2>3. 0 \in 0 .. L /\ L + 1 \in 0 .. L + 1
    BY <1>2
  <2> QED BY <1>2, <2>1, <2>2, <2>3
<1> HIDE DEF a, r
<1>6. ASSUME NEW i \in 0 .. L + 1, NEW j \in 0 .. L + 1, i < j
      PROVE  a[i] <= a[j] /\ (j < L + 1 => a[i] < a[j])
  <2>1. i \in 0 .. L
    BY <1>2, <1>6
  <2>2. CASE j = L + 1
    BY <1>2, <1>5, <2>1, <2>2
  <2>3. CASE j = L
    <3>1. i \in 0 .. L - 1 /\ L \in 0 .. L
      BY <1>2, <1>6, <2>3
    <3>2. b[i] <= b[L - 1]
      BY <1>2, <1>4, <1>5, <2>1, <3>1
    <3> QED BY <1>2, <1>4, <1>5, <2>1, <2>3, <3>1, <3>2
  <2>4. CASE j < L
    <3>1. j \in 0 .. L
      BY <1>2, <2>4
    <3> QED BY <1>2, <1>5, <1>6, <2>1, <2>4, <3>1
  <2> QED BY <1>2, <2>2, <2>3, <2>4
<1>7. \A j \in 0 .. L : j <= a[j]
  <2> SUFFICES ASSUME NEW j \in 0 .. L PROVE j <= a[j]
    OBVIOUS
  <2>1. CASE j = L
    BY <1>2, <1>4, <1>5, <2>1
  <2>2. CASE j # L
    <3>1. j \in 0 .. L - 1
      BY <1>2, <2>2
    <3> QED BY <1>2, <1>5, <3>1
  <2> QED BY <2>1, <2>2
<1>8. ASSUME NEW j \in 1 .. L + 1
      PROVE  /\ r[j].buf # None => Exact(r[j].buf, d, a[j - 1], a[j])
             /\ r[j].file # None => Exact(r[j].file, d, a[j - 1], a[j])
             /\ r[j].buf # None /\ r[j].file # None => r[j].buf = r[j].file
  <2>1. CASE j = L + 1
    <3>1. a[j - 1] = m /\ a[j] = m
      BY <1>2, <1>5, <2>1
    <3>2. Exact(x.buf, d, m, m)
      BY <1>2, BlankExact
    <3> QED BY <1>3, <2>1, <3>1, <3>2 DEF Blank
  <2>2. CASE j # L + 1
    <3>1. j \in 1 .. L /\ j - 1 \in 0 .. L /\ j \in 0 .. L
      BY <1>2, <2>2
    <3> QED BY <1>1, <1>3, <1>5, <3>1 DEF Bounds
  <2> QED BY <2>1, <2>2
<1>9. Bounds(r, d, a, m)
  <2>1. Len(r) - 1 = L
    BY <1>2, <1>3
  <2> QED BY <1>3, <1>5, <1>6, <1>7, <1>8, <2>1 DEF Bounds, Blank
<1>10. ASSUME NEW s \in SplitIds PROVE hf[s] = IF s < L + 1 THEN r[s].file ELSE None
  <2>1. s \in Nat \ {0} /\ hf[s] = IF s < L THEN ss[s].file ELSE None
    BY SplitNumbers DEF Kept
  <2>2. s < L + 1 => s \in 1 .. L /\ r[s] = ss[s]
    BY <1>2, <1>3, <2>1
  <2>3. s < L + 1 /\ ~(s < L) => s = L
    BY <1>2, <2>1
  <2>4. s < L => s < L + 1
    BY <1>2, <2>1
  <2> QED BY <1>2, <2>1, <2>2, <2>3, <2>4
<1> QED BY <1>3, <1>9, <1>10 DEF Kept, r

\* A split is dumped: its buffer is in the file.
LEMMA KeptDump ==
    ASSUME NEW ss \in Seq(SplitSet), Len(ss) >= 1, NEW d \in Seq(Records), Len(d) <= DataFileMax,
           NEW hf \in [SplitIds -> HintSet], NEW m, m <= Len(d), Kept(ss, d, hf, m),
           NEW j \in 1 .. Len(ss) - 1, ss[j].buf # None
    PROVE  Kept([ss EXCEPT ![j].file = ss[j].buf], d, [hf EXCEPT ![j] = ss[j].buf], m)
<1> DEFINE L == Len(ss)
           r == [ss EXCEPT ![j].file = ss[j].buf]
           h == [hf EXCEPT ![j] = ss[j].buf]
<1>1. PICK b : Bounds(ss, d, b, m)
  BY DEF Kept
<1>2. L \in Nat \ {0} /\ j \in 1 .. L /\ j # L /\ m \in Nat /\ j <= m
  <2>1. j \in 0 .. L - 1
    OBVIOUS
  <2> QED BY <1>1, <2>1, BoundsFacts
<1>3. j \in SplitIds
  <2>1. j \in 1 .. DataFileMax
    BY <1>2, Numbers
  <2> QED BY <2>1, SplitNumbers
<1>4. ss[j] \in SplitSet /\ ss[j] = Split(ss[j].buf, ss[j].file)
  BY <1>2, SplitShape
<1>5. Len(r) = L /\ r[j] = Split(ss[j].buf, ss[j].buf) /\ \A i \in 1 .. L : i # j => r[i] = ss[i]
  <2>1. [ss[j] EXCEPT !.file = ss[j].buf] = Split(ss[j].buf, ss[j].buf)
    BY <1>4 DEF Split
  <2>2. r = [ss EXCEPT ![j] = [ss[j] EXCEPT !.file = ss[j].buf]]
    OBVIOUS
  <2> QED BY <1>2, <2>1, <2>2, SMTT(40)
<1> HIDE DEF r
<1>6. r[j].buf = ss[j].buf /\ r[j].file = ss[j].buf
  BY <1>5, SplitShape
<1>7. Bounds(r, d, b, m)
  <2>1. ss[L].buf # None /\ ss[L].file = None
    BY <1>1 DEF Bounds
  <2>2. \A i \in 1 .. L :
              /\ r[i].buf # None => r[i].buf = ss[i].buf
              /\ r[i].file # None => r[i].file \in {ss[i].file, ss[i].buf}
              /\ i = L => r[i].buf # None /\ r[i].file = None
    BY <1>2, <1>5, <1>6, <2>1
  <2> QED BY <1>1, <1>5, <2>2, BoundsSame
<1>8. ASSUME NEW s \in SplitIds PROVE h[s] = IF s < L THEN r[s].file ELSE None
  <2>1. s \in Nat \ {0} /\ hf[s] = IF s < L THEN ss[s].file ELSE None
    BY SplitNumbers DEF Kept
  <2>2. s < L => s \in 1 .. L
    BY <1>2, <2>1
  <2>3. j < L
    BY <1>2
  <2>4. CASE s = j
    BY <1>3, <1>6, <2>3, <2>4
  <2>5. CASE s # j
    BY <1>5, <2>1, <2>2, <2>5
  <2> QED BY <2>4, <2>5
<1> QED BY <1>5, <1>7, <1>8 DEF Kept, r

\* A buffer is dropped.
LEMMA KeptDrop ==
    ASSUME NEW ss \in Seq(SplitSet), Len(ss) >= 1, NEW d, NEW hf, NEW m, Kept(ss, d, hf, m),
           NEW j \in 1 .. Len(ss) - 1
    PROVE  Kept([ss EXCEPT ![j].buf = None], d, hf, m)
<1> DEFINE L == Len(ss)
           r == [ss EXCEPT ![j].buf = None]
<1>1. PICK b : Bounds(ss, d, b, m)
  BY DEF Kept
<1>2. L \in Nat \ {0} /\ j \in 1 .. L /\ j # L
  OBVIOUS
<1>4. ss[j] \in SplitSet /\ ss[j] = Split(ss[j].buf, ss[j].file)
  BY <1>2, SplitShape
<1>5. Len(r) = L /\ r[j] = Split(None, ss[j].file) /\ \A i \in 1 .. L : i # j => r[i] = ss[i]
  <2>1. [ss[j] EXCEPT !.buf = None] = Split(None, ss[j].file)
    BY <1>4 DEF Split
  <2>2. r = [ss EXCEPT ![j] = [ss[j] EXCEPT !.buf = None]]
    OBVIOUS
  <2> QED BY <1>2, <2>1, <2>2
<1> HIDE DEF r
<1>6. r[j].buf = None /\ r[j].file = ss[j].file
  BY <1>5, SplitShape
<1>7. Bounds(r, d, b, m)
  <2>1. ss[L].buf # None /\ ss[L].file = None
    BY <1>1 DEF Bounds
  <2>2. \A i \in 1 .. L :
              /\ r[i].buf # None => r[i].buf = ss[i].buf
              /\ r[i].file # None => r[i].file \in {ss[i].file, ss[i].buf}
              /\ i = L => r[i].buf # None /\ r[i].file = None
    BY <1>2, <1>5, <1>6, <2>1
  <2> QED BY <1>1, <1>5, <2>2, BoundsSame
<1>8. \A s \in SplitIds : s < L => r[s].file = ss[s].file
  <2> SUFFICES ASSUME NEW s \in SplitIds, s < L PROVE r[s].file = ss[s].file
    OBVIOUS
  <2>1. s \in 1 .. L
    BY <1>2, SplitNumbers
  <2> QED BY <1>5, <1>6, <2>1
<1> QED BY <1>5, <1>7, <1>8 DEF Kept, r

\* In a quiet chunk neither changes anything but that a buffer goes.
LEMMA QuietDump ==
    ASSUME NEW ss \in Seq(SplitSet), Len(ss) >= 1, NEW d, NEW hf \in [SplitIds -> HintSet],
           Quiet(ss, d, hf), NEW j \in 1 .. Len(ss) - 1, ss[j].buf # None
    PROVE  [ss EXCEPT ![j].file = ss[j].buf] = ss /\ [hf EXCEPT ![j] = ss[j].buf] = hf
<1>1. ss[j].file = ss[j].buf /\ j \in SplitIds /\ hf[j] = ss[j].buf
  BY DEF Quiet
<1>2. [hf EXCEPT ![j] = ss[j].buf] = hf
  BY <1>1
<1>3. ss[j] \in SplitSet /\ ss[j] = Split(ss[j].buf, ss[j].file)
  BY SplitShape
<1>4. [ss[j] EXCEPT !.file = ss[j].buf] = ss[j]
  BY <1>1, <1>3 DEF Split
<1>5. [ss EXCEPT ![j].file = ss[j].buf] = [ss EXCEPT ![j] = ss[j]]
  BY <1>4
<1>6. [ss EXCEPT ![j] = ss[j]] = ss
  OBVIOUS
<1> QED BY <1>2, <1>5, <1>6

LEMMA QuietDrop ==
    ASSUME NEW ss \in Seq(SplitSet), Len(ss) >= 1, NEW d, NEW hf, Quiet(ss, d, hf),
           NEW j \in 1 .. Len(ss) - 1
    PROVE  Quiet([ss EXCEPT ![j].buf = None], d, hf)
<1> DEFINE L == Len(ss)
           r == [ss EXCEPT ![j].buf = None]
<1>2. L \in Nat \ {0} /\ j \in 1 .. L /\ j # L
  OBVIOUS
<1>4. ss[j] \in SplitSet /\ ss[j] = Split(ss[j].buf, ss[j].file)
  BY <1>2, SplitShape
<1>5. Len(r) = L /\ r[j] = Split(None, ss[j].file) /\ \A i \in 1 .. L : i # j => r[i] = ss[i]
  <2>1. [ss[j] EXCEPT !.buf = None] = Split(None, ss[j].file)
    BY <1>4 DEF Split
  <2>2. r = [ss EXCEPT ![j] = [ss[j] EXCEPT !.buf = None]]
    OBVIOUS
  <2> QED BY <1>2, <2>1, <2>2
<1> HIDE DEF r
<1>6. r[j].buf = None
  BY <1>5, SplitShape
<1>7. r[L] = ss[L] /\ \A i \in 1 .. L - 1 : r[i].buf # None => r[i] = ss[i]
  BY <1>2, <1>5, <1>6
<1> QED BY <1>5, <1>7 DEF Quiet, r

-----------------------------------------------------------------------------
(* checkHintWithData, of a chunk with splits ss, hint files hf and data d *)

Valid(hf, d) ==
    IF d = << >> THEN 0 ELSE Max({0} \cup {n \in SplitIds : \A s \in 1 .. n : hf[s] # None})
Loads(ss, hf, d) ==
    Front(ss) \o [s \in 1 .. Valid(hf, d) |-> Split(None, hf[s])] \o <<Last(ss)>>
Size(hf, d) == Max({0} \cup {hf[s].end : s \in 1 .. Valid(hf, d)})
Dumped(r) == [j \in DOMAIN r |-> IF r[j].buf # None THEN Split(None, r[j].buf) ELSE r[j]]
Checks(ss, hf, d) ==
    IF Size(hf, d) < Len(d) THEN Dumped(SetRecords(Loads(ss, hf, d), d, Size(hf, d))) \o <<NewSplit>>
    ELSE Loads(ss, hf, d)
FilesAfter(ss, hf, d) ==
    [s \in SplitIds |->
        IF s <= Valid(hf, d) THEN hf[s]
        ELSE IF s >= Len(Loads(ss, hf, d)) /\ s < Len(Checks(ss, hf, d)) THEN Checks(ss, hf, d)[s].file
        ELSE None]

LEMMA CheckDefs ==
    ASSUME NEW c
    PROVE  /\ ValidPaths(c) = Valid(hfile[c], data[c])
           /\ LoadHints(c) = Loads(splits[c], hfile[c], data[c])
           /\ DataSize(c) = Size(hfile[c], data[c])
           /\ CheckedSplits(c) = Checks(splits[c], hfile[c], data[c])
<1>1. ValidPaths(c) = Valid(hfile[c], data[c])
  BY DEF ValidPaths, Valid
<1>2. LoadHints(c) = Loads(splits[c], hfile[c], data[c]) /\ DataSize(c) = Size(hfile[c], data[c])
  BY <1>1 DEF LoadHints, Loads, DataSize, Size
<1> QED BY <1>1, <1>2 DEF CheckedSplits, Checks, BuildHint, Dumped

\* findValidPaths ends at the first file that is missing.
LEMMA ValidFacts ==
    ASSUME NEW hf, NEW d
    PROVE  /\ Valid(hf, d) \in Nat
           /\ Valid(hf, d) > 0 => Valid(hf, d) \in SplitIds /\ d # << >>
           /\ \A s \in 1 .. Valid(hf, d) : s \in SplitIds /\ hf[s] # None
           /\ d # << >> => \A n \in SplitIds : (\A s \in 1 .. n : hf[s] # None) => n <= Valid(hf, d)
<1> DEFINE T == {n \in SplitIds : \A s \in 1 .. n : hf[s] # None}
           S == {0} \cup T
           V == Valid(hf, d)
<1>1. CASE d = << >>
  BY <1>1 DEF Valid
<1>2. CASE d # << >>
  <2>1. V = Max(S)
    BY <1>2 DEF Valid
  <2>2. 2 * DataFileMax \in Nat /\ S \subseteq -1 .. 2 * DataFileMax /\ S # {}
    BY Numbers DEF SplitIds
  <2>3. Max(S) \in S /\ \A y \in S : Max(S) >= y
    <3> HIDE DEF S
    <3> QED BY <2>2, MaxIsLargest
  <2>4. V \in S /\ \A y \in S : V >= y
    BY <2>1, <2>3
  <2> HIDE DEF V
  <2>5. V \in Nat /\ (V > 0 => V \in SplitIds /\ \A s \in 1 .. V : hf[s] # None)
    BY <2>4, SplitNumbers
  <2>6. \A s \in 1 .. V : s \in SplitIds /\ hf[s] # None
    BY <2>5, SplitNumbers
  <2>7. \A n \in T : n <= V
    BY <2>4, <2>5, SplitNumbers
  <2> QED BY <1>2, <2>5, <2>6, <2>7 DEF V
<1> QED BY <1>1, <1>2

\* The files reach as far as the last of them.
LEMMA SizeFacts ==
    ASSUME NEW hf \in [SplitIds -> HintSet], NEW d \in Seq(Records), FilesOK(hf, d)
    PROVE  /\ Size(hf, d) \in 0 .. Len(d)
           /\ Valid(hf, d) = 0 => Size(hf, d) = 0
           /\ Valid(hf, d) > 0 => Size(hf, d) = hf[Valid(hf, d)].end /\ Size(hf, d) > 0
           /\ \A s \in 1 .. Valid(hf, d) :
                 /\ Exact(hf[s], d, FileBegin(hf, s), hf[s].end)
                 /\ FileBegin(hf, s) \in Nat /\ hf[s].end \in Nat /\ s <= hf[s].end /\ hf[s].end <= Len(d)
                 /\ \A i \in 0 .. s - 1 : FileBegin(hf, i + 1) \in Nat /\ FileBegin(hf, i + 1) < hf[s].end
<1> DEFINE V == Valid(hf, d)
           S == {0} \cup {hf[s].end : s \in 1 .. V}
<1>1. /\ V \in Nat /\ (V > 0 => d # << >>)
      /\ \A s \in 1 .. V : s \in SplitIds /\ hf[s] # None
  BY ValidFacts
<1> HIDE DEF V
<1>2. ASSUME NEW s \in 1 .. V
      PROVE  /\ Exact(hf[s], d, FileBegin(hf, s), hf[s].end)
             /\ FileBegin(hf, s) \in Nat /\ hf[s].end \in Nat /\ hf[s].end <= Len(d) /\ 0 < hf[s].end
             /\ s <= hf[s].end
             /\ \A i \in 0 .. s - 1 : FileBegin(hf, i + 1) \in Nat /\ FileBegin(hf, i + 1) < hf[s].end
  <2>1. s \in SplitIds /\ d # << >> /\ \A i \in 1 .. s : hf[i] # None
    BY <1>1
  <2>2. /\ Exact(hf[s], d, FileBegin(hf, s), hf[s].end)
        /\ s <= hf[s].end /\ hf[s].end <= Len(d)
        /\ \A i \in 0 .. s - 1 : FileBegin(hf, i + 1) \in Nat /\ FileBegin(hf, i + 1) < hf[s].end
    BY <2>1 DEF FilesOK
  <2>3. hf[s].end \in Int
    BY <2>1, HintShape
  <2>4. s - 1 \in 0 .. s - 1 /\ (s - 1) + 1 = s
    BY <1>1
  <2>5. FileBegin(hf, s) \in Nat /\ FileBegin(hf, s) < hf[s].end
    BY <2>2, <2>4
  <2> QED BY <2>2, <2>3, <2>5
<1>3. S \subseteq -1 .. Len(d) /\ S # {} /\ Len(d) \in Nat
  BY <1>2
<1>4. Max(S) \in S /\ \A y \in S : Max(S) >= y
  <2> HIDE DEF S
  <2> QED BY <1>3, MaxIsLargest
<1>5. Size(hf, d) = Max(S)
  BY DEF Size, V
<1>6. Max(S) \in 0 .. Len(d)
  BY <1>2, <1>4
<1>7. V = 0 => Max(S) = 0
  BY <1>4
<1>8. V > 0 => Max(S) = hf[V].end /\ Max(S) > 0
  <2> SUFFICES ASSUME V > 0 PROVE Max(S) = hf[V].end /\ Max(S) > 0
    OBVIOUS
  <2>1. V \in 1 .. V /\ hf[V].end \in S /\ hf[V].end > 0 /\ hf[V].end \in Nat
    BY <1>1, <1>2
  <2>2. ASSUME NEW s \in 1 .. V PROVE hf[s].end <= hf[V].end
    <3>1. CASE s = V
      BY <2>1, <3>1
    <3>2. CASE s # V
      <4>1. s \in 0 .. V - 1 /\ s + 1 # 1 /\ (s + 1) - 1 = s
        BY <1>1, <3>2
      <4>2. FileBegin(hf, s + 1) = hf[s].end
        BY <4>1 DEF FileBegin
      <4>3. FileBegin(hf, s + 1) < hf[V].end
        BY <1>2, <2>1, <4>1
      <4> QED BY <1>2, <2>1, <4>2, <4>3
    <3> QED BY <3>1, <3>2
  <2> QED BY <1>4, <1>6, <2>1, <2>2
<1> QED BY <1>2, <1>5, <1>6, <1>7, <1>8 DEF V

\* loadHintsByChunk puts the files before the last split.
LEMMA LoadsShape ==
    ASSUME NEW ss \in Seq(SplitSet), Len(ss) >= 1, NEW hf \in [SplitIds -> HintSet], NEW d
    PROVE  LET r == Loads(ss, hf, d)
               V == Valid(hf, d)
               L == Len(ss)
           IN  /\ r \in Seq(SplitSet) /\ Len(r) = L + V
               /\ \A j \in 1 .. L - 1 : r[j] = ss[j]
               /\ \A s \in 1 .. V : r[L - 1 + s] = Split(None, hf[s])
               /\ r[L + V] = ss[L]
<1> DEFINE L == Len(ss)
           V == Valid(hf, d)
           x == Front(ss)
           y == [s \in 1 .. V |-> Split(None, hf[s])]
           z == <<ss[L]>>
           r == Loads(ss, hf, d)
<1>1. L \in Nat \ {0} /\ V \in Nat /\ \A s \in 1 .. V : s \in SplitIds
  BY ValidFacts
<1>2. r = (x \o y) \o z
  BY DEF Loads, Last
<1>3. x \in Seq(SplitSet) /\ Len(x) = L - 1 /\ \A j \in 1 .. L - 1 : x[j] = ss[j]
  <2>1. x = SubSeq(ss, 1, L - 1)
    BY DEF Front
  <2>2. 1 \in Int /\ L - 1 \in Int /\ \A i \in 1 .. L - 1 : ss[i] \in SplitSet
    BY <1>1
  <2>3. /\ SubSeq(ss, 1, L - 1) \in Seq(SplitSet)
        /\ Len(SubSeq(ss, 1, L - 1)) = IF 1 <= L - 1 THEN (L - 1) - 1 + 1 ELSE 0
        /\ \A i \in 1 .. (L - 1) - 1 + 1 : SubSeq(ss, 1, L - 1)[i] = ss[1 + i - 1]
    BY <2>2, SubSeqProperties
  <2>4. (L - 1) - 1 + 1 = L - 1 /\ \A i \in 1 .. L - 1 : 1 + i - 1 = i
    BY <1>1
  <2> HIDE DEF x
  <2> QED BY <1>1, <2>1, <2>3, <2>4
<1>4. y \in Seq(SplitSet) /\ Len(y) = V
  <2>1. \A s \in 1 .. V : Split(None, hf[s]) \in SplitSet
    BY <1>1, SplitShape, EmptyHints
  <2> HIDE DEF V
  <2> QED BY <1>1, <2>1
<1>5. z \in Seq(SplitSet) /\ Len(z) = 1 /\ z[1] = ss[L]
  BY <1>1
<1>6. \A s \in 1 .. V : y[s] = Split(None, hf[s])
  OBVIOUS
<1> HIDE DEF x, y, z, V
<1>7. /\ x \o y \in Seq(SplitSet) /\ Len(x \o y) = L - 1 + V
      /\ \A j \in 1 .. L - 1 : (x \o y)[j] = x[j]
      /\ \A s \in 1 .. V : (x \o y)[L - 1 + s] = y[s]
  <2>1. /\ x \o y \in Seq(SplitSet) /\ Len(x \o y) = Len(x) + Len(y)
        /\ \A i \in 1 .. Len(x) + Len(y) : (x \o y)[i] = IF i <= Len(x) THEN x[i] ELSE y[i - Len(x)]
    BY <1>3, <1>4, ConcatProperties
  <2>2. \A j \in 1 .. L - 1 : j \in 1 .. Len(x) + Len(y) /\ j <= Len(x)
    BY <1>1, <1>3, <1>4
  <2>3. \A s \in 1 .. V : L - 1 + s \in 1 .. Len(x) + Len(y) /\ ~(L - 1 + s <= Len(x)) /\ (L - 1 + s) - Len(x) = s
    BY <1>1, <1>3, <1>4
  <2> QED BY <1>3, <1>4, <2>1, <2>2, <2>3, ZenonT(40)
<1> DEFINE w == x \o y
<1> HIDE DEF w, r
<1>8. /\ r \in Seq(SplitSet) /\ Len(r) = L + V
      /\ \A j \in 1 .. L - 1 + V : r[j] = w[j]
      /\ r[L + V] = z[1]
  <2>1. w \in Seq(SplitSet) /\ Len(w) = L - 1 + V /\ r = w \o z
    BY <1>2, <1>7 DEF w
  <2>2. /\ w \o z \in Seq(SplitSet) /\ Len(w \o z) = Len(w) + Len(z)
        /\ \A i \in 1 .. Len(w) + Len(z) : (w \o z)[i] = IF i <= Len(w) THEN w[i] ELSE z[i - Len(w)]
    BY <1>5, <2>1, ConcatProperties
  <2>3. Len(w) + Len(z) = L + V
    BY <1>1, <1>5, <2>1
  <2>4. \A j \in 1 .. L - 1 + V : j \in 1 .. L + V /\ j <= Len(w)
    BY <1>1, <2>1
  <2>5. L + V \in 1 .. L + V /\ ~(L + V <= Len(w)) /\ (L + V) - Len(w) = 1
    BY <1>1, <2>1
  <2> QED BY <2>1, <2>2, <2>3, <2>4, <2>5
<1>9. \A j \in 1 .. L - 1 : r[j] = ss[j]
  <2>1. \A j \in 1 .. L - 1 : j \in 1 .. L - 1 + V
    BY <1>1
  <2> QED BY <1>3, <1>7, <1>8, <2>1 DEF w
<1>10. \A s \in 1 .. V : r[L - 1 + s] = Split(None, hf[s])
  <2> SUFFICES ASSUME NEW s \in 1 .. V PROVE r[L - 1 + s] = Split(None, hf[s])
    OBVIOUS
  <2>1. L - 1 + s \in 1 .. L - 1 + V
    BY <1>1
  <2> QED BY <1>6, <1>7, <1>8, <2>1 DEF w
<1> QED BY <1>5, <1>8, <1>9, <1>10 DEF r, V

OneSplit(ss) == Len(ss) = 1

LEMMA LoadsOne ==
    ASSUME NEW ss \in Seq(SplitSet), OneSplit(ss), NEW hf \in [SplitIds -> HintSet], NEW d,
           NEW x, x = Loads(ss, hf, d), NEW W, W = Valid(hf, d)
    PROVE  /\ x \in Seq(SplitSet) /\ Len(x) = W + 1
           /\ \A s \in 1 .. W : x[s] = Split(None, hf[s])
           /\ x[W + 1] = ss[1]
<1> DEFINE r == Loads(ss, hf, d)
           V == Valid(hf, d)
           L == Len(ss)
<1>0. L >= 1
  BY DEF OneSplit
<1>1. /\ r \in Seq(SplitSet) /\ Len(r) = L + V
      /\ \A s \in 1 .. V : r[L - 1 + s] = Split(None, hf[s])
      /\ r[L + V] = ss[L]
  BY <1>0, LoadsShape
<1>2. V \in Nat /\ r = x /\ V = W
  BY ValidFacts
<1> HIDE DEF r, V
<1>3. L = 1 /\ 1 + V = V + 1 /\ \A s \in 1 .. V : L - 1 + s = s
  BY <1>2 DEF OneSplit
<1> QED BY <1>1, <1>2, <1>3

\* Afterwards no split but the new last one has a buffer.
LEMMA DumpedShape ==
    ASSUME NEW r \in Seq(SplitSet)
    PROVE  LET q == Dumped(r) \o <<NewSplit>>
           IN  /\ q \in Seq(SplitSet) /\ Len(q) = Len(r) + 1 /\ q[Len(r) + 1] = NewSplit
               /\ \A j \in 1 .. Len(r) : /\ q[j].buf = None
                                         /\ q[j].file = IF r[j].buf # None THEN r[j].buf ELSE r[j].file
<1> DEFINE x == Dumped(r)
           q == x \o <<NewSplit>>
<1>1. DOMAIN r = 1 .. Len(r) /\ Len(r) \in Nat
  OBVIOUS
<1>2. ASSUME NEW j \in 1 .. Len(r)
      PROVE  /\ x[j] \in SplitSet /\ x[j].buf = None
             /\ x[j].file = IF r[j].buf # None THEN r[j].buf ELSE r[j].file
  <2>1. r[j] \in SplitSet /\ r[j].buf \in HintSet
    BY SplitShape
  <2>2. x[j] = IF r[j].buf # None THEN Split(None, r[j].buf) ELSE r[j]
    BY <1>1 DEF Dumped
  <2> QED BY <2>1, <2>2, SplitShape, EmptyHints
<1>3. x \in Seq(SplitSet) /\ Len(x) = Len(r)
  <2>1. x = [j \in 1 .. Len(r) |-> x[j]]
    BY <1>1 DEF Dumped
  <2> HIDE DEF x
  <2> QED BY <1>1, <1>2, <2>1
<1>4. <<NewSplit>> \in Seq(SplitSet) /\ Len(<<NewSplit>>) = 1 /\ <<NewSplit>>[1] = NewSplit
  BY SplitShape
<1> HIDE DEF x
<1>5. /\ q \in Seq(SplitSet) /\ Len(q) = Len(r) + 1 /\ q[Len(r) + 1] = NewSplit
      /\ \A j \in 1 .. Len(r) : q[j] = x[j]
  BY <1>1, <1>3, <1>4
<1> QED BY <1>2, <1>5 DEF x

\* checkHintWithData keeps the splits before the last.
LEMMA CheckShape ==
    ASSUME NEW ss \in Seq(SplitSet), Len(ss) >= 1, NEW hf \in [SplitIds -> HintSet],
           NEW d \in Seq(Records), FilesOK(hf, d)
    PROVE  LET q == Checks(ss, hf, d)
           IN  /\ q \in Seq(SplitSet) /\ Len(q) >= Len(ss) + Valid(hf, d)
               /\ FilesAfter(ss, hf, d) \in [SplitIds -> HintSet]
               /\ \A j \in 1 .. Len(ss) - 1 :
                     \/ q[j] = ss[j]
                     \/ q[j].buf = None /\ q[j].file = IF ss[j].buf # None THEN ss[j].buf ELSE ss[j].file
<1> DEFINE L == Len(ss)
           V == Valid(hf, d)
           x == Loads(ss, hf, d)
           E == Size(hf, d)
           r == SetRecords(x, d, E)
           q == Checks(ss, hf, d)
<1>1. L \in Nat \ {0} /\ V \in Nat /\ E \in 0 .. Len(d)
  BY ValidFacts, SizeFacts
<1>2. x \in Seq(SplitSet) /\ Len(x) = L + V /\ \A j \in 1 .. L - 1 : x[j] = ss[j]
  BY LoadsShape
<1> HIDE DEF x, E, V, q, r
<1>3. /\ q \in Seq(SplitSet) /\ Len(q) >= L + V
      /\ \A j \in 1 .. L - 1 :
            \/ q[j] = ss[j]
            \/ q[j].buf = None /\ q[j].file = IF ss[j].buf # None THEN ss[j].buf ELSE ss[j].file
  <2>1. CASE E < Len(d)
    <3>1. q = Dumped(r) \o <<NewSplit>>
      BY <2>1 DEF q, Checks, E, x, r
    <3>2. r \in Seq(SplitSet) /\ Len(r) >= L + V /\ \A j \in 1 .. L + V - 1 : r[j] = x[j]
      <4>1. Len(x) >= 1
        BY <1>1, <1>2
      <4>2. r \in Seq(SplitSet) /\ Len(r) >= Len(x) /\ \A j \in 1 .. Len(x) - 1 : r[j] = x[j]
        BY <1>1, <1>2, <4>1, RecordsShape DEF r
      <4>3. Len(x) - 1 = L + V - 1
        BY <1>1, <1>2
      <4> QED BY <1>2, <4>2, <4>3
    <3>3. /\ q \in Seq(SplitSet) /\ Len(q) = Len(r) + 1
          /\ \A j \in 1 .. Len(r) : q[j].buf = None /\ q[j].file = IF r[j].buf # None THEN r[j].buf ELSE r[j].file
      BY <3>1, <3>2, DumpedShape
    <3>4. \A j \in 1 .. L - 1 : j \in 1 .. Len(r) /\ j \in 1 .. L + V - 1
      BY <1>1, <3>2
    <3>5. Len(q) >= L + V
      BY <1>1, <3>2, <3>3
    <3> QED BY <1>2, <3>2, <3>3, <3>4, <3>5
  <2>2. CASE ~(E < Len(d))
    <3>1. q = x
      BY <2>2 DEF q, Checks, E, x
    <3>2. Len(x) >= L + V
      BY <1>1, <1>2
    <3> QED BY <1>2, <3>1, <3>2
  <2> QED BY <2>1, <2>2
<1>4. FilesAfter(ss, hf, d) \in [SplitIds -> HintSet]
  <2> SUFFICES ASSUME NEW s \in SplitIds
               PROVE  (IF s <= V THEN hf[s] ELSE IF s >= Len(x) /\ s < Len(q) THEN q[s].file ELSE None) \in HintSet
    BY DEF FilesAfter, V, x, q
  <2>1. s < Len(q) => s \in 1 .. Len(q)
    BY <1>3, SplitNumbers
  <2>2. s < Len(q) => q[s].file \in HintSet
    BY <1>3, <2>1, SplitShape
  <2> QED BY <2>2, EmptyHints
<1> QED BY <1>3, <1>4 DEF q, V

\* Hint files that are removed behind the first missing one change nothing.
LEMMA FilesSub ==
    ASSUME NEW hf, NEW d, FilesOK(hf, d), NEW h2, \A s \in 1 .. Valid(hf, d) : h2[s] = hf[s],
           Valid(hf, d) + 1 \in SplitIds => h2[Valid(hf, d) + 1] = None
    PROVE  FilesOK(h2, d)
<1> DEFINE V == Valid(hf, d)
<1>1. V \in Nat /\ \A s \in 1 .. V : s \in SplitIds /\ hf[s] # None
  BY ValidFacts
<1> HIDE DEF V
<1> SUFFICES ASSUME d # << >>, NEW n \in SplitIds, \A s \in 1 .. n : h2[s] # None
             PROVE  /\ Exact(h2[n], d, FileBegin(h2, n), h2[n].end)
                    /\ n <= h2[n].end /\ h2[n].end <= Len(d)
                    /\ \A i \in 0 .. n - 1 : FileBegin(h2, i + 1) \in Nat /\ FileBegin(h2, i + 1) < h2[n].end
  BY DEF FilesOK
<1>2. n \in Nat \ {0} /\ n \in 1 .. n /\ \A i \in 1 .. n : i \in SplitIds
  BY SplitNumbers
<1>3. n <= V
  <2>1. SUFFICES ASSUME V + 1 <= n PROVE FALSE
    BY <1>1, <1>2
  <2>2. V + 1 \in 1 .. n
    BY <1>1, <1>2, <2>1
  <2> QED BY <1>2, <2>2 DEF V
<1>4. \A s \in 1 .. n : s \in 1 .. V /\ h2[s] = hf[s]
  BY <1>1, <1>2, <1>3 DEF V
<1>5. \A s \in 1 .. n : FileBegin(h2, s) = FileBegin(hf, s)
  <2> SUFFICES ASSUME NEW s \in 1 .. n PROVE FileBegin(h2, s) = FileBegin(hf, s)
    OBVIOUS
  <2>1. s # 1 => s - 1 \in 1 .. n
    BY <1>2
  <2> QED BY <1>4, <2>1 DEF FileBegin
<1>6. /\ Exact(hf[n], d, FileBegin(hf, n), hf[n].end)
      /\ n <= hf[n].end /\ hf[n].end <= Len(d)
      /\ \A i \in 0 .. n - 1 : FileBegin(hf, i + 1) \in Nat /\ FileBegin(hf, i + 1) < hf[n].end
  BY <1>1, <1>4 DEF FilesOK
<1>7. \A i \in 0 .. n - 1 : i + 1 \in 1 .. n
  BY <1>2
<1> QED BY <1>2, <1>4, <1>5, <1>6, <1>7

\* A chunk of which this process has no split yet: afterwards all is in files.
LEMMA CheckFresh ==
    ASSUME NEW ss \in Seq(SplitSet), Len(ss) = 1, Blank(ss[1]), NEW hf \in [SplitIds -> HintSet],
           NEW d \in Seq(Records), FilesOK(hf, d)
    PROVE  LET q == Checks(ss, hf, d)
           IN  Kept(q, d, FilesAfter(ss, hf, d), Len(d)) /\ Blank(q[Len(q)])
<1> DEFINE V == Valid(hf, d)
           x == Loads(ss, hf, d)
           E == Size(hf, d)
           q == Checks(ss, hf, d)
           r == SetRecords(x, d, E)
           h2 == FilesAfter(ss, hf, d)
           B(j) == FileBegin(hf, j + 1)
<1>1. V \in Nat /\ E \in 0 .. Len(d) /\ Len(d) \in Nat
  BY ValidFacts, SizeFacts
<1>2. /\ x \in Seq(SplitSet) /\ Len(x) = V + 1 /\ \A s \in 1 .. V : x[s] = Split(None, hf[s])
      /\ x[V + 1] = ss[1]
  <2>1. x = Loads(ss, hf, d) /\ V = Valid(hf, d) /\ OneSplit(ss)
    BY DEF OneSplit
  <2> HIDE DEF x, V
  <2> QED BY <2>1, LoadsOne, SMTT(40)
<1>3. ASSUME NEW s \in 1 .. V
      PROVE  /\ Exact(hf[s], d, B(s - 1), B(s)) /\ B(s) \in Nat /\ hf[s] # None
             /\ s <= B(s) /\ B(s) <= E
             /\ \A i \in 0 .. s - 1 : B(i) \in Nat /\ B(i) < B(s)
  <2>1. /\ Exact(hf[s], d, FileBegin(hf, s), hf[s].end)
        /\ FileBegin(hf, s) \in Nat /\ hf[s].end \in Nat /\ s <= hf[s].end
        /\ \A i \in 0 .. s - 1 : FileBegin(hf, i + 1) \in Nat /\ FileBegin(hf, i + 1) < hf[s].end
    BY SizeFacts
  <2>2. B(s) = hf[s].end /\ B(s - 1) = FileBegin(hf, s)
    <3>1. s + 1 # 1 /\ (s + 1) - 1 = s /\ (s - 1) + 1 = s
      BY <1>1
    <3> QED BY <3>1 DEF FileBegin
  <2>3. hf[s].end <= E
    <3>1. V > 0 /\ E = hf[V].end /\ V \in 1 .. V
      BY <1>1, SizeFacts
    <3>2. CASE s = V
      BY <2>1, <3>1, <3>2
    <3>3. CASE s # V
      <4>1. s \in 0 .. V - 1
        BY <1>1, <3>3
      <4>2. FileBegin(hf, s + 1) < hf[V].end
        BY <3>1, <4>1, SizeFacts
      <4> QED BY <1>1, <2>1, <2>2, <3>1, <4>2
    <3> QED BY <3>2, <3>3
  <2>4. hf[s] # None
    BY ValidFacts
  <2> QED BY <2>1, <2>2, <2>3, <2>4
<1>4. B(0) = 0 /\ B(V) = E
  <2>1. B(0) = 0
    BY DEF FileBegin
  <2>2. CASE V = 0
    BY <2>1, <2>2, SizeFacts
  <2>3. CASE V # 0
    <3>1. V > 0 /\ V + 1 # 1 /\ (V + 1) - 1 = V
      BY <1>1, <2>3
    <3>2. E = hf[V].end
      BY <3>1, SizeFacts
    <3> HIDE DEF V, E
    <3> QED BY <2>1, <3>1, <3>2 DEF FileBegin
  <2> QED BY <2>2, <2>3
<1> HIDE DEF V, x, E, q, r, h2, B
<1> DEFINE b == [j \in 0 .. V + 1 |-> IF j = V + 1 THEN E ELSE B(j)]
<1>5. /\ b \in [0 .. V + 1 -> Nat] /\ b[0] = 0 /\ b[V + 1] = E /\ b[V] = E
      /\ \A j \in 0 .. V : b[j] = B(j) /\ j <= b[j] /\ b[j] <= E
      /\ \A i, j \in 0 .. V + 1 : i < j => b[i] <= b[j] /\ (j < V + 1 => b[i] < b[j])
  <2>1. ASSUME NEW j \in 0 .. V PROVE B(j) \in Nat /\ j <= B(j) /\ B(j) <= E
    <3>1. CASE j = 0
      BY <1>1, <1>4, <3>1
    <3>2. CASE j # 0
      <4>1. j \in 1 .. V
        BY <1>1, <3>2
      <4> QED BY <1>3, <4>1
    <3> QED BY <3>1, <3>2
  <2>2. \A j \in 0 .. V : j # V + 1 /\ j \in 0 .. V + 1 /\ b[j] = B(j)
    BY <1>1
  <2>3. \A j \in 0 .. V + 1 : j = V + 1 \/ j \in 0 .. V
    BY <1>1
  <2>4. b[V + 1] = E /\ 0 \in 0 .. V /\ V \in 0 .. V
    BY <1>1
  <2>5. b \in [0 .. V + 1 -> Nat]
    BY <1>1, <2>1, <2>3
  <2> HIDE DEF b
  <2>6. ASSUME NEW i \in 0 .. V + 1, NEW j \in 0 .. V + 1, i < j
        PROVE  b[i] <= b[j] /\ (j < V + 1 => b[i] < b[j])
    <3>1. i \in 0 .. V /\ b[i] = B(i) /\ b[i] \in Nat /\ b[i] <= E
      BY <1>1, <2>1, <2>2, <2>3, <2>6
    <3>2. CASE j = V + 1
      BY <1>1, <2>4, <3>1, <3>2
    <3>3. CASE j # V + 1
      <4>1. j \in 1 .. V /\ j \in 0 .. V /\ i \in 0 .. j - 1
        BY <1>1, <2>6, <3>3
      <4>2. b[j] = B(j) /\ B(i) < B(j) /\ B(j) \in Nat
        BY <1>3, <2>2, <4>1
      <4> QED BY <3>1, <4>2
    <3> QED BY <3>2, <3>3
  <2> QED BY <1>4, <2>1, <2>2, <2>4, <2>5, <2>6
<1> HIDE DEF b
<1>6. Bounds(x, d, b, E)
  <2>1. ASSUME NEW j \in 1 .. V + 1
        PROVE  /\ x[j].buf # None => Exact(x[j].buf, d, b[j - 1], b[j])
               /\ x[j].file # None => Exact(x[j].file, d, b[j - 1], b[j])
               /\ x[j].buf # None /\ x[j].file # None => x[j].buf = x[j].file
    <3>1. CASE j = V + 1
      <4>1. j - 1 = V /\ E \in Nat
        BY <1>1, <3>1
      <4>2. Exact(ss[1].buf, d, E, E)
        BY <4>1, BlankExact
      <4> QED BY <1>2, <1>5, <3>1, <4>1, <4>2 DEF Blank
    <3>2. CASE j # V + 1
      <4>1. j \in 1 .. V /\ j \in 0 .. V /\ j - 1 \in 0 .. V
        BY <1>1, <3>2
      <4>2. x[j].buf = None /\ x[j].file = hf[j]
        BY <1>2, <4>1, SplitShape
      <4>3. b[j - 1] = B(j - 1) /\ b[j] = B(j)
        BY <1>5, <4>1
      <4> QED BY <1>3, <4>1, <4>2, <4>3
    <3> QED BY <3>1, <3>2
  <2>2. (V + 1) - 1 = V
    BY <1>1
  <2>3. x[V + 1].buf # None /\ x[V + 1].file = None
    BY <1>2 DEF Blank
  <2> QED BY <1>2, <1>5, <2>1, <2>2, <2>3 DEF Bounds
<1>7. h2 = [s \in SplitIds |-> IF s <= V THEN hf[s]
                              ELSE IF s >= Len(x) /\ s < Len(q) THEN q[s].file ELSE None]
  BY DEF h2, FilesAfter, V, x, q
<1>8. CASE ~(E < Len(d))
  <2>1. q = x /\ E = Len(d)
    BY <1>1, <1>8 DEF q, Checks, E, x
  <2>2. ASSUME NEW s \in SplitIds PROVE h2[s] = IF s < Len(q) THEN q[s].file ELSE None
    <3>1. s \in Nat \ {0}
      BY SplitNumbers
    <3>2. s <= V <=> s < Len(q)
      BY <1>1, <1>2, <2>1, <3>1
    <3>3. s <= V => s \in 1 .. V
      BY <1>1, <3>1
    <3>4. s <= V => q[s].file = hf[s]
      BY <1>2, <2>1, <3>3, SplitShape
    <3> QED BY <1>7, <3>2, <3>4
  <2>3. Kept(q, d, h2, Len(d))
    BY <1>6, <2>1, <2>2 DEF Kept
  <2> QED BY <1>2, <2>1, <2>3 DEF q, h2
<1>9. CASE E < Len(d)
  <2>1. q = Dumped(r) \o <<NewSplit>>
    BY <1>9 DEF q, Checks, E, x, r
  <2>2. Len(x) >= 1
    BY <1>1, <1>2
  <2>3. r \in Seq(SplitSet) /\ Len(r) >= V + 1 /\ \A j \in 1 .. V : r[j] = x[j]
    <3>1. r \in Seq(SplitSet) /\ Len(r) >= Len(x) /\ \A j \in 1 .. Len(x) - 1 : r[j] = x[j]
      BY <1>1, <1>2, <2>2, RecordsShape DEF r
    <3>2. Len(x) - 1 = V
      BY <1>1, <1>2
    <3> QED BY <1>2, <3>1, <3>2
  <2>4. PICK a : Bounds(r, d, a, Len(d)) /\ a[Len(r) - 1] < Len(d)
    BY <1>1, <1>2, <1>6, <1>9, <2>2, RecordsBounds DEF r
  <2> DEFINE L == Len(r)
  <2>5. /\ q \in Seq(SplitSet) /\ Len(q) = L + 1 /\ q[L + 1] = NewSplit
        /\ \A j \in 1 .. L : q[j].buf = None /\ q[j].file = IF r[j].buf # None THEN r[j].buf ELSE r[j].file
    BY <2>1, <2>3, DumpedShape
  <2>6. /\ a \in [0 .. L -> Nat] /\ a[0] = 0 /\ a[L] = Len(d) /\ L \in Nat \ {0} /\ a[L - 1] < Len(d)
        /\ \A i, j \in 0 .. L : i < j => a[i] <= a[j] /\ (j < L => a[i] < a[j])
        /\ \A j \in 0 .. L : a[j] <= Len(d)
        /\ \A j \in 0 .. L - 1 : j <= a[j]
    <3>1. Len(r) >= 1
      BY <1>1, <2>3
    <3> QED BY <2>3, <2>4, <3>1, BoundsFacts
  <2> HIDE DEF L
  <2> DEFINE e == [j \in 0 .. L + 1 |-> IF j = L + 1 THEN Len(d) ELSE a[j]]
  <2>7. /\ e \in [0 .. L + 1 -> Nat] /\ e[L + 1] = Len(d)
        /\ \A j \in 0 .. L : e[j] = a[j] /\ a[j] \in Nat
    <3>1. \A j \in 0 .. L : j # L + 1 /\ j \in 0 .. L + 1 /\ a[j] \in Nat
      BY <2>6
    <3>2. \A j \in 0 .. L + 1 : j = L + 1 \/ j \in 0 .. L
      BY <2>6
    <3>3. L + 1 \in 0 .. L + 1
      BY <2>6
    <3> QED BY <1>1, <3>1, <3>2, <3>3
  <2> HIDE DEF e
  <2>8. ASSUME NEW i \in 0 .. L + 1, NEW j \in 0 .. L + 1, i < j
        PROVE  e[i] <= e[j] /\ (j < L + 1 => e[i] < e[j])
    <3>1. i \in 0 .. L /\ e[i] = a[i] /\ a[i] \in Nat /\ a[i] <= Len(d)
      BY <2>6, <2>7, <2>8
    <3>2. CASE j = L + 1
      BY <2>7, <3>1, <3>2, <2>6
    <3>3. CASE j = L
      <4>1. i \in 0 .. L - 1 /\ L \in 0 .. L /\ L - 1 \in 0 .. L
        BY <2>6, <2>8, <3>3
      <4>2. a[i] <= a[L - 1]
        BY <2>6, <3>1, <4>1
      <4> QED BY <1>1, <2>6, <2>7, <3>1, <3>3, <4>1, <4>2
    <3>4. CASE j < L
      <4>1. j \in 0 .. L
        BY <2>6, <3>4
      <4> QED BY <2>6, <2>7, <2>8, <3>1, <3>4, <4>1
    <3> QED BY <2>6, <3>2, <3>3, <3>4
  <2>9. \A j \in 0 .. L : j <= e[j]
    <3> SUFFICES ASSUME NEW j \in 0 .. L PROVE j <= e[j]
      OBVIOUS
    <3>1. CASE j = L
      <4>1. L - 1 \in 0 .. L - 1 /\ a[L - 1] \in Nat
        BY <2>6
      <4>2. L - 1 <= a[L - 1]
        BY <2>6, <4>1
      <4> QED BY <1>1, <2>6, <2>7, <3>1, <4>1, <4>2
    <3>2. CASE j # L
      <4>1. j \in 0 .. L - 1
        BY <2>6, <3>2
      <4> QED BY <2>6, <2>7, <4>1
    <3> QED BY <3>1, <3>2
  <2>10. ASSUME NEW j \in 1 .. L + 1
         PROVE  /\ q[j].buf # None => Exact(q[j].buf, d, e[j - 1], e[j])
                /\ q[j].file # None => Exact(q[j].file, d, e[j - 1], e[j])
                /\ q[j].buf # None /\ q[j].file # None => q[j].buf = q[j].file
    <3>1. CASE j = L + 1
      <4>1. j - 1 = L /\ e[j - 1] = Len(d) /\ e[j] = Len(d)
        BY <2>6, <2>7, <3>1
      <4>2. Exact(EmptyBuffer, d, Len(d), Len(d))
        BY <1>1, ExactEmpty
      <4> QED BY <2>5, <3>1, <4>1, <4>2, SplitShape
    <3>2. CASE j # L + 1
      <4>1. j \in 1 .. L /\ j \in 0 .. L /\ j - 1 \in 0 .. L
        BY <2>6, <3>2
      <4>2. /\ r[j].buf # None => Exact(r[j].buf, d, a[j - 1], a[j])
            /\ r[j].file # None => Exact(r[j].file, d, a[j - 1], a[j])
        BY <2>4, <4>1 DEF Bounds, L
      <4> QED BY <2>5, <2>7, <4>1, <4>2
    <3> QED BY <3>1, <3>2
  <2>11. Bounds(q, d, e, Len(d))
    <3>1. Len(q) - 1 = L /\ 0 \in 0 .. L
      BY <2>5, <2>6
    <3>2. q[L + 1].buf # None /\ q[L + 1].file = None
      BY <2>5, SplitShape, EmptyHints
    <3>3. e[0] = 0
      BY <2>6, <2>7, <3>1
    <3> QED BY <2>5, <2>7, <2>8, <2>9, <2>10, <3>1, <3>2, <3>3 DEF Bounds
  <2>12. ASSUME NEW s \in SplitIds PROVE h2[s] = IF s < Len(q) THEN q[s].file ELSE None
    <3>1. s \in Nat \ {0}
      BY SplitNumbers
    <3>2. CASE s <= V
      <4>1. s \in 1 .. V /\ s \in 1 .. L /\ s < Len(q)
        BY <1>1, <2>3, <2>5, <3>1, <3>2 DEF L
      <4>2. r[s].buf = None /\ r[s].file = hf[s]
        BY <1>2, <2>3, <4>1, SplitShape
      <4> QED BY <1>7, <2>5, <3>2, <4>1, <4>2
    <3>3. CASE ~(s <= V)
      <4>1. s >= Len(x)
        BY <1>1, <1>2, <3>1, <3>3
      <4> QED BY <1>7, <3>3, <4>1
    <3> QED BY <3>2, <3>3
  <2>13. Kept(q, d, h2, Len(d))
    BY <2>11, <2>12 DEF Kept
  <2> QED BY <2>5, <2>13, BlankNew DEF q, h2
<1> QED BY <1>8, <1>9

\* The last split of a chunk that is hinted up to the last one but it.
LEMMA BlankLast ==
    ASSUME NEW ss \in Seq(SplitSet), Len(ss) >= 1, NEW d, NEW b, NEW m, Bounds(ss, d, b, m),
           b[Len(ss) - 1] = m
    PROVE  Blank(ss[Len(ss)])
<1> DEFINE L == Len(ss)
           h == ss[L].buf
<1>1. L \in 1 .. L /\ m \in Nat /\ b[L] = m
  BY BoundsFacts
<1>2. h # None /\ ss[L].file = None /\ Exact(h, d, m, m)
  BY <1>1 DEF Bounds
<1>3. DOMAIN h.items = {}
  <2> SUFFICES ASSUME NEW k \in DOMAIN h.items PROVE FALSE
    OBVIOUS
  <2>1. h.items[k].n \in m + 1 .. m
    BY <1>2 DEF Exact
  <2> QED BY <1>1, <2>1
<1>4. h.end = 0
  BY <1>1, <1>2 DEF Exact
<1> QED BY <1>2, <1>3, <1>4 DEF Blank

\* A chunk all of whose records have a hint in the one split there is.
LEMMA CheckSingle ==
    ASSUME NEW ss \in Seq(SplitSet), Len(ss) >= 1, NEW hf \in [SplitIds -> HintSet],
           NEW d \in Seq(Records), FilesOK(hf, d), Kept(ss, d, hf, Len(d)), Size(hf, d) < Len(d)
    PROVE  Len(ss) = 1 => FilesOK(FilesAfter(ss, hf, d), d)
<1> DEFINE V == Valid(hf, d)
           x == Loads(ss, hf, d)
           q == Checks(ss, hf, d)
           h2 == FilesAfter(ss, hf, d)
<1>1. Len(ss) = 1 => V = 0
  <2> SUFFICES ASSUME Len(ss) = 1, V # 0 PROVE FALSE
    OBVIOUS
  <2>1. V \in Nat /\ 1 \in 1 .. V
    BY ValidFacts
  <2>2. 1 \in SplitIds /\ hf[1] # None
    BY <2>1, ValidFacts
  <2> QED BY <2>2 DEF Kept
<1>2. Len(ss) = 1 => x \in Seq(SplitSet) /\ Len(x) = 1 /\ x[1] = ss[1]
  <2>1. ASSUME Len(ss) = 1 PROVE x \in Seq(SplitSet) /\ Len(x) = V + 1 /\ x[V + 1] = ss[1]
    BY <2>1, LoadsOne DEF OneSplit
  <2> HIDE DEF x, V
  <2> QED BY <1>1, <2>1
<1>3. V = 0 => Size(hf, d) = 0
  BY SizeFacts
<1> SUFFICES ASSUME Len(ss) = 1 PROVE FilesOK(h2, d)
  OBVIOUS
<1>4. V = 0 /\ x \in Seq(SplitSet) /\ Len(x) = 1 /\ x[1] = ss[1] /\ Size(hf, d) = 0 /\ Len(d) > 0
  <2>1. V = 0 /\ Size(hf, d) = 0
    BY <1>1, <1>3
  <2> QED BY <1>2, <2>1
<1>5. Exact(ss[1].buf, d, 0, Len(d))
  <2>1. PICK b : Bounds(ss, d, b, Len(d))
    BY DEF Kept
  <2>2. b[0] = 0 /\ b[1] = Len(d) /\ ss[1].buf # None
    BY <2>1 DEF Bounds
  <2>3. 1 \in 1 .. Len(ss) /\ 1 - 1 = 0
    OBVIOUS
  <2>4. Exact(ss[1].buf, d, b[1 - 1], b[1])
    BY <2>1, <2>2, <2>3 DEF Bounds
  <2> QED BY <2>2, <2>3, <2>4
<1> DEFINE r == SetRecords(x, d, 0)
<1>6. r \in Seq(SplitSet) /\ Len(r) = 1 /\ Exact(r[1].buf, d, 0, Len(d))
  <2> HIDE DEF x, V
  <2> QED BY <1>4, <1>5, RecordsAgain
<1>7. q = Dumped(r) \o <<NewSplit>>
  BY <1>4 DEF Checks
<1> HIDE DEF x, V, q, r
<1>8. Len(q) = 2 /\ q[1].file = IF r[1].buf # None THEN r[1].buf ELSE r[1].file
  BY <1>6, <1>7, DumpedShape
<1>9. r[1].buf.end = Len(d) /\ r[1].buf # None
  <2>1. r[1].buf.end = Len(d)
    BY <1>4, <1>6 DEF Exact
  <2> QED BY <1>4, <2>1, EmptyHints
<1>10. h2 = [s \in SplitIds |-> IF s <= V THEN hf[s]
                              ELSE IF s >= Len(x) /\ s < Len(q) THEN q[s].file ELSE None]
  BY DEF FilesAfter, V, x, q
<1> HIDE DEF h2
<1>11. \A s \in SplitIds : h2[s] = IF s = 1 THEN r[1].buf ELSE None
  <2> SUFFICES ASSUME NEW s \in SplitIds PROVE h2[s] = IF s = 1 THEN r[1].buf ELSE None
    OBVIOUS
  <2>1. s \in Nat \ {0}
    BY SplitNumbers
  <2> QED BY <1>4, <1>8, <1>9, <1>10, <2>1
<1> SUFFICES ASSUME NEW n \in SplitIds, \A s \in 1 .. n : h2[s] # None
             PROVE  /\ Exact(h2[n], d, FileBegin(h2, n), h2[n].end)
                    /\ n <= h2[n].end /\ h2[n].end <= Len(d)
                    /\ \A i \in 0 .. n - 1 : FileBegin(h2, i + 1) \in Nat /\ FileBegin(h2, i + 1) < h2[n].end
  BY DEF FilesOK
<1>12. n = 1
  <2>1. n \in SplitIds /\ n \in 1 .. n
    BY SplitNumbers
  <2> QED BY <1>11, <2>1
<1>13. h2[n] = r[1].buf /\ FileBegin(h2, 1) = 0
  BY <1>11, <1>12 DEF FileBegin
<1>14. \A i \in 0 .. n - 1 : i + 1 = 1
  BY <1>12
<1> QED BY <1>4, <1>6, <1>9, <1>12, <1>13, <1>14

\* A chunk that is checked again, by the goroutine of open: it is quiet then.
LEMMA CheckAgain ==
    ASSUME NEW ss \in Seq(SplitSet), Len(ss) >= 1, NEW hf \in [SplitIds -> HintSet],
           NEW d \in Seq(Records), FilesOK(hf, d),
           Kept(ss, d, hf, Len(d)) \/ Quiet(ss, d, hf)
    PROVE  Quiet(Checks(ss, hf, d), d, FilesAfter(ss, hf, d)) /\ FilesOK(FilesAfter(ss, hf, d), d)
<1> DEFINE L == Len(ss)
           V == Valid(hf, d)
           x == Loads(ss, hf, d)
           E == Size(hf, d)
           r == SetRecords(x, d, E)
           q == Checks(ss, hf, d)
           h2 == FilesAfter(ss, hf, d)
<1>1. L \in Nat \ {0} /\ V \in Nat /\ E \in 0 .. Len(d) /\ Len(d) \in Nat
  BY ValidFacts, SizeFacts
<1>2. /\ x \in Seq(SplitSet) /\ Len(x) = L + V
      /\ \A j \in 1 .. L - 1 : x[j] = ss[j]
      /\ \A s \in 1 .. V : x[L - 1 + s] = Split(None, hf[s])
      /\ x[L + V] = ss[L]
  BY LoadsShape
<1>3. /\ \A s \in 1 .. V : s \in SplitIds /\ hf[s] # None
      /\ d # << >> => \A n \in SplitIds : (\A s \in 1 .. n : hf[s] # None) => n <= V
      /\ V = 0 => E = 0
      /\ V > 0 => E = hf[V].end /\ E > 0
  BY ValidFacts, SizeFacts
<1>4. h2 = [s \in SplitIds |-> IF s <= V THEN hf[s]
                              ELSE IF s >= Len(x) /\ s < Len(q) THEN q[s].file ELSE None]
  BY DEF FilesAfter
<1>5. CASE E < Len(d)
  <2>1. q = Dumped(r) \o <<NewSplit>>
    BY <1>5 DEF Checks
  <2>s. L = 1 /\ Kept(ss, d, hf, Len(d)) => FilesOK(h2, d)
    BY <1>5, CheckSingle
  <2>t. L = 1 /\ Quiet(ss, d, hf) => FilesOK(h2, d)
    <3> SUFFICES ASSUME L = 1, Quiet(ss, d, hf) PROVE FilesOK(h2, d)
      OBVIOUS
    <3>1. Kept(q, d, h2, Len(d))
      BY CheckFresh DEF Quiet
    <3>2. q \in Seq(SplitSet) /\ Len(q) >= L + V
      BY CheckShape
    <3>3. Len(q) >= 1
      BY <1>1, <3>2
    <3> HIDE DEF q, h2
    <3> QED BY <1>1, <3>1, <3>2, <3>3, KeptFiles
  <2> HIDE DEF V, x, E, q, r, h2
  <2>2. r \in Seq(SplitSet)
    <3>1. Len(x) >= 1
      BY <1>1, <1>2
    <3> QED BY <1>1, <1>2, <3>1, RecordsShape DEF r
  <2>3. /\ q \in Seq(SplitSet) /\ Len(q) = Len(r) + 1 /\ q[Len(r) + 1] = NewSplit
        /\ \A j \in 1 .. Len(r) : q[j].buf = None
    BY <2>1, <2>2, DumpedShape
  <2>4. Quiet(q, d, h2)
    <3>1. Len(q) - 1 = Len(r)
      BY <2>2, <2>3
    <3> QED BY <2>3, <3>1, BlankNew DEF Quiet
  <2>5. FilesOK(h2, d)
    <3>1. CASE L = 1
      BY <2>s, <2>t, <3>1
    <3>2. CASE L # 1
      <4>1. \A s \in 1 .. V : h2[s] = hf[s]
        BY <1>1, <1>3, <1>4
      <4>2. V + 1 \in SplitIds => h2[V + 1] = None
        <5> HIDE DEF L
        <5>a. L >= 2
          BY <1>1, <3>2
        <5>0. V + 1 < L + V
          BY <1>1, <5>a
        <5>1. ~(V + 1 <= V) /\ ~(V + 1 >= Len(x))
          BY <1>1, <1>2, <5>0
        <5> QED BY <1>4, <5>1
      <4> QED BY <4>1, <4>2, FilesSub DEF V
    <3> QED BY <3>1, <3>2
  <2> QED BY <2>4, <2>5 DEF q, h2
<1>6. CASE ~(E < Len(d))
  <2>1. q = x /\ E = Len(d)
    BY <1>1, <1>6 DEF Checks
  <2>2. L = 1 /\ Len(d) = 0 => d = << >>
    BY EmptySeq
  <2> HIDE DEF V, x, E, q, r, h2
  <2>3. \A s \in SplitIds : h2[s] = IF s <= V THEN hf[s] ELSE None
    <3> SUFFICES ASSUME NEW s \in SplitIds PROVE h2[s] = IF s <= V THEN hf[s] ELSE None
      OBVIOUS
    <3>1. s \in Nat /\ Len(x) \in Nat
      BY <1>2, SplitNumbers
    <3> QED BY <1>4, <2>1, <3>1
  <2>4. FilesOK(h2, d)
    <3>1. \A s \in 1 .. V : h2[s] = hf[s]
      BY <1>1, <1>3, <2>3
    <3>2. V + 1 \in SplitIds => h2[V + 1] = None
      BY <1>1, <2>3
    <3> QED BY <3>1, <3>2, FilesSub DEF V
  <2>5. /\ Blank(ss[L])
        /\ \A j \in 1 .. L - 1 : ss[j].buf # None =>
              /\ ss[j].file = ss[j].buf /\ d # << >>
              /\ j \in SplitIds /\ hf[j] = ss[j].buf /\ \A i \in 1 .. j : hf[i] # None
    <3>1. CASE Quiet(ss, d, hf)
      BY <3>1 DEF Quiet
    <3>2. CASE Kept(ss, d, hf, Len(d))
      <4>1. PICK b : Bounds(ss, d, b, Len(d))
        BY <3>2 DEF Kept
      <4>2. /\ b \in [0 .. L -> Nat] /\ b[0] = 0 /\ b[L] = Len(d)
            /\ \A i, j \in 0 .. L : i < j => b[i] <= b[j] /\ (j < L => b[i] < b[j])
            /\ \A j \in 0 .. L - 1 : j <= b[j] /\ j <= Len(d)
            /\ \A j \in 0 .. L : b[j] <= Len(d)
        BY <4>1, BoundsFacts
      <4>3. V < L
        <5>1. CASE V = 0
          BY <1>1, <5>1
        <5>2. CASE V # 0
          <6>1. V \in 1 .. V
            BY <1>1, <5>2
          <6>2. V \in SplitIds /\ hf[V] # None
            BY <1>3, <6>1
          <6> QED BY <3>2, <6>2 DEF Kept
        <5> QED BY <5>1, <5>2
      <4>4. b[V] = Len(d)
        <5>1. CASE V = 0
          BY <1>3, <2>1, <4>2, <5>1
        <5>2. CASE V # 0
          <6>1. V \in 1 .. V /\ V > 0 /\ V \in 1 .. L /\ V \in 0 .. L /\ V - 1 \in 0 .. L /\ V - 1 < V
            BY <1>1, <4>3, <5>2
          <6>2. V \in SplitIds /\ hf[V] # None /\ hf[V] = ss[V].file /\ hf[V].end = Len(d)
            BY <1>3, <2>1, <3>2, <4>3, <6>1 DEF Kept
          <6>3. Exact(hf[V], d, b[V - 1], b[V])
            BY <4>1, <6>1, <6>2 DEF Bounds
          <6>4. b[V - 1] < b[V]
            BY <4>2, <4>3, <6>1
          <6> QED BY <6>2, <6>3, <6>4 DEF Exact
        <5> QED BY <5>1, <5>2
      <4>5. V = L - 1
        <5>1. SUFFICES ASSUME V < L - 1 PROVE FALSE
          BY <1>1, <4>3
        <5>2. V \in 0 .. L /\ L - 1 \in 0 .. L /\ L - 1 < L
          BY <1>1, <4>3
        <5>3. b[V] < b[L - 1] /\ b[L - 1] <= Len(d) /\ b[L - 1] \in Nat
          BY <4>2, <5>1, <5>2
        <5> QED BY <1>1, <4>4, <5>3
      <4>6. Blank(ss[L])
        BY <4>1, <4>4, <4>5, BlankLast
      <4>7. ASSUME NEW j \in 1 .. L - 1, ss[j].buf # None
            PROVE  /\ ss[j].file = ss[j].buf /\ d # << >>
                   /\ j \in SplitIds /\ hf[j] = ss[j].buf /\ \A i \in 1 .. j : hf[i] # None
        <5>1. j \in 1 .. V /\ j \in 1 .. L /\ j < L /\ V > 0 /\ \A i \in 1 .. j : i \in 1 .. V
          BY <1>1, <4>5
        <5>2. j \in SplitIds /\ hf[j] # None /\ hf[j] = ss[j].file /\ \A i \in 1 .. j : hf[i] # None
          BY <1>3, <3>2, <5>1 DEF Kept
        <5>3. ss[j].file = ss[j].buf
          BY <4>1, <4>7, <5>1, <5>2 DEF Bounds
        <5>4. d # << >>
          BY <5>1, ValidFacts DEF V
        <5> QED BY <5>2, <5>3, <5>4
      <4> QED BY <4>6, <4>7
    <3> QED BY <3>1, <3>2
  <2>6. ASSUME NEW j \in 1 .. L + V - 1, x[j].buf # None
        PROVE  /\ x[j].file = x[j].buf /\ d # << >>
               /\ j \in SplitIds /\ h2[j] = x[j].buf /\ \A i \in 1 .. j : h2[i] # None
    <3>1. CASE j \in 1 .. L - 1
      <4>1. x[j] = ss[j]
        BY <1>2, <3>1
      <4>2. /\ ss[j].file = ss[j].buf /\ d # << >>
            /\ j \in SplitIds /\ hf[j] = ss[j].buf /\ \A i \in 1 .. j : hf[i] # None
        BY <2>5, <2>6, <3>1, <4>1
      <4>3. j <= V
        BY <1>3, <4>2
      <4>4. \A i \in 1 .. j : i \in SplitIds /\ i <= V
        BY <1>1, <4>2, <4>3, SplitNumbers
      <4>5. h2[j] = hf[j] /\ \A i \in 1 .. j : h2[i] = hf[i]
        BY <2>3, <4>2, <4>3, <4>4
      <4> QED BY <4>1, <4>2, <4>5
    <3>2. CASE j \notin 1 .. L - 1
      <4> DEFINE s == j - (L - 1)
      <4>1. s \in 1 .. V /\ L - 1 + s = j
        BY <1>1, <3>2
      <4>2. x[j] = Split(None, hf[s])
        BY <1>2, <4>1
      <4> QED BY <2>6, <4>2, SplitShape
    <3> QED BY <3>1, <3>2
  <2>7. Quiet(x, d, h2)
    <3>1. Len(x) - 1 = L + V - 1
      BY <1>1, <1>2
    <3> QED BY <1>2, <2>5, <2>6, <3>1 DEF Quiet
  <2> QED BY <2>1, <2>4, <2>7 DEF q, h2
<1> QED BY <1>5, <1>6

-----------------------------------------------------------------------------
(* The invariant of the hints *)

IDs == [chunk : Nat, split : Nat]
Frames == [at : {"idle", "enter", "scan", "write", "forget", "failed"}, chunk : Chunks, j : Nat, l : Nat]
Writers == [at : {"idle", "tree", "hint"}, key : Keys \cup {"none"}, live : BOOLEAN, pos : Nat]
Procs == {"down", "opening", "up", "closing", "dumptree", "treeremoved", "closed"}

DataOK ==
    /\ data \in [Chunks -> Seq(Records)] /\ \A c \in Chunks : Len(data[c]) <= DataFileMax
    /\ flushed \in [Chunks -> Nat] /\ \A c \in Chunks : flushed[c] <= Len(data[c])
HintsOK ==
    /\ hfile \in [Chunks -> [SplitIds -> HintSet]]
    /\ splits \in [Chunks -> Seq(SplitSet)] /\ \A c \in Chunks : Len(splits[c]) >= 1
    /\ dirty \in [Chunks -> BOOLEAN]
IndexOK ==
    /\ tfile \in [id : [chunk : Int, split : Nat], tree : [Keys -> Nat]]
    /\ tree \in [Keys -> Nat] /\ treeID \in IDs /\ maxDumped \in IDs
    /\ maxChunkID \in Chunks /\ bg \in Nat /\ step \in Nat
    /\ head \in Nat /\ head <= NumChunks
ProcsOK == proc \in Procs /\ frame \in [Dumpers -> Frames] /\ writer \in Writers

\* Before a bucket is open nothing is under way and nothing is in memory only.
DownInv ==
    proc \in {"down", "opening"} =>
        /\ \A g \in Dumpers : frame[g].at = "idle"
        /\ writer.at = "idle"
        /\ \A c \in Chunks : ~dirty[c] /\ flushed[c] = Len(data[c])

\* There is no data behind the head chunk.
HeadInv ==
    proc # "down" =>
        \A c \in Chunks : c > head \/ (c = head /\ proc = "opening") => data[c] = << >>

\* A write that is under way has appended the last record of the head chunk.
WriterInv ==
    writer.at # "idle" =>
        /\ head \in Chunks /\ writer.key \in Keys /\ Len(data[head]) >= 1
        /\ writer.pos = Pos(head, Len(data[head]))
        /\ data[head][Len(data[head])] = [key |-> writer.key, live |-> writer.live]

\* trydump stays within the splits there were when it began, and dumps none that
\* takes items.
FrameInv ==
    \A g \in Dumpers :
        /\ frame[g].at \in {"scan", "write", "forget", "failed"} =>
              frame[g].j \in 1 .. frame[g].l /\ frame[g].l <= Len(splits[frame[g].chunk])
        /\ frame[g].at \in {"write", "forget", "failed"} => frame[g].j < Len(splits[frame[g].chunk])

\* How many records of a chunk have a hint.
Hinted(c) == IF writer.at # "idle" /\ c = head THEN Len(data[c]) - 1 ELSE Len(data[c])

\* Not opened yet, kept by this process, or not written any more.
Unopened(c) == proc = "down" \/ (proc = "opening" /\ c >= step)
ChunkInv(c) ==
    IF Unopened(c) THEN splits[c] = <<NewSplit>>
    ELSE \/ /\ Kept(splits[c], data[c], hfile[c], Hinted(c))
            /\ dirty[c] => DOMAIN splits[c][Len(splits[c])].buf.items # {}
         \/ c < head /\ Quiet(splits[c], data[c], hfile[c])

\* The tree is not ahead of the chunks.
IdInv == proc # "down" => treeID.chunk <= head /\ maxDumped.chunk <= head

Core ==
    /\ DataOK /\ HintsOK /\ IndexOK /\ ProcsOK
    /\ DownInv /\ HeadInv /\ WriterInv /\ FrameInv /\ IdInv
    /\ \A c \in Chunks : ChunkInv(c) /\ FilesOK(hfile[c], data[c])
CoreInv == ~ahead => Core

LEMMA Empty == \A S : \A q \in Seq(S) : (q = << >> <=> Len(q) = 0) /\ Len(q) \in Nat
BY EmptySeq

LEMMA FrameFields ==
    ASSUME ProcsOK, NEW g \in Dumpers
    PROVE  /\ frame[g] \in Frames /\ frame[g].chunk \in Chunks /\ frame[g].j \in Nat /\ frame[g].l \in Nat
           /\ frame[g].at \in {"idle", "enter", "scan", "write", "forget", "failed"}
BY DEF ProcsOK, Frames

LEMMA IdleFrame ==
    /\ Idle \in Frames /\ Idle.at = "idle"
    /\ \A c \in Chunks : LET e == [Idle EXCEPT !.at = "enter", !.chunk = c]
                         IN  e \in Frames /\ e.at = "enter" /\ e.chunk = c
    /\ LET e == [Idle EXCEPT !.at = "enter"] IN e \in Frames /\ e.at = "enter" /\ e.chunk = 0
BY Numbers DEF Idle, Frames

LEMMA IdleWriter == NoWriter \in Writers /\ NoWriter.at = "idle"
BY DEF NoWriter, Writers, NoPos

\* What depends on none of the files, the splits and the data.
LEMMA Same ==
    ASSUME Core, UNCHANGED <<data, hfile, splits, dirty, head, maxDumped, maxChunkID>>,
           flushed' \in [Chunks -> Nat], \A c \in Chunks : flushed'[c] <= Len(data[c]),
           (proc' = proc /\ step' = step /\ flushed' = flushed) \/ (Running /\ Running'),
           writer' \in Writers, writer'.at = "idle" <=> writer.at = "idle",
           writer'.key = writer.key, writer'.live = writer.live, writer'.pos = writer.pos,
           tfile' \in [id : [chunk : Int, split : Nat], tree : [Keys -> Nat]], tree' \in [Keys -> Nat],
           treeID' \in IDs, treeID'.chunk <= head \/ treeID' = treeID, bg' \in Nat, step' \in Nat,
           frame' \in [Dumpers -> Frames], FrameInv',
           proc \in {"down", "opening"} => \A g \in Dumpers : frame'[g].at = "idle"
    PROVE  Core'
<1>0. DataOK /\ HintsOK /\ IndexOK /\ ProcsOK /\ DownInv /\ HeadInv /\ WriterInv /\ IdInv
  BY DEF Core
<1>1. DataOK' /\ HintsOK' /\ IndexOK'
  BY <1>0 DEF DataOK, HintsOK, IndexOK
<1>2. proc' \in Procs /\ ProcsOK'
  BY <1>0 DEF ProcsOK, Running, Procs
<1>3. DownInv'
  <2> SUFFICES ASSUME proc' \in {"down", "opening"}
               PROVE  /\ \A g \in Dumpers : frame'[g].at = "idle"
                      /\ writer'.at = "idle"
                      /\ \A c \in Chunks : ~dirty'[c] /\ flushed'[c] = Len(data'[c])
    BY DEF DownInv
  <2>1. proc \in {"down", "opening"} /\ flushed' = flushed
    BY DEF Running
  <2> QED BY <1>0, <2>1 DEF DownInv
<1>4. HeadInv'
  <2>1. proc' # "down" => proc # "down"
    BY DEF Running
  <2>2. proc' = "opening" => proc = "opening"
    BY DEF Running
  <2> QED BY <1>0, <2>1, <2>2 DEF HeadInv
<1>5. WriterInv'
  BY <1>0 DEF WriterInv
<1>6. IdInv'
  <2>1. proc' # "down" => proc # "down"
    BY DEF Running
  <2> QED BY <1>0, <2>1 DEF IdInv
<1>7. ASSUME NEW c \in Chunks PROVE ChunkInv(c)' /\ FilesOK(hfile'[c], data'[c])
  <2>1. Unopened(c)' <=> Unopened(c)
    BY DEF Unopened, Running
  <2>2. Hinted(c)' = Hinted(c)
    BY DEF Hinted
  <2>3. ChunkInv(c) /\ FilesOK(hfile[c], data[c])
    BY DEF Core
  <2> QED BY <2>1, <2>2, <2>3 DEF ChunkInv
<1> QED BY <1>1, <1>2, <1>3, <1>4, <1>5, <1>6, <1>7 DEF Core

LEMMA SameFrame ==
    ASSUME Core, UNCHANGED <<data, flushed, hfile, tfile, step, head, tree, treeID, splits, dirty, maxChunkID,
                             maxDumped, bg, writer>>,
           proc' = proc \/ (Running /\ Running'),
           frame' \in [Dumpers -> Frames], FrameInv',
           proc \in {"down", "opening"} => \A g \in Dumpers : frame'[g].at = "idle"
    PROVE  Core'
<1>1. DataOK /\ IndexOK /\ ProcsOK
  BY DEF Core
<1>2. /\ flushed' \in [Chunks -> Nat] /\ \A c \in Chunks : flushed'[c] <= Len(data[c])
      /\ writer' \in Writers
      /\ tfile' \in [id : [chunk : Int, split : Nat], tree : [Keys -> Nat]] /\ tree' \in [Keys -> Nat]
      /\ treeID' \in IDs /\ treeID' = treeID /\ bg' \in Nat /\ step' \in Nat
  BY <1>1 DEF DataOK, IndexOK, ProcsOK
<1>3. (proc' = proc /\ step' = step /\ flushed' = flushed) \/ (Running /\ Running')
  OBVIOUS
<1> QED BY <1>2, <1>3, Same

LEMMA SameAll ==
    ASSUME Core, UNCHANGED <<data, flushed, hfile, tfile, proc, step, head, tree, treeID, splits, dirty, maxChunkID,
                             maxDumped, bg, frame, writer>>
    PROVE  Core'
<1>1. frame' \in [Dumpers -> Frames] /\ FrameInv'
  BY DEF Core, ProcsOK, FrameInv
<1>2. proc \in {"down", "opening"} => \A g \in Dumpers : frame'[g].at = "idle"
  BY DEF Core, DownInv
<1> QED BY <1>1, <1>2, SameFrame

\* One frame moves, in a bucket that is open.
LEMMA MoveFrame ==
    ASSUME Core, NEW g \in Dumpers, NEW f \in Frames, frame' = [frame EXCEPT ![g] = f],
           UNCHANGED <<data, flushed, hfile, tfile, step, head, tree, treeID, splits, dirty, maxChunkID,
                       maxDumped, bg, writer>>,
           Running, Running',
           f.at \in {"scan", "write", "forget", "failed"} => f.j \in 1 .. f.l /\ f.l <= Len(splits[f.chunk]),
           f.at \in {"write", "forget", "failed"} => f.j < Len(splits[f.chunk])
    PROVE  Core'
<1>1. frame \in [Dumpers -> Frames] /\ FrameInv
  BY DEF Core, ProcsOK
<1>2. frame' \in [Dumpers -> Frames] /\ frame'[g] = f /\ \A x \in Dumpers : x # g => frame'[x] = frame[x]
  BY <1>1
<1>3. FrameInv'
  <2> SUFFICES ASSUME NEW x \in Dumpers
               PROVE  /\ frame'[x].at \in {"scan", "write", "forget", "failed"} =>
                             frame'[x].j \in 1 .. frame'[x].l /\ frame'[x].l <= Len(splits[frame'[x].chunk])
                      /\ frame'[x].at \in {"write", "forget", "failed"} => frame'[x].j < Len(splits[frame'[x].chunk])
    BY DEF FrameInv
  <2>1. CASE x = g
    BY <1>2, <2>1
  <2>2. CASE x # g
    BY <1>1, <1>2, <2>2 DEF FrameInv
  <2> QED BY <2>1, <2>2
<1>4. proc \notin {"down", "opening"}
  BY DEF Running
<1> QED BY <1>2, <1>3, <1>4, SameFrame

\* A dumper that is under way runs in an open bucket.
LEMMA Dumping ==
    ASSUME Core, NEW g \in Dumpers, frame[g].at # "idle"
    PROVE  Running
BY DEF Core, DownInv, ProcsOK, Procs, Running

LEMMA NextDumpRound ==
    ASSUME Core, NEW c \in Chunks, DumpRound(c)
    PROVE  Core'
<1> DEFINE f == [Idle EXCEPT !.at = "enter", !.chunk = c]
<1>1. f \in Frames /\ f.at = "enter"
  BY IdleFrame
<1> HIDE DEF f
<1>2. /\ frame' = [frame EXCEPT !["dumper"] = f] /\ Running /\ Running'
      /\ UNCHANGED <<data, flushed, hfile, tfile, step, head, tree, treeID, splits, dirty, maxChunkID,
                     maxDumped, bg, writer>>
  BY DEF DumpRound, disk, index, hints, counters, Running, f
<1>3. "dumper" \in Dumpers
  BY DEF Dumpers
<1> QED BY <1>1, <1>2, <1>3, MoveFrame

\* Where trydump looks next.
LEMMA Scan ==
    ASSUME Core, NEW g \in Dumpers, InChunk(g)
    PROVE  /\ Limit(g) \in Nat /\ Limit(g) <= Len(splits[frame[g].chunk]) /\ Limit(g) >= 1
           /\ From(g) \in Nat \ {0} /\ From(g) <= Limit(g)
           /\ Len(splits[frame[g].chunk]) \in Nat
           /\ ToDump(g) \subseteq Nat
           /\ \A j \in ToDump(g) : j \in 1 .. Limit(g) - 1
<1>1. ProcsOK /\ HintsOK /\ FrameInv
  BY DEF Core
<1>2. frame[g].chunk \in Chunks /\ frame[g].j \in Nat /\ frame[g].l \in Nat
  BY <1>1, FrameFields
<1>3. Len(splits[frame[g].chunk]) \in Nat /\ Len(splits[frame[g].chunk]) >= 1
  BY <1>1, <1>2 DEF HintsOK
<1>4. frame[g].at = "scan" => frame[g].j \in 1 .. frame[g].l /\ frame[g].l <= Len(splits[frame[g].chunk])
  BY <1>1 DEF FrameInv
<1>5. /\ Limit(g) \in Nat /\ Limit(g) <= Len(splits[frame[g].chunk]) /\ Limit(g) >= 1
      /\ From(g) \in Nat \ {0} /\ From(g) <= Limit(g)
  BY <1>2, <1>3, <1>4 DEF Limit, From, InChunk
<1>6. \A j \in ToDump(g) : j \in From(g) .. Limit(g) - 1
  BY DEF ToDump
<1>7. \A j \in ToDump(g) : j \in Nat /\ j \in 1 .. Limit(g) - 1
  BY <1>5, <1>6
<1> QED BY <1>3, <1>5, <1>7

\* The frame of a dump that begins.
LEMMA WriteFrame ==
    ASSUME ProcsOK, NEW g \in Dumpers, NEW j \in Nat, Limit(g) \in Nat, WriteSplit(g, j)
    PROVE  \E f \in Frames : /\ frame' = [frame EXCEPT ![g] = f]
                             /\ f.at = "write" /\ f.chunk = frame[g].chunk /\ f.j = j /\ f.l = Limit(g)
<1> DEFINE f == [frame[g] EXCEPT !.at = "write", !.j = j, !.l = Limit(g)]
<1>1. frame[g] \in Frames
  BY FrameFields
<1>2. f \in Frames /\ f.at = "write" /\ f.chunk = frame[g].chunk /\ f.j = j /\ f.l = Limit(g)
  BY <1>1 DEF Frames
<1>3. frame' = [frame EXCEPT ![g] = f]
  BY DEF WriteSplit, ProcsOK
<1> QED BY <1>2, <1>3

LEMMA NextDumpOld ==
    ASSUME Core, NEW g \in Dumpers, DumpOld(g)
    PROVE  Core'
<1>1. InChunk(g) /\ ToDump(g) # {} /\ WriteSplit(g, Min(ToDump(g))) /\ ProcsOK
  BY DEF DumpOld, Core
<1>2. /\ Running /\ Running'
      /\ UNCHANGED <<data, flushed, hfile, tfile, step, head, tree, treeID, splits, dirty, maxChunkID,
                     maxDumped, bg, writer>>
  <2>1. Running
    BY <1>1, Dumping DEF InChunk
  <2> QED BY <2>1 DEF DumpOld, disk, index, hints, counters, Running
<1>3. Min(ToDump(g)) \in ToDump(g)
  BY <1>1, Scan, MinIsLeast
<1> DEFINE j == Min(ToDump(g))
<1>4. /\ j \in Nat /\ j \in 1 .. Limit(g) /\ j < Limit(g) /\ Limit(g) \in Nat
      /\ Limit(g) <= Len(splits[frame[g].chunk]) /\ Len(splits[frame[g].chunk]) \in Nat
  BY <1>1, <1>3, Scan
<1> HIDE DEF j
<1>5. PICK f \in Frames : /\ frame' = [frame EXCEPT ![g] = f]
                          /\ f.at = "write" /\ f.chunk = frame[g].chunk /\ f.j = j /\ f.l = Limit(g)
  BY <1>1, <1>4, WriteFrame DEF j
<1>6. f.j \in 1 .. f.l /\ f.l <= Len(splits[f.chunk]) /\ f.j < Len(splits[f.chunk])
  BY <1>4, <1>5
<1> QED BY <1>2, <1>5, <1>6, MoveFrame

\* The end of trydump.
LEMMA NextFrame ==
    ASSUME ProcsOK, IndexOK, NEW g \in Dumpers, NextChunk(g), Running
    PROVE  /\ Running'
           /\ \E f \in Frames : frame' = [frame EXCEPT ![g] = f] /\ f.at \in {"idle", "enter"}
<1> DEFINE c == frame[g].chunk + 1
<1>1. c \in Nat /\ maxChunkID \in Chunks
  <2>1. frame[g].chunk \in Chunks
    BY FrameFields
  <2>2. frame[g].chunk \in Nat
    BY <2>1, Numbers
  <2> QED BY <2>2 DEF IndexOK
<1>2. Running'
  BY DEF NextChunk, Running
<1>3. CASE g = "closer" /\ c <= maxChunkID
  <2>1. c \in Chunks
    BY <1>1, <1>3, Numbers
  <2>2. frame' = [frame EXCEPT ![g] = [Idle EXCEPT !.at = "enter", !.chunk = c]]
    BY <1>3 DEF NextChunk
  <2> QED BY <1>2, <2>1, <2>2, IdleFrame
<1>4. CASE ~(g = "closer" /\ c <= maxChunkID)
  <2>1. frame' = [frame EXCEPT ![g] = Idle]
    BY <1>4 DEF NextChunk
  <2> QED BY <1>2, <2>1, IdleFrame
<1> QED BY <1>3, <1>4

LEMMA NextLeaveChunk ==
    ASSUME Core, NEW g \in Dumpers, LeaveChunk(g)
    PROVE  Core'
<1>1. InChunk(g) /\ NextChunk(g) /\ ProcsOK /\ IndexOK
  BY DEF LeaveChunk, Core
<1>2. Running
  BY <1>1, Dumping DEF InChunk
<1>3. UNCHANGED <<data, flushed, hfile, tfile, step, head, tree, treeID, splits, dirty, maxChunkID,
                  maxDumped, bg, writer>>
  BY DEF LeaveChunk, disk, index, hints, counters
<1>4. Running' /\ \E f \in Frames : frame' = [frame EXCEPT ![g] = f] /\ f.at \in {"idle", "enter"}
  BY <1>1, <1>2, NextFrame
<1> QED BY <1>2, <1>3, <1>4, MoveFrame

LEMMA NextDumpFails ==
    ASSUME Core, NEW g \in Dumpers, DumpFails(g)
    PROVE  Core'
<1> DEFINE f == [frame[g] EXCEPT !.at = "failed"]
<1>1. frame[g] \in Frames /\ frame[g].at = "write" /\ ProcsOK /\ FrameInv
  BY FrameFields DEF DumpFails, Core
<1>2. Running /\ Running'
  <2>1. Running
    BY <1>1, Dumping
  <2> QED BY <2>1 DEF Running, DumpFails
<1>3. UNCHANGED <<data, flushed, hfile, tfile, step, head, tree, treeID, splits, dirty, maxChunkID,
                  maxDumped, bg, writer>>
  BY DEF DumpFails, disk, index, hints
<1>4. f \in Frames /\ f.at = "failed" /\ f.j = frame[g].j /\ f.l = frame[g].l /\ f.chunk = frame[g].chunk
  BY <1>1 DEF Frames
<1>5. frame' = [frame EXCEPT ![g] = f]
  BY <1>1 DEF DumpFails, ProcsOK
<1>6. f.j \in 1 .. f.l /\ f.l <= Len(splits[f.chunk]) /\ f.j < Len(splits[f.chunk])
  BY <1>1, <1>4 DEF FrameInv
<1> HIDE DEF f
<1> QED BY <1>2, <1>3, <1>4, <1>5, <1>6, MoveFrame

LEMMA NextDumpPanics ==
    ASSUME Core, NEW g \in Dumpers, DumpPanics(g), g # "closer"
    PROVE  Core'
<1>1. frame' = [frame EXCEPT ![g] = Idle] /\ frame[g].at # "idle"
  BY DEF DumpPanics, BufferGone, InChunk
<1>2. UNCHANGED <<data, flushed, hfile, tfile, proc, step, head, tree, treeID, splits, dirty, maxChunkID,
                  maxDumped, bg, writer>>
  BY DEF DumpPanics, disk, index, hints
<1>3. Running /\ Running'
  <2>1. Running
    BY <1>1, Dumping
  <2> QED BY <1>2, <2>1 DEF Running
<1>4. Idle \in Frames /\ Idle.at = "idle"
  BY IdleFrame
<1> QED BY <1>1, <1>2, <1>3, <1>4, MoveFrame

LEMMA NextSetTree ==
    ASSUME Core, SetTree
    PROVE  Core'
<1>1. DataOK /\ IndexOK /\ ProcsOK /\ WriterInv /\ FrameInv
  BY DEF Core
<1>2. /\ UNCHANGED <<data, hfile, splits, dirty, head, maxDumped, maxChunkID, flushed, proc, step, tfile, treeID,
                     bg, frame>>
      /\ Running /\ Running'
  BY DEF SetTree, disk, hints, counters, Running
<1>3. writer \in Writers /\ writer.at = "tree" /\ writer' = [writer EXCEPT !.at = "hint"] /\ writer.pos \in Nat
  BY <1>1 DEF SetTree, ProcsOK, Writers
<1>4. /\ writer' \in Writers /\ writer'.at = "hint"
      /\ writer'.key = writer.key /\ writer'.live = writer.live /\ writer'.pos = writer.pos
  BY <1>3 DEF Writers
<1>5. tree' \in [Keys -> Nat]
  BY <1>1, <1>3 DEF SetTree, IndexOK
<1>6. FrameInv' /\ frame' \in [Dumpers -> Frames]
  BY <1>1, <1>2 DEF FrameInv, ProcsOK
<1>7. /\ flushed' \in [Chunks -> Nat] /\ \A c \in Chunks : flushed'[c] <= Len(data[c])
      /\ tfile' \in [id : [chunk : Int, split : Nat], tree : [Keys -> Nat]]
      /\ treeID' \in IDs /\ bg' \in Nat /\ step' \in Nat
  BY <1>1, <1>2 DEF DataOK, IndexOK
<1>8. proc \notin {"down", "opening"}
  BY <1>2 DEF Running
<1> QED BY <1>2, <1>3, <1>4, <1>5, <1>6, <1>7, <1>8, Same

LEMMA NextClose ==
    ASSUME Core, Close
    PROVE  Core'
<1>1. DataOK /\ IndexOK /\ ProcsOK /\ WriterInv /\ FrameInv
  BY DEF Core
<1>2. /\ UNCHANGED <<data, hfile, splits, dirty, head, maxDumped, maxChunkID, step, tfile, tree, treeID,
                     bg, writer>>
      /\ Running /\ Running'
  BY DEF Close, hints, index, Running
<1>3. flushed' \in [Chunks -> Nat] /\ \A c \in Chunks : flushed'[c] <= Len(data[c])
  <2>1. \A c \in Chunks : Len(data[c]) \in Nat
    BY <1>1, Empty DEF DataOK
  <2> QED BY <1>1, <2>1 DEF DataOK, Close
<1>4. FrameInv' /\ frame' \in [Dumpers -> Frames]
  <2>1. CASE frame' = frame
    BY <1>1, <1>2, <2>1 DEF FrameInv, ProcsOK
  <2>2. CASE frame' = [frame EXCEPT !["closer"] = [Idle EXCEPT !.at = "enter"]]
    <3> DEFINE e == [Idle EXCEPT !.at = "enter"]
    <3>1. e \in Frames /\ e.at = "enter"
      BY IdleFrame
    <3> HIDE DEF e
    <3>2. frame' \in [Dumpers -> Frames] /\ \A x \in Dumpers : frame'[x] = e \/ frame'[x] = frame[x]
      BY <1>1, <2>2, <3>1 DEF ProcsOK, e
    <3> QED BY <1>1, <1>2, <3>1, <3>2 DEF FrameInv
  <2> QED BY <2>1, <2>2 DEF Close
<1>5. /\ tfile' \in [id : [chunk : Int, split : Nat], tree : [Keys -> Nat]] /\ tree' \in [Keys -> Nat]
      /\ treeID' \in IDs /\ bg' \in Nat /\ step' \in Nat /\ writer' \in Writers
  BY <1>1, <1>2 DEF IndexOK, ProcsOK
<1>6. proc \notin {"down", "opening"}
  BY <1>2 DEF Running
<1> QED BY <1>2, <1>3, <1>4, <1>5, <1>6, Same

LEMMA NoTreeType ==
    NoTree \in [id : [chunk : Int, split : Nat], tree : [Keys -> Nat]]
BY DEF NoTree, HintID, NoPos

LEMMA NextTreeFile ==
    ASSUME Core, RemoveTree \/ DumpTree
    PROVE  Core'
<1>1. DataOK /\ IndexOK /\ ProcsOK /\ WriterInv /\ FrameInv /\ IdInv
  BY DEF Core
<1>2. /\ UNCHANGED <<data, flushed, hfile, splits, dirty, head, maxDumped, maxChunkID, step, tree, bg, frame, writer>>
      /\ Running /\ Running'
  BY DEF RemoveTree, DumpTree, hints, index, Running
<1>3. tfile' \in [id : [chunk : Int, split : Nat], tree : [Keys -> Nat]]
  <2>1. [id |-> treeID, tree |-> tree] \in [id : [chunk : Int, split : Nat], tree : [Keys -> Nat]]
    BY <1>1 DEF IndexOK, IDs
  <2>2. tfile' \in {NoTree, tfile, [id |-> treeID, tree |-> tree]}
    BY DEF RemoveTree, DumpTree
  <2> QED BY <1>1, <2>1, <2>2, NoTreeType DEF IndexOK
<1>4. treeID' \in IDs /\ (treeID'.chunk <= head \/ treeID' = treeID)
  <2>1. treeID' \in {treeID, maxDumped}
    BY DEF RemoveTree, DumpTree, index
  <2>2. maxDumped.chunk <= head
    BY <1>1, <1>2 DEF IdInv, Running
  <2> QED BY <1>1, <2>1, <2>2 DEF IndexOK
<1>5. /\ flushed' \in [Chunks -> Nat] /\ (\A c \in Chunks : flushed'[c] <= Len(data[c])) /\ tree' \in [Keys -> Nat]
      /\ bg' \in Nat /\ step' \in Nat /\ writer' \in Writers /\ frame' \in [Dumpers -> Frames] /\ FrameInv'
  BY <1>1, <1>2 DEF DataOK, IndexOK, ProcsOK, FrameInv
<1>6. proc \notin {"down", "opening"}
  BY <1>2 DEF Running
<1> QED BY <1>2, <1>3, <1>4, <1>5, <1>6, Same

LEMMA NextLookup ==
    ASSUME Core, \/ \E k \in Keys : StartLookup(k)
                 \/ LookupMem \/ LookupPanics \/ LookupFile \/ LookupReturn
    PROVE  Core'
<1>1. UNCHANGED <<data, flushed, hfile, tfile, proc, step, head, tree, treeID, splits, dirty, maxChunkID,
                  maxDumped, bg, frame, writer>>
  BY ZenonT(40) DEF StartLookup, LookupMem, LookupPanics, LookupFile, LookupReturn, disk, index, hints
<1> QED BY <1>1, SameAll, SMTT(40)

\* Frames do not mind that a chunk gets more splits.
LEMMA FramesStay ==
    ASSUME ProcsOK, HintsOK, FrameInv, \A c \in Chunks : Len(splits'[c]) \in Nat /\ Len(splits'[c]) >= Len(splits[c]),
           NEW g \in Dumpers, NEW f \in Frames, frame' = [frame EXCEPT ![g] = f],
           f.at \in {"scan", "write", "forget", "failed"} => f.j \in 1 .. f.l /\ f.l <= Len(splits'[f.chunk]),
           f.at \in {"write", "forget", "failed"} => f.j < Len(splits'[f.chunk])
    PROVE  FrameInv' /\ frame' \in [Dumpers -> Frames]
<1>1. frame' \in [Dumpers -> Frames] /\ frame'[g] = f /\ \A x \in Dumpers : x # g => frame'[x] = frame[x]
  BY DEF ProcsOK
<1> SUFFICES ASSUME NEW x \in Dumpers
             PROVE  /\ frame'[x].at \in {"scan", "write", "forget", "failed"} =>
                           frame'[x].j \in 1 .. frame'[x].l /\ frame'[x].l <= Len(splits'[frame'[x].chunk])
                    /\ frame'[x].at \in {"write", "forget", "failed"} => frame'[x].j < Len(splits'[frame'[x].chunk])
  BY <1>1 DEF FrameInv
<1>2. CASE x = g
  BY <1>1, <1>2
<1>3. CASE x # g
  <2>1. frame[x].chunk \in Chunks /\ frame[x].j \in Nat /\ frame[x].l \in Nat /\ frame'[x] = frame[x]
    BY <1>1, <1>3, FrameFields
  <2>2. Len(splits[frame[x].chunk]) \in Nat /\ Len(splits'[frame[x].chunk]) \in Nat
        /\ Len(splits'[frame[x].chunk]) >= Len(splits[frame[x].chunk])
    BY <2>1 DEF HintsOK
  <2>3. /\ frame[x].at \in {"scan", "write", "forget", "failed"} =>
              frame[x].j \in 1 .. frame[x].l /\ frame[x].l <= Len(splits[frame[x].chunk])
        /\ frame[x].at \in {"write", "forget", "failed"} => frame[x].j < Len(splits[frame[x].chunk])
    BY DEF FrameInv
  <2> QED BY <2>1, <2>2, <2>3
<1> QED BY <1>2, <1>3

LEMMA FramesSame ==
    ASSUME ProcsOK, HintsOK, FrameInv, frame' = frame,
           \A c \in Chunks : Len(splits'[c]) \in Nat /\ Len(splits'[c]) >= Len(splits[c])
    PROVE  FrameInv' /\ frame' \in [Dumpers -> Frames]
<1>1. \A x \in Chunks : Len(splits[x]) \in Nat
  BY DEF HintsOK
<1>2. "dumper" \in Dumpers
  BY DEF Dumpers
<1>3. frame["dumper"] \in Frames /\ frame' = [frame EXCEPT !["dumper"] = frame["dumper"]]
  BY <1>2 DEF ProcsOK
<1> DEFINE f == frame["dumper"]
<1>4. /\ f.chunk \in Chunks /\ f.j \in Nat /\ f.l \in Nat
      /\ f.at \in {"scan", "write", "forget", "failed"} => f.j \in 1 .. f.l /\ f.l <= Len(splits[f.chunk])
      /\ f.at \in {"write", "forget", "failed"} => f.j < Len(splits[f.chunk])
  BY <1>2, FrameFields DEF FrameInv
<1> HIDE DEF f
<1>5. /\ f.at \in {"scan", "write", "forget", "failed"} => f.j \in 1 .. f.l /\ f.l <= Len(splits'[f.chunk])
      /\ f.at \in {"write", "forget", "failed"} => f.j < Len(splits'[f.chunk])
  BY <1>1, <1>4
<1> QED BY <1>2, <1>3, <1>5, FramesStay DEF f

\* The splits and files of one chunk change, in a bucket that is open.
LEMMA ChangeChunk ==
    ASSUME Core, Running, Running', NEW c \in Chunks,
           NEW ss \in Seq(SplitSet), Len(ss) >= 1, splits' = [splits EXCEPT ![c] = ss],
           NEW hf \in [SplitIds -> HintSet], hfile' = [hfile EXCEPT ![c] = hf],
           UNCHANGED <<data, flushed, tfile, step, head, tree, treeID>>,
           maxDumped' \in IDs, maxDumped'.chunk <= head, maxChunkID' \in Chunks, bg' \in Nat,
           dirty' \in [Chunks -> BOOLEAN], \A x \in Chunks : x # c => dirty'[x] = dirty[x],
           writer' = writer \/ (writer' = NoWriter /\ c = head),
           frame' \in [Dumpers -> Frames], FrameInv',
           \/ Kept(ss, data[c], hf, Hinted(c)') /\ (dirty'[c] => DOMAIN ss[Len(ss)].buf.items # {})
           \/ c < head /\ Quiet(ss, data[c], hf),
           FilesOK(hf, data[c])
    PROVE  Core'
<1>0. DataOK /\ HintsOK /\ IndexOK /\ ProcsOK /\ DownInv /\ HeadInv /\ WriterInv /\ IdInv
  BY DEF Core
<1>1. splits'[c] = ss /\ hfile'[c] = hf /\ \A x \in Chunks : x # c => splits'[x] = splits[x] /\ hfile'[x] = hfile[x]
  BY <1>0 DEF HintsOK
<1>2. DataOK' /\ IndexOK'
  BY <1>0 DEF DataOK, IndexOK
<1>3. HintsOK'
  BY <1>0, <1>1 DEF HintsOK
<1>4. ProcsOK'
  <2>1. proc' \in Procs
    BY DEF Running, Procs
  <2>2. writer' \in Writers
    BY <1>0, IdleWriter DEF ProcsOK
  <2> QED BY <2>1, <2>2 DEF ProcsOK
<1>5. DownInv'
  BY DEF DownInv, Running
<1>6. HeadInv'
  BY <1>0 DEF HeadInv, Running
<1>7. WriterInv'
  BY <1>0, IdleWriter DEF WriterInv
<1>8. IdInv'
  BY <1>0 DEF IdInv, Running
<1>9. ASSUME NEW x \in Chunks PROVE ChunkInv(x)' /\ FilesOK(hfile'[x], data'[x])
  <2>1. ~Unopened(x) /\ ~Unopened(x)'
    BY DEF Unopened, Running
  <2>2. CASE x = c
    BY <1>1, <2>1, <2>2 DEF ChunkInv
  <2>3. CASE x # c
    <3>1. Hinted(x)' = Hinted(x)
      BY <2>3, IdleWriter DEF Hinted
    <3>2. ChunkInv(x) /\ FilesOK(hfile[x], data[x])
      BY DEF Core
    <3> QED BY <1>1, <2>1, <2>3, <3>1, <3>2 DEF ChunkInv
  <2> QED BY <2>2, <2>3
<1> QED BY <1>2, <1>3, <1>4, <1>5, <1>6, <1>7, <1>8, <1>9 DEF Core

\* What is known of a chunk of an open bucket.
LEMMA ChunkFacts ==
    ASSUME Core, Running, NEW c \in Chunks
    PROVE  /\ splits[c] \in Seq(SplitSet) /\ Len(splits[c]) \in Nat \ {0} /\ hfile[c] \in [SplitIds -> HintSet]
           /\ data[c] \in Seq(Records) /\ Len(data[c]) \in Nat /\ Len(data[c]) <= DataFileMax
           /\ Hinted(c) \in Nat /\ Hinted(c) <= Len(data[c]) /\ FilesOK(hfile[c], data[c])
           /\ \/ /\ Kept(splits[c], data[c], hfile[c], Hinted(c))
                 /\ dirty[c] => DOMAIN splits[c][Len(splits[c])].buf.items # {}
              \/ c < head /\ Quiet(splits[c], data[c], hfile[c])
<1>0. DataOK /\ HintsOK /\ IndexOK /\ WriterInv /\ ChunkInv(c) /\ FilesOK(hfile[c], data[c])
  BY DEF Core
<1>1. splits[c] \in Seq(SplitSet) /\ Len(splits[c]) >= 1 /\ hfile[c] \in [SplitIds -> HintSet]
      /\ data[c] \in Seq(Records) /\ Len(data[c]) <= DataFileMax
  BY <1>0 DEF DataOK, HintsOK
<1>2. Len(splits[c]) \in Nat \ {0} /\ Len(data[c]) \in Nat
  BY <1>1
<1>3. Hinted(c) \in Nat /\ Hinted(c) <= Len(data[c])
  <2>1. writer.at # "idle" /\ c = head => Len(data[c]) >= 1
    BY <1>0 DEF WriterInv
  <2> QED BY <1>2, <2>1 DEF Hinted
<1>4. ~Unopened(c)
  BY DEF Unopened, Running
<1> QED BY <1>0, <1>1, <1>2, <1>3, <1>4 DEF ChunkInv

LEMMA NextDumpLast ==
    ASSUME Core, NEW g \in Dumpers, DumpLast(g)
    PROVE  Core'
<1>c. PICK c \in Chunks : c = frame[g].chunk
  BY FrameFields DEF Core
<1> DEFINE ss == Append(splits[c], NewSplit)
<1>0. DataOK /\ HintsOK /\ IndexOK /\ ProcsOK /\ IdInv /\ FrameInv
  BY DEF Core
<1>1. InChunk(g) /\ dirty[c] /\ NeedDump(splits[c][Limit(g)]) /\ Rotate(c) /\ WriteSplit(g, Limit(g))
  BY <1>c DEF DumpLast, MayDumpLast
<1>2. Running
  BY <1>1, Dumping DEF InChunk
<1>3. /\ Running'
      /\ UNCHANGED <<data, flushed, hfile, tfile, step, head, tree, treeID, maxChunkID, maxDumped, bg, writer>>
  BY <1>2 DEF DumpLast, disk, index, counters, Running
<1>4. /\ splits[c] \in Seq(SplitSet) /\ Len(splits[c]) \in Nat \ {0} /\ hfile[c] \in [SplitIds -> HintSet]
      /\ FilesOK(hfile[c], data[c])
      /\ \/ /\ Kept(splits[c], data[c], hfile[c], Hinted(c))
            /\ dirty[c] => DOMAIN splits[c][Len(splits[c])].buf.items # {}
         \/ c < head /\ Quiet(splits[c], data[c], hfile[c])
  BY <1>1, <1>2, ChunkFacts
<1>5. Limit(g) \in Nat /\ Limit(g) <= Len(splits[c]) /\ Limit(g) >= 1
  BY <1>1, <1>c, Scan
<1>6. Kept(splits[c], data[c], hfile[c], Hinted(c)) /\ DOMAIN splits[c][Len(splits[c])].buf.items # {}
  <2> SUFFICES ASSUME Quiet(splits[c], data[c], hfile[c]) PROVE FALSE
    BY <1>1, <1>4
  <2>1. splits[c][Limit(g)].file = None /\ DOMAIN splits[c][Limit(g)].buf.items # {}
    BY <1>1 DEF NeedDump
  <2>2. CASE Limit(g) = Len(splits[c])
    BY <2>1, <2>2 DEF Quiet, Blank
  <2>3. CASE Limit(g) # Len(splits[c])
    <3>1. Limit(g) \in 1 .. Len(splits[c]) - 1
      BY <1>4, <1>5, <2>3
    <3>2. splits[c][Limit(g)].buf # None
      BY <2>1, EmptyHints
    <3> QED BY <2>1, <3>1, <3>2 DEF Quiet
  <2> QED BY <2>2, <2>3
<1>7. ss \in Seq(SplitSet) /\ Len(ss) = Len(splits[c]) + 1 /\ ss[Len(ss)] = NewSplit
  BY <1>4, SplitShape
<1>8. Kept(ss, data[c], hfile[c], Hinted(c))
  BY <1>4, <1>6, KeptRotate, BlankNew, SplitShape, SMTT(40)
<1>9. Hinted(c)' = Hinted(c)
  BY <1>3 DEF Hinted
<1>10. /\ splits' = [splits EXCEPT ![c] = ss] /\ dirty' \in [Chunks -> BOOLEAN] /\ ~dirty'[c]
       /\ \A x \in Chunks : x # c => dirty'[x] = dirty[x]
  BY <1>0, <1>1 DEF Rotate, HintsOK
<1>11. hfile' = [hfile EXCEPT ![c] = hfile[c]]
  BY <1>0, <1>3 DEF HintsOK
<1> HIDE DEF ss
<1>12. splits'[c] = ss /\ \A x \in Chunks : Len(splits'[x]) \in Nat /\ Len(splits'[x]) >= Len(splits[x])
  <2>1. splits'[c] = ss /\ \A x \in Chunks : x # c => splits'[x] = splits[x]
    BY <1>0, <1>1, <1>10 DEF HintsOK
  <2>2. \A x \in Chunks : Len(splits[x]) \in Nat
    BY <1>0 DEF HintsOK
  <2> QED BY <1>4, <1>7, <2>1, <2>2
<1>13. FrameInv' /\ frame' \in [Dumpers -> Frames]
  <2>1. PICK f \in Frames : /\ frame' = [frame EXCEPT ![g] = f]
                            /\ f.at = "write" /\ f.chunk = c /\ f.j = Limit(g) /\ f.l = Limit(g)
    BY <1>0, <1>1, <1>5, <1>c, WriteFrame
  <2>2. f.j \in 1 .. f.l /\ f.l <= Len(splits'[f.chunk]) /\ f.j < Len(splits'[f.chunk])
    BY <1>4, <1>5, <1>7, <1>12, <2>1
  <2> QED BY <1>0, <1>12, <2>1, <2>2, FramesStay
<1>14. maxDumped' \in IDs /\ maxDumped'.chunk <= head /\ maxChunkID' \in Chunks /\ bg' \in Nat
  BY <1>0, <1>2, <1>3 DEF IndexOK, IdInv, Running
<1>15. Len(ss) >= 1
  BY <1>4, <1>7
<1>16. \/ Kept(ss, data[c], hfile[c], Hinted(c)') /\ (dirty'[c] => DOMAIN ss[Len(ss)].buf.items # {})
       \/ c < head /\ Quiet(ss, data[c], hfile[c])
  BY <1>8, <1>9, <1>10
<1>17. ss \in Seq(SplitSet) /\ hfile[c] \in [SplitIds -> HintSet] /\ FilesOK(hfile[c], data[c])
  BY <1>4, <1>7, SMTT(40)
<1> QED BY <1>2, <1>3, <1>10, <1>11, <1>13, <1>14, <1>15, <1>16, <1>17, ChangeChunk

LEMMA SplitExcept ==
    ASSUME NEW ss \in Seq(SplitSet), NEW j \in 1 .. Len(ss), NEW x \in SplitSet, NEW r, r = [ss EXCEPT ![j] = x]
    PROVE  /\ r \in Seq(SplitSet) /\ Len(r) = Len(ss)
           /\ j # Len(ss) => r[Len(ss)] = ss[Len(ss)]
<1>1. r \in Seq(SplitSet) /\ Len(r) = Len(ss)
  BY ExceptSeq
<1>2. Len(ss) \in DOMAIN ss
  OBVIOUS
<1>3. j # Len(ss) => r[Len(ss)] = ss[Len(ss)]
  BY <1>2
<1> QED BY <1>1, <1>3, ZenonT(40)

LEMMA LargerIs ==
    ASSUME NEW id \in IDs, NEW c \in Nat, NEW s \in Nat
    PROVE  Larger(id, HintID(c, s)) \in IDs /\ Larger(id, HintID(c, s)).chunk \in {id.chunk, c}
<1>1. HintID(c, s) \in IDs /\ HintID(c, s).chunk = c
  BY DEF HintID, IDs
<1> QED BY <1>1 DEF Larger

\* Only chunks that have data have splits before the last.
LEMMA NotBehindHead ==
    ASSUME Core, Running, NEW c \in Chunks, Len(splits[c]) > 1
    PROVE  c <= head
<1> SUFFICES ASSUME c > head PROVE FALSE
  BY Numbers DEF Core, IndexOK
<1>1. data[c] = << >> /\ head \in Nat /\ c \in Nat
  BY Numbers DEF Core, HeadInv, IndexOK, Running
<1>2. Len(data[c]) = 0 /\ Hinted(c) = 0
  BY <1>1 DEF Hinted
<1>3. splits[c] \in Seq(SplitSet) /\ Len(splits[c]) \in Nat \ {0} /\ Kept(splits[c], data[c], hfile[c], 0)
  BY <1>1, <1>2, ChunkFacts
<1>4. PICK b : Bounds(splits[c], data[c], b, 0)
  BY <1>3 DEF Kept
<1>5. \A j \in 0 .. Len(splits[c]) - 1 : j <= 0
  BY <1>3, <1>4, BoundsFacts
<1> QED BY <1>3, <1>5

LEMMA NextDumpFile ==
    ASSUME Core, NEW g \in Dumpers, DumpFile(g)
    PROVE  Core'
<1>0. DataOK /\ HintsOK /\ IndexOK /\ ProcsOK /\ IdInv /\ FrameInv
  BY DEF Core
<1>c. PICK c \in Chunks : c = frame[g].chunk
  BY <1>0, FrameFields
<1>j. PICK j \in Nat : j = frame[g].j
  BY <1>0, FrameFields
<1>1. frame[g] \in Frames /\ frame[g].at = "write" /\ splits[c][j].buf # None /\ Running
  BY <1>0, <1>c, <1>j, FrameFields, Dumping DEF DumpFile
<1>2. /\ Running'
      /\ UNCHANGED <<data, flushed, tfile, step, head, tree, treeID, maxChunkID, maxDumped, dirty, bg, writer>>
  BY <1>1 DEF DumpFile, index, counters, Running
<1>3. /\ splits[c] \in Seq(SplitSet) /\ Len(splits[c]) \in Nat \ {0} /\ hfile[c] \in [SplitIds -> HintSet]
      /\ data[c] \in Seq(Records) /\ Len(data[c]) \in Nat /\ Len(data[c]) <= DataFileMax
      /\ Hinted(c) \in Nat /\ Hinted(c) <= Len(data[c]) /\ FilesOK(hfile[c], data[c])
      /\ \/ /\ Kept(splits[c], data[c], hfile[c], Hinted(c))
            /\ dirty[c] => DOMAIN splits[c][Len(splits[c])].buf.items # {}
         \/ c < head /\ Quiet(splits[c], data[c], hfile[c])
  BY <1>1, ChunkFacts
<1>4. j \in 1 .. frame[g].l /\ frame[g].l <= Len(splits[c]) /\ j < Len(splits[c]) /\ frame[g].l \in Nat
  BY <1>0, <1>1, <1>c, <1>j, FrameFields DEF FrameInv
<1>5. j \in 1 .. Len(splits[c]) - 1 /\ j \in 1 .. Len(splits[c]) /\ j # Len(splits[c])
  BY <1>3, <1>4
<1> DEFINE h == splits[c][j].buf
           ss == [splits[c] EXCEPT ![j].file = h]
           hf == [hfile[c] EXCEPT ![j] = h]
<1>6. h \in HintSet /\ h # None
  <2>1. splits[c][j] \in SplitSet
    BY <1>3, <1>5, ElementOfSeq
  <2> QED BY <1>1, <2>1, SplitShape
<1>7. splits' = [splits EXCEPT ![c] = ss] /\ hfile' = [hfile EXCEPT ![c] = hf]
  BY <1>0, <1>c, <1>j DEF DumpFile, HintsOK
<1>8. ss \in Seq(SplitSet) /\ Len(ss) = Len(splits[c]) /\ ss[Len(splits[c])] = splits[c][Len(splits[c])]
  <2> DEFINE x == [splits[c][j] EXCEPT !.file = h]
  <2>1. splits[c][j] \in SplitSet
    BY <1>3, <1>5, ElementOfSeq
  <2>2. x \in SplitSet
    BY <1>6, <2>1 DEF SplitSet
  <2>3. ss = [splits[c] EXCEPT ![j] = x]
    OBVIOUS
  <2> HIDE DEF h, x, ss
  <2> QED BY <1>3, <1>5, <2>2, <2>3, SplitExcept
<1>a. Len(splits[c]) >= 1
  BY <1>3
<1>9. hf \in [SplitIds -> HintSet]
  BY <1>3, <1>6
<1>10. Kept(splits[c], data[c], hfile[c], Hinted(c)) => Kept(ss, data[c], hf, Hinted(c)) /\ FilesOK(hf, data[c])
  <2> SUFFICES ASSUME Kept(splits[c], data[c], hfile[c], Hinted(c))
               PROVE  Kept(ss, data[c], hf, Hinted(c)) /\ FilesOK(hf, data[c])
    OBVIOUS
  <2>1. Kept(ss, data[c], hf, Hinted(c))
    BY <1>1, <1>3, <1>5, <1>a, KeptDump, Zenon
  <2>2. Len(ss) >= 1
    BY <1>3, <1>8
  <2> HIDE DEF ss, hf
  <2> QED BY <1>3, <1>8, <2>1, <2>2, KeptFiles
<1>11. Quiet(splits[c], data[c], hfile[c]) => ss = splits[c] /\ hf = hfile[c]
  BY <1>1, <1>3, <1>5, <1>a, QuietDump, Zenon
<1>12. Hinted(c)' = Hinted(c)
  BY <1>2 DEF Hinted
<1> HIDE DEF h, ss, hf
<1>13. \/ Kept(ss, data[c], hf, Hinted(c)') /\ (dirty'[c] => DOMAIN ss[Len(ss)].buf.items # {})
       \/ c < head /\ Quiet(ss, data[c], hf)
  BY <1>2, <1>3, <1>8, <1>10, <1>11, <1>12
<1>14. FilesOK(hf, data[c])
  BY <1>3, <1>10, <1>11
<1>15. splits'[c] = ss /\ \A x \in Chunks : Len(splits'[x]) \in Nat /\ Len(splits'[x]) >= Len(splits[x])
  <2>1. splits'[c] = ss /\ \A x \in Chunks : x # c => splits'[x] = splits[x]
    BY <1>0, <1>7 DEF HintsOK
  <2>2. \A x \in Chunks : Len(splits[x]) \in Nat
    BY <1>0 DEF HintsOK
  <2> QED BY <1>8, <2>1, <2>2
<1>16. FrameInv' /\ frame' \in [Dumpers -> Frames]
  <2> DEFINE f == [frame[g] EXCEPT !.at = "forget"]
  <2>1. f \in Frames /\ f.at = "forget" /\ f.chunk = c /\ f.j = j /\ f.l = frame[g].l
    BY <1>1, <1>c, <1>j DEF Frames
  <2>2. frame' = [frame EXCEPT ![g] = f]
    BY <1>0 DEF DumpFile, ProcsOK
  <2> HIDE DEF f
  <2>3. f.j \in 1 .. f.l /\ f.l <= Len(splits'[f.chunk]) /\ f.j < Len(splits'[f.chunk])
    BY <1>4, <1>8, <1>15, <2>1
  <2> QED BY <1>0, <1>15, <2>1, <2>2, <2>3, FramesStay
<1>17. /\ maxDumped' \in IDs /\ maxDumped'.chunk <= head /\ maxChunkID' \in Chunks /\ bg' \in Nat
       /\ dirty' \in [Chunks -> BOOLEAN] /\ \A x \in Chunks : x # c => dirty'[x] = dirty[x]
  BY <1>0, <1>1, <1>2 DEF IndexOK, IdInv, HintsOK, Running
<1>18. Len(ss) >= 1
  BY <1>3, <1>8
<1> QED BY <1>1, <1>2, <1>7, <1>8, <1>9, <1>13, <1>14, <1>16, <1>17, <1>18, ChangeChunk

LEMMA NextDropBuffer ==
    ASSUME Core, NEW g \in Dumpers, DropBuffer(g)
    PROVE  Core'
<1>0. DataOK /\ HintsOK /\ IndexOK /\ ProcsOK /\ IdInv /\ FrameInv
  BY DEF Core
<1>c. PICK c \in Chunks : c = frame[g].chunk
  BY <1>0, FrameFields
<1>j. PICK j \in Nat : j = frame[g].j
  BY <1>0, FrameFields
<1>1. frame[g] \in Frames /\ frame[g].at \in {"forget", "failed"} /\ Running
  BY <1>0, <1>c, <1>j, FrameFields, Dumping DEF DropBuffer
<1>2. UNCHANGED <<data, flushed, hfile, tfile, step, head, tree, treeID, maxChunkID, dirty, bg, writer>>
  BY DEF DropBuffer, index, disk, counters
<1>3. /\ splits[c] \in Seq(SplitSet) /\ Len(splits[c]) \in Nat \ {0} /\ hfile[c] \in [SplitIds -> HintSet]
      /\ FilesOK(hfile[c], data[c])
      /\ \/ /\ Kept(splits[c], data[c], hfile[c], Hinted(c))
            /\ dirty[c] => DOMAIN splits[c][Len(splits[c])].buf.items # {}
         \/ c < head /\ Quiet(splits[c], data[c], hfile[c])
  BY <1>1, ChunkFacts
<1>4. j \in 1 .. frame[g].l /\ frame[g].l <= Len(splits[c]) /\ j < Len(splits[c]) /\ frame[g].l \in Nat
  BY <1>0, <1>1, <1>c, <1>j, FrameFields DEF FrameInv
<1>5. j \in 1 .. Len(splits[c]) - 1 /\ j \in 1 .. Len(splits[c]) /\ j # Len(splits[c]) /\ Len(splits[c]) > 1
  BY <1>3, <1>4
<1> DEFINE ss == [splits[c] EXCEPT ![j].buf = None]
<1>7. splits' = [splits EXCEPT ![c] = ss]
  BY <1>0, <1>c, <1>j DEF DropBuffer, HintsOK
<1>8. ss \in Seq(SplitSet) /\ Len(ss) = Len(splits[c]) /\ ss[Len(splits[c])] = splits[c][Len(splits[c])]
  <2> DEFINE x == [splits[c][j] EXCEPT !.buf = None]
  <2>1. splits[c][j] \in SplitSet
    BY <1>3, <1>5, ElementOfSeq
  <2>2. x \in SplitSet
    BY <2>1, EmptyHints DEF SplitSet
  <2>3. ss = [splits[c] EXCEPT ![j] = x]
    OBVIOUS
  <2> HIDE DEF x, ss
  <2> QED BY <1>3, <1>5, <2>2, <2>3, SplitExcept
<1>9. hfile' = [hfile EXCEPT ![c] = hfile[c]]
  BY <1>0, <1>2 DEF HintsOK
<1>10. Kept(splits[c], data[c], hfile[c], Hinted(c)) => Kept(ss, data[c], hfile[c], Hinted(c))
  <2>1. Len(splits[c]) >= 1
    BY <1>3
  <2> HIDE DEF ss
  <2>2. SUFFICES ASSUME Kept(splits[c], data[c], hfile[c], Hinted(c))
                 PROVE  Kept([splits[c] EXCEPT ![j].buf = None], data[c], hfile[c], Hinted(c))
    BY DEF ss
  <2> QED BY <1>3, <1>5, <2>1, <2>2, KeptDrop
<1>11. Quiet(splits[c], data[c], hfile[c]) => Quiet(ss, data[c], hfile[c])
  BY <1>3, <1>5, QuietDrop, SMTT(40)
<1>12. Hinted(c)' = Hinted(c)
  BY <1>2 DEF Hinted
<1> HIDE DEF ss
<1>13. \/ Kept(ss, data[c], hfile[c], Hinted(c)') /\ (dirty'[c] => DOMAIN ss[Len(ss)].buf.items # {})
       \/ c < head /\ Quiet(ss, data[c], hfile[c])
  BY <1>2, <1>3, <1>8, <1>10, <1>11, <1>12
<1>15. splits'[c] = ss /\ \A x \in Chunks : Len(splits'[x]) \in Nat /\ Len(splits'[x]) >= Len(splits[x])
  <2>1. splits'[c] = ss /\ \A x \in Chunks : x # c => splits'[x] = splits[x]
    BY <1>0, <1>7 DEF HintsOK
  <2>2. \A x \in Chunks : Len(splits[x]) \in Nat
    BY <1>0 DEF HintsOK
  <2> QED BY <1>8, <2>1, <2>2
<1>16. FrameInv' /\ frame' \in [Dumpers -> Frames] /\ Running'
  <2>1. CASE j < frame[g].l
    <3> DEFINE f == [frame[g] EXCEPT !.at = "scan", !.j = j + 1]
    <3>a. j + 1 \in Nat
      OBVIOUS
    <3>1. f \in Frames /\ f.at = "scan" /\ f.chunk = c /\ f.j = j + 1 /\ f.l = frame[g].l
      BY <1>1, <1>c, <3>a DEF Frames
    <3>2. frame' = [frame EXCEPT ![g] = f] /\ proc' = proc
      BY <1>0, <1>j, <2>1 DEF DropBuffer, ProcsOK
    <3> HIDE DEF f
    <3>3. f.j \in 1 .. f.l /\ f.l <= Len(splits'[f.chunk])
      BY <1>4, <1>8, <1>15, <2>1, <3>1
    <3>4. Running'
      BY <1>1, <3>2 DEF Running
    <3> QED BY <1>0, <1>15, <3>1, <3>2, <3>3, <3>4, FramesStay
  <2>2. CASE ~(j < frame[g].l)
    <3>1. NextChunk(g)
      BY <1>j, <2>2 DEF DropBuffer
    <3>2. Running' /\ \E f \in Frames : frame' = [frame EXCEPT ![g] = f] /\ f.at \in {"idle", "enter"}
      BY <1>0, <1>1, <3>1, NextFrame
    <3> QED BY <1>0, <1>15, <3>2, FramesStay
  <2> QED BY <2>1, <2>2
<1>17. maxDumped' \in IDs /\ maxDumped'.chunk <= head
  <2>1. c <= head /\ c \in Nat
    BY <1>1, <1>5, NotBehindHead, Numbers
  <2>2. maxDumped \in IDs /\ maxDumped.chunk <= head
    BY <1>0, <1>1 DEF IndexOK, IdInv, Running
  <2>3. maxDumped' \in {maxDumped, Larger(maxDumped, HintID(c, j))}
    BY <1>c, <1>j DEF DropBuffer
  <2> QED BY <2>1, <2>2, <2>3, LargerIs
<1>18. /\ Len(ss) >= 1 /\ maxChunkID' \in Chunks /\ bg' \in Nat
       /\ dirty' \in [Chunks -> BOOLEAN] /\ \A x \in Chunks : x # c => dirty'[x] = dirty[x]
  BY <1>0, <1>2, <1>3, <1>8 DEF IndexOK, HintsOK
<1>19. hfile[c] \in [SplitIds -> HintSet] /\ FilesOK(hfile[c], data[c])
  BY <1>3
<1> QED BY <1>1, <1>2, <1>7, <1>8, <1>9, <1>13, <1>16, <1>17, <1>18, <1>19, ChangeChunk

LEMMA NextSetHint ==
    ASSUME Core, SetHint
    PROVE  Core'
<1>0. DataOK /\ HintsOK /\ IndexOK /\ ProcsOK /\ IdInv /\ FrameInv /\ WriterInv
  BY DEF Core
<1>1. Running /\ writer.at = "hint"
  BY DEF SetHint
<1>2. /\ UNCHANGED <<data, flushed, hfile, tfile, step, head, tree, treeID, maxDumped, bg, frame, proc>>
      /\ Running' /\ writer' = NoWriter
  BY <1>1 DEF SetHint, disk, index, counters, Running
<1>3. PICK c \in Chunks : c = head
  BY <1>0, <1>1 DEF WriterInv
<1>4. /\ splits[c] \in Seq(SplitSet) /\ Len(splits[c]) \in Nat \ {0} /\ hfile[c] \in [SplitIds -> HintSet]
      /\ data[c] \in Seq(Records) /\ Len(data[c]) \in Nat /\ Len(data[c]) <= DataFileMax
      /\ \/ Kept(splits[c], data[c], hfile[c], Hinted(c))
         \/ c < head /\ Quiet(splits[c], data[c], hfile[c])
  BY <1>1, ChunkFacts
<1>5. /\ writer.key \in Keys /\ Len(data[c]) >= 1 /\ writer.pos = Pos(c, Len(data[c])) /\ c \in Nat
      /\ data[c][Len(data[c])] = [key |-> writer.key, live |-> writer.live]
  BY <1>0, <1>1, <1>3, Numbers DEF WriterInv
<1>6. ChunkOf(writer.pos) = c /\ NumberOf(writer.pos) = Len(data[c])
  <2>1. Len(data[c]) \in 1 .. DataFileMax
    BY <1>4, <1>5, Numbers
  <2> QED BY <1>5, <2>1, Positions
<1> DEFINE m == Len(data[c]) - 1
           item == [n |-> Len(data[c]), live |-> writer.live]
           ss == SetItem(splits[c], writer.key, item)
<1>7. m \in Nat /\ m + 1 = Len(data[c]) /\ m + 1 <= Len(data[c])
  BY <1>4, <1>5
<1>8. Kept(splits[c], data[c], hfile[c], m)
  <2>1. ~(c < head)
    BY <1>3, <1>5
  <2>2. Hinted(c) = m
    BY <1>1, <1>3 DEF Hinted
  <2> QED BY <1>4, <2>1, <2>2
<1>9. data[c][m + 1].key = writer.key /\ [n |-> m + 1, live |-> data[c][m + 1].live] = item
  BY <1>5, <1>7
<1> HIDE DEF m, item
<1>10. /\ Kept(ss, data[c], hfile[c], m + 1) /\ ss \in Seq(SplitSet) /\ Len(ss) >= Len(splits[c])
       /\ DOMAIN ss[Len(ss)].buf.items # {}
  <2> DEFINE r == SetItem(splits[c], data[c][m + 1].key, [n |-> m + 1, live |-> data[c][m + 1].live])
  <2>1. Len(splits[c]) >= 1
    BY <1>4
  <2>2. /\ Kept(r, data[c], hfile[c], m + 1) /\ r \in Seq(SplitSet) /\ Len(r) >= Len(splits[c])
        /\ DOMAIN r[Len(r)].buf.items # {}
    BY <1>4, <1>7, <1>8, <2>1, KeptSet, ZenonT(40)
  <2>3. r = ss
    BY <1>9
  <2> HIDE DEF r, ss
  <2> QED BY <2>2, <2>3
<1>11. splits' = [splits EXCEPT ![c] = ss] /\ dirty' = [dirty EXCEPT ![c] = TRUE]
  BY <1>0, <1>6 DEF SetHint, item, HintsOK
<1> HIDE DEF ss
<1>12. FilesOK(hfile[c], data[c]) /\ Len(ss) >= 1 /\ Len(ss) \in Nat
  BY <1>1, <1>4, <1>10, ChunkFacts
<1>13. Hinted(c)' = m + 1
  BY <1>2, <1>7, IdleWriter DEF Hinted
<1>14. hfile' = [hfile EXCEPT ![c] = hfile[c]] /\ hfile[c] \in [SplitIds -> HintSet]
  BY <1>0, <1>2 DEF HintsOK
<1>15. maxDumped' \in IDs /\ maxDumped'.chunk <= head /\ bg' \in Nat /\ maxChunkID' \in Chunks
  <2>1. maxDumped' \in IDs /\ maxDumped'.chunk <= head /\ bg' \in Nat /\ maxChunkID \in Chunks
    BY <1>0, <1>1, <1>2 DEF IndexOK, IdInv, Running
  <2>2. maxChunkID \in Int /\ c \in Int
    BY <1>5, <2>1, Numbers
  <2>3. maxChunkID' \in {maxChunkID, c}
    BY <1>6, <2>2, MaxOfTwo DEF SetHint
  <2> QED BY <2>1, <2>3
<1>16. dirty' \in [Chunks -> BOOLEAN] /\ \A x \in Chunks : x # c => dirty'[x] = dirty[x]
  BY <1>0, <1>11 DEF HintsOK
<1>17. FrameInv' /\ frame' \in [Dumpers -> Frames]
  <2>1. \A x \in Chunks : Len(splits[x]) \in Nat
    BY <1>0 DEF HintsOK
  <2>2. splits'[c] = ss /\ \A x \in Chunks : x # c => splits'[x] = splits[x]
    BY <1>0, <1>11 DEF HintsOK
  <2>3. \A x \in Chunks : Len(splits'[x]) \in Nat /\ Len(splits'[x]) >= Len(splits[x])
    BY <1>10, <1>12, <2>1, <2>2
  <2> QED BY <1>0, <1>2, <2>3, FramesSame
<1>18. \/ Kept(ss, data[c], hfile[c], Hinted(c)') /\ (dirty'[c] => DOMAIN ss[Len(ss)].buf.items # {})
       \/ c < head /\ Quiet(ss, data[c], hfile[c])
  BY <1>10, <1>13
<1> QED BY <1>1, <1>2, <1>3, <1>10, <1>11, <1>12, <1>14, <1>15, <1>16, <1>17, <1>18, ChangeChunk

LEMMA NextAppendRecord ==
    ASSUME Core, NEW k \in Keys, NEW live \in BOOLEAN, AppendRecord(k, live)
    PROVE  Core'
<1>0. DataOK /\ HintsOK /\ IndexOK /\ ProcsOK /\ IdInv /\ FrameInv /\ WriterInv /\ HeadInv
  BY DEF Core
<1>1. PICK c \in Chunks : c = IF head \in Chunks /\ Len(data[head]) = DataFileMax THEN head + 1 ELSE head
  BY DEF AppendRecord
<1> DEFINE rec == [key |-> k, live |-> live]
<1>2. /\ Running /\ writer.at = "idle" /\ head' = c
      /\ data' = [data EXCEPT ![c] = Append(data[c], rec)]
      /\ writer' = [at |-> "tree", key |-> k, live |-> live, pos |-> Pos(c, Len(data[c]) + 1)]
  BY <1>0, <1>1 DEF AppendRecord, DataOK
<1>3. /\ UNCHANGED <<flushed, hfile, tfile, proc, step, tree, treeID, splits, dirty, maxChunkID, maxDumped, bg, frame>>
      /\ Running'
  BY <1>2 DEF AppendRecord, index, hints, Running
<1>4. /\ splits[c] \in Seq(SplitSet) /\ Len(splits[c]) \in Nat \ {0} /\ hfile[c] \in [SplitIds -> HintSet]
      /\ data[c] \in Seq(Records) /\ Len(data[c]) \in Nat /\ Len(data[c]) <= DataFileMax
      /\ \/ /\ Kept(splits[c], data[c], hfile[c], Hinted(c))
            /\ dirty[c] => DOMAIN splits[c][Len(splits[c])].buf.items # {}
         \/ c < head /\ Quiet(splits[c], data[c], hfile[c])
  BY <1>2, ChunkFacts
<1>5. head \in Nat /\ c \in Nat /\ head <= c /\ DataFileMax \in Nat \ {0}
  BY <1>0, <1>1, Numbers DEF IndexOK
<1>6. Len(data[c]) < DataFileMax
  <2>1. CASE head \in Chunks /\ Len(data[head]) = DataFileMax
    <3>1. c > head
      BY <1>1, <1>5, <2>1
    <3>2. data[c] = << >>
      BY <1>0, <1>2, <3>1 DEF HeadInv, Running
    <3> QED BY <1>5, <3>2
  <2>2. CASE ~(head \in Chunks /\ Len(data[head]) = DataFileMax)
    <3>1. c = head
      BY <1>1, <2>2
    <3> QED BY <1>4, <1>5, <2>2, <3>1
  <2> QED BY <2>1, <2>2
<1> DEFINE d == Append(data[c], rec)
<1>7. /\ d \in Seq(Records) /\ Len(d) = Len(data[c]) + 1 /\ d[Len(d)] = rec
      /\ \A n \in 1 .. Len(data[c]) : d[n] = data[c][n]
  <2>1. rec \in Records
    BY DEF Records
  <2> HIDE DEF rec
  <2> QED BY <1>4, <2>1, AppendProperties
<1>8. data'[c] = d /\ \A x \in Chunks : x # c => data'[x] = data[x]
  BY <1>0, <1>2 DEF DataOK
<1> HIDE DEF d
<1>9. Kept(splits[c], d, hfile[c], Len(data[c])) /\ FilesOK(hfile[c], d)
  <2>1. Hinted(c) = Len(data[c]) /\ ~(c < head)
    BY <1>2, <1>5 DEF Hinted
  <2>2. Kept(splits[c], data[c], hfile[c], Len(data[c]))
    BY <1>4, <2>1
  <2>3. Kept(splits[c], d, hfile[c], Len(data[c]))
    BY <1>4, <1>7, <2>2, KeptPrefix, SMTT(40)
  <2>4. Len(data[c]) <= Len(d) /\ Len(splits[c]) >= 1
    BY <1>4, <1>7
  <2> QED BY <1>4, <1>7, <2>3, <2>4, KeptFiles
<1>10. DataOK'
  <2>1. data' \in [Chunks -> Seq(Records)]
    BY <1>0, <1>2, <1>7 DEF DataOK, d
  <2>2. ASSUME NEW x \in Chunks
        PROVE  Len(data'[x]) <= DataFileMax /\ flushed'[x] \in Nat /\ flushed'[x] <= Len(data'[x])
    <3>1. /\ flushed'[x] = flushed[x] /\ flushed[x] \in Nat /\ flushed[x] <= Len(data[x])
          /\ Len(data[x]) \in Nat /\ Len(data[x]) <= DataFileMax
      BY <1>0, <1>3 DEF DataOK
    <3>2. CASE x = c
      BY <1>4, <1>5, <1>6, <1>7, <1>8, <3>1, <3>2
    <3>3. CASE x # c
      BY <1>8, <3>1, <3>3
    <3> QED BY <3>2, <3>3
  <2>3. flushed' \in [Chunks -> Nat]
    BY <1>0, <1>3 DEF DataOK
  <2> QED BY <2>1, <2>2, <2>3 DEF DataOK
<1>11. HintsOK' /\ IndexOK'
  BY <1>0, <1>2, <1>3, <1>5, Numbers, SMTT(40) DEF HintsOK, IndexOK
<1>12. ProcsOK'
  <2>1. Len(data[c]) + 1 \in 1 .. DataFileMax
    BY <1>4, <1>5, <1>6
  <2>2. Pos(c, Len(data[c]) + 1) \in Nat
    BY <1>5, <2>1, Positions
  <2>3. writer' \in Writers
    BY <1>2, <2>2 DEF Writers
  <2> QED BY <1>0, <1>3, <2>3 DEF ProcsOK
<1>13. DownInv' /\ FrameInv'
  BY <1>0, <1>3 DEF DownInv, Running, FrameInv
<1>14. HeadInv'
  <2> SUFFICES ASSUME NEW x \in Chunks, x > c \/ (x = c /\ proc' = "opening") PROVE data'[x] = << >>
    BY <1>2 DEF HeadInv
  <2>1. x > c /\ x \in Nat
    BY <1>3, Numbers DEF Running
  <2>2. x > head /\ x # c
    BY <1>5, <2>1
  <2> QED BY <1>0, <1>2, <1>8, <2>2 DEF HeadInv, Running
<1>15. WriterInv'
  <2>1. writer'.key = k /\ writer'.live = live /\ writer'.pos = Pos(c, Len(data[c]) + 1)
    BY <1>2
  <2>2. Len(d) >= 1
    BY <1>4, <1>7
  <2> QED BY <1>2, <1>7, <1>8, <2>1, <2>2 DEF WriterInv
<1>16. IdInv'
  <2>1. treeID.chunk <= head /\ maxDumped.chunk <= head /\ treeID.chunk \in Nat /\ maxDumped.chunk \in Nat
    BY <1>0, <1>2 DEF IdInv, Running, IndexOK, IDs
  <2> QED BY <1>2, <1>3, <1>5, <2>1 DEF IdInv
<1>17. ASSUME NEW x \in Chunks PROVE ChunkInv(x)' /\ FilesOK(hfile'[x], data'[x])
  <2>1. ~Unopened(x) /\ ~Unopened(x)'
    BY <1>2, <1>3 DEF Unopened, Running
  <2>2. CASE x = c
    <3>1. Hinted(c)' = Len(data[c])
      BY <1>2, <1>4, <1>7, <1>8 DEF Hinted
    <3>2. dirty[c] => DOMAIN splits[c][Len(splits[c])].buf.items # {}
      BY <1>4, <1>5
    <3> QED BY <1>3, <1>8, <1>9, <2>1, <2>2, <3>1, <3>2 DEF ChunkInv
  <2>3. CASE x # c
    <3>1. Hinted(x)' = Hinted(x)
      BY <1>2, <1>8, <2>3 DEF Hinted
    <3>2. ChunkInv(x) /\ FilesOK(hfile[x], data[x])
      BY DEF Core
    <3>3. x < head => x < c
      BY <1>5, Numbers
    <3> QED BY <1>2, <1>3, <1>8, <2>1, <2>3, <3>1, <3>2, <3>3 DEF ChunkInv
  <2> QED BY <2>2, <2>3
<1> QED BY <1>10, <1>11, <1>12, <1>13, <1>14, <1>15, <1>16, <1>17 DEF Core

\* A data file that lost its end, if no hint file reaches beyond it.
LEMMA FilesPrefix ==
    ASSUME NEW hf \in [SplitIds -> HintSet], NEW d \in Seq(Records), FilesOK(hf, d),
           NEW m \in 0 .. Len(d), m > 0 => \A s \in SplitIds : ~(hf[s].end > m)
    PROVE  FilesOK(hf, SubSeq(d, 1, m))
<1> DEFINE e == SubSeq(d, 1, m)
<1>1. e \in Seq(Records) /\ Len(e) = m /\ \A n \in 1 .. m : e[n] = d[n]
  BY SubSeqProperties
<1>2. e # << >> => m > 0 /\ d # << >>
  <2>1. e # << >> => m # 0
    BY <1>1, EmptySeq
  <2>2. d = << >> => Len(d) = 0
    OBVIOUS
  <2>3. m \in Nat /\ Len(d) \in Nat /\ m <= Len(d)
    OBVIOUS
  <2> HIDE DEF e
  <2> QED BY <2>1, <2>2, <2>3
<1> HIDE DEF e
<1> SUFFICES ASSUME e # << >>, NEW n \in SplitIds, \A s \in 1 .. n : hf[s] # None
             PROVE  /\ Exact(hf[n], e, FileBegin(hf, n), hf[n].end)
                    /\ n <= hf[n].end /\ hf[n].end <= Len(e)
                    /\ \A i \in 0 .. n - 1 : FileBegin(hf, i + 1) \in Nat /\ FileBegin(hf, i + 1) < hf[n].end
  BY DEF FilesOK, e
<1>3. /\ Exact(hf[n], d, FileBegin(hf, n), hf[n].end)
      /\ n <= hf[n].end /\ hf[n].end <= Len(d)
      /\ \A i \in 0 .. n - 1 : FileBegin(hf, i + 1) \in Nat /\ FileBegin(hf, i + 1) < hf[n].end
  BY <1>2 DEF FilesOK
<1>4. hf[n].end \in Int /\ n \in Nat \ {0}
  BY HintShape, SplitNumbers
<1>5. hf[n].end <= m /\ m \in Nat
  BY <1>2, <1>4
<1>6. FileBegin(hf, n) \in Nat
  <2>1. n - 1 \in 0 .. n - 1 /\ n - 1 + 1 = n
    BY <1>4
  <2> QED BY <1>3, <2>1
<1> DEFINE lo == FileBegin(hf, n)
           hi == hf[n].end
<1> HIDE DEF lo, hi
<1>7. \A x \in lo + 1 .. hi : e[x] = d[x]
  <2>1. \A x \in lo + 1 .. hi : x \in 1 .. m
    BY <1>4, <1>5, <1>6 DEF lo, hi
  <2> QED BY <1>1, <2>1
<1>8. Exact(hf[n], d, lo, hi)
  BY <1>3 DEF lo, hi
<1>9. Exact(hf[n], e, lo, hi)
  BY <1>7, <1>8 DEF Exact
<1> QED BY <1>1, <1>3, <1>5, <1>9 DEF lo, hi

\* The end of a process, in whatever way, with hint files that tell of the data.
LEMMA NextDown ==
    ASSUME Core, Down, ~ahead', hfile' \in [Chunks -> [SplitIds -> HintSet]],
           \A c \in Chunks : FilesOK(hfile'[c], data[c])
    PROVE  Core'
<1>0. DataOK /\ HintsOK /\ IndexOK /\ ProcsOK
  BY DEF Core
<1>1. PICK f \in Survives :
        /\ proc' = "down" /\ step' = 0 /\ head' = 0
        /\ flushed' = f
        /\ data' = [c \in Chunks |-> SubSeq(data[c], 1, f[c])]
        /\ tree' = [k \in Keys |-> NoPos] /\ treeID' = NoTreeID
        /\ splits' = [c \in Chunks |-> <<NewSplit>>] /\ dirty' = [c \in Chunks |-> FALSE]
        /\ maxChunkID' = 0 /\ maxDumped' = NoTreeID /\ bg' = 0
        /\ frame' = [g \in Dumpers |-> Idle]
        /\ writer' = NoWriter
        /\ ahead' = \/ ahead
                    \/ \E c \in Chunks : f[c] > 0 /\ \E s \in SplitIds : hfile'[c][s].end > f[c]
                    \/ \E k \in Keys : LET p == tfile.tree[k]
                                       IN  p # NoPos /\ NumberOf(p) > f[ChunkOf(p)]
        /\ tfile' = tfile
  BY DEF Down
<1>2. \A c \in Chunks : f[c] \in Nat /\ f[c] <= DataFileMax /\ f[c] <= Len(data[c]) /\ f[c] \in 0 .. Len(data[c])
  <2>1. f \in [Chunks -> 0 .. DataFileMax] /\ \A c \in Chunks : f[c] <= Len(data[c])
    BY DEF Survives
  <2>2. \A c \in Chunks : Len(data[c]) \in Nat
    BY <1>0 DEF DataOK
  <2>3. \A c \in Chunks : f[c] \in Nat /\ f[c] <= DataFileMax
    BY <2>1, Numbers
  <2> QED BY <2>1, <2>2, <2>3
<1>3. f \in [Chunks -> Nat]
  BY <1>2 DEF Survives
<1>4. ASSUME NEW c \in Chunks
      PROVE  data'[c] \in Seq(Records) /\ Len(data'[c]) = f[c] /\ FilesOK(hfile'[c], data'[c])
  <2>1. data'[c] = SubSeq(data[c], 1, f[c]) /\ data[c] \in Seq(Records) /\ hfile'[c] \in [SplitIds -> HintSet]
    BY <1>0, <1>1 DEF DataOK
  <2>2. data'[c] \in Seq(Records) /\ Len(data'[c]) = f[c]
    BY <1>2, <2>1, SubSeqProperties
  <2>3. f[c] > 0 => \A s \in SplitIds : ~(hfile'[c][s].end > f[c])
    BY <1>1
  <2>4. FilesOK(hfile'[c], data[c])
    OBVIOUS
  <2> QED BY <1>2, <2>1, <2>2, <2>3, <2>4, FilesPrefix
<1>5. DataOK'
  BY <1>1, <1>2, <1>3, <1>4 DEF DataOK
<1>6. HintsOK'
  <2>1. <<NewSplit>> \in Seq(SplitSet) /\ Len(<<NewSplit>>) = 1
    BY SplitShape
  <2> QED BY <1>0, <1>1, <2>1 DEF HintsOK
<1>7. IndexOK'
  BY <1>0, <1>1, Numbers DEF IndexOK, NoTreeID, HintID, IDs, NoPos
<1>8. ProcsOK'
  BY <1>1, IdleFrame, IdleWriter DEF ProcsOK, Procs
<1>9. DownInv'
  <2>1. \A g \in Dumpers : frame'[g].at = "idle"
    BY <1>1, IdleFrame
  <2>2. \A c \in Chunks : ~dirty'[c] /\ flushed'[c] = Len(data'[c])
    BY <1>1, <1>4
  <2> QED BY <1>1, <2>1, <2>2, IdleWriter DEF DownInv
<1>10. HeadInv' /\ WriterInv' /\ IdInv'
  BY <1>1, IdleWriter DEF HeadInv, WriterInv, IdInv
<1>11. FrameInv'
  <2>1. \A g \in Dumpers : frame'[g].at = "idle"
    BY <1>1, IdleFrame
  <2> QED BY <2>1 DEF FrameInv
<1>12. \A c \in Chunks : ChunkInv(c)' /\ FilesOK(hfile'[c], data'[c])
  BY <1>1, <1>4 DEF ChunkInv, Unopened
<1> QED BY <1>5, <1>6, <1>7, <1>8, <1>9, <1>10, <1>11, <1>12 DEF Core

LEMMA QuietNew ==
    ASSUME NEW d, NEW hf
    PROVE  Quiet(<<NewSplit>>, d, hf)
<1>1. Len(<<NewSplit>>) = 1 /\ <<NewSplit>>[1] = NewSplit
  OBVIOUS
<1>2. \A j \in 1 .. 1 - 1 : FALSE
  OBVIOUS
<1> QED BY <1>1, <1>2, BlankNew DEF Quiet

\* The newest data file.
LEMMA MaxDataFacts ==
    ASSUME DataOK
    PROVE  /\ MaxData \in Int /\ MaxData >= -1 /\ MaxData + 1 \in Nat /\ MaxData + 1 <= NumChunks
           /\ \A c \in Chunks : flushed[c] > 0 => c <= MaxData
           /\ MaxData # -1 => MaxData \in Chunks /\ flushed[MaxData] > 0
<1> DEFINE S == {-1} \cup {c \in Chunks : flushed[c] > 0}
<1>1. S # {} /\ -1 \in S
  OBVIOUS
<1>2. \A c \in Chunks : c \in Nat /\ c < NumChunks
  BY Numbers
<1>3. S \subseteq -1 .. NumChunks
  <2>1. \A c \in Chunks : c \in -1 .. NumChunks
    BY <1>2, Numbers
  <2>2. -1 \in -1 .. NumChunks
    BY Numbers
  <2> QED BY <2>1, <2>2
<1> HIDE DEF S
<1>4. Max(S) \in S /\ \A y \in S : Max(S) >= y
  BY <1>1, <1>3, Numbers, MaxIsLargest
<1>5. MaxData = Max(S)
  BY DEF MaxData, S
<1>6. MaxData # -1 => MaxData \in Chunks /\ flushed[MaxData] > 0
  BY <1>4, <1>5 DEF S
<1>7. MaxData \in Int /\ MaxData >= -1 /\ MaxData + 1 \in Nat /\ MaxData + 1 <= NumChunks
  <2>1. CASE MaxData = -1
    BY <2>1, Numbers
  <2>2. CASE MaxData # -1
    <3>1. MaxData \in Nat /\ MaxData < NumChunks
      BY <1>2, <1>6, <2>2
    <3> QED BY <3>1, Numbers
  <2> QED BY <2>1, <2>2
<1>8. ASSUME NEW c \in Chunks, flushed[c] > 0 PROVE c <= MaxData
  <2>1. c \in S
    BY <1>8 DEF S
  <2> QED BY <1>2, <1>4, <1>5, <1>7, <2>1
<1> QED BY <1>6, <1>7, <1>8

LEMMA NextOpenTree ==
    ASSUME Core, OpenTree
    PROVE  Core'
<1>0. DataOK /\ HintsOK /\ IndexOK /\ ProcsOK /\ DownInv /\ WriterInv /\ FrameInv
  BY DEF Core
<1>1. /\ proc = "down" /\ proc' = "opening" /\ head' = MaxData + 1
      /\ tree' = tfile'.tree /\ maxDumped' = treeID' /\ step' = treeID'.chunk
      /\ UNCHANGED <<data, flushed, hfile, splits, dirty, maxChunkID, bg, frame, writer>>
  BY DEF OpenTree
<1>2. /\ MaxData \in Int /\ MaxData >= -1 /\ MaxData + 1 \in Nat /\ MaxData + 1 <= NumChunks
      /\ \A c \in Chunks : flushed[c] > 0 => c <= MaxData
  BY <1>0, MaxDataFacts
<1>3. /\ tfile' \in [id : [chunk : Int, split : Nat], tree : [Keys -> Nat]]
      /\ treeID' \in IDs /\ treeID'.chunk <= head'
  <2>1. CASE tfile.id.chunk >= 0 /\ tfile.id.chunk <= MaxData
    <3>1. tfile' = tfile /\ treeID' = tfile.id
      BY <2>1 DEF OpenTree
    <3>2. tfile.id \in [chunk : Int, split : Nat] /\ tfile.id.chunk \in Int
      BY <1>0 DEF IndexOK
    <3>3. tfile.id.chunk \in Nat /\ tfile.id.chunk <= MaxData + 1
      BY <1>2, <2>1, <3>2
    <3>4. tfile.id \in IDs
      BY <3>2, <3>3 DEF IDs
    <3> QED BY <1>0, <1>1, <3>1, <3>3, <3>4 DEF IndexOK
  <2>2. CASE ~(tfile.id.chunk >= 0 /\ tfile.id.chunk <= MaxData)
    <3>1. tfile' = NoTree /\ treeID' = NoTreeID
      BY <2>2 DEF OpenTree
    <3>2. NoTreeID \in IDs /\ NoTreeID.chunk = 0
      BY DEF NoTreeID, HintID, IDs
    <3> QED BY <1>1, <1>2, <3>1, <3>2, NoTreeType
  <2> QED BY <2>1, <2>2
<1>4. tree' \in [Keys -> Nat] /\ step' \in Nat /\ treeID'.chunk \in Nat
  BY <1>1, <1>3 DEF IDs
<1>5. DataOK' /\ HintsOK'
  BY <1>0, <1>1 DEF DataOK, HintsOK
<1>6. IndexOK'
  BY <1>0, <1>1, <1>2, <1>3, <1>4 DEF IndexOK
<1>7. ProcsOK' /\ DownInv' /\ FrameInv'
  BY <1>0, <1>1 DEF ProcsOK, Procs, DownInv, FrameInv
<1>8. WriterInv'
  BY <1>0, <1>1 DEF WriterInv, DownInv
<1>9. HeadInv'
  <2> SUFFICES ASSUME NEW c \in Chunks, c > head' \/ c = head' PROVE data'[c] = << >>
    BY DEF HeadInv
  <2>1. c \in Nat /\ ~(c <= MaxData)
    BY <1>1, <1>2, Numbers
  <2>2. flushed[c] = Len(data[c]) /\ flushed[c] \in Nat /\ data[c] \in Seq(Records)
    BY <1>0, <1>1 DEF DownInv, DataOK
  <2>3. Len(data[c]) = 0
    BY <1>2, <2>1, <2>2
  <2> QED BY <1>1, <2>2, <2>3, EmptySeq
<1>10. IdInv'
  BY <1>1, <1>3 DEF IdInv
<1>11. ASSUME NEW c \in Chunks PROVE ChunkInv(c)' /\ FilesOK(hfile'[c], data'[c])
  <2>1. splits[c] = <<NewSplit>> /\ FilesOK(hfile[c], data[c])
    BY <1>1 DEF Core, ChunkInv, Unopened
  <2>2. CASE c >= step'
    BY <1>1, <2>1, <2>2 DEF ChunkInv, Unopened
  <2>3. CASE ~(c >= step')
    <3>1. c < head'
      BY <1>1, <1>2, <1>3, <1>4, <2>3, Numbers
    <3> QED BY <1>1, <2>1, <2>3, <3>1, QuietNew DEF ChunkInv, Unopened
  <2> QED BY <2>2, <2>3
<1> QED BY <1>5, <1>6, <1>7, <1>8, <1>9, <1>10, <1>11 DEF Core

LEMMA NextOpenDone ==
    ASSUME Core, OpenDone
    PROVE  Core'
<1>0. DataOK /\ HintsOK /\ IndexOK /\ ProcsOK /\ DownInv /\ WriterInv /\ FrameInv /\ IdInv /\ HeadInv
  BY DEF Core
<1>1. /\ proc = "opening" /\ step = NumChunks /\ proc' = "up"
      /\ UNCHANGED <<data, flushed, hfile, step, head, tree, splits, dirty, maxChunkID, maxDumped, bg, frame, writer>>
      /\ treeID' \in {treeID, maxDumped} /\ tfile' \in {tfile, [id |-> maxDumped, tree |-> tree]}
  BY DEF OpenDone, hints
<1>2. DataOK' /\ HintsOK'
  BY <1>0, <1>1 DEF DataOK, HintsOK
<1>3. [id |-> maxDumped, tree |-> tree] \in [id : [chunk : Int, split : Nat], tree : [Keys -> Nat]]
  BY <1>0 DEF IndexOK, IDs
<1>4. IndexOK'
  BY <1>0, <1>1, <1>3 DEF IndexOK
<1>5. ProcsOK' /\ DownInv' /\ FrameInv' /\ WriterInv'
  BY <1>0, <1>1 DEF ProcsOK, Procs, DownInv, FrameInv, WriterInv
<1>6. HeadInv' /\ IdInv'
  BY <1>0, <1>1 DEF HeadInv, IdInv
<1>7. ASSUME NEW c \in Chunks PROVE ChunkInv(c)' /\ FilesOK(hfile'[c], data'[c])
  <2>1. ChunkInv(c) /\ FilesOK(hfile[c], data[c])
    BY DEF Core
  <2>2. ~Unopened(c) /\ ~Unopened(c)'
    BY <1>1, Numbers DEF Unopened
  <2>3. Hinted(c)' = Hinted(c)
    BY <1>1 DEF Hinted
  <2> QED BY <1>1, <2>1, <2>2, <2>3 DEF ChunkInv
<1> QED BY <1>2, <1>4, <1>5, <1>6, <1>7 DEF Core

\* What checkHintWithData does to a chunk.
LEMMA CheckedChunk ==
    ASSUME Core, NEW c \in Chunks, CheckHint(c)
    PROVE  LET q == Checks(splits[c], hfile[c], data[c])
               hf == FilesAfter(splits[c], hfile[c], data[c])
           IN  /\ splits' = [splits EXCEPT ![c] = q] /\ hfile' = [hfile EXCEPT ![c] = hf]
               /\ CheckedSplits(c) = q /\ q \in Seq(SplitSet) /\ hf \in [SplitIds -> HintSet]
               /\ Len(q) \in Nat \ {0} /\ Len(q) >= Len(splits[c])
               /\ maxChunkID' \in Chunks
<1> DEFINE q == Checks(splits[c], hfile[c], data[c])
           hf == FilesAfter(splits[c], hfile[c], data[c])
<1>0. DataOK /\ HintsOK /\ IndexOK /\ FilesOK(hfile[c], data[c])
  BY DEF Core
<1>1. /\ splits[c] \in Seq(SplitSet) /\ Len(splits[c]) >= 1 /\ Len(splits[c]) \in Nat
      /\ hfile[c] \in [SplitIds -> HintSet] /\ data[c] \in Seq(Records)
  BY <1>0 DEF DataOK, HintsOK
<1>2. /\ ValidPaths(c) = Valid(hfile[c], data[c])
      /\ LoadHints(c) = Loads(splits[c], hfile[c], data[c])
      /\ CheckedSplits(c) = q
  BY CheckDefs
<1>3. q \in Seq(SplitSet) /\ Len(q) >= Len(splits[c]) + Valid(hfile[c], data[c]) /\ hf \in [SplitIds -> HintSet]
  BY <1>0, <1>1, CheckShape
<1>4. Valid(hfile[c], data[c]) \in Nat
  BY ValidFacts
<1>5. splits' = [splits EXCEPT ![c] = q]
  BY <1>2 DEF CheckHint
<1>6. hfile' = [hfile EXCEPT ![c] = hf]
  BY <1>2 DEF CheckHint, RebuiltFiles, FilesAfter
<1>7. maxChunkID' \in Chunks
  <2>1. maxChunkID \in Chunks /\ maxChunkID \in Int /\ c \in Int
    BY <1>0, Numbers DEF IndexOK
  <2> QED BY <2>1, MaxOfTwo DEF CheckHint
<1> HIDE DEF q, hf
<1>8. Len(q) \in Nat \ {0} /\ Len(q) >= Len(splits[c])
  BY <1>1, <1>3, <1>4
<1> QED BY <1>2, <1>3, <1>5, <1>6, <1>7, <1>8 DEF q, hf

LEMMA NextCheckBehind ==
    ASSUME Core, CheckBehind
    PROVE  Core'
<1>0. DataOK /\ HintsOK /\ IndexOK /\ ProcsOK /\ FrameInv /\ IdInv
  BY DEF Core
<1>1. Running /\ bg < treeID.chunk /\ CheckHint(bg) /\ bg' = bg + 1
  BY DEF CheckBehind
<1>2. /\ UNCHANGED <<data, flushed, tfile, proc, step, head, tree, treeID, dirty, frame, writer>>
      /\ Running'
  BY <1>1 DEF CheckBehind, index, Running
<1>3. bg \in Nat /\ bg < head /\ bg \in Chunks
  <2>1. /\ bg \in Nat /\ treeID.chunk \in Nat /\ head \in Nat /\ head <= NumChunks /\ treeID.chunk <= head
        /\ NumChunks \in Nat
    BY <1>0, <1>1, Numbers DEF IndexOK, IDs, IdInv, Running
  <2>2. bg < head /\ bg < NumChunks
    BY <1>1, <2>1
  <2> QED BY <2>1, <2>2, Numbers
<1>4. PICK c \in Chunks : c = bg
  BY <1>3
<1> DEFINE q == Checks(splits[c], hfile[c], data[c])
           hf == FilesAfter(splits[c], hfile[c], data[c])
<1>5. /\ splits' = [splits EXCEPT ![c] = q] /\ hfile' = [hfile EXCEPT ![c] = hf]
      /\ CheckedSplits(c) = q /\ q \in Seq(SplitSet) /\ hf \in [SplitIds -> HintSet]
      /\ Len(q) \in Nat \ {0} /\ Len(q) >= Len(splits[c])
      /\ maxChunkID' \in Chunks
  BY <1>1, <1>4, CheckedChunk
<1>6. /\ splits[c] \in Seq(SplitSet) /\ Len(splits[c]) \in Nat \ {0} /\ hfile[c] \in [SplitIds -> HintSet]
      /\ data[c] \in Seq(Records) /\ FilesOK(hfile[c], data[c])
      /\ \/ Kept(splits[c], data[c], hfile[c], Hinted(c))
         \/ c < head /\ Quiet(splits[c], data[c], hfile[c])
  BY <1>1, ChunkFacts
<1>7. Hinted(c) = Len(data[c])
  BY <1>0, <1>3, <1>4 DEF Hinted, IndexOK
<1>8. Quiet(q, data[c], hf) /\ FilesOK(hf, data[c])
  <2>1. Len(splits[c]) >= 1
    BY <1>6
  <2>2. Kept(splits[c], data[c], hfile[c], Len(data[c])) \/ Quiet(splits[c], data[c], hfile[c])
    BY <1>6, <1>7
  <2> QED BY <1>6, <2>1, <2>2, CheckAgain
<1> HIDE DEF q, hf
<1>9. FrameInv' /\ frame' \in [Dumpers -> Frames]
  <2>1. \A x \in Chunks : Len(splits[x]) \in Nat
    BY <1>0 DEF HintsOK
  <2>2. splits'[c] = q /\ \A x \in Chunks : x # c => splits'[x] = splits[x]
    BY <1>0, <1>5 DEF HintsOK
  <2>3. \A x \in Chunks : Len(splits'[x]) \in Nat /\ Len(splits'[x]) >= Len(splits[x])
    BY <1>5, <2>1, <2>2
  <2> QED BY <1>0, <1>2, <2>3, FramesSame
<1>10. maxDumped' \in IDs /\ maxDumped'.chunk <= head
  <2>1. maxDumped \in IDs /\ maxDumped.chunk <= head /\ c \in Nat /\ c <= head
    BY <1>0, <1>1, <1>3, <1>4 DEF IndexOK, IdInv, Running
  <2>2. Len(q) - 1 \in Nat
    BY <1>5
  <2>3. maxDumped' \in {maxDumped, Larger(maxDumped, HintID(c, Len(q) - 1))}
    BY <1>4, <1>5 DEF CheckBehind
  <2> DEFINE id == Larger(maxDumped, HintID(c, Len(q) - 1))
  <2>4. id \in IDs /\ id.chunk \in {maxDumped.chunk, c}
    BY <2>1, <2>2, LargerIs
  <2> HIDE DEF id
  <2> QED BY <2>1, <2>3, <2>4 DEF id
<1>11. /\ bg' \in Nat /\ Len(q) >= 1 /\ c < head
       /\ dirty' \in [Chunks -> BOOLEAN] /\ \A x \in Chunks : x # c => dirty'[x] = dirty[x]
  BY <1>0, <1>1, <1>2, <1>3, <1>4, <1>5 DEF HintsOK
<1>12. \/ Kept(q, data[c], hf, Hinted(c)') /\ (dirty'[c] => DOMAIN q[Len(q)].buf.items # {})
       \/ c < head /\ Quiet(q, data[c], hf)
  BY <1>8, <1>11
<1> QED BY <1>1, <1>2, <1>5, <1>8, <1>9, <1>10, <1>11, <1>12, ChangeChunk

\* The tree after the hints of a chunk.
LEMMA UpdateTreeType ==
    ASSUME NEW c \in Nat, NEW q \in Seq(SplitSet), NEW num \in 0 .. Len(q), tree \in [Keys -> Nat]
    PROVE  UpdateTree(c, [j \in 1 .. num |-> q[j].file]) \in [Keys -> Nat]
<1> DEFINE files == [j \in 1 .. num |-> q[j].file]
<1> SUFFICES ASSUME NEW k \in Keys PROVE UpdateTree(c, files)[k] \in Nat
  BY ZenonT(40) DEF UpdateTree
<1> DEFINE having == {j \in DOMAIN files : k \in DOMAIN files[j].items}
           item == files[Max(having)].items[k]
<1>1. UpdateTree(c, files)[k] = IF having = {} THEN tree[k] ELSE IF item.live THEN Pos(c, item.n) ELSE NoPos
  BY ZenonT(40) DEF UpdateTree
<1>2. CASE having = {}
  BY <1>1, <1>2
<1>3. CASE having # {}
  <2>1. having \subseteq 1 .. num /\ num \in Nat /\ \A j \in 1 .. num : files[j] \in HintSet
    <3>1. DOMAIN files = 1 .. num /\ \A j \in 1 .. num : j \in 1 .. Len(q)
      OBVIOUS
    <3>2. \A j \in 1 .. num : q[j] \in SplitSet
      BY <3>1, ElementOfSeq
    <3> QED BY <3>1, <3>2, SplitShape
  <2> HIDE DEF files
  <2>2. having \subseteq -1 .. num
    BY <2>1
  <2>3. Max(having) \in having
    <3> HIDE DEF having
    <3> QED BY <1>3, <2>1, <2>2, MaxIsLargest
  <2>4. item \in HintItems
    <3>1. files[Max(having)] \in HintSet /\ k \in DOMAIN files[Max(having)].items
      BY <2>1, <2>3
    <3> HIDE DEF having
    <3> QED BY <3>1, HintShape
  <2> HIDE DEF item
  <2>5. item.n \in Nat
    BY <2>4 DEF HintItems
  <2>6. Pos(c, item.n) \in Nat /\ NoPos \in Nat
    BY <2>5, Numbers DEF Pos, NoPos
  <2> QED BY <1>1, <1>3, <2>6
<1> QED BY <1>2, <1>3, SMTT(40)

LEMMA NextOpenChunk ==
    ASSUME Core, OpenChunk
    PROVE  Core'
<1>0. DataOK /\ HintsOK /\ IndexOK /\ ProcsOK /\ DownInv /\ WriterInv /\ FrameInv /\ IdInv /\ HeadInv
  BY DEF Core
<1>1. PICK c \in Chunks : c = step /\ c \in Nat
  BY <1>0 DEF OpenChunk, IndexOK
<1>2. /\ proc = "opening" /\ CheckHint(c) /\ step' = c + 1 /\ proc' = proc
      /\ UNCHANGED <<data, flushed, tfile, head, treeID, dirty, bg, frame, writer>>
  BY <1>1 DEF OpenChunk
<1>3. splits[c] = <<NewSplit>> /\ FilesOK(hfile[c], data[c])
  BY <1>1, <1>2 DEF Core, ChunkInv, Unopened
<1> DEFINE q == Checks(splits[c], hfile[c], data[c])
           hf == FilesAfter(splits[c], hfile[c], data[c])
<1>4. /\ splits' = [splits EXCEPT ![c] = q] /\ hfile' = [hfile EXCEPT ![c] = hf]
      /\ CheckedSplits(c) = q /\ q \in Seq(SplitSet) /\ hf \in [SplitIds -> HintSet]
      /\ Len(q) \in Nat \ {0} /\ Len(q) >= Len(splits[c])
      /\ maxChunkID' \in Chunks
  BY <1>2, CheckedChunk
<1>5. hfile[c] \in [SplitIds -> HintSet] /\ data[c] \in Seq(Records) /\ Len(data[c]) \in Nat /\ splits[c] \in Seq(SplitSet)
  BY <1>0 DEF DataOK, HintsOK
<1>6. Kept(q, data[c], hf, Len(data[c]))
  <2>1. Len(splits[c]) = 1 /\ Blank(splits[c][1])
    BY <1>3, BlankNew
  <2> QED BY <1>3, <1>5, <2>1, CheckFresh
<1>7. FilesOK(hf, data[c])
  <2>1. Len(q) >= 1
    BY <1>4
  <2> HIDE DEF q, hf
  <2> QED BY <1>4, <1>5, <1>6, <2>1, KeptFiles
<1> HIDE DEF q, hf
<1> DEFINE num == Len(q) - 1
<1>8. num \in Nat /\ num \in 0 .. Len(q) - 1 /\ num \in 0 .. Len(q)
  BY <1>4
<1>9. data[c] # << >> => c < head
  BY <1>0, <1>1, <1>2 DEF HeadInv, IndexOK
<1>10. num > 0 => data[c] # << >>
  <2> SUFFICES ASSUME num > 0, data[c] = << >> PROVE FALSE
    OBVIOUS
  <2>1. Len(data[c]) = 0
    OBVIOUS
  <2>2. PICK b : Bounds(q, data[c], b, Len(data[c]))
    BY <1>6 DEF Kept
  <2>3. num <= Len(data[c])
    BY <1>4, <1>8, <2>2, BoundsFacts
  <2> QED BY <1>8, <2>1, <2>3
<1>11. maxDumped' \in IDs /\ maxDumped'.chunk <= head /\ tree' \in [Keys -> Nat]
  <2> DEFINE dumped == IF DataSize(c) < Len(data[c]) THEN Larger(maxDumped, HintID(c, num)) ELSE maxDumped
  <2>1. maxDumped \in IDs /\ maxDumped.chunk <= head /\ tree \in [Keys -> Nat] /\ head \in Nat
    BY <1>0, <1>2 DEF IndexOK, IdInv
  <2>2. dumped \in IDs /\ dumped.chunk <= head
    <3>1. DataSize(c) < Len(data[c]) => c < head
      <4> SUFFICES ASSUME DataSize(c) < Len(data[c]), data[c] = << >> PROVE FALSE
        BY <1>9
      <4>1. DataSize(c) = Size(hfile[c], data[c])
        BY CheckDefs
      <4>2. Size(hfile[c], data[c]) \in 0 .. Len(data[c])
        BY <1>3, <1>5, SizeFacts
      <4>3. Len(data[c]) = 0
        OBVIOUS
      <4> QED BY <4>1, <4>2, <4>3
    <3> HIDE DEF num
    <3>2. Larger(maxDumped, HintID(c, num)) \in IDs /\ Larger(maxDumped, HintID(c, num)).chunk \in {maxDumped.chunk, c}
      BY <1>1, <1>8, <2>1, LargerIs
    <3> QED BY <1>1, <2>1, <3>1, <3>2
  <2>3. Behind(c) \in Nat
    BY <1>0 DEF Behind, IndexOK, IDs
  <2>4. CASE Behind(c) >= num
    <3>1. tree' = tree /\ maxDumped' = dumped
      BY <1>1, <1>4, <2>4 DEF OpenChunk
    <3> QED BY <2>1, <2>2, <3>1
  <2>5. CASE ~(Behind(c) >= num)
    <3>1. tree' = UpdateTree(c, [j \in 1 .. num |-> q[j].file]) /\ maxDumped' = HintID(c, Behind(c) + num)
      BY <1>1, <1>4, <2>5 DEF OpenChunk
    <3>2. num > 0
      BY <1>8, <2>3, <2>5
    <3>3. c <= head
      BY <1>1, <1>9, <1>10, <2>1, <3>2
    <3>4. tree' \in [Keys -> Nat]
      BY <1>1, <1>4, <1>8, <2>1, <3>1, UpdateTreeType
    <3>5. Behind(c) + num \in Nat
      BY <1>8, <2>3
    <3> HIDE DEF num
    <3>6. HintID(c, Behind(c) + num) \in IDs /\ HintID(c, Behind(c) + num).chunk = c
      BY <1>1, <3>5 DEF HintID, IDs
    <3> QED BY <3>1, <3>3, <3>4, <3>6
  <2> QED BY <2>4, <2>5
<1>12. splits'[c] = q /\ hfile'[c] = hf /\ \A x \in Chunks : x # c => splits'[x] = splits[x] /\ hfile'[x] = hfile[x]
  BY <1>0, <1>4 DEF HintsOK
<1>13. DataOK' /\ IndexOK'
  BY <1>0, <1>1, <1>2, <1>4, <1>11 DEF DataOK, IndexOK
<1>14. HintsOK'
  BY <1>0, <1>2, <1>4, <1>12 DEF HintsOK
<1>15. ProcsOK' /\ DownInv' /\ WriterInv' /\ HeadInv'
  BY <1>0, <1>2 DEF ProcsOK, DownInv, WriterInv, HeadInv
<1>16. FrameInv'
  BY <1>0, <1>2 DEF FrameInv, DownInv
<1>17. IdInv'
  BY <1>0, <1>2, <1>11 DEF IdInv
<1>18. ASSUME NEW x \in Chunks PROVE ChunkInv(x)' /\ FilesOK(hfile'[x], data'[x])
  <2>1. writer.at = "idle" /\ ~dirty[x] /\ x \in Nat
    BY <1>0, <1>2, Numbers DEF DownInv
  <2>2. Hinted(x)' = Len(data[x]) /\ Hinted(x) = Len(data[x])
    BY <1>2, <2>1 DEF Hinted
  <2>3. CASE x = c
    <3>1. ~Unopened(x)'
      BY <1>1, <1>2, <2>1, <2>3 DEF Unopened
    <3> QED BY <1>2, <1>6, <1>7, <1>12, <2>1, <2>2, <2>3, <3>1 DEF ChunkInv
  <2>4. CASE x # c
    <3>1. Unopened(x)' <=> Unopened(x)
      BY <1>1, <1>2, <2>1, <2>4 DEF Unopened
    <3>2. ChunkInv(x) /\ FilesOK(hfile[x], data[x])
      BY DEF Core
    <3> QED BY <1>2, <1>12, <2>2, <2>4, <3>1, <3>2 DEF ChunkInv
  <2> QED BY <2>3, <2>4
<1> QED BY <1>13, <1>14, <1>15, <1>16, <1>17, <1>18 DEF Core

\* The splits of a chunk before open or its goroutine looks at it, and what its
\* hint files are after that.
LEMMA Unchecked ==
    ASSUME Core, NEW c \in Chunks, (proc = "opening" /\ c = step) \/ (Running /\ c = bg /\ bg < treeID.chunk)
    PROVE  FilesOK(FilesAfter(splits[c], hfile[c], data[c]), data[c])
<1>0. DataOK /\ HintsOK /\ IndexOK /\ IdInv
  BY DEF Core
<1> DEFINE q == Checks(splits[c], hfile[c], data[c])
           hf == FilesAfter(splits[c], hfile[c], data[c])
<1>1. /\ splits[c] \in Seq(SplitSet) /\ Len(splits[c]) >= 1 /\ Len(splits[c]) \in Nat
      /\ hfile[c] \in [SplitIds -> HintSet] /\ data[c] \in Seq(Records) /\ FilesOK(hfile[c], data[c])
  BY <1>0 DEF DataOK, HintsOK, Core
<1>2. CASE proc = "opening" /\ c = step
  <2>1. splits[c] = <<NewSplit>>
    BY <1>2, Numbers DEF Core, ChunkInv, Unopened
  <2>2. Len(splits[c]) = 1 /\ Blank(splits[c][1])
    BY <2>1, BlankNew
  <2>3. Kept(q, data[c], hf, Len(data[c]))
    BY <1>1, <2>2, CheckFresh
  <2>4. q \in Seq(SplitSet) /\ Len(q) >= Len(splits[c]) + Valid(hfile[c], data[c]) /\ hf \in [SplitIds -> HintSet]
    BY <1>1, CheckShape
  <2>5. Valid(hfile[c], data[c]) \in Nat
    BY ValidFacts
  <2> HIDE DEF q, hf
  <2>6. Len(q) >= 1
    BY <1>1, <2>4, <2>5
  <2>7. FilesOK(hf, data[c])
    BY <1>1, <2>3, <2>4, <2>6, KeptFiles
  <2> QED BY <2>7 DEF hf
<1>3. CASE Running /\ c = bg /\ bg < treeID.chunk
  <2>1. c < head
    <3>1. bg \in Nat /\ treeID.chunk \in Nat /\ head \in Nat /\ treeID.chunk <= head
      BY <1>0, <1>3 DEF IndexOK, IDs, IdInv, Running
    <3> QED BY <1>3, <3>1
  <2>2. Hinted(c) = Len(data[c])
    BY <1>0, <2>1, Numbers DEF Hinted, IndexOK
  <2>3. Kept(splits[c], data[c], hfile[c], Len(data[c])) \/ Quiet(splits[c], data[c], hfile[c])
    BY <1>3, <2>2, ChunkFacts
  <2>4. Quiet(q, data[c], hf) /\ FilesOK(hf, data[c])
    BY <1>1, <2>3, CheckAgain
  <2> QED BY <2>4
<1> QED BY <1>2, <1>3

\* Files that are missing say nothing.
LEMMA FilesFewer ==
    ASSUME NEW hf \in [SplitIds -> HintSet], NEW d, FilesOK(hf, d),
           NEW h2 \in [SplitIds -> HintSet], \A s \in SplitIds : h2[s] = hf[s] \/ h2[s] = None
    PROVE  FilesOK(h2, d)
<1> SUFFICES ASSUME d # << >>, NEW n \in SplitIds, \A s \in 1 .. n : h2[s] # None
             PROVE  /\ Exact(h2[n], d, FileBegin(h2, n), h2[n].end)
                    /\ n <= h2[n].end /\ h2[n].end <= Len(d)
                    /\ \A i \in 0 .. n - 1 : FileBegin(h2, i + 1) \in Nat /\ FileBegin(h2, i + 1) < h2[n].end
  BY DEF FilesOK
<1>1. n \in Nat \ {0} /\ \A s \in 1 .. n : s \in SplitIds
  BY SplitNumbers
<1>2. \A s \in 1 .. n : h2[s] = hf[s] /\ hf[s] # None
  BY <1>1
<1>3. \A i \in 0 .. n - 1 : FileBegin(h2, i + 1) = FileBegin(hf, i + 1)
  <2> SUFFICES ASSUME NEW i \in 0 .. n - 1 PROVE FileBegin(h2, i + 1) = FileBegin(hf, i + 1)
    OBVIOUS
  <2>1. i + 1 # 1 => (i + 1) - 1 \in 1 .. n
    BY <1>1
  <2> QED BY <1>2, <2>1 DEF FileBegin
<1>4. n \in 1 .. n /\ n - 1 \in 0 .. n - 1 /\ (n - 1) + 1 = n
  BY <1>1
<1>5. h2[n] = hf[n] /\ FileBegin(h2, n) = FileBegin(hf, n)
  BY <1>2, <1>3, <1>4
<1>6. /\ Exact(hf[n], d, FileBegin(hf, n), hf[n].end)
      /\ n <= hf[n].end /\ hf[n].end <= Len(d)
      /\ \A i \in 0 .. n - 1 : FileBegin(hf, i + 1) \in Nat /\ FileBegin(hf, i + 1) < hf[n].end
  BY <1>2 DEF FilesOK
<1> QED BY <1>3, <1>5, <1>6

LEMMA SameFiles ==
    ASSUME Core, hfile' = hfile
    PROVE  hfile' \in [Chunks -> [SplitIds -> HintSet]] /\ \A c \in Chunks : FilesOK(hfile'[c], data[c])
BY DEF Core, HintsOK

\* The hint files of a process that ended while it built them: those that are there
\* tell of the data, and those there were are there.
LEMMA BuildDiesFiles ==
    ASSUME Core, NEW c \in Chunks, BuildDies(c)
    PROVE  /\ hfile' \in [Chunks -> [SplitIds -> HintSet]]
           /\ \A x \in Chunks : FilesOK(hfile'[x], data[x]) /\ (x # c => hfile'[x] = hfile[x])
           /\ \A s \in 1 .. Valid(hfile[c], data[c]) : hfile'[c][s] = hfile[c][s]
           /\ data[c] # << >>
<1>0. DataOK /\ HintsOK
  BY DEF Core
<1> DEFINE hf == FilesAfter(splits[c], hfile[c], data[c])
<1>1. PICK missing \in SUBSET {s \in SplitIds : s > ValidPaths(c)} :
          hfile' = [hfile EXCEPT ![c] = [s \in SplitIds |-> IF s \in missing THEN None ELSE RebuiltFiles(c)[s]]]
  BY DEF BuildDies
<1>2. RebuiltFiles(c) = hf /\ ValidPaths(c) = Valid(hfile[c], data[c])
  BY CheckDefs DEF RebuiltFiles, FilesAfter
<1>3. FilesOK(hf, data[c])
  BY Unchecked DEF BuildDies
<1>4. /\ splits[c] \in Seq(SplitSet) /\ Len(splits[c]) >= 1 /\ hfile[c] \in [SplitIds -> HintSet]
      /\ data[c] \in Seq(Records) /\ FilesOK(hfile[c], data[c])
  BY <1>0 DEF DataOK, HintsOK, Core
<1>5. hf \in [SplitIds -> HintSet]
  BY <1>4, CheckShape
<1>6. PICK h2 : h2 = [s \in SplitIds |-> IF s \in missing THEN None ELSE hf[s]]
  OBVIOUS
<1>7. \A s \in 1 .. Valid(hfile[c], data[c]) : hf[s] = hfile[c][s] /\ s \in SplitIds /\ s \notin missing
  <2> SUFFICES ASSUME NEW s \in 1 .. Valid(hfile[c], data[c])
               PROVE  hf[s] = hfile[c][s] /\ s \in SplitIds /\ s \notin missing
    OBVIOUS
  <2>1. s \in SplitIds /\ Valid(hfile[c], data[c]) \in Nat
    BY ValidFacts
  <2>2. s <= Valid(hfile[c], data[c]) /\ s \in Nat
    BY <2>1
  <2>3. hf[s] = hfile[c][s]
    BY <2>1, <2>2 DEF FilesAfter
  <2>4. s \notin missing
    <3>1. ~(s > Valid(hfile[c], data[c]))
      BY <2>1, <2>2
    <3> HIDE DEF hf
    <3> QED BY <1>1, <1>2, <3>1
  <2> QED BY <2>1, <2>3, <2>4
<1> HIDE DEF hf
<1>8. hfile' = [hfile EXCEPT ![c] = h2]
  BY <1>1, <1>2, <1>6
<1>9. h2 \in [SplitIds -> HintSet] /\ \A s \in SplitIds : h2[s] = hf[s] \/ h2[s] = None
  BY <1>5, <1>6, EmptyHints
<1>10. FilesOK(h2, data[c])
  BY <1>3, <1>5, <1>9, FilesFewer
<1>11. hfile'[c] = h2 /\ \A x \in Chunks : x # c => hfile'[x] = hfile[x]
  BY <1>0, <1>8 DEF HintsOK
<1>12. hfile' \in [Chunks -> [SplitIds -> HintSet]]
  BY <1>0, <1>8, <1>9 DEF HintsOK
<1>13. \A x \in Chunks : FilesOK(hfile'[x], data[x])
  BY <1>10, <1>11 DEF Core
<1>14. \A s \in 1 .. Valid(hfile[c], data[c]) : hfile'[c][s] = hfile[c][s]
  BY <1>6, <1>7, <1>11
<1>15. data[c] # << >>
  <2>1. Size(hfile[c], data[c]) < Len(data[c])
    BY CheckDefs DEF BuildDies
  <2>2. Size(hfile[c], data[c]) \in 0 .. Len(data[c])
    BY <1>4, SizeFacts
  <2> SUFFICES ASSUME data[c] = << >> PROVE FALSE
    OBVIOUS
  <2>3. Len(data[c]) = 0
    OBVIOUS
  <2> QED BY <2>1, <2>2, <2>3
<1> QED BY <1>11, <1>12, <1>13, <1>14, <1>15

LEMMA NextBuildDies ==
    ASSUME Core, NEW c \in Chunks, BuildDies(c), ~ahead'
    PROVE  Core'
<1>1. Down
  BY DEF BuildDies
<1> QED BY <1>1, BuildDiesFiles, NextDown

LEMMA InitCore == Init => Core
<1> SUFFICES ASSUME Init PROVE Core
  OBVIOUS
<1>1. DataOK
  <2>1. \A c \in Chunks : data[c] = << >> /\ flushed[c] = 0
    BY DEF Init
  <2>2. << >> \in Seq(Records) /\ Len(<< >>) = 0
    BY EmptySeq
  <2>3. data \in [Chunks -> Seq(Records)] /\ flushed \in [Chunks -> Nat]
    BY <2>2 DEF Init
  <2> QED BY <2>1, <2>2, <2>3, Numbers DEF DataOK
<1>2. HintsOK
  <2>1. <<NewSplit>> \in Seq(SplitSet) /\ Len(<<NewSplit>>) = 1
    BY SplitShape
  <2> QED BY <2>1, EmptyHints DEF HintsOK, Init
<1>3. IndexOK
  BY Numbers, NoTreeType DEF Init, IndexOK, NoTreeID, HintID, IDs, NoPos
<1>4. ProcsOK /\ WriterInv
  BY IdleFrame, IdleWriter DEF Init, ProcsOK, Procs, WriterInv
<1>5. \A g \in Dumpers : frame[g].at = "idle"
  BY IdleFrame DEF Init
<1>6. DownInv
  BY <1>5, IdleWriter DEF DownInv, Init
<1>7. FrameInv
  BY <1>5 DEF FrameInv
<1>8. HeadInv /\ IdInv
  BY DEF HeadInv, IdInv, Init
<1>9. \A c \in Chunks : ChunkInv(c) /\ FilesOK(hfile[c], data[c])
  BY DEF ChunkInv, Unopened, FilesOK, Init
<1> QED BY <1>1, <1>2, <1>3, <1>4, <1>6, <1>7, <1>8, <1>9 DEF Core

LEMMA NextCore ==
    ASSUME Core, Next, ~ahead'
    PROVE  Core'
<1>1. CASE \E k \in Keys, live \in BOOLEAN : AppendRecord(k, live)
  BY <1>1, NextAppendRecord
<1>2. CASE SetTree
  BY <1>2, NextSetTree
<1>3. CASE SetHint
  BY <1>3, NextSetHint
<1>4. CASE \E c \in Chunks : DumpRound(c)
  BY <1>4, NextDumpRound
<1>5. ASSUME NEW g \in Dumpers, \/ DumpOld(g) \/ DumpLast(g) \/ LeaveChunk(g) \/ DumpFile(g)
                                \/ DumpFails(g) \/ DropBuffer(g) \/ DumpPanics(g)
      PROVE  Core'
  <2>1. CASE DumpOld(g)
    BY <2>1, NextDumpOld
  <2>2. CASE DumpLast(g)
    BY <2>2, NextDumpLast
  <2>3. CASE LeaveChunk(g)
    BY <2>3, NextLeaveChunk
  <2>4. CASE DumpFile(g)
    BY <2>4, NextDumpFile
  <2>5. CASE DumpFails(g)
    BY <2>5, NextDumpFails
  <2>6. CASE DropBuffer(g)
    BY <2>6, NextDropBuffer
  <2>7. CASE DumpPanics(g) /\ g # "closer"
    BY <2>7, NextDumpPanics
  <2>8. CASE DumpPanics(g) /\ g = "closer"
    <3>1. Down /\ hfile' = hfile
      BY <2>8 DEF DumpPanics
    <3> QED BY <3>1, SameFiles, NextDown
  <2> QED BY <1>5, <2>1, <2>2, <2>3, <2>4, <2>5, <2>6, <2>7, <2>8
<1>6. CASE Close
  BY <1>6, NextClose
<1>7. CASE RemoveTree \/ DumpTree
  BY <1>7, NextTreeFile
<1>8. CASE Exit \/ Crash
  <2>1. Down /\ hfile' = hfile
    BY <1>8 DEF Exit, Crash
  <2> QED BY <2>1, SameFiles, NextDown
<1>9. CASE OpenTree
  BY <1>9, NextOpenTree
<1>10. CASE OpenChunk
  BY <1>10, NextOpenChunk
<1>11. CASE OpenDone
  BY <1>11, NextOpenDone
<1>12. CASE CheckBehind
  BY <1>12, NextCheckBehind
<1>13. CASE \/ \E k \in Keys : StartLookup(k)
            \/ LookupMem \/ LookupPanics \/ LookupFile \/ LookupReturn
  BY <1>13, NextLookup
<1>14. CASE \E c \in Chunks : BuildDies(c)
  BY <1>14, NextBuildDies
<1> QED BY <1>1, <1>2, <1>3, <1>4, <1>5, <1>6, <1>7, <1>8, <1>9, <1>10, <1>11, <1>12, <1>13, <1>14 DEF Next

\* Once hints were ahead of the data they count as such for good.
LEMMA AheadStays ==
    ASSUME [Next]_vars, ahead
    PROVE  ahead'
<1>1. CASE UNCHANGED vars
  BY <1>1 DEF vars, counters
<1>2. CASE Next
  <2>1. ASSUME Down PROVE ahead'
    BY <2>1 DEF Down
  <2>2. ASSUME NEW g \in Dumpers, DumpPanics(g) PROVE ahead'
    BY <2>1, <2>2 DEF DumpPanics, counters
  <2>3. ASSUME NEW g \in Dumpers, \/ DumpOld(g) \/ DumpLast(g) \/ LeaveChunk(g) \/ DumpFile(g)
                                  \/ DumpFails(g) \/ DropBuffer(g)
        PROVE  ahead'
    BY <2>3, Zenon DEF DumpOld, DumpLast, LeaveChunk, DumpFile, DumpFails, DropBuffer, counters
  <2>4. ASSUME \/ \E k \in Keys, live \in BOOLEAN : AppendRecord(k, live)
               \/ SetTree \/ SetHint \/ \E c \in Chunks : DumpRound(c)
               \/ Close \/ RemoveTree \/ DumpTree \/ OpenTree \/ OpenChunk \/ OpenDone \/ CheckBehind
        PROVE  ahead'
    BY <2>4, ZenonT(40) DEF AppendRecord, SetTree, SetHint, DumpRound, Close, RemoveTree, DumpTree, OpenTree, OpenChunk,
                OpenDone, CheckBehind, counters
  <2>5. ASSUME \/ \E k \in Keys : StartLookup(k)
               \/ LookupMem \/ LookupPanics \/ LookupFile \/ LookupReturn
        PROVE  ahead'
    BY <2>5, ZenonT(40) DEF StartLookup, LookupMem, LookupPanics, LookupFile, LookupReturn, counters
  <2> QED BY <1>2, <2>1, <2>2, <2>3, <2>4, <2>5 DEF Next, Exit, Crash, BuildDies
<1> QED BY <1>1, <1>2

LEMMA CoreInvariance == Spec => []CoreInv
<1>1. Init => CoreInv
  BY InitCore DEF CoreInv
<1>2. CoreInv /\ [Next]_vars => CoreInv'
  <2> SUFFICES ASSUME CoreInv, [Next]_vars, ~ahead' PROVE Core'
    BY DEF CoreInv
  <2>1. ~ahead
    BY AheadStays
  <2>2. Core
    BY <2>1 DEF CoreInv
  <2>3. CASE Next
    BY <2>2, <2>3, NextCore
  <2>4. CASE UNCHANGED vars
    <3>1. UNCHANGED <<data, flushed, hfile, tfile, proc, step, head, tree, treeID, splits, dirty, maxChunkID,
                      maxDumped, bg, frame, writer>>
      BY <2>4 DEF vars, disk, index, hints
    <3> QED BY <2>2, <3>1, SameAll
  <2> QED BY <2>3, <2>4
<1> QED BY <1>1, <1>2, PTL DEF Spec

\* The last file before split s that has a key has the newest of its records.
LEMMA FilesExact ==
    ASSUME NEW hf \in [SplitIds -> HintSet], NEW d \in Seq(Records), FilesOK(hf, d), d # << >>,
           NEW s \in 1 .. Valid(hf, d), NEW k \in Keys
    PROVE  LET recs == {n \in 1 .. Max({hf[i].end : i \in 1 .. s}) : d[n].key = k}
               having == {i \in 1 .. s : k \in DOMAIN hf[i].items}
           IN  IF recs = {} THEN having = {}
               ELSE having # {} /\ hf[Max(having)].items[k].n = Max(recs)
<1> DEFINE ends == {hf[i].end : i \in 1 .. s}
           recs == {n \in 1 .. Max(ends) : d[n].key = k}
           having == {i \in 1 .. s : k \in DOMAIN hf[i].items}
<1>0. s \in Nat \ {0} /\ Len(d) \in Nat /\ Valid(hf, d) \in Nat /\ \A i \in 1 .. s : i \in 1 .. Valid(hf, d)
  BY ValidFacts
<1>1. \A i \in 1 .. s :
          /\ Exact(hf[i], d, FileBegin(hf, i), hf[i].end)
          /\ FileBegin(hf, i) \in Nat /\ hf[i].end \in Nat /\ hf[i].end <= Len(d)
          /\ \A j \in 0 .. i - 1 : FileBegin(hf, j + 1) \in Nat /\ FileBegin(hf, j + 1) < hf[i].end
  BY <1>0, SizeFacts
<1>2. \A i, j \in 1 .. s : j < i => hf[j].end < hf[i].end /\ hf[j].end <= FileBegin(hf, i)
  <2> SUFFICES ASSUME NEW i \in 1 .. s, NEW j \in 1 .. s, j < i
               PROVE  hf[j].end < hf[i].end /\ hf[j].end <= FileBegin(hf, i)
    OBVIOUS
  <2>1. j \in 0 .. i - 1 /\ FileBegin(hf, j + 1) = hf[j].end /\ i \in Nat /\ j \in Nat
    BY DEF FileBegin
  <2>2. hf[j].end < hf[i].end
    BY <1>1, <2>1
  <2>3. hf[j].end <= FileBegin(hf, i)
    <3>1. CASE j = i - 1
      <4>1. FileBegin(hf, i) = hf[j].end
        BY <2>1, <3>1 DEF FileBegin
      <4> QED BY <1>1, <4>1
    <3>2. CASE j # i - 1
      <4>1. i - 1 \in 1 .. s /\ j \in 0 .. i - 1 - 1 /\ i # 1
        BY <2>1, <3>2
      <4>2. FileBegin(hf, i) = hf[i - 1].end
        BY <4>1 DEF FileBegin
      <4>3. hf[j].end < hf[i - 1].end
        BY <1>1, <2>1, <4>1
      <4> QED BY <1>1, <4>1, <4>2, <4>3
    <3> QED BY <3>1, <3>2
  <2> QED BY <2>2, <2>3
<1>3. Max(ends) = hf[s].end
  <2>1. s \in 1 .. s
    BY <1>0
  <2>2. hf[s].end \in ends /\ ends \subseteq -1 .. Len(d) /\ ends # {}
    <3>1. \A i \in 1 .. s : hf[i].end \in -1 .. Len(d)
      BY <1>0, <1>1
    <3> QED BY <2>1, <3>1
  <2>3. \A y \in ends : y <= hf[s].end
    <3> SUFFICES ASSUME NEW i \in 1 .. s PROVE hf[i].end <= hf[s].end
      OBVIOUS
    <3> QED BY <1>0, <1>1, <1>2, <2>1
  <2> HIDE DEF ends
  <2>4. Max(ends) \in ends /\ \A y \in ends : Max(ends) >= y
    BY <1>0, <2>2, MaxIsLargest
  <2>5. Max(ends) \in Int /\ hf[s].end \in Int
    <3>1. Max(ends) \in -1 .. Len(d) /\ hf[s].end \in -1 .. Len(d)
      BY <2>2, <2>4
    <3> QED BY <1>0, <3>1
  <2> QED BY <2>2, <2>3, <2>4, <2>5
<1> DEFINE e == hf[s].end
<1>4. recs = {n \in 1 .. e : d[n].key = k} /\ e \in Nat
  <2>1. e \in Nat
    <3>1. s \in 1 .. s
      BY <1>0
    <3> QED BY <1>1, <3>1
  <2>2. Max(ends) = e
    BY <1>3
  <2> HIDE DEF ends, e
  <2> QED BY <2>1, <2>2
\* Every record is that of a file.
<1>5. \A n \in 1 .. e : \E i \in 1 .. s : n \in FileBegin(hf, i) + 1 .. hf[i].end
  <2> SUFFICES ASSUME NEW n \in 1 .. e PROVE \E i \in 1 .. s : n \in FileBegin(hf, i) + 1 .. hf[i].end
    OBVIOUS
  <2> DEFINE T == {i \in 1 .. s : n <= hf[i].end}
  <2>1. s \in T /\ T \subseteq Nat
    BY <1>0, <1>4
  <2> HIDE DEF T
  <2>2. PICK i \in T : \A j \in T : i <= j
    BY <2>1, Least
  <2>3. i \in 1 .. s /\ n <= hf[i].end
    BY <2>2 DEF T
  <2>4. FileBegin(hf, i) < n
    <3>1. CASE i = 1
      BY <3>1 DEF FileBegin
    <3>2. CASE i # 1
      <4>1. i - 1 \in 1 .. s /\ ~(i <= i - 1)
        BY <2>3, <3>2
      <4>2. ~(n <= hf[i - 1].end)
        BY <2>2, <4>1 DEF T
      <4>3. FileBegin(hf, i) = hf[i - 1].end /\ hf[i - 1].end \in Nat
        BY <1>1, <3>2, <4>1 DEF FileBegin
      <4> QED BY <4>2, <4>3
    <3> QED BY <3>1, <3>2
  <2> QED BY <1>1, <2>3, <2>4
<1>6. ASSUME NEW n \in 1 .. e, d[n].key = k PROVE \E i \in having : n <= hf[i].items[k].n
  <2>1. PICK i \in 1 .. s : n \in FileBegin(hf, i) + 1 .. hf[i].end
    BY <1>5
  <2>2. k \in DOMAIN hf[i].items /\ n <= hf[i].items[k].n
    BY <1>1, <1>6, <2>1 DEF Exact
  <2> QED BY <2>2
<1>7. \A i \in having : /\ hf[i].items[k].n \in FileBegin(hf, i) + 1 .. hf[i].end
                        /\ hf[i].items[k].n \in recs
  <2> SUFFICES ASSUME NEW i \in having PROVE /\ hf[i].items[k].n \in FileBegin(hf, i) + 1 .. hf[i].end
                                             /\ hf[i].items[k].n \in recs
    OBVIOUS
  <2>1. i \in 1 .. s /\ k \in DOMAIN hf[i].items
    OBVIOUS
  <2>2. hf[i].items[k].n \in FileBegin(hf, i) + 1 .. hf[i].end /\ d[hf[i].items[k].n].key = k
    <3>1. Exact(hf[i], d, FileBegin(hf, i), hf[i].end)
      BY <1>1, <2>1
    <3>2. /\ hf[i].items[k].n \in FileBegin(hf, i) + 1 .. hf[i].end
          /\ d[hf[i].items[k].n] = [key |-> k, live |-> hf[i].items[k].live]
      BY <2>1, <3>1 DEF Exact
    <3> HIDE DEF recs, having, e
    <3> QED BY <3>2
  <2>3. hf[i].end <= e
    <3>1. s \in 1 .. s
      BY <1>0
    <3> QED BY <1>1, <1>2, <1>4, <2>1, <3>1
  <2>4. hf[i].items[k].n \in 1 .. e
    BY <1>1, <1>4, <2>1, <2>2, <2>3
  <2> QED BY <1>4, <2>2, <2>4
<1>8. CASE recs = {}
  <2>1. having = {}
    <3> HIDE DEF recs
    <3> QED BY <1>7, <1>8
  <2> QED BY <1>8, <2>1
<1>9. CASE recs # {}
  <2>1. PICK n \in 1 .. e : d[n].key = k
    BY <1>4, <1>9
  <2>2. having # {}
    BY <1>6, <2>1
  <2>3. Max(having) \in having /\ \A y \in having : Max(having) >= y
    <3>1. having \subseteq -1 .. s
      BY <1>0
    <3> HIDE DEF having
    <3> QED BY <1>0, <2>2, <3>1, MaxIsLargest
  <2>4. Max(recs) \in recs /\ \A y \in recs : Max(recs) >= y
    <3>1. recs \subseteq -1 .. e
      BY <1>4
    <3> HIDE DEF recs, e
    <3> QED BY <1>4, <1>9, <3>1, MaxIsLargest
  <2>5. PICK m \in Nat : m = Max(having) /\ m \in having /\ m \in 1 .. s
    <3>1. \A x \in having : x \in 1 .. s /\ x \in Nat
      BY <1>0, SMTT(40)
    <3> HIDE DEF having
    <3> QED BY <2>3, <3>1
  <2> DEFINE p == hf[m].items[k].n
  <2>6. p \in recs /\ p \in FileBegin(hf, m) + 1 .. hf[m].end /\ FileBegin(hf, m) \in Nat /\ hf[m].end \in Nat
    BY <1>1, <1>7, <2>5
  <2>7. Max(recs) \in 1 .. e /\ d[Max(recs)].key = k
    BY <1>4, <2>4
  <2>8. PICK i \in having : Max(recs) <= hf[i].items[k].n
    BY <1>6, <2>7
  <2>9. hf[i].items[k].n <= p
    <3>1. i \in 1 .. s /\ i <= m
      BY <2>3, <2>5
    <3>2. CASE i = m
      BY <2>6, <3>2
    <3>3. CASE i # m
      <4>1. hf[i].end <= FileBegin(hf, m)
        BY <1>2, <2>5, <3>1, <3>3
      <4>2. hf[i].items[k].n \in FileBegin(hf, i) + 1 .. hf[i].end /\ FileBegin(hf, i) \in Nat /\ hf[i].end \in Nat
        BY <1>1, <1>7, <3>1
      <4> HIDE DEF p
      <4> QED BY <2>6, <4>1, <4>2, SMTT(40)
    <3> QED BY <3>2, <3>3
  <2>10. Max(recs) >= p /\ Max(recs) \in Int /\ p \in Int /\ hf[i].items[k].n \in Int
    <3>1. Max(recs) >= p
      BY <2>4, <2>6
    <3>2. hf[i].items[k].n \in FileBegin(hf, i) + 1 .. hf[i].end
      BY <1>7, <2>8
    <3> HIDE DEF recs, p
    <3> QED BY <2>6, <2>7, <3>1, <3>2
  <2>11. Max(recs) = p
    <3> HIDE DEF recs, p
    <3> QED BY <2>8, <2>9, <2>10
  <2>12. hf[Max(having)].items[k].n = p
    BY <2>5
  <2> HIDE DEF having, recs, p
  <2> QED BY <1>9, <2>2, <2>11, <2>12 DEF recs, having
<1> QED BY <1>8, <1>9

\* The hint files of every data file tell where the newest record of each key is,
\* among the records they cover, for all data files, splits and interleavings of
\* writes, dumps that succeed or fail, crashes and restarts.
THEOREM HintFilesExact == Spec => []HintsExact
<1>1. CoreInv => HintsExact
  <2> SUFFICES ASSUME Core, NEW c \in Chunks, data[c] # << >>, NEW s \in 1 .. ValidPaths(c), NEW k \in Keys
               PROVE  LET recs == {n \in 1 .. Max({hfile[c][i].end : i \in 1 .. s}) : data[c][n].key = k}
                          having == {i \in 1 .. s : k \in DOMAIN hfile[c][i].items}
                      IN  IF recs = {} THEN having = {}
                          ELSE having # {} /\ hfile[c][Max(having)].items[k].n = Max(recs)
    BY DEF CoreInv, HintsExact
  <2>1. ValidPaths(c) = Valid(hfile[c], data[c])
    BY CheckDefs
  <2>2. hfile[c] \in [SplitIds -> HintSet] /\ data[c] \in Seq(Records) /\ FilesOK(hfile[c], data[c])
    BY DEF Core, DataOK, HintsOK
  <2>3. s \in 1 .. Valid(hfile[c], data[c])
    BY <2>1
  <2> QED BY <2>2, <2>3, FilesExact, ZenonT(40)
<1> QED BY <1>1, CoreInvariance, PTL
=============================================================================
