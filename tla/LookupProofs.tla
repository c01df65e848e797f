---------------------------- MODULE LookupProofs ----------------------------
(***************************************************************************)
(* Proof that lookups find the newest hint: LookupFresh of Hints, on the   *)
(* invariant Core of HintsProofs and DumpInv of RecoveryProofs.            *)
(***************************************************************************)
EXTENDS RecoveryProofs

-----------------------------------------------------------------------------
(* What the splits of a chunk tell of a key *)

\* What a split has: its buffer, or the file when the buffer is gone.
Contents(s) == IF s.buf # None THEN s.buf ELSE s.file
Has(s, k) == k \in DOMAIN Contents(s).items

\* The last split that has k tells of a record of number n or a later one.
Finds(ss, k, n) ==
    \E j \in 1 .. Len(ss) :
        /\ Has(ss[j], k) /\ n <= Contents(ss[j]).items[k].n
        /\ \A i \in j + 1 .. Len(ss) : ~Has(ss[i], k)
\* That is so of the first m records of d.
FindsAll(ss, d, m) == \A n \in 1 .. m : Finds(ss, d[n].key, n)

\* The splits before one without a buffer are in files.
Ordered(ss) == \A j \in 1 .. Len(ss) : ss[j].buf = None => \A i \in 1 .. j : ss[i].file # None

\* The splits that were there tell the same of k, and the new ones nothing.
LEMMA FindsSame ==
    ASSUME NEW ss, NEW rr, Len(ss) \in Nat, Len(rr) \in Nat, Len(ss) <= Len(rr), NEW k, NEW n,
           Finds(ss, k, n),
           \A j \in 1 .. Len(ss) : /\ Has(rr[j], k) <=> Has(ss[j], k)
                                   /\ Has(ss[j], k) => Contents(rr[j]).items[k] = Contents(ss[j]).items[k],
           \A j \in Len(ss) + 1 .. Len(rr) : ~Has(rr[j], k)
    PROVE  Finds(rr, k, n)
<1>1. PICK j \in 1 .. Len(ss) : /\ Has(ss[j], k) /\ n <= Contents(ss[j]).items[k].n
                                /\ \A i \in j + 1 .. Len(ss) : ~Has(ss[i], k)
  BY DEF Finds
<1>2. j \in 1 .. Len(rr) /\ Has(rr[j], k) /\ n <= Contents(rr[j]).items[k].n
  BY <1>1
<1>3. ASSUME NEW i \in j + 1 .. Len(rr) PROVE ~Has(rr[i], k)
  <2>1. CASE i <= Len(ss)
    <3>1. i \in j + 1 .. Len(ss) /\ i \in 1 .. Len(ss)
      BY <2>1
    <3> QED BY <1>1, <3>1
  <2>2. CASE ~(i <= Len(ss))
    <3>1. i \in Len(ss) + 1 .. Len(rr)
      BY <2>2
    <3> QED BY <3>1
  <2> QED BY <2>1, <2>2
<1> QED BY <1>2, <1>3 DEF Finds

\* The last split has k, with a record that is not older.
LEMMA FindsLast ==
    ASSUME NEW ss, Len(ss) \in Nat \ {0}, NEW k, NEW n,
           Has(ss[Len(ss)], k), n <= Contents(ss[Len(ss)]).items[k].n
    PROVE  Finds(ss, k, n)
<1>1. Len(ss) \in 1 .. Len(ss) /\ \A i \in Len(ss) + 1 .. Len(ss) : FALSE
  OBVIOUS
<1> QED BY <1>1 DEF Finds

LEMMA NewHasNone ==
    \A k : ~Has(NewSplit, k)
BY EmptyHints, SplitShape DEF Has, Contents

LEMMA ContentsOf ==
    ASSUME NEW s, s.buf # None
    PROVE  Contents(s) = s.buf
BY DEF Contents

\* setItem of the record behind those that are found.
LEMMA FindsSet ==
    ASSUME NEW ss \in Seq(SplitSet), NEW L \in Nat \ {0}, L = Len(ss), ss[L].buf # None,
           NEW d, NEW m \in Nat, FindsAll(ss, d, m),
           NEW k \in Keys, k = d[m + 1].key, NEW item \in HintItems, item.n = m + 1
    PROVE  LET r == SetItem(ss, k, item)
           IN  r \in Seq(SplitSet) /\ Len(r) >= L /\ r[Len(r)].buf # None /\ FindsAll(r, d, m + 1)
<1> DEFINE r == SetItem(ss, k, item)
           b == ss[L].buf
           x == BufferSet(b, k, item)
           y == BufferSet(EmptyBuffer, k, item)
           e == IF b.end >= item.n - 1 THEN b.end ELSE item.n - 1
           z == Hint(b.items, e)
<1>1. /\ r \in Seq(SplitSet) /\ \A j \in 1 .. L - 1 : r[j] = ss[j]
      /\ Fits(b, k) => Len(r) = L /\ r[L] = Split(x, ss[L].file)
      /\ ~Fits(b, k) => Len(r) = L + 1 /\ r[L] = Split(z, ss[L].file) /\ r[L + 1] = Split(y, None)
  <2>1. Len(ss) >= 1
    OBVIOUS
  <2> QED BY <2>1, SetItemShape, ZenonT(40)
<1>2. b \in HintSet /\ b.end \in Int /\ L \in 1 .. L
  <2>1. L \in 1 .. Len(ss)
    OBVIOUS
  <2>2. ss[L] \in SplitSet
    BY <2>1, ElementOfSeq
  <2> QED BY <2>1, <2>2, SplitShape, HintShape
<1>3. /\ x # None /\ x.items[k] = item /\ DOMAIN x.items = DOMAIN b.items \cup {k}
      /\ \A a \in DOMAIN b.items : a # k => x.items[a] = b.items[a]
  BY <1>2, BufferSetShape
<1>4. /\ y # None /\ y.items[k] = item /\ DOMAIN y.items = {k}
  BY EmptyHints, BufferSetShape
<1>5. z # None /\ z.items = b.items
  <2>1. e # -1
    BY <1>2
  <2> HIDE DEF e
  <2>2. z.end = e /\ None.end = -1 /\ z.items = b.items
    BY DEF Hint, None
  <2> QED BY <2>1, <2>2
<1> HIDE DEF r, x, y, e, z
<1>6. ASSUME NEW n \in 1 .. m + 1, d[n].key = k PROVE Finds(r, k, n)
  <2>1. n <= item.n
    OBVIOUS
  <2>2. Len(r) \in Nat \ {0} /\ Has(r[Len(r)], k) /\ Contents(r[Len(r)]).items[k] = item
    <3>1. CASE Fits(b, k)
      <4>1. r[Len(r)].buf = x /\ Len(r) = L
        BY <1>1, <3>1, SplitShape
      <4>2. Contents(r[Len(r)]) = x
        BY <1>3, <4>1, ContentsOf
      <4> QED BY <1>3, <4>1, <4>2 DEF Has
    <3>2. CASE ~Fits(b, k)
      <4>1. r[Len(r)].buf = y /\ Len(r) = L + 1
        BY <1>1, <3>2, SplitShape
      <4>2. Contents(r[Len(r)]) = y
        BY <1>4, <4>1, ContentsOf
      <4> QED BY <1>4, <4>1, <4>2 DEF Has
    <3> QED BY <3>1, <3>2
  <2> QED BY <2>1, <2>2, FindsLast
<1>7. ASSUME NEW n \in 1 .. m + 1, d[n].key # k PROVE Finds(r, d[n].key, n)
  <2> DEFINE a == d[n].key
  <2>1. n \in 1 .. m
    BY <1>7
  <2>2. Finds(ss, a, n) /\ a # k
    BY <1>7, <2>1 DEF FindsAll
  <2> HIDE DEF a
  <2>3. Contents(ss[L]) = b
    BY ContentsOf
  <2>4. /\ Has(r[L], a) <=> Has(ss[L], a)
        /\ Has(ss[L], a) => Contents(r[L]).items[a] = Contents(ss[L]).items[a]
    <3>1. CASE Fits(b, k)
      <4>1. r[L].buf = x
        BY <1>1, <3>1, SplitShape
      <4>2. Contents(r[L]) = x
        BY <1>3, <4>1, ContentsOf
      <4> QED BY <1>3, <2>2, <2>3, <4>2 DEF Has
    <3>2. CASE ~Fits(b, k)
      <4>1. r[L].buf = z
        BY <1>1, <3>2, SplitShape
      <4>2. Contents(r[L]) = z
        BY <1>5, <4>1, ContentsOf
      <4> QED BY <1>5, <2>3, <4>2 DEF Has
    <3> QED BY <3>1, <3>2
  <2>5. \A j \in 1 .. L : /\ Has(r[j], a) <=> Has(ss[j], a)
                          /\ Has(ss[j], a) => Contents(r[j]).items[a] = Contents(ss[j]).items[a]
    <3> SUFFICES ASSUME NEW j \in 1 .. L
                 PROVE  /\ Has(r[j], a) <=> Has(ss[j], a)
                        /\ Has(ss[j], a) => Contents(r[j]).items[a] = Contents(ss[j]).items[a]
      OBVIOUS
    <3>1. j = L \/ j \in 1 .. L - 1
      OBVIOUS
    <3> QED BY <1>1, <2>4, <3>1
  <2>6. /\ Len(r) \in Nat /\ L <= Len(r)
        /\ \A j \in L + 1 .. Len(r) : ~Has(r[j], a)
    <3>1. CASE Fits(b, k)
      BY <1>1, <3>1
    <3>2. CASE ~Fits(b, k)
      <4>1. r[L + 1].buf = y /\ Len(r) = L + 1
        BY <1>1, <3>2, SplitShape
      <4>2. Contents(r[L + 1]) = y
        BY <1>4, <4>1, ContentsOf
      <4>3. ~Has(r[L + 1], a)
        BY <1>4, <2>2, <4>2 DEF Has
      <4>4. \A j \in L + 1 .. Len(r) : j = L + 1
        BY <4>1
      <4> QED BY <4>1, <4>3, <4>4
    <3> QED BY <3>1, <3>2
  <2> QED BY <2>2, <2>5, <2>6, FindsSame DEF a
<1>8. r[Len(r)].buf # None /\ Len(r) >= L
  <2>1. CASE Fits(b, k)
    BY <1>1, <1>3, <2>1, SplitShape
  <2>2. CASE ~Fits(b, k)
    <3>1. r[L + 1].buf = y /\ Len(r) = L + 1
      BY <1>1, <2>2, SplitShape
    <3> QED BY <1>4, <3>1
  <2> QED BY <2>1, <2>2
<1>9. FindsAll(r, d, m + 1)
  BY <1>6, <1>7 DEF FindsAll
<1> QED BY <1>1, <1>8, <1>9 DEF r

-----------------------------------------------------------------------------
(* checkHintWithData *)

\* buildHintFromData: what was found is found, and the records read are.
LEMMA FindsRead ==
    ASSUME NEW d \in Seq(Records), NEW start \in 0 .. Len(d),
           NEW ss \in Seq(SplitSet), Len(ss) >= 1, ss[Len(ss)].buf # None, FindsAll(ss, d, start)
    PROVE  FindsAll(SetRecords(ss, d, start), d, Len(d))
<1>0. PICK f : Reads(f, ss, d, start) /\ SetRecords(ss, d, start) = f[Len(d)]
  BY RecordsSet
<1>1. /\ f[start] = ss
      /\ \A n \in start .. Len(d) : n # start =>
            f[n] = SetItem(f[n - 1], d[n].key, [n |-> n, live |-> d[n].live])
      /\ SetRecords(ss, d, start) = f[Len(d)]
  BY <1>0 DEF Reads
<1> DEFINE P(n) == /\ f[n] \in Seq(SplitSet) /\ Len(f[n]) >= 1 /\ f[n][Len(f[n])].buf # None
                   /\ FindsAll(f[n], d, n)
           S == {n \in start .. Len(d) : P(n)}
<1>2. start \in S
  BY <1>1
<1>3. ASSUME NEW n \in start .. Len(d), n < Len(d), n \in S PROVE n + 1 \in S
  <2> DEFINE k == d[n + 1].key
             item == [n |-> n + 1, live |-> d[n + 1].live]
  <2>1. d[n + 1] \in Records /\ n \in Nat
    BY <1>3, RecordAt
  <2>2. k \in Keys /\ item \in HintItems /\ item.n = n + 1
    BY <2>1 DEF Records, HintItems
  <2>3. f[n + 1] = SetItem(f[n], k, item)
    <3>1. n + 1 \in start .. Len(d) /\ n + 1 # start /\ (n + 1) - 1 = n
      BY <1>3
    <3> QED BY <1>1, <3>1
  <2>4. P(n)
    BY <1>3
  <2>a. PICK x : x = f[n]
    OBVIOUS
  <2>b. x \in Seq(SplitSet) /\ Len(x) >= 1 /\ x[Len(x)].buf # None /\ FindsAll(x, d, n)
    BY <2>4, <2>a
  <2>c. Len(x) \in Nat
    BY <2>b, Empty
  <2>5. PICK L \in Nat \ {0} : L = Len(x)
    BY <2>b, <2>c
  <2>6. x \in Seq(SplitSet) /\ x[L].buf # None /\ FindsAll(x, d, n) /\ k = d[n + 1].key
    BY <2>b, <2>5
  <2> HIDE DEF k, item
  <2>7. PICK r : r = SetItem(x, k, item)
    OBVIOUS
  <2>8. r \in Seq(SplitSet) /\ Len(r) >= L /\ r[Len(r)].buf # None /\ FindsAll(r, d, n + 1)
    BY <2>1, <2>2, <2>5, <2>6, <2>7, FindsSet, SMTT(40)
  <2>9. Len(r) >= 1
    BY <2>5, <2>8
  <2>10. P(n + 1)
    BY <2>3, <2>a, <2>7, <2>8, <2>9
  <2> QED BY <1>3, <2>10
<1>4. Len(d) \in S
  <2>1. start \in Nat /\ Len(d) \in Nat /\ Len(d) \in start .. Len(d)
    OBVIOUS
  <2> HIDE DEF S
  <2>2. \A n \in start .. Len(d) : n \in S
    BY <1>2, <1>3, <2>1, Induct
  <2> QED BY <2>1, <2>2
<1> QED BY <1>1, <1>4

\* Dumping all splits changes nothing.
LEMMA FindsDumped ==
    ASSUME NEW r \in Seq(SplitSet), NEW d, NEW m, FindsAll(r, d, m)
    PROVE  FindsAll(Dumped(r) \o <<NewSplit>>, d, m)
<1> DEFINE q == Dumped(r) \o <<NewSplit>>
<1>1. /\ q \in Seq(SplitSet) /\ Len(q) = Len(r) + 1 /\ q[Len(r) + 1] = NewSplit
      /\ \A j \in 1 .. Len(r) : q[j].buf = None /\ q[j].file = IF r[j].buf # None THEN r[j].buf ELSE r[j].file
  BY DumpedShape
<1> HIDE DEF q
<1>2. Len(r) \in Nat /\ Len(q) \in Nat /\ Len(r) <= Len(q)
  BY <1>1, Empty
<1>3. \A j \in 1 .. Len(r) : Contents(q[j]) = Contents(r[j])
  BY <1>1 DEF Contents
<1>4. \A k : \A j \in Len(r) + 1 .. Len(q) : ~Has(q[j], k)
  <2>1. \A j \in Len(r) + 1 .. Len(q) : j = Len(r) + 1
    BY <1>1, <1>2
  <2> QED BY <1>1, <2>1, NewHasNone
<1>5. ASSUME NEW n \in 1 .. m PROVE Finds(q, d[n].key, n)
  <2>1. Finds(r, d[n].key, n)
    BY DEF FindsAll
  <2>2. \A j \in 1 .. Len(r) : Has(q[j], d[n].key) <=> Has(r[j], d[n].key)
    BY <1>3 DEF Has
  <2> QED BY <1>2, <1>3, <1>4, <2>1, <2>2, FindsSame
<1> QED BY <1>5 DEF FindsAll, q

\* The hint files find the newest of the records they cover, also when they are
\* loaded a second time, before a last split that knows of no older one.
LEMMA FindsFiles ==
    ASSUME NEW ss \in Seq(SplitSet), Len(ss) >= 1, NEW hf \in [SplitIds -> HintSet],
           NEW d \in Seq(Records), FilesOK(hf, d),
           \A n \in 1 .. Len(d) : Has(ss[Len(ss)], d[n].key) => n <= Contents(ss[Len(ss)]).items[d[n].key].n
    PROVE  FindsAll(Loads(ss, hf, d), d, Size(hf, d))
<1> SUFFICES ASSUME NEW n \in 1 .. Size(hf, d)
             PROVE  Finds(Loads(ss, hf, d), d[n].key, n)
  BY DEF FindsAll
<1>1. PICK k : k = d[n].key
  OBVIOUS
<1>2. PICK V \in Nat, E \in Nat : V = Valid(hf, d) /\ E = Size(hf, d)
  BY ValidFacts, SizeFacts, Empty
<1>3. PICK L \in Nat \ {0} : L = Len(ss)
  BY Empty
<1>4. PICK x : x = Loads(ss, hf, d)
  OBVIOUS
<1>5. /\ x \in Seq(SplitSet) /\ Len(x) = L + V
      /\ \A s \in 1 .. V : x[L - 1 + s] = Split(None, hf[s])
      /\ x[L + V] = ss[L]
  BY <1>2, <1>3, <1>4, LoadsShape, SMTT(40)
<1>6. n \in Nat \ {0} /\ n <= E /\ E <= Len(d) /\ Len(d) \in Nat /\ n \in 1 .. Len(d) /\ V > 0 /\ E = hf[V].end
  <2>1. E \in 0 .. Len(d) /\ (V = 0 => E = 0) /\ (V > 0 => E = hf[V].end) /\ Len(d) \in Nat
    BY <1>2, SizeFacts, Empty
  <2> QED BY <1>2, <2>1
<1>7. k \in Keys /\ d # << >>
  <2>1. d[n] \in Records
    BY <1>6, ElementOfSeq
  <2> QED BY <1>1, <1>6, <2>1, Empty DEF Records
<1> DEFINE ends == {hf[i].end : i \in 1 .. V}
           recs == {i \in 1 .. Max(ends) : d[i].key = k}
           having == {i \in 1 .. V : k \in DOMAIN hf[i].items}
<1>8. IF recs = {} THEN having = {} ELSE having # {} /\ hf[Max(having)].items[k].n = Max(recs)
  <2>1. V \in 1 .. Valid(hf, d)
    BY <1>2, <1>6
  <2> QED BY <1>7, <2>1, FilesExact, ZenonT(40)
<1>9. Max(ends) \in Nat /\ Max(ends) >= E /\ Max(ends) <= Len(d)
  <2>1. \A i \in 1 .. V : hf[i].end \in Nat /\ hf[i].end <= Len(d)
    BY <1>2, SizeFacts
  <2>2. E \in ends /\ ends \subseteq -1 .. Len(d)
    BY <1>6, <2>1
  <2> HIDE DEF ends
  <2>3. Max(ends) \in ends /\ \A y \in ends : Max(ends) >= y
    BY <1>6, <2>2, MaxIsLargest
  <2>4. Max(ends) \in -1 .. Len(d) /\ Max(ends) >= E
    BY <2>2, <2>3
  <2> QED BY <1>6, <2>4
<1> HIDE DEF ends
<1>10. n \in recs /\ recs \subseteq -1 .. Len(d)
  BY <1>1, <1>6, <1>9
<1>11. Max(recs) >= n
  <2> HIDE DEF recs
  <2> QED BY <1>6, <1>10, MaxIsLargest
<1> HIDE DEF recs
<1>12. having \subseteq -1 .. V /\ having # {}
  BY <1>2, <1>8, <1>10
<1>13. PICK s \in 1 .. V : s = Max(having) /\ k \in DOMAIN hf[s].items /\ \A i \in having : s >= i
  <2>1. Max(having) \in having /\ \A i \in having : Max(having) >= i
    <3> HIDE DEF having
    <3> QED BY <1>2, <1>12, MaxIsLargest
  <2> QED BY <2>1
<1>14. n <= hf[s].items[k].n
  BY <1>8, <1>10, <1>11, <1>13
<1>15. \A i \in 1 .. V : i > s => k \notin DOMAIN hf[i].items
  BY <1>13
<1> HIDE DEF having
<1>16. \A i \in 1 .. V : Contents(x[L - 1 + i]) = hf[i]
  BY <1>5, SplitShape DEF Contents
<1>17. CASE Has(ss[L], k)
  <2>1. n <= Contents(ss[L]).items[k].n
    BY <1>1, <1>3, <1>6, <1>17
  <2>2. Has(x[Len(x)], k) /\ n <= Contents(x[Len(x)]).items[k].n /\ Len(x) \in Nat \ {0}
    BY <1>5, <1>17, <2>1
  <2> QED BY <1>1, <1>4, <2>2, FindsLast
<1>18. CASE ~Has(ss[L], k)
  <2>1. PICK j \in 1 .. Len(x) : j = L - 1 + s
    BY <1>5, SMTT(40)
  <2>2. Has(x[j], k) /\ n <= Contents(x[j]).items[k].n
    BY <1>13, <1>14, <1>16, <2>1 DEF Has
  <2>3. ASSUME NEW i \in j + 1 .. Len(x) PROVE ~Has(x[i], k)
    <3>1. CASE i = L + V
      BY <1>5, <1>18, <3>1
    <3>2. CASE i # L + V
      <4>1. PICK t \in 1 .. V : i = L - 1 + t /\ t > s
        <5>1. i - (L - 1) \in 1 .. V /\ i = L - 1 + (i - (L - 1)) /\ i - (L - 1) > s
          BY <1>5, <2>1, <3>2
        <5> QED BY <5>1
      <4> QED BY <1>15, <1>16, <4>1 DEF Has
    <3> QED BY <3>1, <3>2
  <2> QED BY <1>1, <1>4, <2>2, <2>3 DEF Finds
<1> QED BY <1>17, <1>18

\* After checkHintWithData all records of the chunk are found.
LEMMA FindsCheck ==
    ASSUME NEW ss \in Seq(SplitSet), Len(ss) >= 1, ss[Len(ss)].buf # None,
           NEW hf \in [SplitIds -> HintSet], NEW d \in Seq(Records), FilesOK(hf, d),
           \A n \in 1 .. Len(d) : Has(ss[Len(ss)], d[n].key) => n <= Contents(ss[Len(ss)]).items[d[n].key].n
    PROVE  FindsAll(Checks(ss, hf, d), d, Len(d))
<1> DEFINE x == Loads(ss, hf, d)
           E == Size(hf, d)
           V == Valid(hf, d)
<1>1. FindsAll(x, d, E)
  BY FindsFiles
<1>2. /\ x \in Seq(SplitSet) /\ Len(x) = Len(ss) + V /\ x[Len(ss) + V] = ss[Len(ss)]
      /\ V \in Nat /\ E \in 0 .. Len(d) /\ Len(ss) \in Nat
  BY LoadsShape, ValidFacts, SizeFacts, Empty
<1> HIDE DEF x, E, V
<1>3. CASE E < Len(d)
  <2>1. Len(x) >= 1 /\ x[Len(x)].buf # None
    BY <1>2
  <2>2. FindsAll(SetRecords(x, d, E), d, Len(d))
    BY <1>1, <1>2, <2>1, FindsRead
  <2>3. SetRecords(x, d, E) \in Seq(SplitSet)
    BY <1>2, <2>1, RecordsShape
  <2>4. FindsAll(Dumped(SetRecords(x, d, E)) \o <<NewSplit>>, d, Len(d))
    BY <2>2, <2>3, FindsDumped
  <2> QED BY <1>3, <2>4 DEF Checks, x, E
<1>4. CASE ~(E < Len(d))
  <2>1. E = Len(d)
    BY <1>2, <1>4, Empty
  <2> QED BY <1>1, <1>4, <2>1 DEF Checks, x, E
<1> QED BY <1>3, <1>4

\* The last split of a chunk knows of no record that is older than one found
\* before it.
LEMMA LastTells ==
    ASSUME NEW ss \in Seq(SplitSet), Len(ss) >= 1, NEW hf, NEW d, Len(d) \in Nat,
           Kept(ss, d, hf, Len(d)) \/ Blank(ss[Len(ss)])
    PROVE  /\ ss[Len(ss)].buf # None
           /\ \A n \in 1 .. Len(d) :
                 Has(ss[Len(ss)], d[n].key) => n <= Contents(ss[Len(ss)]).items[d[n].key].n
<1>1. PICK L \in Nat \ {0} : L = Len(ss)
  BY Empty
<1>2. CASE Blank(ss[L])
  <2>1. ss[L].buf # None /\ DOMAIN ss[L].buf.items = {}
    BY <1>2 DEF Blank
  <2>2. \A k : ~Has(ss[L], k)
    BY <2>1 DEF Has, Contents
  <2> QED BY <1>1, <2>1, <2>2
<1>3. CASE Kept(ss, d, hf, Len(d))
  <2>1. PICK b : Bounds(ss, d, b, Len(d))
    BY <1>3 DEF Kept
  <2>2. ss[L].buf # None /\ Exact(ss[L].buf, d, b[L - 1], b[L])
    <3>1. L \in 1 .. Len(ss)
      BY <1>1
    <3> QED BY <1>1, <2>1, <3>1 DEF Bounds
  <2>3. b[L] = Len(d) /\ b[L - 1] \in Nat
    <3>1. L - 1 \in 0 .. Len(ss)
      BY <1>1
    <3> QED BY <1>1, <2>1, <3>1, BoundsFacts
  <2>4. ASSUME NEW n \in 1 .. Len(d), Has(ss[L], d[n].key)
        PROVE  n <= Contents(ss[L]).items[d[n].key].n
    <3>1. Contents(ss[L]) = ss[L].buf /\ d[n].key \in DOMAIN ss[L].buf.items
      BY <2>2, <2>4, ContentsOf, SMTT(40) DEF Has
    <3> DEFINE i == ss[L].buf.items[d[n].key].n
    <3>2. /\ i \in b[L - 1] + 1 .. Len(d)
          /\ \A x \in b[L - 1] + 1 .. Len(d) : d[x].key = d[n].key => x <= i
      BY <2>2, <2>3, <3>1 DEF Exact
    <3> HIDE DEF i
    <3>3. n <= i
      <4>1. CASE n \in b[L - 1] + 1 .. Len(d)
        BY <3>2, <4>1
      <4>2. CASE n \notin b[L - 1] + 1 .. Len(d)
        <5>1. n <= b[L - 1]
          BY <2>3, <4>2
        <5> QED BY <2>3, <3>2, <5>1
      <4> QED BY <4>1, <4>2
    <3> QED BY <3>1, <3>3 DEF i
  <2> QED BY <1>1, <2>2, <2>4
<1> QED BY <1>1, <1>2, <1>3

\* When the files reach to the end of the data all splits but the last are in files.
LEMMA FullKept ==
    ASSUME NEW ss \in Seq(SplitSet), Len(ss) >= 1, NEW hf \in [SplitIds -> HintSet],
           NEW d \in Seq(Records), FilesOK(hf, d), Kept(ss, d, hf, Len(d)), Size(hf, d) = Len(d)
    PROVE  \A j \in 1 .. Len(ss) - 1 : ss[j].file # None
<1>1. PICK L \in Nat \ {0}, V \in Nat, m \in Nat : L = Len(ss) /\ V = Valid(hf, d) /\ m = Len(d)
  BY ValidFacts, Empty
<1>2. PICK b : Bounds(ss, d, b, m)
  BY <1>1 DEF Kept
<1>3. /\ b \in [0 .. L -> Nat] /\ b[0] = 0 /\ b[L] = m
      /\ \A i, j \in 0 .. L : i < j => b[i] <= b[j] /\ (j < L => b[i] < b[j])
      /\ \A j \in 0 .. L : b[j] <= m
      /\ \A j \in 0 .. L - 1 : j <= b[j]
  BY <1>1, <1>2, BoundsFacts
<1>4. /\ V = 0 => m = 0
      /\ V > 0 => m = hf[V].end /\ m > 0
      /\ \A s \in 1 .. V : s \in SplitIds /\ hf[s] # None
  BY <1>1, SizeFacts, ValidFacts
<1>5. \A s \in SplitIds : hf[s] = IF s < L THEN ss[s].file ELSE None
  BY <1>1 DEF Kept
<1>6. SUFFICES ASSUME NEW j \in 1 .. L - 1 PROVE ss[j].file # None
  BY <1>1
<1>7. L - 1 \in 0 .. L - 1 /\ L - 1 \in 0 .. L /\ L - 1 >= 1
  BY <1>1
<1>8. V > 0 /\ m > 0
  BY <1>3, <1>4, <1>7
<1>9. V < L /\ V \in SplitIds /\ hf[V] = ss[V].file /\ ss[V].file # None
  <2>1. V \in 1 .. V
    BY <1>8
  <2> QED BY <1>4, <1>5, <2>1
<1>10. b[V] = m
  <2>1. V \in 1 .. Len(ss) /\ V - 1 \in 0 .. L /\ V \in 0 .. L
    BY <1>1, <1>8, <1>9
  <2>2. Exact(hf[V], d, b[V - 1], b[V])
    BY <1>2, <1>9, <2>1 DEF Bounds
  <2> QED BY <1>3, <1>4, <1>8, <2>1, <2>2 DEF Exact
<1>11. V = L - 1
  <2> SUFFICES ASSUME V < L - 1 PROVE FALSE
    BY <1>1, <1>9
  <2>1. V \in 0 .. L /\ L - 1 < L
    BY <1>1, <1>9
  <2>2. b[V] < b[L - 1] /\ b[L - 1] <= m /\ b[L - 1] \in Nat
    BY <1>3, <1>7, <2>1
  <2> QED BY <1>1, <1>10, <2>2
<1>12. j \in 1 .. V /\ j < L
  BY <1>1, <1>11
<1> QED BY <1>4, <1>5, <1>12

\* After checkHintWithData all splits but the last are in files, unless a buffer
\* was lost.
LEMMA CheckedFull ==
    ASSUME NEW ss \in Seq(SplitSet), Len(ss) >= 1, NEW hf \in [SplitIds -> HintSet],
           NEW d \in Seq(Records), FilesOK(hf, d),
           Kept(ss, d, hf, Len(d)) \/ Quiet(ss, d, hf),
           \A j \in 1 .. Len(ss) : ~Lost(ss[j])
    PROVE  /\ \A j \in 1 .. Len(Checks(ss, hf, d)) - 1 : Checks(ss, hf, d)[j].file # None
           /\ Checks(ss, hf, d)[Len(Checks(ss, hf, d))].buf # None
<1> DEFINE x == Loads(ss, hf, d)
           E == Size(hf, d)
           V == Valid(hf, d)
           r == SetRecords(x, d, E)
           q == Checks(ss, hf, d)
<1>1. PICK L \in Nat \ {0} : L = Len(ss)
  BY Empty
<1>2. ss[L].buf # None
  BY <1>1, LastTells, Empty DEF Quiet
<1>3. V \in Nat /\ E \in 0 .. Len(d) /\ Len(d) \in Nat /\ \A s \in 1 .. V : hf[s] # None
  BY ValidFacts, SizeFacts, Empty
<1>4. /\ x \in Seq(SplitSet) /\ Len(x) = L + V
      /\ \A j \in 1 .. L - 1 : x[j] = ss[j]
      /\ \A s \in 1 .. V : x[L - 1 + s] = Split(None, hf[s])
      /\ x[L + V] = ss[L]
  <2> HIDE DEF x, V
  <2>1. LET R == Loads(ss, hf, d)
            W == Valid(hf, d)
        IN  /\ R \in Seq(SplitSet) /\ Len(R) = Len(ss) + W
            /\ \A j \in 1 .. Len(ss) - 1 : R[j] = ss[j]
            /\ \A s \in 1 .. W : R[Len(ss) - 1 + s] = Split(None, hf[s])
            /\ R[Len(ss) + W] = ss[Len(ss)]
    BY LoadsShape
  <2> QED BY <1>1, <2>1 DEF x, V
<1>q. q = IF E < Len(d) THEN Dumped(r) \o <<NewSplit>> ELSE x
  BY DEF Checks
<1>r. r = SetRecords(x, d, E)
  OBVIOUS
<1>k. ~(E < Len(d)) => \A j \in 1 .. L - 1 : ss[j].file # None
  <2> SUFFICES ASSUME ~(E < Len(d)), NEW j \in 1 .. L - 1 PROVE ss[j].file # None
    OBVIOUS
  <2>1. E = Len(d)
    <3> HIDE DEF E
    <3> QED BY <1>3
  <2>2. CASE Kept(ss, d, hf, Len(d))
    BY <1>1, <2>1, <2>2, FullKept
  <2>3. CASE Quiet(ss, d, hf)
    <3>1. j \in 1 .. Len(ss) - 1 /\ j \in 1 .. Len(ss)
      BY <1>1
    <3> QED BY <2>3, <3>1 DEF Quiet, Lost
  <2> QED BY <2>2, <2>3
<1> HIDE DEF x, E, V, r, q
<1>5. ASSUME NEW s \in 1 .. V PROVE x[L - 1 + s].file # None
  <2>1. x[L - 1 + s] = Split(None, hf[s]) /\ hf[s] # None
    BY <1>3, <1>4
  <2> QED BY <2>1, SplitShape
<1>6. CASE E < Len(d)
  <2>1. q = Dumped(r) \o <<NewSplit>>
    BY <1>6, <1>q
  <2>2. Len(x) >= 1 /\ x[Len(x)].buf # None /\ Len(x) \in Nat
    BY <1>2, <1>3, <1>4
  <2>3. r \in Seq(SplitSet) /\ Len(r) >= Len(x) /\ \A j \in 1 .. Len(x) - 1 : r[j] = x[j]
    BY <1>3, <1>4, <1>r, <2>2, RecordsShape
  <2>4. \A j \in Len(x) .. Len(r) : r[j].buf # None
    BY <1>3, <1>4, <1>r, <2>2, RecordsBufs
  <2>5. /\ q \in Seq(SplitSet) /\ Len(q) = Len(r) + 1 /\ Len(r) \in Nat
        /\ \A j \in 1 .. Len(r) : q[j].file = IF r[j].buf # None THEN r[j].buf ELSE r[j].file
    BY <2>1, <2>3, DumpedShape, Empty
  <2>6. \A j \in 1 .. L - 1 : x[j].buf # None \/ x[j].file # None
    BY <1>1, <1>4 DEF Lost
  <2>7. ASSUME NEW j \in 1 .. Len(q) - 1 PROVE q[j].file # None
    <3>1. j \in 1 .. Len(r)
      BY <2>5
    <3>2. CASE j >= Len(x)
      <4>1. j \in Len(x) .. Len(r)
        BY <2>2, <3>1, <3>2
      <4> QED BY <2>4, <2>5, <3>1, <4>1
    <3>3. CASE j < L
      <4>1. j \in 1 .. L - 1 /\ j \in 1 .. Len(x) - 1
        BY <1>1, <1>3, <1>4, <3>1, <3>3
      <4> QED BY <2>3, <2>5, <2>6, <3>1, <4>1
    <3>4. CASE ~(j >= Len(x)) /\ ~(j < L)
      <4>1. j - (L - 1) \in 1 .. V /\ L - 1 + (j - (L - 1)) = j /\ j \in 1 .. Len(x) - 1
        BY <1>1, <1>3, <1>4, <3>1, <3>4
      <4>2. x[j].file # None
        BY <1>5, <4>1
      <4> QED BY <2>3, <2>5, <3>1, <4>1, <4>2
    <3> QED BY <3>2, <3>3, <3>4
  <2>8. q[Len(q)].buf # None
    <3>1. q[Len(r) + 1] = NewSplit /\ NewSplit.buf # None
      BY <2>1, <2>3, DumpedShape, SplitShape, EmptyHints
    <3> QED BY <2>5, <3>1
  <2> QED BY <2>7, <2>8 DEF q
<1>7. CASE ~(E < Len(d))
  <2>1. q = x
    BY <1>7, <1>q
  <2>2. ASSUME NEW j \in 1 .. Len(q) - 1 PROVE q[j].file # None
    <3>1. CASE j < L
      <4>1. j \in 1 .. L - 1
        BY <1>1, <3>1
      <4> QED BY <1>4, <1>7, <1>k, <2>1, <4>1
    <3>2. CASE ~(j < L)
      <4>1. j - (L - 1) \in 1 .. V /\ L - 1 + (j - (L - 1)) = j
        BY <1>1, <1>3, <1>4, <2>1, <3>2
      <4> QED BY <1>5, <2>1, <4>1
    <3> QED BY <3>1, <3>2
  <2>3. q[Len(q)].buf # None
    BY <1>1, <1>2, <1>4, <2>1
  <2> QED BY <2>2, <2>3 DEF q
<1> QED BY <1>6, <1>7

-----------------------------------------------------------------------------
(* The invariant of lookups *)

NoLost == \A c \in Chunks : \A j \in DOMAIN splits[c] : ~Lost(splits[c][j])

\* The splits of a chunk whose hint files are loaded find every record that has
\* a hint.
FindInv == loaded \subseteq Chunks /\ \A c \in loaded : FindsAll(splits[c], data[c], Hinted(c))
OrderInv == \A c \in Chunks : Ordered(splits[c])

\* The files of the first s splits find record n of k, or a later one.
InFiles(ss, s, k, n) ==
    \E j \in 1 .. s :
        /\ k \in DOMAIN ss[j].file.items /\ n <= ss[j].file.items[k].n
        /\ \A i \in j + 1 .. s : k \notin DOMAIN ss[i].file.items

Readers == [at : {"idle", "mem", "file", "done"}, key : Keys \cup {"none"}, chunk : Chunks,
            split : Nat, floor : Nat, got : Nat]

\* The record a lookup has to find is before it, ...
Sought(c, n) ==
    /\ reader.floor = Pos(c, n) /\ data[c][n].key = reader.key /\ c <= reader.chunk
    /\ reader.at = "file" /\ c = reader.chunk => InFiles(splits[c], reader.split, reader.key, n)
\* ... and the splits whose files it is going to read have some.
ReaderInv ==
    /\ reader.at \in {"mem", "file"} =>
          Running /\ reader \in Readers /\ \E c \in loaded : \E n \in 1 .. Hinted(c) : Sought(c, n)
    /\ reader.at = "file" =>
          /\ reader.split \in 0 .. Len(splits[reader.chunk]) - 1
          /\ \A j \in 1 .. reader.split : splits[reader.chunk][j].file # None
    /\ reader.at = "done" => reader.got >= reader.floor

Lookups == FindInv /\ OrderInv /\ ReaderInv
LookupInv == ~ahead => DumpInv /\ (NoLost => Lookups)

LEMMA SplitFacts ==
    ASSUME Core, NEW c \in Chunks
    PROVE  /\ splits[c] \in Seq(SplitSet) /\ Len(splits[c]) \in Nat \ {0} /\ hfile[c] \in [SplitIds -> HintSet]
           /\ DOMAIN splits[c] = 1 .. Len(splits[c])
           /\ data[c] \in Seq(Records) /\ Len(data[c]) \in Nat /\ Len(data[c]) <= DataFileMax
           /\ Hinted(c) \in Nat /\ Hinted(c) <= Len(data[c]) /\ FilesOK(hfile[c], data[c])
           /\ splits[c][Len(splits[c])].buf # None /\ splits[c][Len(splits[c])].file = None
           /\ \A j \in 1 .. Len(splits[c]) :
                 splits[c][j].buf # None /\ splits[c][j].file # None => splits[c][j].buf = splits[c][j].file
<1>0. HintsOK /\ DataOK /\ WriterInv /\ ChunkInv(c) /\ FilesOK(hfile[c], data[c])
  BY DEF Core
<1>1. /\ splits[c] \in Seq(SplitSet) /\ Len(splits[c]) >= 1 /\ hfile[c] \in [SplitIds -> HintSet]
      /\ data[c] \in Seq(Records) /\ Len(data[c]) <= DataFileMax
  BY <1>0 DEF HintsOK, DataOK
<1>2. PICK L \in Nat \ {0} : L = Len(splits[c])
  BY <1>1, Empty
<1>3. Len(data[c]) \in Nat /\ DOMAIN splits[c] = 1 .. L
  BY <1>1, <1>2, Empty
<1>4. Hinted(c) \in Nat /\ Hinted(c) <= Len(data[c])
  <2>1. writer.at # "idle" /\ c = head => Len(data[c]) >= 1
    BY <1>0 DEF WriterInv
  <2> QED BY <1>3, <2>1 DEF Hinted
<1>5. /\ splits[c][L].buf # None /\ splits[c][L].file = None
      /\ \A j \in 1 .. L : splits[c][j].buf # None /\ splits[c][j].file # None => splits[c][j].buf = splits[c][j].file
  <2>1. CASE splits[c] = <<NewSplit>>
    <3>1. L = 1 /\ splits[c][1] = NewSplit
      BY <1>2, <2>1
    <3>2. \A j \in 1 .. L : j = 1
      BY <3>1
    <3>3. NewSplit.buf # None /\ NewSplit.file = None
      BY SplitShape, EmptyHints
    <3> QED BY <3>1, <3>2, <3>3
  <2>2. CASE Kept(splits[c], data[c], hfile[c], Hinted(c))
    BY <1>2, <2>2 DEF Kept, Bounds
  <2>3. CASE Quiet(splits[c], data[c], hfile[c])
    <3>1. splits[c][L].buf # None /\ splits[c][L].file = None
      BY <1>2, <2>3 DEF Quiet, Blank
    <3>2. \A j \in 1 .. L : j = L \/ j \in 1 .. L - 1
      OBVIOUS
    <3> QED BY <1>2, <2>3, <3>1, <3>2 DEF Quiet
  <2> QED BY <1>0, <2>1, <2>2, <2>3 DEF ChunkInv
<1> QED BY <1>0, <1>1, <1>2, <1>3, <1>4, <1>5

-----------------------------------------------------------------------------
(* The steps that change splits *)

\* Files stay, and what is lost stays lost.
Moves(ss, rr) ==
    /\ Len(rr) \in Nat /\ Len(ss) <= Len(rr)
    /\ \A j \in 1 .. Len(ss) - 1 :
          /\ Lost(ss[j]) => Lost(rr[j])
          /\ ss[j].file # None => rr[j].file = ss[j].file

\* Chunk c gets the splits rr.
SplitStep(c, rr) ==
    /\ splits' = [splits EXCEPT ![c] = rr] /\ Moves(splits[c], rr)
    /\ data' = data /\ loaded' \in {loaded, loaded \cup {c}}
    /\ \A x \in Chunks : Hinted(x)' = IF x = c THEN Hinted(c)' ELSE Hinted(x)
    /\ Hinted(c)' \in Nat /\ Hinted(c) <= Hinted(c)'
    /\ NoLost /\ NoLost' /\ Ordered(splits[c]) => Ordered(rr)
    /\ NoLost /\ NoLost' /\ (c \in loaded => FindsAll(splits[c], data[c], Hinted(c)))
          => (c \in loaded' => FindsAll(rr, data[c], Hinted(c)'))

\* Buffers of splits may go to files, whatever there is in the splits stays.
LEMMA SplitSame ==
    ASSUME NEW ss, NEW rr, Len(ss) \in Nat, Len(rr) = Len(ss), NEW d, NEW m, FindsAll(ss, d, m),
           \A j \in 1 .. Len(ss) : Contents(rr[j]) = Contents(ss[j])
    PROVE  FindsAll(rr, d, m)
<1> SUFFICES ASSUME NEW n \in 1 .. m PROVE Finds(rr, d[n].key, n)
  BY DEF FindsAll
<1>1. Finds(ss, d[n].key, n)
  BY DEF FindsAll
<1>2. \A j \in 1 .. Len(ss) : Has(rr[j], d[n].key) <=> Has(ss[j], d[n].key)
  BY DEF Has
<1>3. Len(rr) \in Nat /\ Len(ss) <= Len(rr) /\ \A j \in Len(ss) + 1 .. Len(rr) : FALSE
  OBVIOUS
<1> QED BY <1>1, <1>2, <1>3, FindsSame

LEMMA StepSetHint ==
    ASSUME Core, Core', SetHint
    PROVE  \E c \in Chunks : \E rr : SplitStep(c, rr)
<1>0. DataOK /\ HintsOK /\ ProcsOK /\ WriterInv
  BY DEF Core
<1>1. Running /\ writer.at = "hint" /\ data' = data /\ loaded' = loaded /\ head' = head /\ writer' = NoWriter
  BY DEF SetHint, disk
<1>2. PICK c \in Chunks : c = head
  BY <1>0, <1>1 DEF WriterInv
<1>3. /\ splits[c] \in Seq(SplitSet) /\ data[c] \in Seq(Records) /\ Len(data[c]) \in Nat
      /\ Len(data[c]) <= DataFileMax /\ c \in Nat /\ splits[c][Len(splits[c])].buf # None
  BY <1>2, SplitFacts, Numbers
<1>4. PICK L \in Nat \ {0} : L = Len(splits[c])
  BY <1>2, SplitFacts
<1>5. PICK m \in Nat : m + 1 = Len(data[c]) /\ m = Hinted(c)
  <2>1. Len(data[c]) >= 1
    BY <1>0, <1>1, <1>2 DEF WriterInv
  <2>2. Len(data[c]) - 1 \in Nat /\ (Len(data[c]) - 1) + 1 = Len(data[c])
    BY <1>3, <2>1
  <2> QED BY <1>1, <1>2, <2>2 DEF Hinted
<1>6. /\ writer.key \in Keys /\ writer.pos = Pos(c, m + 1) /\ writer.live \in BOOLEAN
      /\ data[c][m + 1] = [key |-> writer.key, live |-> writer.live]
  BY <1>0, <1>1, <1>2, <1>5 DEF WriterInv, ProcsOK, Writers
<1>7. ChunkOf(writer.pos) = c /\ NumberOf(writer.pos) = m + 1
  <2>1. m + 1 \in 1 .. DataFileMax
    BY <1>3, <1>5, Numbers
  <2> QED BY <1>3, <1>6, <2>1, Positions
<1> DEFINE k == writer.key
           item == [n |-> m + 1, live |-> writer.live]
           rr == SetItem(splits[c], k, item)
<1>8. splits' = [splits EXCEPT ![c] = rr]
  BY <1>0, <1>7 DEF SetHint, HintsOK
<1>9. k \in Keys /\ item \in HintItems /\ item.n = m + 1 /\ k = data[c][m + 1].key
  BY <1>6 DEF HintItems
<1>r. rr = SetItem(splits[c], k, item)
  OBVIOUS
<1> HIDE DEF k, item, rr
<1>10. /\ rr \in Seq(SplitSet) /\ \A j \in 1 .. L - 1 : rr[j] = splits[c][j]
       /\ Len(rr) = L \/ Len(rr) = L + 1
       /\ Len(rr) = L + 1 => rr[L].file = splits[c][L].file /\ rr[L + 1].buf # None
       /\ rr[L].buf # None
  <2>0. PICK ss \in Seq(SplitSet) : ss = splits[c] /\ L = Len(ss)
    BY <1>3, <1>4
  <2> DEFINE e == IF ss[L].buf.end >= item.n - 1 THEN ss[L].buf.end ELSE item.n - 1
  <2>1. /\ rr \in Seq(SplitSet) /\ \A j \in 1 .. L - 1 : rr[j] = ss[j]
        /\ Fits(ss[L].buf, k) => Len(rr) = L /\ rr[L] = Split(BufferSet(ss[L].buf, k, item), ss[L].file)
        /\ ~Fits(ss[L].buf, k) =>
              /\ Len(rr) = L + 1 /\ rr[L] = Split(Hint(ss[L].buf.items, e), ss[L].file)
              /\ rr[L + 1] = Split(BufferSet(EmptyBuffer, k, item), None)
    <3>1. Len(ss) >= 1 /\ rr = SetItem(ss, k, item)
      BY <1>4, <1>r, <2>0
    <3>2. LET M == Len(ss)
              f == ss[M].buf.end
          IN  /\ rr \in Seq(SplitSet) /\ \A j \in 1 .. M - 1 : rr[j] = ss[j]
              /\ Fits(ss[M].buf, k) => Len(rr) = M /\ rr[M] = Split(BufferSet(ss[M].buf, k, item), ss[M].file)
              /\ ~Fits(ss[M].buf, k) =>
                    /\ Len(rr) = M + 1
                    /\ rr[M] = Split(Hint(ss[M].buf.items, IF f >= item.n - 1 THEN f ELSE item.n - 1), ss[M].file)
                    /\ rr[M + 1] = Split(BufferSet(EmptyBuffer, k, item), None)
      BY <1>9, <3>1, SetItemShape, ZenonT(40)
    <3> QED BY <2>0, <3>2
  <2>2. ss[L].buf \in HintSet
    <3>1. L \in 1 .. Len(ss)
      BY <2>0
    <3> QED BY <3>1, ElementOfSeq, SplitShape
  <2>3. BufferSet(ss[L].buf, k, item) # None /\ BufferSet(EmptyBuffer, k, item) # None
    BY <1>9, <2>2, BufferSetShape, EmptyHints
  <2>4. Hint(ss[L].buf.items, e) # None
    <3>1. e # -1
      BY <1>9, <2>2, HintShape
    <3> HIDE DEF e
    <3>2. Hint(ss[L].buf.items, e).end = e /\ None.end = -1
      BY DEF Hint, None
    <3> QED BY <3>1, <3>2
  <2> HIDE DEF e
  <2> QED BY <2>0, <2>1, <2>3, <2>4, SplitShape
<1>11. Moves(splits[c], rr)
  <2>1. Len(rr) \in Nat /\ Len(splits[c]) <= Len(rr)
    BY <1>4, <1>10
  <2> QED BY <1>4, <1>10, <2>1 DEF Moves
<1>12. Hinted(c)' = m + 1 /\ \A x \in Chunks : x # c => Hinted(x)' = Hinted(x)
  BY <1>1, <1>2, <1>5, IdleWriter DEF Hinted
<1>13. Ordered(splits[c]) => Ordered(rr)
  <2> SUFFICES ASSUME Ordered(splits[c]), NEW j \in 1 .. Len(rr), rr[j].buf = None, NEW i \in 1 .. j
               PROVE  rr[i].file # None
    BY DEF Ordered
  <2>1. j \in 1 .. L - 1
    <3>1. j # L /\ (Len(rr) = L + 1 => j # L + 1)
      BY <1>10
    <3> QED BY <1>10, <3>1
  <2>2. splits[c][j].buf = None /\ j \in 1 .. Len(splits[c]) /\ i \in 1 .. L - 1
    BY <1>4, <1>10, <2>1
  <2>3. splits[c][i].file # None
    BY <2>2 DEF Ordered
  <2> QED BY <1>10, <2>2, <2>3
<1>14. FindsAll(splits[c], data[c], Hinted(c)) => FindsAll(rr, data[c], m + 1)
  <2> SUFFICES ASSUME FindsAll(splits[c], data[c], m) PROVE FindsAll(rr, data[c], m + 1)
    BY <1>5
  <2>1. splits[c][L].buf # None
    BY <1>3, <1>4
  <2> QED BY <1>3, <1>4, <1>9, <1>r, <2>1, FindsSet, SMTT(40)
<1>15. Hinted(c)' \in Nat /\ Hinted(c) <= Hinted(c)' /\ (c \in loaded' => c \in loaded)
  BY <1>1, <1>5, <1>12
<1>16. SplitStep(c, rr)
  BY <1>1, <1>8, <1>11, <1>12, <1>13, <1>14, <1>15 DEF SplitStep
<1> QED BY <1>16

\* No record gets a hint.
LEMMA StepUnhinted ==
    ASSUME Core, NEW c \in Chunks, NEW rr, splits' = [splits EXCEPT ![c] = rr], Moves(splits[c], rr),
           UNCHANGED <<data, head, writer, loaded>>,
           NoLost /\ NoLost' /\ Ordered(splits[c]) => Ordered(rr),
           NoLost /\ NoLost' /\ FindsAll(splits[c], data[c], Hinted(c)) => FindsAll(rr, data[c], Hinted(c))
    PROVE  SplitStep(c, rr)
<1>1. \A x \in Chunks : Hinted(x)' = Hinted(x)
  BY DEF Hinted
<1>2. Hinted(c) \in Nat /\ Hinted(c)' = Hinted(c)
  BY <1>1, SplitFacts
<1>3. Hinted(c)' \in Nat /\ Hinted(c) <= Hinted(c)' /\ (c \in loaded' => c \in loaded)
  BY <1>2
<1> QED BY <1>1, <1>2, <1>3 DEF SplitStep

\* trydump puts a new split behind the last.
LEMMA StepDumpLast ==
    ASSUME Core, NEW g \in Dumpers, DumpLast(g)
    PROVE  \E c \in Chunks : \E rr : SplitStep(c, rr)
<1>1. PICK c \in Chunks : c = frame[g].chunk
  BY FrameFields DEF Core
<1>2. PICK ss \in Seq(SplitSet), L \in Nat \ {0} : ss = splits[c] /\ L = Len(ss)
  BY SplitFacts
<1>3. PICK rr : rr = Append(ss, NewSplit)
  OBVIOUS
<1>4. splits' = [splits EXCEPT ![c] = rr] /\ UNCHANGED <<data, head, writer, loaded>>
  BY <1>1, <1>2, <1>3 DEF DumpLast, Rotate, Core, HintsOK, disk
<1>5. rr \in Seq(SplitSet) /\ Len(rr) = L + 1 /\ rr[L + 1] = NewSplit /\ \A j \in 1 .. L : rr[j] = ss[j]
  BY <1>2, <1>3, SplitShape, AppendProperties
<1>6. Moves(ss, rr)
  BY <1>2, <1>5 DEF Moves
<1>7. Ordered(ss) => Ordered(rr)
  <2> SUFFICES ASSUME Ordered(ss), NEW j \in 1 .. Len(rr), rr[j].buf = None, NEW i \in 1 .. j
               PROVE  rr[i].file # None
    BY DEF Ordered
  <2>1. NewSplit.buf # None
    BY SplitShape, EmptyHints
  <2>2. j \in 1 .. L /\ i \in 1 .. L
    BY <1>5, <2>1
  <2> QED BY <1>2, <1>5, <2>2 DEF Ordered
<1>8. ASSUME NEW d, NEW m, FindsAll(ss, d, m) PROVE FindsAll(rr, d, m)
  <2> SUFFICES ASSUME NEW n \in 1 .. m PROVE Finds(rr, d[n].key, n)
    BY DEF FindsAll
  <2>1. Finds(ss, d[n].key, n)
    BY <1>8 DEF FindsAll
  <2>2. \A j \in Len(ss) + 1 .. Len(rr) : ~Has(rr[j], d[n].key)
    <3>1. \A j \in Len(ss) + 1 .. Len(rr) : j = L + 1
      BY <1>2, <1>5
    <3> QED BY <1>5, <3>1, NewHasNone
  <2>3. Len(rr) \in Nat /\ Len(ss) <= Len(rr)
    BY <1>2, <1>5
  <2>4. \A j \in 1 .. Len(ss) : /\ Has(rr[j], d[n].key) <=> Has(ss[j], d[n].key)
                                /\ Has(ss[j], d[n].key) =>
                                      Contents(rr[j]).items[d[n].key] = Contents(ss[j]).items[d[n].key]
    BY <1>2, <1>5
  <2> QED BY <1>2, <2>1, <2>2, <2>3, <2>4, FindsSame
<1>9. SplitStep(c, rr)
  BY <1>2, <1>4, <1>6, <1>7, <1>8, StepUnhinted
<1> QED BY <1>9

\* What a dump of split j of chunk c changes.
LEMMA DumpAt ==
    ASSUME Core, NEW g \in Dumpers, frame[g].at \in {"write", "forget", "failed"}
    PROVE  \E c \in Chunks : \E j \in Nat : \E ss \in Seq(SplitSet) : \E L \in Nat :
              /\ c = frame[g].chunk /\ j = frame[g].j /\ ss = splits[c] /\ L = Len(ss)
              /\ j \in 1 .. L - 1 /\ ss[j] \in SplitSet
              /\ \A i \in 1 .. L : ss[i].buf # None /\ ss[i].file # None => ss[i].buf = ss[i].file
<1>0. HintsOK /\ ProcsOK /\ FrameInv
  BY DEF Core
<1>1. PICK c \in Chunks, j \in Nat : c = frame[g].chunk /\ j = frame[g].j /\ frame[g].l \in Nat
  BY <1>0, FrameFields
<1>2. PICK ss \in Seq(SplitSet), L \in Nat \ {0} : ss = splits[c] /\ L = Len(ss)
  BY SplitFacts
<1>3. j \in 1 .. L - 1
  <2>1. j \in 1 .. frame[g].l /\ j < L
    BY <1>0, <1>1, <1>2 DEF FrameInv
  <2> QED BY <1>1, <1>2, <2>1
<1>4. ss[j] \in SplitSet
  <2>1. j \in 1 .. Len(ss)
    BY <1>2, <1>3
  <2> QED BY <2>1, ElementOfSeq
<1>5. \A i \in 1 .. L : ss[i].buf # None /\ ss[i].file # None => ss[i].buf = ss[i].file
  BY <1>2, SplitFacts
<1>6. L \in Nat
  OBVIOUS
<1> DEFINE P(x, i, r, n) ==
             /\ x = frame[g].chunk /\ i = frame[g].j /\ r = splits[x] /\ n = Len(r)
             /\ i \in 1 .. n - 1 /\ r[i] \in SplitSet
             /\ \A y \in 1 .. n : r[y].buf # None /\ r[y].file # None => r[y].buf = r[y].file
<1>7. P(c, j, ss, L)
  BY <1>1, <1>2, <1>3, <1>4, <1>5
<1> HIDE DEF P
<1>8. \E x \in Chunks : \E i \in Nat : \E r \in Seq(SplitSet) : \E n \in Nat : P(x, i, r, n)
  BY <1>6, <1>7
<1> QED BY <1>8 DEF P

LEMMA StepDumpFile ==
    ASSUME Core, NEW g \in Dumpers, DumpFile(g)
    PROVE  \E c \in Chunks : \E rr : SplitStep(c, rr)
<1>1. PICK c \in Chunks, j \in Nat, ss \in Seq(SplitSet), L \in Nat :
         /\ c = frame[g].chunk /\ j = frame[g].j /\ ss = splits[c] /\ L = Len(ss)
         /\ j \in 1 .. L - 1 /\ ss[j] \in SplitSet
         /\ \A i \in 1 .. L : ss[i].buf # None /\ ss[i].file # None => ss[i].buf = ss[i].file
  BY DumpAt DEF DumpFile
<1>2. PICK x : x = [ss[j] EXCEPT !.file = ss[j].buf]
  OBVIOUS
<1>3. PICK rr : rr = [ss EXCEPT ![j] = x]
  BY ZenonT(40)
<1>4. /\ splits' = [splits EXCEPT ![c] = rr] /\ UNCHANGED <<data, head, writer, loaded>>
      /\ ss[j].buf # None
  BY <1>1, <1>2, <1>3, ZenonT(40) DEF DumpFile, Core, HintsOK
<1>5. x \in SplitSet /\ x.file = ss[j].buf /\ x.buf = ss[j].buf
  BY <1>1, <1>2 DEF SplitSet
<1>6. j \in 1 .. L /\ L \in Nat \ {0}
  BY <1>1
<1>7. Len(rr) = L /\ rr[j] = x /\ \A i \in 1 .. L : i # j => rr[i] = ss[i]
  <2>1. j \in 1 .. Len(ss)
    BY <1>1, <1>6, SMTT(40)
  <2> QED BY <1>1, <1>3, <1>5, <2>1, SplitExcept
<1>8. Moves(ss, rr)
  BY <1>1, <1>4, <1>5, <1>7, SMTT(40) DEF Moves, Lost
<1>9. Ordered(ss) => Ordered(rr)
  <2> SUFFICES ASSUME Ordered(ss), NEW n \in 1 .. Len(rr), rr[n].buf = None, NEW i \in 1 .. n
               PROVE  rr[i].file # None
    BY DEF Ordered
  <2>1. n \in 1 .. Len(ss) /\ ss[n].buf = None /\ i \in 1 .. L
    BY <1>1, <1>4, <1>5, <1>7, SMTT(40)
  <2>2. ss[i].file # None
    BY <2>1 DEF Ordered
  <2> QED BY <1>4, <1>5, <1>7, <2>1, <2>2
<1>10. \A i \in 1 .. L : Contents(rr[i]) = Contents(ss[i])
  BY <1>4, <1>5, <1>7 DEF Contents
<1>11. ASSUME NEW d, NEW m, FindsAll(ss, d, m) PROVE FindsAll(rr, d, m)
  BY <1>1, <1>7, <1>10, <1>11, SplitSame
<1>12. SplitStep(c, rr)
  BY <1>1, <1>4, <1>8, <1>9, <1>11, StepUnhinted
<1> QED BY <1>12

LEMMA StepDropBuffer ==
    ASSUME Core, DumpInv, NEW g \in Dumpers, DropBuffer(g)
    PROVE  \E c \in Chunks : \E rr : SplitStep(c, rr)
<1>1. PICK c \in Chunks, j \in Nat, ss \in Seq(SplitSet), L \in Nat :
         /\ c = frame[g].chunk /\ j = frame[g].j /\ ss = splits[c] /\ L = Len(ss)
         /\ j \in 1 .. L - 1 /\ ss[j] \in SplitSet
         /\ \A i \in 1 .. L : ss[i].buf # None /\ ss[i].file # None => ss[i].buf = ss[i].file
  BY DumpAt DEF DropBuffer
<1>2. PICK x : x = [ss[j] EXCEPT !.buf = None]
  OBVIOUS
<1>3. PICK rr : rr = [ss EXCEPT ![j] = x]
  OBVIOUS
<1>4. /\ splits' = [splits EXCEPT ![c] = rr] /\ UNCHANGED <<data, head, writer, loaded>>
  BY <1>1, <1>2, <1>3 DEF DropBuffer, Core, HintsOK, disk
<1>5. x \in SplitSet /\ x.file = ss[j].file /\ x.buf = None
  BY <1>1, <1>2, EmptyHints DEF SplitSet
<1>6. j \in 1 .. L /\ L \in Nat \ {0}
  BY <1>1
<1>7. Len(rr) = L /\ rr[j] = x /\ \A i \in 1 .. L : i # j => rr[i] = ss[i]
  <2>1. j \in 1 .. Len(ss)
    BY <1>1, <1>6, SMTT(40)
  <2> QED BY <1>1, <1>3, <1>5, <2>1, SplitExcept
<1>8. Moves(ss, rr)
  BY <1>1, <1>5, <1>7, SMTT(40) DEF Moves, Lost
<1>9. ASSUME NoLost, NoLost' PROVE ss[j].file # None /\ \A i \in 1 .. j : ss[i].file # None
  <2>1. splits'[c] = rr /\ splits[c] = ss
    BY <1>1, <1>4 DEF Core, HintsOK
  <2>2. DOMAIN rr = 1 .. L /\ DOMAIN ss = 1 .. L
    BY <1>1, <1>3
  <2>3. ~Lost(x) /\ \A i \in 1 .. L : ~Lost(ss[i])
    BY <1>6, <1>7, <1>9, <2>1, <2>2 DEF NoLost
  <2>4. ss[j].file # None
    BY <1>5, <2>3 DEF Lost
  <2>5. \A i \in 1 .. j - 1 : Settled(ss[i])
    <3>1. frame[g].at \in {"forget", "failed"}
      BY DEF DropBuffer
    <3> QED BY <1>1, <3>1 DEF DumpInv, Passed
  <2>6. \A i \in 1 .. j : i = j \/ (i \in 1 .. j - 1 /\ i \in 1 .. L)
    BY <1>1
  <2> QED BY <2>3, <2>4, <2>5, <2>6 DEF Settled, Lost
<1>10. ASSUME NoLost, NoLost', Ordered(ss) PROVE Ordered(rr)
  <2> SUFFICES ASSUME NEW n \in 1 .. Len(rr), rr[n].buf = None, NEW i \in 1 .. n
               PROVE  rr[i].file # None
    BY DEF Ordered
  <2>1. i \in 1 .. L /\ (ss[i].file # None => rr[i].file # None)
    BY <1>5, <1>7
  <2>2. CASE n = j
    BY <1>9, <1>10, <2>1, <2>2
  <2>3. CASE n # j
    <3>1. n \in 1 .. Len(ss) /\ ss[n].buf = None
      BY <1>1, <1>7, <2>3
    <3> QED BY <1>10, <2>1, <3>1 DEF Ordered
  <2> QED BY <2>2, <2>3
<1>11. ASSUME NoLost, NoLost', NEW d, NEW m, FindsAll(ss, d, m) PROVE FindsAll(rr, d, m)
  <2>1. \A i \in 1 .. L : Contents(rr[i]) = Contents(ss[i])
    BY <1>1, <1>5, <1>7, <1>9, <1>11, SMTT(40) DEF Contents
  <2> QED BY <1>1, <1>7, <1>11, <2>1, SplitSame
<1>12. SplitStep(c, rr)
  BY <1>1, <1>4, <1>8, <1>10, <1>11, StepUnhinted
<1> QED BY <1>12

\* checkHintWithData, of a chunk that is not written any more or not opened yet.
LEMMA StepCheckHint ==
    ASSUME Core, NEW c \in Chunks, CheckHint(c), UNCHANGED <<data, head, writer>>,
           Hinted(c) = Len(data[c]),
           splits[c] = <<NewSplit>> \/ Kept(splits[c], data[c], hfile[c], Len(data[c]))
              \/ Quiet(splits[c], data[c], hfile[c])
    PROVE  \E rr : SplitStep(c, rr)
<1>1. PICK ss \in Seq(SplitSet), L \in Nat \ {0} : ss = splits[c] /\ L = Len(ss)
  BY SplitFacts
<1>2. PICK d \in Seq(Records), hf \in [SplitIds -> HintSet] :
         d = data[c] /\ hf = hfile[c] /\ Len(d) \in Nat /\ FilesOK(hf, d)
  BY SplitFacts
<1>3. PICK q : q = Checks(ss, hf, d)
  OBVIOUS
<1>4. /\ splits' = [splits EXCEPT ![c] = q] /\ q \in Seq(SplitSet) /\ Len(q) \in Nat \ {0} /\ L <= Len(q)
      /\ loaded' = loaded \cup {c}
  <2>1. LET r == Checks(splits[c], hfile[c], data[c])
        IN  splits' = [splits EXCEPT ![c] = r] /\ r \in Seq(SplitSet) /\ Len(r) \in Nat \ {0}
            /\ Len(r) >= Len(splits[c])
    BY CheckedChunk
  <2> QED BY <1>1, <1>2, <1>3, <2>1 DEF CheckHint
<1>5. Kept(ss, d, hf, Len(d)) \/ Quiet(ss, d, hf)
  BY <1>1, <1>2, QuietNew
<1>6. Len(ss) >= 1
  BY <1>1
<1>7. \A j \in 1 .. L - 1 :
         \/ q[j] = ss[j]
         \/ q[j].buf = None /\ q[j].file = IF ss[j].buf # None THEN ss[j].buf ELSE ss[j].file
  <2>1. LET r == Checks(ss, hf, d)
        IN  \A j \in 1 .. Len(ss) - 1 :
               \/ r[j] = ss[j]
               \/ r[j].buf = None /\ r[j].file = IF ss[j].buf # None THEN ss[j].buf ELSE ss[j].file
    BY <1>2, <1>6, CheckShape, ZenonT(40)
  <2> QED BY <1>1, <1>3, <2>1, Zenon
<1>8. \A j \in 1 .. L : ss[j].buf # None /\ ss[j].file # None => ss[j].buf = ss[j].file
  BY <1>1, SplitFacts
<1>9. Moves(ss, q)
  <2>1. \A j \in 1 .. L - 1 : j \in 1 .. L
    OBVIOUS
  <2> QED BY <1>1, <1>4, <1>7, <1>8, <2>1 DEF Moves, Lost
<1>10. \A x \in Chunks : Hinted(x)' = Hinted(x)
  BY DEF Hinted
<1>11. ASSUME NoLost' PROVE Ordered(q)
  <2>1. splits'[c] = q
    BY <1>4 DEF Core, HintsOK
  <2>2. \A j \in 1 .. Len(q) : ~Lost(q[j])
    <3>1. DOMAIN q = 1 .. Len(q)
      BY <1>4
    <3> QED BY <1>11, <2>1, <3>1 DEF NoLost
  <2>3. \A j \in 1 .. L : ~Lost(ss[j])
    <3>1. ss[L].buf # None
      BY <1>1, SplitFacts
    <3>2. \A j \in 1 .. L : j = L \/ (j \in 1 .. L - 1 /\ j \in 1 .. Len(q))
      BY <1>1, <1>4
    <3> QED BY <1>1, <1>9, <2>2, <3>1, <3>2 DEF Moves, Lost
  <2>4. (\A j \in 1 .. Len(q) - 1 : q[j].file # None) /\ q[Len(q)].buf # None
    BY <1>1, <1>2, <1>3, <1>5, <1>6, <2>3, CheckedFull
  <2> QED BY <1>4, <2>4 DEF Ordered
<1>12. FindsAll(q, d, Len(d))
  <2>1. /\ ss[Len(ss)].buf # None
        /\ \A n \in 1 .. Len(d) :
              Has(ss[Len(ss)], d[n].key) => n <= Contents(ss[Len(ss)]).items[d[n].key].n
    BY <1>2, <1>5, <1>6, LastTells DEF Quiet
  <2> QED BY <1>2, <1>3, <1>6, <2>1, FindsCheck
<1>13. Hinted(c)' = Len(d) /\ Hinted(c) = Len(d) /\ Hinted(c)' \in Nat /\ Hinted(c) <= Hinted(c)'
  BY <1>2, <1>10
<1>14. SplitStep(c, q)
  BY <1>1, <1>2, <1>4, <1>9, <1>10, <1>11, <1>12, <1>13 DEF SplitStep
<1> QED BY <1>14

-----------------------------------------------------------------------------
(* What all steps of a process do to the splits *)

\* The splits stay, and so do the records that have a hint.
Still ==
    /\ splits' = splits /\ loaded' = loaded
    /\ \A x \in Chunks : Hinted(x)' = Hinted(x) /\ \A n \in 1 .. Hinted(x) : data'[x][n] = data[x][n]

LEMMA StillSame ==
    ASSUME UNCHANGED <<splits, loaded, data, head>>, writer'.at = "idle" <=> writer.at = "idle"
    PROVE  Still
BY DEF Still, Hinted

LEMMA StillIdle ==
    ASSUME UNCHANGED <<splits, loaded, data, writer>>, writer.at = "idle"
    PROVE  Still
BY DEF Still, Hinted

LEMMA StillAppend ==
    ASSUME Core, NEW k \in Keys, NEW live \in BOOLEAN, AppendRecord(k, live)
    PROVE  Still
<1>1. splits' = splits /\ loaded' = loaded
  BY DEF AppendRecord, hints
<1>2. PICK c \in Chunks :
        /\ c = head' /\ writer.at = "idle" /\ writer'.at = "tree"
        /\ Len(data'[c]) = Len(data[c]) + 1
        /\ \A n \in 1 .. Len(data[c]) : data'[c][n] = data[c][n]
        /\ \A x \in Chunks : x # c => data'[x] = data[x]
  BY Appended, Zenon
<1>3. ASSUME NEW x \in Chunks
      PROVE  Hinted(x)' = Hinted(x) /\ \A n \in 1 .. Hinted(x) : data'[x][n] = data[x][n]
  <2>1. Hinted(x) = Len(data[x]) /\ Len(data[x]) \in Nat
    BY <1>2, DataFacts DEF Hinted
  <2>2. Hinted(x)' = IF x = c THEN Len(data'[x]) - 1 ELSE Len(data'[x])
    BY <1>2 DEF Hinted
  <2>3. CASE x = c
    BY <1>2, <2>1, <2>2, <2>3
  <2>4. CASE x # c
    BY <1>2, <2>1, <2>2, <2>4
  <2> QED BY <2>3, <2>4
<1> QED BY <1>1, <1>3 DEF Still

\* open and the goroutine it starts.
LEMMA StepOpenChunk ==
    ASSUME Core, OpenChunk
    PROVE  \E c \in Chunks : \E rr : SplitStep(c, rr)
<1>1. PICK c : c = step
  OBVIOUS
<1>2. /\ c \in Chunks /\ proc = "opening" /\ splits[c] = <<NewSplit>>
      /\ UNCHANGED <<data, head, writer>>
  BY <1>1, Opened
<1>3. Hinted(c) = Len(data[c])
  BY <1>2 DEF Core, DownInv, Hinted
<1>4. CheckHint(c)
  BY <1>1 DEF OpenChunk
<1> QED BY <1>2, <1>3, <1>4, StepCheckHint

LEMMA StepCheckBehind ==
    ASSUME Core, CheckBehind
    PROVE  \E c \in Chunks : \E rr : SplitStep(c, rr)
<1>1. PICK c \in Chunks : c = bg /\ c < head
  <2>1. /\ bg \in Nat /\ treeID.chunk \in Nat /\ head \in Nat /\ head <= NumChunks /\ treeID.chunk <= head
        /\ NumChunks \in Nat /\ bg < treeID.chunk
    BY Numbers DEF Core, IndexOK, IDs, IdInv, Running, CheckBehind
  <2>2. bg < head /\ bg < NumChunks
    BY <2>1
  <2> QED BY <2>1, <2>2, Numbers
<1>2. Running /\ CheckHint(c) /\ UNCHANGED <<data, head, writer>>
  BY <1>1 DEF CheckBehind
<1>3. c # head
  <2>1. head \in Nat /\ c \in Nat
    BY Numbers DEF Core, IndexOK
  <2> QED BY <1>1, <2>1
<1>4. Hinted(c) = Len(data[c])
  BY <1>3 DEF Hinted
<1>5. Kept(splits[c], data[c], hfile[c], Len(data[c])) \/ Quiet(splits[c], data[c], hfile[c])
  BY <1>2, <1>4, ChunkFacts
<1> QED BY <1>2, <1>4, <1>5, StepCheckHint

LEMMA SplitSteps ==
    ASSUME Core, Core', DumpInv, Next, ~Down
    PROVE  Still \/ \E c \in Chunks : \E rr : SplitStep(c, rr)
<1>1. CASE \E k \in Keys, live \in BOOLEAN : AppendRecord(k, live)
  BY <1>1, StillAppend
<1>2. CASE SetTree
  <2>1. writer.at = "tree" /\ writer'.at = "hint"
    BY <1>2 DEF SetTree, Core, ProcsOK, Writers
  <2> QED BY <1>2, <2>1, StillSame DEF SetTree, disk, hints
<1>3. CASE SetHint
  BY <1>3, StepSetHint
<1>4. ASSUME NEW g \in Dumpers, DumpLast(g) \/ DumpFile(g) \/ DropBuffer(g)
      PROVE  \E c \in Chunks : \E rr : SplitStep(c, rr)
  BY <1>4, StepDumpLast, StepDumpFile, StepDropBuffer
<1>5. CASE CheckBehind
  BY <1>5, StepCheckBehind
<1>6. CASE OpenChunk
  BY <1>6, StepOpenChunk
<1>7. CASE OpenTree
  <2>1. writer.at = "idle"
    BY <1>7 DEF OpenTree, Core, DownInv
  <2> QED BY <1>7, <2>1, StillIdle DEF OpenTree
<1>8. ASSUME NEW g \in Dumpers, DumpOld(g) \/ LeaveChunk(g) \/ DumpFails(g) \/ DumpPanics(g)
      PROVE  UNCHANGED <<splits, loaded, data, head, writer>>
  BY <1>8 DEF DumpOld, LeaveChunk, DumpFails, DumpPanics, hints, disk
<1>9. ASSUME \/ \E c \in Chunks : DumpRound(c)
             \/ Close \/ RemoveTree \/ DumpTree \/ OpenDone
      PROVE  UNCHANGED <<splits, loaded, data, head, writer>>
  BY <1>9, ZenonT(40) DEF DumpRound, Close, RemoveTree, DumpTree, OpenDone, hints, disk
<1>10. ASSUME \/ \E k \in Keys : StartLookup(k)
              \/ LookupMem \/ LookupPanics \/ LookupFile \/ LookupReturn
       PROVE  UNCHANGED <<splits, loaded, data, head, writer>>
  BY <1>10, ZenonT(40) DEF StartLookup, LookupMem, LookupPanics, LookupFile, LookupReturn, hints, disk
<1>11. UNCHANGED <<splits, loaded, data, head, writer>> => Still
  BY StillSame
<1> QED BY <1>1, <1>2, <1>3, <1>4, <1>5, <1>6, <1>7, <1>8, <1>9, <1>10, <1>11 DEF Next, Exit, Crash, BuildDies

\* Chunks whose hints are loaded stay so, hint files and records stay where they
\* are, and no hint is taken back.
Advances ==
    /\ loaded \subseteq loaded'
    /\ \A x \in Chunks :
          /\ Moves(splits[x], splits'[x])
          /\ Hinted(x)' \in Nat /\ Hinted(x) <= Hinted(x)'
          /\ \A n \in 1 .. Hinted(x) : data'[x][n] = data[x][n]

LEMMA MovesSame ==
    ASSUME NEW ss, Len(ss) \in Nat
    PROVE  Moves(ss, ss)
BY DEF Moves

\* A split that is lost stays lost, so that none was lost when none is.
LEMMA LostStays ==
    ASSUME Core, Core', Advances, NoLost'
    PROVE  NoLost
<1> SUFFICES ASSUME NEW c \in Chunks, NEW j \in DOMAIN splits[c], Lost(splits[c][j]) PROVE FALSE
  BY DEF NoLost
<1>1. PICK L \in Nat \ {0} : L = Len(splits[c]) /\ j \in 1 .. L /\ splits[c][L].buf # None
  BY SplitFacts
<1>2. j \in 1 .. L - 1
  BY <1>1 DEF Lost
<1>3. Moves(splits[c], splits'[c])
  BY DEF Advances
<1>4. Lost(splits'[c][j]) /\ Len(splits'[c]) \in Nat /\ L <= Len(splits'[c])
  BY <1>1, <1>2, <1>3 DEF Moves
<1>5. j \in DOMAIN splits'[c]
  <2>1. splits'[c] \in Seq(SplitSet)
    BY DEF Core, HintsOK
  <2>2. j \in 1 .. Len(splits'[c])
    BY <1>1, <1>2, <1>4
  <2> QED BY <2>1, <2>2
<1> QED BY <1>4, <1>5 DEF NoLost

LEMMA StillAdvances ==
    ASSUME Core, Still
    PROVE  Advances /\ (FindInv /\ OrderInv => FindInv' /\ OrderInv')
<1>1. splits' = splits /\ loaded' = loaded
  BY DEF Still
<1>2. ASSUME NEW x \in Chunks
      PROVE  /\ Moves(splits[x], splits'[x]) /\ Hinted(x)' = Hinted(x) /\ Hinted(x) \in Nat
             /\ \A n \in 1 .. Hinted(x) : data'[x][n] = data[x][n]
  BY <1>1, SplitFacts, MovesSame DEF Still
<1>3. Advances
  <2>1. \A x \in Chunks : Hinted(x)' \in Nat /\ Hinted(x) <= Hinted(x)'
    BY <1>2
  <2> QED BY <1>1, <1>2, <2>1 DEF Advances
<1>4. OrderInv => OrderInv'
  BY <1>1 DEF OrderInv
<1>5. ASSUME FindInv, NEW c \in loaded PROVE FindsAll(splits[c], data'[c], Hinted(c)')
  <2>1. c \in Chunks /\ FindsAll(splits[c], data[c], Hinted(c))
    BY <1>5 DEF FindInv
  <2>2. Hinted(c)' = Hinted(c) /\ \A n \in 1 .. Hinted(c) : data'[c][n] = data[c][n]
    BY <1>2, <2>1
  <2> QED BY <2>1, <2>2 DEF FindsAll
<1>6. FindInv => FindInv'
  BY <1>1, <1>5 DEF FindInv
<1> QED BY <1>3, <1>4, <1>6

LEMMA SplitAdvances ==
    ASSUME Core, NEW c \in Chunks, NEW rr, SplitStep(c, rr)
    PROVE  /\ Advances
           /\ NoLost /\ NoLost' /\ FindInv /\ OrderInv => FindInv' /\ OrderInv'
<1>1. /\ splits'[c] = rr /\ \A x \in Chunks : x # c => splits'[x] = splits[x]
      /\ data' = data /\ loaded' \in {loaded, loaded \cup {c}}
      /\ Moves(splits[c], rr)
  BY DEF SplitStep, Core, HintsOK
<1>2. \A x \in Chunks : Hinted(x) \in Nat /\ Len(splits[x]) \in Nat
  BY SplitFacts
<1>3. /\ Hinted(c)' \in Nat /\ Hinted(c) <= Hinted(c)'
      /\ \A x \in Chunks : x # c => Hinted(x)' = Hinted(x)
  BY DEF SplitStep
<1>4. Advances
  <2>1. ASSUME NEW x \in Chunks
        PROVE  /\ Moves(splits[x], splits'[x])
               /\ Hinted(x)' \in Nat /\ Hinted(x) <= Hinted(x)'
               /\ \A n \in 1 .. Hinted(x) : data'[x][n] = data[x][n]
    <3>1. CASE x = c
      BY <1>1, <1>3, <3>1
    <3>2. CASE x # c
      <4>1. Hinted(x)' = Hinted(x) /\ Hinted(x) \in Nat /\ splits'[x] = splits[x] /\ Len(splits[x]) \in Nat
        BY <1>1, <1>2, <1>3, <3>2
      <4> QED BY <1>1, <4>1, MovesSame
    <3> QED BY <3>1, <3>2
  <2>2. loaded \subseteq loaded'
    BY <1>1
  <2> QED BY <2>1, <2>2 DEF Advances
<1>5. ASSUME NoLost, NoLost', OrderInv PROVE OrderInv'
  <2>1. Ordered(rr)
    BY <1>5 DEF SplitStep, OrderInv
  <2> QED BY <1>1, <1>5, <2>1 DEF OrderInv
<1>6. ASSUME NoLost, NoLost', FindInv PROVE FindInv'
  <2>1. loaded' \subseteq Chunks
    BY <1>1, <1>6 DEF FindInv
  <2>2. ASSUME NEW x \in loaded' PROVE FindsAll(splits'[x], data'[x], Hinted(x)')
    <3>1. CASE x = c
      <4>1. c \in loaded => FindsAll(splits[c], data[c], Hinted(c))
        BY <1>6 DEF FindInv
      <4>2. FindsAll(rr, data[c], Hinted(c)')
        BY <1>6, <2>2, <3>1, <4>1 DEF SplitStep
      <4> QED BY <1>1, <3>1, <4>2
    <3>2. CASE x # c
      <4>1. x \in loaded /\ x \in Chunks
        BY <1>1, <2>1, <2>2, <3>2
      <4>2. FindsAll(splits[x], data[x], Hinted(x))
        BY <1>6, <4>1 DEF FindInv
      <4> QED BY <1>1, <1>3, <3>2, <4>1, <4>2
    <3> QED BY <3>1, <3>2
  <2> QED BY <2>1, <2>2 DEF FindInv
<1> QED BY <1>4, <1>5, <1>6

LEMMA NextAdvances ==
    ASSUME Core, Core', DumpInv, Next, ~Down
    PROVE  Advances /\ (NoLost' /\ FindInv /\ OrderInv => FindInv' /\ OrderInv')
<1>1. CASE Still
  BY <1>1, StillAdvances
<1>2. CASE \E c \in Chunks : \E rr : SplitStep(c, rr)
  <2>1. Advances /\ (NoLost /\ NoLost' /\ FindInv /\ OrderInv => FindInv' /\ OrderInv')
    BY <1>2, SplitAdvances
  <2> QED BY <2>1, LostStays
<1> QED BY <1>1, <1>2, SplitSteps

-----------------------------------------------------------------------------
(* Lookups *)

\* A lookup under way does not mind the others.
LEMMA ReaderKeeps ==
    ASSUME Core, Advances, FindInv, ReaderInv, reader' = reader, Running => Running'
    PROVE  ReaderInv'
<1>1. CASE reader.at \notin {"mem", "file"}
  <2>1. reader.at # "file"
    BY <1>1
  <2> QED BY <1>1, <2>1 DEF ReaderInv
<1>2. CASE reader.at \in {"mem", "file"}
  <2>1. Running' /\ reader' \in Readers /\ reader.at # "done" /\ reader.chunk \in Chunks /\ reader.split \in Nat
    BY <1>2 DEF ReaderInv, Readers
  <2>2. PICK c \in loaded : \E n \in 1 .. Hinted(c) : Sought(c, n)
    BY <1>2 DEF ReaderInv
  <2>3. PICK n \in 1 .. Hinted(c) : Sought(c, n)
    BY <2>2
  <2>4. c \in Chunks /\ c \in loaded'
    BY DEF FindInv, Advances
  <2>5. n \in 1 .. Hinted(c)' /\ data'[c][n] = data[c][n]
    <3>1. Hinted(c) \in Nat /\ Hinted(c)' \in Nat /\ Hinted(c) <= Hinted(c)' /\ data'[c][n] = data[c][n]
      BY <2>4, SplitFacts DEF Advances
    <3> QED BY <3>1
  <2>6. ASSUME reader.at = "file"
        PROVE  /\ reader.split \in 0 .. Len(splits'[reader.chunk]) - 1
               /\ \A j \in 1 .. reader.split : /\ splits'[reader.chunk][j].file = splits[reader.chunk][j].file
                                               /\ splits'[reader.chunk][j].file # None
    <3>1. PICK x \in Chunks : x = reader.chunk
      BY <2>1
    <3>2. /\ reader.split \in 0 .. Len(splits[x]) - 1 /\ \A j \in 1 .. reader.split : splits[x][j].file # None
      BY <2>6, <3>1 DEF ReaderInv
    <3>3. Moves(splits[x], splits'[x]) /\ Len(splits[x]) \in Nat
      BY SplitFacts DEF Advances
    <3>4. Len(splits'[x]) \in Nat /\ Len(splits[x]) <= Len(splits'[x])
      BY <3>3 DEF Moves
    <3>5. \A j \in 1 .. reader.split : j \in 1 .. Len(splits[x]) - 1
      BY <2>1, <3>2, <3>3
    <3>6. \A j \in 1 .. reader.split : splits'[x][j].file = splits[x][j].file
      BY <3>2, <3>3, <3>5 DEF Moves
    <3> QED BY <2>1, <3>1, <3>2, <3>3, <3>4, <3>6, SMTT(40)
  <2>7. Sought(c, n)'
    <3>1. /\ reader.floor = Pos(c, n) /\ data[c][n].key = reader.key /\ c <= reader.chunk
          /\ reader.at = "file" /\ c = reader.chunk => InFiles(splits[c], reader.split, reader.key, n)
      BY <2>3 DEF Sought
    <3>2. ASSUME reader.at = "file", c = reader.chunk PROVE InFiles(splits'[c], reader.split, reader.key, n)
      <4>1. \A j \in 1 .. reader.split : splits'[c][j].file = splits[c][j].file
        BY <2>6, <3>2
      <4>2. PICK j \in 1 .. reader.split :
              /\ reader.key \in DOMAIN splits[c][j].file.items /\ n <= splits[c][j].file.items[reader.key].n
              /\ \A i \in j + 1 .. reader.split : reader.key \notin DOMAIN splits[c][i].file.items
        BY <3>1, <3>2 DEF InFiles
      <4>3. \A i \in j + 1 .. reader.split : i \in 1 .. reader.split
        BY <2>1
      <4> QED BY <4>1, <4>2, <4>3 DEF InFiles
    <3> QED BY <2>5, <3>1, <3>2 DEF Sought
  <2> QED BY <2>1, <2>4, <2>5, <2>6, <2>7 DEF ReaderInv
<1> QED BY <1>1, <1>2

\* The newest record that is not being written has a hint.
LEMMA NewestHinted ==
    ASSUME Core, NEW k \in Keys, Newest(k) # NoPos
    PROVE  \E c \in Chunks : \E n \in 1 .. Hinted(c) :
              Newest(k) = Pos(c, n) /\ ChunkOf(Newest(k)) = c /\ data[c][n].key = k
<1> DEFINE at(c) == {n \in 1 .. Len(data[c]) : data[c][n].key = k /\ Pos(c, n) # writer.pos}
           S == {NoPos} \cup UNION {{Pos(c, n) : n \in at(c)} : c \in Chunks}
<1>1. ASSUME NEW c \in Chunks, NEW n \in 1 .. Len(data[c])
      PROVE  Pos(c, n) \in Nat /\ Pos(c, n) < Pos(NumChunks, 1) /\ ChunkOf(Pos(c, n)) = c
  <2>1. c \in Nat /\ n \in 1 .. DataFileMax /\ NumChunks \in Nat /\ 1 \in 1 .. DataFileMax /\ c < NumChunks
    BY DataFacts, Numbers
  <2> QED BY <2>1, Positions, PositionOrder
<1>2. Pos(NumChunks, 1) \in Nat
  <2>1. NumChunks \in Nat /\ 1 \in 1 .. DataFileMax
    BY Numbers
  <2> QED BY <2>1, Positions
<1>3. PICK B \in Nat : B = Pos(NumChunks, 1)
  BY <1>2
<1>4. S \subseteq -1 .. B /\ S # {}
  <2>1. NoPos \in -1 .. B
    BY DEF NoPos
  <2>2. ASSUME NEW c \in Chunks, NEW n \in at(c) PROVE Pos(c, n) \in -1 .. B
    <3>1. Pos(c, n) \in Nat /\ Pos(c, n) < B
      BY <1>1, <1>3, <2>2
    <3> QED BY <3>1
  <2> QED BY <2>1, <2>2
<1>5. Newest(k) = Max(S)
  BY DEF Newest
<1>6. Newest(k) \in S
  <2> HIDE DEF S
  <2> QED BY <1>4, <1>5, MaxIsLargest
<1>7. PICK c \in Chunks : \E n \in at(c) : Newest(k) = Pos(c, n)
  BY <1>6
<1>8. PICK n \in 1 .. Len(data[c]) : Newest(k) = Pos(c, n) /\ data[c][n].key = k /\ Pos(c, n) # writer.pos
  BY <1>7
<1>9. n \in 1 .. Hinted(c)
  <2>1. Len(data[c]) \in Nat
    BY DataFacts
  <2>2. writer.at # "idle" => writer.pos = Pos(head, Len(data[head]))
    BY DEF Core, WriterInv
  <2>3. writer.at # "idle" /\ c = head => n # Len(data[c])
    BY <1>8, <2>2
  <2> QED BY <2>1, <2>3 DEF Hinted
<1> QED BY <1>1, <1>8, <1>9

LEMMA ReaderStarts ==
    ASSUME Core, NEW k \in Keys, StartLookup(k)
    PROVE  ReaderInv'
<1>1. PICK r : r = [at |-> "mem", key |-> k, chunk |-> maxChunkID, split |-> 0, floor |-> Newest(k), got |-> NoPos]
  OBVIOUS
<1>2. /\ proc = "up" /\ reader' = r /\ Newest(k) # NoPos /\ ChunkOf(Newest(k)) <= maxChunkID
      /\ ChunkOf(Newest(k)) \in loaded
      /\ UNCHANGED <<data, loaded, head, writer, proc>>
  BY <1>1 DEF StartLookup, disk, hints
<1>3. PICK c \in Chunks : \E n \in 1 .. Hinted(c) :
        Newest(k) = Pos(c, n) /\ ChunkOf(Newest(k)) = c /\ data[c][n].key = k
  BY <1>2, NewestHinted
<1>4. PICK n \in 1 .. Hinted(c) : Newest(k) = Pos(c, n) /\ ChunkOf(Newest(k)) = c /\ data[c][n].key = k
  BY <1>3
<1>5. r \in Readers
  <2>1. maxChunkID \in Chunks
    BY DEF Core, IndexOK
  <2>2. c \in Nat /\ n \in 1 .. DataFileMax
    <3>1. Hinted(c) \in Nat /\ Hinted(c) <= Len(data[c]) /\ Len(data[c]) \in Nat /\ Len(data[c]) <= DataFileMax
      BY SplitFacts
    <3> QED BY <3>1, Numbers
  <2>3. Newest(k) \in Nat
    BY <1>4, <2>2, Positions
  <2> QED BY <1>1, <2>1, <2>3 DEF Readers, NoPos
<1>6. Hinted(c)' = Hinted(c) /\ Running'
  BY <1>2 DEF Hinted, Running
<1>7. r.at = "mem" /\ r.key = k /\ r.chunk = maxChunkID /\ r.floor = Newest(k)
  BY <1>1
<1>8. Sought(c, n)'
  BY <1>2, <1>4, <1>7 DEF Sought
<1> QED BY <1>2, <1>4, <1>5, <1>6, <1>7, <1>8 DEF ReaderInv

\* The place of the record sought, while a lookup is under way.
LEMMA Seeks ==
    ASSUME Core, FindInv, ReaderInv, reader.at \in {"mem", "file"}
    PROVE  \E c \in Chunks : \E n \in Nat :
              /\ c \in loaded /\ n \in 1 .. Hinted(c) /\ Sought(c, n)
              /\ reader.key \in Keys /\ n \in 1 .. DataFileMax
              /\ Finds(splits[c], reader.key, n)
<1>1. PICK c \in loaded : \E n \in 1 .. Hinted(c) : Sought(c, n)
  BY DEF ReaderInv
<1>2. PICK n \in 1 .. Hinted(c) : Sought(c, n)
  BY <1>1
<1>3. c \in Chunks /\ FindsAll(splits[c], data[c], Hinted(c))
  BY DEF FindInv
<1>4. n \in Nat /\ n \in 1 .. DataFileMax /\ data[c][n] \in Records
  <2>1. /\ Hinted(c) \in Nat /\ Hinted(c) <= Len(data[c]) /\ Len(data[c]) \in Nat /\ Len(data[c]) <= DataFileMax
        /\ DataFileMax \in Nat
    BY <1>3, SplitFacts, Numbers
  <2>2. n \in 1 .. Len(data[c])
    BY <2>1
  <2> QED BY <1>3, <2>1, <2>2, DataFacts
<1>5. data[c][n].key = reader.key
  BY <1>2 DEF Sought
<1>6. reader.key \in Keys
  BY <1>4, <1>5 DEF Records
<1>7. Finds(splits[c], reader.key, n)
  BY <1>3, <1>5 DEF FindsAll
<1>8. c \in loaded /\ n \in 1 .. Hinted(c) /\ Sought(c, n) /\ reader.key \in Keys /\ n \in 1 .. DataFileMax
  BY <1>2, <1>4, <1>6
<1> QED BY <1>3, <1>4, <1>7, <1>8

\* A hint found in a later chunk, or in the same with a number not less, is at
\* least as new as the record sought.
LEMMA FoundFresh ==
    ASSUME NEW c \in Chunks, NEW n \in 1 .. DataFileMax, NEW d \in Chunks, NEW m \in Nat,
           c < d \/ (c = d /\ n <= m)
    PROVE  Pos(d, m) \in Nat /\ Pos(d, m) >= Pos(c, n)
<1> DEFINE M == DataFileMax
<1>1. M \in Nat \ {0} /\ c \in Nat /\ d \in Nat /\ c * M \in Nat /\ d * M \in Nat
  BY Numbers
<1>2. c < d => d * M >= c * M + M
  <2> SUFFICES ASSUME c < d PROVE d * M >= c * M + M
    OBVIOUS
  <2>1. (d - c) * M >= M
    BY <1>1
  <2>2. (d - c) * M = d * M - c * M
    BY <1>1
  <2> QED BY <1>1, <2>1, <2>2
<1> QED BY <1>1, <1>2 DEF Pos

\* The splits from the first without a buffer before it on have buffers, those
\* before have files.
LEMMA BuffersOf ==
    ASSUME Core, OrderInv, NEW c \in Chunks
    PROVE  \E m \in Nat :
              /\ m \in 0 .. Len(splits[c]) - 1
              /\ InBuffers(c) = m + 1 .. Len(splits[c])
              /\ Len(splits[c]) - Cardinality(InBuffers(c)) = m
              /\ \A j \in 1 .. m : splits[c][j].file # None
              /\ \A j \in m + 1 .. Len(splits[c]) : splits[c][j].buf # None
<1>1. PICK ss \in Seq(SplitSet), L \in Nat \ {0} : ss = splits[c] /\ L = Len(ss) /\ ss[L].buf # None /\ DOMAIN ss = 1 .. L
  BY SplitFacts
<1> DEFINE gone == {0} \cup {j \in 1 .. L : ss[j].buf = None}
           m == Max(gone)
<1>2. gone \subseteq -1 .. L /\ gone # {}
  OBVIOUS
<1>3. m \in gone /\ \A j \in gone : m >= j
  <2> HIDE DEF gone
  <2> QED BY <1>2, MaxIsLargest
<1>4. m \in 0 .. L - 1
  <2>1. m # L
    BY <1>1, <1>3
  <2> QED BY <1>2, <1>3, <2>1
<1>5. \A j \in m + 1 .. L : ss[j].buf # None
  <2>1. ASSUME NEW j \in m + 1 .. L, ss[j].buf = None PROVE FALSE
    <3>1. j \in gone /\ j > m
      BY <1>4, <2>1
    <3> QED BY <1>3, <1>4, <3>1
  <2> QED BY <2>1
<1>6. m # 0 => m \in 1 .. L /\ ss[m].buf = None
  BY <1>3
<1> HIDE DEF m, gone
<1>7. InBuffers(c) = m + 1 .. L
  <2>1. ASSUME NEW j \in InBuffers(c) PROVE j \in m + 1 .. L
    <3>1. j \in 1 .. L /\ \A i \in j .. L : ss[i].buf # None
      BY <1>1 DEF InBuffers
    <3>2. ~(j <= m)
      <4> SUFFICES ASSUME j <= m PROVE FALSE
        OBVIOUS
      <4>1. m # 0 /\ m \in j .. L
        BY <1>4, <3>1
      <4> QED BY <1>6, <3>1, <4>1
    <3> QED BY <1>4, <3>1, <3>2
  <2>2. ASSUME NEW j \in m + 1 .. L PROVE j \in InBuffers(c)
    <3>1. j \in 1 .. L /\ \A i \in j .. L : i \in m + 1 .. L
      BY <1>4
    <3> QED BY <1>1, <1>5, <3>1 DEF InBuffers
  <2> QED BY <2>1, <2>2
<1>8. Cardinality(m + 1 .. L) = L - m
  <2>1. m + 1 \in Int /\ L \in Int /\ ~(m + 1 > L) /\ L - (m + 1) + 1 = L - m
    BY <1>4
  <2> QED BY <2>1, FS_Interval
<1>9. \A j \in 1 .. m : ss[j].file # None
  <2> SUFFICES ASSUME NEW j \in 1 .. m PROVE ss[j].file # None
    OBVIOUS
  <2>1. m # 0 /\ m \in 1 .. L /\ ss[m].buf = None
    BY <1>4, <1>6
  <2>2. Ordered(ss)
    BY <1>1 DEF OrderInv
  <2> QED BY <1>1, <2>1, <2>2 DEF Ordered
<1>10. m \in Nat /\ L - (L - m) = m
  BY <1>4
<1> QED BY <1>1, <1>4, <1>5, <1>7, <1>8, <1>9, <1>10

\* What a split tells is what its buffer tells, and its file, where it has them.
LEMMA TellsSame ==
    ASSUME Core, NEW c \in Chunks, NEW j \in 1 .. Len(splits[c])
    PROVE  /\ splits[c][j].buf # None => Contents(splits[c][j]) = splits[c][j].buf
           /\ splits[c][j].file # None => Contents(splits[c][j]) = splits[c][j].file
           /\ splits[c][j].buf \in HintSet /\ splits[c][j].file \in HintSet
<1>1. splits[c] \in Seq(SplitSet) /\ (splits[c][j].buf # None /\ splits[c][j].file # None => splits[c][j].buf = splits[c][j].file)
  BY SplitFacts
<1>2. splits[c][j] \in SplitSet
  BY <1>1, ElementOfSeq
<1> QED BY <1>1, <1>2, SplitShape DEF Contents

LEMMA ReaderMem ==
    ASSUME Core, FindInv, OrderInv, ReaderInv, LookupMem
    PROVE  ReaderInv'
<1>0. reader.at = "mem" /\ UNCHANGED <<data, splits, loaded, head, writer, proc>>
  BY ZenonT(40) DEF LookupMem, disk, hints
<1>1. Running /\ reader \in Readers
  BY <1>0 DEF ReaderInv
<1>2. PICK c \in Chunks, k \in Keys \cup {"none"} : c = reader.chunk /\ k = reader.key
  BY <1>1 DEF Readers
<1>3. PICK d \in Chunks, n \in Nat :
         /\ d \in loaded /\ n \in 1 .. Hinted(d) /\ Sought(d, n)
         /\ k \in Keys /\ n \in 1 .. DataFileMax
         /\ Finds(splits[d], k, n)
  BY <1>0, <1>2, Seeks
<1>4. reader.floor = Pos(d, n) /\ d <= c /\ data[d][n].key = k
  BY <1>2, <1>3 DEF Sought
<1>5. PICK ss \in Seq(SplitSet), L \in Nat \ {0} : ss = splits[c] /\ L = Len(ss)
  BY SplitFacts
<1>6. PICK m \in Nat :
        /\ m \in 0 .. L - 1 /\ InBuffers(c) = m + 1 .. L
        /\ L - Cardinality(InBuffers(c)) = m
        /\ \A j \in 1 .. m : ss[j].file # None
        /\ \A j \in m + 1 .. L : ss[j].buf # None
  BY <1>5, BuffersOf
<1>7. \A j \in 1 .. L : /\ ss[j].buf # None => Contents(ss[j]) = ss[j].buf
                        /\ ss[j].file # None => Contents(ss[j]) = ss[j].file
                        /\ ss[j].buf \in HintSet /\ ss[j].file \in HintSet
  BY <1>5, TellsSame
<1> DEFINE hits == {j \in m + 1 .. L : k \in DOMAIN ss[j].buf.items}
<1>8. ASSUME d = c
      PROVE  \E j \in 1 .. L :
                /\ Has(ss[j], k) /\ n <= Contents(ss[j]).items[k].n
                /\ \A i \in j + 1 .. L : ~Has(ss[i], k)
  BY <1>3, <1>5, <1>8 DEF Finds
<1>9. reader' = IF hits # {}
                THEN [reader EXCEPT !.at = "done", !.got = Pos(c, ss[Max(hits)].buf.items[k].n)]
                ELSE [reader EXCEPT !.at = "file", !.split = m]
  BY <1>2, <1>5, <1>6, ZenonT(40) DEF LookupMem
<1>10. ASSUME NEW j \in m + 1 .. L
       PROVE  j \in 1 .. L /\ (Has(ss[j], k) <=> k \in DOMAIN ss[j].buf.items) /\ Contents(ss[j]) = ss[j].buf
  <2>1. j \in 1 .. L
    BY <1>6
  <2> QED BY <1>6, <1>7, <2>1 DEF Has
<1>11. CASE hits # {}
  <2>1. hits \subseteq -1 .. L
    BY <1>6
  <2>2. Max(hits) \in hits /\ \A j \in hits : Max(hits) >= j
    <3> HIDE DEF hits
    <3> QED BY <1>11, <2>1, MaxIsLargest
  <2>3. PICK h \in m + 1 .. L : h = Max(hits) /\ k \in DOMAIN ss[h].buf.items /\ \A j \in hits : h >= j
    BY <2>2
  <2>4. ss[h].buf.items[k].n \in Nat
    BY <1>7, <1>10, <2>3, HintShape, SMTT(40) DEF HintItems
  <2>5. ASSUME d = c PROVE n <= ss[h].buf.items[k].n
    <3>1. PICK j \in 1 .. L : /\ Has(ss[j], k) /\ n <= Contents(ss[j]).items[k].n
                              /\ \A i \in j + 1 .. L : ~Has(ss[i], k)
      BY <1>8, <2>5
    <3>2. Has(ss[h], k) /\ h \in 1 .. L
      BY <1>10, <2>3
    <3>3. h <= j
      <4>1. h \notin j + 1 .. L
        BY <3>1, <3>2
      <4> QED BY <3>2, <4>1
    <3>4. j \in m + 1 .. L
      BY <1>6, <3>3
    <3>5. j \in hits
      BY <1>10, <3>1, <3>4
    <3>6. j = h
      BY <2>3, <3>2, <3>3, <3>5
    <3> QED BY <1>10, <2>3, <3>1, <3>6
  <2>6. d < c \/ d = c
    BY <1>4, Numbers
  <2>7. Pos(c, ss[h].buf.items[k].n) >= Pos(d, n)
    BY <1>3, <2>4, <2>5, <2>6, FoundFresh, ZenonT(40)
  <2>8. reader'.at = "done" /\ reader'.got = Pos(c, ss[h].buf.items[k].n) /\ reader'.floor = reader.floor
    BY <1>1, <1>9, <1>11, <2>3, ZenonT(40) DEF Readers
  <2> QED BY <1>4, <2>7, <2>8 DEF ReaderInv
<1>12. CASE hits = {}
  <2>1. reader' = [reader EXCEPT !.at = "file", !.split = m]
    BY <1>9, <1>12, ZenonT(40)
  <2>2. /\ reader' \in Readers /\ reader'.at = "file" /\ reader'.split = m /\ reader'.chunk = c
        /\ reader'.key = k /\ reader'.floor = reader.floor
    BY <1>1, <1>2, <1>6, <2>1 DEF Readers
  <2>3. Hinted(d)' = Hinted(d) /\ Running'
    BY <1>0, <1>1 DEF Hinted, Running
  <2>4. ASSUME d = c PROVE InFiles(ss, m, k, n)
    <3>1. PICK j \in 1 .. L : /\ Has(ss[j], k) /\ n <= Contents(ss[j]).items[k].n
                              /\ \A i \in j + 1 .. L : ~Has(ss[i], k)
      BY <1>8, <2>4
    <3>2. j \in 1 .. m
      <4>1. j \notin m + 1 .. L
        BY <1>10, <1>12, <3>1
      <4> QED BY <1>6, <4>1
    <3>3. \A i \in 1 .. m : i \in 1 .. L /\ Contents(ss[i]) = ss[i].file
      BY <1>6, <1>7
    <3>4. \A i \in j + 1 .. m : i \in 1 .. m /\ i \in j + 1 .. L
      BY <1>6, <3>2
    <3> QED BY <3>1, <3>2, <3>3, <3>4 DEF InFiles, Has
  <2>5. Sought(d, n)'
    BY <1>0, <1>4, <1>5, <2>2, <2>4 DEF Sought
  <2> QED BY <1>0, <1>3, <1>5, <1>6, <2>2, <2>3, <2>5, SMTT(40) DEF ReaderInv
<1> QED BY <1>11, <1>12, SMTT(40)

LEMMA ReaderFile ==
    ASSUME Core, FindInv, ReaderInv, LookupFile
    PROVE  ReaderInv'
<1>0. reader.at = "file" /\ UNCHANGED <<data, splits, loaded, head, writer, proc>>
  BY ZenonT(40) DEF LookupFile, disk, hints
<1>1. Running /\ reader \in Readers
  BY <1>0 DEF ReaderInv
<1>2. PICK c \in Chunks, k \in Keys \cup {"none"}, s \in Nat :
        c = reader.chunk /\ k = reader.key /\ s = reader.split
  BY <1>1 DEF Readers
<1>3. PICK d \in Chunks, n \in Nat :
         d \in loaded /\ n \in 1 .. Hinted(d) /\ Sought(d, n) /\ n \in 1 .. DataFileMax
  BY <1>0, Seeks
<1>4. /\ reader.floor = Pos(d, n) /\ d <= c /\ data[d][n].key = k
      /\ d = c => InFiles(splits[c], s, k, n)
  BY <1>0, <1>2, <1>3 DEF Sought
<1>5. PICK ss \in Seq(SplitSet), L \in Nat \ {0} : ss = splits[c] /\ L = Len(ss)
  BY SplitFacts
<1>6. \A j \in 1 .. s : ss[j].file \in HintSet
  <2>1. s \in 0 .. L - 1
    BY <1>0, <1>2, <1>5 DEF ReaderInv
  <2>2. \A j \in 1 .. s : j \in 1 .. Len(splits[c])
    BY <1>5, <2>1, SMTT(40)
  <2> QED BY <1>5, <2>2, TellsSame
<1> DEFINE hits == {j \in 1 .. s : k \in DOMAIN ss[j].file.items}
<1>7. reader' = IF hits # {}
                THEN [reader EXCEPT !.at = "done", !.got = Pos(c, ss[Max(hits)].file.items[k].n)]
                ELSE IF c > 0 THEN [reader EXCEPT !.at = "mem", !.chunk = c - 1]
                ELSE [reader EXCEPT !.at = "done"]
  BY <1>2, <1>5, ZenonT(40) DEF LookupFile
<1>8. ASSUME d = c
      PROVE  \E j \in hits : n <= ss[j].file.items[k].n /\ \A i \in j + 1 .. s : i \notin hits
  <2>1. PICK j \in 1 .. s : /\ k \in DOMAIN ss[j].file.items /\ n <= ss[j].file.items[k].n
                            /\ \A i \in j + 1 .. s : k \notin DOMAIN ss[i].file.items
    BY <1>4, <1>5, <1>8 DEF InFiles
  <2> QED BY <2>1
<1>9. CASE hits # {}
  <2>1. hits \subseteq -1 .. s
    BY <1>2
  <2>2. Max(hits) \in hits /\ \A j \in hits : Max(hits) >= j
    <3> HIDE DEF hits
    <3> QED BY <1>9, <2>1, MaxIsLargest
  <2>3. PICK h \in 1 .. s : h = Max(hits) /\ h \in hits /\ k \in DOMAIN ss[h].file.items /\ \A j \in hits : h >= j
    BY <2>2
  <2>4. ss[h].file.items[k].n \in Nat
    BY <1>6, <2>3, HintShape DEF HintItems
  <2>5. ASSUME d = c PROVE n <= ss[h].file.items[k].n
    <3>1. PICK j \in hits : n <= ss[j].file.items[k].n /\ \A i \in j + 1 .. s : i \notin hits
      BY <1>8, <2>5
    <3>2. j \in 1 .. s /\ h >= j /\ h \notin j + 1 .. s
      BY <2>3, <3>1
    <3>3. j = h
      BY <1>2, <3>2
    <3> QED BY <3>1, <3>3
  <2>6. d < c \/ d = c
    BY <1>4, Numbers
  <2>7. Pos(c, ss[h].file.items[k].n) >= Pos(d, n)
    BY <1>3, <2>4, <2>5, <2>6, FoundFresh, ZenonT(40)
  <2>8. reader'.at = "done" /\ reader'.got = Pos(c, ss[h].file.items[k].n) /\ reader'.floor = reader.floor
    BY <1>1, <1>7, <1>9, <2>3, ZenonT(40) DEF Readers
  <2> QED BY <1>4, <2>7, <2>8 DEF ReaderInv
<1>10. CASE hits = {}
  <2>1. d # c
    BY <1>8, <1>10
  <2>2. c > 0 /\ c - 1 \in Chunks /\ d <= c - 1
    <3>1. c \in Nat /\ d \in Nat /\ NumChunks \in Nat /\ c < NumChunks
      BY Numbers
    <3>2. c > 0 /\ c - 1 \in Nat /\ c - 1 < NumChunks /\ d <= c - 1
      BY <1>4, <2>1, <3>1, SMTT(40)
    <3> QED BY <3>2, Numbers
  <2>3. reader' = [reader EXCEPT !.at = "mem", !.chunk = c - 1]
    BY <1>7, <1>10, <2>2, ZenonT(40)
  <2>4. /\ reader' \in Readers /\ reader'.at = "mem" /\ reader'.chunk = c - 1
        /\ reader'.key = k /\ reader'.floor = reader.floor
    BY <1>1, <1>2, <2>2, <2>3 DEF Readers
  <2>5. Hinted(d)' = Hinted(d) /\ Running'
    BY <1>0, <1>1 DEF Hinted, Running
  <2>6. Sought(d, n)'
    BY <1>0, <1>4, <2>2, <2>4 DEF Sought
  <2> QED BY <1>0, <1>3, <2>4, <2>5, <2>6 DEF ReaderInv
<1> QED BY <1>9, <1>10, SMTT(40)

LEMMA ReaderIdle ==
    ASSUME reader' = NoReader
    PROVE  ReaderInv'
<1>1. NoReader.at = "idle"
  BY DEF NoReader
<1> QED BY <1>1 DEF ReaderInv

Looks == \/ \E k \in Keys : StartLookup(k)
         \/ LookupMem \/ LookupPanics \/ LookupFile \/ LookupReturn

LEMMA ReaderLooks ==
    ASSUME Core, FindInv, OrderInv, ReaderInv, Looks
    PROVE  ReaderInv'
<1>1. CASE \E k \in Keys : StartLookup(k)
  BY <1>1, ReaderStarts
<1>2. CASE LookupMem
  BY <1>2, ReaderMem
<1>3. CASE LookupFile
  BY <1>3, ReaderFile
<1>4. CASE LookupPanics \/ LookupReturn
  BY <1>4, ReaderIdle DEF LookupPanics, LookupReturn
<1> QED BY <1>1, <1>2, <1>3, <1>4 DEF Looks

-----------------------------------------------------------------------------
(* The invariant holds *)

\* The other steps of a process leave the lookup alone, and the bucket open.
LEMMA ReaderStays ==
    ASSUME Core, Next, ~Down, ~Looks
    PROVE  reader' = reader /\ (Running => Running')
<1>1. ASSUME NEW g \in Dumpers, \/ DumpOld(g) \/ DumpLast(g) \/ LeaveChunk(g) \/ DumpFile(g)
                                \/ DumpFails(g) \/ DropBuffer(g) \/ DumpPanics(g)
      PROVE  reader' = reader
  BY <1>1, ZenonT(40) DEF DumpOld, DumpLast, LeaveChunk, DumpFile, DumpFails, DropBuffer, DumpPanics
<1>2. ASSUME \/ \E k \in Keys, live \in BOOLEAN : AppendRecord(k, live)
             \/ SetTree \/ SetHint \/ \E c \in Chunks : DumpRound(c)
             \/ Close \/ RemoveTree \/ DumpTree \/ OpenTree \/ OpenChunk \/ OpenDone \/ CheckBehind
      PROVE  reader' = reader
  BY <1>2, ZenonT(40) DEF AppendRecord, SetTree, SetHint, DumpRound, Close, RemoveTree, DumpTree, OpenTree, OpenChunk,
              OpenDone, CheckBehind
<1>3. reader' = reader
  BY <1>1, <1>2 DEF Next, Exit, Crash, BuildDies, Looks
<1>4. ASSUME Running PROVE Running'
  <2>1. proc # "down" /\ proc # "opening"
    BY <1>4 DEF Running
  <2>2. CASE Stays
    BY <1>4, <2>2 DEF Stays, Running
  <2>3. ASSUME NEW g \in Dumpers, DumpFile(g) PROVE Running'
    BY <1>4, <2>3 DEF DumpFile, Running
  <2>4. ASSUME \/ \E k \in Keys, live \in BOOLEAN : AppendRecord(k, live)
               \/ SetTree \/ SetHint \/ CheckBehind
        PROVE  proc' = proc
    BY <2>4 DEF AppendRecord, SetTree, SetHint, CheckBehind
  <2>5. CASE Close \/ RemoveTree \/ DumpTree
    BY <2>5 DEF Close, RemoveTree, DumpTree, Running
  <2>6. CASE OpenTree \/ OpenChunk \/ OpenDone
    BY <2>1, <2>6 DEF OpenTree, OpenChunk, OpenDone
  <2> QED BY <1>4, <2>2, <2>3, <2>4, <2>5, <2>6, Steps DEF Running
<1> QED BY <1>3, <1>4

LEMMA OrderedNew == Ordered(<<NewSplit>>)
<1>1. Len(<<NewSplit>>) = 1 /\ <<NewSplit>>[1] = NewSplit /\ NewSplit.buf # None
  BY SplitShape, EmptyHints
<1>2. \A j \in 1 .. 1 : j = 1
  OBVIOUS
<1> QED BY <1>1, <1>2 DEF Ordered

LEMMA InitLookups == Init => DumpInv /\ Lookups
<1> SUFFICES ASSUME Init PROVE DumpInv /\ Lookups
  OBVIOUS
<1>1. DumpInv
  BY InitRecovery DEF Recovery
<1>2. loaded = {} /\ reader = NoReader /\ (\A c \in Chunks : splits[c] = <<NewSplit>>) /\ NoReader.at = "idle"
  BY DEF Init, NoReader
<1>3. FindInv /\ OrderInv /\ ReaderInv
  BY <1>2, OrderedNew DEF FindInv, OrderInv, ReaderInv
<1> QED BY <1>1, <1>3 DEF Lookups

LEMMA NextLookups ==
    ASSUME Core, Core', DumpInv, Next, NoLost => Lookups, NoLost'
    PROVE  Lookups'
<1>1. CASE Down
  <2>1. loaded' = {} /\ reader' = NoReader /\ splits' = [c \in Chunks |-> <<NewSplit>>]
    BY <1>1 DEF Down
  <2>2. (\A c \in Chunks : splits'[c] = <<NewSplit>>) /\ NoReader.at = "idle"
    BY <2>1 DEF NoReader
  <2>3. FindInv' /\ OrderInv' /\ ReaderInv'
    BY <2>1, <2>2, OrderedNew DEF FindInv, OrderInv, ReaderInv
  <2> QED BY <2>3 DEF Lookups
<1>2. CASE ~Down
  <2>1. Advances /\ (FindInv /\ OrderInv => FindInv' /\ OrderInv')
    BY <1>2, NextAdvances
  <2>2. FindInv /\ OrderInv /\ ReaderInv
    BY <2>1, LostStays DEF Lookups
  <2>3. ReaderInv'
    <3>1. CASE Looks
      BY <2>2, <3>1, ReaderLooks
    <3>2. CASE ~Looks
      BY <1>2, <2>1, <2>2, <3>2, ReaderStays, ReaderKeeps
    <3> QED BY <3>1, <3>2
  <2> QED BY <2>1, <2>2, <2>3 DEF Lookups
<1> QED BY <1>1, <1>2

LEMMA SameLookups ==
    ASSUME DumpInv, NoLost => Lookups, UNCHANGED vars
    PROVE  DumpInv' /\ (NoLost' => Lookups')
<1>1. UNCHANGED <<data, proc, head, splits, loaded, frame, writer, reader>>
  BY DEF vars, disk, hints
<1>2. DumpInv' /\ (NoLost' <=> NoLost)
  BY <1>1 DEF DumpInv, NoLost
<1>3. FindInv => FindInv'
  BY <1>1 DEF FindInv, Hinted
<1>4. OrderInv => OrderInv'
  BY <1>1 DEF OrderInv
<1>5. ReaderInv => ReaderInv'
  BY <1>1 DEF ReaderInv, Sought, Hinted, Running
<1> QED BY <1>2, <1>3, <1>4, <1>5 DEF Lookups

LEMMA LookupInvariance == Spec => []LookupInv
<1>1. Init => LookupInv
  BY InitLookups DEF LookupInv
<1>2. CoreInv /\ CoreInv' /\ LookupInv /\ [Next]_vars => LookupInv'
  <2> SUFFICES ASSUME CoreInv, CoreInv', LookupInv, [Next]_vars, ~ahead' PROVE DumpInv' /\ (NoLost' => Lookups')
    BY DEF LookupInv
  <2>1. ~ahead
    BY AheadStays
  <2>2. Core /\ Core' /\ DumpInv /\ (NoLost => Lookups)
    BY <2>1 DEF CoreInv, LookupInv
  <2>3. CASE Next
    BY <2>2, <2>3, NextDumpInv, NextLookups
  <2>4. CASE UNCHANGED vars
    BY <2>2, <2>4, SameLookups
  <2> QED BY <2>3, <2>4
<1> QED BY <1>1, <1>2, CoreInvariance, PTL DEF Spec

\* A lookup finds a hint at least as new as the newest there was at its beginning,
\* while splits rotate and are dumped, loaded and dropped beneath it, as long as
\* hints were never ahead of the data and no dump has lost a buffer: for all keys,
\* data files, split sizes and numbers of writes and restarts.
THEOREM LookupsFresh == Spec => []LookupFresh
<1>1. LookupInv => LookupFresh
  BY DEF LookupInv, Lookups, ReaderInv, LookupFresh, NoLost
<1> QED BY <1>1, LookupInvariance, PTL
=============================================================================
