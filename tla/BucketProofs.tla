---------------------------- MODULE BucketProofs ----------------------------
(***************************************************************************)
(* Proofs about Bucket for any number of clients, keys and records.        *)
(***************************************************************************)
EXTENDS Bucket, FiniteSetTheorems, SequenceTheorems, TLAPS

\* getVhash gives every value a hash.
HashTotal == \A p \in Pays : Vhash(p) \in Nat
\* No two keys share a hash.
OwnHash == \A k, l \in Keys : Hash[k] = Hash[l] => k = l

-----------------------------------------------------------------------------
(* The inductive invariant, for every hash function and every request *)

\* A write has its record in the log and not yet in every index.
Stored == {"treeset", "collcheck", "collset", "hintset"}
Before == {"tree", "found", "get1", "get2", "reply"}

\* An item is nothing, or leads to a record of its key, or of its hash.
Own(item, k) == item.pos # 0 => item.pos <= Len(log) /\ log[item.pos].key = k
Points(item, h) == item.pos # 0 => item.pos <= Len(log) /\ Hash[log[item.pos].key] = h
Real(item) == item.ver # 0 => item.pos # 0

IndexInv ==
    /\ \A h \in Hashes : Points(tree[h], h) /\ Real(tree[h])
    /\ \A k \in Keys : /\ Own(coll[k], k) /\ Real(coll[k])
                       /\ Own(hint[k], k) /\ Real(hint[k])
                       /\ doneTo[k] # 0 => doneTo[k] <= Len(log) /\ log[doneTo[k]].key = k

\* A key whose write has returned is in the hints and its hash in the tree.
DoneInv == \A k \in Keys : doneTo[k] # 0 => hint[k].pos # 0 /\ tree[Hash[k]].pos # 0

\* What a request has found and written so far.
RequestInv(c) ==
    LET r == req[c]
    IN  /\ Points(r.old, Hash[r.key]) /\ Real(r.old)
        /\ Own(r.new, r.key) /\ Real(r.new)
        /\ r.at \in Stored \cup {"get1", "get2"} => r.new.pos # 0
        /\ r.at = "get1" => r.old.pos # 0
        /\ r.at \in Stored => r.op # "get"
        /\ r.at \in Stored \ {"treeset"} => tree[Hash[r.key]].pos # 0
        /\ r.at = "idle" <=> r = Idle

\* A read that starts when its key has been written finds it.
FloorInv(c) ==
    LET r == req[c]
    IN  /\ r.floor # 0 => doneTo[r.key] # 0
        /\ r.floor # 0 /\ r.at = "found" => r.old.pos # 0
        /\ r.floor # 0 /\ r.at = "reply" => r.new.pos # 0

\* The log has room for the writes that have started.
Appenders == {c \in Clients : req[c].op # "get" /\ req[c].at \in Before}
RoomInv == Len(log) + Cardinality(Appenders) <= MaxLog

\* checkAndSet runs under writeLock.
LockInv == \A c \in Clients : req[c].op = "set" <=> writeLock = c

IInv ==
    /\ TypeOK /\ IndexInv /\ DoneInv /\ RoomInv /\ LockInv
    /\ \A c \in Clients : RequestInv(c) /\ FloorInv(c)

-----------------------------------------------------------------------------
(* The newest record, for hashes without an incr beside another write *)

Writer(c, h) == req[c].op # "get" /\ Hash[req[c].key] = h

OneWriter ==
    \A c, d \in Clients : \A h \in Hashes \ raced : Writer(c, h) /\ Writer(d, h) => c = d

\* Every record of the hash has returned or is tree's, or its write is under way.
DoneCovers(h) ==
    \A i \in 1 .. Len(log) : Hash[log[i].key] = h =>
        i <= doneTo[log[i].key] \/ \E c \in Clients : req[c].at \in Stored /\ req[c].new.pos = i
TreeCovers(h) ==
    \A i \in 1 .. Len(log) : Hash[log[i].key] = h =>
        i <= tree[h].pos \/ \E c \in Clients : req[c].at = "treeset" /\ req[c].new.pos = i

\* A write under way has the newest record of its hash, and then it is the tree's.
WriterNewest(h) ==
    \A c \in Clients : Writer(c, h) /\ req[c].at \in Stored =>
        /\ \A i \in 1 .. Len(log) : Hash[log[i].key] = h => i <= req[c].new.pos
        /\ req[c].at # "treeset" => tree[h].pos = req[c].new.pos

HintExact(h) == \A k \in KeysOf(h) : hint[k].pos = doneTo[k] /\ doneTo[k] <= tree[h].pos

NewestInv ==
    \A h \in Hashes \ raced : DoneCovers(h) /\ TreeCovers(h) /\ WriterNewest(h) /\ HintExact(h)

-----------------------------------------------------------------------------
(* What holds in addition when no two keys share a hash *)

\* The collision table stays empty.
NoCollision ==
    /\ \A k \in Keys : coll[k].pos = 0
    /\ \A c \in Clients : req[c].at \notin {"get1", "get2", "collset"}

\* A write that has looked its key up knows what is in the tree.
LookupInv ==
    \A c \in Clients : \A h \in Hashes \ raced :
        Writer(c, h) /\ req[c].op = "set" /\ req[c].at = "found" => req[c].old = tree[h]

\* A read has found what was written when it started, or something newer.
FreshInv ==
    \A c \in Clients : Hash[req[c].key] \notin raced =>
        /\ req[c].floor <= doneTo[req[c].key]
        /\ req[c].at = "found" => req[c].floor <= req[c].old.pos
        /\ req[c].at = "reply" => req[c].floor <= req[c].new.pos

-----------------------------------------------------------------------------
(* What holds in addition when clients only set and get *)

\* Then no write overlaps another one, and a set carries what its client asked for.
OnlySets ==
    /\ raced = {}
    /\ \A c \in Clients : /\ req[c].op # "incr"
                          /\ req[c].op = "set" => req[c].pay \in Payloads /\ req[c].rev \in Revs

\* Versions stay away from the ends of int32: m bounds the revisions asked for.
Bounded(m) ==
    \A h \in Hashes : -(m + Len(log)) <= tree[h].ver /\ tree[h].ver <= m + Len(log)

\* The value hash of a live item is that of the stored value.
HashKept == \A h \in Hashes : tree[h].ver > 0 => tree[h].vh = Vhash(log[tree[h].pos].pay)

\* A set on its way to the tree has what the rules make of the item it replaces.
PutInv(c) ==
    LET r == req[c]
        item == tree[Hash[r.key]]
    IN  r.at = "treeset" =>
            /\ ~SameValue(item.ver, item.vh, r.pay, r.rev) /\ ~Refused(item.ver, r.rev)
            /\ r.new.ver = NewVersion(item.ver, r.rev) /\ r.new.vh = RequestHash(r.pay, r.rev)
            /\ log[r.new.pos].pay = r.pay

PutBounded(c, m) ==
    req[c].at = "treeset" => -(m + req[c].new.pos) <= req[c].new.ver /\ req[c].new.ver <= m + req[c].new.pos

-----------------------------------------------------------------------------
\* A step of one client.
Step(c) ==
    \/ \E k \in Keys : \E op \in {"get", "incr"} : StartRead(c, op, k)
    \/ \E k \in Keys, p \in Payloads, rev \in Revs : StartSet(c, k, p, rev)
    \/ TreeGet(c) \/ GetRecord(c) \/ GetHint(c) \/ GetCollision1(c) \/ GetCollision2(c)
    \/ Return(c)
    \/ SetSameValue(c) \/ SetRefused(c) \/ SetAppend(c)
    \/ IncrRefused(c) \/ IncrAppend(c)
    \/ TreeSet(c) \/ CollisionCheck(c) \/ CollisionSet(c) \/ HintSet(c)

\* The log grows, and what is in the tree or has returned stays so.
Grown ==
    /\ Len(log) <= Len(log') /\ \A i \in 1 .. Len(log) : log'[i] = log[i]
    /\ \A h \in Hashes : tree[h].pos # 0 => tree'[h].pos # 0
    /\ \A k \in Keys : doneTo[k] # 0 => doneTo'[k] # 0

LEMMA NextIsStep == Next <=> \E c \in Clients : Step(c)
BY DEF Next, Step

-----------------------------------------------------------------------------
(* Typing *)

LEMMA TypeFrame ==
    /\ LogOK /\ UNCHANGED log => LogOK'
    /\ IndexOK /\ UNCHANGED <<tree, coll, hint>> => IndexOK'
    /\ RequestsOK /\ UNCHANGED <<req, writeLock>> => RequestsOK'
    /\ HistoryOK /\ UNCHANGED <<doneTo, raced>> => HistoryOK'
BY DEF LogOK, IndexOK, RequestsOK, HistoryOK

\* int32 arithmetic stays in int32.
LEMMA VersionTypes ==
    /\ 0 \in Vers /\ 1 \in Vers /\ Revs \subseteq Vers
    /\ \A v \in Vers : Wrap(1 + v) \in Vers /\ Wrap(-v) \in Vers /\ AbsVer(v) \in Vers
    /\ \A v, rev \in Vers : NewVersion(v, rev) \in Vers
<1>1. 0 \in Vers /\ 1 \in Vers /\ Revs \subseteq Vers
  BY VersionsAssumption DEF Vers
<1>2. \A v \in Vers : Wrap(1 + v) \in Vers /\ Wrap(-v) \in Vers /\ AbsVer(v) \in Vers
  BY VersionsAssumption DEF Vers, Wrap, AbsVer
<1>3. \A v, rev \in Vers : NewVersion(v, rev) \in Vers
  BY VersionsAssumption DEF Vers, Wrap, AbsVer, NewVersion
<1> QED BY <1>1, <1>2, <1>3

LEMMA IdleFacts ==
    /\ Idle \in Requests /\ NoItem \in Items /\ NoPay \in Pays
    /\ Idle.at = "idle" /\ Idle.op = "get" /\ Idle.old = NoItem /\ Idle.new = NoItem /\ Idle.floor = 0
    /\ NoItem.pos = 0 /\ NoItem.ver = 0
<1>1. (CHOOSE k \in Keys : TRUE) \in Keys
  BY VersionsAssumption
<1>2. NoItem \in Items /\ NoPay \in Pays
  BY VersionTypes, BucketAssumption DEF NoItem, NoPay, Items, Pays
<1> QED BY <1>1, <1>2, VersionTypes, BucketAssumption DEF Idle, Requests, NoItem

\* Go changes the request of c.
LEMMA Gone ==
    ASSUME RequestsOK, NEW c \in Clients, NEW r, Go(c, r)
    PROVE  req'[c] = r /\ \A d \in Clients \ {c} : req'[d] = req[d]
BY DEF RequestsOK, Go

\* The parts of a request.
LEMMA RequestParts ==
    ASSUME RequestsOK, NEW c \in Clients
    PROVE  /\ req[c] \in Requests /\ req[c].key \in Keys /\ Hash[req[c].key] \in Hashes
           /\ req[c].old \in Items /\ req[c].new \in Items /\ req[c].pay \in Pays /\ req[c].rev \in Vers
           /\ req[c].floor \in 0 .. MaxLog
           /\ req[c].old.ver \in Vers /\ req[c].old.vh \in Nat /\ req[c].old.pos \in 0 .. MaxLog
           /\ req[c].new.ver \in Vers /\ req[c].new.vh \in Nat /\ req[c].new.pos \in 0 .. MaxLog
BY DEF RequestsOK, Requests, Items, Hashes

\* A record of the log.
LEMMA LogParts ==
    ASSUME LogOK, NEW i, i \in 1 .. Len(log)
    PROVE  /\ log[i] \in LogRecords /\ log[i].key \in Keys /\ log[i].ver \in Vers
           /\ log[i].pay \in Pays /\ log[i].pay.val \in Nat /\ Hash[log[i].key] \in Hashes
<1>1. log[i] \in LogRecords
  BY ElementOfSeq DEF LogOK
<1> QED BY <1>1 DEF LogRecords, Pays, Hashes

\* What a request has found is in the log.
LEMMA InLog ==
    ASSUME TypeOK, NEW c \in Clients, RequestInv(c)
    PROVE  /\ Len(log) \in Nat
           /\ req[c].old.pos # 0 => req[c].old.pos \in 1 .. Len(log)
           /\ req[c].new.pos # 0 => req[c].new.pos \in 1 .. Len(log)
<1>1. Len(log) \in Nat
  BY LenProperties DEF TypeOK, LogOK
<1>2. req[c].old.pos \in Nat /\ req[c].new.pos \in Nat
  BY RequestParts, BucketAssumption DEF TypeOK
<1> QED BY <1>1, <1>2 DEF RequestInv, Points, Own

\* A write that starts or is on its way to its record finds room for it.
LEMMA RoomLeft ==
    ASSUME TypeOK, RoomInv, NEW c \in Clients, c \in Appenders
    PROVE  Len(log) \in Nat /\ Len(log) + 1 <= MaxLog
<1>1. IsFiniteSet(Appenders) /\ Cardinality(Appenders) \in Nat /\ Cardinality(Appenders) # 0
  BY BucketAssumption, FS_Subset, FS_CardinalityType, FS_EmptySet DEF Appenders
<1>2. Len(log) \in Nat
  BY LenProperties DEF TypeOK, LogOK
<1> QED BY <1>1, <1>2, BucketAssumption DEF RoomInv

\* Begin makes a well formed request of one.
LEMMA BeginTyped ==
    ASSUME RequestsOK, IndexOK, NEW c \in Clients, NEW r \in Requests, Begin(c, r)
    PROVE  /\ req' \in [Clients -> Requests]
           /\ \A d \in Clients \ {c} : req'[d] = req[d]
           /\ req'[c] = IF coll[r.key].pos # 0 THEN [r EXCEPT !.at = "found", !.old = coll[r.key]]
                        ELSE [r EXCEPT !.at = "tree"]
<1>1. r.key \in Keys /\ coll[r.key] \in Items
  BY DEF Requests, IndexOK
<1>2. [r EXCEPT !.at = "found", !.old = coll[r.key]] \in Requests /\ [r EXCEPT !.at = "tree"] \in Requests
  BY <1>1 DEF Requests
<1> QED BY <1>2 DEF Begin, Go, RequestsOK

\* A request that starts.
LEMMA StartTyped ==
    /\ \A op \in {"get", "incr"} : \A k \in Keys : \A f \in 0 .. MaxLog :
           [Idle EXCEPT !.op = op, !.key = k, !.floor = f] \in Requests
    /\ \A k \in Keys : \A p \in Payloads : \A rev \in Revs :
           [Idle EXCEPT !.op = "set", !.key = k, !.pay = p, !.rev = rev] \in Requests
<1>1. Payloads \subseteq Pays /\ Revs \subseteq Vers
  BY VersionsAssumption, VersionTypes DEF Pays
<1> QED BY <1>1, IdleFacts DEF Requests

LEMMA Begun ==
    ASSUME RequestsOK, IndexOK, NEW c \in Clients, NEW r \in Requests, Begin(c, r)
    PROVE  /\ req'[c].key = r.key /\ req'[c].op = r.op /\ req'[c].new = r.new /\ req'[c].floor = r.floor
           /\ req'[c].pay = r.pay /\ req'[c].rev = r.rev
           /\ \/ req'[c].at = "found" /\ req'[c].old = coll[r.key] /\ req'[c].old.pos # 0
              \/ req'[c].at = "tree" /\ req'[c].old = r.old
           /\ \A d \in Clients \ {c} : req'[d] = req[d]
<1>1. \/ req'[c] = [r EXCEPT !.at = "found", !.old = coll[r.key]] /\ coll[r.key].pos # 0
      \/ req'[c] = [r EXCEPT !.at = "tree"]
  BY BeginTyped
<1>2. \A d \in Clients \ {c} : req'[d] = req[d]
  BY BeginTyped
<1> QED BY <1>1, <1>2 DEF Requests

LEMMA StartFields ==
    /\ \A op \in {"get", "incr"} : \A k \in Keys : \A f \in 0 .. MaxLog :
           LET r == [Idle EXCEPT !.op = op, !.key = k, !.floor = f]
           IN  r.op = op /\ r.key = k /\ r.floor = f /\ r.new = NoItem /\ r.old = NoItem
    /\ \A k \in Keys : \A p \in Payloads : \A rev \in Revs :
           LET r == [Idle EXCEPT !.op = "set", !.key = k, !.pay = p, !.rev = rev]
           IN  /\ r.op = "set" /\ r.key = k /\ r.pay = p /\ r.rev = rev /\ r.floor = 0
               /\ r.new = NoItem /\ r.old = NoItem
BY DEF Idle

\* A read that has started.
LEMMA ReadStarted ==
    ASSUME TypeOK, NEW c \in Clients, NEW k \in Keys, NEW op \in {"get", "incr"}, StartRead(c, op, k)
    PROVE  /\ req'[c].key = k /\ req'[c].op = op /\ req'[c].new = NoItem /\ req'[c].floor = doneTo[k]
           /\ \/ req'[c].at = "found" /\ req'[c].old = coll[k] /\ req'[c].old.pos # 0
              \/ req'[c].at = "tree" /\ req'[c].old = NoItem
<1> DEFINE r == [Idle EXCEPT !.op = op, !.key = k, !.floor = doneTo[k]]
<1>1. r \in Requests
  BY StartTyped DEF TypeOK, HistoryOK
<1>2. r.op = op /\ r.key = k /\ r.floor = doneTo[k] /\ r.new = NoItem /\ r.old = NoItem
  BY StartFields DEF TypeOK, HistoryOK
<1>3. Begin(c, r)
  BY DEF StartRead
<1> HIDE DEF r
<1> QED BY <1>1, <1>2, <1>3, Begun DEF TypeOK

\* A set that has started.
LEMMA SetStarted ==
    ASSUME TypeOK, NEW c \in Clients, NEW k \in Keys, NEW p \in Payloads, NEW rev \in Revs, StartSet(c, k, p, rev)
    PROVE  /\ req'[c].key = k /\ req'[c].op = "set" /\ req'[c].new = NoItem /\ req'[c].floor = 0
           /\ req'[c].pay = p /\ req'[c].rev = rev
           /\ \/ req'[c].at = "found" /\ req'[c].old = coll[k] /\ req'[c].old.pos # 0
              \/ req'[c].at = "tree" /\ req'[c].old = NoItem
<1> DEFINE r == [Idle EXCEPT !.op = "set", !.key = k, !.pay = p, !.rev = rev]
<1>1. r \in Requests
  BY StartTyped
<1>2. /\ r.op = "set" /\ r.key = k /\ r.pay = p /\ r.rev = rev /\ r.floor = 0 /\ r.new = NoItem /\ r.old = NoItem
  BY StartFields
<1>3. Begin(c, r)
  BY DEF StartSet
<1> HIDE DEF r
<1> QED BY <1>1, <1>2, <1>3, Begun DEF TypeOK

\* A request that goes on is still the same request.
Moves(c) ==
    \/ TreeGet(c) \/ GetRecord(c) \/ GetHint(c) \/ GetCollision1(c) \/ GetCollision2(c)
    \/ TreeSet(c) \/ CollisionCheck(c) \/ CollisionSet(c)

SameRequest(c) ==
    /\ req'[c].key = req[c].key /\ req'[c].op = req[c].op /\ req'[c].floor = req[c].floor
    /\ req'[c].pay = req[c].pay /\ req'[c].rev = req[c].rev
    /\ UNCHANGED <<log, hint, writeLock, doneTo, raced>>

LEMMA Moved ==
    ASSUME TypeOK, NEW c \in Clients, Moves(c)
    PROVE  /\ SameRequest(c)
           /\ TreeGet(c) => req'[c].at = "found" /\ req'[c].old = tree[Hash[req[c].key]] /\ req'[c].new = req[c].new
           /\ GetRecord(c) => req'[c].at = "reply" /\ req'[c].old = req[c].old /\ req'[c].new = req[c].old
           /\ GetHint(c) => /\ req'[c].at = IF hint[req[c].key].pos = 0 THEN "reply" ELSE "get1"
                            /\ req'[c].old = req[c].old /\ req'[c].new = hint[req[c].key]
           /\ GetCollision1(c) => req'[c].at = "get2" /\ req'[c].old = req[c].old /\ req'[c].new = req[c].new
           /\ GetCollision2(c) => /\ req'[c].at = "reply" /\ req'[c].old = req[c].old
                                  /\ req'[c].new.pos = req[c].new.pos
           /\ TreeSet(c) => req'[c].at = "collcheck" /\ req'[c].old = req[c].old /\ req'[c].new = req[c].new
           /\ CollisionCheck(c) => req'[c].at \in {"collset", "hintset"} /\ req'[c].old = req[c].old /\ req'[c].new = req[c].new
           /\ CollisionSet(c) => req'[c].at = "hintset" /\ req'[c].old = req[c].old /\ req'[c].new = req[c].new
<1>0. RequestsOK /\ req[c] \in Requests /\ req[c].new \in Items
  BY RequestParts DEF TypeOK
<1>1. ASSUME TreeGet(c)
      PROVE  /\ SameRequest(c)
             /\ req'[c].at = "found" /\ req'[c].old = tree[Hash[req[c].key]] /\ req'[c].new = req[c].new
  <2>1. /\ req'[c] = [req[c] EXCEPT !.at = "found", !.old = tree[Hash[req[c].key]]]
        /\ UNCHANGED <<log, hint, writeLock, doneTo, raced>>
    BY <1>0, <1>1, Gone DEF TreeGet
  <2> QED BY <1>0, <2>1 DEF Requests, SameRequest
<1>2. ASSUME GetRecord(c)
      PROVE  /\ SameRequest(c)
             /\ req'[c].at = "reply" /\ req'[c].old = req[c].old /\ req'[c].new = req[c].old
  <2>1. /\ req'[c] = [req[c] EXCEPT !.at = "reply", !.new = req[c].old]
        /\ UNCHANGED <<log, hint, writeLock, doneTo, raced>>
    BY <1>0, <1>2, Gone DEF GetRecord
  <2> QED BY <1>0, <2>1 DEF Requests, SameRequest
<1>3. ASSUME GetHint(c)
      PROVE  /\ SameRequest(c)
             /\ req'[c].at = IF hint[req[c].key].pos = 0 THEN "reply" ELSE "get1"
             /\ req'[c].old = req[c].old /\ req'[c].new = hint[req[c].key]
  <2>1. /\ req'[c] = [req[c] EXCEPT !.at = IF hint[req[c].key].pos = 0 THEN "reply" ELSE "get1",
                                 !.new = hint[req[c].key]]
        /\ UNCHANGED <<log, hint, writeLock, doneTo, raced>>
    BY <1>0, <1>3, Gone DEF GetHint
  <2> QED BY <1>0, <2>1 DEF Requests, SameRequest
<1>4. ASSUME GetCollision1(c)
      PROVE  /\ SameRequest(c)
             /\ req'[c].at = "get2" /\ req'[c].old = req[c].old /\ req'[c].new = req[c].new
  <2>1. /\ req'[c] = [req[c] EXCEPT !.at = "get2"]
        /\ UNCHANGED <<log, hint, writeLock, doneTo, raced>>
    BY <1>0, <1>4, Gone DEF GetCollision1
  <2> QED BY <1>0, <2>1 DEF Requests, SameRequest
<1>5. ASSUME GetCollision2(c)
      PROVE  /\ SameRequest(c)
             /\ req'[c].at = "reply" /\ req'[c].old = req[c].old
             /\ req'[c].new.pos = req[c].new.pos
  <2>1. /\ req'[c] = [req[c] EXCEPT !.at = "reply", !.new.ver = log[req[c].new.pos].ver]
        /\ UNCHANGED <<log, hint, writeLock, doneTo, raced>>
    BY <1>0, <1>5, Gone DEF GetCollision2
  <2> QED BY <1>0, <2>1 DEF Requests, Items, SameRequest
<1>6. ASSUME TreeSet(c)
      PROVE  /\ SameRequest(c)
             /\ req'[c].at = "collcheck" /\ req'[c].old = req[c].old /\ req'[c].new = req[c].new
  <2>1. /\ req'[c] = [req[c] EXCEPT !.at = "collcheck"]
        /\ UNCHANGED <<log, hint, writeLock, doneTo, raced>>
    BY <1>0, <1>6, Gone DEF TreeSet
  <2> QED BY <1>0, <2>1 DEF Requests, SameRequest
<1>7. ASSUME CollisionCheck(c)
      PROVE  /\ SameRequest(c)
             /\ req'[c].at \in {"collset", "hintset"} /\ req'[c].old = req[c].old /\ req'[c].new = req[c].new
  <2>1. /\ \E place \in {"collset", "hintset"} : req'[c] = [req[c] EXCEPT !.at = place]
        /\ UNCHANGED <<log, hint, writeLock, doneTo, raced>>
    BY <1>0, <1>7, Gone DEF CollisionCheck
  <2> QED BY <1>0, <2>1 DEF Requests, SameRequest
<1>8. ASSUME CollisionSet(c)
      PROVE  /\ SameRequest(c)
             /\ req'[c].at = "hintset" /\ req'[c].old = req[c].old /\ req'[c].new = req[c].new
  <2>1. /\ req'[c] = [req[c] EXCEPT !.at = "hintset"]
        /\ UNCHANGED <<log, hint, writeLock, doneTo, raced>>
    BY <1>0, <1>8, Gone DEF CollisionSet
  <2> QED BY <1>0, <2>1 DEF Requests, SameRequest
<1> QED BY <1>1, <1>2, <1>3, <1>4, <1>5, <1>6, <1>7, <1>8 DEF Moves

\* CompareAndSet keeps the table's type.
LEMMA TableTyped ==
    ASSUME coll \in [Keys -> Items], NEW k \in Keys, NEW item \in Items, CompareAndSet(k, item)
    PROVE  coll' \in [Keys -> Items]
BY DEF CompareAndSet

\* AppendRecord writes a well formed record where there is room.
LEMMA AppendTyped ==
    ASSUME TypeOK, RoomInv, NEW c \in Clients, c \in Appenders, NEW ver \in Vers, NEW vh \in Nat, NEW p \in Pays,
           AppendRecord(c, ver, vh, p)
    PROVE  /\ LogOK' /\ req' \in [Clients -> Requests]
           /\ Len(log) \in Nat /\ Len(log') = Len(log) + 1
           /\ \A i \in 1 .. Len(log) : log'[i] = log[i]
           /\ log'[Len(log) + 1] = [key |-> req[c].key, ver |-> ver, vh |-> vh, pay |-> p, rev |-> req[c].rev]
           /\ req'[c] = [req[c] EXCEPT !.at = "treeset",
                                       !.new = [ver |-> ver, vh |-> vh, pos |-> Len(log) + 1]]
           /\ \A d \in Clients \ {c} : req'[d] = req[d]
<1> DEFINE rec == [key |-> req[c].key, ver |-> ver, vh |-> vh, pay |-> p, rev |-> req[c].rev]
           item == [ver |-> ver, vh |-> vh, pos |-> Len(log) + 1]
<1>1. Len(log) \in Nat /\ Len(log) + 1 <= MaxLog /\ log \in Seq(LogRecords)
  BY RoomLeft DEF TypeOK, LogOK
<1>2. rec \in LogRecords
  BY RequestParts DEF TypeOK, LogRecords
<1>3. item \in Items
  BY <1>1, BucketAssumption DEF Items
<1>4. [req[c] EXCEPT !.at = "treeset", !.new = item] \in Requests
  BY <1>3, RequestParts DEF TypeOK, Requests
<1>5. log' = Append(log, rec) /\ Go(c, [req[c] EXCEPT !.at = "treeset", !.new = item])
  BY DEF AppendRecord
<1>6. req' \in [Clients -> Requests]
  BY <1>4, <1>5 DEF Go, TypeOK, RequestsOK
<1>7. log' \in Seq(LogRecords) /\ Len(log') = Len(log) + 1
      /\ \A i \in 1 .. Len(log) : log'[i] = log[i]
      /\ log'[Len(log) + 1] = rec
  BY <1>1, <1>2, <1>5, AppendProperties
<1> QED BY <1>1, <1>5, <1>6, <1>7, Gone DEF LogOK, TypeOK

\* Both kinds of write append a well formed record, with the version and the
\* value the code computes.
LEMMA Appends ==
    ASSUME HashTotal, IInv, NEW c \in Clients, SetAppend(c) \/ IncrAppend(c)
    PROVE  /\ c \in Appenders
           /\ \E ver \in Vers, vh \in Nat, p \in Pays : AppendRecord(c, ver, vh, p)
<1>0. TypeOK /\ LogOK /\ RequestsOK /\ RequestInv(c)
  BY DEF IInv, TypeOK
<1>1. CASE SetAppend(c)
  <2>1. NewVersion(req[c].old.ver, req[c].rev) \in Vers /\ RequestHash(req[c].pay, req[c].rev) \in Nat
        /\ req[c].pay \in Pays
    BY <1>0, RequestParts, VersionTypes, IdleFacts DEF RequestHash, HashTotal
  <2> QED BY <1>1, <2>1 DEF SetAppend, Appenders, Before
<1>2. CASE IncrAppend(c)
  <2> DEFINE live == req[c].new.ver > 0
             p == [val |-> IF live THEN log[req[c].new.pos].pay.val + 1 ELSE 1, counter |-> TRUE]
             ver == IF live THEN Wrap(1 + req[c].new.ver) ELSE 1
  <2>1. c \in Appenders
    BY <1>2 DEF IncrAppend, Appenders, Before
  <2>2. live => req[c].new.pos \in 1 .. Len(log)
    BY <1>0, InLog, RequestParts DEF RequestInv, Real
  <2>3. p \in Pays
    BY <1>0, <2>2, LogParts DEF Pays
  <2>4. ver \in Vers /\ Vhash(p) \in Nat
    BY <1>0, <2>3, RequestParts, VersionTypes DEF HashTotal
  <2>5. AppendRecord(c, ver, Vhash(p), p)
    BY <1>2 DEF IncrAppend
  <2> HIDE DEF p, ver
  <2> QED BY <2>1, <2>3, <2>4, <2>5
<1> QED BY <1>1, <1>2

\* A request that moves on.
LEMMA MoveTyped ==
    ASSUME RequestsOK, NEW c \in Clients,
           NEW place \in {"idle", "tree", "found", "get1", "get2", "reply", "treeset", "collcheck", "collset",
                          "hintset"}
    PROVE  /\ [req[c] EXCEPT !.at = place] \in Requests
           /\ \A item \in Items : /\ [req[c] EXCEPT !.at = place, !.old = item] \in Requests
                                  /\ [req[c] EXCEPT !.at = place, !.new = item] \in Requests
           /\ \A v \in Vers : [req[c] EXCEPT !.at = place, !.new.ver = v] \in Requests
<1>1. req[c] \in Requests /\ req[c].new \in Items
  BY RequestParts
<1>2. \A v \in Vers : [req[c].new EXCEPT !.ver = v] \in Items
  BY <1>1 DEF Items
<1> QED BY <1>1, <1>2 DEF Requests

\* Every step keeps the types.
LEMMA StepTyped == ASSUME HashTotal, IInv, NEW c \in Clients, Step(c) PROVE TypeOK'
<1>0. TypeOK /\ LogOK /\ IndexOK /\ RequestsOK /\ HistoryOK /\ RoomInv /\ RequestInv(c)
  BY DEF IInv, TypeOK
<1>i. /\ Idle \in Requests /\ req[c] \in Requests /\ req[c].key \in Keys /\ Hash[req[c].key] \in Hashes
      /\ req[c].old \in Items /\ req[c].new \in Items /\ req[c].pay \in Pays /\ req[c].rev \in Vers
      /\ req \in [Clients -> Requests] /\ writeLock \in Clients \cup {Nobody}
  BY <1>0, IdleFacts, RequestParts DEF RequestsOK
<1>1. ASSUME NEW k \in Keys, NEW op \in {"get", "incr"}, StartRead(c, op, k) PROVE TypeOK'
  <2>1. req' \in [Clients -> Requests]
    <3>1. [Idle EXCEPT !.op = op, !.key = k, !.floor = doneTo[k]] \in Requests
      BY <1>0, StartTyped DEF HistoryOK
    <3> QED BY <1>0, <1>1, <3>1, BeginTyped DEF StartRead
  <2>2. raced' \subseteq Hashes
    BY <1>0, <1>1 DEF StartRead, HistoryOK, Hashes
  <2> QED BY <1>0, <1>1, <2>1, <2>2, TypeFrame DEF StartRead, TypeOK, RequestsOK, HistoryOK
<1>2. ASSUME NEW k \in Keys, NEW p \in Payloads, NEW rev \in Revs, StartSet(c, k, p, rev) PROVE TypeOK'
  <2>1. req' \in [Clients -> Requests]
    <3>1. [Idle EXCEPT !.op = "set", !.key = k, !.pay = p, !.rev = rev] \in Requests
      BY StartTyped
    <3> QED BY <1>0, <1>2, <3>1, BeginTyped DEF StartSet
  <2>2. raced' \subseteq Hashes
    BY <1>0, <1>2 DEF StartSet, HistoryOK, Hashes
  <2> QED BY <1>0, <1>2, <2>1, <2>2, TypeFrame DEF StartSet, TypeOK, RequestsOK, HistoryOK
<1>3. CASE TreeGet(c) \/ GetRecord(c) \/ GetHint(c)
  <2>1. \E r \in Requests : Go(c, r)
    <3>1. tree[Hash[req[c].key]] \in Items /\ hint[req[c].key] \in Items
      BY <1>0, <1>i DEF IndexOK
    <3>2. CASE TreeGet(c)
      BY <1>0, <3>1, <3>2, MoveTyped, Zenon DEF TreeGet
    <3>3. CASE GetRecord(c)
      BY <1>0, <1>i, <3>3, MoveTyped, Zenon DEF GetRecord
    <3>4. CASE GetHint(c)
      BY <1>0, <3>1, <3>4, MoveTyped, Zenon DEF GetHint
    <3> QED BY <1>3, <3>2, <3>3, <3>4
  <2>2. RequestsOK'
    BY <1>i, <1>3, <2>1 DEF Go, RequestsOK, TreeGet, GetRecord, GetHint
  <2> QED BY <1>0, <1>3, <2>2, TypeFrame DEF TreeGet, GetRecord, GetHint, TypeOK
<1>4. CASE GetCollision1(c)
  <2>1. req[c].old.pos \in 1 .. Len(log)
    BY <1>0, <1>4, InLog DEF GetCollision1, RequestInv
  <2>2. /\ FoundRecord(c).key \in Keys
        /\ [ver |-> FoundRecord(c).ver, pos |-> req[c].old.pos,
            vh |-> IF FoundRecord(c).ver > 0 THEN Vhash(FoundRecord(c).pay) ELSE 0] \in Items
    <3>1. /\ FoundRecord(c).key \in Keys /\ FoundRecord(c).ver \in Vers /\ Vhash(FoundRecord(c).pay) \in Nat
          /\ req[c].old.pos \in 0 .. MaxLog
      BY <1>0, <2>1, LogParts, RequestParts DEF FoundRecord, HashTotal
    <3> QED BY <3>1 DEF Items
  <2>3. IndexOK'
    BY <1>0, <1>4, <2>2, TableTyped DEF GetCollision1, IndexOK
  <2>4. RequestsOK'
    BY <1>0, <1>i, <1>4, MoveTyped, Zenon DEF GetCollision1, Go, RequestsOK
  <2> QED BY <1>0, <1>4, <2>3, <2>4, TypeFrame DEF GetCollision1, TypeOK
<1>5. CASE GetCollision2(c)
  <2>1. req[c].new.pos \in 1 .. Len(log)
    BY <1>0, <1>5, InLog DEF GetCollision2, RequestInv
  <2>2. log[req[c].new.pos].ver \in Vers
    BY <1>0, <2>1, LogParts
  <2>3. IndexOK'
    BY <1>0, <1>i, <1>5, TableTyped DEF GetCollision2, IndexOK
  <2>4. RequestsOK'
    BY <1>0, <1>i, <1>5, <2>2, MoveTyped, Zenon DEF GetCollision2, Go, RequestsOK
  <2> QED BY <1>0, <1>5, <2>3, <2>4, TypeFrame DEF GetCollision2, TypeOK
<1>6. CASE Return(c) \/ SetRefused(c) \/ IncrRefused(c)
  <2>1. RequestsOK'
    BY <1>i, <1>6 DEF Return, SetRefused, IncrRefused, Go, RequestsOK
  <2> QED BY <1>0, <1>6, <2>1, TypeFrame DEF Return, SetRefused, IncrRefused, TypeOK
<1>7. CASE SetSameValue(c)
  <2>1. RequestsOK'
    BY <1>i, <1>7 DEF SetSameValue, Go, RequestsOK
  <2>2. [ver |-> req[c].rev, vh |-> RequestHash(req[c].pay, req[c].rev), pos |-> req[c].old.pos] \in Items
    BY <1>0, <1>i, RequestParts DEF Items, RequestHash, HashTotal
  <2>3. IndexOK'
    BY <1>0, <1>7, <2>2 DEF SetSameValue, IndexOK
  <2> QED BY <1>0, <1>7, <2>1, <2>3, TypeFrame DEF SetSameValue, TypeOK
<1>8. CASE SetAppend(c) \/ IncrAppend(c)
  <2>1. LogOK' /\ req' \in [Clients -> Requests]
    BY <1>0, <1>8, Appends, AppendTyped
  <2> QED BY <1>0, <1>8, <2>1, TypeFrame DEF SetAppend, IncrAppend, TypeOK, RequestsOK
<1>9. CASE TreeSet(c) \/ CollisionCheck(c) \/ CollisionSet(c)
  <2>1. IndexOK'
    <3>1. CASE TreeSet(c)
      BY <1>0, <1>i, <3>1 DEF TreeSet, IndexOK
    <3>2. CASE CollisionCheck(c)
      BY <1>0, <3>2 DEF CollisionCheck, IndexOK
    <3>3. CASE CollisionSet(c)
      BY <1>0, <1>i, <3>3, TableTyped DEF CollisionSet, IndexOK
    <3> QED BY <1>9, <3>1, <3>2, <3>3
  <2>2. RequestsOK'
    <3>1. \E place \in {"collcheck", "collset", "hintset"} : Go(c, [req[c] EXCEPT !.at = place])
      BY <1>9 DEF TreeSet, CollisionCheck, CollisionSet
    <3>2. \E r \in Requests : Go(c, r)
      BY <1>0, <3>1, MoveTyped, Zenon
    <3>3. UNCHANGED writeLock
      BY <1>9 DEF TreeSet, CollisionCheck, CollisionSet
    <3> QED BY <1>i, <3>2, <3>3 DEF Go, RequestsOK
  <2> QED BY <1>0, <1>9, <2>1, <2>2, TypeFrame DEF TreeSet, CollisionCheck, CollisionSet, TypeOK
<1>10. CASE HintSet(c)
  <2>1. IndexOK'
    BY <1>0, <1>i, <1>10 DEF HintSet, IndexOK
  <2>2. RequestsOK'
    BY <1>i, <1>10 DEF HintSet, Go, RequestsOK
  <2>3. HistoryOK'
    BY <1>0, <1>i, <1>10, RequestParts DEF HintSet, HistoryOK
  <2> QED BY <1>0, <1>10, <2>1, <2>2, <2>3, TypeFrame DEF HintSet, TypeOK
<1> QED BY <1>1, <1>2, <1>3, <1>4, <1>5, <1>6, <1>7, <1>8, <1>9, <1>10 DEF Step

-----------------------------------------------------------------------------
(* The steps keep the invariant *)

\* A step changes one request, and everything grows.
LEMMA StepGrows ==
    ASSUME HashTotal, IInv, NEW c \in Clients, Step(c)
    PROVE  Grown /\ \A d \in Clients \ {c} : req'[d] = req[d]
<1>0. TypeOK /\ IndexOK /\ RequestsOK /\ HistoryOK /\ RoomInv /\ RequestInv(c) /\ Len(log) \in Nat
  BY LenProperties DEF IInv, TypeOK, LogOK
<1>1. CASE UNCHANGED <<log, tree, doneTo>>
  <2>1. Grown
    BY <1>0, <1>1 DEF Grown
  <2>2. \A d \in Clients \ {c} : req'[d] = req[d]
    BY <1>0, Zenon DEF Step, StartRead, StartSet, Begin, TreeGet, GetRecord, GetHint, GetCollision1, GetCollision2,
               Return, SetSameValue, SetRefused, SetAppend, IncrRefused, IncrAppend, AppendRecord, TreeSet,
               CollisionCheck, CollisionSet, HintSet, Go, RequestsOK
  <2> QED BY <2>1, <2>2
<1>2. CASE SetSameValue(c)
  <2>1. req[c].old.pos # 0
    BY <1>0, <1>2, RequestParts DEF SetSameValue, Same, SameValue, RequestInv, Real, Vers
  <2>2. Grown
    BY <1>0, <1>2, <2>1, RequestParts DEF SetSameValue, Grown, IndexOK, Items
  <2> QED BY <1>0, <1>2, <2>2, Gone DEF SetSameValue
<1>3. CASE SetAppend(c) \/ IncrAppend(c)
  <2>1. /\ Len(log') = Len(log) + 1 /\ \A i \in 1 .. Len(log) : log'[i] = log[i]
        /\ \A d \in Clients \ {c} : req'[d] = req[d]
    BY <1>0, <1>3, Appends, AppendTyped
  <2>2. UNCHANGED <<tree, doneTo>>
    BY <1>3 DEF SetAppend, IncrAppend
  <2> QED BY <1>0, <2>1, <2>2 DEF Grown
<1>4. CASE TreeSet(c)
  <2>1. req[c].new.pos # 0
    BY <1>0, <1>4 DEF TreeSet, RequestInv, Stored
  <2>2. Grown
    BY <1>0, <1>4, <2>1 DEF TreeSet, Grown, IndexOK, Items
  <2> QED BY <1>0, <1>4, <2>2, Gone DEF TreeSet
<1>5. CASE HintSet(c)
  <2>1. req[c].new.pos # 0
    BY <1>0, <1>5 DEF HintSet, RequestInv, Stored
  <2>2. \A k \in Keys : doneTo[k] # 0 => doneTo'[k] # 0
    BY <1>0, <1>5, <2>1 DEF HintSet, HistoryOK
  <2> QED BY <1>0, <1>5, <2>2, Gone DEF HintSet, Grown
<1> QED BY <1>1, <1>2, <1>3, <1>4, <1>5, Zenon
        DEF Step, StartRead, StartSet, TreeGet, GetRecord, GetHint, GetCollision1, GetCollision2, Return,
            SetRefused, IncrRefused, CollisionCheck, CollisionSet

\* What an item leads to stays where it is.
LEMMA ItemKept ==
    ASSUME Grown, Len(log) \in Nat, Len(log') \in Nat, NEW item, item.pos \in Nat, NEW k
    PROVE  /\ Own(item, k) => (item.pos # 0 => item.pos <= Len(log') /\ log'[item.pos].key = k)
           /\ Points(item, k) => (item.pos # 0 => item.pos <= Len(log') /\ Hash[log'[item.pos].key] = k)
BY DEF Own, Points, Grown

\* The requests a step does not touch keep their part of the invariant.
LEMMA OthersKept ==
    ASSUME IInv, TypeOK', Grown, NEW d \in Clients, req'[d] = req[d]
    PROVE  RequestInv(d)' /\ FloorInv(d)'
<1>0. RequestsOK /\ RequestInv(d) /\ FloorInv(d) /\ Len(log) \in Nat /\ Len(log') \in Nat
  BY LenProperties DEF IInv, TypeOK, LogOK
<1>1. req[d].key \in Keys /\ Hash[req[d].key] \in Hashes /\ req[d].old.pos \in Nat /\ req[d].new.pos \in Nat
  BY <1>0, RequestParts, BucketAssumption
<1>2. Points(req[d].old, Hash[req[d].key])' /\ Own(req[d].new, req[d].key)'
  BY <1>0, <1>1, ItemKept DEF RequestInv, Points, Own
<1>3. RequestInv(d)'
  BY <1>0, <1>1, <1>2 DEF RequestInv, Real, Grown
<1> QED BY <1>0, <1>1, <1>3 DEF FloorInv, Grown

\* A client that has nothing under way.
LEMMA IdleKept == ASSUME NEW c \in Clients, req'[c] = Idle PROVE RequestInv(c)' /\ FloorInv(c)'
BY IdleFacts DEF RequestInv, FloorInv, Points, Own, Real, Stored

\* A request that moves on without a new item.
LEMMA MoveKept ==
    ASSUME IInv, TypeOK', Grown, NEW c \in Clients, NEW place,
           req'[c] = [req[c] EXCEPT !.at = place], req[c].at # "idle",
           \/ req[c].at = "get1" /\ place = "get2"
           \/ req[c].at \in Stored /\ place \in Stored \ {"treeset"},
           tree'[Hash[req[c].key]].pos # 0 \/ place = "get2"
    PROVE  RequestInv(c)' /\ FloorInv(c)'
<1>0. RequestsOK /\ RequestInv(c) /\ FloorInv(c) /\ Len(log) \in Nat /\ Len(log') \in Nat
  BY LenProperties DEF IInv, TypeOK, LogOK
<1>1. req[c].key \in Keys /\ req[c].old.pos \in Nat /\ req[c].new.pos \in Nat /\ req[c] \in Requests
  BY <1>0, RequestParts, BucketAssumption
<1>2. /\ req'[c].key = req[c].key /\ req'[c].old = req[c].old /\ req'[c].new = req[c].new
      /\ req'[c].floor = req[c].floor /\ req'[c].op = req[c].op /\ req'[c].at = place
  BY <1>1 DEF Requests
<1>3. Points(req[c].old, Hash[req[c].key])' /\ Own(req[c].new, req[c].key)'
  BY <1>0, <1>1, <1>2, ItemKept DEF RequestInv, Points, Own
<1>4. place # "idle" /\ req'[c] # Idle /\ place \notin {"get1", "found", "reply"}
  BY <1>2, IdleFacts DEF Stored
<1>5. RequestInv(c)'
  BY <1>0, <1>2, <1>3, <1>4 DEF RequestInv, Real, Stored
<1> QED BY <1>0, <1>1, <1>2, <1>4, <1>5 DEF FloorInv, Grown

\* A request that starts.
LEMMA BeginKept ==
    ASSUME IInv, UNCHANGED <<log, tree, doneTo>>, NEW c \in Clients, NEW r \in Requests, Begin(c, r),
           r.new = NoItem, r.old = NoItem, r.floor # 0 => doneTo[r.key] # 0
    PROVE  RequestInv(c)' /\ FloorInv(c)'
<1>0. RequestsOK /\ IndexOK /\ IndexInv /\ r.key \in Keys
  BY DEF IInv, TypeOK, Requests
<1>1. req'[c] = IF coll[r.key].pos # 0 THEN [r EXCEPT !.at = "found", !.old = coll[r.key]]
                ELSE [r EXCEPT !.at = "tree"]
  BY <1>0, BeginTyped
<1>2. /\ req'[c].key = r.key /\ req'[c].new = NoItem /\ req'[c].floor = r.floor
      /\ req'[c].at \in {"found", "tree"} /\ (req'[c].at = "found" => req'[c].old.pos # 0)
      /\ req'[c].old = coll[r.key] \/ req'[c].old = NoItem
  BY <1>1 DEF Requests
<1>3. Own(coll[r.key], r.key) /\ Real(coll[r.key])
  BY <1>0 DEF IndexInv
<1>4. Points(req[c].old, Hash[req[c].key])' /\ Real(req[c].old)'
  BY <1>2, <1>3, IdleFacts DEF Points, Own, Real
<1>5. RequestInv(c)'
  BY <1>2, <1>4, IdleFacts DEF RequestInv, Own, Real, Stored
<1> QED BY <1>2, <1>5 DEF FloorInv

\* What an append leaves behind.
LEMMA Appended ==
    ASSUME HashTotal, IInv, NEW c \in Clients, SetAppend(c) \/ IncrAppend(c)
    PROVE  /\ c \in Appenders /\ Len(log) \in Nat /\ Len(log') = Len(log) + 1
           /\ log'[Len(log) + 1].key = req[c].key
           /\ \A i \in 1 .. Len(log) : log'[i] = log[i]
           /\ req'[c].key = req[c].key /\ req'[c].old = req[c].old /\ req'[c].new.pos = Len(log) + 1
           /\ req'[c].floor = req[c].floor /\ req'[c].at = "treeset" /\ req'[c].op = req[c].op
           /\ req'[c].pay = req[c].pay /\ req'[c].rev = req[c].rev
           /\ \A d \in Clients \ {c} : req'[d] = req[d]
           /\ UNCHANGED <<tree, coll, hint, writeLock, doneTo, raced>>
<1>0. TypeOK /\ LogOK /\ RequestsOK /\ RoomInv /\ Len(log) \in Nat /\ req[c] \in Requests
  BY LenProperties, RequestParts DEF IInv, TypeOK, LogOK
<1>1. PICK ver \in Vers, vh \in Nat, p \in Pays : AppendRecord(c, ver, vh, p)
  BY Appends
<1>2. c \in Appenders
  BY Appends
<1>3. Len(log') = Len(log) + 1 /\ (\A i \in 1 .. Len(log) : log'[i] = log[i]) /\ \A d \in Clients \ {c} : req'[d] = req[d]
  BY <1>0, <1>1, <1>2, AppendTyped
<1>4. log'[Len(log) + 1] = [key |-> req[c].key, ver |-> ver, vh |-> vh, pay |-> p, rev |-> req[c].rev]
  BY <1>0, <1>1, AppendProperties, RequestParts DEF AppendRecord, LogOK, LogRecords
<1>5. req'[c] = [req[c] EXCEPT !.at = "treeset", !.new = [ver |-> ver, vh |-> vh, pos |-> Len(log) + 1]]
  BY <1>0, <1>1, Gone DEF AppendRecord
<1>6. /\ req'[c].key = req[c].key /\ req'[c].old = req[c].old /\ req'[c].new.pos = Len(log) + 1
      /\ req'[c].floor = req[c].floor /\ req'[c].at = "treeset" /\ req'[c].op = req[c].op
      /\ req'[c].pay = req[c].pay /\ req'[c].rev = req[c].rev
  BY <1>0, <1>5 DEF Requests
<1>7. UNCHANGED <<tree, coll, hint, writeLock, doneTo, raced>>
  BY DEF SetAppend, IncrAppend
<1> QED BY <1>0, <1>2, <1>3, <1>4, <1>6, <1>7

\* The client that takes the step keeps its part of the invariant.
LEMMA MineKept ==
    ASSUME HashTotal, IInv, NEW c \in Clients, Step(c), TypeOK', Grown
    PROVE  RequestInv(c)' /\ FloorInv(c)'
<1>0. /\ TypeOK /\ LogOK /\ IndexOK /\ RequestsOK /\ HistoryOK /\ RoomInv /\ RequestInv(c) /\ FloorInv(c)
      /\ IndexInv /\ DoneInv /\ Len(log) \in Nat
  BY LenProperties DEF IInv, TypeOK, LogOK
<1>i. /\ req[c] \in Requests /\ req[c].key \in Keys /\ Hash[req[c].key] \in Hashes
      /\ req[c].old.pos \in Nat /\ req[c].new.pos \in Nat
  BY <1>0, RequestParts, BucketAssumption
<1>1. ASSUME NEW k \in Keys, NEW op \in {"get", "incr"}, StartRead(c, op, k) PROVE RequestInv(c)' /\ FloorInv(c)'
  <2> DEFINE r == [Idle EXCEPT !.op = op, !.key = k, !.floor = doneTo[k]]
  <2>1. r \in Requests
    BY <1>0, StartTyped DEF HistoryOK
  <2>2. r.new = NoItem /\ r.old = NoItem /\ r.floor = doneTo[k] /\ r.key = k
    BY IdleFacts DEF Idle
  <2>3. Begin(c, r) /\ UNCHANGED <<log, tree, doneTo>>
    BY <1>1 DEF StartRead
  <2> HIDE DEF r
  <2> QED BY <2>1, <2>2, <2>3, BeginKept
<1>2. ASSUME NEW k \in Keys, NEW p \in Payloads, NEW rev \in Revs, StartSet(c, k, p, rev)
      PROVE RequestInv(c)' /\ FloorInv(c)'
  <2> DEFINE r == [Idle EXCEPT !.op = "set", !.key = k, !.pay = p, !.rev = rev]
  <2>1. r \in Requests
    BY StartTyped
  <2>2. r.new = NoItem /\ r.old = NoItem /\ r.floor = 0
    BY IdleFacts DEF Idle
  <2>3. Begin(c, r) /\ UNCHANGED <<log, tree, doneTo>>
    BY <1>2 DEF StartSet
  <2> HIDE DEF r
  <2> QED BY <2>1, <2>2, <2>3, BeginKept
<1>3. CASE TreeGet(c)
  <2>1. req'[c] = [req[c] EXCEPT !.at = "found", !.old = tree[Hash[req[c].key]]] /\ UNCHANGED <<log, tree, doneTo>>
    BY <1>0, <1>3, Gone DEF TreeGet
  <2>2. /\ req'[c].key = req[c].key /\ req'[c].old = tree[Hash[req[c].key]] /\ req'[c].new = req[c].new
        /\ req'[c].floor = req[c].floor /\ req'[c].at = "found"
    BY <1>i, <2>1 DEF Requests
  <2>3. RequestInv(c)'
    <3>1. Points(tree[Hash[req[c].key]], Hash[req[c].key]) /\ Real(tree[Hash[req[c].key]])
      BY <1>0, <1>i, SMTT(20) DEF IndexInv
    <3>2. Points(req[c].old, Hash[req[c].key])' /\ Real(req[c].old)' /\ Own(req[c].new, req[c].key)' /\ Real(req[c].new)'
      BY <1>0, <2>1, <2>2, <3>1 DEF RequestInv, Points, Own, Real
    <3> QED BY <2>2, <3>2, IdleFacts DEF RequestInv, Stored
  <2> QED BY <1>0, <1>i, <2>1, <2>2, <2>3 DEF FloorInv, DoneInv
<1>4. CASE GetRecord(c)
  <2>1. req'[c] = [req[c] EXCEPT !.at = "reply", !.new = req[c].old] /\ UNCHANGED <<log, tree, doneTo>>
    BY <1>0, <1>4, Gone DEF GetRecord
  <2>2. /\ req'[c].key = req[c].key /\ req'[c].old = req[c].old /\ req'[c].new = req[c].old
        /\ req'[c].floor = req[c].floor /\ req'[c].at = "reply"
    BY <1>i, <2>1 DEF Requests
  <2>3. Own(req[c].old, req[c].key)
    BY <1>0, <1>4 DEF GetRecord, FoundRecord, RequestInv, Points, Own
  <2>4. RequestInv(c)'
    BY <1>0, <2>1, <2>2, <2>3, IdleFacts DEF RequestInv, Points, Own, Real, Stored
  <2> QED BY <1>0, <1>4, <2>1, <2>2, <2>4 DEF FloorInv, GetRecord
<1>5. CASE GetHint(c)
  <2> DEFINE place == IF hint[req[c].key].pos = 0 THEN "reply" ELSE "get1"
  <2>1. req'[c] = [req[c] EXCEPT !.at = place, !.new = hint[req[c].key]] /\ UNCHANGED <<log, tree, doneTo>>
    BY <1>0, <1>5, Gone DEF GetHint
  <2>2. /\ req'[c].key = req[c].key /\ req'[c].old = req[c].old /\ req'[c].new = hint[req[c].key]
        /\ req'[c].floor = req[c].floor /\ req'[c].at = place
    BY <1>i, <2>1 DEF Requests
  <2>3. RequestInv(c)'
    <3>1. Own(hint[req[c].key], req[c].key) /\ Real(hint[req[c].key]) /\ req[c].old.pos # 0
      BY <1>0, <1>i, <1>5 DEF IndexInv, GetHint
    <3>2. Points(req[c].old, Hash[req[c].key])' /\ Real(req[c].old)' /\ Own(req[c].new, req[c].key)' /\ Real(req[c].new)'
      BY <1>0, <2>1, <2>2, <3>1 DEF RequestInv, Points, Own, Real
    <3> QED BY <2>2, <3>1, <3>2, IdleFacts DEF RequestInv, Stored
  <2> QED BY <1>0, <1>i, <2>1, <2>2, <2>3 DEF FloorInv, DoneInv
<1>6. CASE GetCollision1(c)
  BY <1>0, <1>6, Gone, MoveKept DEF GetCollision1
<1>7. CASE GetCollision2(c)
  <2>1. req'[c] = [req[c] EXCEPT !.at = "reply", !.new.ver = log[req[c].new.pos].ver]
        /\ UNCHANGED <<log, tree, doneTo>> /\ req[c].at = "get2" /\ req[c].new \in Items
    BY <1>0, <1>7, Gone, RequestParts DEF GetCollision2
  <2>2. /\ req'[c].key = req[c].key /\ req'[c].old = req[c].old /\ req'[c].new.pos = req[c].new.pos
        /\ req'[c].floor = req[c].floor /\ req'[c].at = "reply"
    BY <1>i, <2>1 DEF Requests, Items
  <2>3. RequestInv(c)'
    BY <1>0, <2>1, <2>2, IdleFacts DEF RequestInv, Points, Own, Real, Stored
  <2> QED BY <1>0, <2>1, <2>2, <2>3 DEF FloorInv, RequestInv
<1>8. CASE Return(c) \/ SetSameValue(c) \/ SetRefused(c) \/ IncrRefused(c) \/ HintSet(c)
  <2>1. Go(c, Idle)
    BY <1>8 DEF Return, SetSameValue, SetRefused, IncrRefused, HintSet
  <2> QED BY <1>0, <2>1, Gone, IdleKept
<1>9. CASE SetAppend(c) \/ IncrAppend(c)
  <2>2. /\ c \in Appenders /\ Len(log') = Len(log) + 1 /\ log'[Len(log) + 1].key = req[c].key /\ UNCHANGED doneTo
    BY <1>9, Appended
  <2>3. /\ req'[c].key = req[c].key /\ req'[c].old = req[c].old /\ req'[c].new.pos = Len(log) + 1
        /\ req'[c].floor = req[c].floor /\ req'[c].at = "treeset" /\ req'[c].op = req[c].op
    BY <1>9, Appended
  <2>4. Points(req[c].old, Hash[req[c].key])' /\ Own(req[c].new, req[c].key)'
    BY <1>0, <1>i, <2>2, <2>3, ItemKept DEF RequestInv, Points, Own
  <2>5. RequestInv(c)'
    <3>1. Real(req[c].old)' /\ Real(req[c].new)' /\ req'[c].new.pos # 0
      BY <1>0, <2>3 DEF RequestInv, Real
    <3>2. req[c].op # "get"
      BY <2>2 DEF Appenders
    <3> QED BY <2>3, <2>4, <3>1, <3>2, IdleFacts DEF RequestInv, Stored
  <2> QED BY <1>0, <2>2, <2>3, <2>5 DEF FloorInv
<1>10. CASE TreeSet(c)
  <2>1. req[c].new.pos # 0 /\ tree'[Hash[req[c].key]] = req[c].new
    BY <1>0, <1>i, <1>10 DEF TreeSet, RequestInv, Stored, IndexOK
  <2> QED BY <1>0, <1>10, <2>1, Gone, MoveKept DEF TreeSet, Stored
<1>11. CASE CollisionCheck(c) \/ CollisionSet(c)
  <2>1. tree'[Hash[req[c].key]].pos # 0
    BY <1>0, <1>11 DEF CollisionCheck, CollisionSet, RequestInv, Stored
  <2>2. CASE CollisionCheck(c)
    BY <1>0, <2>1, <2>2, Gone, MoveKept DEF CollisionCheck, Stored
  <2>3. CASE CollisionSet(c)
    BY <1>0, <2>1, <2>3, Gone, MoveKept DEF CollisionSet, Stored
  <2> QED BY <1>11, <2>2, <2>3
<1> QED BY <1>1, <1>2, <1>3, <1>4, <1>5, <1>6, <1>7, <1>8, <1>9, <1>10, <1>11 DEF Step

\* The indexes change in one place, to an item the request has.
LEMMA TreeChange ==
    ASSUME HashTotal, IInv, NEW c \in Clients, Step(c), NEW h \in Hashes
    PROVE  \/ tree'[h] = tree[h]
           \/ h = Hash[req[c].key] /\ TreeSet(c) /\ tree'[h] = req[c].new /\ req[c].new.pos # 0
           \/ h = Hash[req[c].key] /\ SetSameValue(c) /\ tree'[h].pos = req[c].old.pos /\ req[c].old.pos # 0
<1>0. IndexOK /\ RequestsOK /\ RequestInv(c) /\ IndexInv
  BY DEF IInv, TypeOK
<1>1. CASE TreeSet(c)
  <2>1. req[c].new.pos # 0
    BY <1>0, <1>1 DEF TreeSet, RequestInv, Stored
  <2> QED BY <1>0, <1>1, <2>1 DEF TreeSet, IndexOK
<1>2. CASE SetSameValue(c)
  <2>1. req[c].old.pos # 0
    BY <1>0, <1>2, RequestParts DEF SetSameValue, Same, SameValue, RequestInv, Real, Vers
  <2> QED BY <1>0, <1>2, <2>1 DEF SetSameValue, IndexOK
<1> QED BY <1>1, <1>2, Zenon
        DEF Step, StartRead, StartSet, TreeGet, GetRecord, GetHint, GetCollision1, GetCollision2, Return,
            SetRefused, SetAppend, IncrRefused, IncrAppend, CollisionCheck, CollisionSet, HintSet

LEMMA TableChange ==
    ASSUME HashTotal, IInv, NEW c \in Clients, Step(c), NEW k \in Keys
    PROVE  \/ coll'[k] = coll[k]
           \/ k = req[c].key /\ coll'[k] = req[c].new /\ req[c].new.pos # 0 /\ UNCHANGED log
           \/ /\ req[c].old.pos # 0 /\ k = log[req[c].old.pos].key /\ coll'[k].pos = req[c].old.pos /\ UNCHANGED log
              /\ req[c].at = "get1"
<1>0. IndexOK /\ RequestsOK /\ RequestInv(c) /\ IndexInv
  BY SMTT(20) DEF IInv, TypeOK
<1>1. CASE GetCollision1(c)
  BY <1>0, <1>1 DEF GetCollision1, CompareAndSet, RequestInv, IndexOK, FoundRecord
<1>2. CASE GetCollision2(c)
  BY <1>0, <1>2 DEF GetCollision2, CompareAndSet, RequestInv, IndexOK
<1>3. CASE CollisionSet(c)
  BY <1>0, <1>3 DEF CollisionSet, CompareAndSet, RequestInv, Stored, IndexOK
<1> QED BY <1>1, <1>2, <1>3, Zenon
        DEF Step, StartRead, StartSet, TreeGet, GetRecord, GetHint, Return, SetSameValue,
            SetRefused, SetAppend, IncrRefused, IncrAppend, TreeSet, CollisionCheck, HintSet

LEMMA HintChange ==
    ASSUME HashTotal, IInv, NEW c \in Clients, Step(c)
    PROVE  \/ UNCHANGED <<hint, doneTo>>
           \/ /\ HintSet(c) /\ req[c].new.pos # 0 /\ UNCHANGED <<log, tree>>
              /\ hint'[req[c].key] = req[c].new
              /\ doneTo'[req[c].key] \in {doneTo[req[c].key], req[c].new.pos}
              /\ \A k \in Keys \ {req[c].key} : hint'[k] = hint[k] /\ doneTo'[k] = doneTo[k]
<1>0. IndexOK /\ HistoryOK /\ RequestsOK /\ RequestInv(c) /\ req[c].key \in Keys
  BY RequestParts DEF IInv, TypeOK
<1>1. CASE HintSet(c)
  BY <1>0, <1>1 DEF HintSet, RequestInv, Stored, IndexOK, HistoryOK
<1> QED BY <1>1, Zenon
        DEF Step, StartRead, StartSet, TreeGet, GetRecord, GetHint, Return, SetSameValue, GetCollision1,
            GetCollision2, SetRefused, SetAppend, IncrRefused, IncrAppend, TreeSet, CollisionCheck, CollisionSet

LEMMA IndexKept ==
    ASSUME HashTotal, IInv, NEW c \in Clients, Step(c), TypeOK', Grown
    PROVE  IndexInv'
<1>0. /\ IndexOK /\ RequestsOK /\ HistoryOK /\ IndexInv /\ RequestInv(c) /\ Len(log) \in Nat /\ Len(log') \in Nat
      /\ req[c].key \in Keys /\ req[c].old.pos \in Nat /\ req[c].new.pos \in Nat
  BY LenProperties, RequestParts, BucketAssumption DEF IInv, TypeOK, LogOK
<1>r. /\ Points(req[c].old, Hash[req[c].key]) /\ Own(req[c].new, req[c].key) /\ Real(req[c].new)
  BY <1>0 DEF RequestInv
<1>1. ASSUME NEW h \in Hashes PROVE Points(tree[h], h)' /\ Real(tree[h])'
  <2>1. Points(tree[h], h) /\ Real(tree[h]) /\ tree[h].pos \in Nat
    BY <1>0, BucketAssumption DEF IndexInv, IndexOK, Items
  <2>2. CASE tree'[h] = tree[h]
    BY <1>0, <2>1, <2>2, ItemKept DEF Points, Real
  <2>3. CASE h = Hash[req[c].key] /\ TreeSet(c) /\ tree'[h] = req[c].new /\ req[c].new.pos # 0
    <3>1. UNCHANGED log
      BY <2>3 DEF TreeSet
    <3> QED BY <1>r, <2>3, <3>1 DEF Points, Own, Real
  <2>4. CASE h = Hash[req[c].key] /\ SetSameValue(c) /\ tree'[h].pos = req[c].old.pos /\ req[c].old.pos # 0
    <3>1. UNCHANGED log
      BY <2>4 DEF SetSameValue
    <3> QED BY <1>r, <2>4, <3>1 DEF Points, Real
  <2> QED BY <2>2, <2>3, <2>4, TreeChange
<1>2. ASSUME NEW k \in Keys PROVE Own(coll[k], k)' /\ Real(coll[k])'
  <2>1. Own(coll[k], k) /\ Real(coll[k]) /\ coll[k].pos \in Nat
    BY <1>0, BucketAssumption DEF IndexInv, IndexOK, Items
  <2>2. CASE coll'[k] = coll[k]
    BY <1>0, <2>1, <2>2, ItemKept DEF Own, Real
  <2>3. CASE k = req[c].key /\ coll'[k] = req[c].new /\ req[c].new.pos # 0 /\ UNCHANGED log
    BY <1>r, <2>3 DEF Own, Real
  <2>4. CASE req[c].old.pos # 0 /\ k = log[req[c].old.pos].key /\ coll'[k].pos = req[c].old.pos /\ UNCHANGED log
    BY <1>r, <2>4 DEF Points, Own, Real
  <2> QED BY <2>2, <2>3, <2>4, TableChange
<1>3. ASSUME NEW k \in Keys
      PROVE  /\ Own(hint[k], k)' /\ Real(hint[k])'
             /\ doneTo'[k] # 0 => doneTo'[k] <= Len(log') /\ log'[doneTo'[k]].key = k
  <2>1. /\ Own(hint[k], k) /\ Real(hint[k]) /\ hint[k].pos \in Nat /\ doneTo[k] \in Nat
        /\ doneTo[k] # 0 => doneTo[k] <= Len(log) /\ log[doneTo[k]].key = k
    BY <1>0, BucketAssumption DEF IndexInv, IndexOK, Items, HistoryOK
  <2>2. CASE hint'[k] = hint[k] /\ doneTo'[k] = doneTo[k]
    <3>1. Own(hint[k], k)' /\ Real(hint[k])'
      BY <1>0, <2>1, <2>2, ItemKept DEF Own, Real
    <3>2. doneTo'[k] # 0 => doneTo'[k] <= Len(log') /\ log'[doneTo'[k]].key = k
      BY <1>0, <2>1, <2>2 DEF Grown
    <3> QED BY <3>1, <3>2
  <2>3. CASE /\ k = req[c].key /\ hint'[k] = req[c].new /\ doneTo'[k] \in {doneTo[k], req[c].new.pos}
             /\ UNCHANGED log /\ req[c].new.pos # 0
    BY <1>r, <2>1, <2>3 DEF Own, Real
  <2> QED BY <1>0, <2>2, <2>3, HintChange
<1> QED BY <1>1, <1>2, <1>3 DEF IndexInv

LEMMA DoneKept ==
    ASSUME HashTotal, IInv, NEW c \in Clients, Step(c), TypeOK', Grown
    PROVE  DoneInv'
<1>0. RequestInv(c) /\ DoneInv /\ RequestsOK /\ req[c].key \in Keys
  BY RequestParts DEF IInv, TypeOK
<1> SUFFICES ASSUME NEW k \in Keys, doneTo'[k] # 0 PROVE hint'[k].pos # 0 /\ tree'[Hash[k]].pos # 0
  BY DEF DoneInv
<1>1. Hash[k] \in Hashes
  BY DEF Hashes
<1>2. CASE hint'[k] = hint[k] /\ doneTo'[k] = doneTo[k]
  BY <1>0, <1>1, <1>2 DEF DoneInv, Grown
<1>3. CASE HintSet(c) /\ k = req[c].key /\ hint'[k] = req[c].new /\ req[c].new.pos # 0 /\ UNCHANGED tree
  <2>1. tree[Hash[k]].pos # 0
    BY <1>0, <1>3 DEF HintSet, RequestInv, Stored
  <2> QED BY <1>3, <2>1
<1> QED BY <1>0, <1>2, <1>3, HintChange

LEMMA AppendersFinite == IsFiniteSet(Appenders) /\ Cardinality(Appenders) \in Nat
BY BucketAssumption, FS_Subset, FS_CardinalityType DEF Appenders

LEMMA RoomKept ==
    ASSUME HashTotal, IInv, NEW c \in Clients, Step(c), TypeOK', \A d \in Clients \ {c} : req'[d] = req[d]
    PROVE  RoomInv'
<1>0. /\ TypeOK /\ RequestsOK /\ RoomInv /\ Len(log) \in Nat /\ MaxLog \in Nat /\ IsFiniteSet(Appenders)
      /\ Cardinality(Appenders) \in Nat
  BY LenProperties, AppendersFinite, BucketAssumption DEF IInv, TypeOK, LogOK
<1>1. CASE UNCHANGED log /\ (Room \/ c \notin Appenders' \/ c \in Appenders)
  <2>1. CASE Room
    <3>1. Len(log) + Cardinality(Appenders) < MaxLog
      BY <2>1 DEF Room, Appenders, Before
    <3>2. Appenders' \subseteq Appenders \cup {c}
      BY DEF Appenders
    <3>3. /\ IsFiniteSet(Appenders \cup {c})
          /\ Cardinality(Appenders \cup {c}) \in {Cardinality(Appenders), Cardinality(Appenders) + 1}
      BY <1>0, FS_AddElement
    <3>4. Cardinality(Appenders') \in Nat /\ Cardinality(Appenders') <= Cardinality(Appenders \cup {c})
      BY <3>2, <3>3, FS_Subset, FS_CardinalityType
    <3> QED BY <1>0, <1>1, <3>1, <3>3, <3>4 DEF RoomInv
  <2>2. CASE c \notin Appenders' \/ c \in Appenders
    <3>1. Appenders' \subseteq Appenders
      BY <2>2 DEF Appenders
    <3>2. Cardinality(Appenders') \in Nat /\ Cardinality(Appenders') <= Cardinality(Appenders)
      BY <1>0, <3>1, FS_Subset, FS_CardinalityType
    <3> QED BY <1>0, <1>1, <3>2 DEF RoomInv
  <2> QED BY <1>1, <2>1, <2>2
<1>2. CASE SetAppend(c) \/ IncrAppend(c)
  <2>1. c \in Appenders /\ Len(log') = Len(log) + 1 /\ req'[c].at = "treeset"
    BY <1>2, Appended
  <2>2. Appenders' \subseteq Appenders \ {c}
    BY <2>1 DEF Appenders, Before
  <2>3. IsFiniteSet(Appenders \ {c}) /\ Cardinality(Appenders \ {c}) = Cardinality(Appenders) - 1
    BY <1>0, <2>1, FS_RemoveElement
  <2>4. Cardinality(Appenders') \in Nat /\ Cardinality(Appenders') <= Cardinality(Appenders \ {c})
    BY <2>2, <2>3, FS_Subset, FS_CardinalityType
  <2> QED BY <1>0, <2>1, <2>3, <2>4 DEF RoomInv
<1>3. ASSUME NEW k \in Keys, NEW op \in {"get", "incr"}, StartRead(c, op, k) PROVE RoomInv'
  <2>1. req'[c].op = op
    BY <1>0, <1>3, ReadStarted
  <2> QED BY <1>1, <1>3, <2>1 DEF StartRead, Appenders
<1>4. ASSUME NEW k \in Keys, NEW p \in Payloads, NEW rev \in Revs, StartSet(c, k, p, rev) PROVE RoomInv'
  BY <1>1, <1>4 DEF StartSet
<1>5. CASE TreeGet(c) \/ GetRecord(c) \/ GetHint(c) \/ GetCollision1(c) \/ GetCollision2(c)
  <2>1. UNCHANGED log /\ req[c].at \in Before /\ req'[c].op = req[c].op
    BY <1>0, <1>5, Moved, Zenon DEF Moves, SameRequest, TreeGet, GetRecord, GetHint, GetCollision1, GetCollision2, Before
  <2> QED BY <1>1, <2>1 DEF Appenders
<1>6. CASE Return(c) \/ SetSameValue(c) \/ SetRefused(c) \/ IncrRefused(c) \/ HintSet(c)
  <2>1. UNCHANGED log /\ req'[c] = Idle
    BY <1>0, <1>6, Gone DEF Return, SetSameValue, SetRefused, IncrRefused, HintSet
  <2> QED BY <1>1, <2>1, IdleFacts DEF Appenders
<1>7. CASE TreeSet(c) \/ CollisionCheck(c) \/ CollisionSet(c)
  <2>1. UNCHANGED log /\ req'[c].at \in Stored
    BY <1>0, <1>7, Moved DEF Moves, SameRequest, Stored
  <2> QED BY <1>1, <2>1 DEF Appenders, Stored, Before
<1> QED BY <1>2, <1>3, <1>4, <1>5, <1>6, <1>7 DEF Step

LEMMA LockKept ==
    ASSUME HashTotal, IInv, NEW c \in Clients, Step(c), \A d \in Clients \ {c} : req'[d] = req[d]
    PROVE  LockInv'
<1>0. TypeOK /\ RequestsOK /\ LockInv /\ Nobody \notin Clients
  BY BucketAssumption DEF IInv, TypeOK
<1>1. ASSUME UNCHANGED writeLock, req'[c].op = "set" <=> req[c].op = "set" PROVE LockInv'
  BY <1>0, <1>1 DEF LockInv
<1>2. ASSUME writeLock' = Nobody, req[c].op = "set", req'[c].op # "set" PROVE LockInv'
  BY <1>0, <1>2 DEF LockInv
<1>3. ASSUME NEW k \in Keys, NEW op \in {"get", "incr"}, StartRead(c, op, k) PROVE LockInv'
  <2>1. req[c] = Idle /\ UNCHANGED writeLock
    BY <1>3 DEF StartRead, IInv, RequestInv
  <2> QED BY <1>0, <1>1, <1>3, <2>1, ReadStarted, IdleFacts
<1>4. ASSUME NEW k \in Keys, NEW p \in Payloads, NEW rev \in Revs, StartSet(c, k, p, rev) PROVE LockInv'
  <2>1. req'[c].op = "set" /\ writeLock = Nobody /\ writeLock' = c
    BY <1>0, <1>4, SetStarted DEF StartSet
  <2> QED BY <1>0, <2>1 DEF LockInv
<1>5. CASE Moves(c)
  BY <1>0, <1>1, <1>5, Moved DEF SameRequest
<1>6. CASE SetAppend(c) \/ IncrAppend(c)
  BY <1>1, <1>6, Appended
<1>7. CASE Return(c) \/ IncrRefused(c)
  BY <1>0, <1>1, <1>7, Gone, IdleFacts DEF Return, IncrRefused
<1>8. CASE SetSameValue(c) \/ SetRefused(c)
  BY <1>0, <1>2, <1>8, Gone, IdleFacts DEF SetSameValue, SetRefused
<1>9. CASE HintSet(c)
  BY <1>0, <1>1, <1>2, <1>9, Gone, IdleFacts DEF HintSet
<1> QED BY <1>3, <1>4, <1>5, <1>6, <1>7, <1>8, <1>9 DEF Step, Moves

LEMMA InitHolds == ASSUME Init PROVE IInv
<1>1. log \in Seq(LogRecords) /\ Len(log) = 0
  BY EmptySeq DEF Init
<1>2. TypeOK
  BY <1>1, IdleFacts, BucketAssumption DEF Init, TypeOK, LogOK, IndexOK, RequestsOK, HistoryOK
<1>3. IndexInv /\ DoneInv
  BY IdleFacts DEF Init, IndexInv, DoneInv, Points, Own, Real, Hashes
<1>4. LockInv
  BY IdleFacts, BucketAssumption DEF Init, LockInv
<1>5. \A c \in Clients : RequestInv(c) /\ FloorInv(c)
  BY IdleFacts DEF Init, RequestInv, FloorInv, Points, Own, Real, Stored
<1>6. RoomInv
  <2>1. Appenders = {}
    BY IdleFacts DEF Init, Appenders
  <2> QED BY <1>1, <2>1, FS_EmptySet, BucketAssumption DEF RoomInv
<1> QED BY <1>2, <1>3, <1>4, <1>5, <1>6 DEF IInv

LEMMA StepKeeps == ASSUME HashTotal, IInv, NEW c \in Clients, Step(c) PROVE IInv'
<1>1. TypeOK' /\ Grown /\ \A d \in Clients \ {c} : req'[d] = req[d]
  BY StepTyped, StepGrows
<1>2. IndexInv' /\ DoneInv' /\ RoomInv' /\ LockInv'
  BY <1>1, IndexKept, DoneKept, RoomKept, LockKept
<1>3. \A d \in Clients : RequestInv(d)' /\ FloorInv(d)'
  BY <1>1, OthersKept, MineKept
<1> QED BY <1>1, <1>2, <1>3 DEF IInv

LEMMA StutterKeeps == ASSUME IInv, UNCHANGED vars PROVE IInv'
<1>1. TypeOK' /\ IndexInv' /\ DoneInv' /\ LockInv'
  BY DEF vars, IInv, TypeOK, LogOK, IndexOK, RequestsOK, HistoryOK, IndexInv, DoneInv, LockInv, Points, Own, Real
<1>2. RoomInv'
  <2>1. Appenders' = Appenders /\ RoomInv
    BY DEF vars, Appenders, IInv
  <2> QED BY <2>1 DEF vars, RoomInv
<1>3. \A c \in Clients : RequestInv(c)' /\ FloorInv(c)'
  BY DEF vars, IInv, RequestInv, FloorInv, Points, Own, Real
<1> QED BY <1>1, <1>2, <1>3 DEF IInv

LEMMA Invariance == ASSUME HashTotal PROVE Spec => []IInv
<1>1. Init => IInv
  BY InitHolds
<1>2. IInv /\ [Next]_vars => IInv'
  BY StepKeeps, StutterKeeps, NextIsStep
<1> QED BY <1>1, <1>2, PTL DEF Spec

-----------------------------------------------------------------------------
\* Every index entry, record and request stays well formed, whatever hashes the
\* keys have and whatever requests interleave: versions fit int32, and no more
\* records are written than there is room for.
THEOREM Typing == ASSUME HashTotal PROVE Spec => []TypeOK
<1>1. IInv => TypeOK
  BY DEF IInv
<1> QED BY <1>1, Invariance, PTL

\* A key once written is always found, and the record found is its own
\* (Bucket.get, with its detour through the hints and the collision table), for
\* any keys, any hashes and any number of clients.
THEOREM Found == ASSUME HashTotal PROVE Spec => []AckedIsFound
<1>1. IInv => AckedIsFound
  <2> SUFFICES ASSUME IInv, NEW c \in Clients, req[c].at = "reply", req[c].floor > 0
               PROVE  req[c].new.pos > 0 /\ log[req[c].new.pos].key = req[c].key
    BY DEF AckedIsFound
  <2>1. RequestInv(c) /\ FloorInv(c) /\ req[c].floor \in Nat /\ req[c].new.pos \in Nat
    BY RequestParts, BucketAssumption DEF IInv, TypeOK
  <2> QED BY <2>1 DEF RequestInv, FloorInv, Own
<1> QED BY <1>1, Invariance, PTL

-----------------------------------------------------------------------------
(* The newest record *)

\* raced only grows; a client that becomes a writer beside another one is raced.
LEMMA RacedGrows == ASSUME NEW c \in Clients, Step(c) PROVE raced \subseteq raced'
BY Zenon DEF Step, StartRead, StartSet, TreeGet, GetRecord, GetHint, GetCollision1, GetCollision2, Return,
       SetSameValue, SetRefused, SetAppend, IncrRefused, IncrAppend, TreeSet, CollisionCheck, CollisionSet, HintSet

\* A step of c starts its request, goes on with it, or ends it.
LEMMA StepKinds ==
    ASSUME HashTotal, IInv, NEW c \in Clients, Step(c)
    PROVE  \/ \E k \in Keys, op \in {"get", "incr"} : StartRead(c, op, k)
           \/ \E k \in Keys, p \in Payloads, rev \in Revs : StartSet(c, k, p, rev)
           \/ req'[c] = Idle
           \/ req'[c].key = req[c].key /\ req'[c].op = req[c].op /\ (Moves(c) \/ SetAppend(c) \/ IncrAppend(c))
<1>0. TypeOK /\ RequestsOK
  BY DEF IInv, TypeOK
<1>1. CASE Moves(c)
  BY <1>0, <1>1, Moved DEF SameRequest
<1>2. CASE SetAppend(c) \/ IncrAppend(c)
  BY <1>2, Appended
<1>3. CASE Return(c) \/ SetSameValue(c) \/ SetRefused(c) \/ IncrRefused(c) \/ HintSet(c)
  BY <1>0, <1>3, Gone DEF Return, SetSameValue, SetRefused, IncrRefused, HintSet
<1> QED BY <1>1, <1>2, <1>3 DEF Step, Moves

LEMMA OneWriterKept ==
    ASSUME HashTotal, IInv, OneWriter, NEW c \in Clients, Step(c), \A d \in Clients \ {c} : req'[d] = req[d]
    PROVE  OneWriter'
<1> SUFFICES ASSUME NEW d \in Clients, NEW e \in Clients, NEW h \in Hashes \ raced', Writer(d, h)', Writer(e, h)'
             PROVE  d = e
  BY DEF OneWriter
<1>0. h \notin raced /\ TypeOK
  BY RacedGrows DEF IInv
<1>1. ASSUME NEW b \in Clients \ {c}, Writer(b, h)', Writer(c, h)' PROVE FALSE
  <2>1. Writer(b, h) /\ req[b] # Idle /\ req[b].at # "idle"
    <3>1. Writer(b, h)
      BY <1>1 DEF Writer
    <3>2. req[b] # Idle
      BY <3>1, IdleFacts DEF Writer
    <3> QED BY <3>1, <3>2 DEF IInv, RequestInv
  <2>2. ASSUME NEW k \in Keys, NEW op \in {"get", "incr"}, StartRead(c, op, k) PROVE FALSE
    <3>1. req'[c].op = op /\ req'[c].key = k
      BY <1>0, <2>2, ReadStarted
    <3>2. op = "incr" /\ Hash[k] = h
      BY <1>1, <3>1 DEF Writer
    <3>3. b \in OtherWriters(c, k)
      BY <2>1, <3>2 DEF OtherWriters, Writer
    <3> QED BY <2>2, <3>2, <3>3 DEF StartRead
  <2>3. ASSUME NEW k \in Keys, NEW p \in Payloads, NEW rev \in Revs, StartSet(c, k, p, rev) PROVE FALSE
    <3>1. req'[c].key = k
      BY <1>0, <2>3, SetStarted
    <3>2. Hash[k] = h
      BY <1>1, <3>1 DEF Writer
    <3>3. b \in OtherWriters(c, k)
      BY <2>1, <3>2 DEF OtherWriters, Writer
    <3> QED BY <2>3, <3>2, <3>3 DEF StartSet
  <2>4. CASE req'[c] = Idle
    BY <1>1, <2>4, IdleFacts DEF Writer
  <2>5. CASE req'[c].key = req[c].key /\ req'[c].op = req[c].op
    BY <1>0, <1>1, <2>1, <2>5 DEF Writer, OneWriter
  <2> QED BY <2>2, <2>3, <2>4, <2>5, StepKinds
<1>2. CASE d # c /\ e # c
  BY <1>0, <1>2 DEF OneWriter, Writer
<1> QED BY <1>1, <1>2

LEMMA NoCollisionKept ==
    ASSUME HashTotal, OwnHash, IInv, NoCollision, NEW c \in Clients, Step(c),
           \A d \in Clients \ {c} : req'[d] = req[d]
    PROVE  NoCollision'
<1>0. TypeOK /\ RequestsOK /\ RequestInv(c) /\ req[c].key \in Keys
  BY RequestParts DEF IInv, TypeOK
<1>1. UNCHANGED coll
  BY Zenon DEF NoCollision, Step, StartRead, StartSet, TreeGet, GetRecord, GetHint, GetCollision1, GetCollision2, Return,
         SetSameValue, SetRefused, SetAppend, IncrRefused, IncrAppend, TreeSet, CollisionCheck, CollisionSet, HintSet
<1>2. req'[c].at \notin {"get1", "get2", "collset"}
  <2>1. ASSUME NEW k \in Keys, NEW op \in {"get", "incr"}, StartRead(c, op, k) PROVE req'[c].at \notin {"get1", "get2", "collset"}
    BY <1>0, <2>1, ReadStarted
  <2>2. ASSUME NEW k \in Keys, NEW p \in Payloads, NEW rev \in Revs, StartSet(c, k, p, rev)
        PROVE  req'[c].at \notin {"get1", "get2", "collset"}
    BY <1>0, <2>2, SetStarted
  <2>3. CASE req'[c] = Idle
    BY <2>3, IdleFacts
  <2>4. CASE SetAppend(c) \/ IncrAppend(c)
    BY <2>4, Appended
  <2>5. CASE TreeGet(c) \/ GetRecord(c) \/ TreeSet(c) \/ CollisionSet(c) \/ GetCollision1(c) \/ GetCollision2(c)
    BY <1>0, <2>5, Moved DEF Moves, NoCollision, GetCollision1, CollisionSet
  <2>6. CASE GetHint(c)
    <3>1. req[c].old.pos \in 1 .. Len(log) /\ FoundRecord(c).key # req[c].key
      BY <1>0, <2>6, InLog DEF GetHint
    <3>2. FoundRecord(c).key \in Keys /\ Hash[FoundRecord(c).key] = Hash[req[c].key]
      BY <1>0, <3>1, LogParts DEF FoundRecord, RequestInv, Points, TypeOK
    <3> QED BY <1>0, <3>1, <3>2 DEF OwnHash
  <2>7. CASE CollisionCheck(c)
    <3>1. Go(c, [req[c] EXCEPT !.at = "hintset"])
      BY <2>7 DEF CollisionCheck, NoCollision
    <3> QED BY <1>0, <3>1, Gone, RequestParts DEF Requests
  <2> QED BY <2>1, <2>2, <2>3, <2>4, <2>5, <2>6, <2>7, StepKinds DEF Moves
<1> QED BY <1>1, <1>2 DEF NoCollision

LEMMA LookupKept ==
    ASSUME HashTotal, IInv, OneWriter, NoCollision, LookupInv, NEW c \in Clients, Step(c),
           \A d \in Clients \ {c} : req'[d] = req[d]
    PROVE  LookupInv'
<1> SUFFICES ASSUME NEW d \in Clients, NEW h \in Hashes \ raced', Writer(d, h)', req'[d].op = "set", req'[d].at = "found"
             PROVE  req'[d].old = tree'[h]
  BY DEF LookupInv
<1>0. h \notin raced /\ TypeOK /\ RequestInv(c)
  BY RacedGrows DEF IInv
<1>1. CASE d = c
  <2>1. ASSUME NEW k \in Keys, NEW op \in {"get", "incr"}, StartRead(c, op, k) PROVE FALSE
    BY <1>0, <1>1, <2>1, ReadStarted
  <2>2. ASSUME NEW k \in Keys, NEW p \in Payloads, NEW rev \in Revs, StartSet(c, k, p, rev) PROVE FALSE
    BY <1>0, <1>1, <2>2, SetStarted DEF NoCollision
  <2>3. CASE req'[c] = Idle
    BY <1>1, <2>3, IdleFacts
  <2>4. CASE SetAppend(c) \/ IncrAppend(c)
    BY <1>1, <2>4, Appended
  <2>5. CASE TreeGet(c)
    <3>1. req'[c].old = tree[Hash[req[c].key]] /\ req'[c].key = req[c].key
      BY <1>0, <2>5, Moved DEF Moves, SameRequest
    <3> QED BY <1>1, <2>5, <3>1 DEF TreeGet, Writer
  <2>6. CASE Moves(c) /\ ~TreeGet(c)
    BY <1>0, <1>1, <2>6, Moved DEF Moves
  <2> QED BY <2>1, <2>2, <2>3, <2>4, <2>5, <2>6, StepKinds
<1>2. CASE d # c
  <2>1. Writer(d, h) /\ req[d].op = "set" /\ req[d].at = "found" /\ req'[d].old = req[d].old
    BY <1>2 DEF Writer
  <2>2. req[d].old = tree[h]
    BY <1>0, <2>1 DEF LookupInv
  <2>3. ~Writer(c, h)
    BY <1>0, <1>2, <2>1 DEF OneWriter
  <2>4. tree'[h] = tree[h]
    <3>1. ASSUME h = Hash[req[c].key], TreeSet(c) PROVE FALSE
      BY <1>0, <2>3, <3>1 DEF Writer, TreeSet, RequestInv, Stored
    <3>2. ASSUME h = Hash[req[c].key], SetSameValue(c) PROVE FALSE
      BY <2>3, <3>2 DEF Writer, SetSameValue
    <3> QED BY <3>1, <3>2, TreeChange
  <2> QED BY <2>1, <2>2, <2>4
<1> QED BY <1>1, <1>2

\* Steps that leave the records and what leads to them alone.
LEMMA NewestFrame ==
    ASSUME NEW h \in Hashes, DoneCovers(h) /\ TreeCovers(h) /\ WriterNewest(h) /\ HintExact(h),
           UNCHANGED <<log, hint, doneTo>>, tree'[h].pos = tree[h].pos,
           \A d \in Clients :
               /\ req[d].at \in Stored <=> req'[d].at \in Stored
               /\ req[d].at = "treeset" <=> req'[d].at = "treeset"
               /\ req[d].at \in Stored =>
                      req'[d].new = req[d].new /\ req'[d].key = req[d].key /\ req'[d].op = req[d].op
    PROVE  DoneCovers(h)' /\ TreeCovers(h)' /\ WriterNewest(h)' /\ HintExact(h)'
<1>1. DoneCovers(h)'
  BY DEF DoneCovers
<1>2. TreeCovers(h)'
  <2> SUFFICES ASSUME NEW i \in 1 .. Len(log'), Hash[log'[i].key] = h, ~(i <= tree'[h].pos)
               PROVE  \E c \in Clients : req'[c].at = "treeset" /\ req'[c].new.pos = i
    BY DEF TreeCovers
  <2>1. PICK c \in Clients : req[c].at = "treeset" /\ req[c].new.pos = i
    BY DEF TreeCovers
  <2> QED BY <2>1 DEF Stored
<1>3. WriterNewest(h)'
  BY DEF WriterNewest, Writer
<1>4. HintExact(h)'
  BY DEF HintExact, KeysOf
<1> QED BY <1>1, <1>2, <1>3, <1>4

LEMMA NewestKept ==
    ASSUME HashTotal, CheckVHash => OwnHash, IInv, OneWriter, NewestInv, OwnHash => LookupInv,
           NEW c \in Clients, Step(c), TypeOK', Grown, \A d \in Clients \ {c} : req'[d] = req[d]
    PROVE  NewestInv'
<1> SUFFICES ASSUME NEW h \in Hashes \ raced' PROVE DoneCovers(h)' /\ TreeCovers(h)' /\ WriterNewest(h)' /\ HintExact(h)'
  BY DEF NewestInv
<1>0. /\ h \in Hashes \ raced /\ DoneCovers(h) /\ TreeCovers(h) /\ WriterNewest(h) /\ HintExact(h)
      /\ TypeOK /\ LogOK /\ IndexOK /\ RequestsOK /\ HistoryOK /\ RequestInv(c)
      /\ IndexInv /\ Len(log) \in Nat
  BY RacedGrows, LenProperties DEF IInv, NewestInv, TypeOK, LogOK
<1>i. /\ req[c].key \in Keys /\ Hash[req[c].key] \in Hashes /\ req[c].new.pos \in Nat /\ tree[h].pos \in Nat
      /\ \A k \in Keys : doneTo[k] \in Nat
  BY <1>0, RequestParts, BucketAssumption DEF IndexOK, Items, HistoryOK
<1>1. CASE /\ UNCHANGED <<log, hint, doneTo>> /\ tree'[h].pos = tree[h].pos
           /\ req[c].at \notin Stored /\ req'[c].at \notin Stored
  <2>1. \A d \in Clients :
               /\ req[d].at \in Stored <=> req'[d].at \in Stored
               /\ req[d].at = "treeset" <=> req'[d].at = "treeset"
               /\ req[d].at \in Stored =>
                      req'[d].new = req[d].new /\ req'[d].key = req[d].key /\ req'[d].op = req[d].op
    BY <1>1 DEF Stored
  <2> QED BY <1>0, <1>1, <2>1, NewestFrame
<1>2. ASSUME NEW k \in Keys, NEW op \in {"get", "incr"}, StartRead(c, op, k)
      PROVE  DoneCovers(h)' /\ TreeCovers(h)' /\ WriterNewest(h)' /\ HintExact(h)'
  BY <1>0, <1>1, <1>2, ReadStarted DEF StartRead, Stored
<1>3. ASSUME NEW k \in Keys, NEW p \in Payloads, NEW rev \in Revs, StartSet(c, k, p, rev)
      PROVE  DoneCovers(h)' /\ TreeCovers(h)' /\ WriterNewest(h)' /\ HintExact(h)'
  BY <1>0, <1>1, <1>3, SetStarted DEF StartSet, Stored
<1>4. CASE TreeGet(c) \/ GetRecord(c) \/ GetHint(c) \/ GetCollision1(c) \/ GetCollision2(c)
  <2>1. req[c].at \notin Stored /\ UNCHANGED tree
    BY <1>4 DEF TreeGet, GetRecord, GetHint, GetCollision1, GetCollision2, Stored
  <2>2. req'[c].at \notin Stored /\ UNCHANGED <<log, hint, doneTo>>
    BY <1>0, <1>4, Moved DEF Moves, SameRequest, Stored
  <2> QED BY <1>1, <2>1, <2>2
<1>5. CASE Return(c) \/ SetRefused(c) \/ IncrRefused(c)
  <2>1. req[c].at \notin Stored /\ UNCHANGED <<tree, log, hint, doneTo>>
    BY <1>5 DEF Return, SetRefused, IncrRefused, Stored
  <2>2. req'[c].at \notin Stored
    BY <1>0, <1>5, Gone, IdleFacts DEF Return, SetRefused, IncrRefused, Stored
  <2> QED BY <1>1, <2>1, <2>2
<1>6. CASE SetSameValue(c)
  <2>1. req[c].at \notin Stored /\ req'[c].at \notin Stored /\ UNCHANGED <<log, hint, doneTo>>
    BY <1>0, <1>6, Gone, IdleFacts DEF SetSameValue, Stored
  <2>2. OwnHash
    BY <1>6 DEF SetSameValue, Same, SameValue
  <2>3. tree'[h].pos = tree[h].pos
    <3>1. CASE h = Hash[req[c].key]
      <4>1. req[c].old = tree[h]
        BY <1>0, <1>6, <2>2, <3>1 DEF LookupInv, Writer, SetSameValue
      <4>2. tree'[h] = tree[h] \/ tree'[h].pos = req[c].old.pos
        BY <1>0, <1>6, <3>1 DEF SetSameValue, IndexOK
      <4> QED BY <4>1, <4>2
    <3>2. CASE h # Hash[req[c].key]
      BY <1>0, <1>6, <3>2 DEF SetSameValue, IndexOK
    <3> QED BY <3>1, <3>2
  <2> QED BY <1>1, <2>1, <2>3
<1>7. CASE CollisionCheck(c) \/ CollisionSet(c)
  <2>1. /\ UNCHANGED <<tree, log, hint, doneTo>> /\ req[c].at \in Stored \ {"treeset"}
        /\ req'[c].at \in Stored \ {"treeset"} /\ req'[c].new = req[c].new
        /\ req'[c].key = req[c].key /\ req'[c].op = req[c].op
    BY <1>0, <1>7, Moved DEF Moves, SameRequest, CollisionCheck, CollisionSet, Stored
  <2>2. \A d \in Clients :
               /\ req[d].at \in Stored <=> req'[d].at \in Stored
               /\ req[d].at = "treeset" <=> req'[d].at = "treeset"
               /\ req[d].at \in Stored =>
                      req'[d].new = req[d].new /\ req'[d].key = req[d].key /\ req'[d].op = req[d].op
    BY <2>1
  <2> QED BY <1>0, <2>1, <2>2, NewestFrame
<1>8. CASE SetAppend(c) \/ IncrAppend(c)
  <2>1. /\ c \in Appenders /\ Len(log') = Len(log) + 1 /\ log'[Len(log) + 1].key = req[c].key
        /\ \A i \in 1 .. Len(log) : log'[i] = log[i]
        /\ req'[c].key = req[c].key /\ req'[c].new.pos = Len(log) + 1
        /\ req'[c].at = "treeset" /\ req'[c].op = req[c].op
        /\ UNCHANGED <<tree, hint, doneTo>>
    BY <1>8, Appended
  <2>2. req[c].at \notin Stored /\ req[c].op # "get"
    BY <2>1 DEF Appenders, Before, Stored
  <2>3. DoneCovers(h)'
    <3> SUFFICES ASSUME NEW i \in 1 .. Len(log'), Hash[log'[i].key] = h, ~(i <= doneTo'[log'[i].key])
                 PROVE  \E d \in Clients : req'[d].at \in Stored /\ req'[d].new.pos = i
      BY DEF DoneCovers
    <3>1. CASE i = Len(log) + 1
      BY <2>1, <3>1 DEF Stored
    <3>2. CASE i \in 1 .. Len(log)
      <4>1. PICK d \in Clients : req[d].at \in Stored /\ req[d].new.pos = i
        BY <1>0, <2>1, <3>2 DEF DoneCovers
      <4> QED BY <2>2, <4>1
    <3> QED BY <1>0, <2>1, <3>1, <3>2
  <2>4. TreeCovers(h)'
    <3> SUFFICES ASSUME NEW i \in 1 .. Len(log'), Hash[log'[i].key] = h, ~(i <= tree'[h].pos)
                 PROVE  \E d \in Clients : req'[d].at = "treeset" /\ req'[d].new.pos = i
      BY DEF TreeCovers
    <3>1. CASE i = Len(log) + 1
      BY <2>1, <3>1
    <3>2. CASE i \in 1 .. Len(log)
      <4>1. PICK d \in Clients : req[d].at = "treeset" /\ req[d].new.pos = i
        BY <1>0, <2>1, <3>2 DEF TreeCovers
      <4> QED BY <2>2, <4>1 DEF Stored
    <3> QED BY <1>0, <2>1, <3>1, <3>2
  <2>5. WriterNewest(h)'
    <3> SUFFICES ASSUME NEW d \in Clients, Writer(d, h)', req'[d].at \in Stored
                 PROVE  /\ \A i \in 1 .. Len(log') : Hash[log'[i].key] = h => i <= req'[d].new.pos
                        /\ req'[d].at # "treeset" => tree'[h].pos = req'[d].new.pos
      BY DEF WriterNewest
    <3>1. CASE d = c
      BY <1>0, <2>1, <3>1
    <3>2. CASE d # c
      <4>1. Writer(d, h) /\ req'[d] = req[d]
        BY <3>2 DEF Writer
      <4>2. Hash[req[c].key] # h
        BY <1>0, <2>2, <3>2, <4>1 DEF OneWriter, Writer
      <4>3. ASSUME NEW i \in 1 .. Len(log'), Hash[log'[i].key] = h PROVE i <= req'[d].new.pos
        BY <1>0, <2>1, <4>1, <4>2, <4>3 DEF WriterNewest
      <4> QED BY <1>0, <2>1, <4>1, <4>3 DEF WriterNewest
    <3> QED BY <3>1, <3>2
  <2>6. HintExact(h)'
    BY <1>0, <2>1 DEF HintExact, KeysOf
  <2> QED BY <2>3, <2>4, <2>5, <2>6
<1>9. CASE TreeSet(c)
  <2>1. /\ UNCHANGED <<log, hint, doneTo>> /\ req[c].at = "treeset" /\ req'[c].at = "collcheck"
        /\ req'[c].new = req[c].new /\ req'[c].key = req[c].key /\ req'[c].op = req[c].op
        /\ \A g \in Hashes : tree'[g] = IF g = Hash[req[c].key] THEN req[c].new ELSE tree[g]
    BY <1>0, <1>9, Moved DEF Moves, SameRequest, TreeSet, IndexOK
  <2>2. req[c].op # "get" /\ req[c].new.pos # 0
    BY <1>0, <2>1 DEF RequestInv, Stored
  <2>3. DoneCovers(h)'
    <3>1. \A d \in Clients : req[d].at \in Stored => req'[d].at \in Stored /\ req'[d].new = req[d].new
      BY <2>1 DEF Stored
    <3> QED BY <1>0, <2>1, <3>1 DEF DoneCovers
  <2>4. CASE h = Hash[req[c].key]
    <3>1. tree'[h] = req[c].new /\ \A i \in 1 .. Len(log) : Hash[log[i].key] = h => i <= req[c].new.pos
      BY <1>0, <2>1, <2>2, <2>4 DEF WriterNewest, Writer, Stored
    <3>2. TreeCovers(h)'
      BY <2>1, <3>1 DEF TreeCovers
    <3>3. WriterNewest(h)'
      <4> SUFFICES ASSUME NEW d \in Clients, Writer(d, h)', req'[d].at \in Stored
                   PROVE  /\ \A i \in 1 .. Len(log') : Hash[log'[i].key] = h => i <= req'[d].new.pos
                          /\ req'[d].at # "treeset" => tree'[h].pos = req'[d].new.pos
        BY DEF WriterNewest
      <4>1. d = c
        <5>1. Writer(d, h) /\ Writer(c, h)
          BY <2>1, <2>2, <2>4 DEF Writer
        <5> QED BY <1>0, <5>1 DEF OneWriter
      <4> QED BY <2>1, <3>1, <4>1
    <3>4. HintExact(h)'
      <4> SUFFICES ASSUME NEW k \in KeysOf(h) PROVE hint'[k].pos = doneTo'[k] /\ doneTo'[k] <= tree'[h].pos
        BY DEF HintExact, KeysOf
      <4>1. k \in Keys /\ Hash[k] = h /\ hint[k].pos = doneTo[k]
        BY <1>0 DEF HintExact, KeysOf
      <4>2. doneTo[k] # 0 => doneTo[k] \in 1 .. Len(log) /\ log[doneTo[k]].key = k
        BY <1>0, <1>i, <4>1 DEF IndexInv
      <4>3. doneTo[k] <= req[c].new.pos
        BY <1>i, <3>1, <4>1, <4>2
      <4> QED BY <2>1, <3>1, <4>1, <4>3
    <3> QED BY <2>3, <3>2, <3>3, <3>4
  <2>5. CASE h # Hash[req[c].key]
    <3>1. tree'[h] = tree[h]
      BY <2>1, <2>5
    <3>2. TreeCovers(h)'
      <4> SUFFICES ASSUME NEW i \in 1 .. Len(log), Hash[log[i].key] = h, ~(i <= tree[h].pos)
                   PROVE  \E d \in Clients : req'[d].at = "treeset" /\ req'[d].new.pos = i
        BY <2>1, <3>1 DEF TreeCovers
      <4>1. PICK d \in Clients : req[d].at = "treeset" /\ req[d].new.pos = i
        BY <1>0 DEF TreeCovers
      <4>2. d # c
        <5>1. Own(req[c].new, req[c].key)
          BY <1>0 DEF RequestInv
        <5> QED BY <2>2, <2>5, <4>1, <5>1 DEF Own
      <4> QED BY <4>1, <4>2
    <3>3. WriterNewest(h)'
      <4> SUFFICES ASSUME NEW d \in Clients, Writer(d, h)', req'[d].at \in Stored
                   PROVE  /\ \A i \in 1 .. Len(log') : Hash[log'[i].key] = h => i <= req'[d].new.pos
                          /\ req'[d].at # "treeset" => tree'[h].pos = req'[d].new.pos
        BY DEF WriterNewest
      <4>1. d # c
        BY <2>1, <2>5 DEF Writer
      <4> QED BY <1>0, <2>1, <3>1, <4>1 DEF WriterNewest, Writer
    <3>4. HintExact(h)'
      BY <1>0, <2>1, <3>1 DEF HintExact, KeysOf
    <3> QED BY <2>3, <3>2, <3>3, <3>4
  <2> QED BY <2>4, <2>5
<1>10. CASE HintSet(c)
  <2>1. UNCHANGED <<log, tree>> /\ req[c].at = "hintset" /\ req'[c] = Idle
    BY <1>0, <1>10, Gone DEF HintSet
  <2>2. /\ \A k \in Keys \ {req[c].key} : hint'[k] = hint[k] /\ doneTo'[k] = doneTo[k]
        /\ hint'[req[c].key] = req[c].new
        /\ doneTo'[req[c].key] = IF req[c].new.pos > doneTo[req[c].key] THEN req[c].new.pos ELSE doneTo[req[c].key]
    BY <1>0, <1>i, <1>10 DEF HintSet, IndexOK, HistoryOK
  <2>3. \A k \in Keys : doneTo[k] <= doneTo'[k]
    BY <1>i, <2>2
  <2>4. req[c].op # "get" /\ req[c].new.pos # 0 /\ req[c].new.pos <= Len(log) /\ log[req[c].new.pos].key = req[c].key
    BY <1>0, <2>1 DEF RequestInv, Stored, Own
  <2>5. DoneCovers(h)'
    <3> SUFFICES ASSUME NEW i \in 1 .. Len(log), Hash[log[i].key] = h, ~(i <= doneTo'[log[i].key])
                 PROVE  \E d \in Clients : req'[d].at \in Stored /\ req'[d].new.pos = i
      BY <2>1 DEF DoneCovers
    <3>1. log[i].key \in Keys
      BY <1>0, LogParts
    <3>2. doneTo[log[i].key] \in Nat /\ doneTo'[log[i].key] \in Nat /\ i \in Nat
      BY <1>i, <2>2, <3>1
    <3>3. ~(i <= doneTo[log[i].key])
      BY <2>3, <3>1, <3>2
    <3>4. PICK d \in Clients : req[d].at \in Stored /\ req[d].new.pos = i
      BY <1>0, <3>3 DEF DoneCovers
    <3>5. d # c
      BY <1>i, <2>2, <2>4, <3>4
    <3> QED BY <3>4, <3>5
  <2>6. TreeCovers(h)'
    <3> SUFFICES ASSUME NEW i \in 1 .. Len(log), Hash[log[i].key] = h, ~(i <= tree[h].pos)
                 PROVE  \E d \in Clients : req'[d].at = "treeset" /\ req'[d].new.pos = i
      BY <2>1 DEF TreeCovers
    <3>1. PICK d \in Clients : req[d].at = "treeset" /\ req[d].new.pos = i
      BY <1>0 DEF TreeCovers
    <3> QED BY <2>1, <3>1
  <2>7. WriterNewest(h)'
    <3> SUFFICES ASSUME NEW d \in Clients, Writer(d, h)', req'[d].at \in Stored
                 PROVE  /\ \A i \in 1 .. Len(log') : Hash[log'[i].key] = h => i <= req'[d].new.pos
                        /\ req'[d].at # "treeset" => tree'[h].pos = req'[d].new.pos
      BY DEF WriterNewest
    <3>1. d # c
      BY <2>1, IdleFacts DEF Writer
    <3> QED BY <1>0, <2>1, <3>1 DEF WriterNewest, Writer
  <2>8. HintExact(h)'
    <3> SUFFICES ASSUME NEW k \in KeysOf(h) PROVE hint'[k].pos = doneTo'[k] /\ doneTo'[k] <= tree[h].pos
      BY <2>1 DEF HintExact, KeysOf
    <3>1. k \in Keys /\ Hash[k] = h /\ hint[k].pos = doneTo[k] /\ doneTo[k] <= tree[h].pos
      BY <1>0 DEF HintExact, KeysOf
    <3>2. CASE k # req[c].key
      BY <2>2, <3>1, <3>2
    <3>3. CASE k = req[c].key
      <4>1. /\ tree[h].pos = req[c].new.pos
            /\ \A i \in 1 .. Len(log) : Hash[log[i].key] = h => i <= req[c].new.pos
        BY <1>0, <2>1, <2>4, <3>1, <3>3 DEF WriterNewest, Writer, Stored
      <4>2. doneTo'[k] = req[c].new.pos
        BY <1>i, <2>2, <3>1, <3>3, <4>1
      <4> QED BY <1>i, <2>2, <3>3, <4>1, <4>2
    <3> QED BY <3>2, <3>3
  <2> QED BY <2>5, <2>6, <2>7, <2>8
<1> QED BY <1>2, <1>3, <1>4, <1>5, <1>6, <1>7, <1>8, <1>9, <1>10 DEF Step

\* When keys may share a hash, the newest record is only kept without CheckVHash.
WriteInv == IInv /\ OneWriter /\ NewestInv /\ (OwnHash => NoCollision /\ LookupInv)

LEMMA WriteInit == ASSUME Init PROVE WriteInv /\ FreshInv
<1>1. IInv
  BY InitHolds
<1>2. OneWriter /\ NoCollision /\ LookupInv
  BY IdleFacts DEF Init, OneWriter, Writer, NoCollision, LookupInv
<1>3. NewestInv
  <2>1. Len(log) = 0 /\ \A c \in Clients : req[c].at \notin Stored
    BY IdleFacts DEF Init, Stored
  <2>2. ASSUME NEW h \in Hashes PROVE HintExact(h)
    <3>1. tree[h] = NoItem /\ \A k \in Keys : hint[k] = NoItem /\ doneTo[k] = 0
      BY DEF Init
    <3>2. tree[h].pos = 0 /\ tree[h].pos \in Int
      BY <3>1, IdleFacts
    <3>3. ASSUME NEW k \in Keys PROVE hint[k].pos = doneTo[k] /\ doneTo[k] <= tree[h].pos
      <4>1. hint[k].pos = 0 /\ doneTo[k] = 0
        BY <3>1, IdleFacts
      <4>2. doneTo[k] <= tree[h].pos
        BY <3>2, <4>1
      <4> QED BY <4>1, <4>2
    <3> QED BY <3>3 DEF HintExact, KeysOf
  <2> QED BY <2>1, <2>2 DEF NewestInv, DoneCovers, TreeCovers, WriterNewest
<1>4. FreshInv
  <2>1. Idle.key \in Keys
    BY IdleFacts DEF Requests
  <2> QED BY <2>1, IdleFacts DEF Init, FreshInv
<1> QED BY <1>1, <1>2, <1>3, <1>4 DEF WriteInv

LEMMA WriteStep ==
    ASSUME HashTotal, CheckVHash => OwnHash, WriteInv, NEW c \in Clients, Step(c)
    PROVE  WriteInv' /\ Grown /\ \A d \in Clients \ {c} : req'[d] = req[d]
<1>0. IInv /\ OneWriter /\ NewestInv /\ (OwnHash => NoCollision) /\ (OwnHash => LookupInv)
  BY DEF WriteInv
<1>1. IInv' /\ TypeOK' /\ Grown /\ \A d \in Clients \ {c} : req'[d] = req[d]
  BY <1>0, StepKeeps, StepGrows DEF IInv
<1>2. OneWriter' /\ NewestInv'
  BY <1>0, <1>1, OneWriterKept, NewestKept
<1>3. OwnHash => NoCollision' /\ LookupInv'
  BY <1>0, <1>1, NoCollisionKept, LookupKept
<1> QED BY <1>1, <1>2, <1>3 DEF WriteInv

LEMMA WriteStutter == ASSUME WriteInv, UNCHANGED vars PROVE WriteInv'
<1>1. IInv'
  BY StutterKeeps DEF WriteInv
<1>2. OneWriter' /\ NewestInv' /\ (OwnHash => NoCollision' /\ LookupInv')
  BY DEF WriteInv, vars, OneWriter, NewestInv, NoCollision, LookupInv, Writer, DoneCovers, TreeCovers, WriterNewest,
         HintExact, KeysOf
<1> QED BY <1>1, <1>2 DEF WriteInv

LEMMA WriteInvariance == ASSUME HashTotal, CheckVHash => OwnHash PROVE Spec => []WriteInv
<1>1. Init => WriteInv
  BY WriteInit
<1>2. WriteInv /\ [Next]_vars => WriteInv'
  BY WriteStep, WriteStutter, NextIsStep
<1> QED BY <1>1, <1>2, PTL DEF Spec

\* When no write of a hash is under way, the tree and the hints lead to its newest
\* record, for any number of clients and any interleaving of their critical
\* sections, unless an incr ran beside another write.  If keys may share a hash this
\* needs Conf.CheckVHash off: with it, checkAndSet may set the tree back to an older
\* record of one of them (SetSameValue of a key found in the collision table).
THEOREM Newest == ASSUME HashTotal, CheckVHash => OwnHash PROVE Spec => []TreeNewest
<1>1. WriteInv => TreeNewest
  <2> SUFFICES ASSUME WriteInv, NEW h \in Hashes \ raced, ~Writing(h)
               PROVE  /\ \A k \in KeysOf(h) : hint[k].pos = doneTo[k] /\ doneTo[k] <= tree[h].pos
                      /\ \A i \in 1 .. Len(log) :
                             Hash[log[i].key] = h => i <= tree[h].pos /\ i <= doneTo[log[i].key]
    BY DEF TreeNewest
  <2>1. DoneCovers(h) /\ TreeCovers(h) /\ HintExact(h) /\ TypeOK
    BY DEF WriteInv, NewestInv, IInv
  <2>2. ASSUME NEW i \in 1 .. Len(log), Hash[log[i].key] = h, NEW c \in Clients, req[c].at \in Stored, req[c].new.pos = i
        PROVE  FALSE
    <3>1. RequestInv(c)
      BY DEF WriteInv, IInv
    <3>2. log[i].key = req[c].key /\ req[c].op # "get"
      BY <2>2, <3>1 DEF RequestInv, Own
    <3> QED BY <2>2, <3>2 DEF Writing
  <2> QED BY <2>1, <2>2 DEF DoneCovers, TreeCovers, HintExact, Stored
<1> QED BY <1>1, WriteInvariance, PTL

LEMMA FreshKept ==
    ASSUME HashTotal, OwnHash, WriteInv, FreshInv, NEW c \in Clients, Step(c), WriteInv', Grown,
           \A d \in Clients \ {c} : req'[d] = req[d]
    PROVE  FreshInv'
<1>0. /\ TypeOK /\ RequestsOK /\ HistoryOK /\ IInv /\ NoCollision /\ NoCollision' /\ NewestInv
      /\ req[c].key \in Keys /\ Hash[req[c].key] \in Hashes
      /\ raced \subseteq raced' /\ \A k \in Keys : doneTo[k] \in Nat
  BY RacedGrows, RequestParts, BucketAssumption DEF WriteInv, IInv, TypeOK, HistoryOK
<1>1. \A k \in Keys : doneTo[k] <= doneTo'[k] /\ doneTo'[k] \in Nat
  <2>1. CASE UNCHANGED doneTo
    BY <1>0, <2>1
  <2>2. CASE HintSet(c)
    BY <1>0, <2>2, RequestParts, BucketAssumption DEF HintSet, HistoryOK
  <2> QED BY <1>0, <2>1, <2>2, HintChange
<1>2. ASSUME NEW d \in Clients, Hash[req'[d].key] \notin raced', d # c
      PROVE  /\ req'[d].floor <= doneTo'[req'[d].key]
             /\ req'[d].at = "found" => req'[d].floor <= req'[d].old.pos
             /\ req'[d].at = "reply" => req'[d].floor <= req'[d].new.pos
  <2>1. req'[d] = req[d] /\ req[d].key \in Keys /\ req[d].floor \in Nat
    BY <1>0, <1>2, RequestParts, BucketAssumption
  <2>2. /\ req[d].floor <= doneTo[req[d].key]
        /\ req[d].at = "found" => req[d].floor <= req[d].old.pos
        /\ req[d].at = "reply" => req[d].floor <= req[d].new.pos
    BY <1>0, <1>2, <2>1 DEF FreshInv
  <2>3. req[d].floor <= doneTo'[req[d].key]
    BY <1>0, <1>1, <2>1, <2>2
  <2> QED BY <2>1, <2>2, <2>3
<1>3. ASSUME Hash[req'[c].key] \notin raced'
      PROVE  /\ req'[c].floor <= doneTo'[req'[c].key]
             /\ req'[c].at = "found" => req'[c].floor <= req'[c].old.pos
             /\ req'[c].at = "reply" => req'[c].floor <= req'[c].new.pos
  <2>1. ASSUME NEW k \in Keys, NEW op \in {"get", "incr"}, StartRead(c, op, k)
        PROVE  req'[c].floor <= doneTo'[req'[c].key] /\ req'[c].at = "tree"
    BY <1>0, <1>1, <2>1, ReadStarted DEF NoCollision
  <2>2. ASSUME NEW k \in Keys, NEW p \in Payloads, NEW rev \in Revs, StartSet(c, k, p, rev)
        PROVE  req'[c].floor <= doneTo'[req'[c].key] /\ req'[c].at = "tree"
    BY <1>0, <1>1, <2>2, SetStarted DEF NoCollision
  <2>3. CASE req'[c] = Idle
    <3>1. Idle.floor = 0 /\ Idle.at = "idle" /\ Idle.key \in Keys
      BY IdleFacts DEF Requests
    <3> QED BY <1>1, <2>3, <3>1
  <2>4. ASSUME req'[c].key = req[c].key, req'[c].floor = req[c].floor
        PROVE  req'[c].floor <= doneTo'[req'[c].key] /\ Hash[req[c].key] \notin raced /\ req[c].floor \in Nat
    <3>1. Hash[req[c].key] \notin raced /\ req[c].floor \in Nat
      BY <1>0, <1>3, <2>4, RequestParts, BucketAssumption
    <3>2. req[c].floor <= doneTo[req[c].key] /\ doneTo[req[c].key] <= doneTo'[req[c].key]
      BY <1>0, <1>1, <3>1 DEF FreshInv
    <3> QED BY <1>0, <1>1, <2>4, <3>1, <3>2
  <2>5. CASE SetAppend(c) \/ IncrAppend(c)
    BY <2>4, <2>5, Appended DEF WriteInv
  <2>6. CASE TreeGet(c)
    <3>1. /\ req'[c].key = req[c].key /\ req'[c].floor = req[c].floor /\ req'[c].at = "found"
          /\ req'[c].old = tree[Hash[req[c].key]]
      BY <1>0, <2>6, Moved DEF Moves, SameRequest
    <3>2. Hash[req[c].key] \in Hashes \ raced /\ req[c].floor \in Nat
      BY <1>0, <2>4, <3>1
    <3>3. doneTo[req[c].key] <= tree[Hash[req[c].key]].pos
      BY <1>0, <3>2 DEF NewestInv, HintExact, KeysOf
    <3>4. tree[Hash[req[c].key]].pos \in Nat
      BY <1>0, BucketAssumption DEF TypeOK, IndexOK, Items
    <3>5. req[c].floor <= doneTo[req[c].key]
      BY <3>2 DEF FreshInv
    <3> QED BY <1>0, <2>4, <3>1, <3>2, <3>3, <3>4, <3>5
  <2>7. CASE GetRecord(c)
    <3>1. /\ req'[c].key = req[c].key /\ req'[c].floor = req[c].floor /\ req'[c].at = "reply"
          /\ req'[c].new = req[c].old
      BY <1>0, <2>7, Moved DEF Moves, SameRequest
    <3>2. req[c].floor <= req[c].old.pos
      BY <2>4, <2>7, <3>1 DEF FreshInv, GetRecord
    <3> QED BY <2>4, <3>1, <3>2
  <2>8. CASE GetHint(c)
    <3>1. /\ req'[c].key = req[c].key /\ req'[c].floor = req[c].floor
          /\ req'[c].at = IF hint[req[c].key].pos = 0 THEN "reply" ELSE "get1"
          /\ req'[c].new = hint[req[c].key]
      BY <1>0, <2>8, Moved DEF Moves, SameRequest
    <3>2. hint[req[c].key].pos = doneTo[req[c].key] /\ req[c].floor <= doneTo[req[c].key]
      BY <1>0, <2>4, <3>1 DEF NewestInv, HintExact, KeysOf, FreshInv
    <3> QED BY <2>4, <3>1, <3>2
  <2>9. CASE GetCollision1(c) \/ GetCollision2(c)
    BY <1>0, <2>9 DEF NoCollision, GetCollision1, GetCollision2
  <2>10. CASE TreeSet(c) \/ CollisionCheck(c) \/ CollisionSet(c)
    <3>1. /\ req'[c].key = req[c].key /\ req'[c].floor = req[c].floor
          /\ req'[c].at \in {"collcheck", "collset", "hintset"}
      BY <1>0, <2>10, Moved DEF Moves, SameRequest
    <3> QED BY <2>4, <3>1
  <2> QED BY <1>0, <2>1, <2>2, <2>3, <2>5, <2>6, <2>7, <2>8, <2>9, <2>10, StepKinds DEF Moves
<1> QED BY <1>2, <1>3 DEF FreshInv

\* A get that starts after a write of its key has returned does not answer with an
\* older record, for any number of clients, when no two keys share a hash and no
\* incr ran beside another write.
THEOREM Fresh == ASSUME HashTotal, OwnHash PROVE Spec => []ReadNotStale
<1>1. Init => WriteInv /\ FreshInv
  BY WriteInit
<1>2. WriteInv /\ FreshInv /\ [Next]_vars => FreshInv'
  <2>1. ASSUME WriteInv, FreshInv, UNCHANGED vars PROVE FreshInv'
    BY <2>1 DEF vars, FreshInv
  <2>2. ASSUME WriteInv, FreshInv, NEW c \in Clients, Step(c) PROVE FreshInv'
    BY <2>2, WriteStep, FreshKept
  <2> QED BY <2>1, <2>2, NextIsStep
<1>3. WriteInv /\ FreshInv => ReadNotStale
  <2> SUFFICES ASSUME WriteInv, FreshInv, NEW c \in Clients, req[c].at = "reply", Hash[req[c].key] \notin raced
               PROVE  req[c].new.pos >= req[c].floor
    BY DEF ReadNotStale
  <2>1. req[c].floor \in Nat /\ req[c].new.pos \in Nat
    BY RequestParts, BucketAssumption DEF WriteInv, IInv, TypeOK
  <2> QED BY <2>1 DEF FreshInv
<1>4. CheckVHash => OwnHash
  OBVIOUS
<1> QED BY <1>1, <1>2, <1>3, <1>4, WriteInvariance, PTL DEF Spec

-----------------------------------------------------------------------------
(* Atomic sets and growing versions *)

\* The revisions asked for and the room for records leave int32 some slack.
Slack(m) == m \in Nat /\ Revs \subseteq -m .. m /\ m + MaxLog <= VerMax

\* Far from the ends of int32 the version rules are plain arithmetic.
LEMMA PlainVersions ==
    ASSUME NEW n \in Nat, n + 1 <= VerMax, NEW v \in Int, -n <= v, v <= n, NEW rev \in Int, -n <= rev, rev <= n
    PROVE  -(n + 1) <= NewVersion(v, rev) /\ NewVersion(v, rev) <= n + 1
BY VersionsAssumption DEF NewVersion, AbsVer, Wrap

LEMMA VersionsGrow ==
    ASSUME NEW v \in -VerMax .. VerMax, NEW rev \in Int, ~Refused(v, rev), NewVersion(v, rev) \in -VerMax .. VerMax
    PROVE  /\ AbsVer(NewVersion(v, rev)) > AbsVer(v)
           /\ rev < 0 => NewVersion(v, rev) < 0
<1>1. VerMax \in Nat
  BY VersionsAssumption
<1>2. CASE rev = 0
  BY <1>1, <1>2 DEF NewVersion, AbsVer, Wrap
<1>3. CASE rev < 0
  BY <1>1, <1>3 DEF NewVersion, AbsVer, Wrap
<1>4. CASE rev > 0
  BY <1>1, <1>4 DEF NewVersion, Refused, ValidVersion
<1> QED BY <1>2, <1>3, <1>4

AtomInv(m) ==
    /\ WriteInv /\ OnlySets /\ Bounded(m) /\ HashKept
    /\ \A c \in Clients : PutInv(c) /\ PutBounded(c, m)

LEMMA OnlySetsKept ==
    ASSUME HashTotal, IInv, OnlySets, "incr" \notin Ops, NEW c \in Clients, Step(c),
           \A d \in Clients \ {c} : req'[d] = req[d]
    PROVE  OnlySets'
<1>0. TypeOK /\ LockInv /\ Nobody \notin Clients
  BY BucketAssumption DEF IInv
<1> DEFINE Good(r) == r.op # "incr" /\ (r.op = "set" => r.pay \in Payloads /\ r.rev \in Revs)
<1>1. ASSUME UNCHANGED raced, Good(req'[c]) PROVE OnlySets'
  BY <1>1 DEF OnlySets
<1>2. ASSUME NEW k \in Keys, NEW op \in {"get", "incr"}, StartRead(c, op, k) PROVE OnlySets'
  <2>1. op = "get" /\ UNCHANGED raced
    BY <1>2 DEF StartRead
  <2> QED BY <1>0, <1>1, <1>2, <2>1, ReadStarted
<1>3. ASSUME NEW k \in Keys, NEW p \in Payloads, NEW rev \in Revs, StartSet(c, k, p, rev) PROVE OnlySets'
  <2>1. \A d \in Clients : req[d].op = "get"
    <3>1. ASSUME NEW d \in Clients PROVE req[d].op = "get"
      <4>1. req[d].op \in {"set", "get", "incr"}
        BY <1>0 DEF TypeOK, RequestsOK, Requests
      <4>2. req[d].op # "set" /\ req[d].op # "incr"
        BY <1>0, <1>3 DEF StartSet, LockInv, OnlySets
      <4> QED BY <4>1, <4>2
    <3> QED BY <3>1
  <2>2. UNCHANGED raced
    <3>1. OtherWriters(c, k) = {}
      BY <2>1 DEF OtherWriters
    <3> QED BY <1>3, <3>1 DEF StartSet
  <2> QED BY <1>0, <1>1, <1>3, <2>2, SetStarted
<1>4. CASE Moves(c)
  BY <1>0, <1>1, <1>4, Moved DEF SameRequest, OnlySets
<1>5. CASE SetAppend(c) \/ IncrAppend(c)
  BY <1>1, <1>5, Appended DEF OnlySets
<1>6. CASE Return(c) \/ SetSameValue(c) \/ SetRefused(c) \/ IncrRefused(c) \/ HintSet(c)
  BY <1>0, <1>1, <1>6, Gone, IdleFacts DEF Return, SetSameValue, SetRefused, IncrRefused, HintSet, TypeOK
<1> QED BY <1>2, <1>3, <1>4, <1>5, <1>6 DEF Step, Moves

\* A set that writes: the item it found is still the tree's.
LEMMA SetWrites ==
    ASSUME HashTotal, OwnHash, WriteInv, OnlySets, NEW c \in Clients, Step(c), SetAppend(c) \/ IncrAppend(c)
    PROVE  LET item == tree[Hash[req[c].key]]
           IN  /\ ~SameValue(item.ver, item.vh, req[c].pay, req[c].rev) /\ ~Refused(item.ver, req[c].rev)
               /\ req[c].op = "set" /\ req[c].rev \in Revs
               /\ req'[c].new.ver = NewVersion(item.ver, req[c].rev)
               /\ req'[c].new.vh = RequestHash(req[c].pay, req[c].rev)
               /\ req'[c].new.pos = Len(log) + 1 /\ log'[Len(log) + 1].pay = req[c].pay
<1>0. TypeOK /\ RequestsOK /\ LogOK /\ IInv /\ LookupInv /\ req[c].key \in Keys /\ Hash[req[c].key] \in Hashes
      /\ req[c] \in Requests /\ req[c].old.ver \in Vers /\ req[c].pay \in Pays /\ req[c].rev \in Vers
  BY RequestParts DEF WriteInv, IInv, TypeOK
<1>1. SetAppend(c) /\ req[c].op = "set" /\ req[c].at = "found" /\ ~Same(c) /\ ~Refused(req[c].old.ver, req[c].rev)
  BY DEF SetAppend, IncrAppend, OnlySets
<1>2. req[c].old = tree[Hash[req[c].key]] /\ req[c].rev \in Revs
  BY <1>0, <1>1 DEF LookupInv, OnlySets, Writer
<1> DEFINE ver == NewVersion(req[c].old.ver, req[c].rev)
           vh == RequestHash(req[c].pay, req[c].rev)
<1>3. AppendRecord(c, ver, vh, req[c].pay) /\ ver \in Vers /\ vh \in Nat
  BY <1>0, <1>1, VersionTypes DEF SetAppend, RequestHash, HashTotal
<1> HIDE DEF ver, vh
<1>4. log'[Len(log) + 1] = [key |-> req[c].key, ver |-> ver, vh |-> vh, pay |-> req[c].pay, rev |-> req[c].rev]
  BY <1>0, <1>3, AppendProperties, RequestParts DEF AppendRecord, LogOK, LogRecords
<1>5. req'[c] = [req[c] EXCEPT !.at = "treeset", !.new = [ver |-> ver, vh |-> vh, pos |-> Len(log) + 1]]
  BY <1>0, <1>3, Gone DEF AppendRecord
<1>6. req'[c].new = [ver |-> ver, vh |-> vh, pos |-> Len(log) + 1] /\ log'[Len(log) + 1].pay = req[c].pay
  BY <1>0, <1>4, <1>5 DEF Requests
<1> QED BY <1>1, <1>2, <1>6 DEF ver, vh, Same

\* Only the one writer of a hash changes its item.
LEMMA TreeOfOthers ==
    ASSUME HashTotal, IInv, OneWriter, raced = {}, NEW c \in Clients, Step(c), NEW d \in Clients, d # c,
           req[d].op # "get"
    PROVE  tree'[Hash[req[d].key]] = tree[Hash[req[d].key]]
<1>0. RequestInv(c) /\ RequestsOK /\ Hash[req[d].key] \in Hashes
  BY RequestParts DEF IInv, TypeOK
<1>1. ~Writer(c, Hash[req[d].key])
  BY <1>0 DEF OneWriter, Writer
<1>2. ~(Hash[req[d].key] = Hash[req[c].key] /\ TreeSet(c))
  BY <1>0, <1>1 DEF Writer, TreeSet, RequestInv, Stored
<1>3. ~(Hash[req[d].key] = Hash[req[c].key] /\ SetSameValue(c))
  BY <1>1 DEF Writer, SetSameValue
<1> QED BY <1>0, <1>2, <1>3, TreeChange

\* What the two steps that change the tree make of the item of their hash.
LEMMA TreeWrites ==
    ASSUME HashTotal, OwnHash, NEW m, AtomInv(m), NEW c \in Clients, Step(c), NEW h \in Hashes
    PROVE  \/ tree'[h] = tree[h]
           \/ h = Hash[req[c].key] /\ TreeSet(c) /\ tree'[h] = req[c].new /\ UNCHANGED log
           \/ /\ h = Hash[req[c].key] /\ SetSameValue(c) /\ UNCHANGED log /\ req[c].rev # 0
              /\ req[c].rev \in Revs /\ req[c].pay \in Payloads
              /\ tree'[h].ver = req[c].rev /\ tree'[h].vh = RequestHash(req[c].pay, req[c].rev)
              /\ tree'[h].pos = tree[h].pos
              /\ SameValue(tree[h].ver, tree[h].vh, req[c].pay, req[c].rev)
<1>0. IndexOK /\ RequestsOK /\ IInv /\ LookupInv /\ OnlySets /\ Hash[req[c].key] \in Hashes
  BY RequestParts DEF AtomInv, WriteInv, IInv, TypeOK
<1>1. CASE TreeSet(c)
  BY <1>0, <1>1 DEF TreeSet, IndexOK
<1>2. CASE SetSameValue(c)
  <2>1. /\ req[c].old = tree[Hash[req[c].key]] /\ Same(c) /\ req[c].rev \in Revs /\ req[c].pay \in Payloads
    BY <1>0, <1>2 DEF SetSameValue, LookupInv, OnlySets, Writer
  <2>2. CASE req[c].rev = 0
    BY <1>2, <2>2 DEF SetSameValue
  <2>3. CASE req[c].rev # 0
    <3>1. tree' = [tree EXCEPT ![Hash[req[c].key]] =
                     [ver |-> req[c].rev, vh |-> RequestHash(req[c].pay, req[c].rev), pos |-> req[c].old.pos]]
      BY <1>2, <2>3 DEF SetSameValue
    <3>2. UNCHANGED log
      BY <1>2 DEF SetSameValue
    <3> QED BY <1>0, <1>2, <2>1, <2>3, <3>1, <3>2 DEF IndexOK, Same
  <2> QED BY <2>2, <2>3
<1> QED BY <1>0, <1>1, <1>2, TreeChange

LEMMA PutKept ==
    ASSUME HashTotal, OwnHash, NEW m, Slack(m), AtomInv(m), NEW c \in Clients, Step(c), Grown,
           \A d \in Clients \ {c} : req'[d] = req[d], NEW d \in Clients
    PROVE  PutInv(d)' /\ PutBounded(d, m)'
<1>0. /\ TypeOK /\ RequestsOK /\ IndexOK /\ IInv /\ WriteInv /\ OneWriter /\ OnlySets /\ Bounded(m)
      /\ PutInv(d) /\ PutBounded(d, m)
      /\ RequestInv(d) /\ Len(log) \in Nat /\ MaxLog \in Nat /\ VerMax \in Nat
  BY LenProperties, BucketAssumption, VersionsAssumption DEF AtomInv, WriteInv, IInv, TypeOK, LogOK
<1> SUFFICES ASSUME req'[d].at = "treeset" PROVE PutInv(d)' /\ PutBounded(d, m)'
  BY DEF PutInv, PutBounded
<1>1. CASE d # c
  <2>1. req'[d] = req[d] /\ req[d].op # "get" /\ req[d].new.pos \in 1 .. Len(log)
    BY <1>0, <1>1, InLog DEF RequestInv, Stored
  <2>2. tree'[Hash[req[d].key]] = tree[Hash[req[d].key]]
    BY <1>0, <1>1, <2>1, TreeOfOthers DEF OnlySets
  <2>3. log'[req[d].new.pos] = log[req[d].new.pos]
    BY <2>1 DEF Grown
  <2> QED BY <1>0, <2>1, <2>2, <2>3 DEF PutInv, PutBounded
<1>2. CASE d = c
  <2>1. SetAppend(c) \/ IncrAppend(c)
    <3>1. ASSUME NEW k \in Keys, NEW op \in {"get", "incr"}, StartRead(c, op, k) PROVE FALSE
      BY <1>0, <1>2, <3>1, ReadStarted
    <3>2. ASSUME NEW k \in Keys, NEW p \in Payloads, NEW rev \in Revs, StartSet(c, k, p, rev) PROVE FALSE
      BY <1>0, <1>2, <3>2, SetStarted
    <3>3. CASE Moves(c)
      BY <1>0, <1>2, <3>3, Moved DEF Moves
    <3>4. CASE req'[c] = Idle
      BY <1>2, <3>4, IdleFacts
    <3> QED BY <1>0, <3>1, <3>2, <3>3, <3>4, StepKinds
  <2> DEFINE item == tree[Hash[req[c].key]]
  <2>2. /\ ~SameValue(item.ver, item.vh, req[c].pay, req[c].rev) /\ ~Refused(item.ver, req[c].rev)
        /\ req[c].op = "set" /\ req[c].rev \in Revs
        /\ req'[c].new.ver = NewVersion(item.ver, req[c].rev)
        /\ req'[c].new.vh = RequestHash(req[c].pay, req[c].rev)
        /\ req'[c].new.pos = Len(log) + 1 /\ log'[Len(log) + 1].pay = req[c].pay
    BY <1>0, <2>1, SetWrites
  <2>3. /\ UNCHANGED tree /\ req'[c].key = req[c].key /\ req'[c].pay = req[c].pay /\ req'[c].rev = req[c].rev
        /\ Len(log') = Len(log) + 1
    BY <1>0, <2>1, Appended
  <2>4. PutInv(c)'
    BY <2>2, <2>3 DEF PutInv
  <2>5. PutBounded(c, m)'
    <3>1. Hash[req[c].key] \in Hashes
      BY <1>0, RequestParts
    <3>2. item.ver \in Int /\ -(m + Len(log)) <= item.ver /\ item.ver <= m + Len(log)
      BY <1>0, <3>1 DEF Bounded, IndexOK, Items, Vers
    <3>3. /\ m \in Nat /\ req[c].rev \in Int /\ -(m + Len(log)) <= req[c].rev /\ req[c].rev <= m + Len(log)
          /\ m + MaxLog <= VerMax
      <4>1. m \in Nat /\ req[c].rev \in -m .. m /\ m + MaxLog <= VerMax
        BY <2>2 DEF Slack
      <4> HIDE DEF item
      <4>2. req[c].rev \in Int /\ -(m + Len(log)) <= req[c].rev /\ req[c].rev <= m + Len(log)
        BY <1>0, <4>1
      <4> QED BY <4>1, <4>2
    <3>4. Len(log) + 1 <= MaxLog
      BY <1>0, <2>1, Appends, RoomLeft DEF IInv
    <3>5. m + Len(log) \in Nat /\ m + Len(log) + 1 <= VerMax
      BY <1>0, <3>3, <3>4
    <3>6. /\ -(m + Len(log) + 1) <= NewVersion(item.ver, req[c].rev)
          /\ NewVersion(item.ver, req[c].rev) <= m + Len(log) + 1
      BY <3>2, <3>3, <3>5, PlainVersions
    <3>7. /\ -(m + (Len(log) + 1)) <= NewVersion(item.ver, req[c].rev)
          /\ NewVersion(item.ver, req[c].rev) <= m + (Len(log) + 1)
      BY <1>0, <3>3, <3>6
    <3> HIDE DEF item
    <3> QED BY <2>2, <3>7 DEF PutBounded
  <2> QED BY <1>2, <2>4, <2>5
<1> QED BY <1>1, <1>2

LEMMA ItemsKept ==
    ASSUME HashTotal, OwnHash, NEW m, Slack(m), AtomInv(m), NEW c \in Clients, Step(c), Grown, WriteInv'
    PROVE  Bounded(m)' /\ HashKept'
<1>0. /\ TypeOK /\ RequestsOK /\ IndexOK /\ IndexInv /\ RequestInv(c) /\ OnlySets /\ Bounded(m) /\ HashKept
      /\ PutInv(c) /\ PutBounded(c, m) /\ Len(log) \in Nat /\ Len(log') \in Nat /\ Len(log) <= Len(log')
      /\ m \in Nat /\ MaxLog \in Nat /\ VerMax \in Nat
      /\ req[c].rev \in Int
  BY LenProperties, BucketAssumption, VersionsAssumption, RequestParts
     DEF AtomInv, WriteInv, IInv, TypeOK, LogOK, Grown, Slack, Vers
<1> SUFFICES ASSUME NEW h \in Hashes
             PROVE  /\ -(m + Len(log')) <= tree'[h].ver /\ tree'[h].ver <= m + Len(log')
                    /\ tree'[h].ver > 0 => tree'[h].vh = Vhash(log'[tree'[h].pos].pay)
  BY DEF Bounded, HashKept
<1>1. /\ tree[h].ver \in Int /\ -(m + Len(log)) <= tree[h].ver /\ tree[h].ver <= m + Len(log)
      /\ tree[h].ver > 0 => tree[h].vh = Vhash(log[tree[h].pos].pay)
      /\ tree[h].ver > 0 => tree[h].pos \in 1 .. Len(log)
  <2>1. tree[h].ver \in Int /\ tree[h].pos \in Nat /\ Points(tree[h], h) /\ Real(tree[h])
    BY <1>0, BucketAssumption DEF IndexOK, Items, Vers, IndexInv
  <2>2. tree[h].ver > 0 => tree[h].pos \in 1 .. Len(log)
    BY <1>0, <2>1 DEF Points, Real
  <2> QED BY <1>0, <2>1, <2>2 DEF Bounded, HashKept
<1>2. CASE tree'[h] = tree[h]
  <2>1. tree[h].ver > 0 => log'[tree[h].pos] = log[tree[h].pos]
    BY <1>1 DEF Grown
  <2> QED BY <1>0, <1>1, <1>2, <2>1
<1>3. CASE h = Hash[req[c].key] /\ TreeSet(c) /\ tree'[h] = req[c].new /\ UNCHANGED log
  <2>1. req[c].at = "treeset" /\ req[c].op = "set"
    <3>1. req[c].at = "treeset"
      BY <1>3 DEF TreeSet
    <3>2. req[c].op # "get" /\ req[c].op # "incr" /\ req[c].op \in {"set", "get", "incr"}
      BY <1>0, <3>1 DEF RequestInv, Stored, OnlySets, RequestsOK, Requests
    <3> QED BY <3>1, <3>2
  <2>2. /\ -(m + req[c].new.pos) <= req[c].new.ver /\ req[c].new.ver <= m + req[c].new.pos
        /\ req[c].new.ver = NewVersion(tree[h].ver, req[c].rev) /\ req[c].new.vh = RequestHash(req[c].pay, req[c].rev)
        /\ log[req[c].new.pos].pay = req[c].pay
    BY <1>0, <1>3, <2>1 DEF PutBounded, PutInv
  <2>3. req[c].new.pos \in 1 .. Len(log) /\ req[c].new.ver \in Int
    BY <1>0, <2>1, InLog, RequestParts DEF RequestInv, Stored, Vers
  <2>4. -(m + Len(log)) <= req[c].new.ver /\ req[c].new.ver <= m + Len(log)
    BY <1>0, <2>2, <2>3
  <2>5. req[c].rev < 0 => req[c].new.ver < 0
    <3>1. ~Refused(tree[h].ver, req[c].rev) /\ m + Len(log) <= VerMax
      BY <1>0, <1>3, <2>1 DEF PutInv, Slack, TypeOK, LogOK
    <3>2. tree[h].ver \in -VerMax .. VerMax /\ req[c].new.ver \in -VerMax .. VerMax
      BY <1>0, <1>1, <2>3, <2>4, <3>1
    <3> QED BY <1>0, <2>2, <3>1, <3>2, VersionsGrow
  <2>6. req[c].new.ver > 0 => req[c].new.vh = Vhash(req[c].pay)
    BY <1>0, <2>2, <2>3, <2>5 DEF RequestHash
  <2> QED BY <1>3, <2>2, <2>4, <2>6
<1>4. CASE /\ UNCHANGED log /\ req[c].rev \in Revs
           /\ tree'[h].ver = req[c].rev /\ tree'[h].vh = RequestHash(req[c].pay, req[c].rev)
           /\ tree'[h].pos = tree[h].pos
           /\ SameValue(tree[h].ver, tree[h].vh, req[c].pay, req[c].rev)
  <2>1. -m <= req[c].rev /\ req[c].rev <= m
    BY <1>4 DEF Slack
  <2>2. tree'[h].vh = tree[h].vh /\ tree[h].ver > 0
    BY <1>4 DEF SameValue
  <2> QED BY <1>0, <1>1, <1>4, <2>1, <2>2
<1> QED BY <1>2, <1>3, <1>4, TreeWrites

LEMMA AtomInvariance ==
    ASSUME HashTotal, OwnHash, "incr" \notin Ops, NEW m, Slack(m)
    PROVE  Spec => []AtomInv(m)
<1>1. Init => AtomInv(m)
  <2> SUFFICES ASSUME Init PROVE AtomInv(m)
    OBVIOUS
  <2>1. WriteInv
    BY WriteInit
  <2>2. OnlySets /\ \A c \in Clients : PutInv(c) /\ PutBounded(c, m)
    BY IdleFacts DEF Init, OnlySets, PutInv, PutBounded
  <2>3. Bounded(m) /\ HashKept
    <3>1. Len(log) = 0 /\ m \in Nat /\ \A h \in Hashes : tree[h].ver = 0
      BY IdleFacts DEF Init, Slack
    <3> QED BY <3>1 DEF Bounded, HashKept
  <2> QED BY <2>1, <2>2, <2>3 DEF AtomInv
<1>2. AtomInv(m) /\ [Next]_vars => AtomInv(m)'
  <2>1. ASSUME AtomInv(m), UNCHANGED vars PROVE AtomInv(m)'
    <3>1. WriteInv'
      BY <2>1, WriteStutter DEF AtomInv
    <3>2. OnlySets' /\ Bounded(m)' /\ HashKept' /\ \A c \in Clients : PutInv(c)' /\ PutBounded(c, m)'
      BY <2>1 DEF AtomInv, vars, OnlySets, Bounded, HashKept, PutInv, PutBounded
    <3> QED BY <3>1, <3>2 DEF AtomInv
  <2>2. ASSUME AtomInv(m), NEW c \in Clients, Step(c) PROVE AtomInv(m)'
    <3>1. WriteInv /\ OnlySets /\ IInv
      BY <2>2 DEF AtomInv, WriteInv
    <3>2. WriteInv' /\ Grown /\ \A d \in Clients \ {c} : req'[d] = req[d]
      BY <2>2, <3>1, WriteStep
    <3>3. OnlySets'
      BY <2>2, <3>1, <3>2, OnlySetsKept
    <3>4. Bounded(m)' /\ HashKept'
      BY <2>2, <3>2, ItemsKept
    <3>5. \A d \in Clients : PutInv(d)' /\ PutBounded(d, m)'
      BY <2>2, <3>2, PutKept
    <3> QED BY <3>2, <3>3, <3>4, <3>5 DEF AtomInv
  <2> QED BY <2>1, <2>2, NextIsStep
<1> QED BY <1>1, <1>2, PTL DEF Spec

\* A set on its way to the tree, seen from the tree.
LEMMA PutFacts ==
    ASSUME HashTotal, NEW m, Slack(m), AtomInv(m), NEW c \in Clients, TreeSet(c)
    PROVE  LET item == tree[Hash[req[c].key]]
           IN  /\ req[c].key \in Keys /\ req[c].pay \in Payloads /\ req[c].rev \in Revs /\ req[c].rev \in Int
               /\ ~SameValue(item.ver, item.vh, req[c].pay, req[c].rev) /\ ~Refused(item.ver, req[c].rev)
               /\ req[c].new.ver = NewVersion(item.ver, req[c].rev)
               /\ item.ver \in -VerMax .. VerMax /\ req[c].new.ver \in -VerMax .. VerMax
               /\ req[c].new.pos \in 1 .. Len(log) /\ log[req[c].new.pos].pay = req[c].pay
<1>0. /\ TypeOK /\ RequestsOK /\ IndexOK /\ RequestInv(c) /\ OnlySets /\ Bounded(m) /\ PutInv(c) /\ PutBounded(c, m)
      /\ Len(log) \in Nat /\ m \in Nat /\ MaxLog \in Nat /\ VerMax \in Nat /\ Len(log) <= MaxLog /\ m + MaxLog <= VerMax
      /\ req[c].key \in Keys /\ Hash[req[c].key] \in Hashes /\ req[c].rev \in Int /\ req[c].new.ver \in Int
  BY LenProperties, BucketAssumption, VersionsAssumption, RequestParts
     DEF AtomInv, WriteInv, IInv, TypeOK, LogOK, Slack, Vers
<1> DEFINE item == tree[Hash[req[c].key]]
<1>1. req[c].at = "treeset"
  BY DEF TreeSet
<1>2. req[c].op = "set" /\ req[c].new.pos \in 1 .. Len(log)
  <2>1. req[c].op # "get" /\ req[c].op # "incr" /\ req[c].op \in {"set", "get", "incr"}
    BY <1>0, <1>1 DEF RequestInv, Stored, OnlySets, RequestsOK, Requests
  <2> QED BY <1>0, <1>1, <2>1, InLog DEF RequestInv, Stored
<1>3. item.ver \in Int /\ -(m + Len(log)) <= item.ver /\ item.ver <= m + Len(log)
  <2>1. item.ver \in Int
    BY <1>0 DEF IndexOK, Items, Vers
  <2>2. -(m + Len(log)) <= item.ver /\ item.ver <= m + Len(log)
    BY <1>0 DEF Bounded
  <2> QED BY <2>1, <2>2
<1>4. -(m + req[c].new.pos) <= req[c].new.ver /\ req[c].new.ver <= m + req[c].new.pos
  BY <1>0, <1>1 DEF PutBounded
<1>5. /\ ~SameValue(item.ver, item.vh, req[c].pay, req[c].rev) /\ ~Refused(item.ver, req[c].rev)
      /\ req[c].new.ver = NewVersion(item.ver, req[c].rev) /\ log[req[c].new.pos].pay = req[c].pay
      /\ req[c].pay \in Payloads /\ req[c].rev \in Revs
  BY <1>0, <1>1, <1>2 DEF PutInv, OnlySets
<1> HIDE DEF item
<1>6. item.ver \in -VerMax .. VerMax /\ req[c].new.ver \in -VerMax .. VerMax
  <2> DEFINE n == Len(log)
  <2>1. n \in Nat /\ m \in Nat /\ VerMax \in Nat /\ m + n <= VerMax
    BY <1>0
  <2>2. req[c].new.pos \in 1 .. n /\ item.ver \in Int /\ req[c].new.ver \in Int
    BY <1>0, <1>2, <1>3
  <2>3. -(m + n) <= item.ver /\ item.ver <= m + n
    BY <1>3
  <2> HIDE DEF n
  <2> QED BY <1>4, <2>1, <2>2, <2>3
<1> QED BY <1>0, <1>2, <1>5, <1>6 DEF item

\* A record written over another one has the larger version: for any number of
\* clients that set, delete and get, and any revisions they ask for, as long as
\* the revisions and the number of writes stay clear of the ends of int32.
THEOREM Grows ==
    ASSUME HashTotal, OwnHash, "incr" \notin Ops, NEW m, Slack(m)
    PROVE  Spec => VersionGrows
<1>1. AtomInv(m) /\ [Next]_vars =>
          [\A h \in Hashes : tree'[h].pos # tree[h].pos => AbsVer(tree'[h].ver) > AbsVer(tree[h].ver)]_vars
  <2> SUFFICES ASSUME AtomInv(m), NEW c \in Clients, Step(c), NEW h \in Hashes, tree'[h].pos # tree[h].pos
               PROVE  AbsVer(tree'[h].ver) > AbsVer(tree[h].ver)
    BY NextIsStep
  <2>1. h = Hash[req[c].key] /\ TreeSet(c) /\ tree'[h] = req[c].new
    BY TreeWrites
  <2>2. /\ ~Refused(tree[h].ver, req[c].rev) /\ req[c].new.ver = NewVersion(tree[h].ver, req[c].rev)
        /\ tree[h].ver \in -VerMax .. VerMax /\ req[c].new.ver \in -VerMax .. VerMax /\ req[c].rev \in Int
    BY <2>1, PutFacts
  <2> QED BY <2>1, <2>2, VersionsGrow
<1> QED BY <1>1, AtomInvariance, PTL DEF Spec, VersionGrows

\* The rules VersionedStore is written with are those of the bucket.
LEMMA SameRules ==
    /\ \A v, rev : Abstract!NewVersion(v, rev) = NewVersion(v, rev)
    /\ \A v, rev : Abstract!Refused(v, rev) <=> Refused(v, rev)
    /\ \A v, vh, p, rev : Abstract!SameValue(v, vh, p, rev) <=> SameValue(v, vh, p, rev)
<1>1. \A n : Abstract!Wrap(n) = Wrap(n)
  BY DEF Abstract!Wrap, Wrap
<1>2. \A n : Abstract!AbsVer(n) = AbsVer(n)
  BY <1>1 DEF Abstract!AbsVer, AbsVer
<1>3. \A v, rev : Abstract!NewVersion(v, rev) = NewVersion(v, rev)
  BY <1>1, <1>2 DEF Abstract!NewVersion, NewVersion
<1>4. \A v, rev : Abstract!Refused(v, rev) <=> Refused(v, rev)
  BY <1>2, <1>3 DEF Abstract!Refused, Refused, Abstract!ValidVersion, ValidVersion
<1>5. \A v, vh, p, rev : Abstract!SameValue(v, vh, p, rev) <=> SameValue(v, vh, p, rev)
  BY DEF Abstract!SameValue, SameValue, Abstract!RequestHash, RequestHash
<1> QED BY <1>3, <1>4, <1>5

\* What is visible of a key follows from the item of its hash.
LEMMA Shown ==
    /\ DOMAIN Visible = Keys /\ Visible = [k \in Keys |-> Visible[k]]
    /\ \A k \in Keys :
           Visible[k] = [ver |-> tree[Hash[k]].ver,
                         pay |-> IF tree[Hash[k]].pos = 0 THEN NoPay ELSE log[tree[Hash[k]].pos].pay]
BY DEF Visible

LEMMA ShownNext ==
    /\ DOMAIN Visible' = Keys /\ Visible' = [k \in Keys |-> Visible'[k]]
    /\ \A k \in Keys :
           Visible'[k] = [ver |-> tree'[Hash[k]].ver,
                          pay |-> IF tree'[Hash[k]].pos = 0 THEN NoPay ELSE log'[tree'[Hash[k]].pos].pay]
BY DEF Visible

LEMMA ShownKept ==
    ASSUME IInv, Grown, NEW k \in Keys, tree'[Hash[k]] = tree[Hash[k]]
    PROVE  Visible'[k] = Visible[k]
<1>1. Hash[k] \in Hashes /\ Len(log) \in Nat
  BY LenProperties DEF Hashes, IInv, TypeOK, LogOK
<1>2. tree[Hash[k]].pos \in Nat /\ Points(tree[Hash[k]], Hash[k])
  BY <1>1, BucketAssumption DEF IInv, IndexInv, TypeOK, IndexOK, Items
<1>3. tree[Hash[k]].pos # 0 => log'[tree[Hash[k]].pos] = log[tree[Hash[k]].pos]
  BY <1>1, <1>2 DEF Points, Grown
<1> QED BY <1>3, Shown, ShownNext

\* A step that puts its record into the tree is a Put, a new revision of the same
\* value a Revise, and every other step changes nothing a get could see.
LEMMA StepRefines ==
    ASSUME HashTotal, OwnHash, NEW m, Slack(m), AtomInv(m), NEW c \in Clients, Step(c)
    PROVE  Abstract!Next \/ Visible' = Visible
<1>0. IInv /\ TypeOK /\ RequestsOK /\ IndexOK /\ IndexInv /\ HashKept /\ Grown /\ WriteInv
      /\ req[c].key \in Keys /\ Hash[req[c].key] \in Hashes
  BY StepGrows, RequestParts DEF AtomInv, WriteInv, IInv, TypeOK
<1> DEFINE k == req[c].key
           h == Hash[k]
           item == tree[h]
<1>1. \A l \in Keys \ {k} : Visible'[l] = Visible[l]
  <2> SUFFICES ASSUME NEW l \in Keys \ {k} PROVE Visible'[l] = Visible[l]
    OBVIOUS
  <2>1. Hash[l] # h /\ Hash[l] \in Hashes
    BY <1>0 DEF OwnHash, Hashes
  <2>2. tree'[Hash[l]] = tree[Hash[l]]
    BY <2>1, TreeWrites
  <2> QED BY <1>0, <2>2, ShownKept
<1>2. CASE tree'[h] = tree[h]
  <2>1. Visible'[k] = Visible[k]
    BY <1>0, <1>2, ShownKept
  <2> QED BY <1>0, <1>1, <2>1, Shown, ShownNext
<1>3. Visible[k].ver = item.ver /\ Visible[k].pay = IF item.pos = 0 THEN NoPay ELSE log[item.pos].pay
  BY <1>0, Shown
<1>4. item.ver > 0 => Vhash(Visible[k].pay) = item.vh
  <2>1. item.ver > 0 => item.pos # 0
    BY <1>0 DEF IndexInv, Real, IndexOK, Items, Vers
  <2> QED BY <1>0, <1>3, <2>1 DEF HashKept
<1>5. \A p, rev : SameValue(Visible[k].ver, Vhash(Visible[k].pay), p, rev) <=> SameValue(item.ver, item.vh, p, rev)
  BY <1>3, <1>4 DEF SameValue
<1>6. CASE TreeSet(c) /\ tree'[h] = req[c].new /\ UNCHANGED log
  <2>1. /\ req[c].pay \in Payloads /\ req[c].rev \in Revs
        /\ ~SameValue(item.ver, item.vh, req[c].pay, req[c].rev) /\ ~Refused(item.ver, req[c].rev)
        /\ req[c].new.ver = NewVersion(item.ver, req[c].rev)
        /\ req[c].new.pos # 0 /\ log[req[c].new.pos].pay = req[c].pay
    BY <1>6, PutFacts
  <2>2. Visible'[k] = [ver |-> NewVersion(Visible[k].ver, req[c].rev), pay |-> req[c].pay]
    <3>1. Visible'[k] = [ver |-> tree'[h].ver,
                         pay |-> IF tree'[h].pos = 0 THEN NoPay ELSE log'[tree'[h].pos].pay]
      BY <1>0, ShownNext
    <3>2. (IF tree'[h].pos = 0 THEN NoPay ELSE log'[tree'[h].pos].pay) = req[c].pay
      BY <1>6, <2>1
    <3>3. tree'[h].ver = NewVersion(Visible[k].ver, req[c].rev)
      BY <1>3, <1>6, <2>1
    <3> QED BY <3>1, <3>2, <3>3
  <2>3. Visible' = [Visible EXCEPT ![k] = [ver |-> NewVersion(Visible[k].ver, req[c].rev), pay |-> req[c].pay]]
    BY <1>0, <1>1, <2>2, Shown, ShownNext
  <2>4. Abstract!Put(k, req[c].pay, req[c].rev)
    BY <1>3, <1>5, <2>1, <2>3, SameRules, Zenon DEF Abstract!Put
  <2> QED BY <1>0, <2>1, <2>4 DEF Abstract!Next
<1>7. CASE /\ UNCHANGED log /\ req[c].rev # 0 /\ req[c].rev \in Revs /\ req[c].pay \in Payloads
           /\ tree'[h].ver = req[c].rev /\ tree'[h].pos = tree[h].pos
           /\ SameValue(tree[h].ver, tree[h].vh, req[c].pay, req[c].rev)
  <2>1. Visible'[k] = [ver |-> req[c].rev, pay |-> Visible[k].pay]
    <3>1. Visible'[k] = [ver |-> tree'[h].ver,
                         pay |-> IF tree'[h].pos = 0 THEN NoPay ELSE log'[tree'[h].pos].pay]
      BY <1>0, ShownNext
    <3>2. Visible[k].pay = IF tree'[h].pos = 0 THEN NoPay ELSE log'[tree'[h].pos].pay
      BY <1>3, <1>7
    <3> QED BY <1>7, <3>1, <3>2
  <2>2. Visible' = [Visible EXCEPT ![k].ver = req[c].rev]
    BY <1>0, <1>1, <2>1, Shown, ShownNext
  <2>3. Abstract!Revise(k, req[c].pay, req[c].rev)
    BY <1>5, <1>7, <2>2, SameRules DEF Abstract!Revise
  <2> QED BY <1>0, <1>7, <2>3 DEF Abstract!Next
<1> QED BY <1>0, <1>2, <1>6, <1>7, TreeWrites

\* checkAndSet, with its lookup under the lock, its append and its update of the
\* tree, implements the one atomic step of VersionedStore, for any number of
\* clients and keys with hashes of their own, clear of the ends of int32.
THEOREM Atomic ==
    ASSUME HashTotal, OwnHash, "incr" \notin Ops, NEW m, Slack(m)
    PROVE  Spec => SetsAreAtomic
<1>1. Init => Abstract!Init
  <2> SUFFICES ASSUME Init PROVE Visible = [k \in Keys |-> Abstract!Absent]
    BY DEF Abstract!Init
  <2>1. \A k \in Keys : Visible[k] = Abstract!Absent
    BY Shown, IdleFacts DEF Init, Hashes, Abstract!Absent, Abstract!NoValue, NoPay
  <2> QED BY <2>1, Shown
<1>2. AtomInv(m) /\ [Next]_vars => [Abstract!Next]_Visible
  <2>1. ASSUME UNCHANGED vars PROVE Visible' = Visible
    BY <2>1 DEF vars, Visible
  <2>2. ASSUME AtomInv(m), NEW c \in Clients, Step(c) PROVE Abstract!Next \/ Visible' = Visible
    BY <2>2, StepRefines
  <2> QED BY <2>1, <2>2, NextIsStep
<1> QED BY <1>1, <1>2, AtomInvariance, PTL DEF Spec, SetsAreAtomic, Abstract!Spec
=============================================================================
