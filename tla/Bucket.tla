------------------------------- MODULE Bucket -------------------------------
(***************************************************************************)
(* The requests of one bucket, store/bucket.go: checkAndSet (set, delete), *)
(* get and incr, run by concurrent clients over the shared indexes: the    *)
(* hash tree (htree.go), the table of keys whose hashes collide            *)
(* (collision.go) and the hints (hint.go).                                 *)
(*                                                                         *)
(* Each critical section of a shared index is one step.  writeLock covers  *)
(* checkAndSet from its lookup to its return; get takes no bucket lock and *)
(* neither does incr.                                                      *)
(*                                                                         *)
(* The data files are a log of the records in position order; a record is  *)
(* read back from its position (shown for the buffers and files by module  *)
(* DataStore).  All records are in one chunk, so that a hint replaces the  *)
(* earlier one of its key; garbage collection is not running.              *)
(***************************************************************************)
EXTENDS Versions, Sequences, FiniteSets

CONSTANTS
    Clients,
    Hash,        \* the 64-bit hash of each key
    Ops,         \* the requests clients send
    MaxLog       \* bound: records ever written

Nobody == "nobody"

ASSUME BucketAssumption ==
    /\ IsFiniteSet(Clients) /\ Nobody \notin Clients
    /\ Hash \in [Keys -> Nat]
    /\ Ops \subseteq {"set", "get", "incr"}
    /\ MaxLog \in Nat

Hashes == {Hash[k] : k \in Keys}

\* An index entry; pos 0 is "not there".
NoItem == [ver |-> 0, vh |-> 0, pos |-> 0]
NoPay == [val |-> 0, counter |-> FALSE]
Idle == [at |-> "idle", op |-> "get", key |-> CHOOSE k \in Keys : TRUE, pay |-> NoPay,
         rev |-> 0, old |-> NoItem, new |-> NoItem, floor |-> 0]

VARIABLES
    log,        \* the records, by position
    tree,       \* htree: the item of each key hash
    coll,       \* CollisionTable.Items, by key
    hint,       \* the newest hint of each key
    writeLock,  \* the holder of Bucket.writeLock
    req,        \* the request each client is in
    doneTo,     \* history: the last record of each key whose write has returned
    raced       \* history: hashes with an incr that overlapped another write

vars == <<log, tree, coll, hint, writeLock, req, doneTo, raced>>

Pays == [val : Nat, counter : BOOLEAN]
Items == [ver : Vers, vh : Nat, pos : 0 .. MaxLog]
LogRecords == [key : Keys, ver : Vers, vh : Nat, pay : Pays, rev : Vers]
Requests ==
    [at : {"idle", "tree", "found", "get1", "get2", "reply", "treeset",
           "collcheck", "collset", "hintset"},
     op : {"set", "get", "incr"}, key : Keys, pay : Pays, rev : Vers,
     old : Items, new : Items, floor : 0 .. MaxLog]

LogOK == log \in Seq(LogRecords) /\ Len(log) <= MaxLog
IndexOK ==
    /\ tree \in [Hashes -> Items]
    /\ coll \in [Keys -> Items]
    /\ hint \in [Keys -> Items]
RequestsOK == req \in [Clients -> Requests] /\ writeLock \in Clients \cup {Nobody}
HistoryOK == doneTo \in [Keys -> 0 .. MaxLog] /\ raced \subseteq Hashes

TypeOK == LogOK /\ IndexOK /\ RequestsOK /\ HistoryOK

Init ==
    /\ log = << >>
    /\ tree = [h \in Hashes |-> NoItem]
    /\ coll = [k \in Keys |-> NoItem]
    /\ hint = [k \in Keys |-> NoItem]
    /\ writeLock = Nobody
    /\ req = [c \in Clients |-> Idle]
    /\ doneTo = [k \in Keys |-> 0]
    /\ raced = {}

Go(c, fields) == req' = [req EXCEPT ![c] = fields]

\* Clients other than c that are writing a key with the hash of k.
OtherWriters(c, k) ==
    {d \in Clients \ {c} : req[d].at # "idle" /\ req[d].op # "get" /\ Hash[req[d].key] = Hash[k]}

\* The bound MaxLog, applied where a write starts.
Room ==
    Len(log) + Cardinality({c \in Clients : req[c].op # "get"
                               /\ req[c].at \in {"tree", "found", "get1", "get2", "reply"}})
        < MaxLog

-----------------------------------------------------------------------------
(* Bucket.get: the lookup shared by all requests *)

\* CollisionTable.get of the request's key, then the tree if it is not there.
Begin(c, r) ==
    Go(c, IF coll[r.key].pos # 0 THEN [r EXCEPT !.at = "found", !.old = coll[r.key]]
          ELSE [r EXCEPT !.at = "tree"])

StartRead(c, op, k) ==
    /\ req[c].at = "idle" /\ op \in Ops /\ (op = "incr" => Room)
    /\ Begin(c, [Idle EXCEPT !.op = op, !.key = k, !.floor = doneTo[k]])
    /\ raced' = IF op = "incr" /\ OtherWriters(c, k) # {} THEN raced \cup {Hash[k]} ELSE raced
    /\ UNCHANGED <<log, tree, coll, hint, writeLock, doneTo>>

\* A plausible bug: checkAndSet takes no lock.
StartSetUnlocked(c, k, p, rev) ==
    /\ req[c].at = "idle" /\ "set" \in Ops /\ Room
    /\ UNCHANGED writeLock
    /\ Begin(c, [Idle EXCEPT !.op = "set", !.key = k, !.pay = p, !.rev = rev])
    /\ raced' = IF \E d \in OtherWriters(c, k) : req[d].op = "incr" THEN raced \cup {Hash[k]}
                ELSE raced
    /\ UNCHANGED <<log, tree, coll, hint, doneTo>>

\* checkAndSet, once it has writeLock.
StartSet(c, k, p, rev) ==
    /\ req[c].at = "idle" /\ "set" \in Ops /\ Room
    /\ writeLock = Nobody /\ writeLock' = c
    /\ Begin(c, [Idle EXCEPT !.op = "set", !.key = k, !.pay = p, !.rev = rev])
    /\ raced' = IF OtherWriters(c, k) # {} THEN raced \cup {Hash[k]} ELSE raced
    /\ UNCHANGED <<log, tree, coll, hint, doneTo>>

\* HTree.get
TreeGet(c) ==
    /\ req[c].at = "tree"
    /\ Go(c, [req[c] EXCEPT !.at = "found", !.old = tree[Hash[req[c].key]]])
    /\ UNCHANGED <<log, tree, coll, hint, writeLock, doneTo, raced>>

-----------------------------------------------------------------------------
(* Bucket.get, after the lookup; the reply is the item in "new". *)

FoundRecord(c) == log[req[c].old.pos]

\* Nothing, or the record has the key asked for.
GetRecord(c) ==
    /\ req[c].at = "found" /\ req[c].op # "set"
    /\ req[c].old.pos # 0 => FoundRecord(c).key = req[c].key
    /\ Go(c, [req[c] EXCEPT !.at = "reply", !.new = req[c].old])
    /\ UNCHANGED <<log, tree, coll, hint, writeLock, doneTo, raced>>

\* Another key with the same hash: hintMgr.getItem finds this key's record.
GetHint(c) ==
    LET r == req[c]
    IN  /\ r.at = "found" /\ r.op # "set"
        /\ r.old.pos # 0 /\ FoundRecord(c).key # r.key
        /\ Go(c, [r EXCEPT !.at = IF hint[r.key].pos = 0 THEN "reply" ELSE "get1",
                           !.new = hint[r.key]])
        /\ UNCHANGED <<log, tree, coll, hint, writeLock, doneTo, raced>>

\* CollisionTable.compareAndSet
CompareAndSet(k, item) ==
    coll' = IF item.pos >= coll[k].pos THEN [coll EXCEPT ![k] = item] ELSE coll

\* The key found in the tree enters the collision table, as its record says.
GetCollision1(c) ==
    LET rec == FoundRecord(c)
    IN  /\ req[c].at = "get1"
        /\ CompareAndSet(rec.key,
              [ver |-> rec.ver, pos |-> req[c].old.pos,
               vh |-> IF rec.ver > 0 THEN Vhash(rec.pay) ELSE 0])
        /\ Go(c, [req[c] EXCEPT !.at = "get2"])
        /\ UNCHANGED <<log, tree, hint, writeLock, doneTo, raced>>

\* The key asked for enters it; its own record is the reply.
GetCollision2(c) ==
    LET item == req[c].new
    IN  /\ req[c].at = "get2"
        /\ CompareAndSet(req[c].key, item)
        /\ Go(c, [req[c] EXCEPT !.at = "reply", !.new.ver = log[item.pos].ver])
        /\ UNCHANGED <<log, tree, hint, writeLock, doneTo, raced>>

Return(c) ==
    /\ req[c].at = "reply" /\ req[c].op = "get"
    /\ Go(c, Idle)
    /\ UNCHANGED <<log, tree, coll, hint, writeLock, doneTo, raced>>

-----------------------------------------------------------------------------
(* The rest of checkAndSet, for a set or delete with revision rev *)

Same(c) == SameValue(req[c].old.ver, req[c].old.vh, req[c].pay, req[c].rev)

\* The value is not stored again; an explicit revision goes into the tree only.
SetSameValue(c) ==
    LET r == req[c]
    IN  /\ r.at = "found" /\ r.op = "set" /\ Same(c)
        /\ tree' = IF r.rev = 0 THEN tree
                   ELSE [tree EXCEPT ![Hash[r.key]] =
                            [ver |-> r.rev, vh |-> RequestHash(r.pay, r.rev), pos |-> r.old.pos]]
        /\ writeLock' = Nobody
        /\ Go(c, Idle)
        /\ UNCHANGED <<log, coll, hint, doneTo, raced>>

\* An old revision is dropped silently, a delete of nothing is NOT_FOUND.
SetRefused(c) ==
    /\ req[c].at = "found" /\ req[c].op = "set" /\ ~Same(c)
    /\ Refused(req[c].old.ver, req[c].rev)
    /\ writeLock' = Nobody
    /\ Go(c, Idle)
    /\ UNCHANGED <<log, tree, coll, hint, doneTo, raced>>

\* dataStore.AppendRecord
AppendRecord(c, ver, vh, p) ==
    /\ log' = Append(log, [key |-> req[c].key, ver |-> ver, vh |-> vh, pay |-> p,
                           rev |-> req[c].rev])
    /\ Go(c, [req[c] EXCEPT !.at = "treeset",
                            !.new = [ver |-> ver, vh |-> vh, pos |-> Len(log) + 1]])

SetAppend(c) ==
    LET r == req[c]
    IN  /\ r.at = "found" /\ r.op = "set" /\ ~Same(c)
        /\ ~Refused(r.old.ver, r.rev)
        /\ AppendRecord(c, NewVersion(r.old.ver, r.rev), RequestHash(r.pay, r.rev), r.pay)
        /\ UNCHANGED <<tree, coll, hint, writeLock, doneTo, raced>>

-----------------------------------------------------------------------------
(* Bucket.incr, when its get has returned *)

\* Only a value that incr wrote can be counted up.
IncrRefused(c) ==
    LET r == req[c]
    IN  /\ r.at = "reply" /\ r.op = "incr"
        /\ r.new.ver > 0 /\ ~log[r.new.pos].pay.counter
        /\ Go(c, Idle)
        /\ UNCHANGED <<log, tree, coll, hint, writeLock, doneTo, raced>>

IncrAppend(c) ==
    LET r == req[c]
        live == r.new.ver > 0
        p == [val |-> IF live THEN log[r.new.pos].pay.val + 1 ELSE 1, counter |-> TRUE]
    IN  /\ r.at = "reply" /\ r.op = "incr"
        /\ live => log[r.new.pos].pay.counter
        /\ AppendRecord(c, IF live THEN Wrap(1 + r.new.ver) ELSE 1, Vhash(p), p)
        /\ UNCHANGED <<tree, coll, hint, writeLock, doneTo, raced>>

-----------------------------------------------------------------------------
(* Bucket.set, after AppendRecord *)

\* HTree.set
TreeSet(c) ==
    /\ req[c].at = "treeset"
    /\ tree' = [tree EXCEPT ![Hash[req[c].key]] = req[c].new]
    /\ Go(c, [req[c] EXCEPT !.at = "collcheck"])
    /\ UNCHANGED <<log, coll, hint, writeLock, doneTo, raced>>

\* hintMgr.set asks whether keys of this hash are known to collide.
CollisionCheck(c) ==
    /\ req[c].at = "collcheck"
    /\ Go(c, [req[c] EXCEPT !.at =
                 IF \E k \in Keys : Hash[k] = Hash[req[c].key] /\ coll[k].pos # 0
                 THEN "collset" ELSE "hintset"])
    /\ UNCHANGED <<log, tree, coll, hint, writeLock, doneTo, raced>>

CollisionSet(c) ==
    /\ req[c].at = "collset"
    /\ CompareAndSet(req[c].key, req[c].new)
    /\ Go(c, [req[c] EXCEPT !.at = "hintset"])
    /\ UNCHANGED <<log, tree, hint, writeLock, doneTo, raced>>

\* A plausible bug: a set leaves no hint.
NoHintSet(c) ==
    LET r == req[c]
    IN  /\ r.at = "hintset"
        /\ UNCHANGED hint
        /\ doneTo' = [doneTo EXCEPT ![r.key] = IF r.new.pos > @ THEN r.new.pos ELSE @]
        /\ writeLock' = IF r.op = "set" THEN Nobody ELSE writeLock
        /\ Go(c, Idle)
        /\ UNCHANGED <<log, tree, coll, raced>>

\* hintMgr.setItem; the request returns and gives writeLock back.
HintSet(c) ==
    LET r == req[c]
    IN  /\ r.at = "hintset"
        /\ hint' = [hint EXCEPT ![r.key] = r.new]
        /\ doneTo' = [doneTo EXCEPT ![r.key] = IF r.new.pos > @ THEN r.new.pos ELSE @]
        /\ writeLock' = IF r.op = "set" THEN Nobody ELSE writeLock
        /\ Go(c, Idle)
        /\ UNCHANGED <<log, tree, coll, raced>>

Next ==
    \E c \in Clients :
        \/ \E k \in Keys : \E op \in {"get", "incr"} : StartRead(c, op, k)
        \/ \E k \in Keys, p \in Payloads, rev \in Revs : StartSet(c, k, p, rev)
        \/ TreeGet(c) \/ GetRecord(c) \/ GetHint(c) \/ GetCollision1(c) \/ GetCollision2(c)
        \/ Return(c)
        \/ SetSameValue(c) \/ SetRefused(c) \/ SetAppend(c)
        \/ IncrRefused(c) \/ IncrAppend(c)
        \/ TreeSet(c) \/ CollisionCheck(c) \/ CollisionSet(c) \/ HintSet(c)

Spec == Init /\ [][Next]_vars

-----------------------------------------------------------------------------
(* Properties *)

KeysOf(h) == {k \in Keys : Hash[k] = h}
Writing(h) == \E c \in Clients : req[c].op # "get" /\ Hash[req[c].key] = h

\* A get that starts after a set, delete or incr of its key has returned does
\* not answer with an older record, unless an incr ran beside another write.
ReadNotStale ==
    \A c \in Clients :
        req[c].at = "reply" /\ Hash[req[c].key] \notin raced => req[c].new.pos >= req[c].floor

\* A key once written is always found, whatever other keys share its hash and
\* whatever runs beside the get, and the record found is its own.
AckedIsFound ==
    \A c \in Clients :
        req[c].at = "reply" /\ req[c].floor > 0 =>
            req[c].new.pos > 0 /\ log[req[c].new.pos].key = req[c].key

\* When no write of a hash is under way, the tree leads to the newest record of
\* the keys that have it, which is also what a restart would find, and the hints
\* to the newest of each, unless an incr ran beside another write.  It does not hold
\* for keys that share a hash with CheckVHash on: SetSameValue then sets the tree back.
TreeNewest ==
    \A h \in Hashes \ raced : ~Writing(h) =>
        /\ \A k \in KeysOf(h) : hint[k].pos = doneTo[k] /\ doneTo[k] <= tree[h].pos
        /\ \A i \in 1 .. Len(log) :
               Hash[log[i].key] = h => i <= tree[h].pos /\ i <= doneTo[log[i].key]

\* A record written over another one has the larger version, so that replicas
\* which compare versions agree on the newest.
VersionGrows ==
    [][\A h \in Hashes :
          tree'[h].pos # tree[h].pos => AbsVer(tree'[h].ver) > AbsVer(tree[h].ver)]_vars

\* What a get would see of each key, when no two keys share a hash.
Visible ==
    [k \in Keys |->
        LET item == tree[Hash[k]]
        IN  [ver |-> item.ver, pay |-> IF item.pos = 0 THEN NoPay ELSE log[item.pos].pay]]
Abstract == INSTANCE VersionedStore WITH kv <- Visible

\* checkAndSet, with its lookup, its append and its update of the tree, is one
\* atomic step of VersionedStore.
SetsAreAtomic == Abstract!Spec

-----------------------------------------------------------------------------
(* What should hold and does not (README, section 4) *)

\* A set that asks for no revision stores a live value: int32 versions never
\* turn one into a deleted key.
PlainSetLives == \A i \in 1 .. Len(log) : log[i].rev = 0 => log[i].ver > 0

\* A deleted key has its tombstone on record.
DeletedOnRecord ==
    \A h \in Hashes : tree[h].ver < 0 => log[tree[h].pos].ver < 0
=============================================================================
