-------------------------------- MODULE HTree --------------------------------
(***************************************************************************)
(* The hash trees of the buckets, store/htree.go and leaf.go, and the tree *)
(* above them that HStore.ListUpper computes.  Replicas are compared by    *)
(* the hashes and counts that these trees answer to "get @path".           *)
(*                                                                         *)
(* A key hash is the sequence of its digits (KeyPath), a node the sequence *)
(* of the digits that lead to it, so that the root of a bucket's tree is   *)
(* the bucket.  A leaf holds the items of its hashes; the node above it is *)
(* kept up to date by differences, the other nodes are marked and          *)
(* recomputed when they are listed.  The tree's mutex makes set, remove    *)
(* and listDir single steps; dump and ListUpper read nodes without it.     *)
(* An item's position plays no part here (modules Bucket and GC).          *)
(***************************************************************************)
EXTENDS Integers, FiniteSets, SequencesExt

CONSTANTS
    Fanout,            \* BUCKET_SIZE, 16
    Depth,             \* Conf.TreeDepth
    Height,            \* Conf.TreeHeight
    KeyLen,            \* digits of a key hash, 16
    StoredLen,         \* digits of a hash that a leaf stores, 2 * Conf.TreeKeyHashLen
    WFirst, WLast,     \* the digits of uint16(KeyHash >> 32), 5 and 8
    HashMod, CountMod, \* 2^16 and 2^32
    Multiplier,        \* 97
    ThresholdBigHash, thresholdListKey,
    Served,            \* the buckets of this node, by its route
    Keys,              \* the key hashes in use
    Vers, Vhashes,     \* versions and value hashes of items
    MaxOps,            \* bound: sets and removes
    MaxRestarts        \* bound: how often buckets are opened again

LeafLevel == Depth + Height - 1

ASSUME HTreeAssumption ==
    /\ Fanout \in Nat \ {0, 1} /\ Depth \in Nat /\ Height \in Nat \ {0, 1}
    /\ KeyLen \in Nat /\ LeafLevel <= KeyLen
    /\ StoredLen \in 1 .. KeyLen /\ KeyLen - StoredLen <= LeafLevel  \* KHASH_LENS
    /\ 1 <= WFirst /\ WFirst <= WLast /\ WLast <= KeyLen
    /\ HashMod \in Nat \ {0} /\ CountMod \in Nat \ {0}
    /\ Multiplier \in Nat /\ ThresholdBigHash \in Nat /\ thresholdListKey \in Nat
    /\ Keys \subseteq [1 .. KeyLen -> 0 .. Fanout - 1] /\ IsFiniteSet(Keys)
    /\ Vers \subseteq Int \ {0} /\ Vhashes \subseteq 0 .. HashMod - 1
    /\ Served \subseteq [1 .. Depth -> 0 .. Fanout - 1]
    /\ \A k \in Keys : SubSeq(k, 1, Depth) \in Served
    /\ MaxOps \in Nat /\ MaxRestarts \in Nat

Digits == 0 .. Fanout - 1
PathsOf(n) == [1 .. n -> Digits]
Buckets == PathsOf(Depth)
Leafs == PathsOf(LeafLevel)
Inner == UNION {PathsOf(n) : n \in Depth .. LeafLevel - 1}
Nodes == Inner \cup Leafs
Child(p, i) == Append(p, i)
BucketOf(p) == SubSeq(p, 1, Depth)
LeafOf(k) == SubSeq(k, 1, LeafLevel)

Items == [ver : Vers, vhash : Vhashes]
NodeValues == [count : 0 .. CountMod - 1, hash : 0 .. HashMod - 1]

VARIABLES
    leaf,     \* HTree.leafs: what each leaf holds, by the stored part of the hash
    node,     \* HTree.levels of all buckets
    state,    \* what is under way with each bucket's tree
    file,     \* the tree file of each bucket
    dump,     \* the part of its file that dump has written
    lister,   \* the bucket whose root a listDir is adding up, under the tree's mutex
    upper,    \* a ListUpper, which holds htreeLock
    content,  \* history: the item of each key hash
    mixed,    \* history: buckets whose tree comes from a dump beside a set
    ops, restarts

vars == <<leaf, node, state, file, dump, lister, upper, content, mixed, ops, restarts>>

NoItem == [ver |-> 0, vhash |-> 0]
Zero == [count |-> 0, hash |-> 0]
NoLeafs == [l \in Leafs |-> << >>]
NoDump == [l \in Leafs |-> Zero]
NoContent == [k \in Keys |-> NoItem]
EmptyFile == [leaf |-> NoLeafs, node |-> NoDump, content |-> NoContent, mixed |-> FALSE]
NoUpper == [at |-> "idle", path |-> << >>, todo |-> {}, got |-> [b \in Buckets |-> Zero],
            due |-> [b \in Buckets |-> Zero], raced |-> FALSE]

ValueOf(n) == [count |-> n.count, hash |-> n.hash]
Known(v, u) == [count |-> v.count, hash |-> v.hash, updated |-> u]

-----------------------------------------------------------------------------
(* Hashes and leaves *)

\* The stored part of a hash, and the hash again from it and the leaf's path
\* (getNodeKhash, TreeKeyHashMask).
Stored(k) == SubSeq(k, KeyLen - StoredLen + 1, KeyLen)
FullHash(l, s) == SubSeq(l, 1, KeyLen - StoredLen) \o s

\* The number that digits stand for.
Number(p) == FoldLeft(LAMBDA n, d : n * Fanout + d, 0, p)

\* The first of a set of buckets.
First(S) == CHOOSE b \in S : \A c \in S : Number(b) <= Number(c)

\* uint16(KeyHash >> 32)
Weight(k) == Number(SubSeq(k, WFirst, WLast)) % HashMod

\* SliceHeader.Get
Lookup(k) == IF Stored(k) \in DOMAIN leaf[LeafOf(k)] THEN leaf[LeafOf(k)][Stored(k)] ELSE NoItem

Live(it) == IF it.ver > 0 THEN 1 ELSE 0
LiveHash(it) == IF it.ver > 0 THEN it.vhash ELSE 0

\* A plausible bug: the item that is replaced stays in the count and the hash.
AddOnly(n, k, old, it) ==
    [n EXCEPT !.count = (@ + Live(it)) % CountMod,
              !.hash = (@ + LiveHash(it) * Weight(k)) % HashMod]

\* setToLeaf and remvoeFromLeaf: a leaf's node follows by differences, modulo
\* the widths of its fields.
Moved(n, k, old, it) ==
    [n EXCEPT !.count = (@ + Live(it) - Live(old)) % CountMod,
              !.hash = (@ + (LiveHash(it) - LiveHash(old)) * Weight(k)) % HashMod]

\* A plausible bug: the root is not marked.
MarkBelowRoot(n, k) ==
    [p \in Nodes |-> IF p \in Inner \ Buckets /\ IsPrefix(p, k)
                     THEN [n[p] EXCEPT !.updated = FALSE] ELSE n[p]]

\* getLeafAndInvalidNodes: the nodes between the root and the leaf are out of date.
Invalidated(n, k) ==
    [p \in Nodes |-> IF p \in Inner /\ IsPrefix(p, k)
                     THEN [n[p] EXCEPT !.updated = FALSE] ELSE n[p]]

-----------------------------------------------------------------------------
(* updateNodes *)

\* What a node becomes from the values of its children, a function of their digits.
Combined(v) ==
    LET inOrder == [i \in 1 .. Fanout |-> v[i - 1]]
        count == FoldLeft(LAMBDA n, c : (n + c.count) % CountMod, 0, inOrder)
        step(h) == IF count > ThresholdBigHash THEN h * Multiplier ELSE h
    IN  [count |-> count,
         hash |-> FoldLeft(LAMBDA h, c : (step(h) + c.hash) % HashMod, 0, inOrder)]

\* The value of every node once it has been updated; one that is marked as
\* updated is not looked into.
Updated(n) ==
    LET U[p \in Nodes] == IF n[p].updated THEN ValueOf(n[p])
                          ELSE Combined([i \in Digits |-> U[Child(p, i)]])
    IN  U

\* updateNodes(p) leaves every node that it reaches updated.
AfterUpdate(n, p) ==
    LET U == Updated(n)
        reached(q) == /\ IsPrefix(p, q)
                      /\ \A j \in Len(p) .. Len(q) : ~n[SubSeq(q, 1, j)].updated
    IN  [q \in Nodes |-> IF reached(q) THEN Known(U[q], TRUE) ELSE n[q]]

-----------------------------------------------------------------------------
(* listDir *)

\* getNode: where a path leads to; a path may be longer than a leaf's.
NodeOf(p) == SubSeq(p, 1, IF Len(p) < LeafLevel THEN Len(p) ELSE LeafLevel)

\* The items of a leaf, with their whole hashes (SliceHeader.Iter).
ItemsOf(l) == {<<FullHash(l, s), leaf[l][s]>> : s \in DOMAIN leaf[l]}

\* collectItems with its filter.
CollectItems(p) ==
    {x \in UNION {ItemsOf(l) : l \in {m \in Leafs : IsPrefix(NodeOf(p), m)}} : IsPrefix(p, x[1])}

\* What a listing of p answers: items below a leaf or a small node, else nodes.
Listing(p) ==
    LET q == NodeOf(p)
        U == Updated(node)
    IN  IF Len(q) = LeafLevel \/ U[q].count < thresholdListKey
        THEN [items |-> CollectItems(p), nodes |-> << >>]
        ELSE [items |-> {}, nodes |-> [i \in 1 .. Fanout |-> U[Child(q, i - 1)]]]

\* ListTop lists the path that the bucket's number prints to, without leading
\* zeros; a path shorter than the tree's depth is refused.
TopPath(b) ==
    IF Depth = 0 THEN <<0>>
    ELSE LET nonzero == {j \in 1 .. Depth : b[j] # 0}
         IN  IF nonzero = {} THEN <<0>> ELSE SubSeq(b, CHOOSE j \in nonzero : \A i \in nonzero : j <= i, Depth)
AfterListTop(n, b) == IF Len(TopPath(b)) < Depth THEN n ELSE AfterUpdate(n, NodeOf(TopPath(b)))

-----------------------------------------------------------------------------
(* Requests *)

NewNode(p) == Known(Zero, p \in Leafs)

Init ==
    /\ leaf = NoLeafs
    /\ node = [p \in Nodes |-> NewNode(p)]
    /\ state = [b \in Buckets |-> IF b \in Served THEN "open" ELSE "down"]
    /\ file = [b \in Buckets |-> EmptyFile]
    /\ dump = NoDump
    /\ lister = {} /\ upper = NoUpper
    /\ content = NoContent /\ mixed = {}
    /\ ops = 0 /\ restarts = 0

\* The mutex of the tree of bucket b is free.
Unlocked(b) == b \notin lister

\* The leaf's bytes and its node change; k's item becomes it, NoItem to remove it.
Change(k, it) ==
    LET l == LeafOf(k)
        s == Stored(k)
        rest == [x \in DOMAIN leaf[l] \ {s} |-> leaf[l][x]]
    IN  /\ ops < MaxOps /\ ops' = ops + 1
        /\ Unlocked(BucketOf(k))
        /\ leaf' = [leaf EXCEPT ![l] =
                      IF it = NoItem THEN rest
                      ELSE [x \in DOMAIN rest \cup {s} |-> IF x = s THEN it ELSE rest[x]]]
        /\ node' = [Invalidated(node, k) EXCEPT ![l] = Moved(@, k, Lookup(k), it)]
        /\ content' = [content EXCEPT ![k] = it]
        /\ mixed' = IF state[BucketOf(k)] = "dump" THEN mixed \cup {BucketOf(k)} ELSE mixed
        /\ UNCHANGED <<state, file, dump, lister, upper, restarts>>

\* HTree.set: while the bucket opens, by requests, and by requests that are
\* still running when the bucket is closed.
SetItem(k, it) == state[BucketOf(k)] # "down" /\ Change(k, it)

\* HTree.remove is called with chunk -1, for the tombstones of a hint file.
RemoveItem(k) == state[BucketOf(k)] = "open" /\ Change(k, NoItem)

\* The bucket serves requests.
Serve(b) ==
    /\ state[b] = "open"
    /\ state' = [state EXCEPT ![b] = "ready"]
    /\ UNCHANGED <<leaf, node, file, dump, lister, upper, content, mixed, ops, restarts>>

\* The root of b changes to the one in n while ListUpper reads its fields.
Reading(b, n) == upper.at \in {"hash", "count"} /\ First(upper.todo) = b /\ n[b] # node[b]

\* HTree.ListDir of a path to a node whose root need not be added up.
ListDir(p) ==
    LET b == BucketOf(p)
    IN  /\ state[b] = "ready" /\ Unlocked(b)
        /\ p = b => node[b].updated
        /\ node' = AfterUpdate(node, NodeOf(p))
        /\ UNCHANGED <<leaf, state, file, dump, lister, upper, content, mixed, ops, restarts>>

\* HTree.ListDir of the root takes the mutex and resets count and hash ...
ListRoot(b) ==
    /\ state[b] = "ready" /\ Unlocked(b) /\ ~node[b].updated
    /\ lister' = lister \cup {b}
    /\ \E h \in {node[b].hash, 0} : node' = [node EXCEPT ![b].count = 0, ![b].hash = h]
    /\ upper' = [upper EXCEPT !.raced = @ \/ Reading(b, node')]
    /\ UNCHANGED <<leaf, state, file, dump, content, mixed, ops, restarts>>

\* ... and has added the children up when it gives the mutex back.
ListRootEnd(b) ==
    /\ b \in lister
    /\ node' = AfterUpdate(node, b)
    /\ lister' = lister \ {b}
    /\ upper' = [upper EXCEPT !.raced = @ \/ Reading(b, node')]
    /\ UNCHANGED <<leaf, state, file, dump, content, mixed, ops, restarts>>

-----------------------------------------------------------------------------
(* ListUpper *)

\* What a node should be, from the items below it alone.
LiveBelow(p) == {k \in Keys : IsPrefix(p, k) /\ content[k].ver > 0}
Recomputed(p) ==
    LET big(q) == Cardinality(LiveBelow(q)) > ThresholdBigHash
        factor(q, k) ==   \* the power of the multiplier that q applies to the child of k
            IF big(q) THEN Multiplier ^ (Fanout - 1 - k[Len(q) + 1]) ELSE 1
        share(k) == FoldLeft(LAMBDA h, n : (h * factor(SubSeq(k, 1, n), k)) % HashMod,
                             content[k].vhash * Weight(k),
                             [i \in 1 .. LeafLevel - Len(p) |-> LeafLevel - i])
    IN  [count |-> Cardinality(LiveBelow(p)) % CountMod,
         hash |-> MapThenSumSet(share, LiveBelow(p)) % HashMod]

\* updateNodesUpper goes through the buckets below p in order.
UpperBegin(p) ==
    /\ upper.at = "idle"
    /\ upper' = [NoUpper EXCEPT !.at = "update", !.path = p, !.todo = {b \in Served : IsPrefix(p, b)}]
    /\ UNCHANGED <<leaf, node, state, file, dump, lister, content, mixed, ops, restarts>>

\* A plausible bug: the node is read as it is.
ReadAsIs(n, b) == n

\* HTree.Update
UpdateRoot(n, b) == AfterUpdate(n, b)

\* Update of a bucket that serves; another counts as empty.
UpperUpdate ==
    LET b == First(upper.todo)
    IN  /\ upper.at = "update" /\ upper.todo # {}
        /\ state[b] = "ready" => Unlocked(b)
        /\ node' = IF state[b] = "ready" THEN UpdateRoot(node, b) ELSE node
        /\ upper' = IF state[b] = "ready"
                    THEN [upper EXCEPT !.at = "hash", !.due[b] = Recomputed(b)]
                    ELSE [upper EXCEPT !.todo = @ \ {b}]
        /\ UNCHANGED <<leaf, state, file, dump, lister, content, mixed, ops, restarts>>

\* The root's fields are read after Update has given the mutex back.
UpperHash ==
    LET b == First(upper.todo)
    IN  /\ upper.at = "hash"
        /\ upper' = [upper EXCEPT !.at = "count", !.got[b].hash = node[b].hash]
        /\ UNCHANGED <<leaf, node, state, file, dump, lister, content, mixed, ops, restarts>>

UpperCount ==
    LET b == First(upper.todo)
    IN  /\ upper.at = "count"
        /\ upper' = [upper EXCEPT !.at = "update", !.got[b].count = node[b].count, !.todo = @ \ {b}]
        /\ UNCHANGED <<leaf, node, state, file, dump, lister, content, mixed, ops, restarts>>

UpperReturn ==
    /\ upper.at = "update" /\ upper.todo = {}
    /\ upper' = NoUpper
    /\ UNCHANGED <<leaf, node, state, file, dump, lister, content, mixed, ops, restarts>>

\* The nodes of the tree above the buckets, from what was read of them.
UpperNode(got) ==
    LET U[p \in UNION {PathsOf(n) : n \in 0 .. Depth}] ==
          IF Len(p) = Depth THEN got[p]
          ELSE FoldLeft(LAMBDA a, c : [count |-> (a.count + c.count) % CountMod,
                                       hash |-> (a.hash * Multiplier + c.hash) % HashMod],
                        Zero, [i \in 1 .. Fanout |-> U[Child(p, i - 1)]])
    IN  U

-----------------------------------------------------------------------------
(* The tree file *)

\* Of a function on leaves or keys, what belongs to bucket b.
Own(f, b, none) == [x \in DOMAIN f |-> IF BucketOf(x) = b THEN f[x] ELSE none]
Other(f, b, own) == [x \in DOMAIN f |-> IF BucketOf(x) = b THEN own[x] ELSE f[x]]

\* HTree.dump: the nodes above the leaves first ...
DumpNodes(b) ==
    /\ state[b] = "ready" /\ Unlocked(b)
    /\ \A c \in Buckets : state[c] # "dump"
    /\ restarts < MaxRestarts
    /\ node' = AfterListTop(node, b)
    /\ upper' = [upper EXCEPT !.raced = @ \/ Reading(b, node')]
    /\ dump' = Own([l \in Leafs |-> ValueOf(node[l])], b, Zero)
    /\ state' = [state EXCEPT ![b] = "dump"]
    /\ UNCHANGED <<leaf, file, lister, content, mixed, ops, restarts>>

\* ... then the leaves; the file gets its name when it is complete.  The tree
\* goes with the process or with Bucket.release.
DumpLeafs(b) ==
    /\ state[b] = "dump"
    /\ ~(upper.at \in {"hash", "count"} /\ First(upper.todo) = b)
    /\ file' = [file EXCEPT ![b] = [leaf |-> Own(leaf, b, << >>), node |-> dump,
                                    content |-> Own(content, b, NoItem), mixed |-> b \in mixed]]
    /\ state' = [state EXCEPT ![b] = "down"]
    /\ dump' = NoDump
    /\ leaf' = Other(leaf, b, NoLeafs)
    /\ node' = Other(node, b, [p \in Nodes |-> NewNode(p)])
    /\ content' = Other(content, b, NoContent)
    /\ mixed' = mixed \ {b}
    /\ UNCHANGED <<lister, upper, ops, restarts>>

\* newHTree and the node part of HTree.load.
Loaded(b) ==
    [p \in Nodes |-> IF p \in Leafs THEN Known(file[b].node[p], TRUE) ELSE NewNode(p)]

\* Bucket.open: the tree of the file, or a new one when the file cannot be read.
Open(b) ==
    /\ state[b] = "down" /\ restarts < MaxRestarts
    /\ restarts' = restarts + 1
    /\ state' = [state EXCEPT ![b] = "open"]
    /\ \/ /\ leaf' = Other(leaf, b, file[b].leaf)
          /\ node' = AfterListTop(Other(node, b, Loaded(b)), b)
          /\ content' = Other(content, b, file[b].content)
          /\ mixed' = IF file[b].mixed THEN mixed \cup {b} ELSE mixed
       \/ UNCHANGED <<leaf, node, content, mixed>>
    /\ UNCHANGED <<file, dump, lister, upper, ops>>

Next ==
    \/ \E k \in Keys : (\E it \in Items : SetItem(k, it)) \/ RemoveItem(k)
    \/ \E b \in Served : \/ Serve(b) \/ ListRoot(b) \/ ListRootEnd(b)
                         \/ DumpNodes(b) \/ DumpLeafs(b) \/ Open(b)
    \/ \E p \in Nodes : ListDir(p)
    \/ \E n \in 0 .. Depth - 1 : \E p \in PathsOf(n) : UpperBegin(p)
    \/ UpperUpdate \/ UpperHash \/ UpperCount \/ UpperReturn

Spec == Init /\ [][Next]_vars
-----------------------------------------------------------------------------
(* Properties *)

TypeOK ==
    /\ \A l \in Leafs : DOMAIN leaf[l] \subseteq PathsOf(StoredLen)
                         /\ \A s \in DOMAIN leaf[l] : leaf[l][s] \in Items
    /\ \A p \in Nodes : ValueOf(node[p]) \in NodeValues /\ node[p].updated \in BOOLEAN
    /\ \A l \in Leafs : node[l].updated
    /\ state \in [Buckets -> {"open", "ready", "dump", "down"}]
    /\ upper.at \in {"idle", "update", "hash", "count"} /\ upper.todo \subseteq Buckets
    /\ content \in [Keys -> Items \cup {NoItem}] /\ mixed \subseteq Buckets

\* A node that is marked as updated has the count and the hash of the items
\* below it, although leaf nodes only ever follow by differences of 16 bits
\* and a set marks the nodes above its leaf without touching them.
NodesExact ==
    \A p \in Nodes : node[p].updated /\ BucketOf(p) \notin mixed => ValueOf(node[p]) = Recomputed(p)

\* Whatever is listed at any moment is what a tree with the same items would
\* answer: the items below a leaf or a small node, each with its whole hash,
\* and the recomputed children of a large one.
ListingExact ==
    \A n \in Depth .. KeyLen : \A p \in PathsOf(n) : BucketOf(p) \in Served \ mixed =>
        Listing(p) =
            IF n >= LeafLevel \/ Cardinality(LiveBelow(p)) < thresholdListKey
            THEN [items |-> {<<k, content[k]>> : k \in {j \in Keys : IsPrefix(p, j) /\ content[j] # NoItem}},
                  nodes |-> << >>]
            ELSE [items |-> {}, nodes |-> [i \in 1 .. Fanout |-> Recomputed(Child(p, i - 1))]]

\* ListUpper answers with the hash and the count that each bucket had when it
\* was brought up to date, unless another listing of that bucket came between.
UpperExact ==
    upper.at = "update" /\ upper.todo = {} /\ ~upper.raced /\ mixed = {} =>
        \A i \in Digits : LET c == Child(upper.path, i)
                         IN  UpperNode(upper.got)[c] = UpperNode(upper.due)[c]

-----------------------------------------------------------------------------
(* What should hold and does not (README, section 4) *)

\* ListUpper always answers with a hash and a count of the same moment.
UpperAlwaysExact ==
    upper.at = "update" /\ upper.todo = {} /\ mixed = {} => upper.got = upper.due

\* A tree that is loaded from its file is one that was in memory.
LoadedExact ==
    \A l \in Leafs : state[BucketOf(l)] = "ready" => ValueOf(node[l]) = Recomputed(l)
=============================================================================
