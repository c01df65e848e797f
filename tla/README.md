# Formal model of gobeansdb

gobeansdb is a persistent key-value server that speaks the memcache protocol.
A process holds a number of *buckets*; each bucket is an append-only data store
(chunk files of at most `DataFileMax` bytes), a hash tree in memory that maps
key hashes to record positions, hint files from which the tree is rebuilt, and a
collision table for keys with the same hash. This directory holds TLA+ modules
of the parts that carry the program's logic, TLC runs over small instances, and
TLAPS proofs for all instances. `PROJECT.json` lists, in machine-readable form,
the components, the runs, the source lines behind each definition, the hazards
and the findings.

## 1. The system

| Part | State | Operations | Interacts with |
|---|---|---|---|
| Data store (`store/data.go`, `datachunk.go`, `datafile.go`) | per chunk: write buffer `wbuf`, `writingHead`, `size`, file; per store: `newHead`, `wbufSize`, flush lock | `AppendRecord`, `flush`, `GetRecordByPos`, `ListFiles`, close | called by buckets, by the flusher goroutine and by one goroutine per rotation |
| Bucket (`store/bucket.go`, `collision.go`) | write lock, tree, hints, collision table | `checkAndSet`, `get`, `incr`, `open`, `close` | data store, tree, hints |
| Hash tree (`store/htree.go`, `leaf.go`) | nodes with hash and count, leaves with items | `set`, `get`, `remove`, `listDir`, `Update`, `load`, `dump` | bucket, gc; its own lock around each call but `dump`; `HStore.ListUpper` reads roots without it |
| Hints (`store/hint.go`, `hintfile.go`, `hintmerge.go`) | per chunk: splits (buffer or file); merged file; collision table | `set`, `getItem`, `trydump`, `Merge`, `loadHintsByChunk` | bucket, gc, hint dumper goroutine |
| Garbage collection (`store/gc.go`) | `GCState`: begin, end, src, dst, cancel flag; `rewriting` and `writingHead` of the destination | `gc`, `CancelGC`, `UpdateHtreePos` | reads and rewrites chunk files beside sets and gets |
| HStore (`store/hstore.go`), the web handlers of gc and routes (`gobeansdb/web.go`), routes (`config`) | buckets and their states, `Conf.BucketsStat`, `AllowReload`, gc registry, the tree above the buckets | `NewHStore`, `Close`, `Flusher`, `HintDumper`, `GC`, `CancelGC`, `ChangeRoute`, `ListDir`, `ListUpper` | all buckets; no lock around their states and pointers |
| Memcache server (`memcache/*.go`, `gobeansdb/store.go`) | connections, request tokens, `stop`, per connection request and response | accept, `ServeOnce`, `ReqLimiter.Get/Put`, `Shutdown` | HStore through `StorageClient`; signals |
| Buffer accounting (`cmem`) | counts and sizes of set, get and flush buffers | add, sub | server, data store |
| Other web handlers, reading of configuration, logging, compression, utilities | - | - | not modelled |

What is hard here is concurrency without one lock: `flush` runs in several
goroutines and reads sizes without the chunk's mutex; `get` reads a file after
it has released the lock; gc rewrites files under readers and moves tree items
under writers; `incr` takes no lock; the process may die between any two file
operations; shutdown races with connections; a new route opens, closes and
releases buckets under requests, loops and gcs. `PROJECT.json` lists each hazard at
its line with the properties that cover it.

What makes each part correct:

* data store: a record is readable from the moment its position is handed out,
  it is stored where the index says, it reaches its file, and a torn file is
  never written again;
* bucket: sets of a key take effect one at a time, versions grow, a get is never
  older than what was acknowledged before it began, a written key is found
  although others share its hash;
* gc: the tree leads to the newest record of every key at every moment, and so
  does a tree rebuilt after a crash at any moment; no record is collected
  because another key of its hash owns the item in the tree;
* hash tree: hashes and counts, kept by differences and marks, equal those of the
  items below, so that replicas with the same items answer the same;
* hstore: what serves is open, what was acknowledged outlives a change of the
  route, the served buckets are those of the route, a reload lets the next one in,
  a bucket has one gc;
* server: tokens are neither lost nor doubled, the n-th reply answers the n-th
  request, counters return to zero, a signal ends the process without losing
  acknowledged sets.

## 2. Modules

| Module | Models | State and actions |
|---|---|---|
| `DataStore` | `dataStore`, `dataChunk` | `wbuf`, `head`/`size` per chunk and the files as sets of placed records; `AppendRecord` (with rotation and the goroutine it starts), the steps of `flush` (`FlushCheck` ... `Account`) for the ticker, for each rotated chunk and for `Close`, a reader in two steps, crash with a torn write, `Open` |
| `DataStoreProofs` | - | inductive invariant and theorems |
| `Versions` | `checkAndUpdateVerison`, value hash comparison | pure operators on versions of bounded width |
| `VersionedStore` | what `checkAndSet` promises | abstract: one map from key to version and value, changed in one step |
| `Bucket` | `checkAndSet`, `get`, `incr`, `set`, collision table, hint index | `Clients` run requests whose program counters stop between lookup, file read, hint lookup, append, tree update and hint update |
| `BucketProofs` | - | theorems, and the refinement of `VersionedStore` |
| `MCBucket` | - | keys, values, value hashes and revisions of the runs |
| `GC` | `gc`, `UpdateHtreePos`, `beginGCWriting`, `endGCWriting`, `Clear`, `CancelGC`, rebuild in `open` | files as sequences of records, tree, one writer, one reader, gc's local variables; `Crash` restarts from the files |
| `MCGC` | - | the instance |
| `GCProofs` | - | inductive invariant and theorems |
| `Hints` | `hintMgr`, `hintChunk`, `HintBuffer`, `Bucket.open`, `close` and `dumpHtree` | data, hint files and tree file on disk; splits of each chunk, the tree and the program counters of a writer, a lookup, the hint dumper and `close`; `OpenTree`, `OpenChunk`, `OpenDone` and `CheckBehind` are the stages of `open` |
| `MCHints` | - | two symmetric keys |
| `HintsProofs` | - | what setting, dumping, loading and rebuilding do to the splits of a chunk; the invariant `Core`; theorem |
| `RecoveryProofs` | - | on `Core`: what a tree covers while the bucket is written, dumped, closed and opened; theorem |
| `LookupProofs` | - | on both: what the splits of a chunk tell of a key while a lookup goes through them; theorem |
| `HTree` | `HTree`, `SliceHeader`, `HStore.ListDir`, `ListUpper`, `updateNodesUpper` | leaves and nodes of all buckets addressed by the digits of the hash; set, remove, listing (the root's in two steps), a `ListUpper` that reads each root field by field, `dump` in two steps, `load`; `Recomputed` is the reference: what a node is, from the items alone |
| `MCHTree` | - | hashes, the served bucket, and a `VIEW` |
| `HStore` | `HStore`, `handleReloadRoute`, `ChangeRoute`, `Bucket.open`, `close` and `release` as a whole, gc admission and registry | state, stat, pointers, buffer and files of each bucket; requests that check and then use, the two loops, reload handlers, gcs, the end of `Main` |
| `HStoreProofs` | - | inductive invariant and theorems |
| `MCHStore` | - | the routes at the start |
| `Collision` | `CollisionTable`, `mergeWriter`, `mergeHeap`, `merge`, `hintMgr.Merge`, `getItemCollision`, `getCollisionGC`, what gc does to records and hints of keys that share a hash | files, the one tree item, table and `collision.yaml`, the splits of each chunk, gc's variables; a set, a get and a record of gc are one step each |
| `Server` | `Serve`, `ServeOnce`, `Request.Read`, `Process`, `ReqLimiter`, `Shutdown`, the end of `Main` | one program counter per connection, the channel of tokens, the unread stream, replies, counters, the main goroutine |
| `ServerProofs` | - | theorems, each with the invariant it needs |
| `MCServer` | - | connections and the kinds of requests of the runs |

Abstractions. Keys, values and records are small numbers; a record occupies one
or two blocks. Files hold whole records and, after a crash, one torn one. Hashes
are a function from keys chosen by the run, so that collisions happen on purpose.
A request is its *kind*, that is the path the handlers take. Time is a
nondeterministic choice: a buffer may be old enough, a request may be overdue.
Each action is a stretch of code that holds the lock it needs, or a single
access to shared state where the code holds none. Two exceptions are coarser than
the code: `Hints!CheckBehind` checks a chunk below the tree file in one step,
while the goroutine of `open` holds that chunk's lock only for each item it sets
(section 4 says what this leaves out), and in `Collision` a set, a get and the
handling of a record by gc are one step each. Variables marked *history* in the
modules are not state of the program; properties refer to them.

## 3. Runs

| Run | Instance | Shows |
|---|---|---|
| `datastore` | 2 chunks of 2 blocks, records of 1 or 2 blocks, 3 records, 1 restart | records stored where indexed, readable during flushes, buffers flushed and accounted for, torn files sealed |
| `datastore_live` | the same, no restart, fair | every acknowledged record reaches its file |
| `bucket` | 2 clients, 1 key, 3 values (two with one hash), revisions -1, 0, 3 | sets refine `VersionedStore`, versions grow, reads are fresh |
| `bucket_collision` | 2 clients, 2 keys with one hash, incr, versions that wrap at 2 | each key is found whatever the tree points at; incr without lock harms only what it overlaps |
| `gc` | 2 keys, 3 chunks of 2 records, 4 writes, 2 gcs, 1 crash | tree, gets and restarts are right outside the windows below |
| `gc_race` | 1 gc | *violation*: a write while gc moves the key is undone |
| `hints` | 2 keys, 2 chunks of 3 records, hint buffers of 1 key, 3 writes, 3 opens, 1 failed dump | hint files are exact, a reopened bucket is right, lookups beside dumps miss nothing |
| `htree` | fan-out 2, 4 buckets of 3 levels, one served, 3 hashes of 5 digits, hashes modulo 8, 3 sets or removes, 1 restart | nodes and listings equal a computation from the items; `ListUpper` answers with what the roots were |
| `hstore` | 2 buckets, one of them busy, start with bucket 1 or none, 1 set, 2 reloads, 1 failure, 2 gcs, fair | buckets that serve are open, acknowledged records are kept, the route is served, the registry is exact, reloads end |
| `collision` | 3 keys of one hash, 3 chunks of 2 records, 3 sets, 2 records of other hashes, 2 gcs with merge, 1 crash | gc keeps the newest record of each key, the table leads to it, gets return it |
| `server` | 2 connections, 1 token, 6 kinds, `Accept` may fail, 2 requests on one or both | tokens conserved, counters settle, replies in order, a drained server is quiet |
| `server_live` | 2 connections, 1 token, 2 sets, fair | the process ends after a signal, tokens are served |

Why the bounds are enough. Two chunks give a head and a rotated chunk, whose
flushes overlap; three records of one or two blocks fill, overfill and rotate
them. Two clients are the pairs that can race on one hash. Three chunks let gc rewrite a chunk in place, move on to the
next destination and remove a source; four writes of two keys give overwritten,
deleted and live records in them; a second gc meets the result of the first. Hint
buffers of one key make every other record rotate a split, so that old and last
splits are dumped by both goroutines; a chunk of three records has three splits,
so that one whose dump failed lies between others; two chunks give one behind the
tree file; three opens (`MaxRestarts` counts the first) are a recovery, and a
second one of what the first, complete or cut short, has left. `RecoveryProofs`
covers any number. Two connections on one token make one wait, and two requests on
one connection make a pipeline. In `htree` two hashes share a leaf and the third has another, thresholds
of 1 and 2 keys make nodes large and small, and modulo 8 the hashes wrap; one
served bucket of four leaves three empty ones for the tree above; the `VIEW`
leaves out a file that will not be loaded again. In `hstore` requests, loops and
gcs come to one bucket (`Busy`) while the other is loaded or fails to; two
reloads give an unload followed by a load, and a failure followed by a retry. In
`collision` the records of other hashes fill chunks so that one key's records are
inside the range of a gc and another's outside; four sets with fewer gcs or
crashes pass, too. The properties are about pairs of
actions on one key, chunk or connection, so that larger instances repeat the
same patterns. Deadlock checking is off where the system may stop: the process
exits, or the bound on records or requests is reached.

`TypeOK` of `GC`, `Hints`, `HTree`, `HStore` and `Collision` holds in the
instances of their runs; it is not listed there because the other properties say
more.

The properties exclude, by history variables, the windows in which the code goes
wrong (section 4):

* `gc`: a key written while gc moves it (`raced`), and a chunk of which a rewrite
  is given up halfway, by a crash, a cancel or an error of gc (`torn`);
* `hints`: processes that ended with hints or a tree of data that was not in its
  file yet (`ahead`); in `Recovered` also a tree file that got a number behind that
  of a hint file that could not be written (`gap`: the next open counts hint files
  from the front, and the number then means other files); in `LookupFresh` also a
  split whose dump failed;
* `server`: connections on which a reply was dropped, a receive timeout answered a
  command that has no reply, or a data block and a command were taken for each other
  (`skewed`); in `CountersSettle` requests
  that ended in a receive timeout or a panic, and the kinds of requests that leak.
  Both connections have addresses of their own;
* `htree`: trees that were dumped beside a set (`mixed`), and in `UpperExact` a
  listing of the same root between the reads (`raced`);
* `hstore`: buckets that were opened again while they served or closed under a
  request (`spoiled`), two reloads or two gcs admitted at once (`doubled`), and in
  `ServedIsRouted` the time after a reload that failed;
* `collision`: keys of which gc kept an old record on a guess, that a merge put into
  the table while their newest hint was in a buffer, or that were looked up while gc
  read a chunk (`misjudged`); gcs that began with an empty last split (`blind`)
  or after a merge that failed (`unmerged`); and entries of `collision.yaml` that were
  old when they were loaded (`outdated`).

Fairness. `datastore_live`: Go schedules each runnable goroutine (weak fairness
of each step of a flush), its mutexes hand over to a waiter after a bounded time
(strong fairness of `FlushStart`, which takes the flush lock), and the flusher's
ticker fires again and again. `server_live`: weak fairness of each connection's
goroutine and of the main goroutine; strong fairness of taking a token, because
a Go channel serves its receivers in turn; and, about the environment, a client
that announced a data block sends it or hangs up, and a client reads its replies,
so that a write of a reply ends. The server itself sets no deadline on reads or
writes: without that assumption one client can keep a token for ever.
`hstore`: weak fairness of each step of the reload handler, a goroutine that waits
for nobody; nothing is assumed of requests, loops and gcs.

## 4. Findings

One disagreement between the code and what its comments and tests say has a run
of its own, `gc_race`: `UpdateHtreePos` looks an item up and stores it in two
steps, and a set in between is undone. `PROJECT.json` quotes the lines.

Others are stated in the modules, under the heading "What should hold and does
not", or show when a run is given another instance. TLC refutes each in seconds
in the instance named here, which differs from the run's only in what is given:

| Property | Instance | What happens |
|---|---|---|
| `DataStore!NoFatalf` | `datastore`, 3 chunks, no restart | `getDiskFileSize` reads buffer and size without the lock; an append in between makes `flush` stop the server over a file that is right (`datachunk.go:82`) |
| `DataStore!NothingLostAtClose` | `datastore`, 3 chunks, no restart | `close` flushes the head only and waits for no goroutine: the records of a rotated chunk can be lost at a graceful shutdown (`bucket.go:281`) |
| `Bucket!ReadNotStale` | `bucket_collision` | a get enters an old find into the collision table behind a concurrent set; later gets return the old value (`bucket.go:485`) |
| `Bucket!TreeNewest` | `bucket_collision`, 1 client, `CheckVHash` on, `Revs <- AnyRev`, `VerMax` 5 | a set of the value already stored, with an explicit revision, of a key found through the collision table stores that key's old position in the tree, behind newer records of the other key (`bucket.go:372`) |
| `Bucket!PlainSetLives` | `bucket`, `Revs <- TopRev` | the version after the largest int32 is negative: a plain set deletes the key (`bucket.go:328`) |
| `Bucket!DeletedOnRecord` | `bucket`, `Vhash <- ZeroHash` | the delete of a value whose 16-bit hash is 0 writes no tombstone (`bucket.go:368`) |
| `GC!RecoverableAlways` | `gc_race`, 5 writes | a chunk rewritten in place keeps its old tail while later chunks are already removed; a crash then revives overwritten or deleted records, where a test expects a deleted key to stay deleted (`datachunk.go:208`, `hstore_test.go:1384`) |
| `GC!CancelLosesNothing` | `gc_race` | a cancel that arrives before the first chunk is read finds that chunk open for rewriting at offset 0: `endGCWriting` truncates it to nothing (`gc.go:249`). A gc that ends with an error takes the same way out: of a chunk it was rewriting in place the records it has not read yet are cut off (`gc.go:262`, `gc.go:271`, `gc.go:337`) |
| `GC!ReadNeverFails` | `gc_race` | a get that looked its position up before gc moved the record fails (`bucket.go:434`) |
| `GC!ReadReturnsWritten` | `gc_race` | such a get takes the version from the tree item and the empty body from a tombstone that gc moved there (`bucket.go:442`) |
| `Server!AckedSurvives` | `server_live` | `Serve` gives up waiting and the store is closed under running requests: a set is acknowledged and lost (`server.go:315`). The same happens when `Accept` fails: `Serve` returns at once and `Main` closes the store (`server.go:281`, `gobeansdb.go:90`; the action `AcceptFails` of `server`) |
| `Server!RepliesAlwaysMatch` | `server_live` | the answer of a process timeout is prepared and never written: replies shift (`server.go:166`); the data block of a set refused at its line is read as the next command (`protocol.go:200`), and a data block that is too short takes the beginning of the next command with it (`protocol.go:233`) |
| `Server!CountersAlwaysSettle` | `server_live` | the buffer of a set that ended in a receive timeout stays counted (`server.go:125`) |
| `Server!CountersSettle` | `server`, with kinds `twice`, `append`, `appendq`, `decr`, `incrold` or `incrnan` | a repeated key in a get, append, decr, incr of a present number or by a non-number leave buffers counted (`gobeansdb/store.go:198`, `bucket.go:541`) |
| `Hints!RecoveredAlways` | `hints` | hint files and the tree may be dumped before their data is flushed; after a crash `checkHintWithData` only tests whether hints fall short of the data, and the tree keeps positions beyond the end of the file (`bucket.go:160`). A tree file numbered behind a hint file that could not be written skips hint files that were rebuilt meanwhile (`bucket.go:219`) |
| `Hints!AllWithinReach` | `hints` | `loadHintsByChunk` does not raise `maxChunkID`: after a restart `getItem` looks only at chunks up to the last one set or rebuilt (`hint.go:574`) |
| `Hints!NoDumpPanic` | `hints` | `close` and the dumper choose the same split; the second finds its buffer gone and panics, in `close` without a recover (`hint.go:363`) |
| `HTree!LoadedExact` | `htree` | `dump` writes the nodes and then the leaves without the mutex; a set in between gives a file whose nodes do not fit its leaves, and after a restart the differences carry the error on (`htree.go:166`) |
| `HTree!UpperAlwaysExact` | `htree` | `ListUpper` reads a root's hash and count after `Update` has released the mutex; a listing in between has the root half added up (`hstore.go:204`) |
| `HStore!AckedAlwaysKept` | `hstore` | a set that has passed the check when its bucket is closed lands in a buffer that is released; and a reload after a failed one opens the buckets that the failed one loaded again, because their stat is 2 and not 1, and drops their buffers (`hstore.go:507`, `hstore.go:483`) |
| `HStore!AckedIsStored` | `hstore` | a set for a bucket that is not served is dropped and answered like one that was stored (`hstore.go:375`) |
| `HStore!OneGC` | `hstore` | two gc requests both pass before the first goroutine has registered (`hstore.go:303`) |
| `HStore!NeverDies` | `hstore` | loops and gcs use the pointers of a bucket that was released; `Close` of a bucket whose open failed dumps a tree that is not there (`hstore.go:166`, `bucket.go:297`) |
| `Collision!NoneCollectedAlways` | `collision` | `hintChunk.getItemCollision` lets a lower split without the hash overwrite the answer of the one above it, so that a newest record is collected although the hints were merged; the comment promises "so will not wrongly GC a collision record" (`hint.go:607`, `gc.go:105`) |
| `Collision!NoneCollected` | `collision`, `Merges = {FALSE}` | without a merge, the default of the web handler, the tree item of another key decides (`web.go:366`) |
| `Collision!ReadsNewestAlways` | `collision` | gc keeps an old record on the guess of `gc.go:299` and points the tree at it; a key whose newest hint is still in a buffer at the merge, because it was set after the split was closed, gets its old position into the table (`gc.go:112`); a get between `ClearChunk` and the copy enters an older record (`gc.go:261`) |
| action `Collision!GCMergeFails` | `collision` | `Merge` stops at a hint file it cannot read, or panics over one without an item; its error is not looked at, what it has put into the table until then stays, old positions among it, and gc runs as if the hints were merged (`gc.go:112`, `hintmerge.go:106`) |
| `Collision!YamlFresh` | `collision` | `collision.yaml` is written by merges and by close only; after a crash the old table comes before the tree (`bucket.go:173`) |
| `Collision!GCSurvives` | `collision` | the hash is in the table and the key is not: `getCollisionGC` dereferences nil and the process ends (`hint.go:719`) |
| `Server!DrainedIsQuiet` | `server`, `Addr <- OneAddr`, no symmetry | `conns` is keyed by the remote address: a connection that reuses it is deleted with its predecessor, and the store closes under it (`server.go:301`) |
| action `Hints!LookupPanics` | `hints` | `dump` drops the buffer without the chunk's lock, between the test and the use in `getMemOnly`: the request panics and is answered with an error (`hint.go:367`) |
| action `Hints!BuildDies` | `hints` | `open` builds missing hints from the data; when it cannot write one the split has no file, and the loop that follows dereferences it: the process ends (`bucket.go:223`). The goroutine that checks the chunks below the tree file shares their splits with the hint dumper and with `close`; when both dump one split the second finds its buffer gone and the process ends (`bucket.go:231`, `hint.go:363`) |

Of that goroutine the model has its result and its death, not what others see
between its items: it appends to the splits of a chunk without the lock that a
lookup or the dumper takes for them. A dump that fails in it leaves a split without
a file and without a buffer, and one that fails in `open` for splits the tree file
is numbered behind lets the process go up with such a split (`bucket.go:219`); both
are left out. So is a `beginGCWriting` that fails for gc's first destination: gc
returns before the deferred call is set up (`gc.go:246`), and a chunk marked as
rewritten stays so.

One oddity turns out to protect the program: `Server.Serve` returns with its
mutex locked when no connection is left, which keeps a connection accepted
before the signal from being served while the store closes (`DrainedIsQuiet`;
releasing the mutex there is the mutant that breaks it).

## 5. Proofs

Each theorem holds for every value of the constants that the module's assumption
allows (`DataStoreAssumption`, `BucketAssumption`, `GCAssumption`,
`ServerAssumption`, `HStoreAssumption`, `HintsAssumption`: sizes and bounds are natural numbers, sets
of processes are finite, there is a key) and of what it assumes by name. `PROJECT.json` lists the theorems.

### `DataStoreProofs`: any number of chunks, chunk size, record sizes, records, restarts

| Theorem | States | Rests on |
|---|---|---|
| `Typing`, `Stored`, `Readable`, `Meets` | `TypeOK`, `StoredWhereIndexed`, `ReadCorrect`, `BufferMeetsFile` | `IInv` |
| `Sealed` | `TornFileSealed` | `IInv`, `SealInv` |
| `RotatedIsFlushed` | `RotatedBufferHasFlusher` | `FlushInv` |
| `CloseFlushes` | `CloseFlushesHead` | `FlushInv` |
| `Accounted` | `WbufSizeExact` | `FlushInv` |

None is inductive alone. `IInv` adds who may hold the flush lock and in which
step (`LockInv`); that the records of a buffer lie end to end up to `writingHead`
(`BufferInv`); which chunks are empty or have no goroutine yet (`HeadInv`); what
the flush in progress has counted and holds (`WriterInv`); that a file ends where
the unwritten part of the buffer starts (`FileInv`) and its records lie inside it
(`ContentInv`); and what a reader knows between its two steps (`ReadInv`): the
record it did not find in the buffer is in the file already. The last is the heart
of `Readable`: trimming happens after the records are on disk, and nothing is
taken out of a file. `SealInv` says that a torn file is below the head and has no
buffer. For the theorems about goroutines, `FlushInv` adds that a flush counts
exactly what it has copied and will drop (`FlushedInv`), that the goroutine of a
rotated chunk copies all of its buffer (`RotatedInv`), what `Bucket.close` still
has to flush (`CloseInv`), and that `wbufSize` is the sum of what is buffered (`SumInv`): `flush` returns
early when `wbufSize` is 0, and only the sum shows that this loses nothing. The
sum is stated by the existence of its prefix sums; `Accounted` shows that they are
the values of the recursive function in `WbufSizeExact`.

### `BucketProofs`: any number of clients, keys, values, records, any hashes

| Theorem | States | Assumes |
|---|---|---|
| `Typing`, `Found` | `TypeOK`, `AckedIsFound` | `HashTotal` |
| `Newest` | `TreeNewest` | `HashTotal`, `CheckVHash => OwnHash` |
| `Fresh` | `ReadNotStale` | `HashTotal`, `OwnHash` |
| `Grows`, `Atomic` | `VersionGrows`, `SetsAreAtomic` | `HashTotal`, `OwnHash`, no incr, `Slack(m)` |

`HashTotal` (`getVhash` gives every value a hash) is a fact about Go code that
returns a number. `OwnHash` (no two keys share a hash) is the normal case of
64-bit hashes; where keys do share one the properties are false, and section 4
says how. `Slack(m)` keeps the revisions that clients ask for and the number of
writes together below 2^31; at the end of int32 a version does become negative
(`PlainSetLives`). `incr` writes without the lock, which is what `raced` excludes
in the other theorems.

`IInv` says that every index entry leads to a record of its key or hash
(`IndexInv`), that what has returned is in hints and tree (`DoneInv`), and what
each request has found so far (`RequestInv`, `FloorInv`). `WriteInv` adds, for
hashes without a race, that one client writes (`OneWriter`) and that each record
is covered by the tree and by `doneTo` or belongs to that writer (`NewestInv`).
`FreshInv` follows a read from its floor to its reply. `AtomInv(m)` adds that a
set on its way to the tree carries what `Versions` makes of the item it will
replace (`PutInv`): under the lock, the item it looked up is still there, which is
why the refinement maps the whole of `checkAndSet` to the step `TreeSet`.

### `ServerProofs`: any number of connections, tokens, requests

| Theorem | States | Assumes |
|---|---|---|
| `Typing`, `Conserved` | `TypeOK`, `TokensConserved` | - |
| `InOrder` | `RepliesMatch`, for connections that are not `skewed` | - |
| `Settled` | `CountersSettle` | `Kinds \subseteq Balanced` |
| `Quiet` | `DrainedIsQuiet` | `OwnAddress` |

`Balanced` leaves out the six kinds of requests whose handlers leak (section 4); of
the other ten the run has six; a `set` goes the way of `setq` and is answered like
`unfit`, and `refused`, `incr` and `plain` are left to the theorem.
`OwnAddress` says that no two connections have the same remote address, which
section 4 shows to be needed. `TypeOK` holds because of `TokenInv`, which places
each token in the channel or with one connection (so that `RL.Put` never finds the
channel full), and `CountInv`, which bounds the counters from below by the number
of requests that hold a buffer; `BalanceInv` makes them equal. `DrainInv` says
that `Serve` has returned with the mutex locked and no connection registered.
`ReplyInv` follows each request of a connection from the stream through the
handler to its reply: requests are numbered as they are sent (`Numbers`), a data
block follows its line (`Blocks`), and the requests expected and not answered are
exactly those that wait in the stream or in the handler (`Owed`).

### `HStoreProofs`: any number of buckets, clients, reload handlers, gcs

`Typing`, `ServedIsOpen` (`ReadyIsOpen`), `Kept` (`AckedKept`), `Routed`
(`ServedIsRouted`) and `Registered` (`RegistryExact`) rest on one invariant.
While no two handlers were admitted (`OneReload`), a handler at a bucket knows
what its route says of it (`CursorInv`), the bucket it opens or closes is not
served (`WithdrawnInv`), the buckets it has passed are served as the route says
(`RouteInv`), requests and buffered records are only in buckets that are served
or have their ten seconds (`UseInv`), and an acknowledged record is in the buffer
or the file of its bucket (`KeptInv`). `GCInv` makes the registry a function of
the gcs that run.

### `GCProofs`: any number of keys, chunks, records, writes, gcs, cancels, crashes

`Typing` (`TypeOK`), `LeadsToNewest` (`TreeLeads`), `ReadsFresh` (`ReadFresh`) and
`Restarts` (`Recoverable`) rest on one invariant. `TreeLeads` says nothing of the
other copies of a record that lie in the files, and those decide where gc leads the
tree next and what a restart finds. `IInv` therefore divides the positions of the
files: `Past`, which gc has read in its source and not overwritten; `StaleTail`, the
old tail of a rewritten file; `Pending`, the record the writer has appended and not
put into the tree; and the rest, `Current`.

* `BaseInv`: gc stays below the head, nothing is stored between its destination and
  its source, the copies in a file that is being rewritten never overtake the
  reading (`ShapeInv`, `ReadInv`), and the writer's record is the last of the head
  (`WriterInv`). So a copy lands on its original, on the first `Past` position, on
  an old tail or behind the end of the file (`PlaceSlots`).
* `KeyInv(k)`, for a key outside the windows `raced` and `torn`: the tree leads to
  a current position of the record that clients know; where the key has positions
  behind that one, they are not copies gc has placed in a rewritten file (`Copied`),
  and the last of them in its chunk holds the same record (`Again`), so that gc may
  give up between any two steps (`FoundInv`); a key that is not in the tree has a tombstone as its last
  position, or nothing before gc's cursor when gc began with the first chunk, which
  is why dropping tombstones is right then (`LostInv`); while gc moves a record the
  tree leads to its old position (`MoveInv`). `Frame` says once which steps leave
  this alone.
* `IdInv`: an id names one record, and new ids are larger, so that comparing ids, as
  the properties do, compares records.
* `ReaderInv`: what lies where a get is about to read is of another key, or not
  older than what was acknowledged when it began; a copy of an older tombstone is
  never about to be placed there.

A crash keeps `KeyInv` because of `Survivor`: without an old tail, the last position
of a key is the writer's record, what clients know, or a tombstone of a deleted key;
`Restarts` is the same fact.

### `HintsProofs`: any number of keys, chunks, records, sizes of buffers, writes, restarts, failed dumps

`HintFilesExact` (`HintsExact`) rests on `CoreInv`, which is `Core` as long as no
process ended ahead of its data. `HintsExact` alone is not inductive: the next
hint file is the buffer of a split, so that the buffers must be exact, too, and
buffers and files must cut the data of a chunk at the same places. Of each chunk
`Core` says one of two things (`Kept`, `Quiet`):

* `Kept`: there are bounds `b[0] = 0, b[1], ...`, such that split `j` has, in its
  buffer or its file, the last item of each key among the records behind `b[j - 1]`
  up to `b[j]` and of no other (`Exact`), the last bound is the number of records
  that have a hint, and the files on disk are those of the splits;
* `Quiet`: the chunk is below the head and this process writes nothing to it; each
  of its splits is in a file, and the last one is blank.

In both cases its hint files satisfy `FilesOK`, which is `HintsExact` in the form
that steps preserve.

The lemmas say what the operators of the model do to bounds: `SetItem` moves the
last bound or adds one (`BoundsSet`), `SetRecords` does so record by record
(`RecordsBounds`, by induction along the data), dumping and dropping leave them
(`KeptDump`, `KeptDrop`), `CheckHint` makes them from the files (`CheckFresh`), and
an open cut short leaves some of those files (`FilesFewer`).
A file is not longer than the data it tells of unless the process ended ahead of
it: that is where `ahead` is needed.

### `RecoveryProofs`: the same instances

`OpenRecovers` (`Recovered`) rests on `RecoveryInv`: `Recovery` as long as neither
`ahead` nor `gap`. Its measure is `Covers`: a tree position stands for a record of
the key, or for a delete that is on disk, and no record of the key within given
limits is newer.

* `TreeInv` says what a tree file covers: all of the chunks before the one in its
  name, and of that one the records up to the end of the hint file in its name
  (`IdLimit`); `NameInv` that those hint files exist while the bucket runs.
* `OpenInv` moves the limits chunk by chunk while `open` applies hint files
  (`UpdatedTree`), and says that the hint files behind the tree's number, with what
  is rebuilt from data, reach the end of each chunk; `RunInv` keeps them for the
  open bucket, with the one record that is in the data and not yet in the tree.
* `RipeInv` is why the number of a new tree file is right: every split up to
  `maxDumped` is dumped, or lost (`Settled`), because `trydump` goes through the
  splits in order and two goroutines do not pass each other (`DumpInv`). A lost one
  among them is `gap`.

### `LookupProofs`: the same instances

`LookupsFresh` (`LookupFresh`) rests on `LookupInv`: as long as not `ahead`, what
`DumpInv` says of `trydump`, and while no split is `Lost`, `Lookups`.

* `FindInv`: in a chunk whose hint files are loaded, the last split that has a key
  tells of a record not older than any of the key that has a hint (`FindsAll`). It
  is weaker than `Kept` and also holds of what `CheckBehind` leaves, a chunk with
  its splits and its files one after the other (`FindsFiles`, `FindsCheck`).
* `OrderInv`: all splits before one without a buffer have a file, so that
  `getMemOnly`, which stops at the first split without a buffer, and the files
  before it are together all of them. The dump of a split in the middle would break
  this; `DumpInv` says why there is none: those before it are settled.
* `ReaderInv`: the record a lookup has to find is in its chunk or an earlier one,
  and, while it reads the files, in one of those it is going to read. Those stay,
  because splits are only appended and get a file once (`Advances`, which every step
  that does not end the process satisfies).

### Induction

The induction theorems of the library take an operator as a parameter and cannot
be used. `HintsProofs` and `DataStoreProofs` derive what they need from the
smallest element of a set of numbers that is not empty: `Least`, and `Induct`
for sets of numbers. What a recursive function computes is then proved for sets
that name the property in question; `SetRecords` and the sum in `WbufSizeExact` are
recursive functions for this reason.

### Only model-checked

* Liveness: `AppendedIsFlushed`, `ShutdownEnds`, `TokenServed`, `ReloadAgain`.
* `HTree!NodesExact`, `ListingExact`, `UpperExact`: sums of products modulo a power
  of two over the leaves below a node, which is arithmetic the provers do not do.
* `Collision!NoneCollected`, `TableExact`, `ReadsNewest`: each has a history variable
  for every way in which gc misjudges (section 3), and an invariant would have to
  carry them through a merge that is itself a fold over files.

## 6. Plan

All modules of section 2 are written, and the theorems of section 5 proved. What
would come next: a proof of `Collision!TableExact`, and a model of damaged hint
files and of the items of the goroutine behind `CheckBehind`.

## 7. Not modelled

Web handlers that only show state, reading of configuration files, logging,
quicklz and utilities have no protocol of their own. Text formatting and parsing
of commands, statistics and access logs are left out. C memory allocation is
represented by its counters only. The stream reader's search for the next valid
record behind a damaged one (`datafile.go:202`) and damaged hint files are left
out; a tree file that cannot be read is in `HTree`. The merged hint file does not
exist in the models: `dumpAndMerge` tests the dump state it has just set
(`hint.go:437`), so that the goroutine that would write one is never started. The
byte formats of leaves, hint files and tree files are left out.
