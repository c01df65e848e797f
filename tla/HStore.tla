------------------------------- MODULE HStore -------------------------------
(***************************************************************************)
(* The buckets of a node as a whole, store/hstore.go: which of them are    *)
(* served, how a new route loads and unloads them while requests, the      *)
(* background loops and gc use them (gobeansdb/web.go handleReloadRoute,   *)
(* HStore.ChangeRoute), how gcs are admitted and registered,               *)
(* and how the store is closed.  No lock protects Bucket.State, the        *)
(* pointers in Bucket or Conf.BucketsStat.                                 *)
(*                                                                         *)
(* What a bucket stores is reduced to which acknowledged records are in    *)
(* its buffer and which are in its files (modules DataStore and Bucket).   *)
(* A route is the set of buckets that it gives to this node.               *)
(***************************************************************************)
EXTENDS Integers, FiniteSets

CONSTANTS
    NumBucket,   \* Conf.NumBucket
    FirstRoutes, \* the routes that the process may start with
    Found,       \* the buckets that have data files when the process starts
    Busy,        \* bound: the buckets that requests, gcs and the loops come to
    Clients,     \* requests that may run at the same time
    Reloads,     \* handlers of /route/reload that may run at the same time
    MaxReqs,     \* bound: sets
    MaxReloads,  \* bound: reloads
    MaxGCs,      \* bound: gcs
    MaxFails     \* bound: how often Bucket.open returns an error

ASSUME HStoreAssumption ==
    /\ NumBucket \in Nat \ {0}
    /\ FirstRoutes \subseteq SUBSET (1 .. NumBucket)
    /\ Found \subseteq 1 .. NumBucket /\ Busy \subseteq 1 .. NumBucket
    /\ MaxReqs \in Nat /\ MaxReloads \in Nat /\ MaxGCs \in Nat /\ MaxFails \in Nat

Buckets == 1 .. NumBucket
GCs == 1 .. MaxGCs

\* BUCKET_STAT_EMPTY, BUCKET_STAT_NOT_EMPTY, BUCKET_STAT_READY
EMPTY == 0
NOT_EMPTY == 1
READY == 2

VARIABLES
    State,        \* Bucket.State
    BucketsStat,  \* Conf.BucketsStat
    engine,       \* the pointers of a bucket: nil, half (hints and datas only) or open
    buf,          \* records in the buffer of the data store that a bucket points at
    disk,         \* records in the files
    AllowReload,
    Route,        \* config.Route
    reload,       \* the handlers of /route/reload
    req,          \* the sets
    loops,        \* the bucket at which Flusher and HintDumper are, 0 between two
    gc,           \* the gcs
    stat,         \* GCMgr.stat: the gc of each bucket, {} for none
    status,       \* of the process: run, closing, exited or died
    closing,      \* the next bucket of HStore.Close
    acked,        \* history: records stored and acknowledged
    dropped,      \* history: records acknowledged although their bucket was not served
    spoiled,      \* history: buckets opened again while in use, or closed under a request
    doubled,      \* history: two reloads at once, two gcs of a bucket admitted at once
    failed,       \* history: the last reload failed
    reqs, reloads, gcs, fails

data == <<engine, buf, disk>>
conf == <<AllowReload, Route, reload>>
jobs == <<gc, stat>>
proc == <<status, closing>>
history == <<acked, dropped, spoiled, doubled, failed>>
counters == <<reqs, reloads, gcs, fails>>
vars == <<State, BucketsStat, data, conf, req, loops, jobs, proc, history, counters>>

Loops == {"Flusher", "HintDumper"}
IdleReload == [at |-> "idle", route |-> {}, i |-> 0]
IdleReq == [at |-> "idle", bucket |-> 1, id |-> 0]
IdleGC == [at |-> "idle", bucket |-> 1]

ReloadStates ==
    [at : {"idle", "set", "change", "open", "grace", "release", "end"},
     route : SUBSET Buckets, i : 0 .. NumBucket + 1]
Records == [bucket : Buckets, id : 1 .. MaxReqs]

Stats == {EMPTY, NOT_EMPTY, READY}

BucketsOK ==
    /\ State \in [Buckets -> Stats] /\ BucketsStat \in [Buckets -> Stats]
    /\ engine \in [Buckets -> {"nil", "half", "open"}]
    /\ buf \in [Buckets -> SUBSET (1 .. MaxReqs)]
    /\ disk \in [Buckets -> SUBSET (1 .. MaxReqs)]
HandlersOK ==
    /\ Route \subseteq Buckets
    /\ reload \in [Reloads -> ReloadStates]
RequestsOK ==
    /\ req \in [Clients -> [at : {"idle", "use"}, bucket : Buckets, id : 0 .. MaxReqs]]
    /\ \A c \in Clients : req[c].at = "use" => req[c].id # 0
    /\ loops \in [Loops -> 0 .. NumBucket]
GCsOK ==
    /\ gc \in [GCs -> [at : {"idle", "start", "run"}, bucket : Buckets]]
    /\ stat \in [Buckets -> SUBSET GCs]
HistoryOK ==
    /\ status \in {"run", "closing", "exited", "died"} /\ closing \in 1 .. NumBucket + 1
    /\ acked \subseteq Records /\ dropped \subseteq Records /\ spoiled \subseteq Buckets
CountersOK ==
    /\ reqs \in 0 .. MaxReqs /\ reloads \in 0 .. MaxReloads
    /\ gcs \in 0 .. MaxGCs /\ fails \in 0 .. MaxFails
FlagsOK == AllowReload \in BOOLEAN /\ doubled \in BOOLEAN /\ failed \in BOOLEAN

TypeOK ==
    BucketsOK /\ HandlersOK /\ RequestsOK /\ GCsOK /\ HistoryOK /\ CountersOK /\ FlagsOK

\* GetDBRouteConfig: the stats that a route asks for.
StatOf(route) == [b \in Buckets |-> IF b \in route THEN NOT_EMPTY ELSE EMPTY]

\* scanBuckets: the state of a bucket that has files, or none.
Scanned(b) == IF b \in Found THEN NOT_EMPTY ELSE EMPTY

\* NewHStore with a route: buckets that are not in it may have files.
Init ==
    /\ Route \in FirstRoutes
    /\ State = [b \in Buckets |-> IF b \in Route THEN READY ELSE Scanned(b)]
    /\ BucketsStat = StatOf(Route)
    /\ engine = [b \in Buckets |-> IF b \in Route THEN "open" ELSE "nil"]
    /\ buf = [b \in Buckets |-> {}] /\ disk = [b \in Buckets |-> {}]
    /\ AllowReload = TRUE
    /\ reload = [r \in Reloads |-> IdleReload]
    /\ req = [c \in Clients |-> IdleReq]
    /\ loops = [l \in Loops |-> 0]
    /\ gc = [g \in GCs |-> IdleGC] /\ stat = [b \in Buckets |-> {}]
    /\ status = "run" /\ closing = 1
    /\ acked = {} /\ dropped = {} /\ spoiled = {} /\ doubled = FALSE /\ failed = FALSE
    /\ reqs = 0 /\ reloads = 0 /\ gcs = 0 /\ fails = 0

Alive == status \in {"run", "closing"}

\* A panic in a goroutine that nobody recovers.
Dies ==
    /\ status' = "died"
    /\ UNCHANGED <<State, BucketsStat, data, conf, req, loops, jobs, closing, history, counters>>

-----------------------------------------------------------------------------
(* Requests *)

\* HStore.Set: the state is checked once; a set for a bucket that is not served
\* is dropped without an error.
ReqCheck(c, b) ==
    /\ status = "run" /\ req[c].at = "idle" /\ reqs < MaxReqs
    /\ reqs' = reqs + 1
    /\ IF State[b] = READY
       THEN /\ req' = [req EXCEPT ![c] = [at |-> "use", bucket |-> b, id |-> reqs']]
            /\ UNCHANGED history
       ELSE /\ dropped' = dropped \cup {[bucket |-> b, id |-> reqs']}
            /\ UNCHANGED <<req, acked, spoiled, doubled, failed>>
    /\ UNCHANGED <<State, BucketsStat, data, conf, loops, jobs, proc, reloads, gcs, fails>>

\* checkAndSet on what the bucket points at by now; a nil pointer panics and
\* the server answers with an error.
ReqUse(c) ==
    LET b == req[c].bucket
    IN  /\ Alive /\ req[c].at = "use"
        /\ IF engine[b] = "open"
           THEN /\ buf' = [buf EXCEPT ![b] = @ \cup {req[c].id}]
                /\ acked' = acked \cup {[bucket |-> b, id |-> req[c].id]}
           ELSE UNCHANGED <<buf, acked>>
        /\ req' = [req EXCEPT ![c] = IdleReq]
        /\ UNCHANGED <<State, BucketsStat, engine, disk, conf, loops, jobs, proc,
                       dropped, spoiled, doubled, failed, counters>>

InUse(b) == \E c \in Clients : req[c].at = "use" /\ req[c].bucket = b

-----------------------------------------------------------------------------
(* Flusher and HintDumper *)

\* The loops go round the buckets for ever.  The head of the body checks that
\* the pointer is not nil, or the state ...
LoopCheck(l, b) ==
    /\ Alive /\ loops[l] = 0
    /\ IF l = "Flusher" THEN engine[b] # "nil" ELSE State[b] = READY
    /\ loops' = [loops EXCEPT ![l] = b]
    /\ UNCHANGED <<State, BucketsStat, data, conf, req, jobs, proc, history, counters>>

\* ... and the rest of it reads the pointer again.
LoopUse(l) ==
    LET b == loops[l]
    IN  /\ Alive /\ b # 0 /\ engine[b] # "nil"
        /\ IF l = "Flusher"
           THEN disk' = [disk EXCEPT ![b] = @ \cup buf[b]] /\ buf' = [buf EXCEPT ![b] = {}]
           ELSE UNCHANGED <<disk, buf>>
        /\ loops' = [loops EXCEPT ![l] = 0]
        /\ UNCHANGED <<State, BucketsStat, engine, conf, req, jobs, proc, history, counters>>

LoopPanics(l) == Alive /\ loops[l] # 0 /\ engine[loops[l]] = "nil" /\ Dies

-----------------------------------------------------------------------------
(* handleReloadRoute and ChangeRoute *)

\* The flag is tested ...
ReloadAsk(r, route) ==
    /\ status = "run" /\ reload[r].at = "idle" /\ reloads < MaxReloads
    /\ AllowReload
    /\ reloads' = reloads + 1
    /\ reload' = [reload EXCEPT ![r] = [at |-> "set", route |-> route, i |-> 0]]
    /\ doubled' = (doubled \/ \E q \in Reloads : reload[q].at # "idle")
    /\ UNCHANGED <<State, BucketsStat, data, AllowReload, Route, req, loops, jobs, proc,
                   acked, dropped, spoiled, failed, reqs, gcs, fails>>

\* ... and cleared; then the request may be refused (no ZooKeeper, a version
\* that is the current one, a route that cannot be read).
ReloadSet(r) ==
    /\ Alive /\ reload[r].at = "set"
    /\ AllowReload' = FALSE
    /\ \E at \in {"change", "end"} :
          reload' = [reload EXCEPT ![r].at = at, ![r].i = IF at = "end" THEN 0 ELSE 1]
    /\ UNCHANGED <<State, BucketsStat, data, Route, req, loops, jobs, proc, history, counters>>

\* A plausible bug: only buckets that are not served yet are looked at.
OnlyLoads(b, route) == b \in route /\ BucketsStat[b] = EMPTY

\* newc != oldc
Changes(b, route) == BucketsStat[b] # StatOf(route)[b]

\* A bucket whose stat is the new one is passed over.
ReloadSkip(r) ==
    LET b == reload[r].i
    IN  /\ Alive /\ reload[r].at = "change" /\ b \in Buckets
        /\ ~Changes(b, reload[r].route)
        /\ reload' = [reload EXCEPT ![r].i = b + 1]
        /\ UNCHANGED <<State, BucketsStat, data, AllowReload, Route, req, loops, jobs, proc, history, counters>>

\* A plausible bug: the bucket is announced before it is open.
ReadyFirst(b) == State' = [State EXCEPT ![b] = READY]

\* The state of a bucket while it is opened.
StateWhileOpening(b) == UNCHANGED State

\* Hot load: Bucket.open starts with a new data store and a new hint manager; a
\* bucket that has a tree keeps it until the new one is loaded.
LoadBegin(r) ==
    LET b == reload[r].i
    IN  /\ Alive /\ reload[r].at = "change" /\ b \in Buckets
        /\ Changes(b, reload[r].route) /\ b \in reload[r].route
        /\ StateWhileOpening(b)
        /\ engine' = [engine EXCEPT ![b] = IF @ = "open" THEN "open" ELSE "half"]
        /\ buf' = [buf EXCEPT ![b] = {}]
        /\ spoiled' = IF State[b] = READY THEN spoiled \cup {b} ELSE spoiled
        /\ reload' = [reload EXCEPT ![r].at = "open"]
        /\ UNCHANGED <<BucketsStat, disk, AllowReload, Route, req, loops, jobs, proc,
                       acked, dropped, doubled, failed, counters>>

\* The bucket is open and serves.
LoadEnd(r) ==
    LET b == reload[r].i
    IN  /\ Alive /\ reload[r].at = "open"
        /\ engine' = [engine EXCEPT ![b] = "open"]
        /\ State' = [State EXCEPT ![b] = READY]
        /\ BucketsStat' = [BucketsStat EXCEPT ![b] = READY]
        /\ reload' = [reload EXCEPT ![r].at = "change", ![r].i = b + 1]
        /\ UNCHANGED <<buf, disk, AllowReload, Route, req, loops, jobs, proc, history, counters>>

\* allocBucket fails, or open does, before or after it has set the pointer to the
\* tree; ChangeRoute returns the error.
LoadFails(r) ==
    LET b == reload[r].i
    IN  /\ Alive /\ fails < MaxFails
        /\ \/ /\ reload[r].at = "change" /\ b \in Buckets
              /\ Changes(b, reload[r].route) /\ b \in reload[r].route
              /\ UNCHANGED engine
           \/ /\ reload[r].at = "open"
              /\ \E e \in {engine[b], "open"} : engine' = [engine EXCEPT ![b] = e]
        /\ fails' = fails + 1
        /\ failed' = TRUE
        /\ reload' = [reload EXCEPT ![r].at = "end", ![r].i = 0]
        /\ UNCHANGED <<State, BucketsStat, buf, disk, AllowReload, Route, req, loops, jobs, proc,
                       acked, dropped, spoiled, doubled, reqs, reloads, gcs>>

\* Hot unload: no more requests are let in; those that run have 10 seconds.
UnloadBegin(r) ==
    LET b == reload[r].i
    IN  /\ Alive /\ reload[r].at = "change" /\ b \in Buckets
        /\ Changes(b, reload[r].route) /\ b \notin reload[r].route
        /\ BucketsStat' = [BucketsStat EXCEPT ![b] = EMPTY]
        /\ State' = [State EXCEPT ![b] = EMPTY]
        /\ reload' = [reload EXCEPT ![r].at = "grace"]
        /\ UNCHANGED <<data, AllowReload, Route, req, loops, jobs, proc, history, counters>>

\* A plausible bug: the buffer is not flushed.
CloseKeepsBuffer(b) == UNCHANGED <<buf, disk>>

\* Bucket.close flushes first.
CloseFlushes(b) ==
    /\ disk' = [disk EXCEPT ![b] = @ \cup buf[b]]
    /\ buf' = [buf EXCEPT ![b] = {}]

\* Bucket.close.  A bucket without a tree panics there, or in release after its other
\* pointers were set to nil; the handler recovers.
UnloadClose(r) ==
    LET b == reload[r].i
    IN  /\ Alive /\ reload[r].at = "grace"
        /\ IF engine[b] = "nil" THEN UNCHANGED <<buf, disk>> ELSE CloseFlushes(b)
        /\ \E e \in IF engine[b] = "half" THEN {"half", "nil"} ELSE {engine[b]} :
              engine' = [engine EXCEPT ![b] = e]
        /\ spoiled' = IF InUse(b) THEN spoiled \cup {b} ELSE spoiled
        /\ failed' = (failed \/ engine[b] # "open")
        /\ reload' = IF engine[b] = "open" THEN [reload EXCEPT ![r].at = "release"]
                     ELSE [reload EXCEPT ![r].at = "end", ![r].i = 0]
        /\ UNCHANGED <<State, BucketsStat, AllowReload, Route, req, loops, jobs, proc,
                       acked, dropped, doubled, counters>>

\* Bucket.release; BucketInfo is reset, State with it.
UnloadRelease(r) ==
    LET b == reload[r].i
    IN  /\ Alive /\ reload[r].at = "release"
        /\ engine' = [engine EXCEPT ![b] = "nil"]
        /\ buf' = [buf EXCEPT ![b] = {}]
        /\ State' = [State EXCEPT ![b] = EMPTY]
        /\ reload' = [reload EXCEPT ![r].at = "change", ![r].i = b + 1]
        /\ UNCHANGED <<BucketsStat, disk, AllowReload, Route, req, loops, jobs, proc, history, counters>>

\* ChangeRoute returns without an error: the new route is the configuration.
ReloadDone(r) ==
    LET new == reload[r].route
    IN  /\ Alive /\ reload[r].at = "change" /\ reload[r].i = NumBucket + 1
        /\ BucketsStat' = StatOf(new)
        /\ Route' = new
        /\ failed' = FALSE
        /\ reload' = [reload EXCEPT ![r].at = "end", ![r].i = 0]
        /\ UNCHANGED <<State, data, AllowReload, req, loops, jobs, proc,
                       acked, dropped, spoiled, doubled, counters>>

\* A plausible bug: the flag is only set again after a reload that was not refused.
AllowAfterSuccess == AllowReload' = ~failed

\* The deferred function sets the flag whatever has happened.
AllowAgain == AllowReload' = TRUE

ReloadEnd(r) ==
    /\ Alive /\ reload[r].at = "end"
    /\ AllowAgain
    /\ reload' = [reload EXCEPT ![r] = IdleReload]
    /\ UNCHANGED <<State, BucketsStat, data, Route, req, loops, jobs, proc, history, counters>>

-----------------------------------------------------------------------------
(* HStore.GC and GCMgr.gc; module GC has CancelGC and what a gc does *)

Running(b) == {g \in GCs : gc[g].at # "idle" /\ gc[g].bucket = b}

\* A plausible bug: the registry is not looked at.
ReadyOnly(b) == State[b] = READY

\* GC refuses a bucket that is not served or has a gc.
Admits(b) == State[b] = READY /\ stat[b] = {}

\* The request is answered, the gc has yet to start.
GCAsk(b) ==
    /\ status = "run" /\ gcs < MaxGCs
    /\ Admits(b)
    /\ gcs' = gcs + 1
    /\ gc' = [gc EXCEPT ![gcs'] = [at |-> "start", bucket |-> b]]
    /\ doubled' = (doubled \/ \E h \in Running(b) : gc[h].at = "start")
    /\ UNCHANGED <<State, BucketsStat, data, conf, req, loops, stat, proc,
                   acked, dropped, spoiled, failed, reqs, reloads, fails>>

\* gc enters itself in the registry, which maps a bucket to its gc.
GCRegister(g) ==
    /\ Alive /\ gc[g].at = "start"
    /\ gc' = [gc EXCEPT ![g].at = "run"]
    /\ stat' = [stat EXCEPT ![gc[g].bucket] = {g}]
    /\ UNCHANGED <<State, BucketsStat, data, conf, req, loops, proc, history, counters>>

\* It has gone through its chunks, has seen its CancelFlag or met an error.
GCEnd(g) ==
    /\ Alive /\ gc[g].at = "run" /\ engine[gc[g].bucket] # "nil"
    /\ gc' = [gc EXCEPT ![g] = IdleGC]
    /\ stat' = [stat EXCEPT ![gc[g].bucket] = {}]
    /\ UNCHANGED <<State, BucketsStat, data, conf, req, loops, proc, history, counters>>

\* gc uses the pointers of its bucket at every step.
GCPanics(g) == Alive /\ gc[g].at = "run" /\ engine[gc[g].bucket] = "nil" /\ Dies

-----------------------------------------------------------------------------
(* The end of Main *)

\* Serve has returned, storage is nil, no request or reload can begin: HStore.Close.
\* Bucket.close of a bucket without a tree panics in dumpHtree if it has hints to tell of.
CloseBucket ==
    LET b == closing
    IN  /\ Alive /\ b \in Buckets
        /\ closing' = b + 1
        /\ IF engine[b] = "nil" THEN UNCHANGED <<buf, disk>> ELSE CloseFlushes(b)
        /\ status' \in IF engine[b] = "half" THEN {"died", "closing"} ELSE {"closing"}
        /\ spoiled' = IF InUse(b) THEN spoiled \cup {b} ELSE spoiled
        /\ UNCHANGED <<State, BucketsStat, engine, conf, req, loops, jobs,
                       acked, dropped, doubled, failed, counters>>

Exit ==
    /\ status = "closing" /\ closing = NumBucket + 1
    /\ status' = "exited"
    /\ UNCHANGED <<State, BucketsStat, data, conf, req, loops, jobs, closing, history, counters>>

ReloadStep(r) ==
    \/ ReloadSet(r) \/ ReloadSkip(r) \/ LoadBegin(r) \/ LoadEnd(r) \/ LoadFails(r)
    \/ UnloadBegin(r) \/ UnloadClose(r) \/ UnloadRelease(r) \/ ReloadDone(r) \/ ReloadEnd(r)

Next ==
    \/ \E c \in Clients : ReqUse(c) \/ \E b \in Busy : ReqCheck(c, b)
    \/ \E l \in Loops : LoopUse(l) \/ LoopPanics(l) \/ \E b \in Busy : LoopCheck(l, b)
    \/ \E r \in Reloads : ReloadStep(r) \/ \E route \in SUBSET Buckets : ReloadAsk(r, route)
    \/ \E g \in GCs : GCRegister(g) \/ GCEnd(g) \/ GCPanics(g)
    \/ \E b \in Busy : GCAsk(b)
    \/ CloseBucket \/ Exit

Spec == Init /\ [][Next]_vars

\* Go runs every goroutine that can run; a request for the web server's
\* handler ends whatever the other goroutines do.
FairSpec == Spec /\ \A r \in Reloads : WF_vars(ReloadStep(r))

-----------------------------------------------------------------------------
(* Properties *)

Reloading == \E r \in Reloads : reload[r].at # "idle"

\* A bucket that lets requests in is open, while routes come and go and also
\* after one that failed: it is opened before it is announced and withdrawn
\* before it is closed.
ReadyIsOpen ==
    Alive /\ ~doubled => \A b \in Buckets \ spoiled : State[b] = READY => engine[b] = "open"

\* A record that was stored and acknowledged is in the buffer or in the files
\* of its bucket however often it is unloaded and loaded, and in the files when
\* the process has ended.
AckedKept ==
    ~doubled /\ status # "died" =>
        \A a \in acked : a.bucket \notin spoiled =>
            a.id \in disk[a.bucket] \/ (Alive /\ a.id \in buf[a.bucket])

\* After a reload that succeeded the buckets that are served are those of the
\* route, also when the one before it failed halfway.
ServedIsRouted ==
    Alive /\ ~Reloading /\ ~failed /\ ~doubled => {b \in Buckets : State[b] = READY} = Route

\* A bucket has one gc at most, and it is in the registry as long as it runs:
\* CancelGC reaches it and a second one is refused.
RegistryExact ==
    Alive /\ ~doubled => \A b \in Buckets :
        /\ Cardinality(Running(b)) <= 1
        /\ stat[b] = {g \in Running(b) : gc[g].at = "run"}

\* A reload that has begun ends, and the next one is let in.
ReloadAgain == (Alive /\ ~AllowReload) ~> (AllowReload \/ ~Alive)

-----------------------------------------------------------------------------
(* What should hold and does not (README, section 4) *)

\* No reload loses a record that was stored and acknowledged.
AckedAlwaysKept ==
    Alive /\ ~doubled => \A a \in acked : a.id \in disk[a.bucket] \cup buf[a.bucket]

\* A set that is acknowledged is stored.
AckedIsStored == dropped = {}

\* A bucket has one gc at most.
OneGC == \A b \in Buckets : Cardinality(Running(b)) <= 1

\* The process ends when it is told to.
NeverDies == status # "died"
=============================================================================
