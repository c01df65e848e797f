---------------------------- MODULE HStoreProofs ----------------------------
(***************************************************************************)
(* Proofs about HStore for any number of buckets, requests, reloads and    *)
(* gcs that run at the same time.                                          *)
(***************************************************************************)
EXTENDS HStore, FiniteSetTheorems, TLAPS

Walking == {"change", "open", "grace", "release"}

\* Where a handler is, the bucket at which it is and what its route says of it.
CursorInv ==
    \A r \in Reloads :
        /\ reload[r].at = "change" => reload[r].i \in 1 .. NumBucket + 1
        /\ reload[r].at \in {"open", "grace", "release"} => reload[r].i \in Buckets
        /\ reload[r].at = "open" => reload[r].i \in reload[r].route
        /\ reload[r].at \in {"grace", "release"} => reload[r].i \notin reload[r].route

\* Unless the flag was tested twice before it was cleared, one handler is at work.
OneReload ==
    ~doubled => \A q, r \in Reloads :
        reload[q].at # "idle" /\ reload[r].at # "idle" => q = r

\* A bucket is not served while it is opened, closed or released, unless it is
\* opened a second time.
WithdrawnInv ==
    ~doubled => \A r \in Reloads :
        /\ reload[r].at = "open" => State[reload[r].i] # READY \/ reload[r].i \in spoiled
        /\ reload[r].at \in {"grace", "release"} => State[reload[r].i] = EMPTY

OpenInv == ~doubled => \A b \in Buckets \ spoiled : State[b] = READY => engine[b] = "open"

\* The configuration knows which buckets are served, and those that the handler
\* has passed are served as its route says.
RouteInv ==
    ~doubled =>
        /\ \A b \in Buckets : State[b] = READY <=> BucketsStat[b] # EMPTY
        /\ \A r \in Reloads : reload[r].at \in Walking =>
              \A b \in Buckets : b < reload[r].i => (State[b] = READY <=> b \in reload[r].route)
        /\ ~failed /\ (\A r \in Reloads : reload[r].at \notin Walking) =>
              \A b \in Buckets : State[b] = READY <=> b \in Route

Grace(b) == \E r \in Reloads : reload[r].at = "grace" /\ reload[r].i = b

\* Requests are inside a bucket, and records in its buffer, only while it is
\* served or has its 10 seconds, and not after HStore.Close has closed it.
UseInv ==
    ~doubled => \A b \in Buckets \ spoiled :
        /\ InUse(b) => State[b] = READY \/ Grace(b)
        /\ buf[b] # {} => State[b] = READY \/ Grace(b)
        /\ b < closing => ~InUse(b) /\ buf[b] = {}

\* A bucket without a data store has no buffer; the store is closed at the end.
EndInv ==
    /\ \A b \in Buckets : engine[b] = "nil" => buf[b] = {}
    /\ status = "run" => closing = 1
    /\ status = "exited" => closing = NumBucket + 1

KeptInv ==
    ~doubled => \A a \in acked : a.bucket \notin spoiled =>
        a.id \in disk[a.bucket] \/ a.id \in buf[a.bucket]

\* gcs are numbered as they are asked for.
GCInv ==
    /\ \A g \in GCs : g > gcs => gc[g].at = "idle"
    /\ ~doubled => \A b \in Buckets :
          /\ \A g, h \in Running(b) : g = h
          /\ stat[b] = {g \in Running(b) : gc[g].at = "run"}

IInv ==
    /\ TypeOK
    /\ CursorInv /\ OneReload /\ WithdrawnInv /\ OpenInv /\ RouteInv
    /\ EndInv /\ UseInv /\ KeptInv /\ GCInv

-----------------------------------------------------------------------------
(* The steps of the process, by who takes them *)

RequestStep == \E c \in Clients : ReqUse(c) \/ \E b \in Busy : ReqCheck(c, b)
LoopStep == \E l \in Loops : LoopUse(l) \/ LoopPanics(l) \/ \E b \in Busy : LoopCheck(l, b)
HandlerStep == \E r \in Reloads : ReloadStep(r) \/ \E route \in SUBSET Buckets : ReloadAsk(r, route)
GCStep == \/ \E g \in GCs : GCRegister(g) \/ GCEnd(g) \/ GCPanics(g)
          \/ \E b \in Busy : GCAsk(b)
EndStep == CloseBucket \/ Exit

\* Every step is one of these or changes nothing.
LEMMA Steps ==
    [Next]_vars => RequestStep \/ LoopStep \/ HandlerStep \/ GCStep \/ EndStep \/ UNCHANGED vars
BY DEF Next, RequestStep, LoopStep, HandlerStep, GCStep, EndStep

\* Each part of the types is about its own variables.
LEMMA TypeFrame ==
    /\ BucketsOK /\ UNCHANGED <<State, BucketsStat, engine, buf, disk>> => BucketsOK'
    /\ HandlersOK /\ UNCHANGED <<Route, reload>> => HandlersOK'
    /\ RequestsOK /\ UNCHANGED <<req, loops>> => RequestsOK'
    /\ GCsOK /\ UNCHANGED <<gc, stat>> => GCsOK'
    /\ HistoryOK /\ UNCHANGED <<status, closing, acked, dropped, spoiled>> => HistoryOK'
    /\ CountersOK /\ UNCHANGED <<reqs, reloads, gcs, fails>> => CountersOK'
    /\ FlagsOK /\ UNCHANGED <<AllowReload, doubled, failed>> => FlagsOK'
BY DEF BucketsOK, HandlersOK, RequestsOK, GCsOK, HistoryOK, CountersOK, FlagsOK

\* A handler goes to another place or bucket.
LEMMA HandlerMoves ==
    ASSUME HandlersOK, NEW r \in Reloads, NEW i \in 0 .. NumBucket + 1,
           NEW a \in {"idle", "set", "change", "open", "grace", "release", "end"},
           reload' = [reload EXCEPT ![r].at = a, ![r].i = i]
    PROVE  reload' \in [Reloads -> ReloadStates]
BY DEF HandlersOK, ReloadStates

\* The initial state is well typed.
LEMMA InitTypeOK == Init => TypeOK
<1> SUFFICES ASSUME Init PROVE TypeOK
  OBVIOUS
<1>1. Route \subseteq Buckets /\ 1 \in Buckets
  BY HStoreAssumption DEF Init, Buckets
<1>2. BucketsOK
  BY DEF Init, BucketsOK, StatOf, Scanned, Stats
<1>3. HandlersOK
  BY <1>1, HStoreAssumption DEF Init, HandlersOK, ReloadStates, IdleReload
<1>4. RequestsOK
  BY <1>1, HStoreAssumption DEF Init, RequestsOK, IdleReq
<1>5. GCsOK
  BY <1>1 DEF Init, GCsOK, IdleGC
<1>6. HistoryOK /\ CountersOK
  BY HStoreAssumption DEF Init, HistoryOK, CountersOK
<1>7. FlagsOK
  BY DEF Init, FlagsOK
<1> QED BY <1>2, <1>3, <1>4, <1>5, <1>6, <1>7 DEF TypeOK

\* Requests and loops keep the types.
LEMMA RequestTypeOK == TypeOK /\ (RequestStep \/ LoopStep) => TypeOK'
<1> SUFFICES ASSUME TypeOK, RequestStep \/ LoopStep PROVE TypeOK'
  OBVIOUS
<1>1. ASSUME NEW c \in Clients, ReqUse(c) PROVE TypeOK'
  <2> DEFINE b == req[c].bucket
  <2>0. b \in Buckets /\ req[c].id \in 1 .. MaxReqs
    BY <1>1, HStoreAssumption DEF TypeOK, RequestsOK, ReqUse
  <2>1. BucketsOK'
    <3>1. buf' \in [Buckets -> SUBSET (1 .. MaxReqs)]
      BY <1>1, <2>0 DEF TypeOK, BucketsOK, ReqUse
    <3> QED BY <1>1, <3>1 DEF TypeOK, BucketsOK, ReqUse
  <2>2. RequestsOK'
    BY <1>1, HStoreAssumption DEF TypeOK, RequestsOK, ReqUse, IdleReq, Records, Buckets, data, conf, jobs, proc, history, counters
  <2>3. HistoryOK'
    BY <1>1, <2>0 DEF TypeOK, HistoryOK, ReqUse, Records, proc
  <2> QED BY <1>1, <2>1, <2>2, <2>3, TypeFrame DEF TypeOK, ReqUse, IdleReq, Records, Buckets, data, conf, jobs, proc, history, counters
<1>2. ASSUME NEW c \in Clients, NEW b \in Busy, ReqCheck(c, b) PROVE TypeOK'
  <2>0. b \in Buckets /\ reqs' \in 1 .. MaxReqs
    BY <1>2, HStoreAssumption DEF TypeOK, CountersOK, ReqCheck, Buckets
  <2>1. RequestsOK'
    BY <1>2, <2>0 DEF TypeOK, RequestsOK, ReqCheck
  <2>2. HistoryOK'
    BY <1>2, <2>0 DEF TypeOK, HistoryOK, ReqCheck, Records, history, proc
  <2>3. CountersOK'
    BY <1>2, HStoreAssumption DEF TypeOK, CountersOK, ReqCheck, Records, Buckets, data, conf, jobs, proc, history, counters
  <2>4. FlagsOK'
    BY <1>2, HStoreAssumption DEF TypeOK, FlagsOK, ReqCheck, Records, Buckets, data, conf, jobs, proc, history, counters
  <2> QED BY <1>2, <2>1, <2>2, <2>3, <2>4, TypeFrame DEF TypeOK, ReqCheck, Records, Buckets, data, conf, jobs, proc, history, counters
<1>3. ASSUME NEW l \in Loops, LoopUse(l) PROVE TypeOK'
  <2>1. BucketsOK'
    <3>1. loops[l] \in Buckets
      BY <1>3, HStoreAssumption DEF TypeOK, RequestsOK, LoopUse, Buckets
    <3>2. disk' \in [Buckets -> SUBSET (1 .. MaxReqs)] /\ buf' \in [Buckets -> SUBSET (1 .. MaxReqs)]
      BY <1>3, <3>1 DEF TypeOK, BucketsOK, LoopUse
    <3> QED BY <1>3, <3>2 DEF TypeOK, BucketsOK, LoopUse
  <2>2. RequestsOK'
    BY <1>3, HStoreAssumption DEF TypeOK, RequestsOK, LoopUse, Buckets, data, conf, jobs, proc, history, counters
  <2> QED BY <1>3, <2>1, <2>2, TypeFrame DEF TypeOK, LoopUse, Buckets, data, conf, jobs, proc, history, counters
<1>4. ASSUME NEW l \in Loops, LoopPanics(l) PROVE TypeOK'
  <2>1. HistoryOK'
    BY <1>4, HStoreAssumption DEF TypeOK, HistoryOK, LoopPanics, Dies, data, conf, jobs, proc, history, counters
  <2> QED BY <1>4, <2>1, TypeFrame DEF TypeOK, LoopPanics, Dies, data, conf, jobs, proc, history, counters
<1>5. ASSUME NEW l \in Loops, NEW b \in Busy, LoopCheck(l, b) PROVE TypeOK'
  <2>1. RequestsOK'
    BY <1>5, HStoreAssumption DEF TypeOK, RequestsOK, LoopCheck, Buckets, data, conf, jobs, proc, history, counters
  <2> QED BY <1>5, <2>1, TypeFrame DEF TypeOK, LoopCheck, Buckets, data, conf, jobs, proc, history, counters
<1> QED BY <1>1, <1>2, <1>3, <1>4, <1>5 DEF RequestStep, LoopStep

\* The handlers of /route/reload keep the types.
LEMMA HandlerTypeOK == TypeOK /\ CursorInv /\ HandlerStep => TypeOK'
<1> SUFFICES ASSUME TypeOK, CursorInv, NEW r \in Reloads,
                    ReloadStep(r) \/ \E route \in SUBSET Buckets : ReloadAsk(r, route)
             PROVE  TypeOK'
  BY DEF HandlerStep
<1>1. ASSUME NEW route \in SUBSET Buckets, ReloadAsk(r, route) PROVE TypeOK'
  <2>1. HandlersOK'
    BY <1>1, HStoreAssumption DEF TypeOK, HandlersOK, ReloadAsk, ReloadStates, data, conf, jobs, proc, history, counters
  <2>2. CountersOK'
    BY <1>1, HStoreAssumption DEF TypeOK, CountersOK, ReloadAsk, ReloadStates, data, conf, jobs, proc, history, counters
  <2>3. FlagsOK'
    BY <1>1, HStoreAssumption DEF TypeOK, FlagsOK, ReloadAsk, ReloadStates, data, conf, jobs, proc, history, counters
  <2> QED BY <1>1, <2>1, <2>2, <2>3, TypeFrame DEF TypeOK, ReloadAsk, ReloadStates, data, conf, jobs, proc, history, counters
<1>2. CASE ReloadSet(r)
  <2>1. HandlersOK'
    <3>1. PICK a \in {"change", "end"} :
             reload' = [reload EXCEPT ![r].at = a, ![r].i = IF a = "end" THEN 0 ELSE 1]
      BY <1>2 DEF ReloadSet
    <3>2. (IF a = "end" THEN 0 ELSE 1) \in 0 .. NumBucket + 1
      BY HStoreAssumption
    <3>3. reload' \in [Reloads -> ReloadStates]
      BY <3>1, <3>2, HandlerMoves DEF TypeOK
    <3> QED BY <1>2, <3>3 DEF TypeOK, HandlersOK, ReloadSet
  <2>2. FlagsOK'
    BY <1>2, HStoreAssumption DEF TypeOK, FlagsOK, ReloadSet, ReloadStates, data, conf, jobs, proc, history, counters
  <2> QED BY <1>2, <2>1, <2>2, TypeFrame DEF TypeOK, ReloadSet, ReloadStates, data, conf, jobs, proc, history, counters
<1>3. CASE ReloadSkip(r)
  <2>1. HandlersOK'
    BY <1>3, HStoreAssumption DEF TypeOK, HandlersOK, ReloadSkip, ReloadStates, Buckets, data, conf, jobs, proc, history, counters
  <2> QED BY <1>3, <2>1, TypeFrame DEF TypeOK, ReloadSkip, ReloadStates, Buckets, data, conf, jobs, proc, history, counters
<1>4. CASE LoadBegin(r)
  <2>1. BucketsOK'
    BY <1>4, HStoreAssumption DEF TypeOK, BucketsOK, LoadBegin, StateWhileOpening, ReloadStates, data, conf, jobs, proc, history, counters
  <2>2. HandlersOK'
    BY <1>4, HStoreAssumption DEF TypeOK, HandlersOK, LoadBegin, StateWhileOpening, ReloadStates, data, conf, jobs, proc, history, counters
  <2>3. HistoryOK'
    BY <1>4, HStoreAssumption DEF TypeOK, HistoryOK, LoadBegin, StateWhileOpening, ReloadStates, data, conf, jobs, proc, history, counters
  <2> QED BY <1>4, <2>1, <2>2, <2>3, TypeFrame DEF TypeOK, LoadBegin, StateWhileOpening, ReloadStates, data, conf, jobs, proc, history, counters
<1>5. CASE LoadEnd(r)
  <2>1. BucketsOK'
    BY <1>5, HStoreAssumption DEF TypeOK, BucketsOK, LoadEnd, CursorInv, Stats, ReloadStates, Buckets, data, conf, jobs, proc, history, counters
  <2>2. HandlersOK'
    BY <1>5, HStoreAssumption DEF TypeOK, HandlersOK, LoadEnd, CursorInv, Stats, ReloadStates, Buckets, data, conf, jobs, proc, history, counters
  <2> QED BY <1>5, <2>1, <2>2, TypeFrame DEF TypeOK, LoadEnd, CursorInv, Stats, ReloadStates, Buckets, data, conf, jobs, proc, history, counters
<1>6. CASE LoadFails(r)
  <2>1. BucketsOK'
    BY <1>6, HStoreAssumption DEF TypeOK, BucketsOK, LoadFails, CursorInv, ReloadStates, data, conf, jobs, proc, history, counters
  <2>2. HandlersOK'
    <3>1. 0 \in 0 .. NumBucket + 1
      BY HStoreAssumption
    <3>2. reload' \in [Reloads -> ReloadStates]
      BY <1>6, <3>1, HandlerMoves DEF TypeOK, LoadFails
    <3> QED BY <1>6, <3>2 DEF TypeOK, HandlersOK, LoadFails
  <2>3. CountersOK'
    BY <1>6, HStoreAssumption DEF TypeOK, CountersOK, LoadFails, CursorInv, ReloadStates, data, conf, jobs, proc, history, counters
  <2>4. FlagsOK'
    BY <1>6, HStoreAssumption DEF TypeOK, FlagsOK, LoadFails, CursorInv, ReloadStates, data, conf, jobs, proc, history, counters
  <2> QED BY <1>6, <2>1, <2>2, <2>3, <2>4, TypeFrame DEF TypeOK, LoadFails, CursorInv, ReloadStates, data, conf, jobs, proc, history, counters
<1>7. CASE UnloadBegin(r)
  <2>1. BucketsOK'
    BY <1>7, HStoreAssumption DEF TypeOK, BucketsOK, UnloadBegin, Stats, ReloadStates, data, conf, jobs, proc, history, counters
  <2>2. HandlersOK'
    BY <1>7, HStoreAssumption DEF TypeOK, HandlersOK, UnloadBegin, Stats, ReloadStates, data, conf, jobs, proc, history, counters
  <2> QED BY <1>7, <2>1, <2>2, TypeFrame DEF TypeOK, UnloadBegin, Stats, ReloadStates, data, conf, jobs, proc, history, counters
<1>8. CASE UnloadClose(r)
  <2>1. BucketsOK'
    BY <1>8, HStoreAssumption DEF TypeOK, BucketsOK, UnloadClose, CursorInv, CloseFlushes, ReloadStates, data, conf, jobs, proc, history, counters
  <2>2. HandlersOK'
    <3>1. 0 \in 0 .. NumBucket + 1
      BY HStoreAssumption
    <3>2. CASE reload' = [reload EXCEPT ![r].at = "release"]
      BY <1>8, <3>2 DEF TypeOK, HandlersOK, UnloadClose, ReloadStates
    <3>3. CASE reload' = [reload EXCEPT ![r].at = "end", ![r].i = 0]
      <4>1. reload' \in [Reloads -> ReloadStates]
        BY <3>1, <3>3, HandlerMoves DEF TypeOK
      <4> QED BY <1>8, <4>1 DEF TypeOK, HandlersOK, UnloadClose
    <3> QED BY <1>8, <3>2, <3>3 DEF UnloadClose
  <2>3. HistoryOK'
    BY <1>8, HStoreAssumption DEF TypeOK, HistoryOK, UnloadClose, CursorInv, CloseFlushes, ReloadStates, data, conf, jobs, proc, history, counters
  <2>4. FlagsOK'
    BY <1>8, HStoreAssumption DEF TypeOK, FlagsOK, UnloadClose, CursorInv, CloseFlushes, ReloadStates, data, conf, jobs, proc, history, counters
  <2> QED BY <1>8, <2>1, <2>2, <2>3, <2>4, TypeFrame DEF TypeOK, UnloadClose, CursorInv, CloseFlushes, ReloadStates, data, conf, jobs, proc, history, counters
<1>9. CASE UnloadRelease(r)
  <2>1. BucketsOK'
    BY <1>9, HStoreAssumption DEF TypeOK, BucketsOK, UnloadRelease, CursorInv, Stats, ReloadStates, Buckets, data, conf, jobs, proc, history, counters
  <2>2. HandlersOK'
    BY <1>9, HStoreAssumption DEF TypeOK, HandlersOK, UnloadRelease, CursorInv, Stats, ReloadStates, Buckets, data, conf, jobs, proc, history, counters
  <2> QED BY <1>9, <2>1, <2>2, TypeFrame DEF TypeOK, UnloadRelease, CursorInv, Stats, ReloadStates, Buckets, data, conf, jobs, proc, history, counters
<1>10. CASE ReloadDone(r)
  <2>1. BucketsOK'
    BY <1>10, HStoreAssumption DEF TypeOK, BucketsOK, ReloadDone, StatOf, Stats, ReloadStates, data, conf, jobs, proc, history, counters
  <2>2. HandlersOK'
    BY <1>10, HStoreAssumption DEF TypeOK, HandlersOK, ReloadDone, StatOf, Stats, ReloadStates, data, conf, jobs, proc, history, counters
  <2>3. FlagsOK'
    BY <1>10, HStoreAssumption DEF TypeOK, FlagsOK, ReloadDone, StatOf, Stats, ReloadStates, data, conf, jobs, proc, history, counters
  <2> QED BY <1>10, <2>1, <2>2, <2>3, TypeFrame DEF TypeOK, ReloadDone, StatOf, Stats, ReloadStates, data, conf, jobs, proc, history, counters
<1>11. CASE ReloadEnd(r)
  <2>1. HandlersOK'
    BY <1>11, HStoreAssumption DEF TypeOK, HandlersOK, ReloadEnd, AllowAgain, IdleReload, ReloadStates, data, conf, jobs, proc, history, counters
  <2>2. FlagsOK'
    BY <1>11, HStoreAssumption DEF TypeOK, FlagsOK, ReloadEnd, AllowAgain, IdleReload, ReloadStates, data, conf, jobs, proc, history, counters
  <2> QED BY <1>11, <2>1, <2>2, TypeFrame DEF TypeOK, ReloadEnd, AllowAgain, IdleReload, ReloadStates, data, conf, jobs, proc, history, counters
<1> QED
  BY <1>1, <1>2, <1>3, <1>4, <1>5, <1>6, <1>7, <1>8, <1>9, <1>10, <1>11 DEF ReloadStep

\* gcs and the end of the process keep the types.
LEMMA GCTypeOK == TypeOK /\ (GCStep \/ EndStep) => TypeOK'
<1> SUFFICES ASSUME TypeOK, GCStep \/ EndStep PROVE TypeOK'
  OBVIOUS
<1>1. ASSUME NEW g \in GCs, GCRegister(g) PROVE TypeOK'
  <2>1. GCsOK'
    BY <1>1, HStoreAssumption DEF TypeOK, GCsOK, GCRegister, GCs, data, conf, jobs, proc, history, counters
  <2> QED BY <1>1, <2>1, TypeFrame DEF TypeOK, GCRegister, GCs, data, conf, jobs, proc, history, counters
<1>2. ASSUME NEW g \in GCs, GCEnd(g) PROVE TypeOK'
  <2>1. GCsOK'
    BY <1>2, HStoreAssumption DEF TypeOK, GCsOK, GCEnd, GCs, IdleGC, Buckets, data, conf, jobs, proc, history, counters
  <2> QED BY <1>2, <2>1, TypeFrame DEF TypeOK, GCEnd, GCs, IdleGC, Buckets, data, conf, jobs, proc, history, counters
<1>3. ASSUME NEW g \in GCs, GCPanics(g) PROVE TypeOK'
  <2>1. HistoryOK'
    BY <1>3, HStoreAssumption DEF TypeOK, HistoryOK, GCPanics, Dies, data, conf, jobs, proc, history, counters
  <2> QED BY <1>3, <2>1, TypeFrame DEF TypeOK, GCPanics, Dies, data, conf, jobs, proc, history, counters
<1>4. ASSUME NEW b \in Busy, GCAsk(b) PROVE TypeOK'
  <2>1. GCsOK'
    BY <1>4, HStoreAssumption DEF TypeOK, GCsOK, GCAsk, GCs, Buckets, data, conf, jobs, proc, history, counters
  <2>2. CountersOK'
    BY <1>4, HStoreAssumption DEF TypeOK, CountersOK, GCAsk, GCs, Buckets, data, conf, jobs, proc, history, counters
  <2>3. FlagsOK'
    BY <1>4, HStoreAssumption DEF TypeOK, FlagsOK, GCAsk, GCs, Buckets, data, conf, jobs, proc, history, counters
  <2> QED BY <1>4, <2>1, <2>2, <2>3, TypeFrame DEF TypeOK, GCAsk, GCs, Buckets, data, conf, jobs, proc, history, counters
<1>5. CASE CloseBucket
  <2>1. BucketsOK'
    <3>1. disk' \in [Buckets -> SUBSET (1 .. MaxReqs)] /\ buf' \in [Buckets -> SUBSET (1 .. MaxReqs)]
      BY <1>5 DEF TypeOK, BucketsOK, CloseBucket, CloseFlushes
    <3> QED BY <1>5, <3>1 DEF TypeOK, BucketsOK, CloseBucket
  <2>2. HistoryOK'
    BY <1>5, HStoreAssumption DEF TypeOK, HistoryOK, CloseBucket, CloseFlushes, Buckets, data, conf, jobs, proc, history, counters
  <2> QED BY <1>5, <2>1, <2>2, TypeFrame DEF TypeOK, CloseBucket, CloseFlushes, Buckets, data, conf, jobs, proc, history, counters
<1>6. CASE Exit
  <2>1. HistoryOK'
    BY <1>6, HStoreAssumption DEF TypeOK, HistoryOK, Exit, Buckets, data, conf, jobs, proc, history, counters
  <2> QED BY <1>6, <2>1, TypeFrame DEF TypeOK, Exit, Buckets, data, conf, jobs, proc, history, counters
<1> QED BY <1>1, <1>2, <1>3, <1>4, <1>5, <1>6 DEF GCStep, EndStep

\* All steps keep the types.
LEMMA NextTypeOK == TypeOK /\ CursorInv /\ [Next]_vars => TypeOK'
<1> SUFFICES ASSUME TypeOK, CursorInv, [Next]_vars PROVE TypeOK'
  OBVIOUS
<1>1. CASE UNCHANGED vars
  BY <1>1, TypeFrame DEF TypeOK, vars, data, conf, jobs, proc, history, counters
<1> QED BY <1>1, Steps, RequestTypeOK, HandlerTypeOK, GCTypeOK

-----------------------------------------------------------------------------
(* What is served *)

RoutingInv == CursorInv /\ OneReload /\ WithdrawnInv /\ OpenInv /\ RouteInv

\* The initial state: no handler, the buckets of the route are open and served.
LEMMA InitRouting == Init => RoutingInv
<1> SUFFICES ASSUME Init PROVE RoutingInv
  OBVIOUS
<1>1. CursorInv /\ OneReload /\ WithdrawnInv
  BY DEF Init, CursorInv, OneReload, WithdrawnInv, IdleReload
<1>2. OpenInv
  BY DEF Init, OpenInv, Scanned, EMPTY, NOT_EMPTY, READY
<1>3. RouteInv
  BY DEF Init, RouteInv, Scanned, StatOf, EMPTY, NOT_EMPTY, READY, IdleReload, Walking
<1> QED BY <1>1, <1>2, <1>3 DEF RoutingInv

\* Steps that are not a handler's leave the state of the buckets and of the
\* handlers alone, and history only grows.
LEMMA OtherSteps ==
    ASSUME RequestStep \/ LoopStep \/ GCStep \/ EndStep \/ UNCHANGED vars
    PROVE  /\ UNCHANGED <<State, BucketsStat, engine, Route, reload, failed>>
           /\ spoiled \subseteq spoiled'
           /\ doubled => doubled'
<1> USE DEF data, conf, proc, jobs, history, counters
<1>1. CASE RequestStep
  BY <1>1 DEF RequestStep, ReqUse, ReqCheck
<1>2. CASE LoopStep
  BY <1>2 DEF LoopStep, LoopUse, LoopPanics, LoopCheck, Dies
<1>3. CASE GCStep
  <2>1. ASSUME NEW b \in Busy, GCAsk(b)
        PROVE  UNCHANGED <<State, BucketsStat, engine, Route, reload, failed, spoiled>> /\ (doubled => doubled')
    BY <2>1 DEF GCAsk
  <2>2. ASSUME NEW g \in GCs, GCRegister(g) \/ GCEnd(g) \/ GCPanics(g)
        PROVE  UNCHANGED <<State, BucketsStat, engine, Route, reload, failed, spoiled, doubled>>
    BY <2>2 DEF GCRegister, GCEnd, GCPanics, Dies
  <2> QED BY <1>3, <2>1, <2>2 DEF GCStep
<1>4. CASE EndStep
  BY <1>4 DEF EndStep, CloseBucket, Exit
<1>5. CASE UNCHANGED vars
  BY <1>5 DEF vars
<1> QED BY <1>1, <1>2, <1>3, <1>4, <1>5

\* Such steps keep the invariant.
LEMMA OtherRouting ==
    ASSUME RoutingInv, RequestStep \/ LoopStep \/ GCStep \/ EndStep \/ UNCHANGED vars
    PROVE  RoutingInv'
BY OtherSteps DEF RoutingInv, CursorInv, OneReload, WithdrawnInv, OpenInv, RouteInv

\* The steps of a handler keep the invariant.
LEMMA HandlerRouting == TypeOK /\ RoutingInv /\ HandlerStep => RoutingInv'
<1> SUFFICES ASSUME TypeOK, RoutingInv, NEW r \in Reloads,
                    ReloadStep(r) \/ \E route \in SUBSET Buckets : ReloadAsk(r, route)
             PROVE  RoutingInv'
  BY DEF HandlerStep
<1> USE HStoreAssumption
    DEF TypeOK, BucketsOK, HandlersOK, HistoryOK, ReloadStates, RoutingInv, Buckets, Stats,
        EMPTY, NOT_EMPTY, READY, Walking, history, data
<1>1. ASSUME NEW route \in SUBSET Buckets, ReloadAsk(r, route) PROVE RoutingInv'
  <2> USE <1>1 DEF ReloadAsk
  <2>1. CursorInv'    BY DEF CursorInv
  <2>2. OneReload'
    <3>1. \A q \in Reloads : reload'[q].at # "idle" => q = r \/ reload[q].at # "idle"
      OBVIOUS
    <3>2. ~doubled' => \A q \in Reloads : reload[q].at = "idle"
      OBVIOUS
    <3> HIDE <1>1
    <3> QED BY <3>1, <3>2 DEF OneReload
  <2>3. WithdrawnInv' BY DEF WithdrawnInv
  <2>4. OpenInv'      BY DEF OpenInv
  <2>5. RouteInv'     BY DEF RouteInv
  <2> QED BY <2>1, <2>2, <2>3, <2>4, <2>5
<1>2. CASE ReloadSet(r)
  <2> USE <1>2 DEF ReloadSet
  <2>1. CursorInv'    BY DEF CursorInv
  <2>2. OneReload'    BY DEF OneReload
  <2>3. WithdrawnInv' BY DEF WithdrawnInv, OneReload, CursorInv
  <2>4. OpenInv'      BY DEF OpenInv, WithdrawnInv, CursorInv
  <2>5. RouteInv'
    <3>1. /\ reload'[r].at \in {"change", "end"} /\ reload'[r].i \in {0, 1}
          /\ reload[r].at = "set" /\ \A q \in Reloads \ {r} : reload'[q] = reload[q]
      <4>1. PICK a \in {"change", "end"} :
               reload' = [reload EXCEPT ![r].at = a, ![r].i = IF a = "end" THEN 0 ELSE 1]
        OBVIOUS
      <4> QED BY <4>1
    <3>2. UNCHANGED <<State, BucketsStat, Route, failed, doubled>>
      OBVIOUS
    <3>3. (\A q \in Reloads : reload'[q].at \notin Walking) => \A q \in Reloads : reload[q].at \notin Walking
      BY <3>1
    <3>4. \A q \in Reloads : reload'[q].at \in Walking =>
             q = r \/ (reload'[q] = reload[q] /\ reload[q].at \in Walking)
      BY <3>1
    <3> HIDE <1>2
    <3>5. \A b \in Buckets : ~(b < reload'[r].i)
      BY <3>1
    <3> QED BY <3>2, <3>3, <3>4, <3>5 DEF RouteInv
  <2> QED BY <2>1, <2>2, <2>3, <2>4, <2>5
<1>3. CASE ReloadSkip(r)
  <2> USE <1>3 DEF ReloadSkip, Changes, StatOf
  <2>1. CursorInv'    BY DEF CursorInv
  <2>2. OneReload'    BY DEF OneReload
  <2>3. WithdrawnInv' BY DEF WithdrawnInv, OneReload, CursorInv
  <2>4. OpenInv'      BY DEF OpenInv, WithdrawnInv, CursorInv
  <2>5. RouteInv'
    <3> DEFINE B == reload[r].i
    <3>1. /\ B \in Buckets /\ reload[r].at = "change"
          /\ reload'[r].at = "change" /\ reload'[r].i = B + 1 /\ reload'[r].route = reload[r].route
      OBVIOUS
    <3>2. \A q \in Reloads \ {r} : reload'[q] = reload[q]
      OBVIOUS
    <3>3. UNCHANGED <<State, BucketsStat, doubled, Route, failed>>
      OBVIOUS
    <3>4. B \in reload[r].route <=> BucketsStat[B] # EMPTY
      OBVIOUS
    <3> HIDE <1>3 DEF TypeOK
    <3>5. ~doubled => \A b \in Buckets : b < B + 1 => (State[b] = READY <=> b \in reload[r].route)
      BY <3>1, <3>4 DEF RouteInv
    <3> QED BY <3>1, <3>2, <3>3, <3>5 DEF RouteInv
  <2> QED BY <2>1, <2>2, <2>3, <2>4, <2>5
<1>4. CASE LoadBegin(r)
  <2> USE <1>4 DEF LoadBegin, StateWhileOpening, Changes, StatOf
  <2>1. CursorInv'    BY DEF CursorInv
  <2>2. OneReload'    BY DEF OneReload
  <2>3. WithdrawnInv' BY DEF WithdrawnInv, OneReload, CursorInv
  <2>4. OpenInv'      BY DEF OpenInv, WithdrawnInv, CursorInv
  <2>5. RouteInv'     BY DEF RouteInv, OneReload, CursorInv, WithdrawnInv
  <2> QED BY <2>1, <2>2, <2>3, <2>4, <2>5
<1>5. CASE LoadEnd(r)
  <2> USE <1>5 DEF LoadEnd
  <2>1. CursorInv'    BY DEF CursorInv
  <2>2. OneReload'    BY DEF OneReload
  <2>3. WithdrawnInv'
    <3>1. reload'[r].at = "change" /\ \A q \in Reloads \ {r} : reload'[q] = reload[q]
      OBVIOUS
    <3>2. ~doubled => \A q \in Reloads \ {r} : reload[q].at = "idle"
      BY DEF OneReload
    <3> QED BY <3>1, <3>2 DEF WithdrawnInv
  <2>4. OpenInv'      BY DEF OpenInv, WithdrawnInv, CursorInv
  <2>5. RouteInv'
    <3> DEFINE B == reload[r].i
    <3>1. /\ reload[r].at = "open" /\ B \in Buckets /\ B \in reload[r].route
          /\ reload'[r].at = "change" /\ reload'[r].i = B + 1 /\ reload'[r].route = reload[r].route
      BY DEF CursorInv
    <3>2. ~doubled => \A q \in Reloads \ {r} : reload'[q].at = "idle"
      BY DEF OneReload
    <3>3. /\ State'[B] = READY /\ BucketsStat'[B] # EMPTY
          /\ \A b \in Buckets \ {B} : State'[b] = State[b] /\ BucketsStat'[b] = BucketsStat[b]
      BY <3>1
    <3>4. doubled' = doubled
      OBVIOUS
    <3> HIDE <1>5 DEF TypeOK
    <3>5. ~doubled => \A b \in Buckets : State'[b] = READY <=> BucketsStat'[b] # EMPTY
      BY <3>3 DEF RouteInv
    <3>6. ~doubled => \A b \in Buckets : b < B + 1 => (State'[b] = READY <=> b \in reload[r].route)
      BY <3>1, <3>3 DEF RouteInv
    <3> QED BY <3>1, <3>2, <3>4, <3>5, <3>6 DEF RouteInv
  <2> QED BY <2>1, <2>2, <2>3, <2>4, <2>5
<1>6. CASE LoadFails(r)
  <2> USE <1>6 DEF LoadFails, Changes, StatOf
  <2>1. CursorInv'    BY DEF CursorInv
  <2>2. OneReload'    BY DEF OneReload
  <2>3. WithdrawnInv' BY DEF WithdrawnInv, OneReload, CursorInv
  <2>4. OpenInv'      BY DEF OpenInv, WithdrawnInv, CursorInv
  <2>5. RouteInv'     BY DEF RouteInv, OneReload, CursorInv, WithdrawnInv
  <2> QED BY <2>1, <2>2, <2>3, <2>4, <2>5
<1>7. CASE UnloadBegin(r)
  <2> USE <1>7 DEF UnloadBegin, Changes, StatOf
  <2>1. CursorInv'    BY DEF CursorInv
  <2>2. OneReload'    BY DEF OneReload
  <2>3. WithdrawnInv' BY DEF WithdrawnInv, OneReload, CursorInv
  <2>4. OpenInv'      BY DEF OpenInv, WithdrawnInv, CursorInv
  <2>5. RouteInv'     BY DEF RouteInv, OneReload, CursorInv, WithdrawnInv
  <2> QED BY <2>1, <2>2, <2>3, <2>4, <2>5
<1>8. CASE UnloadClose(r)
  <2> USE <1>8 DEF UnloadClose, CloseFlushes
  <2>1. CursorInv'    BY DEF CursorInv
  <2>2. OneReload'    BY DEF OneReload
  <2>3. WithdrawnInv' BY DEF WithdrawnInv, OneReload, CursorInv
  <2>4. OpenInv'      BY DEF OpenInv, WithdrawnInv, CursorInv
  <2>5. RouteInv'
    <3>1. /\ reload[r].at = "grace" /\ reload'[r].route = reload[r].route
          /\ reload'[r].at \in Walking => reload'[r].i = reload[r].i
          /\ reload'[r].at \notin Walking => failed'
      BY DEF CursorInv
    <3>2. \A q \in Reloads \ {r} : reload'[q] = reload[q]
      OBVIOUS
    <3>3. UNCHANGED <<State, BucketsStat, doubled, Route>>
      OBVIOUS
    <3> HIDE <1>8 DEF TypeOK
    <3> QED BY <3>1, <3>2, <3>3 DEF RouteInv
  <2> QED BY <2>1, <2>2, <2>3, <2>4, <2>5
<1>9. CASE UnloadRelease(r)
  <2> USE <1>9 DEF UnloadRelease
  <2>1. CursorInv'    BY DEF CursorInv
  <2>2. OneReload'    BY DEF OneReload
  <2>3. WithdrawnInv' BY DEF WithdrawnInv, OneReload, CursorInv
  <2>4. OpenInv'      BY DEF OpenInv, WithdrawnInv, CursorInv
  <2>5. RouteInv'     BY DEF RouteInv, OneReload, CursorInv, WithdrawnInv
  <2> QED BY <2>1, <2>2, <2>3, <2>4, <2>5
<1>10. CASE ReloadDone(r)
  <2> USE <1>10 DEF ReloadDone, StatOf
  <2>1. CursorInv'    BY DEF CursorInv
  <2>2. OneReload'    BY DEF OneReload
  <2>3. WithdrawnInv' BY DEF WithdrawnInv, OneReload, CursorInv
  <2>4. OpenInv'      BY DEF OpenInv, WithdrawnInv, CursorInv
  <2>5. RouteInv'     BY DEF RouteInv, OneReload, CursorInv, WithdrawnInv
  <2> QED BY <2>1, <2>2, <2>3, <2>4, <2>5
<1>11. CASE ReloadEnd(r)
  <2> USE <1>11 DEF ReloadEnd, AllowAgain, IdleReload
  <2>1. CursorInv'    BY DEF CursorInv
  <2>2. OneReload'    BY DEF OneReload
  <2>3. WithdrawnInv' BY DEF WithdrawnInv, OneReload, CursorInv
  <2>4. OpenInv'      BY DEF OpenInv, WithdrawnInv, CursorInv
  <2>5. RouteInv'     BY DEF RouteInv, OneReload, CursorInv, WithdrawnInv
  <2> QED BY <2>1, <2>2, <2>3, <2>4, <2>5
<1> QED
  BY <1>1, <1>2, <1>3, <1>4, <1>5, <1>6, <1>7, <1>8, <1>9, <1>10, <1>11 DEF ReloadStep

-----------------------------------------------------------------------------
(* What is kept *)

StorageInv == EndInv /\ UseInv /\ KeptInv

\* The initial state: nothing is stored and nobody is in a bucket.
LEMMA InitStorage == Init => StorageInv
BY DEF Init, StorageInv, EndInv, UseInv, KeptInv, InUse, IdleReq, Buckets

\* Nothing of this is disturbed by a step that leaves the data, the requests and
\* the handlers alone.
LEMMA StorageFrame ==
    ASSUME StorageInv, UNCHANGED <<State, data, reload, req, closing, acked, spoiled>>,
           doubled => doubled', status' = status \/ status' = "died"
    PROVE  StorageInv'
<1>1. EndInv'
  BY DEF StorageInv, EndInv, data
<1>2. \A b \in Buckets : (InUse(b)' <=> InUse(b)) /\ (Grace(b)' <=> Grace(b))
  BY DEF InUse, Grace
<1>3. UseInv'
  BY <1>2 DEF StorageInv, UseInv, data
<1>4. KeptInv'
  BY DEF StorageInv, KeptInv, data
<1> QED BY <1>1, <1>3, <1>4 DEF StorageInv

\* A handler that goes on leaves its 10 seconds to the bucket that has them.
LEMMA GraceFrame ==
    ASSUME UseInv, \A q \in Reloads : reload[q].at = "grace" => reload'[q] = reload[q],
           UNCHANGED <<State, buf, req, closing, spoiled>>, doubled => doubled'
    PROVE  UseInv'
<1>1. \A b \in Buckets : Grace(b) => Grace(b)'
  BY DEF Grace
<1>2. \A b \in Buckets : InUse(b)' <=> InUse(b)
  BY DEF InUse
<1> QED BY <1>1, <1>2 DEF UseInv

\* Requests keep the invariant.
LEMMA RequestStorage == TypeOK /\ RoutingInv /\ StorageInv /\ RequestStep => StorageInv'
<1> SUFFICES ASSUME TypeOK, RoutingInv, StorageInv, NEW c \in Clients,
                    ReqUse(c) \/ \E b \in Busy : ReqCheck(c, b)
             PROVE  StorageInv'
  BY DEF RequestStep
<1> USE HStoreAssumption DEF TypeOK, BucketsOK, RequestsOK, HistoryOK, CountersOK, StorageInv, Buckets, Records
<1>1. CASE ReqUse(c)
  <2> USE <1>1 DEF ReqUse, IdleReq, proc, conf
  <2>1. EndInv'  BY DEF EndInv
  <2>2. UseInv'
    <3> DEFINE B == req[c].bucket
    <3>1. /\ \A d \in Clients : req'[d].at = "use" => req'[d] = req[d]
          /\ \A b \in Buckets : b # B => buf'[b] = buf[b]
          /\ req[c].at = "use" /\ B \in Buckets
      OBVIOUS
    <3>2. UNCHANGED <<State, reload, spoiled, closing, doubled>>
      OBVIOUS
    <3> HIDE <1>1
    <3>3. \A b \in Buckets : InUse(b)' => InUse(b)
      BY <3>1 DEF InUse
    <3>4. InUse(B)
      BY <3>1 DEF InUse
    <3>5. \A b \in Buckets : Grace(b)' <=> Grace(b)
      BY <3>2 DEF Grace
    <3> QED BY <3>1, <3>2, <3>3, <3>4, <3>5 DEF UseInv
  <2>3. KeptInv' BY DEF KeptInv
  <2> QED BY <2>1, <2>2, <2>3
<1>2. ASSUME NEW b \in Busy, ReqCheck(c, b) PROVE StorageInv'
  <2> USE <1>2 DEF ReqCheck, proc, data, conf, history
  <2>1. EndInv'  BY DEF EndInv
  <2>2. UseInv'
    <3>1. \A d \in Clients : req'[d].at = "use" => req'[d] = req[d] \/ (req'[d].bucket = b /\ State[b] = READY)
      OBVIOUS
    <3>2. UNCHANGED <<State, reload, spoiled, closing, doubled, buf>> /\ closing = 1
      BY DEF EndInv
    <3> HIDE <1>2
    <3>3. \A x \in Buckets : InUse(x)' => InUse(x) \/ State[x] = READY
      BY <3>1 DEF InUse
    <3>4. \A x \in Buckets : ~(x < closing)
      BY <3>2
    <3>5. \A x \in Buckets : Grace(x)' <=> Grace(x)
      BY <3>2 DEF Grace
    <3> QED BY <3>2, <3>3, <3>4, <3>5 DEF UseInv
  <2>3. KeptInv' BY DEF KeptInv
  <2> QED BY <2>1, <2>2, <2>3
<1> QED BY <1>1, <1>2

\* The loops keep the invariant.
LEMMA LoopStorage == TypeOK /\ StorageInv /\ LoopStep => StorageInv'
<1> SUFFICES ASSUME TypeOK, StorageInv, NEW l \in Loops,
                    LoopUse(l) \/ LoopPanics(l) \/ \E b \in Busy : LoopCheck(l, b)
             PROVE  StorageInv'
  BY DEF LoopStep
<1> USE HStoreAssumption
    DEF TypeOK, BucketsOK, RequestsOK, HistoryOK, StorageInv, Buckets, Records, proc, data, conf, history
<1>1. CASE LoopUse(l)
  <2> USE <1>1 DEF LoopUse
  <2>1. EndInv'  BY DEF EndInv
  <2>0. /\ UNCHANGED <<State, req, reload, spoiled, closing, doubled, acked>>
        /\ \A b \in Buckets : buf'[b] \subseteq buf[b] /\ buf[b] \cup disk[b] \subseteq buf'[b] \cup disk'[b]
    <3>1. CASE l = "Flusher"
      <4>1. /\ loops[l] \in Buckets /\ UNCHANGED <<State, req, reload, spoiled, closing, doubled, acked>>
            /\ disk' = [disk EXCEPT ![loops[l]] = @ \cup buf[loops[l]]]
            /\ buf' = [buf EXCEPT ![loops[l]] = {}]
        BY <3>1
      <4> HIDE <1>1 DEF Buckets, StorageInv, HistoryOK, RequestsOK
      <4> QED BY <4>1
    <3>2. CASE l # "Flusher"
      BY <3>2
    <3> QED BY <3>1, <3>2
  <2>2. UseInv'
    BY <2>0 DEF UseInv, InUse, Grace
  <2>3. KeptInv'
    <3> HIDE <1>1
    <3>1. \A a \in acked : a.bucket \in Buckets
      OBVIOUS
    <3> QED BY <2>0, <3>1 DEF KeptInv
  <2> QED BY <2>1, <2>2, <2>3
<1>2. CASE LoopPanics(l)
  BY <1>2, StorageFrame DEF LoopPanics, Dies
<1>3. ASSUME NEW b \in Busy, LoopCheck(l, b) PROVE StorageInv'
  BY <1>3, StorageFrame DEF LoopCheck
<1> QED BY <1>1, <1>2, <1>3

\* Nobody is in a bucket that is neither served nor has its 10 seconds.
LEMMA NotServed ==
    ASSUME UseInv, ~doubled, NEW b \in Buckets \ spoiled, State[b] # READY, ~Grace(b)
    PROVE  buf[b] = {} /\ ~InUse(b)
BY DEF UseInv

\* A bucket that is opened, closed or released has nothing in its buffer that is
\* not in its files.
LEMMA HandlerStorage == TypeOK /\ RoutingInv /\ StorageInv /\ HandlerStep => StorageInv'
<1> SUFFICES ASSUME TypeOK, RoutingInv, StorageInv, NEW r \in Reloads,
                    ReloadStep(r) \/ \E route \in SUBSET Buckets : ReloadAsk(r, route)
             PROVE  StorageInv'
  BY DEF HandlerStep
<1> USE HStoreAssumption
    DEF TypeOK, BucketsOK, HandlersOK, RequestsOK, HistoryOK, ReloadStates, RoutingInv, StorageInv,
        Buckets, Records, Stats, EMPTY, NOT_EMPTY, READY, proc, data, history
<1>1. ASSUME NEW route \in SUBSET Buckets, ReloadAsk(r, route) PROVE StorageInv'
  <2> USE <1>1 DEF ReloadAsk
  <2>1. EndInv'  BY DEF EndInv
  <2>2. UseInv'
    <3>1. \A q \in Reloads : reload[q].at = "grace" => reload'[q] = reload[q]
      OBVIOUS
    <3> QED BY <3>1, GraceFrame
  <2>3. KeptInv' BY DEF KeptInv
  <2> QED BY <2>1, <2>2, <2>3
<1>2. CASE ReloadSet(r)
  <2> USE <1>2 DEF ReloadSet
  <2>1. EndInv'  BY DEF EndInv, CursorInv
  <2>2. UseInv'
    <3>1. \A q \in Reloads : reload[q].at = "grace" => reload'[q] = reload[q]
      OBVIOUS
    <3> QED BY <3>1, GraceFrame
  <2>3. KeptInv' BY DEF KeptInv, UseInv, Grace, OneReload, CursorInv, WithdrawnInv, EndInv
  <2> QED BY <2>1, <2>2, <2>3
<1>3. CASE ReloadSkip(r)
  <2> USE <1>3 DEF ReloadSkip
  <2>1. EndInv'  BY DEF EndInv, CursorInv
  <2>2. UseInv'  BY DEF UseInv, InUse, Grace, OneReload, CursorInv, WithdrawnInv, EndInv
  <2>3. KeptInv' BY DEF KeptInv, UseInv, Grace, OneReload, CursorInv, WithdrawnInv, EndInv
  <2> QED BY <2>1, <2>2, <2>3
<1>4. CASE LoadBegin(r)
  <2> USE <1>4 DEF LoadBegin, StateWhileOpening
  <2>1. EndInv'  BY DEF EndInv, CursorInv
  <2>2. UseInv'  BY DEF UseInv, InUse, Grace, OneReload, CursorInv, WithdrawnInv, EndInv
  <2>3. KeptInv'
    <3> DEFINE B == reload[r].i
    <3>1. ~doubled => ~Grace(B)
      BY DEF OneReload, Grace
    <3>2. ~doubled /\ B \notin spoiled' => buf[B] = {}
      BY <3>1 DEF UseInv
    <3>3. \A b \in Buckets : b # B => buf'[b] = buf[b]
      OBVIOUS
    <3>4. UNCHANGED <<disk, acked, doubled>> /\ spoiled \subseteq spoiled' /\ \A a \in acked : a.bucket \in Buckets
      OBVIOUS
    <3> HIDE <1>4
    <3> QED BY <3>2, <3>3, <3>4 DEF KeptInv
  <2> QED BY <2>1, <2>2, <2>3
<1>5. CASE LoadEnd(r)
  <2> USE <1>5 DEF LoadEnd
  <2>1. EndInv'  BY DEF EndInv, CursorInv
  <2>2. UseInv'  BY DEF UseInv, InUse, Grace, OneReload, CursorInv, WithdrawnInv, EndInv
  <2>3. KeptInv' BY DEF KeptInv, UseInv, Grace, OneReload, CursorInv, WithdrawnInv, EndInv
  <2> QED BY <2>1, <2>2, <2>3
<1>6. CASE LoadFails(r)
  <2> USE <1>6 DEF LoadFails
  <2>1. EndInv'  BY DEF EndInv, CursorInv
  <2>2. UseInv'
    <3>1. \A q \in Reloads : reload[q].at = "grace" => reload'[q] = reload[q]
      OBVIOUS
    <3> QED BY <3>1, GraceFrame
  <2>3. KeptInv' BY DEF KeptInv, UseInv, Grace, OneReload, CursorInv, WithdrawnInv, EndInv
  <2> QED BY <2>1, <2>2, <2>3
<1>7. CASE UnloadBegin(r)
  <2> USE <1>7 DEF UnloadBegin
  <2>1. EndInv'  BY DEF EndInv, CursorInv
  <2>2. UseInv'  BY DEF UseInv, InUse, Grace, OneReload, CursorInv, WithdrawnInv, EndInv
  <2>3. KeptInv' BY DEF KeptInv, UseInv, Grace, OneReload, CursorInv, WithdrawnInv, EndInv
  <2> QED BY <2>1, <2>2, <2>3
<1>8. CASE UnloadClose(r)
  <2> USE <1>8 DEF UnloadClose, CloseFlushes
  <2>1. EndInv'  BY DEF EndInv, CursorInv
  <2>2. UseInv'
    <3> DEFINE B == reload[r].i
    <3>1. /\ B \in Buckets /\ buf'[B] = {} /\ (InUse(B) => B \in spoiled')
          /\ \A b \in Buckets \ {B} : buf'[b] = buf[b]
      BY DEF CursorInv, EndInv
    <3>2. UNCHANGED <<State, req, closing, doubled>> /\ spoiled \subseteq spoiled'
      OBVIOUS
    <3>3. \A q \in Reloads \ {r} : reload'[q] = reload[q]
      OBVIOUS
    <3> HIDE <1>8 DEF TypeOK
    <3>4. \A b \in Buckets \ {B} : Grace(b) => Grace(b)'
      BY <3>3 DEF Grace
    <3>5. \A b \in Buckets : InUse(b)' <=> InUse(b)
      BY <3>2 DEF InUse
    <3> QED BY <3>1, <3>2, <3>4, <3>5 DEF UseInv
  <2>3. KeptInv'
    <3>1. \A b \in Buckets : disk[b] \cup buf[b] \subseteq disk'[b] \cup buf'[b]
      BY DEF CursorInv
    <3>2. UNCHANGED <<acked, doubled>> /\ spoiled \subseteq spoiled' /\ \A a \in acked : a.bucket \in Buckets
      OBVIOUS
    <3> HIDE <1>8
    <3> QED BY <3>1, <3>2 DEF KeptInv
  <2> QED BY <2>1, <2>2, <2>3
<1>9. CASE UnloadRelease(r)
  <2> USE <1>9 DEF UnloadRelease
  <2>1. EndInv'  BY DEF EndInv, CursorInv
  <2>0. ~doubled /\ reload[r].i \notin spoiled => buf[reload[r].i] = {} /\ ~InUse(reload[r].i)
    <3>1. ~doubled => ~Grace(reload[r].i) /\ State[reload[r].i] = EMPTY
      BY DEF OneReload, Grace, WithdrawnInv
    <3>2. reload[r].i \in Buckets
      BY DEF CursorInv
    <3> HIDE <1>9
    <3>3. ~doubled => State[reload[r].i] # READY
      BY <3>1
    <3> HIDE DEF StorageInv, TypeOK, RoutingInv
    <3>4. UseInv
      BY DEF StorageInv
    <3> QED BY <3>1, <3>2, <3>3, <3>4, NotServed
  <2>2. UseInv'
    <3>1. /\ \A q \in Reloads : reload[q].at = "grace" => reload'[q] = reload[q]
          /\ UNCHANGED <<req, spoiled, closing, doubled>>
      OBVIOUS
    <3>2. \A b \in Buckets : b # reload[r].i => buf'[b] = buf[b] /\ State'[b] = State[b]
      OBVIOUS
    <3>3. buf'[reload[r].i] = {}
      BY DEF CursorInv
    <3>4. \A b \in Buckets : Grace(b) => Grace(b)'
      BY <3>1 DEF Grace
    <3>5. \A b \in Buckets : InUse(b)' <=> InUse(b)
      BY <3>1 DEF InUse
    <3> HIDE <1>9
    <3>6. ASSUME ~doubled', NEW b \in Buckets \ spoiled'
          PROVE  /\ InUse(b)' => State'[b] = READY \/ Grace(b)'
                 /\ buf'[b] # {} => State'[b] = READY \/ Grace(b)'
                 /\ b < closing' => ~InUse(b)' /\ buf'[b] = {}
      <4>1. CASE b = reload[r].i
        BY <2>0, <3>1, <3>3, <3>5, <3>6, <4>1
      <4>2. CASE b # reload[r].i
        BY <3>1, <3>2, <3>4, <3>5, <3>6, <4>2 DEF UseInv
      <4> QED BY <4>1, <4>2
    <3> QED BY <3>6 DEF UseInv
  <2>3. KeptInv'
    <3>1. \A b \in Buckets : b # reload[r].i => buf'[b] = buf[b]
      OBVIOUS
    <3>2. UNCHANGED <<disk, acked, doubled, spoiled>> /\ \A a \in acked : a.bucket \in Buckets
      OBVIOUS
    <3> HIDE <1>9
    <3> QED BY <2>0, <3>1, <3>2 DEF KeptInv
  <2> QED BY <2>1, <2>2, <2>3
<1>10. CASE ReloadDone(r)
  <2> USE <1>10 DEF ReloadDone
  <2>1. EndInv'  BY DEF EndInv, CursorInv
  <2>2. UseInv'
    <3>1. \A q \in Reloads : reload[q].at = "grace" => reload'[q] = reload[q]
      OBVIOUS
    <3> QED BY <3>1, GraceFrame
  <2>3. KeptInv' BY DEF KeptInv, UseInv, Grace, OneReload, CursorInv, WithdrawnInv, EndInv
  <2> QED BY <2>1, <2>2, <2>3
<1>11. CASE ReloadEnd(r)
  <2> USE <1>11 DEF ReloadEnd, AllowAgain, IdleReload
  <2>1. EndInv'  BY DEF EndInv, CursorInv
  <2>2. UseInv'  BY DEF UseInv, InUse, Grace, OneReload, CursorInv, WithdrawnInv, EndInv
  <2>3. KeptInv' BY DEF KeptInv, UseInv, Grace, OneReload, CursorInv, WithdrawnInv, EndInv
  <2> QED BY <2>1, <2>2, <2>3
<1> QED
  BY <1>1, <1>2, <1>3, <1>4, <1>5, <1>6, <1>7, <1>8, <1>9, <1>10, <1>11 DEF ReloadStep

\* gcs and HStore.Close keep the invariant.
LEMMA EndStorage == TypeOK /\ StorageInv /\ (GCStep \/ EndStep) => StorageInv'
<1> SUFFICES ASSUME TypeOK, StorageInv, GCStep \/ EndStep PROVE StorageInv'
  OBVIOUS
<1> USE HStoreAssumption
    DEF TypeOK, BucketsOK, RequestsOK, HistoryOK, StorageInv, Buckets, Records, proc, data, conf, history
<1>1. CASE GCStep
  <2>1. UNCHANGED <<State, data, reload, req, closing, acked, spoiled>> /\ (doubled => doubled')
        /\ (status' = status \/ status' = "died")
    <3>1. ASSUME NEW b \in Busy, GCAsk(b)
          PROVE  UNCHANGED <<State, data, reload, req, closing, acked, spoiled, status>> /\ (doubled => doubled')
      BY <3>1 DEF GCAsk
    <3>2. ASSUME NEW g \in GCs, GCRegister(g) \/ GCEnd(g) \/ GCPanics(g)
          PROVE  /\ UNCHANGED <<State, data, reload, req, closing, acked, spoiled, doubled>>
                 /\ status' = status \/ status' = "died"
      BY <3>2 DEF GCRegister, GCEnd, GCPanics, Dies
    <3> QED BY <1>1, <3>1, <3>2 DEF GCStep
  <2> QED BY <2>1, StorageFrame
<1>2. CASE CloseBucket
  <2> USE <1>2 DEF CloseBucket, CloseFlushes
  <2>1. EndInv'  BY DEF EndInv, Alive
  <2>2. UseInv'  BY DEF UseInv, InUse, Grace, EndInv
  <2>3. KeptInv'
    <3>1. \A b \in Buckets : disk[b] \cup buf[b] \subseteq disk'[b] \cup buf'[b]
      OBVIOUS
    <3>2. UNCHANGED <<acked, doubled>> /\ spoiled \subseteq spoiled' /\ \A a \in acked : a.bucket \in Buckets
      OBVIOUS
    <3> HIDE <1>2
    <3> QED BY <3>1, <3>2 DEF KeptInv
  <2> QED BY <2>1, <2>2, <2>3
<1>3. CASE Exit
  BY <1>3 DEF Exit, EndInv, UseInv, KeptInv, InUse, Grace
<1> QED BY <1>1, <1>2, <1>3 DEF EndStep

-----------------------------------------------------------------------------
(* The registry of gcs *)

\* The initial state: no gc.
LEMMA InitGC == Init => GCInv
BY DEF Init, GCInv, Running, IdleGC

\* Other steps leave the gcs alone.
LEMMA NotGC ==
    ASSUME RequestStep \/ LoopStep \/ HandlerStep \/ EndStep \/ UNCHANGED vars
    PROVE  UNCHANGED <<gc, stat, gcs>> /\ (doubled => doubled')
<1> USE DEF data, conf, proc, jobs, history, counters
<1>1. CASE RequestStep
  BY <1>1 DEF RequestStep, ReqUse, ReqCheck
<1>2. CASE LoopStep
  BY <1>2 DEF LoopStep, LoopUse, LoopPanics, LoopCheck, Dies
<1>3. CASE HandlerStep
  <2>1. ASSUME NEW r \in Reloads, NEW route \in SUBSET Buckets, ReloadAsk(r, route)
        PROVE  UNCHANGED <<gc, stat, gcs>> /\ (doubled => doubled')
    BY <2>1 DEF ReloadAsk
  <2>2. ASSUME NEW r \in Reloads, ReloadStep(r)
        PROVE  UNCHANGED <<gc, stat, gcs, doubled>>
    BY <2>2 DEF ReloadStep, ReloadSet, ReloadSkip, LoadBegin, LoadEnd, LoadFails,
                UnloadBegin, UnloadClose, UnloadRelease, ReloadDone, ReloadEnd
  <2> QED BY <1>3, <2>1, <2>2 DEF HandlerStep
<1>4. CASE EndStep
  BY <1>4 DEF EndStep, CloseBucket, Exit
<1>5. CASE UNCHANGED vars
  BY <1>5 DEF vars
<1> QED BY <1>1, <1>2, <1>3, <1>4, <1>5

\* The registry has the gc that runs, and only a bucket without one admits one.
LEMMA NextGC == TypeOK /\ GCInv /\ [Next]_vars => GCInv'
<1> SUFFICES ASSUME TypeOK, GCInv, [Next]_vars PROVE GCInv'
  OBVIOUS
<1>1. CASE RequestStep \/ LoopStep \/ HandlerStep \/ EndStep \/ UNCHANGED vars
  BY <1>1, NotGC DEF GCInv, Running
<1> USE HStoreAssumption DEF TypeOK, GCsOK, CountersOK, GCInv, Running, Buckets, GCs, history, counters
<1>2. ASSUME NEW g \in GCs, GCRegister(g) PROVE GCInv'
  <2> USE <1>2 DEF GCRegister
  <2> DEFINE B == gc[g].bucket
  <2>1. /\ \A h \in GCs \ {g} : gc'[h] = gc[h]
        /\ gc[g].at = "start" /\ gc'[g].at = "run" /\ gc'[g].bucket = B /\ B \in Buckets
        /\ UNCHANGED <<gcs, doubled>>
    OBVIOUS
  <2>2. \A b \in Buckets : Running(b)' = Running(b)
    BY <2>1
  <2>3. \A b \in Buckets : b # B => stat'[b] = stat[b]
    OBVIOUS
  <2>4. stat'[B] = {g}
    OBVIOUS
  <2> HIDE <1>2
  <2>5. ASSUME ~doubled', NEW b \in Buckets
        PROVE  (\A h, k \in Running(b)' : h = k) /\ stat'[b] = {h \in Running(b)' : gc'[h].at = "run"}
    <3>1. \A h, k \in Running(b)' : h = k
      BY <2>1, <2>2, <2>5
    <3>2. CASE b = B
      <4>1. g \in Running(b)'
        BY <2>1, <3>2
      <4> QED BY <2>1, <2>4, <3>1, <3>2, <4>1
    <3>3. CASE b # B
      BY <2>1, <2>2, <2>3, <2>5, <3>1, <3>3
    <3> QED BY <3>2, <3>3
  <2>6. ASSUME NEW h \in GCs, h > gcs' PROVE gc'[h].at = "idle"
    <3>1. gc[h].at = "idle"
      BY <2>1, <2>6
    <3> QED BY <2>1, <3>1
  <2> QED BY <2>5, <2>6
<1>3. ASSUME NEW g \in GCs, GCEnd(g) PROVE GCInv'
  BY <1>3 DEF GCEnd, IdleGC
<1>4. ASSUME NEW g \in GCs, GCPanics(g) PROVE GCInv'
  BY <1>4 DEF GCPanics, Dies, jobs
<1>5. ASSUME NEW b \in Busy, GCAsk(b) PROVE GCInv'
  <2> USE <1>5 DEF GCAsk, Admits
  <2> DEFINE n == gcs + 1
  <2>1. /\ \A h \in GCs \ {n} : gc'[h] = gc[h]
        /\ n \in GCs /\ gcs' = n /\ gc[n].at = "idle" /\ gc'[n].at = "start" /\ gc'[n].bucket = b
        /\ UNCHANGED stat /\ stat[b] = {}
    OBVIOUS
  <2>2. ~doubled' => ~doubled /\ \A h \in Running(b) : gc[h].at # "start"
    OBVIOUS
  <2> HIDE <1>5
  <2>3. ~doubled' => Running(b) = {}
    BY <2>1, <2>2
  <2>4. ASSUME NEW x \in Buckets, x # b PROVE Running(x)' = Running(x)
    BY <2>1, <2>4
  <2>5. ~doubled' => Running(b)' = {n}
    BY <2>1, <2>3
  <2>6. \A h \in GCs : h > gcs' => gc'[h].at = "idle"
    BY <2>1
  <2>7. ASSUME ~doubled', NEW x \in Buckets
        PROVE  (\A h, k \in Running(x)' : h = k) /\ stat'[x] = {h \in Running(x)' : gc'[h].at = "run"}
    <3>1. CASE x = b
      <4>1. Running(x)' = {n}
        BY <3>1, <2>5, <2>7
      <4>2. stat'[x] = {} /\ gc'[n].at # "run"
        BY <3>1, <2>1
      <4> HIDE DEF Running
      <4> QED BY <4>1, <4>2
    <3>2. CASE x # b
      <4>1. Running(x)' = Running(x) /\ stat'[x] = stat[x] /\ ~doubled
        BY <3>2, <2>1, <2>2, <2>4, <2>7
      <4>2. \A h \in Running(x) : gc'[h] = gc[h]
        BY <2>1
      <4>3. (\A h, k \in Running(x) : h = k) /\ stat[x] = {h \in Running(x) : gc[h].at = "run"}
        BY <4>1
      <4> HIDE DEF Running
      <4> QED BY <4>1, <4>2, <4>3
    <3> QED BY <3>1, <3>2
  <2> QED BY <2>6, <2>7
<1> QED BY <1>1, <1>2, <1>3, <1>4, <1>5, Steps DEF GCStep

-----------------------------------------------------------------------------
(* The theorems *)

\* The inductive invariant holds initially ...
LEMMA InitIInv == Init => IInv
BY InitTypeOK, InitRouting, InitStorage, InitGC DEF IInv, RoutingInv, StorageInv

\* ... every step keeps it ...
LEMMA NextIInv == IInv /\ [Next]_vars => IInv'
<1> SUFFICES ASSUME IInv, [Next]_vars PROVE IInv'
  OBVIOUS
<1>1. TypeOK'
  BY NextTypeOK DEF IInv
<1>2. RoutingInv'
  BY Steps, OtherRouting, HandlerRouting DEF IInv, RoutingInv
<1>3. StorageInv'
  <2>1. TypeOK /\ RoutingInv /\ StorageInv
    BY DEF IInv, RoutingInv, StorageInv
  <2>2. CASE UNCHANGED vars
    BY <2>1, <2>2, StorageFrame DEF vars, data, conf, proc, history
  <2> QED BY <2>1, <2>2, Steps, RequestStorage, LoopStorage, HandlerStorage, EndStorage
<1>4. GCInv'
  BY NextGC DEF IInv
<1> QED BY <1>1, <1>2, <1>3, <1>4 DEF IInv, RoutingInv, StorageInv

\* ... so that it always holds.
LEMMA Invariance == Spec => []IInv
BY InitIInv, NextIInv, PTL DEF Spec

\* The variables of the store keep their types.
THEOREM Typing == Spec => []TypeOK
<1>1. IInv => TypeOK BY DEF IInv
<1> QED BY <1>1, Invariance, PTL

\* A bucket that lets requests in is open (ChangeRoute opens before it announces
\* and withdraws before it closes), for any number of buckets and handlers.
THEOREM ServedIsOpen == Spec => []ReadyIsOpen
<1>1. IInv => ReadyIsOpen BY DEF IInv, OpenInv, ReadyIsOpen
<1> QED BY <1>1, Invariance, PTL

\* An acknowledged record survives unloads, loads and HStore.Close.
THEOREM Kept == Spec => []AckedKept
<1>1. IInv => AckedKept
  <2> SUFFICES ASSUME IInv, ~doubled, status # "died", NEW a \in acked, a.bucket \notin spoiled
               PROVE  a.id \in disk[a.bucket] \/ (Alive /\ a.id \in buf[a.bucket])
    BY DEF AckedKept
  <2>1. a.bucket \in Buckets
    BY DEF IInv, TypeOK, HistoryOK, Records
  <2>2. a.id \in disk[a.bucket] \/ a.id \in buf[a.bucket]
    BY DEF IInv, KeptInv
  <2>3. CASE Alive
    BY <2>2, <2>3
  <2>4. CASE ~Alive
    <3>1. closing = NumBucket + 1
      BY <2>4 DEF IInv, EndInv, TypeOK, HistoryOK, Alive
    <3>2. a.bucket < closing
      BY <2>1, <3>1, HStoreAssumption DEF Buckets
    <3> QED BY <2>1, <2>2, <3>2 DEF IInv, UseInv
  <2> QED BY <2>3, <2>4
<1> QED BY <1>1, Invariance, PTL

\* After a reload that succeeded the buckets served are those of the route.
THEOREM Routed == Spec => []ServedIsRouted
<1>1. IInv => ServedIsRouted
  <2> SUFFICES ASSUME IInv, ~Reloading, ~failed, ~doubled
               PROVE  {b \in Buckets : State[b] = READY} = Route
    BY DEF ServedIsRouted
  <2>1. \A r \in Reloads : reload[r].at \notin Walking
    BY DEF Reloading, Walking
  <2>2. \A b \in Buckets : State[b] = READY <=> b \in Route
    BY <2>1 DEF IInv, RouteInv
  <2>3. Route \subseteq Buckets
    BY DEF IInv, TypeOK, HandlersOK
  <2> QED BY <2>2, <2>3
<1> QED BY <1>1, Invariance, PTL

\* A bucket has one gc at most and the registry has it while it runs.
THEOREM Registered == Spec => []RegistryExact
<1>1. IInv => RegistryExact
  <2> SUFFICES ASSUME IInv, ~doubled, NEW b \in Buckets
               PROVE  /\ Cardinality(Running(b)) <= 1
                      /\ stat[b] = {g \in Running(b) : gc[g].at = "run"}
    BY DEF RegistryExact
  <2>1. \A g, h \in Running(b) : g = h
    BY DEF IInv, GCInv
  <2>2. CASE Running(b) = {}
    <3>1. Cardinality(Running(b)) = 0
      BY <2>2, FS_EmptySet
    <3> QED BY <3>1 DEF IInv, GCInv
  <2>3. CASE Running(b) # {}
    <3>1. PICK g : Running(b) = {g}
      BY <2>1, <2>3
    <3>2. Cardinality(Running(b)) = 1
      BY <3>1, FS_Singleton
    <3> QED BY <3>2 DEF IInv, GCInv
  <2> QED BY <2>2, <2>3
<1> QED BY <1>1, Invariance, PTL
=============================================================================
