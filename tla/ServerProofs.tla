---------------------------- MODULE ServerProofs ----------------------------
(***************************************************************************)
(* Proofs about Server for any number of connections, tokens and requests. *)
(***************************************************************************)
EXTENDS Server, FiniteSetTheorems, SequenceTheorems, TLAPS

-----------------------------------------------------------------------------
(* The inductive invariants *)

\* A request holds a token from RL.Get to the deferred RL.Put, and no token is
\* in two places or nowhere.
TokenInv ==
    /\ \A c \in Conns : token[c] # NoToken =>
           at[c] \in {"body", "check", "process", "reply", "overdue", "finish"}
    /\ \A c, d \in Conns : token[c] = token[d] /\ token[c] # NoToken => c = d
    /\ \A i, j \in 1 .. Len(free) : free[i] = free[j] => i = j
    /\ \A c \in Conns : \A i \in 1 .. Len(free) : free[i] # token[c]
    /\ \A t \in Tokens : (\E c \in Conns : token[c] = t) \/ (\E i \in 1 .. Len(free) : free[i] = t)

\* The request of c is counted in SetData and will be taken back.
HoldsSet(c) ==
    \/ at[c] \in {"token", "check", "process"} /\ req[c].kind \in {"incr", "incrold"}
    \/ at[c] \in {"body", "check", "process"} /\ req[c].kind \in {"set", "setq", "short"}
    \/ at[c] = "body" /\ req[c].kind \in BodyKinds
SetHolders == {c \in Conns : HoldsSet(c)}
GetHolders == {c \in Conns : items[c] = 1}

\* A client sends lines and data blocks.
UnitInv ==
    \A c \in Conns :
        /\ owes[c] = NoUnit \/ owes[c].what = "body"
        /\ \A i \in 1 .. Len(stream[c]) : stream[c][i].what \in {"line", "body"}

\* Values are held after Process only, and data blocks are read for sets.
HoldInv ==
    \A c \in Conns : /\ items[c] = 1 => at[c] \in {"reply", "finish"}
                     /\ at[c] = "body" => req[c].kind \in BodyKinds

\* The counters never miss a buffer that is held.
CountInv ==
    /\ Cardinality(SetHolders) <= setData
    /\ Cardinality(GetHolders) <= getData
    /\ HoldInv

\* Serve has given up when it has looked MaxTicks times, and not before.
TickInv ==
    /\ main = "accept" => ticks = 0
    /\ main = "wait" => ticks < MaxTicks
    /\ main = "gaveup" => ticks = MaxTicks

\* The kinds whose handlers take back what they count.
Balanced == AllKinds \ {"twice", "append", "appendq", "incrold", "incrnan", "decr"}

KindInv ==
    \A c \in Conns : /\ req[c].kind \in Balanced /\ owes[c].kind \in Balanced
                     /\ \A i \in 1 .. Len(stream[c]) : stream[c][i].kind \in Balanced

\* With these kinds only, and no receive timeout or panic so far, the counters
\* count nothing else.
BalanceInv ==
    ~spoiled /\ ~panicked =>
        setData = Cardinality(SetHolders) /\ getData = Cardinality(GetHolders)

\* A connection is registered from Register to Unregister.
RegisteredInv == \A c \in Conns : at[c] \notin {"none", "accepted", "gone"} => c \in conns

\* Serve has returned with the mutex locked and no connection left, unless it
\* gave up on them.
DrainInv ==
    main \in {"drained", "closed", "exited"} /\ ticks < MaxTicks => locked /\ conns = {}

OwnAddress == \A c, d \in Conns : Addr[c] = Addr[d] => c = d

-----------------------------------------------------------------------------
(* Commands and replies of one connection *)

Serving == {"token", "body", "check", "process", "reply", "overdue"}

\* The client waits for an answer to this unit.
Awaited(u) == u.what = "line" /\ u.kind \notin SilentKinds

\* Request n of c is not answered yet.
Waits(c, n) ==
    \/ \E j \in 1 .. Len(stream[c]) : Awaited(stream[c][j]) /\ stream[c][j].n = n
    \/ at[c] \in Serving /\ Awaited(req[c]) /\ req[c].n = n

Waiting(c) == {n \in Nat : Waits(c, n)}

\* A connection that is being closed may have lost the last answer.
Ending(c) == closing[c] /\ at[c] \in {"finish", "loop", "close", "gone"}

\* Requests are numbered as they are sent.
Numbers(c) ==
    /\ \A i \in 1 .. Len(expects[c]) : expects[c][i] <= sent[c]
    /\ \A i, j \in 1 .. Len(expects[c]) : i < j => expects[c][i] < expects[c][j]
    /\ \A i \in 1 .. Len(stream[c]) : stream[c][i].n <= sent[c]
    /\ \A i, j \in 1 .. Len(stream[c]) :
           i < j /\ stream[c][j].what = "line" => stream[c][i].n < stream[c][j].n
    /\ at[c] \in Serving => req[c].n <= sent[c] /\ \A i \in 1 .. Len(stream[c]) :
           stream[c][i].what = "line" => req[c].n < stream[c][i].n

\* A data block comes right after its line.
Blocks(c) ==
    /\ owes[c] = NoUnit \/ (owes[c].what = "body" /\ owes[c].n = sent[c])
    /\ \A i \in 1 .. Len(stream[c]) :
           stream[c][i].what = "line" /\ stream[c][i].kind \in BodyKinds =>
               IF i < Len(stream[c]) THEN stream[c][i + 1].what = "body" ELSE owes[c].what = "body"
    /\ at[c] \in {"token", "body"} /\ req[c].kind \in BodyKinds =>
           IF stream[c] = << >> THEN owes[c].what = "body" ELSE stream[c][1].what = "body"

\* What a request is where it is, and whether it is to be answered.
Placed(c) ==
    /\ at[c] \in {"token", "body", "check", "process", "overdue"} => req[c].what = "line"
    /\ at[c] = "reply" /\ c \notin skewed => req[c].what = "line" /\ req[c].kind \notin ClosingKinds
    /\ at[c] \notin {"reply", "finish"} => ~quiet[c]
    /\ at[c] = "reply" /\ c \notin skewed => (quiet[c] <=> req[c].kind \in QuietKinds)
    /\ at[c] = "overdue" /\ c \notin skewed => req[c].kind \notin SilentKinds

\* The requests that are expected and have no reply are those that wait.
Owed(c) ==
    /\ \A i \in Len(replies[c]) + 1 .. Len(expects[c]) : expects[c][i] \in Waiting(c)
    /\ \A n \in Waiting(c) : \E i \in Len(replies[c]) + 1 .. Len(expects[c]) : expects[c][i] = n

\* The replies are the first of the expected ones.
Answered(c) ==
    c \notin skewed =>
        /\ Len(replies[c]) <= Len(expects[c])
        /\ \A i \in 1 .. Len(replies[c]) : replies[c][i] = expects[c][i]
        /\ ~Ending(c) => Owed(c)

InStep(c) == Placed(c) /\ (c \notin skewed => Numbers(c) /\ Blocks(c) /\ Answered(c))
ReplyInv == \A c \in Conns : InStep(c)

-----------------------------------------------------------------------------
(* Typing *)

\* What of TypeOK a step keeps by its assignments alone: the length of the
\* channel and the signs of the counters need TokenInv and CountInv.
RestOK ==
    /\ free \in Seq(Tokens) /\ conns \subseteq Conns
    /\ main \in {"accept", "wait", "drained", "gaveup", "closed", "exited"}
    /\ ticks \in 0 .. MaxTicks
IntOK == setData \in Int /\ getData \in Int
Typed == ConnsOK /\ ClientsOK /\ RestOK /\ IntOK /\ HistoryOK

\* Each part is about its own variables.
LEMMA TypeFrame ==
    /\ ConnsOK /\ UNCHANGED <<connVars>> => ConnsOK'
    /\ ClientsOK /\ UNCHANGED <<clientVars, replies>> => ClientsOK'
    /\ RestOK /\ UNCHANGED <<free, conns, main, ticks>> => RestOK'
    /\ IntOK /\ UNCHANGED <<setData, getData>> => IntOK'
    /\ HistoryOK /\ UNCHANGED <<stop, notified, locked, history>> => HistoryOK'
BY DEF ConnsOK, ClientsOK, RestOK, IntOK, HistoryOK, connVars, clientVars, history

\* Tokens are told from NoToken, and there is one.
LEMMA TokenFacts == NoToken \notin Tokens /\ \A t \in Tokens : t \in Nat
BY ServerAssumption DEF Tokens, NoToken

\* The initial state is well typed.
LEMMA InitTypeOK == Init => TypeOK
<1> SUFFICES ASSUME Init PROVE TypeOK
  OBVIOUS
<1>1. ConnsOK
  BY DEF Init, ConnsOK, Places, Units, NoUnit, Unit, AllKinds
<1>2. ClientsOK
  <2>1. << >> \in Seq(Units) /\ << >> \in Seq(Nat)
    BY EmptySeq
  <2> QED BY <2>1 DEF Init, ClientsOK, Units, NoUnit, Unit, AllKinds
<1>3. SharedOK
  <2>1. free \in [1 .. NumTokens -> Tokens]
    BY ServerAssumption DEF Init, Tokens
  <2>2. free \in Seq(Tokens) /\ Len(free) = NumTokens
    BY <2>1, ServerAssumption, LenProperties, SeqDef
  <2> QED BY <2>2, ServerAssumption DEF Init, SharedOK
<1>4. CountsOK /\ HistoryOK
  BY DEF Init, CountsOK, HistoryOK
<1> QED BY <1>1, <1>2, <1>3, <1>4 DEF TypeOK

\* A queue of different tokens is not longer than their number.
LEMMA ShortQueue ==
    ASSUME NEW q \in Seq(Tokens), \A i, j \in 1 .. Len(q) : q[i] = q[j] => i = j
    PROVE  Len(q) <= NumTokens
<1>1. IsFiniteSet(Tokens) /\ Cardinality(Tokens) = NumTokens
  BY FS_Interval, ServerAssumption DEF Tokens
<1>2. q \in [1 .. Len(q) -> Tokens] /\ Len(q) \in Nat
  BY LenProperties
<1>3. q \in Injection(1 .. Len(q), Tokens)
  BY <1>2 DEF Injection, IsInjective
<1>4. Cardinality(1 .. Len(q)) <= Cardinality(Tokens)
  BY <1>1, <1>3, FS_Injection
<1>5. Cardinality(1 .. Len(q)) = Len(q)
  <2>1. CASE Len(q) = 0
    BY <2>1, FS_EmptySet
  <2>2. CASE Len(q) > 0
    <3>1. Cardinality(1 .. Len(q)) = Len(q) - 1 + 1
      BY <2>2, <1>2, FS_Interval
    <3> QED BY <3>1, <1>2
  <2> QED BY <1>2, <2>1, <2>2
<1> QED BY <1>1, <1>4, <1>5

\* The head of what a client sent is a unit; what remains is a sequence of units.
LEMMA HeadTail ==
    ASSUME NEW S, NEW q \in Seq(S), q # << >>
    PROVE  /\ Head(q) \in S /\ Head(q) = q[1] /\ Tail(q) \in Seq(S)
           /\ Len(q) \in Nat \ {0} /\ Len(Tail(q)) = Len(q) - 1
           /\ \A i \in 1 .. Len(Tail(q)) : i + 1 \in 1 .. Len(q) /\ Tail(q)[i] = q[i + 1]
BY HeadTailProperties, EmptySeq, LenProperties

\* A short data block takes the next command, ...
LEMMA Gone ==
    ASSUME NEW q \in Seq(Units), Len(q) > 1, NEW later, later = Tail(Tail(q))
    PROVE  /\ later \in Seq(Units)
           /\ \A i \in 1 .. Len(later) : i + 2 \in 1 .. Len(q) /\ later[i] = q[i + 2]
<1> DEFINE rest == Tail(q)
<1>1. /\ rest \in Seq(Units) /\ Len(q) \in Nat /\ Len(rest) = Len(q) - 1
      /\ \A i \in 1 .. Len(rest) : i + 1 \in 1 .. Len(q) /\ rest[i] = q[i + 1]
  BY HeadTail, EmptySeq, LenProperties
<1>2. later = Tail(rest)
  OBVIOUS
<1> HIDE DEF rest
<1>3. rest # << >>
  BY <1>1, EmptySeq
<1>4. /\ later \in Seq(Units) /\ Len(later) = Len(rest) - 1
      /\ \A i \in 1 .. Len(later) : i + 1 \in 1 .. Len(rest) /\ later[i] = rest[i + 1]
  BY <1>1, <1>2, <1>3, HeadTail
<1>5. ASSUME NEW i \in 1 .. Len(later) PROVE i + 2 \in 1 .. Len(q) /\ later[i] = q[i + 2]
  <2>1. i + 1 \in 1 .. Len(rest) /\ later[i] = rest[i + 1]
    BY <1>4
  <2>2. i + 1 + 1 \in 1 .. Len(q) /\ rest[i + 1] = q[i + 1 + 1]
    BY <1>1, <2>1
  <2>3. i + 1 + 1 = i + 2
    BY <2>1
  <2> QED BY <2>1, <2>2, <2>3
<1> QED BY <1>4, <1>5

\* ... or its beginning.
LEMMA Cut ==
    ASSUME NEW q \in Seq(Units), Len(q) > 1, NEW cut, cut = [Tail(q) EXCEPT ![1].what = "body"]
    PROVE  /\ cut \in Seq(Units)
           /\ \A i \in 1 .. Len(cut) : /\ i + 1 \in 1 .. Len(q) /\ cut[i].kind = q[i + 1].kind
                                       /\ cut[i].what \in {"body", q[i + 1].what}
<1> DEFINE rest == Tail(q)
           u == [rest[1] EXCEPT !.what = "body"]
<1>1. /\ rest \in Seq(Units) /\ Len(q) \in Nat /\ Len(rest) = Len(q) - 1
      /\ \A i \in 1 .. Len(rest) : i + 1 \in 1 .. Len(q) /\ rest[i] = q[i + 1]
  BY HeadTail, EmptySeq, LenProperties
<1>2. cut = [rest EXCEPT ![1] = u]
  OBVIOUS
<1> HIDE DEF rest
<1>3. 1 \in 1 .. Len(rest)
  BY <1>1
<1>4. rest[1] \in Units
  BY <1>1, <1>3, ElementOfSeq
<1>5. u \in Units /\ u.what = "body" /\ u.kind = rest[1].kind
  BY <1>4 DEF Units
<1> HIDE DEF u
<1>6. /\ [rest EXCEPT ![1] = u] \in Seq(Units) /\ Len([rest EXCEPT ![1] = u]) = Len(rest)
      /\ \A i \in 1 .. Len(rest) : [rest EXCEPT ![1] = u][i] = IF i = 1 THEN u ELSE rest[i]
  BY <1>1, <1>3, <1>5, ExceptSeq
<1>7. /\ cut \in Seq(Units) /\ Len(cut) = Len(rest)
      /\ \A i \in 1 .. Len(rest) : cut[i] = IF i = 1 THEN u ELSE rest[i]
  BY <1>2, <1>6
<1> QED BY <1>1, <1>5, <1>7

\* A step of a goroutine or a client keeps the types.
LEMMA ConnTyped ==
    ASSUME Typed, NEW c \in Conns, Goroutine(c) \/ GetToken(c) \/ Accept(c) \/ Client(c)
    PROVE  Typed'
<1> USE DEF Typed
<1>1. CASE Accept(c)
  <2>1. ConnsOK'
    BY <1>1 DEF Accept, ConnsOK, Places, Go
  <2> QED BY <2>1, <1>1, TypeFrame DEF Accept, connVars, clientVars, mainVars, history
<1>2. CASE Loop(c)
  <2>1. ConnsOK'
    BY <1>2 DEF Loop, ConnsOK, Places, Go
  <2> QED BY <2>1, <1>2, TypeFrame DEF Loop, connVars, clientVars, mainVars, history
<1>3. CASE InTime(c)
  <2>1. ConnsOK'
    BY <1>3 DEF InTime, ConnsOK, Places, Go
  <2> QED BY <2>1, <1>3, TypeFrame DEF InTime, connVars, clientVars, mainVars, history
<1>4. CASE NoReply(c)
  <2>1. ConnsOK'
    BY <1>4 DEF NoReply, Returned, ConnsOK, Places, Go
  <2> QED BY <2>1, <1>4, TypeFrame DEF NoReply, connVars, clientVars, mainVars, history
<1>5. CASE Register(c)
  <2>1. ConnsOK'
    BY <1>5 DEF Register, ConnsOK, Places, Go
  <2>2. RestOK'
    BY <1>5 DEF Register, RestOK, mainVars
  <2> QED BY <2>1, <2>2, <1>5, TypeFrame DEF Register, connVars, clientVars, mainVars, history
<1>6. CASE Unregister(c)
  <2>1. ConnsOK'
    BY <1>6 DEF Unregister, ConnsOK, Places, Go
  <2>2. RestOK'
    BY <1>6 DEF Unregister, RestOK, mainVars
  <2> QED BY <2>1, <2>2, <1>6, TypeFrame DEF Unregister, connVars, clientVars, mainVars, history
<1>7. CASE ReadLine(c)
  <2>0. Head(stream[c]) \in Units /\ Tail(stream[c]) \in Seq(Units)
    BY <1>7, HeadTail DEF ReadLine, ClientsOK, RestOK
  <2>1. ConnsOK'
    BY <2>0, <1>7 DEF ReadLine, ConnsOK, Places, Go
  <2>2. ClientsOK'
    BY <2>0, <1>7 DEF ReadLine, ClientsOK
  <2>3. IntOK'
    BY <2>0, <1>7 DEF ReadLine, IntOK
  <2>4. HistoryOK'
    BY <2>0, <1>7 DEF ReadLine, HistoryOK, mainVars, history
  <2> QED BY <2>1, <2>2, <2>3, <2>4, <1>7, TypeFrame DEF ReadLine, connVars, clientVars, mainVars, history
<1>8. CASE ReadEOF(c)
  <2>1. ConnsOK'
    BY <1>8 DEF ReadEOF, ConnsOK, Places, Go, Shutdown, Units, NoUnit, Unit, AllKinds
  <2> QED BY <2>1, <1>8, TypeFrame DEF ReadEOF, connVars, clientVars, mainVars, history
<1>9. CASE GetToken(c)
  <2>0. Head(free) \in Tokens /\ Tail(free) \in Seq(Tokens)
    BY <1>9, HeadTail DEF GetToken, ClientsOK, RestOK
  <2>1. ConnsOK'
    BY <2>0, <1>9 DEF GetToken, ConnsOK, Places, Go
  <2>2. RestOK'
    BY <2>0, <1>9 DEF GetToken, RestOK, mainVars
  <2>3. IntOK'
    BY <2>0, <1>9 DEF GetToken, IntOK
  <2> QED BY <2>1, <2>2, <2>3, <1>9, TypeFrame DEF GetToken, connVars, clientVars, mainVars, history
<1>10. CASE ReadBody(c)
  <2>0. Tail(stream[c]) \in Seq(Units)
    BY <1>10, HeadTail DEF ReadBody, ClientsOK, RestOK
  <2>1. ConnsOK'
    BY <2>0, <1>10 DEF ReadBody, ConnsOK, Places, Go
  <2>2. ClientsOK'
    BY <2>0, <1>10 DEF ReadBody, ClientsOK
  <2> QED BY <2>1, <2>2, <1>10, TypeFrame DEF ReadBody, connVars, clientVars, mainVars, history
<1>11. CASE BodyEOF(c)
  <2>1. ConnsOK'
    BY <1>11 DEF BodyEOF, ConnsOK, Places, Go, Shutdown
  <2>2. IntOK'
    BY <1>11 DEF BodyEOF, IntOK
  <2>3. << >> \in Seq(Units)
    BY EmptySeq
  <2>4. ClientsOK'
    BY <2>3, <1>11 DEF BodyEOF, ClientsOK
  <2> QED BY <2>1, <2>2, <2>4, <1>11, TypeFrame DEF BodyEOF, connVars, clientVars, mainVars, history
<1>12. CASE RecvTimeout(c)
  <2>1. ConnsOK'
    BY <1>12 DEF RecvTimeout, ConnsOK, Places, Go
  <2>2. HistoryOK'
    BY <1>12 DEF RecvTimeout, HistoryOK, mainVars, history
  <2> QED BY <2>1, <2>2, <1>12, TypeFrame DEF RecvTimeout, connVars, clientVars, mainVars, history
<1>13. CASE Panic(c)
  <2>1. ConnsOK'
    BY <1>13 DEF Panic, ConnsOK, Places, Go
  <2>2. HistoryOK'
    BY <1>13 DEF Panic, HistoryOK, mainVars, history
  <2> QED BY <2>1, <2>2, <1>13, TypeFrame DEF Panic, connVars, clientVars, mainVars, history
<1>14. CASE ProcessTimeout(c)
  <2>1. ConnsOK'
    BY <1>14 DEF ProcessTimeout, Returned, ConnsOK, Places, Go
  <2>2. HistoryOK'
    BY <1>14 DEF ProcessTimeout, HistoryOK, mainVars, history
  <2> QED BY <2>1, <2>2, <1>14, TypeFrame DEF ProcessTimeout, connVars, clientVars, mainVars, history
<1>15. CASE Process(c)
  <2>0. quiet' = [quiet EXCEPT ![c] = TRUE] \/ quiet' = [quiet EXCEPT ![c] = FALSE]
    <3>1. CASE req[c].kind \in QuietKinds
      BY <1>15, <3>1 DEF Process
    <3>2. CASE req[c].kind \notin QuietKinds
      <4>1. (req[c].kind \in QuietKinds) = FALSE
        BY <3>2
      <4>2. quiet' = [quiet EXCEPT ![c] = (req[c].kind \in QuietKinds)]
        BY <1>15 DEF Process
      <4> QED BY <4>1, <4>2
    <3> QED BY <3>1, <3>2
  <2>1. ConnsOK'
    BY <1>15, <2>0 DEF Process, ConnsOK, Places, Go, Shutdown, Held
  <2>2. IntOK'
    BY <1>15 DEF Process, IntOK, Released, Fetched
  <2>3. HistoryOK'
    BY <1>15 DEF Process, HistoryOK, mainVars, history
  <2> QED BY <2>1, <2>2, <2>3, <1>15, TypeFrame DEF Process, connVars, clientVars, mainVars, history
<1>16. CASE Reply(c)
  <2>1. ConnsOK'
    BY <1>16 DEF Reply, ConnsOK, Places, Go
  <2>2. ClientsOK'
    <3>1. (IF req[c].what = "line" THEN req[c].n ELSE 0) \in Nat
      BY DEF ConnsOK, Units
    <3>2. Append(replies[c], IF req[c].what = "line" THEN req[c].n ELSE 0) \in Seq(Nat)
      BY <3>1, AppendProperties DEF ClientsOK
    <3> QED BY <1>16, <3>2 DEF Reply, ClientsOK, clientVars
  <2>3. HistoryOK'
    BY <1>16 DEF Reply, HistoryOK, mainVars, history
  <2> QED BY <2>1, <2>2, <2>3, <1>16, TypeFrame DEF Reply, connVars, clientVars, mainVars, history
<1>17. CASE WriteFails(c)
  <2>1. ConnsOK'
    BY <1>17 DEF WriteFails, ConnsOK, Places, Go, Shutdown
  <2> QED BY <2>1, <1>17, TypeFrame DEF WriteFails, connVars, clientVars, mainVars, history
<1>18. CASE Finish(c)
  <2>1. ConnsOK'
    BY <1>18 DEF Finish, ConnsOK, Places, Go, Units, NoUnit, Unit, AllKinds
  <2>2. RestOK'
    BY <1>18 DEF Finish, RestOK, mainVars, ConnsOK
  <2>3. IntOK'
    BY <1>18 DEF Finish, IntOK, ConnsOK
  <2>4. HistoryOK'
    BY <1>18 DEF Finish, HistoryOK, mainVars, history
  <2> QED BY <2>1, <2>2, <2>3, <2>4, <1>18, TypeFrame DEF Finish, connVars, clientVars, mainVars, history
<1>19. CASE SendBody(c)
  <2>1. ClientsOK'
    BY <1>19 DEF SendBody, ClientsOK, Units, NoUnit, Unit, AllKinds
  <2> QED BY <2>1, <1>19, TypeFrame DEF SendBody, connVars, clientVars, mainVars, history
<1>20. CASE HangUp(c)
  <2>1. ClientsOK'
    BY <1>20 DEF HangUp, ClientsOK
  <2> QED BY <2>1, <1>20, TypeFrame DEF HangUp, connVars, clientVars, mainVars, history
<1>21. ASSUME NEW kind \in Kinds, SendLine(c, kind) PROVE Typed'
  <2> DEFINE u == Unit("line", kind, sent[c] + 1)
             b == Unit("body", kind, u.n)
  <2>1. u \in Units /\ b \in Units /\ u.n \in Nat
    BY ServerAssumption DEF ClientsOK, Units, Unit
  <2>2. Append(stream[c], u) \in Seq(Units) /\ Append(expects[c], u.n) \in Seq(Nat)
    BY <2>1, AppendProperties DEF ClientsOK
  <2>3. /\ stream' = [stream EXCEPT ![c] = Append(@, u)]
        /\ sent' = [sent EXCEPT ![c] = u.n]
        /\ owes' = owes \/ owes' = [owes EXCEPT ![c] = b]
        /\ expects' = expects \/ expects' = [expects EXCEPT ![c] = Append(@, u.n)]
        /\ hungup' = hungup /\ replies' = replies
    BY <1>21 DEF SendLine
  <2> HIDE DEF u, b
  <2>4. ClientsOK'
    BY <2>1, <2>2, <2>3 DEF ClientsOK
  <2> QED BY <2>4, <1>21, TypeFrame DEF SendLine, connVars, clientVars, mainVars, history
<1>22. CASE ReadUnfit(c)
  <2>1. ConnsOK'
    BY <1>22 DEF ReadUnfit, ConnsOK, Places, Go
  <2>2. IntOK'
    BY <1>22 DEF ReadUnfit, IntOK
  <2> QED BY <2>1, <2>2, <1>22, TypeFrame DEF ReadUnfit, connVars, clientVars, mainVars, history
<1>23. ASSUME NEW ends \in BOOLEAN, ReadShort(c, ends) PROVE Typed'
  <2>1. ConnsOK'
    BY <1>23 DEF ReadShort, ConnsOK, Places, Go
  <2>2. stream[c] \in Seq(Units) /\ Len(stream[c]) > 1
    BY <1>23 DEF ReadShort, ClientsOK
  <2>3. /\ Tail(Tail(stream[c])) \in Seq(Units)
        /\ [Tail(stream[c]) EXCEPT ![1].what = "body"] \in Seq(Units)
    BY <2>2, Cut, Gone
  <2>4. ClientsOK'
    BY <2>3, <1>23 DEF ReadShort, ClientsOK
  <2>5. IntOK'
    BY <1>23 DEF ReadShort, IntOK
  <2>6. HistoryOK'
    BY <1>23 DEF ReadShort, HistoryOK, mainVars, history
  <2> QED BY <2>1, <2>4, <2>5, <2>6, <1>23, TypeFrame DEF ReadShort, connVars, clientVars, mainVars, history
<1> QED BY <1>1, <1>2, <1>3, <1>4, <1>5, <1>6, <1>7, <1>8, <1>9, <1>10, <1>11, <1>12, <1>13, <1>14, <1>15, <1>16, <1>17, <1>18, <1>19, <1>20, <1>21, <1>22, <1>23 DEF Goroutine, Client

\* A step of the main goroutine or of the signal handler keeps the types.
LEMMA MainTyped ==
    ASSUME Typed, TickInv, Signal \/ Notify \/ AcceptFails \/ Main
    PROVE  Typed'
<1> USE DEF Typed
<1>1. CASE Signal
  <2>1. HistoryOK'
    BY <1>1 DEF Signal, HistoryOK, history
  <2> QED BY <2>1, <1>1, TypeFrame DEF Signal, connVars, clientVars, history
<1>2. CASE Notify
  <2>1. ConnsOK'
    BY <1>2 DEF Notify, ConnsOK
  <2>2. HistoryOK'
    BY <1>2 DEF Notify, HistoryOK, history
  <2> QED BY <2>1, <2>2, <1>2, TypeFrame DEF Notify, connVars, clientVars, history
<1>3. CASE StopAccept
  <2>1. RestOK'
    BY <1>3 DEF StopAccept, RestOK
  <2> QED BY <2>1, <1>3, TypeFrame DEF StopAccept, connVars, clientVars, history
<1>4. CASE Drained
  <2>1. RestOK'
    BY <1>4 DEF Drained, RestOK
  <2>2. HistoryOK'
    BY <1>4 DEF Drained, HistoryOK, history
  <2> QED BY <2>1, <2>2, <1>4, TypeFrame DEF Drained, connVars, clientVars, history
<1>5. CASE WaitTick
  <2>1. RestOK'
    BY <1>5, ServerAssumption DEF WaitTick, RestOK, TickInv
  <2> QED BY <2>1, <1>5, TypeFrame DEF WaitTick, connVars, clientVars, history
<1>6. CASE CloseStore
  <2>1. RestOK'
    BY <1>6 DEF CloseStore, RestOK
  <2> QED BY <2>1, <1>6, TypeFrame DEF CloseStore, connVars, clientVars, history
<1>7. CASE Exit
  <2>1. RestOK'
    BY <1>7 DEF Exit, RestOK
  <2> QED BY <2>1, <1>7, TypeFrame DEF Exit, connVars, clientVars, history
<1>8. CASE AcceptFails
  <2>1. RestOK'
    BY <1>8, ServerAssumption DEF AcceptFails, RestOK
  <2> QED BY <2>1, <1>8, TypeFrame DEF AcceptFails, connVars, clientVars, history
<1> QED BY <1>1, <1>2, <1>3, <1>4, <1>5, <1>6, <1>7, <1>8 DEF Main

\* Serve counts its looks from 0 to MaxTicks.
LEMMA Ticks == ASSUME TickInv, Typed, [Next]_vars PROVE TickInv'
<1> USE DEF TickInv
<1>1. CASE \E c \in Conns : Goroutine(c) \/ GetToken(c) \/ Accept(c) \/ Client(c)
  <2>1. ASSUME NEW c \in Conns, Goroutine(c) \/ GetToken(c) \/ Accept(c) PROVE UNCHANGED <<main, ticks>>
    BY <2>1 DEF Goroutine, GetToken, Accept, Register, Loop,
       Unregister, ReadLine, ReadEOF, ReadBody, ReadUnfit, ReadShort, BodyEOF, RecvTimeout, InTime, Process, Panic,
       ProcessTimeout, Reply, WriteFails, NoReply, Finish, mainVars
  <2>2. ASSUME NEW c \in Conns, Client(c) PROVE UNCHANGED <<main, ticks>>
    BY <2>2 DEF Client, SendBody, HangUp, SendLine, mainVars
  <2> QED BY <1>1, <2>1, <2>2
<1>2. CASE Signal \/ Notify \/ UNCHANGED vars
  BY <1>2 DEF Signal, Notify, vars, mainVars
<1>3. CASE AcceptFails \/ Main
  BY <1>3, ServerAssumption DEF AcceptFails, Main, StopAccept, Drained, WaitTick, CloseStore, Exit, Typed, RestOK
<1> QED BY <1>1, <1>2, <1>3 DEF Next

-----------------------------------------------------------------------------
(* Tokens *)

\* Initially all tokens are in the channel.
LEMMA InitTokens == Init => TokenInv
<1> SUFFICES ASSUME Init PROVE TokenInv
  OBVIOUS
<1>1. Len(free) = NumTokens /\ \A i \in 1 .. NumTokens : free[i] = i - 1
  <2>1. free \in Seq(Tokens) /\ free \in [1 .. NumTokens -> Tokens]
    BY InitTypeOK, ServerAssumption DEF TypeOK, SharedOK, Init, Tokens
  <2> QED BY <2>1, LenProperties, ServerAssumption DEF Init
<1>2. \A t \in Tokens : t + 1 \in 1 .. Len(free) /\ free[t + 1] = t
  BY <1>1, ServerAssumption DEF Tokens
<1>3. \A c \in Conns : token[c] = NoToken
  BY DEF Init
<1>4. \A i \in 1 .. Len(free) : free[i] # NoToken
  BY <1>1, ServerAssumption DEF NoToken
<1>5. \A i, j \in 1 .. Len(free) : free[i] = free[j] => i = j
  BY <1>1, ServerAssumption
<1> QED BY <1>2, <1>3, <1>4, <1>5 DEF TokenInv

\* A request that moves on with its token.
LEMMA TokenMoves ==
    ASSUME Typed, TokenInv, NEW c \in Conns, NEW place, Go(c, place), UNCHANGED <<token, free>>,
           token[c] # NoToken => place \in {"body", "check", "process", "reply", "overdue", "finish"}
    PROVE  TokenInv'
<1>1. \A d \in Conns : at'[d] = IF d = c THEN place ELSE at[d]
  BY DEF Typed, ConnsOK, Go
<1> QED BY <1>1 DEF TokenInv

\* RL.Get takes the first token of the channel.
LEMMA TokenTaken ==
    ASSUME Typed, TokenInv, NEW c \in Conns, GetToken(c)
    PROVE  TokenInv'
<1>1. token[c] = NoToken
  BY DEF TokenInv, GetToken, Runs
<1>2. /\ Head(free) \in Tokens /\ Head(free) = free[1] /\ 1 \in 1 .. Len(free)
      /\ Len(free') \in Nat /\ Len(free) = Len(free') + 1
      /\ \A i \in 1 .. Len(free') : i + 1 \in 1 .. Len(free) /\ free'[i] = free[i + 1]
  BY HeadTail DEF GetToken, Typed, RestOK
<1>3. /\ token'[c] = free[1] /\ free[1] # NoToken
      /\ \A d \in Conns \ {c} : token'[d] = token[d] /\ at'[d] = at[d]
  BY <1>2, TokenFacts DEF GetToken, Typed, ConnsOK, Go
<1>4. at'[c] \in {"body", "check"}
  BY DEF GetToken, Typed, ConnsOK, Go
<1>5. \A i \in 1 .. Len(free) : i = 1 \/ (i - 1 \in 1 .. Len(free') /\ free'[i - 1] = free[i])
  BY <1>2
<1>6. \A d \in Conns : token'[d] # NoToken =>
           at'[d] \in {"body", "check", "process", "reply", "overdue", "finish"}
  BY <1>3, <1>4 DEF TokenInv
<1>7. \A d, e \in Conns : token'[d] = token'[e] /\ token'[d] # NoToken => d = e
  BY <1>2, <1>3 DEF TokenInv
<1>8. \A i, j \in 1 .. Len(free') : free'[i] = free'[j] => i = j
  <2> SUFFICES ASSUME NEW i \in 1 .. Len(free'), NEW j \in 1 .. Len(free'), free'[i] = free'[j]
               PROVE  i = j
    OBVIOUS
  <2>1. i + 1 = j + 1
    BY <1>2 DEF TokenInv
  <2> QED BY <2>1
<1>9. \A d \in Conns : \A i \in 1 .. Len(free') : free'[i] # token'[d]
  <2> SUFFICES ASSUME NEW d \in Conns, NEW i \in 1 .. Len(free') PROVE free'[i] # token'[d]
    OBVIOUS
  <2>1. i + 1 # 1 /\ free'[i] = free[i + 1]
    BY <1>2
  <2> QED BY <1>2, <1>3, <2>1 DEF TokenInv
<1>10. \A t \in Tokens : (\E d \in Conns : token'[d] = t) \/ \E i \in 1 .. Len(free') : free'[i] = t
  <2> SUFFICES ASSUME NEW t \in Tokens
               PROVE  (\E d \in Conns : token'[d] = t) \/ \E i \in 1 .. Len(free') : free'[i] = t
    OBVIOUS
  <2>1. CASE \E d \in Conns : token[d] = t
    BY <2>1, <1>1, <1>3, TokenFacts
  <2>2. CASE \E i \in 1 .. Len(free) : free[i] = t
    BY <2>2, <1>3, <1>5
  <2> QED BY <2>1, <2>2 DEF TokenInv
<1> QED BY <1>6, <1>7, <1>8, <1>9, <1>10 DEF TokenInv

\* RL.Put appends the token of the request, if it has one.
LEMMA TokenPut ==
    ASSUME Typed, TokenInv, NEW c \in Conns, Finish(c)
    PROVE  TokenInv'
<1>1. /\ \A d \in Conns : token'[d] = IF d = c THEN NoToken ELSE token[d]
      /\ \A d \in Conns : d # c => at'[d] = at[d]
  BY DEF Finish, Typed, ConnsOK, Go
<1>2. CASE token[c] = NoToken
  BY <1>1, <1>2, TokenFacts DEF Finish, TokenInv
<1>3. CASE token[c] # NoToken
  <2>1. token[c] \in Tokens /\ free' = Append(free, token[c])
    BY <1>3 DEF Finish, Typed, ConnsOK
  <2>2. /\ Len(free) \in Nat /\ Len(free') = Len(free) + 1
        /\ \A i \in 1 .. Len(free) : i \in 1 .. Len(free') /\ free'[i] = free[i]
        /\ free'[Len(free) + 1] = token[c]
    BY <2>1, AppendProperties, LenProperties DEF Typed, RestOK
  <2>3. \A i \in 1 .. Len(free') : i \in 1 .. Len(free) \/ i = Len(free) + 1
    BY <2>2
  <2>4. \A d \in Conns : token'[d] # NoToken =>
           at'[d] \in {"body", "check", "process", "reply", "overdue", "finish"}
    BY <1>1 DEF TokenInv
  <2>5. \A d, e \in Conns : token'[d] = token'[e] /\ token'[d] # NoToken => d = e
    BY <1>1 DEF TokenInv
  <2>6. \A i, j \in 1 .. Len(free') : free'[i] = free'[j] => i = j
    BY <2>2, <2>3 DEF TokenInv
  <2>7. \A d \in Conns : \A i \in 1 .. Len(free') : free'[i] # token'[d]
    <3> SUFFICES ASSUME NEW d \in Conns, NEW i \in 1 .. Len(free') PROVE free'[i] # token'[d]
      OBVIOUS
    <3>1. CASE i \in 1 .. Len(free)
      <4>1. free[i] \in Tokens
        BY <3>1, ElementOfSeq DEF Typed, RestOK
      <4> QED BY <1>1, <2>2, <3>1, <4>1, TokenFacts DEF TokenInv
    <3>2. CASE i = Len(free) + 1
      BY <1>1, <1>3, <2>1, <2>2, <3>2 DEF TokenInv
    <3> QED BY <2>3, <3>1, <3>2
  <2>8. \A t \in Tokens : (\E d \in Conns : token'[d] = t) \/ \E i \in 1 .. Len(free') : free'[i] = t
    <3> SUFFICES ASSUME NEW t \in Tokens
                 PROVE  (\E d \in Conns : token'[d] = t) \/ \E i \in 1 .. Len(free') : free'[i] = t
      OBVIOUS
    <3>1. CASE token[c] = t
      BY <2>2, <3>1
    <3>2. CASE \E d \in Conns \ {c} : token[d] = t
      BY <1>1, <3>2
    <3>3. CASE \E i \in 1 .. Len(free) : free[i] = t
      BY <2>2, <3>3
    <3> QED BY <3>1, <3>2, <3>3 DEF TokenInv
  <2> QED BY <2>4, <2>5, <2>6, <2>7, <2>8 DEF TokenInv
<1> QED BY <1>2, <1>3

\* A step keeps every token in one place.
LEMMA Tokened == ASSUME Typed, TokenInv, [Next]_vars PROVE TokenInv'
<1>0. \A c \in Conns : token[c] # NoToken =>
           at[c] \in {"body", "check", "process", "reply", "overdue", "finish"}
  BY DEF TokenInv
<1>1. ASSUME NEW c \in Conns, Goroutine(c) \/ Accept(c), ~Finish(c) PROVE TokenInv'
  <2>1. UNCHANGED <<token, free>>
    BY <1>1 DEF Goroutine, Accept, Register, Loop, Unregister, ReadLine, ReadEOF, ReadBody, ReadUnfit, ReadShort, BodyEOF,
       RecvTimeout, InTime, Process, Panic, ProcessTimeout, Reply, WriteFails, NoReply
  <2>2. \E place \in Places : Go(c, place) /\
           (token[c] # NoToken =>
               place \in {"body", "check", "process", "reply", "overdue", "finish"})
    <3>1. CASE Accept(c) \/ Register(c) \/ Loop(c) \/ Unregister(c) \/ ReadLine(c)
      BY <3>1, <1>0 DEF Accept, Register, Loop, Unregister, ReadLine, Runs, Places
    <3>2. CASE \/ ReadEOF(c) \/ ReadBody(c) \/ BodyEOF(c) \/ RecvTimeout(c) \/ InTime(c)
               \/ ReadUnfit(c) \/ \E ends \in BOOLEAN : ReadShort(c, ends)
      BY <3>2, <1>0 DEF ReadEOF, ReadBody, ReadUnfit, ReadShort, BodyEOF, RecvTimeout, InTime, Runs, Places
    <3>3. CASE Process(c) \/ Panic(c) \/ ProcessTimeout(c) \/ Reply(c) \/ WriteFails(c) \/ NoReply(c)
      BY <3>3, <1>0 DEF Process, Panic, ProcessTimeout, Reply, WriteFails, NoReply, Runs, Places
    <3> QED BY <1>1, <3>1, <3>2, <3>3 DEF Goroutine
  <2> QED BY <2>1, <2>2, TokenMoves
<1>2. ASSUME NEW c \in Conns, Client(c) PROVE UNCHANGED <<at, token, free>>
  BY <1>2 DEF Client, SendBody, HangUp, SendLine, connVars
<1>3. ASSUME Signal \/ Notify \/ AcceptFails \/ Main \/ UNCHANGED vars PROVE UNCHANGED <<at, token, free>>
  BY <1>3 DEF Signal, Notify, AcceptFails, Main, StopAccept, Drained, WaitTick, CloseStore, Exit, vars, connVars
<1>4. ASSUME UNCHANGED <<at, token, free>> PROVE TokenInv'
  BY <1>4 DEF TokenInv
<1> QED BY <1>1, <1>2, <1>3, <1>4, TokenTaken, TokenPut DEF Next
-----------------------------------------------------------------------------
(* Buffers *)

SetUnits(c) == IF HoldsSet(c) THEN 1 ELSE 0

\* Leaving a connection out of a set of connections.
LEMMA LeaveOut ==
    ASSUME NEW S \in SUBSET Conns, NEW c
    PROVE  /\ Cardinality(S) \in Nat
           /\ Cardinality(S \ {c}) = Cardinality(S) - (IF c \in S THEN 1 ELSE 0)
<1>1. IsFiniteSet(S) /\ Cardinality(S) \in Nat
  BY ServerAssumption, FS_Subset, FS_CardinalityType
<1>2. Cardinality(S \ {c}) = IF c \in S THEN Cardinality(S) - 1 ELSE Cardinality(S)
  BY <1>1, FS_RemoveElement
<1> QED BY <1>1, <1>2

\* Two sets of connections that differ in c only.
LEMMA DifferInOne ==
    ASSUME NEW S \in SUBSET Conns, NEW T \in SUBSET Conns, NEW c \in Conns,
           \A d \in Conns \ {c} : d \in S <=> d \in T
    PROVE  /\ Cardinality(S) \in Nat /\ Cardinality(T) \in Nat
           /\ Cardinality(T) - (IF c \in T THEN 1 ELSE 0) = Cardinality(S) - (IF c \in S THEN 1 ELSE 0)
<1>1. S \ {c} = T \ {c}
  OBVIOUS
<1>2. /\ Cardinality(S) \in Nat
      /\ Cardinality(S \ {c}) = Cardinality(S) - (IF c \in S THEN 1 ELSE 0)
  BY LeaveOut
<1>3. /\ Cardinality(T) \in Nat
      /\ Cardinality(T \ {c}) = Cardinality(T) - (IF c \in T THEN 1 ELSE 0)
  BY LeaveOut
<1> QED BY <1>1, <1>2, <1>3

\* A step of connection c changes the holders by c.
LEMMA HoldersStep ==
    ASSUME Typed, Typed', NEW c \in Conns,
           \A d \in Conns \ {c} : at'[d] = at[d] /\ req'[d] = req[d] /\ items'[d] = items[d]
    PROVE  /\ Cardinality(SetHolders) \in Nat /\ Cardinality(GetHolders) \in Nat
           /\ Cardinality(SetHolders') \in Nat /\ Cardinality(GetHolders') \in Nat
           /\ Cardinality(SetHolders') - SetUnits(c)' = Cardinality(SetHolders) - SetUnits(c)
           /\ Cardinality(GetHolders') - items'[c] = Cardinality(GetHolders) - items[c]
<1>1. SetHolders \in SUBSET Conns /\ SetHolders' \in SUBSET Conns
      /\ \A d \in Conns : (d \in SetHolders <=> HoldsSet(d)) /\ (d \in SetHolders' <=> HoldsSet(d)')
  BY DEF SetHolders
<1>2. GetHolders \in SUBSET Conns /\ GetHolders' \in SUBSET Conns
      /\ \A d \in Conns : (d \in GetHolders <=> items[d] = 1) /\ (d \in GetHolders' <=> items'[d] = 1)
  BY DEF GetHolders
<1>3. \A d \in Conns \ {c} : HoldsSet(d)' <=> HoldsSet(d)
  BY DEF HoldsSet
<1>4. /\ SetUnits(c) = IF c \in SetHolders THEN 1 ELSE 0
      /\ SetUnits(c)' = IF c \in SetHolders' THEN 1 ELSE 0
  BY <1>1 DEF SetUnits
<1>5. /\ items[c] = IF c \in GetHolders THEN 1 ELSE 0
      /\ items'[c] = IF c \in GetHolders' THEN 1 ELSE 0
  BY <1>2 DEF Typed, ConnsOK
<1>6. /\ Cardinality(SetHolders) \in Nat /\ Cardinality(SetHolders') \in Nat
      /\ Cardinality(SetHolders') - SetUnits(c)' = Cardinality(SetHolders) - SetUnits(c)
  <2>1. \A d \in Conns \ {c} : d \in SetHolders <=> d \in SetHolders'
    BY <1>1, <1>3
  <2> QED BY <1>1, <1>4, <2>1, DifferInOne
<1>7. /\ Cardinality(GetHolders) \in Nat /\ Cardinality(GetHolders') \in Nat
      /\ Cardinality(GetHolders') - items'[c] = Cardinality(GetHolders) - items[c]
  <2>1. \A d \in Conns \ {c} : d \in GetHolders <=> d \in GetHolders'
    BY <1>2
  <2> QED BY <1>2, <1>5, <2>1, DifferInOne
<1> QED BY <1>6, <1>7

\* What a step of c counts covers what the request of c holds after it.
Covers(c) ==
    /\ setData' - setData >= SetUnits(c)' - SetUnits(c)
    /\ getData' - getData >= items'[c] - items[c]
    /\ items'[c] = 1 => at'[c] \in {"reply", "finish"}
    /\ at'[c] = "body" => req'[c].kind \in BodyKinds

\* It is exact for the kinds that take back what they count.
Exact(c) ==
    req'[c].kind \in Balanced /\ req[c].kind \in Balanced /\ ~spoiled' /\ ~panicked' =>
        /\ setData' - setData = SetUnits(c)' - SetUnits(c)
        /\ getData' - getData = items'[c] - items[c]

\* Every step of a goroutine counts what it takes and gives back.
LEMMA Counted ==
    ASSUME Typed, UnitInv, CountInv, NEW c \in Conns, Goroutine(c) \/ GetToken(c) \/ Accept(c)
    PROVE  /\ Covers(c) /\ Exact(c)
           /\ \A d \in Conns \ {c} : at'[d] = at[d] /\ req'[d] = req[d] /\ items'[d] = items[d]
<1> USE DEF Typed, ConnsOK, IntOK
<1>0. /\ at[c] \in Places /\ items[c] \in {0, 1} /\ setData \in Int /\ getData \in Int
      /\ items[c] = 1 => at[c] \in {"reply", "finish"}
      /\ at[c] = "body" => req[c].kind \in BodyKinds
  BY DEF CountInv, HoldInv
<1>1. CASE Accept(c)
  <2>1. /\ \A d \in Conns \ {c} : at'[d] = at[d] /\ req'[d] = req[d] /\ items'[d] = items[d]
        /\ req'[c] = req[c] /\ items'[c] = items[c] /\ setData' = setData /\ getData' = getData
        /\ at[c] = "none" /\ at'[c] = "accepted"
    BY <1>0, <1>1 DEF Accept, Runs, Go
  <2> QED BY <1>0, <2>1 DEF Covers, Exact, SetUnits, HoldsSet, BodyKinds
<1>2. CASE Register(c)
  <2>1. /\ \A d \in Conns \ {c} : at'[d] = at[d] /\ req'[d] = req[d] /\ items'[d] = items[d]
        /\ req'[c] = req[c] /\ items'[c] = items[c] /\ setData' = setData /\ getData' = getData
        /\ at[c] = "accepted" /\ at'[c] = "loop"
    BY <1>0, <1>2 DEF Register, Runs, Go
  <2> QED BY <1>0, <2>1 DEF Covers, Exact, SetUnits, HoldsSet, BodyKinds
<1>3. CASE Loop(c)
  <2>1. /\ \A d \in Conns \ {c} : at'[d] = at[d] /\ req'[d] = req[d] /\ items'[d] = items[d]
        /\ req'[c] = req[c] /\ items'[c] = items[c] /\ setData' = setData /\ getData' = getData
        /\ at[c] = "loop" /\ at'[c] \in {"close", "read"}
    BY <1>0, <1>3 DEF Loop, Runs, Go
  <2> QED BY <1>0, <2>1 DEF Covers, Exact, SetUnits, HoldsSet, BodyKinds
<1>4. CASE Unregister(c)
  <2>1. /\ \A d \in Conns \ {c} : at'[d] = at[d] /\ req'[d] = req[d] /\ items'[d] = items[d]
        /\ req'[c] = req[c] /\ items'[c] = items[c] /\ setData' = setData /\ getData' = getData
        /\ at[c] = "close" /\ at'[c] = "gone"
    BY <1>0, <1>4 DEF Unregister, Runs, Go
  <2> QED BY <1>0, <2>1 DEF Covers, Exact, SetUnits, HoldsSet, BodyKinds
<1>5. CASE ReadLine(c)
  <2>0. Head(stream[c]).what \in {"line", "body"}
    <3>1. stream[c] \in Seq(Units) /\ stream[c] # << >>
      BY <1>5 DEF ClientsOK, ReadLine
    <3>2. Head(stream[c]) = stream[c][1] /\ 1 \in 1 .. Len(stream[c])
      BY <3>1, HeadTail
    <3> QED BY <3>2 DEF UnitInv
  <2>1. /\ \A d \in Conns \ {c} : at'[d] = at[d] /\ req'[d] = req[d] /\ items'[d] = items[d]
        /\ req'[c] = Head(stream[c]) /\ items'[c] = items[c] /\ getData' = getData /\ at[c] = "read"
        /\ setData' = IF req'[c].what = "line" /\ req'[c].kind \in CountedKinds THEN setData + 1 ELSE setData
        /\ at'[c] = IF req'[c].what = "body" \/ req'[c].kind = "refused" THEN "reply"
                    ELSE IF req'[c].kind \in TokenKinds THEN "token" ELSE "check"
        /\ req'[c].what \in {"line", "body"}
    BY <1>0, <1>5, <2>0 DEF ReadLine, Runs, Go
  <2> QED BY <1>0, <2>1 DEF Covers, Exact, SetUnits, HoldsSet, BodyKinds, CountedKinds, TokenKinds, AllKinds, Balanced
<1>6. CASE ReadEOF(c)
  <2>1. /\ \A d \in Conns \ {c} : at'[d] = at[d] /\ req'[d] = req[d] /\ items'[d] = items[d]
        /\ items'[c] = items[c] /\ setData' = setData /\ getData' = getData
        /\ at[c] = "read" /\ at'[c] = "finish"
    BY <1>0, <1>6 DEF ReadEOF, Runs, Go
  <2> QED BY <1>0, <2>1 DEF Covers, Exact, SetUnits, HoldsSet, BodyKinds
<1>7. CASE GetToken(c)
  <2>1. /\ \A d \in Conns \ {c} : at'[d] = at[d] /\ req'[d] = req[d] /\ items'[d] = items[d]
        /\ req'[c] = req[c] /\ items'[c] = items[c] /\ getData' = getData /\ at[c] = "token"
        /\ setData' = IF req[c].kind \in BodyKinds THEN setData + 1 ELSE setData
        /\ at'[c] = IF req[c].kind \in BodyKinds THEN "body" ELSE "check"
    BY <1>0, <1>7 DEF GetToken, Runs, Go
  <2> QED BY <1>0, <2>1 DEF Covers, Exact, SetUnits, HoldsSet, BodyKinds
<1>8. CASE ReadBody(c)
  <2>1. /\ \A d \in Conns \ {c} : at'[d] = at[d] /\ req'[d] = req[d] /\ items'[d] = items[d]
        /\ req'[c] = req[c] /\ items'[c] = items[c] /\ getData' = getData /\ at[c] = "body"
        /\ setData' = setData /\ req[c].kind \notin {"unfit", "short"} /\ at'[c] = "check"
    BY <1>0, <1>8 DEF ReadBody, Runs, Go
  <2> QED BY <1>0, <2>1 DEF Covers, Exact, SetUnits, HoldsSet, BodyKinds, Balanced
<1>19. CASE ReadUnfit(c)
  <2>1. /\ \A d \in Conns \ {c} : at'[d] = at[d] /\ req'[d] = req[d] /\ items'[d] = items[d]
        /\ req'[c] = req[c] /\ items'[c] = items[c] /\ getData' = getData /\ at[c] = "body"
        /\ setData' = setData - 1 /\ at'[c] = "reply"
    BY <1>0, <1>19 DEF ReadUnfit, Runs, Go
  <2> QED BY <1>0, <2>1 DEF Covers, Exact, SetUnits, HoldsSet, BodyKinds, Balanced
<1>20. ASSUME NEW ends \in BOOLEAN, ReadShort(c, ends)
       PROVE  /\ Covers(c) /\ Exact(c)
              /\ \A d \in Conns \ {c} : at'[d] = at[d] /\ req'[d] = req[d] /\ items'[d] = items[d]
  <2>1. /\ \A d \in Conns \ {c} : at'[d] = at[d] /\ req'[d] = req[d] /\ items'[d] = items[d]
        /\ req'[c] = req[c] /\ items'[c] = items[c] /\ getData' = getData /\ at[c] = "body"
        /\ setData' = IF ends THEN setData ELSE setData - 1
        /\ at'[c] = IF ends THEN "check" ELSE "reply"
        /\ req[c].kind = "short"
    BY <1>0, <1>20 DEF ReadShort, Runs, Go
  <2> QED BY <1>0, <2>1 DEF Covers, Exact, SetUnits, HoldsSet, BodyKinds, Balanced
<1>9. CASE BodyEOF(c)
  <2>1. /\ \A d \in Conns \ {c} : at'[d] = at[d] /\ req'[d] = req[d] /\ items'[d] = items[d]
        /\ req'[c] = req[c] /\ items'[c] = items[c] /\ getData' = getData /\ at[c] = "body"
        /\ setData' = setData - 1 /\ at'[c] = "finish"
    BY <1>0, <1>9 DEF BodyEOF, Runs, Go
  <2> QED BY <1>0, <2>1 DEF Covers, Exact, SetUnits, HoldsSet, BodyKinds
<1>10. CASE RecvTimeout(c)
  <2>1. /\ \A d \in Conns \ {c} : at'[d] = at[d] /\ req'[d] = req[d] /\ items'[d] = items[d]
        /\ req'[c] = req[c] /\ items'[c] = items[c] /\ setData' = setData /\ getData' = getData
        /\ at[c] = "check" /\ at'[c] = "overdue" /\ spoiled'
    BY <1>0, <1>10 DEF RecvTimeout, Runs, Go
  <2> QED BY <1>0, <2>1 DEF Covers, Exact, SetUnits, HoldsSet, BodyKinds
<1>11. CASE InTime(c)
  <2>1. /\ \A d \in Conns \ {c} : at'[d] = at[d] /\ req'[d] = req[d] /\ items'[d] = items[d]
        /\ req'[c] = req[c] /\ items'[c] = items[c] /\ setData' = setData /\ getData' = getData
        /\ at[c] = "check" /\ at'[c] = "process"
    BY <1>0, <1>11 DEF InTime, Runs, Go
  <2> QED BY <1>0, <2>1 DEF Covers, Exact, SetUnits, HoldsSet, BodyKinds
<1>12. CASE Process(c)
  <2>1. /\ \A d \in Conns \ {c} : at'[d] = at[d] /\ req'[d] = req[d] /\ items'[d] = items[d]
        /\ req'[c] = req[c] /\ items'[c] = Held(req[c].kind)
        /\ getData' = getData + Fetched(req[c].kind) /\ setData' = setData - Released(req[c].kind)
        /\ at[c] = "process" /\ at'[c] \in {"finish", "reply"}
    BY <1>0, <1>12 DEF Process, Runs, Go
  <2> QED BY <1>0, <2>1 DEF Covers, Exact, SetUnits, HoldsSet, BodyKinds, Balanced, AllKinds, Held, Fetched, Released
<1>13. CASE Panic(c)
  <2>1. /\ \A d \in Conns \ {c} : at'[d] = at[d] /\ req'[d] = req[d] /\ items'[d] = items[d]
        /\ req'[c] = req[c] /\ items'[c] = items[c] /\ setData' = setData /\ getData' = getData
        /\ at[c] = "process" /\ at'[c] = "finish" /\ panicked'
    BY <1>0, <1>13 DEF Panic, Runs, Go
  <2> QED BY <1>0, <2>1 DEF Covers, Exact, SetUnits, HoldsSet, BodyKinds
<1>14. CASE ProcessTimeout(c)
  <2>1. /\ \A d \in Conns \ {c} : at'[d] = at[d] /\ req'[d] = req[d] /\ items'[d] = items[d]
        /\ req'[c] = req[c] /\ items'[c] = items[c] /\ setData' = setData /\ getData' = getData
        /\ at[c] \in {"reply", "overdue"} /\ at'[c] = "finish"
    BY <1>0, <1>14 DEF ProcessTimeout, Runs, Go
  <2> QED BY <1>0, <2>1 DEF Covers, Exact, SetUnits, HoldsSet, BodyKinds
<1>15. CASE Reply(c)
  <2>1. /\ \A d \in Conns \ {c} : at'[d] = at[d] /\ req'[d] = req[d] /\ items'[d] = items[d]
        /\ req'[c] = req[c] /\ items'[c] = items[c] /\ setData' = setData /\ getData' = getData
        /\ at[c] \in {"reply", "overdue"} /\ at'[c] = "finish"
    BY <1>0, <1>15 DEF Reply, Runs, Go
  <2> QED BY <1>0, <2>1 DEF Covers, Exact, SetUnits, HoldsSet, BodyKinds
<1>16. CASE WriteFails(c)
  <2>1. /\ \A d \in Conns \ {c} : at'[d] = at[d] /\ req'[d] = req[d] /\ items'[d] = items[d]
        /\ req'[c] = req[c] /\ items'[c] = items[c] /\ setData' = setData /\ getData' = getData
        /\ at[c] \in {"reply", "overdue"} /\ at'[c] = "finish"
    BY <1>0, <1>16 DEF WriteFails, Runs, Go
  <2> QED BY <1>0, <2>1 DEF Covers, Exact, SetUnits, HoldsSet, BodyKinds
<1>17. CASE NoReply(c)
  <2>1. /\ \A d \in Conns \ {c} : at'[d] = at[d] /\ req'[d] = req[d] /\ items'[d] = items[d]
        /\ req'[c] = req[c] /\ items'[c] = items[c] /\ setData' = setData /\ getData' = getData
        /\ at[c] \in {"reply", "overdue"} /\ at'[c] = "finish"
    BY <1>0, <1>17 DEF NoReply, Runs, Go
  <2> QED BY <1>0, <2>1 DEF Covers, Exact, SetUnits, HoldsSet, BodyKinds
<1>18. CASE Finish(c)
  <2>1. /\ \A d \in Conns \ {c} : at'[d] = at[d] /\ req'[d] = req[d] /\ items'[d] = items[d]
        /\ items'[c] = 0 /\ getData' = getData - items[c] /\ setData' = setData
        /\ at[c] = "finish" /\ at'[c] = "loop"
    BY <1>0, <1>18 DEF Finish, Runs, Go
  <2> QED BY <1>0, <2>1 DEF Covers, Exact, SetUnits, HoldsSet, BodyKinds
<1> QED BY <1>1, <1>2, <1>3, <1>4, <1>5, <1>6, <1>7, <1>8, <1>9, <1>10, <1>11, <1>12, <1>13, <1>14, <1>15, <1>16, <1>17, <1>18, <1>19, <1>20 DEF Goroutine

\* Reading from a stream leaves a part of it; sending appends to it.
LEMMA StreamStep ==
    ASSUME Typed, NEW c \in Conns, Goroutine(c) \/ GetToken(c) \/ Accept(c) \/ Client(c)
    PROVE  /\ \A d \in Conns \ {c} : /\ stream'[d] = stream[d] /\ owes'[d] = owes[d] /\ sent'[d] = sent[d]
                                      /\ expects'[d] = expects[d]
           /\ \/ stream'[c] = stream[c] /\ owes'[c] = owes[c] /\ sent'[c] = sent[c]
                 /\ expects'[c] = expects[c]
              \/ /\ stream[c] # << >> /\ stream'[c] = Tail(stream[c])
                 /\ owes'[c] = owes[c] /\ sent'[c] = sent[c] /\ expects'[c] = expects[c]
              \/ /\ stream'[c] = << >> \/ ReadShort(c, TRUE) \/ ReadShort(c, FALSE)
                 /\ owes'[c] = owes[c] /\ sent'[c] = sent[c] /\ expects'[c] = expects[c]
              \/ /\ owes[c] # NoUnit /\ stream'[c] = Append(stream[c], owes[c])
                 /\ owes'[c] = NoUnit /\ sent'[c] = sent[c] /\ expects'[c] = expects[c]
              \/ \E kind \in Kinds :
                    /\ owes[c] = NoUnit /\ sent'[c] = sent[c] + 1
                    /\ stream'[c] = Append(stream[c], Unit("line", kind, sent[c] + 1))
                    /\ owes'[c] = IF kind \in BodyKinds \cup {"refused"}
                                  THEN Unit("body", kind, sent[c] + 1) ELSE NoUnit
                    /\ expects'[c] = IF kind \in SilentKinds THEN expects[c]
                                     ELSE Append(expects[c], sent[c] + 1)
<1> USE DEF Typed, ClientsOK
<1>1. CASE ReadLine(c) \/ ReadBody(c) \/ BodyEOF(c) \/ \E ends \in BOOLEAN : ReadShort(c, ends)
  BY <1>1 DEF ReadLine, ReadBody, BodyEOF, ReadShort
<1>2. CASE SendBody(c)
  BY <1>2 DEF SendBody
<1>3. ASSUME NEW kind \in Kinds, SendLine(c, kind)
      PROVE  /\ \A d \in Conns \ {c} : /\ stream'[d] = stream[d] /\ owes'[d] = owes[d]
                                        /\ sent'[d] = sent[d] /\ expects'[d] = expects[d]
             /\ owes[c] = NoUnit /\ sent'[c] = sent[c] + 1
             /\ stream'[c] = Append(stream[c], Unit("line", kind, sent[c] + 1))
             /\ owes'[c] = IF kind \in BodyKinds \cup {"refused"}
                           THEN Unit("body", kind, sent[c] + 1) ELSE NoUnit
             /\ expects'[c] = IF kind \in SilentKinds THEN expects[c]
                              ELSE Append(expects[c], sent[c] + 1)
  <2> DEFINE u == Unit("line", kind, sent[c] + 1)
  <2>1. /\ owes[c] = NoUnit
        /\ stream' = [stream EXCEPT ![c] = Append(@, u)]
        /\ sent' = [sent EXCEPT ![c] = u.n]
        /\ owes' = IF kind \in BodyKinds \cup {"refused"}
                   THEN [owes EXCEPT ![c] = Unit("body", kind, u.n)] ELSE owes
        /\ expects' = IF kind \in SilentKinds THEN expects
                      ELSE [expects EXCEPT ![c] = Append(@, u.n)]
    BY <1>3 DEF SendLine
  <2>2. u.n = sent[c] + 1
    BY DEF Unit
  <2> QED BY <2>1, <2>2
<1>4. CASE \/ Register(c) \/ Loop(c) \/ Unregister(c) \/ ReadEOF(c) \/ ReadUnfit(c) \/ RecvTimeout(c)
           \/ InTime(c) \/ Process(c) \/ Panic(c) \/ ProcessTimeout(c) \/ Reply(c) \/ WriteFails(c)
           \/ NoReply(c) \/ Finish(c) \/ GetToken(c) \/ Accept(c) \/ HangUp(c)
  <2>1. UNCHANGED <<stream, owes, sent, expects>>
    BY <1>4 DEF Register, Loop, Unregister, ReadEOF, ReadUnfit, RecvTimeout, InTime, Process, Panic,
       ProcessTimeout, Reply, WriteFails, NoReply, Finish, GetToken, Accept, HangUp, clientVars
  <2> QED BY <2>1
<1> HIDE DEF Typed, ClientsOK
<1> QED BY <1>1, <1>2, <1>3, <1>4 DEF Goroutine, Client

\* An element of a longer sequence is the new one or an old one.
LEMMA Appended ==
    ASSUME NEW S, NEW q \in Seq(S), NEW e \in S
    PROVE  /\ Len(q) \in Nat /\ Len(Append(q, e)) = Len(q) + 1
           /\ Append(q, e)[Len(q) + 1] = e
           /\ \A i \in 1 .. Len(q) : Append(q, e)[i] = q[i]
           /\ \A i \in 1 .. Len(q) + 1 : i \in 1 .. Len(q) \/ i = Len(q) + 1
BY AppendProperties, LenProperties

\* The units of a stream are the old ones and the one sent.
LEMMA StreamUnits ==
    ASSUME Typed, NEW c \in Conns, Goroutine(c) \/ GetToken(c) \/ Accept(c) \/ Client(c),
           NEW i \in 1 .. Len(stream'[c])
    PROVE  \/ \E j \in 1 .. Len(stream[c]) : \/ stream'[c][i] = stream[c][j]
                                            \/ /\ stream'[c][i].kind = stream[c][j].kind
                                               /\ stream'[c][i].what \in {"body", stream[c][j].what}
           \/ owes[c] # NoUnit /\ stream'[c][i] = owes[c]
           \/ \E kind \in Kinds : stream'[c][i] = Unit("line", kind, sent[c] + 1)
<1>1. stream[c] \in Seq(Units) /\ owes[c] \in Units /\ sent[c] \in Nat
  BY DEF Typed, ClientsOK
<1>2. CASE stream'[c] = stream[c]
  BY <1>2
<1>3. CASE stream[c] # << >> /\ stream'[c] = Tail(stream[c])
  BY <1>1, <1>3, HeadTail
<1>4. CASE owes[c] # NoUnit /\ stream'[c] = Append(stream[c], owes[c])
  BY <1>1, <1>4, Appended
<1>5. ASSUME NEW kind \in Kinds, stream'[c] = Append(stream[c], Unit("line", kind, sent[c] + 1))
      PROVE  \/ \E j \in 1 .. Len(stream[c]) : stream'[c][i] = stream[c][j]
             \/ stream'[c][i] = Unit("line", kind, sent[c] + 1)
  <2>1. Unit("line", kind, sent[c] + 1) \in Units
    BY <1>1, ServerAssumption DEF Unit, Units
  <2> QED BY <1>1, <1>5, <2>1, Appended
<1>6. CASE stream'[c] = << >>
  BY <1>6, EmptySeq
<1>7. ASSUME NEW ends \in BOOLEAN, ReadShort(c, ends)
      PROVE  \E j \in 1 .. Len(stream[c]) : \/ stream'[c][i] = stream[c][j]
                                            \/ /\ stream'[c][i].kind = stream[c][j].kind
                                               /\ stream'[c][i].what \in {"body", stream[c][j].what}
  <2>1. Len(stream[c]) > 1 /\ stream'[c] = IF ends THEN Tail(Tail(stream[c]))
                                          ELSE [Tail(stream[c]) EXCEPT ![1].what = "body"]
    BY <1>7 DEF ReadShort, Typed, ClientsOK
  <2>2. CASE ends
    <3>1. stream'[c] = Tail(Tail(stream[c]))
      BY <2>1, <2>2
    <3>2. \A later : later = Tail(Tail(stream[c])) =>
             \A k \in 1 .. Len(later) : k + 2 \in 1 .. Len(stream[c]) /\ later[k] = stream[c][k + 2]
      BY <1>1, <2>1, Gone
    <3>3. i + 2 \in 1 .. Len(stream[c]) /\ stream'[c][i] = stream[c][i + 2]
      BY <3>1, <3>2
    <3> QED BY <3>3
  <2>3. CASE ~ends
    <3>1. stream'[c] = [Tail(stream[c]) EXCEPT ![1].what = "body"]
      BY <2>1, <2>3
    <3>2. /\ i + 1 \in 1 .. Len(stream[c]) /\ stream'[c][i].kind = stream[c][i + 1].kind
          /\ stream'[c][i].what \in {"body", stream[c][i + 1].what}
      BY <1>1, <2>1, <3>1, Cut
    <3> QED BY <3>2
  <2> QED BY <2>2, <2>3
<1> QED BY <1>2, <1>3, <1>4, <1>5, <1>6, <1>7, StreamStep

\* A client goes on sending lines and data blocks.
LEMMA UnitsSent == ASSUME Typed, UnitInv, [Next]_vars PROVE UnitInv'
<1>1. ASSUME NEW c \in Conns, Goroutine(c) \/ GetToken(c) \/ Accept(c) \/ Client(c) PROVE UnitInv'
  <2>1. \A d \in Conns \ {c} : stream'[d] = stream[d] /\ owes'[d] = owes[d]
    BY <1>1, StreamStep
  <2>2. owes'[c] = NoUnit \/ owes'[c].what = "body"
    <3>1. \/ owes'[c] = owes[c] \/ owes'[c] = NoUnit
          \/ \E kind \in Kinds : owes'[c] = Unit("body", kind, sent[c] + 1)
      BY <1>1, StreamStep
    <3>2. \A kind \in Kinds : Unit("body", kind, sent[c] + 1).what = "body"
      BY DEF Unit
    <3> QED BY <3>1, <3>2 DEF UnitInv
  <2>3. \A i \in 1 .. Len(stream'[c]) : stream'[c][i].what \in {"line", "body"}
    <3> SUFFICES ASSUME NEW i \in 1 .. Len(stream'[c]) PROVE stream'[c][i].what \in {"line", "body"}
      OBVIOUS
    <3>1. \A kind \in Kinds : Unit("line", kind, sent[c] + 1).what = "line"
      BY DEF Unit
    <3>2. \/ \E j \in 1 .. Len(stream[c]) : \/ stream'[c][i] = stream[c][j]
                                            \/ stream'[c][i].what \in {"body", stream[c][j].what}
          \/ owes[c] # NoUnit /\ stream'[c][i] = owes[c]
          \/ \E kind \in Kinds : stream'[c][i] = Unit("line", kind, sent[c] + 1)
      BY <1>1, StreamUnits
    <3> QED BY <3>1, <3>2 DEF UnitInv
  <2> QED BY <2>1, <2>2, <2>3 DEF UnitInv
<1>2. CASE Signal \/ Notify \/ AcceptFails \/ Main \/ UNCHANGED vars
  BY <1>2 DEF UnitInv, Signal, Notify, AcceptFails, Main, StopAccept, Drained, WaitTick, CloseStore, Exit, vars, clientVars
<1> QED BY <1>1, <1>2 DEF Next
\* The steps of clients, of the signal and of the main goroutine leave the
\* requests that are being served alone.
LEMMA OtherSteps ==
    ASSUME [Next]_vars
    PROVE  \/ \E c \in Conns : Goroutine(c) \/ GetToken(c) \/ Accept(c)
           \/ UNCHANGED <<at, req, items, token, free, setData, getData, quiet, replies, skewed, spoiled,
                          panicked>>
<1>1. ASSUME NEW c \in Conns, Client(c)
      PROVE  UNCHANGED <<at, req, items, token, free, setData, getData, quiet, replies, skewed, spoiled,
                          panicked>>
  BY <1>1 DEF Client, SendBody, HangUp, SendLine, connVars, history
<1>2. ASSUME Signal \/ Notify \/ AcceptFails \/ Main \/ UNCHANGED vars
      PROVE  UNCHANGED <<at, req, items, token, free, setData, getData, quiet, replies, skewed, spoiled,
                          panicked>>
  BY <1>2 DEF Signal, Notify, AcceptFails, Main, StopAccept, Drained, WaitTick, CloseStore, Exit, vars, connVars, history
<1> QED BY <1>1, <1>2 DEF Next

\* Types without the signs of the counters and the length of the channel.
LEMMA NextTyped == ASSUME Typed, TickInv, [Next]_vars PROVE Typed'
<1>1. CASE UNCHANGED vars
  BY <1>1, TypeFrame DEF Typed, vars, mainVars
<1> QED BY <1>1, ConnTyped, MainTyped DEF Next

\* The counters go on covering what the requests hold.
LEMMA CountNext == ASSUME Typed, Typed', UnitInv, CountInv, [Next]_vars PROVE CountInv'
<1>1. ASSUME NEW c \in Conns, Goroutine(c) \/ GetToken(c) \/ Accept(c) PROVE CountInv'
  <2>1. /\ Covers(c)
        /\ \A d \in Conns \ {c} : at'[d] = at[d] /\ req'[d] = req[d] /\ items'[d] = items[d]
    BY <1>1, Counted
  <2>2. /\ Cardinality(SetHolders) \in Nat /\ Cardinality(GetHolders) \in Nat
        /\ Cardinality(SetHolders') \in Nat /\ Cardinality(GetHolders') \in Nat
        /\ Cardinality(SetHolders') - SetUnits(c)' = Cardinality(SetHolders) - SetUnits(c)
        /\ Cardinality(GetHolders') - items'[c] = Cardinality(GetHolders) - items[c]
    BY <2>1, HoldersStep
  <2>3. /\ SetUnits(c) \in Int /\ SetUnits(c)' \in Int /\ items[c] \in Int /\ items'[c] \in Int
        /\ setData \in Int /\ setData' \in Int /\ getData \in Int /\ getData' \in Int
    BY DEF SetUnits, Typed, ConnsOK, IntOK
  <2>4. Cardinality(SetHolders') <= setData' /\ Cardinality(GetHolders') <= getData'
    BY <2>1, <2>2, <2>3 DEF Covers, CountInv
  <2>5. HoldInv'
    BY <2>1 DEF Covers, CountInv, HoldInv
  <2> QED BY <2>4, <2>5 DEF CountInv
<1>2. CASE UNCHANGED <<at, req, items, setData, getData>>
  <2>1. SetHolders' = SetHolders /\ GetHolders' = GetHolders
    BY <1>2 DEF SetHolders, GetHolders, HoldsSet
  <2> QED BY <1>2, <2>1 DEF CountInv, HoldInv
<1> QED BY <1>1, <1>2, OtherSteps

-----------------------------------------------------------------------------
(* Theorems about every kind of request *)

IInv == TypeOK /\ TokenInv /\ UnitInv /\ CountInv /\ TickInv

LEMMA TypeIsTyped == TypeOK => Typed
BY DEF TypeOK, Typed, SharedOK, RestOK, CountsOK, IntOK

\* What the other invariants add to Typed.
LEMMA TypedIsType == Typed /\ TokenInv /\ CountInv => TypeOK
<1> SUFFICES ASSUME Typed, TokenInv, CountInv PROVE TypeOK
  OBVIOUS
<1>1. Cardinality(SetHolders) \in Nat /\ Cardinality(GetHolders) \in Nat
  BY LeaveOut DEF SetHolders, GetHolders
<1>2. CountsOK
  BY <1>1 DEF CountsOK, CountInv, Typed, IntOK
<1>3. Len(free) <= NumTokens
  BY ShortQueue DEF Typed, RestOK, TokenInv
<1> QED BY <1>2, <1>3 DEF Typed, RestOK, TypeOK, SharedOK

LEMMA InitIInv == Init => IInv
<1> SUFFICES ASSUME Init PROVE IInv
  OBVIOUS
<1>1. \A c \in Conns : at[c] = "none" /\ items[c] = 0 /\ stream[c] = << >> /\ owes[c] = NoUnit
  BY DEF Init
<1>2. SetHolders = {} /\ GetHolders = {}
  BY <1>1 DEF SetHolders, HoldsSet, GetHolders
<1>3. CountInv
  BY <1>1, <1>2, FS_EmptySet DEF CountInv, HoldInv, Init
<1>4. UnitInv
  BY <1>1 DEF UnitInv
<1>5. TickInv
  BY DEF TickInv, Init
<1> QED BY <1>3, <1>4, <1>5, InitTypeOK, InitTokens DEF IInv

LEMMA NextIInv == IInv /\ [Next]_vars => IInv'
<1> SUFFICES ASSUME IInv, [Next]_vars PROVE IInv'
  OBVIOUS
<1>1. Typed /\ TokenInv /\ UnitInv /\ CountInv /\ TickInv
  BY TypeIsTyped DEF IInv
<1>2. Typed' /\ TokenInv' /\ UnitInv' /\ TickInv'
  BY <1>1, NextTyped, Tokened, UnitsSent, Ticks
<1>3. CountInv'
  BY <1>1, <1>2, CountNext
<1>4. TypeOK'
  BY <1>2, <1>3, TypedIsType, PTL
<1> QED BY <1>2, <1>3, <1>4 DEF IInv

LEMMA Invariant == Spec => []IInv
BY InitIInv, NextIInv, PTL DEF Spec

\* Every variable keeps its type: no counter of buffers becomes negative, and
\* no more tokens are put into the channel than it has room for, so that RL.Put
\* never blocks.
THEOREM Typing == Spec => []TypeOK
BY Invariant, PTL DEF IInv

\* A connection or nobody holds a token.
LEMMA OnePlace ==
    ASSUME IInv, NEW t \in Tokens
    PROVE  Cardinality({c \in Conns : token[c] = t}) + Cardinality({i \in DOMAIN free : free[i] = t}) = 1
<1> DEFINE H == {c \in Conns : token[c] = t}
           Q == {i \in DOMAIN free : free[i] = t}
<1>1. DOMAIN free = 1 .. Len(free)
  BY LenProperties DEF IInv, TypeOK, SharedOK
<1>2. t # NoToken
  BY TokenFacts
<1>3. CASE \E c \in Conns : token[c] = t
  <2>1. PICK c \in Conns : token[c] = t
    BY <1>3
  <2>2. H = {c} /\ Q = {}
    BY <1>1, <1>2, <2>1 DEF IInv, TokenInv
  <2>3. Cardinality({c}) = 1 /\ Cardinality({}) = 0
    BY FS_EmptySet, FS_Singleton
  <2> QED BY <2>2, <2>3
<1>4. CASE ~\E c \in Conns : token[c] = t
  <2>1. PICK i \in 1 .. Len(free) : free[i] = t
    BY <1>4 DEF IInv, TokenInv
  <2>2. H = {} /\ Q = {i}
    BY <1>1, <1>4, <2>1 DEF IInv, TokenInv
  <2>3. Cardinality({i}) = 1 /\ Cardinality({}) = 0
    BY FS_EmptySet, FS_Singleton
  <2>4. Cardinality(H) = 0 /\ Cardinality(Q) = 1
    BY <2>2, <2>3
  <2> HIDE DEF H, Q
  <2>5. Cardinality(H) + Cardinality(Q) = 1
    BY <2>4
  <2> QED BY <2>5 DEF H, Q
<1> QED BY <1>3, <1>4

\* Whatever way a request ends, each of the MaxReq tokens is in the channel, once,
\* or with one request that is being served: no end of ServeOnce loses a token
\* or puts it back twice.
THEOREM Conserved == Spec => []TokensConserved
<1>1. IInv => TokensConserved
  BY OnePlace DEF TokensConserved, IInv, TokenInv
<1> QED BY <1>1, Invariant, PTL
-----------------------------------------------------------------------------
(* The counters are exact for the kinds that balance *)

\* A connection serves what it reads.
LEMMA RequestStep ==
    ASSUME Typed, NEW c \in Conns, Goroutine(c) \/ GetToken(c) \/ Accept(c) \/ Client(c)
    PROVE  /\ \A d \in Conns \ {c} : req'[d] = req[d]
           /\ \/ req'[c] = req[c] \/ req'[c] = NoUnit
              \/ 1 \in 1 .. Len(stream[c]) /\ req'[c] = stream[c][1]
<1> USE DEF Typed, ConnsOK
<1>1. CASE ReadLine(c)
  <2>1. stream[c] \in Seq(Units) /\ stream[c] # << >>
    BY <1>1 DEF ClientsOK, ReadLine
  <2>2. Head(stream[c]) = stream[c][1] /\ 1 \in 1 .. Len(stream[c])
    BY <2>1, HeadTail
  <2> QED BY <1>1, <2>2 DEF ReadLine
<1>2. CASE ReadEOF(c) \/ Finish(c)
  BY <1>2 DEF ReadEOF, Finish
<1>3. CASE \/ Register(c) \/ Loop(c) \/ Unregister(c) \/ ReadBody(c) \/ BodyEOF(c) \/ RecvTimeout(c)
           \/ ReadUnfit(c) \/ (\E ends \in BOOLEAN : ReadShort(c, ends))
           \/ InTime(c) \/ Process(c) \/ Panic(c) \/ ProcessTimeout(c) \/ Reply(c) \/ WriteFails(c)
           \/ NoReply(c) \/ GetToken(c) \/ Accept(c)
  <2>1. UNCHANGED req
    BY <1>3 DEF Register, Loop, Unregister, ReadBody, ReadUnfit, ReadShort, BodyEOF, RecvTimeout, InTime, Process, Panic,
       ProcessTimeout, Reply, WriteFails, NoReply, GetToken, Accept
  <2> QED BY <2>1
<1>4. CASE Client(c)
  <2>1. UNCHANGED req
    BY <1>4 DEF Client, SendBody, HangUp, SendLine, connVars
  <2> QED BY <2>1
<1> HIDE DEF Typed, ConnsOK
<1> QED BY <1>1, <1>2, <1>3, <1>4 DEF Goroutine

\* Clients that send only kinds that balance go on doing so.
LEMMA KindNext == ASSUME Kinds \subseteq Balanced, Typed, KindInv, [Next]_vars PROVE KindInv'
<1>1. ASSUME NEW c \in Conns, Goroutine(c) \/ GetToken(c) \/ Accept(c) \/ Client(c) PROVE KindInv'
  <2>0. /\ NoUnit.kind \in Balanced
        /\ \A what, kind, n : Unit(what, kind, n).kind = kind
    BY DEF NoUnit, Unit, Balanced, AllKinds
  <2>1. /\ \A d \in Conns \ {c} : stream'[d] = stream[d] /\ owes'[d] = owes[d]
        /\ \/ owes'[c] = owes[c] \/ owes'[c] = NoUnit
           \/ \E kind \in Kinds : owes'[c] = Unit("body", kind, sent[c] + 1)
    BY <1>1, StreamStep
  <2>2. \A d \in Conns : owes'[d].kind \in Balanced
    BY <2>0, <2>1 DEF KindInv
  <2>3. \A d \in Conns : req'[d].kind \in Balanced
    <3>1. /\ \A d \in Conns \ {c} : req'[d] = req[d]
          /\ \/ req'[c] = req[c] \/ req'[c] = NoUnit
             \/ 1 \in 1 .. Len(stream[c]) /\ req'[c] = stream[c][1]
      BY <1>1, RequestStep
    <3> QED BY <2>0, <3>1 DEF KindInv
  <2>4. \A i \in 1 .. Len(stream'[c]) : stream'[c][i].kind \in Balanced
    <3> SUFFICES ASSUME NEW i \in 1 .. Len(stream'[c]) PROVE stream'[c][i].kind \in Balanced
      OBVIOUS
    <3>1. \/ \E j \in 1 .. Len(stream[c]) : stream'[c][i].kind = stream[c][j].kind
          \/ owes[c] # NoUnit /\ stream'[c][i] = owes[c]
          \/ \E kind \in Kinds : stream'[c][i] = Unit("line", kind, sent[c] + 1)
      BY <1>1, StreamUnits
    <3> QED BY <2>0, <3>1 DEF KindInv
  <2> QED BY <2>1, <2>2, <2>3, <2>4 DEF KindInv
<1>2. CASE Signal \/ Notify \/ AcceptFails \/ Main \/ UNCHANGED vars
  BY <1>2 DEF KindInv, Signal, Notify, AcceptFails, Main, StopAccept, Drained, WaitTick, CloseStore, Exit, vars,
     clientVars, connVars
<1> QED BY <1>1, <1>2 DEF Next

\* A receive timeout or a panic is remembered.
LEMMA Remembered ==
    ASSUME NEW c \in Conns, Goroutine(c) \/ GetToken(c) \/ Accept(c)
    PROVE  (spoiled => spoiled') /\ (panicked => panicked')
BY DEF Goroutine, Accept, GetToken, Register, Loop, Unregister, ReadLine, ReadEOF, ReadBody, ReadUnfit, ReadShort, BodyEOF,
   RecvTimeout, InTime, Process, Panic, ProcessTimeout, Reply, WriteFails, NoReply, Finish, history

\* Then the counters stay exact.
LEMMA BalanceNext ==
    ASSUME Typed, Typed', UnitInv, CountInv, KindInv, KindInv', BalanceInv, [Next]_vars
    PROVE  BalanceInv'
<1>1. ASSUME NEW c \in Conns, Goroutine(c) \/ GetToken(c) \/ Accept(c) PROVE BalanceInv'
  <2> SUFFICES ASSUME ~spoiled', ~panicked'
               PROVE  setData' = Cardinality(SetHolders') /\ getData' = Cardinality(GetHolders')
    BY DEF BalanceInv
  <2>1. /\ Exact(c)
        /\ \A d \in Conns \ {c} : at'[d] = at[d] /\ req'[d] = req[d] /\ items'[d] = items[d]
    BY <1>1, Counted
  <2>2. /\ Cardinality(SetHolders) \in Nat /\ Cardinality(GetHolders) \in Nat
        /\ Cardinality(SetHolders') \in Nat /\ Cardinality(GetHolders') \in Nat
        /\ Cardinality(SetHolders') - SetUnits(c)' = Cardinality(SetHolders) - SetUnits(c)
        /\ Cardinality(GetHolders') - items'[c] = Cardinality(GetHolders) - items[c]
    BY <2>1, HoldersStep
  <2>3. /\ SetUnits(c) \in Int /\ SetUnits(c)' \in Int /\ items[c] \in Int /\ items'[c] \in Int
        /\ setData \in Int /\ setData' \in Int /\ getData \in Int /\ getData' \in Int
    BY DEF SetUnits, Typed, ConnsOK, IntOK
  <2>4. /\ setData' - setData = SetUnits(c)' - SetUnits(c)
        /\ getData' - getData = items'[c] - items[c]
    BY <2>1 DEF Exact, KindInv
  <2>5. setData = Cardinality(SetHolders) /\ getData = Cardinality(GetHolders)
    BY <1>1, Remembered DEF BalanceInv
  <2> QED BY <2>2, <2>3, <2>4, <2>5
<1>2. CASE UNCHANGED <<at, req, items, setData, getData, spoiled, panicked>>
  <2>1. SetHolders' = SetHolders /\ GetHolders' = GetHolders
    BY <1>2 DEF SetHolders, GetHolders, HoldsSet
  <2> QED BY <1>2, <2>1 DEF BalanceInv
<1> QED BY <1>1, <1>2, OtherSteps

\* For kinds of requests that balance: when no request is being served, SetData and
\* GetData are 0, unless a request ended in a receive timeout or a panic.  (The
\* kinds left out leak what they count, see section 4 of the README.)
THEOREM Settled == ASSUME Kinds \subseteq Balanced PROVE Spec => []CountersSettle
<1> DEFINE BInv == KindInv /\ BalanceInv
<1>1. Init => BInv
  <2> SUFFICES ASSUME Init PROVE BInv
    OBVIOUS
  <2>1. \A c \in Conns : /\ at[c] = "none" /\ items[c] = 0 /\ stream[c] = << >> /\ owes[c] = NoUnit
                          /\ req[c] = NoUnit
    BY DEF Init
  <2>2. SetHolders = {} /\ GetHolders = {}
    BY <2>1 DEF SetHolders, HoldsSet, GetHolders
  <2>3. BalanceInv
    BY <2>2, FS_EmptySet DEF BalanceInv, Init
  <2>4. KindInv
    BY <2>1 DEF KindInv, NoUnit, Unit, Balanced, AllKinds
  <2> QED BY <2>3, <2>4
<1>2. IInv /\ IInv' /\ BInv /\ [Next]_vars => BInv'
  <2> SUFFICES ASSUME IInv, IInv', BInv, [Next]_vars PROVE BInv'
    OBVIOUS
  <2>1. Typed /\ Typed' /\ UnitInv /\ CountInv
    BY TypeIsTyped, NextTyped DEF IInv
  <2>2. KindInv'
    BY <2>1, KindNext
  <2> QED BY <2>1, <2>2, BalanceNext
<1>3. IInv /\ BInv => CountersSettle
  <2> SUFFICES ASSUME IInv, BInv, ~spoiled, ~panicked,
                      \A c \in Conns : at[c] \in {"none", "accepted", "loop", "read", "gone"}
               PROVE  setData = 0 /\ getData = 0
    BY DEF CountersSettle
  <2>1. \A c \in Conns : ~HoldsSet(c) /\ items[c] # 1
    BY DEF HoldsSet, IInv, CountInv, HoldInv
  <2>2. SetHolders = {} /\ GetHolders = {}
    BY <2>1 DEF SetHolders, GetHolders
  <2> QED BY <2>2, FS_EmptySet DEF BalanceInv
<1> HIDE DEF BInv
<1> QED BY <1>1, <1>2, <1>3, Invariant, PTL DEF Spec
-----------------------------------------------------------------------------
(* Draining *)

\* The registered connections are the open ones, if addresses are not shared.
LEMMA RegisteredNext ==
    ASSUME OwnAddress, Typed, UnitInv, CountInv, RegisteredInv, [Next]_vars
    PROVE  RegisteredInv'
<1>1. ASSUME NEW c \in Conns, Goroutine(c) \/ GetToken(c) \/ Accept(c) PROVE RegisteredInv'
  <2>1. \A d \in Conns \ {c} : at'[d] = at[d]
    BY <1>1, Counted
  <2>2. Peers(c) = {c}
    BY DEF Peers, OwnAddress
  <2>3. CASE Register(c) \/ Unregister(c)
    <3>1. \A d \in Conns \ {c} : d \in conns => d \in conns'
      BY <2>2, <2>3 DEF Register, Unregister
    <3>2. c \in conns' \/ at'[c] = "gone"
      BY <2>3 DEF Register, Unregister, Go, Typed, ConnsOK
    <3> QED BY <2>1, <3>1, <3>2 DEF RegisteredInv
  <2>4. CASE ~(Register(c) \/ Unregister(c))
    <3>1. conns' = conns
      BY <1>1, <2>4 DEF Goroutine, Accept, GetToken, Loop, ReadLine, ReadEOF, ReadBody, ReadUnfit, ReadShort, BodyEOF,
         RecvTimeout, InTime, Process, Panic, ProcessTimeout, Reply, WriteFails, NoReply, Finish
    <3>2. at[c] \notin {"none", "accepted", "gone"} \/ at'[c] = "accepted"
      BY <1>1, <2>4 DEF Goroutine, Accept, GetToken, Loop, ReadLine, ReadEOF, ReadBody, ReadUnfit, ReadShort, BodyEOF,
         RecvTimeout, InTime, Process, Panic, ProcessTimeout, Reply, WriteFails, NoReply, Finish,
         Runs, Go, Typed, ConnsOK
    <3> QED BY <2>1, <3>1, <3>2 DEF RegisteredInv
  <2> QED BY <2>3, <2>4
<1>2. ASSUME NEW c \in Conns, Client(c) PROVE RegisteredInv'
  BY <1>2 DEF Client, SendBody, HangUp, SendLine, connVars, RegisteredInv
<1>3. CASE Signal \/ Notify \/ AcceptFails \/ Main \/ UNCHANGED vars
  BY <1>3 DEF RegisteredInv, Signal, Notify, AcceptFails, Main, StopAccept, Drained, WaitTick, CloseStore, Exit, vars,
     connVars
<1> QED BY <1>1, <1>2, <1>3 DEF Next

\* Nobody registers after Serve has returned.
LEMMA DrainNext == ASSUME Typed, TickInv, DrainInv, [Next]_vars PROVE DrainInv'
<1>1. ASSUME NEW c \in Conns, Goroutine(c) \/ GetToken(c) \/ Accept(c)
      PROVE  UNCHANGED <<main, ticks, locked>> /\ (UNCHANGED conns \/ ~locked)
  BY <1>1 DEF Goroutine, GetToken, Accept, Register, Loop, Unregister, ReadLine, ReadEOF, ReadBody, ReadUnfit, ReadShort,
     BodyEOF, RecvTimeout, InTime, Process, Panic, ProcessTimeout, Reply, WriteFails, NoReply, Finish,
     mainVars
<1>2. ASSUME NEW c \in Conns, Client(c) PROVE UNCHANGED <<main, ticks, locked, conns>>
  BY <1>2 DEF Client, SendBody, HangUp, SendLine, mainVars
<1>3. CASE Signal \/ Notify \/ AcceptFails \/ Main \/ UNCHANGED vars
  BY <1>3, ServerAssumption DEF DrainInv, TickInv, Signal, Notify, AcceptFails, Main, StopAccept, Drained, WaitTick,
     CloseStore, Exit, vars, mainVars, Typed, RestOK
<1> QED BY <1>1, <1>2, <1>3 DEF Next, DrainInv

\* If no two connections have the same address: once Serve has seen that no
\* connection is left, no request is served any more, and the store is not
\* closed under a request.
THEOREM Quiet == ASSUME OwnAddress PROVE Spec => []DrainedIsQuiet
<1>1. Init => RegisteredInv /\ DrainInv
  BY DEF Init, RegisteredInv, DrainInv
<1>2. IInv /\ RegisteredInv /\ DrainInv /\ [Next]_vars => RegisteredInv' /\ DrainInv'
  BY RegisteredNext, DrainNext, TypeIsTyped DEF IInv
<1>3. RegisteredInv /\ DrainInv => DrainedIsQuiet
  BY DEF RegisteredInv, DrainInv, DrainedIsQuiet
<1> QED BY <1>1, <1>2, <1>3, Invariant, PTL DEF Spec
-----------------------------------------------------------------------------
(* Commands and replies stay in step *)

\* What a step of c does to its stream: nothing, ...
Stays(c) ==
    /\ stream'[c] = stream[c] /\ owes'[c] = owes[c] /\ sent'[c] = sent[c] /\ expects'[c] = expects[c]
    /\ at'[c] \in Serving => at[c] \in Serving /\ req'[c] = req[c]
    /\ at'[c] \in {"token", "body"} => at[c] \in {"token", "body"}
\* ... read a command, ...
Reads(c) ==
    /\ stream[c] # << >> /\ stream'[c] = Tail(stream[c]) /\ req'[c] = stream[c][1]
    /\ owes'[c] = owes[c] /\ sent'[c] = sent[c] /\ expects'[c] = expects[c]
    /\ at[c] = "read" /\ at'[c] \in {"reply", "token", "check"}
    /\ at'[c] # "reply" => req'[c].what # "body"
\* ... read a data block, ...
Skips(c) ==
    /\ stream[c] # << >> /\ stream'[c] = Tail(stream[c]) /\ req'[c] = req[c]
    /\ owes'[c] = owes[c] /\ sent'[c] = sent[c] /\ expects'[c] = expects[c]
    /\ at[c] = "body" /\ at'[c] = "check"
\* ... drop what is left of it, ...
Drops(c) ==
    /\ stream'[c] = << >> /\ req'[c] = req[c] /\ at'[c] = "finish" /\ Ending(c)'
    /\ owes'[c] = owes[c] /\ sent'[c] = sent[c] /\ expects'[c] = expects[c]
\* ... or, by the client, send a data block ...
Blocked(c) ==
    /\ owes[c] # NoUnit /\ stream'[c] = Append(stream[c], owes[c]) /\ owes'[c] = NoUnit
    /\ sent'[c] = sent[c] /\ expects'[c] = expects[c] /\ at'[c] = at[c] /\ req'[c] = req[c]
\* ... or a command.
Lined(c, kind) ==
    /\ owes[c] = NoUnit /\ sent'[c] = sent[c] + 1
    /\ stream'[c] = Append(stream[c], Unit("line", kind, sent[c] + 1))
    /\ owes'[c] = IF kind \in BodyKinds \cup {"refused"}
                  THEN Unit("body", kind, sent[c] + 1) ELSE NoUnit
    /\ expects'[c] = IF kind \in SilentKinds THEN expects[c] ELSE Append(expects[c], sent[c] + 1)
    /\ at'[c] = at[c] /\ req'[c] = req[c]

\* These are all, as long as the connection is in step.
LEMMA StreamEffects ==
    ASSUME Typed, NEW c \in Conns, Goroutine(c) \/ GetToken(c) \/ Accept(c) \/ Client(c)
    PROVE  \/ Stays(c) \/ Reads(c) \/ Skips(c) \/ Drops(c) \/ Blocked(c) \/ c \in skewed'
           \/ \E kind \in Kinds : Lined(c, kind)
<1> USE DEF Typed, ConnsOK
<1>1. CASE ReadLine(c)
  <2>1. stream[c] \in Seq(Units) /\ stream[c] # << >>
    BY <1>1 DEF ClientsOK, ReadLine
  <2>2. Head(stream[c]) = stream[c][1]
    BY <2>1, HeadTail
  <2> QED BY <1>1, <2>1, <2>2 DEF ReadLine, Reads, Runs, Go, ClientsOK
<1>2. CASE ReadBody(c)
  BY <1>2 DEF ReadBody, Skips, Runs, Go, ClientsOK
<1>8. CASE ReadUnfit(c)
  BY <1>8 DEF ReadUnfit, Stays, Runs, Go, Serving, clientVars
<1>9. CASE \E ends \in BOOLEAN : ReadShort(c, ends)
  BY <1>9 DEF ReadShort
<1>10. CASE BodyEOF(c)
  BY <1>10 DEF BodyEOF, Drops, Go, Shutdown, Ending, ClientsOK
<1>3. CASE SendBody(c)
  BY <1>3 DEF SendBody, Blocked, ClientsOK, connVars
<1>4. ASSUME NEW kind \in Kinds, SendLine(c, kind) PROVE Lined(c, kind)
  <2> DEFINE u == Unit("line", kind, sent[c] + 1)
  <2>1. /\ owes[c] = NoUnit
        /\ stream' = [stream EXCEPT ![c] = Append(@, u)]
        /\ sent' = [sent EXCEPT ![c] = u.n]
        /\ owes' = IF kind \in BodyKinds \cup {"refused"}
                   THEN [owes EXCEPT ![c] = Unit("body", kind, u.n)] ELSE owes
        /\ expects' = IF kind \in SilentKinds THEN expects
                      ELSE [expects EXCEPT ![c] = Append(@, u.n)]
        /\ at' = at /\ req' = req
    BY <1>4 DEF SendLine, connVars
  <2>2. u.n = sent[c] + 1
    BY DEF Unit
  <2> QED BY <2>1, <2>2 DEF Lined, ClientsOK
<1>5. CASE HangUp(c) \/ GetToken(c) \/ Accept(c)
  BY <1>5 DEF HangUp, GetToken, Accept, Stays, connVars, clientVars, Go, Runs, Serving
<1>6. CASE Register(c) \/ Loop(c) \/ Unregister(c) \/ ReadEOF(c) \/ RecvTimeout(c) \/ InTime(c)
  BY <1>6 DEF Register, Loop, Unregister, ReadEOF, RecvTimeout, InTime, Stays, clientVars, Go, Runs,
     Serving
<1>7. CASE \/ Process(c) \/ Panic(c) \/ ProcessTimeout(c) \/ Reply(c) \/ WriteFails(c) \/ NoReply(c)
           \/ Finish(c)
  BY <1>7 DEF Process, Panic, ProcessTimeout, Reply, WriteFails, NoReply, Finish, Stays, clientVars, Go,
     Runs, Serving
<1> HIDE DEF Typed, ConnsOK
<1> QED BY <1>1, <1>2, <1>3, <1>4, <1>5, <1>6, <1>7, <1>8, <1>9, <1>10 DEF Goroutine, Client

\* What the types say about one connection.
LEMMA OneConn ==
    ASSUME Typed, NEW c \in Conns
    PROVE  /\ stream[c] \in Seq(Units) /\ Len(stream[c]) \in Nat
           /\ \A i \in 1 .. Len(stream[c]) : stream[c][i] \in Units /\ stream[c][i].n \in Nat
           /\ expects[c] \in Seq(Nat) /\ Len(expects[c]) \in Nat
           /\ \A i \in 1 .. Len(expects[c]) : expects[c][i] \in Nat
           /\ replies[c] \in Seq(Nat) /\ Len(replies[c]) \in Nat
           /\ sent[c] \in Nat /\ owes[c] \in Units /\ owes[c].n \in Nat
           /\ req[c] \in Units /\ req[c].n \in Nat
<1>1. /\ stream[c] \in Seq(Units) /\ expects[c] \in Seq(Nat) /\ replies[c] \in Seq(Nat)
      /\ sent[c] \in Nat /\ owes[c] \in Units /\ req[c] \in Units
  BY DEF Typed, ConnsOK, ClientsOK
<1>2. \A u \in Units : u.n \in Nat
  BY DEF Units
<1>3. Len(stream[c]) \in Nat /\ Len(expects[c]) \in Nat /\ Len(replies[c]) \in Nat
  BY <1>1, LenProperties
<1>4. \A i \in 1 .. Len(stream[c]) : stream[c][i] \in Units
  BY <1>1, ElementOfSeq
<1>5. \A i \in 1 .. Len(expects[c]) : expects[c][i] \in Nat
  BY <1>1, ElementOfSeq
<1> QED BY <1>1, <1>2, <1>3, <1>4, <1>5

\* A unit appended to the stream of c.
LEMMA Longer ==
    ASSUME Typed, NEW c \in Conns, NEW u \in Units, stream'[c] = Append(stream[c], u)
    PROVE  /\ Len(stream'[c]) = Len(stream[c]) + 1 /\ stream'[c][Len(stream[c]) + 1] = u
           /\ \A i \in 1 .. Len(stream[c]) : stream'[c][i] = stream[c][i]
           /\ \A i \in 1 .. Len(stream'[c]) : i \in 1 .. Len(stream[c]) \/ i = Len(stream[c]) + 1
BY OneConn, Appended

\* The first unit taken from the stream of c.
LEMMA Shorter ==
    ASSUME Typed, NEW c \in Conns, stream[c] # << >>, stream'[c] = Tail(stream[c])
    PROVE  /\ 1 \in 1 .. Len(stream[c]) /\ Len(stream'[c]) = Len(stream[c]) - 1
           /\ Len(stream'[c]) \in Nat
           /\ \A i \in 1 .. Len(stream'[c]) : i + 1 \in 1 .. Len(stream[c]) /\ stream'[c][i] = stream[c][i + 1]
BY OneConn, HeadTail

\* A new request has the next number.
LEMMA NewUnit ==
    ASSUME Typed, NEW c \in Conns, NEW kind \in Kinds, NEW what \in {"line", "body"}
    PROVE  /\ Unit(what, kind, sent[c] + 1) \in Units
           /\ Unit(what, kind, sent[c] + 1).n = sent[c] + 1
           /\ Unit(what, kind, sent[c] + 1).what = what
           /\ Unit(what, kind, sent[c] + 1).kind = kind
BY OneConn, ServerAssumption DEF Unit, Units
\* The numbers of the requests go on growing.
LEMMA NumbersNext ==
    ASSUME Typed, NEW c \in Conns, Numbers(c), Blocks(c),
           Stays(c) \/ Reads(c) \/ Skips(c) \/ Drops(c) \/ Blocked(c) \/ \E kind \in Kinds : Lined(c, kind)
    PROVE  Numbers(c)'
<1> DEFINE s == stream[c]
           t == stream'[c]
           e == expects[c]
           f == expects'[c]
<1>0. /\ Len(s) \in Nat /\ Len(e) \in Nat /\ sent[c] \in Nat /\ req[c].n \in Nat
      /\ \A i \in 1 .. Len(s) : s[i].n \in Nat
      /\ \A i \in 1 .. Len(e) : e[i] \in Nat
  BY OneConn
<1>1. /\ \A i \in 1 .. Len(e) : e[i] <= sent[c]
      /\ \A i, j \in 1 .. Len(e) : i < j => e[i] < e[j]
      /\ \A i \in 1 .. Len(s) : s[i].n <= sent[c]
      /\ \A i, j \in 1 .. Len(s) : i < j /\ s[j].what = "line" => s[i].n < s[j].n
      /\ at[c] \in Serving => req[c].n <= sent[c] /\ \A i \in 1 .. Len(s) :
             s[i].what = "line" => req[c].n < s[i].n
  BY DEF Numbers
<1> SUFFICES /\ \A i \in 1 .. Len(f) : f[i] <= sent'[c]
             /\ \A i, j \in 1 .. Len(f) : i < j => f[i] < f[j]
             /\ \A i \in 1 .. Len(t) : t[i].n <= sent'[c]
             /\ \A i, j \in 1 .. Len(t) : i < j /\ t[j].what = "line" => t[i].n < t[j].n
             /\ at'[c] \in Serving => req'[c].n <= sent'[c] /\ \A i \in 1 .. Len(t) :
                    t[i].what = "line" => req'[c].n < t[i].n
  BY DEF Numbers
<1>2. CASE Stays(c)
  BY <1>1, <1>2 DEF Stays
<1>3. CASE Reads(c)
  <2>1. /\ 1 \in 1 .. Len(s) /\ Len(t) \in Nat /\ f = e /\ sent'[c] = sent[c] /\ req'[c] = s[1]
        /\ \A i \in 1 .. Len(t) : i + 1 \in 1 .. Len(s) /\ t[i] = s[i + 1]
    BY <1>3, Shorter DEF Reads
  <2> HIDE DEF s, t, e, f
  <2>2. ASSUME NEW i \in 1 .. Len(t), NEW j \in 1 .. Len(t), i < j, t[j].what = "line"
        PROVE  t[i].n < t[j].n
    <3>1. /\ i + 1 \in 1 .. Len(s) /\ t[i] = s[i + 1] /\ j + 1 \in 1 .. Len(s) /\ t[j] = s[j + 1]
          /\ i + 1 < j + 1
      BY <2>1, <2>2
    <3> QED BY <1>1, <2>2, <3>1
  <2>3. ASSUME NEW i \in 1 .. Len(t), t[i].what = "line" PROVE s[1].n < t[i].n
    <3>1. i + 1 \in 1 .. Len(s) /\ t[i] = s[i + 1] /\ 1 < i + 1
      BY <2>1
    <3> QED BY <1>1, <2>1, <2>3, <3>1
  <2> QED BY <1>0, <1>1, <2>1, <2>2, <2>3
<1>4. CASE Skips(c)
  <2>1. /\ 1 \in 1 .. Len(s) /\ Len(t) \in Nat /\ f = e /\ sent'[c] = sent[c] /\ req'[c] = req[c]
        /\ \A i \in 1 .. Len(t) : i + 1 \in 1 .. Len(s) /\ t[i] = s[i + 1]
        /\ at[c] \in Serving
    BY <1>4, Shorter DEF Skips, Serving
  <2> HIDE DEF s, t, e, f
  <2>2. ASSUME NEW i \in 1 .. Len(t), NEW j \in 1 .. Len(t), i < j, t[j].what = "line"
        PROVE  t[i].n < t[j].n
    <3>1. /\ i + 1 \in 1 .. Len(s) /\ t[i] = s[i + 1] /\ j + 1 \in 1 .. Len(s) /\ t[j] = s[j + 1]
          /\ i + 1 < j + 1
      BY <2>1, <2>2
    <3> QED BY <1>1, <2>2, <3>1
  <2> QED BY <1>0, <1>1, <2>1, <2>2
<1>5. CASE Blocked(c)
  <2>0. owes[c] \in Units /\ owes[c].what = "body" /\ owes[c].n = sent[c]
    BY <1>5, OneConn DEF Blocked, Blocks
  <2>1. /\ f = e /\ sent'[c] = sent[c] /\ req'[c] = req[c] /\ at'[c] = at[c]
        /\ t[Len(s) + 1] = owes[c] /\ \A i \in 1 .. Len(s) : t[i] = s[i]
        /\ \A i \in 1 .. Len(t) : i \in 1 .. Len(s) \/ i = Len(s) + 1
    BY <1>5, <2>0, Longer DEF Blocked
  <2> HIDE DEF s, t, e, f
  <2>4. \A i \in 1 .. Len(t) : t[i].what = "line" => i \in 1 .. Len(s) /\ t[i] = s[i]
    BY <2>0, <2>1
  <2>2. ASSUME NEW i \in 1 .. Len(t), NEW j \in 1 .. Len(t), i < j, t[j].what = "line"
        PROVE  t[i].n < t[j].n
    <3>1. j \in 1 .. Len(s) /\ t[j] = s[j]
      BY <2>2, <2>4
    <3>2. i \in 1 .. Len(s)
      BY <1>0, <2>2, <3>1
    <3> QED BY <1>1, <2>1, <2>2, <3>1, <3>2
  <2>3. \A i \in 1 .. Len(t) : t[i].n <= sent'[c]
    BY <1>0, <1>1, <2>0, <2>1
  <2> QED BY <1>1, <2>1, <2>2, <2>3, <2>4
<1>6. ASSUME NEW kind \in Kinds, Lined(c, kind)
      PROVE  /\ \A i \in 1 .. Len(f) : f[i] <= sent'[c]
             /\ \A i, j \in 1 .. Len(f) : i < j => f[i] < f[j]
             /\ \A i \in 1 .. Len(t) : t[i].n <= sent'[c]
             /\ \A i, j \in 1 .. Len(t) : i < j /\ t[j].what = "line" => t[i].n < t[j].n
             /\ at'[c] \in Serving => req'[c].n <= sent'[c] /\ \A i \in 1 .. Len(t) :
                    t[i].what = "line" => req'[c].n < t[i].n
  <2> DEFINE u == Unit("line", kind, sent[c] + 1)
  <2>0. u \in Units /\ u.n = sent[c] + 1
    BY NewUnit
  <2>1. /\ sent'[c] = sent[c] + 1 /\ req'[c] = req[c] /\ at'[c] = at[c]
        /\ t[Len(s) + 1] = u /\ \A i \in 1 .. Len(s) : t[i] = s[i]
        /\ \A i \in 1 .. Len(t) : i \in 1 .. Len(s) \/ i = Len(s) + 1
    BY <1>6, <2>0, Longer DEF Lined
  <2>2. \/ f = e
        \/ /\ f[Len(e) + 1] = sent[c] + 1 /\ \A i \in 1 .. Len(e) : f[i] = e[i]
           /\ \A i \in 1 .. Len(f) : i \in 1 .. Len(e) \/ i = Len(e) + 1
    <3>1. e \in Seq(Nat) /\ sent[c] + 1 \in Nat /\ (f = e \/ f = Append(e, sent[c] + 1))
      BY <1>6, OneConn DEF Lined
    <3> HIDE DEF e, f
    <3>2. CASE f = e
      BY <3>2
    <3>3. CASE f = Append(e, sent[c] + 1)
      BY <3>1, <3>3, Appended
    <3> QED BY <3>1, <3>2, <3>3
  <2> HIDE DEF s, t, e, f, u
  <2>3. /\ \A i \in 1 .. Len(f) : f[i] <= sent'[c]
        /\ \A i, j \in 1 .. Len(f) : i < j => f[i] < f[j]
    <3>0. ASSUME NEW x \in Nat, x <= sent[c] PROVE x <= sent'[c]
      BY <1>0, <2>1, <3>0
    <3>1. CASE f = e
      BY <1>0, <1>1, <3>0, <3>1
    <3>2. CASE f # e
      <4>1. \A i \in 1 .. Len(e) : e[i] < sent[c] + 1
        BY <1>0, <1>1
      <4>2. /\ f[Len(e) + 1] = sent[c] + 1 /\ \A i \in 1 .. Len(e) : f[i] = e[i]
            /\ \A i \in 1 .. Len(f) : i \in 1 .. Len(e) \/ i = Len(e) + 1
        BY <2>2, <3>2
      <4>3. \A i \in 1 .. Len(f) : f[i] <= sent'[c]
        <5>1. sent'[c] = sent[c] + 1 /\ sent[c] + 1 \in Nat
          BY <1>0, <2>1
        <5> QED BY <1>0, <4>1, <4>2, <5>1
      <4>4. ASSUME NEW i \in 1 .. Len(f), NEW j \in 1 .. Len(f), i < j PROVE f[i] < f[j]
        <5>1. i \in 1 .. Len(e)
          BY <1>0, <4>2, <4>4
        <5> QED BY <1>1, <4>1, <4>2, <4>4, <5>1
      <4> QED BY <4>3, <4>4
    <3> QED BY <3>1, <3>2
  <2>4. ASSUME NEW i \in 1 .. Len(t), NEW j \in 1 .. Len(t), i < j, t[j].what = "line"
        PROVE  t[i].n < t[j].n
    <3>1. i \in 1 .. Len(s)
      <4>1. i # Len(s) + 1
        <5>1. j \in 1 .. Len(s) \/ j = Len(s) + 1
          BY <2>1
        <5> QED BY <1>0, <2>4, <5>1
      <4> QED BY <2>1, <4>1
    <3>2. CASE j = Len(s) + 1
      BY <1>0, <1>1, <2>0, <2>1, <3>1, <3>2, SMTT(40)
    <3>3. CASE j \in 1 .. Len(s)
      BY <1>1, <2>1, <2>4, <3>1, <3>3
    <3> QED BY <2>1, <3>2, <3>3
  <2>5. ASSUME NEW i \in 1 .. Len(t) PROVE t[i].n <= sent'[c]
    <3>1. CASE i \in 1 .. Len(s)
      <4>1. t[i].n \in Nat /\ t[i].n <= sent[c]
        BY <1>0, <1>1, <2>1, <3>1
      <4> QED BY <1>0, <2>1, <4>1
    <3>2. CASE i = Len(s) + 1
      BY <1>0, <2>0, <2>1, <3>2
    <3> QED BY <2>1, <3>1, <3>2
  <2>6. at'[c] \in Serving => req'[c].n <= sent'[c] /\ \A i \in 1 .. Len(t) :
                    t[i].what = "line" => req'[c].n < t[i].n
    <3> SUFFICES ASSUME at[c] \in Serving
                 PROVE  req[c].n <= sent[c] + 1 /\ \A i \in 1 .. Len(t) :
                            t[i].what = "line" => req[c].n < t[i].n
      BY <2>1
    <3>1. req[c].n \in Nat /\ req[c].n <= sent[c] /\ sent[c] \in Nat
      BY <1>0, <1>1
    <3>2. ASSUME NEW i \in 1 .. Len(t), t[i].what = "line" PROVE req[c].n < t[i].n
      <4>1. CASE i \in 1 .. Len(s)
        BY <1>1, <2>1, <3>2, <4>1
      <4>2. CASE i = Len(s) + 1
        BY <2>0, <2>1, <3>1, <4>2
      <4> QED BY <2>1, <4>1, <4>2
    <3> QED BY <3>1, <3>2
  <2> QED BY <2>3, <2>4, <2>5, <2>6
<1>7. CASE Drops(c)
  <2>1. Len(t) = 0 /\ f = e /\ sent'[c] = sent[c] /\ at'[c] \notin Serving
    BY <1>7, EmptySeq DEF Drops, Serving
  <2> HIDE DEF s, t, e, f
  <2> QED BY <1>1, <2>1
<1> HIDE DEF s, t, e, f
<1> QED BY <1>2, <1>3, <1>4, <1>5, <1>6, <1>7

\* Data blocks go on following their lines.
LEMMA BlocksNext ==
    ASSUME Typed, UnitInv, NEW c \in Conns, Blocks(c),
           Stays(c) \/ Reads(c) \/ Skips(c) \/ Drops(c) \/ Blocked(c) \/ \E kind \in Kinds : Lined(c, kind)
    PROVE  Blocks(c)'
<1> DEFINE s == stream[c]
           t == stream'[c]
<1>0. Len(s) \in Nat /\ owes[c] \in Units /\ (s = << >> <=> Len(s) = 0) /\ NoUnit.what = "none"
  BY OneConn, EmptySeq DEF NoUnit, Unit
<1>1. /\ owes[c] = NoUnit \/ (owes[c].what = "body" /\ owes[c].n = sent[c])
      /\ \A i \in 1 .. Len(s) : s[i].what = "line" /\ s[i].kind \in BodyKinds =>
               IF i < Len(s) THEN s[i + 1].what = "body" ELSE owes[c].what = "body"
      /\ at[c] \in {"token", "body"} /\ req[c].kind \in BodyKinds =>
               IF s = << >> THEN owes[c].what = "body" ELSE s[1].what = "body"
  BY DEF Blocks
<1> DEFINE Goal ==
      /\ owes'[c] = NoUnit \/ (owes'[c].what = "body" /\ owes'[c].n = sent'[c])
      /\ \A i \in 1 .. Len(t) : t[i].what = "line" /\ t[i].kind \in BodyKinds =>
               IF i < Len(t) THEN t[i + 1].what = "body" ELSE owes'[c].what = "body"
      /\ at'[c] \in {"token", "body"} /\ req'[c].kind \in BodyKinds =>
               IF t = << >> THEN owes'[c].what = "body" ELSE t[1].what = "body"
<1> SUFFICES Goal
  BY DEF Blocks
<1>2. CASE Stays(c)
  BY <1>1, <1>2 DEF Stays, Serving
<1>3. CASE Reads(c) \/ Skips(c)
  <2>1. /\ 1 \in 1 .. Len(s) /\ Len(t) \in Nat /\ Len(t) = Len(s) - 1
        /\ sent'[c] = sent[c] /\ owes'[c] = owes[c]
        /\ \A i \in 1 .. Len(t) : i + 1 \in 1 .. Len(s) /\ t[i] = s[i + 1]
        /\ t = << >> => Len(t) = 0
    BY <1>3, Shorter, EmptySeq DEF Reads, Skips
  <2>2. t # << >> => 1 \in 1 .. Len(t)
    BY <1>3, OneConn, HeadTail, EmptySeq DEF Reads, Skips
  <2>3. at'[c] \in {"token", "body"} => req'[c] = s[1] /\ s[1].what = "line"
    BY <1>3, <2>1 DEF Reads, Skips, UnitInv
  <2> HIDE DEF s, t
  <2>4. \A i \in 1 .. Len(t) : t[i].what = "line" /\ t[i].kind \in BodyKinds =>
               IF i < Len(t) THEN t[i + 1].what = "body" ELSE owes'[c].what = "body"
    <3> SUFFICES ASSUME NEW i \in 1 .. Len(t), t[i].what = "line", t[i].kind \in BodyKinds
                 PROVE  IF i < Len(t) THEN t[i + 1].what = "body" ELSE owes'[c].what = "body"
      OBVIOUS
    <3>0. Len(s) \in Nat /\ Len(t) \in Nat /\ Len(t) = Len(s) - 1 /\ i \in Nat
      BY <1>0, <2>1
    <3>2. i + 1 \in 1 .. Len(s) /\ t[i] = s[i + 1] /\ (i < Len(t) <=> i + 1 < Len(s))
      BY <2>1, <3>0
    <3>3. i < Len(t) => i + 1 \in 1 .. Len(t)
      BY <3>0
    <3>1. /\ i + 1 \in 1 .. Len(s) /\ t[i] = s[i + 1] /\ (i < Len(t) <=> i + 1 < Len(s))
          /\ i < Len(t) => t[i + 1] = s[i + 1 + 1]
      BY <2>1, <3>2, <3>3
    <3> QED BY <1>1, <2>1, <3>1
  <2>5. ASSUME at'[c] \in {"token", "body"}, req'[c].kind \in BodyKinds
        PROVE  IF t = << >> THEN owes'[c].what = "body" ELSE t[1].what = "body"
    <3>1. s[1].kind \in BodyKinds /\ s[1].what = "line"
      BY <2>3, <2>5
    <3> QED BY <1>0, <1>1, <2>1, <2>2, <3>1
  <2> QED BY <1>1, <2>1, <2>4, <2>5
<1>4. CASE Blocked(c)
  <2>0. owes[c].what = "body" /\ owes'[c] = NoUnit
    BY <1>1, <1>4 DEF Blocked
  <2>1. /\ sent'[c] = sent[c] /\ req'[c] = req[c] /\ at'[c] = at[c]
        /\ t[Len(s) + 1] = owes[c] /\ Len(t) = Len(s) + 1 /\ \A i \in 1 .. Len(s) : t[i] = s[i]
        /\ \A i \in 1 .. Len(t) : i \in 1 .. Len(s) \/ i = Len(s) + 1
    BY <1>0, <1>4, Longer DEF Blocked
  <2>2. t # << >>
    BY <1>0, <2>1, EmptySeq
  <2> HIDE DEF s, t
  <2> QED BY <1>0, <1>1, <2>0, <2>1, <2>2
<1>5. ASSUME NEW kind \in Kinds, Lined(c, kind) PROVE Goal
  <2> DEFINE u == Unit("line", kind, sent[c] + 1)
  <2>0. /\ u \in Units /\ u.n = sent[c] + 1 /\ u.kind = kind
        /\ Unit("body", kind, sent[c] + 1).what = "body" /\ Unit("body", kind, sent[c] + 1).n = sent[c] + 1
    BY NewUnit
  <2>1. /\ sent'[c] = sent[c] + 1 /\ req'[c] = req[c] /\ at'[c] = at[c] /\ owes[c] = NoUnit
        /\ t[Len(s) + 1] = u /\ Len(t) = Len(s) + 1 /\ \A i \in 1 .. Len(s) : t[i] = s[i]
        /\ \A i \in 1 .. Len(t) : i \in 1 .. Len(s) \/ i = Len(s) + 1
    BY <1>5, <2>0, Longer DEF Lined
  <2>2. IF kind \in BodyKinds \cup {"refused"}
        THEN owes'[c].what = "body" /\ owes'[c].n = sent'[c] ELSE owes'[c] = NoUnit
    BY <1>5, <2>0, <2>1 DEF Lined
  <2>5. t # << >>
    BY <1>0, <2>1, EmptySeq
  <2> HIDE DEF s, t, u
  <2>3. \A i \in 1 .. Len(t) : t[i].what = "line" /\ t[i].kind \in BodyKinds =>
               IF i < Len(t) THEN t[i + 1].what = "body" ELSE owes'[c].what = "body"
    BY <1>0, <1>1, <2>0, <2>1, <2>2
  <2>4. at'[c] \in {"token", "body"} /\ req'[c].kind \in BodyKinds =>
               IF t = << >> THEN owes'[c].what = "body" ELSE t[1].what = "body"
    BY <1>0, <1>1, <2>1, <2>5
  <2> QED BY <2>2, <2>3, <2>4
<1>6. CASE Drops(c)
  <2>1. /\ Len(t) = 0 /\ owes'[c] = owes[c] /\ sent'[c] = sent[c] /\ at'[c] = "finish"
    BY <1>6, EmptySeq DEF Drops
  <2> HIDE DEF s, t
  <2> QED BY <1>1, <2>1
<1> HIDE DEF Goal
<1> QED BY <1>2, <1>3, <1>4, <1>5, <1>6

\* A request is where its kind is served.
LEMMA PlacedNext ==
    ASSUME Typed, UnitInv, NEW c \in Conns, Placed(c),
           Goroutine(c) \/ GetToken(c) \/ Accept(c) \/ Client(c)
    PROVE  Placed(c)'
<1> USE DEF Typed, ConnsOK, HistoryOK
<1>1. CASE Client(c)
  <2>1. UNCHANGED <<at, req, quiet, skewed>>
    BY <1>1 DEF Client, SendBody, HangUp, SendLine, connVars, history
  <2> QED BY <2>1 DEF Placed
<1>2. CASE Accept(c) \/ Register(c) \/ Loop(c) \/ Unregister(c)
  BY <1>2 DEF Accept, Register, Loop, Unregister, Runs, Go, history, Placed
<1>3. CASE ReadLine(c)
  <2>1. Head(stream[c]).what \in {"line", "body"}
    <3>1. stream[c] \in Seq(Units) /\ stream[c] # << >>
      BY <1>3 DEF ClientsOK, ReadLine
    <3>2. Head(stream[c]) = stream[c][1] /\ 1 \in 1 .. Len(stream[c])
      BY <3>1, HeadTail
    <3> QED BY <3>2 DEF UnitInv
  <2>2. /\ req'[c] = Head(stream[c]) /\ quiet' = quiet /\ at[c] = "read"
        /\ skewed' = IF req'[c].what = "body" THEN skewed \cup {c} ELSE skewed
        /\ at'[c] = IF req'[c].what = "body" \/ req'[c].kind = "refused" THEN "reply"
                    ELSE IF req'[c].kind \in TokenKinds THEN "token" ELSE "check"
    BY <1>3 DEF ReadLine, Runs, Go
  <2> QED BY <2>1, <2>2 DEF Placed, ClosingKinds, QuietKinds
<1>4. CASE \/ ReadEOF(c) \/ GetToken(c) \/ ReadBody(c) \/ ReadUnfit(c) \/ BodyEOF(c) \/ InTime(c)
           \/ \E ends \in BOOLEAN : ReadShort(c, ends)
  BY <1>4 DEF ReadEOF, GetToken, ReadBody, ReadUnfit, ReadShort, BodyEOF, InTime, Runs, Go, history,
     Placed, ClosingKinds, QuietKinds
<1>5. CASE RecvTimeout(c)
  BY <1>5 DEF RecvTimeout, Runs, Go, Placed
<1>6. CASE Process(c)
  BY <1>6 DEF Process, Runs, Go, Placed
<1>7. CASE Panic(c) \/ ProcessTimeout(c) \/ Reply(c) \/ WriteFails(c) \/ NoReply(c) \/ Finish(c)
  BY <1>7 DEF Panic, ProcessTimeout, Reply, WriteFails, NoReply, Returned, Finish, Runs, Go, history, Placed
<1> HIDE DEF Typed, ConnsOK, HistoryOK
<1> QED BY <1>1, <1>2, <1>3, <1>4, <1>5, <1>6, <1>7 DEF Goroutine

\* A connection that is being closed, or out of step, stays so.
LEMMA EndingStays ==
    ASSUME Typed, NEW c \in Conns, Goroutine(c) \/ GetToken(c) \/ Accept(c) \/ Client(c)
    PROVE  (Ending(c) => Ending(c)') /\ skewed \subseteq skewed'
<1> USE DEF Typed, ConnsOK, HistoryOK
<1>1. CASE Client(c)
  BY <1>1 DEF Client, SendBody, HangUp, SendLine, connVars, history, Ending
<1>2. CASE Accept(c) \/ Register(c) \/ Loop(c) \/ Unregister(c) \/ ReadLine(c) \/ ReadEOF(c) \/ GetToken(c)
  BY <1>2 DEF Accept, Register, Loop, Unregister, ReadLine, ReadEOF, GetToken, Runs, Go, Shutdown, history,
     Ending
<1>3. CASE \/ ReadBody(c) \/ ReadUnfit(c) \/ BodyEOF(c) \/ InTime(c) \/ RecvTimeout(c) \/ Process(c)
           \/ \E ends \in BOOLEAN : ReadShort(c, ends)
  BY <1>3 DEF ReadBody, ReadUnfit, ReadShort, BodyEOF, InTime, RecvTimeout, Process, Runs, Go, Shutdown, history, Ending
<1>4. CASE Panic(c) \/ ProcessTimeout(c) \/ Reply(c) \/ WriteFails(c) \/ NoReply(c) \/ Finish(c)
  BY <1>4 DEF Panic, ProcessTimeout, Reply, WriteFails, NoReply, Returned, Finish, Runs, Go, Shutdown, history, Ending
<1> HIDE DEF Typed, ConnsOK, HistoryOK
<1> QED BY <1>1, <1>2, <1>3, <1>4 DEF Goroutine

\* A request that is left without a reply needs none, or its connection is
\* being closed or out of step.
LEMMA LeftAlone ==
    ASSUME Typed, NEW c \in Conns, Placed(c),
           Goroutine(c) \/ GetToken(c) \/ Accept(c) \/ Client(c), ~Reply(c)
    PROVE  /\ replies'[c] = replies[c]
           /\ at[c] \in Serving /\ Awaited(req[c]) =>
                  at'[c] \in Serving \/ c \in skewed' \/ Ending(c)'
<1> USE DEF Typed, ConnsOK, HistoryOK
<1>1. CASE Client(c)
  BY <1>1 DEF Client, SendBody, HangUp, SendLine, connVars
<1>2. CASE Accept(c) \/ Register(c) \/ Loop(c) \/ Unregister(c) \/ ReadLine(c) \/ ReadEOF(c) \/ Finish(c)
  BY <1>2 DEF Accept, Register, Loop, Unregister, ReadLine, ReadEOF, Finish, Runs, Serving
<1>3. CASE \/ GetToken(c) \/ ReadBody(c) \/ ReadUnfit(c) \/ InTime(c) \/ RecvTimeout(c)
           \/ \E ends \in BOOLEAN : ReadShort(c, ends)
  BY <1>3 DEF GetToken, ReadBody, ReadUnfit, ReadShort, InTime, RecvTimeout, Runs, Go, Serving
<1>4. CASE BodyEOF(c) \/ Process(c) \/ WriteFails(c)
  BY <1>4 DEF BodyEOF, Process, WriteFails, Runs, Go, Shutdown, Serving, Ending
<1>5. CASE Panic(c) \/ ProcessTimeout(c)
  BY <1>5 DEF Panic, ProcessTimeout
<1>6. CASE NoReply(c)
  <2>1. at[c] = "reply" /\ quiet[c] /\ UNCHANGED <<replies, skewed>>
    BY <1>6 DEF NoReply, Runs, history
  <2>2. c \in skewed \/ ~Awaited(req[c])
    BY <2>1 DEF Placed, Awaited, SilentKinds
  <2> QED BY <2>1, <2>2
<1> HIDE DEF Typed, ConnsOK, HistoryOK
<1> QED BY <1>1, <1>2, <1>3, <1>4, <1>5, <1>6 DEF Goroutine
\* Only a new command adds to the requests that wait, and only a reply takes
\* from them.
LEMMA WaitsStep ==
    ASSUME Typed, HoldInv, NEW c \in Conns, Blocks(c), Stays(c) \/ Reads(c) \/ Skips(c) \/ Blocked(c),
           at[c] \in Serving /\ Awaited(req[c]) => at'[c] \in Serving, NEW n \in Nat
    PROVE  Waits(c, n)' <=> Waits(c, n)
<1> DEFINE s == stream[c]
           t == stream'[c]
           Goal == \/ \E j \in 1 .. Len(t) : Awaited(t[j]) /\ t[j].n = n
                   \/ at'[c] \in Serving /\ Awaited(req'[c]) /\ req'[c].n = n
<1>0. Waits(c, n)' <=> Goal
  BY DEF Waits, Awaited
<1>1. Len(s) \in Nat
  BY OneConn
<1>2. CASE Stays(c)
  <2>1. t = s /\ (at'[c] \in Serving => at[c] \in Serving /\ req'[c] = req[c])
    BY <1>2 DEF Stays
  <2>2. CASE at'[c] \in Serving
    BY <1>0, <2>1, <2>2 DEF Waits
  <2>3. CASE at'[c] \notin Serving
    BY <1>0, <2>1, <2>3 DEF Waits
  <2> QED BY <2>2, <2>3
<1>3. CASE Reads(c)
  <2>1. /\ 1 \in 1 .. Len(s) /\ Len(t) = Len(s) - 1 /\ Len(t) \in Nat /\ req'[c] = s[1]
        /\ \A i \in 1 .. Len(t) : i + 1 \in 1 .. Len(s) /\ t[i] = s[i + 1]
        /\ at[c] \notin Serving /\ at'[c] \in Serving
    BY <1>3, Shorter DEF Reads, Serving
  <2>2. \A i \in 1 .. Len(s) : i = 1 \/ (i - 1 \in 1 .. Len(t) /\ t[i - 1] = s[i])
    <3> HIDE DEF s, t
    <3> QED BY <1>1, <2>1
  <2>3. Waits(c, n) <=> \E j \in 1 .. Len(s) : Awaited(s[j]) /\ s[j].n = n
    BY <2>1 DEF Waits
  <2>4. Goal <=> (\E j \in 1 .. Len(t) : Awaited(t[j]) /\ t[j].n = n) \/ (Awaited(s[1]) /\ s[1].n = n)
    BY <2>1
  <2> HIDE DEF s, t, Goal
  <2> QED BY <1>0, <2>1, <2>2, <2>3, <2>4, ZenonT(40)
<1>4. CASE Skips(c)
  <2>1. /\ 1 \in 1 .. Len(s) /\ Len(t) = Len(s) - 1 /\ Len(t) \in Nat /\ req'[c] = req[c]
        /\ \A i \in 1 .. Len(t) : i + 1 \in 1 .. Len(s) /\ t[i] = s[i + 1]
        /\ at[c] \in Serving /\ at'[c] \in Serving /\ at[c] = "body" /\ s # << >>
    BY <1>4, Shorter DEF Skips, Serving
  <2>2. \A i \in 1 .. Len(s) : i = 1 \/ (i - 1 \in 1 .. Len(t) /\ t[i - 1] = s[i])
    <3> HIDE DEF s, t
    <3> QED BY <1>1, <2>1
  <2>3. ~Awaited(s[1])
    BY <2>1 DEF Blocks, HoldInv, Awaited
  <2> HIDE DEF t
  <2> QED BY <1>0, <2>1, <2>2, <2>3, ZenonT(40) DEF Waits
<1>5. CASE Blocked(c)
  <2>0. owes[c] \in Units /\ ~Awaited(owes[c])
    BY <1>5, OneConn DEF Blocked, Blocks, Awaited
  <2>1. /\ req'[c] = req[c] /\ at'[c] = at[c] /\ Len(t) = Len(s) + 1
        /\ t[Len(s) + 1] = owes[c] /\ \A i \in 1 .. Len(s) : t[i] = s[i]
        /\ \A i \in 1 .. Len(t) : i \in 1 .. Len(s) \/ i = Len(s) + 1
    BY <1>5, <2>0, Longer DEF Blocked
  <2>2. \A i \in 1 .. Len(s) : i \in 1 .. Len(t)
    BY <1>1, <2>1
  <2> HIDE DEF t
  <2> QED BY <1>0, <2>0, <2>1, <2>2 DEF Waits
<1> QED BY <1>2, <1>3, <1>4, <1>5

\* A command adds itself if its client expects an answer.
LEMMA WaitsLined ==
    ASSUME Typed, NEW c \in Conns, NEW kind \in Kinds, Lined(c, kind), NEW n \in Nat
    PROVE  Waits(c, n)' <=> Waits(c, n) \/ (kind \notin SilentKinds /\ n = sent[c] + 1)
<1> DEFINE s == stream[c]
           t == stream'[c]
           u == Unit("line", kind, sent[c] + 1)
           Goal == \/ \E j \in 1 .. Len(t) : Awaited(t[j]) /\ t[j].n = n
                   \/ at'[c] \in Serving /\ Awaited(req'[c]) /\ req'[c].n = n
<1>0. Waits(c, n)' <=> Goal
  BY DEF Waits, Awaited
<1>1. Len(s) \in Nat /\ u \in Units /\ u.n = sent[c] + 1 /\ (Awaited(u) <=> kind \notin SilentKinds)
  BY OneConn, NewUnit DEF Awaited
<1>2. /\ req'[c] = req[c] /\ at'[c] = at[c] /\ Len(t) = Len(s) + 1
      /\ t[Len(s) + 1] = u /\ \A i \in 1 .. Len(s) : t[i] = s[i]
      /\ \A i \in 1 .. Len(t) : i \in 1 .. Len(s) \/ i = Len(s) + 1
  BY <1>1, Longer DEF Lined
<1>3. Len(s) + 1 \in 1 .. Len(t) /\ \A i \in 1 .. Len(s) : i \in 1 .. Len(t)
  BY <1>1, <1>2
<1> HIDE DEF t, u
<1> QED BY <1>0, <1>1, <1>2, <1>3 DEF Waits

\* A step without a reply keeps replies and expectations in step.
LEMMA AnsweredNext ==
    ASSUME Typed, HoldInv, NEW c \in Conns, Numbers(c), Blocks(c), Placed(c), Answered(c),
           Goroutine(c) \/ GetToken(c) \/ Accept(c) \/ Client(c), ~Reply(c)
    PROVE  Answered(c)'
<1> SUFFICES ASSUME c \notin skewed'
             PROVE  /\ Len(replies'[c]) <= Len(expects'[c])
                    /\ \A i \in 1 .. Len(replies'[c]) : replies'[c][i] = expects'[c][i]
                    /\ ~Ending(c)' => Owed(c)'
  BY DEF Answered
<1> DEFINE r == replies[c]
           e == expects[c]
           f == expects'[c]
<1>0. Len(r) \in Nat /\ Len(e) \in Nat /\ e \in Seq(Nat) /\ sent[c] \in Nat
      /\ \A i \in 1 .. Len(e) : e[i] \in Nat
  BY OneConn
<1>1. /\ c \notin skewed /\ (~Ending(c)' => ~Ending(c)) /\ replies'[c] = r
      /\ ~Ending(c)' => (at[c] \in Serving /\ Awaited(req[c]) => at'[c] \in Serving)
  BY EndingStays, LeftAlone
<1>2. /\ Len(r) <= Len(e) /\ \A i \in 1 .. Len(r) : r[i] = e[i]
      /\ ~Ending(c)' => Owed(c)
  BY <1>1 DEF Answered
<1>3. Stays(c) \/ Reads(c) \/ Skips(c) \/ Drops(c) \/ Blocked(c) \/ \E kind \in Kinds : Lined(c, kind)
  BY StreamEffects
<1>4. CASE Stays(c) \/ Reads(c) \/ Skips(c) \/ Blocked(c)
  <2>1. f = e
    BY <1>4 DEF Stays, Reads, Skips, Blocked
  <2>2. ASSUME ~Ending(c)' PROVE Owed(c)'
    <3>1. \A n \in Nat : Waits(c, n)' <=> Waits(c, n)
      BY <1>1, <1>4, <2>2, WaitsStep
    <3>2. Waiting(c)' = Waiting(c)
      BY <3>1 DEF Waiting
    <3>3. Owed(c)
      BY <1>2, <2>2
    <3> QED BY <1>1, <2>1, <3>2, <3>3 DEF Owed
  <2> QED BY <1>1, <1>2, <2>1, <2>2
<1>5. ASSUME NEW kind \in Kinds, Lined(c, kind)
      PROVE  /\ Len(replies'[c]) <= Len(expects'[c])
             /\ \A i \in 1 .. Len(replies'[c]) : replies'[c][i] = expects'[c][i]
             /\ ~Ending(c)' => Owed(c)'
  <2>1. \A n \in Nat : n \in Waiting(c)' <=> n \in Waiting(c) \/ (kind \notin SilentKinds /\ n = sent[c] + 1)
    BY <1>5, WaitsLined DEF Waiting
  <2>2. /\ Len(f) \in Nat /\ Len(e) <= Len(f) /\ \A i \in 1 .. Len(e) : f[i] = e[i]
        /\ \A i \in 1 .. Len(f) : i \in 1 .. Len(e) \/ (kind \notin SilentKinds /\ f[i] = sent[c] + 1)
        /\ kind \notin SilentKinds => Len(f) = Len(e) + 1 /\ f[Len(e) + 1] = sent[c] + 1
    <3>1. CASE kind \in SilentKinds
      BY <1>0, <1>5, <3>1 DEF Lined
    <3>2. CASE kind \notin SilentKinds
      <4>1. f = Append(e, sent[c] + 1) /\ sent[c] + 1 \in Nat
        BY <1>0, <1>5, <3>2 DEF Lined
      <4> HIDE DEF e, f
      <4> QED BY <1>0, <3>2, <4>1, Appended
    <3> QED BY <3>1, <3>2
  <2>3. ASSUME ~Ending(c)' PROVE Owed(c)'
    <3>2. Owed(c)
      BY <1>2, <2>3
    <3>3. /\ \A i \in Len(r) + 1 .. Len(e) : e[i] \in Waiting(c)
          /\ \A n \in Waiting(c) : \E i \in Len(r) + 1 .. Len(e) : e[i] = n
      BY <3>2 DEF Owed
    <3>4. ASSUME NEW i \in Len(r) + 1 .. Len(f) PROVE f[i] \in Waiting(c)'
      <4>1. i \in 1 .. Len(f) /\ (i \in 1 .. Len(e) => i \in Len(r) + 1 .. Len(e))
        BY <1>0, <2>2
      <4>2. CASE i \in 1 .. Len(e)
        <5>1. f[i] = e[i] /\ e[i] \in Nat /\ e[i] \in Waiting(c)
          BY <1>0, <2>2, <3>3, <4>1, <4>2
        <5> QED BY <2>1, <5>1
      <4>3. CASE kind \notin SilentKinds /\ f[i] = sent[c] + 1
        <5>1. f[i] \in Nat
          BY <1>0, <4>3
        <5> QED BY <2>1, <4>3, <5>1
      <4> QED BY <2>2, <4>1, <4>2, <4>3
    <3>5. ASSUME NEW n \in Waiting(c)' PROVE \E i \in Len(r) + 1 .. Len(f) : f[i] = n
      <4>0. n \in Nat
        BY DEF Waiting
      <4>1. CASE n \in Waiting(c)
        <5>1. PICK i \in Len(r) + 1 .. Len(e) : e[i] = n
          BY <3>3, <4>1
        <5>2. i \in Len(r) + 1 .. Len(f) /\ i \in 1 .. Len(e)
          BY <1>0, <2>2
        <5> QED BY <2>2, <5>1, <5>2
      <4>2. CASE kind \notin SilentKinds /\ n = sent[c] + 1
        <5>1. Len(e) + 1 \in Len(r) + 1 .. Len(f)
          BY <1>0, <1>2, <2>2, <4>2
        <5> QED BY <2>2, <4>2, <5>1
      <4> QED BY <2>1, <4>0, <4>1, <4>2
    <3> QED BY <1>1, <3>4, <3>5 DEF Owed
  <2>4. Len(r) <= Len(f) /\ \A i \in 1 .. Len(r) : r[i] = f[i]
    <3>1. \A i \in 1 .. Len(r) : i \in 1 .. Len(e)
      BY <1>0, <1>2
    <3> QED BY <1>0, <1>2, <2>2, <3>1
  <2> QED BY <1>1, <2>3, <2>4
<1>6. CASE Drops(c)
  BY <1>1, <1>2, <1>6 DEF Drops
<1> QED BY <1>3, <1>4, <1>5, <1>6

\* A reply answers the first request that waits: those behind it in the stream
\* have greater numbers.
LEMMA ReplyStep ==
    ASSUME Typed, NEW c \in Conns, Numbers(c), Placed(c), Answered(c), Reply(c)
    PROVE  Answered(c)'
<1> SUFFICES ASSUME c \notin skewed'
             PROVE  /\ Len(replies'[c]) <= Len(expects'[c])
                    /\ \A i \in 1 .. Len(replies'[c]) : replies'[c][i] = expects'[c][i]
                    /\ ~Ending(c)' => Owed(c)'
  BY DEF Answered
<1> DEFINE s == stream[c]
           r == replies[c]
           e == expects[c]
           m == req[c].n
           k == Len(r) + 1
           Behind(n) == \E j \in 1 .. Len(s) : Awaited(s[j]) /\ s[j].n = n
<1>0. /\ Len(r) \in Nat /\ Len(e) \in Nat /\ m \in Nat /\ r \in Seq(Nat)
      /\ \A i \in 1 .. Len(e) : e[i] \in Nat
      /\ \A j \in 1 .. Len(s) : s[j].n \in Nat
  BY OneConn
<1>1. /\ at[c] \in {"reply", "overdue"} /\ ~quiet[c] /\ c \notin skewed
      /\ stream' = stream /\ expects' = expects /\ at'[c] = "finish"
      /\ replies'[c] = Append(r, IF req[c].what = "line" THEN m ELSE 0)
  BY DEF Reply, Runs, Go, Typed, ConnsOK, ClientsOK, clientVars
<1>2. Awaited(req[c]) /\ req[c].what = "line" /\ at[c] \in Serving /\ ~Ending(c)
  BY <1>1 DEF Placed, Awaited, SilentKinds, ClosingKinds, Serving, Ending
<1>3. /\ Len(r) <= Len(e) /\ \A i \in 1 .. Len(r) : r[i] = e[i]
      /\ \A i \in k .. Len(e) : e[i] \in Waiting(c)
      /\ \A n \in Waiting(c) : \E i \in k .. Len(e) : e[i] = n
  BY <1>1, <1>2 DEF Answered, Owed
<1>4. /\ \A n : n \in Waiting(c) <=> n \in Nat /\ (Behind(n) \/ m = n)
      /\ \A n : n \in Waiting(c)' <=> n \in Nat /\ Behind(n)
  BY <1>1, <1>2 DEF Waiting, Waits, Serving, Awaited
<1>5. \A n : Behind(n) => n \in Nat /\ m < n
  BY <1>0, <1>2 DEF Numbers, Awaited
<1>6. \A i, j \in 1 .. Len(e) : i < j => e[i] < e[j]
  BY DEF Numbers
<1> HIDE DEF s, r, e, m, Behind
<1>7. k \in 1 .. Len(e) /\ e[k] = m
  <2>1. PICK i \in k .. Len(e) : e[i] = m
    BY <1>0, <1>3, <1>4
  <2>2. k \in k .. Len(e) /\ k \in 1 .. Len(e) /\ i \in 1 .. Len(e) /\ k <= i
    BY <1>0
  <2>3. ~(m < e[k])
    BY <1>0, <1>6, <2>1, <2>2
  <2> QED BY <1>3, <1>4, <1>5, <2>2, <2>3
<1>8. /\ Len(replies'[c]) = k /\ replies'[c][k] = m /\ \A i \in 1 .. Len(r) : replies'[c][i] = r[i]
      /\ \A i \in 1 .. k : i \in 1 .. Len(r) \/ i = k
  <2>1. replies'[c] = Append(r, m)
    BY <1>1, <1>2
  <2> QED BY <1>0, <2>1, Appended
<1>9. ASSUME NEW i \in k + 1 .. Len(e) PROVE e[i] \in Waiting(c)'
  <2>1. i \in 1 .. Len(e) /\ i \in k .. Len(e) /\ k < i
    BY <1>0
  <2>2. e[k] < e[i] /\ e[i] \in Nat /\ e[i] \in Waiting(c)
    BY <1>0, <1>3, <1>6, <1>7, <2>1
  <2>3. e[i] # m
    BY <1>0, <1>7, <2>2
  <2> QED BY <1>4, <2>2, <2>3
<1>10. ASSUME NEW n \in Waiting(c)' PROVE \E i \in k + 1 .. Len(e) : e[i] = n
  <2>1. n \in Waiting(c) /\ n \in Nat /\ m < n
    BY <1>4, <1>5
  <2>2. PICK i \in k .. Len(e) : e[i] = n
    BY <1>3, <2>1
  <2>3. i # k
    BY <1>0, <1>7, <2>1, <2>2
  <2>4. i \in k + 1 .. Len(e)
    BY <1>0, <2>3
  <2> QED BY <2>2, <2>4
<1>11. expects'[c] = e
  BY <1>1 DEF e
<1>12. Owed(c)'
  BY <1>8, <1>9, <1>10, <1>11 DEF Owed
<1>13. Len(replies'[c]) <= Len(e) /\ \A i \in 1 .. Len(replies'[c]) : replies'[c][i] = e[i]
  <2>1. Len(replies'[c]) <= Len(e)
    BY <1>0, <1>7, <1>8
  <2> HIDE DEF k
  <2> QED BY <1>3, <1>7, <1>8, <2>1
<1> QED BY <1>11, <1>12, <1>13

\* A connection that takes no step is as it was; it may have been told to close.
LEMMA InStepFrame ==
    ASSUME NEW d \in Conns, InStep(d), (closing[d] => closing'[d]),
           at'[d] = at[d], req'[d] = req[d], quiet'[d] = quiet[d], stream'[d] = stream[d], owes'[d] = owes[d],
           sent'[d] = sent[d], expects'[d] = expects[d], replies'[d] = replies[d],
           d \in skewed' <=> d \in skewed
    PROVE  InStep(d)'
<1>1. Placed(d)' /\ (d \notin skewed' => Numbers(d)' /\ Blocks(d)')
  BY DEF InStep, Numbers, Blocks, Placed
<1>2. Waiting(d)' = Waiting(d) /\ (~Ending(d)' => ~Ending(d))
  BY DEF Waiting, Waits, Awaited, Ending
<1>3. d \notin skewed' => Answered(d)'
  BY <1>2 DEF InStep, Answered, Owed
<1> QED BY <1>1, <1>3 DEF InStep

\* A step of c is about c.
LEMMA OthersStay ==
    ASSUME Typed, NEW c \in Conns, Goroutine(c) \/ GetToken(c) \/ Accept(c) \/ Client(c),
           NEW d \in Conns \ {c}
    PROVE  /\ closing'[d] = closing[d] /\ quiet'[d] = quiet[d] /\ replies'[d] = replies[d]
           /\ at'[d] = at[d] /\ (d \in skewed' <=> d \in skewed)
<1> USE DEF Typed, ConnsOK, ClientsOK, HistoryOK
<1>1. CASE Client(c)
  BY <1>1 DEF Client, SendBody, HangUp, SendLine, connVars, history
<1>2. CASE Accept(c) \/ Register(c) \/ Loop(c) \/ Unregister(c) \/ ReadLine(c) \/ ReadEOF(c) \/ GetToken(c)
  BY <1>2 DEF Accept, Register, Loop, Unregister, ReadLine, ReadEOF, GetToken, Go, Shutdown, history
<1>3. CASE \/ ReadBody(c) \/ ReadUnfit(c) \/ BodyEOF(c) \/ InTime(c) \/ RecvTimeout(c) \/ Process(c)
           \/ \E ends \in BOOLEAN : ReadShort(c, ends)
  BY <1>3 DEF ReadBody, ReadUnfit, ReadShort, BodyEOF, InTime, RecvTimeout, Process, Go, Shutdown, history
<1>4. CASE Panic(c) \/ ProcessTimeout(c) \/ Reply(c) \/ WriteFails(c) \/ NoReply(c) \/ Finish(c)
  BY <1>4 DEF Panic, ProcessTimeout, Reply, WriteFails, NoReply, Returned, Finish, Go, Shutdown, history
<1> HIDE DEF Typed, ConnsOK, ClientsOK, HistoryOK
<1> QED BY <1>1, <1>2, <1>3, <1>4 DEF Goroutine

\* Every connection stays in step.
LEMMA ReplyNext == ASSUME IInv, ReplyInv, [Next]_vars PROVE ReplyInv'
<1>0. Typed /\ UnitInv /\ HoldInv
  BY TypeIsTyped DEF IInv, CountInv
<1>1. ASSUME NEW c \in Conns, Goroutine(c) \/ GetToken(c) \/ Accept(c) \/ Client(c) PROVE ReplyInv'
  <2>1. InStep(c)'
    <3>1. Placed(c) /\ (c \notin skewed => Numbers(c) /\ Blocks(c) /\ Answered(c))
      BY DEF ReplyInv, InStep
    <3>2. Placed(c)'
      BY <1>0, <1>1, <3>1, PlacedNext
    <3>3. ASSUME c \notin skewed' PROVE Numbers(c)' /\ Blocks(c)' /\ Answered(c)'
      <4>1. Numbers(c) /\ Blocks(c) /\ Answered(c)
        BY <1>0, <1>1, <3>1, <3>3, EndingStays
      <4>2. Stays(c) \/ Reads(c) \/ Skips(c) \/ Drops(c) \/ Blocked(c) \/ \E kind \in Kinds : Lined(c, kind)
        BY <1>0, <1>1, <3>3, StreamEffects
      <4>3. Numbers(c)' /\ Blocks(c)'
        BY <1>0, <4>1, <4>2, NumbersNext, BlocksNext
      <4>4. Answered(c)'
        BY <1>0, <1>1, <3>1, <4>1, AnsweredNext, ReplyStep
      <4> QED BY <4>3, <4>4
    <3> QED BY <3>2, <3>3 DEF InStep
  <2>2. ASSUME NEW d \in Conns \ {c} PROVE InStep(d)'
    <3>1. /\ stream'[d] = stream[d] /\ owes'[d] = owes[d] /\ sent'[d] = sent[d] /\ expects'[d] = expects[d]
          /\ req'[d] = req[d]
      BY <1>0, <1>1, StreamStep, RequestStep
    <3>2. /\ closing'[d] = closing[d] /\ quiet'[d] = quiet[d] /\ replies'[d] = replies[d]
          /\ at'[d] = at[d] /\ (d \in skewed' <=> d \in skewed)
      BY <1>0, <1>1, OthersStay
    <3> QED BY <3>1, <3>2, InStepFrame DEF ReplyInv
  <2> QED BY <2>1, <2>2 DEF ReplyInv
<1>2. CASE Signal \/ Notify \/ AcceptFails \/ Main \/ UNCHANGED vars
  <2>1. /\ UNCHANGED <<at, req, quiet, stream, owes, sent, expects, replies, skewed>>
        /\ \A d \in Conns : closing[d] => closing'[d]
    BY <1>2 DEF Signal, Notify, AcceptFails, Main, StopAccept, Drained, WaitTick, CloseStore, Exit, vars, clientVars,
       connVars, history
  <2> QED BY <2>1, InStepFrame DEF ReplyInv
<1> QED BY <1>1, <1>2 DEF Next

\* The client of a connection whose commands and replies are in step gets the
\* answers to its requests, one for each, in their order: what it has got is
\* the beginning of what it expects.
THEOREM InOrder == Spec => []RepliesMatch
<1>1. Init => ReplyInv
  <2> SUFFICES ASSUME Init, NEW c \in Conns PROVE InStep(c)
    BY DEF ReplyInv
  <2>1. /\ at[c] = "none" /\ stream[c] = << >> /\ expects[c] = << >> /\ replies[c] = << >>
        /\ owes[c] = NoUnit /\ ~quiet[c]
    BY DEF Init
  <2>2. Waiting(c) = {}
    BY <2>1 DEF Waiting, Waits, Serving
  <2> QED BY <2>1, <2>2 DEF InStep, Numbers, Blocks, Placed, Answered, Owed, Serving
<1>2. IInv /\ ReplyInv /\ [Next]_vars => ReplyInv'
  BY ReplyNext
<1>3. IInv /\ ReplyInv => RepliesMatch
  <2> SUFFICES ASSUME IInv, ReplyInv, NEW c \in Conns \ skewed PROVE IsPrefix(replies[c], expects[c])
    BY DEF RepliesMatch
  <2>1. /\ replies[c] \in Seq(Nat) /\ expects[c] \in Seq(Nat)
        /\ Len(replies[c]) \in Nat /\ Len(expects[c]) \in Nat
    BY OneConn, TypeIsTyped DEF IInv
  <2>2. Len(replies[c]) <= Len(expects[c]) /\ \A i \in 1 .. Len(replies[c]) : replies[c][i] = expects[c][i]
    BY DEF ReplyInv, InStep, Answered
  <2>3. SubSeq(replies[c], 1, Len(replies[c])) = SubSeq(expects[c], 1, Len(replies[c]))
    BY <2>1, <2>2, SubSeqProperties, SMTT(40)
  <2> QED BY <2>1, <2>2, <2>3 DEF IsPrefix
<1> QED BY <1>1, <1>2, <1>3, Invariant, PTL DEF Spec
=============================================================================
