------------------------------- MODULE Server -------------------------------
(***************************************************************************)
(* The memcache front end: memcache/server.go, protocol.go and token.go,   *)
(* with the calls of gobeansdb/store.go that move the buffer counters and  *)
(* the shutdown of gobeansdb/gobeansdb.go.                                 *)
(*                                                                         *)
(* One goroutine per connection runs ServeOnce in a loop: read a command,  *)
(* take one of MaxReq tokens, process, reply, and, deferred, free what the *)
(* request still holds.  A signal sets stop, wakes the accept loop and     *)
(* tells the registered connections to close after their next reply; the   *)
(* main goroutine waits a bounded time for them and closes the store.      *)
(*                                                                         *)
(* A request is its kind: what the handlers do with it.  A client sends    *)
(* the line of a command and, for the kinds with data, the data block.     *)
(***************************************************************************)
EXTENDS Integers, Sequences, FiniteSets, FiniteSetsExt, SequencesExt

CONSTANTS
    Conns,      \* connections clients may open
    Addr,       \* ServerConn.RemoteAddr of each
    NumTokens,  \* MCConf.MaxReq
    MaxTicks,   \* how often Serve looks whether the connections are gone
    Kinds,      \* the kinds of requests clients send
    Breaks,     \* whether Accept may fail
    MaxReqs     \* bound: requests of all connections together

\* get: a get of a present key; getbad: of one whose record cannot be read; twice:
\* "get k k"; set, setq: a set without and with noreply; unfit, short: a set whose
\* data block is longer or shorter than announced; refused: a set refused at its
\* line (malformed, too large, out of memory); append, appendq: without and with
\* noreply; incr: of an absent key; incrold: of a present number; incrnan: by
\* something that is no number; plain: delete, version and the like.
AllKinds == {"get", "getbad", "twice", "set", "setq", "unfit", "short", "refused", "append",
             "appendq", "incr", "incrold", "incrnan", "decr", "plain", "quit"}

ASSUME ServerAssumption ==
    /\ NumTokens \in Nat \ {0} /\ MaxTicks \in Nat \ {0} /\ MaxReqs \in Nat /\ Breaks \in BOOLEAN
    /\ Kinds \subseteq AllKinds /\ DOMAIN Addr = Conns /\ IsFiniteSet(Conns)

Tokens == 0 .. NumTokens - 1
NoToken == -1
\* Request.Read calls RL.Get for these, ...
TokenKinds == AllKinds \ {"refused", "plain", "quit"}
\* ... reads a data block for these (the client of a refused set sends one, too), ...
BodyKinds == {"set", "setq", "unfit", "short", "append", "appendq"}
\* ... and counts these in SetData before it has a token.
CountedKinds == {"incr", "incrold", "incrnan", "decr"}
\* Process gives no response: the connection is closed.
ClosingKinds == {"quit", "decr"}
\* Commands with noreply.
QuietKinds == {"setq", "appendq"}
\* A client expects no reply to these.
SilentKinds == QuietKinds \cup ClosingKinds
\* Process returns an error beside the response.
FailingKinds == {"append", "appendq", "getbad"}

Unit(what, kind, n) == [what |-> what, kind |-> kind, n |-> n]
NoUnit == Unit("none", "plain", 0)

VARIABLES
    at,        \* where each connection's goroutine is
    req,       \* the unit it serves
    token,     \* Request.Token while Request.Working
    closing,   \* ServerConn.closeAfterReply
    stream,    \* what the client sent and nobody read
    hungup,    \* the client closed its side
    owes,      \* the data block the client has announced and not sent
    sent,      \* number of requests the client sent
    expects,   \* history: requests the client expects a reply to
    replies,   \* history: the replies it got, by the request they answer
    quiet,     \* Response.Noreply
    items,     \* values held by the response
    free,      \* ReqLimiter.Chan
    conns,     \* Server.conns
    locked,    \* the server's mutex is held for ever
    stop, notified, main,
    ticks,     \* how often Serve has looked; MaxTicks: it looks no more
    setData, getData,   \* cmem.DBRL counts
    late,      \* history: the request was processed after the store closed
    lost,      \* history: such a set was acknowledged
    skewed,    \* history: connections where a reply was dropped or sent against
               \* noreply, or a data block was taken for a command
    spoiled,   \* history: a request ended in a receive timeout
    panicked   \* history: a request ended in a panic

connVars == <<at, req, token, closing, quiet, items>>
clientVars == <<stream, hungup, owes, sent, expects>>
mainVars == <<locked, stop, notified, main, ticks>>
history == <<late, lost, skewed, spoiled, panicked>>
vars == <<connVars, clientVars, replies, free, conns, mainVars, setData, getData, history>>

Places == {"none", "accepted", "loop", "read", "token", "body", "check", "process", "reply",
           "overdue", "finish", "close", "gone"}
Units == [what : {"none", "line", "body"}, kind : AllKinds, n : Nat]

ConnsOK ==
    /\ at \in [Conns -> Places] /\ req \in [Conns -> Units]
    /\ token \in [Conns -> Tokens \cup {NoToken}]
    /\ closing \in [Conns -> BOOLEAN]
    /\ quiet \in [Conns -> BOOLEAN] /\ items \in [Conns -> {0, 1}]
ClientsOK ==
    /\ stream \in [Conns -> Seq(Units)] /\ owes \in [Conns -> Units]
    /\ hungup \in [Conns -> BOOLEAN] /\ sent \in [Conns -> Nat]
    /\ expects \in [Conns -> Seq(Nat)] /\ replies \in [Conns -> Seq(Nat)]
SharedOK ==
    /\ free \in Seq(Tokens) /\ Len(free) <= NumTokens
    /\ conns \subseteq Conns
    /\ main \in {"accept", "wait", "drained", "gaveup", "closed", "exited"}
    /\ ticks \in 0 .. MaxTicks
CountsOK == setData \in Nat /\ getData \in Nat
HistoryOK ==
    /\ stop \in BOOLEAN /\ notified \in BOOLEAN /\ locked \in BOOLEAN
    /\ late \in [Conns -> BOOLEAN] /\ lost \in BOOLEAN /\ skewed \subseteq Conns
    /\ spoiled \in BOOLEAN /\ panicked \in BOOLEAN

TypeOK == ConnsOK /\ ClientsOK /\ SharedOK /\ CountsOK /\ HistoryOK

Init ==
    /\ at = [c \in Conns |-> "none"]
    /\ req = [c \in Conns |-> NoUnit]
    /\ token = [c \in Conns |-> NoToken]
    /\ closing = [c \in Conns |-> FALSE]
    /\ quiet = [c \in Conns |-> FALSE] /\ items = [c \in Conns |-> 0]
    /\ stream = [c \in Conns |-> << >>]
    /\ hungup = [c \in Conns |-> FALSE]
    /\ owes = [c \in Conns |-> NoUnit]
    /\ sent = [c \in Conns |-> 0]
    /\ expects = [c \in Conns |-> << >>]
    /\ replies = [c \in Conns |-> << >>]
    /\ free = [i \in 1 .. NumTokens |-> i - 1]
    /\ conns = {}
    /\ locked = FALSE /\ stop = FALSE /\ notified = FALSE
    /\ main = "accept" /\ ticks = 0
    /\ setData = 0 /\ getData = 0
    /\ late = [c \in Conns |-> FALSE] /\ lost = FALSE /\ skewed = {}
    /\ spoiled = FALSE /\ panicked = FALSE

Runs(c, place) == at[c] = place /\ main # "exited"
Go(c, place) == at' = [at EXCEPT ![c] = place]
Open(c) == at[c] \notin {"none", "close", "gone"} /\ main # "exited"

-----------------------------------------------------------------------------
(* Clients *)

\* The line of a command; a client that announced a data block sends that first.
SendLine(c, kind) ==
    LET u == Unit("line", kind, sent[c] + 1)
    IN  /\ Open(c) /\ ~hungup[c]
        /\ MapThenSumSet(LAMBDA d : sent[d], Conns) < MaxReqs
        /\ owes[c] = NoUnit
        /\ stream' = [stream EXCEPT ![c] = Append(@, u)]
        /\ sent' = [sent EXCEPT ![c] = u.n]
        /\ owes' = IF kind \in BodyKinds \cup {"refused"}
                   THEN [owes EXCEPT ![c] = Unit("body", kind, u.n)] ELSE owes
        /\ expects' = IF kind \in SilentKinds THEN expects
                      ELSE [expects EXCEPT ![c] = Append(@, u.n)]
        /\ UNCHANGED <<connVars, hungup, replies, free, conns, mainVars, setData, getData, history>>

SendBody(c) ==
    /\ Open(c) /\ ~hungup[c] /\ owes[c] # NoUnit
    /\ stream' = [stream EXCEPT ![c] = Append(@, owes[c])]
    /\ owes' = [owes EXCEPT ![c] = NoUnit]
    /\ UNCHANGED <<connVars, hungup, sent, expects, replies, free, conns, mainVars,
                   setData, getData, history>>

HangUp(c) ==
    /\ Open(c) /\ ~hungup[c]
    /\ hungup' = [hungup EXCEPT ![c] = TRUE]
    /\ UNCHANGED <<connVars, stream, owes, sent, expects, replies, free, conns, mainVars,
                   setData, getData, history>>

-----------------------------------------------------------------------------
(* Server.Serve, one goroutine per connection *)

\* The connections of c's address: conns has one entry for them.
Peers(c) == {d \in Conns : Addr[d] = Addr[c]}

\* A client may use an address again once the server has closed the old connection.
Accept(c) ==
    /\ main = "accept" /\ ~stop
    /\ \A d \in Peers(c) : ~Open(d)
    /\ Runs(c, "none") /\ Go(c, "accepted")
    /\ UNCHANGED <<req, token, closing, quiet, items, clientVars, replies, free, conns, mainVars,
                   setData, getData, history>>

Register(c) ==
    /\ Runs(c, "accepted") /\ ~locked
    /\ conns' = (conns \ Peers(c)) \cup {c}
    /\ Go(c, "loop")
    /\ UNCHANGED <<req, token, closing, quiet, items, clientVars, replies, free, mainVars,
                   setData, getData, history>>

\* ServerConn.Serve
Loop(c) ==
    /\ Runs(c, "loop")
    /\ Go(c, IF closing[c] THEN "close" ELSE "read")
    /\ UNCHANGED <<req, token, closing, quiet, items, clientVars, replies, free, conns, mainVars,
                   setData, getData, history>>

Unregister(c) ==
    /\ Runs(c, "close") /\ ~locked
    /\ conns' = conns \ Peers(c)
    /\ Go(c, "gone")
    /\ UNCHANGED <<req, token, closing, quiet, items, clientVars, replies, free, mainVars,
                   setData, getData, history>>

-----------------------------------------------------------------------------
(* ServerConn.ServeOnce *)

\* Request.Read up to the token.  A data block nobody read is taken for a
\* command, and answered with an error.
ReadLine(c) ==
    LET u == Head(stream[c])
    IN  /\ Runs(c, "read") /\ stream[c] # << >>
        /\ stream' = [stream EXCEPT ![c] = Tail(@)]
        /\ req' = [req EXCEPT ![c] = u]
        /\ setData' = IF u.what = "line" /\ u.kind \in CountedKinds THEN setData + 1 ELSE setData
        /\ skewed' = IF u.what = "body" THEN skewed \cup {c} ELSE skewed
        /\ Go(c, IF u.what = "body" \/ u.kind = "refused" THEN "reply"
                 ELSE IF u.kind \in TokenKinds THEN "token" ELSE "check")
        /\ UNCHANGED <<token, closing, quiet, items, hungup, owes, sent, expects, replies, free, conns,
                       mainVars, getData, late, lost, spoiled, panicked>>

\* ErrNetworkError
Shutdown(c) == closing' = [closing EXCEPT ![c] = TRUE]

ReadEOF(c) ==
    /\ Runs(c, "read") /\ stream[c] = << >> /\ hungup[c]
    /\ Shutdown(c) /\ Go(c, "finish")
    /\ req' = [req EXCEPT ![c] = NoUnit]
    /\ UNCHANGED <<token, quiet, items, clientVars, replies, free, conns, mainVars, setData, getData, history>>

\* ReqLimiter.Get, then the buffer for the data block.
GetToken(c) ==
    /\ Runs(c, "token") /\ free # << >>
    /\ token' = [token EXCEPT ![c] = Head(free)]
    /\ free' = Tail(free)
    /\ setData' = IF req[c].kind \in BodyKinds THEN setData + 1 ELSE setData
    /\ Go(c, IF req[c].kind \in BodyKinds THEN "body" ELSE "check")
    /\ UNCHANGED <<req, closing, quiet, items, clientVars, replies, conns, mainVars, getData, history>>

\* The data block, ...
ReadBody(c) ==
    /\ Runs(c, "body") /\ req[c].kind \notin {"unfit", "short"} /\ stream[c] # << >>
    /\ stream' = [stream EXCEPT ![c] = Tail(@)]
    /\ Go(c, "check")
    /\ UNCHANGED <<req, token, closing, quiet, items, hungup, owes, sent, expects, replies, free, conns,
                   mainVars, setData, getData, history>>

\* ... one that is too long, which is refused, and its rest stays, ...
ReadUnfit(c) ==
    /\ Runs(c, "body") /\ req[c].kind = "unfit" /\ stream[c] # << >>
    /\ setData' = setData - 1
    /\ Go(c, "reply")
    /\ UNCHANGED <<req, token, closing, quiet, items, clientVars, replies, free, conns,
                   mainVars, getData, history>>

\* ... and one that is too short: it is filled up with the beginning of what the
\* client sends next and refused, or stored when that ends just there.
ReadShort(c, ends) ==
    LET rest == Tail(stream[c])
    IN  /\ Runs(c, "body") /\ req[c].kind = "short" /\ Len(stream[c]) > 1
        /\ stream' = [stream EXCEPT ![c] = IF ends THEN Tail(rest)
                                           ELSE [rest EXCEPT ![1].what = "body"]]
        /\ setData' = IF ends THEN setData ELSE setData - 1
        /\ skewed' = skewed \cup {c}
        /\ Go(c, IF ends THEN "check" ELSE "reply")
        /\ UNCHANGED <<req, token, closing, quiet, items, hungup, owes, sent, expects, replies, free,
                       conns, mainVars, getData, late, lost, spoiled, panicked>>

\* The connection ends inside the data block.
Unfinished(c) == Len(stream[c]) < (IF req[c].kind = "short" THEN 2 ELSE 1)

\* A plausible bug: the counter is not taken back.
BodyEOFCounted(c) ==
    /\ Runs(c, "body") /\ Unfinished(c) /\ hungup[c]
    /\ stream' = [stream EXCEPT ![c] = << >>]
    /\ Shutdown(c) /\ Go(c, "finish")
    /\ UNCHANGED <<req, token, quiet, items, hungup, owes, sent, expects, replies, free, conns, mainVars,
                   setData, getData, history>>

BodyEOF(c) ==
    /\ Runs(c, "body") /\ Unfinished(c) /\ hungup[c]
    /\ stream' = [stream EXCEPT ![c] = << >>]
    /\ setData' = setData - 1
    /\ Shutdown(c) /\ Go(c, "finish")
    /\ UNCHANGED <<req, token, quiet, items, hungup, owes, sent, expects, replies, free, conns, mainVars,
                   getData, history>>

\* The command took longer than TimeoutMS to arrive: it is answered, with or
\* without noreply, and not served.
RecvTimeout(c) ==
    /\ Runs(c, "check") /\ Go(c, "overdue")
    /\ spoiled' = TRUE
    /\ skewed' = IF req[c].kind \in SilentKinds THEN skewed \cup {c} ELSE skewed
    /\ UNCHANGED <<req, token, closing, quiet, items, clientVars, replies, free, conns, mainVars,
                   setData, getData, late, lost, panicked>>

InTime(c) ==
    /\ Runs(c, "check") /\ Go(c, "process")
    /\ UNCHANGED <<req, token, closing, quiet, items, clientVars, replies, free, conns, mainVars,
                   setData, getData, history>>

\* What Process leaves in the counters: the store takes a set's buffer over,
\* a get's values are with the response, an incr keeps the value it read.
Released(kind) == IF kind \in {"set", "setq", "short", "incr", "incrold"} THEN 1 ELSE 0
Fetched(kind) == CASE kind = "twice" -> 2 [] kind \in {"get", "incrold"} -> 1 [] OTHER -> 0
Held(kind) == IF kind \in {"get", "twice"} THEN 1 ELSE 0

Process(c) ==
    LET kind == req[c].kind
    IN  /\ Runs(c, "process")
        /\ setData' = setData - Released(kind)
        /\ getData' = getData + Fetched(kind)
        /\ items' = [items EXCEPT ![c] = Held(kind)]
        /\ quiet' = [quiet EXCEPT ![c] = kind \in QuietKinds]
        /\ late' = [late EXCEPT ![c] = (main = "closed")]
        /\ IF kind \in ClosingKinds THEN Shutdown(c) /\ Go(c, "finish")
           ELSE closing' = closing /\ Go(c, "reply")
        /\ UNCHANGED <<req, token, clientVars, replies, free, conns, mainVars, lost, skewed, spoiled, panicked>>

\* A plausible bug: the token is given back at the end of ServeOnce, not deferred.
PanicKeepsToken(c) ==
    /\ Runs(c, "process") /\ Go(c, "loop")
    /\ skewed' = skewed \cup {c} /\ panicked' = TRUE
    /\ UNCHANGED <<req, token, closing, quiet, items, clientVars, replies, free, conns, mainVars,
                   setData, getData, late, lost, spoiled>>

\* The store panics; the deferred function recovers, and there is no reply.
Panic(c) ==
    /\ Runs(c, "process") /\ Go(c, "finish")
    /\ skewed' = skewed \cup {c} /\ panicked' = TRUE
    /\ UNCHANGED <<req, token, closing, quiet, items, clientVars, replies, free, conns, mainVars,
                   setData, getData, late, lost, spoiled>>

\* ServeOnce returns what Process returned: after an error Serve leaves its loop.
\* (Where a reply is written its outcome takes the place of that error.)
Returned(c) ==
    closing' = [closing EXCEPT ![c] = @ \/ (req[c].what = "line" /\ req[c].kind \in FailingKinds)]

\* Process took too long: the answer is prepared and never written.
ProcessTimeout(c) ==
    /\ Runs(c, "reply") /\ ~quiet[c] /\ Returned(c) /\ Go(c, "finish")
    /\ skewed' = skewed \cup {c}
    /\ UNCHANGED <<req, token, quiet, items, clientVars, replies, free, conns, mainVars,
                   setData, getData, late, lost, spoiled, panicked>>

\* A plausible bug: noreply is not looked at.
ReplyAlways(c) ==
    /\ Runs(c, "reply") \/ Runs(c, "overdue")
    /\ replies' = [replies EXCEPT ![c] = Append(@, req[c].n)]
    /\ lost' = lost
    /\ Go(c, "finish")
    /\ UNCHANGED <<req, token, closing, quiet, items, clientVars, free, conns, mainVars,
                   setData, getData, late, skewed, spoiled, panicked>>

\* The reply is written, and answers request n; 0 if there is no such request.
Reply(c) ==
    /\ Runs(c, "reply") \/ Runs(c, "overdue")
    /\ ~quiet[c]
    /\ replies' = [replies EXCEPT ![c] =
                     Append(@, IF req[c].what = "line" THEN req[c].n ELSE 0)]
    /\ lost' = (lost \/ (at[c] = "reply" /\ req[c].what = "line" /\ req[c].kind = "set" /\ late[c]))
    /\ Go(c, "finish")
    /\ UNCHANGED <<req, token, closing, quiet, items, clientVars, free, conns, mainVars,
                   setData, getData, late, skewed, spoiled, panicked>>

\* Response.Write or Flush fails: Serve leaves its loop.
WriteFails(c) ==
    /\ Runs(c, "reply") \/ Runs(c, "overdue")
    /\ ~quiet[c] /\ hungup[c]
    /\ Shutdown(c) /\ Go(c, "finish")
    /\ UNCHANGED <<req, token, quiet, items, clientVars, replies, free, conns, mainVars,
                   setData, getData, history>>

NoReply(c) ==
    /\ Runs(c, "reply") /\ quiet[c] /\ Returned(c) /\ Go(c, "finish")
    /\ UNCHANGED <<req, token, quiet, items, clientVars, replies, free, conns, mainVars,
                   setData, getData, history>>

\* A plausible bug: a token is put back whether or not the request has one.
PutAlways(c) ==
    /\ Runs(c, "finish") /\ Go(c, "loop")
    /\ free' = Append(free, IF token[c] = NoToken THEN 0 ELSE token[c])
    /\ token' = [token EXCEPT ![c] = NoToken]
    /\ getData' = getData - items[c]
    /\ items' = [items EXCEPT ![c] = 0] /\ quiet' = [quiet EXCEPT ![c] = FALSE]
    /\ late' = [late EXCEPT ![c] = FALSE] /\ req' = [req EXCEPT ![c] = NoUnit]
    /\ UNCHANGED <<closing, clientVars, replies, conns, mainVars, setData, lost, skewed, spoiled, panicked>>

\* The deferred function: CleanBuffer and ReqLimiter.Put.
Finish(c) ==
    /\ Runs(c, "finish") /\ Go(c, "loop")
    /\ free' = IF token[c] = NoToken THEN free ELSE Append(free, token[c])
    /\ token' = [token EXCEPT ![c] = NoToken]
    /\ getData' = getData - items[c]
    /\ items' = [items EXCEPT ![c] = 0] /\ quiet' = [quiet EXCEPT ![c] = FALSE]
    /\ late' = [late EXCEPT ![c] = FALSE] /\ req' = [req EXCEPT ![c] = NoUnit]
    /\ UNCHANGED <<closing, clientVars, replies, conns, mainVars, setData, lost, skewed, spoiled, panicked>>

-----------------------------------------------------------------------------
(* Shutdown *)

\* Server.Shutdown on a signal: stop is set, ...
Signal ==
    /\ main # "exited" /\ ~stop
    /\ stop' = TRUE
    /\ UNCHANGED <<connVars, clientVars, replies, free, conns, locked, notified, main, ticks,
                   setData, getData, history>>

\* ... the listener is woken by a connection, ...
StopAccept ==
    /\ main = "accept" /\ stop
    /\ main' = "wait"
    /\ UNCHANGED <<connVars, clientVars, replies, free, conns, locked, stop, notified, ticks,
                   setData, getData, history>>

\* ... and the connections registered by then close after their next reply.
Notify ==
    /\ stop /\ ~notified /\ ~locked /\ main # "exited"
    /\ notified' = TRUE
    /\ closing' = [c \in Conns |-> closing[c] \/ c \in conns]
    /\ UNCHANGED <<at, req, token, quiet, items, clientVars, replies, free, conns, locked, stop,
                   main, ticks, setData, getData, history>>

\* A plausible bug: the mutex is released before Serve returns.
DrainedUnlocked ==
    /\ main = "wait" /\ ~locked /\ conns = {}
    /\ main' = "drained"
    /\ UNCHANGED <<connVars, clientVars, replies, free, conns, locked, stop, notified, ticks,
                   setData, getData, history>>

\* Serve finds no connection and returns with the mutex locked.
Drained ==
    /\ main = "wait" /\ ~locked /\ conns = {}
    /\ main' = "drained" /\ locked' = TRUE
    /\ UNCHANGED <<connVars, clientVars, replies, free, conns, stop, notified, ticks,
                   setData, getData, history>>

\* A plausible bug: Serve waits until the connections are gone.
WaitForever ==
    /\ main = "wait" /\ ~locked /\ conns # {} /\ ticks < MaxTicks
    /\ ticks' = ticks + 1
    /\ main' = "wait"
    /\ UNCHANGED <<connVars, clientVars, replies, free, conns, locked, stop, notified,
                   setData, getData, history>>

\* Serve looks again, MaxTicks times.
WaitTick ==
    /\ main = "wait" /\ ~locked /\ conns # {}
    /\ ticks' = ticks + 1
    /\ main' = IF ticks + 1 = MaxTicks THEN "gaveup" ELSE "wait"
    /\ UNCHANGED <<connVars, clientVars, replies, free, conns, locked, stop, notified,
                   setData, getData, history>>

\* Accept fails: Serve returns and waits for nobody, with the listener open.
AcceptFails ==
    /\ main = "accept" /\ Breaks
    /\ main' = "gaveup" /\ ticks' = MaxTicks
    /\ UNCHANGED <<connVars, clientVars, replies, free, conns, locked, stop, notified,
                   setData, getData, history>>

\* HStore.Close flushes what was set until now.
CloseStore ==
    /\ main \in {"drained", "gaveup"}
    /\ main' = "closed"
    /\ UNCHANGED <<connVars, clientVars, replies, free, conns, locked, stop, notified, ticks,
                   setData, getData, history>>

\* Main returns; every goroutine ends with it.
Exit ==
    /\ main = "closed"
    /\ main' = "exited"
    /\ UNCHANGED <<connVars, clientVars, replies, free, conns, locked, stop, notified, ticks,
                   setData, getData, history>>

Goroutine(c) ==
    \/ Register(c) \/ Loop(c) \/ Unregister(c) \/ ReadLine(c) \/ ReadEOF(c) \/ ReadBody(c)
    \/ ReadUnfit(c) \/ (\E ends \in BOOLEAN : ReadShort(c, ends)) \/ BodyEOF(c)
    \/ RecvTimeout(c) \/ InTime(c) \/ Process(c) \/ Panic(c) \/ ProcessTimeout(c)
    \/ Reply(c) \/ WriteFails(c) \/ NoReply(c) \/ Finish(c)
Main == StopAccept \/ Drained \/ WaitTick \/ CloseStore \/ Exit
Client(c) == SendBody(c) \/ HangUp(c) \/ \E kind \in Kinds : SendLine(c, kind)

Next ==
    \/ \E c \in Conns : Goroutine(c) \/ GetToken(c) \/ Accept(c) \/ Client(c)
    \/ Signal \/ Notify \/ AcceptFails \/ Main

Spec == Init /\ [][Next]_vars

\* Goroutines that can run do run; a goroutine blocked on the channel of tokens
\* is served in turn; a client that announced a data block sends it or hangs up,
\* and reads its replies (a write ends): the code sets no deadline for either.
Fairness ==
    /\ \A c \in Conns : /\ WF_vars(Goroutine(c))
                        /\ SF_vars(GetToken(c))
                        /\ WF_vars(SendBody(c))
    /\ WF_vars(Main)

FairSpec == Spec /\ Fairness

-----------------------------------------------------------------------------
(* Properties *)

\* Whatever way a request ends (reply, error, timeout, panic, lost connection),
\* each token is either in the channel, once, or with one request that is being
\* served.
TokensConserved ==
    LET holders(t) == {c \in Conns : token[c] = t}
        queued(t) == {i \in DOMAIN free : free[i] = t}
    IN  /\ \A t \in Tokens : Cardinality(holders(t)) + Cardinality(queued(t)) = 1
        /\ \A c \in Conns : token[c] # NoToken =>
               at[c] \in {"body", "check", "process", "reply", "overdue", "finish"}

\* When no request is being served, the buffers of all requests are accounted
\* for, unless one ended in a receive timeout or a panic.
CountersSettle ==
    (\A c \in Conns : at[c] \in {"none", "accepted", "loop", "read", "gone"}) /\ ~spoiled /\ ~panicked
        => setData = 0 /\ getData = 0

\* The client of a connection whose commands and replies are in step (see
\* skewed) gets the answers to its requests, one for each, in their order.
RepliesMatch == \A c \in Conns \ skewed : IsPrefix(replies[c], expects[c])

\* Once Serve has seen that no connection is left, no request is served any
\* more: the store is not closed under a request.  (No two connections of the
\* instance have the same address, see section 4 of the README.)
DrainedIsQuiet ==
    main \in {"drained", "closed"} /\ ticks < MaxTicks =>
        \A c \in Conns : at[c] \in {"none", "accepted", "close", "gone"}

\* A signal ends the process, whatever the clients do.
ShutdownEnds == stop ~> main = "exited"

\* A request that waits for a token gets it, or the process ends.
TokenServed ==
    \A c \in Conns : at[c] = "token" ~> (at[c] # "token" \/ main = "exited")

-----------------------------------------------------------------------------
(* What should hold and does not (README, section 4) *)

\* A set that was acknowledged is not lost by a graceful shutdown.
AckedSurvives == ~lost

\* All buffers are accounted for when no request is being served and none ended
\* in a panic, also after receive timeouts.
CountersAlwaysSettle ==
    (\A c \in Conns : at[c] \in {"none", "accepted", "loop", "read", "gone"}) /\ ~panicked
        => setData = 0 /\ getData = 0

\* Every client gets the answers to its requests in the order of the requests,
\* also after timeouts.
RepliesAlwaysMatch == ~panicked => \A c \in Conns : IsPrefix(replies[c], expects[c])
=============================================================================
