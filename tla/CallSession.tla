---------------------------- MODULE CallSession ----------------------------
(***************************************************************************)
(* One database/sql connection, the calls the pool makes on it one after   *)
(* the other, and the context watchdog each call starts.                   *)
(*                                                                         *)
(* The goroutine of the call (pc) and the watchdogs (wd) share the socket. *)
(* Session.mu makes one packet written atomic and nothing more, so the     *)
(* interrupt a watchdog writes may fall between any two packets of a call, *)
(* of the next call, or between calls.  The server end (sst) is external:  *)
(* it is what the client code relies on.                                   *)
(***************************************************************************)
EXTENDS Naturals, Sequences

CONSTANTS
    Calls,            \* call slots; a slot is free again once its watchdog has gone
    Kinds,            \* which operations the pool performs
    ReqPkts,          \* bound: data packets of a request (WriteRPC segments)
    MaxInFlight,      \* bound: reply packets the server has sent and nobody has read
    OOBOptions,       \* values NegotiatedOptions & 0x400 may have: interrupt out of band
    IdleReactions,    \* what an interrupt makes an idle server do: "answer", "ignore"
    Losses            \* how the connection may fail: "eof", "rst", "final"

NoCall == "none"

ASSUME CallsAssumption == NoCall \notin Calls
ASSUME KindsAssumption ==
    Kinds \subseteq {"exec", "query", "simple", "close", "fetch", "refcursor"}
ASSUME BoundsAssumption ==
    /\ ReqPkts \in Nat \ {0}
    /\ MaxInFlight \in Nat \ {0}
ASSUME EnvironmentAssumption ==
    /\ OOBOptions \subseteq BOOLEAN
    /\ IdleReactions \subseteq {"answer", "ignore"}
    /\ Losses \subseteq {"eof", "rst", "final"}

VARIABLES
    pc,        \* where the goroutine of the current call is
    cur,       \* the current call, or the last one
    kind,      \* its kind
    sent,      \* data packets of its request written so far
    inBuf,     \* session.inBuffer: data packets read but not consumed
    from,      \* calls whose reply packets the current call has consumed
    out,       \* outcome of the worker, before ExecContext's select
    res,       \* what each call returned to database/sql
    ctx,       \* each call's context
    done,      \* each call's done channel
    wd,        \* each call's watchdog goroutine
    breakConn, \* session.breakConn
    bad,       \* conn.bad
    oob,       \* the negotiated way to interrupt, fixed when the session connects
    up,        \* the socket: "up", "lost" (the peer is gone), "nil" (Disconnect)
    loss,      \* how the socket was lost
    c2s, s2c,  \* packets in flight
    urgent,    \* an out-of-band byte the server has not seen
    sst, scall \* the server: its state, the call whose request it saw last

clientVars == <<pc, cur, kind, sent, inBuf, from, out, res>>
watchVars  == <<ctx, done, wd, breakConn>>
connVars   == <<bad, oob, up, loss>>
serverVars == <<sst, scall>>
vars == <<pc, cur, kind, sent, inBuf, from, out, res, ctx, done, wd, breakConn,
          bad, oob, up, loss, c2s, s2c, urgent, sst, scall>>

-----------------------------------------------------------------------------
(* Packets.  A data packet of a request or of a reply names its call.      *)

Request(c, last) == [type |-> "data", call |-> c, last |-> last, code |-> "ok"]
Reply(c, last, code) == [type |-> "data", call |-> c, last |-> last, code |-> code]
Interrupt == [type |-> "interrupt", call |-> NoCall, last |-> FALSE, code |-> "ok"]
Reset == [type |-> "reset", call |-> NoCall, last |-> FALSE, code |-> "ok"]
BreakMark == [type |-> "break", call |-> NoCall, last |-> FALSE, code |-> "ok"]
Final == [type |-> "final", call |-> NoCall, last |-> FALSE, code |-> "ok"]

IsMarker(p) == p.type \in {"break", "reset"}

(* Codes of a reply: success, ORA-01013, an error OracleError.Bad() lists. *)
Codes == {"ok", "cancelled", "fatal"}
Outcomes == Codes \cup {"none", "eof", "rst", "epipe", "closed", "badconn", "timeout", "reset"}
Packets == [type : {"data", "interrupt", "reset", "break", "final"},
            call : Calls \cup {NoCall}, last : BOOLEAN, code : Codes]

(* The errors isBadConn recognises: io.EOF, a failed write and the codes   *)
(* OracleError.Bad lists; a reset or a timeout met by a read is not one.   *)
isBadConn(e) == e \in {"eof", "epipe", "fatal"}

(* Kinds whose caller selects between ctx.Done() and the worker.           *)
Selects(k) == k \in {"exec", "query"}
(* Kinds that start a watchdog: "simple" is a commit, rollback or ping,    *)
(* "close" the closing of a cursor, which starts none.                     *)
HasContext(k) == k \in {"exec", "query", "simple"}
(* Mutant: fetch returns ErrConnReset like RefCursor.Query does.           *)
RecoversNotFetch(k) == k \notin {"refcursor", "fetch"}
(* Kinds that read the error reply after ErrConnReset.                     *)
Recovers(k) == k # "refcursor"

(* setBad as the worker does it, before any select, on a failed write ...  *)
BadOnWrite(k, e) == k = "exec" \/ (k \notin {"simple", "close"} /\ isBadConn(e))
(* Mutant: simpleObject.exec does not look at the error of its read.       *)
BadOnReadNotSimple(k, e) == k \notin {"exec", "simple"} /\ isBadConn(e)
(* ... and on a failed read; exec leaves this one to the select.           *)
BadOnRead(k, e) == k # "exec" /\ isBadConn(e)

Init ==
    /\ pc = "idle" /\ cur \in Calls /\ kind \in Kinds /\ sent = 0
    /\ inBuf = <<>> /\ from = {} /\ out = "none"
    /\ res = [c \in Calls |-> "none"]
    /\ ctx = [c \in Calls |-> "live"]
    /\ done = [c \in Calls |-> TRUE]
    /\ wd = [c \in Calls |-> "gone"]
    /\ breakConn = FALSE
    /\ bad = FALSE /\ oob \in OOBOptions /\ up = "up" /\ loss = "none"
    /\ c2s = <<>> /\ s2c = <<>> /\ urgent = FALSE
    /\ sst = "idle" /\ scall = NoCall

-----------------------------------------------------------------------------
(* The goroutine of the call.                                              *)

(* The pool hands the connection out: ResetSession found it not bad.  The  *)
(* operation starts its watchdog and empties both buffers; it does not     *)
(* touch the socket.                                                       *)
StartCall(c, k) ==
    /\ pc = "idle"
    /\ ~bad
    /\ wd[c] = "gone"
    /\ pc' = "write" /\ cur' = c /\ kind' = k /\ sent' = 0
    /\ inBuf' = <<>> /\ from' = {} /\ out' = "none"
    /\ res' = [res EXCEPT ![c] = "none"]
    /\ ctx' = [ctx EXCEPT ![c] = "live"]
    /\ done' = [done EXCEPT ![c] = ~HasContext(k)]
    /\ wd' = [wd EXCEPT ![c] = IF HasContext(k) THEN "wait" ELSE "gone"]
    /\ UNCHANGED <<breakConn, connVars, c2s, s2c, urgent, serverVars>>

(* writePacket on a live socket.  A write to a socket whose peer has gone  *)
(* may still be accepted by the kernel: the packet is lost.                *)
WriteTo(p) == c2s' = IF up = "up" THEN Append(c2s, p) ELSE c2s

(* Mutant: WriteRPC sends one segment too many.                            *)
WriteRequestOneMore ==
    /\ pc = "write"
    /\ up # "nil"
    /\ sent' = sent + 1
    /\ WriteTo(Request(cur, sent' > ReqPkts))
    /\ pc' = IF sent' > ReqPkts THEN "read" ELSE "write"
    /\ UNCHANGED <<cur, kind, inBuf, from, out, res, watchVars, connVars, s2c, urgent, serverVars>>

(* One data packet of WriteRPC; the last one ends the request.             *)
WriteRequest ==
    /\ pc = "write"
    /\ up # "nil"
    /\ sent' = sent + 1
    /\ WriteTo(Request(cur, sent' = ReqPkts))
    /\ pc' = IF sent' = ReqPkts THEN "read" ELSE "write"
    /\ UNCHANGED <<cur, kind, inBuf, from, out, res, watchVars, connVars, s2c, urgent, serverVars>>

(* session.Write fails: a write error of the socket, or writePacket finds  *)
(* no socket at all.                                                       *)
WriteFails ==
    /\ pc = "write"
    /\ up # "up"
    /\ out' = IF up = "nil" THEN "closed" ELSE "epipe"
    /\ bad' = (bad \/ BadOnWrite(kind, out'))
    /\ pc' = "return"
    /\ UNCHANGED <<cur, kind, sent, inBuf, from, res, watchVars, oob, up, loss, c2s, s2c, urgent, serverVars>>

Finish(e) ==
    /\ out' = e
    /\ bad' = (bad \/ BadOnRead(kind, e))
    /\ pc' = "return"

Consume(p) ==
    /\ from' = from \cup {p.call}
    /\ IF p.last THEN Finish(p.code) ELSE UNCHANGED <<out, bad, pc>>

(* session.read consumes a data packet: from inBuffer while that holds     *)
(* any, otherwise from the socket.                                         *)
ReadReply ==
    /\ pc \in {"read", "recover"}
    /\ IF inBuf # <<>>
       THEN /\ Consume(Head(inBuf))
            /\ inBuf' = Tail(inBuf)
            /\ UNCHANGED <<s2c, breakConn>>
       ELSE /\ up # "nil"
            /\ s2c # <<>> /\ Head(s2c).type = "data"
            /\ breakConn' = FALSE
            /\ s2c' = Tail(s2c)
            /\ Consume(Head(s2c))
            /\ UNCHANGED inBuf
    /\ UNCHANGED <<cur, kind, sent, res, ctx, done, wd, oob, up, loss, c2s, urgent, serverVars>>

(* Mutant: processMarker answers only if a watchdog has said that it has   *)
(* interrupted.                                                            *)
ReadMarkerOwnBreak ==
    /\ pc \in {"read", "recover"}
    /\ inBuf = <<>>
    /\ up # "nil"
    /\ s2c # <<>> /\ IsMarker(Head(s2c))
    /\ breakConn' = FALSE
    /\ s2c' = Tail(s2c)
    /\ IF breakConn THEN WriteTo(Reset) ELSE UNCHANGED c2s
    /\ pc' = IF pc = "read" THEN "marker" ELSE "marker2"
    /\ UNCHANGED <<cur, kind, sent, inBuf, from, out, res, ctx, done, wd, connVars, urgent, serverVars>>

(* session.read meets a marker: processMarker answers with a reset marker  *)
(* and goes on to read one packet.                                         *)
ReadMarker ==
    /\ pc \in {"read", "recover"}
    /\ inBuf = <<>>
    /\ up # "nil"
    /\ s2c # <<>> /\ IsMarker(Head(s2c))
    /\ breakConn' = FALSE
    /\ s2c' = Tail(s2c)
    /\ WriteTo(Reset)
    /\ pc' = IF pc = "read" THEN "marker" ELSE "marker2"
    /\ UNCHANGED <<cur, kind, sent, inBuf, from, out, res, ctx, done, wd, connVars, urgent, serverVars>>

(* processMarker's reset marker cannot be written.                         *)
MarkerWriteFails ==
    /\ pc \in {"read", "recover"}
    /\ inBuf = <<>>
    /\ up = "lost"
    /\ s2c # <<>> /\ IsMarker(Head(s2c))
    /\ breakConn' = FALSE
    /\ s2c' = Tail(s2c)
    /\ Finish("epipe")
    /\ UNCHANGED <<cur, kind, sent, inBuf, from, res, ctx, done, wd, oob, up, loss, c2s, urgent, serverVars>>

(* processMarker reads its one packet; read then returns ErrConnReset and  *)
(* the caller reads the error reply, except where nobody handles it: in    *)
(* RefCursor.Query, or when the recovering read is itself reset.           *)
ReadAfterReset ==
    /\ pc \in {"marker", "marker2"}
    /\ up # "nil"
    /\ s2c # <<>> /\ Head(s2c).type # "final"
    /\ s2c' = Tail(s2c)
    /\ inBuf' = IF Head(s2c).type = "data" THEN Append(inBuf, Head(s2c)) ELSE inBuf
    /\ IF pc = "marker" /\ Recovers(kind)
       THEN pc' = "recover" /\ UNCHANGED <<out, bad>>
       ELSE Finish("reset")
    /\ UNCHANGED <<cur, kind, sent, from, res, watchVars, oob, up, loss, c2s, urgent, serverVars>>

Reading == pc \in {"read", "recover", "marker", "marker2"} /\ (pc \in {"read", "recover"} => inBuf = <<>>)

(* A data packet with flag 0x40: the server closes; readPacket disconnects *)
(* and returns driver.ErrBadConn.                                          *)
ReadFinal ==
    /\ Reading
    /\ up # "nil"
    /\ s2c # <<>> /\ Head(s2c).type = "final"
    /\ s2c' = <<>> /\ c2s' = <<>>
    /\ up' = "nil"
    /\ Finish("badconn")
    /\ UNCHANGED <<cur, kind, sent, inBuf, from, res, watchVars, oob, loss, urgent, serverVars>>

(* Every delivered packet is read and the peer is gone, or there is no     *)
(* socket: the read fails.                                                 *)
ReadFails ==
    /\ Reading
    /\ \/ up = "lost" /\ s2c = <<>> /\ Finish(loss)
       \/ up = "nil" /\ Finish("closed")
    /\ UNCHANGED <<cur, kind, sent, inBuf, from, res, watchVars, oob, up, loss, c2s, s2c, urgent, serverVars>>

(* Timeout > 0: the read deadline passes while the reply is still to come. *)
ReadTimeout ==
    /\ Reading
    /\ up = "up"
    /\ s2c = <<>>
    /\ Finish("timeout")
    /\ UNCHANGED <<cur, kind, sent, inBuf, from, res, watchVars, oob, up, loss, c2s, s2c, urgent, serverVars>>

(* The operation returns, EndContext closes done, and database/sql puts    *)
(* the connection back: it drops it if the error is driver.ErrBadConn or   *)
(* IsValid is false.                                                       *)
ReturnTo(r, isErrBadConn) ==
    /\ res' = [res EXCEPT ![cur] = r]
    /\ done' = [done EXCEPT ![cur] = TRUE]
    /\ pc' = IF bad' \/ isErrBadConn THEN "dropped" ELSE "idle"
    /\ UNCHANGED <<cur, kind, sent, inBuf, from, out, ctx, wd, breakConn, oob, up, loss, c2s, s2c, urgent, serverVars>>

(* Mutant: the ctx.Done() case does not wait for the worker.               *)
ReturnCtxErrEarly ==
    /\ pc \in {"read", "return"}
    /\ Selects(kind) /\ ctx[cur] = "cancelled"
    /\ bad' = bad
    /\ ReturnTo("ctx", FALSE)

(* ExecContext and QueryContext: the ctx.Done() case of the select.  The   *)
(* worker has been waited for; its error is dropped.                       *)
ReturnCtxErr ==
    /\ pc = "return"
    /\ Selects(kind) /\ ctx[cur] = "cancelled"
    /\ bad' = bad
    /\ ReturnTo("ctx", FALSE)

(* The worker's case of the select, and the operations that have none.     *)
ReturnOutcome ==
    /\ pc = "return"
    /\ bad' = (bad \/ (kind = "exec" /\ isBadConn(out)))
    /\ ReturnTo(out, out = "badconn" \/ (~Selects(kind) /\ BadOnRead(kind, out)))

-----------------------------------------------------------------------------
(* The watchdog of StartContext.                                           *)

(* A caller cancels the context of a call that has not returned.           *)
Cancel(c) ==
    /\ c = cur /\ pc \notin {"idle", "dropped"} /\ HasContext(kind)
    /\ ctx[c] = "live"
    /\ ctx' = [ctx EXCEPT ![c] = "cancelled"]
    /\ UNCHANGED <<clientVars, done, wd, breakConn, connVars, c2s, s2c, urgent, serverVars>>

(* Either select sees done closed.                                         *)
WatchdogDone(c) ==
    /\ wd[c] = "wait" /\ done[c]
    /\ wd' = [wd EXCEPT ![c] = "gone"]
    /\ UNCHANGED <<clientVars, ctx, done, breakConn, connVars, c2s, s2c, urgent, serverVars>>

(* ctx.Done() fires and the inner select finds done still open.            *)
WatchdogFires(c) ==
    /\ wd[c] = "wait" /\ ctx[c] = "cancelled" /\ ~done[c]
    /\ wd' = [wd EXCEPT ![c] = "break"]
    /\ UNCHANGED <<clientVars, ctx, done, breakConn, connVars, c2s, s2c, urgent, serverVars>>

(* Mutant: only the out-of-band interrupt is written.                      *)
BreakConnectionOOBOnly(c) ==
    /\ wd[c] = "break"
    /\ \/ /\ up # "nil"
          /\ urgent' = (urgent \/ (oob /\ up = "up"))
          /\ wd' = [wd EXCEPT ![c] = "flag"]
       \/ /\ up # "up"
          /\ wd' = [wd EXCEPT ![c] = "gone"]
          /\ UNCHANGED urgent
    /\ UNCHANGED <<clientVars, ctx, done, breakConn, connVars, c2s, s2c, serverVars>>

(* BreakConnection writes the interrupt, in band or out of band.  Nothing  *)
(* looks at done any more.                                                 *)
BreakConnection(c) ==
    /\ wd[c] = "break"
    /\ \/ /\ up # "nil"
          /\ IF oob THEN urgent' = (urgent \/ up = "up") /\ UNCHANGED c2s
                    ELSE WriteTo(Interrupt) /\ UNCHANGED urgent
          /\ wd' = [wd EXCEPT ![c] = "flag"]
       \/ /\ up # "up"
          /\ wd' = [wd EXCEPT ![c] = "gone"]
          /\ UNCHANGED <<c2s, urgent>>
    /\ UNCHANGED <<clientVars, ctx, done, breakConn, connVars, s2c, serverVars>>

SetBreak(c) ==
    /\ wd[c] = "flag"
    /\ breakConn' = TRUE
    /\ wd' = [wd EXCEPT ![c] = "gone"]
    /\ UNCHANGED <<clientVars, ctx, done, connVars, c2s, s2c, urgent, serverVars>>

-----------------------------------------------------------------------------
(* The server (external).  It answers an interrupt with a break marker,    *)
(* discards what it reads until the client's reset marker, and answers     *)
(* that with a reset marker and the error reply of the interrupted call.   *)

ServerUp == up = "up"

(* The server takes the next data packet of a request.                     *)
ServerReceives ==
    /\ ServerUp
    /\ sst # "exec"
    /\ c2s # <<>> /\ Head(c2s).type = "data"
    /\ c2s' = Tail(c2s)
    /\ scall' = Head(c2s).call
    /\ sst' = IF sst = "break" THEN "break" ELSE IF Head(c2s).last THEN "exec" ELSE "recv"
    /\ UNCHANGED <<clientVars, watchVars, connVars, s2c, urgent>>

(* The server meets an interrupt: in band in its turn, out of band at once.*)
ServerInterrupted ==
    /\ ServerUp
    /\ \/ c2s # <<>> /\ Head(c2s) = Interrupt /\ c2s' = Tail(c2s) /\ UNCHANGED urgent
       \/ urgent /\ urgent' = FALSE /\ UNCHANGED c2s
    /\ \/ /\ sst \in {"recv", "exec"} \/ (sst = "idle" /\ "answer" \in IdleReactions)
          /\ sst' = "break" /\ s2c' = Append(s2c, BreakMark)
       \/ /\ sst = "break" \/ (sst = "idle" /\ "ignore" \in IdleReactions)
          /\ UNCHANGED <<sst, s2c>>
    /\ UNCHANGED <<clientVars, watchVars, connVars, scall>>

ServerReset ==
    /\ ServerUp
    /\ c2s # <<>> /\ Head(c2s) = Reset
    /\ c2s' = Tail(c2s)
    /\ IF sst = "break"
       THEN /\ s2c' = s2c \o <<Reset, Reply(scall, TRUE, "cancelled")>>
            /\ sst' = "idle"
       ELSE UNCHANGED <<s2c, sst>>
    /\ UNCHANGED <<clientVars, watchVars, connVars, urgent, scall>>

(* The server sends a packet of its reply; the last one ends the call.     *)
ServerReplies ==
    /\ ServerUp
    /\ sst = "exec"
    /\ Len(s2c) < MaxInFlight
    /\ \/ s2c' = Append(s2c, Reply(scall, FALSE, "ok")) /\ UNCHANGED sst
       \/ \E code \in {"ok", "fatal"} :
             s2c' = Append(s2c, Reply(scall, TRUE, code)) /\ sst' = "idle"
    /\ UNCHANGED <<clientVars, watchVars, connVars, c2s, urgent, scall>>

(* The connection fails; what the server had sent arrives or not.  "final" *)
(* is an orderly shutdown, announced by a packet.                          *)
LoseConnection ==
    /\ ServerUp
    /\ \E l \in Losses :
          /\ loss' = IF l = "final" THEN "eof" ELSE l
          /\ up' = "lost"
          /\ \/ l = "final" /\ s2c' = Append(s2c, Final)
             \/ l # "final" /\ \E n \in 0 .. Len(s2c) : s2c' = SubSeq(s2c, 1, n)
    /\ c2s' = <<>>
    /\ urgent' = FALSE
    /\ UNCHANGED <<clientVars, watchVars, bad, oob, serverVars>>

-----------------------------------------------------------------------------
(* database/sql has closed the connection: its life ends.                  *)
Dropped == pc = "dropped" /\ UNCHANGED vars

ClientStep ==
    \/ WriteRequest \/ WriteFails
    \/ ReadReply \/ ReadMarker \/ MarkerWriteFails
    \/ ReadAfterReset \/ ReadFinal \/ ReadFails
    \/ ReturnCtxErr \/ ReturnOutcome

WatchdogStep(c) == WatchdogDone(c) \/ WatchdogFires(c) \/ BreakConnection(c) \/ SetBreak(c)

ServerReacts == ServerReceives \/ ServerInterrupted \/ ServerReset

Next ==
    \/ \E c \in Calls, k \in Kinds : StartCall(c, k)
    \/ ClientStep
    \/ \E c \in Calls : Cancel(c) \/ WatchdogStep(c)
    \/ ServerReacts
    \/ ServerReplies
    \/ LoseConnection
    \/ Dropped

(* The default, Timeout = 0: no read deadline.                             *)
Spec == Init /\ [][Next]_vars

(* The same with a read deadline.                                          *)
DeadlineSpec == Init /\ [][Next \/ ReadTimeout]_vars
-----------------------------------------------------------------------------
(* Every variable stays in its type.                                       *)
TypeOK ==
    /\ pc \in {"idle", "write", "read", "marker", "recover", "marker2", "return", "dropped"}
    /\ cur \in Calls /\ kind \in Kinds
    /\ sent \in 0 .. ReqPkts
    /\ inBuf \in Seq(Packets) /\ from \subseteq Calls \cup {NoCall}
    /\ out \in Outcomes
    /\ res \in [Calls -> Outcomes \cup {"ctx"}]
    /\ ctx \in [Calls -> {"live", "cancelled"}]
    /\ done \in [Calls -> BOOLEAN]
    /\ wd \in [Calls -> {"gone", "wait", "break", "flag"}]
    /\ breakConn \in BOOLEAN /\ bad \in BOOLEAN /\ oob \in BOOLEAN
    /\ up \in {"up", "lost", "nil"} /\ loss \in {"none", "eof", "rst"}
    /\ c2s \in Seq(Packets) /\ s2c \in Seq(Packets)
    /\ urgent \in BOOLEAN
    /\ sst \in {"idle", "recv", "exec", "break"} /\ scall \in Calls \cup {NoCall}

(* A call consumes only the reply to its own request: whatever breaks hit  *)
(* the connection, session.read and the read after ErrConnReset take one   *)
(* whole reply per call, never a packet of an earlier one.                 *)
OwnReply == from \subseteq {cur}

PacketsIn(s) == {s[i] : i \in 1 .. Len(s)}

(* A live connection back in the pool owes nothing: no reply is on its way *)
(* to a call that has returned, and the server is not working for one.     *)
(* At most the break marker of a late interrupt is waiting.                *)
PooledStreamClean ==
    pc = "idle" /\ up = "up" =>
        /\ \A p \in PacketsIn(s2c) : p = BreakMark
        /\ \A p \in PacketsIn(c2s) : p = Interrupt
        /\ sst \in {"idle", "break"}
        /\ Len(s2c) = (IF sst = "break" THEN 1 ELSE 0)

(* The answer that is on its way to a call, or that the call is about to   *)
(* return; "foreign" if it is another call's.                              *)
Due == {p \in PacketsIn(inBuf) \cup PacketsIn(s2c) : p.type = "data" /\ p.last}
AnswerDue ==
    IF pc = "return" /\ out \in Codes THEN out
    ELSE IF Due = {} THEN "none"
    ELSE IF \A p \in Due : p.call = cur THEN (CHOOSE p \in Due : TRUE).code
    ELSE "foreign"

Pooled == INSTANCE PooledConnection WITH
    state <- (IF pc \in {"idle", "dropped"} THEN pc ELSE "busy"),
    call <- cur,
    answer <- AnswerDue,
    lost <- (up # "up"),
    cancelled <- [c \in Calls |-> ctx[c] = "cancelled"],
    result <- res

(* The driver keeps the contract of a pooled connection: one answer per    *)
(* call, its own; no failure without a loss and no ErrConnReset; ctx.Err() *)
(* only once the worker has taken the answer off the connection; and a     *)
(* connection whose end a call reports is discarded.                       *)
PooledSpec == Pooled!Spec

(* A cancelled call returns although its server call would never end.      *)
CancelReturns ==
    \A c \in Calls :
        (c = cur /\ ctx[c] = "cancelled" /\ ~done[c]) ~> done[c]

(* A call the server has broken off returns, although the server waits for *)
(* the client's reset marker before it goes on: also one that no context   *)
(* belongs to, or whose context is live, struck by the late interrupt of   *)
(* the call before it.                                                     *)
StruckReturns ==
    (sst = "break" /\ pc \notin {"idle", "dropped"}) ~> (pc \in {"idle", "dropped"})

(* Scheduling of the goroutines, delivery by TCP and a server that reads   *)
(* what it is sent; nothing makes the server finish a call.                *)
Fairness ==
    /\ WF_vars(ClientStep)
    /\ \A c \in Calls : WF_vars(WatchdogStep(c))
    /\ WF_vars(ServerReacts)

FairSpec == Spec /\ Fairness
=============================================================================
