------------------------- MODULE CallSessionProofs -------------------------
(***************************************************************************)
(* Proofs about CallSession, for any number of calls and of packets in     *)
(* flight, any kinds of calls but "refcursor", any way to interrupt and    *)
(* any reaction of an idle server to an interrupt.                         *)
(***************************************************************************)
EXTENDS CallSession, SequenceTheorems, TLAPS

Data(p) == p.type = "data"
Answering(p) == p.type = "data" /\ p.last

(* What is on its way to the client, while the connection is up and after  *)
(* it was lost: packets of the reply to the current call; then a break     *)
(* marker, at most; then the announcement of the end.  A reset marker only *)
(* comes first, when the client waits for it, and an answer follows it.    *)
Arrives(s, w, c, u) ==
    \A i \in 1 .. Len(s) :
        /\ Data(s[i]) \/ s[i] \in {BreakMark, Final, Reset}
        /\ Data(s[i]) => s[i].call = c /\ w \in {"read", "marker", "recover"}
        /\ s[i] = Final => i = Len(s) /\ u = "lost"
        /\ s[i] = Reset => i = 1 /\ w = "marker"
        /\ i = 1 /\ w = "marker" => s[i] \in {Reset, Final}
        /\ i = 2 /\ w = "marker" => s[i] = Final \/ Answering(s[i])
        /\ i = 1 /\ w = "recover" => s[i] = Final \/ Answering(s[i])
        /\ \A j \in 1 .. Len(s) : i < j =>
              /\ s[i] = BreakMark => s[j] = Final
              /\ Answering(s[i]) => s[j] \in {BreakMark, Final}

Incoming == Arrives(s2c, pc, cur, up)

(* What is on its way to the server: the rest of the request of the        *)
(* current call, with interrupts at any place in it; then a reset marker   *)
(* while the client waits for the answer to it.                            *)
Leaves(s, w, c) ==
    \A i \in 1 .. Len(s) :
        /\ s[i] \in {Interrupt, Reset, Request(c, TRUE), Request(c, FALSE)}
        /\ Data(s[i]) => w \in {"write", "read", "marker"}
        /\ s[i] = Request(c, TRUE) => w # "write"
        /\ s[i] = Reset => w = "marker"
        /\ \A j \in 1 .. Len(s) : i < j =>
              /\ s[i] = Request(c, TRUE) => ~Data(s[j])
              /\ s[i] = Reset => s[j] = Interrupt

Outgoing == Leaves(c2s, pc, cur)

(* What the server is doing, by what is on its way from and to it.         *)
Serving ==
    /\ sst # "break" => \A i \in 1 .. Len(s2c) : s2c[i] # BreakMark
    /\ sst = "recv" => s2c = <<>> /\ scall = cur /\ pc \in {"write", "read"}
    /\ sst = "exec" => /\ scall = cur /\ pc = "read"
                       /\ \A i \in 1 .. Len(c2s) : c2s[i] = Interrupt
                       /\ \A i \in 1 .. Len(s2c) : Data(s2c[i]) /\ ~s2c[i].last
    /\ sst = "break" => \/ \E i \in 1 .. Len(s2c) : s2c[i] = BreakMark
                        \/ pc = "marker" /\ s2c = <<>>
    /\ pc = "marker" /\ s2c = <<>> =>
          \E i \in 1 .. Len(c2s) : c2s[i] = Reset
    /\ (\E i \in 1 .. Len(c2s) : c2s[i] = Reset) => s2c = <<>> /\ sst = "break"
    /\ pc = "marker" /\ s2c # <<>> => Len(s2c) > 1
    /\ pc = "recover" => s2c # <<>>
    /\ pc \in {"read", "marker"} /\ (\A i \in 1 .. Len(c2s) : ~Data(c2s[i])) => scall = cur
    /\ \A i \in 1 .. Len(s2c) : Data(s2c[i]) => \A k \in 1 .. Len(c2s) : c2s[k] = Interrupt

Live == up = "up" => Outgoing /\ Serving

(* The client never takes a reply packet in place of the reset marker, so  *)
(* nothing stays in inBuffer and the recovering read is not reset.         *)
Client ==
    /\ inBuf = <<>> /\ pc # "marker2"
    /\ from \subseteq {cur}
    /\ up = "nil" => s2c = <<>>
    /\ up = "lost" => loss \in {"eof", "rst"}

(* How a call ends, and when the connection is marked bad.                 *)
Ending ==
    /\ pc = "return" => \/ out \in Codes
                        \/ out \in {"eof", "rst", "epipe", "closed", "badconn"} /\ up # "up"
    /\ bad /\ pc # "dropped" => up # "up" \/ (pc = "return" /\ out = "fatal")
    /\ pc = "return" /\ kind # "exec" /\ out \in {"eof", "fatal"} => bad

(* While a request is being written, a packet of it is still to come.      *)
Types == TypeOK /\ (pc = "write" => sent < ReqPkts)

-----------------------------------------------------------------------------
(* Packets.                                                                *)

(* What the six kinds of packets are, for any call.                        *)
LEMMA PacketFacts ==
    /\ \A c \in Calls \cup {NoCall}, b \in BOOLEAN, e \in Codes :
          /\ Reply(c, b, e) \in Packets /\ Reply(c, b, e).type = "data"
          /\ Reply(c, b, e).call = c /\ Reply(c, b, e).last = b /\ Reply(c, b, e).code = e
    /\ \A c \in Calls \cup {NoCall}, b \in BOOLEAN :
          /\ Request(c, b) \in Packets /\ Request(c, b).type = "data"
          /\ Request(c, b).call = c /\ Request(c, b).last = b
    /\ Interrupt \in Packets /\ Interrupt.type = "interrupt"
    /\ Reset \in Packets /\ Reset.type = "reset"
    /\ BreakMark \in Packets /\ BreakMark.type = "break"
    /\ Final \in Packets /\ Final.type = "final"
    /\ \A p \in Packets : p.call \in Calls \cup {NoCall} /\ p.last \in BOOLEAN /\ p.code \in Codes
<1>1. "ok" \in Codes
  BY DEF Codes
<1> QED
  BY <1>1 DEF Packets, Reply, Request, Interrupt, Reset, BreakMark, Final

LEMMA CallPackets ==
    ASSUME NEW c \in Calls
    PROVE  /\ Request(c, TRUE) \in Packets /\ Request(c, FALSE) \in Packets
           /\ Interrupt \in Packets /\ Reset \in Packets
           /\ BreakMark \in Packets /\ Final \in Packets
<1>1. "ok" \in Codes
  BY DEF Codes
<1>2. Request(c, TRUE) \in Packets
  BY <1>1 DEF Packets, Request
<1>3. Request(c, FALSE) \in Packets
  BY <1>1 DEF Packets, Request
<1> QED
  BY <1>2, <1>3, PacketFacts, Zenon

(* The packets a call may meet are told apart.                             *)
LEMMA Distinct ==
    ASSUME NEW c \in Calls
    PROVE  /\ Data(Request(c, TRUE)) /\ Data(Request(c, FALSE))
           /\ ~Data(Interrupt) /\ ~Data(Reset) /\ ~Data(BreakMark) /\ ~Data(Final)
           /\ Interrupt # Reset /\ Interrupt # BreakMark /\ Interrupt # Final
           /\ Reset # BreakMark /\ Reset # Final /\ BreakMark # Final
           /\ Request(c, TRUE) # Request(c, FALSE)
           /\ \A p : Answering(p) => Data(p)
BY PacketFacts, ZenonT(60) DEF Data, Answering

(* What the client and the server do to the packets in flight: one is      *)
(* added, the first is taken, the end is cut off, two are added.           *)
LEMMA FlightFacts ==
    ASSUME NEW s \in Seq(Packets)
    PROVE  /\ \A p \in Packets :
                /\ Append(s, p) \in Seq(Packets) /\ Len(Append(s, p)) = Len(s) + 1
                /\ \A i \in 1 .. Len(s) : Append(s, p)[i] = s[i]
                /\ Append(s, p)[Len(s) + 1] = p
           /\ s # <<>> =>
                /\ Tail(s) \in Seq(Packets) /\ Len(Tail(s)) = Len(s) - 1
                /\ \A i \in 1 .. Len(s) - 1 : Tail(s)[i] = s[i + 1]
                /\ Head(s) = s[1] /\ Head(s) \in Packets /\ Len(s) > 0
           /\ \A n \in 0 .. Len(s) :
                /\ SubSeq(s, 1, n) \in Seq(Packets) /\ Len(SubSeq(s, 1, n)) = n
                /\ \A i \in 1 .. n : SubSeq(s, 1, n)[i] = s[i]
           /\ \A i \in 1 .. Len(s) : s[i] \in Packets
           /\ Len(s) \in Nat /\ (s = <<>> <=> Len(s) = 0)
OBVIOUS

(* The same, as far as types go.                                           *)
LEMMA FlightTypes ==
    ASSUME NEW s \in Seq(Packets)
    PROVE  /\ \A p \in Packets : Append(s, p) \in Seq(Packets)
           /\ s # <<>> => Tail(s) \in Seq(Packets) /\ Head(s) \in Packets
           /\ \A n \in 0 .. Len(s) : SubSeq(s, 1, n) \in Seq(Packets)
           /\ \A t \in Seq(Packets) : s \o t \in Seq(Packets)
OBVIOUS

(* The server's answer to a reset marker, when nothing else is in flight.  *)
LEMMA PairFacts ==
    ASSUME NEW p \in Packets, NEW q \in Packets
    PROVE  /\ <<>> \o <<p, q>> = <<p, q>> /\ <<p, q>> \in Seq(Packets)
           /\ Len(<<p, q>>) = 2 /\ <<p, q>>[1] = p /\ <<p, q>>[2] = q
OBVIOUS

-----------------------------------------------------------------------------
(* Types.                                                                  *)

LEMMA TypesInit == Init => Types
<1> SUFFICES ASSUME Init PROVE Types
  OBVIOUS
<1>1. oob \in BOOLEAN
  BY EnvironmentAssumption DEF Init
<1>2. <<>> \in Seq(Packets)
  BY EmptySeq
<1>3. sent \in 0 .. ReqPkts
  BY BoundsAssumption DEF Init
<1>4. /\ res \in [Calls -> Outcomes \cup {"ctx"}]
      /\ ctx \in [Calls -> {"live", "cancelled"}]
      /\ done \in [Calls -> BOOLEAN]
      /\ wd \in [Calls -> {"gone", "wait", "break", "flag"}]
  BY DEF Init, Outcomes
<1>5. pc # "write" /\ pc \in {"idle", "write", "read", "marker", "recover", "marker2", "return", "dropped"}
  BY DEF Init
<1> QED
  BY <1>1, <1>2, <1>3, <1>4, <1>5, Zenon DEF Init, Types, TypeOK, Outcomes

(* A call that ends, however it ends, keeps every variable in its type.    *)
LEMMA FinishTypes ==
    ASSUME Types, NEW e \in Outcomes, Finish(e)
    PROVE  pc' = "return" /\ out' \in Outcomes /\ bad' \in BOOLEAN
<1>1. bad \in BOOLEAN /\ BadOnRead(kind, e) \in BOOLEAN
  BY Zenon DEF Types, TypeOK, BadOnRead, isBadConn
<1> QED
  BY <1>1, Zenon DEF Finish

LEMMA StartTypes ==
    ASSUME Types, NEW c \in Calls, NEW k \in Kinds, StartCall(c, k)
    PROVE  Types'
<1>1. <<>> \in Seq(Packets)
  BY EmptySeq
<1>2. done' \in [Calls -> BOOLEAN]
  BY Zenon DEF StartCall, Types, TypeOK, HasContext
<1>3. /\ wd' \in [Calls -> {"gone", "wait", "break", "flag"}]
      /\ ctx' \in [Calls -> {"live", "cancelled"}]
      /\ res' \in [Calls -> Outcomes \cup {"ctx"}]
  BY DEF StartCall, Types, TypeOK, Outcomes
<1>4. sent' \in 0 .. ReqPkts /\ sent' < ReqPkts
  BY BoundsAssumption DEF StartCall
<1>5. UNCHANGED <<breakConn, bad, oob, up, loss, c2s, s2c, urgent, sst, scall>>
  BY DEF StartCall, connVars, serverVars
<1> QED
  BY <1>1, <1>2, <1>3, <1>4, <1>5, ZenonT(30) DEF StartCall, Types, TypeOK, Outcomes

LEMMA WriteTypes ==
    ASSUME Types, WriteRequest \/ WriteFails
    PROVE  Types'
<1>1. CASE WriteRequest
  <2>1. Request(cur, sent' = ReqPkts) \in Packets
    BY PacketFacts, Zenon DEF Types, TypeOK
  <2>2. c2s' \in Seq(Packets)
    BY <1>1, <2>1, FlightFacts DEF WriteRequest, WriteTo, Types, TypeOK
  <2>3. sent' \in 0 .. ReqPkts /\ (pc' = "write" => sent' < ReqPkts) /\ pc' \in {"write", "read"}
    BY <1>1, BoundsAssumption DEF WriteRequest, Types, TypeOK
  <2> QED
    BY <1>1, <2>2, <2>3 DEF WriteRequest, Types, TypeOK, watchVars, connVars, serverVars
<1>2. CASE WriteFails
  <2>1. out' \in Outcomes /\ pc' = "return"
    BY <1>2 DEF WriteFails, Outcomes
  <2>2. bad' \in BOOLEAN
    BY <1>2, Zenon DEF WriteFails, Types, TypeOK, BadOnWrite, isBadConn
  <2> QED
    BY <1>2, <2>1, <2>2 DEF WriteFails, Types, TypeOK, watchVars, connVars, serverVars
<1> QED
  BY <1>1, <1>2

LEMMA ReadReplyTypes ==
    ASSUME Types, ReadReply
    PROVE  Types'
<1> DEFINE p == IF inBuf # <<>> THEN Head(inBuf) ELSE Head(s2c)
<1>1. p \in Packets /\ s2c' \in Seq(Packets) /\ inBuf' \in Seq(Packets) /\ breakConn' \in BOOLEAN
  <2>1. CASE inBuf # <<>>
    BY <2>1, FlightTypes, Zenon DEF ReadReply, Types, TypeOK
  <2>2. CASE inBuf = <<>>
    BY <2>2, FlightTypes, Zenon DEF ReadReply, Types, TypeOK
  <2> QED
    BY <2>1, <2>2
<1>2. Consume(p)
  BY Zenon DEF ReadReply
<1> HIDE DEF p
<1>3. from' \subseteq Calls \cup {NoCall}
  <2>1. p.call \in Calls \cup {NoCall}
    BY <1>1, PacketFacts, Zenon
  <2> QED
    BY <1>2, <2>1, Zenon DEF Consume, Types, TypeOK
<1>4. /\ pc' \in {pc, "return"} /\ out' \in Outcomes /\ bad' \in BOOLEAN
  <2>1. CASE p.last
    <3>1. p.code \in Outcomes
      BY <1>1, PacketFacts DEF Outcomes
    <3> QED
      BY <2>1, <1>2, <3>1, FinishTypes, Zenon DEF Consume
  <2>2. CASE ~p.last
    BY <2>2, <1>2, Zenon DEF Consume, Types, TypeOK
  <2> QED
    BY <2>1, <2>2
<1>5. pc' # "write" /\ pc' \in {"read", "recover", "return"}
  BY <1>4 DEF ReadReply
<1> QED
  BY <1>1, <1>3, <1>4, <1>5 DEF ReadReply, Types, TypeOK, serverVars

LEMMA MarkerTypes ==
    ASSUME Types, ReadMarker \/ MarkerWriteFails \/ ReadAfterReset
    PROVE  Types'
<1>1. CASE ReadMarker
  <2>1. s2c' \in Seq(Packets) /\ c2s' \in Seq(Packets)
    BY <1>1, FlightFacts, PacketFacts DEF ReadMarker, WriteTo, Types, TypeOK
  <2> QED
    BY <1>1, <2>1, ZenonT(60) DEF ReadMarker, Types, TypeOK, connVars, serverVars
<1>2. CASE MarkerWriteFails
  <2>1. s2c' \in Seq(Packets)
    BY <1>2, FlightFacts DEF MarkerWriteFails, Types, TypeOK
  <2>2. pc' = "return" /\ out' \in Outcomes /\ bad' \in BOOLEAN
    <3>1. "epipe" \in Outcomes
      BY DEF Outcomes
    <3> QED
      BY <1>2, <3>1, FinishTypes, Zenon DEF MarkerWriteFails
  <2> QED
    BY <1>2, <2>1, <2>2 DEF MarkerWriteFails, Types, TypeOK, serverVars
<1>3. CASE ReadAfterReset
  <2>1. s2c' \in Seq(Packets) /\ inBuf' \in Seq(Packets)
    BY <1>3, FlightFacts DEF ReadAfterReset, Types, TypeOK
  <2>2. pc' \in {"recover", "return"} /\ out' \in Outcomes /\ bad' \in BOOLEAN
    <3>1. "reset" \in Outcomes
      BY DEF Outcomes
    <3>2. CASE pc = "marker" /\ Recovers(kind)
      BY <1>3, <3>2, Zenon DEF ReadAfterReset, Types, TypeOK
    <3>3. CASE ~(pc = "marker" /\ Recovers(kind))
      BY <1>3, <3>1, <3>3, FinishTypes, Zenon DEF ReadAfterReset
    <3> QED
      BY <3>2, <3>3
  <2> QED
    BY <1>3, <2>1, <2>2 DEF ReadAfterReset, Types, TypeOK, watchVars, serverVars
<1> QED
  BY <1>1, <1>2, <1>3

LEMMA FailTypes ==
    ASSUME Types, ReadFinal \/ ReadFails
    PROVE  Types'
<1>1. {"badconn", "closed"} \cup {loss} \subseteq Outcomes
  BY DEF Outcomes, Types, TypeOK
<1>2. pc' = "return" /\ out' \in Outcomes /\ bad' \in BOOLEAN
  BY <1>1, FinishTypes, Zenon DEF ReadFinal, ReadFails
<1>3. <<>> \in Seq(Packets)
  BY EmptySeq
<1>4. CASE ReadFinal
  BY <1>2, <1>3, <1>4 DEF ReadFinal, Types, TypeOK, watchVars, serverVars
<1>5. CASE ReadFails
  BY <1>2, <1>5 DEF ReadFails, Types, TypeOK, watchVars, serverVars
<1> QED
  BY <1>4, <1>5

LEMMA ReturnTypes ==
    ASSUME Types, ReturnCtxErr \/ ReturnOutcome
    PROVE  Types'
<1>1. bad' \in BOOLEAN
  BY Zenon DEF ReturnCtxErr, ReturnOutcome, Types, TypeOK, isBadConn
<1>2. PICK r \in Outcomes \cup {"ctx"}, b \in BOOLEAN : ReturnTo(r, b)
  <2>1. CASE ReturnCtxErr
    BY <2>1, Zenon DEF ReturnCtxErr
  <2>2. CASE ReturnOutcome
    BY <2>2, Zenon DEF ReturnOutcome, Types, TypeOK
  <2> QED
    BY <2>1, <2>2
<1>3. res' \in [Calls -> Outcomes \cup {"ctx"}]
  BY <1>2 DEF ReturnTo, Types, TypeOK
<1>4. done' \in [Calls -> BOOLEAN]
  BY <1>2, Zenon DEF ReturnTo, Types, TypeOK
<1>5. pc' \in {"idle", "dropped"}
  BY <1>2, Zenon DEF ReturnTo
<1> QED
  BY <1>1, <1>2, <1>3, <1>4, <1>5 DEF ReturnTo, Types, TypeOK, serverVars

LEMMA WatchdogTypes ==
    ASSUME Types, NEW c \in Calls, Cancel(c) \/ WatchdogStep(c)
    PROVE  Types'
<1>1. CASE Cancel(c)
  BY <1>1 DEF Cancel, Types, TypeOK, clientVars, connVars, serverVars
<1>2. CASE WatchdogDone(c) \/ WatchdogFires(c) \/ SetBreak(c)
  <2>1. breakConn' \in BOOLEAN
    BY <1>2, Zenon DEF WatchdogDone, WatchdogFires, SetBreak, Types, TypeOK
  <2>2. wd' \in [Calls -> {"gone", "wait", "break", "flag"}]
    BY <1>2 DEF WatchdogDone, WatchdogFires, SetBreak, Types, TypeOK
  <2> QED
    <3>1. UNCHANGED <<pc, cur, kind, sent, inBuf, from, out, res, ctx, done, bad, oob, up, loss,
                      c2s, s2c, urgent, sst, scall>>
      BY <1>2 DEF WatchdogDone, WatchdogFires, SetBreak, clientVars, connVars, serverVars
    <3> QED
      BY <2>1, <2>2, <3>1 DEF Types, TypeOK
<1>3. CASE BreakConnection(c)
  <2>1. c2s' \in Seq(Packets)
    <3>1. Interrupt \in Packets
      BY PacketFacts, Zenon
    <3>2. c2s \in Seq(Packets) /\ Append(c2s, Interrupt) \in Seq(Packets)
      BY <3>1, FlightTypes, Zenon DEF Types, TypeOK
    <3> QED
      BY <1>3, <3>2, Zenon DEF BreakConnection, WriteTo
  <2>2. urgent' \in BOOLEAN
    BY <1>3, Zenon DEF BreakConnection, Types, TypeOK
  <2>3. wd' \in [Calls -> {"gone", "wait", "break", "flag"}]
    BY <1>3 DEF BreakConnection, Types, TypeOK
  <2> QED
    BY <1>3, <2>1, <2>2, <2>3 DEF BreakConnection, Types, TypeOK, clientVars, connVars, serverVars
<1> QED
  BY <1>1, <1>2, <1>3, Zenon DEF WatchdogStep

LEMMA ServerTypes ==
    ASSUME Types, ServerReacts \/ ServerReplies \/ LoseConnection
    PROVE  Types'
<1>1. CASE ServerReceives
  <2>1. c2s' \in Seq(Packets) /\ scall' \in Calls \cup {NoCall}
    BY <1>1, FlightFacts, PacketFacts DEF ServerReceives, Types, TypeOK
  <2>2. sst' \in {"idle", "recv", "exec", "break"}
    BY <1>1, Zenon DEF ServerReceives
  <2> QED
    BY <1>1, <2>1, <2>2 DEF ServerReceives, Types, TypeOK, clientVars, watchVars, connVars
<1>2. CASE ServerInterrupted
  <2>1. c2s' \in Seq(Packets) /\ s2c' \in Seq(Packets)
    <3>1. BreakMark \in Packets
      BY PacketFacts, Zenon
    <3>2. s2c \in Seq(Packets) /\ Append(s2c, BreakMark) \in Seq(Packets)
      BY <3>1, FlightTypes, Zenon DEF Types, TypeOK
    <3>3. c2s \in Seq(Packets) /\ (c2s # <<>> => Tail(c2s) \in Seq(Packets))
      BY FlightTypes, Zenon DEF Types, TypeOK
    <3> QED
      BY <1>2, <3>2, <3>3, Zenon DEF ServerInterrupted
  <2>2. sst' \in {"idle", "recv", "exec", "break"} /\ urgent' \in BOOLEAN
    BY <1>2, Zenon DEF ServerInterrupted, Types, TypeOK
  <2> QED
    BY <1>2, <2>1, <2>2 DEF ServerInterrupted, Types, TypeOK, clientVars, watchVars, connVars
<1>3. CASE ServerReset
  <2>1. Reset \in Packets /\ Reply(scall, TRUE, "cancelled") \in Packets
    BY PacketFacts DEF Types, TypeOK, Codes
  <2>2. <<Reset, Reply(scall, TRUE, "cancelled")>> \in Seq(Packets)
    BY <2>1, PairFacts
  <2>3. c2s' \in Seq(Packets) /\ s2c' \in Seq(Packets) /\ sst' \in {"idle", sst}
    BY <1>3, <2>2, FlightTypes, Zenon DEF ServerReset, Types, TypeOK
  <2> QED
    BY <1>3, <2>3 DEF ServerReset, Types, TypeOK, clientVars, watchVars, connVars
<1>4. CASE ServerReplies
  <2>1. \A b \in BOOLEAN, e \in {"ok", "fatal"} : Reply(scall, b, e) \in Packets
    BY PacketFacts DEF Types, TypeOK, Codes
  <2>2. s2c' \in Seq(Packets) /\ sst' \in {"idle", sst}
    BY <1>4, <2>1, FlightTypes, Zenon DEF ServerReplies, Types, TypeOK
  <2> QED
    BY <1>4, <2>2 DEF ServerReplies, Types, TypeOK, clientVars, watchVars, connVars
<1>5. CASE LoseConnection
  <2>1. s2c' \in Seq(Packets) /\ loss' \in {"eof", "rst"} /\ up' = "lost"
    <3>1. Final \in Packets
      BY PacketFacts, Zenon
    <3>2. /\ Append(s2c, Final) \in Seq(Packets)
          /\ \A n \in 0 .. Len(s2c) : SubSeq(s2c, 1, n) \in Seq(Packets)
      BY <3>1, FlightTypes, Zenon DEF Types, TypeOK
    <3>3. s2c' \in Seq(Packets) /\ up' = "lost"
      BY <1>5, <3>2, Zenon DEF LoseConnection
    <3>4. loss' \in {"eof", "rst"}
      BY <1>5, EnvironmentAssumption DEF LoseConnection
    <3> QED
      BY <3>3, <3>4
  <2>2. c2s' \in Seq(Packets)
    BY <1>5, EmptySeq DEF LoseConnection
  <2> QED
    BY <1>5, <2>1, <2>2, ZenonT(60) DEF LoseConnection, Types, TypeOK, clientVars, watchVars, serverVars
<1> QED
  BY <1>1, <1>2, <1>3, <1>4, <1>5, Zenon DEF ServerReacts

LEMMA TypesStep == Types /\ [Next]_vars => Types'
<1> SUFFICES ASSUME Types, [Next]_vars PROVE Types'
  OBVIOUS
<1>1. CASE UNCHANGED vars
  BY <1>1 DEF vars, Types, TypeOK
<1>2. CASE Dropped
  BY <1>1, <1>2 DEF Dropped
<1>3. CASE ClientStep
  BY <1>3, WriteTypes, ReadReplyTypes, MarkerTypes, FailTypes, ReturnTypes, Zenon DEF ClientStep
<1> QED
  BY <1>1, <1>2, <1>3, StartTypes, WatchdogTypes, ServerTypes, Zenon DEF Next

(* Every variable of a session keeps its type, for every number of calls   *)
(* and of packets and every kind of call, "refcursor" included.            *)
THEOREM TypeCorrect == Spec => []TypeOK
<1>1. Types => TypeOK
  BY DEF Types
<1> QED
  BY <1>1, TypesInit, TypesStep, PTL DEF Spec

-----------------------------------------------------------------------------
(* The conversation between client and server.                             *)

Inv == Incoming /\ Live /\ Client /\ Ending

(* Where the packets are once the first one has been taken.                *)
LEMMA Shift ==
    ASSUME NEW n \in Nat, n > 0
    PROVE  /\ 1 \in 1 .. n
           /\ \A i \in 1 .. n - 1 : /\ i + 1 \in 1 .. n /\ 1 < i + 1 /\ i + 1 # 1
                                    /\ i + 1 = n => i = n - 1
                                    /\ i = 1 => i + 1 = 2
           /\ \A i, j \in 1 .. n - 1 : i < j => i + 1 < j + 1
           /\ \A i \in 1 .. n : i = 1 \/ (i - 1 \in 1 .. n - 1 /\ (i - 1) + 1 = i)
OBVIOUS

LEMMA TailPlaces ==
    ASSUME NEW s \in Seq(Packets), s # <<>>
    PROVE  /\ 1 \in 1 .. Len(s) /\ s[1] = Head(s) /\ s[1] \in Packets
           /\ \A i \in 1 .. Len(Tail(s)) :
                 /\ i + 1 \in 1 .. Len(s) /\ 1 < i + 1 /\ Tail(s)[i] = s[i + 1]
                 /\ i + 1 # 1
                 /\ i + 1 = Len(s) => i = Len(Tail(s))
                 /\ i = 1 => i + 1 = 2
           /\ \A i, j \in 1 .. Len(Tail(s)) : i < j => i + 1 < j + 1
           /\ \A i \in 1 .. Len(s) : i = 1 \/ (i - 1 \in 1 .. Len(Tail(s)) /\ Tail(s)[i - 1] = s[i])
<1>1. /\ Len(Tail(s)) = Len(s) - 1 /\ Len(s) \in Nat /\ Len(s) > 0
      /\ \A i \in 1 .. Len(s) - 1 : Tail(s)[i] = s[i + 1]
      /\ s[1] = Head(s) /\ s[1] \in Packets
  BY FlightFacts
<1> QED
  BY <1>1, Shift, ZenonT(30)

(* What is left of the packets in flight once the first one is taken.      *)
LEMMA ArrivesTail ==
    ASSUME NEW s \in Seq(Packets), s # <<>>, NEW w, NEW c, NEW u, Arrives(s, w, c, u)
    PROVE  /\ \A i \in 1 .. Len(Tail(s)) :
                 /\ Data(Tail(s)[i]) \/ Tail(s)[i] \in {BreakMark, Final, Reset}
                 /\ Data(Tail(s)[i]) => Tail(s)[i].call = c
                 /\ Tail(s)[i] = Final => i = Len(Tail(s)) /\ u = "lost"
                 /\ Tail(s)[i] # Reset
                 /\ i = 1 /\ w = "marker" => Tail(s)[i] = Final \/ Answering(Tail(s)[i])
                 /\ Head(s) = BreakMark => Tail(s)[i] = Final
                 /\ Answering(Head(s)) => Tail(s)[i] \in {BreakMark, Final}
           /\ \A i, j \in 1 .. Len(Tail(s)) : i < j =>
                 /\ Tail(s)[i] = BreakMark => Tail(s)[j] = Final
                 /\ Answering(Tail(s)[i]) => Tail(s)[j] \in {BreakMark, Final}
<1> DEFINE t == Tail(s)
<1>1. 1 \in 1 .. Len(s) /\ s[1] = Head(s)
  BY TailPlaces, Zenon
<1>2. ASSUME NEW i \in 1 .. Len(t)
      PROVE  /\ i + 1 \in 1 .. Len(s) /\ 1 < i + 1 /\ t[i] = s[i + 1] /\ i + 1 # 1
             /\ i + 1 = Len(s) => i = Len(t)
             /\ i = 1 => i + 1 = 2
  BY TailPlaces, Zenon
<1>3. ASSUME NEW i \in 1 .. Len(t), NEW j \in 1 .. Len(t), i < j
      PROVE  i + 1 < j + 1
  BY <1>3, TailPlaces, Zenon
<1> HIDE DEF t
<1>4. ASSUME NEW i \in 1 .. Len(t)
      PROVE  /\ Data(t[i]) \/ t[i] \in {BreakMark, Final, Reset}
             /\ Data(t[i]) => t[i].call = c
             /\ t[i] = Final => i = Len(t) /\ u = "lost"
             /\ t[i] # Reset
             /\ i = 1 /\ w = "marker" => t[i] = Final \/ Answering(t[i])
             /\ Head(s) = BreakMark => t[i] = Final
             /\ Answering(Head(s)) => t[i] \in {BreakMark, Final}
  <2> DEFINE k == i + 1
  <2>1. /\ k \in 1 .. Len(s) /\ 1 < k /\ t[i] = s[k] /\ k # 1
        /\ k = Len(s) => i = Len(t)
        /\ i = 1 => k = 2
    BY <1>2, Zenon
  <2> HIDE DEF k
  <2> QED
    BY <1>1, <2>1, Zenon DEF Arrives
<1>5. ASSUME NEW i \in 1 .. Len(t), NEW j \in 1 .. Len(t), i < j
      PROVE  /\ t[i] = BreakMark => t[j] = Final
             /\ Answering(t[i]) => t[j] \in {BreakMark, Final}
  <2> DEFINE k == i + 1
             l == j + 1
  <2>1. k \in 1 .. Len(s) /\ l \in 1 .. Len(s) /\ t[i] = s[k] /\ t[j] = s[l] /\ k < l
    BY <1>2, <1>3, <1>5, Zenon
  <2> HIDE DEF k, l
  <2> QED
    BY <2>1, Zenon DEF Arrives
<1> QED
  BY <1>4, <1>5, Zenon DEF t

(* A marker or the end of the connection may wait while no call reads.     *)
LEMMA ArrivesQuiet ==
    ASSUME NEW s, NEW w, NEW v, NEW c, NEW d, NEW u, Arrives(s, w, c, u),
           w \notin {"read", "marker", "recover"}, v \notin {"marker", "recover"}
    PROVE  Arrives(s, v, d, u) /\ \A i \in 1 .. Len(s) : ~Data(s[i]) /\ s[i] \in {BreakMark, Final}
<1>1. \A i \in 1 .. Len(s) : ~Data(s[i]) /\ s[i] \in {BreakMark, Final}
  BY Zenon DEF Arrives
<1> QED
  BY <1>1, Zenon DEF Arrives

(* The last packet of a reply is taken: at most a break marker follows.    *)
LEMMA ArrivesAnswer ==
    ASSUME NEW s \in Seq(Packets), s # <<>>, NEW w, NEW c \in Calls, NEW u, Arrives(s, w, c, u),
           Answering(Head(s))
    PROVE  /\ Arrives(Tail(s), "return", c, u)
           /\ \A i \in 1 .. Len(Tail(s)) : Tail(s)[i] \in {BreakMark, Final}
<1> DEFINE t == Tail(s)
<1>1. \A i \in 1 .. Len(t) : t[i] \in {BreakMark, Final}
  BY ArrivesTail, Zenon
<1>2. \A i \in 1 .. Len(t) : t[i] = Final => i = Len(t) /\ u = "lost"
  BY ArrivesTail
<1>3. \A i, j \in 1 .. Len(t) : i < j => (t[i] = BreakMark => t[j] = Final)
  BY ArrivesTail, Zenon
<1> HIDE DEF t
<1>4. Arrives(t, "return", c, u)
  BY <1>1, <1>2, <1>3, Distinct, Zenon DEF Arrives
<1> QED
  BY <1>1, <1>4 DEF t

(* Another packet of a reply is taken, and not by a recovering read.       *)
LEMMA ArrivesMore ==
    ASSUME NEW s \in Seq(Packets), s # <<>>, NEW w \in {"read", "recover"}, NEW c \in Calls, NEW u,
           Arrives(s, w, c, u), Data(Head(s)), ~Answering(Head(s))
    PROVE  w = "read" /\ Arrives(Tail(s), w, c, u)
<1> DEFINE t == Tail(s)
<1>1. w = "read"
  BY TailPlaces, Distinct, Zenon DEF Arrives
<1>2. \A i \in 1 .. Len(t) :
        /\ Data(t[i]) \/ t[i] \in {BreakMark, Final, Reset}
        /\ Data(t[i]) => t[i].call = c
        /\ t[i] = Final => i = Len(t) /\ u = "lost"
        /\ t[i] # Reset
  BY <1>1, ArrivesTail
<1>3. \A i, j \in 1 .. Len(t) : i < j =>
              /\ t[i] = BreakMark => t[j] = Final
              /\ Answering(t[i]) => t[j] \in {BreakMark, Final}
  BY ArrivesTail, Zenon
<1> HIDE DEF t
<1>4. Arrives(t, w, c, u)
  BY <1>1, <1>2, <1>3, Zenon DEF Arrives
<1> QED
  BY <1>1, <1>4 DEF t

(* A marker met by a read is a break marker, at most the end follows it,   *)
(* and the recovering read meets none.                                     *)
LEMMA ArrivesBreak ==
    ASSUME NEW s \in Seq(Packets), s # <<>>, NEW w \in {"read", "recover"}, NEW c \in Calls, NEW u,
           Arrives(s, w, c, u), IsMarker(Head(s)), NEW v \in {"marker", "return"}
    PROVE  /\ w = "read" /\ Head(s) = BreakMark /\ Arrives(Tail(s), v, c, u)
           /\ \A i \in 1 .. Len(Tail(s)) : Tail(s)[i] = Final
           /\ u # "lost" => Tail(s) = <<>>
<1> DEFINE t == Tail(s)
<1>1. Head(s) # Final /\ ~Data(Head(s))
  BY PacketFacts DEF IsMarker, Data
<1>2. w = "read" /\ Head(s) = BreakMark
  BY <1>1, TailPlaces, Distinct, Zenon DEF Arrives
<1>3. \A i \in 1 .. Len(t) : t[i] = Final
  BY <1>2, ArrivesTail, Zenon
<1>4. \A i \in 1 .. Len(t) : t[i] = Final => i = Len(t) /\ u = "lost"
  BY ArrivesTail
<1>5. u # "lost" => t = <<>>
  <2>1. Len(t) \in Nat /\ (t = <<>> <=> Len(t) = 0)
    BY FlightFacts
  <2>2. u # "lost" => ~(1 \in 1 .. Len(t))
    BY <1>3, <1>4, Zenon
  <2> HIDE DEF t
  <2> QED
    BY <2>1, <2>2
<1> HIDE DEF t
<1>7. Arrives(t, v, c, u)
  BY <1>3, <1>4, Distinct, Zenon DEF Arrives
<1> QED
  BY <1>2, <1>3, <1>5, <1>7 DEF t

(* After its own reset marker the client meets the server's, and the read  *)
(* that recovers meets the answer.                                         *)
LEMMA ArrivesReset ==
    ASSUME NEW s \in Seq(Packets), s # <<>>, NEW c \in Calls, NEW u,
           Arrives(s, "marker", c, u), Head(s).type # "final"
    PROVE  Head(s) = Reset /\ Arrives(Tail(s), "recover", c, u)
<1> DEFINE t == Tail(s)
<1>1. Head(s) # Final
  BY PacketFacts
<1>2. Head(s) = Reset
  BY <1>1, TailPlaces, Zenon DEF Arrives
<1>3. \A i \in 1 .. Len(t) :
        /\ Data(t[i]) \/ t[i] \in {BreakMark, Final, Reset}
        /\ Data(t[i]) => t[i].call = c
        /\ t[i] = Final => i = Len(t) /\ u = "lost"
        /\ t[i] # Reset
  BY ArrivesTail
<1>4. \A i \in 1 .. Len(t) : i = 1 => t[i] = Final \/ Answering(t[i])
  BY ArrivesTail, Zenon
<1>5. \A i, j \in 1 .. Len(t) : i < j =>
              /\ t[i] = BreakMark => t[j] = Final
              /\ Answering(t[i]) => t[j] \in {BreakMark, Final}
  BY ArrivesTail, Zenon
<1> HIDE DEF t
<1>6. Arrives(t, "recover", c, u)
  BY <1>3, <1>4, <1>5, Zenon DEF Arrives
<1> QED
  BY <1>2, <1>6 DEF t

(* A break marker is added to packets that hold none.                      *)
LEMMA ArrivesAddBreak ==
    ASSUME NEW s \in Seq(Packets), NEW w, NEW c \in Calls, Arrives(s, w, c, "up"),
           \A i \in 1 .. Len(s) : s[i] # BreakMark,
           w = "marker" => Len(s) > 1, w = "recover" => s # <<>>
    PROVE  Arrives(Append(s, BreakMark), w, c, "up")
<1> DEFINE t == Append(s, BreakMark)
<1>1. /\ Len(t) = Len(s) + 1 /\ t[Len(s) + 1] = BreakMark /\ Len(s) \in Nat
      /\ \A i \in 1 .. Len(s) : t[i] = s[i]
      /\ w = "recover" => Len(s) > 0
  BY FlightFacts, PacketFacts
<1> HIDE DEF t
<1>2. \A i \in 1 .. Len(t) : i \in 1 .. Len(s) \/ i = Len(s) + 1
  BY <1>1
<1>3. \A i, j \in 1 .. Len(t) : i < j => i \in 1 .. Len(s)
  BY <1>1
<1>4. /\ w = "marker" => Len(s) + 1 # 1 /\ Len(s) + 1 # 2
      /\ w = "recover" => Len(s) + 1 # 1
  BY <1>1
<1>5. \A i \in 1 .. Len(s) : s[i] # Final
  BY DEF Arrives
<1>6. \A i \in 1 .. Len(t) :
        /\ Data(t[i]) \/ t[i] \in {BreakMark, Final, Reset}
        /\ Data(t[i]) => t[i].call = c /\ w \in {"read", "marker", "recover"}
        /\ t[i] # Final
        /\ t[i] = Reset => i = 1 /\ w = "marker"
        /\ i = 1 /\ w = "marker" => t[i] \in {Reset, Final}
        /\ i = 2 /\ w = "marker" => t[i] = Final \/ Answering(t[i])
        /\ i = 1 /\ w = "recover" => t[i] = Final \/ Answering(t[i])
  BY <1>1, <1>2, <1>4, <1>5, Distinct, Zenon DEF Arrives
<1>7. \A i, j \in 1 .. Len(t) : i < j =>
        /\ t[i] # BreakMark
        /\ Answering(t[i]) => t[j] \in {BreakMark, Final}
  BY <1>1, <1>2, <1>3, Zenon DEF Arrives
<1>8. Arrives(t, w, c, "up")
  BY <1>6, <1>7, Zenon DEF Arrives
<1> QED
  BY <1>8 DEF t

(* A packet of the reply is added to earlier ones.                         *)
LEMMA ArrivesAddReply ==
    ASSUME NEW s \in Seq(Packets), NEW c \in Calls, Arrives(s, "read", c, "up"),
           \A i \in 1 .. Len(s) : Data(s[i]) /\ ~s[i].last,
           NEW b \in BOOLEAN, NEW e \in Codes
    PROVE  Arrives(Append(s, Reply(c, b, e)), "read", c, "up")
<1> DEFINE p == Reply(c, b, e)
           t == Append(s, p)
<1>1. /\ Len(t) = Len(s) + 1 /\ t[Len(s) + 1] = p /\ Len(s) \in Nat /\ Data(p) /\ p.call = c
      /\ \A i \in 1 .. Len(s) : t[i] = s[i]
  BY FlightFacts, PacketFacts DEF Data
<1> HIDE DEF p, t
<1>2. \A i \in 1 .. Len(t) : i \in 1 .. Len(s) \/ i = Len(s) + 1
  BY <1>1
<1>3. \A i, j \in 1 .. Len(t) : i < j => i \in 1 .. Len(s)
  BY <1>1
<1>4. \A i \in 1 .. Len(t) : Data(t[i]) /\ t[i].call = c
  BY <1>1, <1>2, Zenon DEF Arrives
<1>5. \A i, j \in 1 .. Len(t) : i < j => ~Answering(t[i])
  BY <1>1, <1>3 DEF Answering
<1>6. Arrives(t, "read", c, "up")
  BY <1>4, <1>5, Distinct, Zenon DEF Arrives
<1> QED
  BY <1>6 DEF t, p

(* The server's reset marker and its answer, with nothing before them.     *)
LEMMA ArrivesPair ==
    ASSUME NEW c \in Calls
    PROVE  Arrives(<<Reset, Reply(c, TRUE, "cancelled")>>, "marker", c, "up")
<1> DEFINE q == Reply(c, TRUE, "cancelled")
           t == <<Reset, q>>
<1>1. "cancelled" \in Codes
  BY DEF Codes
<1>2. q \in Packets /\ q.type = "data" /\ q.call = c /\ q.last = TRUE
  BY <1>1 DEF Packets, Reply
<1>3. Data(q) /\ Answering(q)
  BY <1>2 DEF Data, Answering
<1> HIDE DEF q
<1>4. Len(t) = 2 /\ t[1] = Reset /\ t[2] = q
  OBVIOUS
<1> HIDE DEF t
<1>5. \A i \in 1 .. Len(t) : i = 1 \/ (i = 2 /\ i # 1)
  BY <1>4
<1>6. \A i, j \in 1 .. Len(t) : i < j => i = 1
  BY <1>4
<1>7. Arrives(t, "marker", c, "up")
  BY <1>2, <1>3, <1>4, <1>5, <1>6, Distinct, Zenon DEF Arrives
<1> QED
  BY <1>7 DEF t, q

(* The connection is lost: the end is cut off, or announced.               *)
LEMMA ArrivesCut ==
    ASSUME NEW s \in Seq(Packets), NEW w, NEW c \in Calls, Arrives(s, w, c, "up"), NEW n \in 0 .. Len(s)
    PROVE  Arrives(SubSeq(s, 1, n), w, c, "lost")
<1> DEFINE t == SubSeq(s, 1, n)
<1>1. Len(t) = n /\ Len(s) \in Nat /\ \A i \in 1 .. n : t[i] = s[i]
  BY FlightFacts
<1> HIDE DEF t
<1>2. \A i \in 1 .. Len(t) : i \in 1 .. Len(s) /\ t[i] = s[i]
  BY <1>1
<1>3. \A i \in 1 .. Len(s) : s[i] # Final
  BY DEF Arrives
<1>4. \A i \in 1 .. Len(t) :
        /\ Data(t[i]) \/ t[i] \in {BreakMark, Final, Reset}
        /\ Data(t[i]) => t[i].call = c /\ w \in {"read", "marker", "recover"}
        /\ t[i] # Final
        /\ t[i] = Reset => i = 1 /\ w = "marker"
        /\ i = 1 /\ w = "marker" => t[i] \in {Reset, Final}
        /\ i = 2 /\ w = "marker" => t[i] = Final \/ Answering(t[i])
        /\ i = 1 /\ w = "recover" => t[i] = Final \/ Answering(t[i])
  BY <1>2, <1>3, Zenon DEF Arrives
<1>5. ASSUME NEW i \in 1 .. Len(t), NEW j \in 1 .. Len(t), i < j
      PROVE  /\ t[i] = BreakMark => t[j] = Final
             /\ Answering(t[i]) => t[j] \in {BreakMark, Final}
  <2>1. i \in 1 .. Len(s) /\ j \in 1 .. Len(s) /\ t[i] = s[i] /\ t[j] = s[j]
    BY <1>2
  <2> QED
    BY <1>5, <2>1, Zenon DEF Arrives
<1>6. Arrives(t, w, c, "lost")
  BY <1>4, <1>5, Zenon DEF Arrives
<1> QED
  BY <1>6 DEF t

LEMMA ArrivesEnd ==
    ASSUME NEW s \in Seq(Packets), NEW w, NEW c \in Calls, Arrives(s, w, c, "up")
    PROVE  Arrives(Append(s, Final), w, c, "lost")
<1> DEFINE t == Append(s, Final)
<1>1. /\ Len(t) = Len(s) + 1 /\ t[Len(s) + 1] = Final /\ Len(s) \in Nat
      /\ \A i \in 1 .. Len(s) : t[i] = s[i]
  BY FlightFacts, PacketFacts
<1> HIDE DEF t
<1>2. \A i \in 1 .. Len(t) : i \in 1 .. Len(s) \/ (i = Len(s) + 1 /\ i = Len(t))
  BY <1>1
<1>3. \A i, j \in 1 .. Len(t) : i < j => i \in 1 .. Len(s)
  BY <1>1
<1>4. \A i \in 1 .. Len(s) : s[i] # Final
  BY DEF Arrives
<1>5. \A i \in 1 .. Len(t) :
        /\ Data(t[i]) \/ t[i] \in {BreakMark, Final, Reset}
        /\ Data(t[i]) => t[i].call = c /\ w \in {"read", "marker", "recover"}
        /\ t[i] = Final => i = Len(t)
        /\ t[i] = Reset => i = 1 /\ w = "marker"
        /\ i = 1 /\ w = "marker" => t[i] \in {Reset, Final}
        /\ i = 2 /\ w = "marker" => t[i] = Final \/ Answering(t[i])
        /\ i = 1 /\ w = "recover" => t[i] = Final \/ Answering(t[i])
  BY <1>1, <1>2, <1>4, Distinct, Zenon DEF Arrives
<1>6. \A i, j \in 1 .. Len(t) : i < j =>
        /\ t[i] = BreakMark => t[j] = Final
        /\ Answering(t[i]) => t[j] \in {BreakMark, Final}
  BY <1>1, <1>2, <1>3, ZenonT(30) DEF Arrives
<1>7. Arrives(t, w, c, "lost")
  BY <1>5, <1>6, Zenon DEF Arrives
<1> QED
  BY <1>7 DEF t

(* While the client is neither writing nor reading, no request and no      *)
(* reset marker are on their way to the server.                            *)
LEMMA LeavesQuiet ==
    ASSUME NEW s, NEW w, NEW c \in Calls, Leaves(s, w, c), w \notin {"write", "read", "marker"}
    PROVE  \A i \in 1 .. Len(s) : s[i] = Interrupt
BY Distinct, Zenon DEF Leaves

LEMMA LeavesInterrupts ==
    ASSUME NEW s, NEW w, NEW c \in Calls, \A i \in 1 .. Len(s) : s[i] = Interrupt
    PROVE  Leaves(s, w, c) /\ \A i \in 1 .. Len(s) : ~Data(s[i]) /\ s[i] # Reset
<1>1. Interrupt # Request(c, TRUE)
  BY Distinct, Zenon
<1> QED
  BY <1>1, Distinct, Zenon DEF Leaves

(* The server takes the first packet.                                      *)
LEMMA LeavesTail ==
    ASSUME NEW s \in Seq(Packets), s # <<>>, NEW w, NEW c \in Calls, Leaves(s, w, c)
    PROVE  /\ Leaves(Tail(s), w, c)
           /\ Head(s) \in {Interrupt, Reset, Request(c, TRUE), Request(c, FALSE)}
           /\ Head(s) = Reset => w = "marker" /\ \A i \in 1 .. Len(Tail(s)) : Tail(s)[i] = Interrupt
           /\ Head(s) = Request(c, TRUE) => \A i \in 1 .. Len(Tail(s)) : Tail(s)[i] # Reset => Tail(s)[i] = Interrupt
           /\ Data(Head(s)) => w \in {"write", "read", "marker"}
           /\ Head(s) = Request(c, TRUE) => w # "write"
<1> DEFINE t == Tail(s)
<1>1. 1 \in 1 .. Len(s) /\ s[1] = Head(s)
  BY TailPlaces, Zenon
<1>2. ASSUME NEW i \in 1 .. Len(t)
      PROVE  i + 1 \in 1 .. Len(s) /\ 1 < i + 1 /\ t[i] = s[i + 1]
  BY TailPlaces, Zenon
<1>3. ASSUME NEW i \in 1 .. Len(t), NEW j \in 1 .. Len(t), i < j
      PROVE  i + 1 < j + 1
  BY <1>3, TailPlaces, Zenon
<1> HIDE DEF t
<1>4. ASSUME NEW i \in 1 .. Len(t)
      PROVE  /\ t[i] \in {Interrupt, Reset, Request(c, TRUE), Request(c, FALSE)}
             /\ Data(t[i]) => w \in {"write", "read", "marker"}
             /\ t[i] = Request(c, TRUE) => w # "write"
             /\ t[i] = Reset => w = "marker"
             /\ Head(s) = Request(c, TRUE) => ~Data(t[i])
             /\ Head(s) = Reset => t[i] = Interrupt
  <2> DEFINE k == i + 1
  <2>1. k \in 1 .. Len(s) /\ 1 < k /\ t[i] = s[k]
    BY <1>2, Zenon
  <2> HIDE DEF k
  <2> QED
    BY <1>1, <2>1, Zenon DEF Leaves
<1>5. ASSUME NEW i \in 1 .. Len(t), NEW j \in 1 .. Len(t), i < j
      PROVE  /\ t[i] = Request(c, TRUE) => ~Data(t[j])
             /\ t[i] = Reset => t[j] = Interrupt
  <2> DEFINE k == i + 1
             l == j + 1
  <2>1. k \in 1 .. Len(s) /\ l \in 1 .. Len(s) /\ t[i] = s[k] /\ t[j] = s[l] /\ k < l
    BY <1>2, <1>3, <1>5, Zenon
  <2> HIDE DEF k, l
  <2> QED
    BY <2>1, Zenon DEF Leaves
<1>6. Leaves(t, w, c)
  BY <1>4, <1>5, Zenon DEF Leaves
<1>7. /\ Head(s) \in {Interrupt, Reset, Request(c, TRUE), Request(c, FALSE)}
      /\ Data(Head(s)) => w \in {"write", "read", "marker"}
      /\ Head(s) = Request(c, TRUE) => w # "write"
      /\ Head(s) = Reset => w = "marker"
  BY <1>1, Zenon DEF Leaves
<1>8. Head(s) = Reset => \A i \in 1 .. Len(t) : t[i] = Interrupt
  BY <1>4, Zenon
<1>9. Head(s) = Request(c, TRUE) => \A i \in 1 .. Len(t) : t[i] # Reset => t[i] = Interrupt
  BY <1>4, Distinct, Zenon
<1> QED
  BY <1>6, <1>7, <1>8, <1>9 DEF t

(* Where the packets are once one has been added.                          *)
LEMMA AppendPlaces ==
    ASSUME NEW s \in Seq(Packets), NEW p \in Packets
    PROVE  /\ Append(s, p)[Len(s) + 1] = p
           /\ Len(s) + 1 \in 1 .. Len(Append(s, p))
           /\ \A i \in 1 .. Len(s) : i \in 1 .. Len(Append(s, p)) /\ Append(s, p)[i] = s[i]
           /\ \A i \in 1 .. Len(Append(s, p)) : i \in 1 .. Len(s) \/ i = Len(s) + 1
           /\ \A i, j \in 1 .. Len(Append(s, p)) : i < j => i \in 1 .. Len(s)
<1> DEFINE t == Append(s, p)
<1>1. /\ Len(t) = Len(s) + 1 /\ t[Len(s) + 1] = p /\ Len(s) \in Nat
      /\ \A i \in 1 .. Len(s) : t[i] = s[i]
  BY FlightFacts, Zenon
<1> HIDE DEF t
<1>2. \A i \in 1 .. Len(t) : i \in 1 .. Len(s) \/ i = Len(s) + 1
  BY <1>1
<1>3. \A i, j \in 1 .. Len(t) : i < j => i \in 1 .. Len(s)
  BY <1>1
<1>4. Len(s) + 1 \in 1 .. Len(t) /\ \A i \in 1 .. Len(s) : i \in 1 .. Len(t)
  BY <1>1
<1> QED
  BY <1>1, <1>2, <1>3, <1>4, Zenon DEF t

(* The client or a watchdog adds a packet: another one of the request, an  *)
(* interrupt, or a reset marker once the whole request is written.         *)
LEMMA LeavesAppend ==
    ASSUME NEW s \in Seq(Packets), NEW w, NEW v, NEW c \in Calls, Leaves(s, w, c), NEW p,
           \/ p = Interrupt /\ v = w
           \/ p = Reset /\ w = "read" /\ v = "marker"
           \/ p = Request(c, FALSE) /\ w = "write" /\ v = "write"
           \/ p = Request(c, TRUE) /\ w = "write" /\ v = "read"
    PROVE  Leaves(Append(s, p), v, c)
<1> DEFINE t == Append(s, p)
<1>0. p \in Packets
  BY CallPackets, Zenon
<1>1. /\ t[Len(s) + 1] = p
      /\ \A i \in 1 .. Len(s) : t[i] = s[i]
      /\ \A i \in 1 .. Len(t) : i \in 1 .. Len(s) \/ i = Len(s) + 1
  BY <1>0, AppendPlaces, Zenon
<1>2. \A i, j \in 1 .. Len(t) : i < j => i \in 1 .. Len(s)
  BY <1>0, AppendPlaces, Zenon
<1> HIDE DEF t
<1>5. /\ p \in {Interrupt, Reset, Request(c, TRUE), Request(c, FALSE)}
      /\ Data(p) => v \in {"write", "read", "marker"} /\ w = "write"
      /\ p = Request(c, TRUE) => v # "write"
      /\ p = Reset => v = "marker"
      /\ w \in {"write", "read", "marker"} => v \in {"write", "read", "marker"}
      /\ w # "write" => v # "write"
      /\ w = "marker" => v = "marker" /\ p = Interrupt
  BY Distinct
<1>6. \A i \in 1 .. Len(t) :
        /\ t[i] \in {Interrupt, Reset, Request(c, TRUE), Request(c, FALSE)}
        /\ Data(t[i]) => v \in {"write", "read", "marker"}
        /\ t[i] = Request(c, TRUE) => v # "write"
        /\ t[i] = Reset => v = "marker"
  BY <1>1, <1>5, Zenon DEF Leaves
<1>7. \A i, j \in 1 .. Len(t) : i < j =>
        /\ t[i] = Request(c, TRUE) => ~Data(t[j])
        /\ t[i] = Reset => t[j] = Interrupt
  BY <1>1, <1>2, <1>5, Zenon DEF Leaves
<1>8. Leaves(t, v, c)
  BY <1>6, <1>7, Zenon DEF Leaves
<1> QED
  BY <1>8, Zenon DEF t

LEMMA InvInit == Init => Inv
<1> SUFFICES ASSUME Init PROVE Inv
  OBVIOUS
<1>1. Len(s2c) = 0 /\ Len(c2s) = 0
  BY DEF Init
<1>2. Incoming /\ Outgoing
  BY <1>1 DEF Incoming, Arrives, Outgoing, Leaves
<1>3. Serving
  BY <1>1 DEF Init, Serving
<1> QED
  BY <1>2, <1>3 DEF Init, Inv, Live, Client, Ending

(* Steps of the pool, of a watchdog that writes nothing and of a dropped   *)
(* connection leave the conversation alone.                                *)
LEMMA IdleStep ==
    ASSUME Inv, UNCHANGED <<pc, cur, kind, inBuf, from, out, bad, up, loss, c2s, s2c, sst, scall>>
    PROVE  Inv'
<1>1. Incoming'
  BY DEF Inv, Incoming, Arrives
<1>2. Outgoing => Outgoing'
  BY DEF Inv, Outgoing, Leaves
<1>3. Serving => Serving'
  BY DEF Inv, Serving
<1> QED
  BY <1>1, <1>2, <1>3 DEF Inv, Live, Client, Ending

LEMMA StartStep ==
    ASSUME Types, Inv, NEW c \in Calls, NEW k \in Kinds, StartCall(c, k)
    PROVE  Inv'
<1>1. /\ pc = "idle" /\ pc' = "write" /\ inBuf' = <<>> /\ from' = {} /\ out' = "none" /\ ~bad
      /\ cur' = c /\ UNCHANGED <<bad, up, loss, c2s, s2c, sst, scall>>
  BY DEF StartCall, connVars, serverVars
<1>2. cur \in Calls
  BY DEF Types, TypeOK
<1>3. Incoming' /\ \A i \in 1 .. Len(s2c) : ~Data(s2c[i])
  BY <1>1, ArrivesQuiet DEF Inv, Incoming
<1>4. up = "up" => \A i \in 1 .. Len(c2s) : c2s[i] = Interrupt
  BY <1>1, <1>2, LeavesQuiet DEF Inv, Live, Outgoing
<1>5. up = "up" => Outgoing' /\ \A i \in 1 .. Len(c2s) : ~Data(c2s[i]) /\ c2s[i] # Reset
  BY <1>1, <1>4, LeavesInterrupts DEF Outgoing
<1>6. up = "up" => Serving'
  BY <1>1, <1>3, <1>4, <1>5 DEF Inv, Live, Serving
<1> QED
  BY <1>1, <1>3, <1>5, <1>6 DEF Inv, Live, Client, Ending

LEMMA WriteRequestStep ==
    ASSUME Types, Inv, WriteRequest
    PROVE  Inv'
<1> DEFINE p == Request(cur, sent' = ReqPkts)
<1>1. /\ pc = "write" /\ UNCHANGED <<cur, kind, inBuf, from, out, bad, up, loss, s2c, sst, scall>>
      /\ pc' \in {"write", "read"} /\ (pc' = "read" <=> sent' = ReqPkts)
  BY DEF WriteRequest, connVars, serverVars
<1>2. cur \in Calls /\ c2s \in Seq(Packets) /\ s2c \in Seq(Packets)
  BY DEF Types, TypeOK
<1>3. \/ p = Request(cur, FALSE) /\ pc' = "write"
      \/ p = Request(cur, TRUE) /\ pc' = "read"
  BY <1>1
<1>4. Incoming' /\ \A i \in 1 .. Len(s2c) : ~Data(s2c[i])
  BY <1>1, ArrivesQuiet DEF Inv, Incoming
<1>5. ASSUME up = "up" PROVE Outgoing' /\ Serving'
  <2>0. c2s' = Append(c2s, p)
    BY <1>5 DEF WriteRequest, WriteTo
  <2> HIDE DEF p
  <2>1. /\ Leaves(c2s', pc', cur)
        /\ c2s'[Len(c2s) + 1] = p /\ Len(c2s) + 1 \in 1 .. Len(c2s')
        /\ \A i \in 1 .. Len(c2s) : i \in 1 .. Len(c2s') /\ c2s'[i] = c2s[i]
        /\ \A i \in 1 .. Len(c2s') : i \in 1 .. Len(c2s) \/ i = Len(c2s) + 1
    <3>1. Leaves(c2s, "write", cur)
      BY <1>1, <1>5 DEF Inv, Live, Outgoing
    <3>2. /\ Leaves(Append(c2s, Request(cur, FALSE)), "write", cur)
          /\ Leaves(Append(c2s, Request(cur, TRUE)), "read", cur)
      BY <1>2, <3>1, LeavesAppend
    <3>3. Leaves(c2s', pc', cur)
      BY <1>3, <2>0, <3>2, Zenon
    <3>4. p \in Packets
      BY <1>2, <1>3, CallPackets, Zenon
    <3> QED
      BY <1>2, <2>0, <3>3, <3>4, AppendPlaces, Zenon
  <2>2. Data(p) /\ p # Reset
    BY <1>2, <1>3, Distinct, Zenon
  <2>3. Serving'
    BY <1>1, <1>4, <1>5, <2>1, <2>2 DEF Inv, Live, Serving
  <2> QED
    BY <1>1, <2>1, <2>3 DEF Outgoing
<1> QED
  BY <1>1, <1>4, <1>5 DEF Inv, Live, Client, Ending

LEMMA WriteFailsStep ==
    ASSUME Types, Inv, WriteFails
    PROVE  Inv'
<1>1. /\ pc = "write" /\ pc' = "return" /\ up # "up" /\ out' \in {"closed", "epipe"}
      /\ UNCHANGED <<cur, kind, inBuf, from, up, loss, c2s, s2c, sst, scall>>
  BY DEF WriteFails, serverVars
<1>2. Incoming'
  BY <1>1 DEF Inv, Incoming, Arrives
<1>3. Ending'
  BY <1>1 DEF Ending
<1> QED
  BY <1>1, <1>2, <1>3 DEF Inv, Live, Client

(* The end of a call: how it is reported, and whether the connection is    *)
(* marked bad, given what the call met.                                    *)
LEMMA FinishEnding ==
    ASSUME Types, Inv, NEW e, Finish(e), pc \notin {"return", "dropped"},
           UNCHANGED kind,
           e \in Codes \/ (e \in {"eof", "rst", "epipe", "closed", "badconn"} /\ up' # "up"),
           up # "up" => up' # "up"
    PROVE  Ending'
<1>1. pc' = "return" /\ out' = e /\ (bad' <=> (bad \/ (kind # "exec" /\ e \in {"eof", "epipe", "fatal"})))
  <2>1. bad \in BOOLEAN
    BY DEF Types, TypeOK
  <2> QED
    BY <2>1, Zenon DEF Finish, BadOnRead, isBadConn
<1>2. bad => up # "up"
  BY DEF Inv, Ending
<1>3. bad' => up' # "up" \/ out' = "fatal"
  BY <1>1, <1>2 DEF Codes
<1>4. kind' # "exec" /\ out' \in {"eof", "fatal"} => bad'
  BY <1>1
<1> QED
  BY <1>1, <1>3, <1>4 DEF Ending

LEMMA ReadReplyStep ==
    ASSUME Types, Inv, ReadReply
    PROVE  Inv'
<1>1. /\ pc \in {"read", "recover"} /\ s2c # <<>> /\ Data(Head(s2c)) /\ s2c' = Tail(s2c)
      /\ Consume(Head(s2c)) /\ inBuf' = <<>> /\ up # "nil"
      /\ UNCHANGED <<cur, kind, up, loss, c2s, sst, scall>>
  BY DEF ReadReply, Inv, Client, Data, serverVars
<1>2. s2c \in Seq(Packets) /\ cur \in Calls
  BY DEF Types, TypeOK
<1> DEFINE p == Head(s2c)
<1>3. /\ 1 \in 1 .. Len(s2c) /\ s2c[1] = p /\ p \in Packets
      /\ \A i \in 1 .. Len(s2c') : i + 1 \in 1 .. Len(s2c) /\ s2c'[i] = s2c[i + 1]
      /\ \A i \in 1 .. Len(s2c) : i = 1 \/ (i - 1 \in 1 .. Len(s2c') /\ s2c'[i - 1] = s2c[i])
  BY <1>1, <1>2, TailPlaces, Zenon
<1>4. /\ Arrives(s2c, pc, cur, up)
      /\ Answering(p) => Arrives(s2c', "return", cur, up)
      /\ ~Answering(p) => pc = "read" /\ Arrives(s2c', pc, cur, up)
  <2>1. Arrives(s2c, pc, cur, up)
    BY DEF Inv, Incoming
  <2> QED
    BY <1>1, <1>2, <2>1, ArrivesAnswer, ArrivesMore
<1> HIDE DEF p
<1>5. Data(p) /\ p.call = cur /\ p.code \in Codes
  BY <1>1, <1>3, <1>4, PacketFacts DEF Arrives, p
<1>6. Answering(p) <=> p.last
  BY <1>5 DEF Answering, Data
<1>7. /\ from' = from \cup {p.call}
      /\ p.last => Finish(p.code)
      /\ ~p.last => UNCHANGED <<out, bad, pc>>
  BY <1>1, Zenon DEF Consume, p
<1>8. Client'
  BY <1>1, <1>5, <1>7 DEF Inv, Client, Finish
<1>9. up = "up" => /\ \A i \in 1 .. Len(c2s) : c2s[i] = Interrupt
                   /\ Serving
  BY <1>3, <1>5 DEF Inv, Live, Serving
<1>10. up = "up" => Outgoing' /\ \A i \in 1 .. Len(c2s) : c2s[i] # Reset
  BY <1>1, <1>2, <1>9, LeavesInterrupts DEF Outgoing
<1>11. /\ (\A i \in 1 .. Len(s2c) : s2c[i] # BreakMark) => (\A i \in 1 .. Len(s2c') : s2c'[i] # BreakMark)
       /\ (\E i \in 1 .. Len(s2c) : s2c[i] = BreakMark) => (\E i \in 1 .. Len(s2c') : s2c'[i] = BreakMark)
       /\ (\A i \in 1 .. Len(s2c) : Data(s2c[i]) /\ ~s2c[i].last)
             => (\A i \in 1 .. Len(s2c') : Data(s2c'[i]) /\ ~s2c'[i].last)
  BY <1>2, <1>3, <1>5, Distinct, Zenon
<1>12. CASE p.last
  <2>1. pc' = "return"
    BY <1>7, <1>12 DEF Finish
  <2>2. Incoming'
    BY <1>1, <1>4, <1>6, <1>12, <2>1 DEF Incoming
  <2>3. up = "up" => Serving'
    BY <1>1, <1>3, <1>9, <1>10, <1>11, <1>12, <2>1 DEF Serving
  <2>4. Ending'
    BY <1>1, <1>5, <1>7, <1>12, FinishEnding
  <2> QED
    BY <1>1, <1>8, <1>10, <2>2, <2>3, <2>4 DEF Inv, Live
<1>13. CASE ~p.last
  <2>1. pc' = "read" /\ pc = "read" /\ UNCHANGED <<out, bad>>
    BY <1>4, <1>6, <1>7, <1>13
  <2>2. Incoming'
    BY <1>1, <1>4, <1>6, <1>13, <2>1 DEF Incoming
  <2>3. up = "up" => Serving'
    BY <1>1, <1>3, <1>9, <1>10, <1>11, <2>1 DEF Serving
  <2>4. Ending'
    BY <1>1, <2>1 DEF Inv, Ending
  <2> QED
    BY <1>1, <1>8, <1>10, <2>2, <2>3, <2>4 DEF Inv, Live
<1> QED
  BY <1>12, <1>13

(* A call that reads a break marker answers it: the server is discarding   *)
(* what it reads until then.                                               *)
LEMMA ReadMarkerStep ==
    ASSUME Types, Inv, ReadMarker
    PROVE  Inv'
<1>1. /\ pc \in {"read", "recover"} /\ s2c # <<>> /\ IsMarker(Head(s2c)) /\ s2c' = Tail(s2c)
      /\ WriteTo(Reset) /\ up # "nil" /\ (pc = "read" => pc' = "marker")
      /\ UNCHANGED <<cur, kind, inBuf, from, out, bad, up, loss, sst, scall>>
  BY DEF ReadMarker, connVars, serverVars
<1>2. s2c \in Seq(Packets) /\ c2s \in Seq(Packets) /\ cur \in Calls /\ Arrives(s2c, pc, cur, up)
  BY DEF Types, TypeOK, Inv, Incoming
<1>3. /\ pc = "read" /\ Head(s2c) = BreakMark /\ Arrives(s2c', "marker", cur, up)
      /\ up # "lost" => s2c' = <<>>
  BY <1>1, <1>2, ArrivesBreak
<1>4. pc' = "marker" /\ Incoming'
  BY <1>1, <1>3 DEF Incoming
<1>5. ASSUME up = "up" PROVE Outgoing' /\ Serving'
  <2>1. c2s' = Append(c2s, Reset) /\ s2c' = <<>>
    BY <1>1, <1>3, <1>5 DEF WriteTo
  <2>2. Leaves(c2s, "read", cur)
    BY <1>3, <1>5 DEF Inv, Live, Outgoing
  <2>3. Leaves(c2s', "marker", cur)
    BY <1>2, <2>1, <2>2, LeavesAppend
  <2>4. /\ c2s'[Len(c2s) + 1] = Reset /\ Len(c2s) + 1 \in 1 .. Len(c2s')
        /\ \A i \in 1 .. Len(c2s) : i \in 1 .. Len(c2s') /\ c2s'[i] = c2s[i]
    BY <1>2, <2>1, CallPackets, AppendPlaces, Zenon
  <2>5. sst = "break"
    <3>1. 1 \in 1 .. Len(s2c) /\ s2c[1] = BreakMark
      BY <1>1, <1>2, <1>3, TailPlaces
    <3> QED
      BY <1>5, <3>1 DEF Inv, Live, Serving
  <2>6. (\A i \in 1 .. Len(c2s') : ~Data(c2s'[i])) => scall = cur
    BY <1>3, <1>5, <2>4 DEF Inv, Live, Serving
  <2>7. Len(s2c') = 0
    BY <2>1
  <2>8. Serving'
    BY <1>1, <1>4, <2>1, <2>4, <2>5, <2>6, <2>7 DEF Serving
  <2> QED
    BY <1>1, <1>4, <2>3, <2>8 DEF Outgoing
<1> QED
  BY <1>1, <1>4, <1>5 DEF Inv, Live, Client, Ending

LEMMA MarkerWriteFailsStep ==
    ASSUME Types, Inv, MarkerWriteFails
    PROVE  Inv'
<1>1. /\ pc \in {"read", "recover"} /\ s2c # <<>> /\ IsMarker(Head(s2c)) /\ s2c' = Tail(s2c)
      /\ up = "lost" /\ Finish("epipe")
      /\ UNCHANGED <<cur, kind, inBuf, from, up, loss>>
  BY DEF MarkerWriteFails
<1>2. s2c \in Seq(Packets) /\ cur \in Calls /\ Arrives(s2c, pc, cur, up)
  BY DEF Types, TypeOK, Inv, Incoming
<1>3. Arrives(s2c', "return", cur, up)
  BY <1>1, <1>2, ArrivesBreak
<1>4. pc' = "return" /\ Incoming'
  BY <1>1, <1>3 DEF Incoming, Finish
<1>5. Ending'
  BY <1>1, FinishEnding
<1> QED
  BY <1>1, <1>4, <1>5 DEF Inv, Live, Client

(* A client that waits for the server's reset marker gets it, and then the *)
(* answer to its call.                                                     *)
LEMMA ReadAfterResetStep ==
    ASSUME "refcursor" \notin Kinds, Types, Inv, ReadAfterReset
    PROVE  Inv'
<1>1. /\ pc = "marker" /\ s2c # <<>> /\ Head(s2c).type # "final" /\ s2c' = Tail(s2c) /\ inBuf = <<>>
      /\ inBuf' = IF Head(s2c).type = "data" THEN Append(inBuf, Head(s2c)) ELSE inBuf
      /\ pc' = "recover" /\ UNCHANGED <<cur, kind, from, out, bad, up, loss, c2s, sst, scall>>
  BY DEF ReadAfterReset, Recovers, Types, TypeOK, Inv, Client, serverVars
<1>2. s2c \in Seq(Packets) /\ cur \in Calls /\ Arrives(s2c, "marker", cur, up)
  BY <1>1 DEF Types, TypeOK, Inv, Incoming
<1>3. Head(s2c) = Reset /\ Arrives(s2c', "recover", cur, up)
  BY <1>1, <1>2, ArrivesReset
<1>4. inBuf' = <<>>
  BY <1>1, <1>3, PacketFacts
<1>5. /\ 1 \in 1 .. Len(s2c) /\ s2c[1] = Reset
      /\ \A i \in 1 .. Len(s2c') : i + 1 \in 1 .. Len(s2c) /\ s2c'[i] = s2c[i + 1]
      /\ \A i \in 1 .. Len(s2c) : i = 1 \/ (i - 1 \in 1 .. Len(s2c') /\ s2c'[i - 1] = s2c[i])
  BY <1>1, <1>2, <1>3, TailPlaces, Zenon
<1>6. ASSUME up = "up" PROVE Outgoing' /\ Serving'
  <2>1. Len(s2c) > 1 /\ Len(s2c) \in Nat /\ Serving
    BY <1>1, <1>2, <1>6, FlightFacts DEF Inv, Live, Serving
  <2>2. 2 \in 1 .. Len(s2c)
    BY <2>1
  <2>3. Data(s2c[2])
    BY <1>2, <1>6, <2>2, Distinct DEF Arrives
  <2>4. \A i \in 1 .. Len(c2s) : c2s[i] = Interrupt
    BY <2>1, <2>2, <2>3 DEF Serving
  <2>5. Outgoing' /\ \A i \in 1 .. Len(c2s) : c2s[i] # Reset
    BY <1>1, <1>2, <2>4, LeavesInterrupts DEF Outgoing
  <2>6. s2c' # <<>>
    BY <1>1, <1>2, <2>1, FlightFacts
  <2>7. /\ (\A i \in 1 .. Len(s2c) : s2c[i] # BreakMark) => (\A i \in 1 .. Len(s2c') : s2c'[i] # BreakMark)
        /\ (\E i \in 1 .. Len(s2c) : s2c[i] = BreakMark) => (\E i \in 1 .. Len(s2c') : s2c'[i] = BreakMark)
    BY <1>2, <1>5, Distinct, Zenon
  <2>8. Serving'
    BY <1>1, <2>1, <2>4, <2>5, <2>6, <2>7 DEF Serving
  <2> QED
    BY <2>5, <2>8
<1> QED
  BY <1>1, <1>3, <1>4, <1>6 DEF Inv, Incoming, Live, Client, Ending

LEMMA ArrivesNothing == \A w, c, u : Arrives(<<>>, w, c, u)
<1>1. Len(<<>>) = 0
  OBVIOUS
<1> QED
  BY <1>1 DEF Arrives

(* The end of the connection, announced or met.                            *)
LEMMA EndStep ==
    ASSUME Types, Inv, ReadFinal \/ ReadFails
    PROVE  Inv'
<1>1. /\ pc \notin {"return", "dropped"} /\ UNCHANGED <<cur, kind, inBuf, from, loss>>
      /\ \/ up' = "nil" /\ s2c' = <<>> /\ Finish("badconn")
         \/ up = "lost" /\ s2c' = <<>> /\ up' = up /\ Finish(loss)
         \/ up = "nil" /\ up' = up /\ s2c' = <<>> /\ Finish("closed")
  BY DEF ReadFinal, ReadFails, Reading, Inv, Client
<1>2. up' # "up" /\ s2c' = <<>> /\ pc' = "return" /\ (up' = "lost" => up = "lost")
  BY <1>1 DEF Finish
<1>3. PICK e \in {"eof", "rst", "closed", "badconn"} : Finish(e)
  BY <1>1 DEF Inv, Client
<1>4. Ending'
  BY <1>1, <1>2, <1>3, FinishEnding
<1>5. Incoming'
  BY <1>2, ArrivesNothing, Zenon DEF Incoming
<1> QED
  BY <1>1, <1>2, <1>4, <1>5 DEF Inv, Live, Client

LEMMA ReturnStep ==
    ASSUME Types, Inv, ReturnCtxErr \/ ReturnOutcome
    PROVE  Inv'
<1>1. /\ pc = "return" /\ pc' \in {"idle", "dropped"} /\ (bad' => pc' = "dropped")
      /\ UNCHANGED <<cur, kind, inBuf, from, out, up, loss, c2s, s2c, sst, scall>>
  BY DEF ReturnCtxErr, ReturnOutcome, ReturnTo, serverVars
<1>2. cur \in Calls
  BY DEF Types, TypeOK
<1>3. Incoming'
  BY <1>1, ArrivesQuiet DEF Inv, Incoming
<1>4. up = "up" => \A i \in 1 .. Len(c2s) : c2s[i] = Interrupt
  BY <1>1, <1>2, LeavesQuiet DEF Inv, Live, Outgoing
<1>5. up = "up" => Outgoing'
  BY <1>1, <1>2, <1>4, LeavesInterrupts DEF Outgoing
<1>6. up = "up" => Serving'
  BY <1>1 DEF Inv, Live, Serving
<1> QED
  BY <1>1, <1>3, <1>5, <1>6 DEF Inv, Live, Client, Ending

(* A packet that is no request and no reset marker is added to or taken    *)
(* from what is on its way to the server: nothing the server waits for.    *)
SameRequests(s, t) ==
    /\ (\A i \in 1 .. Len(t) : ~Data(t[i])) => (\A i \in 1 .. Len(s) : ~Data(s[i]))
    /\ (\E i \in 1 .. Len(t) : t[i] = Reset) <=> (\E i \in 1 .. Len(s) : s[i] = Reset)
    /\ (\A i \in 1 .. Len(s) : s[i] = Interrupt) => (\A i \in 1 .. Len(t) : t[i] = Interrupt)

LEMMA SameRequestsAppend ==
    ASSUME NEW s \in Seq(Packets), NEW c \in Calls
    PROVE  SameRequests(s, Append(s, Interrupt))
<1> DEFINE t == Append(s, Interrupt)
<1>1. /\ t[Len(s) + 1] = Interrupt
      /\ \A i \in 1 .. Len(s) : i \in 1 .. Len(t) /\ t[i] = s[i]
      /\ \A i \in 1 .. Len(t) : i \in 1 .. Len(s) \/ i = Len(s) + 1
  BY CallPackets, AppendPlaces, Zenon
<1> HIDE DEF t
<1>2. SameRequests(s, t)
  BY <1>1, Distinct, Zenon DEF SameRequests
<1> QED
  BY <1>2 DEF t

LEMMA SameRequestsTail ==
    ASSUME NEW s \in Seq(Packets), NEW c \in Calls, s # <<>>, Head(s) = Interrupt
    PROVE  SameRequests(s, Tail(s))
<1> DEFINE t == Tail(s)
<1>1. /\ 1 \in 1 .. Len(s) /\ s[1] = Interrupt
      /\ \A i \in 1 .. Len(t) : i + 1 \in 1 .. Len(s) /\ t[i] = s[i + 1]
      /\ \A i \in 1 .. Len(s) : i = 1 \/ (i - 1 \in 1 .. Len(t) /\ t[i - 1] = s[i])
  BY TailPlaces, Zenon
<1> HIDE DEF t
<1>2. SameRequests(s, t)
  BY <1>1, Distinct, Zenon DEF SameRequests
<1> QED
  BY <1>2 DEF t

(* The interrupt of a watchdog, whenever it is written.                    *)
LEMMA BreakStep ==
    ASSUME Types, Inv, NEW c \in Calls, BreakConnection(c)
    PROVE  Inv'
<1>1. /\ UNCHANGED <<pc, cur, kind, inBuf, from, out, bad, up, loss, s2c, sst, scall>>
      /\ c2s' = c2s \/ c2s' = Append(c2s, Interrupt)
  BY DEF BreakConnection, WriteTo, clientVars, connVars, serverVars
<1>2. c2s \in Seq(Packets) /\ cur \in Calls
  BY DEF Types, TypeOK
<1>3. CASE c2s' = c2s
  BY <1>1, <1>3, IdleStep
<1>4. CASE c2s' = Append(c2s, Interrupt)
  <2>1. Incoming' /\ Client' /\ Ending'
    BY <1>1 DEF Inv, Incoming, Client, Ending
  <2>2. up = "up" => Outgoing'
    BY <1>1, <1>2, <1>4, LeavesAppend DEF Inv, Live, Outgoing
  <2>3. SameRequests(c2s, c2s')
    BY <1>2, <1>4, SameRequestsAppend
  <2>4. up = "up" => Serving'
    BY <1>1, <2>3, Zenon DEF Inv, Live, Serving, SameRequests
  <2> QED
    BY <1>1, <2>1, <2>2, <2>4 DEF Inv, Live
<1> QED
  BY <1>1, <1>3, <1>4

(* While the connection is up, a server that has a request to read and is  *)
(* not discarding has sent nothing that is not read.                       *)
LEMMA NothingSent ==
    ASSUME Types, Inv, up = "up", c2s # <<>>, Data(Head(c2s)), sst \in {"idle", "recv"}
    PROVE  s2c = <<>> /\ pc \in {"write", "read"} /\ \A i \in 1 .. Len(c2s) : c2s[i] # Reset
<1>1. s2c \in Seq(Packets) /\ c2s \in Seq(Packets) /\ cur \in Calls
  BY DEF Types, TypeOK
<1>2. 1 \in 1 .. Len(c2s) /\ c2s[1] = Head(c2s) /\ c2s[1] # Interrupt
  BY <1>1, TailPlaces, Distinct
<1>3. Serving /\ Arrives(s2c, pc, cur, "up") /\ Leaves(c2s, pc, cur)
  BY DEF Inv, Live, Incoming, Outgoing
<1>4. \A i \in 1 .. Len(s2c) : ~Data(s2c[i]) /\ s2c[i] # BreakMark /\ s2c[i] # Final
  BY <1>2, <1>3 DEF Serving, Arrives
<1>5. \A i \in 1 .. Len(s2c) : s2c[i] = Reset /\ i = 1 /\ pc = "marker"
  BY <1>3, <1>4, Zenon DEF Arrives
<1>6. Len(s2c) \in Nat /\ (s2c = <<>> <=> Len(s2c) = 0)
  BY <1>1, FlightFacts
<1>7. s2c = <<>>
  <2>1. SUFFICES ASSUME s2c # <<>> PROVE FALSE
    OBVIOUS
  <2>2. 1 \in 1 .. Len(s2c)
    BY <1>6, <2>1
  <2>3. pc = "marker"
    BY <1>5, <2>2
  <2>4. Len(s2c) > 1
    BY <1>3, <2>1, <2>3 DEF Serving
  <2>5. 2 \in 1 .. Len(s2c)
    BY <1>6, <2>4
  <2> QED
    BY <1>5, <2>5
<1>8. \A i \in 1 .. Len(c2s) : c2s[i] # Reset
  BY <1>3 DEF Serving
<1>9. pc # "marker"
  BY <1>3, <1>7, <1>8 DEF Serving
<1>10. pc \in {"write", "read", "marker"}
  BY <1>2, <1>3 DEF Leaves
<1> QED
  BY <1>7, <1>8, <1>9, <1>10

LEMMA ServerReceivesStep ==
    ASSUME Types, Inv, ServerReceives
    PROVE  Inv'
<1>1. /\ up = "up" /\ sst # "exec" /\ c2s # <<>> /\ Data(Head(c2s)) /\ c2s' = Tail(c2s)
      /\ scall' = Head(c2s).call
      /\ UNCHANGED <<pc, cur, kind, inBuf, from, out, bad, up, loss, s2c>>
  BY DEF ServerReceives, ServerUp, Data, clientVars, connVars
<1>2. s2c \in Seq(Packets) /\ c2s \in Seq(Packets) /\ cur \in Calls
  BY DEF Types, TypeOK
<1>3. Serving /\ Leaves(c2s, pc, cur)
  BY <1>1 DEF Inv, Live, Outgoing
<1>4. /\ Leaves(c2s', pc, cur) /\ Head(c2s) \in {Request(cur, TRUE), Request(cur, FALSE)}
      /\ Head(c2s) = Request(cur, TRUE) =>
            pc # "write" /\ \A i \in 1 .. Len(c2s') : c2s'[i] # Reset => c2s'[i] = Interrupt
  BY <1>1, <1>2, <1>3, LeavesTail, Distinct
<1>5. /\ scall' = cur
      /\ Head(c2s).last => Head(c2s) = Request(cur, TRUE)
  <2>1. /\ Request(cur, TRUE).call = cur /\ Request(cur, FALSE).call = cur
        /\ ~Request(cur, FALSE).last
    BY DEF Request
  <2> QED
    BY <1>1, <1>4, <2>1, Zenon
<1>6. /\ 1 \in 1 .. Len(c2s) /\ c2s[1] = Head(c2s)
      /\ \A i \in 1 .. Len(c2s') : i + 1 \in 1 .. Len(c2s) /\ c2s'[i] = c2s[i + 1]
      /\ \A i \in 1 .. Len(c2s) : i = 1 \/ (i - 1 \in 1 .. Len(c2s') /\ c2s'[i - 1] = c2s[i])
  BY <1>1, <1>2, TailPlaces, Zenon
<1>7. (\E i \in 1 .. Len(c2s) : c2s[i] = Reset) <=> (\E i \in 1 .. Len(c2s') : c2s'[i] = Reset)
  <2>1. c2s[1] # Reset
    BY <1>1, <1>2, <1>6, Distinct, Zenon
  <2>2. ASSUME NEW i \in 1 .. Len(c2s), c2s[i] = Reset PROVE \E j \in 1 .. Len(c2s') : c2s'[j] = Reset
    BY <1>6, <2>1, <2>2, Zenon
  <2>3. ASSUME NEW i \in 1 .. Len(c2s'), c2s'[i] = Reset PROVE \E j \in 1 .. Len(c2s) : c2s[j] = Reset
    BY <1>6, <2>3, Zenon
  <2> QED
    BY <2>2, <2>3, Zenon
<1>8. \A i \in 1 .. Len(s2c) : ~Data(s2c[i])
  <2>1. c2s[1] # Interrupt
    BY <1>1, <1>2, <1>6, Distinct, Zenon
  <2> QED
    BY <1>3, <1>6, <2>1, Zenon DEF Serving
<1>9. CASE sst = "break"
  <2>1. sst' = "break"
    BY <1>9 DEF ServerReceives
  <2>2. Serving'
    BY <1>1, <1>3, <1>5, <1>7, <1>8, <1>9, <2>1 DEF Serving
  <2> QED
    BY <1>1, <1>4, <2>2 DEF Inv, Live, Incoming, Outgoing, Client, Ending
<1>10. CASE sst # "break"
  <2>1. /\ sst' \in {"exec", "recv"} /\ (sst' = "exec" => Head(c2s).last)
    BY <1>10, Zenon DEF ServerReceives
  <2>2. s2c = <<>> /\ pc \in {"write", "read"} /\ \A i \in 1 .. Len(c2s) : c2s[i] # Reset
    <3>1. sst \in {"idle", "recv"}
      BY <1>1, <1>10 DEF Types, TypeOK
    <3> QED
      BY <1>1, <3>1, NothingSent
  <2>3. sst' = "exec" => pc = "read" /\ \A i \in 1 .. Len(c2s') : c2s'[i] = Interrupt
    BY <1>4, <1>5, <1>7, <2>1, <2>2
  <2>4. Len(s2c) = 0
    BY <2>2
  <2>5. Serving'
    BY <1>1, <1>5, <1>7, <2>1, <2>2, <2>3, <2>4 DEF Serving
  <2> QED
    BY <1>1, <1>4, <2>5 DEF Inv, Live, Incoming, Outgoing, Client, Ending
<1> QED
  BY <1>9, <1>10

LEMMA ServerInterruptedStep ==
    ASSUME Types, Inv, ServerInterrupted
    PROVE  Inv'
<1>1. /\ up = "up" /\ UNCHANGED <<pc, cur, kind, inBuf, from, out, bad, up, loss, scall>>
      /\ c2s' = c2s \/ (c2s # <<>> /\ Head(c2s) = Interrupt /\ c2s' = Tail(c2s))
      /\ \/ sst # "break" /\ sst' = "break" /\ s2c' = Append(s2c, BreakMark)
         \/ UNCHANGED <<sst, s2c>>
  BY DEF ServerInterrupted, ServerUp, clientVars, connVars
<1>2. s2c \in Seq(Packets) /\ c2s \in Seq(Packets) /\ cur \in Calls
  BY DEF Types, TypeOK
<1>3. Serving /\ Leaves(c2s, pc, cur) /\ Arrives(s2c, pc, cur, "up")
  BY <1>1 DEF Inv, Live, Outgoing, Incoming
<1>4. Leaves(c2s', pc, cur)
  BY <1>1, <1>2, <1>3, LeavesTail
<1>5. SameRequests(c2s, c2s')
  <2>1. CASE c2s' = c2s
    BY <2>1 DEF SameRequests
  <2>2. CASE c2s # <<>> /\ Head(c2s) = Interrupt /\ c2s' = Tail(c2s)
    BY <1>2, <2>2, SameRequestsTail
  <2> QED
    BY <1>1, <2>1, <2>2
<1>6. Outgoing' /\ Client' /\ Ending'
  BY <1>1, <1>4 DEF Inv, Outgoing, Client, Ending
<1>7. CASE UNCHANGED <<sst, s2c>>
  <2>1. Serving'
    BY <1>1, <1>3, <1>5, <1>7, Zenon DEF Serving, SameRequests
  <2> QED
    BY <1>1, <1>3, <1>6, <1>7, <2>1 DEF Inv, Live, Incoming
<1>8. CASE sst # "break" /\ sst' = "break" /\ s2c' = Append(s2c, BreakMark)
  <2>1. /\ \A i \in 1 .. Len(s2c) : s2c[i] # BreakMark
        /\ \A i \in 1 .. Len(c2s) : c2s[i] # Reset
    BY <1>3, <1>8 DEF Serving
  <2>2. (pc = "marker" => Len(s2c) > 1) /\ (pc = "recover" => s2c # <<>>)
    BY <1>3, <2>1 DEF Serving
  <2>3. Arrives(s2c', pc, cur, "up")
    BY <1>2, <1>3, <1>8, <2>1, <2>2, ArrivesAddBreak
  <2>4. /\ s2c'[Len(s2c) + 1] = BreakMark /\ Len(s2c) + 1 \in 1 .. Len(s2c')
        /\ \A i \in 1 .. Len(s2c) : s2c'[i] = s2c[i]
        /\ \A i \in 1 .. Len(s2c') : i \in 1 .. Len(s2c) \/ i = Len(s2c) + 1
    BY <1>2, <1>8, CallPackets, AppendPlaces, Zenon
  <2>5. Len(s2c') = Len(s2c) + 1 /\ s2c' # <<>> /\ Len(s2c) \in Nat
    <3>1. BreakMark \in Packets
      BY PacketFacts, Zenon
    <3> QED
      BY <1>2, <1>8, <3>1
  <2>6. \A i \in 1 .. Len(s2c') : Data(s2c'[i]) => \A k \in 1 .. Len(c2s) : c2s[k] = Interrupt
    BY <1>2, <1>3, <2>4, Distinct, Zenon DEF Serving
  <2>7. pc = "marker" => Len(s2c') > 1
    BY <2>2, <2>5
  <2>8. /\ \A i \in 1 .. Len(c2s') : c2s'[i] # Reset
        /\ pc \in {"read", "marker"} /\ (\A i \in 1 .. Len(c2s') : ~Data(c2s'[i])) => scall = cur
        /\ \A i \in 1 .. Len(s2c') : Data(s2c'[i]) => \A k \in 1 .. Len(c2s') : c2s'[k] = Interrupt
    BY <1>3, <1>5, <2>1, <2>6, Zenon DEF Serving, SameRequests
  <2>9. Serving'
    <3>1. \E i \in 1 .. Len(s2c') : s2c'[i] = BreakMark
      BY <2>4
    <3> QED
      BY <1>1, <1>8, <2>5, <2>7, <2>8, <3>1, Zenon DEF Serving
  <2> QED
    BY <1>1, <1>6, <2>3, <2>9 DEF Inv, Live, Incoming
<1> QED
  BY <1>1, <1>7, <1>8

LEMMA ServerResetStep ==
    ASSUME Types, Inv, ServerReset
    PROVE  Inv'
<1>1. /\ up = "up" /\ c2s # <<>> /\ Head(c2s) = Reset /\ c2s' = Tail(c2s)
      /\ UNCHANGED <<pc, cur, kind, inBuf, from, out, bad, up, loss, scall>>
      /\ sst = "break" => s2c' = s2c \o <<Reset, Reply(scall, TRUE, "cancelled")>> /\ sst' = "idle"
  BY DEF ServerReset, ServerUp, clientVars, connVars
<1>2. s2c \in Seq(Packets) /\ c2s \in Seq(Packets) /\ cur \in Calls
  BY DEF Types, TypeOK
<1>3. Serving /\ Leaves(c2s, pc, cur)
  BY <1>1 DEF Inv, Live, Outgoing
<1>4. pc = "marker" /\ \A i \in 1 .. Len(c2s') : c2s'[i] = Interrupt
  BY <1>1, <1>2, <1>3, LeavesTail
<1>5. /\ 1 \in 1 .. Len(c2s) /\ c2s[1] = Reset
      /\ \A i \in 1 .. Len(c2s) : i = 1 \/ (i - 1 \in 1 .. Len(c2s') /\ c2s'[i - 1] = c2s[i])
  BY <1>1, <1>2, TailPlaces, Zenon
<1>6. s2c = <<>> /\ sst = "break"
  BY <1>3, <1>5 DEF Serving
<1>7. \A i \in 1 .. Len(c2s) : ~Data(c2s[i])
  BY <1>2, <1>4, <1>5, Distinct, Zenon
<1>8. scall = cur
  BY <1>3, <1>4, <1>7 DEF Serving
<1> DEFINE q == Reply(cur, TRUE, "cancelled")
<1>9. s2c' = <<Reset, q>> /\ sst' = "idle"
  <2>1. <<>> \o <<Reset, q>> = <<Reset, q>>
    OBVIOUS
  <2> QED
    BY <1>1, <1>6, <1>8, <2>1, Zenon
<1>10. Incoming'
  <2>1. Arrives(<<Reset, q>>, "marker", cur, "up")
    BY <1>2, ArrivesPair
  <2> QED
    BY <1>1, <1>4, <1>9, <2>1, Zenon DEF Incoming
<1>11. q # BreakMark
  BY DEF Reply, BreakMark
<1> HIDE DEF q
<1>12. /\ Len(s2c') = 2 /\ s2c' # <<>> /\ \A i \in 1 .. Len(s2c') : s2c'[i] # BreakMark
  <2>1. Len(s2c') = 2 /\ s2c'[1] = Reset /\ s2c'[2] = q /\ s2c' # <<>>
    BY <1>9
  <2>2. \A i \in 1 .. Len(s2c') : i = 1 \/ i = 2
    BY <2>1
  <2> QED
    BY <1>2, <1>11, <2>1, <2>2, Distinct, Zenon
<1>13. Outgoing' /\ \A i \in 1 .. Len(c2s') : c2s'[i] # Reset
  BY <1>1, <1>2, <1>4, LeavesInterrupts DEF Outgoing
<1>14. Serving'
  BY <1>1, <1>4, <1>8, <1>9, <1>12, <1>13 DEF Serving
<1> QED
  BY <1>1, <1>10, <1>13, <1>14 DEF Inv, Live, Client, Ending

LEMMA ServerRepliesStep ==
    ASSUME Types, Inv, ServerReplies
    PROVE  Inv'
<1>1. /\ up = "up" /\ sst = "exec"
      /\ UNCHANGED <<pc, cur, kind, inBuf, from, out, bad, up, loss, c2s, scall>>
      /\ \/ s2c' = Append(s2c, Reply(scall, FALSE, "ok")) /\ sst' = "exec"
         \/ \E e \in {"ok", "fatal"} : s2c' = Append(s2c, Reply(scall, TRUE, e)) /\ sst' = "idle"
  BY DEF ServerReplies, ServerUp, clientVars, connVars
<1>2. s2c \in Seq(Packets) /\ c2s \in Seq(Packets) /\ cur \in Calls
  BY DEF Types, TypeOK
<1>3. Serving /\ Leaves(c2s, pc, cur) /\ Arrives(s2c, pc, cur, "up")
  BY <1>1 DEF Inv, Live, Outgoing, Incoming
<1>4. /\ scall = cur /\ pc = "read" /\ \A i \in 1 .. Len(c2s) : c2s[i] = Interrupt
      /\ \A i \in 1 .. Len(s2c) : Data(s2c[i]) /\ ~s2c[i].last
  BY <1>1, <1>3 DEF Serving
<1>5. PICK b \in BOOLEAN, e \in Codes :
         s2c' = Append(s2c, Reply(cur, b, e)) /\ sst' = (IF b THEN "idle" ELSE "exec")
  <2>1. {"ok", "fatal"} \subseteq Codes
    BY DEF Codes
  <2> QED
    BY <1>1, <1>4, <2>1, Zenon
<1>6. Arrives(s2c', "read", cur, "up")
  BY <1>2, <1>3, <1>4, <1>5, ArrivesAddReply
<1> DEFINE p == Reply(cur, b, e)
<1>7. p \in Packets /\ Data(p) /\ (p.last <=> b)
  BY <1>2, <1>5, PacketFacts DEF Data
<1>8. /\ s2c'[Len(s2c) + 1] = p
      /\ \A i \in 1 .. Len(s2c) : s2c'[i] = s2c[i]
      /\ \A i \in 1 .. Len(s2c') : i \in 1 .. Len(s2c) \/ i = Len(s2c) + 1
  <2>1. s2c' = Append(s2c, p)
    BY <1>5
  <2> HIDE DEF p
  <2> QED
    BY <1>2, <1>7, <2>1, AppendPlaces, Zenon
<1> HIDE DEF p
<1>9. \A i \in 1 .. Len(s2c') : Data(s2c'[i]) /\ (~b => ~s2c'[i].last)
  BY <1>4, <1>7, <1>8, Zenon
<1>10. \A i \in 1 .. Len(s2c') : s2c'[i] # BreakMark
  BY <1>2, <1>9, Distinct, Zenon
<1>11. \A i \in 1 .. Len(c2s) : c2s[i] # Reset
  BY <1>2, <1>4, LeavesInterrupts
<1>12. sst' \in {"idle", "exec"} /\ (sst' = "exec" => ~b)
  BY <1>5
<1>13. Serving'
  BY <1>1, <1>4, <1>9, <1>10, <1>11, <1>12 DEF Serving
<1> QED
  BY <1>1, <1>3, <1>4, <1>6, <1>13 DEF Inv, Live, Incoming, Outgoing, Client, Ending

LEMMA LoseStep ==
    ASSUME Types, Inv, LoseConnection
    PROVE  Inv'
<1>1. /\ up = "up" /\ up' = "lost" /\ UNCHANGED <<pc, cur, kind, inBuf, from, out, bad>>
      /\ \/ s2c' = Append(s2c, Final)
         \/ \E n \in 0 .. Len(s2c) : s2c' = SubSeq(s2c, 1, n)
  BY DEF LoseConnection, ServerUp, clientVars
<1>2. loss' \in {"eof", "rst"}
  BY EnvironmentAssumption DEF LoseConnection
<1>3. s2c \in Seq(Packets) /\ cur \in Calls /\ Arrives(s2c, pc, cur, "up")
  BY <1>1 DEF Types, TypeOK, Inv, Incoming
<1>4. Arrives(s2c', pc, cur, "lost")
  BY <1>1, <1>3, ArrivesCut, ArrivesEnd
<1> QED
  BY <1>1, <1>2, <1>4 DEF Inv, Live, Incoming, Client, Ending

LEMMA InvStep ==
    ASSUME "refcursor" \notin Kinds
    PROVE  Types /\ Inv /\ [Next]_vars => Inv'
<1> SUFFICES ASSUME Types, Inv, [Next]_vars PROVE Inv'
  OBVIOUS
<1>1. CASE UNCHANGED vars
  BY <1>1, IdleStep DEF vars
<1>2. CASE Dropped
  BY <1>1, <1>2 DEF Dropped
<1>3. CASE ClientStep
  BY <1>3, WriteRequestStep, WriteFailsStep, ReadReplyStep, ReadMarkerStep, MarkerWriteFailsStep,
     ReadAfterResetStep, EndStep, ReturnStep, Zenon DEF ClientStep
<1>4. ASSUME NEW c \in Calls, Cancel(c) \/ WatchdogStep(c) PROVE Inv'
  <2>1. CASE BreakConnection(c)
    BY <2>1, BreakStep
  <2>2. CASE Cancel(c) \/ WatchdogDone(c) \/ WatchdogFires(c) \/ SetBreak(c)
    <3>1. UNCHANGED <<pc, cur, kind, inBuf, from, out, bad, up, loss, c2s, s2c, sst, scall>>
      BY <2>2 DEF Cancel, WatchdogDone, WatchdogFires, SetBreak, clientVars, connVars, serverVars
    <3> QED
      BY <3>1, IdleStep
  <2> QED
    BY <1>4, <2>1, <2>2, Zenon DEF WatchdogStep
<1>5. CASE ServerReacts \/ ServerReplies \/ LoseConnection
  BY <1>5, ServerReceivesStep, ServerInterruptedStep, ServerResetStep, ServerRepliesStep, LoseStep, Zenon
     DEF ServerReacts
<1> QED
  BY <1>1, <1>2, <1>3, <1>4, <1>5, StartStep, Zenon DEF Next

LEMMA Invariance ==
    ASSUME "refcursor" \notin Kinds
    PROVE  Spec => [](Types /\ Inv)
BY TypesInit, TypesStep, InvInit, InvStep, PTL DEF Spec

(* A call consumes only the reply to its own request, however many         *)
(* watchdogs interrupt whichever call is under way, in band or out of      *)
(* band: session.read and the read after ErrConnReset stay in step with    *)
(* the server.  RefCursor.Query, which does not read on after              *)
(* ErrConnReset, is excluded.                                              *)
THEOREM RepliesAreOwn ==
    ASSUME "refcursor" \notin Kinds
    PROVE  Spec => []OwnReply
<1>1. Inv => OwnReply
  BY DEF Inv, Client, OwnReply
<1> QED
  BY <1>1, Invariance, PTL

(* A connection that goes back to the pool while it is up owes nothing to  *)
(* a call that has returned; at most the break marker that answers a late  *)
(* interrupt is waiting.                                                   *)
THEOREM PoolIsClean ==
    ASSUME "refcursor" \notin Kinds
    PROVE  Spec => []PooledStreamClean
<1>1. ASSUME Types, Inv, pc = "idle", up = "up"
      PROVE  /\ \A p \in PacketsIn(s2c) : p = BreakMark
             /\ \A p \in PacketsIn(c2s) : p = Interrupt
             /\ sst \in {"idle", "break"}
             /\ Len(s2c) = (IF sst = "break" THEN 1 ELSE 0)
  <2>1. s2c \in Seq(Packets) /\ cur \in Calls /\ Len(s2c) \in Nat
    BY <1>1, FlightFacts DEF Types, TypeOK
  <2>2. Serving /\ Leaves(c2s, "idle", cur) /\ Arrives(s2c, "idle", cur, "up")
    BY <1>1 DEF Inv, Live, Outgoing, Incoming
  <2>3. \A i \in 1 .. Len(c2s) : c2s[i] = Interrupt
    BY <2>1, <2>2, LeavesQuiet
  <2>4. \A i \in 1 .. Len(s2c) : s2c[i] = BreakMark
    BY <2>2 DEF Arrives
  <2>5. sst \in {"idle", "break"}
    BY <1>1, <2>2 DEF Types, TypeOK, Serving
  <2>6. sst = "break" <=> s2c # <<>>
    <3>1. s2c # <<>> => 1 \in 1 .. Len(s2c)
      BY <2>1
    <3>2. s2c # <<>> => sst = "break"
      BY <2>2, <2>4, <3>1 DEF Serving
    <3>3. sst = "break" => \E i \in 1 .. Len(s2c) : s2c[i] = BreakMark
      BY <1>1, <2>2 DEF Serving
    <3>4. s2c = <<>> => Len(s2c) = 0
      BY <2>1
    <3>5. (\E i \in 1 .. Len(s2c) : s2c[i] = BreakMark) => Len(s2c) # 0
      BY <2>1
    <3> QED
      BY <3>2, <3>3, <3>4, <3>5, Zenon
  <2>7. ~(Len(s2c) > 1)
    <3>1. Len(s2c) > 1 => 1 \in 1 .. Len(s2c) /\ 2 \in 1 .. Len(s2c) /\ 1 < 2
      BY <2>1
    <3>2. BreakMark # Final
      BY <2>1, Distinct
    <3> QED
      BY <2>2, <2>4, <3>1, <3>2, Zenon DEF Arrives
  <2>8. Len(s2c) = (IF sst = "break" THEN 1 ELSE 0)
    BY <2>1, <2>6, <2>7
  <2> QED
    BY <2>3, <2>4, <2>5, <2>8 DEF PacketsIn
<1>2. Types /\ Inv => PooledStreamClean
  BY <1>1 DEF PooledStreamClean
<1> QED
  BY <1>2, Invariance, PTL

-----------------------------------------------------------------------------
(* The contract of a pooled connection.                                    *)

Returning == pc = "return" /\ out \in Codes

(* The answer that is due is the one packet in flight that ends a reply.   *)
AnswerFacts ==
    /\ Returning => AnswerDue = out
    /\ ~Returning => /\ (\A i \in 1 .. Len(s2c) : ~Answering(s2c[i])) => AnswerDue = "none"
                     /\ \A i \in 1 .. Len(s2c) : Answering(s2c[i]) => AnswerDue = s2c[i].code

LEMMA AnswerIs == Types /\ Inv => AnswerFacts
<1> SUFFICES ASSUME Types, Inv PROVE AnswerFacts
  OBVIOUS
<1>1. s2c \in Seq(Packets) /\ cur \in Calls /\ inBuf = <<>> /\ Arrives(s2c, pc, cur, up)
  BY DEF Types, TypeOK, Inv, Client, Incoming
<1>2. Returning => AnswerDue = out
  BY DEF Returning, AnswerDue
<1>3. PacketsIn(inBuf) = {}
  <2>1. Len(inBuf) = 0
    BY <1>1
  <2> QED
    BY <2>1 DEF PacketsIn
<1>4. Due = {p \in PacketsIn(s2c) : Answering(p)}
  BY <1>3 DEF Due, Answering
<1>5. ASSUME ~Returning, \A i \in 1 .. Len(s2c) : ~Answering(s2c[i])
      PROVE  AnswerDue = "none"
  <2>1. Due = {}
    BY <1>4, <1>5, Zenon DEF PacketsIn
  <2> QED
    BY <1>5, <2>1, Zenon DEF AnswerDue, Returning
<1>6. ASSUME ~Returning, NEW i \in 1 .. Len(s2c), Answering(s2c[i])
      PROVE  AnswerDue = s2c[i].code
  <2>1. \A j \in 1 .. Len(s2c) : Answering(s2c[j]) => s2c[j] = s2c[i]
    <3> SUFFICES ASSUME NEW j \in 1 .. Len(s2c), Answering(s2c[j]), j # i PROVE FALSE
      OBVIOUS
    <3>1. i < j \/ j < i
      OBVIOUS
    <3>2. \A p \in {BreakMark, Final} : ~Answering(p)
      BY <1>1, Distinct
    <3> QED
      BY <1>1, <1>6, <3>1, <3>2, Zenon DEF Arrives
  <2>2. s2c[i] \in Due /\ \A p \in Due : p = s2c[i]
    BY <1>4, <1>6, <2>1, Zenon DEF PacketsIn
  <2>3. Due # {} /\ (CHOOSE p \in Due : TRUE) = s2c[i]
    BY <2>2, Zenon
  <2>4. \A p \in Due : p.call = cur
    <3>1. s2c[i].call = cur
      BY <1>1, <1>6, Distinct DEF Arrives
    <3> QED
      BY <2>2, <3>1, Zenon
  <2> QED
    BY <1>6, <2>3, <2>4, Zenon DEF AnswerDue, Returning
<1> QED
  BY <1>2, <1>5, <1>6, Zenon DEF AnswerFacts

LEMMA AnswerIsNext == Types' /\ Inv' => AnswerFacts'
BY AnswerIs, PTL

(* The answer that is due stays the same when the packets that end a reply *)
(* do.                                                                     *)
LEMMA SameAnswer ==
    ASSUME Types, Inv, Types', Inv', ~Returning, ~Returning',
           \A i \in 1 .. Len(s2c) : Answering(s2c[i]) => \E j \in 1 .. Len(s2c') : s2c'[j] = s2c[i],
           \A j \in 1 .. Len(s2c') : Answering(s2c'[j]) => \E i \in 1 .. Len(s2c) : s2c[i] = s2c'[j]
    PROVE  AnswerDue' = AnswerDue
<1>1. AnswerFacts /\ AnswerFacts'
  BY AnswerIs, AnswerIsNext
<1>2. CASE \E i \in 1 .. Len(s2c) : Answering(s2c[i])
  <2>1. PICK i \in 1 .. Len(s2c) : Answering(s2c[i])
    BY <1>2
  <2>2. PICK j \in 1 .. Len(s2c') : s2c'[j] = s2c[i]
    BY <2>1
  <2>3. AnswerDue = s2c[i].code
    BY <1>1, <2>1, Zenon DEF AnswerFacts
  <2>4. AnswerDue' = s2c'[j].code
    BY <1>1, <2>1, <2>2, Zenon DEF AnswerFacts
  <2> QED
    BY <2>2, <2>3, <2>4
<1>3. CASE \A i \in 1 .. Len(s2c) : ~Answering(s2c[i])
  <2>1. \A j \in 1 .. Len(s2c') : ~Answering(s2c'[j])
    BY <1>3, Zenon
  <2> QED
    BY <1>1, <1>3, <2>1, Zenon DEF AnswerFacts
<1> QED
  BY <1>2, <1>3

(* A step the pool does not see.                                           *)
LEMMA Unseen ==
    ASSUME (pc \notin {"idle", "dropped"} /\ pc' \notin {"idle", "dropped"}) \/ pc' = pc,
           cur' = cur, ctx' = ctx, res' = res, up' = "up" <=> up = "up", AnswerDue' = AnswerDue
    PROVE  UNCHANGED Pooled!vars
<1>1. (IF pc \in {"idle", "dropped"} THEN pc ELSE "busy")' = (IF pc \in {"idle", "dropped"} THEN pc ELSE "busy")
  OBVIOUS
<1>2. (up # "up")' = (up # "up")
  BY Zenon
<1>3. [c \in Calls |-> ctx[c] = "cancelled"]' = [c \in Calls |-> ctx[c] = "cancelled"]
  BY Zenon
<1> QED
  BY <1>1, <1>2, <1>3, Zenon DEF Pooled!vars

IInv == Types /\ Inv

LEMMA PooledInit == Init => Pooled!Init
<1> SUFFICES ASSUME Init PROVE Pooled!Init
  OBVIOUS
<1>1. Len(inBuf) = 0 /\ Len(s2c) = 0
  BY DEF Init
<1>2. Due = {}
  BY <1>1 DEF Due, PacketsIn
<1>3. AnswerDue = "none"
  BY <1>2, Zenon DEF AnswerDue, Init
<1>4. [c \in Calls |-> ctx[c] = "cancelled"] = [c \in Calls |-> FALSE]
  BY DEF Init
<1>5. (up # "up") = FALSE
  BY DEF Init
<1> QED
  BY <1>3, <1>4, <1>5, Zenon DEF Init, Pooled!Init

LEMMA PooledStart ==
    ASSUME IInv, IInv', NEW c \in Calls, NEW k \in Kinds, StartCall(c, k)
    PROVE  Pooled!Start(c)
<1>1. /\ pc = "idle" /\ pc' = "write" /\ cur' = c
      /\ UNCHANGED <<up, s2c>>
      /\ res' = [res EXCEPT ![c] = "none"]
      /\ ctx' = [ctx EXCEPT ![c] = "live"]
  BY DEF StartCall, connVars
<1>2. \A i \in 1 .. Len(s2c) : ~Data(s2c[i])
  BY <1>1, ArrivesQuiet DEF IInv, Inv, Incoming
<1>3. \A i \in 1 .. Len(s2c) : ~Answering(s2c[i])
  BY <1>2, Distinct, Zenon
<1>4. AnswerDue = "none"
  BY <1>1, <1>3, AnswerIs DEF AnswerFacts, Returning, IInv
<1>5. AnswerDue' = "none"
  BY <1>1, <1>3, AnswerIsNext DEF AnswerFacts, Returning, IInv
<1>6. [d \in Calls |-> ctx[d] = "cancelled"]' = [[d \in Calls |-> ctx[d] = "cancelled"] EXCEPT ![c] = FALSE]
  <2>1. ctx \in [Calls -> {"live", "cancelled"}]
    BY DEF IInv, Types, TypeOK
  <2>2. \A d \in Calls : (ctx'[d] = "cancelled") = (IF d = c THEN FALSE ELSE ctx[d] = "cancelled")
    BY <1>1, <2>1
  <2> QED
    BY <2>2, Zenon
<1> QED
  BY <1>1, <1>4, <1>5, <1>6, Zenon DEF Pooled!Start

LEMMA PooledCancel ==
    ASSUME IInv, IInv', NEW c \in Calls, Cancel(c)
    PROVE  Pooled!Cancel
<1>1. /\ c = cur /\ pc \notin {"idle", "dropped"} /\ ctx' = [ctx EXCEPT ![c] = "cancelled"]
      /\ UNCHANGED <<pc, cur, res, up, s2c, out, inBuf>>
  BY DEF Cancel, clientVars, connVars
<1>2. AnswerDue' = AnswerDue
  BY <1>1 DEF AnswerDue, Due, PacketsIn
<1>3. [d \in Calls |-> ctx[d] = "cancelled"]' = [[d \in Calls |-> ctx[d] = "cancelled"] EXCEPT ![cur] = TRUE]
  <2>1. ctx \in [Calls -> {"live", "cancelled"}]
    BY DEF IInv, Types, TypeOK
  <2>2. \A d \in Calls : (ctx'[d] = "cancelled") = (IF d = cur THEN TRUE ELSE ctx[d] = "cancelled")
    BY <1>1, <2>1
  <2> QED
    BY <2>2, Zenon
<1> QED
  BY <1>1, <1>2, <1>3, Zenon DEF Pooled!Cancel

(* The server's answer, to a request or to a reset marker.                 *)
LEMMA PooledAnswer ==
    ASSUME IInv, IInv', pc \in {"read", "marker"}, up = "up",
           UNCHANGED <<pc, cur, res, ctx, up>>,
           \A i \in 1 .. Len(s2c) : ~Answering(s2c[i]),
           \E j \in 1 .. Len(s2c') : Answering(s2c'[j])
    PROVE  Pooled!Answer
<1>1. ~Returning /\ ~Returning'
  BY DEF Returning
<1>2. AnswerDue = "none"
  BY <1>1, AnswerIs, Zenon DEF AnswerFacts, IInv
<1>3. PICK j \in 1 .. Len(s2c') : Answering(s2c'[j])
  OBVIOUS
<1>4. AnswerDue' = s2c'[j].code
  BY <1>1, <1>3, AnswerIsNext, Zenon DEF AnswerFacts, IInv
<1>5. s2c'[j].code \in Codes
  <2>1. s2c' \in Seq(Packets)
    BY DEF IInv, Types, TypeOK
  <2>2. s2c'[j] \in Packets
    BY <1>3, <2>1, ElementOfSeq
  <2> QED
    BY <2>2, PacketFacts, Zenon
<1>6. AnswerDue' \in Pooled!Answers
  BY <1>4, <1>5 DEF Codes, Pooled!Answers
<1>7. (up # "up")' = (up # "up") /\ ~(up # "up")
  BY Zenon
<1>8. /\ (IF pc \in {"idle", "dropped"} THEN pc ELSE "busy") = "busy"
      /\ (IF pc \in {"idle", "dropped"} THEN pc ELSE "busy")' = "busy"
  OBVIOUS
<1>9. [c \in Calls |-> ctx[c] = "cancelled"]' = [c \in Calls |-> ctx[c] = "cancelled"]
  BY Zenon
<1> QED
  BY <1>2, <1>6, <1>7, <1>8, <1>9, Zenon DEF Pooled!Answer

LEMMA PooledReset ==
    ASSUME IInv, IInv', ServerReset
    PROVE  Pooled!Answer
<1>1. /\ up = "up" /\ c2s # <<>> /\ Head(c2s) = Reset
      /\ UNCHANGED <<pc, cur, res, ctx, up>>
      /\ sst = "break" => s2c' = s2c \o <<Reset, Reply(scall, TRUE, "cancelled")>>
  BY DEF ServerReset, ServerUp, clientVars, connVars, watchVars
<1>2. s2c \in Seq(Packets) /\ c2s \in Seq(Packets) /\ cur \in Calls /\ scall \in Calls \cup {NoCall}
  BY DEF IInv, Types, TypeOK
<1>3. Serving /\ Leaves(c2s, pc, cur)
  BY <1>1 DEF IInv, Inv, Live, Outgoing
<1>4. pc = "marker"
  BY <1>1, <1>2, <1>3, LeavesTail
<1>5. 1 \in 1 .. Len(c2s) /\ c2s[1] = Reset
  BY <1>1, <1>2, TailPlaces, Zenon
<1>6. s2c = <<>> /\ sst = "break"
  BY <1>3, <1>5 DEF Serving
<1> DEFINE q == Reply(scall, TRUE, "cancelled")
<1>7. Answering(q)
  BY DEF Answering, Reply
<1> HIDE DEF q
<1>8. s2c' = <<Reset, q>>
  <2>1. <<>> \o <<Reset, q>> = <<Reset, q>>
    OBVIOUS
  <2> QED
    BY <1>1, <1>6, <2>1, Zenon DEF q
<1>9. Len(s2c') = 2 /\ s2c'[2] = q /\ Len(s2c) = 0
  BY <1>6, <1>8
<1>10. 2 \in 1 .. Len(s2c')
  BY <1>9
<1>11. \E j \in 1 .. Len(s2c') : Answering(s2c'[j])
  BY <1>7, <1>9, <1>10, Zenon
<1>12. \A i \in 1 .. Len(s2c) : ~Answering(s2c[i])
  BY <1>9
<1> QED
  BY <1>1, <1>4, <1>11, <1>12, PooledAnswer

LEMMA PooledReplies ==
    ASSUME IInv, IInv', ServerReplies
    PROVE  Pooled!Answer \/ UNCHANGED Pooled!vars
<1>1. /\ up = "up" /\ sst = "exec"
      /\ UNCHANGED <<pc, cur, res, ctx, up, out>>
      /\ \E b \in BOOLEAN, e \in {"ok", "fatal"} : s2c' = Append(s2c, Reply(scall, b, e))
  BY DEF ServerReplies, ServerUp, clientVars, connVars, watchVars
<1>2. s2c \in Seq(Packets) /\ cur \in Calls /\ scall \in Calls \cup {NoCall}
  BY DEF IInv, Types, TypeOK
<1>3. pc = "read" /\ \A i \in 1 .. Len(s2c) : Data(s2c[i]) /\ ~s2c[i].last
  BY <1>1 DEF IInv, Inv, Live, Serving
<1>4. \A i \in 1 .. Len(s2c) : ~Answering(s2c[i])
  BY <1>3, Zenon DEF Answering
<1>5. PICK b \in BOOLEAN, e \in {"ok", "fatal"} : s2c' = Append(s2c, Reply(scall, b, e))
  BY <1>1
<1> DEFINE p == Reply(scall, b, e)
<1>6. p \in Packets
  BY <1>2, <1>5, PacketFacts DEF Codes
<1> HIDE DEF p
<1>7. /\ s2c'[Len(s2c) + 1] = p /\ Len(s2c) + 1 \in 1 .. Len(s2c')
      /\ \A i \in 1 .. Len(s2c) : s2c'[i] = s2c[i]
      /\ \A i \in 1 .. Len(s2c') : i \in 1 .. Len(s2c) \/ i = Len(s2c) + 1
  <2>1. s2c' = Append(s2c, p)
    BY <1>5 DEF p
  <2> QED
    BY <1>2, <1>6, <2>1, AppendPlaces, Zenon
<1>8. CASE Answering(p)
  <2>1. \E j \in 1 .. Len(s2c') : Answering(s2c'[j])
    BY <1>7, <1>8, Zenon
  <2> QED
    BY <1>1, <1>3, <1>4, <2>1, PooledAnswer
<1>9. CASE ~Answering(p)
  <2>1. \A j \in 1 .. Len(s2c') : ~Answering(s2c'[j])
    BY <1>4, <1>7, <1>9, Zenon
  <2>2. ~Returning /\ ~Returning'
    BY <1>1, <1>3 DEF Returning
  <2>3. AnswerDue' = AnswerDue
    BY <1>4, <2>1, <2>2, SameAnswer, Zenon DEF IInv
  <2> QED
    BY <1>1, <2>3, Unseen
<1> QED
  BY <1>8, <1>9

LEMMA PooledLose ==
    ASSUME IInv, IInv', LoseConnection
    PROVE  Pooled!Lose
<1>1. /\ up = "up" /\ up' = "lost" /\ UNCHANGED <<pc, cur, res, ctx, out>>
      /\ \/ s2c' = Append(s2c, Final)
         \/ \E n \in 0 .. Len(s2c) : s2c' = SubSeq(s2c, 1, n)
  BY DEF LoseConnection, ServerUp, clientVars, watchVars
<1>2. s2c \in Seq(Packets) /\ cur \in Calls
  BY DEF IInv, Types, TypeOK
<1>3. AnswerFacts /\ AnswerFacts' /\ (Returning' <=> Returning)
  BY <1>1, AnswerIs, AnswerIsNext DEF IInv, Returning
<1>4. \A j \in 1 .. Len(s2c') : s2c'[j] = Final \/ \E i \in 1 .. Len(s2c) : s2c[i] = s2c'[j]
  <2>1. CASE s2c' = Append(s2c, Final)
    <3>1. /\ s2c'[Len(s2c) + 1] = Final
          /\ \A i \in 1 .. Len(s2c) : s2c'[i] = s2c[i]
          /\ \A i \in 1 .. Len(s2c') : i \in 1 .. Len(s2c) \/ i = Len(s2c) + 1
      BY <1>2, <2>1, CallPackets, AppendPlaces, Zenon
    <3> QED
      BY <3>1, Zenon
  <2>2. ASSUME NEW n \in 0 .. Len(s2c), s2c' = SubSeq(s2c, 1, n)
        PROVE  \A j \in 1 .. Len(s2c') : \E i \in 1 .. Len(s2c) : s2c[i] = s2c'[j]
    <3>1. Len(s2c') = n /\ Len(s2c) \in Nat /\ \A j \in 1 .. n : s2c'[j] = s2c[j]
      BY <1>2, <2>2, FlightFacts
    <3>2. \A j \in 1 .. n : j \in 1 .. Len(s2c)
      BY <3>1
    <3> QED
      BY <3>1, <3>2, Zenon
  <2> QED
    BY <1>1, <2>1, <2>2, Zenon
<1>5. ~Answering(Final)
  BY <1>2, Distinct, Zenon
<1>6. AnswerDue' \in {AnswerDue, "none"}
  <2>1. CASE Returning
    BY <1>1, <1>3, <2>1, Zenon DEF AnswerFacts
  <2>2. CASE ~Returning /\ \A j \in 1 .. Len(s2c') : ~Answering(s2c'[j])
    BY <1>3, <2>2, Zenon DEF AnswerFacts
  <2>3. ASSUME ~Returning, NEW j \in 1 .. Len(s2c'), Answering(s2c'[j])
        PROVE  AnswerDue' = AnswerDue
    <3>1. PICK i \in 1 .. Len(s2c) : s2c[i] = s2c'[j]
      BY <1>4, <1>5, <2>3, Zenon
    <3>2. AnswerDue = s2c[i].code
      BY <1>3, <2>3, <3>1, Zenon DEF AnswerFacts
    <3>3. AnswerDue' = s2c'[j].code
      BY <1>3, <2>3, Zenon DEF AnswerFacts
    <3> QED
      BY <3>1, <3>2, <3>3
  <2> QED
    BY <2>1, <2>2, <2>3, Zenon
<1>7. ~(up # "up") /\ (up # "up")' = TRUE
  BY <1>1
<1>8. [c \in Calls |-> ctx[c] = "cancelled"]' = [c \in Calls |-> ctx[c] = "cancelled"]
  BY <1>1, Zenon
<1> QED
  BY <1>1, <1>6, <1>7, <1>8, Zenon DEF Pooled!Lose

(* The verdict on a connection when a call returns.                        *)
LEMMA PooledReturn ==
    ASSUME IInv, IInv', ReturnCtxErr \/ ReturnOutcome
    PROVE  Pooled!Return
<1>1. /\ pc = "return" /\ pc' \in {"idle", "dropped"}
      /\ UNCHANGED <<cur, up, s2c, ctx>>
  BY DEF ReturnCtxErr, ReturnOutcome, ReturnTo
<1>2. s2c \in Seq(Packets) /\ cur \in Calls /\ bad \in BOOLEAN /\ kind \in Kinds
  BY DEF IInv, Types, TypeOK
<1>3. AnswerDue' = "none"
  <2>1. \A i \in 1 .. Len(s2c) : ~Data(s2c[i])
    BY <1>1, ArrivesQuiet DEF IInv, Inv, Incoming
  <2>2. \A i \in 1 .. Len(s2c) : ~Answering(s2c[i])
    BY <1>2, <2>1, Distinct, Zenon
  <2> QED
    BY <1>1, <2>2, AnswerIsNext DEF AnswerFacts, Returning, IInv
<1>4. out \in Codes => AnswerDue = out
  BY <1>1, AnswerIs DEF AnswerFacts, Returning, IInv
<1>5. /\ out \in Codes \/ (out \in {"eof", "rst", "epipe", "closed", "badconn"} /\ up # "up")
      /\ bad => up # "up" \/ out = "fatal"
      /\ kind # "exec" /\ out \in {"eof", "fatal"} => bad
  BY <1>1 DEF IInv, Inv, Ending
<1>6. (out = "fatal" => AnswerDue = "fatal") /\ (out \in Codes => AnswerDue # "none")
  BY <1>4 DEF Codes
<1> DEFINE a == AnswerDue
           l == up # "up"
           m == [c \in Calls |-> ctx[c] = "cancelled"]
<1>7. \E r \in Pooled!Answers \cup Pooled!Failures \cup {"ctx"} :
         /\ \/ r \in Pooled!Answers /\ a = r
            \/ r \in Pooled!Failures /\ l
            \/ r = "ctx" /\ m[cur] /\ (a # "none" \/ l)
         /\ r \in {"eof", "badconn", "fatal"} => pc' = "dropped"
         /\ pc' = "dropped" => l \/ a = "fatal"
         /\ res' = [res EXCEPT ![cur] = r]
  <2>1. CASE ReturnCtxErr
    <3>1. ctx[cur] = "cancelled" /\ res' = [res EXCEPT ![cur] = "ctx"] /\ (pc' = "dropped" => bad)
      BY <2>1, <1>2 DEF ReturnCtxErr, ReturnTo
    <3>2. m[cur]
      BY <1>2, <3>1
    <3>3. a # "none" \/ l
      BY <1>5, <1>6
    <3>4. pc' = "dropped" => l \/ a = "fatal"
      BY <1>5, <1>6, <3>1
    <3> HIDE DEF a, l, m
    <3> QED
      BY <3>1, <3>2, <3>3, <3>4
  <2>2. CASE ReturnOutcome
    <3>1. /\ res' = [res EXCEPT ![cur] = out]
          /\ pc' = "dropped" <=> \/ bad \/ (kind = "exec" /\ isBadConn(out)) \/ out = "badconn"
                                \/ (~Selects(kind) /\ BadOnRead(kind, out))
      BY <2>2, <1>2, Zenon DEF ReturnOutcome, ReturnTo
    <3>2. out \in {"eof", "badconn", "fatal"} => pc' = "dropped"
      BY <1>5, <3>1 DEF isBadConn
    <3>3. pc' = "dropped" => l \/ a = "fatal"
      BY <1>5, <1>6, <3>1 DEF isBadConn, BadOnRead, Codes
    <3>4. \/ out \in Pooled!Answers /\ a = out
          \/ out \in Pooled!Failures /\ l
      BY <1>4, <1>5 DEF Codes, Pooled!Answers, Pooled!Failures
    <3> HIDE DEF a, l, m
    <3> QED
      BY <3>1, <3>2, <3>3, <3>4, Zenon
  <2> QED
    BY <2>1, <2>2
<1>8. \E r \in Pooled!Answers \cup Pooled!Failures \cup {"ctx"}, s \in {"idle", "dropped"} :
         /\ Pooled!MayReturn(r) /\ Pooled!Verdict(r, s)
         /\ res' = [res EXCEPT ![cur] = r]
         /\ (IF pc \in {"idle", "dropped"} THEN pc ELSE "busy")' = s
  BY <1>1, <1>7, Zenon DEF Pooled!MayReturn, Pooled!Verdict
<1>9. (IF pc \in {"idle", "dropped"} THEN pc ELSE "busy") = "busy"
  BY <1>1
<1>10. (up # "up")' = (up # "up")
  BY <1>1, Zenon
<1>11. m' = m
  BY <1>1, Zenon
<1> QED
  BY <1>1, <1>3, <1>8, <1>9, <1>10, <1>11, Zenon DEF Pooled!Return

(* Everything else the pool does not see: what the client writes and reads *)
(* until the answer is there, what it meets of a connection that is lost,  *)
(* and the interrupts of the watchdogs.                                    *)
LEMMA PooledQuiet ==
    ASSUME IInv, IInv', UNCHANGED <<pc, cur, res, ctx, up, out, inBuf, s2c>>
    PROVE  UNCHANGED Pooled!vars
<1>1. AnswerDue' = AnswerDue
  BY DEF AnswerDue, Due, PacketsIn
<1> QED
  BY <1>1, Unseen

LEMMA PooledWrites ==
    ASSUME IInv, IInv', WriteRequest \/ WriteFails
    PROVE  UNCHANGED Pooled!vars
<1>1. /\ pc = "write" /\ UNCHANGED <<cur, res, ctx, up, s2c>>
      /\ \/ pc' \in {"write", "read"}
         \/ pc' = "return" /\ out' \in {"closed", "epipe"}
  BY DEF WriteRequest, WriteFails, watchVars, connVars
<1>2. ~Returning /\ ~Returning'
  BY <1>1 DEF Returning, Codes
<1>3. AnswerDue' = AnswerDue
  BY <1>1, <1>2, SameAnswer DEF IInv
<1>4. pc \notin {"idle", "dropped"} /\ pc' \notin {"idle", "dropped"}
  BY <1>1
<1> QED
  BY <1>1, <1>3, <1>4, Unseen

LEMMA PooledReads ==
    ASSUME IInv, IInv', ReadReply
    PROVE  UNCHANGED Pooled!vars
<1>1. /\ pc \in {"read", "recover"} /\ s2c # <<>> /\ Data(Head(s2c)) /\ s2c' = Tail(s2c)
      /\ Consume(Head(s2c)) /\ UNCHANGED <<cur, res, ctx, up>>
  BY DEF ReadReply, IInv, Inv, Client, Data
<1>2. s2c \in Seq(Packets) /\ cur \in Calls
  BY DEF IInv, Types, TypeOK
<1>3. /\ 1 \in 1 .. Len(s2c) /\ s2c[1] = Head(s2c) /\ Head(s2c) \in Packets
      /\ \A i \in 1 .. Len(s2c') : i + 1 \in 1 .. Len(s2c) /\ s2c'[i] = s2c[i + 1]
      /\ \A i \in 1 .. Len(s2c) : i = 1 \/ (i - 1 \in 1 .. Len(s2c') /\ s2c'[i - 1] = s2c[i])
  BY <1>1, <1>2, TailPlaces, Zenon
<1>4. ~Returning /\ AnswerFacts /\ AnswerFacts'
  BY <1>1, AnswerIs, AnswerIsNext DEF IInv, Returning
<1>5. CASE Head(s2c).last
  <2>1. pc' = "return" /\ out' = Head(s2c).code
    BY <1>1, <1>5 DEF Consume, Finish
  <2>2. out' \in Codes /\ Answering(s2c[1])
    BY <1>1, <1>3, <1>5, <2>1, PacketFacts DEF Answering, Data
  <2>3. AnswerDue = out'
    BY <1>3, <1>4, <2>1, <2>2, Zenon DEF AnswerFacts
  <2>4. AnswerDue' = out'
    BY <1>4, <2>1, <2>2, Zenon DEF AnswerFacts, Returning
  <2> QED
    BY <1>1, <2>1, <2>3, <2>4, Unseen
<1>6. CASE ~Head(s2c).last
  <2>1. pc' = pc
    BY <1>1, <1>6 DEF Consume
  <2>2. ~Returning' /\ ~Answering(s2c[1])
    BY <1>1, <1>3, <1>6, <2>1 DEF Returning, Answering
  <2>3. /\ \A i \in 1 .. Len(s2c) : Answering(s2c[i]) => \E j \in 1 .. Len(s2c') : s2c'[j] = s2c[i]
        /\ \A j \in 1 .. Len(s2c') : Answering(s2c'[j]) => \E i \in 1 .. Len(s2c) : s2c[i] = s2c'[j]
    BY <1>3, <2>2, Zenon
  <2>4. AnswerDue' = AnswerDue
    BY <1>4, <2>2, <2>3, SameAnswer, Zenon DEF IInv
  <2> QED
    BY <1>1, <2>1, <2>4, Unseen
<1> QED
  BY <1>5, <1>6

(* A marker is taken off the connection, never the end of a reply.         *)
LEMMA PooledMarkers ==
    ASSUME "refcursor" \notin Kinds, IInv, IInv', ReadMarker \/ MarkerWriteFails \/ ReadAfterReset
    PROVE  UNCHANGED Pooled!vars
<1>1. /\ pc \in {"read", "recover", "marker"} /\ s2c # <<>> /\ s2c' = Tail(s2c)
      /\ UNCHANGED <<cur, res, ctx, up>>
      /\ \/ pc' \in {"marker", "marker2", "recover"}
         \/ pc' = "return" /\ out' = "epipe"
  BY DEF ReadMarker, MarkerWriteFails, ReadAfterReset, Recovers, Finish, IInv, Types, TypeOK, Inv, Client,
         watchVars, connVars
<1>2. s2c \in Seq(Packets) /\ cur \in Calls /\ Arrives(s2c, pc, cur, up)
  BY DEF IInv, Types, TypeOK, Inv, Incoming
<1>3. Head(s2c) \in {BreakMark, Reset}
  <2>1. CASE ReadMarker \/ MarkerWriteFails
    <3>1. pc \in {"read", "recover"} /\ IsMarker(Head(s2c))
      BY <2>1 DEF ReadMarker, MarkerWriteFails
    <3> QED
      BY <1>1, <1>2, <3>1, ArrivesBreak
  <2>2. CASE ReadAfterReset
    <3>1. pc = "marker" /\ Head(s2c).type # "final"
      BY <2>2 DEF ReadAfterReset, IInv, Inv, Client
    <3> QED
      BY <1>1, <1>2, <3>1, ArrivesReset
  <2> QED
    BY <2>1, <2>2
<1>4. /\ 1 \in 1 .. Len(s2c) /\ s2c[1] = Head(s2c)
      /\ \A i \in 1 .. Len(s2c') : i + 1 \in 1 .. Len(s2c) /\ s2c'[i] = s2c[i + 1]
      /\ \A i \in 1 .. Len(s2c) : i = 1 \/ (i - 1 \in 1 .. Len(s2c') /\ s2c'[i - 1] = s2c[i])
  BY <1>1, <1>2, TailPlaces, Zenon
<1>5. ~Answering(s2c[1])
  BY <1>2, <1>3, <1>4, Distinct, Zenon
<1>6. /\ \A i \in 1 .. Len(s2c) : Answering(s2c[i]) => \E j \in 1 .. Len(s2c') : s2c'[j] = s2c[i]
      /\ \A j \in 1 .. Len(s2c') : Answering(s2c'[j]) => \E i \in 1 .. Len(s2c) : s2c[i] = s2c'[j]
  BY <1>4, <1>5, Zenon
<1>7. ~Returning /\ ~Returning'
  BY <1>1 DEF Returning, Codes
<1>8. AnswerDue' = AnswerDue
  BY <1>6, <1>7, SameAnswer, Zenon DEF IInv
<1>9. pc \notin {"idle", "dropped"} /\ pc' \notin {"idle", "dropped"}
  BY <1>1
<1> QED
  BY <1>1, <1>8, <1>9, Unseen

LEMMA PooledEnds ==
    ASSUME IInv, IInv', ReadFinal \/ ReadFails
    PROVE  UNCHANGED Pooled!vars
<1>1. s2c \in Seq(Packets) /\ cur \in Calls /\ Arrives(s2c, pc, cur, up)
  BY DEF IInv, Types, TypeOK, Inv, Incoming
<1>2. /\ pc \in {"read", "recover", "marker"} /\ pc' = "return" /\ UNCHANGED <<cur, res, ctx>>
      /\ s2c' = <<>> /\ up' # "up" /\ out' \in {"eof", "rst", "closed", "badconn"}
      /\ (s2c = <<>> /\ up # "up") \/ (ReadFinal /\ s2c # <<>> /\ Head(s2c).type = "final")
  BY DEF ReadFinal, ReadFails, Reading, Finish, IInv, Inv, Client, watchVars
<1>3. up # "up" /\ \A i \in 1 .. Len(s2c) : ~Answering(s2c[i])
  <2>1. CASE s2c = <<>> /\ up # "up"
    <3>1. Len(s2c) = 0
      BY <2>1
    <3> QED
      BY <2>1, <3>1
  <2>2. CASE s2c # <<>> /\ Head(s2c).type = "final"
    <3>1. 1 \in 1 .. Len(s2c) /\ s2c[1] = Head(s2c)
      BY <1>1, <2>2, TailPlaces, Zenon
    <3>2. s2c[1] = Final
      <4>1. ~Data(s2c[1]) /\ s2c[1] # BreakMark /\ s2c[1] # Reset
        BY <2>2, <3>1 DEF Data, BreakMark, Reset
      <4> QED
        BY <1>1, <3>1, <4>1, Zenon DEF Arrives
    <3>3. Len(s2c) = 1 /\ up = "lost"
      BY <1>1, <3>1, <3>2 DEF Arrives
    <3>4. \A i \in 1 .. Len(s2c) : i = 1
      BY <3>3
    <3> QED
      BY <1>1, <3>2, <3>3, <3>4, Distinct, Zenon
  <2> QED
    BY <1>2, <2>1, <2>2
<1>4. \A i \in 1 .. Len(s2c') : ~Answering(s2c'[i])
  <2>1. Len(s2c') = 0
    BY <1>2
  <2> QED
    BY <2>1
<1>5. ~Returning /\ ~Returning'
  BY <1>2 DEF Returning, Codes
<1>6. AnswerDue' = AnswerDue
  BY <1>3, <1>4, <1>5, SameAnswer, Zenon DEF IInv
<1> QED
  BY <1>2, <1>3, <1>6, Unseen

(* The server meets an interrupt.                                          *)
LEMMA PooledInterrupted ==
    ASSUME IInv, IInv', ServerInterrupted
    PROVE  UNCHANGED Pooled!vars
<1>1. /\ UNCHANGED <<pc, cur, res, ctx, up, out, inBuf>>
      /\ s2c' = s2c \/ s2c' = Append(s2c, BreakMark)
  BY DEF ServerInterrupted, clientVars, watchVars, connVars
<1>2. s2c \in Seq(Packets) /\ cur \in Calls
  BY DEF IInv, Types, TypeOK
<1>3. CASE s2c' = s2c
  BY <1>1, <1>3, PooledQuiet
<1>4. CASE s2c' = Append(s2c, BreakMark)
  <2>1. /\ s2c'[Len(s2c) + 1] = BreakMark
        /\ \A i \in 1 .. Len(s2c) : i \in 1 .. Len(s2c') /\ s2c'[i] = s2c[i]
        /\ \A i \in 1 .. Len(s2c') : i \in 1 .. Len(s2c) \/ i = Len(s2c) + 1
    BY <1>2, <1>4, CallPackets, AppendPlaces, Zenon
  <2>2. ~Answering(BreakMark)
    BY <1>2, Distinct, Zenon
  <2>3. /\ \A i \in 1 .. Len(s2c) : Answering(s2c[i]) => \E j \in 1 .. Len(s2c') : s2c'[j] = s2c[i]
        /\ \A j \in 1 .. Len(s2c') : Answering(s2c'[j]) => \E i \in 1 .. Len(s2c) : s2c[i] = s2c'[j]
    BY <2>1, <2>2, Zenon
  <2>4. AnswerFacts /\ AnswerFacts' /\ (Returning' <=> Returning)
    BY <1>1, AnswerIs, AnswerIsNext DEF IInv, Returning
  <2>5. CASE Returning
    BY <1>1, <2>4, <2>5, Unseen, Zenon DEF AnswerFacts
  <2>6. CASE ~Returning
    <3>1. AnswerDue' = AnswerDue
      BY <2>3, <2>4, <2>6, SameAnswer, Zenon DEF IInv
    <3> QED
      BY <1>1, <3>1, Unseen
  <2> QED
    BY <2>5, <2>6
<1> QED
  BY <1>1, <1>3, <1>4

LEMMA PooledStep ==
    ASSUME "refcursor" \notin Kinds
    PROVE  IInv /\ IInv' /\ [Next]_vars => [Pooled!Next]_(Pooled!vars)
<1> SUFFICES ASSUME IInv, IInv', [Next]_vars PROVE Pooled!Next \/ UNCHANGED Pooled!vars
  OBVIOUS
<1>1. CASE UNCHANGED vars
  BY <1>1, PooledQuiet DEF vars
<1>2. CASE Dropped
  BY <1>1, <1>2 DEF Dropped
<1>3. CASE ClientStep
  BY <1>3, PooledWrites, PooledReads, PooledMarkers, PooledEnds, PooledReturn, Zenon
     DEF ClientStep, Pooled!Next
<1>4. ASSUME NEW c \in Calls, WatchdogStep(c) PROVE UNCHANGED Pooled!vars
  <2>1. UNCHANGED <<pc, cur, res, ctx, up, out, inBuf, s2c>>
    BY <1>4 DEF WatchdogStep, WatchdogDone, WatchdogFires, BreakConnection, SetBreak, clientVars, connVars
  <2> QED
    BY <2>1, PooledQuiet
<1>5. CASE ServerReceives
  <2>1. UNCHANGED <<pc, cur, res, ctx, up, out, inBuf, s2c>>
    BY <1>5 DEF ServerReceives, clientVars, watchVars, connVars
  <2> QED
    BY <2>1, PooledQuiet
<1>6. CASE ServerInterrupted \/ ServerReset \/ ServerReplies \/ LoseConnection
  BY <1>6, PooledInterrupted, PooledReset, PooledReplies, PooledLose, Zenon DEF Pooled!Next
<1>7. ASSUME NEW c \in Calls, NEW k \in Kinds, StartCall(c, k) PROVE Pooled!Next
  BY <1>7, PooledStart, Zenon DEF Pooled!Next
<1>8. ASSUME NEW c \in Calls, Cancel(c) PROVE Pooled!Next
  BY <1>8, PooledCancel, Zenon DEF Pooled!Next
<1> QED
  BY <1>1, <1>2, <1>3, <1>4, <1>5, <1>6, <1>7, <1>8, Zenon DEF Next, ServerReacts

(* The driver keeps the contract of a pooled connection: with packets,     *)
(* markers, interrupts and losses hidden, every step of a session is a     *)
(* step of PooledConnection or none.                                       *)
THEOREM PoolRefined ==
    ASSUME "refcursor" \notin Kinds
    PROVE  Spec => PooledSpec
<1>1. Types /\ Inv <=> IInv
  BY DEF IInv
<1> QED
  BY <1>1, PooledInit, PooledStep, Invariance, PTL DEF Spec, PooledSpec, Pooled!Spec

=============================================================================
