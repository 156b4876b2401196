------------------------------ MODULE Framing ------------------------------
(***************************************************************************)
(* The packet layer of a session: how a request is cut into data packets   *)
(* and kept for a RESEND, and how the bytes the socket delivers, in pieces *)
(* of any size and with read deadlines between any two of them, become     *)
(* packets, the input buffer and the bytes a read returns.                 *)
(*                                                                         *)
(* Payload bytes are numbered, the server's in the order it sends them and *)
(* those of a request from 1.  Of a packet that is partly read the socket  *)
(* still has the rest: off counts the bytes of Head(wire) already read.    *)
(***************************************************************************)
EXTENDS Naturals, Sequences, FiniteSets

CONSTANTS
    HeadLen,      \* bytes of a packet header: 8 in the code
    FlagLen,      \* bytes of the data flag that starts the body of a data packet: 2
    MarkLen,      \* bytes of the body of a marker: 3
    SegLen,       \* SessionDataUnit - 64
    Requests,     \* lengths a request may have
    Payloads,     \* payload lengths of the server's data packets
    ReadSizes,    \* how many bytes the layer above asks for at once
    MaxPackets,   \* bound: packets the server sends
    MaxInterrupts \* bound: interrupts written during one call

ASSUME LengthsAssumption ==
    /\ HeadLen \in Nat \ {0} /\ FlagLen \in Nat \ {0} /\ MarkLen \in Nat \ {0}
    /\ SegLen \in Nat \ {0}
    /\ Requests \subseteq Nat /\ Payloads \subseteq Nat
    /\ ReadSizes \subseteq Nat \ {0}
    /\ MaxPackets \in Nat /\ MaxInterrupts \in Nat

VARIABLES
    pc,         \* "idle", "write" (WriteRPC), "read", "marker" (processMarker), "lost"
    out,        \* length of the request in outBuffer
    wrote,      \* bytes of it that are in packets already written
    segment,    \* the slice WriteRPC reuses for every full segment
    sendPcks,   \* session.sendPcks; a full segment is held by reference
    written,    \* what was written since sendPcks was emptied
    interrupts, \* interrupts written in this call
    wire, off,  \* packets the server has sent; bytes of the first one already read
    npackets,   \* packets the server has sent
    sent,       \* payload bytes the server has sent
    rd,         \* where readPacketData is: "none", "head", "body", "resume", "done"
    held,       \* length of lastPacket
    remaining,  \* session.remainingBytes
    inBuf,      \* session.inBuffer
    want, got,  \* the current read: bytes still wanted, bytes it has
    taken,      \* payload bytes that left inBuffer
    result,     \* bytes of the last read, <<>> if it failed
    cut         \* a deadline has passed inside a header

writeVars == <<out, wrote, segment, sendPcks, written, interrupts>>
serverVars == <<npackets, sent>>
packetVars == <<wire, off, rd, held, remaining, cut>>
readVars == <<inBuf, want, got, taken, result>>
vars == <<pc, out, wrote, segment, sendPcks, written, interrupts, wire, off,
          npackets, sent, rd, held, remaining, inBuf, want, got, taken, result, cut>>

(* n bytes numbered from k + 1.                                            *)
Bytes(k, n) == [i \in 1 .. n |-> k + i]
Least(a, b) == IF a <= b THEN a ELSE b

(* A packet of the server: its type and the payload bytes it carries.      *)
BodyLen(p) == CASE p.type = "data"   -> FlagLen + p.n
                [] p.type = "marker" -> MarkLen
                [] p.type = "resend" -> 0
PacketLen(p) == HeadLen + BodyLen(p)

(* An entry of sendPcks: its own bytes, or a reference to segment.         *)
Own(b) == [shared |-> FALSE, bytes |-> b]
Shared == [shared |-> TRUE, bytes |-> <<>>]
Marker == Own(<<>>)

Init ==
    /\ pc = "idle"
    /\ out = 0 /\ wrote = 0 /\ segment = <<>> /\ sendPcks = <<>> /\ written = <<>>
    /\ interrupts = 0
    /\ wire = <<>> /\ off = 0 /\ npackets = 0 /\ sent = 0
    /\ rd = "none" /\ held = 0 /\ remaining = 0
    /\ inBuf = <<>> /\ want = 0 /\ got = <<>> /\ taken = 0 /\ result = <<>>
    /\ cut = FALSE

-----------------------------------------------------------------------------
(* Writing a request.                                                      *)

(* An operation starts: ResetBuffer empties both buffers and sendPcks, and *)
(* leaves lastPacket and remainingBytes alone; it then fills outBuffer.    *)
NewCall(n) ==
    /\ pc = "idle"
    /\ taken' = taken + Len(inBuf) /\ inBuf' = <<>> /\ result' = <<>>
    /\ out' = n /\ wrote' = 0 /\ sendPcks' = <<>> /\ written' = <<>> /\ interrupts' = 0
    /\ pc' = "write"
    /\ UNCHANGED <<segment, packetVars, serverVars, want, got>>

(* Mutants: the last part is copied into segment too; a request of exactly *)
(* SegLen bytes gets an empty packet after its only segment; the offset    *)
(* always moves by a segment.                                              *)
WriteRPCReusesSegment ==
    /\ pc = "write"
    /\ LET size == out - wrote
           n == Least(size, SegLen)
           b == Bytes(wrote, n) IN
        /\ written' = Append(written, b)
        /\ wrote' = wrote + n
        /\ segment' = b
        /\ sendPcks' = Append(sendPcks, Shared)
        /\ pc' = IF size > SegLen THEN "write" ELSE "idle"
    /\ UNCHANGED <<out, interrupts, packetVars, serverVars, readVars>>
WriteRPCFullLast ==
    /\ pc = "write"
    /\ LET size == out - wrote
           n == Least(size, SegLen)
           b == Bytes(wrote, n) IN
        /\ written' = Append(written, b)
        /\ wrote' = wrote + n
        /\ segment' = IF size >= SegLen THEN b ELSE segment
        /\ sendPcks' = Append(sendPcks, IF size >= SegLen THEN Shared ELSE Own(b))
        /\ pc' = IF size >= SegLen THEN "write" ELSE "idle"
    /\ UNCHANGED <<out, interrupts, packetVars, serverVars, readVars>>

WriteRPCOffset ==
    /\ pc = "write"
    /\ LET size == out - wrote
           b == Bytes(wrote, Least(size, SegLen)) IN
        /\ written' = Append(written, b)
        /\ wrote' = wrote + SegLen
        /\ segment' = IF size > SegLen THEN b ELSE segment
        /\ sendPcks' = Append(sendPcks, IF size > SegLen THEN Shared ELSE Own(b))
        /\ pc' = IF size > SegLen THEN "write" ELSE "idle"
    /\ UNCHANGED <<out, interrupts, packetVars, serverVars, readVars>>

(* One packet of WriteRPC.  While more than SegLen bytes are left a full   *)
(* segment is copied into the one slice and the packet refers to it; the   *)
(* last packet has the rest of outBuffer, an empty request one empty       *)
(* packet.                                                                 *)
WriteRPC ==
    /\ pc = "write"
    /\ LET size == out - wrote
           n == Least(size, SegLen)
           b == Bytes(wrote, n) IN
        /\ written' = Append(written, b)
        /\ wrote' = wrote + n
        /\ segment' = IF size > SegLen THEN b ELSE segment
        /\ sendPcks' = Append(sendPcks, IF size > SegLen THEN Shared ELSE Own(b))
        /\ pc' = IF size > SegLen THEN "write" ELSE "idle"
    /\ UNCHANGED <<out, interrupts, packetVars, serverVars, readVars>>

(* The watchdog of the call writes an interrupt marker: writePacket keeps  *)
(* it in sendPcks with the packets of the request.                         *)
WriteInterrupt ==
    /\ interrupts < MaxInterrupts
    /\ pc # "lost"
    /\ interrupts' = interrupts + 1
    /\ sendPcks' = Append(sendPcks, Marker)
    /\ written' = Append(written, <<>>)
    /\ UNCHANGED <<pc, out, wrote, segment, packetVars, serverVars, readVars>>

-----------------------------------------------------------------------------
(* The server (external): sends packets of any type at any time.           *)
ServerSends(type, n) ==
    /\ npackets < MaxPackets
    /\ type # "data" => n = 0
    /\ npackets' = npackets + 1
    /\ wire' = Append(wire, [type |-> type, first |-> sent, n |-> n])
    /\ sent' = sent + n
    /\ UNCHANGED <<pc, writeVars, off, rd, held, remaining, cut, readVars>>

-----------------------------------------------------------------------------
(* Session.read.                                                           *)

(* The read fails: what it had taken from inBuffer is given to nobody.     *)
FailRead ==
    /\ taken' = taken + Len(got) /\ got' = <<>> /\ want' = 0 /\ result' = <<>>
    /\ pc' = "idle"

(* Mutant: the rest is read to the start of the result again.              *)
TakeFromFront(b, n, g) ==
    LET k == Least(n, Len(b)) IN
    /\ inBuf' = SubSeq(b, k + 1, Len(b))
    /\ IF k = n
       THEN /\ result' = SubSeq(b, 1, k) \o g
            /\ taken' = taken + Len(g) + k
            /\ got' = <<>> /\ want' = 0 /\ pc' = "idle"
       ELSE /\ got' = SubSeq(b, 1, k) \o g
            /\ want' = n - k /\ pc' = "read"
            /\ UNCHANGED <<taken, result>>

(* The read takes what it still wants from the buffer b and returns if     *)
(* that is all; otherwise it needs another packet.                         *)
TakeFrom(b, n, g) ==
    LET k == Least(n, Len(b)) IN
    /\ inBuf' = SubSeq(b, k + 1, Len(b))
    /\ IF k = n
       THEN /\ result' = g \o SubSeq(b, 1, k)
            /\ taken' = taken + Len(g) + k
            /\ got' = <<>> /\ want' = 0 /\ pc' = "idle"
       ELSE /\ got' = g \o SubSeq(b, 1, k)
            /\ want' = n - k /\ pc' = "read"
            /\ UNCHANGED <<taken, result>>

StartRead(n) ==
    /\ pc = "idle"
    /\ TakeFrom(inBuf, n, <<>>)
    /\ UNCHANGED <<writeVars, packetVars, serverVars>>

-----------------------------------------------------------------------------
(* readAll and readPacketData.                                             *)

Reading == pc \in {"read", "marker"}

(* Mutant: a rest is forgotten.                                            *)
EnterPacketAfresh ==
    /\ Reading /\ rd = "none"
    /\ held' = 0 /\ remaining' = HeadLen
    /\ IF off = 0 THEN rd' = "head" /\ UNCHANGED pc
                  ELSE pc' = "lost" /\ UNCHANGED rd
    /\ UNCHANGED <<writeVars, wire, off, cut, serverVars, readVars>>

(* readPacketData starts: with the rest of lastPacket if one is due, else  *)
(* with a header.  If the socket is inside a packet then, what is read as  *)
(* a header is payload, and nothing more is known: "lost".                 *)
EnterPacket ==
    /\ Reading /\ rd = "none"
    /\ IF remaining > 0
       THEN rd' = "resume" /\ UNCHANGED <<pc, held, remaining>>
       ELSE /\ held' = 0 /\ remaining' = HeadLen
            /\ IF off = 0 THEN rd' = "head" /\ UNCHANGED pc
                          ELSE pc' = "lost" /\ UNCHANGED rd
    /\ UNCHANGED <<writeVars, wire, off, cut, serverVars, readVars>>

(* The socket delivers k bytes.  After the header its length field says    *)
(* how many more there are; after a rest the packet counts as complete.    *)
Receive(k) ==
    /\ rd \in {"head", "body", "resume"}
    /\ wire # <<>> /\ k \in 1 .. remaining
    /\ off' = off + k /\ held' = held + k
    /\ IF k < remaining
       THEN remaining' = remaining - k /\ UNCHANGED rd
       ELSE /\ remaining' = IF rd = "head" THEN BodyLen(Head(wire)) ELSE 0
            /\ rd' = IF remaining' > 0 THEN "body" ELSE "done"
    /\ UNCHANGED <<pc, writeVars, wire, cut, serverVars, readVars>>

(* The read deadline passes: readAll keeps what it has in lastPacket, and  *)
(* readPacketData forgets a header of which nothing was read.              *)
Timeout ==
    /\ rd \in {"head", "body", "resume"}
    /\ remaining' = IF rd = "head" /\ remaining = HeadLen THEN 0 ELSE remaining
    /\ cut' = (cut \/ (rd = "head" /\ 0 < held))
    /\ rd' = "none"
    /\ FailRead
    /\ UNCHANGED <<writeVars, wire, off, held, serverVars, inBuf>>

-----------------------------------------------------------------------------
(* readPacket: what becomes of a packet that counts as complete.           *)

Complete(type) ==
    /\ rd = "done"
    /\ Head(wire).type = type /\ off = PacketLen(Head(wire))
    /\ wire' = Tail(wire) /\ off' = 0 /\ rd' = "none"
    /\ UNCHANGED <<held, remaining, cut, serverVars>>

Payload(p) == Bytes(p.first, p.n)

(* Mutant: the packet processMarker reads is dropped.                      *)
TakeDataDropped ==
    /\ Complete("data")
    /\ IF pc = "read"
       THEN TakeFrom(inBuf \o Payload(Head(wire)), want, got)
       ELSE FailRead /\ UNCHANGED inBuf
    /\ UNCHANGED writeVars

(* A data packet: its payload goes to inBuffer and the read goes on.  The  *)
(* packet processMarker reads is the last one of its read, which returns   *)
(* ErrConnReset.                                                           *)
TakeData ==
    /\ Complete("data")
    /\ IF pc = "read"
       THEN TakeFrom(inBuf \o Payload(Head(wire)), want, got)
       ELSE inBuf' = inBuf \o Payload(Head(wire)) /\ FailRead
    /\ UNCHANGED writeVars

(* A marker: processMarker empties outBuffer and sendPcks, writes a reset  *)
(* marker and reads one packet, which may be a marker too.                 *)
TakeMarker ==
    /\ Complete("marker")
    /\ IF pc = "read"
       THEN /\ sendPcks' = <<Marker>> /\ written' = <<<<>>>>
            /\ out' = 0 /\ wrote' = 0
            /\ pc' = "marker"
            /\ UNCHANGED <<taken, got, want, result>>
       ELSE FailRead /\ UNCHANGED <<out, wrote, sendPcks, written>>
    /\ UNCHANGED <<segment, interrupts, inBuf>>

(* RESEND: every packet of sendPcks is written again, and readPacket reads *)
(* the next packet.                                                        *)
TakeResend ==
    /\ Complete("resend")
    /\ UNCHANGED <<pc, writeVars, readVars>>

(* A header that a deadline had cut counts as a whole packet: too short    *)
(* for its type, so the read fails with the body still on the socket.      *)
TakeShort ==
    /\ rd = "done"
    /\ off < PacketLen(Head(wire))
    /\ rd' = "none"
    /\ FailRead
    /\ UNCHANGED <<writeVars, wire, off, held, remaining, cut, serverVars, inBuf>>

Lost == pc = "lost" /\ UNCHANGED vars

Next ==
    \/ \E n \in Requests : NewCall(n)
    \/ WriteRPC \/ WriteInterrupt
    \/ \E t \in {"data", "marker", "resend"}, n \in Payloads \cup {0} : ServerSends(t, n)
    \/ \E n \in ReadSizes : StartRead(n)
    \/ EnterPacket
    \/ \E k \in 1 .. remaining : Receive(k)
    \/ Timeout
    \/ TakeData \/ TakeMarker \/ TakeResend \/ TakeShort
    \/ Lost

Spec == Init /\ [][Next]_vars

-----------------------------------------------------------------------------
(* Every variable stays in its type.                                       *)
TypeOK ==
    /\ pc \in {"idle", "write", "read", "marker", "lost"}
    /\ out \in Nat /\ wrote \in 0 .. out /\ interrupts \in 0 .. MaxInterrupts
    /\ segment \in Seq(Nat)
    /\ sendPcks \in Seq([shared : BOOLEAN, bytes : Seq(Nat)])
    /\ written \in Seq(Seq(Nat))
    /\ wire \in Seq([type : {"data", "marker", "resend"}, first : Nat, n : Nat])
    /\ off \in Nat /\ held \in Nat /\ remaining \in Nat
    /\ npackets \in 0 .. MaxPackets /\ sent \in Nat
    /\ rd \in {"none", "head", "body", "resume", "done"}
    /\ inBuf \in Seq(Nat) /\ got \in Seq(Nat) /\ result \in Seq(Nat)
    /\ want \in Nat /\ taken \in Nat
    /\ cut \in BOOLEAN

(* Only a deadline that passes inside a header loses the frame: otherwise  *)
(* lastPacket is what was read of the packet on the socket, and the bytes  *)
(* still due are the rest of its header or of the packet, however reads,   *)
(* calls, markers and deadlines follow each other.                         *)
FrameKept ==
    ~cut => /\ pc # "lost"
            /\ off = (IF wire = <<>> \/ (rd = "none" /\ remaining = 0) THEN 0 ELSE held)
            /\ rd \in {"body", "resume"} => held + remaining = PacketLen(Head(wire))

(* Payload bytes before those of the packets still on the socket.          *)
Unread == IF wire = <<>> THEN sent ELSE Head(wire).first

(* While the frame is kept no payload byte is lost, duplicated or moved:   *)
(* what was taken, what the current read has, inBuffer and the packets on  *)
(* the socket are, one after the other, what was sent.                     *)
PayloadConserved ==
    ~cut => /\ got = Bytes(taken, Len(got))
            /\ inBuf = Bytes(taken + Len(got), Len(inBuf))
            /\ taken + Len(got) + Len(inBuf) = Unread
            /\ \A i \in 1 .. Len(wire) :
                  wire[i].first + wire[i].n
                      = (IF i = Len(wire) THEN sent ELSE wire[i + 1].first)

LastByte(b) == b[Len(b)]

(* Byte k is the last one in the first i packets of s, 0 if they are empty.*)
EndsAt(s, i, k) ==
    \/ k = 0 /\ \A j \in 1 .. i : s[j] = <<>>
    \/ \E j \in 1 .. i : /\ s[j] # <<>> /\ LastByte(s[j]) = k
                         /\ \A l \in j + 1 .. i : s[l] = <<>>

(* Packets s, one after the other, are n bytes; none is too long.          *)
CutOf(s, n) ==
    /\ EndsAt(s, Len(s), n)
    /\ \A i \in 1 .. Len(s) :
          /\ Len(s[i]) <= SegLen
          /\ \E k \in 0 .. n : EndsAt(s, i - 1, k) /\ s[i] = Bytes(k, Len(s[i]))

(* The packets of a request, one after the other, are the request; none is *)
(* longer than a segment, and none is empty unless the request is.         *)
RequestWhole ==
    /\ CutOf(written, wrote)
    /\ out > 0 => Cardinality({i \in 1 .. Len(written) : written[i] = <<>>}) <= interrupts

(* A segment after which another full segment was written.                 *)
Overwritten(b) == b # <<>> /\ LastByte(b) < wrote /\ out - LastByte(b) > SegLen
Resent(p) == IF p.shared THEN segment ELSE p.bytes

(* What RESEND would write is what was written, packet by packet, except   *)
(* the full segments before the last full one: they all refer to one       *)
(* slice.  A request of at most two packets is repeated as it was.         *)
ResendRepeats ==
    /\ Len(sendPcks) = Len(written)
    /\ \A i \in 1 .. Len(sendPcks) :
          ~Overwritten(written[i]) => Resent(sendPcks[i]) = written[i]

(* The packet layer implements the byte stream the layers above rely on,   *)
(* until a deadline passes inside a header.                                *)
Stream == INSTANCE ByteStream WITH ok <- ~cut
StreamSpec == Stream!Spec
=============================================================================
