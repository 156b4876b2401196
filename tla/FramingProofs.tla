--------------------------- MODULE FramingProofs ---------------------------
(***************************************************************************)
(* Proofs about Framing, for any lengths of headers, segments, requests,   *)
(* payloads and reads, and any number of packets and interrupts.           *)
(***************************************************************************)
EXTENDS Framing, FiniteSetTheorems, SequenceTheorems, TLAPS

(* Numbered bytes are a sequence of natural numbers.                       *)
LEMMA BytesType ==
    ASSUME NEW k \in Nat, NEW n \in Nat
    PROVE  /\ Bytes(k, n) \in Seq(Nat)
           /\ Len(Bytes(k, n)) = n
           /\ \A i \in 1 .. n : Bytes(k, n)[i] = k + i
BY DEF Bytes

(* Two runs of bytes of which the second continues the first are one run.  *)
LEMMA BytesConcat ==
    ASSUME NEW k \in Nat, NEW m \in Nat, NEW n \in Nat
    PROVE  Bytes(k, m) \o Bytes(k + m, n) = Bytes(k, m + n)
BY DEF Bytes

(* A run of bytes cut in two gives two runs.                               *)
LEMMA BytesCut ==
    ASSUME NEW k \in Nat, NEW n \in Nat, NEW j \in 0 .. n
    PROVE  /\ SubSeq(Bytes(k, n), 1, j) = Bytes(k, j)
           /\ SubSeq(Bytes(k, n), j + 1, n) = Bytes(k + j, n - j)
BY DEF Bytes

-----------------------------------------------------------------------------
Packet == [type : {"data", "marker", "resend"}, first : Nat, n : Nat]

(* A packet has a length, and its header is not all of a data packet.      *)
LEMMA PacketLength ==
    ASSUME NEW p \in Packet
    PROVE  /\ BodyLen(p) \in Nat
           /\ PacketLen(p) = HeadLen + BodyLen(p)
           /\ Payload(p) \in Seq(Nat)
<1> USE LengthsAssumption
<1>1. /\ p.type = "data" => BodyLen(p) = FlagLen + p.n
      /\ p.type = "marker" => BodyLen(p) = MarkLen
      /\ p.type = "resend" => BodyLen(p) = 0
    BY Zenon DEF BodyLen
<1>2. Payload(p) \in Seq(Nat)
    BY BytesType DEF Packet, Payload
<1> QED
    BY <1>1, <1>2 DEF PacketLen, Packet

(* What the parts of the client know of each other: a packet is read only  *)
(* for a read that wants something, a call that writes has bytes left, and *)
(* between reads no byte is held back.                                     *)
Phases ==
    /\ rd # "none" => pc \in {"read", "marker"}
    /\ rd = "done" => wire # <<>>
    /\ pc \in {"read", "marker"} => want > 0
    /\ pc \in {"idle", "write"} => got = <<>>
    /\ pc = "write" /\ out > 0 => wrote < out

(* The types, for each of the groups of variables that change together.    *)
WriteTypes ==
    /\ out \in Nat /\ wrote \in 0 .. out /\ interrupts \in 0 .. MaxInterrupts
    /\ segment \in Seq(Nat)
    /\ sendPcks \in Seq([shared : BOOLEAN, bytes : Seq(Nat)])
    /\ written \in Seq(Seq(Nat))
PacketTypes ==
    /\ wire \in Seq(Packet)
    /\ off \in Nat /\ held \in Nat /\ remaining \in Nat
    /\ npackets \in 0 .. MaxPackets /\ sent \in Nat
    /\ rd \in {"none", "head", "body", "resume", "done"}
    /\ cut \in BOOLEAN
ReadTypes ==
    /\ inBuf \in Seq(Nat) /\ got \in Seq(Nat) /\ result \in Seq(Nat)
    /\ want \in Nat /\ taken \in Nat
Types ==
    /\ pc \in {"idle", "write", "read", "marker", "lost"}
    /\ WriteTypes /\ PacketTypes /\ ReadTypes

(* What a read takes from a buffer and leaves there.                       *)
LEMMA TakeFromType ==
    ASSUME NEW b \in Seq(Nat), NEW n \in Nat \ {0}, NEW g \in Seq(Nat),
           ReadTypes, TakeFrom(b, n, g)
    PROVE  /\ ReadTypes'
           /\ pc' \in {"idle", "read"}
           /\ pc' = "idle" => got' = <<>>
           /\ pc' = "read" => want' > 0
<1> DEFINE k == Least(n, Len(b))
           all == g \o SubSeq(b, 1, k)
           rest == SubSeq(b, k + 1, Len(b))
<1>1. k \in 0 .. Len(b) /\ k <= n
    BY DEF Least
<1>2. SubSeq(b, 1, k) \in Seq(Nat) /\ rest \in Seq(Nat)
    BY <1>1
<1>3. all \in Seq(Nat)
    BY <1>2
<1>4. /\ inBuf' = rest
      /\ IF k = n
         THEN /\ result' = all
              /\ taken' = taken + Len(g) + k
              /\ got' = <<>> /\ want' = 0 /\ pc' = "idle"
         ELSE /\ got' = all
              /\ want' = n - k /\ pc' = "read"
              /\ UNCHANGED <<taken, result>>
    BY DEF TakeFrom
<1> HIDE DEF k, all, rest
<1>5. inBuf' \in Seq(Nat)
    BY <1>2, <1>4
<1>6. got' \in Seq(Nat)
  <2>1. <<>> \in Seq(Nat)
    OBVIOUS
  <2>2. got' = <<>> \/ got' = all
    BY <1>4
  <2> QED
    BY <1>3, <2>1, <2>2, Zenon
<1>7. result' \in Seq(Nat)
    BY <1>3, <1>4 DEF ReadTypes
<1>8. want' \in Nat /\ (pc' = "read" => want' > 0)
    BY <1>1, <1>4
<1>9. taken' \in Nat
    BY <1>1, <1>4 DEF ReadTypes
<1>10. pc' \in {"idle", "read"} /\ (pc' = "idle" => got' = <<>>)
    BY <1>4
<1> QED
    BY <1>5, <1>6, <1>7, <1>8, <1>9, <1>10 DEF ReadTypes

(* NewCall and the two writes keep the types.                              *)
LEMMA WritesKeepTypes ==
    ASSUME Types, Phases,
           (\E n \in Requests : NewCall(n)) \/ WriteRPC \/ WriteInterrupt
    PROVE  Types' /\ Phases'
<1> USE LengthsAssumption
    DEF Types, Phases, WriteTypes, PacketTypes, ReadTypes, packetVars, serverVars, readVars
<1>1. CASE \E n \in Requests : NewCall(n)
    BY <1>1 DEF NewCall
<1>2. CASE WriteRPC
  <2> DEFINE size == out - wrote
             n == Least(size, SegLen)
             b == Bytes(wrote, n)
  <2>1. size \in Nat /\ n \in Nat /\ n <= size /\ (out > 0 => n > 0)
    BY <1>2 DEF Least, WriteRPC
  <2>2. b \in Seq(Nat)
    BY <2>1, BytesType
  <2>3. Own(b) \in [shared : BOOLEAN, bytes : Seq(Nat)]
    BY <2>2 DEF Own
  <2>4. Shared \in [shared : BOOLEAN, bytes : Seq(Nat)]
    BY DEF Shared
  <2>5. size > SegLen => n = SegLen
    BY <2>1 DEF Least
  <2>6. /\ written' = Append(written, b)
        /\ wrote' = wrote + n
        /\ segment' = IF size > SegLen THEN b ELSE segment
        /\ sendPcks' = Append(sendPcks, IF size > SegLen THEN Shared ELSE Own(b))
        /\ pc' = IF size > SegLen THEN "write" ELSE "idle"
        /\ pc = "write"
        /\ UNCHANGED <<out, interrupts, packetVars, serverVars, readVars>>
    BY <1>2 DEF WriteRPC
  <2> HIDE DEF n, b
  <2>7. WriteTypes'
    BY <2>1, <2>2, <2>3, <2>4, <2>6
  <2> QED
    BY <2>1, <2>5, <2>6, <2>7
<1>3. CASE WriteInterrupt
    BY <1>3 DEF WriteInterrupt, Marker, Own
<1> QED
    BY <1>1, <1>2, <1>3

(* What the server sends, and what the socket delivers, keeps the types.   *)
LEMMA SocketKeepsTypes ==
    ASSUME Types, Phases,
           \/ \E t \in {"data", "marker", "resend"}, n \in Payloads \cup {0} : ServerSends(t, n)
           \/ EnterPacket
           \/ \E k \in 1 .. remaining : Receive(k)
    PROVE  Types' /\ Phases'
<1> USE LengthsAssumption
    DEF Types, Phases, WriteTypes, PacketTypes, ReadTypes, writeVars, serverVars, readVars
<1>1. ASSUME NEW t \in {"data", "marker", "resend"}, NEW n \in Payloads \cup {0},
             ServerSends(t, n)
      PROVE  Types' /\ Phases'
  <2> DEFINE p == [type |-> t, first |-> sent, n |-> n]
  <2>1. p \in Packet
    BY DEF Packet
  <2>2. wire' \in Seq(Packet) /\ wire' # <<>>
    <3>1. wire' = Append(wire, p)
        BY <1>1 DEF ServerSends
    <3>2. wire \in Seq(Packet)
        OBVIOUS
    <3> HIDE DEF p, Types, Phases
    <3>3. Append(wire, p) \in Seq(Packet) /\ Append(wire, p) # <<>>
        BY <2>1, <3>2, AppendProperties
    <3> QED
        BY <3>1, <3>3, Zenon
  <2> QED
    BY <1>1, <2>2 DEF ServerSends
<1>2. CASE EnterPacket
    BY <1>2 DEF EnterPacket, Reading
<1>3. ASSUME NEW k \in 1 .. remaining, Receive(k)
      PROVE  Types' /\ Phases'
  <2>1. BodyLen(Head(wire)) \in Nat
    BY <1>3, PacketLength, SMTT(30) DEF Receive
  <2> QED
    BY <1>3, <2>1 DEF Receive
<1> QED
    BY <1>1, <1>2, <1>3

(* A read that starts, fails or goes on with a packet keeps the types.     *)
LEMMA ReadsKeepTypes ==
    ASSUME Types, Phases,
           \/ \E n \in ReadSizes : StartRead(n)
           \/ Timeout \/ TakeData \/ TakeMarker \/ TakeResend \/ TakeShort
    PROVE  Types' /\ Phases'
<1> USE LengthsAssumption
    DEF Types, Phases, WriteTypes, PacketTypes, writeVars, serverVars
<1>1. ASSUME NEW n \in ReadSizes, StartRead(n)
      PROVE  Types' /\ Phases'
  <2>1. TakeFrom(inBuf, n, <<>>) /\ n \in Nat \ {0}
    BY <1>1 DEF StartRead
  <2>2. /\ ReadTypes' /\ pc' \in {"idle", "read"}
        /\ pc' = "idle" => got' = <<>>
        /\ pc' = "read" => want' > 0
    <3>1. inBuf \in Seq(Nat) /\ <<>> \in Seq(Nat)
        BY DEF ReadTypes
    <3> QED
        BY <2>1, <3>1, TakeFromType
  <2> QED
    BY <1>1, <2>2 DEF StartRead, packetVars
<1>2. CASE Timeout
    BY <1>2 DEF Timeout, FailRead, ReadTypes
<1>3. CASE TakeData
  <2>1. Head(wire) \in Packet /\ Tail(wire) \in Seq(Packet)
    BY <1>3 DEF TakeData, Complete
  <2>2. inBuf \o Payload(Head(wire)) \in Seq(Nat)
    BY <2>1, PacketLength DEF ReadTypes
  <2>3. CASE pc = "read"
    <3>1. TakeFrom(inBuf \o Payload(Head(wire)), want, got) /\ want \in Nat \ {0}
        BY <1>3, <2>3 DEF TakeData, ReadTypes
    <3>2. /\ ReadTypes' /\ pc' \in {"idle", "read"}
          /\ pc' = "idle" => got' = <<>>
          /\ pc' = "read" => want' > 0
        BY <2>2, <3>1, TakeFromType DEF ReadTypes
    <3> QED
        BY <1>3, <2>1, <3>2 DEF TakeData, Complete
  <2>4. CASE pc # "read"
    <3>1. ReadTypes'
      <4>1. inBuf' = inBuf \o Payload(Head(wire)) /\ FailRead
        BY <1>3, <2>4 DEF TakeData
      <4>2. inBuf' \in Seq(Nat)
        BY <2>2, <4>1, Zenon
      <4> QED
        BY <4>1, <4>2 DEF FailRead, ReadTypes
    <3> QED
        BY <1>3, <2>1, <2>4, <3>1 DEF TakeData, Complete, FailRead
  <2> QED
    BY <2>3, <2>4
<1>4. CASE TakeMarker
  <2>1. Tail(wire) \in Seq(Packet)
    BY <1>4 DEF TakeMarker, Complete
  <2>2. <<Marker>> \in Seq([shared : BOOLEAN, bytes : Seq(Nat)])
    BY DEF Marker, Own
  <2>3. CASE pc = "read"
    <3>1. <<<<>>>> \in Seq(Seq(Nat))
        OBVIOUS
    <3>2. sendPcks' = <<Marker>> /\ written' = <<<<>>>>
        BY <1>4, <2>3 DEF TakeMarker
    <3>3. /\ sendPcks' \in Seq([shared : BOOLEAN, bytes : Seq(Nat)])
          /\ written' \in Seq(Seq(Nat))
        BY <2>2, <3>1, <3>2, Zenon
    <3> QED
        BY <1>4, <2>1, <2>3, <3>3 DEF TakeMarker, Complete, ReadTypes
  <2>4. CASE pc # "read"
    BY <1>4, <2>1, <2>4 DEF TakeMarker, Complete, FailRead, ReadTypes
  <2> QED
    BY <2>3, <2>4
<1>5. CASE TakeResend
  <2>1. Tail(wire) \in Seq(Packet)
    BY <1>5 DEF TakeResend, Complete
  <2> QED
    BY <1>5, <2>1 DEF TakeResend, Complete, readVars, ReadTypes
<1>6. CASE TakeShort
    BY <1>6 DEF TakeShort, FailRead, ReadTypes
<1> QED
    BY <1>1, <1>2, <1>3, <1>4, <1>5, <1>6

(* Lost changes nothing, and a stuttering step neither.                    *)
LEMMA TypesKept ==
    Types /\ Phases /\ [Next]_vars => Types' /\ Phases'
<1> SUFFICES ASSUME Types, Phases, [Next]_vars
             PROVE  Types' /\ Phases'
    OBVIOUS
<1>1. CASE UNCHANGED vars
    BY <1>1 DEF vars, Types, Phases, WriteTypes, PacketTypes, ReadTypes
<1> QED
    BY <1>1, WritesKeepTypes, SocketKeepsTypes, ReadsKeepTypes DEF Next, Lost

LEMMA InitTypes == Init => Types /\ Phases
<1> USE LengthsAssumption
<1>1. Init => WriteTypes
    BY DEF Init, WriteTypes
<1>2. Init => PacketTypes
  <2>1. <<>> \in Seq(Packet)
    BY EmptySeq
  <2>2. Init => wire \in Seq(Packet) /\ cut \in BOOLEAN
    BY <2>1, Zenon DEF Init
  <2> QED
    BY <2>2 DEF Init, PacketTypes
<1>3. Init => ReadTypes
    BY DEF Init, ReadTypes
<1>4. Init => Phases
    BY DEF Init, Phases
<1> QED
    BY <1>1, <1>2, <1>3, <1>4 DEF Init, Types

(* Every variable of the packet layer stays in its type.                   *)
THEOREM TypeCorrect == Spec => []TypeOK
<1>1. Types => TypeOK
    BY DEF Types, WriteTypes, PacketTypes, ReadTypes, TypeOK, Packet
<1> QED
    BY <1>1, InitTypes, TypesKept, PTL DEF Spec

-----------------------------------------------------------------------------
(* The frame.  Until a deadline cuts a header, off is what was read of the *)
(* first packet, and lastPacket with the bytes still due is a header while *)
(* one is read and the whole packet after that, between reads too.         *)
Frame ==
    /\ pc # "lost"
    /\ wire = <<>> => off = 0
    /\ rd = "none" /\ remaining = 0 => off = 0
    /\ rd = "head" => off = held /\ held + remaining = HeadLen /\ remaining > 0
    /\ rd \in {"body", "resume"} \/ (rd = "none" /\ remaining > 0) =>
          /\ wire # <<>> /\ remaining > 0
          /\ off = held /\ held + remaining = PacketLen(Head(wire))
    /\ rd = "done" => off = held /\ remaining = 0 /\ held = PacketLen(Head(wire))

FrameInv == ~cut => Frame

LEMMA FrameStep ==
    ASSUME Types, Types', Phases, FrameInv, [Next]_vars
    PROVE  FrameInv'
<1> SUFFICES ASSUME ~cut' PROVE Frame'
    BY DEF FrameInv
<1> USE LengthsAssumption DEF Types, Phases, Frame, PacketTypes
<1>1. ~cut /\ Frame
    BY DEF FrameInv, Next, vars, NewCall, WriteRPC, WriteInterrupt, ServerSends, StartRead,
        EnterPacket, Receive, Timeout, TakeData, TakeMarker, TakeResend, TakeShort, Lost,
        Complete, packetVars
<1>2. ASSUME NEW n \in Requests, NewCall(n) PROVE Frame'
    BY <1>1, <1>2 DEF NewCall, packetVars
<1>3. CASE WriteRPC
    BY <1>1, <1>3 DEF WriteRPC, packetVars
<1>4. CASE WriteInterrupt
    BY <1>1, <1>4 DEF WriteInterrupt, packetVars
<1>5. ASSUME NEW t \in {"data", "marker", "resend"}, NEW n \in Payloads \cup {0},
             ServerSends(t, n)
      PROVE  Frame'
  <2>1. wire # <<>> => wire' # <<>> /\ Head(wire') = Head(wire)
    BY <1>5 DEF ServerSends
  <2> QED
    BY <1>1, <1>5, <2>1 DEF ServerSends
<1>6. ASSUME NEW n \in ReadSizes, StartRead(n) PROVE Frame'
    BY <1>1, <1>6 DEF StartRead, TakeFrom, packetVars
<1>7. CASE EnterPacket
  <2>1. CASE remaining > 0
    BY <1>1, <1>7, <2>1 DEF EnterPacket
  <2>2. CASE ~(remaining > 0)
    <3>1. remaining = 0 /\ off = 0
        BY <1>1, <1>7, <2>2 DEF EnterPacket
    <3> QED
        BY <1>1, <1>7, <3>1 DEF EnterPacket
  <2> QED
    BY <2>1, <2>2
<1>8. ASSUME NEW k \in 1 .. remaining, Receive(k) PROVE Frame'
  <2>1. /\ BodyLen(Head(wire)) \in Nat
        /\ PacketLen(Head(wire)) = HeadLen + BodyLen(Head(wire))
    BY <1>8, PacketLength DEF Receive
  <2>2. /\ off' = off + k /\ held' = held + k /\ wire' = wire /\ wire # <<>>
        /\ pc' = pc /\ rd \in {"head", "body", "resume"}
    BY <1>8 DEF Receive
  <2>3. CASE k < remaining
    <3>1. remaining' = remaining - k /\ rd' = rd
        BY <1>8, <2>3 DEF Receive
    <3> QED
        BY <1>1, <2>2, <2>3, <3>1
  <2>4. CASE ~(k < remaining) /\ rd = "head"
    <3>0. k = remaining
        BY <2>4
    <3>1. remaining' = BodyLen(Head(wire)) /\ rd' = IF remaining' > 0 THEN "body" ELSE "done"
        BY <1>8, <2>4 DEF Receive
    <3> QED
        BY <1>1, <2>1, <2>2, <2>4, <3>0, <3>1
  <2>5. CASE ~(k < remaining) /\ rd # "head"
    <3>0. k = remaining
        BY <2>5
    <3>1. remaining' = 0 /\ rd' = "done"
        BY <1>8, <2>5 DEF Receive
    <3> QED
        BY <1>1, <2>1, <2>2, <2>5, <3>0, <3>1
  <2> QED
    BY <2>3, <2>4, <2>5
<1>9. CASE Timeout
  <2>1. /\ rd' = "none" /\ pc' = "idle" /\ wire' = wire /\ off' = off /\ held' = held
        /\ rd \in {"head", "body", "resume"}
    BY <1>9 DEF Timeout, FailRead
  <2>2. CASE rd = "head"
    <3>0. ~(0 < held)
        BY <1>9, <2>2, Zenon DEF Timeout
    <3>1. held = 0 /\ remaining' = 0
        BY <1>1, <1>9, <2>2, <3>0 DEF Timeout
    <3> QED
        BY <1>1, <2>1, <2>2, <3>1
  <2>3. CASE rd # "head"
    <3>1. remaining' = remaining
        BY <1>9, <2>3 DEF Timeout
    <3> QED
        BY <1>1, <2>1, <2>3, <3>1
  <2> QED
    BY <2>2, <2>3
<1>10. CASE TakeData \/ TakeMarker \/ TakeResend
  <2>1. rd = "done" /\ off' = 0 /\ rd' = "none" /\ remaining' = remaining
    BY <1>10 DEF TakeData, TakeMarker, TakeResend, Complete
  <2>2. pc' # "lost"
    BY <1>1, <1>10 DEF TakeData, TakeMarker, TakeResend, TakeFrom, FailRead
  <2> QED
    BY <1>1, <2>1, <2>2
<1>11. CASE TakeShort
    BY <1>1, <1>11 DEF TakeShort
<1>12. CASE Lost
    BY <1>1, <1>12 DEF Lost
<1>13. CASE UNCHANGED vars
    BY <1>1, <1>13 DEF vars
<1> QED
    BY <1>2, <1>3, <1>4, <1>5, <1>6, <1>7, <1>8, <1>9, <1>10, <1>11, <1>12, <1>13 DEF Next

(* Only a deadline inside a header loses the frame: Session.read and       *)
(* readPacketData keep lastPacket and remainingBytes in step with the      *)
(* socket through every other failure, call and marker.                    *)
THEOREM FrameIsKept == Spec => []FrameKept
<1>1. Init => FrameInv
    BY DEF Init, FrameInv, Frame
<1>2. Types /\ Phases /\ FrameInv /\ [Next]_vars => FrameInv'
    BY FrameStep, TypesKept
<1>3. Types /\ Phases /\ FrameInv => FrameKept
    BY LengthsAssumption DEF Types, Phases, PacketTypes, FrameInv, Frame, FrameKept
<1> QED
    BY <1>1, <1>2, <1>3, InitTypes, TypesKept, PTL DEF Spec

-----------------------------------------------------------------------------
(* The payload.                                                            *)

(* A read that takes from bytes that continue its own gives bytes that     *)
(* continue what was taken before it, and leaves the rest in order.        *)
LEMMA TakeFromInOrder ==
    ASSUME NEW n \in Nat \ {0}, NEW l \in Nat, NEW m \in Nat, taken \in Nat,
           TakeFrom(Bytes(taken + l, m), n, Bytes(taken, l))
    PROVE  /\ got' = Bytes(taken', Len(got'))
           /\ inBuf' = Bytes(taken' + Len(got'), Len(inBuf'))
           /\ taken' + Len(got') + Len(inBuf') = taken + l + m
           /\ taken' \in Nat
           /\ \/ /\ taken < taken' /\ taken' <= taken + l + m
                 /\ result' = Bytes(taken, taken' - taken)
              \/ UNCHANGED <<taken, result>>
<1> DEFINE b == Bytes(taken + l, m)
           g == Bytes(taken, l)
           k == Least(n, m)
           all == g \o SubSeq(b, 1, k)
           rest == SubSeq(b, k + 1, Len(b))
<1>0. taken + l \in Nat
    OBVIOUS
<1>1. k \in 0 .. m /\ k <= n /\ m - k \in Nat /\ l + k \in Nat /\ k \in Nat
    BY DEF Least
<1>2. Len(b) = m /\ Len(g) = l
    BY <1>0, BytesType
<1>3. all = Bytes(taken, l + k) /\ rest = Bytes(taken + l + k, m - k)
  <2>1. SubSeq(b, 1, k) = Bytes(taken + l, k) /\ SubSeq(b, k + 1, m) = Bytes(taken + l + k, m - k)
    BY <1>0, <1>1, BytesCut, Zenon
  <2>2. g \o Bytes(taken + l, k) = Bytes(taken, l + k)
    BY <1>1, BytesConcat, Zenon
  <2> QED
    BY <1>2, <2>1, <2>2, Zenon
<1>4. Len(all) = l + k /\ Len(rest) = m - k
  <2>1. taken + l + k \in Nat
    BY <1>0, <1>1
  <2> QED
    BY <1>1, <1>3, <2>1, BytesType, ZenonT(30)
<1>5. /\ inBuf' = rest
      /\ IF k = n
         THEN /\ result' = all
              /\ taken' = taken + l + k
              /\ got' = <<>>
         ELSE /\ got' = all
              /\ UNCHANGED <<taken, result>>
    BY <1>2 DEF TakeFrom
<1>6. \A j \in Nat : Bytes(j, 0) = <<>>
    BY DEF Bytes
<1> HIDE DEF k, all, rest
<1>7. CASE k = n
  <2>1. taken' = taken + l + k /\ got' = <<>> /\ result' = all /\ Len(got') = 0
    BY <1>5, <1>7
  <2>2. got' = Bytes(taken', 0)
    BY <1>1, <1>6, <2>1
  <2>3. taken' + 0 = taken + l + k /\ taken' - taken = l + k
    BY <1>1, <2>1
  <2> QED
    BY <1>1, <1>3, <1>4, <1>5, <1>7, <2>1, <2>2, <2>3
<1>8. CASE k # n
  <2>1. taken' = taken /\ result' = result /\ got' = all
    BY <1>5, <1>8
  <2>2. taken + (l + k) = taken + l + k
    BY <1>1
  <2> QED
    BY <1>1, <1>3, <1>4, <1>5, <2>1, <2>2
<1> QED
    BY <1>7, <1>8

(* Packets q carry, in order, bytes up to u.                               *)
Chained(q, u) ==
    \A i \in 1 .. Len(q) :
        /\ q[i].first + q[i].n = (IF i = Len(q) THEN u ELSE q[i + 1].first)
        /\ q[i].first + q[i].n <= u
        /\ q[i].type # "data" => q[i].n = 0

(* The payload that left the socket is in order.                           *)
InOrder ==
    /\ got = Bytes(taken, Len(got))
    /\ inBuf = Bytes(taken + Len(got), Len(inBuf))
    /\ taken + Len(got) + Len(inBuf) = Unread

PayloadInv == Chained(wire, sent) /\ (~cut => InOrder)

(* The first byte of the packets on the socket is one of those sent.       *)
LEMMA UnreadSent ==
    ASSUME Types, Chained(wire, sent)
    PROVE  Unread \in Nat /\ Unread <= sent
<1>1. CASE wire = <<>>
    BY <1>1 DEF Unread, Types, PacketTypes
<1>2. CASE wire # <<>>
  <2>1. wire[1] \in Packet /\ 1 \in 1 .. Len(wire) /\ Head(wire) = wire[1]
    BY <1>2 DEF Types, PacketTypes
  <2>2. wire[1].first \in Nat /\ wire[1].n \in Nat
    BY <2>1 DEF Packet
  <2>3. wire[1].first + wire[1].n <= sent
    BY <2>1 DEF Chained
  <2> QED
    BY <1>2, <2>1, <2>2, <2>3 DEF Unread, Types, PacketTypes
<1> QED
    BY <1>1, <1>2

(* A packet taken off the socket is the next part of the payload.          *)
LEMMA ChainedTail ==
    ASSUME NEW q \in Seq(Packet), NEW u \in Nat, Chained(q, u), q # <<>>
    PROVE  /\ Chained(Tail(q), u)
           /\ Head(q) \in Packet
           /\ Head(q).type # "data" => Head(q).n = 0
           /\ Head(q).first + Head(q).n
                  = (IF Tail(q) = <<>> THEN u ELSE Head(Tail(q)).first)
<1> DEFINE m == Len(q) - 1
           r == Tail(q)
<1>1. /\ Len(q) \in Nat \ {0} /\ r \in Seq(Packet) /\ Len(r) = m /\ m \in Nat
      /\ \A i \in 1 .. m : r[i] = q[i + 1]
      /\ Head(q) = q[1] /\ q[1] \in Packet /\ 1 \in 1 .. Len(q)
    OBVIOUS
<1> HIDE DEF r
<1>2. ASSUME NEW i \in 1 .. m
      PROVE  /\ r[i].first + r[i].n = (IF i = m THEN u ELSE r[i + 1].first)
             /\ r[i].first + r[i].n <= u
             /\ r[i].type # "data" => r[i].n = 0
  <2>1. /\ i + 1 \in 1 .. Len(q) /\ (i # m => i + 1 \in 1 .. m)
        /\ i + 1 = Len(q) <=> i = m
    BY <1>1
  <2>2. r[i] = q[i + 1]
    BY <1>1, Zenon
  <2>3. i # m => r[i + 1] = q[(i + 1) + 1]
    BY <1>1, <2>1, Zenon
  <2> QED
    BY <2>1, <2>2, <2>3, Zenon DEF Chained
<1>3. Chained(r, u)
    BY <1>1, <1>2, Zenon DEF Chained
<1>4. /\ q[1].first + q[1].n = (IF 1 = Len(q) THEN u ELSE q[1 + 1].first)
      /\ q[1].type # "data" => q[1].n = 0
    BY <1>1, Zenon DEF Chained
<1>5. CASE Len(q) = 1
  <2>1. r = <<>>
    BY <1>1, <1>5
  <2> QED
    BY <1>1, <1>3, <1>4, <1>5, <2>1 DEF r
<1>6. CASE Len(q) # 1
  <2>1. 1 \in 1 .. m
    BY <1>1, <1>6
  <2>2. r[1] = q[1 + 1]
    BY <1>1, <2>1, Zenon
  <2>3. r # <<>> /\ Head(r) = r[1]
    BY <1>1, <2>1
  <2> QED
    BY <1>1, <1>3, <1>4, <1>6, <2>2, <2>3, Zenon DEF r
<1> QED
    BY <1>5, <1>6

(* What the server sends goes to the end.                                  *)
LEMMA ChainedAppend ==
    ASSUME NEW q \in Seq(Packet), NEW u \in Nat, Chained(q, u),
           NEW p \in Packet, p.first = u, p.type # "data" => p.n = 0
    PROVE  /\ Chained(Append(q, p), u + p.n)
           /\ Append(q, p) # <<>>
           /\ Head(Append(q, p)).first = (IF q = <<>> THEN u ELSE Head(q).first)
<1> DEFINE r == Append(q, p)
<1>1. /\ Len(r) = Len(q) + 1 /\ Len(q) \in Nat /\ r # <<>> /\ r \in Seq(Packet)
      /\ \A i \in 1 .. Len(q) : r[i] = q[i]
      /\ r[Len(q) + 1] = p
    BY AppendProperties
<1>2. p.n \in Nat
    BY DEF Packet
<1> HIDE DEF r
<1>3. ASSUME NEW i \in 1 .. Len(r)
      PROVE  /\ r[i].first + r[i].n = (IF i = Len(r) THEN u + p.n ELSE r[i + 1].first)
             /\ r[i].first + r[i].n <= u + p.n
             /\ r[i].type # "data" => r[i].n = 0
  <2>1. CASE i = Len(r)
    BY <1>1, <1>2, <2>1
  <2>2. CASE i # Len(r)
    <3>1. i \in 1 .. Len(q) /\ r[i] = q[i] /\ q[i] \in Packet
        BY <1>1, <2>2
    <3>2. q[i].first \in Nat /\ q[i].n \in Nat
        BY <3>1 DEF Packet
    <3>3. r[i + 1].first = (IF i = Len(q) THEN u ELSE q[i + 1].first)
        BY <1>1, <3>1
    <3> QED
        BY <1>2, <2>2, <3>1, <3>2, <3>3 DEF Chained
  <2> QED
    BY <2>1, <2>2
<1>4. Chained(r, u + p.n)
    BY <1>3 DEF Chained
<1>5. Head(r).first = (IF q = <<>> THEN u ELSE Head(q).first)
  <2>1. Head(r) = r[1] /\ (q # <<>> => Head(q) = q[1] /\ 1 \in 1 .. Len(q))
    BY <1>1
  <2>2. q = <<>> => r[1] = p
    BY <1>1
  <2> QED
    BY <1>1, <2>1, <2>2
<1> QED
    BY <1>1, <1>4, <1>5 DEF r

(* A step that leaves the payload where it is.                             *)
LEMMA PayloadUntouched ==
    ASSUME PayloadInv, ~cut' => ~cut,
           sent' = sent, Chained(wire', sent), Unread' = Unread,
           UNCHANGED <<inBuf, got, taken, result>>
    PROVE  /\ PayloadInv'
           /\ [Stream!Next]_(Stream!vars)
<1>1. PayloadInv'
    BY DEF PayloadInv, InOrder
<1>2. [Stream!Next]_(Stream!vars)
  <2>1. CASE cut'
    BY <2>1 DEF Stream!Next, Stream!Break
  <2>2. CASE ~cut'
    BY <2>2 DEF Stream!vars
  <2> QED
    BY <2>1, <2>2
<1> QED
    BY <1>1, <1>2

(* A read that fails drops what it had, and a new call what was buffered.  *)
LEMMA PayloadDropped ==
    ASSUME Types, PayloadInv, ~cut' => ~cut,
           sent' = sent, Chained(wire', sent), Unread' = Unread,
           got' = <<>>, result' = <<>>,
           \/ taken' = taken + Len(got) /\ inBuf' = inBuf
           \/ got = <<>> /\ taken' = taken + Len(inBuf) /\ inBuf' = <<>>
    PROVE  /\ PayloadInv'
           /\ [Stream!Next]_(Stream!vars)
<1> USE DEF Types, ReadTypes
<1>1. Bytes(taken', 0) = <<>>
    BY DEF Bytes
<1>2. ~cut => InOrder' /\ taken <= taken' /\ taken' <= sent
  <2> SUFFICES ASSUME ~cut PROVE InOrder' /\ taken <= taken' /\ taken' <= sent
    OBVIOUS
  <2>1. InOrder /\ Unread \in Nat /\ Unread <= sent /\ sent \in Nat /\ Unread' = Unread
    BY UnreadSent DEF PayloadInv, PacketTypes
  <2>2. Len(got') = 0 /\ Len(got) \in Nat /\ Len(inBuf) \in Nat
    OBVIOUS
  <2>3. CASE taken' = taken + Len(got) /\ inBuf' = inBuf
    <3>1. taken' + Len(got') = taken + Len(got)
        BY <2>2, <2>3
    <3> QED
        BY <1>1, <2>1, <2>2, <2>3, <3>1 DEF InOrder
  <2>4. CASE got = <<>> /\ taken' = taken + Len(inBuf) /\ inBuf' = <<>>
    <3>1. taken' + Len(got') = taken' /\ Len(inBuf') = 0 /\ Len(got) = 0
        BY <2>2, <2>4
    <3> QED
        BY <1>1, <2>1, <2>2, <2>4, <3>1 DEF InOrder
  <2> QED
    BY <2>3, <2>4
<1>3. PayloadInv'
    BY <1>2 DEF PayloadInv
<1>4. [Stream!Next]_(Stream!vars)
  <2>1. CASE cut'
    BY <2>1 DEF Stream!Next, Stream!Break
  <2>2. CASE ~cut'
    BY <1>2, <2>2 DEF Stream!Next, Stream!Skip
  <2> QED
    BY <2>1, <2>2
<1> QED
    BY <1>3, <1>4

(* A marker or a resend carries no payload.                                *)
LEMMA PayloadLessTaken ==
    ASSUME Types, Phases, PayloadInv,
           Complete("marker") \/ Complete("resend")
    PROVE  sent' = sent /\ cut' = cut /\ Chained(wire', sent) /\ Unread' = Unread
<1> USE DEF Types, PacketTypes, Phases
<1>1. /\ wire # <<>> /\ wire' = Tail(wire) /\ sent' = sent /\ cut' = cut
      /\ Head(wire).type # "data"
    BY DEF Complete, serverVars
<1>2. /\ Chained(Tail(wire), sent)
      /\ Head(wire) \in Packet
      /\ Head(wire).n = 0
      /\ Head(wire).first + Head(wire).n
            = (IF Tail(wire) = <<>> THEN sent ELSE Head(Tail(wire)).first)
    BY <1>1, ChainedTail DEF PayloadInv
<1>3. Unread = Head(wire).first /\ Head(wire).first \in Nat
    BY <1>1, <1>2 DEF Unread, Packet
<1>4. Unread' = (IF Tail(wire) = <<>> THEN sent ELSE Head(Tail(wire)).first)
    BY <1>1, Zenon DEF Unread
<1>5. Head(wire).first + Head(wire).n = Head(wire).first
    BY <1>2, <1>3
<1> QED
    BY <1>1, <1>2, <1>3, <1>4, <1>5, Zenon

(* A data packet: its payload continues inBuffer.                          *)
LEMMA PayloadTaken ==
    ASSUME Types, Phases, PayloadInv, TakeData
    PROVE  /\ PayloadInv'
           /\ [Stream!Next]_(Stream!vars)
<1> USE DEF Types, PacketTypes, ReadTypes, Phases
<1> DEFINE p == Head(wire)
<1>1. /\ wire # <<>> /\ wire' = Tail(wire) /\ sent' = sent /\ cut' = cut
    BY DEF TakeData, Complete, serverVars
<1>2. /\ Chained(Tail(wire), sent)
      /\ p \in Packet
      /\ p.first + p.n = (IF Tail(wire) = <<>> THEN sent ELSE Head(Tail(wire)).first)
    BY <1>1, ChainedTail DEF PayloadInv
<1>3. Unread = p.first /\ p.first \in Nat /\ p.n \in Nat
    BY <1>1, <1>2 DEF Unread, Packet
<1>4. Unread' = p.first + p.n
  <2>1. Unread' = (IF Tail(wire) = <<>> THEN sent ELSE Head(Tail(wire)).first)
    BY <1>1, Zenon DEF Unread
  <2> QED
    BY <1>2, <2>1
<1>5. p.first + p.n <= sent
  <2>1. p = wire[1] /\ 1 \in 1 .. Len(wire)
    BY <1>1
  <2> QED
    BY <2>1 DEF PayloadInv, Chained
<1>6. CASE cut
    BY <1>1, <1>2, <1>6 DEF PayloadInv, Stream!Next, Stream!Break
<1>7. CASE ~cut
  <2>1. InOrder
    BY <1>7 DEF PayloadInv
  <2> DEFINE l == Len(got)
             m == Len(inBuf) + p.n
  <2>2. l \in Nat /\ m \in Nat /\ taken + l + Len(inBuf) = p.first /\ Len(inBuf) \in Nat
    BY <1>3, <2>1, SMTT(30) DEF InOrder
  <2>3. inBuf \o Payload(p) = Bytes(taken + l, m)
    <3>1. inBuf = Bytes(taken + l, Len(inBuf))
        BY <2>1 DEF InOrder
    <3>2. Payload(p) = Bytes(taken + l + Len(inBuf), p.n)
        BY <2>2 DEF Payload
    <3>3. Bytes(taken + l, Len(inBuf)) \o Bytes(taken + l + Len(inBuf), p.n) = Bytes(taken + l, m)
      <4> DEFINE x == taken + l
                 y == Len(inBuf)
                 z == p.n
      <4>1. x \in Nat /\ y \in Nat /\ z \in Nat
        BY <1>3, <2>2
      <4> HIDE DEF x, y, z
      <4>2. Bytes(x, y) \o Bytes(x + y, z) = Bytes(x, y + z)
        BY ONLY <4>1, BytesConcat
      <4> QED
        BY <4>2, Zenon DEF x, y, z
    <3> QED
        BY <3>1, <3>2, <3>3, Zenon
  <2>4. got = Bytes(taken, l)
    BY <2>1 DEF InOrder
  <2>5. taken + l + m = p.first + p.n
    BY <1>3, <2>2
  <2> HIDE DEF l, m, p
  <2>6. CASE pc = "read"
    <3>1. TakeFrom(Bytes(taken + l, m), want, Bytes(taken, l)) /\ want \in Nat \ {0}
      <4>1. TakeFrom(inBuf \o Payload(p), want, got)
        BY <2>6 DEF TakeData, p
      <4>2. want \in Nat \ {0}
        BY <2>6
      <4> QED
        BY <2>3, <2>4, <4>1, <4>2, Zenon
    <3>2. /\ got' = Bytes(taken', Len(got'))
          /\ inBuf' = Bytes(taken' + Len(got'), Len(inBuf'))
          /\ taken' + Len(got') + Len(inBuf') = taken + l + m
          /\ taken' \in Nat
          /\ \/ /\ taken < taken' /\ taken' <= taken + l + m
                /\ result' = Bytes(taken, taken' - taken)
             \/ UNCHANGED <<taken, result>>
        BY <2>2, <3>1, TakeFromInOrder
    <3>3. PayloadInv'
        BY <1>1, <1>2, <1>4, <2>5, <3>2 DEF PayloadInv, InOrder
    <3>4. [Stream!Next]_(Stream!vars)
      <4>1. CASE UNCHANGED <<taken, result>>
        BY <1>1, <4>1 DEF Stream!vars
      <4>2. CASE /\ taken < taken' /\ taken' <= taken + l + m
                 /\ result' = Bytes(taken, taken' - taken)
        <5>1. taken' <= sent
            BY <1>3, <1>5, <2>2, <2>5, <3>2, <4>2 DEF p
        <5> QED
            BY <1>1, <1>7, <4>2, <5>1 DEF Stream!Next, Stream!Read, Bytes
      <4> QED
        BY <3>2, <4>1, <4>2
    <3> QED
        BY <3>3, <3>4
  <2>7. CASE pc # "read"
    <3>1. /\ inBuf' = Bytes(taken + l, m) /\ taken' = taken + l /\ got' = <<>> /\ result' = <<>>
      <4>1. inBuf' = inBuf \o Payload(p) /\ FailRead
        BY <2>7 DEF TakeData, p
      <4> QED
        BY <2>3, <4>1, Zenon DEF FailRead, l
    <3>2. Len(inBuf') = m /\ Len(got') = 0 /\ Bytes(taken', 0) = <<>>
      <4>1. taken + l \in Nat
        BY <2>2
      <4>2. Len(Bytes(taken + l, m)) = m
        BY <2>2, <4>1, BytesType
      <4>3. Bytes(taken', 0) = <<>>
        BY DEF Bytes
      <4> QED
        BY <3>1, <4>2, <4>3
    <3>3. taken' + Len(got') = taken + l
        BY <2>2, <3>1, <3>2
    <3>4. PayloadInv'
        BY <1>1, <1>2, <1>4, <2>5, <3>1, <3>2, <3>3 DEF PayloadInv, InOrder
    <3>5. taken <= taken' /\ taken' <= sent
        BY <1>3, <1>5, <2>2, <2>5, <3>1 DEF p
    <3>6. [Stream!Next]_(Stream!vars)
        BY <1>1, <1>7, <3>1, <3>5 DEF Stream!Next, Stream!Skip
    <3> QED
        BY <3>4, <3>6
  <2> QED
    BY <2>6, <2>7
<1> QED
    BY <1>6, <1>7

(* Every step keeps the payload in order and is a step of the stream.      *)
LEMMA PayloadStep ==
    ASSUME Types, Phases, PayloadInv, [Next]_vars
    PROVE  /\ PayloadInv'
           /\ [Stream!Next]_(Stream!vars)
<1> DEFINE Goal == PayloadInv' /\ [Stream!Next]_(Stream!vars)
<1> SUFFICES Goal
    OBVIOUS
<1> HIDE DEF Goal
<1>0. Chained(wire, sent)
    BY DEF PayloadInv
<1>1. ASSUME UNCHANGED <<wire, sent, inBuf, got, taken, result>>, ~cut' => ~cut
      PROVE  Goal
  <2>1. Unread' = Unread /\ Chained(wire', sent) /\ sent' = sent
    BY <1>0, <1>1 DEF Unread
  <2> QED
    BY <1>1, <2>1, PayloadUntouched DEF Goal
<1>2. ASSUME FailRead, UNCHANGED <<wire, sent, inBuf>>, ~cut' => ~cut
      PROVE  Goal
  <2>1. Unread' = Unread /\ Chained(wire', sent) /\ sent' = sent
    BY <1>0, <1>2 DEF Unread
  <2>2. got' = <<>> /\ result' = <<>> /\ taken' = taken + Len(got) /\ inBuf' = inBuf
    BY <1>2 DEF FailRead
  <2> QED
    BY <1>2, <2>1, <2>2, PayloadDropped DEF Goal
<1>3. ASSUME NEW n \in Requests, NewCall(n) PROVE Goal
  <2>1. Unread' = Unread /\ Chained(wire', sent) /\ sent' = sent /\ (~cut' => ~cut)
    BY <1>0, <1>3 DEF Unread, NewCall, packetVars, serverVars
  <2>2. got = <<>> /\ got' = <<>> /\ result' = <<>> /\ taken' = taken + Len(inBuf) /\ inBuf' = <<>>
    BY <1>3 DEF NewCall, Phases
  <2> QED
    BY <2>1, <2>2, PayloadDropped DEF Goal
<1>4. CASE WriteRPC \/ WriteInterrupt
    BY <1>1, <1>4 DEF WriteRPC, WriteInterrupt, packetVars, serverVars, readVars
<1>5. ASSUME NEW t \in {"data", "marker", "resend"}, NEW n \in Payloads \cup {0},
             ServerSends(t, n)
      PROVE  Goal
  <2> DEFINE p == [type |-> t, first |-> sent, n |-> n]
  <2>1. p \in Packet /\ n \in Nat /\ p.first = sent /\ p.n = n /\ (p.type # "data" => p.n = 0)
    BY <1>5, LengthsAssumption DEF ServerSends, Packet, Types, PacketTypes
  <2>2. /\ wire' = Append(wire, p) /\ sent' = sent + n /\ cut' = cut
        /\ UNCHANGED <<inBuf, got, taken, result>>
    BY <1>5 DEF ServerSends, readVars
  <2> HIDE DEF p
  <2>3. /\ Chained(wire', sent') /\ wire' # <<>>
        /\ Head(wire').first = (IF wire = <<>> THEN sent ELSE Head(wire).first)
    <3>1. wire \in Seq(Packet) /\ sent \in Nat
        BY DEF Types, PacketTypes
    <3>2. /\ Chained(Append(wire, p), sent + p.n)
          /\ Append(wire, p) # <<>>
          /\ Head(Append(wire, p)).first = (IF wire = <<>> THEN sent ELSE Head(wire).first)
        BY <1>0, <2>1, <3>1, ChainedAppend
    <3> QED
        BY <2>1, <2>2, <3>2, Zenon
  <2>4. Unread' = Unread
    BY <2>3 DEF Unread
  <2>5. PayloadInv'
    BY <2>2, <2>3, <2>4 DEF PayloadInv, InOrder
  <2>6. [Stream!Next]_(Stream!vars)
    <3>1. CASE cut
        BY <2>2, <3>1 DEF Stream!Next, Stream!Break
    <3>2. CASE ~cut /\ n = 0
        BY <2>2, <3>2 DEF Stream!vars, Types, PacketTypes
    <3>3. CASE ~cut /\ n # 0
        BY <2>1, <2>2, <3>3 DEF Stream!Next, Stream!Send, Types, PacketTypes
    <3> QED
        BY <3>1, <3>2, <3>3
  <2> QED
    BY <2>5, <2>6 DEF Goal
<1>6. ASSUME NEW n \in ReadSizes, StartRead(n) PROVE Goal
  <2>1. /\ UNCHANGED <<wire, sent, cut>> /\ got = <<>> /\ n \in Nat \ {0}
        /\ TakeFrom(inBuf, n, <<>>)
    BY <1>6, LengthsAssumption DEF StartRead, packetVars, serverVars, Phases
  <2>2. Unread' = Unread
    BY <2>1 DEF Unread
  <2>3. CASE cut
    BY <1>0, <2>1, <2>3 DEF Goal, PayloadInv, Stream!Next, Stream!Break
  <2>4. CASE ~cut
    <3>1. /\ InOrder /\ taken \in Nat /\ Len(got) = 0 /\ Len(inBuf) \in Nat
          /\ Unread \in Nat /\ Unread <= sent
        BY <1>0, <2>1, <2>4, UnreadSent DEF PayloadInv, Types, ReadTypes
    <3>2. inBuf = Bytes(taken + 0, Len(inBuf)) /\ <<>> = Bytes(taken, 0)
        BY <2>1, <3>1, Zenon DEF InOrder
    <3>3. TakeFrom(Bytes(taken + 0, Len(inBuf)), n, Bytes(taken, 0))
        BY <2>1, <3>2, Zenon
    <3>4. /\ got' = Bytes(taken', Len(got'))
          /\ inBuf' = Bytes(taken' + Len(got'), Len(inBuf'))
          /\ taken' + Len(got') + Len(inBuf') = taken + 0 + Len(inBuf)
          /\ taken' \in Nat
          /\ \/ /\ taken < taken' /\ taken' <= taken + 0 + Len(inBuf)
                /\ result' = Bytes(taken, taken' - taken)
             \/ UNCHANGED <<taken, result>>
        BY <2>1, <3>1, <3>3, TakeFromInOrder
    <3>5. taken + 0 + Len(inBuf) = Unread
        BY <3>1 DEF InOrder
    <3>6. PayloadInv'
        BY <1>0, <2>1, <2>2, <3>4, <3>5 DEF PayloadInv, InOrder
    <3>7. [Stream!Next]_(Stream!vars)
      <4>1. CASE UNCHANGED <<taken, result>>
        BY <2>1, <4>1 DEF Stream!vars
      <4>2. CASE /\ taken < taken' /\ taken' <= taken + 0 + Len(inBuf)
                 /\ result' = Bytes(taken, taken' - taken)
        <5>1. taken' <= sent
            BY <3>1, <3>4, <3>5, <4>2 DEF Types, PacketTypes
        <5> QED
            BY <2>1, <2>4, <4>2, <5>1 DEF Stream!Next, Stream!Read, Bytes
      <4> QED
        BY <3>4, <4>1, <4>2
    <3> QED
        BY <3>6, <3>7 DEF Goal
  <2> QED
    BY <2>3, <2>4
<1>7. CASE EnterPacket
    BY <1>1, <1>7 DEF EnterPacket, serverVars, readVars
<1>8. ASSUME NEW k \in 1 .. remaining, Receive(k) PROVE Goal
    BY <1>1, <1>8 DEF Receive, serverVars, readVars
<1>9. CASE Timeout
    BY <1>2, <1>9 DEF Timeout, serverVars
<1>10. CASE TakeData
    BY <1>10, PayloadTaken DEF Goal
<1>11. CASE TakeMarker
  <2>1. sent' = sent /\ cut' = cut /\ Chained(wire', sent) /\ Unread' = Unread
    BY <1>11, PayloadLessTaken DEF TakeMarker
  <2>2. CASE pc = "read"
    <3>1. UNCHANGED <<inBuf, got, taken, result>>
        BY <1>11, <2>2 DEF TakeMarker
    <3> QED
        BY <2>1, <3>1, PayloadUntouched DEF Goal
  <2>3. CASE pc # "read"
    <3>1. got' = <<>> /\ result' = <<>> /\ taken' = taken + Len(got) /\ inBuf' = inBuf
        BY <1>11, <2>3 DEF TakeMarker, FailRead
    <3> QED
        BY <2>1, <3>1, PayloadDropped DEF Goal
  <2> QED
    BY <2>2, <2>3
<1>12. CASE TakeResend
  <2>1. sent' = sent /\ cut' = cut /\ Chained(wire', sent) /\ Unread' = Unread
    BY <1>12, PayloadLessTaken DEF TakeResend
  <2>2. UNCHANGED <<inBuf, got, taken, result>>
    BY <1>12 DEF TakeResend, readVars
  <2> QED
    BY <2>1, <2>2, PayloadUntouched DEF Goal
<1>13. CASE TakeShort
    BY <1>2, <1>13 DEF TakeShort, serverVars
<1>14. CASE Lost \/ UNCHANGED vars
    BY <1>1, <1>14 DEF Lost, vars
<1> QED
    BY <1>3, <1>4, <1>5, <1>6, <1>7, <1>8, <1>9, <1>10, <1>11, <1>12, <1>13, <1>14 DEF Next

LEMMA PayloadInit == Init => PayloadInv
BY DEF Init, PayloadInv, Chained, InOrder, Unread, Bytes

(* While no deadline has cut a header, no payload byte is lost, duplicated *)
(* or moved between the socket, inBuffer and the reads.                    *)
THEOREM PayloadIsConserved == Spec => []PayloadConserved
<1>1. PayloadInv => PayloadConserved
    BY DEF PayloadInv, PayloadConserved, InOrder, Chained
<1>2. Types /\ Phases /\ PayloadInv /\ [Next]_vars => PayloadInv'
    BY PayloadStep
<1> QED
    BY <1>1, <1>2, InitTypes, TypesKept, PayloadInit, PTL DEF Spec

(* The packet layer implements the byte stream: each read of the layers    *)
(* above takes the next bytes the server sent, whatever packets, markers,  *)
(* deadlines and calls come between.                                       *)
THEOREM StreamRefined == Spec => StreamSpec
<1>1. Init => Stream!Init
    BY DEF Init, Stream!Init
<1>2. Types /\ Phases /\ PayloadInv /\ [Next]_vars
        => PayloadInv' /\ [Stream!Next]_(Stream!vars)
    BY PayloadStep
<1> QED
    BY <1>1, <1>2, InitTypes, TypesKept, PayloadInit, PTL
    DEF Spec, StreamSpec, Stream!Spec

-----------------------------------------------------------------------------
(* The request.                                                            *)

(* What writePacket keeps of a packet b: its own bytes, or segment, which  *)
(* is b until another full segment is copied over it.                      *)
Keeps(p, b) ==
    IF p.shared
    THEN /\ b # <<>> /\ LastByte(b) \in 1 .. wrote
         /\ ~Overwritten(b) => segment = b
    ELSE p.bytes = b

Kept ==
    /\ Len(sendPcks) = Len(written)
    /\ \A i \in 1 .. Len(sendPcks) : Keeps(sendPcks[i], written[i])

(* A packet is added to sendPcks and to what was written.                  *)
LEMMA KeptAppend ==
    ASSUME Types, Kept,
           NEW p \in [shared : BOOLEAN, bytes : Seq(Nat)], NEW b \in Seq(Nat),
           sendPcks' = Append(sendPcks, p), written' = Append(written, b),
           out' = out, wrote' \in Nat, wrote <= wrote',
           IF p.shared
           THEN /\ b # <<>> /\ LastByte(b) = wrote' /\ segment' = b
                /\ out - wrote > SegLen /\ wrote < wrote'
           ELSE p.bytes = b /\ segment' = segment
    PROVE  Kept'
<1> USE LengthsAssumption DEF Types, WriteTypes
<1>1. /\ Len(sendPcks) \in Nat /\ Len(written) = Len(sendPcks)
      /\ Len(sendPcks') = Len(sendPcks) + 1 /\ Len(written') = Len(sendPcks) + 1
      /\ \A i \in 1 .. Len(sendPcks) : sendPcks'[i] = sendPcks[i] /\ written'[i] = written[i]
      /\ sendPcks'[Len(sendPcks) + 1] = p /\ written'[Len(sendPcks) + 1] = b
    BY AppendProperties DEF Kept
<1>2. Keeps(p, b)'
    BY DEF Keeps
<1>3. ASSUME NEW e \in [shared : BOOLEAN, bytes : Seq(Nat)], NEW d \in Seq(Nat), Keeps(e, d)
      PROVE  Keeps(e, d)'
  <2>1. CASE ~e.shared
    BY <1>3, <2>1 DEF Keeps
  <2>2. CASE e.shared /\ p.shared
    <3>1. LastByte(d) \in 1 .. wrote /\ d # <<>>
        BY <1>3, <2>2 DEF Keeps
    <3>2. LastByte(d) < wrote' /\ out - LastByte(d) > SegLen
        BY <2>2, <3>1, SMTT(30)
    <3> QED
        BY <2>2, <3>1, <3>2 DEF Keeps, Overwritten
  <2>3. CASE e.shared /\ ~p.shared
    <3>1. LastByte(d) \in 1 .. wrote /\ d # <<>> /\ segment' = segment
        BY <1>3, <2>3 DEF Keeps
    <3>2. Overwritten(d) => Overwritten(d)'
        BY <3>1 DEF Overwritten
    <3> QED
        BY <1>3, <2>3, <3>1, <3>2 DEF Keeps
  <2> QED
    BY <2>1, <2>2, <2>3
<1>4. \A i \in 1 .. Len(sendPcks) + 1 : Keeps(sendPcks[i], written[i])'
  <2> TAKE i \in 1 .. Len(sendPcks) + 1
  <2>1. CASE i = Len(sendPcks) + 1
    BY <1>1, <1>2, <2>1
  <2>2. CASE i # Len(sendPcks) + 1
    <3>1. i \in 1 .. Len(sendPcks) /\ Keeps(sendPcks[i], written[i])
        BY <1>1, <2>2 DEF Kept
    <3>2. /\ sendPcks'[i] = sendPcks[i] /\ written'[i] = written[i]
          /\ sendPcks[i] \in [shared : BOOLEAN, bytes : Seq(Nat)] /\ written[i] \in Seq(Nat)
        BY <1>1, <3>1, ElementOfSeq
    <3> QED
        BY <1>3, <3>1, <3>2, Zenon DEF Keeps, Overwritten
  <2> QED
    BY <2>1, <2>2
<1> QED
    BY <1>1, <1>4 DEF Kept

(* Adding a packet does not change where the earlier ones end.             *)
LEMMA EndsAtAppend ==
    ASSUME NEW s \in Seq(Seq(Nat)), NEW b \in Seq(Nat),
           NEW i \in 0 .. Len(s), NEW k \in Nat
    PROVE  EndsAt(Append(s, b), i, k) <=> EndsAt(s, i, k)
<1> DEFINE t == Append(s, b)
<1>1. Len(s) \in Nat /\ \A j \in 1 .. Len(s) : t[j] = s[j]
    BY AppendProperties
<1> HIDE DEF t
<1>2. \A j \in 1 .. i : t[j] = s[j] /\ \A l \in j + 1 .. i : t[l] = s[l]
    BY <1>1
<1>3. EndsAt(t, i, k) <=> EndsAt(s, i, k)
    BY <1>2, Zenon DEF EndsAt
<1> QED
    BY <1>3 DEF t

(* The packet that continues the others ends where it ends.                *)
LEMMA EndsAtNew ==
    ASSUME NEW s \in Seq(Seq(Nat)), NEW u \in Nat, NEW n \in Nat,
           EndsAt(s, Len(s), u)
    PROVE  EndsAt(Append(s, Bytes(u, n)), Len(s) + 1, u + n)
<1> DEFINE b == Bytes(u, n)
           t == Append(s, b)
           m == Len(s)
<1>0. b \in Seq(Nat) /\ Len(b) = n /\ (n > 0 => LastByte(b) = u + n)
  <2>1. b \in Seq(Nat) /\ Len(b) = n /\ \A i \in 1 .. n : b[i] = u + i
    BY BytesType
  <2>2. n > 0 => n \in 1 .. n
    OBVIOUS
  <2> HIDE DEF b
  <2> QED
    BY <2>1, <2>2 DEF LastByte
<1>1. m \in Nat /\ (\A j \in 1 .. m : t[j] = s[j]) /\ t[m + 1] = b
    BY <1>0, AppendProperties
<1> HIDE DEF t, m
<1>2. CASE n > 0
  <2>1. /\ m + 1 \in 1 .. m + 1 /\ b # <<>> /\ LastByte(b) = u + n
        /\ \A l \in (m + 1) + 1 .. m + 1 : FALSE
    BY <1>0, <1>1, <1>2
  <2>2. EndsAt(t, m + 1, u + n)
    BY <1>1, <2>1, Zenon DEF EndsAt
  <2> QED
    BY <2>2 DEF t, m
<1>3. CASE n = 0
  <2>1. b = <<>> /\ u + n = u
    BY <1>0, <1>3
  <2>2. \A j \in 1 .. m + 1 : j \in 1 .. m \/ j = m + 1
    BY <1>1
  <2>3. CASE u = 0 /\ \A j \in 1 .. m : s[j] = <<>>
    <3>1. \A j \in 1 .. m + 1 : t[j] = <<>>
        BY <1>1, <2>1, <2>2, <2>3
    <3>2. EndsAt(t, m + 1, u)
        BY <2>3, <3>1, Zenon DEF EndsAt
    <3> QED
        BY <2>1, <3>2, Zenon DEF t, m
  <2>4. CASE \E j \in 1 .. m : /\ s[j] # <<>> /\ LastByte(s[j]) = u
                               /\ \A l \in j + 1 .. m : s[l] = <<>>
    <3>1. PICK j \in 1 .. m : /\ s[j] # <<>> /\ LastByte(s[j]) = u
                             /\ \A l \in j + 1 .. m : s[l] = <<>>
        BY <2>4
    <3>2. j \in 1 .. m + 1 /\ \A l \in j + 1 .. m + 1 : l = m + 1 \/ (l \in j + 1 .. m /\ l \in 1 .. m)
        BY <1>1
    <3>3. \A l \in j + 1 .. m + 1 : t[l] = <<>>
        BY <1>1, <2>1, <3>1, <3>2
    <3>4. t[j] # <<>> /\ LastByte(t[j]) = u
        BY <1>1, <3>1, Zenon
    <3>5. EndsAt(t, m + 1, u)
        BY <3>2, <3>3, <3>4, Zenon DEF EndsAt
    <3> QED
        BY <2>1, <3>5, Zenon DEF t, m
  <2> QED
    BY <2>3, <2>4 DEF EndsAt, m
<1> QED
    BY <1>2, <1>3

(* Packets that are u bytes and one with the next n are u + n bytes.       *)
LEMMA CutOfAppend ==
    ASSUME NEW s \in Seq(Seq(Nat)), NEW u \in Nat, NEW n \in Nat, n <= SegLen,
           CutOf(s, u)
    PROVE  CutOf(Append(s, Bytes(u, n)), u + n)
<1> DEFINE b == Bytes(u, n)
           t == Append(s, b)
           m == Len(s)
<1>0. b \in Seq(Nat) /\ Len(b) = n
    BY BytesType
<1>1. m \in Nat /\ Len(t) = m + 1 /\ (\A j \in 1 .. m : t[j] = s[j]) /\ t[m + 1] = b
    BY <1>0, AppendProperties
<1>2. EndsAt(s, m, u)
    BY DEF CutOf
<1>3. EndsAt(t, m + 1, u + n)
    BY <1>2, EndsAtNew
<1>4. ASSUME NEW i \in 1 .. m + 1
      PROVE  /\ Len(t[i]) <= SegLen
             /\ \E k \in 0 .. u + n : EndsAt(t, i - 1, k) /\ t[i] = Bytes(k, Len(t[i]))
  <2>1. CASE i = m + 1
    <3>1. i - 1 = m /\ m \in 0 .. m /\ u \in 0 .. u + n
        BY <1>1, <2>1
    <3>2. EndsAt(t, m, u)
        BY <1>0, <1>2, <3>1, EndsAtAppend
    <3> HIDE DEF t
    <3> QED
        BY <1>0, <1>1, <2>1, <3>1, <3>2, Zenon
  <2>2. CASE i # m + 1
    <3>1. i \in 1 .. m /\ i - 1 \in 0 .. m
        BY <1>1, <2>2
    <3>2. PICK k \in 0 .. u : EndsAt(s, i - 1, k) /\ s[i] = Bytes(k, Len(s[i]))
        BY <3>1 DEF CutOf
    <3>3. k \in 0 .. u + n /\ k \in Nat
        OBVIOUS
    <3>4. EndsAt(t, i - 1, k)
        BY <1>0, <3>1, <3>2, <3>3, EndsAtAppend
    <3>5. Len(s[i]) <= SegLen
        BY <3>1 DEF CutOf
    <3> HIDE DEF t
    <3> QED
        BY <1>1, <3>1, <3>2, <3>3, <3>4, <3>5, Zenon
  <2> QED
    BY <2>1, <2>2
<1> QED
    BY <1>1, <1>3, <1>4, Zenon DEF CutOf

Empty(s) == {i \in 1 .. Len(s) : s[i] = <<>>}

(* Only an empty packet adds to the number of the empty ones.              *)
LEMMA EmptyAppend ==
    ASSUME NEW s \in Seq(Seq(Nat)), NEW b \in Seq(Nat)
    PROVE  /\ Cardinality(Empty(s)) \in Nat
           /\ Cardinality(Empty(Append(s, b)))
                 = Cardinality(Empty(s)) + (IF b = <<>> THEN 1 ELSE 0)
<1> DEFINE t == Append(s, b)
           m == Len(s)
<1>1. m \in Nat /\ Len(t) = m + 1 /\ (\A j \in 1 .. m : t[j] = s[j]) /\ t[m + 1] = b
    BY AppendProperties
<1> HIDE DEF t
<1>2. Empty(s) \subseteq 1 .. m /\ IsFiniteSet(1 .. m)
    BY <1>1, FS_Interval DEF Empty
<1>3. IsFiniteSet(Empty(s)) /\ Cardinality(Empty(s)) \in Nat
    BY <1>2, FS_Subset, FS_CardinalityType
<1>4. Empty(t) = Empty(s) \cup (IF b = <<>> THEN {m + 1} ELSE {})
    BY <1>1 DEF Empty
<1>5. m + 1 \notin Empty(s)
    BY <1>1 DEF Empty
<1>6. CASE b = <<>>
  <2>1. Empty(t) = Empty(s) \cup {m + 1}
    BY <1>4, <1>6
  <2> QED
    BY <1>3, <1>5, <1>6, <2>1, FS_AddElement DEF t
<1>7. CASE b # <<>>
    BY <1>3, <1>4, <1>7 DEF t
<1> QED
    BY <1>6, <1>7

(* What is known of the request and of what RESEND would write.            *)
RequestInv ==
    /\ Kept
    /\ CutOf(written, wrote)
    /\ out > 0 => Cardinality(Empty(written)) <= interrupts

(* One packet of WriteRPC.                                                 *)
LEMMA WriteRPCKeepsRequest ==
    ASSUME Types, Types', Phases, RequestInv, WriteRPC
    PROVE  RequestInv'
<1> USE LengthsAssumption DEF Types, WriteTypes
<1> DEFINE size == out - wrote
           n == Least(size, SegLen)
           b == Bytes(wrote, n)
           p == IF size > SegLen THEN Shared ELSE Own(b)
<1>1. /\ size \in Nat /\ n \in Nat /\ n <= size /\ n <= SegLen /\ (out > 0 => n > 0)
      /\ (size > SegLen => n = SegLen)
    BY DEF Least, WriteRPC, Phases
<1>2. /\ written' = Append(written, b) /\ wrote' = wrote + n
      /\ segment' = (IF size > SegLen THEN b ELSE segment)
      /\ sendPcks' = Append(sendPcks, p)
      /\ out' = out /\ interrupts' = interrupts
    BY DEF WriteRPC
<1>3. b \in Seq(Nat) /\ Len(b) = n /\ \A i \in 1 .. n : b[i] = wrote + i
  <2>1. wrote \in Nat /\ n \in Nat
    BY <1>1
  <2> HIDE DEF n
  <2> QED
    BY <2>1, BytesType
<1>4. p \in [shared : BOOLEAN, bytes : Seq(Nat)]
    BY <1>3, SMTT(30) DEF Shared, Own
<1>5. /\ p.shared <=> size > SegLen
      /\ ~p.shared => p.bytes = b
    BY DEF Shared, Own
<1> HIDE DEF b, p, n
<1>6. p.shared => b # <<>> /\ LastByte(b) = wrote'
  <2> SUFFICES ASSUME p.shared PROVE b # <<>> /\ LastByte(b) = wrote'
    OBVIOUS
  <2>1. n \in 1 .. n
    BY <1>1, <1>5
  <2> QED
    BY <1>2, <1>3, <2>1 DEF LastByte
<1>7. Kept'
  <2>1. IF p.shared
        THEN /\ b # <<>> /\ LastByte(b) = wrote' /\ segment' = b
             /\ out - wrote > SegLen /\ wrote < wrote'
        ELSE p.bytes = b /\ segment' = segment
    <3>1. CASE p.shared
      <4>1. out - wrote > SegLen /\ wrote < wrote'
        BY <3>1, <1>1, <1>2, <1>5
      <4>2. segment' = b
        BY <3>1, <1>2, <1>5
      <4> QED
        BY <3>1, <1>6, <4>1, <4>2
    <3>2. CASE ~p.shared
      <4>1. p.bytes = b /\ segment' = segment
        BY <3>2, <1>2, <1>5
      <4> QED
        BY <3>2, <4>1
    <3> QED
      BY <3>1, <3>2
  <2>2. wrote' \in Nat /\ wrote <= wrote'
    BY <1>1, <1>2
  <2> HIDE DEF size
  <2> QED
    BY <1>2, <1>3, <1>4, <2>1, <2>2, KeptAppend DEF RequestInv
<1>8. CutOf(written', wrote')
  <2>1. CutOf(Append(written, Bytes(wrote, n)), wrote + n)
    BY <1>1, CutOfAppend DEF RequestInv
  <2> QED
    BY <1>2, <2>1, Zenon DEF b
<1>9. out' > 0 => Cardinality(Empty(written')) <= interrupts'
  <2> SUFFICES ASSUME out' > 0 PROVE Cardinality(Empty(written')) <= interrupts'
    OBVIOUS
  <2>1. b # <<>>
    BY <1>1, <1>2, <1>3
  <2>2. Cardinality(Empty(written')) = Cardinality(Empty(written))
    BY <1>2, <1>3, <2>1, EmptyAppend
  <2> QED
    BY <1>2, <2>2 DEF RequestInv
<1> QED
    BY <1>7, <1>8, <1>9 DEF RequestInv

(* Every step keeps what was written in step with what is kept.            *)
LEMMA RequestStep ==
    ASSUME Types, Types', Phases, RequestInv, [Next]_vars
    PROVE  RequestInv'
<1> USE LengthsAssumption DEF Types, WriteTypes
<1>1. ASSUME UNCHANGED writeVars PROVE RequestInv'
    BY <1>1 DEF RequestInv, Kept, Keeps, Overwritten, writeVars
<1>2. ASSUME NEW n \in Requests, NewCall(n) PROVE RequestInv'
  <2>1. /\ sendPcks' = <<>> /\ written' = <<>> /\ wrote' = 0 /\ interrupts' = 0
    BY <1>2 DEF NewCall
  <2>2. Empty(written') = {}
    BY <2>1 DEF Empty
  <2>3. Cardinality(Empty(written')) = 0
    BY <2>2, FS_EmptySet
  <2> QED
    BY <2>1, <2>3, SMTT(30) DEF RequestInv, Kept, CutOf, EndsAt
<1>3. CASE WriteRPC
    BY <1>3, WriteRPCKeepsRequest
<1>4. CASE WriteInterrupt
  <2>1. /\ sendPcks' = Append(sendPcks, Marker) /\ written' = Append(written, <<>>)
        /\ UNCHANGED <<out, wrote, segment>> /\ interrupts' = interrupts + 1
    BY <1>4 DEF WriteInterrupt
  <2>2. /\ Marker \in [shared : BOOLEAN, bytes : Seq(Nat)] /\ ~Marker.shared
        /\ Marker.bytes = <<>> /\ <<>> \in Seq(Nat)
    BY DEF Marker, Own
  <2>3. Kept'
    BY <2>1, <2>2, KeptAppend, SMTT(30) DEF RequestInv
  <2>4. CutOf(written', wrote')
    <3>1. <<>> = Bytes(wrote, 0) /\ wrote + 0 = wrote
        BY DEF Bytes
    <3>2. CutOf(Append(written, Bytes(wrote, 0)), wrote + 0)
        BY CutOfAppend DEF RequestInv
    <3> QED
        BY <2>1, <3>1, <3>2, Zenon
  <2>5. out' > 0 => Cardinality(Empty(written')) <= interrupts'
    <3>1. /\ Cardinality(Empty(written')) = Cardinality(Empty(written)) + 1
          /\ Cardinality(Empty(written)) \in Nat
        BY <2>1, <2>2, EmptyAppend
    <3> QED
        BY <2>1, <3>1 DEF RequestInv
  <2> QED
    BY <2>3, <2>4, <2>5 DEF RequestInv
<1>5. CASE TakeMarker
  <2>1. CASE pc = "read"
    <3>1. /\ sendPcks' = <<Marker>> /\ written' = <<<<>>>> /\ out' = 0 /\ wrote' = 0
        BY <1>5, <2>1 DEF TakeMarker
    <3>2. Kept'
        BY <3>1 DEF Kept, Keeps, Marker, Own
    <3>3. CutOf(written', wrote')
      <4>1. CutOf(<<<<>>>>, 0)
        BY DEF CutOf, EndsAt, Bytes
      <4> QED
        BY <3>1, <4>1, Zenon
    <3> QED
        BY <3>1, <3>2, <3>3 DEF RequestInv
  <2>2. CASE pc # "read"
    BY <1>1, <1>5, <2>2 DEF TakeMarker, writeVars
  <2> QED
    BY <2>1, <2>2
<1>6. CASE \/ \E t \in {"data", "marker", "resend"}, n \in Payloads \cup {0} : ServerSends(t, n)
           \/ \E n \in ReadSizes : StartRead(n)
           \/ EnterPacket \/ \E k \in 1 .. remaining : Receive(k)
           \/ Timeout \/ TakeData \/ TakeResend \/ TakeShort \/ Lost \/ UNCHANGED vars
  <2>1. UNCHANGED writeVars
    BY <1>6 DEF ServerSends, StartRead, EnterPacket, Receive, Timeout, TakeData, TakeResend,
        TakeShort, Lost, vars, writeVars
  <2> QED
    BY <1>1, <2>1
<1> QED
    BY <1>2, <1>3, <1>4, <1>5, <1>6 DEF Next

LEMMA RequestInit == Init => RequestInv
<1> SUFFICES ASSUME Init PROVE RequestInv
    OBVIOUS
<1>1. sendPcks = <<>> /\ written = <<>> /\ wrote = 0 /\ out = 0
    BY DEF Init
<1> QED
    BY <1>1 DEF RequestInv, Kept, CutOf, EndsAt

(* The packets WriteRPC has written are, one after the other, the request  *)
(* so far; interrupts may come between them, and none is too long.         *)
THEOREM RequestIsWhole == Spec => []RequestWhole
<1>1. Types /\ Phases /\ RequestInv /\ [Next]_vars => RequestInv'
    BY RequestStep, TypesKept
<1>2. RequestInv => RequestWhole
    BY DEF RequestInv, RequestWhole, Empty
<1> QED
    BY <1>1, <1>2, InitTypes, TypesKept, RequestInit, PTL DEF Spec

(* A RESEND repeats what was written, but for full segments that another   *)
(* full segment has overwritten in the slice they share.                   *)
THEOREM ResendIsFaithful == Spec => []ResendRepeats
<1>1. Types /\ Phases /\ RequestInv /\ [Next]_vars => RequestInv'
    BY RequestStep, TypesKept
<1>2. RequestInv => ResendRepeats
    BY DEF RequestInv, Kept, Keeps, ResendRepeats, Resent
<1> QED
    BY <1>1, <1>2, InitTypes, TypesKept, RequestInit, PTL DEF Spec
=============================================================================
