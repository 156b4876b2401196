------------------------------- MODULE Codec -------------------------------
(***************************************************************************)
(* The buffer of a session and the Put and Get operations of basicSession  *)
(* on it: one side puts values one after the other, the other, which knows *)
(* what comes next, gets them.  An integer is its eight bytes, most        *)
(* significant first, as in the code.                                      *)
(***************************************************************************)
EXTENDS Numbers

CONSTANTS
    ChunkModes,   \* what was negotiated: <<UseBigClrChunks, ClrChunkSize>>
    Ints,         \* integers put: sequences of eight bytes
    Sizes,        \* the size argument of PutInt and PutUint
    Data,         \* byte arrays put
    KeyVals,      \* <<key, value, number>> put
    NumberSet,    \* numbers put
    MaxPending    \* bound: values put and not yet got

ASSUME CodecAssumption ==
    /\ ChunkModes \subseteq BOOLEAN \X (Nat \ {0})
    /\ \A m \in ChunkModes : m[1] \/ m[2] <= 255
    /\ Ints \subseteq [1 .. 8 -> 0 .. 255]
    /\ Sizes \subseteq {1, 2, 4, 8}
    /\ MaxPending \in Nat \ {0}

VARIABLES
    mode,     \* the chunk mode of the session
    buf,      \* the bytes between the two sides
    pending,  \* the values put and not yet got
    last      \* the value got by the last step, with the value that was put

vars == <<mode, buf, pending, last>>

-----------------------------------------------------------------------------
BigChunks == mode[1]
ClrChunkSize == mode[2]

(* PutInt, PutUint and GetInt64.                                           *)

Significant(v) == TrimLeft(v)
IntOf(n) == <<0, 0, 0, 0, 0, 0, n \div 256, n % 256>>
Widen(b) == Zeros(8 - Len(b)) \o b
Fits(v, size) == Len(Significant(v)) <= size
First(b, n) == SubSeq(b, 1, n)
After(b, n) == SubSeq(b, n + 1, Len(b))
Least(a, b) == IF a <= b THEN a ELSE b
IsNegative(v) == v[1] >= 128

(* Two's complement: the bytes up to the last one that is not zero change. *)
Negate(v) ==
    [i \in 1 .. 8 |-> CASE \E j \in i + 1 .. 8 : v[j] # 0 -> 255 - v[i]
                        [] OTHER -> (256 - v[i]) % 256]

(* Mutant: the bytes that do not fit are written all the same.             *)
PutIntAll(v, size) ==
    LET t == Significant(v) IN <<Least(size, Len(t))>> \o t
(* PutInt, compressed: the number of significant bytes, then at most size  *)
(* of them, from the most significant one.                                 *)
PutInt(v, size) ==
    LET t == Significant(v)
        n == Least(size, Len(t)) IN <<n>> \o First(t, n)

(* PutInt, not compressed: the low-order bytes, big or little endian.      *)
PutFixed(v, size, bigEndian) ==
    LET low == After(v, 8 - size) IN
    IF bigEndian THEN low ELSE [i \in 1 .. size |-> low[size + 1 - i]]

(* PutUint: never compressed in one byte; compressed, it writes every      *)
(* significant byte whatever length it wrote before them.                  *)
PutUint(v, size, bigEndian, compress) ==
    LET t == Significant(v) IN
    IF size = 1 \/ ~compress THEN PutFixed(v, size, bigEndian)
    ELSE <<Least(size, Len(t))>> \o t

(* How the database puts a negative integer: its absolute value, with the  *)
(* high bit of the length set (external).                                  *)
PutSigned(v) ==
    LET t == Significant(IF IsNegative(v) THEN Negate(v) ELSE v) IN
    <<Len(t) + (IF IsNegative(v) THEN 128 ELSE 0)>> \o t

(* GetInt64: what it returns and what it leaves in the buffer; without a   *)
(* value, its error for a length above eight.                              *)
GetInt(b) ==
    LET n == b[1] % 128
        v == Widen(First(After(b, 1), n)) IN
    IF n > 8 THEN [val |-> <<>>, rest |-> Tail(b)]
    ELSE [val |-> IF b[1] >= 128 THEN Negate(v) ELSE v, rest |-> After(b, 1 + n)]
GetFixed(b, size, bigEndian) ==
    [val |-> Widen(IF bigEndian THEN First(b, size)
                   ELSE [i \in 1 .. size |-> b[size + 1 - i]]),
     rest |-> After(b, size)]

Number16(v) == 256 * v[7] + v[8]

-----------------------------------------------------------------------------
(* PutClr and GetClr.                                                      *)

ChunkLen(n) == IF BigChunks THEN PutInt(IntOf(n), 4) ELSE <<n>>

(* Up to 0xFC bytes after their number; more in chunks, each after its     *)
(* length, between 0xFE and 0.                                             *)
PutClr(data) ==
    LET n == Len(data)
        chunks == (n + ClrChunkSize - 1) \div ClrChunkSize
        Chunk(i) == SubSeq(data, (i - 1) * ClrChunkSize + 1, Least(i * ClrChunkSize, n))
        long[i \in 1 .. chunks + 1] ==
            IF i > chunks THEN <<0>> ELSE ChunkLen(Len(Chunk(i))) \o Chunk(i) \o long[i + 1] IN
    IF n > 252 THEN <<254>> \o long[1] ELSE <<n>> \o data

(* The length of a chunk at the start of b, and what follows it.           *)
GetChunkLen(b) ==
    IF BigChunks THEN LET g == GetInt(b) IN [n |-> Number16(g.val), rest |-> g.rest]
    ELSE [n |-> b[1], rest |-> Tail(b)]

GetClr(b) ==
    LET chunk[i \in 1 .. Len(b) + 1] ==
            LET c == GetChunkLen(After(b, i - 1))
                from == Len(b) - Len(c.rest) IN
            IF c.n = 0 THEN [val |-> <<>>, rest |-> c.rest]
            ELSE LET r == chunk[from + c.n + 1] IN
                 [val |-> First(c.rest, c.n) \o r.val, rest |-> r.rest] IN
    CASE b[1] \in {0, 253, 255} -> [val |-> <<>>, rest |-> Tail(b)]
      [] b[1] = 254 -> chunk[2]
      [] OTHER -> [val |-> First(Tail(b), b[1]), rest |-> After(b, 1 + b[1])]

(* PutDlc and GetDlc: the length before a CLR that is not empty.           *)
PutDlc(data) == (IF data = <<>> THEN <<>> ELSE PutUint(IntOf(Len(data)), 4, TRUE, TRUE))
                \o PutClr(data)
GetDlc(b) ==
    LET g == GetInt(b)
        n == Number16(g.val)
        c == GetClr(g.rest) IN
    IF n > 0 THEN [val |-> First(c.val, Least(n, Len(c.val))), rest |-> c.rest]
             ELSE [val |-> <<>>, rest |-> g.rest]

(* PutFixedClr and GetFixedClr: the length of a long one in four bytes.    *)
PutFixedClr(data) ==
    (IF Len(data) > 252 THEN <<254>> \o PutUint(IntOf(Len(data)), 4, TRUE, FALSE)
                        ELSE <<Len(data)>>)
    \o data
GetFixedClr(b) ==
    LET g == GetFixed(Tail(b), 4, TRUE)
        n == Number16(g.val) IN
    CASE b[1] \in {0, 253, 255} -> [val |-> <<>>, rest |-> Tail(b)]
      [] b[1] = 254 -> [val |-> First(g.rest, n), rest |-> After(g.rest, n)]
      [] OTHER -> [val |-> First(Tail(b), b[1]), rest |-> After(b, 1 + b[1])]

-----------------------------------------------------------------------------
(* The values: <<kind, value, argument>>, the argument being a size or the *)
(* form of a number.                                                       *)

Kind(it) == it[1]
Val(it) == it[2]
Arg(it) == it[3]

EncodeNumber(x, f) == LET m == Form(f, x) IN encode(m.m, m.exp, x.neg)

(* The bytes a Put writes.                                                 *)
Put(it) ==
    CASE Kind(it) = "int"      -> PutInt(Val(it), Arg(it))
      [] Kind(it) = "big"      -> PutFixed(Val(it), Arg(it), TRUE)
      [] Kind(it) = "little"   -> PutFixed(Val(it), Arg(it), FALSE)
      [] Kind(it) = "uint"     -> PutUint(Val(it), Arg(it), TRUE, TRUE)
      [] Kind(it) = "signed"   -> PutSigned(Val(it))
      [] Kind(it) = "clr"      -> PutClr(Val(it))
      [] Kind(it) = "dlc"      -> PutDlc(Val(it))
      [] Kind(it) = "fixedclr" -> PutFixedClr(Val(it))
      [] Kind(it) = "keyval"   -> PutDlc(Val(it)[1]) \o PutDlc(Val(it)[2]) \o PutInt(Val(it)[3], 4)
      [] Kind(it) = "number"   -> PutClr(EncodeNumber(Val(it), Arg(it)))

(* The value a Get of the same kind returns and the bytes it leaves.       *)
GetKeyVal(b) ==
    LET k == GetDlc(b)
        v == GetDlc(k.rest)
        n == GetInt(v.rest) IN
    [val |-> <<k.val, v.val, n.val>>, rest |-> n.rest]
Get(it, b) ==
    CASE Kind(it) = "int"      -> GetInt(b)
      [] Kind(it) = "uint"     -> IF Arg(it) = 1 THEN GetFixed(b, 1, TRUE) ELSE GetInt(b)
      [] Kind(it) = "signed"   -> GetInt(b)
      [] Kind(it) = "big"      -> GetFixed(b, Arg(it), TRUE)
      [] Kind(it) = "little"   -> GetFixed(b, Arg(it), FALSE)
      [] Kind(it) = "clr"      -> GetClr(b)
      [] Kind(it) = "dlc"      -> GetDlc(b)
      [] Kind(it) = "fixedclr" -> GetFixedClr(b)
      [] Kind(it) = "keyval"   -> GetKeyVal(b)
      [] Kind(it) = "number"   -> LET c == GetClr(b) IN [val |-> Parse(String(c.val)), rest |-> c.rest]

Init == mode \in ChunkModes /\ buf = <<>> /\ pending = <<>> /\ last = <<>>

(* A value is added to the message.                                        *)
PutStep(it) ==
    /\ last = <<>>
    /\ Len(pending) < MaxPending
    /\ buf' = buf \o Put(it)
    /\ pending' = Append(pending, it)
    /\ UNCHANGED <<mode, last>>

(* A compressed PutUint of more bytes than its length says.                *)
Overruns(it) == Kind(it) = "uint" /\ Arg(it) # 1 /\ ~Fits(Val(it), Arg(it))
(* Its reader goes on in the middle of its bytes.                          *)
Misled == last # <<>> /\ Overruns(last[1])

(* The reader of the message gets its next value; what a misled reader     *)
(* makes of the rest is left out.                                          *)
GetStep ==
    /\ pending # <<>> /\ ~Misled
    /\ LET g == Get(Head(pending), buf) IN
        /\ buf' = g.rest
        /\ last' = <<Head(pending), g.val>>
    /\ pending' = Tail(pending)
    /\ UNCHANGED mode

(* The message was read, or given up; the buffers are emptied for another. *)
NewMessage ==
    /\ last # <<>> /\ (pending = <<>> \/ Misled)
    /\ buf' = <<>> /\ pending' = <<>> /\ last' = <<>>
    /\ UNCHANGED mode

Next ==
    \/ \E k \in {"int", "big", "little", "uint"}, v \in Ints, s \in Sizes : PutStep(<<k, v, s>>)
    \/ \E v \in Ints : PutStep(<<"signed", v, 8>>)
    \/ \E k \in {"clr", "dlc", "fixedclr"}, d \in Data : PutStep(<<k, d, 0>>)
    \/ \E kv \in KeyVals : PutStep(<<"keyval", kv, 4>>)
    \/ \E x \in NumberSet : \E f \in Forms(x) : PutStep(<<"number", x, f>>)
    \/ GetStep \/ NewMessage

Spec == Init /\ [][Next]_vars

-----------------------------------------------------------------------------
(* The two sides stay in step, whether or not a value has room: after the  *)
(* last value that was put is got no byte is left, and before that some    *)
(* are.  The exception is a compressed PutUint without room, whose reader  *)
(* finds the rest of its bytes where the next value should begin.          *)
InStep == (buf = <<>>) <=> (pending = <<>> /\ ~Misled)

Holds(it) ==
    CASE Kind(it) \in {"int", "big", "little", "uint"} -> Fits(Val(it), Arg(it))
      [] Kind(it) = "keyval" -> Fits(Val(it)[3], 4)
      [] Kind(it) = "number" -> InRange(Val(it))
      [] OTHER -> TRUE

(* What is got is what was put, if it has room: an integer in the size it  *)
(* is given, the exponent of a number in its byte.                         *)
RoundTrip == last # <<>> /\ Holds(last[1]) => last[2] = Val(last[1])

NumbersPending == {i \in 1 .. Len(pending) : Kind(pending[i]) = "number"}
(* Up to 20 digits with their padding: a negative number is terminated.    *)
Terminated(x) == x.neg => Len(x.d) < 20
NumberBytes(i) == EncodeNumber(Val(pending[i]), Arg(pending[i]))
Normal(i) ==
    /\ InRange(Val(pending[i])) /\ Terminated(Val(pending[i]))
    /\ Arg(pending[i]) = "string" => Val(pending[i]).e >= 0

(* Numbers are ordered as their bytes are, which is how the server         *)
(* compares them.                                                          *)
NumberOrder ==
    \A i, j \in NumbersPending :
        i < j /\ Normal(i) /\ Normal(j) =>
            (LexLess(NumberBytes(i), NumberBytes(j)) <=> Less(Val(pending[i]), Val(pending[j])))

(* The bytes are a NUMBER to the converters too, and one number has one    *)
(* encoding, whether it was given as an integer, a float or a string.      *)
NumberNormal ==
    \A i, j \in NumbersPending :
        i < j /\ Normal(i) /\ Normal(j) =>
            /\ isValid(NumberBytes(i))
            /\ Val(pending[i]) = Val(pending[j]) => NumberBytes(i) = NumberBytes(j)
=============================================================================
