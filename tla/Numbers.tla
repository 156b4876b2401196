------------------------------ MODULE Numbers ------------------------------
(***************************************************************************)
(* Oracle's NUMBER: how types.Number makes its bytes from an integer, a    *)
(* float or a string, and makes a decimal string of bytes.                 *)
(*                                                                         *)
(* A number is [neg, d, e]: its digits, the first and the last not zero,   *)
(* and the power of ten of the first.  Zero has no digits.                 *)
(***************************************************************************)
EXTENDS Integers, Sequences, FiniteSetsExt

Number(neg, d, e) == [neg |-> neg, d |-> d, e |-> e]

Zeros(n) == [i \in 1 .. n |-> 0]
TrimRight(s) == SubSeq(s, 1, Max({0} \cup {i \in 1 .. Len(s) : s[i] # 0}))
LeadingZeros(s) == Min({Len(s)} \cup {i - 1 : i \in {j \in 1 .. Len(s) : s[j] # 0}})
TrimLeft(s) == SubSeq(s, LeadingZeros(s) + 1, Len(s))

(* The number that a mantissa m and the exponent of its first digit mean.  *)
Denotes(neg, m, exp) ==
    LET d == TrimLeft(TrimRight(m)) IN
    IF d = <<>> THEN Number(FALSE, <<>>, 0)
                ELSE Number(neg, d, exp - LeadingZeros(m))

-----------------------------------------------------------------------------
(* encodeInt, encodeUint, encodeFloat and encodeString: the mantissa and   *)
(* the exponent each hands to encode.                                      *)
IsInt(x) == x.d # <<>> => x.e >= Len(x.d) - 1
IntForm(x) == IF x.d = <<>> THEN [m |-> <<0>>, exp |-> 0]
              ELSE [m |-> x.d \o Zeros(x.e + 1 - Len(x.d)), exp |-> x.e]
FloatForm(x) == [m |-> x.d, exp |-> x.e]
(* A string with its zero before the decimal point: the zero is a digit of *)
(* the mantissa like the others.                                           *)
PointForm(x) == CASE IsInt(x) -> IntForm(x)
                  [] ~IsInt(x) /\ x.e >= 0 -> FloatForm(x)
                  [] ~IsInt(x) /\ x.e < 0 -> [m |-> Zeros(-x.e) \o x.d, exp |-> 0]
Form(f, x) == CASE f = "int"    -> IntForm(x)
                [] f = "float"  -> FloatForm(x)
                [] f = "string" -> PointForm(x)
Forms(x) == {f \in {"int", "float", "string"} : f = "int" => IsInt(x)}

(* Bit operations of encode and decode on a byte.                          *)
Or80(b) == IF b >= 128 THEN b ELSE b + 128
And7F(b) == b % 128
Xor7F(b) == 128 * (b \div 128) + 127 - (b % 128)

(* Mutant: the exponent of a small number is halved towards zero.          *)
ExponentByteTrunc(exp) ==
    LET h == IF exp < 0 THEN -((-exp) \div 2) ELSE exp \div 2 IN (h + 1 + 64) % 256
(* The exponent in base 100, with the division of the code, as a byte.     *)
ExponentByte(exp) ==
    LET h == IF exp < 0 THEN -((1 - exp) \div 2) ELSE exp \div 2 IN (h + 1 + 64) % 256

(* Mutant: trailing zeros are kept.                                        *)
StrippedNot(m) == IF \A i \in 1 .. Len(m) : m[i] = 0 THEN <<>> ELSE m
(* The mantissa without its trailing zeros.                                *)
Stripped(m) == TrimRight(m)

(* Mutant: a negative number is not terminated.                            *)
TerminatorNone(neg, n) == <<>>
Terminator(neg, n) == IF neg /\ n < 21 THEN <<102>> ELSE <<>>

(* encode: pairs of digits in base 100, one more than their value, and for *)
(* a negative number their complement; the exponent in the first byte.     *)
encode(mantissa, exp, neg) ==
    LET t == Stripped(mantissa)
        p == IF exp % 2 = 0 THEN <<0>> \o t ELSE t
        n == Len(p)
        Pair(i) == 10 * p[2 * i - 1] + (IF 2 * i <= n THEN p[2 * i] ELSE 0)
        e == ExponentByte(exp) IN
    IF t = <<>> THEN <<128>>
    ELSE <<IF neg THEN Xor7F(e) ELSE Or80(e)>>
         \o [i \in 1 .. (n + 1) \div 2 |-> (IF neg THEN 100 - Pair(i) ELSE Pair(i)) + 1]
         \o Terminator(neg, n)

-----------------------------------------------------------------------------
(* decode: the digits, two for each byte, and the power of ten they are    *)
(* multiplied by.                                                          *)
decode(b) ==
    LET neg == b[1] < 128
        body == Tail(b)
        ended == neg /\ body[Len(body)] = 102
        n == IF ended THEN Len(body) - 1 ELSE Len(body)
        Digit(i) == IF neg THEN 101 - body[i] ELSE body[i] - 1 IN
    IF b[1] = 128 THEN [neg |-> FALSE, d |-> <<0>>, exp |-> 0]
    ELSE [neg |-> neg,
          d |-> [j \in 1 .. 2 * n |->
                    IF j % 2 = 1 THEN Digit((j + 1) \div 2) \div 10
                                 ELSE Digit(j \div 2) % 10],
          exp |-> 2 * ((IF neg THEN Xor7F(b[1]) ELSE And7F(b[1])) - 64) - 2 * n]

(* String: the digits before and after the decimal point.                  *)
String(b) ==
    LET x == decode(b)
        s == IF Len(x.d) > 1 THEN TrimLeft(x.d) ELSE x.d
        pos == Len(s) + x.exp
        t == IF pos < 0 THEN Zeros(-pos) \o s ELSE s
        k == IF pos < 0 THEN 0 ELSE pos IN
    IF x.exp >= 0 THEN [neg |-> x.neg, int |-> s \o Zeros(x.exp), frac |-> <<>>]
    ELSE [neg |-> x.neg,
          int |-> IF k = 0 THEN <<0>> ELSE SubSeq(t, 1, k),
          frac |-> TrimRight(SubSeq(t, k + 1, Len(t)))]

(* The number a decimal string means.                                      *)
Parse(s) == Denotes(s.neg, s.int \o s.frac, Len(s.int) - 1)

(* converters.isValid: what the other decoder of the driver accepts.       *)
isValid(b) ==
    LET n == Len(b)
        last == IF b[n] = 102 THEN n - 1 ELSE n IN
    IF b[1] >= 128
    THEN \/ b \in {<<128>>, <<255, 101>>}
         \/ /\ n \in 2 .. 21
            /\ b[2] >= 2 /\ b[n] >= 2
            /\ \A i \in 2 .. n : b[i] \in 1 .. 100
    ELSE \/ b = <<0>>
         \/ /\ n \in 3 .. 21
            /\ b[n] = 102 \/ n > 20
            /\ b[2] <= 100 /\ b[last] <= 100
            /\ \A i \in 2 .. last : b[i] \in 2 .. 101

(* Exponents the first byte holds.                                         *)
InRange(x) == x.d # <<>> => x.e \in -128 .. 125

(* Order of two sequences of bytes or digits, the shorter one first if it  *)
(* begins the other.                                                       *)
LexLess(s, t) ==
    \E i \in 1 .. Len(t) :
        /\ \A j \in 1 .. i - 1 : j <= Len(s) /\ s[j] = t[j]
        /\ i > Len(s) \/ s[i] < t[i]

(* x < y, on their digits.                                                 *)
MagnitudeLess(x, y) ==
    IF x.d = <<>> THEN y.d # <<>>
    ELSE y.d # <<>> /\ (x.e < y.e \/ (x.e = y.e /\ LexLess(x.d, y.d)))
Less(x, y) ==
    \/ x.neg /\ ~y.neg
    \/ x.neg /\ y.neg /\ MagnitudeLess(y, x)
    \/ ~x.neg /\ ~y.neg /\ MagnitudeLess(x, y)
=============================================================================
