------------------------------ MODULE MCCodec ------------------------------
(* Instances of Codec for TLC. *)
EXTENDS Codec

(* Small chunks as in the code, big ones of 100 bytes instead of 32767. *)
MCChunkModes == {<<FALSE, 64>>, <<TRUE, 100>>}

(* 0, 255, 256, 65536, 2^32 and -1. *)
MCInts ==
    {Zeros(8), IntOf(255), IntOf(256),
     <<0, 0, 0, 0, 0, 1, 0, 0>>, <<0, 0, 0, 1, 0, 0, 0, 0>>, [i \in 1 .. 8 |-> 255]}

(* Byte arrays of n bytes, zeros and the marks of the long form among them. *)
Pattern(n) == [i \in 1 .. n |-> (254 * i) % 256]
MCData == {Pattern(n) : n \in {0, 1, 64, 252, 253, 254, 256, 257}}

MCKeyVals ==
    {<<k, v, n>> : k \in {<<>>, <<254>>}, v \in {<<>>, <<0, 1>>, Pattern(253)},
                   n \in {Zeros(8), IntOf(255)}}

Repeat(d, n) == [i \in 1 .. n |-> d]
MCNumbers ==
    {Number(neg, d, e) : neg \in BOOLEAN, d \in {<<1>>, <<1, 5>>, <<9, 9>>, <<1, 0, 5>>},
                         e \in {-128, -2, -1, 0, 1, 2, 125}}
    \cup {Number(neg, Repeat(9, n), 1) : neg \in BOOLEAN, n \in {19, 20, 39}}
    \cup {Number(neg, <<1>>, e) : neg \in BOOLEAN, e \in {-129, 126}}
    \cup {Number(FALSE, <<>>, 0)}
=============================================================================
