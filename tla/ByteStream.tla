----------------------------- MODULE ByteStream -----------------------------
(***************************************************************************)
(* What the packet layer of a session promises the layers above it: the    *)
(* payload the server sends is one stream of bytes, and each read takes    *)
(* the next bytes of it.  A read that fails, or a call that starts, may    *)
(* drop the next bytes; after the stream is broken nothing is promised.    *)
(* Bytes are numbered in the order they are sent.                          *)
(***************************************************************************)
EXTENDS Naturals

VARIABLES
    sent,    \* payload bytes the server has sent
    taken,   \* payload bytes that were read or dropped
    result,  \* the bytes of the last read, <<>> if it failed
    ok       \* the stream is not broken

vars == <<sent, taken, result, ok>>

Init == sent = 0 /\ taken = 0 /\ result = <<>> /\ ok = TRUE

Send ==
    /\ sent' > sent
    /\ UNCHANGED <<taken, result, ok>>

(* A read gives the next bytes, all of them sent and none given before.    *)
Read ==
    /\ taken < taken' /\ taken' <= sent
    /\ result' = [i \in 1 .. taken' - taken |-> taken + i]
    /\ UNCHANGED <<sent, ok>>

(* A failed read or a new call drops bytes it gives to nobody.             *)
Skip ==
    /\ taken <= taken' /\ taken' <= sent
    /\ result' = <<>>
    /\ UNCHANGED <<sent, ok>>

Break == ok' = FALSE

Next == (ok /\ (Send \/ Read \/ Skip)) \/ Break

Spec == Init /\ [][Next]_vars
=============================================================================
