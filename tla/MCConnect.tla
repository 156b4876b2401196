----------------------------- MODULE MCConnect -----------------------------
(* Instances of Connect for TLC. *)
EXTENDS Connect, TLC

CONSTANTS s1, s2, s3

TwoServers == <<s1, s2>>
OneServer == <<s1>>
Redirects == {<<s2, s3>>}
Symmetry == Permutations(Conns)
=============================================================================
