---------------------------- MODULE MCResultSet ----------------------------
(* Instances of ResultSet for TLC. *)
EXTENDS ResultSet
=============================================================================
