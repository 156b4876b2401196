----------------------------- MODULE MCStatement -----------------------------
(***************************************************************************)
(* Instance of Statement for TLC: texts with two parameters, one of them   *)
(* repeated or not, and arguments of the types and lengths setParam tells  *)
(* apart.                                                                  *)
(***************************************************************************)
EXTENDS Statement

MCTexts == {<<"a", "b">>, <<"a", "b", "a">>, <<"a", "a", "b">>}

MCDefs ==
  [t \in {"SELECT", "DML", "PLSQL"} |->
     CASE t = "DML" -> [a |-> {<<"NUMBER", 2>>, <<"NCHAR", 1>>, <<"NCHAR", 3>>,
                               <<"LONG", 4>>},
                        b |-> {<<"NCHAR", 1>>, <<"LONG", 4>>}]
       [] t = "SELECT" -> [a |-> {<<"NCHAR", 1>>, <<"NCHAR", 3>>},
                           b |-> {<<"NCHAR", 1>>}]
       [] t = "PLSQL" -> [a |-> {<<"NUMBER", 2>>}, b |-> {<<"NUMBER", 2>>}]]

MCMaxCalls == [t \in DOMAIN MCDefs |-> IF t = "DML" THEN 3 ELSE 2]
=============================================================================
