------------------------- MODULE PooledConnection -------------------------
(***************************************************************************)
(* What database/sql may expect of a pooled connection, with no packets,   *)
(* markers or goroutines: one call at a time, one answer per call, and a   *)
(* verdict on the connection when the call returns.                        *)
(***************************************************************************)
CONSTANT Calls

VARIABLES
    state,     \* "idle" (in the pool), "busy", "dropped"
    call,      \* the current call, or the last one
    answer,    \* the server's answer that no call has returned yet
    lost,      \* the peer is gone
    cancelled, \* whose context is over
    result     \* what each call returned

vars == <<state, call, answer, lost, cancelled, result>>

Answers == {"ok", "cancelled", "fatal"}
Failures == {"eof", "rst", "epipe", "closed", "badconn"}

Init ==
    /\ state = "idle" /\ call \in Calls /\ answer = "none" /\ lost = FALSE
    /\ cancelled = [c \in Calls |-> FALSE]
    /\ result = [c \in Calls |-> "none"]

(* A connection of the pool owes no answer to a call that has returned.    *)
Start(c) ==
    /\ state = "idle" /\ answer = "none"
    /\ state' = "busy" /\ call' = c
    /\ cancelled' = [cancelled EXCEPT ![c] = FALSE]
    /\ result' = [result EXCEPT ![c] = "none"]
    /\ UNCHANGED <<answer, lost>>

Cancel ==
    /\ state = "busy"
    /\ cancelled' = [cancelled EXCEPT ![call] = TRUE]
    /\ UNCHANGED <<state, call, answer, lost, result>>

(* The server answers the call under way, once.                            *)
Answer ==
    /\ state = "busy" /\ ~lost /\ answer = "none"
    /\ answer' \in Answers
    /\ UNCHANGED <<state, call, lost, cancelled, result>>

(* The connection is lost, with an answer on its way or without.           *)
Lose ==
    /\ ~lost
    /\ lost' = TRUE
    /\ answer' \in {answer, "none"}
    /\ UNCHANGED <<state, call, cancelled, result>>

(* A call reports the server's answer, or a failure of a connection that   *)
(* is lost, or that its context is over, and then only once the answer has *)
(* been taken off the connection.                                          *)
MayReturn(r) ==
    \/ r \in Answers /\ answer = r
    \/ r \in Failures /\ lost
    \/ r = "ctx" /\ cancelled[call] /\ (answer # "none" \/ lost)

(* The connection is dropped after io.EOF, driver.ErrBadConn and an error  *)
(* that ends the session, and never for less than a loss or such an error. *)
Verdict(r, s) ==
    /\ r \in {"eof", "badconn", "fatal"} => s = "dropped"
    /\ s = "dropped" => lost \/ answer = "fatal"

Return ==
    /\ state = "busy"
    /\ \E r \in Answers \cup Failures \cup {"ctx"}, s \in {"idle", "dropped"} :
          /\ MayReturn(r) /\ Verdict(r, s)
          /\ result' = [result EXCEPT ![call] = r]
          /\ state' = s
    /\ answer' = "none"
    /\ UNCHANGED <<call, lost, cancelled>>

Next == (\E c \in Calls : Start(c)) \/ Cancel \/ Answer \/ Lose \/ Return

Spec == Init /\ [][Next]_vars
=============================================================================
