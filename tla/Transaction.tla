---------------------------- MODULE Transaction ----------------------------
(***************************************************************************)
(* Transactions of database/sql on one pooled connection.                  *)
(*                                                                         *)
(* The driver keeps one flag, conn.autoCommit, that every execution copies *)
(* into its request.  Commit and Rollback are calls like any other: each   *)
(* runs under the context given to BeginTx, whose watchdog may interrupt   *)
(* it, and an interrupt written too late strikes the next call             *)
(* (CallSession).  A call is abstracted here to what the server did with   *)
(* it and to what the caller was told.                                     *)
(***************************************************************************)
EXTENDS Naturals, FiniteSets

CONSTANTS
    Txs,        \* transactions the pool runs on the connection
    Autos,      \* executions outside any transaction
    Expiring,   \* the contexts that may end: "tx", of BeginTx, "exec", of an execution
    MaxStmts,   \* bound: executions in one transaction
    MaxLate     \* bound: watchdogs about to interrupt at one time

None == "none"
Owners == Txs \cup Autos
Ops == {"exec", "commit", "rollback"}

ASSUME OwnersAssumption ==
    /\ Txs \cap Autos = {}
    /\ None \notin Txs \cup Autos
ASSUME BoundsAssumption ==
    /\ MaxStmts \in Nat \ {0}
    /\ MaxLate \in Nat

VARIABLES
    calls,      \* executions outside any transaction whose stmtType is OTHERS
    holder,     \* the owner database/sql has given the connection to
    state,      \* what database/sql has told each owner
    n,          \* executions each owner has begun
    asked,      \* how each transaction was asked to end
    ctx,        \* the context given to BeginTx
    autoCommit, \* conn.autoCommit
    bad,        \* conn.bad
    op,         \* the call under way
    flag,       \* the commit bit of its request
    at,         \* "sent", or what became of it: "done", "cancelled", "lost"
    watch,      \* its watchdog
    firing,     \* watchdogs that will interrupt and have not yet
    intr,       \* an interrupt the server has not acted on
    up,         \* the socket and the server's session
    pending,    \* changes the session has made and not committed
    committed,  \* changes committed
    acked       \* executions reported as successful

callVars == <<op, flag, at, watch>>
serverVars == <<pending, committed>>
vars == <<calls, holder, state, n, asked, ctx, autoCommit, bad, op, flag, at, watch,
          firing, intr, up, pending, committed, acked>>

(* A change is named by its owner and the position of its execution.       *)
Change == Owners \X (1..MaxStmts)
Of(o) == {c \in Change : c[1] = o}

TxStates == {"new", "open", "ending", "committed", "rolledback", "failed"}

Init ==
    /\ calls \in SUBSET Autos
    /\ holder = None
    /\ state = [o \in Owners |-> "new"]
    /\ n = [o \in Owners |-> 0]
    /\ asked = [t \in Txs |-> None]
    /\ ctx = [t \in Txs |-> "live"]
    /\ autoCommit = TRUE /\ bad = FALSE
    /\ op = None /\ flag = FALSE /\ at = None /\ watch = "off"
    /\ firing = 0 /\ intr = FALSE /\ up = TRUE
    /\ pending = {} /\ committed = {} /\ acked = {}

-----------------------------------------------------------------------------
(* The driver, called by database/sql.                                     *)

(* Mutant: BeginTx leaves autoCommit on.                                   *)
BeginTxKeepsAutoCommit(t) ==
    /\ holder = None /\ ~bad
    /\ state[t] = "new"
    /\ holder' = t
    /\ state' = [state EXCEPT ![t] = "open"]
    /\ UNCHANGED <<calls, n, asked, ctx, autoCommit, bad, callVars, firing, intr, up,
                   serverVars, acked>>

(* BeginTx sends nothing: it clears autoCommit and keeps the context.      *)
BeginTx(t) ==
    /\ holder = None /\ ~bad
    /\ state[t] = "new"
    /\ holder' = t
    /\ state' = [state EXCEPT ![t] = "open"]
    /\ autoCommit' = FALSE
    /\ UNCHANGED <<calls, n, asked, ctx, bad, callVars, firing, intr, up,
                   serverVars, acked>>

(* Mutant: the short request of a statement that is executed again always  *)
(* carries execFlag.                                                       *)
CommitBitAlwaysAgain(o, again) == autoCommit \/ again
(* The commit bit of a request: 0x100 of getExeOption for a statement that *)
(* is parsed, DML or PL/SQL only, and execFlag, whatever the stmtType, for *)
(* one that is executed again.                                             *)
CommitBit(o, again) == autoCommit /\ (again \/ o \notin calls)

(* What every call starts with: a watchdog, and a request that is lost if  *)
(* the connection is.                                                      *)
StartOp(p, bit) ==
    /\ op' = p /\ flag' = bit
    /\ at' = IF up THEN "sent" ELSE "lost"
    /\ watch' = "wait"

(* ExecContext of a statement that makes a change (DML, PL/SQL, or a CALL, *)
(* whose stmtType is OTHERS), by the open transaction or by a caller       *)
(* outside any, who gets the connection for this call only.                *)
Exec(o, again) ==
    /\ op = None
    /\ \/ /\ o \in Txs /\ holder = o /\ state[o] = "open"
       \/ /\ o \in Autos /\ holder = None /\ ~bad /\ state[o] = "new"
    /\ n[o] < (IF o \in Txs THEN MaxStmts ELSE 1)
    /\ holder' = o
    /\ state' = [state EXCEPT ![o] = "open"]
    /\ n' = [n EXCEPT ![o] = @ + 1]
    /\ StartOp("exec", CommitBit(o, again))
    /\ UNCHANGED <<calls, asked, ctx, autoCommit, bad, firing, intr, up,
                   serverVars, acked>>

(* Mutant: the flag is not set back when the transaction ends.             *)
EndKeepsFlag(t, p) ==
    /\ op = None /\ holder = t /\ state[t] = "open"
    /\ StartOp(p, FALSE)
    /\ state' = [state EXCEPT ![t] = "ending"]
    /\ asked' = [asked EXCEPT ![t] = p]
    /\ UNCHANGED <<calls, holder, n, ctx, autoCommit, bad, firing, intr, up,
                   serverVars, acked>>

(* Transaction.Commit and Transaction.Rollback: autoCommit is on again     *)
(* before the request is written, whatever becomes of it.                  *)
End(t, p) ==
    /\ op = None /\ holder = t /\ state[t] = "open"
    /\ autoCommit' = TRUE
    /\ StartOp(p, FALSE)
    /\ state' = [state EXCEPT ![t] = "ending"]
    /\ asked' = [asked EXCEPT ![t] = p]
    /\ UNCHANGED <<calls, holder, n, ctx, bad, firing, intr, up, serverVars, acked>>

(* Tx.Commit of database/sql refuses a context that is over.               *)
Commit(t) == ctx[t] = "live" /\ End(t, "commit")
(* Called by the user, or by database/sql because the context is over.     *)
Rollback(t) == End(t, "rollback")

(* The connection is marked bad for some errors of a lost connection, and  *)
(* not for others.                                                         *)
MarkBad == IF at = "lost" THEN bad' \in {bad, TRUE} ELSE bad' = bad

(* ExecContext returns.  When its context is over, the select may report   *)
(* that instead of the result.                                             *)
ReturnExec ==
    /\ op = "exec" /\ at # "sent"
    /\ \E ok \in BOOLEAN :
        /\ ok => at = "done"
        /\ ~ok => at # "done" \/ watch = "fired"
        /\ acked' = IF ok THEN acked \cup {<<holder, n[holder]>>} ELSE acked
        /\ state' = IF holder \in Txs THEN state
                    ELSE [state EXCEPT ![holder] = IF ok THEN "committed" ELSE "failed"]
    /\ holder' = IF holder \in Txs THEN holder ELSE None
    /\ MarkBad
    /\ op' = None /\ flag' = FALSE /\ at' = None /\ watch' = "off"
    /\ UNCHANGED <<calls, n, asked, ctx, autoCommit, firing, intr, up, serverVars>>

(* Mutant: the error read after ErrConnReset is dropped.                   *)
EndOutcomeIgnoresCancel == IF at = "lost" THEN "failed"
                           ELSE IF op = "commit" THEN "committed" ELSE "rolledback"
(* What simpleObject.exec returns: nil only for a reply without an error.  *)
EndOutcome == IF at # "done" THEN "failed"
              ELSE IF op = "commit" THEN "committed" ELSE "rolledback"

(* Commit or Rollback returns and database/sql releases the connection,    *)
(* to the pool unless IsValid says no.                                     *)
ReturnEnd ==
    /\ op \in {"commit", "rollback"} /\ at # "sent"
    /\ state' = [state EXCEPT ![holder] = EndOutcome]
    /\ holder' = None
    /\ MarkBad
    /\ op' = None /\ flag' = FALSE /\ at' = None /\ watch' = "off"
    /\ UNCHANGED <<calls, n, asked, ctx, autoCommit, firing, intr, up, serverVars,
                   acked>>

-----------------------------------------------------------------------------
(* Contexts and watchdogs.                                                 *)

(* The context given to BeginTx is cancelled or expires.                   *)
CancelTx(t) ==
    /\ "tx" \in Expiring
    /\ state[t] \in {"open", "ending"} /\ ctx[t] = "live"
    /\ ctx' = [ctx EXCEPT ![t] = "cancelled"]
    /\ UNCHANGED <<calls, holder, state, n, asked, autoCommit, bad, callVars, firing,
                   intr, up, serverVars, acked>>

(* The context of the call is over: an execution has its own, Commit and   *)
(* Rollback the transaction's.                                             *)
WatchdogFires ==
    /\ watch = "wait" /\ firing < MaxLate
    /\ IF op = "exec" THEN "exec" \in Expiring ELSE ctx[holder] = "cancelled"
    /\ watch' = "fired"
    /\ firing' = firing + 1
    /\ UNCHANGED <<calls, holder, state, n, asked, ctx, autoCommit, bad, op, flag, at,
                   intr, up, serverVars, acked>>

(* Mutant: the watchdog interrupts when its call ends, cancelled or not.   *)
BreakConnectionUnasked ==
    /\ firing' = firing - 1
    /\ intr' = up
    /\ UNCHANGED <<calls, holder, state, n, asked, ctx, autoCommit, bad, callVars, up,
                   serverVars, acked>>

(* The watchdog writes its interrupt, maybe after its call has returned.   *)
BreakConnection ==
    /\ firing > 0
    /\ firing' = firing - 1
    /\ intr' = up
    /\ UNCHANGED <<calls, holder, state, n, asked, ctx, autoCommit, bad, callVars, up,
                   serverVars, acked>>

-----------------------------------------------------------------------------
(* The server (external).                                                  *)

(* It carries out the request.  Committing takes all the session holds.    *)
ServerExecutes ==
    /\ at = "sent"
    /\ at' = "done"
    /\ LET made == IF op = "exec" THEN pending \cup {<<holder, n[holder]>>} ELSE pending
           commits == flag \/ op = "commit"
       IN /\ pending' = IF commits \/ op = "rollback" THEN {} ELSE made
          /\ committed' = IF commits THEN committed \cup made ELSE committed
    /\ UNCHANGED <<calls, holder, state, n, asked, ctx, autoCommit, bad, op, flag,
                   watch, firing, intr, up, acked>>

(* The interrupt is answered with ORA-01013.  It mostly comes before the   *)
(* request took effect, but may cut off the reply of one that has.         *)
ServerInterrupted ==
    /\ at \in {"sent", "done"} /\ intr
    /\ at' = "cancelled" /\ intr' = FALSE
    /\ UNCHANGED <<calls, holder, state, n, asked, ctx, autoCommit, bad, op, flag,
                   watch, firing, up, serverVars, acked>>

(* An interrupt met between two requests may also be without effect.       *)
ServerIgnores ==
    /\ intr /\ at # "sent"
    /\ intr' = FALSE
    /\ UNCHANGED <<calls, holder, state, n, asked, ctx, autoCommit, bad, callVars,
                   firing, up, serverVars, acked>>

(* The connection is lost and the server rolls the session back; a reply   *)
(* under way may be lost with it.                                          *)
LoseConnection ==
    /\ up
    /\ up' = FALSE /\ intr' = FALSE /\ pending' = {}
    /\ at' \in CASE at = None -> {None}
                 [] at = "sent" -> {"lost"}
                 [] OTHER -> {at, "lost"}
    /\ UNCHANGED <<calls, holder, state, n, asked, ctx, autoCommit, bad, op, flag,
                   watch, firing, committed, acked>>

-----------------------------------------------------------------------------
Next ==
    \/ \E t \in Txs : BeginTx(t) \/ Commit(t) \/ Rollback(t) \/ CancelTx(t)
    \/ \E o \in Owners, again \in BOOLEAN : Exec(o, again)
    \/ ReturnExec \/ ReturnEnd
    \/ WatchdogFires \/ BreakConnection
    \/ ServerExecutes \/ ServerInterrupted \/ ServerIgnores \/ LoseConnection

Spec == Init /\ [][Next]_vars

-----------------------------------------------------------------------------
(* Every variable keeps its type.                                          *)
TypeOK ==
    /\ calls \in SUBSET Autos
    /\ holder \in Owners \cup {None}
    /\ state \in [Owners -> TxStates]
    /\ n \in [Owners -> 0..MaxStmts]
    /\ asked \in [Txs -> {None, "commit", "rollback"}]
    /\ ctx \in [Txs -> {"live", "cancelled"}]
    /\ autoCommit \in BOOLEAN /\ bad \in BOOLEAN
    /\ op \in Ops \cup {None} /\ flag \in BOOLEAN
    /\ at \in {None, "sent", "done", "cancelled", "lost"}
    /\ watch \in {"off", "wait", "fired"}
    /\ firing \in 0..MaxLate /\ intr \in BOOLEAN /\ up \in BOOLEAN
    /\ pending \in SUBSET Change /\ committed \in SUBSET Change
    /\ acked \in SUBSET Change

(* When Commit returns nil, every execution of the transaction that was    *)
(* reported as successful is committed, whatever was interrupted meanwhile *)
(* and whatever becomes of the connection.                                 *)
CommitDurable ==
    \A t \in Txs : state[t] = "committed" => acked \cap Of(t) \subseteq committed

(* When Rollback returns nil, nothing of the transaction is committed, and *)
(* nothing of it will be by a later user of the connection.                *)
RollbackFinal ==
    \A t \in Txs : state[t] = "rolledback" => Of(t) \cap committed = {}

(* An execution outside a transaction that was reported as successful is   *)
(* committed: autoCommit is on whenever no transaction is open.  A CALL is *)
(* left out: getExeOption gives its first execution no commit bit          *)
(* (command.go:599), and what it changed waits for the next commit.        *)
AutoCommitted ==
    \A o \in Autos \ calls : acked \cap Of(o) \subseteq committed

(* The executions of a transaction that were reported as successful are    *)
(* committed together or not at all, also when a cancelled or failed end   *)
(* left them to the next user of the connection.                           *)
AllOrNothing ==
    \A t \in Txs : \/ acked \cap Of(t) \subseteq committed
                   \/ Of(t) \cap committed = {}

(* What database/sql promises for a transaction that is rolled back by its *)
(* user or because its context is over: nothing of it is ever committed.   *)
RolledBackStays ==
    \A t \in Txs : asked[t] = "rollback" => Of(t) \cap committed = {}
=============================================================================
