------------------------- MODULE TransactionProofs -------------------------
(***************************************************************************)
(* Proofs about Transaction, for any number of transactions, of executions *)
(* outside them and of executions in one.                                  *)
(***************************************************************************)
EXTENDS Transaction, TLAPS

Ending == op \in {"commit", "rollback"}

(* Who holds the connection and what it is doing with it.                  *)
Holding ==
    /\ \A o \in Owners : holder = o <=> state[o] \in {"open", "ending"}
    /\ op = None <=> at = None
    /\ op # None => holder \in Owners
    /\ op = "exec" => state[holder] = "open" /\ n[holder] \in 1..MaxStmts
    /\ Ending => holder \in Txs /\ state[holder] = "ending"
    /\ holder \in Txs => (state[holder] = "ending" <=> Ending)
    /\ holder \in Autos => op = "exec"
    /\ at = "sent" => up

(* autoCommit is off exactly while a transaction is open.  A request that  *)
(* asks for a commit is made outside a transaction, and every one made     *)
(* outside does but the first of a CALL.                                   *)
Flagged ==
    /\ autoCommit <=> ~(holder \in Txs /\ ~Ending)
    /\ op = "exec" => (flag => holder \in Autos) /\ (holder \in Autos \ calls => flag)
    /\ Ending => ~flag

(* What the server holds for an owner, by what the owner has been told.    *)
Unused == \A o \in Owners : state[o] = "new" =>
    /\ Of(o) \cap pending = {}
    /\ Of(o) \cap committed = {}
    /\ Of(o) \cap acked = {}
Leftover == \A o \in Owners : Of(o) \cap pending # {} =>
    o \in calls \/ (o \in Txs /\ state[o] \in {"open", "ending", "failed"})

(* The executions of a transaction share one fate.                         *)
Together == \A t \in Txs :
    \/ acked \cap Of(t) \subseteq committed
    \/ /\ Of(t) \cap committed = {}
       /\ acked \cap Of(t) \subseteq pending \/ Of(t) \cap pending = {}

(* The transaction under way: until a commit takes effect nothing of it is *)
(* committed, and all of it is pending unless the session is gone.         *)
Underway == holder \in Txs =>
    /\ op # "commit" \/ at = "sent" => Of(holder) \cap committed = {}
    /\ ~Ending \/ at = "sent" => (up => acked \cap Of(holder) \subseteq pending)

(* What a request that was carried out has done.                           *)
CarriedOut == at = "done" =>
    /\ op = "exec" /\ holder \in Autos \ calls => <<holder, n[holder]>> \in committed
    /\ op = "exec" /\ holder \in Txs /\ up => <<holder, n[holder]>> \in pending
    /\ op = "commit" => acked \cap Of(holder) \subseteq committed
    /\ Ending => Of(holder) \cap pending = {}

(* A lost session holds nothing.                                           *)
Gone == ~up => pending = {}

(* The three invariants in question.                                       *)
Settled == CommitDurable /\ RollbackFinal /\ AutoCommitted

(* The inductive invariant.                                                *)
IInv == /\ TypeOK /\ Gone /\ Holding /\ Flagged /\ Unused /\ Leftover /\ Together
        /\ Underway /\ CarriedOut /\ Settled

(* BeginTx hands the idle connection to a transaction and turns autoCommit *)
(* off; nothing of that transaction exists yet.                            *)
LEMMA BeginTxStep ==
    ASSUME IInv,
           NEW t \in Txs, BeginTx(t)
    PROVE  IInv'
<1> USE OwnersAssumption, BoundsAssumption
    DEF IInv, TypeOK, Holding, Flagged, Ending, callVars, serverVars, None, Owners, Of,
        BeginTx
<1>1. TypeOK'
    BY DEF Change, Ops, TxStates
<1>2. Gone'
    BY DEF Gone
<1>3. Holding'
    OBVIOUS
<1>4. Flagged'
    OBVIOUS
<1>5. Unused'
    BY DEF Unused
<1>6. Leftover'
    BY DEF Leftover
<1>7. Together'
    BY DEF Together
<1>8. Underway'
    BY DEF Underway, Unused
<1>9. CarriedOut'
    BY DEF CarriedOut
<1>10. Settled'
    BY DEF Settled, CommitDurable, RollbackFinal, AutoCommitted
<1> HIDE DEF IInv
<1> QED
    BY <1>1, <1>2, <1>3, <1>4, <1>5, <1>6, <1>7, <1>8, <1>9, <1>10 DEF IInv

(* An execution copies autoCommit into its request: off in a transaction,  *)
(* on outside, but for the first execution of a CALL.                      *)
LEMMA ExecStep ==
    ASSUME IInv,
           NEW o \in Owners, NEW again \in BOOLEAN, Exec(o, again)
    PROVE  IInv'
<1> USE OwnersAssumption, BoundsAssumption
    DEF IInv, TypeOK, Holding, Flagged, Ending, callVars, serverVars, None, Owners, Of,
        Exec, StartOp, CommitBit
<1>1. TypeOK'
    BY DEF Ops, TxStates
<1>2. Gone'
    BY DEF Gone
<1>3. Holding'
    OBVIOUS
<1>4. Flagged'
    OBVIOUS
<1>5. Unused'
    BY DEF Unused
<1>6. Leftover'
    BY DEF Leftover
<1>7. Together'
    BY DEF Together
<1>8. Underway'
    BY DEF Underway
<1>9. CarriedOut'
    BY DEF CarriedOut
<1>10. Settled'
    BY DEF Settled, CommitDurable, RollbackFinal, AutoCommitted
<1> HIDE DEF IInv
<1> QED
    BY <1>1, <1>2, <1>3, <1>4, <1>5, <1>6, <1>7, <1>8, <1>9, <1>10 DEF IInv

(* Commit and Rollback turn autoCommit on before their request is written; *)
(* the transaction is then ending and runs no execution.                   *)
LEMMA EndStep ==
    ASSUME IInv,
           NEW t \in Txs, NEW p \in {"commit", "rollback"}, End(t, p)
    PROVE  IInv'
<1> USE OwnersAssumption, BoundsAssumption
    DEF IInv, TypeOK, Holding, Flagged, Ending, callVars, serverVars, None, Owners, Of,
        End, StartOp
<1>1. TypeOK'
    BY DEF Change, Ops, TxStates
<1>2. Gone'
    BY DEF Gone
<1>3. Holding'
    OBVIOUS
<1>4. Flagged'
    OBVIOUS
<1>5. Unused'
    BY DEF Unused
<1>6. Leftover'
    BY DEF Leftover
<1>7. Together'
    BY DEF Together
<1>8. Underway'
    BY DEF Underway
<1>9. CarriedOut'
    BY DEF CarriedOut
<1>10. Settled'
    BY DEF Settled, CommitDurable, RollbackFinal, AutoCommitted
<1> HIDE DEF IInv
<1> QED
    BY <1>1, <1>2, <1>3, <1>4, <1>5, <1>6, <1>7, <1>8, <1>9, <1>10 DEF IInv

(* An execution returns.  One that is reported as successful was carried   *)
(* out, so that its change is committed or, in a transaction, pending.     *)
LEMMA ReturnExecStep ==
    ASSUME IInv,
           ReturnExec
    PROVE  IInv'
<1> USE OwnersAssumption, BoundsAssumption
    DEF IInv, TypeOK, Holding, Flagged, Ending, callVars, serverVars, None, Owners, Of,
        ReturnExec, MarkBad
<1>1. TypeOK'
    <2>1. PICK ok \in BOOLEAN :
              /\ acked' = IF ok THEN acked \cup {<<holder, n[holder]>>} ELSE acked
              /\ state' = IF holder \in Txs THEN state
                          ELSE [state EXCEPT ![holder] = IF ok THEN "committed" ELSE "failed"]
        OBVIOUS
    <2>2. <<holder, n[holder]>> \in Change
        BY DEF Change
    <2>3. acked' \in SUBSET Change
        BY <2>1, <2>2
    <2>4. state' \in [Owners -> TxStates]
        BY <2>1 DEF TxStates
    <2> QED
        BY <2>3, <2>4 DEF Ops
<1>2. Gone'
    BY DEF Gone
<1>3. Holding'
    OBVIOUS
<1>4. Flagged'
    OBVIOUS
<1>5. Unused'
    BY DEF Unused
<1>6. Leftover'
    BY DEF Leftover
<1>7. Together'
    <2> SUFFICES ASSUME NEW t \in Txs
                 PROVE  \/ acked' \cap Of(t) \subseteq committed
                        \/ /\ Of(t) \cap committed = {}
                           /\ acked' \cap Of(t) \subseteq pending \/ Of(t) \cap pending = {}
        BY DEF Together
    <2>1. PICK ok \in BOOLEAN :
              /\ ok => at = "done"
              /\ acked' = IF ok THEN acked \cup {<<holder, n[holder]>>} ELSE acked
        OBVIOUS
    <2>2. CASE t = holder /\ ok
        <3>1. Of(t) \cap committed = {}
            BY <2>2 DEF Underway
        <3>2. CASE up
            BY <2>1, <2>2, <3>1, <3>2 DEF Underway, CarriedOut
        <3>3. CASE ~up
            BY <2>1, <2>2, <3>1, <3>3 DEF Gone
        <3> QED
            BY <3>2, <3>3
    <2>3. CASE ~(t = holder /\ ok)
        <3>1. acked' \cap Of(t) = acked \cap Of(t)
            BY <2>1, <2>3
        <3> QED
            BY <3>1 DEF Together
    <2> QED
        BY <2>2, <2>3
<1>8. Underway'
    BY DEF Underway, CarriedOut
<1>9. CarriedOut'
    BY DEF CarriedOut
<1>10. Settled'
    BY DEF Settled, CommitDurable, RollbackFinal, AutoCommitted, CarriedOut
<1> HIDE DEF IInv
<1> QED
    BY <1>1, <1>2, <1>3, <1>4, <1>5, <1>6, <1>7, <1>8, <1>9, <1>10 DEF IInv

(* Commit or Rollback returns: nil only if the request was carried out.    *)
LEMMA ReturnEndStep ==
    ASSUME IInv,
           ReturnEnd
    PROVE  IInv'
<1> USE OwnersAssumption, BoundsAssumption
    DEF IInv, TypeOK, Holding, Flagged, Ending, callVars, serverVars, None, Owners, Of,
        ReturnEnd, MarkBad, EndOutcome
<1>1. TypeOK'
    BY DEF Change, Ops, TxStates
<1>2. Gone'
    BY DEF Gone
<1>3. Holding'
    OBVIOUS
<1>4. Flagged'
    OBVIOUS
<1>5. Unused'
    BY DEF Unused
<1>6. Leftover'
    BY DEF Leftover, CarriedOut
<1>7. Together'
    BY DEF Together
<1>8. Underway'
    BY DEF Underway
<1>9. CarriedOut'
    BY DEF CarriedOut
<1>10. Settled'
    BY DEF Settled, CommitDurable, RollbackFinal, AutoCommitted, Underway, CarriedOut
<1> HIDE DEF IInv
<1> QED
    BY <1>1, <1>2, <1>3, <1>4, <1>5, <1>6, <1>7, <1>8, <1>9, <1>10 DEF IInv

(* The server carries out the request; a commit takes all that is pending, *)
(* leftovers of earlier transactions included.                             *)
LEMMA ServerExecutesStep ==
    ASSUME IInv,
           ServerExecutes
    PROVE  IInv'
<1> USE OwnersAssumption, BoundsAssumption
    DEF IInv, TypeOK, Holding, Flagged, Ending, callVars, serverVars, None, Owners, Of,
        ServerExecutes
<1>1. TypeOK'
    BY DEF Change
<1>2. Gone'
    BY DEF Gone
<1>3. Holding'
    OBVIOUS
<1>4. Flagged'
    OBVIOUS
<1>5. Unused'
    BY DEF Unused
<1>6. Leftover'
    BY DEF Leftover
<1>7. Together'
    BY DEF Together, Underway
<1>8. Underway'
    <2>1. ASSUME holder \in Txs, op # "commit"
          PROVE  Of(holder) \cap committed' = {}
        <3>1. ~flag
            BY <2>1 DEF Ops
        <3>2. committed' = committed
            BY <2>1, <3>1
        <3> QED
            BY <2>1, <3>2 DEF Underway
    <2>2. ASSUME holder \in Txs, ~Ending
          PROVE  up => acked \cap Of(holder) \subseteq pending'
        <3>1. op = "exec" /\ ~flag
            BY <2>2 DEF Ops
        <3>2. pending \subseteq pending'
            BY <3>1
        <3> QED
            BY <2>2, <3>2 DEF Underway
    <2> QED
        BY <2>1, <2>2 DEF Underway
<1>9. CarriedOut'
    BY DEF CarriedOut, Underway
<1>10. Settled'
    BY DEF Settled, CommitDurable, RollbackFinal, AutoCommitted, Leftover
<1> HIDE DEF IInv
<1> QED
    BY <1>1, <1>2, <1>3, <1>4, <1>5, <1>6, <1>7, <1>8, <1>9, <1>10 DEF IInv

(* The server answers an interrupt, which undoes nothing.                  *)
LEMMA ServerInterruptedStep ==
    ASSUME IInv,
           ServerInterrupted
    PROVE  IInv'
<1> USE OwnersAssumption, BoundsAssumption
    DEF IInv, TypeOK, Holding, Flagged, Ending, callVars, serverVars, None, Owners, Of,
        ServerInterrupted
<1>1. TypeOK'
    BY DEF Change, Ops, TxStates
<1>2. Gone'
    BY DEF Gone
<1>3. Holding'
    OBVIOUS
<1>4. Flagged'
    OBVIOUS
<1>5. Unused'
    BY DEF Unused
<1>6. Leftover'
    BY DEF Leftover
<1>7. Together'
    BY DEF Together
<1>8. Underway'
    BY DEF Underway
<1>9. CarriedOut'
    BY DEF CarriedOut
<1>10. Settled'
    BY DEF Settled, CommitDurable, RollbackFinal, AutoCommitted
<1> HIDE DEF IInv
<1> QED
    BY <1>1, <1>2, <1>3, <1>4, <1>5, <1>6, <1>7, <1>8, <1>9, <1>10 DEF IInv

(* The connection is lost and what was pending is rolled back.             *)
LEMMA LoseConnectionStep ==
    ASSUME IInv,
           LoseConnection
    PROVE  IInv'
<1> USE OwnersAssumption, BoundsAssumption
    DEF IInv, TypeOK, Holding, Flagged, Ending, callVars, serverVars, None, Owners, Of,
        LoseConnection
<1>1. TypeOK'
    BY DEF Change, Ops, TxStates
<1>2. Gone'
    BY DEF Gone
<1>3. Holding'
    OBVIOUS
<1>4. Flagged'
    OBVIOUS
<1>5. Unused'
    BY DEF Unused
<1>6. Leftover'
    BY DEF Leftover
<1>7. Together'
    BY DEF Together
<1>8. Underway'
    BY DEF Underway
<1>9. CarriedOut'
    BY DEF CarriedOut
<1>10. Settled'
    BY DEF Settled, CommitDurable, RollbackFinal, AutoCommitted
<1> HIDE DEF IInv
<1> QED
    BY <1>1, <1>2, <1>3, <1>4, <1>5, <1>6, <1>7, <1>8, <1>9, <1>10 DEF IInv

(* Contexts, watchdogs and stray interrupts touch neither the changes nor  *)
(* what was told about them.                                               *)
LEMMA ContextStep ==
    ASSUME IInv,
           \/ \E t \in Txs : CancelTx(t)
           \/ WatchdogFires \/ BreakConnection \/ ServerIgnores
    PROVE  IInv'
<1> USE OwnersAssumption, BoundsAssumption
    DEF IInv, TypeOK, Holding, Flagged, Ending, callVars, serverVars, None, Owners, Of,
        CancelTx, WatchdogFires, BreakConnection, ServerIgnores
<1>1. TypeOK'
    <2>1. CASE \E t \in Txs : CancelTx(t)
        BY <2>1
    <2>2. CASE WatchdogFires
        BY <2>2
    <2>3. CASE BreakConnection
        BY <2>3
    <2>4. CASE ServerIgnores
        BY <2>4
    <2> QED
        BY <2>1, <2>2, <2>3, <2>4
<1>2. Gone'
    BY DEF Gone
<1>3. Holding'
    OBVIOUS
<1>4. Flagged'
    OBVIOUS
<1>5. Unused'
    BY DEF Unused
<1>6. Leftover'
    BY DEF Leftover
<1>7. Together'
    BY DEF Together, CarriedOut, Leftover, Unused, Change, Gone
<1>8. Underway'
    BY DEF Underway
<1>9. CarriedOut'
    BY DEF CarriedOut
<1>10. Settled'
    BY DEF Settled, CommitDurable, RollbackFinal, AutoCommitted
<1> HIDE DEF IInv
<1> QED
    BY <1>1, <1>2, <1>3, <1>4, <1>5, <1>6, <1>7, <1>8, <1>9, <1>10 DEF IInv

(* In the initial state nobody holds the connection and nothing exists.    *)
LEMMA InitIInv == Init => IInv
<1> SUFFICES ASSUME Init
             PROVE  IInv
    OBVIOUS
<1> USE OwnersAssumption, BoundsAssumption DEF Init, None, Owners
<1>1. TypeOK
    <2>1. state \in [Owners -> TxStates] /\ n \in [Owners -> 0..MaxStmts]
        BY DEF TxStates
    <2>2. /\ autoCommit \in BOOLEAN /\ bad \in BOOLEAN /\ flag \in BOOLEAN
          /\ intr \in BOOLEAN /\ up \in BOOLEAN
        BY Zenon
    <2>3. /\ pending \in SUBSET Change /\ committed \in SUBSET Change
          /\ acked \in SUBSET Change
        OBVIOUS
    <2>4. /\ asked \in [Txs -> {None, "commit", "rollback"}]
          /\ ctx \in [Txs -> {"live", "cancelled"}]
        OBVIOUS
    <2> QED
        BY <2>1, <2>2, <2>3, <2>4 DEF TypeOK, Ops
<1>2. Gone /\ Holding /\ Flagged
    BY DEF Gone, Holding, Flagged, Ending
<1>3. Unused /\ Leftover /\ Together /\ Underway /\ CarriedOut
    BY DEF Unused, Leftover, Together, Underway, CarriedOut
<1>4. Settled
    BY DEF Settled, CommitDurable, RollbackFinal, AutoCommitted
<1> QED
    BY <1>1, <1>2, <1>3, <1>4 DEF IInv

(* Every step keeps the invariant.                                         *)
LEMMA StepIInv == IInv /\ [Next]_vars => IInv'
<1> SUFFICES ASSUME IInv, [Next]_vars
             PROVE  IInv'
    OBVIOUS
<1>1. ASSUME NEW t \in Txs, BeginTx(t) \/ Commit(t) \/ Rollback(t) \/ CancelTx(t)
      PROVE  IInv'
    BY <1>1, BeginTxStep, EndStep, ContextStep DEF Commit, Rollback
<1>2. ASSUME NEW o \in Owners, NEW again \in BOOLEAN, Exec(o, again)
      PROVE  IInv'
    BY <1>2, ExecStep
<1>3. CASE ReturnExec \/ ReturnEnd
    BY <1>3, ReturnExecStep, ReturnEndStep
<1>4. CASE WatchdogFires \/ BreakConnection \/ ServerIgnores
    BY <1>4, ContextStep
<1>5. CASE ServerExecutes \/ ServerInterrupted \/ LoseConnection
    BY <1>5, ServerExecutesStep, ServerInterruptedStep, LoseConnectionStep
<1>6. CASE UNCHANGED vars
    BY <1>6 DEF vars, IInv, TypeOK, Gone, Holding, Flagged, Ending, Unused, Leftover,
       Together, Underway, CarriedOut, Settled, CommitDurable, RollbackFinal,
       AutoCommitted
<1> QED
    BY <1>1, <1>2, <1>3, <1>4, <1>5, <1>6 DEF Next

(* The invariant holds in every state.                                     *)
THEOREM TransactionInvariant == Spec => []IInv
BY InitIInv, StepIInv, PTL DEF Spec

(* A transaction whose Commit returned nil is committed, for any number of *)
(* transactions and executions and whatever was interrupted or lost.       *)
THEOREM CommitIsDurable == Spec => []CommitDurable
<1>1. IInv => CommitDurable
    BY DEF IInv, Settled
<1> QED
    BY <1>1, TransactionInvariant, PTL

(* A transaction whose Rollback returned nil is never committed.           *)
THEOREM RollbackIsFinal == Spec => []RollbackFinal
<1>1. IInv => RollbackFinal
    BY DEF IInv, Settled
<1> QED
    BY <1>1, TransactionInvariant, PTL

(* An execution of DML or PL/SQL outside a transaction that succeeded is   *)
(* committed.                                                              *)
THEOREM AutoCommitDurable == Spec => []AutoCommitted
<1>1. IInv => AutoCommitted
    BY DEF IInv, Settled
<1> QED
    BY <1>1, TransactionInvariant, PTL

(* The executions of a transaction are committed together or not at all,   *)
(* also when its Commit or Rollback failed.                                *)
THEOREM TransactionAtomic == Spec => []AllOrNothing
<1>1. IInv => AllOrNothing
    BY DEF IInv, Together, AllOrNothing
<1> QED
    BY <1>1, TransactionInvariant, PTL

(* Every variable of a session, its transactions and its executions stays  *)
(* in its type, whatever the sets of transactions and executions.          *)
THEOREM TypesKept == Spec => []TypeOK
<1>1. IInv => TypeOK
    BY DEF IInv
<1> QED
    BY <1>1, TransactionInvariant, PTL
=============================================================================
