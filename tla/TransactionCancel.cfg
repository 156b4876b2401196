SPECIFICATION Spec
CONSTANTS
    t1 = t1
    t2 = t2
    a1 = a1
    Txs = {t1, t2}
    Autos = {a1}
    Expiring = {"tx"}
    MaxStmts = 2
    MaxLate = 2
SYMMETRY Symmetry
INVARIANTS
    RolledBackStays
CHECK_DEADLOCK FALSE
