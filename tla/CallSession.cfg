SPECIFICATION Spec
CONSTANTS
    c1 = c1
    c2 = c2
    Calls = {c1, c2}
    Kinds = {"exec", "query", "simple", "close", "fetch"}
    ReqPkts = 2
    MaxInFlight = 2
    OOBOptions = {FALSE, TRUE}
    IdleReactions = {"answer", "ignore"}
    Losses = {"eof", "rst", "final"}
SYMMETRY Symmetry
INVARIANTS
    TypeOK
    OwnReply
    PooledStreamClean
PROPERTIES
    PooledSpec
