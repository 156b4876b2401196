SPECIFICATION FairSpec
CONSTANTS
    c1 = c1
    c2 = c2
    Calls = {c1, c2}
    Kinds = {"exec", "fetch"}
    ReqPkts = 2
    MaxInFlight = 2
    OOBOptions = {FALSE, TRUE}
    IdleReactions = {"answer"}
    Losses = {}
PROPERTIES
    CancelReturns
    StruckReturns
