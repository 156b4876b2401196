SPECIFICATION DeadlineSpec
CONSTANTS
    c1 = c1
    c2 = c2
    Calls = {c1, c2}
    Kinds = {"exec"}
    ReqPkts = 1
    MaxInFlight = 1
    OOBOptions = {FALSE}
    IdleReactions = {"ignore"}
    Losses = {}
SYMMETRY Symmetry
INVARIANTS
    OwnReply
